------------------------- MODULE FramePipelineProofs -------------------------
(***************************************************************************)
(* Proofs about FramePipeline, for all image sizes and payload lengths,    *)
(* and about the values of PixelValues.                                    *)
(***************************************************************************)
EXTENDS FramePipeline, PixelValues, TLAPS

(* Arithmetic of products and remainders, which the provers only do one    *)
(* step at a time.                                                         *)

(* What a quotient and its remainder are.                                  *)
LEMMA Division ==
  ASSUME NEW a \in Nat, NEW b \in Nat \ {0}
  PROVE  /\ a \div b \in Nat
         /\ (a \div b) * b <= a
         /\ a < (a \div b) * b + b
         /\ a % b = a - (a \div b) * b
         /\ a % b \in 0..(b - 1)
  BY SMT

(* A common factor can be dropped from a comparison,                       *)
LEMMA Cancel ==
  ASSUME NEW a \in Nat, NEW b \in Nat, NEW c \in Nat \ {0}, a * c < b * c
  PROVE  a < b
  BY SMT

(* and put back, keeping the order                                         *)
LEMMA Grow ==
  ASSUME NEW a \in Nat, NEW b \in Nat, NEW c \in Nat, a <= b
  PROVE  a * c <= b * c
  BY SMT

(* and keeping it strict.                                                  *)
LEMMA GrowStrict ==
  ASSUME NEW a \in Nat, NEW b \in Nat, NEW c \in Nat \ {0}, a < b
  PROVE  a * c < b * c
  BY SMT

------------------------------------------------------------------------------
(* Places and resizing.                                                    *)

(* The nearest row or column of resizeNearest() is one of the source, so   *)
(* the clamp never acts.                                                   *)
LEMMA NearestInside ==
  ASSUME NEW from \in Nat \ {0}, NEW to \in Nat \ {0}, NEW k \in 0..(to - 1)
  PROVE  /\ Nearest(k, from, to) = (k * from) \div to
         /\ Nearest(k, from, to) \in 0..(from - 1)
<1> DEFINE q == (k * from) \div to
<1>1. k * from \in Nat
  BY SMT
<1>2. q \in Nat /\ q * to <= k * from
  BY <1>1, Division
<1>3. k * from < to * from
  BY GrowStrict
<1>4. q * to < from * to
  <2>1. q * to \in Nat /\ from * to \in Nat /\ to * from = from * to
    BY <1>2, SMT
  <2> QED
    BY <2>1, <1>1, <1>2, <1>3
<1>5. q < from
  BY <1>2, <1>4, Cancel
<1> QED
  BY <1>2, <1>5 DEF Nearest

(* A place in an image is its row and its column.                          *)
LEMMA RowAndColumn ==
  ASSUME NEW d \in Sizes, NEW k \in Places(d)
  PROVE  /\ k \in Nat
         /\ k % d.w \in 0..(d.w - 1)
         /\ k \div d.w \in 0..(d.h - 1)
         /\ k = (k \div d.w) * d.w + (k % d.w)
<1> DEFINE w == d.w
           h == d.h
           q == k \div w
           r == k % w
<1>1. w \in Nat \ {0} /\ h \in Nat \ {0} /\ h * w = w * h /\ w * h \in Nat
  BY DEF Sizes
<1>2. k \in Nat /\ k < h * w
  BY <1>1 DEF Places, Area
<1>3. q \in Nat /\ q * w <= k /\ r = k - q * w /\ r \in 0..(w - 1)
  BY <1>1, <1>2, Division
<1> SUFFICES /\ k \in Nat /\ r \in 0..(w - 1) /\ q \in 0..(h - 1) /\ k = q * w + r
  OBVIOUS
<1> HIDE DEF w, h, q, r
<1>4. q * w \in Nat /\ q * w < h * w
  BY <1>1, <1>2, <1>3
<1>5. q < h
  BY <1>1, <1>3, <1>4, Cancel
<1> QED
  BY <1>1, <1>2, <1>3, <1>4, <1>5

(* A row and a column are a place in the image.                            *)
LEMMA PlaceOf ==
  ASSUME NEW d \in Sizes, NEW y \in 0..(d.h - 1), NEW x \in 0..(d.w - 1)
  PROVE  /\ y * d.w + x \in Places(d)
         /\ (y * d.w + x) \div d.w = y
         /\ (y * d.w + x) % d.w = x
<1> DEFINE w == d.w
           h == d.h
           k == y * w + x
           q == k \div w
           r == k % w
<1>1. w \in Nat \ {0} /\ h \in Nat \ {0} /\ h * w = w * h /\ w * h \in Nat
  BY DEF Sizes
<1>2. /\ y \in Nat /\ x \in Nat /\ y + 1 <= h /\ x < w
      /\ y * w \in Nat /\ (y + 1) * w = y * w + w /\ k \in Nat
  <2>1. y \in Nat /\ x \in Nat /\ y + 1 <= h /\ x < w
    BY <1>1
  <2> HIDE DEF w, h
  <2>2. y * w \in Nat /\ (y + 1) * w = y * w + w
    BY <2>1, <1>1
  <2> QED
    BY <2>1, <2>2
<1>3. q \in Nat /\ q * w <= k /\ k < q * w + w /\ r = k - q * w
  BY <1>1, <1>2, Division
<1>4. k \in Places(d) <=> k < w * h
  BY <1>1, <1>2 DEF Places, Area
<1> SUFFICES k < w * h /\ q = y /\ r = x
  BY <1>4
<1>5. k = y * w + x
  OBVIOUS
<1> HIDE DEF w, h, k, q, r
<1>6. (y + 1) * w <= h * w
  BY <1>1, <1>2, Grow
<1>7. q * w \in Nat /\ (q + 1) * w = q * w + w
  BY <1>1, <1>3
<1>8. q < y + 1
  <2>1. q * w < (y + 1) * w
    BY <1>1, <1>2, <1>3, <1>5, <1>7
  <2> QED
    BY <2>1, <1>1, <1>2, <1>3, Cancel
<1>9. y < q + 1
  <2>1. y * w < (q + 1) * w
    BY <1>1, <1>2, <1>3, <1>5, <1>7
  <2> QED
    BY <2>1, <1>1, <1>2, <1>3, Cancel
<1>10. q = y
  BY <1>2, <1>3, <1>8, <1>9
<1> QED
  BY <1>1, <1>2, <1>3, <1>5, <1>6, <1>10

(* The place of the source that resizing reads for place k of the result.  *)
SourcePlace(k, from, to) ==
  Nearest(k \div to.w, from.h, to.h) * from.w + Nearest(k % to.w, from.w, to.w)

(* resizeNearest() reads inside the source, at the nearest row and column. *)
LEMMA SourceInside ==
  ASSUME NEW from \in Sizes, NEW to \in Sizes, NEW k \in Places(to)
  PROVE  /\ SourcePlace(k, from, to) \in Places(from)
         /\ SourcePlace(k, from, to) \div from.w = Nearest(k \div to.w, from.h, to.h)
         /\ SourcePlace(k, from, to) % from.w = Nearest(k % to.w, from.w, to.w)
<1>1. k % to.w \in 0..(to.w - 1) /\ k \div to.w \in 0..(to.h - 1)
  BY RowAndColumn
<1>2. from.w \in Nat \ {0} /\ from.h \in Nat \ {0} /\ to.w \in Nat \ {0} /\ to.h \in Nat \ {0}
  BY DEF Sizes
<1>3. /\ Nearest(k \div to.w, from.h, to.h) \in 0..(from.h - 1)
      /\ Nearest(k % to.w, from.w, to.w) \in 0..(from.w - 1)
  BY <1>1, <1>2, NearestInside
<1> QED
  BY <1>3, PlaceOf DEF SourcePlace

(* Resizing reads inside the source and shows only pixels of it.           *)
LEMMA ResizeKeeps ==
  ASSUME NEW from \in Sizes, NEW to \in Sizes, NEW S, NEW v \in [Places(from) -> S]
  PROVE  ResizeNearest(v, from, to) \in [Places(to) -> S]
<1>1. \A k \in Places(to) : At(v, SourcePlace(k, from, to)) \in S
  BY SourceInside DEF At
<1> QED
  BY <1>1 DEF ResizeNearest, SourcePlace

(* bytesToMonoFrame() reads inside the payload, behind its header unless   *)
(* the header is all there is.                                             *)
LEMMA ChosenInside ==
  ASSUME NEW p \in Payloads, NEW d \in Sizes, NEW k \in Places(d)
  PROVE  /\ Chosen(p, d, k) \in Nat /\ Chosen(p, d, k) < p.len
         /\ p.framed => Chosen(p, d, k) >= 8 \/ (p.len = 8 /\ Chosen(p, d, k) = 7)
<1>1. p.len \in Nat \ {0} /\ p.framed \in BOOLEAN /\ (p.framed => p.len >= 8)
  BY PayloadsAssumption
<1>2. Area(d) \in Nat /\ k \in Nat /\ k < Area(d)
  BY DEF Sizes, Area, Places
<1> DEFINE s == Start(p)
           n == p.len - s
           m == k % n
<1>3. /\ s \in Nat /\ s < p.len /\ n \in Nat \ {0}
      /\ p.framed => s = 8 \/ (p.len = 8 /\ s = 7)
  <2>1. CASE p.framed
    BY <2>1, <1>1 DEF Start
  <2>2. CASE ~p.framed
    BY <2>2, <1>1 DEF Start
  <2> QED
    BY <2>1, <2>2, <1>1
<1>4. CASE p.len >= s + 2 * Area(d)
  <2>1. Chosen(p, d, k) = s + 2 * k
    BY <1>4 DEF Chosen
  <2> HIDE DEF s
  <2>2. p.len = 8 /\ s = 7 => FALSE
    BY <1>2, <1>4
  <2> QED
    BY <1>1, <1>2, <1>3, <1>4, <2>1, <2>2
<1>5. CASE ~(p.len >= s + 2 * Area(d))
  <2>1. Chosen(p, d, k) = s + m
    BY <1>5 DEF Chosen
  <2>2. m \in 0..(n - 1)
    BY <1>2, <1>3, Division
  <2>3. n = p.len - s
    OBVIOUS
  <2> HIDE DEF s, n, m
  <2> QED
    BY <1>1, <1>3, <2>1, <2>2, <2>3
<1> QED
  BY <1>4, <1>5

(* A half of a stereo frame reads inside the frame, in the row it is in    *)
(* and, for the left image, half a row further on.                         *)
LEMMA HalfInside ==
  ASSUME NEW d \in Sizes, d.w > 1, NEW skip \in {0, 1}
  PROVE  /\ HalfSize(d) \in Sizes
         /\ \A k \in Places(HalfSize(d)) :
              /\ HalfPlace(d, skip, k) \in Places(d)
              /\ HalfPlace(d, skip, k) \div d.w = k \div HalfSize(d).w
              /\ HalfPlace(d, skip, k) % d.w = skip * HalfSize(d).w + (k % HalfSize(d).w)
<1> DEFINE u == d.w \div 2
<1>1. d.w \in Nat \ {0} /\ d.h \in Nat \ {0}
  BY DEF Sizes
<1>2. u \in Nat \ {0} /\ 2 * u <= d.w
  BY <1>1
<1>3. HalfSize(d) = [w |-> u, h |-> d.h] /\ HalfSize(d) \in Sizes
  BY <1>1, <1>2 DEF HalfSize, Sizes
<1>4. ASSUME NEW k \in Places(HalfSize(d))
      PROVE  /\ HalfPlace(d, skip, k) \in Places(d)
             /\ HalfPlace(d, skip, k) \div d.w = k \div u
             /\ HalfPlace(d, skip, k) % d.w = skip * u + (k % u)
  <2>1. k \in Nat /\ k % u \in 0..(u - 1) /\ k \div u \in 0..(d.h - 1)
    BY <1>3, <1>4, RowAndColumn
  <2> DEFINE x == skip * u + (k % u)
             y == k \div u
  <2>2. x \in 0..(d.w - 1)
    <3>1. CASE skip = 0
      BY <3>1, <1>1, <1>2, <2>1
    <3>2. CASE skip = 1
      BY <3>2, <1>1, <1>2, <2>1
    <3> QED
      BY <3>1, <3>2
  <2>3. y * d.w + x \in Places(d) /\ (y * d.w + x) \div d.w = y /\ (y * d.w + x) % d.w = x
    BY <2>1, <2>2, PlaceOf
  <2>4. HalfPlace(d, skip, k) = y * d.w + skip * u + (k % u)
    BY <1>3 DEF HalfPlace
  <2>5. y * d.w \in Nat /\ skip * u \in Nat /\ k % u \in Nat
    BY <1>1, <1>2, <2>1
  <2>6. y * d.w + skip * u + (k % u) = y * d.w + x
    <3> DEFINE a == y * d.w
               b == skip * u
               c == k % u
    <3> HIDE DEF a, b, c
    <3>1. a \in Nat /\ b \in Nat /\ c \in Nat => a + b + c = a + (b + c)
      OBVIOUS
    <3> QED
      BY <3>1, <2>5 DEF a, b, c
  <2> QED
    BY <2>3, <2>4, <2>6
<1> QED
  BY <1>3, <1>4

------------------------------------------------------------------------------
(* The inductive invariant.                                                *)

Polls == [Endpoints -> Payloads \cup {NoPayload}]

Has(polled, e) == polled[e] # NoPayload

AnyStream(polled) == Has(polled, "83") \/ Has(polled, "84") \/ Has(polled, "85")

(* The pixels the image of a camera may show.                              *)
Own == [visible |-> "83", left |-> "84", right |-> "85"]

HeaderRule(polled, p) ==
  p.from \in Endpoints /\ polled[p.from].framed =>
    p.at >= 8 \/ (polled[p.from].len = 8 /\ p.at = 7)

OwnRule(polled, image, p) ==
  /\ AnyStream(polled) => p.from \notin {"81", "82"}
  /\ Has(polled, Own[image]) => p.from = Own[image]

Allowed(polled, image) ==
  {p \in [from : Sources \ {"nowhere"}, at : Nat] : HeaderRule(polled, p) /\ OwnRule(polled, image, p)}

Fine(b, S) == b = NoBuffer \/ (b.size \in Sizes /\ b.px \in [Places(b.size) -> S])

InputInv ==
  /\ input.polled \in Polls
  /\ input.kind \in {"none", "vendor", "uvc", "synthetic"}

BuffersInv ==
  /\ Fine(buf.visible, Allowed(input.polled, "visible"))
  /\ Fine(buf.left, Allowed(input.polled, "left"))
  /\ Fine(buf.right, Allowed(input.polled, "right"))
  /\ Fine(buf.native, Allowed(input.polled, "right"))
  /\ HasNative => buf.native.size = cfg.depth

(* Depth is made from the right image, or the right image from depth.      *)
Linked ==
  \/ buf.right = NoBuffer
  \/ buf.native = ToDepth(buf.right)
  \/ buf.right.size = cfg.ir /\ buf.right.px = ResizeNearest(buf.native.px, cfg.depth, cfg.ir)

(* What each topic publishes, and when it can.                             *)
Available(t) ==
  /\ t \in {"depth", "depthColor", "depthIr"} => HasNative
  /\ t \in {"visible", "depthColor"} => HasVisible
  /\ t \in {"left", "right", "depthIr"} => HasIr

ImageOf(t) ==
  CASE t = "depth"      -> DepthImage(buf.native.px, cfg.depth)
    [] t = "visible"    -> Image(buf.visible.px, buf.visible.size)
    [] t = "depthColor" -> Aligned(buf.visible.size)
    [] t = "left"       -> Image(buf.left.px, buf.left.size)
    [] t = "right"      -> Image(buf.right.px, buf.right.size)
    [] t = "depthIr"    -> Aligned(buf.right.size)

ShownInv ==
  /\ DOMAIN shown = Topics
  /\ pc = "idle" => shown = NothingShown
  /\ \A t \in Topics : shown[t] = NoImage \/ (Available(t) /\ shown[t] = ImageOf(t))

IInv ==
  /\ pc \in {"idle", "depth", "visible", "depthColor", "ir", "depthIr", "done"}
  /\ cfg \in Configs
  /\ InputInv
  /\ BuffersInv
  /\ Linked
  /\ ShownInv

(* The configured sizes are sizes.                                         *)
LEMMA ConfigSizes ==
  ASSUME cfg \in Configs
  PROVE  cfg.depth \in Sizes /\ cfg.visible \in Sizes /\ cfg.ir \in Sizes
  BY ConfigsAssumption

(* An empty buffer is no image.                                            *)
LEMMA NoSizeIsNone == NoSize \notin Sizes /\ (\A S : Fine(NoBuffer, S))
  BY DEF NoSize, Sizes, Fine

(* A buffer that is not empty has as many pixels as its size says.         *)
LEMMA FineSize ==
  ASSUME NEW S, NEW b, Fine(b, S)
  PROVE  /\ b.size = NoSize <=> b = NoBuffer
         /\ b # NoBuffer => b.size \in Sizes /\ b.px \in [Places(b.size) -> S]
  BY DEF Fine, NoBuffer, NoSize, Sizes

(* Resizing to the size of the depth image keeps a buffer whole.           *)
LEMMA DepthFine ==
  ASSUME cfg \in Configs, NEW S, NEW b, Fine(b, S), b # NoBuffer
  PROVE  ToDepth(b).size = cfg.depth /\ Fine(ToDepth(b), S)
<1>1. b.size \in Sizes /\ b.px \in [Places(b.size) -> S] /\ cfg.depth \in Sizes
  BY FineSize, ConfigSizes
<1>2. b.size # cfg.depth => ResizeNearest(b.px, b.size, cfg.depth) \in [Places(cfg.depth) -> S]
  BY <1>1, ResizeKeeps
<1> QED
  BY <1>1, <1>2 DEF ToDepth, Fine

(* The images of a state that satisfies the invariant.                     *)
Camera(t) == IF t \in {"visible", "left"} THEN t ELSE "right"

(* In a state of the invariant, every image shown is whole and made of     *)
(* pixels it may show.                                                     *)
LEMMA ImagesFine ==
  ASSUME IInv, NEW t \in Topics, shown[t] # NoImage
  PROVE  /\ shown[t].size \in Sizes /\ shown[t].info = shown[t].size
         /\ shown[t].px \in [Places(shown[t].size) -> Allowed(input.polled, Camera(t))]
<1>1. Available(t) /\ shown[t] = ImageOf(t)
  BY DEF IInv, ShownInv
<1>2. BuffersInv /\ cfg.depth \in Sizes
  BY ConfigSizes DEF IInv
<1>3. HasNative => buf.native.px \in [Places(cfg.depth) -> Allowed(input.polled, "right")]
  BY <1>2, FineSize DEF BuffersInv, HasNative
<1>4. HasVisible => /\ buf.visible.size \in Sizes
                    /\ buf.visible.px \in [Places(buf.visible.size) -> Allowed(input.polled, "visible")]
  BY <1>2, FineSize DEF BuffersInv, HasVisible
<1>5. HasIr => /\ buf.left.size \in Sizes /\ buf.right.size \in Sizes
               /\ buf.left.px \in [Places(buf.left.size) -> Allowed(input.polled, "left")]
               /\ buf.right.px \in [Places(buf.right.size) -> Allowed(input.polled, "right")]
  BY <1>2, FineSize DEF BuffersInv, HasIr
<1>6. ASSUME NEW d \in Sizes, HasNative
      PROVE  /\ Aligned(d).size = d /\ Aligned(d).info = d
             /\ Aligned(d).px \in [Places(d) -> Allowed(input.polled, "right")]
  <2>1. ResizeNearest(buf.native.px, cfg.depth, d) \in [Places(d) -> Allowed(input.polled, "right")]
    BY <1>2, <1>3, <1>6, ResizeKeeps
  <2> QED
    BY <2>1 DEF Aligned, DepthImage, At
<1>7. CASE t = "depth"
  BY <1>1, <1>2, <1>3, <1>7 DEF Available, ImageOf, DepthImage, At, Camera
<1>8. CASE t = "visible"
  BY <1>1, <1>4, <1>8 DEF Available, ImageOf, Image, Camera
<1>9. CASE t = "depthColor"
  BY <1>1, <1>4, <1>6, <1>9 DEF Available, ImageOf, Camera
<1>10. CASE t = "left"
  BY <1>1, <1>5, <1>10 DEF Available, ImageOf, Image, Camera
<1>11. CASE t = "right"
  BY <1>1, <1>5, <1>11 DEF Available, ImageOf, Image, Camera
<1>12. CASE t = "depthIr"
  BY <1>1, <1>5, <1>6, <1>12 DEF Available, ImageOf, Camera
<1> QED
  BY <1>7, <1>8, <1>9, <1>10, <1>11, <1>12 DEF Topics

(* A callback that polls nothing has no payload.                           *)
LEMMA EmptyPoll == NoInput.polled \in Polls /\ (\A e \in Endpoints : NoInput.polled[e] = NoPayload)
  BY DEF NoInput, Polls

(* The invariant holds before the first callback.                          *)
LEMMA Initially == Init => IInv
  BY EmptyPoll, NoSizeIsNone
  DEF Init, IInv, InputInv, BuffersInv, Linked, ShownInv, NoBuffers, HasNative, NothingShown, NoInput

------------------------------------------------------------------------------
(* The three ways to fill the buffers.                                     *)

(* pickFirst() returns an endpoint with a payload, and prefers streams to  *)
(* status bytes.                                                           *)
LEMMA Picked ==
  ASSUME NEW image \in {"visible", "left", "right"}, NEW polled \in Polls,
         \E e \in Endpoints : Has(polled, e)
  PROVE  LET e == PickFirst(polled, Order(image))
         IN  /\ e \in Endpoints /\ Has(polled, e)
             /\ AnyStream(polled) => e \notin {"81", "82"}
             /\ Has(polled, Own[image]) => e = Own[image]
<1> DEFINE order == Order(image)
           IsFirst(i) == /\ polled[order[i]].len > 0
                         /\ \A j \in 1..(i - 1) : polled[order[j]].len = 0
           first == CHOOSE i \in 1..5 : IsFirst(i)
<1>1. ASSUME NEW e \in Endpoints
      PROVE  polled[e].len \in Nat /\ (polled[e].len > 0 <=> Has(polled, e))
  <2>1. CASE polled[e] = NoPayload
    BY <2>1 DEF NoPayload, Has
  <2>2. CASE polled[e] \in Payloads
    <3>1. polled[e].len \in Nat \ {0}
      BY <2>2, PayloadsAssumption
    <3>2. NoPayload.len = 0
      BY DEF NoPayload
    <3> QED
      BY <3>1, <3>2 DEF Has
  <2> QED
    BY <2>1, <2>2 DEF Polls
<1>2. /\ order[1] = Own[image] /\ order[4] = "82" /\ order[5] = "81"
      /\ {order[1], order[2], order[3]} = {"83", "84", "85"}
  BY DEF Order, Own
<1>3. \A i \in 1..5 : order[i] \in Endpoints
  BY <1>2 DEF Endpoints
<1>4. \A e \in Endpoints : \E i \in 1..5 : order[i] = e
  BY <1>2 DEF Endpoints
<1> HIDE DEF order
<1>5. \E i \in 1..5 : IsFirst(i)
  <2>1. PICK i \in 1..5 : Has(polled, order[i])
    BY <1>4
  <2>2. CASE Has(polled, order[1])
    BY <2>2, <1>1, <1>3
  <2>3. CASE ~Has(polled, order[1]) /\ Has(polled, order[2])
    BY <2>3, <1>1, <1>3
  <2>4. CASE ~Has(polled, order[1]) /\ ~Has(polled, order[2]) /\ Has(polled, order[3])
    BY <2>4, <1>1, <1>3
  <2>5. CASE ~Has(polled, order[1]) /\ ~Has(polled, order[2]) /\ ~Has(polled, order[3]) /\ Has(polled, order[4])
    BY <2>5, <1>1, <1>3
  <2>6. CASE ~Has(polled, order[1]) /\ ~Has(polled, order[2]) /\ ~Has(polled, order[3]) /\ ~Has(polled, order[4])
    BY <2>1, <2>6, <1>1, <1>3
  <2> QED
    BY <2>2, <2>3, <2>4, <2>5, <2>6
<1>6. first \in 1..5 /\ IsFirst(first)
  BY <1>5
<1>7. PickFirst(polled, Order(image)) = order[first]
  BY DEF PickFirst, order
<1> HIDE DEF first
<1>8. order[first] \in Endpoints /\ Has(polled, order[first])
  BY <1>1, <1>3, <1>6
<1>9. \A j \in 1..5 : j < first => ~Has(polled, order[j])
  BY <1>1, <1>3, <1>6
<1>10. Has(polled, Own[image]) => order[first] = Own[image]
  BY <1>2, <1>6, <1>9
<1>11. AnyStream(polled) => order[first] \notin {"81", "82"}
  <2>1. ASSUME NEW i \in 1..3, Has(polled, order[i])
        PROVE  first \in 1..3
    BY <2>1, <1>6, <1>9
  <2>2. AnyStream(polled) => \E i \in 1..3 : Has(polled, order[i])
    BY <1>2 DEF AnyStream
  <2>3. first \in 1..3 => order[first] \in {"83", "84", "85"}
    BY <1>2
  <2> QED
    BY <2>1, <2>2, <2>3
<1> QED
  BY <1>7, <1>8, <1>10, <1>11

(* What the vendor callback puts in a buffer has the size asked for.       *)
LEMMA VendorFine ==
  ASSUME NEW image \in {"visible", "left", "right"}, NEW d \in Sizes, NEW polled \in Polls,
         \E e \in Endpoints : Has(polled, e)
  PROVE  LET b == VendorBuffer(polled, image, d)
         IN  b.size = d /\ b.px \in [Places(d) -> Allowed(polled, image)]
<1> DEFINE e == PickFirst(polled, Order(image))
           p == polled[e]
<1>1. /\ e \in Endpoints /\ Has(polled, e)
      /\ AnyStream(polled) => e \notin {"81", "82"}
      /\ Has(polled, Own[image]) => e = Own[image]
  BY Picked
<1>2. p \in Payloads
  BY <1>1 DEF Polls, Has
<1>3. VendorBuffer(polled, image, d) = [size |-> d, px |-> BytesToMono(e, p, d)]
  BY DEF VendorBuffer
<1> HIDE DEF e
<1>4. ASSUME NEW k \in Places(d)
      PROVE  /\ Chosen(p, d, k) < p.len
             /\ Pixel(e, Chosen(p, d, k)) \in Allowed(polled, image)
  <2>1. /\ Chosen(p, d, k) \in Nat /\ Chosen(p, d, k) < p.len
        /\ p.framed => Chosen(p, d, k) >= 8 \/ (p.len = 8 /\ Chosen(p, d, k) = 7)
    BY <1>2, ChosenInside
  <2> DEFINE x == Pixel(e, Chosen(p, d, k))
  <2>2. x \in [from : Sources \ {"nowhere"}, at : Nat] /\ x.from = e /\ x.at = Chosen(p, d, k)
    BY <1>1, <2>1 DEF Pixel, Sources, Endpoints
  <2> HIDE DEF x
  <2>3. HeaderRule(polled, x) /\ OwnRule(polled, image, x)
    BY <1>1, <2>1, <2>2 DEF HeaderRule, OwnRule
  <2> QED
    BY <2>1, <2>2, <2>3 DEF Allowed, x
<1>5. BytesToMono(e, p, d) \in [Places(d) -> Allowed(polled, image)]
  BY <1>4 DEF BytesToMono
<1> QED
  BY <1>3, <1>5

(* Pixels that are not bytes of an endpoint obey the rules of an empty     *)
(* poll, whatever the image.                                               *)
Others == [from : {"visible", "ir", "depth", "rgb"}, at : Nat]

Empty == NoInput.polled

(* Pixels of UVC and synthetic frames may be shown where nothing was       *)
(* polled.                                                                 *)
LEMMA OthersAllowed ==
  ASSUME NEW image \in {"visible", "left", "right"}
  PROVE  Others \subseteq Allowed(Empty, image)
<1>1. Own[image] \in Endpoints /\ (\A e \in Endpoints : ~Has(Empty, e))
  BY EmptyPoll DEF Own, Endpoints, Has, Empty
<1>2. ~AnyStream(Empty)
  BY <1>1 DEF AnyStream, Endpoints
<1>3. ASSUME NEW p \in Others
      PROVE  p \in [from : Sources \ {"nowhere"}, at : Nat] /\ p.from \notin Endpoints
  BY <1>3 DEF Others, Sources, Endpoints
<1> QED
  BY <1>1, <1>2, <1>3 DEF Allowed, HeaderRule, OwnRule

(* So may buffers of them.                                                 *)
LEMMA OthersFine ==
  ASSUME NEW image \in {"visible", "left", "right"}, NEW b, Fine(b, Others)
  PROVE  Fine(b, Allowed(Empty, image))
  BY OthersAllowed DEF Fine

(* A UVC or synthetic frame is a whole image.                              *)
LEMMA FrameFine ==
  ASSUME NEW source \in {"visible", "ir", "depth", "rgb"}, NEW d \in Sizes
  PROVE  LET b == FrameBuffer(source, d)
         IN  b.size = d /\ b # NoBuffer /\ b.px \in [Places(d) -> Others] /\ Fine(b, Others)
<1>1. Places(d) \subseteq Nat
  BY DEF Places
<1>2. \A k \in Nat : Pixel(source, k) \in Others
  BY DEF Pixel, Others
<1>3. NoBuffer.size \notin Sizes
  BY NoSizeIsNone DEF NoBuffer
<1> QED
  BY <1>1, <1>2, <1>3 DEF FrameBuffer, Fine

(* The depth image of a UVC callback has the size of the depth image.      *)
LEMMA NativeFine ==
  ASSUME cfg \in Configs, NEW S, NEW v, Fine(v, S), NEW r, Fine(r, S)
  PROVE  Fine(Native(v, r), S) /\ (Native(v, r) # NoBuffer => Native(v, r).size = cfg.depth)
<1>1. CASE r # NoBuffer
  BY <1>1, FineSize, DepthFine DEF Native
<1>2. CASE r = NoBuffer /\ v # NoBuffer
  BY <1>2, FineSize, DepthFine DEF Native
<1>3. CASE r = NoBuffer /\ v = NoBuffer
  BY <1>3, FineSize, NoSizeIsNone DEF Native
<1> QED
  BY <1>1, <1>2, <1>3

(* Each half of a stereo frame is a whole image.                           *)
LEMMA HalfFine ==
  ASSUME NEW d \in Sizes, d.w > 1, NEW skip \in {0, 1}, NEW b,
         b.size = d, b.px \in [Places(d) -> Others]
  PROVE  Fine(Half(b, skip), Others)
  BY HalfInside DEF Half, Fine, At

(* So is the visible frame that stands in for a missing half.              *)
LEMMA StandInFine ==
  ASSUME cfg \in Configs, NEW v, Fine(v, Others)
  PROVE  Fine(StandIn(v), Others)
<1>1. CASE v.size = NoSize
  BY <1>1, NoSizeIsNone DEF StandIn
<1>2. CASE v.size # NoSize
  <2>1. v.size \in Sizes /\ v.px \in [Places(v.size) -> Others]
    BY <1>2, FineSize
  <2>2. ResizeNearest(v.px, v.size, cfg.ir) \in [Places(cfg.ir) -> Others]
    BY <2>1, ConfigSizes, ResizeKeeps
  <2> QED
    BY <1>2, <2>2, ConfigSizes DEF StandIn, Fine
<1> QED
  BY <1>1, <1>2

(* Both halves of a split frame are whole or missing.                      *)
LEMMA StereoFine ==
  ASSUME NEW d \in Sizes
  PROVE  LET stereo == SplitStereo(FrameBuffer("ir", d))
         IN  Fine(stereo.left, Others) /\ Fine(stereo.right, Others)
<1> DEFINE b == FrameBuffer("ir", d)
<1>1. b.size = d /\ b.px \in [Places(d) -> Others] /\ Fine(b, Others)
  BY FrameFine
<1> SUFFICES Fine(SplitStereo(b).left, Others) /\ Fine(SplitStereo(b).right, Others)
  OBVIOUS
<1> HIDE DEF b
<1>2. CASE d.w <= 1
  BY <1>1, <1>2, NoSizeIsNone DEF SplitStereo
<1>3. CASE ~(d.w <= 1) /\ cfg.split
  <2>1. d.w > 1
    BY <1>3 DEF Sizes
  <2>2. Fine(Half(b, 0), Others) /\ Fine(Half(b, 1), Others)
    BY <1>1, <2>1, HalfFine
  <2> QED
    BY <1>1, <1>3, <2>2 DEF SplitStereo
<1>4. CASE ~(d.w <= 1) /\ ~cfg.split
  BY <1>1, <1>4 DEF SplitStereo
<1> QED
  BY <1>2, <1>3, <1>4

(* Filling the buffers from payloads keeps the invariant.                  *)
LEMMA VendorKeeps ==
  ASSUME IInv, FillVendor
  PROVE  IInv'
<1>1. PICK polled \in Polls :
        /\ \E e \in Endpoints : polled[e] # NoPayload
        /\ buf' = VendorBuffers(polled)
        /\ input' = [NoInput EXCEPT !.kind = "vendor", !.polled = polled]
  BY DEF FillVendor, Polls
<1>2. input'.polled = polled /\ input'.kind = "vendor"
  BY <1>1 DEF NoInput
<1>3. pc' = "depth" /\ cfg' = cfg /\ cfg \in Configs /\ shown' = shown /\ shown = NothingShown
  BY DEF FillVendor, IInv, ShownInv
<1>4. \E e \in Endpoints : Has(polled, e)
  BY <1>1 DEF Has
<1> DEFINE V(image, d) == VendorBuffer(polled, image, d)
<1>5. \A image \in {"visible", "left", "right"}, d \in Sizes :
        V(image, d).size = d /\ V(image, d).px \in [Places(d) -> Allowed(polled, image)]
  BY <1>4, VendorFine
<1>6. /\ buf'.visible = V("visible", cfg.visible) /\ buf'.left = V("left", cfg.ir)
      /\ buf'.right = V("right", cfg.ir)
      /\ buf'.native = Native(V("visible", cfg.visible), V("right", cfg.ir))
  BY <1>1 DEF VendorBuffers
<1>7. cfg.visible \in Sizes /\ cfg.ir \in Sizes
  BY <1>3, ConfigSizes
<1> HIDE DEF V
<1>8. V("right", cfg.ir).size = cfg.ir /\ cfg.ir # NoSize /\ V("right", cfg.ir) # NoBuffer
      /\ Fine(V("right", cfg.ir), Allowed(polled, "right"))
  BY <1>5, <1>7, NoSizeIsNone DEF Fine, NoBuffer
<1>9. buf'.native = ToDepth(V("right", cfg.ir))
  BY <1>6, <1>8 DEF Native
<1>10. Fine(buf'.native, Allowed(polled, "right")) /\ buf'.native.size = cfg.depth
  BY <1>3, <1>8, <1>9, DepthFine
<1>11. /\ Fine(buf'.visible, Allowed(polled, "visible"))
       /\ Fine(buf'.left, Allowed(polled, "left"))
       /\ Fine(buf'.right, Allowed(polled, "right"))
  BY <1>5, <1>6, <1>7 DEF Fine
<1>12. BuffersInv'
  BY <1>2, <1>3, <1>10, <1>11 DEF BuffersInv
<1>13. ShownInv'
  BY <1>3 DEF ShownInv, NothingShown
<1>14. Linked'
  BY <1>3, <1>6, <1>9 DEF Linked, ToDepth
<1> QED
  BY <1>2, <1>3, <1>12, <1>13, <1>14 DEF IInv, InputInv

(* Frames and synthetic images come with an empty poll.                    *)
LEMMA OthersKeep ==
  ASSUME IInv, pc = "idle", UNCHANGED <<cfg, shown>>, pc' = "depth",
         input'.polled = Empty, input'.kind \in {"uvc", "synthetic"},
         Fine(buf'.visible, Others), Fine(buf'.left, Others), Fine(buf'.right, Others),
         Fine(buf'.native, Others), buf'.native # NoBuffer => buf'.native.size = cfg.depth,
         Linked'
  PROVE  IInv'
<1>1. /\ Fine(buf'.visible, Allowed(Empty, "visible"))
      /\ Fine(buf'.left, Allowed(Empty, "left"))
      /\ Fine(buf'.right, Allowed(Empty, "right"))
      /\ Fine(buf'.native, Allowed(Empty, "right"))
  BY OthersFine
<1>2. BuffersInv'
  BY <1>1 DEF BuffersInv, HasNative
<1>3. ShownInv'
  BY DEF IInv, ShownInv, NothingShown
<1>4. InputInv'
  BY EmptyPoll DEF InputInv, Empty
<1> QED
  BY <1>2, <1>3, <1>4 DEF IInv

(* Filling them from UVC frames keeps it.                                  *)
LEMMA UvcKeeps ==
  ASSUME IInv, FillUvc
  PROVE  IInv'
<1>1. PICK v \in FrameSizes \cup {NoSize}, i \in FrameSizes \cup {NoSize} :
        /\ buf' = UvcBuffers(v, i)
        /\ input' = [NoInput EXCEPT !.kind = "uvc", !.visible = v, !.ir = i]
  BY DEF FillUvc
<1> DEFINE visible == IF v = NoSize THEN NoBuffer ELSE FrameBuffer("visible", v)
           stereo  == IF i = NoSize THEN [left |-> NoBuffer, right |-> NoBuffer]
                      ELSE SplitStereo(FrameBuffer("ir", i))
           left    == IF stereo.left = NoBuffer THEN StandIn(visible) ELSE stereo.left
           right   == IF stereo.left = NoBuffer THEN StandIn(visible) ELSE stereo.right
<1>2. cfg \in Configs
  BY DEF IInv
<1>3. Fine(visible, Others)
  BY NoSizeIsNone, FrameFine, FrameSizesAssumption
<1>4. Fine(stereo.left, Others) /\ Fine(stereo.right, Others)
  BY NoSizeIsNone, StereoFine, FrameSizesAssumption
<1>5. Fine(StandIn(visible), Others)
  BY <1>2, <1>3, StandInFine
<1>6. Fine(left, Others) /\ Fine(right, Others)
  BY <1>4, <1>5
<1>7. /\ buf'.visible = visible /\ buf'.left = left /\ buf'.right = right
      /\ buf'.native = Native(visible, right)
  BY <1>1 DEF UvcBuffers
<1>8. input'.polled = Empty /\ input'.kind = "uvc"
  BY <1>1 DEF NoInput, Empty
<1> HIDE DEF visible, stereo, left, right
<1>9. /\ Fine(buf'.native, Others)
      /\ buf'.native # NoBuffer => buf'.native.size = cfg.depth
  BY <1>2, <1>3, <1>6, <1>7, NativeFine
<1>10. pc = "idle" /\ pc' = "depth" /\ UNCHANGED <<cfg, shown>>
  BY DEF FillUvc
<1>11. right # NoBuffer => Native(visible, right) = ToDepth(right)
  BY <1>6, FineSize DEF Native
<1>12. Linked'
  BY <1>7, <1>10, <1>11 DEF Linked, ToDepth
<1> QED
  BY <1>3, <1>6, <1>7, <1>8, <1>9, <1>10, <1>12, OthersKeep

(* Filling them with synthetic frames keeps it.                            *)
LEMMA SyntheticKeeps ==
  ASSUME IInv, FillSynthetic
  PROVE  IInv'
<1> DEFINE depth == FrameBuffer("depth", cfg.depth)
           ir    == [size |-> cfg.ir, px |-> ResizeNearest(depth.px, cfg.depth, cfg.ir)]
<1>1. cfg.depth \in Sizes /\ cfg.visible \in Sizes /\ cfg.ir \in Sizes
  BY ConfigSizes DEF IInv
<1>2. /\ depth.size = cfg.depth /\ depth.px \in [Places(cfg.depth) -> Others]
      /\ Fine(depth, Others) /\ Fine(FrameBuffer("rgb", cfg.visible), Others)
  BY <1>1, FrameFine
<1>3. /\ buf'.visible = FrameBuffer("rgb", cfg.visible) /\ buf'.left = ir
      /\ buf'.right = ir /\ buf'.native = depth
  BY DEF FillSynthetic, SyntheticBuffers
<1>4. input'.polled = Empty /\ input'.kind = "synthetic"
  BY DEF FillSynthetic, NoInput, Empty
<1>5. pc = "idle" /\ pc' = "depth" /\ UNCHANGED <<cfg, shown>>
  BY DEF FillSynthetic
<1> HIDE DEF depth
<1>6. Fine(ir, Others)
  BY <1>1, <1>2, ResizeKeeps DEF Fine
<1>7. Linked'
  BY <1>3, <1>5 DEF Linked
<1> HIDE DEF ir
<1> QED
  BY <1>2, <1>3, <1>4, <1>5, <1>6, <1>7, OthersKeep

------------------------------------------------------------------------------
(* Publishing changes only what is shown.                                  *)

(* While nothing is filled, what is available and what it looks like       *)
(* stays.                                                                  *)
LEMMA SameBuffers ==
  ASSUME UNCHANGED <<cfg, buf, input>>, IInv
  PROVE  /\ cfg' \in Configs /\ InputInv' /\ BuffersInv' /\ Linked'
         /\ \A t \in Topics : (Available(t)' <=> Available(t)) /\ ImageOf(t)' = ImageOf(t)
<1>1. cfg' \in Configs /\ InputInv'
  BY DEF IInv, InputInv
<1>2. BuffersInv'
  BY DEF IInv, BuffersInv, HasNative
<1>3. Linked'
  BY DEF IInv, Linked, ToDepth
<1>4. (HasNative' <=> HasNative) /\ (HasVisible' <=> HasVisible) /\ (HasIr' <=> HasIr)
  BY DEF HasNative, HasVisible, HasIr
<1>5. \A d : Aligned(d)' = Aligned(d)
  BY DEF Aligned
<1>6. \A t \in Topics : (Available(t)' <=> Available(t))
  BY <1>4 DEF Available
<1>7. \A t \in Topics : ImageOf(t)' = ImageOf(t)
  BY <1>5 DEF ImageOf
<1> QED
  BY <1>1, <1>2, <1>3, <1>6, <1>7

(* Publishing what is available keeps the invariant,                       *)
LEMMA PublishKeeps ==
  ASSUME IInv, pc # "idle", UNCHANGED <<cfg, buf, input>>,
         pc' \in {"visible", "depthColor", "ir", "depthIr", "done"},
         DOMAIN shown' = Topics,
         \A t \in Topics : shown'[t] = shown[t] \/ (Available(t) /\ shown'[t] = ImageOf(t))
  PROVE  IInv'
<1>1. ShownInv'
  BY SameBuffers DEF IInv, ShownInv
<1> QED
  BY <1>1, SameBuffers DEF IInv

(* one topic at a time,                                                    *)
LEMMA OneTopicKeeps ==
  ASSUME IInv, NEW topic \in Topics, pc = topic,
         NEW next \in {"visible", "depthColor", "ir", "depthIr", "done"}, pc' = next,
         UNCHANGED <<cfg, buf, input>>,
         \/ Available(topic) /\ shown' = [shown EXCEPT ![topic] = ImageOf(topic)]
         \/ shown' = shown
  PROVE  IInv'
<1>1. pc # "idle"
  BY DEF Topics
<1>2. DOMAIN shown = Topics
  BY DEF IInv, ShownInv
<1> QED
  BY <1>1, <1>2, PublishKeeps

(* or all the infrared topics at once.                                     *)
LEMMA IrKeeps ==
  ASSUME IInv, PublishIr
  PROVE  IInv'
<1>1. pc = "ir" /\ UNCHANGED <<cfg, buf, input>> /\ pc' = "depthIr"
  BY DEF PublishIr
<1>2. \/ HasIr /\ shown' = [shown EXCEPT !["left"] = ImageOf("left"), !["right"] = ImageOf("right")]
      \/ shown' = shown
  BY DEF PublishIr, ImageOf
<1>3. HasIr => Available("left") /\ Available("right")
  BY DEF Available
<1>4. DOMAIN shown = Topics
  BY DEF IInv, ShownInv
<1> QED
  BY <1>1, <1>2, <1>3, <1>4, PublishKeeps

(* The end of a callback, which frees its buffers, keeps it.               *)
LEMMA ReturnKeeps ==
  ASSUME IInv, Return
  PROVE  IInv'
<1>1. cfg' = cfg /\ pc' = "idle" /\ buf' = NoBuffers /\ input' = NoInput /\ shown' = NothingShown
  BY DEF Return
<1>2. BuffersInv' /\ Linked'
  BY <1>1, NoSizeIsNone DEF BuffersInv, Linked, NoBuffers, HasNative
<1>3. InputInv' /\ ShownInv'
  BY <1>1, EmptyPoll DEF InputInv, ShownInv, NothingShown, NoInput
<1> QED
  BY <1>1, <1>2, <1>3 DEF IInv

(* Every step of the callbacks keeps the invariant.                        *)
LEMMA Inductive == IInv /\ [Next]_vars => IInv'
<1> SUFFICES ASSUME IInv, [Next]_vars PROVE IInv'
  OBVIOUS
<1>1. CASE FillVendor
  BY <1>1, VendorKeeps
<1>2. CASE FillUvc
  BY <1>2, UvcKeeps
<1>3. CASE FillSynthetic
  BY <1>3, SyntheticKeeps
<1>4. CASE PublishDepth
  <2>1. /\ pc = "depth" /\ pc' = "visible" /\ UNCHANGED <<cfg, buf, input>>
        /\ \/ Available("depth") /\ shown' = [shown EXCEPT !["depth"] = ImageOf("depth")]
           \/ shown' = shown
    BY <1>4 DEF PublishDepth, Publish, Available, ImageOf
  <2> QED
    BY <2>1, OneTopicKeeps DEF Topics
<1>5. CASE PublishVisible
  <2>1. /\ pc = "visible" /\ pc' = "depthColor" /\ UNCHANGED <<cfg, buf, input>>
        /\ \/ Available("visible") /\ shown' = [shown EXCEPT !["visible"] = ImageOf("visible")]
           \/ shown' = shown
    BY <1>5 DEF PublishVisible, Publish, Available, ImageOf
  <2> QED
    BY <2>1, OneTopicKeeps DEF Topics
<1>6. CASE PublishDepthColor
  <2>1. /\ pc = "depthColor" /\ pc' = "ir" /\ UNCHANGED <<cfg, buf, input>>
        /\ \/ Available("depthColor") /\ shown' = [shown EXCEPT !["depthColor"] = ImageOf("depthColor")]
           \/ shown' = shown
    BY <1>6 DEF PublishDepthColor, Publish, Available, ImageOf
  <2> QED
    BY <2>1, OneTopicKeeps DEF Topics
<1>7. CASE PublishIr
  BY <1>7, IrKeeps
<1>8. CASE PublishDepthIr
  <2>1. /\ pc = "depthIr" /\ pc' = "done" /\ UNCHANGED <<cfg, buf, input>>
        /\ \/ Available("depthIr") /\ shown' = [shown EXCEPT !["depthIr"] = ImageOf("depthIr")]
           \/ shown' = shown
    BY <1>8 DEF PublishDepthIr, Publish, Available, ImageOf
  <2> QED
    BY <2>1, OneTopicKeeps DEF Topics
<1>9. CASE Return
  BY <1>9, ReturnKeeps
<1>10. CASE UNCHANGED vars
  <2>1. UNCHANGED <<cfg, buf, input>> /\ shown' = shown /\ pc' = pc
    BY <1>10 DEF vars
  <2>2. ShownInv'
    BY <2>1, SameBuffers DEF IInv, ShownInv
  <2> QED
    BY <2>1, <2>2, SameBuffers DEF IInv
<1> QED
  BY <1>1, <1>2, <1>3, <1>4, <1>5, <1>6, <1>7, <1>8, <1>9, <1>10 DEF Next, Fill

(* Every callback keeps the invariant.                                     *)
THEOREM Invariant == Spec => []IInv
  BY Initially, Inductive, PTL DEF Spec

(* A topic that shows nothing has no pixel.                                *)
LEMMA NothingHasNoPixels == \A k : k \notin DOMAIN NoImage.px
  BY DEF NoImage, NoPixels

(* Every image announces the size it has, and so does its camera info.     *)
THEOREM TypeCorrect == Spec => []TypeOK
<1>1. ASSUME IInv PROVE TypeOK
  <2>1. ASSUME NEW t \in Topics, shown[t] # NoImage
        PROVE  IsImage(shown[t])
    <3>1. /\ shown[t].size \in Sizes /\ shown[t].info = shown[t].size
          /\ shown[t].px \in [Places(shown[t].size) -> Allowed(input.polled, Camera(t))]
      BY <1>1, <2>1, ImagesFine
    <3>2. Allowed(input.polled, Camera(t)) \subseteq [from : Sources, at : Nat]
      BY DEF Allowed
    <3> QED
      BY <3>1, <3>2 DEF IsImage
  <2> QED
    BY <1>1, <2>1 DEF IInv, InputInv, TypeOK
<1> QED
  BY <1>1, Invariant, PTL

(* No image shows memory from outside a buffer, whatever the sizes.        *)
THEOREM ReadsInside == Spec => []NothingOutOfBounds
<1>1. ASSUME IInv PROVE NothingOutOfBounds
  <2>1. ASSUME NEW t \in Topics, NEW k \in DOMAIN shown[t].px
        PROVE  shown[t].px[k] # Garbage
    <3>1. shown[t] # NoImage
      BY <2>1, NothingHasNoPixels
    <3>2. shown[t].px[k] \in Allowed(input.polled, Camera(t))
      BY <1>1, <2>1, <3>1, ImagesFine
    <3> QED
      BY <3>2 DEF Allowed, Garbage
  <2> QED
    BY <2>1 DEF NothingOutOfBounds
<1> QED
  BY <1>1, Invariant, PTL

(* No image shows a header byte but the last one of a header without data. *)
THEOREM HeadersStripped == Spec => []HeaderHidden
<1>1. ASSUME IInv PROVE HeaderHidden
  <2>1. ASSUME NEW t \in Topics, NEW k \in DOMAIN shown[t].px
        PROVE  HeaderRule(input.polled, shown[t].px[k])
    <3>1. shown[t] # NoImage
      BY <2>1, NothingHasNoPixels
    <3>2. shown[t].px[k] \in Allowed(input.polled, Camera(t))
      BY <1>1, <2>1, <3>1, ImagesFine
    <3> QED
      BY <3>2 DEF Allowed
  <2> QED
    BY <2>1 DEF HeaderRule, HeaderHidden
<1> QED
  BY <1>1, Invariant, PTL

(* A camera with data shows its own endpoint, and status bytes are shown   *)
(* only when no stream has any.                                            *)
THEOREM OwnStreams == Spec => []OwnStreamShown
<1>1. ASSUME IInv PROVE OwnStreamShown
  <2>1. ASSUME NEW t \in Topics
        PROVE  /\ AnyStream(input.polled) => From(shown[t]) \cap {"81", "82"} = {}
               /\ Has(input.polled, Own[Camera(t)]) => From(shown[t]) \subseteq {Own[Camera(t)]}
    <3>1. ASSUME NEW k \in DOMAIN shown[t].px
          PROVE  OwnRule(input.polled, Camera(t), shown[t].px[k])
      <4>1. shown[t] # NoImage
        BY <3>1, NothingHasNoPixels
      <4>2. shown[t].px[k] \in Allowed(input.polled, Camera(t))
        BY <1>1, <3>1, <4>1, ImagesFine
      <4> QED
        BY <4>2 DEF Allowed
    <3> QED
      BY <3>1 DEF OwnRule, From
  <2>2. /\ Camera("visible") = "visible" /\ Camera("left") = "left"
        /\ \A t \in {"right", "depth", "depthColor", "depthIr"} : Camera(t) = "right"
    BY DEF Camera
  <2>3. Own["visible"] = "83" /\ Own["left"] = "84" /\ Own["right"] = "85"
    BY DEF Own
  <2> QED
    BY <2>1, <2>2, <2>3 DEF OwnStreamShown, Topics, AnyStream, Has
<1> QED
  BY <1>1, Invariant, PTL

------------------------------------------------------------------------------
(* Depth and the infrared image.                                           *)

(* The slack, times the destination, covers the source.                    *)
LEMMA SlackCovers ==
  ASSUME NEW s \in Nat \ {0}, NEW d \in Nat \ {0}
  PROVE  Slack(s, d) \in Nat /\ s <= Slack(s, d) * d
<1> DEFINE c == (s + d - 1) \div d
<1>1. s + d - 1 \in Nat
  OBVIOUS
<1>2. c \in Nat /\ s + d - 1 < c * d + d
  BY <1>1, Division
<1> HIDE DEF c
<1>3. c * d \in Nat
  BY <1>2
<1>4. s <= c * d
  BY <1>2, <1>3
<1> QED
  BY <1>2, <1>4 DEF Slack, c

(* To a size and back, a place moves down by the slack at most.            *)
LEMMA RoundTrip ==
  ASSUME NEW s \in Nat \ {0}, NEW d \in Nat \ {0}, NEW x \in 0..(s - 1)
  PROVE  LET back == Nearest(Nearest(x, d, s), s, d)
         IN  /\ back \in 0..x
             /\ x - back \in 0..Slack(s, d)
<1> DEFINE n == Nearest(x, d, s)
           b == Nearest(n, s, d)
           c == Slack(s, d)
<1>1. x * d \in Nat /\ x \in Nat
  OBVIOUS
<1>2. n = (x * d) \div s /\ n \in 0..(d - 1)
  BY NearestInside
<1>3. n * s <= x * d /\ x * d < n * s + s
  BY <1>1, <1>2, Division
<1>4. n * s \in Nat /\ n \in Nat
  BY <1>2
<1>5. b = (n * s) \div d /\ b \in 0..(s - 1)
  BY <1>2, NearestInside
<1>6. b * d <= n * s
  BY <1>4, <1>5, Division
<1>7. n * s < b * d + d
  BY <1>4, <1>5, Division
<1>8. c \in Nat /\ s <= c * d
  BY SlackCovers
<1>9. b * d \in Nat /\ c * d \in Nat /\ b \in Nat
  BY <1>5, <1>8
<1> HIDE DEF n, b, c
<1>10. b <= x
  <2>1. b * d < (x + 1) * d
    <3>1. (x + 1) * d = x * d + d
      OBVIOUS
    <3> QED
      BY <3>1, <1>1, <1>3, <1>4, <1>6, <1>9
  <2> QED
    BY <2>1, <1>1, <1>9, Cancel
<1>11. x < b + 1 + c
  <2>1. (b + 1 + c) * d = b * d + d + c * d
    BY <1>8, <1>9
  <2>2. x * d < (b + 1 + c) * d
    BY <2>1, <1>1, <1>3, <1>4, <1>7, <1>8, <1>9
  <2> QED
    BY <2>2, <1>1, <1>8, <1>9, Cancel
<1> QED
  BY <1>1, <1>8, <1>9, <1>10, <1>11 DEF n, b, c

(* Resizing to the same length moves nothing,                              *)
LEMMA NearestSame ==
  ASSUME NEW n \in Nat \ {0}, NEW k \in 0..(n - 1)
  PROVE  Nearest(k, n, n) = k
<1> DEFINE q == (k * n) \div n
<1>1. Nearest(k, n, n) = q /\ q \in 0..(n - 1)
  BY NearestInside
<1>2. k * n \in Nat
  OBVIOUS
<1>3. q * n <= k * n /\ k * n < q * n + n
  BY <1>2, Division
<1> HIDE DEF q
<1>4. (k + 1) * n = k * n + n /\ (q + 1) * n = q * n + n /\ q * n \in Nat /\ q \in Nat
  BY <1>1
<1>5. q < k + 1
  <2>1. q * n < (k + 1) * n
    BY <1>2, <1>3, <1>4
  <2> QED
    BY <2>1, <1>4, Cancel
<1>6. k < q + 1
  <2>1. k * n < (q + 1) * n
    BY <1>2, <1>3, <1>4
  <2> QED
    BY <2>1, <1>4, Cancel
<1> QED
  BY <1>1, <1>4, <1>5, <1>6

(* nor does resizing to the same size.                                     *)
LEMMA ResizeSame ==
  ASSUME NEW d \in Sizes, NEW S, NEW v \in [Places(d) -> S]
  PROVE  ResizeNearest(v, d, d) = v
<1>1. ASSUME NEW k \in Places(d)
      PROVE  SourcePlace(k, d, d) = k
  <2>1. /\ k % d.w \in 0..(d.w - 1) /\ k \div d.w \in 0..(d.h - 1)
        /\ k = (k \div d.w) * d.w + (k % d.w)
    BY RowAndColumn
  <2>2. d.w \in Nat \ {0} /\ d.h \in Nat \ {0}
    BY DEF Sizes
  <2> QED
    BY <2>1, <2>2, NearestSame DEF SourcePlace
<1>2. \A k \in Places(d) : ResizeNearest(v, d, d)[k] = v[k]
  BY <1>1 DEF ResizeNearest, SourcePlace, At
<1> QED
  BY <1>2 DEF ResizeNearest

(* Pixel k of a is a pixel of r, at most the slack up and to the left.     *)
Near(a, r, R, D, k) ==
  \E dx \in 0..Slack(R.w, D.w), dy \in 0..Slack(R.h, D.h) :
    /\ dx <= k % R.w /\ dy <= k \div R.w
    /\ a[k] = r[((k \div R.w) - dy) * R.w + ((k % R.w) - dx)]

(* A pixel resized there and back comes from its neighbourhood.            *)
LEMMA AlignedPixel ==
  ASSUME NEW D \in Sizes, NEW R \in Sizes, NEW S, NEW v \in [Places(R) -> S],
         NEW k \in Places(R)
  PROVE  Near(ResizeNearest(ResizeNearest(v, R, D), D, R), v, R, D, k)
<1> DEFINE x == k % R.w
           y == k \div R.w
           native == ResizeNearest(v, R, D)
           j == SourcePlace(k, D, R)
           bx == Nearest(Nearest(x, D.w, R.w), R.w, D.w)
           by == Nearest(Nearest(y, D.h, R.h), R.h, D.h)
<1>1. x \in 0..(R.w - 1) /\ y \in 0..(R.h - 1)
  BY RowAndColumn
<1>2. R.w \in Nat \ {0} /\ R.h \in Nat \ {0} /\ D.w \in Nat \ {0} /\ D.h \in Nat \ {0}
  BY DEF Sizes
<1>3. native \in [Places(D) -> S]
  BY ResizeKeeps
<1>4. j \in Places(D) /\ j \div D.w = Nearest(y, D.h, R.h) /\ j % D.w = Nearest(x, D.w, R.w)
  BY SourceInside
<1>5. ResizeNearest(native, D, R)[k] = native[j]
  BY <1>3, <1>4 DEF ResizeNearest, SourcePlace, At
<1>6. SourcePlace(j, R, D) \in Places(R) /\ SourcePlace(j, R, D) = by * R.w + bx
  BY <1>4, SourceInside DEF SourcePlace
<1>7. native[j] = v[by * R.w + bx]
  BY <1>4, <1>6 DEF ResizeNearest, SourcePlace, At
<1>8. bx \in 0..x /\ x - bx \in 0..Slack(R.w, D.w)
  BY <1>1, <1>2, RoundTrip
<1>9. by \in 0..y /\ y - by \in 0..Slack(R.h, D.h)
  BY <1>1, <1>2, RoundTrip
<1>10. x \in Nat /\ y \in Nat
  BY <1>1, <1>2
<1> HIDE DEF x, y, bx, by, j, native
<1>11. x - (x - bx) = bx /\ y - (y - by) = by /\ x - bx <= x /\ y - by <= y
  BY <1>8, <1>9, <1>10
<1>12. \E dx \in 0..Slack(R.w, D.w), dy \in 0..Slack(R.h, D.h) :
         /\ dx <= x /\ dy <= y
         /\ ResizeNearest(native, D, R)[k] = v[(y - dy) * R.w + (x - dx)]
  <2>1. ResizeNearest(native, D, R)[k] = v[(y - (y - by)) * R.w + (x - (x - bx))]
    BY <1>5, <1>7, <1>11
  <2> QED
    BY <2>1, <1>8, <1>9, <1>11
<1> QED
  BY <1>12 DEF Near, x, y, native

(* Depth aligned to the infrared image shows a pixel of the right image    *)
(* that is at most the ratio of the sizes away, for all sizes.             *)
THEOREM DepthStaysAligned == Spec => []AlignedWithIr
<1>1. ASSUME IInv, shown["right"] # NoImage, shown["depthIr"] # NoImage
      PROVE  LET r == shown["right"]
                 a == shown["depthIr"]
             IN  /\ a.size = r.size
                 /\ \A k \in DOMAIN a.px :
                      LET x == k % a.size.w
                          y == k \div a.size.w
                      IN  \E dx \in 0..Slack(r.size.w, cfg.depth.w),
                             dy \in 0..Slack(r.size.h, cfg.depth.h) :
                            /\ dx <= x /\ dy <= y
                            /\ a.px[k] = r.px[(y - dy) * r.size.w + (x - dx)]
  <2> DEFINE R == buf.right.size
             D == cfg.depth
             S == Allowed(input.polled, "right")
             v == buf.right.px
             n == buf.native.px
  <2>1. HasNative /\ HasIr
    BY <1>1 DEF IInv, ShownInv, Available, Topics
  <2>2. shown["right"] = Image(v, R) /\ shown["depthIr"] = Aligned(R)
    BY <1>1 DEF IInv, ShownInv, ImageOf, Topics
  <2>3. BuffersInv /\ Linked /\ cfg \in Configs
    BY <1>1 DEF IInv
  <2>4. R \in Sizes /\ D \in Sizes /\ v \in [Places(R) -> S] /\ buf.right # NoBuffer
    BY <2>1, <2>3, FineSize, ConfigSizes DEF BuffersInv, HasIr
  <2>5. n \in [Places(D) -> S]
    BY <2>1, <2>3, FineSize DEF BuffersInv, HasNative
  <2>6. ResizeNearest(n, D, R) \in [Places(R) -> S]
    BY <2>4, <2>5, ResizeKeeps
  <2>7. /\ shown["right"].size = R /\ shown["right"].px = v
        /\ shown["depthIr"].size = R /\ shown["depthIr"].px = ResizeNearest(n, D, R)
    BY <2>2, <2>6 DEF Image, Aligned, DepthImage, At
  <2> HIDE DEF R, D, S, v, n
  <2>8. ASSUME NEW k \in Places(R)
        PROVE  Near(ResizeNearest(n, D, R), v, R, D, k)
    <3>1. CASE buf.native = ToDepth(buf.right)
      <4>1. n = ResizeNearest(v, R, D)
        BY <3>1, <2>4, ResizeSame DEF ToDepth, n, v, R, D
      <4>2. Near(ResizeNearest(ResizeNearest(v, R, D), D, R), v, R, D, k)
        BY <2>4, AlignedPixel
      <4> QED
        BY <4>1, <4>2
    <3>2. CASE v = ResizeNearest(n, D, R)
      <4>1. /\ k % R.w \in 0..(R.w - 1) /\ k \div R.w \in 0..(R.h - 1)
            /\ k = (k \div R.w) * R.w + (k % R.w)
        BY <2>4, RowAndColumn
      <4>2. R.w \in Nat \ {0} /\ R.h \in Nat \ {0} /\ D.w \in Nat \ {0} /\ D.h \in Nat \ {0}
        BY <2>4 DEF Sizes
      <4>3. 0 \in 0..Slack(R.w, D.w) /\ 0 \in 0..Slack(R.h, D.h)
        <5>1. Slack(R.w, D.w) \in Nat /\ Slack(R.h, D.h) \in Nat
          BY <4>2, SlackCovers
        <5> QED
          BY <5>1
      <4> DEFINE x == k % R.w
                 y == k \div R.w
      <4>4. x \in Nat /\ y \in Nat /\ k = y * R.w + x
        BY <4>1, <4>2
      <4> HIDE DEF x, y
      <4>5. 0 <= x /\ 0 <= y /\ (y - 0) * R.w + (x - 0) = k
        BY <4>2, <4>4
      <4>6. \E dx \in 0..Slack(R.w, D.w), dy \in 0..Slack(R.h, D.h) :
              /\ dx <= x /\ dy <= y
              /\ ResizeNearest(n, D, R)[k] = v[(y - dy) * R.w + (x - dx)]
        BY <3>2, <4>3, <4>5
      <4> QED
        BY <4>6 DEF Near, x, y
    <3>3. buf.native = ToDepth(buf.right) \/ v = ResizeNearest(n, D, R)
      BY <2>3, <2>4 DEF Linked, v, n, R, D
    <3> QED
      BY <3>1, <3>2, <3>3
  <2>9. DOMAIN shown["depthIr"].px = Places(R)
    BY <2>6, <2>7
  <2> QED
    BY <2>7, <2>8, <2>9 DEF Near, D
<1>2. IInv => AlignedWithIr
  BY <1>1 DEF AlignedWithIr
<1> QED
  BY <1>2, Invariant, PTL
------------------------------------------------------------------------------
(* What a callback works on and what it has published, for the properties  *)
(* that look back from an image to the input.                              *)

(* The buffers are still those that were filled from this input.           *)
Filled ==
  pc # "idle" =>
    \/ /\ input.kind = "vendor" /\ \E e \in Endpoints : Has(input.polled, e)
       /\ buf = VendorBuffers(input.polled)
    \/ /\ input.kind = "uvc" /\ (input.visible # NoSize \/ input.ir # NoSize)
       /\ input.visible \in FrameSizes \cup {NoSize} /\ input.ir \in FrameSizes \cup {NoSize}
       /\ buf = UvcBuffers(input.visible, input.ir)
    \/ input.kind = "synthetic" /\ buf = SyntheticBuffers

(* The topics that lie behind each point of the callback.                  *)
Passed ==
  [idle |-> {}, depth |-> {}, visible |-> {"depth"}, depthColor |-> {"depth", "visible"},
   ir |-> {"depth", "visible", "depthColor"}, depthIr |-> Topics \ {"depthIr"}, done |-> Topics]

(* With everybody wanted, no topic that can be served is passed over.      *)
Served ==
  ~cfg.onlySubscribed => \A t \in Passed[pc] : Available(t) => shown[t] = ImageOf(t)

BackInv == Filled /\ Served

(* Filling, from any of the three sources, establishes it,                 *)
LEMMA FillBack ==
  ASSUME IInv, Fill
  PROVE  BackInv'
<1>1. pc' = "depth" /\ cfg' = cfg
  BY DEF Fill, FillVendor, FillUvc, FillSynthetic
<1>2. Served'
  BY <1>1 DEF Served, Passed
<1>3. (\A p : VendorBuffers(p)' = VendorBuffers(p)) /\ SyntheticBuffers' = SyntheticBuffers
  BY <1>1 DEF VendorBuffers, Native, ToDepth, SyntheticBuffers
<1>4. \A v, i : UvcBuffers(v, i)' = UvcBuffers(v, i)
  BY <1>1 DEF UvcBuffers, Native, ToDepth, StandIn, SplitStereo
<1>5. CASE FillVendor
  <2>1. PICK polled \in Polls :
          /\ \E e \in Endpoints : polled[e] # NoPayload
          /\ buf' = VendorBuffers(polled)
          /\ input' = [NoInput EXCEPT !.kind = "vendor", !.polled = polled]
    BY <1>5 DEF FillVendor, Polls
  <2>2. input'.polled = polled /\ input'.kind = "vendor"
    BY <2>1 DEF NoInput
  <2> QED
    BY <1>2, <1>3, <2>1, <2>2 DEF BackInv, Filled, Has
<1>6. CASE FillUvc
  <2>1. PICK v \in FrameSizes \cup {NoSize}, i \in FrameSizes \cup {NoSize} :
          /\ v # NoSize \/ i # NoSize
          /\ buf' = UvcBuffers(v, i)
          /\ input' = [NoInput EXCEPT !.kind = "uvc", !.visible = v, !.ir = i]
    BY <1>6 DEF FillUvc
  <2>2. input'.visible = v /\ input'.ir = i /\ input'.kind = "uvc"
    BY <2>1 DEF NoInput
  <2> QED
    BY <1>2, <1>4, <2>1, <2>2 DEF BackInv, Filled
<1>7. CASE FillSynthetic
  <2>1. input'.kind = "synthetic" /\ buf' = SyntheticBuffers
    BY <1>7 DEF FillSynthetic, NoInput
  <2> QED
    BY <1>2, <1>3, <2>1 DEF BackInv, Filled
<1> QED
  BY <1>5, <1>6, <1>7 DEF Fill

(* and publishing keeps it: each step serves the topics it passes.         *)
LEMMA PublishBack ==
  ASSUME IInv, BackInv, pc # "idle", pc' # "idle", UNCHANGED <<cfg, buf, input>>,
         NEW S \in SUBSET Topics, Passed[pc'] = Passed[pc] \cup S,
         \A t \in Topics \ S : shown'[t] = shown[t],
         ~cfg.onlySubscribed => \A t \in S : Available(t) => shown'[t] = ImageOf(t)
  PROVE  BackInv'
<1>1. \A t \in Topics : (Available(t)' <=> Available(t)) /\ ImageOf(t)' = ImageOf(t)
  BY SameBuffers
<1>2. Passed[pc] \subseteq Topics
  <2>1. pc \in {"idle", "depth", "visible", "depthColor", "ir", "depthIr", "done"}
    BY DEF IInv
  <2> QED
    BY <2>1 DEF Passed, Topics
<1>3. Served'
  <2>1. ASSUME ~cfg.onlySubscribed, NEW t \in Passed[pc] \cup S, Available(t)
        PROVE  shown'[t] = ImageOf(t)
    BY <1>2, <2>1 DEF BackInv, Served
  <2> QED
    BY <1>1, <1>2, <2>1 DEF Served
<1>4. (\A p : VendorBuffers(p)' = VendorBuffers(p)) /\ SyntheticBuffers' = SyntheticBuffers
  BY DEF VendorBuffers, Native, ToDepth, SyntheticBuffers
<1>5. \A v, i : UvcBuffers(v, i)' = UvcBuffers(v, i)
  BY DEF UvcBuffers, Native, ToDepth, StandIn, SplitStereo
<1>6. Filled'
  BY <1>4, <1>5 DEF BackInv, Filled
<1> QED
  BY <1>3, <1>6 DEF BackInv

(* With everybody wanted, one step serves one topic.                       *)
LEMMA OneTopicBack ==
  ASSUME IInv, BackInv, NEW topic \in Topics, NEW next \in {"visible", "depthColor", "ir", "done"},
         NEW available \in BOOLEAN, available <=> Available(topic),
         Publish(topic, next, available, ImageOf(topic)),
         Passed[next] = Passed[topic] \cup {topic}
  PROVE  BackInv'
<1>1. DOMAIN shown = Topics
  BY DEF IInv, ShownInv
<1>2. pc = topic /\ pc' = next /\ UNCHANGED <<cfg, buf, input>> /\ pc # "idle" /\ pc' # "idle"
  BY DEF Publish, Topics
<1>3. \A t \in Topics \ {topic} : shown'[t] = shown[t]
  BY <1>1 DEF Publish
<1>4. ~cfg.onlySubscribed /\ Available(topic) => shown'[topic] = ImageOf(topic)
  BY <1>1 DEF Publish, Wanted
<1>5. {topic} \in SUBSET Topics /\ Passed[pc'] = Passed[pc] \cup {topic}
  BY <1>2
<1>6. ~cfg.onlySubscribed => \A t \in {topic} : Available(t) => shown'[t] = ImageOf(t)
  BY <1>4
<1> QED
  BY <1>2, <1>3, <1>5, <1>6, PublishBack

(* It holds in every state.                                                *)
THEOREM LooksBack == Spec => []BackInv
<1>1. Init => BackInv
  BY DEF Init, BackInv, Filled, Served, Passed
<1>2. IInv /\ BackInv /\ [Next]_vars => BackInv'
  <2> SUFFICES ASSUME IInv, BackInv, [Next]_vars PROVE BackInv'
    OBVIOUS
  <2>1. CASE Fill
    BY <2>1, FillBack
  <2>2. CASE PublishDepth
    <3>1. HasNative <=> Available("depth")
      BY DEF Available
    <3>2. Publish("depth", "visible", HasNative, ImageOf("depth"))
      BY <2>2 DEF PublishDepth, ImageOf
    <3> QED
      BY <3>1, <3>2, OneTopicBack DEF Topics, Passed, HasNative
  <2>3. CASE PublishVisible
    <3>1. HasVisible <=> Available("visible")
      BY DEF Available
    <3>2. Publish("visible", "depthColor", HasVisible, ImageOf("visible"))
      BY <2>3 DEF PublishVisible, ImageOf
    <3> QED
      BY <3>1, <3>2, OneTopicBack DEF Topics, Passed, HasVisible
  <2>4. CASE PublishDepthColor
    <3>1. HasNative /\ HasVisible <=> Available("depthColor")
      BY DEF Available
    <3>2. Publish("depthColor", "ir", HasNative /\ HasVisible, ImageOf("depthColor"))
      BY <2>4 DEF PublishDepthColor, ImageOf
    <3> QED
      BY <3>1, <3>2, OneTopicBack DEF Topics, Passed, HasVisible, HasNative
  <2>5. CASE PublishIr
    <3>1. DOMAIN shown = Topics
      BY DEF IInv, ShownInv
    <3>2. pc = "ir" /\ pc' = "depthIr" /\ UNCHANGED <<cfg, buf, input>>
      BY <2>5 DEF PublishIr
    <3>3. \A t \in Topics \ {"left", "right"} : shown'[t] = shown[t]
      BY <2>5, <3>1 DEF PublishIr
    <3>4. ASSUME ~cfg.onlySubscribed, HasIr
          PROVE  shown'["left"] = ImageOf("left") /\ shown'["right"] = ImageOf("right")
      BY <2>5, <3>1, <3>4 DEF PublishIr, Wanted, ImageOf, Topics
    <3>5. Available("left") => HasIr
      BY DEF Available
    <3>6. Available("right") => HasIr
      BY DEF Available
    <3>7. Passed["depthIr"] = Passed["ir"] \cup {"left", "right"}
      BY DEF Passed, Topics
    <3>8. {"left", "right"} \in SUBSET Topics
      BY DEF Topics
    <3> QED
      BY <3>2, <3>3, <3>4, <3>5, <3>6, <3>7, <3>8, PublishBack
  <2>6. CASE PublishDepthIr
    <3>1. HasNative /\ HasIr <=> Available("depthIr")
      BY DEF Available
    <3>2. Publish("depthIr", "done", HasNative /\ HasIr, ImageOf("depthIr"))
      BY <2>6 DEF PublishDepthIr, ImageOf
    <3> QED
      BY <3>1, <3>2, OneTopicBack DEF Topics, Passed, HasIr, HasNative
  <2>7. CASE Return
    BY <2>7 DEF Return, BackInv, Filled, Served, Passed
  <2>8. CASE UNCHANGED vars
    <3>1. UNCHANGED <<cfg, buf, input>> /\ shown' = shown /\ pc' = pc
      BY <2>8 DEF vars
    <3>2. CASE pc = "idle"
      BY <3>1, <3>2 DEF BackInv, Filled, Served, Passed
    <3>3. CASE pc # "idle"
      <4>1. \A t \in Topics \ {} : shown'[t] = shown[t]
        BY <3>1
      <4>2. Passed[pc'] = Passed[pc] \cup {} /\ {} \in SUBSET Topics
        BY <3>1
      <4> QED
        BY <3>1, <3>3, <4>1, <4>2, PublishBack
    <3> QED
      BY <3>2, <3>3
  <2> QED
    BY <2>1, <2>2, <2>3, <2>4, <2>5, <2>6, <2>7, <2>8 DEF Next
<1> QED
  BY <1>1, <1>2, Invariant, PTL DEF Spec

(* A buffer with a size is not the empty one.                              *)
LEMMA SizedIsSome ==
  ASSUME NEW b, b.size \in Sizes
  PROVE  b # NoBuffer /\ b.size # NoSize
  BY NoSizeIsNone DEF NoBuffer

(* Depth is made as soon as there is an infrared or a visible image.       *)
LEMMA NativeMade ==
  ASSUME cfg \in Configs, NEW v, NEW r, r.size \in Sizes
  PROVE  Native(v, r) # NoBuffer
<1>1. Native(v, r).size = cfg.depth
  BY SizedIsSome DEF Native, ToDepth
<1> QED
  BY <1>1, ConfigSizes, SizedIsSome

(* A frame wider than one column gives two images.                         *)
LEMMA SplitSizes ==
  ASSUME NEW d \in Sizes, d.w > 1
  PROVE  LET stereo == SplitStereo(FrameBuffer("ir", d))
         IN  stereo.left.size \in Sizes /\ stereo.right.size \in Sizes
<1>1. FrameBuffer("ir", d).size = d /\ d.w \in Nat
  BY DEF FrameBuffer, Sizes
<1>2. HalfSize(d) \in Sizes
  BY HalfInside
<1> QED
  BY <1>1, <1>2 DEF SplitStereo, Half

(* What is filled: everything, or everything but the visible image.        *)
LEMMA EnoughIsFilled ==
  ASSUME IInv, Filled, pc # "idle"
  PROVE  /\ input.kind # "uvc" \/ input.visible # NoSize => HasVisible /\ HasIr /\ HasNative
         /\ input.kind = "uvc" /\ input.visible = NoSize =>
              ~HasVisible /\ (input.ir.w > 1 => HasIr /\ HasNative)
<1>1. cfg \in Configs /\ cfg.depth \in Sizes /\ cfg.visible \in Sizes /\ cfg.ir \in Sizes
  BY ConfigSizes DEF IInv
<1>2. CASE input.kind = "vendor"
  <2>1. buf = VendorBuffers(input.polled)
    BY <1>2 DEF Filled
  <2>2. buf.visible.size = cfg.visible /\ buf.left.size = cfg.ir /\ buf.right.size = cfg.ir
        /\ buf.native = Native(buf.visible, buf.right)
    BY <2>1 DEF VendorBuffers, VendorBuffer
  <2> QED
    BY <1>1, <1>2, <2>2, SizedIsSome, NativeMade DEF HasVisible, HasIr, HasNative
<1>3. CASE input.kind = "synthetic"
  <2>1. buf = SyntheticBuffers
    BY <1>3 DEF Filled
  <2>2. /\ buf.visible.size = cfg.visible /\ buf.left.size = cfg.ir /\ buf.right.size = cfg.ir
        /\ buf.native.size = cfg.depth
    BY <2>1 DEF SyntheticBuffers, FrameBuffer
  <2> QED
    BY <1>1, <1>3, <2>2, SizedIsSome DEF HasVisible, HasIr, HasNative
<1>4. CASE input.kind = "uvc"
  <2> DEFINE v == input.visible
             i == input.ir
             visible == IF v = NoSize THEN NoBuffer ELSE FrameBuffer("visible", v)
             stereo  == IF i = NoSize THEN [left |-> NoBuffer, right |-> NoBuffer]
                        ELSE SplitStereo(FrameBuffer("ir", i))
  <2>1. buf = UvcBuffers(v, i) /\ v \in FrameSizes \cup {NoSize} /\ i \in FrameSizes \cup {NoSize}
    BY <1>4 DEF Filled
  <2>2. v \in Sizes \cup {NoSize} /\ i \in Sizes \cup {NoSize}
    BY <2>1, FrameSizesAssumption
  <2>3. /\ buf.visible = visible /\ buf.native = Native(visible, buf.right)
        /\ buf.left  = IF stereo.left = NoBuffer THEN StandIn(visible) ELSE stereo.left
        /\ buf.right = IF stereo.left = NoBuffer THEN StandIn(visible) ELSE stereo.right
    BY <2>1 DEF UvcBuffers
  <2>4. /\ v # NoSize => visible.size \in Sizes
        /\ v = NoSize => visible.size = NoSize
    BY <2>2 DEF FrameBuffer, NoBuffer
  <2>5. v # NoSize => StandIn(visible).size \in Sizes
    BY <1>1, <2>4, NoSizeIsNone DEF StandIn
  <2>6. i # NoSize /\ i.w > 1 => stereo.left.size \in Sizes /\ stereo.right.size \in Sizes
    BY <2>2, SplitSizes
  <2>7. stereo.left # NoBuffer => i # NoSize /\ i.w > 1 /\ stereo.right.size \in Sizes
    <3>1. ASSUME i # NoSize, ~(i.w > 1)
          PROVE  stereo.left = NoBuffer
      <4>1. i.w <= 1 /\ FrameBuffer("ir", i).size = i
        BY <2>2, <3>1 DEF Sizes, FrameBuffer
      <4> QED
        BY <3>1, <4>1 DEF SplitStereo
    <3> QED
      BY <2>6, <3>1
  <2> HIDE DEF visible, stereo
  <2>8. i.w > 1 => i # NoSize
    BY DEF NoSize
  <2>9. v # NoSize => buf.left.size \in Sizes /\ buf.right.size \in Sizes
    BY <2>3, <2>5, <2>6, <2>7
  <2>10. i.w > 1 => buf.left.size \in Sizes /\ buf.right.size \in Sizes
    BY <2>3, <2>6, <2>8, SizedIsSome
  <2>11. v # NoSize => HasVisible /\ HasIr /\ HasNative
    BY <1>1, <2>3, <2>4, <2>9, SizedIsSome, NativeMade DEF HasVisible, HasIr, HasNative
  <2>12. i.w > 1 => HasIr /\ HasNative
    BY <1>1, <2>3, <2>10, SizedIsSome, NativeMade DEF HasIr, HasNative
  <2>13. v = NoSize => ~HasVisible
    BY <2>3, <2>4 DEF HasVisible
  <2> QED
    BY <1>4, <2>11, <2>12, <2>13
<1> QED
  BY <1>2, <1>3, <1>4 DEF Filled

(* A callback with everybody wanted shows all it can: no topic is silent   *)
(* but the two that need a visible camera that has no frame.               *)
THEOREM EveryTopicServed == Spec => []AllTopicsServed
<1>1. ASSUME IInv, BackInv, pc = "done", ~cfg.onlySubscribed
      PROVE  LET silent == {t \in Topics : shown[t] = NoImage}
             IN  IF input.kind # "uvc" \/ input.visible # NoSize THEN silent = {}
                 ELSE input.ir.w > 1 => silent = {"visible", "depthColor"}
  <2> DEFINE silent == {t \in Topics : shown[t] = NoImage}
  <2>1. \A t \in Topics : Available(t) => shown[t] = ImageOf(t)
    BY <1>1 DEF BackInv, Served, Passed
  <2>2. \A t \in Topics : ~Available(t) => shown[t] = NoImage
    BY <1>1 DEF IInv, ShownInv
  <2>3. BuffersInv /\ cfg.depth \in Sizes
    BY <1>1, ConfigSizes DEF IInv
  <2>4. HasVisible => buf.visible.size \in Sizes
    BY <2>3, FineSize DEF BuffersInv, HasVisible
  <2>5. HasIr => buf.left.size \in Sizes /\ buf.right.size \in Sizes
    BY <2>3, FineSize DEF BuffersInv, HasIr
  <2>6. ASSUME NEW t \in Topics, Available(t)
        PROVE  ImageOf(t).size \in Sizes
    BY <2>3, <2>4, <2>5, <2>6 DEF Topics, Available, ImageOf, DepthImage, Image, Aligned
  <2>7. NoImage.size \notin Sizes
    BY NoSizeIsNone DEF NoImage
  <2>8. silent = {t \in Topics : ~Available(t)}
    BY <2>1, <2>2, <2>6, <2>7
  <2> HIDE DEF silent
  <2>9. CASE input.kind # "uvc" \/ input.visible # NoSize
    <3>1. \A t \in Topics : Available(t)
      BY <1>1, <2>9, EnoughIsFilled DEF Available, BackInv
    <3> QED
      BY <2>8, <2>9, <3>1 DEF silent
  <2>10. CASE ~(input.kind # "uvc" \/ input.visible # NoSize)
    <3>1. ASSUME input.ir.w > 1
          PROVE  silent = {"visible", "depthColor"}
      <4>1. ~HasVisible /\ HasIr /\ HasNative
        BY <1>1, <2>10, <3>1, EnoughIsFilled DEF BackInv
      <4>2. \A t \in Topics : Available(t) <=> t \notin {"visible", "depthColor"}
        BY <4>1 DEF Available
      <4>3. {"visible", "depthColor"} \subseteq Topics
        BY DEF Topics
      <4> QED
        BY <2>8, <4>2, <4>3
    <3> QED
      BY <2>10, <3>1 DEF silent
  <2> QED
    BY <2>9, <2>10
<1>2. IInv /\ BackInv => AllTopicsServed
  BY <1>1 DEF AllTopicsServed
<1> QED
  BY <1>2, Invariant, LooksBack, PTL

------------------------------------------------------------------------------
(* The halves of a stereo frame.                                           *)

(* Every place left of an odd last column is read by one of the halves.    *)
LEMMA HalvesCover ==
  ASSUME NEW d \in Sizes, d.w > 1, NEW p \in Places(d), p % d.w < 2 * (d.w \div 2)
  PROVE  \E skip \in {0, 1} : \E k \in Places(HalfSize(d)) : HalfPlace(d, skip, k) = p
<1> DEFINE u == d.w \div 2
           x == p % d.w
           y == p \div d.w
<1>1. /\ d.w \in Nat /\ u \in Nat \ {0} /\ HalfSize(d).w = u /\ HalfSize(d).h = d.h
      /\ HalfSize(d) \in Sizes
  BY HalfInside DEF HalfSize, Sizes
<1>2. x \in Nat /\ y \in 0..(d.h - 1) /\ p = y * d.w + x /\ x < 2 * u
  BY <1>1, RowAndColumn
<1>3. y * d.w \in Nat
  BY <1>1, <1>2
<1>4. ASSUME NEW skip \in {0, 1}, x - skip * u \in 0..(u - 1)
      PROVE  \E k \in Places(HalfSize(d)) : HalfPlace(d, skip, k) = p
  <2> DEFINE k == y * u + (x - skip * u)
  <2>1. k \in Places(HalfSize(d)) /\ k \div u = y /\ k % u = x - skip * u
    BY <1>1, <1>2, <1>4, PlaceOf
  <2>2. HalfPlace(d, skip, k) = y * d.w + skip * u + (x - skip * u)
    BY <1>1, <2>1 DEF HalfPlace
  <2> HIDE DEF k, x, y, u
  <2>3. y * d.w + skip * u + (x - skip * u) = y * d.w + x
    <3>1. skip * u \in Nat
      BY <1>1
    <3> QED
      BY <1>2, <1>3, <3>1
  <2> QED
    BY <1>2, <2>1, <2>2, <2>3
<1> HIDE DEF u, x, y
<1>5. CASE x < u
  <2>1. x - 0 * u \in 0..(u - 1)
    BY <1>1, <1>2, <1>5
  <2> QED
    BY <1>4, <2>1
<1>6. CASE ~(x < u)
  <2>1. x - 1 * u \in 0..(u - 1)
    BY <1>1, <1>2, <1>6
  <2> QED
    BY <1>4, <2>1
<1> QED
  BY <1>5, <1>6

(* The places a buffer shows.                                              *)
PlacesShown(b) == {b.px[k].at : k \in DOMAIN b.px}

(* The two halves share no pixel, miss none but an odd last column and     *)
(* keep each pixel in its row.                                             *)
LEMMA HalvesApart ==
  ASSUME NEW d \in Sizes, d.w > 1, NEW l, NEW r,
         l = Half(FrameBuffer("ir", d), 1), r = Half(FrameBuffer("ir", d), 0)
  PROVE  /\ PlacesShown(l) \cap PlacesShown(r) = {}
         /\ PlacesShown(l) \cup PlacesShown(r) = {k \in Places(d) : k % d.w < 2 * (d.w \div 2)}
         /\ \A b \in {l, r} : \A k \in DOMAIN b.px : b.px[k].at \div d.w = k \div b.size.w
<1> DEFINE u == d.w \div 2
           H == HalfSize(d)
           P(skip, k) == HalfPlace(d, skip, k)
<1>1. d.w \in Nat /\ u \in Nat \ {0} /\ 2 * u <= d.w /\ H.w = u /\ H \in Sizes
  BY HalfInside DEF HalfSize, Sizes
<1>2. ASSUME NEW skip \in {0, 1}, NEW k \in Places(H)
      PROVE  P(skip, k) \in Places(d) /\ P(skip, k) \div d.w = k \div u
             /\ P(skip, k) % d.w = skip * u + (k % u)
  BY <1>1, <1>2, HalfInside
<1>3. ASSUME NEW skip \in {0, 1}
      PROVE  /\ Half(FrameBuffer("ir", d), skip).size = H
             /\ DOMAIN Half(FrameBuffer("ir", d), skip).px = Places(H)
             /\ \A k \in Places(H) : Half(FrameBuffer("ir", d), skip).px[k].at = P(skip, k)
  BY <1>2, <1>3 DEF Half, FrameBuffer, At, Pixel
<1>4. /\ PlacesShown(r) = {P(0, k) : k \in Places(H)}
      /\ PlacesShown(l) = {P(1, k) : k \in Places(H)}
  BY <1>3 DEF PlacesShown
<1>5. ASSUME NEW k \in Places(H)
      PROVE  k % u \in 0..(u - 1)
  BY <1>1, RowAndColumn
<1>6. \A k, j \in Places(H) : P(0, k) # P(1, j)
  <2> SUFFICES ASSUME NEW k \in Places(H), NEW j \in Places(H), P(0, k) = P(1, j) PROVE FALSE
    OBVIOUS
  <2>1. P(0, k) % d.w = 0 * u + (k % u) /\ P(1, j) % d.w = 1 * u + (j % u)
    BY <1>2
  <2>2. k % u \in 0..(u - 1) /\ j % u \in 0..(u - 1)
    BY <1>5
  <2> HIDE DEF P, u
  <2> QED
    BY <1>1, <2>1, <2>2
<1>7. ASSUME NEW skip \in {0, 1}, NEW k \in Places(H)
      PROVE  P(skip, k) \in Places(d) /\ P(skip, k) % d.w < 2 * u
  <2>1. P(skip, k) % d.w = skip * u + (k % u) /\ k % u \in 0..(u - 1) /\ P(skip, k) \in Places(d)
    BY <1>2, <1>5
  <2> HIDE DEF P, u
  <2>2. CASE skip = 0
    BY <1>1, <2>1, <2>2
  <2>3. CASE skip = 1
    BY <1>1, <2>1, <2>3
  <2> QED
    BY <2>2, <2>3
<1>8. ASSUME NEW p \in Places(d), p % d.w < 2 * u
      PROVE  p \in PlacesShown(l) \cup PlacesShown(r)
  BY <1>4, <1>8, HalvesCover
<1> HIDE DEF P, u, H
<1>9. PlacesShown(l) \cup PlacesShown(r) = {k \in Places(d) : k % d.w < 2 * u}
  BY <1>4, <1>7, <1>8
<1>10. PlacesShown(l) \cap PlacesShown(r) = {}
  BY <1>4, <1>6
<1>11. \A b \in {l, r} : \A k \in DOMAIN b.px : b.px[k].at \div d.w = k \div b.size.w
  BY <1>1, <1>2, <1>3
<1> QED
  BY <1>9, <1>10, <1>11 DEF u

(* The infrared images go out together.                                    *)
Paired == shown["left"] = NoImage <=> shown["right"] = NoImage

(* No image of a pair is shown without the other.                          *)
THEOREM InfraredPaired == Spec => []Paired
<1>1. Init => Paired
  BY DEF Init, Paired, NothingShown, Topics
<1>2. IInv /\ Paired /\ [Next]_vars => Paired'
  <2> SUFFICES ASSUME IInv, Paired, [Next]_vars PROVE Paired'
    OBVIOUS
  <2>1. DOMAIN shown = Topics
    BY DEF IInv, ShownInv
  <2>2. CASE PublishIr
    <3>1. ASSUME HasIr, NEW t \in {"left", "right"}
          PROVE  Image(buf[t].px, buf[t].size) # NoImage
      BY <3>1 DEF HasIr, Image, NoImage
    <3> QED
      BY <2>1, <2>2, <3>1 DEF PublishIr, Paired, Topics
  <2>3. CASE Fill \/ UNCHANGED vars
    BY <2>3 DEF Fill, FillVendor, FillUvc, FillSynthetic, vars, Paired
  <2>4. CASE Return
    BY <2>4 DEF Return, Paired, NothingShown, Topics
  <2>5. ASSUME NEW topic \in {"depth", "visible", "depthColor", "depthIr"}, NEW next,
               NEW available, NEW image, Publish(topic, next, available, image)
        PROVE  shown'["left"] = shown["left"] /\ shown'["right"] = shown["right"]
    BY <2>1, <2>5 DEF Publish, Topics
  <2>6. CASE PublishDepth \/ PublishVisible \/ PublishDepthColor \/ PublishDepthIr
    BY <2>5, <2>6 DEF PublishDepth, PublishVisible, PublishDepthColor, PublishDepthIr, Paired
  <2> QED
    BY <2>2, <2>3, <2>4, <2>6 DEF Next
<1> QED
  BY <1>1, <1>2, Invariant, PTL DEF Spec

(* Only the halves of a split frame are made of infrared pixels.           *)
LEMMA InfraredIsSplit ==
  ASSUME IInv, Filled, pc # "idle", cfg.split,
         NEW k \in DOMAIN buf.left.px, buf.left.px[k].from = "ir"
  PROVE  /\ input.ir \in Sizes /\ input.ir.w > 1
         /\ buf.left = Half(FrameBuffer("ir", input.ir), 1)
         /\ buf.right = Half(FrameBuffer("ir", input.ir), 0)
<1>1. ASSUME NEW source, source # "ir", NEW S, NEW v, NEW from, NEW to, NEW j \in DOMAIN ResizeNearest(v, from, to),
             \A m \in DOMAIN v : v[m].from = source
      PROVE  ResizeNearest(v, from, to)[j].from # "ir"
  BY <1>1 DEF ResizeNearest, At, Garbage
<1>2. CASE input.kind = "vendor"
  <2> DEFINE e == PickFirst(input.polled, Order("left"))
  <2>1. e \in Endpoints
    BY <1>2, Picked DEF Filled, IInv, InputInv
  <2>2. buf.left.px = BytesToMono(e, input.polled[e], cfg.ir)
    BY <1>2 DEF Filled, VendorBuffers, VendorBuffer
  <2> HIDE DEF e
  <2>3. e # "ir"
    BY <2>1 DEF Endpoints
  <2> QED
    BY <2>2, <2>3 DEF BytesToMono, Pixel, Garbage
<1>3. CASE input.kind = "synthetic"
  <2>1. buf.left.px = ResizeNearest(FrameBuffer("depth", cfg.depth).px, cfg.depth, cfg.ir)
    BY <1>3 DEF Filled, SyntheticBuffers
  <2>2. \A m \in DOMAIN FrameBuffer("depth", cfg.depth).px :
          FrameBuffer("depth", cfg.depth).px[m].from = "depth"
    BY DEF FrameBuffer, Pixel
  <2> QED
    BY <1>1, <2>1, <2>2
<1>4. CASE input.kind = "uvc"
  <2> DEFINE v == input.visible
             i == input.ir
             visible == IF v = NoSize THEN NoBuffer ELSE FrameBuffer("visible", v)
             stereo  == IF i = NoSize THEN [left |-> NoBuffer, right |-> NoBuffer]
                        ELSE SplitStereo(FrameBuffer("ir", i))
  <2>1. buf = UvcBuffers(v, i) /\ i \in Sizes \cup {NoSize}
    BY <1>4, FrameSizesAssumption DEF Filled
  <2>2. /\ buf.left  = IF stereo.left = NoBuffer THEN StandIn(visible) ELSE stereo.left
        /\ buf.right = IF stereo.left = NoBuffer THEN StandIn(visible) ELSE stereo.right
    BY <2>1 DEF UvcBuffers
  <2>3. \A m \in DOMAIN visible.px : visible.px[m].from = "visible"
    BY DEF FrameBuffer, Pixel, NoBuffer, NoPixels
  <2> HIDE DEF visible
  <2>4. \A j \in DOMAIN StandIn(visible).px : StandIn(visible).px[j].from # "ir"
    <3>1. CASE visible.size = NoSize
      BY <3>1 DEF StandIn, NoBuffer, NoPixels
    <3>2. CASE visible.size # NoSize
      <4>1. StandIn(visible).px = ResizeNearest(visible.px, visible.size, cfg.ir)
        BY <3>2 DEF StandIn
      <4>2. \A j \in DOMAIN ResizeNearest(visible.px, visible.size, cfg.ir) :
              ResizeNearest(visible.px, visible.size, cfg.ir)[j].from # "ir"
        BY <1>1, <2>3
      <4> QED
        BY <4>1, <4>2
    <3> QED
      BY <3>1, <3>2
  <2>5. stereo.left # NoBuffer
    BY <2>2, <2>4
  <2>6. i \in Sizes /\ stereo = SplitStereo(FrameBuffer("ir", i))
    BY <2>1, <2>5
  <2>7. FrameBuffer("ir", i).size = i /\ i.w \in Nat
    BY <2>6 DEF FrameBuffer, Sizes
  <2> HIDE DEF stereo
  <2>8. i.w > 1 /\ stereo = [left |-> Half(FrameBuffer("ir", i), 1), right |-> Half(FrameBuffer("ir", i), 0)]
    BY <2>5, <2>6, <2>7 DEF SplitStereo
  <2> QED
    BY <2>2, <2>5, <2>6, <2>8
<1> QED
  BY <1>2, <1>3, <1>4 DEF Filled

(* The halves of a stereo frame, as published, are apart, complete and     *)
(* line by line, for every size of the frame.                              *)
THEOREM HalvesPublishedApart == Spec => []StereoApart
<1>1. ASSUME IInv, Filled, Paired,
             cfg.split, shown["left"] # NoImage, From(shown["left"]) = {"ir"}
      PROVE  LET l == shown["left"]  r == shown["right"]  d == input.ir
             IN  /\ Whole(l) \cap Whole(r) = {}
                 /\ Whole(l) \cup Whole(r) = {k \in Places(d) : k % d.w < 2 * (d.w \div 2)}
                 /\ \A image \in {l, r} : \A k \in DOMAIN image.px :
                      image.px[k].at \div d.w = k \div image.size.w
  <2> DEFINE l == shown["left"]
             r == shown["right"]
             d == input.ir
  <2>1. r # NoImage /\ pc # "idle"
    BY <1>1 DEF IInv, ShownInv, Paired, NothingShown, Topics
  <2>2. l = Image(buf.left.px, buf.left.size) /\ r = Image(buf.right.px, buf.right.size)
    BY <1>1, <2>1 DEF IInv, ShownInv, ImageOf, Topics
  <2>3. /\ l.px = buf.left.px /\ l.size = buf.left.size
        /\ r.px = buf.right.px /\ r.size = buf.right.size
    BY <2>2 DEF Image
  <2>4. PICK k \in DOMAIN l.px : l.px[k].from = "ir"
    BY <1>1 DEF From
  <2>5. /\ d \in Sizes /\ d.w > 1
        /\ buf.left = Half(FrameBuffer("ir", d), 1) /\ buf.right = Half(FrameBuffer("ir", d), 0)
    BY <1>1, <2>1, <2>3, <2>4, InfraredIsSplit
  <2>6. Whole(l) = PlacesShown(buf.left) /\ Whole(r) = PlacesShown(buf.right)
    BY <2>3 DEF Whole, PlacesShown
  <2> HIDE DEF l, r, d
  <2>7. /\ PlacesShown(buf.left) \cap PlacesShown(buf.right) = {}
        /\ PlacesShown(buf.left) \cup PlacesShown(buf.right) = {j \in Places(d) : j % d.w < 2 * (d.w \div 2)}
        /\ \A b \in {buf.left, buf.right} : \A j \in DOMAIN b.px : b.px[j].at \div d.w = j \div b.size.w
    BY <2>5, HalvesApart
  <2>8. \A image \in {l, r} : \A j \in DOMAIN image.px :
          image.px[j].at \div d.w = j \div image.size.w
    BY <2>3, <2>7
  <2> QED
    BY <2>6, <2>7, <2>8 DEF l, r, d
<1>2. IInv /\ Filled /\ Paired => StereoApart
  BY <1>1 DEF StereoApart
<1>3. BackInv => Filled
  BY DEF BackInv
<1> QED
  BY <1>2, <1>3, Invariant, LooksBack, InfraredPaired, PTL

------------------------------------------------------------------------------
(* The values of the pixels.                                               *)

(* rgbToMono8() fits a byte, and undoes monoToRGB().                       *)
THEOREM GreyFits ==
  /\ \A r, g, b \in Bytes : Grey(r, g, b) \in Bytes
  /\ \A v \in Bytes : Grey(v, v, v) = v
<1>1. ASSUME NEW r \in Bytes, NEW g \in Bytes, NEW b \in Bytes
      PROVE  Grey(r, g, b) \in Bytes
  BY DEF Bytes, Grey
<1>2. ASSUME NEW v \in Bytes
      PROVE  Grey(v, v, v) = v
  <2>1. v \in Int /\ 77 * v + 150 * v + 29 * v = 256 * v
    BY DEF Bytes
  <2>2. (256 * v) \div 256 = v
    BY <2>1
  <2> QED
    BY <2>1, <2>2 DEF Grey
<1> QED
  BY <1>1, <1>2

(* Every pseudo-depth is between 300 and 4000 mm, and a brighter pixel is  *)
(* never farther away than a darker one.                                   *)
THEOREM PseudoDepthFits ==
  /\ \A v \in Bytes : PseudoDepth(v) \in Depths
  /\ \A v, w \in Bytes : v <= w => PseudoDepth(w) <= PseudoDepth(v)
<1>1. \A v \in Bytes : PseudoDepth(v) \in Depths
  BY DEF Bytes, Depths, PseudoDepth
<1>2. \A v, w \in Bytes : v <= w => PseudoDepth(w) <= PseudoDepth(v)
  BY DEF Bytes, PseudoDepth
<1> QED
  BY <1>1, <1>2

(* The number of values of an unsigned int.                                *)
LEMMA WordIsPositive == 2 ^ 32 = 4294967296
  BY SMT

(* Clamping gives a byte and keeps the order.                              *)
LEMMA ClampGrows ==
  ASSUME NEW a \in Int, NEW b \in Int, a <= b
  PROVE  Clamp(0, 255, a) \in Bytes /\ Clamp(0, 255, a) <= Clamp(0, 255, b)
  BY DEF Clamp, Bytes

(* The unsigned difference of depthToMono8() does not wrap for a depth     *)
(* that generateDepthFrame() produces: the grey of the infrared images     *)
(* grows with the depth, and the left one is the brighter.                 *)
THEOREM SyntheticGreyFollowsDepth ==
  ASSUME NEW x \in Int, NEW y \in Int, x <= y
  PROVE  LET near == SyntheticDepth(x)
             far  == SyntheticDepth(y)
         IN  /\ near \in Depths /\ near <= far
             /\ \A offset \in {-10, 10} :
                  /\ DepthGrey(near, offset) \in Bytes
                  /\ DepthGrey(near, offset) <= DepthGrey(far, offset)
             /\ DepthGrey(near, -10) <= DepthGrey(near, 10)
<1> DEFINE near == SyntheticDepth(x)
           far  == SyntheticDepth(y)
<1>1. near \in Depths /\ far \in Depths /\ near <= far
  BY DEF SyntheticDepth, Clamp, Depths
<1> HIDE DEF near, far
<1>2. ASSUME NEW d \in Depths
      PROVE  Unsigned(d - 300) = d - 300
  BY <1>2, WordIsPositive DEF Depths, Unsigned
<1> DEFINE Steps(d) == (d - 300) \div 14
<1>3. ASSUME NEW d \in Depths, NEW e \in Depths
      PROVE  Steps(d) \in Nat /\ (d <= e => Steps(d) <= Steps(e))
  BY DEF Depths
<1>4. ASSUME NEW d \in Depths, NEW offset \in {-10, 10}
      PROVE  DepthGrey(d, offset) = Clamp(0, 255, Steps(d) + offset)
  BY <1>2, <1>4 DEF DepthGrey
<1> HIDE DEF Steps
<1>5. ASSUME NEW d \in Depths, NEW e \in Depths, d <= e, NEW offset \in {-10, 10}
      PROVE  DepthGrey(d, offset) \in Bytes /\ DepthGrey(d, offset) <= DepthGrey(e, offset)
  <2>1. Steps(d) + offset \in Int /\ Steps(e) + offset \in Int /\ Steps(d) + offset <= Steps(e) + offset
    BY <1>3, <1>5
  <2> QED
    BY <1>4, <2>1, ClampGrows
<1>6. ASSUME NEW d \in Depths
      PROVE  DepthGrey(d, -10) <= DepthGrey(d, 10)
  <2>1. Steps(d) + (-10) \in Int /\ Steps(d) + 10 \in Int /\ Steps(d) + (-10) <= Steps(d) + 10
    BY <1>3
  <2> QED
    BY <1>4, <2>1, ClampGrows
<1> QED
  BY <1>1, <1>5, <1>6 DEF near, far
==============================================================================
