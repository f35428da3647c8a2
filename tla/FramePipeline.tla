---------------------------- MODULE FramePipeline ----------------------------
(***************************************************************************)
(* What StructureCoreDriver::onTimer() makes of the bytes of one poll, of  *)
(* the latest UVC frames or of a synthetic depth frame: the buffers that   *)
(* publishVendorProtocol(), publishHardware() and publishSynthetic() fill, *)
(* and the images they publish from them, topic after topic, while ROS     *)
(* nodes subscribe and unsubscribe.  Which of the three runs is decided by *)
(* StructureDriver; here any of them may.                                  *)
(*                                                                         *)
(* A pixel is known by where it comes from: the endpoint and the position  *)
(* of its byte, or the frame and the position of its pixel.  Conversions   *)
(* of the value (RGB, grey, pseudo-depth) keep the place, so they do not   *)
(* show; the conversions of a value are in PixelValues.  A read outside a  *)
(* buffer gives Garbage.                                                   *)
(***************************************************************************)
EXTENDS Naturals

CONSTANTS
  Configs,    \* parameters of the node: image sizes, split, onlySubscribed
  Payloads,   \* what a poll may bring on an endpoint
  FrameSizes  \* sizes of the frames the cameras deliver

Sizes == [w : Nat \ {0}, h : Nat \ {0}]

(* validatePositive() lets no size below 1 through.                        *)
ASSUME ConfigsAssumption ==
  Configs \subseteq [depth : Sizes, visible : Sizes, ir : Sizes,
                     split : BOOLEAN, onlySubscribed : BOOLEAN]

(* framed: the payload starts with the eight bytes of a command header.    *)
ASSUME PayloadsAssumption ==
  /\ Payloads \subseteq [len : Nat \ {0}, framed : BOOLEAN]
  /\ \A p \in Payloads : p.framed => p.len >= 8

(* Both backends of UvcCapture deliver rgb8 frames of width * height * 3   *)
(* bytes or none, so frameToRgbAndMono() never drops one.                  *)
ASSUME FrameSizesAssumption == FrameSizes \subseteq Sizes

VARIABLES
  pc,      \* the topic onTimer() comes to next
  cfg,     \* the parameters, read once
  buf,     \* visible, left, right and native: size and pixels
  input,   \* what this callback works on
  shown    \* what this callback has published, by topic

vars == <<pc, cfg, buf, input, shown>>

Endpoints == {"81", "82", "83", "84", "85"}
Topics    == {"depth", "visible", "depthColor", "left", "right", "depthIr"}

Garbage == [from |-> "nowhere", at |-> 0]
Pixel(source, k) == [from |-> source, at |-> k]

NoSize   == [w |-> 0, h |-> 0]
Area(d)  == d.w * d.h
Places(d) == 0..(Area(d) - 1)
At(v, k) == IF k \in DOMAIN v THEN v[k] ELSE Garbage

NoPayload  == [len |-> 0, framed |-> FALSE]
NoPixels   == [k \in {} |-> Garbage]
NoBuffer   == [size |-> NoSize, px |-> NoPixels]
NoBuffers  == [visible |-> NoBuffer, left |-> NoBuffer, right |-> NoBuffer, native |-> NoBuffer]
NoInput    == [kind |-> "none", polled |-> [e \in Endpoints |-> NoPayload],
               visible |-> NoSize, ir |-> NoSize]
NoImage    == [size |-> NoSize, info |-> NoSize, px |-> NoPixels]
NothingShown == [t \in Topics |-> NoImage]

------------------------------------------------------------------------------
(* Resizing: resizeDepthNearest() and resizeMonoNearest().                 *)

\* Mutant: rounds to the closer one instead of down.
NearestRounded(k, from, to) == (k * from + to - 1) \div to

(* The source row or column for row or column k of the result.             *)
Nearest(k, from, to) ==
  LET q == (k * from) \div to IN IF q < from - 1 THEN q ELSE from - 1

ResizeNearest(v, from, to) ==
  [k \in Places(to) |->
     At(v, Nearest(k \div to.w, from.h, to.h) * from.w + Nearest(k % to.w, from.w, to.w))]

------------------------------------------------------------------------------
(* Buffers from the bytes of a poll.                                       *)

(* bytesToMonoFrame(): every second byte of a payload that is long enough, *)
(* all bytes over and over of a shorter one; a header is skipped.          *)
Start(p) ==
  LET offset == IF p.framed THEN 8 ELSE 0
  IN  IF offset < p.len - 1 THEN offset ELSE p.len - 1

\* Mutant: the bytes are repeated over the whole payload, the header included.
ChosenFromHeader(p, d, k) ==
  IF p.len >= Start(p) + 2 * Area(d) THEN Start(p) + 2 * k ELSE k % p.len

Chosen(p, d, k) ==
  IF p.len >= Start(p) + 2 * Area(d) THEN Start(p) + 2 * k
                                     ELSE Start(p) + (k % (p.len - Start(p)))

BytesToMono(e, p, d) ==
  [k \in Places(d) |->
     IF Chosen(p, d, k) < p.len THEN Pixel(e, Chosen(p, d, k)) ELSE Garbage]

\* Mutant: the status endpoints come before the other camera's stream.
OrderStatusFirst(image) ==
  CASE image = "visible" -> <<"83", "84", "85", "82", "81">>
    [] image = "left"    -> <<"84", "82", "81", "83", "85">>
    [] image = "right"   -> <<"85", "82", "81", "83", "84">>

(* pickFirstNonEmpty(), as it is called for each of the three images.      *)
Order(image) ==
  CASE image = "visible" -> <<"83", "84", "85", "82", "81">>
    [] image = "left"    -> <<"84", "83", "85", "82", "81">>
    [] image = "right"   -> <<"85", "83", "84", "82", "81">>

PickFirst(polled, order) ==
  LET first == CHOOSE i \in 1..5 : /\ polled[order[i]].len > 0
                                   /\ \A j \in 1..(i - 1) : polled[order[j]].len = 0
  IN  order[first]

\* Mutant: sizes with as many pixels are taken for equal.
ToDepthByArea(b) ==
  [size |-> cfg.depth,
   px   |-> IF b.size.w # cfg.depth.w THEN ResizeNearest(b.px, b.size, cfg.depth) ELSE b.px]

(* The depth image is a conversion of the right image, or of the visible   *)
(* one when there is no right image.                                       *)
ToDepth(b) ==
  [size |-> cfg.depth,
   px   |-> IF b.size # cfg.depth THEN ResizeNearest(b.px, b.size, cfg.depth) ELSE b.px]

Native(visible, right) ==
  IF right.size # NoSize THEN ToDepth(right)
  ELSE IF visible.size # NoSize THEN ToDepth(visible) ELSE NoBuffer

(* All pointers are set and all buffers non-empty once one endpoint has    *)
(* data, so the lines that copy left to right, right to left or visible to *)
(* both do nothing here.                                                   *)
VendorBuffer(polled, image, d) ==
  LET e == PickFirst(polled, Order(image))
  IN  [size |-> d, px |-> BytesToMono(e, polled[e], d)]

VendorBuffers(polled) ==
  LET visible == VendorBuffer(polled, "visible", cfg.visible)
      right   == VendorBuffer(polled, "right", cfg.ir)
  IN  [visible |-> visible, right |-> right,
       left    |-> VendorBuffer(polled, "left", cfg.ir),
       native  |-> Native(visible, right)]

------------------------------------------------------------------------------
(* Buffers from UVC frames and the synthetic ones.                         *)

(* frameToRgbAndMono().                                                    *)
FrameBuffer(source, d) == [size |-> d, px |-> [k \in Places(d) |-> Pixel(source, k)]]

(* splitStereoFromMono(): the right image is the first half of each row.   *)
HalfSize(d) == [w |-> d.w \div 2, h |-> d.h]

\* Mutant: the rows of the frame are taken to be two halves long.
HalfPlaceEvenRows(d, skip, k) ==
  (k \div HalfSize(d).w) * (2 * HalfSize(d).w) + skip * HalfSize(d).w + (k % HalfSize(d).w)

HalfPlace(d, skip, k) ==
  (k \div HalfSize(d).w) * d.w + skip * HalfSize(d).w + (k % HalfSize(d).w)

Half(b, skip) ==
  [size |-> HalfSize(b.size),
   px   |-> [k \in Places(HalfSize(b.size)) |-> At(b.px, HalfPlace(b.size, skip, k))]]

SplitStereo(b) ==
  IF b.size.w <= 1 THEN [left |-> NoBuffer, right |-> NoBuffer]
  ELSE IF cfg.split THEN [left |-> Half(b, 1), right |-> Half(b, 0)]
  ELSE [left |-> b, right |-> b]

\* Mutant: the size of the stand-in is not set.
StandInUnsized(visible) ==
  IF visible.size = NoSize THEN NoBuffer
  ELSE [size |-> visible.size, px |-> ResizeNearest(visible.px, visible.size, cfg.ir)]

\* Mutant: the visible image stands in only when it needs no resizing.
StandInOfSameSize(visible) == IF visible.size = cfg.ir THEN visible ELSE NoBuffer

(* Without an infrared image the visible one takes its place.              *)
StandIn(visible) ==
  IF visible.size = NoSize THEN NoBuffer
  ELSE [size |-> cfg.ir, px |-> ResizeNearest(visible.px, visible.size, cfg.ir)]

UvcBuffers(visibleSize, irSize) ==
  LET visible == IF visibleSize = NoSize THEN NoBuffer ELSE FrameBuffer("visible", visibleSize)
      stereo  == IF irSize = NoSize THEN [left |-> NoBuffer, right |-> NoBuffer]
                 ELSE SplitStereo(FrameBuffer("ir", irSize))
      left    == IF stereo.left = NoBuffer THEN StandIn(visible) ELSE stereo.left
      right   == IF stereo.left = NoBuffer THEN StandIn(visible) ELSE stereo.right
  IN  [visible |-> visible, left |-> left, right |-> right, native |-> Native(visible, right)]

(* publishSynthetic(): the infrared images are conversions of the depth.   *)
SyntheticBuffers ==
  LET depth == FrameBuffer("depth", cfg.depth)
      ir    == [size |-> cfg.ir, px |-> ResizeNearest(depth.px, cfg.depth, cfg.ir)]
  IN  [visible |-> FrameBuffer("rgb", cfg.visible), left |-> ir, right |-> ir, native |-> depth]
------------------------------------------------------------------------------
(* The callback.                                                           *)

Init ==
  /\ pc = "idle"
  /\ cfg \in Configs
  /\ buf = NoBuffers
  /\ input = NoInput
  /\ shown = NothingShown

(* publishVendorProtocol(): the poll brought something.                    *)
FillVendor ==
  /\ pc = "idle"
  /\ \E polled \in [Endpoints -> Payloads \cup {NoPayload}] :
       /\ \E e \in Endpoints : polled[e] # NoPayload
       /\ buf' = VendorBuffers(polled)
       /\ input' = [NoInput EXCEPT !.kind = "vendor", !.polled = polled]
  /\ pc' = "depth"
  /\ UNCHANGED <<cfg, shown>>

(* publishHardware(): one of the cameras has a frame, or both have.        *)
FillUvc ==
  /\ pc = "idle"
  /\ \E v, i \in FrameSizes \cup {NoSize} :
       /\ v # NoSize \/ i # NoSize
       /\ buf' = UvcBuffers(v, i)
       /\ input' = [NoInput EXCEPT !.kind = "uvc", !.visible = v, !.ir = i]
  /\ pc' = "depth"
  /\ UNCHANGED <<cfg, shown>>

FillSynthetic ==
  /\ pc = "idle"
  /\ buf' = SyntheticBuffers
  /\ input' = [NoInput EXCEPT !.kind = "synthetic"]
  /\ pc' = "depth"
  /\ UNCHANGED <<cfg, shown>>

(* Whether anyone subscribes is asked right before a topic is published:   *)
(* the answer for one topic says nothing about the next.                   *)
Wanted == IF cfg.onlySubscribed THEN BOOLEAN ELSE {TRUE}

(* makeDepthImage() copies as many bytes as the size calls for, the other  *)
(* two take the buffer as it is; makeCameraInfo() gets the same size.      *)
DepthImage(v, d) == [size |-> d, info |-> d, px |-> [k \in Places(d) |-> At(v, k)]]
Image(v, d)      == [size |-> d, info |-> d, px |-> v]

Publish(topic, next, available, image) ==
  /\ pc = topic
  /\ \E want \in Wanted :
       shown' = IF want /\ available THEN [shown EXCEPT ![topic] = image] ELSE shown
  /\ pc' = next
  /\ UNCHANGED <<cfg, buf, input>>

HasNative  == buf.native # NoBuffer
HasVisible == buf.visible.size # NoSize
HasIr      == buf.left.size # NoSize /\ buf.right.size # NoSize

Aligned(d) == DepthImage(ResizeNearest(buf.native.px, cfg.depth, d), d)

PublishDepth ==
  Publish("depth", "visible", HasNative, DepthImage(buf.native.px, cfg.depth))

PublishVisible ==
  Publish("visible", "depthColor", HasVisible, Image(buf.visible.px, buf.visible.size))

PublishDepthColor ==
  Publish("depthColor", "ir", HasNative /\ HasVisible, Aligned(buf.visible.size))

(* Both infrared images go out when anyone wants one of them.              *)
PublishIr ==
  /\ pc = "ir"
  /\ \E want \in Wanted :
       shown' = IF want /\ HasIr
                THEN [shown EXCEPT !["left"]  = Image(buf.left.px, buf.left.size),
                                   !["right"] = Image(buf.right.px, buf.right.size)]
                ELSE shown
  /\ pc' = "depthIr"
  /\ UNCHANGED <<cfg, buf, input>>

PublishDepthIr ==
  Publish("depthIr", "done", HasNative /\ HasIr, Aligned(buf.right.size))

(* Everything but the parameters is local to a callback.                   *)
Return ==
  /\ pc = "done"
  /\ pc' = "idle"
  /\ buf' = NoBuffers
  /\ input' = NoInput
  /\ shown' = NothingShown
  /\ UNCHANGED cfg

Fill == FillVendor \/ FillUvc \/ FillSynthetic

Next ==
  \/ Fill
  \/ PublishDepth \/ PublishVisible \/ PublishDepthColor \/ PublishIr \/ PublishDepthIr
  \/ Return

Spec == Init /\ [][Next]_vars

------------------------------------------------------------------------------
(* Properties.                                                             *)

Sources == Endpoints \cup {"visible", "ir", "depth", "rgb", "nowhere"}

IsImage(image) ==
  /\ image.size \in Sizes /\ image.info = image.size
  /\ DOMAIN image.px = Places(image.size)
  /\ \A k \in DOMAIN image.px : image.px[k].from \in Sources /\ image.px[k].at \in Nat

(* The variables have their types: in particular an image holds one pixel  *)
(* for each place of the size it announces, and its camera info announces  *)
(* the same size.  A buffer of another size than the one that goes with it *)
(* in onTimer() would show here.                                           *)
TypeOK ==
  /\ pc \in {"idle", "depth", "visible", "depthColor", "ir", "depthIr", "done"}
  /\ cfg \in Configs
  /\ input.kind \in {"none", "vendor", "uvc", "synthetic"}
  /\ \A t \in Topics : shown[t] = NoImage \/ IsImage(shown[t])

(* No image shows memory from outside the buffers: no index of the chain   *)
(* payload, stereo half, stand-in, depth, aligned depth leaves its buffer, *)
(* for odd widths and sizes that do not divide each other as well.         *)
NothingOutOfBounds ==
  \A t \in Topics : \A k \in DOMAIN shown[t].px : shown[t].px[k] # Garbage

(* "Skip the command-style framing header if it is present": no pixel of   *)
(* any image is a byte of the header, except that a payload which is       *)
(* nothing but a header is shown as its last byte.                         *)
HeaderHidden ==
  \A t \in Topics : \A k \in DOMAIN shown[t].px :
    LET e == shown[t].px[k].from
    IN  e \in Endpoints /\ input.polled[e].framed =>
          \/ shown[t].px[k].at >= 8
          \/ input.polled[e].len = 8 /\ shown[t].px[k].at = 7

From(image) == {image.px[k].from : k \in DOMAIN image.px}

(* Status bytes are shown only for want of a stream, and a camera whose    *)
(* own endpoint has data shows that endpoint: the left and the right image *)
(* come from 0x84 and 0x85, and depth from the right one, in every poll    *)
(* that brings both, whatever else it brings.                              *)
OwnStreamShown ==
  LET has(e) == input.polled[e] # NoPayload
  IN  /\ has("83") \/ has("84") \/ has("85") =>
           \A t \in Topics : From(shown[t]) \cap {"81", "82"} = {}
      /\ has("83") => From(shown["visible"]) \subseteq {"83"}
      /\ has("84") => From(shown["left"]) \subseteq {"84"}
      /\ has("85") => \A t \in {"right", "depth", "depthColor", "depthIr"} :
                        From(shown[t]) \subseteq {"85"}

Whole(image) == {image.px[k].at : k \in DOMAIN image.px}

(* The halves of a stereo frame share no pixel, miss none but the last     *)
(* column of an odd width, and keep every pixel in its row.                *)
StereoApart ==
  LET l == shown["left"]  r == shown["right"]  d == input.ir
  IN  cfg.split /\ l # NoImage /\ From(l) = {"ir"} =>
        /\ Whole(l) \cap Whole(r) = {}
        /\ Whole(l) \cup Whole(r) = {k \in Places(d) : k % d.w < 2 * (d.w \div 2)}
        /\ \A image \in {l, r} : \A k \in DOMAIN image.px :
             image.px[k].at \div d.w = k \div image.size.w

(* How far a place may move when an image goes to another size and back.   *)
Slack(from, via) == (from + via - 1) \div via

(* Depth aligned to the infrared image belongs to it: although it went     *)
(* through the size of the depth image, what it shows at a place is the    *)
(* right image's pixel of that place or one up and to the left of it, by   *)
(* one place when the depth image is at least as large and by the ratio of *)
(* the sizes, rounded up, when it is smaller.                              *)
AlignedWithIr ==
  LET r == shown["right"]  a == shown["depthIr"]
  IN  r # NoImage /\ a # NoImage =>
        /\ a.size = r.size
        /\ \A k \in DOMAIN a.px :
             LET x == k % a.size.w  y == k \div a.size.w
             IN  \E dx \in 0..Slack(r.size.w, cfg.depth.w), dy \in 0..Slack(r.size.h, cfg.depth.h) :
                   /\ dx <= x /\ dy <= y
                   /\ a.px[k] = r.px[(y - dy) * r.size.w + (x - dx)]

(* A callback that has anything to show shows all it can: with everybody   *)
(* wanted, every topic after a poll with data, a visible frame or a        *)
(* synthetic one, and every topic but the two that need the visible camera *)
(* after an infrared frame alone.  The stand-ins leave no topic silent.    *)
AllTopicsServed ==
  pc = "done" /\ ~cfg.onlySubscribed =>
    LET silent == {t \in Topics : shown[t] = NoImage}
    IN  IF input.kind # "uvc" \/ input.visible # NoSize THEN silent = {}
        ELSE input.ir.w > 1 => silent = {"visible", "depthColor"}
==============================================================================
