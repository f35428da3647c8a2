-------------------------- MODULE UvcSelectProofs ----------------------------
(***************************************************************************)
(* Proofs about UvcSelect, for every list of cameras and every request.    *)
(***************************************************************************)
EXTENDS UvcSelect, FiniteSetTheorems, TLAPS

(* The invariant: what each loop knows of the part of its list it has      *)
(* passed.                                                                 *)

TypeInv ==
  /\ devices \in Seq(Camera)
  /\ request \in [index : Int, w : Int, h : Int, rate : Int]
  /\ pc \in {"open", "device", "none", "configure", "kept", "format", "set"}
  /\ d \in 1..(Len(devices) + 1) /\ hits \in Nat /\ chosen \in 0..Len(devices)
  /\ f \in Nat \ {0} /\ best \in Nat /\ bestScore \in Int /\ active \in Nat /\ fps \in Int

DeviceInv ==
  /\ pc \in {"open", "device"} => hits = Cardinality(Matching(d - 1))
  /\ pc = "open" => d = 1
  /\ pc = "device" => hits <= request.index
  /\ chosen # 0 <=> pc \in {"configure", "kept", "format", "set"}
  /\ CameraByIndex

BestSoFar ==
  /\ IF best = 0 THEN bestScore = IntMax
     ELSE best \in 1..(f - 1) /\ Usable(best) /\ bestScore = Score(best)
  /\ \A k \in 1..(f - 1) : Usable(k) => bestScore <= Score(k)

FormatInv ==
  /\ pc \notin {"format", "set"} => f = 1 /\ best = 0 /\ bestScore = IntMax
  /\ pc \in {"format", "set"} => Requested /\ f \in 1..(Len(Formats) + 1) /\ BestSoFar
  /\ pc = "set" =>
       /\ f = Len(Formats) + 1 /\ active = best
       /\ fps = IF best # 0 /\ Supports(best) THEN Rounded(request.rate) ELSE 0

IInv == TypeInv /\ DeviceInv /\ FormatInv

(* Passing one more device counts it if it matches.                        *)
LEMMA CountMatching ==
  ASSUME devices \in Seq(Camera)
  PROVE  /\ Cardinality(Matching(0)) = 0
         /\ \A n \in 1..Len(devices) :
              /\ Cardinality(Matching(n - 1)) \in Nat
              /\ Cardinality(Matching(n)) = IF devices[n].matches
                                            THEN Cardinality(Matching(n - 1)) + 1
                                            ELSE Cardinality(Matching(n - 1))
<1>1. Matching(0) = {}
  BY DEF Matching
<1>2. ASSUME NEW n \in 1..Len(devices)
      PROVE  /\ Cardinality(Matching(n - 1)) \in Nat
             /\ Cardinality(Matching(n)) = IF devices[n].matches
                                           THEN Cardinality(Matching(n - 1)) + 1
                                           ELSE Cardinality(Matching(n - 1))
  <2>1. IsFiniteSet(1..(n - 1))
    BY FS_Interval
  <2>2. IsFiniteSet(Matching(n - 1)) /\ Cardinality(Matching(n - 1)) \in Nat
    BY <2>1, FS_Subset, FS_CardinalityType DEF Matching
  <2>3. n \notin Matching(n - 1)
    BY DEF Matching
  <2>4. Matching(n) = IF devices[n].matches THEN Matching(n - 1) \cup {n}
                      ELSE Matching(n - 1)
    BY DEF Matching
  <2> QED
    BY <2>2, <2>3, <2>4, FS_AddElement
<1> QED
  BY <1>1, <1>2, FS_EmptySet

(* The invariant holds before the first pass.                              *)
LEMMA Initially == Init => IInv
<1> SUFFICES ASSUME Init PROVE IInv
  OBVIOUS
<1>1. TypeInv
  BY DEF Init, TypeInv, IntMax
<1>2. DeviceInv
  BY CountMatching DEF Init, DeviceInv, CameraByIndex
<1>3. FormatInv
  BY DEF Init, FormatInv
<1> QED
  BY <1>1, <1>2, <1>3 DEF IInv

(* Every pass of the device loop, and its end, keeps it.                   *)
LEMMA DevicesKeep ==
  ASSUME IInv, NegativeIndex \/ ListDevices \/ SkipDevice \/ TakeDevice \/ NoDevice
  PROVE  IInv'
<1> USE DEF IInv, TypeInv, DeviceInv, FormatInv, CameraByIndex, Matching
<1>1. CASE NegativeIndex
  BY <1>1 DEF NegativeIndex
<1>2. CASE ListDevices
  <2>1. hits = 0
    BY <1>2, CountMatching DEF ListDevices
  <2> QED
    BY <1>2, <2>1 DEF ListDevices
<1>3. CASE SkipDevice
  <2>1. d \in 1..Len(devices)
    BY <1>3 DEF SkipDevice
  <2>2. devices[d].matches \in BOOLEAN
    <3>1. devices[d] \in Camera
      BY <2>1
    <3> QED
      BY <3>1, Zenon DEF Camera
  <2>3. hits' = Cardinality(Matching(d)) /\ d' - 1 = d /\ hits' \in Nat
    <3>1. /\ hits \in Nat /\ hits = Cardinality(Matching(d - 1))
          /\ hits' = IF devices[d].matches THEN hits + 1 ELSE hits
          /\ d' = d + 1
      BY <1>3 DEF SkipDevice
    <3>2. Cardinality(Matching(d)) = IF devices[d].matches
                                     THEN Cardinality(Matching(d - 1)) + 1
                                     ELSE Cardinality(Matching(d - 1))
      BY <2>1, CountMatching
    <3> QED
      BY <2>1, <3>1, <3>2 DEF TypeInv
  <2>4. hits' <= request.index
    BY <1>3, <2>2 DEF SkipDevice
  <2> QED
    BY <1>3, <2>1, <2>3, <2>4 DEF SkipDevice
<1>4. CASE TakeDevice
  BY <1>4 DEF TakeDevice
<1>5. CASE NoDevice
  <2>1. d - 1 = Len(devices)
    BY <1>5 DEF NoDevice
  <2> QED
    BY <1>5, <2>1 DEF NoDevice
<1> QED
  BY <1>1, <1>2, <1>3, <1>4, <1>5

(* So does every pass of the format loop.                                  *)
LEMMA FormatKeeps ==
  ASSUME IInv, TryFormat
  PROVE  IInv'
<1>0. /\ f \in 1..Len(Formats) /\ pc = "format" /\ pc' = "format" /\ f' = f + 1
      /\ UNCHANGED <<devices, request, d, hits, chosen, active, fps>>
  BY DEF TryFormat, IInv, FormatInv
<1>1. chosen \in 1..Len(devices) /\ Formats \in Seq(Format) /\ Formats[f] \in Format
  <2>1. chosen \in 1..Len(devices)
    BY <1>0 DEF IInv, TypeInv, DeviceInv, CameraByIndex
  <2>2. devices[chosen] \in Camera
    BY <2>1 DEF IInv, TypeInv
  <2>3. Formats \in Seq(Format)
    BY <2>2 DEF Formats, Camera
  <2> QED
    BY <2>1, <2>3, <1>0
<1>2. Score(f) \in Int
  <2>1. Formats[f].w \in Int /\ Formats[f].h \in Int
    BY <1>1 DEF Format
  <2>2. request.w \in Int /\ request.h \in Int
    BY DEF IInv, TypeInv
  <2>3. Distance(f) \in Int
    BY <2>1, <2>2 DEF Distance, Abs
  <2> QED
    BY <2>3 DEF Score, Penalty
<1>3. /\ Formats' = Formats
      /\ \A k : Usable(k)' = Usable(k) /\ Score(k)' = Score(k)
  BY <1>0 DEF Formats, Usable, Score, Supports, InRange, Distance
<1>4. BestSoFar'
  <2>1. BestSoFar /\ bestScore \in Int /\ f \in Nat
    BY <1>0 DEF IInv, TypeInv, FormatInv
  <2>2. CASE Usable(f) /\ Score(f) < bestScore
    <3>1. best' = f /\ bestScore' = Score(f)
      BY <2>2 DEF TryFormat
    <3>2. f # 0 /\ f \in 1..(f' - 1) /\ 1..(f' - 1) = (1..(f - 1)) \cup {f}
      BY <1>0
    <3>3. \A k \in 1..(f' - 1) : Usable(k) => bestScore' <= Score(k)
      <4> SUFFICES ASSUME NEW k \in 1..(f' - 1), Usable(k)
                   PROVE  bestScore' <= Score(k)
        OBVIOUS
      <4>1. CASE k = f
        BY <4>1, <3>1, <1>2
      <4>2. CASE k # f
        <5>1. bestScore <= Score(k)
          BY <4>2, <3>2, <2>1 DEF BestSoFar
        <5>2. Score(k) \in Int
          <6>1. k \in 1..Len(Formats)
            BY <1>0
          <6>2. Formats[k] \in Format
            BY <6>1, <1>1
          <6>3. Formats[k].w \in Int /\ Formats[k].h \in Int
            BY <6>2 DEF Format
          <6>4. request.w \in Int /\ request.h \in Int
            BY DEF IInv, TypeInv
          <6>5. Distance(k) \in Int
            BY <6>3, <6>4 DEF Distance, Abs
          <6> QED
            BY <6>5 DEF Score, Penalty
        <5> QED
          BY <5>1, <5>2, <3>1, <2>2, <2>1, <1>2
      <4> QED
        BY <4>1, <4>2
    <3> QED
      BY <3>1, <3>2, <3>3, <1>3, <2>2 DEF BestSoFar
  <2>3. CASE ~(Usable(f) /\ Score(f) < bestScore)
    <3>1. best' = best /\ bestScore' = bestScore
      BY <2>3 DEF TryFormat
    <3>2. 1..(f' - 1) = (1..(f - 1)) \cup {f}
      BY <1>0
    <3>3. Usable(f) => bestScore <= Score(f)
      BY <2>3, <2>1, <1>2
    <3> QED
      BY <3>1, <3>2, <3>3, <2>1, <1>3 DEF BestSoFar
  <2> QED
    BY <2>2, <2>3
<1>5. TypeInv'
  BY <1>0, <1>2 DEF TryFormat, IInv, TypeInv
<1>6. DeviceInv'
  BY <1>0 DEF IInv, DeviceInv, CameraByIndex, Matching
<1>7. FormatInv'
  BY <1>0, <1>3, <1>4 DEF IInv, FormatInv, Requested
<1> QED
  BY <1>5, <1>6, <1>7 DEF IInv

(* And every other step.                                                   *)
LEMMA Inductive == IInv /\ [Next]_vars => IInv'
<1> SUFFICES ASSUME IInv, [Next]_vars PROVE IInv'
  OBVIOUS
<1>1. ASSUME KeepFormat PROVE IInv'
  BY <1>1 DEF KeepFormat, IInv, TypeInv, DeviceInv, FormatInv, CameraByIndex, Matching
<1>2. ASSUME LockForConfiguration PROVE IInv'
  <2>1. /\ pc = "configure" /\ pc' = "format" /\ Requested
        /\ UNCHANGED <<devices, request, d, hits, chosen, f, best, bestScore, active, fps>>
    BY <1>2 DEF LockForConfiguration
  <2>2. TypeInv' /\ DeviceInv'
    BY <2>1 DEF IInv, TypeInv, DeviceInv, CameraByIndex, Matching
  <2>3. f' = 1 /\ best' = 0 /\ bestScore' = IntMax
    BY <2>1 DEF IInv, FormatInv
  <2>4. Formats' \in Seq(Format) /\ 1 \in 1..(Len(Formats') + 1)
    <3>1. devices[chosen] \in Camera
      BY <2>1 DEF IInv, TypeInv, DeviceInv, CameraByIndex
    <3>2. Formats \in Seq(Format)
      BY <3>1 DEF Formats, Camera
    <3> QED
      BY <3>2, <2>1 DEF Formats
  <2>5. BestSoFar'
    BY <2>3 DEF BestSoFar
  <2>6. FormatInv'
    BY <2>1, <2>3, <2>4, <2>5 DEF FormatInv, Requested
  <2> QED
    BY <2>2, <2>6 DEF IInv
<1>3. ASSUME SetFormat PROVE IInv'
  <2>1. /\ pc = "format" /\ pc' = "set" /\ f > Len(Formats) /\ active' = best
        /\ fps' = IF best # 0 /\ Supports(best) THEN Rounded(request.rate) ELSE 0
        /\ UNCHANGED <<devices, request, d, hits, chosen, f, best, bestScore>>
    BY <1>3 DEF SetFormat
  <2>2. request.rate \in Int /\ Rounded(request.rate) \in Int
    <3>1. request.rate \in Int
      BY DEF IInv, TypeInv
    <3> QED
      BY <3>1 DEF Rounded, Unit
  <2>3. TypeInv'
    BY <2>1, <2>2 DEF IInv, TypeInv
  <2>4. DeviceInv'
    BY <2>1 DEF IInv, DeviceInv, CameraByIndex, Matching
  <2>5. /\ Formats' = Formats /\ Requested' = Requested /\ request' = request
        /\ \A k : Usable(k)' = Usable(k) /\ Score(k)' = Score(k) /\ Supports(k)' = Supports(k)
    BY <2>1 DEF Formats, Requested, Usable, Score, Supports, InRange, Distance
  <2>6. BestSoFar' /\ f = Len(Formats) + 1 /\ Requested
    <3>1. BestSoFar /\ f \in 1..(Len(Formats) + 1) /\ Requested
      BY <2>1 DEF IInv, FormatInv
    <3>2. Len(Formats) \in Nat
      <4>1. devices[chosen] \in Camera
        BY <2>1 DEF IInv, TypeInv, DeviceInv, CameraByIndex
      <4>2. Formats \in Seq(Format)
        BY <4>1 DEF Formats, Camera
      <4> QED
        BY <4>2
    <3> QED
      BY <3>1, <3>2, <2>1, <2>5 DEF BestSoFar
  <2>7. FormatInv'
    BY <2>1, <2>5, <2>6 DEF FormatInv
  <2> QED
    BY <2>3, <2>4, <2>7 DEF IInv
<1>4. CASE UNCHANGED vars
  BY <1>4 DEF vars, IInv, TypeInv, DeviceInv, FormatInv, CameraByIndex, Matching, BestSoFar,
     Requested, Formats, Usable, Score, Supports, InRange, Distance
<1> QED
  BY <1>1, <1>2, <1>3, <1>4, DevicesKeep, FormatKeeps DEF Next

(* The loops of open() never leave the invariant, whatever the lists hold. *)
THEOREM Invariant == Spec => []IInv
  BY Initially, Inductive, PTL DEF Spec

(* The camera opened is the match_index-th that matches the name filter.   *)
THEOREM CameraChosen == Spec => []CameraByIndex
<1>1. IInv => CameraByIndex
  BY DEF IInv, DeviceInv
<1> QED
  BY <1>1, Invariant, PTL

(* tryConfigureFormat() prefers the rate to the size, and then takes the   *)
(* closest size, although it only compares one number.                     *)
THEOREM FormatChosen == Spec => []RateBeforeSize
<1>1. ASSUME IInv, pc = "set",
             \A k \in 1..Len(Formats) : Usable(k) => Distance(k) < Penalty,
             NEW m \in 1..Len(Formats), Usable(m), Supports(m)
      PROVE  /\ active \in 1..Len(Formats) /\ Usable(active) /\ Supports(active)
             /\ \A k \in 1..Len(Formats) :
                  Usable(k) /\ Supports(k) => Distance(active) <= Distance(k)
  <2>1. /\ BestSoFar /\ f - 1 = Len(Formats) /\ active = best
        /\ Len(Formats) \in Nat /\ \A k \in 1..Len(Formats) : Formats[k] \in Format
    <3>1. BestSoFar /\ f = Len(Formats) + 1 /\ active = best
      BY <1>1 DEF IInv, FormatInv
    <3>2. devices[chosen] \in Camera
      BY <1>1 DEF IInv, TypeInv, DeviceInv, CameraByIndex
    <3>3. Formats \in Seq(Format)
      BY <3>2 DEF Formats, Camera
    <3> QED
      BY <3>1, <3>3
  <2>2. \A k \in 1..Len(Formats) : Distance(k) \in Nat
    <3> SUFFICES ASSUME NEW k \in 1..Len(Formats) PROVE Distance(k) \in Nat
      OBVIOUS
    <3>1. Formats[k].w \in Int /\ Formats[k].h \in Int
      BY <2>1 DEF Format
    <3>2. request.w \in Int /\ request.h \in Int
      BY <1>1 DEF IInv, TypeInv
    <3>3. \A x \in Int : Abs(x) \in Nat
      BY DEF Abs
    <3>4. Formats[k].w - request.w \in Int /\ Formats[k].h - request.h \in Int
      BY <3>1, <3>2
    <3>5. /\ Abs(Formats[k].w - request.w) \in Nat
          /\ Abs(Formats[k].h - request.h) \in Nat
      BY <3>3, <3>4
    <3> QED
      BY <3>5 DEF Distance
  <2>3. bestScore <= Distance(m) /\ Distance(m) < Penalty
    BY <1>1, <2>1 DEF BestSoFar, Score
  <2>4. best # 0
    BY <2>1, <2>2, <2>3 DEF BestSoFar, IntMax, Penalty
  <2>5. best \in 1..Len(Formats) /\ Usable(best) /\ bestScore = Score(best)
    BY <2>1, <2>4 DEF BestSoFar
  <2>6. Supports(best)
    BY <2>2, <2>3, <2>5 DEF Score, Penalty
  <2>7. ASSUME NEW k \in 1..Len(Formats), Usable(k), Supports(k)
        PROVE  Distance(best) <= Distance(k)
    BY <2>1, <2>5, <2>6, <2>7 DEF BestSoFar, Score
  <2> QED
    BY <2>1, <2>5, <2>6, <2>7
<1>2. IInv => RateBeforeSize
  BY <1>1 DEF RateBeforeSize
<1> QED
  BY <1>2, Invariant, PTL

(* Rounding the rate keeps it in a range with whole limits, and does       *)
(* nothing to a whole rate.                                                *)
LEMMA RoundingStaysInRange ==
  ASSUME NEW r \in RateRange, NEW x \in Int, r.min <= x, x <= r.max,
         x % Unit = 0 \/ (r.min % Unit = 0 /\ r.max % Unit = 0)
  PROVE  r.min <= Rounded(x) * Unit /\ Rounded(x) * Unit <= r.max
<1>1. r.min \in Int /\ r.max \in Int
  BY DEF RateRange
<1>2. CASE x % Unit = 0
  BY <1>1, <1>2 DEF Rounded, Unit
<1>3. CASE r.min % Unit = 0 /\ r.max % Unit = 0
  BY <1>1, <1>3 DEF Rounded, Unit
<1> QED
  BY <1>2, <1>3

(* The rate given to the camera is one its format supports, if the request *)
(* or the limits of the format are whole.                                  *)
THEOREM RateChosen == Spec => []RateSupported
<1>1. ASSUME IInv, pc = "set", fps # 0,
             \/ request.rate % Unit = 0
             \/ \A r \in Formats[active].ranges : r.min % Unit = 0 /\ r.max % Unit = 0
      PROVE  \E r \in Formats[active].ranges : r.min <= fps * Unit /\ fps * Unit <= r.max
  <2>1. /\ active = best /\ best # 0 /\ Supports(best) /\ BestSoFar
        /\ fps = Rounded(request.rate) /\ f = Len(Formats) + 1
    BY <1>1 DEF IInv, FormatInv
  <2>2. PICK r \in Formats[active].ranges : InRange(r)
    BY <2>1 DEF Supports
  <2>3. r \in RateRange
    <3>1. devices[chosen] \in Camera
      BY <1>1 DEF IInv, TypeInv, DeviceInv, CameraByIndex
    <3>2. Formats \in Seq(Format)
      BY <3>1 DEF Formats, Camera
    <3>3. active \in 1..Len(Formats)
      BY <2>1, <3>2 DEF BestSoFar
    <3>4. Formats[active] \in Format
      BY <3>2, <3>3
    <3>5. Formats[active].ranges \in SUBSET RateRange
      BY <3>4, Zenon DEF Format
    <3> QED
      BY <3>5, <2>2
  <2>4. request.rate \in Int
    BY <1>1 DEF IInv, TypeInv
  <2>5. r.min <= fps * Unit /\ fps * Unit <= r.max
    BY <1>1, <2>1, <2>2, <2>3, <2>4, RoundingStaysInRange DEF InRange
  <2> QED
    BY <2>5
<1>2. IInv => RateSupported
  BY <1>1 DEF RateSupported
<1> QED
  BY <1>2, Invariant, PTL

==============================================================================
