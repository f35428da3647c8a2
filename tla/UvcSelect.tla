------------------------------ MODULE UvcSelect ------------------------------
(***************************************************************************)
(* Which camera, and which of its formats, UvcCapture::open() chooses in   *)
(* uvc_capture_apple.mm: the loops of selectDevice and of                  *)
(* tryConfigureFormat, one pass a step.  The lists are AVFoundation's.     *)
(* UvcCapture takes over where this module ends.                           *)
(***************************************************************************)
EXTENDS Integers, Sequences, FiniteSets

Unit    == 1000          \* rates are counted in thousandths of a frame per second
Penalty == 1000000       \* for a format without the requested rate
IntMax  == 2147483647    \* numeric_limits<int>::max()

RateRange == [min : Int, max : Int]
Format    == [w : Int, h : Int, ranges : SUBSET RateRange]
Camera    == [matches : BOOLEAN, formats : Seq(Format)]   \* matches: the name filter

VARIABLES
  devices,    \* the list selectDevice got
  request,    \* the arguments of open()
  pc,         \* the loop that runs, "none" or "chosen" when both are over
  d,          \* the device looked at
  hits,       \* current_match_index
  chosen,     \* the device selected, 0 for nil
  f,          \* the format looked at
  best,       \* the best format so far, 0 for nil
  bestScore,  \* best_score
  active,     \* the format made active, 0 if the device keeps its own
  fps         \* the rate set, in frames per second, 0 if the device keeps its own

vars == <<devices, request, pc, d, hits, chosen, f, best, bestScore, active, fps>>

Init ==
  /\ devices \in Seq(Camera)
  /\ request \in [index : Int, w : Int, h : Int, rate : Int]
  /\ pc = "open"
  /\ d = 1 /\ hits = 0 /\ chosen = 0
  /\ f = 1 /\ best = 0 /\ bestScore = IntMax
  /\ active = 0 /\ fps = 0

NegativeIndex ==
  /\ pc = "open" /\ request.index < 0
  /\ pc' = "none"
  /\ UNCHANGED <<devices, request, d, hits, chosen, f, best, bestScore, active, fps>>

ListDevices ==
  /\ pc = "open" /\ request.index >= 0
  /\ pc' = "device"
  /\ UNCHANGED <<devices, request, d, hits, chosen, f, best, bestScore, active, fps>>

SkipDevice ==
  /\ pc = "device" /\ d <= Len(devices)
  /\ devices[d].matches => hits # request.index
  /\ hits' = IF devices[d].matches THEN hits + 1 ELSE hits
  /\ d' = d + 1
  /\ UNCHANGED <<devices, request, pc, chosen, f, best, bestScore, active, fps>>

TakeDevice ==
  /\ pc = "device" /\ d <= Len(devices)
  /\ devices[d].matches /\ hits = request.index
  /\ chosen' = d
  /\ pc' = "configure"
  /\ UNCHANGED <<devices, request, d, hits, f, best, bestScore, active, fps>>

NoDevice ==
  /\ pc = "device" /\ d > Len(devices)
  /\ pc' = "none"
  /\ UNCHANGED <<devices, request, d, hits, chosen, f, best, bestScore, active, fps>>

Requested == request.w > 0 /\ request.h > 0 /\ request.rate > 0

(* Without a request, or without the lock, the camera keeps its format.    *)
KeepFormat ==
  /\ pc = "configure"
  /\ pc' = "kept"
  /\ UNCHANGED <<devices, request, d, hits, chosen, f, best, bestScore, active, fps>>

LockForConfiguration ==
  /\ pc = "configure" /\ Requested
  /\ pc' = "format"
  /\ UNCHANGED <<devices, request, d, hits, chosen, f, best, bestScore, active, fps>>

Formats     == devices[chosen].formats
InRange(r)  == r.min <= request.rate /\ request.rate <= r.max
Usable(k)   == Formats[k].w > 0 /\ Formats[k].h > 0
Supports(k) == \E r \in Formats[k].ranges : InRange(r)
Abs(x)      == IF x < 0 THEN -x ELSE x
Distance(k) == Abs(Formats[k].w - request.w) + Abs(Formats[k].h - request.h)
Score(k)    == IF Supports(k) THEN Distance(k) ELSE Distance(k) + Penalty

TryFormat ==
  /\ pc = "format" /\ f <= Len(Formats)
  /\ f' = f + 1
  /\ IF Usable(f) /\ Score(f) < bestScore
     THEN best' = f /\ bestScore' = Score(f)
     ELSE UNCHANGED <<best, bestScore>>
  /\ UNCHANGED <<devices, request, pc, d, hits, chosen, active, fps>>

(* lround() of a positive rate.                                            *)
Rounded(rate) == (2 * rate + Unit) \div (2 * Unit)

SetFormat ==
  /\ pc = "format" /\ f > Len(Formats)
  /\ active' = best
  /\ fps' = IF best # 0 /\ Supports(best) THEN Rounded(request.rate) ELSE 0
  /\ pc' = "set"
  /\ UNCHANGED <<devices, request, d, hits, chosen, f, best, bestScore>>

Next == \/ NegativeIndex \/ ListDevices \/ SkipDevice \/ TakeDevice \/ NoDevice
        \/ KeepFormat \/ LockForConfiguration \/ TryFormat \/ SetFormat

Spec == Init /\ [][Next]_vars

------------------------------------------------------------------------------

Matching(n) == {k \in 1..n : devices[k].matches}

(* The camera opened is the one that matches after match_index others did, *)
(* and none is opened only if there are no more than match_index.          *)
CameraByIndex ==
  /\ chosen # 0 => /\ chosen \in 1..Len(devices) /\ devices[chosen].matches
                   /\ Cardinality(Matching(chosen - 1)) = request.index
  /\ pc = "none" => \/ request.index < 0
                    \/ Cardinality(Matching(Len(devices))) <= request.index

(* A format with the requested rate is preferred to any without it, and    *)
(* among those with it the closest in size is taken, as long as no format  *)
(* is a million pixels away from the request.                              *)
RateBeforeSize ==
  /\ pc = "set"
  /\ \A k \in 1..Len(Formats) : Usable(k) => Distance(k) < Penalty
  /\ \E k \in 1..Len(Formats) : Usable(k) /\ Supports(k)
  => /\ active \in 1..Len(Formats) /\ Usable(active) /\ Supports(active)
     /\ \A k \in 1..Len(Formats) :
          Usable(k) /\ Supports(k) => Distance(active) <= Distance(k)

(* The rate set is one the active format supports, if the requested rate   *)
(* or the limits of the formats are whole numbers of frames per second.    *)
RateSupported ==
  /\ pc = "set" /\ fps # 0
  /\ \/ request.rate % Unit = 0
     \/ \A r \in Formats[active].ranges : r.min % Unit = 0 /\ r.max % Unit = 0
  => \E r \in Formats[active].ranges : r.min <= fps * Unit /\ fps * Unit <= r.max
==============================================================================
