------------------------- MODULE StructureDriverClock -------------------------
(***************************************************************************)
(* StructureDriver under a clock that is set back.  Every timestamp of the *)
(* node is ROS time (get_clock()->now()), by default the time of day: when *)
(* it is set back, all timestamps lie in the future for a while and every  *)
(* age is negative.  The timer itself is a wall timer and goes on.  (A     *)
(* clock that is set forward is Elapse several times in a row.)            *)
(***************************************************************************)
EXTENDS StructureDriver, Integers

CONSTANTS
  MaxSetBacks,  \* how often the clock is set back, at most
  MaxBack       \* how far it is set back, at most

ASSUME MaxSetBacksAssumption == MaxSetBacks \in Nat
ASSUME MaxBackAssumption == MaxBack \in Nat

VARIABLE setBacks    \* how often the clock was set back

cvars == <<vars, setBacks>>

CInit == Init /\ setBacks = 0

(* Cap stands for every age from Cap on.                                   *)
Earlier(age, back) == IF age = Cap THEN (Cap - back)..Cap ELSE {age - back}

ClockSetBack ==
  /\ setBacks < MaxSetBacks
  /\ setBacks' = setBacks + 1
  /\ \E back \in 1..MaxBack :
       /\ cmdAge' \in Earlier(cmdAge, back)
       /\ dataAge' \in Earlier(dataAge, back)
       /\ attemptAge' \in Earlier(attemptAge, back)
  /\ UNCHANGED <<cfg, pc, cont, proto, active, modes, idx, burst, output, dev>>

CNext == (Next /\ UNCHANGED setBacks) \/ ClockSetBack

CSpec == CInit /\ [][CNext]_cvars

(* As in StructureDriver: the node runs on and time passes, also after the *)
(* clock was set back.                                                     *)
CFairSpec ==
  /\ CSpec
  /\ WF_cvars((Configure \/ Callback) /\ UNCHANGED setBacks)
  /\ WF_cvars(Elapse /\ UNCHANGED setBacks)
==============================================================================
