----------------------- MODULE MCStructureDriverHistory -----------------------
(***************************************************************************)
(* Parameter sets for model checking StructureDriverHistory.               *)
(***************************************************************************)
EXTENDS StructureDriverHistory

Base ==
  [io |-> "hardware", backend |-> "libusb", fallback |-> TRUE, uvcIndex |-> FALSE,
   autoStart |-> TRUE, autoCycle |-> TRUE, perCycle |-> 1,
   noData |-> 2, reconnectRetry |-> 1, startRetry |-> 1]

(* The limits in both orders, with and without start commands, on a list   *)
(* of one profile.                                                         *)
WindowConfigs ==
  {[Base EXCEPT !.autoStart = s, !.autoCycle = FALSE, !.noData = d, !.startRetry = r] :
     s \in BOOLEAN, d \in {1, 2}, r \in {0, 2}}

(* The rotation: bursts shorter and longer than the list of three          *)
(* profiles; a resend interval below the no-data limit, equal to it, above *)
(* it (where CycleCoverage promises nothing), and no limit.                *)
CycleConfigs ==
  {[Base EXCEPT !.perCycle = n] : n \in {1, 2}}
    \cup {[Base EXCEPT !.startRetry = 2], [Base EXCEPT !.noData = 1, !.startRetry = 2],
          [Base EXCEPT !.perCycle = 4, !.noData = 0]}

HistoryConfigs == WindowConfigs \cup CycleConfigs

RetryConfigs == {[Base EXCEPT !.autoCycle = FALSE, !.reconnectRetry = 2]}

RotateConfigs == {[Base EXCEPT !.perCycle = 2]}

StarveConfigs == {[Base EXCEPT !.noData = 1, !.startRetry = 2]}
==============================================================================
