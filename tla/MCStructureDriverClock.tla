------------------------ MODULE MCStructureDriverClock ------------------------
(***************************************************************************)
(* Parameter sets for checking the liveness of StructureDriver.            *)
(***************************************************************************)
EXTENDS StructureDriverClock

Base ==
  [io |-> "auto", backend |-> "auto", fallback |-> TRUE, uvcIndex |-> FALSE,
   autoStart |-> TRUE, autoCycle |-> FALSE, perCycle |-> 1,
   noData |-> 2, reconnectRetry |-> 1, startRetry |-> 1]

(* One configuration of each kind that tries libusb.                       *)
LiveConfigs ==
  {Base,
   [Base EXCEPT !.io = "hardware", !.fallback = FALSE, !.uvcIndex = TRUE],
   [Base EXCEPT !.backend = "libusb", !.autoCycle = TRUE, !.perCycle = 2]}
==============================================================================
