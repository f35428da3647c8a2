--------------------------- MODULE MCStructureDriver ---------------------------
(***************************************************************************)
(* Parameter sets for model checking StructureDriver.  The thresholds keep *)
(* the order of the defaults: a lost session is retried soonest            *)
(* (reconnectRetry), then start commands are resent (startRetry), then the *)
(* session is reopened (noData).                                           *)
(***************************************************************************)
EXTENDS StructureDriver

Base ==
  [io |-> "auto", backend |-> "auto", fallback |-> TRUE, uvcIndex |-> TRUE,
   autoStart |-> TRUE, autoCycle |-> FALSE, perCycle |-> 1,
   noData |-> 2, reconnectRetry |-> 1, startRetry |-> 1]

(* Every mode, backend and fallback, with the values the code rejects.     *)
ModeConfigs ==
  {[Base EXCEPT !.io = m, !.backend = b, !.fallback = f, !.uvcIndex = u, !.perCycle = 0] :
     m \in {"auto", "hardware", "synthetic", "other"}, b \in {"auto", "uvc", "libusb", "other"},
     f \in BOOLEAN, u \in BOOLEAN}

(* Start commands, cycling and the limits switched on and off.             *)
StartConfigs ==
  {[Base EXCEPT !.backend = "libusb", !.autoStart = s, !.autoCycle = TRUE, !.perCycle = n,
                !.noData = d, !.reconnectRetry = r] :
     s \in BOOLEAN, n \in {1, 2}, d \in {0, 2}, r \in {0, 1}}

AllConfigs == ModeConfigs \cup StartConfigs
==============================================================================
