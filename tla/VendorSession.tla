---------------------------- MODULE VendorSession ----------------------------
(***************************************************************************)
(* What the driver node relies on when it calls the class VendorProtocol:  *)
(* a session is acquired all or nothing.  Whatever fails on the way, a     *)
(* call of open() that returns has either everything (library context,     *)
(* device handle, all interfaces) or nothing, close() always ends with     *)
(* nothing, and a poll neither gains nor loses anything.                   *)
(***************************************************************************)

VARIABLES
  call,      \* the method being executed, "none" between calls
  session,   \* what isOpen() tells the caller; "gone" after the destructor
  held       \* how much of the USB resources the object holds

vars == <<call, session, held>>

Calls    == {"none", "open", "close", "poll", "destroy"}
Sessions == {"closed", "open", "gone"}
Holdings == {"nothing", "partial", "everything"}

TypeOK ==
  /\ call \in Calls
  /\ session \in Sessions
  /\ held \in Holdings

Init ==
  /\ call = "none"
  /\ session = "closed"
  /\ held = "nothing"

Begin(op) ==
  /\ call = "none"
  /\ session # "gone"
  /\ op = "poll" => session = "open"
  /\ call' = op
  /\ UNCHANGED <<session, held>>

(* In the middle of open(), close() or the destructor resources come and   *)
(* go, and a session that was open stops being usable.                     *)
Work ==
  /\ call \in {"open", "close", "destroy"}
  /\ session' \in {session, "closed"}
  /\ held' \in Holdings
  /\ UNCHANGED call

Return ==
  /\ call' = "none"
  /\ \/ /\ call = "open"
        /\ session' = "open"
        /\ held' = "everything"
     \/ /\ call \in {"open", "close"}
        /\ session' = "closed"
        /\ held' = "nothing"
     \/ /\ call = "destroy"
        /\ session' = "gone"
        /\ held' = "nothing"
     \/ /\ call = "poll"
        /\ UNCHANGED <<session, held>>

Next ==
  \/ \E op \in Calls \ {"none"} : Begin(op)
  \/ Work
  \/ Return

Spec == Init /\ [][Next]_vars
==============================================================================
