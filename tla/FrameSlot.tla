------------------------------ MODULE FrameSlot ------------------------------
(***************************************************************************)
(* What the driver node relies on when it reads a capture: the class holds *)
(* a slot for one frame.  A frame goes into the slot whole, and those of a *)
(* session in the order they were captured; open() and close() empty it    *)
(* before isOpen() changes; and getLatestFrame() answers with what the     *)
(* slot holds at one moment, or fails because there is nothing in it.      *)
(***************************************************************************)
EXTENDS Naturals

CONSTANT Sessions

VARIABLES
  open,       \* what isOpen() tells the caller
  settling,   \* open() or close() has emptied the slot and not yet returned
  begun,      \* sessions begun so far
  slot,       \* the frame in the slot
  captured,   \* per session, the frames the delegate has dealt with
  got,        \* whether the last getLatestFrame() had an answer
  answer      \* the last answer

vars == <<open, settling, begun, slot, captured, got, answer>>

NoFrame     == [session |-> 0, number |-> 0]
Whole(f)    == [geometry |-> f, data |-> f]

Init ==
  /\ ~open /\ ~settling /\ begun = 0
  /\ slot = NoFrame
  /\ captured = [s \in Sessions |-> 0]
  /\ got = FALSE /\ answer = Whole(NoFrame)

Empty ==
  /\ slot' = NoFrame
  /\ settling' = TRUE
  /\ UNCHANGED <<open, begun, captured, got, answer>>

Begin ==
  /\ settling
  /\ begun' = begun + 1
  /\ UNCHANGED <<open, settling, slot, captured, got, answer>>

(* The method decides what isOpen() says, and returns or goes on.          *)
Settle ==
  /\ settling
  /\ open' \in BOOLEAN /\ settling' \in BOOLEAN
  /\ UNCHANGED <<begun, slot, captured, got, answer>>

(* The next frame of a session is dropped or replaces the one in the slot. *)
Capture(s) ==
  /\ s <= begun
  /\ captured' = [captured EXCEPT ![s] = @ + 1]
  /\ slot' \in {slot, [session |-> s, number |-> captured'[s]]}
  /\ UNCHANGED <<open, settling, begun, got, answer>>

GetLatestFrame ==
  /\ ~settling
  /\ got' = (open /\ slot # NoFrame)
  /\ answer' = IF got' THEN Whole(slot) ELSE answer
  /\ UNCHANGED <<open, settling, begun, slot, captured>>

Next == Empty \/ Begin \/ Settle \/ GetLatestFrame \/ \E s \in Sessions : Capture(s)

Spec == Init /\ [][Next]_vars
==============================================================================
