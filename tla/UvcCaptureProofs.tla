--------------------------- MODULE UvcCaptureProofs ---------------------------
(***************************************************************************)
(* Proofs about UvcCapture, for any number of sessions and frames.         *)
(*                                                                         *)
(* The argument: whoever is between the first and the last write of a      *)
(* frame holds the mutex, so that the two halves of the latest frame agree *)
(* whenever it is free; and a session is neither running nor wired to the  *)
(* delegate from the time close() has stopped it, so that whatever of an   *)
(* old session is still stored then comes from a delegate call that        *)
(* close() has overtaken.                                                  *)
(***************************************************************************)
EXTENDS UvcCapture, Integers, TLAPS

USE MaxOpensAssumption, MaxFramesAssumption

Storing(s) == callback[s] \in {"store", "storeData", "unlock"}

(* The mutex is held exactly by those who use what it protects.            *)
LockInv ==
  /\ lock = "node" <=> pc \in {"clearData", "check", "copy"}
  /\ lock = "delegate" <=> \E s \in Sessions : Storing(s)
  /\ \A s, t \in Sessions : Storing(s) /\ Storing(t) => s = t

(* The two halves of a frame agree while no one is between them.           *)
FrameInv ==
  /\ pc # "clearData" /\ (\A s \in Sessions : callback[s] # "storeData")
       => latest.geometry = latest.data
  /\ pc = "clearData" => latest.geometry = NoFrame
  /\ \A s \in Sessions : callback[s] = "storeData" => latest.geometry = Frame(s)
  /\ pc = "copy" => copied.geometry = latest.geometry
  /\ pc # "copy" /\ got => copied.geometry = copied.data
  /\ \A s \in Sessions : callback[s] # "none" => delivered[s] > 0

(* What close() and open() have done so far.                               *)
SessionInv ==
  /\ pc \in {"clear", "clearData", "cleared", "addInput", "gone"} => ~session
  /\ pc \in {"clear", "clearData", "cleared", "addInput", "addOutput", "gone"} => ~running
  /\ pc \in {"addOutput", "start"} => session /\ delegate
  /\ pc \in {"idle", "check", "copy"} /\ isOpen => session /\ delegate
  /\ pc \in {"addInput", "addOutput"} => opens < MaxOpens
  /\ pc \in {"stop", "clear", "clearData", "cleared"} /\ caller = "open" => opens < MaxOpens

(* What is left of old sessions was overtaken by a close().                *)
RaceInv ==
  /\ \A s \in Sessions : callback[s] # "none" => s = opens \/ s \in raced
  /\ hasFrame => latest.data.session = opens \/ latest.data.session \in raced
  /\ pc \in {"cleared", "addInput", "addOutput", "gone"} =>
       /\ \A s \in Sessions : callback[s] # "none" => s \in raced
       /\ hasFrame => latest.data.session \in raced

IInv == TypeOK /\ LockInv /\ FrameInv /\ SessionInv /\ RaceInv

(* Writing one half of an image leaves an image, and the other half alone. *)
LEMMA ImageUpdate ==
  ASSUME NEW x \in Images, NEW f \in Frames \cup {NoFrame}
  PROVE  /\ [x EXCEPT !.geometry = f] \in Images
         /\ [x EXCEPT !.geometry = f].geometry = f
         /\ [x EXCEPT !.geometry = f].data = x.data
         /\ [x EXCEPT !.data = f] \in Images
         /\ [x EXCEPT !.data = f].data = f
         /\ [x EXCEPT !.data = f].geometry = x.geometry
         /\ x.geometry \in Frames \cup {NoFrame} /\ x.data \in Frames \cup {NoFrame}
BY DEF Images

(* What the delegate stores is a frame of its session.                     *)
LEMMA FrameType ==
  ASSUME TypeOK, FrameInv, NEW s \in Sessions, callback[s] # "none"
  PROVE  Frame(s) \in Frames /\ Frame(s).session = s
<1>1. delivered[s] \in 1..MaxFrames
  BY DEF TypeOK, FrameInv
<1> QED
  BY <1>1 DEF Frame, Frames

(* The initial states satisfy the inductive invariant.                     *)
LEMMA InitInv == Init => IInv
<1> SUFFICES ASSUME Init PROVE IInv
  OBVIOUS
<1>1. Empty \in Images /\ Empty.geometry = Empty.data /\ Empty.geometry = NoFrame
  BY DEF Empty, Images
<1>2. TypeOK
  <2>1. opens \in 0..MaxOpens /\ raced \in SUBSET Sessions
    BY DEF Init
  <2>2. delivered \in [Sessions -> 0..MaxFrames] /\ callback \in [Sessions -> CallbackSteps]
    <3>1. 0 \in 0..MaxFrames /\ "none" \in CallbackSteps
      BY DEF CallbackSteps
    <3> QED
      BY <3>1 DEF Init
  <2> QED
    BY <1>1, <2>1, <2>2 DEF Init, TypeOK
<1>3. LockInv /\ FrameInv /\ SessionInv /\ RaceInv
  BY <1>1 DEF Init, LockInv, FrameInv, SessionInv, RaceInv, Storing
<1> QED
  BY <1>2, <1>3 DEF IInv

(* The types are preserved.                                                *)
LEMMA TypeNext == IInv /\ [Next]_vars => TypeOK'
<1> SUFFICES ASSUME IInv, [Next]_vars PROVE TypeOK'
  OBVIOUS
<1> USE DEF IInv, TypeOK, SessionInv, FrameInv, CallbackSteps, control, device, shared, answer, queues
<1>a. latest \in Images /\ copied \in Images /\ NoFrame \in Frames \cup {NoFrame}
  OBVIOUS
<1>1. CASE CallClose
  BY <1>1 DEF CallClose, Detach
<1>2. CASE CallOpen
  BY <1>2 DEF CallOpen, Detach
<1>3. CASE CallDestroy
  BY <1>3 DEF CallDestroy, Detach
<1>4. CASE CallGetLatestFrame
  BY <1>4 DEF CallGetLatestFrame
<1>5. CASE StopRunning
  BY <1>5 DEF StopRunning
<1>6. CASE ClearFrame
  BY <1>6, <1>a, ImageUpdate DEF ClearFrame
<1>7. CASE ClearData
  <2>1. latest' \in Images
    BY <1>7, <1>a, ImageUpdate DEF ClearData
  <2>2. raced' \in SUBSET Sessions
    BY <1>7 DEF ClearData
  <2> QED
    BY <1>7, <2>1, <2>2 DEF ClearData
<1>8. CASE Closed
  BY <1>8 DEF Closed, AfterClose
<1>9. CASE AddInputFails
  BY <1>9 DEF AddInputFails, Detach
<1>10. CASE AddInput
  BY <1>10 DEF AddInput
<1>11. CASE AddOutputFails
  BY <1>11 DEF AddOutputFails, Detach
<1>12. CASE AddOutput
  BY <1>12, MaxOpensAssumption DEF AddOutput
<1>13. CASE Started
  BY <1>13 DEF Started
<1>14. CASE NoFrameYet
  BY <1>14 DEF NoFrameYet
<1>15. CASE CopyGeometry
  BY <1>15, <1>a, ImageUpdate DEF CopyGeometry
<1>16. CASE CopyData
  BY <1>16, <1>a, ImageUpdate DEF CopyData
<1>17. CASE SessionToggles
  BY <1>17 DEF SessionToggles
<1>18. ASSUME NEW s \in Sessions, CallbackStarts(s) PROVE TypeOK'
  BY <1>18 DEF CallbackStarts
<1>19. ASSUME NEW s \in Sessions, DropSample(s) PROVE TypeOK'
  BY <1>19 DEF DropSample
<1>20. ASSUME NEW s \in Sessions, LockForStore(s) PROVE TypeOK'
  BY <1>20 DEF LockForStore
<1>21. ASSUME NEW s \in Sessions, StoreGeometry(s) PROVE TypeOK'
  <2>1. Frame(s) \in Frames
    BY <1>21, FrameType DEF StoreGeometry
  <2>2. latest' \in Images
    BY <1>21, <2>1, ImageUpdate DEF StoreGeometry
  <2> QED
    BY <1>21, <2>2 DEF StoreGeometry
<1>22. ASSUME NEW s \in Sessions, StoreData(s) PROVE TypeOK'
  <2>1. Frame(s) \in Frames
    BY <1>22, FrameType DEF StoreData
  <2>2. latest' \in Images
    BY <1>22, <2>1, ImageUpdate DEF StoreData
  <2> QED
    BY <1>22, <2>2 DEF StoreData
<1>23. ASSUME NEW s \in Sessions, CallbackReturns(s) PROVE TypeOK'
  BY <1>23 DEF CallbackReturns
<1>24. CASE UNCHANGED vars
  BY <1>24 DEF vars
<1> QED
  BY <1>1, <1>2, <1>3, <1>4, <1>5, <1>6, <1>7, <1>8, <1>9, <1>10, <1>11, <1>12, <1>13, <1>14, <1>15, <1>16, <1>17, <1>18, <1>19, <1>20, <1>21, <1>22, <1>23, <1>24
     DEF Next, NodeCall, NodeStep, CallbackStep

(* Who uses the shared fields holds the mutex.                             *)
LEMMA LockNext == IInv /\ [Next]_vars => LockInv'
<1> SUFFICES ASSUME IInv, [Next]_vars PROVE LockInv'
  OBVIOUS
<1> USE DEF IInv, TypeOK, LockInv, Storing, control, device, shared, answer, queues
<1>1. CASE CallClose
  BY <1>1 DEF CallClose, Detach
<1>2. CASE CallOpen
  BY <1>2 DEF CallOpen, Detach
<1>3. CASE CallDestroy
  BY <1>3 DEF CallDestroy, Detach
<1>4. CASE CallGetLatestFrame
  BY <1>4 DEF CallGetLatestFrame
<1>5. CASE StopRunning
  BY <1>5 DEF StopRunning
<1>6. CASE ClearFrame
  BY <1>6 DEF ClearFrame
<1>7. CASE ClearData
  BY <1>7 DEF ClearData
<1>8. CASE Closed
  BY <1>8 DEF Closed, AfterClose
<1>9. CASE AddInputFails
  BY <1>9 DEF AddInputFails, Detach
<1>10. CASE AddInput
  BY <1>10 DEF AddInput
<1>11. CASE AddOutputFails
  BY <1>11 DEF AddOutputFails, Detach
<1>12. CASE AddOutput
  BY <1>12 DEF AddOutput
<1>13. CASE Started
  BY <1>13 DEF Started
<1>14. CASE NoFrameYet
  BY <1>14 DEF NoFrameYet
<1>15. CASE CopyGeometry
  BY <1>15 DEF CopyGeometry
<1>16. CASE CopyData
  BY <1>16 DEF CopyData
<1>17. CASE SessionToggles
  BY <1>17 DEF SessionToggles
<1>18. ASSUME NEW s \in Sessions, CallbackStarts(s) PROVE LockInv'
  BY <1>18 DEF CallbackStarts
<1>19. ASSUME NEW s \in Sessions, DropSample(s) PROVE LockInv'
  BY <1>19 DEF DropSample
<1>20. ASSUME NEW s \in Sessions, LockForStore(s) PROVE LockInv'
  BY <1>20 DEF LockForStore
<1>21. ASSUME NEW s \in Sessions, StoreGeometry(s) PROVE LockInv'
  BY <1>21 DEF StoreGeometry, Frame
<1>22. ASSUME NEW s \in Sessions, StoreData(s) PROVE LockInv'
  BY <1>22 DEF StoreData, Frame
<1>23. ASSUME NEW s \in Sessions, CallbackReturns(s) PROVE LockInv'
  BY <1>23 DEF CallbackReturns
<1>24. CASE UNCHANGED vars
  BY <1>24 DEF vars
<1> QED
  BY <1>1, <1>2, <1>3, <1>4, <1>5, <1>6, <1>7, <1>8, <1>9, <1>10, <1>11, <1>12, <1>13, <1>14, <1>15, <1>16, <1>17, <1>18, <1>19, <1>20, <1>21, <1>22, <1>23, <1>24
     DEF Next, NodeCall, NodeStep, CallbackStep

(* A frame is only halved while someone holds the mutex.                   *)
LEMMA FrameNext == IInv /\ [Next]_vars => FrameInv'
<1> SUFFICES ASSUME IInv, [Next]_vars PROVE FrameInv'
  OBVIOUS
<1> USE DEF IInv, TypeOK, LockInv, FrameInv, Storing, Frame, control, device, shared, answer, queues
<1>a. latest \in Images /\ copied \in Images /\ NoFrame \in Frames \cup {NoFrame}
  OBVIOUS
<1>1. CASE CallClose
  BY <1>1 DEF CallClose, Detach
<1>2. CASE CallOpen
  BY <1>2 DEF CallOpen, Detach
<1>3. CASE CallDestroy
  BY <1>3 DEF CallDestroy, Detach
<1>4. CASE CallGetLatestFrame
  BY <1>4 DEF CallGetLatestFrame
<1>5. CASE StopRunning
  BY <1>5 DEF StopRunning
<1>6. CASE ClearFrame
  BY <1>6, <1>a, ImageUpdate DEF ClearFrame
<1>7. CASE ClearData
  BY <1>7, <1>a, ImageUpdate DEF ClearData
<1>8. CASE Closed
  BY <1>8 DEF Closed, AfterClose
<1>9. CASE AddInputFails
  BY <1>9 DEF AddInputFails, Detach
<1>10. CASE AddInput
  BY <1>10 DEF AddInput
<1>11. CASE AddOutputFails
  BY <1>11 DEF AddOutputFails, Detach
<1>12. CASE AddOutput
  BY <1>12 DEF AddOutput
<1>13. CASE Started
  BY <1>13 DEF Started
<1>14. CASE NoFrameYet
  BY <1>14 DEF NoFrameYet
<1>15. CASE CopyGeometry
  BY <1>15 DEF CopyGeometry
<1>16. CASE CopyData
  BY <1>16 DEF CopyData
<1>17. CASE SessionToggles
  BY <1>17 DEF SessionToggles
<1>18. ASSUME NEW s \in Sessions, CallbackStarts(s) PROVE FrameInv'
  BY <1>18 DEF CallbackStarts
<1>19. ASSUME NEW s \in Sessions, DropSample(s) PROVE FrameInv'
  BY <1>19 DEF DropSample
<1>20. ASSUME NEW s \in Sessions, LockForStore(s) PROVE FrameInv'
  BY <1>20 DEF LockForStore
<1>21. ASSUME NEW s \in Sessions, StoreGeometry(s) PROVE FrameInv'
  <2>1. Frame(s) \in Frames
    BY <1>21, FrameType DEF StoreGeometry
  <2> QED
    BY <1>21, <1>a, <2>1, ImageUpdate DEF StoreGeometry
<1>22. ASSUME NEW s \in Sessions, StoreData(s) PROVE FrameInv'
  <2>1. Frame(s) \in Frames
    BY <1>22, FrameType DEF StoreData
  <2> QED
    BY <1>22, <1>a, <2>1, ImageUpdate DEF StoreData
<1>23. ASSUME NEW s \in Sessions, CallbackReturns(s) PROVE FrameInv'
  BY <1>23 DEF CallbackReturns
<1>24. CASE UNCHANGED vars
  BY <1>24 DEF vars
<1> QED
  BY <1>1, <1>2, <1>3, <1>4, <1>5, <1>6, <1>7, <1>8, <1>9, <1>10, <1>11, <1>12, <1>13, <1>14, <1>15, <1>16, <1>17, <1>18, <1>19, <1>20, <1>21, <1>22, <1>23, <1>24
     DEF Next, NodeCall, NodeStep, CallbackStep

(* Sessions are wired and running only where open() has got to.            *)
LEMMA SessionNext == IInv /\ [Next]_vars => SessionInv'
<1> SUFFICES ASSUME IInv, [Next]_vars PROVE SessionInv'
  OBVIOUS
<1> USE DEF IInv, TypeOK, SessionInv, control, device, shared, answer, queues
<1>1. CASE CallClose
  BY <1>1 DEF CallClose, Detach
<1>2. CASE CallOpen
  BY <1>2 DEF CallOpen, Detach
<1>3. CASE CallDestroy
  BY <1>3 DEF CallDestroy, Detach
<1>4. CASE CallGetLatestFrame
  BY <1>4 DEF CallGetLatestFrame
<1>5. CASE StopRunning
  BY <1>5 DEF StopRunning
<1>6. CASE ClearFrame
  BY <1>6 DEF ClearFrame
<1>7. CASE ClearData
  BY <1>7 DEF ClearData
<1>8. CASE Closed
  BY <1>8 DEF Closed, AfterClose
<1>9. CASE AddInputFails
  BY <1>9 DEF AddInputFails, Detach
<1>10. CASE AddInput
  BY <1>10 DEF AddInput
<1>11. CASE AddOutputFails
  BY <1>11 DEF AddOutputFails, Detach
<1>12. CASE AddOutput
  BY <1>12 DEF AddOutput
<1>13. CASE Started
  BY <1>13 DEF Started
<1>14. CASE NoFrameYet
  BY <1>14 DEF NoFrameYet
<1>15. CASE CopyGeometry
  BY <1>15 DEF CopyGeometry
<1>16. CASE CopyData
  BY <1>16 DEF CopyData
<1>17. CASE SessionToggles
  BY <1>17 DEF SessionToggles
<1>18. ASSUME NEW s \in Sessions, CallbackStarts(s) PROVE SessionInv'
  BY <1>18 DEF CallbackStarts
<1>19. ASSUME NEW s \in Sessions, DropSample(s) PROVE SessionInv'
  BY <1>19 DEF DropSample
<1>20. ASSUME NEW s \in Sessions, LockForStore(s) PROVE SessionInv'
  BY <1>20 DEF LockForStore
<1>21. ASSUME NEW s \in Sessions, StoreGeometry(s) PROVE SessionInv'
  BY <1>21 DEF StoreGeometry, Frame
<1>22. ASSUME NEW s \in Sessions, StoreData(s) PROVE SessionInv'
  BY <1>22 DEF StoreData, Frame
<1>23. ASSUME NEW s \in Sessions, CallbackReturns(s) PROVE SessionInv'
  BY <1>23 DEF CallbackReturns
<1>24. CASE UNCHANGED vars
  BY <1>24 DEF vars
<1> QED
  BY <1>1, <1>2, <1>3, <1>4, <1>5, <1>6, <1>7, <1>8, <1>9, <1>10, <1>11, <1>12, <1>13, <1>14, <1>15, <1>16, <1>17, <1>18, <1>19, <1>20, <1>21, <1>22, <1>23, <1>24
     DEF Next, NodeCall, NodeStep, CallbackStep

(* What is left of an old session was overtaken by close().                *)
LEMMA RaceNext == IInv /\ [Next]_vars => RaceInv'
<1> SUFFICES ASSUME IInv, [Next]_vars PROVE RaceInv'
  OBVIOUS
<1> USE DEF IInv, TypeOK, SessionInv, RaceInv, control, device, shared, answer, queues
<1>1. CASE CallClose
  BY <1>1 DEF CallClose, Detach
<1>2. CASE CallOpen
  BY <1>2 DEF CallOpen, Detach
<1>3. CASE CallDestroy
  BY <1>3 DEF CallDestroy, Detach
<1>4. CASE CallGetLatestFrame
  BY <1>4 DEF CallGetLatestFrame
<1>5. CASE StopRunning
  BY <1>5 DEF StopRunning
<1>6. CASE ClearFrame
  BY <1>6 DEF ClearFrame
<1>7. CASE ClearData
  BY <1>7 DEF ClearData
<1>8. CASE Closed
  BY <1>8 DEF Closed, AfterClose
<1>9. CASE AddInputFails
  BY <1>9 DEF AddInputFails, Detach
<1>10. CASE AddInput
  BY <1>10 DEF AddInput
<1>11. CASE AddOutputFails
  BY <1>11 DEF AddOutputFails, Detach
<1>12. CASE AddOutput
  BY <1>12 DEF AddOutput
<1>13. CASE Started
  BY <1>13 DEF Started
<1>14. CASE NoFrameYet
  BY <1>14 DEF NoFrameYet
<1>15. CASE CopyGeometry
  BY <1>15 DEF CopyGeometry
<1>16. CASE CopyData
  BY <1>16 DEF CopyData
<1>17. CASE SessionToggles
  BY <1>17 DEF SessionToggles
<1>18. ASSUME NEW s \in Sessions, CallbackStarts(s) PROVE RaceInv'
  BY <1>18 DEF CallbackStarts
<1>19. ASSUME NEW s \in Sessions, DropSample(s) PROVE RaceInv'
  BY <1>19 DEF DropSample
<1>20. ASSUME NEW s \in Sessions, LockForStore(s) PROVE RaceInv'
  BY <1>20 DEF LockForStore
<1>21. ASSUME NEW s \in Sessions, StoreGeometry(s) PROVE RaceInv'
  BY <1>21 DEF StoreGeometry, Frame
<1>22. ASSUME NEW s \in Sessions, StoreData(s) PROVE RaceInv'
  BY <1>22 DEF StoreData, Frame
<1>23. ASSUME NEW s \in Sessions, CallbackReturns(s) PROVE RaceInv'
  BY <1>23 DEF CallbackReturns
<1>24. CASE UNCHANGED vars
  BY <1>24 DEF vars
<1> QED
  BY <1>1, <1>2, <1>3, <1>4, <1>5, <1>6, <1>7, <1>8, <1>9, <1>10, <1>11, <1>12, <1>13, <1>14, <1>15, <1>16, <1>17, <1>18, <1>19, <1>20, <1>21, <1>22, <1>23, <1>24
     DEF Next, NodeCall, NodeStep, CallbackStep

(* Every step of the node and of the queues preserves the invariant.       *)
LEMMA InvNext == IInv /\ [Next]_vars => IInv'
BY TypeNext, LockNext, FrameNext, SessionNext, RaceNext DEF IInv

(* The inductive invariant holds in every state of every behaviour.        *)
THEOREM Invariant == Spec => []IInv
BY InitInv, InvNext, PTL DEF Spec

(* No frame is handed out that consists of two.                            *)
THEOREM FramesWhole == Spec => []NoTornFrame
<1>1. IInv => NoTornFrame
  BY DEF IInv, FrameInv, NoTornFrame
<1> QED
  BY Invariant, <1>1, PTL

(* A capture that reports to be open is wired to deliver frames.           *)
THEOREM OpenIsWired == Spec => []OpenCanDeliver
<1>1. IInv => OpenCanDeliver
  BY DEF IInv, SessionInv, OpenCanDeliver
<1> QED
  BY Invariant, <1>1, PTL

(* A frame of an old session was overtaken by a close().                   *)
THEOREM StaleOnlyByRace == Spec => []StaleFrameOnlyByRace
<1>1. IInv => StaleFrameOnlyByRace
  BY DEF IInv, RaceInv, StaleFrameOnlyByRace
<1> QED
  BY Invariant, <1>1, PTL

(* A delegate call that uses the freed implementation was overtaken by the *)
(* close() of the destructor.                                              *)
THEOREM UseAfterFreeOnlyByRace == Spec => []FreedOnlyByRace
<1>1. IInv => FreedOnlyByRace
  BY DEF IInv, RaceInv, FreedOnlyByRace
<1> QED
  BY Invariant, <1>1, PTL

------------------------------------------------------------------------------
(* The class implements a slot for one frame.                              *)

(* What an answer tells: the flag is set just when there is a frame, and   *)
(* an answer is given only for one; an image handed out is whole as long   *)
(* as no other is being copied; and only sessions that began deliver.      *)
AnswerInv ==
  /\ hasFrame <=> latest.data # NoFrame
  /\ pc = "copy" => isOpen /\ hasFrame
  /\ pc # "copy" => copied.geometry = copied.data
  /\ \A s \in Sessions : callback[s] # "none" => s <= opens

LEMMA AnswerNext == IInv /\ AnswerInv /\ [Next]_vars => AnswerInv'
<1> SUFFICES ASSUME IInv, AnswerInv, [Next]_vars PROVE AnswerInv'
  OBVIOUS
<1> USE DEF AnswerInv, control, device, shared, answer, queues
<1>a. /\ latest \in Images /\ copied \in Images /\ NoFrame \in Frames \cup {NoFrame}
      /\ opens \in Nat /\ callback \in [Sessions -> CallbackSteps]
      /\ pc = "copy" => copied.geometry = latest.geometry /\ latest.geometry = latest.data
      /\ Sessions \subseteq Nat
  BY DEF IInv, TypeOK, FrameInv, LockInv, Storing, Sessions
<1>1. CASE CallClose
  BY <1>1 DEF CallClose, Detach
<1>2. CASE CallOpen
  BY <1>2 DEF CallOpen, Detach
<1>3. CASE CallDestroy
  BY <1>3 DEF CallDestroy, Detach
<1>4. CASE CallGetLatestFrame
  BY <1>4 DEF CallGetLatestFrame
<1>5. CASE StopRunning
  BY <1>5 DEF StopRunning
<1>6. CASE ClearFrame
  BY <1>6, <1>a, ImageUpdate DEF ClearFrame
<1>7. CASE ClearData
  BY <1>7, <1>a, ImageUpdate DEF ClearData
<1>8. CASE Closed
  BY <1>8 DEF Closed, AfterClose, IInv, TypeOK
<1>9. CASE AddInputFails
  BY <1>9 DEF AddInputFails, Detach
<1>10. CASE AddInput
  BY <1>10 DEF AddInput
<1>11. CASE AddOutputFails
  BY <1>11 DEF AddOutputFails, Detach
<1>12. CASE AddOutput
  BY <1>12, <1>a DEF AddOutput
<1>13. CASE Started
  BY <1>13 DEF Started
<1>14. CASE NoFrameYet
  BY <1>14 DEF NoFrameYet
<1>15. CASE CopyGeometry
  BY <1>15, <1>a, ImageUpdate DEF CopyGeometry
<1>16. CASE CopyData
  <2>1. copied'.data = latest.data /\ copied'.geometry = copied.geometry
    BY <1>16, <1>a, ImageUpdate DEF CopyData
  <2> QED
    BY <1>16, <1>a, <2>1 DEF CopyData
<1>17. CASE SessionToggles
  BY <1>17 DEF SessionToggles
<1>18. ASSUME NEW s \in Sessions, CallbackStarts(s) PROVE AnswerInv'
  BY <1>18, <1>a DEF CallbackStarts
<1>19. ASSUME NEW s \in Sessions, DropSample(s) PROVE AnswerInv'
  BY <1>19, <1>a DEF DropSample
<1>20. ASSUME NEW s \in Sessions, LockForStore(s) PROVE AnswerInv'
  BY <1>20, <1>a DEF LockForStore
<1>21. ASSUME NEW s \in Sessions, StoreGeometry(s) PROVE AnswerInv'
  <2>1. Frame(s) \in Frames
    BY <1>21, FrameType DEF StoreGeometry, IInv
  <2>2. latest'.data = latest.data
    BY <1>21, <1>a, <2>1, ImageUpdate DEF StoreGeometry
  <2> QED
    BY <1>21, <1>a, <2>2 DEF StoreGeometry
<1>22. ASSUME NEW s \in Sessions, StoreData(s) PROVE AnswerInv'
  <2>1. Frame(s) \in Frames /\ Frame(s).session = s
    BY <1>22, FrameType DEF StoreData, IInv
  <2>2. latest'.data = Frame(s) /\ Frame(s) # NoFrame
    BY <1>22, <1>a, <2>1, ImageUpdate DEF StoreData, NoFrame, Sessions
  <2>3. pc # "copy"
    BY <1>22 DEF StoreData, IInv, LockInv, Storing
  <2> QED
    BY <1>22, <1>a, <2>2, <2>3 DEF StoreData
<1>23. ASSUME NEW s \in Sessions, CallbackReturns(s) PROVE AnswerInv'
  BY <1>23, <1>a DEF CallbackReturns
<1>24. CASE UNCHANGED vars
  BY <1>24 DEF vars
<1> QED
  BY <1>1, <1>2, <1>3, <1>4, <1>5, <1>6, <1>7, <1>8, <1>9, <1>10, <1>11, <1>12, <1>13,
     <1>14, <1>15, <1>16, <1>17, <1>18, <1>19, <1>20, <1>21, <1>22, <1>23, <1>24
     DEF Next, NodeCall, NodeStep, CallbackStep

(* It holds in every state.                                                *)
THEOREM Answers == Spec => []AnswerInv
<1>1. Init => AnswerInv
  BY DEF Init, AnswerInv, Empty
<1> QED
  BY <1>1, AnswerNext, Invariant, PTL DEF Spec

(* The initial states are those of an empty slot.                          *)
LEMMA SlotInit == Init => Slot!Init
<1> SUFFICES ASSUME Init PROVE Slot!Init
  OBVIOUS
<1>1. capturedBar = [s \in Sessions |-> 0]
  BY DEF Init, capturedBar
<1> QED
  BY <1>1 DEF Init, Empty, NoFrame, settlingBar, answerBar, Slot!Init, Slot!Whole, Slot!NoFrame

(* Every step is one of the slot, or changes nothing of it.                *)
LEMMA SlotNext == IInv /\ AnswerInv /\ [Next]_vars => [Slot!Next]_(Slot!vars)
<1> SUFFICES ASSUME IInv, AnswerInv, [Next]_vars PROVE [Slot!Next]_(Slot!vars)
  OBVIOUS
<1> USE DEF control, device, shared, answer, queues, Slot!Next, Slot!vars
<1>a. /\ latest \in Images /\ copied \in Images /\ NoFrame \in Frames \cup {NoFrame}
      /\ isOpen \in BOOLEAN /\ running \in BOOLEAN
      /\ callback \in [Sessions -> CallbackSteps] /\ delivered \in [Sessions -> Nat]
      /\ pc = "copy" => copied.geometry = latest.geometry /\ latest.geometry = latest.data
  BY DEF IInv, TypeOK, FrameInv, LockInv, Storing
<1>b. UNCHANGED <<callback, delivered>> => capturedBar' = capturedBar
  BY DEF capturedBar
<1>c. copied' = copied /\ (pc' = "copy" <=> pc = "copy") => answerBar' = answerBar
  BY DEF answerBar
<1>d. ASSUME NEW s \in Sessions, callback[s] \in {"convert", "storeData"}, NEW step \in {"none", "unlock"},
             callback' = [callback EXCEPT ![s] = step], delivered' = delivered
      PROVE  capturedBar' = [capturedBar EXCEPT ![s] = @ + 1] /\ capturedBar'[s] = delivered[s]
  <2>1. callback'[s] = step /\ \A t \in Sessions : t # s => callback'[t] = callback[t]
    BY <1>a, <1>d
  <2>2. capturedBar[s] = delivered[s] - 1 /\ capturedBar'[s] = delivered[s]
    BY <1>d, <2>1 DEF capturedBar
  <2>3. \A t \in Sessions : t # s => capturedBar'[t] = capturedBar[t]
    BY <1>d, <2>1 DEF capturedBar
  <2>4. /\ capturedBar = [t \in Sessions |-> capturedBar[t]]
        /\ capturedBar' = [t \in Sessions |-> capturedBar'[t]]
    BY DEF capturedBar
  <2>5. capturedBar'[s] = capturedBar[s] + 1
    BY <1>a, <2>2
  <2> HIDE DEF capturedBar
  <2> QED
    BY <2>2, <2>3, <2>4, <2>5
<1>1. CASE CallClose
  BY <1>1, <1>b, <1>c DEF CallClose, settlingBar, Detach
<1>2. CASE CallOpen
  BY <1>2, <1>b, <1>c DEF CallOpen, settlingBar, Detach
<1>3. CASE CallDestroy
  BY <1>3, <1>b, <1>c DEF CallDestroy, settlingBar, Detach
<1>4. CASE CallGetLatestFrame
  BY <1>4, <1>b, <1>c DEF CallGetLatestFrame, settlingBar
<1>5. CASE StopRunning
  BY <1>5, <1>b, <1>c DEF StopRunning, settlingBar
<1>6. CASE ClearFrame
  BY <1>6, <1>a, <1>b, <1>c, ImageUpdate DEF ClearFrame, settlingBar
<1>7. CASE ClearData
  BY <1>7, <1>a, <1>b, <1>c, ImageUpdate DEF ClearData, settlingBar, Slot!Empty, Slot!NoFrame, NoFrame
<1>8. CASE Closed
  <2>1. pc' \in {"idle", "addInput", "gone"} /\ pc = "cleared"
    BY <1>8 DEF Closed, AfterClose, IInv, TypeOK
  <2>2. settlingBar /\ settlingBar' \in BOOLEAN
    BY <2>1 DEF settlingBar
  <2>3. UNCHANGED <<opens, latest, capturedBar, got, answerBar>> /\ isOpen' = FALSE
    BY <1>8, <1>b, <1>c, <2>1 DEF Closed
  <2> QED
    BY <2>2, <2>3 DEF Slot!Settle
<1>9. CASE AddInputFails
  BY <1>9, <1>a, <1>b, <1>c DEF AddInputFails, Detach, settlingBar, Slot!Settle
<1>10. CASE AddInput
  BY <1>10, <1>b, <1>c DEF AddInput, settlingBar
<1>11. CASE AddOutputFails
  BY <1>11, <1>a, <1>b, <1>c DEF AddOutputFails, Detach, settlingBar, Slot!Settle
<1>12. CASE AddOutput
  BY <1>12, <1>b, <1>c DEF AddOutput, settlingBar, Slot!Begin
<1>13. CASE Started
  BY <1>13, <1>a, <1>b, <1>c DEF Started, settlingBar, Slot!Settle
<1>14. CASE NoFrameYet
  <2>1. got' = FALSE /\ ~(isOpen /\ latest.data # NoFrame)
    BY <1>14 DEF NoFrameYet, AnswerInv
  <2>2. UNCHANGED <<isOpen, opens, latest, capturedBar, answerBar>>
    BY <1>14, <1>b, <1>c DEF NoFrameYet
  <2>3. ~settlingBar /\ settlingBar' = settlingBar
    BY <1>14 DEF NoFrameYet, settlingBar
  <2>4. got' = (isOpen /\ latest.data # Slot!NoFrame)
    BY <2>1 DEF NoFrame, Slot!NoFrame
  <2> QED
    BY <2>1, <2>2, <2>3, <2>4 DEF Slot!GetLatestFrame
<1>15. CASE CopyGeometry
  <2>1. copied.geometry = copied.data /\ copied'.data = copied.data
    BY <1>15, <1>a, ImageUpdate DEF CopyGeometry, AnswerInv
  <2>2. copied = [geometry |-> copied.data, data |-> copied.data]
    BY <1>a, <2>1 DEF Images
  <2>3. answerBar' = answerBar
    BY <1>15, <2>1, <2>2 DEF CopyGeometry, answerBar
  <2> QED
    BY <1>15, <1>b, <2>3 DEF CopyGeometry, settlingBar
<1>16. CASE CopyData
  <2>1. /\ isOpen /\ latest.data # NoFrame
        /\ copied.geometry = latest.geometry /\ latest.geometry = latest.data
    BY <1>16, <1>a DEF CopyData, AnswerInv
  <2>2. copied' \in Images /\ copied'.data = latest.data /\ copied'.geometry = latest.data
    BY <1>16, <1>a, <2>1, ImageUpdate DEF CopyData
  <2>3. copied' = [geometry |-> latest.data, data |-> latest.data]
    BY <2>2 DEF Images
  <2>4. answerBar' = Slot!Whole(latest.data)
    BY <1>16, <2>3 DEF CopyData, answerBar, Slot!Whole
  <2>5. got' = TRUE
    BY <1>16, <2>1 DEF CopyData
  <2> QED
    BY <1>16, <1>b, <2>1, <2>4, <2>5 DEF CopyData, settlingBar, Slot!GetLatestFrame, Slot!NoFrame, NoFrame
<1>17. CASE SessionToggles
  BY <1>17, <1>b, <1>c DEF SessionToggles, settlingBar
<1>18. ASSUME NEW s \in Sessions, CallbackStarts(s) PROVE [Slot!Next]_(Slot!vars)
  <2>1. capturedBar' = capturedBar
    <3>1. delivered' \in [Sessions -> Nat] /\ delivered'[s] = delivered[s] + 1
          /\ callback[s] = "none" /\ callback'[s] = "convert"
      BY <1>18, <1>a DEF CallbackStarts
    <3>2. \A t \in Sessions : t # s => callback'[t] = callback[t] /\ delivered'[t] = delivered[t]
      BY <1>18, <1>a DEF CallbackStarts
    <3> QED
      BY <1>a, <3>1, <3>2 DEF capturedBar
  <2> QED
    BY <1>18, <1>c, <2>1 DEF CallbackStarts, settlingBar
<1>19. ASSUME NEW s \in Sessions, DropSample(s) PROVE [Slot!Next]_(Slot!vars)
  <2>1. /\ callback[s] = "convert" /\ callback' = [callback EXCEPT ![s] = "none"]
        /\ UNCHANGED <<pc, opens, delivered, isOpen, got, copied>>
    BY <1>19 DEF DropSample
  <2>2. capturedBar' = [capturedBar EXCEPT ![s] = @ + 1] /\ capturedBar'[s] = delivered[s]
    BY <2>1, <1>d
  <2>3. s <= opens
    BY <2>1 DEF AnswerInv
  <2>4. Slot!Capture(s)
    BY <1>19, <1>c, <2>1, <2>2, <2>3 DEF DropSample, settlingBar, Slot!Capture
  <2> QED
    BY <2>4
<1>20. ASSUME NEW s \in Sessions, LockForStore(s) PROVE [Slot!Next]_(Slot!vars)
  <2>1. capturedBar' = capturedBar
    BY <1>20, <1>a DEF LockForStore, capturedBar
  <2> QED
    BY <1>20, <1>c, <2>1 DEF LockForStore, settlingBar
<1>21. ASSUME NEW s \in Sessions, StoreGeometry(s) PROVE [Slot!Next]_(Slot!vars)
  <2>1. capturedBar' = capturedBar
    BY <1>21, <1>a DEF StoreGeometry, capturedBar
  <2>2. latest'.data = latest.data
    BY <1>21, <1>a, FrameType, ImageUpdate DEF StoreGeometry, IInv
  <2> QED
    BY <1>21, <1>c, <2>1, <2>2 DEF StoreGeometry, settlingBar
<1>22. ASSUME NEW s \in Sessions, StoreData(s) PROVE [Slot!Next]_(Slot!vars)
  <2>1. /\ callback[s] = "storeData" /\ callback' = [callback EXCEPT ![s] = "unlock"]
        /\ UNCHANGED <<pc, opens, delivered, isOpen, got, copied>>
    BY <1>22 DEF StoreData
  <2>2. capturedBar' = [capturedBar EXCEPT ![s] = @ + 1] /\ capturedBar'[s] = delivered[s]
    BY <2>1, <1>d
  <2>3. s <= opens
    BY <2>1 DEF AnswerInv
  <2>4. latest'.data = Frame(s)
    BY <1>22, <1>a, FrameType, ImageUpdate DEF StoreData, IInv
  <2>5. latest'.data = [session |-> s, number |-> capturedBar'[s]]
    BY <2>2, <2>4 DEF Frame
  <2>6. Slot!Capture(s)
    BY <1>c, <2>1, <2>2, <2>3, <2>5 DEF settlingBar, Slot!Capture
  <2> QED
    BY <2>6
<1>23. ASSUME NEW s \in Sessions, CallbackReturns(s) PROVE [Slot!Next]_(Slot!vars)
  <2>1. capturedBar' = capturedBar
    BY <1>23, <1>a DEF CallbackReturns, capturedBar
  <2> QED
    BY <1>23, <1>c, <2>1 DEF CallbackReturns, settlingBar
<1>24. CASE UNCHANGED vars
  BY <1>24 DEF vars, settlingBar, capturedBar, answerBar
<1> QED
  BY <1>1, <1>2, <1>3, <1>4, <1>5, <1>6, <1>7, <1>8, <1>9, <1>10, <1>11, <1>12, <1>13,
     <1>14, <1>15, <1>16, <1>17, <1>18, <1>19, <1>20, <1>21, <1>22, <1>23, <1>24
     DEF Next, NodeCall, NodeStep, CallbackStep

(* The class implements the slot.                                          *)
THEOREM ImplementsSlot == Spec => SlotSpec
BY SlotInit, SlotNext, Invariant, Answers, PTL DEF Spec, SlotSpec, Slot!Spec

(* Two frames of a session are told apart by the order of their capture:   *)
(* the one in the slot is no older than the last answer, and neither is    *)
(* newer than what the delegate has dealt with.                            *)
Older(f, g) == f.session = g.session => f.number <= g.number

OrderInv ==
  /\ Older(copied.data, latest.data)
  /\ \A f \in {copied.data, latest.data} :
       f.session \in Sessions => f.number <= capturedBar[f.session]

(* It follows from the steps of the slot alone.                            *)
LEMMA OrderNext ==
  ASSUME IInv, IInv', OrderInv, [Slot!Next]_(Slot!vars)
  PROVE  OrderInv' /\ Older(copied.data, copied'.data)
<1> DEFINE out == copied.data
           in == latest.data
<1>a. /\ out \in Frames \cup {NoFrame} /\ in \in Frames \cup {NoFrame}
      /\ out' \in Frames \cup {NoFrame} /\ in' \in Frames \cup {NoFrame}
      /\ capturedBar \in [Sessions -> Int]
  <2>1. latest \in Images /\ copied \in Images /\ latest' \in Images /\ copied' \in Images
    BY DEF IInv, TypeOK
  <2>2. delivered \in [Sessions -> Nat]
    BY DEF IInv, TypeOK
  <2>3. capturedBar \in [Sessions -> Int]
    BY <2>2 DEF capturedBar
  <2> QED
    BY <2>1, <2>3 DEF Images
<1>b. out.number \in Int /\ in.number \in Int
  BY <1>a DEF Frames, NoFrame
<1>c. answerBar.data = out /\ answerBar'.data = out'
  BY DEF answerBar
<1>d. NoFrame.session \notin Sessions /\ NoFrame = Slot!NoFrame /\ NoFrame.number = 0
  BY DEF NoFrame, Slot!NoFrame, Sessions
<1> USE DEF OrderInv, Older
<1>1. CASE UNCHANGED <<out, in, capturedBar>>
  BY <1>1, <1>b
<1>2. CASE Slot!Empty
  <2>1. in' = NoFrame /\ out' = out /\ capturedBar' = capturedBar
    BY <1>2, <1>c, <1>d DEF Slot!Empty
  <2>2. out.session \notin Sessions => out = NoFrame
    BY <1>a DEF Frames
  <2> HIDE DEF out, in
  <2>3. Older(out, in')
    BY <1>d, <2>1, <2>2
  <2> QED
    BY <1>b, <1>d, <2>1, <2>3 DEF out, in
<1>3. CASE Slot!GetLatestFrame
  <2>1. in' = in /\ out' \in {in, out} /\ capturedBar' = capturedBar
    BY <1>3, <1>c DEF Slot!GetLatestFrame, Slot!Whole
  <2> HIDE DEF out, in
  <2> QED
    BY <1>b, <2>1 DEF out, in
<1>4. ASSUME NEW s \in Sessions, Slot!Capture(s)
      PROVE  OrderInv' /\ Older(copied.data, copied'.data)
  <2>1. /\ out' = out
        /\ capturedBar' = [capturedBar EXCEPT ![s] = @ + 1]
        /\ in' \in {in, [session |-> s, number |-> capturedBar'[s]]}
    BY <1>4, <1>c DEF Slot!Capture
  <2>2. /\ capturedBar'[s] = capturedBar[s] + 1
        /\ \A t \in Sessions : capturedBar[t] <= capturedBar'[t] /\ capturedBar[t] \in Int /\ capturedBar'[t] \in Int
    BY <1>a, <2>1
  <2>3. \A f \in {out, in} : f.session \in Sessions => f.number <= capturedBar'[f.session]
    <3>1. \A f \in {out, in} : f.session \in Sessions => f.number <= capturedBar[f.session]
      OBVIOUS
    <3> HIDE DEF out, in
    <3> QED
      BY <1>b, <2>2, <3>1
  <2>4. CASE in' = in
    BY <1>b, <2>1, <2>3, <2>4
  <2>5. CASE in' = [session |-> s, number |-> capturedBar'[s]]
    <3> HIDE DEF out, in
    <3>1. in'.session = s /\ in'.number = capturedBar'[s]
      BY <2>5
    <3>2. Older(out, in')
      BY <2>3, <3>1
    <3> QED
      BY <1>b, <2>1, <2>2, <2>3, <3>1, <3>2 DEF out, in
  <2> QED
    BY <2>1, <2>4, <2>5
<1> QED
  BY <1>1, <1>2, <1>3, <1>4, <1>c DEF Slot!Next, Slot!vars, Slot!Begin, Slot!Settle

(* A later answer is never the older frame of a session, although the      *)
(* frames of an old session can still be stored after those of a new one.  *)
THEOREM AnswersForward == Spec => [][Older(copied.data, copied'.data)]_vars
<1>1. Init => OrderInv
  BY DEF Init, OrderInv, Older, Empty, NoFrame, Sessions
<1>2. IInv /\ IInv' /\ AnswerInv /\ OrderInv /\ [Next]_vars
        => OrderInv' /\ Older(copied.data, copied'.data)
  BY SlotNext, OrderNext
<1> QED
  BY <1>1, <1>2, Invariant, Answers, PTL DEF Spec
==============================================================================
