------------------------------ MODULE UvcCapture ------------------------------
(***************************************************************************)
(* The class UvcCapture of uvc_capture_apple.mm: the node's thread opens,  *)
(* reads, closes and destroys a capture while AVFoundation delivers frames on a      *)
(* dispatch queue.  Both sides write the latest frame, field by field,     *)
(* under the mutex impl_->lock.                                            *)
(*                                                                         *)
(* AVFoundation is outside the repository.  It calls the delegate one      *)
(* sample at a time per queue, and only while a delegate is set on the     *)
(* output of a running session; setting the delegate to nil and stopping   *)
(* the session end further calls, but nothing in the code waits for a call *)
(* that is already running, so here it runs on.  When it does so after the *)
(* implementation is freed, what it does is undefined; no one can read the *)
(* fields any more then.                                                   *)
(***************************************************************************)
EXTENDS Naturals

CONSTANTS
  MaxOpens,   \* sessions the node starts on one object, at most
  MaxFrames   \* frames a session delivers, at most

ASSUME MaxOpensAssumption == MaxOpens \in Nat \ {0}
ASSUME MaxFramesAssumption == MaxFrames \in Nat \ {0}

Sessions == 1..MaxOpens

(* A frame is known by the session that captured it and its number there.  *)
Frames == [session : Sessions, number : 1..MaxFrames]

VARIABLES
  pc,         \* the node thread: between calls, or in one of the methods
  caller,     \* who goes on when close() returns
  opens,      \* sessions started so far; the last one is the current one
  session,    \* impl_->session is not nil
  delegate,   \* a delegate is set on the output of the current session
  running,    \* the current session is running
  isOpen,     \* impl_->is_open
  hasFrame,   \* impl_->has_frame
  latest,     \* impl_->latest_frame: its geometry and its data
  lock,       \* who holds impl_->lock
  copied,     \* out_frame of the running or last getLatestFrame()
  got,        \* whether the last getLatestFrame() returned a frame
  callback,   \* per session, the delegate call that is running
  delivered,  \* per session, the number of the last frame it captured
  raced       \* history: sessions with a delegate call running in a close()

control == <<pc, caller, opens>>
device  == <<session, delegate, running>>
shared  == <<hasFrame, latest>>
answer  == <<copied, got>>
queues  == <<callback, delivered, raced>>
vars    == <<control, device, isOpen, shared, lock, answer, queues>>

NoFrame == [session |-> 0, number |-> 0]
Empty   == [geometry |-> NoFrame, data |-> NoFrame]
Images  == [geometry : Frames \cup {NoFrame}, data : Frames \cup {NoFrame}]

CallbackSteps == {"none", "convert", "store", "storeData", "unlock"}

TypeOK ==
  /\ pc \in {"idle", "stop", "clear", "clearData", "cleared", "addInput", "addOutput", "start",
             "check", "copy", "gone"}
  /\ caller \in {"open", "failed", "close", "destroy"}
  /\ opens \in 0..MaxOpens
  /\ session \in BOOLEAN /\ delegate \in BOOLEAN /\ running \in BOOLEAN
  /\ isOpen \in BOOLEAN /\ hasFrame \in BOOLEAN
  /\ latest \in Images /\ copied \in Images /\ got \in BOOLEAN
  /\ lock \in {"free", "node", "delegate"}
  /\ callback \in [Sessions -> CallbackSteps]
  /\ delivered \in [Sessions -> 0..MaxFrames]
  /\ raced \in SUBSET Sessions

Init ==
  /\ pc = "idle"
  /\ caller = "close"
  /\ opens = 0
  /\ session = FALSE /\ delegate = FALSE /\ running = FALSE
  /\ isOpen = FALSE
  /\ hasFrame = FALSE
  /\ latest = Empty
  /\ lock = "free"
  /\ copied = Empty
  /\ got = FALSE
  /\ callback = [s \in Sessions |-> "none"]
  /\ delivered = [s \in Sessions |-> 0]
  /\ raced = {}

------------------------------------------------------------------------------
(* close(), which open() and a failing open() run as well.                 *)

(* The delegate is taken off the output, if open() got as far.             *)
Detach(c) ==
  /\ caller' = c
  /\ delegate' = FALSE
  /\ pc' = "stop"

CallClose ==
  /\ pc = "idle"
  /\ Detach("close")
  /\ UNCHANGED <<opens, session, running, isOpen, shared, lock, answer, queues>>

CallOpen ==
  /\ pc = "idle"
  /\ opens < MaxOpens
  /\ Detach("open")
  /\ UNCHANGED <<opens, session, running, isOpen, shared, lock, answer, queues>>

\* Mutant: the destructor is the default one, which only frees impl_.
CallDestroyUnclosed ==
  /\ pc = "idle"
  /\ caller' = "destroy"
  /\ pc' = "gone"
  /\ UNCHANGED <<opens, device, isOpen, shared, lock, answer, queues>>

(* The destructor.                                                         *)
CallDestroy ==
  /\ pc = "idle"
  /\ Detach("destroy")
  /\ UNCHANGED <<opens, session, running, isOpen, shared, lock, answer, queues>>

StopRunning ==
  /\ pc = "stop"
  /\ running' = FALSE
  /\ session' = FALSE
  /\ pc' = "clear"
  /\ UNCHANGED <<caller, opens, delegate, isOpen, shared, lock, answer, queues>>

ClearFrame ==
  /\ pc = "clear"
  /\ lock = "free"
  /\ lock' = "node"
  /\ latest' = [latest EXCEPT !.geometry = NoFrame]
  /\ pc' = "clearData"
  /\ UNCHANGED <<caller, opens, device, isOpen, hasFrame, answer, queues>>

\* Mutant: has_frame is not taken back.
ClearDataKeepsFlag ==
  /\ pc = "clearData"
  /\ latest' = [latest EXCEPT !.data = NoFrame]
  /\ lock' = "free"
  /\ pc' = "cleared"
  /\ raced' = raced \cup {s \in Sessions : callback[s] # "none"}
  /\ UNCHANGED <<caller, opens, device, isOpen, hasFrame, answer, callback, delivered>>

ClearData ==
  /\ pc = "clearData"
  /\ latest' = [latest EXCEPT !.data = NoFrame]
  /\ hasFrame' = FALSE
  /\ lock' = "free"
  /\ pc' = "cleared"
  /\ raced' = raced \cup {s \in Sessions : callback[s] # "none"}
  /\ UNCHANGED <<caller, opens, device, isOpen, answer, callback, delivered>>

(* open() goes on and may find no camera; the destructor frees impl_.      *)
AfterClose ==
  CASE caller = "open"                -> {"idle", "addInput"}
    [] caller = "destroy"             -> {"gone"}
    [] caller \in {"failed", "close"} -> {"idle"}

Closed ==
  /\ pc = "cleared"
  /\ isOpen' = FALSE
  /\ pc' \in AfterClose
  /\ UNCHANGED <<caller, opens, device, shared, lock, answer, queues>>

------------------------------------------------------------------------------
(* The rest of open().                                                     *)

AddInputFails ==
  /\ pc = "addInput"
  /\ Detach("failed")
  /\ session' = TRUE
  /\ UNCHANGED <<opens, running, isOpen, shared, lock, answer, queues>>

AddInput ==
  /\ pc = "addInput"
  /\ session' = TRUE
  /\ delegate' = TRUE
  /\ pc' = "addOutput"
  /\ UNCHANGED <<caller, opens, running, isOpen, shared, lock, answer, queues>>

AddOutputFails ==
  /\ pc = "addOutput"
  /\ Detach("failed")
  /\ UNCHANGED <<opens, session, running, isOpen, shared, lock, answer, queues>>

(* startRunning gives the session a queue of its own to deliver on.        *)
AddOutput ==
  /\ pc = "addOutput"
  /\ opens' = opens + 1
  /\ running' \in BOOLEAN
  /\ pc' = "start"
  /\ UNCHANGED <<caller, session, delegate, isOpen, shared, lock, answer, queues>>

Started ==
  /\ pc = "start"
  /\ isOpen' = running
  /\ pc' = "idle"
  /\ UNCHANGED <<caller, opens, device, shared, lock, answer, queues>>

(* A session stops by itself when its camera leaves, and a session that    *)
(* could not start or was interrupted may start later.  Nothing in the     *)
(* class looks at it: is_open stays what it was.                           *)
SessionToggles ==
  /\ session /\ pc \notin {"addInput", "addOutput"}
  /\ running' = ~running
  /\ UNCHANGED <<control, session, delegate, isOpen, shared, lock, answer, queues>>

------------------------------------------------------------------------------
(* getLatestFrame().                                                       *)

CallGetLatestFrame ==
  /\ pc = "idle"
  /\ lock = "free"
  /\ lock' = "node"
  /\ pc' = "check"
  /\ UNCHANGED <<caller, opens, device, isOpen, shared, answer, queues>>

\* Mutant: the early return leaves the mutex locked.
NoFrameYetKeepsLock ==
  /\ pc = "check"
  /\ ~isOpen \/ ~hasFrame
  /\ got' = FALSE
  /\ pc' = "idle"
  /\ UNCHANGED <<caller, opens, device, isOpen, shared, lock, copied, queues>>

NoFrameYet ==
  /\ pc = "check"
  /\ ~isOpen \/ ~hasFrame
  /\ got' = FALSE
  /\ lock' = "free"
  /\ pc' = "idle"
  /\ UNCHANGED <<caller, opens, device, isOpen, shared, copied, queues>>

CopyGeometry ==
  /\ pc = "check"
  /\ isOpen /\ hasFrame
  /\ copied' = [copied EXCEPT !.geometry = latest.geometry]
  /\ pc' = "copy"
  /\ UNCHANGED <<caller, opens, device, isOpen, shared, lock, got, queues>>

(* valid() needs a geometry and data.                                      *)
CopyData ==
  /\ pc = "copy"
  /\ copied' = [copied EXCEPT !.data = latest.data]
  /\ got' = (copied.geometry # NoFrame /\ latest.data # NoFrame)
  /\ lock' = "free"
  /\ pc' = "idle"
  /\ UNCHANGED <<caller, opens, device, isOpen, shared, queues>>

------------------------------------------------------------------------------
(* captureOutput:didOutputSampleBuffer: on the queue of session s.         *)

CallbackStarts(s) ==
  /\ s = opens /\ running /\ delegate
  /\ callback[s] = "none"
  /\ delivered[s] < MaxFrames
  /\ callback' = [callback EXCEPT ![s] = "convert"]
  /\ delivered' = [delivered EXCEPT ![s] = @ + 1]
  /\ UNCHANGED <<control, device, isOpen, shared, lock, answer, raced>>

(* Samples without an image or in another format than BGRA are dropped.    *)
DropSample(s) ==
  /\ callback[s] = "convert"
  /\ callback' = [callback EXCEPT ![s] = "none"]
  /\ UNCHANGED <<control, device, isOpen, shared, lock, answer, delivered, raced>>

\* Mutant: the delegate stores without the mutex.
StoreUnlocked(s) ==
  /\ callback[s] = "convert"
  /\ callback' = [callback EXCEPT ![s] = "store"]
  /\ UNCHANGED <<control, device, isOpen, shared, lock, answer, delivered, raced>>

LockForStore(s) ==
  /\ callback[s] = "convert"
  /\ lock = "free"
  /\ lock' = "delegate"
  /\ callback' = [callback EXCEPT ![s] = "store"]
  /\ UNCHANGED <<control, device, isOpen, shared, answer, delivered, raced>>

Frame(s) == [session |-> s, number |-> delivered[s]]

StoreGeometry(s) ==
  /\ callback[s] = "store"
  /\ latest' = [latest EXCEPT !.geometry = Frame(s)]
  /\ callback' = [callback EXCEPT ![s] = "storeData"]
  /\ UNCHANGED <<control, device, isOpen, hasFrame, lock, answer, delivered, raced>>

StoreData(s) ==
  /\ callback[s] = "storeData"
  /\ latest' = [latest EXCEPT !.data = Frame(s)]
  /\ hasFrame' = TRUE
  /\ callback' = [callback EXCEPT ![s] = "unlock"]
  /\ UNCHANGED <<control, device, isOpen, lock, answer, delivered, raced>>

CallbackReturns(s) ==
  /\ callback[s] = "unlock"
  /\ lock' = "free"
  /\ callback' = [callback EXCEPT ![s] = "none"]
  /\ UNCHANGED <<control, device, isOpen, shared, answer, delivered, raced>>

------------------------------------------------------------------------------
NodeCall == CallClose \/ CallOpen \/ CallDestroy \/ CallGetLatestFrame

NodeStep ==
  \/ StopRunning \/ ClearFrame \/ ClearData \/ Closed
  \/ AddInputFails \/ AddInput \/ AddOutputFails \/ AddOutput \/ Started
  \/ NoFrameYet \/ CopyGeometry \/ CopyData

CallbackStep(s) ==
  \/ DropSample(s) \/ LockForStore(s) \/ StoreGeometry(s) \/ StoreData(s) \/ CallbackReturns(s)

Next ==
  \/ NodeCall \/ NodeStep \/ SessionToggles
  \/ \E s \in Sessions : CallbackStarts(s) \/ CallbackStep(s)

Spec == Init /\ [][Next]_vars

(* A thread that has entered a method or the delegate runs on.             *)
FairSpec ==
  /\ Spec
  /\ WF_vars(NodeStep)
  /\ \A s \in Sessions : WF_vars(CallbackStep(s))

------------------------------------------------------------------------------
(* Properties.                                                             *)

(* getLatestFrame() never hands out the geometry of one frame with the     *)
(* data of another, whatever the queues of an old and a new session store  *)
(* while it copies.                                                        *)
NoTornFrame == pc = "idle" /\ got => copied.geometry = copied.data

(* A capture that reports to be open is wired to deliver frames, whichever *)
(* step of open() failed before and however often it was closed.           *)
OpenCanDeliver == pc = "idle" /\ isOpen => session /\ delegate

(* A frame of an earlier session shows up in a newer one only when its     *)
(* delegate call was running across a close(): what close() itself clears  *)
(* never comes back.                                                       *)
StaleFrameOnlyByRace ==
  isOpen /\ hasFrame /\ latest.data.session # opens => latest.data.session \in raced

(* The delegate holds a raw pointer to the implementation.  Once that is   *)
(* freed, only a call that was running across the close() in the           *)
(* destructor can still use it: no call begins after it, whether the       *)
(* capture was open, had failed to open or was closed before.              *)
FreedOnlyByRace ==
  pc = "gone" => \A s \in Sessions : callback[s] # "none" => s \in raced

(* Every call of the node returns: no one waits for the mutex of someone   *)
(* who waits, and no one leaves it locked.                                 *)
CallsReturn == pc \notin {"idle", "gone"} ~> pc \in {"idle", "gone"}

------------------------------------------------------------------------------
(* The class implements a slot for one frame (FrameSlot).                  *)

settlingBar == pc \in {"cleared", "addInput", "addOutput", "start"}

(* A delegate call has dealt with its frame when it drops it or has stored *)
(* the last part of it.                                                    *)
capturedBar ==
  [s \in Sessions |->
    IF callback[s] \in {"convert", "store", "storeData"} THEN delivered[s] - 1 ELSE delivered[s]]

(* The answer is given when the last part of a frame is copied.            *)
answerBar == IF pc = "copy" THEN [geometry |-> copied.data, data |-> copied.data] ELSE copied

Slot == INSTANCE FrameSlot WITH
          open <- isOpen, settling <- settlingBar, begun <- opens, slot <- latest.data,
          captured <- capturedBar, answer <- answerBar

(* However the steps of the node and of the delegates interleave, and      *)
(* although both write and copy a frame in parts, it is as if frames were  *)
(* stored, cleared and handed out at one moment each: none is handed out   *)
(* that was not the latest, and none is withheld.                          *)
SlotSpec == Slot!Spec
==============================================================================
