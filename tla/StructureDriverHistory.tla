------------------------- MODULE StructureDriverHistory -------------------------
(***************************************************************************)
(* StructureDriver with a record of its past: when the session was opened, *)
(* when a reopen and when a start command was last begun, and which start  *)
(* profiles were sent.  The code keeps none of this; the record only       *)
(* observes (history variables) and lets properties speak of what          *)
(* happened, not of what the code's own timestamps claim.                  *)
(***************************************************************************)
EXTENDS StructureDriver

VARIABLES
  openAge,    \* time since the session was opened
  tryAge,     \* time since a reopen was begun
  startAge,   \* time since a start command, or a burst of them, was begun
  started,    \* a start sequence was sent in the current session
  lastSent    \* the profile sent last; AutoProfiles before the first one

history == <<openAge, tryAge, startAge, started, lastSent>>
hvars   == <<vars, history>>

HistoryOK ==
  /\ openAge \in 0..Cap
  /\ tryAge \in 0..Cap
  /\ startAge \in 0..Cap
  /\ started \in BOOLEAN
  /\ lastSent \in 0..AutoProfiles

HInit ==
  /\ Init
  /\ openAge = Cap
  /\ tryAge = Cap
  /\ startAge = Cap
  /\ started = FALSE
  /\ lastSent = AutoProfiles

(* What a step of the node did.                                            *)
Opens       == pc \in {"configure", "reopen"} /\ pc' # pc /\ proto' = "live"
TriesReopen == pc # "reopen" /\ pc' = "reopen"
BeginsStart == pc' # pc /\ pc' \in {"configStart", "reconnectStart", "burst"}
Sends       == \/ pc \in {"configStart", "reconnectStart"} /\ pc' # pc
               \/ pc = "burst" /\ burstLeft' # burstLeft

Record ==
  /\ openAge' = IF Opens THEN 0 ELSE openAge
  /\ tryAge' = IF TriesReopen THEN 0 ELSE tryAge
  /\ startAge' = IF BeginsStart THEN 0 ELSE startAge
  /\ started' = (IF Opens THEN FALSE ELSE IF Sends THEN TRUE ELSE started)
  /\ lastSent' = IF Sends THEN idx ELSE lastSent

HStep == (Configure \/ Callback \/ Shutdown \/ DeviceChanges \/ FrameArrives) /\ Record

HElapse ==
  /\ Elapse
  /\ openAge' = Older(openAge)
  /\ tryAge' = Older(tryAge)
  /\ startAge' = Older(startAge)
  /\ UNCHANGED <<started, lastSent>>

HNext == HStep \/ HElapse

HSpec == HInit /\ [][HNext]_hvars

HFairSpec ==
  /\ HSpec
  /\ WF_hvars((Configure \/ Callback) /\ Record)
  /\ WF_hvars(HElapse)

------------------------------------------------------------------------------
(* Properties.                                                             *)

(* A session is closed for want of data only when it had the whole         *)
(* vendor_no_data_reconnect_sec to itself: the silence of an earlier       *)
(* session, or of the time without one, never counts against a new one.    *)
FullNoDataWindow == pc = "reopen" /\ cont = "noData" => openAge > cfg.noData

(* With vendor_auto_start_command every session, however it came to be     *)
(* opened, gets its start sequence before it is polled: a device that was  *)
(* just opened sends nothing unless it is told to.                         *)
StartedBeforePolled == pc = "poll" /\ cfg.autoStart => started

(* README.md:56, vendor_start_retry_sec: the "resend interval for start    *)
(* sequence while no-data".  A device is left alone for more than this     *)
(* time after any start command was begun, by the constructor, a reopen or *)
(* an earlier burst, before a burst is sent, however long those took and   *)
(* although the time of a burst is the time of the poll before it.         *)
ResendSpacing ==
  [][pc = "poll" /\ pc' = "burst" => startAge > cfg.startRetry]_hvars

SilentForGood == TriesLibusb /\ cfg.autoStart /\ cfg.autoCycle /\ <>[](dev = "quiet")

EveryProfileRecurs == \A p \in 0..(AutoProfiles - 1) : []<>(lastSent = p \/ Ended)

(* Auto-cycle on a silent device tries every profile of the list, again    *)
(* and again, also when the session is reopened for want of data before    *)
(* one round of the list is complete.  That takes a resend interval no     *)
(* longer than the no-data limit: a reopened session sends the same        *)
(* profile again and starts both times anew, so only a burst that comes    *)
(* before the next reopen moves the rotation on.                           *)
CycleCoverage ==
  (cfg.noData = 0 \/ cfg.startRetry <= cfg.noData) /\ SilentForGood => EveryProfileRecurs

(* README.md:54, vendor_start_auto_cycle: it "rotates through known start  *)
(* profiles on no-data".  So a silent device gets every profile, whatever  *)
(* vendor_start_retry_sec and vendor_no_data_reconnect_sec are.            *)
RotationReachesAll == SilentForGood => EveryProfileRecurs

(* README.md:49, vendor_reconnect_retry_sec: the "retry period after       *)
(* backend reopen failure".  A callback that finds no session and reopens  *)
(* is such a retry; it keeps the period to the reopen that failed before   *)
(* it, wherever in the code that one was made.                             *)
RetryPeriodAfterFailure ==
  [][pc = "idle" /\ TriesReopen => tryAge >= cfg.reconnectRetry]_hvars

(* README.md:54, vendor_start_auto_cycle: it "rotates through known start  *)
(* profiles on no-data".  So each sequence sent is that of the profile     *)
(* sent last or of the next one in the list: none is passed over.          *)
RotatesThroughProfiles ==
  [][Sends /\ lastSent # AutoProfiles
       => idx \in {lastSent, (lastSent + 1) % NProfiles}]_hvars

------------------------------------------------------------------------------
(* The inductive invariant behind the safety properties.                   *)

(* The time of the last data is never older than the session, except while *)
(* a reopened session is being started.                                    *)
DataYoungerThanSession == pc # "reconnectStart" => dataAge <= openAge

(* A decision to reopen for want of data was taken in the open session.    *)
DueInSession ==
  (pc \in {"burst", "noDataCheck"} /\ noDataDue) \/ (pc = "reopen" /\ cont = "noData")
    => openAge > cfg.noData

StartedInSession ==
  active /\ cfg.autoStart /\ pc \notin {"configStart", "reconnectStart"} => started

(* The code's time of the last start command is never before its begin.    *)
CommandAfterStart ==
  pc \notin {"configStart", "reconnectStart"} => cmdAge <= startAge

HistoryInv ==
  /\ DriverInv
  /\ HistoryOK
  /\ DataYoungerThanSession
  /\ DueInSession
  /\ StartedInSession
  /\ CommandAfterStart
==============================================================================
