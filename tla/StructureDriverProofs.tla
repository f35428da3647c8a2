----------------------- MODULE StructureDriverProofs -----------------------
(***************************************************************************)
(* Proofs about StructureDriver, StructureDriverHistory and                *)
(* StructureDriverClock, for every set of parameter sets, every number of  *)
(* start profiles and all thresholds.                                      *)
(***************************************************************************)
EXTENDS StructureDriverHistory, StructureDriverClock, TLAPS

USE ConfigsAssumption, AutoProfilesAssumption, CapAssumption

(* Validation yields parameters the rest of the node knows.                *)
LEMMA ValidatedParameters ==
  ASSUME NEW p \in Configs
  PROVE  /\ Validated(p) \in Parameters
         /\ Validated(p).io \in {"auto", "hardware", "synthetic"}
         /\ Validated(p).backend \in {"auto", "uvc", "libusb"}
         /\ Validated(p).perCycle > 0
<1>1. p \in Parameters
  OBVIOUS
<1>2. p.io \in {"auto", "hardware", "synthetic", "other"}
      /\ p.backend \in {"auto", "uvc", "libusb", "other"} /\ p.perCycle \in Nat
  BY <1>1 DEF Parameters
<1> DEFINE q == Validated(p)
<1>3. /\ q.io = IF p.io = "other" THEN "auto" ELSE p.io
      /\ q.backend = IF p.backend = "other" THEN "auto" ELSE p.backend
      /\ q.perCycle = IF p.perCycle = 0 THEN 1 ELSE p.perCycle
  BY <1>1 DEF Validated, Parameters
<1>4. q \in Parameters
  <2>1. q = [p EXCEPT !.io = q.io, !.backend = q.backend, !.perCycle = q.perCycle]
    BY <1>1, <1>3 DEF Validated, Parameters
  <2>2. /\ q.io \in {"auto", "hardware", "synthetic", "other"}
        /\ q.backend \in {"auto", "uvc", "libusb", "other"}
        /\ q.perCycle \in Nat
    BY <1>2, <1>3
  <2> HIDE DEF q
  <2> QED
    BY <1>1, <2>1, <2>2 DEF Parameters
<1> QED
  BY <1>2, <1>3, <1>4

(* An age that was just reset is an age.                                   *)
LEMMA ZeroAge == 0 \in 0..Cap
OBVIOUS

(* The inductive invariant but for the ages.  Its steps never look at one: *)
(* what a clock does to the ages cannot break it.                          *)
FlowTypes ==
  /\ cfg \in Parameters
  /\ pc \in {"configure", "configStart", "configUvc", "idle", "reopen", "reconnectStart",
             "poll", "burst", "noDataCheck", "hardware", "synthetic", "halted", "stopped"}
  /\ cont \in ReopenReasons
  /\ proto \in {"closed", "live", "dead"}
  /\ active \in BOOLEAN
  /\ hwMode \in BOOLEAN
  /\ uvc \in {"none", "open", "framed"}
  /\ idx \in 0..(AutoProfiles - 1)
  /\ burstLeft \in Nat
  /\ noDataDue \in BOOLEAN
  /\ output \in {"pending", "silent", "vendor", "uvc", "synthetic"}
  /\ dev \in Devices

FlowInv ==
  /\ FlowTypes
  /\ ConfigValid
  /\ ControlInv
  /\ ModeInv
  /\ OutputInv
  /\ SessionAgreement
  /\ SyntheticOnlyWhenAllowed
  /\ HardwareModeHasSource

Aged == cmdAge \in 0..Cap /\ dataAge \in 0..Cap /\ attemptAge \in 0..Cap

LEMMA InvariantParts == DriverInv <=> FlowInv /\ Aged
BY DEF DriverInv, FlowInv, FlowTypes, Aged, TypeOK

(* The initial states satisfy the inductive invariant.                     *)
LEMMA DriverInit == Init => DriverInv
<1> SUFFICES ASSUME Init PROVE DriverInv
  OBVIOUS
<1> USE DEF Init
<1>1. cfg \in Parameters /\ ConfigValid
  BY ValidatedParameters DEF ConfigValid
<1>2. TypeOK
  <2>1. cmdAge \in 0..Cap /\ dataAge \in 0..Cap /\ attemptAge \in 0..Cap
    OBVIOUS
  <2>2. idx \in 0..(AutoProfiles - 1)
    OBVIOUS
  <2> QED
    BY <1>1, <2>1, <2>2 DEF TypeOK, ReopenReasons
<1> QED
  BY <1>1, <1>2 DEF DriverInv, ControlInv, ModeInv, OutputInv, AfterConstructor,
     SessionAgreement, SyntheticOnlyWhenAllowed, HardwareModeHasSource

(* A profile index stays inside the list of profiles.                      *)
LEMMA AdvancedType ==
  ASSUME idx \in 0..(AutoProfiles - 1)
  PROVE  Advanced \in 0..(AutoProfiles - 1)
<1>1. idx \in Nat /\ idx < AutoProfiles
  OBVIOUS
<1>2. (idx + 1) % AutoProfiles \in 0..(AutoProfiles - 1)
  BY <1>1
<1> QED
  BY <1>1, <1>2 DEF Advanced, NProfiles

(* Every step of the node, the device and time preserves it.               *)
LEMMA FlowNext == FlowInv /\ [Next]_vars => FlowInv'
<1> SUFFICES ASSUME FlowInv, [Next]_vars PROVE FlowInv'
  OBVIOUS
<1> USE DEF FlowInv, ConfigValid, ControlInv, ModeInv, OutputInv, AfterConstructor,
            SessionAgreement, SyntheticOnlyWhenAllowed, HardwareModeHasSource,
            TriesLibusb, FlowTypes, ReopenReasons, Devices, ages, modes, burst
<1>1. CASE ConfigureSynthetic
  BY <1>1 DEF ConfigureSynthetic
<1>2. CASE ConfigureOpens
  BY <1>2 DEF ConfigureOpens, OpenSucceeds
<1>3. CASE ConfigureStart
  BY <1>3 DEF ConfigureStart
<1>4. CASE ConfigureNoLibusb
  BY <1>4 DEF ConfigureNoLibusb, OpenSucceeds
<1>5. CASE ConfigureUvc
  BY <1>5 DEF ConfigureUvc, TriesUvc
<1>6. CASE ConfigureNothing
  BY <1>6 DEF ConfigureNothing
<1>7. CASE TickRecovers
  BY <1>7 DEF TickRecovers, MayRecover, RetryGate
<1>8. CASE Tick
  BY <1>8 DEF Tick, AfterRecover, MayRecover, RetryGate
<1>9. CASE ReopenFails
  <2>1. CASE cont = "recover" /\ ~hwMode
    <3>1. hwMode' = FALSE /\ pc' = "synthetic"
      BY <1>9, <2>1 DEF ReopenFails, ReconnectReturns, AfterRecover
    <3> QED
      BY <1>9, <2>1, <3>1 DEF ReopenFails
  <2>2. CASE hwMode
    <3>1. hwMode' = TRUE /\ pc' = "hardware"
      BY <1>9, <2>2 DEF ReopenFails, ReconnectReturns, AfterRecover
    <3>2. FlowTypes'
      BY <1>9, <2>2, <3>1 DEF ReopenFails
    <3>3. ControlInv' /\ ModeInv' /\ OutputInv'
      BY <1>9, <2>2, <3>1 DEF ReopenFails
    <3> QED
      BY <1>9, <2>2, <3>1, <3>2, <3>3 DEF ReopenFails
  <2> QED
    BY <1>9, <2>1, <2>2 DEF ReopenFails
<1>10. CASE Reopen
  <2>1. CASE cfg.autoStart
    BY <1>10, <2>1 DEF Reopen, OpenSucceeds
  <2>2. CASE ~cfg.autoStart /\ cont = "recover"
    <3>1. hwMode' = TRUE /\ pc' = "poll" /\ dataAge' = 0
      BY <1>10, <2>2 DEF Reopen, ReconnectReturns, AfterRecover
    <3> QED
      BY <1>10, <2>2, <3>1 DEF Reopen
  <2>3. CASE ~cfg.autoStart /\ cont # "recover"
    <3>1. hwMode' = hwMode /\ pc' = "hardware" /\ dataAge' = 0
      BY <1>10, <2>3 DEF Reopen, ReconnectReturns
    <3> QED
      BY <1>10, <2>3, <3>1 DEF Reopen
  <2> QED
    BY <2>1, <2>2, <2>3
<1>11. CASE ReconnectStart
  <2>1. CASE cont = "recover"
    <3>1. hwMode' = TRUE /\ pc' = "poll"
      BY <1>11, <2>1 DEF ReconnectStart, ReconnectReturns, AfterRecover
    <3> QED
      BY <1>11, <2>1, <3>1 DEF ReconnectStart
  <2>2. CASE cont # "recover"
    <3>1. hwMode' = hwMode /\ pc' = "hardware"
      BY <1>11, <2>2 DEF ReconnectStart, ReconnectReturns
    <3> QED
      BY <1>11, <2>2, <3>1 DEF ReconnectStart
  <2> QED
    BY <2>1, <2>2
<1>12. CASE PollFails
  BY <1>12, AdvancedType DEF PollFails, NProfiles
<1>13. CASE PollData
  BY <1>13 DEF PollData
<1>14. CASE PollEmpty
  <2>1. cfg.perCycle \in Nat
    BY DEF Parameters
  <2>2. noDataDue' \in BOOLEAN
    BY <1>14 DEF PollEmpty, NoDataLimitExceeded
  <2> QED
    BY <1>14, <2>1, <2>2 DEF PollEmpty
<1>15. CASE BurstRound
  BY <1>15, AdvancedType DEF BurstRound, NProfiles
<1>16. CASE NoDataReopen
  BY <1>16 DEF NoDataReopen
<1>17. CASE NoDataYet
  BY <1>17 DEF NoDataYet
<1>18. CASE PublishHardware
  BY <1>18 DEF PublishHardware
<1>19. CASE PublishSynthetic
  BY <1>19 DEF PublishSynthetic
<1>20. CASE Shutdown
  BY <1>20 DEF Shutdown
<1>21. CASE DeviceChanges
  BY <1>21 DEF DeviceChanges
<1>22. CASE FrameArrives
  BY <1>22 DEF FrameArrives
<1>23. CASE Elapse
  BY <1>23 DEF Elapse, Older
<1>24. CASE UNCHANGED vars
  BY <1>24 DEF vars
<1> QED
  BY <1>1, <1>2, <1>3, <1>4, <1>5, <1>6, <1>7, <1>8, <1>9, <1>10, <1>11, <1>12, <1>13, <1>14, <1>15, <1>16, <1>17, <1>18, <1>19, <1>20, <1>21, <1>22, <1>23, <1>24
     DEF Next, Configure, Callback, Environment

LEMMA AgesNext == Aged /\ [Next]_vars => Aged'
<1> SUFFICES ASSUME Aged, [Next]_vars PROVE Aged'
  OBVIOUS
<1> USE DEF Aged, ages
<1>1. \A age \in 0..Cap : Older(age) \in 0..Cap
  BY DEF Older
<1>2. /\ cmdAge' \in {cmdAge, 0, Older(cmdAge)}
      /\ dataAge' \in {dataAge, 0, Older(dataAge)}
      /\ attemptAge' \in {attemptAge, 0, Older(attemptAge)}
  <2>1. CASE Configure
    BY <2>1 DEF Configure, ConfigureSynthetic, ConfigureOpens, ConfigureStart,
                ConfigureNoLibusb, ConfigureUvc, ConfigureNothing
  <2>2. CASE TickRecovers \/ Tick \/ ReopenFails \/ Reopen \/ ReconnectStart
    BY <2>2 DEF TickRecovers, Tick, ReopenFails, Reopen, ReconnectStart
  <2>3. CASE PollFails \/ PollData \/ PollEmpty \/ BurstRound \/ NoDataReopen \/ NoDataYet
    BY <2>3 DEF PollFails, PollData, PollEmpty, BurstRound, NoDataReopen, NoDataYet
  <2>4. CASE PublishHardware \/ PublishSynthetic \/ Shutdown
    BY <2>4 DEF PublishHardware, PublishSynthetic, Shutdown
  <2>5. CASE Environment
    BY <2>5 DEF Environment, DeviceChanges, FrameArrives, Elapse
  <2>6. CASE UNCHANGED vars
    BY <2>6 DEF vars
  <2> QED  BY <2>1, <2>2, <2>3, <2>4, <2>5, <2>6 DEF Next, Callback
<1> QED
  BY <1>1, <1>2, ZeroAge

LEMMA DriverNext == DriverInv /\ [Next]_vars => DriverInv'
<1> SUFFICES ASSUME DriverInv, [Next]_vars PROVE DriverInv'
  OBVIOUS
<1>1. FlowInv' /\ Aged'
  BY InvariantParts, FlowNext, AgesNext
<1> QED
  BY <1>1 DEF DriverInv, FlowInv, FlowTypes, Aged, TypeOK

(* The inductive invariant holds in every state of every behaviour.        *)
THEOREM DriverInvariant == Spec => []DriverInv
BY DriverInit, DriverNext, PTL DEF Spec

(* Type correctness.                                                       *)
THEOREM DriverTypeCorrect == Spec => []TypeOK
<1>1. DriverInv => TypeOK
  BY DEF DriverInv
<1> QED
  BY DriverInvariant, <1>1, PTL

(* The node's flag and the protocol object agree on whether there is a     *)
(* session.                                                                *)
THEOREM FlagAgreesWithSession == Spec => []SessionAgreement
<1>1. DriverInv => SessionAgreement
  BY DEF DriverInv
<1> QED
  BY DriverInvariant, <1>1, PTL

(* Without the fallback parameter synthetic frames never stand in for      *)
(* hardware.                                                               *)
THEOREM NoUnwantedSynthetic == Spec => []SyntheticOnlyWhenAllowed
<1>1. DriverInv => SyntheticOnlyWhenAllowed
  BY DEF DriverInv
<1> QED
  BY DriverInvariant, <1>1, PTL

(* The hardware mode is only on while some source can still come back.     *)
THEOREM HardwareModeNotStuck == Spec => []HardwareModeHasSource
<1>1. DriverInv => HardwareModeHasSource
  BY DEF DriverInv
<1> QED
  BY DriverInvariant, <1>1, PTL

------------------------------------------------------------------------------
(* With the record of the past.                                            *)

(* The initial states satisfy the inductive invariant with the record.     *)
LEMMA HistoryInit == HInit => HistoryInv
<1> SUFFICES ASSUME HInit PROVE HistoryInv
  OBVIOUS
<1>1. DriverInv
  BY DriverInit DEF HInit
<1>2. HistoryOK
  <2>1. openAge \in 0..Cap /\ tryAge \in 0..Cap /\ startAge \in 0..Cap
    BY DEF HInit
  <2>2. lastSent \in 0..AutoProfiles
    BY DEF HInit
  <2> QED
    BY <2>1, <2>2 DEF HInit, HistoryOK
<1>3. DataYoungerThanSession
  BY <1>1 DEF HInit, DataYoungerThanSession, DriverInv, TypeOK
<1>4. DueInSession /\ StartedInSession
  BY DEF HInit, Init, DueInSession, StartedInSession
<1>5. CommandAfterStart
  BY <1>1 DEF HInit, CommandAfterStart, DriverInv, TypeOK
<1> QED
  BY <1>1, <1>2, <1>3, <1>4, <1>5 DEF HistoryInv

(* Recording the past does not change what the node does.                  *)
LEMMA HistoryStep == [HNext]_hvars => [Next]_vars
BY DEF HNext, hvars, HStep, HElapse, Next, Environment

(* Every step preserves the inductive invariant with the record.           *)
LEMMA HistoryNext == HistoryInv /\ [HNext]_hvars => HistoryInv'
<1> SUFFICES ASSUME HistoryInv, [HNext]_hvars PROVE HistoryInv'
  OBVIOUS
<1> DEFINE Past == /\ HistoryOK /\ DataYoungerThanSession /\ DueInSession
                   /\ StartedInSession /\ CommandAfterStart
<1>a. DriverInv /\ DriverInv' /\ Past
  BY DriverNext, HistoryStep DEF HistoryInv
<1> SUFFICES Past'
  BY <1>a DEF HistoryInv
<1>b. /\ cmdAge \in 0..Cap /\ dataAge \in 0..Cap /\ idx \in 0..(AutoProfiles - 1)
      /\ dataAge' \in 0..Cap /\ cmdAge' \in 0..Cap
      /\ openAge \in 0..Cap /\ tryAge \in 0..Cap /\ startAge \in 0..Cap /\ started \in BOOLEAN
      /\ lastSent \in 0..AutoProfiles /\ cfg.noData \in Nat
  BY <1>a DEF DriverInv, TypeOK, HistoryOK, Parameters
<1> USE <1>a, <1>b, ZeroAge
    DEF HistoryOK, DataYoungerThanSession, DueInSession, StartedInSession, CommandAfterStart, ControlInv,
        SessionAgreement, DriverInv, Record, Opens, TriesReopen, BeginsStart, Sends, ages, modes, burst, history
<1>1. CASE ConfigureSynthetic /\ Record
  BY <1>1 DEF ConfigureSynthetic
<1>2. CASE ConfigureOpens /\ Record
  <2>1. /\ openAge' = 0 /\ started' = FALSE /\ lastSent' = lastSent /\ tryAge' = tryAge
        /\ startAge' \in {0, startAge} /\ (pc' # "configStart" => startAge' = startAge)
    BY <1>2 DEF ConfigureOpens
  <2>2. HistoryOK'
    BY <2>1
  <2>3. dataAge' = 0 /\ pc' \in {"configStart", "idle"}
    BY <1>2 DEF ConfigureOpens
  <2>4. StartedInSession'
    BY <1>2 DEF ConfigureOpens
  <2>5. CommandAfterStart'
    BY <1>2, <2>1 DEF ConfigureOpens
  <2> QED
    BY <2>1, <2>2, <2>3, <2>4, <2>5
<1>3. CASE ConfigureStart /\ Record
  BY <1>3 DEF ConfigureStart
<1>4. CASE ConfigureNoLibusb /\ Record
  BY <1>4 DEF ConfigureNoLibusb
<1>5. CASE ConfigureUvc /\ Record
  BY <1>5 DEF ConfigureUvc
<1>6. CASE ConfigureNothing /\ Record
  BY <1>6 DEF ConfigureNothing
<1>7. CASE TickRecovers /\ Record
  BY <1>7 DEF TickRecovers
<1>8. CASE Tick /\ Record
  BY <1>8 DEF Tick, AfterRecover
<1>9. CASE ReopenFails /\ Record
  BY <1>9 DEF ReopenFails, ReconnectReturns, AfterRecover
<1>10. CASE Reopen /\ Record
  <2>1. /\ openAge' = 0 /\ started' = FALSE /\ lastSent' = lastSent /\ tryAge' = tryAge
        /\ startAge' \in {0, startAge} /\ (pc' # "reconnectStart" => startAge' = startAge)
        /\ pc' # "reopen"
    BY <1>10 DEF Reopen, ReconnectReturns, AfterRecover
  <2>2. HistoryOK'
    BY <2>1
  <2>3. DataYoungerThanSession'
    <3>1. pc' = "reconnectStart" \/ dataAge' = 0
      BY <1>10 DEF Reopen
    <3> QED
      BY <2>1, <3>1
  <2>4. pc' \notin {"burst", "noDataCheck"}
    BY <1>10 DEF Reopen, ReconnectReturns, AfterRecover
  <2>5. StartedInSession'
    BY <1>10 DEF Reopen
  <2>6. CommandAfterStart'
    BY <1>10, <2>1 DEF Reopen
  <2> QED
    BY <2>1, <2>2, <2>3, <2>4, <2>5, <2>6
<1>11. CASE ReconnectStart /\ Record
  BY <1>11 DEF ReconnectStart, ReconnectReturns, AfterRecover
<1>12. CASE PollFails /\ Record
  BY <1>12 DEF PollFails
<1>13. CASE PollData /\ Record
  BY <1>13 DEF PollData
<1>14. CASE PollEmpty /\ Record
  <2>1. openAge' = openAge /\ tryAge' = tryAge /\ started' = started /\ lastSent' = lastSent
    BY <1>14 DEF PollEmpty
  <2>2. noDataDue' => dataAge > cfg.noData
    BY <1>14 DEF PollEmpty, NoDataLimitExceeded
  <2>3. pc = "poll" /\ pc' \in {"burst", "noDataCheck"} /\ active /\ UNCHANGED <<cfg, active, dataAge>>
    BY <1>14 DEF PollEmpty
  <2>4. startAge' \in 0..Cap /\ CommandAfterStart'
    <3>1. CASE pc' = "burst"
      BY <1>14, <3>1 DEF PollEmpty
    <3>2. CASE pc' = "noDataCheck"
      BY <1>14, <3>2 DEF PollEmpty
    <3> QED
      BY <2>3, <3>1, <3>2
  <2> QED
    BY <2>1, <2>2, <2>3, <2>4
<1>15. CASE BurstRound /\ Record
  <2>1. ~Opens /\ pc' # "reopen" /\ startAge' = startAge /\ cmdAge' = cmdAge
    BY <1>15 DEF BurstRound
  <2>2. lastSent' \in 0..AutoProfiles
    BY <1>15
  <2>3. HistoryOK'
    BY <1>15, <2>1, <2>2 DEF BurstRound
  <2>4. started' \in {started, TRUE}
    BY <1>15, <2>1
  <2>5. DataYoungerThanSession' /\ DueInSession'
    BY <1>15, <2>1 DEF BurstRound
  <2>6. StartedInSession'
    BY <1>15, <2>4 DEF BurstRound
  <2>7. CommandAfterStart'
    BY <1>15, <2>1 DEF BurstRound
  <2> QED
    BY <2>3, <2>5, <2>6, <2>7
<1>16. CASE NoDataReopen /\ Record
  BY <1>16 DEF NoDataReopen
<1>17. CASE NoDataYet /\ Record
  BY <1>17 DEF NoDataYet
<1>18. CASE PublishHardware /\ Record
  BY <1>18 DEF PublishHardware
<1>19. CASE PublishSynthetic /\ Record
  BY <1>19 DEF PublishSynthetic
<1>20. CASE Shutdown /\ Record
  BY <1>20 DEF Shutdown
<1>21. CASE DeviceChanges /\ Record
  BY <1>21 DEF DeviceChanges
<1>22. CASE FrameArrives /\ Record
  BY <1>22 DEF FrameArrives
<1>23. CASE HElapse
  BY <1>23 DEF HElapse, Elapse, Older
<1>24. CASE UNCHANGED hvars
  BY <1>24 DEF hvars, vars
<1> QED
  BY <1>1, <1>2, <1>3, <1>4, <1>5, <1>6, <1>7, <1>8, <1>9, <1>10, <1>11, <1>12, <1>13, <1>14, <1>15, <1>16, <1>17, <1>18, <1>19, <1>20, <1>21, <1>22, <1>23, <1>24
     DEF HNext, HStep, Configure, Callback

(* The inductive invariant holds in every state of every behaviour.        *)
THEOREM HistoryInvariant == HSpec => []HistoryInv
BY HistoryInit, HistoryNext, PTL DEF HSpec

(* A session is reopened for want of data only after the whole period of   *)
(* vendor_no_data_reconnect_sec in that session.                           *)
THEOREM NoEarlyReopen == HSpec => []FullNoDataWindow
<1>1. HistoryInv => FullNoDataWindow
  BY DEF HistoryInv, DueInSession, FullNoDataWindow
<1> QED
  BY HistoryInvariant, <1>1, PTL

(* With vendor_auto_start_command no session is polled unstarted.          *)
THEOREM StartPrecedesPoll == HSpec => []StartedBeforePolled
<1>1. HistoryInv => StartedBeforePolled
  BY DEF HistoryInv, DriverInv, ControlInv, StartedInSession, StartedBeforePolled
<1> QED
  BY HistoryInvariant, <1>1, PTL

(* A burst of start commands keeps the whole vendor_start_retry_sec to the *)
(* begin of the start command before it, whichever path sent that one.     *)
THEOREM ResendsSpaced == HSpec => ResendSpacing
<1>1. ASSUME HistoryInv, [HNext]_hvars
      PROVE  [pc = "poll" /\ pc' = "burst" => startAge > cfg.startRetry]_hvars
  <2> SUFFICES ASSUME pc = "poll", pc' = "burst"
               PROVE  startAge > cfg.startRetry
    OBVIOUS
  <2>1. cmdAge > cfg.startRetry
    <3>1. [Next]_vars
      BY <1>1, HistoryStep
    <3> QED
      BY <3>1 DEF Next, vars, Configure, ConfigureSynthetic, ConfigureOpens, ConfigureStart,
         ConfigureNoLibusb, ConfigureUvc, ConfigureNothing, Callback, TickRecovers, Tick,
         ReopenFails, Reopen, ReconnectStart, PollFails, PollData, PollEmpty, ResendDue,
         BurstRound, NoDataReopen, NoDataYet, PublishHardware, PublishSynthetic, Shutdown,
         Environment, DeviceChanges, FrameArrives, Elapse
  <2>2. /\ cmdAge \in 0..Cap /\ startAge \in 0..Cap /\ cfg.startRetry \in Nat
        /\ cmdAge <= startAge
    BY <1>1 DEF HistoryInv, HistoryOK, CommandAfterStart, DriverInv, TypeOK, Parameters
  <2> QED
    BY <2>1, <2>2
<1> QED
  BY <1>1, HistoryInvariant, PTL DEF HSpec, ResendSpacing

------------------------------------------------------------------------------
(* Under a clock that is set back, any number of times and any distance.   *)

LEMMA ClockNext == FlowInv /\ [CNext]_cvars => FlowInv'
<1> SUFFICES ASSUME FlowInv, [CNext]_cvars PROVE FlowInv'
  OBVIOUS
<1>1. CASE [Next]_vars
  BY <1>1, FlowNext
<1>2. CASE ClockSetBack
  <2>1. UNCHANGED <<cfg, pc, cont, proto, active, hwMode, uvc, idx, burstLeft, noDataDue, output, dev>>
    BY <1>2 DEF ClockSetBack, modes, burst
  <2> QED
    BY <2>1 DEF FlowInv, FlowTypes, ConfigValid, ControlInv, ModeInv, OutputInv, AfterConstructor,
       SessionAgreement, SyntheticOnlyWhenAllowed, HardwareModeHasSource, TriesLibusb
<1> QED
  BY <1>1, <1>2 DEF CNext, cvars

(* The clock has no part in the safety of the node: whenever and however   *)
(* far it is set back, the flag agrees with the session, synthetic frames  *)
(* come only where they are allowed, and the hardware mode is only on      *)
(* while a source can come back.                                           *)
THEOREM SafeUnderAnyClock ==
  CSpec => [](SessionAgreement /\ SyntheticOnlyWhenAllowed /\ HardwareModeHasSource)
<1>1. CInit => FlowInv
  BY DriverInit, InvariantParts DEF CInit
<1>2. FlowInv => SessionAgreement /\ SyntheticOnlyWhenAllowed /\ HardwareModeHasSource
  BY DEF FlowInv
<1> QED
  BY <1>1, <1>2, ClockNext, PTL DEF CSpec
==============================================================================
