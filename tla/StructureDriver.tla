---------------------------- MODULE StructureDriver ----------------------------
(***************************************************************************)
(* The controller of StructureDriverNode (structure_driver.cpp): which     *)
(* source the node publishes from on every timer callback, and how it      *)
(* opens, starts, resends to, reopens and gives up the libusb session.     *)
(*                                                                         *)
(* The node is single-threaded, so its steps interleave only with the      *)
(* device and with time, which passes between any two of them (a poll, a   *)
(* start sequence and a reopen each take from milliseconds to seconds).    *)
(* A call of VendorProtocol is one step here: VendorProtocol.tla shows     *)
(* that open() acquires all or nothing.  Every timestamp of the code is    *)
(* represented by its age, which stops growing at Cap: the code only       *)
(* compares ages with thresholds below Cap.                                *)
(***************************************************************************)
EXTENDS Naturals

CONSTANTS
  Configs,       \* parameter sets the node may be launched with
  AutoProfiles,  \* start profiles in the list when auto-cycle is on
  Cap            \* the age at which ages stop growing

(* Threshold parameters count time units; 0 stands for every value <= 0.   *)
Parameters ==
  [io             : {"auto", "hardware", "synthetic", "other"},
   backend        : {"auto", "uvc", "libusb", "other"},
   fallback       : BOOLEAN,   \* hardware_fallback_to_synthetic
   uvcIndex       : BOOLEAN,   \* visible_device_index or ir_device_index >= 0
   autoStart      : BOOLEAN,   \* vendor_auto_start_command
   autoCycle      : BOOLEAN,   \* vendor_start_auto_cycle
   perCycle       : Nat,       \* vendor_start_retry_profiles_per_cycle
   noData         : Nat,       \* vendor_no_data_reconnect_sec
   reconnectRetry : Nat,       \* vendor_reconnect_retry_sec
   startRetry     : Nat]       \* vendor_start_retry_sec

ASSUME ConfigsAssumption == Configs \subseteq Parameters
ASSUME AutoProfilesAssumption == AutoProfiles \in Nat \ {0}
ASSUME CapAssumption ==
  /\ Cap \in Nat
  /\ \A c \in Configs : c.noData < Cap /\ c.reconnectRetry < Cap /\ c.startRetry < Cap

VARIABLES
  cfg,         \* the validated parameters
  pc,          \* where the running constructor or callback is
  cont,        \* what called reconnectVendorProtocol
  proto,       \* the VendorProtocol object: closed, live, or open on a device that left
  active,      \* vendor_protocol_active_
  hwMode,      \* hardware_mode_active_
  uvc,         \* the UVC captures: none open, open, or open with a latest frame
  idx,         \* vendor_start_profile_index_
  burstLeft,   \* profiles that the running resend burst may still send
  noDataDue,   \* the running callback has seen the no-data limit exceeded
  cmdAge,      \* now - last_vendor_start_command_ns_
  dataAge,     \* now - last_vendor_data_ns_
  attemptAge,  \* now - last_vendor_reconnect_attempt_ns_
  output,      \* what the last callback published
  dev          \* the device on the bus

ages    == <<cmdAge, dataAge, attemptAge>>
modes   == <<hwMode, uvc>>
burst   == <<burstLeft, noDataDue>>
vars    == <<cfg, pc, cont, proto, active, modes, idx, burst, ages, output, dev>>

(* refusing: it is there but cannot be opened or polled (LIBUSB_ERROR_     *)
(* ACCESS, BUSY).  status: only endpoints 0x81 and 0x82 deliver bytes.     *)
Devices == {"absent", "refusing", "quiet", "status", "stream"}
Answering == {"quiet", "status", "stream"}

ReopenReasons == {"recover", "pollFailure", "noData"}

TypeOK ==
  /\ cfg \in Parameters
  /\ pc \in {"configure", "configStart", "configUvc", "idle", "reopen", "reconnectStart",
             "poll", "burst", "noDataCheck", "hardware", "synthetic", "halted", "stopped"}
  /\ cont \in ReopenReasons
  /\ proto \in {"closed", "live", "dead"}
  /\ active \in BOOLEAN
  /\ hwMode \in BOOLEAN
  /\ uvc \in {"none", "open", "framed"}
  /\ idx \in 0..(AutoProfiles - 1)
  /\ burstLeft \in Nat
  /\ noDataDue \in BOOLEAN
  /\ cmdAge \in 0..Cap /\ dataAge \in 0..Cap /\ attemptAge \in 0..Cap
  /\ output \in {"pending", "silent", "vendor", "uvc", "synthetic"}
  /\ dev \in Devices

(* The constructor replaces parameter values it does not know.             *)
Validated(p) ==
  [p EXCEPT !.io       = IF @ = "other" THEN "auto" ELSE @,
            !.backend  = IF @ = "other" THEN "auto" ELSE @,
            !.perCycle = IF @ = 0 THEN 1 ELSE @]

(* All timestamps start at 0, so they are equally old; a clock that starts *)
(* with the node (simulated time) makes them young.                        *)
Init ==
  /\ \E p \in Configs : cfg = Validated(p)
  /\ pc = "configure"
  /\ cont = "recover"
  /\ proto = "closed"
  /\ active = FALSE
  /\ hwMode = FALSE
  /\ uvc = "none"
  /\ idx = 0
  /\ burstLeft = 0
  /\ noDataDue = FALSE
  /\ \E age \in {0, Cap} : cmdAge = age /\ dataAge = age /\ attemptAge = age
  /\ output = "pending"
  /\ dev \in Devices

------------------------------------------------------------------------------
TriesLibusb == cfg.io # "synthetic" /\ cfg.backend \in {"auto", "libusb"}
TriesUvc    == cfg.io # "synthetic" /\ cfg.backend \in {"auto", "uvc"}

(* More than one start profile is in the list only under auto-cycle.       *)
NProfiles == IF cfg.autoCycle THEN AutoProfiles ELSE 1

\* Mutant: the index is not wrapped.
AdvancedPastEnd == IF cfg.autoCycle /\ NProfiles > 1 THEN idx + 1 ELSE idx

Advanced == IF cfg.autoCycle /\ NProfiles > 1 THEN (idx + 1) % NProfiles ELSE idx

(* VendorProtocol::open().  It also fails when the device leaves in the    *)
(* middle of it: that is a DeviceChanges just before the step.             *)
OpenSucceeds == dev \in Answering

------------------------------------------------------------------------------
(* The constructor: configureIoMode().                                     *)

ConfigureSynthetic ==
  /\ pc = "configure"
  /\ cfg.io = "synthetic"
  /\ hwMode' = FALSE
  /\ pc' = "idle"
  /\ UNCHANGED <<cfg, cont, proto, active, uvc, idx, burst, ages, output, dev>>

ConfigureOpens ==
  /\ pc = "configure"
  /\ TriesLibusb
  /\ OpenSucceeds
  /\ proto' = "live"
  /\ active' = TRUE
  /\ dataAge' = 0
  /\ IF cfg.autoStart THEN pc' = "configStart" /\ UNCHANGED hwMode
                      ELSE pc' = "idle" /\ hwMode' = TRUE
  /\ UNCHANGED <<cfg, cont, uvc, idx, burst, cmdAge, attemptAge, output, dev>>

ConfigureStart ==
  /\ pc = "configStart"
  /\ cmdAge' = 0
  /\ hwMode' = TRUE
  /\ pc' = "idle"
  /\ UNCHANGED <<cfg, cont, proto, active, uvc, idx, burst, dataAge, attemptAge, output, dev>>

ConfigureNoLibusb ==
  /\ pc = "configure"
  /\ cfg.io # "synthetic"
  /\ TriesLibusb => ~OpenSucceeds
  /\ active' = FALSE
  /\ pc' = "configUvc"
  /\ UNCHANGED <<cfg, cont, proto, modes, idx, burst, ages, output, dev>>

ConfigureUvc ==
  /\ pc = "configUvc"
  /\ TriesUvc /\ cfg.uvcIndex
  /\ uvc' = "open"
  /\ hwMode' = TRUE
  /\ pc' = "idle"
  /\ UNCHANGED <<cfg, cont, proto, active, idx, burst, ages, output, dev>>

(* No stream could be opened: the node goes on with synthetic frames, or   *)
(* the constructor throws.                                                 *)
ConfigureNothing ==
  /\ pc = "configUvc"
  /\ hwMode' = FALSE
  /\ pc' = IF cfg.io = "hardware" /\ ~cfg.fallback THEN "halted" ELSE "idle"
  /\ UNCHANGED <<cfg, cont, proto, active, uvc, idx, burst, ages, output, dev>>

Configure ==
  \/ ConfigureSynthetic \/ ConfigureOpens \/ ConfigureStart
  \/ ConfigureNoLibusb \/ ConfigureUvc \/ ConfigureNothing

------------------------------------------------------------------------------
(* onTimer(), first part: tryRecoverVendorProtocol().                      *)

(* Where onTimer() goes on when the recovery attempt is over.              *)
AfterRecover(isActive, isHardware) ==
  IF ~isHardware THEN "synthetic" ELSE IF isActive THEN "poll" ELSE "hardware"

\* Mutant: the configured backend is not looked at.
MayRecoverAnyBackend == ~active /\ cfg.io # "synthetic"

MayRecover == ~active /\ TriesLibusb

RetryGate == cfg.reconnectRetry > 0 /\ attemptAge < cfg.reconnectRetry

TickRecovers ==
  /\ pc = "idle"
  /\ MayRecover
  /\ ~RetryGate
  /\ attemptAge' = 0
  /\ cont' = "recover"
  /\ pc' = "reopen"
  /\ output' = "pending"
  /\ UNCHANGED <<cfg, proto, active, modes, idx, burst, cmdAge, dataAge, dev>>

Tick ==
  /\ pc = "idle"
  /\ MayRecover => RetryGate
  /\ pc' = AfterRecover(active, hwMode)
  /\ output' = "pending"
  /\ UNCHANGED <<cfg, cont, proto, active, modes, idx, burst, ages, dev>>

------------------------------------------------------------------------------
(* reconnectVendorProtocol(): close, open, send the current start profile. *)

\* Mutant: a successful recovery does not turn the hardware mode on.
ReconnectReturnsOnly(ok) ==
  /\ hwMode' = hwMode
  /\ pc' = IF cont = "recover" THEN AfterRecover(ok, hwMode') ELSE "hardware"

(* Its caller is tryRecoverVendorProtocol(), which turns the hardware mode *)
(* on, or publishVendorProtocol(), which returns false in any case.        *)
ReconnectReturns(ok) ==
  /\ hwMode' = IF ok /\ cont = "recover" THEN TRUE ELSE hwMode
  /\ pc' = IF cont = "recover" THEN AfterRecover(ok, hwMode') ELSE "hardware"

\* Mutant: a failed reopen leaves vendor_protocol_active_ on.
ReopenFailsUnnoticed ==
  /\ pc = "reopen"
  /\ ~OpenSucceeds
  /\ proto' = "closed"
  /\ ReconnectReturns(FALSE)
  /\ UNCHANGED <<cfg, cont, active, uvc, idx, burst, ages, output, dev>>

ReopenFails ==
  /\ pc = "reopen"
  /\ ~OpenSucceeds
  /\ proto' = "closed"
  /\ active' = FALSE
  /\ ReconnectReturns(FALSE)
  /\ UNCHANGED <<cfg, cont, uvc, idx, burst, ages, output, dev>>

\* Mutant: the start command is only sent again after a loss, not when
\* the session is reopened for want of data.
ReopenStartsAfterLoss ==
  /\ pc = "reopen"
  /\ OpenSucceeds
  /\ proto' = "live"
  /\ active' = TRUE
  /\ IF cfg.autoStart /\ cont # "noData"
       THEN pc' = "reconnectStart" /\ UNCHANGED <<hwMode, dataAge>>
       ELSE ReconnectReturns(TRUE) /\ dataAge' = 0
  /\ UNCHANGED <<cfg, cont, uvc, idx, burst, cmdAge, attemptAge, output, dev>>

Reopen ==
  /\ pc = "reopen"
  /\ OpenSucceeds
  /\ proto' = "live"
  /\ active' = TRUE
  /\ IF cfg.autoStart
       THEN pc' = "reconnectStart" /\ UNCHANGED <<hwMode, dataAge>>
       ELSE ReconnectReturns(TRUE) /\ dataAge' = 0
  /\ UNCHANGED <<cfg, cont, uvc, idx, burst, cmdAge, attemptAge, output, dev>>

\* Mutant: a reopened session inherits the silence of the old one.
ReconnectStartKeepsDataTime ==
  /\ pc = "reconnectStart"
  /\ cmdAge' = 0
  /\ ReconnectReturns(TRUE)
  /\ UNCHANGED <<cfg, cont, proto, active, uvc, idx, burst, dataAge, attemptAge, output, dev>>

\* Mutant: a reopened session begins with the first profile again.
ReconnectStartRewinds ==
  /\ pc = "reconnectStart"
  /\ cmdAge' = 0
  /\ dataAge' = 0
  /\ idx' = 0
  /\ ReconnectReturns(TRUE)
  /\ UNCHANGED <<cfg, cont, proto, active, uvc, burst, attemptAge, output, dev>>

ReconnectStart ==
  /\ pc = "reconnectStart"
  /\ cmdAge' = 0
  /\ dataAge' = 0
  /\ ReconnectReturns(TRUE)
  /\ UNCHANGED <<cfg, cont, proto, active, uvc, idx, burst, attemptAge, output, dev>>

------------------------------------------------------------------------------
(* publishVendorProtocol().                                                *)

PollFails ==
  /\ pc = "poll"
  /\ proto # "live" \/ dev = "refusing"
  /\ idx' = Advanced
  /\ cont' = "pollFailure"
  /\ pc' = "reopen"
  /\ UNCHANGED <<cfg, proto, active, modes, burst, ages, output, dev>>

(* Any bytes count as data, also those of the status endpoints.            *)
PollData ==
  /\ pc = "poll"
  /\ proto = "live"
  /\ dev \in {"status", "stream"}
  /\ dataAge' = 0
  /\ output' = "vendor"
  /\ pc' = "idle"
  /\ UNCHANGED <<cfg, cont, proto, active, modes, idx, burst, cmdAge, attemptAge, dev>>

ResendDue == cfg.autoStart /\ cmdAge > cfg.startRetry

\* Mutant: the silence is counted from the last start command.
NoDataLimitSinceCommand == cfg.noData > 0 /\ cmdAge > cfg.noData

NoDataLimitExceeded == cfg.noData > 0 /\ dataAge > cfg.noData

\* Mutant: a burst does not count as a start command.
PollEmptyUntimed ==
  /\ pc = "poll"
  /\ proto = "dead" \/ (proto = "live" /\ dev \in {"refusing", "quiet"})
  /\ noDataDue' = NoDataLimitExceeded
  /\ IF ResendDue
       THEN pc' = "burst" /\ burstLeft' = cfg.perCycle
       ELSE pc' = "noDataCheck" /\ UNCHANGED burstLeft
  /\ UNCHANGED <<cfg, cont, proto, active, modes, idx, cmdAge, dataAge, attemptAge, output, dev>>

(* The clock is read once: last_vendor_start_command_ns_ becomes this time *)
(* however long the burst takes, and the no-data limit is compared with    *)
(* this time although the comparison comes after the burst.  (Nobody reads *)
(* or writes the two timestamps in between.)                               *)
PollEmpty ==
  /\ pc = "poll"
  /\ proto = "dead" \/ (proto = "live" /\ dev \in {"refusing", "quiet"})
  /\ noDataDue' = NoDataLimitExceeded
  /\ IF ResendDue
       THEN pc' = "burst" /\ burstLeft' = cfg.perCycle /\ cmdAge' = 0
       ELSE pc' = "noDataCheck" /\ UNCHANGED <<burstLeft, cmdAge>>
  /\ UNCHANGED <<cfg, cont, proto, active, modes, idx, dataAge, attemptAge, output, dev>>

(* One round of sendVendorStartRetryBurst: the current profile is sent,    *)
(* whether or not its transfers succeed; with a list of one profile the    *)
(* burst ends here.                                                        *)
BurstRound ==
  /\ pc = "burst"
  /\ idx' = Advanced
  /\ IF NProfiles = 1 \/ burstLeft = 1
       THEN burstLeft' = 0 /\ pc' = "noDataCheck"
       ELSE burstLeft' = burstLeft - 1 /\ UNCHANGED pc
  /\ UNCHANGED <<cfg, cont, proto, active, modes, noDataDue, ages, output, dev>>

NoDataReopen ==
  /\ pc = "noDataCheck"
  /\ noDataDue
  /\ cont' = "noData"
  /\ pc' = "reopen"
  /\ UNCHANGED <<cfg, proto, active, modes, idx, burst, ages, output, dev>>

NoDataYet ==
  /\ pc = "noDataCheck"
  /\ ~noDataDue
  /\ pc' = "hardware"
  /\ UNCHANGED <<cfg, cont, proto, active, modes, idx, burst, ages, output, dev>>

------------------------------------------------------------------------------
(* onTimer(), last part: UVC frames, then synthetic ones.                  *)

\* Mutant: hardware_fallback_to_synthetic is not looked at.
PublishHardwareOrSynthetic ==
  /\ pc = "hardware"
  /\ IF uvc = "framed" THEN output' = "uvc" /\ pc' = "idle"
     ELSE pc' = "synthetic" /\ UNCHANGED output
  /\ UNCHANGED <<cfg, cont, proto, active, modes, idx, burst, ages, dev>>

PublishHardware ==
  /\ pc = "hardware"
  /\ IF uvc = "framed" THEN output' = "uvc" /\ pc' = "idle"
     ELSE IF ~cfg.fallback THEN output' = "silent" /\ pc' = "idle"
     ELSE pc' = "synthetic" /\ UNCHANGED output
  /\ UNCHANGED <<cfg, cont, proto, active, modes, idx, burst, ages, dev>>

PublishSynthetic ==
  /\ pc = "synthetic"
  /\ output' = "synthetic"
  /\ pc' = "idle"
  /\ UNCHANGED <<cfg, cont, proto, active, modes, idx, burst, ages, dev>>

------------------------------------------------------------------------------
(* The end of the process: between callbacks, members are destroyed.       *)
Shutdown ==
  /\ pc = "idle"
  /\ pc' = "stopped"
  /\ proto' = "closed"
  /\ uvc' = "none"
  /\ UNCHANGED <<cfg, cont, active, hwMode, idx, burst, ages, output, dev>>

------------------------------------------------------------------------------
(* The environment.                                                        *)

(* The device appears, leaves, or changes what it answers.  A session on a *)
(* device that leaves is dead, and stays dead when the device comes back.  *)
DeviceChanges ==
  /\ dev' \in Devices \ {dev}
  /\ proto' = IF dev' = "absent" /\ proto = "live" THEN "dead" ELSE proto
  /\ UNCHANGED <<cfg, pc, cont, active, modes, idx, burst, ages, output>>

(* The capture thread stores a first frame; there is always one from then. *)
FrameArrives ==
  /\ uvc = "open"
  /\ uvc' = "framed"
  /\ UNCHANGED <<cfg, pc, cont, proto, active, hwMode, idx, burst, ages, output, dev>>

Older(age) == IF age < Cap THEN age + 1 ELSE age

Elapse ==
  /\ cmdAge' = Older(cmdAge)
  /\ dataAge' = Older(dataAge)
  /\ attemptAge' = Older(attemptAge)
  /\ UNCHANGED <<cfg, pc, cont, proto, active, modes, idx, burst, output, dev>>

------------------------------------------------------------------------------
Callback ==
  \/ TickRecovers \/ Tick
  \/ ReopenFails \/ Reopen \/ ReconnectStart
  \/ PollFails \/ PollData \/ PollEmpty \/ BurstRound \/ NoDataReopen \/ NoDataYet
  \/ PublishHardware \/ PublishSynthetic

Environment == DeviceChanges \/ FrameArrives \/ Elapse

Next == Configure \/ Callback \/ Shutdown \/ Environment

Spec == Init /\ [][Next]_vars

(* Every call of a callback returns (the transfers and the sleeps between  *)
(* them are bounded), the timer fires again, and time passes.  Nothing     *)
(* obliges the device, a camera or the user to do anything.                *)
Fairness == WF_vars(Configure \/ Callback) /\ WF_vars(Elapse)

FairSpec == Spec /\ Fairness

------------------------------------------------------------------------------
(* Properties.                                                             *)

Ended == pc \in {"halted", "stopped"}

(* The node's own flag vendor_protocol_active_ never disagrees with the    *)
(* protocol object, whichever of the five places that open or close it ran *)
(* last: it never polls a closed session and never reopens over one that   *)
(* it believes lost.                                                       *)
SessionAgreement == pc # "stopped" => (active <=> proto # "closed")

(* Without hardware_fallback_to_synthetic no synthetic frame is published  *)
(* once hardware was in use or where hardware was demanded.                *)
SyntheticOnlyWhenAllowed ==
  output = "synthetic" /\ ~cfg.fallback => ~hwMode /\ cfg.io # "hardware"

(* hardware_mode_active_ is never taken back, and with the fallback        *)
(* disabled it silences the node while no frame comes.  So it may only be  *)
(* on while some source can still come back: an open camera, or a libusb   *)
(* session that the parameters let the node reopen.                        *)
HardwareModeHasSource ==
  hwMode /\ pc # "stopped" => cfg.io # "synthetic" /\ (uvc # "none" \/ cfg.backend # "uvc")

(* With a no-data limit the node does not stay on a lost session: once a   *)
(* device answers for good, it ends up in a session with that device for   *)
(* good, also when polls of a dead handle return nothing instead of a      *)
(* fatal error and however often the device left before.                   *)
Recovery ==
  TriesLibusb /\ cfg.noData > 0 /\ <>[](dev \in Answering)
    => <>[](proto = "live" \/ Ended)

(* A Structure Core that streams for good wins over UVC and synthetic      *)
(* frames, also when the constructor had found no hardware at all.         *)
StreamPriority ==
  TriesLibusb /\ cfg.noData > 0 /\ <>[](dev = "stream")
    => <>[](output \in {"pending", "vendor"} \/ Ended)

------------------------------------------------------------------------------
(* The inductive invariant behind the safety properties.                   *)

AfterConstructor == pc \notin {"configure", "configStart", "configUvc", "halted", "stopped"}

(* The constructor has replaced the values it does not know.               *)
ConfigValid ==
  /\ cfg.io \in {"auto", "hardware", "synthetic"}
  /\ cfg.backend \in {"auto", "uvc", "libusb"}
  /\ cfg.perCycle > 0

(* Which sessions and modes are possible where the node is.                *)
ControlInv ==
  /\ pc \in {"configure", "configUvc"} => ~active /\ ~hwMode /\ uvc = "none"
  /\ pc \in {"configStart", "reconnectStart", "poll", "burst", "noDataCheck"} => active
  /\ pc \in {"poll", "burst", "noDataCheck", "hardware"} => hwMode
  /\ pc \in {"reopen", "reconnectStart"} => TriesLibusb /\ (cont = "recover" \/ hwMode)
  /\ pc = "synthetic" /\ hwMode => cfg.fallback
  /\ pc = "burst" => burstLeft > 0

(* A libusb session is only opened where the parameters allow it, and      *)
(* where hardware is demanded without a fallback the node only runs with   *)
(* the hardware mode on.                                                   *)
ModeInv ==
  /\ active => TriesLibusb
  /\ AfterConstructor /\ cfg.io = "hardware" /\ ~cfg.fallback => hwMode

(* Nothing has been published yet in a callback that is still running.     *)
OutputInv == pc \notin {"idle", "stopped"} => output = "pending"

DriverInv ==
  /\ TypeOK
  /\ ConfigValid
  /\ ControlInv
  /\ ModeInv
  /\ OutputInv
  /\ SessionAgreement
  /\ SyntheticOnlyWhenAllowed
  /\ HardwareModeHasSource
==============================================================================
