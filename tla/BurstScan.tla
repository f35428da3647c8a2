------------------------------- MODULE BurstScan -------------------------------
(***************************************************************************)
(* The scan tool vendor_burst_scan.cpp: main's loop over the candidates,   *)
(* runCandidate and the class DeviceSession, one action per libusb call.   *)
(* The device may leave and come back between any two of them.             *)
(*                                                                         *)
(* libusb is modelled as in VendorProtocol.  A result is its score, what   *)
(* arrived on the status and on the stream endpoints, the number of failed *)
(* sends and whether a fatal error ended it.                               *)
(***************************************************************************)
EXTENDS StartSequences, Integers

CONSTANTS
  LastIf,        \* interfaces 0..LastIf are claimed, 1..LastIf have settings
  InEndpoints,   \* kInEndpoints: "status" or "stream", in the order of reading
  Tests,         \* number of candidates: --max-tests, at most all of them
  OpenRetries,   \* --open-retries
  MaxOpenFails,  \* --max-open-fails
  TopN,          \* the results that are kept, 20 in main
  Got,           \* bytes a read can bring
  MaxPasses      \* bound: rounds of reads that fit into the time window

ASSUME ScanAssumption ==
  /\ LastIf \in Nat \ {0}
  /\ InEndpoints \in Seq({"status", "stream"}) /\ InEndpoints # <<>>
  /\ Tests \in 1..NumScanCandidates
  /\ OpenRetries \in Nat \ {0}
  /\ MaxOpenFails \in Nat \ {0}
  /\ TopN \in Nat \ {0}
  /\ Got \subseteq Nat \ {0}
  /\ MaxPasses \in Nat

Interfaces    == 0..LastIf
AltInterfaces == 1..LastIf

VARIABLES
  pc,           \* the next libusb call, or the next step of main
  cont,         \* what called close(): who goes on when close() returns
  i,            \* loop index: interface, step of the template, or endpoint
  tries,        \* attempts of the running open() to get the device
  ctx,          \* ctx_ is not null
  handle,       \* handle_: null, a live device, or a device that left
  claimed,      \* the interfaces with claimed_ set
  current,      \* number of the candidate, 0 before the loop
  rerun,        \* the candidate that streamed runs a second time
  passes,       \* rounds of reads in the window so far
  res,          \* the Result that runCandidate is filling in
  kept,         \* main's r
  top,          \* the best results, best first
  tested, disconnected, hits, openFailures, consecutive,   \* main's counters
  exitCode,     \* what main returns, -1 while it runs
  attached,     \* the device is on the bus
  ctxCount,     \* library contexts that exist
  handleCount,  \* device handles that exist
  osClaims,     \* interfaces the operating system holds for this process
  alt,          \* interfaces of the device whose setting is 1
  (* History, read by the properties only.                                 *)
  outcomes,     \* what became of each candidate: "tested" or "skipped"
  results,      \* every result of a test, with the number of its candidate
  opens,        \* sessions opened so far
  lost,         \* a test met a fatal error on the handle in use
  refused       \* interfaces left at 1 because their reset to 0 was refused

session  == <<ctx, handle, claimed>>
counters == <<tested, disconnected, hits, openFailures, consecutive>>
scan     == <<current, rerun, passes, res, kept, top, counters, exitCode>>
settings == <<alt, refused>>
usb      == <<attached, ctxCount, handleCount, osClaims, settings>>
history  == <<outcomes, results, opens, lost>>
vars     == <<pc, cont, i, tries, session, scan, usb, history>>

CloseSteps == {"alt0", "release", "closeHandle", "exit"}
OpenSteps  == {"init", "openDevice", "claim", "setAlt"}
MainSteps  == {"start", "opened", "openFailed", "loop", "run", "judge", "after"}
RunSteps   == {"send", "window", "read"}

Clean == [status |-> 0, stream |-> 0, failures |-> 0, fatal |-> FALSE]

IsResult(r) ==
  /\ DOMAIN r = DOMAIN Clean
  /\ {r.status, r.stream, r.failures} \subseteq Nat
  /\ r.fatal \in BOOLEAN

TypeOK ==
  /\ pc \in CloseSteps \cup OpenSteps \cup MainSteps \cup RunSteps \cup {"gone"}
  /\ cont \in {"open", "failed", "drop", "destroy"}
  /\ i \in Nat
  /\ tries \in 0..OpenRetries
  /\ ctx \in BOOLEAN
  /\ handle \in {"null", "live", "stale"}
  /\ claimed \subseteq Interfaces
  /\ current \in 0..(Tests + 1)
  /\ rerun \in BOOLEAN
  /\ passes \in 0..MaxPasses
  /\ IsResult(res) /\ IsResult(kept)
  /\ \A k \in 1..Len(top) : top[k].candidate \in 1..Tests /\ top[k].score \in Int
  /\ {tested, disconnected, hits, openFailures, consecutive} \subseteq 0..Tests
  /\ exitCode \in {-1, 0, 3}
  /\ attached \in BOOLEAN
  /\ ctxCount \in Nat
  /\ handleCount \in Nat
  /\ osClaims \subseteq Interfaces
  /\ alt \subseteq AltInterfaces
  /\ opens \in 0..(Tests + 1)
  /\ lost \in BOOLEAN
  /\ refused \subseteq AltInterfaces

Init ==
  /\ pc = "start"
  /\ cont = "open"
  /\ i = 0
  /\ tries = 0
  /\ ctx = FALSE
  /\ handle = "null"
  /\ claimed = {}
  /\ current = 0
  /\ rerun = FALSE
  /\ passes = 0
  /\ res = Clean
  /\ kept = Clean
  /\ top = <<>>
  /\ tested = 0 /\ disconnected = 0 /\ hits = 0
  /\ openFailures = 0 /\ consecutive = 0
  /\ exitCode = -1
  /\ attached \in BOOLEAN
  /\ ctxCount = 0
  /\ handleCount = 0
  /\ osClaims = {}
  /\ alt = {}
  /\ outcomes = <<>>
  /\ results = <<>>
  /\ opens = 0
  /\ lost = FALSE
  /\ refused = {}

IsOpen == handle # "null"

------------------------------------------------------------------------------
(* DeviceSession::close(), which open() and the destructor run as well.    *)

\* Mutant: the settings are not taken back.
EnterCloseKeepsSettings(caller) ==
  /\ cont' = caller
  /\ i' = 0
  /\ pc' = IF handle # "null" THEN "release" ELSE "exit"

EnterClose(caller) ==
  /\ cont' = caller
  /\ i' = 1
  /\ pc' = IF handle # "null" THEN "alt0" ELSE "exit"

(* The result is ignored: the device can refuse, and a device that left or *)
(* an interface that is not claimed is not reset either.                   *)
ResetAlt ==
  /\ pc = "alt0"
  /\ \/ /\ handle = "live" /\ i \in osClaims
        /\ alt' = alt \ {i}
        /\ refused' = refused \ {i}
     \/ /\ handle = "live" /\ i \in osClaims \cap alt
        /\ refused' = refused \cup {i}
        /\ UNCHANGED alt
     \/ /\ ~(handle = "live" /\ i \in osClaims)
        /\ UNCHANGED settings
  /\ IF i < LastIf THEN i' = i + 1 /\ pc' = "alt0"
                   ELSE i' = 0     /\ pc' = "release"
  /\ UNCHANGED <<cont, tries, session, scan, attached, ctxCount, handleCount, osClaims, history>>

Release ==
  /\ pc = "release"
  /\ claimed' = claimed \ {i}
  /\ osClaims' = IF i \in claimed THEN osClaims \ {i} ELSE osClaims
  /\ IF i < LastIf THEN i' = i + 1 /\ pc' = "release"
                   ELSE i' = 0     /\ pc' = "closeHandle"
  /\ UNCHANGED <<cont, tries, ctx, handle, scan, attached, ctxCount, handleCount,
                 settings, history>>

CloseHandle ==
  /\ pc = "closeHandle"
  /\ handle' = "null"
  /\ handleCount' = handleCount - 1
  /\ pc' = "exit"
  /\ UNCHANGED <<cont, i, tries, ctx, claimed, scan, attached, ctxCount, osClaims,
                 settings, history>>

(* libusb_exit, then back to the caller of close().  After a session that  *)
(* was dropped, main goes on with the next candidate.                      *)
Exit ==
  /\ pc = "exit"
  /\ ctx' = FALSE
  /\ ctxCount' = IF ctx THEN ctxCount - 1 ELSE ctxCount
  /\ \/ cont = "open"    /\ pc' = "init"       /\ UNCHANGED current
     \/ cont = "failed"  /\ pc' = "openFailed" /\ UNCHANGED current
     \/ cont = "drop"    /\ pc' = "loop"       /\ current' = current + 1
     \/ cont = "destroy" /\ pc' = "gone"       /\ UNCHANGED current
  /\ UNCHANGED <<cont, i, tries, handle, claimed, rerun, passes, res, kept, top, counters,
                 exitCode, attached, handleCount, osClaims, settings, history>>

------------------------------------------------------------------------------
(* The rest of DeviceSession::open(), after its initial close().           *)

\* Mutant: a failing open() returns without close().
AbortOpenLeaks ==
  /\ pc' = "openFailed"
  /\ UNCHANGED <<cont, i, tries, session, scan, usb, history>>

AbortOpen ==
  /\ EnterClose("failed")
  /\ UNCHANGED <<tries, session, scan, usb, history>>

InitFails ==
  /\ pc = "init"
  /\ pc' = "openFailed"
  /\ UNCHANGED <<cont, i, tries, session, scan, usb, history>>

LibInit ==
  /\ pc = "init"
  /\ ctx' = TRUE
  /\ ctxCount' = ctxCount + 1
  /\ tries' = 0
  /\ pc' = "openDevice"
  /\ UNCHANGED <<cont, i, handle, claimed, scan, attached, handleCount, osClaims,
                 settings, history>>

OpenDevice ==
  /\ pc = "openDevice"
  /\ tries < OpenRetries
  /\ attached
  /\ handle' = "live"
  /\ handleCount' = handleCount + 1
  /\ lost' = FALSE
  /\ i' = 0
  /\ pc' = "claim"
  /\ UNCHANGED <<cont, tries, ctx, claimed, scan, attached, ctxCount, osClaims, settings,
                 outcomes, results, opens>>

\* Mutant: the device is waited for.
OpenDeviceFailsUncounted ==
  /\ pc = "openDevice"
  /\ tries < OpenRetries
  /\ UNCHANGED vars

(* Not there, or no access to it: wait and try again.                      *)
OpenDeviceFails ==
  /\ pc = "openDevice"
  /\ tries < OpenRetries
  /\ tries' = tries + 1
  /\ UNCHANGED <<pc, cont, i, session, scan, usb, history>>

GiveUpDevice ==
  /\ pc = "openDevice"
  /\ tries = OpenRetries
  /\ AbortOpen

Claim ==
  /\ pc = "claim"
  /\ handle = "live"
  /\ claimed' = claimed \cup {i}
  /\ osClaims' = osClaims \cup {i}
  /\ IF i < LastIf THEN i' = i + 1 /\ pc' = "claim"
                   ELSE i' = 1     /\ pc' = "setAlt"
  /\ UNCHANGED <<cont, tries, ctx, handle, scan, attached, ctxCount, handleCount,
                 settings, history>>

ClaimFails ==
  /\ pc = "claim"
  /\ AbortOpen

SetAlt ==
  /\ pc = "setAlt"
  /\ handle = "live"
  /\ alt' = alt \cup {i}
  /\ refused' = refused \ {i}
  /\ IF i < LastIf THEN i' = i + 1 /\ pc' = "setAlt" /\ UNCHANGED opens
                   ELSE i' = 0     /\ pc' = "opened" /\ opens' = opens + 1
  /\ UNCHANGED <<cont, tries, session, scan, attached, ctxCount, handleCount, osClaims,
                 outcomes, results, lost>>

SetAltFails ==
  /\ pc = "setAlt"
  /\ AbortOpen

------------------------------------------------------------------------------
(* runCandidate.                                                           *)

BeginRun ==
  /\ pc = "run"
  /\ res' = Clean
  /\ passes' = 0
  /\ i' = 1
  /\ pc' = "send"
  /\ UNCHANGED <<cont, tries, session, current, rerun, kept, top, counters, exitCode,
                 usb, history>>

(* How a transfer can fail: a device that has left answers with NO_DEVICE, *)
(* or with the I/O error of the transfer that was cut short; one that is   *)
(* there can refuse access.  Only the former and the latter are fatal.     *)
Errors == {"transient", "fatal"}

\* Mutant: a fatal error of a send ends the sending only.
SendFailsNotFatal(error) == [res EXCEPT !.failures = @ + 1]

SendFails(error) == [res EXCEPT !.failures = @ + 1, !.fatal = (error = "fatal")]

Send ==
  /\ pc = "send"
  /\ \/ handle = "live" /\ UNCHANGED <<res, lost>>
        /\ IF i < Len(TemplateSteps(ScanCandidate(current)))
             THEN i' = i + 1 /\ UNCHANGED pc
             ELSE pc' = "window" /\ UNCHANGED i
     \/ \E error \in Errors :
          /\ res' = SendFails(error)
          /\ lost' = (lost \/ (error = "fatal" /\ ~rerun))
          /\ IF error = "fatal" THEN pc' = "judge" /\ UNCHANGED i
             ELSE IF i < Len(TemplateSteps(ScanCandidate(current)))
             THEN i' = i + 1 /\ UNCHANGED pc
             ELSE pc' = "window" /\ UNCHANGED i
  /\ UNCHANGED <<cont, tries, session, current, rerun, passes, kept, top, counters, exitCode,
                 usb, outcomes, results, opens>>

(* The time window is looked at before each round of reads only.           *)
NextRound ==
  /\ pc = "window"
  /\ passes < MaxPasses
  /\ passes' = passes + 1
  /\ i' = 1
  /\ pc' = "read"
  /\ UNCHANGED <<cont, tries, session, current, rerun, res, kept, top, counters, exitCode,
                 usb, history>>

WindowOver ==
  /\ pc = "window"
  /\ pc' = "judge"
  /\ UNCHANGED <<cont, i, tries, session, scan, usb, history>>

NextRead ==
  IF i < Len(InEndpoints) THEN i' = i + 1 /\ UNCHANGED pc
                          ELSE pc' = "window" /\ UNCHANGED i

(* Data counts for its endpoint; no data, a timeout and every error that   *)
(* is not fatal are passed over.                                           *)
Read ==
  /\ pc = "read"
  /\ \/ handle = "live" /\ NextRead /\ UNCHANGED lost
        /\ \E got \in Got :
             res' = IF InEndpoints[i] = "status" THEN [res EXCEPT !.status = @ + got]
                                                 ELSE [res EXCEPT !.stream = @ + got]
     \/ NextRead /\ UNCHANGED <<res, lost>>
     \/ /\ res' = [res EXCEPT !.fatal = TRUE]
        /\ lost' = (lost \/ ~rerun)
        /\ pc' = "judge"
        /\ UNCHANGED i
  /\ UNCHANGED <<cont, tries, session, current, rerun, passes, kept, top, counters, exitCode,
                 usb, outcomes, results, opens>>

Score(r) ==
  r.stream * 100 + r.status - r.failures * 2000 - IF r.fatal THEN 10000 ELSE 0

------------------------------------------------------------------------------
(* main.                                                                   *)

FirstOpen ==
  /\ pc = "start"
  /\ EnterClose("open")
  /\ UNCHANGED <<tries, session, scan, usb, history>>

\* Mutant: the failures in a row are not reset.
OpenedKeepsCount ==
  /\ pc = "opened"
  /\ IF current = 0 THEN current' = 1 /\ pc' = "loop" ELSE pc' = "run" /\ UNCHANGED current
  /\ UNCHANGED <<cont, i, tries, session, rerun, passes, res, kept, top, counters, exitCode,
                 usb, history>>

(* open() returned true, before the loop or in it.                         *)
Opened ==
  /\ pc = "opened"
  /\ IF current = 0 THEN current' = 1 /\ pc' = "loop" /\ UNCHANGED consecutive
                    ELSE consecutive' = 0 /\ pc' = "run" /\ UNCHANGED current
  /\ UNCHANGED <<cont, i, tries, session, rerun, passes, res, kept, top, tested, disconnected,
                 hits, openFailures, exitCode, usb, history>>

(* main leaves the loop, or gives up before it: the session's destructor.  *)
Leave(code) ==
  /\ exitCode' = code
  /\ EnterClose("destroy")

FirstOpenFailed ==
  /\ pc = "openFailed"
  /\ current = 0
  /\ Leave(3)
  /\ UNCHANGED <<tries, session, current, rerun, passes, res, kept, top, counters, usb, history>>

\* Mutant: a candidate without a session is tried again.
ReopenFailedRetries ==
  /\ pc = "openFailed"
  /\ current > 0
  /\ openFailures' = openFailures + 1
  /\ consecutive' = consecutive + 1
  /\ outcomes' = Append(outcomes, "skipped")
  /\ IF consecutive' >= MaxOpenFails
       THEN Leave(0)
       ELSE pc' = "loop" /\ UNCHANGED <<cont, i, exitCode>>
  /\ UNCHANGED <<tries, session, current, rerun, passes, res, kept, top, tested, disconnected,
                 hits, usb, results, opens, lost>>

(* A candidate without a session is skipped, and the scan is given up      *)
(* after MaxOpenFails of them in a row.                                    *)
ReopenFailed ==
  /\ pc = "openFailed"
  /\ current > 0
  /\ openFailures' = openFailures + 1
  /\ consecutive' = consecutive + 1
  /\ outcomes' = Append(outcomes, "skipped")
  /\ IF consecutive' >= MaxOpenFails
       THEN Leave(0) /\ UNCHANGED current
       ELSE current' = current + 1 /\ pc' = "loop" /\ UNCHANGED <<cont, i, exitCode>>
  /\ UNCHANGED <<tries, session, rerun, passes, res, kept, top, tested, disconnected, hits,
                 usb, results, opens, lost>>

Loop ==
  /\ pc = "loop"
  /\ IF current > Tests THEN Leave(0)
     ELSE IF IsOpen THEN pc' = "run" /\ UNCHANGED <<cont, i, exitCode>>
     ELSE EnterClose("open") /\ UNCHANGED exitCode
  /\ UNCHANGED <<tries, session, current, rerun, passes, res, kept, top, counters, usb, history>>

\* Mutant: the list is cut before the new result is sorted in.
KeepTopCutFirst(list, result) ==
  LET old == SubSeq(list, 1, IF Len(list) < TopN THEN Len(list) ELSE TopN - 1)
  IN  {s \in SetToSeqs(ToSet(old) \cup {result}) :
         \A a, b \in 1..Len(s) : a < b => s[a].score >= s[b].score}

(* keepTopResults: std::sort leaves the order of equal scores open.        *)
KeepTop(list, result) ==
  {SubSeq(s, 1, IF Len(s) < TopN THEN Len(s) ELSE TopN) :
     s \in {q \in SetToSeqs(ToSet(list) \cup {result}) :
              \A a, b \in 1..Len(q) : a < b => q[a].score >= q[b].score}}

(* The result of a test is recorded.  A candidate that streamed is run a   *)
(* second time.                                                            *)
JudgeTest ==
  /\ pc = "judge"
  /\ ~rerun
  /\ kept' = res
  /\ tested' = tested + 1
  /\ LET entry == [candidate |-> current, score |-> Score(res), stream |-> res.stream]
     IN  top' \in KeepTop(top, entry) /\ results' = Append(results, entry)
  /\ outcomes' = Append(outcomes, "tested")
  /\ IF res.stream > 0 THEN hits' = hits + 1 /\ rerun' = TRUE /\ pc' = "run"
                       ELSE pc' = "after" /\ UNCHANGED <<hits, rerun>>
  /\ UNCHANGED <<cont, i, tries, session, current, passes, res, disconnected, openFailures,
                 consecutive, exitCode, usb, opens, lost>>

\* Mutant: the second run counts as a test.
JudgeRerunCounts ==
  /\ pc = "judge"
  /\ rerun
  /\ rerun' = FALSE
  /\ tested' = tested + 1
  /\ pc' = "after"
  /\ UNCHANGED <<cont, i, tries, session, current, passes, res, kept, top, disconnected, hits,
                 openFailures, consecutive, exitCode, usb, history>>

(* The result of the second run is dropped, a fatal error included.        *)
JudgeRerun ==
  /\ pc = "judge"
  /\ rerun
  /\ rerun' = FALSE
  /\ pc' = "after"
  /\ UNCHANGED <<cont, i, tries, session, current, passes, res, kept, top, counters, exitCode,
                 usb, history>>

After ==
  /\ pc = "after"
  /\ IF kept.fatal
       THEN disconnected' = disconnected + 1 /\ EnterClose("drop") /\ UNCHANGED current
       ELSE current' = current + 1 /\ pc' = "loop" /\ UNCHANGED <<disconnected, cont, i>>
  /\ UNCHANGED <<tries, session, rerun, passes, res, kept, top, tested, hits, openFailures,
                 consecutive, exitCode, usb, history>>

------------------------------------------------------------------------------
(* The device, as in VendorProtocol.                                       *)

Unplug ==
  /\ attached
  /\ attached' = FALSE
  /\ handle' = IF handle = "live" THEN "stale" ELSE handle
  /\ osClaims' = {}
  /\ alt' = {}
  /\ refused' = {}
  /\ UNCHANGED <<pc, cont, i, tries, ctx, claimed, scan, ctxCount, handleCount, history>>

Plug ==
  /\ ~attached
  /\ attached' = TRUE
  /\ UNCHANGED <<pc, cont, i, tries, session, scan, ctxCount, handleCount, osClaims,
                 settings, history>>

------------------------------------------------------------------------------
CloseStep == ResetAlt \/ Release \/ CloseHandle \/ Exit

OpenStep ==
  \/ InitFails \/ LibInit
  \/ OpenDevice \/ OpenDeviceFails \/ GiveUpDevice
  \/ Claim \/ ClaimFails
  \/ SetAlt \/ SetAltFails

RunStep == BeginRun \/ Send \/ NextRound \/ WindowOver \/ Read

MainStep ==
  \/ FirstOpen \/ Opened \/ FirstOpenFailed \/ ReopenFailed
  \/ Loop \/ JudgeTest \/ JudgeRerun \/ After

Program == CloseStep \/ OpenStep \/ RunStep \/ MainStep

Next == Program \/ Unplug \/ Plug

Spec == Init /\ [][Next]_vars

(* Every libusb call of the tool returns: transfers carry a timeout.       *)
(* Nothing obliges the device to be there or to move.                      *)
FairSpec == Spec /\ WF_vars(Program)

------------------------------------------------------------------------------
(* Properties.                                                             *)

Count(outcome) == Cardinality({k \in 1..Len(outcomes) : outcomes[k] = outcome})

(* The list the tool prints: whatever the order in which results came and  *)
(* however often the list was cut, it holds the best ones of all tests,    *)
(* best first, and no result that is worse than one left out.              *)
TopIsBest ==
  LET listed == ToSet(top)
      all    == ToSet(results)
  IN  /\ Len(top) = IF Len(results) < TopN THEN Len(results) ELSE TopN
      /\ listed \subseteq all
      /\ \A a, b \in 1..Len(top) : a < b => top[a] # top[b] /\ top[a].score >= top[b].score
      /\ \A out \in all \ listed, in \in listed : out.score <= in.score

(* A candidate is only tested in a session in which no earlier test met a  *)
(* fatal error, in a send or in a read: its score never stands for the     *)
(* loss of the device under another candidate.  (The second run of a       *)
(* candidate that streamed is no test.)                                    *)
NoTestOnLostSession == pc \in RunSteps /\ ~rerun => ~lost

(* The summary at the end: every candidate was tested or counted as a      *)
(* failed open, none twice; the stream hits are the tests that brought     *)
(* stream data; each session but the last was ended by a disconnect.       *)
SummaryTrue ==
  /\ pc = "loop" \/ exitCode = 0 =>
       /\ tested = Count("tested") /\ tested = Len(results)
       /\ openFailures = Count("skipped")
       /\ hits = Cardinality({k \in 1..Len(results) : results[k].stream > 0})
       /\ \A a, b \in 1..Len(results) : a < b => results[a].candidate < results[b].candidate
  /\ pc = "loop" =>
       /\ Len(outcomes) = current - 1 \/ current = 0
       /\ opens = disconnected + IF IsOpen THEN 1 ELSE 0

AllSkipped(from, to) == \A k \in from..to : outcomes[k] = "skipped"

(* The scan gives up exactly when MaxOpenFails candidates in a row found   *)
(* no device: a device that was lost and came back in between starts the   *)
(* count anew, and a scan that ends early ended for that reason.           *)
GivesUpInTime ==
  /\ \A k \in 1..(Len(outcomes) - MaxOpenFails) : ~AllSkipped(k, k + MaxOpenFails - 1)
  /\ exitCode = 0 /\ Len(outcomes) < Tests =>
       /\ Len(outcomes) >= MaxOpenFails
       /\ AllSkipped(Len(outcomes) - MaxOpenFails + 1, Len(outcomes))

(* With a session the settings of a device on the bus are all 1; without   *)
(* one a setting is only left at 1 where the device refused its reset, a   *)
(* result that close() ignores.  Whichever call of open() failed, and on   *)
(* every way out of main, the reset of every setting that was made is      *)
(* asked for, while the interface is still claimed.                        *)
SettingsMatchSession ==
  /\ pc \in {"loop", "openFailed", "gone"} /\ ~IsOpen => alt \subseteq refused
  /\ pc \in {"loop", "run", "judge", "after"} /\ handle = "live" => alt = AltInterfaces

(* The scan ends, whatever the device does: no wait for it is unbounded.   *)
ScanEnds == <>(pc = "gone")

(* How far the scan has got: the candidate, the stage of its test, and in  *)
(* a stage that loops the round of reads and the index.                    *)
CloseStages == [open |-> 2, failed |-> 10, drop |-> 24, destroy |-> 28]
CloseOrder  == [alt0 |-> 0, release |-> 1, closeHandle |-> 2, exit |-> 3]
OtherStages ==
  [start |-> 0, loop |-> 1, init |-> 6, openDevice |-> 7, claim |-> 8, setAlt |-> 9,
   opened |-> 14, openFailed |-> 14, run |-> 15, send |-> 16, window |-> 17, read |-> 17,
   judge |-> 18, after |-> 23, gone |-> 32]

Stage ==
  IF pc \in CloseSteps THEN CloseStages[cont] + CloseOrder[pc]
  ELSE OtherStages[pc] + IF rerun THEN 4 ELSE 0

Round == IF pc \in {"window", "read"} THEN passes ELSE 0

Index ==
  CASE pc = "openDevice" -> tries
    [] pc = "window"     -> Len(InEndpoints) + 1
    [] pc \in {"alt0", "release", "claim", "setAlt", "send", "read"} -> i
    [] OTHER             -> 0

Position == <<current, Stage, Round, Index>>

Later(p, q) == \E k \in 1..4 : p[k] < q[k] /\ \A j \in 1..(k - 1) : p[j] = q[j]

(* The scan never goes back: whatever fails, whenever the device leaves    *)
(* and returns, each step of the tool is a later one of the same candidate *)
(* or belongs to a later one, so that none is tried twice.                 *)
EveryStepAdvances == [][attached' = attached => Later(Position, Position')]_vars

------------------------------------------------------------------------------
(* The inductive invariant, in three parts.  First the session: what each  *)
(* of its calls and each step of main knows about it.                      *)

SessionTypes ==
  /\ pc \in CloseSteps \cup OpenSteps \cup MainSteps \cup RunSteps \cup {"gone"}
  /\ cont \in {"open", "failed", "drop", "destroy"}
  /\ handle \in {"null", "live", "stale"}
  /\ ctx \in BOOLEAN /\ attached \in BOOLEAN
  /\ claimed \subseteq Interfaces
  /\ alt \subseteq AltInterfaces /\ refused \subseteq AltInterfaces
  /\ current \in Nat

Bookkeeping ==
  /\ ctxCount = IF ctx THEN 1 ELSE 0
  /\ handleCount = IF handle = "null" THEN 0 ELSE 1
  /\ handle # "null" => ctx
  /\ handle = "null" => claimed = {}
  /\ handle = "live" => attached
  /\ osClaims = IF handle = "live" THEN claimed ELSE {}
  /\ alt \subseteq osClaims \cup refused

SetUp == handle # "null" /\ claimed = Interfaces /\ (handle = "live" => alt = AltInterfaces)

AtEachStep ==
  /\ pc \in RunSteps \cup {"opened", "run", "judge", "after"} => SetUp
  /\ pc \in {"start", "openFailed", "gone", "init"} => ~ctx
  /\ pc = "loop"        => ~ctx \/ SetUp
  /\ pc = "alt0"        => handle # "null" /\ i \in AltInterfaces
                           /\ \A f \in AltInterfaces : f < i /\ f \in alt => f \in refused
  /\ pc = "release"     => handle # "null" /\ i \in Interfaces /\ alt \subseteq refused
                           /\ \A f \in Interfaces : f < i => f \notin claimed
  /\ pc = "closeHandle" => handle # "null" /\ alt \subseteq refused /\ claimed = {}
  /\ pc = "exit"        => handle = "null"
  /\ pc = "openDevice"  => ctx /\ handle = "null"
  /\ pc = "claim"       => handle # "null" /\ i \in Interfaces
                           /\ \A f \in Interfaces : f < i => f \in claimed
  /\ pc = "setAlt"      => handle # "null" /\ i \in AltInterfaces /\ claimed = Interfaces
                           /\ (handle = "live" =>
                                 \A f \in AltInterfaces : f < i => f \in alt)

SessionInv == SessionTypes /\ Bookkeeping /\ AtEachStep

(* Second, a fatal error of a test is on its way to main, which closes.    *)
LossIsNoted ==
  /\ DOMAIN res = DOMAIN Clean
  /\ rerun \in BOOLEAN /\ lost \in BOOLEAN
  /\ rerun => pc \in RunSteps \cup {"run", "judge"}
  /\ lost =>
       /\ pc \notin {"claim", "setAlt", "opened"}
       /\ pc = "loop" => ~IsOpen
       /\ pc \in RunSteps \cup {"run"} => rerun
       /\ pc = "judge" /\ ~rerun => res.fatal
       /\ pc = "after" \/ rerun => kept.fatal

(* Third, consecutive counts the skipped candidates at the end of the      *)
(* scan so far, but for a candidate whose session was just opened.         *)
Pending == rerun \/ pc = "after" \/ (pc \in CloseSteps /\ cont = "drop")

Testing == pc \in RunSteps \cup {"run", "judge"}

MissesCounted ==
  /\ outcomes \in Seq({"tested", "skipped"})
  /\ consecutive \in 0..Len(outcomes)
  /\ exitCode \in {-1, 0, 3}
  /\ exitCode = -1 =>
       /\ consecutive < MaxOpenFails
       /\ ~(pc \in CloseSteps /\ cont = "destroy") /\ pc # "gone"
       /\ current = 0 => outcomes = <<>> /\ pc \notin RunSteps \cup {"run", "judge", "after", "loop"}
       /\ current > 0 => Len(outcomes) = IF Pending THEN current ELSE current - 1
  /\ exitCode # -1 => pc \in {"alt0", "release", "closeHandle", "exit", "gone"} /\ cont = "destroy"
  /\ AllSkipped(Len(outcomes) - consecutive + 1, Len(outcomes))
  /\ exitCode = -1 => \A k \in 1..Len(outcomes) :
       AllSkipped(k, Len(outcomes)) =>
         \/ Len(outcomes) - k < consecutive
         \/ Testing /\ ~rerun /\ Len(outcomes) - k + 1 < MaxOpenFails
  /\ Testing \/ pc = "after" \/ (pc = "loop" /\ IsOpen) => consecutive = 0

IInv == SessionInv /\ LossIsNoted /\ MissesCounted /\ GivesUpInTime

------------------------------------------------------------------------------
(* DeviceSession implements the all-or-nothing session, and main uses it   *)
(* as one: a run of a candidate only ever happens in an open session.      *)

callBar ==
  CASE pc \in RunSteps             -> "poll"
    [] pc \in OpenSteps            -> "open"
    [] pc \in CloseSteps           -> IF cont = "failed" THEN "open"
                                      ELSE IF cont = "drop" THEN "close" ELSE cont
    [] OTHER                       -> "none"

sessionBar ==
  IF pc = "gone" THEN "gone"
  ELSE IF IsOpen /\ pc \notin OpenSteps /\ ~(pc \in CloseSteps /\ cont = "failed")
  THEN "open" ELSE "closed"

heldBar ==
  CASE ctxCount = 0 /\ handleCount = 0 /\ osClaims = {}           -> "nothing"
    [] ctxCount = 1 /\ handleCount = 1 /\ claimed = Interfaces    -> "everything"
    [] OTHER                                                      -> "partial"

Session == INSTANCE VendorSession WITH
             call <- callBar, session <- sessionBar, held <- heldBar

(* Every behaviour of the tool is one of VendorSession: whichever call of  *)
(* open() fails, all is given back, on every way out of main as well.      *)
SessionSpec == Session!Spec
==============================================================================
