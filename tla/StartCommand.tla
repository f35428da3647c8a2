----------------------------- MODULE StartCommand -----------------------------
(***************************************************************************)
(* sendVendorStartCommand of the driver node: one action per transfer and  *)
(* per pause of the sequence of a profile.  Every transfer may fail, for   *)
(* any reason the device or libusb has; the program learns only whether it *)
(* did.                                                                    *)
(***************************************************************************)
EXTENDS StartSequences

CONSTANTS
  Profiles,      \* the configured profiles to send
  NumCandidates  \* the scan candidates 1..NumCandidates are sent as well

(* What the constructor lets through.                                      *)
ASSUME ProfilesAssumption ==
  Profiles \subseteq [mode : Modes, endpoint : 1..15, preface : BOOLEAN,
                      repeat : Nat \ {0}, interval : Nat]

ASSUME NumCandidatesAssumption == NumCandidates \in 0..NumScanCandidates

(* The parameters with which the driver repeats a candidate of the scan.   *)
ProfileOf(c) ==
  [mode     |-> TemplateMode(c.template),
   endpoint |-> c.endpoint,
   preface  |-> HasPreface(c.template),
   repeat   |-> 1,
   interval |-> 25]

VARIABLES
  profile,     \* the profile that is sent
  candidate,   \* number of the scan candidate it repeats, 0 if none
  active,      \* vendor_auto_start_command_ and vendor_protocol_active_
  pc,          \* "call", "transfer", "pause" or "returned"
  step,        \* step_index + 1
  rep,         \* i + 1
  ok,          \* the verdict so far, then what the call returns
  attempted,   \* history: the transfers that were tried, in order
  failed,      \* history: the number of transfers that failed
  pauses       \* history: the number of sleeps

history == <<attempted, failed, pauses>>
vars    == <<profile, candidate, active, pc, step, rep, ok, history>>

steps == DriverSequence(profile)

TypeOK ==
  /\ profile \in Profiles \cup {ProfileOf(ScanCandidate(n)) : n \in 1..NumCandidates}
  /\ candidate \in 0..NumCandidates
  /\ active \in BOOLEAN
  /\ pc \in {"call", "transfer", "pause", "returned"}
  /\ step \in 1..Len(steps)
  /\ rep \in 1..steps[step].repeat
  /\ ok \in BOOLEAN
  /\ attempted \in Seq([ep : 1..15, payload : Payloads])
  /\ failed \in 0..Len(attempted)
  /\ pauses \in 0..Len(attempted)

Init ==
  /\ \/ candidate = 0 /\ profile \in Profiles
     \/ candidate \in 1..NumCandidates /\ profile = ProfileOf(ScanCandidate(candidate))
  /\ active \in BOOLEAN
  /\ pc = "call"
  /\ step = 1
  /\ rep = 1
  /\ ok = FALSE
  /\ attempted = <<>>
  /\ failed = 0
  /\ pauses = 0

Refuse ==
  /\ pc = "call"
  /\ ~active
  /\ ok' = FALSE
  /\ pc' = "returned"
  /\ UNCHANGED <<profile, candidate, active, step, rep, history>>

Begin ==
  /\ pc = "call"
  /\ active
  /\ ok' = (steps # <<>>)
  /\ pc' = "transfer"
  /\ UNCHANGED <<profile, candidate, active, step, rep, history>>

IsLast == step = Len(steps) /\ rep = steps[step].repeat

(* The next pass of the two loops.                                         *)
Advance ==
  IF rep < steps[step].repeat THEN rep' = rep + 1 /\ UNCHANGED step
                              ELSE rep' = 1 /\ step' = step + 1

\* Mutant: the last transfer decides.
VerdictOfLast(success) == success

(* ok = sendRawTransfer(...) && ok                                         *)
Verdict(success) == success /\ ok

\* Mutant: the first failing transfer ends the sequence.
TransferStopsAtFailure ==
  /\ pc = "transfer"
  /\ attempted' = Append(attempted, [ep |-> steps[step].ep, payload |-> steps[step].payload])
  /\ \E success \in BOOLEAN :
       /\ ok' = Verdict(success)
       /\ failed' = IF success THEN failed ELSE failed + 1
       /\ IF IsLast \/ ~success
            THEN pc' = "returned" /\ UNCHANGED <<step, rep>>
            ELSE IF profile.interval > 0
                   THEN pc' = "pause" /\ UNCHANGED <<step, rep>>
                   ELSE Advance /\ UNCHANGED pc
  /\ UNCHANGED <<profile, candidate, active, pauses>>

(* A transfer that fails is followed by the next one: nothing ends the     *)
(* sequence early.                                                         *)
Transfer ==
  /\ pc = "transfer"
  /\ attempted' = Append(attempted, [ep |-> steps[step].ep, payload |-> steps[step].payload])
  /\ \E success \in BOOLEAN :
       /\ ok' = Verdict(success)
       /\ failed' = IF success THEN failed ELSE failed + 1
  /\ IF IsLast THEN pc' = "returned" /\ UNCHANGED <<step, rep>>
     ELSE IF profile.interval > 0 THEN pc' = "pause" /\ UNCHANGED <<step, rep>>
     ELSE Advance /\ UNCHANGED pc
  /\ UNCHANGED <<profile, candidate, active, pauses>>

Pause ==
  /\ pc = "pause"
  /\ Advance
  /\ pauses' = pauses + 1
  /\ pc' = "transfer"
  /\ UNCHANGED <<profile, candidate, active, ok, attempted, failed>>

Next == Refuse \/ Begin \/ Transfer \/ Pause

Spec == Init /\ [][Next]_vars

------------------------------------------------------------------------------
(* Properties.                                                             *)

Sent(t) == Cardinality({k \in 1..Len(attempted) : attempted[k] = t})

(* The verdict that decides whether the driver counts a start command as   *)
(* sent: the call returns true exactly when the driver was active and no   *)
(* transfer of the sequence failed, the first, the last or one in between. *)
VerdictTrue ==
  pc = "returned" => (ok <=> active /\ failed = 0)

(* What reaches the device, whichever transfers fail: every target gets    *)
(* each payload of the mode repeat_count times and nothing else, a         *)
(* broadcast reaches the primary endpoint first and leaves out none of the *)
(* five, and the two preface headers go to the primary before all else.    *)
(* The interval sets any two transfers apart, also across steps, and the   *)
(* callback is not held up by a sleep after the last one.                  *)
WholeSequence ==
  pc = "returned" /\ active =>
    LET targets == {profile.endpoint} \cup (IF IsBroadcast(profile.mode) THEN 1..5 ELSE {})
        kinds   == ToSet(PayloadsOf(profile.mode))
        body    == {[ep |-> e, payload |-> k] : e \in targets, k \in kinds}
        head    == IF profile.preface THEN 2 ELSE 0
        h(kind) == [ep |-> profile.endpoint, payload |-> kind]
        isHead(t) == profile.preface /\ t \in {h("header4"), h("header8")}
    IN  /\ Len(attempted) = head + profile.repeat * Cardinality(body)
        /\ profile.preface => attempted[1] = h("header4") /\ attempted[2] = h("header8")
        /\ \A t \in body : Sent(t) = profile.repeat + IF isHead(t) THEN 1 ELSE 0
        /\ attempted[head + 1].ep = profile.endpoint
        /\ pauses = IF profile.interval > 0 THEN Len(attempted) - 1 ELSE 0

(* A candidate that the scan tool reports can be given to the driver: with *)
(* its template as mode and preface, the driver sends the same payloads to *)
(* the same endpoints in the same order as the tool did.                   *)
ScanRepeatable ==
  pc = "returned" /\ active /\ candidate > 0 =>
    attempted = TemplateSteps(ScanCandidate(candidate))
==============================================================================
