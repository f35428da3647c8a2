---------------------------- MODULE StartProfiles ----------------------------
(***************************************************************************)
(* buildVendorStartProfiles of the driver node: the list of start profiles *)
(* that auto-cycle rotates through.  The code proposes one profile after   *)
(* the other; addVendorStartProfileIfMissing appends those that differ     *)
(* from all before.                                                        *)
(***************************************************************************)
EXTENDS StartSequences

CONSTANTS
  Configured    \* the profiles the parameters may describe

Fields == {"mode", "endpoint", "preface", "repeat", "interval", "command", "arg0", "arg1"}

IsProfile(p) == p = [f \in Fields |-> p[f]]

ASSUME ConfiguredAssumption == \A p \in Configured : IsProfile(p)

SweepModes == <<"frame20", "payload12", "frame_then_payload", "broadcast_frame20",
                "broadcast_payload12", "broadcast_frame_then_payload">>
CommandModes   == SubSeq(SweepModes, 1, 3)
SweepCommands  == <<16, 17, 18, 19, 20, 21, 22>>          \* 0x10000010 ...
MoreCommands   == SweepCommands \o <<23, 24, 25, 26>>
SweepArguments == <<15, 1, 3, 7, 8, 0>>

VARIABLES
  configured,  \* makeConfiguredVendorStartProfile()
  autoCycle,   \* vendor_start_auto_cycle_
  extended,    \* vendor_start_auto_cycle_extended_
  n,           \* the number of profiles proposed so far
  profiles     \* vendor_start_profiles_

listVars == <<configured, autoCycle, extended, n, profiles>>

Prioritized(c, mode, ep, preface, arg) ==
  [c EXCEPT !.mode = mode, !.endpoint = ep, !.preface = preface,
            !.command = 19, !.arg0 = arg]

Priority(c) ==
  << Prioritized(c, "payload12", 2, TRUE, 3),
     Prioritized(c, "frame_then_payload", 2, TRUE, 3),
     Prioritized(c, "broadcast_payload12", 2, TRUE, 3),
     Prioritized(c, "broadcast_frame_then_payload", 2, TRUE, 3),
     Prioritized(c, "payload12", 2, FALSE, 3),
     Prioritized(c, "broadcast_payload12", 4, FALSE, 15),
     Prioritized(c, "frame20", 2, FALSE, 3) >>

(* The nested loops of the code are read off the number of the pass, the   *)
(* innermost loop first.                                                   *)
Sweep(c, preface) ==
  [k \in 1..30 |->
    [c EXCEPT !.mode     = Digit((k - 1) \div 5, SweepModes),
              !.endpoint = Digit(k - 1, OutEndpoints),
              !.preface  = preface]]

CommandSweep(c) ==
  [k \in 1..21 |->
    [c EXCEPT !.mode     = Digit(k - 1, CommandModes),
              !.endpoint = 1,
              !.preface  = FALSE,
              !.command  = Digit((k - 1) \div 3, SweepCommands)]]

ExtendedSweep(c) ==
  [k \in 1..198 |->
    [c EXCEPT !.mode     = Digit(k - 1, CommandModes),
              !.endpoint = 1,
              !.preface  = FALSE,
              !.arg0     = Digit((k - 1) \div 3, SweepArguments),
              !.command  = Digit((k - 1) \div 18, MoreCommands)]]

(* All profiles the code proposes, in its order.                           *)
Proposals(c, cycle, more) ==
  <<c>> \o
  (IF cycle THEN Priority(c) \o Sweep(c, FALSE) \o Sweep(c, TRUE) \o CommandSweep(c)
                 \o (IF more THEN ExtendedSweep(c) ELSE <<>>)
            ELSE <<>>)

proposals == Proposals(configured, autoCycle, extended)

Built == n = Len(proposals)

ListTypeOK ==
  /\ configured \in Configured
  /\ autoCycle \in BOOLEAN
  /\ extended \in BOOLEAN
  /\ n \in 0..Len(proposals)
  /\ profiles \in Seq(ToSet(proposals))
  /\ Len(profiles) <= n

ListInit ==
  /\ configured \in Configured
  /\ autoCycle \in BOOLEAN
  /\ extended \in BOOLEAN
  /\ n = 0
  /\ profiles = <<>>

\* Mutant: the comparison leaves out the preface.
SameButPreface(a, b) == \A f \in Fields \ {"preface"} : a[f] = b[f]

(* sameVendorStartProfile                                                  *)
Same(a, b) == \A f \in Fields : a[f] = b[f]

\* Mutant: a profile is only compared with the one before it.
MissingAtEnd(p) == profiles = <<>> \/ ~Same(profiles[Len(profiles)], p)

Missing(p) == \A k \in 1..Len(profiles) : ~Same(profiles[k], p)

Propose ==
  /\ n < Len(proposals)
  /\ n' = n + 1
  /\ profiles' = IF Missing(proposals[n + 1]) THEN Append(profiles, proposals[n + 1])
                                              ELSE profiles
  /\ UNCHANGED <<configured, autoCycle, extended>>

ListNext == Propose

ListSpec == ListInit /\ [][ListNext]_listVars

------------------------------------------------------------------------------
(* Properties.                                                             *)

(* A rotation of auto-cycle never spends a retry period on a profile it    *)
(* has tried already, however the configured profile, the priority list    *)
(* and the sweeps overlap.                                                 *)
NoProfileTwice ==
  Built => \A a, b \in 1..Len(profiles) : profiles[a] = profiles[b] => a = b

(* The profile that differs from c in no more than these fields, and the   *)
(* sets of those that the sweeps are meant to span.                        *)
Variant(c, m, e, f, d, a) ==
  [c EXCEPT !.mode = m, !.endpoint = e, !.preface = f, !.command = d, !.arg0 = a]

With(c, modes, eps, prefaces, commands, args) ==
  {Variant(c, m, e, f, d, a) : m \in modes, e \in eps, f \in prefaces, d \in commands, a \in args}

Swept  == Modes \ {"header4", "header8"}
Single == {"frame20", "payload12", "frame_then_payload"}

ModesSwept(c, prefaces) == With(c, Swept, 1..5, prefaces, {c.command}, {c.arg0})
CommandsSwept(c)        == With(c, Single, {1}, {FALSE}, 16..22, {c.arg0})
ArgumentsSwept(c)       == With(c, Single, {1}, {FALSE}, 16..26, {0, 1, 3, 7, 8, 15})

(* What a rotation covers, as the sets the sweeps are meant to span: no    *)
(* combination is lost by the dropping of duplicates, and none is added.   *)
SweepsComplete ==
  Built /\ autoCycle =>
    ToSet(profiles) =
      {configured} \cup ToSet(Priority(configured)) \cup ModesSwept(configured, BOOLEAN)
      \cup CommandsSwept(configured)
      \cup (IF extended THEN ArgumentsSwept(configured) ELSE {})
==============================================================================
