-------------------------- MODULE StartProfilesProofs --------------------------
(***************************************************************************)
(* Proofs about StartProfiles, for every configured profile.               *)
(***************************************************************************)
EXTENDS StartProfiles, TLAPS

(* A function on 1..m is a sequence.                                       *)
LEMMA FunctionIsSequence ==
  ASSUME NEW S, NEW m \in Nat, NEW s, s = [k \in 1..m |-> s[k]],
         \A k \in 1..m : s[k] \in S
  PROVE  s \in Seq(S)
OBVIOUS

(* Two sequences of a set are one.                                         *)
LEMMA ConcatenationIsSequence ==
  ASSUME NEW S, NEW s \in Seq(S), NEW t \in Seq(S)
  PROVE  s \o t \in Seq(S)
OBVIOUS

(* Replacing fields of a profile gives a profile.                          *)
LEMMA SweepsAreProfiles ==
  ASSUME NEW c, IsProfile(c)
  PROVE  /\ \A k \in 1..7 : IsProfile(Priority(c)[k])
         /\ \A preface \in BOOLEAN, k \in 1..30 : IsProfile(Sweep(c, preface)[k])
         /\ \A k \in 1..21 : IsProfile(CommandSweep(c)[k])
         /\ \A k \in 1..198 : IsProfile(ExtendedSweep(c)[k])
<1>0. DOMAIN c = Fields
  BY DEF IsProfile
<1>1. \A k \in 1..7 : IsProfile(Priority(c)[k])
  <2>1. ASSUME NEW m, NEW e, NEW p, NEW a
        PROVE  IsProfile(Prioritized(c, m, e, p, a))
    BY <1>0 DEF Prioritized, IsProfile
  <2>2. /\ Priority(c)[1] = Prioritized(c, "payload12", 2, TRUE, 3)
        /\ Priority(c)[2] = Prioritized(c, "frame_then_payload", 2, TRUE, 3)
        /\ Priority(c)[3] = Prioritized(c, "broadcast_payload12", 2, TRUE, 3)
        /\ Priority(c)[4] = Prioritized(c, "broadcast_frame_then_payload", 2, TRUE, 3)
        /\ Priority(c)[5] = Prioritized(c, "payload12", 2, FALSE, 3)
        /\ Priority(c)[6] = Prioritized(c, "broadcast_payload12", 4, FALSE, 15)
        /\ Priority(c)[7] = Prioritized(c, "frame20", 2, FALSE, 3)
    BY DEF Priority
  <2>3. /\ IsProfile(Priority(c)[1]) /\ IsProfile(Priority(c)[2])
        /\ IsProfile(Priority(c)[3]) /\ IsProfile(Priority(c)[4])
        /\ IsProfile(Priority(c)[5]) /\ IsProfile(Priority(c)[6])
        /\ IsProfile(Priority(c)[7])
    BY <2>1, <2>2
  <2> QED  BY <2>3
<1>2. \A preface \in BOOLEAN, k \in 1..30 : IsProfile(Sweep(c, preface)[k])
  BY <1>0 DEF Sweep, IsProfile
<1>3. \A k \in 1..21 : IsProfile(CommandSweep(c)[k])
  BY <1>0 DEF CommandSweep, IsProfile
<1>4. \A k \in 1..198 : IsProfile(ExtendedSweep(c)[k])
  BY <1>0 DEF ExtendedSweep, IsProfile
<1> QED  BY <1>1, <1>2, <1>3, <1>4

(* The code proposes a sequence of profiles.                               *)
LEMMA ProposalsSequence ==
  ASSUME NEW c, IsProfile(c), NEW cycle \in BOOLEAN, NEW more \in BOOLEAN
  PROVE  /\ Len(Proposals(c, cycle, more)) \in Nat
         /\ DOMAIN Proposals(c, cycle, more) = 1..Len(Proposals(c, cycle, more))
         /\ \A k \in 1..Len(Proposals(c, cycle, more)) : IsProfile(Proposals(c, cycle, more)[k])
<1> DEFINE S == {c} \cup {Priority(c)[k] : k \in 1..7}
                \cup {Sweep(c, FALSE)[k] : k \in 1..30}
                \cup {Sweep(c, TRUE)[k] : k \in 1..30}
                \cup {CommandSweep(c)[k] : k \in 1..21}
                \cup {ExtendedSweep(c)[k] : k \in 1..198}
<1>0. \A p \in S : IsProfile(p)
  BY SweepsAreProfiles
<1> HIDE DEF S
<1>1. <<c>> \in Seq(S)
  BY DEF S
<1>2. Priority(c) \in Seq(S)
  <2>1. Priority(c) = [k \in 1..7 |-> Priority(c)[k]]
    BY DEF Priority
  <2>2. \A k \in 1..7 : Priority(c)[k] \in S
    BY DEF S
  <2> QED  BY <2>1, <2>2, FunctionIsSequence
<1>3. Sweep(c, FALSE) \in Seq(S)
  <2>1. Sweep(c, FALSE) = [k \in 1..30 |-> Sweep(c, FALSE)[k]]
    BY DEF Sweep
  <2>2. \A k \in 1..30 : Sweep(c, FALSE)[k] \in S
    BY DEF S
  <2> QED  BY <2>1, <2>2, FunctionIsSequence
<1>4. Sweep(c, TRUE) \in Seq(S)
  <2>1. Sweep(c, TRUE) = [k \in 1..30 |-> Sweep(c, TRUE)[k]]
    BY DEF Sweep
  <2>2. \A k \in 1..30 : Sweep(c, TRUE)[k] \in S
    BY DEF S
  <2> QED  BY <2>1, <2>2, FunctionIsSequence
<1>5. CommandSweep(c) \in Seq(S)
  <2>1. CommandSweep(c) = [k \in 1..21 |-> CommandSweep(c)[k]]
    BY DEF CommandSweep
  <2>2. \A k \in 1..21 : CommandSweep(c)[k] \in S
    BY DEF S
  <2> QED  BY <2>1, <2>2, FunctionIsSequence
<1>6. ExtendedSweep(c) \in Seq(S)
  <2>1. ExtendedSweep(c) = [k \in 1..198 |-> ExtendedSweep(c)[k]]
    BY DEF ExtendedSweep
  <2>2. \A k \in 1..198 : ExtendedSweep(c)[k] \in S
    BY DEF S
  <2> QED  BY <2>1, <2>2, FunctionIsSequence
<1>7. Priority(c) \o Sweep(c, FALSE) \o Sweep(c, TRUE) \o CommandSweep(c) \in Seq(S)
  BY <1>2, <1>3, <1>4, <1>5, ConcatenationIsSequence
<1>8. (IF more THEN ExtendedSweep(c) ELSE <<>>) \in Seq(S)
  BY <1>6
<1>9. (IF cycle THEN Priority(c) \o Sweep(c, FALSE) \o Sweep(c, TRUE) \o CommandSweep(c)
                     \o (IF more THEN ExtendedSweep(c) ELSE <<>>)
                ELSE <<>>) \in Seq(S)
  <2>1. Priority(c) \o Sweep(c, FALSE) \o Sweep(c, TRUE) \o CommandSweep(c)
          \o (IF more THEN ExtendedSweep(c) ELSE <<>>) \in Seq(S)
    BY <1>7, <1>8, ConcatenationIsSequence
  <2>2. <<>> \in Seq(S)
    OBVIOUS
  <2>3. CASE cycle
    BY <2>1, <2>3
  <2>4. CASE ~cycle
    BY <2>2, <2>4
  <2> QED  BY <2>3, <2>4
<1>10. Proposals(c, cycle, more) \in Seq(S)
  BY <1>1, <1>9, ConcatenationIsSequence DEF Proposals
<1> QED  BY <1>0, <1>10

(* What Missing compares field by field is the equality of two profiles.   *)
LEMMA SameIsEqual ==
  ASSUME NEW p, NEW q, IsProfile(p), IsProfile(q)
  PROVE  Same(p, q) <=> p = q
BY DEF Same, IsProfile

------------------------------------------------------------------------------
(* The inductive invariant: at every step the list holds each of the       *)
(* profiles proposed so far, and holds it once.                            *)
HoldsProposed ==
  {profiles[k] : k \in 1..Len(profiles)} = {proposals[k] : k \in 1..n}

EachOnce == \A a, b \in 1..Len(profiles) : profiles[a] = profiles[b] => a = b

IInv == ListTypeOK /\ HoldsProposed /\ EachOnce

(* Every proposal is a profile.                                            *)
LEMMA ProposalsType ==
  ASSUME ListTypeOK
  PROVE  /\ Len(proposals) \in Nat
         /\ \A k \in 1..Len(proposals) :
              IsProfile(proposals[k]) /\ proposals[k] \in ToSet(proposals)
<1>1. IsProfile(configured) /\ autoCycle \in BOOLEAN /\ extended \in BOOLEAN
  BY ConfiguredAssumption DEF ListTypeOK
<1> QED  BY <1>1, ProposalsSequence DEF proposals, ToSet

(* The invariant holds before the first proposal.                          *)
LEMMA InitIInv == ListInit => IInv
<1> SUFFICES ASSUME ListInit PROVE IInv
  OBVIOUS
<1>1. IsProfile(configured) /\ autoCycle \in BOOLEAN /\ extended \in BOOLEAN
  BY ConfiguredAssumption DEF ListInit
<1>2. Len(proposals) \in Nat
  BY <1>1, ProposalsSequence DEF proposals
<1>3. ListTypeOK
  BY <1>2 DEF ListInit, ListTypeOK
<1> QED  BY <1>3 DEF ListInit, IInv, HoldsProposed, EachOnce

(* A proposal, kept or dropped, keeps the invariant.                       *)
LEMMA ProposeIInv == IInv /\ Propose => IInv'
<1> SUFFICES ASSUME IInv, Propose PROVE IInv'
  OBVIOUS
<1> USE DEF IInv
<1> DEFINE new == proposals[n + 1]
<1>1. Len(proposals) \in Nat /\ proposals' = proposals
  BY ProposalsType DEF Propose, proposals
<1>2. n \in Nat /\ n' = n + 1 /\ n + 1 \in 1..Len(proposals)
  BY <1>1 DEF ListTypeOK, Propose
<1>3. IsProfile(new) /\ new \in ToSet(proposals)
  BY <1>2, ProposalsType
<1>4. profiles \in Seq(ToSet(proposals))
  BY DEF ListTypeOK
<1>5. \A k \in 1..Len(profiles) : IsProfile(profiles[k])
  <2> SUFFICES ASSUME NEW k \in 1..Len(profiles)  PROVE  IsProfile(profiles[k])
    OBVIOUS
  <2>1. profiles[k] \in {proposals[j] : j \in 1..n}
    BY DEF HoldsProposed
  <2>2. PICK j \in 1..n : profiles[k] = proposals[j]
    BY <2>1
  <2>3. j \in 1..Len(proposals)
    BY <1>1, <1>2
  <2> QED  BY <2>2, <2>3, ProposalsType
<1>6. Missing(new) <=> \A k \in 1..Len(profiles) : profiles[k] # new
  BY <1>3, <1>5, SameIsEqual DEF Missing
<1>7. {proposals[k] : k \in 1..(n + 1)} = {proposals[k] : k \in 1..n} \cup {new}
  BY <1>2
<1> HIDE DEF new
<1>8. CASE Missing(new)
  <2>1. profiles' = Append(profiles, new)
    BY <1>8 DEF Propose, new
  <2>2. /\ Len(profiles') = Len(profiles) + 1
        /\ profiles'[Len(profiles) + 1] = new
        /\ \A k \in 1..Len(profiles) : profiles'[k] = profiles[k]
        /\ profiles' \in Seq(ToSet(proposals))
    BY <1>3, <1>4, <2>1
  <2>3. Len(profiles) \in Nat
    BY <1>4
  <2>4. ListTypeOK'
    BY <1>1, <1>2, <2>2, <2>3 DEF ListTypeOK, Propose
  <2>5. HoldsProposed'
    <3>1. {profiles'[k] : k \in 1..Len(profiles')}
            = {profiles[k] : k \in 1..Len(profiles)} \cup {new}
      BY <2>2, <2>3
    <3>2. {profiles[k] : k \in 1..Len(profiles)} \cup {new} = {proposals[k] : k \in 1..(n + 1)}
      BY <1>7 DEF HoldsProposed
    <3> QED  BY <1>1, <1>2, <3>1, <3>2 DEF HoldsProposed
  <2>6. EachOnce'
    BY <1>6, <1>8, <2>2, <2>3 DEF EachOnce
  <2> QED  BY <2>4, <2>5, <2>6
<1>9. CASE ~Missing(new)
  <2>1. profiles' = profiles
    BY <1>9 DEF Propose, new
  <2>2. ListTypeOK'
    BY <1>1, <1>2, <1>4, <2>1 DEF ListTypeOK, Propose
  <2>3. HoldsProposed'
    <3>1. new \in {profiles[k] : k \in 1..Len(profiles)}
      BY <1>6, <1>9
    <3>2. new \in {proposals[k] : k \in 1..n}
      BY <3>1 DEF HoldsProposed
    <3>3. {proposals[k] : k \in 1..(n + 1)} = {proposals[k] : k \in 1..n}
      BY <1>7, <3>2
    <3>4. {profiles[k] : k \in 1..Len(profiles)} = {proposals[k] : k \in 1..(n + 1)}
      BY <3>3 DEF HoldsProposed
    <3> QED  BY <1>1, <1>2, <2>1, <3>4 DEF HoldsProposed
  <2>4. EachOnce'
    BY <2>1 DEF EachOnce
  <2> QED  BY <2>2, <2>3, <2>4
<1> QED  BY <1>8, <1>9

(* The list under construction never leaves the invariant.                 *)
THEOREM InductiveInvariant == ListSpec => []IInv
<1>1. IInv /\ [ListNext]_listVars => IInv'
  <2> SUFFICES ASSUME IInv, [ListNext]_listVars PROVE IInv'
    OBVIOUS
  <2>1. CASE Propose
    BY <2>1, ProposeIInv
  <2>2. CASE UNCHANGED listVars
    <3>1. proposals' = proposals
      BY <2>2 DEF listVars, proposals
    <3>2. ListTypeOK'
      BY <2>2, <3>1 DEF listVars, IInv, ListTypeOK
    <3>3. HoldsProposed'
      BY <2>2, <3>1 DEF listVars, IInv, HoldsProposed
    <3>4. EachOnce'
      BY <2>2 DEF listVars, IInv, EachOnce
    <3> QED  BY <3>2, <3>3, <3>4 DEF IInv
  <2> QED  BY <2>1, <2>2 DEF ListNext
<1> QED  BY InitIInv, <1>1, PTL DEF ListSpec

(* The list is one of proposed profiles and no longer than their number.   *)
THEOREM TypeCorrect == ListSpec => []ListTypeOK
<1>1. IInv => ListTypeOK
  BY DEF IInv
<1> QED  BY InductiveInvariant, <1>1, PTL

(* Auto-cycle never spends a turn on a profile it has already, whatever    *)
(* the parameters configure.                                               *)
THEOREM NeverTwice == ListSpec => []NoProfileTwice
<1>1. IInv => NoProfileTwice
  BY DEF IInv, EachOnce, NoProfileTwice
<1> QED  BY InductiveInvariant, <1>1, PTL

(* Dropping duplicates loses nothing: the finished list holds exactly the  *)
(* profiles the code proposes.                                             *)
THEOREM NoneLost ==
  ListSpec => [](Built => {profiles[k] : k \in 1..Len(profiles)}
                        = {proposals[k] : k \in 1..Len(proposals)})
<1>1. IInv => (Built => {profiles[k] : k \in 1..Len(profiles)}
                          = {proposals[k] : k \in 1..Len(proposals)})
  BY DEF IInv, HoldsProposed, Built
<1> QED  BY InductiveInvariant, <1>1, PTL

------------------------------------------------------------------------------
(* What a rotation covers.                                                 *)

Elements(s) == {s[k] : k \in 1..Len(s)}

(* A sequence that follows another adds its elements.                      *)
LEMMA ElementsOfConcatenation ==
  ASSUME NEW S, NEW s \in Seq(S), NEW t \in Seq(S)
  PROVE  Elements(s \o t) = Elements(s) \cup Elements(t)
<1> DEFINE m == Len(s)
           l == Len(t)
<1>1. /\ m \in Nat /\ l \in Nat /\ Len(s \o t) = m + l
      /\ \A k \in 1..m : (s \o t)[k] = s[k]
      /\ \A k \in 1..l : (s \o t)[m + k] = t[k]
  OBVIOUS
<1>2. ASSUME NEW k \in 1..(m + l)
      PROVE  (s \o t)[k] \in Elements(s) \cup Elements(t)
  <2>1. CASE k <= m
    BY <1>1, <2>1 DEF Elements
  <2>2. CASE ~(k <= m)
    <3>1. k - m \in 1..l /\ k = m + (k - m)
      BY <1>1, <2>2
    <3>2. (s \o t)[m + (k - m)] = t[k - m]
      BY <1>1, <3>1
    <3> QED
      BY <3>1, <3>2 DEF Elements
  <2> QED
    BY <2>1, <2>2
<1>3. ASSUME NEW k \in 1..m
      PROVE  k \in 1..(m + l) /\ (s \o t)[k] = s[k]
  BY <1>1
<1>4. ASSUME NEW k \in 1..l
      PROVE  m + k \in 1..(m + l) /\ (s \o t)[m + k] = t[k]
  BY <1>1
<1>5. Elements(s) \subseteq Elements(s \o t)
  BY <1>1, <1>3 DEF Elements
<1>6. Elements(t) \subseteq Elements(s \o t)
  BY <1>1, <1>4 DEF Elements
<1>7. Elements(s \o t) \subseteq Elements(s) \cup Elements(t)
  <2>1. ASSUME NEW e \in Elements(s \o t)
        PROVE  \E k \in 1..(m + l) : e = (s \o t)[k]
    BY <1>1 DEF Elements
  <2> QED
    BY <1>2, <2>1
<1> QED
  BY <1>5, <1>6, <1>7

(* What the lists that the sweeps pick from hold.                          *)
LEMMA Lists ==
  /\ Swept = {SweepModes[i] : i \in 1..6}
  /\ Single = {CommandModes[i] : i \in 1..3}
  /\ Len(SweepModes) = 6 /\ Len(CommandModes) = 3 /\ Len(OutEndpoints) = 5
  /\ Len(SweepCommands) = 7 /\ Len(MoreCommands) = 11 /\ Len(SweepArguments) = 6
  /\ \A i \in 1..5 : OutEndpoints[i] = i
  /\ \A i \in 1..7 : SweepCommands[i] = 15 + i
  /\ \A i \in 1..11 : MoreCommands[i] = 15 + i
  /\ {SweepArguments[i] : i \in 1..6} = {0, 1, 3, 7, 8, 15}
<1>1. /\ Len(SweepModes) = 6
      /\ SweepModes[1] = "frame20" /\ SweepModes[2] = "payload12"
      /\ SweepModes[3] = "frame_then_payload" /\ SweepModes[4] = "broadcast_frame20"
      /\ SweepModes[5] = "broadcast_payload12" /\ SweepModes[6] = "broadcast_frame_then_payload"
  BY DEF SweepModes
<1>2. /\ Len(CommandModes) = 3
      /\ CommandModes[1] = "frame20" /\ CommandModes[2] = "payload12"
      /\ CommandModes[3] = "frame_then_payload"
  BY DEF SweepModes, CommandModes
<1>3. /\ Len(SweepArguments) = 6
      /\ SweepArguments[1] = 15 /\ SweepArguments[2] = 1 /\ SweepArguments[3] = 3
      /\ SweepArguments[4] = 7 /\ SweepArguments[5] = 8 /\ SweepArguments[6] = 0
  BY DEF SweepArguments
<1>4. Len(OutEndpoints) = 5 /\ \A i \in 1..5 : OutEndpoints[i] = i
  BY DEF OutEndpoints
<1>5. Len(SweepCommands) = 7 /\ \A i \in 1..7 : SweepCommands[i] = 15 + i
  BY DEF SweepCommands
<1>6. Len(MoreCommands) = 11 /\ \A i \in 1..11 : MoreCommands[i] = 15 + i
  BY DEF MoreCommands, SweepCommands
<1>7. Swept = {SweepModes[i] : i \in 1..6}
  <2>1. Swept = {"frame20", "payload12", "frame_then_payload", "broadcast_frame20",
                 "broadcast_payload12", "broadcast_frame_then_payload"}
    BY DEF Swept, Modes, Payloads
  <2>2. {SweepModes[i] : i \in 1..6} =
          {SweepModes[1], SweepModes[2], SweepModes[3], SweepModes[4], SweepModes[5], SweepModes[6]}
    OBVIOUS
  <2> QED
    BY <1>1, <2>1, <2>2
<1>8. Single = {CommandModes[i] : i \in 1..3}
  <2>1. {CommandModes[i] : i \in 1..3} = {CommandModes[1], CommandModes[2], CommandModes[3]}
    OBVIOUS
  <2> QED
    BY <1>2, <2>1 DEF Single
<1>9. {SweepArguments[i] : i \in 1..6} = {0, 1, 3, 7, 8, 15}
  <2>1. {SweepArguments[i] : i \in 1..6} =
          {SweepArguments[1], SweepArguments[2], SweepArguments[3],
           SweepArguments[4], SweepArguments[5], SweepArguments[6]}
    OBVIOUS
  <2> QED
    BY <1>3, <2>1
<1> QED
  BY <1>1, <1>2, <1>3, <1>4, <1>5, <1>6, <1>7, <1>8, <1>9

(* The first sweep: every mode at every endpoint.                          *)
LEMMA SweepCovers ==
  ASSUME NEW c, IsProfile(c), NEW preface
  PROVE  Elements(Sweep(c, preface)) = With(c, Swept, 1..5, {preface}, {c.command}, {c.arg0})
<1> DEFINE P(m, e) == Variant(c, m, e, preface, c.command, c.arg0)
           s == Sweep(c, preface)
           All == {P(m, e) : m \in Swept, e \in 1..5}
<1>1. With(c, Swept, 1..5, {preface}, {c.command}, {c.arg0}) = All
  BY DEF With
<1>2. Len(s) = 30
  BY DEF Sweep
<1>3. ASSUME NEW i \in 0..5, NEW j \in 0..4
      PROVE  s[5 * i + j + 1] = P(SweepModes[i + 1], j + 1)
  <2> DEFINE k == 5 * i + j + 1
  <2>1. k \in 1..30 /\ (k - 1) \div 5 = i /\ i % 6 = i /\ (k - 1) % 5 = j
    OBVIOUS
  <2> HIDE DEF k
  <2>2. s[k] = P(Digit((k - 1) \div 5, SweepModes), Digit(k - 1, OutEndpoints))
    <3>1. s[k] = [c EXCEPT !.mode = Digit((k - 1) \div 5, SweepModes),
                          !.endpoint = Digit(k - 1, OutEndpoints), !.preface = preface]
      BY <2>1 DEF Sweep
    <3> QED
      BY <3>1 DEF IsProfile, Variant
  <2> QED
    BY <2>1, <2>2, Lists DEF Digit, k
<1> HIDE DEF s
<1>4. ASSUME NEW k \in 1..30
      PROVE  \E i \in 0..5, j \in 0..4 : k = 5 * i + j + 1
  <2>1. (k - 1) \div 5 \in 0..5 /\ (k - 1) % 5 \in 0..4
        /\ k = 5 * ((k - 1) \div 5) + ((k - 1) % 5) + 1
    OBVIOUS
  <2> QED
    BY <2>1
<1>5. ASSUME NEW k \in 1..30
      PROVE  s[k] \in All
  <2>1. PICK i \in 0..5, j \in 0..4 : k = 5 * i + j + 1
    BY <1>4
  <2>2. s[k] = P(SweepModes[i + 1], j + 1) /\ i + 1 \in 1..6 /\ j + 1 \in 1..5
    BY <1>3, <2>1
  <2> QED
    BY <2>2, Lists
<1>6. ASSUME NEW m \in Swept, NEW e \in 1..5
      PROVE  \E k \in 1..30 : s[k] = P(m, e)
  <2>1. PICK i \in 1..6 : m = SweepModes[i]
    BY Lists
  <2>2. i - 1 \in 0..5 /\ e - 1 \in 0..4 /\ (i - 1) + 1 = i /\ (e - 1) + 1 = e
        /\ 5 * (i - 1) + (e - 1) + 1 \in 1..30
    OBVIOUS
  <2>3. s[5 * (i - 1) + (e - 1) + 1] = P(SweepModes[(i - 1) + 1], (e - 1) + 1)
    BY <1>3, <2>2
  <2> QED
    BY <2>1, <2>2, <2>3
<1>7. Elements(s) = All
  <2>1. Elements(s) = {s[k] : k \in 1..30}
    BY <1>2 DEF Elements
  <2>2. ASSUME NEW x \in All
        PROVE  \E k \in 1..30 : s[k] = x
    <3>1. PICK m \in Swept, e \in 1..5 : x = P(m, e)
      OBVIOUS
    <3> QED
      BY <1>6, <3>1
  <2> HIDE DEF All
  <2> QED
    BY <1>5, <2>1, <2>2
<1> HIDE DEF All
<1> QED
  BY <1>1, <1>7 DEF s

(* The second: the modes of one payload or two, with every command.        *)
LEMMA CommandSweepCovers ==
  ASSUME NEW c, IsProfile(c), NEW off, off = FALSE
  PROVE  Elements(CommandSweep(c)) = With(c, Single, {1}, {off}, 16..22, {c.arg0})
<1> DEFINE P(m, d) == Variant(c, m, 1, off, d, c.arg0)
           s == CommandSweep(c)
           All == {P(m, d) : m \in Single, d \in 16..22}
<1>1. With(c, Single, {1}, {off}, 16..22, {c.arg0}) = All
  BY DEF With
<1>2. Len(s) = 21
  BY DEF CommandSweep
<1>3. ASSUME NEW i \in 0..6, NEW j \in 0..2
      PROVE  s[3 * i + j + 1] = P(CommandModes[j + 1], 16 + i)
  <2> DEFINE k == 3 * i + j + 1
  <2>1. k \in 1..21 /\ (k - 1) \div 3 = i /\ i % 7 = i /\ (k - 1) % 3 = j /\ i + 1 \in 1..7
    OBVIOUS
  <2> HIDE DEF k
  <2>2. s[k] = P(Digit(k - 1, CommandModes), Digit((k - 1) \div 3, SweepCommands))
    <3> DEFINE m == Digit(k - 1, CommandModes)
               e == 1
               d == Digit((k - 1) \div 3, SweepCommands)
    <3>1. s[k] = [c EXCEPT !.mode = m, !.endpoint = e, !.preface = off, !.command = d]
      BY <2>1 DEF CommandSweep
    <3> HIDE DEF m, e, d
    <3>2. s[k] = Variant(c, m, e, off, d, c.arg0)
      BY <3>1 DEF IsProfile, Variant
    <3> QED
      BY <3>2 DEF m, e, d
  <2>3. Digit((k - 1) \div 3, SweepCommands) = 16 + i
    BY <2>1, Lists DEF Digit
  <2> QED
    BY <2>1, <2>2, <2>3, Lists DEF Digit, k
<1> HIDE DEF s
<1>5. ASSUME NEW k \in 1..21
      PROVE  s[k] \in All
  <2> DEFINE i == (k - 1) \div 3
             j == (k - 1) % 3
  <2>1. i \in 0..6 /\ j \in 0..2 /\ k = 3 * i + j + 1
    OBVIOUS
  <2> HIDE DEF i, j
  <2>2. s[k] = P(CommandModes[j + 1], 16 + i) /\ j + 1 \in 1..3 /\ 16 + i \in 16..22
    BY <1>3, <2>1
  <2> QED
    BY <2>2, Lists
<1>6. ASSUME NEW m \in Single, NEW d \in 16..22
      PROVE  \E k \in 1..21 : s[k] = P(m, d)
  <2>1. PICK j \in 1..3 : m = CommandModes[j]
    BY Lists
  <2>2. d - 16 \in 0..6 /\ j - 1 \in 0..2 /\ (j - 1) + 1 = j /\ 16 + (d - 16) = d
        /\ 3 * (d - 16) + (j - 1) + 1 \in 1..21
    OBVIOUS
  <2>3. s[3 * (d - 16) + (j - 1) + 1] = P(CommandModes[(j - 1) + 1], 16 + (d - 16))
    BY <1>3, <2>2
  <2> QED
    BY <2>1, <2>2, <2>3
<1>7. Elements(s) = All
  <2>1. Elements(s) = {s[k] : k \in 1..21}
    BY <1>2 DEF Elements
  <2>2. ASSUME NEW x \in All
        PROVE  \E k \in 1..21 : s[k] = x
    <3>1. PICK m \in Single, d \in 16..22 : x = P(m, d)
      OBVIOUS
    <3> QED
      BY <1>6, <3>1
  <2> HIDE DEF All
  <2> QED
    BY <1>5, <2>1, <2>2
<1> HIDE DEF All
<1> QED
  BY <1>1, <1>7 DEF s

(* The third: with every argument as well, and more commands.              *)
LEMMA ExtendedSweepCovers ==
  ASSUME NEW c, IsProfile(c), NEW off, off = FALSE
  PROVE  Elements(ExtendedSweep(c)) = With(c, Single, {1}, {off}, 16..26, {0, 1, 3, 7, 8, 15})
<1> DEFINE P(m, d, a) == Variant(c, m, 1, off, d, a)
           s == ExtendedSweep(c)
           A == {0, 1, 3, 7, 8, 15}
           All == {P(m, d, a) : m \in Single, d \in 16..26, a \in A}
<1>1. With(c, Single, {1}, {off}, 16..26, A) = All
  BY DEF With
<1>2. Len(s) = 198
  BY DEF ExtendedSweep
<1>3. ASSUME NEW i \in 0..10, NEW h \in 0..5, NEW j \in 0..2
      PROVE  s[18 * i + 3 * h + j + 1] = P(CommandModes[j + 1], 16 + i, SweepArguments[h + 1])
  <2> DEFINE k == 18 * i + 3 * h + j + 1
  <2>1. /\ k \in 1..198 /\ (k - 1) \div 18 = i /\ i % 11 = i /\ (k - 1) % 3 = j /\ i + 1 \in 1..11
        /\ (k - 1) \div 3 = 6 * i + h /\ (6 * i + h) % 6 = h
    OBVIOUS
  <2> HIDE DEF k
  <2>2. s[k] = P(Digit(k - 1, CommandModes), Digit((k - 1) \div 18, MoreCommands),
                 Digit((k - 1) \div 3, SweepArguments))
    <3> DEFINE m == Digit(k - 1, CommandModes)
               e == 1
               d == Digit((k - 1) \div 18, MoreCommands)
               a == Digit((k - 1) \div 3, SweepArguments)
    <3>1. s[k] = [c EXCEPT !.mode = m, !.endpoint = e, !.preface = off, !.arg0 = a, !.command = d]
      BY <2>1 DEF ExtendedSweep
    <3> HIDE DEF m, e, d, a
    <3>2. s[k] = Variant(c, m, e, off, d, a)
      BY <3>1 DEF IsProfile, Variant
    <3> QED
      BY <3>2 DEF m, e, d, a
  <2>3. Digit((k - 1) \div 18, MoreCommands) = 16 + i
    BY <2>1, Lists DEF Digit
  <2>4. Digit((k - 1) \div 3, SweepArguments) = SweepArguments[h + 1]
    BY <2>1, Lists DEF Digit
  <2>5. Digit(k - 1, CommandModes) = CommandModes[j + 1]
    BY <2>1, Lists DEF Digit
  <2> QED
    BY <2>2, <2>3, <2>4, <2>5 DEF k
<1> HIDE DEF s, A
<1>5. ASSUME NEW k \in 1..198
      PROVE  s[k] \in All
  <2> DEFINE i == (k - 1) \div 18
             h == ((k - 1) \div 3) % 6
             j == (k - 1) % 3
  <2>1. i \in 0..10 /\ h \in 0..5 /\ j \in 0..2 /\ k = 18 * i + 3 * h + j + 1
    OBVIOUS
  <2> HIDE DEF i, j, h
  <2>2. /\ s[k] = P(CommandModes[j + 1], 16 + i, SweepArguments[h + 1])
        /\ j + 1 \in 1..3 /\ 16 + i \in 16..26 /\ h + 1 \in 1..6
    BY <1>3, <2>1
  <2>3. CommandModes[j + 1] \in Single /\ SweepArguments[h + 1] \in A
    BY <2>2, Lists DEF A
  <2> QED
    BY <2>2, <2>3
<1>6. ASSUME NEW m \in Single, NEW d \in 16..26, NEW a \in A
      PROVE  P(m, d, a) \in Elements(s)
  <2>1. PICK j \in 1..3 : m = CommandModes[j]
    BY Lists
  <2>2. PICK h \in 1..6 : a = SweepArguments[h]
    BY Lists DEF A
  <2> DEFINE k == 18 * (d - 16) + 3 * (h - 1) + (j - 1) + 1
  <2>3. /\ d - 16 \in 0..10 /\ j - 1 \in 0..2 /\ (j - 1) + 1 = j /\ 16 + (d - 16) = d
        /\ h - 1 \in 0..5 /\ (h - 1) + 1 = h /\ k \in 1..198
    OBVIOUS
  <2>4. s[k] = P(CommandModes[(j - 1) + 1], 16 + (d - 16), SweepArguments[(h - 1) + 1])
    BY <1>3, <2>3
  <2> HIDE DEF k
  <2>5. s[k] \in Elements(s)
    BY <1>2, <2>3 DEF Elements
  <2> QED
    BY <2>1, <2>2, <2>3, <2>4, <2>5
<1>7. Elements(s) = All
  <2>1. \A x \in All : x \in Elements(s)
    BY <1>6
  <2>2. Elements(s) = {s[k] : k \in 1..198}
    BY <1>2 DEF Elements
  <2> HIDE DEF All
  <2>3. \A x \in {s[k] : k \in 1..198} : x \in All
    BY <1>5
  <2> QED
    BY <2>1, <2>2, <2>3
<1> HIDE DEF All
<1> QED
  BY <1>1, <1>7 DEF s, A

(* With auto-cycle, the code proposes the configured profile, the priority *)
(* list and the sweeps, and nothing else.                                  *)
LEMMA ProposalsCover ==
  ASSUME NEW c, IsProfile(c), NEW more \in BOOLEAN
  PROVE  Elements(Proposals(c, TRUE, more)) =
           {c} \cup Elements(Priority(c)) \cup ModesSwept(c, {FALSE}) \cup ModesSwept(c, {TRUE})
           \cup CommandsSwept(c) \cup (IF more THEN ArgumentsSwept(c) ELSE {})
<1> DEFINE p == Priority(c)
           w0 == Sweep(c, FALSE)
           w1 == Sweep(c, TRUE)
           d == CommandSweep(c)
           a == ExtendedSweep(c)
           r == IF more THEN a ELSE <<>>
           S == {c} \cup Elements(p) \cup Elements(w0) \cup Elements(w1)
                \cup Elements(d) \cup Elements(a)
<1>1. ASSUME NEW m \in Nat, NEW s, s = [k \in 1..m |-> s[k]], Elements(s) \subseteq S
      PROVE  s \in Seq(S)
  <2>1. Len(s) = m
    BY <1>1
  <2>2. \A k \in 1..m : s[k] \in S
    BY <1>1, <2>1 DEF Elements
  <2> HIDE DEF S
  <2> QED
    BY <1>1, <2>2, FunctionIsSequence
<1>2. /\ p = [k \in 1..7 |-> p[k]] /\ w0 = [k \in 1..30 |-> w0[k]]
      /\ w1 = [k \in 1..30 |-> w1[k]] /\ d = [k \in 1..21 |-> d[k]]
      /\ a = [k \in 1..198 |-> a[k]]
  BY DEF Priority, Sweep, CommandSweep, ExtendedSweep
<1>3. <<c>> \in Seq(S) /\ Elements(<<c>>) = {c} /\ <<>> \in Seq(S) /\ Elements(<<>>) = {}
  BY DEF Elements
<1>4. Proposals(c, TRUE, more) = <<c>> \o (p \o w0 \o w1 \o d \o r)
  BY DEF Proposals
<1>5. Elements(w0) = ModesSwept(c, {FALSE}) /\ Elements(w1) = ModesSwept(c, {TRUE})
  BY SweepCovers DEF ModesSwept
<1>6. Elements(d) = CommandsSwept(c) /\ Elements(a) = ArgumentsSwept(c)
  <2>1. PICK off : off = FALSE
    OBVIOUS
  <2>2. /\ Elements(d) = With(c, Single, {1}, {off}, 16..22, {c.arg0})
        /\ Elements(a) = With(c, Single, {1}, {off}, 16..26, {0, 1, 3, 7, 8, 15})
    BY <2>1, CommandSweepCovers, ExtendedSweepCovers
  <2> QED
    BY <2>1, <2>2 DEF CommandsSwept, ArgumentsSwept
<1> HIDE DEF p, w0, w1, d, a
<1>7. p \in Seq(S) /\ w0 \in Seq(S) /\ w1 \in Seq(S) /\ d \in Seq(S) /\ a \in Seq(S)
  <2>1. /\ Elements(p) \subseteq S /\ Elements(w0) \subseteq S /\ Elements(w1) \subseteq S
        /\ Elements(d) \subseteq S /\ Elements(a) \subseteq S
    OBVIOUS
  <2> HIDE DEF S
  <2>2. 7 \in Nat /\ 30 \in Nat /\ 21 \in Nat /\ 198 \in Nat
    OBVIOUS
  <2>3. p \in Seq(S)
    BY <1>1, <1>2, <2>1, <2>2, Zenon
  <2>4. w0 \in Seq(S)
    BY <1>1, <1>2, <2>1, <2>2, Zenon
  <2>5. w1 \in Seq(S)
    BY <1>1, <1>2, <2>1, <2>2, Zenon
  <2>6. d \in Seq(S)
    BY <1>1, <1>2, <2>1, <2>2, Zenon
  <2>7. a \in Seq(S)
    BY <1>1, <1>2, <2>1, <2>2, Zenon
  <2> QED
    BY <2>3, <2>4, <2>5, <2>6, <2>7
<1> HIDE DEF S
<1>8. r \in Seq(S) /\ Elements(r) = IF more THEN Elements(a) ELSE {}
  BY <1>3, <1>7
<1> HIDE DEF r
<1>9. ASSUME NEW s \in Seq(S), NEW t \in Seq(S)
      PROVE  s \o t \in Seq(S) /\ Elements(s \o t) = Elements(s) \cup Elements(t)
  BY ConcatenationIsSequence, ElementsOfConcatenation
<1>10. p \o w0 \in Seq(S) /\ Elements(p \o w0) = Elements(p) \cup Elements(w0)
  BY <1>7, <1>9
<1>11. p \o w0 \o w1 \in Seq(S) /\ Elements(p \o w0 \o w1) = Elements(p \o w0) \cup Elements(w1)
  BY <1>7, <1>9, <1>10
<1>12. /\ p \o w0 \o w1 \o d \in Seq(S)
       /\ Elements(p \o w0 \o w1 \o d) = Elements(p \o w0 \o w1) \cup Elements(d)
  BY <1>7, <1>9, <1>11
<1>13. /\ p \o w0 \o w1 \o d \o r \in Seq(S)
       /\ Elements(p \o w0 \o w1 \o d \o r) = Elements(p \o w0 \o w1 \o d) \cup Elements(r)
  BY <1>8, <1>9, <1>12
<1>14. Elements(<<c>> \o (p \o w0 \o w1 \o d \o r)) = {c} \cup Elements(p \o w0 \o w1 \o d \o r)
  BY <1>3, <1>9, <1>13
<1>15. Elements(Proposals(c, TRUE, more)) =
         {c} \cup Elements(p) \cup Elements(w0) \cup Elements(w1) \cup Elements(d) \cup Elements(r)
  BY <1>4, <1>10, <1>11, <1>12, <1>13, <1>14
<1> QED
  BY <1>5, <1>6, <1>8, <1>15 DEF p

(* A rotation covers exactly the combinations the sweeps are meant to      *)
(* span: no pass of the loops skips one or adds one, and no duplicate      *)
(* pushes one out.                                                         *)
THEOREM RotationCovers == ListSpec => []SweepsComplete
<1>1. ASSUME IInv, Built, autoCycle
      PROVE  ToSet(profiles) =
               {configured} \cup ToSet(Priority(configured)) \cup ModesSwept(configured, BOOLEAN)
               \cup CommandsSwept(configured)
               \cup (IF extended THEN ArgumentsSwept(configured) ELSE {})
  <2> DEFINE c == configured
  <2>1. IsProfile(c) /\ extended \in BOOLEAN /\ autoCycle = TRUE
    BY <1>1, ConfiguredAssumption DEF IInv, ListTypeOK
  <2>2. profiles \in Seq(ToSet(proposals)) /\ Elements(profiles) = Elements(proposals)
    BY <1>1 DEF IInv, ListTypeOK, HoldsProposed, Built, Elements
  <2>3. ToSet(profiles) = Elements(profiles)
    BY <2>2 DEF ToSet, Elements
  <2>4. ToSet(Priority(c)) = Elements(Priority(c))
    BY DEF ToSet, Elements, Priority
  <2>5. proposals = Proposals(c, TRUE, extended)
    BY <2>1 DEF proposals
  <2>6. ModesSwept(c, BOOLEAN) = ModesSwept(c, {FALSE}) \cup ModesSwept(c, {TRUE})
    <3>1. BOOLEAN = {FALSE} \cup {TRUE}
      OBVIOUS
    <3>2. ASSUME NEW F, NEW G
          PROVE  ModesSwept(c, F \cup G) = ModesSwept(c, F) \cup ModesSwept(c, G)
      <4> DEFINE V(m, e, f) == Variant(c, m, e, f, c.command, c.arg0)
      <4>1. \A P : ModesSwept(c, P) = {V(m, e, f) : m \in Swept, e \in 1..5, f \in P}
        BY DEF ModesSwept, With
      <4> QED
        BY <4>1
    <3> QED
      BY <3>1, <3>2
  <2> HIDE DEF c
  <2>7. Elements(Proposals(c, TRUE, extended)) =
          {c} \cup Elements(Priority(c)) \cup ModesSwept(c, {FALSE}) \cup ModesSwept(c, {TRUE})
          \cup CommandsSwept(c) \cup (IF extended THEN ArgumentsSwept(c) ELSE {})
    BY <2>1, ProposalsCover
  <2>8. ToSet(profiles) =
          {c} \cup ToSet(Priority(c)) \cup ModesSwept(c, BOOLEAN)
          \cup CommandsSwept(c) \cup (IF extended THEN ArgumentsSwept(c) ELSE {})
    BY <2>2, <2>3, <2>4, <2>5, <2>6, <2>7
  <2> QED
    BY <2>8 DEF c
<1>2. IInv => SweepsComplete
  BY <1>1 DEF SweepsComplete
<1> QED
  BY <1>2, InductiveInvariant, PTL

==============================================================================
