-------------------------- MODULE StartCommandProofs --------------------------
(***************************************************************************)
(* Proofs about StartCommand, for all profiles the constructor lets        *)
(* through, with any repeat count and interval.                            *)
(***************************************************************************)
EXTENDS StartCommand, Integers, FiniteSetTheorems, SequenceTheorems, TLAPS

Space == [mode : Modes, endpoint : 1..15, preface : BOOLEAN,
          repeat : Nat \ {0}, interval : Nat]

(* The lengths of the two parts of the sequence of a profile.              *)
HeadOf(p) == IF p.preface THEN 2 ELSE 0
BodyOf(p) == Len(Targets(p)) * Len(PayloadsOf(p.mode))

Transfers == [ep : 1..15, payload : Payloads]

(* What step b of the body sends: the inner loop is over the payloads.     *)
Entry(p, b) ==
  LET m == Len(PayloadsOf(p.mode))
  IN  [ep |-> Targets(p)[((b - 1) \div m) + 1], payload |-> PayloadsOf(p.mode)[((b - 1) % m) + 1]]

(* The step that transfer k belongs to, and what it sends.                 *)
StepAt(p, k) ==
  IF k <= HeadOf(p) THEN k ELSE HeadOf(p) + 1 + ((k - HeadOf(p) - 1) \div p.repeat)

Planned(p, k) ==
  IF k <= HeadOf(p) THEN [ep |-> p.endpoint, payload |-> IF k = 1 THEN "header4" ELSE "header8"]
                    ELSE Entry(p, StepAt(p, k) - HeadOf(p))

Total(p) == HeadOf(p) + BodyOf(p) * p.repeat

------------------------------------------------------------------------------
(* The inductive invariant.                                                *)

(* The transfers before the current one: those of the steps that are done  *)
(* and the repetitions of this one.                                        *)
Before ==
  IF step <= HeadOf(profile) THEN step - 1
  ELSE HeadOf(profile) + (step - HeadOf(profile) - 1) * profile.repeat + (rep - 1)

Types ==
  /\ profile \in Space
  /\ active \in BOOLEAN
  /\ pc \in {"call", "transfer", "pause", "returned"}
  /\ step \in 1..(HeadOf(profile) + BodyOf(profile))
  /\ rep \in 1..(IF step <= HeadOf(profile) THEN 1 ELSE profile.repeat)
  /\ ok \in BOOLEAN
  /\ attempted \in Seq(Transfers)
  /\ failed \in Nat
  /\ pauses \in Nat

(* How far the sequence has got.                                           *)
Progress ==
  /\ pc = "call" => /\ step = 1 /\ rep = 1 /\ attempted = <<>> /\ failed = 0 /\ pauses = 0
  /\ pc \in {"transfer", "pause"} => active
  /\ pc = "transfer" => Len(attempted) = Before
  /\ pc = "pause" => Len(attempted) = Before + 1 /\ profile.interval > 0 /\ ~IsLast
  /\ pc = "returned" /\ active => Len(attempted) = Total(profile)

(* What was sent is what the plan of the profile says.                     *)
AsPlanned == \A k \in 1..Len(attempted) : attempted[k] = Planned(profile, k)

SetApart ==
  /\ profile.interval = 0 => pauses = 0
  /\ profile.interval > 0 =>
       /\ pc = "transfer" => pauses = Len(attempted)
       /\ pc = "pause" => pauses = Len(attempted) - 1
       /\ pc = "returned" /\ active => pauses = Len(attempted) - 1

Judged ==
  /\ pc \in {"transfer", "pause"} => (ok <=> failed = 0)
  /\ VerdictTrue

Origin == candidate > 0 => candidate \in 1..NumCandidates /\ profile = ProfileOf(ScanCandidate(candidate))

IInv == Types /\ Progress /\ AsPlanned /\ SetApart /\ Judged /\ Origin

------------------------------------------------------------------------------
(* The sequence of a profile.                                              *)

(* Dividing a whole number of rounds and a part of one.                    *)
LEMMA Rounds ==
  ASSUME NEW y \in Nat, NEW w \in Nat \ {0}, NEW x \in 0..(w - 1)
  PROVE  (y * w + x) \div w = y
<1>1. y * w + x \in Nat
  BY SMT
<1> DEFINE q == (y * w + x) \div w
<1>2. q \in Nat /\ q * w <= y * w + x /\ y * w + x < q * w + w
  BY <1>1, SMT
<1>3. (q + 1) * w = q * w + w /\ (y + 1) * w = y * w + w
  BY <1>2, SMT
<1>4. y < q + 1
  <2>1. y * w < (q + 1) * w
    BY <1>2, <1>3, SMT
  <2> QED  BY <2>1, <1>2, SMT
<1>5. q < y + 1
  <2>1. q * w < (y + 1) * w
    BY <1>2, <1>3, SMT
  <2> QED  BY <2>1, <1>2, SMT
<1> QED  BY <1>2, <1>4, <1>5, SMT

LEMMA Division ==
  ASSUME NEW a \in Nat, NEW b \in Nat \ {0}
  PROVE  /\ a \div b \in Nat
         /\ (a \div b) * b <= a
         /\ a < (a \div b) * b + b
  BY SMT

(* The endpoints a profile sends to: the primary one first, none twice,    *)
(* and in a broadcast all five.                                            *)
LEMMA TargetsOf ==
  ASSUME NEW p \in Space
  PROVE  /\ Targets(p) \in Seq(1..15)
         /\ Len(Targets(p)) \in 1..6
         /\ Targets(p)[1] = p.endpoint
         /\ \A i, j \in 1..Len(Targets(p)) : Targets(p)[i] = Targets(p)[j] => i = j
         /\ \A e : (\E i \in 1..Len(Targets(p)) : Targets(p)[i] = e)
                     <=> e \in {p.endpoint} \cup (IF IsBroadcast(p.mode) THEN 1..5 ELSE {})
<1> DEFINE E == p.endpoint
<1>0. E \in 1..15
  BY DEF Space
<1>1. CASE ~IsBroadcast(p.mode)
  BY <1>0, <1>1 DEF Targets
<1>2. CASE IsBroadcast(p.mode) /\ E \in 1..5
  <2>1. Targets(p) = <<E>> \o [k \in 1..4 |-> IF k < E THEN k ELSE k + 1]
    BY <1>2 DEF Targets, BroadcastOrder, Others
  <2>2. /\ [k \in 1..4 |-> IF k < E THEN k ELSE k + 1] \in Seq(1..15)
        /\ Len([k \in 1..4 |-> IF k < E THEN k ELSE k + 1]) = 4
    BY <1>0
  <2>3. <<E>> \in Seq(1..15) /\ Len(<<E>>) = 1
    BY <1>0
  <2>4. /\ Targets(p) \in Seq(1..15)
        /\ Len(Targets(p)) = 5
        /\ \A i \in 1..5 : Targets(p)[i] = IF i = 1 THEN E ELSE IF i - 1 < E THEN i - 1 ELSE i
    BY <2>1, <2>2, <2>3, <1>0
  <2> HIDE DEF E
  <2>5. \A i, j \in 1..5 : Targets(p)[i] = Targets(p)[j] => i = j
    BY <2>4, <1>0
  <2>6. \A e : (\E i \in 1..5 : Targets(p)[i] = e) <=> e \in 1..5
    <3>1. \A i \in 1..5 : Targets(p)[i] \in 1..5
      BY <2>4, <1>2
    <3>2. ASSUME NEW e \in 1..5 PROVE \E i \in 1..5 : Targets(p)[i] = e
      <4>1. CASE e = E
        BY <4>1, <2>4
      <4>2. CASE e < E
        <5>1. e + 1 \in 1..5 /\ Targets(p)[e + 1] = e
          BY <4>2, <2>4, <1>2
        <5> QED  BY <5>1
      <4>3. CASE e > E
        BY <4>3, <2>4, <1>2
      <4> QED  BY <4>1, <4>2, <4>3, <1>0
    <3> QED  BY <3>1, <3>2
  <2>7. {E} \cup 1..5 = 1..5
    BY <1>2
  <2> QED  BY <2>4, <2>5, <2>6, <2>7, <1>2 DEF E
<1>3. CASE IsBroadcast(p.mode) /\ E \notin 1..5
  <2>1. Targets(p) = <<E>> \o <<1, 2, 3, 4, 5>>
    BY <1>3 DEF Targets, BroadcastOrder, Others, OutEndpoints
  <2>2. <<1, 2, 3, 4, 5>> \in Seq(1..15) /\ Len(<<1, 2, 3, 4, 5>>) = 5
    OBVIOUS
  <2>3. <<E>> \in Seq(1..15) /\ Len(<<E>>) = 1
    BY <1>0
  <2>4. /\ Targets(p) \in Seq(1..15)
        /\ Len(Targets(p)) = 6
        /\ \A i \in 1..6 : Targets(p)[i] = IF i = 1 THEN E ELSE i - 1
    BY <2>1, <2>2, <2>3, <1>0
  <2> HIDE DEF E
  <2>5. \A i, j \in 1..6 : Targets(p)[i] = Targets(p)[j] => i = j
    BY <2>4, <1>0, <1>3
  <2>6. \A e : (\E i \in 1..6 : Targets(p)[i] = e) <=> e \in {E} \cup 1..5
    <3>1. \A i \in 1..6 : Targets(p)[i] \in {E} \cup 1..5
      BY <2>4, <1>3
    <3>2. ASSUME NEW e \in 1..5 PROVE \E i \in 1..6 : Targets(p)[i] = e
      <4>1. e + 1 \in 1..6 /\ Targets(p)[e + 1] = e
        BY <2>4
      <4> QED  BY <4>1
    <3> QED  BY <3>1, <3>2, <2>4
  <2> QED  BY <2>4, <2>5, <2>6, <1>3 DEF E
<1> QED  BY <1>1, <1>2, <1>3

(* The payloads of a mode: one or two, and never the same one twice.       *)
LEMMA PayloadsOfMode ==
  ASSUME NEW m \in Modes
  PROVE  /\ PayloadsOf(m) \in Seq(Payloads)
         /\ Len(PayloadsOf(m)) \in {1, 2}
         /\ \A i, j \in 1..Len(PayloadsOf(m)) : PayloadsOf(m)[i] = PayloadsOf(m)[j] => i = j
<1>1. CASE m \in Payloads
  <2>1. PayloadsOf(m) = <<m>>
    BY <1>1 DEF PayloadsOf, Payloads
  <2> QED  BY <2>1, <1>1
<1>2. CASE m \in {"frame_then_payload", "broadcast_frame_then_payload"}
  <2>1. PayloadsOf(m) = <<"frame20", "payload12">>
    BY <1>2 DEF PayloadsOf, Payloads
  <2> QED  BY <2>1 DEF Payloads
<1>3. CASE m = "broadcast_frame20"
  <2>1. PayloadsOf(m) = <<"frame20">>
    BY <1>3 DEF PayloadsOf, Payloads
  <2> QED  BY <2>1 DEF Payloads
<1>4. CASE m = "broadcast_payload12"
  <2>1. PayloadsOf(m) = <<"payload12">>
    BY <1>4 DEF PayloadsOf, Payloads
  <2> QED  BY <2>1 DEF Payloads
<1> QED  BY <1>1, <1>2, <1>3, <1>4 DEF Modes

(* The body sends each payload to each target once.                        *)
LEMMA BodyShape ==
  ASSUME NEW p \in Space
  PROVE  /\ BodyOf(p) \in Nat \ {0}
         /\ \A b \in 1..BodyOf(p) : Entry(p, b) \in Transfers
         /\ Entry(p, 1).ep = p.endpoint
         /\ \A b, c \in 1..BodyOf(p) : Entry(p, b) = Entry(p, c) => b = c
         /\ \A x \in 1..Len(Targets(p)), y \in 1..Len(PayloadsOf(p.mode)) :
              \E b \in 1..BodyOf(p) : Entry(p, b) = [ep |-> Targets(p)[x], payload |-> PayloadsOf(p.mode)[y]]
<1> DEFINE n == Len(Targets(p))
           m == Len(PayloadsOf(p.mode))
           i(b) == ((b - 1) \div m) + 1
           j(b) == ((b - 1) % m) + 1
<1>1. n \in 1..6 /\ m \in {1, 2}
  BY TargetsOf, PayloadsOfMode DEF Space
<1>2. BodyOf(p) = n * m
  BY DEF BodyOf
<1>3. \A b : Entry(p, b) = [ep |-> Targets(p)[i(b)], payload |-> PayloadsOf(p.mode)[j(b)]]
  BY DEF Entry
<1>4. \A b \in 1..BodyOf(p) : i(b) \in 1..n /\ j(b) \in 1..m
  <2> HIDE DEF n
  <2>1. CASE m = 1
    BY <1>1, <1>2, <2>1
  <2>2. CASE m = 2
    BY <1>1, <1>2, <2>2
  <2> QED  BY <1>1, <2>1, <2>2
<1>5. \A b, c \in 1..BodyOf(p) : i(b) = i(c) /\ j(b) = j(c) => b = c
  <2> HIDE DEF n
  <2>1. CASE m = 1
    BY <1>1, <1>2, <2>1
  <2>2. CASE m = 2
    BY <1>1, <1>2, <2>2
  <2> QED  BY <1>1, <2>1, <2>2
<1>6. \A x \in 1..n, y \in 1..m : (x - 1) * m + y \in 1..BodyOf(p) /\ i((x - 1) * m + y) = x /\ j((x - 1) * m + y) = y
  <2> HIDE DEF n
  <2>1. CASE m = 1
    BY <1>1, <1>2, <2>1
  <2>2. CASE m = 2
    BY <1>1, <1>2, <2>2
  <2> QED  BY <1>1, <2>1, <2>2
<1>7. BodyOf(p) \in Nat \ {0} /\ i(1) = 1
  <2> HIDE DEF n
  <2>1. CASE m = 1
    BY <1>1, <1>2, <2>1
  <2>2. CASE m = 2
    BY <1>1, <1>2, <2>2
  <2> QED  BY <1>1, <2>1, <2>2
<1>8. /\ Targets(p) \in Seq(1..15)
      /\ Targets(p)[1] = p.endpoint
      /\ \A x, y \in 1..n : Targets(p)[x] = Targets(p)[y] => x = y
      /\ PayloadsOf(p.mode) \in Seq(Payloads)
      /\ \A x, y \in 1..m : PayloadsOf(p.mode)[x] = PayloadsOf(p.mode)[y] => x = y
  BY TargetsOf, PayloadsOfMode DEF Space
<1> HIDE DEF i, j
<1>9. \A b \in 1..BodyOf(p) : Entry(p, b) \in Transfers
  <2> TAKE b \in 1..BodyOf(p)
  <2>1. Targets(p)[i(b)] \in 1..15 /\ PayloadsOf(p.mode)[j(b)] \in Payloads
    BY <1>4, <1>8, ElementOfSeq
  <2> QED  BY <2>1, <1>3 DEF Transfers
<1>10. \A b, c \in 1..BodyOf(p) : Entry(p, b) = Entry(p, c) => b = c
  <2> TAKE b, c \in 1..BodyOf(p)
  <2> HAVE Entry(p, b) = Entry(p, c)
  <2>1. Targets(p)[i(b)] = Targets(p)[i(c)] /\ PayloadsOf(p.mode)[j(b)] = PayloadsOf(p.mode)[j(c)]
    BY <1>3
  <2>2. i(b) = i(c) /\ j(b) = j(c)
    BY <2>1, <1>4, <1>8
  <2> QED  BY <2>2, <1>5
<1>11. \A x \in 1..n, y \in 1..m :
         \E b \in 1..BodyOf(p) : Entry(p, b) = [ep |-> Targets(p)[x], payload |-> PayloadsOf(p.mode)[y]]
  <2> TAKE x \in 1..n, y \in 1..m
  <2> DEFINE b == (x - 1) * m + y
  <2>1. b \in 1..BodyOf(p) /\ i(b) = x /\ j(b) = y
    BY <1>6
  <2> HIDE DEF b, n, m
  <2>2. Entry(p, b) = [ep |-> Targets(p)[x], payload |-> PayloadsOf(p.mode)[y]]
    BY <1>3, <2>1
  <2> QED  BY <2>1, <2>2
<1>12. Entry(p, 1).ep = p.endpoint
  BY <1>3, <1>7, <1>8
<1> QED  BY <1>7, <1>9, <1>10, <1>11, <1>12

(* The preface, if the profile wants one, and then the body.               *)
LEMMA SequenceShape ==
  ASSUME NEW p \in Space
  PROVE  /\ Len(DriverSequence(p)) = HeadOf(p) + BodyOf(p)
         /\ DriverSequence(p) # <<>>
         /\ \A k \in 1..HeadOf(p) :
              DriverSequence(p)[k] = Step(p.endpoint, IF k = 1 THEN "header4" ELSE "header8", 1)
         /\ \A b \in 1..BodyOf(p) :
              DriverSequence(p)[HeadOf(p) + b] = Step(Entry(p, b).ep, Entry(p, b).payload, p.repeat)
<1> DEFINE S == [ep : 1..15, payload : Payloads, repeat : Nat]
           pre == Preface(p.endpoint, p.preface)
           body == Body(Targets(p), PayloadsOf(p.mode), p.repeat)
           x(b) == [ep |-> Entry(p, b).ep, payload |-> Entry(p, b).payload, repeat |-> p.repeat]
<1>1. p.endpoint \in 1..15 /\ p.repeat \in Nat /\ p.preface \in BOOLEAN
  BY DEF Space
<1>2. BodyOf(p) \in Nat \ {0} /\ (\A b \in 1..BodyOf(p) : Entry(p, b) \in Transfers)
  BY BodyShape
<1>3. body = [b \in 1..BodyOf(p) |-> x(b)]
  BY DEF Body, BodyOf, Step, Entry
<1>4. \A b \in 1..BodyOf(p) : x(b) \in S
  BY <1>1, <1>2 DEF Transfers
<1> HIDE DEF x
<1>5. body \in Seq(S) /\ Len(body) = BodyOf(p) /\ (\A b \in 1..BodyOf(p) : body[b] = x(b))
  <2> HIDE DEF S, body
  <2>1. body \in [1..BodyOf(p) -> S]
    BY <1>3, <1>4
  <2>2. body \in Seq(S)
    BY <2>1, <1>2, SeqDef
  <2>3. DOMAIN body = 1..Len(body)
    BY <2>2, LenProperties
  <2>4. Len(body) = BodyOf(p)
    BY <2>1, <2>2, <1>2
  <2> QED  BY <2>2, <2>4, <1>3
<1>6. /\ pre \in Seq(S)
      /\ Len(pre) = HeadOf(p)
      /\ \A k \in 1..HeadOf(p) : pre[k] = Step(p.endpoint, IF k = 1 THEN "header4" ELSE "header8", 1)
  <2>1. CASE p.preface
    <3> DEFINE a == Step(p.endpoint, "header4", 1)
               b == Step(p.endpoint, "header8", 1)
    <3>1. a \in S /\ b \in S
      BY <1>1 DEF Step, Payloads
    <3>2. pre = <<a, b>> /\ HeadOf(p) = 2
      BY <2>1 DEF Preface, HeadOf
    <3>3. \A k \in 1..2 : Step(p.endpoint, IF k = 1 THEN "header4" ELSE "header8", 1) = IF k = 1 THEN a ELSE b
      OBVIOUS
    <3> HIDE DEF a, b, S, pre
    <3> QED  BY <3>1, <3>2, <3>3
  <2>2. CASE ~p.preface
    <3>1. pre = <<>> /\ HeadOf(p) = 0
      BY <2>2 DEF Preface, HeadOf
    <3> HIDE DEF S, pre
    <3> QED  BY <3>1
  <2> QED  BY <2>1, <2>2
<1>7. DriverSequence(p) = pre \o body
  BY DEF DriverSequence
<1>8. HeadOf(p) \in Nat
  BY DEF HeadOf
<1> HIDE DEF S, pre, body
<1>9. /\ Len(DriverSequence(p)) = HeadOf(p) + BodyOf(p)
      /\ \A k \in 1..(HeadOf(p) + BodyOf(p)) :
           DriverSequence(p)[k] = IF k <= HeadOf(p) THEN pre[k] ELSE body[k - HeadOf(p)]
  <2>1. pre \in Seq(S) /\ body \in Seq(S) /\ Len(pre) = HeadOf(p) /\ Len(body) = BodyOf(p)
    BY <1>5, <1>6
  <2>2. /\ Len(pre \o body) = Len(pre) + Len(body)
        /\ \A k \in 1..(Len(pre) + Len(body)) :
             (pre \o body)[k] = IF k <= Len(pre) THEN pre[k] ELSE body[k - Len(pre)]
    BY <2>1, ConcatProperties
  <2> QED  BY <2>1, <2>2, <1>7
<1>10. DriverSequence(p) # <<>>
  BY <1>9, <1>2, <1>8
<1>11. \A k \in 1..HeadOf(p) : DriverSequence(p)[k] = pre[k]
  BY <1>9, <1>2, <1>8
<1>12. ASSUME NEW b \in 1..BodyOf(p)
       PROVE  DriverSequence(p)[HeadOf(p) + b] = body[b]
  <2>1. HeadOf(p) + b \in 1..(HeadOf(p) + BodyOf(p)) /\ ~(HeadOf(p) + b <= HeadOf(p)) /\ (HeadOf(p) + b) - HeadOf(p) = b
    BY <1>2, <1>8
  <2> QED  BY <2>1, <1>9
<1> QED  BY <1>5, <1>6, <1>9, <1>10, <1>11, <1>12 DEF x, Step

(* Step s repeats what it sends; the passes of one step lie side by side.  *)
LEMMA PassesOfStep ==
  ASSUME NEW p \in Space, NEW s \in 1..(HeadOf(p) + BodyOf(p)),
         NEW r \in 1..(IF s <= HeadOf(p) THEN 1 ELSE p.repeat)
  PROVE  LET before == IF s <= HeadOf(p) THEN s - 1
                       ELSE HeadOf(p) + (s - HeadOf(p) - 1) * p.repeat + (r - 1)
         IN  /\ before \in Nat
             /\ StepAt(p, before + 1) = s
             /\ DriverSequence(p)[s].repeat = IF s <= HeadOf(p) THEN 1 ELSE p.repeat
             /\ Planned(p, before + 1) = [ep |-> DriverSequence(p)[s].ep, payload |-> DriverSequence(p)[s].payload]
             /\ Planned(p, before + 1) \in Transfers
<1> DEFINE h == HeadOf(p)
           q == s - h - 1
<1>1. p.endpoint \in 1..15 /\ p.repeat \in Nat \ {0} /\ h \in {0, 2}
  BY DEF Space, HeadOf
<1>2. BodyOf(p) \in Nat \ {0}
  BY BodyShape
<1>3. CASE s <= h
  <2>1. StepAt(p, s) = s /\ (s - 1) + 1 = s /\ s - 1 \in Nat /\ s \in 1..h
    BY <1>1, <1>2, <1>3 DEF StepAt
  <2>2. DriverSequence(p)[s] = Step(p.endpoint, IF s = 1 THEN "header4" ELSE "header8", 1)
    BY <2>1, SequenceShape
  <2>3. Planned(p, s) = [ep |-> p.endpoint, payload |-> IF s = 1 THEN "header4" ELSE "header8"]
    BY <1>3 DEF Planned
  <2> QED  BY <1>1, <1>3, <2>1, <2>2, <2>3 DEF Step, Transfers, Payloads
<1>4. CASE ~(s <= h)
  <2> DEFINE z == q * p.repeat
             b == h + z + (r - 1)
  <2>1. q \in Nat /\ r - 1 \in 0..(p.repeat - 1) /\ s - h \in 1..BodyOf(p)
    BY <1>1, <1>2, <1>4
  <2>2. z \in Nat /\ ((z + (r - 1)) \div p.repeat) = q
    <3> HIDE DEF q
    <3>1. z \in Nat
      BY <1>1, <2>1
    <3> QED  BY <3>1, <2>1, <1>1, Rounds
  <2>3. b \in Nat /\ (b + 1) - h - 1 = z + (r - 1) /\ ~(b + 1 <= h)
    <3> HIDE DEF q, z
    <3> QED  BY <2>1, <2>2, <1>1
  <2>4. StepAt(p, b + 1) = s
    <3>1. StepAt(p, b + 1) = h + 1 + q
      <4> HIDE DEF b, q, z
      <4> QED  BY <2>2, <2>3 DEF StepAt
    <3> QED  BY <3>1, <1>1
  <2>5. Planned(p, b + 1) = Entry(p, s - h)
    <3> HIDE DEF b
    <3> QED  BY <2>3, <2>4 DEF Planned
  <2>6. h + (s - h) = s
    BY <1>1
  <2>7. DriverSequence(p)[s] = Step(Entry(p, s - h).ep, Entry(p, s - h).payload, p.repeat)
    BY <2>1, <2>6, SequenceShape
  <2>8. Entry(p, s - h) \in Transfers
    BY <2>1, BodyShape
  <2>9. [ep |-> Entry(p, s - h).ep, payload |-> Entry(p, s - h).payload] = Entry(p, s - h)
    BY <2>8 DEF Transfers
  <2> HIDE DEF h
  <2>10. /\ b \in Nat
         /\ StepAt(p, b + 1) = s
         /\ DriverSequence(p)[s].repeat = p.repeat
         /\ Planned(p, b + 1) = [ep |-> DriverSequence(p)[s].ep, payload |-> DriverSequence(p)[s].payload]
         /\ Planned(p, b + 1) \in Transfers
    <3> HIDE DEF b
    <3> QED  BY <2>3, <2>4, <2>5, <2>7, <2>8, <2>9 DEF Step
  <2> QED  BY <1>4, <2>10 DEF h
<1> QED  BY <1>3, <1>4

(* The candidates of the scan are profiles the driver accepts.             *)
LEMMA CandidatesFit ==
  ASSUME NEW n \in 1..NumCandidates
  PROVE  /\ ProfileOf(ScanCandidate(n)) \in Space
         /\ ScanCandidate(n).template \in {Templates[k] : k \in 1..8}
         /\ ScanCandidate(n).endpoint \in 1..5
<1>1. n - 1 \in Nat
  BY NumCandidatesAssumption DEF NumScanCandidates, ScanCommands, ScanArguments, OutEndpoints, Templates
<1>2. ScanCandidate(n).template \in {Templates[k] : k \in 1..8}
  <2>1. ScanCandidate(n).template = Templates[((n - 1) % 8) + 1]
    BY DEF ScanCandidate, Digit, Templates
  <2>2. ((n - 1) % 8) + 1 \in 1..8
    BY <1>1
  <2> QED  BY <2>1, <2>2
<1>3. ScanCandidate(n).endpoint \in 1..5
  <2>1. ScanCandidate(n).endpoint = OutEndpoints[(((n - 1) \div 8) % 5) + 1]
    BY DEF ScanCandidate, Digit, Templates, OutEndpoints
  <2>2. (((n - 1) \div 8) % 5) + 1 \in 1..5
    BY <1>1
  <2> QED  BY <2>1, <2>2 DEF OutEndpoints
<1>4. \A k \in 1..8 : TemplateMode(Templates[k]) \in Modes
  BY DEF Templates, TemplateMode, Modes, Payloads
<1>5. \A t : HasPreface(t) \in BOOLEAN
  BY DEF HasPreface
<1> QED  BY <1>2, <1>3, <1>4, <1>5 DEF ProfileOf, Space

LEMMA Initially == Init => IInv
<1> SUFFICES ASSUME Init PROVE IInv
  OBVIOUS
<1>1. profile \in Space /\ Origin
  <2>1. CASE candidate = 0 /\ profile \in Profiles
    BY <2>1, ProfilesAssumption DEF Space, Origin
  <2>2. CASE candidate \in 1..NumCandidates /\ profile = ProfileOf(ScanCandidate(candidate))
    BY <2>2, CandidatesFit DEF Origin
  <2> QED  BY <2>1, <2>2 DEF Init
<1>2. HeadOf(profile) \in {0, 2} /\ BodyOf(profile) \in Nat \ {0} /\ profile.repeat \in Nat \ {0}
  BY <1>1, BodyShape DEF HeadOf, Space
<1>3. Types
  <2>1. attempted \in Seq(Transfers)
    BY EmptySeq DEF Init
  <2>2. step \in 1..(HeadOf(profile) + BodyOf(profile))
    BY <1>2 DEF Init
  <2>3. rep \in 1..(IF step <= HeadOf(profile) THEN 1 ELSE profile.repeat)
    BY <1>2 DEF Init
  <2> QED  BY <1>1, <2>1, <2>2, <2>3 DEF Init, Types
<1>4. Progress /\ AsPlanned /\ SetApart /\ Judged
  BY DEF Init, Progress, AsPlanned, SetApart, Judged, VerdictTrue
<1> QED  BY <1>1, <1>3, <1>4 DEF IInv

(* What the loops know of the sequence of the profile.                     *)
LEMMA AboutSteps ==
  ASSUME Types
  PROVE  /\ HeadOf(profile) \in {0, 2}
         /\ BodyOf(profile) \in Nat \ {0}
         /\ profile.repeat \in Nat \ {0}
         /\ profile.interval \in Nat
         /\ Len(steps) = HeadOf(profile) + BodyOf(profile)
         /\ steps # <<>>
         /\ steps[step].repeat = IF step <= HeadOf(profile) THEN 1 ELSE profile.repeat
         /\ Before \in Nat
         /\ Planned(profile, Before + 1) = [ep |-> steps[step].ep, payload |-> steps[step].payload]
         /\ Planned(profile, Before + 1) \in Transfers
<1>1. profile \in Space /\ step \in 1..(HeadOf(profile) + BodyOf(profile))
      /\ rep \in 1..(IF step <= HeadOf(profile) THEN 1 ELSE profile.repeat)
  BY DEF Types
<1>2. /\ HeadOf(profile) \in {0, 2} /\ BodyOf(profile) \in Nat \ {0}
      /\ profile.repeat \in Nat \ {0} /\ profile.interval \in Nat
  BY <1>1, BodyShape DEF HeadOf, Space
<1>3. Len(steps) = HeadOf(profile) + BodyOf(profile) /\ steps # <<>>
  BY <1>1, SequenceShape DEF steps
<1> QED  BY <1>1, <1>2, <1>3, PassesOfStep DEF steps, Before

(* The next pass of the loops is the next transfer of the plan.            *)
LEMMA AdvanceByOne ==
  ASSUME Types, ~IsLast, Advance, UNCHANGED profile
  PROVE  /\ step' \in 1..(HeadOf(profile) + BodyOf(profile))
         /\ rep' \in 1..(IF step' <= HeadOf(profile) THEN 1 ELSE profile.repeat)
         /\ Before' = Before + 1
<1> DEFINE h == HeadOf(profile)
           R == profile.repeat
           Prod(q) == q * R
<1>1. /\ h \in {0, 2} /\ BodyOf(profile) \in Nat \ {0} /\ R \in Nat \ {0}
      /\ Len(steps) = h + BodyOf(profile)
      /\ steps[step].repeat = IF step <= h THEN 1 ELSE R
  BY AboutSteps
<1>2. step \in 1..(h + BodyOf(profile)) /\ rep \in 1..(IF step <= h THEN 1 ELSE R)
  BY DEF Types
<1>3. Before' = IF step' <= h THEN step' - 1 ELSE h + Prod(step' - h - 1) + (rep' - 1)
  BY DEF Before
<1>4. Before = IF step <= h THEN step - 1 ELSE h + Prod(step - h - 1) + (rep - 1)
  BY DEF Before
<1>5. CASE rep < steps[step].repeat
  <2>1. rep' = rep + 1 /\ step' = step /\ ~(step <= h)
    BY <1>1, <1>2, <1>5 DEF Advance
  <2>2. Prod(step - h - 1) \in Int
    BY <1>1, <1>2
  <2>3. h \in Nat /\ R \in Nat /\ rep < R
    BY <1>1, <1>5, <2>1
  <2>4. step' \in 1..(h + BodyOf(profile)) /\ rep' \in 1..(IF step' <= h THEN 1 ELSE R)
    BY <1>2, <2>1, <2>3
  <2> HIDE DEF h, R, Prod
  <2>5. Before' = h + Prod(step - h - 1) + rep /\ Before = h + Prod(step - h - 1) + (rep - 1)
    BY <1>2, <1>3, <1>4, <2>1, <2>2, <2>3
  <2>6. Before' = Before + 1
    BY <1>2, <2>2, <2>3, <2>5
  <2> QED  BY <2>4, <2>6 DEF h, R
<1>6. CASE ~(rep < steps[step].repeat)
  <2>1. rep' = 1 /\ step' = step + 1 /\ rep = steps[step].repeat /\ step < h + BodyOf(profile)
    BY <1>1, <1>2, <1>6 DEF Advance, IsLast
  <2> HIDE DEF h, R
  <2>2. step' \in 1..(h + BodyOf(profile)) /\ rep' \in 1..(IF step' <= h THEN 1 ELSE R)
    BY <1>1, <1>2, <2>1
  <2>3. CASE step < h
    <3> HIDE DEF Prod
    <3> QED  BY <2>1, <2>3, <1>1, <1>2, <1>3, <1>4 DEF h, R
  <2>4. CASE step = h
    <3>1. Prod(step' - h - 1) = 0
      BY <2>1, <2>4, <1>1
    <3> HIDE DEF Prod
    <3>2. Before' = h
      <4>1. ~(step' <= h) /\ rep' - 1 = 0
        BY <2>1, <2>4, <1>1
      <4> QED  BY <3>1, <4>1, <1>1, <1>3
    <3>3. Before = h - 1
      BY <2>4, <1>1, <1>4
    <3> QED  BY <3>2, <3>3, <2>2, <1>1 DEF h, R
  <2>5. CASE step > h
    <3>1. rep = R
      BY <2>1, <2>5, <1>1, <1>2
    <3>2. step - h - 1 \in Nat /\ step' - h - 1 = (step - h - 1) + 1
      BY <2>1, <2>5, <1>1, <1>2
    <3>3. \A q \in Nat : Prod(q + 1) = Prod(q) + R /\ Prod(q) \in Nat
      BY <1>1
    <3>4. Prod(step' - h - 1) = Prod(step - h - 1) + R /\ Prod(step - h - 1) \in Nat
      BY <3>2, <3>3
    <3>5. h \in Nat /\ R \in Nat
      BY <1>1
    <3> HIDE DEF Prod
    <3>6. Before' = h + Prod(step' - h - 1)
      <4>1. ~(step' <= h) /\ rep' - 1 = 0
        BY <2>1, <2>5, <1>2, <3>5
      <4> QED  BY <1>3, <4>1, <3>4, <3>5
    <3>7. Before = h + Prod(step - h - 1) + (R - 1)
      BY <1>4, <2>5, <1>2, <3>1, <3>5
    <3>8. Before' = Before + 1
      BY <3>4, <3>5, <3>6, <3>7
    <3> QED  BY <3>8, <2>2 DEF h, R
  <2> QED  BY <1>1, <1>2, <2>2, <2>3, <2>4, <2>5 DEF h, R
<1> QED  BY <1>5, <1>6

(* The last pass is the last transfer of the plan.                         *)
LEMMA LastOfPlan ==
  ASSUME Types, IsLast
  PROVE  Before + 1 = Total(profile)
<1> DEFINE h == HeadOf(profile)
           R == profile.repeat
           B == BodyOf(profile)
           Prod(q) == q * R
<1>1. /\ h \in {0, 2} /\ B \in Nat \ {0} /\ R \in Nat \ {0}
      /\ Len(steps) = h + B
      /\ steps[step].repeat = IF step <= h THEN 1 ELSE R
  BY AboutSteps
<1>2. step = h + B /\ rep = R
  BY <1>1 DEF IsLast
<1>3. Before = h + Prod(step - h - 1) + (R - 1)
  BY <1>1, <1>2 DEF Before
<1>4. Total(profile) = h + Prod(B)
  BY DEF Total
<1> HIDE DEF h, R, B
<1>5. step - h - 1 = B - 1 /\ B - 1 \in Nat
  BY <1>1, <1>2
<1>6. \A q \in Nat : Prod(q + 1) = Prod(q) + R /\ Prod(q) \in Nat
  BY <1>1
<1>7. Prod((B - 1) + 1) = Prod(B - 1) + R /\ Prod(B - 1) \in Nat /\ (B - 1) + 1 = B
  BY <1>1, <1>5, <1>6
<1> HIDE DEF Prod
<1> QED  BY <1>1, <1>3, <1>4, <1>5, <1>7

LEMMA BeginKeeps == IInv /\ Begin => IInv'
<1> SUFFICES ASSUME IInv, Begin PROVE IInv'
  OBVIOUS
<1>1. Types /\ Progress /\ AsPlanned /\ SetApart /\ Judged /\ Origin
  BY DEF IInv
<1>2. Types'
  BY <1>1 DEF Begin, history, Types
<1>3. /\ step = 1 /\ rep = 1 /\ attempted = <<>> /\ failed = 0 /\ pauses = 0
      /\ pc' = "transfer" /\ active /\ ok' = TRUE
      /\ UNCHANGED <<profile, candidate, active, step, rep, attempted, failed, pauses>>
  BY <1>1, AboutSteps DEF Progress, Begin, history
<1>4. Before' = 0
  <2>1. HeadOf(profile) \in {0, 2} /\ profile.repeat \in Nat /\ 0 * profile.repeat = 0
    BY <1>1, AboutSteps
  <2>2. Before = 0
    BY <1>3, <2>1 DEF Before
  <2> QED  BY <2>2, <1>3 DEF Before
<1>5. Len(attempted') = 0
  BY <1>3
<1>6. Progress' /\ SetApart'
  BY <1>3, <1>4, <1>5 DEF Progress, SetApart
<1>7. AsPlanned'
  BY <1>3, <1>5 DEF AsPlanned
<1>8. Judged'
  BY <1>3 DEF Judged, VerdictTrue
<1>9. Origin'
  BY <1>1, <1>3 DEF Origin
<1> QED  BY <1>2, <1>6, <1>7, <1>8, <1>9 DEF IInv

LEMMA RefuseKeeps == IInv /\ Refuse => IInv'
<1> SUFFICES ASSUME IInv, Refuse PROVE IInv'
  OBVIOUS
<1>1. Types /\ Progress /\ AsPlanned /\ SetApart /\ Judged /\ Origin
  BY DEF IInv
<1>2. /\ step = 1 /\ rep = 1 /\ attempted = <<>> /\ failed = 0 /\ pauses = 0
      /\ pc' = "returned" /\ ~active /\ ok' = FALSE
      /\ UNCHANGED <<profile, candidate, active, step, rep, attempted, failed, pauses>>
  BY <1>1 DEF Progress, Refuse, history
<1>3. Types'
  BY <1>1, <1>2 DEF Types
<1>4. Progress' /\ SetApart' /\ Judged'
  BY <1>1, <1>2 DEF Progress, SetApart, Judged, VerdictTrue
<1>5. AsPlanned' /\ Origin'
  BY <1>1, <1>2 DEF AsPlanned, Origin
<1> QED  BY <1>3, <1>4, <1>5 DEF IInv

LEMMA TransferKeeps == IInv /\ Transfer => IInv'
<1> SUFFICES ASSUME IInv, Transfer PROVE IInv'
  OBVIOUS
<1>1. Types /\ Progress /\ AsPlanned /\ SetApart /\ Judged /\ Origin
  BY DEF IInv
<1> DEFINE x == Planned(profile, Before + 1)
<1>2. /\ pc = "transfer" /\ active /\ Len(attempted) = Before /\ Before \in Nat
      /\ attempted' = Append(attempted, x) /\ x \in Transfers /\ attempted \in Seq(Transfers)
      /\ UNCHANGED <<profile, candidate, active, pauses>>
  BY <1>1, AboutSteps DEF Transfer, Progress, Types
<1> HIDE DEF x
<1>3. /\ attempted' \in Seq(Transfers)
      /\ Len(attempted') = Before + 1
      /\ \A k \in 1..(Before + 1) : attempted'[k] = IF k = Before + 1 THEN x ELSE attempted[k]
  BY <1>2
<1>4. AsPlanned'
  BY <1>1, <1>2, <1>3 DEF AsPlanned, x
<1>5. /\ ok' \in BOOLEAN /\ failed' \in Nat
      /\ (ok' <=> failed' = 0)
  <2>1. PICK success \in BOOLEAN : ok' = Verdict(success) /\ failed' = IF success THEN failed ELSE failed + 1
    BY DEF Transfer
  <2>2. ok \in BOOLEAN /\ failed \in Nat /\ (ok <=> failed = 0)
    BY <1>1, <1>2 DEF Judged, Types
  <2> QED  BY <2>1, <2>2 DEF Verdict
<1>6. Origin'
  BY <1>1, <1>2 DEF Origin
<1>7. profile.interval \in Nat /\ pauses \in Nat /\ profile \in Space
  BY <1>1, AboutSteps DEF Types
<1>8. CASE IsLast
  <2>1. pc' = "returned" /\ UNCHANGED <<step, rep>>
    BY <1>8 DEF Transfer
  <2>2. Types'
    BY <1>1, <1>2, <1>3, <1>5, <2>1 DEF Types
  <2>3. Progress'
    BY <1>1, <1>2, <1>3, <1>8, <2>1, LastOfPlan DEF Progress
  <2>4. SetApart'
    BY <1>1, <1>2, <1>3, <1>7, <2>1 DEF SetApart
  <2>5. Judged'
    BY <1>2, <1>5, <2>1 DEF Judged, VerdictTrue
  <2> QED  BY <1>4, <1>6, <2>2, <2>3, <2>4, <2>5 DEF IInv
<1>9. CASE ~IsLast /\ profile.interval > 0
  <2>1. pc' = "pause" /\ UNCHANGED <<step, rep>>
    BY <1>9 DEF Transfer
  <2>2. Types'
    BY <1>1, <1>2, <1>3, <1>5, <2>1 DEF Types
  <2>3. Progress'
    BY <1>1, <1>2, <1>3, <1>9, <2>1 DEF Progress, IsLast, steps, Before
  <2>4. SetApart'
    BY <1>1, <1>2, <1>3, <1>7, <2>1 DEF SetApart
  <2>5. Judged'
    BY <1>2, <1>5, <2>1 DEF Judged, VerdictTrue
  <2> QED  BY <1>4, <1>6, <2>2, <2>3, <2>4, <2>5 DEF IInv
<1>10. CASE ~IsLast /\ ~(profile.interval > 0)
  <2>1. pc' = "transfer" /\ Advance
    BY <1>2, <1>10 DEF Transfer
  <2>2. /\ step' \in 1..(HeadOf(profile) + BodyOf(profile))
        /\ rep' \in 1..(IF step' <= HeadOf(profile) THEN 1 ELSE profile.repeat)
        /\ Before' = Before + 1
    BY <1>1, <1>2, <1>10, <2>1, AdvanceByOne
  <2>3. Types'
    BY <1>1, <1>2, <1>3, <1>5, <2>1, <2>2 DEF Types
  <2>4. Progress'
    BY <1>1, <1>2, <1>3, <2>1, <2>2 DEF Progress
  <2>5. SetApart'
    BY <1>1, <1>2, <1>3, <1>7, <1>10, <2>1 DEF SetApart
  <2>6. Judged'
    BY <1>2, <1>5, <2>1 DEF Judged, VerdictTrue
  <2> QED  BY <1>4, <1>6, <2>3, <2>4, <2>5, <2>6 DEF IInv
<1> QED  BY <1>8, <1>9, <1>10

LEMMA PauseKeeps == IInv /\ Pause => IInv'
<1> SUFFICES ASSUME IInv, Pause PROVE IInv'
  OBVIOUS
<1>1. Types /\ Progress /\ AsPlanned /\ SetApart /\ Judged /\ Origin
  BY DEF IInv
<1>2. /\ pc = "pause" /\ pc' = "transfer" /\ active /\ Advance /\ pauses' = pauses + 1
      /\ Len(attempted) = Before + 1 /\ profile.interval > 0 /\ ~IsLast
      /\ UNCHANGED <<profile, candidate, active, ok, attempted, failed>>
  BY <1>1 DEF Pause, Progress
<1>3. /\ step' \in 1..(HeadOf(profile) + BodyOf(profile))
      /\ rep' \in 1..(IF step' <= HeadOf(profile) THEN 1 ELSE profile.repeat)
      /\ Before' = Before + 1
  BY <1>1, <1>2, AdvanceByOne
<1>4. profile.interval \in Nat /\ pauses \in Nat /\ Len(attempted) \in Nat
  BY <1>1, AboutSteps, LenProperties DEF Types
<1>5. Types'
  BY <1>1, <1>2, <1>3, <1>4 DEF Types
<1>6. Progress'
  BY <1>1, <1>2, <1>3 DEF Progress
<1>7. SetApart'
  BY <1>1, <1>2, <1>4 DEF SetApart
<1>8. Judged' /\ Origin' /\ AsPlanned'
  BY <1>1, <1>2 DEF Judged, VerdictTrue, Origin, AsPlanned
<1> QED  BY <1>5, <1>6, <1>7, <1>8 DEF IInv

LEMMA Inductive == IInv /\ [Next]_vars => IInv'
<1>1. IInv /\ UNCHANGED vars => IInv'
  BY DEF vars, history, IInv, Types, Progress, AsPlanned, SetApart, Judged, Origin, VerdictTrue, Before, IsLast, steps
<1> QED  BY <1>1, RefuseKeeps, BeginKeeps, TransferKeeps, PauseKeeps DEF Next

THEOREM Invariant == Spec => []IInv
  BY Initially, Inductive, PTL DEF Spec

(* For every profile and whichever transfers fail: the call returns true   *)
(* exactly when the driver was active and nothing failed.                  *)
THEOREM VerdictIsTrue == Spec => []VerdictTrue
<1>1. IInv => VerdictTrue
  BY DEF IInv, Judged
<1> QED  BY <1>1, Invariant, PTL

------------------------------------------------------------------------------
(* What reaches the device.                                                *)

(* The transfers of the body are as many as the pairs of a target and a    *)
(* payload.                                                                *)
Pairs(p) ==
  {[ep |-> e, payload |-> k] : e \in {p.endpoint} \cup (IF IsBroadcast(p.mode) THEN 1..5 ELSE {}),
                               k \in ToSet(PayloadsOf(p.mode))}

LEMMA PairsAreBody ==
  ASSUME NEW p \in Space
  PROVE  /\ Cardinality(Pairs(p)) = BodyOf(p)
         /\ \A t \in Pairs(p) : \E b \in 1..BodyOf(p) : Entry(p, b) = t
<1> DEFINE f == [b \in 1..BodyOf(p) |-> Entry(p, b)]
           T == Targets(p)
           K == PayloadsOf(p.mode)
           E == {p.endpoint} \cup (IF IsBroadcast(p.mode) THEN 1..5 ELSE {})
<1>1. /\ \A e : (\E i \in 1..Len(T) : T[i] = e) <=> e \in E
      /\ K \in Seq(Payloads)
  BY TargetsOf, PayloadsOfMode DEF Space
<1>2. \A k : k \in ToSet(K) <=> \E j \in 1..Len(K) : K[j] = k
  <2>1. DOMAIN K = 1..Len(K)
    BY <1>1, LenProperties
  <2> QED  BY <2>1 DEF ToSet
<1>3. ASSUME NEW t \in Pairs(p)
      PROVE  \E b \in 1..BodyOf(p) : Entry(p, b) = t
  <2>1. PICK e \in E, k \in ToSet(K) : t = [ep |-> e, payload |-> k]
    BY DEF Pairs
  <2>2. PICK x \in 1..Len(T), y \in 1..Len(K) : T[x] = e /\ K[y] = k
    BY <1>1, <1>2
  <2> QED  BY <2>1, <2>2, BodyShape
<1>4. ASSUME NEW b \in 1..BodyOf(p)
      PROVE  Entry(p, b) \in Pairs(p)
  <2> DEFINE i == ((b - 1) \div Len(K)) + 1
             j == ((b - 1) % Len(K)) + 1
  <2>1. Len(K) \in {1, 2} /\ Len(T) \in 1..6
    BY TargetsOf, PayloadsOfMode DEF Space
  <2>2. i \in 1..Len(T) /\ j \in 1..Len(K)
    <3> HIDE DEF T
    <3>1. b \in 1..(Len(T) * Len(K))
      BY DEF BodyOf, T
    <3>2. CASE Len(K) = 1
      BY <2>1, <3>1, <3>2
    <3>3. CASE Len(K) = 2
      BY <2>1, <3>1, <3>3
    <3> QED  BY <2>1, <3>2, <3>3
  <2>3. Entry(p, b) = [ep |-> T[i], payload |-> K[j]]
    BY DEF Entry
  <2> HIDE DEF i, j, T, K
  <2>4. T[i] \in E /\ K[j] \in ToSet(K)
    BY <1>1, <1>2, <2>2
  <2>5. Pairs(p) = {[ep |-> e, payload |-> k] : e \in E, k \in ToSet(K)}
    BY DEF Pairs, K
  <2> HIDE DEF E
  <2> QED  BY <2>3, <2>4, <2>5
<1>5. f \in Bijection(1..BodyOf(p), Pairs(p))
  <2>1. f \in [1..BodyOf(p) -> Pairs(p)]
    BY <1>4
  <2>2. \A b, c \in 1..BodyOf(p) : f[b] = f[c] => b = c
    BY BodyShape
  <2>3. \A t \in Pairs(p) : \E b \in 1..BodyOf(p) : f[b] = t
    BY <1>3
  <2> HIDE DEF f
  <2> QED  BY <2>1, <2>2, <2>3 DEF Bijection, Injection, Surjection, IsInjective
<1>6. BodyOf(p) \in Nat
  BY BodyShape
<1>7. Cardinality(Pairs(p)) = BodyOf(p)
  <2> HIDE DEF f
  <2> QED  BY <1>5, <1>6, FS_CountingElements DEF ExistsBijection
<1> QED  BY <1>3, <1>7

(* Where the transfers of step b of the body lie.                          *)
LEMMA PassesOfEntry ==
  ASSUME NEW p \in Space, NEW b \in 1..BodyOf(p), NEW k \in (HeadOf(p) + 1)..Total(p)
  PROVE  Planned(p, k) = Entry(p, b) <=>
           k \in (HeadOf(p) + (b - 1) * p.repeat + 1)..(HeadOf(p) + (b - 1) * p.repeat + p.repeat)
<1> DEFINE h == HeadOf(p)
           R == p.repeat
           a == k - h - 1
           q == a \div R
           z == (b - 1) * R
<1>1. h \in Nat /\ R \in Nat \ {0} /\ BodyOf(p) \in Nat \ {0} /\ b \in Nat
  BY BodyShape DEF Space, HeadOf
<1>2. BodyOf(p) * R \in Nat /\ Total(p) = h + BodyOf(p) * R
  BY <1>1 DEF Total
<1>3. a \in Nat /\ a < BodyOf(p) * R /\ k > h /\ k = h + 1 + a
  BY <1>1, <1>2
<1>4. q \in Nat /\ q * R <= a /\ a < q * R + R
  <2> HIDE DEF a, R
  <2> QED  BY <1>1, <1>3, Division
<1>5. q < BodyOf(p)
  <2> HIDE DEF q, a, R
  <2>1. q * R < BodyOf(p) * R
    <3>1. q * R \in Nat
      BY <1>1, <1>4
    <3> QED  BY <1>1, <1>2, <1>3, <1>4, <3>1
  <2> QED  BY <1>1, <1>4, <2>1, SMT
<1>6. Planned(p, k) = Entry(p, q + 1)
  <2>1. StepAt(p, k) = h + 1 + q
    BY <1>3, <1>1 DEF StepAt
  <2>2. StepAt(p, k) - h = q + 1
    <3> HIDE DEF h, q
    <3> QED  BY <2>1, <1>1, <1>4
  <2>3. ~(k <= HeadOf(p))
    BY <1>3, <1>1
  <2> HIDE DEF q
  <2> QED  BY <2>2, <2>3 DEF Planned
<1>7. q + 1 \in 1..BodyOf(p)
  <2> HIDE DEF q
  <2> QED  BY <1>1, <1>4, <1>5
<1>8. Planned(p, k) = Entry(p, b) <=> q + 1 = b
  <2> HIDE DEF q
  <2> QED  BY <1>6, <1>7, BodyShape
<1>9. z \in Nat
  <2>1. b - 1 \in Nat
    BY <1>1
  <2> QED  BY <1>1, <2>1
<1>10. q + 1 = b => z <= a /\ a < z + R
  <2>1. q + 1 = b => b - 1 = q
    <3> HIDE DEF q
    <3> QED  BY <1>1, <1>4
  <2> HIDE DEF q
  <2> QED  BY <1>4, <2>1
<1>11. z <= a /\ a < z + R => q + 1 = b
  <2> SUFFICES ASSUME z <= a, a < z + R PROVE q + 1 = b
    OBVIOUS
  <2>1. a - z \in 0..(R - 1) /\ a = z + (a - z) /\ b - 1 \in Nat
    <3> HIDE DEF a, z, R
    <3> QED  BY <1>1, <1>3, <1>9
  <2>2. (z + (a - z)) \div R = b - 1
    <3> HIDE DEF a, R
    <3> QED  BY <2>1, <1>1, Rounds
  <2>3. q = b - 1
    BY <2>1, <2>2
  <2> HIDE DEF q
  <2> QED  BY <2>3, <1>1
<1>12. z <= a /\ a < z + R <=> k \in (h + z + 1)..(h + z + R)
  <2> HIDE DEF z, h, R, a
  <2> QED  BY <1>1, <1>3, <1>9
<1> HIDE DEF q, a
<1> QED  BY <1>8, <1>10, <1>11, <1>12

(* How often a transfer of the body is sent: as often as the profile says, *)
(* once more if it is one of the headers.                                  *)
LEMMA TimesSent ==
  ASSUME NEW p \in Space, NEW b \in 1..BodyOf(p)
  PROVE  Cardinality({k \in 1..Total(p) : Planned(p, k) = Entry(p, b)})
           = p.repeat + IF /\ p.preface
                           /\ Entry(p, b) \in {[ep |-> p.endpoint, payload |-> "header4"],
                                               [ep |-> p.endpoint, payload |-> "header8"]}
                        THEN 1 ELSE 0
<1> DEFINE h == HeadOf(p)
           R == p.repeat
           t == Entry(p, b)
           z == (b - 1) * R
           run == (h + z + 1)..(h + z + R)
           All == {k \in 1..Total(p) : Planned(p, k) = t}
           h4 == [ep |-> p.endpoint, payload |-> "header4"]
           h8 == [ep |-> p.endpoint, payload |-> "header8"]
<1>1. /\ h = (IF p.preface THEN 2 ELSE 0) /\ R \in Nat \ {0} /\ BodyOf(p) \in Nat \ {0}
      /\ b \in Nat /\ p.preface \in BOOLEAN
  BY BodyShape DEF Space, HeadOf
<1>2. z \in Nat /\ z + R <= BodyOf(p) * R
  <2> HIDE DEF R
  <2>1. b - 1 \in Nat /\ (b - 1) + 1 <= BodyOf(p)
    BY <1>1
  <2>2. \A y \in Nat : (y + 1) * R = y * R + R /\ y * R \in Nat
    BY <1>1
  <2>3. ((b - 1) + 1) * R <= BodyOf(p) * R
    BY <2>1, <1>1, SMT
  <2> QED  BY <2>1, <2>2, <2>3
<1>3. Total(p) = h + BodyOf(p) * R /\ BodyOf(p) * R \in Nat
  BY <1>1 DEF Total
<1>4. IsFiniteSet(run) /\ Cardinality(run) = R
  <2> HIDE DEF h, z, R
  <2> DEFINE lo == h + z + 1
             hi == h + z + R
  <2>1. lo \in Int /\ hi \in Int /\ ~(lo > hi) /\ hi - lo + 1 = R
    BY <1>1, <1>2
  <2> HIDE DEF lo, hi
  <2>2. IsFiniteSet(lo..hi) /\ Cardinality(lo..hi) = R
    BY <2>1, FS_Interval
  <2> QED  BY <2>2 DEF lo, hi
<1>5. \A k \in run : k \in (h + 1)..Total(p)
  <2> HIDE DEF h, z, R
  <2> QED  BY <1>1, <1>2, <1>3
<1>6. \A k \in (h + 1)..Total(p) : Planned(p, k) = t <=> k \in run
  BY PassesOfEntry
<1>7. \A k \in 1..h : Planned(p, k) = IF k = 1 THEN h4 ELSE h8
  <2>1. \A k \in 1..h : k <= HeadOf(p)
    BY <1>1
  <2>2. \A k : k <= HeadOf(p) => Planned(p, k) = [ep |-> p.endpoint, payload |-> IF k = 1 THEN "header4" ELSE "header8"]
    BY DEF Planned
  <2> HIDE DEF h
  <2> QED  BY <2>1, <2>2
<1>8. h4 # h8
  <2>1. h4.payload # h8.payload
    OBVIOUS
  <2> QED  BY <2>1
<1>9. \A k \in 1..Total(p) : k \in 1..h \/ k \in (h + 1)..Total(p)
  <2> HIDE DEF h
  <2> QED  BY <1>1, <1>3
<1>10. \A k \in 1..h : k \in 1..Total(p) /\ k \notin run
  <2> HIDE DEF h, z, R
  <2> QED  BY <1>1, <1>2, <1>3
<1>11. \A k \in (h + 1)..Total(p) : k \in 1..Total(p)
  <2> HIDE DEF h
  <2> QED  BY <1>1
<1> HIDE DEF h, run, t, h4, h8
<1>12. CASE p.preface /\ t \in {h4, h8}
  <2> DEFINE i == IF t = h4 THEN 1 ELSE 2
  <2>1. h = 2 /\ i \in 1..h /\ i \notin run
    BY <1>12, <1>1, <1>10
  <2>2. \A k \in 1..h : Planned(p, k) = t <=> k = i
    BY <2>1, <1>7, <1>8, <1>12
  <2>3. All = run \cup {i}
    <3> HIDE DEF i
    <3>1. ASSUME NEW k \in All PROVE k \in run \cup {i}
      BY <2>2, <1>6, <1>9
    <3>2. ASSUME NEW k \in run \cup {i} PROVE k \in All
      BY <2>1, <2>2, <1>5, <1>6, <1>10, <1>11
    <3> QED  BY <3>1, <3>2
  <2> HIDE DEF i, All
  <2>4. Cardinality(All) = R + 1
    BY <2>1, <2>3, <1>4, FS_AddElement
  <2> QED  BY <2>4, <1>12 DEF All, t, h4, h8
<1>13. CASE ~(p.preface /\ t \in {h4, h8})
  <2>1. \A k \in 1..h : Planned(p, k) # t
    <3>1. CASE ~p.preface
      <4>1. h = 0
        BY <3>1, <1>1
      <4> QED  BY <4>1
    <3>2. CASE p.preface
      BY <3>2, <1>13, <1>7
    <3> QED  BY <3>1, <3>2
  <2>2. All = run
    <3>1. ASSUME NEW k \in All PROVE k \in run
      BY <2>1, <1>6, <1>9
    <3>2. ASSUME NEW k \in run PROVE k \in All
      BY <1>5, <1>6, <1>11
    <3> QED  BY <3>1, <3>2
  <2> HIDE DEF All
  <2>3. Cardinality(All) = R + 0
    BY <2>2, <1>4, <1>1
  <2> QED  BY <2>3, <1>13 DEF All, t, h4, h8
<1> QED  BY <1>12, <1>13

LEMMA SentWhole == IInv => WholeSequence
<1> SUFFICES ASSUME IInv, pc = "returned", active
             PROVE  /\ Len(attempted) = HeadOf(profile) + profile.repeat * Cardinality(Pairs(profile))
                    /\ profile.preface =>
                         /\ attempted[1] = [ep |-> profile.endpoint, payload |-> "header4"]
                         /\ attempted[2] = [ep |-> profile.endpoint, payload |-> "header8"]
                    /\ \A t \in Pairs(profile) :
                         Sent(t) = profile.repeat + IF /\ profile.preface
                                                       /\ t \in {[ep |-> profile.endpoint, payload |-> "header4"],
                                                                 [ep |-> profile.endpoint, payload |-> "header8"]}
                                                    THEN 1 ELSE 0
                    /\ attempted[HeadOf(profile) + 1].ep = profile.endpoint
                    /\ pauses = IF profile.interval > 0 THEN Len(attempted) - 1 ELSE 0
  BY DEF WholeSequence, Pairs, HeadOf
<1> DEFINE h == HeadOf(profile)
           R == profile.repeat
           B == BodyOf(profile)
<1>1. /\ h \in {0, 2} /\ B \in Nat \ {0} /\ R \in Nat \ {0} /\ profile.interval \in Nat
      /\ profile \in Space /\ h = IF profile.preface THEN 2 ELSE 0
  BY AboutSteps DEF IInv, Types, HeadOf
<1>2. /\ Len(attempted) = Total(profile)
      /\ \A k \in 1..Len(attempted) : attempted[k] = Planned(profile, k)
  BY DEF IInv, Progress, AsPlanned
<1>3. Total(profile) = h + B * R /\ Total(profile) = h + R * B /\ h + 1 <= Total(profile)
      /\ Total(profile) \in Nat
  <2> HIDE DEF h, R, B
  <2>1. B * R \in Nat /\ B * R = R * B /\ B * R >= 1
    BY <1>1, SMT
  <2>2. Total(profile) = h + B * R
    BY DEF Total, h, B, R
  <2> QED  BY <2>1, <2>2, <1>1
<1>4. Len(attempted) = h + R * Cardinality(Pairs(profile))
  BY <1>1, <1>2, <1>3, PairsAreBody
<1>5. ASSUME profile.preface
      PROVE  /\ attempted[1] = [ep |-> profile.endpoint, payload |-> "header4"]
             /\ attempted[2] = [ep |-> profile.endpoint, payload |-> "header8"]
  <2>1. 1 \in 1..Len(attempted) /\ 2 \in 1..Len(attempted) /\ 1 <= HeadOf(profile) /\ 2 <= HeadOf(profile)
    BY <1>1, <1>2, <1>3, <1>5
  <2> QED  BY <2>1, <1>2 DEF Planned
<1>6. ASSUME NEW t \in Pairs(profile)
      PROVE  Sent(t) = R + IF /\ profile.preface
                              /\ t \in {[ep |-> profile.endpoint, payload |-> "header4"],
                                        [ep |-> profile.endpoint, payload |-> "header8"]}
                           THEN 1 ELSE 0
  <2>1. PICK b \in 1..BodyOf(profile) : Entry(profile, b) = t
    BY <1>1, PairsAreBody
  <2>2. {k \in 1..Len(attempted) : attempted[k] = t} = {k \in 1..Total(profile) : Planned(profile, k) = Entry(profile, b)}
    BY <1>2, <2>1
  <2> QED  BY <1>1, <2>1, <2>2, TimesSent DEF Sent
<1>7. attempted[h + 1].ep = profile.endpoint
  <2>1. h + 1 \in 1..Len(attempted) /\ h + 1 \in (h + 1)..Total(profile)
    BY <1>1, <1>2, <1>3
  <2>2. attempted[h + 1] = Planned(profile, h + 1)
    BY <2>1, <1>2
  <2>3. 1 \in 1..BodyOf(profile) /\ (1 - 1) * R = 0
    BY <1>1
  <2>4. h + 1 \in (h + (1 - 1) * R + 1)..(h + (1 - 1) * R + R)
    <3> HIDE DEF h, R
    <3> QED  BY <1>1, <2>3
  <2>5. Planned(profile, h + 1) = Entry(profile, 1)
    BY <1>1, <2>1, <2>3, <2>4, PassesOfEntry
  <2> QED  BY <2>2, <2>5, <1>1, BodyShape
<1>8. pauses = IF profile.interval > 0 THEN Len(attempted) - 1 ELSE 0
  <2>1. profile.interval = 0 \/ profile.interval > 0
    BY <1>1
  <2> QED  BY <2>1 DEF IInv, SetApart
<1> QED  BY <1>4, <1>5, <1>6, <1>7, <1>8

(* For every profile, repeat count and interval, and whichever transfers   *)
(* fail: what reaches the device is the whole sequence of the profile, in  *)
(* the right numbers, the preface and the primary endpoint first, with a   *)
(* pause between any two transfers and none after the last.                *)
THEOREM AllIsSent == Spec => []WholeSequence
BY SentWhole, Invariant, PTL

------------------------------------------------------------------------------
(* The scan tool and the driver send the same.                             *)

LEMMA TemplatePlan ==
  ASSUME NEW c, c.template \in {Templates[k] : k \in 1..8}, c.endpoint \in 1..5,
         ProfileOf(c) \in Space
  PROVE  /\ TemplateSteps(c) \in Seq(Transfers)
         /\ Len(TemplateSteps(c)) = Total(ProfileOf(c))
         /\ \A k \in 1..Total(ProfileOf(c)) : TemplateSteps(c)[k] = Planned(ProfileOf(c), k)
<1> DEFINE p == ProfileOf(c)
           e == c.endpoint
           mode == TemplateMode(c.template)
           K == PayloadsOf(mode)
           m == Len(K)
           on(ep, kind) == [ep |-> ep, payload |-> kind]
           casts == c.template \in {"broadcast_frame20", "broadcast_payload12"}
           others == IF casts THEN Others(e) ELSE <<>>
           n == Len(others)
           pre == IF HasPreface(c.template) THEN <<on(e, "header4"), on(e, "header8")>> ELSE <<>>
           first == [k \in 1..m |-> on(e, K[k])]
           rest == [k \in 1..n |-> on(others[k], K[1])]
<1>1. /\ p.endpoint = e /\ p.mode = mode /\ p.preface = HasPreface(c.template) /\ p.repeat = 1
      /\ HasPreface(c.template) \in BOOLEAN /\ mode \in Modes
  BY DEF ProfileOf, HasPreface, Space
<1>2. c.template \in {"frame20", "payload12", "preface_frame20", "preface_payload12",
                      "frame_then_payload", "preface_frame_then_payload",
                      "broadcast_frame20", "broadcast_payload12"}
  BY DEF Templates
<1>3. K \in Seq(Payloads) /\ m \in {1, 2}
  BY <1>1, PayloadsOfMode
<1>4. casts <=> IsBroadcast(mode)
  BY <1>2 DEF TemplateMode, IsBroadcast
<1>5. casts => m = 1
  <2>1. casts => K \in {<<"frame20">>, <<"payload12">>}
    BY DEF TemplateMode, PayloadsOf, Payloads
  <2> QED  BY <2>1
<1>6. others \in Seq(1..5) /\ n = (IF casts THEN 4 ELSE 0)
  <2>1. CASE casts
    <3>1. others = [k \in 1..4 |-> IF k < e THEN k ELSE k + 1]
      BY <2>1 DEF Others
    <3>2. others \in [1..4 -> 1..5]
      BY <3>1
    <3> HIDE DEF others
    <3>3. others \in Seq(1..5)
      BY <3>2, SeqDef
    <3>4. DOMAIN others = 1..Len(others) /\ Len(others) \in Nat
      BY <3>3, LenProperties
    <3> QED  BY <2>1, <3>2, <3>3, <3>4
  <2>2. CASE ~casts
    BY <2>2
  <2> QED  BY <2>1, <2>2
<1>7. Targets(p) = <<e>> \o others
  <2>1. CASE casts
    BY <2>1, <1>1, <1>4 DEF Targets, BroadcastOrder
  <2>2. CASE ~casts
    <3>1. Targets(p) = <<e>>
      BY <2>2, <1>1, <1>4 DEF Targets
    <3> QED  BY <3>1, <2>2
  <2> QED  BY <2>1, <2>2
<1> HIDE DEF others, casts, K, mode
<1>8. /\ Len(Targets(p)) = n + 1
      /\ Targets(p)[1] = e
      /\ \A i \in 1..n : Targets(p)[i + 1] = others[i]
  <2>1. <<e>> \in Seq(1..5) /\ Len(<<e>>) = 1 /\ <<e>>[1] = e
    OBVIOUS
  <2> DEFINE s == <<e>>
  <2> HIDE DEF s, p, e
  <2>2. /\ Len(s \o others) = 1 + n
        /\ \A i \in 1..(1 + n) : (s \o others)[i] = IF i <= 1 THEN s[i] ELSE others[i - 1]
    BY <2>1, <1>6, ConcatProperties DEF s, e
  <2> QED  BY <2>1, <2>2, <1>6, <1>7 DEF s, e
<1>9. BodyOf(p) = m + n
  <2>1. BodyOf(p) = (n + 1) * m
    BY <1>1, <1>8 DEF BodyOf, K
  <2> HIDE DEF m, n
  <2>2. CASE casts
    BY <2>1, <2>2, <1>5, <1>6
  <2>3. CASE ~casts
    BY <2>1, <2>3, <1>3, <1>6
  <2> QED  BY <2>2, <2>3
<1>10. \A b \in 1..(m + n) : Entry(p, b) = IF b <= m THEN on(e, K[b]) ELSE on(others[b - m], K[1])
  <2> TAKE b \in 1..(m + n)
  <2> DEFINE i == ((b - 1) \div m) + 1
             j == ((b - 1) % m) + 1
  <2>1. Entry(p, b) = on(Targets(p)[i], K[j])
    BY <1>1 DEF Entry, K
  <2> HIDE DEF p, e
  <2>2. CASE casts
    <3>1. m = 1 /\ n = 4
      BY <2>2, <1>5, <1>6
    <3>2. i = b /\ j = 1
      <4> HIDE DEF n, m
      <4> QED  BY <3>1
    <3>3. b = 1 \/ (b > 1 /\ b - 1 \in 1..n /\ (b - 1) + 1 = b)
      <4> HIDE DEF n, m
      <4> QED  BY <3>1
    <3> HIDE DEF i, j, n, m
    <3>4. b = 1 => b <= m /\ Targets(p)[b] = e
      BY <3>1, <1>8
    <3>5. b > 1 => ~(b <= m) /\ Targets(p)[b] = others[b - m]
      BY <3>1, <3>3, <1>8
    <3> QED  BY <2>1, <3>1, <3>2, <3>3, <3>4, <3>5
  <2>3. CASE ~casts
    <3>1. m \in {1, 2} /\ n = 0
      BY <2>3, <1>3, <1>6
    <3>2. i = 1 /\ j = b /\ b <= m
      <4> HIDE DEF n, m
      <4> QED  BY <3>1
    <3> HIDE DEF i, j, n, m
    <3> QED  BY <2>1, <3>2, <1>8
  <2> QED  BY <2>2, <2>3
<1>11. HeadOf(p) = (IF HasPreface(c.template) THEN 2 ELSE 0) /\ HeadOf(p) \in {0, 2}
  BY <1>1 DEF HeadOf
<1>12. Total(p) = HeadOf(p) + m + n
  <2>1. Total(p) = HeadOf(p) + BodyOf(p) * 1
    BY <1>1 DEF Total
  <2> HIDE DEF m, n, p
  <2> QED  BY <2>1, <1>3, <1>6, <1>9, <1>11
<1>13. \A k \in 1..Total(p) :
         Planned(p, k) = IF k <= HeadOf(p) THEN on(e, IF k = 1 THEN "header4" ELSE "header8")
                         ELSE Entry(p, k - HeadOf(p))
  <2> TAKE k \in 1..Total(p)
  <2>0. Planned(p, k) = IF k <= HeadOf(p) THEN on(e, IF k = 1 THEN "header4" ELSE "header8")
                         ELSE Entry(p, StepAt(p, k) - HeadOf(p))
    BY <1>1 DEF Planned
  <2>1. ~(k <= HeadOf(p)) => StepAt(p, k) = HeadOf(p) + 1 + ((k - HeadOf(p) - 1) \div 1)
    BY <1>1 DEF StepAt
  <2> HIDE DEF p
  <2>2. ~(k <= HeadOf(p)) => StepAt(p, k) - HeadOf(p) = k - HeadOf(p)
    <3>1. k \in Int
      OBVIOUS
    <3> QED  BY <2>1, <3>1, <1>11
  <2> QED  BY <2>0, <2>2
<1>14. /\ pre \in Seq(Transfers) /\ Len(pre) = HeadOf(p)
       /\ \A k \in 1..HeadOf(p) : pre[k] = on(e, IF k = 1 THEN "header4" ELSE "header8")
  <2>1. CASE HasPreface(c.template)
    <3> DEFINE a == on(e, "header4")
               b == on(e, "header8")
    <3>1. a \in Transfers /\ b \in Transfers
      BY DEF Transfers, Payloads
    <3>2. pre = <<a, b>> /\ HeadOf(p) = 2
      BY <2>1, <1>11
    <3>3. \A k \in 1..2 : on(e, IF k = 1 THEN "header4" ELSE "header8") = IF k = 1 THEN a ELSE b
      OBVIOUS
    <3> HIDE DEF a, b, pre, p, e
    <3> QED  BY <3>1, <3>2, <3>3
  <2>2. CASE ~HasPreface(c.template)
    <3>1. pre = <<>> /\ HeadOf(p) = 0
      BY <2>2, <1>11
    <3> HIDE DEF pre, p, e
    <3> QED  BY <3>1
  <2> QED  BY <2>1, <2>2
<1>15. \A k \in 1..m : K[k] \in Payloads
  BY <1>3, ElementOfSeq
<1>16. /\ first \in Seq(Transfers) /\ Len(first) = m
       /\ \A k \in 1..m : first[k] = on(e, K[k])
  <2>1. first \in [1..m -> Transfers]
    BY <1>15 DEF Transfers
  <2>2. \A k \in 1..m : first[k] = on(e, K[k])
    OBVIOUS
  <2> HIDE DEF first, e
  <2>3. first \in Seq(Transfers) /\ m \in Nat
    BY <2>1, <1>3, SeqDef
  <2> QED  BY <2>1, <2>2, <2>3, LenProperties
<1>17. /\ rest \in Seq(Transfers) /\ Len(rest) = n
       /\ \A k \in 1..n : rest[k] = on(others[k], K[1])
  <2>1. rest \in [1..n -> Transfers]
    <3>1. \A k \in 1..n : others[k] \in 1..15
      BY <1>6, ElementOfSeq
    <3>2. K[1] \in Payloads
      BY <1>3, <1>15
    <3> QED  BY <3>1, <3>2 DEF Transfers
  <2>2. \A k \in 1..n : rest[k] = on(others[k], K[1])
    OBVIOUS
  <2> HIDE DEF rest
  <2>3. rest \in Seq(Transfers) /\ n \in Nat
    BY <2>1, <1>6, SeqDef
  <2> QED  BY <2>1, <2>2, <2>3, LenProperties
<1>18. TemplateSteps(c) = pre \o first \o rest
  BY DEF TemplateSteps, mode, K, casts, others
<1> HIDE DEF pre, first, rest
<1>19. /\ pre \o first \in Seq(Transfers)
       /\ Len(pre \o first) = HeadOf(p) + m
       /\ \A k \in 1..(HeadOf(p) + m) :
            (pre \o first)[k] = IF k <= HeadOf(p) THEN pre[k] ELSE first[k - HeadOf(p)]
  <2> HIDE DEF m, p
  <2>1. /\ pre \o first \in Seq(Transfers)
        /\ Len(pre \o first) = Len(pre) + Len(first)
        /\ \A k \in 1..(Len(pre) + Len(first)) :
             (pre \o first)[k] = IF k <= Len(pre) THEN pre[k] ELSE first[k - Len(pre)]
    BY <1>14, <1>16, ConcatProperties
  <2> QED  BY <2>1, <1>14, <1>16
<1>20. /\ TemplateSteps(c) \in Seq(Transfers)
       /\ Len(TemplateSteps(c)) = HeadOf(p) + m + n
       /\ \A k \in 1..(HeadOf(p) + m + n) :
            TemplateSteps(c)[k] = IF k <= HeadOf(p) + m THEN (pre \o first)[k] ELSE rest[k - (HeadOf(p) + m)]
  <2> DEFINE both == pre \o first
  <2>0. TemplateSteps(c) = both \o rest
    BY <1>18
  <2> HIDE DEF m, n, p, both
  <2>1. /\ both \o rest \in Seq(Transfers)
        /\ Len(both \o rest) = Len(both) + Len(rest)
        /\ \A k \in 1..(Len(both) + Len(rest)) :
             (both \o rest)[k] = IF k <= Len(both) THEN both[k] ELSE rest[k - Len(both)]
    BY <1>17, <1>19, ConcatProperties DEF both
  <2>2. Len(both) = HeadOf(p) + m /\ Len(rest) = n
    BY <1>17, <1>19 DEF both
  <2>3. Len(both) + Len(rest) = HeadOf(p) + m + n
    BY <2>2
  <2> QED  BY <2>0, <2>1, <2>2, <2>3 DEF both
<1>21. ASSUME NEW k \in 1..Total(p)
       PROVE  TemplateSteps(c)[k] = Planned(p, k)
  <2> HIDE DEF m, n, p, e, on
  <2>0. k \in 1..(HeadOf(p) + m + n) /\ HeadOf(p) \in Nat /\ m \in Nat /\ n \in Nat
    BY <1>3, <1>6, <1>11, <1>12
  <2>1. CASE k <= HeadOf(p)
    <3>1. k <= HeadOf(p) + m /\ k \in 1..(HeadOf(p) + m) /\ k \in 1..HeadOf(p)
      BY <2>0, <2>1
    <3> QED  BY <2>0, <2>1, <3>1, <1>13, <1>14, <1>19, <1>20
  <2>2. CASE ~(k <= HeadOf(p)) /\ k <= HeadOf(p) + m
    <3>1. k \in 1..(HeadOf(p) + m) /\ k - HeadOf(p) \in 1..m /\ k - HeadOf(p) <= m /\ k - HeadOf(p) \in 1..(m + n)
      BY <2>0, <2>2
    <3>2. TemplateSteps(c)[k] = on(e, K[k - HeadOf(p)])
      BY <2>0, <2>2, <3>1, <1>16, <1>19, <1>20
    <3>3. Entry(p, k - HeadOf(p)) = on(e, K[k - HeadOf(p)])
      BY <3>1, <1>10
    <3> QED  BY <2>2, <3>2, <3>3, <1>13
  <2>3. CASE ~(k <= HeadOf(p) + m)
    <3> DEFINE b == k - HeadOf(p)
    <3>1. k - (HeadOf(p) + m) = b - m /\ b - m \in 1..n /\ ~(b <= m) /\ b \in 1..(m + n) /\ ~(k <= HeadOf(p))
      BY <2>0, <2>3
    <3> HIDE DEF b
    <3>2. TemplateSteps(c)[k] = on(others[b - m], K[1])
      BY <2>0, <2>3, <3>1, <1>17, <1>20
    <3>3. Entry(p, b) = on(others[b - m], K[1])
      BY <3>1, <1>10
    <3> QED  BY <3>1, <3>2, <3>3, <1>13 DEF b
  <2> QED  BY <2>1, <2>2, <2>3
<1> QED  BY <1>12, <1>20, <1>21

(* Every candidate of the scan, given to the driver as a profile, makes it *)
(* send exactly what the scan tool sent, whichever transfers fail.         *)
THEOREM ScanIsRepeated == Spec => []ScanRepeatable
<1>1. IInv => ScanRepeatable
  <2> SUFFICES ASSUME IInv, pc = "returned", active, candidate > 0
               PROVE  attempted = TemplateSteps(ScanCandidate(candidate))
    BY DEF ScanRepeatable
  <2> DEFINE c == ScanCandidate(candidate)
  <2>1. candidate \in 1..NumCandidates /\ profile = ProfileOf(c)
    BY DEF IInv, Origin
  <2>2. /\ attempted \in Seq(Transfers)
        /\ Len(attempted) = Total(ProfileOf(c))
        /\ \A k \in 1..Len(attempted) : attempted[k] = Planned(ProfileOf(c), k)
    BY <2>1 DEF IInv, Types, Progress, AsPlanned
  <2>3. /\ TemplateSteps(c) \in Seq(Transfers)
        /\ Len(TemplateSteps(c)) = Total(ProfileOf(c))
        /\ \A k \in 1..Total(ProfileOf(c)) : TemplateSteps(c)[k] = Planned(ProfileOf(c), k)
    BY <2>1, CandidatesFit, TemplatePlan
  <2> HIDE DEF c
  <2>4. attempted = TemplateSteps(c)
    BY <2>2, <2>3, SeqEqual
  <2> QED  BY <2>4 DEF c
<1> QED  BY <1>1, Invariant, PTL

==============================================================================
