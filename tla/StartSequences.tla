---------------------------- MODULE StartSequences ----------------------------
(***************************************************************************)
(* The transfers that start the device: the sequences of the driver node   *)
(* (buildVendorStartSequence, a profile at a time) and those of the scan   *)
(* tool (buildSteps, a candidate at a time).  A transfer is an output      *)
(* endpoint and the kind of payload that is sent to it; the bytes of a     *)
(* kind are the same in both programs.                                     *)
(***************************************************************************)
EXTENDS Naturals, SequencesExt

OutEndpoints == <<1, 2, 3, 4, 5>>

Payloads == {"header4", "header8", "frame20", "payload12"}

(* The modes of a profile that the constructor lets through.               *)
Modes == Payloads \cup {"frame_then_payload", "broadcast_frame20",
                        "broadcast_payload12", "broadcast_frame_then_payload"}

Step(ep, payload, repeat) == [ep |-> ep, payload |-> payload, repeat |-> repeat]

(* The endpoints of the sweep in their order, without the primary one,     *)
(* which may be any of 1..15.                                              *)
Others(primary) ==
  IF primary \in 1..5 THEN [k \in 1..4 |-> IF k < primary THEN k ELSE k + 1] ELSE OutEndpoints

\* Mutant: the primary endpoint is not left out of the sweep.
BroadcastOrderRepeatsPrimary(primary) == <<primary>> \o OutEndpoints

(* A broadcast begins with the primary endpoint.                           *)
BroadcastOrder(primary) == <<primary>> \o Others(primary)

(* The payloads of a mode, in the order an endpoint gets them.             *)
PayloadsOf(mode) ==
  CASE mode \in Payloads               -> <<mode>>
    [] mode = "broadcast_frame20"      -> <<"frame20">>
    [] mode = "broadcast_payload12"    -> <<"payload12">>
    [] mode \in {"frame_then_payload", "broadcast_frame_then_payload"}
                                       -> <<"frame20", "payload12">>

IsBroadcast(mode) ==
  mode \in {"broadcast_frame20", "broadcast_payload12", "broadcast_frame_then_payload"}

Preface(primary, wanted) ==
  IF wanted THEN <<Step(primary, "header4", 1), Step(primary, "header8", 1)>> ELSE <<>>

(* Every target gets all payloads of the mode before the next one does:    *)
(* the two loops are read off the number of the pass, the inner one first. *)
Body(targets, payloads, repeat) ==
  [k \in 1..(Len(targets) * Len(payloads)) |->
    Step(targets[((k - 1) \div Len(payloads)) + 1], payloads[((k - 1) % Len(payloads)) + 1], repeat)]

Targets(p) == IF IsBroadcast(p.mode) THEN BroadcastOrder(p.endpoint) ELSE <<p.endpoint>>

(* buildVendorStartSequence.                                               *)
DriverSequence(p) ==
  Preface(p.endpoint, p.preface) \o Body(Targets(p), PayloadsOf(p.mode), p.repeat)

------------------------------------------------------------------------------
(* The scan tool.                                                          *)

Templates == <<
  "frame20", "payload12", "preface_frame20", "preface_payload12",
  "frame_then_payload", "preface_frame_then_payload",
  "broadcast_frame20", "broadcast_payload12" >>

(* buildSteps: a template names its preface and its mode at once.          *)
HasPreface(template) ==
  template \in {"preface_frame20", "preface_payload12", "preface_frame_then_payload"}

TemplateMode(template) ==
  CASE template = "preface_frame20"            -> "frame20"
    [] template = "preface_payload12"          -> "payload12"
    [] template = "preface_frame_then_payload" -> "frame_then_payload"
    [] OTHER                                   -> template

(* The broadcasts of the scan have one payload.                            *)
TemplateSteps(c) ==
  LET payloads     == PayloadsOf(TemplateMode(c.template))
      on(ep, kind) == [ep |-> ep, payload |-> kind]
      others       == IF c.template \in {"broadcast_frame20", "broadcast_payload12"}
                      THEN Others(c.endpoint) ELSE <<>>
  IN  (IF HasPreface(c.template)
       THEN <<on(c.endpoint, "header4"), on(c.endpoint, "header8")>> ELSE <<>>)
      \o [k \in 1..Len(payloads) |-> on(c.endpoint, payloads[k])]
      \o [k \in 1..Len(others) |-> on(others[k], payloads[1])]

ScanCommands  == <<19, 16, 17, 18, 20, 21, 22>>    \* 0x10000013, 10, 11, ...
ScanArguments == <<15, 1, 3, 7, 8, 0>>

NumScanCandidates ==
  Len(ScanCommands) * Len(ScanArguments) * Len(OutEndpoints) * Len(Templates)

Digit(k, digits) == digits[(k % Len(digits)) + 1]

(* buildCandidates: four nested loops, the templates innermost.            *)
ScanCandidate(n) ==
  LET t == n - 1
      e == t \div Len(Templates)
      a == e \div Len(OutEndpoints)
      c == a \div Len(ScanArguments)
  IN  [template |-> Digit(t, Templates),
       endpoint |-> Digit(e, OutEndpoints),
       arg0     |-> Digit(a, ScanArguments),
       command  |-> Digit(c, ScanCommands)]
==============================================================================
