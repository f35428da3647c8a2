------------------------- MODULE VendorProtocolProofs -------------------------
(***************************************************************************)
(* Proofs about VendorProtocol, for every number of interfaces and         *)
(* endpoints.                                                              *)
(***************************************************************************)
EXTENDS VendorProtocol, TLAPS

USE LastIfAssumption, LastEpAssumption

(* The initial states satisfy the inductive invariant.                     *)
LEMMA InitInvariant == Init => IInv
<1> SUFFICES ASSUME Init PROVE IInv
  OBVIOUS
<1> USE DEF Init, NoReadError, Interfaces, AltInterfaces, Endpoints
<1>1. TypeOK
  <2>1. readErr \in [code : ReadCodes, ep : Endpoints]
    BY DEF ReadCodes
  <2>2. result \in Results
    BY DEF Results
  <2>3. /\ claimed \in [Interfaces -> BOOLEAN]
        /\ alt \in [AltInterfaces -> {0, 1}]
    OBVIOUS
  <2>4. /\ osClaims \in SUBSET Interfaces
        /\ out \in SUBSET Endpoints
        /\ refused \in SUBSET AltInterfaces
    OBVIOUS
  <2>5. /\ pc \in {"idle", "read", "gone"} \cup CloseSteps \cup OpenSteps
        /\ cont \in Callers
        /\ i \in 0..(LastIf + LastEp + 1)
    BY DEF Callers
  <2>6. /\ handle \in {"null", "live", "stale"}
        /\ writeErr \in WriteCodes
        /\ ctxCount \in Nat /\ handleCount \in Nat
    BY DEF WriteCodes
  <2>7. ctx \in BOOLEAN /\ open \in BOOLEAN /\ attached \in BOOLEAN
    OBVIOUS
  <2> QED
    BY <2>1, <2>2, <2>3, <2>4, <2>5, <2>6, <2>7 DEF TypeOK
<1>2. Bookkeeping
  BY DEF Bookkeeping, NoneClaimed
<1>3. PollVerdict
  BY DEF PollVerdict, IsOpen
<1>4. AtEachCall
  BY DEF AtEachCall, AtIdle
<1> QED
  BY <1>1, <1>2, <1>3, <1>4 DEF IInv

(* What a method returns is a result.                                      *)
LEMMA ResultType ==
  ASSUME NEW op \in {"none", "open", "close", "poll", "send", "destroy"}, NEW ok \in BOOLEAN
  PROVE  [op |-> op, ok |-> ok] \in Results
BY DEF Results

(* Every step of the class and of the device preserves it.                 *)
LEMMA NextInvariant == IInv /\ [Next]_vars => IInv'
<1> SUFFICES ASSUME IInv, [Next]_vars PROVE IInv'
  OBVIOUS
<1> USE DEF IInv, TypeOK, Bookkeeping, PollVerdict, IsOpen, Callers, CloseSteps, OpenSteps,
            Interfaces, AltInterfaces, Endpoints, ReadCodes, WriteCodes, FatalCodes,
            ControlEndpoints, AllClaimed, NoneClaimed, AltReset, AltOne,
            object, errors, usb, settings,
            AtIdle, AtRead, AtAlt0, AtRelease, AtCloseHandle, AtExit, AtInit,
            AtOpenDevice, AtClaim, AtSetAlt, AtGone, AtEachCall
<1>1. CASE CallOpen
  BY <1>1 DEF CallOpen, EnterClose
<1>2. CASE CallClose
  BY <1>2 DEF CallClose, EnterClose
<1>3. CASE CallDestroy
  BY <1>3 DEF CallDestroy, EnterClose
<1>4. CASE CallPoll
  BY <1>4 DEF CallPoll, NoReadError
<1>5. CASE PollClosed
  <2>1. TypeOK'
    <3>1. result' \in Results /\ pc' = "idle"
      BY <1>5, ResultType DEF PollClosed, Return
    <3> QED
      BY <1>5, <3>1 DEF PollClosed
  <2>2. Bookkeeping' /\ PollVerdict'
    BY <1>5, ResultType DEF PollClosed, Return
  <2>3. AtEachCall'
    BY <1>5, ResultType DEF PollClosed, Return
  <2> QED
    BY <2>1, <2>2, <2>3
<1>6. CASE SendRawTransfer
  <2>1. TypeOK'
    BY <1>6, ResultType DEF SendRawTransfer, Return
  <2>2. Bookkeeping' /\ PollVerdict'
    BY <1>6, ResultType DEF SendRawTransfer, Return
  <2>3. AtEachCall'
    BY <1>6, ResultType DEF SendRawTransfer, Return
  <2> QED
    BY <2>1, <2>2, <2>3
<1>7. CASE ResetAlt
  <2>1. TypeOK'
    <3> USE <1>7 DEF ResetAlt
    <3>1. alt' \in [AltInterfaces -> {0, 1}]
      OBVIOUS
    <3>2. refused' \in SUBSET AltInterfaces
      OBVIOUS
    <3>3. /\ pc' \in {"idle", "read", "gone"} \cup CloseSteps \cup OpenSteps
          /\ i' \in 0..(LastIf + LastEp + 1)
      OBVIOUS
    <3> QED
      BY <3>1, <3>2, <3>3
  <2>2. Bookkeeping'
    <3>1. \A f \in AltInterfaces : alt'[f] = 1 => f \in osClaims' \cup refused'
      BY <1>7 DEF ResetAlt
    <3>2. UNCHANGED <<ctx, handle, claimed, attached, ctxCount, handleCount, osClaims>>
      BY <1>7 DEF ResetAlt
    <3> QED
      BY <3>1, <3>2
  <2>3. PollVerdict'
    BY <1>7 DEF ResetAlt
  <2>4. AtEachCall'
    <3>1. pc' = "alt0" => AtAlt0'
      BY <1>7 DEF ResetAlt
    <3>2. pc' = "release" => AtRelease'
      BY <1>7 DEF ResetAlt
    <3>3. pc' \in {"alt0", "release"}
      BY <1>7 DEF ResetAlt
    <3> QED
      BY <3>1, <3>2, <3>3
  <2> QED BY <2>1, <2>2, <2>3, <2>4 DEF IInv
<1>8. CASE Release
  <2>1. TypeOK'
    BY <1>8 DEF Release
  <2>2. Bookkeeping'
    <3>1. osClaims' = IF handle' = "live" THEN {f \in Interfaces : claimed'[f]} ELSE {}
      <4>1. \A f \in Interfaces : claimed'[f] <=> claimed[f] /\ f # i
        BY <1>8 DEF Release
      <4>2. osClaims' = osClaims \ {i} /\ handle' = handle
        BY <1>8 DEF Release
      <4>3. osClaims = IF handle = "live" THEN {f \in Interfaces : claimed[f]} ELSE {}
        OBVIOUS
      <4> QED
        BY <4>1, <4>2, <4>3, Zenon
    <3>2. \A f \in AltInterfaces : alt'[f] = 1 => f \in osClaims' \cup refused'
      BY <1>8 DEF Release
    <3>3. handle' = "null" => NoneClaimed'
      BY <1>8 DEF Release
    <3> QED
      BY <1>8, <3>1, <3>2, <3>3 DEF Release
  <2>3. PollVerdict'
    BY <1>8 DEF Release
  <2>4. AtEachCall'
    BY <1>8 DEF Release
  <2> QED
    BY <2>1, <2>2, <2>3, <2>4
<1>9. CASE CloseHandle
  BY <1>9 DEF CloseHandle
<1>10. CASE Exit
  <2>1. TypeOK'
    <3> USE <1>10 DEF Exit, Return
    <3>0. \/ result' = result
          \/ \E op \in {"close", "open", "destroy"}, ok \in BOOLEAN : result' = [op |-> op, ok |-> ok]
      OBVIOUS
    <3>1. result' \in Results
      BY <3>0, ResultType
    <3>2. pc' \in {"idle", "read", "gone"} \cup CloseSteps \cup OpenSteps
      OBVIOUS
    <3>3. ctxCount' \in Nat
      OBVIOUS
    <3>4. ctx' = FALSE /\ open' = FALSE
      OBVIOUS
    <3> QED
      BY <3>1, <3>2, <3>3, <3>4
  <2>2. Bookkeeping'
    BY <1>10 DEF Exit, Return
  <2>3. PollVerdict'
    BY <1>10 DEF Exit, Return
  <2>4. AtEachCall'
    BY <1>10 DEF Exit, Return
  <2> QED BY <2>1, <2>2, <2>3, <2>4 DEF IInv
<1>11. CASE InitFails
  <2>1. TypeOK'
    BY <1>11, ResultType DEF InitFails, Return
  <2>2. Bookkeeping'
    BY <1>11, ResultType DEF InitFails, Return
  <2>3. PollVerdict'
    BY <1>11, ResultType DEF InitFails, Return
  <2>4. AtEachCall'
    BY <1>11, ResultType DEF InitFails, Return
  <2> QED BY <2>1, <2>2, <2>3, <2>4 DEF IInv
<1>12. CASE LibInit
  BY <1>12 DEF LibInit
<1>13. CASE OpenDeviceFails \/ ClaimFails \/ SetAltFails
  <2>1. PICK step \in {"openDevice", "claim", "setAlt"} : pc = step /\ AbortOpen
    BY <1>13 DEF OpenDeviceFails, ClaimFails, SetAltFails
  <2> QED
    BY <2>1 DEF AbortOpen, EnterClose
<1>14. CASE OpenDevice
  BY <1>14 DEF OpenDevice
<1>15. CASE Claim
  BY <1>15 DEF Claim
<1>16. CASE SetAlt
  <2>1. TypeOK'
    <3> USE <1>16 DEF SetAlt, Return, NoReadError
    <3>0. \/ result' = result
          \/ result' = [op |-> "open", ok |-> TRUE]
      OBVIOUS
    <3>1. result' \in Results
      BY <3>0, ResultType
    <3>2. readErr' \in [code : ReadCodes, ep : Endpoints]
      OBVIOUS
    <3>3. pc' \in {"idle", "read", "gone"} \cup CloseSteps \cup OpenSteps
      OBVIOUS
    <3>4. i' \in 0..(LastIf + LastEp + 1)
      OBVIOUS
    <3>5. alt' \in [AltInterfaces -> {0, 1}]
      OBVIOUS
    <3>6. open' \in BOOLEAN /\ writeErr' \in WriteCodes
      OBVIOUS
    <3> QED
      BY <3>1, <3>2, <3>3, <3>4, <3>5, <3>6
  <2>2. Bookkeeping'
    BY <1>16 DEF SetAlt, Return, NoReadError
  <2>3. PollVerdict'
    BY <1>16 DEF SetAlt, Return, NoReadError
  <2>4. AtEachCall'
    BY <1>16 DEF SetAlt, Return, NoReadError
  <2> QED BY <2>1, <2>2, <2>3, <2>4 DEF IInv
<1>17. CASE ReadCompletes
  <2>1. TypeOK'
    <3> USE <1>17 DEF ReadCompletes, NextEndpoint, Return
    <3>0. \/ result' = result
          \/ result' = [op |-> "poll", ok |-> TRUE]
      OBVIOUS
    <3>1. result' \in Results
      BY <3>0, ResultType
    <3>2. pc' \in {"idle", "read", "gone"} \cup CloseSteps \cup OpenSteps
      OBVIOUS
    <3>3. i' \in 0..(LastIf + LastEp + 1)
      OBVIOUS
    <3>4. out' \in SUBSET Endpoints
      OBVIOUS
    <3> QED
      BY <3>1, <3>2, <3>3, <3>4
  <2>2. Bookkeeping'
    BY <1>17 DEF ReadCompletes, NextEndpoint, Return
  <2>3. PollVerdict'
    BY <1>17 DEF ReadCompletes, NextEndpoint, Return
  <2>4. AtEachCall'
    BY <1>17 DEF ReadCompletes, NextEndpoint, Return
  <2> QED BY <2>1, <2>2, <2>3, <2>4 DEF IInv
<1>18. CASE ReadFails
  <2>1. TypeOK'
    <3> USE <1>18 DEF ReadFails, ReadErrors, EndsPoll, NextEndpoint, Return
    <3>0. \/ result' = result
          \/ \E ok \in BOOLEAN : result' = [op |-> "poll", ok |-> ok]
      OBVIOUS
    <3>1. result' \in Results
      BY <3>0, ResultType
    <3>2. readErr' \in [code : ReadCodes, ep : Endpoints]
      OBVIOUS
    <3>3. pc' \in {"idle", "read", "gone"} \cup CloseSteps \cup OpenSteps
      OBVIOUS
    <3>4. i' \in 0..(LastIf + LastEp + 1)
      OBVIOUS
    <3> QED
      BY <3>1, <3>2, <3>3, <3>4
  <2>2. Bookkeeping'
    BY <1>18 DEF ReadFails, ReadErrors, EndsPoll, NextEndpoint, Return
  <2>3. PollVerdict'
    BY <1>18 DEF ReadFails, ReadErrors, EndsPoll, NextEndpoint, Return
  <2>4. AtEachCall'
    BY <1>18 DEF ReadFails, ReadErrors, EndsPoll, NextEndpoint, Return
  <2> QED BY <2>1, <2>2, <2>3, <2>4 DEF IInv
<1>19. CASE Unplug
  <2>1. TypeOK'
    <3> USE <1>19 DEF Unplug
    <3>1. handle' \in {"null", "live", "stale"}
      OBVIOUS
    <3>2. alt' \in [AltInterfaces -> {0, 1}]
      OBVIOUS
    <3>3. attached' \in BOOLEAN /\ osClaims' \in SUBSET Interfaces
      OBVIOUS
    <3> QED
      BY <3>1, <3>2, <3>3
  <2>2. Bookkeeping'
    BY <1>19 DEF Unplug
  <2>3. PollVerdict'
    BY <1>19 DEF Unplug
  <2>4. AtEachCall'
    BY <1>19 DEF Unplug
  <2> QED BY <2>1, <2>2, <2>3, <2>4 DEF IInv
<1>20. CASE Plug
  BY <1>20 DEF Plug
<1>21. CASE UNCHANGED vars
  BY <1>21 DEF vars
<1> QED
  BY <1>1, <1>2, <1>3, <1>4, <1>5, <1>6, <1>7, <1>8, <1>9, <1>10, <1>11, <1>12, <1>13,
     <1>14, <1>15, <1>16, <1>17, <1>18, <1>19, <1>20, <1>21
     DEF Next, Call, CloseStep, OpenStep, PollStep

(* The inductive invariant holds in every state of every behaviour.        *)
THEOREM Invariant == Spec => []IInv
BY InitInvariant, NextInvariant, PTL DEF Spec

(* Type correctness.                                                       *)
THEOREM TypeCorrect == Spec => []TypeOK
<1>1. IInv => TypeOK
  BY DEF IInv
<1> QED
  BY Invariant, <1>1, PTL

(* Whichever call of open() fails and whenever the device leaves, a method *)
(* that has returned leaves a complete session or nothing behind.          *)
THEOREM SessionAllOrNothing == Spec => []ResourcesMatchSession
<1>1. IInv => ResourcesMatchSession
  BY DEF IInv, TypeOK, ResourcesMatchSession, Bookkeeping, AtEachCall, AtIdle, AtGone,
         AllClaimed, NoneClaimed, IsOpen, Interfaces
<1> QED
  BY Invariant, <1>1, PTL

(* A device that stays on the bus has all its settings at 1 under an open  *)
(* session; without one a setting is only left at 1 where the device       *)
(* refused its reset.                                                      *)
THEOREM SettingsRestored == Spec => []SettingsMatchSession
<1>1. IInv => SettingsMatchSession
  BY DEF IInv, TypeOK, SettingsMatchSession, Bookkeeping, AtEachCall, AtIdle, AtGone,
         AllClaimed, NoneClaimed, AltOne, IsOpen, Interfaces, AltInterfaces
<1> QED
  BY Invariant, <1>1, PTL

(* libusb_exit is never called under an open handle.                       *)
THEOREM HandleInsideContext == Spec => []ContextOutlivesHandle
<1>1. IInv => ContextOutlivesHandle
  BY DEF IInv, ContextOutlivesHandle, Bookkeeping
<1> QED
  BY Invariant, <1>1, PTL

(* A poll of an open session fails exactly when the error recorded last is *)
(* a fatal one of a control endpoint.                                      *)
THEOREM PollReportsItsError == Spec => []PollVerdict
<1>1. IInv => PollVerdict
  BY DEF IInv
<1> QED
  BY Invariant, <1>1, PTL

(* The initial states of the class are initial states of the session.      *)
LEMMA SessionInit == Init => Session!Init
BY DEF Init, Session!Init, callBar, sessionBar, heldBar, IsOpen, OpenSteps

(* Every step of the class or of the device is a step of the session or    *)
(* leaves the session as it is.                                            *)
LEMMA SessionNext == IInv /\ IInv' /\ [Next]_vars => [Session!Next]_(Session!vars)
<1> SUFFICES ASSUME IInv, IInv', [Next]_vars PROVE [Session!Next]_(Session!vars)
  OBVIOUS
<1> USE DEF IInv, TypeOK, Bookkeeping, AtEachCall, IsOpen, Callers, CloseSteps, OpenSteps,
            Interfaces, AltInterfaces, AllClaimed, NoneClaimed, object, errors, usb, settings,
            AtIdle, AtRead, AtAlt0, AtRelease, AtCloseHandle, AtExit, AtInit,
            AtOpenDevice, AtClaim, AtSetAlt, AtGone,
            callBar, sessionBar, heldBar,
            Session!vars, Session!Next, Session!Calls, Session!Holdings
<1>1. CASE CallOpen
  BY <1>1 DEF CallOpen, EnterClose, Session!Begin
<1>2. CASE CallClose
  BY <1>2 DEF CallClose, EnterClose, Session!Begin
<1>3. CASE CallDestroy
  BY <1>3 DEF CallDestroy, EnterClose, Session!Begin
<1>4. CASE CallPoll
  BY <1>4 DEF CallPoll, Session!Begin
<1>5. CASE PollClosed
  BY <1>5 DEF PollClosed, Return
<1>6. CASE SendRawTransfer
  BY <1>6 DEF SendRawTransfer, Return
<1>7. CASE ResetAlt
  BY <1>7 DEF ResetAlt
<1>8. CASE Release
  BY <1>8 DEF Release, Session!Work
<1>9. CASE CloseHandle
  BY <1>9 DEF CloseHandle, Session!Work
<1>10. CASE Exit
  BY <1>10 DEF Exit, Return, Session!Work, Session!Return
<1>11. CASE InitFails
  BY <1>11 DEF InitFails, Return, Session!Return
<1>12. CASE LibInit
  BY <1>12 DEF LibInit, Session!Work
<1>13. CASE OpenDeviceFails \/ ClaimFails \/ SetAltFails
  BY <1>13 DEF OpenDeviceFails, ClaimFails, SetAltFails, AbortOpen, EnterClose
<1>14. CASE OpenDevice
  BY <1>14 DEF OpenDevice, Session!Work
<1>15. CASE Claim
  BY <1>15 DEF Claim, Session!Work
<1>16. CASE SetAlt
  BY <1>16 DEF SetAlt, Return, Session!Return
<1>17. CASE ReadCompletes
  BY <1>17 DEF ReadCompletes, NextEndpoint, Return, Session!Return
<1>18. CASE ReadFails
  BY <1>18 DEF ReadFails, ReadErrors, EndsPoll, NextEndpoint, Return, Session!Return
<1>19. CASE Unplug
  BY <1>19 DEF Unplug
<1>20. CASE Plug
  BY <1>20 DEF Plug
<1>21. CASE UNCHANGED vars
  BY <1>21 DEF vars
<1> QED
  BY <1>1, <1>2, <1>3, <1>4, <1>5, <1>6, <1>7, <1>8, <1>9, <1>10, <1>11, <1>12, <1>13, <1>14, <1>15, <1>16, <1>17, <1>18, <1>19, <1>20, <1>21
     DEF Next, Call, CloseStep, OpenStep, PollStep

(* The class implements the all-or-nothing session.                        *)
THEOREM ImplementsSession == Spec => SessionSpec
BY SessionInit, SessionNext, Invariant, PTL DEF Spec, SessionSpec, Session!Spec
==============================================================================
