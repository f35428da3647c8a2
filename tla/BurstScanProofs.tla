---------------------------- MODULE BurstScanProofs ----------------------------
(***************************************************************************)
(* Proofs about BurstScan, for every number of candidates, interfaces and  *)
(* endpoints and every retry setting.                                      *)
(***************************************************************************)
EXTENDS BurstScan, FiniteSetTheorems, SequenceTheorems, TLAPS

USE ScanAssumption

(* The initial states satisfy the first part of the invariant.             *)
LEMMA InitSession == Init => SessionInv
<1> SUFFICES ASSUME Init PROVE SessionInv
  OBVIOUS
<1>1. SessionTypes
  BY DEF Init, SessionTypes, MainSteps
<1>2. Bookkeeping
  BY DEF Init, Bookkeeping
<1>3. AtEachStep
  BY DEF Init, AtEachStep, RunSteps
<1> QED  BY <1>1, <1>2, <1>3 DEF SessionInv

(* Every step of the tool and of the device preserves it.                  *)
LEMMA NextSession == SessionInv /\ [Next]_vars => SessionInv'
<1> SUFFICES ASSUME SessionInv, [Next]_vars PROVE SessionInv'
  OBVIOUS
<1> USE DEF SessionInv, SessionTypes, Bookkeeping, AtEachStep, SetUp, IsOpen,
            CloseSteps, OpenSteps, MainSteps, RunSteps, Interfaces, AltInterfaces,
            session, scan, counters, usb, settings, history
<1>1. CASE ResetAlt
  <2>1. SessionTypes'
    BY <1>1 DEF ResetAlt
  <2>2. Bookkeeping'
    BY <1>1 DEF ResetAlt
  <2>3. /\ i \in AltInterfaces /\ handle # "null" /\ handle' = handle
        /\ \A f \in AltInterfaces : f <= i /\ f \in alt' => f \in refused'
    BY <1>1 DEF ResetAlt
  <2>4. ASSUME i < LastIf  PROVE AtEachStep'
    BY <1>1, <2>3, <2>4 DEF ResetAlt
  <2>5. ASSUME ~(i < LastIf)  PROVE AtEachStep'
    <3>1. \A f \in AltInterfaces : f <= i
      BY <2>3, <2>5
    <3>2. alt' \subseteq refused'
      BY <2>1, <2>3, <3>1
    <3>3. pc' = "release" /\ i' = 0 /\ handle' # "null"
      BY <1>1, <2>5 DEF ResetAlt
    <3>4. 0 \in Interfaces /\ \A f \in Interfaces : ~(f < 0)
      OBVIOUS
    <3> QED  BY <3>2, <3>3, <3>4
  <2> QED  BY <2>1, <2>2, <2>4, <2>5
<1>2. CASE Release
  <2>1. SessionTypes'
    BY <1>2 DEF Release
  <2>2. osClaims' = IF handle = "live" THEN claimed' ELSE {}
    <3>1. CASE handle = "live"
      BY <1>2, <3>1 DEF Release
    <3>2. CASE handle # "live"
      BY <1>2, <3>2 DEF Release
    <3> QED  BY <3>1, <3>2
  <2>3. Bookkeeping'
    <3>1. alt' \subseteq refused' /\ handle' = handle /\ handle # "null"
      BY <1>2 DEF Release
    <3>2. ctx' = ctx /\ ctxCount' = ctxCount /\ handleCount' = handleCount
      BY <1>2 DEF Release
    <3>3. attached' = attached
      BY <1>2 DEF Release
    <3> QED  BY <2>2, <3>1, <3>2, <3>3
  <2>4. /\ i \in Interfaces /\ i \notin claimed' /\ claimed' \subseteq claimed
        /\ \A f \in Interfaces : f < i => f \notin claimed
        /\ alt' \subseteq refused' /\ handle' # "null"
    BY <1>2 DEF Release
  <2>5. ASSUME i < LastIf  PROVE AtEachStep'
    BY <1>2, <2>4, <2>5 DEF Release
  <2>6. ASSUME ~(i < LastIf)  PROVE AtEachStep'
    <3>1. \A f \in Interfaces : f # i => f < i
      BY <2>4, <2>6
    <3>2. claimed' = {}
      BY <2>4, <3>1
    <3> QED  BY <1>2, <2>4, <2>6, <3>2 DEF Release
  <2> QED  BY <2>1, <2>3, <2>5, <2>6
<1>3. CASE CloseHandle
  BY <1>3 DEF CloseHandle
<1>4. CASE Exit
  <2>1. pc' \in {"init", "openFailed", "loop", "gone"}
    BY <1>4 DEF Exit
  <2>2. current' \in Nat
    <3>1. current' = current \/ current' = current + 1
      BY <1>4 DEF Exit
    <3> QED  BY <3>1
  <2>3. SessionTypes'
    BY <1>4, <2>1, <2>2 DEF Exit
  <2>4. Bookkeeping'
    BY <1>4 DEF Exit
  <2>5. AtEachStep'
    BY <1>4, <2>1 DEF Exit
  <2> QED  BY <2>3, <2>4, <2>5
<1>5. CASE InitFails
  BY <1>5 DEF InitFails
<1>6. CASE LibInit
  BY <1>6 DEF LibInit
<1>7. CASE OpenDevice
  BY <1>7 DEF OpenDevice
<1>8. CASE OpenDeviceFails
  BY <1>8 DEF OpenDeviceFails
<1>9. CASE GiveUpDevice \/ ClaimFails \/ SetAltFails
  <2>1. PICK step \in {"openDevice", "claim", "setAlt"} : pc = step /\ AbortOpen
    BY <1>9 DEF GiveUpDevice, ClaimFails, SetAltFails
  <2> QED
    BY <2>1 DEF AbortOpen, EnterClose
<1>10. CASE Claim
  <2>1. SessionTypes'
    BY <1>10 DEF Claim
  <2>2. Bookkeeping'
    BY <1>10 DEF Claim
  <2>3. /\ i \in Interfaces /\ claimed' = claimed \cup {i} /\ handle' = "live"
        /\ \A f \in Interfaces : f < i => f \in claimed
    BY <1>10 DEF Claim
  <2>4. ASSUME i < LastIf  PROVE AtEachStep'
    BY <1>10, <2>3, <2>4 DEF Claim
  <2>5. ASSUME ~(i < LastIf)  PROVE AtEachStep'
    <3>1. \A f \in Interfaces : f # i => f < i
      BY <2>3, <2>5
    <3>2. claimed' = Interfaces
      BY <2>1, <2>3, <3>1
    <3> QED  BY <1>10, <2>5, <3>2 DEF Claim
  <2> QED  BY <2>1, <2>2, <2>4, <2>5
<1>11. CASE SetAlt
  <2>1. SessionTypes'
    BY <1>11 DEF SetAlt
  <2>2. /\ i \in AltInterfaces /\ alt' = alt \cup {i} /\ handle' = "live" /\ handle = "live"
        /\ \A f \in AltInterfaces : f < i => f \in alt
    BY <1>11 DEF SetAlt
  <2>3. claimed' = Interfaces /\ osClaims' = Interfaces
    BY <1>11 DEF SetAlt
  <2>4. alt' \subseteq osClaims'
    BY <2>2, <2>3
  <2>5. Bookkeeping'
    BY <1>11, <2>2, <2>3, <2>4 DEF SetAlt
  <2>6. ASSUME i < LastIf  PROVE AtEachStep'
    BY <1>11, <2>2, <2>3, <2>6 DEF SetAlt
  <2>7. ASSUME ~(i < LastIf)  PROVE AtEachStep'
    <3>1. \A f \in AltInterfaces : f # i => f < i
      BY <2>2, <2>7
    <3>2. alt' = AltInterfaces
      BY <2>1, <2>2, <3>1
    <3> QED  BY <1>11, <2>2, <2>3, <2>7, <3>2 DEF SetAlt
  <2> QED  BY <2>1, <2>5, <2>6, <2>7
<1>12. CASE BeginRun
  BY <1>12 DEF BeginRun
<1>13. CASE Send
  BY <1>13 DEF Send
<1>14. CASE NextRound \/ WindowOver
  BY <1>14 DEF NextRound, WindowOver
<1>15. CASE Read
  BY <1>15 DEF Read, NextRead
<1>16. CASE FirstOpen
  BY <1>16 DEF FirstOpen, EnterClose
<1>17. CASE Opened
  BY <1>17 DEF Opened
<1>18. CASE FirstOpenFailed
  BY <1>18 DEF FirstOpenFailed, Leave, EnterClose
<1>19. CASE ReopenFailed
  <2>1. SessionTypes'
    BY <1>19 DEF ReopenFailed, Leave, EnterClose
  <2>2. Bookkeeping'
    BY <1>19 DEF ReopenFailed, Leave, EnterClose
  <2>3. AtEachStep'
    BY <1>19 DEF ReopenFailed, Leave, EnterClose
  <2> QED  BY <2>1, <2>2, <2>3
<1>20. CASE Loop
  BY <1>20 DEF Loop, Leave, EnterClose
<1>21. CASE JudgeTest
  BY <1>21 DEF JudgeTest
<1>22. CASE JudgeRerun
  BY <1>22 DEF JudgeRerun
<1>23. CASE After
  BY <1>23 DEF After, EnterClose
<1>24. CASE Unplug
  <2>1. SessionTypes'
    BY <1>24 DEF Unplug
  <2>2. Bookkeeping'
    BY <1>24 DEF Unplug
  <2>3. AtEachStep'
    BY <1>24 DEF Unplug
  <2> QED  BY <2>1, <2>2, <2>3
<1>25. CASE Plug
  BY <1>25 DEF Plug
<1>26. CASE UNCHANGED vars
  BY <1>26 DEF vars
<1> QED
  BY <1>1, <1>2, <1>3, <1>4, <1>5, <1>6, <1>7, <1>8, <1>9, <1>10, <1>11, <1>12, <1>13,
     <1>14, <1>15, <1>16, <1>17, <1>18, <1>19, <1>20, <1>21, <1>22, <1>23, <1>24, <1>25, <1>26
     DEF Next, Program, CloseStep, OpenStep, RunStep, MainStep

(* The second part: a fatal error of a test reaches main, which closes.    *)
LEMMA NextLoss == SessionInv /\ LossIsNoted /\ [Next]_vars => LossIsNoted'
<1> SUFFICES ASSUME SessionInv, LossIsNoted, [Next]_vars PROVE LossIsNoted'
  OBVIOUS
<1>0. /\ pc = "exit" => handle = "null"
      /\ pc = "openDevice" => handle = "null"
      /\ pc = "openFailed" => handle = "null"
  BY DEF SessionInv, Bookkeeping, AtEachStep
<1> USE DEF LossIsNoted, IsOpen, CloseSteps, OpenSteps, MainSteps, RunSteps, Clean,
            session, scan, counters, usb, settings, history
<1>1. CASE ResetAlt
  BY <1>1 DEF ResetAlt
<1>2. CASE Release
  BY <1>2 DEF Release
<1>3. CASE CloseHandle
  BY <1>3 DEF CloseHandle
<1>4. CASE Exit
  BY <1>0, <1>4 DEF Exit
<1>5. CASE InitFails
  BY <1>5 DEF InitFails
<1>6. CASE LibInit
  BY <1>6 DEF LibInit
<1>7. CASE OpenDevice
  BY <1>7 DEF OpenDevice
<1>8. CASE OpenDeviceFails
  BY <1>8 DEF OpenDeviceFails
<1>9. CASE GiveUpDevice \/ ClaimFails \/ SetAltFails
  BY <1>9 DEF GiveUpDevice, ClaimFails, SetAltFails, AbortOpen, EnterClose
<1>10. CASE Claim
  BY <1>10 DEF Claim
<1>11. CASE SetAlt
  BY <1>11 DEF SetAlt
<1>12. CASE BeginRun
  BY <1>12 DEF BeginRun
<1>13. CASE Send
  <2>1. pc = "send" /\ rerun' = rerun /\ kept' = kept /\ pc' \in {"send", "window", "judge"}
    BY <1>13 DEF Send
  <2>2. \/ lost' = lost /\ res' = res /\ pc' \in {"send", "window"}
        \/ \E error \in Errors :
             /\ res' = SendFails(error)
             /\ lost' = (lost \/ (error = "fatal" /\ ~rerun))
             /\ error = "fatal" => pc' = "judge"
             /\ error # "fatal" => pc' \in {"send", "window"}
    BY <1>13 DEF Send
  <2>3. CASE lost' = lost /\ res' = res /\ pc' \in {"send", "window"}
    BY <2>1, <2>3
  <2>4. ASSUME NEW error \in Errors, res' = SendFails(error),
               lost' = (lost \/ (error = "fatal" /\ ~rerun)),
               error = "fatal" => pc' = "judge",
               error # "fatal" => pc' \in {"send", "window"}
        PROVE  LossIsNoted'
    <3>1. DOMAIN res' = DOMAIN Clean
      BY <2>4 DEF SendFails
    <3>2. error = "fatal" => res'.fatal
      BY <2>4 DEF SendFails
    <3> QED  BY <2>1, <2>4, <3>1, <3>2
  <2> QED  BY <2>2, <2>3, <2>4
<1>14. CASE NextRound \/ WindowOver
  BY <1>14 DEF NextRound, WindowOver
<1>15. CASE Read
  <2>1. pc = "read" /\ rerun' = rerun /\ kept' = kept
    BY <1>15 DEF Read
  <2>2. \/ lost' = lost /\ DOMAIN res' = DOMAIN res /\ pc' \in {"read", "window"}
        \/ lost' = (lost \/ ~rerun) /\ res' = [res EXCEPT !.fatal = TRUE] /\ pc' = "judge"
    BY <1>15 DEF Read, NextRead
  <2>3. CASE lost' = lost /\ DOMAIN res' = DOMAIN res /\ pc' \in {"read", "window"}
    BY <2>1, <2>3
  <2>4. CASE lost' = (lost \/ ~rerun) /\ res' = [res EXCEPT !.fatal = TRUE] /\ pc' = "judge"
    BY <2>1, <2>4
  <2> QED  BY <2>2, <2>3, <2>4
<1>16. CASE FirstOpen
  BY <1>16 DEF FirstOpen, EnterClose
<1>17. CASE Opened
  BY <1>17 DEF Opened
<1>18. CASE FirstOpenFailed
  BY <1>18 DEF FirstOpenFailed, Leave, EnterClose
<1>19. CASE ReopenFailed
  BY <1>0, <1>19 DEF ReopenFailed, Leave, EnterClose
<1>20. CASE Loop
  BY <1>20 DEF Loop, Leave, EnterClose
<1>21. CASE JudgeTest
  BY <1>21 DEF JudgeTest
<1>22. CASE JudgeRerun
  BY <1>22 DEF JudgeRerun
<1>23. CASE After
  BY <1>23 DEF After, EnterClose
<1>24. CASE Unplug
  BY <1>24 DEF Unplug
<1>25. CASE Plug
  BY <1>25 DEF Plug
<1>26. CASE UNCHANGED vars
  BY <1>26 DEF vars
<1> QED
  BY <1>1, <1>2, <1>3, <1>4, <1>5, <1>6, <1>7, <1>8, <1>9, <1>10, <1>11, <1>12, <1>13,
     <1>14, <1>15, <1>16, <1>17, <1>18, <1>19, <1>20, <1>21, <1>22, <1>23, <1>24, <1>25, <1>26
     DEF Next, Program, CloseStep, OpenStep, RunStep, MainStep

(* The third part.  Most steps leave what it is about as it is.            *)
LEMMA QuietStep ==
  ASSUME MissesCounted, UNCHANGED <<outcomes, consecutive, exitCode, current>>,
         exitCode = -1,
         pc' # "gone", ~(pc \in CloseSteps /\ cont = "destroy")',
         Pending' <=> Pending,
         (Testing /\ ~rerun) => (Testing /\ ~rerun)',
         (Testing \/ pc = "after" \/ (pc = "loop" /\ IsOpen))' =>
           \/ Testing \/ pc = "after" \/ (pc = "loop" /\ IsOpen) \/ consecutive = 0,
         pc' \in RunSteps \cup {"run", "judge", "after", "loop"} =>
           pc \in RunSteps \cup {"run", "judge", "after", "loop"}
  PROVE  MissesCounted'
<1> USE DEF MissesCounted, AllSkipped
<1>1. /\ outcomes' \in Seq({"tested", "skipped"})
      /\ consecutive' \in 0..Len(outcomes')
      /\ exitCode' = -1
      /\ consecutive' < MaxOpenFails
      /\ AllSkipped(Len(outcomes) - consecutive + 1, Len(outcomes))'
  OBVIOUS
<1>2. current' = 0 => outcomes' = <<>> /\ pc' \notin RunSteps \cup {"run", "judge", "after", "loop"}
  OBVIOUS
<1>3. current' > 0 => Len(outcomes') = IF Pending' THEN current' ELSE current' - 1
  OBVIOUS
<1>4. (Testing \/ pc = "after" \/ (pc = "loop" /\ IsOpen))' => consecutive' = 0
  OBVIOUS
<1>5. \A k \in 1..Len(outcomes') :
        AllSkipped(k, Len(outcomes))' =>
          \/ Len(outcomes') - k < consecutive'
          \/ (Testing /\ ~rerun)' /\ Len(outcomes') - k + 1 < MaxOpenFails
  OBVIOUS
<1> QED  BY <1>1, <1>2, <1>3, <1>4, <1>5

(* So do the steps of the destructor.                                      *)
LEMMA QuietExit ==
  ASSUME MissesCounted, UNCHANGED <<outcomes, consecutive, exitCode, current, cont>>,
         exitCode # -1, pc' \in {"alt0", "release", "closeHandle", "exit", "gone"}
  PROVE  MissesCounted'
BY DEF MissesCounted, AllSkipped, Testing, RunSteps

(* Every step preserves the third part: consecutive is the number of       *)
(* skipped candidates at the end of the scan.                              *)
LEMMA NextMisses == IInv /\ [Next]_vars => MissesCounted'
<1> SUFFICES ASSUME IInv, [Next]_vars PROVE MissesCounted'
  OBVIOUS
<1>0. /\ pc \in {"start", "exit", "openDevice", "openFailed", "gone", "init"} => handle = "null"
      /\ pc \in {"opened", "claim", "setAlt"} => handle # "null"
      /\ pc \in CloseSteps \cup OpenSteps \cup MainSteps \cup RunSteps \cup {"gone"}
      /\ cont \in {"open", "failed", "drop", "destroy"}
      /\ current \in Nat
  BY DEF IInv, SessionInv, SessionTypes, Bookkeeping, AtEachStep, SetUp
<1>m. MissesCounted
  BY DEF IInv
<1>r. rerun \in BOOLEAN /\ (rerun => pc \in RunSteps \cup {"run", "judge"})
  BY DEF IInv, LossIsNoted
<1>e. /\ exitCode # -1 => pc \in {"alt0", "release", "closeHandle", "exit", "gone"}
                           /\ cont = "destroy"
      /\ exitCode = -1 => pc # "gone" /\ ~(pc \in CloseSteps /\ cont = "destroy")
      /\ exitCode = -1 /\ pc \in RunSteps \cup {"run", "judge", "after", "loop"} => current > 0
  BY <1>0, <1>m DEF MissesCounted
<1> USE DEF IsOpen, CloseSteps, OpenSteps, MainSteps, RunSteps, Pending, Testing,
            session, scan, counters, usb, settings, history
<1>1. ASSUME ResetAlt \/ Release \/ CloseHandle PROVE MissesCounted'
  <2>1. /\ UNCHANGED <<outcomes, consecutive, exitCode, current, cont, rerun>>
        /\ pc \in {"alt0", "release", "closeHandle"}
        /\ pc' \in {"alt0", "release", "closeHandle", "exit"}
    BY <1>1 DEF ResetAlt, Release, CloseHandle
  <2>2. CASE exitCode = -1
    BY <1>m, <1>r, <1>e, <2>1, <2>2, QuietStep
  <2>3. CASE exitCode # -1
    BY <1>m, <2>1, <2>3, QuietExit
  <2> QED  BY <2>2, <2>3
<1>3. CASE InitFails \/ LibInit \/ OpenDevice \/ OpenDeviceFails \/ Claim \/ SetAlt
  <2>1. /\ UNCHANGED <<outcomes, consecutive, exitCode, current, cont, rerun>>
        /\ pc \in {"init", "openDevice", "claim", "setAlt"}
        /\ pc' \in {"openFailed", "openDevice", "claim", "setAlt", "opened"}
    BY <1>3 DEF InitFails, LibInit, OpenDevice, OpenDeviceFails, Claim, SetAlt
  <2> QED  BY <1>m, <1>r, <1>e, <2>1, QuietStep
<1>4. CASE GiveUpDevice \/ ClaimFails \/ SetAltFails
  <2>1. /\ UNCHANGED <<outcomes, consecutive, exitCode, current, rerun>>
        /\ pc \in {"openDevice", "claim", "setAlt"}
        /\ pc' \in {"alt0", "exit"} /\ cont' = "failed"
    BY <1>4 DEF GiveUpDevice, ClaimFails, SetAltFails, AbortOpen, EnterClose
  <2> QED  BY <1>m, <1>r, <1>e, <2>1, QuietStep
<1>5. CASE BeginRun \/ Send \/ NextRound \/ WindowOver \/ Read
  <2>1. /\ UNCHANGED <<outcomes, consecutive, exitCode, current, cont, rerun>>
        /\ pc \in RunSteps \cup {"run"}
        /\ pc' \in RunSteps \cup {"judge"}
    BY <1>5 DEF BeginRun, Send, NextRound, WindowOver, Read, NextRead
  <2> QED  BY <1>m, <1>r, <1>e, <2>1, QuietStep
<1>6. CASE FirstOpen
  <2>1. /\ UNCHANGED <<outcomes, consecutive, exitCode, current, rerun>>
        /\ pc = "start" /\ pc' \in {"alt0", "exit"} /\ cont' = "open"
    BY <1>6 DEF FirstOpen, EnterClose
  <2> QED  BY <1>m, <1>r, <1>e, <2>1, QuietStep
<1>7. CASE JudgeRerun
  <2>1. /\ UNCHANGED <<outcomes, consecutive, exitCode, current, cont>>
        /\ pc = "judge" /\ pc' = "after" /\ rerun /\ ~rerun'
    BY <1>7 DEF JudgeRerun
  <2> QED  BY <1>m, <1>r, <1>e, <2>1, QuietStep
<1>8. CASE Unplug \/ Plug
  <2>1. /\ UNCHANGED <<outcomes, consecutive, exitCode, current, cont, rerun, pc>>
        /\ handle' = "null" <=> handle = "null"
    BY <1>8 DEF Unplug, Plug
  <2>2. CASE exitCode = -1
    BY <1>m, <1>r, <1>e, <2>1, <2>2, QuietStep
  <2>3. CASE exitCode # -1
    BY <1>m, <1>e, <2>1, <2>3, QuietExit
  <2> QED  BY <2>2, <2>3
<1>9. CASE UNCHANGED vars
  <2>1. UNCHANGED <<outcomes, consecutive, exitCode, current, cont, rerun, pc, handle>>
    BY <1>9 DEF vars
  <2>2. CASE exitCode = -1
    BY <1>m, <1>r, <1>e, <2>1, <2>2, QuietStep
  <2>3. CASE exitCode # -1
    BY <1>m, <1>e, <2>1, <2>3, QuietExit
  <2> QED  BY <2>2, <2>3
<1>10. CASE Exit
  <2>1. /\ UNCHANGED <<outcomes, consecutive, exitCode, cont, rerun, handle>>
        /\ pc = "exit"
        /\ \/ cont = "open" /\ pc' = "init" /\ current' = current
           \/ cont = "failed" /\ pc' = "openFailed" /\ current' = current
           \/ cont = "drop" /\ pc' = "loop" /\ current' = current + 1
           \/ cont = "destroy" /\ pc' = "gone" /\ current' = current
    BY <1>10 DEF Exit
  <2>2. CASE exitCode # -1
    BY <1>m, <1>e, <2>1, <2>2, QuietExit
  <2>3. CASE exitCode = -1 /\ cont # "drop"
    BY <1>m, <1>r, <1>e, <2>1, <2>3, QuietStep
  <2>4. CASE exitCode = -1 /\ cont = "drop"
    <3>1. current' > 0 /\ current' = current + 1 /\ ~Pending' /\ Pending
      BY <1>0, <1>r, <2>1, <2>4
    <3>2. Len(outcomes') = current' - 1
      BY <1>0, <1>m, <2>1, <2>4, <3>1 DEF MissesCounted
    <3>3. ~(Testing \/ pc = "after" \/ (pc = "loop" /\ IsOpen))'
      BY <1>0, <2>1, <2>4
    <3> QED  BY <1>0, <1>m, <1>r, <2>1, <2>4, <3>1, <3>2, <3>3 DEF MissesCounted, AllSkipped
  <2> QED  BY <2>2, <2>3, <2>4
<1>11. CASE Opened
  <2>1. /\ UNCHANGED <<outcomes, exitCode, cont, rerun, handle>>
        /\ pc = "opened" /\ exitCode = -1 /\ ~rerun
    BY <1>11, <1>e, <1>r DEF Opened
  <2>2. CASE current = 0
    <3>1. current' = 1 /\ pc' = "loop" /\ consecutive' = consecutive /\ ~Pending'
      BY <1>11, <2>1, <2>2 DEF Opened
    <3>2. outcomes = <<>> /\ consecutive = 0
      BY <1>m, <2>1, <2>2 DEF MissesCounted
    <3> QED  BY <1>m, <2>1, <2>2, <3>1, <3>2 DEF MissesCounted, AllSkipped
  <2>3. CASE current # 0
    <3>1. current' = current /\ pc' = "run" /\ consecutive' = 0 /\ ~Pending' /\ ~Pending
      BY <1>11, <2>1, <2>3 DEF Opened
    <3>2. \A k \in 1..Len(outcomes') :
            AllSkipped(k, Len(outcomes))' => Len(outcomes') - k + 1 < MaxOpenFails
      <4>1. outcomes' = outcomes /\ Len(outcomes) \in Nat /\ MaxOpenFails \in Nat
        BY <1>m, <2>1, LenProperties DEF MissesCounted
      <4>2. \A k \in 1..Len(outcomes) :
              AllSkipped(k, Len(outcomes))' <=> AllSkipped(k, Len(outcomes))
        BY <4>1 DEF AllSkipped
      <4>3. \A k \in 1..Len(outcomes) :
              AllSkipped(k, Len(outcomes)) => Len(outcomes) - k < consecutive
        BY <1>m, <2>1 DEF MissesCounted
      <4>4. consecutive \in Nat /\ consecutive < MaxOpenFails
        BY <1>m, <2>1, <4>1 DEF MissesCounted
      <4> QED  BY <4>1, <4>2, <4>3, <4>4
    <3>3. (Testing /\ ~rerun)'
      BY <2>1, <3>1
    <3> QED
      BY <1>0, <1>m, <2>1, <2>3, <3>1, <3>2, <3>3 DEF MissesCounted, AllSkipped
  <2> QED  BY <2>2, <2>3
<1>12. CASE FirstOpenFailed
  <2>1. /\ UNCHANGED <<outcomes, consecutive, current, rerun>>
        /\ exitCode' = 3 /\ cont' = "destroy" /\ pc' \in {"alt0", "exit"}
    BY <1>12 DEF FirstOpenFailed, Leave, EnterClose
  <2> QED  BY <1>m, <1>r, <2>1 DEF MissesCounted, AllSkipped
<1>13. CASE Loop
  <2>1. UNCHANGED <<outcomes, consecutive, current, rerun>> /\ pc = "loop" /\ exitCode = -1
    BY <1>13, <1>e DEF Loop
  <2>2. CASE current > Tests
    <3>1. exitCode' = 0 /\ cont' = "destroy" /\ pc' \in {"alt0", "exit"}
      BY <1>13, <2>2 DEF Loop, Leave, EnterClose
    <3> QED  BY <1>m, <1>r, <2>1, <3>1 DEF MissesCounted, AllSkipped
  <2>3. CASE ~(current > Tests) /\ IsOpen
    <3>1. UNCHANGED <<exitCode, cont>> /\ pc' = "run"
      BY <1>13, <2>3 DEF Loop
    <3> QED  BY <1>m, <1>r, <1>e, <2>1, <2>3, <3>1, QuietStep
  <2>4. CASE ~(current > Tests) /\ ~IsOpen
    <3>1. exitCode' = exitCode /\ pc' \in {"alt0", "exit"} /\ cont' = "open"
      BY <1>13, <2>4 DEF Loop, EnterClose
    <3> QED  BY <1>m, <1>r, <1>e, <2>1, <2>4, <3>1, QuietStep
  <2> QED  BY <2>2, <2>3, <2>4
<1>14. CASE After
  <2>1. UNCHANGED <<outcomes, consecutive, exitCode, rerun, handle>> /\ pc = "after" /\ ~rerun
    BY <1>14, <1>r DEF After
  <2>2. CASE kept.fatal
    <3>1. current' = current /\ pc' \in {"alt0", "exit"} /\ cont' = "drop"
      BY <1>14, <2>2 DEF After, EnterClose
    <3> QED  BY <1>m, <1>r, <1>e, <2>1, <3>1, QuietStep
  <2>3. CASE ~kept.fatal
    <3>1. current' = current + 1 /\ pc' = "loop" /\ cont' = cont /\ ~Pending' /\ Pending
      BY <1>14, <2>1, <2>3 DEF After
    <3>2. exitCode = -1 /\ current > 0 /\ consecutive = 0
      BY <1>m, <1>e, <2>1 DEF MissesCounted
    <3>3. Len(outcomes') = current' - 1
      BY <1>0, <1>m, <2>1, <3>1, <3>2 DEF MissesCounted
    <3> QED  BY <1>0, <1>m, <2>1, <3>1, <3>2, <3>3 DEF MissesCounted, AllSkipped
  <2> QED  BY <2>2, <2>3
<1>15. CASE ReopenFailed
  <2>1. /\ outcomes' = Append(outcomes, "skipped")
        /\ consecutive' = consecutive + 1
        /\ pc = "openFailed" /\ current > 0 /\ exitCode = -1
        /\ UNCHANGED <<rerun, handle>> /\ ~rerun /\ ~IsOpen
    BY <1>15, <1>0, <1>e, <1>r DEF ReopenFailed
  <2>2. /\ outcomes' \in Seq({"tested", "skipped"})
        /\ Len(outcomes') = Len(outcomes) + 1
        /\ outcomes'[Len(outcomes')] = "skipped"
        /\ \A k \in 1..Len(outcomes) : outcomes'[k] = outcomes[k]
    BY <1>m, <2>1 DEF MissesCounted
  <2>3. Len(outcomes) \in Nat /\ consecutive \in 0..Len(outcomes) /\ consecutive < MaxOpenFails
    BY <1>m, <2>1 DEF MissesCounted
  <2>4. AllSkipped(Len(outcomes) - consecutive + 1, Len(outcomes))'
    <3>1. AllSkipped(Len(outcomes) - consecutive + 1, Len(outcomes))
      BY <1>m DEF MissesCounted
    <3> QED  BY <2>1, <2>2, <2>3, <3>1 DEF AllSkipped
  <2>5. \A k \in 1..Len(outcomes') :
          AllSkipped(k, Len(outcomes))' => Len(outcomes') - k < consecutive'
    <3> SUFFICES ASSUME NEW k \in 1..Len(outcomes'), AllSkipped(k, Len(outcomes))'
                 PROVE  Len(outcomes') - k < consecutive'
      OBVIOUS
    <3>1. CASE k = Len(outcomes')
      BY <2>1, <2>2, <2>3, <3>1
    <3>2. CASE k # Len(outcomes')
      <4>1. k \in 1..Len(outcomes) /\ AllSkipped(k, Len(outcomes))
        BY <2>2, <2>3, <3>2 DEF AllSkipped
      <4>2. Len(outcomes) - k < consecutive
        BY <1>m, <2>1, <4>1 DEF MissesCounted
      <4> QED  BY <2>1, <2>2, <2>3, <4>2
    <3> QED  BY <3>1, <3>2
  <2>6. Len(outcomes) = current - 1
    BY <1>m, <2>1 DEF MissesCounted
  <2>7. CASE consecutive' >= MaxOpenFails
    <3>1. exitCode' = 0 /\ cont' = "destroy" /\ pc' \in {"alt0", "exit"}
      BY <1>15, <2>7 DEF ReopenFailed, Leave, EnterClose
    <3> QED  BY <2>1, <2>2, <2>3, <2>4, <3>1 DEF MissesCounted
  <2>8. CASE ~(consecutive' >= MaxOpenFails)
    <3>1. exitCode' = -1 /\ current' = current + 1 /\ pc' = "loop"
      BY <1>15, <2>1, <2>8 DEF ReopenFailed
    <3>2. ~Pending' /\ ~(Testing \/ pc = "after" \/ (pc = "loop" /\ IsOpen))'
      BY <2>1, <3>1
    <3> QED
      BY <1>0, <2>1, <2>2, <2>3, <2>4, <2>5, <2>6, <2>8, <3>1, <3>2 DEF MissesCounted
  <2> QED  BY <2>7, <2>8
<1>16. CASE JudgeTest
  <2>1. /\ outcomes' = Append(outcomes, "tested")
        /\ UNCHANGED <<consecutive, exitCode, current, cont>>
        /\ pc = "judge" /\ ~rerun /\ exitCode = -1 /\ current > 0
        /\ \/ pc' = "run" /\ rerun' = TRUE
           \/ pc' = "after" /\ rerun' = rerun
    BY <1>16, <1>e DEF JudgeTest
  <2>2. /\ outcomes' \in Seq({"tested", "skipped"})
        /\ Len(outcomes') = Len(outcomes) + 1
        /\ outcomes'[Len(outcomes')] = "tested"
    BY <1>m, <2>1 DEF MissesCounted
  <2>3. consecutive = 0 /\ 0 < MaxOpenFails /\ Len(outcomes) = current - 1 /\ Len(outcomes) \in Nat
    BY <1>m, <2>1 DEF MissesCounted
  <2>4. \A k \in 1..Len(outcomes') : ~AllSkipped(k, Len(outcomes))'
    BY <2>2, <2>3 DEF AllSkipped
  <2>5. AllSkipped(Len(outcomes) - consecutive + 1, Len(outcomes))'
    BY <2>1, <2>2, <2>3 DEF AllSkipped
  <2>6. Pending' /\ Len(outcomes') = current'
    BY <1>0, <2>1, <2>2, <2>3
  <2> QED
    BY <2>1, <2>2, <2>3, <2>4, <2>5, <2>6 DEF MissesCounted
<1> QED
  BY <1>1, <1>3, <1>4, <1>5, <1>6, <1>7, <1>8, <1>9, <1>10, <1>11, <1>12, <1>13,
     <1>14, <1>15, <1>16
     DEF Next, Program, CloseStep, OpenStep, RunStep, MainStep

(* The rule by which the scan gives up.                                    *)
LEMMA NextGivesUp == IInv /\ [Next]_vars => GivesUpInTime'
<1> SUFFICES ASSUME IInv, [Next]_vars PROVE GivesUpInTime'
  OBVIOUS
<1>m. MissesCounted /\ GivesUpInTime /\ current \in Nat
  BY DEF IInv, SessionInv, SessionTypes
<1> USE DEF scan, counters, history
<1>1. CASE UNCHANGED <<outcomes, exitCode>>
  BY <1>m, <1>1 DEF GivesUpInTime, AllSkipped
<1>2. CASE FirstOpenFailed
  <2>1. outcomes' = outcomes /\ exitCode' = 3
    BY <1>2 DEF FirstOpenFailed, Leave
  <2> QED  BY <1>m, <2>1 DEF GivesUpInTime, AllSkipped
<1>3. CASE Loop
  <2>1. outcomes' = outcomes /\ (exitCode' = exitCode \/ current > Tests)
    BY <1>3 DEF Loop, EnterClose
  <2>2. CASE exitCode' = exitCode
    BY <1>1, <2>1, <2>2
  <2>3. CASE current > Tests
    <3>1. exitCode = -1 /\ pc = "loop"
      BY <1>m, <1>3 DEF MissesCounted, Loop
    <3>2. ~Pending
      BY <3>1 DEF Pending, CloseSteps, IInv, LossIsNoted, RunSteps
    <3>3. ~(Len(outcomes) < Tests)
      BY <1>m, <2>3, <3>1, <3>2 DEF MissesCounted
    <3> QED  BY <1>m, <2>1, <3>3 DEF GivesUpInTime, AllSkipped
  <2> QED  BY <2>1, <2>2, <2>3
<1>4. CASE ReopenFailed
  <2>1. /\ outcomes' = Append(outcomes, "skipped") /\ consecutive' = consecutive + 1
        /\ pc = "openFailed" /\ exitCode = -1
    BY <1>m, <1>4 DEF ReopenFailed, MissesCounted
  <2>2. /\ Len(outcomes) \in Nat
        /\ Len(outcomes') = Len(outcomes) + 1
        /\ outcomes'[Len(outcomes')] = "skipped"
        /\ \A k \in 1..Len(outcomes) : outcomes'[k] = outcomes[k]
        /\ consecutive \in 0..Len(outcomes) /\ consecutive < MaxOpenFails
    BY <1>m, <2>1 DEF MissesCounted
  <2>3. ASSUME NEW k \in 1..(Len(outcomes') - MaxOpenFails)
        PROVE  ~AllSkipped(k, k + MaxOpenFails - 1)'
    <3>1. CASE k \in 1..(Len(outcomes) - MaxOpenFails)
      <4>1. ~AllSkipped(k, k + MaxOpenFails - 1)
        BY <1>m, <3>1 DEF GivesUpInTime
      <4> QED  BY <2>2, <3>1, <4>1 DEF AllSkipped
    <3>2. CASE k \notin 1..(Len(outcomes) - MaxOpenFails)
      <4>1. k = Len(outcomes) - MaxOpenFails + 1 /\ k \in 1..Len(outcomes)
        BY <2>2, <3>2
      <4>2. ~AllSkipped(k, Len(outcomes))
        <5>1. AllSkipped(k, Len(outcomes)) => Len(outcomes) - k < consecutive \/ Testing
          BY <1>m, <2>1, <4>1 DEF MissesCounted
        <5>2. ~Testing
          BY <2>1 DEF Testing, RunSteps
        <5>3. ~(Len(outcomes) - k < consecutive)
          BY <2>2, <4>1
        <5> QED  BY <5>1, <5>2, <5>3
      <4>3. /\ k + MaxOpenFails - 1 = Len(outcomes)
            /\ \A q \in k..Len(outcomes) : outcomes'[q] = outcomes[q]
        BY <2>2, <4>1
      <4> QED  BY <4>2, <4>3 DEF AllSkipped
    <3> QED  BY <3>1, <3>2
  <2>4. ASSUME exitCode' = 0
        PROVE  /\ Len(outcomes') >= MaxOpenFails
               /\ AllSkipped(Len(outcomes) - MaxOpenFails + 1, Len(outcomes))'
    <3>1. consecutive + 1 = MaxOpenFails
      BY <1>4, <2>1, <2>2, <2>4 DEF ReopenFailed
    <3>2. AllSkipped(Len(outcomes) - consecutive + 1, Len(outcomes))
      BY <1>m DEF MissesCounted
    <3> QED  BY <2>2, <3>1, <3>2 DEF AllSkipped
  <2> QED  BY <2>3, <2>4 DEF GivesUpInTime
<1>5. CASE JudgeTest
  <2>1. /\ outcomes' = Append(outcomes, "tested")
        /\ pc = "judge" /\ exitCode = -1 /\ exitCode' = -1
    BY <1>m, <1>5 DEF JudgeTest, MissesCounted
  <2>2. /\ Len(outcomes) \in Nat
        /\ Len(outcomes') = Len(outcomes) + 1
        /\ \A k \in 1..Len(outcomes) : outcomes'[k] = outcomes[k]
    BY <1>m, <2>1 DEF MissesCounted
  <2>3. ASSUME NEW k \in 1..(Len(outcomes') - MaxOpenFails)
        PROVE  ~AllSkipped(k, k + MaxOpenFails - 1)'
    <3>1. CASE k \in 1..(Len(outcomes) - MaxOpenFails)
      <4>1. ~AllSkipped(k, k + MaxOpenFails - 1)
        BY <1>m, <3>1 DEF GivesUpInTime
      <4> QED  BY <2>2, <3>1, <4>1 DEF AllSkipped
    <3>2. CASE k \notin 1..(Len(outcomes) - MaxOpenFails)
      <4>1. k = Len(outcomes) - MaxOpenFails + 1 /\ k \in 1..Len(outcomes)
        BY <2>2, <3>2
      <4>2. ~AllSkipped(k, Len(outcomes))
        BY <1>m, <2>1, <2>2, <4>1 DEF MissesCounted, Testing, RunSteps
      <4> QED  BY <2>2, <4>1, <4>2 DEF AllSkipped
    <3> QED  BY <3>1, <3>2
  <2> QED  BY <2>1, <2>3 DEF GivesUpInTime
<1>6. ResetAlt \/ Release \/ CloseHandle \/ Exit \/ OpenStep \/ RunStep \/ FirstOpen
        \/ Opened \/ JudgeRerun \/ After \/ Unplug \/ Plug \/ UNCHANGED vars
      => UNCHANGED <<outcomes, exitCode>>
  BY DEF ResetAlt, Release, CloseHandle, Exit, OpenStep, InitFails, LibInit, OpenDevice,
         OpenDeviceFails, GiveUpDevice, Claim, ClaimFails, SetAlt, SetAltFails, AbortOpen,
         RunStep, BeginRun, Send, NextRound, WindowOver, Read,
         FirstOpen, Opened, JudgeRerun, After, Unplug, Plug, vars
<1> QED
  BY <1>1, <1>2, <1>3, <1>4, <1>5, <1>6 DEF Next, Program, CloseStep, MainStep

(* The three parts of the invariant hold when the tool starts.             *)
LEMMA InitInvariant == Init => IInv
<1> SUFFICES ASSUME Init PROVE IInv
  OBVIOUS
<1>1. SessionInv
  BY InitSession
<1>2. LossIsNoted
  BY DEF Init, LossIsNoted, Clean
<1>3. MissesCounted
  BY DEF Init, MissesCounted, AllSkipped, Testing, RunSteps, CloseSteps
<1>4. GivesUpInTime
  BY DEF Init, GivesUpInTime
<1> QED  BY <1>1, <1>2, <1>3, <1>4 DEF IInv

(* The tool never leaves the invariant, whatever the device does.          *)
THEOREM Invariant == Spec => []IInv
<1>1. IInv /\ [Next]_vars => IInv'
  <2> SUFFICES ASSUME IInv, [Next]_vars PROVE IInv'
    OBVIOUS
  <2>1. SessionInv'
    BY NextSession DEF IInv
  <2>2. LossIsNoted'
    BY NextLoss DEF IInv
  <2>3. MissesCounted'
    BY NextMisses
  <2>4. GivesUpInTime'
    BY NextGivesUp
  <2> QED  BY <2>1, <2>2, <2>3, <2>4 DEF IInv
<1> QED
  BY InitInvariant, <1>1, PTL DEF Spec

(* No candidate is tested in a session in which a test lost the device.    *)
THEOREM TestsNeedADevice == Spec => []NoTestOnLostSession
<1>1. IInv => NoTestOnLostSession
  BY DEF IInv, LossIsNoted, NoTestOnLostSession
<1> QED
  BY Invariant, <1>1, PTL

(* The scan gives up exactly after MaxOpenFails skipped candidates.        *)
THEOREM GivesUpByTheRule == Spec => []GivesUpInTime
<1>1. IInv => GivesUpInTime
  BY DEF IInv
<1> QED
  BY Invariant, <1>1, PTL

(* The settings of a device that stays are all 1 with a session; without   *)
(* one a setting is only left at 1 where the device refused its reset.     *)
THEOREM SettingsRestored == Spec => []SettingsMatchSession
<1>1. IInv => SettingsMatchSession
  BY DEF IInv, SessionInv, SessionTypes, Bookkeeping, AtEachStep, SetUp,
         SettingsMatchSession, IsOpen
<1> QED
  BY Invariant, <1>1, PTL

------------------------------------------------------------------------------
(* The summary and the list of the best results.                           *)

Entries == [candidate : Nat, score : Int, stream : Nat]

TestedPlaces  == {k \in 1..Len(outcomes) : outcomes[k] = "tested"}
SkippedPlaces == {k \in 1..Len(outcomes) : outcomes[k] = "skipped"}
Hits          == {k \in 1..Len(results) : results[k].stream > 0}

TallyTypes ==
  /\ res \in [status : Nat, stream : Nat, failures : Nat, fatal : BOOLEAN]
  /\ results \in Seq(Entries)
  /\ outcomes \in Seq({"tested", "skipped"})
  /\ opens \in Nat /\ disconnected \in Nat

(* The counters are those of the history.                                  *)
Counted ==
  /\ tested = Cardinality(TestedPlaces) /\ tested = Len(results)
  /\ openFailures = Cardinality(SkippedPlaces)
  /\ hits = Cardinality(Hits)

(* The results come in the order of the candidates, and the candidate that *)
(* is next to be tested has none.                                          *)
InOrder ==
  /\ \A a, b \in 1..Len(results) : a < b => results[a].candidate < results[b].candidate
  /\ \A k \in 1..Len(results) : results[k].candidate <= current
  /\ exitCode = -1 /\ ~Pending => \A k \in 1..Len(results) : results[k].candidate < current

(* A session that main uses was opened and has not been given up.          *)
InSession == pc \in RunSteps \cup {"opened", "run", "judge", "after"} \/ (pc = "loop" /\ IsOpen)

Sessions == exitCode = -1 => opens = disconnected + IF InSession THEN 1 ELSE 0

TallyInv == TallyTypes /\ Counted /\ InOrder /\ Sessions

(* The list holds everything as long as there is room.                     *)
RankInv ==
  /\ top \in Seq(Entries)
  /\ TopIsBest
  /\ Len(results) <= TopN => ToSet(results) \subseteq ToSet(top)

(* Appending to a sequence.                                                *)
LEMMA Appended ==
  ASSUME NEW S, NEW s \in Seq(S), NEW e \in S
  PROVE  /\ Append(s, e) \in Seq(S)
         /\ Len(s) \in Nat
         /\ Len(Append(s, e)) = Len(s) + 1
         /\ Append(s, e)[Len(s) + 1] = e
         /\ \A k \in 1..Len(s) : Append(s, e)[k] = s[k]
OBVIOUS

(* One more place counts as one more.                                      *)
LEMMA CountOneMore ==
  ASSUME NEW n \in Nat, NEW old \in SUBSET (1..n)
  PROVE  /\ IsFiniteSet(old) /\ Cardinality(old) \in Nat
         /\ Cardinality(old \cup {n + 1}) = Cardinality(old) + 1
<1>1. IsFiniteSet(1..n)
  BY FS_Interval
<1>2. IsFiniteSet(old)
  BY <1>1, FS_Subset
<1>3. n + 1 \notin old
  OBVIOUS
<1> QED  BY <1>2, <1>3, FS_AddElement, FS_CardinalityType

LEMMA PlacesGrow ==
  ASSUME outcomes \in Seq({"tested", "skipped"}), NEW v \in {"tested", "skipped"},
         outcomes' = Append(outcomes, v)
  PROVE  /\ Cardinality(TestedPlaces) \in Nat
         /\ Cardinality(SkippedPlaces) \in Nat
         /\ Cardinality(TestedPlaces)' = Cardinality(TestedPlaces) + IF v = "tested" THEN 1 ELSE 0
         /\ Cardinality(SkippedPlaces)' = Cardinality(SkippedPlaces) + IF v = "skipped" THEN 1 ELSE 0
         /\ outcomes' \in Seq({"tested", "skipped"})
<1> DEFINE n == Len(outcomes)
<1>1. /\ n \in Nat /\ Len(outcomes') = n + 1 /\ outcomes'[n + 1] = v
      /\ \A k \in 1..n : outcomes'[k] = outcomes[k]
      /\ outcomes' \in Seq({"tested", "skipped"})
  BY Appended
<1> HIDE DEF n
<1>2. /\ TestedPlaces' = IF v = "tested" THEN TestedPlaces \cup {n + 1} ELSE TestedPlaces
      /\ SkippedPlaces' = IF v = "skipped" THEN SkippedPlaces \cup {n + 1} ELSE SkippedPlaces
  <2>1. /\ TestedPlaces = {k \in 1..n : outcomes[k] = "tested"}
        /\ SkippedPlaces = {k \in 1..n : outcomes[k] = "skipped"}
    BY DEF TestedPlaces, SkippedPlaces, n
  <2>2. /\ TestedPlaces' = {k \in 1..(n + 1) : outcomes'[k] = "tested"}
        /\ SkippedPlaces' = {k \in 1..(n + 1) : outcomes'[k] = "skipped"}
    BY <1>1 DEF TestedPlaces, SkippedPlaces
  <2>3. \A k : k \in 1..(n + 1) <=> k \in 1..n \/ k = n + 1
    BY <1>1
  <2> QED  BY <1>1, <2>1, <2>2, <2>3
<1>3. TestedPlaces \in SUBSET (1..n) /\ SkippedPlaces \in SUBSET (1..n)
  BY DEF TestedPlaces, SkippedPlaces, n
<1>5. /\ Cardinality(TestedPlaces) \in Nat
      /\ Cardinality(TestedPlaces \cup {n + 1}) = Cardinality(TestedPlaces) + 1
  BY <1>1, <1>3, CountOneMore
<1>6. /\ Cardinality(SkippedPlaces) \in Nat
      /\ Cardinality(SkippedPlaces \cup {n + 1}) = Cardinality(SkippedPlaces) + 1
  BY <1>1, <1>3, CountOneMore
<1>7. CASE v = "tested"
  <2>1. TestedPlaces' = TestedPlaces \cup {n + 1} /\ SkippedPlaces' = SkippedPlaces
    BY <1>2, <1>7
  <2> QED  BY <1>1, <1>5, <1>6, <1>7, <2>1
<1>8. CASE v = "skipped"
  <2>1. SkippedPlaces' = SkippedPlaces \cup {n + 1} /\ TestedPlaces' = TestedPlaces
    BY <1>2, <1>8
  <2> QED  BY <1>1, <1>5, <1>6, <1>8, <2>1
<1> QED  BY <1>7, <1>8

LEMMA HitsGrow ==
  ASSUME results \in Seq(Entries), NEW entry \in Entries, results' = Append(results, entry)
  PROVE  /\ Cardinality(Hits) \in Nat
         /\ Cardinality(Hits)' = Cardinality(Hits) + IF entry.stream > 0 THEN 1 ELSE 0
         /\ results' \in Seq(Entries)
<1> DEFINE n == Len(results)
<1>1. /\ n \in Nat /\ Len(results') = n + 1 /\ results'[n + 1] = entry
      /\ \A k \in 1..n : results'[k] = results[k]
      /\ results' \in Seq(Entries)
  BY Appended
<1> HIDE DEF n
<1>2. Hits \in SUBSET (1..n)
  BY DEF Hits, n
<1>3. Hits' = IF entry.stream > 0 THEN Hits \cup {n + 1} ELSE Hits
  <2>1. Hits = {k \in 1..n : results[k].stream > 0}
    BY DEF Hits, n
  <2>2. Hits' = {k \in 1..(n + 1) : results'[k].stream > 0}
    BY <1>1 DEF Hits
  <2>3. \A k : k \in 1..(n + 1) <=> k \in 1..n \/ k = n + 1
    BY <1>1
  <2> QED  BY <1>1, <2>1, <2>2, <2>3
<1>4. /\ Cardinality(Hits) \in Nat
      /\ Cardinality(Hits \cup {n + 1}) = Cardinality(Hits) + 1
  BY <1>1, <1>2, CountOneMore
<1> QED  BY <1>1, <1>3, <1>4

LEMMA InitTally == Init => TallyInv
<1> SUFFICES ASSUME Init PROVE TallyInv
  OBVIOUS
<1>1. /\ res = Clean /\ results = <<>> /\ outcomes = <<>> /\ opens = 0 /\ disconnected = 0
      /\ tested = 0 /\ openFailures = 0 /\ hits = 0 /\ pc = "start"
  BY DEF Init
<1>2. TallyTypes
  BY <1>1 DEF TallyTypes, Clean
<1>3. Len(outcomes) = 0 /\ Len(results) = 0
  BY <1>1
<1>4. TestedPlaces = {} /\ SkippedPlaces = {} /\ Hits = {}
  BY <1>3 DEF TestedPlaces, SkippedPlaces, Hits
<1>5. Counted
  BY <1>1, <1>3, <1>4, FS_EmptySet DEF Counted
<1>6. InOrder
  BY <1>3 DEF InOrder
<1>7. Sessions
  BY <1>1 DEF Sessions, InSession, RunSteps
<1> QED  BY <1>2, <1>5, <1>6, <1>7 DEF TallyInv

(* A result gets worse or better one call at a time.                       *)
LEMMA ResKept ==
  ASSUME TallyTypes, [Next]_vars
  PROVE  res' \in [status : Nat, stream : Nat, failures : Nat, fatal : BOOLEAN]
<1> DEFINE R == [status : Nat, stream : Nat, failures : Nat, fatal : BOOLEAN]
<1>0. res \in R
  BY DEF TallyTypes
<1>1. CASE BeginRun
  BY <1>1 DEF BeginRun, Clean
<1>2. CASE Send
  <2>1. res' = res \/ \E error \in Errors : res' = SendFails(error)
    BY <1>2 DEF Send
  <2>2. ASSUME NEW error \in Errors PROVE SendFails(error) \in R
    <3>1. PICK fatal \in BOOLEAN : fatal = (error = "fatal")
      OBVIOUS
    <3>2. SendFails(error) = [res EXCEPT !.failures = @ + 1, !.fatal = fatal]
      BY <3>1 DEF SendFails
    <3> DEFINE r == [res EXCEPT !.failures = @ + 1]
    <3>3. r \in R
      BY <1>0
    <3>4. [r EXCEPT !.fatal = fatal] \in R
      <4> HIDE DEF r
      <4> QED  BY <3>3
    <3> QED  BY <1>0, <3>2, <3>4
  <2> QED  BY <1>0, <2>1, <2>2
<1>3. CASE Read
  <2>1. \/ res' = res
        \/ res' = [res EXCEPT !.fatal = TRUE]
        \/ \E got \in Got : \/ res' = [res EXCEPT !.status = @ + got]
                            \/ res' = [res EXCEPT !.stream = @ + got]
    BY <1>3 DEF Read
  <2>2. ASSUME NEW got \in Got
        PROVE  [res EXCEPT !.status = @ + got] \in R /\ [res EXCEPT !.stream = @ + got] \in R
    <3>1. got \in Nat /\ res.status + got \in Nat /\ res.stream + got \in Nat
      BY <1>0
    <3>2. [res EXCEPT !.status = @ + got] \in R
      BY <1>0, <3>1
    <3>3. [res EXCEPT !.stream = @ + got] \in R
      BY <1>0, <3>1
    <3> QED  BY <3>2, <3>3
  <2>3. [res EXCEPT !.fatal = TRUE] \in R
    BY <1>0
  <2> QED  BY <1>0, <2>1, <2>2, <2>3
<1>4. CloseStep \/ OpenStep \/ NextRound \/ WindowOver \/ MainStep \/ Unplug \/ Plug \/ UNCHANGED vars
        => res' = res
  BY DEF CloseStep, OpenStep, MainStep, NextRound, WindowOver, Unplug, Plug, vars, scan,
         ResetAlt, Release, CloseHandle, Exit, InitFails, LibInit, OpenDevice,
         OpenDeviceFails, GiveUpDevice, Claim, ClaimFails, SetAlt, SetAltFails, AbortOpen,
         FirstOpen, Opened, FirstOpenFailed, ReopenFailed, Loop, JudgeTest, JudgeRerun, After
<1> QED  BY <1>0, <1>1, <1>2, <1>3, <1>4 DEF Next, Program, RunStep

(* Most steps leave the history and the order of the results as they are.  *)
LEMMA QuietTally ==
  ASSUME TallyInv,
         res' \in [status : Nat, stream : Nat, failures : Nat, fatal : BOOLEAN],
         UNCHANGED <<outcomes, results, tested, openFailures, hits>>,
         current \in Nat, current' \in {current, current + 1},
         exitCode' = -1 /\ ~Pending' => current' = current + 1 \/ (exitCode = -1 /\ ~Pending),
         opens' \in Nat, disconnected' \in Nat,
         Sessions'
  PROVE  TallyInv'
<1>1. TallyTypes'
  BY DEF TallyInv, TallyTypes
<1>2. Counted'
  BY DEF TallyInv, Counted, TestedPlaces, SkippedPlaces, Hits
<1>3. InOrder'
  <2>1. \A k \in 1..Len(results) : results[k].candidate \in Nat
    <3>1. \A k \in 1..Len(results) : results[k] \in Entries
      BY ElementOfSeq DEF TallyInv, TallyTypes
    <3> QED  BY <3>1 DEF Entries
  <2>2. /\ \A a, b \in 1..Len(results) : a < b => results[a].candidate < results[b].candidate
        /\ \A k \in 1..Len(results) : results[k].candidate <= current
        /\ exitCode = -1 /\ ~Pending => \A k \in 1..Len(results) : results[k].candidate < current
    BY DEF TallyInv, InOrder
  <2>3. \A k \in 1..Len(results) : results[k].candidate <= current'
    BY <2>1, <2>2
  <2>4. ASSUME exitCode' = -1, ~Pending'
        PROVE  \A k \in 1..Len(results) : results[k].candidate < current'
    <3>1. \/ current' = current + 1
          \/ \A k \in 1..Len(results) : results[k].candidate < current
      BY <2>2, <2>4, Zenon
    <3>2. CASE current' = current + 1
      BY <2>1, <2>2, <3>2
    <3>3. CASE \A k \in 1..Len(results) : results[k].candidate < current
      BY <2>1, <3>3
    <3> QED  BY <3>1, <3>2, <3>3
  <2>5. results' = results
    OBVIOUS
  <2>6. (\A a, b \in 1..Len(results) : a < b => results[a].candidate < results[b].candidate)'
    BY <2>2, <2>5
  <2>7. (\A k \in 1..Len(results) : results[k].candidate <= current)'
    BY <2>3, <2>5
  <2>8. (exitCode = -1 /\ ~Pending => \A k \in 1..Len(results) : results[k].candidate < current)'
    BY <2>4, <2>5
  <2> QED  BY <2>6, <2>7, <2>8, Zenon DEF InOrder
<1> QED  BY <1>1, <1>2, <1>3 DEF TallyInv

LEMMA NextTally == IInv /\ TallyInv /\ [Next]_vars => TallyInv'
<1> SUFFICES ASSUME IInv, TallyInv, [Next]_vars PROVE TallyInv'
  OBVIOUS
<1>0. /\ pc \in {"start", "exit", "openDevice", "openFailed", "gone", "init"} => handle = "null"
      /\ pc \in {"opened", "claim", "setAlt", "after"} => handle # "null"
      /\ pc \in CloseSteps \cup OpenSteps \cup MainSteps \cup RunSteps \cup {"gone"}
      /\ cont \in {"open", "failed", "drop", "destroy"}
      /\ current \in Nat
  BY DEF IInv, SessionInv, SessionTypes, Bookkeeping, AtEachStep, SetUp
<1>r. rerun \in BOOLEAN /\ (rerun => pc \in RunSteps \cup {"run", "judge"})
  BY DEF IInv, LossIsNoted
<1>e. /\ exitCode # -1 => pc \in {"alt0", "release", "closeHandle", "exit", "gone"}
                           /\ cont = "destroy"
      /\ exitCode = -1 => pc # "gone" /\ ~(pc \in CloseSteps /\ cont = "destroy")
  BY <1>0 DEF IInv, MissesCounted
<1>t. res' \in [status : Nat, stream : Nat, failures : Nat, fatal : BOOLEAN]
  BY ResKept DEF TallyInv
<1>n. opens \in Nat /\ disconnected \in Nat
  BY DEF TallyInv, TallyTypes
<1>s. exitCode = -1 => opens = disconnected + IF InSession THEN 1 ELSE 0
  BY DEF TallyInv, Sessions
<1> USE DEF IsOpen, CloseSteps, OpenSteps, MainSteps, RunSteps, Pending, InSession,
            session, scan, counters, usb, settings, history
<1> DEFINE Kept == UNCHANGED <<outcomes, results, tested, openFailures, hits, opens>>
<1>1. CASE ResetAlt \/ Release \/ CloseHandle
  <2>1. /\ Kept /\ UNCHANGED <<disconnected, exitCode, current, cont, rerun>>
        /\ pc \in {"alt0", "release", "closeHandle"}
        /\ pc' \in {"alt0", "release", "closeHandle", "exit"}
    BY <1>1 DEF ResetAlt, Release, CloseHandle
  <2>2. Sessions'
    BY <1>s, <2>1 DEF Sessions
  <2> QED  BY <1>0, <1>r, <1>t, <1>n, <2>1, <2>2, QuietTally
<1>2. CASE InitFails \/ LibInit \/ OpenDevice \/ OpenDeviceFails \/ Claim \/ SetAlt
  <2>1. /\ UNCHANGED <<outcomes, results, tested, openFailures, hits>>
        /\ UNCHANGED <<disconnected, exitCode, current, cont, rerun>>
        /\ pc \in {"init", "openDevice", "claim", "setAlt"}
        /\ \/ pc' \in {"openFailed", "openDevice", "claim", "setAlt"} /\ opens' = opens
           \/ pc' = "opened" /\ opens' = opens + 1
    BY <1>2 DEF InitFails, LibInit, OpenDevice, OpenDeviceFails, Claim, SetAlt
  <2>2. Sessions'
    BY <1>s, <1>n, <2>1 DEF Sessions
  <2> QED  BY <1>0, <1>r, <1>e, <1>t, <1>n, <2>1, <2>2, QuietTally
<1>3. CASE GiveUpDevice \/ ClaimFails \/ SetAltFails
  <2>1. /\ Kept /\ UNCHANGED <<disconnected, exitCode, current, rerun>>
        /\ pc \in {"openDevice", "claim", "setAlt"}
        /\ pc' \in {"alt0", "exit"} /\ cont' = "failed"
    BY <1>3 DEF GiveUpDevice, ClaimFails, SetAltFails, AbortOpen, EnterClose
  <2>2. Sessions'
    BY <1>s, <2>1 DEF Sessions
  <2> QED  BY <1>0, <1>r, <1>e, <1>t, <1>n, <2>1, <2>2, QuietTally
<1>4. CASE BeginRun \/ Send \/ NextRound \/ WindowOver \/ Read
  <2>1. /\ Kept /\ UNCHANGED <<disconnected, exitCode, current, cont, rerun>>
        /\ pc \in RunSteps \cup {"run"}
        /\ pc' \in RunSteps \cup {"judge"}
    BY <1>4 DEF BeginRun, Send, NextRound, WindowOver, Read, NextRead
  <2>2. Sessions'
    BY <1>s, <2>1 DEF Sessions
  <2> QED  BY <1>0, <1>r, <1>e, <1>t, <1>n, <2>1, <2>2, QuietTally
<1>5. CASE FirstOpen
  <2>1. /\ Kept /\ UNCHANGED <<disconnected, exitCode, current, rerun>>
        /\ pc = "start" /\ pc' \in {"alt0", "exit"} /\ cont' = "open"
    BY <1>5 DEF FirstOpen, EnterClose
  <2>2. Sessions'
    BY <1>s, <2>1 DEF Sessions
  <2> QED  BY <1>0, <1>r, <1>e, <1>t, <1>n, <2>1, <2>2, QuietTally
<1>6. CASE JudgeRerun
  <2>1. /\ Kept /\ UNCHANGED <<disconnected, exitCode, current, cont>>
        /\ pc = "judge" /\ pc' = "after" /\ rerun
    BY <1>6 DEF JudgeRerun
  <2>2. Sessions'
    BY <1>s, <2>1 DEF Sessions
  <2> QED  BY <1>0, <1>r, <1>e, <1>t, <1>n, <2>1, <2>2, QuietTally
<1>7. CASE Unplug \/ Plug \/ UNCHANGED vars
  <2>1. /\ Kept /\ UNCHANGED <<disconnected, exitCode, current, cont, rerun, pc>>
        /\ handle' = "null" <=> handle = "null"
    BY <1>7 DEF Unplug, Plug, vars
  <2>2. Sessions'
    BY <1>s, <2>1 DEF Sessions
  <2> QED  BY <1>0, <1>r, <1>e, <1>t, <1>n, <2>1, <2>2, QuietTally
<1>8. CASE Exit
  <2>1. /\ Kept /\ UNCHANGED <<disconnected, exitCode, cont, rerun, handle>>
        /\ pc = "exit"
        /\ \/ cont = "open" /\ pc' = "init" /\ current' = current
           \/ cont = "failed" /\ pc' = "openFailed" /\ current' = current
           \/ cont = "drop" /\ pc' = "loop" /\ current' = current + 1
           \/ cont = "destroy" /\ pc' = "gone" /\ current' = current
    BY <1>8 DEF Exit
  <2>2. Sessions'
    BY <1>0, <1>s, <2>1 DEF Sessions
  <2> QED  BY <1>0, <1>r, <1>e, <1>t, <1>n, <2>1, <2>2, QuietTally
<1>9. CASE Opened
  <2>1. /\ Kept /\ UNCHANGED <<disconnected, exitCode, cont, rerun, handle>>
        /\ pc = "opened" /\ ~rerun
        /\ \/ current = 0 /\ current' = 1 /\ pc' = "loop"
           \/ current' = current /\ pc' = "run"
    BY <1>9, <1>r DEF Opened
  <2>2. Sessions'
    BY <1>0, <1>s, <2>1 DEF Sessions
  <2>3. current' \in {current, current + 1}
    BY <2>1
  <2> QED  BY <1>0, <1>r, <1>e, <1>t, <1>n, <2>1, <2>2, <2>3, QuietTally
<1>10. CASE FirstOpenFailed
  <2>1. /\ Kept /\ UNCHANGED <<disconnected, current, rerun>> /\ exitCode' = 3
    BY <1>10 DEF FirstOpenFailed, Leave
  <2>2. Sessions'
    BY <2>1 DEF Sessions
  <2> QED  BY <1>0, <1>t, <1>n, <2>1, <2>2, QuietTally
<1>11. CASE Loop
  <2>1. /\ Kept /\ UNCHANGED <<disconnected, current, rerun, handle>> /\ pc = "loop" /\ exitCode = -1 /\ ~rerun
    BY <1>11, <1>e, <1>r DEF Loop
  <2>2. \/ exitCode' = 0
        \/ exitCode' = exitCode /\ IsOpen /\ pc' = "run" /\ cont' = cont
        \/ exitCode' = exitCode /\ ~IsOpen /\ pc' \in {"alt0", "exit"} /\ cont' = "open"
    BY <1>11 DEF Loop, Leave, EnterClose
  <2>3. Sessions'
    BY <1>s, <2>1, <2>2 DEF Sessions
  <2> QED  BY <1>0, <1>t, <1>n, <2>1, <2>2, <2>3, QuietTally
<1>12. CASE After
  <2>1. Kept /\ UNCHANGED <<exitCode, rerun, handle>> /\ pc = "after" /\ exitCode = -1
    BY <1>12, <1>e DEF After
  <2>2. \/ current' = current /\ pc' \in {"alt0", "exit"} /\ cont' = "drop" /\ disconnected' = disconnected + 1
        \/ current' = current + 1 /\ pc' = "loop" /\ disconnected' = disconnected
    BY <1>12 DEF After, EnterClose
  <2>3. Sessions'
    BY <1>0, <1>s, <1>n, <2>1, <2>2 DEF Sessions
  <2> QED  BY <1>0, <1>t, <1>n, <2>1, <2>2, <2>3, QuietTally
<1>13. CASE ReopenFailed
  <2>1. /\ outcomes' = Append(outcomes, "skipped") /\ openFailures' = openFailures + 1
        /\ UNCHANGED <<results, tested, hits, opens, disconnected, rerun, handle, res>>
        /\ pc = "openFailed" /\ exitCode = -1 /\ ~rerun
        /\ \/ exitCode' = 0 /\ current' = current
           \/ current' = current + 1 /\ pc' = "loop" /\ exitCode' = exitCode
    BY <1>13, <1>e, <1>r DEF ReopenFailed, Leave
  <2>2. Sessions'
    BY <1>0, <1>s, <1>n, <2>1 DEF Sessions
  <2>3. Counted' /\ outcomes' \in Seq({"tested", "skipped"})
    <3>1. /\ Cardinality(TestedPlaces) \in Nat /\ Cardinality(SkippedPlaces) \in Nat
          /\ Cardinality(TestedPlaces)' = Cardinality(TestedPlaces)
          /\ Cardinality(SkippedPlaces)' = Cardinality(SkippedPlaces) + 1
          /\ outcomes' \in Seq({"tested", "skipped"})
      BY <2>1, PlacesGrow DEF TallyInv, TallyTypes
    <3>2. Hits' = Hits
      BY <2>1 DEF Hits
    <3> QED  BY <2>1, <3>1, <3>2 DEF TallyInv, Counted
  <2>4. TallyTypes'
    BY <1>t, <2>1, <2>3 DEF TallyInv, TallyTypes
  <2>5. InOrder'
    <3>1. \A k \in 1..Len(results) : results[k].candidate \in Nat
      <4>1. \A k \in 1..Len(results) : results[k] \in Entries
        BY ElementOfSeq DEF TallyInv, TallyTypes
      <4> QED  BY <4>1 DEF Entries
    <3>2. current' = current \/ current' = current + 1
      BY <2>1
    <3>3. /\ \A a, b \in 1..Len(results) : a < b => results[a].candidate < results[b].candidate
          /\ \A k \in 1..Len(results) : results[k].candidate <= current
      BY DEF TallyInv, InOrder
    <3>4. exitCode' = -1 => current' = current + 1
      BY <2>1
    <3>5. results' = results /\ current \in Nat
      BY <1>0, <2>1
    <3>6. \A k \in 1..Len(results) : results[k].candidate <= current'
      BY <3>1, <3>2, <3>3, <3>5
    <3>7. ASSUME exitCode' = -1
          PROVE  \A k \in 1..Len(results) : results[k].candidate < current'
      BY <3>1, <3>3, <3>4, <3>5, <3>7
    <3> QED  BY <3>3, <3>5, <3>6, <3>7, Zenon DEF InOrder
  <2> QED  BY <2>2, <2>3, <2>4, <2>5 DEF TallyInv
<1>14. CASE JudgeTest
  <2> DEFINE entry == [candidate |-> current, score |-> Score(res), stream |-> res.stream]
  <2>1. /\ outcomes' = Append(outcomes, "tested") /\ results' = Append(results, entry)
        /\ tested' = tested + 1
        /\ hits' = IF res.stream > 0 THEN hits + 1 ELSE hits
        /\ UNCHANGED <<opens, disconnected, openFailures, exitCode, current, handle, res>>
        /\ pc = "judge" /\ exitCode = -1 /\ ~rerun
        /\ \/ pc' = "run" /\ rerun' = TRUE
           \/ pc' = "after"
    BY <1>14, <1>e DEF JudgeTest
  <2>2. Sessions'
    BY <1>s, <2>1 DEF Sessions
  <2>3. res \in [status : Nat, stream : Nat, failures : Nat, fatal : BOOLEAN]
    BY DEF TallyInv, TallyTypes
  <2>4. Score(res) \in Int
    BY <2>3 DEF Score
  <2>5. entry \in Entries
    BY <1>0, <2>3, <2>4 DEF Entries
  <2>6. entry.candidate = current /\ entry.stream = res.stream
    OBVIOUS
  <2> HIDE DEF entry
  <2>7. /\ Cardinality(Hits) \in Nat
        /\ Cardinality(Hits)' = Cardinality(Hits) + IF entry.stream > 0 THEN 1 ELSE 0
        /\ results' \in Seq(Entries)
    BY <2>1, <2>5, HitsGrow DEF TallyInv, TallyTypes
  <2>8. /\ Cardinality(TestedPlaces) \in Nat /\ Cardinality(SkippedPlaces) \in Nat
        /\ Cardinality(TestedPlaces)' = Cardinality(TestedPlaces) + 1
        /\ Cardinality(SkippedPlaces)' = Cardinality(SkippedPlaces)
        /\ outcomes' \in Seq({"tested", "skipped"})
    BY <2>1, PlacesGrow DEF TallyInv, TallyTypes
  <2>9. /\ Len(results) \in Nat /\ Len(results') = Len(results) + 1
        /\ results'[Len(results) + 1] = entry
        /\ \A k \in 1..Len(results) : results'[k] = results[k]
    BY <2>1, <2>5, Appended DEF TallyInv, TallyTypes
  <2>10. Counted'
    <3>1. /\ tested = Cardinality(TestedPlaces) /\ tested = Len(results)
          /\ openFailures = Cardinality(SkippedPlaces) /\ hits = Cardinality(Hits)
      BY DEF TallyInv, Counted
    <3>2. tested' = Cardinality(TestedPlaces)' /\ tested' = Len(results')
      BY <2>1, <2>8, <2>9, <3>1
    <3>3. openFailures' = Cardinality(SkippedPlaces)'
      BY <2>1, <2>8, <3>1
    <3>4. hits' = Cardinality(Hits)'
      BY <2>1, <2>6, <2>7, <3>1
    <3> QED  BY <3>2, <3>3, <3>4 DEF Counted
  <2>11. TallyTypes'
    BY <1>t, <2>1, <2>7, <2>8 DEF TallyInv, TallyTypes
  <2>12. InOrder'
    <3>1. \A k \in 1..Len(results) : results[k].candidate \in Nat
      <4>1. \A k \in 1..Len(results) : results[k] \in Entries
        BY ElementOfSeq DEF TallyInv, TallyTypes
      <4> QED  BY <4>1 DEF Entries
    <3>2. /\ \A a, b \in 1..Len(results) : a < b => results[a].candidate < results[b].candidate
          /\ \A k \in 1..Len(results) : results[k].candidate < current
      BY <2>1 DEF TallyInv, InOrder
    <3>3. Pending'
      BY <2>1
    <3>4. \A k \in 1..Len(results') : k \in 1..Len(results) \/ k = Len(results) + 1
      BY <2>9
    <3>5. \A k \in 1..Len(results') : results'[k].candidate <= current'
      BY <1>0, <2>1, <2>6, <2>9, <3>1, <3>2, <3>4
    <3>6. \A a, b \in 1..Len(results') : a < b => results'[a].candidate < results'[b].candidate
      <4> TAKE a, b \in 1..Len(results')
      <4> HAVE a < b
      <4>1. a \in 1..Len(results)
        BY <2>9, <3>4
      <4>2. CASE b \in 1..Len(results)
        BY <2>9, <3>2, <4>1, <4>2
      <4>3. CASE b = Len(results) + 1
        BY <2>6, <2>9, <3>2, <4>1, <4>3
      <4> QED  BY <3>4, <4>2, <4>3
    <3> QED  BY <3>3, <3>5, <3>6 DEF InOrder
  <2> QED  BY <2>2, <2>10, <2>11, <2>12 DEF TallyInv
<1> QED
  BY <1>1, <1>2, <1>3, <1>4, <1>5, <1>6, <1>7, <1>8, <1>9, <1>10, <1>11, <1>12, <1>13, <1>14
     DEF Next, Program, CloseStep, OpenStep, RunStep, MainStep

(* The counters of main never part from what happened.                     *)
THEOREM Tallied == Spec => []TallyInv
BY InitTally, NextTally, Invariant, PTL DEF Spec

(* For every number of candidates, every retry setting and whatever the    *)
(* device does: the summary the tool prints is that of what happened.      *)
THEOREM SummaryIsTrue == Spec => []SummaryTrue
<1>1. IInv /\ TallyInv => SummaryTrue
  <2> SUFFICES ASSUME IInv, TallyInv PROVE SummaryTrue
    OBVIOUS
  <2>1. /\ tested = Count("tested") /\ tested = Len(results)
        /\ openFailures = Count("skipped")
        /\ hits = Cardinality({k \in 1..Len(results) : results[k].stream > 0})
        /\ \A a, b \in 1..Len(results) : a < b => results[a].candidate < results[b].candidate
    BY DEF TallyInv, Counted, InOrder, TestedPlaces, SkippedPlaces, Hits, Count
  <2>2. ASSUME pc = "loop"
        PROVE  /\ Len(outcomes) = current - 1 \/ current = 0
               /\ opens = disconnected + IF IsOpen THEN 1 ELSE 0
    <3>1. exitCode = -1 /\ ~Pending
      BY <2>2 DEF IInv, MissesCounted, LossIsNoted, Pending, CloseSteps, RunSteps
    <3>2. InSession <=> IsOpen
      BY <2>2 DEF InSession, RunSteps
    <3>3. opens = disconnected + IF IsOpen THEN 1 ELSE 0
      BY <3>1, <3>2 DEF TallyInv, Sessions
    <3>4. current \in Nat
      BY DEF IInv, SessionInv, SessionTypes
    <3> QED  BY <3>1, <3>3, <3>4 DEF IInv, MissesCounted
  <2> QED  BY <2>1, <2>2 DEF SummaryTrue
<1> QED  BY Invariant, Tallied, <1>1, PTL

(* The elements of a list without repetition are as many as its places.    *)
LEMMA DistinctElements ==
  ASSUME NEW S, NEW s \in Seq(S),
         \A a, b \in 1..Len(s) : a < b => s[a] # s[b]
  PROVE  IsFiniteSet(ToSet(s)) /\ Cardinality(ToSet(s)) = Len(s)
<1> DEFINE n == Len(s)
<1>1. n \in Nat /\ DOMAIN s = 1..n /\ s \in [1..n -> S]
  BY LenProperties
<1> HIDE DEF n
<1>2. ToSet(s) = {s[k] : k \in 1..n}
  BY <1>1 DEF ToSet
<1>3. \A a, b \in 1..n : s[a] = s[b] => a = b
  <2> SUFFICES ASSUME NEW a \in 1..n, NEW b \in 1..n, a # b PROVE s[a] # s[b]
    OBVIOUS
  <2>1. CASE a < b
    BY <2>1 DEF n
  <2>2. CASE b < a
    BY <2>2 DEF n
  <2> QED  BY <1>1, <2>1, <2>2
<1>4. s \in [1..n -> ToSet(s)]
  BY <1>1, <1>2
<1>5. s \in Bijection(1..n, ToSet(s))
  <2>1. \A t \in ToSet(s) : \E k \in 1..n : s[k] = t
    BY <1>2
  <2> QED  BY <1>1, <1>3, <1>4, <2>1 DEF Bijection, Injection, Surjection, IsInjective
<1>6. Cardinality(ToSet(s)) = n
  BY <1>1, <1>5, FS_CountingElements DEF ExistsBijection
<1>7. IsFiniteSet(ToSet(s))
  BY <1>1, <1>5, FS_NatBijection DEF ExistsBijection
<1> QED  BY <1>6, <1>7 DEF n

(* An ordering of a finite set lists all of it, once.                      *)
LEMMA Ordering ==
  ASSUME NEW T, IsFiniteSet(T), NEW q \in SetToSeqs(T)
  PROVE  /\ q \in Seq(T)
         /\ Len(q) = Cardinality(T)
         /\ \A a, b \in 1..Len(q) : a < b => q[a] # q[b]
         /\ \A t \in T : \E k \in 1..Len(q) : q[k] = t
<1> DEFINE c == Cardinality(T)
<1>1. c \in Nat
  BY FS_CardinalityType
<1>2. q \in [1..c -> T] /\ \A a, b \in 1..c : a # b => q[a] # q[b]
  BY DEF SetToSeqs
<1> HIDE DEF c
<1>3. q \in Seq(T)
  BY <1>1, <1>2, SeqDef
<1>4. Len(q) = c
  BY <1>1, <1>2, <1>3, LenProperties
<1>5. IsFiniteSet(1..c) /\ Cardinality(1..c) = c
  <2>1. 1 \in Int /\ c \in Int /\ (IF 1 > c THEN 0 ELSE c - 1 + 1) = c
    BY <1>1
  <2> QED  BY <2>1, FS_Interval
<1>6. q \in Injection(1..c, T)
  BY <1>2 DEF Injection, IsInjective
<1>7. q \in Surjection(1..c, T)
  BY <1>5, <1>6, FS_Injection DEF c
<1>8. \A t \in T : \E k \in 1..c : q[k] = t
  BY <1>7 DEF Surjection
<1>9. \A a, b \in 1..c : a < b => q[a] # q[b]
  BY <1>2
<1> QED  BY <1>3, <1>4, <1>8, <1>9 DEF c

(* Sorting in one more result and cutting the list keeps the best ones.    *)
LEMMA BestStay ==
  ASSUME NEW entry \in Entries, results \in Seq(Entries), RankInv,
         \A k \in 1..Len(results) : results[k] # entry,
         top' \in KeepTop(top, entry), results' = Append(results, entry)
  PROVE  RankInv'
<1> DEFINE all == ToSet(results)
           listed == ToSet(top)
           T == listed \cup {entry}
           n == Len(results)
           m == Len(top)
           c == m + 1
           cut == IF c < TopN THEN c ELSE TopN
<1>1. /\ top \in Seq(Entries) /\ m = (IF n < TopN THEN n ELSE TopN)
      /\ listed \subseteq all
      /\ \A a, b \in 1..m : a < b => top[a] # top[b] /\ top[a].score >= top[b].score
      /\ \A out \in all \ listed, in \in listed : out.score <= in.score
      /\ n <= TopN => all \subseteq listed
  BY DEF RankInv, TopIsBest
<1>2. /\ n \in Nat /\ m \in Nat /\ c \in Nat /\ c >= 1
  BY <1>1, LenProperties
<1>3. /\ results' \in Seq(Entries) /\ Len(results') = n + 1
      /\ results'[n + 1] = entry
      /\ \A k \in 1..n : results'[k] = results[k]
  BY Appended
<1>4. /\ \A r : r \in all <=> \E k \in 1..n : results[k] = r
      /\ \A r : r \in ToSet(results') <=> \E k \in 1..(n + 1) : results'[k] = r
      /\ \A r : r \in listed <=> \E k \in 1..m : top[k] = r
  <2>1. DOMAIN results = 1..n /\ DOMAIN results' = 1..(n + 1) /\ DOMAIN top = 1..m
    BY <1>1, <1>3, LenProperties
  <2> QED  BY <2>1 DEF ToSet
<1>5. entry \notin all /\ entry \notin listed
  BY <1>1, <1>4
<1>6. ToSet(results') = all \cup {entry}
  <2>1. \A k : k \in 1..(n + 1) <=> k \in 1..n \/ k = n + 1
    BY <1>2
  <2>2. \A r : r \in ToSet(results') <=> r \in all \/ r = entry
    <3> HIDE DEF all, n
    <3>1. \A r : r \in ToSet(results') <=> (\E k \in 1..n : results'[k] = r) \/ r = entry
      BY <1>3, <1>4, <2>1, Zenon
    <3>2. \A r : (\E k \in 1..n : results'[k] = r) <=> r \in all
      BY <1>3, <1>4, Zenon
    <3> QED  BY <3>1, <3>2
  <2> QED  BY <2>2
<1>7. \A r \in all : r.score \in Int
  <2>1. \A k \in 1..n : results[k] \in Entries
    BY ElementOfSeq
  <2> QED  BY <1>4, <2>1 DEF Entries
<1>8. entry.score \in Int
  BY DEF Entries
<1>9. IsFiniteSet(T) /\ Cardinality(T) = c
  <2>1. IsFiniteSet(listed) /\ Cardinality(listed) = m
    BY <1>1, DistinctElements
  <2> HIDE DEF listed, m
  <2> QED  BY <1>5, <2>1, FS_AddElement
<1>10. T \subseteq Entries
  <2>1. \A k \in 1..m : top[k] \in Entries
    BY <1>1, ElementOfSeq
  <2> QED  BY <1>4, <2>1
<1>11. PICK q \in SetToSeqs(T) :
         /\ \A a, b \in 1..Len(q) : a < b => q[a].score >= q[b].score
         /\ top' = SubSeq(q, 1, IF Len(q) < TopN THEN Len(q) ELSE TopN)
  BY DEF KeepTop
<1> HIDE DEF T, c, n, m, all, listed
<1>12. /\ q \in Seq(T) /\ Len(q) = c
       /\ \A a, b \in 1..c : a < b => q[a] # q[b]
       /\ \A t \in T : \E k \in 1..c : q[k] = t
  BY <1>9, Ordering
<1>13. cut \in 1..c /\ cut \in Nat
  BY <1>2
<1>14. \A k \in 1..c : q[k] \in T
  BY <1>12, ElementOfSeq
<1>15. /\ top' \in Seq(T) /\ Len(top') = cut
       /\ \A k \in 1..cut : top'[k] = q[k]
  <2>1. top' = SubSeq(q, 1, cut)
    BY <1>11, <1>12
  <2> HIDE DEF cut
  <2>2. \A k \in 1..cut : q[k] \in T
    BY <1>13, <1>14, <1>2
  <2>3. /\ SubSeq(q, 1, cut) \in Seq(T)
        /\ Len(SubSeq(q, 1, cut)) = (IF 1 <= cut THEN cut - 1 + 1 ELSE 0)
        /\ \A k \in 1..(cut - 1 + 1) : SubSeq(q, 1, cut)[k] = q[1 + k - 1]
    BY <2>2, <1>13, SubSeqProperties
  <2> QED  BY <1>13, <2>1, <2>3
<1> HIDE DEF cut
<1>16. \A r : r \in ToSet(top') <=> \E k \in 1..cut : q[k] = r
  <2>1. DOMAIN top' = 1..cut
    BY <1>15, LenProperties
  <2> QED  BY <1>15, <2>1 DEF ToSet
<1>17. ToSet(top') \subseteq T
  BY <1>2, <1>13, <1>14, <1>16
<1>18. \A a, b \in 1..cut : a < b => top'[a] # top'[b] /\ top'[a].score >= top'[b].score
  BY <1>2, <1>11, <1>12, <1>13, <1>15
<1>19. \A out \in T \ ToSet(top'), in \in ToSet(top') : out.score <= in.score
  <2> TAKE out \in T \ ToSet(top'), in \in ToSet(top')
  <2>1. PICK k \in 1..c : q[k] = out
    BY <1>12
  <2>2. PICK j \in 1..cut : q[j] = in
    BY <1>16
  <2>3. k \notin 1..cut /\ j < k /\ j \in 1..c
    BY <1>2, <1>13, <1>16, <2>1, <2>2
  <2>4. in.score >= out.score
    BY <1>11, <1>12, <2>1, <2>2, <2>3
  <2>5. in.score \in Int /\ out.score \in Int
    BY <1>10, <1>17 DEF Entries
  <2> QED  BY <2>4, <2>5
<1>20. \A out \in (all \cup {entry}) \ ToSet(top'), in \in ToSet(top') : out.score <= in.score
  <2> TAKE out \in (all \cup {entry}) \ ToSet(top'), in \in ToSet(top')
  <2>1. CASE out \in T
    BY <1>19, <2>1
  <2>2. CASE out \notin T
    <3>1. out \in all \ listed
      BY <2>2 DEF T
    <3>2. CASE in \in listed
      BY <1>1, <3>1, <3>2 DEF all, listed
    <3>3. CASE in = entry
      <4>1. n > TopN /\ m = TopN /\ c = TopN + 1 /\ cut = TopN
        BY <1>1, <1>2, <3>1 DEF all, listed, n, m, c, cut
      <4>2. q[c] \in T \ ToSet(top')
        <5>1. c \in 1..c /\ (\A k \in 1..cut : k \in 1..c /\ k < c)
          BY <1>2, <4>1
        <5>2. \A k \in 1..cut : q[k] # q[c]
          BY <1>12, <5>1
        <5> QED  BY <1>14, <1>16, <5>1, <5>2
      <4>3. q[c] # entry /\ q[c] \in listed
        BY <3>3, <4>2 DEF T
      <4>4. q[c].score <= entry.score
        BY <1>19, <3>3, <4>2
      <4>5. out.score <= q[c].score
        BY <1>1, <3>1, <4>3 DEF all, listed
      <4>6. q[c].score \in Int /\ out.score \in Int
        BY <1>7, <1>10, <3>1, <4>2 DEF Entries
      <4> QED  BY <1>8, <3>3, <4>4, <4>5, <4>6
    <3>4. in \in listed \/ in = entry
      BY <1>17 DEF T
    <3> QED  BY <3>2, <3>3, <3>4
  <2> QED  BY <2>1, <2>2
<1>21. n + 1 <= TopN => all \cup {entry} \subseteq ToSet(top')
  <2> SUFFICES ASSUME n + 1 <= TopN PROVE all \cup {entry} \subseteq ToSet(top')
    OBVIOUS
  <2>1. all \subseteq listed /\ cut = c
    BY <1>1, <1>2 DEF all, listed, n, m, c, cut
  <2>2. T \subseteq ToSet(top')
    BY <1>12, <1>16, <2>1
  <2> QED  BY <2>1, <2>2 DEF T
<1>22. cut = IF n + 1 < TopN THEN n + 1 ELSE TopN
  BY <1>1, <1>2 DEF cut, c, m, n
<1>23. ToSet(top') \subseteq all \cup {entry}
  BY <1>1, <1>17 DEF T, all, listed
<1>24. top' \in Seq(Entries)
  BY <1>10, <1>15, SeqMonotonic
<1> QED
  BY <1>3, <1>6, <1>15, <1>18, <1>20, <1>21, <1>22, <1>23, <1>24 DEF RankInv, TopIsBest

LEMMA InitRank == Init => RankInv
<1> SUFFICES ASSUME Init PROVE RankInv
  OBVIOUS
<1>1. top = <<>> /\ results = <<>>
  BY DEF Init
<1>2. top \in Seq(Entries) /\ Len(top) = 0 /\ Len(results) = 0
  BY <1>1
<1>3. ToSet(top) = {} /\ ToSet(results) = {}
  BY <1>1 DEF ToSet
<1> QED  BY <1>2, <1>3 DEF RankInv, TopIsBest

LEMMA NextRank == IInv /\ TallyInv /\ RankInv /\ [Next]_vars => RankInv'
<1> SUFFICES ASSUME IInv, TallyInv, RankInv, [Next]_vars PROVE RankInv'
  OBVIOUS
<1>1. CASE JudgeTest
  <2> DEFINE entry == [candidate |-> current, score |-> Score(res), stream |-> res.stream]
  <2>1. /\ results' = Append(results, entry) /\ top' \in KeepTop(top, entry)
        /\ pc = "judge" /\ ~rerun
    BY <1>1 DEF JudgeTest
  <2>2. res \in [status : Nat, stream : Nat, failures : Nat, fatal : BOOLEAN] /\ current \in Nat
        /\ results \in Seq(Entries)
    BY DEF TallyInv, TallyTypes, IInv, SessionInv, SessionTypes
  <2>3. Score(res) \in Int
    BY <2>2 DEF Score
  <2>4. entry \in Entries /\ entry.candidate = current
    BY <2>2, <2>3 DEF Entries
  <2>5. exitCode = -1 /\ ~Pending
    BY <2>1 DEF IInv, MissesCounted, Pending, CloseSteps
  <2> HIDE DEF entry
  <2>6. \A k \in 1..Len(results) : results[k] # entry
    BY <2>2, <2>4, <2>5 DEF TallyInv, InOrder
  <2> QED  BY <2>1, <2>2, <2>4, <2>6, BestStay
<1>2. CASE UNCHANGED <<top, results>>
  BY <1>2 DEF RankInv, TopIsBest
<1>3. CloseStep \/ OpenStep \/ RunStep \/ FirstOpen \/ Opened \/ FirstOpenFailed \/ ReopenFailed
        \/ Loop \/ JudgeRerun \/ After \/ Unplug \/ Plug \/ UNCHANGED vars
      => UNCHANGED <<top, results>>
  BY DEF CloseStep, OpenStep, RunStep, NextRound, WindowOver, BeginRun, Send, Read,
         Unplug, Plug, vars, scan, history,
         ResetAlt, Release, CloseHandle, Exit, InitFails, LibInit, OpenDevice,
         OpenDeviceFails, GiveUpDevice, Claim, ClaimFails, SetAlt, SetAltFails, AbortOpen,
         FirstOpen, Opened, FirstOpenFailed, ReopenFailed, Loop, JudgeRerun, After
<1> QED  BY <1>1, <1>2, <1>3 DEF Next, Program, MainStep

(* For every number of results and of places in the list, and whichever    *)
(* way equal scores are ordered: the list the tool prints holds the best   *)
(* results of all tests.                                                   *)
THEOREM ListIsBest == Spec => []TopIsBest
<1>1. RankInv => TopIsBest
  BY DEF RankInv
<1>2. Spec => []RankInv
  BY InitRank, NextRank, Invariant, Tallied, PTL DEF Spec
<1> QED  BY <1>1, <1>2, PTL

(* The initial states of the tool are initial states of the session.       *)
LEMMA SessionInit == Init => Session!Init
BY DEF Init, Session!Init, callBar, sessionBar, heldBar, IsOpen, OpenSteps, RunSteps, CloseSteps

(* Every step of the tool or of the device is a step of the session or     *)
(* leaves the session as it is.                                            *)
LEMMA SessionNext == SessionInv /\ [Next]_vars => [Session!Next]_(Session!vars)
<1> SUFFICES ASSUME SessionInv, [Next]_vars PROVE [Session!Next]_(Session!vars)
  OBVIOUS
<1> USE DEF SessionInv, SessionTypes, Bookkeeping, AtEachStep, SetUp, IsOpen,
            CloseSteps, OpenSteps, MainSteps, RunSteps, Interfaces, AltInterfaces,
            session, scan, counters, usb, settings, history, callBar, sessionBar, heldBar,
            Session!vars, Session!Next, Session!Calls, Session!Holdings
<1>1. CASE ResetAlt
  BY <1>1 DEF ResetAlt
<1>2. CASE Release
  BY <1>2 DEF Release, Session!Work
<1>3. CASE CloseHandle
  BY <1>3 DEF CloseHandle, Session!Work
<1>4. CASE Exit
  BY <1>4 DEF Exit, Session!Work, Session!Return
<1>5. CASE InitFails
  BY <1>5 DEF InitFails, Session!Return
<1>6. CASE LibInit
  BY <1>6 DEF LibInit, Session!Work
<1>7. CASE OpenDevice
  BY <1>7 DEF OpenDevice, Session!Work
<1>8. CASE OpenDeviceFails
  BY <1>8 DEF OpenDeviceFails
<1>9. CASE GiveUpDevice \/ ClaimFails \/ SetAltFails
  BY <1>9 DEF GiveUpDevice, ClaimFails, SetAltFails, AbortOpen, EnterClose
<1>10. CASE Claim
  BY <1>10 DEF Claim, Session!Work
<1>11. CASE SetAlt
  BY <1>11 DEF SetAlt, Session!Return
<1>12. CASE BeginRun
  BY <1>12 DEF BeginRun, Session!Begin
<1>13. CASE Send
  BY <1>13 DEF Send, Session!Return
<1>14. CASE NextRound \/ WindowOver
  BY <1>14 DEF NextRound, WindowOver, Session!Return
<1>15. CASE Read
  BY <1>15 DEF Read, NextRead, Session!Return
<1>16. CASE FirstOpen
  BY <1>16 DEF FirstOpen, EnterClose, Session!Begin
<1>17. CASE Opened
  BY <1>17 DEF Opened
<1>18. CASE FirstOpenFailed
  BY <1>18 DEF FirstOpenFailed, Leave, EnterClose, Session!Begin
<1>19. CASE ReopenFailed
  BY <1>19 DEF ReopenFailed, Leave, EnterClose, Session!Begin
<1>20. CASE Loop
  BY <1>20 DEF Loop, Leave, EnterClose, Session!Begin
<1>21. CASE JudgeTest
  BY <1>21 DEF JudgeTest
<1>22. CASE JudgeRerun
  BY <1>22 DEF JudgeRerun
<1>23. CASE After
  BY <1>23 DEF After, EnterClose, Session!Begin
<1>24. CASE Unplug
  BY <1>24 DEF Unplug
<1>25. CASE Plug
  BY <1>25 DEF Plug
<1>26. CASE UNCHANGED vars
  BY <1>26 DEF vars
<1> QED
  BY <1>1, <1>2, <1>3, <1>4, <1>5, <1>6, <1>7, <1>8, <1>9, <1>10, <1>11, <1>12, <1>13,
     <1>14, <1>15, <1>16, <1>17, <1>18, <1>19, <1>20, <1>21, <1>22, <1>23, <1>24, <1>25, <1>26
     DEF Next, Program, CloseStep, OpenStep, RunStep, MainStep

(* The tool uses an all-or-nothing session, and only while it is open.     *)
THEOREM ImplementsSession == Spec => SessionSpec
<1>1. IInv => SessionInv
  BY DEF IInv
<1> QED
  BY SessionInit, SessionNext, Invariant, <1>1, PTL DEF Spec, SessionSpec, Session!Spec

------------------------------------------------------------------------------
(* How far the scan can get.                                               *)

(* The candidate after the last one is where main leaves the loop, and     *)
(* every loop inside the test of a candidate ends.                         *)
WithinLimits ==
  /\ current <= Tests + 1
  /\ current = Tests + 1 => pc \in {"loop", "gone"} \/ (pc \in CloseSteps /\ cont = "destroy")
  /\ tries \in 0..OpenRetries
  /\ passes \in 0..MaxPasses
  /\ pc = "send" => i \in 1..Len(TemplateSteps(ScanCandidate(current)))
  /\ pc = "read" => i \in 1..Len(InEndpoints)

(* Every candidate has something to send.                                  *)
LEMMA StepsToSend ==
  ASSUME NEW n \in Nat \ {0}
  PROVE  Len(TemplateSteps(ScanCandidate(n))) \in Nat \ {0}
<1> DEFINE c == ScanCandidate(n)
           k == ((n - 1) % 8) + 1
           payloads == PayloadsOf(TemplateMode(c.template))
           wide == c.template \in {"broadcast_frame20", "broadcast_payload12"}
           others == IF wide THEN Others(c.endpoint) ELSE <<>>
           head == IF HasPreface(c.template)
                   THEN <<[ep |-> c.endpoint, payload |-> "header4"],
                          [ep |-> c.endpoint, payload |-> "header8"]>> ELSE <<>>
           first == [j \in 1..Len(payloads) |-> [ep |-> c.endpoint, payload |-> payloads[j]]]
           S == [ep : {c.endpoint} \cup {others[j] : j \in 1..Len(others)},
                 payload : {"header4", "header8"} \cup {payloads[j] : j \in 1..Len(payloads)}]
           rest == [j \in 1..Len(others) |-> [ep |-> others[j], payload |-> payloads[1]]]
<1>1. k \in 1..8
  BY SMT
<1>2. c.template = Templates[k]
  BY DEF ScanCandidate, Digit, Templates
<1>3. Templates[k] \in {"frame20", "payload12", "preface_frame20", "preface_payload12",
                       "frame_then_payload", "preface_frame_then_payload",
                       "broadcast_frame20", "broadcast_payload12"}
  <2> HIDE DEF k
  <2> QED  BY <1>1 DEF Templates
<1>4. Len(payloads) \in {1, 2}
  <2> HIDE DEF k, c
  <2>1. TemplateMode(c.template) \in {"frame20", "payload12", "frame_then_payload",
                                    "broadcast_frame20", "broadcast_payload12"}
    BY <1>2, <1>3 DEF TemplateMode
  <2> QED  BY <2>1 DEF PayloadsOf, Payloads
<1>5. Len(others) \in {0, 4, 5}
  <2> HIDE DEF c
  <2> QED  BY DEF Others, OutEndpoints
<1> HIDE DEF c, payloads, others
<1>6. head \in Seq(S) /\ Len(head) \in Nat
  <2>1. <<>> \in Seq(S) /\ Len(<<>>) = 0
    OBVIOUS
  <2>2. [ep |-> c.endpoint, payload |-> "header4"] \in S /\ [ep |-> c.endpoint, payload |-> "header8"] \in S
    OBVIOUS
  <2> HIDE DEF S
  <2> QED  BY <2>1, <2>2
<1>7. first \in Seq(S) /\ Len(first) = Len(payloads)
  BY <1>4
<1>8. rest \in Seq(S) /\ Len(rest) = Len(others)
  BY <1>4, <1>5
<1>9. TemplateSteps(c) = head \o first \o rest
  BY DEF TemplateSteps, payloads, others, wide
<1> HIDE DEF head, first, rest
<1> QED
  BY <1>4, <1>5, <1>6, <1>7, <1>8, <1>9 DEF c

(* The limits are kept by every step.                                      *)
LEMMA NextLimits == IInv /\ WithinLimits /\ [Next]_vars => WithinLimits'
<1> SUFFICES ASSUME IInv, WithinLimits, [Next]_vars PROVE WithinLimits'
  OBVIOUS
<1>0. /\ current \in Nat /\ Tests \in Nat \ {0} /\ MaxPasses \in Nat
      /\ OpenRetries \in Nat \ {0} /\ Len(InEndpoints) \in Nat \ {0}
  BY LenProperties DEF IInv, SessionInv, SessionTypes
<1> USE DEF WithinLimits, session, scan, counters, usb, settings, history
<1>1. CASE ResetAlt
  BY <1>1, <1>0 DEF ResetAlt, CloseSteps
<1>2. CASE Release
  BY <1>2, <1>0 DEF Release, CloseSteps
<1>3. CASE CloseHandle
  BY <1>3, <1>0 DEF CloseHandle, CloseSteps
<1>4. CASE Exit
  <2>1. /\ tries' = tries /\ passes' = passes /\ pc = "exit"
        /\ \/ cont \in {"open", "failed"} /\ pc' \in {"init", "openFailed"} /\ current' = current
           \/ cont = "drop" /\ pc' = "loop" /\ current' = current + 1
           \/ cont = "destroy" /\ pc' = "gone" /\ current' = current
    BY <1>4 DEF Exit
  <2> QED  BY <1>0, <2>1 DEF CloseSteps
<1>5. CASE InitFails
  BY <1>5, <1>0 DEF InitFails, CloseSteps
<1>6. CASE LibInit
  BY <1>6, <1>0 DEF LibInit, CloseSteps
<1>7. CASE OpenDevice
  BY <1>7, <1>0 DEF OpenDevice, CloseSteps
<1>8. CASE OpenDeviceFails
  BY <1>8, <1>0 DEF OpenDeviceFails, CloseSteps
<1>9. CASE GiveUpDevice
  BY <1>9, <1>0 DEF GiveUpDevice, AbortOpen, EnterClose, CloseSteps
<1>10. CASE Claim
  BY <1>10, <1>0 DEF Claim, CloseSteps
<1>11. CASE ClaimFails
  BY <1>11, <1>0 DEF ClaimFails, AbortOpen, EnterClose, CloseSteps
<1>12. CASE SetAlt
  BY <1>12, <1>0 DEF SetAlt, CloseSteps
<1>13. CASE SetAltFails
  BY <1>13, <1>0 DEF SetAltFails, AbortOpen, EnterClose, CloseSteps
<1>14. CASE BeginRun
  <2>1. current \in Nat \ {0}
    BY <1>14, <1>0 DEF BeginRun, IInv, MissesCounted, RunSteps
  <2>2. Len(TemplateSteps(ScanCandidate(current))) \in Nat \ {0}
    BY <2>1, StepsToSend
  <2>3. /\ pc = "run" /\ pc' = "send" /\ i' = 1 /\ passes' = 0
        /\ current' = current /\ tries' = tries
    BY <1>14 DEF BeginRun
  <2> QED  BY <1>0, <2>2, <2>3 DEF CloseSteps
<1>15. CASE Send
  <2> DEFINE last == Len(TemplateSteps(ScanCandidate(current)))
  <2>1. /\ pc = "send" /\ current' = current /\ tries' = tries /\ passes' = passes
        /\ last' = last
        /\ \/ i < last /\ i' = i + 1 /\ pc' = "send"
           \/ pc' \in {"window", "judge"}
    BY <1>15 DEF Send
  <2>2. i \in 1..last /\ last \in Nat
    <3>1. current \in Nat \ {0}
      BY <2>1, <1>0 DEF IInv, MissesCounted, RunSteps
    <3> QED  BY <2>1, <3>1, StepsToSend
  <2>3. pc' = "send" => i' \in 1..last'
    <3> HIDE DEF last, WithinLimits
    <3> QED  BY <2>1, <2>2
  <2>4. current <= Tests /\ tries \in 0..OpenRetries /\ passes \in 0..MaxPasses
    BY <1>0, <2>1 DEF CloseSteps
  <2> HIDE DEF WithinLimits
  <2> QED  BY <1>0, <2>1, <2>3, <2>4 DEF WithinLimits
<1>16. CASE NextRound
  BY <1>16, <1>0 DEF NextRound, CloseSteps
<1>17. CASE WindowOver
  BY <1>17, <1>0 DEF WindowOver, CloseSteps
<1>18. CASE Read
  <2>1. /\ pc = "read" /\ current' = current /\ tries' = tries /\ passes' = passes
        /\ \/ i < Len(InEndpoints) /\ i' = i + 1 /\ pc' = "read"
           \/ pc' \in {"window", "judge"}
    BY <1>18 DEF Read, NextRead
  <2> QED  BY <1>0, <2>1 DEF CloseSteps
<1>19. CASE FirstOpen
  BY <1>19, <1>0 DEF FirstOpen, EnterClose, CloseSteps
<1>20. CASE Opened
  BY <1>20, <1>0 DEF Opened, CloseSteps
<1>21. CASE FirstOpenFailed
  BY <1>21, <1>0 DEF FirstOpenFailed, Leave, EnterClose, CloseSteps
<1>22. CASE ReopenFailed
  <2>1. /\ tries' = tries /\ passes' = passes /\ pc = "openFailed"
        /\ \/ cont' = "destroy" /\ pc' \in {"alt0", "exit"} /\ current' = current
           \/ pc' = "loop" /\ current' = current + 1
    BY <1>22 DEF ReopenFailed, Leave, EnterClose
  <2> QED  BY <1>0, <2>1 DEF CloseSteps
<1>23. CASE Loop
  BY <1>23, <1>0 DEF Loop, Leave, EnterClose, CloseSteps
<1>24. CASE JudgeTest
  BY <1>24, <1>0 DEF JudgeTest, CloseSteps
<1>25. CASE JudgeRerun
  BY <1>25, <1>0 DEF JudgeRerun, CloseSteps
<1>26. CASE After
  BY <1>26, <1>0 DEF After, EnterClose, CloseSteps
<1>27. CASE Unplug \/ Plug
  BY <1>27, <1>0 DEF Unplug, Plug
<1>28. CASE UNCHANGED vars
  BY <1>28, <1>0 DEF vars
<1> QED
  BY <1>1, <1>2, <1>3, <1>4, <1>5, <1>6, <1>7, <1>8, <1>9, <1>10, <1>11, <1>12, <1>13, <1>14,
     <1>15, <1>16, <1>17, <1>18, <1>19, <1>20, <1>21, <1>22, <1>23, <1>24, <1>25, <1>26, <1>27, <1>28
     DEF Next, Program, CloseStep, OpenStep, RunStep, MainStep

(* They hold in every state: the scan is finite.                           *)
THEOREM ScanIsFinite == Spec => []WithinLimits
<1>1. Init => WithinLimits
  BY DEF Init, WithinLimits
<1> QED
  BY <1>1, NextLimits, Invariant, PTL DEF Spec

------------------------------------------------------------------------------
(* Every step goes forward.                                                *)

StageAt(p, caller, again) ==
  IF p \in CloseSteps THEN CloseStages[caller] + CloseOrder[p]
  ELSE OtherStages[p] + IF again THEN 4 ELSE 0

(* The stages in the order in which the tool goes through them.            *)
LEMMA StageTable ==
  ASSUME NEW caller \in {"open", "failed", "drop", "destroy"}, NEW again \in BOOLEAN
  PROVE  /\ StageAt("alt0", caller, again) = CloseStages[caller]
         /\ StageAt("release", caller, again) = CloseStages[caller] + 1
         /\ StageAt("closeHandle", caller, again) = CloseStages[caller] + 2
         /\ StageAt("exit", caller, again) = CloseStages[caller] + 3
         /\ CloseStages[caller] \in {2, 10, 24, 28}
         /\ CloseStages["open"] = 2 /\ CloseStages["failed"] = 10
         /\ CloseStages["drop"] = 24 /\ CloseStages["destroy"] = 28
         /\ \A p \in OpenSteps \cup MainSteps \cup RunSteps \cup {"gone"} :
              StageAt(p, caller, again) = OtherStages[p] + IF again THEN 4 ELSE 0
<1>1. CloseStages[caller] \in {2, 10, 24, 28}
  BY DEF CloseStages
<1>2. /\ CloseStages["open"] = 2 /\ CloseStages["failed"] = 10
      /\ CloseStages["drop"] = 24 /\ CloseStages["destroy"] = 28
  BY DEF CloseStages
<1>3. /\ CloseOrder["alt0"] = 0 /\ CloseOrder["release"] = 1
      /\ CloseOrder["closeHandle"] = 2 /\ CloseOrder["exit"] = 3
  BY DEF CloseOrder
<1>4. \A p \in OpenSteps \cup MainSteps \cup RunSteps \cup {"gone"} : p \notin CloseSteps
  BY DEF OpenSteps, MainSteps, RunSteps, CloseSteps
<1>5. {"alt0", "release", "closeHandle", "exit"} \subseteq CloseSteps
  BY DEF CloseSteps
<1> HIDE DEF CloseStages
<1> QED
  BY <1>1, <1>2, <1>3, <1>4, <1>5 DEF StageAt

(* The number of a stage outside close().                                  *)
Numbered(p, n) == OtherStages[p] = n

LEMMA StageNumbers ==
  /\ Numbered("start", 0) /\ Numbered("loop", 1) /\ Numbered("init", 6)
  /\ Numbered("openDevice", 7) /\ Numbered("claim", 8) /\ Numbered("setAlt", 9)
  /\ Numbered("opened", 14) /\ Numbered("openFailed", 14) /\ Numbered("run", 15)
  /\ Numbered("send", 16) /\ Numbered("window", 17) /\ Numbered("read", 17)
  /\ Numbered("judge", 18) /\ Numbered("after", 23) /\ Numbered("gone", 32)
BY DEF Numbered, OtherStages

(* The order of positions, spelled out.                                    *)
LEMMA LaterMeans ==
  ASSUME NEW c \in Int, NEW s \in Int, NEW r \in Int, NEW n \in Int,
         NEW c2 \in Int, NEW s2 \in Int, NEW r2 \in Int, NEW n2 \in Int,
         \/ c < c2
         \/ c = c2 /\ s < s2
         \/ c = c2 /\ s = s2 /\ r < r2
         \/ c = c2 /\ s = s2 /\ r = r2 /\ n < n2
  PROVE  Later(<<c, s, r, n>>, <<c2, s2, r2, n2>>)
<1> DEFINE p == <<c, s, r, n>>
           q == <<c2, s2, r2, n2>>
<1>1. /\ p[1] = c /\ p[2] = s /\ p[3] = r /\ p[4] = n
      /\ q[1] = c2 /\ q[2] = s2 /\ q[3] = r2 /\ q[4] = n2
  OBVIOUS
<1>2. 1..0 = {} /\ 1..1 = {1} /\ 1..2 = {1, 2} /\ 1..3 = {1, 2, 3} /\ 1..4 = {1, 2, 3, 4}
  OBVIOUS
<1> HIDE DEF p, q
<1>3. CASE c < c2
  <2>1. p[1] < q[1] /\ \A j \in 1..(1 - 1) : p[j] = q[j]
    BY <1>1, <1>2, <1>3
  <2> QED  BY <1>2, <2>1 DEF Later, p, q
<1>4. CASE c = c2 /\ s < s2
  <2>1. p[2] < q[2] /\ \A j \in 1..(2 - 1) : p[j] = q[j]
    BY <1>1, <1>2, <1>4
  <2> QED  BY <1>2, <2>1 DEF Later, p, q
<1>5. CASE c = c2 /\ s = s2 /\ r < r2
  <2>1. p[3] < q[3] /\ \A j \in 1..(3 - 1) : p[j] = q[j]
    BY <1>1, <1>2, <1>5
  <2> QED  BY <1>2, <2>1 DEF Later, p, q
<1>6. CASE c = c2 /\ s = s2 /\ r = r2 /\ n < n2
  <2>1. p[4] < q[4] /\ \A j \in 1..(4 - 1) : p[j] = q[j]
    BY <1>1, <1>2, <1>6
  <2> QED  BY <1>2, <2>1 DEF Later, p, q
<1> QED
  BY <1>3, <1>4, <1>5, <1>6

(* Where the tool is in each of its stages; a second run of a candidate    *)
(* comes four stages later.                                                *)
Base  == CloseStages[cont]
Shift == IF rerun THEN 4 ELSE 0

Placed ==
  /\ current \in Nat /\ Stage \in Nat /\ Round \in Nat /\ Index \in Nat
  /\ Base = CASE cont = "open" -> 2 [] cont = "failed" -> 10
              [] cont = "drop" -> 24 [] OTHER -> 28
  /\ pc \notin {"send", "window", "read", "judge", "run"} => ~rerun
  /\ pc \notin {"window", "read"} => Round = 0
  /\ pc = "alt0"        => Stage = Base /\ Index = i
  /\ pc = "release"     => Stage = Base + 1 /\ Index = i
  /\ pc = "closeHandle" => Stage = Base + 2
  /\ pc = "exit"        => Stage = Base + 3
  /\ pc = "start"       => Stage = 0
  /\ pc = "loop"        => Stage = 1
  /\ pc = "init"        => Stage = 6
  /\ pc = "openDevice"  => Stage = 7 /\ Index = tries
  /\ pc = "claim"       => Stage = 8 /\ Index = i
  /\ pc = "setAlt"      => Stage = 9 /\ Index = i
  /\ pc \in {"opened", "openFailed"} => Stage = 14
  /\ pc = "run"         => Stage = 15 + Shift
  /\ pc = "send"        => Stage = 16 + Shift /\ Index = i
  /\ pc = "window"      => Stage = 17 + Shift /\ Round = passes /\ Index = Len(InEndpoints) + 1
  /\ pc = "read"        => Stage = 17 + Shift /\ Round = passes /\ Index = i
  /\ pc = "judge"       => Stage = 18 + Shift
  /\ pc = "after"       => Stage = 23
  /\ pc = "gone"        => Stage = 32

LEMMA EachStagePlaced == IInv /\ WithinLimits => Placed
<1> SUFFICES ASSUME IInv, WithinLimits PROVE Placed
  OBVIOUS
<1>1. /\ pc \in CloseSteps \cup OpenSteps \cup MainSteps \cup RunSteps \cup {"gone"}
      /\ cont \in {"open", "failed", "drop", "destroy"}
      /\ current \in Nat /\ rerun \in BOOLEAN /\ passes \in Nat /\ tries \in Nat
      /\ Len(InEndpoints) \in Nat
  BY LenProperties
     DEF IInv, SessionInv, SessionTypes, LossIsNoted, WithinLimits
<1>2. pc \in {"alt0", "release", "claim", "setAlt", "send", "read"} => i \in Nat
  <2>1. pc \in {"alt0", "release", "claim", "setAlt"} => i \in Nat
    BY DEF IInv, SessionInv, AtEachStep, Interfaces, AltInterfaces
  <2>2. pc = "send" => i \in Nat
    BY DEF WithinLimits
  <2>3. pc = "read" => i \in Nat
    BY <1>1 DEF WithinLimits
  <2> QED  BY <2>1, <2>2, <2>3
<1>3. Base = CASE cont = "open" -> 2 [] cont = "failed" -> 10
               [] cont = "drop" -> 24 [] OTHER -> 28
  BY <1>1, StageTable DEF Base
<1>4. pc \notin {"send", "window", "read", "judge", "run"} => ~rerun
  BY DEF IInv, LossIsNoted, RunSteps
<1>5. Stage = StageAt(pc, cont, rerun)
  BY DEF Stage, StageAt
<1>6. /\ pc = "alt0" => Stage = Base
      /\ pc = "release" => Stage = Base + 1
      /\ pc = "closeHandle" => Stage = Base + 2
      /\ pc = "exit" => Stage = Base + 3
  BY <1>1, <1>5, StageTable DEF Base
<1>7. pc \notin CloseSteps => Stage = OtherStages[pc] + Shift
  BY <1>1, <1>5 DEF StageAt, Shift
<1>8. Shift \in {0, 4} /\ (~rerun => Shift = 0)
  BY DEF Shift
<1>9. /\ pc = "start" => Stage = 0
      /\ pc = "loop" => Stage = 1
      /\ pc = "init" => Stage = 6
      /\ pc = "openDevice" => Stage = 7
      /\ pc = "claim" => Stage = 8
      /\ pc = "setAlt" => Stage = 9
      /\ pc \in {"opened", "openFailed"} => Stage = 14
      /\ pc = "after" => Stage = 23
      /\ pc = "gone" => Stage = 32
  <2> HIDE DEF Shift
  <2>1. pc \in {"start", "loop", "init", "openDevice", "claim", "setAlt", "opened",
               "openFailed", "after", "gone"} => Shift = 0 /\ pc \notin CloseSteps
    BY <1>4, <1>8 DEF CloseSteps
  <2>2. pc \in {"start", "loop", "init", "openDevice", "claim", "setAlt", "opened",
               "openFailed", "after", "gone"} => Stage = OtherStages[pc] + 0
    BY <2>1, <1>7
  <2>3. /\ pc = "start" => Stage = 0
        /\ pc = "loop" => Stage = 1
        /\ pc = "init" => Stage = 6
        /\ pc = "openDevice" => Stage = 7
    BY <2>2, StageNumbers DEF Numbered
  <2>4. /\ pc = "claim" => Stage = 8
        /\ pc = "setAlt" => Stage = 9
        /\ pc \in {"opened", "openFailed"} => Stage = 14
    BY <2>2, StageNumbers DEF Numbered
  <2>5. /\ pc = "after" => Stage = 23
        /\ pc = "gone" => Stage = 32
    BY <2>2, StageNumbers DEF Numbered
  <2> QED  BY <2>3, <2>4, <2>5
<1>10. /\ pc = "run" => Stage = 15 + Shift
       /\ pc = "send" => Stage = 16 + Shift
       /\ pc \in {"window", "read"} => Stage = 17 + Shift
       /\ pc = "judge" => Stage = 18 + Shift
  <2> HIDE DEF Shift
  <2>1. pc \in {"run", "send", "window", "read", "judge"} => Stage = OtherStages[pc] + Shift
    BY <1>7 DEF CloseSteps
  <2>2. pc = "run" => Stage = 15 + Shift
    BY <2>1, StageNumbers DEF Numbered
  <2>3. pc = "send" => Stage = 16 + Shift
    BY <2>1, StageNumbers DEF Numbered
  <2>4. pc \in {"window", "read"} => Stage = 17 + Shift
    BY <2>1, StageNumbers DEF Numbered
  <2>5. pc = "judge" => Stage = 18 + Shift
    BY <2>1, StageNumbers DEF Numbered
  <2> QED  BY <2>2, <2>3, <2>4, <2>5
<1>11. Stage \in Nat
  <2>1. Base \in Nat
    BY <1>1, <1>3
  <2>2. Shift \in Nat
    BY DEF Shift
  <2> HIDE DEF Base, Shift
  <2>3. CASE pc \in CloseSteps
    BY <1>6, <2>1, <2>3 DEF CloseSteps
  <2>4. CASE pc \in {"run", "send", "window", "read", "judge"}
    BY <1>10, <2>2, <2>4
  <2>5. CASE pc \in {"start", "loop", "init", "openDevice", "claim", "setAlt", "opened",
                    "openFailed", "after", "gone"}
    BY <1>9, <2>5
  <2> QED
    BY <1>1, <2>3, <2>4, <2>5 DEF CloseSteps, OpenSteps, MainSteps, RunSteps
<1>12. /\ Round \in Nat
       /\ pc \notin {"window", "read"} => Round = 0
       /\ pc \in {"window", "read"} => Round = passes
  BY <1>1 DEF Round
<1>13. /\ Index \in Nat
       /\ pc \in {"alt0", "release", "claim", "setAlt", "send", "read"} => Index = i
       /\ pc = "openDevice" => Index = tries
       /\ pc = "window" => Index = Len(InEndpoints) + 1
  BY <1>1, <1>2 DEF Index
<1> HIDE DEF Base, Shift
<1> QED
  BY <1>1, <1>3, <1>4, <1>6, <1>9, <1>10, <1>11, <1>12, <1>13 DEF Placed

Ahead ==
  \/ current < current'
  \/ current = current' /\ Stage < Stage'
  \/ current = current' /\ Stage = Stage' /\ Round < Round'
  \/ current = current' /\ Stage = Stage' /\ Round = Round' /\ Index < Index'

LEMMA AheadIsLater == Placed /\ Placed' /\ Ahead => Later(Position, Position')
<1> SUFFICES ASSUME Placed, Placed', Ahead PROVE Later(Position, Position')
  OBVIOUS
<1>1. /\ current \in Int /\ Stage \in Int /\ Round \in Int /\ Index \in Int
      /\ current' \in Int /\ Stage' \in Int /\ Round' \in Int /\ Index' \in Int
  BY DEF Placed
<1>2. Later(<<current, Stage, Round, Index>>, <<current', Stage', Round', Index'>>)
  BY <1>1, LaterMeans DEF Ahead
<1> QED  BY <1>2 DEF Position

(* The stages that close() is entered at.                                  *)
LEMMA CloseIsEntered ==
  Placed' => /\ EnterClose("open") => Stage' \in {2, 5}
             /\ EnterClose("failed") => Stage' \in {10, 13}
             /\ EnterClose("drop") => Stage' \in {24, 27}
             /\ EnterClose("destroy") => Stage' \in {28, 31}
<1> SUFFICES ASSUME Placed'
             PROVE  /\ EnterClose("open") => Stage' \in {2, 5}
                    /\ EnterClose("failed") => Stage' \in {10, 13}
                    /\ EnterClose("drop") => Stage' \in {24, 27}
                    /\ EnterClose("destroy") => Stage' \in {28, 31}
  OBVIOUS
<1>1. /\ cont' = "open" => Base' = 2
      /\ cont' = "failed" => Base' = 10
      /\ cont' = "drop" => Base' = 24
      /\ cont' = "destroy" => Base' = 28
      /\ pc' = "alt0" => Stage' = Base'
      /\ pc' = "exit" => Stage' = Base' + 3
  BY DEF Placed
<1>2. ASSUME EnterClose("open") PROVE pc' \in {"alt0", "exit"} /\ cont' = "open"
  BY <1>2 DEF EnterClose
<1>3. ASSUME EnterClose("destroy") PROVE pc' \in {"alt0", "exit"} /\ cont' = "destroy"
  BY <1>3 DEF EnterClose
<1>4. ASSUME EnterClose("drop") PROVE pc' \in {"alt0", "exit"} /\ cont' = "drop"
  BY <1>4 DEF EnterClose
<1>5. ASSUME EnterClose("failed") PROVE pc' \in {"alt0", "exit"} /\ cont' = "failed"
  BY <1>5 DEF EnterClose
<1> QED  BY <1>1, <1>2, <1>3, <1>4, <1>5

(* Each step of the tool is ahead of the one before.                       *)
LEMMA StepsAhead == IInv /\ WithinLimits /\ Placed /\ Placed' /\ Program => Ahead
<1> SUFFICES ASSUME IInv, WithinLimits, Placed, Placed', Program PROVE Ahead
  OBVIOUS
<1>0. /\ current \in Nat /\ Stage \in Nat /\ Round \in Nat /\ Index \in Nat
      /\ current' \in Nat /\ Stage' \in Nat /\ Round' \in Nat /\ Index' \in Nat
      /\ rerun \in BOOLEAN /\ Len(InEndpoints) \in Nat \ {0} /\ passes \in Nat /\ tries \in Nat
  BY LenProperties DEF Placed, IInv, LossIsNoted, WithinLimits
<1>b. Base \in Nat
  BY DEF Placed
<1> USE DEF session, scan, counters, usb, settings, history
<1>1. CASE ResetAlt
  <2>1. /\ pc = "alt0" /\ cont' = cont /\ current' = current
        /\ \/ i' = i + 1 /\ pc' = "alt0"
           \/ pc' = "release"
    BY <1>1 DEF ResetAlt
  <2>2. Base' = Base
    BY <2>1 DEF Base
  <2>3. Stage = Base /\ Index = i /\ Round = 0 /\ Round' = 0
    BY <2>1 DEF Placed
  <2>4. /\ pc' = "alt0" => Stage' = Base' /\ Index' = i'
        /\ pc' = "release" => Stage' = Base' + 1
    BY DEF Placed
  <2> QED  BY <1>0, <2>1, <2>2, <2>3, <2>4 DEF Ahead
<1>2. CASE Release
  <2>1. /\ pc = "release" /\ cont' = cont /\ current' = current
        /\ \/ i' = i + 1 /\ pc' = "release"
           \/ pc' = "closeHandle"
    BY <1>2 DEF Release
  <2>2. Base' = Base
    BY <2>1 DEF Base
  <2>3. Stage = Base + 1 /\ Index = i /\ Round = 0 /\ Round' = 0
    BY <2>1 DEF Placed
  <2>4. /\ pc' = "release" => Stage' = Base' + 1 /\ Index' = i'
        /\ pc' = "closeHandle" => Stage' = Base' + 2
    BY DEF Placed
  <2> QED  BY <1>0, <1>b, <2>1, <2>2, <2>3, <2>4 DEF Ahead
<1>3. CASE CloseHandle
  <2>1. pc = "closeHandle" /\ pc' = "exit" /\ cont' = cont /\ current' = current
    BY <1>3 DEF CloseHandle
  <2>2. Base' = Base
    BY <2>1 DEF Base
  <2>3. Stage = Base + 2 /\ Stage' = Base' + 3
    BY <2>1 DEF Placed
  <2> QED  BY <1>0, <1>b, <2>1, <2>2, <2>3 DEF Ahead
<1>4. CASE Exit
  <2>1. /\ pc = "exit"
        /\ \/ cont = "open" /\ pc' = "init" /\ current' = current
           \/ cont = "failed" /\ pc' = "openFailed" /\ current' = current
           \/ current' = current + 1
           \/ cont = "destroy" /\ pc' = "gone" /\ current' = current
    BY <1>4 DEF Exit
  <2>2. /\ Stage = Base + 3
        /\ cont = "open" => Base = 2
        /\ cont = "failed" => Base = 10
        /\ cont = "destroy" => Base = 28
    BY <2>1 DEF Placed
  <2>3. /\ pc' = "init" => Stage' = 6
        /\ pc' = "openFailed" => Stage' = 14
        /\ pc' = "gone" => Stage' = 32
    BY DEF Placed
  <2> QED  BY <1>0, <2>1, <2>2, <2>3 DEF Ahead
<1>5. CASE InitFails
  BY <1>5, <1>0 DEF InitFails, Placed, Ahead
<1>6. CASE LibInit
  BY <1>6, <1>0 DEF LibInit, Placed, Ahead
<1>7. CASE OpenDevice
  BY <1>7, <1>0 DEF OpenDevice, Placed, Ahead
<1>8. CASE OpenDeviceFails
  BY <1>8, <1>0 DEF OpenDeviceFails, Placed, Ahead
<1>9. CASE GiveUpDevice
  <2>1. pc = "openDevice" /\ current' = current /\ EnterClose("failed")
    BY <1>9 DEF GiveUpDevice, AbortOpen
  <2>2. Stage = 7
    BY <2>1 DEF Placed
  <2> QED  BY <1>0, <2>1, <2>2, CloseIsEntered DEF Ahead
<1>10. CASE Claim
  <2>1. /\ pc = "claim" /\ current' = current
        /\ \/ pc' = "claim" /\ i' = i + 1
           \/ pc' = "setAlt"
    BY <1>10 DEF Claim
  <2>2. Stage = 8 /\ Index = i /\ Round = 0
    BY <2>1 DEF Placed
  <2>3. /\ pc' = "claim" => Stage' = 8 /\ Index' = i' /\ Round' = 0
        /\ pc' = "setAlt" => Stage' = 9
    BY DEF Placed
  <2> QED  BY <1>0, <2>1, <2>2, <2>3 DEF Ahead
<1>11. CASE ClaimFails
  <2>1. pc = "claim" /\ current' = current /\ EnterClose("failed")
    BY <1>11 DEF ClaimFails, AbortOpen
  <2>2. Stage = 8
    BY <2>1 DEF Placed
  <2> QED  BY <1>0, <2>1, <2>2, CloseIsEntered DEF Ahead
<1>12. CASE SetAlt
  <2>1. /\ pc = "setAlt" /\ current' = current
        /\ \/ pc' = "setAlt" /\ i' = i + 1
           \/ pc' = "opened"
    BY <1>12 DEF SetAlt
  <2>2. Stage = 9 /\ Index = i /\ Round = 0
    BY <2>1 DEF Placed
  <2>3. /\ pc' = "setAlt" => Stage' = 9 /\ Index' = i' /\ Round' = 0
        /\ pc' = "opened" => Stage' = 14
    BY DEF Placed
  <2> QED  BY <1>0, <2>1, <2>2, <2>3 DEF Ahead
<1>13. CASE SetAltFails
  <2>1. pc = "setAlt" /\ current' = current /\ EnterClose("failed")
    BY <1>13 DEF SetAltFails, AbortOpen
  <2>2. Stage = 9
    BY <2>1 DEF Placed
  <2> QED  BY <1>0, <2>1, <2>2, CloseIsEntered DEF Ahead
<1>14. CASE BeginRun
  <2>1. pc = "run" /\ pc' = "send" /\ current' = current /\ rerun' = rerun
    BY <1>14 DEF BeginRun
  <2>2. Shift' = Shift /\ Shift \in {0, 4}
    BY <2>1 DEF Shift
  <2>3. Stage = 15 + Shift /\ Stage' = 16 + Shift'
    BY <2>1 DEF Placed
  <2> QED  BY <1>0, <2>1, <2>2, <2>3 DEF Ahead
<1>15. CASE Send
  <2>1. /\ pc = "send" /\ current' = current /\ rerun' = rerun
        /\ \/ pc' = "send" /\ i' = i + 1
           \/ pc' = "window"
           \/ pc' = "judge"
    BY <1>15 DEF Send
  <2>2. Shift' = Shift /\ Shift \in {0, 4}
    BY <2>1 DEF Shift
  <2>3. Stage = 16 + Shift /\ Index = i /\ Round = 0
    BY <2>1 DEF Placed
  <2>4. /\ pc' = "send" => Stage' = 16 + Shift' /\ Index' = i' /\ Round' = 0
        /\ pc' = "window" => Stage' = 17 + Shift'
        /\ pc' = "judge" => Stage' = 18 + Shift'
    BY DEF Placed
  <2> QED  BY <1>0, <2>1, <2>2, <2>3, <2>4 DEF Ahead
<1>16. CASE NextRound
  <2>1. pc = "window" /\ pc' = "read" /\ current' = current /\ rerun' = rerun
    BY <1>16 DEF NextRound
  <2>2. Shift' = Shift /\ Shift \in {0, 4}
    BY <2>1 DEF Shift
  <2>3. Stage = 17 + Shift /\ Stage' = 17 + Shift'
    BY <2>1 DEF Placed
  <2>4. Round = passes /\ Round' = passes' /\ passes' = passes + 1
    BY <1>16, <2>1 DEF Placed, NextRound
  <2> QED  BY <1>0, <2>1, <2>2, <2>3, <2>4 DEF Ahead
<1>17. CASE WindowOver
  <2>1. pc = "window" /\ pc' = "judge" /\ current' = current /\ rerun' = rerun
    BY <1>17 DEF WindowOver
  <2>2. Shift' = Shift /\ Shift \in {0, 4}
    BY <2>1 DEF Shift
  <2>3. Stage = 17 + Shift /\ Stage' = 18 + Shift'
    BY <2>1 DEF Placed
  <2> QED  BY <1>0, <2>1, <2>2, <2>3 DEF Ahead
<1>18. CASE Read
  <2>1. /\ pc = "read" /\ current' = current /\ rerun' = rerun /\ passes' = passes
        /\ \/ pc' = "read" /\ i' = i + 1
           \/ pc' = "window"
           \/ pc' = "judge"
    BY <1>18 DEF Read, NextRead
  <2>2. Shift' = Shift /\ Shift \in {0, 4}
    BY <2>1 DEF Shift
  <2>3. Stage = 17 + Shift /\ Index = i /\ Round = passes /\ i <= Len(InEndpoints)
    BY <2>1, <1>0 DEF Placed, WithinLimits
  <2>4. /\ pc' = "read" => Stage' = 17 + Shift' /\ Index' = i' /\ Round' = passes'
        /\ pc' = "window" => Stage' = 17 + Shift' /\ Round' = passes'
                             /\ Index' = Len(InEndpoints) + 1
        /\ pc' = "judge" => Stage' = 18 + Shift'
    BY DEF Placed
  <2> QED  BY <1>0, <2>1, <2>2, <2>3, <2>4 DEF Ahead
<1>19. CASE FirstOpen
  <2>1. pc = "start" /\ current' = current /\ EnterClose("open")
    BY <1>19 DEF FirstOpen
  <2>2. Stage = 0
    BY <2>1 DEF Placed
  <2> QED  BY <1>0, <2>1, <2>2, CloseIsEntered DEF Ahead
<1>20. CASE Opened
  <2>1. /\ pc = "opened"
        /\ \/ current' = current + 1
           \/ pc' = "run" /\ current' = current
    BY <1>20 DEF Opened
  <2>2. Stage = 14
    BY <2>1 DEF Placed
  <2>3. pc' = "run" => Stage' = 15 + Shift'
    BY DEF Placed
  <2>4. pc' = "run" => Stage' > 14
    <3> SUFFICES ASSUME pc' = "run" PROVE Stage' > 14
      OBVIOUS
    <3>1. CASE Shift' = 0
      BY <2>3, <3>1
    <3>2. CASE Shift' = 4
      BY <2>3, <3>2
    <3> QED  BY <3>1, <3>2 DEF Shift
  <2> QED  BY <1>0, <2>1, <2>2, <2>4 DEF Ahead
<1>21. CASE FirstOpenFailed
  <2>1. pc = "openFailed" /\ current' = current /\ EnterClose("destroy")
    BY <1>21 DEF FirstOpenFailed, Leave
  <2>2. Stage = 14
    BY <2>1 DEF Placed
  <2> QED  BY <1>0, <2>1, <2>2, CloseIsEntered DEF Ahead
<1>22. CASE ReopenFailed
  <2>1. /\ pc = "openFailed"
        /\ \/ EnterClose("destroy") /\ current' = current
           \/ current' = current + 1
    BY <1>22 DEF ReopenFailed, Leave
  <2>2. Stage = 14
    BY <2>1 DEF Placed
  <2>3. EnterClose("destroy") => Stage' \in {28, 31}
    BY CloseIsEntered
  <2> QED  BY <1>0, <2>1, <2>2, <2>3 DEF Ahead
<1>23. CASE Loop
  <2>1. /\ pc = "loop" /\ current' = current
        /\ \/ EnterClose("destroy")
           \/ pc' = "run"
           \/ EnterClose("open")
    BY <1>23 DEF Loop, Leave
  <2>2. Stage = 1
    BY <2>1 DEF Placed
  <2>3. EnterClose("destroy") => Stage' \in {28, 31}
    BY CloseIsEntered
  <2>4. EnterClose("open") => Stage' \in {2, 5}
    BY CloseIsEntered
  <2>5. pc' = "run" => Stage' > 1
    <3> SUFFICES ASSUME pc' = "run" PROVE Stage' > 1
      OBVIOUS
    <3>1. Stage' = 15 + Shift'
      BY DEF Placed
    <3>2. CASE Shift' = 0
      BY <3>1, <3>2
    <3>3. CASE Shift' = 4
      BY <3>1, <3>3
    <3> QED  BY <3>2, <3>3 DEF Shift
  <2>6. Stage' > 1
    <3>1. CASE EnterClose("destroy")
      BY <2>3, <3>1
    <3>2. CASE EnterClose("open")
      BY <2>4, <3>2
    <3>3. CASE pc' = "run"
      BY <2>5, <3>3
    <3> QED  BY <2>1, <3>1, <3>2, <3>3
  <2> QED  BY <2>1, <2>2, <2>6 DEF Ahead
<1>24. CASE JudgeTest
  <2>1. /\ pc = "judge" /\ ~rerun /\ current' = current
        /\ \/ pc' = "run" /\ rerun'
           \/ pc' = "after"
    BY <1>24 DEF JudgeTest
  <2>2. Stage = 18
    <3>1. Stage = 18 + Shift
      BY <2>1 DEF Placed
    <3>2. Shift = 0
      BY <2>1 DEF Shift
    <3> QED  BY <3>1, <3>2
  <2>3. pc' = "run" /\ rerun' => Stage' = 19
    <3>1. pc' = "run" => Stage' = 15 + Shift'
      BY DEF Placed
    <3>2. rerun' => Shift' = 4
      BY DEF Shift
    <3> QED  BY <3>1, <3>2
  <2>4. pc' = "after" => Stage' = 23
    BY DEF Placed
  <2> QED  BY <1>0, <2>1, <2>2, <2>3, <2>4 DEF Ahead
<1>25. CASE JudgeRerun
  BY <1>25, <1>0 DEF JudgeRerun, Placed, Ahead, Shift
<1>26. CASE After
  <2>1. /\ pc = "after"
        /\ \/ EnterClose("drop") /\ current' = current
           \/ current' = current + 1
    BY <1>26 DEF After
  <2>2. Stage = 23
    BY <2>1 DEF Placed
  <2>3. EnterClose("drop") => Stage' \in {24, 27}
    BY CloseIsEntered
  <2> QED  BY <1>0, <2>1, <2>2, <2>3 DEF Ahead
<1> QED
  BY <1>1, <1>2, <1>3, <1>4, <1>5, <1>6, <1>7, <1>8, <1>9, <1>10, <1>11, <1>12, <1>13, <1>14,
     <1>15, <1>16, <1>17, <1>18, <1>19, <1>20, <1>21, <1>22, <1>23, <1>24, <1>25, <1>26
     DEF Program, CloseStep, OpenStep, RunStep, MainStep

(* The scan only ever goes forward, through finitely many positions: with  *)
(* a step always taken it would end, whatever the device does.             *)
THEOREM ScanAdvances == Spec => EveryStepAdvances
<1>1. Spec => []Placed
  BY EachStagePlaced, Invariant, ScanIsFinite, PTL
<1>2. IInv /\ WithinLimits /\ Placed /\ Placed' /\ [Next]_vars
        => [attached' = attached => Later(Position, Position')]_vars
  <2> SUFFICES ASSUME IInv, WithinLimits, Placed, Placed', Next, attached' = attached
               PROVE  Later(Position, Position')
    BY DEF vars
  <2>1. ~(Unplug \/ Plug)
    BY DEF Unplug, Plug, IInv, SessionInv, SessionTypes
  <2> QED  BY <2>1, StepsAhead, AheadIsLater DEF Next
<1> QED
  BY <1>1, <1>2, Invariant, ScanIsFinite, PTL DEF Spec, EveryStepAdvances
==============================================================================
