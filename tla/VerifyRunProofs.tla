--------------------------- MODULE VerifyRunProofs ---------------------------
(***************************************************************************)
(* Theorems about the verification command: for any number of runs,        *)
(* candidates and faults, and any thresholds of the ladder, the invariants *)
(* that VerifyRun states hold in every reachable state.                    *)
(***************************************************************************)
EXTENDS VerifyRun, TLAPS

\* A ladder state stays one, whatever is counted.
LEMMA LadderTypes ==
    ASSUME NEW state \in DegradationState, NEW kind \in AnomalyKind
    PROVE  /\ recordAnomaly(state, kind) \in DegradationState
           /\ Stalled(state) \in DegradationState
<1> USE DEF DegradationState, DegradationLevel, AnomalyKind
<1>1. [state.anomalyCounts EXCEPT ![kind] = @ + 1] \in [AnomalyKind -> Nat]
  OBVIOUS
<1>2. \A counts : tryEscalate(state.currentLevel, counts) \in DegradationLevel
  BY DEF tryEscalate
<1>3. recordAnomaly(state, kind) \in DegradationState
  BY <1>1, <1>2 DEF recordAnomaly
<1>4. Stalled(state) \in DegradationState
  BY DEF Stalled, halt
<1>5. QED
  BY <1>3, <1>4

\* Gate failures are counted under a kind of the ladder, or not at all.
LEMMA GateKinds ==
    ASSUME NEW class \in GateFailureClass
    PROVE  gateClassToAnomalyKind(class) \in AnomalyKind \cup {"none"}
BY DEF gateClassToAnomalyKind, GateFailureClass, Unparsed, Unrepairable,
       FromTranscript, AnomalyKind

\* A push keeps the results a sequence of numbers, as long as it was.
LEMMA PushTypes ==
    ASSUME TypeOK, Push
    PROVE  answers' \in Seq(Nat) /\ Len(answers') = Len(answers)
           /\ DOMAIN answers' = DOMAIN answers
<1>1. answers \in [1 .. Len(answers) -> Nat] /\ Len(answers) \in Nat
  BY DEF TypeOK
<1>2. answers' = [j \in 1 .. Len(answers) |->
                    IF j = current THEN answers[current] + 1 ELSE answers[j]]
  BY <1>1 DEF Push
<1>3. QED
  BY <1>1, <1>2

LEMMA PushPendingTypes ==
    ASSUME TypeOK, PushPending
    PROVE  answers' \in Seq(Nat) /\ Len(answers') = Len(answers)
           /\ DOMAIN answers' = DOMAIN answers
<1>1. answers' \in [1 .. Len(answers) -> Nat] /\ Len(answers) \in Nat
  BY DEF TypeOK, PushPending
<1>2. QED
  BY <1>1

\* Every step keeps the types.
LEMMA TypeStep ==
    ASSUME TypeOK, [Next]_vars
    PROVE  TypeOK'
<1> USE VerifyConstants DEF TypeOK, Places, Statuses, work, target, files
<1>1. CASE Kill
  BY <1>1 DEF Kill
<1>2. CASE Launch
  <2>1. pc' \in Places
    BY <1>2 DEF Launch, Distinct, Launches
  <2>2. run' \in Nat
    BY <1>2 DEF Launch, Distinct, Launches
  <2>3. launch' \in Launches
    BY <1>2 DEF Launch, Distinct, Launches
  <2>4. lane' \in {"source", "runtime"}
    BY <1>2 DEF Launch, Distinct, Launches
  <2>5. current' \in Nat \ {0}
    BY <1>2 DEF Launch, Distinct, Launches
  <2>6. answers' \in Seq(Nat)
    BY <1>2 DEF Launch, Distinct, Launches
  <2>7. muddled' \in SUBSET Nat
    BY <1>2 DEF Launch, Distinct, Launches
  <2>8. survivors' \in Nat
    BY <1>2 DEF Launch, Distinct, Launches
  <2>9. sourcePath' \in BOOLEAN
    BY <1>2 DEF Launch, Distinct, Launches
  <2>10. failing' \in BOOLEAN
    BY <1>2 DEF Launch, Distinct, Launches
  <2>11. degradation' \in DegradationState
    BY <1>2 DEF Launch, createDegradationState, DegradationState, DegradationLevel
  <2>12. setup' \in {"none", "ok", "failed", "reused"}
    BY <1>2 DEF Launch, Distinct, Launches
  <2>13. containers' \in BOOLEAN
    BY <1>2 DEF Launch, Distinct, Launches
  <2>14. dotenv' \in {"absent", "ours", "left"}
    BY <1>2 DEF Launch, Distinct, Launches
  <2>15. tornDown' \in BOOLEAN
    BY <1>2 DEF Launch, Distinct, Launches
  <2>16. exitStatus' \in Statuses
    BY <1>2 DEF Launch, Distinct, Launches
  <2>17. manifest' \in [run : Nat, status : Statuses \cup {"open"}, runtime : Nat]
    BY <1>2 DEF Launch, Distinct, Launches
  <2>18. faults' \in Nat
    BY <1>2 DEF Launch, Distinct, Launches
  <2>19. UNCHANGED <<sourceFile, runtimeFile>>
    BY <1>2 DEF Launch, Distinct, Launches
  <2>20. QED
    BY <2>1, <2>2, <2>3, <2>4, <2>5, <2>6, <2>7, <2>8, <2>9, <2>10, <2>11, 
       <2>12, <2>13, <2>14, <2>15, <2>16, <2>17, <2>18, <2>19
<1>3. CASE EnterStage
  <2>1. pc' \in Places
    BY <1>3 DEF EnterStage, Catch, Fault
  <2>2. failing' \in BOOLEAN
    BY <1>3 DEF EnterStage, Catch, Fault
  <2>3. exitStatus' \in Statuses
    BY <1>3 DEF EnterStage, Catch, Fault
  <2>4. faults' \in Nat
    BY <1>3 DEF EnterStage, Catch, Fault
  <2>5. UNCHANGED <<run, launch, lane, current, answers, muddled, 
        survivors, sourcePath, degradation, setup, containers, dotenv, 
        tornDown, sourceFile, runtimeFile, manifest>>
    BY <1>3 DEF EnterStage, Catch, Fault
  <2>6. QED
    BY <2>1, <2>2, <2>3, <2>4, <2>5
<1>4. CASE ExitStage
  <2>1. pc' \in Places
    BY <1>4 DEF ExitStage, Catch, Fault
  <2>2. failing' \in BOOLEAN
    BY <1>4 DEF ExitStage, Catch, Fault
  <2>3. exitStatus' \in Statuses
    BY <1>4 DEF ExitStage, Catch, Fault
  <2>4. faults' \in Nat
    BY <1>4 DEF ExitStage, Catch, Fault
  <2>5. UNCHANGED <<run, launch, lane, current, answers, muddled, 
        survivors, sourcePath, degradation, setup, containers, dotenv, 
        tornDown, sourceFile, runtimeFile, manifest>>
    BY <1>4 DEF ExitStage, Catch, Fault
  <2>6. QED
    BY <2>1, <2>2, <2>3, <2>4, <2>5
<1>5. CASE UseSourceArtifact
  <2>1. pc' \in Places
    BY <1>5 DEF UseSourceArtifact
  <2>2. lane' \in {"source", "runtime"}
    BY <1>5 DEF UseSourceArtifact
  <2>3. survivors' \in Nat
    BY <1>5 DEF UseSourceArtifact
  <2>4. sourcePath' \in BOOLEAN
    BY <1>5 DEF UseSourceArtifact
  <2>5. exitStatus' \in Statuses
    BY <1>5 DEF UseSourceArtifact
  <2>6. UNCHANGED <<run, launch, current, answers, muddled, failing, 
        degradation, setup, containers, dotenv, tornDown, sourceFile, 
        runtimeFile, manifest, faults>>
    BY <1>5 DEF UseSourceArtifact
  <2>7. QED
    BY <2>1, <2>2, <2>3, <2>4, <2>5, <2>6
<1>6. CASE NoSourceArtifact
  <2>1. pc' \in Places
    BY <1>6 DEF NoSourceArtifact, Catch
  <2>2. failing' \in BOOLEAN
    BY <1>6 DEF NoSourceArtifact, Catch
  <2>3. exitStatus' \in Statuses
    BY <1>6 DEF NoSourceArtifact, Catch
  <2>4. UNCHANGED <<run, launch, lane, current, answers, muddled, 
        survivors, sourcePath, degradation, setup, containers, dotenv, 
        tornDown, sourceFile, runtimeFile, manifest, faults>>
    BY <1>6 DEF NoSourceArtifact, Catch
  <2>5. QED
    BY <2>1, <2>2, <2>3, <2>4
<1>7. CASE Finalize
  <2>1. pc' \in Places
    BY <1>7 DEF Finalize, Fault
  <2>2. exitStatus' \in Statuses
    BY <1>7 DEF Finalize, Fault
  <2>3. manifest' \in [run : Nat, status : Statuses \cup {"open"}, runtime : Nat]
    BY <1>7 DEF Finalize, Fault
  <2>4. faults' \in Nat
    BY <1>7 DEF Finalize, Fault
  <2>5. UNCHANGED <<run, launch, lane, current, answers, muddled, 
        survivors, sourcePath, failing, degradation, setup, containers, 
        dotenv, tornDown, sourceFile, runtimeFile>>
    BY <1>7 DEF Finalize, Fault
  <2>6. QED
    BY <2>1, <2>2, <2>3, <2>4, <2>5
<1>8. CASE LoadFails
  BY <1>8 DEF LoadFails, Throw
<1>9. CASE LoadSource
  <2>1. pc' \in Places
    BY <1>9 DEF LoadSource, Load
  <2>2. current' \in Nat \ {0}
    BY <1>9 DEF LoadSource, Load
  <2>3. answers' \in Seq(Nat)
    BY <1>9 DEF LoadSource, Load
  <2>4. muddled' \in SUBSET Nat
    BY <1>9 DEF LoadSource, Load
  <2>5. UNCHANGED <<run, launch, lane, survivors, sourcePath, failing, 
        degradation, setup, containers, dotenv, tornDown, sourceFile, 
        runtimeFile, exitStatus, manifest, faults>>
    BY <1>9 DEF LoadSource, Load
  <2>6. QED
    BY <2>1, <2>2, <2>3, <2>4, <2>5
<1>10. CASE LoadRuntime
  <2>1. pc' \in Places
    BY <1>10 DEF LoadRuntime, Load
  <2>2. current' \in Nat \ {0}
    BY <1>10 DEF LoadRuntime, Load
  <2>3. answers' \in Seq(Nat)
    BY <1>10 DEF LoadRuntime, Load
  <2>4. muddled' \in SUBSET Nat
    BY <1>10 DEF LoadRuntime, Load
  <2>5. UNCHANGED <<run, launch, lane, survivors, sourcePath, failing, 
        degradation, setup, containers, dotenv, tornDown, sourceFile, 
        runtimeFile, exitStatus, manifest, faults>>
    BY <1>10 DEF LoadRuntime, Load
  <2>6. QED
    BY <2>1, <2>2, <2>3, <2>4, <2>5
<1>11. CASE RunSession
  <2>1. pc' \in Places
    BY <1>11 DEF RunSession, Load
  <2>2. current' \in Nat \ {0}
    BY <1>11 DEF RunSession, Load
  <2>3. answers' \in Seq(Nat)
    BY <1>11 DEF RunSession, Load
  <2>4. muddled' \in SUBSET Nat
    BY <1>11 DEF RunSession, Load
  <2>5. UNCHANGED <<run, launch, lane, survivors, sourcePath, failing, 
        degradation, setup, containers, dotenv, tornDown, sourceFile, 
        runtimeFile, exitStatus, manifest, faults>>
    BY <1>11 DEF RunSession, Load
  <2>6. QED
    BY <2>1, <2>2, <2>3, <2>4, <2>5
<1>12. CASE SetUp
  <2>1. pc' \in Places
    BY <1>12 DEF SetUp, bootstrapEnvFile
  <2>2. setup' \in {"none", "ok", "failed", "reused"}
    BY <1>12 DEF SetUp, bootstrapEnvFile
  <2>3. containers' \in BOOLEAN
    BY <1>12 DEF SetUp, bootstrapEnvFile
  <2>4. dotenv' \in {"absent", "ours", "left"}
    BY <1>12 DEF SetUp, bootstrapEnvFile
  <2>5. UNCHANGED <<run, launch, lane, current, answers, muddled, 
        survivors, sourcePath, failing, degradation, tornDown, sourceFile, 
        runtimeFile, exitStatus, manifest, faults>>
    BY <1>12 DEF SetUp, bootstrapEnvFile
  <2>6. QED
    BY <2>1, <2>2, <2>3, <2>4, <2>5
<1>13. CASE AnnounceSetup
  <2>1. pc' \in Places
    BY <1>13 DEF AnnounceSetup, PushPending, Ladder, Progressed, Throw, Fault
  <2>2. answers' \in Seq(Nat)
    BY <1>13, PushPendingTypes DEF AnnounceSetup
  <2>3. failing' \in BOOLEAN
    BY <1>13 DEF AnnounceSetup, PushPending, Ladder, Progressed, Throw, Fault
  <2>4. degradation' \in DegradationState
    BY <1>13, LadderTypes DEF AnnounceSetup, Progressed, Ladder, AnomalyKind
  <2>5. faults' \in Nat
    BY <1>13 DEF AnnounceSetup, PushPending, Ladder, Progressed, Throw, Fault
  <2>6. UNCHANGED <<run, launch, lane, current, muddled, survivors, 
        sourcePath, setup, containers, dotenv, tornDown, sourceFile, 
        runtimeFile, exitStatus, manifest>>
    BY <1>13 DEF AnnounceSetup, PushPending, Ladder, Progressed, Throw, Fault
  <2>7. QED
    BY <2>1, <2>2, <2>3, <2>4, <2>5, <2>6
<1>14. CASE LoopEnds
  BY <1>14 DEF LoopEnds, AfterLoop
<1>15. CASE HaltLoop
  <2>1. pc' \in Places
    BY <1>15 DEF HaltLoop, PushPending, Halted, AfterLoop
  <2>2. current' \in Nat \ {0}
    BY <1>15 DEF HaltLoop, PushPending, Halted, AfterLoop
  <2>3. answers' \in Seq(Nat)
    BY <1>15, PushPendingTypes DEF HaltLoop
  <2>4. survivors' \in Nat
    BY <1>15 DEF HaltLoop, PushPending, Halted, AfterLoop
  <2>5. UNCHANGED <<run, launch, lane, muddled, sourcePath, failing, 
        degradation, setup, containers, dotenv, tornDown, sourceFile, 
        runtimeFile, exitStatus, manifest, faults>>
    BY <1>15 DEF HaltLoop, PushPending, Halted, AfterLoop
  <2>6. QED
    BY <2>1, <2>2, <2>3, <2>4, <2>5
<1>16. CASE SkipNonCritical
  <2>1. current' \in Nat \ {0}
    BY <1>16 DEF SkipNonCritical, Push, Halted
  <2>2. answers' \in Seq(Nat)
    BY PushTypes, <1>16 DEF SkipNonCritical
  <2>3. UNCHANGED <<pc, run, launch, lane, muddled, survivors, sourcePath, 
        failing, degradation, setup, containers, dotenv, tornDown, 
        sourceFile, runtimeFile, exitStatus, manifest, faults>>
    BY <1>16 DEF SkipNonCritical, Push, Halted
  <2>4. QED
    BY <2>1, <2>2, <2>3
<1>17. CASE StartCandidate
  <2>1. pc' \in Places
    BY <1>17 DEF StartCandidate, Abandon, Fault, Halted
  <2>2. failing' \in BOOLEAN
    BY <1>17 DEF StartCandidate, Abandon, Fault, Halted
  <2>3. faults' \in Nat
    BY <1>17 DEF StartCandidate, Abandon, Fault, Halted
  <2>4. UNCHANGED <<run, launch, lane, current, answers, muddled, 
        survivors, sourcePath, degradation, setup, containers, dotenv, 
        tornDown, sourceFile, runtimeFile, exitStatus, manifest>>
    BY <1>17 DEF StartCandidate, Abandon, Fault, Halted
  <2>5. QED
    BY <2>1, <2>2, <2>3, <2>4
<1>18. CASE InvokeFails
  BY <1>18 DEF InvokeFails
<1>19. CASE NoToolCalls
  <2>1. pc' \in Places
    BY <1>19 DEF NoToolCalls, Push
  <2>2. answers' \in Seq(Nat)
    BY PushTypes, <1>19 DEF NoToolCalls
  <2>3. UNCHANGED <<run, launch, lane, current, muddled, survivors, 
        sourcePath, failing, degradation, setup, containers, dotenv, 
        tornDown, sourceFile, runtimeFile, exitStatus, manifest, faults>>
    BY <1>19 DEF NoToolCalls, Push
  <2>4. QED
    BY <2>1, <2>2, <2>3
<1>20. CASE \E class \in GateFailureClass \cup {NoFailure} : Gate(class)
  <2> SUFFICES ASSUME NEW class \in GateFailureClass \cup {NoFailure}, Gate(class)
               PROVE  TypeOK'
    BY <1>20
  <2>1. pc' \in Places
    BY DEF Gate, Push, Surviving, Ladder, Fault
  <2>2. answers' \in Seq(Nat)
    BY PushTypes DEF Gate
  <2>3. survivors' \in Nat
    BY DEF Gate, Push, Surviving, Ladder, Fault
  <2>4. degradation' \in DegradationState
    <3>1. CASE class = NoFailure
      BY <3>1 DEF Gate
    <3>2. CASE class \in GateFailureClass
      BY <3>2, GateKinds, LadderTypes DEF Gate, Ladder
    <3>3. QED
      BY <3>1, <3>2
  <2>5. faults' \in Nat
    BY DEF Gate, Push, Surviving, Ladder, Fault
  <2>6. UNCHANGED <<run, launch, lane, current, muddled, sourcePath, 
        failing, setup, containers, dotenv, tornDown, sourceFile, 
        runtimeFile, exitStatus, manifest>>
    BY DEF Gate, Push, Surviving, Ladder, Fault
  <2>7. QED
    BY <2>1, <2>2, <2>3, <2>4, <2>5, <2>6
<1>21. CASE \E answered \in SourceStatus, defended \in BOOLEAN, proven \in BOOLEAN :
                    JudgeSource(answered, defended, proven)
  <2> SUFFICES ASSUME NEW answered \in SourceStatus, NEW defended \in BOOLEAN,
                      NEW proven \in BOOLEAN, JudgeSource(answered, defended, proven)
               PROVE  TypeOK'
    BY <1>21
  <2>1. pc' \in Places
    BY DEF JudgeSource, Push, Surviving, Fault
  <2>2. answers' \in Seq(Nat)
    BY PushTypes DEF JudgeSource
  <2>3. survivors' \in Nat
    BY DEF JudgeSource, Push, Surviving, Fault
  <2>4. faults' \in Nat
    BY DEF JudgeSource, Push, Surviving, Fault
  <2>5. UNCHANGED <<run, launch, lane, current, muddled, sourcePath, 
        failing, degradation, setup, containers, dotenv, tornDown, 
        sourceFile, runtimeFile, exitStatus, manifest>>
    BY DEF JudgeSource, Push, Surviving, Fault
  <2>6. QED
    BY <2>1, <2>2, <2>3, <2>4, <2>5
<1>22. CASE JudgeRuntime
  <2>1. pc' \in Places
    BY <1>22 DEF JudgeRuntime, Push
  <2>2. answers' \in Seq(Nat)
    BY PushTypes, <1>22 DEF JudgeRuntime
  <2>3. UNCHANGED <<run, launch, lane, current, muddled, survivors, 
        sourcePath, failing, degradation, setup, containers, dotenv, 
        tornDown, sourceFile, runtimeFile, exitStatus, manifest, faults>>
    BY <1>22 DEF JudgeRuntime, Push
  <2>4. QED
    BY <2>1, <2>2, <2>3
<1>23. CASE Report
  <2>1. pc' \in Places
    BY <1>23 DEF Report, Progressed, Fault
  <2>2. current' \in Nat \ {0}
    BY <1>23 DEF Report, Progressed, Fault
  <2>3. muddled' \in SUBSET Nat
    BY <1>23 DEF Report, Progressed, Fault
  <2>4. degradation' \in DegradationState
    BY <1>23, LadderTypes DEF Report, Progressed, AnomalyKind
  <2>5. faults' \in Nat
    BY <1>23 DEF Report, Progressed, Fault
  <2>6. UNCHANGED <<run, launch, lane, answers, survivors, sourcePath, 
        failing, setup, containers, dotenv, tornDown, sourceFile, 
        runtimeFile, exitStatus, manifest>>
    BY <1>23 DEF Report, Progressed, Fault
  <2>7. QED
    BY <2>1, <2>2, <2>3, <2>4, <2>5, <2>6
<1>24. CASE Caught
  <2>1. pc' \in Places
    BY <1>24 DEF Caught, Push, Surviving, Progressed, Abandon, Fault
  <2>2. current' \in Nat \ {0}
    BY <1>24 DEF Caught, Push, Surviving, Progressed, Abandon, Fault
  <2>3. answers' \in Seq(Nat)
    BY PushTypes, <1>24 DEF Caught
  <2>4. survivors' \in Nat
    BY <1>24 DEF Caught, Push, Surviving, Progressed, Abandon, Fault
  <2>5. failing' \in BOOLEAN
    BY <1>24 DEF Caught, Push, Surviving, Progressed, Abandon, Fault
  <2>6. degradation' \in DegradationState
    BY <1>24, LadderTypes DEF Caught, Progressed, AnomalyKind
  <2>7. faults' \in Nat
    BY <1>24 DEF Caught, Push, Surviving, Progressed, Abandon, Fault
  <2>8. UNCHANGED <<run, launch, lane, muddled, sourcePath, setup, 
        containers, dotenv, tornDown, sourceFile, runtimeFile, exitStatus, 
        manifest>>
    BY <1>24 DEF Caught, Push, Surviving, Progressed, Abandon, Fault
  <2>9. QED
    BY <2>1, <2>2, <2>3, <2>4, <2>5, <2>6, <2>7, <2>8
<1>25. CASE Audit
  <2>1. pc' \in Places
    BY <1>25 DEF Audit, Progressed
  <2>2. survivors' \in Nat
    BY <1>25 DEF Audit, Progressed
  <2>3. degradation' \in DegradationState
    BY <1>25, LadderTypes DEF Audit, Progressed, AnomalyKind
  <2>4. UNCHANGED <<run, launch, lane, current, answers, muddled, 
        sourcePath, failing, setup, containers, dotenv, tornDown, 
        sourceFile, runtimeFile, exitStatus, manifest, faults>>
    BY <1>25 DEF Audit, Progressed
  <2>5. QED
    BY <2>1, <2>2, <2>3, <2>4
<1>26. CASE TearDown
  <2>1. pc' \in Places
    BY <1>26 DEF TearDown, Throw, Fault, Sweep
  <2>2. failing' \in BOOLEAN
    BY <1>26 DEF TearDown, Throw, Fault, Sweep
  <2>3. containers' \in BOOLEAN
    BY <1>26 DEF TearDown, Throw, Fault, Sweep
  <2>4. dotenv' \in {"absent", "ours", "left"}
    BY <1>26 DEF TearDown, Throw, Fault, Sweep
  <2>5. tornDown' \in BOOLEAN
    BY <1>26 DEF TearDown, Throw, Fault, Sweep
  <2>6. faults' \in Nat
    <3>1. faults' \in {faults, faults + 1}
      BY <1>26 DEF TearDown, Sweep, Fault
    <3>2. QED
      BY <3>1
  <2>7. UNCHANGED <<run, launch, lane, current, answers, muddled, 
        survivors, sourcePath, degradation, setup, sourceFile, runtimeFile, 
        exitStatus, manifest>>
    BY <1>26 DEF TearDown, Throw, Fault, Sweep
  <2>8. QED
    BY <2>1, <2>2, <2>3, <2>4, <2>5, <2>6, <2>7
<1>27. CASE WriteSource
  <2>1. pc' \in Places
    BY <1>27 DEF WriteSource, Throw, Fault
  <2>2. sourcePath' \in BOOLEAN
    BY <1>27 DEF WriteSource, Throw, Fault
  <2>3. failing' \in BOOLEAN
    BY <1>27 DEF WriteSource, Throw, Fault
  <2>4. sourceFile' \in [run : Nat, empty : BOOLEAN]
    <3>1. sourceFile' \in {sourceFile, [run |-> run, empty |-> TRUE], [run |-> run, empty |-> FALSE]}
      BY <1>27 DEF WriteSource
    <3>2. [run |-> run, empty |-> TRUE] \in [run : Nat, empty : BOOLEAN]
      OBVIOUS
    <3>3. [run |-> run, empty |-> FALSE] \in [run : Nat, empty : BOOLEAN]
      OBVIOUS
    <3>4. sourceFile \in [run : Nat, empty : BOOLEAN]
      OBVIOUS
    <3>5. QED
      BY <3>1, <3>2, <3>3, <3>4, Zenon
  <2>5. faults' \in Nat
    BY <1>27 DEF WriteSource, Throw, Fault
  <2>6. UNCHANGED <<run, launch, lane, current, answers, muddled, 
        survivors, degradation, setup, containers, dotenv, tornDown, 
        runtimeFile, exitStatus, manifest>>
    BY <1>27 DEF WriteSource, Throw, Fault
  <2>7. QED
    BY <2>1, <2>2, <2>3, <2>4, <2>5, <2>6
<1>28. CASE WriteRuntime
  <2>1. pc' \in Places
    BY <1>28 DEF WriteRuntime, Throw, Fault
  <2>2. failing' \in BOOLEAN
    BY <1>28 DEF WriteRuntime, Throw, Fault
  <2>3. runtimeFile' \in Nat
    BY <1>28 DEF WriteRuntime, Throw, Fault
  <2>4. faults' \in Nat
    BY <1>28 DEF WriteRuntime, Throw, Fault
  <2>5. UNCHANGED <<run, launch, lane, current, answers, muddled, 
        survivors, sourcePath, degradation, setup, containers, dotenv, 
        tornDown, sourceFile, exitStatus, manifest>>
    BY <1>28 DEF WriteRuntime, Throw, Fault
  <2>6. QED
    BY <2>1, <2>2, <2>3, <2>4, <2>5
<1>29. CASE UNCHANGED vars
  BY <1>29 DEF vars
<1>30. QED
  BY <1>1, <1>2, <1>3, <1>4, <1>5, <1>6, <1>7, <1>8, <1>9, <1>10, <1>11, 
     <1>12, <1>13, <1>14, <1>15, <1>16, <1>17, <1>18, <1>19, <1>20, <1>21, 
     <1>22, <1>23, <1>24, <1>25, <1>26, <1>27, <1>28, <1>29 DEF Next

-----------------------------------------------------------------------------
(* The ladder.                                                             *)

\* The counts of a run bound its level from below, and are bounded in turn.
Sound(state) ==
    /\ cumulativeCount(state.anomalyCounts) <=
         HaltsAt + state.anomalyCounts["docker_failure"]
    /\ cumulativeCount(state.anomalyCounts) >= HaltsAt =>
         state.currentLevel = 3
    /\ cumulativeCount(state.anomalyCounts) >= HaltsAt \div 2 =>
         state.currentLevel >= 2

\* A candidate is under way only below the last level.
LadderInv ==
    /\ Sound(degradation)
    /\ pc = "invoke" /\ launch.ladder => degradation.currentLevel < 3

\* A threshold below two is passed on the way to two.
LEMMA Halves ==
    /\ HaltsAt \in Nat \ {0, 1}
    /\ HaltsAt \div 2 \in Nat \ {0}
    /\ HaltsAt \div 2 <= HaltsAt - 1
    /\ CumulativeHaltThreshold \in Int /\ CumulativeHaltThreshold <= HaltsAt
    /\ CumulativeHaltThreshold \div 2 \in Int
    /\ CumulativeHaltThreshold \div 2 <= HaltsAt \div 2
<1>1. CumulativeHaltThreshold \in Int
  BY ThresholdsAssumption
<1>2. \A m, n \in Int : m <= n => m \div 2 \in Int /\ m \div 2 <= n \div 2
  OBVIOUS
<1>3. \A n \in Nat \ {0, 1} : n \div 2 \in Nat \ {0} /\ n \div 2 <= n - 1
  OBVIOUS
<1>4. HaltsAt \in Nat \ {0, 1} /\ CumulativeHaltThreshold <= HaltsAt
  BY <1>1 DEF HaltsAt
<1>5. QED
  BY <1>1, <1>2, <1>3, <1>4

LEMMA NewLadderIsSound == Sound(createDegradationState)
<1>1. cumulativeCount(createDegradationState.anomalyCounts) = 0
  BY DEF cumulativeCount, createDegradationState, AnomalyKind
<1>2. createDegradationState.anomalyCounts["docker_failure"] = 0
  BY DEF createDegradationState, AnomalyKind
<1>3. QED
  BY <1>1, <1>2, Halves DEF Sound

\* One more anomaly is one more in the sum.
LEMMA Increment ==
    ASSUME NEW counts \in [AnomalyKind -> Nat], NEW kind \in AnomalyKind
    PROVE  /\ cumulativeCount([counts EXCEPT ![kind] = @ + 1]) = cumulativeCount(counts) + 1
           /\ [counts EXCEPT ![kind] = @ + 1]["docker_failure"] =
                counts["docker_failure"] + (IF kind = "docker_failure" THEN 1 ELSE 0)
           /\ cumulativeCount(counts) \in Nat /\ counts["docker_failure"] \in Nat
<1>1. \A k \in AnomalyKind : [counts EXCEPT ![kind] = @ + 1][k] =
                               counts[k] + (IF k = kind THEN 1 ELSE 0)
  OBVIOUS
<1>2. \A k \in AnomalyKind : counts[k] \in Nat
  OBVIOUS
<1>3. QED
  BY <1>1, <1>2 DEF cumulativeCount, AnomalyKind

LEMMA RecordIsSound ==
    ASSUME NEW state \in DegradationState, Sound(state), NEW kind \in AnomalyKind,
           kind = "docker_failure" \/ state.currentLevel < 3
    PROVE  Sound(recordAnomaly(state, kind))
<1> DEFINE counts == state.anomalyCounts
           next == [counts EXCEPT ![kind] = @ + 1]
           level == tryEscalate(state.currentLevel, next)
<1>1. counts \in [AnomalyKind -> Nat] /\ state.currentLevel \in 0 .. 3
  BY DEF DegradationState, DegradationLevel
<1>2. /\ cumulativeCount(next) = cumulativeCount(counts) + 1
      /\ next["docker_failure"] = counts["docker_failure"] + (IF kind = "docker_failure" THEN 1 ELSE 0)
      /\ cumulativeCount(counts) \in Nat /\ counts["docker_failure"] \in Nat
  BY <1>1, Increment
<1>3. /\ recordAnomaly(state, kind).anomalyCounts = next
      /\ recordAnomaly(state, kind).currentLevel = level
  BY DEF recordAnomaly
<1>4. cumulativeCount(next) >= HaltsAt => level = 3
  BY <1>2, Halves DEF tryEscalate
<1>5. cumulativeCount(next) >= HaltsAt \div 2 => level >= 2
  BY <1>1, <1>2, Halves DEF tryEscalate, Bounded
<1>6. cumulativeCount(next) <= HaltsAt + next["docker_failure"]
  BY <1>1, <1>2, Halves DEF Sound
<1>7. QED
  BY <1>3, <1>4, <1>5, <1>6 DEF Sound

LEMMA StalledIsSound ==
    ASSUME NEW state \in DegradationState, Sound(state)
    PROVE  Sound(Stalled(state))
<1>1. CASE state.currentLevel = 3
  BY <1>1 DEF Stalled, halt
<1>2. CASE state.currentLevel # 3
  <2> DEFINE counts == state.anomalyCounts
             next == [counts EXCEPT !["no_progress"] = @ + 1]
  <2>1. counts \in [AnomalyKind -> Nat] /\ state.currentLevel \in 0 .. 2
    BY <1>2 DEF DegradationState, DegradationLevel
  <2>2. /\ cumulativeCount(next) = cumulativeCount(counts) + 1
        /\ next["docker_failure"] = counts["docker_failure"]
        /\ cumulativeCount(counts) \in Nat /\ counts["docker_failure"] \in Nat
    BY <2>1, Increment, "no_progress" \in AnomalyKind DEF AnomalyKind
  <2>3. /\ Stalled(state).anomalyCounts = next
        /\ Stalled(state).currentLevel = IF state.currentLevel >= 2 THEN 3 ELSE 2
    BY <1>2 DEF Stalled, halt
  <2>4. cumulativeCount(counts) < HaltsAt
    BY <2>1, <2>2, Halves DEF Sound
  <2>5. cumulativeCount(next) >= HaltsAt => state.currentLevel >= 2
    BY <2>1, <2>2, Halves DEF Sound
  <2>6. QED
    BY <2>1, <2>2, <2>3, <2>4, <2>5, Halves DEF Sound
<1>3. QED
  BY <1>1, <1>2

\* Every step keeps the ladder sound.
LEMMA LadderStep ==
    ASSUME TypeOK, LadderInv, [Next]_vars
    PROVE  LadderInv'
<1> USE DEF work, target, files
<1>1. CASE Kill
  <2>1. degradation' = degradation /\ (pc' = "invoke" => pc = "invoke" /\ launch' = launch)
    BY <1>1 DEF Kill
  <2>2. QED
    BY <2>1 DEF LadderInv
<1>2. CASE Launch
  <2>1. degradation' = createDegradationState /\ pc' # "invoke"
    BY <1>2 DEF Launch
  <2>2. QED
    BY <2>1, NewLadderIsSound DEF LadderInv
<1>3. CASE EnterStage
  <2>1. degradation' = degradation /\ (pc' = "invoke" => pc = "invoke" /\ launch' = launch)
    BY <1>3 DEF EnterStage, Catch, Fault
  <2>2. QED
    BY <2>1 DEF LadderInv
<1>4. CASE ExitStage
  <2>1. degradation' = degradation /\ (pc' = "invoke" => pc = "invoke" /\ launch' = launch)
    BY <1>4 DEF ExitStage, Catch, Fault
  <2>2. QED
    BY <2>1 DEF LadderInv
<1>5. CASE UseSourceArtifact
  <2>1. degradation' = degradation /\ (pc' = "invoke" => pc = "invoke" /\ launch' = launch)
    BY <1>5 DEF UseSourceArtifact
  <2>2. QED
    BY <2>1 DEF LadderInv
<1>6. CASE NoSourceArtifact
  <2>1. degradation' = degradation /\ (pc' = "invoke" => pc = "invoke" /\ launch' = launch)
    BY <1>6 DEF NoSourceArtifact, Catch
  <2>2. QED
    BY <2>1 DEF LadderInv
<1>7. CASE Finalize
  <2>1. degradation' = degradation /\ (pc' = "invoke" => pc = "invoke" /\ launch' = launch)
    BY <1>7 DEF Finalize, Fault
  <2>2. QED
    BY <2>1 DEF LadderInv
<1>8. CASE LoadFails
  <2>1. degradation' = degradation /\ (pc' = "invoke" => pc = "invoke" /\ launch' = launch)
    BY <1>8 DEF LoadFails, Throw
  <2>2. QED
    BY <2>1 DEF LadderInv
<1>9. CASE LoadSource
  <2>1. degradation' = degradation /\ (pc' = "invoke" => pc = "invoke" /\ launch' = launch)
    BY <1>9 DEF LoadSource, Load
  <2>2. QED
    BY <2>1 DEF LadderInv
<1>10. CASE LoadRuntime
  <2>1. degradation' = degradation /\ (pc' = "invoke" => pc = "invoke" /\ launch' = launch)
    BY <1>10 DEF LoadRuntime, Load
  <2>2. QED
    BY <2>1 DEF LadderInv
<1>11. CASE RunSession
  <2>1. degradation' = degradation /\ (pc' = "invoke" => pc = "invoke" /\ launch' = launch)
    BY <1>11 DEF RunSession, Load
  <2>2. QED
    BY <2>1 DEF LadderInv
<1>12. CASE SetUp
  <2>1. degradation' = degradation /\ (pc' = "invoke" => pc = "invoke" /\ launch' = launch)
    BY <1>12 DEF SetUp, bootstrapEnvFile
  <2>2. QED
    BY <2>1 DEF LadderInv
<1>13. CASE AnnounceSetup
  <2> DEFINE failed == recordAnomaly(degradation, "docker_failure")
  <2>1. /\ degradation' \in {degradation, Stalled(degradation), failed, Stalled(failed)}
        /\ pc' # "invoke"
    BY <1>13 DEF AnnounceSetup, Progressed, Ladder, Throw
  <2>2. failed \in DegradationState /\ Sound(failed)
    BY RecordIsSound, LadderTypes DEF LadderInv, TypeOK, AnomalyKind
  <2>3. Sound(Stalled(degradation)) /\ Sound(Stalled(failed))
    BY <2>2, StalledIsSound DEF LadderInv, TypeOK
  <2>4. QED
    BY <2>1, <2>2, <2>3 DEF LadderInv
<1>14. CASE LoopEnds
  <2>1. degradation' = degradation /\ (pc' = "invoke" => pc = "invoke" /\ launch' = launch)
    BY <1>14 DEF LoopEnds, AfterLoop
  <2>2. QED
    BY <2>1 DEF LadderInv
<1>15. CASE HaltLoop
  <2>1. degradation' = degradation /\ (pc' = "invoke" => pc = "invoke" /\ launch' = launch)
    BY <1>15 DEF HaltLoop, PushPending, Halted, AfterLoop
  <2>2. QED
    BY <2>1 DEF LadderInv
<1>16. CASE SkipNonCritical
  <2>1. degradation' = degradation /\ (pc' = "invoke" => pc = "invoke" /\ launch' = launch)
    BY <1>16 DEF SkipNonCritical, Push, Halted
  <2>2. QED
    BY <2>1 DEF LadderInv
<1>17. CASE StartCandidate
  <2>1. degradation' = degradation /\ launch' = launch
    BY <1>17 DEF StartCandidate
  <2>2. launch.ladder => degradation.currentLevel < 3
    BY <1>17 DEF StartCandidate, Halted, halt, TypeOK, DegradationState, DegradationLevel
  <2>3. QED
    BY <2>1, <2>2 DEF LadderInv
<1>18. CASE InvokeFails
  <2>1. degradation' = degradation /\ (pc' = "invoke" => pc = "invoke" /\ launch' = launch)
    BY <1>18 DEF InvokeFails
  <2>2. QED
    BY <2>1 DEF LadderInv
<1>19. CASE NoToolCalls
  <2>1. degradation' = degradation /\ (pc' = "invoke" => pc = "invoke" /\ launch' = launch)
    BY <1>19 DEF NoToolCalls, Push
  <2>2. QED
    BY <2>1 DEF LadderInv
<1>20. CASE \E class \in GateFailureClass \cup {NoFailure} : Gate(class)
  <2> SUFFICES ASSUME NEW class \in GateFailureClass \cup {NoFailure}, Gate(class)
               PROVE  LadderInv'
    BY <1>20
  <2>1. pc = "invoke" /\ pc' # "invoke"
    BY DEF Gate
  <2>2. CASE degradation' = degradation
    BY <2>1, <2>2 DEF LadderInv
  <2>3. CASE degradation' # degradation
    <3>1. /\ class \in GateFailureClass /\ gateClassToAnomalyKind(class) # "none"
          /\ launch.ladder
          /\ degradation' = recordAnomaly(degradation, gateClassToAnomalyKind(class))
      BY <2>3 DEF Gate, Ladder
    <3>2. Sound(degradation')
      BY <2>1, <3>1, GateKinds, RecordIsSound DEF LadderInv, TypeOK
    <3>3. QED
      BY <2>1, <3>2 DEF LadderInv
  <2>4. QED
    BY <2>2, <2>3
<1>21. CASE \E answered \in SourceStatus, defended \in BOOLEAN, proven \in BOOLEAN :
                    JudgeSource(answered, defended, proven)
  <2>1. degradation' = degradation /\ (pc' = "invoke" => pc = "invoke" /\ launch' = launch)
    BY <1>21 DEF JudgeSource, Push, Surviving, Fault
  <2>2. QED
    BY <2>1 DEF LadderInv
<1>22. CASE JudgeRuntime
  <2>1. degradation' = degradation /\ (pc' = "invoke" => pc = "invoke" /\ launch' = launch)
    BY <1>22 DEF JudgeRuntime, Push
  <2>2. QED
    BY <2>1 DEF LadderInv
<1>23. CASE Report
  <2>1. degradation' \in {degradation, Stalled(degradation)} /\ pc' # "invoke"
    BY <1>23 DEF Report, Progressed, Fault
  <2>2. QED
    BY <2>1, StalledIsSound DEF LadderInv, TypeOK
<1>24. CASE Caught
  <2>1. degradation' \in {degradation, Stalled(degradation)} /\ pc' # "invoke"
    BY <1>24 DEF Caught, Push, Surviving, Progressed, Abandon, Fault
  <2>2. QED
    BY <2>1, StalledIsSound DEF LadderInv, TypeOK
<1>25. CASE Audit
  <2>1. degradation' \in {degradation, Stalled(degradation)} /\ pc' # "invoke"
    BY <1>25 DEF Audit, Progressed
  <2>2. QED
    BY <2>1, StalledIsSound DEF LadderInv, TypeOK
<1>26. CASE TearDown
  <2>1. degradation' = degradation /\ (pc' = "invoke" => pc = "invoke" /\ launch' = launch)
    BY <1>26 DEF TearDown, Throw, Fault, Sweep
  <2>2. QED
    BY <2>1 DEF LadderInv
<1>27. CASE WriteSource
  <2>1. degradation' = degradation /\ (pc' = "invoke" => pc = "invoke" /\ launch' = launch)
    BY <1>27 DEF WriteSource, Throw, Fault
  <2>2. QED
    BY <2>1 DEF LadderInv
<1>28. CASE WriteRuntime
  <2>1. degradation' = degradation /\ (pc' = "invoke" => pc = "invoke" /\ launch' = launch)
    BY <1>28 DEF WriteRuntime, Throw, Fault
  <2>2. QED
    BY <2>1 DEF LadderInv
<1>29. CASE UNCHANGED vars
  BY <1>29 DEF vars, LadderInv
<1>30. QED
  BY <1>1, <1>2, <1>3, <1>4, <1>5, <1>6, <1>7, <1>8, <1>9, <1>10, <1>11, 
     <1>12, <1>13, <1>14, <1>15, <1>16, <1>17, <1>18, <1>19, <1>20, <1>21, 
     <1>22, <1>23, <1>24, <1>25, <1>26, <1>27, <1>28, <1>29 DEF Next

-----------------------------------------------------------------------------
(* The results of a lane.                                                  *)

\* Candidate j is done with.
Settled(j) == answers[j] >= 1 /\ (answers[j] > 1 => j \in muddled)

\* In the loop the candidates before the current one are done with and those
\* after it untouched; the current one has a result once one was pushed.
Expected(j) ==
    /\ j < current => Settled(j)
    /\ j > current => answers[j] = 0
    /\ j = current /\ pc \in {"next", "invoke", "judge"} => answers[j] = 0
    /\ j = current /\ pc = "report" => answers[j] = 1
    /\ j = current /\ pc = "caught" =>
         answers[j] = 0 \/ (answers[j] = 1 /\ j \in muddled)

LoopInv ==
    /\ pc \in {"next", "invoke", "judge", "report", "caught"} =>
         \A j \in DOMAIN answers : Expected(j)
    /\ pc \in {"invoke", "judge", "report", "caught"} => current \in DOMAIN answers
    /\ pc \in {"setup", "announce"} =>
         current = 1 /\ \A j \in DOMAIN answers : answers[j] = 0
    /\ pc \in {"audit", "write"} \/ (pc = "teardown" /\ ~failing) =>
         \A j \in DOMAIN answers : Settled(j)

\* A push is one more result for the current candidate.
LEMMA PushCounts ==
    ASSUME TypeOK
    PROVE  /\ DOMAIN answers \subseteq Nat \ {0}
           /\ DOMAIN answers = 1 .. Len(answers) /\ Len(answers) \in Nat
           /\ \A j \in DOMAIN answers : answers[j] \in Nat
           /\ Push => /\ DOMAIN answers' = DOMAIN answers
                      /\ \A j \in DOMAIN answers :
                           answers'[j] = answers[j] + (IF j = current THEN 1 ELSE 0)
           /\ PushPending => /\ DOMAIN answers' = DOMAIN answers
                             /\ \A j \in DOMAIN answers :
                                  answers'[j] = answers[j] + (IF j >= current THEN 1 ELSE 0)
<1>1. answers \in [1 .. Len(answers) -> Nat] /\ Len(answers) \in Nat
  BY DEF TypeOK
<1>2. ASSUME Push
      PROVE  answers' = [j \in 1 .. Len(answers) |->
                           IF j = current THEN answers[current] + 1 ELSE answers[j]]
  BY <1>1, <1>2 DEF Push
<1>3. ASSUME PushPending
      PROVE  answers' = [j \in 1 .. Len(answers) |->
                           answers[j] + (IF j >= current THEN 1 ELSE 0)]
  BY <1>1, <1>3 DEF PushPending
<1>4. QED
  BY <1>1, <1>2, <1>3

\* Every step keeps the results in order.
LEMMA LoopStep ==
    ASSUME TypeOK, LoopInv, [Next]_vars
    PROVE  LoopInv'
<1> USE DEF work, target, files
<1>1. CASE Kill
  BY <1>1 DEF Kill, LoopInv, Expected, Settled
<1>2. CASE Launch
  BY <1>2, PushCounts DEF Launch, Distinct, Launches, LoopInv, Expected, Settled
<1>3. CASE EnterStage
  BY <1>3 DEF EnterStage, Catch, Fault, LoopInv, Expected, Settled
<1>4. CASE ExitStage
  BY <1>4 DEF ExitStage, Catch, Fault, LoopInv, Expected, Settled
<1>5. CASE UseSourceArtifact
  BY <1>5 DEF UseSourceArtifact, LoopInv, Expected, Settled
<1>6. CASE NoSourceArtifact
  BY <1>6 DEF NoSourceArtifact, Catch, LoopInv, Expected, Settled
<1>7. CASE Finalize
  BY <1>7 DEF Finalize, Fault, LoopInv, Expected, Settled
<1>8. CASE LoadFails
  BY <1>8 DEF LoadFails, Throw, LoopInv, Expected, Settled
<1>9. CASE LoadSource
  <2>1. PICK n \in 0 .. MaxCandidates :
              Load(n) /\ pc' = IF n = 0 THEN "write" ELSE "next"
    BY <1>9 DEF LoadSource
  <2>2. n \in Nat
    BY VerifyConstants DEF TypeOK
  <2>3. DOMAIN answers' = 1 .. n /\ current' = 1 /\ \A j \in 1 .. n : answers'[j] = 0
    BY <2>1, <2>2 DEF Load
  <2>4. CASE n = 0
    BY <2>1, <2>3, <2>4 DEF LoopInv
  <2>5. CASE n # 0
    BY <2>1, <2>2, <2>3, <2>5 DEF LoopInv, Expected, Settled
  <2>6. QED
    BY <2>4, <2>5
<1>10. CASE LoadRuntime
  <2>1. PICK n \in IF sourcePath THEN 0 .. survivors ELSE 0 .. MaxCandidates :
              Load(n) /\ pc' = IF n = 0 THEN "write" ELSE "setup"
    BY <1>10 DEF LoadRuntime
  <2>2. n \in Nat
    BY VerifyConstants DEF TypeOK
  <2>3. DOMAIN answers' = 1 .. n /\ current' = 1 /\ \A j \in 1 .. n : answers'[j] = 0
    BY <2>1, <2>2 DEF Load
  <2>4. CASE n = 0
    BY <2>1, <2>3, <2>4 DEF LoopInv
  <2>5. CASE n # 0
    BY <2>1, <2>2, <2>3, <2>5 DEF LoopInv, Expected, Settled
  <2>6. QED
    BY <2>4, <2>5
<1>11. CASE RunSession
  BY <1>11, PushCounts DEF RunSession, Load, LoopInv, Expected, Settled
<1>12. CASE SetUp
  BY <1>12 DEF SetUp, bootstrapEnvFile, LoopInv, Expected, Settled
<1>13. CASE AnnounceSetup
  BY <1>13, PushCounts DEF AnnounceSetup, Throw, Fault, LoopInv, Expected, Settled
<1>14. CASE LoopEnds
  <2>1. \A j \in DOMAIN answers : j < current
    BY <1>14, PushCounts DEF LoopEnds, TypeOK
  <2>2. \A j \in DOMAIN answers : Settled(j)
    BY <1>14, <2>1 DEF LoopEnds, LoopInv, Expected
  <2>3. QED
    BY <1>14, <2>2 DEF LoopEnds, AfterLoop, LoopInv, Settled
<1>15. CASE HaltLoop
  <2>1. \A j \in DOMAIN answers : Expected(j) /\ answers[j] \in Nat /\ j \in Nat
    BY <1>15, PushCounts DEF HaltLoop, LoopInv
  <2>2. pc' \in {"audit", "teardown"} /\ muddled' = muddled /\ current \in Nat
    BY <1>15 DEF HaltLoop, AfterLoop, TypeOK
  <2>3. /\ DOMAIN answers' = DOMAIN answers
        /\ \A j \in DOMAIN answers :
             answers'[j] = answers[j] + (IF j >= current THEN 1 ELSE 0)
    BY <1>15, PushCounts DEF HaltLoop
  <2>4. \A j \in DOMAIN answers : (answers[j] = 0 /\ j >= current) \/ (j < current /\ Settled(j))
    BY <1>15, <2>1, <2>2 DEF HaltLoop, Expected
  <2>5. \A j \in DOMAIN answers' : Settled(j)'
    BY <2>1, <2>2, <2>3, <2>4 DEF Settled
  <2>6. QED
    BY <2>2, <2>5 DEF LoopInv
<1>16. CASE SkipNonCritical
  <2>1. /\ pc = "next" /\ pc' = "next" /\ current' = current + 1 /\ muddled' = muddled
        /\ current \in Nat
    BY <1>16 DEF SkipNonCritical, TypeOK
  <2>2. /\ DOMAIN answers' = DOMAIN answers
        /\ \A j \in DOMAIN answers : /\ j \in Nat /\ answers[j] \in Nat
             /\ answers'[j] = answers[j] + (IF j = current THEN 1 ELSE 0)
    BY <1>16, PushCounts DEF SkipNonCritical
  <2>3. \A j \in DOMAIN answers : Expected(j)
    BY <2>1 DEF LoopInv
  <2>4. \A j \in DOMAIN answers' : Expected(j)'
    BY <2>1, <2>2, <2>3 DEF Expected, Settled
  <2>5. QED
    BY <2>1, <2>4 DEF LoopInv
<1>17. CASE StartCandidate
  <2>1. current \in DOMAIN answers
    BY <1>17, PushCounts DEF StartCandidate, TypeOK
  <2>2. QED
    BY <1>17, <2>1 DEF StartCandidate, Abandon, Fault, LoopInv, Expected, Settled
<1>18. CASE InvokeFails
  BY <1>18 DEF InvokeFails, LoopInv, Expected, Settled
<1>19. CASE NoToolCalls
  BY <1>19, PushCounts DEF NoToolCalls, LoopInv, Expected, Settled
<1>20. CASE \E class \in GateFailureClass \cup {NoFailure} : Gate(class)
  BY <1>20, PushCounts DEF Gate, Fault, LoopInv, Expected, Settled
<1>21. CASE \E answered \in SourceStatus, defended \in BOOLEAN, proven \in BOOLEAN :
                    JudgeSource(answered, defended, proven)
  BY <1>21, PushCounts DEF JudgeSource, Fault, LoopInv, Expected, Settled
<1>22. CASE JudgeRuntime
  BY <1>22, PushCounts DEF JudgeRuntime, LoopInv, Expected, Settled
<1>23. CASE Report
  BY <1>23, PushCounts DEF Report, Fault, LoopInv, Expected, Settled
<1>24. CASE Caught
  BY <1>24, PushCounts DEF Caught, Abandon, Fault, LoopInv, Expected, Settled
<1>25. CASE Audit
  BY <1>25 DEF Audit, LoopInv, Expected, Settled
<1>26. CASE TearDown
  BY <1>26 DEF TearDown, Throw, Fault, Sweep, LoopInv, Expected, Settled
<1>27. CASE WriteSource
  BY <1>27 DEF WriteSource, Throw, Fault, LoopInv, Expected, Settled
<1>28. CASE WriteRuntime
  BY <1>28 DEF WriteRuntime, Throw, Fault, LoopInv, Expected, Settled
<1>29. CASE UNCHANGED vars
  BY <1>29 DEF vars, LoopInv, Expected, Settled
<1>30. QED
  BY <1>1, <1>2, <1>3, <1>4, <1>5, <1>6, <1>7, <1>8, <1>9, <1>10, <1>11, 
     <1>12, <1>13, <1>14, <1>15, <1>16, <1>17, <1>18, <1>19, <1>20, <1>21, 
     <1>22, <1>23, <1>24, <1>25, <1>26, <1>27, <1>28, <1>29 DEF Next

\* Where the teardown leads, and what becomes of the bootstrap .env.
LEMMA TearDownLeaves ==
    ASSUME TypeOK, TearDown
    PROVE  /\ pc = "teardown" /\ pc' \in {"exit", "write"}
           /\ failing' \in BOOLEAN /\ (pc' = "write" => ~failing')
           /\ dotenv' = "ours" => faults' > 0
<1> USE DEF target
<1>1. failing \in BOOLEAN /\ faults \in Nat
  BY DEF TypeOK
<1>2. CASE Sweep
  <2>1. failing' = failing /\ pc' = IF failing THEN "exit" ELSE "write"
    BY <1>2 DEF Sweep
  <2>2. dotenv' = "ours" => faults' = faults + 1
    BY <1>2 DEF Sweep, Fault
  <2>3. QED
    BY <1>1, <2>1, <2>2 DEF TearDown
<1>3. CASE Fault /\ Throw
  BY <1>1, <1>3 DEF Fault, Throw, TearDown
<1>4. QED
  BY <1>2, <1>3 DEF TearDown

-----------------------------------------------------------------------------
(* The target of the runtime lane.                                         *)

\* Where the lane has not set the target up yet, where it has torn it down, and
\* where its .env may still be in the repository.
TargetInv ==
    /\ pc \in {"between", "enter", "load", "setup"} \/ lane = "source" => setup = "none"
    /\ pc \in {"setup", "announce", "teardown"} => lane = "runtime"
    /\ pc \in {"between", "audit"} => lane = "source"
    /\ pc = "write" /\ setup \in {"ok", "reused"} => tornDown
    /\ pc \in {"between", "enter", "load", "setup"} \/ lane = "source" => dotenv # "ours"
    /\ pc = "write" /\ dotenv = "ours" => faults > 0
    /\ TargetIsTornDown

\* Every step keeps what is known of the target.
LEMMA TargetStep ==
    ASSUME TypeOK, LoopInv, TargetInv, [Next]_vars
    PROVE  TargetInv'
<1> USE DEF work, target, files
<1>1. CASE Kill
  BY <1>1 DEF Kill, TargetInv, TargetIsTornDown
<1>2. CASE Launch
  BY <1>2 DEF Launch, Distinct, Launches, TargetInv, TargetIsTornDown
<1>3. CASE EnterStage
  BY <1>3 DEF EnterStage, Catch, Fault, TargetInv, TargetIsTornDown
<1>4. CASE ExitStage
  BY <1>4 DEF ExitStage, Catch, Fault, TargetInv, TargetIsTornDown, TypeOK
<1>5. CASE UseSourceArtifact
  BY <1>5 DEF UseSourceArtifact, TargetInv, TargetIsTornDown
<1>6. CASE NoSourceArtifact
  BY <1>6 DEF NoSourceArtifact, Catch, TargetInv, TargetIsTornDown
<1>7. CASE Finalize
  BY <1>7 DEF Finalize, Fault, TargetInv, TargetIsTornDown
<1>8. CASE LoadFails
  BY <1>8 DEF LoadFails, Throw, TargetInv, TargetIsTornDown
<1>9. CASE LoadSource
  BY <1>9 DEF LoadSource, Load, TargetInv, TargetIsTornDown
<1>10. CASE LoadRuntime
  BY <1>10 DEF LoadRuntime, Load, TargetInv, TargetIsTornDown
<1>11. CASE RunSession
  BY <1>11 DEF RunSession, Load, TargetInv, TargetIsTornDown
<1>12. CASE SetUp
  BY <1>12 DEF SetUp, bootstrapEnvFile, TargetInv, TargetIsTornDown
<1>13. CASE AnnounceSetup
  <2>1. CASE Fault /\ Throw /\ UNCHANGED <<answers, degradation>>
    BY <1>13, <2>1 DEF AnnounceSetup, Fault, Throw, LoopInv, TargetInv, TargetIsTornDown, TypeOK
  <2>2. CASE pc' \in {"teardown", "next"} /\ faults' = faults
    BY <1>13, <2>2 DEF AnnounceSetup, TargetInv, TargetIsTornDown, TypeOK
  <2>3. QED
    BY <1>13, <2>1, <2>2 DEF AnnounceSetup
<1>14. CASE LoopEnds
  BY <1>14 DEF LoopEnds, AfterLoop, TargetInv, TargetIsTornDown, TypeOK
<1>15. CASE HaltLoop
  BY <1>15 DEF HaltLoop, Halted, AfterLoop, TargetInv, TargetIsTornDown, TypeOK
<1>16. CASE SkipNonCritical
  BY <1>16 DEF SkipNonCritical, Halted, TargetInv, TargetIsTornDown
<1>17. CASE StartCandidate
  BY <1>17 DEF StartCandidate, Abandon, Fault, Halted, TargetInv, TargetIsTornDown, TypeOK
<1>18. CASE InvokeFails
  BY <1>18 DEF InvokeFails, TargetInv, TargetIsTornDown
<1>19. CASE NoToolCalls
  BY <1>19 DEF NoToolCalls, TargetInv, TargetIsTornDown
<1>20. CASE \E class \in GateFailureClass \cup {NoFailure} : Gate(class)
  BY <1>20 DEF Gate, Fault, TargetInv, TargetIsTornDown
<1>21. CASE \E answered \in SourceStatus, defended \in BOOLEAN, proven \in BOOLEAN :
                    JudgeSource(answered, defended, proven)
  BY <1>21 DEF JudgeSource, Fault, TargetInv, TargetIsTornDown
<1>22. CASE JudgeRuntime
  BY <1>22 DEF JudgeRuntime, TargetInv, TargetIsTornDown
<1>23. CASE Report
  BY <1>23 DEF Report, Fault, TargetInv, TargetIsTornDown
<1>24. CASE Caught
  BY <1>24 DEF Caught, Abandon, Fault, TargetInv, TargetIsTornDown, TypeOK
<1>25. CASE Audit
  BY <1>25 DEF Audit, TargetInv, TargetIsTornDown, TypeOK
<1>26. CASE TearDown
  <2>1. /\ pc = "teardown" /\ pc' \in {"exit", "write"}
        /\ failing' \in BOOLEAN /\ (pc' = "write" => ~failing')
        /\ dotenv' = "ours" => faults' > 0
    BY <1>26, TearDownLeaves
  <2>2. setup \in {"ok", "reused"} => tornDown'
    BY <1>26 DEF TearDown, Sweep
  <2>3. lane' = lane /\ setup' = setup
    BY <1>26 DEF TearDown
  <2>4. lane = "runtime" /\ lane # "source"
    BY <2>1 DEF TargetInv
  <2>5. QED
    BY <2>1, <2>2, <2>3, <2>4 DEF TargetInv, TargetIsTornDown
<1>27. CASE WriteSource
  BY <1>27 DEF WriteSource, Throw, Fault, TargetInv, TargetIsTornDown
<1>28. CASE WriteRuntime
  BY <1>28 DEF WriteRuntime, Throw, Fault, TargetInv, TargetIsTornDown, TypeOK
<1>29. CASE UNCHANGED vars
  BY <1>29 DEF vars, TargetInv, TargetIsTornDown
<1>30. QED
  BY <1>1, <1>2, <1>3, <1>4, <1>5, <1>6, <1>7, <1>8, <1>9, <1>10, <1>11, 
     <1>12, <1>13, <1>14, <1>15, <1>16, <1>17, <1>18, <1>19, <1>20, <1>21, 
     <1>22, <1>23, <1>24, <1>25, <1>26, <1>27, <1>28, <1>29 DEF Next

-----------------------------------------------------------------------------
(* The exit status and the manifest.                                       *)

\* A manifest is open until its run finalizes it.
ManifestIsOpen ==
    /\ manifest.run <= run
    /\ pc # "idle" => manifest.run = run /\ manifest.status = "open"

\* A status other than success is set where the run fails.
StatusIsEarned ==
    /\ pc \notin {"finalize", "idle"} => exitStatus # "partial"
    /\ pc = "finalize" /\ exitStatus = "partial" => sourcePath
    /\ pc = "finalize" /\ failing => exitStatus # "success"
    /\ failing => pc \in {"exit", "teardown", "finalize", "idle"}

\* What a lane that has ended well leaves in the output directory.
ArtifactsAreWritten ==
    /\ launch.mode # "runtime" => ~launch.artifact
    /\ pc \in {"setup", "announce", "teardown"} => lane = "runtime"
    /\ pc = "exit" /\ lane = "source" /\ ~failing => sourcePath /\ sourceFile.run = run
    /\ pc = "between" /\ launch.mode # "runtime" => sourcePath /\ sourceFile.run = run
    /\ pc # "idle" /\ lane = "runtime" /\ exitStatus = "success" /\ launch.mode # "runtime" =>
         sourceFile.run = run /\ ~sourceFile.empty
    /\ pc # "idle" /\ pc # "finalize" /\ lane = "runtime" => launch.mode # "source"
    /\ pc = "exit" /\ lane = "runtime" /\ ~failing /\ launch.bounded => runtimeFile = run
    /\ pc = "finalize" /\ exitStatus = "success" =>
         /\ lane = "runtime"
         /\ launch.mode # "source" /\ launch.bounded => runtimeFile = run

StatusInv == ManifestIsOpen /\ StatusIsEarned /\ ArtifactsAreWritten
             /\ StatusMatchesArtifacts

\* Every step keeps the manifest open while the run goes on.
LEMMA ManifestStep ==
    ASSUME TypeOK, StatusInv, [Next]_vars
    PROVE  ManifestIsOpen'
<1> USE DEF work, target, files, TypeOK
<1>1. CASE Kill
  BY <1>1 DEF Kill, StatusInv, ManifestIsOpen
<1>2. CASE Launch
  BY <1>2 DEF Launch, Distinct, Launches, StatusInv, ManifestIsOpen
<1>3. CASE EnterStage
  BY <1>3 DEF EnterStage, Catch, Fault, StatusInv, ManifestIsOpen
<1>4. CASE ExitStage
  BY <1>4 DEF ExitStage, Catch, Fault, StatusInv, ManifestIsOpen
<1>5. CASE UseSourceArtifact
  BY <1>5 DEF UseSourceArtifact, StatusInv, ManifestIsOpen
<1>6. CASE NoSourceArtifact
  BY <1>6 DEF NoSourceArtifact, Catch, StatusInv, ManifestIsOpen
<1>7. CASE Finalize
  BY <1>7 DEF Finalize, Fault, StatusInv, ManifestIsOpen
<1>8. CASE LoadFails
  BY <1>8 DEF LoadFails, Throw, StatusInv, ManifestIsOpen
<1>9. CASE LoadSource
  BY <1>9 DEF LoadSource, Load, StatusInv, ManifestIsOpen
<1>10. CASE LoadRuntime
  BY <1>10 DEF LoadRuntime, Load, StatusInv, ManifestIsOpen
<1>11. CASE RunSession
  BY <1>11 DEF RunSession, Load, StatusInv, ManifestIsOpen
<1>12. CASE SetUp
  BY <1>12 DEF SetUp, bootstrapEnvFile, StatusInv, ManifestIsOpen
<1>13. CASE AnnounceSetup
  BY <1>13 DEF AnnounceSetup, Throw, Fault, StatusInv, ManifestIsOpen
<1>14. CASE LoopEnds
  BY <1>14 DEF LoopEnds, AfterLoop, StatusInv, ManifestIsOpen
<1>15. CASE HaltLoop
  BY <1>15 DEF HaltLoop, Halted, AfterLoop, StatusInv, ManifestIsOpen
<1>16. CASE SkipNonCritical
  BY <1>16 DEF SkipNonCritical, Halted, StatusInv, ManifestIsOpen
<1>17. CASE StartCandidate
  BY <1>17 DEF StartCandidate, Abandon, Fault, Halted, StatusInv, ManifestIsOpen
<1>18. CASE InvokeFails
  BY <1>18 DEF InvokeFails, StatusInv, ManifestIsOpen
<1>19. CASE NoToolCalls
  BY <1>19 DEF NoToolCalls, StatusInv, ManifestIsOpen
<1>20. CASE \E class \in GateFailureClass \cup {NoFailure} : Gate(class)
  BY <1>20 DEF Gate, Fault, StatusInv, ManifestIsOpen
<1>21. CASE \E answered \in SourceStatus, defended \in BOOLEAN, proven \in BOOLEAN :
                    JudgeSource(answered, defended, proven)
  BY <1>21 DEF JudgeSource, Fault, StatusInv, ManifestIsOpen
<1>22. CASE JudgeRuntime
  BY <1>22 DEF JudgeRuntime, StatusInv, ManifestIsOpen
<1>23. CASE Report
  BY <1>23 DEF Report, Fault, StatusInv, ManifestIsOpen
<1>24. CASE Caught
  BY <1>24 DEF Caught, Abandon, Fault, StatusInv, ManifestIsOpen
<1>25. CASE Audit
  BY <1>25 DEF Audit, StatusInv, ManifestIsOpen
<1>26. CASE TearDown
  BY <1>26 DEF TearDown, Throw, Fault, Sweep, StatusInv, ManifestIsOpen
<1>27. CASE WriteSource
  BY <1>27 DEF WriteSource, Throw, Fault, StatusInv, ManifestIsOpen
<1>28. CASE WriteRuntime
  BY <1>28 DEF WriteRuntime, Throw, Fault, StatusInv, ManifestIsOpen
<1>29. CASE UNCHANGED vars
  BY <1>29 DEF vars, StatusInv, ManifestIsOpen
<1>30. QED
  BY <1>1, <1>2, <1>3, <1>4, <1>5, <1>6, <1>7, <1>8, <1>9, <1>10, <1>11, 
     <1>12, <1>13, <1>14, <1>15, <1>16, <1>17, <1>18, <1>19, <1>20, <1>21, 
     <1>22, <1>23, <1>24, <1>25, <1>26, <1>27, <1>28, <1>29 DEF Next

\* Every step keeps the exit status earned.
LEMMA ExitStatusStep ==
    ASSUME TypeOK, StatusInv, [Next]_vars
    PROVE  StatusIsEarned'
<1> USE DEF work, target, files, TypeOK
<1>1. CASE Kill
  BY <1>1 DEF Kill, StatusInv, StatusIsEarned
<1>2. CASE Launch
  BY <1>2 DEF Launch, Distinct, Launches, StatusInv, StatusIsEarned
<1>3. CASE EnterStage
  BY <1>3 DEF EnterStage, Catch, Fault, StatusInv, StatusIsEarned
<1>4. CASE ExitStage
  BY <1>4 DEF ExitStage, Catch, Fault, StatusInv, StatusIsEarned
<1>5. CASE UseSourceArtifact
  BY <1>5 DEF UseSourceArtifact, StatusInv, StatusIsEarned
<1>6. CASE NoSourceArtifact
  BY <1>6 DEF NoSourceArtifact, Catch, StatusInv, StatusIsEarned
<1>7. CASE Finalize
  BY <1>7 DEF Finalize, Fault, StatusInv, StatusIsEarned
<1>8. CASE LoadFails
  BY <1>8 DEF LoadFails, Throw, StatusInv, StatusIsEarned
<1>9. CASE LoadSource
  BY <1>9 DEF LoadSource, Load, StatusInv, StatusIsEarned
<1>10. CASE LoadRuntime
  BY <1>10 DEF LoadRuntime, Load, StatusInv, StatusIsEarned
<1>11. CASE RunSession
  BY <1>11 DEF RunSession, Load, StatusInv, StatusIsEarned
<1>12. CASE SetUp
  BY <1>12 DEF SetUp, bootstrapEnvFile, StatusInv, StatusIsEarned
<1>13. CASE AnnounceSetup
  BY <1>13 DEF AnnounceSetup, Throw, Fault, StatusInv, StatusIsEarned
<1>14. CASE LoopEnds
  BY <1>14 DEF LoopEnds, AfterLoop, StatusInv, StatusIsEarned
<1>15. CASE HaltLoop
  BY <1>15 DEF HaltLoop, Halted, AfterLoop, StatusInv, StatusIsEarned
<1>16. CASE SkipNonCritical
  BY <1>16 DEF SkipNonCritical, Halted, StatusInv, StatusIsEarned
<1>17. CASE StartCandidate
  BY <1>17 DEF StartCandidate, Abandon, Fault, Halted, StatusInv, StatusIsEarned
<1>18. CASE InvokeFails
  BY <1>18 DEF InvokeFails, StatusInv, StatusIsEarned
<1>19. CASE NoToolCalls
  BY <1>19 DEF NoToolCalls, StatusInv, StatusIsEarned
<1>20. CASE \E class \in GateFailureClass \cup {NoFailure} : Gate(class)
  BY <1>20 DEF Gate, Fault, StatusInv, StatusIsEarned
<1>21. CASE \E answered \in SourceStatus, defended \in BOOLEAN, proven \in BOOLEAN :
                    JudgeSource(answered, defended, proven)
  BY <1>21 DEF JudgeSource, Fault, StatusInv, StatusIsEarned
<1>22. CASE JudgeRuntime
  BY <1>22 DEF JudgeRuntime, StatusInv, StatusIsEarned
<1>23. CASE Report
  BY <1>23 DEF Report, Fault, StatusInv, StatusIsEarned
<1>24. CASE Caught
  BY <1>24 DEF Caught, Abandon, Fault, StatusInv, StatusIsEarned
<1>25. CASE Audit
  BY <1>25 DEF Audit, StatusInv, StatusIsEarned
<1>26. CASE TearDown
  <2>1. /\ pc = "teardown" /\ pc' \in {"exit", "write"}
        /\ failing' \in BOOLEAN /\ (pc' = "write" => ~failing')
        /\ dotenv' = "ours" => faults' > 0
    BY <1>26, TearDownLeaves
  <2>2. exitStatus' = exitStatus
    BY <1>26 DEF TearDown
  <2>3. QED
    BY <2>1, <2>2 DEF StatusInv, StatusIsEarned
<1>27. CASE WriteSource
  BY <1>27 DEF WriteSource, Throw, Fault, StatusInv, StatusIsEarned
<1>28. CASE WriteRuntime
  BY <1>28 DEF WriteRuntime, Throw, Fault, StatusInv, StatusIsEarned
<1>29. CASE UNCHANGED vars
  BY <1>29 DEF vars, StatusInv, StatusIsEarned
<1>30. QED
  BY <1>1, <1>2, <1>3, <1>4, <1>5, <1>6, <1>7, <1>8, <1>9, <1>10, <1>11, 
     <1>12, <1>13, <1>14, <1>15, <1>16, <1>17, <1>18, <1>19, <1>20, <1>21, 
     <1>22, <1>23, <1>24, <1>25, <1>26, <1>27, <1>28, <1>29 DEF Next

\* Every step keeps what a lane has left.
LEMMA ArtifactStep ==
    ASSUME TypeOK, StatusInv, [Next]_vars
    PROVE  ArtifactsAreWritten'
<1> USE DEF work, target, files, TypeOK
<1>1. CASE Kill
  BY <1>1 DEF Kill, StatusInv, StatusIsEarned, ArtifactsAreWritten
<1>2. CASE Launch
  BY <1>2 DEF Launch, Distinct, Launches, StatusInv, StatusIsEarned, ArtifactsAreWritten
<1>3. CASE EnterStage
  BY <1>3 DEF EnterStage, Catch, Fault, StatusInv, StatusIsEarned, ArtifactsAreWritten
<1>4. CASE ExitStage
  BY <1>4 DEF ExitStage, Catch, Fault, StatusInv, StatusIsEarned, ArtifactsAreWritten
<1>5. CASE UseSourceArtifact
  BY <1>5 DEF UseSourceArtifact, StatusInv, StatusIsEarned, ArtifactsAreWritten
<1>6. CASE NoSourceArtifact
  BY <1>6 DEF NoSourceArtifact, Catch, StatusInv, StatusIsEarned, ArtifactsAreWritten
<1>7. CASE Finalize
  BY <1>7 DEF Finalize, Fault, StatusInv, StatusIsEarned, ArtifactsAreWritten
<1>8. CASE LoadFails
  BY <1>8 DEF LoadFails, Throw, StatusInv, StatusIsEarned, ArtifactsAreWritten
<1>9. CASE LoadSource
  BY <1>9 DEF LoadSource, Load, StatusInv, StatusIsEarned, ArtifactsAreWritten
<1>10. CASE LoadRuntime
  BY <1>10 DEF LoadRuntime, Load, StatusInv, StatusIsEarned, ArtifactsAreWritten
<1>11. CASE RunSession
  BY <1>11 DEF RunSession, Load, StatusInv, StatusIsEarned, ArtifactsAreWritten
<1>12. CASE SetUp
  BY <1>12 DEF SetUp, bootstrapEnvFile, StatusInv, StatusIsEarned, ArtifactsAreWritten
<1>13. CASE AnnounceSetup
  BY <1>13 DEF AnnounceSetup, Throw, Fault, StatusInv, StatusIsEarned, ArtifactsAreWritten
<1>14. CASE LoopEnds
  BY <1>14 DEF LoopEnds, AfterLoop, StatusInv, StatusIsEarned, ArtifactsAreWritten
<1>15. CASE HaltLoop
  BY <1>15 DEF HaltLoop, Halted, AfterLoop, StatusInv, StatusIsEarned, ArtifactsAreWritten
<1>16. CASE SkipNonCritical
  BY <1>16 DEF SkipNonCritical, Halted, StatusInv, StatusIsEarned, ArtifactsAreWritten
<1>17. CASE StartCandidate
  BY <1>17 DEF StartCandidate, Abandon, Fault, Halted, StatusInv, StatusIsEarned, ArtifactsAreWritten
<1>18. CASE InvokeFails
  BY <1>18 DEF InvokeFails, StatusInv, StatusIsEarned, ArtifactsAreWritten
<1>19. CASE NoToolCalls
  BY <1>19 DEF NoToolCalls, StatusInv, StatusIsEarned, ArtifactsAreWritten
<1>20. CASE \E class \in GateFailureClass \cup {NoFailure} : Gate(class)
  BY <1>20 DEF Gate, Fault, StatusInv, StatusIsEarned, ArtifactsAreWritten
<1>21. CASE \E answered \in SourceStatus, defended \in BOOLEAN, proven \in BOOLEAN :
                    JudgeSource(answered, defended, proven)
  BY <1>21 DEF JudgeSource, Fault, StatusInv, StatusIsEarned, ArtifactsAreWritten
<1>22. CASE JudgeRuntime
  BY <1>22 DEF JudgeRuntime, StatusInv, StatusIsEarned, ArtifactsAreWritten
<1>23. CASE Report
  BY <1>23 DEF Report, Fault, StatusInv, StatusIsEarned, ArtifactsAreWritten
<1>24. CASE Caught
  BY <1>24 DEF Caught, Abandon, Fault, StatusInv, StatusIsEarned, ArtifactsAreWritten
<1>25. CASE Audit
  BY <1>25 DEF Audit, StatusInv, StatusIsEarned, ArtifactsAreWritten
<1>26. CASE TearDown
  BY <1>26 DEF TearDown, Throw, Fault, Sweep, StatusInv, StatusIsEarned, ArtifactsAreWritten
<1>27. CASE WriteSource
  BY <1>27 DEF WriteSource, Throw, Fault, StatusInv, StatusIsEarned, ArtifactsAreWritten
<1>28. CASE WriteRuntime
  BY <1>28 DEF WriteRuntime, Throw, Fault, StatusInv, StatusIsEarned, ArtifactsAreWritten
<1>29. CASE UNCHANGED vars
  BY <1>29 DEF vars, StatusInv, StatusIsEarned, ArtifactsAreWritten
<1>30. QED
  BY <1>1, <1>2, <1>3, <1>4, <1>5, <1>6, <1>7, <1>8, <1>9, <1>10, <1>11, 
     <1>12, <1>13, <1>14, <1>15, <1>16, <1>17, <1>18, <1>19, <1>20, <1>21, 
     <1>22, <1>23, <1>24, <1>25, <1>26, <1>27, <1>28, <1>29 DEF Next

\* Every step keeps what the manifest says true.
LEMMA StatusStep ==
    ASSUME TypeOK, StatusInv, [Next]_vars
    PROVE  StatusMatchesArtifacts'
<1> USE DEF work, target, files, TypeOK
<1>1. CASE Kill
  BY <1>1 DEF Kill, StatusInv, StatusMatchesArtifacts, ManifestIsOpen, StatusIsEarned, ArtifactsAreWritten
<1>2. CASE Launch
  BY <1>2 DEF Launch, Distinct, Launches, StatusInv, StatusMatchesArtifacts, ManifestIsOpen, StatusIsEarned, ArtifactsAreWritten
<1>3. CASE EnterStage
  BY <1>3 DEF EnterStage, Catch, Fault, StatusInv, StatusMatchesArtifacts, ManifestIsOpen, StatusIsEarned, ArtifactsAreWritten
<1>4. CASE ExitStage
  BY <1>4 DEF ExitStage, Catch, Fault, StatusInv, StatusMatchesArtifacts, ManifestIsOpen, StatusIsEarned, ArtifactsAreWritten
<1>5. CASE UseSourceArtifact
  BY <1>5 DEF UseSourceArtifact, StatusInv, StatusMatchesArtifacts, ManifestIsOpen, StatusIsEarned, ArtifactsAreWritten
<1>6. CASE NoSourceArtifact
  BY <1>6 DEF NoSourceArtifact, Catch, StatusInv, StatusMatchesArtifacts, ManifestIsOpen, StatusIsEarned, ArtifactsAreWritten
<1>7. CASE Finalize
  BY <1>7 DEF Finalize, Fault, StatusInv, StatusMatchesArtifacts, ManifestIsOpen, StatusIsEarned, ArtifactsAreWritten
<1>8. CASE LoadFails
  BY <1>8 DEF LoadFails, Throw, StatusInv, StatusMatchesArtifacts, ManifestIsOpen, StatusIsEarned, ArtifactsAreWritten
<1>9. CASE LoadSource
  BY <1>9 DEF LoadSource, Load, StatusInv, StatusMatchesArtifacts, ManifestIsOpen, StatusIsEarned, ArtifactsAreWritten
<1>10. CASE LoadRuntime
  BY <1>10 DEF LoadRuntime, Load, StatusInv, StatusMatchesArtifacts, ManifestIsOpen, StatusIsEarned, ArtifactsAreWritten
<1>11. CASE RunSession
  BY <1>11 DEF RunSession, Load, StatusInv, StatusMatchesArtifacts, ManifestIsOpen, StatusIsEarned, ArtifactsAreWritten
<1>12. CASE SetUp
  BY <1>12 DEF SetUp, bootstrapEnvFile, StatusInv, StatusMatchesArtifacts, ManifestIsOpen, StatusIsEarned, ArtifactsAreWritten
<1>13. CASE AnnounceSetup
  BY <1>13 DEF AnnounceSetup, Throw, Fault, StatusInv, StatusMatchesArtifacts, ManifestIsOpen, StatusIsEarned, ArtifactsAreWritten
<1>14. CASE LoopEnds
  BY <1>14 DEF LoopEnds, AfterLoop, StatusInv, StatusMatchesArtifacts, ManifestIsOpen, StatusIsEarned, ArtifactsAreWritten
<1>15. CASE HaltLoop
  BY <1>15 DEF HaltLoop, Halted, AfterLoop, StatusInv, StatusMatchesArtifacts, ManifestIsOpen, StatusIsEarned, ArtifactsAreWritten
<1>16. CASE SkipNonCritical
  BY <1>16 DEF SkipNonCritical, Halted, StatusInv, StatusMatchesArtifacts, ManifestIsOpen, StatusIsEarned, ArtifactsAreWritten
<1>17. CASE StartCandidate
  BY <1>17 DEF StartCandidate, Abandon, Fault, Halted, StatusInv, StatusMatchesArtifacts, ManifestIsOpen, StatusIsEarned, ArtifactsAreWritten
<1>18. CASE InvokeFails
  BY <1>18 DEF InvokeFails, StatusInv, StatusMatchesArtifacts, ManifestIsOpen, StatusIsEarned, ArtifactsAreWritten
<1>19. CASE NoToolCalls
  BY <1>19 DEF NoToolCalls, StatusInv, StatusMatchesArtifacts, ManifestIsOpen, StatusIsEarned, ArtifactsAreWritten
<1>20. CASE \E class \in GateFailureClass \cup {NoFailure} : Gate(class)
  BY <1>20 DEF Gate, Fault, StatusInv, StatusMatchesArtifacts, ManifestIsOpen, StatusIsEarned, ArtifactsAreWritten
<1>21. CASE \E answered \in SourceStatus, defended \in BOOLEAN, proven \in BOOLEAN :
                    JudgeSource(answered, defended, proven)
  BY <1>21 DEF JudgeSource, Fault, StatusInv, StatusMatchesArtifacts, ManifestIsOpen, StatusIsEarned, ArtifactsAreWritten
<1>22. CASE JudgeRuntime
  BY <1>22 DEF JudgeRuntime, StatusInv, StatusMatchesArtifacts, ManifestIsOpen, StatusIsEarned, ArtifactsAreWritten
<1>23. CASE Report
  BY <1>23 DEF Report, Fault, StatusInv, StatusMatchesArtifacts, ManifestIsOpen, StatusIsEarned, ArtifactsAreWritten
<1>24. CASE Caught
  BY <1>24 DEF Caught, Abandon, Fault, StatusInv, StatusMatchesArtifacts, ManifestIsOpen, StatusIsEarned, ArtifactsAreWritten
<1>25. CASE Audit
  BY <1>25 DEF Audit, StatusInv, StatusMatchesArtifacts, ManifestIsOpen, StatusIsEarned, ArtifactsAreWritten
<1>26. CASE TearDown
  BY <1>26 DEF TearDown, Throw, Fault, Sweep, StatusInv, StatusMatchesArtifacts, ManifestIsOpen, StatusIsEarned, ArtifactsAreWritten
<1>27. CASE WriteSource
  BY <1>27 DEF WriteSource, Throw, Fault, StatusInv, StatusMatchesArtifacts, ManifestIsOpen, StatusIsEarned, ArtifactsAreWritten
<1>28. CASE WriteRuntime
  BY <1>28 DEF WriteRuntime, Throw, Fault, StatusInv, StatusMatchesArtifacts, ManifestIsOpen, StatusIsEarned, ArtifactsAreWritten
<1>29. CASE UNCHANGED vars
  BY <1>29 DEF vars, StatusInv, StatusMatchesArtifacts, ManifestIsOpen, StatusIsEarned, ArtifactsAreWritten
<1>30. QED
  BY <1>1, <1>2, <1>3, <1>4, <1>5, <1>6, <1>7, <1>8, <1>9, <1>10, <1>11, 
     <1>12, <1>13, <1>14, <1>15, <1>16, <1>17, <1>18, <1>19, <1>20, <1>21, 
     <1>22, <1>23, <1>24, <1>25, <1>26, <1>27, <1>28, <1>29 DEF Next

-----------------------------------------------------------------------------
(* The theorems.                                                           *)

LEMMA InitHolds ==
    ASSUME Init
    PROVE  TypeOK /\ LadderInv /\ LoopInv /\ TargetInv /\ StatusInv
<1> USE DEF Init, NoFile
<1>1. TypeOK
  <2>1. degradation \in DegradationState
    BY DEF createDegradationState, DegradationState, DegradationLevel
  <2>2. launch \in Launches
    BY DEF Launches, Modes
  <2>3. manifest \in [run : Nat, status : Statuses \cup {"open"}, runtime : Nat]
    BY DEF Statuses
  <2>4. sourceFile \in [run : Nat, empty : BOOLEAN] /\ answers \in Seq(Nat)
    OBVIOUS
  <2>5. pc \in Places /\ exitStatus \in Statuses /\ muddled \in SUBSET Nat
    BY DEF Places, Statuses
  <2>6. /\ run \in Nat /\ current \in Nat \ {0} /\ survivors \in Nat
        /\ runtimeFile \in Nat /\ faults \in Nat
    OBVIOUS
  <2>7. /\ lane \in {"source", "runtime"} /\ setup \in {"none", "ok", "failed", "reused"}
        /\ dotenv \in {"absent", "ours", "left"}
    OBVIOUS
  <2>8. /\ sourcePath \in BOOLEAN /\ failing \in BOOLEAN
        /\ containers \in BOOLEAN /\ tornDown \in BOOLEAN
    BY Zenon
  <2>9. QED
    BY <2>1, <2>2, <2>3, <2>4, <2>5, <2>6, <2>7, <2>8, Zenon DEF TypeOK
<1>2. LadderInv
  BY NewLadderIsSound DEF LadderInv
<1>3. LoopInv /\ TargetInv
  BY DEF LoopInv, TargetInv, TargetIsTornDown
<1>4. StatusInv
  BY DEF StatusInv, ManifestIsOpen, StatusIsEarned, ArtifactsAreWritten, StatusMatchesArtifacts
<1>5. QED
  BY <1>1, <1>2, <1>3, <1>4

\* Every reachable state has the types of the command's variables.
THEOREM TypeCorrect == Spec => []TypeOK
<1>1. Init => TypeOK
  BY InitHolds
<1>2. TypeOK /\ [Next]_vars => TypeOK'
  BY TypeStep
<1>3. QED
  BY <1>1, <1>2, PTL DEF Spec

\* Whatever integers the thresholds are, the ladder halts a run before its anomalies
\* exceed the threshold, or two when it is lower, but for a Docker setup that fails
\* (degradation-ladder.ts, tryEscalate and checkNoProgressTimeout).
THEOREM AnomaliesBounded == Spec => []AnomaliesAreBounded
<1>1. Init => LadderInv
  BY InitHolds
<1>2. TypeOK /\ LadderInv /\ [Next]_vars => LadderInv'
  BY LadderStep
<1>3. LadderInv => AnomaliesAreBounded
  BY DEF LadderInv, Sound, AnomaliesAreBounded
<1>4. QED
  BY <1>1, <1>2, <1>3, TypeCorrect, PTL DEF Spec

LEMMA LoopInOrder == Spec => []LoopInv
<1>1. Init => LoopInv
  BY InitHolds
<1>2. TypeOK /\ LoopInv /\ [Next]_vars => LoopInv'
  BY LoopStep
<1>3. QED
  BY <1>1, <1>2, TypeCorrect, PTL DEF Spec

\* No candidate is missing from an artifact, for any number of candidates and
\* whatever fails, and a result is doubled only where an event could not be
\* written (the loops of both runners).
THEOREM AnswersComplete == Spec => []AnswersAreComplete
<1>1. LoopInv => AnswersAreComplete
  BY DEF LoopInv, Settled, AnswersAreComplete
<1>2. QED
  BY <1>1, LoopInOrder, PTL

\* A target that was probed is torn down on every way out of the runtime lane
\* (runBoundedRuntimeVerification's finally).
THEOREM TornDown == Spec => []TargetIsTornDown
<1>1. Init => TargetInv
  BY InitHolds
<1>2. TypeOK /\ LoopInv /\ TargetInv /\ [Next]_vars => TargetInv'
  BY TargetStep
<1>3. TargetInv => TargetIsTornDown
  BY DEF TargetInv
<1>4. QED
  BY <1>1, <1>2, <1>3, TypeCorrect, LoopInOrder, PTL DEF Spec

\* The manifest of a run that has ended says success, failure or partial as
\* the artifacts on disk bear out (main's exit status and finally).
THEOREM StatusTrue == Spec => []StatusMatchesArtifacts
<1>1. Init => StatusInv
  BY InitHolds
<1>2. TypeOK /\ StatusInv /\ [Next]_vars => StatusInv'
  BY ManifestStep, ExitStatusStep, ArtifactStep, StatusStep DEF StatusInv
<1>3. StatusInv => StatusMatchesArtifacts
  BY DEF StatusInv
<1>4. QED
  BY <1>1, <1>2, <1>3, TypeCorrect, PTL DEF Spec
==============================================================================
