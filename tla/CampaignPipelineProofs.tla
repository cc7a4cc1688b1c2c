------------------------ MODULE CampaignPipelineProofs ------------------------
(***************************************************************************)
(* The safety of a campaign over its lives, for any limits, lanes, resume  *)
(* points and number of interruptions.                                     *)
(*                                                                         *)
(* Almost every step is one of four shared ones (Goto, StartStage,         *)
(* CompleteStage, SetPhase), so each part of the invariant comes with a    *)
(* lemma for each of these, and the proof of a part follows Next.          *)
(***************************************************************************)
EXTENDS CampaignCoverage, TLAPS

USE PipelineConstants

\* A process that has read the campaign's state and not failed.
Living == pc \notin {"down", "initialize", "catch"}

\* A copy of the state that was written or will be: a failure has its phase.
Sound(s) == s.phase = "failed" => s.failurePhase # NoPhase

\* The copy in memory is one that may be written.
Types ==
    /\ TypeOK
    /\ Sound(state)
    /\ pc \notin {"down", "initialize"} => state.phase # NoPhase
    /\ pending # NoEvent =>
          pending \in [kind : {"stage_started", "stage_completed"}, stage : Stage]

-----------------------------------------------------------------------------
(* Stages and resume points.                                               *)

LEMMA StageNames ==
    /\ DOMAIN STAGES = 1..8
    /\ Stage = {"static", "verification_packet_build", "focused_lead_confirmation",
                "local_live", "test_synthesis", "focused_closure", "assessment",
                "reporting"}
    /\ NoStage \notin Stage
BY DEF STAGES, Stage, NoStage

LEMMA StageIndexType ==
    ASSUME NEW s \in Stage
    PROVE  StageIndex(s) \in 1..8 /\ STAGES[StageIndex(s)] = s
<1>1. \E i \in DOMAIN STAGES : STAGES[i] = s
  BY DEF Stage
<1> QED
  BY <1>1, StageNames DEF StageIndex

LEMMA CheckpointType ==
    ASSUME NEW s \in Stage PROVE CheckpointBefore(s) \in Stage \cup {NoStage}
<1>1. StageIndex(s) \in 1..8
  BY StageIndexType
<1>2. StageIndex(s) # 1 => StageIndex(s) - 1 \in DOMAIN STAGES
  BY <1>1, StageNames
<1> QED
  BY <1>2 DEF CheckpointBefore, Stage

LEMMA ResumePointType ==
    ASSUME NEW l \in ResumePoints
    PROVE  FirstStageForResume(l) \in Stage \cup {NoStage}
BY StageNames DEF ResumePoints, FirstStageForResume

\* What a resumed process works on.
LEMMA ResumedType ==
    ASSUME NEW s \in StateRecord, NEW l \in ResumePoints, NEW limits \in Limits,
           s.phase # NoPhase, Sound(s)
    PROVE  /\ Resumed(s, l, limits) \in StateRecord
           /\ Resumed(s, l, limits).phase # NoPhase /\ Sound(Resumed(s, l, limits))
           /\ Resumed(s, l, limits).cost = s.cost /\ Resumed(s, l, limits).iteration = s.iteration
           /\ Resumed(s, l, limits).maxIterations >= s.maxIterations
           /\ Resumed(s, l, limits).maxCost >= s.maxCost
<1>1. /\ ResumedPhase(s, l) \in Phase
      /\ ResumedPhase(s, l) = "failed" => s.failurePhase # NoPhase
  BY DEF ResumedPhase, StateRecord, Phase, NoPhase, Sound
<1>2. /\ Continued(s, l, limits) \in StateRecord
      /\ Continued(s, l, limits).phase # NoPhase /\ Sound(Continued(s, l, limits))
      /\ Continued(s, l, limits).cost = s.cost /\ Continued(s, l, limits).iteration = s.iteration
      /\ Continued(s, l, limits).maxIterations >= s.maxIterations
      /\ Continued(s, l, limits).maxCost >= s.maxCost
  <2> DEFINE i == Raised(s.maxIterations, limits.maxIterations)
             b == Raised(s.maxCost, limits.maxCost)
             f == IF ResumedPhase(s, l) = "failed" THEN s.failurePhase ELSE NoPhase
  <2>1. i \in Nat /\ b \in Nat /\ i >= s.maxIterations /\ b >= s.maxCost
    BY DEF Raised, Limits, StateRecord
  <2>2. /\ f \in Phase \cup {NoPhase} /\ ResumedPhase(s, l) # NoPhase
        /\ ResumedPhase(s, l) = "failed" => f # NoPhase
    BY <1>1 DEF StateRecord, Phase, NoPhase
  <2>3. Continued(s, l, limits) = [s EXCEPT !.phase = ResumedPhase(s, l), !.failurePhase = f,
                                            !.maxIterations = i, !.maxCost = b]
    BY DEF Continued, StateRecord
  <2> HIDE DEF i, b, f
  <2> QED
    BY <1>1, <2>1, <2>2, <2>3 DEF StateRecord, Sound
<1>3. ASSUME FirstStageForResume(l) # NoStage
      PROVE  CheckpointBefore(FirstStageForResume(l)) \in Stage \cup {NoStage}
  BY <1>3, ResumePointType, CheckpointType
<1>4. CASE LeftAsIs(s, l) \/ FirstStageForResume(l) = NoStage
  <2>1. Resumed(s, l, limits) = s \/ Resumed(s, l, limits) = Continued(s, l, limits)
    BY <1>4 DEF Resumed
  <2>2. s.maxIterations >= s.maxIterations /\ s.maxCost >= s.maxCost
    BY DEF StateRecord
  <2> QED
    BY <1>2, <2>1, <2>2
<1>5. CASE ~LeftAsIs(s, l) /\ FirstStageForResume(l) # NoStage
  <2> DEFINE c == CheckpointBefore(FirstStageForResume(l))
  <2>1. Resumed(s, l, limits) = [Continued(s, l, limits) EXCEPT !.lastCompletedStage = c,
                                               !.currentStage = NoStage]
    BY <1>5 DEF Resumed
  <2>2. c \in Stage \cup {NoStage}
    BY <1>3, <1>5
  <2> HIDE DEF c
  <2> QED
    BY <1>2, <2>1, <2>2 DEF StateRecord, Sound
<1> QED
  BY <1>4, <1>5

-----------------------------------------------------------------------------
(* Types.                                                                  *)

\* What a step has to show about the variables that hold records.
LEMMA TypesIf ==
    ASSUME Types,
           stateFile' \in StateRecord, state' \in StateRecord,
           stateFile'.phase # NoPhase \/ stateFile' = NoState,
           Sound(stateFile'), Sound(state'),
           pc' \in PCs,
           pc' \notin {"down", "initialize"} => state'.phase # NoPhase,
           memoryFile' \in Nat, memory' \in Nat, reported' \in BOOLEAN,
           checkpoint' \in Stage \cup {NoStage},
           pending' = NoEvent \/ pending' = pending
             \/ pending' \in [kind : {"stage_started", "stage_completed"}, stage : Stage],
           started' \subseteq Stage, completed' \subseteq Stage,
           logged' \in {"none", "completed", "failed"},
           result' \in {"none", "already_completed", "completed", "failed", "threw", "died"},
           stopFile' \in BOOLEAN, gate' \in {"not_reached", "passed", "aborted"}, killed' \in BOOLEAN,
           launch' \in ResumePoints, lanes' \subseteq Lanes,
           begun' \in Nat, spent' \in Nat, interruptions' \in Nat
    PROVE  Types'
<1>1. pending' \in [kind : {"none", "stage_started", "stage_completed"},
                    stage : Stage \cup {NoStage}]
  BY DEF Types, TypeOK, NoEvent
<1>2. /\ Exists(stateFile)' => stateFile'.phase # NoPhase
      /\ stateFile'.phase = "failed" => stateFile'.failurePhase # NoPhase
  BY DEF Exists, Sound
<1> QED
  BY <1>1, <1>2 DEF Types, TypeOK, Sound

LEMMA GotoTypes ==
    ASSUME Types, NEW next \in PCs, pc \notin {"down", "initialize"}, Goto(next)
    PROVE  Types'
BY DEF Types, TypeOK, Goto, files, own, log, history, Sound, Exists

LEMMA StartStageTypes ==
    ASSUME Types, NEW s \in Stage, NEW next \in PCs, pc \notin {"down", "initialize"},
           StartStage(s, next)
    PROVE  Types'
<1>1. /\ state' \in StateRecord /\ stateFile' = state'
      /\ state'.phase = state.phase /\ state'.failurePhase = state.failurePhase
  BY DEF Types, TypeOK, StartStage, StateRecord
<1>2. pending' \in [kind : {"stage_started", "stage_completed"}, stage : Stage]
  BY DEF StartStage
<1>3. Sound(state') /\ Sound(stateFile') /\ state'.phase # NoPhase
  BY <1>1 DEF Types, Sound
<1> QED
  BY <1>1, <1>2, <1>3, TypesIf DEF Types, TypeOK, StartStage, history

LEMMA CompleteStageTypes ==
    ASSUME Types, NEW s \in Stage, NEW next \in PCs, pc \notin {"down", "initialize"},
           CompleteStage(s, next)
    PROVE  Types'
<1>1. /\ state' \in StateRecord /\ stateFile' = state'
      /\ state'.phase = state.phase /\ state'.failurePhase = state.failurePhase
  BY DEF Types, TypeOK, CompleteStage, StateRecord
<1>2. pending' \in [kind : {"stage_started", "stage_completed"}, stage : Stage]
  BY DEF CompleteStage
<1>3. Sound(state') /\ Sound(stateFile') /\ state'.phase # NoPhase
  BY <1>1 DEF Types, Sound
<1> QED
  BY <1>1, <1>2, <1>3, TypesIf DEF Types, TypeOK, CompleteStage, history

LEMMA SetPhaseTypes ==
    ASSUME Types, NEW phase \in Phase \ {"failed"}, NEW next \in PCs,
           SetPhase(phase, next)
    PROVE  Types'
<1>1. /\ state' \in StateRecord /\ stateFile' \in StateRecord
      /\ state'.phase = phase /\ stateFile'.phase = phase
  BY DEF Types, TypeOK, SetPhase, StateRecord
<1>2. phase # NoPhase
  BY DEF Phase, NoPhase
<1>3. Sound(state') /\ Sound(stateFile')
  BY <1>1 DEF Sound
<1> QED
  BY <1>1, <1>2, <1>3, TypesIf DEF Types, TypeOK, SetPhase, log, history

LEMMA EndTypes ==
    ASSUME Types,
           NEW how \in {"already_completed", "completed", "failed", "threw", "died"},
           End(how),
           stateFile' \in StateRecord, Sound(stateFile'),
           stateFile'.phase # NoPhase \/ stateFile' = NoState,
           UNCHANGED <<memoryFile, stopFile, reported, launch, lanes, started, completed,
                       logged, gate, killed, begun, spent>>,
           interruptions' \in Nat
    PROVE  Types'
<1>1. NoState \in StateRecord /\ Sound(NoState)
  BY DEF NoState, StateRecord, Sound, NoPhase
<1>2. state' = NoState /\ memory' = 0 /\ checkpoint' = NoStage /\ pending' = NoEvent
      /\ pc' = "down" /\ result' = how
  BY DEF End
<1> QED
  BY <1>1, <1>2, TypesIf DEF Types, TypeOK, PCs

LEMMA TypesInit == Init => Types
<1> SUFFICES ASSUME Init PROVE Types
  OBVIOUS
<1>1. NoState \in StateRecord /\ Sound(NoState) /\ NoState.phase # "failed"
  BY DEF NoState, StateRecord, Sound, NoPhase
<1>2. NoEvent \in [kind : {"none", "stage_started", "stage_completed"},
                   stage : Stage \cup {NoStage}]
  BY DEF NoEvent
<1> QED
  BY <1>1, <1>2 DEF Init, Types, TypeOK, PCs, Exists

LEMMA TypesStep == Types /\ [Next]_vars => Types'
<1> SUFFICES ASSUME Types, [Next]_vars PROVE Types'
  OBVIOUS
<1> USE DEF At
<1>0. /\ stateFile \in StateRecord /\ state \in StateRecord
      /\ Sound(stateFile) /\ Sound(state)
      /\ stateFile.phase # NoPhase \/ stateFile = NoState
      /\ pc \notin {"down", "initialize"} => state.phase # NoPhase
  BY DEF Types, TypeOK, Sound, Exists
<1>1. CASE AppendEvent
  <2>1. started' \subseteq Stage /\ completed' \subseteq Stage
    BY <1>1 DEF AppendEvent, Types, TypeOK
  <2> QED
    BY <1>0, <1>1, <2>1, TypesIf DEF AppendEvent, Types, TypeOK, files, own, history
<1>2. CASE InitializeCampaign
  <2>1. PICK limits \in LimitChoices :
            state' = IF Exists(stateFile) THEN Resumed(stateFile, launch, limits)
                                          ELSE InitialState(limits)
    BY <1>2 DEF InitializeCampaign
  <2>2. /\ limits \in Limits
        /\ InitialState(limits) \in StateRecord /\ Sound(InitialState(limits))
        /\ InitialState(limits).phase # NoPhase
    BY DEF InitialState, NoState, Limits, StateRecord, Sound, Phase, NoPhase
  <2>3. state' \in StateRecord /\ Sound(state') /\ state'.phase # NoPhase
    <3>1. CASE Exists(stateFile)
      BY <1>0, <2>1, <2>2, <3>1, ResumedType DEF Types, TypeOK, Exists
    <3> QED
      BY <2>1, <2>2, <3>1
  <2>4. checkpoint' \in Stage \cup {NoStage}
    BY <1>2, <2>3 DEF InitializeCampaign, StateRecord
  <2> QED
    BY <1>0, <1>2, <2>3, <2>4, TypesIf
    DEF InitializeCampaign, Types, TypeOK, files, log, history, PCs
<1>3. CASE PrepareAndWriteState
  BY <1>0, <1>3, TypesIf
  DEF PrepareAndWriteState, Types, TypeOK, own, log, history, PCs
<1>4. CASE ReturnAlreadyCompleted
  BY <1>0, <1>4, EndTypes DEF ReturnAlreadyCompleted, files, Types, TypeOK
<1>5. CASE Begin \/ CloseStatic \/ BeginVerification \/ ConfirmLeads \/ CloseConfirmation
  BY <1>5, GotoTypes, StartStageTypes, CompleteStageTypes, StageNames
  DEF Begin, CloseStatic, BeginVerification, ConfirmLeads, CloseConfirmation, PCs
<1>6. CASE LocalLive \/ CloseLocalLive \/ TestSynthesis \/ CloseTestSynthesis \/ ClosePackets
  BY <1>6, GotoTypes, StartStageTypes, CompleteStageTypes, StageNames
  DEF LocalLive, CloseLocalLive, TestSynthesis, CloseTestSynthesis, ClosePackets, PCs
<1>7. CASE Assess \/ FocusedClosure \/ CloseClosure \/ CloseAssessment \/ Report
           \/ CloseReporting
  BY <1>7, GotoTypes, StartStageTypes, CompleteStageTypes, StageNames
  DEF Assess, FocusedClosure, CloseClosure, CloseAssessment, Report, CloseReporting, PCs
<1>8. CASE LeaveLoop \/ SkipVerification
  BY <1>8, GotoTypes DEF LeaveLoop, SkipVerification, PCs
<1>9. CASE Execute \/ BuildPackets \/ AssessPanel
  BY <1>9, SetPhaseTypes DEF Execute, BuildPackets, AssessPanel, PCs, Phase
<1>10. CASE SeeKillSwitch
  <2>1. /\ stateFile' = Failed(stateFile, state.phase) /\ state' = stateFile'
        /\ state.phase # NoPhase
    BY <1>0, <1>10 DEF SeeKillSwitch
  <2>2. /\ stateFile' \in StateRecord /\ stateFile'.phase = "failed"
        /\ stateFile'.failurePhase = state.phase
    BY <1>0, <2>1 DEF Failed, StateRecord, Phase
  <2>3. "failed" # NoPhase
    BY DEF NoPhase
  <2> QED
    BY <1>10, <2>1, <2>2, <2>3, TypesIf
    DEF SeeKillSwitch, Types, TypeOK, log, Sound, PCs
<1>11. CASE Resurface
  <2>1. stateFile' \in StateRecord /\ stateFile'.phase = "resurfacing"
    BY <1>0, <1>11 DEF Resurface, StateRecord, Phase
  <2>2. "resurfacing" # NoPhase /\ Sound(stateFile')
    BY <2>1 DEF NoPhase, Sound
  <2> QED
    BY <1>0, <1>11, <2>1, <2>2, TypesIf
    DEF Resurface, Types, TypeOK, own, log, history, PCs
<1>12. CASE Plan
  <2>1. PICK cost \in 0..MaxCallCost :
           /\ stateFile' = [stateFile EXCEPT !.phase = "planning"]
           /\ state' = [state EXCEPT !.phase = "planning", !.cost = @ + cost]
           /\ spent' = spent + cost
    BY <1>12 DEF Plan
  <2>2. "planning" \in Phase \ {NoPhase} /\ state.cost + cost \in Nat
    BY <1>0 DEF Phase, NoPhase, StateRecord
  <2>3. /\ stateFile' \in StateRecord /\ stateFile'.phase = "planning"
        /\ state' \in StateRecord /\ state'.phase = "planning"
    BY <1>0, <2>1, <2>2 DEF StateRecord
  <2>4. Sound(stateFile') /\ Sound(state') /\ spent' \in Nat /\ begun' \in Nat
    BY <1>12, <2>1, <2>3 DEF Plan, Sound, Types, TypeOK
  <2> QED
    BY <1>12, <2>2, <2>3, <2>4, TypesIf DEF Plan, Types, TypeOK, log, PCs
<1>24. CASE Judge
  <2>1. PICK cost \in 0..MaxCallCost :
           /\ stateFile' = [stateFile EXCEPT !.phase = "judging"]
           /\ state' = [state EXCEPT !.phase = "judging", !.cost = @ + cost]
           /\ spent' = spent + cost
    BY <1>24 DEF Judge
  <2>2. "judging" \in Phase \ {NoPhase} /\ state.cost + cost \in Nat
    BY <1>0 DEF Phase, NoPhase, StateRecord
  <2>3. /\ stateFile' \in StateRecord /\ stateFile'.phase = "judging"
        /\ state' \in StateRecord /\ state'.phase = "judging"
    BY <1>0, <2>1, <2>2 DEF StateRecord
  <2>4. Sound(stateFile') /\ Sound(state') /\ spent' \in Nat
    BY <2>1, <2>3 DEF Sound, Types, TypeOK
  <2> QED
    BY <1>24, <2>2, <2>3, <2>4, TypesIf DEF Judge, Types, TypeOK, log, PCs
<1>13. CASE CountIteration
  <2>1. /\ state' \in StateRecord /\ stateFile' = state'
        /\ state'.phase = state.phase /\ state'.failurePhase = state.failurePhase
    BY <1>0, <1>13 DEF CountIteration, StateRecord
  <2>2. Sound(state') /\ Sound(stateFile') /\ state'.phase # NoPhase
    BY <1>0, <1>13, <2>1 DEF CountIteration, Sound
  <2> QED
    BY <1>13, <2>1, <2>2, TypesIf DEF CountIteration, Types, TypeOK, log, history, PCs
<1>14. CASE SaveMemory \/ WriteReport \/ PassGate \/ AbortAtGate
  <2>1. CASE SaveMemory
    BY <1>0, <2>1, TypesIf DEF SaveMemory, Types, TypeOK, own, log, history, PCs
  <2>2. CASE WriteReport
    BY <1>0, <2>2, TypesIf DEF WriteReport, Types, TypeOK, own, log, history, PCs
  <2>3. CASE PassGate \/ AbortAtGate
    BY <1>0, <2>3, TypesIf DEF PassGate, AbortAtGate, Types, TypeOK, files, own, log, PCs
  <2> QED
    BY <1>14, <2>1, <2>2, <2>3
<1>15. CASE SetCompleted
  <2>1. /\ stateFile' \in StateRecord /\ Sound(stateFile')
        /\ stateFile'.phase # NoPhase \/ stateFile' = NoState
        /\ state' \in StateRecord /\ Sound(state') /\ state'.phase # NoPhase
    <3>1. CASE state.phase = "failed"
      <4>1. stateFile' = stateFile /\ state' = state /\ state.phase # NoPhase
        BY <1>0, <1>15, <3>1 DEF SetCompleted
      <4> QED
        BY <1>0, <4>1
    <3>2. CASE state.phase # "failed"
      <4>1. /\ stateFile' = [stateFile EXCEPT !.phase = "completed"]
            /\ state' = stateFile'
        BY <1>15, <3>2 DEF SetCompleted
      <4>2. stateFile' \in StateRecord /\ stateFile'.phase = "completed"
        BY <1>0, <4>1 DEF StateRecord, Phase
      <4>3. "completed" # NoPhase
        BY DEF NoPhase
      <4> QED
        BY <4>1, <4>2, <4>3 DEF Sound
    <3> QED
      BY <3>1, <3>2
  <2> QED
    BY <1>15, <2>1, TypesIf DEF SetCompleted, Types, TypeOK, log, history, PCs
<1>16. CASE LogOutcome
  <2>1. logged' \in {"completed", "failed"} /\ pc' = "write_report" /\ pc = "log_outcome"
    BY <1>16 DEF LogOutcome, Outcome
  <2>2. UNCHANGED <<stateFile, memoryFile, reported, stopFile, state, memory, launch, lanes,
                    checkpoint, pending, started, completed, gate, killed, result, begun, spent,
                    interruptions>>
    BY <1>16 DEF LogOutcome, files, own, history
  <2> QED
    BY <1>0, <2>1, <2>2, TypesIf DEF Types, TypeOK, PCs
<1>17. CASE Return
  BY <1>0, <1>17, EndTypes DEF Return, Outcome, files, Types, TypeOK
<1>18. CASE Catch
  <2>1. /\ stateFile' \in StateRecord /\ Sound(stateFile')
        /\ stateFile'.phase # NoPhase \/ stateFile' = NoState
    <3>1. CASE Exists(stateFile)
      <4>1. stateFile' = Failed(stateFile, state.phase) /\ state.phase # NoPhase
        BY <1>0, <1>18, <3>1 DEF Catch
      <4>2. /\ stateFile' \in StateRecord /\ stateFile'.phase = "failed"
            /\ stateFile'.failurePhase = state.phase
        BY <1>0, <4>1 DEF Failed, StateRecord, Phase
      <4>3. "failed" # NoPhase
        BY DEF NoPhase
      <4> QED
        BY <4>1, <4>2, <4>3 DEF Sound
    <3> QED
      BY <1>0, <1>18, <3>1 DEF Catch, Exists
  <2> QED
    BY <1>18, <2>1, EndTypes DEF Catch, Types, TypeOK
<1>19. CASE Launch
  BY <1>0, <1>19, TypesIf DEF Launch, Types, TypeOK, files, PCs
<1>20. CASE Throw
  <2>1. CASE pc = "initialize"
    BY <1>0, <1>20, <2>1, EndTypes DEF Throw, files, Types, TypeOK
  <2>2. CASE pc # "initialize"
    BY <1>0, <1>20, <2>2, TypesIf DEF Throw, files, Types, TypeOK, PCs
  <2> QED
    BY <2>1, <2>2
<1>21. CASE Crash
  BY <1>0, <1>21, EndTypes DEF Crash, files, Types, TypeOK
<1>22. CASE ToggleStopFile
  BY <1>0, <1>22, TypesIf DEF ToggleStopFile, files, own, log, history, Types, TypeOK
<1>23. CASE UNCHANGED vars
  BY <1>23 DEF vars, files, own, log, history, Types, TypeOK, Exists, Sound
<1> QED
  BY <1>1, <1>2, <1>3, <1>4, <1>5, <1>6, <1>7, <1>8, <1>9, <1>10, <1>11, <1>12, <1>13,
     <1>14, <1>15, <1>16, <1>17, <1>18, <1>19, <1>20, <1>21, <1>22, <1>23, <1>24
  DEF Next, PipelineStep

-----------------------------------------------------------------------------
(* Iterations, their cost and their results.                               *)

\* The iteration under way is not counted yet.
UnderWay == IF pc \in {"execute", "judge", "count"} THEN 1 ELSE 0

\* What it may have cost so far is in memory and not yet in the file.
Unpaid == CASE pc \in {"execute", "judge"} -> MaxCallCost
            [] pc = "count"                -> MaxIterationCost
            [] OTHER                       -> 0

\* The iteration counted in the file has its results in memory only.
Unsaved == IF pc = "save_memory" THEN 1 ELSE 0

\* What interruptions have made the campaign forget.
Forgotten == MaxIterationCost * interruptions

\* A process knows what all lives have spent, but for one iteration per
\* interruption, and so does the file it leaves behind.
Accounts ==
    /\ Living => /\ state.iteration = stateFile.iteration
                 /\ stateFile.cost <= state.cost /\ state.cost <= stateFile.cost + Unpaid
                 /\ spent <= state.cost + Forgotten
                 /\ begun <= state.iteration + UnderWay + interruptions
                 /\ memory = memoryFile + Unsaved
                 /\ state.maxIterations >= stateFile.maxIterations
                 /\ state.maxCost >= stateFile.maxCost
                 /\ pc # "prepare" => /\ state.maxIterations = stateFile.maxIterations
                                      /\ state.maxCost = stateFile.maxCost
    /\ ~Living => /\ spent <= stateFile.cost + Forgotten
                  /\ begun <= stateFile.iteration + interruptions
    /\ pc = "resurfaced" => WithinLimits
    /\ pc \in {"execute", "judge"} => spent < stateFile.maxCost + MaxCallCost + Forgotten
    /\ stateFile.iteration <= memoryFile + interruptions + Unsaved
    /\ begun <= stateFile.maxIterations + interruptions
    /\ spent > 0 => spent < stateFile.maxCost + MaxIterationCost + Forgotten

LimitsOf(s) == <<s.maxIterations, s.maxCost>>

Figures == <<state.iteration, state.cost, stateFile.iteration, stateFile.cost,
             LimitsOf(state), LimitsOf(stateFile),
             memory, memoryFile, begun, spent, interruptions>>

\* Places of the process outside an iteration.
Between ==
    pc \notin {"down", "initialize", "catch", "prepare", "resurfaced", "execute", "judge",
               "count", "save_memory"}

LEMMA QuietAccounts ==
    ASSUME Accounts, UNCHANGED Figures,
           \/ UNCHANGED pc
           \/ Between /\ Between'
    PROVE  Accounts'
<1>1. /\ UNCHANGED <<state.iteration, state.cost, stateFile.iteration, stateFile.cost>>
      /\ UNCHANGED <<state.maxIterations, state.maxCost>>
      /\ UNCHANGED <<stateFile.maxIterations, stateFile.maxCost>>
      /\ UNCHANGED <<memory, memoryFile, begun, spent, interruptions>>
  BY DEF Figures, LimitsOf
<1>2. Forgotten' = Forgotten
  BY <1>1 DEF Forgotten, MaxIterationCost
<1>3. UnderWay' = UnderWay /\ Unpaid' = Unpaid /\ Unsaved' = Unsaved /\ Living' = Living
  BY DEF UnderWay, Unpaid, Unsaved, Living, Between, MaxIterationCost
<1>4. (pc = "resurfaced" => WithinLimits) => (pc = "resurfaced" => WithinLimits)'
  BY <1>1 DEF WithinLimits, Between
<1> QED
  BY <1>1, <1>2, <1>3, <1>4 DEF Accounts, Between

LEMMA NumberTypes ==
    ASSUME Types
    PROVE  /\ state.iteration \in Nat /\ state.cost \in Nat
           /\ stateFile.iteration \in Nat /\ stateFile.cost \in Nat
           /\ state.maxIterations \in Nat /\ state.maxCost \in Nat
           /\ stateFile.maxIterations \in Nat /\ stateFile.maxCost \in Nat
           /\ memory \in Nat /\ memoryFile \in Nat
           /\ begun \in Nat /\ spent \in Nat /\ interruptions \in Nat
BY DEF Types, TypeOK, StateRecord

\* One interruption more may forget one iteration more.
LEMMA ForgottenIsCost ==
    ASSUME Types
    PROVE  /\ Forgotten \in Nat /\ MaxIterationCost \in Nat
           /\ MaxIterationCost = MaxCallCost + MaxCallCost
           /\ MaxIterationCost * (1 + interruptions) = MaxIterationCost + Forgotten
           /\ interruptions' = interruptions => Forgotten' = Forgotten
           /\ interruptions' = interruptions + 1 =>
                 Forgotten' = Forgotten + MaxIterationCost
<1>1. \A c, i \in Nat : c * i \in Nat /\ c * (1 + i) = c + c * i /\ c * (i + 1) = c * i + c
  OBVIOUS
<1>2. MaxIterationCost \in Nat /\ MaxIterationCost' = MaxIterationCost
      /\ MaxIterationCost = MaxCallCost + MaxCallCost
  BY PipelineConstants DEF MaxIterationCost
<1> QED
  BY <1>1, <1>2, NumberTypes DEF Forgotten

LEMMA GotoAccounts ==
    ASSUME Accounts, NEW next, Goto(next), Between, Between'
    PROVE  Accounts'
<1>1. UNCHANGED Figures
  BY DEF Goto, files, own, history, Figures
<1> QED
  BY <1>1, QuietAccounts

LEMMA StageAccounts ==
    ASSUME Types, Accounts, NEW s, NEW next,
           StartStage(s, next) \/ CompleteStage(s, next), Between, Between'
    PROVE  Accounts'
<1>1. /\ stateFile' = state'
      /\ state'.iteration = state.iteration /\ state'.cost = state.cost
      /\ LimitsOf(state') = LimitsOf(state)
      /\ UNCHANGED <<memory, memoryFile, begun, spent, interruptions>>
  BY DEF LimitsOf, StartStage, CompleteStage, Types, TypeOK, StateRecord, history
<1>2. /\ state.iteration = stateFile.iteration /\ state.cost = stateFile.cost
      /\ LimitsOf(state) = LimitsOf(stateFile)
  BY NumberTypes DEF Accounts, Between, Living, Unpaid, LimitsOf
<1>3. UNCHANGED Figures
  BY <1>1, <1>2 DEF Figures, LimitsOf
<1> QED
  BY <1>3, QuietAccounts

LEMMA SetPhaseFigures ==
    ASSUME Types, NEW phase, NEW next, SetPhase(phase, next)
    PROVE  UNCHANGED Figures /\ pc' = next
BY DEF SetPhase, Types, TypeOK, StateRecord, history, Figures, LimitsOf

LEMMA EndAccounts ==
    ASSUME Types, Accounts, NEW how, End(how),
           memoryFile' = memoryFile, begun' = begun, spent' = spent,
           stateFile'.iteration = stateFile.iteration, stateFile'.cost = stateFile.cost,
           LimitsOf(stateFile') = LimitsOf(stateFile),
           \/ interruptions' = interruptions + 1
           \/ interruptions' = interruptions /\ (Between \/ ~Living)
    PROVE  Accounts'
<1>1. pc' = "down" /\ stateFile'.maxIterations = stateFile.maxIterations
      /\ stateFile'.maxCost = stateFile.maxCost
  BY DEF End, LimitsOf
<1> QED
  BY <1>1, NumberTypes, ForgottenIsCost
  DEF Accounts, Between, Living, UnderWay, Unpaid, Unsaved

LEMMA AccountsStep == Types /\ Accounts /\ [Next]_vars => Accounts'
<1> SUFFICES ASSUME Types, Accounts, [Next]_vars PROVE Accounts'
  OBVIOUS
<1> USE DEF At
<1>0. /\ state.iteration \in Nat /\ state.cost \in Nat
      /\ stateFile.iteration \in Nat /\ stateFile.cost \in Nat
      /\ state.maxIterations \in Nat /\ state.maxCost \in Nat
      /\ stateFile.maxIterations \in Nat /\ stateFile.maxCost \in Nat
      /\ memory \in Nat /\ memoryFile \in Nat
      /\ begun \in Nat /\ spent \in Nat /\ interruptions \in Nat
      /\ Forgotten \in Nat /\ MaxIterationCost \in Nat /\ MaxCallCost \in Nat
  BY NumberTypes, ForgottenIsCost
<1>1. CASE AppendEvent \/ ToggleStopFile \/ UNCHANGED vars
  <2>1. UNCHANGED Figures /\ UNCHANGED pc
    BY <1>1 DEF AppendEvent, ToggleStopFile, vars, files, own, history, Figures, LimitsOf
  <2> QED
    BY <2>1, QuietAccounts
<1>2. CASE InitializeCampaign
  <2>1. /\ state'.cost = stateFile.cost /\ state'.iteration = stateFile.iteration
        /\ state'.maxIterations >= stateFile.maxIterations
        /\ state'.maxCost >= stateFile.maxCost
    <3>1. PICK limits \in Limits :
              state' = IF Exists(stateFile) THEN Resumed(stateFile, launch, limits)
                                            ELSE InitialState(limits)
      BY <1>2 DEF InitializeCampaign
    <3>2. CASE Exists(stateFile)
      BY <3>1, <3>2, ResumedType DEF Types, TypeOK, Sound
    <3>3. CASE ~Exists(stateFile)
      BY <3>1, <3>3 DEF Exists, InitialState, NoState, Limits
    <3> QED
      BY <3>2, <3>3
  <2>2. pc = "initialize" /\ pc' = "prepare" /\ memory' = memoryFile
        /\ UNCHANGED <<stateFile, memoryFile, begun, spent, interruptions>>
    BY <1>2 DEF InitializeCampaign, files, history
  <2> QED
    BY <1>0, <2>1, <2>2, ForgottenIsCost DEF Accounts, Living, UnderWay, Unpaid, Unsaved
<1>3. CASE PrepareAndWriteState
  <2>1. /\ pc = "prepare" /\ pc' = "preflight" /\ stateFile' = state
        /\ UNCHANGED <<state, memory, memoryFile, begun, spent, interruptions>>
    BY <1>3 DEF PrepareAndWriteState, own, history
  <2> QED
    BY <1>0, <2>1, ForgottenIsCost DEF Accounts, Living, UnderWay, Unpaid, Unsaved
<1>4. CASE Begin \/ CloseStatic \/ BeginVerification \/ ConfirmLeads \/ CloseConfirmation
  BY <1>4, GotoAccounts, StageAccounts
  DEF Begin, CloseStatic, BeginVerification, ConfirmLeads, CloseConfirmation, Goto,
      StartStage, CompleteStage, Between
<1>5. CASE LocalLive \/ CloseLocalLive \/ TestSynthesis \/ CloseTestSynthesis \/ ClosePackets
  BY <1>5, GotoAccounts, StageAccounts
  DEF LocalLive, CloseLocalLive, TestSynthesis, CloseTestSynthesis, ClosePackets, Goto,
      StartStage, CompleteStage, Between
<1>6. CASE Assess \/ FocusedClosure \/ CloseClosure \/ CloseAssessment \/ Report
           \/ CloseReporting
  BY <1>6, GotoAccounts, StageAccounts
  DEF Assess, FocusedClosure, CloseClosure, CloseAssessment, Report, CloseReporting, Goto,
      StartStage, CompleteStage, Between
<1>7. CASE LeaveLoop \/ SkipVerification
  BY <1>7, GotoAccounts DEF LeaveLoop, SkipVerification, Goto, Between
<1>8. CASE BuildPackets \/ AssessPanel
  BY <1>8, SetPhaseFigures, QuietAccounts DEF BuildPackets, AssessPanel, Between
<1>9. CASE Execute
  <2>1. UNCHANGED Figures /\ pc = "execute" /\ pc' = "judge"
    BY <1>9, SetPhaseFigures DEF Execute
  <2>2. /\ UNCHANGED <<state.iteration, state.cost, stateFile.iteration, stateFile.cost>>
        /\ UNCHANGED <<state.maxIterations, state.maxCost>>
        /\ UNCHANGED <<stateFile.maxIterations, stateFile.maxCost>>
        /\ UNCHANGED <<memory, memoryFile, begun, spent, interruptions>>
    BY <2>1 DEF Figures, LimitsOf
  <2> QED
    BY <1>0, <2>1, <2>2, ForgottenIsCost DEF Accounts, Living, UnderWay, Unpaid, Unsaved
<1>10. CASE SeeKillSwitch
  <2>1. /\ stateFile' = Failed(stateFile, state.phase) /\ state' = stateFile'
        /\ pc = "static_loop" /\ pc' = "close_static"
        /\ UNCHANGED <<memory, memoryFile, begun, spent, interruptions>>
    BY <1>10 DEF SeeKillSwitch
  <2>2. /\ stateFile'.iteration = stateFile.iteration /\ stateFile'.cost = stateFile.cost
        /\ LimitsOf(stateFile') = LimitsOf(stateFile)
    BY <2>1 DEF Failed, Types, TypeOK, StateRecord, LimitsOf
  <2>3. /\ state.iteration = stateFile.iteration /\ state.cost = stateFile.cost
        /\ LimitsOf(state) = LimitsOf(stateFile)
    BY <1>0, <2>1 DEF Accounts, Living, Unpaid, LimitsOf
  <2>4. UNCHANGED Figures
    BY <2>1, <2>2, <2>3 DEF Figures, LimitsOf
  <2> QED
    BY <2>1, <2>4, QuietAccounts DEF Between
<1>11. CASE Resurface
  <2>1. /\ pc = "static_loop" /\ pc' = "resurfaced" /\ WithinLimits
        /\ stateFile' = [stateFile EXCEPT !.phase = "resurfacing"]
        /\ UNCHANGED <<state, memory, memoryFile, begun, spent, interruptions>>
    BY <1>11 DEF Resurface, own, history
  <2>2. /\ stateFile'.iteration = stateFile.iteration /\ stateFile'.cost = stateFile.cost
        /\ stateFile'.maxIterations = stateFile.maxIterations
        /\ stateFile'.maxCost = stateFile.maxCost
    BY <2>1 DEF Types, TypeOK, StateRecord
  <2>3. WithinLimits'
    BY <2>1 DEF WithinLimits
  <2> QED
    BY <1>0, <2>1, <2>2, <2>3, ForgottenIsCost
    DEF Accounts, Living, UnderWay, Unpaid, Unsaved
<1>12. CASE Plan
  <2>1. PICK cost \in 0..MaxCallCost :
           /\ stateFile' = [stateFile EXCEPT !.phase = "planning"]
           /\ state' = [state EXCEPT !.phase = "planning", !.cost = @ + cost]
           /\ spent' = spent + cost
    BY <1>12 DEF Plan
  <2>2. /\ begun' = begun + 1 /\ pc' = "execute"
        /\ UNCHANGED <<memory, memoryFile, interruptions>>
    BY <1>12 DEF Plan
  <2>3. /\ stateFile'.iteration = stateFile.iteration /\ stateFile'.cost = stateFile.cost
        /\ stateFile'.maxIterations = stateFile.maxIterations
        /\ stateFile'.maxCost = stateFile.maxCost
        /\ state'.iteration = state.iteration /\ state'.cost = state.cost + cost
        /\ state'.maxIterations = state.maxIterations /\ state'.maxCost = state.maxCost
    BY <2>1 DEF Types, TypeOK, StateRecord
  <2>4. pc \in {"static_loop", "resurfaced"}
        /\ state.iteration < state.maxIterations /\ state.cost < state.maxCost
    BY <1>12 DEF Plan, Accounts, WithinLimits
  <2> HIDE DEF At
  <2> QED
    BY <1>0, <2>1, <2>2, <2>3, <2>4, ForgottenIsCost
    DEF Accounts, Living, UnderWay, Unpaid, Unsaved
<1>22. CASE Judge
  <2>1. PICK cost \in 0..MaxCallCost :
           /\ stateFile' = [stateFile EXCEPT !.phase = "judging"]
           /\ state' = [state EXCEPT !.phase = "judging", !.cost = @ + cost]
           /\ spent' = spent + cost
    BY <1>22 DEF Judge
  <2>2. /\ pc = "judge" /\ pc' = "count"
        /\ UNCHANGED <<memory, memoryFile, begun, interruptions>>
    BY <1>22 DEF Judge
  <2>3. /\ stateFile'.iteration = stateFile.iteration /\ stateFile'.cost = stateFile.cost
        /\ stateFile'.maxIterations = stateFile.maxIterations
        /\ stateFile'.maxCost = stateFile.maxCost
        /\ state'.iteration = state.iteration /\ state'.cost = state.cost + cost
        /\ state'.maxIterations = state.maxIterations /\ state'.maxCost = state.maxCost
    BY <2>1 DEF Types, TypeOK, StateRecord
  <2> QED
    BY <1>0, <2>1, <2>2, <2>3, ForgottenIsCost
    DEF Accounts, Living, UnderWay, Unpaid, Unsaved
<1>13. CASE CountIteration
  <2>1. /\ state' = [state EXCEPT !.iteration = @ + 1] /\ stateFile' = state'
        /\ memory' = memory + 1 /\ pc = "count" /\ pc' = "save_memory"
        /\ UNCHANGED <<memoryFile, begun, spent, interruptions>>
    BY <1>13 DEF CountIteration, history
  <2>2. /\ state'.iteration = state.iteration + 1 /\ state'.cost = state.cost
        /\ state'.maxIterations = state.maxIterations /\ state'.maxCost = state.maxCost
    BY <2>1 DEF Types, TypeOK, StateRecord
  <2> QED
    BY <1>0, <2>1, <2>2, ForgottenIsCost DEF Accounts, Living, UnderWay, Unpaid, Unsaved
<1>14. CASE SaveMemory
  <2>1. /\ pc = "save_memory" /\ pc' = "static_loop" /\ memoryFile' = memory
        /\ UNCHANGED <<state, stateFile, memory, begun, spent, interruptions>>
    BY <1>14 DEF SaveMemory, own, history
  <2> QED
    BY <1>0, <2>1, ForgottenIsCost DEF Accounts, Living, UnderWay, Unpaid, Unsaved
<1>15. CASE WriteReport \/ PassGate \/ AbortAtGate \/ LogOutcome
  <2>1. UNCHANGED Figures /\ Between /\ Between'
    BY <1>15 DEF WriteReport, PassGate, AbortAtGate, LogOutcome, files, own, log, history,
                 Figures, LimitsOf, Between
  <2> QED
    BY <2>1, QuietAccounts
<1>16. CASE SetCompleted
  <2>1. pc = "set_completed" /\ pc' = "log_outcome"
        /\ UNCHANGED <<memory, memoryFile, begun, spent, interruptions>>
    BY <1>16 DEF SetCompleted, history
  <2>2. /\ state.iteration = stateFile.iteration /\ state.cost = stateFile.cost
        /\ LimitsOf(state) = LimitsOf(stateFile)
    BY <1>0, <2>1 DEF Accounts, Living, Unpaid, LimitsOf
  <2>3. UNCHANGED Figures
    <3>1. CASE state.phase = "failed"
      BY <1>16, <2>1, <3>1 DEF SetCompleted, Figures, LimitsOf
    <3>2. CASE state.phase # "failed"
      <4>1. stateFile' = [stateFile EXCEPT !.phase = "completed"] /\ state' = stateFile'
        BY <1>16, <3>2 DEF SetCompleted
      <4> QED
        BY <2>1, <2>2, <4>1 DEF Figures, Types, TypeOK, StateRecord, LimitsOf
    <3> QED
      BY <3>1, <3>2
  <2> QED
    BY <2>1, <2>3, QuietAccounts DEF Between
<1>17. CASE Return \/ ReturnAlreadyCompleted
  BY <1>17, EndAccounts DEF Return, ReturnAlreadyCompleted, files, Between, LimitsOf
<1>18. CASE Catch
  <2>1. /\ stateFile'.iteration = stateFile.iteration /\ stateFile'.cost = stateFile.cost
        /\ LimitsOf(stateFile') = LimitsOf(stateFile)
    BY <1>18 DEF Catch, Failed, Types, TypeOK, StateRecord, LimitsOf
  <2> QED
    BY <1>18, <2>1, EndAccounts DEF Catch, Living
<1>19. CASE Launch
  <2>1. /\ pc = "down" /\ pc' = "initialize"
        /\ UNCHANGED <<stateFile, memoryFile, begun, spent, interruptions>>
    BY <1>19 DEF Launch, files
  <2> QED
    BY <1>0, <2>1, ForgottenIsCost DEF Accounts, Living, Unsaved
<1>20. CASE Throw
  <2>1. CASE pc = "initialize"
    BY <1>20, <2>1, EndAccounts DEF Throw, files, LimitsOf
  <2>2. CASE pc # "initialize"
    <3>1. /\ pc' = "catch" /\ interruptions' = interruptions + 1
          /\ UNCHANGED <<stateFile, memoryFile, begun, spent>>
      BY <1>20, <2>2 DEF Throw, files
    <3> QED
      BY <1>0, <3>1, ForgottenIsCost DEF Accounts, Living, UnderWay, Unpaid, Unsaved
  <2> QED
    BY <2>1, <2>2
<1>21. CASE Crash
  BY <1>21, EndAccounts DEF Crash, files, LimitsOf
<1> QED
  BY <1>1, <1>2, <1>3, <1>4, <1>5, <1>6, <1>7, <1>8, <1>9, <1>10, <1>11, <1>12, <1>13,
     <1>14, <1>15, <1>16, <1>17, <1>18, <1>19, <1>20, <1>21, <1>22
  DEF Next, PipelineStep

-----------------------------------------------------------------------------
(* The kill switch.                                                        *)

\* The places before the first stage is completed, and those that follow it
\* when the campaign has failed.
Early == {"initialize", "prepare", "preflight", "static_loop", "resurfaced", "execute",
          "judge", "count", "save_memory"}
Downhill == {"close_static", "verification", "assessment", "closure", "close_assessment",
             "reporting", "set_completed", "log_outcome", "write_report",
             "close_reporting", "return"}

StartsOnly(S) ==
    started \subseteq S /\ (pending.kind = "stage_started" => pending.stage \in S)

KillInv ==
    /\ IF pc = "down" THEN pending = NoEvent ELSE result = "none"
    /\ pc \in Early => StartsOnly({"static"})
    /\ killed => /\ pc \in Downhill \cup {"catch", "down"}
                 /\ pc \in Downhill => state.phase = "failed"
                 /\ StartsOnly({"static", "reporting"})
                 /\ result # "completed"

\* What the shared steps leave alone.
LEMMA SharedSteps ==
    ASSUME Types, NEW s \in Stage, NEW next
    PROVE  /\ Goto(next) => pc' = next /\ UNCHANGED <<stateFile, pending, state>>
           /\ StartStage(s, next) =>
                  pc' = next /\ pending' = [kind |-> "stage_started", stage |-> s]
           /\ CompleteStage(s, next) =>
                  pc' = next /\ pending' = [kind |-> "stage_completed", stage |-> s]
           /\ StartStage(s, next) \/ CompleteStage(s, next) =>
                  state'.phase = state.phase /\ stateFile' = state'
           /\ StartStage(s, next) =>
                  state'.lastCompletedStage = state.lastCompletedStage
           /\ CompleteStage(s, next) => state'.lastCompletedStage = s
           /\ Goto(next) \/ StartStage(s, next) \/ CompleteStage(s, next) =>
                  UNCHANGED <<started, logged, launch, killed, result>>
BY DEF Types, TypeOK, StateRecord, Goto, StartStage, CompleteStage, files, own, log, history

LEMMA KillStep == Types /\ KillInv /\ [Next]_vars => KillInv'
<1> SUFFICES ASSUME Types, KillInv, [Next]_vars PROVE KillInv'
  OBVIOUS
<1> USE DEF At, KillInv, StartsOnly, Early, Downhill, NoEvent
<1>1. CASE AppendEvent
  BY <1>1 DEF AppendEvent, own, history
<1>2. CASE ToggleStopFile \/ UNCHANGED vars
  BY <1>2 DEF ToggleStopFile, vars, own, log, history
<1>3. CASE InitializeCampaign \/ PrepareAndWriteState
  BY <1>3 DEF InitializeCampaign, PrepareAndWriteState, own, log, history
<1>4. CASE Begin \/ CloseStatic
  BY <1>4, SharedSteps, StageNames DEF Begin, CloseStatic
<1>5. CASE BeginVerification \/ ConfirmLeads \/ CloseConfirmation \/ LocalLive
           \/ CloseLocalLive \/ TestSynthesis \/ CloseTestSynthesis \/ ClosePackets
  <2>1. /\ pc' \notin Early \cup {"down"} /\ UNCHANGED <<killed, result>>
        /\ ~killed
    BY <1>5, SharedSteps, StageNames
    DEF BeginVerification, ConfirmLeads, CloseConfirmation, LocalLive, CloseLocalLive,
        TestSynthesis, CloseTestSynthesis, ClosePackets, VerificationRuns
  <2>2. pc # "down"
    BY <1>5 DEF BeginVerification, ConfirmLeads, CloseConfirmation, LocalLive,
        CloseLocalLive, TestSynthesis, CloseTestSynthesis, ClosePackets
  <2> QED
    BY <2>1, <2>2
<1>6. CASE LeaveLoop \/ SkipVerification
  BY <1>6, SharedSteps, StageNames DEF LeaveLoop, SkipVerification
<1>7. CASE Assess \/ FocusedClosure
  BY <1>7, SharedSteps, StageNames DEF Assess, FocusedClosure
<1>8. CASE CloseClosure \/ CloseAssessment
  BY <1>8, SharedSteps, StageNames DEF CloseClosure, CloseAssessment
<1>9. CASE Report \/ CloseReporting
  BY <1>9, SharedSteps, StageNames DEF Report, CloseReporting
<1>10. CASE Execute \/ BuildPackets \/ AssessPanel
  BY <1>10 DEF Execute, BuildPackets, AssessPanel, SetPhase, log, history
<1>11. CASE SeeKillSwitch
  <2>1. /\ state'.phase = "failed" /\ pc = "static_loop" /\ pc' = "close_static"
        /\ UNCHANGED <<pending, started, result>>
    BY <1>11 DEF SeeKillSwitch, Failed, Types, TypeOK, StateRecord, log
  <2> QED
    BY <2>1
<1>12. CASE Resurface \/ Plan \/ Judge \/ CountIteration \/ SaveMemory
  <2>1. /\ pc \in Early \ {"initialize"} /\ pc' \in Early
        /\ UNCHANGED <<pending, started, killed, result>>
    BY <1>12 DEF Resurface, Plan, Judge, CountIteration, SaveMemory, own, log, history
  <2> QED
    BY <2>1
<1>13. CASE PassGate \/ AbortAtGate \/ WriteReport \/ LogOutcome
  BY <1>13 DEF PassGate, AbortAtGate, WriteReport, LogOutcome, own, log, history
<1>14. CASE SetCompleted
  BY <1>14 DEF SetCompleted, log, history
<1>15. CASE Return \/ ReturnAlreadyCompleted \/ Catch
  BY <1>15 DEF Return, ReturnAlreadyCompleted, Catch, End, Outcome
<1>16. CASE Launch
  BY <1>16 DEF Launch, Types
<1>17. CASE Throw \/ Crash
  BY <1>17 DEF Throw, Crash, End
<1> QED
  BY <1>1, <1>2, <1>3, <1>4, <1>5, <1>6, <1>7, <1>8, <1>9, <1>10, <1>11, <1>12, <1>13,
     <1>14, <1>15, <1>16, <1>17
  DEF Next, PipelineStep

-----------------------------------------------------------------------------
(* What is recorded of a life's outcome.                                   *)

Ending == {"log_outcome", "write_report", "close_reporting", "return"}

\* The two copies agree on the phase, reporting is not skipped, and what is logged
\* is what will be returned.
OutcomeInv ==
    /\ pc # "down" => result = "none"
    /\ Living /\ pc \notin {"prepare", "resurfaced"} => stateFile.phase = state.phase
    /\ Living /\ pc # "prepare" =>
          stateFile.lastCompletedStage = state.lastCompletedStage
    /\ Living /\ launch.stage # NoStage /\ pc # "return" =>
          state.lastCompletedStage # "reporting"
    /\ pc \in Ending => state.phase \in {"completed", "failed"}
    /\ pc \in Ending \ {"log_outcome"} => logged = Outcome
    /\ OutcomeIsRecorded

LEMMA ReportingIndex ==
    /\ StageIndex("reporting") = 8
    /\ \A s \in Stage : StageIndex(s) = 8 => s = "reporting"
<1>1. \A i \in 1..8 : STAGES[i] = "reporting" <=> i = 8
  BY DEF STAGES
<1>2. "reporting" \in Stage
  BY StageNames
<1> QED
  BY <1>1, <1>2, StageIndexType

LEMMA ReportingNotSkipped ==
    ASSUME Types, OutcomeInv, pc = "reporting"
    PROVE  ~ShouldSkip("reporting")
<1> SUFFICES ASSUME launch.stage # NoStage,
                    IF state.lastCompletedStage = NoStage
                    THEN StageIndex("reporting") < StageIndex(launch.stage)
                    ELSE StageIndex("reporting") <= StageIndex(state.lastCompletedStage)
             PROVE  FALSE
  BY DEF ShouldSkip
<1>1. launch.stage \in Stage /\ state.lastCompletedStage \in Stage \cup {NoStage}
  BY DEF Types, TypeOK, ResumePoints, StateRecord
<1>2. state.lastCompletedStage # "reporting"
  BY DEF OutcomeInv, Living
<1> QED
  BY <1>1, <1>2, ReportingIndex, StageIndexType

LEMMA ResumedBeforeReporting ==
    ASSUME NEW s \in StateRecord, NEW l \in ResumePoints, NEW limits \in Limits,
           l.stage # NoStage
    PROVE  Resumed(s, l, limits).lastCompletedStage # "reporting"
<1> DEFINE c == CheckpointBefore(l.stage)
<1>1. l.stage \in Stage
  BY DEF ResumePoints
<1>2. c # "reporting"
  <2>1. CASE StageIndex(l.stage) = 1
    BY <2>1, StageNames DEF CheckpointBefore
  <2>2. CASE StageIndex(l.stage) # 1
    <3>1. StageIndex(l.stage) - 1 \in 1..7
      BY <1>1, <2>2, StageIndexType
    <3>2. \A i \in 1..7 : STAGES[i] # "reporting"
      BY DEF STAGES
    <3> QED
      BY <2>2, <3>1, <3>2 DEF CheckpointBefore
  <2> QED
    BY <2>1, <2>2
<1>3. ~LeftAsIs(s, l) /\ FirstStageForResume(l) = l.stage
  <2>1. l # NotResumed
    BY DEF NotResumed
  <2>2. FirstStageForResume(l) = l.stage
    BY DEF FirstStageForResume
  <2> QED
    BY <2>1, <2>2 DEF LeftAsIs
<1>4. s.lastCompletedStage \in Stage \cup {NoStage} /\ Continued(s, l, limits) \in StateRecord
  <2>1. ResumedPhase(s, l) \in Phase \cup {NoPhase}
    BY DEF ResumedPhase, StateRecord, Phase
  <2> QED
    BY <2>1 DEF Continued, Raised, Limits, StateRecord
<1>5. Resumed(s, l, limits) = [Continued(s, l, limits) EXCEPT !.lastCompletedStage = c,
                                             !.currentStage = NoStage]
  BY <1>1, <1>3, StageNames DEF Resumed
<1> HIDE DEF c
<1> QED
  BY <1>2, <1>4, <1>5 DEF StateRecord

LEMMA OutcomeStep == Types /\ OutcomeInv /\ [Next]_vars => OutcomeInv'
<1> SUFFICES ASSUME Types, OutcomeInv, [Next]_vars PROVE OutcomeInv'
  OBVIOUS
<1> USE DEF At, OutcomeInv, Living, Ending, Outcome, OutcomeIsRecorded
<1>1. CASE AppendEvent \/ ToggleStopFile \/ UNCHANGED vars
  BY <1>1 DEF AppendEvent, ToggleStopFile, vars, files, own, log, history
<1>2. CASE InitializeCampaign
  <2>1. state'.lastCompletedStage # "reporting" \/ launch.stage = NoStage
    <3>1. CASE Exists(stateFile)
      BY <1>2, <3>1, ResumedBeforeReporting DEF InitializeCampaign, Types, TypeOK
    <3>2. CASE ~Exists(stateFile)
      BY <1>2, <3>2, StageNames DEF InitializeCampaign, InitialState, NoState
    <3> QED
      BY <3>1, <3>2
  <2> QED
    BY <1>2, <2>1 DEF InitializeCampaign, files, log, history
<1>3. CASE PrepareAndWriteState
  BY <1>3 DEF PrepareAndWriteState, own, log, history
<1>4. CASE Begin \/ CloseStatic \/ BeginVerification \/ ConfirmLeads \/ CloseConfirmation
  BY <1>4, SharedSteps, StageNames
  DEF Begin, CloseStatic, BeginVerification, ConfirmLeads, CloseConfirmation
<1>5. CASE LocalLive \/ CloseLocalLive \/ TestSynthesis \/ CloseTestSynthesis \/ ClosePackets
  BY <1>5, SharedSteps, StageNames
  DEF LocalLive, CloseLocalLive, TestSynthesis, CloseTestSynthesis, ClosePackets
<1>6. CASE Assess \/ FocusedClosure \/ CloseClosure \/ CloseAssessment
  BY <1>6, SharedSteps, StageNames
  DEF Assess, FocusedClosure, CloseClosure, CloseAssessment
<1>7. CASE Report
  <2>1. StartStage("reporting", "set_completed") /\ pc = "reporting"
    BY <1>7, ReportingNotSkipped DEF Report
  <2> QED
    BY <2>1, SharedSteps, StageNames
<1>8. CASE CloseReporting
  BY <1>8, SharedSteps, StageNames DEF CloseReporting
<1>9. CASE LeaveLoop \/ SkipVerification
  BY <1>9, SharedSteps, StageNames DEF LeaveLoop, SkipVerification
<1>10. CASE Execute \/ Judge \/ BuildPackets \/ AssessPanel
  <2>1. /\ state'.phase = stateFile'.phase
        /\ state'.lastCompletedStage = state.lastCompletedStage
        /\ stateFile'.lastCompletedStage = stateFile.lastCompletedStage
        /\ UNCHANGED <<launch, logged, result>>
    <3>1. CASE Judge
      <4>1. PICK cost \in 0..MaxCallCost :
              state' = [state EXCEPT !.phase = "judging", !.cost = @ + cost]
        BY <3>1 DEF Judge
      <4> QED
        BY <3>1, <4>1 DEF Judge, Types, TypeOK, StateRecord, log
    <3>2. CASE Execute \/ BuildPackets \/ AssessPanel
      BY <3>2 DEF Execute, BuildPackets, AssessPanel, SetPhase, Types, TypeOK, StateRecord,
                  log, history
    <3> QED
      BY <1>10, <3>1, <3>2
  <2> QED
    BY <1>10, <2>1 DEF Execute, Judge, BuildPackets, AssessPanel, SetPhase
<1>11. CASE SeeKillSwitch
  <2>1. /\ state' = stateFile' /\ pc = "static_loop" /\ pc' = "close_static"
        /\ stateFile'.lastCompletedStage = stateFile.lastCompletedStage
        /\ UNCHANGED <<launch, result>>
    BY <1>11 DEF SeeKillSwitch, Failed, Types, TypeOK, StateRecord
  <2> QED
    BY <2>1
<1>12. CASE Resurface
  <2>1. /\ stateFile'.lastCompletedStage = stateFile.lastCompletedStage
        /\ pc = "static_loop" /\ pc' = "resurfaced" /\ UNCHANGED <<state, launch, result>>
    BY <1>12 DEF Resurface, Types, TypeOK, StateRecord, own, history
  <2> QED
    BY <2>1
<1>13. CASE Plan
  <2>1. /\ stateFile' = [stateFile EXCEPT !.phase = "planning"]
        /\ pc \in {"static_loop", "resurfaced"} /\ pc' = "execute"
        /\ UNCHANGED <<launch, result>>
    BY <1>13 DEF Plan
  <2>0. PICK cost \in 0..MaxCallCost :
          state' = [state EXCEPT !.phase = "planning", !.cost = @ + cost]
    BY <1>13 DEF Plan
  <2>2. /\ stateFile'.lastCompletedStage = stateFile.lastCompletedStage
        /\ state'.lastCompletedStage = state.lastCompletedStage
        /\ state'.phase = "planning" /\ stateFile'.phase = "planning"
    BY <2>0, <2>1 DEF Types, TypeOK, StateRecord
  <2> QED
    BY <2>1, <2>2
<1>14. CASE CountIteration \/ SaveMemory \/ PassGate \/ AbortAtGate \/ WriteReport \/ LogOutcome
  <2>1. CASE CountIteration
    BY <2>1 DEF CountIteration, Types, TypeOK, StateRecord, log, history
  <2>2. CASE SaveMemory \/ PassGate \/ AbortAtGate \/ WriteReport \/ LogOutcome
    BY <2>2 DEF SaveMemory, PassGate, AbortAtGate, WriteReport, LogOutcome, files, own, log,
                history
  <2> QED
    BY <1>14, <2>1, <2>2
<1>15. CASE SetCompleted
  <2>1. CASE state.phase = "failed"
    BY <1>15, <2>1 DEF SetCompleted, log, history
  <2>2. CASE state.phase # "failed"
    <3>1. /\ state' = stateFile' /\ stateFile'.phase = "completed"
          /\ stateFile'.lastCompletedStage = stateFile.lastCompletedStage
      BY <1>15, <2>2 DEF SetCompleted, Types, TypeOK, StateRecord
    <3> QED
      BY <1>15, <3>1 DEF SetCompleted, log, history
  <2> QED
    BY <2>1, <2>2
<1>16. CASE Return \/ ReturnAlreadyCompleted \/ Catch \/ Crash
  BY <1>16 DEF Return, ReturnAlreadyCompleted, Catch, Crash, End, files
<1>17. CASE Launch
  BY <1>17 DEF Launch
<1>18. CASE Throw
  BY <1>18 DEF Throw, End, files
<1> QED
  BY <1>1, <1>2, <1>3, <1>4, <1>5, <1>6, <1>7, <1>8, <1>9, <1>10, <1>11, <1>12, <1>13,
     <1>14, <1>15, <1>16, <1>17, <1>18
  DEF Next, PipelineStep

-----------------------------------------------------------------------------
(* The tail of a resumed campaign.  Along the pipeline the checkpoint is    *)
(* either still the one before the resume point, or behind a stage that     *)
(* this life has run: whether the stage at hand is skipped then depends on  *)
(* the resume point only.                                                   *)

First == StageIndex(FirstStage)

\* How far the checkpoint is.
Reached == IF state.lastCompletedStage = NoStage THEN 0
           ELSE StageIndex(state.lastCompletedStage)

\* The stages whose events are in the stream, or about to be appended.
Begun == started \cup (IF pending.kind = "stage_started" THEN {pending.stage} ELSE {})
Ended == completed \cup (IF pending.kind = "stage_completed" THEN {pending.stage} ELSE {})

StaticPlaces == {"static_loop", "resurfaced", "execute", "judge", "count", "save_memory",
                 "close_static"}
Verifying == {"build_packets", "confirmation", "close_confirmation", "gate", "local_live",
              "close_local_live", "test_synthesis", "close_test_synthesis", "close_packets"}
BehindGate == {"local_live", "close_local_live", "test_synthesis", "close_test_synthesis",
               "close_packets"}
Assessing == {"assess", "closure", "close_closure", "close_assessment"}
ReportPlaces == {"set_completed", "log_outcome", "write_report", "close_reporting"}
BehindAssessment == {"reporting", "return"} \cup ReportPlaces
BehindLanes == {"assessment"} \cup Assessing \cup BehindAssessment

\* The stage that is asked about next, or under way.
Ahead ==
    CASE pc \in {"prepare", "preflight"} \cup StaticPlaces          -> 1
      [] pc \in {"verification", "build_packets", "confirmation"}   -> 2
      [] pc = "close_confirmation"                                  -> 3
      [] pc \in {"gate", "local_live", "close_local_live"}          -> 4
      [] pc \in {"test_synthesis", "close_test_synthesis"}          -> 5
      [] pc \in {"close_packets", "assessment", "assess", "closure",
                 "close_closure"}                                   -> 6
      [] pc = "close_assessment"                                    -> 7
      [] pc \in {"reporting"} \cup ReportPlaces                     -> 8
      [] OTHER                                                      -> 9

Checkpointed ==
    Living /\ launch.stage # NoStage =>
        /\ Reached = 0 \/ First <= Reached + 1
        /\ Reached < First \/ Reached < Ahead

\* What has begun when the pipeline is somewhere.
Places ==
    /\ pc \in StaticPlaces => "static" \in Begun
    /\ pc = "build_packets" => "verification_packet_build" \in Begun
    /\ pc = "close_confirmation" => "focused_lead_confirmation" \in Begun
    /\ pc = "close_local_live" => "local_live" \in Begun
    /\ pc = "close_test_synthesis" => "test_synthesis" \in Begun
    /\ pc = "assess" => "assessment" \in Begun
    /\ pc = "close_closure" => "focused_closure" \in Begun
    /\ pc \in ReportPlaces => "reporting" \in Begun
    /\ pc \in Verifying =>
          /\ "verification_packet_build" \in Begun \/ First > 2
          /\ state.phase # "failed"
    /\ pc \in Assessing =>
          "assessment" \in Begun \/ First > 7 \/ state.phase = "failed"
    /\ pc = "assess" => state.phase # "failed"

\* A stage is behind the pipeline for good.
Settled(s) == s \in Ended \/ StageIndex(s) < First \/ s \in LeftOut
SettledOrFailed(s) == Settled(s) \/ state.phase = "failed"

TailSettled ==
    /\ pc \in {"verification"} \cup Verifying \cup BehindLanes => Settled("static")
    /\ pc \in BehindLanes => SettledOrFailed("verification_packet_build")
    /\ pc \in {"gate"} \cup BehindGate \cup BehindLanes =>
          SettledOrFailed("focused_lead_confirmation")
    /\ pc \in {"test_synthesis", "close_test_synthesis", "close_packets"} \cup BehindLanes =>
          SettledOrFailed("local_live")
    /\ pc \in {"close_packets"} \cup BehindLanes => SettledOrFailed("test_synthesis")
    /\ pc \in {"close_assessment"} \cup BehindAssessment => SettledOrFailed("focused_closure")
    /\ pc \in BehindAssessment => SettledOrFailed("assessment")
    /\ pc = "return" => Settled("reporting")

\* The gate is reached unless the life verifies nothing.
GatePassedBy ==
    /\ pc \in BehindGate => gate # "not_reached"
    /\ pc \in BehindLanes \ {"return"} /\ gate = "not_reached" =>
          lanes = {} \/ state.phase = "failed" \/ First > 5

InTail ==
    /\ \A s \in Begun : StageIndex(s) >= First
    /\ "focused_closure" \in Begun => "assessment" \in started

CompletedTail ==
    result = "completed" =>
        \A s \in Stage \ LeftOut : StageIndex(s) >= First => s \in completed

TailInv ==
    /\ Checkpointed
    /\ Places
    /\ TailSettled
    /\ GatePassedBy
    /\ InTail
    /\ CompletedTail

LEMMA StageNumbers ==
    /\ StageIndex("static") = 1 /\ StageIndex("verification_packet_build") = 2
    /\ StageIndex("focused_lead_confirmation") = 3 /\ StageIndex("local_live") = 4
    /\ StageIndex("test_synthesis") = 5 /\ StageIndex("focused_closure") = 6
    /\ StageIndex("assessment") = 7 /\ StageIndex("reporting") = 8
<1>1. /\ STAGES[1] = "static" /\ STAGES[2] = "verification_packet_build"
      /\ STAGES[3] = "focused_lead_confirmation" /\ STAGES[4] = "local_live"
      /\ STAGES[5] = "test_synthesis" /\ STAGES[6] = "focused_closure"
      /\ STAGES[7] = "assessment" /\ STAGES[8] = "reporting"
  BY DEF STAGES
<1>2. \A s \in Stage : StageIndex(s) \in 1..8 /\ STAGES[StageIndex(s)] = s
  BY StageIndexType
<1>3. \A i \in 1..8 : i \in {1, 2, 3, 4, 5, 6, 7, 8}
  OBVIOUS
<1>4. \A s \in Stage : \A i \in 1..8 : STAGES[i] = s => StageIndex(s) = i
  BY <1>1, <1>2, <1>3
<1> QED
  BY <1>1, <1>4, StageNames

LEMMA FirstType ==
    ASSUME Types
    PROVE  /\ First \in 1..8 /\ Reached \in 0..8 /\ FirstStage \in Stage
           /\ launch.stage = NoStage => First = 1
<1>1. FirstStage \in Stage
  BY StageNames DEF FirstStage, Types, TypeOK, ResumePoints
<1>2. state.lastCompletedStage \in Stage \cup {NoStage}
  BY DEF Types, TypeOK, StateRecord
<1> QED
  BY <1>1, <1>2, StageIndexType, StageNumbers DEF First, Reached, FirstStage

\* Whether a stage ahead is skipped.
LEMMA SkippedBeforeFirst ==
    ASSUME Types, Checkpointed, Living, NEW s \in Stage, StageIndex(s) >= Ahead, Ahead \in 1..8
    PROVE  ShouldSkip(s) <=> StageIndex(s) < First
<1>0. First \in 1..8 /\ Reached \in 0..8 /\ StageIndex(s) \in 1..8 /\ FirstStage \in Stage
  BY FirstType, StageIndexType
<1>1. CASE launch.stage = NoStage
  BY <1>0, <1>1, FirstType DEF ShouldSkip
<1>2. CASE launch.stage # NoStage
  <2>1. (Reached = 0 \/ First <= Reached + 1) /\ (Reached < First \/ Reached < Ahead)
    BY <1>2 DEF Checkpointed
  <2>2. CASE state.lastCompletedStage = NoStage
    <3>1. First = StageIndex(launch.stage) /\ (launch.stage = "static" => First = 1)
      BY <1>2, StageNumbers DEF First, FirstStage
    <3> QED
      BY <1>0, <1>2, <2>2, <3>1 DEF ShouldSkip
  <2>3. CASE state.lastCompletedStage # NoStage
    <3>1. Reached = StageIndex(state.lastCompletedStage) /\ Reached # 0
      BY <2>3, StageIndexType DEF Reached, Types, TypeOK, StateRecord
    <3> QED
      BY <1>0, <1>2, <2>1, <2>3, <3>1 DEF ShouldSkip
  <2> QED
    BY <2>2, <2>3
<1> QED
  BY <1>1, <1>2

\* What the shared steps change of all this.
LEMMA StageSteps ==
    ASSUME Types, pending = NoEvent, NEW s \in Stage, NEW next
    PROVE  /\ Goto(next) =>
                /\ pc' = next /\ UNCHANGED <<Begun, Ended, Reached, state>>
           /\ StartStage(s, next) =>
                /\ pc' = next /\ Begun' = Begun \cup {s} /\ UNCHANGED <<Ended, Reached>>
                /\ state'.phase = state.phase
           /\ CompleteStage(s, next) =>
                /\ pc' = next /\ Ended' = Ended \cup {s} /\ UNCHANGED Begun
                /\ Reached' = StageIndex(s) /\ state'.phase = state.phase
           /\ Goto(next) \/ StartStage(s, next) \/ CompleteStage(s, next) =>
                UNCHANGED <<started, completed, launch, lanes, gate, result>>
<1>1. Goto(next) \/ StartStage(s, next) \/ CompleteStage(s, next) =>
        pc' = next /\ UNCHANGED <<started, completed, launch, lanes, gate, result>>
  BY DEF Goto, StartStage, CompleteStage, own, log, history
<1>2. Goto(next) => UNCHANGED <<state, pending>>
  BY DEF Goto, own, log
<1>3. StartStage(s, next) => pending' = [kind |-> "stage_started", stage |-> s]
  BY DEF StartStage
<1>4. CompleteStage(s, next) => pending' = [kind |-> "stage_completed", stage |-> s]
  BY DEF CompleteStage
<1>5. StartStage(s, next) \/ CompleteStage(s, next) => state'.phase = state.phase
  BY DEF StartStage, CompleteStage, Types, TypeOK, StateRecord
<1>6. StartStage(s, next) => state'.lastCompletedStage = state.lastCompletedStage
  BY DEF StartStage, Types, TypeOK, StateRecord
<1>7. CompleteStage(s, next) => state'.lastCompletedStage = s
  BY DEF CompleteStage, Types, TypeOK, StateRecord
<1> QED
  BY <1>1, <1>2, <1>3, <1>4, <1>5, <1>6, <1>7, StageNames DEF Begun, Ended, Reached, NoEvent

\* A life that resumes at a stage has its checkpoint right before that stage.
LEMMA ResumedBefore ==
    ASSUME NEW s \in StateRecord, NEW l \in ResumePoints, NEW limits \in Limits,
           l.stage # NoStage
    PROVE  Resumed(s, l, limits).lastCompletedStage = CheckpointBefore(l.stage)
<1> DEFINE c == CheckpointBefore(l.stage)
<1>1. l # NotResumed /\ FirstStageForResume(l) = l.stage
  BY DEF NotResumed, FirstStageForResume
<1>2. Continued(s, l, limits) \in StateRecord
  <2>1. ResumedPhase(s, l) \in Phase \cup {NoPhase}
    BY DEF ResumedPhase, StateRecord, Phase
  <2> QED
    BY <2>1 DEF Continued, Raised, Limits, StateRecord
<1>3. Resumed(s, l, limits) = [Continued(s, l, limits) EXCEPT !.lastCompletedStage = c,
                                             !.currentStage = NoStage]
  BY <1>1 DEF Resumed, LeftAsIs
<1> HIDE DEF c
<1>4. Resumed(s, l, limits).lastCompletedStage = c
  BY <1>2, <1>3 DEF StateRecord
<1> QED
  BY <1>4 DEF c

LEMMA IndexBefore ==
    ASSUME NEW s \in Stage
    PROVE  /\ StageIndex(s) = 1 => CheckpointBefore(s) = NoStage
           /\ StageIndex(s) # 1 => /\ CheckpointBefore(s) # NoStage
                                   /\ StageIndex(CheckpointBefore(s)) = StageIndex(s) - 1
<1>1. StageIndex(s) \in 1..8
  BY StageIndexType
<1>2. ASSUME NEW i \in 1..7 PROVE STAGES[i] \in Stage /\ StageIndex(STAGES[i]) = i
  <2>1. i \in {1, 2, 3, 4, 5, 6, 7}
    OBVIOUS
  <2>2. /\ STAGES[1] = "static" /\ STAGES[2] = "verification_packet_build"
        /\ STAGES[3] = "focused_lead_confirmation" /\ STAGES[4] = "local_live"
        /\ STAGES[5] = "test_synthesis" /\ STAGES[6] = "focused_closure"
        /\ STAGES[7] = "assessment"
    BY DEF STAGES
  <2> QED
    BY <2>1, <2>2, StageNumbers, StageNames
<1> QED
  BY <1>1, <1>2, StageNames DEF CheckpointBefore

\* Nothing of the tail depends on more than this.
LEMMA SameLaunch ==
    ASSUME UNCHANGED <<launch, lanes, gate>>
    PROVE  UNCHANGED <<First, FirstStage, LeftOut>>
BY DEF First, FirstStage, LeftOut

LEMMA TailInit == Init => TailInv
BY DEF Init, TailInv, Living, Checkpointed, Places, TailSettled, GatePassedBy, InTail, CompletedTail,
       Begun, Ended, NoEvent, StaticPlaces, Verifying, BehindGate, Assessing, ReportPlaces,
       BehindAssessment, BehindLanes

LEMMA TailStep == Types /\ KillInv /\ OutcomeInv /\ TailInv /\ [Next]_vars => TailInv'
<1> SUFFICES ASSUME Types, KillInv, OutcomeInv, TailInv, [Next]_vars PROVE TailInv'
  OBVIOUS
<1> USE DEF At, Living
<1>0. First \in 1..8 /\ Reached \in 0..8
  BY FirstType
<1>k. /\ pc # "down" => result = "none"
      /\ pc = "down" => pending = NoEvent
  BY DEF KillInv
<1>1. CASE ToggleStopFile \/ UNCHANGED vars
  <2>1. UNCHANGED <<pc, stateFile, own, log, history>>
    BY <1>1 DEF ToggleStopFile, vars, files
  <2>2. UNCHANGED <<First, FirstStage, LeftOut, Reached, Begun, Ended, Ahead>>
    BY <2>1 DEF own, log, history, First, FirstStage, LeftOut, Reached, Begun, Ended, Ahead
  <2> QED
    BY <2>1, <2>2
    DEF own, log, history, TailInv, Checkpointed, Places, TailSettled, GatePassedBy, InTail,
        CompletedTail, Settled, SettledOrFailed
<1>2. CASE AppendEvent
  <2>1. /\ UNCHANGED <<pc, stateFile, state, launch, lanes, gate, result>>
        /\ started \subseteq started' /\ result = "none"
    BY <1>2, <1>k DEF AppendEvent, files, own, history
  <2>2. UNCHANGED <<Begun, Ended>>
    BY <1>2 DEF AppendEvent, Begun, Ended, NoEvent
  <2>3. UNCHANGED <<First, FirstStage, LeftOut, Reached, Ahead>>
    BY <2>1 DEF First, FirstStage, LeftOut, Reached, Ahead
  <2> QED
    BY <2>1, <2>2, <2>3
    DEF TailInv, Checkpointed, Places, TailSettled, GatePassedBy, InTail, CompletedTail,
        Settled, SettledOrFailed
<1>3. CASE Begin
  BY <1>3, <1>0, <1>k, StageSteps, StageNumbers, StageNames, SkippedBeforeFirst, SameLaunch
  DEF Begin,
       TailInv, Checkpointed, Places, TailSettled, GatePassedBy, InTail, CompletedTail, Settled,
       SettledOrFailed, StaticPlaces, Verifying, BehindGate, Assessing, ReportPlaces,
       BehindAssessment, BehindLanes, Ahead
<1>4. CASE LeaveLoop \/ CloseStatic
  BY <1>4, <1>0, <1>k, StageSteps, StageNumbers, StageNames, SkippedBeforeFirst, SameLaunch
  DEF LeaveLoop, CloseStatic,
       TailInv, Checkpointed, Places, TailSettled, GatePassedBy, InTail, CompletedTail, Settled,
       SettledOrFailed, StaticPlaces, Verifying, BehindGate, Assessing, ReportPlaces,
       BehindAssessment, BehindLanes, Ahead
<1>5. CASE SkipVerification
  BY <1>5, <1>0, <1>k, StageSteps, StageNumbers, StageNames, SkippedBeforeFirst, SameLaunch
  DEF SkipVerification, VerificationRuns, LeftOut,
       TailInv, Checkpointed, Places, TailSettled, GatePassedBy, InTail, CompletedTail, Settled,
       SettledOrFailed, StaticPlaces, Verifying, BehindGate, Assessing, ReportPlaces,
       BehindAssessment, BehindLanes, Ahead
<1>6. CASE BeginVerification
  BY <1>6, <1>0, <1>k, StageSteps, StageNumbers, StageNames, SkippedBeforeFirst, SameLaunch
  DEF BeginVerification, VerificationRuns,
       TailInv, Checkpointed, Places, TailSettled, GatePassedBy, InTail, CompletedTail, Settled,
       SettledOrFailed, StaticPlaces, Verifying, BehindGate, Assessing, ReportPlaces,
       BehindAssessment, BehindLanes, Ahead
<1>7. CASE ConfirmLeads \/ CloseConfirmation
  BY <1>7, <1>0, <1>k, StageSteps, StageNumbers, StageNames, SkippedBeforeFirst, SameLaunch
  DEF ConfirmLeads, CloseConfirmation,
       TailInv, Checkpointed, Places, TailSettled, GatePassedBy, InTail, CompletedTail, Settled,
       SettledOrFailed, StaticPlaces, Verifying, BehindGate, Assessing, ReportPlaces,
       BehindAssessment, BehindLanes, Ahead
<1>8. CASE LocalLive \/ CloseLocalLive
  BY <1>8, <1>0, <1>k, StageSteps, StageNumbers, StageNames, SkippedBeforeFirst, SameLaunch
  DEF LocalLive, CloseLocalLive, RunsLane, LeftOut,
       TailInv, Checkpointed, Places, TailSettled, GatePassedBy, InTail, CompletedTail, Settled,
       SettledOrFailed, StaticPlaces, Verifying, BehindGate, Assessing, ReportPlaces,
       BehindAssessment, BehindLanes, Ahead
<1>9. CASE TestSynthesis \/ CloseTestSynthesis
  BY <1>9, <1>0, <1>k, StageSteps, StageNumbers, StageNames, SkippedBeforeFirst, SameLaunch
  DEF TestSynthesis, CloseTestSynthesis, RunsLane, LeftOut,
       TailInv, Checkpointed, Places, TailSettled, GatePassedBy, InTail, CompletedTail, Settled,
       SettledOrFailed, StaticPlaces, Verifying, BehindGate, Assessing, ReportPlaces,
       BehindAssessment, BehindLanes, Ahead
<1>10. CASE ClosePackets
  BY <1>10, <1>0, <1>k, StageSteps, StageNumbers, StageNames, SkippedBeforeFirst, SameLaunch
  DEF ClosePackets, Begun, NoEvent,
       TailInv, Checkpointed, Places, TailSettled, GatePassedBy, InTail, CompletedTail, Settled,
       SettledOrFailed, StaticPlaces, Verifying, BehindGate, Assessing, ReportPlaces,
       BehindAssessment, BehindLanes, Ahead
<1>11. CASE Assess
  BY <1>11, <1>0, <1>k, StageSteps, StageNumbers, StageNames, SkippedBeforeFirst, SameLaunch
  DEF Assess,
       TailInv, Checkpointed, Places, TailSettled, GatePassedBy, InTail, CompletedTail, Settled,
       SettledOrFailed, StaticPlaces, Verifying, BehindGate, Assessing, ReportPlaces,
       BehindAssessment, BehindLanes, Ahead
<1>12. CASE FocusedClosure \/ CloseClosure
  BY <1>12, <1>0, <1>k, StageSteps, StageNumbers, StageNames, SkippedBeforeFirst, SameLaunch
  DEF FocusedClosure, CloseClosure, Begun, NoEvent,
       TailInv, Checkpointed, Places, TailSettled, GatePassedBy, InTail, CompletedTail, Settled,
       SettledOrFailed, StaticPlaces, Verifying, BehindGate, Assessing, ReportPlaces,
       BehindAssessment, BehindLanes, Ahead
<1>13. CASE CloseAssessment
  BY <1>13, <1>0, <1>k, StageSteps, StageNumbers, StageNames, SkippedBeforeFirst, SameLaunch
  DEF CloseAssessment, Begun, NoEvent,
       TailInv, Checkpointed, Places, TailSettled, GatePassedBy, InTail, CompletedTail, Settled,
       SettledOrFailed, StaticPlaces, Verifying, BehindGate, Assessing, ReportPlaces,
       BehindAssessment, BehindLanes, Ahead
<1>14. CASE Report \/ CloseReporting
  BY <1>14, <1>0, <1>k, StageSteps, StageNumbers, StageNames, SkippedBeforeFirst, SameLaunch, ReportingNotSkipped
  DEF Report, CloseReporting,
       TailInv, Checkpointed, Places, TailSettled, GatePassedBy, InTail, CompletedTail, Settled,
       SettledOrFailed, StaticPlaces, Verifying, BehindGate, Assessing, ReportPlaces,
       BehindAssessment, BehindLanes, Ahead
<1>15. CASE InitializeCampaign
  <2>1. /\ pc = "initialize" /\ pc' = "prepare" /\ pending = NoEvent
        /\ UNCHANGED <<launch, lanes, gate, result, started, completed, pending>>
    BY <1>15 DEF InitializeCampaign, log, history
  <2>2. launch.stage # NoStage => Reached' = 0 \/ Reached' = First - 1
    <3> SUFFICES ASSUME launch.stage # NoStage PROVE Reached' = 0 \/ Reached' = First - 1
      OBVIOUS
    <3>1. PICK limits \in Limits :
              state' = IF Exists(stateFile) THEN Resumed(stateFile, launch, limits)
                                            ELSE InitialState(limits)
      BY <1>15 DEF InitializeCampaign
    <3>2. stateFile \in StateRecord /\ launch \in ResumePoints /\ launch.stage \in Stage
      BY DEF Types, TypeOK, ResumePoints
    <3>3. CASE Exists(stateFile)
      <4>1. state'.lastCompletedStage = CheckpointBefore(launch.stage)
        BY <3>1, <3>2, <3>3, ResumedBefore
      <4> QED
        BY <3>2, <4>1, IndexBefore, StageIndexType DEF Reached, First, FirstStage
    <3>4. CASE ~Exists(stateFile)
      BY <3>1, <3>4 DEF InitialState, NoState, Reached
    <3> QED
      BY <3>3, <3>4
  <2>3. UNCHANGED <<First, FirstStage, LeftOut, Begun, Ended>>
    BY <2>1 DEF First, FirstStage, LeftOut, Begun, Ended
  <2> QED
    BY <1>0, <1>k, <2>1, <2>2, <2>3
    DEF TailInv, Checkpointed, Places, TailSettled, GatePassedBy, InTail, CompletedTail,
        StaticPlaces, Verifying, BehindGate, Assessing, ReportPlaces, BehindAssessment,
        BehindLanes, Ahead
<1>16. CASE PrepareAndWriteState \/ SaveMemory \/ LogOutcome \/ WriteReport
  <2>1. /\ UNCHANGED <<state, launch, lanes, gate, result, started, completed, pending>>
        /\ \/ pc = "prepare" /\ pc' = "preflight"
           \/ pc = "save_memory" /\ pc' = "static_loop"
           \/ pc = "log_outcome" /\ pc' = "write_report"
           \/ pc = "write_report" /\ pc' = "close_reporting"
    BY <1>16 DEF PrepareAndWriteState, SaveMemory, LogOutcome, WriteReport, own, log, history
  <2>2. UNCHANGED <<First, FirstStage, LeftOut, Begun, Ended, Reached>>
    BY <2>1 DEF First, FirstStage, LeftOut, Begun, Ended, Reached
  <2> QED
    BY <1>0, <1>k, <2>1, <2>2
    DEF TailInv, Checkpointed, Places, TailSettled, GatePassedBy, InTail, CompletedTail, Settled,
        SettledOrFailed, StaticPlaces, Verifying, BehindGate, Assessing, ReportPlaces,
        BehindAssessment, BehindLanes, Ahead
<1>17. CASE SeeKillSwitch \/ Resurface \/ Plan \/ Execute \/ Judge \/ CountIteration
  <2>1. /\ UNCHANGED <<launch, lanes, gate, result, started, completed, pending>>
        /\ pc \in {"static_loop", "resurfaced", "execute", "judge", "count"}
        /\ pc' \in {"close_static", "resurfaced", "execute", "judge", "count", "save_memory"}
    BY <1>17 DEF SeeKillSwitch, Resurface, Plan, Execute, Judge, CountIteration, SetPhase, own,
                 log, history
  <2>2. state'.lastCompletedStage = state.lastCompletedStage
    BY <1>17 DEF SeeKillSwitch, Resurface, Plan, Execute, Judge, CountIteration, SetPhase, own,
                 Failed, Types, TypeOK, StateRecord, OutcomeInv
  <2>3. UNCHANGED <<First, FirstStage, LeftOut, Begun, Ended, Reached>>
    BY <2>1, <2>2 DEF First, FirstStage, LeftOut, Begun, Ended, Reached
  <2> QED
    BY <1>0, <1>k, <2>1, <2>3
    DEF TailInv, Checkpointed, Places, TailSettled, GatePassedBy, InTail, CompletedTail,
        StaticPlaces, Verifying, BehindGate, Assessing, ReportPlaces,
        BehindAssessment, BehindLanes, Ahead
<1>18. CASE BuildPackets \/ AssessPanel \/ SetCompleted
  <2>1. /\ UNCHANGED <<launch, lanes, gate, result, started, completed, pending>>
        /\ state'.lastCompletedStage = state.lastCompletedStage
        /\ state'.phase = "failed" <=> state.phase = "failed"
        /\ \/ pc = "build_packets" /\ pc' = "confirmation"
           \/ pc = "assess" /\ pc' = "closure"
           \/ pc = "set_completed" /\ pc' = "log_outcome"
    BY <1>18 DEF BuildPackets, AssessPanel, SetCompleted, SetPhase, own, log, history, Types,
                 TypeOK, StateRecord, OutcomeInv, TailInv, Places, Verifying
  <2>3. UNCHANGED <<First, FirstStage, LeftOut, Begun, Ended, Reached>>
    BY <2>1 DEF First, FirstStage, LeftOut, Begun, Ended, Reached
  <2> QED
    BY <1>0, <1>k, <2>1, <2>3
    DEF TailInv, Checkpointed, Places, TailSettled, GatePassedBy, InTail, CompletedTail, Settled,
        SettledOrFailed, StaticPlaces, Verifying, BehindGate, Assessing, ReportPlaces,
        BehindAssessment, BehindLanes, Ahead
<1>19. CASE PassGate \/ AbortAtGate
  <2>1. /\ UNCHANGED <<state, launch, lanes, result, started, completed, pending>>
        /\ pc = "gate"
        /\ \/ gate' = "passed" /\ pc' = "local_live"
           \/ gate' = "aborted" /\ pc' = "close_packets"
    BY <1>19 DEF PassGate, AbortAtGate, own, log
  <2>2. UNCHANGED <<First, FirstStage, Begun, Ended, Reached>>
    BY <2>1 DEF First, FirstStage, Begun, Ended, Reached
  <2>3. /\ pc' = "close_packets" => {"local_live", "test_synthesis"} \subseteq LeftOut'
        /\ {"static", "focused_lead_confirmation"} \cap LeftOut
              \subseteq {"static", "focused_lead_confirmation"} \cap LeftOut'
    BY <2>1 DEF LeftOut
  <2> QED
    BY <1>0, <1>k, <2>1, <2>2, <2>3
    DEF TailInv, Checkpointed, Places, TailSettled, GatePassedBy, InTail, CompletedTail, Settled,
        SettledOrFailed, StaticPlaces, Verifying, BehindGate, Assessing, ReportPlaces,
        BehindAssessment, BehindLanes, Ahead
<1>20. CASE Return
  <2>1. /\ pc = "return" /\ pc' = "down" /\ pending = NoEvent /\ pending' = NoEvent
        /\ UNCHANGED <<launch, lanes, gate, started, completed>>
        /\ result' = Outcome
    BY <1>20 DEF Return, End
  <2>2. UNCHANGED <<First, FirstStage, LeftOut, Begun>>
    BY <2>1 DEF First, FirstStage, LeftOut, Begun
  <2>3. CompletedTail'
    <3> SUFFICES ASSUME state.phase # "failed", NEW s \in Stage, s \notin LeftOut,
                        StageIndex(s) >= First
                 PROVE  s \in completed
      BY <2>1, <2>2 DEF CompletedTail, Outcome
    <3>1. /\ Settled("static") /\ Settled("reporting")
          /\ Settled("verification_packet_build") /\ Settled("focused_lead_confirmation")
          /\ Settled("local_live") /\ Settled("test_synthesis")
          /\ Settled("focused_closure") /\ Settled("assessment")
      <4>1. TailSettled
        BY DEF TailInv
      <4>2. /\ Settled("static") /\ Settled("reporting")
            /\ SettledOrFailed("verification_packet_build")
            /\ SettledOrFailed("focused_lead_confirmation")
            /\ SettledOrFailed("local_live") /\ SettledOrFailed("test_synthesis")
            /\ SettledOrFailed("focused_closure") /\ SettledOrFailed("assessment")
        BY <2>1, <4>1 DEF TailSettled, BehindLanes, BehindAssessment
      <4> QED
        BY <4>2 DEF SettledOrFailed
    <3>2. Settled(s)
      BY <3>1, StageNames
    <3> QED
      BY <1>0, <2>1, <3>2, StageIndexType DEF Settled, Ended, NoEvent
  <2> QED
    BY <2>1, <2>2, <2>3
    DEF TailInv, Checkpointed, Places, TailSettled, GatePassedBy, InTail, StaticPlaces, Verifying,
        BehindGate, Assessing, ReportPlaces, BehindAssessment, BehindLanes
<1>21. CASE ReturnAlreadyCompleted \/ Catch \/ Throw \/ Crash
  <2>1. /\ pc' \in {"down", "catch"} /\ pending' = NoEvent
        /\ UNCHANGED <<launch, lanes, gate, started, completed>>
        /\ result' \in {"none", "already_completed", "threw", "died"}
    BY <1>21, <1>k DEF ReturnAlreadyCompleted, Catch, Throw, Crash, End
  <2>2. UNCHANGED <<First, FirstStage, LeftOut>> /\ Begun' \subseteq Begun
    BY <2>1 DEF First, FirstStage, LeftOut, Begun, NoEvent
  <2> QED
    BY <2>1, <2>2
    DEF TailInv, Checkpointed, Places, TailSettled, GatePassedBy, InTail, CompletedTail,
        StaticPlaces, Verifying, BehindGate, Assessing, ReportPlaces, BehindAssessment, BehindLanes
<1>22. CASE Launch
  <2>1. /\ pc' = "initialize" /\ started' = {} /\ pending' = NoEvent /\ result' = "none"
    BY <1>22, <1>k DEF Launch
  <2>2. Begun' = {}
    BY <2>1 DEF Begun, NoEvent
  <2> QED
    BY <2>1, <2>2
    DEF TailInv, Checkpointed, Places, TailSettled, GatePassedBy, InTail, CompletedTail,
        StaticPlaces, Verifying, BehindGate, Assessing, ReportPlaces, BehindAssessment, BehindLanes
<1> QED
  BY <1>1, <1>2, <1>3, <1>4, <1>5, <1>6, <1>7, <1>8, <1>9, <1>10, <1>11, <1>12, <1>13,
     <1>14, <1>15, <1>16, <1>17, <1>18, <1>19, <1>20, <1>21, <1>22
  DEF Next, PipelineStep

-----------------------------------------------------------------------------
(* A completed campaign.  A life without a resume point either finds the    *)
(* campaign completed and returns, or has a campaign in hand that is not.   *)

Plain == launch.resumeAt = "auto" /\ launch.stage = NoStage

ReopenInv ==
    Plain =>
        /\ Living /\ pc \notin {"prepare", "preflight"} \cup Ending => state.phase # "completed"
        /\ pc = "prepare" /\ stateFile.phase = "completed" => state.phase = "completed"
        /\ pc = "resurfaced" => stateFile.phase # "completed"

\* What the shared steps change of the phase.
LEMMA PhaseSteps ==
    ASSUME Types, OutcomeInv, Living, pc \notin {"prepare", "resurfaced"}, NEW s \in Stage, NEW next
    PROVE  Goto(next) \/ StartStage(s, next) \/ CompleteStage(s, next) =>
              /\ state'.phase = state.phase /\ stateFile'.phase = stateFile.phase
              /\ pc' = next /\ UNCHANGED launch
<1>1. stateFile.phase = state.phase
  BY DEF OutcomeInv
<1>2. StartStage(s, next) \/ CompleteStage(s, next) =>
        stateFile' = state' /\ state'.phase = state.phase
  BY DEF StartStage, CompleteStage, Types, TypeOK, StateRecord
<1> QED
  BY <1>1, <1>2 DEF Goto, StartStage, CompleteStage, own, files

\* The invariant goes on, and no step but the handler of an exception reopens.
LEMMA ReopenStep ==
    Types /\ OutcomeInv /\ ReopenInv /\ [Next]_vars =>
        /\ ReopenInv'
        /\ Plain /\ pc # "catch" /\ stateFile.phase = "completed" => stateFile'.phase = "completed"
<1> DEFINE Kept == Plain /\ pc # "catch" /\ stateFile.phase = "completed" =>
                     stateFile'.phase = "completed"
<1> SUFFICES ASSUME Types, OutcomeInv, ReopenInv, [Next]_vars PROVE ReopenInv' /\ Kept
  OBVIOUS
<1> USE DEF At, Living, Ending
<1>p. Living /\ pc \notin {"prepare", "resurfaced"} => stateFile.phase = state.phase
  BY DEF OutcomeInv
<1>1. CASE AppendEvent \/ ToggleStopFile \/ UNCHANGED vars
  BY <1>1 DEF AppendEvent, ToggleStopFile, vars, files, own, ReopenInv, Plain
<1>2. CASE InitializeCampaign
  <2>1. /\ pc = "initialize" /\ pc' = "prepare" /\ UNCHANGED <<stateFile, launch>>
        /\ \E limits \in LimitChoices :
              state' = IF Exists(stateFile) THEN Resumed(stateFile, launch, limits)
                                            ELSE InitialState(limits)
    BY <1>2 DEF InitializeCampaign, files
  <2>2. Plain /\ stateFile.phase = "completed" => state' = stateFile
    BY <2>1 DEF Resumed, LeftAsIs, Plain, NotResumed, Types, TypeOK, ResumePoints, Exists,
                NoState, NoPhase
  <2> QED
    BY <2>1, <2>2 DEF ReopenInv, Plain
<1>3. CASE PrepareAndWriteState
  BY <1>3 DEF PrepareAndWriteState, own, ReopenInv, Plain
<1>4. CASE Begin \/ CloseStatic \/ BeginVerification \/ ConfirmLeads \/ CloseConfirmation
  BY <1>4, PhaseSteps, StageNames
  DEF Begin, CloseStatic, BeginVerification, ConfirmLeads, CloseConfirmation, ReopenInv, Plain,
      AlreadyCompleted
<1>5. CASE LocalLive \/ CloseLocalLive \/ TestSynthesis \/ CloseTestSynthesis \/ ClosePackets
  BY <1>5, PhaseSteps, StageNames
  DEF LocalLive, CloseLocalLive, TestSynthesis, CloseTestSynthesis, ClosePackets, ReopenInv, Plain
<1>6. CASE Assess \/ FocusedClosure \/ CloseClosure \/ CloseAssessment
  BY <1>6, PhaseSteps, StageNames
  DEF Assess, FocusedClosure, CloseClosure, CloseAssessment, ReopenInv, Plain
<1>7. CASE Report \/ CloseReporting \/ LeaveLoop \/ SkipVerification
  BY <1>7, PhaseSteps, StageNames
  DEF Report, CloseReporting, LeaveLoop, SkipVerification, ReopenInv, Plain
<1>8. CASE Execute \/ Judge \/ BuildPackets \/ AssessPanel
  <2>1. /\ state'.phase \in {"executing", "judging", "verifying", "assessing"}
        /\ pc \in {"execute", "judge", "build_packets", "assess"}
        /\ pc' \in {"judge", "count", "confirmation", "closure"}
        /\ UNCHANGED launch
    BY <1>8 DEF Execute, Judge, BuildPackets, AssessPanel, SetPhase, Types, TypeOK, StateRecord
  <2> QED
    BY <1>p, <2>1 DEF ReopenInv, Plain
<1>9. CASE SeeKillSwitch \/ Resurface \/ Plan
  <2>1. /\ pc \in {"static_loop", "resurfaced"} /\ pc' \in {"close_static", "resurfaced", "execute"}
        /\ UNCHANGED launch
    BY <1>9 DEF SeeKillSwitch, Resurface, Plan, own
  <2>2. /\ pc' = "resurfaced" => stateFile'.phase = "resurfacing" /\ state' = state
                                  /\ pc = "static_loop"
        /\ pc' # "resurfaced" => state'.phase \in {"failed", "planning"}
    <3>1. CASE SeeKillSwitch
      BY <3>1 DEF SeeKillSwitch, Failed, Types, TypeOK, StateRecord
    <3>2. CASE Resurface
      BY <3>2 DEF Resurface, At, Types, TypeOK, StateRecord, own
    <3>3. CASE Plan
      <4>1. PICK cost \in 0..MaxCallCost :
              state' = [state EXCEPT !.phase = "planning", !.cost = @ + cost]
        BY <3>3 DEF Plan
      <4>2. pc' = "execute"
        BY <3>3 DEF Plan
      <4> QED
        BY <4>1, <4>2 DEF Types, TypeOK, StateRecord
    <3> QED
      BY <1>9, <3>1, <3>2, <3>3
  <2> QED
    BY <1>p, <2>1, <2>2 DEF ReopenInv, Plain
<1>10. CASE CountIteration \/ SaveMemory \/ PassGate \/ AbortAtGate \/ WriteReport \/ LogOutcome
  <2>1. /\ pc \in {"count", "save_memory", "gate", "write_report", "log_outcome"}
        /\ pc' \in {"save_memory", "static_loop", "local_live", "close_packets", "close_reporting",
                    "write_report"}
        /\ pc' \in Ending <=> pc \in Ending
        /\ UNCHANGED launch
        /\ state'.phase = state.phase
        /\ stateFile' = stateFile \/ stateFile' = state'
    <3>1. CASE CountIteration
      BY <3>1 DEF CountIteration, Ending, own, Types, TypeOK, StateRecord
    <3>2. CASE SaveMemory \/ PassGate
      BY <3>2 DEF SaveMemory, PassGate, Ending, files, own
    <3>3. CASE AbortAtGate
      BY <3>3 DEF AbortAtGate, Ending, files, own
    <3>4. CASE WriteReport \/ LogOutcome
      BY <3>4 DEF WriteReport, LogOutcome, Ending, files, own
    <3> QED
      BY <1>10, <3>1, <3>2, <3>3, <3>4
  <2> QED
    BY <1>p, <2>1 DEF ReopenInv, Plain
<1>11. CASE SetCompleted
  <2>1. pc = "set_completed" /\ pc' = "log_outcome" /\ UNCHANGED launch
        /\ (stateFile'.phase = "completed" \/ UNCHANGED stateFile)
    BY <1>11 DEF SetCompleted, Types, TypeOK, StateRecord
  <2> QED
    BY <2>1 DEF ReopenInv, Plain
<1>12. CASE Return \/ ReturnAlreadyCompleted \/ Catch \/ Crash
  BY <1>12 DEF Return, ReturnAlreadyCompleted, Catch, Crash, End, files, ReopenInv
<1>13. CASE Launch \/ Throw
  BY <1>13 DEF Launch, Throw, End, files, ReopenInv
<1> QED
  BY <1>1, <1>2, <1>3, <1>4, <1>5, <1>6, <1>7, <1>8, <1>9, <1>10, <1>11, <1>12, <1>13
  DEF Next, PipelineStep

LEMMA ReopenInit == Init => ReopenInv
BY DEF Init, ReopenInv, Living

-----------------------------------------------------------------------------
(* The status that is reported.  A severe status is never lost on the way  *)
(* to the report: the later steps only take the maximum.  What the merge   *)
(* with the gate's summary does lose, the lane nobody asked for, is found  *)
(* again among the gaps.                                                   *)

Severe == {"incomplete", "blocked"}

LEMMA MaxIsSevere ==
    ASSUME NEW left \in ExecutionStatuses, NEW right \in ExecutionStatuses
    PROVE  /\ maxExecutionStatus(left, right) \in ExecutionStatuses
           /\ left \in Severe \/ right \in Severe =>
                maxExecutionStatus(left, right) \in Severe
BY DEF maxExecutionStatus, Rank, ExecutionStatuses, Severe

LEMMA ComputedIsSevere ==
    ASSUME NEW summaries
    PROVE  /\ computeVerificationExecutionStatus(summaries) \in ExecutionStatuses
           /\ \A lane \in VerificationLanes : summaries[lane] \in Severe =>
                computeVerificationExecutionStatus(summaries) \in Severe
BY DEF computeVerificationExecutionStatus, ExecutionStatuses, Severe

LEMMA ObservedIsSevere ==
    ASSUME NEW verification, NEW closureGaps, NEW initialGaps, NEW parseStatus,
           verification.executionStatus \in ExecutionStatuses
    PROVE  LET observed == ObservedStatus(verification, closureGaps, initialGaps, parseStatus)
           IN  /\ observed \in ExecutionStatuses
               /\ verification.executionStatus \in Severe => observed \in Severe
<1> DEFINE closed == IF closureGaps = {} THEN verification.executionStatus
                     ELSE maxExecutionStatus(verification.executionStatus, "degraded")
           opened == IF initialGaps = {} THEN closed ELSE maxExecutionStatus(closed, "incomplete")
           observed == ObservedStatus(verification, closureGaps, initialGaps, parseStatus)
<1>0. "degraded" \in ExecutionStatuses /\ "incomplete" \in ExecutionStatuses
  BY DEF ExecutionStatuses
<1>1. /\ closed \in ExecutionStatuses
      /\ verification.executionStatus \in Severe => closed \in Severe
  BY <1>0, MaxIsSevere
<1>2. /\ opened \in ExecutionStatuses
      /\ verification.executionStatus \in Severe => opened \in Severe
  BY <1>0, <1>1, MaxIsSevere
<1>3. observed = CASE parseStatus = "fallback_text"  -> maxExecutionStatus(opened, "incomplete")
                   [] parseStatus = "fallback_panel" -> maxExecutionStatus(opened, "degraded")
                   [] OTHER                          -> opened
  BY DEF ObservedStatus
<1> HIDE DEF closed, opened, observed
<1>4. /\ observed \in ExecutionStatuses
      /\ verification.executionStatus \in Severe => observed \in Severe
  BY <1>0, <1>2, <1>3, MaxIsSevere
<1> QED
  BY <1>4 DEF observed

LEMMA SevereIsReported ==
    ASSUME NEW config \in SeriousConfigs, NEW requiredLanes, NEW verification,
           NEW other \in OtherFindings(config),
           verification.executionStatus \in ExecutionStatuses,
           \/ verification.executionStatus \in Severe
           \/ IncompleteGaps(verification.gaps, requiredLanes, ReportMode(config)) # {}
    PROVE  Reported(verification, other, requiredLanes, config) \in Severe
<1> DEFINE observed == ObservedStatus(verification, other.closureGaps, other.initialGaps,
                                      other.parseStatus)
           gaps == ReportGaps(verification, other.closureGaps, other.initialGaps,
                              other.parseStatus)
           mode == ReportMode(config)
<1>1. /\ observed \in ExecutionStatuses
      /\ verification.executionStatus \in Severe => observed \in Severe
  BY ObservedIsSevere
<1>2. mode # "smoke"
  BY DEF SeriousConfigs, ReportMode, GateMode, NoRunMode, SeriousModes
<1>3. Reported(verification, other, requiredLanes, config)
        = IF IncompleteGaps(gaps, requiredLanes, mode) = {} THEN observed
          ELSE maxExecutionStatus(observed, "incomplete")
  BY <1>2 DEF Reported, ReportStatus, StatusInMode
<1>4. IncompleteGaps(verification.gaps, requiredLanes, mode)
        \subseteq IncompleteGaps(gaps, requiredLanes, mode)
  BY DEF ReportGaps, IncompleteGaps
<1>5. "incomplete" \in ExecutionStatuses /\ "incomplete" \in Severe
  BY DEF ExecutionStatuses, Severe
<1> HIDE DEF observed, gaps, mode
<1>6. \/ verification.executionStatus \in Severe
      \/ IncompleteGaps(verification.gaps, requiredLanes, mode) # {}
  BY DEF mode
<1> QED
  BY <1>1, <1>3, <1>4, <1>5, <1>6, MaxIsSevere

\* What a life may have verified has a status, which is as severe as its lanes'.
LEMMA VerificationIsSevere ==
    ASSUME gate \in {"not_reached", "passed", "aborted"},
           NEW config, NEW requiredLanes, NEW verification \in Verifications(config, requiredLanes)
    PROVE  /\ verification.executionStatus \in ExecutionStatuses
           /\ \A lane \in VerificationLanes : verification.laneSummaries[lane] \in Severe =>
                verification.executionStatus \in Severe
<1>1. CASE gate = "not_reached"
  <2>1. verification = NotVerified
    BY <1>1 DEF Verifications
  <2>2. \A lane \in VerificationLanes : verification.laneSummaries[lane] \notin Severe
    BY <2>1 DEF NotVerified, NoSummary, Severe
  <2> QED
    BY <2>1, <2>2 DEF NotVerified, ExecutionStatuses
<1>2. CASE gate = "aborted"
  <2>1. PICK gaps : verification = GateSummary(lanes, gaps)
    BY <1>2 DEF Verifications
  <2>2. verification.executionStatus
          = computeVerificationExecutionStatus(verification.laneSummaries)
    BY <2>1 DEF GateSummary
  <2> QED
    BY <2>2, ComputedIsSevere
<1>3. CASE gate = "passed"
  <2>1. PICK found, gaps :
           LET base == RunVerificationLanes(lanes, SkippedLanes, found, requiredLanes, config)
           IN  verification = IF gaps = {} THEN base ELSE Merged(base, GateSummary(lanes, gaps))
    BY <1>3 DEF Verifications
  <2> DEFINE base == RunVerificationLanes(lanes, SkippedLanes, found, requiredLanes, config)
             computed == computeVerificationExecutionStatus(verification.laneSummaries)
  <2>2. \/ verification.executionStatus = computed
        \/ verification.executionStatus = maxExecutionStatus(computed, "incomplete")
    <3>1. CASE gaps = {}
      BY <2>1, <3>1 DEF RunVerificationLanes
    <3>2. CASE gaps # {}
      <4>1. verification = Merged(base, GateSummary(lanes, gaps))
        BY <2>1, <3>2
      <4> HIDE DEF base
      <4> QED
        BY <4>1 DEF Merged
    <3> QED
      BY <3>1, <3>2
  <2>3. "incomplete" \in ExecutionStatuses
    BY DEF ExecutionStatuses
  <2> QED
    BY <2>2, <2>3, ComputedIsSevere, MaxIsSevere
<1> QED
  BY <1>1, <1>2, <1>3

\* A required lane that nobody asked for is among the gaps, merged or not.
LEMMA MissingLaneIsGap ==
    ASSUME gate = "passed",
           NEW config, NEW requiredLanes,
           NEW verification \in Verifications(config, requiredLanes),
           NEW lane \in requiredLanes, lane \notin lanes
    PROVE  Gap(lane, "incomplete", TRUE) \in verification.gaps
<1>1. PICK found, gaps :
         LET base == RunVerificationLanes(lanes, SkippedLanes, found, requiredLanes, config)
         IN  verification = IF gaps = {} THEN base ELSE Merged(base, GateSummary(lanes, gaps))
  BY DEF Verifications
<1> DEFINE base == RunVerificationLanes(lanes, SkippedLanes, found, requiredLanes, config)
<1>2. Gap(lane, "incomplete", TRUE) \in base.gaps
  BY DEF RunVerificationLanes, MissingLanes
<1>3. verification = IF gaps = {} THEN base ELSE Merged(base, GateSummary(lanes, gaps))
  BY <1>1
<1> HIDE DEF base
<1> QED
  BY <1>2, <1>3 DEF Merged

\* To a serious run a counted one is in the status, or is a gap that counts.
LEMMA MissingLaneIsFound ==
    ASSUME gate = "passed",
           NEW config \in SeriousConfigs, NEW requiredLanes,
           NEW verification \in Verifications(config, requiredLanes),
           NEW lane \in CountedLanes(requiredLanes, config), lane \notin lanes
    PROVE  \/ verification.executionStatus \in Severe
           \/ IncompleteGaps(verification.gaps, requiredLanes, ReportMode(config)) # {}
<1>1. PICK found, gaps :
         LET base == RunVerificationLanes(lanes, SkippedLanes, found, requiredLanes, config)
         IN  /\ ~ShouldAbort(gaps, config)
             /\ verification = IF gaps = {} THEN base ELSE Merged(base, GateSummary(lanes, gaps))
  BY DEF Verifications
<1>2. lane \in MissingLanes(requiredLanes, lanes) /\ lane \in requiredLanes
  BY DEF MissingLanes, CountedLanes
<1>3. CASE gaps = {}
  <2> DEFINE base == RunVerificationLanes(lanes, SkippedLanes, found, requiredLanes, config)
  <2>1. verification.executionStatus
          = maxExecutionStatus(computeVerificationExecutionStatus(base.laneSummaries), "incomplete")
    BY <1>1, <1>2, <1>3 DEF RunVerificationLanes
  <2>2. "incomplete" \in ExecutionStatuses /\ "incomplete" \in Severe
    BY DEF ExecutionStatuses, Severe
  <2> QED
    BY <2>1, <2>2, ComputedIsSevere, MaxIsSevere
<1>4. CASE gaps # {}
  <2>1. config.runMode = NoRunMode /\ config.strictVerification
    BY <1>1, <1>4 DEF ShouldAbort, GateMode, SeriousConfigs, NoRunMode, SeriousModes
  <2>2. ReportMode(config) = "serious_local" /\ lane # "hosted"
    BY <2>1 DEF ReportMode, CountedLanes
  <2>3. Gap(lane, "incomplete", TRUE) \in verification.gaps
    BY <1>2, MissingLaneIsGap
  <2>4. Gap(lane, "incomplete", TRUE)
          \in IncompleteGaps(verification.gaps, requiredLanes, ReportMode(config))
    BY <1>2, <2>2, <2>3 DEF IncompleteGaps, Gap, IsHardGap, SeriousModes
  <2> QED
    BY <2>4
<1> QED
  BY <1>3, <1>4

\* A smoke run caps the status, and does not lose that there is a gap.
LEMMA SmokeIsNotComplete ==
    ASSUME NEW config, ReportMode(config) = "smoke", NEW requiredLanes, NEW verification,
           NEW other,
           verification.executionStatus \in ExecutionStatuses,
           verification.executionStatus \in Severe \/ verification.gaps # {}
    PROVE  Reported(verification, other, requiredLanes, config) # "complete"
<1> DEFINE observed == ObservedStatus(verification, other.closureGaps, other.initialGaps,
                                      other.parseStatus)
           gaps == ReportGaps(verification, other.closureGaps, other.initialGaps,
                              other.parseStatus)
<1>1. /\ observed \in ExecutionStatuses
      /\ verification.executionStatus \in Severe => observed \in Severe
  BY ObservedIsSevere
<1>2. Reported(verification, other, requiredLanes, config)
        = CASE observed = "incomplete" -> IF other.parseStatus = "fallback_text" THEN observed
                                                                              ELSE "degraded"
            [] observed # "incomplete" /\ gaps # {} -> maxExecutionStatus(observed, "degraded")
            [] OTHER -> observed
  BY DEF Reported, ReportStatus, StatusInMode
<1>3. verification.gaps # {} => gaps # {}
  BY DEF ReportGaps
<1>4. maxExecutionStatus(observed, "degraded") # "complete"
  BY <1>1 DEF maxExecutionStatus, Rank, ExecutionStatuses
<1> HIDE DEF observed, gaps
<1> QED
  BY <1>1, <1>2, <1>3, <1>4 DEF Severe

\* Nor is one that is merely not "complete" lost in a serious run.
LEMMA MaxIsNotComplete ==
    ASSUME NEW left \in ExecutionStatuses, NEW right \in ExecutionStatuses,
           left # "complete" \/ right # "complete"
    PROVE  maxExecutionStatus(left, right) # "complete"
BY DEF maxExecutionStatus, Rank, ExecutionStatuses

LEMMA NotCompleteIsReported ==
    ASSUME NEW config \in SeriousConfigs, NEW requiredLanes, NEW verification,
           NEW other \in OtherFindings(config),
           verification.executionStatus \in ExecutionStatuses \ {"complete"}
    PROVE  Reported(verification, other, requiredLanes, config) # "complete"
<1> DEFINE closed == IF other.closureGaps = {} THEN verification.executionStatus
                     ELSE maxExecutionStatus(verification.executionStatus, "degraded")
           opened == IF other.initialGaps = {} THEN closed
                     ELSE maxExecutionStatus(closed, "incomplete")
           observed == ObservedStatus(verification, other.closureGaps, other.initialGaps,
                                      other.parseStatus)
           gaps == ReportGaps(verification, other.closureGaps, other.initialGaps,
                              other.parseStatus)
           mode == ReportMode(config)
<1>1. "degraded" \in ExecutionStatuses /\ "incomplete" \in ExecutionStatuses
  BY DEF ExecutionStatuses
<1>2. closed \in ExecutionStatuses /\ closed # "complete"
  BY <1>1, MaxIsSevere, MaxIsNotComplete
<1>3. opened \in ExecutionStatuses /\ opened # "complete"
  BY <1>1, <1>2, MaxIsSevere, MaxIsNotComplete
<1>4. observed = CASE other.parseStatus = "fallback_text"  -> maxExecutionStatus(opened, "incomplete")
                   [] other.parseStatus = "fallback_panel" -> maxExecutionStatus(opened, "degraded")
                   [] OTHER                                -> opened
  BY DEF ObservedStatus
<1>5. mode # "smoke"
  BY DEF SeriousConfigs, ReportMode, GateMode, NoRunMode, SeriousModes
<1>6. Reported(verification, other, requiredLanes, config)
        = IF IncompleteGaps(gaps, requiredLanes, mode) = {} THEN observed
          ELSE maxExecutionStatus(observed, "incomplete")
  BY <1>5 DEF Reported, ReportStatus, StatusInMode
<1> HIDE DEF closed, opened, observed, gaps, mode
<1>7. observed \in ExecutionStatuses /\ observed # "complete"
  BY <1>1, <1>3, <1>4, MaxIsSevere, MaxIsNotComplete
<1> QED
  BY <1>1, <1>6, <1>7, MaxIsNotComplete

\* What a lane found that ran behind the gate is in the status of the verification.
LEMMA LaneIsInStatus ==
    ASSUME gate = "passed", lanes \subseteq VerificationLanes,
           NEW config, NEW requiredLanes,
           NEW verification \in Verifications(config, requiredLanes),
           NEW lane \in lanes, lane \notin SkippedLanes,
           verification.laneSummaries[lane] # "complete"
    PROVE  verification.executionStatus # "complete"
<1> DEFINE founds == [lanes \ SkippedLanes -> ExecutionStatuses]
           run(found) == RunVerificationLanes(lanes, SkippedLanes, found, requiredLanes, config)
           computed == computeVerificationExecutionStatus(verification.laneSummaries)
<1>0. PICK base \in {run(found) : found \in founds}, gaps \in SUBSET ReadinessGaps(lanes) :
         verification = IF gaps = {} THEN base ELSE Merged(base, GateSummary(lanes, gaps))
  <2>1. Verifications(config, requiredLanes)
          = {IF gaps = {} THEN base ELSE Merged(base, GateSummary(lanes, gaps)) :
               base \in {run(found) : found \in founds},
               gaps \in {g \in SUBSET ReadinessGaps(lanes) : ~ShouldAbort(g, config)}}
    BY DEF Verifications
  <2> HIDE DEF run, founds
  <2> QED
    BY <2>1
<1>1. PICK found \in founds : base = run(found)
  BY <1>0
<1>2. base.laneSummaries[lane] \in ExecutionStatuses
  BY <1>1 DEF RunVerificationLanes
<1>3. "incomplete" \in ExecutionStatuses /\ "complete" \in ExecutionStatuses
      /\ NoSummary \notin ExecutionStatuses
  BY DEF ExecutionStatuses, NoSummary
<1>4. verification.laneSummaries[lane] \in ExecutionStatuses
  <2>1. CASE gaps = {}
    BY <1>0, <1>2, <2>1
  <2>2. CASE gaps # {}
    <3>1. GateSummary(lanes, gaps).laneSummaries[lane] \in {"incomplete", "complete"}
      BY DEF GateSummary
    <3>2. verification = Merged(base, GateSummary(lanes, gaps))
      BY <1>0, <2>2
    <3>3. verification.laneSummaries[lane]
            = maxExecutionStatus(base.laneSummaries[lane],
                                 GateSummary(lanes, gaps).laneSummaries[lane])
      BY <1>2, <1>3, <3>1, <3>2 DEF Merged
    <3> QED
      BY <1>2, <1>3, <3>1, <3>3, MaxIsSevere
  <2> QED
    BY <2>1, <2>2
<1>5. computed \in ExecutionStatuses /\ computed # "complete"
  <2> DEFINE there == {verification.laneSummaries[l] : l \in VerificationLanes}
  <2>1. verification.laneSummaries[lane] \in there
    OBVIOUS
  <2> QED
    BY <1>4, <2>1 DEF computeVerificationExecutionStatus, ExecutionStatuses
<1>6. \/ verification.executionStatus = computed
      \/ verification.executionStatus = maxExecutionStatus(computed, "incomplete")
  <2>1. CASE gaps = {}
    BY <1>0, <1>1, <2>1 DEF RunVerificationLanes
  <2>2. CASE gaps # {}
    <3>1. verification = Merged(base, GateSummary(lanes, gaps))
      BY <1>0, <2>2
    <3> QED
      BY <3>1 DEF Merged
  <2> QED
    BY <2>1, <2>2
<1> HIDE DEF computed
<1> QED
  BY <1>3, <1>5, <1>6, MaxIsNotComplete

\* A gate that aborts for more than signals has an incomplete lane.
LEMMA AbortIsSevere ==
    ASSUME gate = "aborted", lanes \subseteq VerificationLanes,
           NEW config, NEW requiredLanes,
           NEW verification \in Verifications(config, requiredLanes),
           ~OnlySignalsMissed(verification)
    PROVE  \E lane \in VerificationLanes : verification.laneSummaries[lane] \in Severe
<1>1. PICK gaps \in SUBSET ReadinessGaps(lanes) :
         ShouldAbort(gaps, config) /\ verification = GateSummary(lanes, gaps)
  BY DEF Verifications
<1>2. verification.gaps = gaps /\ gaps # {}
  BY <1>1 DEF GateSummary, ShouldAbort
<1>3. PICK gap \in gaps : gap.lane # "static"
  BY <1>2 DEF OnlySignalsMissed
<1>4. gap.lane \in lanes
  BY <1>1, <1>3 DEF ReadinessGaps, Gap
<1>5. verification.laneSummaries[gap.lane] = "incomplete"
  BY <1>1, <1>3, <1>4 DEF GateSummary
<1> QED
  BY <1>4, <1>5 DEF Severe

\* The gate of a life that verifies anything is reached before the outcome is logged.
LEMMA UnreachedGate ==
    ASSUME Types, GatePassedBy, pc = "log_outcome", gate = "not_reached"
    PROVE  NothingVerified
<1>1. lanes = {} \/ state.phase = "failed" \/ First > 5
  BY DEF GatePassedBy, BehindLanes, BehindAssessment, ReportPlaces
<1>2. ASSUME First > 5
      PROVE  launch.stage # NoStage /\ StageIndex(launch.stage) > StageIndex("test_synthesis")
  BY <1>2, FirstType, StageNumbers DEF First, FirstStage
<1> QED
  BY <1>1, <1>2 DEF NothingVerified

-----------------------------------------------------------------------------
(* The theorems.                                                           *)

LEMMA AccountsInit == Init => Accounts
<1> SUFFICES ASSUME Init PROVE Accounts
  OBVIOUS
<1>1. Forgotten = 0
  BY PipelineConstants DEF Init, Forgotten, MaxIterationCost
<1> QED
  BY <1>1, PipelineConstants DEF Init, NoState, Accounts, Living, Unsaved

LEMMA KillInit == Init => KillInv
BY DEF Init, NoEvent, KillInv, StartsOnly, Early, Downhill

LEMMA OutcomeInit == Init => OutcomeInv
BY DEF Init, OutcomeInv, Living, Ending, OutcomeIsRecorded

\* The files, the copies in memory and the history have their types in every life:
\* a campaign that exists has a phase, and a failed one the phase it failed in,
\* which is what a resumed life goes on with.
THEOREM TypeCorrect == Spec => []TypeOK
<1>1. Types => TypeOK
  BY DEF Types
<1> QED
  BY <1>1, TypesInit, TypesStep, PTL DEF Spec

\* The limits bind over all lives: a death or an exception can cost at most one
\* iteration, however often and wherever the process is interrupted.
THEOREM BudgetIsKept == Spec => []BudgetOverrunIsBounded
<1>1. Types /\ Accounts => BudgetOverrunIsBounded
  BY ForgottenIsCost, NumberTypes DEF Accounts, BudgetOverrunIsBounded
<1> QED
  BY <1>1, TypesInit, TypesStep, AccountsInit, AccountsStep, PTL DEF Spec

\* memory.json is behind the iterations that state.json counts by at most one per
\* death or exception, and one while the iteration is being saved.
THEOREM ResultsAreRemembered == Spec => []IterationsAreRemembered
<1>1. Types /\ Accounts => IterationsAreRemembered
  BY NumberTypes DEF Accounts, IterationsAreRemembered, Unsaved, Living, UnderWay
<1> QED
  BY <1>1, TypesInit, TypesStep, AccountsInit, AccountsStep, PTL DEF Spec

\* A life that has seen the kill switch starts nothing but reporting, and never
\* returns "completed".
THEOREM KillSwitchIsFinal == Spec => []KillSwitchSticks
<1>1. KillInv => KillSwitchSticks
  BY DEF KillInv, StartsOnly, KillSwitchSticks
<1> QED
  BY <1>1, TypesInit, TypesStep, KillInit, KillStep, PTL DEF Spec

\* What a life returns is in state.json and in its investigation_completed event,
\* although setPhase, setFailed and setCompleted write the file behind the back of
\* the copy in memory that the stages write over it.
THEOREM OutcomeIsTold == Spec => []OutcomeIsRecorded
<1>1. OutcomeInv => OutcomeIsRecorded
  BY DEF OutcomeInv
<1> QED
  BY <1>1, TypesInit, TypesStep, OutcomeInit, OutcomeStep, PTL DEF Spec

\* A life runs the stages of its tail and no other, the closure has its assessment,
\* and a life that returns "completed" has completed what it was asked for.
THEOREM TailRuns == Spec => []TailIsRun
<1>1. TailInv => TailIsRun
  <2> SUFFICES ASSUME TailInv PROVE TailIsRun
    OBVIOUS
  <2>1. started \subseteq Begun
    BY DEF Begun
  <2> QED
    BY <2>1 DEF TailInv, InTail, CompletedTail, First, FirstStage, TailIsRun
<1> QED
  BY <1>1, TypesInit, TypesStep, KillInit, KillStep, OutcomeInit, OutcomeStep, TailInit, TailStep,
     PTL DEF Spec

\* A life that was not told to take a completed campaign up again leaves it completed,
\* whatever it runs and wherever it is interrupted: it is the invariant that such a life
\* has no completed campaign in hand between preflight and setCompleted.
THEOREM CompletedStaysCompleted == Spec => ReopenedOnDemand
<1>1. Types /\ OutcomeInv /\ ReopenInv /\ [Next]_vars =>
        [stateFile.phase = "completed" /\ stateFile'.phase # "completed" =>
            launch.resumeAt # "auto" \/ launch.stage # NoStage \/ pc = "catch"]_vars
  BY ReopenStep DEF Plain
<1> QED
  BY <1>1, TypesInit, TypesStep, OutcomeInit, OutcomeStep, ReopenInit, ReopenStep,
     PTL DEF Spec, ReopenedOnDemand

\* A serious run fails closed on the lanes its target requires, for any required
\* lanes: one that nobody asked for while others ran, that ended incomplete or was
\* found not ready makes the report "incomplete" or "blocked", although the merge
\* with the gate's summary computes the status afresh; and the command of a strict
\* run exits with 1, although a smoke run's report is capped.
THEOREM SeriousRunsFailClosed == Spec => []RequiredGapsFailClosed
<1>1. TypeOK => RequiredGapsFailClosed
  <2> SUFFICES ASSUME TypeOK, NEW requiredLanes \in RequiredChoices
               PROVE  RequiredGapsFailClosed!2!(requiredLanes)
    BY DEF RequiredGapsFailClosed
  <2>1. gate \in {"not_reached", "passed", "aborted"}
    BY DEF TypeOK
  <2>2. \A config : CountedLanes(requiredLanes, config) \subseteq requiredLanes
    BY DEF CountedLanes
  <2>3. requiredLanes \subseteq VerificationLanes
    BY CoverageConstants
  <2>4. ASSUME NEW config \in SeriousConfigs,
               NEW verification \in Verifications(config, requiredLanes),
               MissesRequired(verification, CountedLanes(requiredLanes, config)),
               NEW other \in OtherFindings(config)
        PROVE  Reported(verification, other, requiredLanes, config) \in Severe
    <3>1. PICK lane \in CountedLanes(requiredLanes, config) :
             \/ gate = "passed" /\ lane \notin lanes
             \/ verification.laneSummaries[lane] \in Severe
      BY <2>4 DEF MissesRequired, Severe
    <3>2. /\ verification.executionStatus \in ExecutionStatuses
          /\ verification.laneSummaries[lane] \in Severe =>
               verification.executionStatus \in Severe
      BY <2>1, <2>2, <2>3, <3>1, VerificationIsSevere
    <3>3. \/ verification.executionStatus \in Severe
          \/ IncompleteGaps(verification.gaps, requiredLanes, ReportMode(config)) # {}
      BY <3>1, <3>2, MissingLaneIsFound
    <3> QED
      BY <3>2, <3>3, SevereIsReported
  <2>5. ASSUME NEW options \in CliOptions,
               ConfigOf(options).strictVerification, ~OptsOut(options),
               NEW verification \in Verifications(ConfigOf(options), requiredLanes),
               MissesRequired(verification, requiredLanes),
               NEW other \in OtherFindings(ConfigOf(options)), NEW hasFindings \in BOOLEAN
        PROVE  ExitCode(options, hasFindings,
                        Reported(verification, other, requiredLanes, ConfigOf(options))) = 1
    <3> DEFINE config == ConfigOf(options)
    <3>1. CASE options.runMode \in SeriousModes
      <4>1. config \in SeriousConfigs /\ CountedLanes(requiredLanes, config) = requiredLanes
        BY <3>1 DEF ConfigOf, CliOptions, SeriousConfigs, Configs, RunModes, SeriousModes,
                    CountedLanes, NoRunMode
      <4>2. Reported(verification, other, requiredLanes, config) \in Severe
        BY <2>4, <2>5, <4>1
      <4> QED
        BY <2>5, <3>1, <4>2 DEF ExitCode, Severe
    <3>2. CASE options.runMode = "smoke"
      <4>1. ReportMode(config) = "smoke"
        BY <3>2 DEF ConfigOf, ReportMode, GateMode, NoRunMode
      <4>2. PICK lane \in requiredLanes : \/ gate = "passed" /\ lane \notin lanes
                                          \/ verification.laneSummaries[lane] \in Severe
        BY <2>5 DEF MissesRequired, Severe
      <4>3. /\ verification.executionStatus \in ExecutionStatuses
            /\ verification.laneSummaries[lane] \in Severe =>
                 verification.executionStatus \in Severe
        BY <2>1, <2>3, <4>2, VerificationIsSevere
      <4>4. gate = "passed" /\ lane \notin lanes => verification.gaps # {}
        BY MissingLaneIsGap
      <4>5. Reported(verification, other, requiredLanes, config) # "complete"
        BY <4>1, <4>2, <4>3, <4>4, SmokeIsNotComplete
      <4> QED
        BY <2>5, <4>5 DEF ExitCode
    <3> QED
      BY <3>1, <3>2 DEF CliOptions, RunModes
  <2> QED
    BY <2>4, <2>5 DEF Severe
<1> QED
  BY <1>1, TypeCorrect, PTL

\* A serious run that says "complete" has earned it, for any required lanes and run
\* modes, and whatever the lanes, the gate, the closure and the assessment found: but
\* for the exceptions that CompleteIsEarned names, each required lane was asked for
\* and ran without a gap.  The gate is passed by only where nothing is verified, and
\* from there to the report no step lowers a status that is not "complete".
THEOREM CompleteMeansVerified == Spec => []CompleteIsEarned
<1>1. Types /\ TailInv => CompleteIsEarned
  <2> SUFFICES ASSUME Types, TailInv, pc = "log_outcome",
                      NEW config \in SeriousConfigs, NEW requiredLanes \in RequiredChoices,
                      NEW verification \in Verifications(config, requiredLanes),
                      ~NothingVerified, ~OnlySignalsMissed(verification),
                      NEW lane \in CountedLanes(requiredLanes, config),
                      ~ /\ lane \in lanes
                        /\ \/ verification.laneSummaries[lane] = "complete"
                           \/ gate = "passed" /\ lane \in SkippedLanes,
                      NEW other \in OtherFindings(config)
               PROVE  Reported(verification, other, requiredLanes, config) # "complete"
    BY DEF CompleteIsEarned
  <2>1. /\ gate \in {"not_reached", "passed", "aborted"}
        /\ lanes \subseteq VerificationLanes
    BY DEF Types, TypeOK, Lanes, VerificationLanes
  <2>2. /\ verification.executionStatus \in ExecutionStatuses
        /\ \A l \in VerificationLanes : verification.laneSummaries[l] \in Severe =>
             verification.executionStatus \in Severe
    BY <2>1, VerificationIsSevere
  <2>3. "complete" \notin Severe
    BY DEF Severe
  <2>4. gate # "not_reached"
    BY UnreachedGate DEF TailInv
  <2>5. CASE gate = "aborted"
    BY <2>1, <2>2, <2>3, <2>5, AbortIsSevere, SevereIsReported
  <2>6. CASE gate = "passed" /\ lane \notin lanes
    BY <2>2, <2>3, <2>6, MissingLaneIsFound, SevereIsReported
  <2>7. CASE gate = "passed" /\ lane \in lanes
    BY <2>1, <2>2, <2>7, LaneIsInStatus, NotCompleteIsReported
  <2> QED
    BY <2>1, <2>4, <2>5, <2>6, <2>7
<1> QED
  BY <1>1, TypesInit, TypesStep, KillInit, KillStep, OutcomeInit, OutcomeStep, TailInit, TailStep,
     PTL DEF Spec
=============================================================================
