--------------------------- MODULE CampaignPipeline ---------------------------
(***************************************************************************)
(* One campaign through its lives: executeCampaignPipeline with its stages *)
(* (investigation-runner-internals.ts), the state file (state.ts) and the  *)
(* resume points (resume-checkpoint.ts).                                   *)
(*                                                                         *)
(* A life is one process that holds the campaign's lock (CampaignLock).    *)
(* It keeps the campaign's state twice: in memory, written wholesale to    *)
(* state.json at the stage boundaries, and in state.json, which setPhase,  *)
(* setFailed and setCompleted read, change and write back without telling  *)
(* the copy in memory.  Between two steps the process may die or throw.    *)
(* An iteration of the static loop costs whatever its planners and judges  *)
(* cost, up to a bound, and yields one result for the campaign's memory;   *)
(* what lanes and assessment cost is left out.                             *)
(***************************************************************************)
EXTENDS Naturals, Sequences

CONSTANTS
    LaneChoices,      \* the sets of verification lanes a launch may request
    ResumeChoices,    \* the values of --resume-at and --resume-at-stage used together
    LimitChoices,     \* the iteration limits and budgets a launch may ask for
    MaxCallCost,      \* bound: what the planners, or the judges, of an iteration cost
    MaxInterruptions  \* bound: deaths and exceptions

NoStage == "no_stage"

STAGES == <<"static", "verification_packet_build", "focused_lead_confirmation",
            "local_live", "test_synthesis", "focused_closure", "assessment",
            "reporting">>
Stage == {STAGES[i] : i \in DOMAIN STAGES}
StageIndex(s) == CHOOSE i \in DOMAIN STAGES : STAGES[i] = s

\* The lanes; hosted and supply_chain are not stages of their own.
Lanes == {"local_live", "test_synthesis", "hosted", "supply_chain"}

\* --resume-at, and --resume-at-stage or NoStage.
ResumePoints == [resumeAt : {"auto", "verification", "assessment"},
                 stage : Stage \cup {NoStage}]
NotResumed == [resumeAt |-> "auto", stage |-> NoStage]

\* --max-iterations and --max-cost.
Limits == [maxIterations : Nat, maxCost : Nat]

ASSUME PipelineConstants ==
    /\ LaneChoices \subseteq SUBSET Lanes /\ LaneChoices # {}
    /\ ResumeChoices \subseteq ResumePoints
    /\ NotResumed \in ResumeChoices
    /\ LimitChoices \subseteq Limits /\ LimitChoices # {}
    /\ MaxCallCost \in Nat /\ MaxInterruptions \in Nat

Phase == {"scanning", "planning", "executing", "judging", "resurfacing",
          "verifying", "assessing", "completed", "failed"}
NoPhase == "no_phase"

VARIABLES
    stateFile,    \* state.json
    memoryFile,   \* memory.json: the number of iterations it has the results of
    stopFile,     \* the kill switch file exists
    reported,     \* a report of the campaign has been written
    pc,           \* where the process stands, "down" without one
    state,        \* its copy of the state
    memory,       \* its copy of the memory
    launch,       \* the resume point it was launched with
    lanes,        \* the verification lanes it was launched with
    checkpoint,   \* history: the last completed stage it resumed from
    pending,      \* the stage event it is about to append, NoEvent if none
    started,      \* the stages whose stage_started event it has appended
    completed,    \* the stages whose stage_completed event it has appended
    gate,         \* what the mid-pipeline gate has done in this life
    killed,       \* history: this life has seen the kill switch
    logged,       \* status of its investigation_completed event
    result,       \* how the last life ended
    begun,        \* history: the iterations begun in all lives
    spent,        \* history: what their recorded model calls have cost
    interruptions \* number of deaths and exceptions so far

files == <<stateFile, memoryFile, reported>>
own == <<state, memory, launch, lanes, checkpoint>>
log == <<pending, started, completed, logged>>
history == <<gate, killed, result, begun, spent, interruptions>>
vars == <<files, stopFile, pc, own, log, history>>

NoEvent == [kind |-> "none", stage |-> NoStage]

-----------------------------------------------------------------------------
(* The state and its changes.                                              *)

StateRecord == [phase : Phase \cup {NoPhase}, failurePhase : Phase \cup {NoPhase},
                iteration : Nat, cost : Nat, maxIterations : Nat, maxCost : Nat,
                lastCompletedStage : Stage \cup {NoStage},
                currentStage : Stage \cup {NoStage}]

NoState == [phase |-> NoPhase, failurePhase |-> NoPhase, iteration |-> 0, cost |-> 0,
            maxIterations |-> 0, maxCost |-> 0,
            lastCompletedStage |-> NoStage, currentStage |-> NoStage]
InitialState(limits) ==
    [NoState EXCEPT !.phase = "scanning", !.maxIterations = limits.maxIterations,
                    !.maxCost = limits.maxCost]
Exists(s) == s # NoState

Failed(s, phase) == [s EXCEPT !.phase = "failed", !.failurePhase = phase]

FirstStageForResume(l) ==
    IF l.stage # NoStage THEN l.stage
    ELSE CASE l.resumeAt = "verification" -> "verification_packet_build"
           [] l.resumeAt = "assessment"   -> "assessment"
           [] l.resumeAt = "auto"         -> NoStage

\* Bug: the checkpoint is the resume point itself.
CheckpointAt(s) == s
CheckpointBefore(s) ==
    IF StageIndex(s) = 1 THEN NoStage ELSE STAGES[StageIndex(s) - 1]

LeftAsIs(s, l) == s.phase = "completed" /\ l = NotResumed

\* The phase a resumed campaign continues with.  A failed campaign returns to
\* the phase it failed in, which may be "completed" or "failed".
ResumedPhase(s, l) ==
    CASE s.phase = "completed" /\ l.resumeAt = "verification" -> "verifying"
      [] s.phase = "completed" /\ l.resumeAt = "assessment"   -> "assessing"
      [] s.phase = "completed" /\ l.resumeAt = "auto" /\ l.stage # NoStage -> "scanning"
      [] s.phase = "failed" -> IF s.failurePhase = NoPhase THEN "planning"
                                                           ELSE s.failurePhase
      [] OTHER -> s.phase

Raised(old, new) == IF new > old THEN new ELSE old

\* Bug: the limits apply to each life.
ContinuedFromNothing(s, l, limits) ==
    [s EXCEPT !.phase = ResumedPhase(s, l), !.failurePhase = NoPhase,
              !.iteration = 0, !.cost = 0,
              !.maxIterations = limits.maxIterations, !.maxCost = limits.maxCost]
\* The limits of a resumed campaign can be raised, not lowered.
Continued(s, l, limits) ==
    [s EXCEPT !.phase = ResumedPhase(s, l),
              !.failurePhase = IF ResumedPhase(s, l) = "failed" THEN @ ELSE NoPhase,
              !.maxIterations = Raised(@, limits.maxIterations),
              !.maxCost = Raised(@, limits.maxCost)]

Resumed(s, l, limits) ==
    IF LeftAsIs(s, l) THEN s
    ELSE IF FirstStageForResume(l) = NoStage THEN Continued(s, l, limits)
    ELSE [Continued(s, l, limits) EXCEPT
            !.lastCompletedStage = CheckpointBefore(FirstStageForResume(l)),
            !.currentStage = NoStage]

WithinLimits == state.iteration < state.maxIterations /\ state.cost < state.maxCost

ShouldSkip(s) ==
    /\ launch.stage # NoStage
    /\ IF state.lastCompletedStage = NoStage
       THEN launch.stage # "static" /\ StageIndex(s) < StageIndex(launch.stage)
       ELSE StageIndex(s) <= StageIndex(state.lastCompletedStage)

-----------------------------------------------------------------------------
(* Steps shared by the stages.  The process goes on only when the event it *)
(* was appending is in the stream.                                         *)

At(here) == pc = here /\ pending = NoEvent

\* The process ends and takes its memory with it.
End(how) ==
    /\ result' = how
    /\ pc' = "down"
    /\ state' = NoState /\ memory' = 0 /\ checkpoint' = NoStage
    /\ pending' = NoEvent

Goto(next) ==
    /\ pc' = next
    /\ UNCHANGED <<files, stopFile, own, log, history>>

StartStage(s, next) ==
    /\ state' = [state EXCEPT !.currentStage = s]
    /\ stateFile' = state'
    /\ pending' = [kind |-> "stage_started", stage |-> s]
    /\ pc' = next
    /\ UNCHANGED <<memoryFile, stopFile, reported, memory, launch, lanes, checkpoint,
                   started, completed, logged, history>>

CompleteStage(s, next) ==
    /\ state' = [state EXCEPT !.lastCompletedStage = s, !.currentStage = NoStage]
    /\ stateFile' = state'
    /\ pending' = [kind |-> "stage_completed", stage |-> s]
    /\ pc' = next
    /\ UNCHANGED <<memoryFile, stopFile, reported, memory, launch, lanes, checkpoint,
                   started, completed, logged, history>>

SetPhase(phase, next) ==
    /\ stateFile' = [stateFile EXCEPT !.phase = phase]
    /\ state' = [state EXCEPT !.phase = phase]
    /\ pc' = next
    /\ UNCHANGED <<memoryFile, stopFile, reported, memory, launch, lanes, checkpoint,
                   log, history>>

AppendEvent ==
    /\ pending # NoEvent
    /\ pending' = NoEvent
    /\ started' = IF pending.kind = "stage_started"
                  THEN started \cup {pending.stage} ELSE started
    /\ completed' = IF pending.kind = "stage_completed"
                    THEN completed \cup {pending.stage} ELSE completed
    /\ UNCHANGED <<files, stopFile, pc, own, logged, history>>

-----------------------------------------------------------------------------
(* Start of a life.                                                        *)

Init ==
    /\ stateFile = NoState /\ memoryFile = 0 /\ reported = FALSE
    /\ stopFile = FALSE
    /\ pc = "down"
    /\ state = NoState /\ memory = 0 /\ checkpoint = NoStage
    /\ launch = NotResumed /\ lanes \in LaneChoices
    /\ pending = NoEvent /\ started = {} /\ completed = {} /\ logged = "none"
    /\ gate = "not_reached" /\ killed = FALSE /\ result = "none"
    /\ begun = 0 /\ spent = 0 /\ interruptions = 0

\* A process starts and gets the lock.  The first one starts a campaign, and may
\* be told to begin it at a later stage; the others resume it.
Launch ==
    /\ pc = "down"
    /\ launch' \in ResumeChoices
    /\ lanes' \in LaneChoices
    /\ pc' = "initialize"
    /\ started' = {} /\ completed' = {} /\ logged' = "none"
    /\ gate' = "not_reached" /\ killed' = FALSE /\ result' = "none"
    /\ UNCHANGED <<files, stopFile, state, memory, checkpoint, pending, begun, spent,
                   interruptions>>

InitializeCampaign ==
    /\ At("initialize")
    /\ \E limits \in LimitChoices :
          state' = IF Exists(stateFile) THEN Resumed(stateFile, launch, limits)
                                        ELSE InitialState(limits)
    /\ memory' = memoryFile
    /\ checkpoint' = state'.lastCompletedStage
    /\ pc' = "prepare"
    /\ UNCHANGED <<files, stopFile, launch, lanes, log, history>>

\* Event stream, archiver and role sessions are prepared, then the state written.
PrepareAndWriteState ==
    /\ At("prepare")
    /\ stateFile' = state
    /\ pc' = "preflight"
    /\ UNCHANGED <<memoryFile, stopFile, reported, own, log, history>>

AlreadyCompleted == state.phase = "completed" /\ launch.resumeAt = "auto"

ReturnAlreadyCompleted ==
    /\ At("preflight") /\ AlreadyCompleted
    /\ End("already_completed")
    /\ UNCHANGED <<files, stopFile, launch, lanes, started, completed, logged, gate,
                   killed, begun, spent, interruptions>>

\* Bug: whatever is launched runs.
BeginRegardless ==
    /\ At("preflight")
    /\ IF ShouldSkip("static") THEN Goto("verification")
                               ELSE StartStage("static", "static_loop")
\* investigation_started, then the static stage or the stages after it.
Begin ==
    /\ At("preflight") /\ ~AlreadyCompleted
    /\ IF ShouldSkip("static") THEN Goto("verification")
                               ELSE StartStage("static", "static_loop")

-----------------------------------------------------------------------------
(* The static stage: plan, execute and judge until a limit is reached.     *)

\* Bug: the state that setFailed wrote is not read back.
SeeKillSwitchOnDiskOnly ==
    /\ At("static_loop") /\ WithinLimits /\ stopFile
    /\ stateFile' = Failed(stateFile, state.phase)
    /\ killed' = TRUE
    /\ pc' = "close_static"
    /\ UNCHANGED <<memoryFile, stopFile, reported, own, log, gate, result,
                   begun, spent, interruptions>>
\* Bug: the loop goes on instead of ending.
SeeKillSwitchAndContinue ==
    /\ At("static_loop") /\ WithinLimits /\ stopFile
    /\ stateFile' = Failed(stateFile, state.phase)
    /\ state' = stateFile'
    /\ killed' = TRUE
    /\ pc' = "static_loop"
    /\ UNCHANGED <<memoryFile, stopFile, reported, memory, launch, lanes, checkpoint,
                   log, gate, result, begun, spent, interruptions>>
SeeKillSwitch ==
    /\ At("static_loop") /\ WithinLimits /\ stopFile
    /\ stateFile' = Failed(stateFile, state.phase)
    /\ state' = stateFile'
    /\ killed' = TRUE
    /\ pc' = "close_static"
    /\ UNCHANGED <<memoryFile, stopFile, reported, memory, launch, lanes, checkpoint,
                   log, gate, result, begun, spent, interruptions>>

\* Dormant signals resurface in some iterations; the phase is set in the file.
Resurface ==
    /\ At("static_loop") /\ WithinLimits /\ ~stopFile
    /\ stateFile' = [stateFile EXCEPT !.phase = "resurfacing"]
    /\ pc' = "resurfaced"
    /\ UNCHANGED <<memoryFile, stopFile, reported, own, log, history>>

\* The planner is invoked, perhaps the counter-planner, and what they cost
\* recorded in memory.
Plan ==
    /\ \/ At("static_loop") /\ WithinLimits /\ ~stopFile
       \/ At("resurfaced")
    /\ stateFile' = [stateFile EXCEPT !.phase = "planning"]
    /\ \E cost \in 0..MaxCallCost :
          /\ state' = [state EXCEPT !.phase = "planning", !.cost = @ + cost]
          /\ spent' = spent + cost
    /\ begun' = begun + 1
    /\ pc' = "execute"
    /\ UNCHANGED <<memoryFile, stopFile, reported, memory, launch, lanes, checkpoint,
                   log, gate, killed, result, interruptions>>

Execute == At("execute") /\ SetPhase("executing", "judge")

\* Judges, panels and tribunals are recorded in memory too.
Judge ==
    /\ At("judge")
    /\ stateFile' = [stateFile EXCEPT !.phase = "judging"]
    /\ \E cost \in 0..MaxCallCost :
          /\ state' = [state EXCEPT !.phase = "judging", !.cost = @ + cost]
          /\ spent' = spent + cost
    /\ pc' = "count"
    /\ UNCHANGED <<memoryFile, stopFile, reported, memory, launch, lanes, checkpoint,
                   log, gate, killed, result, begun, interruptions>>

CountIteration ==
    /\ At("count")
    /\ state' = [state EXCEPT !.iteration = @ + 1]
    /\ stateFile' = state'
    /\ memory' = memory + 1
    /\ pc' = "save_memory"
    /\ UNCHANGED <<memoryFile, stopFile, reported, launch, lanes, checkpoint, log, history>>

\* Bug: the memory is saved when the loop has nothing left to do.
SaveLastMemory ==
    /\ At("save_memory")
    /\ memoryFile' = IF WithinLimits THEN memoryFile ELSE memory
    /\ pc' = "static_loop"
    /\ UNCHANGED <<stateFile, stopFile, reported, own, log, history>>
SaveMemory ==
    /\ At("save_memory")
    /\ memoryFile' = memory
    /\ pc' = "static_loop"
    /\ UNCHANGED <<stateFile, stopFile, reported, own, log, history>>

LeaveLoop == At("static_loop") /\ ~WithinLimits /\ Goto("close_static")

CloseStatic == At("close_static") /\ CompleteStage("static", "verification")

-----------------------------------------------------------------------------
(* Verification.                                                           *)

VerificationRuns ==
    /\ state.phase # "failed"
    /\ lanes # {}
    /\ \E s \in {"verification_packet_build", "local_live", "test_synthesis"} :
            ~ShouldSkip(s)

SkipVerification == At("verification") /\ ~VerificationRuns /\ Goto("assessment")

BeginVerification ==
    /\ At("verification") /\ VerificationRuns
    /\ IF ShouldSkip("verification_packet_build")
       THEN Goto("confirmation")
       ELSE StartStage("verification_packet_build", "build_packets")

BuildPackets == At("build_packets") /\ SetPhase("verifying", "confirmation")

ConfirmLeads ==
    /\ At("confirmation")
    /\ IF ShouldSkip("focused_lead_confirmation")
       THEN Goto("gate")
       ELSE StartStage("focused_lead_confirmation", "close_confirmation")
CloseConfirmation ==
    At("close_confirmation") /\ CompleteStage("focused_lead_confirmation", "gate")

\* The mid-pipeline gate; a smoke run passes whatever is missing.
PassGate ==
    /\ At("gate")
    /\ gate' = "passed"
    /\ pc' = "local_live"
    /\ UNCHANGED <<files, stopFile, own, log, killed, result, begun, spent, interruptions>>
AbortAtGate ==
    /\ At("gate")
    /\ gate' = "aborted"
    /\ pc' = "close_packets"
    /\ UNCHANGED <<files, stopFile, own, log, killed, result, begun, spent, interruptions>>

RunsLane(lane) == lane \in lanes /\ ~ShouldSkip(lane)

LocalLive ==
    /\ At("local_live")
    /\ IF RunsLane("local_live") THEN StartStage("local_live", "close_local_live")
                                 ELSE Goto("test_synthesis")
CloseLocalLive == At("close_local_live") /\ CompleteStage("local_live", "test_synthesis")

TestSynthesis ==
    /\ At("test_synthesis")
    /\ IF RunsLane("test_synthesis")
       THEN StartStage("test_synthesis", "close_test_synthesis")
       ELSE Goto("close_packets")
CloseTestSynthesis ==
    At("close_test_synthesis") /\ CompleteStage("test_synthesis", "close_packets")

\* The first verification stage is completed after the lanes, and takes the
\* checkpoint back to itself.
ClosePackets ==
    /\ At("close_packets")
    /\ IF "verification_packet_build" \in started
       THEN CompleteStage("verification_packet_build", "assessment")
       ELSE Goto("assessment")

-----------------------------------------------------------------------------
(* Assessment, with the focused closure inside it, and reporting.          *)

Assess ==
    /\ At("assessment")
    /\ IF state.phase # "failed" /\ ~ShouldSkip("assessment")
       THEN StartStage("assessment", "assess")
       ELSE Goto("closure")
AssessPanel == At("assess") /\ SetPhase("assessing", "closure")

FocusedClosure ==
    /\ At("closure")
    /\ IF state.phase # "failed" /\ ~ShouldSkip("focused_closure")
       THEN StartStage("focused_closure", "close_closure")
       ELSE Goto("close_assessment")
CloseClosure ==
    At("close_closure") /\ CompleteStage("focused_closure", "close_assessment")

CloseAssessment ==
    /\ At("close_assessment")
    /\ IF "assessment" \in started THEN CompleteStage("assessment", "reporting")
                                   ELSE Goto("reporting")

Report ==
    /\ At("reporting")
    /\ IF ShouldSkip("reporting") THEN Goto("return")
                                  ELSE StartStage("reporting", "set_completed")

\* Bug: the state that setCompleted wrote is not read back.
SetCompletedOnDiskOnly ==
    /\ At("set_completed")
    /\ stateFile' = IF state.phase = "failed" THEN stateFile
                    ELSE [stateFile EXCEPT !.phase = "completed"]
    /\ pc' = "log_outcome"
    /\ UNCHANGED <<memoryFile, stopFile, reported, own, log, history>>
SetCompleted ==
    /\ At("set_completed")
    /\ IF state.phase = "failed"
       THEN UNCHANGED <<stateFile, state>>
       ELSE stateFile' = [stateFile EXCEPT !.phase = "completed"] /\ state' = stateFile'
    /\ pc' = "log_outcome"
    /\ UNCHANGED <<memoryFile, stopFile, reported, memory, launch, lanes, checkpoint, log,
                   history>>

Outcome == IF state.phase = "failed" THEN "failed" ELSE "completed"

\* The investigation_completed event.
LogOutcome ==
    /\ At("log_outcome")
    /\ logged' = Outcome
    /\ pc' = "write_report"
    /\ UNCHANGED <<files, stopFile, own, pending, started, completed, history>>

WriteReport ==
    /\ At("write_report")
    /\ reported' = TRUE
    /\ pc' = "close_reporting"
    /\ UNCHANGED <<stateFile, memoryFile, stopFile, own, log, history>>

CloseReporting == At("close_reporting") /\ CompleteStage("reporting", "return")

Return ==
    /\ At("return")
    /\ End(Outcome)
    /\ UNCHANGED <<files, stopFile, launch, lanes, started, completed, logged, gate,
                   killed, begun, spent, interruptions>>

-----------------------------------------------------------------------------
(* Exceptions, deaths and the operator.                                    *)

\* Any step may throw.  Before the state is read nothing is written about it.
Throw ==
    /\ pc \notin {"down", "catch"}
    /\ interruptions < MaxInterruptions
    /\ interruptions' = interruptions + 1
    /\ IF pc = "initialize"
       THEN End("threw")
       ELSE /\ pending' = NoEvent
            /\ pc' = "catch"
            /\ UNCHANGED <<result, state, memory, checkpoint>>
    /\ UNCHANGED <<files, stopFile, launch, lanes, started, completed, logged, gate,
                   killed, begun, spent>>

\* setFailed changes the file, whose progress may be behind the memory's; when
\* there is no file yet it throws in turn.
Catch ==
    /\ pc = "catch"
    /\ stateFile' = IF Exists(stateFile) THEN Failed(stateFile, state.phase) ELSE stateFile
    /\ End("threw")
    /\ UNCHANGED <<memoryFile, stopFile, reported, launch, lanes, started, completed,
                   logged, gate, killed, begun, spent, interruptions>>

Crash ==
    /\ pc # "down"
    /\ interruptions < MaxInterruptions
    /\ interruptions' = interruptions + 1
    /\ End("died")
    /\ UNCHANGED <<files, stopFile, launch, lanes, started, completed, logged, gate,
                   killed, begun, spent>>

ToggleStopFile ==
    /\ stopFile' = ~stopFile
    /\ UNCHANGED <<files, pc, own, log, history>>

PipelineStep ==
    \/ AppendEvent \/ InitializeCampaign \/ PrepareAndWriteState
    \/ ReturnAlreadyCompleted \/ Begin
    \/ SeeKillSwitch \/ Resurface \/ Plan \/ Execute \/ Judge
    \/ CountIteration \/ SaveMemory \/ LeaveLoop \/ CloseStatic
    \/ SkipVerification \/ BeginVerification \/ BuildPackets
    \/ ConfirmLeads \/ CloseConfirmation \/ PassGate \/ AbortAtGate
    \/ LocalLive \/ CloseLocalLive \/ TestSynthesis \/ CloseTestSynthesis
    \/ ClosePackets \/ Assess \/ AssessPanel \/ FocusedClosure \/ CloseClosure
    \/ CloseAssessment \/ Report \/ SetCompleted \/ LogOutcome \/ WriteReport
    \/ CloseReporting \/ Return \/ Catch

Next == PipelineStep \/ Launch \/ Throw \/ Crash \/ ToggleStopFile

Spec == Init /\ [][Next]_vars

\* A process that lives goes on with its next step.
FairSpec == Spec /\ WF_vars(PipelineStep)

-----------------------------------------------------------------------------
(* Properties.                                                             *)

PCs == {"down", "initialize", "prepare", "preflight", "static_loop", "resurfaced",
        "execute", "judge", "count", "save_memory", "close_static", "verification",
        "build_packets", "confirmation", "close_confirmation", "gate", "local_live",
        "close_local_live", "test_synthesis", "close_test_synthesis",
        "close_packets", "assessment", "assess", "closure", "close_closure",
        "close_assessment", "reporting", "set_completed", "log_outcome",
        "write_report", "close_reporting", "return", "catch"}

\* The variables keep their types; a campaign that exists has a phase, and one
\* that failed the phase it failed in.
TypeOK ==
    /\ stateFile \in StateRecord /\ state \in StateRecord
    /\ Exists(stateFile) => stateFile.phase # NoPhase
    /\ stateFile.phase = "failed" => stateFile.failurePhase # NoPhase
    /\ memoryFile \in Nat /\ memory \in Nat
    /\ stopFile \in BOOLEAN /\ reported \in BOOLEAN
    /\ pc \in PCs
    /\ launch \in ResumePoints /\ lanes \subseteq Lanes
    /\ checkpoint \in Stage \cup {NoStage}
    /\ pending \in [kind : {"none", "stage_started", "stage_completed"},
                    stage : Stage \cup {NoStage}]
    /\ started \subseteq Stage /\ completed \subseteq Stage
    /\ gate \in {"not_reached", "passed", "aborted"} /\ killed \in BOOLEAN
    /\ logged \in {"none", "completed", "failed"}
    /\ result \in {"none", "already_completed", "completed", "failed", "threw", "died"}
    /\ begun \in Nat /\ spent \in Nat /\ interruptions \in Nat

FirstStage == IF launch.stage = NoStage THEN "static" ELSE launch.stage

\* The verification stages that the lanes asked for, and the gate, leave out.
LeftOut ==
    IF lanes = {}
    THEN {"verification_packet_build", "focused_lead_confirmation", "local_live",
          "test_synthesis"}
    ELSE {s \in {"local_live", "test_synthesis"} : gate = "aborted" \/ s \notin lanes}

\* A life runs exactly the stages of its tail, although those it runs move the
\* checkpoint forward and, after the lanes, back: --resume-at-stage re-runs no
\* stage before the one it names, focused_closure finds the assessment of this
\* life (the assertion executiveAssessment!), and a life that returns "completed"
\* has completed every stage of the tail, apart from the lanes nobody asked for
\* or the gate has aborted.
TailIsRun ==
    /\ launch.stage # NoStage =>
         \A s \in started : StageIndex(s) >= StageIndex(launch.stage)
    /\ "focused_closure" \in started => "assessment" \in started
    /\ result = "completed" =>
         \A s \in Stage \ LeftOut :
             StageIndex(s) >= StageIndex(FirstStage) => s \in completed

\* Every iteration that state.json counts has its results in memory.json, but
\* for one per death or exception.
IterationsAreRemembered ==
    stateFile.iteration <=
        memoryFile + interruptions + (IF pc = "save_memory" THEN 1 ELSE 0)

MaxIterationCost == 2 * MaxCallCost

\* Over all lives the static loop begins no more iterations than the limit in
\* state.json, which a resume may have raised, but for one per death or exception.
\* The budget is compared before an iteration only: the last one may exceed it by
\* all it costs, and so may one more per death or exception, whose cost is forgotten.
BudgetOverrunIsBounded ==
    /\ begun <= stateFile.maxIterations + interruptions
    /\ spent > 0 =>
          spent < stateFile.maxCost + MaxIterationCost * (1 + interruptions)

\* What a life returns is what state.json and its investigation_completed event say.
OutcomeIsRecorded ==
    result \in {"completed", "failed"} => stateFile.phase = result /\ logged = result

\* After the kill switch a life starts no stage but reporting, and returns
\* "failed" if it returns.
KillSwitchSticks ==
    killed => started \subseteq {"static", "reporting"} /\ result # "completed"

\* A completed campaign is taken up again only when the operator names a resume
\* point; without one nothing but an exception of the life that looked at it
\* changes its phase.
ReopenedOnDemand ==
    [][stateFile.phase = "completed" /\ stateFile'.phase # "completed" =>
        launch.resumeAt # "auto" \/ launch.stage # NoStage \/ pc = "catch"]_vars

\* A process that does not die ends its life, with the kill switch or without.
EveryLifeEnds == pc # "down" ~> pc = "down"

\* A resumed campaign skips every stage up to state.lastCompletedStage
\* (resume-checkpoint.ts:4).
CheckpointIsHonoured ==
    checkpoint # NoStage /\ pc # "initialize" =>
        \A s \in started : StageIndex(s) > StageIndex(checkpoint)

\* "already_completed" is returned only when nothing else was asked for and the
\* campaign has its report (OPERATOR-GUIDE 10.1: a resume continues from the last
\* incomplete stage; 10.2: --resume-at-stage re-runs from that stage).
AlreadyCompletedIsTrue ==
    result = "already_completed" => reported /\ launch.stage = NoStage
=============================================================================
