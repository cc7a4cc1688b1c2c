------------------------------ MODULE VerifyRun ------------------------------
(***************************************************************************)
(* The verification command (verify-cli.ts): a source lane that asks a     *)
(* model about each candidate of a report (source-verify-runner.ts), a     *)
(* runtime lane that starts the target in Docker and has each candidate    *)
(* probed there (runtime-verify-runner.ts), and a manifest that says how   *)
(* the run ended.                                                          *)
(*                                                                         *)
(* Runs of the command follow each other in one output directory, by       *)
(* default pvr-submissions in the target's repository, and find there what *)
(* the runs before them have left.  An answer of a model is any answer.  A *)
(* monitor event or a file that cannot be written is a fault; the bound    *)
(* MaxFaults is on those of a run.  Not modelled: --dry-run, scorecards,   *)
(* recommendations and the benchmark registry, which read the artifacts.   *)
(***************************************************************************)
EXTENDS DegradationLadder, GateSupervisor, Sequences

CONSTANTS
    MaxRuns,        \* bound: runs of the command
    MaxCandidates,  \* bound: candidates of a report
    MaxAudit,       \* bound: findings of the bug-class audit
    MaxFaults       \* bound: writes that fail in a run

ASSUME VerifyConstants ==
    {MaxRuns, MaxCandidates, MaxAudit, MaxFaults} \subseteq Nat

VARIABLES
    pc,           \* where the command stands
    run,          \* runs begun in this output directory
    launch,       \* the options of this run
    lane,         \* "source" or "runtime"
    current,      \* the candidate the lane is at
    answers,      \* results pushed for each candidate of the lane
    muddled,      \* history: candidates with a monitor write that failed
    survivors,    \* results and audit findings of the source lane not refuted
    sourcePath,   \* sourceArtifactPath is set
    failing,      \* the lane, or afterwards the run, has thrown
    degradation,  \* degradationState
    setup,        \* what the Docker setup came to
    containers,   \* containers of this run are up
    dotenv,       \* the bootstrap .env: "absent", "ours" or "left"
    tornDown,     \* history: docker compose down has been called
    sourceFile,   \* source-verification.json: who wrote it, has it candidates
    runtimeFile,  \* the run that wrote runtime-verification.json, or 0
    exitStatus,   \* exitStatus in main
    manifest,     \* manifest.json
    faults        \* writes that have failed in this run

\* What a lane works on, what it leaves on the machine, and what it leaves in
\* the output directory.
work == <<lane, current, answers, muddled, survivors>>
target == <<setup, containers, dotenv, tornDown>>
files == <<sourceFile, runtimeFile>>
vars == <<pc, run, launch, work, sourcePath, failing, degradation, target,
          files, exitStatus, manifest, faults>>

Modes == {"source", "runtime", "full"}
\* --verification-mode, --skip-audit, --disable-degradation, --source-artifact,
\* and whether the runtime lane's provider is bounded_local.
Launches ==
    [mode : Modes, audit : BOOLEAN, ladder : BOOLEAN, artifact : BOOLEAN,
     bounded : BOOLEAN]
\* Options that a mode does not look at have one value.
Distinct(l) ==
    /\ l.mode = "runtime" => ~l.audit
    /\ l.mode # "runtime" => ~l.artifact
    /\ l.mode = "source" => l.bounded

Statuses == {"success", "failure", "partial"}
NoFile == [run |-> 0, empty |-> TRUE]

Init ==
    /\ pc = "idle" /\ run = 0
    /\ launch = [mode |-> "source", audit |-> FALSE, ladder |-> FALSE,
                 artifact |-> FALSE, bounded |-> TRUE]
    /\ lane = "source" /\ current = 1 /\ answers = <<>> /\ muddled = {}
    /\ survivors = 0 /\ sourcePath = FALSE /\ failing = FALSE
    /\ degradation = createDegradationState
    /\ setup = "none" /\ containers = FALSE /\ dotenv = "absent"
    /\ tornDown = FALSE /\ sourceFile = NoFile /\ runtimeFile = 0
    /\ exitStatus = "success"
    /\ manifest = [run |-> 0, status |-> "open", runtime |-> 0] /\ faults = 0

\* A write that fails, within the bound.
Fault == faults < MaxFaults /\ faults' = faults + 1

\* recordAnomaly, unless --disable-degradation.
Ladder(kind) ==
    IF launch.ladder THEN recordAnomaly(degradation, kind) ELSE degradation

\* noteDegradationProgress: noProgressTimeoutMs may have passed.
Progressed(state) ==
    IF launch.ladder THEN {state, Stalled(state)} ELSE {state}

\* The catch of main.
Catch ==
    /\ pc' = "finalize"
    /\ failing' = TRUE
    /\ exitStatus' = IF sourcePath THEN "partial" ELSE "failure"

\* The lane throws: main's finally for the stage comes next.
Throw == pc' = "exit" /\ failing' = TRUE

Push == answers' = [answers EXCEPT ![current] = @ + 1]
PushPending ==
    answers' = [j \in DOMAIN answers |-> answers[j] + (IF j >= current THEN 1 ELSE 0)]

\* A result of the source lane goes on to the runtime lane unless it is refuted.
Surviving(status) ==
    survivors' = survivors + (IF lane = "source" /\ status # "refuted" THEN 1 ELSE 0)

Halted == launch.ladder /\ halt(degradation)

\* emitCandidateStart, or candidate_end in the catch, throws: it ends the source
\* lane, and in the runtime lane leads to the teardown.
Abandon ==
    /\ pc' = IF lane = "source" THEN "exit" ELSE "teardown"
    /\ failing' = TRUE

(***************************************************************************)
(* main: launch, stages, exit status                                       *)
(***************************************************************************)
\* Monitor, manifest and run_start come before the try.
Launch ==
    /\ pc = "idle" /\ run < MaxRuns
    /\ run' = run + 1
    /\ launch' \in {l \in Launches : Distinct(l)}
    /\ lane' = "source" /\ current' = 1 /\ answers' = <<>> /\ muddled' = {}
    /\ survivors' = 0 /\ sourcePath' = FALSE /\ failing' = FALSE
    /\ degradation' = createDegradationState
    /\ setup' = "none" /\ containers' = FALSE /\ tornDown' = FALSE
    /\ dotenv' = IF dotenv = "absent" THEN "absent" ELSE "left"
    /\ exitStatus' = "success"
    /\ \/ /\ faults' = 0
          /\ manifest' = [run |-> run', status |-> "open", runtime |-> 0]
          /\ pc' = IF launch'.mode = "runtime" THEN "between" ELSE "enter"
       \/ /\ MaxFaults > 0 /\ faults' = 1 /\ pc' = "idle"
          /\ \/ UNCHANGED manifest
             \/ manifest' = [run |-> run', status |-> "open", runtime |-> 0]
    /\ UNCHANGED files

\* emitStageEnter, before the stage's own try.
EnterStage ==
    /\ pc = "enter"
    /\ \/ pc' = "load" /\ UNCHANGED <<failing, exitStatus, faults>>
       \/ Fault /\ Catch
    /\ UNCHANGED <<run, launch, work, sourcePath, degradation, target, files, manifest>>

\* emitStageExit, in the stage's finally.
ExitStage ==
    /\ pc = "exit"
    /\ \/ /\ ~failing
          /\ pc' = IF lane = "source" THEN "between" ELSE "finalize"
          /\ UNCHANGED <<failing, exitStatus, faults>>
       \/ failing /\ Catch /\ UNCHANGED faults
       \/ Fault /\ Catch
    /\ UNCHANGED <<run, launch, work, sourcePath, degradation, target, files, manifest>>

\* Between the stages: --source-artifact is looked up, and a source artifact
\* without candidates makes the run a failure.
\* Bug: an artifact without candidates is not noticed.
UseSourceArtifactUnread ==
    /\ pc = "between"
    /\ sourcePath' = (sourcePath \/ launch.artifact)
    /\ lane' = "runtime"
    /\ pc' = IF launch.mode = "source" THEN "finalize" ELSE "enter"
    /\ UNCHANGED <<run, launch, current, answers, muddled, survivors, failing,
                   degradation, target, files, exitStatus, manifest, faults>>
UseSourceArtifact ==
    /\ pc = "between"
    /\ \/ /\ ~launch.artifact
          /\ exitStatus' = IF sourcePath /\ sourceFile.empty
                           THEN "failure" ELSE exitStatus
          /\ UNCHANGED <<survivors, sourcePath>>
       \/ /\ launch.artifact /\ sourcePath' = TRUE
          /\ survivors' \in 0 .. MaxCandidates
          /\ exitStatus' \in {exitStatus, "failure"}
    /\ lane' = "runtime"
    /\ pc' = IF launch.mode = "source" THEN "finalize" ELSE "enter"
    /\ UNCHANGED <<run, launch, current, answers, muddled, failing, degradation,
                   target, files, manifest, faults>>

\* --source-artifact names no file.
NoSourceArtifact ==
    /\ pc = "between" /\ launch.artifact
    /\ Catch
    /\ UNCHANGED <<run, launch, work, sourcePath, degradation, target, files,
                   manifest, faults>>

\* The manifest names whatever runtime artifact is in the directory, and a run
\* that failed is then a partial one.
Finalize ==
    /\ pc = "finalize" /\ pc' = "idle"
    /\ exitStatus' = IF exitStatus = "failure" /\ runtimeFile # 0
                     THEN "partial" ELSE exitStatus
    /\ \/ /\ manifest' = [run |-> run, status |-> exitStatus', runtime |-> runtimeFile]
          /\ UNCHANGED faults
       \/ Fault /\ UNCHANGED manifest
    /\ UNCHANGED <<run, launch, work, sourcePath, failing, degradation, target, files>>

(***************************************************************************)
(* The lanes: candidates and the Docker setup                              *)
(***************************************************************************)
\* The report or the source artifact cannot be read, an adapter cannot be made,
\* Docker does not start, or the session of another provider fails.
LoadFails ==
    /\ pc = "load" /\ Throw
    /\ UNCHANGED <<run, launch, work, sourcePath, degradation, target, files,
                   exitStatus, manifest, faults>>

Load(n) ==
    /\ answers' = [j \in 1 .. n |-> 0] /\ current' = 1 /\ muddled' = {}
    /\ UNCHANGED <<run, launch, lane, survivors, sourcePath, failing, degradation,
                   target, files, exitStatus, manifest, faults>>

\* A report without candidates leads to an empty artifact.
LoadSource ==
    /\ pc = "load" /\ lane = "source"
    /\ \E n \in 0 .. MaxCandidates :
         Load(n) /\ pc' = IF n = 0 THEN "write" ELSE "next"

\* The candidates are those of the source artifact, up to the candidate limit,
\* or without one those of the campaign or its report.
LoadRuntime ==
    /\ pc = "load" /\ lane = "runtime" /\ launch.bounded
    /\ \E n \in IF sourcePath THEN 0 .. survivors ELSE 0 .. MaxCandidates :
         /\ sourcePath => (n = 0 <=> survivors = 0)
         /\ Load(n) /\ pc' = IF n = 0 THEN "write" ELSE "setup"

\* Another provider than bounded_local gets one prompt and writes no artifact.
RunSession ==
    /\ pc = "load" /\ lane = "runtime" /\ ~launch.bounded
    /\ Load(0) /\ pc' = "exit"

\* A .env that the compose file asks for is created where there is none.
bootstrapEnvFile ==
    dotenv' \in IF dotenv = "absent" THEN {"absent", "ours"} ELSE {dotenv}

\* A service that answers on a port of the compose file is used as it is;
\* otherwise a model starts the target, and may report success or not whether
\* or not containers are up.
SetUp ==
    /\ pc = "setup" /\ pc' = "announce"
    /\ bootstrapEnvFile
    /\ \/ setup' = "reused" /\ UNCHANGED containers
       \/ setup' \in {"ok", "failed"} /\ containers' \in BOOLEAN
    /\ UNCHANGED <<run, launch, work, sourcePath, failing, degradation, tornDown,
                   files, exitStatus, manifest, faults>>

\* emitDockerSetup stands before the try whose finally tears down.
AnnounceSetup ==
    /\ pc = "announce"
    /\ \/ /\ degradation' \in Progressed(IF setup = "failed"
                                         THEN Ladder("docker_failure") ELSE degradation)
          /\ \/ setup = "failed" /\ PushPending /\ pc' = "teardown"
             \/ setup # "failed" /\ pc' = "next" /\ UNCHANGED answers
          /\ UNCHANGED <<failing, faults>>
       \/ Fault /\ Throw /\ UNCHANGED <<answers, degradation>>
    /\ UNCHANGED <<run, launch, lane, current, muddled, survivors, sourcePath,
                   target, files, exitStatus, manifest>>

(***************************************************************************)
(* The loop over the candidates                                            *)
(***************************************************************************)
AfterLoop == IF lane = "source" THEN "audit" ELSE "teardown"

LoopEnds ==
    /\ pc = "next" /\ current > Len(answers)
    /\ pc' = AfterLoop
    /\ UNCHANGED <<run, launch, work, sourcePath, failing, degradation, target,
                   files, exitStatus, manifest, faults>>

\* At the last level every candidate left gets a result saying so.
\* Bug: the candidate that the lane has reached is left out.
HaltLoopAfterCurrent ==
    /\ pc = "next" /\ current <= Len(answers) /\ Halted
    /\ answers' = [j \in DOMAIN answers |-> answers[j] + (IF j > current THEN 1 ELSE 0)]
    /\ survivors' = survivors + (IF lane = "source" THEN Len(answers) - current ELSE 0)
    /\ current' = Len(answers) + 1 /\ pc' = AfterLoop
    /\ UNCHANGED <<run, launch, lane, muddled, sourcePath, failing, degradation,
                   target, files, exitStatus, manifest, faults>>
HaltLoop ==
    /\ pc = "next" /\ current <= Len(answers) /\ Halted
    /\ PushPending
    /\ survivors' =
         survivors + (IF lane = "source" THEN Len(answers) - current + 1 ELSE 0)
    /\ current' = Len(answers) + 1 /\ pc' = AfterLoop
    /\ UNCHANGED <<run, launch, lane, muddled, sourcePath, failing, degradation,
                   target, files, exitStatus, manifest, faults>>

\* A candidate with a review policy that is not critical; only those of a source
\* artifact have one.
SkipNonCritical ==
    /\ pc = "next" /\ lane = "runtime" /\ current <= Len(answers) /\ ~Halted
    /\ sourcePath /\ launch.ladder /\ ~allowNonCriticalRuntime(degradation)
    /\ Push /\ current' = current + 1
    /\ UNCHANGED <<pc, run, launch, lane, muddled, survivors, sourcePath, failing,
                   degradation, target, files, exitStatus, manifest, faults>>

\* emitCandidateStart; in the runtime lane of a critical candidate, or one
\* without a policy, or at a level that allows all of them.
StartCandidate ==
    /\ pc = "next" /\ current <= Len(answers) /\ ~Halted
    /\ \/ pc' = "invoke" /\ UNCHANGED <<failing, faults>>
       \/ Fault /\ Abandon
    /\ UNCHANGED <<run, launch, work, sourcePath, degradation, target, files,
                   exitStatus, manifest>>

\* The model's call throws, or the session log cannot be written.
InvokeFails ==
    /\ pc = "invoke" /\ pc' = "caught"
    /\ UNCHANGED <<run, launch, work, sourcePath, failing, degradation, target,
                   files, exitStatus, manifest, faults>>

\* A probe session without a tool call does not count as a probe.
NoToolCalls ==
    /\ pc = "invoke" /\ lane = "runtime" /\ pc' = "report"
    /\ Push
    /\ UNCHANGED <<run, launch, lane, current, muddled, survivors, sourcePath,
                   failing, degradation, target, files, exitStatus, manifest, faults>>

\* executeGate.  Its classification is announced before it is counted.
Gate(class) ==
    /\ pc = "invoke" /\ class \in Classifications(lane)
    /\ \/ /\ degradation' = IF class = NoFailure \/ gateClassToAnomalyKind(class) = "none"
                            THEN degradation ELSE Ladder(gateClassToAnomalyKind(class))
          /\ \/ /\ GateMaySucceed(class) /\ pc' = "judge"
                /\ UNCHANGED <<answers, survivors>>
             \/ /\ GateMayFail(class) /\ pc' = "report"
                /\ Push /\ Surviving("needs_runtime")
          /\ UNCHANGED faults
       \/ /\ class # NoFailure /\ Fault /\ pc' = "caught"
          /\ UNCHANGED <<answers, survivors, degradation>>
    /\ UNCHANGED <<run, launch, lane, current, muddled, sourcePath, failing, target,
                   files, exitStatus, manifest>>

\* resolveDefendedFindingStatus: a positive finding that names defences needs
\* its residual sink, bypass and proof.
SourceStatus == {"supported", "weakened", "refuted", "needs_runtime"}
Positive == {"supported", "weakened"}
resolveDefendedFindingStatus(status, defended, proven) ==
    IF status \in Positive /\ defended /\ ~proven THEN "needs_runtime" ELSE status

\* resolveDefenseCriticOverride: the critic may lift a refutation only with a
\* concrete sink, and to "weakened" only with a bypass and a proof.
resolveDefenseCriticOverride(override, sink, proven) ==
    IF override = "none" \/ ~sink THEN "refuted"
    ELSE IF override = "weakened" /\ proven THEN "weakened"
    ELSE "needs_runtime"

CriticStatuses ==
    {resolveDefenseCriticOverride(o, s, p) :
        o \in {"none", "weakened", "needs_runtime"}, s \in BOOLEAN, p \in BOOLEAN}

\* The defence critic looks at a refutation that rests on a defence, at level 0.
CriticRuns(status, defended) ==
    /\ status = "refuted" /\ defended
    /\ launch.ladder => enableSecondaryFollowups(degradation)

\* A parsed answer of the source lane.  The downgrade's event, and the log entry
\* of a critic that failed, may not be written: the answer is then lost.
JudgeSource(answered, defended, proven) ==
    LET status == resolveDefendedFindingStatus(answered, defended, proven)
    IN  /\ pc = "judge" /\ lane = "source"
        /\ \/ /\ pc' = "report" /\ Push /\ UNCHANGED faults
              /\ \E s \in IF CriticRuns(status, defended) THEN CriticStatuses ELSE {status} :
                   Surviving(s)
           \/ /\ status # answered \/ CriticRuns(status, defended)
              /\ Fault /\ pc' = "caught" /\ UNCHANGED <<answers, survivors>>
        /\ UNCHANGED <<run, launch, lane, current, muddled, sourcePath, failing,
                       degradation, target, files, exitStatus, manifest>>

\* A parsed answer of the runtime lane, downgraded by the validator or not.
\* The validator's rules never count as fabrication: the runner looks for
\* "fabricat" in their names, and none has it.
JudgeRuntime ==
    /\ pc = "judge" /\ lane = "runtime" /\ pc' = "report"
    /\ Push
    /\ UNCHANGED <<run, launch, lane, current, muddled, survivors, sourcePath,
                   failing, degradation, target, files, exitStatus, manifest, faults>>

\* candidate_end, and validator_downgrade in the runtime lane, are written after
\* the result was pushed.
Report ==
    /\ pc = "report"
    /\ \/ /\ pc' = "next" /\ current' = current + 1
          /\ degradation' \in Progressed(degradation)
          /\ UNCHANGED <<muddled, faults>>
       \/ /\ Fault /\ pc' = "caught" /\ muddled' = muddled \cup {current}
          /\ UNCHANGED <<current, degradation>>
    /\ UNCHANGED <<run, launch, lane, answers, survivors, sourcePath, failing,
                   target, files, exitStatus, manifest>>

\* The catch of a candidate pushes its own result, whatever was pushed before.
Caught ==
    /\ pc = "caught"
    /\ Push /\ Surviving("needs_runtime")
    /\ \/ /\ pc' = "next" /\ current' = current + 1
          /\ degradation' \in Progressed(degradation)
          /\ UNCHANGED <<failing, faults>>
       \/ Fault /\ Abandon /\ UNCHANGED <<current, degradation>>
    /\ UNCHANGED <<run, launch, lane, muddled, sourcePath, target, files,
                   exitStatus, manifest>>

(***************************************************************************)
(* The ends of the lanes                                                   *)
(***************************************************************************)
Audits == launch.audit /\ (launch.ladder => enableAudit(degradation))

\* The bug-class audit may fail; what it finds joins the candidates of the
\* runtime lane.
Audit ==
    /\ pc = "audit" /\ pc' = "write"
    /\ \/ /\ Audits /\ survivors' \in survivors .. survivors + MaxAudit
          /\ degradation' \in Progressed(degradation)
       \/ ~Audits /\ UNCHANGED <<survivors, degradation>>
    /\ UNCHANGED <<run, launch, lane, current, answers, muddled, sourcePath, failing,
                   target, files, exitStatus, manifest, faults>>

\* cleanupBootstrapEnvFiles; a file that cannot be removed stays.
Sweep ==
    /\ pc' = IF failing THEN "exit" ELSE "write"
    /\ UNCHANGED failing
    /\ \/ dotenv' = (IF dotenv = "ours" THEN "absent" ELSE dotenv) /\ UNCHANGED faults
       \/ dotenv = "ours" /\ Fault /\ UNCHANGED dotenv

\* docker compose down runs under this run's own project name, so that it does
\* not touch a service that was there before; it may fail.
\* Bug: the teardown follows the loop and is not in a finally.
TearDownAfterLoop ==
    /\ pc = "teardown"
    /\ \/ setup \notin {"ok", "reused"} /\ Sweep /\ UNCHANGED <<containers, tornDown>>
       \/ failing /\ Sweep /\ UNCHANGED <<containers, tornDown>>
       \/ /\ setup \in {"ok", "reused"} /\ ~failing /\ tornDown' = TRUE
          /\ containers' \in {FALSE, containers}
          /\ \/ Sweep
             \/ Fault /\ Throw /\ UNCHANGED dotenv
    /\ UNCHANGED <<run, launch, work, sourcePath, degradation, setup, files,
                   exitStatus, manifest>>
TearDown ==
    /\ pc = "teardown"
    /\ \/ setup \notin {"ok", "reused"} /\ Sweep /\ UNCHANGED <<containers, tornDown>>
       \/ /\ setup \in {"ok", "reused"} /\ tornDown' = TRUE
          /\ containers' \in {FALSE, containers}
          /\ \/ Sweep
             \/ Fault /\ Throw /\ UNCHANGED dotenv
    /\ UNCHANGED <<run, launch, work, sourcePath, degradation, setup, files,
                   exitStatus, manifest>>

WriteSource ==
    /\ pc = "write" /\ lane = "source"
    /\ \/ /\ sourceFile' = [run |-> run, empty |-> answers = <<>>]
          /\ sourcePath' = TRUE /\ pc' = "exit" /\ UNCHANGED <<failing, faults>>
       \/ Fault /\ Throw /\ UNCHANGED <<sourceFile, sourcePath>>
    /\ UNCHANGED <<run, launch, work, degradation, target, runtimeFile, exitStatus,
                   manifest>>

\* The reports that follow the runtime artifact may fail as well.
WriteRuntime ==
    /\ pc = "write" /\ lane = "runtime"
    /\ \/ runtimeFile' = run /\ pc' = "exit" /\ UNCHANGED <<failing, faults>>
       \/ Fault /\ Throw /\ runtimeFile' \in {runtimeFile, run}
    /\ UNCHANGED <<run, launch, work, sourcePath, degradation, target, sourceFile,
                   exitStatus, manifest>>

\* The process is killed; nothing of it handles a signal.
Kill ==
    /\ pc # "idle" /\ pc' = "idle"
    /\ UNCHANGED <<run, launch, work, sourcePath, failing, degradation, target,
                   files, exitStatus, manifest, faults>>

Next ==
    \/ Kill \/ Launch \/ EnterStage \/ ExitStage \/ UseSourceArtifact \/ NoSourceArtifact
    \/ Finalize \/ LoadFails \/ LoadSource \/ LoadRuntime \/ RunSession
    \/ SetUp \/ AnnounceSetup \/ LoopEnds \/ HaltLoop \/ SkipNonCritical
    \/ StartCandidate \/ InvokeFails \/ NoToolCalls
    \/ \E class \in GateFailureClass \cup {NoFailure} : Gate(class)
    \/ \E answered \in SourceStatus, defended \in BOOLEAN, proven \in BOOLEAN :
         JudgeSource(answered, defended, proven)
    \/ JudgeRuntime \/ Report \/ Caught \/ Audit \/ TearDown
    \/ WriteSource \/ WriteRuntime

Spec == Init /\ [][Next]_vars

(***************************************************************************)
(* Properties                                                              *)
(***************************************************************************)
Places == {"idle", "between", "enter", "load", "setup", "announce", "next",
           "invoke", "judge", "report", "caught", "audit", "teardown", "write",
           "exit", "finalize"}

\* The command's variables keep their types.
TypeOK ==
    /\ pc \in Places /\ run \in Nat /\ launch \in Launches
    /\ lane \in {"source", "runtime"} /\ current \in Nat \ {0}
    /\ answers \in Seq(Nat) /\ muddled \in SUBSET Nat /\ survivors \in Nat
    /\ sourcePath \in BOOLEAN /\ failing \in BOOLEAN
    /\ degradation \in DegradationState
    /\ setup \in {"none", "ok", "failed", "reused"} /\ containers \in BOOLEAN
    /\ dotenv \in {"absent", "ours", "left"} /\ tornDown \in BOOLEAN
    /\ sourceFile \in [run : Nat, empty : BOOLEAN] /\ runtimeFile \in Nat
    /\ exitStatus \in Statuses
    /\ manifest \in [run : Nat, status : Statuses \cup {"open"}, runtime : Nat]
    /\ faults \in Nat

\* Before a lane writes its artifact every candidate has a result in it,
\* whatever threw, halted or was skipped on the way, and has a second one only
\* if a monitor event could not be written after the first was pushed.
AnswersAreComplete ==
    pc = "write" =>
        \A j \in DOMAIN answers :
            answers[j] >= 1 /\ (answers[j] > 1 => j \in muddled)

\* The ladder stops a run before its anomalies exceed the threshold, but for a
\* Docker setup that fails after the halt, which is attempted at every level, and
\* for a threshold below two: a first period of inactivity leads to level 2 however
\* low the threshold is, and only the anomaly after it to the halt.
HaltsAt == IF CumulativeHaltThreshold < 2 THEN 2 ELSE CumulativeHaltThreshold
AnomaliesAreBounded ==
    cumulativeCount(degradation.anomalyCounts)
      <= HaltsAt + degradation.anomalyCounts["docker_failure"]

\* A target that candidates were probed on has been torn down when the runtime
\* lane is left, however it is left; and only a write that failed leaves a
\* bootstrap .env in the target's repository.
TargetIsTornDown ==
    pc \in {"exit", "finalize"} =>
        /\ lane = "runtime" /\ setup \in {"ok", "reused"} =>
             tornDown \/ (failing /\ \A j \in DOMAIN answers : answers[j] = 0)
        /\ dotenv = "ours" => faults > 0

\* What the manifest says of a run that has ended: a success has written the
\* artifact of each lane of its mode, the source artifact with candidates; a
\* failure has left no runtime artifact, and a partial run some artifact.
StatusMatchesArtifacts ==
    pc = "idle" /\ manifest.run = run =>
        /\ manifest.status = "success" =>
             /\ ~failing
             /\ launch.mode # "runtime" => sourceFile.run = run /\ ~sourceFile.empty
             /\ launch.mode # "source" /\ launch.bounded => runtimeFile = run
        /\ manifest.status = "failure" => runtimeFile = 0
        /\ manifest.status = "partial" => sourcePath \/ runtimeFile # 0
=============================================================================
