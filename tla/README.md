# Formal models of Security Lab

TLA+ specifications of the parts of this repository whose correctness depends on
the order in which things happen: processes that compete for a campaign, writes
that fail half way, crashes between two steps, timeouts that race an answer.
Each module is a translation of the TypeScript it names; TLC checks it on small
instances and TLAPS proves the properties that matter most for all instances.

`PROJECT.json` lists the runs with their configurations, maps every definition to
the source lines it stands for, and lists the hazards the properties are aimed at.

## 1. The system

Security Lab runs *campaigns* against a target repository. Three packages:

* `packages/attack-lab`: the campaign itself. `autonomous/` holds the pipeline
  and everything that controls it, `providers/` the model adapters,
  `verification/` the lanes that confirm findings, `supply-chain/`,
  `intelligence/`, `orchestration/` and `probes/` the rest.
* `packages/evidence-plane`: the append-only evidence stream of a run and its
  reports.
* `packages/security-runtime`: the authorisation of single probes.

### Components, their state and what makes them correct

| Component | Source | State | Operations | Hard behaviour | Correct when |
|---|---|---|---|---|---|
| Writer lock | `autonomous/campaign-lock.ts` | a lock file, shared by processes and hosts; `acquired`, `shuttingDown` | acquire, reclaim, release, exit and signal handlers | interleaved contenders, kills, locks of other hosts, age | one writer at a time, no lock left behind, a dead owner replaced, acquire and shutdown end |
| Evidence store | `evidence-plane/src/store.ts`, `hash-chain.ts` | `events.jsonl`, `manifest.json`; chain in memory; write queue | prepare, appendEvent, manifest writers, verifyChain | failed and partial writes, crash between write and commit, repair on restart | acknowledged events keep their place, the stream verifies, manifest is a prefix |
| Report and verify command, integrity check | `evidence-plane/src/cli/report.ts`, `autonomous/evidence-integrity.ts` | none of its own | reads manifest, then events; checks the chain in memory | reads while a campaign writes | no false alarm |
| Campaign pipeline | `autonomous/investigation-runner-internals.ts`, `state.ts`, `resume-checkpoint.ts`, `stages/` | `state.json` and a copy in memory, `memory.json`, the kill switch file, emitted stage events | initialise, eight stages, resume points, kill switch, reporting, setFailed | exceptions and crashes between any two steps; two copies of the state | a resume runs its tail, limits bind over all lives, the recorded outcome is the one returned |
| Run modes | `autonomous/mode.ts`, the gate and the reporting stage of the pipeline | none: gaps and statuses in memory | evaluate readiness, summarise, merge, adjust | two modes decide, a resumed life has forgotten its gaps | a serious run without its required coverage does not report "complete" |
| Probe batches | `autonomous/scheduler.ts`, `worker-pool.ts`, the probe loop of the pipeline | queue, map of active promises, counts per target and kind, `memory.probeFingerprints` | gate, enqueue, start, finish, kill, addCost | concurrent probes, three caps, early ends | bounded concurrency, every probe settles once and is not run again |
| Campaign memory | `autonomous/campaign-memory.ts`, `weak-signal-ledger.ts`, `attack-graph.ts` | findings, signals and graph on disk | record, merge, advance, save | crash before a save | nothing recorded is lost, a signal moves through its states in order |
| Verification command and runners | `autonomous/verify-cli.ts`, `source-verify-runner.ts`, `runtime-verify-runner.ts` | results per candidate, two artifacts, a manifest, containers of the target | load, ask, gate, judge, audit, set up, tear down, finalize | a failing write or call at any place, a halt between candidates, runs that share an output directory | every candidate has a result, the target is torn down, the status is borne out by the artifacts |
| Degradation ladder, gate supervisor | `autonomous/degradation-ladder.ts`, `gate-supervisor.ts` | anomaly counters, level | record, escalate, classify, repair | failures counted on three ways to the same level | the ladder halts in time |
| Providers, heartbeat, panels | `providers/retry.ts`, `timeout.ts`, adapters, `autonomous/heartbeat.ts`, `orchestration/judge-panel.ts` | a race of request and timer, retries, a global listener | call, time out, retry, beat | timers that outlive the call's failure write to the evidence | whoever writes after the lock is known |
| Rate limiter, reversible mutations | `verification/local-live/rate-limiter.ts`, `reversible-mutation.ts` | request count, streak, latencies, stopped; journal (never filled) | acquire, recordResult | stop during a wait | the cap holds |
| Probe authorisation | `security-runtime/src/runtime.ts` | the kill switch file it looks for | authorizeProbe | the file appears after the look | a stop ends what is sent |
| Hosted lane | `verification/hosted/`, `runHostedLane` | limiter, incident and baseline, daily budget file, audit file | admit, preflight, acquire, audit, fetch, record | campaigns share a file rewritten in place, a crash between any two steps, an append that leaves a part of its line | what is sent is audited, the budget and the stop files bind |
| Local live lane | `autonomous/investigation-runner-local-live.ts`, `verification/local-live/` | target process, packet queue, rounds, limiter | prepare, authorise, send, follow up, record, stop | authorisations older than the requests, any await may throw | a target that can be shut down is, fetches are counted, a stop file ends the round, the lane ends |
| Knowledge base | `knowledge-base/store.ts` | one file per target, shared by campaigns | load, merge, save | two campaigns at once | nothing learned is lost |
| Judging and reporting | `orchestration/`, `judge.ts`, `evidence-plane/src/investigation-report.ts` | verdicts, rendered text | assess, vote, render | quorum with failed judges | a verdict needs its votes |

The other components (profiles, prompts, scanners, CLI, doctor, benchmarks, ...)
are listed in `PROJECT.json` with the reason why they are not modelled.

Interactions: the pipeline acquires the writer lock first and releases it last;
a signal handler of the lock drains the evidence store while the pipeline is
still running; every stage appends to the evidence store through its queue and
saves the campaign state; timers of model calls append without being awaited;
the report command reads the store's files from another process; the static loop
hands its gated probes to a scheduler; lanes call targets through the rate
limiter and the policy of `security-runtime`; what the lanes find comes back to the reporting
stage as gaps, which the run mode turns into the report's status; campaigns on one host share the
hosted budget file; runs of the verification command share its output directory.

Hazards that were seen and that no property covers: a signal while the pipeline
has the lock but has not prepared the store, when two `prepare` calls could run
at once (`investigation-runner-internals.ts:2738`); a probe is recorded before
it is executed, and is suppressed as a duplicate if a cut batch never ran it (3232);
the pid of a dead owner reused by another process (`campaign-lock.ts:456`);
`emitEvent` failing after a reclaim, which leaves the lock held until the process
exits (`campaign-lock.ts:281`; the state is in `CampaignWriter`, as "over" with
the lock "held"); a late answer of a timed-out request, whose cost nobody counts
(`timeout.ts:70`); an append that fails with its whole line in the file, so that
the next one repeats its index (`store.ts:131`).

## 2. Modules

| Module | Role |
|---|---|
| `CampaignLock` | one action per step of acquire, reclaim, release and the handlers, for any set of processes |
| `MCCampaignLock` | the instances: three processes, two placements |
| `CampaignLockProofs` | types, exclusion, no orphan, causes of robbery, for all instances; no robbery between two processes |
| `HashChain` | the chain of events as operators on sequences |
| `EvidenceLog` | the abstract promise of the evidence store |
| `EvidenceStore` | the store: queue, memory, two files, faults, crashes |
| `MCEvidenceStore` | the faults of the bare store's run |
| `EvidenceStoreProofs` | types, safety and the refinement of `EvidenceLog` |
| `EvidenceReport` | extends the store with its readers: `--verify` in another process, and the closing check |
| `MCEvidenceReport` | the faults of that run |
| `CampaignWriter` | composes the store with who writes to it: pipeline, shutdown hook, timers of model calls |
| `MCCampaignWriter` | all faults of an append |
| `StoreUsersProofs` | readers and writers: both compositions implement the store; no false alarm, and who still writes when the lock is given back |
| `CampaignPipeline` | the lives of one campaign: stages, state file and copy, resume points, interruptions |
| `MCCampaignPipeline` | the resume points and lanes of its runs |
| `CoverageStatus` | run modes, the mid-pipeline gate, the lanes' summaries, the status of the report and the exit code, as operators |
| `CampaignCoverage` | composes both: what a life may report, by the stages it has run |
| `MCCampaignCoverage` | a required lane that is asked for, and one that is not |
| `CampaignPipelineProofs` | types, budgets over lives, remembered results, kill switch, outcome, tails, reopening, failing closed, earned completeness |
| `ProbePool` | abstract: what a batch of probes promises the campaign |
| `ProbeBatch` | gating, batch and scheduler loop of the static stage's probes |
| `MCProbeBatch` | four probes on two targets, of two kinds |
| `ProbeBatchProofs` | types, caps, completeness of a batch, no probe twice, refinement of `ProbePool` |
| `RateLimiter` | the limiter as a value, used by both lanes |
| `ProbePolicy` | `authorizeProbe` as operators, used by both lanes |
| `HostedLane` | campaigns on one hosted target, their shared files, crashes and relaunches |
| `MCHostedLane` | two campaigns, one of which may be resumed |
| `HostedLaneProofs` | types, audit, budget, stop files, the limiter of a life |
| `LocalLive` | the local live lane with target, rounds and Mythos sub-lane |
| `MCLocalLive` | two packets of two rounds |
| `LocalLiveProofs` | types, stop file, accounting, shutdown |
| `DegradationLadder` | anomalies, levels and what they switch off, as operators |
| `GateSupervisor` | classes of bad answers, their repair and their anomaly, as operators |
| `VerifyRun` | the verification command with its two lanes, over both |
| `MCVerifyRun` | two runs in one output directory |
| `VerifyRunProofs` | types, complete answers, ladder, teardown, status |

The modules meet at named seams. `CampaignWriter` and `EvidenceReport` take every
step of `EvidenceStore` and say who causes it and who looks on. `HostedLane` and
`LocalLive` extend `RateLimiter` and `ProbePolicy`, and `VerifyRun` extends
`DegradationLadder` and `GateSupervisor`: the shared code is written down once.
`CampaignPipeline` is what a process does while
`CampaignLock` says it holds the campaign; its `AppendEvent` is an `append` of
`EvidenceStore`, and it waits for it as the code awaits `appendEvent`;
`CampaignPipeline`'s `Execute` is one batch of `ProbeBatch`.

Definitions whose comment starts with "Bug:" are not part of any specification.
They are variants of the definition that follows, and show that the property
named with them in `PROJECT.json` ("mutants") notices the mistake.

### CampaignLock

An element of `Procs` is one process life. `lock` is the file at the lock path:
absent, unparseable, or naming the process that linked it there. `phase[p]` is
the statement `p` stands before; each `await` of `acquire`, `reclaim` and
`release` ends an action, and what runs between two awaits is one action.
`lockAge` is the file's age on the code's two thresholds
(`INVALID_LOCK_GRACE_MS`, `staleLockMs`). `seen[p]` is what `p` has read, which
the file need not contain any more. `robbed` is a history variable: owners whose
file was removed by somebody else.

| Code | Model |
|---|---|
| `acquire` | `Start`, `TryCreateExclusive(p, "create", "read")`, `ReadExistingLock`, `JudgeExisting`, `JudgeUnreadable`, `DiscardUnreadable`, `CreateFails` |
| `reclaim` | `RemoveStale`, `TryCreateExclusive(p, "recreate", "refused")` |
| `markAcquired`, `isStale`, `isPidAlive` | `MarkAcquired`, `IsStale`, `IsPidAlive` (false also for another user's process: EPERM) |
| `release` | `Release`, `RemoveOwn` |
| `handleSignal`, exit handler | `Signal`, `ExitHolding` |
| the rest of the world | `Exit`, `Kill`, `Tick` |

### EvidenceStore, EvidenceLog, HashChain

`lines` and `tail` are `events.jsonl` (complete lines, and the text after the
last newline), `manifest` is `manifest.json`. `prepared`, `hashChain` and `event`
are the store's memory. `writeQueue` holds the operations that were enqueued
and have not settled; `at` is the await the first of them stands at. `acked` is
a history variable: the events whose `appendEvent` resolved.

| Code | Model |
|---|---|
| `enqueue` | `Enqueue`, `Settle` |
| `prepare`, `loadExistingEvents` | `Load`, `Repair`, `RepairFails`, `PrepareReturns` (a `prepare` called by itself) |
| `appendEvent` | `ComputeNext`, `WritePart`, `WriteRest`, `WriteFails`, `Commit` |
| `writeSummary`, `writeInvestigationSummary`, `writeManifest` | `WriteManifest`, `WriteManifestFails` |
| `HashChain.next`, `verify` | `Successor`, `Valid`; hashes are the numbers of the events computed (SHA-256 taken to be collision free) |
| death, new process | `Crash`, `Restart` |

`EvidenceLog` says what callers rely on: `Record` appends a successor to the
log, `Acknowledge` acknowledges the last event. `EvidenceStore` implements it
with `log <- lines`: every other step of the store, repair included, is a stutter.

### CampaignPipeline

A life is one process. `state` is its copy of the state, `stateFile` is
`state.json`: the stages write the copy over the file, while `setPhase`,
`setFailed` and `setCompleted` read, change and write back the file
(`StateStore`). Both hold the limits, which a resume may raise. `memory` and `memoryFile` count the iterations whose results
`CampaignMemory` holds, in the process and on disk. `launch` is the pair
`--resume-at`, `--resume-at-stage`, which may be given to a fresh campaign too: that one
starts at the later stage; `lanes` the lanes requested. A launch asks for limits of
`LimitChoices`. `pending` is the
event a stage is about to append, since a death can fall between the write of
the state and the append. `started`, `completed` and `logged` are what the life has appended.

| Code | Model |
|---|---|
| `initializeCampaign` | `InitializeCampaign`, `Resumed`, `ResumedPhase`, `Continued`, with `Raised` limits |
| `firstStageForResume`, `checkpointBefore`, `shouldSkipStage` | `FirstStageForResume`, `CheckpointBefore`, `ShouldSkip` |
| `emitStageStarted`, `emitStageCompleted` | `StartStage`, `CompleteStage`, then `AppendEvent` |
| static loop | `SeeKillSwitch`, `Resurface`, `Plan`, `Execute`, `Judge`, `CountIteration`, `SaveMemory`, `LeaveLoop`, `CloseStatic` |
| verification stages and lanes | `BeginVerification` to `ClosePackets`; the mid-pipeline gate is `PassGate` or `AbortAtGate` |
| assessment, closure, reporting | `Assess` to `Return` |
| the `catch` of the pipeline | `Throw` (from any place), `Catch` |
| the rest of the world | `Launch`, `Crash`, `ToggleStopFile` |

An iteration of the static loop yields one result and costs what its planners (`Plan`) and
its judges (`Judge`) cost, each anything up to `MaxCallCost`; `WithinLimits` compares the sum
with the budget at the loop's head only. `begun` and `spent` are histories of
the iterations and of the recorded costs of all lives. What a call that failed or timed out has cost is
recorded nowhere in the code, and not in `spent`; what lanes, assessment and report cost is left out: the budget
properties are about the static loop.
When the kill switch has been seen and the report then fails, the state's
`failurePhase` becomes `"failed"`; the model does this as the code does.

### CoverageStatus and CampaignCoverage

A gap keeps its lane, severity and `required`; a lane's summary is its status. The
pipeline's `gate` and `started` say which lanes of a life have run; what they, the gate, the closure and
the assessment found is in no file, so it is not in the state of the model either: `Verifications` and
`OtherFindings` are all that a life may have found, and the properties quantify over them where the life reports.

| Code | Model |
|---|---|
| `evaluateCoverageAgainstMode`, `evaluateMidPipelineReadiness` | `IncompleteGaps`, `ReadinessGaps`, `ShouldAbort` |
| the two ways to a run mode | `GateMode` (1548), `ReportMode` (3932) |
| `runVerificationLanes`, its summary | `MissingLanes`, `RunVerificationLanes` |
| `buildMidPipelineGateVerificationSummary`, `mergeMidPipelineGateVerificationSummary` | `GateSummary`, `Merged` |
| the reporting stage | `ObservedStatus`, `ReportGaps`, `StatusInMode`, `ReportStatus` |
| options and exit code of the command (`cli.ts:364-375`, `770-782`) | `CliOptions`, `ConfigOf`, `OptsOut`, `ExitCode` |

### ProbeBatch

A task is the index of an accepted probe. `active` is the set of tasks whose
promise is in the scheduler's `Map`; a `Map` has one entry per key, which is the
probe's fingerprint, so `SameId` says which entries a finishing task removes.
`running` is what is really being executed: that the two agree is not assumed but
proved. `pc = "fill"` is the synchronous part of the loop, in which no promise
can settle. `ProbePool` knows neither queue nor map: `Pool` maps a batch that is under way to
`open`, its tasks without a result to `outstanding`, what really runs to `executing`, and a kill
or a spent budget to `cut`.

| Code | Model |
|---|---|
| probe gating in the static loop | `Request`, `SuppressDuplicate`, `Block`, `Accept` |
| `executeProbeBatch` | `StartBatch` |
| `runAll` | `EnterLoop`, `StartTask`, `EndFill`, `Wake`, `Drain`; `LoopEnds` |
| `enqueue`, `canSchedule`, `incrementCount`, `decrementCount` | `Before`, `CanSchedule`, `Increment`, `Decrement` |
| settlement of a task's promise | `Finish` |
| `kill`, `addCost` | `kill`, `addCost` |

### EvidenceReport

`report` is where the command stands, `checkpoint` the manifest it has read before
the stream, `verdict` what the last check that ended has said: its errors, whether the
stream was being written or unprepared at that moment, and whether every acknowledged
event was among those checked.

| Code | Model |
|---|---|
| `loadCheckpoint` | `LoadCheckpoint` |
| `verifyRunDirectory`, `buildVerification` | `ReadEvents`, `Verdict`, `Errors` |
| `verifyCampaignEvidence` | `VerifyCampaignEvidence`, which looks at the chain in memory |

### CampaignWriter

`writer` is where the pipeline stands, `callers` says for each operation in the
store's queue who enqueued it, `calls` is each judge's model call: racing a timer,
or delayed before a retry. `hook` and `undrained` follow the shutdown hook;
`undrained` counts the operations that `drain` has found in the queue and still
waits for. `why` is a history variable: what has happened in this life that
allows others to write after the pipeline.

| Code | Model |
|---|---|
| `acquire`, `reclaim`, `prepare`, the lock's events and its listener | `Acquire`, `InitializeCampaign`, `SetListener` |
| `campaign_resumed`, the early return, `target_resolved` | `AnnounceTarget`, `ReturnAlreadyCompleted`, `Begin` |
| a stage's events, its model calls, its exceptions | `AppendEvent`, `InvokeModels`, `Throw` |
| the catch and the finally | `RecordFailure`, `Release` |
| `runJudgePanel`, `runCampaignAssessmentPanel` | `SettleCall`: the first failure ends the `Promise.all`, the other calls go on |
| adapters, `withRequestTimeout`, `withRetry`, `withHeartbeat` | `Answer`, `TimeOut`, `Retry`, `Heartbeat` |
| `onSignal`, `drain`, `handleSignal` | `Signal`, `Drained`, `HookTimesOut`, `ReleaseOnSignal` |
| what awaits an operation goes on | `OperationResolves`, `OperationRejects`, `PipelineGoesOn`, `CallerGoesOn`, by `Continuation` |
| the rest of the world | `ProcessEnds`, `NextProcess` |

### HostedLane, RateLimiter, ProbePolicy

`pc[c]` is the await or the synchronous file operation a campaign stands at:
where two campaigns on one host can come between (`readFileSync` and the two
halves of `writeFileSync` of the budget), each is an action. `life` counts a
campaign's processes; memory (`limiter`, `incident`, `baseline`) is lost with a
process, files (`stopFiles`, `budget`, `audit`) are not. An audit file has its `lines`, may end in
a part of a line (`partial`), and is `broken` once it has had one: nothing repairs it, and `readAll` returns
nothing then. An ingress check that mutates counts as opted in (`OptedIn`), where the code passes no opt-in
for it and refuses it: the model sends more than the code. `disturbed` records that an update
of the budget file was lost, by a death or a failure in it, or by two campaigns in it at once.

| Code | Model |
|---|---|
| `runHostedLane`, `AuthorizationGate.check` | `Decline`, `Admit`, `Refuse`, `Result`, `Summary`, `RecordFails` |
| `executeHostedProbe` before the request | `Block`, `AutoStop`, `Reject`, `acquire` |
| the request, recorded before it is sent | `StartAudit`, `StartAuditFails`, `Fetch`; `AuditTrail` is `Recording`, `Tearing`, `readAll` |
| its outcome | `Respond`, `TimeOut`, `CompleteAudit`, `CompleteAuditFails` |
| `AutoStopMonitor` | `loadBudget`, `preflight`, `Respond`, `Truncate`, `Write`, `PersistFails`, `Judge` |
| the end of a process, the rest of the world | `End`; `Crash`, `Relaunch`, `Stop` |

### LocalLive

`undecided` are the probes still to be authorised, `work` those authorised and not
yet sent, `executable` the round's, which a sequence and an identity
differential send again. `pending`, `counted` and `lost` split what was `sent`, which counts the
fetches of probes: the redirects that a fetch follows (`live-replay.ts:337`) and the polls of `waitForReadiness`
(`target-lifecycle.ts:432`), which the limiter does not see either, are not counted. `commands` are those that the target's profile
names; `target` says that the lane has started the target and it has not been stopped.

| Code | Model |
|---|---|
| `runLocalLiveLane` up to its `try` | `Skip`, `Prepare`, `Ready`, `StartFails`, `GiveUp`, `SetupFails`, `Enter` |
| authorisation of a round | `Decide`, `Decided` |
| `executeLiveProbe`, `executeLiveProbeBatch` | `Withhold`, `Refuse`, `acquire`, `Fetch`, `Respond`, `TimeOut`, `BadUrl`, `BatchEnds` |
| packets and rounds | `NextPacket`, `Translate`, `Chain`, `Compare`, `Record`, `RecordFails` |
| `runAdaptiveExploration` | `Unsurprised`, `FollowUp`, `Surprised` |
| the Mythos sub-lane and its tools | `Invoke`, `Submit`, `CallsEnd`, `Return` |
| any other await that throws | `Fail` |
| `stop()`, the `finally` and after it | `RunShutdown`, `StopTarget`, `Close` |
| the operator | `CreateStopFile` |

### VerifyRun, DegradationLadder, GateSupervisor

One `pc` goes through both lanes; `lane` says which. `answers[j]` counts the
results pushed for candidate `j`, so that a missing and a double one both show.
`sourceFile`, `runtimeFile` and `manifest` are the files of the output directory and
survive from one run to the next. An answer of a model is any answer; a write that
fails is a `Fault`.

| Code | Model |
|---|---|
| `main` of `verify-cli.ts` | `Launch`, `EnterStage`, `ExitStage`, `UseSourceArtifact`, `NoSourceArtifact`, `Finalize`, `Catch` |
| loading of candidates, other providers | `LoadFails`, `LoadSource`, `LoadRuntime`, `RunSession` |
| Docker setup and teardown | `SetUp`, `AnnounceSetup`, `TearDown`, `Sweep` |
| the candidate loops | `LoopEnds`, `HaltLoop`, `SkipNonCritical`, `StartCandidate`, `InvokeFails`, `NoToolCalls`, `JudgeSource`, `JudgeRuntime`, `Report`, `Caught` |
| `executeGate` | `Gate`, with `GateSupervisor` |
| `recordAnomaly`, `checkNoProgressTimeout`, `behaviorForLevel` | `recordAnomaly`, `Stalled`, `halt`, `enableAudit`, ... of `DegradationLadder` |
| the ends of the lanes | `Audit`, `WriteSource`, `WriteRuntime` |
| the rest of the world | `Kill` |

## 3. Runs

The type invariants are proved (section 4), and not repeated by a run.

| Run | Configuration | Distinct states | What it shows |
|---|---|---|---|
| `lock` | `CampaignLock.cfg` | 82 345 | exclusion until a file is taken from its owner, the five ways this happens, no orphan, acquire and shutdown end, a dead owner is replaced |
| `lock_single_writer` | `CampaignLockSingleWriter.cfg` | violated | exclusion itself does not hold, even for one user on one host |
| `store` | `EvidenceStore.cfg` | 222 430 | with appends that fail before writing, and any number of checks from outside and inside: the stream always verifies, acknowledged events last, memory is the disk, the manifest is a prefix, no check raises a false alarm, the store implements the log |
| `store_faults` | `CampaignWriter.cfg` | 767 858 | however appends fail and whoever writes: acknowledged lines stay, a broken stream is left alone by unprepared stores, the queue moves, and who still writes when the lock is given back is known |
| `store_partial_write` | `EvidenceStorePartialWrite.cfg` | violated | a partly written line followed by another append makes the stream unreadable |
| `pipeline` | `CampaignPipeline.cfg` | 680 358 | resume points, tails, budgets over lives, remembered results, kill switch, outcome, reopening, and that lives end; when a serious run reports "complete", and that it fails closed |
| `pipeline_resume` | `CampaignPipelineResume.cfg` | violated | `--resume-at` alone does not make a resume skip anything |
| `pipeline_completed` | `CampaignPipelineCompleted.cfg` | violated | a failed report can be hidden behind `already_completed` |
| `probe_batch` | `ProbeBatch.cfg` | 133 853 | caps for what really runs, complete returns, the scheduler implements `ProbePool`, batches return |
| `hosted` | `HostedLane.cfg` | 4 020 925 | what was sent is read back from the audit file over crashes and failing appends while none has left a part of a line, and is in its lines but for a first request of a resumed process then; the daily budget holds but for answers under way while no update is lost, a stop file lets one request through at most |
| `local_live` | `LocalLive.cfg` | 3 952 044 | at most a round's worth of fetches follows the stop file, fetches are counted, a probed target is shut down however the lane ends if its profile names a command for it, and the lane ends |
| `verify` | `VerifyRun.cfg` | 2 924 482 | every artifact has a result for every candidate, the ladder halts in time, a probed target is torn down, the manifest's status is borne out by the artifacts |

### Bounds, and why they are enough

* Lock: three process lives. A late reclaim needs a dead owner, a fast and a
  slow contender, and an owner robbed by it; no cause of robbery takes more than
  a robber, a victim and the process whose lock the robber has judged. The
  shared placement has two processes on one host and one on another. All are of
  one user: with several users the run grows without new steps, so the cause
  `RobsOtherUser` is covered by the theorem only.
* Store: four events (`MaxComputed`, which leaves room for every waiting operation), two operations in the queue (`MaxQueue`),
  two crashes (`MaxCrashes`). Two crashes let a process die while it repairs what
  another death has torn, and leave a third process that reads the result. A step
  touches the last line of the stream only. The checks need no bound.
* Writers: a panel of two, so that one call can fail while the other goes on; a queue of
  three, which is the pipeline's operation, the hook's and a timer's; four events; two
  deaths, of which the first leaves the lock to be reclaimed and the second is met while
  that reclaim is still being announced. How often a call is retried is not bounded.
* Pipeline: a launch asks for one iteration or two and a budget of one; planners and judges cost zero or one
  (`MaxCallCost`). With one iteration the first limit binds, with two the budget does, in
  the middle of an iteration or at its end, and a resume may raise the first limit from one to two. The raise of the budget goes the
  same way and is covered by the theorem only. One interruption (`MaxInterruptions`): it gives a life that fails or dies and
  one that resumes it; the number of lives that end well is not bounded, so that a campaign is
  resumed many times. More interruptions are covered by the theorems. No lane or both, every resume point, with a
  fresh campaign as well. The two violations
  need one iteration and one interruption. The lane a target requires is one that is
  asked for or one that is not (`RequiredChoices`): a second required lane adds gaps, and
  gaps only raise the status. All run modes, statuses and sets of readiness gaps are taken.
* Batch: four probes of two kinds on two targets, caps 3, 2 and 2, so that each cap is
  the one that binds in some state; two batches of at most four requests, so that
  a request repeats one of its own batch, or of the batch before.
* Hosted: two campaigns, a daily budget of one and one request per campaign's limiter, so that
  each limit binds; a streak of one; one of the campaigns may be relaunched once; one
  stop file, in any of the three places. The first request of a process is then its only one; that the later ones of a resumed
  process have their lines is shown by the theorem. A lost update needs two writers only.
* Local: three profiles, with both commands, with a startup command only, and with none; a limiter of eight, which may end in the middle of a round, a sequence, a
  follow-up or the sub-lane, or not at all; rounds of two probes, two identities, two
  packets (the second joins the queue while the first is worked off) of two rounds, one
  invocation of a worker with two calls.
* Verify: two runs in one directory, two candidates each, two failing writes each, so that
  an event and the event of its own catch can fail; thresholds small enough for two candidates to
  take the ladder through every level. Other thresholds, those the code ships and those below two, are
  covered by the theorem, which holds for all integers.

### Fairness, and what justifies it

* `CampaignLock`: weak fairness of each process's own next step (a process that is
  not killed goes on) and of the release that ends the shutdown hook
  (`withTimeout`, `SHUTDOWN_TIMEOUT_MS`). Nothing makes a process start, a
  healthy holder let go, or a signal or a kill arrive.
* `EvidenceStore`: weak fairness of `Progress`, which is the three operation actions of
  `CampaignWriter`: file operations end, in success or failure. None for callers, timers,
  signals, crashes or restarts.
* `CampaignPipeline`: weak fairness of `PipelineStep`: a process that does not die
  goes on. No fairness for launches, and none against interruptions, which are
  bounded in number.
* `ProbeBatch`: weak fairness of the loop and of each running probe's end; every
  executor has a timeout (10 s unless the probe says otherwise).
* `LocalLive`: weak fairness of `Lane`: every await settles, since requests, commands and
  model calls have time limits and the store's operations end. The operator need not do anything.
* `HostedLane` and `VerifyRun` are checked for safety only and state no fairness: a hosted
  request waits for an operator's answer, and a verification run may be killed anywhere.

### Deadlock

The check for deadlock is off where the modelled system may stop: all processes of a lock
have exited, a store's bounded number of events is used up and no crash is left,
all batches have returned, all lanes have ended, the bounded runs of the command are over. It is on for the pipeline.

## 4. Proofs

TLAPS proves, for every value of the constants that the named assumptions admit
(`LockConstants`, `StoreConstants`, `PipelineConstants`, `CoverageConstants`, `BatchConstants`,
`ReportConstants`, `LimiterConstants`, `HostedConstants`, `LocalConstants`,
`ThresholdsAssumption`, `VerifyConstants`). Of what the code does not
bound they bound only the cost of an iteration's planners and of its judges (`MaxCallCost`) and, by counting them, the interruptions
(`MaxInterruptions`), each by any number. The ladder's thresholds may be any integers: `--degradation-thresholds` is
not validated. One that is not a number is outside the model: the code's comparisons with it are false, and nothing ever halts.

| Module | Theorem | States |
|---|---|---|
| `CampaignLockProofs` | `TypeCorrect`, `MutualExclusionUnlessRobbed`, `NoOrphans`, `RobberyHasKnownCause` | `TypeOK`, `SingleWriterUnlessRobbed`, `NoOrphanLock`, `RobberyOnlyByKnownCauses` |
| | `TwoProcessesExclude` | `SingleWriter`, which the run `CampaignLockSingleWriter.cfg` refutes, for two processes of one user on one host that find no file |
| `EvidenceStoreProofs` | `TypeCorrect`, `AcknowledgedLinesStay`, `CorruptedStreamsAreLeftAlone` | `TypeOK`, `AckedReadable`, `FailsClosed`, whatever way appends fail |
| | `StreamAlwaysVerifies`, `AcknowledgedEventsLast`, `MemoryIsDisk`, `ManifestIsPrefix`, `StoreImplementsLog` | `ChainIntact`, `AckedDurable`, `MemoryMatchesDisk`, `CheckpointHolds` and the refinement `ImplementsLog` of `EvidenceLog`, when a failing append writes nothing (`CleanFaultsOnly`) |
| `ProbeBatchProofs` | `TypeCorrect`, `CapsAreKept`, `ReturnsComplete`, `RunsOnce` | `TypeOK`, `CapsHold`, `ReturnIsComplete`, `ProbeRunsOnce` (in no run: the refinement says more) |
| | `SchedulerImplementsPool` | the refinement `ImplementsPool` of `ProbePool` |
| `CampaignPipelineProofs` | `TypeCorrect`, `BudgetIsKept`, `ResultsAreRemembered`, `KillSwitchIsFinal`, `OutcomeIsTold`, `SeriousRunsFailClosed`, `TailRuns`, `CompletedStaysCompleted`, `CompleteMeansVerified` | `TypeOK`, `BudgetOverrunIsBounded`, `IterationsAreRemembered`, `KillSwitchSticks`, `OutcomeIsRecorded`, `RequiredGapsFailClosed`, `TailIsRun`, `ReopenedOnDemand` (an action property), `CompleteIsEarned` |
| `StoreUsersProofs` | `ReadersUseTheStore`, `WritersUseTheStore` | `ReportSpec` and `WriterSpec` imply `Spec` of the store, so that every theorem about the store holds of both compositions |
| | `ReportTypeCorrect`, `NoFalseAlarm` | types, and `ReportIsTrue` under `CleanFaultsOnly` |
| | `NoOtherWriterIsLate` | `LateWritesAreKnown`, whatever way appends fail |
| `HostedLaneProofs` | `TypeCorrect`, `AuditCompletes`, `BudgetIsKept`, `StopFilesBind` | `TypeOK`, `AuditIsComplete`, `BudgetHolds`, `StopFileBinds` |
| | `LimiterIsKept` | `LimiterBinds` (in no run): a life sends at most `MaxRequestsPerCampaign` |
| `LocalLiveProofs` | `TypeCorrect`, `StopFileIsHeeded`, `RequestsCounted`, `TargetShutDown` | `TypeOK`, `StopFileEndsTheRound`, `RequestsAreCounted`, `TargetIsShutDown` |
| `VerifyRunProofs` | `TypeCorrect`, `AnomaliesBounded`, `AnswersComplete`, `TornDown`, `StatusTrue` | `TypeOK`, `AnomaliesAreBounded`, `AnswersAreComplete`, `TargetIsTornDown`, `StatusMatchesArtifacts` |

The arguments:

* Lock. None of the properties is inductive by itself. `IInv` adds `Intact` (an
  owner that was not robbed has its file in place; two such owners would share one
  file), `SeenIsLock` and `StaleIsGone` (a local lock of the same user that was
  judged stale belongs to a process that is gone, for good), from which follows that a
  reclaim never removes the very lock it has judged while its owner lives. With two
  processes (`Duel`) a contender's verdict is about the other one, which is then gone and
  cannot create the file again, so that nobody is robbed.
* Store. `TypeInv` and `FaultInv` hold whatever fails: only a prepared store
  writes, and a line that was written is the last one until it is acknowledged.
  `ChainInv` needs `CleanFaultsOnly`: the event in progress extends the chain in
  memory (`EventExtends`), which is the disk, nothing follows the last newline but what
  is being written (`TailClean`), and hashes are used once (`HashesFresh`). The finding
  below is why the assumption cannot be dropped. `Budgeted` counts the operations that
  wait against the events that may still be computed, so that the store never computes one the
  log has no hash for.
* Batch. The scheduler counts by hand. `Slots` says that its map and its counts agree with what
  runs, which rests on `Gated`: the probes of a batch are different, since the
  gate records a fingerprint before it accepts the next. `NothingForgotten`
  follows the tasks; the first of a non-empty queue can always start when nothing
  runs, so the `break` at `scheduler.ts:90` for tasks that cannot start is never
  taken while there is work. That there is a first one is least-element induction
  (`LeastNat`, from the library's well-foundedness of the naturals). The refinement has a lemma
  for each step of the pool. It needs `Resulted` (a result belongs to a probe that was executed,
  so that what is asked for anew is never among the outstanding ones) and `ExecutingWithinCaps`: the probes
  that run are no more than the tasks that do.
* Pipeline. `Types` adds that a copy of the state which says "failed" says in which phase.
  `Accounts` follows the iteration under way between the copy and the file. The copy is ahead of
  the file by what the iteration has cost so far (`Unpaid`); what all lives have spent is in the copy
  but for what interruptions have made the file forget, two calls' cost each (`Forgotten`). An
  iteration begins below the budget, so that the total stays below it plus the cost of that iteration and
  of one more per interruption; the same count gives the iterations begun, one more than the
  limit per interruption. A raise moves the limits of copy and file upwards only.
  `KillInv` follows a failed campaign down the stages that check for failure.
  `OutcomeInv` says when the copy and the file agree, and that reporting is never
  skipped (`ReportingNotSkipped`): a checkpoint is always before the stage that is
  resumed at.
* Tail. `TailIsRun` says nothing of a life under way, so `TailInv` says for each place which stages are settled
  (`TailSettled`: completed, before the resume point, or left out) and what has begun
  (`Places`). Its core is `Checkpointed`: the checkpoint never leaves a gap before the resume
  point (`First <= Reached + 1`, or nothing was completed yet: a fresh campaign that starts at a later stage), and either it is still before that point or no stage ahead of the pipeline is
  behind it. The second half survives the step that takes the checkpoint back after the lanes, since
  the stages ahead are then later than both.
* Reopening. A life without resume options (`Plain`) never has a completed campaign in hand between preflight and
  `setCompleted`; since the file follows the copy (`OutcomeInv`), only the handler of an exception can
  replace a completed phase.
* Status. A severe status is never lost, because later steps take the maximum (`MaxIsSevere`,
  `SevereIsReported`) and the merge computes it from the lanes (`VerificationIsSevere`). A lane nobody asked for
  is in no lane's summary: `MissingLaneIsGap` finds it among the gaps, unless a strict gate has put it into the
  status. A smoke run caps the status at degraded, never at complete (`SmokeIsNotComplete`), which is all the
  exit code of a strict run needs.
* Earned completeness. `GatePassedBy`, of `TailInv`, shows that the gate is passed by only in a life that verifies nothing
  (`UnreachedGate`), and an abort is severe but for want of signals (`AbortIsSevere`). What a lane
  reports is in the status unless it was left out (`LaneIsInStatus`), and from there to the report nothing lowers a status that
  is not "complete" (`MaxIsNotComplete`, `NotCompleteIsReported`).
* Report. `ReadCheckpointHolds`: the manifest that was read stays a prefix of the stream,
  since after a clean failure lines only grow (`LinesGrow`); what was acknowledged
  when the reading began is in the stream when it ends (`DiskCovers`).
* Writers. `CallersInv`: the pipeline and the hook have one operation each in the queue at most, and only where they await it.
  `TimersInv` is the heart: where the pipeline awaits an event of its own with no model call open, its operation is
  the last of the queue (`IsLast`). The queue works in order, so that whatever a timer
  appended before has settled when the pipeline goes on, without anybody awaiting it. `ListenerInv` follows the one
  other way to append.
* Audit. A process that goes on appends behind a part of a line only where an earlier process has left it and it has sent
  nothing yet itself (`Fresh`), or where the catch appends the outcome anew. So of the entries that are
  recorded before a request only the first of a resumed process can be glued to a part and lost (`IsFirst`);
  an outcome can be, as well. `AuditedOf` says at each place what the file has, and what is not `broken` has everything.
* Hosted. `FileAgrees` says what the budget file holds while nobody disturbs it, `RoomKept` that each
  request under way had room when it was let through: with `Cardinality(Campaign)` of them
  at most, one of which finds the last place, the bound follows. `LateOnce` splits campaigns by
  whether the request they were allowed before the stop is still to be sent. `SlotForEach`: what a
  life has sent and is about to send has taken a slot of its limiter each.
* Local. `LateBounds` gives for each place what the authorisations made before the
  stop file can still send (a round's batch, its sequence, its differential), over
  `Lengths`, which bounds the lists; `Accounts` splits what was sent into counted,
  pending and lost; `TargetRuns` says where the target is up and not yet shut down; a profile that names no shutdown
  command is carried along (`ShutDown`).
* Verify. `LadderInv` bounds the anomalies by the level's thresholds, with two for a threshold below it (`HaltsAt`): a first
  stall leads to level 2 only, whatever the threshold; `LoopInv` says at each place
  of the loop which candidates are settled (`Settled`) and how many results the current one is
  expected to have (`Expected`); `TargetInv` follows setup and teardown; `StatusInv` is
  three facts: the manifest of a run under way is open, its exit status is earned, and the artifacts it
  counts on were written by it.

Every safety invariant and every action property of a passing run is a theorem. Only model-checked are the liveness
properties (`AcquireSettles`, `ShutdownReleases`, `DeadLockReclaimed`, `QueueMoves`, `EveryLifeEnds`, `BatchReturns`,
`LaneEnds`), which need fairness and ENABLED, beyond this prover. The store's chain properties and `NoFalseAlarm` are
proved for clean faults only: with others `ChainIntact` is false, as the second finding shows.

## 5. Findings

* `campaign-lock.ts:267`: `reclaim` removes whatever file is at the path when it
  gets there. Two contenders that judged the same dead owner can both end up
  holding the campaign, against the header's "Single-writer campaign lock". It takes more than two
  processes of one user on one host, or an unreadable file (`TwoProcessesExclude`).
* `store.ts:130`: an append that fails after a part of its line, followed by a
  successful one, leaves a fragment as a complete line; every later `prepare`
  refuses the stream. The comments at 119-129 rule this out.
* `investigation-runner-internals.ts:2886`: skipping depends on `--resume-at-stage`;
  a plain resume, and `--resume-at`, start at the static stage again, although
  their checkpoint has been moved and `resume-checkpoint.ts:4` says it is skipped to.
* `investigation-runner-internals.ts:2827`: when reporting fails after
  `setCompleted`, the next life restores the failure phase "completed" and
  returns `already_completed`, without a report, even for
  `--resume-at-stage reporting`.

### Divergences without a run of their own

These were met while modelling. The models do what the code does, so none of them
breaks a property; where a property had to leave room for one, it says so.

Evidence and its writers

* `cli/report.ts:40`: `--verify` run while a line is half written, or before a crash is repaired,
  reports "truncated" and exits with 1. `ReportIsTrue` excepts exactly this.
* `provider_timeout` events of panel calls that were abandoned may still be queued when the
  campaign gives its lock back; a process that acquires it then prepares a stream that
  is about to grow. The listener stays set when the event of the catch is rejected
  (`investigation-runner-internals.ts:4023`, 4029) and after an early return
  (2828). `LateWritesAreKnown` names these cases and no other.
* 2732 says that a SIGTERM "cannot truncate pending evidence writes": the drain covers what was
  queued when it began, not what the pipeline, which is still running, appends after it.

Status of the report

OPERATOR-GUIDE 6.2 says of a serious run that "skipped required lanes cause `incomplete` status and non-zero exit"
(also `README.md:71`, `mode.ts:6`). `CompleteIsEarned` names the exceptions, in which it reports "complete":

* no lanes were asked for (`verificationLanes` stays undefined, `investigation-runner-internals.ts:1123`), the kill
  switch was seen, or the life was resumed behind the lanes; a lane left out by the resume point has no gap either.
* the gate aborted for want of signals: its gap is of the lane "static", which has no summary (1588) and is required
  by no target (`mode.ts:88`).
* strict verification without a run mode: the gate goes by "smoke" (1548) where the report goes by serious-local
  (3932), and the merge forgets that a required hosted lane was not asked for (1626).

The exit code goes by `executionStatus` and not by what became of the campaign (`cli.ts:775-782`): a serious run
stopped by the kill switch before its lanes ran has status "failed" and exits with 0 unless it has findings, and
so does the resume of a campaign that completed with an incomplete report, since `already_completed` comes without
an `executionStatus` (`investigation-runner-internals.ts:2827-2835`).

Hosted lane

* "Hard daily cap across all runs" (`HOSTED-TARGET-CHECKLIST.md:72`, `auto-stop.ts:22`): requests that
  time out are not counted, an update by another campaign is lost between read and
  write, a file torn by a death counts as zero (`auto-stop.ts:153-176`). `BudgetHolds` is what is left.
* There are two kill switches: the policy of the lanes looks in the campaign directory (its runtime is
  built with `repoRoot` set to it, `investigation-runner-internals.ts:536`), the auto-stop monitor in the
  working directory. `docs/KNOWN-LIMITATIONS.md:117` names the first only.
* The cap on requests per campaign is per process: a relaunch starts a new limiter.
* "A crash mid-request must still leave evidence of what was sent" (`hosted-http-probe.ts:150`): an audit append that
  fails, or dies, half way leaves a part of its line (`audit-trail.ts:61`), as in the second finding. Unlike the evidence store the
  audit trail never looks at what it finds: the next append, which is the catch's (`hosted-http-probe.ts:249`) or the
  `request_started` of a resumed life, is glued to the part and lost with it, and from then on `readAll` (65-76), which only the
  tests call, returns nothing at all. `AuditIsComplete` says what is left.

Local live lane

* After a stop file up to `2 * MaxProbes + Identities` fetches are begun, since probes are authorised per round
  and sent up to three times (`docs/KNOWN-LIMITATIONS.md`, L10; `live-replay.ts:81`).
* The mutation journal is never written (`journal.record` has no caller), so the rollback at the end never
  has anything to do, against L5 and `reversible-mutation.ts:2`.
* Runtime probes of the lane name no command and are always refused by the policy; `browserLauncher`
  is never injected (`investigation-runner-local-live.ts:1680`).
* The limiter counts fetches, not requests: `live-replay.ts:337` follows redirects, where the hosted probe sets
  `redirect: 'manual'`, and readiness polling (`target-lifecycle.ts:450-463`) is outside it. The target may take more than the cap.
* `stop()` does nothing when the profile names no `localShutdown` (`target-lifecycle.ts:72-75`), which the schema makes optional whether or not
  there is a `localStartup` (`target-profile.ts:142-143`): the lane then leaves the target it has started running, and reports `local_target_stopped`.
  `TargetIsShutDown` excepts these profiles by name.
* A target that does not get ready, or whose start cannot be written as an event, is left running (1213-1253,
  1311-1573): `TargetIsShutDown` speaks of targets that have been probed.
* The focused lane has a limiter of its own (`END-TO-END-RUNBOOK.md:257` suggests one for both).
  `deduplicateLiveProbes` ignores the body. Mythos hypothesis ids start at 1 again for each invocation.

Verification command

* "A verification run that processed no candidates must not report success" (`verify-cli.ts:852`): with
  mode `runtime`, no `--source-artifact` and no candidates it does; in mode `full` an empty source artifact ends
  as `partial`, because the runtime lane writes an empty artifact of its own.
* The output directory is shared by runs unless another is given, so an old `runtime-verification.json`
  turns a failure into `partial`, is named in the new manifest and is scored. `StatusMatchesArtifacts` says no more
  than that a failure has no runtime artifact in the directory.
* A runtime provider other than `bounded_local` reports success and writes no artifact.
* Level 2 is described as "only critical-tier runtime candidates": those without a review policy run as well.
* `fabricationLimit` is never reached: the runner looks for "fabricat" in rule names that do not have it.
  `dockerFailureLimit` (3) cannot be reached by the one setup of a run.
* The gate's `structural_reparse` never succeeds (it is chosen only after the generic repair failed), and a model
  repair that fails discards an answer that was parsed (`gate-supervisor.ts:389-482`).
* The Docker setup is attempted at the halt level too, which is why `AnomaliesAreBounded` adds the docker failures.
* With `--degradation-thresholds`, which takes any JSON (`verify-cli.ts:666-675`), a halt threshold of one or less does not halt at the first
  stall, which leads to level 2, but at the anomaly after it: `AnomaliesAreBounded` says two then.
  A setup that failed, or whose event could not be written, leaves its containers up.
* The `candidateId` of a result is the model's own and is not compared with the candidate asked about.

Elsewhere: a dormant signal that is judged or promoted stays in `dormantSignalIds`
(`weak-signal-ledger.ts:74-86`).

## 6. Not modelled

`PROJECT.json` gives the reason for each component. In short: what model calls
answer is any answer; prompts, rendering, parsing, scanning and scoring are pure
functions without state; probes are single operations with a timeout. They make up most of
the code by lines, which is why the map covers a small part of it although it covers the
code that decides in which order things happen.

Of the modelled components: the lock's diagnostics file; artifacts of the store other than the
manifest; the repair that `verifyChain` could make, which no caller outside the tests
reaches; a signal before the store is prepared; how often a model call is retried and what it costs;
the verdict of a probe's answer; `--dry-run`, scorecards and recommendations of the verification
command; what the pipeline's stages do inside, other than probe batches and the two lanes; the ranking
of hypotheses, which changes no state.

## 7. Plan

Done: lock; store with its readers and its writers; pipeline with run modes; batch; hosted lane; local live lane;
verification command with ladder and gate supervisor. Next, in this order:

1. `CampaignWriters`: two processes of `CampaignWriter` over the lock of `CampaignLock`, to show what the first finding,
   and a late `provider_timeout`, do to the chain; and the signal handler that appends while the pipeline prepares.
2. Proofs: an abstract specification of a campaign over its lives (running, failed, completed) that `CampaignPipeline` implements.
3. `BoundedSession`: the tool loop of `bounded-local-adapter.ts`, which the runtime lane runs; child processes, time limits and the
   tool calls that arrive after the last one allowed.
4. `SignalLedger`: the states of a weak signal, dormant and resurfaced, over lives of a campaign; `KnowledgeBase`: campaigns that load,
   change and save one file.
5. Pure algorithms as operators against a reference definition: the panel's votes (`judge-panel.ts`).
