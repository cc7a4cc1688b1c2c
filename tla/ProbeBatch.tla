------------------------------ MODULE ProbeBatch ------------------------------
(***************************************************************************)
(* The probes of the static loop's iterations: gated one by one            *)
(* (investigation-runner-internals.ts), then run as a batch                *)
(* (worker-pool.ts) by a scheduler with bounded concurrency (scheduler.ts).*)
(*                                                                         *)
(* A task is the index of an accepted probe in its batch.  The scheduler's *)
(* map of active promises has the probe's fingerprint as its key, so it    *)
(* holds one task of a fingerprint at most.  JavaScript runs one piece of  *)
(* code at a time: while the loop fills its slots nothing else happens.    *)
(***************************************************************************)
EXTENDS Integers, Sequences, FiniteSets

CONSTANTS
    Fingerprint,     \* the probes a planner may ask for
    Target, Kind,    \* targets and probe kinds
    TargetOf, KindOf,\* a probe's target and kind
    Priority,        \* a kind's priority
    MaxPriority,     \* the highest of them
    MaxConcurrency, MaxPerTarget, MaxPerKind,  \* the scheduler's caps
    MaxBatch,        \* bound: probes the planner asks for in an iteration
    MaxBatches       \* bound: iterations

ASSUME BatchConstants ==
    /\ TargetOf \in [Fingerprint -> Target]
    /\ KindOf \in [Fingerprint -> Kind]
    /\ MaxPriority \in Nat /\ Priority \in [Kind -> 0..MaxPriority]
    /\ MaxConcurrency \in Nat \ {0} /\ MaxPerTarget \in Nat \ {0}
    /\ MaxPerKind \in Nat \ {0}
    /\ MaxBatch \in Nat /\ MaxBatches \in Nat

VARIABLES
    requested,   \* probes the planner has asked for and nobody has gated
    recorded,    \* memory.probeFingerprints
    tasks,       \* the batch: task i is the probe tasks[i]
    queue,       \* tasks that wait; the scheduler keeps them in the order Before
    active,      \* tasks whose promise is in the map of active promises
    running,     \* tasks whose probe is being executed
    targetCounts, kindCounts,
    results,     \* tasks with a result, or with an error
    watched,     \* tasks whose promises the loop awaits
    killed,      \* kill has been called
    overBudget,  \* currentCostUsd >= maxCostUsd
    pc,          \* where the iteration stands
    batches,     \* number of iterations so far
    executed     \* history: probes executed by any batch

counts == <<targetCounts, kindCounts>>
scheduler == <<queue, active, counts, killed, overBudget>>
vars == <<requested, recorded, tasks, scheduler, running, results, watched, pc,
          batches, executed>>

\* The tasks of the batch.
Batch == DOMAIN tasks

target(i) == TargetOf[tasks[i]]
kind(i) == KindOf[tasks[i]]

\* The order of the queue: by priority, then by insertion.
Before(i, j) ==
    \/ Priority[kind(i)] > Priority[kind(j)]
    \/ Priority[kind(i)] = Priority[kind(j)] /\ i < j
IsFirst(i) == i \in queue /\ \A j \in queue \ {i} : Before(i, j)

\* Bug: one task too many.
CanScheduleOneMore(i) ==
    /\ Cardinality(active) < MaxConcurrency
    /\ targetCounts[target(i)] <= MaxPerTarget
    /\ kindCounts[kind(i)] < MaxPerKind
CanSchedule(i) ==
    /\ Cardinality(active) < MaxConcurrency
    /\ targetCounts[target(i)] < MaxPerTarget
    /\ kindCounts[kind(i)] < MaxPerKind

\* incrementCount and decrementCount: a count of nothing is not kept.
Increment(map, key) == [map EXCEPT ![key] = @ + 1]
Decrement(map, key) == [map EXCEPT ![key] = IF @ <= 1 THEN 0 ELSE @ - 1]

SameId(i) == {j \in active : tasks[j] = tasks[i]}

-----------------------------------------------------------------------------
Init ==
    /\ requested = <<>> /\ recorded = {} /\ tasks = <<>>
    /\ queue = {} /\ active = {} /\ running = {}
    /\ targetCounts = [t \in Target |-> 0] /\ kindCounts = [k \in Kind |-> 0]
    /\ results = {} /\ watched = {} /\ killed = FALSE /\ overBudget = FALSE
    /\ pc = "idle" /\ batches = 0 /\ executed = {}

\* The planner asks for probes, perhaps for one it has asked for before.  What
\* it costs may use up the budget.
Request ==
    /\ pc = "idle" /\ batches < MaxBatches
    /\ \E n \in 1..MaxBatch : requested' \in [1..n -> Fingerprint]
    /\ batches' = batches + 1
    /\ tasks' = <<>> /\ results' = {}
    /\ queue' = {} /\ active' = {} /\ watched' = {}
    /\ targetCounts' = [t \in Target |-> 0] /\ kindCounts' = [k \in Kind |-> 0]
    /\ killed' = FALSE /\ overBudget' \in BOOLEAN
    /\ pc' = "gate"
    /\ UNCHANGED <<recorded, running, executed>>

SuppressDuplicate ==
    /\ pc = "gate" /\ requested # <<>> /\ Head(requested) \in recorded
    /\ requested' = Tail(requested)
    /\ UNCHANGED <<recorded, tasks, scheduler, running, results, watched, pc,
                   batches, executed>>

\* The target does not support the probe, or the runtime forbids it.
Block ==
    /\ pc = "gate" /\ requested # <<>> /\ Head(requested) \notin recorded
    /\ recorded' = recorded \cup {Head(requested)}
    /\ requested' = Tail(requested)
    /\ UNCHANGED <<tasks, scheduler, running, results, watched, pc, batches, executed>>

\* Bug: a probe is recorded when it has been executed.
AcceptUnrecorded ==
    /\ pc = "gate" /\ requested # <<>> /\ Head(requested) \notin recorded
    /\ recorded' = recorded \cup executed
    /\ tasks' = Append(tasks, Head(requested))
    /\ requested' = Tail(requested)
    /\ UNCHANGED <<scheduler, running, results, watched, pc, batches, executed>>
Accept ==
    /\ pc = "gate" /\ requested # <<>> /\ Head(requested) \notin recorded
    /\ recorded' = recorded \cup {Head(requested)}
    /\ tasks' = Append(tasks, Head(requested))
    /\ requested' = Tail(requested)
    /\ UNCHANGED <<scheduler, running, results, watched, pc, batches, executed>>

\* executeProbeBatch enqueues every task and calls runAll.
StartBatch ==
    /\ pc = "gate" /\ requested = <<>>
    /\ queue' = Batch
    /\ pc' = "check"
    /\ UNCHANGED <<requested, recorded, tasks, active, counts, killed, overBudget,
                   running, results, watched, batches, executed>>

-----------------------------------------------------------------------------
(* The loop of runAll.                                                     *)

LoopEnds == (queue = {} /\ active = {}) \/ killed \/ overBudget

EnterLoop ==
    /\ pc = "check"
    /\ IF LoopEnds THEN pc' = "drain" /\ watched' = active
                   ELSE pc' = "fill" /\ UNCHANGED watched
    /\ UNCHANGED <<requested, recorded, tasks, scheduler, running, results, batches,
                   executed>>

\* Map.set replaces the promise of a task with the same fingerprint.
StartTask ==
    /\ pc = "fill"
    /\ \E i \in queue :
        /\ IsFirst(i) /\ CanSchedule(i)
        /\ queue' = queue \ {i}
        /\ active' = (active \ SameId(i)) \cup {i}
        /\ running' = running \cup {i}
        /\ targetCounts' = Increment(targetCounts, target(i))
        /\ kindCounts' = Increment(kindCounts, kind(i))
        /\ executed' = executed \cup {tasks[i]}
    /\ UNCHANGED <<requested, recorded, tasks, killed, overBudget, results, watched,
                   pc, batches>>

\* The first task in the queue cannot start.  The loop awaits an active task,
\* and gives up when there is none.
EndFill ==
    /\ pc = "fill"
    /\ \A i \in queue : ~(IsFirst(i) /\ CanSchedule(i))
    /\ CASE active # {}                -> pc' = "race" /\ watched' = active
         [] active = {} /\ queue # {}  -> pc' = "drain" /\ watched' = {}
         [] OTHER                      -> pc' = "check" /\ UNCHANGED watched
    /\ UNCHANGED <<requested, recorded, tasks, scheduler, running, results, batches,
                   executed>>

\* Promise.race
Wake ==
    /\ pc = "race" /\ watched \ running # {}
    /\ pc' = "check"
    /\ UNCHANGED <<requested, recorded, tasks, scheduler, running, results, watched,
                   batches, executed>>

\* Promise.allSettled, and runAll returns.
Drain ==
    /\ pc = "drain" /\ watched \cap running = {}
    /\ pc' = "idle"
    /\ UNCHANGED <<requested, recorded, tasks, scheduler, running, results, watched,
                   batches, executed>>

-----------------------------------------------------------------------------
(* What happens while the loop awaits.                                     *)

\* Bug: the task's promise stays in the map.
FinishKeepingActive(i) ==
    /\ pc # "fill" /\ i \in running
    /\ running' = running \ {i}
    /\ results' = results \cup {i}
    /\ targetCounts' = Decrement(targetCounts, target(i))
    /\ kindCounts' = Decrement(kindCounts, kind(i))
    /\ UNCHANGED <<requested, recorded, tasks, queue, active, killed, overBudget,
                   watched, pc, batches, executed>>
\* Bug: the kind's slot is not given back.
FinishKeepingSlot(i) ==
    /\ pc # "fill" /\ i \in running
    /\ running' = running \ {i}
    /\ results' = results \cup {i}
    /\ active' = active \ SameId(i)
    /\ targetCounts' = Decrement(targetCounts, target(i))
    /\ UNCHANGED <<requested, recorded, tasks, queue, kindCounts, killed, overBudget,
                   watched, pc, batches, executed>>
\* A probe ends, well or with an error: its result is pushed, its slot given back.
Finish(i) ==
    /\ pc # "fill" /\ i \in running
    /\ running' = running \ {i}
    /\ results' = results \cup {i}
    /\ active' = active \ SameId(i)
    /\ targetCounts' = Decrement(targetCounts, target(i))
    /\ kindCounts' = Decrement(kindCounts, kind(i))
    /\ UNCHANGED <<requested, recorded, tasks, queue, killed, overBudget, watched, pc,
                   batches, executed>>

kill ==
    /\ pc \in {"race", "drain"} /\ ~killed
    /\ killed' = TRUE
    /\ queue' = {}
    /\ UNCHANGED <<requested, recorded, tasks, active, counts, overBudget, running,
                   results, watched, pc, batches, executed>>

\* A cost that reaches the limit.
addCost ==
    /\ pc \in {"race", "drain"} /\ ~overBudget
    /\ overBudget' = TRUE
    /\ UNCHANGED <<requested, recorded, tasks, queue, active, counts, killed, running,
                   results, watched, pc, batches, executed>>

LoopStep ==
    \/ SuppressDuplicate \/ Block \/ Accept \/ StartBatch
    \/ EnterLoop \/ StartTask \/ EndFill \/ Wake \/ Drain

Next ==
    \/ Request \/ LoopStep \/ kill \/ addCost
    \/ \E i \in 1..MaxBatch : Finish(i)

Spec == Init /\ [][Next]_vars

\* The loop goes on when it can, and each probe ends: every executor has a timeout.
FairSpec == Spec /\ WF_vars(LoopStep) /\ \A i \in 1..MaxBatch : WF_vars(Finish(i))

-----------------------------------------------------------------------------
(* Properties.                                                             *)

\* The variables keep their types; what is queued, active and running are tasks of
\* the batch.
TypeOK ==
    /\ requested \in Seq(Fingerprint) /\ tasks \in Seq(Fingerprint)
    /\ recorded \subseteq Fingerprint /\ executed \subseteq Fingerprint
    /\ queue \subseteq Batch /\ active \subseteq Batch
    /\ running \subseteq Batch /\ results \subseteq Batch
    /\ watched \subseteq Batch
    /\ targetCounts \in [Target -> Nat] /\ kindCounts \in [Kind -> Nat]
    /\ killed \in BOOLEAN /\ overBudget \in BOOLEAN
    /\ pc \in {"idle", "gate", "check", "fill", "race", "drain"}
    /\ batches \in Nat

\* The probes that are executed at once, whatever the scheduler has counted, keep
\* within the caps: in all, per target and per kind.
CapsHold ==
    /\ Cardinality(running) <= MaxConcurrency
    /\ \A t \in Target : Cardinality({i \in running : target(i) = t}) <= MaxPerTarget
    /\ \A k \in Kind : Cardinality({i \in running : kind(i) = k}) <= MaxPerKind

\* runAll returns when nothing is running, and with a result for each task unless
\* the batch was killed or out of budget.
ReturnIsComplete ==
    pc = "idle" =>
        /\ running = {}
        /\ killed \/ overBudget \/ results = Batch

\* No probe is executed twice, within a batch or in a later one.
ProbeRunsOnce ==
    [][\A i \in running' \ running : tasks[i] \notin executed]_vars

\* The scheduler, with its queue, map and counts, does what a pool of probes promises:
\* a probe starts once, within the caps that hold for what really runs, ends once, and
\* a batch closes when nothing runs and, unless cut short, every probe has its result.
Pool == INSTANCE ProbePool WITH
            open <- pc # "idle",
            outstanding <- {tasks[i] : i \in Batch \ results},
            executing <- {tasks[i] : i \in running},
            cut <- killed \/ overBudget
ImplementsPool == Pool!PoolSpec

\* Each batch returns.
BatchReturns == pc # "idle" ~> pc = "idle"
=============================================================================
