--------------------------- MODULE ProbeBatchProofs ---------------------------
(***************************************************************************)
(* The scheduler's caps, that no probe runs twice and that a batch returns *)
(* complete, for any probes, caps and number of batches.                   *)
(*                                                                         *)
(* The scheduler counts by hand: in a map of promises, a count per target  *)
(* and a count per kind.  The argument is that these agree with what runs  *)
(* (Slots), which rests on the probes of a batch being different           *)
(* (Gated): Map.set with a key that is there would lose a running task.    *)
(***************************************************************************)
EXTENDS ProbeBatch, FiniteSetTheorems, SequenceTheorems, WellFoundedInduction, TLAPS

\* The tasks of R, probes of the sequence T, to which f gives the value x.
Share(f, T, R, x) == {i \in R : f[T[i]] = x}

\* The probes of a batch are different, and recorded like all that were executed.
Gated ==
    /\ \A i, j \in Batch : tasks[i] = tasks[j] => i = j
    /\ \A i \in Batch : tasks[i] \in recorded
    /\ executed \subseteq recorded

\* What runs has been recorded as executed, what waits has not.
Waiting ==
    /\ \A i \in running : tasks[i] \in executed
    /\ \A i \in queue : tasks[i] \notin executed
    /\ pc = "gate" => queue = {} /\ \A i \in Batch : tasks[i] \notin executed

\* What the scheduler has counted is what runs.
Slots ==
    /\ active = running
    /\ \A t \in Target : targetCounts[t] = Cardinality(Share(TargetOf, tasks, running, t))
    /\ \A k \in Kind : kindCounts[k] = Cardinality(Share(KindOf, tasks, running, k))

\* Outside runAll nothing runs; when it is about to return it awaits all that runs.
Awaited ==
    /\ pc \in {"idle", "gate"} => running = {}
    /\ pc = "drain" => running \subseteq watched

\* No task is forgotten, and the loop is left early for its reasons only.
NothingForgotten ==
    /\ pc \notin {"idle", "gate"} /\ ~killed => queue \cup running \cup results = Batch
    /\ pc = "drain" /\ ~killed /\ ~overBudget => queue = {}

IInv == TypeOK /\ Gated /\ Waiting /\ Slots /\ Awaited /\ CapsHold
        /\ NothingForgotten /\ ReturnIsComplete

-----------------------------------------------------------------------------

LEMMA CountTypes ==
    ASSUME NEW S, NEW map \in [S -> Nat], NEW key
    PROVE  Increment(map, key) \in [S -> Nat] /\ Decrement(map, key) \in [S -> Nat]
<1>1. \A x \in S : map[x] + 1 \in Nat /\ (IF map[x] <= 1 THEN 0 ELSE map[x] - 1) \in Nat
  OBVIOUS
<1>2. Increment(map, key) = [x \in S |-> IF x = key THEN map[x] + 1 ELSE map[x]]
  BY DEF Increment
<1>3. Decrement(map, key)
      = [x \in S |-> IF x = key THEN (IF map[x] <= 1 THEN 0 ELSE map[x] - 1) ELSE map[x]]
  BY DEF Decrement
<1> QED
  BY <1>1, <1>2, <1>3

LEMMA TypeStep == TypeOK /\ Awaited /\ [Next]_vars => TypeOK'
<1> SUFFICES ASSUME TypeOK, Awaited, [Next]_vars PROVE TypeOK'
  OBVIOUS
<1> USE DEF TypeOK
<1>0. tasks' = tasks => Batch' = Batch
  BY DEF Batch
<1>1. CASE Request
  <2>1. PICK n \in 1..MaxBatch : requested' \in [1..n -> Fingerprint]
    BY <1>1 DEF Request
  <2>2. requested' \in Seq(Fingerprint) /\ tasks' \in Seq(Fingerprint)
    BY <1>1, <2>1, SeqDef, EmptySeq DEF Request
  <2>3. queue' = {} /\ active' = {} /\ results' = {} /\ watched' = {} /\ running = {}
    BY <1>1 DEF Request, Awaited
  <2>4. targetCounts' \in [Target -> Nat] /\ kindCounts' \in [Kind -> Nat]
    BY <1>1 DEF Request
  <2>5. killed' \in BOOLEAN /\ overBudget' \in BOOLEAN
    BY <1>1 DEF Request
  <2>6. recorded' = recorded /\ executed' = executed /\ running' = {}
        /\ batches' \in Nat /\ pc' = "gate"
    BY <1>1, <2>3 DEF Request
  <2> QED
    BY <2>2, <2>3, <2>4, <2>5, <2>6
<1>2. CASE SuppressDuplicate \/ Block
  <2>1. Head(requested) \in Fingerprint /\ Tail(requested) \in Seq(Fingerprint)
    BY <1>2, HeadTailProperties DEF SuppressDuplicate, Block
  <2> QED
    BY <1>0, <1>2, <2>1 DEF SuppressDuplicate, Block, scheduler, counts
<1>3. CASE Accept
  <2>1. Head(requested) \in Fingerprint /\ Tail(requested) \in Seq(Fingerprint)
    BY <1>3, HeadTailProperties DEF Accept
  <2>2. tasks' \in Seq(Fingerprint) /\ Batch \subseteq Batch'
    BY <1>3, <2>1, AppendProperties DEF Accept, Batch
  <2> QED
    BY <1>3, <2>1, <2>2 DEF Accept, scheduler, counts
<1>4. CASE StartBatch \/ EnterLoop \/ EndFill \/ Wake \/ Drain \/ kill \/ addCost
  BY <1>0, <1>4 DEF StartBatch, EnterLoop, EndFill, Wake, Drain, kill, addCost,
                    scheduler, counts
<1>5. CASE StartTask
  <2>1. PICK i \in queue :
            /\ queue' = queue \ {i}
            /\ active' = (active \ SameId(i)) \cup {i}
            /\ running' = running \cup {i}
            /\ targetCounts' = Increment(targetCounts, target(i))
            /\ kindCounts' = Increment(kindCounts, kind(i))
            /\ executed' = executed \cup {tasks[i]}
    BY <1>5 DEF StartTask
  <2>2. targetCounts' \in [Target -> Nat] /\ kindCounts' \in [Kind -> Nat]
    BY <2>1, CountTypes
  <2>3. tasks[i] \in Fingerprint
    BY ElementOfSeq DEF Batch
  <2> QED
    BY <1>0, <1>5, <2>1, <2>2, <2>3 DEF StartTask
<1>6. CASE \E i \in 1..MaxBatch : Finish(i)
  <2>1. PICK i \in 1..MaxBatch : Finish(i)
    BY <1>6
  <2>2. targetCounts' \in [Target -> Nat] /\ kindCounts' \in [Kind -> Nat]
    BY <2>1, CountTypes DEF Finish
  <2> QED
    BY <1>0, <2>1, <2>2 DEF Finish
<1>7. CASE UNCHANGED vars
  BY <1>0, <1>7 DEF vars, scheduler, counts
<1> QED
  BY <1>1, <1>2, <1>3, <1>4, <1>5, <1>6, <1>7 DEF Next, LoopStep

-----------------------------------------------------------------------------
(* What waits, what runs and what has been executed.                       *)

LEMMA GatedStep == IInv /\ [Next]_vars => Gated' /\ Waiting'
<1> SUFFICES ASSUME IInv, [Next]_vars PROVE Gated' /\ Waiting'
  OBVIOUS
<1>0. TypeOK /\ Gated /\ Waiting /\ Awaited /\ (tasks' = tasks => Batch' = Batch)
  BY DEF IInv, Batch
<1> USE DEF Gated, Waiting
<1>1. CASE Request
  <2>1. tasks' = <<>> /\ running' = {} /\ queue' = {} /\ recorded' = recorded
        /\ executed' = executed
    BY <1>0, <1>1 DEF Request, Awaited
  <2>2. Batch' = {}
    BY <2>1 DEF Batch
  <2> QED
    BY <1>0, <2>1, <2>2
<1>2. CASE SuppressDuplicate \/ Block
  BY <1>0, <1>2 DEF SuppressDuplicate, Block, scheduler, counts
<1>3. CASE Accept
  <2>1. /\ tasks' = Append(tasks, Head(requested))
        /\ Head(requested) \notin recorded /\ recorded' = recorded \cup {Head(requested)}
        /\ running' = {} /\ queue' = {} /\ executed' = executed
    BY <1>0, <1>3 DEF Accept, Awaited, scheduler, counts
  <2>2. Head(requested) \in Fingerprint
    BY <1>0, <1>3, HeadTailProperties DEF Accept, TypeOK
  <2>3. /\ Batch' = Batch \cup {Len(tasks) + 1} /\ Len(tasks) + 1 \notin Batch
        /\ \A i \in Batch : tasks'[i] = tasks[i]
        /\ tasks'[Len(tasks) + 1] = Head(requested)
    BY <1>0, <2>1, <2>2, AppendProperties DEF TypeOK, Batch
  <2>4. \A i \in Batch : tasks[i] \notin executed
    BY <1>0, <1>3 DEF Accept
  <2>5. ASSUME NEW i \in Batch', NEW j \in Batch', tasks'[i] = tasks'[j]
        PROVE  i = j
    <3>1. \A k \in Batch : tasks'[k] # tasks'[Len(tasks) + 1]
      BY <1>0, <2>1, <2>3
    <3>2. CASE i \in Batch /\ j \in Batch
      BY <1>0, <2>3, <2>5, <3>2
    <3> QED
      BY <2>3, <2>5, <3>1, <3>2
  <2>6. \A i \in Batch' : tasks'[i] \in recorded' /\ tasks'[i] \notin executed'
    BY <1>0, <2>1, <2>3, <2>4
  <2> QED
    BY <1>0, <2>1, <2>5, <2>6
<1>4. CASE StartBatch
  BY <1>0, <1>4 DEF StartBatch, counts
<1>5. CASE EnterLoop \/ EndFill \/ Wake \/ Drain \/ kill \/ addCost
  BY <1>0, <1>5 DEF EnterLoop, EndFill, Wake, Drain, kill, addCost, scheduler, counts
<1>6. CASE StartTask
  <2>1. PICK i \in queue :
            /\ queue' = queue \ {i}
            /\ running' = running \cup {i}
            /\ executed' = executed \cup {tasks[i]}
    BY <1>6 DEF StartTask
  <2>2. pc' = "fill" /\ tasks' = tasks /\ recorded' = recorded /\ Batch' = Batch
    BY <1>0, <1>6 DEF StartTask
  <2>3. \A j \in queue' : tasks[j] # tasks[i]
    BY <1>0, <2>1 DEF TypeOK
  <2> QED
    BY <1>0, <2>1, <2>2, <2>3 DEF TypeOK
<1>7. CASE \E i \in 1..MaxBatch : Finish(i)
  BY <1>0, <1>7 DEF Finish
<1>8. CASE UNCHANGED vars
  BY <1>0, <1>8 DEF vars, scheduler, counts
<1> QED
  BY <1>1, <1>2, <1>3, <1>4, <1>5, <1>6, <1>7, <1>8 DEF Next, LoopStep

-----------------------------------------------------------------------------
(* The scheduler's counts and its caps.                                    *)

LEMMA CountUp ==
    ASSUME NEW f, NEW T, NEW R, IsFiniteSet(R), NEW i, i \notin R,
           NEW S, NEW map \in [S -> Nat],
           \A x \in S : map[x] = Cardinality(Share(f, T, R, x))
    PROVE  \A x \in S : Increment(map, f[T[i]])[x] = Cardinality(Share(f, T, R \cup {i}, x))
<1> SUFFICES ASSUME NEW x \in S
             PROVE  Increment(map, f[T[i]])[x] = Cardinality(Share(f, T, R \cup {i}, x))
  OBVIOUS
<1>1. IsFiniteSet(Share(f, T, R, x)) /\ i \notin Share(f, T, R, x)
  BY FS_Subset DEF Share
<1>2. CASE f[T[i]] = x
  <2>1. Share(f, T, R \cup {i}, x) = Share(f, T, R, x) \cup {i}
    BY <1>2 DEF Share
  <2>2. Cardinality(Share(f, T, R \cup {i}, x)) = Cardinality(Share(f, T, R, x)) + 1
    BY <1>1, <2>1, FS_AddElement
  <2> QED
    BY <1>2, <2>2 DEF Increment
<1>3. CASE f[T[i]] # x
  <2>1. Share(f, T, R \cup {i}, x) = Share(f, T, R, x)
    BY <1>3 DEF Share
  <2> QED
    BY <1>3, <2>1 DEF Increment
<1> QED
  BY <1>2, <1>3

LEMMA CountDown ==
    ASSUME NEW f, NEW T, NEW R, IsFiniteSet(R), NEW i \in R,
           NEW S, NEW map \in [S -> Nat],
           \A x \in S : map[x] = Cardinality(Share(f, T, R, x))
    PROVE  \A x \in S : Decrement(map, f[T[i]])[x] = Cardinality(Share(f, T, R \ {i}, x))
<1> SUFFICES ASSUME NEW x \in S
             PROVE  Decrement(map, f[T[i]])[x] = Cardinality(Share(f, T, R \ {i}, x))
  OBVIOUS
<1>1. IsFiniteSet(Share(f, T, R, x)) /\ IsFiniteSet(Share(f, T, R \ {i}, x))
  BY FS_Subset DEF Share
<1>2. CASE f[T[i]] = x
  <2>1. Share(f, T, R \ {i}, x) = Share(f, T, R, x) \ {i} /\ i \in Share(f, T, R, x)
    BY <1>2 DEF Share
  <2>2. Cardinality(Share(f, T, R \ {i}, x)) = map[x] - 1
        /\ Cardinality(Share(f, T, R \ {i}, x)) \in Nat
    BY <1>1, <2>1, FS_RemoveElement, FS_CardinalityType
  <2>3. Decrement(map, f[T[i]])[x] = IF map[x] <= 1 THEN 0 ELSE map[x] - 1
    BY <1>2 DEF Decrement
  <2> QED
    BY <2>2, <2>3
<1>3. CASE f[T[i]] # x
  <2>1. Share(f, T, R \ {i}, x) = Share(f, T, R, x)
    BY <1>3 DEF Share
  <2> QED
    BY <1>3, <2>1 DEF Decrement
<1> QED
  BY <1>2, <1>3

\* The caps, in terms of what the scheduler has counted.
CountsWithin ==
    /\ Cardinality(running) <= MaxConcurrency
    /\ \A t \in Target : targetCounts[t] <= MaxPerTarget
    /\ \A k \in Kind : kindCounts[k] <= MaxPerKind

LEMMA CapsFromCounts == Slots => (CapsHold <=> CountsWithin)
<1>1. \A t : {i \in running : target(i) = t} = Share(TargetOf, tasks, running, t)
  BY DEF Share, target
<1>2. \A k : {i \in running : kind(i) = k} = Share(KindOf, tasks, running, k)
  BY DEF Share, kind
<1> QED
  BY <1>1, <1>2 DEF Slots, CapsHold, CountsWithin

LEMMA RunningFinite == TypeOK => IsFiniteSet(running)
<1> SUFFICES ASSUME TypeOK PROVE IsFiniteSet(running)
  OBVIOUS
<1>1. Batch = 1..Len(tasks) /\ Len(tasks) \in Nat
  BY DEF TypeOK, Batch
<1>2. IsFiniteSet(Batch)
  BY <1>1, FS_Interval
<1> QED
  BY <1>2, FS_Subset DEF TypeOK

LEMMA SlotsStep == IInv /\ [Next]_vars => Slots' /\ CapsHold'
<1> SUFFICES ASSUME IInv, [Next]_vars PROVE Slots' /\ CountsWithin'
  BY CapsFromCounts, PTL
<1>0. TypeOK /\ Gated /\ Waiting /\ Awaited /\ Slots /\ CountsWithin /\ IsFiniteSet(running)
  BY CapsFromCounts, RunningFinite DEF IInv
<1> USE DEF Slots, CountsWithin
<1>1. CASE Request
  <2>1. /\ active' = {} /\ running' = {}
        /\ targetCounts' = [t \in Target |-> 0] /\ kindCounts' = [k \in Kind |-> 0]
    BY <1>0, <1>1 DEF Request, Awaited
  <2>2. \A f, T, x : Cardinality(Share(f, T, {}, x)) = 0
    BY FS_EmptySet DEF Share
  <2> QED
    BY <2>1, <2>2, FS_EmptySet, BatchConstants
<1>2. CASE Accept
  <2>1. running = {} /\ UNCHANGED <<active, running, targetCounts, kindCounts>>
    BY <1>0, <1>2 DEF Accept, Awaited, scheduler, counts
  <2>2. \A f, T, x : Cardinality(Share(f, T, {}, x)) = 0
    BY FS_EmptySet DEF Share
  <2> QED
    BY <1>0, <2>1, <2>2
<1>3. CASE SuppressDuplicate \/ Block \/ StartBatch \/ EnterLoop \/ EndFill \/ Wake
           \/ Drain \/ kill \/ addCost \/ UNCHANGED vars
  <2>1. UNCHANGED <<tasks, active, running, targetCounts, kindCounts>>
    BY <1>3 DEF SuppressDuplicate, Block, StartBatch, EnterLoop, EndFill, Wake, Drain,
                kill, addCost, vars, scheduler, counts
  <2> QED
    BY <1>0, <2>1
<1>4. CASE StartTask
  <2>1. PICK i \in queue :
            /\ CanSchedule(i)
            /\ active' = (active \ SameId(i)) \cup {i}
            /\ running' = running \cup {i}
            /\ targetCounts' = Increment(targetCounts, target(i))
            /\ kindCounts' = Increment(kindCounts, kind(i))
    BY <1>4 DEF StartTask
  <2>2. i \notin running /\ tasks' = tasks
    BY <1>0, <1>4 DEF StartTask, Waiting
  <2>3. SameId(i) = {}
    BY <1>0, <2>2 DEF SameId, Gated, TypeOK
  <2>4. active' = running'
    BY <1>0, <2>1, <2>3
  <2>5. \A t \in Target : targetCounts'[t] = Cardinality(Share(TargetOf, tasks', running', t))
    <3>1. targetCounts \in [Target -> Nat]
          /\ \A t \in Target : targetCounts[t] = Cardinality(Share(TargetOf, tasks, running, t))
      BY <1>0 DEF TypeOK
    <3>2. \A t \in Target : Increment(targetCounts, TargetOf[tasks[i]])[t]
              = Cardinality(Share(TargetOf, tasks, running \cup {i}, t))
      BY <1>0, <2>2, <3>1, CountUp
    <3> QED
      BY <2>1, <2>2, <3>2 DEF target
  <2>6. \A k \in Kind : kindCounts'[k] = Cardinality(Share(KindOf, tasks', running', k))
    <3>1. kindCounts \in [Kind -> Nat]
          /\ \A k \in Kind : kindCounts[k] = Cardinality(Share(KindOf, tasks, running, k))
      BY <1>0 DEF TypeOK
    <3>2. \A k \in Kind : Increment(kindCounts, KindOf[tasks[i]])[k]
              = Cardinality(Share(KindOf, tasks, running \cup {i}, k))
      BY <1>0, <2>2, <3>1, CountUp
    <3> QED
      BY <2>1, <2>2, <3>2 DEF kind
  <2>7. Cardinality(running') <= MaxConcurrency
    <3>1. Cardinality(running') = Cardinality(running) + 1
      BY <1>0, <2>1, <2>2, FS_AddElement
    <3>2. Cardinality(running) \in Nat /\ Cardinality(running) < MaxConcurrency
      BY <1>0, <2>1, FS_CardinalityType DEF CanSchedule
    <3> QED
      BY <3>1, <3>2, BatchConstants
  <2>8. \A t \in Target : targetCounts'[t] <= MaxPerTarget
    BY <1>0, <2>1, BatchConstants DEF CanSchedule, Increment, TypeOK
  <2>9. \A k \in Kind : kindCounts'[k] <= MaxPerKind
    BY <1>0, <2>1, BatchConstants DEF CanSchedule, Increment, TypeOK
  <2> QED
    BY <2>4, <2>5, <2>6, <2>7, <2>8, <2>9
<1>5. CASE \E i \in 1..MaxBatch : Finish(i)
  <2>1. PICK i \in running :
            /\ running' = running \ {i}
            /\ active' = active \ SameId(i)
            /\ targetCounts' = Decrement(targetCounts, target(i))
            /\ kindCounts' = Decrement(kindCounts, kind(i))
            /\ tasks' = tasks
    BY <1>5 DEF Finish
  <2>2. SameId(i) = {i}
    BY <1>0, <2>1 DEF SameId, Gated, TypeOK
  <2>3. active' = running'
    BY <1>0, <2>1, <2>2
  <2>4. \A t \in Target : targetCounts'[t] = Cardinality(Share(TargetOf, tasks', running', t))
    BY <1>0, <2>1, CountDown DEF TypeOK, target
  <2>5. \A k \in Kind : kindCounts'[k] = Cardinality(Share(KindOf, tasks', running', k))
    BY <1>0, <2>1, CountDown DEF TypeOK, kind
  <2>6. Cardinality(running') <= MaxConcurrency
    <3>1. Cardinality(running') = Cardinality(running) - 1
      BY <1>0, <2>1, FS_RemoveElement
    <3>2. Cardinality(running) \in Nat
      BY <1>0, FS_CardinalityType
    <3> QED
      BY <1>0, <3>1, <3>2, BatchConstants
  <2>7. \A t \in Target : targetCounts'[t] <= targetCounts[t]
    BY <1>0, <2>1 DEF Decrement, TypeOK
  <2>8. \A k \in Kind : kindCounts'[k] <= kindCounts[k]
    BY <1>0, <2>1 DEF Decrement, TypeOK
  <2>9. /\ \A t \in Target : targetCounts'[t] <= MaxPerTarget
        /\ \A k \in Kind : kindCounts'[k] <= MaxPerKind
    <3>1. targetCounts' \in [Target -> Nat] /\ kindCounts' \in [Kind -> Nat]
      BY <1>0, <2>1, CountTypes DEF TypeOK
    <3> QED
      BY <1>0, <2>7, <2>8, <3>1, BatchConstants DEF TypeOK
  <2> QED
    BY <2>3, <2>4, <2>5, <2>6, <2>9
<1> QED
  BY <1>1, <1>2, <1>3, <1>4, <1>5 DEF Next, LoopStep

-----------------------------------------------------------------------------
(* When the loop is left.                                                  *)

LEMMA LeastNat ==
    ASSUME NEW T, T \subseteq Nat, T # {}
    PROVE  \E x \in T : \A y \in T : x <= y
<1>1. \E x \in T : \A y \in T : ~ (y < x)
  <2>1. \E x \in T : \A y \in T : ~ (<<y, x>> \in OpToRel(<, Nat))
    BY NatLessThanWellFounded, WFMin
  <2>2. \A x, y \in T : y < x => <<y, x>> \in OpToRel(<, Nat)
    BY DEF OpToRel
  <2> QED
    BY <2>1, <2>2, Zenon
<1> QED
  BY <1>1

LEMMA FirstExists ==
    ASSUME TypeOK, queue # {}
    PROVE  \E i \in queue : IsFirst(i)
<1>1. \A j \in queue : j \in Nat /\ Priority[kind(j)] \in 0..MaxPriority
  <2>1. \A j \in queue : j \in 1..Len(tasks) /\ tasks[j] \in Fingerprint
    BY ElementOfSeq DEF TypeOK, Batch
  <2> QED
    BY <2>1, BatchConstants DEF TypeOK, kind
<1>2. PICK h \in queue : \A j \in queue : Priority[kind(j)] <= Priority[kind(h)]
  <2> DEFINE T == {MaxPriority - Priority[kind(j)] : j \in queue}
  <2>1. T \subseteq Nat /\ T # {}
    BY <1>1, BatchConstants
  <2>2. PICK x \in T : \A y \in T : x <= y
    BY <2>1, LeastNat
  <2>3. PICK h \in queue : x = MaxPriority - Priority[kind(h)]
    BY <2>2
  <2>4. \A j \in queue :
            MaxPriority - Priority[kind(h)] <= MaxPriority - Priority[kind(j)]
    BY <2>2, <2>3
  <2> QED
    BY <1>1, <2>3, <2>4, BatchConstants
<1>3. PICK i \in queue : /\ Priority[kind(i)] = Priority[kind(h)]
                         /\ \A j \in queue : Priority[kind(j)] = Priority[kind(h)] => i <= j
  <2> DEFINE T == {j \in queue : Priority[kind(j)] = Priority[kind(h)]}
  <2>1. T \subseteq Nat /\ T # {}
    BY <1>1
  <2>2. PICK i \in T : \A j \in T : i <= j
    BY <2>1, LeastNat
  <2> QED
    BY <2>2
<1>4. ASSUME NEW j \in queue, j # i PROVE Before(i, j)
  BY <1>1, <1>2, <1>3, <1>4 DEF Before
<1> QED
  BY <1>4 DEF IsFirst

\* The loop never gives up: when nothing is active the first task can start.
LEMMA FirstCanStart ==
    ASSUME TypeOK, Slots, active = {}, NEW i \in queue
    PROVE  CanSchedule(i)
<1>1. tasks[i] \in Fingerprint
  BY ElementOfSeq DEF TypeOK, Batch
<1>2. target(i) \in Target /\ kind(i) \in Kind
  BY <1>1, BatchConstants DEF target, kind
<1>3. Share(TargetOf, tasks, running, target(i)) = {}
      /\ Share(KindOf, tasks, running, kind(i)) = {}
  BY DEF Slots, Share
<1>4. targetCounts[target(i)] = 0 /\ kindCounts[kind(i)] = 0 /\ Cardinality(active) = 0
  BY <1>2, <1>3, FS_EmptySet DEF Slots
<1> QED
  BY <1>4, BatchConstants DEF CanSchedule

LEMMA ReturnStep ==
    IInv /\ [Next]_vars => Awaited' /\ NothingForgotten' /\ ReturnIsComplete'
<1> SUFFICES ASSUME IInv, [Next]_vars
             PROVE  Awaited' /\ NothingForgotten' /\ ReturnIsComplete'
  OBVIOUS
<1>0. TypeOK /\ Slots /\ Awaited /\ NothingForgotten /\ ReturnIsComplete
      /\ (tasks' = tasks => Batch' = Batch)
  BY DEF IInv, Batch
<1> USE DEF Awaited, NothingForgotten, ReturnIsComplete
<1>1. CASE Request
  BY <1>0, <1>1 DEF Request
<1>2. CASE SuppressDuplicate \/ Block \/ Accept
  BY <1>0, <1>2 DEF SuppressDuplicate, Block, Accept
<1>3. CASE StartBatch
  BY <1>0, <1>3 DEF StartBatch, TypeOK, counts
<1>4. CASE EnterLoop
  BY <1>0, <1>4 DEF EnterLoop, LoopEnds, Slots, TypeOK, scheduler, counts
<1>5. CASE StartTask
  <2>1. PICK i \in queue : queue' = queue \ {i} /\ running' = running \cup {i}
    BY <1>5 DEF StartTask
  <2>2. pc' = "fill" /\ UNCHANGED <<tasks, results, killed, overBudget>>
    BY <1>5 DEF StartTask
  <2>3. ~killed => queue \cup running \cup results = Batch
    BY <1>0, <1>5 DEF StartTask
  <2> QED
    BY <1>0, <2>1, <2>2, <2>3
<1>6. CASE EndFill
  <2>1. ~(active = {} /\ queue # {})
    BY <1>0, <1>6, FirstExists, FirstCanStart DEF EndFill
  <2>2. pc' \in {"race", "check"} /\ pc = "fill"
    BY <1>6, <2>1 DEF EndFill
  <2> QED
    BY <1>0, <1>6, <2>2 DEF EndFill, scheduler, counts
<1>7. CASE Wake \/ Drain
  BY <1>0, <1>7 DEF Wake, Drain, scheduler, counts
<1>8. CASE \E i \in 1..MaxBatch : Finish(i)
  <2>1. PICK i \in running :
            /\ running' = running \ {i} /\ results' = results \cup {i}
            /\ UNCHANGED <<tasks, queue, watched, killed, overBudget, pc>>
    BY <1>8 DEF Finish
  <2>2. pc \notin {"idle", "gate"}
    BY <1>0, <2>1
  <2> QED
    BY <1>0, <2>1, <2>2
<1>9. CASE kill \/ addCost
  BY <1>0, <1>9 DEF kill, addCost, counts
<1>10. CASE UNCHANGED vars
  BY <1>0, <1>10 DEF vars, scheduler, counts
<1> QED
  BY <1>1, <1>2, <1>3, <1>4, <1>5, <1>6, <1>7, <1>8, <1>9, <1>10 DEF Next, LoopStep

-----------------------------------------------------------------------------

THEOREM Invariant == Spec => []IInv
<1>1. Init => IInv
  <2> SUFFICES ASSUME Init PROVE IInv
    OBVIOUS
  <2>1. TypeOK /\ Batch = {}
    <3>1. <<>> \in Seq(Fingerprint) /\ DOMAIN <<>> = {}
      BY EmptySeq
    <3>2. Batch = {}
      BY <3>1 DEF Init, Batch
    <3> QED
      BY <3>1, <3>2 DEF Init, TypeOK
  <2>2. \A f, T, x : Cardinality(Share(f, T, {}, x)) = 0
    BY FS_EmptySet DEF Share
  <2>3. Slots /\ CountsWithin
    BY <2>2, FS_EmptySet, BatchConstants DEF Init, Slots, CountsWithin
  <2>4. Gated /\ Waiting /\ Awaited /\ NothingForgotten /\ ReturnIsComplete
    BY <2>1 DEF Init, Gated, Waiting, Awaited, NothingForgotten, ReturnIsComplete
  <2> QED
    BY <2>1, <2>3, <2>4, CapsFromCounts DEF IInv
<1>2. IInv /\ [Next]_vars => IInv'
  BY TypeStep, GatedStep, SlotsStep, ReturnStep DEF IInv
<1>3. QED
  BY <1>1, <1>2, PTL DEF Spec

\* The variables of a batch stay within their types.
THEOREM TypeCorrect == Spec => []TypeOK
BY Invariant, PTL DEF IInv

\* What really runs keeps within the caps of scheduler.ts, for any caps.
THEOREM CapsAreKept == Spec => []CapsHold
BY Invariant, PTL DEF IInv

\* runAll returns when nothing runs, with every result unless it was cut short.
\* In particular the loop's branch for tasks that cannot start is never taken.
THEOREM ReturnsComplete == Spec => []ReturnIsComplete
BY Invariant, PTL DEF IInv

\* No probe that was executed is started again, in whatever batch it is asked for.
THEOREM RunsOnce == Spec => ProbeRunsOnce
<1>1. IInv /\ [Next]_vars => [\A i \in running' \ running : tasks[i] \notin executed]_vars
  <2> SUFFICES ASSUME IInv, Next, NEW i \in running', i \notin running
               PROVE  tasks[i] \notin executed
    OBVIOUS
  <2>1. i \in queue
    BY DEF Next, LoopStep, Request, SuppressDuplicate, Block, Accept, StartBatch, EnterLoop,
           StartTask, EndFill, Wake, Drain, Finish, kill, addCost
  <2> QED
    BY <2>1 DEF IInv, Waiting
<1>2. QED
  BY Invariant, <1>1, PTL DEF ProbeRunsOnce, Spec

-----------------------------------------------------------------------------
(* The scheduler implements the pool.                                      *)

Outstanding == {tasks[i] : i \in Batch \ results}
Executing == {tasks[i] : i \in running}
Cut == killed \/ overBudget

\* A task with a result has been executed.
Resulted == \A i \in results : tasks[i] \in executed

LEMMA ResultedStep == IInv /\ Resulted /\ [Next]_vars => Resulted'
<1> SUFFICES ASSUME IInv, Resulted, [Next]_vars PROVE Resulted'
  OBVIOUS
<1>0. TypeOK /\ Gated /\ Waiting
  BY DEF IInv
<1> USE DEF Resulted
<1>1. CASE Request \/ SuppressDuplicate \/ Block \/ StartBatch \/ EnterLoop \/ EndFill \/ Wake
           \/ Drain \/ kill \/ addCost \/ StartTask \/ UNCHANGED vars
  BY <1>1 DEF Request, SuppressDuplicate, Block, StartBatch, EnterLoop, EndFill, Wake, Drain,
              kill, addCost, StartTask, vars
<1>2. CASE Accept
  <2>1. /\ tasks' = Append(tasks, Head(requested)) /\ Head(requested) \in Fingerprint
        /\ results' = results /\ executed' = executed /\ results \subseteq 1..Len(tasks)
    BY <1>0, <1>2, HeadTailProperties DEF Accept, TypeOK, Batch
  <2>2. \A i \in 1..Len(tasks) : tasks'[i] = tasks[i]
    BY <1>0, <2>1, AppendProperties DEF TypeOK
  <2> QED
    BY <2>1, <2>2
<1>3. CASE \E i \in 1..MaxBatch : Finish(i)
  BY <1>0, <1>3 DEF Finish, Waiting
<1> QED
  BY <1>1, <1>2, <1>3 DEF Next, LoopStep

\* As many probes run as tasks, for the probes of a batch are different.
LEMMA ExecutingWithinCaps ==
    ASSUME IsFiniteSet(running), CapsHold
    PROVE  Pool!WithinCaps(Executing)
<1>1. ASSUME NEW R, IsFiniteSet(R)
      PROVE  Cardinality({tasks[i] : i \in R}) <= Cardinality(R)
  <2> DEFINE image == {tasks[i] : i \in R}
             f == [i \in R |-> tasks[i]]
  <2>1. f \in Surjection(R, image)
    BY DEF Surjection
  <2> QED
    BY <1>1, <2>1, FS_Surjection
<1>2. ASSUME NEW R, IsFiniteSet(R), NEW cap \in Nat, Cardinality(R) <= cap
      PROVE  Cardinality({tasks[i] : i \in R}) <= cap
  <2>1. Cardinality({tasks[i] : i \in R}) <= Cardinality(R)
    BY <1>1, <1>2
  <2>2. IsFiniteSet({tasks[i] : i \in R})
    <3> DEFINE image == {tasks[i] : i \in R}
               f == [i \in R |-> tasks[i]]
    <3>1. f \in Surjection(R, image)
      BY DEF Surjection
    <3> QED
      BY <1>2, <3>1, FS_Surjection
  <2>3. Cardinality(R) \in Nat /\ Cardinality({tasks[i] : i \in R}) \in Nat
    BY <1>2, <2>2, FS_CardinalityType
  <2> QED
    BY <1>2, <2>1, <2>3
<1>3. Cardinality(Executing) <= MaxConcurrency
  BY <1>2, BatchConstants DEF CapsHold, Executing
<1>4. ASSUME NEW t \in Target
      PROVE  Cardinality({p \in Executing : TargetOf[p] = t}) <= MaxPerTarget
  <2> DEFINE R == {i \in running : target(i) = t}
  <2>1. {p \in Executing : TargetOf[p] = t} = {tasks[i] : i \in R}
    BY DEF Executing, target
  <2>2. IsFiniteSet(R)
    BY FS_Subset
  <2>3. Cardinality(R) <= MaxPerTarget
    BY <1>4 DEF CapsHold
  <2> QED
    BY <1>2, <2>1, <2>2, <2>3, BatchConstants
<1>5. ASSUME NEW k \in Kind
      PROVE  Cardinality({p \in Executing : KindOf[p] = k}) <= MaxPerKind
  <2> DEFINE R == {i \in running : kind(i) = k}
  <2>1. {p \in Executing : KindOf[p] = k} = {tasks[i] : i \in R}
    BY DEF Executing, kind
  <2>2. IsFiniteSet(R)
    BY FS_Subset
  <2>3. Cardinality(R) <= MaxPerKind
    BY <1>5 DEF CapsHold
  <2> QED
    BY <1>2, <2>1, <2>2, <2>3, BatchConstants
<1>6. \A S : Pool!Cardinality(S) = Cardinality(S)
  BY DEF Cardinality, Pool!Cardinality, IsFiniteSet, Pool!IsFiniteSet
<1> QED
  BY <1>3, <1>4, <1>5, <1>6 DEF Pool!WithinCaps

LEMMA AcceptAsks ==
    ASSUME IInv, Accept
    PROVE  \E p \in Fingerprint : Pool!Ask(p)
<1>0. TypeOK /\ Gated /\ Waiting /\ Awaited
  BY DEF IInv
<1> DEFINE p == Head(requested)
           n == Len(tasks) + 1
<1>1. /\ tasks' = Append(tasks, p) /\ p \in Fingerprint /\ p \notin recorded
      /\ UNCHANGED <<results, running, executed, killed, overBudget, pc>>
      /\ pc # "idle" /\ running = {}
  BY <1>0, HeadTailProperties DEF Accept, TypeOK, Awaited, scheduler
<1>2. /\ Batch' = Batch \cup {n} /\ n \notin Batch
      /\ \A i \in Batch : tasks'[i] = tasks[i]
      /\ tasks'[n] = p
  BY <1>0, <1>1, AppendProperties DEF TypeOK, Batch
<1>3. p \notin Outstanding \cup executed
  BY <1>0, <1>1 DEF Gated, Outstanding
<1>4. Outstanding' = Outstanding \cup {p}
  <2>1. Batch' \ results' = (Batch \ results) \cup {n}
    BY <1>0, <1>1, <1>2 DEF TypeOK
  <2> QED
    BY <1>2, <2>1 DEF Outstanding
<1>5. Executing' = Executing
  BY <1>1 DEF Executing
<1> QED
  BY <1>1, <1>3, <1>4, <1>5 DEF Pool!Ask, Outstanding, Executing

LEMMA StartTaskStarts ==
    ASSUME IInv, Resulted, CapsHold', IsFiniteSet(running)', StartTask
    PROVE  \E p \in Fingerprint : Pool!Start(p)
<1>0. TypeOK /\ Gated /\ Waiting
  BY DEF IInv
<1>1. PICK i \in queue : running' = running \cup {i} /\ executed' = executed \cup {tasks[i]}
  BY DEF StartTask
<1>2. UNCHANGED <<tasks, results, killed, overBudget, pc>> /\ pc # "idle"
  BY DEF StartTask
<1>3. tasks[i] \in Fingerprint
  BY <1>0, ElementOfSeq DEF TypeOK, Batch
<1>4. tasks[i] \in Outstanding \ executed
  BY <1>0 DEF TypeOK, Waiting, Resulted, Outstanding
<1>5. Executing' = Executing \cup {tasks[i]} /\ Outstanding' = Outstanding
  BY <1>1, <1>2 DEF Executing, Outstanding, Batch
<1>6. Pool!WithinCaps(Executing)'
  BY ExecutingWithinCaps, PTL
<1>7. Pool!WithinCaps(Executing \cup {tasks[i]})
  BY <1>5, <1>6 DEF Pool!WithinCaps
<1> QED
  BY <1>1, <1>2, <1>3, <1>4, <1>5, <1>7 DEF Pool!Start, Outstanding, Executing

LEMMA FinishEnds ==
    ASSUME IInv, NEW i \in 1..MaxBatch, Finish(i)
    PROVE  \E p \in Fingerprint : Pool!End(p)
<1>0. TypeOK /\ Gated /\ Awaited
  BY DEF IInv
<1>1. /\ i \in running /\ running' = running \ {i} /\ results' = results \cup {i}
      /\ UNCHANGED <<tasks, executed, killed, overBudget, pc>>
  BY DEF Finish
<1>2. i \in Batch /\ tasks[i] \in Fingerprint /\ pc # "idle"
  BY <1>0, <1>1, ElementOfSeq DEF TypeOK, Batch, Awaited
<1>3. \A j \in Batch : tasks[j] = tasks[i] => j = i
  BY <1>0, <1>2 DEF Gated
<1>4. Executing' = Executing \ {tasks[i]}
  BY <1>0, <1>1, <1>3 DEF Executing, TypeOK
<1>5. Outstanding' = Outstanding \ {tasks[i]}
  BY <1>1, <1>3 DEF Outstanding, Batch
<1> QED
  BY <1>1, <1>2, <1>4, <1>5 DEF Pool!End, Outstanding, Executing

LEMMA PoolStep ==
    IInv /\ Resulted /\ IInv' /\ [Next]_vars => [Pool!PoolNext]_(Pool!poolVars)
<1> SUFFICES ASSUME IInv, Resulted, IInv', [Next]_vars
             PROVE  Pool!PoolNext \/ UNCHANGED <<pc # "idle", Outstanding, Executing, executed, Cut>>
  BY DEF Pool!poolVars, Outstanding, Executing, Cut
<1>0. TypeOK /\ Awaited /\ ReturnIsComplete' /\ CapsHold'
  BY DEF IInv
<1>1. CASE Request
  <2>1. Outstanding' = {} /\ Executing' = Executing /\ executed' = executed
    BY <1>0, <1>1 DEF Request, Awaited, Outstanding, Executing, Batch
  <2>2. pc = "idle" /\ pc' # "idle" /\ Cut' \in BOOLEAN
    BY <1>1 DEF Request, Cut
  <2>3. Pool!Open
    BY <2>1, <2>2 DEF Pool!Open, Outstanding, Executing, Cut
  <2> QED
    BY <2>3 DEF Pool!PoolNext
<1>2. CASE SuppressDuplicate \/ Block \/ StartBatch \/ EnterLoop \/ EndFill \/ Wake \/ UNCHANGED vars
  <2>1. UNCHANGED <<tasks, results, running, executed, killed, overBudget>>
    BY <1>2 DEF SuppressDuplicate, Block, StartBatch, EnterLoop, EndFill, Wake, vars, scheduler
  <2>2. (pc # "idle")' = (pc # "idle")
    BY <1>2 DEF SuppressDuplicate, Block, StartBatch, EnterLoop, EndFill, Wake, vars
  <2> QED
    BY <2>1, <2>2 DEF Outstanding, Executing, Cut, Batch
<1>3. CASE Accept
  BY <1>3, AcceptAsks DEF Pool!PoolNext
<1>4. CASE StartTask
  <2>1. IsFiniteSet(running)'
    BY RunningFinite, PTL DEF IInv
  <2> QED
    BY <1>0, <1>4, <2>1, StartTaskStarts DEF Pool!PoolNext
<1>5. CASE \E i \in 1..MaxBatch : Finish(i)
  BY <1>5, FinishEnds DEF Pool!PoolNext
<1>6. CASE Drain
  <2>1. pc # "idle" /\ pc' = "idle" /\ UNCHANGED <<tasks, results, running, executed, killed, overBudget>>
    BY <1>6 DEF Drain, scheduler
  <2>2. running = {} /\ (Cut \/ results = Batch)
    BY <1>0, <2>1 DEF ReturnIsComplete, Cut, Batch
  <2>3. Executing = {} /\ (Cut \/ Outstanding = {})
    BY <2>2 DEF Executing, Outstanding
  <2>4. UNCHANGED <<Outstanding, Executing, executed, Cut>>
    BY <2>1 DEF Outstanding, Executing, Cut, Batch
  <2>5. Pool!Close
    BY <2>1, <2>3, <2>4 DEF Pool!Close, Outstanding, Executing, Cut
  <2> QED
    BY <2>5 DEF Pool!PoolNext
<1>7. CASE kill \/ addCost
  <2>1. pc # "idle" /\ pc' = pc /\ UNCHANGED <<tasks, results, running, executed>> /\ Cut'
    BY <1>7 DEF kill, addCost, Cut
  <2>2. UNCHANGED <<Outstanding, Executing>>
    BY <2>1 DEF Outstanding, Executing, Batch
  <2>3. CASE Cut
    BY <2>1, <2>2, <2>3 DEF Cut
  <2>4. CASE ~Cut
    <3>1. Pool!CutShort
      BY <2>1, <2>2, <2>4 DEF Pool!CutShort, Outstanding, Executing, Cut
    <3> QED
      BY <3>1 DEF Pool!PoolNext
  <2> QED
    BY <2>3, <2>4
<1> QED
  BY <1>1, <1>2, <1>3, <1>4, <1>5, <1>6, <1>7 DEF Next, LoopStep

\* The scheduler implements the pool: queue, map and hand-kept counts come to a set of probes
\* that start once, within the caps, and end once, and to batches that close complete.
THEOREM SchedulerImplementsPool == Spec => ImplementsPool
<1>1. Init => Resulted /\ Pool!PoolInit
  <2>1. Init => Batch = {}
    BY EmptySeq DEF Init, Batch
  <2> QED
    BY <2>1 DEF Init, Resulted, Pool!PoolInit
<1> QED
  BY <1>1, Invariant, ResultedStep, PoolStep, PTL DEF Spec, ImplementsPool, Pool!PoolSpec
=============================================================================
