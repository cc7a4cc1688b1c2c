--------------------------- MODULE StoreUsersProofs ---------------------------
(***************************************************************************)
(* Those who use an evidence store, for any bounds and any number of       *)
(* judges: its readers raise no false alarm, however often they read, when *)
(* a failing append writes nothing; and its writers are done with it when  *)
(* the campaign gives its lock back, but for those that are known.         *)
(***************************************************************************)
EXTENDS EvidenceReport, CampaignWriter, EvidenceStoreProofs

-----------------------------------------------------------------------------
(* The readers.                                                            *)

\* Readers leave the store alone, so what holds of the store holds with them.
LEMMA ReaderStep == [ReportNext]_<<vars, reportVars>> => [Next]_vars
BY DEF ReportNext

\* Every behaviour of the store with its readers is, to the store, one of its own:
\* the report command and the closing check write nothing that a caller reads.
THEOREM ReadersUseTheStore == ReportSpec => Spec
<1>1. ReportInit => Init
  BY DEF ReportInit
<1> QED
  BY <1>1, ReaderStep, PTL DEF ReportSpec, Spec

\* Whatever fails, the readers' variables keep their types too.
THEOREM ReportTypeCorrect == ReportSpec => [](TypeOK /\ ReportTypeOK)
<1>1. ReportInit => TypeInv /\ ReportTypeOK
  BY InitTypeInv DEF ReportInit, ReportTypeOK
<1>2. TypeInv /\ ReportTypeOK /\ [ReportNext]_<<vars, reportVars>> => (TypeInv /\ ReportTypeOK)'
  <2> SUFFICES ASSUME TypeInv, ReportTypeOK, [ReportNext]_<<vars, reportVars>>
               PROVE  TypeInv' /\ ReportTypeOK'
    OBVIOUS
  <2>1. TypeInv'
    BY ReaderStep, NextTypeInv
  <2>2. CASE UNCHANGED reportVars
    BY <2>1, <2>2 DEF ReportTypeOK, reportVars
  <2>3. CASE LoadCheckpoint
    BY <2>1, <2>3 DEF LoadCheckpoint, ReportTypeOK, TypeInv, TypeOK
  <2>4. CASE ReadEvents
    <3>1. PICK errors \in SUBSET ErrorKinds, settled \in BOOLEAN, complete \in BOOLEAN :
            verdict' = [errors |-> errors, settled |-> settled, complete |-> complete]
      BY <2>4 DEF ReadEvents, Errors, ErrorKinds, Covers, TypeInv, TypeOK
    <3> QED
      BY <2>1, <2>4, <3>1 DEF ReadEvents, ReportTypeOK, Verdict
  <2>5. CASE VerifyCampaignEvidence
    <3>1. PICK errors \in SUBSET ErrorKinds, settled \in BOOLEAN, complete \in BOOLEAN :
            verdict' = [errors |-> errors, settled |-> settled, complete |-> complete]
      BY <2>5 DEF VerifyCampaignEvidence, Errors, ErrorKinds, Covers
    <3>2. verdict' \in Verdict
      BY <3>1 DEF Verdict
    <3>3. report' = report /\ checkpoint' = checkpoint
      BY <2>5 DEF VerifyCampaignEvidence
    <3>4. checkpoint' \in Checkpoint \cup {NoManifest}
      BY <2>1, <3>3 DEF ReportTypeOK, Checkpoint
    <3> QED
      BY <2>1, <3>2, <3>3, <3>4 DEF ReportTypeOK
  <2> QED
    BY <2>2, <2>3, <2>4, <2>5 DEF ReportNext, reportVars
<1>3. TypeInv => TypeOK
  BY DEF TypeInv
<1> QED
  BY <1>1, <1>2, <1>3, PTL DEF ReportSpec

\* The manifest a report has read is a prefix of the stream for good: the
\* stream has only grown since.
ReadCheckpointHolds == checkpoint # NoManifest => AgreesWith(lines, checkpoint)

ReportInv ==
    /\ ChainInv
    /\ checkpoint \in Checkpoint \cup {NoManifest}
    /\ ReadCheckpointHolds
    /\ ReportIsTrue

LEMMA InitReportInv == ReportInit => ReportInv
BY InitChainInv DEF ReportInit, ReportInv, ReadCheckpointHolds, ReportIsTrue

\* The stream changes by growing one event at a time.
LEMMA LinesGrow ==
    ASSUME ChainInv, [Next]_vars
    PROVE  UNCHANGED lines \/ \E e \in Event : lines' = Append(lines, e)
<1>0. RetainedEvents = lines
  BY CleanRead DEF ChainInv, Chained
<1>1. CASE WriteRest
  <2>1. event \in Event /\ prepared
    BY <1>1 DEF ChainInv, EventExtends, Writing, WriteRest
  <2>2. lines' = Append(lines, event)
    BY <1>1, <2>1 DEF ChainInv, TailClean, WriteRest, GuardedLines
  <2> QED
    BY <2>1, <2>2
<1>2. CASE Repair
  BY <1>0, <1>2 DEF Repair
<1>3. CASE WritePart
  <2>1. tail = Empty
    BY <1>3 DEF ChainInv, EventExtends, Writing, WritePart, TailClean
  <2> QED
    BY <1>3, <2>1 DEF WritePart, GuardedLines
<1>4. WriteRest \/ Repair \/ WritePart \/ UNCHANGED lines
  BY DEF Next, Progress, Enqueue, Load, RepairFails, ComputeNext, WriteFails, Commit,
     WriteManifest, WriteManifestFails, PrepareReturns, Crash, Restart, vars, disk
<1> QED
  BY <1>1, <1>2, <1>3, <1>4

\* A stream that grows goes on agreeing with a position it agreed with.
LEMMA AgreementLasts ==
    ASSUME ChainInv, [Next]_vars, NEW position \in Checkpoint,
           AgreesWith(lines, position)
    PROVE  AgreesWith(lines', position)
<1>0. lines \in Seq(Event) /\ position.eventCount \in Nat
  BY DEF ChainInv, Chained, Checkpoint
<1>1. CASE UNCHANGED lines
  BY <1>1
<1>2. ASSUME NEW e \in Event, lines' = Append(lines, e)
      PROVE  AgreesWith(lines', position)
  BY <1>0, <1>2 DEF AgreesWith
<1> QED
  BY <1>1, <1>2, LinesGrow

\* What is on disk covers what has been acknowledged.
LEMMA DiskCovers == ChainInv => Covers(lines)
BY DEF ChainInv, AckedDurable, Covers

\* The chain in memory verifies and covers it too, an event behind the disk
\* while one is being committed.
LEMMA MemoryHolds ==
    ASSUME ChainInv, prepared
    PROVE  Valid(hashChain) /\ Covers(hashChain)
<1>0. hashChain \in Seq(Event) /\ acked \in Seq(Event)
  BY DEF ChainInv, TypeInv, TypeOK
<1>1. CASE at # "written"
  <2>1. lines = hashChain
    BY <1>1 DEF ChainInv, MemoryMatchesDisk
  <2> QED
    BY <2>1, DiskCovers DEF ChainInv, Chained
<1>2. CASE at = "written"
  <2>1. lines = Append(hashChain, event) /\ event \in Event
    BY <1>2 DEF ChainInv, MemoryMatchesDisk, EventExtends, Writing
  <2>2. Len(lines) = Len(hashChain) + 1 /\ \A i \in 1..Len(hashChain) : lines[i] = hashChain[i]
    BY <1>0, <2>1
  <2>3. Valid(hashChain)
    BY <1>0, <2>2 DEF ChainInv, Chained, Valid
  <2>4. ASSUME NEW i \in 1..Len(acked) PROVE \E j \in 1..Len(hashChain) : hashChain[j] = acked[i]
    <3>0. acked[i] \in Event
      BY <1>0, ElementOfSeq
    <3>1. acked[i].index \in Nat
      BY <3>0 DEF Event
    <3>2. acked[i].index + 1 \in 1..Len(hashChain)
      BY <1>0, <1>2, <3>1 DEF ChainInv, AckedBefore, Writing
    <3>3. lines[acked[i].index + 1] = acked[i]
      BY DEF ChainInv, AckedDurable
    <3> QED
      BY <2>2, <3>2, <3>3
  <2> QED
    BY <2>3, <2>4 DEF Covers
<1> QED
  BY <1>1, <1>2

LEMMA NextReportInv ==
    ASSUME CleanFaultsOnly
    PROVE  ReportInv /\ [ReportNext]_<<vars, reportVars>> => ReportInv'
<1> SUFFICES ASSUME ReportInv, [ReportNext]_<<vars, reportVars>> PROVE ReportInv'
  OBVIOUS
<1>0. ~Corrupted /\ RetainedEvents = lines
  BY CleanRead DEF ReportInv, ChainInv, Chained
<1>1. ChainInv'
  BY ReaderStep, NextChainInv DEF ReportInv
<1>2. CASE [Next]_vars /\ UNCHANGED reportVars
  <2>1. ReadCheckpointHolds'
    BY <1>2, AgreementLasts DEF ReportInv, ReadCheckpointHolds, reportVars
  <2> QED
    BY <1>1, <1>2, <2>1 DEF ReportInv, ReportIsTrue, reportVars
<1>3. CASE LoadCheckpoint /\ UNCHANGED vars
  <2>1. checkpoint' \in Checkpoint \cup {NoManifest}
    BY <1>3 DEF LoadCheckpoint, ReportInv, ChainInv, TypeInv, TypeOK
  <2>2. checkpoint' # NoManifest => AgreesWith(lines, checkpoint')
    BY <1>0, <1>3 DEF LoadCheckpoint, ReportInv, ChainInv, CheckpointHolds
  <2> QED
    BY <1>1, <1>3, <2>1, <2>2
    DEF LoadCheckpoint, ReportInv, ReadCheckpointHolds, ReportIsTrue, vars, disk
<1>4. CASE ReadEvents /\ UNCHANGED vars
  <2>1. verdict' = [errors |-> Errors(RetainedEvents, NeedsRepair, checkpoint),
                    settled |-> prepared /\ at # "writing",
                    complete |-> Corrupted \/ Covers(RetainedEvents)]
    BY <1>0, <1>4 DEF ReadEvents
  <2>2. Valid(RetainedEvents) /\ Covers(RetainedEvents)
    BY <1>0, DiskCovers DEF ReportInv, ChainInv, Chained
  <2>3. checkpoint # NoManifest => AgreesWith(RetainedEvents, checkpoint)
    BY <1>0 DEF ReportInv, ReadCheckpointHolds
  <2>4. prepared /\ at # "writing" => ~NeedsRepair
    BY <1>0 DEF NeedsRepair, ReportInv, ChainInv, TailClean
  <2>5. ReportIsTrue'
    <3>1. Errors(RetainedEvents, NeedsRepair, checkpoint) \subseteq {"truncated"}
      BY <2>2, <2>3 DEF Errors
    <3>2. ~NeedsRepair => Errors(RetainedEvents, NeedsRepair, checkpoint) = {}
      BY <2>2, <2>3 DEF Errors
    <3> QED
      BY <2>1, <2>2, <2>4, <3>1, <3>2 DEF ReportIsTrue
  <2>6. checkpoint' = NoManifest
    BY <1>4 DEF ReadEvents
  <2> QED
    BY <1>1, <2>5, <2>6 DEF ReportInv, ReadCheckpointHolds
<1>5. CASE VerifyCampaignEvidence /\ UNCHANGED vars
  <2>1. Valid(hashChain) /\ Covers(hashChain)
    BY <1>5, MemoryHolds DEF VerifyCampaignEvidence, ReportInv
  <2>2. Errors(hashChain, FALSE, NoManifest) = {}
    BY <2>1 DEF Errors
  <2>3. ReportIsTrue'
    BY <1>5, <2>1, <2>2 DEF VerifyCampaignEvidence, ReportIsTrue
  <2> QED
    BY <1>1, <1>5, <2>3
    DEF VerifyCampaignEvidence, ReportInv, ReadCheckpointHolds, vars, disk
<1> QED
  BY <1>2, <1>3, <1>4, <1>5 DEF ReportNext, reportVars

\* Neither the report command nor the campaign's closing check reports a
\* broken chain, a disagreeing manifest or a missing acknowledged event, or a
\* truncation of a stream that a store has prepared and is not writing to.
THEOREM NoFalseAlarm == ASSUME CleanFaultsOnly PROVE ReportSpec => []ReportIsTrue
<1>1. ReportInv => ReportIsTrue
  BY DEF ReportInv
<1> QED
  BY <1>1, InitReportInv, NextReportInv, PTL DEF ReportSpec

-----------------------------------------------------------------------------
(* The writers.  Every step they take is one of the store, so what holds of *)
(* the store whoever calls it holds with them.                              *)

storeAndWriters == <<vars, writerVars>>

\* What reaches the store is one of its own steps.
LEMMA WriterStep == [WriterNext]_storeAndWriters => [Next]_vars
<1>1. ASSUME NEW who, NEW op \in Operations, Call(who, op) PROVE Next
  BY <1>1 DEF Call, Next
<1>2. "append" \in Operations /\ "manifest" \in Operations /\ "prepare" \in Operations
  BY DEF Operations
<1>3. CASE \/ Acquire \/ InitializeCampaign \/ AnnounceTarget \/ ReturnAlreadyCompleted \/ Begin
           \/ \E op \in {"append", "manifest"} : AppendEvent(op)
           \/ InvokeModels \/ Throw \/ RecordFailure \/ Release
  BY <1>1, <1>2, <1>3
  DEF Acquire, InitializeCampaign, AnnounceTarget, ReturnAlreadyCompleted, Begin, AppendEvent,
      InvokeModels, Throw, RecordFailure, Release
<1>4. CASE (\E j \in Judges : Answer(j) \/ TimeOut(j) \/ Retry(j)) \/ Heartbeat
  BY <1>1, <1>2, <1>4 DEF Answer, TimeOut, Retry, Heartbeat
<1>5. CASE Signal \/ Drained \/ HookTimesOut \/ ReleaseOnSignal
  BY <1>1, <1>2, <1>5 DEF Signal, Drained, HookTimesOut, ReleaseOnSignal
<1>6. CASE OperationWorks \/ OperationResolves \/ OperationRejects \/ ProcessEnds \/ NextProcess
  BY <1>6 DEF OperationWorks, OperationResolves, OperationRejects, ProcessEnds, NextProcess,
              Next, Progress
<1> QED
  BY <1>3, <1>4, <1>5, <1>6 DEF WriterNext, storeAndWriters

\* Somebody's operation waits; nobody has two that do.
Enqueued(who) == \E i \in 1..Len(callers) : callers[i] = who
Alone(who) == \A i, j \in 1..Len(callers) : callers[i] = who /\ callers[j] = who => i = j
IsLast(who) == callers # <<>> /\ callers[Len(callers)] = who

Awaiting == {"reclaiming", "preparing", "announcing", "awaiting", "finishing", "failing"}

\* The pipeline has an operation in the queue only while it awaits it, the hook only
\* until it has seen it settle or was cut short.
CallersInv ==
    /\ callers \in Seq(Callers) /\ Len(callers) = Len(writeQueue)
    /\ Alone("pipeline") /\ Alone("hook")
    /\ Enqueued("pipeline") => writer \in Awaiting
    /\ Enqueued("hook") => hook = "appending" \/ (hook = "ended" /\ "hook_cut_short" \in why)

Abandoned == "calls_abandoned" \in why

\* Without a signal and abandoned calls the timers are quiet where the pipeline asks
\* nothing of a model: what they have appended before it awaits one of its own events
\* has settled when that one does.
TimersInv ==
    /\ calls # NoCalls => Waits \/ Abandoned
    /\ hook = "none" /\ ~Abandoned =>
          /\ writer \in {"starting", "locked", "resuming", "releasing", "over"} => callers = <<>>
          /\ writer \in Awaiting \ {"awaiting"} => IsLast("pipeline")

\* The listener is set after prepare, and a campaign's end clears it.
ListenerInv ==
    /\ writer \in {"starting", "reclaiming", "locked", "preparing"} => ~listener
    /\ listener /\ writer \in {"releasing", "over"} =>
          why \cap {"failure_not_recorded", "returned_early"} # {}

WriterInv == TypeInv /\ CallersInv /\ TimersInv /\ ListenerInv

\* One more operation at the end of the queue.
LEMMA CallAdds ==
    ASSUME TypeInv, CallersInv, NEW who \in Callers, NEW op \in Operations, Call(who, op)
    PROVE  /\ callers' \in Seq(Callers) /\ Len(callers') = Len(writeQueue')
           /\ IsLast(who)'
           /\ \A w : Enqueued(w)' => Enqueued(w) \/ w = who
           /\ \A w : Alone(w) /\ (w # who \/ ~Enqueued(w)) => Alone(w)'
<1>0. callers \in Seq(Callers) /\ writeQueue \in Seq(Operations) /\ Len(callers) = Len(writeQueue)
  BY DEF CallersInv, TypeInv, TypeOK
<1>1. callers' = Append(callers, who) /\ writeQueue' = Append(writeQueue, op)
  BY DEF Call, Enqueue
<1>2. /\ callers' \in Seq(Callers) /\ Len(callers') = Len(callers) + 1
      /\ Len(writeQueue') = Len(writeQueue) + 1
      /\ callers'[Len(callers')] = who /\ callers' # <<>>
      /\ \A i \in 1..Len(callers) : callers'[i] = callers[i]
  BY <1>0, <1>1
<1>3. \A i \in 1..Len(callers') : i \in 1..Len(callers) \/ i = Len(callers')
  BY <1>0, <1>2
<1> QED
  BY <1>0, <1>2, <1>3 DEF IsLast, Enqueued, Alone

\* The operation at the head settles.
LEMMA CallerLeaves ==
    ASSUME TypeInv, CallersInv, Working, Settle, callers' = Tail(callers)
    PROVE  /\ callers' \in Seq(Callers) /\ Len(callers') = Len(writeQueue')
           /\ callers # <<>> /\ Head(callers) \in Callers
           /\ \A w : Enqueued(w)' => Enqueued(w)
           /\ \A w : Alone(w) => Alone(w)'
           /\ \A w : Alone(w) /\ Head(callers) = w => ~Enqueued(w)'
           /\ \A w : IsLast(w) /\ Head(callers) # w => IsLast(w)'
           /\ \A w : IsLast(w) /\ Alone(w) /\ Head(callers) = w => callers' = <<>>
           /\ Enqueued(Head(callers))
<1>0. callers \in Seq(Callers) /\ writeQueue \in Seq(Operations) /\ Len(callers) = Len(writeQueue)
  BY DEF CallersInv, TypeInv, TypeOK
<1>1. writeQueue # <<>> /\ writeQueue' = Tail(writeQueue)
  BY DEF Working, Settle
<1>2. callers # <<>> /\ Len(callers) \in Nat /\ Len(callers) >= 1
  BY <1>0, <1>1
<1>3. /\ callers' \in Seq(Callers) /\ Len(callers') = Len(callers) - 1
      /\ Len(writeQueue') = Len(writeQueue) - 1
      /\ \A i \in 1..Len(callers') : i + 1 \in 2..Len(callers) /\ callers'[i] = callers[i + 1]
      /\ Head(callers) = callers[1] /\ Head(callers) \in Callers
      /\ 1 \in 1..Len(callers) /\ Len(callers) \in 1..Len(callers)
      /\ \A i \in 2..Len(callers) : i \in 1..Len(callers) /\ i # 1
  BY <1>0, <1>1, <1>2
<1>4. /\ callers' = <<>> <=> Len(callers') = 0
      /\ Len(callers') # 0 => Len(callers') \in 1..Len(callers')
  BY <1>3, EmptySeq
<1>5. ASSUME NEW w PROVE Enqueued(w)' => Enqueued(w)
  BY <1>3 DEF Enqueued
<1>6. ASSUME NEW w, Alone(w) PROVE Alone(w)'
  <2> SUFFICES ASSUME NEW i \in 1..Len(callers'), NEW j \in 1..Len(callers'),
                      callers'[i] = w, callers'[j] = w
               PROVE  i = j
    BY DEF Alone
  <2>1. i + 1 \in 1..Len(callers) /\ j + 1 \in 1..Len(callers)
        /\ callers[i + 1] = w /\ callers[j + 1] = w
    BY <1>3
  <2>2. i + 1 = j + 1
    BY <1>6, <2>1 DEF Alone
  <2> QED
    BY <1>0, <1>3, <2>2
<1>7. ASSUME NEW w, Alone(w), Head(callers) = w PROVE ~Enqueued(w)'
  <2> SUFFICES ASSUME NEW i \in 1..Len(callers'), callers'[i] = w PROVE FALSE
    BY DEF Enqueued
  <2> QED
    BY <1>3, <1>7 DEF Alone
<1>8. ASSUME NEW w, IsLast(w), Head(callers) # w PROVE IsLast(w)'
  <2>1. Len(callers') # 0
    BY <1>0, <1>3, <1>8 DEF IsLast
  <2>2. callers'[Len(callers')] = callers[Len(callers)]
    BY <1>0, <1>3, <1>4, <2>1
  <2> QED
    BY <1>4, <1>8, <2>1, <2>2 DEF IsLast
<1>9. ASSUME NEW w, IsLast(w), Alone(w), Head(callers) = w PROVE callers' = <<>>
  <2>1. Len(callers) = 1
    BY <1>3, <1>9 DEF IsLast, Alone
  <2> QED
    BY <1>3, <1>4, <2>1
<1> QED
  BY <1>0, <1>2, <1>3, <1>5, <1>6, <1>7, <1>8, <1>9 DEF Enqueued

\* Where the pipeline calls the store it has nothing in the queue yet.
LEMMA PipelineCalls ==
    ASSUME WriterInv, NEW op \in Operations, Call("pipeline", op),
           writer \notin Awaiting, writer' \in Awaiting, UNCHANGED <<hook, why>>
    PROVE  CallersInv' /\ (writer' # "awaiting" => IsLast("pipeline")')
<1>1. "pipeline" \in Callers
  BY DEF Callers
<1> QED
  BY <1>1, CallAdds DEF WriterInv, CallersInv

\* A timer calls whatever the others do.
LEMMA TimerCalls ==
    ASSUME WriterInv, Call("timer", "append"),
           writer' = writer \/ (Waits /\ writer' \notin Awaiting), UNCHANGED hook,
           why \subseteq why'
    PROVE  CallersInv'
<1>1. "timer" \in Callers /\ "append" \in Operations
  BY DEF Callers, Operations
<1>2. Waits => writer \notin Awaiting
  BY DEF Waits, Awaiting
<1> QED
  BY <1>1, <1>2, CallAdds DEF WriterInv, CallersInv

\* A call that settles takes the pipeline along when it waits for it.
LEMMA CallSettles ==
    ASSUME WriterInv, NEW j \in Judges, NEW failed \in BOOLEAN, SettleCall(j, failed),
           calls[j] # "none"
    PROVE  /\ calls # NoCalls
           /\ why \subseteq why' /\ why' \subseteq why \cup {"calls_abandoned"}
           /\ IF Waits THEN /\ writer' \in {"calling", "judging", "running", "throwing"}
                            /\ calls' # NoCalls => Waits' \/ Abandoned'
                       ELSE writer' = writer /\ why' = why
BY DEF SettleCall, NoCalls, Waits, Abandoned

\* Steps that neither call the store nor settle one of its operations.
LEMMA QuietWriters ==
    ASSUME WriterInv, TypeInv',
           UNCHANGED <<writeQueue, callers>>,
           Enqueued("pipeline") => writer' \in Awaiting,
           Enqueued("hook") => hook' = "appending" \/ (hook' = "ended" /\ "hook_cut_short" \in why')
    PROVE  CallersInv'
BY DEF WriterInv, CallersInv, Enqueued, Alone

LEMMA WriterInitInv == WriterInit => WriterInv
<1> SUFFICES ASSUME WriterInit PROVE WriterInv
  OBVIOUS
<1>1. callers = <<>> /\ writeQueue = <<>>
  BY DEF WriterInit, Init
<1>2. CallersInv
  BY <1>1, EmptySeq DEF CallersInv, Enqueued, Alone
<1> QED
  BY <1>1, <1>2, InitTypeInv DEF WriterInit, WriterInv, TimersInv, ListenerInv, Awaiting

LEMMA WriterInvStep == WriterInv /\ [WriterNext]_storeAndWriters => WriterInv'
<1> SUFFICES ASSUME WriterInv, [WriterNext]_storeAndWriters PROVE WriterInv'
  OBVIOUS
<1>0. TypeInv'
  BY WriterStep, NextTypeInv DEF WriterInv
<1>o. {"append", "manifest", "prepare"} \subseteq Operations
  BY DEF Operations
<1> USE DEF Awaiting
<1>1. CASE Acquire
  <2>1. CASE lock = "free" /\ writer' = "locked" /\ UNCHANGED <<vars, callers>>
    <3>1. CallersInv'
      BY <1>0, <1>1, <2>1, QuietWriters DEF Acquire, vars, WriterInv, CallersInv
    <3> QED
      BY <1>0, <1>1, <2>1, <3>1
      DEF Acquire, WriterInv, TimersInv, ListenerInv, Waits, Abandoned
  <2>2. CASE writer' = "reclaiming" /\ Call("pipeline", "append")
    <3>1. CallersInv' /\ IsLast("pipeline")'
      BY <1>1, <1>o, <2>2, PipelineCalls DEF Acquire
    <3> QED
      BY <1>0, <1>1, <2>2, <3>1
      DEF Acquire, WriterInv, TimersInv, ListenerInv, Waits, Abandoned
  <2> QED
    BY <1>1, <2>1, <2>2 DEF Acquire
<1>2. CASE InitializeCampaign
  <2>1. CASE writer' = "preparing" /\ Call("pipeline", "prepare") /\ UNCHANGED listener
    <3>1. CallersInv' /\ IsLast("pipeline")'
      BY <1>2, <1>o, <2>1, PipelineCalls DEF InitializeCampaign
    <3> QED
      BY <1>0, <1>2, <2>1, <3>1
      DEF InitializeCampaign, WriterInv, TimersInv, ListenerInv, Waits, Abandoned
  <2>2. CASE \/ writer' = "releasing" /\ UNCHANGED <<vars, callers, listener>>
             \/ SetListener /\ UNCHANGED <<vars, callers>>
    <3>1. CallersInv'
      BY <1>0, <1>2, <2>2, QuietWriters DEF InitializeCampaign, SetListener, vars, WriterInv, CallersInv
    <3>2. /\ writer = "locked" /\ UNCHANGED <<callers, hook, calls, why>>
          /\ \/ writer' = "releasing" /\ UNCHANGED listener
             \/ writer' = "resuming"
      BY <1>2, <2>2 DEF InitializeCampaign, SetListener
    <3>3. TimersInv'
      BY <3>2 DEF WriterInv, TimersInv, Waits, Abandoned
    <3>4. ListenerInv'
      <4>1. ~listener
        BY <3>2 DEF WriterInv, ListenerInv
      <4> QED
        BY <3>2, <4>1 DEF ListenerInv
    <3> QED
      BY <1>0, <3>1, <3>3, <3>4 DEF WriterInv
  <2> QED
    BY <1>2, <2>1, <2>2 DEF InitializeCampaign
<1>3. CASE AnnounceTarget \/ Begin \/ RecordFailure \/ \E op \in {"append", "manifest"} : AppendEvent(op)
  <2>1. PICK op \in {"append", "manifest"} :
          /\ Call("pipeline", op) /\ UNCHANGED <<stage, calls>>
          /\ writer \in {"resuming", "running", "throwing"}
          /\ writer' \in {"announcing", "awaiting", "finishing", "failing"}
    BY <1>3 DEF AnnounceTarget, Begin, RecordFailure, AppendEvent
  <2>2. CallersInv' /\ (writer' # "awaiting" => IsLast("pipeline")')
    BY <1>o, <2>1, PipelineCalls DEF stage
  <2> QED
    BY <1>0, <2>1, <2>2 DEF stage, WriterInv, TimersInv, ListenerInv, Waits, Abandoned
<1>4. CASE ReturnAlreadyCompleted \/ InvokeModels \/ Throw \/ Release
  <2>1. /\ UNCHANGED <<vars, callers, hook, listener>>
        /\ why \subseteq why' /\ (Abandoned' <=> Abandoned)
        /\ \/ writer = "resuming" /\ writer' = "releasing" /\ "returned_early" \in why'
              /\ UNCHANGED calls
           \/ writer = "running" /\ writer' \in {"calling", "judging"}
           \/ writer \in {"resuming", "running"} /\ writer' = "throwing" /\ UNCHANGED calls
           \/ writer = "releasing" /\ writer' = "over" /\ UNCHANGED <<calls, why>>
    BY <1>4 DEF ReturnAlreadyCompleted, InvokeModels, Throw, Release, stage, Abandoned
  <2>2. CallersInv'
    BY <1>0, <2>1, QuietWriters DEF vars, WriterInv, CallersInv
  <2> QED
    BY <1>0, <2>1, <2>2 DEF WriterInv, TimersInv, ListenerInv, Waits, Abandoned
<1>5. ASSUME NEW j \in Judges, Answer(j) \/ TimeOut(j) \/ Retry(j) PROVE WriterInv'
  <2>0. calls[j] # "none" /\ calls # NoCalls
    BY <1>5 DEF Answer, TimeOut, Retry, NoCalls
  <2>1. /\ UNCHANGED <<hook, listener>>
        /\ \/ Call("timer", "append")
           \/ UNCHANGED <<vars, callers>>
        /\ \/ UNCHANGED <<writer, why>>
           \/ \E failed \in BOOLEAN : SettleCall(j, failed)
    BY <1>5 DEF Answer, TimeOut, Retry, stage
  <2>2. /\ why \subseteq why'
        /\ \/ UNCHANGED <<writer, why>>
           \/ /\ Waits /\ writer' \in {"calling", "judging", "running", "throwing"}
              /\ calls' # NoCalls => Waits' \/ Abandoned'
              /\ why' \subseteq why \cup {"calls_abandoned"}
    BY <2>0, <2>1, CallSettles
  <2>3. CallersInv'
    <3>1. CASE Call("timer", "append")
      BY <2>1, <2>2, <3>1, TimerCalls
    <3>2. CASE UNCHANGED <<vars, callers>>
      BY <1>0, <2>1, <2>2, <3>2, QuietWriters DEF vars, WriterInv, CallersInv, Waits
    <3> QED
      BY <2>1, <3>1, <3>2
  <2>4. Waits \/ Abandoned
    BY <2>0 DEF WriterInv, TimersInv
  <2>5. Waits' \/ Abandoned' \/ calls' = NoCalls
    BY <2>2, <2>4 DEF Waits, Abandoned
  <2>6. writer' \notin {"starting", "locked", "resuming", "releasing", "over"} \cup (Awaiting \ {"awaiting"})
        \/ Abandoned'
    BY <2>2, <2>4 DEF Waits, Abandoned
  <2>7. TimersInv'
    BY <2>5, <2>6 DEF TimersInv
  <2>8. ListenerInv'
    BY <2>1, <2>2, <2>4 DEF WriterInv, ListenerInv, Waits
  <2> QED
    BY <1>0, <2>3, <2>7, <2>8 DEF WriterInv
<1>6. CASE Heartbeat
  <2>1. CallersInv'
    BY <1>6, TimerCalls DEF Heartbeat, stage
  <2> QED
    BY <1>0, <1>6, <2>1 DEF Heartbeat, stage, WriterInv, TimersInv, ListenerInv, Waits, Abandoned
<1>7. CASE Signal
  <2>1. "hook" \in Callers
    BY DEF Callers
  <2>2. CallersInv'
    BY <1>7, <1>o, <2>1, CallAdds DEF Signal, WriterInv, CallersInv
  <2> QED
    BY <1>0, <1>7, <2>2 DEF Signal, WriterInv, TimersInv, ListenerInv, Waits, Abandoned
<1>8. CASE Drained \/ HookTimesOut \/ ReleaseOnSignal
  <2>1. /\ UNCHANGED <<vars, callers, writer, calls>>
        /\ hook # "none" /\ hook' # "none"
        /\ why \subseteq why'
        /\ listener' = listener \/ listener' = FALSE
    BY <1>8 DEF Drained, HookTimesOut, ReleaseOnSignal
  <2>2. \/ hook = "draining"
        \/ hook' = "ended" /\ "hook_cut_short" \in why'
        \/ UNCHANGED <<hook, why>>
    BY <1>8 DEF Drained, HookTimesOut, ReleaseOnSignal
  <2>3. Enqueued("hook") => hook = "appending" \/ (hook = "ended" /\ "hook_cut_short" \in why)
    BY DEF WriterInv, CallersInv
  <2>4. CallersInv'
    BY <1>0, <2>1, <2>2, <2>3, QuietWriters DEF vars, WriterInv, CallersInv
  <2> QED
    BY <1>0, <2>1, <2>4 DEF WriterInv, TimersInv, ListenerInv, Waits, Abandoned
<1>9. CASE OperationWorks \/ NextProcess \/ UNCHANGED storeAndWriters
  <2>1. UNCHANGED writerVars /\ UNCHANGED writeQueue
    BY <1>9 DEF OperationWorks, NextProcess, Restart, storeAndWriters, vars
  <2>2. CallersInv'
    BY <1>0, <2>1, QuietWriters DEF writerVars, WriterInv, CallersInv
  <2> QED
    BY <1>0, <2>1, <2>2 DEF writerVars, WriterInv, TimersInv, ListenerInv, Waits, Abandoned, IsLast
<1>10. ASSUME NEW resolved \in BOOLEAN, Working, Settle, CallerGoesOn(resolved) PROVE WriterInv'
  <2>1. callers' = Tail(callers) /\ UNCHANGED calls
    BY <1>10 DEF CallerGoesOn
  <2>2. /\ callers' \in Seq(Callers) /\ Len(callers') = Len(writeQueue')
        /\ callers # <<>> /\ Head(callers) \in Callers /\ Enqueued(Head(callers))
        /\ \A w : Enqueued(w)' => Enqueued(w)
        /\ \A w : Alone(w) => Alone(w)'
        /\ \A w : Alone(w) /\ Head(callers) = w => ~Enqueued(w)'
        /\ \A w : IsLast(w) /\ Head(callers) # w => IsLast(w)'
        /\ \A w : IsLast(w) /\ Alone(w) /\ Head(callers) = w => callers' = <<>>
    BY <1>10, <2>1, CallerLeaves DEF WriterInv
  <2>3. CASE Head(callers) = "pipeline"
    <3>1. /\ writer \in Awaiting /\ PipelineGoesOn(resolved) /\ UNCHANGED hook
          /\ ~Enqueued("pipeline")'
      BY <1>10, <2>2, <2>3 DEF CallerGoesOn, WriterInv, CallersInv
    <3>2. /\ writer' = Continuation(resolved)
          /\ writer' \notin Awaiting /\ ~Waits /\ why \subseteq why'
          /\ why' \subseteq why \cup {"failure_not_recorded"}
      BY <3>1 DEF PipelineGoesOn, Continuation, Waits
    <3>3. CallersInv'
      BY <2>2, <3>1, <3>2 DEF WriterInv, CallersInv
    <3>4. TimersInv'
      <4>1. calls' # NoCalls => Abandoned'
        BY <2>1, <3>2 DEF WriterInv, TimersInv, Abandoned
      <4>2. writer = "awaiting" => writer' \in {"running", "throwing"}
        BY <3>2 DEF Continuation
      <4>3. ASSUME hook = "none", ~Abandoned, writer # "awaiting" PROVE callers' = <<>>
        BY <2>2, <2>3, <3>1, <4>3 DEF WriterInv, TimersInv, CallersInv
      <4> QED
        BY <3>1, <3>2, <4>1, <4>2, <4>3 DEF TimersInv, Abandoned
    <3>5. ListenerInv'
      <4>1. writer' \in {"locked", "over"} => writer = "reclaiming" /\ ~listener'
        BY <3>1, <3>2 DEF PipelineGoesOn, Continuation, WriterInv, ListenerInv
      <4>2. writer' = "releasing" /\ listener' => "failure_not_recorded" \in why'
        BY <3>1, <3>2 DEF PipelineGoesOn, Continuation
      <4>3. writer' \notin {"starting", "reclaiming", "preparing"}
        BY <3>1, <3>2 DEF Continuation
      <4> QED
        BY <4>1, <4>2, <4>3 DEF ListenerInv
    <3> QED
      BY <1>0, <3>3, <3>4, <3>5 DEF WriterInv
  <2>4. CASE Head(callers) # "pipeline"
    <3>1. /\ UNCHANGED <<writer, listener>> /\ why \subseteq why'
          /\ why' \subseteq why \cup {"hook_cut_short"}
          /\ hook' = "none" <=> hook = "none"
          /\ IF Head(callers) = "hook" THEN TRUE ELSE UNCHANGED <<hook, why>>
      BY <1>10, <2>4 DEF CallerGoesOn
    <3>2. CallersInv'
      <4>1. CASE Head(callers) = "hook"
        BY <2>2, <3>1, <4>1 DEF WriterInv, CallersInv
      <4>2. CASE Head(callers) # "hook"
        BY <2>2, <3>1, <4>2 DEF WriterInv, CallersInv
      <4> QED
        BY <4>1, <4>2
    <3>3. TimersInv'
      <4>1. calls' # NoCalls => Waits' \/ Abandoned'
        BY <2>1, <3>1 DEF WriterInv, TimersInv, Waits, Abandoned
      <4> QED
        BY <2>2, <2>4, <3>1, <4>1 DEF WriterInv, TimersInv, Abandoned
    <3>4. ListenerInv'
      BY <3>1 DEF WriterInv, ListenerInv
    <3> QED
      BY <1>0, <3>2, <3>3, <3>4 DEF WriterInv
  <2> QED
    BY <2>3, <2>4
<1>11. CASE OperationResolves \/ OperationRejects
  <2>1. \E resolved \in BOOLEAN : Working /\ Settle /\ CallerGoesOn(resolved)
    BY <1>11 DEF OperationResolves, OperationRejects, Load, RepairFails, WriteFails, WriteManifestFails,
                 Commit, WriteManifest, PrepareReturns
  <2> QED
    BY <1>10, <2>1
<1>12. CASE ProcessEnds
  <2>1. callers' = <<>> /\ writeQueue' = <<>>
    BY <1>12 DEF ProcessEnds, Crash
  <2>2. CallersInv'
    BY <2>1, EmptySeq DEF CallersInv, Enqueued, Alone
  <2> QED
    BY <1>0, <1>12, <2>1, <2>2 DEF ProcessEnds, WriterInv, TimersInv, ListenerInv
<1> QED
  BY <1>1, <1>2, <1>3, <1>4, <1>5, <1>6, <1>7, <1>8, <1>9, <1>11, <1>12 DEF WriterNext

\* When the campaign gives its lock back without a signal, only time outs of abandoned
\* calls are left in the queue, and none can be added but in the two cases named; and a
\* hook that ran to its end has seen its own event settle.  The queue is followed by
\* who is waiting in it, and by the pipeline's event that is the last one where it awaits.
THEOREM NoOtherWriterIsLate == WriterSpec => []LateWritesAreKnown
<1>1. WriterInv => LateWritesAreKnown
  <2> SUFFICES ASSUME WriterInv PROVE LateWritesAreKnown
    OBVIOUS
  <2>1. ASSUME running, lock = "free", writer = "over", hook = "none"
        PROVE  /\ \A i \in 1..Len(callers) : callers[i] = "timer"
               /\ callers # <<>> => "calls_abandoned" \in why
               /\ listener => why \cap {"failure_not_recorded", "returned_early"} # {}
    <3>1. ~Enqueued("pipeline") /\ ~Enqueued("hook") /\ callers \in Seq(Callers)
      BY <2>1 DEF WriterInv, CallersInv, Awaiting
    <3>2. ASSUME NEW i \in 1..Len(callers) PROVE callers[i] = "timer"
      <4>1. callers[i] \in Callers
        BY <3>1, ElementOfSeq
      <4> QED
        BY <3>1, <4>1 DEF Enqueued, Callers
    <3> QED
      BY <2>1, <3>2 DEF WriterInv, TimersInv, ListenerInv, Abandoned
  <2>2. ASSUME hook = "ended", "hook_cut_short" \notin why
        PROVE  \A i \in 1..Len(callers) : callers[i] # "hook"
    BY <2>2 DEF WriterInv, CallersInv, Enqueued
  <2> QED
    BY <2>1, <2>2 DEF LateWritesAreKnown
<1> QED
  BY <1>1, WriterInitInv, WriterInvStep, PTL DEF WriterSpec, storeAndWriters

\* The store does for the campaign's writers what it does for any callers.
THEOREM WritersUseTheStore == WriterSpec => Spec
<1>1. WriterInit => Init
  BY DEF WriterInit
<1> QED
  BY <1>1, WriterStep, PTL DEF WriterSpec, Spec, storeAndWriters

=============================================================================
