------------------------- MODULE EvidenceStoreProofs -------------------------
(***************************************************************************)
(* The safety of the evidence store, for any bounds and any set of faults, *)
(* or, where a theorem says so, when a failing append writes nothing.      *)
(***************************************************************************)
EXTENDS EvidenceStore, SequenceTheorems, TLAPS

USE StoreConstants

-----------------------------------------------------------------------------
(* Facts about chains and about reading a stream.                          *)

LEMMA HeadHashType ==
    ASSUME NEW c \in Seq(Event) PROVE HeadHash(c) \in Nat
<1>1. CASE c = <<>>
  BY <1>1 DEF HeadHash, NoHash
<1>2. CASE c # <<>>
  <2>1. Len(c) \in 1..Len(c)
    BY <1>2, EmptySeq
  <2>2. c[Len(c)] \in Event
    BY <2>1, ElementOfSeq
  <2> QED
    BY <1>2, <2>2 DEF HeadHash, Event
<1> QED
  BY <1>1, <1>2

\* The successor of a chain of events is an event and leaves the chain valid.
LEMMA SuccessorExtends ==
    ASSUME NEW c \in Seq(Event), NEW h \in Nat \ {NoHash}
    PROVE  /\ Successor(c, h) \in Event
           /\ Append(c, Successor(c, h)) \in Seq(Event)
           /\ Valid(c) => Valid(Append(c, Successor(c, h)))
<1> DEFINE e == Successor(c, h)
<1>1. HeadHash(c) \in Nat
  BY HeadHashType
<1>2. e \in Event
  BY <1>1 DEF Successor, Event
<1>3. ASSUME Valid(c) PROVE Valid(Append(c, e))
  <2> SUFFICES ASSUME NEW i \in 1..(Len(c) + 1)
               PROVE  LET d == Append(c, e) IN
                      /\ d[i].index = i - 1
                      /\ d[i].previousHash = IF i = 1 THEN NoHash ELSE d[i - 1].hash
    BY <1>2 DEF Valid
  <2>1. CASE i <= Len(c)
    BY <1>2, <1>3, <2>1 DEF Valid
  <2>2. CASE i = Len(c) + 1
    BY <1>2, <2>2 DEF Successor, HeadHash
  <2> QED
    BY <2>1, <2>2
<1> QED
  BY <1>2, <1>3

\* A stream without torn lines is read as it stands.
LEMMA CleanRead ==
    ASSUME lines \in Seq(Event)
    PROVE  ~Corrupted /\ RetainedEvents = lines
BY DEF Corrupted, RetainedEvents

LEMMA CleanReadNext ==
    ASSUME lines' \in Seq(Event)
    PROVE  RetainedEvents' = lines'
BY DEF RetainedEvents

-----------------------------------------------------------------------------
(* Types.                                                                  *)

LEMMA RetainedType ==
    ASSUME lines \in Seq(Event \cup {Torn}), ~Corrupted
    PROVE  RetainedEvents \in Seq(Event)
<1>1. CASE lines # <<>> /\ lines[Len(lines)] = Torn
  <2>1. RetainedEvents = SubSeq(lines, 1, Len(lines) - 1)
    BY <1>1 DEF RetainedEvents
  <2>2. \A i \in 1..(Len(lines) - 1) : lines[i] \in Event
    BY DEF Corrupted
  <2> QED
    BY <2>1, <2>2
<1>2. CASE ~(lines # <<>> /\ lines[Len(lines)] = Torn)
  <2>1. \A i \in 1..Len(lines) : lines[i] \in Event
    BY <1>2 DEF Corrupted
  <2> QED
    BY <1>2, <2>1 DEF RetainedEvents
<1> QED
  BY <1>1, <1>2

\* What the types need of the place an append stands at.
EventReady == at \in {"write", "writing", "written"} => event \in Event

\* A repair is only under way on a stream that can be read.
RepairReadable == at = "repair" => ~Corrupted /\ ~prepared

TypeInv == TypeOK /\ EventReady /\ RepairReadable

LEMMA NoItems ==
    /\ <<>> \in Seq(Event) /\ <<>> \in Seq(Event \cup {Torn})
    /\ <<>> \in Seq(Operations)
BY EmptySeq

LEMMA InitTypeInv == Init => TypeInv
<1> SUFFICES ASSUME Init PROVE TypeInv
  OBVIOUS
<1>1. lines \in Seq(Event \cup {Torn}) /\ hashChain \in Seq(Event) /\ acked \in Seq(Event)
  BY NoItems DEF Init
<1>2. writeQueue \in Seq(Operations)
  BY NoItems DEF Init
<1>3. running \in BOOLEAN /\ prepared \in BOOLEAN
  BY DEF Init
<1>4. /\ tail \in Event \cup {Torn, Empty} /\ manifest \in Checkpoint \cup {NoManifest}
      /\ event \in Event \cup {Empty} /\ at \in Places
      /\ computed \in Nat /\ crashes \in Nat
  BY DEF Init, Places
<1>5. EventReady /\ RepairReadable
  BY DEF Init, EventReady, RepairReadable
<1> QED
  BY <1>1, <1>2, <1>3, <1>4, <1>5 DEF TypeInv, TypeOK

LEMMA NextTypeInv == TypeInv /\ [Next]_vars => TypeInv'
<1> SUFFICES ASSUME TypeInv, [Next]_vars PROVE TypeInv'
  OBVIOUS
<1> USE DEF TypeInv, TypeOK, EventReady, RepairReadable, Places, Working, Settle,
            disk, memory
<1>1. ASSUME NEW op \in Operations, Enqueue(op) PROVE TypeInv'
  BY <1>1 DEF Enqueue, Corrupted
<1>2. CASE Load
  <2>1. CASE Corrupted /\ Settle /\ UNCHANGED memory
    BY <1>2, <2>1 DEF Load
  <2>2. CASE ~Corrupted /\ at' = "repair" /\ UNCHANGED <<memory, writeQueue>>
    BY <1>2, <2>2 DEF Load, Corrupted
  <2>3. CASE ~Corrupted /\ prepared' = TRUE /\ hashChain' = RetainedEvents
             /\ UNCHANGED <<event, writeQueue, at>>
    BY <1>2, <2>3, RetainedType DEF Load
  <2> QED
    BY <1>2, <2>1, <2>2, <2>3 DEF Load
<1>3. CASE Repair
  BY <1>3, RetainedType DEF Repair
<1>4. CASE RepairFails
  BY <1>4 DEF RepairFails
<1>5. CASE ComputeNext
  <2>1. computed' \in Nat \ {NoHash} /\ event' = Successor(hashChain, computed')
    BY <1>5 DEF ComputeNext, NoHash
  <2>2. event' \in Event
    BY <2>1, SuccessorExtends
  <2> QED
    BY <1>5, <2>2 DEF ComputeNext
<1>6. CASE WritePart
  BY <1>6 DEF WritePart, GuardedLines
<1>7. CASE WriteRest
  BY <1>7 DEF WriteRest, GuardedLines
<1>8. CASE WriteFails
  BY <1>8 DEF WriteFails
<1>9. CASE Commit
  BY <1>9 DEF Commit
<1>10. CASE WriteManifest
  <2>1. HeadHash(hashChain) \in Nat
    BY HeadHashType
  <2> QED
    BY <1>10, <2>1 DEF WriteManifest, Checkpoint
<1>11. CASE WriteManifestFails
  BY <1>11 DEF WriteManifestFails
<1>15. CASE PrepareReturns
  BY <1>15 DEF PrepareReturns
<1>12. CASE Crash
  <2>1. hashChain' \in Seq(Event) /\ writeQueue' \in Seq(Operations)
    BY <1>12, NoItems DEF Crash
  <2>2. running' \in BOOLEAN /\ prepared' \in BOOLEAN
    BY <1>12 DEF Crash
  <2>3. event' \in Event \cup {Empty} /\ at' = "queue" /\ crashes' \in Nat
    BY <1>12 DEF Crash
  <2>4. UNCHANGED <<lines, tail, manifest, computed, acked>>
    BY <1>12 DEF Crash
  <2> QED
    BY <2>1, <2>2, <2>3, <2>4
<1>13. CASE Restart
  BY <1>13 DEF Restart, Corrupted
<1>14. CASE UNCHANGED vars
  BY <1>14 DEF vars, Corrupted
<1> QED
  BY <1>1, <1>2, <1>3, <1>4, <1>5, <1>6, <1>7, <1>8, <1>9, <1>10, <1>11, <1>12,
     <1>13, <1>14, <1>15 DEF Next, Progress

\* The store's variables stay within their types, whatever fails.
THEOREM TypeCorrect == Spec => []TypeOK
<1>1. TypeInv => TypeOK
  BY DEF TypeInv
<1> QED
  BY <1>1, InitTypeInv, NextTypeInv, PTL DEF Spec

-----------------------------------------------------------------------------
(* Whatever fails: acknowledged lines stay in the file, a broken stream is *)
(* left alone.                                                             *)

\* Only a prepared store writes.
WriterPrepared == at \in {"write", "writing", "written"} => prepared

\* When the line has been written it is the last one.
WrittenLast == at = "written" => lines # <<>> /\ lines[Len(lines)] = event

FaultInv == TypeInv /\ WriterPrepared /\ WrittenLast /\ AckedReadable

\* Lines are only ever added, or Torn ones dropped: what an event's line was,
\* it is still one.
LinesKept == \A j \in 1..Len(lines) :
    lines[j] # Torn => \E k \in 1..Len(lines') : lines'[k] = lines[j]

LEMMA InitFaultInv == Init => FaultInv
<1> SUFFICES ASSUME Init PROVE FaultInv
  OBVIOUS
<1>1. WriterPrepared /\ WrittenLast
  BY DEF Init, WriterPrepared, WrittenLast
<1>2. AckedReadable
  BY EmptySeq DEF Init, AckedReadable
<1> QED
  BY <1>1, <1>2, InitTypeInv DEF FaultInv

\* Appending to the guarded lines loses none of them.
LEMMA GuardedKept ==
    ASSUME TypeOK
    PROVE  /\ GuardedLines \in Seq(Event \cup {Torn})
           /\ \A j \in 1..Len(lines) :
                j \in 1..Len(GuardedLines) /\ GuardedLines[j] = lines[j]
BY DEF TypeOK, GuardedLines

LEMMA StepKeepsLines == FaultInv /\ [Next]_vars => LinesKept
<1> SUFFICES ASSUME FaultInv, [Next]_vars PROVE LinesKept
  OBVIOUS
<1>0. TypeOK
  BY DEF FaultInv, TypeInv
<1>1. CASE UNCHANGED lines
  BY <1>0, <1>1 DEF LinesKept
<1>2. CASE Repair
  <2>1. lines' = RetainedEvents
    BY <1>2 DEF Repair
  <2>2. \A j \in 1..Len(lines) : lines[j] # Torn =>
            j \in 1..Len(RetainedEvents) /\ RetainedEvents[j] = lines[j]
    BY <1>0 DEF TypeOK, RetainedEvents
  <2> QED
    BY <2>1, <2>2 DEF LinesKept
<1>3. CASE WritePart
  BY <1>0, <1>3, GuardedKept DEF WritePart, LinesKept
<1>4. CASE WriteRest
  <2>1. event \in Event
    BY <1>4 DEF WriteRest, FaultInv, TypeInv, EventReady
  <2>2. CASE at = "write"
    <3>1. lines' = Append(GuardedLines, event)
      BY <1>4, <2>2 DEF WriteRest
    <3>2. \A j \in 1..Len(GuardedLines) :
            j \in 1..Len(lines') /\ lines'[j] = GuardedLines[j]
      BY <1>0, <2>1, <3>1, GuardedKept
    <3> QED
      BY <1>0, <3>2, GuardedKept DEF LinesKept
  <2>3. CASE at # "write"
    <3>1. lines' = Append(lines, event)
      BY <1>4, <2>3 DEF WriteRest
    <3> QED
      BY <1>0, <2>1, <3>1 DEF LinesKept, TypeOK
  <2> QED
    BY <2>2, <2>3
<1>5. UNCHANGED lines \/ Repair \/ WritePart \/ WriteRest
  BY DEF Next, Progress, Enqueue, Load, RepairFails, ComputeNext, WriteFails, Commit,
     WriteManifest, WriteManifestFails, PrepareReturns, Crash, Restart, vars, disk
<1> QED
  BY <1>1, <1>2, <1>3, <1>4, <1>5

LEMMA NextFaultInv == FaultInv /\ [Next]_vars => FaultInv'
<1> SUFFICES ASSUME FaultInv, [Next]_vars PROVE FaultInv'
  OBVIOUS
<1>0. TypeOK /\ EventReady /\ TypeInv'
  BY NextTypeInv DEF FaultInv, TypeInv
<1>1. WriterPrepared'
  BY DEF FaultInv, WriterPrepared, Next, Progress, Enqueue, Load, Repair, RepairFails,
     ComputeNext, WritePart, WriteRest, WriteFails, Commit, WriteManifest,
     WriteManifestFails, PrepareReturns, Crash, Restart, vars, memory, Settle
<1>2. WrittenLast'
  <2>1. CASE WriteRest
    <3>1. event \in Event /\ event' = event
      BY <2>1, <1>0 DEF WriteRest, EventReady, memory
    <3>2. PICK c \in Seq(Event \cup {Torn}) : lines' = Append(c, event)
      BY <2>1, <1>0, GuardedKept DEF WriteRest, TypeOK
    <3> QED
      BY <3>1, <3>2 DEF WrittenLast
  <2>2. CASE UNCHANGED <<at, lines, event>> \/ at' # "written"
    BY <2>2 DEF FaultInv, WrittenLast
  <2>3. WriteRest \/ UNCHANGED <<at, lines, event>> \/ at' # "written"
    BY DEF Next, Progress, Enqueue, Load, Repair, RepairFails,
       ComputeNext, WritePart, WriteFails, Commit, WriteManifest,
       WriteManifestFails, PrepareReturns, Crash, Restart, vars, disk, memory, Settle
  <2> QED
    BY <2>1, <2>2, <2>3
<1>3. AckedReadable'
  <2>1. \A i \in 1..Len(acked) : acked[i] \in Event /\ acked[i] # Torn
    BY <1>0, ElementOfSeq DEF TypeOK, StoreConstants
  <2>2. \A i \in 1..Len(acked) : \E k \in 1..Len(lines') : lines'[k] = acked[i]
    BY <2>1, StepKeepsLines DEF FaultInv, AckedReadable, LinesKept
  <2>3. CASE Commit
    <3>1. event \in Event /\ lines # <<>> /\ lines[Len(lines)] = event
      BY <2>3, <1>0 DEF Commit, EventReady, FaultInv, WrittenLast
    <3>2. Len(lines) \in 1..Len(lines)
      BY <3>1, <1>0, EmptySeq DEF TypeOK
    <3>3. lines' = lines /\ acked' = Append(acked, event)
      BY <2>3 DEF Commit, disk
    <3>4. \A i \in 1..Len(acked') :
            IF i <= Len(acked) THEN i \in 1..Len(acked) /\ acked'[i] = acked[i]
            ELSE acked'[i] = event
      BY <1>0, <3>1, <3>3 DEF TypeOK
    <3> QED
      BY <2>2, <3>1, <3>2, <3>3, <3>4 DEF AckedReadable
  <2>4. CASE UNCHANGED acked
    BY <2>2, <2>4 DEF AckedReadable
  <2>5. Commit \/ UNCHANGED acked
    BY DEF Next, Progress, Enqueue, Load, Repair, RepairFails, ComputeNext, WritePart,
       WriteRest, WriteFails, WriteManifest, WriteManifestFails, PrepareReturns, Crash, Restart, vars
  <2> QED
    BY <2>3, <2>4, <2>5
<1> QED
  BY <1>0, <1>1, <1>2, <1>3 DEF FaultInv

\* However appends fail, the line of an acknowledged event stays in the file.
THEOREM AcknowledgedLinesStay == Spec => []AckedReadable
<1>1. FaultInv => AckedReadable
  BY DEF FaultInv
<1> QED
  BY <1>1, InitFaultInv, NextFaultInv, PTL DEF Spec

\* A store that has not been prepared never writes to a stream it cannot read.
THEOREM CorruptedStreamsAreLeftAlone == Spec => FailsClosed
<1>1. FaultInv /\ [Next]_vars => [~prepared /\ Corrupted => UNCHANGED disk]_vars
  <2> SUFFICES ASSUME FaultInv, [Next]_vars, ~prepared, Corrupted
               PROVE  UNCHANGED disk
    OBVIOUS
  <2>1. at \notin {"repair", "write", "writing", "written"}
    BY DEF FaultInv, TypeInv, RepairReadable, WriterPrepared
  <2> QED
    BY <2>1 DEF Next, Progress, Enqueue, Load, Repair, RepairFails, ComputeNext,
       WritePart, WriteRest, WriteFails, Commit, WriteManifest, WriteManifestFails, PrepareReturns,
       Crash, Restart, vars
<1> QED
  BY <1>1, InitFaultInv, NextFaultInv, PTL DEF Spec, FailsClosed

-----------------------------------------------------------------------------
(* When a failing append writes nothing, the stream is a chain at every    *)
(* moment and the store keeps the promise of an append-only log.           *)

CleanFaultsOnly == Faults \subseteq {"nothing_written"}

Writing == at \in {"write", "writing", "written"}

\* Every line is an event and the lines are linked.
Chained == lines \in Seq(Event) /\ Valid(lines)

\* The event being written is the one that extends the chain in memory.
EventExtends ==
    Writing => /\ prepared /\ event \in Event
               /\ event = Successor(hashChain, event.hash)

\* Nothing follows the last newline of a prepared stream but what is being
\* written.
TailClean == prepared /\ at # "writing" => tail = Empty

\* Acknowledged events come before the one being written.
AckedBefore ==
    Writing => \A i \in 1..Len(acked) : acked[i].index < Len(hashChain)

\* Hashes are used once: those in the stream are older than the one to come.
HashesFresh ==
    /\ \A i \in 1..Len(lines) : lines[i].hash <= computed
    /\ Writing => event.hash <= computed
    /\ at \in {"write", "writing"} =>
          \A i \in 1..Len(lines) : lines[i].hash < event.hash

ChainInv ==
    /\ TypeInv /\ Chained /\ MemoryMatchesDisk /\ EventExtends /\ TailClean
    /\ CheckpointHolds /\ AckedDurable /\ AckedBefore /\ HashesFresh

LEMMA InitChainInv == Init => ChainInv
<1> SUFFICES ASSUME Init PROVE ChainInv
  OBVIOUS
<1>1. lines = <<>> /\ acked = <<>> /\ at = "queue" /\ ~prepared /\ manifest = NoManifest
  BY DEF Init
<1>2. Len(lines) = 0 /\ Len(acked) = 0 /\ lines \in Seq(Event)
  BY <1>1, EmptySeq
<1>3. Chained /\ AckedDurable /\ HashesFresh
  BY <1>1, <1>2 DEF Chained, Valid, AckedDurable, HashesFresh, Writing
<1>4. MemoryMatchesDisk /\ EventExtends /\ TailClean /\ CheckpointHolds /\ AckedBefore
  BY <1>1 DEF MemoryMatchesDisk, EventExtends, TailClean, CheckpointHolds, AckedBefore,
     Writing
<1> QED
  BY <1>3, <1>4, InitTypeInv DEF ChainInv

\* Steps that settle, queue or put off an operation without touching a file.
LEMMA QuietStep ==
    ASSUME ChainInv, TypeInv',
           UNCHANGED <<disk, memory, computed, acked>>,
           \/ at' = at
           \/ at \notin {"writing", "written"} /\ at' \in {"queue", "repair"}
    PROVE  ChainInv'
<1>1. Chained' /\ AckedDurable'
  BY DEF ChainInv, Chained, Valid, AckedDurable, disk
<1>2. CheckpointHolds'
  BY DEF ChainInv, CheckpointHolds, AgreesWith, RetainedEvents, disk
<1>3. MemoryMatchesDisk' /\ TailClean'
  BY DEF ChainInv, MemoryMatchesDisk, TailClean, disk, memory
<1>4. EventExtends' /\ AckedBefore'
  BY DEF ChainInv, EventExtends, AckedBefore, Writing, memory, Successor, HeadHash
<1>5. HashesFresh'
  BY DEF ChainInv, HashesFresh, Writing, disk, memory
<1> QED
  BY <1>1, <1>2, <1>3, <1>4, <1>5 DEF ChainInv

\* A chain that has grown by one event still agrees with its checkpoint.
LEMMA CheckpointSurvivesAppend ==
    ASSUME lines \in Seq(Event), TypeOK, CheckpointHolds,
           NEW e \in Event, lines' = Append(lines, e), UNCHANGED manifest
    PROVE  CheckpointHolds'
<1>1. lines' \in Seq(Event)
  OBVIOUS
<1>2. RetainedEvents = lines /\ RetainedEvents' = lines'
  BY <1>1, CleanRead, CleanReadNext
<1>3. SUFFICES ASSUME manifest # NoManifest PROVE AgreesWith(lines', manifest)
  BY <1>2 DEF CheckpointHolds
<1>4. AgreesWith(lines, manifest) /\ manifest.eventCount \in Nat
  BY <1>2, <1>3 DEF CheckpointHolds, TypeOK, Checkpoint
<1> QED
  BY <1>4 DEF AgreesWith

LEMMA StepWriteRest == ChainInv /\ TypeInv' /\ WriteRest => ChainInv'
<1> SUFFICES ASSUME ChainInv, TypeInv', WriteRest PROVE ChainInv'
  OBVIOUS
<1>0. TypeOK /\ lines \in Seq(Event) /\ hashChain \in Seq(Event)
  BY DEF ChainInv, TypeInv, TypeOK, Chained
<1>1. /\ prepared /\ event \in Event /\ event = Successor(hashChain, event.hash)
      /\ lines = hashChain
  BY DEF ChainInv, EventExtends, Writing, WriteRest, MemoryMatchesDisk
<1>2. lines' = Append(lines, event)
  BY <1>1 DEF ChainInv, TailClean, WriteRest, GuardedLines
<1>3. tail' = Empty /\ at' = "written"
      /\ UNCHANGED <<manifest, prepared, hashChain, event, computed, acked>>
  BY DEF WriteRest, memory
<1>4. event.hash \in Nat \ {NoHash}
  BY <1>1 DEF Event
<1>5. Chained'
  BY <1>0, <1>1, <1>2, <1>4, SuccessorExtends DEF ChainInv, Chained
<1>6. MemoryMatchesDisk' /\ TailClean' /\ EventExtends' /\ AckedBefore'
  BY <1>1, <1>2, <1>3 DEF MemoryMatchesDisk, TailClean, EventExtends, AckedBefore,
     Writing, ChainInv, WriteRest, Successor, HeadHash
<1>7. CheckpointHolds'
  BY <1>0, <1>1, <1>2, <1>3, CheckpointSurvivesAppend DEF ChainInv
<1>8. \A i \in 1..Len(lines) : i \in 1..Len(lines') /\ lines'[i] = lines[i]
  BY <1>0, <1>1, <1>2
<1>9. AckedDurable'
  BY <1>3, <1>8 DEF ChainInv, AckedDurable
<1>10. HashesFresh'
  BY <1>0, <1>1, <1>2, <1>3 DEF ChainInv, HashesFresh, Writing, WriteRest
<1> QED
  BY <1>5, <1>6, <1>7, <1>9, <1>10 DEF ChainInv

LEMMA StepComputeNext == ChainInv /\ TypeInv' /\ ComputeNext => ChainInv'
<1> SUFFICES ASSUME ChainInv, TypeInv', ComputeNext PROVE ChainInv'
  OBVIOUS
<1>0. lines \in Seq(Event) /\ hashChain \in Seq(Event) /\ computed \in Nat
  BY DEF ChainInv, TypeInv, TypeOK, Chained
<1>1. /\ prepared /\ at = "queue" /\ at' = "write"
      /\ computed' = computed + 1 /\ event' = Successor(hashChain, computed')
      /\ UNCHANGED <<lines, tail, manifest, prepared, hashChain, acked>>
  BY DEF ComputeNext, disk
<1>2. lines = hashChain
  BY <1>1 DEF ChainInv, MemoryMatchesDisk
<1>3. event' \in Event /\ event'.hash = computed'
  BY <1>0, <1>1, SuccessorExtends DEF Successor, NoHash
<1>4. Chained' /\ AckedDurable'
  BY <1>1 DEF ChainInv, Chained, Valid, AckedDurable
<1>5. CheckpointHolds'
  BY <1>1 DEF ChainInv, CheckpointHolds, AgreesWith, RetainedEvents
<1>6. MemoryMatchesDisk' /\ TailClean'
  BY <1>1, <1>2 DEF ChainInv, MemoryMatchesDisk, TailClean
<1>7. EventExtends'
  BY <1>1, <1>3 DEF EventExtends, Successor, HeadHash
<1>8. AckedBefore'
  <2> SUFFICES ASSUME NEW i \in 1..Len(acked) PROVE acked[i].index < Len(hashChain)
    BY <1>1 DEF AckedBefore
  <2>0. acked \in Seq(Event)
    BY DEF ChainInv, TypeInv, TypeOK
  <2>1. acked[i].index \in Nat
    <3>1. acked[i] \in Event
      BY <2>0, ElementOfSeq
    <3> QED
      BY <3>1 DEF Event
  <2>2. acked[i].index + 1 \in 1..Len(hashChain)
    BY <1>2 DEF ChainInv, AckedDurable
  <2> QED
    BY <1>0, <2>1, <2>2
<1>9. HashesFresh'
  <2>1. \A i \in 1..Len(lines) : lines[i].hash \in Nat /\ lines[i].hash <= computed
    <3> SUFFICES ASSUME NEW i \in 1..Len(lines)
                 PROVE  lines[i].hash \in Nat /\ lines[i].hash <= computed
      OBVIOUS
    <3>1. lines[i] \in Event
      BY <1>0, ElementOfSeq
    <3> QED
      BY <3>1 DEF Event, ChainInv, HashesFresh
  <2>2. \A i \in 1..Len(lines) : lines[i].hash <= computed' /\ lines[i].hash < computed'
    BY <1>0, <1>1, <2>1
  <2> QED
    BY <1>0, <1>1, <1>3, <2>2 DEF HashesFresh, Writing
<1> QED
  BY <1>4, <1>5, <1>6, <1>7, <1>8, <1>9 DEF ChainInv

LEMMA StepCommit == ChainInv /\ TypeInv' /\ Commit => ChainInv'
<1> SUFFICES ASSUME ChainInv, TypeInv', Commit PROVE ChainInv'
  OBVIOUS
<1>0. lines \in Seq(Event) /\ hashChain \in Seq(Event) /\ acked \in Seq(Event)
  BY DEF ChainInv, TypeInv, TypeOK, Chained
<1>1. /\ at = "written" /\ at' = "queue"
      /\ hashChain' = Append(hashChain, event) /\ acked' = Append(acked, event)
      /\ UNCHANGED <<lines, tail, manifest, prepared, event, computed>>
  BY DEF Commit, Settle, disk
<1>2. /\ prepared /\ event \in Event /\ event.index = Len(hashChain)
      /\ lines = Append(hashChain, event)
  BY <1>1 DEF ChainInv, EventExtends, Writing, MemoryMatchesDisk, Successor
<1>3. Chained'
  BY <1>1 DEF ChainInv, Chained, Valid
<1>4. CheckpointHolds'
  BY <1>1 DEF ChainInv, CheckpointHolds, AgreesWith, RetainedEvents
<1>5. MemoryMatchesDisk' /\ TailClean' /\ EventExtends' /\ AckedBefore'
  BY <1>1, <1>2 DEF ChainInv, MemoryMatchesDisk, TailClean, EventExtends, AckedBefore,
     Writing
<1>6. AckedDurable'
  <2>1. \A j \in 1..Len(acked') :
          IF j <= Len(acked) THEN j \in 1..Len(acked) /\ acked'[j] = acked[j]
          ELSE acked'[j] = event
    BY <1>0, <1>1, <1>2
  <2>2. event.index + 1 \in 1..Len(lines) /\ lines[event.index + 1] = event
    BY <1>0, <1>2
  <2> QED
    BY <1>1, <2>1, <2>2 DEF ChainInv, AckedDurable
<1>7. HashesFresh'
  BY <1>1 DEF ChainInv, HashesFresh, Writing
<1> QED
  BY <1>3, <1>4, <1>5, <1>6, <1>7 DEF ChainInv

\* The store becomes prepared, with the stream as it is or repaired.
LEMMA StepPrepared ==
    ASSUME ChainInv, TypeInv', ~prepared, prepared' = TRUE, at' = "queue",
           hashChain' = RetainedEvents, tail' = Empty,
           lines' = lines \/ lines' = RetainedEvents,
           UNCHANGED <<manifest, event, computed, acked>>
    PROVE  ChainInv'
<1>1. RetainedEvents = lines /\ lines' = lines
  BY CleanRead DEF ChainInv, Chained
<1>2. Chained' /\ AckedDurable'
  BY <1>1 DEF ChainInv, Chained, Valid, AckedDurable
<1>3. CheckpointHolds'
  BY <1>1 DEF ChainInv, CheckpointHolds, AgreesWith, RetainedEvents
<1>4. MemoryMatchesDisk' /\ TailClean' /\ EventExtends' /\ AckedBefore'
  BY <1>1 DEF MemoryMatchesDisk, TailClean, EventExtends, AckedBefore, Writing
<1>5. HashesFresh'
  BY <1>1 DEF ChainInv, HashesFresh, Writing
<1> QED
  BY <1>2, <1>3, <1>4, <1>5 DEF ChainInv

LEMMA StepWritePart == ChainInv /\ TypeInv' /\ WritePart => ChainInv'
<1> SUFFICES ASSUME ChainInv, TypeInv', WritePart PROVE ChainInv'
  OBVIOUS
<1>1. prepared /\ tail = Empty
  BY DEF ChainInv, EventExtends, Writing, WritePart, TailClean
<1>2. /\ at = "write" /\ at' = "writing" /\ lines' = lines
      /\ UNCHANGED <<manifest, prepared, hashChain, event, computed, acked>>
  BY <1>1 DEF WritePart, GuardedLines, memory
<1>3. Chained' /\ AckedDurable'
  BY <1>2 DEF ChainInv, Chained, Valid, AckedDurable
<1>4. CheckpointHolds'
  BY <1>2 DEF ChainInv, CheckpointHolds, AgreesWith, RetainedEvents
<1>5. MemoryMatchesDisk' /\ TailClean' /\ EventExtends' /\ AckedBefore'
  BY <1>2 DEF ChainInv, MemoryMatchesDisk, TailClean, EventExtends, AckedBefore,
     Writing, Successor, HeadHash
<1>6. HashesFresh'
  BY <1>2 DEF ChainInv, HashesFresh, Writing
<1> QED
  BY <1>3, <1>4, <1>5, <1>6 DEF ChainInv

LEMMA StepWriteManifest == ChainInv /\ TypeInv' /\ WriteManifest => ChainInv'
<1> SUFFICES ASSUME ChainInv, TypeInv', WriteManifest PROVE ChainInv'
  OBVIOUS
<1>1. /\ prepared /\ at = "queue" /\ at' = "queue"
      /\ manifest' = [eventCount |-> Len(hashChain), headHash |-> HeadHash(hashChain)]
      /\ UNCHANGED <<lines, tail, prepared, hashChain, event, computed, acked>>
  BY DEF WriteManifest, Settle, memory
<1>2. hashChain = lines /\ hashChain \in Seq(Event)
  BY <1>1 DEF ChainInv, MemoryMatchesDisk, TypeInv, TypeOK
<1>3. CheckpointHolds'
  <2>1. RetainedEvents' = lines
    BY <1>1, <1>2, CleanRead DEF RetainedEvents
  <2>2. AgreesWith(hashChain, manifest')
    BY <1>1, <1>2, EmptySeq DEF AgreesWith, HeadHash
  <2> QED
    BY <1>2, <2>1, <2>2 DEF CheckpointHolds
<1>4. Chained' /\ AckedDurable'
  BY <1>1 DEF ChainInv, Chained, Valid, AckedDurable
<1>5. MemoryMatchesDisk' /\ TailClean' /\ EventExtends' /\ AckedBefore' /\ HashesFresh'
  BY <1>1 DEF ChainInv, MemoryMatchesDisk, TailClean, EventExtends, AckedBefore,
     HashesFresh, Writing
<1> QED
  BY <1>3, <1>4, <1>5 DEF ChainInv

LEMMA StepCrash == ChainInv /\ TypeInv' /\ Crash => ChainInv'
<1> SUFFICES ASSUME ChainInv, TypeInv', Crash PROVE ChainInv'
  OBVIOUS
<1>1. /\ ~prepared' /\ at' = "queue"
      /\ UNCHANGED <<lines, tail, manifest, computed, acked>>
  BY DEF Crash, disk
<1>2. Chained' /\ AckedDurable'
  BY <1>1 DEF ChainInv, Chained, Valid, AckedDurable
<1>3. CheckpointHolds'
  BY <1>1 DEF ChainInv, CheckpointHolds, AgreesWith, RetainedEvents
<1>4. MemoryMatchesDisk' /\ TailClean' /\ EventExtends' /\ AckedBefore' /\ HashesFresh'
  BY <1>1 DEF ChainInv, MemoryMatchesDisk, TailClean, EventExtends, AckedBefore,
     HashesFresh, Writing
<1> QED
  BY <1>2, <1>3, <1>4 DEF ChainInv

LEMMA NextChainInv ==
    ASSUME CleanFaultsOnly PROVE ChainInv /\ [Next]_vars => ChainInv'
<1> SUFFICES ASSUME ChainInv, [Next]_vars PROVE ChainInv'
  OBVIOUS
<1>0. TypeInv' /\ ~Corrupted /\ RetainedEvents = lines
  BY NextTypeInv, CleanRead DEF ChainInv, Chained
<1>1. ASSUME NEW op \in Operations, Enqueue(op) PROVE ChainInv'
  BY <1>0, <1>1, QuietStep DEF Enqueue
<1>2. CASE Load
  <2>1. CASE at' = "repair" /\ UNCHANGED <<memory, writeQueue>>
    BY <1>0, <1>2, <2>1, QuietStep DEF Load
  <2>2. CASE ~NeedsRepair /\ prepared' = TRUE /\ hashChain' = RetainedEvents
             /\ UNCHANGED <<event, writeQueue, at>>
    BY <1>0, <1>2, <2>2, StepPrepared DEF Load, NeedsRepair, disk
  <2> QED
    BY <1>0, <1>2, <2>1, <2>2 DEF Load
<1>3. CASE Repair
  BY <1>0, <1>3, StepPrepared DEF Repair, ChainInv, TypeInv, RepairReadable
<1>4. CASE RepairFails
  BY <1>0, <1>4, QuietStep DEF RepairFails, Settle
<1>5. CASE WriteFails
  BY <1>0, <1>5, QuietStep DEF WriteFails, Settle, CleanFaultsOnly
<1>6. CASE WriteManifestFails \/ PrepareReturns
  BY <1>0, <1>6, QuietStep DEF WriteManifestFails, PrepareReturns, Settle
<1>7. CASE Restart \/ UNCHANGED vars
  BY <1>0, <1>7, QuietStep DEF Restart, vars
<1> QED
  BY <1>0, <1>1, <1>2, <1>3, <1>4, <1>5, <1>6, <1>7, StepComputeNext, StepWritePart,
     StepWriteRest, StepCommit, StepWriteManifest, StepCrash DEF Next, Progress

LEMMA ChainInvariant == ASSUME CleanFaultsOnly PROVE Spec => []ChainInv
BY InitChainInv, NextChainInv, PTL DEF Spec

\* At every moment of every crash and restart, the stream loads and verifies.
THEOREM StreamAlwaysVerifies == ASSUME CleanFaultsOnly PROVE Spec => []ChainIntact
<1>1. ChainInv => ChainIntact
  BY CleanRead DEF ChainInv, Chained, ChainIntact
<1> QED
  BY <1>1, ChainInvariant, PTL

\* An acknowledged event keeps its place in the stream for good.
THEOREM AcknowledgedEventsLast == ASSUME CleanFaultsOnly PROVE Spec => []AckedDurable
<1>1. ChainInv => AckedDurable
  BY DEF ChainInv
<1> QED
  BY <1>1, ChainInvariant, PTL

\* The chain in a prepared store's memory is the one on disk.
THEOREM MemoryIsDisk == ASSUME CleanFaultsOnly PROVE Spec => []MemoryMatchesDisk
<1>1. ChainInv => MemoryMatchesDisk
  BY DEF ChainInv
<1> QED
  BY <1>1, ChainInvariant, PTL

\* The manifest never speaks of events the stream does not have.
THEOREM ManifestIsPrefix == ASSUME CleanFaultsOnly PROVE Spec => []CheckpointHolds
<1>1. ChainInv => CheckpointHolds
  BY DEF ChainInv
<1> QED
  BY <1>1, ChainInvariant, PTL

-----------------------------------------------------------------------------
(* The store implements the append-only log, with hashes up to the bound. *)

\* An append that waits still has an event to compute; the one that is being written
\* has computed its own.
Budgeted ==
    /\ computed <= MaxComputed
    /\ \A i \in 1..Len(writeQueue) : writeQueue[i] = "append" =>
          computed + i <= MaxComputed + (IF Writing THEN 1 ELSE 0)

LEMMA InitBudgeted == Init => Budgeted
BY StoreConstants, EmptySeq DEF Init, Budgeted

LEMMA NextBudgeted == TypeInv /\ Budgeted /\ [Next]_vars => Budgeted'
<1> SUFFICES ASSUME TypeInv, Budgeted, [Next]_vars PROVE Budgeted'
  OBVIOUS
<1>0. /\ writeQueue \in Seq(Operations) /\ computed \in Nat /\ at \in Places
      /\ MaxComputed \in Nat
  BY StoreConstants DEF TypeInv, TypeOK
<1>1. ASSUME Settle, Working, UNCHANGED computed PROVE Budgeted'
  <2>1. /\ Len(writeQueue') = Len(writeQueue) - 1
        /\ \A i \in 1..Len(writeQueue') :
              i + 1 \in 1..Len(writeQueue) /\ writeQueue'[i] = writeQueue[i + 1]
    BY <1>0, <1>1 DEF Settle, Working
  <2>2. ASSUME NEW i \in 1..Len(writeQueue'), writeQueue'[i] = "append"
        PROVE  computed + i <= MaxComputed
    <3>1. computed + (i + 1) <= MaxComputed + (IF Writing THEN 1 ELSE 0)
      BY <2>1, <2>2 DEF Budgeted
    <3> QED
      BY <1>0, <3>1
  <2>3. ~Writing'
    BY <1>1 DEF Settle, Writing
  <2> QED
    BY <1>0, <1>1, <2>2, <2>3 DEF Budgeted
<1>2. ASSUME UNCHANGED <<computed, writeQueue>>, Writing <=> Writing' PROVE Budgeted'
  BY <1>2 DEF Budgeted
<1>3. ASSUME NEW op \in Operations, Enqueue(op) PROVE Budgeted'
  <2>1. /\ writeQueue' = Append(writeQueue, op) /\ UNCHANGED <<computed, at>>
        /\ op = "append" => computed + Len(writeQueue) < MaxComputed
    BY <1>3 DEF Enqueue
  <2>2. /\ Len(writeQueue') = Len(writeQueue) + 1
        /\ writeQueue'[Len(writeQueue) + 1] = op
        /\ \A i \in 1..Len(writeQueue) : writeQueue'[i] = writeQueue[i]
    BY <1>0, <2>1
  <2>3. ASSUME NEW i \in 1..Len(writeQueue'), writeQueue'[i] = "append"
        PROVE  computed + i <= MaxComputed + (IF Writing THEN 1 ELSE 0)
    <3>1. CASE i = Len(writeQueue) + 1
      BY <1>0, <2>1, <2>2, <2>3, <3>1
    <3>2. CASE i \in 1..Len(writeQueue)
      BY <2>2, <2>3, <3>2 DEF Budgeted
    <3> QED
      BY <1>0, <2>2, <3>1, <3>2
  <2>4. computed' <= MaxComputed /\ (Writing' <=> Writing)
    BY <2>1 DEF Budgeted, Writing
  <2> QED
    BY <2>1, <2>3, <2>4 DEF Budgeted
<1>4. CASE ComputeNext
  <2>1. /\ writeQueue # <<>> /\ Head(writeQueue) = "append" /\ ~Writing /\ Writing'
        /\ computed' = computed + 1 /\ writeQueue' = writeQueue
    BY <1>4 DEF ComputeNext, Working, Writing
  <2>2. computed + 1 <= MaxComputed
    <3>1. 1 \in 1..Len(writeQueue) /\ writeQueue[1] = "append"
      BY <1>0, <2>1
    <3> QED
      BY <2>1, <3>1 DEF Budgeted
  <2> QED
    BY <1>0, <2>1, <2>2 DEF Budgeted
<1>5. CASE Load \/ WritePart \/ WriteRest \/ Repair \/ Restart \/ UNCHANGED vars
  <2>1. CASE Load
    <3>1. Working /\ UNCHANGED computed
      BY <2>1 DEF Load
    <3>2. \/ Settle
          \/ writeQueue' = writeQueue /\ at = "queue" /\ at' \in {"queue", "repair"}
      BY <2>1 DEF Load
    <3> QED
      BY <1>1, <1>2, <3>1, <3>2 DEF Writing
  <2>2. CASE WritePart \/ WriteRest \/ Repair \/ Restart \/ UNCHANGED vars
    BY <1>2, <2>2 DEF WritePart, WriteRest, Repair, Restart, vars, Writing
  <2> QED
    BY <1>5, <2>1, <2>2
<1>6. CASE RepairFails \/ PrepareReturns \/ WriteFails \/ Commit \/ WriteManifest
           \/ WriteManifestFails
  BY <1>1, <1>6 DEF RepairFails, PrepareReturns, WriteFails, Commit, WriteManifest,
     WriteManifestFails
<1>7. CASE Crash
  <2>1. writeQueue' = <<>> /\ UNCHANGED computed
    BY <1>7 DEF Crash
  <2> QED
    BY <2>1, EmptySeq DEF Budgeted
<1> QED
  BY <1>3, <1>4, <1>5, <1>6, <1>7 DEF Next, Progress

\* A line that becomes complete is the log's next event.
LEMMA WriteRestRecords == ChainInv /\ Budgeted /\ WriteRest => Log!Record
<1> SUFFICES ASSUME ChainInv, Budgeted, WriteRest PROVE Log!Record
  OBVIOUS
<1>1. /\ prepared /\ event \in Event /\ event = Successor(hashChain, event.hash)
      /\ lines = hashChain
  BY DEF ChainInv, EventExtends, Writing, WriteRest, MemoryMatchesDisk
<1>2. lines' = Append(lines, event)
  BY <1>1 DEF ChainInv, TailClean, WriteRest, GuardedLines
<1>3. event.hash \in 1..MaxComputed
  <2>1. event.hash \in Nat /\ event.hash # 0
    BY <1>1 DEF Event, NoHash
  <2>2. event.hash <= computed
    BY DEF ChainInv, HashesFresh, Writing, WriteRest
  <2>3. computed \in Nat /\ MaxComputed \in Nat /\ computed <= MaxComputed
    BY StoreConstants DEF ChainInv, TypeInv, TypeOK, Budgeted
  <2> QED
    BY <2>1, <2>2, <2>3
<1>4. \A i \in 1..Len(lines) : lines[i].hash # event.hash
  <2> SUFFICES ASSUME NEW i \in 1..Len(lines) PROVE lines[i].hash # event.hash
    OBVIOUS
  <2>1. lines[i].hash \in Nat
    <3>1. lines[i] \in Event
      BY ElementOfSeq DEF ChainInv, Chained
    <3> QED
      BY <3>1 DEF Event
  <2>2. lines[i].hash < event.hash
    BY DEF ChainInv, HashesFresh, WriteRest
  <2> QED
    BY <1>3, <2>1, <2>2
<1>5. UNCHANGED acked
  BY DEF WriteRest
<1>6. lines' = Append(lines, Log!Successor(lines, event.hash))
  BY <1>1, <1>2 DEF Successor, HeadHash, NoHash,
     Log!Successor, Log!HeadHash, Log!NoHash
<1> QED
  BY <1>3, <1>4, <1>5, <1>6 DEF Log!Record

\* A resolved append acknowledges the log's newest event, for the first time.
LEMMA CommitAcknowledges == ChainInv /\ Commit => Log!Acknowledge
<1> SUFFICES ASSUME ChainInv, Commit PROVE Log!Acknowledge
  OBVIOUS
<1>0. hashChain \in Seq(Event) /\ acked \in Seq(Event)
  BY DEF ChainInv, TypeInv, TypeOK
<1>1. /\ event \in Event /\ event.index = Len(hashChain)
      /\ lines = Append(hashChain, event)
  BY DEF Commit, ChainInv, EventExtends, Writing, MemoryMatchesDisk, Successor
<1>2. lines # <<>> /\ lines[Len(lines)] = event
  BY <1>0, <1>1
<1>3. acked # <<>> => acked[Len(acked)] # lines[Len(lines)]
  <2> SUFFICES ASSUME acked # <<>> PROVE acked[Len(acked)] # event
    BY <1>2
  <2>1. Len(acked) \in 1..Len(acked)
    BY <1>0, EmptySeq
  <2>2. acked[Len(acked)].index < Len(hashChain)
    BY <2>1 DEF Commit, ChainInv, AckedBefore, Writing
  <2> QED
    BY <1>0, <1>1, <2>2
<1> QED
  BY <1>2, <1>3 DEF Commit, disk, Log!Acknowledge

\* Every behaviour of the store is one of the append-only log: each step
\* records an event, acknowledges one, or leaves the log as it is.
THEOREM StoreImplementsLog == ASSUME CleanFaultsOnly PROVE Spec => ImplementsLog
<1>1. Init => Log!LogInit
  BY DEF Init, Log!LogInit
<1>2. ChainInv /\ Budgeted /\ [Next]_vars => [Log!LogNext]_(Log!logVars)
  <2> SUFFICES ASSUME ChainInv, Budgeted, [Next]_vars
               PROVE  Log!LogNext \/ UNCHANGED <<lines, acked>>
    BY DEF Log!logVars
  <2>0. RetainedEvents = lines
    BY CleanRead DEF ChainInv, Chained
  <2>1. CASE WriteRest
    BY <2>1, WriteRestRecords DEF Log!LogNext
  <2>2. CASE Commit
    BY <2>2, CommitAcknowledges DEF Log!LogNext
  <2>3. CASE Repair
    BY <2>0, <2>3 DEF Repair
  <2>4. CASE WritePart
    <3>1. tail = Empty
      BY <2>4 DEF ChainInv, EventExtends, Writing, WritePart, TailClean
    <3> QED
      BY <2>4, <3>1 DEF WritePart, GuardedLines
  <2>5. WriteRest \/ Commit \/ Repair \/ WritePart \/ UNCHANGED <<lines, acked>>
    BY DEF Next, Progress, Enqueue, Load, RepairFails, ComputeNext, WriteFails,
       WriteManifest, WriteManifestFails, PrepareReturns, Crash, Restart, vars, disk
  <2> QED
    BY <2>1, <2>2, <2>3, <2>4, <2>5
<1>3. ChainInv => TypeInv
  BY DEF ChainInv
<1> QED
  BY <1>1, <1>2, <1>3, InitChainInv, NextChainInv, InitBudgeted, NextBudgeted, PTL
  DEF Spec, ImplementsLog, Log!LogSpec

=============================================================================
