---------------------------- MODULE EvidenceStore ----------------------------
(***************************************************************************)
(* The evidence store of one run directory (evidence-plane store.ts): a    *)
(* queue of writes, the hash chain kept in memory, and what is on disk in  *)
(* events.jsonl and manifest.json, across failed writes, crashes of the    *)
(* process and restarts.                                                   *)
(*                                                                         *)
(* events.jsonl is its sequence of complete lines and the text after the   *)
(* last newline.  A line is an event or Torn, text that does not parse.    *)
(* The text after the last newline is Empty, Torn, or a whole event that   *)
(* lacks only its newline.  A process is the only writer of its campaign   *)
(* here (CampaignLock is about when it is), and it prepares its store      *)
(* before any signal handler appends to it.                                *)
(***************************************************************************)
EXTENDS HashChain

CONSTANTS
    Torn,           \* text that is not a complete JSON object
    Empty,          \* no text
    NoManifest,     \* manifest.json does not exist
    Faults,         \* which ways of failing an append has, a set of FaultKinds
    MaxComputed,    \* bound: events computed over all lives
    MaxQueue,       \* bound: operations waiting at once
    MaxCrashes      \* bound: crashes

\* How appendFile can fail: before it wrote anything, having written a part of
\* the line (ENOSPC), or on closing the file with the line complete.
FaultKinds == {"nothing_written", "part_written", "all_written"}

ASSUME StoreConstants ==
    /\ Torn \notin Event /\ Empty \notin Event /\ Torn # Empty
    /\ NoManifest \notin [eventCount : Nat, headHash : Nat]
    /\ Faults \subseteq FaultKinds
    /\ MaxComputed \in Nat /\ MaxQueue \in Nat /\ MaxCrashes \in Nat

VARIABLES
    lines,      \* events.jsonl: its newline-terminated lines
    tail,       \* events.jsonl: the text after the last newline
    manifest,   \* manifest.json: eventCount and headHash
    running,    \* a process has the store open
    prepared,   \* prepare has succeeded in this process
    hashChain,  \* the chain in this process's memory
    writeQueue, \* operations enqueued and not settled, the first one in progress
    at,         \* where the operation in progress stands
    event,      \* the event it has computed
    computed,   \* number of events computed so far, by all processes
    crashes,    \* number of crashes so far
    acked       \* history: events whose appendEvent resolved, in order

disk == <<lines, tail, manifest>>
memory == <<prepared, hashChain, event>>
vars == <<disk, running, memory, writeQueue, at, computed, crashes, acked>>

-----------------------------------------------------------------------------
(* Reading events.jsonl.                                                   *)

\* readEventStream throws: a line other than the last does not parse.
Corrupted == \E i \in 1..(Len(lines) - 1) : lines[i] = Torn

\* Bug: a stream with a torn tail is read as an empty one.
RestartedEvents == IF tail # Empty THEN <<>> ELSE lines

\* readEventStream: the events it returns when it does not throw; the text
\* after the last newline is dropped, and so is a last line that is Torn.
RetainedEvents ==
    IF lines # <<>> /\ lines[Len(lines)] = Torn
    THEN SubSeq(lines, 1, Len(lines) - 1)
    ELSE lines

\* It reports a recovery, and the caller rewrites the file.
NeedsRepair == tail # Empty \/ RetainedEvents # lines

\* needsNewlineGuard: a line that would continue a partial one starts afresh.
GuardedLines == IF tail = Empty THEN lines ELSE Append(lines, tail)

-----------------------------------------------------------------------------

Init ==
    /\ lines = <<>> /\ tail = Empty /\ manifest = NoManifest
    /\ running = TRUE
    /\ prepared = FALSE /\ hashChain = <<>> /\ event = Empty
    /\ writeQueue = <<>>
    /\ at = "queue"
    /\ computed = 0
    /\ crashes = 0
    /\ acked = <<>>

Operations == {"prepare", "append", "manifest"}
Places == {"queue", "repair", "write", "writing", "written"}

\* enqueue: appendEvent or one of the summary and manifest writers is called.
\* The pipeline also calls prepare by itself, before anything else is queued.
\* MaxComputed bounds the appends that are waiting too.
Enqueue(op) ==
    /\ running
    /\ Len(writeQueue) < MaxQueue
    /\ op = "prepare" => writeQueue = <<>> /\ ~prepared
    /\ op = "append" => computed + Len(writeQueue) < MaxComputed
    /\ writeQueue' = Append(writeQueue, op)
    /\ UNCHANGED <<disk, running, memory, at, computed, crashes, acked>>

\* The operation in progress resolves or rejects; either way the next starts.
Settle ==
    /\ writeQueue' = Tail(writeQueue)
    /\ at' = "queue"

Working == running /\ writeQueue # <<>>

\* Bug: the parse error of an earlier line is taken for a torn tail.
LoadSkippingTorn ==
    /\ Working /\ at = "queue" /\ ~prepared
    /\ IF NeedsRepair \/ Corrupted
       THEN /\ at' = "repair"
            /\ UNCHANGED <<memory, writeQueue>>
       ELSE /\ prepared' = TRUE
            /\ hashChain' = RetainedEvents
            /\ UNCHANGED <<event, writeQueue, at>>
    /\ UNCHANGED <<disk, running, computed, crashes, acked>>

\* Bug: the queue forgets an operation whose prepare threw, and does not settle it.
LoadForgetting ==
    /\ Working /\ at = "queue" /\ ~prepared /\ ~Corrupted
    /\ IF NeedsRepair
       THEN /\ at' = "repair"
            /\ UNCHANGED <<memory, writeQueue>>
       ELSE /\ prepared' = TRUE
            /\ hashChain' = RetainedEvents
            /\ UNCHANGED <<event, writeQueue, at>>
    /\ UNCHANGED <<disk, running, computed, crashes, acked>>

\* prepare: the stream is read; a corrupted one rejects the operation and
\* leaves the store unprepared, a torn one is repaired first.
Load ==
    /\ Working /\ at = "queue" /\ ~prepared
    /\ \/ /\ Corrupted
          /\ Settle
          /\ UNCHANGED memory
       \/ /\ ~Corrupted /\ NeedsRepair
          /\ at' = "repair"
          /\ UNCHANGED <<memory, writeQueue>>
       \/ /\ ~Corrupted /\ ~NeedsRepair
          /\ prepared' = TRUE
          /\ hashChain' = RetainedEvents
          /\ UNCHANGED <<event, writeQueue, at>>
    /\ UNCHANGED <<disk, running, computed, crashes, acked>>

\* Bug: the repair drops the last line whether it parses or not.
RepairDroppingLast ==
    /\ Working /\ at = "repair"
    /\ lines' = SubSeq(lines, 1, Len(lines) - 1)
    /\ tail' = Empty
    /\ prepared' = TRUE
    /\ hashChain' = lines'
    /\ at' = "queue"
    /\ UNCHANGED <<manifest, running, event, writeQueue, computed, crashes, acked>>

\* loadExistingEvents' writeFileAtomic: the repaired stream replaces the file,
\* and only then does the store count as prepared.
Repair ==
    /\ Working /\ at = "repair"
    /\ lines' = RetainedEvents
    /\ tail' = Empty
    /\ prepared' = TRUE
    /\ hashChain' = RetainedEvents
    /\ at' = "queue"
    /\ UNCHANGED <<manifest, running, event, writeQueue, computed, crashes, acked>>

\* A prepare that was called by itself returns.
PrepareReturns ==
    /\ Working /\ at = "queue" /\ prepared /\ Head(writeQueue) = "prepare"
    /\ Settle
    /\ UNCHANGED <<disk, running, memory, computed, crashes, acked>>

\* The repair's temporary file or rename fails; the file is as it was.
RepairFails ==
    /\ Working /\ at = "repair"
    /\ Settle
    /\ UNCHANGED <<disk, running, memory, computed, crashes, acked>>

\* Bug: the chain is extended when the event is computed, before the write.
ComputeNextCommitting ==
    /\ Working /\ at = "queue" /\ prepared /\ Head(writeQueue) = "append"
    /\ computed' = computed + 1
    /\ event' = Successor(hashChain, computed')
    /\ hashChain' = Append(hashChain, event')
    /\ at' = "write"
    /\ UNCHANGED <<disk, running, prepared, writeQueue, crashes, acked>>

\* appendEvent: the successor is computed, the chain not yet extended.
ComputeNext ==
    /\ Working /\ at = "queue" /\ prepared /\ Head(writeQueue) = "append"
    /\ computed' = computed + 1
    /\ event' = Successor(hashChain, computed')
    /\ at' = "write"
    /\ UNCHANGED <<disk, running, prepared, hashChain, writeQueue, crashes, acked>>

\* A part of the guarded line reaches the file: the guard's newline alone, an
\* incomplete record, or the whole record without its newline.
WritePart ==
    /\ Working /\ at = "write"
    /\ \/ tail # Empty /\ tail' = Empty
       \/ tail' = Torn
       \/ tail' = event
    /\ lines' = GuardedLines
    /\ at' = "writing"
    /\ UNCHANGED <<manifest, running, memory, writeQueue, computed, crashes, acked>>

\* The line is complete in the file.
WriteRest ==
    /\ Working /\ at \in {"write", "writing"}
    /\ lines' = Append(IF at = "write" THEN GuardedLines ELSE lines, event)
    /\ tail' = Empty
    /\ at' = "written"
    /\ UNCHANGED <<manifest, running, memory, writeQueue, computed, crashes, acked>>

\* Bug: a failed append is committed and acknowledged all the same.
WriteFailureIgnored ==
    /\ Working
    /\ at = "write" /\ "nothing_written" \in Faults
    /\ hashChain' = Append(hashChain, event)
    /\ acked' = Append(acked, event)
    /\ Settle
    /\ UNCHANGED <<disk, running, prepared, event, computed, crashes>>

\* appendFile rejects, and with it the operation; the chain stays as it was.
WriteFails ==
    /\ Working
    /\ \/ at = "write" /\ "nothing_written" \in Faults
       \/ at = "writing" /\ "part_written" \in Faults
       \/ at = "written" /\ "all_written" \in Faults
    /\ Settle
    /\ UNCHANGED <<disk, running, memory, computed, crashes, acked>>

\* appendFile resolves: the event is committed to the chain and the caller's
\* promise resolves.
Commit ==
    /\ Working /\ at = "written"
    /\ hashChain' = Append(hashChain, event)
    /\ acked' = Append(acked, event)
    /\ Settle
    /\ UNCHANGED <<disk, running, prepared, event, computed, crashes>>

\* Bug: the manifest counts the event its caller is about to append.
WriteManifestAhead ==
    /\ Working /\ at = "queue" /\ prepared /\ Head(writeQueue) = "manifest"
    /\ manifest' = [eventCount |-> Len(hashChain) + 1, headHash |-> HeadHash(hashChain)]
    /\ Settle
    /\ UNCHANGED <<lines, tail, running, memory, computed, crashes, acked>>

\* writeManifestNow, the end of writeSummary, writeInvestigationSummary and
\* writeManifest: an atomic replacement that records the chain's position.
WriteManifest ==
    /\ Working /\ at = "queue" /\ prepared /\ Head(writeQueue) = "manifest"
    /\ manifest' = [eventCount |-> Len(hashChain), headHash |-> HeadHash(hashChain)]
    /\ Settle
    /\ UNCHANGED <<lines, tail, running, memory, computed, crashes, acked>>

\* An artifact before the manifest, or the manifest itself, cannot be written.
WriteManifestFails ==
    /\ Working /\ at = "queue" /\ prepared /\ Head(writeQueue) = "manifest"
    /\ Settle
    /\ UNCHANGED <<disk, running, memory, computed, crashes, acked>>

\* The process dies; its memory and its queue are gone, the file stays.
Crash ==
    /\ running
    /\ crashes < MaxCrashes
    /\ crashes' = crashes + 1
    /\ running' = FALSE
    /\ prepared' = FALSE /\ hashChain' = <<>> /\ event' = Empty
    /\ writeQueue' = <<>>
    /\ at' = "queue"
    /\ UNCHANGED <<disk, computed, acked>>

\* Another process resumes the campaign with a new store on the same directory.
Restart ==
    /\ ~running
    /\ running' = TRUE
    /\ UNCHANGED <<disk, memory, writeQueue, at, computed, crashes, acked>>

\* What the process in charge does to settle the operation in progress.
Progress ==
    \/ Load \/ Repair \/ RepairFails \/ PrepareReturns
    \/ ComputeNext \/ WritePart \/ WriteRest \/ WriteFails \/ Commit
    \/ WriteManifest \/ WriteManifestFails

Next ==
    \/ \E op \in Operations : Enqueue(op)
    \/ Progress
    \/ Crash
    \/ Restart

Spec == Init /\ [][Next]_vars

\* File operations end, one way or the other.  No fairness for callers,
\* crashes or restarts.
FairSpec == Spec /\ WF_vars(Progress)

-----------------------------------------------------------------------------

Checkpoint == [eventCount : Nat, headHash : Nat]

\* The variables keep their types: the queue and the store's memory hold events, the
\* files hold events, torn lines or nothing.
TypeOK ==
    /\ lines \in Seq(Event \cup {Torn})
    /\ tail \in Event \cup {Torn, Empty}
    /\ manifest \in Checkpoint \cup {NoManifest}
    /\ running \in BOOLEAN /\ prepared \in BOOLEAN
    /\ hashChain \in Seq(Event)
    /\ event \in Event \cup {Empty}
    /\ writeQueue \in Seq(Operations)
    /\ at \in Places
    /\ computed \in Nat /\ crashes \in Nat
    /\ acked \in Seq(Event)

\* At any moment another process can load the stream, and what it loads is a
\* chain that verifies: failed appends, crashes and repairs never leave a line
\* that cannot be read, a fork or a gap (appendEvent, loadExistingEvents).
ChainIntact == ~Corrupted /\ Valid(RetainedEvents)

\* An event whose appendEvent resolved stays in the stream at the position its
\* index names, through every later failure, crash and repair.
AckedDurable ==
    \A i \in 1..Len(acked) :
        LET line == acked[i].index + 1 IN
        line \in 1..Len(lines) /\ lines[line] = acked[i]

\* A prepared store's memory stands for the disk: verifyChain, which then reads
\* memory only, and the next append's link speak of the stream as it is.
MemoryMatchesDisk ==
    prepared => lines = IF at = "written" THEN Append(hashChain, event) ELSE hashChain

\* The manifest's checkpoint always is a prefix of the stream, so that a
\* verifying reader reports a truncation only when there is one.
CheckpointHolds == manifest # NoManifest => AgreesWith(RetainedEvents, manifest)

\* However appends fail, no acknowledged event disappears from the file, even
\* when a partly written line has made the stream as a whole unreadable.
AckedReadable ==
    \A i \in 1..Len(acked) : \E j \in 1..Len(lines) : lines[j] = acked[i]

\* "Refusing to append to a corrupted evidence stream": a process that did not
\* itself prepare the stream before it broke leaves a broken one untouched.
FailsClosed == [][~prepared /\ Corrupted => UNCHANGED disk]_vars

\* The queue never sits on one operation for ever: each resolves or rejects,
\* unless the process is gone, whatever fails underneath.
QueueMoves == []<>(~Working) \/ []<><<Working /\ Settle>>_vars

\* The store keeps its promise: its lines are an append-only chain and its
\* acknowledgements follow the log.
Log == INSTANCE EvidenceLog WITH log <- lines, Hashes <- 1..MaxComputed
ImplementsLog == Log!LogSpec

=============================================================================
