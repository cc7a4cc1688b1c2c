---------------------------- MODULE CampaignLock ----------------------------
(***************************************************************************)
(* The single-writer lock of a campaign (autonomous/campaign-lock.ts).     *)
(*                                                                         *)
(* Every element of Procs is one process life: a pid on a host, run by a   *)
(* user.  A lock file names the process that linked it into place; as a    *)
(* process links the file at most once, the name stands for the whole of   *)
(* the file's contents (pid, hostname, acquiredAt).  Garbage is a file     *)
(* parseLockContents rejects; the code never writes one, but it handles    *)
(* one that it finds.                                                      *)
(*                                                                         *)
(* Each await of acquire, reclaim and release ends an action, because any  *)
(* other process may run there.  A process that is killed (SIGKILL, or     *)
(* SIGTERM while the lock's handlers are not installed) stops where it is. *)
(* process.exit is not such a kill: an unlink already handed to libuv is   *)
(* finished before the process goes, so a releasing process that exits     *)
(* has removed its file.                                                   *)
(***************************************************************************)
EXTENDS Naturals

CONSTANTS
    Procs,      \* process lives that may run this campaign
    HostOf,     \* the host each runs on
    UserOf,     \* the user each runs as
    NoLock,     \* no lock file
    Garbage     \* an unparseable lock file

ASSUME LockConstants ==
    /\ NoLock \notin Procs
    /\ Garbage \notin Procs
    /\ NoLock # Garbage

VARIABLES
    lock,       \* NoLock, Garbage, or the process the file names
    lockAge,    \* 0 fresh, 1 over INVALID_LOCK_GRACE_MS, 2 over staleLockMs
    phase,      \* where each process stands
    seen,       \* the file contents each process last read
    robbed      \* history: owners whose file another process removed

vars == <<lock, lockAge, phase, seen, robbed>>

Phases ==
    { "idle",       \* not started
      "create",     \* in acquire, before tryCreateExclusive
      "read",       \* EEXIST: before readExistingLock
      "judge",      \* contents read, before isStale
      "stat",       \* contents unreadable, before lockAgeMs
      "discard",    \* unreadable and old: before removeLock and retry
      "unlink",     \* in reclaim, before removeLock
      "recreate",   \* in reclaim, before its tryCreateExclusive
      "linked",     \* file linked into place, markAcquired not yet run
      "held",       \* acquired = true
      "draining",   \* acquired, shuttingDown: the shutdown hook runs
      "releasing",  \* acquired = false, unlink under way
      "released",   \* release done, process still running
      "refused",    \* acquire threw WriterLockContentionError
      "failed",     \* acquire threw another error
      "exited",     \* process gone of its own accord
      "dead" }      \* process killed

\* A process that believes it may write the campaign's state and evidence.
Holding(p) == phase[p] \in {"linked", "held", "draining"}

Alive(p) == phase[p] \notin {"exited", "dead"}

\* The result of kill(pid, 0): it fails for a process that is gone, and also
\* with EPERM for a live process of another user.
IsPidAlive(p, q) == Alive(q) /\ UserOf[p] = UserOf[q]

\* Bug: age decides on this host as well.
IsStaleByAge(p, q, age) == age = 2

\* isStale, asked by p about the file that names q; the age is that of the
\* contents p read, which p can only have read before they were removed.
IsStale(p, q, age) ==
    IF HostOf[p] = HostOf[q] THEN ~IsPidAlive(p, q) ELSE age = 2

Init ==
    /\ lock \in {NoLock, Garbage}
    /\ lockAge = 0
    /\ phase = [p \in Procs |-> "idle"]
    /\ seen = [p \in Procs |-> NoLock]
    /\ robbed = {}

Goto(p, ph) == phase' = [phase EXCEPT ![p] = ph]

\* A process whose file it is, and who has not given it back yet.
Owns(q) == lock = q /\ (Holding(q) \/ phase[q] = "releasing")

\* The unlink every removal ends in: it takes away whatever file is there.
Unlink(p) ==
    /\ lock' = NoLock
    /\ lockAge' = 0
    /\ robbed' = robbed \cup { q \in Procs \ {p} : Owns(q) }

Start(p) ==
    /\ phase[p] = "idle"
    /\ Goto(p, "create")
    /\ UNCHANGED <<lock, lockAge, seen, robbed>>

\* Bug: the temporary file is renamed into place, which replaces a held lock.
TryCreateByRename(p, from, busy) ==
    /\ phase[p] = from
    /\ lock' = p
    /\ lockAge' = 0
    /\ Goto(p, "linked")
    /\ UNCHANGED <<seen, robbed>>

\* tryCreateExclusive: link succeeds only where there is no file; the caller's
\* failure phase differs between acquire and reclaim.
TryCreateExclusive(p, from, busy) ==
    /\ phase[p] = from
    /\ \/ /\ lock = NoLock
          /\ lock' = p
          /\ lockAge' = 0
          /\ Goto(p, "linked")
       \/ /\ lock # NoLock
          /\ Goto(p, busy)
          /\ UNCHANGED <<lock, lockAge>>
    /\ UNCHANGED <<seen, robbed>>

\* Creating the directory or the temporary file, or the link itself, fails
\* with an error other than EEXIST.
CreateFails(p) ==
    /\ phase[p] \in {"create", "recreate"}
    /\ Goto(p, "failed")
    /\ UNCHANGED <<lock, lockAge, seen, robbed>>

MarkAcquired(p) ==
    /\ phase[p] = "linked"
    /\ Goto(p, "held")
    /\ UNCHANGED <<lock, lockAge, seen, robbed>>

\* readExistingLock yields null for a garbage file and for one just removed.
ReadExistingLock(p) ==
    /\ phase[p] = "read"
    /\ IF lock \in Procs
       THEN /\ seen' = [seen EXCEPT ![p] = lock]
            /\ Goto(p, "judge")
       ELSE /\ Goto(p, "stat")
            /\ UNCHANGED seen
    /\ UNCHANGED <<lock, lockAge, robbed>>

\* acquire after a readable file: reclaim a stale one, report a live one.
\* acquiredAt keeps ageing after the file is gone, so a foreign lock that is
\* not there any more may be judged either way.
JudgeExisting(p) ==
    /\ phase[p] = "judge"
    /\ \E age \in (IF lock = seen[p] THEN {lockAge} ELSE 0..2) :
          Goto(p, IF IsStale(p, seen[p], age) THEN "unlink" ELSE "refused")
    /\ UNCHANGED <<lock, lockAge, seen, robbed>>

\* Bug: a young unreadable file makes acquire start over.
JudgeUnreadableBySpinning(p) ==
    /\ phase[p] = "stat"
    /\ Goto(p, IF lock # NoLock /\ lockAge > 0 THEN "discard" ELSE "create")
    /\ UNCHANGED <<lock, lockAge, seen, robbed>>

\* acquire after an unreadable file: only one that is old enough is removed.
JudgeUnreadable(p) ==
    /\ phase[p] = "stat"
    /\ Goto(p, IF lock # NoLock /\ lockAge > 0 THEN "discard" ELSE "refused")
    /\ UNCHANGED <<lock, lockAge, seen, robbed>>

\* removeLock, then acquire starts over.
DiscardUnreadable(p) ==
    /\ phase[p] = "discard"
    /\ Unlink(p)
    /\ Goto(p, "create")
    /\ UNCHANGED seen

\* The first half of reclaim: the file is removed whatever it holds by now.
RemoveStale(p) ==
    /\ phase[p] = "unlink"
    /\ Unlink(p)
    /\ Goto(p, "recreate")
    /\ UNCHANGED seen

\* Bug: the end of the shutdown hook is not followed by release.
ReleaseUnlessSignalled(p) ==
    /\ phase[p] = "held"
    /\ Goto(p, "releasing")
    /\ UNCHANGED <<lock, lockAge, seen, robbed>>

\* release (and the finally of the pipeline): acquired is cleared and the
\* handlers are removed before the unlink is awaited.
Release(p) ==
    /\ phase[p] \in {"held", "draining"}
    /\ Goto(p, "releasing")
    /\ UNCHANGED <<lock, lockAge, seen, robbed>>

\* The unlink of release; it does not look whose file it removes.
RemoveOwn(p) ==
    /\ phase[p] = "releasing"
    /\ Unlink(p)
    /\ Goto(p, "released")
    /\ UNCHANGED seen

\* The first SIGTERM or SIGINT: shuttingDown, and the shutdown hook starts.
\* When the hook ends, fails or times out, Release follows.
Signal(p) ==
    /\ phase[p] = "held"
    /\ Goto(p, "draining")
    /\ UNCHANGED <<lock, lockAge, seen, robbed>>

\* Bug: no exit handler, so the file stays.
ExitKeepingLock(p) ==
    /\ phase[p] \in {"held", "draining"}
    /\ Goto(p, "exited")
    /\ UNCHANGED <<lock, lockAge, seen, robbed>>

\* releaseSync in one go: a second signal while draining, or the process's
\* exit event while the lock is held.
ExitHolding(p) ==
    /\ phase[p] \in {"held", "draining"}
    /\ Unlink(p)
    /\ Goto(p, "exited")
    /\ UNCHANGED seen

\* The process ends with no lock to give back.
Exit(p) ==
    /\ phase[p] \in {"released", "refused", "failed"}
    /\ Goto(p, "exited")
    /\ UNCHANGED <<lock, lockAge, seen, robbed>>

Kill(p) ==
    /\ phase[p] \notin {"idle", "exited", "dead"}
    /\ Goto(p, "dead")
    /\ UNCHANGED <<lock, lockAge, seen, robbed>>

\* Time passes: the file crosses the next of the two age thresholds.
Tick ==
    /\ lock # NoLock
    /\ lockAge < 2
    /\ lockAge' = lockAge + 1
    /\ UNCHANGED <<lock, phase, seen, robbed>>

\* What a started process does by itself, with no signal and no kill.
Step(p) ==
    \/ TryCreateExclusive(p, "create", "read")
    \/ TryCreateExclusive(p, "recreate", "refused")
    \/ MarkAcquired(p)
    \/ ReadExistingLock(p)
    \/ JudgeExisting(p)
    \/ JudgeUnreadable(p)
    \/ DiscardUnreadable(p)
    \/ RemoveStale(p)
    \/ RemoveOwn(p)
    \/ Exit(p)

Next ==
    \/ \E p \in Procs : Step(p)
    \/ \E p \in Procs : Start(p) \/ Release(p) \/ Signal(p) \/ ExitHolding(p)
    \/ \E p \in Procs : CreateFails(p) \/ Kill(p)
    \/ Tick

Spec == Init /\ [][Next]_vars

\* A started process keeps running unless it is killed, and a shutdown hook
\* is bounded by SHUTDOWN_TIMEOUT_MS.  Nothing obliges a process to start, a
\* healthy holder to let go, or a signal or a kill to arrive.
Fairness ==
    /\ \A p \in Procs : WF_vars(Step(p))
    /\ \A p \in Procs : WF_vars(phase[p] = "draining" /\ Release(p))

FairSpec == Spec /\ Fairness

-----------------------------------------------------------------------------

\* The lock file holds a lock, garbage or nothing; each process stands at one of its
\* places and remembers a lock it has read.
TypeOK ==
    /\ lock \in Procs \cup {NoLock, Garbage}
    /\ lockAge \in 0..2
    /\ phase \in [Procs -> Phases]
    /\ seen \in [Procs -> Procs \cup {NoLock}]
    /\ robbed \subseteq Procs

\* What the header of campaign-lock.ts promises: no two processes hold a
\* campaign at once ("prevents concurrent processes from corrupting a
\* campaign's evidence stream").  The code does not keep it; see the README.
SingleWriter ==
    \A p, q \in Procs : Holding(p) /\ Holding(q) => p = q

\* What it does keep: two processes hold the campaign only after one of them
\* has had its file removed by the other or by a third.
SingleWriterUnlessRobbed ==
    \A p, q \in Procs :
        Holding(p) /\ Holding(q) /\ p # q => p \in robbed \/ q \in robbed

\* A process that left of its own accord (release, signal, exit event, or a
\* lost contention) leaves no file of its own behind; only a killed one does.
NoOrphanLock ==
    \A p \in Procs : lock = p => Holding(p) \/ phase[p] \in {"releasing", "dead"}

\* The removals that can take a file from a process that still owns it.
Reclaiming(p) == phase[p] = "unlink" /\ phase'[p] = "recreate"
RobsByLateReclaim(p, q) == Reclaiming(p) /\ seen[p] # q
RobsForeignByAge(p, q)  == Reclaiming(p) /\ seen[p] = q /\ HostOf[p] # HostOf[q]
RobsOtherUser(p, q)     == Reclaiming(p) /\ seen[p] = q /\ UserOf[p] # UserOf[q]
RobsUnreadable(p)       == phase[p] = "discard" /\ phase'[p] = "create"
RobsHavingBeenRobbed(p) == p \in robbed /\ phase'[p] \in {"released", "exited"}

\* An owner is robbed in five ways and no other: a reclaim that removes a
\* file other than the one it judged, a foreign lock judged by its age, the
\* lock of a live process of another user, the removal of an unreadable file
\* that has been replaced since, and the release of a process that has been
\* robbed itself.  In particular a reclaim never removes the very lock it
\* judged while the owner is alive on its host under its user.
RobberyCauses ==
    \A q \in robbed' \ robbed : \E p \in Procs \ {q} :
        \/ RobsByLateReclaim(p, q)
        \/ RobsForeignByAge(p, q)
        \/ RobsOtherUser(p, q)
        \/ RobsUnreadable(p)
        \/ RobsHavingBeenRobbed(p)

RobberyOnlyByKnownCauses == [][RobberyCauses]_vars

\* Every acquire comes to an end, with the lock or with a contention error,
\* however the files it meets come and go.
AcquireSettles ==
    \A p \in Procs :
        phase[p] = "create" ~> phase[p] \notin
            {"create", "read", "judge", "stat", "discard", "unlink", "recreate"}

\* A process that has been told to shut down goes away, and its lock with it.
ShutdownReleases ==
    \A p \in Procs :
        phase[p] = "draining" ~> ~Alive(p) /\ (lock = p => phase[p] = "dead")

\* The lock a killed process left never outlives an acquire of the same user
\* on its host, unless that one is killed or its file operations fail.
DeadLockReclaimed ==
    \A p, q \in Procs :
        HostOf[p] = HostOf[q] /\ UserOf[p] = UserOf[q] =>
            (lock = q /\ phase[q] = "dead" /\ phase[p] = "create"
                ~> lock # q \/ phase[p] \in {"failed", "dead"})

=============================================================================
