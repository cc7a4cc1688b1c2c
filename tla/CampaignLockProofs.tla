------------------------- MODULE CampaignLockProofs -------------------------
(***************************************************************************)
(* The safety of the campaign lock, for any number of processes on any     *)
(* hosts under any users.                                                  *)
(*                                                                         *)
(* The argument: a process whose file nobody has removed still has its     *)
(* file in place (Intact), one file names one process, hence two holders   *)
(* cannot both be intact.  For the causes of a removal the invariant also  *)
(* remembers that a local lock judged stale belonged to a process that was *)
(* gone, which is for good (StaleIsGone).                                  *)
(***************************************************************************)
EXTENDS CampaignLock, TLAPS

\* An owner that has not been robbed has its file in place.
Intact ==
    \A p \in Procs :
        (Holding(p) \/ phase[p] = "releasing") /\ p \notin robbed => lock = p

\* Contents that are being judged are those of some process's file.
SeenIsLock ==
    \A p \in Procs : phase[p] \in {"judge", "unlink"} => seen[p] \in Procs

\* A local lock of the same user that was judged stale has no live owner.
StaleIsGone ==
    \A p \in Procs :
        phase[p] = "unlink"
            /\ HostOf[seen[p]] = HostOf[p] /\ UserOf[seen[p]] = UserOf[p]
        => ~Alive(seen[p])

IInv == TypeOK /\ Intact /\ NoOrphanLock /\ SeenIsLock /\ StaleIsGone

\* The lock's variables stay within their types.
THEOREM TypeCorrect == Spec => []TypeOK
<1>1. Init => TypeOK
  BY DEF Init, TypeOK, Phases
<1>2. TypeOK /\ [Next]_vars => TypeOK'
  <2> SUFFICES ASSUME TypeOK, [Next]_vars PROVE TypeOK'
    OBVIOUS
  <2> USE DEF TypeOK, Phases, Goto, Unlink
  <2>1. ASSUME NEW p \in Procs, NEW from, NEW busy \in Phases,
               TryCreateExclusive(p, from, busy)
        PROVE  TypeOK'
    BY <2>1 DEF TryCreateExclusive
  <2>2. CASE \E p \in Procs : Step(p)
    <3> PICK p \in Procs : Step(p)
      BY <2>2
    <3>1. CASE TryCreateExclusive(p, "create", "read")
      BY <2>1, <3>1
    <3>2. CASE TryCreateExclusive(p, "recreate", "refused")
      BY <2>1, <3>2
    <3>3. CASE MarkAcquired(p) \/ ReadExistingLock(p) \/ JudgeExisting(p)
      BY <3>3 DEF MarkAcquired, ReadExistingLock, JudgeExisting
    <3>4. CASE JudgeUnreadable(p) \/ DiscardUnreadable(p) \/ RemoveStale(p)
               \/ RemoveOwn(p) \/ Exit(p)
      BY <3>4 DEF JudgeUnreadable, DiscardUnreadable, RemoveStale, RemoveOwn, Exit
    <3> QED
      BY <3>1, <3>2, <3>3, <3>4 DEF Step
  <2>3. CASE \E p \in Procs : Start(p) \/ Release(p) \/ Signal(p) \/ ExitHolding(p)
    BY <2>3 DEF Start, Release, Signal, ExitHolding
  <2>4. CASE \E p \in Procs : CreateFails(p) \/ Kill(p)
    BY <2>4 DEF CreateFails, Kill
  <2>5. CASE Tick
    BY <2>5 DEF Tick
  <2>6. CASE UNCHANGED vars
    BY <2>6 DEF vars
  <2> QED
    BY <2>2, <2>3, <2>4, <2>5, <2>6 DEF Next
<1>3. QED
  BY <1>1, <1>2, PTL DEF Spec

-----------------------------------------------------------------------------

\* Steps that leave the file alone and change only p's own phase, to one in
\* which it owns nothing it did not own before, keep the invariant.
LEMMA QuietStep ==
    ASSUME IInv, NEW p \in Procs, NEW ph \in Phases, Goto(p, ph),
           UNCHANGED <<lock, lockAge, robbed>>,
           seen' \in [Procs -> Procs \cup {NoLock}],
           \A q \in Procs \ {p} : seen'[q] = seen[q],
           ph \in {"linked", "held", "draining", "releasing"}
               => Holding(p),
           Alive(p),
           ph \in {"judge", "unlink"} => seen'[p] \in Procs,
           ph = "unlink" /\ HostOf[seen'[p]] = HostOf[p]
               /\ UserOf[seen'[p]] = UserOf[p]
               => phase'[seen'[p]] \in {"exited", "dead"},
           lock = p => ph \in {"linked", "held", "draining", "releasing", "dead"}
    PROVE  IInv'
<1> USE DEF IInv, Goto
<1>1. TypeOK'
  BY DEF TypeOK
<1>2. Intact'
  BY DEF TypeOK, Intact, Holding, Phases
<1>3. NoOrphanLock'
  BY DEF TypeOK, NoOrphanLock, Holding, Phases
<1>4. SeenIsLock'
  BY DEF TypeOK, SeenIsLock, Phases
<1>5. StaleIsGone'
  BY DEF TypeOK, SeenIsLock, StaleIsGone, Alive, Phases
<1> QED
  BY <1>1, <1>2, <1>3, <1>4, <1>5

\* A removal keeps the invariant when the remover no longer owns a file.
LEMMA UnlinkStep ==
    ASSUME IInv, NEW p \in Procs, Unlink(p), UNCHANGED seen,
           Alive(p), phase[p] # "judge",
           NEW ph \in {"create", "recreate", "released", "exited"}, Goto(p, ph)
    PROVE  IInv'
<1> USE LockConstants DEF IInv, Goto, Unlink
<1>1. TypeOK'
  BY DEF TypeOK, Phases
<1>2. Intact'
  BY DEF TypeOK, Intact, Holding, Owns
<1>3. NoOrphanLock'
  BY DEF TypeOK, NoOrphanLock
<1>4. SeenIsLock'
  BY DEF TypeOK, SeenIsLock
<1>5. StaleIsGone'
  BY DEF TypeOK, SeenIsLock, StaleIsGone, Alive
<1> QED
  BY <1>1, <1>2, <1>3, <1>4, <1>5

\* The exclusive create keeps the invariant, in acquire and in reclaim.
LEMMA CreateStep ==
    ASSUME IInv, NEW p \in Procs, NEW from \in {"create", "recreate"},
           NEW busy \in {"read", "refused"}, TryCreateExclusive(p, from, busy)
    PROVE  IInv'
<1> USE LockConstants DEF TryCreateExclusive
<1>1. CASE lock = NoLock /\ lock' = p /\ lockAge' = 0 /\ Goto(p, "linked")
  <2> USE <1>1 DEF IInv, Goto
  <2>1. TypeOK'
    BY DEF TypeOK, Phases
  <2>2. Intact'
    BY DEF TypeOK, Intact, Holding
  <2>3. NoOrphanLock'
    BY DEF TypeOK, NoOrphanLock, Holding
  <2>4. SeenIsLock'
    BY DEF TypeOK, SeenIsLock
  <2>5. StaleIsGone'
    BY DEF TypeOK, SeenIsLock, StaleIsGone, Alive
  <2> QED
    BY <2>1, <2>2, <2>3, <2>4, <2>5
<1>2. CASE lock # NoLock /\ Goto(p, busy) /\ UNCHANGED <<lock, lockAge>>
  <2>1. phase[p] = from /\ UNCHANGED <<seen, robbed>> /\ busy \in Phases
    BY DEF Phases
  <2>2. lock # p
    BY <2>1 DEF IInv, NoOrphanLock, Holding
  <2> QED
    BY <1>2, <2>1, <2>2, QuietStep DEF IInv, TypeOK, Alive
<1> QED
  BY <1>1, <1>2

LEMMA InitIInv == Init => IInv
BY LockConstants DEF Init, IInv, TypeOK, Phases, Intact, NoOrphanLock, SeenIsLock,
                     StaleIsGone, Holding

\* Every step keeps the invariant.
LEMMA NextIInv == IInv /\ [Next]_vars => IInv'
<1> SUFFICES ASSUME IInv, [Next]_vars PROVE IInv'
  OBVIOUS
<1> TypeOK /\ NoOrphanLock
  BY DEF IInv
<1>1. ASSUME NEW p \in Procs, Step(p) PROVE IInv'
  <2>1. CASE TryCreateExclusive(p, "create", "read")
    BY <2>1, CreateStep
  <2>2. CASE TryCreateExclusive(p, "recreate", "refused")
    BY <2>2, CreateStep
  <2>3. CASE MarkAcquired(p)
    BY <2>3, QuietStep DEF MarkAcquired, Goto, TypeOK, Holding, Alive, Phases
  <2>4. CASE ReadExistingLock(p)
    <3>1. CASE lock \in Procs
      BY <2>4, <3>1, QuietStep
      DEF ReadExistingLock, TypeOK, Alive, Phases, NoOrphanLock, Holding
    <3>2. CASE lock \notin Procs
      BY <2>4, <3>2, QuietStep DEF ReadExistingLock, TypeOK, Alive, Phases
    <3> QED
      BY <3>1, <3>2
  <2>5. CASE JudgeExisting(p)
    <3>1. PICK age \in 0..2 :
              Goto(p, IF IsStale(p, seen[p], age) THEN "unlink" ELSE "refused")
      BY <2>5 DEF JudgeExisting, TypeOK
    <3>2. seen[p] \in Procs /\ lock # p
      BY <2>5 DEF JudgeExisting, IInv, SeenIsLock, NoOrphanLock, Holding
    <3>3. CASE IsStale(p, seen[p], age)
      <4>1. HostOf[seen[p]] = HostOf[p] /\ UserOf[seen[p]] = UserOf[p]
              => ~Alive(seen[p])
        BY <3>3 DEF IsStale, IsPidAlive
      <4>2. Goto(p, "unlink") /\ phase[p] = "judge"
        BY <2>5, <3>1, <3>3 DEF JudgeExisting
      <4>3. ~Alive(seen[p]) => ~Alive(seen[p])'
        BY <2>5, <3>2, <4>2 DEF JudgeExisting, Goto, Alive, TypeOK
      <4>4. UNCHANGED <<lock, lockAge, seen, robbed>>
        BY <2>5 DEF JudgeExisting
      <4> QED
        BY <3>2, <4>1, <4>2, <4>3, <4>4, QuietStep DEF TypeOK, Alive, Phases
    <3>4. CASE ~IsStale(p, seen[p], age)
      BY <2>5, <3>1, <3>2, <3>4, QuietStep DEF JudgeExisting, TypeOK, Alive, Phases
    <3> QED
      BY <3>3, <3>4
  <2>6. CASE JudgeUnreadable(p)
    <3>1. lock # p
      BY <2>6 DEF JudgeUnreadable, NoOrphanLock, Holding
    <3> QED
      BY <2>6, <3>1, QuietStep DEF JudgeUnreadable, TypeOK, Alive, Phases
  <2>7. CASE DiscardUnreadable(p)
    BY <2>7, UnlinkStep DEF DiscardUnreadable, Alive
  <2>8. CASE RemoveStale(p)
    BY <2>8, UnlinkStep DEF RemoveStale, Alive
  <2>9. CASE RemoveOwn(p)
    BY <2>9, UnlinkStep DEF RemoveOwn, Alive
  <2>10. CASE Exit(p)
    <3>1. lock # p
      BY <2>10 DEF Exit, NoOrphanLock, Holding
    <3> QED
      BY <2>10, <3>1, QuietStep DEF Exit, TypeOK, Alive, Phases
  <2> QED
    BY <1>1, <2>1, <2>2, <2>3, <2>4, <2>5, <2>6, <2>7, <2>8, <2>9, <2>10 DEF Step
<1>2. ASSUME NEW p \in Procs, Start(p) PROVE IInv'
  <2>1. lock # p
    BY <1>2 DEF Start, NoOrphanLock, Holding
  <2> QED
    BY <1>2, <2>1, QuietStep DEF Start, TypeOK, Alive, Phases
<1>3. ASSUME NEW p \in Procs, Release(p) PROVE IInv'
  BY <1>3, QuietStep DEF Release, TypeOK, Holding, Alive, Phases
<1>4. ASSUME NEW p \in Procs, Signal(p) PROVE IInv'
  BY <1>4, QuietStep DEF Signal, TypeOK, Holding, Alive, Phases
<1>5. ASSUME NEW p \in Procs, ExitHolding(p) PROVE IInv'
  BY <1>5, UnlinkStep DEF ExitHolding, Alive
<1>6. ASSUME NEW p \in Procs, CreateFails(p) PROVE IInv'
  <2>1. lock # p
    BY <1>6 DEF CreateFails, NoOrphanLock, Holding
  <2> QED
    BY <1>6, <2>1, QuietStep DEF CreateFails, TypeOK, Alive, Phases
<1>7. ASSUME NEW p \in Procs, Kill(p) PROVE IInv'
  BY <1>7, QuietStep DEF Kill, TypeOK, Alive, Phases
<1>8. CASE Tick
  BY <1>8 DEF Tick, IInv, TypeOK, Intact, NoOrphanLock, SeenIsLock, StaleIsGone,
              Holding, Alive
<1>9. CASE UNCHANGED vars
  BY <1>9 DEF vars, IInv, TypeOK, Intact, NoOrphanLock, SeenIsLock, StaleIsGone,
              Holding, Alive
<1> QED
  BY <1>1, <1>2, <1>3, <1>4, <1>5, <1>6, <1>7, <1>8, <1>9 DEF Next

\* The inductive invariant holds throughout.
THEOREM Invariance == Spec => []IInv
BY InitIInv, NextIInv, PTL DEF Spec

\* Two processes hold the campaign only after one of them has been robbed of
\* its file (campaign-lock.ts acquire, reclaim, release).
THEOREM MutualExclusionUnlessRobbed == Spec => []SingleWriterUnlessRobbed
<1>1. IInv => SingleWriterUnlessRobbed
  BY DEF IInv, Intact, SingleWriterUnlessRobbed
<1> QED
  BY <1>1, Invariance, PTL

\* Only a killed process leaves its lock file behind.
THEOREM NoOrphans == Spec => []NoOrphanLock
<1>1. IInv => NoOrphanLock
  BY DEF IInv
<1> QED
  BY <1>1, Invariance, PTL

-----------------------------------------------------------------------------

\* A step that robs is one of the five removals.
LEMMA StepRobbery == IInv /\ [Next]_vars => RobberyCauses
<1> SUFFICES ASSUME IInv, [Next]_vars, NEW q \in robbed' \ robbed
             PROVE  \E p \in Procs \ {q} :
                        \/ RobsByLateReclaim(p, q)
                        \/ RobsForeignByAge(p, q)
                        \/ RobsOtherUser(p, q)
                        \/ RobsUnreadable(p)
                        \/ RobsHavingBeenRobbed(p)
  BY DEF RobberyCauses
<1> USE DEF IInv
<1>1. ASSUME NEW p \in Procs, Unlink(p)
      PROVE  q \in Procs /\ q # p /\ Owns(q)
  BY <1>1 DEF Unlink
<1>2. ASSUME NEW p \in Procs, DiscardUnreadable(p)
      PROVE  p # q /\ RobsUnreadable(p)
  BY <1>1, <1>2 DEF DiscardUnreadable, RobsUnreadable, Goto, TypeOK
<1>3. ASSUME NEW p \in Procs, RemoveStale(p)
      PROVE  p # q /\ (\/ RobsByLateReclaim(p, q)
                       \/ RobsForeignByAge(p, q)
                       \/ RobsOtherUser(p, q))
  <2>1. p # q /\ Alive(q) /\ Reclaiming(p) /\ phase[p] = "unlink"
    BY <1>1, <1>3 DEF RemoveStale, Reclaiming, Goto, TypeOK, Owns, Holding, Alive
  <2>2. seen[p] = q => HostOf[q] # HostOf[p] \/ UserOf[q] # UserOf[p]
    BY <2>1 DEF StaleIsGone
  <2> QED
    BY <2>1, <2>2 DEF RobsByLateReclaim, RobsForeignByAge, RobsOtherUser
<1>4. ASSUME NEW p \in Procs, RemoveOwn(p) \/ ExitHolding(p)
      PROVE  p # q /\ RobsHavingBeenRobbed(p)
  <2>1. p # q /\ lock = q
    BY <1>1, <1>4 DEF RemoveOwn, ExitHolding, Owns
  <2>2. p \in robbed
    BY <1>4, <2>1 DEF RemoveOwn, ExitHolding, Intact, Holding
  <2>3. phase'[p] \in {"released", "exited"}
    BY <1>4 DEF RemoveOwn, ExitHolding, Goto, TypeOK
  <2> QED
    BY <2>1, <2>2, <2>3 DEF RobsHavingBeenRobbed
<1>5. robbed' # robbed
  OBVIOUS
<1>6. PICK p \in Procs : \/ DiscardUnreadable(p) \/ RemoveStale(p)
                         \/ RemoveOwn(p) \/ ExitHolding(p)
  BY <1>5 DEF Next, Step, vars, TryCreateExclusive, MarkAcquired, ReadExistingLock,
              JudgeExisting, JudgeUnreadable, Exit, Start, Release, Signal,
              CreateFails, Kill, Tick
<1> QED
  BY <1>2, <1>3, <1>4, <1>6

\* An owner loses its file to another process in five ways and no other
\* (campaign-lock.ts removeLock, called by acquire, reclaim and release).
THEOREM RobberyHasKnownCause == Spec => RobberyOnlyByKnownCauses
<1>1. IInv /\ [Next]_vars => [RobberyCauses]_vars
  BY StepRobbery
<1> QED
  BY <1>1, Invariance, PTL DEF Spec, RobberyOnlyByKnownCauses

-----------------------------------------------------------------------------
(* Where the promise of the header is kept.  Of one user on one host, a     *)
(* campaign that finds no unreadable file loses its lock only to a process  *)
(* whose verdict is about a third one: two processes exclude each other.    *)

Contending == {"read", "judge", "stat", "discard", "unlink", "recreate"}
HasLinked(q) ==
    phase[q] \in {"linked", "held", "draining", "releasing", "released", "exited", "dead"}

\* One of two contends only with the other, which has linked its file and cannot do so
\* again: once that file is gone there is none, until it links its own.
Duel ==
    /\ robbed = {} /\ lock # Garbage
    /\ \A p, q \in Procs : p # q =>
          /\ phase[p] \in Contending => HasLinked(q) /\ lock # p
          /\ phase[p] = "stat" => lock = NoLock
          /\ phase[p] # "discard"
          /\ phase[p] \in {"judge", "unlink"} => seen[p] = q
          /\ phase[p] \in {"unlink", "recreate"} => ~Alive(q)

TwoLocal(a, b) ==
    /\ a # b /\ Procs = {a, b}
    /\ HostOf[a] = HostOf[b] /\ UserOf[a] = UserOf[b]

LEMMA DuelStep ==
    ASSUME NEW a \in Procs, NEW b \in Procs, TwoLocal(a, b),
           IInv, Duel, [Next]_vars
    PROVE  Duel'
<1>0. /\ TypeOK /\ Intact /\ NoOrphanLock /\ SeenIsLock
      /\ \A p, q, r \in Procs : p # q => r = p \/ r = q
      /\ \A p, q \in Procs : HostOf[p] = HostOf[q] /\ UserOf[p] = UserOf[q]
  BY DEF IInv, TwoLocal
<1> USE LockConstants DEF Duel, Contending, HasLinked, Goto, TypeOK
<1>1. ASSUME NEW p \in Procs, TryCreateExclusive(p, "create", "read") PROVE Duel'
  <2>1. lock \in Procs => lock # p /\ HasLinked(lock)
    BY <1>0, <1>1 DEF TryCreateExclusive, NoOrphanLock, Holding
  <2> QED
    BY <1>0, <1>1, <2>1 DEF TryCreateExclusive, Alive
<1>2. ASSUME NEW p \in Procs, TryCreateExclusive(p, "recreate", "refused") PROVE Duel'
  BY <1>0, <1>2 DEF TryCreateExclusive, Alive
<1>3. ASSUME NEW p \in Procs, MarkAcquired(p) PROVE Duel'
  BY <1>0, <1>3 DEF MarkAcquired, Alive
<1>4. ASSUME NEW p \in Procs, ReadExistingLock(p) PROVE Duel'
  BY <1>0, <1>4 DEF ReadExistingLock, Alive
<1>5. ASSUME NEW p \in Procs, JudgeExisting(p) PROVE Duel'
  <2>1. PICK age \in 0..2 : Goto(p, IF IsStale(p, seen[p], age) THEN "unlink" ELSE "refused")
    BY <1>0, <1>5 DEF JudgeExisting
  <2>2. phase[p] = "judge" /\ seen[p] \in Procs
    BY <1>0, <1>5 DEF JudgeExisting, SeenIsLock
  <2>3. IsStale(p, seen[p], age) => ~Alive(seen[p])
    BY <1>0, <2>2 DEF IsStale, IsPidAlive
  <2> QED
    BY <1>0, <1>5, <2>1, <2>2, <2>3 DEF JudgeExisting, Alive
<1>6. ASSUME NEW p \in Procs, JudgeUnreadable(p) PROVE Duel'
  BY <1>0, <1>6 DEF JudgeUnreadable, Alive, TwoLocal
<1>7. ASSUME NEW p \in Procs, DiscardUnreadable(p) PROVE Duel'
  BY <1>0, <1>7 DEF DiscardUnreadable, TwoLocal
<1>8. ASSUME NEW p \in Procs, RemoveStale(p) PROVE Duel'
  <2>1. \A q \in Procs \ {p} : ~Owns(q)
    BY <1>0, <1>8 DEF RemoveStale, Owns, Holding, Alive
  <2> QED
    BY <1>0, <1>8, <2>1 DEF RemoveStale, Unlink, Alive
<1>9. ASSUME NEW p \in Procs, RemoveOwn(p) \/ ExitHolding(p) PROVE Duel'
  <2>1. lock = p
    BY <1>0, <1>9 DEF RemoveOwn, ExitHolding, Intact, Holding
  <2> QED
    BY <1>0, <1>9, <2>1 DEF RemoveOwn, ExitHolding, Unlink, Owns, Alive
<1>10. ASSUME NEW p \in Procs, Exit(p) \/ Start(p) \/ Release(p) \/ Signal(p) \/ CreateFails(p) \/ Kill(p)
       PROVE  Duel'
  BY <1>0, <1>10 DEF Exit, Start, Release, Signal, CreateFails, Kill, Alive
<1>11. CASE Tick \/ UNCHANGED vars
  BY <1>11 DEF Tick, vars, Alive
<1> QED
  BY <1>1, <1>2, <1>3, <1>4, <1>5, <1>6, <1>7, <1>8, <1>9, <1>10, <1>11 DEF Next, Step

\* Two processes of one user on one host, which find no unreadable file, keep the
\* promise of the header of campaign-lock.ts, however they contend, die and shut down: to
\* violate SingleWriter takes a third process, another host or user, or an unreadable file.
THEOREM TwoProcessesExclude ==
    ASSUME NEW a \in Procs, NEW b \in Procs, TwoLocal(a, b)
    PROVE  Spec /\ lock = NoLock => []SingleWriter
<1>1. Init /\ lock = NoLock => Duel
  BY LockConstants DEF Init, Duel, Contending
<1>2. IInv /\ Duel /\ [Next]_vars => Duel'
  BY DuelStep
<1>3. IInv /\ Duel => SingleWriter
  BY DEF IInv, Intact, Duel, SingleWriter
<1> QED
  BY <1>1, <1>2, <1>3, Invariance, PTL DEF Spec

=============================================================================
