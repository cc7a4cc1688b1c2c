------------------------------ MODULE ProbePool ------------------------------
(***************************************************************************)
(* What runAll promises the campaign: a batch of probes is run within the  *)
(* caps, each probe is executed at most once, now or in a later batch, and *)
(* the batch is over only when nothing runs and every probe has its result,*)
(* unless it was cut short.  Nothing is said of queues, counts and maps.   *)
(***************************************************************************)
EXTENDS Integers, FiniteSets

CONSTANTS Fingerprint, Target, Kind, TargetOf, KindOf,
          MaxConcurrency, MaxPerTarget, MaxPerKind

VARIABLES
    open,         \* a batch is being gated or run
    outstanding,  \* its probes that have no result
    executing,    \* probes that run
    executed,     \* probes that run or have run, in any batch
    cut           \* the batch was killed, or is out of budget

poolVars == <<open, outstanding, executing, executed, cut>>

WithinCaps(probes) ==
    /\ Cardinality(probes) <= MaxConcurrency
    /\ \A t \in Target : Cardinality({p \in probes : TargetOf[p] = t}) <= MaxPerTarget
    /\ \A k \in Kind : Cardinality({p \in probes : KindOf[p] = k}) <= MaxPerKind

PoolInit ==
    /\ ~open /\ outstanding = {} /\ executing = {} /\ executed = {} /\ ~cut

Open ==
    /\ ~open /\ open'
    /\ outstanding' = {}
    /\ cut' \in BOOLEAN
    /\ UNCHANGED <<executing, executed>>

Ask(p) ==
    /\ open /\ p \notin outstanding \cup executed
    /\ outstanding' = outstanding \cup {p}
    /\ UNCHANGED <<open, executing, executed, cut>>

Start(p) ==
    /\ open /\ p \in outstanding \ executed
    /\ WithinCaps(executing \cup {p})
    /\ executing' = executing \cup {p}
    /\ executed' = executed \cup {p}
    /\ UNCHANGED <<open, outstanding, cut>>

End(p) ==
    /\ open /\ p \in executing
    /\ executing' = executing \ {p}
    /\ outstanding' = outstanding \ {p}
    /\ UNCHANGED <<open, executed, cut>>

CutShort ==
    /\ open /\ ~cut /\ cut'
    /\ UNCHANGED <<open, outstanding, executing, executed>>

Close ==
    /\ open /\ ~open'
    /\ executing = {}
    /\ cut \/ outstanding = {}
    /\ UNCHANGED <<outstanding, executing, executed, cut>>

PoolNext ==
    \/ Open \/ CutShort \/ Close
    \/ \E p \in Fingerprint : Ask(p) \/ Start(p) \/ End(p)

PoolSpec == PoolInit /\ [][PoolNext]_poolVars

=============================================================================
