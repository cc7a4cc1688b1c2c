----------------------------- MODULE EvidenceLog -----------------------------
(***************************************************************************)
(* What the evidence store promises its callers: an append-only hash chain *)
(* in which every event whose append was acknowledged stays where it was   *)
(* put.  An event may be in the log without ever being acknowledged, when  *)
(* the process stops between the two.                                      *)
(***************************************************************************)
EXTENDS HashChain

CONSTANT Hashes     \* the hashes an event may have, all in Nat \ {NoHash}

VARIABLES
    log,    \* the durable chain of events
    acked   \* the acknowledged events, in order

logVars == <<log, acked>>

LogInit == log = <<>> /\ acked = <<>>

Record == \E hash \in Hashes :
    /\ \A i \in 1..Len(log) : log[i].hash # hash
    /\ log' = Append(log, Successor(log, hash))
    /\ UNCHANGED acked

\* The newest event is acknowledged, at most once.
Acknowledge ==
    /\ log # <<>>
    /\ acked # <<>> => acked[Len(acked)] # log[Len(log)]
    /\ acked' = Append(acked, log[Len(log)])
    /\ UNCHANGED log

LogNext == Record \/ Acknowledge

LogSpec == LogInit /\ [][LogNext]_logVars

=============================================================================
