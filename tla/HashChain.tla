------------------------------ MODULE HashChain ------------------------------
(***************************************************************************)
(* The rolling hash chain of evidence events (evidence-plane               *)
(* hash-chain.ts), as operators on a sequence of events.                   *)
(*                                                                         *)
(* SHA-256 over index, previous hash, time stamp, stage and payload is     *)
(* taken to be collision free: every event ever computed has a hash of its *)
(* own, a positive number, and 0 stands for the empty string before the    *)
(* first event.  An event read back from disk is one that was written, so  *)
(* the hash recomputed from its contents is its hash.                      *)
(***************************************************************************)
EXTENDS Naturals, Sequences

NoHash == 0

Event == [index : Nat, previousHash : Nat, hash : Nat \ {NoHash}]

HeadHash(chain) == IF chain = <<>> THEN NoHash ELSE chain[Len(chain)].hash

\* Bug: the successor links to itself as if it were the first event.
UnlinkedSuccessor(chain, hash) ==
    [index |-> Len(chain), previousHash |-> NoHash, hash |-> hash]

\* next: the event that would extend the chain, computed without extending it.
Successor(chain, hash) ==
    [index |-> Len(chain), previousHash |-> HeadHash(chain), hash |-> hash]

\* verify: positions and linkage of every event.
Valid(chain) ==
    \A i \in 1..Len(chain) :
        /\ chain[i].index = i - 1
        /\ chain[i].previousHash = IF i = 1 THEN NoHash ELSE chain[i - 1].hash

\* buildVerification's comparison with a manifest's [eventCount, headHash].
AgreesWith(chain, checkpoint) ==
    /\ checkpoint.eventCount <= Len(chain)
    /\ checkpoint.eventCount > 0 =>
          checkpoint.headHash = chain[checkpoint.eventCount].hash

=============================================================================
