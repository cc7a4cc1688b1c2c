----------------------------- MODULE MCHostedLane -----------------------------
(* An instance of HostedLane for TLC: two campaigns on a target with one    *)
(* ingress check.  The first has a canary for which its limit leaves no     *)
(* room, and may be resumed; the second a mutation nobody has opted in to.  *)
EXTENDS HostedLane, TLC

CONSTANTS c1, c2
Read == [method |-> "GET", hasBody |-> FALSE]
Mutate == [method |-> "POST", hasBody |-> TRUE]
OneCheck == <<Read>>
CanariesOf == c1 :> <<Read>> @@ c2 :> <<Mutate>>
Lives == c1 :> 2 @@ c2 :> 1
=============================================================================
