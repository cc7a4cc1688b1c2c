----------------------------- MODULE MCProbeBatch -----------------------------
(* An instance of ProbeBatch for TLC: three probes of one kind, one of      *)
(* another, three on one target, and room for three at once but for two of  *)
(* a kind or on a target.                                                   *)
EXTENDS ProbeBatch, TLC

CONSTANTS a, b, c, d, t1, t2
Targets == a :> t1 @@ b :> t1 @@ c :> t2 @@ d :> t1
Kinds == a :> "code_read" @@ b :> "code_read" @@ c :> "code_read" @@ d :> "process_check"
Priorities == [code_read |-> 2, process_check |-> 5]
=============================================================================
