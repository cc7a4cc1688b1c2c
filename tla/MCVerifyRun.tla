----------------------------- MODULE MCVerifyRun -----------------------------
(* An instance of VerifyRun for TLC: two runs in one output directory, of two *)
(* candidates each, whose anomalies can take the ladder through every level.  *)
EXTENDS VerifyRun
=============================================================================
