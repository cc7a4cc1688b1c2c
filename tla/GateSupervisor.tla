--------------------------- MODULE GateSupervisor ---------------------------
(***************************************************************************)
(* The gate between a model's answer and the runner that asked for it      *)
(* (gate-supervisor.ts): how an answer may be classified, what may come    *)
(* out of its repair, and which anomaly the degradation ladder counts.     *)
(*                                                                         *)
(* No caller passes an alias map, and the verdict on fabricated evidence   *)
(* is only archived (gate 5), so these two classes do not occur here.      *)
(***************************************************************************)

NoFailure == "none"

\* parseWithGenericRepair has already failed to repair these.
Unrepairable == {"format_truncated", "format_invalid_json"}
Unparsed == Unrepairable \cup {"format_no_json", "format_schema_mismatch"}
FromTranscript == {"context_exhaustion", "tool_loop_stall"}
GateFailureClass == Unparsed \cup FromTranscript \cup {"weak_source_grounding"}

\* The source lane hands over the parsed result and no transcript, the runtime
\* lane the transcript.
Classifications(lane) ==
    {NoFailure} \cup Unparsed
      \cup (IF lane = "source" THEN {"weak_source_grounding"} ELSE FromTranscript)

\* Whether executeGate may succeed.  A repair by a model may fail, and then an
\* answer that had been parsed is lost with it; no repair (another provider than
\* bounded_local) and a repair that throws keep what was parsed.
GateMaySucceed(class) == class \notin Unrepairable
GateMayFail(class) == class # NoFailure

gateClassToAnomalyKind(class) ==
    CASE class \in Unparsed              -> "format_repair"
      [] class = "context_exhaustion"    -> "context_exhaustion"
      [] class = "tool_loop_stall"       -> "tool_loop"
      [] class = "weak_source_grounding" -> "none"
=============================================================================
