------------------------- MODULE DegradationLadder -------------------------
(***************************************************************************)
(* The degradation ladder of a verification run (degradation-ladder.ts):   *)
(* anomalies are counted by kind, and their counts move the run from level *)
(* 0, everything, to level 3, halt.  The operators take a ladder state and *)
(* return the next one.                                                    *)
(***************************************************************************)
EXTENDS Integers

CONSTANTS
    FormatRepairLimit, ContextExhaustionLimit, ToolLoopLimit,
    FabricationLimit, DockerFailureLimit, CumulativeHaltThreshold

\* Nobody looks at the numbers of --degradation-thresholds: they may be zero or less.
ASSUME ThresholdsAssumption ==
    {FormatRepairLimit, ContextExhaustionLimit, ToolLoopLimit, FabricationLimit,
     DockerFailureLimit, CumulativeHaltThreshold} \subseteq Int

AnomalyKind == {"format_repair", "context_exhaustion", "tool_loop",
                "evidence_fabrication", "docker_failure", "no_progress"}
DegradationLevel == 0 .. 3
DegradationState ==
    [currentLevel : DegradationLevel, anomalyCounts : [AnomalyKind -> Nat]]

createDegradationState ==
    [currentLevel |-> 0, anomalyCounts |-> [kind \in AnomalyKind |-> 0]]

enableAudit(state) == state.currentLevel = 0
enableSecondaryFollowups(state) == state.currentLevel = 0
allowNonCriticalRuntime(state) == state.currentLevel < 2
\* Bug: the level after the last one halts.
haltsTooLate(state) == state.currentLevel > 3
halt(state) == state.currentLevel = 3

cumulativeCount(counts) ==
    counts["format_repair"] + counts["context_exhaustion"] + counts["tool_loop"]
      + counts["evidence_fabrication"] + counts["docker_failure"]
      + counts["no_progress"]

Conservative(counts) ==
    \/ counts["format_repair"] >= FormatRepairLimit
    \/ counts["context_exhaustion"] >= ContextExhaustionLimit
    \/ counts["tool_loop"] >= ToolLoopLimit

Bounded(counts) ==
    \/ counts["evidence_fabrication"] >= FabricationLimit
    \/ counts["docker_failure"] >= DockerFailureLimit
    \/ cumulativeCount(counts) >= CumulativeHaltThreshold \div 2

\* The highest level whose condition holds; a level is never left downwards.
tryEscalate(level, counts) ==
    IF cumulativeCount(counts) >= CumulativeHaltThreshold THEN 3
    ELSE IF level < 2 /\ Bounded(counts) THEN 2
    ELSE IF level < 1 /\ Conservative(counts) THEN 1
    ELSE level

recordAnomaly(state, kind) ==
    LET counts == [state.anomalyCounts EXCEPT ![kind] = @ + 1]
    IN  [currentLevel |-> tryEscalate(state.currentLevel, counts),
         anomalyCounts |-> counts]

\* checkNoProgressTimeout when noProgressTimeoutMs have passed.
Stalled(state) ==
    IF halt(state) THEN state
    ELSE [currentLevel |-> IF state.currentLevel >= 2 THEN 3 ELSE 2,
          anomalyCounts |-> [state.anomalyCounts EXCEPT !["no_progress"] = @ + 1]]
=============================================================================
