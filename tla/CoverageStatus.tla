---------------------------- MODULE CoverageStatus ----------------------------
(***************************************************************************)
(* How a campaign's report comes by its executionStatus: the run mode      *)
(* (mode.ts), the summaries of the verification lanes and their merge with *)
(* the mid-pipeline gate's, and the adjustments of the reporting stage     *)
(* (investigation-runner-internals.ts); and the exit code of the command   *)
(* (cli.ts).  Pure functions: what a lane, the gate, the closure and the   *)
(* assessment found are their arguments.                                   *)
(*                                                                         *)
(* A gap is a record without its code and message; a lane's summary is its *)
(* status, which is the highest severity of the lane's gaps.               *)
(***************************************************************************)
EXTENDS Naturals

VerificationLanes == {"local_live", "test_synthesis", "hosted", "supply_chain"}
NoSummary == "no_summary"

ExecutionStatuses == {"complete", "degraded", "incomplete", "blocked"}
Rank == [complete |-> 0, degraded |-> 1, incomplete |-> 2, blocked |-> 3]
maxExecutionStatus(left, right) == IF Rank[left] >= Rank[right] THEN left ELSE right

IsHardGap(gap) == gap.severity \in {"incomplete", "blocked"}

Gap(lane, severity, required) ==
    [lane |-> lane, severity |-> severity, required |-> required]

-----------------------------------------------------------------------------
(* The run mode.  A caller of the library may leave it out, and may still   *)
(* ask for the deprecated strict verification.                             *)

NoRunMode == "no_run_mode"
SeriousModes == {"serious_local", "serious_end_to_end"}
RunModes == {"smoke"} \cup SeriousModes
Configs == [runMode : RunModes \cup {NoRunMode}, strictVerification : BOOLEAN]

isStrictVerificationEnabled(config) ==
    config.strictVerification \/ config.runMode \in SeriousModes

\* The gate goes by the run mode alone; the report does not.
GateMode(config) == IF config.runMode = NoRunMode THEN "smoke" ELSE config.runMode
ReportMode(config) ==
    IF config.runMode = NoRunMode /\ config.strictVerification THEN "serious_local"
                                                              ELSE GateMode(config)

\* evaluateCoverageAgainstMode: the gaps that make a run incomplete.
IncompleteGaps(gaps, requiredLanes, mode) ==
    {gap \in gaps :
        /\ mode \in SeriousModes
        /\ gap.required /\ gap.lane \in requiredLanes /\ IsHardGap(gap)
        /\ ~(mode = "serious_local" /\ gap.lane = "hosted")}

\* evaluateMidPipelineReadiness: what may be missing before the lanes run.
\* Signals are missed whatever the lanes are, the rest by the lanes only.
ReadinessGaps(lanes) ==
    {Gap(lane, "incomplete", TRUE) :
        lane \in {"static"} \cup (lanes \cap {"local_live", "test_synthesis"})}
ShouldAbort(gaps, config) == gaps # {} /\ GateMode(config) # "smoke"

-----------------------------------------------------------------------------
(* The verification summary: the lanes' summaries, the gaps, the status.   *)

computeVerificationExecutionStatus(laneSummaries) ==
    LET found == {laneSummaries[lane] : lane \in VerificationLanes}
    IN  CASE "blocked" \in found -> "blocked"
          [] "blocked" \notin found /\ "incomplete" \in found -> "incomplete"
          [] found \cap {"blocked", "incomplete"} = {} /\ "degraded" \in found -> "degraded"
          [] OTHER -> "complete"

\* Stands for a verification that this process has not run.
NotVerified ==
    [laneSummaries |-> [lane \in VerificationLanes |-> NoSummary],
     gaps |-> {}, executionStatus |-> "complete"]

\* Bug: a hosted lane is not looked for.
MissingLocalLanes(requiredLanes, lanes) == (requiredLanes \ lanes) \ {"hosted"}
MissingLanes(requiredLanes, lanes) == requiredLanes \ lanes

\* runVerificationLanes: "skipped" lanes are left out by the resume point,
\* "found" is what the others found.
RunVerificationLanes(lanes, skipped, found, requiredLanes, config) ==
    LET summaries == [lane \in VerificationLanes |->
                        IF lane \in lanes \ skipped THEN found[lane] ELSE NoSummary]
        missing == MissingLanes(requiredLanes, lanes)
        computed == computeVerificationExecutionStatus(summaries)
    IN  [laneSummaries |-> summaries,
         gaps |-> {Gap(lane, "incomplete", TRUE) : lane \in missing}
                  \cup {Gap(lane, summaries[lane],
                            isStrictVerificationEnabled(config) /\ lane \in requiredLanes) :
                          lane \in {l \in lanes \ skipped : summaries[l] # "complete"}},
         executionStatus |-> IF missing = {} THEN computed
                             ELSE maxExecutionStatus(computed, "incomplete")]

\* buildMidPipelineGateVerificationSummary.  A gap of the static stage is in the
\* gaps and in no lane's summary.
GateSummary(lanes, gaps) ==
    LET summaries == [lane \in VerificationLanes |->
                        CASE lane \notin lanes -> NoSummary
                          [] lane \in {gap.lane : gap \in gaps} -> "incomplete"
                          [] OTHER -> "complete"]
    IN  [laneSummaries |-> summaries, gaps |-> gaps,
         executionStatus |-> computeVerificationExecutionStatus(summaries)]

\* mergeMidPipelineGateVerificationSummary: the status is computed afresh from
\* the lanes.
Merged(base, gate) ==
    LET summaries == [lane \in VerificationLanes |->
                        CASE base.laneSummaries[lane] = NoSummary -> gate.laneSummaries[lane]
                          [] gate.laneSummaries[lane] = NoSummary -> base.laneSummaries[lane]
                          [] OTHER -> maxExecutionStatus(base.laneSummaries[lane],
                                                         gate.laneSummaries[lane])]
    IN  [laneSummaries |-> summaries, gaps |-> base.gaps \cup gate.gaps,
         executionStatus |-> computeVerificationExecutionStatus(summaries)]

-----------------------------------------------------------------------------
(* The reporting stage.                                                    *)

\* The final assessment could be parsed, or it could not and the panel stands
\* in for it, or nothing does.
ParseStatuses == {"structured", "fallback_panel", "fallback_text"}
NoParse == "not_assessed"

AssessmentGaps(parseStatus) ==
    CASE parseStatus = "fallback_text"  -> {Gap("assessment", "incomplete", TRUE)}
      [] parseStatus = "fallback_panel" -> {Gap("assessment", "degraded", TRUE)}
      [] OTHER                          -> {}

\* The status by what was found, before the mode is looked at.
ObservedStatus(verification, closureGaps, initialGaps, parseStatus) ==
    LET closed == IF closureGaps = {} THEN verification.executionStatus
                  ELSE maxExecutionStatus(verification.executionStatus, "degraded")
        begun == IF initialGaps = {} THEN closed ELSE maxExecutionStatus(closed, "incomplete")
    IN  CASE parseStatus = "fallback_text"  -> maxExecutionStatus(begun, "incomplete")
          [] parseStatus = "fallback_panel" -> maxExecutionStatus(begun, "degraded")
          [] OTHER                          -> begun

ReportGaps(verification, closureGaps, initialGaps, parseStatus) ==
    verification.gaps \cup closureGaps \cup initialGaps \cup AssessmentGaps(parseStatus)

\* Smoke caps at degraded, but for an assessment that could not be parsed; the
\* serious modes fail closed on the gaps of required lanes.
StatusInMode(observed, gaps, parseStatus, requiredLanes, mode) ==
    IF mode = "smoke"
    THEN CASE observed = "incomplete" -> IF parseStatus = "fallback_text" THEN observed
                                                                          ELSE "degraded"
           [] observed # "incomplete" /\ gaps # {} -> maxExecutionStatus(observed, "degraded")
           [] OTHER -> observed
    ELSE IF IncompleteGaps(gaps, requiredLanes, mode) = {} THEN observed
         ELSE maxExecutionStatus(observed, "incomplete")

ReportStatus(verification, closureGaps, initialGaps, parseStatus, requiredLanes, config) ==
    StatusInMode(ObservedStatus(verification, closureGaps, initialGaps, parseStatus),
                 ReportGaps(verification, closureGaps, initialGaps, parseStatus),
                 parseStatus, requiredLanes, ReportMode(config))

-----------------------------------------------------------------------------
(* The command line.  It always gives a run mode; "strict" stands for      *)
(* whatever else makes a run strict: an option, a preset, a lane.          *)

CliOptions == [runMode : RunModes, strict : BOOLEAN,
               exitZeroOnIncomplete : BOOLEAN, allowDegraded : BOOLEAN]

ConfigOf(options) ==
    [runMode |-> options.runMode,
     strictVerification |-> options.strict \/ options.runMode \in SeriousModes]

OptsOut(options) == options.exitZeroOnIncomplete \/ options.allowDegraded

ExitCode(options, hasFindings, executionStatus) ==
    IF \/ hasFindings
       \/ /\ ~OptsOut(options)
          /\ \/ options.runMode \in SeriousModes
                /\ executionStatus \in {"incomplete", "blocked"}
             \/ ConfigOf(options).strictVerification /\ executionStatus # "complete"
    THEN 1 ELSE 0
=============================================================================
