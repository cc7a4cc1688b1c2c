--------------------------- MODULE CampaignCoverage ---------------------------
(***************************************************************************)
(* The executionStatus that a life of a campaign reports: CampaignPipeline *)
(* says which stages the life has run, CoverageStatus what becomes of what *)
(* they found.  Nothing of it is in the campaign's state, so what was      *)
(* found in a life is looked at when the life reports, over all that may   *)
(* have been found on the way there.                                       *)
(***************************************************************************)
EXTENDS CampaignPipeline, CoverageStatus

CONSTANT RequiredChoices   \* the sets of lanes that a target may require

ASSUME CoverageConstants == RequiredChoices \subseteq SUBSET VerificationLanes

\* shouldSkipStage leaves these out of the lanes asked for.
SkippedLanes == (lanes \cap {"local_live", "test_synthesis"}) \ started

\* What the verification of this life may have come to.
Verifications(config, requiredLanes) ==
    CASE gate = "not_reached" -> {NotVerified}
      [] gate = "aborted" ->
            {GateSummary(lanes, gaps) :
                gaps \in {g \in SUBSET ReadinessGaps(lanes) : ShouldAbort(g, config)}}
      [] gate = "passed" ->
            {IF gaps = {} THEN base ELSE Merged(base, GateSummary(lanes, gaps)) :
                base \in {RunVerificationLanes(lanes, SkippedLanes, found, requiredLanes, config) :
                            found \in [lanes \ SkippedLanes -> ExecutionStatuses]},
                gaps \in {g \in SUBSET ReadinessGaps(lanes) : ~ShouldAbort(g, config)}}

\* What preflight, closure and assessment of this life may have found.
OtherFindings(config) ==
    LET strict == isStrictVerificationEnabled(config)
    IN  [initialGaps : IF strict THEN {{}, {Gap("investigation", "incomplete", TRUE)}} ELSE {{}},
         closureGaps : IF strict /\ "focused_closure" \in started
                       THEN {{}} \cup {{Gap("assessment", severity, TRUE)} :
                                         severity \in {"degraded", "incomplete"}}
                       ELSE {{}},
         parseStatus : IF "assessment" \in started THEN ParseStatuses ELSE {NoParse}]

Reported(verification, other, requiredLanes, config) ==
    ReportStatus(verification, other.closureGaps, other.initialGaps, other.parseStatus,
                 requiredLanes, config)

\* A serious run has a serious mode, or none and strict verification.
SeriousConfigs ==
    {config \in Configs : \/ config.runMode \in SeriousModes
                          \/ config.runMode = NoRunMode /\ config.strictVerification}

-----------------------------------------------------------------------------
(* Properties.                                                             *)

NothingVerified ==
    \/ lanes = {}
    \/ state.phase = "failed"
    \/ launch.stage # NoStage /\ StageIndex(launch.stage) > StageIndex("test_synthesis")

OnlySignalsMissed(verification) ==
    gate = "aborted" /\ {gap.lane : gap \in verification.gaps} = {"static"}

\* A hosted lane that nobody asked for is forgotten when the gate is merged in,
\* which happens to a serious run only when its run mode was left out.
CountedLanes(requiredLanes, config) ==
    IF config.runMode = NoRunMode THEN requiredLanes \ {"hosted"} ELSE requiredLanes

\* A serious run reports "complete" only when every lane its target requires was
\* asked for and found no gap - or was left out by the resume point, or when
\* the life verified nothing at all (no lanes, killed, resumed behind them), or
\* the gate aborted every lane for want of signals.  The exceptions are what the
\* code does; OPERATOR-GUIDE 6.2 knows of none.
CompleteIsEarned ==
    pc = "log_outcome" =>
        \A config \in SeriousConfigs, requiredLanes \in RequiredChoices :
        \A verification \in Verifications(config, requiredLanes) :
            \/ NothingVerified
            \/ OnlySignalsMissed(verification)
            \/ \A lane \in CountedLanes(requiredLanes, config) :
                  /\ lane \in lanes
                  /\ \/ verification.laneSummaries[lane] = "complete"
                     \/ gate = "passed" /\ lane \in SkippedLanes
            \/ \A other \in OtherFindings(config) :
                  Reported(verification, other, requiredLanes, config) # "complete"

\* A required lane was not asked for although others ran, or it ended incomplete,
\* or the gate found it not ready.
MissesRequired(verification, requiredLanes) ==
    \E lane \in requiredLanes :
        \/ gate = "passed" /\ lane \notin lanes
        \/ verification.laneSummaries[lane] \in {"incomplete", "blocked"}

\* A serious run that misses what its target requires fails closed: its report
\* says "incomplete" or "blocked", whatever the merge made of the status.  The
\* command of any strict run, a smoke run's among them although its report is
\* capped at "degraded", exits with 1 unless the operator has opted out.
RequiredGapsFailClosed ==
    pc = "log_outcome" => \A requiredLanes \in RequiredChoices :
        /\ \A config \in SeriousConfigs :
           \A verification \in Verifications(config, requiredLanes) :
             MissesRequired(verification, CountedLanes(requiredLanes, config)) =>
               \A other \in OtherFindings(config) :
                 Reported(verification, other, requiredLanes, config)
                   \in {"incomplete", "blocked"}
        /\ \A options \in {o \in CliOptions :
                             ConfigOf(o).strictVerification /\ ~OptsOut(o)} :
           \A verification \in Verifications(ConfigOf(options), requiredLanes) :
             MissesRequired(verification, requiredLanes) =>
               \A other \in OtherFindings(ConfigOf(options)), hasFindings \in BOOLEAN :
                 ExitCode(options, hasFindings,
                          Reported(verification, other, requiredLanes, ConfigOf(options))) = 1
=============================================================================
