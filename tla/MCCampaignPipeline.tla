-------------------------- MODULE MCCampaignPipeline --------------------------
(* Instances of CampaignPipeline for TLC.                                  *)
EXTENDS CampaignPipeline

\* Every value of --resume-at and every value of --resume-at-stage, and one
\* launch that gives both.
EachResumePoint ==
    {r \in ResumePoints : r.resumeAt = "auto" \/ r.stage = NoStage}
        \cup {[resumeAt |-> "verification", stage |-> "assessment"]}
\* Later lives are plain resumes or ask for the report.
ResumeAtReporting == {NotResumed, [resumeAt |-> "auto", stage |-> "reporting"]}
BothLanes == {{"local_live", "test_synthesis"}}
OneIteration == {[maxIterations |-> 1, maxCost |-> 2]}
\* With one iteration the first limit binds, with two each of them, and a resume
\* may raise one to two.
MoreIterations == {[maxIterations |-> 1, maxCost |-> 1], [maxIterations |-> 2, maxCost |-> 1]}
NoLanesOrBoth == {{}, {"local_live", "test_synthesis"}}
=============================================================================
