-------------------------- MODULE MCCampaignCoverage --------------------------
(* Instances of CampaignCoverage for TLC.                                  *)
EXTENDS CampaignCoverage, MCCampaignPipeline

\* A lane that the instances ask for, and one that they do not.
LocalAndHosted == {{"local_live"}, {"hosted"}}
=============================================================================
