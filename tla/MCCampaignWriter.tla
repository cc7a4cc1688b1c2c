--------------------------- MODULE MCCampaignWriter ---------------------------
(* The writers of a campaign over a store whose appends fail in every way.  *)
EXTENDS CampaignWriter

AllFaults == FaultKinds
=============================================================================
