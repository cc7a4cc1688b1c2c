--------------------------- MODULE MCCampaignLock ---------------------------
(***************************************************************************)
(* Three process lives.  In the shared placement two of them are local to  *)
(* each other and the third runs on another host that mounts the campaign  *)
(* directory; in the local placement all three are of one user on one host.*)
(***************************************************************************)
EXTENDS CampaignLock, TLC

CONSTANTS p1, p2, p3

MCProcs == {p1, p2, p3}
SharedHostOf == (p1 :> "here") @@ (p2 :> "here") @@ (p3 :> "there")
LocalHostOf == [p \in MCProcs |-> "here"]
OneUser == [p \in MCProcs |-> "ann"]
=============================================================================
