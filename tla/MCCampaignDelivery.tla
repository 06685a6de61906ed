------------------------- MODULE MCCampaignDelivery -------------------------
(* Values for model checking CampaignDelivery: model values for recipients  *)
(* and processes, which are interchangeable where no run tells them apart.  *)
EXTENDS CampaignDelivery, TLC

CONSTANTS r1, r2, r3, backend, worker, none

Symmetry == Permutations(Recipients)
=============================================================================
