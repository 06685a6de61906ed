---------------------------- MODULE MCDailyQuota ----------------------------
(* Values for model checking DailyQuota. *)
EXTENDS DailyQuota, TLC

CONSTANTS p1, e1, k1, k2, s1, s2, s3, t1, t2, nothing

MCUsers == <<[provider |-> p1, email |-> e1]>>
Symmetry == Permutations(Sends) \cup Permutations(Campaigns)
=============================================================================
