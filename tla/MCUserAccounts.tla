--------------------------- MODULE MCUserAccounts ---------------------------
(* Values for model checking UserAccounts. *)
EXTENDS UserAccounts, TLC

CONSTANTS p1, p2, e1, e2, nothing

MCUsers == <<[provider |-> p1, email |-> e1]>>
=============================================================================
