---------------------------- MODULE EmailOutcome ----------------------------
(***************************************************************************)
(* What delivering a campaign promises about each recipient, without the   *)
(* queue, the workers, the retries and the listeners: the row says         *)
(* "pending" until it says how its email ended, "sent" is said of an email *)
(* Gmail has taken, and a row that has ended never waits again.            *)
(***************************************************************************)
CONSTANT Recipients

VARIABLES outcome,    \* recipient -> its row's status, "absent" without a row
          delivered   \* recipients Gmail has taken an email for

outcomeVars == <<outcome, delivered>>

Init == outcome \in [Recipients -> {"absent", "pending"}] /\ delivered = {}

Add(r) ==
    /\ outcome[r] = "absent"
    /\ outcome' = [outcome EXCEPT ![r] = "pending"]
    /\ UNCHANGED delivered

(* Gmail takes an email; the row may have been deleted meanwhile. *)
Deliver(r) == delivered' = delivered \cup {r} /\ UNCHANGED outcome

(* A later attempt or a resume may correct what an earlier one recorded. *)
Settle(r, end) ==
    /\ outcome[r] # "absent"
    /\ end = "sent" => r \in delivered
    /\ outcome' = [outcome EXCEPT ![r] = end]
    /\ UNCHANGED delivered

DeleteAll == outcome' = [r \in Recipients |-> "absent"] /\ UNCHANGED delivered

Next ==
    \/ \E r \in Recipients : Add(r) \/ Deliver(r)
    \/ \E r \in Recipients, end \in {"sent", "failed"} : Settle(r, end)
    \/ DeleteAll

Spec == Init /\ [][Next]_outcomeVars
=============================================================================
