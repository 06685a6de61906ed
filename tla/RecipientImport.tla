-------------------------- MODULE RecipientImport --------------------------
(***************************************************************************)
(* What the import promises: each campaign's file is read until it is done *)
(* or has failed, possibly more than once, and whenever it is done every   *)
(* address promised is among the campaign's recipients.                    *)
(***************************************************************************)
CONSTANTS Campaigns, Addresses

VARIABLES promised,  \* campaign -> the addresses its file must give
          stored,    \* campaign -> its recipients
          outcome    \* campaign -> "none", "open", "done" or "failed"

vars == <<promised, stored, outcome>>

Init ==
    /\ promised = [c \in Campaigns |-> {}]
    /\ stored = [c \in Campaigns |-> {}]
    /\ outcome = [c \in Campaigns |-> "none"]

(* The campaign is created. *)
Create(c) ==
    /\ outcome[c] = "none"
    /\ outcome' = [outcome EXCEPT ![c] = "open"]
    /\ UNCHANGED <<promised, stored>>

(* It is promised the addresses of a file, once, before anything is read. *)
Link(c) ==
    /\ outcome[c] = "open"
    /\ promised[c] = {}
    /\ UNCHANGED <<stored, outcome>>
    /\ \E S \in SUBSET Addresses : promised' = [promised EXCEPT ![c] = S]

(* Recipients are only ever added. *)
Store(c) ==
    /\ outcome[c] # "none"
    /\ UNCHANGED <<promised, outcome>>
    /\ \E S \in SUBSET Addresses : stored' = [stored EXCEPT ![c] = @ \cup S]

Finish(c) ==
    /\ outcome[c] \in {"open", "done"}
    /\ promised[c] \subseteq stored[c]
    /\ outcome' = [outcome EXCEPT ![c] = "done"]
    /\ UNCHANGED <<promised, stored>>

Fail(c) ==
    /\ outcome[c] = "open"
    /\ outcome' = [outcome EXCEPT ![c] = "failed"]
    /\ UNCHANGED <<promised, stored>>

(* A job whose outcome was not acknowledged is run again. *)
Reopen(c) ==
    /\ outcome[c] \in {"done", "failed"}
    /\ outcome' = [outcome EXCEPT ![c] = "open"]
    /\ UNCHANGED <<promised, stored>>

(* The campaign is deleted, and everything of it. *)
Delete(c) ==
    /\ outcome[c] # "none"
    /\ outcome' = [outcome EXCEPT ![c] = "none"]
    /\ promised' = [promised EXCEPT ![c] = {}]
    /\ stored' = [stored EXCEPT ![c] = {}]

Next == \E c \in Campaigns :
            Create(c) \/ Link(c) \/ Store(c) \/ Finish(c) \/ Fail(c) \/ Reopen(c) \/ Delete(c)

Spec == Init /\ [][Next]_vars

(* A campaign whose import is done has every address promised. *)
DoneIsComplete ==
    \A c \in Campaigns : outcome[c] = "done" => promised[c] \subseteq stored[c]
=============================================================================
