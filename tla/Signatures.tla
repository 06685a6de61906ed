----------------------------- MODULE Signatures -----------------------------
(***************************************************************************)
(* The signatures of one user: SignaturesService over PostgreSQL.  create  *)
(* and update run in READ COMMITTED transactions: a statement sees what was *)
(* committed when it began, waits for the rows another transaction has      *)
(* written, then looks at them again; nothing it has not written is locked, *)
(* and no index keeps the default unique.                                   *)
(***************************************************************************)
EXTENDS Naturals, FiniteSets

CONSTANTS Ids,          \* signature ids
          Initial,      \* those saved at the start, the default one first: a sequence
          Attachments,  \* uploaded files
          Campaigns,    \* campaigns that end with a signature
          Calls,        \* calls of createSignature, updateSignature, deleteSignature
          None,         \* no signature
          Gone,         \* a campaign deleted
          Faults        \* subset of {"abort", "attach"}

ASSUME SignaturesAssumption ==
    /\ None \notin Ids /\ Gone \notin Ids /\ None # Gone
    /\ Initial[1] \in Ids
    /\ Faults \subseteq {"abort", "attach"}

VARIABLES sig,       \* id -> its committed row
          owner,     \* attachment -> "absent", "stored" (no row), the signature it belongs to
                     \* or "orphan": the object stays when the row is deleted
          campaign,  \* campaign -> its signature
          call       \* call -> its locals and its transaction

vars == <<sig, owner, campaign, call>>

Wishes == {"yes", "no", "undefined"}      \* dto.isDefault

Active == {"find", "unset", "lock", "count", "compare", "write", "commit"}

Sig == [is: {"unused", "saved", "deleted"}, default: BOOLEAN]

Call == [at: Active \cup {"unused", "delete", "done", "rejected"},
         kind: {"create", "update", "delete"}, id: Ids \cup {None}, wish: Wishes,
         files: SUBSET Attachments,
         default: BOOLEAN,        \* the entity's isDefault
         seen: SUBSET Ids,        \* the defaults the UPDATE's snapshot shows
         unset: SUBSET Ids,       \* rows it has unset, uncommitted
         writes: {"nothing", "name", "default", "row"},
         overlapped: BOOLEAN]

SignaturesTypeOK ==
    /\ sig \in [Ids -> Sig]
    /\ owner \in [Attachments -> Ids \cup {"absent", "stored", "orphan", None}]
    /\ campaign \in [Campaigns -> Ids \cup {None, Gone}]
    /\ call \in [Calls -> Call]

Init ==
    /\ sig = [i \in Ids |->
                IF \E n \in DOMAIN Initial : Initial[n] = i
                THEN [is |-> "saved", default |-> Initial[1] = i]
                ELSE [is |-> "unused", default |-> FALSE]]
    /\ owner = [a \in Attachments |-> "absent"]
    /\ campaign = [k \in Campaigns |-> Initial[1]]
    /\ call = [c \in Calls |->
                 [at |-> "unused", kind |-> "create", id |-> None, wish |-> "undefined",
                  files |-> {}, default |-> FALSE, seen |-> {}, unset |-> {},
                  writes |-> "nothing", overlapped |-> FALSE]]

Saved    == {i \in Ids : sig[i].is = "saved"}
Defaults == {i \in Saved : sig[i].default}

(* The rows a transaction has written and not committed. *)
Locks(c) == IF call[c].at \notin Active THEN {}
            ELSE call[c].unset \cup (IF call[c].at = "commit" THEN {call[c].id} ELSE {})

Locked(i, c) == \E d \in Calls \ {c} : i \in Locks(d)

Set(c, rec) == call' = [call EXCEPT ![c] = rec]

-----------------------------------------------------------------------------
(* uploadSignatureAttachment: the object, then a row of no signature.        *)
StoreFile(a) ==
    /\ owner[a] = "absent"
    /\ owner' = [owner EXCEPT ![a] = "stored"]
    /\ UNCHANGED <<sig, campaign, call>>

SaveAttachment(a) ==
    /\ owner[a] = "stored"
    /\ owner' = [owner EXCEPT ![a] = None]
    /\ UNCHANGED <<sig, campaign, call>>

-----------------------------------------------------------------------------
BeginCreate(c, wish, files) ==
    /\ call[c].at = "unused"
    /\ Set(c, [call[c] EXCEPT !.kind = "create", !.wish = wish, !.files = files,
                              !.default = wish = "yes",
                              !.at = IF wish = "yes" THEN "unset" ELSE "count"])
    /\ UNCHANGED <<sig, owner, campaign>>

(* A signature that did not ask becomes the default when there is none.      *)
CountDefaults(c) ==
    /\ call[c].at = "count"
    /\ Set(c, [call[c] EXCEPT !.default = Defaults = {}, !.at = "compare"])
    /\ UNCHANGED <<sig, owner, campaign>>

BeginUpdate(c, i, wish) ==
    /\ call[c].at = "unused"
    /\ Set(c, [call[c] EXCEPT !.kind = "update", !.id = i, !.wish = wish, !.at = "find"])
    /\ sig[i].is # "unused"
    /\ UNCHANGED <<sig, owner, campaign>>

SeededFound(i) == TRUE

Found(i) == i \in Saved

(* What isDefault becomes in the entity: what the row said unless the dto    *)
(* says otherwise.                                                           *)
SeededAssigned(wish, loaded) == wish = "yes"

Assigned(wish, loaded) == IF wish = "undefined" THEN loaded ELSE wish = "yes"

FindSignature(c) ==
    /\ call[c].at = "find"
    /\ IF Found(call[c].id)
       THEN Set(c, [call[c] EXCEPT
                      !.default = Assigned(call[c].wish, sig[call[c].id].default),
                      !.at = IF call[c].wish = "yes" THEN "unset" ELSE "compare"])
       ELSE Set(c, [call[c] EXCEPT !.at = "rejected"])
    /\ UNCHANGED <<sig, owner, campaign>>

-----------------------------------------------------------------------------
(* UPDATE signatures SET is_default = false WHERE is_default: its snapshot,  *)
(* then, once no other transaction holds one of those rows, those still so.  *)
SeededToUnset == {}

ToUnset == Defaults

UnsetBegins(c) ==
    /\ call[c].at = "unset"
    /\ Set(c, [call[c] EXCEPT !.seen = ToUnset, !.at = "lock"])
    /\ UNCHANGED <<sig, owner, campaign>>

UnsetDefaults(c) ==
    /\ call[c].at = "lock"
    /\ \A i \in call[c].seen : ~Locked(i, c)
    /\ Set(c, [call[c] EXCEPT !.unset = call[c].seen \cap Defaults, !.at = "compare"])
    /\ UNCHANGED <<sig, owner, campaign>>

(* save: an entity with an id is compared with its row as the transaction    *)
(* sees it; when the row is not there any more the entity is inserted.       *)
Visible(c) == sig[call[c].id].default /\ call[c].id \notin call[c].unset

CompareRow(c) ==
    /\ call[c].at = "compare"
    /\ IF call[c].kind = "create"
       THEN \E i \in {i \in Ids : sig[i].is = "unused" /\ \A d \in Calls : call[d].id # i} :
              Set(c, [call[c] EXCEPT !.id = i, !.writes = "row", !.at = "write"])
       ELSE Set(c, [call[c] EXCEPT !.at = "write",
                      !.writes = IF call[c].id \notin Saved THEN "row"
                                 ELSE IF Visible(c) # call[c].default THEN "default"
                                 ELSE "name"])
    /\ UNCHANGED <<sig, owner, campaign>>

WriteRow(c) ==
    /\ call[c].at = "write"
    /\ ~Locked(call[c].id, c)
    /\ Set(c, [call[c] EXCEPT
                 !.at = IF call[c].writes = "row" /\ call[c].id \in Saved
                        THEN "rejected" ELSE "commit",
                 !.writes = IF @ # "row" /\ call[c].id \notin Saved THEN "nothing" ELSE @])
    /\ UNCHANGED <<sig, owner, campaign>>

(* The commit shows the rows; the UPDATE of the attachments, which nobody    *)
(* awaits, was sent before it on the same connection.  A deleted attachment  *)
(* stays deleted.                                                            *)
Committed(c, i) ==
    IF i = call[c].id /\ call[c].writes \in {"default", "row"}
    THEN [is |-> "saved", default |-> call[c].default]
    ELSE IF i \in call[c].unset THEN [sig[i] EXCEPT !.default = FALSE] ELSE sig[i]

Overlap(c, place) ==
    [d \in Calls |-> IF d = c THEN [call[c] EXCEPT !.at = place]
                     ELSE [call[d] EXCEPT !.overlapped = @ \/ call[d].at \in Active]]

Commit(c) ==
    /\ call[c].at = "commit"
    /\ sig' = [i \in Ids |-> Committed(c, i)]
    /\ owner' = [a \in Attachments |->
                   IF a \in call[c].files /\ owner[a] \in Ids \cup {None}
                   THEN call[c].id ELSE owner[a]]
    /\ call' = Overlap(c, "done")
    /\ UNCHANGED campaign

-----------------------------------------------------------------------------
(* DELETE, with its attachments and the campaigns that use it (ON DELETE     *)
(* CASCADE on both foreign keys).                                            *)
BeginDelete(c, i) ==
    /\ call[c].at = "unused"
    /\ sig[i].is # "unused"
    /\ Set(c, [call[c] EXCEPT !.kind = "delete", !.id = i, !.at = "delete"])
    /\ UNCHANGED <<sig, owner, campaign>>

DeleteSignature(c) ==
    LET i == call[c].id
    IN  /\ call[c].at = "delete"
        /\ ~Locked(i, c)
        /\ IF i \in Saved
           THEN /\ sig' = [sig EXCEPT ![i] = [is |-> "deleted", default |-> FALSE]]
                /\ owner' = [a \in Attachments |-> IF owner[a] = i THEN "orphan" ELSE owner[a]]
                /\ campaign' = [k \in Campaigns |-> IF campaign[k] = i THEN Gone ELSE campaign[k]]
                /\ call' = Overlap(c, "done")
           ELSE Set(c, [call[c] EXCEPT !.at = "rejected"]) /\ UNCHANGED <<sig, owner, campaign>>

-----------------------------------------------------------------------------
(* A statement throws and the transaction is rolled back.                    *)
Abort(c) ==
    /\ "abort" \in Faults
    /\ call[c].at \in Active \cup {"delete"}
    /\ Set(c, [call[c] EXCEPT !.at = "rejected"])
    /\ UNCHANGED <<sig, owner, campaign>>

(* The UPDATE of the attachments fails: nobody handles the rejection, the    *)
(* process ends and PostgreSQL rolls back what its calls had not committed.  *)
AttachFails(c) ==
    /\ "attach" \in Faults
    /\ call[c].at = "commit" /\ call[c].files # {}
    /\ call' = [d \in Calls |-> IF call[d].at \in Active \cup {"delete"}
                                THEN [call[d] EXCEPT !.at = "rejected"] ELSE call[d]]
    /\ UNCHANGED <<sig, owner, campaign>>

CallStep(c) ==
    \/ CountDefaults(c) \/ FindSignature(c) \/ UnsetBegins(c) \/ UnsetDefaults(c)
    \/ CompareRow(c) \/ WriteRow(c) \/ Commit(c) \/ DeleteSignature(c)

Next ==
    \/ \E a \in Attachments : StoreFile(a) \/ SaveAttachment(a)
    \/ \E c \in Calls, wish \in Wishes :
         \/ \E files \in SUBSET {a \in Attachments : owner[a] \in Ids \cup {None}} :
              BeginCreate(c, wish, files)
         \/ \E i \in Ids : BeginUpdate(c, i, wish)
    \/ \E c \in Calls, i \in Ids : BeginDelete(c, i)
    \/ \E c \in Calls : CallStep(c) \/ Abort(c) \/ AttachFails(c)

Spec == Init /\ [][Next]_vars

-----------------------------------------------------------------------------
(* The user has one default at most, however create, update and delete       *)
(* alternate: only a transaction that another one's commit overlapped leaves *)
(* two.                                                                      *)
OneDefault ==
    Cardinality(Defaults) > 1 =>
      \E c \in Calls : call[c].at = "done" /\ call[c].overlapped

(* An update that does not speak of the default changes no default: only     *)
(* when another commit overlapped it does it put back the old one.           *)
RenameKeepsDefault ==
    [][\A c \in Calls :
         Commit(c) /\ call[c].kind = "update" /\ call[c].wish = "undefined"
         /\ ~call[c].overlapped =>
           Defaults' = Defaults]_vars

(* A deleted signature comes back only by an update that had found it before *)
(* the delete.                                                               *)
DeletedStaysDeleted ==
    [][\A i \in Ids : sig[i].is = "deleted" /\ sig'[i].is = "saved" =>
         \E c \in Calls : call[c].kind = "update" /\ call[c].id = i /\ call[c].overlapped]_vars
=============================================================================
