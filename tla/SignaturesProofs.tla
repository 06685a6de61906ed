-------------------------- MODULE SignaturesProofs --------------------------
(***************************************************************************)
(* The signatures of a user for any ids, files, campaigns, calls and       *)
(* failures.  A transaction that no other commit overlapped still sees     *)
(* what is committed: from that the three properties of Signatures follow. *)
(***************************************************************************)
EXTENDS Signatures, FiniteSetTheorems, TLAPS

Past(c) == call[c].at \in {"compare", "write", "commit"}

(* A created row's id is nobody else's and unused until its commit; an       *)
(* update has found its row, and only an overlapped one can have lost it.    *)
OwnRow(c) ==
    /\ call[c].kind = "delete" => call[c].at \notin Active
    /\ call[c].at = "unused" => call[c].id = None
    /\ call[c].at = "find" => call[c].kind = "update"
    /\ call[c].at = "count" => call[c].kind = "create"
    /\ call[c].at \in {"unused", "find", "count", "unset", "lock"} => call[c].unset = {}
    /\ call[c].kind = "create" /\ call[c].at \in {"write", "commit"} =>
         /\ call[c].id \in Ids
         /\ sig[call[c].id].is = "unused"
         /\ \A d \in Calls \ {c} : call[d].id # call[c].id
    /\ call[c].kind = "create" /\ call[c].at \in {"count", "unset", "lock", "compare"} =>
         call[c].id = None
    /\ call[c].kind = "update" /\ call[c].at \in Active =>
         call[c].id \in Ids /\ sig[call[c].id].is # "unused"
    /\ call[c].kind = "update" /\ call[c].at \in Active \ {"find"} /\ ~call[c].overlapped =>
         call[c].id \in Saved

Raced == \E c \in Calls : call[c].at = "done" /\ call[c].overlapped

(* What a transaction that was not overlapped knows of the defaults.         *)
Current(c) ==
    ~call[c].overlapped =>
      /\ call[c].at = "lock" => call[c].seen = Defaults
      /\ Past(c) /\ call[c].default /\ ~Raced => Defaults \ call[c].unset \subseteq {call[c].id}
      /\ call[c].kind = "update" /\ call[c].wish = "undefined" /\ call[c].at \in Active \ {"find"} =>
           /\ Past(c)
           /\ call[c].unset = {}
           /\ call[c].default = sig[call[c].id].default

UniqueDefault == Raced \/ \A i, j \in Defaults : i = j

SignaturesInv ==
    /\ SignaturesTypeOK
    /\ \A c \in Calls : OwnRow(c) /\ Current(c)
    /\ UniqueDefault

USE SignaturesAssumption DEF Active, Wishes

-----------------------------------------------------------------------------
LEMMA SetIsCall ==
  ASSUME SignaturesTypeOK, NEW c \in Calls, NEW r \in Call, Set(c, r), UNCHANGED <<sig, owner, campaign>>
  PROVE  SignaturesTypeOK'
  BY DEF SignaturesTypeOK, Set

LEMMA Fields ==
  ASSUME SignaturesTypeOK, NEW c \in Calls, NEW r, Set(c, r)
  PROVE  call'[c] = r /\ \A d \in Calls \ {c} : call'[d] = call[d]
  BY DEF SignaturesTypeOK, Set

(* What finding and comparing a row make of the call. *)
LEMMA FindEffect ==
  ASSUME SignaturesTypeOK, NEW c \in Calls, FindSignature(c)
  PROVE  /\ call[c].at = "find" /\ UNCHANGED sig
         /\ \A d \in Calls \ {c} : call'[d] = call[d]
         /\ call'[c].id = call[c].id /\ call'[c].unset = call[c].unset
         /\ call'[c].kind = call[c].kind /\ call'[c].wish = call[c].wish
         /\ \/ call'[c].at = "rejected"
            \/ /\ call[c].id \in Saved
               /\ call[c].wish = "yes" /\ call'[c].at = "unset"
            \/ /\ call[c].id \in Saved
               /\ call[c].wish # "yes" /\ call'[c].at = "compare"
               /\ call'[c].default = Assigned(call[c].wish, sig[call[c].id].default)
<1>. DEFINE i == call[c].id
            b == Assigned(call[c].wish, sig[i].default)
<1>. call[c] \in Call
  BY DEF SignaturesTypeOK
<1>0. call[c].at = "find" /\ UNCHANGED sig
  BY DEF FindSignature
<1>1. CASE ~Found(i)
  <2>1. Set(c, [call[c] EXCEPT !.at = "rejected"])
    BY <1>1 DEF FindSignature
  <2>. QED  BY <1>0, <2>1, Fields DEF Call
<1>2. CASE Found(i)
  <2>. DEFINE place == IF call[c].wish = "yes" THEN "unset" ELSE "compare"
  <2>1. Set(c, [call[c] EXCEPT !.default = b, !.at = place])
    BY <1>2 DEF FindSignature
  <2>2. place = IF call[c].wish = "yes" THEN "unset" ELSE "compare"
    OBVIOUS
  <2>. HIDE DEF b, place
  <2>3. /\ call'[c] = [call[c] EXCEPT !.default = b, !.at = place]
        /\ \A d \in Calls \ {c} : call'[d] = call[d]
    BY <2>1, Fields
  <2>4. /\ call'[c].default = b /\ call'[c].at = place
        /\ call'[c].id = call[c].id /\ call'[c].unset = call[c].unset
        /\ call'[c].kind = call[c].kind /\ call'[c].wish = call[c].wish
    BY <2>3 DEF Call
  <2>5. call[c].id \in Saved
    BY <1>2 DEF Found
  <2>. QED  BY <1>0, <2>2, <2>3, <2>4, <2>5 DEF b
<1>. QED  BY <1>1, <1>2

LEMMA CompareEffect ==
  ASSUME SignaturesTypeOK, NEW c \in Calls, CompareRow(c)
  PROVE  /\ call[c].at = "compare" /\ UNCHANGED sig
         /\ \A d \in Calls \ {c} : call'[d] = call[d]
         /\ call'[c].at = "write" /\ call'[c].unset = call[c].unset
         /\ call'[c].kind = call[c].kind /\ call'[c].wish = call[c].wish
         /\ call'[c].overlapped = call[c].overlapped /\ call'[c].default = call[c].default
         /\ IF call[c].kind = "create"
            THEN /\ call'[c].id \in Ids /\ sig[call'[c].id].is = "unused"
                 /\ \A d \in Calls : call[d].id # call'[c].id
            ELSE call'[c].id = call[c].id
<1>. call[c] \in Call
  BY DEF SignaturesTypeOK
<1>0. call[c].at = "compare" /\ UNCHANGED sig
  BY DEF CompareRow
<1>1. CASE call[c].kind = "create"
  <2>1. PICK i \in Ids : /\ sig[i].is = "unused" /\ \A d \in Calls : call[d].id # i
                         /\ Set(c, [call[c] EXCEPT !.id = i, !.writes = "row", !.at = "write"])
    BY <1>1 DEF CompareRow
  <2>2. call'[c] = [call[c] EXCEPT !.id = i, !.writes = "row", !.at = "write"]
        /\ \A d \in Calls \ {c} : call'[d] = call[d]
    BY <2>1, Fields
  <2>. QED  BY <1>0, <1>1, <2>1, <2>2 DEF Call
<1>2. CASE call[c].kind # "create"
  <2>. DEFINE w == IF call[c].id \notin Saved THEN "row"
                   ELSE IF Visible(c) # call[c].default THEN "default" ELSE "name"
  <2>1. Set(c, [call[c] EXCEPT !.at = "write", !.writes = w])
    BY <1>2 DEF CompareRow
  <2>. HIDE DEF w
  <2>2. call'[c] = [call[c] EXCEPT !.at = "write", !.writes = w]
        /\ \A d \in Calls \ {c} : call'[d] = call[d]
    BY <2>1, Fields
  <2>. QED  BY <1>0, <1>2, <2>2 DEF Call
<1>. QED  BY <1>1, <1>2

LEMMA Overlapping ==
  ASSUME SignaturesTypeOK, NEW c \in Calls, NEW k \in Calls, call' = Overlap(c, "done")
  PROVE  /\ call'[k].at \in Active => call'[k].overlapped
         /\ call'[k].kind = call[k].kind /\ call'[k].id = call[k].id
         /\ call'[k].unset = call[k].unset
         /\ call'[k].at \in {call[k].at, "done"}
         /\ call'[c].at = "done" /\ call'[c].overlapped = call[c].overlapped
<1>1. call[k] \in Call /\ call[c] \in Call
  BY DEF SignaturesTypeOK
<1>. QED  BY <1>1 DEF Overlap, Call

LEMMA OverlapIsCall ==
  ASSUME SignaturesTypeOK, NEW c \in Calls
  PROVE  Overlap(c, "done") \in [Calls -> Call]
<1>1. \A d \in Calls : call[d] \in Call
  BY DEF SignaturesTypeOK
<1>2. \A d \in Calls : /\ [call[d] EXCEPT !.at = "done"] \in Call
                      /\ \A b \in BOOLEAN : [call[d] EXCEPT !.overlapped = b] \in Call
  BY <1>1 DEF Call
<1>3. \A d \in Calls : (call[d].overlapped \/ call[d].at \in Active) \in BOOLEAN
  OBVIOUS
<1>. QED  BY <1>2, <1>3 DEF Overlap

LEMMA TypeStep ==
  ASSUME SignaturesTypeOK, [Next]_vars
  PROVE  SignaturesTypeOK'
<1>. USE DEF Active
<1>1. ASSUME NEW a \in Attachments, StoreFile(a) PROVE SignaturesTypeOK'
  BY <1>1 DEF StoreFile, SignaturesTypeOK
<1>2. ASSUME NEW a \in Attachments, SaveAttachment(a) PROVE SignaturesTypeOK'
  BY <1>2 DEF SaveAttachment, SignaturesTypeOK
<1>3. ASSUME NEW c \in Calls, NEW wish \in Wishes, NEW files \in SUBSET Attachments, BeginCreate(c, wish, files) PROVE SignaturesTypeOK'
  <2>. call[c] \in Call
    BY DEF SignaturesTypeOK
  <2>1. [call[c] EXCEPT !.kind = "create", !.wish = wish, !.files = files, !.default = wish = "yes",
                         !.at = IF wish = "yes" THEN "unset" ELSE "count"] \in Call
    BY <1>3 DEF BeginCreate, Call, SignaturesTypeOK, Sig
  <2>. QED  BY <1>3, <2>1, SetIsCall DEF BeginCreate
<1>4. ASSUME NEW c \in Calls, NEW wish \in Wishes, NEW i \in Ids, BeginUpdate(c, i, wish) PROVE SignaturesTypeOK'
  <2>. call[c] \in Call
    BY DEF SignaturesTypeOK
  <2>1. [call[c] EXCEPT !.kind = "update", !.id = i, !.wish = wish, !.at = "find"] \in Call
    BY <1>4 DEF BeginUpdate, Call, SignaturesTypeOK, Sig
  <2>. QED  BY <1>4, <2>1, SetIsCall DEF BeginUpdate
<1>5. ASSUME NEW c \in Calls, NEW i \in Ids, BeginDelete(c, i) PROVE SignaturesTypeOK'
  <2>. call[c] \in Call
    BY DEF SignaturesTypeOK
  <2>1. [call[c] EXCEPT !.kind = "delete", !.id = i, !.at = "delete"] \in Call
    BY <1>5 DEF BeginDelete, Call, SignaturesTypeOK, Sig
  <2>. QED  BY <1>5, <2>1, SetIsCall DEF BeginDelete
<1>6. ASSUME NEW c \in Calls, CountDefaults(c) PROVE SignaturesTypeOK'
  <2>. call[c] \in Call
    BY DEF SignaturesTypeOK
  <2>1. [call[c] EXCEPT !.default = Defaults = {}, !.at = "compare"] \in Call
    BY <1>6 DEF CountDefaults, Call, SignaturesTypeOK, Sig
  <2>. QED  BY <1>6, <2>1, SetIsCall DEF CountDefaults
<1>7. ASSUME NEW c \in Calls, FindSignature(c) PROVE SignaturesTypeOK'
  <2>. call[c] \in Call
    BY DEF SignaturesTypeOK
  <2>1. CASE Found(call[c].id)
    <3>1. call[c].id \in Ids
      BY <2>1 DEF Found, Saved
    <3>2. Assigned(call[c].wish, sig[call[c].id].default) \in BOOLEAN
      BY <3>1 DEF Assigned, SignaturesTypeOK, Sig
    <3>3. \A b \in BOOLEAN, p \in {"unset", "compare"} : [call[c] EXCEPT !.default = b, !.at = p] \in Call
      BY DEF Call
    <3>. DEFINE b == Assigned(call[c].wish, sig[call[c].id].default)
                p == IF call[c].wish = "yes" THEN "unset" ELSE "compare"
    <3>4. [call[c] EXCEPT !.default = b, !.at = p] \in Call
      <4>. HIDE DEF b
      <4>. QED  BY <3>2, <3>3 DEF b
    <3>5. Set(c, [call[c] EXCEPT !.default = b, !.at = p]) /\ UNCHANGED <<sig, owner, campaign>>
      BY <1>7, <2>1 DEF FindSignature
    <3>. HIDE DEF b, p
    <3>. QED  BY <3>4, <3>5, SetIsCall
  <2>2. CASE ~Found(call[c].id)
    <3>1. [call[c] EXCEPT !.at = "rejected"] \in Call
      BY DEF Call
    <3>. QED  BY <1>7, <2>2, <3>1, SetIsCall DEF FindSignature
  <2>. QED  BY <2>1, <2>2
<1>8. ASSUME NEW c \in Calls, UnsetBegins(c) PROVE SignaturesTypeOK'
  <2>. call[c] \in Call
    BY DEF SignaturesTypeOK
  <2>1. [call[c] EXCEPT !.seen = ToUnset, !.at = "lock"] \in Call
    BY <1>8 DEF UnsetBegins, Call, SignaturesTypeOK, Sig, ToUnset, Defaults, Saved
  <2>. QED  BY <1>8, <2>1, SetIsCall DEF UnsetBegins
<1>9. ASSUME NEW c \in Calls, UnsetDefaults(c) PROVE SignaturesTypeOK'
  <2>. call[c] \in Call
    BY DEF SignaturesTypeOK
  <2>1. [call[c] EXCEPT !.unset = call[c].seen \cap Defaults, !.at = "compare"] \in Call
    BY <1>9 DEF UnsetDefaults, Call, SignaturesTypeOK, Sig
  <2>. QED  BY <1>9, <2>1, SetIsCall DEF UnsetDefaults
<1>10. ASSUME NEW c \in Calls, CompareRow(c) PROVE SignaturesTypeOK'
  <2>. call[c] \in Call
    BY DEF SignaturesTypeOK
  <2>1. \A i \in Ids, w \in {"row"} : [call[c] EXCEPT !.id = i, !.writes = w, !.at = "write"] \in Call
    BY DEF Call
  <2>2. \A w \in {"row", "default", "name"} : [call[c] EXCEPT !.at = "write", !.writes = w] \in Call
    BY DEF Call
  <2>3. CASE call[c].kind = "create"
    BY <1>10, <2>1, <2>3, SetIsCall DEF CompareRow
  <2>4. CASE call[c].kind # "create"
    <3>. DEFINE w == IF call[c].id \notin Saved THEN "row"
                     ELSE IF Visible(c) # call[c].default THEN "default" ELSE "name"
    <3>1. Set(c, [call[c] EXCEPT !.at = "write", !.writes = w]) /\ UNCHANGED <<sig, owner, campaign>>
      BY <1>10, <2>4 DEF CompareRow
    <3>2. w \in {"row", "default", "name"}
      OBVIOUS
    <3>. HIDE DEF w
    <3>. QED  BY <2>2, <3>1, <3>2, SetIsCall
  <2>. QED  BY <2>3, <2>4
<1>11. ASSUME NEW c \in Calls, WriteRow(c) PROVE SignaturesTypeOK'
  <2>. call[c] \in Call
    BY DEF SignaturesTypeOK
  <2>. DEFINE p == IF call[c].writes = "row" /\ call[c].id \in Saved THEN "rejected" ELSE "commit"
              w == IF call[c].writes # "row" /\ call[c].id \notin Saved THEN "nothing" ELSE call[c].writes
  <2>1. Set(c, [call[c] EXCEPT !.at = p, !.writes = w]) /\ UNCHANGED <<sig, owner, campaign>>
    BY <1>11 DEF WriteRow
  <2>2. p \in {"rejected", "commit"} /\ w \in {"nothing", "name", "default", "row"}
    BY DEF Call
  <2>. HIDE DEF p, w
  <2>3. [call[c] EXCEPT !.at = p, !.writes = w] \in Call
    <3>1. ASSUME NEW old \in Call, NEW place \in {"rejected", "commit"},
                 NEW writes \in {"nothing", "name", "default", "row"}
          PROVE  [old EXCEPT !.at = place, !.writes = writes] \in Call
      BY DEF Call
    <3>. QED  BY <2>2, <3>1
  <2>. QED  BY <2>1, <2>3, SetIsCall
<1>12. ASSUME NEW c \in Calls, Commit(c) PROVE SignaturesTypeOK'
  <2>1. call' \in [Calls -> Call] /\ campaign' = campaign
    BY <1>12, OverlapIsCall DEF Commit
  <2>2. call[c].id \in Ids \cup {None} /\ call[c].default \in BOOLEAN
    BY DEF SignaturesTypeOK, Call
  <2>3. owner' \in [Attachments -> Ids \cup {"absent", "stored", "orphan", None}]
    BY <1>12, <2>2 DEF Commit, SignaturesTypeOK
  <2>4. \A i \in Ids : Committed(c, i) \in Sig
    <3>. SUFFICES ASSUME NEW i \in Ids PROVE Committed(c, i) \in Sig
      OBVIOUS
    <3>1. sig[i] \in Sig
      BY DEF SignaturesTypeOK
    <3>3. [sig[i] EXCEPT !.default = FALSE] \in Sig
      BY <3>1 DEF Sig
    <3>2. [is |-> "saved", default |-> call[c].default] \in Sig
      BY <2>2 DEF Sig
    <3>. QED  BY <3>1, <3>2, <3>3 DEF Committed
  <2>5. sig' \in [Ids -> Sig]
    BY <1>12, <2>4 DEF Commit
  <2>. QED  BY <2>1, <2>3, <2>5 DEF SignaturesTypeOK
<1>13. ASSUME NEW c \in Calls, DeleteSignature(c) PROVE SignaturesTypeOK'
  <2>1. CASE call[c].id \in Saved
    <3>1. call' \in [Calls -> Call]
      BY <1>13, <2>1, OverlapIsCall DEF DeleteSignature
    <3>2. sig' \in [Ids -> Sig]
      <4>1. [is |-> "deleted", default |-> FALSE] \in Sig
        BY DEF Sig
      <4>2. sig' = [sig EXCEPT ![call[c].id] = [is |-> "deleted", default |-> FALSE]]
        BY <1>13, <2>1 DEF DeleteSignature
      <4>. QED  BY <4>1, <4>2 DEF SignaturesTypeOK
    <3>3. /\ owner' \in [Attachments -> Ids \cup {"absent", "stored", "orphan", None}]
          /\ campaign' \in [Campaigns -> Ids \cup {None, Gone}]
      BY <1>13, <2>1 DEF DeleteSignature, SignaturesTypeOK
    <3>. QED  BY <3>1, <3>2, <3>3 DEF SignaturesTypeOK
  <2>2. CASE call[c].id \notin Saved
    <3>1. [call[c] EXCEPT !.at = "rejected"] \in Call
      BY DEF Call, SignaturesTypeOK
    <3>. QED  BY <1>13, <2>2, <3>1, SetIsCall DEF DeleteSignature
  <2>. QED  BY <2>1, <2>2
<1>14. ASSUME NEW c \in Calls, Abort(c) PROVE SignaturesTypeOK'
  <2>. call[c] \in Call
    BY DEF SignaturesTypeOK
  <2>1. [call[c] EXCEPT !.at = "rejected"] \in Call
    BY <1>14 DEF Abort, Call, SignaturesTypeOK, Sig
  <2>. QED  BY <1>14, <2>1, SetIsCall DEF Abort
<1>15. ASSUME NEW c \in Calls, AttachFails(c) PROVE SignaturesTypeOK'
  <2>1. \A d \in Calls : [call[d] EXCEPT !.at = "rejected"] \in Call
    BY DEF SignaturesTypeOK, Call
  <2>. QED  BY <1>15, <2>1 DEF AttachFails, SignaturesTypeOK
<1>16. CASE UNCHANGED vars
  BY <1>16 DEF vars, SignaturesTypeOK
<1>. QED
  BY <1>1, <1>2, <1>3, <1>4, <1>5, <1>6, <1>7, <1>8, <1>9, <1>10, <1>11, <1>12, <1>13, <1>14, <1>15, <1>16 DEF Next, CallStep

LEMMA OwnRowStep ==
  ASSUME SignaturesTypeOK, \A d \in Calls : OwnRow(d), NEW k \in Calls, [Next]_vars
  PROVE  OwnRow(k)'
<1>. USE DEF SignaturesTypeOK, Sig, Call, OwnRow, Saved
<1>1. ASSUME NEW a \in Attachments, StoreFile(a) PROVE OwnRow(k)'
  BY <1>1 DEF StoreFile
<1>2. ASSUME NEW a \in Attachments, SaveAttachment(a) PROVE OwnRow(k)'
  BY <1>2 DEF SaveAttachment
<1>3. ASSUME NEW c \in Calls, NEW wish \in Wishes, NEW files \in SUBSET Attachments, BeginCreate(c, wish, files) PROVE OwnRow(k)'
  <2>1. UNCHANGED sig /\ call[c].at = "unused"
    BY <1>3 DEF BeginCreate
  <2>2. \A d \in Calls \ {c} : call'[d] = call[d]
    BY <1>3 DEF BeginCreate, Set
  <2>3. /\ call'[c].kind = "create" /\ call'[c].at \in {"unset", "count"}
        /\ call'[c].id = call[c].id /\ call'[c].unset = call[c].unset
    BY <1>3 DEF BeginCreate, Set
  <2>. QED  BY <2>1, <2>2, <2>3
<1>4. ASSUME NEW c \in Calls, NEW wish \in Wishes, NEW i \in Ids, BeginUpdate(c, i, wish) PROVE OwnRow(k)'
  BY <1>4 DEF BeginUpdate, Set
<1>5. ASSUME NEW c \in Calls, NEW i \in Ids, BeginDelete(c, i) PROVE OwnRow(k)'
  BY <1>5 DEF BeginDelete, Set
<1>6. ASSUME NEW c \in Calls, CountDefaults(c) PROVE OwnRow(k)'
  BY <1>6 DEF CountDefaults, Set
<1>7. ASSUME NEW c \in Calls, FindSignature(c) PROVE OwnRow(k)'
  <2>1. \A d \in Calls : call'[d].id = call[d].id
    BY <1>7, FindEffect
  <2>2. CASE k # c
    <3>1. call'[k] = call[k] /\ UNCHANGED sig
      BY <1>7, <2>2, FindEffect
    <3>. QED  BY <2>1, <3>1
  <2>3. CASE k = c
    <3>1. /\ call'[k].kind = call[k].kind /\ call'[k].unset = call[k].unset /\ UNCHANGED sig
          /\ \/ call'[k].at = "rejected"
             \/ call'[k].at \in {"unset", "compare"} /\ call[k].id \in Saved
      BY <1>7, <2>3, FindEffect
    <3>2. call[k].at = "find"
      BY <1>7, <2>3, FindEffect
    <3>3. call[k].unset = {} /\ call[k].kind = "update"
      BY <3>2
    <3>. QED  BY <2>1, <3>1, <3>2, <3>3
  <2>. QED  BY <2>2, <2>3
<1>8. ASSUME NEW c \in Calls, UnsetBegins(c) PROVE OwnRow(k)'
  BY <1>8 DEF UnsetBegins, ToUnset, Set
<1>9. ASSUME NEW c \in Calls, UnsetDefaults(c) PROVE OwnRow(k)'
  BY <1>9 DEF UnsetDefaults, Set
<1>10. ASSUME NEW c \in Calls, CompareRow(c) PROVE OwnRow(k)'
  <2>1. CASE k # c
    <3>1. call'[k] = call[k] /\ UNCHANGED sig
      BY <1>10, <2>1, CompareEffect
    <3>2. \A d \in Calls \ {k} : call'[d].id = call[d].id \/ call'[d].id # call[k].id
      BY <1>10, <2>1, CompareEffect
    <3>. QED  BY <3>1, <3>2
  <2>2. CASE k = c
    <3>1. /\ call[k].at = "compare" /\ call'[k].at = "write" /\ UNCHANGED sig
          /\ call'[k].kind = call[k].kind /\ call'[k].overlapped = call[k].overlapped
          /\ \A d \in Calls \ {k} : call'[d].id = call[d].id
      BY <1>10, <2>2, CompareEffect
    <3>2. call[k].kind = "create" =>
            /\ call'[k].id \in Ids /\ sig[call'[k].id].is = "unused"
            /\ \A d \in Calls : call[d].id # call'[k].id
      BY <1>10, <2>2, CompareEffect
    <3>3. call[k].kind # "create" => call'[k].id = call[k].id
      BY <1>10, <2>2, CompareEffect
    <3>. QED  BY <3>1, <3>2, <3>3
  <2>. QED  BY <2>1, <2>2
<1>11. ASSUME NEW c \in Calls, WriteRow(c) PROVE OwnRow(k)'
  BY <1>11 DEF WriteRow, Set
<1>12. ASSUME NEW c \in Calls, Commit(c) PROVE OwnRow(k)'
  BY <1>12 DEF Commit, Committed, Overlap
<1>13. ASSUME NEW c \in Calls, DeleteSignature(c) PROVE OwnRow(k)'
  <2>1. CASE call[c].id \in Saved
    <3>1. \A d \in Calls : /\ call'[d].kind = call[d].kind /\ call'[d].id = call[d].id
                           /\ call'[d].unset = call[d].unset
                           /\ call'[d].at \in {call[d].at, "done"}
                           /\ call'[d].at \in Active => call'[d].overlapped
      <4>1. call' = Overlap(c, "done")
        BY <1>13, <2>1 DEF DeleteSignature
      <4>. QED  BY <4>1, Overlapping
    <3>2. \A i \in Ids : sig'[i].is = IF i = call[c].id THEN "deleted" ELSE sig[i].is
      BY <1>13, <2>1 DEF DeleteSignature
    <3>. QED  BY <2>1, <3>1, <3>2
  <2>2. CASE call[c].id \notin Saved
    <3>1. UNCHANGED sig /\ Set(c, [call[c] EXCEPT !.at = "rejected"]) /\ call[c].at = "delete"
      BY <1>13, <2>2 DEF DeleteSignature
    <3>2. /\ \A d \in Calls \ {c} : call'[d] = call[d]
          /\ call'[c].id = call[c].id /\ call'[c].at = "rejected"
      BY <3>1, Fields
    <3>. QED  BY <3>1, <3>2
  <2>. QED  BY <2>1, <2>2
<1>14. ASSUME NEW c \in Calls, Abort(c) PROVE OwnRow(k)'
  BY <1>14 DEF Abort, Set
<1>15. ASSUME NEW c \in Calls, AttachFails(c) PROVE OwnRow(k)'
  BY <1>15 DEF AttachFails
<1>16. CASE UNCHANGED vars
  BY <1>16 DEF vars
<1>. HIDE DEF SignaturesTypeOK, OwnRow, Sig, Call, Saved
<1>. QED
  BY <1>1, <1>2, <1>3, <1>4, <1>5, <1>6, <1>7, <1>8, <1>9, <1>10, <1>11, <1>12, <1>13, <1>14, <1>15, <1>16 DEF Next, CallStep

LEMMA RacedStays ==
  ASSUME SignaturesTypeOK, Raced, [Next]_vars
  PROVE  Raced'
<1>1000. PICK k \in Calls : call[k].at = "done" /\ call[k].overlapped
  BY DEF Raced
<1>. SUFFICES call'[k].at = "done" /\ call'[k].overlapped
  BY DEF Raced
<1>. call[k] \in Call /\ DOMAIN call = Calls
  BY DEF SignaturesTypeOK
<1>. USE <1>1000 DEF Call
<1>1. ASSUME NEW a \in Attachments, StoreFile(a) PROVE call'[k].at = "done" /\ call'[k].overlapped
  BY <1>1 DEF StoreFile
<1>2. ASSUME NEW a \in Attachments, SaveAttachment(a) PROVE call'[k].at = "done" /\ call'[k].overlapped
  BY <1>2 DEF SaveAttachment
<1>3. ASSUME NEW c \in Calls, NEW wish \in Wishes, NEW files \in SUBSET Attachments, BeginCreate(c, wish, files) PROVE call'[k].at = "done" /\ call'[k].overlapped
  BY <1>3 DEF BeginCreate, Set
<1>4. ASSUME NEW c \in Calls, NEW wish \in Wishes, NEW i \in Ids, BeginUpdate(c, i, wish) PROVE call'[k].at = "done" /\ call'[k].overlapped
  BY <1>4 DEF BeginUpdate, Set
<1>5. ASSUME NEW c \in Calls, NEW i \in Ids, BeginDelete(c, i) PROVE call'[k].at = "done" /\ call'[k].overlapped
  BY <1>5 DEF BeginDelete, Set
<1>6. ASSUME NEW c \in Calls, CountDefaults(c) PROVE call'[k].at = "done" /\ call'[k].overlapped
  BY <1>6 DEF CountDefaults, Set
<1>7. ASSUME NEW c \in Calls, FindSignature(c) PROVE call'[k].at = "done" /\ call'[k].overlapped
  BY <1>7 DEF FindSignature, Found, Assigned, Set
<1>8. ASSUME NEW c \in Calls, UnsetBegins(c) PROVE call'[k].at = "done" /\ call'[k].overlapped
  BY <1>8 DEF UnsetBegins, ToUnset, Set
<1>9. ASSUME NEW c \in Calls, UnsetDefaults(c) PROVE call'[k].at = "done" /\ call'[k].overlapped
  BY <1>9 DEF UnsetDefaults, Set
<1>10. ASSUME NEW c \in Calls, CompareRow(c) PROVE call'[k].at = "done" /\ call'[k].overlapped
  BY <1>10 DEF CompareRow, Visible, Set
<1>11. ASSUME NEW c \in Calls, WriteRow(c) PROVE call'[k].at = "done" /\ call'[k].overlapped
  BY <1>11 DEF WriteRow, Set
<1>12. ASSUME NEW c \in Calls, Commit(c) PROVE call'[k].at = "done" /\ call'[k].overlapped
  BY <1>12 DEF Commit, Committed, Overlap
<1>13. ASSUME NEW c \in Calls, DeleteSignature(c) PROVE call'[k].at = "done" /\ call'[k].overlapped
  <2>1. CASE call[c].id \in Saved
    BY <1>13, <2>1 DEF DeleteSignature, Overlap
  <2>2. CASE call[c].id \notin Saved
    BY <1>13, <2>2 DEF DeleteSignature, Set
  <2>. QED  BY <2>1, <2>2
<1>14. ASSUME NEW c \in Calls, Abort(c) PROVE call'[k].at = "done" /\ call'[k].overlapped
  BY <1>14 DEF Abort, Set
<1>15. ASSUME NEW c \in Calls, AttachFails(c) PROVE call'[k].at = "done" /\ call'[k].overlapped
  BY <1>15 DEF AttachFails
<1>16. CASE UNCHANGED vars
  BY <1>16 DEF vars
<1>. HIDE DEF Call
<1>. QED
  BY <1>1, <1>2, <1>3, <1>4, <1>5, <1>6, <1>7, <1>8, <1>9, <1>10, <1>11, <1>12, <1>13, <1>14, <1>15, <1>16 DEF Next, CallStep

LEMMA OtherCurrent ==
  ASSUME NEW k \in Calls, Current(k), UNCHANGED sig, call'[k] = call[k], Raced => Raced'
  PROVE  Current(k)'
<1>1. Defaults' = Defaults
  BY DEF Defaults, Saved
<1>. QED  BY <1>1 DEF Current, Past

(* A call whose next place is before its snapshot or after its commit knows   *)
(* nothing.                                                                  *)
LEMMA IdleCurrent ==
  ASSUME NEW k \in Calls,
         \/ call'[k].at \in {"unused", "find", "delete", "done", "rejected"}
         \/ call'[k].at = "count" /\ call'[k].kind = "create"
         \/ call'[k].at = "unset" /\ ~(call'[k].kind = "update" /\ call'[k].wish = "undefined")
         \/ call'[k].overlapped
  PROVE  Current(k)'
<1>1. CASE call'[k].at \in {"unused", "find", "delete", "done", "rejected"}
  BY <1>1 DEF Current, Past
<1>4. CASE call'[k].at = "count" /\ call'[k].kind = "create"
  BY <1>4 DEF Current, Past
<1>2. CASE call'[k].at = "unset" /\ ~(call'[k].kind = "update" /\ call'[k].wish = "undefined")
  BY <1>2 DEF Current, Past
<1>3. CASE call'[k].overlapped
  BY <1>3 DEF Current
<1>. QED  BY <1>1, <1>2, <1>3, <1>4

LEMMA CurrentStep ==
  ASSUME SignaturesTypeOK, UniqueDefault, \A d \in Calls : OwnRow(d) /\ Current(d), NEW k \in Calls,
         [Next]_vars
  PROVE  Current(k)'
<1>. Current(k) /\ (Raced => Raced')
  BY RacedStays
<1>1. ASSUME NEW a \in Attachments, StoreFile(a) PROVE Current(k)'
  BY <1>1, OtherCurrent DEF StoreFile
<1>2. ASSUME NEW a \in Attachments, SaveAttachment(a) PROVE Current(k)'
  BY <1>2, OtherCurrent DEF SaveAttachment
<1>3. ASSUME NEW c \in Calls, NEW wish \in Wishes, NEW files \in SUBSET Attachments, BeginCreate(c, wish, files) PROVE Current(k)'
  <2>1. CASE k # c
    BY <1>3, <2>1, Fields, OtherCurrent DEF BeginCreate
  <2>2. CASE k = c
    <3>. call[c] \in Call /\ DOMAIN call = Calls /\ Current(c) /\ OwnRow(c)
      BY DEF SignaturesTypeOK
    <3>1. call'[c].at \in {"unset", "count"} /\ call'[c].kind = "create"
      BY <1>3 DEF BeginCreate, Call, Set
    <3>. QED  BY <2>2, <3>1, IdleCurrent
  <2>. QED  BY <2>1, <2>2
<1>4. ASSUME NEW c \in Calls, NEW wish \in Wishes, NEW i \in Ids, BeginUpdate(c, i, wish) PROVE Current(k)'
  <2>1. CASE k # c
    BY <1>4, <2>1, Fields, OtherCurrent DEF BeginUpdate
  <2>2. CASE k = c
    <3>. call[c] \in Call /\ DOMAIN call = Calls /\ Current(c) /\ OwnRow(c)
      BY DEF SignaturesTypeOK
    <3>1. call'[c].at = "find"
      BY <1>4 DEF BeginUpdate, Call, Set
    <3>. QED  BY <2>2, <3>1, IdleCurrent
  <2>. QED  BY <2>1, <2>2
<1>5. ASSUME NEW c \in Calls, NEW i \in Ids, BeginDelete(c, i) PROVE Current(k)'
  <2>1. CASE k # c
    BY <1>5, <2>1, Fields, OtherCurrent DEF BeginDelete
  <2>2. CASE k = c
    <3>. call[c] \in Call /\ DOMAIN call = Calls /\ Current(c) /\ OwnRow(c)
      BY DEF SignaturesTypeOK
    <3>1. call'[c].at = "delete"
      BY <1>5 DEF BeginDelete, Call, Set
    <3>. QED  BY <2>2, <3>1, IdleCurrent
  <2>. QED  BY <2>1, <2>2
<1>6. ASSUME NEW c \in Calls, CountDefaults(c) PROVE Current(k)'
  <2>1. CASE k # c
    BY <1>6, <2>1, Fields, OtherCurrent DEF CountDefaults
  <2>2. CASE k = c
    <3>. call[c] \in Call /\ DOMAIN call = Calls /\ OwnRow(c)
      BY DEF SignaturesTypeOK
    <3>1. call'[c].at = "compare" /\ call'[c].kind = "create" /\ call'[c].default = (Defaults = {})
      BY <1>6 DEF CountDefaults, Call, Set, OwnRow
    <3>2. Defaults' = Defaults
      BY <1>6 DEF CountDefaults, Defaults, Saved
    <3>. QED  BY <2>2, <3>1, <3>2 DEF Current, Past
  <2>. QED  BY <2>1, <2>2
<1>7. ASSUME NEW c \in Calls, FindSignature(c) PROVE Current(k)'
  <2>1. CASE k # c
    BY <1>7, <2>1, Fields, OtherCurrent DEF FindSignature
  <2>2. CASE k = c
    <3>. call[c] \in Call /\ DOMAIN call = Calls /\ OwnRow(c)
      BY DEF SignaturesTypeOK
    <3>. DEFINE i == call[c].id
    <3>1. CASE call'[c].at = "rejected" \/ (call'[c].at = "unset" /\ call'[c].wish # "undefined")
      BY <2>2, <3>1, IdleCurrent
    <3>2. CASE i \in Saved /\ call[c].wish # "yes" /\ call'[c].at = "compare"
      <4>1. /\ call'[c].id = i /\ call'[c].unset = call[c].unset
            /\ call'[c].default = Assigned(call[c].wish, sig[i].default)
            /\ call'[c].wish = call[c].wish
        BY <1>7, <3>2, FindEffect
      <4>2. call[c].unset = {}
        BY <1>7 DEF FindSignature, OwnRow
      <4>3. call'[c].default => call'[c].wish = "undefined" /\ i \in Defaults
        BY <3>2, <4>1 DEF Assigned, Defaults
      <4>4. UNCHANGED sig /\ Defaults' = Defaults
        BY <1>7 DEF FindSignature, Defaults, Saved
      <4>5. call'[c].default /\ ~Raced' => Defaults \subseteq {i}
        BY <4>3 DEF UniqueDefault
      <4>6. call'[c].wish = "undefined" => call'[c].default = sig[i].default
        BY <4>1 DEF Assigned
      <4>. QED  BY <2>2, <3>2, <4>1, <4>2, <4>4, <4>5, <4>6 DEF Current, Past
    <3>. QED  BY <1>7, <3>1, <3>2, FindEffect
  <2>. QED  BY <2>1, <2>2
<1>8. ASSUME NEW c \in Calls, UnsetBegins(c) PROVE Current(k)'
  <2>1. CASE k # c
    BY <1>8, <2>1, Fields, OtherCurrent DEF UnsetBegins
  <2>2. CASE k = c
    <3>. call[c] \in Call /\ DOMAIN call = Calls /\ Current(c)
      BY DEF SignaturesTypeOK
    <3>1. /\ call'[c].at = "lock" /\ call'[c].seen = Defaults
          /\ call'[c].kind = call[c].kind /\ call'[c].wish = call[c].wish
          /\ call'[c].overlapped = call[c].overlapped
      BY <1>8 DEF UnsetBegins, ToUnset, Call, Set
    <3>2. Defaults' = Defaults /\ call[c].at = "unset"
      BY <1>8 DEF UnsetBegins, Defaults, Saved
    <3>. QED  BY <2>2, <3>1, <3>2 DEF Current, Past
  <2>. QED  BY <2>1, <2>2
<1>9. ASSUME NEW c \in Calls, UnsetDefaults(c) PROVE Current(k)'
  <2>1. CASE k # c
    BY <1>9, <2>1, Fields, OtherCurrent DEF UnsetDefaults
  <2>2. CASE k = c
    <3>. call[c] \in Call /\ DOMAIN call = Calls /\ Current(c)
      BY DEF SignaturesTypeOK
    <3>1. /\ call'[c].at = "compare" /\ call'[c].unset = call[c].seen \cap Defaults
          /\ call'[c].kind = call[c].kind /\ call'[c].wish = call[c].wish
          /\ call'[c].overlapped = call[c].overlapped
      BY <1>9 DEF UnsetDefaults, Call, Set
    <3>2. Defaults' = Defaults /\ call[c].at = "lock"
      BY <1>9 DEF UnsetDefaults, Defaults, Saved
    <3>. QED  BY <2>2, <3>1, <3>2 DEF Current, Past
  <2>. QED  BY <2>1, <2>2
<1>10. ASSUME NEW c \in Calls, CompareRow(c) PROVE Current(k)'
  <2>1. CASE k # c
    BY <1>10, <2>1, Fields, OtherCurrent DEF CompareRow
  <2>2. CASE k = c
    <3>. call[c] \in Call /\ DOMAIN call = Calls /\ Current(c) /\ OwnRow(c)
      BY DEF SignaturesTypeOK
    <3>1. /\ call'[c].at = "write" /\ call'[c].unset = call[c].unset
          /\ call'[c].kind = call[c].kind /\ call'[c].wish = call[c].wish
          /\ call'[c].overlapped = call[c].overlapped /\ call'[c].default = call[c].default
          /\ call[c].kind # "create" => call'[c].id = call[c].id
      BY <1>10, CompareEffect
    <3>2. Defaults' = Defaults /\ UNCHANGED sig /\ call[c].at = "compare"
      BY <1>10 DEF CompareRow, Defaults, Saved
    <3>3. call[c].kind = "create" => call[c].id = None
      BY <3>2 DEF OwnRow
    <3>4. None \notin Defaults
      BY DEF Defaults, Saved
    <3>. QED  BY <2>2, <3>1, <3>2, <3>3, <3>4 DEF Current, Past
  <2>. QED  BY <2>1, <2>2
<1>11. ASSUME NEW c \in Calls, WriteRow(c) PROVE Current(k)'
  <2>1. CASE k # c
    BY <1>11, <2>1, Fields, OtherCurrent DEF WriteRow
  <2>2. CASE k = c
    <3>. call[c] \in Call /\ DOMAIN call = Calls /\ Current(c)
      BY DEF SignaturesTypeOK
    <3>1. /\ call'[c].at \in {"rejected", "commit"} /\ call'[c].unset = call[c].unset
          /\ call'[c].kind = call[c].kind /\ call'[c].wish = call[c].wish
          /\ call'[c].overlapped = call[c].overlapped /\ call'[c].default = call[c].default
          /\ call'[c].id = call[c].id
      BY <1>11 DEF WriteRow, Call, Set
    <3>2. Defaults' = Defaults /\ UNCHANGED sig /\ call[c].at = "write"
      BY <1>11 DEF WriteRow, Defaults, Saved
    <3>. QED  BY <2>2, <3>1, <3>2 DEF Current, Past
  <2>. QED  BY <2>1, <2>2
<1>12. ASSUME NEW c \in Calls, Commit(c) PROVE Current(k)'
  <2>1. call'[k].at \in Active => call'[k].overlapped
    BY <1>12, Overlapping DEF Commit
  <2>. QED  BY <2>1 DEF Current, Past
<1>13. ASSUME NEW c \in Calls, DeleteSignature(c) PROVE Current(k)'
  <2>1. CASE call[c].id \in Saved
    <3>1. call'[k].at \in Active => call'[k].overlapped
      BY <1>13, <2>1, Overlapping DEF DeleteSignature
    <3>. QED  BY <3>1 DEF Current, Past
  <2>2. CASE call[c].id \notin Saved
    <3>1. UNCHANGED sig /\ Set(c, [call[c] EXCEPT !.at = "rejected"])
      BY <1>13, <2>2 DEF DeleteSignature
    <3>2. [call[c] EXCEPT !.at = "rejected"].at = "rejected"
      BY DEF SignaturesTypeOK, Call
    <3>3. CASE k # c
      BY <3>1, <3>3, Fields, OtherCurrent
    <3>4. CASE k = c
      <4>1. call'[k].at = "rejected"
        BY <3>1, <3>2, <3>4, Fields
      <4>. QED  BY <4>1, IdleCurrent
    <3>. QED  BY <3>3, <3>4
  <2>. QED  BY <2>1, <2>2
<1>14. ASSUME NEW c \in Calls, Abort(c) PROVE Current(k)'
  <2>1. CASE k # c
    BY <1>14, <2>1, Fields, OtherCurrent DEF Abort
  <2>2. CASE k = c
    <3>. call[c] \in Call /\ DOMAIN call = Calls /\ Current(c) /\ OwnRow(c)
      BY DEF SignaturesTypeOK
    <3>1. call'[c].at = "rejected"
      BY <1>14 DEF Abort, Call, Set
    <3>. QED  BY <2>2, <3>1, IdleCurrent
  <2>. QED  BY <2>1, <2>2
<1>15. ASSUME NEW c \in Calls, AttachFails(c) PROVE Current(k)'
  <2>1. call'[k].at \notin Active
    BY <1>15 DEF AttachFails, SignaturesTypeOK, Call
  <2>. QED  BY <2>1 DEF Current, Past
<1>16. CASE UNCHANGED vars
  BY <1>16, OtherCurrent DEF vars
<1>. QED
  BY <1>1, <1>2, <1>3, <1>4, <1>5, <1>6, <1>7, <1>8, <1>9, <1>10, <1>11, <1>12, <1>13, <1>14, <1>15, <1>16 DEF Next, CallStep

LEMMA UniqueStep ==
  ASSUME SignaturesInv, [Next]_vars PROVE UniqueDefault'
<1>. SignaturesTypeOK /\ UniqueDefault /\ (Raced => Raced')
  BY RacedStays DEF SignaturesInv
<1>1. ASSUME UNCHANGED sig PROVE UniqueDefault'
  <2>1. Defaults' = Defaults
    BY <1>1 DEF Defaults, Saved
  <2>. QED  BY <2>1 DEF UniqueDefault
<1>2. ASSUME NEW c \in Calls, Commit(c) PROVE UniqueDefault'
  <2>. SUFFICES ASSUME ~Raced' PROVE \A i, j \in Defaults' : i = j
    BY DEF UniqueDefault
  <2>1. call' = Overlap(c, "done")
    BY <1>2 DEF Commit
  <2>2. ~call[c].overlapped
    <3>1. call'[c].at = "done" /\ call'[c].overlapped = call[c].overlapped
      BY <2>1, Overlapping
    <3>. QED  BY <3>1 DEF Raced
  <2>3. call[c].default => Defaults \ call[c].unset \subseteq {call[c].id}
    BY <1>2, <2>2 DEF SignaturesInv, Current, Past, Commit
  <2>4. ASSUME NEW i \in Defaults' PROVE i \in Defaults \ call[c].unset \/ (i = call[c].id /\ call[c].default)
    <3>1. i \in Ids /\ sig'[i] = Committed(c, i) /\ sig'[i].is = "saved" /\ sig'[i].default
      BY <1>2, <2>4 DEF Commit, Defaults, Saved
    <3>2. sig[i] \in Sig
      BY <3>1 DEF SignaturesTypeOK
    <3>3. CASE i = call[c].id /\ call[c].writes \in {"default", "row"}
      BY <3>1, <3>3 DEF Committed
    <3>4. CASE ~(i = call[c].id /\ call[c].writes \in {"default", "row"}) /\ i \in call[c].unset
      BY <3>1, <3>2, <3>4 DEF Committed, Sig
    <3>5. CASE ~(i = call[c].id /\ call[c].writes \in {"default", "row"}) /\ i \notin call[c].unset
      BY <3>1, <3>5 DEF Committed, Defaults, Saved
    <3>. QED  BY <3>3, <3>4, <3>5
  <2>5. \A i, j \in Defaults : i = j
    BY DEF UniqueDefault
  <2>. QED  BY <2>3, <2>4, <2>5
<1>3. ASSUME NEW c \in Calls, DeleteSignature(c) PROVE UniqueDefault'
  <2>1. CASE call[c].id \in Saved
    <3>1. Defaults' \subseteq Defaults
      BY <1>3, <2>1 DEF DeleteSignature, Defaults, Saved, SignaturesTypeOK
    <3>. QED  BY <3>1 DEF UniqueDefault
  <2>2. CASE call[c].id \notin Saved
    BY <1>1, <1>3, <2>2 DEF DeleteSignature
  <2>. QED  BY <2>1, <2>2
<1>4. CASE UNCHANGED vars
  BY <1>1, <1>4 DEF vars
<1>5. Next => UNCHANGED sig \/ \E c \in Calls : Commit(c) \/ DeleteSignature(c)
  BY DEF Next, CallStep, StoreFile, SaveAttachment, BeginCreate, BeginUpdate, BeginDelete,
         CountDefaults, FindSignature, UnsetBegins, UnsetDefaults, CompareRow, WriteRow,
         Abort, AttachFails
<1>. QED  BY <1>1, <1>2, <1>3, <1>4, <1>5

LEMMA SignaturesInvInit == Init => SignaturesInv
<1>. SUFFICES ASSUME Init PROVE SignaturesInv
  OBVIOUS
<1>. USE DEF Init
<1>1. sig \in [Ids -> Sig]
  BY DEF Sig
<1>2. call \in [Calls -> Call]
  BY DEF Call
<1>3. owner \in [Attachments -> Ids \cup {"absent", "stored", "orphan", None}]
      /\ campaign \in [Campaigns -> Ids \cup {None, Gone}]
  OBVIOUS
<1>4. \A c \in Calls : OwnRow(c) /\ Current(c)
  BY DEF OwnRow, Current, Past
<1>5. \A i \in Defaults : i = Initial[1]
  BY DEF Defaults, Saved
<1>. QED  BY <1>1, <1>2, <1>3, <1>4, <1>5 DEF SignaturesInv, SignaturesTypeOK, UniqueDefault

LEMMA SignaturesInvStep == SignaturesInv /\ [Next]_vars => SignaturesInv'
<1>. SUFFICES ASSUME SignaturesInv, [Next]_vars PROVE SignaturesInv'
  OBVIOUS
<1>1. SignaturesTypeOK'
  BY TypeStep DEF SignaturesInv
<1>2. \A k \in Calls : OwnRow(k)' /\ Current(k)'
  BY OwnRowStep, CurrentStep DEF SignaturesInv
<1>3. UniqueDefault'
  BY UniqueStep
<1>. QED  BY <1>1, <1>2, <1>3 DEF SignaturesInv

-----------------------------------------------------------------------------
LEMMA AtMostOne == ASSUME NEW S, \A c, d \in S : c = d PROVE ~(Cardinality(S) > 1)
<1>1. CASE S = {}
  <2>1. Cardinality(S) = 0
    BY <1>1, FS_EmptySet
  <2>. QED  BY <2>1
<1>2. ASSUME NEW c \in S PROVE ~(Cardinality(S) > 1)
  <2>1. S = {c}
    OBVIOUS
  <2>2. Cardinality(S) = 1
    BY <2>1, FS_Singleton
  <2>. QED  BY <2>2
<1>. QED  BY <1>1, <1>2

(* Two defaults are left only by a transaction that another commit overlapped. *)
THEOREM DefaultIsUnique == Spec => []OneDefault
<1>1. SignaturesInv => OneDefault
  BY AtMostOne DEF SignaturesInv, UniqueDefault, Raced, OneDefault
<1>. QED  BY <1>1, SignaturesInvInit, SignaturesInvStep, PTL DEF Spec

(* Renaming a signature leaves the default where it is, unless overlapped.    *)
THEOREM RenamesAreSafe == Spec => RenameKeepsDefault
<1>1. ASSUME SignaturesInv, Next, NEW c \in Calls, Commit(c), call[c].kind = "update",
             call[c].wish = "undefined", ~call[c].overlapped
      PROVE  Defaults' = Defaults
  <2>1. /\ call[c].id \in Saved /\ call[c].unset = {}
        /\ call[c].default = sig[call[c].id].default
    BY <1>1 DEF SignaturesInv, OwnRow, Current, Commit
  <2>2. ASSUME NEW i \in Ids
        PROVE  sig'[i].is = sig[i].is /\ sig'[i].default = sig[i].default
    <3>1. sig'[i] = Committed(c, i)
      BY <1>1 DEF Commit
    <3>2. CASE i = call[c].id /\ call[c].writes \in {"default", "row"}
      BY <2>1, <3>1, <3>2 DEF Committed, Saved
    <3>3. CASE ~(i = call[c].id /\ call[c].writes \in {"default", "row"})
      BY <2>1, <3>1, <3>3 DEF Committed
    <3>. QED  BY <3>2, <3>3
  <2>. QED  BY <2>2 DEF Defaults, Saved
<1>2. SignaturesInv /\ [Next]_vars =>
        [\A c \in Calls : Commit(c) /\ call[c].kind = "update" /\ call[c].wish = "undefined"
                          /\ ~call[c].overlapped => Defaults' = Defaults]_vars
  BY <1>1
<1>. QED  BY <1>2, SignaturesInvInit, SignaturesInvStep, PTL DEF Spec, RenameKeepsDefault

(* A deleted signature comes back only by an update that had found it.        *)
THEOREM DeletesLast == Spec => DeletedStaysDeleted
<1>1. ASSUME SignaturesInv, Next, NEW i \in Ids, sig[i].is = "deleted", sig'[i].is = "saved"
      PROVE  \E c \in Calls : call[c].kind = "update" /\ call[c].id = i /\ call[c].overlapped
  <2>1. ASSUME NEW c \in Calls, Commit(c)
        PROVE  call[c].kind = "update" /\ call[c].id = i /\ call[c].overlapped
    <3>1. sig'[i] = Committed(c, i) /\ call[c].at = "commit"
      BY <2>1 DEF Commit
    <3>2. sig[i] \in Sig
      BY <1>1 DEF SignaturesInv, SignaturesTypeOK
    <3>3. call[c].id = i
      <4>1. CASE i \in call[c].unset
        BY <1>1, <3>1, <3>2, <4>1 DEF Committed, Sig
      <4>2. CASE i \notin call[c].unset
        BY <1>1, <3>1, <4>2 DEF Committed
      <4>. QED  BY <4>1, <4>2
    <3>4. OwnRow(c) /\ call[c] \in Call
      BY <1>1 DEF SignaturesInv, SignaturesTypeOK
    <3>5. call[c].kind = "update"
      BY <1>1, <3>1, <3>3, <3>4 DEF OwnRow, Call
    <3>. QED  BY <1>1, <3>1, <3>3, <3>4, <3>5 DEF OwnRow, Saved
  <2>2. ASSUME NEW c \in Calls, DeleteSignature(c) PROVE FALSE
    BY <1>1, <2>2 DEF DeleteSignature, SignaturesInv, SignaturesTypeOK
  <2>3. UNCHANGED sig \/ \E c \in Calls : Commit(c) \/ DeleteSignature(c)
    BY <1>1 DEF Next, CallStep, StoreFile, SaveAttachment, BeginCreate, BeginUpdate, BeginDelete,
           CountDefaults, FindSignature, UnsetBegins, UnsetDefaults, CompareRow, WriteRow,
           Abort, AttachFails
  <2>. QED  BY <1>1, <2>1, <2>2, <2>3
<1>2. SignaturesInv /\ [Next]_vars =>
        [\A i \in Ids : sig[i].is = "deleted" /\ sig'[i].is = "saved" =>
           \E c \in Calls : call[c].kind = "update" /\ call[c].id = i /\ call[c].overlapped]_vars
  BY <1>1
<1>. QED  BY <1>2, SignaturesInvInit, SignaturesInvStep, PTL DEF Spec, DeletedStaysDeleted
=============================================================================
