------------------------- MODULE UserAccountsProofs -------------------------
(***************************************************************************)
(* One Google account has one row, for any accounts, addresses, numbers of *)
(* calls and limits.  OneUserPerAccount is not inductive: AccountsInv adds *)
(* that a call which has loaded a row still holds the row of its account,  *)
(* and that rows do not go away.  The test emails and the daily limit of   *)
(* DailyQuota come last.                                                   *)
(***************************************************************************)
EXTENDS DailyQuota, FiniteSetTheorems, TLAPS

(* No two rows share an account or an address. *)
RowsDiffer ==
    \A i, j \in Live : users[i].provider = users[j].provider
                       \/ users[i].email = users[j].email => i = j

(* The row a call names is there, and is that of its account. *)
CallHasRow(c) ==
    /\ \/ call[c].at \in {"compare", "write"}
       \/ call[c].at = "done" 
       \/ call[c].at = "find" /\ call[c].kind = "settings" 
       => call[c].id \in Live
    /\ call[c].at \in {"compare", "write", "done"} /\ call[c].kind # "settings" =>
         users[call[c].id].provider = call[c].provider
    /\ call[c].at = "write" /\ "token" \in call[c].changed =>
         call[c].copy.token # Undefined

AccountsInv ==
    /\ AccountsTypeOK
    /\ RowsDiffer
    /\ session \subseteq Live
    /\ \A c \in Calls : CallHasRow(c)

USE AccountsAssumption, InitialUsersAssumption DEF Ids, Calls

-----------------------------------------------------------------------------
LEMMA TokenNumbers ==
    /\ NoToken \in Tokens /\ OldToken \in Tokens
    /\ Undefined \notin Tokens
    /\ \A c \in Calls : c \in Tokens
  BY DEF NoToken, OldToken, Tokens, Undefined

LEMMA KeyIsKey == ASSUME AccountsTypeOK PROVE Key \in Keys
<1>1. rotations \in Nat
  BY DEF AccountsTypeOK
<1>. QED  BY <1>1 DEF Key, Keys

LEMMA DecryptIsToken == ASSUME AccountsTypeOK, NEW i \in Ids PROVE Decrypt(i) \in Tokens
  BY TokenNumbers DEF AccountsTypeOK, Decrypt, Row

LEMMA AccountsInvInit == AccountsInit => AccountsInv
<1>. SUFFICES ASSUME AccountsInit PROVE AccountsInv
  OBVIOUS
<1>. USE TokenNumbers DEF AccountsInit
<1>1. users \in [Ids -> Row]
  BY DEF Row, NoUser, Keys
<1>2. call \in [Calls -> Call]
  BY DEF Call, Copy, NoCopy, Columns, Kinds
<1>3. Live = DOMAIN InitialUsers
  BY DEF Live, NoUser
<1>a. granted \in [Ids -> Tokens]
  OBVIOUS
<1>b. chosen \in [Ids -> Limits]
  OBVIOUS
<1>c. session \subseteq Ids /\ rotations \in 0..MaxRotations
  OBVIOUS
<1>4. AccountsTypeOK
  <2>. HIDE DEF AccountsInit
  <2>. QED  BY <1>1, <1>2, <1>a, <1>b, <1>c DEF AccountsTypeOK
<1>5. RowsDiffer
  BY <1>3 DEF RowsDiffer
<1>6. \A c \in Calls : CallHasRow(c)
  BY DEF CallHasRow
<1>. QED  BY <1>3, <1>4, <1>5, <1>6 DEF AccountsInv

(* A call that is not writing changes only its own locals: what is left to  *)
(* show is that these are well formed and name a row if they must.          *)
LEMMA OwnStep ==
    ASSUME AccountsInv, NEW c \in Calls, NEW r \in Call,
           call' = [call EXCEPT ![c] = r],
           UNCHANGED <<users, rotations, granted, chosen>>,
           session' \subseteq Live, CallHasRow(c)'
    PROVE  AccountsInv'
<1>. USE DEF AccountsInv
<1>1. AccountsTypeOK'
  BY DEF AccountsTypeOK, Live
<1>2. Live' = Live
  BY DEF Live
<1>3. RowsDiffer'
  BY <1>2 DEF RowsDiffer
<1>4. ASSUME NEW d \in Calls PROVE CallHasRow(d)'
  <2>1. CASE d = c
    BY <2>1
  <2>2. CASE d # c
    <3>1. call'[d] = call[d]
      BY <2>2 DEF AccountsTypeOK
    <3>. QED  BY <1>2, <3>1 DEF CallHasRow, Undefined
  <2>. QED  BY <2>1, <2>2
<1>. QED  BY <1>1, <1>2, <1>3, <1>4

LEMMA SignInStep ==
    ASSUME AccountsInv, NEW c \in Calls, NEW kind \in CallKinds, NEW p \in Providers,
           NEW e \in Emails \cup {NoEmail}, NEW token \in {NoToken, c},
           SignIn(c, kind, p, e, token)
    PROVE  AccountsInv'
<1>. DEFINE r == [call[c] EXCEPT !.kind = kind, !.provider = p, !.email = e,
                    !.token = token,
                    !.at = IF Acceptable(kind, e, token) THEN "find" ELSE "rejected"]
<1>0. kind \in Kinds /\ token \in Tokens /\ call[c] \in Call
  BY TokenNumbers DEF AccountsInv, AccountsTypeOK
<1>1. r \in Call
  BY <1>0 DEF Call
<1>2. call' = [call EXCEPT ![c] = r]
  BY DEF SignIn, AccountsInv, AccountsTypeOK, Call
<1>3. CallHasRow(c)'
  BY <1>2 DEF CallHasRow, SignIn, AccountsInv, AccountsTypeOK, Call
<1>. QED  BY <1>1, <1>2, <1>3, OwnStep DEF SignIn, AccountsInv

LEMMA FindUserStep ==
    ASSUME AccountsInv, NEW c \in Calls, FindUser(c) PROVE AccountsInv'
<1>. USE DEF AccountsInv
<1>0. call[c] \in Call /\ call[c].kind # "settings"
  BY DEF AccountsTypeOK, FindUser
<1>1. CASE Of(call[c].provider) = {}
  <2>. DEFINE r == [call[c] EXCEPT !.at = "insert"]
  <2>1. r \in Call
    BY <1>0 DEF Call
  <2>2. call' = [call EXCEPT ![c] = r]
    BY <1>1 DEF FindUser
  <2>3. CallHasRow(c)'
    BY <2>1, <2>2 DEF CallHasRow, AccountsTypeOK, Call
  <2>. QED  BY <2>1, <2>2, <2>3, OwnStep DEF FindUser
<1>2. CASE Of(call[c].provider) # {}
  <2>1. PICK i \in Of(call[c].provider) :
          call' = [call EXCEPT ![c].at = "compare", ![c].id = i,
                     ![c].copy = [email |-> call[c].email,
                                  token |-> Assigned(call[c].token),
                                  limit |-> LoadedLimit(i)]]
    BY <1>2 DEF FindUser
  <2>. DEFINE copy == [email |-> call[c].email, token |-> Assigned(call[c].token),
                       limit |-> LoadedLimit(i)]
              r == [call[c] EXCEPT !.at = "compare", !.id = i, !.copy = copy]
  <2>2. i \in Live /\ i \in Ids /\ users[i] \in Row /\ users[i].provider = call[c].provider
    BY DEF Of, Live, AccountsTypeOK
  <2>3. copy \in Copy
    BY <1>0, <2>2 DEF Copy, Call, Row, Assigned, LoadedLimit
  <2>a. i \in 0..MaxUsers
    BY <2>2
  <2>4. r \in Call
    <3>. HIDE DEF copy
    <3>. QED  BY <1>0, <2>a, <2>3 DEF Call
  <2>5. call' = [call EXCEPT ![c] = r]
    BY <2>1 DEF AccountsTypeOK
  <2>6. UNCHANGED <<users, session, rotations, granted, chosen>>
    BY DEF FindUser
  <2>7. CallHasRow(c)'
    <3>. HIDE DEF copy
    <3>1. call'[c] = r
      BY <2>5 DEF AccountsTypeOK
    <3>2. r.at = "compare" /\ r.id = i /\ r.kind = call[c].kind /\ r.provider = call[c].provider
      BY <1>0 DEF Call
    <3>. QED  BY <2>2, <2>6, <3>1, <3>2 DEF CallHasRow, Live
  <2>. QED  BY <2>4, <2>5, <2>6, <2>7, OwnStep
<1>. QED  BY <1>1, <1>2

LEMMA InsertUserStep ==
    ASSUME AccountsInv, NEW c \in Calls, InsertUser(c) PROVE AccountsInv'
<1>. USE DEF AccountsInv
<1>0. call[c] \in Call
  BY DEF AccountsTypeOK
<1>1. CASE ~Free(call[c].provider, call[c].email, {})
  <2>. DEFINE r == [call[c] EXCEPT !.at = "rejected"]
  <2>1. r \in Call
    BY <1>0 DEF Call
  <2>2. call' = [call EXCEPT ![c] = r]
    BY <1>1 DEF InsertUser, Reject
  <2>3. CallHasRow(c)'
    BY <2>1, <2>2 DEF CallHasRow, AccountsTypeOK, Call
  <2>. QED  BY <1>1, <2>1, <2>2, <2>3, OwnStep DEF InsertUser
<1>2. CASE Free(call[c].provider, call[c].email, {})
  <2>1. PICK i \in Ids \ Live :
          /\ users' = [users EXCEPT ![i] =
                         [live |-> TRUE, provider |-> call[c].provider,
                          email |-> call[c].email, token |-> call[c].token,
                          sealed |-> Key, limit |-> DefaultLimit]]
          /\ call' = [call EXCEPT ![c].at = "done", ![c].id = i]
          /\ granted' = [granted EXCEPT ![i] = call[c].token]
          /\ session' = session \cup {i}
    BY <1>2 DEF InsertUser, SignTokens
  <2>. DEFINE row == [live |-> TRUE, provider |-> call[c].provider,
                      email |-> call[c].email, token |-> call[c].token,
                      sealed |-> Key, limit |-> DefaultLimit]
              r == [call[c] EXCEPT !.at = "done", !.id = i]
  <2>2. row \in Row
    BY <1>0, KeyIsKey DEF Row, Call
  <2>a. i \in 0..MaxUsers
    OBVIOUS
  <2>3. r \in Call
    <3>. HIDE DEF row
    <3>. QED  BY <1>0, <2>a DEF Call
  <2>4. call' = [call EXCEPT ![c] = r]
    BY <2>1 DEF AccountsTypeOK
  <2>5. UNCHANGED <<rotations, chosen>>
    BY DEF InsertUser
  <2>6. AccountsTypeOK'
    <3>. HIDE DEF row, r
    <3>1. users' \in [Ids -> Row]
      BY <2>1, <2>2 DEF AccountsTypeOK, row
    <3>2. call' \in [Calls -> Call]
      BY <2>3, <2>4 DEF AccountsTypeOK
    <3>3. granted' \in [Ids -> Tokens]
      BY <1>0, <2>1 DEF AccountsTypeOK, Call
    <3>. QED  BY <2>1, <2>5, <3>1, <3>2, <3>3 DEF AccountsTypeOK
  <2>7. users'[i] = row /\ \A j \in Ids \ {i} : users'[j] = users[j]
    BY <2>1 DEF AccountsTypeOK
  <2>8. Live' = Live \cup {i}
    BY <2>7 DEF Live
  <2>9. \A j \in Live : users[j].provider # row.provider /\ users[j].email # row.email
    BY <1>2 DEF Free
  <2>10. RowsDiffer'
    BY <2>7, <2>8, <2>9 DEF RowsDiffer, Live
  <2>11. ASSUME NEW d \in Calls PROVE CallHasRow(d)'
    <3>1. CASE d = c
      <4>1. call'[d] = r
        BY <2>4, <3>1 DEF AccountsTypeOK
      <4>2. r.at = "done" /\ r.id = i /\ r.provider = call[c].provider
        BY <1>0 DEF Call
      <4>. QED  BY <2>7, <2>8, <4>1, <4>2 DEF CallHasRow
    <3>2. CASE d # c
      <4>1. call'[d] = call[d]
        BY <2>4, <3>2 DEF AccountsTypeOK
      <4>2. CallHasRow(d)
        OBVIOUS
      <4>3. \A j \in Live : users'[j] = users[j]
        BY <2>1, <2>7 DEF Live
      <4>. QED  BY <2>8, <4>1, <4>2, <4>3 DEF CallHasRow, Undefined
    <3>. QED  BY <3>1, <3>2
  <2>12. session' \subseteq Live'
    BY <2>1, <2>8
  <2>. QED  BY <2>6, <2>10, <2>11, <2>12
<1>. QED  BY <1>1, <1>2

LEMMA SettingsStep ==
    ASSUME AccountsInv, NEW c \in Calls, NEW i \in Ids, NEW limit \in Limits \cup {NoLimit},
           Settings(c, i, limit)
    PROVE  AccountsInv'
<1>. USE DEF AccountsInv
<1>. DEFINE r == [call[c] EXCEPT !.kind = "settings", !.id = i, !.limit = limit, !.at = "find"]
<1>0. call[c] \in Call
  BY DEF AccountsTypeOK
<1>a. i \in 0..MaxUsers /\ "settings" \in Kinds
  BY DEF Kinds
<1>1. r \in Call
  BY <1>0, <1>a DEF Call
<1>2. call' = [call EXCEPT ![c] = r]
  BY DEF Settings, AccountsTypeOK
<1>3. UNCHANGED <<users, session, rotations, granted, chosen>>
  BY DEF Settings
<1>4. CallHasRow(c)'
  <2>1. call'[c] = r
    BY <1>2 DEF AccountsTypeOK
  <2>2. r.at = "find" /\ r.id = i
    BY <1>0 DEF Call
  <2>. QED  BY <1>3, <2>1, <2>2 DEF CallHasRow, Settings, Live
<1>. QED  BY <1>1, <1>2, <1>3, <1>4, OwnStep

LEMMA ReadUserStep ==
    ASSUME AccountsInv, NEW c \in Calls, ReadUser(c) PROVE AccountsInv'
<1>. USE DEF AccountsInv
<1>. DEFINE i == call[c].id
            limit == IF call[c].limit = NoLimit THEN users[i].limit ELSE call[c].limit
            copy == [email |-> users[i].email, token |-> Decrypt(i), limit |-> limit]
            r == [call[c] EXCEPT !.at = "compare", !.copy = copy]
<1>0. call[c] \in Call /\ call[c].at = "find" /\ call[c].kind = "settings"
  BY DEF AccountsTypeOK, ReadUser
<1>1. i \in Live /\ i \in Ids /\ users[i] \in Row
  BY <1>0 DEF CallHasRow, Live, AccountsTypeOK
<1>2. copy \in Copy
  BY <1>0, <1>1, DecryptIsToken DEF Copy, Call, Row
<1>3. r \in Call
  <2>. HIDE DEF copy
  <2>. QED  BY <1>0, <1>2 DEF Call
<1>4. call' = [call EXCEPT ![c] = r]
  BY DEF ReadUser, AccountsTypeOK
<1>5. UNCHANGED <<users, session, rotations, granted, chosen>>
  BY DEF ReadUser
<1>6. CallHasRow(c)'
  <2>. HIDE DEF copy
  <2>1. call'[c] = r
    BY <1>4 DEF AccountsTypeOK
  <2>2. r.at = "compare" /\ r.id = i /\ r.kind = "settings"
    BY <1>0 DEF Call
  <2>. QED  BY <1>1, <1>5, <2>1, <2>2 DEF CallHasRow, Live
<1>. QED  BY <1>3, <1>4, <1>5, <1>6, OwnStep

LEMMA CompareRowStep ==
    ASSUME AccountsInv, NEW c \in Calls, CompareRow(c) PROVE AccountsInv'
<1>. USE DEF AccountsInv
<1>. DEFINE changed == Differing(call[c].copy, call[c].id)
            place == IF changed = {} THEN "done" ELSE "write"
            r == [call[c] EXCEPT !.changed = changed, !.at = place]
<1>0. call[c] \in Call /\ call[c].at = "compare"
  BY DEF AccountsTypeOK, CompareRow
<1>1. changed \in SUBSET Columns /\ ("token" \in changed => call[c].copy.token # Undefined)
  BY DEF Differing
<1>2. r \in Call
  <2>. HIDE DEF changed
  <2>. QED  BY <1>0, <1>1 DEF Call
<1>3. call' = [call EXCEPT ![c] = r]
  BY DEF CompareRow, AccountsTypeOK
<1>4. UNCHANGED <<users, rotations, granted, chosen>>
  BY DEF CompareRow
<1>5. call[c].id \in Live
  BY <1>0 DEF CallHasRow
<1>6. session' \subseteq Live
  BY <1>5 DEF CompareRow, Answered, SignTokens
<1>7. CallHasRow(c)'
  <2>. HIDE DEF changed
  <2>1. call'[c] = r
    BY <1>3 DEF AccountsTypeOK
  <2>2. /\ r.at = place /\ r.id = call[c].id /\ r.kind = call[c].kind
        /\ r.provider = call[c].provider /\ r.changed = changed /\ r.copy = call[c].copy
    BY <1>0 DEF Call
  <2>3. Live' = Live /\ Undefined' = Undefined
    BY <1>4 DEF Live, Undefined
  <2>. QED  BY <1>0, <1>1, <1>4, <1>5, <2>1, <2>2, <2>3 DEF CallHasRow
<1>. QED  BY <1>2, <1>3, <1>4, <1>6, <1>7, OwnStep

(* What save writes is a row of the same account. *)
LEMMA WrittenRow ==
    ASSUME AccountsInv, NEW c \in Calls, call[c].at = "write"
    PROVE  LET W == Written(call[c].id, call[c].copy, call[c].changed)
               i == call[c].id
           IN  /\ W \in Row /\ W.live /\ W.provider = users[i].provider
               /\ W.email = IF "email" \in call[c].changed THEN call[c].copy.email
                            ELSE users[i].email
<1>. DEFINE i == call[c].id
            copy == call[c].copy
            changed == call[c].changed
<1>1. i \in Live /\ users[i] \in Row /\ users[i].live /\ copy \in Copy
  BY DEF AccountsInv, AccountsTypeOK, CallHasRow, Call, Live
<1>2. "token" \in changed => copy.token \in Tokens
  BY <1>1 DEF AccountsInv, CallHasRow, Copy
<1>3. Key \in Keys
  BY KeyIsKey DEF AccountsInv
<1>. HIDE DEF i, copy, changed
<1>4. Written(i, copy, changed) \in Row
  BY <1>1, <1>2, <1>3 DEF Written, Row, Copy
<1>5. /\ Written(i, copy, changed).live
      /\ Written(i, copy, changed).provider = users[i].provider
      /\ Written(i, copy, changed).email = IF "email" \in changed THEN copy.email
                                           ELSE users[i].email
  BY <1>1 DEF Written, Row
<1>. QED  BY <1>4, <1>5 DEF i, copy, changed

LEMMA WriteRowStep ==
    ASSUME AccountsInv, NEW c \in Calls, WriteRow(c) PROVE AccountsInv'
<1>. USE DEF AccountsInv
<1>. DEFINE i == call[c].id
            copy == call[c].copy
            changed == call[c].changed
            refused == "email" \in changed /\ ~Free(users[i].provider, copy.email, {i})
<1>0. call[c] \in Call /\ call[c].at = "write" /\ i \in Live /\ i \in Ids
  BY DEF AccountsTypeOK, WriteRow, CallHasRow, Live
<1>1. CASE refused
  <2>. DEFINE r == [call[c] EXCEPT !.at = "rejected"]
  <2>1. r \in Call
    BY <1>0 DEF Call
  <2>2. call' = [call EXCEPT ![c] = r] /\ UNCHANGED <<users, session, rotations, granted, chosen>>
    BY <1>1 DEF WriteRow, Reject
  <2>3. CallHasRow(c)'
    BY <2>1, <2>2 DEF CallHasRow, AccountsTypeOK, Call
  <2>. QED  BY <2>1, <2>2, <2>3, OwnStep
<1>2. CASE ~refused
  <2>. DEFINE W == Written(i, copy, changed)
  <2>1. /\ users' = [users EXCEPT ![i] = W]
        /\ call' = Overlap(c, i)
        /\ session' = session \/ session' = session \cup {i}
        /\ granted' = granted \/ granted' = [granted EXCEPT ![i] = call[c].token]
        /\ chosen' = chosen \/ chosen' = [chosen EXCEPT ![i] = copy.limit]
        /\ UNCHANGED rotations
    BY <1>2 DEF WriteRow, Answered, SignTokens
  <2>2. /\ W \in Row /\ W.live /\ W.provider = users[i].provider
        /\ W.email = IF "email" \in changed THEN copy.email ELSE users[i].email
    BY <1>0, WrittenRow
  <2>3. changed = call[c].changed /\ copy.limit \in Limits
    BY <1>0 DEF Call, Copy
  <2>. HIDE DEF W
  <2>4. users'[i] = W /\ \A j \in Ids \ {i} : users'[j] = users[j]
    BY <1>0, <2>1 DEF AccountsTypeOK
  <2>5. Live' = Live
    BY <1>0, <2>2, <2>4 DEF Live
  <2>6. \A d \in Calls :
          /\ call'[d] \in Call
          /\ call'[d].at = (IF d = c THEN "done" ELSE call[d].at)
          /\ call'[d].id = call[d].id /\ call'[d].kind = call[d].kind
          /\ call'[d].provider = call[d].provider
          /\ call'[d].changed = call[d].changed /\ call'[d].copy = call[d].copy
    <3>1. TAKE d \in Calls
    <3>2. call[d] \in Call
      BY DEF AccountsTypeOK
    <3>3. \/ d = c /\ call'[d] = [call[d] EXCEPT !.at = "done"]
          \/ d # c /\ call'[d] = [call[d] EXCEPT !.overlapped = TRUE]
          \/ d # c /\ call'[d] = call[d]
      BY <2>1 DEF Overlap
    <3>. QED  BY <3>2, <3>3 DEF Call
  <2>7. AccountsTypeOK'
    <3>1. users' \in [Ids -> Row]
      BY <1>0, <2>1, <2>2 DEF AccountsTypeOK
    <3>2. call' \in [Calls -> Call]
      BY <2>1, <2>6 DEF Overlap
    <3>3. session' \subseteq Ids
      BY <1>0, <2>1 DEF AccountsTypeOK
    <3>4. call[c].token \in Tokens
      BY <1>0 DEF Call
    <3>5. granted' \in [Ids -> Tokens]
      BY <1>0, <2>1, <3>4 DEF AccountsTypeOK
    <3>6. chosen' \in [Ids -> Limits]
      BY <1>0, <2>1, <2>3 DEF AccountsTypeOK
    <3>. QED  BY <2>1, <3>1, <3>2, <3>3, <3>5, <3>6 DEF AccountsTypeOK
  <2>8. RowsDiffer'
    <3>1. \A j \in Live \ {i} : users[j].provider # W.provider /\ users[j].email # W.email
      BY <1>0, <1>2, <2>2 DEF RowsDiffer, Free, Live
    <3>. QED  BY <1>0, <2>4, <2>5, <3>1 DEF RowsDiffer, Live
  <2>9. ASSUME NEW d \in Calls PROVE CallHasRow(d)'
    <3>1. \A j \in Live : users'[j].provider = users[j].provider
      BY <1>0, <2>2, <2>4 DEF Live
    <3>2. CallHasRow(d) /\ CallHasRow(c)
      OBVIOUS
    <3>3. Undefined' = Undefined
      BY DEF Undefined
    <3>. QED  BY <1>0, <2>5, <2>6, <3>1, <3>2, <3>3 DEF CallHasRow
  <2>10. session' \subseteq Live'
    BY <1>0, <2>1, <2>5
  <2>. QED  BY <2>7, <2>8, <2>9, <2>10
<1>. QED  BY <1>1, <1>2

-----------------------------------------------------------------------------
LEMMA AccountsInvStep == AccountsInv /\ [AccountStep]_accountVars => AccountsInv'
<1>. SUFFICES ASSUME AccountsInv, [AccountStep]_accountVars PROVE AccountsInv'
  OBVIOUS
<1>1. CASE \E c \in Calls, kind \in CallKinds, p \in Providers, e \in Emails \cup {NoEmail} :
             \E token \in {NoToken, c} : SignIn(c, kind, p, e, token)
  BY <1>1, SignInStep
<1>2. CASE \E c \in Calls, i \in Ids, limit \in Limits \cup {NoLimit} :
             Settings(c, i, limit)
  BY <1>2, SettingsStep
<1>3. CASE \E c \in Calls : FindUser(c) \/ InsertUser(c) \/ ReadUser(c)
  BY <1>3, FindUserStep, InsertUserStep, ReadUserStep
<1>4. CASE \E c \in Calls : CompareRow(c) \/ WriteRow(c)
  BY <1>4, CompareRowStep, WriteRowStep
<1>5. CASE RotateKey
  <2>1. UNCHANGED <<users, call, session, granted, chosen>>
        /\ rotations' = rotations + 1 /\ rotations < MaxRotations
    BY <1>5 DEF RotateKey
  <2>. QED  BY <2>1 DEF AccountsInv, AccountsTypeOK, RowsDiffer, CallHasRow, Live, Undefined
<1>6. CASE UNCHANGED accountVars
  BY <1>6 DEF accountVars, AccountsInv, AccountsTypeOK, RowsDiffer, CallHasRow, Live, Undefined
<1>. QED  BY <1>1, <1>2, <1>3, <1>4, <1>5, <1>6 DEF AccountStep

LEMMA AccountsInvariant == AccountsSpec => []AccountsInv
<1>. QED  BY AccountsInvInit, AccountsInvStep, PTL DEF AccountsSpec

(* Every row and every call keeps to the values its columns and steps allow. *)
THEOREM AccountsTypeCorrect == AccountsSpec => []AccountsTypeOK
<1>1. AccountsInv => AccountsTypeOK
  BY DEF AccountsInv
<1>. QED  BY <1>1, AccountsInvariant, PTL

(* Whatever sign-ins, reconnects and settings calls overlap, a Google        *)
(* account and an address have one row each, and who has signed in was given *)
(* the row of the account: the two unique indexes are enough.                *)
THEOREM OneRowPerAccount == AccountsSpec => []OneUserPerAccount
<1>1. AccountsInv => OneUserPerAccount
  BY DEF AccountsInv, RowsDiffer, CallHasRow, OneUserPerAccount
<1>. QED  BY <1>1, AccountsInvariant, PTL

-----------------------------------------------------------------------------
(* What a call that nobody overlapped holds of its row.                      *)
TokenHeld(c) ==
    /\ call[c].kind = "settings" /\ ~call[c].overlapped =>
         call[c].copy.token \in {users[call[c].id].token, NoToken}
    /\ call[c].kind # "settings" =>
         call[c].copy.token = Assigned(call[c].token)

LimitHeld(c) ==
    ~call[c].overlapped =>
      /\ call[c].kind # "settings" \/ call[c].limit = NoLimit =>
           call[c].copy.limit = users[call[c].id].limit
      /\ call[c].at = "write" /\ "limit" \notin call[c].changed =>
           call[c].copy.limit = users[call[c].id].limit

Loaded(c) == call[c].at \in {"compare", "write"}

KeptInv ==
    /\ TokenIsKept
    /\ LimitIsKept
    /\ \A i \in Ids \ Live : chosen[i] = DefaultLimit
    /\ \A c \in Calls :
         /\ call[c].at = "unused" \/ call[c].kind = "settings" => call[c].token = NoToken
         /\ call[c].at \in {"unused", "find", "insert"} => ~call[c].overlapped
         /\ Loaded(c) => TokenHeld(c) /\ LimitHeld(c)
         /\ call[c].at = "write" =>
              (call[c].copy.token \notin {Undefined, NoToken} <=> "token" \in call[c].changed)

LEMMA KeptInit == AccountsInit => KeptInv
<1>. SUFFICES ASSUME AccountsInit PROVE KeptInv
  OBVIOUS
<1>1. \A i \in Live : users[i].token = granted[i] /\ users[i].limit = chosen[i]
  BY DEF AccountsInit, Live, NoUser
<1>3. \A c \in Calls : call[c].at = "unused" /\ call[c].token = NoToken /\ ~call[c].overlapped
  BY DEF AccountsInit
<1>4. \A i \in Ids : chosen[i] = DefaultLimit
  BY DEF AccountsInit
<1>. QED  BY <1>1, <1>3, <1>4 DEF KeptInv, TokenIsKept, LimitIsKept, Loaded

(* A call that changes only its own locals keeps the rows, and what others   *)
(* were overlapped by.                                                       *)
LEMMA KeptOwnStep ==
    ASSUME AccountsInv, KeptInv, NEW c \in Calls, NEW r \in Call,
           call' = [call EXCEPT ![c] = r],
           UNCHANGED <<users, rotations, granted, chosen>>,
           call[c].overlapped =>
             r.overlapped /\ r.id = call[c].id /\ r.kind = call[c].kind,
           r.at # "unused",
           r.at \in {"find", "insert"} => ~r.overlapped,
           r.kind = "settings" => r.token = NoToken,
           r.at \in {"compare", "write"} => TokenHeld(c)' /\ LimitHeld(c)',
           r.at = "write" =>
             (r.copy.token \notin {Undefined, NoToken} <=> "token" \in r.changed)
    PROVE  KeptInv'
<1>. USE DEF KeptInv
<1>1. call'[c] = r /\ \A d \in Calls \ {c} : call'[d] = call[d]
  BY DEF AccountsInv, AccountsTypeOK
<1>2. Live' = Live /\ Undefined' = Undefined /\ NoToken' = NoToken
  BY DEF Live, Undefined, NoToken
<1>3. \A i \in Ids, kinds \in SUBSET Kinds : OverlappedBy(i, kinds) => OverlappedBy(i, kinds)'
  BY <1>1 DEF OverlappedBy
<1>4. {"settings"} \in SUBSET Kinds /\ Kinds \in SUBSET Kinds
  BY DEF Kinds
<1>5. TokenIsKept' /\ LimitIsKept'
  BY <1>2, <1>3, <1>4 DEF TokenIsKept, LimitIsKept, Live
<1>6. ASSUME NEW d \in Calls
      PROVE  /\ call'[d].at = "unused" \/ call'[d].kind = "settings" => call'[d].token = NoToken
             /\ call'[d].at \in {"unused", "find", "insert"} => ~call'[d].overlapped
             /\ Loaded(d)' => TokenHeld(d)' /\ LimitHeld(d)'
             /\ call'[d].at = "write" =>
                  (call'[d].copy.token \notin {Undefined', NoToken'} <=>
                     "token" \in call'[d].changed)
  <2>1. CASE d = c
    BY <1>1, <2>1 DEF Loaded
  <2>2. CASE d # c
    BY <1>1, <2>2 DEF Loaded, TokenHeld, LimitHeld, Assigned, Undefined
  <2>. QED  BY <2>1, <2>2
<1>. QED  BY <1>2, <1>5, <1>6

LEMMA KeptSignIn ==
    ASSUME AccountsInv, KeptInv, NEW c \in Calls, NEW kind \in CallKinds, NEW p \in Providers,
           NEW e \in Emails \cup {NoEmail}, NEW token \in {NoToken, c},
           SignIn(c, kind, p, e, token)
    PROVE  KeptInv'
<1>. DEFINE r == [call[c] EXCEPT !.kind = kind, !.provider = p, !.email = e,
                    !.token = token,
                    !.at = IF Acceptable(kind, e, token) THEN "find" ELSE "rejected"]
<1>0. kind \in Kinds /\ kind # "settings" /\ token \in Tokens /\ call[c] \in Call
      /\ call[c].at = "unused" /\ ~call[c].overlapped
  BY TokenNumbers DEF AccountsInv, AccountsTypeOK, SignIn, Began, KeptInv
<1>1. r \in Call
  BY <1>0 DEF Call
<1>2. call' = [call EXCEPT ![c] = r] /\ UNCHANGED <<users, rotations, granted, chosen>>
  BY DEF SignIn, AccountsInv, AccountsTypeOK, Call
<1>3. r.at \in {"find", "rejected"} /\ r.kind = kind /\ ~r.overlapped
  BY <1>0 DEF Call
<1>. HIDE DEF r
<1>. QED  BY <1>0, <1>1, <1>2, <1>3, KeptOwnStep

LEMMA KeptFindUser ==
    ASSUME AccountsInv, KeptInv, NEW c \in Calls, FindUser(c) PROVE KeptInv'
<1>0. call[c] \in Call /\ call[c].kind # "settings" /\ ~call[c].overlapped
  BY DEF AccountsInv, AccountsTypeOK, FindUser, KeptInv
<1>00. UNCHANGED <<users, rotations, granted, chosen>>
  BY DEF FindUser
<1>1. CASE Of(call[c].provider) = {}
  <2>. DEFINE r == [call[c] EXCEPT !.at = "insert"]
  <2>1. r \in Call
    BY <1>0 DEF Call
  <2>2. call' = [call EXCEPT ![c] = r]
    BY <1>1 DEF FindUser
  <2>3. r.at = "insert" /\ r.kind = call[c].kind /\ ~r.overlapped
    BY <1>0 DEF Call
  <2>. HIDE DEF r
  <2>. QED  BY <1>0, <1>00, <2>1, <2>2, <2>3, KeptOwnStep
<1>2. CASE Of(call[c].provider) # {}
  <2>1. PICK i \in Of(call[c].provider) :
          call' = [call EXCEPT ![c].at = "compare", ![c].id = i,
                     ![c].copy = [email |-> call[c].email,
                                  token |-> Assigned(call[c].token),
                                  limit |-> LoadedLimit(i)]]
    BY <1>2 DEF FindUser
  <2>. DEFINE copy == [email |-> call[c].email, token |-> Assigned(call[c].token),
                       limit |-> LoadedLimit(i)]
              r == [call[c] EXCEPT !.at = "compare", !.id = i, !.copy = copy]
  <2>2. i \in Ids /\ users[i] \in Row
    BY DEF Of, Live, AccountsInv, AccountsTypeOK
  <2>3. copy \in Copy /\ copy.token = Assigned(call[c].token) /\ copy.limit = users[i].limit
    BY <1>0, <2>2 DEF Copy, Call, Row, Assigned, LoadedLimit
  <2>a. i \in 0..MaxUsers
    BY <2>2
  <2>5. call' = [call EXCEPT ![c] = r]
    BY <2>1 DEF AccountsInv, AccountsTypeOK
  <2>. HIDE DEF copy
  <2>4. r \in Call /\ call'[c] = r
    BY <1>0, <2>a, <2>3, <2>5 DEF Call, AccountsInv, AccountsTypeOK
  <2>6. /\ r.at = "compare" /\ r.kind = call[c].kind /\ ~r.overlapped /\ r.id = i
        /\ r.token = call[c].token /\ r.copy = copy
    BY <1>0 DEF Call
  <2>. HIDE DEF r
  <2>7. TokenHeld(c)' /\ LimitHeld(c)'
    BY <1>0, <1>00, <2>3, <2>4, <2>6 DEF TokenHeld, LimitHeld, Assigned, Undefined, NoToken
  <2>. QED  BY <1>0, <1>00, <2>4, <2>5, <2>6, <2>7, KeptOwnStep
<1>. QED  BY <1>1, <1>2

LEMMA KeptSettings ==
    ASSUME AccountsInv, KeptInv, NEW c \in Calls, NEW i \in Ids, NEW limit \in Limits \cup {NoLimit},
           Settings(c, i, limit)
    PROVE  KeptInv'
<1>. DEFINE r == [call[c] EXCEPT !.kind = "settings", !.id = i, !.limit = limit, !.at = "find"]
<1>0. call[c] \in Call /\ call[c].at = "unused" /\ ~call[c].overlapped /\ call[c].token = NoToken
  BY DEF AccountsInv, AccountsTypeOK, Settings, Began, KeptInv
<1>a. i \in 0..MaxUsers /\ "settings" \in Kinds
  BY DEF Kinds
<1>1. r \in Call
  BY <1>0, <1>a DEF Call
<1>2. call' = [call EXCEPT ![c] = r] /\ UNCHANGED <<users, rotations, granted, chosen>>
  BY DEF Settings, AccountsInv, AccountsTypeOK
<1>3. r.at = "find" /\ ~r.overlapped /\ r.token = NoToken
  BY <1>0 DEF Call
<1>. HIDE DEF r
<1>. QED  BY <1>0, <1>1, <1>2, <1>3, KeptOwnStep

(* A stored token reads as what it is or as null.                            *)
LEMMA KeptReadUser ==
    ASSUME AccountsInv, KeptInv, NEW c \in Calls, ReadUser(c) PROVE KeptInv'
<1>. DEFINE i == call[c].id
            limit == IF call[c].limit = NoLimit THEN users[i].limit ELSE call[c].limit
            copy == [email |-> users[i].email, token |-> Decrypt(i), limit |-> limit]
            r == [call[c] EXCEPT !.at = "compare", !.copy = copy]
<1>0. call[c] \in Call /\ call[c].kind = "settings" /\ ~call[c].overlapped
      /\ call[c].token = NoToken
  BY DEF AccountsInv, AccountsTypeOK, ReadUser, KeptInv
<1>1. i \in Ids /\ users[i] \in Row
  BY DEF CallHasRow, Live, AccountsInv, AccountsTypeOK, ReadUser
<1>2. copy \in Copy
  BY <1>0, <1>1, DecryptIsToken DEF Copy, Call, Row, AccountsInv
<1>3. copy.token \in {users[i].token, NoToken}
  BY DEF Decrypt
<1>b. call[c].limit = NoLimit => copy.limit = users[i].limit
  OBVIOUS
<1>4. call' = [call EXCEPT ![c] = r] /\ UNCHANGED <<users, rotations, granted, chosen>>
  BY DEF ReadUser, AccountsInv, AccountsTypeOK
<1>. HIDE DEF copy
<1>5. r \in Call /\ call'[c] = r
  BY <1>0, <1>2, <1>4 DEF Call, AccountsInv, AccountsTypeOK
<1>6. /\ r.at = "compare" /\ r.kind = "settings" /\ ~r.overlapped /\ r.id = i
      /\ r.token = NoToken /\ r.copy = copy /\ r.limit = call[c].limit
  BY <1>0 DEF Call
<1>. HIDE DEF r
<1>7. TokenHeld(c)' /\ LimitHeld(c)'
  BY <1>3, <1>b, <1>4, <1>5, <1>6 DEF TokenHeld, LimitHeld, NoToken, NoLimit
<1>. QED  BY <1>0, <1>4, <1>5, <1>6, <1>7, KeptOwnStep

LEMMA KeptInsertUser ==
    ASSUME AccountsInv, KeptInv, NEW c \in Calls, InsertUser(c) PROVE KeptInv'
<1>0. call[c] \in Call /\ ~call[c].overlapped
  BY DEF AccountsInv, AccountsTypeOK, InsertUser, KeptInv
<1>1. CASE ~Free(call[c].provider, call[c].email, {})
  <2>. DEFINE r == [call[c] EXCEPT !.at = "rejected"]
  <2>1. r \in Call
    BY <1>0 DEF Call
  <2>2. call' = [call EXCEPT ![c] = r] /\ UNCHANGED <<users, rotations, granted, chosen>>
    BY <1>1 DEF InsertUser, Reject
  <2>3. r.at = "rejected" /\ ~r.overlapped /\ (r.kind = "settings" => r.token = NoToken)
    BY <1>0 DEF Call, KeptInv
  <2>. HIDE DEF r
  <2>. QED  BY <1>0, <2>1, <2>2, <2>3, KeptOwnStep
<1>2. CASE Free(call[c].provider, call[c].email, {})
  <2>1. PICK i \in Ids \ Live :
          /\ users' = [users EXCEPT ![i] =
                         [live |-> TRUE, provider |-> call[c].provider,
                          email |-> call[c].email, token |-> call[c].token,
                          sealed |-> Key, limit |-> DefaultLimit]]
          /\ call' = [call EXCEPT ![c].at = "done", ![c].id = i]
          /\ granted' = [granted EXCEPT ![i] = call[c].token]
    BY <1>2 DEF InsertUser
  <2>. DEFINE row == [live |-> TRUE, provider |-> call[c].provider,
                      email |-> call[c].email, token |-> call[c].token,
                      sealed |-> Key, limit |-> DefaultLimit]
              r == [call[c] EXCEPT !.at = "done", !.id = i]
  <2>2. UNCHANGED <<rotations, chosen>>
    BY DEF InsertUser
  <2>3. call'[c] = r /\ \A d \in Calls \ {c} : call'[d] = call[d]
    BY <2>1 DEF AccountsInv, AccountsTypeOK
  <2>4. r.at = "done" /\ r.kind = call[c].kind /\ r.token = call[c].token
    BY <1>0 DEF Call
  <2>5. users'[i] = row /\ granted'[i] = row.token
    BY <2>1 DEF AccountsInv, AccountsTypeOK
  <2>6. \A j \in Ids \ {i} : users'[j] = users[j] /\ granted'[j] = granted[j]
    BY <2>1 DEF AccountsInv, AccountsTypeOK
  <2>. HIDE DEF r
  <2>7. Live' = Live \cup {i} /\ Undefined' = Undefined /\ NoToken' = NoToken
    BY <2>5, <2>6 DEF Live, Undefined, NoToken
  <2>8. \A j \in Ids, kinds \in SUBSET Kinds : OverlappedBy(j, kinds) => OverlappedBy(j, kinds)'
    BY <1>0, <2>3 DEF OverlappedBy
  <2>9. TokenIsKept'
    BY <2>2, <2>5, <2>6, <2>7, <2>8 DEF TokenIsKept, KeptInv, Kinds, Live
  <2>10. chosen[i] = DefaultLimit => LimitIsKept'
    BY <2>2, <2>5, <2>6, <2>7, <2>8 DEF LimitIsKept, KeptInv, Kinds, Live
  <2>11. chosen[i] = DefaultLimit
    BY <2>1 DEF KeptInv
  <2>15. \A j \in Ids \ Live' : chosen'[j] = DefaultLimit
    BY <2>2, <2>7 DEF KeptInv
  <2>16. call'[c].kind = "settings" => call'[c].token = NoToken
    BY <2>3, <2>4 DEF KeptInv
  <2>17. call'[c].at = "done"
    BY <2>3, <2>4
  <2>13. ASSUME NEW d \in Calls, d # c
         PROVE  Loaded(d)' => TokenHeld(d)' /\ LimitHeld(d)'
    <3>1. Loaded(d) => call[d].id \in Live
      BY DEF AccountsInv, CallHasRow, Loaded
    <3>2. Loaded(d) => users'[call[d].id] = users[call[d].id]
      BY <2>6, <3>1 DEF Live
    <3>. QED  BY <2>2, <2>3, <2>7, <2>13, <3>2
              DEF KeptInv, Loaded, TokenHeld, LimitHeld, Assigned
  <2>14. ~Loaded(c)'
    BY <2>3, <2>4 DEF Loaded
  <2>18. ASSUME NEW d \in Calls
         PROVE  /\ call'[d].at = "unused" \/ call'[d].kind = "settings" => call'[d].token = NoToken
                /\ call'[d].at \in {"unused", "find", "insert"} => ~call'[d].overlapped
                /\ call'[d].at = "write" =>
                     (call'[d].copy.token \notin {Undefined, NoToken} <=>
                        "token" \in call'[d].changed)
    BY <2>3, <2>16, <2>17 DEF KeptInv
  <2>. QED  BY <2>7, <2>9, <2>10, <2>11, <2>13, <2>14, <2>15, <2>18 DEF KeptInv
<1>. QED  BY <1>1, <1>2

LEMMA KeptCompareRow ==
    ASSUME AccountsInv, KeptInv, NEW c \in Calls, CompareRow(c) PROVE KeptInv'
<1>. DEFINE changed == Differing(call[c].copy, call[c].id)
            place == IF changed = {} THEN "done" ELSE "write"
            r == [call[c] EXCEPT !.changed = changed, !.at = place]
<1>0. call[c] \in Call /\ call[c].at = "compare" /\ TokenHeld(c) /\ LimitHeld(c)
  BY DEF AccountsInv, AccountsTypeOK, CompareRow, KeptInv, Loaded
<1>1. /\ changed \in SUBSET Columns
      /\ call[c].copy.token \notin {Undefined, NoToken} <=> "token" \in changed
      /\ "limit" \notin changed => call[c].copy.limit = users[call[c].id].limit
  BY DEF Differing, Columns
<1>2. call' = [call EXCEPT ![c] = r] /\ UNCHANGED <<users, rotations, granted, chosen>>
  BY DEF CompareRow, AccountsInv, AccountsTypeOK
<1>. HIDE DEF changed
<1>3. r \in Call /\ call'[c] = r
  BY <1>0, <1>1, <1>2 DEF Call, AccountsInv, AccountsTypeOK
<1>4. /\ r.at = place /\ r.id = call[c].id /\ r.kind = call[c].kind
      /\ r.overlapped = call[c].overlapped /\ r.token = call[c].token
      /\ r.copy = call[c].copy /\ r.changed = changed /\ r.limit = call[c].limit
  BY <1>0 DEF Call
<1>. HIDE DEF r
<1>5. TokenHeld(c)' /\ LimitHeld(c)'
  BY <1>0, <1>1, <1>2, <1>3, <1>4 DEF TokenHeld, LimitHeld, Assigned, Undefined, NoToken
<1>6. r.kind = "settings" => r.token = NoToken
  BY <1>4 DEF KeptInv
<1>. QED  BY <1>0, <1>1, <1>2, <1>3, <1>4, <1>5, <1>6, KeptOwnStep

(* A write that nobody overlapped puts back what it must; those it overlaps  *)
(* are known from then on.                                                   *)
LEMMA KeptWriteRow ==
    ASSUME AccountsInv, KeptInv, NEW c \in Calls, WriteRow(c),
           NEW i \in Ids, i = call[c].id
    PROVE  KeptInv'
<1>. DEFINE copy == call[c].copy
            changed == call[c].changed
            refused == "email" \in changed /\ ~Free(users[i].provider, copy.email, {i})
<1>0. /\ call[c] \in Call /\ call[c].at = "write" /\ i \in Live /\ i \in Ids
      /\ TokenHeld(c) /\ LimitHeld(c) /\ users[i] \in Row
      /\ copy.token \notin {Undefined, NoToken} <=> "token" \in changed
  BY DEF AccountsInv, AccountsTypeOK, WriteRow, CallHasRow, Live, KeptInv, Loaded
<1>1. CASE refused
  <2>. DEFINE r == [call[c] EXCEPT !.at = "rejected"]
  <2>1. r \in Call
    BY <1>0 DEF Call
  <2>2. call' = [call EXCEPT ![c] = r] /\ UNCHANGED <<users, rotations, granted, chosen>>
    BY <1>1 DEF WriteRow, Reject
  <2>3. /\ r.at = "rejected" /\ r.overlapped = call[c].overlapped /\ r.id = call[c].id
        /\ r.kind = call[c].kind /\ (r.kind = "settings" => r.token = NoToken)
    BY <1>0 DEF Call, KeptInv
  <2>. HIDE DEF r
  <2>. QED  BY <1>0, <2>1, <2>2, <2>3, KeptOwnStep
<1>2. CASE ~refused
  <2>. DEFINE W == Written(i, copy, changed)
  <2>1. /\ users' = [users EXCEPT ![i] = W]
        /\ call' = Overlap(c, i)
        /\ granted' = IF call[c].token # NoToken
                      THEN [granted EXCEPT ![i] = call[c].token] ELSE granted
        /\ chosen' = IF call[c].kind = "settings" /\ call[c].limit # NoLimit
                     THEN [chosen EXCEPT ![i] = copy.limit] ELSE chosen
        /\ UNCHANGED rotations
    BY <1>2 DEF WriteRow
  <2>2. /\ W.live
        /\ W.token = IF "token" \in changed THEN copy.token ELSE users[i].token
        /\ W.limit = IF "limit" \in changed THEN copy.limit ELSE users[i].limit
    BY <1>0 DEF Written, Row, Live
  <2>. HIDE DEF W
  <2>3. users'[i] = W /\ \A j \in Ids \ {i} : users'[j] = users[j]
    BY <1>0, <2>1 DEF AccountsInv, AccountsTypeOK
  <2>4. Live' = Live /\ Undefined' = Undefined /\ NoToken' = NoToken
    BY <1>0, <2>2, <2>3 DEF Live, Undefined, NoToken
  <2>5. \A d \in Calls :
          /\ call'[d].at = (IF d = c THEN "done" ELSE call[d].at)
          /\ call'[d].id = call[d].id /\ call'[d].kind = call[d].kind
          /\ call'[d].token = call[d].token /\ call'[d].limit = call[d].limit
          /\ call'[d].changed = call[d].changed /\ call'[d].copy = call[d].copy
          /\ call[d].overlapped => call'[d].overlapped
          /\ d # c /\ Loaded(d) /\ call[d].id = i => call'[d].overlapped
          /\ call'[d].overlapped => call[d].overlapped \/ Loaded(d)
    <3>1. TAKE d \in Calls
    <3>2. call[d] \in Call
      BY DEF AccountsInv, AccountsTypeOK
    <3>3. CASE d = c
      BY <2>1, <3>2, <3>3 DEF Overlap, Call
    <3>4. CASE d # c /\ Loaded(d) /\ call[d].id = i
      <4>1. call'[d] = [call[d] EXCEPT !.overlapped = TRUE]
        BY <2>1, <3>4 DEF Overlap, Loaded
      <4>. QED  BY <3>2, <3>4, <4>1 DEF Call
    <3>5. CASE d # c /\ ~(Loaded(d) /\ call[d].id = i)
      <4>1. call'[d] = call[d]
        BY <2>1, <3>5 DEF Overlap, Loaded
      <4>. QED  BY <3>2, <3>5, <4>1 DEF Call
    <3>. QED  BY <3>3, <3>4, <3>5
  <2>6. \A j \in Ids : /\ OverlappedBy(j, {"settings"}) => OverlappedBy(j, {"settings"})'
                       /\ OverlappedBy(j, Kinds) => OverlappedBy(j, Kinds)'
    BY <2>5 DEF OverlappedBy
  <2>7. call[c].overlapped /\ call[c].kind = "settings" => OverlappedBy(i, {"settings"})'
    BY <2>5 DEF OverlappedBy
  <2>8. TokenIsKept'
    <3>1. \A j \in Live \ {i} : granted'[j] = granted[j]
      BY <1>0, <2>1 DEF AccountsInv, AccountsTypeOK, Live
    <3>2. \A j \in Live \ {i} : users'[j].token # granted'[j] =>
             OverlappedBy(j, {"settings"})'
      BY <2>1, <2>3, <2>6, <3>1 DEF TokenIsKept, KeptInv, Kinds, Live
    <3>3. CASE call[c].kind = "settings"
      <4>1. call[c].token = NoToken /\ granted' = granted
        BY <2>1, <3>3 DEF KeptInv
      <4>2. ~call[c].overlapped => W.token = users[i].token
        BY <1>0, <2>2, <3>3 DEF TokenHeld
      <4>4. W.token # granted'[i] => OverlappedBy(i, {"settings"})'
        BY <1>0, <2>1, <2>6, <2>7, <3>3, <4>1, <4>2 DEF TokenIsKept, KeptInv, Live
      <4>. QED  BY <2>3, <2>4, <3>2, <4>4 DEF TokenIsKept
    <3>4. CASE call[c].kind # "settings" /\ call[c].token # NoToken
      <4>1. copy.token = call[c].token /\ call[c].token \in Tokens
        BY <1>0, <3>4 DEF TokenHeld, Assigned, Call
      <4>2. W.token = call[c].token /\ granted'[i] = call[c].token
        BY <1>0, <2>1, <2>2, <3>4, <4>1, TokenNumbers DEF AccountsInv, AccountsTypeOK
      <4>. QED  BY <2>3, <2>4, <3>2, <4>2 DEF TokenIsKept
    <3>5. CASE call[c].kind # "settings" /\ call[c].token = NoToken
      <4>1. copy.token = Undefined
        BY <1>0, <3>5 DEF TokenHeld, Assigned
      <4>2. W.token = users[i].token /\ granted' = granted
        BY <1>0, <2>1, <2>2, <3>5, <4>1
      <4>3. W.token # granted'[i] => OverlappedBy(i, {"settings"})'
        BY <1>0, <2>1, <2>6, <4>2 DEF TokenIsKept, KeptInv, Kinds
      <4>. QED  BY <2>3, <2>4, <3>2, <4>3 DEF TokenIsKept
    <3>. QED  BY <3>3, <3>4, <3>5
  <2>9. LimitIsKept'
    <3>1. \A j \in Live \ {i} : chosen'[j] = chosen[j]
      BY <1>0, <2>1 DEF AccountsInv, AccountsTypeOK, Live
    <3>2. \A j \in Live \ {i} : users'[j].limit # chosen'[j] => OverlappedBy(j, Kinds)'
      BY <2>3, <2>6, <3>1 DEF LimitIsKept, KeptInv, Live
    <3>3. call[c].overlapped => OverlappedBy(i, Kinds)'
      BY <1>0, <2>5 DEF OverlappedBy, Call
    <3>4. ~call[c].overlapped /\ call[c].kind = "settings" /\ call[c].limit # NoLimit =>
             W.limit = chosen'[i]
      BY <1>0, <2>1, <2>2 DEF LimitHeld, AccountsInv, AccountsTypeOK
    <3>5. ~call[c].overlapped /\ (call[c].kind # "settings" \/ call[c].limit = NoLimit) =>
             W.limit = users[i].limit /\ chosen'[i] = chosen[i]
      BY <1>0, <2>1, <2>2 DEF LimitHeld
    <3>6. W.limit # chosen'[i] => OverlappedBy(i, Kinds)'
      BY <1>0, <2>6, <3>3, <3>4, <3>5 DEF LimitIsKept, KeptInv
    <3>. QED  BY <2>3, <2>4, <3>2, <3>6 DEF LimitIsKept
  <2>11. \A j \in Ids \ Live' : chosen'[j] = DefaultLimit
    BY <1>0, <2>1, <2>4 DEF KeptInv, AccountsInv, AccountsTypeOK
  <2>12. ASSUME NEW d \in Calls PROVE Loaded(d)' => TokenHeld(d)' /\ LimitHeld(d)'
    <3>1. CASE d = c \/ ~Loaded(d)
      BY <2>5, <3>1 DEF Loaded
    <3>2. CASE d # c /\ Loaded(d) /\ call[d].id = i
      <4>1. call'[d].overlapped /\ TokenHeld(d)
        BY <2>5, <3>2 DEF KeptInv
      <4>. QED  BY <2>4, <2>5, <4>1 DEF TokenHeld, LimitHeld, Assigned
    <3>3. CASE d # c /\ Loaded(d) /\ call[d].id # i
      <4>1. call[d].id \in Ids /\ TokenHeld(d) /\ LimitHeld(d)
        BY <3>3 DEF KeptInv, AccountsInv, CallHasRow, Live, Loaded
      <4>2. users'[call[d].id] = users[call[d].id]
        BY <2>3, <3>3, <4>1
      <4>. QED  BY <2>1, <2>4, <2>5, <3>3, <4>1, <4>2 DEF TokenHeld, LimitHeld, Assigned
    <3>. QED  BY <3>1, <3>2, <3>3
  <2>13. ASSUME NEW d \in Calls
         PROVE  /\ call'[d].at = "unused" \/ call'[d].kind = "settings" => call'[d].token = NoToken
                /\ call'[d].at \in {"unused", "find", "insert"} => ~call'[d].overlapped
                /\ call'[d].at = "write" =>
                     (call'[d].copy.token \notin {Undefined, NoToken} <=>
                        "token" \in call'[d].changed)
    BY <1>0, <2>5 DEF KeptInv, Loaded
  <2>. QED  BY <2>4, <2>8, <2>9, <2>11, <2>12, <2>13 DEF KeptInv
<1>. QED  BY <1>1, <1>2

LEMMA KeptStep == AccountsInv /\ KeptInv /\ [AccountStep]_accountVars => KeptInv'
<1>. SUFFICES ASSUME AccountsInv, KeptInv, [AccountStep]_accountVars PROVE KeptInv'
  OBVIOUS
<1>1. CASE \E c \in Calls, kind \in CallKinds, p \in Providers, e \in Emails \cup {NoEmail} :
             \E token \in {NoToken, c} : SignIn(c, kind, p, e, token)
  BY <1>1, KeptSignIn
<1>2. CASE \E c \in Calls, i \in Ids, limit \in Limits \cup {NoLimit} :
             Settings(c, i, limit)
  BY <1>2, KeptSettings
<1>3. CASE \E c \in Calls : FindUser(c) \/ InsertUser(c) \/ ReadUser(c)
  BY <1>3, KeptFindUser, KeptInsertUser, KeptReadUser
<1>4. CASE \E c \in Calls : CompareRow(c) \/ WriteRow(c)
  <2>1. \A c \in Calls : WriteRow(c) => call[c].id \in Ids
    BY DEF AccountsInv, CallHasRow, WriteRow, Live
  <2>. QED  BY <1>4, <2>1, KeptCompareRow, KeptWriteRow
<1>. USE DEF KeptInv, TokenIsKept, LimitIsKept, Live, Loaded, TokenHeld, LimitHeld, Assigned,
             Undefined, NoToken, OverlappedBy
<1>5. CASE RotateKey
  <2>1. UNCHANGED <<users, call, session, granted, chosen>>
    BY <1>5 DEF RotateKey
  <2>. QED  BY <2>1
<1>6. CASE UNCHANGED accountVars
  BY <1>6 DEF accountVars
<1>. QED  BY <1>1, <1>2, <1>3, <1>4, <1>5, <1>6 DEF AccountStep

(* A refresh token a sign-in stored is lost only to a settings call that     *)
(* overlapped the sign-in: a settings call that could not decrypt the token  *)
(* holds null, and save does not write null over a column it has not read.   *)
THEOREM TokensAreKept == AccountsSpec => []TokenIsKept
<1>1. AccountsInv /\ KeptInv /\ [AccountStep]_accountVars => (AccountsInv /\ KeptInv)'
  BY AccountsInvStep, KeptStep
<1>2. KeptInv => TokenIsKept
  BY DEF KeptInv
<1>. QED  BY <1>1, <1>2, AccountsInvInit, KeptInit, PTL DEF AccountsSpec

(* A limit a settings call stored is lost only to a call that overlapped it. *)
THEOREM LimitsAreKept == AccountsSpec => []LimitIsKept
<1>1. AccountsInv /\ KeptInv /\ [AccountStep]_accountVars => (AccountsInv /\ KeptInv)'
  BY AccountsInvStep, KeptStep
<1>2. KeptInv => LimitIsKept
  BY DEF KeptInv
<1>. QED  BY <1>1, <1>2, AccountsInvInit, KeptInit, PTL DEF AccountsSpec

-----------------------------------------------------------------------------
(* The test emails of DailyQuota. *)

(* What the row of a test email says at each place of the request.           *)
TestSays(t) ==
    /\ test[t].at \in {"unused", "log"} => test[t].log = "none" /\ ~test[t].mailed
    /\ test[t].at \in {"prepare", "send"} => ~test[t].mailed
    /\ test[t].at \in {"prepare", "send", "record", "fail"} =>
         test[t].log \in {"queued", "pending", "gone"}
    /\ test[t].at = "record" => test[t].mailed
    /\ test[t].at = "done" => test[t].log \in {"sent", "gone"} /\ test[t].mailed
    /\ test[t].at = "rejected" => test[t].log # "sent"
    /\ test[t].at \in {"fail", "rejected"} /\ test[t].mailed => test[t].lost

TestInv ==
    /\ test \in [Tests -> Test]
    /\ \A t \in Tests : TestSays(t) /\ (test[t].log = "gone" => test[t].campaign \notin live)

LEMMA TestSaysStep == TestInv /\ [Next]_quotaVars => TestInv'
<1>. SUFFICES ASSUME TestInv, [Next]_quotaVars PROVE TestInv'
  OBVIOUS
<1>0. live' \subseteq live
  BY DEF Next, QuotaStep, quotaVars, Authenticate, ReadCampaign, CountToday, SaveLogs,
     DeleteCampaign, ParkLogs, BeginTest, SaveTestLog, PrepareTest, SendTest, RecordTest,
     FailTest, Midnight
<1>1. CASE UNCHANGED test
  BY <1>0, <1>1 DEF TestInv, TestSays
<1>3. ASSUME NEW t \in Tests, BeginTest(t) PROVE TestInv'
  BY <1>0, <1>3 DEF BeginTest, TestGoes, TestInv, TestSays, Test
<1>4. ASSUME NEW t \in Tests, SaveTestLog(t) PROVE TestInv'
  BY <1>0, <1>4 DEF SaveTestLog, TestGoes, TestInv, TestSays, Test
<1>5. ASSUME NEW t \in Tests, PrepareTest(t) PROVE TestInv'
  BY <1>0, <1>5 DEF PrepareTest, TestGoes, TestInv, TestSays, Test
<1>6. ASSUME NEW t \in Tests, SendTest(t) PROVE TestInv'
  <2>1. test[t] \in Test /\ test[t].at = "send" /\ TestSays(t)
    BY <1>6 DEF SendTest, TestInv
  <2>2. CASE TestGoes(t, "fail")
    BY <1>0, <2>1, <2>2 DEF TestGoes, TestInv, TestSays, Test
  <2>3. ASSUME NEW lost \in BOOLEAN, NEW place \in {"fail", "record"}, lost = (place = "fail"),
               test' = [test EXCEPT ![t].mailed = TRUE, ![t].lost = lost, ![t].at = place]
        PROVE  TestInv'
    <3>. DEFINE row == [test[t] EXCEPT !.mailed = TRUE, !.lost = lost, !.at = place]
    <3>1. row \in Test /\ row.at = place /\ row.mailed = TRUE /\ row.lost = lost
          /\ row.log = test[t].log /\ row.campaign = test[t].campaign
      BY <2>1 DEF Test
    <3>2. \A u \in Tests : test'[u] = IF u = t THEN row ELSE test[u]
      BY <2>3 DEF TestInv
    <3>3. test' \in [Tests -> Test]
      BY <2>3, <3>1 DEF TestInv
    <3>4. place = "fail" => lost = TRUE
      BY <2>3
    <3>. HIDE DEF row
    <3>5. TestSays(t)'
      BY <2>1, <3>1, <3>2, <3>4 DEF TestSays
    <3>6. \A u \in Tests \ {t} : TestSays(u)'
      BY <3>2 DEF TestInv, TestSays
    <3>7. \A u \in Tests : test'[u].log = "gone" => test'[u].campaign \notin live'
      BY <1>0, <3>1, <3>2 DEF TestInv
    <3>. QED  BY <3>3, <3>5, <3>6, <3>7 DEF TestInv
  <2>. QED  BY <1>6, <2>2, <2>3 DEF SendTest
<1>7. ASSUME NEW t \in Tests, RecordTest(t) PROVE TestInv'
  BY <1>0, <1>7 DEF RecordTest, Marked, TestGoes, TestInv, TestSays, Test
<1>8. ASSUME NEW t \in Tests, FailTest(t) PROVE TestInv'
  BY <1>0, <1>8 DEF FailTest, Marked, TestGoes, TestInv, TestSays, Test
<1>9. ASSUME NEW k \in Campaigns, ParkLogs(k) PROVE TestInv'
  <2>1. \A t \in Tests : test'[t] = IF test[t].campaign = k /\ test[t].log \in Parkable
                                   THEN [test[t] EXCEPT !.log = "pending"] ELSE test[t]
    BY <1>9 DEF ParkLogs
  <2>2. ASSUME NEW t \in Tests
        PROVE  /\ test'[t] \in Test /\ TestSays(t)'
               /\ test'[t].log = "gone" => test'[t].campaign \notin live'
    <3>1. test[t] \in Test /\ TestSays(t) /\ (test[t].log = "gone" => test[t].campaign \notin live)
      BY DEF TestInv
    <3>2. CASE test'[t] = test[t]
      BY <1>0, <3>1, <3>2 DEF TestSays
    <3>3. CASE test'[t] = [test[t] EXCEPT !.log = "pending"] /\ test[t].log \in {"queued", "sending"}
      BY <3>1, <3>3 DEF TestSays, Test
    <3>. QED  BY <2>1, <3>2, <3>3 DEF Parkable
  <2>3. test' \in [Tests -> Test]
    BY <1>9, <2>2 DEF ParkLogs
  <2>. QED  BY <2>2, <2>3 DEF TestInv
<1>10. ASSUME NEW k \in Campaigns, DeleteCampaign(k) PROVE TestInv'
  <2>1. \A t \in Tests : test'[t] = IF test[t].campaign = k /\ test[t].log # "none"
                                   THEN [test[t] EXCEPT !.log = "gone"] ELSE test[t]
    BY <1>10 DEF DeleteCampaign
  <2>2. k \notin live'
    BY <1>10 DEF DeleteCampaign
  <2>3. ASSUME NEW t \in Tests
        PROVE  /\ test'[t] \in Test /\ TestSays(t)'
               /\ test'[t].log = "gone" => test'[t].campaign \notin live'
    <3>1. test[t] \in Test /\ TestSays(t) /\ (test[t].log = "gone" => test[t].campaign \notin live)
      BY DEF TestInv
    <3>2. CASE test'[t] = test[t]
      BY <1>0, <3>1, <3>2 DEF TestSays
    <3>3. CASE /\ test'[t] = [test[t] EXCEPT !.log = "gone"]
               /\ test[t].campaign = k /\ test[t].log # "none"
      BY <2>2, <3>1, <3>3 DEF TestSays, Test
    <3>. QED  BY <2>1, <3>2, <3>3
  <2>4. test' \in [Tests -> Test]
    BY <1>10, <2>3 DEF DeleteCampaign
  <2>. QED  BY <2>3, <2>4 DEF TestInv
<1>. QED
  BY <1>1, <1>3, <1>4, <1>5, <1>6, <1>7, <1>8, <1>9, <1>10
     DEF Next, QuotaStep, quotaVars, Authenticate, ReadCampaign, CountToday, SaveLogs, Midnight

(* A test email answered with success is recorded as sent as long as its     *)
(* campaign is there, a "sent" one was taken by Gmail, and a "failed" one    *)
(* was not or its answer was lost.                                           *)
THEOREM TestsTold == Spec => []TestsAreTold
<1>1. QuotaInit => TestInv
  BY DEF QuotaInit, TestInv, TestSays, Test
<1>2. TestInv /\ [Next]_quotaVars => TestInv'
  BY TestSaysStep
<1>3. TestInv => TestsAreTold
  BY DEF TestInv, TestSays, TestsAreTold, Test
<1>. QED  BY <1>1, <1>2, <1>3, PTL DEF Spec

-----------------------------------------------------------------------------
(* DailyLimitHolds.  What a send counted is still all there is when it saves, *)
(* unless another send saved in between, which overlaps it: rows only go.    *)

(* A send's number of recipients is a number. *)
LEMMA SizesAreNumbers ==
    ASSUME send \in [Sends -> Send], NEW s \in Sends PROVE send[s].size \in Nat
<1>1. send[s].size \in Sizes \cup {0}
  BY DEF Send
<1>2. \A n \in Sizes : n \in Nat
  BY QuotaAssumption
<1>3. 0 \in Nat
  OBVIOUS
<1>. QED  BY <1>1, <1>2, <1>3

(* The log rows of a set of sends: finitely many, more for more sends, and   *)
(* one send adds at most one for each of its recipients.                     *)
LEMMA RowsAreFinite ==
    ASSUME send \in [Sends -> Send], NEW S \in SUBSET Sends
    PROVE  IsFiniteSet(RowsOf(S)) /\ Cardinality(RowsOf(S)) \in Nat
<1>. DEFINE rows(s) == {s} \X (1..send[s].size)
            each    == [s \in S |-> rows(s)]
<1>1. IsFiniteSet(S)
  BY FS_Subset, QuotaAssumption
<1>2. \A s \in S : IsFiniteSet(rows(s))
  <2>1. ASSUME NEW s \in S PROVE IsFiniteSet(rows(s))
    <3>1. send[s].size \in Int /\ 1 \in Int
      BY SizesAreNumbers
    <3>2. IsFiniteSet({s}) /\ IsFiniteSet(1..send[s].size)
      BY <3>1, FS_Singleton, FS_Interval
    <3>. QED  BY <3>2, FS_Product
  <2>. QED  BY <2>1
<1>3. each \in Surjection(S, {rows(s) : s \in S})
  BY DEF Surjection
<1>4. IsFiniteSet({rows(s) : s \in S})
  <2>. HIDE DEF rows, each
  <2>. QED  BY <1>1, <1>3, FS_Surjection
<1>5. \A T \in {rows(s) : s \in S} : IsFiniteSet(T)
  BY <1>2
<1>6. IsFiniteSet(UNION {rows(s) : s \in S})
  <2>. HIDE DEF rows, each
  <2>. QED  BY <1>4, <1>5, FS_UNION
<1>7. IsFiniteSet(RowsOf(S))
  BY <1>6 DEF RowsOf
<1>. QED  BY <1>7, FS_CardinalityType

LEMMA RowsGrow ==
    ASSUME send \in [Sends -> Send], NEW T \in SUBSET Sends, NEW S \in SUBSET T
    PROVE  Cardinality(RowsOf(S)) <= Cardinality(RowsOf(T))
<1>1. RowsOf(S) \in SUBSET RowsOf(T)
  BY DEF RowsOf
<1>. QED  BY <1>1, RowsAreFinite, FS_Subset

LEMMA RowsAdded ==
    ASSUME send \in [Sends -> Send], NEW S \in SUBSET Sends, NEW s \in Sends
    PROVE  Cardinality(RowsOf(S \cup {s})) <= Cardinality(RowsOf(S)) + send[s].size
<1>. DEFINE own == {s} \X (1..send[s].size)
<1>0. send[s].size \in Nat /\ send[s].size \in Int
  BY SizesAreNumbers
<1>1. RowsOf(S \cup {s}) = RowsOf(S) \cup own
  BY DEF RowsOf
<1>2. IsFiniteSet(own) /\ Cardinality(own) = send[s].size
  <2>1. IsFiniteSet({s}) /\ Cardinality({s}) = 1
    BY FS_Singleton
  <2>2. IsFiniteSet(1..send[s].size) /\ Cardinality(1..send[s].size) = send[s].size
    <3>1. IsFiniteSet(1..send[s].size)
          /\ Cardinality(1..send[s].size) = IF 1 > send[s].size THEN 0 ELSE send[s].size - 1 + 1
      BY <1>0, FS_Interval, SMTT(30)
    <3>. QED  BY <1>0, <3>1
  <2>3. ASSUME NEW T, IsFiniteSet(T)
        PROVE  IsFiniteSet({s} \X T) /\ Cardinality({s} \X T) = Cardinality({s}) * Cardinality(T)
    BY <2>1, <2>3, FS_Product
  <2>4. IsFiniteSet(own) /\ Cardinality(own) = Cardinality({s}) * Cardinality(1..send[s].size)
    BY <2>2, <2>3
  <2>. QED  BY <1>0, <2>1, <2>2, <2>4
<1>3. IsFiniteSet(RowsOf(S)) /\ Cardinality(RowsOf(S)) \in Nat
  BY RowsAreFinite
<1>. HIDE DEF own
<1>4. /\ Cardinality(RowsOf(S) \cup own)
         = Cardinality(RowsOf(S)) + Cardinality(own) - Cardinality(RowsOf(S) \cap own)
  BY <1>2, <1>3, FS_Union
<1>5. Cardinality(RowsOf(S) \cap own) \in Nat
  BY <1>3, FS_Intersection, FS_CardinalityType
<1>6. ASSUME NEW a \in Nat, NEW b \in Nat, NEW c \in Nat, NEW n, n = a + b - c
      PROVE  n <= a + b
  BY <1>6
<1>. QED  BY <1>0, <1>1, <1>2, <1>3, <1>4, <1>5, <1>6

(* What the values of a send say of the rows saved so far.  A send that has  *)
(* counted and that no other overlaps still has its emails within its limit. *)
Counted(s) ==
    /\ send[s].savedOn # -1 => send[s].at = "done" /\ send[s].savedOn <= day
    /\ send[s].at \in {"count", "save"} => send[s].today <= day
    /\ send[s].at = "save" /\ ~send[s].overlapped =>
         Cardinality(RowsOf(SavedSince(send[s].today))) + send[s].size <= send[s].limit

QuotaInv ==
    /\ QuotaTypeOK
    /\ \A s \in Sends : Counted(s)
    /\ DailyLimitHolds

LEMMA NumbersOfASend ==
    ASSUME QuotaTypeOK, NEW s \in Sends
    PROVE  /\ send[s] \in Send /\ send[s].size \in Nat /\ send[s].limit \in Nat
           /\ send[s].today \in Nat /\ send[s].savedOn \in Nat \cup {-1}
           /\ day \in Nat /\ day \in Days
<1>1. send[s] \in Send
  BY DEF QuotaTypeOK
<1>2. send[s].size \in Nat
  BY SizesAreNumbers DEF QuotaTypeOK
<1>3. send[s].limit \in Nat
  <2>1. send[s].limit \in Limits
    BY <1>1 DEF Send
  <2>. QED  BY <2>1, AccountsAssumption
<1>4. Days \subseteq Nat
  BY QuotaAssumption DEF Days
<1>5. send[s].today \in Days /\ send[s].savedOn \in Days \cup {-1} /\ day \in Days
  BY <1>1 DEF Send, QuotaTypeOK
<1>. QED  BY <1>1, <1>2, <1>3, <1>4, <1>5

(* A step that saves nothing and changes no send that has saved: a deletion  *)
(* takes rows away, and whoever waits to save still has room.                *)
SavesNothing ==
    /\ day' \in Days /\ day <= day' /\ live' \subseteq live
    /\ \A s \in Sends : /\ send'[s].savedOn = send[s].savedOn
                        /\ send[s].savedOn # -1 => send'[s] = send[s]

LEMMA SameSaved ==
    ASSUME QuotaTypeOK, SavesNothing, NEW d \in Nat
    PROVE  /\ SavedOn(d)' = SavedOn(d) /\ QueuedOn(d)' = QueuedOn(d)
           /\ Cardinality(RowsOf(SavedSince(d))') \in Nat
           /\ Cardinality(RowsOf(SavedSince(d))) \in Nat
           /\ Cardinality(RowsOf(SavedSince(d))') <= Cardinality(RowsOf(SavedSince(d)))
<1>1. SavedOn(d)' = SavedOn(d)
  BY DEF SavedOn, SavesNothing
<1>2. \A s \in SavedOn(d) \cup SavedSince(d) : send'[s].size = send[s].size
  <2>1. ASSUME NEW s \in SavedOn(d) \cup SavedSince(d) PROVE send'[s].size = send[s].size
    <3>1. send[s].savedOn >= d \/ send[s].savedOn = d
      BY DEF SavedOn, SavedSince
    <3>2. send[s].savedOn # -1
      BY <3>1
    <3>. QED  BY <3>2 DEF SavesNothing, SavedOn, SavedSince
  <2>. QED  BY <2>1
<1>3. RowsOf(SavedOn(d))' = RowsOf(SavedOn(d))
  <2>1. {{s} \X (1..send'[s].size) : s \in SavedOn(d)'}
        = {{s} \X (1..send[s].size) : s \in SavedOn(d)}
    BY <1>1, <1>2
  <2>. QED  BY <2>1 DEF RowsOf
<1>4. PICK S : S = SavedSince(d)'
  OBVIOUS
<1>5. S \subseteq SavedSince(d) /\ SavedSince(d) \in SUBSET Sends
  BY <1>4 DEF SavedSince, SavesNothing
<1>6. RowsOf(SavedSince(d))' = RowsOf(S)
  <2>1. {{s} \X (1..send'[s].size) : s \in S} = {{s} \X (1..send[s].size) : s \in S}
    BY <1>2, <1>5
  <2>. QED  BY <1>4, <2>1 DEF RowsOf
<1>7. /\ Cardinality(RowsOf(S)) \in Nat /\ Cardinality(RowsOf(SavedSince(d))) \in Nat
      /\ Cardinality(RowsOf(S)) <= Cardinality(RowsOf(SavedSince(d)))
  BY <1>5, RowsGrow, RowsAreFinite DEF QuotaTypeOK
<1>. QED  BY <1>1, <1>3, <1>6, <1>7 DEF QueuedOn

LEMMA NothingSaved ==
    ASSUME QuotaInv, QuotaTypeOK', SavesNothing,
           \A s \in Sends : Counted(s)' \/ send'[s] = send[s]
    PROVE  QuotaInv'
<1>1. ASSUME NEW s \in Sends PROVE Counted(s)'
  <2>1. CASE send'[s] = send[s]
    <3>1. PICK d \in Nat : d = send[s].today
      BY NumbersOfASend DEF QuotaInv
    <3>2. /\ Cardinality(RowsOf(SavedSince(d))') \in Nat
          /\ Cardinality(RowsOf(SavedSince(d))) \in Nat
          /\ Cardinality(RowsOf(SavedSince(d))') <= Cardinality(RowsOf(SavedSince(d)))
      BY <3>1, SameSaved DEF QuotaInv
    <3>3. Counted(s) /\ day \in Nat /\ day' \in Nat /\ day <= day'
      BY NumbersOfASend, QuotaAssumption DEF QuotaInv, SavesNothing, Days
    <3>4. /\ send[s].savedOn # -1 => send[s].at = "done" /\ send[s].savedOn <= day'
          /\ send[s].at \in {"count", "save"} => send[s].today <= day'
      BY <3>3, NumbersOfASend DEF Counted, QuotaInv
    <3>5. send[s].at = "save" /\ ~send[s].overlapped =>
            Cardinality(RowsOf(SavedSince(d))') + send[s].size <= send[s].limit
      BY <3>1, <3>2, <3>3, NumbersOfASend DEF Counted, QuotaInv
    <3>6. RowsOf(SavedSince(send[s].today))' = RowsOf(SavedSince(d))'
      BY <2>1, <3>1
    <3>. QED  BY <2>1, <3>4, <3>5, <3>6 DEF Counted
  <2>. QED  BY <2>1
<1>2. ASSUME NEW d \in Days, SavedOn(d)' # {}
      PROVE  \/ \E s \in SavedOn(d)' : QueuedOn(d)' <= send'[s].limit
             \/ \E s \in SavedOn(d)' : send'[s].overlapped \/ send'[s].campaign \notin live'
  <2>1. d \in Nat
    BY QuotaAssumption DEF Days
  <2>2. SavedOn(d)' = SavedOn(d) /\ QueuedOn(d)' = QueuedOn(d)
    BY <2>1, SameSaved DEF QuotaInv
  <2>3. \A s \in SavedOn(d) : send'[s] = send[s]
    BY <2>1 DEF SavedOn, SavesNothing
  <2>4. \/ \E s \in SavedOn(d) : QueuedOn(d) <= send[s].limit
        \/ \E s \in SavedOn(d) : send[s].overlapped \/ send[s].campaign \notin live
    BY <1>2, <2>2 DEF QuotaInv, DailyLimitHolds
  <2>. QED  BY <2>2, <2>3, <2>4 DEF SavesNothing
<1>. QED  BY <1>1, <1>2 DEF QuotaInv, DailyLimitHolds

(* Types of DailyQuota: what the accounts hold is theirs.                    *)
LEMMA OwnOrAccounts ==
    ASSUME [Next]_quotaVars
    PROVE  [AccountStep]_accountVars
  BY DEF Next, QuotaStep, quotaVars, accountVars, Authenticate, ReadCampaign, CountToday,
     SaveLogs, DeleteCampaign, ParkLogs, BeginTest, SaveTestLog, PrepareTest, SendTest,
     RecordTest, FailTest, Midnight

LEMMA SendTypes ==
    ASSUME AccountsTypeOK, QuotaTypeOK, Next
    PROVE  send' \in [Sends -> Send] /\ day' \in Days /\ live' \subseteq Campaigns
<1>1. send \in [Sends -> Send] /\ day \in Days /\ live \subseteq Campaigns
  BY DEF QuotaTypeOK
<1>2. ASSUME NEW s \in Sends, NEW row \in Send, send' = [send EXCEPT ![s] = row]
      PROVE  send' \in [Sends -> Send]
  BY <1>1, <1>2
<1>3. ASSUME NEW s \in Sends, Authenticate(s) PROVE send' \in [Sends -> Send]
  <2>1. users[1].limit \in Limits
    <3>1. 1 \in Ids
      BY QuotaAssumption, InitialUsersAssumption
    <3>. QED  BY <3>1 DEF AccountsTypeOK, Row
  <2>2. send[s] \in Send
    BY <1>1
  <2>3. [send[s] EXCEPT !.at = "read", !.limit = users[1].limit] \in Send
    BY <2>1, <2>2 DEF Send
  <2>. QED  BY <1>1, <1>3, <2>3 DEF Authenticate
<1>4. ASSUME NEW s \in Sends, ReadCampaign(s) PROVE send' \in [Sends -> Send]
  <2>1. send[s] \in Send
    BY <1>1
  <2>2. ASSUME NEW n \in Sizes
        PROVE  [send[s] EXCEPT !.at = "count", !.size = n, !.today = day] \in Send
    BY <1>1, <2>1, <2>2 DEF Send
  <2>3. [send[s] EXCEPT !.at = "rejected"] \in Send
    BY <2>1 DEF Send
  <2>4. ASSUME NEW row \in Send, send' = [send EXCEPT ![s] = row] PROVE send' \in [Sends -> Send]
    BY <1>1, <2>4
  <2>5. \/ \E n \in Sizes :
             send' = [send EXCEPT ![s] = [send[s] EXCEPT !.at = "count", !.size = n, !.today = day]]
        \/ send' = [send EXCEPT ![s] = [send[s] EXCEPT !.at = "rejected"]]
    BY <1>1, <1>4 DEF ReadCampaign
  <2>. QED  BY <2>2, <2>3, <2>4, <2>5
<1>5. ASSUME NEW s \in Sends, CountToday(s) PROVE send' \in [Sends -> Send]
  <2>1. \A place \in {"save", "rejected"} : [send[s] EXCEPT !.at = place] \in Send
    BY <1>1 DEF Send
  <2>. QED  BY <1>1, <1>5, <2>1 DEF CountToday
<1>6. ASSUME NEW s \in Sends, SaveLogs(s) PROVE send' \in [Sends -> Send]
  <2>1. [send[s] EXCEPT !.at = "rejected"] \in Send
    BY <1>1 DEF Send
  <2>2. [send[s] EXCEPT !.at = "done", !.savedOn = day] \in Send
    BY <1>1 DEF Send
  <2>3. \A u \in Sends : [send[u] EXCEPT !.overlapped = @ \/ send[u].at = "save"] \in Send
    <3>1. ASSUME NEW u \in Sends
          PROVE  [send[u] EXCEPT !.overlapped = @ \/ send[u].at = "save"] \in Send
      <4>1. send[u] \in Send
        BY <1>1
      <4>2. (send[u].overlapped \/ send[u].at = "save") \in BOOLEAN
        OBVIOUS
      <4>. QED  BY <4>1, <4>2 DEF Send
    <3>. QED  BY <3>1
  <2>. QED  BY <1>1, <1>6, <2>1, <2>2, <2>3 DEF SaveLogs
<1>7. ASSUME UNCHANGED send PROVE send' \in [Sends -> Send]
  BY <1>1, <1>7
<1>8. day' \in Days /\ live' \subseteq Campaigns
  <2>1. CASE Midnight
    BY <1>1, <2>1, QuotaAssumption DEF Midnight, Days
  <2>2. ASSUME NEW k \in Campaigns, DeleteCampaign(k)
        PROVE  day' \in Days /\ live' \subseteq Campaigns
    BY <1>1, <2>2 DEF DeleteCampaign
  <2>3. CASE UNCHANGED <<day, live>>
    BY <1>1, <2>3
  <2>. QED
    BY <2>1, <2>2, <2>3
       DEF Next, QuotaStep, Authenticate, ReadCampaign, CountToday, SaveLogs, ParkLogs,
           BeginTest, SaveTestLog, PrepareTest, SendTest, RecordTest, FailTest
<1>. QED
  BY <1>3, <1>4, <1>5, <1>6, <1>7, <1>8
     DEF Next, QuotaStep, DeleteCampaign, ParkLogs, BeginTest, SaveTestLog, PrepareTest,
         SendTest, RecordTest, FailTest, Midnight

(* The accounts and the test emails are as their own invariants say.         *)
QuotaTypes == AccountsInv /\ TestInv /\ QuotaTypeOK

LEMMA QuotaTypesInvariant == Spec => []QuotaTypes
<1>1. QuotaInit => QuotaTypes
  <2> SUFFICES ASSUME QuotaInit PROVE QuotaTypes
    OBVIOUS
  <2>1. AccountsInv
    BY AccountsInvInit DEF QuotaInit
  <2>2. TestInv
    BY DEF QuotaInit, TestInv, TestSays, Test
  <2>3. send \in [Sends -> Send]
    <3>1. 0 \in Days /\ DefaultLimit \in Limits
      BY QuotaAssumption, AccountsAssumption DEF Days
    <3>2. [at: {"unused"}, campaign: Campaigns, limit: {DefaultLimit}, size: {0},
           today: {0}, savedOn: {-1}, overlapped: {FALSE}] \subseteq Send
      BY <3>1 DEF Send
    <3>. QED  BY <3>2 DEF QuotaInit
  <2>4. day \in Days /\ live \subseteq Campaigns
    BY QuotaAssumption DEF QuotaInit, Days
  <2>. QED  BY <2>1, <2>2, <2>3, <2>4 DEF QuotaTypes, QuotaTypeOK, AccountsInv, TestInv
<1>2. QuotaTypes /\ [Next]_quotaVars => QuotaTypes'
  <2> SUFFICES ASSUME QuotaTypes, [Next]_quotaVars PROVE QuotaTypes'
    OBVIOUS
  <2>1. AccountsInv' /\ TestInv'
    BY OwnOrAccounts, AccountsInvStep, TestSaysStep DEF QuotaTypes
  <2>2. send' \in [Sends -> Send] /\ day' \in Days /\ live' \subseteq Campaigns
    BY SendTypes DEF QuotaTypes, QuotaTypeOK, quotaVars
  <2>. QED  BY <2>1, <2>2 DEF QuotaTypes, QuotaTypeOK, AccountsInv, TestInv
<1>. QED  BY <1>1, <1>2, PTL DEF Spec

(* The one step that saves: if the day's other sends leave no way out, this  *)
(* one was not overlapped, so what it counted is still all there is.         *)
LEMMA SaveKeepsQuota ==
    ASSUME QuotaInv, QuotaTypeOK', NEW s \in Sends, send[s].at = "save",
           send' = [u \in Sends |->
              IF u = s THEN [send[s] EXCEPT !.at = "done", !.savedOn = day]
              ELSE [send[u] EXCEPT !.overlapped = @ \/ send[u].at = "save"]],
           UNCHANGED <<day, live>>
    PROVE  QuotaInv'
<1>1. \A u \in Sends : send[u] \in Send
  BY DEF QuotaInv, QuotaTypeOK
<1>2. \A u \in Sends \ {s} :
         /\ send'[u].at = send[u].at /\ send'[u].savedOn = send[u].savedOn
         /\ send'[u].size = send[u].size /\ send'[u].limit = send[u].limit
         /\ send'[u].today = send[u].today /\ send'[u].campaign = send[u].campaign
         /\ send[u].overlapped => send'[u].overlapped
         /\ send[u].at = "save" => send'[u].overlapped
  BY <1>1 DEF Send
<1>3. /\ send'[s].at = "done" /\ send'[s].savedOn = day
      /\ send'[s].size = send[s].size /\ send'[s].limit = send[s].limit
      /\ send'[s].campaign = send[s].campaign /\ send'[s].overlapped = send[s].overlapped
  BY <1>1 DEF Send
<1>4. ASSUME NEW u \in Sends PROVE Counted(u)'
  <2>1. day \in Nat /\ Counted(u)
    BY NumbersOfASend DEF QuotaInv
  <2>2. CASE u = s
    BY <1>3, <2>1, <2>2 DEF Counted
  <2>3. CASE u # s
    BY <1>2, <2>1, <2>3 DEF Counted
  <2>. QED  BY <2>2, <2>3
<1>5. send[s].savedOn = -1
  BY DEF QuotaInv, Counted
<1>6. ASSUME NEW d \in Days, SavedOn(d)' # {},
             \A u \in SavedOn(d)' : ~send'[u].overlapped /\ send'[u].campaign \in live'
      PROVE  \E u \in SavedOn(d)' : QueuedOn(d)' <= send'[u].limit
  <2>0. d \in Nat
    BY QuotaAssumption DEF Days
  <2>2. PICK S : S = SavedOn(d)'
    OBVIOUS
  <2>3. \A u \in S : u \in Sends /\ ~send'[u].overlapped /\ send'[u].campaign \in live
    BY <1>6, <2>2 DEF SavedOn
  <2>4. RowsOf(SavedOn(d))' = RowsOf(S)
    <3>1. \A u \in S : send'[u].size = send[u].size
      BY <1>2, <1>3, <2>3
    <3>2. {{u} \X (1..send'[u].size) : u \in S} = {{u} \X (1..send[u].size) : u \in S}
      BY <3>1
    <3>. QED  BY <2>2, <3>2 DEF RowsOf
  <2>5. CASE d = day
    <3>1. S = SavedOn(d) \cup {s}
      BY <1>2, <1>3, <2>2, <2>5 DEF SavedOn
    <3>2. ~send[s].overlapped
      BY <1>3, <2>3, <3>1
    <3>3. /\ Cardinality(RowsOf(SavedSince(send[s].today))) + send[s].size <= send[s].limit
          /\ send[s].today <= day
      BY <3>2 DEF QuotaInv, Counted
    <3>4. /\ SavedOn(d) \in SUBSET SavedSince(send[s].today)
          /\ SavedSince(send[s].today) \in SUBSET Sends
      <4>1. ASSUME NEW u \in SavedOn(d) PROVE u \in SavedSince(send[s].today)
        <5>1. u \in S /\ u \in Sends /\ u # s /\ send[u].savedOn = d
          BY <1>5, <2>0, <3>1, <4>1 DEF SavedOn
        <5>2. send[u].campaign \in live
          BY <1>2, <2>3, <5>1
        <5>3. send[u].savedOn >= send[s].today
          BY <2>0, <2>5, <3>3, <5>1, NumbersOfASend DEF QuotaInv
        <5>. QED  BY <5>1, <5>2, <5>3 DEF SavedSince
      <4>. QED  BY <4>1 DEF SavedSince
    <3>5. Cardinality(RowsOf(SavedOn(d))) <= Cardinality(RowsOf(SavedSince(send[s].today)))
      BY <3>4, RowsGrow DEF QuotaInv, QuotaTypeOK
    <3>6. Cardinality(RowsOf(S)) <= Cardinality(RowsOf(SavedOn(d))) + send[s].size
      BY <3>1, RowsAdded DEF QuotaInv, QuotaTypeOK, SavedOn
    <3>7. /\ Cardinality(RowsOf(S)) \in Nat /\ Cardinality(RowsOf(SavedOn(d))) \in Nat
          /\ Cardinality(RowsOf(SavedSince(send[s].today))) \in Nat
      <4>1. S \in SUBSET Sends /\ SavedOn(d) \in SUBSET Sends
        BY <3>1 DEF SavedOn
      <4>. QED  BY <3>4, <4>1, RowsAreFinite DEF QuotaInv, QuotaTypeOK
    <3>8. Cardinality(RowsOf(S)) <= send[s].limit
      BY <3>3, <3>5, <3>6, <3>7, NumbersOfASend DEF QuotaInv
    <3>9. QueuedOn(d)' <= send'[s].limit /\ s \in SavedOn(d)'
      BY <1>3, <2>2, <2>4, <3>1, <3>8 DEF QueuedOn
    <3>. QED  BY <3>9
  <2>6. CASE d # day
    <3>1. S = SavedOn(d)
      BY <1>2, <1>3, <1>5, <2>0, <2>2, <2>6 DEF SavedOn
    <3>2. \A u \in S : /\ u \in Sends \ {s}
                       /\ ~send[u].overlapped /\ send[u].campaign \in live
                       /\ send'[u].limit = send[u].limit
      <4>1. \A u \in S : u # s
        BY <1>5, <2>0, <3>1 DEF SavedOn
      <4>. QED  BY <1>2, <2>3, <4>1
    <3>3. \E u \in SavedOn(d) : QueuedOn(d) <= send[u].limit
      BY <1>6, <2>2, <3>1, <3>2 DEF QuotaInv, DailyLimitHolds
    <3>. QED  BY <2>2, <2>4, <3>1, <3>2, <3>3 DEF QueuedOn
  <2>. QED  BY <2>5, <2>6
<1>7. DailyLimitHolds'
  BY <1>6 DEF DailyLimitHolds
<1>. QED  BY <1>4, <1>7 DEF QuotaInv

LEMMA SendKeepsQuota ==
    ASSUME QuotaInv, QuotaTypeOK', NEW s \in Sends,
           Authenticate(s) \/ ReadCampaign(s) \/ CountToday(s) \/ SaveLogs(s)
    PROVE  QuotaInv'
<1>1. send \in [Sends -> Send] /\ send[s] \in Send /\ day \in Days /\ day \in Nat
  BY NumbersOfASend DEF QuotaInv, QuotaTypeOK
<1>2. ASSUME UNCHANGED <<day, live>>, NEW row, send' = [send EXCEPT ![s] = row],
             send[s].at # "done", row.savedOn = send[s].savedOn, Counted(s)'
      PROVE  QuotaInv'
  <2>1. send[s].savedOn = -1
    BY <1>2 DEF QuotaInv, Counted
  <2>2. SavesNothing
    BY <1>1, <1>2, <2>1 DEF SavesNothing
  <2>3. \A u \in Sends : Counted(u)' \/ send'[u] = send[u]
    BY <1>1, <1>2
  <2>. QED  BY <2>2, <2>3, NothingSaved
<1>3. CASE Authenticate(s)
  <2>1. /\ [send[s] EXCEPT !.at = "read", !.limit = users[1].limit].savedOn = send[s].savedOn
        /\ send'[s].at = "read" /\ send'[s].savedOn = send[s].savedOn
    BY <1>1, <1>3 DEF Authenticate, Send
  <2>2. Counted(s)'
    BY <1>3, <2>1 DEF Authenticate, Counted, QuotaInv
  <2>3. send' = [send EXCEPT ![s] = [send[s] EXCEPT !.at = "read", !.limit = users[1].limit]]
    BY <1>1, <1>3 DEF Authenticate
  <2>. QED  BY <1>2, <1>3, <2>1, <2>2, <2>3 DEF Authenticate
<1>4. ASSUME NEW place \in {"save", "rejected"}, send' = [send EXCEPT ![s].at = place],
             send[s].at # "done", UNCHANGED <<day, live>>,
             place = "save" => send[s].at = "count" /\ Within(s)
      PROVE  QuotaInv'
  <2>1. PICK row : row = [send[s] EXCEPT !.at = place]
    OBVIOUS
  <2>2. /\ row.at = place /\ row.savedOn = send[s].savedOn /\ row.size = send[s].size
        /\ row.limit = send[s].limit /\ row.today = send[s].today
    BY <1>1, <2>1 DEF Send
  <2>3. send' = [send EXCEPT ![s] = row] /\ send'[s] = row
    BY <1>1, <1>4, <2>1
  <2>4. send[s].savedOn = -1
    BY <1>4 DEF QuotaInv, Counted
  <2>5. place = "save" => send[s].today <= day
    BY <1>4 DEF QuotaInv, Counted
  <2>6. ASSUME place = "save"
        PROVE  Cardinality(RowsOf(SavedSince(row.today))') + row.size <= row.limit
    <3>1. Cardinality(RowsOf(SavedSince(send[s].today)))
            + Cardinality(TestsSince(send[s].today)) + send[s].size <= send[s].limit
      BY <1>4, <2>6 DEF Within, RowsSince
    <3>2. Cardinality(TestsSince(send[s].today)) \in Nat
      <4>1. TestsSince(send[s].today) \in SUBSET Tests
        BY DEF TestsSince
      <4>. QED  BY <4>1, QuotaAssumption, FS_Subset, FS_CardinalityType
    <3>3. PICK d \in Nat : d = send[s].today
      BY NumbersOfASend DEF QuotaInv
    <3>4. SavesNothing
      BY <1>1, <1>4, <2>2, <2>3, <2>4 DEF SavesNothing
    <3>5. /\ Cardinality(RowsOf(SavedSince(d))') \in Nat
          /\ Cardinality(RowsOf(SavedSince(d))) \in Nat
          /\ Cardinality(RowsOf(SavedSince(d))') <= Cardinality(RowsOf(SavedSince(d)))
      BY <3>4, SameSaved DEF QuotaInv
    <3>6. Cardinality(RowsOf(SavedSince(d))') + send[s].size <= send[s].limit
      BY <3>1, <3>2, <3>3, <3>5, NumbersOfASend DEF QuotaInv
    <3>. QED  BY <2>2, <3>3, <3>6
  <2>7. Counted(s)'
    BY <1>4, <2>2, <2>3, <2>4, <2>5, <2>6 DEF Counted
  <2>. QED  BY <1>2, <1>4, <2>2, <2>3, <2>7
<1>5. CASE ReadCampaign(s)
  <2>1. CASE send' = [send EXCEPT ![s].at = "rejected"]
    BY <1>4, <1>5, <2>1 DEF ReadCampaign
  <2>2. ASSUME NEW n \in Sizes,
               send' = [send EXCEPT ![s].at = "count", ![s].size = n, ![s].today = day]
        PROVE  QuotaInv'
    <3>1. PICK row : row = [send[s] EXCEPT !.at = "count", !.size = n, !.today = day]
      OBVIOUS
    <3>2. row.at = "count" /\ row.savedOn = send[s].savedOn /\ row.today = day
      BY <1>1, <3>1 DEF Send
    <3>3. send' = [send EXCEPT ![s] = row] /\ send'[s] = row
      BY <1>1, <2>2, <3>1
    <3>4. send[s].at = "read" /\ send[s].savedOn = -1 /\ day' = day
      BY <1>5 DEF ReadCampaign, QuotaInv, Counted
    <3>5. Counted(s)'
      BY <1>1, <3>2, <3>3, <3>4 DEF Counted
    <3>. QED  BY <1>2, <1>5, <3>2, <3>3, <3>4, <3>5 DEF ReadCampaign
  <2>. QED  BY <1>5, <2>1, <2>2 DEF ReadCampaign
<1>6. CASE CountToday(s)
  BY <1>4, <1>6 DEF CountToday
<1>7. CASE SaveLogs(s)
  BY <1>4, <1>7, SaveKeepsQuota DEF SaveLogs
<1>. QED  BY <1>3, <1>5, <1>6, <1>7

(* Types of the daily limit's own state, for any users, sends and tests.     *)
THEOREM QuotaTypeCorrect == Spec => []QuotaTypeOK
<1>1. QuotaTypes => QuotaTypeOK
  BY DEF QuotaTypes
<1>. QED  BY <1>1, QuotaTypesInvariant, PTL

(* Of the sends that saved on one day, one's limit bounds all the emails     *)
(* they queued that day, unless one of them was overlapped or its campaign   *)
(* was deleted: for any limits, sizes, numbers of sends, settings and days.  *)
THEOREM LimitHolds == Spec => []DailyLimitHolds
<1>1. QuotaInit /\ QuotaTypes => QuotaInv
  <2> SUFFICES ASSUME QuotaInit, QuotaTypes PROVE QuotaInv
    OBVIOUS
  <2>1. \A s \in Sends : send[s].at = "unused" /\ send[s].savedOn = -1
    BY DEF QuotaInit
  <2>2. \A d \in Days : SavedOn(d) = {}
    BY <2>1, QuotaAssumption DEF SavedOn, Days
  <2>. QED  BY <2>1, <2>2 DEF QuotaTypes, QuotaInv, Counted, DailyLimitHolds
<1>2. QuotaInv /\ QuotaTypes' /\ [Next]_quotaVars => QuotaInv'
  <2> SUFFICES ASSUME QuotaInv, QuotaTypes', [Next]_quotaVars PROVE QuotaInv'
    OBVIOUS
  <2>1. ASSUME UNCHANGED send, day' \in Days, day <= day', live' \subseteq live
        PROVE  QuotaInv'
    BY <2>1, NothingSaved DEF SavesNothing, QuotaTypes
  <2>2. day \in Days /\ day <= day
    BY QuotaAssumption DEF QuotaInv, QuotaTypeOK, Days
  <2>3. ASSUME NEW s \in Sends,
               Authenticate(s) \/ ReadCampaign(s) \/ CountToday(s) \/ SaveLogs(s)
        PROVE  QuotaInv'
    BY <2>3, SendKeepsQuota DEF QuotaTypes
  <2>4. CASE Midnight
    BY <2>1, <2>2, <2>4, QuotaAssumption DEF Midnight, Days
  <2>5. ASSUME NEW k \in Campaigns, DeleteCampaign(k) PROVE QuotaInv'
    BY <2>1, <2>2, <2>5 DEF DeleteCampaign
  <2>6. CASE UNCHANGED <<day, live, send>>
    BY <2>1, <2>2, <2>6
  <2>. QED
    BY <2>3, <2>4, <2>5, <2>6
       DEF Next, QuotaStep, quotaVars, ParkLogs, BeginTest, SaveTestLog, PrepareTest, SendTest,
           RecordTest, FailTest
<1>3. QuotaInv => DailyLimitHolds
  BY DEF QuotaInv
<1>. QED  BY <1>1, <1>2, <1>3, QuotaTypesInvariant, PTL DEF Spec
=============================================================================
