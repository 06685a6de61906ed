---------------------------- MODULE UserAccounts ----------------------------
(***************************************************************************)
(* The users table and the calls that write it: signing in with Google,    *)
(* reconnecting (a new consent for a new refresh token) and PATCH          *)
(* /users/me/settings.  Each call loads the row, changes its copy and      *)
(* hands the copy to TypeORM's save, which reads the row again, compares   *)
(* and updates the columns that differ: three awaits, no transaction over  *)
(* them.  Names and pictures go the way of the email.                      *)
(***************************************************************************)
EXTENDS Integers, FiniteSets

CONSTANTS Providers,     \* Google accounts
          Emails,        \* addresses they may have
          NoEmail,       \* a profile without an address
          InitialUsers,  \* rows at the start: a sequence of [provider, email]
          MaxUsers,      \* bound: rows
          MaxCalls,      \* bound: sign-ins, reconnects and settings calls
          CallKinds,     \* those of a run: subset of {"login", "reconnect", "settings"}
          Limits,        \* values of daily_limit; the column's default among them
          DefaultLimit,
          MaxRotations   \* bound: changes of ENCRYPTION_KEY

Ids    == 1..MaxUsers
Calls  == 1..MaxCalls
Kinds  == {"login", "reconnect", "settings"}

(* Refresh tokens are numbered as Google issues them; the call that brings   *)
(* one names it.  0 is null, OldToken the one stored before the run.         *)
NoToken  == 0
OldToken == MaxCalls + 1
Tokens   == 0..OldToken
Keys     == 0..2           \* 0: stored in the clear, before encryption

NoLimit == -1              \* a settings call that leaves dailyLimit out

ASSUME AccountsAssumption ==
    /\ MaxUsers \in Nat \ {0} /\ MaxCalls \in Nat /\ MaxRotations \in Nat
    /\ NoEmail \notin Emails
    /\ CallKinds \subseteq Kinds
    /\ Limits \subseteq Nat /\ DefaultLimit \in Limits
ASSUME InitialUsersAssumption ==
    /\ DOMAIN InitialUsers \subseteq Ids
    /\ \A i \in DOMAIN InitialUsers :
         InitialUsers[i].provider \in Providers /\ InitialUsers[i].email \in Emails
    /\ \A i, j \in DOMAIN InitialUsers :
         InitialUsers[i].provider = InitialUsers[j].provider
         \/ InitialUsers[i].email = InitialUsers[j].email => i = j

VARIABLES users,     \* id -> row
          call,      \* call -> its locals and where it stands
          session,   \* ids whose owners hold a valid access token of the application
          rotations, \* how often ENCRYPTION_KEY has changed; it has two values
          granted,   \* history: id -> token of the last sign-in that stored one
          chosen     \* history: id -> limit of the last settings call that stored one

accountVars == <<users, call, session, rotations, granted, chosen>>

Row == [live: BOOLEAN, provider: Providers \cup {NoEmail}, email: Emails \cup {NoEmail},
        token: Tokens, sealed: Keys, limit: Limits]

(* A loaded copy: a column that was not selected is undefined. *)
Undefined == MaxCalls + 2
Copy == [email: Emails \cup {NoEmail}, token: Tokens \cup {Undefined}, limit: Limits]

Columns == {"email", "token", "limit"}

Call == [at: {"unused", "find", "insert", "compare", "write", "done", "rejected"},
         kind: Kinds, provider: Providers \cup {NoEmail}, email: Emails \cup {NoEmail},
         token: Tokens, limit: Limits \cup {NoLimit}, id: 0..MaxUsers, copy: Copy,
         changed: SUBSET Columns, overlapped: BOOLEAN]

AccountsTypeOK ==
    /\ users \in [Ids -> Row]
    /\ call \in [Calls -> Call]
    /\ session \subseteq Ids
    /\ rotations \in 0..MaxRotations
    /\ granted \in [Ids -> Tokens]
    /\ chosen \in [Ids -> Limits]

NoCopy == [email |-> NoEmail, token |-> NoToken, limit |-> DefaultLimit]

NoUser == [live |-> FALSE, provider |-> NoEmail, email |-> NoEmail,
           token |-> NoToken, sealed |-> 0, limit |-> DefaultLimit]

AccountsInit ==
    /\ users = [i \in Ids |->
                  IF i \in DOMAIN InitialUsers
                  THEN [live |-> TRUE, provider |-> InitialUsers[i].provider,
                        email |-> InitialUsers[i].email, token |-> OldToken,
                        sealed |-> 0, limit |-> DefaultLimit]
                  ELSE NoUser]
    /\ call = [c \in Calls |->
                 [at |-> "unused", kind |-> "login", provider |-> NoEmail,
                  email |-> NoEmail, token |-> NoToken, limit |-> DefaultLimit,
                  id |-> 0, copy |-> NoCopy, changed |-> {}, overlapped |-> FALSE]]
    /\ session = DOMAIN InitialUsers
    /\ rotations = 0
    /\ granted = [i \in Ids |-> IF i \in DOMAIN InitialUsers THEN OldToken ELSE NoToken]
    /\ chosen = [i \in Ids |-> DefaultLimit]

Live == {i \in Ids : users[i].live}

-----------------------------------------------------------------------------
(* encryptionTransformer: what was written under another key reads as null, *)
(* what was never encrypted reads as it is.                                  *)
Key == 1 + (rotations % 2)

Decrypt(i) == IF users[i].sealed \in {0, Key} THEN users[i].token ELSE NoToken

RotateKey ==
    /\ rotations < MaxRotations
    /\ rotations' = rotations + 1
    /\ UNCHANGED <<users, call, session, granted, chosen>>

-----------------------------------------------------------------------------
(* Google sends the browser back with a profile.  A reconnect is made with  *)
(* prompt=consent, for which Google issues a token, unless it does not;      *)
(* a plain sign-in brings one or not.                                        *)
Began(c) == call[c].at = "unused" /\ (c > 1 => call[c - 1].at # "unused")

Acceptable(kind, email, token) ==
    email # NoEmail /\ (kind = "reconnect" => token # NoToken)

SignIn(c, kind, p, e, token) ==
    /\ Began(c)
    /\ kind \in CallKinds \cap {"login", "reconnect"}
    /\ token \in {NoToken, c}
    /\ call' = [call EXCEPT ![c].kind = kind, ![c].provider = p, ![c].email = e,
                            ![c].token = token,
                            ![c].at = IF Acceptable(kind, e, token) THEN "find" ELSE "rejected"]
    /\ UNCHANGED <<users, session, rotations, granted, chosen>>

(* upsertGoogleUser, up to save: the token column is not selected.           *)
Assigned(token) == IF token = NoToken THEN Undefined ELSE token

SeededLoadedLimit(i) == DefaultLimit

LoadedLimit(i) == users[i].limit

Of(p) == {i \in Live : users[i].provider = p}

FindUser(c) ==
    /\ call[c].at = "find" /\ call[c].kind # "settings"
    /\ IF Of(call[c].provider) = {}
       THEN call' = [call EXCEPT ![c].at = "insert"]
       ELSE \E i \in Of(call[c].provider) :
              call' = [call EXCEPT ![c].at = "compare", ![c].id = i,
                         ![c].copy = [email |-> call[c].email,
                                      token |-> Assigned(call[c].token),
                                      limit |-> LoadedLimit(i)]]
    /\ UNCHANGED <<users, session, rotations, granted, chosen>>

(* The unique indexes on google_provider_id and on email. *)
SeededFree(p, e, S) == TRUE

Free(p, e, S) == \A i \in Live \ S : users[i].provider # p /\ users[i].email # e

(* The answer carries an access and a refresh token signed for the row.      *)
SignTokens(i) == session' = session \cup {i}

Reject(c) == call' = [call EXCEPT ![c].at = "rejected"]

InsertUser(c) ==
    /\ call[c].at = "insert"
    /\ IF Free(call[c].provider, call[c].email, {})
       THEN \E i \in Ids \ Live :
              /\ users' = [users EXCEPT ![i] =
                             [live |-> TRUE, provider |-> call[c].provider,
                              email |-> call[c].email, token |-> call[c].token,
                              sealed |-> Key, limit |-> DefaultLimit]]
              /\ call' = [call EXCEPT ![c].at = "done", ![c].id = i]
              /\ granted' = [granted EXCEPT ![i] = call[c].token]
              /\ SignTokens(i)
       ELSE Reject(c) /\ UNCHANGED <<users, granted, session>>
    /\ UNCHANGED <<rotations, chosen>>

-----------------------------------------------------------------------------
(* updateSettings: findById selects the token too, decrypted.  A call may    *)
(* set the rate limit only: the daily limit is saved as it was loaded.       *)
Settings(c, i, limit) ==
    /\ Began(c)
    /\ "settings" \in CallKinds
    /\ i \in session
    /\ call' = [call EXCEPT ![c].kind = "settings", ![c].id = i, ![c].limit = limit,
                            ![c].at = "find"]
    /\ UNCHANGED <<users, session, rotations, granted, chosen>>

ReadUser(c) ==
    /\ call[c].at = "find" /\ call[c].kind = "settings"
    /\ call' = [call EXCEPT ![c].at = "compare",
                  ![c].copy = [email |-> users[call[c].id].email,
                               token |-> Decrypt(call[c].id),
                               limit |-> IF call[c].limit = NoLimit
                                         THEN users[call[c].id].limit ELSE call[c].limit]]
    /\ UNCHANGED <<users, session, rotations, granted, chosen>>

-----------------------------------------------------------------------------
(* save reads the row again, without the token, and notes the columns whose  *)
(* value differs.  A token always does: the transformer encrypts it with a   *)
(* fresh iv.  Null does not: it is what the transformer makes of the column  *)
(* that was not read, too.                                                   *)
SeededDiffering(copy, i) ==
    {k \in Columns : \/ k = "email" /\ copy.email # users[i].email
                     \/ k = "limit" /\ copy.limit # users[i].limit
                     \/ k = "token" /\ copy.token # Undefined}

Differing(copy, i) ==
    {k \in Columns : \/ k = "email" /\ copy.email # users[i].email
                     \/ k = "limit" /\ copy.limit # users[i].limit
                     \/ k = "token" /\ copy.token \notin {Undefined, NoToken}}

Answered(c) == IF call[c].kind = "settings" THEN UNCHANGED session ELSE SignTokens(call[c].id)

CompareRow(c) ==
    /\ call[c].at = "compare"
    /\ LET changed == Differing(call[c].copy, call[c].id)
       IN  /\ call' = [call EXCEPT ![c].changed = changed,
                                   ![c].at = IF changed = {} THEN "done" ELSE "write"]
           /\ IF changed = {} THEN Answered(c) ELSE UNCHANGED session
    /\ UNCHANGED <<users, rotations, granted, chosen>>

Written(i, copy, changed) ==
    [users[i] EXCEPT !.email  = IF "email" \in changed THEN copy.email ELSE @,
                     !.limit  = IF "limit" \in changed THEN copy.limit ELSE @,
                     !.token  = IF "token" \in changed THEN copy.token ELSE @,
                     !.sealed = IF "token" \in changed THEN Key ELSE @]

(* The calls that have loaded row i and not yet written it are overlapped by *)
(* this write.                                                               *)
Overlap(c, i) ==
    [d \in Calls |->
       IF d = c THEN [call[c] EXCEPT !.at = "done"]
       ELSE IF call[d].at \in {"compare", "write"} /\ call[d].id = i
            THEN [call[d] EXCEPT !.overlapped = TRUE]
            ELSE call[d]]

WriteRow(c) ==
    LET i    == call[c].id
        copy == call[c].copy
        changed == call[c].changed
    IN  /\ call[c].at = "write"
        /\ IF "email" \in changed /\ ~Free(users[i].provider, copy.email, {i})
           THEN Reject(c) /\ UNCHANGED <<users, session, granted, chosen>>
           ELSE /\ users' = [users EXCEPT ![i] = Written(i, copy, changed)]
                /\ call' = Overlap(c, i)
                /\ Answered(c)
                /\ granted' = IF call[c].token # NoToken
                              THEN [granted EXCEPT ![i] = call[c].token] ELSE granted
                /\ chosen' = IF call[c].kind = "settings" /\ call[c].limit # NoLimit
                             THEN [chosen EXCEPT ![i] = copy.limit] ELSE chosen
        /\ UNCHANGED rotations

-----------------------------------------------------------------------------
AccountStep ==
    \/ \E c \in Calls, kind \in CallKinds, p \in Providers, e \in Emails \cup {NoEmail} :
         \E token \in {NoToken, c} : SignIn(c, kind, p, e, token)
    \/ \E c \in Calls, i \in Ids, limit \in Limits \cup {NoLimit} : Settings(c, i, limit)
    \/ \E c \in Calls : FindUser(c) \/ InsertUser(c) \/ ReadUser(c)
    \/ \E c \in Calls : CompareRow(c) \/ WriteRow(c)
    \/ RotateKey

AccountsSpec == AccountsInit /\ [][AccountStep]_accountVars

-----------------------------------------------------------------------------
(* One Google account and one address lead to one row, however many first    *)
(* sign-ins overlap, and who signs in gets the row of the Google account.    *)
OneUserPerAccount ==
    /\ \A i, j \in Live : users[i].provider = users[j].provider
                          \/ users[i].email = users[j].email => i = j
    /\ \A c \in Calls : call[c].at = "done" /\ call[c].kind # "settings" =>
         users[call[c].id].provider = call[c].provider

OverlappedBy(i, kinds) ==
    \E c \in Calls : call[c].kind \in kinds /\ call[c].id = i /\ call[c].overlapped

(* A refresh token a sign-in stored stays until a later sign-in replaces it: *)
(* only a settings call that overlapped the sign-in puts back an older one.  *)
(* A token no key reads any more is not lost either: it would be read again  *)
(* under the key it was encrypted with.                                      *)
TokenIsKept ==
    \A i \in Live : users[i].token # granted[i] => OverlappedBy(i, {"settings"})

(* The limit a settings call asked for stays until a later settings call:    *)
(* only a call that overlapped it, a sign-in that puts the old one back or   *)
(* another settings call that saw no difference, makes it another.           *)
LimitIsKept ==
    \A i \in Live : users[i].limit # chosen[i] => OverlappedBy(i, Kinds)
=============================================================================
