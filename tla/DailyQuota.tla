----------------------------- MODULE DailyQuota -----------------------------
(***************************************************************************)
(* The daily limit of one user, who is row 1 of the users table: the check *)
(* that sendCampaign and resumeCampaign make before they save their log    *)
(* rows, and sendTestCampaign, which saves a row, mails and settles it in  *)
(* one request.  The limit comes from the row loaded when the request was  *)
(* authenticated; settings calls and sign-ins of UserAccounts go on.       *)
(***************************************************************************)
EXTENDS UserAccounts

CONSTANTS Campaigns,  \* the user's campaigns
          Sends,      \* calls of sendCampaign and resumeCampaign
          Sizes,      \* how many recipients are left to mail
          Tests,      \* calls of sendTestCampaign
          MaxDays     \* bound: midnights

ASSUME QuotaAssumption ==
    /\ Sizes \subseteq Nat \ {0} /\ MaxDays \in Nat /\ 1 \in DOMAIN InitialUsers
    /\ IsFiniteSet(Sends) /\ IsFiniteSet(Tests)

VARIABLES day,    \* the server's date
          live,   \* campaigns not deleted
          send,   \* send -> its locals
          test    \* test -> its locals, its log row and whether Gmail took the message

quotaVars == <<accountVars, day, live, send, test>>

Days == 0..MaxDays

Send == [at: {"unused", "read", "count", "save", "done", "rejected"}, campaign: Campaigns,
         limit: Limits, size: Sizes \cup {0}, today: Days, savedOn: Days \cup {-1},
         overlapped: BOOLEAN]

Test == [at: {"unused", "log", "prepare", "send", "record", "fail", "done", "rejected"},
         campaign: Campaigns, log: {"none", "queued", "pending", "sent", "failed", "gone"},
         savedOn: Days \cup {-1}, mailed: BOOLEAN, lost: BOOLEAN]

QuotaTypeOK ==
    /\ AccountsTypeOK
    /\ day \in Days /\ live \subseteq Campaigns
    /\ send \in [Sends -> Send] /\ test \in [Tests -> Test]

QuotaInit ==
    /\ AccountsInit
    /\ day = 0
    /\ live = Campaigns
    /\ send \in [Sends -> [at: {"unused"}, campaign: Campaigns, limit: {DefaultLimit},
                           size: {0}, today: {0}, savedOn: {-1}, overlapped: {FALSE}]]
    /\ test \in [Tests -> [at: {"unused"}, campaign: Campaigns, log: {"none"},
                           savedOn: {-1}, mailed: {FALSE}, lost: {FALSE}]]

-----------------------------------------------------------------------------
(* JwtStrategy.validate: findById, for every request.                        *)
Authenticated == 1 \in session

Authenticate(s) ==
    /\ Authenticated
    /\ send[s].at = "unused"
    /\ send' = [send EXCEPT ![s].at = "read", ![s].limit = users[1].limit]
    /\ UNCHANGED <<accountVars, day, live, test>>

(* The campaign with its recipients; its recipients left to mail are those   *)
(* who have not opted out (send) or are not marked sent (resume).  "today"   *)
(* is taken before the count is asked for.                                   *)
ReadCampaign(s) ==
    /\ send[s].at = "read"
    /\ IF send[s].campaign \in live
       THEN \E n \in Sizes :
              send' = [send EXCEPT ![s].at = "count", ![s].size = n, ![s].today = day]
       ELSE send' = [send EXCEPT ![s].at = "rejected"]
    /\ UNCHANGED <<accountVars, day, live, test>>

(* The log rows that sends S create, one for each recipient; and the log     *)
(* rows of every campaign of the user created since "today": those of a      *)
(* deleted campaign have gone with it.                                       *)
RowsOf(S) == UNION {{s} \X (1..send[s].size) : s \in S}

SavedSince(d) == {s \in Sends : send[s].savedOn >= d /\ send[s].campaign \in live}
TestsSince(d) == {t \in Tests : test[t].savedOn >= d /\ test[t].campaign \in live}

RowsSince(d) == Cardinality(RowsOf(SavedSince(d))) + Cardinality(TestsSince(d))

SeededWithin(s) == send[s].size <= send[s].limit

Within(s) == RowsSince(send[s].today) + send[s].size <= send[s].limit

CountToday(s) ==
    /\ send[s].at = "count"
    /\ send' = [send EXCEPT ![s].at = IF Within(s) THEN "save" ELSE "rejected"]
    /\ UNCHANGED <<accountVars, day, live, test>>

(* The rows are inserted together; the foreign key refuses them once the     *)
(* campaign is deleted.  Sends that have counted and not saved are           *)
(* overlapped by these rows.                                                 *)
SaveLogs(s) ==
    /\ send[s].at = "save"
    /\ IF send[s].campaign \in live
       THEN send' = [u \in Sends |->
              IF u = s THEN [send[s] EXCEPT !.at = "done", !.savedOn = day]
              ELSE [send[u] EXCEPT !.overlapped = @ \/ send[u].at = "save"]]
       ELSE send' = [send EXCEPT ![s].at = "rejected"]
    /\ UNCHANGED <<accountVars, day, live, test>>

(* The log rows go with the campaign: those of its sends leave the counts    *)
(* above with `live`, that of a test email is marked.                        *)
DeleteCampaign(k) ==
    /\ k \in live
    /\ live' = live \ {k}
    /\ test' = [t \in Tests |->
                  IF test[t].campaign = k /\ test[t].log # "none"
                  THEN [test[t] EXCEPT !.log = "gone"] ELSE test[t]]
    /\ UNCHANGED <<accountVars, day, send>>

Midnight ==
    /\ day < MaxDays
    /\ day' = day + 1
    /\ UNCHANGED <<accountVars, live, send, test>>

-----------------------------------------------------------------------------
(* sendTestCampaign: the limit is not looked at.                             *)
TestGoes(t, place) == test' = [test EXCEPT ![t].at = place]

BeginTest(t) ==
    /\ Authenticated
    /\ test[t].at = "unused"
    /\ TestGoes(t, IF test[t].campaign \in live THEN "log" ELSE "rejected")
    /\ UNCHANGED <<accountVars, day, live, send>>

SaveTestLog(t) ==
    /\ test[t].at = "log"
    /\ IF test[t].campaign \in live
       THEN test' = [test EXCEPT ![t].at = "prepare", ![t].log = "queued", ![t].savedOn = day]
       ELSE TestGoes(t, "rejected")
    /\ UNCHANGED <<accountVars, day, live, send>>

(* Attachments from S3, the OAuth client, the MIME text: all outside the     *)
(* try, so a throw leaves the row "queued".  A token that cannot be read     *)
(* throws.                                                                   *)
PrepareTest(t) ==
    /\ test[t].at = "prepare"
    /\ \/ Decrypt(1) # NoToken /\ TestGoes(t, "send")
       \/ TestGoes(t, "rejected")
    /\ UNCHANGED <<accountVars, day, live, send>>

(* Gmail refuses; or takes the message, and the answer may be lost.          *)
SendTest(t) ==
    /\ test[t].at = "send"
    /\ \/ TestGoes(t, "fail")
       \/ \E lost \in BOOLEAN :
            test' = [test EXCEPT ![t].mailed = TRUE, ![t].lost = lost,
                                 ![t].at = IF lost THEN "fail" ELSE "record"]
    /\ UNCHANGED <<accountVars, day, live, send>>

(* An UPDATE of a row that has gone changes nothing and does not throw.      *)
Marked(t, status) == IF test[t].log = "gone" THEN "gone" ELSE status

(* The UPDATE to "sent" is inside the try: when it throws the row becomes    *)
(* "failed" although the message has gone.                                   *)
RecordTest(t) ==
    /\ test[t].at = "record"
    /\ \/ test' = [test EXCEPT ![t].at = "done", ![t].log = Marked(t, "sent")]
       \/ test' = [test EXCEPT ![t].at = "fail", ![t].lost = TRUE]
    /\ UNCHANGED <<accountVars, day, live, send>>

FailTest(t) ==
    /\ test[t].at = "fail"
    /\ \/ test' = [test EXCEPT ![t].at = "rejected", ![t].log = Marked(t, "failed")]
       \/ TestGoes(t, "rejected")
    /\ UNCHANGED <<accountVars, day, live, send>>

(* A job of the same campaign whose token is refused parks the campaign's    *)
(* rows, the test's included.                                                *)
SeededParkable == {"queued", "sending", "sent"}

Parkable == {"queued", "sending"}

ParkLogs(k) ==
    /\ k \in live
    /\ \E t \in Tests : test[t].campaign = k /\ test[t].log \in Parkable
    /\ test' = [t \in Tests |->
                  IF test[t].campaign = k /\ test[t].log \in Parkable
                  THEN [test[t] EXCEPT !.log = "pending"] ELSE test[t]]
    /\ UNCHANGED <<accountVars, day, live, send>>

-----------------------------------------------------------------------------
QuotaStep ==
    \/ \E s \in Sends : Authenticate(s) \/ ReadCampaign(s) \/ CountToday(s) \/ SaveLogs(s)
    \/ \E k \in Campaigns : DeleteCampaign(k) \/ ParkLogs(k)
    \/ \E t \in Tests : BeginTest(t) \/ SaveTestLog(t) \/ PrepareTest(t)
    \/ \E t \in Tests : SendTest(t) \/ RecordTest(t) \/ FailTest(t)
    \/ Midnight

Next == QuotaStep \/ (AccountStep /\ UNCHANGED <<day, live, send, test>>)

Spec == QuotaInit /\ [][Next]_quotaVars

-----------------------------------------------------------------------------
SavedOn(d)  == {s \in Sends : send[s].savedOn = d}
QueuedOn(d) == Cardinality(RowsOf(SavedOn(d)))

(* The emails queued on one day are within the limit of one of that day's    *)
(* sends, whatever the settings calls, test emails and midnights between:    *)
(* only a send that counted before another saved, or a campaign deleted with *)
(* its rows, lets them exceed it.                                            *)
DailyLimitHolds ==
    \A d \in Days : SavedOn(d) # {} =>
        \/ \E s \in SavedOn(d) : QueuedOn(d) <= send[s].limit
        \/ \E s \in SavedOn(d) : send[s].overlapped \/ send[s].campaign \notin live

(* A test email answered with success has its row "sent" from then on, also  *)
(* when a job parks the campaign, until the campaign is deleted with it;     *)
(* "sent" stands for a message Gmail took, and "failed" for one it did not   *)
(* take unless an answer was lost.                                           *)
TestsAreTold ==
    \A t \in Tests :
      /\ test[t].at = "done" /\ test[t].campaign \in live => test[t].log = "sent"
      /\ test[t].log = "sent" => test[t].mailed
      /\ test[t].log = "failed" /\ test[t].mailed => test[t].lost
=============================================================================
