------------------------- MODULE MailQueueConsumer -------------------------
(***************************************************************************)
(* MailQueueConsumer: process(job), one step per await, and onFailed.  The *)
(* queue around it is BullMQ's: a waiting job is taken by any worker with a *)
(* free slot (a delay or a backoff is a wait of any length), a throw costs *)
(* an attempt, a dead worker's job stalls and is handed out again.         *)
(***************************************************************************)
EXTENDS CampaignState

JobGoes(k, place) == job' = [job EXCEPT ![k].at = place]

(* BullMQ after a throw: try again while attempts are left.  onFailed acts  *)
(* only on the last attempt, so an earlier failure ends here.               *)
IsLastAttempt(made) == made >= Attempts

SeededRetryFree(j) == [j EXCEPT !.at = "waiting", !.proc = NoProcess]

Retry(j)     == IF IsLastAttempt(j.attemptsMade + 1)
                THEN [j EXCEPT !.at = "report", !.attemptsMade = @ + 1]
                ELSE [j EXCEPT !.at = "waiting", !.attemptsMade = @ + 1,
                               !.proc = NoProcess]
GiveUp(j)    == [j EXCEPT !.attemptsMade = @ + 1,
                          !.at = IF IsLastAttempt(j.attemptsMade + 1)
                                 THEN "report" ELSE "failed"]

-----------------------------------------------------------------------------
Running(p) == {k \in JobIds : job[k].proc = p /\ job[k].at \in ActiveAt}

StartJob(k, p) ==
    /\ job[k].at = "waiting"
    /\ Cardinality(Running(p)) < Concurrency
    /\ job' = [job EXCEPT ![k].at = "guard", ![k].proc = p]
    /\ UNCHANGED <<campaign, recipient, logs, unsubscribed, connected, call,
                   adding, mailed, handler, pausing, notices>>

(* 1. A job whose log is "pending" is skipped: it completes, silently.      *)
SeededSkips(status) == status # "sending"

Skips(status) == status = "pending"

ReadGuard(k) ==
    /\ job[k].at = "guard"
    /\ JobGoes(k, IF Skips(logs[LogOf(k)]) THEN "completed" ELSE "mark")
    /\ UNCHANGED <<campaign, recipient, logs, unsubscribed, connected, call,
                   adding, mailed, handler, pausing, notices>>

(* 2. The log becomes "sending", whatever it was when the guard read it.    *)
MarkSending(k) ==
    /\ job[k].at = "mark"
    /\ WriteLog(LogOf(k), "sending")
    /\ JobGoes(k, "token")
    /\ UNCHANGED <<campaign, recipient, unsubscribed, connected, call, adding,
                   mailed, handler, pausing, notices>>

(* 3. getOAuth2Client succeeds ... *)
GetToken(k) ==
    /\ job[k].at = "token"
    /\ connected
    /\ JobGoes(k, "send")
    /\ UNCHANGED <<campaign, recipient, logs, unsubscribed, connected, call,
                   adding, mailed, handler, pausing, notices>>

(* ... or is refused.  sendToUser comes first: in a process without a       *)
(* socket server it throws a TypeError, and the job is retried instead.     *)
TokenRefused(k) ==
    /\ job[k].at = "token"
    /\ ~connected
    /\ IF job[k].proc \in SocketProcesses
       THEN JobGoes(k, "pend")
       ELSE job' = [job EXCEPT ![k] = Retry(@)]
    /\ UNCHANGED <<campaign, recipient, logs, unsubscribed, connected, call,
                   adding, mailed, handler, pausing, notices>>

(* The campaign's "sending" logs become "pending", campaign.pause is        *)
(* emitted and UnrecoverableError ends the job.                             *)
SeededPendable == {g \in LogIds : logs[g] = "queued"}

Pendable == {g \in LogIds : logs[g] = "sending"}

PendLogs(k) ==
    /\ job[k].at = "pend"
    /\ logs' = [g \in LogIds |-> IF g \in Pendable THEN "pending" ELSE logs[g]]
    /\ pausing' = pausing \cup {k}
    /\ job' = [job EXCEPT ![k] = GiveUp(@)]
    /\ UNCHANGED <<campaign, recipient, unsubscribed, connected, call, adding,
                   mailed, handler, notices>>

(* 4.-6. Gmail accepts the message.  Attachments and MIME are not modelled. *)
SendMail(k) ==
    /\ job[k].at = "send"
    /\ mailed' = [mailed EXCEPT ![k] = @ + 1]
    /\ JobGoes(k, "record")
    /\ UNCHANGED <<campaign, recipient, logs, unsubscribed, connected, call,
                   adding, handler, pausing, notices>>

(* 7.-8. The log becomes "sent"; email.sent starts its listener.            *)
RecordSent(k) ==
    /\ job[k].at = "record"
    /\ WriteLog(LogOf(k), "sent")
    /\ handler' = [handler EXCEPT ![k] = [event |-> "sent", at |-> "recipient",
                                          verdict |-> "sent"]]
    /\ JobGoes(k, "ack")
    /\ UNCHANGED <<campaign, recipient, unsubscribed, connected, call, adding,
                   mailed, pausing, notices>>

Complete(k) ==
    /\ job[k].at = "ack"
    /\ JobGoes(k, "completed")
    /\ UNCHANGED <<campaign, recipient, logs, unsubscribed, connected, call,
                   adding, mailed, handler, pausing, notices>>

(* A throw at any await of process(), and Gmail's refusal of the message.   *)
(* At "record" the message is out: a lost reply of Gmail is the same step.  *)
AttemptFails(k) ==
    /\ "attempt" \in Faults
    /\ job[k].at \in ActiveAt \ {"ack"}
    /\ job' = [job EXCEPT ![k] = Retry(@)]
    /\ UNCHANGED <<campaign, recipient, logs, unsubscribed, connected, call,
                   adding, mailed, handler, pausing, notices>>

(* onFailed on the last attempt: the log becomes "failed", email.failed.    *)
ReportFailure(k) ==
    /\ job[k].at = "report"
    /\ WriteLog(LogOf(k), "failed")
    /\ handler' = [handler EXCEPT ![k] = [event |-> "failed", at |-> "recipient",
                                          verdict |-> "sent"]]
    /\ JobGoes(k, "failed")
    /\ UNCHANGED <<campaign, recipient, unsubscribed, connected, call, adding,
                   mailed, pausing, notices>>

ReportAborts(k) ==
    /\ "event" \in Faults
    /\ job[k].at = "report"
    /\ JobGoes(k, "failed")
    /\ UNCHANGED <<campaign, recipient, logs, unsubscribed, connected, call,
                   adding, mailed, handler, pausing, notices>>

-----------------------------------------------------------------------------
(* A process dies: its running jobs stall (one stall too many fails the job *)
(* with no last attempt, so onFailed ignores it) and its listeners are gone. *)

Stalled(j) ==
    [j EXCEPT !.stalls = @ + 1, !.proc = NoProcess,
              !.at = IF j.stalls >= MaxStalls THEN "failed" ELSE "waiting"]

AfterCrash(j, p) ==
    IF j.proc # p THEN j
    ELSE IF j.at \in ActiveAt THEN Stalled(j)
    ELSE IF j.at = "report" THEN [j EXCEPT !.at = "failed"]
    ELSE j

LostHandlers(p) == {k \in JobIds : job[k].proc = p /\ handler[k].at # "idle"}

Crash(p) ==
    /\ "crash" \in Faults
    /\ \/ \E k \in JobIds : AfterCrash(job[k], p) # job[k]
       \/ LostHandlers(p) # {}
       \/ \E k \in pausing : job[k].proc = p
    /\ job' = [k \in JobIds |-> AfterCrash(job[k], p)]
    /\ handler' = [k \in JobIds |->
                     IF k \in LostHandlers(p) THEN NoHandler ELSE handler[k]]
    /\ pausing' = {k \in pausing : job[k].proc # p}
    /\ UNCHANGED <<campaign, recipient, logs, unsubscribed, connected, call,
                   adding, mailed, notices>>

(* Google revokes the grant; the user reconnects the account.               *)
TokenExpires ==
    /\ "token" \in Faults
    /\ connected
    /\ connected' = FALSE
    /\ UNCHANGED <<campaign, recipient, logs, unsubscribed, call, adding, job,
                   mailed, handler, pausing, notices>>

Reconnect ==
    /\ ~connected
    /\ connected' = TRUE
    /\ UNCHANGED <<campaign, recipient, logs, unsubscribed, call, adding, job,
                   mailed, handler, pausing, notices>>

JobStep(k) ==
    \/ ReadGuard(k)
    \/ MarkSending(k)
    \/ GetToken(k)
    \/ TokenRefused(k)
    \/ PendLogs(k)
    \/ SendMail(k)
    \/ RecordSent(k)
    \/ Complete(k)
    \/ ReportFailure(k)
=============================================================================
