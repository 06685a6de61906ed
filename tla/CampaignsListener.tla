------------------------- MODULE CampaignsListener -------------------------
(***************************************************************************)
(* CampaignsListener: the handlers of email.sent, email.failed and         *)
(* campaign.pause.  EventEmitter2 starts a handler in the process that     *)
(* emitted the event and does not wait for it, so the handlers of several  *)
(* emails interleave at every await.                                       *)
(***************************************************************************)
EXTENDS CampaignState

EventGoes(k, place) == handler' = [handler EXCEPT ![k].at = place]
EventEnds(k)        == EventGoes(k, "idle")

(* 1. The recipient's status. *)
SeededStatusFor(event) == "sent"

StatusFor(event) == IF event = "sent" THEN "sent" ELSE "failed"

UpdateRecipient(k) ==
    /\ handler[k].at = "recipient"
    /\ WriteRecipient(k[2], StatusFor(handler[k].event))
    /\ EventGoes(k, "count")
    /\ UNCHANGED <<campaign, logs, unsubscribed, connected, call, adding, job,
                   mailed, pausing, notices>>

(* 2. increment sent_count or failed_count: one atomic UPDATE. *)
SeededIncremented(row, event) == [row EXCEPT !.sentCount = @ + 1]

SeededDecremented(row, event) == [row EXCEPT !.sentCount = @ - 1]

Incremented(row, event) ==
    IF event = "sent" THEN [row EXCEPT !.sentCount = @ + 1]
                      ELSE [row EXCEPT !.failedCount = @ + 1]

CountEvent(k) ==
    /\ handler[k].at = "count"
    /\ campaign' = IF Exists THEN Incremented(campaign, handler[k].event)
                   ELSE campaign
    /\ EventGoes(k, IF handler[k].event = "sent" /\ job[k].scheduled
                    THEN "unschedule" ELSE "check")
    /\ UNCHANGED <<recipient, logs, unsubscribed, connected, call, adding, job,
                   mailed, pausing, notices>>

(* A job of a scheduled send also decrements scheduling_count. *)
Unschedule(k) ==
    /\ handler[k].at = "unschedule"
    /\ campaign' = IF Exists
                   THEN [campaign EXCEPT !.schedulingCount = @ - 1]
                   ELSE campaign
    /\ EventGoes(k, "check")
    /\ UNCHANGED <<recipient, logs, unsubscribed, connected, call, adding, job,
                   mailed, pausing, notices>>

(* 3. checkAndMarkCampaignDone reads the row; sendToUser throws without a   *)
(* socket server (the handler logs it and ends); then the totals decide.    *)
SeededAllDone(row) == row.sentCount + row.failedCount >= row.total - 1

AllDone(row) == row.total > 0 /\ row.sentCount + row.failedCount >= row.total

Verdict(row) == IF row.failedCount = row.total THEN "failed" ELSE "sent"

CheckDone(k) ==
    /\ handler[k].at = "check"
    /\ IF Exists /\ job[k].proc \in SocketProcesses /\ AllDone(campaign)
       THEN handler' = [handler EXCEPT ![k].at = "mark",
                                       ![k].verdict = Verdict(campaign)]
       ELSE EventEnds(k)
    /\ UNCHANGED <<campaign, recipient, logs, unsubscribed, connected, call,
                   adding, job, mailed, pausing, notices>>

(* ... and writes the verdict of the row it read. *)
MarkDone(k) ==
    /\ handler[k].at = "mark"
    /\ WriteStatus(handler[k].verdict)
    /\ EventGoes(k, "notify")
    /\ UNCHANGED <<recipient, logs, unsubscribed, connected, call, adding, job,
                   mailed, pausing, notices>>

(* 4. The completion notification.  email.failed reads the row once more    *)
(* and stays silent if it is gone or counts no failure.                     *)
Notify(k) ==
    /\ handler[k].at = "notify"
    /\ notices' = IF handler[k].event = "failed"
                     /\ (~Exists \/ campaign.failedCount = 0)
                  THEN notices ELSE notices + 1
    /\ EventEnds(k)
    /\ UNCHANGED <<campaign, recipient, logs, unsubscribed, connected, call,
                   adding, job, mailed, pausing>>

(* A database error at any await is logged and ends the handler. *)
EventFails(k) ==
    /\ "event" \in Faults
    /\ handler[k].at # "idle"
    /\ EventEnds(k)
    /\ UNCHANGED <<campaign, recipient, logs, unsubscribed, connected, call,
                   adding, job, mailed, pausing, notices>>

(* campaign.pause *)
PauseCampaign(k) ==
    /\ k \in pausing
    /\ WriteStatus("paused")
    /\ pausing' = pausing \ {k}
    /\ UNCHANGED <<recipient, logs, unsubscribed, connected, call, adding, job,
                   mailed, handler, notices>>

PauseFails(k) ==
    /\ "event" \in Faults
    /\ k \in pausing
    /\ pausing' = pausing \ {k}
    /\ UNCHANGED <<campaign, recipient, logs, unsubscribed, connected, call,
                   adding, job, mailed, handler, notices>>

EventStep(k) ==
    \/ UpdateRecipient(k)
    \/ CountEvent(k)
    \/ Unschedule(k)
    \/ CheckDone(k)
    \/ MarkDone(k)
    \/ Notify(k)
    \/ PauseCampaign(k)
=============================================================================
