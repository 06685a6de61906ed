-------------------------- MODULE CampaignsService --------------------------
(***************************************************************************)
(* The HTTP side: CampaignsService.sendCampaign, resumeCampaign,           *)
(* addRecipient, update and remove, MailQueueProducer.enqueueBatch, and    *)
(* UnsubscribeService.unsubscribe.  A call is one instance of a handler;   *)
(* it advances from await to await and any number run at the same time.    *)
(* A call whose first check throws changes nothing and is not a step.      *)
(* Definitions named Seeded... are faults for testing the properties: no   *)
(* specification uses them.                                                *)
(***************************************************************************)
EXTENDS CampaignState

CallGoes(c, place) == call' = [call EXCEPT ![c].at = place]
CallEnds(c)        == call' = [call EXCEPT ![c] = EndedCall]

(* Calls start in the order of their numbers: the numbers only name them.  *)
Fresh(c) == call[c].at = "unused" /\ (c > 1 => call[c - 1].at # "unused")

-----------------------------------------------------------------------------
(* sendCampaign: findOne with the recipients, then the status check.       *)

Sendable == campaign.status \notin {"sending", "sent", "deleted"}

SendRead(c) ==
    /\ Fresh(c)
    /\ Sendable
    /\ Present # {}
    /\ \E s \in Schedules :
         call' = [call EXCEPT ![c] = [at |-> "filter", resume |-> FALSE,
                                      scheduled |-> s, chosen |-> Present]]
    /\ UNCHANGED <<campaign, recipient, logs, unsubscribed, connected, adding,
                   job, mailed, handler, pausing, notices>>

(* filterUnsubscribed: those who have not opted out.                       *)
SeededFiltered(S) == S

Filtered(S) == S \ unsubscribed

FilterUnsubscribed(c) ==
    /\ call[c].at = "filter"
    /\ call' = [call EXCEPT ![c].at = "limit",
                            ![c].chosen = Filtered(@)]
    /\ UNCHANGED <<campaign, recipient, logs, unsubscribed, connected, adding,
                   job, mailed, handler, pausing, notices>>

(* resumeCampaign: findOne; every recipient that is not "sent" is chosen.  *)
Unsent == {r \in Present : recipient[r] # "sent"}

ResumeRead(c) ==
    /\ Fresh(c)
    /\ campaign.status = "paused"
    /\ Present # {}
    /\ call' = [call EXCEPT ![c] =
                  [at |-> IF Unsent = {} THEN "finish" ELSE "limit",
                   resume |-> TRUE, scheduled |-> FALSE, chosen |-> Unsent]]
    /\ UNCHANGED <<campaign, recipient, logs, unsubscribed, connected, adding,
                   job, mailed, handler, pausing, notices>>

(* Nothing left to resume: the campaign is marked sent. *)
FinishResume(c) ==
    /\ call[c].at = "finish"
    /\ WriteStatus("sent")
    /\ CallEnds(c)
    /\ UNCHANGED <<recipient, logs, unsubscribed, connected, adding, job,
                   mailed, handler, pausing, notices>>

(* The daily limit, the same in both handlers: count today's log rows.     *)
LoggedToday == Cardinality({g \in LogIds : logs[g] # "absent"})

CheckDailyLimit(c) ==
    /\ call[c].at = "limit"
    /\ IF LoggedToday + Cardinality(call[c].chosen) > DailyLimit
       THEN CallEnds(c)
       ELSE CallGoes(c, "save")
    /\ UNCHANGED <<campaign, recipient, logs, unsubscribed, connected, adding,
                   job, mailed, handler, pausing, notices>>

(* emailLogRepository.save: one row per chosen recipient, or a foreign-key *)
(* error when the campaign has been deleted meanwhile.                     *)
LogsOf(c) == {c} \X call[c].chosen

SaveLogs(c) ==
    /\ call[c].at = "save"
    /\ IF Exists \/ call[c].chosen = {}
       THEN /\ logs' = [g \in LogIds |->
                  IF g \notin LogsOf(c) THEN logs[g]
                  ELSE IF call[c].scheduled THEN "scheduled" ELSE "sending"]
            /\ CallGoes(c, "enqueue")
       ELSE CallEnds(c) /\ UNCHANGED logs
    /\ UNCHANGED <<campaign, recipient, unsubscribed, connected, adding, job,
                   mailed, handler, pausing, notices>>

(* enqueueBatch: addBulk ignores a job whose id the queue already holds,   *)
(* in whatever state that job is.                                          *)
SeededJobIdPerCall(c, r) == <<c, r>>

JobId(c, r) == <<IF call[c].resume THEN c ELSE 0, r>>
JobsOf(c)   == {JobId(c, r) : r \in call[c].chosen}
NewJob(c)   == [NoJob EXCEPT !.at = "waiting", !.call = c,
                             !.scheduled = call[c].scheduled]

EnqueueBatch(c) ==
    /\ call[c].at = "enqueue"
    /\ job' = [k \in JobIds |->
                 IF k \in JobsOf(c) /\ job[k].at = "absent" THEN NewJob(c)
                 ELSE job[k]]
    /\ CallGoes(c, "status")
    /\ UNCHANGED <<campaign, recipient, logs, unsubscribed, connected, adding,
                   mailed, handler, pausing, notices>>

(* The last await: the campaign's status, and schedulingCount if scheduled. *)
UpdateStatus(c) ==
    /\ call[c].at = "status"
    /\ IF call[c].scheduled /\ Exists
       THEN campaign' = [campaign EXCEPT
                           !.status = "scheduled",
                           !.schedulingCount = Cardinality(call[c].chosen)]
       ELSE WriteStatus("sending")
    /\ CallEnds(c)
    /\ UNCHANGED <<recipient, logs, unsubscribed, connected, adding, job,
                   mailed, handler, pausing, notices>>

(* Any await may throw, and the process may die: the call goes no further. *)
CallAborts(c) ==
    /\ Faults \cap {"call", "crash"} # {}
    /\ call[c].at \notin {"unused", "done"}
    /\ CallEnds(c)
    /\ UNCHANGED <<campaign, recipient, logs, unsubscribed, connected, adding,
                   job, mailed, handler, pausing, notices>>

-----------------------------------------------------------------------------
(* addRecipient: save the row, then increment total_recipients.            *)

AddRecipient(r) ==
    /\ Exists
    /\ recipient[r] = "absent"
    /\ recipient' = [recipient EXCEPT ![r] = "pending"]
    /\ adding' = adding \cup {r}
    /\ UNCHANGED <<campaign, logs, unsubscribed, connected, call, job, mailed,
                   handler, pausing, notices>>

Counted(row) == [row EXCEPT !.total = @ + 1]

CountRecipient(r) ==
    /\ r \in adding
    /\ adding' = adding \ {r}
    /\ campaign' = IF Exists THEN Counted(campaign) ELSE campaign
    /\ UNCHANGED <<recipient, logs, unsubscribed, connected, call, job, mailed,
                   handler, pausing, notices>>

AddAborts(r) ==
    /\ Faults \cap {"call", "crash"} # {}
    /\ r \in adding
    /\ adding' = adding \ {r}
    /\ UNCHANGED <<campaign, recipient, logs, unsubscribed, connected, call,
                   job, mailed, handler, pausing, notices>>

(* update (PATCH) writes whatever status the client sends. *)
PatchStatus(s) ==
    /\ Exists
    /\ campaign' = [campaign EXCEPT !.status = s]
    /\ UNCHANGED <<recipient, logs, unsubscribed, connected, call, adding, job,
                   mailed, handler, pausing, notices>>

(* remove deletes the row; recipients and logs go with it by ON DELETE     *)
(* CASCADE.  The jobs in Redis stay.                                       *)
Remove ==
    /\ "remove" \in Faults
    /\ Exists
    /\ campaign' = [campaign EXCEPT !.status = "deleted"]
    /\ recipient' = [r \in Recipients |-> "absent"]
    /\ logs' = [g \in LogIds |-> "absent"]
    /\ UNCHANGED <<unsubscribed, connected, call, adding, job, mailed, handler,
                   pausing, notices>>

(* UnsubscribeService.unsubscribe: insert, or ignore when already there.   *)
Unsubscribe(r) ==
    /\ r \notin unsubscribed
    /\ unsubscribed' = unsubscribed \cup {r}
    /\ UNCHANGED <<campaign, recipient, logs, connected, call, adding, job,
                   mailed, handler, pausing, notices>>

CallStep(c) ==
    \/ FilterUnsubscribed(c)
    \/ FinishResume(c)
    \/ CheckDailyLimit(c)
    \/ SaveLogs(c)
    \/ EnqueueBatch(c)
    \/ UpdateStatus(c)
=============================================================================
