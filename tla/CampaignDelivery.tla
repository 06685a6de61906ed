-------------------------- MODULE CampaignDelivery --------------------------
(***************************************************************************)
(* Mail delivery of one campaign: the HTTP handlers, the mail queue with   *)
(* its workers and the event listeners, running together over one          *)
(* database.  No transaction spans two steps and nothing orders the steps  *)
(* of different calls, jobs and listeners.                                 *)
(***************************************************************************)
EXTENDS CampaignsService, MailQueueConsumer, CampaignsListener

(* What users and clients do. *)
UserStep ==
    \/ \E c \in Calls : SendRead(c) \/ ResumeRead(c)
    \/ \E r \in Recipients : AddRecipient(r)
    \/ \E r \in MayUnsubscribe : Unsubscribe(r)
    \/ \E s \in PatchStatuses : PatchStatus(s)
    \/ Remove
    \/ Reconnect

(* What the processes do with work they hold. *)
WorkStep ==
    \/ \E c \in Calls : CallStep(c)
    \/ \E r \in Recipients : CountRecipient(r)
    \/ \E k \in JobIds : JobStep(k) \/ EventStep(k)
    \/ \E k \in JobIds, p \in Processes : StartJob(k, p)

(* What goes wrong. *)
FaultStep ==
    \/ \E c \in Calls : CallAborts(c)
    \/ \E r \in Recipients : AddAborts(r)
    \/ \E k \in JobIds : AttemptFails(k) \/ ReportAborts(k)
    \/ \E k \in JobIds : EventFails(k) \/ PauseFails(k)
    \/ \E p \in Processes : Crash(p)
    \/ TokenExpires

Next == UserStep \/ WorkStep \/ FaultStep

Spec == Init /\ [][Next]_vars

(* A process that is up runs what it holds: every started handler goes on   *)
(* to its next await, and a worker with a free slot takes a waiting job.    *)
(* Users, Google and failures are under no obligation.                      *)
Fairness ==
    /\ \A c \in Calls : WF_vars(CallStep(c))
    /\ \A r \in Recipients : WF_vars(CountRecipient(r))
    /\ \A k \in JobIds : /\ WF_vars(JobStep(k))
                         /\ WF_vars(EventStep(k))
                         /\ WF_vars(\E p \in Processes : StartJob(k, p))

FairSpec == Spec /\ Fairness

-----------------------------------------------------------------------------
(* Terms the properties use. *)

JobsFor(r)  == {k \in JobIds : k[2] = r}
MailedTo(r) == \E k \in JobsFor(r) : mailed[k] > 0
Settled(r)  == recipient[r] \in {"sent", "failed"}
Busy(k)     == job[k].at \in {"waiting", "report"} \cup ActiveAt
Quiet       == /\ \A c \in Calls : call[c].at \in {"unused", "done"}
               /\ \A k \in JobIds : ~Busy(k) /\ handler[k].at = "idle"
               /\ pausing = {}
               /\ adding = {}

(***************************************************************************)
(* Safety that holds in every run.                                         *)
(***************************************************************************)

(* "sent" is never a guess: a recipient or a log row marked sent stands for *)
(* a message Gmail accepted for that recipient, whatever fails or restarts. *)
SentMeansMailed ==
    /\ \A r \in Recipients : recipient[r] = "sent" => MailedTo(r)
    /\ \A g \in LogIds : logs[g] = "sent" => MailedTo(g[2])

(* A job may mail the same message again, but only as the price of a failed *)
(* attempt or of a stall: without either it mails at most once.             *)
RepeatsArePaidFor ==
    \A k \in JobIds : mailed[k] <= job[k].attemptsMade + job[k].stalls + 1

(* Where a recipient can be counted twice: a stall lets a job report again, *)
(* and a job of a resume reports for a recipient that an earlier job may    *)
(* have reported (it mailed, or ran out of attempts).                       *)
Spent(k) == mailed[k] > 0 \/ job[k].attemptsMade >= Attempts
Again    == {k \in JobIds : Spent(k) /\ \E j \in JobsFor(k[2]) : j[1] < k[1] /\ Spent(j)}
Stalls   == UNION {{k} \X (1..job[k].stalls) : k \in JobIds}

(* The user is told too early that the campaign completed only as far as    *)
(* recipients were counted twice: each recipient still unsettled at the     *)
(* notice costs a stall or a repeated job.  Without either the notice       *)
(* comes after the last email.  (No recipient added while sending.)         *)
EarlyNoticeIsPaidFor ==
    notices > 0 =>
      Cardinality({r \in Present : ~Settled(r)}) <= Cardinality(Again) + Cardinality(Stalls)

(* Nothing that sendCampaign has under way reaches r, and r has opted out.  *)
OutOfReach(r) ==
    /\ r \in unsubscribed
    /\ job[<<0, r>>].at = "absent"
    /\ \A c \in Calls :
         call[c].at \notin {"unused", "filter", "done"} /\ ~call[c].resume =>
           r \notin call[c].chosen

(* An opt-out is for good, short of a resume: a recipient who opted out     *)
(* before any send had passed its filter stays out of reach of every send,  *)
(* those still to filter and those of later days, through every reset of    *)
(* the campaign to draft.                                                   *)
OptOutHolds == [][\A r \in Recipients : OutOfReach(r) => OutOfReach(r)']_vars

(* The rows of the recipients as EmailOutcome sees them.                    *)
Outcome == INSTANCE EmailOutcome
             WITH outcome <- recipient,
                  delivered <- {r \in Recipients : MailedTo(r)}

(* Delivery implements EmailOutcome: under every failure a recipient's row  *)
(* becomes "sent" only once Gmail has taken an email for it, and a row that *)
(* was settled is never put back to "pending".                              *)
EmailsSettle == Outcome!Spec

(***************************************************************************)
(* Safety while nothing resumes the campaign (no token loss, no PATCH to   *)
(* "paused"), checked by the runs that say so.                             *)
(***************************************************************************)

(* Sending the campaign again, at the same time or later, mails nobody      *)
(* twice: the job id of sendCampaign names the recipient and not the call,  *)
(* so the queue ignores the second job.  (No failed attempt, no crash.)     *)
OneMailPerRecipient ==
    \A r \in Recipients :
      /\ \A k \in JobsFor(r) : mailed[k] <= 1
      /\ \A j, k \in JobsFor(r) : mailed[j] > 0 /\ mailed[k] > 0 => j = k

(* Once everything has come to rest, the campaign's counters are the        *)
(* numbers of recipients marked sent and failed, whatever the order of the  *)
(* workers, the retries and the listeners.  (No lost handler, no crash.)    *)
CountersMatchRecipients ==
    Quiet /\ Exists =>
      /\ campaign.sentCount = Cardinality({r \in Recipients : recipient[r] = "sent"})
      /\ campaign.failedCount = Cardinality({r \in Recipients : recipient[r] = "failed"})

(* The status "sent" or "failed" is written only when every recipient has   *)
(* been settled, and "failed" only when none was sent.                      *)
FinishedMeansSettled ==
    /\ campaign.status \in {"sent", "failed"} =>
         \A r \in Present : Settled(r)
    /\ campaign.status = "failed" =>
         \A r \in Present : recipient[r] = "failed"

(* Once the campaign is paused and no job is in the middle of process(),    *)
(* the jobs still waiting are parked: their logs are "pending", so the      *)
(* guard will skip them (the comment above the UPDATE in the consumer).  A   *)
(* job that a resume has queued since is not one of them.                   *)
PauseParksTheRest ==
    campaign.status = "paused" /\ (\A k \in JobIds : job[k].at \notin ActiveAt) =>
      \A k \in JobIds :
        k[1] = 0 /\ job[k].at = "waiting" => logs[LogOf(k)] = "pending"

(***************************************************************************)
(* Liveness under FairSpec.                                                *)
(***************************************************************************)

(* No job is left behind: whatever fails, each job put in the queue ends    *)
(* as completed or failed.                                                  *)
EveryJobEnds ==
    \A k \in JobIds :
      job[k].at = "waiting" ~> job[k].at \in {"completed", "failed"}

(* Each queued email is eventually recorded as sent or failed on its        *)
(* recipient, however many attempts throw.                                  *)
EveryEmailSettles ==
    \A k \in JobIds : job[k].at = "waiting" ~> Settled(k[2])

(***************************************************************************)
(* What comments and documents of the repository say and the code does not *)
(* do: the runs that expect a violation check one of these each.           *)
(***************************************************************************)

(* "Only notify when the campaign fully completes (not on every email)",    *)
(* campaigns.listener.ts:63: one completion, one notification.              *)
OneCompletionNotice == notices <= 1

(* "`sending`: in the course of being sent", campaigns/README.md:252: a     *)
(* campaign that is sending has work under way.                             *)
SendingMeansWork == campaign.status = "sending" => ~Quiet
=============================================================================
