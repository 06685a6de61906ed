----------------------- MODULE CampaignProgressProofs -----------------------
(***************************************************************************)
(* Theorems about the campaign's counters, about sending it again, and     *)
(* about the verdict "sent" or "failed" that the counters lead to.         *)
(***************************************************************************)
EXTENDS CampaignMailProofs

(* With no recipient left to add, total never changes and the two counters  *)
(* only grow: what a listener saw when it compared them is still so when it *)
(* writes the status and notifies.                                          *)

Reached == campaign.sentCount + campaign.failedCount >= campaign.total

NoticeInv ==
    /\ adding = {}
    /\ Exists => \A r \in Recipients : recipient[r] # "absent"
    /\ \A k \in JobIds : handler[k].at \in {"mark", "notify"} => Reached
    /\ notices > 0 => Reached

(* What a step may do to the counters and to what was concluded from them. *)
SteadyStep ==
    /\ adding' = {}
    /\ Exists' => Exists
    /\ \A r \in Recipients :
         Exists' /\ recipient[r] # "absent" => recipient'[r] # "absent"
    /\ Reached => Reached'
    /\ \A k \in JobIds : handler'[k].at \in {"mark", "notify"} =>
         handler[k].at \in {"mark", "notify"} \/ Reached
    /\ notices' > 0 => notices > 0 \/ \E k \in JobIds : handler[k].at = "notify"

LEMMA SteadyStepKeeps ==
    ASSUME NoticeInv, SteadyStep PROVE NoticeInv'
  BY DEF NoticeInv, SteadyStep

(* A new status leaves the counters alone. *)
LEMMA StatusIsSteady ==
    ASSUME TypeOK, NEW s, s # "deleted", WriteStatus(s)
    PROVE  (Exists' => Exists) /\ (Reached => Reached')
  BY DEF TypeOK, WriteStatus, Exists, Reached, CampaignRow

LEMMA UserIsSteady ==
    ASSUME TypeOK, NoticeInv, UserStep PROVE SteadyStep
  <1> USE DEF SteadyStep, NoticeInv
  <1>1. ASSUME NEW c \in Calls, SendRead(c) \/ ResumeRead(c) PROVE SteadyStep
    BY <1>1 DEF SendRead, ResumeRead, Exists, Reached
  <1>2. ASSUME NEW r \in Recipients, AddRecipient(r) PROVE FALSE
    BY <1>2 DEF AddRecipient
  <1>3. ASSUME NEW r \in MayUnsubscribe, Unsubscribe(r) PROVE SteadyStep
    BY <1>3 DEF Unsubscribe, Exists, Reached
  <1>4. ASSUME NEW s \in PatchStatuses, PatchStatus(s) PROVE SteadyStep
    BY <1>4 DEF PatchStatus, Exists, Reached, TypeOK, CampaignRow
  <1>5. CASE Remove
    BY <1>5 DEF Remove, Exists, Reached, TypeOK, CampaignRow
  <1>6. CASE Reconnect
    BY <1>6 DEF Reconnect, Exists, Reached
  <1>7. QED
    BY <1>1, <1>2, <1>3, <1>4, <1>5, <1>6 DEF UserStep

LEMMA CallIsSteady ==
    ASSUME TypeOK, NoticeInv, NEW c \in Calls, CallStep(c) \/ CallAborts(c)
    PROVE  SteadyStep
  <1> USE DEF SteadyStep, NoticeInv
  <1>1. CASE FilterUnsubscribed(c) \/ CheckDailyLimit(c) \/ CallAborts(c)
    BY <1>1 DEF FilterUnsubscribed, CheckDailyLimit, CallAborts, Exists, Reached
  <1>2. CASE SaveLogs(c) \/ EnqueueBatch(c)
    BY <1>2 DEF SaveLogs, EnqueueBatch, Exists, Reached
  <1>3. CASE FinishResume(c)
    BY <1>3, StatusIsSteady DEF FinishResume
  <1>4. CASE UpdateStatus(c)
    <2>1. ASSUME campaign' = [campaign EXCEPT
                   !.status = "scheduled",
                   !.schedulingCount = Cardinality(call[c].chosen)],
                 Exists
          PROVE  Reached => Reached'
      BY <2>1 DEF Reached, TypeOK, CampaignRow
    <2>2. (Exists' => Exists) /\ (Reached => Reached')
      BY <1>4, <2>1, StatusIsSteady DEF UpdateStatus
    <2>3. QED
      BY <1>4, <2>2 DEF UpdateStatus
  <1>5. QED
    BY <1>1, <1>2, <1>3, <1>4 DEF CallStep

LEMMA JobIsSteady ==
    ASSUME TypeOK, NoticeInv, NEW k \in JobIds,
           \/ JobStep(k)
           \/ AttemptFails(k)
           \/ ReportAborts(k)
           \/ \E p \in Processes : StartJob(k, p)
    PROVE  SteadyStep
  <1>1. UNCHANGED <<campaign, recipient, adding, notices>>
    BY DEF JobStep, AttemptFails, ReportAborts, StartJob, ReadGuard,
           MarkSending, GetToken, TokenRefused, PendLogs, SendMail,
           RecordSent, Complete, ReportFailure
  <1>2. \A i \in JobIds : handler'[i].at \in {"mark", "notify"} =>
          handler[i].at \in {"mark", "notify"}
    <2>1. CASE UNCHANGED handler
      BY <2>1
    <2>2. CASE RecordSent(k) \/ ReportFailure(k)
      BY <2>2 DEF RecordSent, ReportFailure, TypeOK
    <2>3. QED
      BY <2>1, <2>2
         DEF JobStep, AttemptFails, ReportAborts, StartJob, ReadGuard,
             MarkSending, GetToken, TokenRefused, PendLogs, SendMail, Complete
  <1>3. QED
    BY <1>1, <1>2 DEF SteadyStep, NoticeInv, Exists, Reached

LEMMA EventIsSteady ==
    ASSUME TypeOK, NoticeInv, NEW k \in JobIds,
           EventStep(k) \/ EventFails(k) \/ PauseFails(k)
    PROVE  SteadyStep
  <1> USE DEF SteadyStep, NoticeInv
  <1>1. handler \in [JobIds -> Handler] /\ campaign \in CampaignRow
    BY DEF TypeOK
  <1>2. ASSUME NEW place \in {"idle", "count", "unschedule", "check"},
               EventGoes(k, place)
        PROVE  \A i \in JobIds : handler'[i].at \in {"mark", "notify"} =>
                 handler[i].at \in {"mark", "notify"}
    BY <1>1, <1>2 DEF EventGoes, Handler
  <1>3. CASE UpdateRecipient(k)
    <2>1. \A r \in Recipients : recipient[r] # "absent" => recipient'[r] # "absent"
      BY <1>3 DEF UpdateRecipient, WriteRecipient, StatusFor, TypeOK
    <2>2. QED
      BY <1>2, <1>3, <2>1 DEF UpdateRecipient, Exists, Reached
  <1>4. CASE CountEvent(k)
    <2>1. (Exists' => Exists) /\ (Reached => Reached')
      BY <1>1, <1>4 DEF CountEvent, Incremented, Exists, Reached, CampaignRow
    <2>2. PICK place \in {"unschedule", "check"} : EventGoes(k, place)
      BY <1>4 DEF CountEvent
    <2>3. QED
      BY <1>2, <1>4, <2>1, <2>2 DEF CountEvent
  <1>5. CASE Unschedule(k)
    <2>1. (Exists' => Exists) /\ (Reached => Reached')
      BY <1>1, <1>5 DEF Unschedule, Exists, Reached, CampaignRow
    <2>2. QED
      BY <1>2, <1>5, <2>1 DEF Unschedule
  <1>6. CASE CheckDone(k)
    <2>1. CASE AllDone(campaign)
      BY <1>6, <2>1 DEF CheckDone, AllDone, Reached, Exists
    <2>2. CASE ~AllDone(campaign)
      BY <1>2, <1>6, <2>2 DEF CheckDone, EventEnds, Reached, Exists
    <2>3. QED
      BY <2>1, <2>2
  <1>7. CASE MarkDone(k)
    <2>1. handler[k].verdict # "deleted"
      BY <1>1 DEF Handler
    <2>2. (Exists' => Exists) /\ (Reached => Reached')
      BY <1>7, <2>1, StatusIsSteady DEF MarkDone
    <2>3. \A i \in JobIds : handler'[i].at \in {"mark", "notify"} =>
            handler[i].at \in {"mark", "notify"}
      BY <1>1, <1>7 DEF MarkDone, EventGoes, Handler
    <2>4. QED
      BY <1>7, <2>2, <2>3 DEF MarkDone
  <1>8. CASE Notify(k)
    BY <1>2, <1>8 DEF Notify, EventEnds, Exists, Reached
  <1>9. CASE EventFails(k)
    BY <1>2, <1>9 DEF EventFails, EventEnds, Exists, Reached
  <1>10. CASE PauseCampaign(k)
    BY <1>10, StatusIsSteady DEF PauseCampaign
  <1>11. CASE PauseFails(k)
    BY <1>11 DEF PauseFails, Exists, Reached
  <1>12. QED
    BY <1>3, <1>4, <1>5, <1>6, <1>7, <1>8, <1>9, <1>10, <1>11 DEF EventStep

LEMMA NoticeInvariant ==
    ASSUME InitialRecipients = Recipients
    PROVE  Spec => []NoticeInv
  <1>1. Init => NoticeInv
    BY DEF Init, NoticeInv, NoHandler, Exists
  <1>2. TypeOK /\ NoticeInv /\ [Next]_vars => NoticeInv'
    <2> SUFFICES ASSUME TypeOK, NoticeInv, [Next]_vars PROVE SteadyStep
      BY SteadyStepKeeps
    <2>1. CASE UserStep
      BY <2>1, UserIsSteady
    <2>2. CASE WorkStep
      <3>1. ASSUME NEW r \in Recipients, CountRecipient(r) PROVE FALSE
        BY <3>1 DEF CountRecipient, NoticeInv
      <3>2. QED
        BY <2>2, <3>1, CallIsSteady, JobIsSteady, EventIsSteady DEF WorkStep
    <2>3. CASE FaultStep
      <3>1. ASSUME NEW r \in Recipients, AddAborts(r) PROVE FALSE
        BY <3>1 DEF AddAborts, NoticeInv
      <3>2. ASSUME NEW p \in Processes, Crash(p) PROVE SteadyStep
        BY <3>2 DEF Crash, NoHandler, SteadyStep, NoticeInv, Exists, Reached
      <3>3. CASE TokenExpires
        BY <3>3 DEF TokenExpires, SteadyStep, NoticeInv, Exists, Reached
      <3>4. QED
        BY <2>3, <3>1, <3>2, <3>3, CallIsSteady, JobIsSteady, EventIsSteady
           DEF FaultStep
    <2>4. CASE UNCHANGED vars
      BY <2>4 DEF vars, SteadyStep, NoticeInv, Exists, Reached
    <2>5. QED
      BY <2>1, <2>2, <2>3, <2>4 DEF Next
  <1>3. QED
    BY <1>1, <1>2, TypeCorrect, PTL DEF Spec

-----------------------------------------------------------------------------
(* A campaign nobody resumes.  While the token stays good and no client     *)
(* writes "paused", no job is parked and no call resumes the campaign; so   *)
(* every job in the queue has the job id of sendCampaign, which the         *)
(* recipient determines.                                                    *)

NothingResumes == "token" \notin Faults /\ "paused" \notin PatchStatuses

SendsOnly ==
    /\ connected
    /\ campaign.status # "paused"
    /\ pausing = {}
    /\ \A c \in Calls : ~call[c].resume /\ call[c].at # "finish"
    /\ \A k \in JobIds : job[k].at # "pend" /\ (job[k].at # "absent" => k[1] = 0)

LEMMA StatusIsNotPaused ==
    ASSUME TypeOK, NEW s, s # "paused", campaign.status # "paused", WriteStatus(s)
    PROVE  campaign'.status # "paused"
  BY DEF TypeOK, WriteStatus, CampaignRow

LEMMA UserKeepsSends ==
    ASSUME NothingResumes, TypeOK, SendsOnly, UserStep PROVE SendsOnly'
  <1> USE DEF SendsOnly
  <1>1. ASSUME NEW c \in Calls, SendRead(c) PROVE SendsOnly'
    <2>1. PICK s \in Schedules :
            call' = [call EXCEPT ![c] = [at |-> "filter", resume |-> FALSE,
                                         scheduled |-> s, chosen |-> Present]]
      BY <1>1 DEF SendRead
    <2>2. \A d \in Calls : ~call'[d].resume /\ call'[d].at # "finish"
      BY <2>1 DEF TypeOK
    <2>3. QED
      BY <1>1, <2>2 DEF SendRead
  <1>2. ASSUME NEW c \in Calls, ResumeRead(c) PROVE FALSE
    BY <1>2 DEF ResumeRead
  <1>3. ASSUME NEW r \in Recipients, AddRecipient(r) PROVE SendsOnly'
    BY <1>3 DEF AddRecipient
  <1>4. ASSUME NEW r \in MayUnsubscribe, Unsubscribe(r) PROVE SendsOnly'
    BY <1>4 DEF Unsubscribe
  <1>5. ASSUME NEW s \in PatchStatuses, PatchStatus(s) PROVE SendsOnly'
    <2>1. s # "paused"
      BY DEF NothingResumes
    <2>2. campaign'.status # "paused"
      BY <1>5, <2>1 DEF PatchStatus, TypeOK, CampaignRow
    <2>3. QED
      BY <1>5, <2>2 DEF PatchStatus
  <1>6. CASE Remove
    BY <1>6 DEF Remove, TypeOK, CampaignRow
  <1>7. CASE Reconnect
    BY <1>7 DEF Reconnect
  <1>8. QED
    BY <1>1, <1>2, <1>3, <1>4, <1>5, <1>6, <1>7 DEF UserStep

LEMMA CallKeepsSends ==
    ASSUME TypeOK, SendsOnly, NEW c \in Calls, CallStep(c) \/ CallAborts(c)
    PROVE  SendsOnly'
  <1> USE DEF SendsOnly
  <1>1. call \in [Calls -> Call]
    BY DEF TypeOK
  <1>2. ASSUME \/ \E place \in {"save", "enqueue", "status"} : CallGoes(c, place)
               \/ CallEnds(c)
        PROVE  \A d \in Calls : ~call'[d].resume /\ call'[d].at # "finish"
    BY <1>1, <1>2 DEF CallGoes, CallEnds, EndedCall, NoCall, Call
  <1>3. CASE FilterUnsubscribed(c)
    <2> DEFINE filtered == [call[c] EXCEPT !.at = "limit", !.chosen = @ \ unsubscribed]
    <2>1. filtered.resume = call[c].resume /\ filtered.at = "limit"
      BY <1>1 DEF Call
    <2>2. \A d \in Calls : ~call'[d].resume /\ call'[d].at # "finish"
      BY <1>1, <1>3, <2>1 DEF FilterUnsubscribed, Filtered
    <2>3. QED
      BY <1>3, <2>2 DEF FilterUnsubscribed
  <1>4. CASE CheckDailyLimit(c) \/ SaveLogs(c) \/ CallAborts(c)
    BY <1>2, <1>4 DEF CheckDailyLimit, SaveLogs, CallAborts
  <1>5. CASE FinishResume(c)
    BY <1>2, <1>5, StatusIsNotPaused DEF FinishResume
  <1>6. CASE EnqueueBatch(c)
    <2>1. \A k \in JobsOf(c) : k[1] = 0
      BY DEF JobsOf, JobId
    <2>2. ASSUME NEW k \in JobIds
          PROVE  job'[k].at # "pend" /\ (job'[k].at # "absent" => k[1] = 0)
      <3>1. CASE job'[k] = job[k]
        BY <3>1
      <3>2. CASE k \in JobsOf(c) /\ job'[k] = NewJob(c)
        BY <2>1, <3>2 DEF NewJob, NoJob
      <3>3. QED
        BY <1>6, <3>1, <3>2 DEF EnqueueBatch
    <2>3. QED
      BY <1>2, <1>6, <2>2 DEF EnqueueBatch
  <1>7. CASE UpdateStatus(c)
    <2>1. ASSUME campaign' = [campaign EXCEPT
                   !.status = "scheduled",
                   !.schedulingCount = Cardinality(call[c].chosen)]
          PROVE  campaign'.status # "paused"
      BY <2>1 DEF TypeOK, CampaignRow
    <2>2. campaign'.status # "paused"
      BY <1>7, <2>1, StatusIsNotPaused DEF UpdateStatus
    <2>3. QED
      BY <1>2, <1>7, <2>2 DEF UpdateStatus
  <1>8. QED
    BY <1>3, <1>4, <1>5, <1>6, <1>7 DEF CallStep

LEMMA JobKeepsSends ==
    ASSUME TypeOK, SendsOnly, NEW k \in JobIds, JobMoves(k)
    PROVE  SendsOnly'
  <1>1. ~TokenRefused(k) /\ ~PendLogs(k)
    BY DEF SendsOnly, TokenRefused, PendLogs
  <1>2. QED
    BY <1>1 DEF SendsOnly, JobMoves

LEMMA EventKeepsSends ==
    ASSUME TypeOK, SendsOnly, NEW k \in JobIds,
           EventStep(k) \/ EventFails(k) \/ PauseFails(k)
    PROVE  SendsOnly'
  <1> USE DEF SendsOnly
  <1>1. campaign'.status # "paused"
    <2>1. CASE UNCHANGED campaign
      BY <2>1
    <2>2. CASE CountEvent(k)
      BY <2>2 DEF CountEvent, Incremented, TypeOK, CampaignRow
    <2>3. CASE Unschedule(k)
      BY <2>3 DEF Unschedule, TypeOK, CampaignRow
    <2>4. CASE MarkDone(k)
      <3>1. handler[k].verdict # "paused"
        BY DEF TypeOK, Handler
      <3>2. QED
        BY <2>4, <3>1, StatusIsNotPaused DEF MarkDone
    <2>5. QED
      BY <2>1, <2>2, <2>3, <2>4
         DEF EventStep, EventFails, PauseFails, UpdateRecipient, CheckDone,
             Notify, PauseCampaign
  <1>2. UNCHANGED <<connected, call, job>> /\ pausing' \subseteq pausing
    BY DEF EventStep, EventFails, PauseFails, UpdateRecipient, CountEvent,
           Unschedule, CheckDone, MarkDone, Notify, PauseCampaign
  <1>3. QED
    BY <1>1, <1>2

LEMMA CrashKeepsSends ==
    ASSUME TypeOK, SendsOnly, NEW p \in Processes, Crash(p) PROVE SendsOnly'
  <1>1. UNCHANGED <<campaign, connected, call>> /\ pausing' \subseteq pausing
    BY DEF Crash
  <1>2. ASSUME NEW k \in JobIds
        PROVE  job'[k].at # "pend" /\ (job'[k].at # "absent" => k[1] = 0)
    <2>1. job'[k] = AfterCrash(job[k], p) /\ job[k] \in Job
      BY DEF Crash, TypeOK
    <2>2. Stalled(job[k]).at \in {"failed", "waiting"}
      BY <2>1 DEF Stalled, Job
    <2>3. [job[k] EXCEPT !.at = "failed"].at = "failed"
      BY <2>1 DEF Job
    <2>4. job[k].at = "absent" => job'[k] = job[k]
      BY <2>1 DEF AfterCrash, ActiveAt
    <2>5. QED
      BY <2>1, <2>2, <2>3, <2>4 DEF AfterCrash, SendsOnly
  <1>3. QED
    BY <1>1, <1>2 DEF SendsOnly

LEMMA SendsOnlyInvariant ==
    ASSUME NothingResumes PROVE Spec => []SendsOnly
  <1>1. Init => SendsOnly
    BY DEF Init, SendsOnly, NoJob, NoCall
  <1>2. TypeOK /\ SendsOnly /\ [Next]_vars => SendsOnly'
    <2> SUFFICES ASSUME TypeOK, SendsOnly, [Next]_vars PROVE SendsOnly'
      OBVIOUS
    <2>1. CASE UserStep
      BY <2>1, UserKeepsSends
    <2>2. CASE WorkStep
      <3>1. ASSUME NEW r \in Recipients, CountRecipient(r) PROVE SendsOnly'
        BY <3>1 DEF CountRecipient, Counted, SendsOnly, TypeOK, CampaignRow
      <3>2. QED
        BY <2>2, <3>1, CallKeepsSends, JobStepMoves, JobKeepsSends, EventKeepsSends
           DEF WorkStep
    <2>3. CASE FaultStep
      <3>1. ASSUME NEW r \in Recipients, AddAborts(r) PROVE SendsOnly'
        BY <3>1 DEF AddAborts, SendsOnly
      <3>2. ~TokenExpires
        BY DEF TokenExpires, NothingResumes
      <3>3. QED
        BY <2>3, <3>1, <3>2, CallKeepsSends, JobStepMoves, JobKeepsSends,
           EventKeepsSends, CrashKeepsSends DEF FaultStep
    <2>4. CASE UNCHANGED vars
      BY <2>4 DEF vars, SendsOnly
    <2>5. QED
      BY <2>1, <2>2, <2>3, <2>4 DEF Next
  <1>3. QED
    BY <1>1, <1>2, TypeCorrect, PTL DEF Spec

-----------------------------------------------------------------------------
(* OneMailPerRecipient.  If besides no attempt fails and no process dies, a *)
(* job is never tried twice.                                                *)

NothingRepeats == NothingResumes /\ Faults \cap {"attempt", "crash"} = {}

FirstTry(k) ==
    /\ job[k].at # "report"
    /\ job[k].attemptsMade = 0
    /\ job[k].stalls = 0

OnceInv == \A k \in JobIds : FirstTry(k)

(* However often and however concurrently the campaign is sent again, no    *)
(* recipient gets its email twice.                                          *)
THEOREM SendAgainIsSafe ==
    ASSUME NothingRepeats
    PROVE  Spec => []OneMailPerRecipient
  <1>1. Init => PaidInv /\ OnceInv
    BY DEF Init, PaidInv, PaidFor, Unpaid, OnceInv, FirstTry, NoJob
  <1>2. TypeOK /\ PaidInv /\ [Next]_vars => PaidInv'
    <2>1. ASSUME PaidInv, UNCHANGED <<job, mailed>> PROVE PaidInv'
      BY <2>1 DEF PaidInv, PaidFor, Unpaid
    <2>2. QED
      BY <2>1, StepKinds, JobKeepsPaid, CrashKeepsPaid, EnqueueKeepsPaid
         DEF vars
  <1>3. TypeOK /\ SendsOnly /\ OnceInv /\ [Next]_vars => OnceInv'
    <2> SUFFICES ASSUME TypeOK, SendsOnly, OnceInv, [Next]_vars PROVE OnceInv'
      OBVIOUS
    <2>1. CASE UNCHANGED job
      BY <2>1 DEF OnceInv, FirstTry
    <2>2. ASSUME NEW c \in Calls, EnqueueBatch(c), NEW k \in JobIds
          PROVE  FirstTry(k)'
      <3>1. job'[k] \in {job[k], NewJob(c)}
        BY <2>2 DEF EnqueueBatch
      <3>2. QED
        BY <3>1 DEF NewJob, NoJob, OnceInv, FirstTry
    <2>3. ASSUME NEW k \in JobIds, JobMoves(k) PROVE OnceInv'
      <3>1. ~TokenRefused(k) /\ ~PendLogs(k)
        BY DEF SendsOnly, TokenRefused, PendLogs
      <3>2. ~AttemptFails(k)
        BY DEF AttemptFails, NothingRepeats
      <3>3. QED
        BY <2>3, <3>1, <3>2 DEF JobMoves, OnceInv, FirstTry
    <2>4. \A p \in Processes : ~Crash(p)
      BY DEF Crash, NothingRepeats
    <2>5. QED
      BY <2>1, <2>2, <2>3, <2>4, StepKinds, JobStepMoves DEF vars, OnceInv
  <1>4. TypeOK /\ PaidInv /\ SendsOnly /\ OnceInv => OneMailPerRecipient
    <2> SUFFICES ASSUME TypeOK, PaidInv, SendsOnly, OnceInv PROVE OneMailPerRecipient
      OBVIOUS
    <2>1. \A k \in JobIds : mailed[k] \in Nat /\ mailed[k] <= 1
      BY DEF TypeOK, PaidInv, PaidFor, Unpaid, OnceInv, FirstTry
    <2>2. \A k \in JobIds : mailed[k] > 0 => k[1] = 0
      BY DEF TypeOK, PaidInv, PaidFor, SendsOnly
    <2>3. \A j, k \in JobIds : j[1] = k[1] /\ j[2] = k[2] => j = k
      BY DEF JobIds
    <2>4. QED
      BY <2>1, <2>2, <2>3 DEF OneMailPerRecipient, JobsFor
  <1>5. Spec => []SendsOnly
    BY SendsOnlyInvariant DEF NothingRepeats
  <1>6. QED
    BY <1>1, <1>2, <1>3, <1>4, <1>5, TypeCorrect, PTL DEF Spec

-----------------------------------------------------------------------------
(* CountersMatchRecipients.  If nothing resumes the campaign and no listener *)
(* is lost, the job of a recipient reports its end once: the handler it      *)
(* starts says what stands on the recipient's row, and is in the tally from  *)
(* its increment on.                                                         *)

NothingIsLost == NothingResumes /\ Faults \cap {"event", "crash"} = {}

SendJob(r) == <<0, r>>
Send(r)    == handler[SendJob(r)]

(* The recipients whose "sent" ("failed") has been counted.                  *)
Tally(event) ==
    {r \in Recipients : /\ Send(r).event = event
                        /\ Send(r).at \notin {"recipient", "count"}}

ReportedOnce(k) ==
    /\ job[k].at \notin {"ack", "completed", "failed"} => handler[k].event = "none"
    /\ handler[k].event = "none" => handler[k].at = "idle"

RowFollows(r) ==
    /\ job[SendJob(r)].at # "absent" => recipient[r] # "absent"
    /\ IF Send(r).event = "none" \/ Send(r).at = "recipient"
       THEN recipient[r] \in {"absent", "pending"}
       ELSE recipient[r] = StatusFor(Send(r).event)

ChosenPresent == \A c \in Calls : call[c].chosen \subseteq Present

CountersTally ==
    /\ campaign.sentCount = Cardinality(Tally("sent"))
    /\ campaign.failedCount = Cardinality(Tally("failed"))

SettleInv ==
    /\ \A k \in JobIds : ReportedOnce(k)
    /\ Exists => /\ ChosenPresent
                 /\ \A r \in Recipients : RowFollows(r)
                 /\ CountersTally

LEMMA SendJobIsJob == \A r \in Recipients : SendJob(r) \in JobIds
  BY BoundsAssumption DEF SendJob, JobIds

LEMMA JobsAreSends ==
    ASSUME SendsOnly, NEW k \in JobIds, job[k].at # "absent"
    PROVE  k[2] \in Recipients /\ k = SendJob(k[2])
  BY DEF SendsOnly, JobIds, SendJob

(* The handlers go on, none of them over its two writes.                     *)
HandlersKeep ==
    \A k \in JobIds :
      /\ handler'[k].event = handler[k].event
      /\ handler[k].at = "idle" => handler'[k].at = "idle"
      /\ \A place \in {"recipient", "count"} :
           handler'[k].at = place <=> handler[k].at = place

LEMMA SameTally ==
    ASSUME HandlersKeep, NEW event PROVE Tally(event)' = Tally(event)
  BY SendJobIsJob DEF HandlersKeep, Tally, Send

(* Steps that report nothing, write no row and count nothing.                *)
LEMMA Undisturbed ==
    ASSUME SettleInv, HandlersKeep, UNCHANGED <<job, recipient>>,
           Exists' => Exists /\ ChosenPresent',
           campaign'.sentCount = campaign.sentCount,
           campaign'.failedCount = campaign.failedCount
    PROVE  SettleInv'
  <1>1. \A k \in JobIds : ReportedOnce(k)'
    BY DEF SettleInv, ReportedOnce, HandlersKeep
  <1>2. ASSUME Exists', NEW r \in Recipients PROVE RowFollows(r)'
    <2>1. RowFollows(r)
      BY <1>2 DEF SettleInv
    <2>2. /\ Send(r)'.event = Send(r).event
          /\ Send(r)'.at = "recipient" <=> Send(r).at = "recipient"
      BY SendJobIsJob DEF HandlersKeep, Send
    <2>3. QED
      BY <2>1, <2>2 DEF RowFollows
  <1>3. Exists' => CountersTally'
    BY SameTally DEF SettleInv, CountersTally
  <1>4. QED
    BY <1>1, <1>2, <1>3 DEF SettleInv

LEMMA UserKeepsSettled ==
    ASSUME TypeOK, SettleInv, UserStep PROVE SettleInv'
  <1>1. UNCHANGED handler /\ HandlersKeep
    BY DEF UserStep, SendRead, ResumeRead, AddRecipient, Unsubscribe, PatchStatus,
           Remove, Reconnect, HandlersKeep
  <1>2. ASSUME NEW c \in Calls, SendRead(c) \/ ResumeRead(c) PROVE SettleInv'
    <2>1. UNCHANGED <<campaign, recipient, job>>
      BY <1>2 DEF SendRead, ResumeRead
    <2>2. call'[c].chosen \subseteq Present /\ \A d \in Calls \ {c} : call'[d] = call[d]
      BY <1>2 DEF SendRead, ResumeRead, Unsent, TypeOK
    <2>3. Exists' => Exists /\ ChosenPresent'
      BY <2>1, <2>2 DEF SettleInv, ChosenPresent, Exists, Present
    <2>4. QED
      BY <1>1, <2>1, <2>3, Undisturbed
  <1>3. ASSUME NEW r \in Recipients, AddRecipient(r) PROVE SettleInv'
    <2>1. /\ UNCHANGED <<campaign, call, job, handler>> /\ Exists
          /\ recipient[r] = "absent" /\ recipient'[r] = "pending"
          /\ \A q \in Recipients \ {r} : recipient'[q] = recipient[q]
      BY <1>3 DEF AddRecipient, TypeOK
    <2>2. RowFollows(r)'
      <3>1. RowFollows(r)
        BY <2>1 DEF SettleInv
      <3>2. Send(r).event = "none" \/ Send(r).at = "recipient"
        BY <2>1, <3>1 DEF RowFollows, StatusFor
      <3>3. QED
        BY <2>1, <3>2 DEF RowFollows, Send
    <2>3. \A q \in Recipients \ {r} : RowFollows(q)'
      BY <2>1 DEF SettleInv, RowFollows, Send
    <2>4. ChosenPresent'
      BY <2>1 DEF SettleInv, ChosenPresent, Present
    <2>5. CountersTally'
      BY <1>1, <2>1, SameTally DEF SettleInv, CountersTally
    <2>6. \A k \in JobIds : ReportedOnce(k)'
      BY <2>1 DEF SettleInv, ReportedOnce
    <2>7. QED
      BY <2>2, <2>3, <2>4, <2>5, <2>6 DEF SettleInv
  <1>4. ASSUME NEW r \in MayUnsubscribe, Unsubscribe(r) PROVE SettleInv'
    BY <1>1, <1>4, Undisturbed DEF Unsubscribe, SettleInv, ChosenPresent, Present, Exists
  <1>5. ASSUME NEW s \in PatchStatuses, PatchStatus(s) PROVE SettleInv'
    <2>1. /\ Exists /\ UNCHANGED <<recipient, call, job>>
          /\ campaign'.sentCount = campaign.sentCount
          /\ campaign'.failedCount = campaign.failedCount
      BY <1>5 DEF PatchStatus, TypeOK, CampaignRow
    <2>2. QED
      BY <1>1, <2>1, Undisturbed DEF SettleInv, ChosenPresent, Present
  <1>6. CASE Remove
    <2>1. UNCHANGED <<job, handler>> /\ ~Exists'
      BY <1>6 DEF Remove, Exists, TypeOK, CampaignRow
    <2>2. QED
      BY <2>1 DEF SettleInv, ReportedOnce
  <1>7. CASE Reconnect
    BY <1>1, <1>7, Undisturbed DEF Reconnect, SettleInv, ChosenPresent, Present, Exists
  <1>8. QED
    BY <1>2, <1>3, <1>4, <1>5, <1>6, <1>7 DEF UserStep

LEMMA CallKeepsSettled ==
    ASSUME TypeOK, SendsOnly, SettleInv, NEW c \in Calls, CallStep(c) \/ CallAborts(c)
    PROVE  SettleInv'
  <1>1. UNCHANGED <<handler, recipient>> /\ HandlersKeep
    BY DEF CallStep, FilterUnsubscribed, FinishResume, CheckDailyLimit, SaveLogs,
           EnqueueBatch, UpdateStatus, CallAborts, HandlersKeep
  <1>2. /\ Exists' => Exists
        /\ campaign'.sentCount = campaign.sentCount
        /\ campaign'.failedCount = campaign.failedCount
    <2>1. CASE UNCHANGED campaign
      BY <2>1 DEF Exists
    <2>2. CASE FinishResume(c)
      BY <2>2 DEF FinishResume, WriteStatus, Exists, TypeOK, CampaignRow
    <2>3. CASE UpdateStatus(c)
      <3>1. ASSUME campaign' = [campaign EXCEPT
                     !.status = "scheduled",
                     !.schedulingCount = Cardinality(call[c].chosen)]
            PROVE  /\ campaign'.sentCount = campaign.sentCount
                   /\ campaign'.failedCount = campaign.failedCount
        BY <3>1 DEF TypeOK, CampaignRow
      <3>2. QED
        BY <2>3, <3>1 DEF UpdateStatus, WriteStatus, Exists, TypeOK, CampaignRow
    <2>4. QED
      BY <2>1, <2>2, <2>3 DEF CallStep, FilterUnsubscribed, CheckDailyLimit, SaveLogs,
         EnqueueBatch, CallAborts
  <1>3. \A d \in Calls : call'[d].chosen \subseteq call[d].chosen
    <2>1. call \in [Calls -> Call]
      BY DEF TypeOK
    <2>2. ASSUME (\E place : CallGoes(c, place)) \/ CallEnds(c)
          PROVE  \A d \in Calls : call'[d].chosen \subseteq call[d].chosen
      BY <2>1, <2>2 DEF CallGoes, CallEnds, EndedCall, NoCall, Call
    <2>3. CASE FilterUnsubscribed(c)
      <3>1. [call[c] EXCEPT !.at = "limit", !.chosen = @ \ unsubscribed].chosen
              = call[c].chosen \ unsubscribed
        BY <2>1 DEF Call
      <3>2. QED
        BY <2>1, <2>3, <3>1 DEF FilterUnsubscribed, Filtered
    <2>4. QED
      BY <2>2, <2>3 DEF CallStep, FinishResume, CheckDailyLimit, SaveLogs,
         EnqueueBatch, UpdateStatus, CallAborts
  <1>4. Exists' => Exists /\ ChosenPresent'
    BY <1>1, <1>2, <1>3 DEF SettleInv, ChosenPresent, Present
  <1>5. CASE EnqueueBatch(c)
    <2>1. ASSUME NEW k \in JobIds
          PROVE  \/ job'[k] = job[k]
                 \/ /\ job[k].at = "absent" /\ job'[k].at = "waiting"
                    /\ \E r \in call[c].chosen : k = SendJob(r)
      <3>1. \/ job'[k] = job[k]
            \/ k \in JobsOf(c) /\ job[k].at = "absent" /\ job'[k] = NewJob(c)
        BY <1>5 DEF EnqueueBatch
      <3>2. k \in JobsOf(c) => \E r \in call[c].chosen : k = SendJob(r)
        BY DEF SendsOnly, JobsOf, JobId, SendJob
      <3>3. NewJob(c).at = "waiting"
        BY DEF NewJob, NoJob
      <3>4. QED
        BY <3>1, <3>2, <3>3
    <2>2. \A k \in JobIds : ReportedOnce(k)'
      BY <1>1, <2>1 DEF SettleInv, ReportedOnce
    <2>3. ASSUME Exists', NEW r \in Recipients PROVE RowFollows(r)'
      <3>1. RowFollows(r) /\ ChosenPresent
        BY <1>4, <2>3 DEF SettleInv
      <3>2. \/ job'[SendJob(r)] = job[SendJob(r)]
            \/ r \in call[c].chosen
        BY <2>1, SendJobIsJob DEF SendJob
      <3>3. job'[SendJob(r)].at # "absent" => recipient[r] # "absent"
        BY <3>1, <3>2 DEF RowFollows, ChosenPresent, Present
      <3>4. QED
        BY <1>1, <3>1, <3>3 DEF RowFollows, Send
    <2>4. Exists' => CountersTally'
      BY <1>1, <1>2, SameTally DEF SettleInv, CountersTally
    <2>5. QED
      BY <1>4, <2>2, <2>3, <2>4 DEF SettleInv
  <1>6. CASE ~EnqueueBatch(c)
    <2>1. UNCHANGED job
      BY <1>6 DEF CallStep, FilterUnsubscribed, FinishResume, CheckDailyLimit,
         SaveLogs, UpdateStatus, CallAborts
    <2>2. QED
      BY <1>1, <1>2, <1>4, <2>1, Undisturbed
  <1>7. QED
    BY <1>5, <1>6

(* A job that reports starts its only handler, at its first write.           *)
LEMMA ReportKeepsSettled ==
    ASSUME TypeOK, SendsOnly, SettleInv, NEW k \in JobIds, JobMoves(k),
           RecordSent(k) \/ ReportFailure(k)
    PROVE  SettleInv'
  <1>1. /\ job[k].at \in {"record", "report"}
        /\ job'[k].at \in {"ack", "failed"}
        /\ handler'[k].event \in {"sent", "failed"} /\ handler'[k].at = "recipient"
        /\ \A i \in JobIds \ {k} : handler'[i] = handler[i]
    BY JobGoesEffect DEF RecordSent, ReportFailure, TypeOK
  <1>2. handler[k].event = "none"
    BY <1>1 DEF SettleInv, ReportedOnce
  <1>3. \A i \in JobIds : ReportedOnce(i)'
    BY <1>1 DEF SettleInv, ReportedOnce, JobMoves
  <1>4. UNCHANGED <<campaign, recipient, call>>
    BY DEF JobMoves
  <1>5. \A r \in Recipients : Exists => RowFollows(r)'
    <2> SUFFICES ASSUME NEW r \in Recipients, Exists PROVE RowFollows(r)'
      OBVIOUS
    <2>1. RowFollows(r) /\ SendJob(r) \in JobIds
      BY SendJobIsJob DEF SettleInv
    <2>2. CASE SendJob(r) = k
      BY <1>1, <1>2, <1>4, <2>1, <2>2 DEF RowFollows, Send
    <2>3. CASE SendJob(r) # k
      BY <1>1, <1>4, <2>1, <2>3 DEF RowFollows, Send, JobMoves
    <2>4. QED
      BY <2>2, <2>3
  <1>6. ASSUME NEW event \in {"sent", "failed"} PROVE Tally(event)' = Tally(event)
    <2>1. ASSUME NEW r \in Recipients
          PROVE  r \in Tally(event)' <=> r \in Tally(event)
      <3>1. CASE SendJob(r) = k
        BY <1>1, <1>2, <3>1 DEF Tally, Send
      <3>2. CASE SendJob(r) # k
        BY <1>1, <3>2, SendJobIsJob DEF Tally, Send
      <3>3. QED
        BY <3>1, <3>2
    <2>2. QED
      BY <2>1 DEF Tally
  <1>7. QED
    BY <1>3, <1>4, <1>5, <1>6 DEF SettleInv, ChosenPresent, Present, CountersTally, Exists

LEMMA JobKeepsSettled ==
    ASSUME NothingIsLost, TypeOK, SendsOnly, SettleInv, NEW k \in JobIds, JobMoves(k)
    PROVE  SettleInv'
  <1>1. ~TokenRefused(k) /\ ~PendLogs(k) /\ ~ReportAborts(k)
    BY DEF SendsOnly, TokenRefused, PendLogs, ReportAborts, NothingIsLost
  <1>2. CASE UNCHANGED handler
    <2>1. job'[k].at \in {"ack", "failed"} => RecordSent(k) \/ ReportFailure(k)
      BY <1>1 DEF JobMoves
    <2>2. CASE job'[k].at \notin {"ack", "failed"}
      <3>1. \A i \in JobIds : ReportedOnce(i)'
        BY <1>2, <2>2 DEF JobMoves, SettleInv, ReportedOnce
      <3>2. UNCHANGED <<campaign, recipient, call>> /\ job[k].at # "absent"
        BY DEF JobMoves
      <3>3. ASSUME Exists, NEW r \in Recipients PROVE RowFollows(r)'
        <4>1. RowFollows(r)
          BY <3>3 DEF SettleInv
        <4>2. job'[SendJob(r)].at # "absent" => job[SendJob(r)].at # "absent"
          BY SendJobIsJob DEF JobMoves
        <4>3. QED
          BY <1>2, <3>2, <4>1, <4>2 DEF RowFollows, Send
      <3>4. Exists => CountersTally'
        BY <1>2, <3>2, SameTally DEF HandlersKeep, SettleInv, CountersTally
      <3>5. QED
        BY <3>1, <3>2, <3>3, <3>4 DEF SettleInv, ChosenPresent, Present, Exists
    <2>3. QED
      BY <2>1, <2>2, ReportKeepsSettled
  <1>3. QED
    BY <1>2, ReportKeepsSettled DEF JobMoves

(* The handler of k belongs to the send of its recipient.                    *)
LEMMA HandlersAreSends ==
    ASSUME SendsOnly, SettleInv, NEW k \in JobIds, handler[k].at # "idle"
    PROVE  /\ k[2] \in Recipients /\ k = SendJob(k[2])
           /\ handler[k].event # "none" /\ job[k].at # "absent"
  BY JobsAreSends DEF SettleInv, ReportedOnce

(* 1. The row of the recipient becomes what the event says.                  *)
LEMMA UpdateKeepsSettled ==
    ASSUME TypeOK, SendsOnly, SettleInv, NEW k \in JobIds, UpdateRecipient(k)
    PROVE  SettleInv'
  <1> DEFINE q == k[2]
  <1>1. q \in Recipients /\ k = SendJob(q) /\ handler[k].event # "none"
        /\ job[k].at # "absent"
    BY HandlersAreSends DEF UpdateRecipient
  <1>2. /\ handler[k].at = "recipient"
        /\ handler'[k].at = "count" /\ handler'[k].event = handler[k].event
        /\ \A i \in JobIds \ {k} : handler'[i] = handler[i]
        /\ UNCHANGED <<campaign, call, job>>
    BY DEF UpdateRecipient, EventGoes, TypeOK, Handler
  <1>3. ASSUME Exists
        PROVE  /\ recipient'[q] = StatusFor(handler[k].event)
               /\ \A r \in Recipients \ {q} : recipient'[r] = recipient[r]
    <2>1. recipient[q] # "absent"
      BY <1>1, <1>3 DEF SettleInv, RowFollows
    <2>2. QED
      BY <1>1, <2>1 DEF UpdateRecipient, WriteRecipient, TypeOK
  <1>4. \A i \in JobIds : ReportedOnce(i)'
    BY <1>1, <1>2 DEF SettleInv, ReportedOnce
  <1>5. ASSUME Exists, NEW r \in Recipients PROVE RowFollows(r)'
    <2>1. RowFollows(r) /\ SendJob(r) \in JobIds
      BY <1>5, SendJobIsJob DEF SettleInv
    <2>2. CASE r = q
      BY <1>1, <1>2, <1>3, <1>5, <2>2 DEF RowFollows, Send, StatusFor
    <2>3. CASE r # q
      <3>1. SendJob(r) # k
        BY <1>1, <2>3 DEF SendJob
      <3>2. QED
        BY <1>2, <1>3, <1>5, <2>1, <2>3, <3>1 DEF RowFollows, Send
    <2>4. QED
      BY <2>2, <2>3
  <1>6. Exists => ChosenPresent'
    BY <1>2, <1>3 DEF SettleInv, ChosenPresent, Present, StatusFor
  <1>7. ASSUME NEW event PROVE Tally(event)' = Tally(event)
    <2>1. ASSUME NEW r \in Recipients
          PROVE  r \in Tally(event)' <=> r \in Tally(event)
      BY <1>2, SendJobIsJob DEF Tally, Send
    <2>2. QED
      BY <2>1 DEF Tally
  <1>8. QED
    BY <1>2, <1>4, <1>5, <1>6, <1>7 DEF SettleInv, CountersTally, Exists

(* 2. The increment takes the recipient into the tally of its event.         *)
LEMMA CountTallies ==
    ASSUME TypeOK, SendsOnly, SettleInv, NEW k \in JobIds, CountEvent(k)
    PROVE  /\ handler[k].event \in {"sent", "failed"}
           /\ k[2] \in Recipients /\ k[2] \notin Tally(handler[k].event)
           /\ \A f \in {"sent", "failed"} :
                Tally(f)' = Tally(f) \cup (IF f = handler[k].event THEN {k[2]} ELSE {})
  <1> DEFINE q == k[2]
             e == handler[k].event
  <1>1. /\ handler[k].at = "count"
        /\ handler'[k].at \in {"unschedule", "check"} /\ handler'[k].event = e
        /\ \A i \in JobIds \ {k} : handler'[i] = handler[i]
    BY DEF CountEvent, EventGoes, TypeOK, Handler
  <1>2. q \in Recipients /\ k = SendJob(q) /\ e # "none"
    BY <1>1, HandlersAreSends
  <1>3. e \in {"sent", "failed"}
    BY <1>2 DEF TypeOK, Handler
  <1>4. q \notin Tally(e)
    BY <1>1, <1>2 DEF Tally, Send
  <1>5. ASSUME NEW r \in Recipients, NEW f \in {"sent", "failed"}
        PROVE  r \in Tally(f)' <=> r \in Tally(f) \/ (r = q /\ f = e)
    <2>1. CASE r = q
      BY <1>1, <1>2, <2>1 DEF Tally, Send
    <2>2. CASE r # q
      <3>1. SendJob(r) # k /\ SendJob(r) \in JobIds
        BY <1>2, <2>2, SendJobIsJob DEF SendJob
      <3>2. QED
        BY <1>1, <2>2, <3>1 DEF Tally, Send
    <2>3. QED
      BY <2>1, <2>2
  <1>6. ASSUME NEW f \in {"sent", "failed"}
        PROVE  Tally(f)' = Tally(f) \cup (IF f = e THEN {q} ELSE {})
    <2>1. Tally(f) \subseteq Recipients /\ Tally(f)' \subseteq Recipients
      BY DEF Tally
    <2>2. \A r : r \in Tally(f)' <=> r \in Tally(f) \/ (r = q /\ f = e)
      BY <1>2, <1>5, <2>1
    <2>3. QED
      BY <2>2
  <1>7. QED
    BY <1>2, <1>3, <1>4, <1>6

LEMMA CountKeepsSettled ==
    ASSUME TypeOK, SendsOnly, SettleInv, NEW k \in JobIds, CountEvent(k)
    PROVE  SettleInv'
  <1>0. PICK e \in {"sent", "failed"} : e = handler[k].event
    BY CountTallies
  <1>1. /\ handler[k].at = "count"
        /\ handler'[k].at \in {"unschedule", "check"} /\ handler'[k].event = e
        /\ \A i \in JobIds \ {k} : handler'[i] = handler[i]
        /\ UNCHANGED <<recipient, call, job>>
    BY <1>0 DEF CountEvent, EventGoes, TypeOK, Handler
  <1>2. \A i \in JobIds : ReportedOnce(i)'
    BY <1>0, <1>1 DEF SettleInv, ReportedOnce
  <1>3. ASSUME Exists, NEW r \in Recipients PROVE RowFollows(r)'
    <2>1. RowFollows(r) /\ SendJob(r) \in JobIds
      BY <1>3, SendJobIsJob DEF SettleInv
    <2>2. CASE SendJob(r) = k
      <3>1. recipient[r] = StatusFor(e)
        BY <1>0, <1>1, <2>1, <2>2 DEF RowFollows, Send
      <3>2. QED
        BY <1>0, <1>1, <2>1, <2>2, <3>1 DEF RowFollows, Send
    <2>3. CASE SendJob(r) # k
      BY <1>1, <2>1, <2>3 DEF RowFollows, Send
    <2>4. QED
      BY <2>2, <2>3
  <1>4. Exists' => Exists
    BY DEF CountEvent, Exists
  <1>5. ASSUME Exists PROVE CountersTally'
    <2>1. ASSUME NEW f PROVE /\ IsFiniteSet(Tally(f))
                             /\ Cardinality(Tally(f)) \in Nat
      <3>1. Tally(f) \in SUBSET Recipients
        BY DEF Tally
      <3>2. QED
        BY <3>1, RecipientsAssumption, FS_Subset, FS_CardinalityType
    <2>2. Cardinality(Tally(e)') = Cardinality(Tally(e)) + 1
      <3>1. IsFiniteSet(Tally(e)) /\ k[2] \notin Tally(e)
        BY <1>0, <2>1, CountTallies
      <3>2. Tally(e)' = Tally(e) \cup {k[2]}
        BY <1>0, CountTallies
      <3>3. QED
        BY <3>1, <3>2, FS_AddElement
    <2>3. /\ campaign' = Incremented(campaign, e)
          /\ campaign \in CampaignRow
          /\ CountersTally
      BY <1>0, <1>5 DEF CountEvent, TypeOK, SettleInv
    <2>4. CASE e = "sent"
      <3>1. campaign'.sentCount = campaign.sentCount + 1
            /\ campaign'.failedCount = campaign.failedCount
        BY <2>3, <2>4 DEF Incremented, CampaignRow
      <3>2. Tally("failed")' = Tally("failed")
        BY <1>0, <2>4, CountTallies
      <3>3. QED
        BY <2>2, <2>3, <2>4, <3>1, <3>2 DEF CountersTally
    <2>5. CASE e = "failed"
      <3>1. campaign'.failedCount = campaign.failedCount + 1
            /\ campaign'.sentCount = campaign.sentCount
        BY <2>3, <2>5 DEF Incremented, CampaignRow
      <3>2. Tally("sent")' = Tally("sent")
        BY <1>0, <2>5, CountTallies
      <3>3. QED
        BY <2>2, <2>3, <2>5, <3>1, <3>2 DEF CountersTally
    <2>6. QED
      BY <2>4, <2>5
  <1>6. QED
    BY <1>1, <1>2, <1>3, <1>4, <1>5 DEF SettleInv, ChosenPresent, Present

LEMMA EventKeepsSettled ==
    ASSUME NothingIsLost, TypeOK, SendsOnly, SettleInv, NEW k \in JobIds,
           EventStep(k) \/ EventFails(k) \/ PauseFails(k)
    PROVE  SettleInv'
  <1>1. ~EventFails(k) /\ ~PauseFails(k) /\ ~PauseCampaign(k)
    BY DEF EventFails, PauseFails, PauseCampaign, NothingIsLost, SendsOnly
  <1>2. CASE Unschedule(k) \/ CheckDone(k) \/ MarkDone(k) \/ Notify(k)
    <2>1. handler \in [JobIds -> Handler] /\ campaign \in CampaignRow
      BY DEF TypeOK
    <2>2. /\ \A i \in JobIds \ {k} : handler'[i] = handler[i]
          /\ handler[k].at \notin {"idle", "recipient", "count"}
          /\ handler'[k].at \notin {"recipient", "count"}
          /\ handler'[k].event = handler[k].event
      <3>1. CASE CheckDone(k)
        BY <2>1, <3>1 DEF CheckDone, EventEnds, EventGoes, Handler
      <3>2. CASE Unschedule(k) \/ MarkDone(k) \/ Notify(k)
        BY <2>1, <3>2 DEF Unschedule, MarkDone, Notify, EventEnds, EventGoes, Handler
      <3>3. QED
        BY <1>2, <3>1, <3>2
    <2>3. HandlersKeep
      BY <2>2 DEF HandlersKeep
    <2>4. UNCHANGED <<job, recipient, call>>
      BY <1>2 DEF Unschedule, CheckDone, MarkDone, Notify
    <2>5. /\ Exists' => Exists
          /\ campaign'.sentCount = campaign.sentCount
          /\ campaign'.failedCount = campaign.failedCount
      BY <1>2, <2>1 DEF Unschedule, CheckDone, MarkDone, Notify, WriteStatus, Exists,
         CampaignRow
    <2>6. QED
      BY <2>3, <2>4, <2>5, Undisturbed DEF SettleInv, ChosenPresent, Present
  <1>3. QED
    BY <1>1, <1>2, UpdateKeepsSettled, CountKeepsSettled DEF EventStep

LEMMA SettleInvariant ==
    ASSUME NothingIsLost PROVE Spec => []SettleInv
  <1>1. Init => SettleInv
    <2> SUFFICES ASSUME Init PROVE SettleInv
      OBVIOUS
    <2>1. \A k \in JobIds : job[k].at = "absent" /\ handler[k] = NoHandler
      BY DEF Init, NoJob
    <2>2. \A event \in {"sent", "failed"} : Tally(event) = {}
      BY <2>1, SendJobIsJob DEF Tally, Send, NoHandler
    <2>3. campaign.sentCount = 0 /\ campaign.failedCount = 0
      BY DEF Init
    <2>4. CountersTally
      BY <2>2, <2>3, FS_EmptySet DEF CountersTally
    <2>5. \A r \in Recipients : RowFollows(r)
      BY <2>1, SendJobIsJob DEF RowFollows, Send, NoHandler, Init
    <2>6. ChosenPresent
      BY DEF Init, ChosenPresent, NoCall
    <2>7. QED
      BY <2>1, <2>4, <2>5, <2>6 DEF SettleInv, ReportedOnce, NoHandler
  <1>2. TypeOK /\ SendsOnly /\ SettleInv /\ [Next]_vars => SettleInv'
    <2> SUFFICES ASSUME TypeOK, SendsOnly, SettleInv, [Next]_vars PROVE SettleInv'
      OBVIOUS
    <2>1. ASSUME UNCHANGED <<job, handler, recipient, call>>, Exists' => Exists,
                 campaign'.sentCount = campaign.sentCount,
                 campaign'.failedCount = campaign.failedCount
          PROVE  SettleInv'
      BY <2>1, Undisturbed DEF HandlersKeep, SettleInv, ChosenPresent, Present
    <2>2. CASE UserStep
      BY <2>2, UserKeepsSettled
    <2>3. CASE WorkStep
      <3>1. ASSUME NEW r \in Recipients, CountRecipient(r) PROVE SettleInv'
        BY <2>1, <3>1 DEF CountRecipient, Counted, Exists, TypeOK, CampaignRow
      <3>2. QED
        BY <2>3, <3>1, CallKeepsSettled, JobStepMoves, JobKeepsSettled, EventKeepsSettled
           DEF WorkStep
    <2>4. CASE FaultStep
      <3>1. ASSUME NEW r \in Recipients, AddAborts(r) PROVE SettleInv'
        BY <2>1, <3>1 DEF AddAborts, Exists
      <3>2. \A p \in Processes : ~Crash(p)
        BY DEF Crash, NothingIsLost
      <3>3. ~TokenExpires
        BY DEF TokenExpires, NothingIsLost, NothingResumes
      <3>4. QED
        BY <2>4, <3>1, <3>2, <3>3, CallKeepsSettled, JobStepMoves, JobKeepsSettled,
           EventKeepsSettled DEF FaultStep
    <2>5. CASE UNCHANGED vars
      BY <2>1, <2>5 DEF vars, Exists
    <2>6. QED
      BY <2>2, <2>3, <2>4, <2>5 DEF Next
  <1>3. Spec => []SendsOnly
    BY SendsOnlyInvariant DEF NothingIsLost
  <1>4. QED
    BY <1>1, <1>2, <1>3, TypeCorrect, PTL DEF Spec

(* Whatever the order of calls, workers, retries and listeners, and whatever *)
(* rows users add: when everything is at rest, sent_count and failed_count   *)
(* are the numbers of recipients marked sent and failed.                     *)
THEOREM CountersMatch ==
    ASSUME NothingIsLost
    PROVE  Spec => []CountersMatchRecipients
  <1>1. TypeOK /\ SettleInv => CountersMatchRecipients
    <2> SUFFICES ASSUME TypeOK, SettleInv, Quiet, Exists
                 PROVE  /\ Tally("sent") = {r \in Recipients : recipient[r] = "sent"}
                        /\ Tally("failed") = {r \in Recipients : recipient[r] = "failed"}
      BY DEF SettleInv, CountersTally, CountersMatchRecipients
    <2>1. ASSUME NEW r \in Recipients
          PROVE  /\ RowFollows(r) /\ Send(r).at = "idle"
                 /\ Send(r).event \in {"none", "sent", "failed"}
      BY SendJobIsJob DEF SettleInv, Quiet, Send, TypeOK, Handler
    <2>2. ASSUME NEW r \in Recipients, NEW event \in {"sent", "failed"}
          PROVE  r \in Tally(event) <=> recipient[r] = event
      <3>1. CASE Send(r).event = "none"
        BY <2>1, <3>1 DEF Tally, RowFollows
      <3>2. CASE Send(r).event # "none"
        BY <2>1, <3>2 DEF Tally, RowFollows, StatusFor
      <3>3. QED
        BY <3>1, <3>2
    <2>3. QED
      BY <2>2 DEF Tally
  <1>2. QED
    BY <1>1, SettleInvariant, TypeCorrect, PTL

-----------------------------------------------------------------------------
(* FinishedMeansSettled.  With every recipient there from the start, a       *)
(* listener that sees its counters reach total has seen every recipient in   *)
(* a tally, and tallies only grow: the verdict it writes later is still true *)
(* then, whichever listeners wrote and whichever calls ran in between.       *)

Accounted(verdict) ==
    /\ Tally("sent") \cup Tally("failed") = Recipients
    /\ verdict = "failed" => Tally("failed") = Recipients

VerdictInv ==
    /\ Exists => campaign.total = Cardinality(Recipients)
    /\ \A k \in JobIds : Exists /\ handler[k].at = "mark" => Accounted(handler[k].verdict)
    /\ campaign.status \in {"sent", "failed"} => Accounted(campaign.status)

LEMMA HandlerSteps ==
    ASSUME Next
    PROVE  \/ UNCHANGED handler
           \/ \E k \in JobIds : RecordSent(k) \/ ReportFailure(k)
           \/ \E k \in JobIds : EventStep(k) \/ EventFails(k)
           \/ \E p \in Processes : Crash(p)
  <1>1. ASSUME NEW k \in JobIds,
               \/ JobStep(k) \/ AttemptFails(k) \/ ReportAborts(k) \/ PauseFails(k)
               \/ \E p \in Processes : StartJob(k, p)
        PROVE  UNCHANGED handler \/ RecordSent(k) \/ ReportFailure(k)
    BY <1>1 DEF JobStep, AttemptFails, ReportAborts, PauseFails, StartJob, ReadGuard,
       MarkSending, GetToken, TokenRefused, PendLogs, SendMail, Complete
  <1>2. ASSUME UserStep \/ TokenExpires PROVE UNCHANGED handler
    BY <1>2 DEF UserStep, SendRead, ResumeRead, AddRecipient, Unsubscribe, PatchStatus,
       Remove, Reconnect, TokenExpires
  <1>3. ASSUME NEW c \in Calls, CallStep(c) \/ CallAborts(c) PROVE UNCHANGED handler
    BY <1>3 DEF CallStep, FilterUnsubscribed, FinishResume, CheckDailyLimit, SaveLogs,
       EnqueueBatch, UpdateStatus, CallAborts
  <1>4. ASSUME NEW r \in Recipients, CountRecipient(r) \/ AddAborts(r)
        PROVE  UNCHANGED handler
    BY <1>4 DEF CountRecipient, AddAborts
  <1>5. QED
    BY <1>1, <1>2, <1>3, <1>4 DEF Next, WorkStep, FaultStep

(* The verdict of a handler is set where it goes to "mark".                  *)
LEMMA EventEffect ==
    ASSUME TypeOK, NEW k \in JobIds, EventStep(k)
    PROVE  /\ \A i \in JobIds \ {k} : handler'[i] = handler[i]
           /\ handler'[k].event = handler[k].event
           /\ handler'[k].at \in {"recipient", "count"} =>
                handler[k].at = "recipient" \/ handler'[k] = handler[k]
           /\ \/ handler'[k].at # "mark"
              \/ handler'[k] = handler[k]
              \/ CheckDone(k) /\ AllDone(campaign) /\ Exists
                 /\ handler'[k].verdict = Verdict(campaign)
  <1>1. handler \in [JobIds -> Handler] /\ handler[k] \in Handler
    BY DEF TypeOK
  <1>2. CASE CheckDone(k)
    BY <1>1, <1>2 DEF CheckDone, EventEnds, EventGoes, Handler
  <1>3. CASE UpdateRecipient(k) \/ CountEvent(k) \/ Unschedule(k)
    BY <1>1, <1>3 DEF UpdateRecipient, CountEvent, Unschedule, EventGoes, Handler
  <1>4. CASE MarkDone(k) \/ Notify(k)
    BY <1>1, <1>4 DEF MarkDone, Notify, EventEnds, EventGoes, Handler
  <1>5. CASE PauseCampaign(k)
    BY <1>5 DEF PauseCampaign
  <1>6. QED
    BY <1>2, <1>3, <1>4, <1>5 DEF EventStep

LEMMA TalliesGrow ==
    ASSUME NothingIsLost, TypeOK, SendsOnly, SettleInv, Next,
           NEW event \in {"sent", "failed"}
    PROVE  Tally(event) \subseteq Tally(event)'
  <1> SUFFICES ASSUME NEW r \in Recipients, r \in Tally(event) PROVE r \in Tally(event)'
    BY DEF Tally
  <1>1. /\ SendJob(r) \in JobIds
        /\ Send(r).event = event /\ Send(r).at \notin {"recipient", "count"}
    BY SendJobIsJob DEF Tally
  <1>2. CASE UNCHANGED handler
    BY <1>1, <1>2 DEF Tally, Send
  <1>3. ASSUME NEW k \in JobIds, RecordSent(k) \/ ReportFailure(k)
        PROVE  r \in Tally(event)'
    <2>1. job[k].at \in {"record", "report"}
      BY <1>3 DEF RecordSent, ReportFailure
    <2>2. k # SendJob(r)
      BY <1>1, <2>1 DEF SettleInv, ReportedOnce, Send
    <2>3. handler'[SendJob(r)] = handler[SendJob(r)]
      BY <1>1, <1>3, <2>2 DEF RecordSent, ReportFailure, TypeOK
    <2>4. QED
      BY <1>1, <2>3 DEF Tally, Send
  <1>4. ASSUME NEW k \in JobIds, EventStep(k) PROVE r \in Tally(event)'
    BY <1>1, <1>4, EventEffect DEF Tally, Send
  <1>5. /\ ~(\E k \in JobIds : EventFails(k))
        /\ ~(\E p \in Processes : Crash(p))
    BY DEF EventFails, Crash, NothingIsLost
  <1>6. \/ UNCHANGED handler
        \/ \E k \in JobIds : RecordSent(k) \/ ReportFailure(k)
        \/ \E k \in JobIds : EventStep(k)
    BY <1>5, HandlerSteps
  <1>7. QED
    BY <1>2, <1>3, <1>4, <1>6

LEMMA AccountedStays ==
    ASSUME NothingIsLost, TypeOK, SendsOnly, SettleInv, [Next]_vars,
           NEW verdict, Accounted(verdict)
    PROVE  Accounted(verdict)'
  <1>1. \A event \in {"sent", "failed"} :
          Tally(event) \subseteq Tally(event)' /\ Tally(event)' \subseteq Recipients
    <2>1. CASE Next
      BY <2>1, TalliesGrow DEF Tally
    <2>2. CASE UNCHANGED vars
      BY <2>2 DEF vars, Tally, Send
    <2>3. QED
      BY <2>1, <2>2
  <1>2. QED
    BY <1>1 DEF Accounted

(* What a listener concludes from the row it reads is true of the tallies.   *)
LEMMA DoneIsAccounted ==
    ASSUME TypeOK, SettleInv, VerdictInv, Exists, AllDone(campaign)
    PROVE  Accounted(Verdict(campaign))
  <1>1. ASSUME NEW S \in SUBSET Recipients
        PROVE  IsFiniteSet(S) /\ Cardinality(S) \in Nat
               /\ Cardinality(S) <= Cardinality(Recipients)
               /\ (Cardinality(S) = Cardinality(Recipients) => S = Recipients)
    BY RecipientsAssumption, FS_Subset, FS_CardinalityType
  <1>2. /\ Tally("sent") \in SUBSET Recipients /\ Tally("failed") \in SUBSET Recipients
        /\ Tally("sent") \cup Tally("failed") \in SUBSET Recipients
        /\ Tally("sent") \cap Tally("failed") = {}
    BY DEF Tally
  <1>3. Cardinality(Recipients) \in Nat
    BY RecipientsAssumption, FS_CardinalityType
  <1>4. /\ campaign.sentCount = Cardinality(Tally("sent"))
        /\ campaign.failedCount = Cardinality(Tally("failed"))
        /\ campaign.total = Cardinality(Recipients)
    BY DEF SettleInv, CountersTally, VerdictInv
  <1>5. Cardinality(Tally("sent") \cup Tally("failed"))
          = Cardinality(Tally("sent")) + Cardinality(Tally("failed"))
    <2>1. Cardinality(Tally("sent") \cap Tally("failed")) = 0
      BY <1>2, FS_EmptySet
    <2>2. /\ IsFiniteSet(Tally("sent")) /\ IsFiniteSet(Tally("failed"))
          /\ Cardinality(Tally("sent")) \in Nat /\ Cardinality(Tally("failed")) \in Nat
      BY <1>1, <1>2
    <2>3. Cardinality(Tally("sent") \cup Tally("failed"))
            = Cardinality(Tally("sent")) + Cardinality(Tally("failed"))
              - Cardinality(Tally("sent") \cap Tally("failed"))
      BY <2>2, FS_Union
    <2>4. QED
      BY <2>1, <2>2, <2>3
  <1>6. Tally("sent") \cup Tally("failed") = Recipients
    <2>1. Cardinality(Tally("sent") \cup Tally("failed")) >= Cardinality(Recipients)
      BY <1>4, <1>5 DEF AllDone
    <2>2. Cardinality(Tally("sent") \cup Tally("failed")) = Cardinality(Recipients)
      BY <1>1, <1>2, <1>3, <2>1
    <2>3. QED
      BY <1>1, <1>2, <2>2
  <1>7. Verdict(campaign) = "failed" => Tally("failed") = Recipients
    BY <1>1, <1>2, <1>4 DEF Verdict
  <1>8. QED
    BY <1>6, <1>7 DEF Accounted

(* Who writes "sent" or "failed", and who leaves total alone.                *)
LEMMA StatusSteps ==
    ASSUME TypeOK, SendsOnly, NoticeInv, Next, PatchStatuses \cap {"sent", "failed"} = {}
    PROVE  /\ Exists' => Exists
           /\ campaign'.total = campaign.total
           /\ campaign'.status \in {"sent", "failed"} =>
                \/ campaign'.status = campaign.status
                \/ \E k \in JobIds : Exists /\ handler[k].at = "mark"
                                      /\ campaign'.status = handler[k].verdict
  <1> USE DEF TypeOK, CampaignRow
  <1>1. CASE UNCHANGED campaign
    BY <1>1 DEF Exists
  <1>2. ASSUME NEW s \in PatchStatuses, PatchStatus(s)
        PROVE  Exists /\ campaign'.total = campaign.total
               /\ campaign'.status \notin {"sent", "failed"}
    BY <1>2 DEF PatchStatus
  <1>3. CASE Remove
    BY <1>3 DEF Remove, Exists
  <1>4. ASSUME NEW c \in Calls
        PROVE  ~FinishResume(c)
    BY DEF SendsOnly, FinishResume
  <1>5. ASSUME NEW c \in Calls, UpdateStatus(c), campaign' # campaign
        PROVE  Exists /\ campaign'.total = campaign.total
               /\ campaign'.status \notin {"sent", "failed"}
    <2>1. ASSUME campaign' = [campaign EXCEPT
                   !.status = "scheduled",
                   !.schedulingCount = Cardinality(call[c].chosen)]
          PROVE  campaign'.total = campaign.total /\ campaign'.status = "scheduled"
      BY <2>1
    <2>2. QED
      BY <1>5, <2>1 DEF UpdateStatus, WriteStatus
  <1>6. ASSUME NEW r \in Recipients PROVE ~CountRecipient(r)
    BY DEF NoticeInv, CountRecipient
  <1>7. ASSUME NEW k \in JobIds, CountEvent(k) \/ Unschedule(k)
        PROVE  campaign'.status = campaign.status /\ campaign'.total = campaign.total
    BY <1>7 DEF CountEvent, Unschedule, Incremented
  <1>8. ASSUME NEW k \in JobIds, MarkDone(k), campaign' # campaign
        PROVE  Exists /\ campaign'.total = campaign.total /\ handler[k].at = "mark"
               /\ campaign'.status = handler[k].verdict
    BY <1>8 DEF MarkDone, WriteStatus
  <1>9. ASSUME NEW k \in JobIds PROVE ~PauseCampaign(k)
    BY DEF SendsOnly, PauseCampaign
  <1>10. \/ UNCHANGED campaign \/ Remove
         \/ \E s \in PatchStatuses : PatchStatus(s)
         \/ \E c \in Calls : UpdateStatus(c)
         \/ \E k \in JobIds : CountEvent(k) \/ Unschedule(k) \/ MarkDone(k)
    <2>1. CASE UserStep
      BY <2>1 DEF UserStep, SendRead, ResumeRead, AddRecipient, Unsubscribe, Reconnect
    <2>2. ASSUME NEW c \in Calls, CallStep(c) \/ CallAborts(c), ~UpdateStatus(c)
          PROVE  UNCHANGED campaign
      BY <1>4, <2>2 DEF CallStep, FilterUnsubscribed, CheckDailyLimit, SaveLogs,
         EnqueueBatch, CallAborts
    <2>3. ASSUME NEW r \in Recipients, CountRecipient(r) \/ AddAborts(r)
          PROVE  UNCHANGED campaign
      BY <1>6, <2>3 DEF AddAborts
    <2>4. ASSUME NEW k \in JobIds, EventStep(k) \/ EventFails(k) \/ PauseFails(k)
          PROVE  UNCHANGED campaign \/ CountEvent(k) \/ Unschedule(k) \/ MarkDone(k)
      BY <1>9, <2>4 DEF EventStep, EventFails, PauseFails, UpdateRecipient, CheckDone,
         Notify
    <2>5. ASSUME NEW k \in JobIds, JobMoves(k) PROVE UNCHANGED campaign
      BY <2>5 DEF JobMoves
    <2>6. ASSUME TokenExpires \/ \E p \in Processes : Crash(p) PROVE UNCHANGED campaign
      BY <2>6 DEF TokenExpires, Crash
    <2>7. QED
      BY <2>1, <2>2, <2>3, <2>4, <2>5, <2>6, JobStepMoves DEF Next, WorkStep, FaultStep
  <1>11. QED
    BY <1>1, <1>2, <1>3, <1>5, <1>7, <1>8, <1>10 DEF Exists

LEMMA VerdictStep ==
    ASSUME NothingIsLost, PatchStatuses \cap {"sent", "failed"} = {},
           TypeOK, SendsOnly, SettleInv, NoticeInv, VerdictInv, Next
    PROVE  VerdictInv'
  <1>1. Exists' => campaign'.total = Cardinality(Recipients)
    BY StatusSteps DEF VerdictInv
  <1>2. ASSUME Exists', NEW k \in JobIds, handler'[k].at = "mark",
               NEW v, v = handler'[k].verdict
        PROVE  Accounted(v)
    <2>1. Exists
      BY <1>2, StatusSteps
    <2>2. CASE handler'[k] = handler[k]
      BY <1>2, <2>1, <2>2 DEF VerdictInv
    <2>3. CASE handler'[k] # handler[k]
      <3>1. ~(\E i \in JobIds : RecordSent(i) \/ ReportFailure(i))
        BY <1>2, <2>3 DEF RecordSent, ReportFailure, TypeOK
      <3>2. /\ ~(\E i \in JobIds : EventFails(i))
            /\ ~(\E p \in Processes : Crash(p))
        BY DEF EventFails, Crash, NothingIsLost
      <3>3. PICK i \in JobIds : EventStep(i)
        BY <2>3, <3>1, <3>2, HandlerSteps
      <3>4. i = k
        BY <2>3, <3>3, EventEffect
      <3>5. AllDone(campaign) /\ v = Verdict(campaign)
        BY <1>2, <2>3, <3>3, <3>4, EventEffect
      <3>6. QED
        BY <2>1, <3>5, DoneIsAccounted
    <2>4. QED
      BY <2>2, <2>3
  <1>3. ASSUME NEW v \in {"sent", "failed"}, v = campaign'.status PROVE Accounted(v)
    BY <1>3, StatusSteps DEF VerdictInv
  <1>4. \A v : Accounted(v) => Accounted(v)'
    BY AccountedStays
  <1>5. ASSUME Exists', NEW k \in JobIds, handler'[k].at = "mark"
        PROVE  Accounted(handler[k].verdict)'
    <2>1. PICK v : v = handler'[k].verdict
      OBVIOUS
    <2>2. Accounted(v)'
      BY <1>2, <1>4, <1>5, <2>1
    <2>3. QED
      BY <2>1, <2>2 DEF Accounted
  <1>6. campaign'.status \in {"sent", "failed"} => Accounted(campaign.status)'
    <2>1. PICK v : v = campaign'.status
      OBVIOUS
    <2>2. v \in {"sent", "failed"} => Accounted(v)'
      BY <1>3, <1>4, <2>1
    <2>3. QED
      BY <2>1, <2>2 DEF Accounted
  <1>7. QED
    BY <1>1, <1>5, <1>6 DEF VerdictInv

(* The campaign says "sent" or "failed" only when each recipient has been    *)
(* sent its email or has failed, and "failed" only when all have failed, for *)
(* any number of recipients, calls, processes and retries.                   *)
THEOREM FinishedIsSettled ==
    ASSUME NothingIsLost, InitialRecipients = Recipients,
           PatchStatuses \cap {"sent", "failed"} = {}
    PROVE  Spec => []FinishedMeansSettled
  <1>1. Init => VerdictInv
    BY DEF Init, VerdictInv, NoHandler
  <1>2. /\ TypeOK /\ SendsOnly /\ SettleInv /\ NoticeInv /\ VerdictInv
        /\ [Next]_vars
        => VerdictInv'
    <2> SUFFICES ASSUME TypeOK, SendsOnly, SettleInv, NoticeInv, VerdictInv, [Next]_vars
                 PROVE  VerdictInv'
      OBVIOUS
    <2>1. CASE UNCHANGED vars
      BY <2>1 DEF vars, VerdictInv, Accounted, Tally, Send, Exists
    <2>2. QED
      BY <2>1, VerdictStep
  <1>3. TypeOK /\ SettleInv /\ VerdictInv => FinishedMeansSettled
    <2> SUFFICES ASSUME TypeOK, SettleInv, VerdictInv,
                        campaign.status \in {"sent", "failed"}
                 PROVE  \A r \in Recipients :
                          /\ Settled(r)
                          /\ campaign.status = "failed" => recipient[r] = "failed"
      BY DEF FinishedMeansSettled, Present
    <2>1. Exists /\ Accounted(campaign.status)
      BY DEF VerdictInv, Exists
    <2>2. ASSUME NEW r \in Recipients, NEW event \in {"sent", "failed"}, r \in Tally(event)
          PROVE  recipient[r] = event
      BY <2>1, <2>2 DEF SettleInv, RowFollows, Tally, StatusFor
    <2>3. QED
      BY <2>1, <2>2 DEF Accounted, Settled
  <1>4. Spec => []SendsOnly
    BY SendsOnlyInvariant DEF NothingIsLost
  <1>5. Spec => []SettleInv
    BY SettleInvariant
  <1>6. Spec => []NoticeInv
    BY NoticeInvariant
  <1>7. QED
    BY <1>1, <1>2, <1>3, <1>4, <1>5, <1>6, TypeCorrect, PTL DEF Spec

-----------------------------------------------------------------------------
(* EarlyNoticeIsPaidFor.  A job adds one to the counters each time it       *)
(* reports, and reports once more after each stall at most.  Times(k) is    *)
(* how often job k may have been counted so far: once for each stall, and   *)
(* once more if its last report has been counted and settled its recipient. *)
(* It never decreases, and each count adds one to it.                       *)

Over == {"ack", "completed", "failed"}

Reported == {k \in JobIds : /\ job[k].at \in Over
                            /\ handler[k].at \notin {"recipient", "count"}
                            /\ Spent(k) /\ Settled(k[2])}

Times(k) == job[k].stalls + (IF k \in Reported THEN 1 ELSE 0)

Pairs(n) == UNION {{k} \X (1..n[k]) : k \in JobIds}
Slots    == Pairs([k \in JobIds |-> Times(k)])

ReportInv(k) ==
    /\ handler[k].at # "idle" => job[k].at \in Over /\ Spent(k)
    /\ Exists /\ handler[k].at \notin {"idle", "recipient"} => Settled(k[2])
    /\ job[k].at = "report" => job[k].attemptsMade >= Attempts
    /\ job[k].at = "absent" => job[k].stalls = 0

CountInv ==
    /\ \A k \in JobIds : ReportInv(k)
    /\ Exists => /\ campaign.total = Cardinality(Recipients)
                 /\ campaign.sentCount + campaign.failedCount <= Cardinality(Slots)
    /\ ~Exists => Present = {}

LEMMA JobsAreFinite == IsFiniteSet(JobIds)
  <1>1. IsFiniteSet(0..MaxCalls)
    BY BoundsAssumption, FS_Interval
  <1>2. QED
    BY <1>1, RecipientsAssumption, FS_Product DEF JobIds

LEMMA PairsAreFinite ==
    ASSUME NEW n \in [JobIds -> Nat]
    PROVE  IsFiniteSet(Pairs(n)) /\ Cardinality(Pairs(n)) \in Nat
  <1> DEFINE part(k) == {k} \X (1..n[k])
             each    == [k \in JobIds |-> part(k)]
  <1>1. ASSUME NEW k \in JobIds PROVE IsFiniteSet(part(k))
    <2>1. n[k] \in Int /\ 1 \in Int
      OBVIOUS
    <2>2. IsFiniteSet({k}) /\ IsFiniteSet(1..n[k])
      BY <2>1, FS_Singleton, FS_Interval
    <2>3. QED
      BY <2>2, FS_Product
  <1>2. each \in Surjection(JobIds, {part(k) : k \in JobIds})
    BY DEF Surjection
  <1>3. IsFiniteSet({part(k) : k \in JobIds})
    <2> HIDE DEF part, each
    <2>1. QED
      BY <1>2, JobsAreFinite, FS_Surjection
  <1>4. \A T \in {part(k) : k \in JobIds} : IsFiniteSet(T)
    BY <1>1
  <1>5. IsFiniteSet(UNION {part(k) : k \in JobIds})
    <2> HIDE DEF part, each
    <2>1. QED
      BY <1>3, <1>4, FS_UNION
  <1>6. QED
    BY <1>5, FS_CardinalityType DEF Pairs

LEMMA TimesAreNumbers ==
    ASSUME TypeOK
    PROVE  [k \in JobIds |-> Times(k)] \in [JobIds -> Nat]
  BY DEF TypeOK, Job, Times

(* What a failed attempt costs. *)
LEMMA AttemptCosts ==
    ASSUME TypeOK, NEW k \in JobIds, TokenRefused(k) \/ PendLogs(k) \/ AttemptFails(k)
    PROVE  /\ job'[k].attemptsMade >= job[k].attemptsMade
           /\ job'[k].at = "report" => job'[k].attemptsMade >= Attempts
           /\ UNCHANGED mailed
  <1>1. job \in [JobIds -> Job] /\ job[k] \in Job /\ Attempts \in Nat
    BY BoundsAssumption DEF TypeOK
  <1>2. /\ Retry(job[k]).attemptsMade = job[k].attemptsMade + 1
        /\ Retry(job[k]).at = "report" => job[k].attemptsMade + 1 >= Attempts
        /\ GiveUp(job[k]).attemptsMade = job[k].attemptsMade + 1
        /\ GiveUp(job[k]).at = "report" => job[k].attemptsMade + 1 >= Attempts
    BY <1>1 DEF Retry, GiveUp, IsLastAttempt, Job
  <1>3. \/ job'[k] = Retry(job[k]) \/ job'[k] = GiveUp(job[k])
        \/ job'[k].at = "pend" /\ job'[k].attemptsMade = job[k].attemptsMade
    <2>1. ASSUME JobGoes(k, "pend")
          PROVE  job'[k].at = "pend" /\ job'[k].attemptsMade = job[k].attemptsMade
      BY <2>1, JobGoesEffect
    <2>2. QED
      BY <1>1, <2>1 DEF TokenRefused, PendLogs, AttemptFails
  <1>4. UNCHANGED mailed
    BY DEF TokenRefused, PendLogs, AttemptFails
  <1>5. job[k].attemptsMade \in Nat
    BY <1>1 DEF Job
  <1>6. QED
    BY <1>1, <1>2, <1>3, <1>4, <1>5

LEMMA MailGrows ==
    ASSUME TypeOK, NEW k \in JobIds, NEW i \in JobIds,
           \/ JobStep(i) \/ AttemptFails(i) \/ ReportAborts(i)
           \/ \E p \in Processes : StartJob(i, p)
    PROVE  mailed'[k] >= mailed[k]
  <1>1. mailed \in [JobIds -> Nat]
    BY DEF TypeOK
  <1>2. CASE SendMail(i)
    BY <1>1, <1>2 DEF SendMail
  <1>3. CASE UNCHANGED mailed
    BY <1>1, <1>3
  <1>4. QED
    BY <1>2, <1>3
       DEF JobStep, AttemptFails, ReportAborts, StartJob, ReadGuard, MarkSending, GetToken,
           TokenRefused, PendLogs, RecordSent, Complete, ReportFailure

LEMMA CrashMoves ==
    ASSUME TypeOK, NEW p \in Processes, Crash(p), NEW k \in JobIds
    PROVE  /\ \/ job'[k] = job[k]
              \/ job[k].at \in ActiveAt /\ job'[k].stalls = job[k].stalls + 1
              \/ job[k].at = "report" /\ job'[k].at = "failed"
                 /\ job'[k].stalls = job[k].stalls
           /\ job'[k].attemptsMade = job[k].attemptsMade
           /\ job'[k].at = "report" \/ job'[k].at = "absent" => job'[k] = job[k]
           /\ \/ handler'[k].at = "idle"
              \/ handler'[k] = handler[k] /\ (handler[k].at = "idle" \/ job'[k] = job[k])
           /\ UNCHANGED mailed
  <1>1. job[k] \in Job
    BY DEF TypeOK
  <1>2. job'[k] = AfterCrash(job[k], p) /\ UNCHANGED mailed
    BY DEF Crash
  <1>3. handler'[k] = IF k \in LostHandlers(p) THEN NoHandler ELSE handler[k]
    BY DEF Crash
  <1>4. CASE job[k].proc # p
    BY <1>2, <1>3, <1>4 DEF AfterCrash, LostHandlers
  <1>5. CASE job[k].proc = p
    <2>1. handler'[k].at = "idle"
      BY <1>3, <1>5 DEF LostHandlers, NoHandler
    <2>2. CASE job[k].at \in ActiveAt
      <3>1. /\ Stalled(job[k]).stalls = job[k].stalls + 1
            /\ Stalled(job[k]).attemptsMade = job[k].attemptsMade
            /\ Stalled(job[k]).at \in {"failed", "waiting"}
        BY <1>1 DEF Stalled, Job
      <3>2. QED
        BY <1>2, <1>5, <2>1, <2>2, <3>1 DEF AfterCrash
    <2>3. CASE job[k].at \notin ActiveAt
      BY <1>1, <1>2, <1>5, <2>1, <2>3 DEF AfterCrash, Job
    <2>4. QED
      BY <2>2, <2>3
  <1>6. QED
    BY <1>4, <1>5

(* What a step does to a job as far as the counting is concerned.           *)
LEMMA JobFate ==
    ASSUME TypeOK, CountInv, [Next]_vars, NEW k \in JobIds
    PROVE  /\ job[k].at # "absent" /\ Spent(k) => Spent(k)'
           /\ \/ job'[k].stalls = job[k].stalls /\ (job[k].at \in Over => job'[k].at \in Over)
              \/ job'[k].stalls = job[k].stalls + 1
           /\ job'[k].at = "report" => job'[k].attemptsMade >= Attempts
           /\ job'[k].at = "absent" => job'[k].stalls = 0
  <1>0. /\ job \in [JobIds -> Job] /\ job[k] \in Job /\ mailed \in [JobIds -> Nat]
        /\ Attempts \in Nat /\ ReportInv(k)
    BY BoundsAssumption DEF TypeOK, CountInv
  <1>00. job[k].attemptsMade \in Nat /\ mailed[k] \in Nat /\ job[k].stalls \in Nat
    BY <1>0 DEF Job
  <1>1. CASE UNCHANGED <<job, mailed>>
    BY <1>0, <1>1 DEF Spent, ReportInv
  <1>2. ASSUME NEW c \in Calls, EnqueueBatch(c)
        PROVE  /\ UNCHANGED mailed
               /\ \/ job'[k] = job[k]
                  \/ job[k].at = "absent" /\ job'[k].at = "waiting" /\ job'[k].stalls = 0
    BY <1>0, <1>2 DEF EnqueueBatch, NewJob, NoJob
  <1>3. ASSUME NEW i \in JobIds,
               \/ JobStep(i) \/ AttemptFails(i) \/ ReportAborts(i)
               \/ \E p \in Processes : StartJob(i, p)
        PROVE  /\ job'[k].stalls = job[k].stalls /\ mailed'[k] >= mailed[k]
               /\ job'[k].attemptsMade >= job[k].attemptsMade
               /\ job[k].at \in Over => job'[k].at \in Over
               /\ job'[k].at = "report" => job'[k].attemptsMade >= Attempts
               /\ job'[k].at = "absent" => job[k].at = "absent"
    <2>1. JobMoves(i)
      BY <1>3, JobStepMoves
    <2>2. mailed'[k] >= mailed[k]
      BY <1>3, MailGrows
    <2>3. CASE i # k
      BY <1>0, <1>00, <2>1, <2>2, <2>3 DEF JobMoves, ReportInv
    <2>4. CASE i = k
      <3>1. /\ job'[k].stalls = job[k].stalls
            /\ job[k].at \in Over => job'[k].at \in Over
            /\ job'[k].at # "absent"
        BY <2>1, <2>4 DEF JobMoves, Over
      <3>2. job'[k].attemptsMade >= job[k].attemptsMade
        BY <1>00, <2>1, <2>4, AttemptCosts DEF JobMoves
      <3>3. job'[k].at = "report" => job'[k].attemptsMade >= Attempts
        BY <2>1, <2>4, AttemptCosts DEF JobMoves
      <3>4. QED
        BY <2>2, <3>1, <3>2, <3>3
    <2>5. QED
      BY <2>3, <2>4
  <1>4. ASSUME NEW p \in Processes, Crash(p)
        PROVE  /\ UNCHANGED mailed /\ job'[k].attemptsMade = job[k].attemptsMade
               /\ \/ job'[k] = job[k]
                  \/ job'[k].stalls = job[k].stalls + 1
                     /\ job'[k].at \notin {"report", "absent"}
                  \/ job[k].at = "report" /\ job'[k].at = "failed"
                     /\ job'[k].stalls = job[k].stalls
    BY <1>00, <1>4, CrashMoves
  <1>5. CASE \E c \in Calls : EnqueueBatch(c)
    BY <1>0, <1>2, <1>5 DEF Spent, ReportInv, Over
  <1>6. CASE \E i \in JobIds : \/ JobStep(i) \/ AttemptFails(i) \/ ReportAborts(i)
                               \/ \E p \in Processes : StartJob(i, p)
    <2>1. Spent(k) => Spent(k)'
      <3>1. mailed'[k] >= mailed[k] /\ job'[k].attemptsMade >= job[k].attemptsMade
        BY <1>3, <1>6
      <3>2. TypeOK'
        BY UserKeepsTypes, WorkKeepsTypes, FaultKeepsTypes DEF Next, TypeOK, vars
      <3>3. mailed'[k] \in Nat /\ job'[k].attemptsMade \in Nat
        BY <3>2 DEF TypeOK, Job
      <3>4. QED
        BY <1>0, <1>00, <3>1, <3>3 DEF Spent
    <2>2. QED
      BY <1>0, <1>3, <1>6, <2>1 DEF ReportInv
  <1>7. CASE \E p \in Processes : Crash(p)
    BY <1>0, <1>4, <1>7 DEF Spent, ReportInv, Over
  <1>8. CASE UNCHANGED vars
    BY <1>1, <1>8 DEF vars
  <1>9. QED
    BY <1>1, <1>5, <1>6, <1>7, <1>8, StepKinds

(* What a step does to a listener. *)
LEMMA ListenerFate ==
    ASSUME TypeOK, [Next]_vars, NEW k \in JobIds
    PROVE  \/ handler'[k] = handler[k]
           \/ handler'[k].at = "idle"
           \/ (RecordSent(k) \/ ReportFailure(k)) /\ handler'[k].at = "recipient"
           \/ EventStep(k) /\ UNCHANGED <<job, mailed>>
              /\ handler[k].at # "idle"
              /\ handler'[k].at # "recipient"
              /\ (handler'[k].at = "count" => UpdateRecipient(k))
              /\ (handler[k].at = "recipient" => UpdateRecipient(k))
  <1>1. handler \in [JobIds -> Handler]
    BY DEF TypeOK
  <1>2. ASSUME NEW i \in JobIds, RecordSent(i) \/ ReportFailure(i)
        PROVE  \/ handler'[k] = handler[k]
               \/ i = k /\ handler'[k].at = "recipient"
    BY <1>1, <1>2 DEF RecordSent, ReportFailure
  <1>3. ASSUME NEW i \in JobIds, EventFails(i)
        PROVE  handler'[k] = handler[k] \/ handler'[k].at = "idle"
    BY <1>1, <1>3 DEF EventFails, EventEnds, EventGoes, Handler
  <1>4. ASSUME NEW p \in Processes, Crash(p)
        PROVE  handler'[k] = handler[k] \/ handler'[k].at = "idle"
    BY <1>4, CrashMoves
  <1>5. ASSUME NEW i \in JobIds, EventStep(i), handler'[k] # handler[k]
        PROVE  /\ i = k /\ UNCHANGED <<job, mailed>>
               /\ handler[k].at # "idle" /\ handler'[k].at # "recipient"
               /\ handler'[k].at = "count" => UpdateRecipient(k)
               /\ handler[k].at = "recipient" => UpdateRecipient(k)
    <2>1. i = k
      BY <1>5, EventEffect
    <2>2. UNCHANGED <<job, mailed>>
      BY <1>5, <2>1 DEF EventStep, UpdateRecipient, CountEvent, Unschedule, CheckDone,
         MarkDone, Notify, PauseCampaign
    <2>3. CASE UpdateRecipient(k)
      BY <1>1, <2>1, <2>2, <2>3 DEF UpdateRecipient, EventGoes, Handler
    <2>4. CASE CountEvent(k) \/ Unschedule(k) \/ CheckDone(k)
      BY <1>1, <2>1, <2>2, <2>4
         DEF CountEvent, Unschedule, CheckDone, EventGoes, EventEnds, Handler
    <2>5. CASE MarkDone(k) \/ Notify(k)
      BY <1>1, <2>1, <2>2, <2>5 DEF MarkDone, Notify, EventGoes, EventEnds, Handler
    <2>6. CASE PauseCampaign(k)
      BY <1>5, <2>1, <2>6 DEF PauseCampaign
    <2>7. QED
      BY <1>5, <2>1, <2>3, <2>4, <2>5, <2>6 DEF EventStep
  <1>6. CASE UNCHANGED vars
    BY <1>6 DEF vars
  <1>7. QED
    BY <1>2, <1>3, <1>4, <1>5, <1>6, HandlerSteps

(* What a step does to the rows: while the campaign is there, a settled      *)
(* recipient stays settled, and the counters change in CountEvent only.      *)
LEMMA RowFate ==
    ASSUME TypeOK, NoticeInv, [Next]_vars
    PROVE  /\ Exists' => Exists
           /\ Exists' => \A r \in Recipients : Settled(r) => Settled(r)'
           /\ Exists' => campaign'.total = campaign.total
           /\ Exists' => \/ \E k \in JobIds : CountEvent(k)
                         \/ /\ campaign'.sentCount = campaign.sentCount
                            /\ campaign'.failedCount = campaign.failedCount
           /\ ~Exists /\ Present = {} => Present' = {}
           /\ Exists /\ ~Exists' => Present' = {}
  <1> USE DEF TypeOK, CampaignRow
  <1>1. CASE UNCHANGED <<campaign, recipient>>
    BY <1>1 DEF Exists, Settled, Present
  <1>2. CASE Remove
    BY <1>2 DEF Remove, Exists, Present
  <1>3. ASSUME NEW s, s # "deleted", WriteStatus(s), UNCHANGED recipient
        PROVE  /\ Exists' <=> Exists
               /\ campaign'.total = campaign.total
               /\ campaign'.sentCount = campaign.sentCount
               /\ campaign'.failedCount = campaign.failedCount
               /\ \A r \in Recipients : Settled(r) => Settled(r)'
               /\ Present' = Present
    BY <1>3 DEF WriteStatus, Exists, Settled, Present
  <1>4. ASSUME NEW s \in PatchStatuses, PatchStatus(s)
        PROVE  WriteStatus(s) /\ s # "deleted" /\ UNCHANGED recipient
    BY <1>4, ChoicesAssumption DEF PatchStatus, WriteStatus, CampaignStatus
  <1>5. ASSUME NEW c \in Calls, FinishResume(c) \/ UpdateStatus(c)
        PROVE  /\ UNCHANGED recipient
               /\ \/ \E s \in {"sent", "sending"} : WriteStatus(s)
                  \/ Exists /\ campaign' = [campaign EXCEPT !.status = "scheduled",
                                   !.schedulingCount = Cardinality(call[c].chosen)]
    BY <1>5 DEF FinishResume, UpdateStatus
  <1>6. ASSUME NEW k \in JobIds, UpdateRecipient(k)
        PROVE  /\ UNCHANGED campaign
               /\ \A r \in Recipients : Settled(r) => Settled(r)'
               /\ Present' = Present
    BY <1>6 DEF UpdateRecipient, WriteRecipient, StatusFor, Settled, Present
  <1>7. ASSUME NEW k \in JobIds, CountEvent(k)
        PROVE  /\ UNCHANGED recipient /\ (Exists' <=> Exists)
               /\ campaign'.total = campaign.total
    BY <1>7 DEF CountEvent, Incremented, Exists
  <1>8. ASSUME NEW k \in JobIds, Unschedule(k)
        PROVE  /\ UNCHANGED recipient /\ (Exists' <=> Exists)
               /\ campaign'.total = campaign.total
               /\ campaign'.sentCount = campaign.sentCount
               /\ campaign'.failedCount = campaign.failedCount
    BY <1>8 DEF Unschedule, Exists
  <1>9. ASSUME NEW k \in JobIds, MarkDone(k)
        PROVE  UNCHANGED recipient /\ \E s \in {"sent", "failed"} : WriteStatus(s)
    BY <1>9 DEF MarkDone, Handler
  <1>10. ASSUME NEW k \in JobIds, PauseCampaign(k)
         PROVE  UNCHANGED recipient /\ WriteStatus("paused")
    BY <1>10 DEF PauseCampaign
  <1>11. \/ UNCHANGED <<campaign, recipient>> \/ Remove
         \/ \E s \in PatchStatuses : PatchStatus(s)
         \/ \E c \in Calls : FinishResume(c) \/ UpdateStatus(c)
         \/ \E k \in JobIds : \/ UpdateRecipient(k) \/ CountEvent(k) \/ Unschedule(k)
                              \/ MarkDone(k) \/ PauseCampaign(k)
    <2>1. ASSUME NEW r \in Recipients PROVE ~AddRecipient(r) \/ UNCHANGED <<campaign, recipient>>
      BY DEF AddRecipient, NoticeInv
    <2>2. CASE UserStep
      BY <2>1, <2>2 DEF UserStep, SendRead, ResumeRead, Unsubscribe, Reconnect
    <2>3. ASSUME NEW c \in Calls, CallStep(c) \/ CallAborts(c)
          PROVE  UNCHANGED <<campaign, recipient>> \/ FinishResume(c) \/ UpdateStatus(c)
      BY <2>3 DEF CallStep, FilterUnsubscribed, CheckDailyLimit, SaveLogs, EnqueueBatch,
         CallAborts
    <2>4. ASSUME NEW r \in Recipients PROVE ~CountRecipient(r) /\ ~AddAborts(r)
      BY DEF NoticeInv, CountRecipient, AddAborts
    <2>5. ASSUME NEW k \in JobIds, EventStep(k) \/ EventFails(k) \/ PauseFails(k)
          PROVE  \/ UNCHANGED <<campaign, recipient>>
                 \/ UpdateRecipient(k) \/ CountEvent(k) \/ Unschedule(k)
                 \/ MarkDone(k) \/ PauseCampaign(k)
      BY <2>5 DEF EventStep, EventFails, PauseFails, CheckDone, Notify
    <2>6. ASSUME NEW k \in JobIds, JobMoves(k) PROVE UNCHANGED <<campaign, recipient>>
      BY <2>6 DEF JobMoves
    <2>7. ASSUME TokenExpires \/ \E p \in Processes : Crash(p)
          PROVE  UNCHANGED <<campaign, recipient>>
      BY <2>7 DEF TokenExpires, Crash
    <2>8. CASE UNCHANGED vars
      BY <2>8 DEF vars
    <2>9. QED
      BY <2>2, <2>3, <2>4, <2>5, <2>6, <2>7, <2>8, JobStepMoves DEF Next, WorkStep, FaultStep
  <1>12. CASE \E c \in Calls : FinishResume(c) \/ UpdateStatus(c)
    <2>1. PICK c \in Calls : FinishResume(c) \/ UpdateStatus(c)
      BY <1>12
    <2>2. CASE \E s \in {"sent", "sending"} : WriteStatus(s)
      BY <1>3, <1>5, <2>1, <2>2
    <2>3. ASSUME Exists, campaign' = [campaign EXCEPT !.status = "scheduled",
                                   !.schedulingCount = Cardinality(call[c].chosen)]
          PROVE  /\ Exists'
                 /\ campaign'.total = campaign.total
                 /\ campaign'.sentCount = campaign.sentCount
                 /\ campaign'.failedCount = campaign.failedCount
      BY <2>3 DEF Exists
    <2>4. CASE ~\E s \in {"sent", "sending"} : WriteStatus(s)
      BY <1>5, <2>1, <2>3, <2>4 DEF Settled, Present
    <2>5. QED
      BY <2>2, <2>4
  <1>13. CASE \E s \in PatchStatuses : PatchStatus(s)
    BY <1>3, <1>4, <1>13
  <1>14. CASE \E k \in JobIds : MarkDone(k) \/ PauseCampaign(k)
    BY <1>3, <1>9, <1>10, <1>14
  <1>15. CASE \E k \in JobIds : UpdateRecipient(k)
    BY <1>6, <1>15 DEF Exists
  <1>16. CASE \E k \in JobIds : CountEvent(k) \/ Unschedule(k)
    BY <1>7, <1>8, <1>16 DEF Settled, Present
  <1>17. QED
    BY <1>1, <1>2, <1>11, <1>12, <1>13, <1>14, <1>15, <1>16

LEMMA ReportKept ==
    ASSUME TypeOK, NoticeInv, MailInv, CountInv, [Next]_vars, NEW k \in JobIds
    PROVE  ReportInv(k)'
  <1>0. ReportInv(k) /\ k[2] \in Recipients
    BY DEF CountInv, JobIds
  <1>1. handler'[k].at # "idle" => job'[k].at \in Over /\ Spent(k)'
    <2>1. CASE (RecordSent(k) \/ ReportFailure(k)) /\ handler'[k].at = "recipient"
      <3>1. job'[k].at \in Over
        BY <2>1, JobGoesEffect DEF RecordSent, ReportFailure, Over
      <3>2. job[k].at # "absent" /\ Spent(k)
        BY <1>0, <2>1 DEF RecordSent, ReportFailure, ReportInv, MailInv, MailKnown, Spent
      <3>3. QED
        BY <3>1, <3>2, JobFate
    <2>2. CASE EventStep(k) /\ UNCHANGED <<job, mailed>> /\ handler[k].at # "idle"
      BY <1>0, <2>2 DEF ReportInv, Spent
    <2>3. CASE handler'[k] = handler[k] /\ handler[k].at # "idle"
      <3>1. job[k].at \in Over /\ Spent(k) /\ Spent(k)'
        BY <1>0, <2>3, JobFate DEF ReportInv, Over
      <3>2. job[k].at \in Over => job'[k].at \in Over
        <4>1. CASE \E p \in Processes : Crash(p)
          BY <2>3, <4>1, CrashMoves
        <4>2. CASE UNCHANGED <<job, mailed>> \/ UNCHANGED vars
          BY <4>2 DEF vars
        <4>3. ASSUME NEW c \in Calls, EnqueueBatch(c)
              PROVE  job[k].at \in Over => job'[k].at \in Over
          BY <4>3 DEF EnqueueBatch, Over
        <4>4. ASSUME NEW i \in JobIds, JobMoves(i)
              PROVE  job[k].at \in Over => job'[k].at \in Over
          BY <4>4 DEF JobMoves, Over
        <4>5. QED
          BY <4>1, <4>2, <4>3, <4>4, StepKinds, JobStepMoves
      <3>3. QED
        BY <3>1, <3>2
    <2>4. QED
      BY <2>1, <2>2, <2>3, ListenerFate
  <1>2. Exists' /\ handler'[k].at \notin {"idle", "recipient"} => Settled(k[2])'
    <2>1. ASSUME UpdateRecipient(k), Exists' PROVE Settled(k[2])'
      <3>1. recipient[k[2]] # "absent"
        BY <1>0, <2>1 DEF UpdateRecipient, NoticeInv, Exists
      <3>2. QED
        BY <1>0, <2>1, <3>1
           DEF UpdateRecipient, WriteRecipient, StatusFor, Settled, TypeOK
    <2>2. ASSUME Exists', handler[k].at \notin {"idle", "recipient"} PROVE Settled(k[2])'
      BY <1>0, <2>2, RowFate DEF ReportInv
    <2>3. QED
      BY <2>1, <2>2, ListenerFate
  <1>3. QED
    BY <1>1, <1>2, JobFate DEF ReportInv

(* No count is forgotten. *)
LEMMA TimesGrow ==
    ASSUME TypeOK, NoticeInv, MailInv, CountInv, [Next]_vars, Exists', NEW k \in JobIds
    PROVE  Times(k) <= Times(k)'
  <1>1. job[k].stalls \in Nat
    BY DEF TypeOK, Job
  <1>2. CASE job'[k].stalls = job[k].stalls + 1
    BY <1>1, <1>2 DEF Times
  <1>3. CASE job'[k].stalls = job[k].stalls /\ (job[k].at \in Over => job'[k].at \in Over)
    <2>1. ASSUME k \in Reported PROVE k \in Reported'
      <3>1. /\ job[k].at \in Over /\ handler[k].at \notin {"recipient", "count"}
            /\ Spent(k) /\ Settled(k[2]) /\ k[2] \in Recipients
        BY <2>1 DEF Reported, JobIds
      <3>2. Spent(k)' /\ Settled(k[2])' /\ job'[k].at \in Over
        BY <1>3, <3>1, JobFate, RowFate DEF Over
      <3>3. handler'[k].at \notin {"recipient", "count"}
        <4>1. ~RecordSent(k) /\ ~ReportFailure(k)
          BY <3>1 DEF RecordSent, ReportFailure, Over
        <4>2. ~UpdateRecipient(k)
          BY <3>1 DEF UpdateRecipient
        <4>3. QED
          BY <3>1, <4>1, <4>2, ListenerFate
      <3>4. QED
        BY <3>2, <3>3 DEF Reported
    <2>2. QED
      BY <1>1, <1>3, <2>1 DEF Times
  <1>4. QED
    BY <1>2, <1>3, JobFate

LEMMA SlotsGrow ==
    ASSUME TypeOK, TypeOK', NoticeInv, MailInv, CountInv, [Next]_vars, Exists'
    PROVE  /\ Slots \subseteq Slots'
           /\ IsFiniteSet(Slots) /\ IsFiniteSet(Slots')
           /\ Cardinality(Slots) \in Nat /\ Cardinality(Slots') \in Nat
  <1> DEFINE n == [k \in JobIds |-> Times(k)]
             m == [k \in JobIds |-> Times(k)']
  <1>1. n \in [JobIds -> Nat] /\ m \in [JobIds -> Nat]
    BY TimesAreNumbers DEF TypeOK, Job, Times
  <1>2. \A k \in JobIds : n[k] <= m[k]
    BY TimesGrow
  <1>3. Slots = Pairs(n) /\ Slots' = Pairs(m)
    BY DEF Slots, Pairs
  <1> HIDE DEF n, m
  <1>4. Pairs(n) \subseteq Pairs(m)
    <2>1. \A k \in JobIds : n[k] \in Nat /\ m[k] \in Nat
      BY <1>1
    <2>2. \A k \in JobIds : 1..n[k] \subseteq 1..m[k]
      BY <1>2, <2>1
    <2>3. QED
      BY <2>2 DEF Pairs
  <1>5. QED
    BY <1>1, <1>3, <1>4, PairsAreFinite

(* A count takes a slot that was free. *)
LEMMA CountTakesSlot ==
    ASSUME TypeOK, TypeOK', NoticeInv, MailInv, CountInv, [Next]_vars, Exists',
           NEW k \in JobIds, CountEvent(k)
    PROVE  /\ Cardinality(Slots') >= Cardinality(Slots) + 1
           /\ campaign'.sentCount + campaign'.failedCount
                = campaign.sentCount + campaign.failedCount + 1
  <1>1. /\ handler[k].at = "count" /\ handler'[k].at \in {"unschedule", "check"}
        /\ UNCHANGED <<job, mailed, recipient>> /\ Exists
    BY RowFate DEF CountEvent, EventGoes, TypeOK, Handler
  <1>2. job[k].stalls \in Nat /\ ReportInv(k)
    BY DEF TypeOK, Job, CountInv
  <1>3. Times(k) = job[k].stalls
    BY <1>1, <1>2 DEF Times, Reported
  <1>4. Times(k)' = job[k].stalls + 1
    <2>1. k \in Reported'
      BY <1>1, <1>2 DEF Reported, ReportInv, Spent, Settled
    <2>2. QED
      BY <1>1, <1>2, <2>1 DEF Times
  <1> DEFINE slot == <<k, job[k].stalls + 1>>
             n == [i \in JobIds |-> Times(i)]
  <1>5. slot \in Slots'
    <2>1. job[k].stalls + 1 \in 1..Times(k)'
      BY <1>2, <1>4
    <2>2. QED
      BY <2>1 DEF Slots, Pairs
  <1>6. slot \notin Slots
    <2>1. ASSUME slot \in Slots PROVE FALSE
      <3>1. PICK i \in JobIds : slot \in {i} \X (1..Times(i))
        BY <2>1 DEF Slots, Pairs
      <3>2. i = k /\ job[k].stalls + 1 \in 1..Times(k)
        BY <3>1
      <3>3. QED
        BY <1>2, <1>3, <3>2
    <2>2. QED
      BY <2>1
  <1>7. Cardinality(Slots \cup {slot}) = Cardinality(Slots) + 1
    <2> HIDE DEF slot
    <2>1. QED
      BY <1>6, SlotsGrow, FS_AddElement
  <1>8. Slots \cup {slot} \in SUBSET Slots'
    BY <1>5, SlotsGrow
  <1>9. Cardinality(Slots \cup {slot}) <= Cardinality(Slots')
    <2> HIDE DEF slot
    <2>1. QED
      BY <1>8, SlotsGrow, FS_Subset
  <1>10. campaign'.sentCount + campaign'.failedCount
           = campaign.sentCount + campaign.failedCount + 1
    BY <1>1 DEF CountEvent, Incremented, TypeOK, CampaignRow
  <1>11. QED
    BY <1>7, <1>9, <1>10

LEMMA CountStep ==
    ASSUME TypeOK, TypeOK', NoticeInv, MailInv, CountInv, [Next]_vars
    PROVE  CountInv'
  <1>1. \A k \in JobIds : ReportInv(k)'
    BY ReportKept
  <1>2. ASSUME Exists'
        PROVE  /\ campaign'.total = Cardinality(Recipients)
               /\ campaign'.sentCount + campaign'.failedCount <= Cardinality(Slots')
    <2>1. /\ campaign.total = Cardinality(Recipients)
          /\ campaign.sentCount + campaign.failedCount <= Cardinality(Slots)
          /\ campaign'.total = campaign.total
      BY <1>2, RowFate DEF CountInv
    <2>2. /\ Slots \subseteq Slots' /\ IsFiniteSet(Slots')
          /\ Cardinality(Slots) \in Nat /\ Cardinality(Slots') \in Nat
      BY <1>2, SlotsGrow
    <2>3. campaign.sentCount \in Nat /\ campaign.failedCount \in Nat
      BY DEF TypeOK, CampaignRow
    <2>4. CASE \E k \in JobIds : CountEvent(k)
      BY <1>2, <2>1, <2>2, <2>3, <2>4, CountTakesSlot
    <2>5. CASE campaign'.sentCount = campaign.sentCount
               /\ campaign'.failedCount = campaign.failedCount
      <3>1. Cardinality(Slots) <= Cardinality(Slots')
        BY <2>2, FS_Subset
      <3>2. QED
        BY <2>1, <2>2, <2>3, <2>5, <3>1
    <2>6. QED
      BY <1>2, <2>4, <2>5, RowFate
  <1>3. ~Exists' => Present' = {}
    BY RowFate DEF CountInv
  <1>4. QED
    BY <1>1, <1>2, <1>3 DEF CountInv

(* A slot is a stall, or the last report of a job. *)
LEMMA SlotsAreBounded ==
    ASSUME TypeOK
    PROVE  /\ IsFiniteSet(Slots) /\ IsFiniteSet(Reported) /\ IsFiniteSet(Stalls)
           /\ Cardinality(Slots) <= Cardinality(Stalls) + Cardinality(Reported)
  <1> DEFINE last == [k \in Reported |-> <<k, job[k].stalls + 1>>]
             ends == {last[k] : k \in Reported}
             n    == [k \in JobIds |-> job[k].stalls]
             m    == [k \in JobIds |-> Times(k)]
  <1>1. IsFiniteSet(Reported)
    <2>1. Reported \in SUBSET JobIds
      BY DEF Reported
    <2>2. QED
      BY <2>1, JobsAreFinite, FS_Subset
  <1>2. /\ IsFiniteSet(ends)
        /\ Cardinality(ends) <= Cardinality(Reported)
    <2>1. last \in Surjection(Reported, ends)
      BY DEF Surjection
    <2> HIDE DEF last, ends
    <2>2. QED
      BY <1>1, <2>1, FS_Surjection
  <1>3. IsFiniteSet(Stalls)
    <2>1. n \in [JobIds -> Nat]
      BY DEF TypeOK, Job
    <2>2. Stalls = Pairs(n)
      BY DEF Stalls, Pairs
    <2> HIDE DEF n
    <2>3. QED
      BY <2>1, <2>2, PairsAreFinite
  <1>4. IsFiniteSet(Slots)
    <2>1. m \in [JobIds -> Nat] /\ Slots = Pairs(m)
      BY TimesAreNumbers DEF Slots
    <2> HIDE DEF m
    <2>2. QED
      BY <2>1, PairsAreFinite
  <1>5. Slots \subseteq Stalls \cup ends
    <2> SUFFICES ASSUME NEW k \in JobIds, NEW i \in 1..Times(k)
                 PROVE  <<k, i>> \in Stalls \cup ends
      BY DEF Slots, Pairs
    <2>1. job[k].stalls \in Nat
      BY DEF TypeOK, Job
    <2>2. CASE i \in 1..job[k].stalls
      BY <2>2 DEF Stalls
    <2>3. CASE i \notin 1..job[k].stalls
      <3>1. k \in Reported /\ i = job[k].stalls + 1
        BY <2>1, <2>3 DEF Times
      <3>2. QED
        BY <3>1
    <2>4. QED
      BY <2>2, <2>3
  <1> HIDE DEF last, ends
  <1>6. /\ IsFiniteSet(Stalls \cup ends)
        /\ Cardinality(Stalls \cup ends)
             = Cardinality(Stalls) + Cardinality(ends) - Cardinality(Stalls \cap ends)
    BY <1>2, <1>3, FS_Union
  <1>7. Stalls \cap ends \in SUBSET Stalls
    OBVIOUS
  <1>8. IsFiniteSet(Stalls \cap ends)
    BY <1>3, <1>7, FS_Subset
  <1>9. Cardinality(Slots) <= Cardinality(Stalls \cup ends)
    BY <1>5, <1>6, FS_Subset
  <1>10. /\ Cardinality(Slots) \in Nat /\ Cardinality(Stalls) \in Nat
         /\ Cardinality(ends) \in Nat /\ Cardinality(Stalls \cap ends) \in Nat
         /\ Cardinality(Reported) \in Nat /\ Cardinality(Stalls \cup ends) \in Nat
    BY <1>1, <1>2, <1>3, <1>4, <1>6, <1>8, FS_CardinalityType
  <1>11. QED
    BY <1>1, <1>2, <1>3, <1>4, <1>6, <1>9, <1>10

(* Of the jobs that reported for one recipient all but the first are again. *)
LEMMA ReportedAreBounded ==
    ASSUME TypeOK
    PROVE  /\ IsFiniteSet(Again)
           /\ Cardinality(Reported)
                <= Cardinality(Again) + Cardinality({r \in Recipients : Settled(r)})
  <1> DEFINE done  == {r \in Recipients : Settled(r)}
             first == Reported \ Again
             whose == [k \in first |-> k[2]]
  <1>1. IsFiniteSet(Again) /\ IsFiniteSet(Reported) /\ IsFiniteSet(done)
    <2>1. Again \in SUBSET JobIds
      BY DEF Again
    <2>2. IsFiniteSet(Again)
      BY <2>1, JobsAreFinite, FS_Subset
    <2>3. done \in SUBSET Recipients
      OBVIOUS
    <2>4. IsFiniteSet(done)
      <3> HIDE DEF done
      <3>1. QED
        BY <2>3, RecipientsAssumption, FS_Subset
    <2>5. QED
      BY <2>2, <2>4, SlotsAreBounded
  <1>2. whose \in Injection(first, done)
    <2>1. \A k \in first : k[2] \in done /\ k \in JobIds /\ Spent(k)
      BY DEF Reported, JobIds
    <2>2. ASSUME NEW j \in first, NEW k \in first, j[2] = k[2] PROVE j = k
      <3>1. j \in JobIds /\ k \in JobIds /\ Spent(j) /\ Spent(k)
        BY <2>1
      <3>2. j \in JobsFor(k[2]) /\ k \in JobsFor(j[2])
        BY <2>2, <3>1 DEF JobsFor
      <3>3. ~(j[1] < k[1]) /\ ~(k[1] < j[1])
        BY <3>1, <3>2 DEF Again
      <3>4. j[1] \in Nat /\ k[1] \in Nat
        BY <3>1, BoundsAssumption DEF JobIds
      <3>5. j[1] = k[1]
        BY <3>3, <3>4
      <3>6. QED
        BY <2>2, <3>1, <3>5 DEF JobIds
    <2>3. QED
      BY <2>1, <2>2 DEF Injection, IsInjective
  <1> HIDE DEF done, first, whose
  <1>3. IsFiniteSet(first) /\ Cardinality(first) <= Cardinality(done)
    BY <1>1, <1>2, FS_Injection
  <1>4. Cardinality(first) = Cardinality(Reported) - Cardinality(Reported \cap Again)
    BY <1>1, FS_Difference DEF first
  <1>5. Reported \cap Again \in SUBSET Again
    OBVIOUS
  <1>6. /\ IsFiniteSet(Reported \cap Again)
        /\ Cardinality(Reported \cap Again) <= Cardinality(Again)
    BY <1>1, <1>5, FS_Subset
  <1>7. /\ Cardinality(Reported) \in Nat /\ Cardinality(Again) \in Nat
        /\ Cardinality(done) \in Nat /\ Cardinality(first) \in Nat
        /\ Cardinality(Reported \cap Again) \in Nat
    BY <1>1, <1>3, <1>6, FS_CardinalityType
  <1>8. QED
    BY <1>1, <1>3, <1>4, <1>6, <1>7 DEF done

LEMMA CountsBoundUnsettled ==
    ASSUME TypeOK, NoticeInv, CountInv PROVE EarlyNoticeIsPaidFor
  <1> SUFFICES ASSUME notices > 0
               PROVE  Cardinality({r \in Present : ~Settled(r)})
                        <= Cardinality(Again) + Cardinality(Stalls)
    BY DEF EarlyNoticeIsPaidFor
  <1> DEFINE done == {r \in Recipients : Settled(r)}
             left == {r \in Present : ~Settled(r)}
  <1>1. /\ Cardinality(Again) \in Nat /\ Cardinality(Stalls) \in Nat
        /\ Cardinality(Slots) \in Nat /\ Cardinality(Reported) \in Nat
        /\ Cardinality(Slots) <= Cardinality(Stalls) + Cardinality(Reported)
        /\ Cardinality(Reported) <= Cardinality(Again) + Cardinality(done)
    BY SlotsAreBounded, ReportedAreBounded, FS_CardinalityType
  <1>2. CASE ~Exists
    <2>1. left = {}
      BY <1>2 DEF CountInv
    <2>2. Cardinality(left) = 0
      BY <2>1, FS_EmptySet
    <2>3. QED
      BY <1>1, <2>2
  <1>3. CASE Exists
    <2>1. Cardinality(Recipients) <= Cardinality(Slots)
      <3>1. /\ campaign.sentCount \in Nat /\ campaign.failedCount \in Nat
            /\ Cardinality(Recipients) \in Nat
        BY RecipientsAssumption, FS_CardinalityType DEF TypeOK, CampaignRow
      <3>2. QED
        BY <1>1, <1>3, <3>1 DEF NoticeInv, CountInv, Reached
    <2>2. done \in SUBSET Recipients /\ left = Recipients \ done
      BY <1>3 DEF NoticeInv, Present
    <2> HIDE DEF done, left
    <2>3. IsFiniteSet(done)
      BY <2>2, RecipientsAssumption, FS_Subset
    <2>4. /\ IsFiniteSet(left)
          /\ Cardinality(left) = Cardinality(Recipients) - Cardinality(Recipients \cap done)
      BY <2>2, RecipientsAssumption, FS_Difference
    <2>5. Recipients \cap done = done
      BY <2>2
    <2>6. /\ Cardinality(left) = Cardinality(Recipients) - Cardinality(done)
          /\ Cardinality(left) \in Nat /\ Cardinality(done) \in Nat
          /\ Cardinality(Recipients) \in Nat
      BY <2>3, <2>4, <2>5, RecipientsAssumption, FS_CardinalityType
    <2>7. Cardinality(left) <= Cardinality(Again) + Cardinality(Stalls)
      BY <1>1, <2>1, <2>6
    <2>8. QED
      BY <2>7 DEF left
  <1>4. QED
    BY <1>2, <1>3

LEMMA CountInvariant ==
    ASSUME InitialRecipients = Recipients
    PROVE  Spec => []CountInv
  <1>1. ASSUME Init, TypeOK PROVE CountInv
    <2>1. Cardinality(Slots) \in Nat
      BY <1>1, SlotsAreBounded, FS_CardinalityType
    <2>2. \A k \in JobIds : ReportInv(k)
      BY <1>1 DEF Init, ReportInv, NoJob, NoHandler
    <2>3. /\ Exists /\ campaign.total = Cardinality(Recipients)
          /\ campaign.sentCount = 0 /\ campaign.failedCount = 0
      BY <1>1 DEF Init, Exists
    <2>4. QED
      BY <2>1, <2>2, <2>3 DEF CountInv
  <1>2. TypeOK /\ TypeOK' /\ NoticeInv /\ MailInv /\ CountInv /\ [Next]_vars => CountInv'
    BY CountStep
  <1>3. Spec => []NoticeInv
    BY NoticeInvariant
  <1>4. QED
    BY <1>1, <1>2, <1>3, MailInvariant, TypeCorrect, PTL DEF Spec

(* EarlyNoticeIsPaidFor: with no recipient added while the campaign is being *)
(* sent, AllDone (campaigns.listener.ts) lets the completion notice overtake *)
(* emails only as far as stalls and resumes made recipients count twice,     *)
(* whatever else fails, pauses, is sent again or is deleted.                 *)
THEOREM EarlyNoticesArePaidFor ==
    ASSUME InitialRecipients = Recipients
    PROVE  Spec => []EarlyNoticeIsPaidFor
  <1>1. TypeOK /\ NoticeInv /\ CountInv => EarlyNoticeIsPaidFor
    BY CountsBoundUnsettled
  <1>2. Spec => []NoticeInv
    BY NoticeInvariant
  <1>3. Spec => []CountInv
    BY CountInvariant
  <1>4. QED
    BY <1>1, <1>2, <1>3, TypeCorrect, PTL
=============================================================================
