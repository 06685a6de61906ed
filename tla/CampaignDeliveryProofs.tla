----------------------- MODULE CampaignDeliveryProofs -----------------------
(***************************************************************************)
(* What holds of CampaignDelivery for any set of recipients, any number of *)
(* calls, processes, attempts and stalls, and any combination of faults.   *)
(***************************************************************************)
EXTENDS CampaignDelivery, FiniteSetTheorems, TLAPS

(* The number of elements of a set of recipients is a natural number. *)
LEMMA RecipientCount ==
    ASSUME NEW S \in SUBSET Recipients
    PROVE  Cardinality(S) \in Nat
  <1>1. IsFiniteSet(S)
    BY RecipientsAssumption, FS_Subset
  <1>2. QED
    BY <1>1, FS_CardinalityType

-----------------------------------------------------------------------------
(* TypeOK: every step of every part keeps the values in their types. *)

LEMMA CallGoesType ==
    ASSUME call \in [Calls -> Call], NEW c \in Calls, NEW place \in CallPlaces,
           CallGoes(c, place)
    PROVE  call' \in [Calls -> Call]
  BY DEF CallGoes, Call

LEMMA CallEndsType ==
    ASSUME call \in [Calls -> Call], NEW c \in Calls, CallEnds(c)
    PROVE  call' \in [Calls -> Call]
  BY DEF CallEnds, EndedCall, NoCall, Call, CallPlaces

LEMMA ScheduledRowType ==
    ASSUME NEW row \in CampaignRow, NEW n \in Nat
    PROVE  [row EXCEPT !.status = "scheduled", !.schedulingCount = n]
             \in CampaignRow
  <1>1. [row EXCEPT !.status = "scheduled"] \in CampaignRow
    BY DEF CampaignRow, CampaignStatus
  <1>2. ASSUME NEW s \in CampaignRow
        PROVE  [s EXCEPT !.schedulingCount = n] \in CampaignRow
    BY DEF CampaignRow
  <1>3. [[row EXCEPT !.status = "scheduled"] EXCEPT !.schedulingCount = n]
          = [row EXCEPT !.status = "scheduled", !.schedulingCount = n]
    OBVIOUS
  <1>4. QED
    BY <1>1, <1>2, <1>3

LEMMA CallKeepsTypes ==
    ASSUME TypeOK, NEW c \in Calls, CallStep(c) PROVE TypeOK'
  <1> USE DEF TypeOK
  <1>1. CASE FilterUnsubscribed(c)
    <2>1. [call[c] EXCEPT !.at = "limit", !.chosen = @ \ unsubscribed] \in Call
      BY DEF Call, CallPlaces
    <2>2. call' \in [Calls -> Call]
      BY <1>1, <2>1 DEF FilterUnsubscribed, Filtered
    <2>3. QED
      BY <1>1, <2>2 DEF FilterUnsubscribed
  <1>2. CASE FinishResume(c)
    BY <1>2, CallEndsType
       DEF FinishResume, WriteStatus, CampaignRow, CampaignStatus
  <1>3. CASE CheckDailyLimit(c)
    <2>1. call' \in [Calls -> Call]
      BY <1>3, CallEndsType, CallGoesType DEF CheckDailyLimit, CallPlaces
    <2>2. QED
      BY <1>3, <2>1 DEF CheckDailyLimit
  <1>4. CASE SaveLogs(c)
    <2>1. call' \in [Calls -> Call]
      BY <1>4, CallEndsType, CallGoesType DEF SaveLogs, CallPlaces
    <2>2. logs' \in [LogIds -> LogStatus \cup {"absent"}]
      BY <1>4 DEF SaveLogs, LogStatus
    <2>3. QED
      BY <1>4, <2>1, <2>2 DEF SaveLogs
  <1>5. CASE EnqueueBatch(c)
    <2>1. \A k \in JobIds : job'[k] \in Job
      BY <1>5 DEF EnqueueBatch, NewJob, NoJob, Job, JobPlaces, Call
    <2>2. job' \in [JobIds -> Job]
      BY <1>5, <2>1 DEF EnqueueBatch
    <2>3. call' \in [Calls -> Call]
      BY <1>5, CallGoesType DEF EnqueueBatch, CallPlaces
    <2>4. QED
      BY <1>5, <2>2, <2>3 DEF EnqueueBatch
  <1>6. CASE UpdateStatus(c)
    <2>1. Cardinality(call[c].chosen) \in Nat
      BY RecipientCount DEF Call
    <2>2. call' \in [Calls -> Call]
      BY <1>6, CallEndsType DEF UpdateStatus
    <2>3. /\ [campaign EXCEPT !.status = "scheduled",
                 !.schedulingCount = Cardinality(call[c].chosen)] \in CampaignRow
          /\ [campaign EXCEPT !.status = "sending"] \in CampaignRow
      BY <2>1, ScheduledRowType DEF CampaignRow, CampaignStatus
    <2>4. campaign' \in CampaignRow
      BY <1>6, <2>3 DEF UpdateStatus, WriteStatus
    <2>5. QED
      BY <1>6, <2>2, <2>4 DEF UpdateStatus
  <1>7. QED
    BY <1>1, <1>2, <1>3, <1>4, <1>5, <1>6 DEF CallStep

LEMMA UserKeepsTypes == TypeOK /\ UserStep => TypeOK'
  <1> SUFFICES ASSUME TypeOK, UserStep PROVE TypeOK'
    OBVIOUS
  <1> USE DEF TypeOK
  <1>1. ASSUME NEW c \in Calls, SendRead(c) PROVE TypeOK'
    BY <1>1, ChoicesAssumption DEF SendRead, Present, Call, CallPlaces
  <1>2. ASSUME NEW c \in Calls, ResumeRead(c) PROVE TypeOK'
    BY <1>2 DEF ResumeRead, Unsent, Present, Call, CallPlaces
  <1>3. ASSUME NEW r \in Recipients, AddRecipient(r) PROVE TypeOK'
    BY <1>3 DEF AddRecipient, RecipientStatus
  <1>4. ASSUME NEW r \in MayUnsubscribe, Unsubscribe(r) PROVE TypeOK'
    BY <1>4, RecipientsAssumption DEF Unsubscribe
  <1>5. ASSUME NEW s \in PatchStatuses, PatchStatus(s) PROVE TypeOK'
    BY <1>5, ChoicesAssumption DEF PatchStatus, CampaignRow
  <1>6. CASE Remove
    BY <1>6 DEF Remove, CampaignRow
  <1>7. CASE Reconnect
    BY <1>7 DEF Reconnect
  <1>8. QED
    BY <1>1, <1>2, <1>3, <1>4, <1>5, <1>6, <1>7 DEF UserStep

LEMMA JobUpdateType ==
    ASSUME job \in [JobIds -> Job], NEW k \in JobIds, NEW j \in Job,
           job' = [job EXCEPT ![k] = j]
    PROVE  job' \in [JobIds -> Job]
  OBVIOUS

LEMMA JobGoesType ==
    ASSUME job \in [JobIds -> Job], NEW k \in JobIds, NEW place \in JobPlaces,
           JobGoes(k, place)
    PROVE  job' \in [JobIds -> Job]
  BY DEF JobGoes, Job

(* The outcome of a failed attempt is a job. *)
LEMMA FailedAttemptType ==
    ASSUME NEW j \in Job
    PROVE  Retry(j) \in Job /\ GiveUp(j) \in Job
  <1>1. j.attemptsMade + 1 \in Nat
    BY DEF Job
  <1>2. /\ {"report", "waiting", "failed"} \subseteq JobPlaces
        /\ NoProcess \in Processes \cup {NoProcess}
    BY DEF JobPlaces
  <1>3. Retry(j) \in Job
    BY <1>1, <1>2 DEF Retry, Job
  <1>4. GiveUp(j) \in Job
    BY <1>1, <1>2 DEF GiveUp, Job
  <1>5. QED
    BY <1>3, <1>4

LEMMA AfterCrashType ==
    ASSUME NEW j \in Job, NEW p \in Processes
    PROVE  AfterCrash(j, p) \in Job
  <1>1. {"failed", "waiting"} \subseteq JobPlaces
    BY DEF JobPlaces
  <1>2. Stalled(j) \in Job
    <2>1. j.stalls + 1 \in Nat
      BY DEF Job
    <2>2. QED
      BY <1>1, <2>1 DEF Stalled, Job
  <1>3. [j EXCEPT !.at = "failed"] \in Job
    BY <1>1 DEF Job
  <1>4. QED
    BY <1>2, <1>3 DEF AfterCrash

LEMMA JobKeepsTypes ==
    ASSUME TypeOK, NEW k \in JobIds,
           JobStep(k) \/ AttemptFails(k) \/ ReportAborts(k)
           \/ \E p \in Processes : StartJob(k, p)
    PROVE  TypeOK'
  <1> USE DEF TypeOK
  <1>1. /\ ActiveAt \subseteq JobPlaces
        /\ {"waiting", "report", "completed", "failed"} \subseteq JobPlaces
        /\ {"guard", "mark", "token", "pend", "send", "record", "ack"}
             \subseteq JobPlaces
    BY DEF JobPlaces, ActiveAt
  <1>2. job[k] \in Job /\ Retry(job[k]) \in Job /\ GiveUp(job[k]) \in Job
    BY FailedAttemptType
  <1>3. CASE ReadGuard(k)
    <2>1. job' \in [JobIds -> Job]
      BY <1>1, <1>3, JobGoesType DEF ReadGuard
    <2>2. QED
      BY <1>3, <2>1 DEF ReadGuard
  <1>4. CASE MarkSending(k)
    BY <1>1, <1>4, JobGoesType DEF MarkSending, WriteLog, LogStatus
  <1>5. CASE GetToken(k)
    BY <1>1, <1>5, JobGoesType DEF GetToken
  <1>6. CASE TokenRefused(k)
    <2>1. job' \in [JobIds -> Job]
      BY <1>1, <1>2, <1>6, JobGoesType, JobUpdateType DEF TokenRefused
    <2>2. QED
      BY <1>6, <2>1 DEF TokenRefused
  <1>7. CASE PendLogs(k)
    <2>1. logs' \in [LogIds -> LogStatus \cup {"absent"}]
      BY <1>7 DEF PendLogs, LogStatus
    <2>2. job' \in [JobIds -> Job]
      BY <1>2, <1>7, JobUpdateType DEF PendLogs
    <2>3. QED
      BY <1>7, <2>1, <2>2 DEF PendLogs
  <1>8. CASE SendMail(k)
    BY <1>1, <1>8, JobGoesType DEF SendMail
  <1>9. CASE RecordSent(k)
    <2>1. handler' \in [JobIds -> Handler]
      BY <1>9 DEF RecordSent, Handler, EventPlaces
    <2>2. QED
      BY <1>1, <1>9, <2>1, JobGoesType DEF RecordSent, WriteLog, LogStatus
  <1>10. CASE Complete(k)
    BY <1>1, <1>10, JobGoesType DEF Complete
  <1>11. CASE ReportFailure(k)
    <2>1. handler' \in [JobIds -> Handler]
      BY <1>11 DEF ReportFailure, Handler, EventPlaces
    <2>2. QED
      BY <1>1, <1>11, <2>1, JobGoesType DEF ReportFailure, WriteLog, LogStatus
  <1>12. CASE AttemptFails(k)
    <2>1. job' \in [JobIds -> Job]
      BY <1>2, <1>12, JobUpdateType DEF AttemptFails
    <2>2. QED
      BY <1>12, <2>1 DEF AttemptFails
  <1>13. CASE ReportAborts(k)
    BY <1>1, <1>13, JobGoesType DEF ReportAborts
  <1>14. ASSUME NEW p \in Processes, StartJob(k, p) PROVE TypeOK'
    <2>1. [job[k] EXCEPT !.at = "guard", !.proc = p] \in Job
      BY <1>1, <1>2 DEF Job
    <2>2. job' \in [JobIds -> Job]
      BY <1>14, <2>1 DEF StartJob
    <2>3. QED
      BY <1>14, <2>2 DEF StartJob
  <1>15. QED
    BY <1>3, <1>4, <1>5, <1>6, <1>7, <1>8, <1>9, <1>10, <1>11, <1>12, <1>13,
       <1>14 DEF JobStep

LEMMA EventKeepsTypes ==
    ASSUME TypeOK, NEW k \in JobIds,
           EventStep(k) \/ EventFails(k) \/ PauseFails(k)
    PROVE  TypeOK'
  <1> USE DEF TypeOK
  <1>1. handler[k] \in Handler
    OBVIOUS
  <1>2. ASSUME NEW place \in EventPlaces, EventGoes(k, place)
        PROVE  handler' \in [JobIds -> Handler]
    BY <1>2 DEF EventGoes, Handler
  <1>3. {"idle", "recipient", "count", "unschedule", "check", "mark", "notify"}
          \subseteq EventPlaces
    BY DEF EventPlaces
  <1>4. CASE UpdateRecipient(k)
    <2>1. recipient' \in [Recipients -> RecipientStatus \cup {"absent"}]
      BY <1>4 DEF UpdateRecipient, WriteRecipient, StatusFor, RecipientStatus
    <2>2. QED
      BY <1>2, <1>3, <1>4, <2>1 DEF UpdateRecipient
  <1>5. CASE CountEvent(k)
    <2>1. campaign' \in CampaignRow
      BY <1>5 DEF CountEvent, Incremented, CampaignRow
    <2>2. handler' \in [JobIds -> Handler]
      BY <1>2, <1>3, <1>5 DEF CountEvent
    <2>3. QED
      BY <1>5, <2>1, <2>2 DEF CountEvent
  <1>6. CASE Unschedule(k)
    <2>1. campaign' \in CampaignRow
      BY <1>6 DEF Unschedule, CampaignRow
    <2>2. QED
      BY <1>2, <1>3, <1>6, <2>1 DEF Unschedule
  <1>7. CASE CheckDone(k)
    <2>1. [handler[k] EXCEPT !.at = "mark", !.verdict = Verdict(campaign)]
            \in Handler
      BY <1>1, <1>3 DEF Handler, Verdict
    <2>2. handler' \in [JobIds -> Handler]
      BY <1>2, <1>3, <1>7, <2>1 DEF CheckDone, EventEnds
    <2>3. QED
      BY <1>7, <2>2 DEF CheckDone
  <1>8. CASE MarkDone(k)
    <2>1. campaign' \in CampaignRow
      BY <1>1, <1>8 DEF MarkDone, WriteStatus, CampaignRow, CampaignStatus, Handler
    <2>2. QED
      BY <1>2, <1>3, <1>8, <2>1 DEF MarkDone
  <1>9. CASE Notify(k)
    BY <1>2, <1>3, <1>9 DEF Notify, EventEnds
  <1>10. CASE EventFails(k)
    BY <1>2, <1>3, <1>10 DEF EventFails, EventEnds
  <1>11. CASE PauseCampaign(k)
    BY <1>11 DEF PauseCampaign, WriteStatus, CampaignRow, CampaignStatus
  <1>12. CASE PauseFails(k)
    BY <1>12 DEF PauseFails
  <1>13. QED
    BY <1>4, <1>5, <1>6, <1>7, <1>8, <1>9, <1>10, <1>11, <1>12 DEF EventStep

LEMMA FaultKeepsTypes == TypeOK /\ FaultStep => TypeOK'
  <1> SUFFICES ASSUME TypeOK, FaultStep PROVE TypeOK'
    OBVIOUS
  <1> USE DEF TypeOK
  <1>1. ASSUME NEW c \in Calls, CallAborts(c) PROVE TypeOK'
    BY <1>1, CallEndsType DEF CallAborts
  <1>2. ASSUME NEW r \in Recipients, AddAborts(r) PROVE TypeOK'
    BY <1>2 DEF AddAborts
  <1>3. ASSUME NEW k \in JobIds, AttemptFails(k) \/ ReportAborts(k)
        PROVE  TypeOK'
    BY <1>3, JobKeepsTypes
  <1>4. ASSUME NEW k \in JobIds, EventFails(k) \/ PauseFails(k)
        PROVE  TypeOK'
    BY <1>4, EventKeepsTypes
  <1>5. ASSUME NEW p \in Processes, Crash(p) PROVE TypeOK'
    <2>1. job' \in [JobIds -> Job]
      BY <1>5, AfterCrashType DEF Crash
    <2>2. NoHandler \in Handler
      BY DEF NoHandler, Handler, EventPlaces
    <2>3. handler' \in [JobIds -> Handler]
      BY <1>5, <2>2 DEF Crash
    <2>4. QED
      BY <1>5, <2>1, <2>3 DEF Crash
  <1>6. CASE TokenExpires
    BY <1>6 DEF TokenExpires
  <1>7. QED
    BY <1>1, <1>2, <1>3, <1>4, <1>5, <1>6 DEF FaultStep

LEMMA WorkKeepsTypes == TypeOK /\ WorkStep => TypeOK'
  <1> SUFFICES ASSUME TypeOK, WorkStep PROVE TypeOK'
    OBVIOUS
  <1>1. ASSUME NEW c \in Calls, CallStep(c) PROVE TypeOK'
    BY <1>1, CallKeepsTypes
  <1>2. ASSUME NEW r \in Recipients, CountRecipient(r) PROVE TypeOK'
    BY <1>2 DEF CountRecipient, Counted, TypeOK, CampaignRow
  <1>3. ASSUME NEW k \in JobIds,
               JobStep(k) \/ \E p \in Processes : StartJob(k, p)
        PROVE  TypeOK'
    BY <1>3, JobKeepsTypes
  <1>4. ASSUME NEW k \in JobIds, EventStep(k) PROVE TypeOK'
    BY <1>4, EventKeepsTypes
  <1>5. QED
    BY <1>1, <1>2, <1>3, <1>4 DEF WorkStep

(* TypeOK holds in every reachable state. *)
THEOREM TypeCorrect == Spec => []TypeOK
  <1>1. Init => TypeOK
    <2> SUFFICES ASSUME Init PROVE TypeOK
      OBVIOUS
    <2>1. Cardinality(InitialRecipients) \in Nat
      BY RecipientsAssumption, RecipientCount
    <2>2. 1 \in Calls
      BY BoundsAssumption DEF Calls
    <2>3. NoJob \in Job
      BY <2>2 DEF NoJob, Job, JobPlaces
    <2>4. NoCall \in Call
      BY DEF NoCall, Call, CallPlaces
    <2>5. NoHandler \in Handler
      BY DEF NoHandler, Handler, EventPlaces
    <2>6. QED
      BY <2>1, <2>3, <2>4, <2>5
         DEF Init, TypeOK, CampaignRow, CampaignStatus, RecipientStatus
  <1>2. TypeOK /\ [Next]_vars => TypeOK'
    <2>1. CASE Next
      BY <2>1, UserKeepsTypes, WorkKeepsTypes, FaultKeepsTypes DEF Next
    <2>2. CASE UNCHANGED vars
      BY <2>2 DEF vars, TypeOK
    <2>3. QED
      BY <2>1, <2>2
  <1>3. QED
    BY <1>1, <1>2, PTL DEF Spec
=============================================================================
