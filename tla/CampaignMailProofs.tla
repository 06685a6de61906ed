------------------------- MODULE CampaignMailProofs -------------------------
(***************************************************************************)
(* The safety theorems about what reaches Gmail.  Each property is proved  *)
(* from an inductive invariant that says at which control points of a job  *)
(* and of a listener a message is known to be out.                         *)
(***************************************************************************)
EXTENDS CampaignDeliveryProofs

(* What JobGoes does to the jobs: only the place of job k changes. *)
LEMMA JobGoesEffect ==
    ASSUME TypeOK, NEW k \in JobIds, NEW place, JobGoes(k, place)
    PROVE  /\ \A i \in JobIds \ {k} : job'[i] = job[i]
           /\ job'[k].at = place
           /\ job'[k].attemptsMade = job[k].attemptsMade
           /\ job'[k].stalls = job[k].stalls
           /\ job'[k].call = job[k].call
  BY DEF JobGoes, TypeOK, Job

(* The steps that leave the jobs and the mailboxes alone. *)
LEMMA QuietSteps ==
    ASSUME \/ UserStep
           \/ \E c \in Calls : CallStep(c) /\ ~EnqueueBatch(c)
           \/ \E c \in Calls : CallAborts(c)
           \/ \E r \in Recipients : CountRecipient(r) \/ AddAborts(r)
           \/ \E k \in JobIds : EventStep(k) \/ EventFails(k) \/ PauseFails(k)
           \/ TokenExpires
    PROVE  UNCHANGED <<job, mailed>>
  <1>1. CASE UserStep
    BY <1>1 DEF UserStep, SendRead, ResumeRead, AddRecipient, Unsubscribe,
                PatchStatus, Remove, Reconnect
  <1>2. CASE \E c \in Calls : CallStep(c) /\ ~EnqueueBatch(c)
    BY <1>2 DEF CallStep, FilterUnsubscribed, FinishResume, CheckDailyLimit,
                SaveLogs, UpdateStatus
  <1>3. CASE \E c \in Calls : CallAborts(c)
    BY <1>3 DEF CallAborts
  <1>4. CASE \E r \in Recipients : CountRecipient(r) \/ AddAborts(r)
    BY <1>4 DEF CountRecipient, AddAborts
  <1>5. CASE \E k \in JobIds : EventStep(k) \/ EventFails(k) \/ PauseFails(k)
    BY <1>5 DEF EventStep, EventFails, PauseFails, UpdateRecipient, CountEvent,
                Unschedule, CheckDone, MarkDone, Notify, PauseCampaign
  <1>6. CASE TokenExpires
    BY <1>6 DEF TokenExpires
  <1>7. QED
    BY <1>1, <1>2, <1>3, <1>4, <1>5, <1>6

(* The other steps: the queue's, the workers' and a crash. *)
LEMMA StepKinds ==
    ASSUME Next
    PROVE  \/ UNCHANGED <<job, mailed>>
           \/ \E c \in Calls : EnqueueBatch(c)
           \/ \E k \in JobIds : \/ JobStep(k)
                                \/ AttemptFails(k)
                                \/ ReportAborts(k)
                                \/ \E p \in Processes : StartJob(k, p)
           \/ \E p \in Processes : Crash(p)
  BY QuietSteps DEF Next, WorkStep, FaultStep

(* What a step of job k does: it moves that job only, never from an end, and *)
(* each place it can reach has its own steps.                                *)
JobMoves(k) ==
    /\ \A i \in JobIds \ {k} : job'[i] = job[i]
    /\ job[k].at \notin {"absent", "completed", "failed"}
    /\ job'[k].at # "absent"
    /\ job'[k].call = job[k].call
    /\ job'[k].at = "pend" => TokenRefused(k)
    /\ job'[k].at = "ack" => RecordSent(k)
    /\ job[k].at = "ack" => job'[k].at = "completed"
    /\ job'[k].at = "completed" => ReadGuard(k) \/ Complete(k)
    /\ job'[k].at = "failed" => PendLogs(k) \/ ReportFailure(k) \/ ReportAborts(k)
    /\ job'[k].at \in {"waiting", "report"} =>
         TokenRefused(k) \/ PendLogs(k) \/ AttemptFails(k)
    /\ \/ TokenRefused(k) \/ PendLogs(k) \/ AttemptFails(k)
       \/ job'[k].attemptsMade = job[k].attemptsMade
    /\ job'[k].stalls = job[k].stalls
    /\ UNCHANGED handler \/ RecordSent(k) \/ ReportFailure(k)
    /\ UNCHANGED pausing \/ PendLogs(k)
    /\ UNCHANGED <<campaign, recipient, unsubscribed, connected, call, adding, notices>>

LEMMA JobStepMoves ==
    ASSUME TypeOK, NEW k \in JobIds,
           \/ JobStep(k)
           \/ AttemptFails(k)
           \/ ReportAborts(k)
           \/ \E p \in Processes : StartJob(k, p)
    PROVE  JobMoves(k)
  <1> USE DEF JobMoves
  <1>1. job \in [JobIds -> Job] /\ job[k] \in Job
    BY DEF TypeOK
  <1>2. ASSUME NEW place, JobGoes(k, place)
        PROVE  /\ \A i \in JobIds \ {k} : job'[i] = job[i]
               /\ job'[k].at = place
               /\ job'[k].call = job[k].call
               /\ job'[k].attemptsMade = job[k].attemptsMade
               /\ job'[k].stalls = job[k].stalls
    BY <1>2, JobGoesEffect
  <1>3. ASSUME job' = [job EXCEPT ![k] = Retry(@)]
        PROVE  /\ \A i \in JobIds \ {k} : job'[i] = job[i]
               /\ job'[k].at \in {"report", "waiting"}
               /\ job'[k].call = job[k].call
               /\ job'[k].stalls = job[k].stalls
    <2>1. /\ Retry(job[k]).at \in {"report", "waiting"}
          /\ Retry(job[k]).call = job[k].call
          /\ Retry(job[k]).stalls = job[k].stalls
      BY <1>1 DEF Retry, Job
    <2>2. QED
      BY <1>1, <1>3, <2>1
  <1>4. CASE ReadGuard(k)
    <2>1. PICK place \in {"completed", "mark"} : JobGoes(k, place)
      BY <1>4 DEF ReadGuard
    <2>2. job[k].at = "guard" /\ UNCHANGED <<handler, pausing>>
      BY <1>4 DEF ReadGuard
    <2>3. QED
      BY <1>2, <1>4, <2>1, <2>2 DEF ReadGuard
  <1>5. CASE MarkSending(k)
    BY <1>2, <1>5 DEF MarkSending
  <1>6. CASE GetToken(k)
    BY <1>2, <1>6 DEF GetToken
  <1>7. CASE TokenRefused(k)
    BY <1>2, <1>3, <1>7 DEF TokenRefused
  <1>8. CASE PendLogs(k)
    <2>1. /\ GiveUp(job[k]).at \in {"report", "failed"}
          /\ GiveUp(job[k]).call = job[k].call
          /\ GiveUp(job[k]).stalls = job[k].stalls
      BY <1>1 DEF GiveUp, Job
    <2>2. /\ job'[k] = GiveUp(job[k])
          /\ \A i \in JobIds \ {k} : job'[i] = job[i]
          /\ job[k].at = "pend"
          /\ UNCHANGED <<campaign, recipient, unsubscribed, connected, call, adding, notices, handler>>
      BY <1>1, <1>8 DEF PendLogs
    <2>3. QED
      BY <1>8, <2>1, <2>2
  <1>9. CASE SendMail(k)
    BY <1>2, <1>9 DEF SendMail
  <1>10. CASE RecordSent(k)
    BY <1>2, <1>10 DEF RecordSent
  <1>11. CASE Complete(k)
    BY <1>2, <1>11 DEF Complete
  <1>12. CASE ReportFailure(k)
    BY <1>2, <1>12 DEF ReportFailure
  <1>13. CASE ReportAborts(k)
    BY <1>2, <1>13 DEF ReportAborts
  <1>14. CASE AttemptFails(k)
    BY <1>3, <1>14 DEF AttemptFails, ActiveAt
  <1>15. ASSUME NEW p \in Processes, StartJob(k, p) PROVE JobMoves(k)
    <2>1. /\ job'[k] = [job[k] EXCEPT !.at = "guard", !.proc = p]
          /\ \A i \in JobIds \ {k} : job'[i] = job[i]
          /\ job[k].at = "waiting"
          /\ UNCHANGED <<campaign, recipient, unsubscribed, connected, call, adding, notices, handler, pausing>>
      BY <1>1, <1>15 DEF StartJob
    <2>2. /\ job'[k].at = "guard"
          /\ job'[k].call = job[k].call
          /\ job'[k].attemptsMade = job[k].attemptsMade
          /\ job'[k].stalls = job[k].stalls
      BY <1>1, <2>1 DEF Job
    <2>3. QED
      BY <2>1, <2>2
  <1>16. QED
    BY <1>4, <1>5, <1>6, <1>7, <1>8, <1>9, <1>10, <1>11, <1>12, <1>13, <1>14, <1>15
       DEF JobStep

-----------------------------------------------------------------------------
(* RepeatsArePaidFor.  A message that is out and not yet paid for by an     *)
(* attempt or a stall belongs to a job that is past send and has not failed *)
(* since; a job not yet in the queue has mailed nothing.                    *)

Unpaid(k) == IF job[k].at \in {"record", "ack", "completed"} THEN 1 ELSE 0

PaidFor(k) ==
    /\ mailed[k] <= job[k].attemptsMade + job[k].stalls + Unpaid(k)
    /\ job[k].at = "absent" => mailed[k] = 0

PaidInv == \A k \in JobIds : PaidFor(k)

LEMMA JobKeepsPaid ==
    ASSUME TypeOK, PaidInv, NEW k \in JobIds,
           \/ JobStep(k)
           \/ AttemptFails(k)
           \/ ReportAborts(k)
           \/ \E p \in Processes : StartJob(k, p)
    PROVE  PaidInv'
  <1> USE DEF PaidInv, PaidFor, Unpaid
  <1>1. /\ mailed[k] \in Nat
        /\ job[k].attemptsMade \in Nat
        /\ job[k].stalls \in Nat
        /\ mailed \in [JobIds -> Nat]
        /\ job \in [JobIds -> Job]
    BY DEF TypeOK, Job
  <1>2. ASSUME NEW place \in JobPlaces \ {"absent", "record"},
               JobGoes(k, place), UNCHANGED mailed,
               job[k].at \in {"record", "ack", "completed"} =>
                 place \in {"ack", "completed"}
        PROVE  PaidInv'
    BY <1>1, <1>2, JobGoesEffect
  <1>3. CASE ReadGuard(k)
    <2>1. PICK place \in {"completed", "mark"} : JobGoes(k, place)
      BY <1>3 DEF ReadGuard
    <2>2. QED
      BY <1>2, <1>3, <2>1 DEF ReadGuard, JobPlaces, ActiveAt
  <1>4. CASE MarkSending(k)
    BY <1>2, <1>4 DEF MarkSending, JobPlaces, ActiveAt
  <1>5. CASE GetToken(k)
    BY <1>2, <1>5 DEF GetToken, JobPlaces, ActiveAt
  <1>6. ASSUME job' = [job EXCEPT ![k] = Retry(@)], UNCHANGED mailed
        PROVE  PaidInv'
    <2>1. /\ Retry(job[k]).attemptsMade = job[k].attemptsMade + 1
          /\ Retry(job[k]).stalls = job[k].stalls
          /\ Retry(job[k]).at \in {"report", "waiting"}
      BY <1>1 DEF Retry, Job
    <2>2. /\ job'[k] = Retry(job[k])
          /\ \A i \in JobIds \ {k} : job'[i] = job[i]
      BY <1>1, <1>6
    <2>3. QED
      BY <1>1, <1>6, <2>1, <2>2
  <1>7. CASE TokenRefused(k)
    BY <1>2, <1>6, <1>7 DEF TokenRefused, JobPlaces, ActiveAt
  <1>8. CASE PendLogs(k)
    <2>1. /\ GiveUp(job[k]).attemptsMade = job[k].attemptsMade + 1
          /\ GiveUp(job[k]).stalls = job[k].stalls
          /\ GiveUp(job[k]).at \in {"report", "failed"}
      BY <1>1 DEF GiveUp, Job
    <2>2. /\ job'[k] = GiveUp(job[k])
          /\ \A i \in JobIds \ {k} : job'[i] = job[i]
      BY <1>1, <1>8 DEF PendLogs
    <2>3. QED
      BY <1>1, <1>8, <2>1, <2>2 DEF PendLogs
  <1>9. CASE SendMail(k)
    <2>1. /\ mailed'[k] = mailed[k] + 1
          /\ \A i \in JobIds \ {k} : mailed'[i] = mailed[i]
      BY <1>1, <1>9 DEF SendMail
    <2>2. job[k].at = "send" /\ JobGoes(k, "record")
      BY <1>9 DEF SendMail
    <2>3. QED
      BY <1>1, <2>1, <2>2, JobGoesEffect
  <1>10. CASE RecordSent(k)
    BY <1>2, <1>10 DEF RecordSent, JobPlaces, ActiveAt
  <1>11. CASE Complete(k)
    BY <1>2, <1>11 DEF Complete, JobPlaces, ActiveAt
  <1>12. CASE ReportFailure(k) \/ ReportAborts(k)
    BY <1>2, <1>12 DEF ReportFailure, ReportAborts, JobPlaces, ActiveAt
  <1>13. CASE AttemptFails(k)
    BY <1>6, <1>13 DEF AttemptFails
  <1>14. ASSUME NEW p \in Processes, StartJob(k, p) PROVE PaidInv'
    <2>1. /\ job'[k] = [job[k] EXCEPT !.at = "guard", !.proc = p]
          /\ \A i \in JobIds \ {k} : job'[i] = job[i]
      BY <1>1, <1>14 DEF StartJob
    <2>2. /\ job'[k].at = "guard"
          /\ job'[k].attemptsMade = job[k].attemptsMade
          /\ job'[k].stalls = job[k].stalls
      BY <1>1, <2>1 DEF Job
    <2>3. QED
      BY <1>1, <1>14, <2>1, <2>2 DEF StartJob
  <1>15. QED
    BY <1>3, <1>4, <1>5, <1>7, <1>8, <1>9, <1>10, <1>11, <1>12, <1>13, <1>14
       DEF JobStep

(* A crash pays with a stall. *)
LEMMA CrashKeepsPaid ==
    ASSUME TypeOK, PaidInv, NEW p \in Processes, Crash(p)
    PROVE  PaidInv'
  <1> SUFFICES ASSUME NEW k \in JobIds PROVE PaidFor(k)'
    BY DEF PaidInv
  <1>1. /\ job'[k] = AfterCrash(job[k], p)
        /\ mailed'[k] = mailed[k]
        /\ PaidFor(k)
        /\ job[k] \in Job /\ mailed[k] \in Nat
    BY DEF Crash, PaidInv, TypeOK
  <1>2. CASE job'[k] = job[k]
    BY <1>1, <1>2 DEF PaidFor, Unpaid
  <1>3. CASE job'[k] = Stalled(job[k])
    <2>1. /\ job'[k].stalls = job[k].stalls + 1
          /\ job'[k].attemptsMade = job[k].attemptsMade
          /\ job'[k].at \in {"failed", "waiting"}
      BY <1>1, <1>3 DEF Stalled, Job
    <2>2. QED
      BY <1>1, <2>1 DEF PaidFor, Unpaid, Job
  <1>4. CASE job[k].at = "report" /\ job'[k] = [job[k] EXCEPT !.at = "failed"]
    <2>1. /\ job'[k].stalls = job[k].stalls
          /\ job'[k].attemptsMade = job[k].attemptsMade
          /\ job'[k].at = "failed"
      BY <1>1, <1>4 DEF Job
    <2>2. QED
      BY <1>1, <1>4, <2>1 DEF PaidFor, Unpaid, Job
  <1>5. QED
    BY <1>1, <1>2, <1>3, <1>4 DEF AfterCrash

LEMMA EnqueueKeepsPaid ==
    ASSUME TypeOK, PaidInv, NEW c \in Calls, EnqueueBatch(c)
    PROVE  PaidInv'
  <1> SUFFICES ASSUME NEW k \in JobIds PROVE PaidFor(k)'
    BY DEF PaidInv
  <1>1. mailed'[k] = mailed[k] /\ PaidFor(k)
    BY DEF EnqueueBatch, PaidInv
  <1>2. CASE job'[k] = job[k]
    BY <1>1, <1>2 DEF PaidFor, Unpaid
  <1>3. CASE job[k].at = "absent" /\ job'[k] = NewJob(c)
    <2>1. /\ job'[k].attemptsMade = 0
          /\ job'[k].stalls = 0
          /\ job'[k].at = "waiting"
      BY <1>3 DEF NewJob, NoJob
    <2>2. QED
      BY <1>1, <1>3, <2>1 DEF PaidFor, Unpaid
  <1>4. QED
    BY <1>2, <1>3 DEF EnqueueBatch

(* A job mails at most once more than it failed or stalled: without a       *)
(* failed attempt and without a dead worker, once.                          *)
THEOREM RepeatsPaid == Spec => []RepeatsArePaidFor
  <1>1. Init => PaidInv
    BY DEF Init, PaidInv, PaidFor, Unpaid, NoJob
  <1>2. TypeOK /\ PaidInv /\ [Next]_vars => PaidInv'
    <2>1. ASSUME PaidInv, UNCHANGED <<job, mailed>> PROVE PaidInv'
      BY <2>1 DEF PaidInv, PaidFor, Unpaid
    <2>2. QED
      BY <2>1, StepKinds, JobKeepsPaid, CrashKeepsPaid, EnqueueKeepsPaid
         DEF vars
  <1>3. TypeOK /\ PaidInv => RepeatsArePaidFor
    BY DEF TypeOK, PaidInv, PaidFor, Unpaid, Job, RepeatsArePaidFor
  <1>4. QED
    BY <1>1, <1>2, <1>3, TypeCorrect, PTL DEF Spec

-----------------------------------------------------------------------------
(* SentMeansMailed.  "sent" is written by a listener of email.sent and by   *)
(* RecordSent, and both come after Gmail accepted the message.              *)

MailKnown(k) ==
    /\ job[k].at = "record" => mailed[k] > 0
    /\ handler[k].event = "sent" => mailed[k] > 0

MailInv == SentMeansMailed /\ \A k \in JobIds : MailKnown(k)

(* What a step may do: it unsends nothing, and whatever it marks as sent    *)
(* belongs to a recipient whose message is out.                             *)
HonestStep ==
    /\ \A k \in JobIds : mailed[k] > 0 => mailed'[k] > 0
    /\ \A r \in Recipients :
         recipient'[r] = "sent" => recipient[r] = "sent" \/ MailedTo(r)
    /\ \A g \in LogIds : logs'[g] = "sent" => logs[g] = "sent" \/ MailedTo(g[2])
    /\ \A k \in JobIds :
         job'[k].at = "record" => job[k].at = "record" \/ mailed'[k] > 0
    /\ \A k \in JobIds :
         handler'[k].event = "sent" => handler[k].event = "sent" \/ mailed[k] > 0

LEMMA HonestStepKeeps ==
    ASSUME MailInv, HonestStep PROVE MailInv'
  <1>1. \A r : MailedTo(r) => MailedTo(r)'
    BY DEF HonestStep, MailedTo, JobsFor
  <1>2. \A g \in LogIds : g[2] \in Recipients
    BY DEF LogIds
  <1>3. SentMeansMailed'
    BY <1>1, <1>2 DEF MailInv, HonestStep, SentMeansMailed
  <1>4. \A k \in JobIds : MailKnown(k)'
    BY DEF MailInv, HonestStep, MailKnown
  <1>5. QED
    BY <1>3, <1>4 DEF MailInv

LEMMA UserIsHonest == UserStep => HonestStep
  <1> USE DEF HonestStep
  <1>1. ASSUME NEW c \in Calls, SendRead(c) \/ ResumeRead(c) PROVE HonestStep
    BY <1>1 DEF SendRead, ResumeRead
  <1>2. ASSUME NEW r \in Recipients, AddRecipient(r) PROVE HonestStep
    <2>1. \A q \in Recipients : recipient'[q] = "sent" => recipient[q] = "sent"
      BY <1>2 DEF AddRecipient
    <2>2. QED
      BY <1>2, <2>1 DEF AddRecipient
  <1>3. ASSUME NEW r \in MayUnsubscribe, Unsubscribe(r) PROVE HonestStep
    BY <1>3 DEF Unsubscribe
  <1>4. ASSUME NEW s \in PatchStatuses, PatchStatus(s) PROVE HonestStep
    BY <1>4 DEF PatchStatus
  <1>5. CASE Remove
    BY <1>5 DEF Remove
  <1>6. CASE Reconnect
    BY <1>6 DEF Reconnect
  <1>7. QED
    BY <1>1, <1>2, <1>3, <1>4, <1>5, <1>6 DEF UserStep

LEMMA CallIsHonest ==
    ASSUME NEW c \in Calls, CallStep(c) PROVE HonestStep
  <1> USE DEF HonestStep
  <1>1. CASE FilterUnsubscribed(c) \/ CheckDailyLimit(c)
    BY <1>1 DEF FilterUnsubscribed, CheckDailyLimit
  <1>2. CASE FinishResume(c) \/ UpdateStatus(c)
    BY <1>2 DEF FinishResume, UpdateStatus
  <1>3. CASE SaveLogs(c)
    <2>1. \A g \in LogIds : logs'[g] = "sent" => logs[g] = "sent"
      BY <1>3 DEF SaveLogs
    <2>2. QED
      BY <1>3, <2>1 DEF SaveLogs
  <1>4. CASE EnqueueBatch(c)
    <2>1. \A k \in JobIds : job'[k].at = "record" => job[k].at = "record"
      BY <1>4 DEF EnqueueBatch, NewJob, NoJob
    <2>2. QED
      BY <1>4, <2>1 DEF EnqueueBatch
  <1>5. QED
    BY <1>1, <1>2, <1>3, <1>4 DEF CallStep

LEMMA JobIsHonest ==
    ASSUME TypeOK, MailInv, NEW k \in JobIds,
           \/ JobStep(k)
           \/ AttemptFails(k)
           \/ ReportAborts(k)
           \/ \E p \in Processes : StartJob(k, p)
    PROVE  HonestStep
  <1> USE DEF HonestStep
  <1>1. /\ job \in [JobIds -> Job]
        /\ handler \in [JobIds -> Handler]
        /\ mailed \in [JobIds -> Nat]
        /\ logs \in [LogIds -> LogStatus \cup {"absent"}]
        /\ k[2] \in Recipients
    BY DEF TypeOK, JobIds
  <1>2. ASSUME NEW place \in JobPlaces \ {"record"}, JobGoes(k, place)
        PROVE  \A i \in JobIds : job'[i].at = "record" => job[i].at = "record"
    BY <1>2, JobGoesEffect
  <1>3. ASSUME NEW j, j.at # "record", job' = [job EXCEPT ![k] = j]
        PROVE  \A i \in JobIds : job'[i].at = "record" => job[i].at = "record"
    BY <1>1, <1>3
  <1>4. ASSUME NEW status, status # "sent", WriteLog(LogOf(k), status)
        PROVE  \A g \in LogIds : logs'[g] = "sent" => logs[g] = "sent"
    BY <1>1, <1>4 DEF WriteLog
  <1>5. Retry(job[k]).at # "record" /\ GiveUp(job[k]).at # "record"
    BY <1>1 DEF Retry, GiveUp, Job
  <1>6. CASE ReadGuard(k)
    <2>1. PICK place \in {"completed", "mark"} : JobGoes(k, place)
      BY <1>6 DEF ReadGuard
    <2>2. QED
      BY <1>2, <1>6, <2>1 DEF ReadGuard, JobPlaces, ActiveAt
  <1>7. CASE MarkSending(k)
    BY <1>2, <1>4, <1>7 DEF MarkSending, JobPlaces, ActiveAt
  <1>8. CASE GetToken(k)
    BY <1>2, <1>8 DEF GetToken, JobPlaces, ActiveAt
  <1>9. CASE TokenRefused(k)
    BY <1>2, <1>3, <1>5, <1>9 DEF TokenRefused, JobPlaces, ActiveAt
  <1>10. CASE PendLogs(k)
    <2>1. \A g \in LogIds : logs'[g] = "sent" => logs[g] = "sent"
      BY <1>10 DEF PendLogs
    <2>2. QED
      BY <1>3, <1>5, <1>10, <2>1 DEF PendLogs
  <1>11. CASE SendMail(k)
    <2>1. /\ mailed'[k] > 0
          /\ \A i \in JobIds \ {k} : mailed'[i] = mailed[i]
      BY <1>1, <1>11 DEF SendMail
    <2>2. \A i \in JobIds \ {k} : job'[i] = job[i]
      BY <1>11, JobGoesEffect DEF SendMail
    <2>3. QED
      BY <1>11, <2>1, <2>2 DEF SendMail
  <1>12. CASE RecordSent(k)
    <2>1. mailed[k] > 0
      BY <1>12 DEF RecordSent, MailInv, MailKnown
    <2>2. MailedTo(k[2])
      BY <2>1 DEF MailedTo, JobsFor
    <2>3. \A g \in LogIds : logs'[g] = "sent" => logs[g] = "sent" \/ MailedTo(g[2])
      BY <1>1, <1>12, <2>2 DEF RecordSent, WriteLog, LogOf
    <2>4. \A i \in JobIds \ {k} : handler'[i] = handler[i]
      BY <1>1, <1>12 DEF RecordSent
    <2>5. QED
      BY <1>2, <1>12, <2>1, <2>3, <2>4 DEF RecordSent, JobPlaces, ActiveAt
  <1>13. CASE Complete(k)
    BY <1>2, <1>13 DEF Complete, JobPlaces, ActiveAt
  <1>14. CASE ReportFailure(k)
    <2>1. /\ handler'[k].event = "failed"
          /\ \A i \in JobIds \ {k} : handler'[i] = handler[i]
      BY <1>1, <1>14 DEF ReportFailure
    <2>2. QED
      BY <1>2, <1>4, <1>14, <2>1 DEF ReportFailure, JobPlaces, ActiveAt
  <1>15. CASE ReportAborts(k)
    BY <1>2, <1>15 DEF ReportAborts, JobPlaces, ActiveAt
  <1>16. CASE AttemptFails(k)
    BY <1>3, <1>5, <1>16 DEF AttemptFails
  <1>17. ASSUME NEW p \in Processes, StartJob(k, p) PROVE HonestStep
    <2>1. /\ job'[k] = [job[k] EXCEPT !.at = "guard", !.proc = p]
          /\ \A i \in JobIds \ {k} : job'[i] = job[i]
      BY <1>1, <1>17 DEF StartJob
    <2>2. job'[k].at = "guard"
      BY <1>1, <2>1 DEF Job
    <2>3. QED
      BY <1>17, <2>1, <2>2 DEF StartJob
  <1>18. QED
    BY <1>6, <1>7, <1>8, <1>9, <1>10, <1>11, <1>12, <1>13, <1>14, <1>15, <1>16,
       <1>17 DEF JobStep

LEMMA EventIsHonest ==
    ASSUME TypeOK, MailInv, NEW k \in JobIds,
           EventStep(k) \/ EventFails(k) \/ PauseFails(k)
    PROVE  HonestStep
  <1> USE DEF HonestStep
  <1>1. handler \in [JobIds -> Handler] /\ k[2] \in Recipients
    BY DEF TypeOK, JobIds
  <1>2. ASSUME NEW place, EventGoes(k, place)
        PROVE  \A i \in JobIds : handler'[i].event = handler[i].event
    BY <1>1, <1>2 DEF EventGoes, Handler
  <1>3. CASE UpdateRecipient(k)
    <2>1. handler[k].event = "sent" => MailedTo(k[2])
      BY DEF MailInv, MailKnown, MailedTo, JobsFor
    <2>2. \A r \in Recipients :
            recipient'[r] = "sent" => recipient[r] = "sent" \/ MailedTo(r)
      BY <1>1, <1>3, <2>1
         DEF UpdateRecipient, WriteRecipient, StatusFor, TypeOK
    <2>3. QED
      BY <1>2, <1>3, <2>2 DEF UpdateRecipient
  <1>4. CASE CountEvent(k)
    BY <1>2, <1>4 DEF CountEvent
  <1>5. CASE Unschedule(k)
    BY <1>2, <1>5 DEF Unschedule
  <1>6. CASE CheckDone(k)
    <2>1. /\ \A i \in JobIds \ {k} : handler'[i] = handler[i]
          /\ handler'[k].event = handler[k].event
      BY <1>1, <1>6 DEF CheckDone, EventEnds, EventGoes, Handler
    <2>2. QED
      BY <1>6, <2>1 DEF CheckDone
  <1>7. CASE MarkDone(k) \/ Notify(k) \/ EventFails(k)
    BY <1>2, <1>7 DEF MarkDone, Notify, EventFails, EventEnds
  <1>8. CASE PauseCampaign(k) \/ PauseFails(k)
    BY <1>8 DEF PauseCampaign, PauseFails
  <1>9. QED
    BY <1>3, <1>4, <1>5, <1>6, <1>7, <1>8 DEF EventStep

LEMMA CrashIsHonest ==
    ASSUME TypeOK, NEW p \in Processes, Crash(p) PROVE HonestStep
  <1>1. \A k \in JobIds : job'[k].at = "record" => job[k].at = "record"
    <2> SUFFICES ASSUME NEW k \in JobIds, job'[k].at = "record"
                 PROVE  job[k].at = "record"
      OBVIOUS
    <2>1. job'[k] = AfterCrash(job[k], p) /\ job[k] \in Job
      BY DEF Crash, TypeOK
    <2>2. Stalled(job[k]).at \in {"failed", "waiting"}
      BY <2>1 DEF Stalled, Job
    <2>3. [job[k] EXCEPT !.at = "failed"].at = "failed"
      BY <2>1 DEF Job
    <2>4. QED
      BY <2>1, <2>2, <2>3 DEF AfterCrash
  <1>2. \A k \in JobIds :
          handler'[k].event = "sent" => handler[k].event = "sent"
    BY DEF Crash, NoHandler
  <1>3. QED
    BY <1>1, <1>2 DEF Crash, HonestStep

LEMMA MailInvariant == Spec => []MailInv
  <1>1. Init => MailInv
    BY DEF Init, MailInv, SentMeansMailed, MailKnown, NoJob, NoHandler
  <1>2. TypeOK /\ MailInv /\ [Next]_vars => MailInv'
    <2> SUFFICES ASSUME TypeOK, MailInv, [Next]_vars PROVE HonestStep
      BY HonestStepKeeps
    <2>1. CASE UserStep
      BY <2>1, UserIsHonest
    <2>2. CASE WorkStep
      <3>1. ASSUME NEW r \in Recipients, CountRecipient(r) PROVE HonestStep
        BY <3>1 DEF CountRecipient, HonestStep
      <3>2. QED
        BY <2>2, <3>1, CallIsHonest, JobIsHonest, EventIsHonest DEF WorkStep
    <2>3. CASE FaultStep
      <3>1. ASSUME NEW c \in Calls, CallAborts(c) PROVE HonestStep
        BY <3>1 DEF CallAborts, HonestStep
      <3>2. ASSUME NEW r \in Recipients, AddAborts(r) PROVE HonestStep
        BY <3>2 DEF AddAborts, HonestStep
      <3>3. CASE TokenExpires
        BY <3>3 DEF TokenExpires, HonestStep
      <3>4. QED
        BY <2>3, <3>1, <3>2, <3>3, JobIsHonest, EventIsHonest, CrashIsHonest
           DEF FaultStep
    <2>4. CASE UNCHANGED vars
      BY <2>4 DEF vars, HonestStep
    <2>5. QED
      BY <2>1, <2>2, <2>3, <2>4 DEF Next
  <1>3. QED
    BY <1>1, <1>2, TypeCorrect, PTL DEF Spec

(* A recipient or a log row marked sent stands for a message that is out. *)
THEOREM SentIsMailed == Spec => []SentMeansMailed
  <1>1. MailInv => SentMeansMailed
    BY DEF MailInv
  <1>2. QED
    BY <1>1, MailInvariant, PTL
=============================================================================
