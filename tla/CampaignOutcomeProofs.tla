------------------------ MODULE CampaignOutcomeProofs ------------------------
(***************************************************************************)
(* What delivery promises a recipient: the refinement of EmailOutcome,     *)
(* that an opt-out is for good, and that a pause parks what still waits.   *)
(***************************************************************************)
EXTENDS CampaignMailProofs

(* What a step does to the rows: it adds one, deletes them all, or settles  *)
(* one as a listener's event says.                                          *)
RowsStep ==
    \/ UNCHANGED recipient
    \/ \E r \in Recipients : AddRecipient(r)
    \/ Remove
    \/ \E k \in JobIds : UpdateRecipient(k)

LEMMA RowSteps == Next => RowsStep
  <1> SUFFICES ASSUME Next PROVE RowsStep
    OBVIOUS
  <1> USE DEF RowsStep
  <1>1. CASE UserStep
    BY <1>1 DEF UserStep, SendRead, ResumeRead, Unsubscribe, PatchStatus, Reconnect
  <1>2. ASSUME NEW c \in Calls, CallStep(c) \/ CallAborts(c) PROVE RowsStep
    BY <1>2 DEF CallStep, FilterUnsubscribed, FinishResume, CheckDailyLimit,
                SaveLogs, EnqueueBatch, UpdateStatus, CallAborts
  <1>3. ASSUME NEW r \in Recipients, CountRecipient(r) \/ AddAborts(r)
        PROVE  RowsStep
    BY <1>3 DEF CountRecipient, AddAborts
  <1>4. ASSUME NEW k \in JobIds, EventStep(k) \/ EventFails(k) \/ PauseFails(k)
        PROVE  RowsStep
    BY <1>4 DEF EventStep, CountEvent, Unschedule, CheckDone, MarkDone, Notify,
                PauseCampaign, EventFails, PauseFails
  <1>5. ASSUME NEW k \in JobIds, JobStep(k) \/ AttemptFails(k) \/ ReportAborts(k)
        PROVE  RowsStep
    BY <1>5 DEF JobStep, ReadGuard, MarkSending, GetToken, TokenRefused, PendLogs,
                SendMail, RecordSent, Complete, ReportFailure, AttemptFails,
                ReportAborts
  <1>6. ASSUME NEW k \in JobIds, NEW p \in Processes, StartJob(k, p)
        PROVE  RowsStep
    BY <1>6 DEF StartJob
  <1>7. ASSUME NEW p \in Processes, Crash(p) PROVE RowsStep
    BY <1>7 DEF Crash
  <1>8. CASE TokenExpires
    BY <1>8 DEF TokenExpires
  <1>9. QED
    BY <1>1, <1>2, <1>3, <1>4, <1>5, <1>6, <1>7, <1>8
       DEF Next, WorkStep, FaultStep

(* What a step does to the mailboxes: at most one more message.             *)
Mailed == {r \in Recipients : MailedTo(r)}

LEMMA MailSteps ==
    ASSUME TypeOK, Next
    PROVE  UNCHANGED mailed \/ \E k \in JobIds : SendMail(k)
  <1>1. ASSUME NEW k \in JobIds, JobStep(k) \/ AttemptFails(k) \/ ReportAborts(k)
        PROVE  UNCHANGED mailed \/ SendMail(k)
    BY <1>1 DEF JobStep, ReadGuard, MarkSending, GetToken, TokenRefused, PendLogs,
                RecordSent, Complete, ReportFailure, AttemptFails, ReportAborts
  <1>2. ASSUME NEW k \in JobIds, NEW p \in Processes, StartJob(k, p)
        PROVE  UNCHANGED mailed
    BY <1>2 DEF StartJob
  <1>3. ASSUME NEW c \in Calls, EnqueueBatch(c) PROVE UNCHANGED mailed
    BY <1>3 DEF EnqueueBatch
  <1>4. ASSUME NEW p \in Processes, Crash(p) PROVE UNCHANGED mailed
    BY <1>4 DEF Crash
  <1>5. QED
    BY <1>1, <1>2, <1>3, <1>4, StepKinds

LEMMA SameMail ==
    ASSUME UNCHANGED mailed PROVE UNCHANGED Mailed
  BY DEF Mailed, MailedTo, JobsFor

LEMMA SendMailDelivers ==
    ASSUME TypeOK, NEW k \in JobIds, SendMail(k)
    PROVE  Outcome!Deliver(k[2])
  <1>1. /\ mailed'[k] = mailed[k] + 1
        /\ \A i \in JobIds \ {k} : mailed'[i] = mailed[i]
        /\ mailed[k] \in Nat
        /\ UNCHANGED recipient
    BY DEF SendMail, TypeOK
  <1>2. k[2] \in Recipients
    BY DEF JobIds
  <1>3. ASSUME NEW r \in Recipients
        PROVE  MailedTo(r)' <=> MailedTo(r) \/ r = k[2]
    BY <1>1 DEF MailedTo, JobsFor
  <1>4. Mailed' = Mailed \cup {k[2]}
    BY <1>2, <1>3 DEF Mailed
  <1>5. QED
    BY <1>1, <1>4 DEF Outcome!Deliver, Mailed

(* A listener settles a row, and says "sent" only of an email that is out.  *)
LEMMA UpdateSettles ==
    ASSUME TypeOK, MailInv, NEW k \in JobIds, UpdateRecipient(k)
    PROVE  \/ UNCHANGED <<recipient, mailed>>
           \/ \E end \in {"sent", "failed"} : Outcome!Settle(k[2], end)
  <1>1. UNCHANGED mailed /\ k[2] \in Recipients
    BY DEF UpdateRecipient, JobIds
  <1>2. CASE recipient[k[2]] = "absent"
    BY <1>1, <1>2 DEF UpdateRecipient, WriteRecipient
  <1>3. CASE recipient[k[2]] # "absent"
    <2> DEFINE end == StatusFor(handler[k].event)
    <2>1. end \in {"sent", "failed"}
      BY DEF StatusFor
    <2>2. end = "sent" => k[2] \in Mailed
      BY <1>1 DEF StatusFor, MailInv, MailKnown, Mailed, MailedTo, JobsFor
    <2>3. recipient' = [recipient EXCEPT ![k[2]] = end]
      BY <1>3 DEF UpdateRecipient, WriteRecipient
    <2>4. Outcome!Settle(k[2], end)
      BY <1>1, <1>3, <2>2, <2>3, SameMail DEF Outcome!Settle, Mailed
    <2>5. QED
      BY <2>1, <2>4
  <1>4. QED
    BY <1>2, <1>3

(* Every step of delivery is a step of EmailOutcome or changes nothing of it. *)
LEMMA StepImplements ==
    ASSUME TypeOK, MailInv, [Next]_vars
    PROVE  [Outcome!Next]_(Outcome!outcomeVars)
  <1>1. ASSUME UNCHANGED <<recipient, mailed>> PROVE UNCHANGED Outcome!outcomeVars
    BY <1>1, SameMail DEF Outcome!outcomeVars, Mailed
  <1>2. ASSUME NEW k \in JobIds, SendMail(k) PROVE Outcome!Next
    BY <1>2, SendMailDelivers DEF Outcome!Next, JobIds
  <1>3. ASSUME NEW r \in Recipients, AddRecipient(r) PROVE Outcome!Next
    <2>1. Outcome!Add(r)
      BY <1>3, SameMail DEF AddRecipient, Outcome!Add, Mailed
    <2>2. QED
      BY <2>1 DEF Outcome!Next
  <1>4. CASE Remove
    BY <1>4, SameMail DEF Remove, Outcome!DeleteAll, Outcome!Next, Mailed
  <1>5. ASSUME NEW k \in JobIds, UpdateRecipient(k)
        PROVE  Outcome!Next \/ UNCHANGED Outcome!outcomeVars
    BY <1>1, <1>5, UpdateSettles DEF Outcome!Next, JobIds
  <1>6. CASE UNCHANGED vars
    BY <1>1, <1>6 DEF vars
  <1>7. CASE Next
    BY <1>1, <1>2, <1>3, <1>4, <1>5, <1>7, RowSteps, MailSteps DEF RowsStep
  <1>8. QED
    BY <1>6, <1>7

(* Delivery implements EmailOutcome, for any recipients, processes, bounds  *)
(* and faults.                                                              *)
THEOREM DeliveryImplementsOutcome == Spec => EmailsSettle
  <1>1. Init => Outcome!Init
    BY DEF Init, Outcome!Init, MailedTo, JobsFor
  <1>2. TypeOK /\ MailInv /\ [Next]_vars => [Outcome!Next]_(Outcome!outcomeVars)
    BY StepImplements
  <1>3. QED
    BY <1>1, <1>2, TypeCorrect, MailInvariant, PTL
       DEF Spec, EmailsSettle, Outcome!Spec

-----------------------------------------------------------------------------
(* OptOutHolds.  Three things keep a recipient out of reach: opt-outs stay, *)
(* only EnqueueBatch puts a job in the queue, and a call's choice only      *)
(* shrinks after its filter.                                                *)

LEMMA OptOutsStay == Next => unsubscribed \subseteq unsubscribed'
  <1> SUFFICES ASSUME Next PROVE unsubscribed \subseteq unsubscribed'
    OBVIOUS
  <1>1. CASE UserStep
    BY <1>1 DEF UserStep, SendRead, ResumeRead, AddRecipient, Unsubscribe,
                PatchStatus, Remove, Reconnect
  <1>2. CASE WorkStep
    BY <1>2 DEF WorkStep, CallStep, FilterUnsubscribed, FinishResume,
                CheckDailyLimit, SaveLogs, EnqueueBatch, UpdateStatus,
                CountRecipient, JobStep, ReadGuard, MarkSending, GetToken,
                TokenRefused, PendLogs, SendMail, RecordSent, Complete,
                ReportFailure, EventStep, UpdateRecipient, CountEvent, Unschedule,
                CheckDone, MarkDone, Notify, PauseCampaign, StartJob
  <1>3. CASE FaultStep
    BY <1>3 DEF FaultStep, CallAborts, AddAborts, AttemptFails, ReportAborts,
                EventFails, PauseFails, Crash, TokenExpires
  <1>4. QED
    BY <1>1, <1>2, <1>3 DEF Next

LEMMA CallSteps ==
    ASSUME Next
    PROVE  \/ UNCHANGED call
           \/ \E c \in Calls : SendRead(c) \/ ResumeRead(c) \/ CallStep(c) \/ CallAborts(c)
  <1>1. CASE UserStep
    BY <1>1 DEF UserStep, AddRecipient, Unsubscribe, PatchStatus, Remove, Reconnect
  <1>2. CASE WorkStep
    BY <1>2 DEF WorkStep, CountRecipient, JobStep, ReadGuard, MarkSending, GetToken,
                TokenRefused, PendLogs, SendMail, RecordSent, Complete,
                ReportFailure, EventStep, UpdateRecipient, CountEvent, Unschedule,
                CheckDone, MarkDone, Notify, PauseCampaign, StartJob
  <1>3. CASE FaultStep
    BY <1>3 DEF FaultStep, AddAborts, AttemptFails, ReportAborts, EventFails,
                PauseFails, Crash, TokenExpires
  <1>4. QED
    BY <1>1, <1>2, <1>3 DEF Next

LEMMA NothingAppears ==
    ASSUME TypeOK, Next, NEW k \in JobIds, job[k].at = "absent"
    PROVE  \/ job'[k].at = "absent"
           \/ \E c \in Calls : EnqueueBatch(c) /\ k \in JobsOf(c)
  <1>1. ASSUME NEW c \in Calls, EnqueueBatch(c), k \notin JobsOf(c)
        PROVE  job'[k] = job[k]
    BY <1>1 DEF EnqueueBatch
  <1>2. ASSUME NEW i \in JobIds,
               JobStep(i) \/ AttemptFails(i) \/ ReportAborts(i)
               \/ \E p \in Processes : StartJob(i, p)
        PROVE  job[i].at # "absent" /\ \A j \in JobIds \ {i} : job'[j] = job[j]
    <2>1. \A j \in JobIds \ {i} : job'[j] = job[j]
      BY <1>2 DEF JobStep, ReadGuard, MarkSending, GetToken, TokenRefused, PendLogs,
                  SendMail, RecordSent, Complete, ReportFailure, AttemptFails,
                  ReportAborts, StartJob, JobGoes, TypeOK
    <2>2. job[i].at # "absent"
      BY <1>2 DEF JobStep, ReadGuard, MarkSending, GetToken, TokenRefused, PendLogs,
                  SendMail, RecordSent, Complete, ReportFailure, AttemptFails,
                  ReportAborts, StartJob, ActiveAt
    <2>3. QED
      BY <2>1, <2>2
  <1>3. ASSUME NEW p \in Processes, Crash(p) PROVE job'[k] = job[k]
    BY <1>3 DEF Crash, AfterCrash, ActiveAt
  <1>4. QED
    BY <1>1, <1>2, <1>3, StepKinds

(* Call d does not reach r.                                                 *)
Clear(d, r) ==
    call[d].at \notin {"unused", "filter", "done"} /\ ~call[d].resume =>
      r \notin call[d].chosen

LEMMA ClearStays ==
    ASSUME TypeOK, NEW r \in unsubscribed, NEW c \in Calls, NEW d \in Calls, Clear(d, r),
           SendRead(c) \/ ResumeRead(c) \/ CallStep(c) \/ CallAborts(c)
    PROVE  Clear(d, r)'
  <1> USE DEF Clear
  <1>1. call \in [Calls -> Call] /\ call[c] \in Call
    BY DEF TypeOK
  <1>2. ASSUME NEW place, CallGoes(c, place),
               call[c].at \notin {"unused", "filter", "done"}
        PROVE  Clear(d, r)'
    BY <1>1, <1>2 DEF CallGoes, Call
  <1>3. ASSUME CallEnds(c) PROVE Clear(d, r)'
    BY <1>1, <1>3 DEF CallEnds, EndedCall, NoCall
  <1>4. ASSUME SendRead(c) PROVE Clear(d, r)'
    BY <1>1, <1>4 DEF SendRead
  <1>5. ASSUME ResumeRead(c) PROVE Clear(d, r)'
    BY <1>1, <1>5 DEF ResumeRead
  <1>6. ASSUME FilterUnsubscribed(c) PROVE Clear(d, r)'
    <2>1. \/ d # c /\ call'[d] = call[d]
          \/ d = c /\ call'[d].chosen = call[d].chosen \ unsubscribed
      BY <1>1, <1>6 DEF FilterUnsubscribed, Filtered, Call
    <2>2. QED
      BY <2>1
  <1>7. ASSUME CheckDailyLimit(c) \/ SaveLogs(c) \/ EnqueueBatch(c) PROVE Clear(d, r)'
    BY <1>2, <1>3, <1>7 DEF CheckDailyLimit, SaveLogs, EnqueueBatch
  <1>8. ASSUME FinishResume(c) \/ UpdateStatus(c) \/ CallAborts(c) PROVE Clear(d, r)'
    BY <1>3, <1>8 DEF FinishResume, UpdateStatus, CallAborts
  <1>9. QED
    BY <1>4, <1>5, <1>6, <1>7, <1>8 DEF CallStep

(* A recipient who opted out before any send had passed its filter is never *)
(* queued by a send, for any number of sends, workers and faults.           *)
THEOREM OptOutsHold == Spec => OptOutHolds
  <1>1. ASSUME TypeOK, [Next]_vars, NEW r \in Recipients, OutOfReach(r)
        PROVE  OutOfReach(r)'
    <2>1. CASE UNCHANGED vars
      BY <1>1, <2>1 DEF vars, OutOfReach
    <2>2. CASE Next
      <3>1. /\ r \in unsubscribed /\ <<0, r>> \in JobIds
            /\ \A d \in Calls : Clear(d, r)
        BY <1>1, BoundsAssumption DEF OutOfReach, Clear, JobIds
      <3>2. \A c \in Calls : ~(EnqueueBatch(c) /\ <<0, r>> \in JobsOf(c))
        <4> SUFFICES ASSUME NEW c \in Calls, EnqueueBatch(c), <<0, r>> \in JobsOf(c)
                     PROVE  FALSE
          OBVIOUS
        <4>1. PICK q \in call[c].chosen : <<0, r>> = JobId(c, q)
          BY DEF JobsOf
        <4>2. ~call[c].resume /\ q = r
          BY <4>1 DEF JobId, Calls
        <4>3. QED
          BY <3>1, <4>1, <4>2 DEF EnqueueBatch, Clear
      <3>3. job'[<<0, r>>].at = "absent"
        BY <1>1, <2>2, <3>1, <3>2, NothingAppears DEF OutOfReach
      <3>4. \A d \in Calls : Clear(d, r)'
        <4> TAKE d \in Calls
        <4>1. CASE UNCHANGED call
          BY <3>1, <4>1 DEF Clear
        <4>2. QED
          BY <1>1, <2>2, <3>1, <4>1, CallSteps, ClearStays
      <3>5. QED
        BY <2>2, <3>1, <3>3, <3>4, OptOutsStay DEF OutOfReach, Clear
    <2>3. QED
      BY <1>1, <2>1, <2>2
  <1>2. TypeOK /\ [Next]_vars => [\A r \in Recipients : OutOfReach(r) => OutOfReach(r)']_vars
    BY <1>1
  <1>3. QED
    BY <1>2, TypeCorrect, PTL DEF Spec, OptOutHolds

-----------------------------------------------------------------------------
(* PauseParksTheRest.  One send, not scheduled, in processes that all have a *)
(* socket server; no attempt is thrown and no process dies, so a job that    *)
(* left "waiting" never comes back to it.                                    *)
OneQuietSend ==
    /\ MaxCalls = 1
    /\ Schedules \subseteq {FALSE}
    /\ SocketProcesses = Processes
    /\ Faults \cap {"attempt", "crash"} = {}
    /\ "paused" \notin PatchStatuses

BeforeQueue(c) == call[c].at \in {"unused", "filter", "limit", "save", "enqueue"}

(* A job found the token dead: its logs are pended, the pause comes or came. *)
Asked == pausing # {} \/ campaign.status = "paused"

FirstSend(c) ==
    /\ ~call[c].resume /\ ~call[c].scheduled
    /\ BeforeQueue(c) => ~Asked /\ \A k \in JobIds : job[k].at = "absent"
    /\ call[c].at = "enqueue" /\ Exists =>
         \A r \in call[c].chosen : logs[<<c, r>>] = "sending"

Parked(k) ==
    /\ job[k].at # "absent" => k[1] = 0
    /\ job[k].at \in ActiveAt => job[k].proc \in Processes
    /\ job[k].at = "waiting" /\ Exists =>
         \/ logs[LogOf(k)] = "pending"
         \/ logs[LogOf(k)] = "sending" /\ ~Asked

ParkInv ==
    /\ \A c \in Calls : FirstSend(c)
    /\ \A k \in JobIds : Parked(k)

(* What leaves the calls, the jobs and the logs alone and asks for no pause. *)
LEMMA CalmKeepsParked ==
    ASSUME ParkInv, UNCHANGED <<call, job>>, Asked' => Asked,
           Exists' => Exists /\ logs' = logs
    PROVE  ParkInv'
  <1>1. ASSUME NEW c \in Calls PROVE FirstSend(c)'
    BY DEF ParkInv, FirstSend, BeforeQueue
  <1>2. ASSUME NEW k \in JobIds PROVE Parked(k)'
    BY DEF ParkInv, Parked, LogOf
  <1>3. QED
    BY <1>1, <1>2 DEF ParkInv

LEMMA StatusAsksNothing ==
    ASSUME TypeOK, NEW s, s # "paused", s # "deleted", WriteStatus(s)
    PROVE  (Exists' => Exists) /\ (campaign'.status = "paused" => campaign.status = "paused")
  BY DEF TypeOK, WriteStatus, Exists, CampaignRow

LEMMA UserKeepsParked ==
    ASSUME OneQuietSend, TypeOK, ParkInv, UserStep PROVE ParkInv'
  <1>1. ASSUME NEW c \in Calls, SendRead(c) PROVE ParkInv'
    <2>1. PICK s \in Schedules :
            call' = [call EXCEPT ![c] = [at |-> "filter", resume |-> FALSE,
                                         scheduled |-> s, chosen |-> Present]]
      BY <1>1 DEF SendRead
    <2>2. /\ UNCHANGED <<campaign, logs, job, pausing>>
          /\ BeforeQueue(c)
      BY <1>1 DEF SendRead, Fresh, BeforeQueue
    <2>3. ASSUME NEW d \in Calls PROVE FirstSend(d)'
      <3>1. CASE d = c
        <4>1. call'[d].at = "filter" /\ ~call'[d].resume /\ call'[d].scheduled = s
          BY <2>1, <3>1 DEF TypeOK
        <4>2. QED
          BY <2>2, <3>1, <4>1 DEF ParkInv, FirstSend, Asked, OneQuietSend
      <3>2. CASE d # c
        <4>1. call'[d] = call[d]
          BY <2>1, <3>2 DEF TypeOK
        <4>2. QED
          BY <2>2, <4>1 DEF ParkInv, FirstSend, BeforeQueue, Asked, Exists
      <3>3. QED
        BY <3>1, <3>2
    <2>4. ASSUME NEW k \in JobIds PROVE Parked(k)'
      BY <2>2 DEF ParkInv, Parked, LogOf, Asked, Exists
    <2>5. QED
      BY <2>3, <2>4 DEF ParkInv
  <1>2. ASSUME NEW c \in Calls, ResumeRead(c) PROVE FALSE
    BY <1>2 DEF ResumeRead, Fresh, ParkInv, FirstSend, BeforeQueue, Asked
  <1>3. CASE \/ \E r \in Recipients : AddRecipient(r)
             \/ \E r \in MayUnsubscribe : Unsubscribe(r)
             \/ Reconnect
    <2>1. UNCHANGED <<campaign, logs, call, job, pausing>>
      BY <1>3 DEF AddRecipient, Unsubscribe, Reconnect
    <2>2. QED
      BY <2>1, CalmKeepsParked DEF Asked, Exists
  <1>4. ASSUME NEW s \in PatchStatuses, PatchStatus(s) PROVE ParkInv'
    <2>1. campaign'.status # "paused" /\ Exists
      BY <1>4 DEF PatchStatus, TypeOK, CampaignRow, OneQuietSend
    <2>2. QED
      BY <1>4, <2>1, CalmKeepsParked DEF PatchStatus, Asked
  <1>5. CASE Remove
    <2>1. campaign'.status = "deleted"
      BY <1>5 DEF Remove, TypeOK, CampaignRow
    <2>2. QED
      BY <1>5, <2>1, CalmKeepsParked DEF Remove, Asked, Exists
  <1>6. QED
    BY <1>1, <1>2, <1>3, <1>4, <1>5 DEF UserStep

(* A call that ends has nothing left to queue. *)
LEMMA EndedKeepsParked ==
    ASSUME TypeOK, ParkInv, NEW c \in Calls, CallEnds(c), UNCHANGED <<job, logs, pausing>>,
           Exists' => Exists, campaign'.status = "paused" => campaign.status = "paused"
    PROVE  ParkInv'
  <1>1. ASSUME NEW d \in Calls PROVE FirstSend(d)'
    <2>1. CASE d = c
      <3>1. call'[d].at = "done" /\ ~call'[d].resume /\ ~call'[d].scheduled
        BY <2>1 DEF CallEnds, EndedCall, NoCall, TypeOK
      <3>2. QED
        BY <3>1 DEF FirstSend, BeforeQueue
    <2>2. CASE d # c
      <3>1. call'[d] = call[d]
        BY <2>2 DEF CallEnds, TypeOK
      <3>2. QED
        BY <3>1 DEF ParkInv, FirstSend, BeforeQueue, Asked
    <2>3. QED
      BY <2>1, <2>2
  <1>2. ASSUME NEW k \in JobIds PROVE Parked(k)'
    BY DEF ParkInv, Parked, LogOf, Asked
  <1>3. QED
    BY <1>1, <1>2 DEF ParkInv

LEMMA CallKeepsParked ==
    ASSUME OneQuietSend, TypeOK, ParkInv, NEW c \in Calls, CallStep(c) \/ CallAborts(c)
    PROVE  ParkInv'
  <1>1. /\ call \in [Calls -> Call] /\ call[c] \in Call
        /\ \A d \in Calls : d = c
    BY DEF TypeOK, OneQuietSend, Calls
  <1>2. ASSUME NEW place, CallGoes(c, place)
        PROVE  /\ call'[c].at = place
               /\ call'[c].resume = call[c].resume
               /\ call'[c].scheduled = call[c].scheduled
               /\ call'[c].chosen = call[c].chosen
    BY <1>1, <1>2 DEF CallGoes, Call
  <1>3. CASE FilterUnsubscribed(c)
    <2>1. call'[c] = [call[c] EXCEPT !.at = "limit", !.chosen = Filtered(@)]
      BY <1>1, <1>3 DEF FilterUnsubscribed
    <2>2. call'[c].at = "limit" /\ ~call'[c].resume /\ ~call'[c].scheduled
      BY <1>1, <2>1 DEF Call, ParkInv, FirstSend
    <2>3. /\ UNCHANGED <<campaign, logs, job, pausing>>
          /\ BeforeQueue(c)
      BY <1>3 DEF FilterUnsubscribed, BeforeQueue
    <2>4. FirstSend(c)'
      BY <2>2, <2>3 DEF ParkInv, FirstSend, Asked
    <2>5. ASSUME NEW k \in JobIds PROVE Parked(k)'
      BY <2>3 DEF ParkInv, Parked, LogOf, Asked, Exists
    <2>6. QED
      BY <1>1, <2>4, <2>5 DEF ParkInv
  <1>4. CASE CheckDailyLimit(c)
    <2>1. /\ UNCHANGED <<campaign, logs, job, pausing>>
          /\ BeforeQueue(c)
      BY <1>4 DEF CheckDailyLimit, BeforeQueue
    <2>2. CASE CallEnds(c)
      BY <2>1, <2>2, EndedKeepsParked DEF Exists
    <2>3. CASE CallGoes(c, "save")
      <3>1. FirstSend(c)'
        BY <1>2, <2>1, <2>3 DEF ParkInv, FirstSend, Asked
      <3>2. ASSUME NEW k \in JobIds PROVE Parked(k)'
        BY <2>1 DEF ParkInv, Parked, LogOf, Asked, Exists
      <3>3. QED
        BY <1>1, <3>1, <3>2 DEF ParkInv
    <2>4. QED
      BY <1>4, <2>2, <2>3 DEF CheckDailyLimit
  <1>5. CASE SaveLogs(c)
    <2>1. /\ UNCHANGED <<campaign, job, pausing>>
          /\ BeforeQueue(c)
      BY <1>5 DEF SaveLogs, BeforeQueue
    <2>2. CASE CallEnds(c) /\ UNCHANGED logs
      BY <2>1, <2>2, EndedKeepsParked DEF Exists
    <2>3. CASE /\ logs' = [g \in LogIds |->
                     IF g \notin LogsOf(c) THEN logs[g]
                     ELSE IF call[c].scheduled THEN "scheduled" ELSE "sending"]
               /\ CallGoes(c, "enqueue")
      <3>1. ASSUME NEW r \in call[c].chosen PROVE logs'[<<c, r>>] = "sending"
        <4>1. <<c, r>> \in LogIds /\ <<c, r>> \in LogsOf(c)
          BY <1>1 DEF LogsOf, LogIds, Call
        <4>2. ~call[c].scheduled
          BY DEF ParkInv, FirstSend
        <4>3. QED
          BY <2>3, <4>1, <4>2
      <3>2. FirstSend(c)'
        BY <1>2, <2>1, <2>3, <3>1 DEF ParkInv, FirstSend, Asked
      <3>3. \A k \in JobIds : job'[k].at = "absent"
        BY <2>1 DEF ParkInv, FirstSend
      <3>4. QED
        BY <1>1, <3>2, <3>3 DEF ParkInv, Parked, ActiveAt
    <2>4. QED
      BY <1>5, <2>2, <2>3 DEF SaveLogs
  <1>6. CASE EnqueueBatch(c)
    <2>1. /\ UNCHANGED <<campaign, logs, pausing>>
          /\ BeforeQueue(c) /\ call[c].at = "enqueue" /\ CallGoes(c, "status")
      BY <1>6 DEF EnqueueBatch, BeforeQueue
    <2>2. FirstSend(c)'
      BY <1>2, <2>1 DEF ParkInv, FirstSend, BeforeQueue
    <2>3. ~Asked' /\ \A k \in JobIds : job[k].at = "absent"
      BY <2>1 DEF ParkInv, FirstSend, Asked
    <2>4. ASSUME NEW k \in JobIds PROVE Parked(k)'
      <3>1. CASE k \in JobsOf(c)
        <4>1. PICK r \in call[c].chosen : k = <<0, r>>
          BY <3>1 DEF JobsOf, JobId, ParkInv, FirstSend
        <4>2. job'[k] = NewJob(c)
          BY <1>6, <2>3, <3>1 DEF EnqueueBatch
        <4>3. job'[k].at = "waiting" /\ job'[k].call = c
          BY <4>2 DEF NewJob, NoJob
        <4>4. LogOf(k)' = <<c, r>>
          BY <4>1, <4>3 DEF LogOf
        <4>5. Exists' => logs'[<<c, r>>] = "sending"
          BY <2>1 DEF ParkInv, FirstSend, Exists
        <4>6. QED
          BY <2>3, <4>1, <4>3, <4>4, <4>5 DEF Parked, ActiveAt
      <3>2. CASE k \notin JobsOf(c)
        <4>1. job'[k].at = "absent"
          BY <1>6, <2>3, <3>2 DEF EnqueueBatch
        <4>2. QED
          BY <4>1 DEF Parked, ActiveAt
      <3>3. QED
        BY <3>1, <3>2
    <2>5. QED
      BY <1>1, <2>2, <2>4 DEF ParkInv
  <1>7. CASE FinishResume(c)
    BY <1>7, StatusAsksNothing, EndedKeepsParked DEF FinishResume
  <1>8. CASE UpdateStatus(c)
    <2>1. WriteStatus("sending")
      BY <1>8 DEF UpdateStatus, ParkInv, FirstSend
    <2>2. QED
      BY <1>8, <2>1, StatusAsksNothing, EndedKeepsParked DEF UpdateStatus
  <1>9. CASE CallAborts(c)
    BY <1>9, EndedKeepsParked DEF CallAborts, Exists
  <1>10. QED
    BY <1>3, <1>4, <1>5, <1>6, <1>7, <1>8, <1>9 DEF CallStep

(* A job that runs does so in a process that is there.                       *)
LEMMA RunsInAProcess ==
    ASSUME OneQuietSend, TypeOK, NEW k \in JobIds, Parked(k),
           \/ JobStep(k)
           \/ ReportAborts(k)
           \/ \E p \in Processes : StartJob(k, p)
    PROVE  /\ job'[k].at # "waiting"
           /\ job'[k].at \in ActiveAt => job'[k].proc \in Processes
  <1>1. job \in [JobIds -> Job] /\ job[k] \in Job
    BY DEF TypeOK
  <1>2. ASSUME NEW place, JobGoes(k, place)
        PROVE  job'[k].at = place /\ job'[k].proc = job[k].proc
    BY <1>1, <1>2 DEF JobGoes, Job
  <1>3. CASE ReadGuard(k)
    BY <1>2, <1>3 DEF ReadGuard, ActiveAt, Parked
  <1>4. CASE MarkSending(k) \/ GetToken(k) \/ SendMail(k) \/ RecordSent(k) \/ Complete(k)
    BY <1>2, <1>4 DEF MarkSending, GetToken, SendMail, RecordSent, Complete, ActiveAt,
       Parked
  <1>5. CASE TokenRefused(k)
    <2>1. job[k].at = "token" /\ job[k].proc \in SocketProcesses
      BY <1>5 DEF TokenRefused, Parked, ActiveAt, OneQuietSend
    <2>2. JobGoes(k, "pend")
      BY <1>5, <2>1 DEF TokenRefused
    <2>3. QED
      BY <1>2, <2>1, <2>2 DEF OneQuietSend
  <1>6. CASE PendLogs(k)
    <2>1. GiveUp(job[k]).at \in {"report", "failed"}
      BY <1>1 DEF GiveUp, Job
    <2>2. QED
      BY <1>1, <1>6, <2>1 DEF PendLogs, ActiveAt
  <1>7. CASE ReportFailure(k) \/ ReportAborts(k)
    BY <1>2, <1>7 DEF ReportFailure, ReportAborts, ActiveAt
  <1>8. ASSUME NEW p \in Processes, StartJob(k, p)
        PROVE  job'[k].at = "guard" /\ job'[k].proc = p
    <2>1. job'[k] = [job[k] EXCEPT !.at = "guard", !.proc = p] /\ job[k].at = "waiting"
      BY <1>1, <1>8 DEF StartJob
    <2>2. QED
      BY <1>1, <2>1 DEF Job
  <1>9. QED
    BY <1>3, <1>4, <1>5, <1>6, <1>7, <1>8 DEF JobStep

(* The jobs of one send have each a log row of their own.                    *)
LEMMA OwnLog ==
    ASSUME OneQuietSend, TypeOK, ParkInv, NEW k \in JobIds, NEW i \in JobIds, i # k,
           job[k].at # "absent", job[i].at # "absent"
    PROVE  LogOf(i) # LogOf(k)
  <1>1. k[1] = 0 /\ i[1] = 0
    BY DEF ParkInv, Parked
  <1>2. i[2] # k[2]
    BY <1>1 DEF JobIds
  <1>3. QED
    BY <1>2 DEF LogOf

LEMMA JobKeepsParked ==
    ASSUME OneQuietSend, TypeOK, ParkInv, NEW k \in JobIds,
           \/ JobStep(k)
           \/ ReportAborts(k)
           \/ \E p \in Processes : StartJob(k, p)
    PROVE  ParkInv'
  <1>1. JobMoves(k)
    BY JobStepMoves
  <1>2. ASSUME NEW c \in Calls PROVE FirstSend(c)'
    <2>1. ~BeforeQueue(c) /\ call' = call
      BY <1>1 DEF ParkInv, FirstSend, JobMoves
    <2>2. QED
      BY <2>1 DEF ParkInv, FirstSend, BeforeQueue
  <1>3. Parked(k)'
    <2>1. /\ job'[k].at # "waiting"
          /\ job'[k].at \in ActiveAt => job'[k].proc \in Processes
      BY RunsInAProcess DEF ParkInv
    <2>2. k[1] = 0
      BY <1>1 DEF JobMoves, ParkInv, Parked
    <2>3. QED
      BY <2>1, <2>2 DEF Parked
  <1>4. ASSUME NEW i \in JobIds \ {k} PROVE Parked(i)'
    <2>1. job'[i] = job[i] /\ campaign' = campaign /\ LogOf(i)' = LogOf(i)
      BY <1>1 DEF JobMoves, LogOf
    <2>2. ASSUME job[i].at = "waiting", Exists
          PROVE  \/ logs'[LogOf(i)] = "pending"
                 \/ logs'[LogOf(i)] = "sending" /\ ~Asked'
      <3>1. LogOf(i) \in LogIds /\ LogOf(i) # LogOf(k)
        BY <1>1, <2>2, OwnLog DEF LogOf, LogIds, TypeOK, Job, JobIds, JobMoves
      <3>2. \/ logs[LogOf(i)] = "pending"
            \/ logs[LogOf(i)] = "sending" /\ ~Asked
        BY <2>2 DEF ParkInv, Parked
      <3>3. CASE PendLogs(k)
        BY <3>1, <3>2, <3>3 DEF PendLogs, Pendable
      <3>4. CASE ~PendLogs(k)
        <4>1. ~Asked => ~Asked'
          BY <1>1, <3>4 DEF JobMoves, Asked
        <4>2. logs'[LogOf(i)] = logs[LogOf(i)]
          <5>1. ASSUME NEW s, WriteLog(LogOf(k), s)
                PROVE  logs'[LogOf(i)] = logs[LogOf(i)]
            BY <3>1, <5>1 DEF WriteLog, TypeOK
          <5>2. QED
            BY <3>4, <5>1 DEF JobStep, ReportAborts, StartJob, ReadGuard, MarkSending,
               GetToken, TokenRefused, SendMail, RecordSent, Complete, ReportFailure
        <4>3. QED
          BY <3>2, <4>1, <4>2
      <3>5. QED
        BY <3>3, <3>4
    <2>3. QED
      BY <2>1, <2>2 DEF ParkInv, Parked, Exists
  <1>5. QED
    BY <1>2, <1>3, <1>4 DEF ParkInv

(* The pause is written only after it has been asked for.                    *)
LEMMA EventKeepsParked ==
    ASSUME TypeOK, ParkInv, NEW k \in JobIds, EventStep(k) \/ EventFails(k) \/ PauseFails(k)
    PROVE  ParkInv'
  <1>1. UNCHANGED <<call, job, logs>> /\ pausing' \subseteq pausing
    BY DEF EventStep, EventFails, PauseFails, UpdateRecipient, CountEvent, Unschedule,
       CheckDone, MarkDone, Notify, PauseCampaign
  <1>2. (Exists' => Exists) /\ (campaign'.status = "paused" => Asked)
    <2>1. CASE UNCHANGED campaign
      BY <2>1 DEF Exists, Asked
    <2>2. CASE CountEvent(k)
      BY <2>2 DEF CountEvent, Incremented, TypeOK, CampaignRow, Exists, Asked
    <2>3. CASE Unschedule(k)
      BY <2>3 DEF Unschedule, TypeOK, CampaignRow, Exists, Asked
    <2>4. CASE MarkDone(k)
      <3>1. handler[k].verdict \notin {"paused", "deleted"}
        BY DEF TypeOK, Handler
      <3>2. QED
        BY <2>4, <3>1, StatusAsksNothing DEF MarkDone, Asked
    <2>5. CASE PauseCampaign(k)
      BY <2>5 DEF PauseCampaign, WriteStatus, Exists, Asked
    <2>6. QED
      BY <2>1, <2>2, <2>3, <2>4, <2>5
         DEF EventStep, EventFails, PauseFails, UpdateRecipient, CheckDone, Notify
  <1>3. Asked' => Asked
    BY <1>1, <1>2 DEF Asked
  <1>4. QED
    BY <1>1, <1>2, <1>3, CalmKeepsParked

(* Once the campaign is paused and nothing is in the middle of process(),    *)
(* the log of each job still waiting is "pending", so the guard of the       *)
(* consumer skips it, for any number of recipients and of workers.           *)
THEOREM PauseIsComplete ==
    ASSUME OneQuietSend PROVE Spec => []PauseParksTheRest
  <1>1. Init => ParkInv
    BY ChoicesAssumption DEF Init, ParkInv, FirstSend, Parked, BeforeQueue, Asked, NoCall,
       NoJob, ActiveAt
  <1>2. TypeOK /\ ParkInv /\ [Next]_vars => ParkInv'
    <2> SUFFICES ASSUME TypeOK, ParkInv, [Next]_vars PROVE ParkInv'
      OBVIOUS
    <2>1. CASE UNCHANGED vars
      BY <2>1, CalmKeepsParked DEF vars, Asked, Exists
    <2>2. CASE UserStep
      BY <2>2, UserKeepsParked
    <2>3. ASSUME NEW c \in Calls, CallStep(c) \/ CallAborts(c) PROVE ParkInv'
      BY <2>3, CallKeepsParked
    <2>4. ASSUME NEW r \in Recipients, CountRecipient(r) \/ AddAborts(r) PROVE ParkInv'
      <3>1. campaign'.status = campaign.status
        BY <2>4 DEF CountRecipient, AddAborts, Counted, TypeOK, CampaignRow
      <3>2. UNCHANGED <<call, job, logs, pausing>>
        BY <2>4 DEF CountRecipient, AddAborts
      <3>3. QED
        BY <3>1, <3>2, CalmKeepsParked DEF Asked, Exists
    <2>5. ASSUME NEW k \in JobIds,
                 \/ JobStep(k) \/ ReportAborts(k)
                 \/ \E p \in Processes : StartJob(k, p)
          PROVE  ParkInv'
      BY <2>5, JobKeepsParked
    <2>6. ASSUME NEW k \in JobIds, EventStep(k) \/ EventFails(k) \/ PauseFails(k)
          PROVE  ParkInv'
      BY <2>6, EventKeepsParked
    <2>7. CASE TokenExpires
      BY <2>7, CalmKeepsParked DEF TokenExpires, Asked, Exists
    <2>8. ASSUME NEW k \in JobIds, AttemptFails(k) PROVE FALSE
      BY <2>8 DEF AttemptFails, OneQuietSend
    <2>9. ASSUME NEW p \in Processes, Crash(p) PROVE FALSE
      BY <2>9 DEF Crash, OneQuietSend
    <2>10. QED
      BY <2>1, <2>2, <2>3, <2>4, <2>5, <2>6, <2>7, <2>8, <2>9 DEF Next, WorkStep, FaultStep
  <1>3. ParkInv => PauseParksTheRest
    BY DEF ParkInv, Parked, PauseParksTheRest, Asked, Exists
  <1>4. QED
    BY <1>1, <1>2, <1>3, TypeCorrect, PTL DEF Spec
=============================================================================
