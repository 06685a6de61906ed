--------------------------- MODULE CampaignState ---------------------------
(***************************************************************************)
(* The state shared by the parts of mail delivery for ONE campaign of one  *)
(* user: the rows in Postgres, the jobs in Redis, and what the running     *)
(* Nest processes hold in memory (HTTP calls, queue workers, listeners).   *)
(* CampaignsService, MailQueueConsumer and CampaignsListener each add the  *)
(* steps of one class of the source; CampaignDelivery composes them.       *)
(*                                                                         *)
(* One step is what runs between two awaits: everything a handler does     *)
(* before it waits for the database, Redis or Gmail again is one action.   *)
(***************************************************************************)
EXTENDS Integers, FiniteSets

CONSTANTS
    Recipients,         \* the campaign_recipients rows that may exist
    InitialRecipients,  \* those imported before the model starts
    MayUnsubscribe,     \* the recipients that may click the unsubscribe link
    Processes,          \* the Nest processes that run the queue consumers
    SocketProcesses,    \* those whose NotificationsGateway has a server
    NoProcess,          \* "no process", the value of an idle job's proc
    MaxCalls,           \* bound: sendCampaign and resumeCampaign calls
    Schedules,          \* does a call give scheduledAt: a set of booleans
    Attempts,           \* the "attempts" option of a mail job
    MaxStalls,          \* BullMQ's maxStalledCount
    Concurrency,        \* jobs one process runs at a time
    DailyLimit,         \* the user's dailyLimit
    PatchStatuses,      \* the statuses a PATCH of the campaign may write
    Faults              \* the kinds of failure that may happen

FaultKinds == {"attempt",   \* an await of the mail processor throws
               "call",      \* an await of an HTTP handler throws
               "event",     \* an await of a listener or of onFailed throws
               "token",     \* Google rejects the user's refresh token
               "crash",     \* a process dies
               "remove"}    \* the user deletes the campaign

ASSUME RecipientsAssumption ==
    /\ InitialRecipients \subseteq Recipients
    /\ MayUnsubscribe \subseteq Recipients
    /\ IsFiniteSet(Recipients)
ASSUME ProcessesAssumption ==
    /\ SocketProcesses \subseteq Processes
    /\ NoProcess \notin Processes
ASSUME BoundsAssumption ==
    /\ MaxCalls \in Nat \ {0}
    /\ Attempts \in Nat \ {0}
    /\ MaxStalls \in Nat
    /\ Concurrency \in Nat \ {0}
    /\ DailyLimit \in Nat

(* The values of the columns. *)
CampaignStatus  == {"draft", "scheduled", "sending", "sent", "failed", "paused"}
RecipientStatus == {"pending", "sent", "failed"}
LogStatus       == {"scheduled", "sending", "pending", "sent", "failed"}

ASSUME ChoicesAssumption ==
    /\ PatchStatuses \subseteq CampaignStatus
    /\ Schedules \subseteq BOOLEAN
    /\ Faults \subseteq FaultKinds

VARIABLES
    campaign,      \* the campaigns row
    recipient,     \* recipient -> status, "absent" when there is no row
    logs,          \* <<call, recipient>> -> status, "absent" when no row
    unsubscribed,  \* the emails in email_unsubscribes for this owner
    connected,     \* Google accepts the stored refresh token
    call,          \* the sendCampaign / resumeCampaign calls
    adding,        \* recipients saved by an addRecipient that still counts
    job,           \* the mail queue: job id -> job
    mailed,        \* job id -> messages Gmail accepted for that job
    handler,       \* job id -> the email.sent / email.failed handler
    pausing,       \* jobs whose campaign.pause handler has not written yet
    notices        \* completion notifications created

vars == <<campaign, recipient, logs, unsubscribed, connected, call, adding,
          job, mailed, handler, pausing, notices>>

-----------------------------------------------------------------------------
Calls == 1..MaxCalls

(* A log row belongs to the call that saved it.  The job id of sendCampaign   *)
(* names the campaign and the recipient only (call number 0 here); that of    *)
(* resumeCampaign also names the log row, hence the call.                     *)
LogIds == Calls \X Recipients
JobIds == (0..MaxCalls) \X Recipients

CallPlaces  == {"unused", "filter", "limit", "save", "enqueue", "status",
                "finish", "done"}
ActiveAt    == {"guard", "mark", "token", "pend", "send", "record", "ack"}
JobPlaces   == ActiveAt \cup {"absent", "waiting", "report", "completed", "failed"}
EventPlaces == {"idle", "recipient", "count", "unschedule", "check", "mark",
                "notify"}

CampaignRow == [status : CampaignStatus \cup {"deleted"}, sentCount : Nat,
                failedCount : Nat, schedulingCount : Int, total : Nat]
Call    == [at : CallPlaces, resume : BOOLEAN, scheduled : BOOLEAN,
            chosen : SUBSET Recipients]
Job     == [at : JobPlaces, call : Calls, scheduled : BOOLEAN,
            attemptsMade : Nat, stalls : Nat, proc : Processes \cup {NoProcess}]
Handler == [event : {"none", "sent", "failed"}, at : EventPlaces,
            verdict : {"sent", "failed"}]

(* Every variable keeps to the values the columns, the queue and the code's  *)
(* control points allow.                                                     *)
TypeOK ==
    /\ campaign \in CampaignRow
    /\ recipient \in [Recipients -> RecipientStatus \cup {"absent"}]
    /\ logs \in [LogIds -> LogStatus \cup {"absent"}]
    /\ unsubscribed \subseteq Recipients
    /\ connected \in BOOLEAN
    /\ call \in [Calls -> Call]
    /\ adding \subseteq Recipients
    /\ job \in [JobIds -> Job]
    /\ mailed \in [JobIds -> Nat]
    /\ handler \in [JobIds -> Handler]
    /\ pausing \subseteq JobIds
    /\ notices \in Nat

NoCall    == [at |-> "unused", resume |-> FALSE, scheduled |-> FALSE, chosen |-> {}]
EndedCall == [NoCall EXCEPT !.at = "done"]
NoJob     == [at |-> "absent", call |-> 1, scheduled |-> FALSE,
              attemptsMade |-> 0, stalls |-> 0, proc |-> NoProcess]
NoHandler == [event |-> "none", at |-> "idle", verdict |-> "sent"]

Init ==
    /\ campaign = [status |-> "draft", sentCount |-> 0, failedCount |-> 0,
                   schedulingCount |-> 0, total |-> Cardinality(InitialRecipients)]
    /\ recipient = [r \in Recipients |->
                       IF r \in InitialRecipients THEN "pending" ELSE "absent"]
    /\ logs = [g \in LogIds |-> "absent"]
    /\ unsubscribed = {}
    /\ connected = TRUE
    /\ call = [c \in Calls |-> NoCall]
    /\ adding = {}
    /\ job = [k \in JobIds |-> NoJob]
    /\ mailed = [k \in JobIds |-> 0]
    /\ handler = [k \in JobIds |-> NoHandler]
    /\ pausing = {}
    /\ notices = 0

-----------------------------------------------------------------------------
(* Database helpers: an UPDATE of a row that is gone changes nothing.        *)

Exists  == campaign.status # "deleted"
Present == {r \in Recipients : recipient[r] # "absent"}
LogOf(k) == <<job[k].call, k[2]>>

WriteStatus(s) ==
    campaign' = IF Exists THEN [campaign EXCEPT !.status = s] ELSE campaign

WriteRecipient(r, s) ==
    recipient' = IF recipient[r] = "absent" THEN recipient
                 ELSE [recipient EXCEPT ![r] = s]

WriteLog(g, s) ==
    logs' = IF logs[g] = "absent" THEN logs ELSE [logs EXCEPT ![g] = s]
=============================================================================
