# mail-merge-be: a TLA+ verification project

The repository is a NestJS backend that sends mail-merge campaigns through the
users' own Gmail accounts: campaigns and their recipients live in Postgres,
each email is a BullMQ job in Redis, and the outcome of each email comes back
through in-process events. This directory models that system in TLA+, checks
the models with TLC and proves the most important properties with TLAPS.

## 1. The system

| component (under `src/src`) | state | operations | module |
|---|---|---|---|
| campaigns: `campaigns.service.ts`, `mail-queue.producer.ts` | `campaigns`, `campaign_recipients`, `campaign_email_logs` | `sendCampaign`, `resumeCampaign`, `addRecipient`, `update`, `remove`, `enqueueBatch` | `CampaignsService` |
| mail queue: `mail-queue.consumer.ts`, `gmail-auth.service.ts` | the jobs in Redis, the email logs | `process`, `onFailed`, `getOAuth2Client` | `MailQueueConsumer` |
| listener: `campaigns.listener.ts` | recipients' status, counters and status of the campaign | `email.sent`, `email.failed`, `campaign.pause` | `CampaignsListener` |
| unsubscribe | `email_unsubscribes` | `unsubscribe`, `filterUnsubscribed` | `CampaignsService` |
| uploads and creation: `campaigns.service.ts`, `utils/common/handle.ts` | `campaign_data_source`, objects in S3, temporary files | `processUpload`, `pushFileOnCloud`, `create`, `update` (of the link to a file), `addRecipient`, `remove` | `FileUpload` |
| file import: `campaign-queue.consumer.ts`, `file-parser.service.ts` | recipients, `parse_status`, `total_recipients` | `process` (parse-file), `streamRows`, `flushBatch` | `FileParse` |
| daily limit, test emails: `campaigns.service.ts` | log rows of a day | the check of both sends, `sendTestCampaign` | `DailyQuota` |
| users and Google accounts: `users`, `auth`, encryption | `users`, refresh tokens | `upsertGoogleUser`, reconnect, `updateSettings` | `UserAccounts` |
| signatures | `signatures`, attachments | create, update, delete, upload | `Signatures` |
| notifications | `notifications`, `notification_preferences`, sockets | `createNotification`, `updatePreference`, `sendToUser`, reading | `Notifications` |
| pagination: `cursor-pagination.ts` | none (pure) | `cursorPagination` | `CursorPagination` |
| single emails, dashboard, redis, bootstrap, migrations | none of their own | queries, helpers, wiring | none (section 6) |

How they interact. An upload previews the file, stores it in S3 and saves a
data-source row; `POST /campaigns` links a campaign to it and queues a
parse-file job, which streams the rows into `campaign_recipients`, while users
may add recipients by hand. An HTTP call to `sendCampaign` reads the campaign,
filters the unsubscribed, checks the daily limit against the log rows of the
day, saves one log row per recipient, adds one job per recipient to the mail
queue and only then writes the campaign's status. Workers (in the HTTP process
and in any `worker.ts` process) take the jobs. A job that ends emits
`email.sent` or `email.failed`; the listener runs in the same process, without
the emitter waiting, updates the recipient, increments a counter, reads the
campaign back and, when the counters reach `total_recipients`, writes the
verdict and creates a notification. A refused Google token parks the campaign's
logs, emits `campaign.pause` and ends the job; after a reconnect
`resumeCampaign` queues what was not sent.

What is hard. Outside the signatures there is no transaction and no lock: every
handler is a sequence of awaits and anything may run between two of them.
TypeORM's `save` is itself a read, a comparison and a write. Queue jobs are
delivered at least once. A retry repeats everything, the call to Gmail
included. A process may die anywhere. And the worker process has no HTTP
server, so the `NotificationsGateway` in it has no socket server and
`sendToUser` throws a `TypeError`. `PROJECT.json` lists each hazard at its
line, with the properties that address it.

What correctness means, per component: for delivery, that statuses are truthful,
nobody is mailed twice, an opt-out is respected, verdicts and notices come after
the last email, and every email ends up somewhere; for the import, that each
address the preview showed of the file a request named becomes one recipient, that the total is their
number and that each parse ends in a status; for the limit, that the day's sends
stay within it; for users, one row per account, and a token or limit that stays
until it is replaced; for signatures, at most one default; for notifications,
that a switch-off is obeyed and callers learn the truth; for pagination, that
the pages are the list.

## 2. The modules

```
CampaignState                    constants, variables, types, Init, row helpers
  |- CampaignsService            the HTTP handlers
  |- MailQueueConsumer           queue, workers, Google token, crashes
  |- CampaignsListener           event handlers
       \- CampaignDelivery       Next, Spec, fairness, properties
            |  implements EmailOutcome
            |- MCCampaignDelivery
            |- CampaignDeliveryProofs > CampaignMailProofs > CampaignProgressProofs
                                                           > CampaignOutcomeProofs
ImportState                      constants, variables, types, Init
  |- FileUpload                  uploads, create, update, addRecipient, remove
  |- FileParse                   the parse-file job, its retries and stalls
       \- FileImport             Next, Spec, fairness, properties
            |  implements RecipientImport
            |- MCFileImport, FileImportProofs
UserAccounts                     sign-in, reconnect, settings
  |- MCUserAccounts
  \- DailyQuota                  the daily limit, on top of the accounts
       |- MCDailyQuota, UserAccountsProofs
Signatures - MCSignatures, SignaturesProofs
CursorPagination
  \- Notifications - MCNotifications, NotificationsProofs
```

`X > Y` reads "Y extends X". Definitions named `Seeded...` are faults kept for
testing the properties: each property was seen to fail when the definition
below it is replaced by the seeded one. No specification uses them.

**CampaignState.** One campaign of one user. `campaign`, `recipient`, `logs`
and `unsubscribed` are database rows (`"absent"` and `"deleted"` stand for no
row); `job` is the mail queue; `call`, `adding`, `handler` and `pausing` are
the handlers running in memory, each with its `at`, the await it has reached;
`connected` says whether Google accepts the stored refresh token; `mailed`
counts the messages Gmail accepted for each job and `notices` the completion
notifications created. A log row is identified by the call that saved it and
its recipient. A job id `<<0, r>>` is `campaignId_recipientId`
(`sendCampaign`); `<<c, r>>` is `campaignId_resume_recipientId_logId`.

**CampaignsService.** One action per stretch between two awaits: `SendRead`,
`FilterUnsubscribed`, `CheckDailyLimit`, `SaveLogs`, `EnqueueBatch`,
`UpdateStatus` are `sendCampaign`; `ResumeRead` (and `FinishResume`, when
nothing is left) starts `resumeCampaign`, which then shares the last four.
`AddRecipient` and `CountRecipient` are the two statements of `addRecipient`;
`PatchStatus` is `update`, `Remove` the deletion, which takes recipients and
logs with it and leaves the jobs in Redis. A call whose first check throws
changes nothing and is not a step. `CallAborts` and `AddAborts` are an await
that throws, or the death of the HTTP process.

**MailQueueConsumer.** `process(job)` is `ReadGuard`, `MarkSending`,
`GetToken` or `TokenRefused` (then `PendLogs`), `SendMail`, `RecordSent`,
`Complete`; `ReportFailure` is `onFailed` on the last attempt. `StartJob`,
`Retry`, `GiveUp`, `Stalled` and `Crash` are BullMQ's part: a failed attempt
goes back to the queue while attempts are left, a dead worker's job stalls and
is handed out again, and stalling more than `maxStalledCount` times fails it.

**CampaignsListener.** `UpdateRecipient`, `CountEvent`, `Unschedule`,
`CheckDone`, `MarkDone`, `Notify` follow `handleEmailSentEvent` and
`handleEmailFailedEvent`; `PauseCampaign` is `handleCampaignPauseEvent`.
`EventFails` and `PauseFails` are their `catch`.

**EmailOutcome** is what all of that promises a recipient: a row waits until it
says how its email ended, "sent" is said of an email Gmail has taken, and a row
that has ended never waits again. `CampaignDelivery` implements it
(`EmailsSettle`): a recipient's row is its outcome, and the emails delivered are
read off the queue's history `mailed`.

**ImportState, FileUpload, FileParse, FileImport.** `upload`, `create`,
`adding` and `job` hold where each request and each parse job stands; `objects`
is S3; `source`, `campaign` and `recipients` are the tables; `reader` is what a
running parse keeps in memory: the next row, the batch, and the INSERTs under
way (`flights`). `Preview`, `PushFileOnCloud`, `SaveDataSource`, `FinishUpload`
are `processUpload`: the preview believes the browser's label, the storage the
bytes. `SaveCampaign`, `LinkDataSource`, `EnqueueParseFile` are `create`;
`PatchDataSource` is `update` with a `dataSourceId`: `PATCH /campaigns/:id` takes
any part of what a create takes, writes the link at any time, before, while or
after the file is parsed, and neither queues a parse job nor touches the one that
is there, which goes on with the file in its payload. That payload is
`FileOf(c)`; the link in the row is `campaign[c].file`.
`MarkProcessing`, `OpenFile`, `ReadRow`, `EndOfRows`, `InsertRows`,
`CountRecipients`, `FinishParse`, `MarkFailed`, `Complete` are `process`. Rows
of a workbook are handled in turn; rows of a CSV file are events, so `ReadRow`
and `EndOfRows` go on while INSERTs are in flight, and an INSERT that returns
empties whatever the batch has become. A failed parse is not retried
(`UnrecoverableError`); a throw before the `try`, as in a process without
sockets, is. `StoredBefore` are data-source rows there from the start: the only
way the present code comes to parse a CSV file (section 5).

**RecipientImport** is what the import promises: when a campaign's parse is
done, every address promised is among its recipients. `FileImport` implements it
(`ImportIsWhole`) with the addresses of the preview as the promise, for
workbooks of any size and CSV files of one batch whose header has no gap. The
promise is made when the parse job is queued and is about the file of the
request: the file a later PATCH links the campaign to is promised nothing, and
the code imports nothing of it (section 5).

**UserAccounts.** Each sign-in, reconnect and settings call loads the row
(`FindUser`, `ReadUser`), has TypeORM compare its copy with the row as it is
now (`CompareRow`) and writes the columns that differ (`WriteRow`), or inserts
(`InsertUser`, where the two unique indexes decide). A sign-in does not load the
token column and leaves it alone when Google issues none; settings load it
decrypted, and TypeORM writes it back because the transformer encrypts it anew. A
token loaded as null is not written: null is also what the transformer makes of
the column that the comparison did not read (`Differing`). `RotateKey` changes the
encryption key: what was written under the other one reads as null, and is read
again when the key comes back. A settings call that sets the rate limit alone
(`NoLimit`) saves the daily limit it loaded. `granted` and `chosen`
remember which token and limit were stored last; `overlapped` marks calls that
another write overtook between their load and their own write.

**DailyQuota** composes the accounts with the limit check of `sendCampaign` and
`resumeCampaign` over several campaigns and days: `Authenticate` loads the
user's row, `ReadCampaign` takes "today", `CountToday` counts the day's rows and
`SaveLogs` adds its own. `sendTestCampaign` is `BeginTest`, `SaveTestLog`,
`PrepareTest`, `SendTest`, `RecordTest`, `FailTest`: it counts and is never
refused. Deleting a campaign takes its rows, those of its test emails too, and so
its share of the count; the UPDATE of a test email that comes later hits no row
(`Marked`).

**Signatures.** Creations and updates are READ COMMITTED transactions: each
statement sees what was committed when it began (`seen`), waits for the rows
another transaction has written (`Locked`), looks again, and `Commit` shows
everything at once. No lock or index keeps the default unique. The UPDATE of the
attachments that nobody awaits may fail (`AttachFails`), which ends the process.

**CursorPagination, Notifications.** `createNotification` is `Begin`,
`CheckPreference`, `SaveNotification`, `SendToUser`; a client connects,
disconnects, switches a type off, reads, and walks the list page by page in
either direction while rows arrive. The clock has `TicksPerMs` ticks in a
millisecond, because the column has microseconds and the cursor has not.

**What the models leave out.** Delays, rate pacing and backoff are waits of any
length. Finished jobs stay in the queue (BullMQ keeps the last 1000 completed
and 500 failed ones). In `CampaignDelivery` all log rows are of one day, the
user has completion notifications switched on, and the "Campaign Paused"
notification, which the consumer does not wait for, is not counted. A worker's
lock is lost only by the death of its process. A lost reply of Gmail is a failed
attempt after `SendMail`. A throw and BullMQ's record of it in Redis are one
step: a process does not die between the two. An attempt of a parse that is
repeated because its "failed" could not be written forgets the INSERTs the
attempt before left under way; all they carry is read again. In `Signatures` an UPDATE takes
all its locks at once, and the one nobody awaits runs before the COMMIT that was
sent after it.

## 3. The runs

Calls, requests, clock ticks and pages are bounded, so a behaviour may stop when
they are used up: the runs do not check for deadlock. That no work is left
behind is what the liveness properties say. Model values name recipients,
processes, files and accounts; `backend` has a socket server and `worker`, where
a run has it outside `SocketProcesses`, has not. Symmetry is used only by runs
without liveness, over values that are interchangeable.

| run (distinct states) | instance | what it shows |
|---|---|---|
| `live_send` (85 thousand) | 2 recipients, 2 processes, 2 attempts, attempts fail, immediate or scheduled; fairness | `EveryEmailSettles`; at rest `CountersMatchRecipients`; `FinishedMeansSettled` at all times |
| `resend` (706 thousand) | 2 recipients (one added on the way, one may opt out), 2 scheduled calls, PATCH to draft, calls break off | `OneMailPerRecipient`, `OptOutHolds` |
| `crash_resume` (185 thousand) | 1 recipient, 2 calls, one attempt, attempts fail, token loss, crashes; fairness | `EveryJobEnds`, `RepeatsArePaidFor` |
| `all_faults` (1.6 million) | 2 recipients, 1 scheduled call, one attempt, one stall a job, all six kinds of fault, deletion among them | `TypeOK`, `SentMeansMailed`, `EarlyNoticeIsPaidFor`, the refinement `EmailsSettle` |
| `pause` (1.7 million) | 2 recipients, 2 immediate calls (sends or a send and a resume), one job at a time, token loss and reconnect | `PauseParksTheRest`, `EarlyNoticeIsPaidFor` |
| `import` (646 thousand) | a workbook of 4 rows, a CSV file of 2, 2 campaigns, PATCH of their links, 1 address added by hand, 2 processes, batches of 2, 2 attempts, all six kinds of fault; fairness | `TypeOK`, `TotalDrift`, `ProcessingMeansWork`, `SourceIsWhatItSays`, `OneRowPerMailbox`, the refinement `ImportIsWhole`, `QueueDrains` |
| `accounts` (1.4 million) | 2 Google accounts, 2 addresses, 1 row at the start and room for 2, 3 calls of any kind, 1 change of key | `OneUserPerAccount`, `TokenIsKept`, `LimitIsKept` |
| `quota` (1.8 million) | 2 sends of 1 or 2 recipients, 2 campaigns, 1 test email, 1 settings call, 1 midnight | `DailyLimitHolds`, `TestsAreTold` |
| `signatures` (1.1 million) | 2 signatures at the start, 3 calls, 1 attachment, 1 campaign, rollbacks and a failing UPDATE | `OneDefault`, `RenameKeepsDefault`, `DeletedStaysDeleted` |
| `notifications` (2.8 million) | 3 notifications from 2 processes, pages of one row, 3 pages, 2 ticks to a millisecond, 1 switch | `CallersAreTold`, `GapsAreOneMillisecond`, `NothingTwice`, `OffMeansSilent` |

Two runs confirm a disagreement between the repository's own words and the code.
Each checks one property and finds it violated (section 5 has the findings):

| run | property | how it fails |
|---|---|---|
| `completion_notices` | `OneCompletionNotice` | two listeners both read complete counters, and both notify |
| `stuck_sending` | `SendingMeansWork` | an opted-out recipient is not queued but stays in the total |

**The bounds.** Two recipients are the least for which listeners race, and with one
slot for jobs the least for which a job waits while another pauses the campaign;
two calls are the least that overlap, or that resume; two processes the least in
which one without sockets takes a job from the other. Two attempts exercise both
the retry and the last attempt; `MaxStalls` is BullMQ's default of one, and none
in `import`, where a stall after the first attempt costs states and tells no
more. `DailyLimit` is small enough in `resend` that the second call may be
refused, and is exactly used up in `all_faults`. The two largest delivery runs
use scheduled sends only: their listeners take one step more (`Unschedule`), and
a campaign that is "scheduled" may be sent again; both kinds of send are in
`live_send`. In `import` the workbook has an empty row, a duplicate in another
spelling and one row more than a batch, so that a full flush, a skipped row and
the last flush all happen; the CSV file is exactly one batch, so that its INSERT
is under way when the stream ends; two campaigns compete for one file, and either
may be linked to the other file, or to none, at any moment. In `accounts` three calls
are the least in which a sign-in and a settings call overlap after a first
sign-in; in `signatures` the least in which two transactions overlap and a third
follows. Three notifications make a listing of more than one page in which two
rows share a millisecond.

**Properties that hold under conditions.** `CountersMatchRecipients`,
`FinishedMeansSettled` and `EveryEmailSettles` are checked without lost
listeners, crashes and resumes, which do break them: a lost listener is never
replayed, and a resume counts again. `OneMailPerRecipient` is about sending, not
retrying: no failed attempt, crash or resume. `OptOutHolds` is about sends; a
resume does not look at the opt-outs. `PauseParksTheRest` is checked without
failing attempts, because a job past the guard can overwrite "pending" and be
retried later; for immediate sends, whose logs the UPDATE matches; and for the jobs
of the sends, not those a resume has queued since. `EarlyNoticeIsPaidFor` counts
what lets a recipient be counted twice, a stall of a job and a job of a resume
that reports a recipient again: a completion notice does come before the last
email, and the property says that each recipient still unsettled then costs one of
these. Without either it says that the notice comes last. `OneDefault`, `RenameKeepsDefault`, `TokenIsKept`, `LimitIsKept`,
`DailyLimitHolds` and `TotalDrift` say what can go wrong only by overlapping:
the code does lose a default, a token, a limit or a count when calls overlap,
and each property says that nothing else loses it. `NothingTwice` is about
listings newest first: oldest first, the last row of a page is given again.

**Fairness.** In the delivery, weak fairness of each call, job, listener and of
taking a waiting job; in the import, of each parse job's next step and of taking
a waiting job: a running Node process comes to the continuation of each settled
await, and BullMQ gives a waiting job to a free worker. None of it forces a
user, a PATCH, a reconnect, a Google answer or a failure. A crash leaves a
process that restarts at once: a process down for ever is not modelled.

## 4. The proofs

The theorems are about the specifications with arbitrary constants that satisfy
the named assumptions of the modules: finite sets of recipients, files, sends,
test emails and notifications, any processes, calls, bounds, contents, page
sizes, and any subset of the faults. A theorem about a property that holds under
conditions (section 3) has them as a named hypothesis on the constants, and the
runs that check the property satisfy it:

- `NothingResumes`: the token stays good and no PATCH writes "paused", so no
  call resumes the campaign;
- `NothingRepeats`: `NothingResumes`, and neither attempts nor processes fail;
- `NothingIsLost`: `NothingResumes`, and neither listeners nor processes fail.
  Attempts, calls and deletions may;
- `OneQuietSend`: one call, immediate, no attempt or process fails, every process
  has sockets. The token, listeners and the deletion are free to come in between.

| theorem | states | argument |
|---|---|---|
| `TypeCorrect` | `TypeOK` of the delivery | inductive |
| `RepeatsPaid` | `RepeatsArePaidFor` | `PaidInv`: before sending, a running job has mailed no more than its failed attempts and stalls; one more after |
| `SentIsMailed` | `SentMeansMailed` | `MailInv`: a job at "record" or "ack" and a running `email.sent` handler have mailed |
| `EarlyNoticesArePaidFor` | `EarlyNoticeIsPaidFor`, when every recipient is there from the start | `CountInv`: the counters never exceed the slots for counting, one for each stall of a job and one for each job whose report was counted and settled its recipient; `NoticeInv`: after a notice they cover the total. So the recipients not settled are no more than the slots beyond one a recipient, and these are stalls and repeated jobs |
| `SendAgainIsSafe` | `OneMailPerRecipient`, under `NothingRepeats` | `SendsOnly`: no call is a resume, so only job ids with call number 0 exist; `OnceInv`: each is at its first attempt |
| `CountersMatch` | `CountersMatchRecipients`, under `NothingIsLost` | `SettleInv`: a job reports its end once; its handler agrees with the recipient's row, and the counters are the sizes of the sets of handlers past their increment |
| `FinishedIsSettled` | `FinishedMeansSettled`, under `NothingIsLost`, when every recipient is there from the start and no PATCH writes a verdict | `VerdictInv` on top of `SettleInv`: a handler that is about to write a verdict read counters that cover every recipient, and a covered recipient is settled for good |
| `PauseIsComplete` | `PauseParksTheRest`, under `OneQuietSend` | `ParkInv`: the log of a waiting job says "pending", or "sending" as long as nobody has asked for the pause; and whoever asks has parked the logs first |
| `DeliveryImplementsOutcome` | `EmailsSettle` | each step that changes a row is one of four (`RowsStep`), and with `MailInv` each of these is a step of `EmailOutcome` |
| `OptOutsHold` | `OptOutHolds` | once out of reach, the filter of every later call keeps the recipient out, and its job is not in the queue |
| `ImportTypeCorrect` | `TypeOK` of the import | with `Held`: batches, flights and recipients are finite and come from the file, so the count is a number |
| `SourcesAreTrue` | `SourceIsWhatItSays` | `Stored`: an upload about to save its row has stored a workbook |
| `ProcessingIsWork` | `ProcessingMeansWork` | `Worked`: at each place of the job, what the row says and which of its limits a failed job has used up |
| `MailboxesAreOnce` | `OneRowPerMailbox` | `Spelled`: a row that was not added by hand is spelled in lower case |
| `ImportImplements`, `DoneIsWhole` | `ImportIsWhole`; `DoneIsComplete` of `RecipientImport` | `ImportFacts`: `Steady` says that the file of a request is uploaded and the row is "processing" while the parse runs. The job's file is the one of the request, whatever PATCH does to the row (`PatchKeeps`); `Covered` that each row read is in the batch or stored, and the batch in every INSERT under way |
| `TotalsAreCounts` | `TotalDrift` | `Tally`: what the parse counted, and once "done" the total, lies between the rows without and with the calls of `addRecipient` that the count overlapped, less those still to count; by `Covered` an INSERT that lands late adds nothing |
| `DefaultIsUnique`, `RenamesAreSafe`, `DeletesLast` | `OneDefault`, `RenameKeepsDefault`, `DeletedStaysDeleted` | `SignaturesInv`: each created row is its call's own, and a transaction that no commit overlapped still sees what is committed |
| `AccountsTypeCorrect`, `OneRowPerAccount` | types of the accounts, `OneUserPerAccount` | `AccountsInv`: a call that has loaded a row still holds the row of its account, and rows do not go away |
| `TokensAreKept`, `LimitsAreKept` | `TokenIsKept`, `LimitIsKept` | `KeptInv`: a copy loaded by a call that was not overlapped still agrees with the row, or holds null for a token no key reads and is not written |
| `TestsTold` | `TestsAreTold` | `TestSays`: what the row of a test email may say at each place of the request |
| `QuotaTypeCorrect`, `LimitHolds` | types of the quota, `DailyLimitHolds` | `QuotaInv`: a send that has counted and that no other has overlapped still finds its emails within its limit, so the last of a day to save vouches for the day |
| `CallersTold`, `OffIsSilent` | `CallersAreTold`, `OffMeansSilent` | `NoteInv` and `QuietInv`: when a call's row is there, and that a call past its check saw the switch on or is overlapped |
| `NotificationsTypeCorrect`, `NothingIsTwice`, `GapsAreSmall` | types of the notifications, `NothingTwice`, `GapsAreOneMillisecond` | `WalkInv`: newest first, no row given is past the cursor, which only moves on; and each row that was there when the listing began was given, is past the cursor, or shares the millisecond of some page's last row. `PageOfRows` says what one page of any size is |

Except the type invariants, none of these properties is inductive as it stands; the
invariants named are what has to be added.

Counting needs no induction over data: each step adds or removes one element of
a finite set whose cardinality the counter is (`FiniteSetTheorems`), and a page
has a first and a last row because strict inclusion on a finite set is
well-founded (`FirstExists`).

Only model-checked: liveness (`EveryEmailSettles`, `EveryJobEnds`,
`QueueDrains`), which the prover does not do. Every invariant, action property and
refinement that a passing run checks is also a theorem.

## 5. Findings

With a run: `completion_notices` and `stuck_sending` above. Without one, met
while modelling and quoted in `PROJECT.json`:

- resuming queues failed recipients again while `failed_count` keeps its value,
  so a campaign can be marked sent, and its completion notified, with a recipient
  not settled;
- a scheduled email, or a resumed one, goes out after the recipient opted out;
- an attempt that fails after Gmail took the message sends it again;
- the listener of a worker without sockets fails before it marks or notifies;
- the parking UPDATE does not match the logs of a scheduled send;
- rows of a CSV file pushed while a batch is being inserted are thrown away;
- every CSV upload ends in a TypeError, because no type is found for plain text;
- an empty header cell of a workbook shifts the columns after it;
- a PATCH of `dataSourceId` links a campaign to a file and queues no parse: the
  campaign may be "done" without a row of its file;
- a recipient added by hand while the parse job counts is counted twice or never,
  so the total of a finished import is not the number of its rows;
- newest first, pages skip rows of the last row's millisecond;
- `POST /mail/send` loses `campaignId` to the ValidationPipe, so its log row is
  refused.

## 6. Not modelled

- **Single emails** (`mail.service.ts`): because of the last finding the handler
  changes no state. Building the MIME text is formatting.
- **Attachments of campaigns**: `create` re-links attachments that may belong to
  another campaign; listed as a hazard without a property.
- **`addDataSource`, `updateRecipientStatus`, `isUnsubscribed`**: no route or
  caller.
- **Columns other than the email**, placeholders and their remapping, templates,
  and what a rejected upload leaves behind (a temporary file, an object in S3).
- **Recipients added by hand are not normalised**: modelled as it is, which is
  why `OneRowPerMailbox` excepts them.
- **`syncSignature`** only reads from Gmail; **the dashboard** only queries; the
  **Redis helper** is used by no module.
- **The token cipher, JWTs, guards, filters, bootstrap and migrations**: no state
  of their own. What the models need of them (whether a process has a socket
  server, whether a token can be read, the unique indexes and the defaults of
  columns) is a constant, a variable or part of `Init`.
- **A finished job that BullMQ has dropped**: then its id no longer keeps a
  second send away; a hazard without a property.

What could be added: a model of BullMQ's retention of finished jobs, and weaker
hypotheses for `PauseIsComplete`, whose run and theorem are about one send.
