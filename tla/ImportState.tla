---------------------------- MODULE ImportState ----------------------------
(***************************************************************************)
(* The state of the file import: spreadsheets uploaded to S3, their        *)
(* campaign_data_source rows, the campaigns created from them, the parse   *)
(* jobs in the campaign queue and the recipients they store.  FileUpload   *)
(* and FileParse add the steps; FileImport composes them.  One step is     *)
(* what runs between two awaits.                                           *)
(***************************************************************************)
EXTENDS Integers, FiniteSets, Sequences

CONSTANTS
    Files,            \* the spreadsheets users have
    Contents,         \* file -> what is in it (Content below)
    StoredBefore,     \* those whose data-source row is there from the start
    MaxCampaigns,     \* bound: POST /campaigns requests
    HandAdded,        \* campaign and address of each POST .../recipients
    Processes,        \* the Nest processes that run the queue consumers
    SocketProcesses,  \* those whose NotificationsGateway has a server
    NoProcess, NoFile,
    Attempts,         \* the "attempts" option of a parse job
    MaxStalls,        \* BullMQ's maxStalledCount
    BatchSize,        \* BATCH_SIZE
    MaxJobs,          \* bound: parse jobs put in the queue
    Faults            \* the kinds of failure that may happen

FaultKinds == {"upload",   \* an await or a file operation of an upload throws
               "create",   \* an await of create or of addRecipient throws
               "insert",   \* an INSERT of a batch is rejected
               "parse",    \* another await of the parse job throws
               "crash",    \* a process dies
               "remove"}   \* the user deletes a campaign

Campaigns == 1..MaxCampaigns

(* An address is a mailbox and how it is spelled; "" is a cell left empty.  *)
(* A cell may also hold something else, a name say: <<"Ann", "lower">>.     *)
Addresses == STRING \X {"lower", "mixed"}
Empty     == <<"", "lower">>
Lower(a)  == <<a[1], "lower">>

(* label is the MIME type the browser gives, format what the bytes are.     *)
Formats == {"xlsx", "csv", "other"}
Content == [format : Formats, label : Formats, header : Seq({"email", "name", ""}),
            rows : Seq(Seq(Addresses))]

ASSUME FilesAssumption ==
    /\ IsFiniteSet(Files)
    /\ StoredBefore \subseteq Files
    /\ NoFile \notin Files
    /\ DOMAIN Contents = Files
    /\ \A u \in Files : /\ Contents[u].format \in Formats
                        /\ Contents[u].label \in Formats
                        /\ Contents[u].rows \in Seq(Seq(Addresses))
                        /\ Contents[u].header \in Seq({"email", "name", ""})
(* Rows that are there from the start say what their bytes are.             *)
ASSUME StoredAssumption ==
    \A u \in StoredBefore : Contents[u].label = Contents[u].format /\ Contents[u].format # "other"
ASSUME ImportAssumption ==
    /\ MaxCampaigns \in Nat \ {0}
    /\ SocketProcesses \subseteq Processes
    /\ NoProcess \notin Processes
    /\ HandAdded \subseteq Campaigns \X Addresses
    /\ Attempts \in Nat \ {0}
    /\ MaxStalls \in Nat
    /\ BatchSize \in Nat \ {0}
    /\ MaxJobs \in Nat \ {0}
    /\ Faults \subseteq FaultKinds

VARIABLES
    upload,      \* file -> the await its upload has reached
    objects,     \* the files whose bytes are in S3
    source,      \* file -> mime type in campaign_data_source, "none" if no row
    create,      \* campaign -> the POST /campaigns that makes it
    campaign,    \* campaign -> row
    recipients,  \* campaign -> its campaign_recipients, by address
    adding,      \* campaign, address -> its addRecipient call
    job,         \* campaign -> its parse job
    reader       \* campaign -> what the running parse keeps in memory

vars == <<upload, objects, source, create, campaign, recipients, adding, job,
          reader>>

-----------------------------------------------------------------------------
UploadPlaces == {"received", "store", "save", "unlink", "done", "rejected"}
CreatePlaces == {"unused", "link", "enqueue", "done"}
AddPlaces    == {"no", "counting", "ended"}
ActiveAt     == {"mark", "open", "rows", "flush", "count", "finish", "fail", "ack"}
ParseStatus  == {"pending", "processing", "done", "failed"}

Create == [at : CreatePlaces, file : Files \cup {NoFile}]
Row    == [live : BOOLEAN, file : Files \cup {NoFile}, parse : ParseStatus,
           total : Nat]
Job    == [at : ActiveAt \cup {"absent", "waiting", "completed", "failed"},
           attemptsMade : Nat, stalls : Nat, counted : Nat,
           proc : Processes \cup {NoProcess}]
Add    == [at : AddPlaces, raced : BOOLEAN]

(* A flight is an INSERT under way: the rows it carries and whether it is   *)
(* the last one, which process() awaits outside streamRows.                 *)
Flight == [rows : SUBSET Nat, last : BOOLEAN]
Reader == [open : BOOLEAN, next : Nat \ {0}, batch : SUBSET Nat,
           flights : SUBSET Flight]

(* Every variable keeps to the values the columns, the queue and the code's *)
(* control points allow.                                                    *)
TypeOK ==
    /\ upload \in [Files -> UploadPlaces]
    /\ objects \subseteq Files
    /\ source \in [Files -> {"xlsx", "csv", "none"}]
    /\ create \in [Campaigns -> Create]
    /\ campaign \in [Campaigns -> Row]
    /\ recipients \in [Campaigns -> SUBSET Addresses]
    /\ adding \in [HandAdded -> Add]
    /\ job \in [Campaigns -> Job]
    /\ reader \in [Campaigns -> Reader]

NoRow    == [live |-> FALSE, file |-> NoFile, parse |-> "pending", total |-> 0]
NoJob    == [at |-> "absent", attemptsMade |-> 0, stalls |-> 0, counted |-> 0,
             proc |-> NoProcess]
NoReader == [open |-> FALSE, next |-> 1, batch |-> {}, flights |-> {}]

Init ==
    /\ upload = [u \in Files |-> IF u \in StoredBefore THEN "done" ELSE "received"]
    /\ objects = StoredBefore
    /\ source = [u \in Files |-> IF u \in StoredBefore THEN Contents[u].label
                                 ELSE "none"]
    /\ create = [c \in Campaigns |-> [at |-> "unused", file |-> NoFile]]
    /\ campaign = [c \in Campaigns |-> NoRow]
    /\ recipients = [c \in Campaigns |-> {}]
    /\ adding = [x \in HandAdded |-> [at |-> "no", raced |-> FALSE]]
    /\ job = [c \in Campaigns |-> NoJob]
    /\ reader = [c \in Campaigns |-> NoReader]
=============================================================================
