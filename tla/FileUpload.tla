----------------------------- MODULE FileUpload -----------------------------
(***************************************************************************)
(* CampaignsService.processUpload of a data source, create, update,        *)
(* addRecipient and remove, and pushFileOnCloud.  Every throw of an upload ends in      *)
(* handleError and a 400: what the earlier steps did stays.                *)
(***************************************************************************)
EXTENDS ImportState

UploadGoes(u, place) == upload' = [upload EXCEPT ![u] = place]

(* extractPreview reads the file as the browser's label says: a CSV reader  *)
(* takes any bytes, ExcelJS only an xlsx archive, no other label is known.  *)
Previewable(u) == \/ Contents[u].label = "csv"
                  \/ Contents[u].label = "xlsx" /\ Contents[u].format = "xlsx"

Preview(u) ==
    /\ upload[u] = "received"
    /\ UploadGoes(u, IF Previewable(u) THEN "store" ELSE "rejected")
    /\ UNCHANGED <<objects, source, create, campaign, recipients, adding, job,
                   reader>>

(* pushFileOnCloud asks the bytes, not the label.  fromBuffer knows no type  *)
(* for plain text, so a CSV file ends in a TypeError; other types are not    *)
(* in FILE_TYPES_IMPORT_ALLOWED.                                             *)
Detected(u) == Contents[u].format

PushFileOnCloud(u) ==
    /\ upload[u] = "store"
    /\ IF Detected(u) = "xlsx"
       THEN objects' = objects \cup {u} /\ UploadGoes(u, "save")
       ELSE UploadGoes(u, "rejected") /\ UNCHANGED objects
    /\ UNCHANGED <<source, create, campaign, recipients, adding, job, reader>>

(* The row keeps the detected type. *)
SeededStoredType(u) == IF Contents[u].label = "csv" THEN "csv" ELSE "xlsx"

StoredType(u) == Detected(u)

SaveDataSource(u) ==
    /\ upload[u] = "save"
    /\ source' = [source EXCEPT ![u] = StoredType(u)]
    /\ UploadGoes(u, "unlink")
    /\ UNCHANGED <<objects, create, campaign, recipients, adding, job, reader>>

(* unlinkSync, then the answer that tells the client the id. *)
FinishUpload(u) ==
    /\ upload[u] = "unlink"
    /\ UploadGoes(u, "done")
    /\ UNCHANGED <<objects, source, create, campaign, recipients, adding, job,
                   reader>>

UploadAborts(u) ==
    /\ "upload" \in Faults
    /\ upload[u] \in {"received", "store", "save", "unlink"}
    /\ UploadGoes(u, "rejected")
    /\ UNCHANGED <<objects, source, create, campaign, recipients, adding, job,
                   reader>>

-----------------------------------------------------------------------------
(* create: the campaign is saved first, with no data source.  Campaigns are *)
(* numbered in the order they are saved.                                    *)
CreateGoes(c, place) == create' = [create EXCEPT ![c].at = place]

SaveCampaign(c, u) ==
    /\ create[c].at = "unused"
    /\ c > 1 => create[c - 1].at # "unused"
    /\ upload[u] = "done"
    /\ create' = [create EXCEPT ![c] = [at |-> "link", file |-> u]]
    /\ campaign' = [campaign EXCEPT ![c].live = TRUE]
    /\ UNCHANGED <<upload, objects, source, recipients, adding, job, reader>>

(* UPDATE campaigns SET data_source_id: the column is unique, so the second *)
(* campaign of one file gets an error and stays behind without a file.      *)
Owners(u) == {c \in Campaigns : campaign[c].live /\ campaign[c].file = u}

LinkDataSource(c) ==
    /\ create[c].at = "link"
    /\ IF campaign[c].live /\ Owners(create[c].file) \ {c} # {}
       THEN CreateGoes(c, "done") /\ UNCHANGED campaign
       ELSE /\ CreateGoes(c, "enqueue")
            /\ campaign' = IF campaign[c].live
                           THEN [campaign EXCEPT ![c].file = create[c].file]
                           ELSE campaign
    /\ UNCHANGED <<upload, objects, source, recipients, adding, job, reader>>

(* PATCH /campaigns/:id takes any part of what create takes: it links the    *)
(* campaign to another file, or to none, and puts no job in the queue, nor   *)
(* touches the one that is there.                                           *)
PatchDataSource(c, u) ==
    /\ campaign[c].live
    /\ u # NoFile => upload[u] = "done" /\ Owners(u) \ {c} = {}
    /\ campaign' = [campaign EXCEPT ![c].file = u]
    /\ UNCHANGED <<upload, objects, source, create, recipients, adding, job, reader>>

Queued == {c \in Campaigns : job[c].at # "absent"}

EnqueueParseFile(c) ==
    /\ create[c].at = "enqueue"
    /\ Cardinality(Queued) < MaxJobs
    /\ job' = [job EXCEPT ![c].at = "waiting"]
    /\ CreateGoes(c, "done")
    /\ UNCHANGED <<upload, objects, source, campaign, recipients, adding, reader>>

CreateAborts(c) ==
    /\ Faults \cap {"create", "crash"} # {}
    /\ create[c].at \in {"link", "enqueue"}
    /\ CreateGoes(c, "done")
    /\ UNCHANGED <<upload, objects, source, campaign, recipients, adding, job,
                   reader>>

(* remove: the recipients go by ON DELETE CASCADE, the job in Redis stays.  *)
Remove(c) ==
    /\ "remove" \in Faults
    /\ campaign[c].live
    /\ campaign' = [campaign EXCEPT ![c] = NoRow]
    /\ recipients' = [recipients EXCEPT ![c] = {}]
    /\ UNCHANGED <<upload, objects, source, create, adding, job, reader>>

-----------------------------------------------------------------------------
(* addRecipient saves the address as the client spells it, then increments  *)
(* total_recipients.  raced: the call overlapped the count of a parse job,   *)
(* or never reached its increment.                                          *)
Counting(c) == job[c].at = "finish"

AddRecipient(x) ==
    /\ campaign[x[1]].live
    /\ adding[x].at = "no"
    /\ x[2] \notin recipients[x[1]]
    /\ recipients' = [recipients EXCEPT ![x[1]] = @ \cup {x[2]}]
    /\ adding' = [adding EXCEPT ![x] = [at |-> "counting", raced |-> Counting(x[1])]]
    /\ UNCHANGED <<upload, objects, source, create, campaign, job, reader>>

SeededIncremented(row) == [row EXCEPT !.total = @ - 1]

Incremented(row) == [row EXCEPT !.total = @ + 1]

CountRecipient(x) ==
    /\ adding[x].at = "counting"
    /\ adding' = [adding EXCEPT ![x].at = "ended"]
    /\ campaign' = IF campaign[x[1]].live
                   THEN [campaign EXCEPT ![x[1]] = Incremented(@)] ELSE campaign
    /\ UNCHANGED <<upload, objects, source, create, recipients, job, reader>>

AddAborts(x) ==
    /\ Faults \cap {"create", "crash"} # {}
    /\ adding[x].at = "counting"
    /\ adding' = [adding EXCEPT ![x] = [at |-> "ended", raced |-> TRUE]]
    /\ UNCHANGED <<upload, objects, source, create, campaign, recipients, job,
                   reader>>

UploadStep(u) == Preview(u) \/ PushFileOnCloud(u) \/ SaveDataSource(u) \/ FinishUpload(u)
CreateStep(c) == LinkDataSource(c) \/ EnqueueParseFile(c)
=============================================================================
