----------------------------- MODULE FileParse -----------------------------
(***************************************************************************)
(* CampaignQueueConsumer.process (parse-file) and FileParserService.       *)
(* XLSX rows are handled one after the other.  The rows of a CSV file are  *)
(* "data" events: a row whose handler awaits an INSERT does not stop the   *)
(* next one, nor the end of the file, nor a failure of the job.            *)
(***************************************************************************)
EXTENDS ImportState

JobGoes(c, place) == job' = [job EXCEPT ![c].at = place]

FileOf(c) == create[c].file
Type(c)   == source[FileOf(c)]

(* streamXlsxRows pushes the header cells it meets: an empty one shifts the *)
(* names of the columns after it.  The preview and a CSV reader keep every  *)
(* column in its place.                                                     *)
HeaderColumns(u) == {k \in DOMAIN Contents[u].header : Contents[u].header[k] = "email"}
Pushed(u, k)     == Cardinality({j \in 1..k : Contents[u].header[j] # ""})
EmailColumns(u)  == IF source[u] = "xlsx" THEN {Pushed(u, k) : k \in HeaderColumns(u)}
                    ELSE HeaderColumns(u)

EmailCells(row, columns) == {row[j] : j \in columns \cap DOMAIN row} \ {Empty}

(* The addresses a row gives: one, or none if the row has no email.         *)
SeededNormalised(cells) == cells

Normalised(cells) == {Lower(a) : a \in cells}
AddressOf(u, i)   == Normalised(EmailCells(Contents[u].rows[i], EmailColumns(u)))
AddressesOf(u, I) == UNION {AddressOf(u, i) : i \in I}

Lines(u) == DOMAIN Contents[u].rows

-----------------------------------------------------------------------------
Running(p) == {c \in Campaigns : job[c].proc = p /\ job[c].at \in ActiveAt}

StartJob(c, p) ==
    /\ job[c].at = "waiting"
    /\ Cardinality(Running(p)) < 2
    /\ job' = [job EXCEPT ![c].at = "mark", ![c].proc = p]
    /\ UNCHANGED <<upload, objects, source, create, campaign, recipients, adding,
                   reader>>

(* BullMQ after an ordinary throw. *)
SeededRetry(j) == [j EXCEPT !.at = "waiting"]

Retry(j) == [j EXCEPT !.attemptsMade = @ + 1,
                      !.at = IF j.attemptsMade + 1 >= Attempts THEN "failed"
                             ELSE "waiting"]

WriteParse(c, status) ==
    campaign' = IF campaign[c].live THEN [campaign EXCEPT ![c].parse = status]
                ELSE campaign

(* The status becomes "processing"; then sendToUser, outside the try: it    *)
(* throws where the gateway has no server.                                  *)
MarkProcessing(c) ==
    /\ job[c].at = "mark"
    /\ WriteParse(c, "processing")
    /\ IF job[c].proc \in SocketProcesses THEN JobGoes(c, "open")
       ELSE job' = [job EXCEPT ![c] = Retry(@)]
    /\ UNCHANGED <<upload, objects, source, create, recipients, adding, reader>>

OpenFile(c) ==
    /\ job[c].at = "open"
    /\ IF FileOf(c) \in objects /\ Type(c) \in {"xlsx", "csv"}
       THEN JobGoes(c, "rows") /\ reader' = [reader EXCEPT ![c] = [NoReader EXCEPT !.open = TRUE]]
       ELSE JobGoes(c, "fail") /\ UNCHANGED reader
    /\ UNCHANGED <<upload, objects, source, create, campaign, recipients, adding>>

(* onRow: a row without an email is skipped; a full batch is flushed.  The  *)
(* batch is emptied only when the INSERT has returned.                      *)
InTurn(c) == Type(c) = "xlsx" => job[c].at = "rows" /\ reader[c].flights = {}

ReadRow(c) ==
    LET i     == reader[c].next
        batch == IF AddressOf(FileOf(c), i) = {} THEN reader[c].batch
                 ELSE reader[c].batch \cup {i}
        flush == batch # reader[c].batch /\ Cardinality(batch) >= BatchSize
    IN
    /\ reader[c].open
    /\ i \in Lines(FileOf(c))
    /\ InTurn(c)
    /\ reader' = [reader EXCEPT ![c].next = i + 1,
                                ![c].batch = batch,
                                ![c].flights = IF flush
                                  THEN @ \cup {[rows |-> batch, last |-> FALSE]}
                                  ELSE @]
    /\ UNCHANGED <<upload, objects, source, create, campaign, recipients, adding,
                   job>>

(* The end of the file, and the flush that process() awaits itself.         *)
SeededRemaining(rows) == {}

Remaining(rows) == rows

EndOfRows(c) ==
    /\ job[c].at = "rows"
    /\ reader[c].next \notin Lines(FileOf(c))
    /\ InTurn(c)
    /\ IF Remaining(reader[c].batch) = {}
       THEN JobGoes(c, "count") /\ UNCHANGED reader
       ELSE /\ JobGoes(c, "flush")
            /\ reader' = [reader EXCEPT ![c].flights =
                            @ \cup {[rows |-> Remaining(reader[c].batch), last |-> TRUE]}]
    /\ UNCHANGED <<upload, objects, source, create, campaign, recipients, adding>>

(* INSERT ... ON CONFLICT DO NOTHING, then batch = [].  *)
InsertRows(c, f) ==
    /\ f \in reader[c].flights
    /\ campaign[c].live
    /\ recipients' = [recipients EXCEPT ![c] = @ \cup AddressesOf(FileOf(c), f.rows)]
    /\ reader' = [reader EXCEPT ![c].batch = {}, ![c].flights = @ \ {f}]
    /\ IF f.last THEN JobGoes(c, "count") ELSE UNCHANGED job
    /\ UNCHANGED <<upload, objects, source, create, campaign, adding>>

(* A rejected INSERT (for want of the campaign's row, say) fails the job    *)
(* while streamRows or the last flush is awaited; later nobody listens.     *)
InsertFails(c, f) ==
    /\ f \in reader[c].flights
    /\ "insert" \in Faults \/ ~campaign[c].live
    /\ reader' = [reader EXCEPT ![c].flights = @ \ {f}]
    /\ IF f.last \/ job[c].at = "rows" THEN JobGoes(c, "fail") ELSE UNCHANGED job
    /\ UNCHANGED <<upload, objects, source, create, campaign, recipients, adding>>

(* count; the calls of addRecipient it overlaps are noted for TotalDrift.   *)
SeededRecipientCount(c) == Cardinality(Lines(FileOf(c)))

RecipientCount(c) == Cardinality(recipients[c])

CountRecipients(c) ==
    /\ job[c].at = "count"
    /\ job' = [job EXCEPT ![c].at = "finish", ![c].counted = RecipientCount(c)]
    /\ adding' = [x \in DOMAIN adding |->
                    IF x[1] = c /\ adding[x].at = "counting"
                    THEN [adding[x] EXCEPT !.raced = TRUE] ELSE adding[x]]
    /\ UNCHANGED <<upload, objects, source, create, campaign, recipients, reader>>

FinishParse(c) ==
    /\ job[c].at = "finish"
    /\ campaign' = IF campaign[c].live
                   THEN [campaign EXCEPT ![c].parse = "done", ![c].total = job[c].counted]
                   ELSE campaign
    /\ JobGoes(c, "ack")
    /\ UNCHANGED <<upload, objects, source, create, recipients, adding, reader>>

(* catch: "failed", a message, and UnrecoverableError.                      *)
SeededFailure(c) == UNCHANGED campaign

Failure(c) == WriteParse(c, "failed")

MarkFailed(c) ==
    /\ job[c].at = "fail"
    /\ Failure(c)
    /\ JobGoes(c, "failed")
    /\ UNCHANGED <<upload, objects, source, create, recipients, adding, reader>>

Complete(c) ==
    /\ job[c].at = "ack"
    /\ JobGoes(c, "completed")
    /\ UNCHANGED <<upload, objects, source, create, campaign, recipients, adding,
                   reader>>

(* Another await throws: inside the try it is caught, outside it is a retry. *)
ParseThrows(c) ==
    /\ "parse" \in Faults
    /\ \/ job[c].at \in {"mark", "open", "count", "finish", "fail"}
       \/ job[c].at = "rows" /\ Type(c) = "csv"
    /\ IF job[c].at \in {"mark", "fail"}
       THEN job' = [job EXCEPT ![c] = Retry(@)]
       ELSE JobGoes(c, "fail")
    /\ UNCHANGED <<upload, objects, source, create, campaign, recipients, adding,
                   reader>>

(* A process dies: what it read is forgotten, its jobs stall.               *)
Stalled(j) == [j EXCEPT !.stalls = @ + 1,
                        !.at = IF j.stalls >= MaxStalls THEN "failed" ELSE "waiting"]

Crash(p) ==
    LET hit == {c \in Campaigns : job[c].proc = p}
    IN
    /\ "crash" \in Faults
    /\ \E c \in hit : job[c].at \in ActiveAt \/ reader[c].open
    /\ job' = [c \in Campaigns |-> IF c \in hit /\ job[c].at \in ActiveAt
                                   THEN Stalled(job[c]) ELSE job[c]]
    /\ reader' = [c \in Campaigns |-> IF c \in hit THEN NoReader ELSE reader[c]]
    /\ UNCHANGED <<upload, objects, source, create, campaign, recipients, adding>>

ParseStep(c) ==
    \/ MarkProcessing(c)
    \/ OpenFile(c)
    \/ ReadRow(c)
    \/ EndOfRows(c)
    \/ \E f \in reader[c].flights : InsertRows(c, f) \/ InsertFails(c, f)
    \/ CountRecipients(c)
    \/ FinishParse(c)
    \/ MarkFailed(c)
    \/ Complete(c)
=============================================================================
