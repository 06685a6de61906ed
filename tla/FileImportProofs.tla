-------------------------- MODULE FileImportProofs --------------------------
(***************************************************************************)
(* The file import for any files, campaigns, processes, batch sizes and    *)
(* failures.  ImportFacts is inductive: types; what the parse holds in     *)
(* memory is finite; and the groups of facts the theorems need.  Tally     *)
(* adds to it what a parse counted while recipients were added by hand.    *)
(***************************************************************************)
EXTENDS FileImport, FiniteSetTheorems, TLAPS

(* What a parse holds and has stored can be counted, and comes from the file *)
(* its campaign was created with; a request queues its job last.             *)
Held(c) ==
    /\ create[c].at # "unused" => create[c].file \in Files
    /\ create[c].at # "done" => job[c].at = "absent"
    /\ job[c].at = "absent" => reader[c] = NoReader
    /\ IsFiniteSet(recipients[c])
    /\ IsFiniteSet(reader[c].batch) /\ reader[c].batch \subseteq Lines(FileOf(c))
    /\ \A f \in reader[c].flights : IsFiniteSet(f.rows) /\ f.rows \subseteq Lines(FileOf(c))

(* An upload states the type of the bytes it has stored. *)
Stored(u) ==
    /\ source[u] # "none" => u \in objects /\ source[u] = Contents[u].format
    /\ upload[u] = "save" => u \in objects /\ Contents[u].format = "xlsx"

ImportTypes == /\ TypeOK
               /\ \A c \in Campaigns : Held(c)
               /\ \A u \in Files : Stored(u)

(* A campaign is there from its request on, and one that is gone has nothing. *)
Created(c) ==
    /\ ~campaign[c].live => campaign[c] = NoRow
    /\ create[c].at = "unused" => ~campaign[c].live

AllCreated == \A c \in Campaigns : Created(c)

(* ProcessingMeansWork, and what a job that is acknowledged has written.     *)
Worked(c) ==
    /\ ~campaign[c].live => campaign[c].parse = "pending"
    /\ job[c].at \in {"absent", "ack", "completed"} => campaign[c].parse # "processing"
    /\ campaign[c].parse = "processing" =>
        \/ job[c].at \in ActiveAt \cup {"waiting"}
        \/ /\ job[c].at = "failed"
           /\ job[c].attemptsMade >= Attempts \/ job[c].stalls > MaxStalls

(* An address spelled its own way was added by hand. *)
Spelled(c) == \A a \in recipients[c] : a[2] = "lower" \/ a \in ByHand(c)

-----------------------------------------------------------------------------
LEMMA ImageIsFinite ==
  ASSUME NEW S, IsFiniteSet(S), NEW T, NEW f \in [S -> T]
  PROVE  IsFiniteSet({f[x] : x \in S})
<1>. DEFINE I == {f[x] : x \in S}
<1>1. f \in [S -> I]
  OBVIOUS
<1>2. \A t \in I : \E x \in S : f[x] = t
  OBVIOUS
<1>. HIDE DEF I
<1>3. f \in Surjection(S, I)
  BY <1>1, <1>2 DEF Surjection
<1>4. IsFiniteSet(I)
  BY <1>3, FS_Surjection
<1>. QED  BY <1>4 DEF I

LEMMA SequenceIsFinite == ASSUME NEW A, NEW s \in Seq(A) PROVE IsFiniteSet(DOMAIN s)
<1>1. Len(s) \in Nat
  OBVIOUS
<1>2. IsFiniteSet(1..Len(s))
  BY <1>1, FS_Interval
<1>. QED  BY <1>2

LEMMA ElementOfSeq == ASSUME NEW A, NEW s \in Seq(A), NEW i \in DOMAIN s PROVE s[i] \in A
  OBVIOUS

(* A row of a file gives finitely many addresses, normalised.                *)
LEMMA CellsAreAddresses ==
  ASSUME NEW u \in Files, NEW i \in Lines(u), NEW columns
  PROVE  /\ EmailCells(Contents[u].rows[i], columns) \subseteq Addresses
         /\ IsFiniteSet(EmailCells(Contents[u].rows[i], columns))
<1>. DEFINE row == Contents[u].rows[i]
            K == columns \cap DOMAIN row
            f == [j \in K |-> row[j]]
<1>1. row \in Seq(Addresses)
  <2>1. Contents[u].rows \in Seq(Seq(Addresses))
    BY FilesAssumption
  <2>. QED  BY <2>1, ElementOfSeq DEF Lines
<1>2. IsFiniteSet(K)
  <2>1. IsFiniteSet(DOMAIN row)
    BY <1>1, SequenceIsFinite
  <2>. QED  BY <2>1, FS_Subset
<1>3. f \in [K -> Addresses]
  BY <1>1
<1>4. EmailCells(row, columns) = {f[j] : j \in K} \ {Empty}
  BY DEF EmailCells
<1>5. IsFiniteSet({f[j] : j \in K})
  <2>. HIDE DEF K, f
  <2>. QED  BY <1>2, <1>3, ImageIsFinite
<1>6. {f[j] : j \in K} \subseteq Addresses
  BY <1>3
<1>. HIDE DEF f, K, row
<1>7. IsFiniteSet({f[j] : j \in K} \ {Empty})
  BY <1>5, FS_Difference
<1>8. row = Contents[u].rows[i]
  BY DEF row
<1>. QED  BY <1>4, <1>6, <1>7, <1>8

LEMMA RowAddresses ==
  ASSUME NEW u \in Files, NEW i \in Lines(u)
  PROVE  /\ AddressOf(u, i) \subseteq Addresses
         /\ IsFiniteSet(AddressOf(u, i))
         /\ \A a \in AddressOf(u, i) : a[2] = "lower"
<1>. DEFINE C == EmailCells(Contents[u].rows[i], EmailColumns(u))
            f == [a \in C |-> Lower(a)]
<1>1. C \subseteq Addresses /\ IsFiniteSet(C)
  BY CellsAreAddresses
<1>2. AddressOf(u, i) = {f[a] : a \in C}
  BY DEF AddressOf, Normalised
<1>3. \A a \in Addresses : Lower(a) \in Addresses /\ Lower(a)[2] = "lower"
  BY DEF Addresses, Lower
<1>4. f \in [C -> Addresses]
  BY <1>1, <1>3
<1>5. \A a \in C : f[a] \in Addresses /\ f[a][2] = "lower"
  BY <1>1, <1>3
<1>6. IsFiniteSet({f[a] : a \in C})
  <2>. HIDE DEF C, f
  <2>. QED  BY <1>1, <1>4, ImageIsFinite
<1>. HIDE DEF C, f
<1>. QED  BY <1>2, <1>5, <1>6

LEMMA BatchAddresses ==
  ASSUME NEW u \in Files, NEW I \in SUBSET Lines(u), IsFiniteSet(I)
  PROVE  /\ AddressesOf(u, I) \subseteq Addresses
         /\ IsFiniteSet(AddressesOf(u, I))
         /\ \A a \in AddressesOf(u, I) : a[2] = "lower"
<1>. DEFINE f == [i \in I |-> AddressOf(u, i)]
<1>1. AddressesOf(u, I) = UNION {f[i] : i \in I}
  BY DEF AddressesOf
<1>2. f \in [I -> SUBSET Addresses]
  BY RowAddresses
<1>3. \A i \in I : /\ IsFiniteSet(f[i])
                   /\ f[i] \subseteq Addresses
                   /\ \A a \in f[i] : a[2] = "lower"
  BY RowAddresses
<1>. HIDE DEF f
<1>4. IsFiniteSet({f[i] : i \in I})
  BY <1>2, ImageIsFinite
<1>5. IsFiniteSet(UNION {f[i] : i \in I})
  BY <1>3, <1>4, FS_UNION
<1>. QED  BY <1>1, <1>3, <1>5

-----------------------------------------------------------------------------
LEMMA HandPlaces == \A x \in HandAdded : x[1] \in Campaigns /\ x[2] \in Addresses
  BY ImportAssumption

LEMMA StoredTypes == \A u \in Files : upload[u] = "save" /\ Stored(u) => StoredType(u) = "xlsx"
  BY DEF StoredType, Detected, Stored

(* A flight carries finitely many addresses. *)
LEMMA FlightAddresses ==
  ASSUME ImportTypes, NEW c \in Campaigns, NEW f \in reader[c].flights
  PROVE  /\ AddressesOf(FileOf(c), f.rows) \subseteq Addresses
         /\ IsFiniteSet(AddressesOf(FileOf(c), f.rows))
         /\ \A a \in AddressesOf(FileOf(c), f.rows) : a[2] = "lower"
<1>1. Held(c)
  BY DEF ImportTypes
<1>2. reader[c] # NoReader
  BY DEF NoReader
<1>3. FileOf(c) \in Files
  BY <1>1, <1>2 DEF Held, FileOf, ImportTypes, TypeOK, Create, CreatePlaces
<1>4. IsFiniteSet(f.rows) /\ f.rows \subseteq Lines(FileOf(c))
  BY <1>1 DEF Held
<1>. QED  BY <1>3, <1>4, BatchAddresses

LEMMA CountsAreNumbers ==
  ASSUME ImportTypes, NEW c \in Campaigns PROVE RecipientCount(c) \in Nat
  BY FS_CardinalityType DEF ImportTypes, Held, RecipientCount

JobPlaces == ActiveAt \cup {"absent", "waiting", "completed", "failed"}

LEMMA Places ==
  {"absent", "waiting", "completed", "failed", "mark", "open", "rows", "flush", "count",
   "finish", "fail", "ack"} \subseteq JobPlaces
  BY DEF JobPlaces, ActiveAt

LEMMA JobGoesOn ==
  ASSUME TypeOK, NEW c \in Campaigns, NEW place, JobGoes(c, place), place \in JobPlaces
  PROVE  job' \in [Campaigns -> Job]
<1>1. [job[c] EXCEPT !.at = place] \in Job
  BY DEF TypeOK, Job, JobPlaces
<1>. QED  BY <1>1 DEF TypeOK, JobGoes

LEMMA JobStarts ==
  ASSUME TypeOK, NEW c \in Campaigns, NEW p \in Processes, StartJob(c, p)
  PROVE  job' \in [Campaigns -> Job]
<1>1. [job[c] EXCEPT !.at = "mark", !.proc = p] \in Job
  BY DEF TypeOK, Job, ActiveAt
<1>. QED  BY <1>1 DEF TypeOK, StartJob

LEMMA JobCounts ==
  ASSUME ImportTypes, NEW c \in Campaigns, CountRecipients(c)
  PROVE  job' \in [Campaigns -> Job]
<1>1. [job[c] EXCEPT !.at = "finish", !.counted = RecipientCount(c)] \in Job
  BY CountsAreNumbers DEF ImportTypes, TypeOK, Job, ActiveAt
<1>. QED  BY <1>1 DEF ImportTypes, TypeOK, CountRecipients

LEMMA RetryIsJob == ASSUME NEW j \in Job PROVE Stalled(j) \in Job /\ Retry(j) \in Job
<1>1. {"waiting", "failed"} \subseteq JobPlaces
  BY DEF JobPlaces
<1>2. j.attemptsMade + 1 \in Nat /\ j.stalls + 1 \in Nat
  BY DEF Job
<1>3. \A place \in JobPlaces :
        /\ [j EXCEPT !.attemptsMade = j.attemptsMade + 1, !.at = place] \in Job
        /\ [j EXCEPT !.stalls = j.stalls + 1, !.at = place] \in Job
  BY <1>2 DEF Job, JobPlaces
<1>4. (IF j.attemptsMade + 1 >= Attempts THEN "failed" ELSE "waiting") \in JobPlaces
  BY <1>1
<1>5. (IF j.stalls >= MaxStalls THEN "failed" ELSE "waiting") \in JobPlaces
  BY <1>1
<1>. QED  BY <1>3, <1>4, <1>5 DEF Stalled, Retry

(* The writes to a campaign's row. *)
LEMMA RowWrites ==
  ASSUME TypeOK, NEW c \in Campaigns
  PROVE  /\ [campaign EXCEPT ![c].live = TRUE] \in [Campaigns -> Row]
         /\ [campaign EXCEPT ![c] = Incremented(@)] \in [Campaigns -> Row]
         /\ \A u \in Files \cup {NoFile} : [campaign EXCEPT ![c].file = u] \in [Campaigns -> Row]
         /\ \A status \in {"pending", "processing", "done", "failed"} :
              [campaign EXCEPT ![c].parse = status] \in [Campaigns -> Row]
         /\ \A n \in Nat :
              [campaign EXCEPT ![c].parse = "done", ![c].total = n] \in [Campaigns -> Row]
<1>1. campaign[c] \in Row
  BY DEF TypeOK
<1>2. /\ [campaign[c] EXCEPT !.live = TRUE] \in Row
      /\ \A u \in Files \cup {NoFile} : [campaign[c] EXCEPT !.file = u] \in Row
      /\ \A status \in {"pending", "processing", "done", "failed"} :
           [campaign[c] EXCEPT !.parse = status] \in Row
      /\ \A n \in Nat : [campaign[c] EXCEPT !.parse = "done", !.total = n] \in Row
  BY <1>1 DEF Row, ParseStatus
<1>3. Incremented(campaign[c]) \in Row
  BY <1>1 DEF Row, Incremented
<1>. QED  BY <1>2, <1>3 DEF TypeOK

LEMMA ReaderMoves ==
  ASSUME TypeOK, NEW c \in Campaigns
  PROVE  /\ NoReader \in Reader
         /\ [reader EXCEPT ![c] = [NoReader EXCEPT !.open = TRUE]] \in [Campaigns -> Reader]
         /\ \A f : [reader EXCEPT ![c].flights = @ \ {f}] \in [Campaigns -> Reader]
         /\ \A f : [reader EXCEPT ![c].batch = {}, ![c].flights = @ \ {f}] \in [Campaigns -> Reader]
         /\ \A f \in Flight : [reader EXCEPT ![c].flights = @ \cup {f}] \in [Campaigns -> Reader]
<1>1. reader[c] \in Reader
  BY DEF TypeOK
<1>2. NoReader \in Reader
  BY DEF NoReader, Reader
<1>3. [NoReader EXCEPT !.open = TRUE] \in Reader
  BY <1>2 DEF Reader
<1>4. \A f : /\ [reader[c] EXCEPT !.flights = @ \ {f}] \in Reader
             /\ [reader[c] EXCEPT !.batch = {}, !.flights = @ \ {f}] \in Reader
  BY <1>1 DEF Reader
<1>5. \A f \in Flight : [reader[c] EXCEPT !.flights = @ \cup {f}] \in Reader
  BY <1>1 DEF Reader
<1>. QED  BY <1>2, <1>3, <1>4, <1>5 DEF TypeOK

LEMMA ReaderReads ==
  ASSUME TypeOK, NEW c \in Campaigns, ReadRow(c) PROVE reader' \in [Campaigns -> Reader]
<1>. DEFINE i     == reader[c].next
            batch == IF AddressOf(FileOf(c), i) = {} THEN reader[c].batch
                     ELSE reader[c].batch \cup {i}
            flush == batch # reader[c].batch /\ Cardinality(batch) >= BatchSize
            flights == IF flush THEN reader[c].flights \cup {[rows |-> batch, last |-> FALSE]}
                       ELSE reader[c].flights
<1>1. reader[c] \in Reader
  BY DEF TypeOK
<1>2. i \in Nat /\ i + 1 \in Nat \ {0} /\ batch \in SUBSET Nat
  BY <1>1 DEF Reader
<1>3. flights \in SUBSET Flight
  <2>1. reader[c].flights \in SUBSET Flight
    BY <1>1 DEF Reader
  <2>2. [rows |-> batch, last |-> FALSE] \in Flight
    BY <1>2 DEF Flight
  <2>. HIDE DEF batch, flush
  <2>. QED  BY <2>1, <2>2
<1>4. reader' = [reader EXCEPT ![c].next = i + 1, ![c].batch = batch, ![c].flights = flights]
  BY DEF ReadRow
<1>. HIDE DEF i, batch, flights
<1>5. [reader[c] EXCEPT !.next = i + 1, !.batch = batch, !.flights = flights] \in Reader
  BY <1>1, <1>2, <1>3 DEF Reader
<1>. QED  BY <1>4, <1>5 DEF TypeOK

LEMMA ReaderEnds ==
  ASSUME TypeOK, NEW c \in Campaigns, EndOfRows(c) PROVE reader' \in [Campaigns -> Reader]
<1>1. [rows |-> reader[c].batch, last |-> TRUE] \in Flight
  BY DEF TypeOK, Reader, Flight
<1>2. \/ reader' = reader
      \/ reader' = [reader EXCEPT ![c].flights =
                      @ \cup {[rows |-> reader[c].batch, last |-> TRUE]}]
  BY DEF EndOfRows, Remaining
<1>3. [reader EXCEPT ![c].flights = @ \cup {[rows |-> reader[c].batch, last |-> TRUE]}]
        \in [Campaigns -> Reader]
  BY <1>1, ReaderMoves
<1>. QED  BY <1>2, <1>3 DEF TypeOK

LEMMA RequestFile ==
  ASSUME TypeOK, NEW c \in Campaigns PROVE create[c].file \in Files \cup {NoFile}
  BY DEF TypeOK, Create

LEMMA Linking ==
  ASSUME TypeOK, NEW c \in Campaigns, LinkDataSource(c)
  PROVE  campaign' \in [Campaigns -> Row]
<1>1. [campaign EXCEPT ![c].file = create[c].file] \in [Campaigns -> Row]
  BY RowWrites, RequestFile
<1>. QED  BY <1>1 DEF LinkDataSource, TypeOK

LEMMA Retrying ==
  ASSUME TypeOK, NEW c \in Campaigns, NEW place, place \in JobPlaces,
         job' = [job EXCEPT ![c] = Retry(@)] \/ JobGoes(c, place)
  PROVE  job' \in [Campaigns -> Job]
<1>1. [job EXCEPT ![c] = Retry(@)] \in [Campaigns -> Job]
  BY RetryIsJob DEF TypeOK
<1>. QED  BY <1>1, JobGoesOn

(* A step of a parse leaves "absent" what was, and nothing else. *)
LEMMA Busy ==
  ASSUME TypeOK, NEW c \in Campaigns, NEW d \in Campaigns, job[c].at # "absent",
         \/ job' = job
         \/ job' = [job EXCEPT ![c] = Retry(@)]
         \/ JobGoes(c, "open") \/ JobGoes(c, "rows") \/ JobGoes(c, "flush")
         \/ JobGoes(c, "count") \/ JobGoes(c, "fail") \/ JobGoes(c, "failed")
  PROVE  job'[d].at = "absent" <=> job[d].at = "absent"
<1>1. job[c] \in Job /\ job[d] \in Job
  BY DEF TypeOK
<1>2. CASE job' = job
  BY <1>2
<1>3. CASE job' = [job EXCEPT ![c] = Retry(@)]
  <2>1. Retry(job[c]).at # "absent"
    BY <1>1 DEF Retry, Job
  <2>. QED  BY <1>3, <2>1 DEF TypeOK
<1>4. ASSUME NEW place, place # "absent", JobGoes(c, place)
      PROVE  job'[d].at = "absent" <=> job[d].at = "absent"
  BY <1>1, <1>4 DEF JobGoes, TypeOK, Job
<1>. QED  BY <1>2, <1>3, <1>4

(* Where a retry, a stall or a step of the parse leaves the job. *)
LEMMA Retried ==
  ASSUME NEW j \in Job
  PROVE  \/ Retry(j).at = "waiting"
         \/ Retry(j).at = "failed" /\ Retry(j).attemptsMade >= Attempts
  BY DEF Retry, Job

LEMMA Stalls ==
  ASSUME NEW j \in Job
  PROVE  \/ Stalled(j).at = "waiting"
         \/ Stalled(j).at = "failed" /\ Stalled(j).stalls > MaxStalls
<1>1. j.stalls \in Nat /\ MaxStalls \in Nat
  BY ImportAssumption DEF Job
<1>2. Stalled(j).stalls = j.stalls + 1
      /\ Stalled(j).at = IF j.stalls >= MaxStalls THEN "failed" ELSE "waiting"
  BY DEF Stalled, Job
<1>. QED  BY <1>1, <1>2

LEMMA CrashLeaves ==
  ASSUME TypeOK, NEW p \in Processes, NEW d \in Campaigns, Crash(p)
  PROVE  \/ job'[d] = job[d]
         \/ job[d].at \in ActiveAt /\ job'[d].at = "waiting"
         \/ job[d].at \in ActiveAt /\ job'[d].at = "failed" /\ job'[d].stalls > MaxStalls
<1>1. job[d] \in Job
  BY DEF TypeOK
<1>2. job'[d] = job[d] \/ (job[d].at \in ActiveAt /\ job'[d] = Stalled(job[d]))
  BY DEF Crash
<1>. QED  BY <1>1, <1>2, Stalls

LEMMA Moves ==
  ASSUME TypeOK, NEW c \in Campaigns, NEW d \in Campaigns,
         \/ job' = [job EXCEPT ![c] = Retry(@)]
         \/ JobGoes(c, "open") \/ JobGoes(c, "rows") \/ JobGoes(c, "fail")
  PROVE  \/ job'[d] = job[d] /\ d # c
         \/ job'[d].at \in {"waiting", "open", "rows", "fail"}
         \/ job'[d].at = "failed" /\ job'[d].attemptsMade >= Attempts
<1>1. job[c] \in Job /\ job[d] \in Job
  BY DEF TypeOK
<1>2. CASE job' = [job EXCEPT ![c] = Retry(@)]
  <2>1. job'[d] = IF c = d THEN Retry(job[d]) ELSE job[d]
    BY <1>2 DEF TypeOK
  <2>. QED  BY <1>1, <2>1, Retried
<1>3. ASSUME NEW place \in {"open", "rows", "fail"}, JobGoes(c, place)
      PROVE  (job'[d] = job[d] /\ d # c) \/ job'[d].at = place
  BY <1>1, <1>3 DEF JobGoes, TypeOK, Job
<1>. QED  BY <1>2, <1>3

LEMMA LinkingKeeps ==
  ASSUME TypeOK, NEW c \in Campaigns, NEW d \in Campaigns, LinkDataSource(c)
  PROVE  /\ campaign'[d].parse = campaign[d].parse
         /\ campaign'[d].live = campaign[d].live
         /\ ~campaign[d].live => campaign'[d] = campaign[d]
<1>1. campaign[c] \in Row /\ campaign[d] \in Row /\ DOMAIN campaign = Campaigns
  BY DEF TypeOK
<1>2. \/ campaign' = campaign
      \/ campaign[c].live /\ campaign' = [campaign EXCEPT ![c].file = create[c].file]
  BY DEF LinkDataSource
<1>. QED  BY <1>1, <1>2 DEF Row

(* A PATCH of the link writes that column only. *)
LEMMA PatchKeeps ==
  ASSUME TypeOK, NEW c \in Campaigns, NEW u \in Files \cup {NoFile}, PatchDataSource(c, u)
  PROVE  /\ campaign' \in [Campaigns -> Row]
         /\ UNCHANGED <<upload, objects, source, create, recipients, adding, job, reader>>
         /\ \A d \in Campaigns :
              /\ campaign'[d].live = campaign[d].live /\ campaign'[d].parse = campaign[d].parse
              /\ campaign'[d].total = campaign[d].total
              /\ ~campaign[d].live => campaign'[d] = campaign[d]
<1>1. campaign' = [campaign EXCEPT ![c].file = u] /\ campaign[c].live
      /\ UNCHANGED <<upload, objects, source, create, recipients, adding, job, reader>>
  BY DEF PatchDataSource
<1>2. campaign' \in [Campaigns -> Row]
  BY <1>1, RowWrites
<1>. QED  BY <1>1, <1>2 DEF TypeOK, Row

LEMMA ReaderRead ==
  ASSUME TypeOK, NEW c \in Campaigns, ReadRow(c)
  PROVE  /\ \A d \in Campaigns \ {c} : reader'[d] = reader[d]
         /\ reader[c] # NoReader
         /\ reader[c].next \in Lines(FileOf(c))
         /\ reader'[c].batch \in {reader[c].batch, reader[c].batch \cup {reader[c].next}}
         /\ \A f \in reader'[c].flights : f \in reader[c].flights \/ f.rows = reader'[c].batch
<1>. DEFINE batch == IF AddressOf(FileOf(c), reader[c].next) = {} THEN reader[c].batch
                     ELSE reader[c].batch \cup {reader[c].next}
            flights == IF batch # reader[c].batch /\ Cardinality(batch) >= BatchSize
                       THEN reader[c].flights \cup {[rows |-> batch, last |-> FALSE]}
                       ELSE reader[c].flights
<1>1. reader[c] \in Reader /\ DOMAIN reader = Campaigns
  BY DEF TypeOK
<1>2. reader' = [reader EXCEPT ![c].next = reader[c].next + 1, ![c].batch = batch,
                               ![c].flights = flights]
  BY DEF ReadRow
<1>3. reader[c] # NoReader /\ reader[c].next \in Lines(FileOf(c))
  <2>1. reader[c].open /\ reader[c].next \in Lines(FileOf(c))
    BY DEF ReadRow
  <2>2. ~NoReader.open
    BY DEF NoReader
  <2>. QED  BY <2>1, <2>2
<1>4. batch \in {reader[c].batch, reader[c].batch \cup {reader[c].next}}
  OBVIOUS
<1>5. \A f \in flights : f \in reader[c].flights \/ f.rows = batch
  <2>. HIDE DEF batch
  <2>. QED  OBVIOUS
<1>. HIDE DEF batch, flights
<1>6. reader'[c].batch = batch /\ reader'[c].flights = flights
      /\ \A d \in Campaigns \ {c} : reader'[d] = reader[d]
  BY <1>1, <1>2 DEF Reader
<1>. QED  BY <1>3, <1>4, <1>5, <1>6

LEMMA ReaderOpened ==
  ASSUME TypeOK, NEW c \in Campaigns, NEW d \in Campaigns, OpenFile(c)
  PROVE  \/ reader'[d] = reader[d]
         \/ d = c /\ reader'[d].batch = {} /\ reader'[d].flights = {}
<1>. DEFINE opened == [NoReader EXCEPT !.open = TRUE]
<1>1. opened.batch = {} /\ opened.flights = {}
  BY DEF NoReader
<1>2. reader' = reader \/ reader' = [reader EXCEPT ![c] = opened]
  BY DEF OpenFile
<1>3. DOMAIN reader = Campaigns
  BY DEF TypeOK
<1>. HIDE DEF opened
<1>4. CASE c = d
  BY <1>1, <1>2, <1>3, <1>4
<1>5. CASE c # d
  BY <1>2, <1>3, <1>5
<1>. QED  BY <1>4, <1>5

LEMMA OneMore == ASSUME NEW S, IsFiniteSet(S), NEW a PROVE IsFiniteSet(S \cup {a})
  BY FS_AddElement

LEMMA ReaderEnded ==
  ASSUME TypeOK, NEW c \in Campaigns, EndOfRows(c)
  PROVE  /\ \A d \in Campaigns \ {c} : reader'[d] = reader[d]
         /\ reader'[c].batch = reader[c].batch
         /\ \A f \in reader'[c].flights : f \in reader[c].flights \/ f.rows = reader[c].batch
<1>1. reader[c] \in Reader /\ DOMAIN reader = Campaigns
  BY DEF TypeOK
<1>. QED  BY <1>1 DEF EndOfRows, Reader, Remaining

LEMMA ReaderInserted ==
  ASSUME TypeOK, NEW c \in Campaigns, NEW f \in reader[c].flights,
         InsertRows(c, f) \/ InsertFails(c, f)
  PROVE  /\ \A d \in Campaigns \ {c} : reader'[d] = reader[d]
         /\ reader[c] # NoReader
         /\ reader'[c].batch \in {reader[c].batch, {}}
         /\ reader'[c].flights \subseteq reader[c].flights
<1>1. reader[c] \in Reader /\ DOMAIN reader = Campaigns
  BY DEF TypeOK
<1>. QED  BY <1>1 DEF InsertRows, InsertFails, Reader, NoReader

LEMMA TypesInit == Init => TypeOK
<1>. SUFFICES ASSUME Init PROVE TypeOK
  OBVIOUS
<1>. USE DEF Init
<1>1. upload \in [Files -> UploadPlaces] /\ objects \subseteq Files
  BY FilesAssumption DEF UploadPlaces
<1>2. source \in [Files -> {"xlsx", "csv", "none"}]
  BY FilesAssumption, StoredAssumption DEF Formats
<1>3. create \in [Campaigns -> Create]
  BY DEF Create, CreatePlaces
<1>4. campaign \in [Campaigns -> Row]
  BY DEF Row, NoRow, ParseStatus
<1>5. recipients \in [Campaigns -> SUBSET Addresses] /\ adding \in [HandAdded -> Add]
  BY DEF Add, AddPlaces
<1>6. job \in [Campaigns -> Job]
  BY DEF Job, NoJob
<1>7. reader \in [Campaigns -> Reader]
  BY DEF Reader, NoReader
<1>. QED  BY <1>1, <1>2, <1>3, <1>4, <1>5, <1>6, <1>7 DEF TypeOK

LEMMA TypesStep == ASSUME ImportTypes, [Next]_vars PROVE TypeOK'
<1>. TypeOK
  BY DEF ImportTypes
<1>1. ASSUME NEW c \in Campaigns, NEW u \in Files, SaveCampaign(c, u) PROVE TypeOK'
  <2>. USE <1>1 DEF SaveCampaign
  <2>1. create' \in [Campaigns -> Create]
    BY DEF TypeOK, Create, CreatePlaces
  <2>2. campaign' \in [Campaigns -> Row]
    BY RowWrites DEF TypeOK
  <2>. QED  BY <2>1, <2>2 DEF TypeOK
<1>2. ASSUME NEW x \in HandAdded, AddRecipient(x) PROVE TypeOK'
  <2>. USE <1>2 DEF AddRecipient
  <2>1. recipients' \in [Campaigns -> SUBSET Addresses]
    BY HandPlaces DEF TypeOK
  <2>2. adding' \in [HandAdded -> Add]
    BY DEF TypeOK, Add, AddPlaces, Counting
  <2>. QED  BY <2>1, <2>2 DEF TypeOK
<1>3. ASSUME NEW c \in Campaigns, Remove(c) PROVE TypeOK'
  <2>. USE <1>3 DEF Remove
  <2>1. campaign' \in [Campaigns -> Row]
    BY DEF TypeOK, Row, NoRow, ParseStatus
  <2>2. recipients' \in [Campaigns -> SUBSET Addresses]
    BY DEF TypeOK
  <2>. QED  BY <2>1, <2>2 DEF TypeOK
<1>4. ASSUME NEW u \in Files, Preview(u) PROVE TypeOK'
  <2>. USE <1>4 DEF Preview, UploadGoes
  <2>1. upload' \in [Files -> UploadPlaces]
    BY DEF TypeOK, UploadPlaces
  <2>. QED  BY <2>1 DEF TypeOK
<1>5. ASSUME NEW u \in Files, PushFileOnCloud(u) PROVE TypeOK'
  <2>. USE <1>5 DEF PushFileOnCloud, UploadGoes, Detected
  <2>1. upload' \in [Files -> UploadPlaces]
    BY DEF TypeOK, UploadPlaces
  <2>2. objects' \in SUBSET Files
    BY DEF TypeOK
  <2>. QED  BY <2>1, <2>2 DEF TypeOK
<1>6. ASSUME NEW u \in Files, SaveDataSource(u) PROVE TypeOK'
  <2>. USE <1>6 DEF SaveDataSource, UploadGoes
  <2>1. upload' \in [Files -> UploadPlaces]
    BY DEF TypeOK, UploadPlaces
  <2>2. source' \in [Files -> {"xlsx", "csv", "none"}]
    BY StoredTypes DEF TypeOK, ImportTypes
  <2>. QED  BY <2>1, <2>2 DEF TypeOK
<1>7. ASSUME NEW u \in Files, FinishUpload(u) PROVE TypeOK'
  <2>. USE <1>7 DEF FinishUpload, UploadGoes
  <2>1. upload' \in [Files -> UploadPlaces]
    BY DEF TypeOK, UploadPlaces
  <2>. QED  BY <2>1 DEF TypeOK
<1>8. ASSUME NEW c \in Campaigns, LinkDataSource(c) PROVE TypeOK'
  <2>. USE <1>8 DEF LinkDataSource, CreateGoes
  <2>1. create' \in [Campaigns -> Create]
    BY DEF TypeOK, Create, CreatePlaces
  <2>2. campaign' \in [Campaigns -> Row]
    BY Linking
  <2>. QED  BY <2>1, <2>2 DEF TypeOK
<1>9. ASSUME NEW c \in Campaigns, EnqueueParseFile(c) PROVE TypeOK'
  <2>. USE <1>9 DEF EnqueueParseFile, CreateGoes
  <2>1. create' \in [Campaigns -> Create]
    BY DEF TypeOK, Create, CreatePlaces
  <2>2. job' \in [Campaigns -> Job]
    BY JobGoesOn, Places DEF JobGoes
  <2>. QED  BY <2>1, <2>2 DEF TypeOK
<1>10. ASSUME NEW x \in HandAdded, CountRecipient(x) PROVE TypeOK'
  <2>. USE <1>10 DEF CountRecipient, Incremented
  <2>1. campaign' \in [Campaigns -> Row]
    BY HandPlaces, RowWrites DEF TypeOK
  <2>2. adding' \in [HandAdded -> Add]
    BY DEF TypeOK, Add, AddPlaces
  <2>. QED  BY <2>1, <2>2 DEF TypeOK
<1>11. ASSUME NEW c \in Campaigns, NEW p \in Processes, StartJob(c, p) PROVE TypeOK'
  <2>. USE <1>11 DEF StartJob
  <2>1. job' \in [Campaigns -> Job]
    BY JobStarts
  <2>. QED  BY <2>1 DEF TypeOK
<1>12. ASSUME NEW c \in Campaigns, MarkProcessing(c) PROVE TypeOK'
  <2>. USE <1>12 DEF MarkProcessing, WriteParse
  <2>1. campaign' \in [Campaigns -> Row]
    BY RowWrites DEF TypeOK
  <2>2. job' \in [Campaigns -> Job]
    BY Retrying, Places
  <2>. QED  BY <2>1, <2>2 DEF TypeOK
<1>13. ASSUME NEW c \in Campaigns, OpenFile(c) PROVE TypeOK'
  <2>. USE <1>13 DEF OpenFile
  <2>1. job' \in [Campaigns -> Job]
    BY JobGoesOn, Places DEF TypeOK
  <2>2. reader' \in [Campaigns -> Reader]
    BY ReaderMoves DEF TypeOK
  <2>. QED  BY <2>1, <2>2 DEF TypeOK
<1>14. ASSUME NEW c \in Campaigns, ReadRow(c) PROVE TypeOK'
  <2>. USE <1>14 DEF ReadRow
  <2>1. reader' \in [Campaigns -> Reader]
    BY ReaderReads
  <2>. QED  BY <2>1 DEF TypeOK
<1>15. ASSUME NEW c \in Campaigns, EndOfRows(c) PROVE TypeOK'
  <2>. USE <1>15 DEF EndOfRows, JobGoes, Remaining
  <2>1. job' \in [Campaigns -> Job]
    BY JobGoesOn, Places DEF TypeOK
  <2>2. reader' \in [Campaigns -> Reader]
    BY ReaderEnds
  <2>. QED  BY <2>1, <2>2 DEF TypeOK
<1>16. ASSUME NEW c \in Campaigns, NEW f \in reader[c].flights, InsertRows(c, f) PROVE TypeOK'
  <2>. USE <1>16 DEF InsertRows
  <2>1. recipients' \in [Campaigns -> SUBSET Addresses]
    BY FlightAddresses DEF TypeOK
  <2>2. job' \in [Campaigns -> Job]
    BY JobGoesOn, Places DEF TypeOK
  <2>3. reader' \in [Campaigns -> Reader]
    BY ReaderMoves DEF TypeOK
  <2>. QED  BY <2>1, <2>2, <2>3 DEF TypeOK
<1>17. ASSUME NEW c \in Campaigns, NEW f \in reader[c].flights, InsertFails(c, f) PROVE TypeOK'
  <2>. USE <1>17 DEF InsertFails
  <2>1. job' \in [Campaigns -> Job]
    BY JobGoesOn, Places DEF TypeOK
  <2>2. reader' \in [Campaigns -> Reader]
    BY ReaderMoves DEF TypeOK
  <2>. QED  BY <2>1, <2>2 DEF TypeOK
<1>18. ASSUME NEW c \in Campaigns, CountRecipients(c) PROVE TypeOK'
  <2>. USE <1>18 DEF CountRecipients
  <2>1. adding' \in [HandAdded -> Add]
    BY DEF TypeOK, Add, AddPlaces
  <2>2. job' \in [Campaigns -> Job]
    BY JobCounts
  <2>. QED  BY <2>1, <2>2 DEF TypeOK
<1>19. ASSUME NEW c \in Campaigns, FinishParse(c) PROVE TypeOK'
  <2>. USE <1>19 DEF FinishParse
  <2>1. campaign' \in [Campaigns -> Row]
    BY RowWrites DEF TypeOK, Job
  <2>2. job' \in [Campaigns -> Job]
    BY JobGoesOn, Places DEF TypeOK
  <2>. QED  BY <2>1, <2>2 DEF TypeOK
<1>20. ASSUME NEW c \in Campaigns, MarkFailed(c) PROVE TypeOK'
  <2>. USE <1>20 DEF MarkFailed, Failure, WriteParse
  <2>1. campaign' \in [Campaigns -> Row]
    BY RowWrites DEF TypeOK
  <2>2. job' \in [Campaigns -> Job]
    BY JobGoesOn, Places DEF TypeOK
  <2>. QED  BY <2>1, <2>2 DEF TypeOK
<1>21. ASSUME NEW c \in Campaigns, Complete(c) PROVE TypeOK'
  <2>. USE <1>21 DEF Complete
  <2>1. job' \in [Campaigns -> Job]
    BY JobGoesOn, Places DEF TypeOK
  <2>. QED  BY <2>1 DEF TypeOK
<1>22. ASSUME NEW u \in Files, UploadAborts(u) PROVE TypeOK'
  <2>. USE <1>22 DEF UploadAborts, UploadGoes
  <2>1. upload' \in [Files -> UploadPlaces]
    BY DEF TypeOK, UploadPlaces
  <2>. QED  BY <2>1 DEF TypeOK
<1>23. ASSUME NEW c \in Campaigns, CreateAborts(c) PROVE TypeOK'
  <2>. USE <1>23 DEF CreateAborts, CreateGoes
  <2>1. create' \in [Campaigns -> Create]
    BY DEF TypeOK, Create, CreatePlaces
  <2>. QED  BY <2>1 DEF TypeOK
<1>24. ASSUME NEW c \in Campaigns, ParseThrows(c) PROVE TypeOK'
  <2>. USE <1>24 DEF ParseThrows
  <2>1. job' \in [Campaigns -> Job]
    BY Retrying, Places
  <2>. QED  BY <2>1 DEF TypeOK
<1>25. ASSUME NEW x \in HandAdded, AddAborts(x) PROVE TypeOK'
  <2>. USE <1>25 DEF AddAborts
  <2>1. adding' \in [HandAdded -> Add]
    BY DEF TypeOK, Add, AddPlaces
  <2>. QED  BY <2>1 DEF TypeOK
<1>26. ASSUME NEW p \in Processes, Crash(p) PROVE TypeOK'
  <2>. USE <1>26 DEF Crash, Stalled
  <2>1. job' \in [Campaigns -> Job]
    BY RetryIsJob DEF TypeOK
  <2>2. reader' \in [Campaigns -> Reader]
    BY ReaderMoves DEF TypeOK
  <2>. QED  BY <2>1, <2>2 DEF TypeOK
<1>27. CASE UNCHANGED vars
  BY <1>27 DEF vars, TypeOK
<1>28. ASSUME NEW c \in Campaigns, NEW u \in Files \cup {NoFile}, PatchDataSource(c, u) PROVE TypeOK'
  BY <1>28, PatchKeeps DEF TypeOK
<1>. QED
  BY <1>1, <1>2, <1>3, <1>4, <1>5, <1>6, <1>7, <1>8, <1>9, <1>10, <1>11, <1>12, <1>13, <1>14, <1>15, <1>16, <1>17, <1>18, <1>19, <1>20, <1>21, <1>22, <1>23, <1>24, <1>25, <1>26, <1>27, <1>28
     DEF Next, UserStep, WorkStep, FaultStep, UploadStep, CreateStep, ParseStep

LEMMA HeldStep ==
  ASSUME ImportTypes, [Next]_vars PROVE \A d \in Campaigns : Held(d)'
<1>. SUFFICES ASSUME NEW d \in Campaigns PROVE Held(d)'
  OBVIOUS
<1>. TypeOK /\ Held(d)
  BY DEF ImportTypes
<1>. USE DEF TypeOK, Held, FileOf, Create, NoReader
<1>1. ASSUME NEW c \in Campaigns, NEW u \in Files, SaveCampaign(c, u) PROVE Held(d)'
  BY <1>1 DEF SaveCampaign
<1>2. ASSUME NEW x \in HandAdded, AddRecipient(x) PROVE Held(d)'
  <2>1. UNCHANGED <<create, job, reader>>
    BY <1>2 DEF AddRecipient
  <2>2. recipients'[d] = recipients[d] \/ recipients'[d] = recipients[d] \cup {x[2]}
    BY <1>2 DEF AddRecipient
  <2>3. IsFiniteSet(recipients[d] \cup {x[2]})
    BY OneMore
  <2>. QED  BY <2>1, <2>2, <2>3
<1>3. ASSUME NEW c \in Campaigns, Remove(c) PROVE Held(d)'
  BY <1>3, FS_EmptySet DEF Remove
<1>4. ASSUME NEW u \in Files, Preview(u) PROVE Held(d)'
  BY <1>4 DEF Preview, UploadGoes
<1>5. ASSUME NEW u \in Files, PushFileOnCloud(u) PROVE Held(d)'
  BY <1>5 DEF PushFileOnCloud, UploadGoes, Detected
<1>6. ASSUME NEW u \in Files, SaveDataSource(u) PROVE Held(d)'
  BY <1>6 DEF SaveDataSource, UploadGoes
<1>7. ASSUME NEW u \in Files, FinishUpload(u) PROVE Held(d)'
  BY <1>7 DEF FinishUpload, UploadGoes
<1>8. ASSUME NEW c \in Campaigns, LinkDataSource(c) PROVE Held(d)'
  <2>1. job[c].at = "absent" /\ create[c].at # "unused"
    <3>1. Held(c) /\ create[c].at = "link"
      BY <1>8 DEF ImportTypes, LinkDataSource
    <3>. QED  BY <3>1
  <2>2. create'[d].file = create[d].file /\ (d # c => create'[d] = create[d])
        /\ (create'[d].at = "unused" <=> create[d].at = "unused")
    BY <1>8 DEF LinkDataSource, CreateGoes
  <2>3. UNCHANGED <<recipients, job, reader>>
    BY <1>8 DEF LinkDataSource
  <2>. QED  BY <2>1, <2>2, <2>3
<1>9. ASSUME NEW c \in Campaigns, EnqueueParseFile(c) PROVE Held(d)'
  BY <1>9 DEF EnqueueParseFile, CreateGoes
<1>10. ASSUME NEW x \in HandAdded, CountRecipient(x) PROVE Held(d)'
  BY <1>10 DEF CountRecipient, Incremented
<1>11. ASSUME NEW c \in Campaigns, NEW p \in Processes, StartJob(c, p) PROVE Held(d)'
  BY <1>11 DEF StartJob
<1>12. ASSUME NEW c \in Campaigns, MarkProcessing(c) PROVE Held(d)'
  <2>1. job'[d].at = "absent" <=> job[d].at = "absent"
    BY <1>12, Busy DEF MarkProcessing
  <2>2. UNCHANGED <<create, recipients, reader>>
    BY <1>12 DEF MarkProcessing
  <2>. QED  BY <2>1, <2>2
<1>13. ASSUME NEW c \in Campaigns, OpenFile(c) PROVE Held(d)'
  <2>1. (job'[d].at = "absent" <=> job[d].at = "absent") /\ job[c].at # "absent"
    BY <1>13, Busy DEF OpenFile
  <2>2. \/ reader'[d] = reader[d]
        \/ d = c /\ reader'[d].batch = {} /\ reader'[d].flights = {}
    BY <1>13, ReaderOpened
  <2>3. UNCHANGED <<create, recipients>>
    BY <1>13 DEF OpenFile
  <2>. QED  BY <2>1, <2>2, <2>3, FS_EmptySet
<1>14. ASSUME NEW c \in Campaigns, ReadRow(c) PROVE Held(d)'
  <2>1. UNCHANGED <<create, recipients, job>>
    BY <1>14 DEF ReadRow
  <2>2. Held(c)
    BY DEF ImportTypes
  <2>3. IsFiniteSet(reader[c].batch \cup {reader[c].next})
    BY <2>2, FS_AddElement
  <2>. QED  BY <1>14, <2>1, <2>2, <2>3, ReaderRead
<1>15. ASSUME NEW c \in Campaigns, EndOfRows(c) PROVE Held(d)'
  <2>1. (job'[d].at = "absent" <=> job[d].at = "absent") /\ job[c].at # "absent"
    BY <1>15, Busy DEF EndOfRows
  <2>2. UNCHANGED <<create, recipients>>
    BY <1>15 DEF EndOfRows
  <2>. QED  BY <1>15, <2>1, <2>2, ReaderEnded
<1>16. ASSUME NEW c \in Campaigns, NEW f \in reader[c].flights, InsertRows(c, f) PROVE Held(d)'
  <2>1. (job'[d].at = "absent" <=> job[d].at = "absent") /\ job[c].at # "absent"
    <3>1. Held(c)
      BY DEF ImportTypes
    <3>2. job[c].at # "absent"
      BY <1>16, <3>1, ReaderInserted
    <3>. QED  BY <1>16, <3>2, Busy DEF InsertRows
  <2>2. UNCHANGED create
    BY <1>16 DEF InsertRows
  <2>3. IsFiniteSet(recipients'[d])
    BY <1>16, FlightAddresses, FS_Union DEF InsertRows
  <2>. QED  BY <1>16, <2>1, <2>2, <2>3, ReaderInserted, FS_EmptySet
<1>17. ASSUME NEW c \in Campaigns, NEW f \in reader[c].flights, InsertFails(c, f) PROVE Held(d)'
  <2>1. (job'[d].at = "absent" <=> job[d].at = "absent") /\ job[c].at # "absent"
    <3>1. Held(c)
      BY DEF ImportTypes
    <3>2. job[c].at # "absent"
      BY <1>17, <3>1, ReaderInserted
    <3>. QED  BY <1>17, <3>2, Busy DEF InsertFails
  <2>2. UNCHANGED <<create, recipients>>
    BY <1>17 DEF InsertFails
  <2>. QED  BY <1>17, <2>1, <2>2, ReaderInserted, FS_EmptySet
<1>18. ASSUME NEW c \in Campaigns, CountRecipients(c) PROVE Held(d)'
  BY <1>18 DEF CountRecipients
<1>19. ASSUME NEW c \in Campaigns, FinishParse(c) PROVE Held(d)'
  BY <1>19 DEF FinishParse, JobGoes
<1>20. ASSUME NEW c \in Campaigns, MarkFailed(c) PROVE Held(d)'
  BY <1>20 DEF MarkFailed, Failure, WriteParse, JobGoes
<1>21. ASSUME NEW c \in Campaigns, Complete(c) PROVE Held(d)'
  BY <1>21 DEF Complete, JobGoes
<1>22. ASSUME NEW u \in Files, UploadAborts(u) PROVE Held(d)'
  BY <1>22 DEF UploadAborts, UploadGoes
<1>23. ASSUME NEW c \in Campaigns, CreateAborts(c) PROVE Held(d)'
  BY <1>23 DEF CreateAborts, CreateGoes
<1>24. ASSUME NEW c \in Campaigns, ParseThrows(c) PROVE Held(d)'
  <2>1. job'[d].at = "absent" <=> job[d].at = "absent"
    BY <1>24, Busy DEF ParseThrows
  <2>2. UNCHANGED <<create, recipients, reader>>
    BY <1>24 DEF ParseThrows
  <2>. QED  BY <2>1, <2>2
<1>25. ASSUME NEW x \in HandAdded, AddAborts(x) PROVE Held(d)'
  BY <1>25 DEF AddAborts
<1>26. ASSUME NEW p \in Processes, Crash(p) PROVE Held(d)'
  <2>1. (job'[d].at = "absent" <=> job[d].at = "absent")
    BY <1>26 DEF Crash, Stalled, Job, ActiveAt
  <2>2. UNCHANGED <<create, recipients>>
    BY <1>26 DEF Crash
  <2>3. reader'[d] = reader[d] \/ reader'[d] = NoReader
    BY <1>26 DEF Crash
  <2>4. IsFiniteSet(NoReader.batch) /\ NoReader.batch = {} /\ NoReader.flights = {}
    BY FS_EmptySet
  <2>. HIDE DEF NoReader
  <2>. QED  BY <2>1, <2>2, <2>3, <2>4
<1>27. CASE UNCHANGED vars
  BY <1>27 DEF vars
<1>28. ASSUME NEW c \in Campaigns, NEW u \in Files \cup {NoFile}, PatchDataSource(c, u) PROVE Held(d)'
  BY <1>28, PatchKeeps
<1>. QED
  BY <1>1, <1>2, <1>3, <1>4, <1>5, <1>6, <1>7, <1>8, <1>9, <1>10, <1>11, <1>12, <1>13, <1>14, <1>15, <1>16, <1>17, <1>18, <1>19, <1>20, <1>21, <1>22, <1>23, <1>24, <1>25, <1>26, <1>27, <1>28
     DEF Next, UserStep, WorkStep, FaultStep, UploadStep, CreateStep, ParseStep

LEMMA StoredStep ==
  ASSUME ImportTypes, [Next]_vars PROVE \A u \in Files : Stored(u)'
<1>. SUFFICES ASSUME NEW v \in Files PROVE Stored(v)'
  OBVIOUS
<1>. TypeOK /\ Stored(v)
  BY DEF ImportTypes
<1>. USE DEF TypeOK, Stored
<1>1. ASSUME NEW c \in Campaigns, NEW u \in Files, SaveCampaign(c, u) PROVE Stored(v)'
  BY <1>1 DEF SaveCampaign
<1>2. ASSUME NEW x \in HandAdded, AddRecipient(x) PROVE Stored(v)'
  BY <1>2 DEF AddRecipient
<1>3. ASSUME NEW c \in Campaigns, Remove(c) PROVE Stored(v)'
  BY <1>3 DEF Remove
<1>4. ASSUME NEW u \in Files, Preview(u) PROVE Stored(v)'
  BY <1>4 DEF Preview, UploadGoes
<1>5. ASSUME NEW u \in Files, PushFileOnCloud(u) PROVE Stored(v)'
  BY <1>5 DEF PushFileOnCloud, UploadGoes, Detected
<1>6. ASSUME NEW u \in Files, SaveDataSource(u) PROVE Stored(v)'
  BY <1>6, StoredTypes DEF SaveDataSource, UploadGoes
<1>7. ASSUME NEW u \in Files, FinishUpload(u) PROVE Stored(v)'
  BY <1>7 DEF FinishUpload, UploadGoes
<1>8. ASSUME NEW c \in Campaigns, LinkDataSource(c) PROVE Stored(v)'
  BY <1>8 DEF LinkDataSource, CreateGoes
<1>9. ASSUME NEW c \in Campaigns, EnqueueParseFile(c) PROVE Stored(v)'
  BY <1>9 DEF EnqueueParseFile, CreateGoes
<1>10. ASSUME NEW x \in HandAdded, CountRecipient(x) PROVE Stored(v)'
  BY <1>10 DEF CountRecipient, Incremented
<1>11. ASSUME NEW c \in Campaigns, NEW p \in Processes, StartJob(c, p) PROVE Stored(v)'
  BY <1>11 DEF StartJob
<1>12. ASSUME NEW c \in Campaigns, MarkProcessing(c) PROVE Stored(v)'
  BY <1>12 DEF MarkProcessing, WriteParse, JobGoes
<1>13. ASSUME NEW c \in Campaigns, OpenFile(c) PROVE Stored(v)'
  BY <1>13 DEF OpenFile, JobGoes
<1>14. ASSUME NEW c \in Campaigns, ReadRow(c) PROVE Stored(v)'
  BY <1>14 DEF ReadRow
<1>15. ASSUME NEW c \in Campaigns, EndOfRows(c) PROVE Stored(v)'
  BY <1>15 DEF EndOfRows, JobGoes, Remaining
<1>16. ASSUME NEW c \in Campaigns, NEW f \in reader[c].flights, InsertRows(c, f) PROVE Stored(v)'
  BY <1>16 DEF InsertRows, JobGoes
<1>17. ASSUME NEW c \in Campaigns, NEW f \in reader[c].flights, InsertFails(c, f) PROVE Stored(v)'
  BY <1>17 DEF InsertFails, JobGoes
<1>18. ASSUME NEW c \in Campaigns, CountRecipients(c) PROVE Stored(v)'
  BY <1>18 DEF CountRecipients
<1>19. ASSUME NEW c \in Campaigns, FinishParse(c) PROVE Stored(v)'
  BY <1>19 DEF FinishParse, JobGoes
<1>20. ASSUME NEW c \in Campaigns, MarkFailed(c) PROVE Stored(v)'
  BY <1>20 DEF MarkFailed, Failure, WriteParse, JobGoes
<1>21. ASSUME NEW c \in Campaigns, Complete(c) PROVE Stored(v)'
  BY <1>21 DEF Complete, JobGoes
<1>22. ASSUME NEW u \in Files, UploadAborts(u) PROVE Stored(v)'
  BY <1>22 DEF UploadAborts, UploadGoes
<1>23. ASSUME NEW c \in Campaigns, CreateAborts(c) PROVE Stored(v)'
  BY <1>23 DEF CreateAborts, CreateGoes
<1>24. ASSUME NEW c \in Campaigns, ParseThrows(c) PROVE Stored(v)'
  BY <1>24 DEF ParseThrows, JobGoes
<1>25. ASSUME NEW x \in HandAdded, AddAborts(x) PROVE Stored(v)'
  BY <1>25 DEF AddAborts
<1>26. ASSUME NEW p \in Processes, Crash(p) PROVE Stored(v)'
  BY <1>26 DEF Crash, Stalled
<1>27. CASE UNCHANGED vars
  BY <1>27 DEF vars
<1>28. ASSUME NEW c \in Campaigns, NEW u \in Files \cup {NoFile}, PatchDataSource(c, u) PROVE Stored(v)'
  BY <1>28, PatchKeeps
<1>. QED
  BY <1>1, <1>2, <1>3, <1>4, <1>5, <1>6, <1>7, <1>8, <1>9, <1>10, <1>11, <1>12, <1>13, <1>14, <1>15, <1>16, <1>17, <1>18, <1>19, <1>20, <1>21, <1>22, <1>23, <1>24, <1>25, <1>26, <1>27, <1>28
     DEF Next, UserStep, WorkStep, FaultStep, UploadStep, CreateStep, ParseStep

LEMMA ImportTypesInit == Init => ImportTypes
<1>. SUFFICES ASSUME Init PROVE ImportTypes
  OBVIOUS
<1>1. TypeOK
  BY TypesInit
<1>2. \A c \in Campaigns : Held(c)
  BY FS_EmptySet DEF Init, Held, NoJob, NoReader
<1>3. \A u \in Files : Stored(u)
  BY StoredAssumption DEF Init, Stored
<1>. QED  BY <1>1, <1>2, <1>3 DEF ImportTypes

LEMMA ImportTypesStep == ImportTypes /\ [Next]_vars => ImportTypes'
  BY TypesStep, HeldStep, StoredStep DEF ImportTypes

(* Every variable keeps to its type, and what a parse holds is finite.       *)
THEOREM ImportTypeCorrect == Spec => []TypeOK
<1>1. ImportTypes => TypeOK
  BY DEF ImportTypes
<1>. QED  BY <1>1, ImportTypesInit, ImportTypesStep, PTL DEF Spec

(* A data-source row points to an object that exists, of the type it states. *)
THEOREM SourcesAreTrue == Spec => []SourceIsWhatItSays
<1>1. ImportTypes => SourceIsWhatItSays
  BY DEF ImportTypes, Stored, SourceIsWhatItSays
<1>. QED  BY <1>1, ImportTypesInit, ImportTypesStep, PTL DEF Spec

LEMMA WorkedStep ==
  ASSUME ImportTypes, \A d \in Campaigns : Worked(d), [Next]_vars PROVE \A d \in Campaigns : Worked(d)'
<1>. SUFFICES ASSUME NEW d \in Campaigns PROVE Worked(d)'
  OBVIOUS
<1>. TypeOK /\ Worked(d) /\ Held(d)
  BY DEF ImportTypes
<1>. USE DEF TypeOK, Worked, Row, Job, NoRow, ActiveAt
<1>1. ASSUME NEW c \in Campaigns, NEW u \in Files, SaveCampaign(c, u) PROVE Worked(d)'
  BY <1>1 DEF SaveCampaign
<1>2. ASSUME NEW x \in HandAdded, AddRecipient(x) PROVE Worked(d)'
  BY <1>2 DEF AddRecipient
<1>3. ASSUME NEW c \in Campaigns, Remove(c) PROVE Worked(d)'
  BY <1>3 DEF Remove
<1>4. ASSUME NEW u \in Files, Preview(u) PROVE Worked(d)'
  BY <1>4 DEF Preview, UploadGoes
<1>5. ASSUME NEW u \in Files, PushFileOnCloud(u) PROVE Worked(d)'
  BY <1>5 DEF PushFileOnCloud, UploadGoes, Detected
<1>6. ASSUME NEW u \in Files, SaveDataSource(u) PROVE Worked(d)'
  BY <1>6 DEF SaveDataSource, UploadGoes
<1>7. ASSUME NEW u \in Files, FinishUpload(u) PROVE Worked(d)'
  BY <1>7 DEF FinishUpload, UploadGoes
<1>8. ASSUME NEW c \in Campaigns, LinkDataSource(c) PROVE Worked(d)'
  <2>1. job' = job
    BY <1>8 DEF LinkDataSource
  <2>. QED  BY <1>8, <2>1, LinkingKeeps
<1>9. ASSUME NEW c \in Campaigns, EnqueueParseFile(c) PROVE Worked(d)'
  BY <1>9 DEF EnqueueParseFile, CreateGoes
<1>10. ASSUME NEW x \in HandAdded, CountRecipient(x) PROVE Worked(d)'
  BY <1>10 DEF CountRecipient, Incremented
<1>11. ASSUME NEW c \in Campaigns, NEW p \in Processes, StartJob(c, p) PROVE Worked(d)'
  BY <1>11 DEF StartJob
<1>12. ASSUME NEW c \in Campaigns, MarkProcessing(c) PROVE Worked(d)'
  <2>1. \/ job'[d] = job[d] /\ d # c
        \/ job'[d].at \in {"waiting", "open", "rows", "fail"}
        \/ job'[d].at = "failed" /\ job'[d].attemptsMade >= Attempts
    BY <1>12, Moves DEF MarkProcessing
  <2>2. (d # c => campaign'[d] = campaign[d])
        /\ (~campaign'[d].live => campaign'[d].parse = "pending")
    BY <1>12 DEF MarkProcessing, WriteParse
  <2>. QED  BY <2>1, <2>2
<1>13. ASSUME NEW c \in Campaigns, OpenFile(c) PROVE Worked(d)'
  <2>1. \/ job'[d] = job[d] /\ d # c
        \/ job'[d].at \in {"waiting", "open", "rows", "fail"}
        \/ job'[d].at = "failed" /\ job'[d].attemptsMade >= Attempts
    BY <1>13, Moves DEF OpenFile
  <2>2. campaign' = campaign
    BY <1>13 DEF OpenFile
  <2>. QED  BY <2>1, <2>2
<1>14. ASSUME NEW c \in Campaigns, ReadRow(c) PROVE Worked(d)'
  BY <1>14 DEF ReadRow
<1>15. ASSUME NEW c \in Campaigns, EndOfRows(c) PROVE Worked(d)'
  BY <1>15 DEF EndOfRows, JobGoes, Remaining
<1>16. ASSUME NEW c \in Campaigns, NEW f \in reader[c].flights, InsertRows(c, f) PROVE Worked(d)'
  BY <1>16 DEF InsertRows, JobGoes
<1>17. ASSUME NEW c \in Campaigns, NEW f \in reader[c].flights, InsertFails(c, f) PROVE Worked(d)'
  <2>1. campaign' = campaign
    BY <1>17 DEF InsertFails
  <2>2. job' = job \/ job' = [job EXCEPT ![c].at = "fail"]
    BY <1>17 DEF InsertFails, JobGoes
  <2>3. job'[d] = job[d] \/ job'[d].at = "fail"
    BY <2>2
  <2>. QED  BY <2>1, <2>3
<1>18. ASSUME NEW c \in Campaigns, CountRecipients(c) PROVE Worked(d)'
  BY <1>18 DEF CountRecipients
<1>19. ASSUME NEW c \in Campaigns, FinishParse(c) PROVE Worked(d)'
  BY <1>19 DEF FinishParse, JobGoes
<1>20. ASSUME NEW c \in Campaigns, MarkFailed(c) PROVE Worked(d)'
  BY <1>20 DEF MarkFailed, Failure, WriteParse, JobGoes
<1>21. ASSUME NEW c \in Campaigns, Complete(c) PROVE Worked(d)'
  BY <1>21 DEF Complete, JobGoes
<1>22. ASSUME NEW u \in Files, UploadAborts(u) PROVE Worked(d)'
  BY <1>22 DEF UploadAborts, UploadGoes
<1>23. ASSUME NEW c \in Campaigns, CreateAborts(c) PROVE Worked(d)'
  BY <1>23 DEF CreateAborts, CreateGoes
<1>24. ASSUME NEW c \in Campaigns, ParseThrows(c) PROVE Worked(d)'
  <2>1. \/ job'[d] = job[d] /\ d # c
        \/ job'[d].at \in {"waiting", "open", "rows", "fail"}
        \/ job'[d].at = "failed" /\ job'[d].attemptsMade >= Attempts
    BY <1>24, Moves DEF ParseThrows
  <2>2. campaign' = campaign
    BY <1>24 DEF ParseThrows
  <2>. QED  BY <2>1, <2>2
<1>25. ASSUME NEW x \in HandAdded, AddAborts(x) PROVE Worked(d)'
  BY <1>25 DEF AddAborts
<1>26. ASSUME NEW p \in Processes, Crash(p) PROVE Worked(d)'
  <2>1. campaign' = campaign
    BY <1>26 DEF Crash
  <2>. QED  BY <1>26, <2>1, CrashLeaves
<1>27. CASE UNCHANGED vars
  BY <1>27 DEF vars
<1>28. ASSUME NEW c \in Campaigns, NEW u \in Files \cup {NoFile}, PatchDataSource(c, u) PROVE Worked(d)'
  BY <1>28, PatchKeeps
<1>. QED
  BY <1>1, <1>2, <1>3, <1>4, <1>5, <1>6, <1>7, <1>8, <1>9, <1>10, <1>11, <1>12, <1>13, <1>14, <1>15, <1>16, <1>17, <1>18, <1>19, <1>20, <1>21, <1>22, <1>23, <1>24, <1>25, <1>26, <1>27, <1>28
     DEF Next, UserStep, WorkStep, FaultStep, UploadStep, CreateStep, ParseStep

LEMMA SpelledStep ==
  ASSUME ImportTypes, \A d \in Campaigns : Spelled(d), [Next]_vars PROVE \A d \in Campaigns : Spelled(d)'
<1>. SUFFICES ASSUME NEW d \in Campaigns PROVE Spelled(d)'
  OBVIOUS
<1>. TypeOK /\ Spelled(d)
  BY DEF ImportTypes
<1>. USE DEF TypeOK, Spelled, ByHand, Added, Add
<1>1. ASSUME NEW c \in Campaigns, NEW u \in Files, SaveCampaign(c, u) PROVE Spelled(d)'
  BY <1>1 DEF SaveCampaign
<1>2. ASSUME NEW x \in HandAdded, AddRecipient(x) PROVE Spelled(d)'
  BY <1>2, HandPlaces DEF AddRecipient
<1>3. ASSUME NEW c \in Campaigns, Remove(c) PROVE Spelled(d)'
  BY <1>3 DEF Remove
<1>4. ASSUME NEW u \in Files, Preview(u) PROVE Spelled(d)'
  BY <1>4 DEF Preview, UploadGoes
<1>5. ASSUME NEW u \in Files, PushFileOnCloud(u) PROVE Spelled(d)'
  BY <1>5 DEF PushFileOnCloud, UploadGoes, Detected
<1>6. ASSUME NEW u \in Files, SaveDataSource(u) PROVE Spelled(d)'
  BY <1>6 DEF SaveDataSource, UploadGoes
<1>7. ASSUME NEW u \in Files, FinishUpload(u) PROVE Spelled(d)'
  BY <1>7 DEF FinishUpload, UploadGoes
<1>8. ASSUME NEW c \in Campaigns, LinkDataSource(c) PROVE Spelled(d)'
  BY <1>8 DEF LinkDataSource, CreateGoes
<1>9. ASSUME NEW c \in Campaigns, EnqueueParseFile(c) PROVE Spelled(d)'
  BY <1>9 DEF EnqueueParseFile, CreateGoes
<1>10. ASSUME NEW x \in HandAdded, CountRecipient(x) PROVE Spelled(d)'
  BY <1>10 DEF CountRecipient, Incremented
<1>11. ASSUME NEW c \in Campaigns, NEW p \in Processes, StartJob(c, p) PROVE Spelled(d)'
  BY <1>11 DEF StartJob
<1>12. ASSUME NEW c \in Campaigns, MarkProcessing(c) PROVE Spelled(d)'
  BY <1>12 DEF MarkProcessing, WriteParse, JobGoes
<1>13. ASSUME NEW c \in Campaigns, OpenFile(c) PROVE Spelled(d)'
  BY <1>13 DEF OpenFile, JobGoes
<1>14. ASSUME NEW c \in Campaigns, ReadRow(c) PROVE Spelled(d)'
  BY <1>14 DEF ReadRow
<1>15. ASSUME NEW c \in Campaigns, EndOfRows(c) PROVE Spelled(d)'
  BY <1>15 DEF EndOfRows, JobGoes, Remaining
<1>16. ASSUME NEW c \in Campaigns, NEW f \in reader[c].flights, InsertRows(c, f) PROVE Spelled(d)'
  BY <1>16, FlightAddresses DEF InsertRows, JobGoes
<1>17. ASSUME NEW c \in Campaigns, NEW f \in reader[c].flights, InsertFails(c, f) PROVE Spelled(d)'
  BY <1>17 DEF InsertFails, JobGoes
<1>18. ASSUME NEW c \in Campaigns, CountRecipients(c) PROVE Spelled(d)'
  BY <1>18 DEF CountRecipients
<1>19. ASSUME NEW c \in Campaigns, FinishParse(c) PROVE Spelled(d)'
  BY <1>19 DEF FinishParse, JobGoes
<1>20. ASSUME NEW c \in Campaigns, MarkFailed(c) PROVE Spelled(d)'
  BY <1>20 DEF MarkFailed, Failure, WriteParse, JobGoes
<1>21. ASSUME NEW c \in Campaigns, Complete(c) PROVE Spelled(d)'
  BY <1>21 DEF Complete, JobGoes
<1>22. ASSUME NEW u \in Files, UploadAborts(u) PROVE Spelled(d)'
  BY <1>22 DEF UploadAborts, UploadGoes
<1>23. ASSUME NEW c \in Campaigns, CreateAborts(c) PROVE Spelled(d)'
  BY <1>23 DEF CreateAborts, CreateGoes
<1>24. ASSUME NEW c \in Campaigns, ParseThrows(c) PROVE Spelled(d)'
  BY <1>24 DEF ParseThrows, JobGoes
<1>25. ASSUME NEW x \in HandAdded, AddAborts(x) PROVE Spelled(d)'
  BY <1>25 DEF AddAborts
<1>26. ASSUME NEW p \in Processes, Crash(p) PROVE Spelled(d)'
  BY <1>26 DEF Crash, Stalled
<1>27. CASE UNCHANGED vars
  BY <1>27 DEF vars
<1>28. ASSUME NEW c \in Campaigns, NEW u \in Files \cup {NoFile}, PatchDataSource(c, u) PROVE Spelled(d)'
  BY <1>28, PatchKeeps
<1>. QED
  BY <1>1, <1>2, <1>3, <1>4, <1>5, <1>6, <1>7, <1>8, <1>9, <1>10, <1>11, <1>12, <1>13, <1>14, <1>15, <1>16, <1>17, <1>18, <1>19, <1>20, <1>21, <1>22, <1>23, <1>24, <1>25, <1>26, <1>27, <1>28
     DEF Next, UserStep, WorkStep, FaultStep, UploadStep, CreateStep, ParseStep

LEMMA CreatedStep ==
  ASSUME ImportTypes, AllCreated, [Next]_vars PROVE \A d \in Campaigns : Created(d)'
<1>. SUFFICES ASSUME NEW d \in Campaigns PROVE Created(d)'
  OBVIOUS
<1>. TypeOK /\ Created(d)
  BY DEF ImportTypes, AllCreated
<1>. USE DEF TypeOK, Created, Row, NoRow, Create
<1>1. ASSUME NEW c \in Campaigns, NEW u \in Files, SaveCampaign(c, u) PROVE Created(d)'
  BY <1>1 DEF SaveCampaign
<1>2. ASSUME NEW x \in HandAdded, AddRecipient(x) PROVE Created(d)'
  BY <1>2 DEF AddRecipient
<1>3. ASSUME NEW c \in Campaigns, Remove(c) PROVE Created(d)'
  BY <1>3 DEF Remove
<1>4. ASSUME NEW u \in Files, Preview(u) PROVE Created(d)'
  BY <1>4 DEF Preview, UploadGoes
<1>5. ASSUME NEW u \in Files, PushFileOnCloud(u) PROVE Created(d)'
  BY <1>5 DEF PushFileOnCloud, UploadGoes, Detected
<1>6. ASSUME NEW u \in Files, SaveDataSource(u) PROVE Created(d)'
  BY <1>6 DEF SaveDataSource, UploadGoes
<1>7. ASSUME NEW u \in Files, FinishUpload(u) PROVE Created(d)'
  BY <1>7 DEF FinishUpload, UploadGoes
<1>8. ASSUME NEW c \in Campaigns, LinkDataSource(c) PROVE Created(d)'
  <2>1. create'[d].at = "unused" => create[d].at = "unused"
    BY <1>8 DEF LinkDataSource, CreateGoes
  <2>. QED  BY <1>8, <2>1, LinkingKeeps
<1>9. ASSUME NEW c \in Campaigns, EnqueueParseFile(c) PROVE Created(d)'
  BY <1>9 DEF EnqueueParseFile, CreateGoes
<1>10. ASSUME NEW x \in HandAdded, CountRecipient(x) PROVE Created(d)'
  BY <1>10 DEF CountRecipient, Incremented
<1>11. ASSUME NEW c \in Campaigns, NEW p \in Processes, StartJob(c, p) PROVE Created(d)'
  BY <1>11 DEF StartJob
<1>12. ASSUME NEW c \in Campaigns, MarkProcessing(c) PROVE Created(d)'
  BY <1>12 DEF MarkProcessing, WriteParse, JobGoes
<1>13. ASSUME NEW c \in Campaigns, OpenFile(c) PROVE Created(d)'
  BY <1>13 DEF OpenFile, JobGoes
<1>14. ASSUME NEW c \in Campaigns, ReadRow(c) PROVE Created(d)'
  BY <1>14 DEF ReadRow
<1>15. ASSUME NEW c \in Campaigns, EndOfRows(c) PROVE Created(d)'
  BY <1>15 DEF EndOfRows, JobGoes, Remaining
<1>16. ASSUME NEW c \in Campaigns, NEW f \in reader[c].flights, InsertRows(c, f) PROVE Created(d)'
  BY <1>16 DEF InsertRows
<1>17. ASSUME NEW c \in Campaigns, NEW f \in reader[c].flights, InsertFails(c, f) PROVE Created(d)'
  BY <1>17 DEF InsertFails
<1>18. ASSUME NEW c \in Campaigns, CountRecipients(c) PROVE Created(d)'
  BY <1>18 DEF CountRecipients
<1>19. ASSUME NEW c \in Campaigns, FinishParse(c) PROVE Created(d)'
  BY <1>19 DEF FinishParse, JobGoes
<1>20. ASSUME NEW c \in Campaigns, MarkFailed(c) PROVE Created(d)'
  BY <1>20 DEF MarkFailed, Failure, WriteParse, JobGoes
<1>21. ASSUME NEW c \in Campaigns, Complete(c) PROVE Created(d)'
  BY <1>21 DEF Complete, JobGoes
<1>22. ASSUME NEW u \in Files, UploadAborts(u) PROVE Created(d)'
  BY <1>22 DEF UploadAborts, UploadGoes
<1>23. ASSUME NEW c \in Campaigns, CreateAborts(c) PROVE Created(d)'
  BY <1>23 DEF CreateAborts, CreateGoes
<1>24. ASSUME NEW c \in Campaigns, ParseThrows(c) PROVE Created(d)'
  BY <1>24 DEF ParseThrows, JobGoes
<1>25. ASSUME NEW x \in HandAdded, AddAborts(x) PROVE Created(d)'
  BY <1>25 DEF AddAborts
<1>26. ASSUME NEW p \in Processes, Crash(p) PROVE Created(d)'
  BY <1>26 DEF Crash
<1>27. CASE UNCHANGED vars
  BY <1>27 DEF vars
<1>28. ASSUME NEW c \in Campaigns, NEW u \in Files \cup {NoFile}, PatchDataSource(c, u) PROVE Created(d)'
  BY <1>28, PatchKeeps
<1>. QED
  BY <1>1, <1>2, <1>3, <1>4, <1>5, <1>6, <1>7, <1>8, <1>9, <1>10, <1>11, <1>12, <1>13, <1>14, <1>15, <1>16, <1>17, <1>18, <1>19, <1>20, <1>21, <1>22, <1>23, <1>24, <1>25, <1>26, <1>27, <1>28
     DEF Next, UserStep, WorkStep, FaultStep, UploadStep, CreateStep, ParseStep

(* A campaign is "processing" only while a job will still write its outcome,  *)
(* or when the queue has given up on the job.                                 *)
THEOREM ProcessingIsWork == Spec => []ProcessingMeansWork
<1>. DEFINE AllWorked == \A c \in Campaigns : Worked(c)
<1>1. Init => ImportTypes /\ AllWorked
  BY ImportTypesInit DEF Init, Worked, NoRow, NoJob
<1>2. ImportTypes /\ AllWorked /\ [Next]_vars => (ImportTypes /\ AllWorked)'
  BY ImportTypesStep, WorkedStep
<1>3. AllWorked => ProcessingMeansWork
  BY DEF Worked, ProcessingMeansWork
<1>. QED  BY <1>1, <1>2, <1>3, PTL DEF Spec

(* Two rows of a campaign for one mailbox involve an address added by hand.   *)
THEOREM MailboxesAreOnce == Spec => []OneRowPerMailbox
<1>. DEFINE AllSpelled == \A c \in Campaigns : Spelled(c)
<1>1. Init => ImportTypes /\ AllSpelled
  BY ImportTypesInit DEF Init, Spelled
<1>2. ImportTypes /\ AllSpelled /\ [Next]_vars => (ImportTypes /\ AllSpelled)'
  BY ImportTypesStep, SpelledStep
<1>3. ImportTypes /\ AllSpelled => OneRowPerMailbox
  <2>. SUFFICES ASSUME ImportTypes, AllSpelled, NEW c \in Campaigns,
                       NEW a \in recipients[c], NEW b \in recipients[c],
                       a # b, a[1] = b[1]
                PROVE  {a, b} \cap ByHand(c) # {}
    BY DEF OneRowPerMailbox
  <2>1. a \in Addresses /\ b \in Addresses
    BY DEF ImportTypes, TypeOK
  <2>2. a[2] # "lower" \/ b[2] # "lower"
    BY <2>1 DEF Addresses
  <2>3. a \in ByHand(c) \/ b \in ByHand(c)
    BY <2>2 DEF Spelled
  <2>. QED  BY <2>3
<1>. QED  BY <1>1, <1>2, <1>3, PTL DEF Spec

-----------------------------------------------------------------------------
(* The refinement. *)

LEMMA Prefixes ==
  ASSUME NEW A, NEW s \in Seq(A), NEW k \in DOMAIN s
  PROVE  k \in Nat \ {0} /\ 1..k \subseteq DOMAIN s
<1>1. Len(s) \in Nat /\ DOMAIN s = 1..Len(s)
  OBVIOUS
<1>. QED  BY <1>1

(* Where a step leaves the jobs: the others where they were. *)
LEMMA JobRetried ==
  ASSUME TypeOK, NEW c \in Campaigns, NEW d \in Campaigns, job' = [job EXCEPT ![c] = Retry(@)]
  PROVE  IF d = c THEN job'[d].at \in {"waiting", "failed"} ELSE job'[d] = job[d]
<1>1. DOMAIN job = Campaigns /\ job[c] \in Job
  BY DEF TypeOK
<1>. QED  BY <1>1 DEF Retry, Job

LEMMA JobWent ==
  ASSUME TypeOK, NEW c \in Campaigns, NEW d \in Campaigns, NEW place, JobGoes(c, place)
  PROVE  IF d = c THEN job'[d].at = place ELSE job'[d] = job[d]
<1>1. DOMAIN job = Campaigns /\ job[c] \in Job
  BY DEF TypeOK
<1>. QED  BY <1>1 DEF JobGoes, Job

(* What a step does to what the parses hold in memory. *)
LEMMA FlightsLeft ==
  ASSUME TypeOK, NEW c \in Campaigns, NEW d \in Campaigns
  PROVE  /\ OpenFile(c) => \/ reader'[d] = reader[d]
                           \/ d = c /\ reader'[d] = [NoReader EXCEPT !.open = TRUE]
         /\ ReadRow(c) => \A f \in reader'[d].flights :
                \/ f \in reader[d].flights
                \/ d = c /\ f = [rows |-> reader'[c].batch, last |-> FALSE]
         /\ EndOfRows(c) => \A f \in reader'[d].flights :
                \/ f \in reader[d].flights
                \/ /\ d = c /\ job'[d].at = "flush"
                   /\ f = [rows |-> reader[c].batch, last |-> TRUE]
<1>1. reader[c] \in Reader /\ DOMAIN reader = Campaigns
  BY DEF TypeOK
<1>2. ASSUME OpenFile(c)
      PROVE  \/ reader'[d] = reader[d]
             \/ d = c /\ reader'[d] = [NoReader EXCEPT !.open = TRUE]
  BY <1>1, <1>2 DEF OpenFile
<1>3. ASSUME ReadRow(c), NEW f \in reader'[d].flights
      PROVE  \/ f \in reader[d].flights
             \/ d = c /\ f = [rows |-> reader'[c].batch, last |-> FALSE]
  <2>. DEFINE batch == IF AddressOf(FileOf(c), reader[c].next) = {} THEN reader[c].batch
                       ELSE reader[c].batch \cup {reader[c].next}
              full    == batch # reader[c].batch /\ Cardinality(batch) >= BatchSize
  <2>1. reader' = [reader EXCEPT ![c].next = reader[c].next + 1, ![c].batch = batch,
                     ![c].flights = IF full THEN @ \cup {[rows |-> batch, last |-> FALSE]} ELSE @]
    BY <1>3 DEF ReadRow
  <2>. HIDE DEF batch, full
  <2>. QED  BY <1>1, <1>3, <2>1 DEF Reader
<1>4. ASSUME EndOfRows(c), NEW f \in reader'[d].flights
      PROVE  \/ f \in reader[d].flights
             \/ d = c /\ job'[d].at = "flush" /\ f = [rows |-> reader[c].batch, last |-> TRUE]
  <2>1. CASE reader' = reader
    BY <1>4, <2>1
  <2>2. CASE /\ JobGoes(c, "flush")
             /\ reader' = [reader EXCEPT ![c].flights =
                            @ \cup {[rows |-> reader[c].batch, last |-> TRUE]}]
    BY <1>1, <1>4, <2>2, JobWent DEF Reader
  <2>. QED  BY <1>4, <2>1, <2>2 DEF EndOfRows, Remaining
<1>. QED  BY <1>2, <1>3, <1>4

LEMMA FlightLanded ==
  ASSUME TypeOK, NEW c \in Campaigns, NEW d \in Campaigns, NEW g \in reader[c].flights,
         InsertRows(c, g) \/ InsertFails(c, g)
  PROVE  /\ reader'[d].flights = IF d = c THEN reader[d].flights \ {g} ELSE reader[d].flights
         /\ d # c => reader'[d] = reader[d]
         /\ reader'[d].next = reader[d].next
         /\ InsertRows(c, g) /\ d = c => reader'[d].batch = {}
         /\ InsertFails(c, g) => reader'[d].batch = reader[d].batch
<1>1. reader[c] \in Reader /\ DOMAIN reader = Campaigns
  BY DEF TypeOK
<1>. QED  BY <1>1 DEF InsertRows, InsertFails, Reader

(* Nothing in the header is missing: the columns are where the preview read  *)
(* them.                                                                      *)
LEMMA ColumnsInPlace ==
  ASSUME NEW u \in Files, Whole(u) PROVE EmailColumns(u) = HeaderColumns(u)
<1>. DEFINE header == Contents[u].header
<1>1. header \in Seq({"email", "name", ""})
  BY FilesAssumption
<1>2. ASSUME NEW k \in DOMAIN header PROVE Pushed(u, k) = k
  <2>1. k \in Nat \ {0} /\ 1..k \subseteq DOMAIN header
    <3>. HIDE DEF header
    <3>. QED  BY <1>1, Prefixes
  <2>2. {j \in 1..k : header[j] # ""} = 1..k
    BY <2>1 DEF Whole
  <2>3. Cardinality(1..k) = k
    BY <2>1, FS_Interval
  <2>. QED  BY <2>2, <2>3 DEF Pushed
<1>3. {Pushed(u, k) : k \in HeaderColumns(u)} = HeaderColumns(u)
  BY <1>2 DEF HeaderColumns
<1>. QED  BY <1>3 DEF EmailColumns

LEMMA PreviewedRows ==
  ASSUME NEW u \in Files, Whole(u) PROVE Previewed[u] = AddressesOf(u, Lines(u))
  BY ColumnsInPlace DEF Previewed, AddressesOf, AddressOf, Normalised

(* Every row that gives an address gives one of AllAddresses. *)
LEMMA RowsAreKnown ==
  ASSUME NEW u \in Files, NEW I \in SUBSET Lines(u)
  PROVE  AddressesOf(u, I) \subseteq AllAddresses
<1>. SUFFICES ASSUME NEW i \in Lines(u), NEW columns,
                     NEW cell \in EmailCells(Contents[u].rows[i], columns)
              PROVE  Lower(cell) \in AllAddresses
  BY DEF AddressesOf, AddressOf, Normalised
<1>1. cell \in SE!ToSet(Contents[u].rows[i])
  BY DEF EmailCells, SE!ToSet
<1>. QED  BY <1>1 DEF AllAddresses

LEMMA SubsetOfSameSize ==
  ASSUME NEW S, IsFiniteSet(S), NEW T \in SUBSET S, Cardinality(T) >= Cardinality(S)
  PROVE  T = S
<1>. SUFFICES ASSUME NEW x \in S \ T PROVE FALSE
  OBVIOUS
<1>1. Cardinality(S \ {x}) = Cardinality(S) - 1 /\ IsFiniteSet(S \ {x})
  BY FS_RemoveElement
<1>2. Cardinality(T) <= Cardinality(S \ {x})
  BY <1>1, FS_Subset
<1>3. Cardinality(S) \in Nat /\ Cardinality(T) \in Nat
  BY FS_CardinalityType, FS_Subset
<1>. QED  BY <1>1, <1>2, <1>3

(* The upload of the file a request names is over, and the row of a campaign *)
(* says "processing" while its job is inside the try.                        *)
Steady(c) ==
    /\ create[c].at # "unused" => upload[FileOf(c)] = "done"
    /\ job[c].at = "absent" => campaign[c].parse = "pending"
    /\ campaign[c].live /\ job[c].at \in {"open", "rows", "flush", "count", "finish", "fail"} =>
         campaign[c].parse = "processing"
    /\ \A f \in reader[c].flights : f.last => job[c].at = "flush"
    /\ \A f, g \in reader[c].flights : f.last /\ g.last => f = g

LEMMA SteadyStep ==
  ASSUME ImportTypes, AllCreated, \A d \in Campaigns : Steady(d), [Next]_vars
  PROVE  \A d \in Campaigns : Steady(d)'
<1>. SUFFICES ASSUME NEW d \in Campaigns PROVE Steady(d)'
  OBVIOUS
<1>. TypeOK /\ Steady(d) /\ Held(d) /\ Created(d)
  BY DEF ImportTypes, AllCreated
<1>. USE DEF TypeOK, Steady, FileOf, ActiveAt
<1>1. ASSUME NEW c \in Campaigns, NEW u \in Files, SaveCampaign(c, u) PROVE Steady(d)'
  BY <1>1 DEF SaveCampaign, Row, Held, Created, Create, NoRow
<1>2. ASSUME NEW x \in HandAdded, AddRecipient(x) PROVE Steady(d)'
  BY <1>2 DEF AddRecipient
<1>3. ASSUME NEW c \in Campaigns, Remove(c) PROVE Steady(d)'
  BY <1>3 DEF Remove, NoRow
<1>4. ASSUME NEW u \in Files, Preview(u) PROVE Steady(d)'
  BY <1>4 DEF Preview, UploadGoes
<1>5. ASSUME NEW u \in Files, PushFileOnCloud(u) PROVE Steady(d)'
  <2>1. upload[u] = "store" /\ (UploadGoes(u, "save") \/ UploadGoes(u, "rejected"))
        /\ UNCHANGED <<create, campaign, job, reader>>
    BY <1>5 DEF PushFileOnCloud
  <2>. QED  BY <2>1 DEF UploadGoes, Held
<1>6. ASSUME NEW u \in Files, SaveDataSource(u) PROVE Steady(d)'
  BY <1>6 DEF SaveDataSource, UploadGoes
<1>7. ASSUME NEW u \in Files, FinishUpload(u) PROVE Steady(d)'
  BY <1>7 DEF FinishUpload, UploadGoes
<1>8. ASSUME NEW c \in Campaigns, LinkDataSource(c) PROVE Steady(d)'
  <2>1. UNCHANGED <<upload, job, reader>> /\ create[c].at = "link"
    BY <1>8 DEF LinkDataSource
  <2>2. /\ \A e \in Campaigns : create'[e].file = create[e].file
                                 /\ (e # c => create'[e] = create[e])
        /\ create'[c].at \in {"done", "enqueue"}
    BY <1>8 DEF LinkDataSource, CreateGoes, Create
  <2>. QED  BY <1>8, <2>1, <2>2, LinkingKeeps
<1>9. ASSUME NEW c \in Campaigns, EnqueueParseFile(c) PROVE Steady(d)'
  BY <1>9 DEF EnqueueParseFile, CreateGoes, Create, Job, Held, NoReader
<1>10. ASSUME NEW x \in HandAdded, CountRecipient(x) PROVE Steady(d)'
  BY <1>10, HandPlaces DEF CountRecipient, Incremented, Row
<1>11. ASSUME NEW c \in Campaigns, NEW p \in Processes, StartJob(c, p) PROVE Steady(d)'
  BY <1>11 DEF StartJob, Job
<1>12. ASSUME NEW c \in Campaigns, MarkProcessing(c) PROVE Steady(d)'
  <2>1. job[c].at = "mark" /\ UNCHANGED <<upload, create, reader>>
        /\ (JobGoes(c, "open") \/ job' = [job EXCEPT ![c] = Retry(@)])
    BY <1>12 DEF MarkProcessing
  <2>2. IF d = c THEN job'[d].at \in {"waiting", "failed", "open"} ELSE job'[d] = job[d]
    BY <2>1, JobRetried, JobWent
  <2>3. /\ campaign'[d].live = campaign[d].live
        /\ d # c => campaign'[d] = campaign[d]
        /\ d = c /\ campaign[d].live => campaign'[d].parse = "processing"
    BY <1>12 DEF MarkProcessing, WriteParse, Row
  <2>. QED  BY <2>1, <2>2, <2>3
<1>13. ASSUME NEW c \in Campaigns, OpenFile(c) PROVE Steady(d)'
  <2>1. job[c].at = "open" /\ UNCHANGED <<upload, create, campaign>>
        /\ (JobGoes(c, "rows") \/ JobGoes(c, "fail"))
    BY <1>13 DEF OpenFile
  <2>2. IF d = c THEN job'[d].at \in {"rows", "fail"} ELSE job'[d] = job[d]
    BY <2>1, JobWent
  <2>3. reader'[d] = reader[d] \/ reader'[d].flights = {}
    BY <1>13, ReaderOpened
  <2>. QED  BY <2>1, <2>2, <2>3
<1>14. ASSUME NEW c \in Campaigns, ReadRow(c) PROVE Steady(d)'
  <2>1. UNCHANGED <<upload, create, campaign, job>>
    BY <1>14 DEF ReadRow
  <2>2. \A f \in reader'[d].flights : f \in reader[d].flights \/ ~f.last
    BY <1>14, FlightsLeft
  <2>. QED  BY <2>1, <2>2
<1>15. ASSUME NEW c \in Campaigns, EndOfRows(c) PROVE Steady(d)'
  <2>1. job[c].at = "rows" /\ UNCHANGED <<upload, create, campaign>>
        /\ (JobGoes(c, "count") \/ JobGoes(c, "flush"))
    BY <1>15 DEF EndOfRows
  <2>2. IF d = c THEN job'[d].at \in {"count", "flush"} ELSE job'[d] = job[d]
    BY <2>1, JobWent
  <2>3. \A f \in reader'[d].flights :
          \/ f \in reader[d].flights
          \/ d = c /\ job'[d].at = "flush" /\ f = [rows |-> reader[c].batch, last |-> TRUE]
    BY <1>15, FlightsLeft
  <2>. QED  BY <2>1, <2>2, <2>3
<1>16. ASSUME NEW c \in Campaigns, NEW g \in reader[c].flights,
              InsertRows(c, g) \/ InsertFails(c, g)
       PROVE  Steady(d)'
  <2>1. UNCHANGED <<upload, create, campaign>>
        /\ \/ job' = job /\ ~g.last
           \/ (JobGoes(c, "count") \/ JobGoes(c, "fail")) /\ (g.last \/ job[c].at = "rows")
    BY <1>16 DEF InsertRows, InsertFails
  <2>2. \A f \in reader[c].flights : f.last => job[c].at = "flush"
    OBVIOUS
  <2>3. \/ job'[d] = job[d] /\ (d = c => ~g.last)
        \/ d = c /\ job'[d].at \in {"count", "fail"} /\ job[c].at \in {"flush", "rows"}
    BY <2>1, <2>2, JobWent
  <2>4. reader'[d].flights = IF d = c THEN reader[d].flights \ {g} ELSE reader[d].flights
    <3>. HIDE DEF TypeOK, FileOf, ActiveAt
    <3>. QED  BY <1>16, FlightLanded
  <2>. QED  BY <2>1, <2>3, <2>4
<1>18. ASSUME NEW c \in Campaigns, CountRecipients(c) PROVE Steady(d)'
  BY <1>18 DEF CountRecipients, Job
<1>19. ASSUME NEW c \in Campaigns, FinishParse(c) PROVE Steady(d)'
  BY <1>19 DEF FinishParse, JobGoes, Job, Row
<1>20. ASSUME NEW c \in Campaigns, MarkFailed(c) PROVE Steady(d)'
  BY <1>20 DEF MarkFailed, Failure, WriteParse, JobGoes, Job, Row
<1>21. ASSUME NEW c \in Campaigns, Complete(c) PROVE Steady(d)'
  BY <1>21 DEF Complete, JobGoes, Job
<1>22. ASSUME NEW u \in Files, UploadAborts(u) PROVE Steady(d)'
  BY <1>22 DEF UploadAborts, UploadGoes
<1>23. ASSUME NEW c \in Campaigns, CreateAborts(c) PROVE Steady(d)'
  BY <1>23 DEF CreateAborts, CreateGoes, Create
<1>24. ASSUME NEW c \in Campaigns, ParseThrows(c) PROVE Steady(d)'
  <2>1. UNCHANGED <<upload, create, campaign, reader>>
        /\ \/ job[c].at \in {"mark", "fail"} /\ job' = [job EXCEPT ![c] = Retry(@)]
           \/ job[c].at \in {"open", "rows", "count", "finish"} /\ JobGoes(c, "fail")
    BY <1>24 DEF ParseThrows
  <2>2. IF d = c THEN \/ job'[d].at \in {"waiting", "failed"} /\ job[d].at \in {"mark", "fail"}
                      \/ job'[d].at = "fail" /\ job[d].at \in {"open", "rows", "count", "finish"}
                 ELSE job'[d] = job[d]
    BY <2>1, JobRetried, JobWent
  <2>. QED  BY <2>1, <2>2
<1>25. ASSUME NEW x \in HandAdded, AddAborts(x) PROVE Steady(d)'
  BY <1>25 DEF AddAborts
<1>26. ASSUME NEW p \in Processes, Crash(p) PROVE Steady(d)'
  <2>1. UNCHANGED <<upload, create, campaign>>
    BY <1>26 DEF Crash
  <2>2. \/ job'[d].at = job[d].at /\ reader'[d] = reader[d]
        \/ job'[d].at \in {job[d].at, "waiting", "failed"} /\ reader'[d] = NoReader
           /\ (job'[d].at = "absent" => job[d].at = "absent")
    BY <1>26, CrashLeaves DEF Crash
  <2>3. NoReader.flights = {}
    BY DEF NoReader
  <2>. QED  BY <2>1, <2>2, <2>3
<1>27. CASE UNCHANGED vars
  BY <1>27 DEF vars
<1>28. ASSUME NEW c \in Campaigns, NEW u \in Files \cup {NoFile}, PatchDataSource(c, u) PROVE Steady(d)'
  BY <1>28, PatchKeeps
<1>. QED
  BY <1>1, <1>2, <1>3, <1>4, <1>5, <1>6, <1>7, <1>8, <1>9, <1>10, <1>11, <1>12, <1>13, <1>14, <1>15, <1>16, <1>18, <1>19, <1>20, <1>21, <1>22, <1>23, <1>24, <1>25, <1>26, <1>27, <1>28
     DEF Next, UserStep, WorkStep, FaultStep, UploadStep, CreateStep, ParseStep

(* The rows of a whole file that a parse still has to store: they are in its *)
(* batch, and in every INSERT under way; at the last one they are in that.   *)
IsStored(c, i) == AddressOf(FileOf(c), i) \subseteq recipients[c]

Covered(c) ==
    campaign[c].live /\ Whole(FileOf(c)) =>
      /\ \A f \in reader[c].flights :
           /\ reader[c].batch \subseteq f.rows
           /\ \/ source[FileOf(c)] = "xlsx"
              \/ f.rows = Lines(FileOf(c))
              \/ reader[c].next \notin Lines(FileOf(c))
      /\ job[c].at = "rows" =>
           \A i \in Lines(FileOf(c)) : i < reader[c].next => i \in reader[c].batch \/ IsStored(c, i)
      /\ \A f \in reader[c].flights : f.last =>
           /\ reader[c].next \notin Lines(FileOf(c))
           /\ \A i \in Lines(FileOf(c)) : i \in f.rows \/ IsStored(c, i)
      /\ job[c].at \in {"count", "finish"} \/ campaign[c].parse = "done" =>
           \A i \in Lines(FileOf(c)) : IsStored(c, i)

(* A file a campaign was created from does not change. *)
FileStays(d) ==
    /\ create'[d].file = create[d].file
    /\ source'[FileOf(d)] = source[FileOf(d)]

LEMMA FilesStay ==
  ASSUME ImportTypes, [Next]_vars, NEW d \in Campaigns, Steady(d), create[d].at # "unused"
  PROVE  FileStays(d)
<1>. TypeOK /\ FileOf(d) \in Files /\ upload[FileOf(d)] = "done"
  BY DEF ImportTypes, Held, FileOf, Steady
<1>. USE DEF FileStays
<1>1. ASSUME NEW c \in Campaigns, NEW u \in Files, SaveCampaign(c, u) PROVE FileStays(d)
  BY <1>1 DEF SaveCampaign, TypeOK
<1>2. ASSUME NEW u \in Files, UploadStep(u) \/ UploadAborts(u) PROVE FileStays(d)
  <2>1. UNCHANGED create /\ (UNCHANGED source \/ SaveDataSource(u))
    BY <1>2 DEF UploadStep, UploadAborts, Preview, PushFileOnCloud, SaveDataSource, FinishUpload
  <2>2. ASSUME SaveDataSource(u) PROVE source'[FileOf(d)] = source[FileOf(d)]
    BY <2>2 DEF SaveDataSource, TypeOK
  <2>. QED  BY <2>1, <2>2
<1>3. ASSUME NEW c \in Campaigns, CreateStep(c) \/ CreateAborts(c) PROVE FileStays(d)
  <2>1. UNCHANGED source /\ \E place : CreateGoes(c, place)
    BY <1>3 DEF CreateStep, LinkDataSource, EnqueueParseFile, CreateAborts
  <2>. QED  BY <2>1 DEF CreateGoes, TypeOK, Create
<1>4. ASSUME NEW x \in HandAdded, AddRecipient(x) \/ CountRecipient(x) \/ AddAborts(x)
      PROVE  FileStays(d)
  BY <1>4 DEF AddRecipient, CountRecipient, AddAborts
<1>5. ASSUME NEW c \in Campaigns, Remove(c) \/ ParseStep(c) \/ ParseThrows(c) PROVE FileStays(d)
  BY <1>5 DEF Remove, ParseThrows, ParseStep, MarkProcessing, OpenFile, ReadRow, EndOfRows,
              InsertRows, InsertFails, CountRecipients, FinishParse, MarkFailed, Complete
<1>6. ASSUME NEW p \in Processes, Crash(p) \/ \E c \in Campaigns : StartJob(c, p)
      PROVE  FileStays(d)
  BY <1>6 DEF Crash, StartJob
<1>7. ASSUME NEW c \in Campaigns, NEW u \in Files \cup {NoFile}, PatchDataSource(c, u)
      PROVE  FileStays(d)
  BY <1>7, PatchKeeps
<1>8. CASE UNCHANGED vars
  BY <1>8 DEF vars
<1>. QED  BY <1>1, <1>2, <1>3, <1>4, <1>5, <1>6, <1>7, <1>8 DEF Next, UserStep, WorkStep, FaultStep

LEMMA WholeStays ==
  ASSUME NEW d \in Campaigns, FileStays(d)
  PROVE  /\ FileOf(d)' = FileOf(d) /\ Lines(FileOf(d))' = Lines(FileOf(d))
         /\ Whole(FileOf(d))' = Whole(FileOf(d))
         /\ \A i : AddressOf(FileOf(d), i)' = AddressOf(FileOf(d), i)
<1>1. FileOf(d)' = FileOf(d)
  BY DEF FileStays, FileOf
<1>2. source'[FileOf(d)] = source[FileOf(d)]
  BY DEF FileStays
<1>3. \A i : AddressOf(FileOf(d), i)' = AddressOf(FileOf(d), i)
  BY <1>1, <1>2 DEF AddressOf, EmailColumns
<1>. QED  BY <1>1, <1>2, <1>3 DEF Whole, Lines

(* A step after which nothing new is read, and nothing stored is lost. *)
Kept(d) ==
    campaign'[d].live =>
      /\ campaign[d].live
      /\ recipients[d] \subseteq recipients'[d]
      /\ campaign'[d].parse = "done" => campaign[d].parse = "done"
      /\ reader'[d] = reader[d] \/ reader'[d].flights = {}
      /\ job'[d].at = "rows" => job[d].at = "rows" /\ reader'[d] = reader[d]
      /\ job'[d].at \in {"count", "finish"} => job[d].at \in {"count", "finish"}

LEMMA KeptIsCovered ==
  ASSUME NEW d \in Campaigns, Covered(d), Created(d), create[d].at # "unused" => FileStays(d),
         Kept(d)
  PROVE  Covered(d)'
<1>1. CASE ~campaign'[d].live
  BY <1>1 DEF Covered
<1>2. CASE campaign'[d].live
  <2>1. FileStays(d) /\ campaign[d].live
    BY <1>2 DEF Kept, Created
  <2>2. \A i : IsStored(d, i) => IsStored(d, i)'
    BY <1>2, <2>1, WholeStays DEF IsStored, Kept
  <2>3. FileOf(d)' = FileOf(d) /\ Lines(FileOf(d))' = Lines(FileOf(d))
        /\ Whole(FileOf(d))' = Whole(FileOf(d)) /\ source'[FileOf(d)] = source[FileOf(d)]
    BY <2>1, WholeStays DEF FileStays
  <2>. QED  BY <1>2, <2>1, <2>2, <2>3 DEF Covered, Kept
<1>. QED  BY <1>1, <1>2

LEMMA LinesAreNumbers ==
  ASSUME NEW u \in Files
  PROVE  Lines(u) \subseteq Nat \ {0} /\ IsFiniteSet(Lines(u))
         /\ \A n \in Nat \ {0}, i \in Lines(u) : n \notin Lines(u) => i < n
<1>. DEFINE rows == Contents[u].rows
<1>1. rows \in Seq(Seq(Addresses))
  BY FilesAssumption
<1>. HIDE DEF rows
<1>2. Len(rows) \in Nat /\ DOMAIN rows = 1..Len(rows)
  BY <1>1
<1>3. IsFiniteSet(DOMAIN rows)
  BY <1>1, SequenceIsFinite
<1>. QED  BY <1>2, <1>3 DEF Lines, rows

(* A parse of a live campaign has its file, and the file stays. *)
LEMMA ParsedFile ==
  ASSUME ImportTypes, [Next]_vars, NEW c \in Campaigns, Steady(c),
         job[c].at # "absent" \/ reader[c] # NoReader
  PROVE  /\ create[c].at # "unused" /\ FileOf(c) \in Files /\ FileStays(c)
         /\ FileOf(c)' = FileOf(c) /\ Lines(FileOf(c))' = Lines(FileOf(c))
         /\ Whole(FileOf(c))' = Whole(FileOf(c))
         /\ source'[FileOf(c)] = source[FileOf(c)]
         /\ \A i : recipients'[c] = recipients[c] => IsStored(c, i)' = IsStored(c, i)
<1>1. create[c].at # "unused" /\ FileOf(c) \in Files
  BY DEF ImportTypes, Held, FileOf
<1>2. FileStays(c)
  BY <1>1, FilesStay
<1>3. /\ FileOf(c)' = FileOf(c) /\ Lines(FileOf(c))' = Lines(FileOf(c))
      /\ Whole(FileOf(c))' = Whole(FileOf(c))
      /\ \A i : AddressOf(FileOf(c), i)' = AddressOf(FileOf(c), i)
  BY <1>2, WholeStays
<1>4. ASSUME recipients'[c] = recipients[c], NEW i PROVE IsStored(c, i)' = IsStored(c, i)
  BY <1>3, <1>4 DEF IsStored
<1>. QED  BY <1>1, <1>2, <1>3, <1>4 DEF FileStays

LEMMA OpenCovers ==
  ASSUME ImportTypes, [Next]_vars, NEW c \in Campaigns, Steady(c), Covered(c), Created(c), OpenFile(c)
  PROVE  Covered(c)'
<1>1. TypeOK /\ job[c].at = "open" /\ UNCHANGED <<campaign, recipients>>
  BY DEF OpenFile, ImportTypes
<1>2. FileOf(c)' = FileOf(c) /\ Lines(FileOf(c))' = Lines(FileOf(c)) /\ FileOf(c) \in Files
      /\ FileStays(c)
  BY <1>1, ParsedFile
<1>3. CASE JobGoes(c, "fail") /\ UNCHANGED reader
  <2>1. job'[c].at = "fail"
    BY <1>1, <1>3, JobWent
  <2>2. Kept(c)
    BY <1>1, <1>3, <2>1 DEF Kept
  <2>. QED  BY <1>2, <2>2, KeptIsCovered
<1>4. CASE JobGoes(c, "rows") /\ reader' = [reader EXCEPT ![c] = [NoReader EXCEPT !.open = TRUE]]
  <2>1. job'[c].at = "rows"
    BY <1>1, <1>4, JobWent
  <2>2. reader'[c].flights = {} /\ reader'[c].next = 1
    BY <1>1, <1>4 DEF TypeOK, NoReader
  <2>3. \A i \in Lines(FileOf(c))' : ~(i < 1)
    BY <1>2, LinesAreNumbers
  <2>4. campaign'[c].live => campaign'[c].parse # "done"
    BY <1>1 DEF Steady
  <2>. QED  BY <2>1, <2>2, <2>3, <2>4 DEF Covered
<1>. QED  BY <1>3, <1>4 DEF OpenFile

LEMMA ReadCovers ==
  ASSUME ImportTypes, [Next]_vars, NEW c \in Campaigns, Steady(c), Covered(c), ReadRow(c)
  PROVE  Covered(c)'
<1>. DEFINE i     == reader[c].next
            batch == IF AddressOf(FileOf(c), i) = {} THEN reader[c].batch
                     ELSE reader[c].batch \cup {i}
            full  == batch # reader[c].batch /\ Cardinality(batch) >= BatchSize
            lines == Lines(FileOf(c))
<1>1. TypeOK /\ Held(c) /\ reader[c] \in Reader
  BY DEF ImportTypes, TypeOK
<1>2. /\ i \in lines /\ reader[c].open /\ UNCHANGED <<job, campaign, recipients>>
      /\ source[FileOf(c)] = "xlsx" => reader[c].flights = {}
  BY DEF ReadRow, InTurn, Type
<1>3. reader[c] # NoReader
  BY <1>2 DEF NoReader
<1>4. /\ FileOf(c) \in Files /\ FileOf(c)' = FileOf(c) /\ Lines(FileOf(c))' = lines
      /\ Whole(FileOf(c))' = Whole(FileOf(c)) /\ source'[FileOf(c)] = source[FileOf(c)]
      /\ \A k : IsStored(c, k)' = IsStored(c, k)
  BY <1>2, <1>3, ParsedFile
<1>5. /\ reader'[c].next = i + 1 /\ reader'[c].batch = batch
      /\ reader'[c].flights = IF full THEN reader[c].flights \cup {[rows |-> batch, last |-> FALSE]}
                              ELSE reader[c].flights
  <2>1. reader' = [reader EXCEPT ![c].next = i + 1, ![c].batch = batch,
                     ![c].flights = IF full THEN @ \cup {[rows |-> batch, last |-> FALSE]} ELSE @]
    BY DEF ReadRow
  <2>. HIDE DEF i, batch, full
  <2>. QED  BY <1>1, <2>1 DEF TypeOK, Reader
<1>6. batch \subseteq lines /\ reader[c].batch \subseteq batch
  BY <1>1, <1>2 DEF Held
<1>7. lines \subseteq Nat \ {0} /\ IsFiniteSet(lines)
  BY <1>4, LinesAreNumbers
<1>. SUFFICES ASSUME campaign[c].live, Whole(FileOf(c)) PROVE Covered(c)'
  BY <1>2, <1>4 DEF Covered
<1>8. \A f \in reader[c].flights : source[FileOf(c)] # "xlsx" /\ f.rows = lines /\ ~f.last
  BY <1>2 DEF Covered
<1>9. full => source[FileOf(c)] = "xlsx" \/ batch = lines
  <2>. SUFFICES ASSUME full, source[FileOf(c)] # "xlsx" PROVE batch = lines
    OBVIOUS
  <2>1. Cardinality(batch) >= Cardinality(lines)
    <3>1. Cardinality(lines) <= BatchSize /\ Cardinality(batch) >= BatchSize
      BY DEF Whole
    <3>2. Cardinality(lines) \in Nat /\ Cardinality(batch) \in Nat /\ BatchSize \in Nat
      BY <1>6, <1>7, FS_CardinalityType, FS_Subset, ImportAssumption
    <3>. QED  BY <3>1, <3>2
  <2>. QED  BY <1>6, <1>7, <2>1, SubsetOfSameSize
<1>10. \A k \in lines : AddressOf(FileOf(c), i) = {} /\ k = i => IsStored(c, k)
  BY DEF IsStored
<1>11. job[c].at = "rows" => \A k \in lines : k < i + 1 => k \in batch \/ IsStored(c, k)
  <2>. SUFFICES ASSUME job[c].at = "rows", NEW k \in lines, k < i + 1
                PROVE  k \in batch \/ IsStored(c, k)
    OBVIOUS
  <2>1. k < i \/ k = i
    BY <1>2, <1>7
  <2>2. CASE k < i
    BY <1>6, <2>2 DEF Covered
  <2>3. CASE k = i
    BY <1>10, <2>3
  <2>. QED  BY <2>1, <2>2, <2>3
<1>12. job[c].at \in {"count", "finish"} \/ campaign[c].parse = "done" => \A k \in lines : IsStored(c, k)
  BY DEF Covered
<1>13. \A f \in reader'[c].flights : ~f.last /\ batch \subseteq f.rows
             /\ (source[FileOf(c)] = "xlsx" \/ f.rows = lines)
  <2>. HIDE DEF batch, full, lines
  <2>1. [rows |-> batch, last |-> FALSE].rows = batch /\ ~[rows |-> batch, last |-> FALSE].last
    OBVIOUS
  <2>. QED  BY <1>5, <1>6, <1>8, <1>9, <2>1
<1>. HIDE DEF batch, full, lines, i
<1>. QED  BY <1>2, <1>4, <1>5, <1>11, <1>12, <1>13 DEF Covered

LEMMA EndCovers ==
  ASSUME ImportTypes, [Next]_vars, NEW c \in Campaigns, Steady(c), Covered(c), EndOfRows(c)
  PROVE  Covered(c)'
<1>. DEFINE lines == Lines(FileOf(c))
            end   == [rows |-> reader[c].batch, last |-> TRUE]
<1>1. TypeOK /\ reader[c] \in Reader
  BY DEF ImportTypes, TypeOK
<1>2. job[c].at = "rows" /\ reader[c].next \notin lines /\ UNCHANGED <<campaign, recipients>>
  BY DEF EndOfRows
<1>3. /\ FileOf(c) \in Files /\ FileOf(c)' = FileOf(c) /\ Lines(FileOf(c))' = lines
      /\ Whole(FileOf(c))' = Whole(FileOf(c)) /\ source'[FileOf(c)] = source[FileOf(c)]
      /\ \A k : IsStored(c, k)' = IsStored(c, k)
  BY <1>2, ParsedFile
<1>. SUFFICES ASSUME campaign[c].live, Whole(FileOf(c)) PROVE Covered(c)'
  BY <1>2, <1>3 DEF Covered
<1>4. \A k \in lines : k \in reader[c].batch \/ IsStored(c, k)
  <2>1. \A k \in lines : k < reader[c].next
    BY <1>1, <1>2, <1>3, LinesAreNumbers DEF Reader
  <2>. QED  BY <1>2, <2>1 DEF Covered
<1>5. campaign[c].parse = "processing" /\ \A f \in reader[c].flights : ~f.last
  BY <1>2 DEF Steady
<1>6. CASE reader[c].batch = {} /\ JobGoes(c, "count") /\ UNCHANGED reader
  <2>1. job'[c].at = "count"
    BY <1>1, <1>6, JobWent
  <2>. QED  BY <1>2, <1>3, <1>4, <1>5, <1>6, <2>1 DEF Covered
<1>7. CASE JobGoes(c, "flush") /\ reader' = [reader EXCEPT ![c].flights = @ \cup {end}]
  <2>1. job'[c].at = "flush"
    BY <1>1, <1>7, JobWent
  <2>2. /\ reader'[c].next = reader[c].next /\ reader'[c].batch = reader[c].batch
        /\ reader'[c].flights = reader[c].flights \cup {end}
    BY <1>1, <1>7 DEF TypeOK, Reader
  <2>3. \A f \in reader[c].flights : reader[c].batch \subseteq f.rows
    BY DEF Covered
  <2>4. end.rows = reader[c].batch
    OBVIOUS
  <2>. HIDE DEF end
  <2>5. \A f \in reader'[c].flights : reader[c].batch \subseteq f.rows
                                      /\ (f.last => f.rows = reader[c].batch)
    BY <1>5, <2>2, <2>3, <2>4
  <2>. QED  BY <1>2, <1>3, <1>4, <1>5, <2>1, <2>2, <2>5 DEF Covered
<1>. QED  BY <1>6, <1>7 DEF EndOfRows, Remaining

LEMMA InsertCovers ==
  ASSUME ImportTypes, [Next]_vars, NEW c \in Campaigns, Steady(c), Covered(c),
         NEW g \in reader[c].flights, InsertRows(c, g)
  PROVE  Covered(c)'
<1>. DEFINE lines == Lines(FileOf(c))
<1>1. TypeOK /\ reader[c] # NoReader
  BY DEF ImportTypes, NoReader
<1>2. /\ campaign[c].live /\ UNCHANGED campaign
      /\ recipients'[c] = recipients[c] \cup AddressesOf(FileOf(c), g.rows)
      /\ (job' = job /\ ~g.last) \/ (g.last /\ JobGoes(c, "count"))
  <2>1. recipients' = [recipients EXCEPT ![c] = @ \cup AddressesOf(FileOf(c), g.rows)]
        /\ DOMAIN recipients = Campaigns
    BY <1>1 DEF InsertRows, TypeOK
  <2>2. (job' = job /\ ~g.last) \/ (g.last /\ JobGoes(c, "count"))
    BY DEF InsertRows
  <2>. QED  BY <2>1, <2>2 DEF InsertRows
<1>3. /\ reader'[c].flights = reader[c].flights \ {g} /\ reader'[c].next = reader[c].next
      /\ reader'[c].batch = {}
  BY <1>1, FlightLanded
<1>4. /\ FileOf(c)' = FileOf(c) /\ Lines(FileOf(c))' = lines /\ FileStays(c)
      /\ Whole(FileOf(c))' = Whole(FileOf(c)) /\ source'[FileOf(c)] = source[FileOf(c)]
  BY <1>1, ParsedFile
<1>5. \A k : k \in g.rows \/ IsStored(c, k) => IsStored(c, k)'
  <2>1. \A k : AddressOf(FileOf(c), k)' = AddressOf(FileOf(c), k)
    BY <1>4, WholeStays
  <2>. QED  BY <1>2, <2>1 DEF IsStored, AddressesOf
<1>. SUFFICES ASSUME Whole(FileOf(c)) PROVE Covered(c)'
  BY <1>4 DEF Covered
<1>6. \A f \in reader[c].flights :
        /\ source[FileOf(c)] = "xlsx" \/ f.rows = lines \/ reader[c].next \notin lines
        /\ f.last => /\ reader[c].next \notin lines
                     /\ \A i \in lines : i \in f.rows \/ IsStored(c, i)
  BY <1>2 DEF Covered
<1>7. reader[c].batch \subseteq g.rows
  BY <1>2 DEF Covered
<1>8. CASE job' = job /\ ~g.last
  <2>1. job[c].at = "rows" =>
          \A i \in lines : i < reader[c].next => i \in reader[c].batch \/ IsStored(c, i)
    BY <1>2 DEF Covered
  <2>2. job[c].at \in {"count", "finish"} \/ campaign[c].parse = "done" =>
          \A i \in lines : IsStored(c, i)
    BY <1>2 DEF Covered
  <2>. QED  BY <1>2, <1>3, <1>4, <1>5, <1>6, <1>7, <1>8, <2>1, <2>2 DEF Covered
<1>9. CASE g.last /\ JobGoes(c, "count")
  <2>1. job'[c].at = "count"
    BY <1>1, <1>9, JobWent
  <2>2. \A i \in lines : IsStored(c, i)'
    BY <1>5, <1>6, <1>9
  <2>. QED  BY <1>2, <1>3, <1>4, <1>5, <1>6, <2>1, <2>2 DEF Covered
<1>. QED  BY <1>2, <1>8, <1>9

LEMMA InsertFailCovers ==
  ASSUME ImportTypes, [Next]_vars, NEW c \in Campaigns, Steady(c), Covered(c),
         NEW g \in reader[c].flights, InsertFails(c, g)
  PROVE  Covered(c)'
<1>. DEFINE lines == Lines(FileOf(c))
<1>1. TypeOK /\ reader[c] # NoReader
  BY DEF ImportTypes, NoReader
<1>2. /\ UNCHANGED <<campaign, recipients>>
      /\ (job' = job /\ job[c].at # "rows") \/ JobGoes(c, "fail")
  BY DEF InsertFails
<1>3. /\ reader'[c].flights = reader[c].flights \ {g} /\ reader'[c].next = reader[c].next
      /\ reader'[c].batch = reader[c].batch
  BY <1>1, FlightLanded
<1>4. /\ FileOf(c)' = FileOf(c) /\ Lines(FileOf(c))' = lines
      /\ Whole(FileOf(c))' = Whole(FileOf(c)) /\ source'[FileOf(c)] = source[FileOf(c)]
      /\ \A k : IsStored(c, k)' = IsStored(c, k)
  BY <1>1, <1>2, ParsedFile
<1>5. job'[c].at = "fail" \/ (job'[c].at = job[c].at /\ job[c].at # "rows")
  <2>1. JobGoes(c, "fail") => job'[c].at = "fail"
    BY <1>1, JobWent
  <2>. QED  BY <1>2, <2>1
<1>. QED  BY <1>2, <1>3, <1>4, <1>5 DEF Covered

LEMMA FinishCovers ==
  ASSUME ImportTypes, [Next]_vars, NEW c \in Campaigns, Steady(c), Covered(c), FinishParse(c)
  PROVE  Covered(c)'
<1>. DEFINE lines == Lines(FileOf(c))
<1>1. TypeOK
  BY DEF ImportTypes
<1>2. /\ job[c].at = "finish" /\ UNCHANGED <<recipients, reader>> /\ JobGoes(c, "ack")
      /\ campaign'[c].live = campaign[c].live
  BY <1>1 DEF FinishParse, TypeOK, Row
<1>3. job'[c].at = "ack"
  BY <1>1, <1>2, JobWent
<1>4. /\ FileOf(c)' = FileOf(c) /\ Lines(FileOf(c))' = lines
      /\ Whole(FileOf(c))' = Whole(FileOf(c)) /\ source'[FileOf(c)] = source[FileOf(c)]
      /\ \A k : IsStored(c, k)' = IsStored(c, k)
  BY <1>2, ParsedFile
<1>. QED  BY <1>2, <1>3, <1>4 DEF Covered

(* A parse touches its own campaign only. *)
LEMMA OthersParse ==
  ASSUME TypeOK, NEW c \in Campaigns, NEW d \in Campaigns, d # c, ParseStep(c) \/ ParseThrows(c)
  PROVE  /\ campaign'[d] = campaign[d] /\ recipients'[d] = recipients[d]
         /\ reader'[d] = reader[d] /\ job'[d] = job[d]
<1>. USE DEF TypeOK
<1>1. CASE MarkProcessing(c)
  BY <1>1 DEF MarkProcessing, WriteParse, JobGoes
<1>2. CASE OpenFile(c)
  BY <1>2 DEF OpenFile, JobGoes
<1>3. CASE ReadRow(c)
  BY <1>3 DEF ReadRow
<1>4. CASE EndOfRows(c)
  BY <1>4 DEF EndOfRows, JobGoes
<1>5. ASSUME NEW f \in reader[c].flights, InsertRows(c, f) \/ InsertFails(c, f)
      PROVE  /\ campaign'[d] = campaign[d] /\ recipients'[d] = recipients[d]
             /\ reader'[d] = reader[d] /\ job'[d] = job[d]
  BY <1>5 DEF InsertRows, InsertFails, JobGoes
<1>6. CASE CountRecipients(c) \/ FinishParse(c)
  BY <1>6 DEF CountRecipients, FinishParse, JobGoes
<1>7. CASE MarkFailed(c) \/ Complete(c)
  BY <1>7 DEF MarkFailed, Failure, WriteParse, Complete, JobGoes
<1>8. CASE ParseThrows(c)
  BY <1>8 DEF ParseThrows, JobGoes
<1>. QED  BY <1>1, <1>2, <1>3, <1>4, <1>5, <1>6, <1>7, <1>8 DEF ParseStep

LEMMA CoveredStep ==
  ASSUME ImportTypes, AllCreated, [Next]_vars, NEW d \in Campaigns, Steady(d), Covered(d)
  PROVE  Covered(d)'
<1>1. TypeOK /\ Held(d) /\ Created(d)
  BY DEF ImportTypes, AllCreated
<1>2. Kept(d) => Covered(d)'
  BY <1>1, FilesStay, KeptIsCovered
<1>3. ASSUME NEW c \in Campaigns, NEW u \in Files, SaveCampaign(c, u) PROVE Covered(d)'
  <2>1. UNCHANGED <<job, reader, recipients>> /\ create[c].at = "unused"
        /\ campaign' = [campaign EXCEPT ![c].live = TRUE]
    BY <1>3 DEF SaveCampaign
  <2>2. CASE d = c
    <3>1. job[d].at = "absent" /\ reader[d].flights = {} /\ campaign[d].parse = "pending"
      BY <1>1, <2>1, <2>2 DEF Held, NoReader, Created, NoRow
    <3>2. campaign'[d].parse = "pending"
      BY <1>1, <2>1, <2>2, <3>1 DEF TypeOK, Row
    <3>. QED  BY <2>1, <3>1, <3>2 DEF Covered
  <2>3. CASE d # c
    <3>1. campaign'[d] = campaign[d]
      BY <1>1, <2>1, <2>3 DEF TypeOK
    <3>. QED  BY <1>2, <2>1, <3>1 DEF Kept
  <2>. QED  BY <2>2, <2>3
<1>4. ASSUME NEW x \in HandAdded, AddRecipient(x) PROVE Covered(d)'
  BY <1>1, <1>2, <1>4 DEF AddRecipient, Kept, TypeOK
<1>5. ASSUME NEW c \in Campaigns, Remove(c) PROVE Covered(d)'
  <2>1. UNCHANGED <<job, reader>> /\ campaign' = [campaign EXCEPT ![c] = NoRow]
        /\ recipients' = [recipients EXCEPT ![c] = {}]
    BY <1>5 DEF Remove
  <2>2. IF d = c THEN ~campaign'[d].live
        ELSE campaign'[d] = campaign[d] /\ recipients'[d] = recipients[d]
    BY <1>1, <2>1 DEF TypeOK, NoRow
  <2>. QED  BY <1>2, <2>1, <2>2 DEF Kept
<1>6. ASSUME NEW u \in Files, UploadStep(u) \/ UploadAborts(u) PROVE Covered(d)'
  <2>1. UNCHANGED <<campaign, recipients, job, reader>>
    BY <1>6 DEF UploadStep, UploadAborts, Preview, PushFileOnCloud, SaveDataSource, FinishUpload
  <2>. QED  BY <1>2, <2>1 DEF Kept
<1>7. ASSUME NEW c \in Campaigns, CreateStep(c) \/ CreateAborts(c) PROVE Covered(d)'
  <2>1. UNCHANGED <<recipients, reader>>
    BY <1>7 DEF CreateStep, LinkDataSource, EnqueueParseFile, CreateAborts
  <2>2. job'[d].at = job[d].at \/ job'[d].at = "waiting"
    BY <1>1, <1>7 DEF CreateStep, LinkDataSource, EnqueueParseFile, CreateAborts, TypeOK, Job
  <2>3. campaign'[d].live = campaign[d].live /\ campaign'[d].parse = campaign[d].parse
    BY <1>1, <1>7 DEF CreateStep, LinkDataSource, EnqueueParseFile, CreateAborts, TypeOK, Row
  <2>. QED  BY <1>2, <2>1, <2>2, <2>3 DEF Kept
<1>8. ASSUME NEW x \in HandAdded, CountRecipient(x) \/ AddAborts(x) PROVE Covered(d)'
  <2>1. UNCHANGED <<recipients, reader, job>>
    BY <1>8 DEF CountRecipient, AddAborts
  <2>2. campaign'[d].live = campaign[d].live /\ campaign'[d].parse = campaign[d].parse
    BY <1>1, <1>8, HandPlaces DEF CountRecipient, AddAborts, Incremented, TypeOK, Row
  <2>. QED  BY <1>2, <2>1, <2>2 DEF Kept
<1>9. ASSUME NEW c \in Campaigns, NEW p \in Processes, StartJob(c, p) PROVE Covered(d)'
  <2>1. UNCHANGED <<campaign, recipients, reader>>
    BY <1>9 DEF StartJob
  <2>2. job'[d].at = job[d].at \/ job'[d].at = "mark"
    BY <1>1, <1>9 DEF StartJob, TypeOK, Job
  <2>. QED  BY <1>2, <2>1, <2>2 DEF Kept
<1>10. ASSUME NEW p \in Processes, Crash(p) PROVE Covered(d)'
  <2>1. UNCHANGED <<campaign, recipients>>
    BY <1>10 DEF Crash
  <2>2. \/ job'[d].at = job[d].at /\ (reader'[d] = reader[d] \/ (job[d].at # "rows" /\ reader'[d] = NoReader))
        \/ job'[d].at \in {"waiting", "failed"} /\ reader'[d] = NoReader
    <3>1. DOMAIN job = Campaigns
      BY <1>1 DEF TypeOK
    <3>2. job'[d] = IF job[d].proc = p /\ job[d].at \in ActiveAt THEN Stalled(job[d]) ELSE job[d]
      BY <1>10 DEF Crash
    <3>3. reader'[d] = IF job[d].proc = p THEN NoReader ELSE reader[d]
      BY <1>10 DEF Crash
    <3>4. job[d] \in Job
      BY <1>1 DEF TypeOK
    <3>5. Stalled(job[d]).at \in {"waiting", "failed"}
      BY <3>4, Stalls
    <3>. QED  BY <3>2, <3>3, <3>5 DEF ActiveAt
  <2>3. NoReader.flights = {}
    BY DEF NoReader
  <2>. QED  BY <1>2, <2>1, <2>2, <2>3 DEF Kept
<1>11. ASSUME NEW c \in Campaigns, d # c, ParseStep(c) \/ ParseThrows(c) PROVE Covered(d)'
  BY <1>1, <1>2, <1>11, OthersParse DEF Kept
<1>12. CASE ParseThrows(d)
  <2>1. UNCHANGED <<campaign, recipients, reader>>
        /\ (job' = [job EXCEPT ![d] = Retry(@)] \/ JobGoes(d, "fail"))
    BY <1>12 DEF ParseThrows
  <2>2. job'[d].at \in {"waiting", "failed", "fail"}
    BY <1>1, <2>1, JobRetried, JobWent
  <2>. QED  BY <1>2, <2>1, <2>2 DEF Kept
<1>13. CASE MarkProcessing(d)
  <2>1. UNCHANGED <<recipients, reader>>
        /\ (job' = [job EXCEPT ![d] = Retry(@)] \/ JobGoes(d, "open"))
    BY <1>13 DEF MarkProcessing
  <2>2. job'[d].at \in {"waiting", "failed", "open"}
    BY <1>1, <2>1, JobRetried, JobWent
  <2>3. campaign'[d].live = campaign[d].live /\ (campaign'[d].live => campaign'[d].parse = "processing")
    BY <1>1, <1>13 DEF MarkProcessing, WriteParse, TypeOK, Row
  <2>. QED  BY <1>2, <2>1, <2>2, <2>3 DEF Kept
<1>14. CASE CountRecipients(d)
  <2>1. UNCHANGED <<campaign, recipients, reader>> /\ job[d].at = "count"
    BY <1>14 DEF CountRecipients
  <2>2. job'[d].at = "finish"
    BY <1>1, <1>14 DEF CountRecipients, TypeOK, Job
  <2>. QED  BY <1>2, <2>1, <2>2 DEF Kept
<1>15. CASE MarkFailed(d)
  <2>1. UNCHANGED <<recipients, reader>> /\ JobGoes(d, "failed")
    BY <1>15 DEF MarkFailed
  <2>2. campaign'[d].live = campaign[d].live /\ (campaign'[d].live => campaign'[d].parse = "failed")
    BY <1>1, <1>15 DEF MarkFailed, Failure, WriteParse, TypeOK, Row
  <2>. QED  BY <1>1, <1>2, <2>1, <2>2, JobWent DEF Kept
<1>16. CASE Complete(d)
  <2>1. UNCHANGED <<campaign, recipients, reader>> /\ JobGoes(d, "completed")
    BY <1>16 DEF Complete
  <2>. QED  BY <1>1, <1>2, <2>1, JobWent DEF Kept
<1>17. CASE ParseStep(d)
  BY <1>1, <1>13, <1>14, <1>15, <1>16, <1>17, OpenCovers, ReadCovers, EndCovers, InsertCovers,
     InsertFailCovers, FinishCovers DEF ParseStep
<1>18. ASSUME NEW c \in Campaigns, NEW u \in Files \cup {NoFile}, PatchDataSource(c, u)
       PROVE  Covered(d)'
  BY <1>1, <1>2, <1>18, PatchKeeps DEF Kept
<1>19. CASE UNCHANGED vars
  BY <1>2, <1>19 DEF vars, Kept
<1>. QED
  BY <1>3, <1>4, <1>5, <1>6, <1>7, <1>8, <1>9, <1>10, <1>11, <1>12, <1>17, <1>18, <1>19
     DEF Next, UserStep, WorkStep, FaultStep

(* A campaign's part of a step of RecipientImport. *)
Stays(c) == /\ Promised(c)' = Promised(c) /\ recipients'[c] = recipients[c]
            /\ OutcomeOf(c)' = OutcomeOf(c)

Abstracted(c) ==
    \/ Stays(c)
    \/ /\ Promised(c)' = Promised(c) /\ recipients'[c] = recipients[c]
       /\ \/ OutcomeOf(c) = "none" /\ OutcomeOf(c)' = "open"
          \/ OutcomeOf(c) = "open" /\ OutcomeOf(c)' = "failed"
          \/ OutcomeOf(c) \in {"done", "failed"} /\ OutcomeOf(c)' = "open"
          \/ /\ OutcomeOf(c) \in {"open", "done"} /\ OutcomeOf(c)' = "done"
             /\ Promised(c) \subseteq recipients[c]
    \/ /\ OutcomeOf(c) = "open" /\ Promised(c) = {} /\ Promised(c)' \in SUBSET AllAddresses
       /\ OutcomeOf(c)' = OutcomeOf(c) /\ recipients'[c] = recipients[c]
    \/ /\ OutcomeOf(c) # "none" /\ OutcomeOf(c)' = OutcomeOf(c) /\ Promised(c)' = Promised(c)
       /\ \E S \in SUBSET AllAddresses : recipients'[c] = recipients[c] \cup S
    \/ /\ OutcomeOf(c) # "none" /\ OutcomeOf(c)' = "none"
       /\ Promised(c)' = {} /\ recipients'[c] = {}

LEMMA MovesImport ==
  ASSUME TypeOK, TypeOK', NEW c \in Campaigns, Abstracted(c), \A d \in Campaigns \ {c} : Stays(d)
  PROVE  [Import!Next]_(Import!vars)
<1>. DEFINE P == [d \in Campaigns |-> Promised(d)]
            O == [d \in Campaigns |-> OutcomeOf(d)]
            R == recipients
<1>1. /\ P' = [P EXCEPT ![c] = Promised(c)'] /\ P[c] = Promised(c)
      /\ O' = [O EXCEPT ![c] = OutcomeOf(c)'] /\ O[c] = OutcomeOf(c)
  BY DEF Stays
<1>2. R' = [R EXCEPT ![c] = recipients'[c]]
  BY DEF Stays, TypeOK
<1>3. Promised(c)' = Promised(c) => P' = P
  BY DEF Stays
<1>4. OutcomeOf(c)' = OutcomeOf(c) => O' = O
  BY DEF Stays
<1>5. recipients'[c] = recipients[c] => R' = R
  BY <1>2 DEF TypeOK
<1>6. CASE Stays(c)
  <2>1. P' = P /\ O' = O /\ R' = R
    BY <1>6, <1>3, <1>4, <1>5 DEF Stays
  <2>. QED  BY <2>1 DEF Import!vars
<1>7. ASSUME /\ Promised(c)' = Promised(c) /\ recipients'[c] = recipients[c]
             /\ \/ OutcomeOf(c) = "none" /\ OutcomeOf(c)' = "open"
                \/ OutcomeOf(c) = "open" /\ OutcomeOf(c)' = "failed"
                \/ OutcomeOf(c) \in {"done", "failed"} /\ OutcomeOf(c)' = "open"
                \/ /\ OutcomeOf(c) \in {"open", "done"} /\ OutcomeOf(c)' = "done"
                   /\ Promised(c) \subseteq recipients[c]
      PROVE  Import!Next
  <2>1. P' = P /\ R' = R
    BY <1>7, <1>3, <1>5
  <2>. HIDE DEF P, O
  <2>2. Import!Create(c) \/ Import!Fail(c) \/ Import!Reopen(c) \/ Import!Finish(c)
    BY <1>1, <1>7, <2>1 DEF Import!Create, Import!Fail, Import!Reopen, Import!Finish, P, O
  <2>. QED  BY <2>2 DEF Import!Next
<1>8. ASSUME OutcomeOf(c) = "open", Promised(c) = {}, Promised(c)' \in SUBSET AllAddresses,
             OutcomeOf(c)' = OutcomeOf(c), recipients'[c] = recipients[c]
      PROVE  Import!Next
  <2>1. O' = O /\ R' = R
    BY <1>8, <1>4, <1>5
  <2>. HIDE DEF P, O
  <2>2. Import!Link(c)
    BY <1>1, <1>8, <2>1 DEF Import!Link, P, O
  <2>. QED  BY <2>2 DEF Import!Next
<1>9. ASSUME OutcomeOf(c) # "none", OutcomeOf(c)' = OutcomeOf(c), Promised(c)' = Promised(c),
             NEW S \in SUBSET AllAddresses, recipients'[c] = recipients[c] \cup S
      PROVE  Import!Next
  <2>1. O' = O /\ P' = P
    BY <1>9, <1>3, <1>4
  <2>2. R' = [R EXCEPT ![c] = @ \cup S]
    BY <1>2, <1>9
  <2>. HIDE DEF P, O
  <2>3. Import!Store(c)
    BY <1>1, <1>9, <2>1, <2>2 DEF Import!Store, P, O
  <2>. QED  BY <2>3 DEF Import!Next
<1>10. ASSUME OutcomeOf(c) # "none", OutcomeOf(c)' = "none", Promised(c)' = {}, recipients'[c] = {}
      PROVE  Import!Next
  <2>. HIDE DEF P, O
  <2>1. Import!Delete(c)
    BY <1>1, <1>2, <1>10 DEF Import!Delete, P, O
  <2>. QED  BY <2>1 DEF Import!Next
<1>. QED  BY <1>6, <1>7, <1>8, <1>9, <1>10 DEF Abstracted

(* What a campaign's part in the abstract state is read from. *)
SameJob(d) == job'[d].at = "absent" <=> job[d].at = "absent"

Same(d) == /\ campaign'[d].live = campaign[d].live /\ campaign'[d].parse = campaign[d].parse
           /\ recipients'[d] = recipients[d]
           /\ SameJob(d)

(* The file a job was queued for says what it said, whatever the campaign is *)
(* linked to.                                                                *)
LEMMA PromiseStays ==
  ASSUME ImportTypes, [Next]_vars, NEW d \in Campaigns, Steady(d),
         campaign'[d].live = campaign[d].live, SameJob(d)
  PROVE  Promised(d)' = Promised(d)
<1>1. CASE job[d].at = "absent"
  BY <1>1 DEF SameJob, Promised, Enqueued
<1>2. CASE job[d].at # "absent"
  <2>1. FileOf(d)' = FileOf(d) /\ Whole(FileOf(d))' = Whole(FileOf(d))
    BY <1>2, ParsedFile
  <2>2. Enqueued(d)' = Enqueued(d)
    BY DEF SameJob, Enqueued
  <2>3. Previewed' = Previewed
    BY DEF Previewed, Lines, HeaderColumns
  <2>. QED  BY <2>1, <2>2, <2>3 DEF Promised
<1>. QED  BY <1>1, <1>2

LEMMA SameStays ==
  ASSUME ImportTypes, [Next]_vars, NEW d \in Campaigns, Steady(d), Same(d) PROVE Stays(d)
<1>1. OutcomeOf(d)' = OutcomeOf(d)
  BY DEF OutcomeOf, Same
<1>. QED  BY <1>1, PromiseStays DEF Same, Stays

(* When everything of its file is stored, a campaign has what it was promised. *)
LEMMA PromiseKept ==
  ASSUME ImportTypes, NEW c \in Campaigns,
         Whole(FileOf(c)) => \A i \in Lines(FileOf(c)) : IsStored(c, i)
  PROVE  Promised(c) \subseteq recipients[c]
<1>1. CASE Enqueued(c) /\ Whole(FileOf(c))
  <2>1. FileOf(c) \in Files
    BY <1>1 DEF Enqueued, ImportTypes, Held, FileOf
  <2>2. Promised(c) = AddressesOf(FileOf(c), Lines(FileOf(c)))
    BY <1>1, <2>1, PreviewedRows DEF Promised
  <2>. QED  BY <1>1, <2>2 DEF AddressesOf, IsStored
<1>2. CASE ~(Enqueued(c) /\ Whole(FileOf(c)))
  BY <1>2 DEF Promised
<1>. QED  BY <1>1, <1>2

LEMMA LiveIsKnown == ASSUME NEW c \in Campaigns, campaign[c].live PROVE OutcomeOf(c) # "none"
  BY DEF OutcomeOf

ImportFacts == /\ ImportTypes /\ AllCreated
               /\ \A c \in Campaigns : Steady(c) /\ Covered(c)

(* A step of a parse neither queues a job nor takes one off the queue's books. *)
LEMMA ParseStays ==
  ASSUME ImportTypes, NEW c \in Campaigns, ParseStep(c) \/ ParseThrows(c) PROVE SameJob(c)
<1>1. TypeOK /\ Held(c)
  BY DEF ImportTypes
<1>2. job[c].at # "absent"
  <2>1. CASE \E f \in reader[c].flights : InsertRows(c, f) \/ InsertFails(c, f)
    <3>1. reader[c] # NoReader
      BY <2>1 DEF NoReader
    <3>. QED  BY <1>1, <3>1 DEF Held
  <2>2. CASE ~\E f \in reader[c].flights : InsertRows(c, f) \/ InsertFails(c, f)
    <3>1. CASE ReadRow(c)
      BY <1>1, <3>1, ReaderRead DEF Held
    <3>. QED  BY <2>2, <3>1 DEF ParseStep, ParseThrows, MarkProcessing, OpenFile, EndOfRows,
                  CountRecipients, FinishParse, MarkFailed, Failure, Complete
  <2>. QED  BY <2>1, <2>2
<1>3. \/ job' = job
      \/ job' = [job EXCEPT ![c] = Retry(@)]
      \/ \E place \in {"open", "rows", "flush", "count", "ack", "fail", "failed", "completed"} :
           JobGoes(c, place)
      \/ CountRecipients(c)
  BY DEF ParseStep, ParseThrows, MarkProcessing, OpenFile, ReadRow, EndOfRows, InsertRows,
     InsertFails, FinishParse, MarkFailed, Complete
<1>4. CASE job' = job
  BY <1>4 DEF SameJob
<1>5. CASE job' = [job EXCEPT ![c] = Retry(@)]
  BY <1>1, <1>2, <1>5, JobRetried DEF SameJob
<1>6. ASSUME NEW place \in {"open", "rows", "flush", "count", "ack", "fail", "failed", "completed"},
             JobGoes(c, place)
      PROVE  SameJob(c)
  <2>1. job'[c].at = place
    BY <1>1, <1>6, JobWent
  <2>. QED  BY <1>2, <1>6, <2>1 DEF SameJob
<1>7. CASE CountRecipients(c)
  <2>1. job'[c].at = "finish"
    BY <1>1, <1>7 DEF CountRecipients, TypeOK, Job
  <2>. QED  BY <1>2, <2>1 DEF SameJob
<1>. QED  BY <1>3, <1>4, <1>5, <1>6, <1>7

LEMMA ParseMoves ==
  ASSUME ImportFacts, [Next]_vars, NEW c \in Campaigns, ParseStep(c) \/ ParseThrows(c)
  PROVE  Abstracted(c)
<1>1. TypeOK /\ Held(c) /\ Steady(c) /\ Covered(c) /\ ImportTypes /\ SameJob(c)
  BY ParseStays DEF ImportFacts, ImportTypes
<1>2. Same(c) => Abstracted(c)
  BY <1>1, SameStays DEF Abstracted
<1>3. campaign[c] \in Row /\ DOMAIN campaign = Campaigns
  BY <1>1 DEF TypeOK
<1>4. CASE MarkProcessing(c)
  <2>1. UNCHANGED recipients /\ WriteParse(c, "processing")
    BY <1>4 DEF MarkProcessing
  <2>2. CASE ~campaign[c].live
    BY <1>1, <1>2, <2>1, <2>2 DEF WriteParse, Same
  <2>3. CASE campaign[c].live
    <3>1. /\ campaign'[c].live /\ campaign'[c].parse = "processing"
      BY <1>3, <2>1, <2>3 DEF WriteParse, Row
    <3>2. Promised(c)' = Promised(c)
      BY <1>1, <2>3, <3>1, PromiseStays
    <3>3. OutcomeOf(c) \in {"open", "done", "failed"} /\ OutcomeOf(c)' = "open"
      BY <2>3, <3>1 DEF OutcomeOf
    <3>. QED  BY <2>1, <3>2, <3>3 DEF Abstracted, Stays
  <2>. QED  BY <2>2, <2>3
<1>5. CASE OpenFile(c) \/ ReadRow(c) \/ EndOfRows(c) \/ CountRecipients(c) \/ Complete(c)
           \/ ParseThrows(c)
  <2>1. UNCHANGED <<campaign, recipients>>
    BY <1>5 DEF OpenFile, ReadRow, EndOfRows, CountRecipients, Complete, ParseThrows
  <2>. QED  BY <1>1, <1>2, <2>1 DEF Same
<1>6. ASSUME NEW f \in reader[c].flights, InsertFails(c, f) PROVE Abstracted(c)
  BY <1>1, <1>2, <1>6 DEF InsertFails, Same
<1>7. ASSUME NEW f \in reader[c].flights, InsertRows(c, f) PROVE Abstracted(c)
  <2>1. UNCHANGED campaign /\ campaign[c].live
        /\ recipients' = [recipients EXCEPT ![c] = @ \cup AddressesOf(FileOf(c), f.rows)]
    BY <1>7 DEF InsertRows
  <2>2. recipients'[c] = recipients[c] \cup AddressesOf(FileOf(c), f.rows)
    BY <1>1, <2>1 DEF TypeOK
  <2>3. reader[c] # NoReader /\ f.rows \subseteq Lines(FileOf(c))
    BY <1>1 DEF NoReader, Held
  <2>4. AddressesOf(FileOf(c), f.rows) \subseteq AllAddresses
    BY <1>1, <2>3, ParsedFile, RowsAreKnown
  <2>5. Promised(c)' = Promised(c) /\ OutcomeOf(c)' = OutcomeOf(c) /\ OutcomeOf(c) # "none"
    BY <1>1, <2>1, PromiseStays, LiveIsKnown DEF OutcomeOf
  <2>. QED  BY <2>2, <2>4, <2>5 DEF Abstracted
<1>8. CASE FinishParse(c)
  <2>1. UNCHANGED recipients /\ job[c].at = "finish"
        /\ campaign' = IF campaign[c].live
                       THEN [campaign EXCEPT ![c].parse = "done", ![c].total = job[c].counted]
                       ELSE campaign
    BY <1>8 DEF FinishParse
  <2>2. CASE ~campaign[c].live
    BY <1>1, <1>2, <2>1, <2>2 DEF Same
  <2>3. CASE campaign[c].live
    <3>1. /\ campaign'[c].live /\ campaign'[c].parse = "done"
      BY <1>3, <2>1, <2>3 DEF Row
    <3>2. Promised(c)' = Promised(c)
      BY <1>1, <2>3, <3>1, PromiseStays
    <3>3. OutcomeOf(c) = "open" /\ OutcomeOf(c)' = "done"
      BY <1>1, <2>1, <2>3, <3>1 DEF OutcomeOf, Steady
    <3>4. Promised(c) \subseteq recipients[c]
      BY <1>1, <2>1, <2>3, PromiseKept DEF Covered
    <3>. QED  BY <2>1, <3>2, <3>3, <3>4 DEF Abstracted
  <2>. QED  BY <2>2, <2>3
<1>9. CASE MarkFailed(c)
  <2>1. UNCHANGED recipients /\ job[c].at = "fail" /\ WriteParse(c, "failed")
    BY <1>9 DEF MarkFailed, Failure
  <2>2. CASE ~campaign[c].live
    BY <1>1, <1>2, <2>1, <2>2 DEF WriteParse, Same
  <2>3. CASE campaign[c].live
    <3>1. /\ campaign'[c].live /\ campaign'[c].parse = "failed"
      BY <1>3, <2>1, <2>3 DEF WriteParse, Row
    <3>2. Promised(c)' = Promised(c)
      BY <1>1, <2>3, <3>1, PromiseStays
    <3>3. OutcomeOf(c) = "open" /\ OutcomeOf(c)' = "failed"
      BY <1>1, <2>1, <2>3, <3>1 DEF OutcomeOf, Steady
    <3>. QED  BY <2>1, <3>2, <3>3 DEF Abstracted
  <2>. QED  BY <2>2, <2>3
<1>. QED  BY <1>4, <1>5, <1>6, <1>7, <1>8, <1>9 DEF ParseStep

LEMMA RequestMoves ==
  ASSUME ImportFacts, [Next]_vars, NEW c \in Campaigns
  PROVE  /\ \A u \in Files : SaveCampaign(c, u) => Abstracted(c)
         /\ EnqueueParseFile(c) => Abstracted(c)
         /\ Remove(c) => Abstracted(c)
         /\ \A x \in HandAdded : AddRecipient(x) /\ x[1] = c => Abstracted(c)
<1>1. TypeOK /\ Held(c) /\ Created(c) /\ Steady(c) /\ ImportTypes /\ DOMAIN campaign = Campaigns
      /\ campaign[c] \in Row /\ DOMAIN recipients = Campaigns
  BY DEF ImportFacts, ImportTypes, AllCreated, TypeOK
<1>2. ASSUME NEW u \in Files, SaveCampaign(c, u) PROVE Abstracted(c)
  <2>1. UNCHANGED <<recipients, job>> /\ create[c].at = "unused"
        /\ campaign' = [campaign EXCEPT ![c].live = TRUE]
    BY <1>2 DEF SaveCampaign
  <2>2. ~campaign[c].live /\ campaign[c].parse = "pending"
    BY <1>1, <2>1 DEF Created, NoRow
  <2>3. campaign'[c].live /\ campaign'[c].parse = "pending"
    BY <1>1, <2>1, <2>2 DEF Row
  <2>4. OutcomeOf(c) = "none" /\ OutcomeOf(c)' = "open"
    BY <2>2, <2>3 DEF OutcomeOf
  <2>5. Promised(c) = {} /\ Promised(c)' = {}
    BY <1>1, <2>1 DEF Held, Promised, Enqueued
  <2>. QED  BY <2>1, <2>4, <2>5 DEF Abstracted
<1>3. ASSUME EnqueueParseFile(c) PROVE Abstracted(c)
  <2>1. UNCHANGED <<campaign, recipients, source>> /\ job[c].at = "absent"
        /\ create[c].at = "enqueue" /\ create'[c].file = create[c].file
    BY <1>1, <1>3 DEF EnqueueParseFile, CreateGoes, Held, TypeOK, Create
  <2>2. Promised(c) = {} /\ OutcomeOf(c)' = OutcomeOf(c)
    BY <2>1 DEF Promised, Enqueued, OutcomeOf
  <2>3. CASE ~campaign[c].live
    <3>1. Promised(c)' = {}
      BY <2>1, <2>3 DEF Promised, Enqueued
    <3>. QED  BY <2>1, <2>2, <3>1 DEF Abstracted, Stays
  <2>4. CASE campaign[c].live
    <3>1. OutcomeOf(c) = "open"
      BY <1>1, <2>1, <2>4 DEF OutcomeOf, Steady
    <3>2. FileOf(c) \in Files /\ FileOf(c)' = FileOf(c) /\ Whole(FileOf(c))' = Whole(FileOf(c))
      BY <1>1, <2>1 DEF Held, FileOf, Whole, Lines
    <3>3. Whole(FileOf(c)) => Previewed[FileOf(c)] \subseteq AllAddresses
      BY <3>2, PreviewedRows, RowsAreKnown
    <3>4. Previewed' = Previewed
      BY DEF Previewed, Lines, HeaderColumns
    <3>5. Promised(c)' \in SUBSET AllAddresses
      BY <3>2, <3>3, <3>4 DEF Promised
    <3>. QED  BY <2>1, <2>2, <3>1, <3>5 DEF Abstracted
  <2>. QED  BY <2>3, <2>4
<1>4. ASSUME Remove(c) PROVE Abstracted(c)
  <2>1. campaign[c].live /\ campaign'[c] = NoRow /\ recipients'[c] = {}
    BY <1>1, <1>4 DEF Remove
  <2>2. Promised(c)' = {} /\ OutcomeOf(c)' = "none"
    BY <2>1 DEF Promised, Enqueued, OutcomeOf, NoRow
  <2>. QED  BY <2>1, <2>2, LiveIsKnown DEF Abstracted
<1>5. ASSUME NEW x \in HandAdded, AddRecipient(x), x[1] = c PROVE Abstracted(c)
  <2>1. UNCHANGED <<campaign, job>> /\ campaign[c].live /\ recipients'[c] = recipients[c] \cup {x[2]}
    BY <1>1, <1>5 DEF AddRecipient
  <2>2. {x[2]} \in SUBSET AllAddresses
    BY DEF AllAddresses
  <2>3. Promised(c)' = Promised(c) /\ OutcomeOf(c)' = OutcomeOf(c) /\ OutcomeOf(c) # "none"
    BY <1>1, <2>1, PromiseStays, LiveIsKnown DEF OutcomeOf, SameJob
  <2>. QED  BY <2>1, <2>2, <2>3 DEF Abstracted
<1>. QED  BY <1>2, <1>3, <1>4, <1>5

LEMMA ImportStep ==
  ASSUME ImportFacts, ImportFacts', [Next]_vars PROVE [Import!Next]_(Import!vars)
<1>1. TypeOK /\ TypeOK' /\ ImportTypes
  BY DEF ImportFacts, ImportTypes
<1>2. \A d \in Campaigns : Same(d) => Stays(d)
  BY <1>1, SameStays DEF ImportFacts
<1>3. ASSUME NEW c \in Campaigns, Abstracted(c), \A d \in Campaigns \ {c} : Same(d)
      PROVE  [Import!Next]_(Import!vars)
  BY <1>1, <1>2, <1>3, MovesImport
<1>4. ASSUME \A d \in Campaigns : Same(d) PROVE [Import!Next]_(Import!vars)
  <2>1. 1 \in Campaigns
    BY ImportAssumption DEF Campaigns
  <2>. QED  BY <1>2, <1>3, <1>4, <2>1 DEF Abstracted
<1>5. ASSUME NEW c \in Campaigns, NEW u \in Files, SaveCampaign(c, u)
      PROVE  [Import!Next]_(Import!vars)
  <2>1. \A d \in Campaigns \ {c} : Same(d)
    BY <1>1, <1>5 DEF SaveCampaign, Same, SameJob, TypeOK
  <2>. QED  BY <1>1, <1>3, <1>5, <2>1, RequestMoves
<1>6. ASSUME NEW x \in HandAdded, AddRecipient(x) PROVE [Import!Next]_(Import!vars)
  <2>1. \A d \in Campaigns \ {x[1]} : Same(d)
    BY <1>1, <1>6 DEF AddRecipient, Same, SameJob, TypeOK
  <2>2. x[1] \in Campaigns
    BY HandPlaces
  <2>3. Abstracted(x[1])
    BY <1>1, <1>6, <2>2, RequestMoves
  <2>. QED  BY <1>3, <2>1, <2>2, <2>3
<1>7. ASSUME NEW c \in Campaigns, Remove(c) PROVE [Import!Next]_(Import!vars)
  <2>1. \A d \in Campaigns \ {c} : Same(d)
    BY <1>1, <1>7 DEF Remove, Same, SameJob, TypeOK
  <2>. QED  BY <1>1, <1>3, <1>7, <2>1, RequestMoves
<1>8. ASSUME NEW c \in Campaigns, EnqueueParseFile(c) PROVE [Import!Next]_(Import!vars)
  <2>1. \A d \in Campaigns \ {c} : Same(d)
    BY <1>1, <1>8 DEF EnqueueParseFile, Same, SameJob, TypeOK
  <2>. QED  BY <1>1, <1>3, <1>8, <2>1, RequestMoves
<1>9. ASSUME NEW c \in Campaigns, ParseStep(c) \/ ParseThrows(c)
      PROVE  [Import!Next]_(Import!vars)
  <2>1. \A d \in Campaigns \ {c} : Same(d)
    BY <1>1, <1>9, OthersParse DEF Same, SameJob
  <2>. QED  BY <1>1, <1>3, <1>9, <2>1, ParseMoves
<1>10. ASSUME NEW x \in HandAdded, CountRecipient(x) \/ AddAborts(x)
       PROVE  [Import!Next]_(Import!vars)
  <2>1. UNCHANGED <<recipients, job>>
    BY <1>10 DEF CountRecipient, AddAborts
  <2>2. ASSUME NEW d \in Campaigns PROVE Same(d)
    BY <1>1, <1>10, <2>1, HandPlaces
       DEF CountRecipient, AddAborts, Incremented, Same, SameJob, TypeOK, Row
  <2>. QED  BY <1>4, <2>2
<1>11. CASE UNCHANGED <<campaign, recipients, job>>
  BY <1>4, <1>11 DEF Same, SameJob
<1>12. ASSUME NEW u \in Files, UploadStep(u) \/ UploadAborts(u)
       PROVE  UNCHANGED <<campaign, recipients, job>>
  BY <1>12 DEF UploadStep, UploadAborts, Preview, PushFileOnCloud, SaveDataSource, FinishUpload
<1>13. ASSUME NEW c \in Campaigns, CreateAborts(c) PROVE UNCHANGED <<campaign, recipients, job>>
  BY <1>13 DEF CreateAborts
<1>14. ASSUME NEW c \in Campaigns, LinkDataSource(c) PROVE [Import!Next]_(Import!vars)
  <2>1. UNCHANGED <<recipients, job>>
    BY <1>14 DEF LinkDataSource
  <2>. QED  BY <1>1, <1>4, <1>14, <2>1, LinkingKeeps DEF Same, SameJob
<1>15. ASSUME NEW c \in Campaigns, NEW u \in Files \cup {NoFile}, PatchDataSource(c, u)
       PROVE  [Import!Next]_(Import!vars)
  BY <1>1, <1>4, <1>15, PatchKeeps DEF Same, SameJob
<1>16. ASSUME NEW c \in Campaigns, NEW p \in Processes, StartJob(c, p)
       PROVE  [Import!Next]_(Import!vars)
  <2>1. UNCHANGED <<campaign, recipients>>
    BY <1>16 DEF StartJob
  <2>2. \A d \in Campaigns : SameJob(d)
    BY <1>1, <1>16 DEF StartJob, SameJob, TypeOK, Job
  <2>. QED  BY <1>4, <2>1, <2>2 DEF Same
<1>17. ASSUME NEW p \in Processes, Crash(p) PROVE [Import!Next]_(Import!vars)
  <2>1. UNCHANGED <<campaign, recipients>>
    BY <1>17 DEF Crash
  <2>2. \A d \in Campaigns : SameJob(d)
    BY <1>1, <1>17, CrashLeaves DEF SameJob, ActiveAt
  <2>. QED  BY <1>4, <2>1, <2>2 DEF Same
<1>18. CASE UNCHANGED vars
  BY <1>11, <1>18 DEF vars
<1>. QED
  BY <1>5, <1>6, <1>7, <1>8, <1>9, <1>10, <1>11, <1>12, <1>13, <1>14, <1>15, <1>16,
     <1>17, <1>18
     DEF Next, UserStep, WorkStep, FaultStep, CreateStep

LEMMA ImportFactsInit == Init => ImportFacts
<1>. SUFFICES ASSUME Init PROVE ImportFacts
  OBVIOUS
<1>1. ImportTypes /\ AllCreated
  BY ImportTypesInit DEF Init, AllCreated, Created, NoRow, NoJob
<1>2. ASSUME NEW c \in Campaigns PROVE Steady(c) /\ Covered(c)
  BY DEF Init, Steady, Covered, NoRow, NoJob, NoReader
<1>. QED  BY <1>1, <1>2 DEF ImportFacts

LEMMA ImportFactsStep == ImportFacts /\ [Next]_vars => ImportFacts'
  BY ImportTypesStep, CreatedStep, SteadyStep, CoveredStep DEF ImportFacts, AllCreated

(* The import does what RecipientImport says: a campaign whose parse is      *)
(* "done" has every address the preview showed.                              *)
THEOREM ImportImplements == Spec => ImportIsWhole
<1>1. Init => ImportFacts
  BY ImportFactsInit
<1>2. ImportFacts /\ [Next]_vars => ImportFacts'
  BY ImportFactsStep
<1>3. Init => Import!Init
  BY DEF Init, Import!Init, Promised, Enqueued, OutcomeOf, NoRow
<1>4. ImportFacts /\ ImportFacts' /\ [Next]_vars => [Import!Next]_(Import!vars)
  BY ImportStep
<1>. QED  BY <1>1, <1>2, <1>3, <1>4, PTL DEF Spec, ImportIsWhole, Import!Spec

IsDone(c) == campaign[c].live /\ campaign[c].parse = "done"

(* A campaign that says "done" has as recipients every address the preview   *)
(* showed of the file its POST named, if that file is whole (an XLSX file of *)
(* any size, a CSV file of one batch, no gap in the header row), however the *)
(* parse was retried, interrupted or run beside others and whatever file a   *)
(* PATCH has linked the campaign to since.                                   *)
THEOREM DoneIsWhole ==
  Spec => [](\A c \in Campaigns : IsDone(c) /\ Whole(FileOf(c)) =>
                                    Previewed[FileOf(c)] \subseteq recipients[c])
<1>. DEFINE HasAll(c) == IsDone(c) /\ Whole(FileOf(c)) =>
                           Previewed[FileOf(c)] \subseteq recipients[c]
<1>1. Init => ImportFacts
  BY ImportFactsInit
<1>2. ImportFacts /\ [Next]_vars => ImportFacts'
  BY ImportFactsStep
<1>3. ImportFacts => \A c \in Campaigns : HasAll(c)
  <2>. SUFFICES ASSUME ImportFacts, NEW c \in Campaigns, IsDone(c), Whole(FileOf(c))
                PROVE  Previewed[FileOf(c)] \subseteq recipients[c]
    OBVIOUS
  <2>1. ImportTypes /\ Steady(c) /\ Covered(c)
    BY DEF ImportFacts
  <2>2. Enqueued(c) /\ \A i \in Lines(FileOf(c)) : IsStored(c, i)
    BY <2>1 DEF IsDone, Enqueued, Steady, Covered
  <2>. QED  BY <2>1, <2>2, PromiseKept DEF Promised
<1>. QED  BY <1>1, <1>2, <1>3, PTL DEF Spec

-----------------------------------------------------------------------------
(* The totals. *)

(* The calls of addRecipient that a count overlapped, those still to count   *)
(* that none did, and the overlapped ones that have ended.                   *)
Raced(c)   == {x \in Added(c) : adding[x].raced}
Pending(c) == {x \in Added(c) : adding[x].at = "counting" /\ ~adding[x].raced}
Landed(c)  == {x \in Raced(c) : adding[x].at = "ended"}

Between(n, low, high) == low <= n /\ n <= high

(* What a parse counted, and what the row says once it is "done".  An        *)
(* overlapped call is counted or not, and its increment is lost or not.      *)
Tally(c) ==
    /\ IsFiniteSet(Added(c))
    /\ campaign[c].live /\ Whole(FileOf(c)) =>
         LET rows   == Cardinality(recipients[c])
             open   == Cardinality(Pending(c))
             raced  == Cardinality(Raced(c))
             landed == Cardinality(Landed(c))
         IN  /\ job[c].at = "finish" =>
                  Pending(c) = {} /\ Between(job[c].counted, rows - raced, rows)
             /\ campaign[c].parse = "done" =>
                  Between(campaign[c].total, rows - open - raced, rows - open + landed)

LEMMA CallsAreFinite ==
    ASSUME NEW c \in Campaigns, IsFiniteSet(Added(c))
    PROVE  /\ IsFiniteSet(Pending(c)) /\ IsFiniteSet(Raced(c)) /\ IsFiniteSet(Landed(c))
           /\ Cardinality(Pending(c)) \in Nat /\ Cardinality(Raced(c)) \in Nat
           /\ Cardinality(Landed(c)) \in Nat /\ Cardinality(Landed(c)) <= Cardinality(Raced(c))
<1>1. Pending(c) \in SUBSET Added(c) /\ Raced(c) \in SUBSET Added(c)
      /\ Landed(c) \in SUBSET Raced(c)
  BY DEF Pending, Raced, Landed
<1>2. IsFiniteSet(Pending(c)) /\ IsFiniteSet(Raced(c))
  BY <1>1, FS_Subset
<1>3. IsFiniteSet(Landed(c)) /\ Cardinality(Landed(c)) <= Cardinality(Raced(c))
  BY <1>1, <1>2, FS_Subset
<1>. QED  BY <1>2, <1>3, FS_CardinalityType

(* A step that leaves a campaign's calls of addRecipient alone, and neither  *)
(* its recipients nor its total grow.                                        *)
Calm(d) ==
    campaign'[d].live =>
      /\ campaign[d].live /\ recipients'[d] = recipients[d]
      /\ campaign'[d].parse = "done" =>
           campaign[d].parse = "done" /\ campaign'[d].total = campaign[d].total
      /\ job'[d].at = "finish" => job[d].at = "finish" /\ job'[d].counted = job[d].counted

LEMMA SameCalls ==
    ASSUME NEW d \in Campaigns, \A x \in HandAdded : x[1] = d => adding'[x] = adding[x]
    PROVE  Added(d)' = Added(d) /\ Pending(d)' = Pending(d) /\ Raced(d)' = Raced(d)
           /\ Landed(d)' = Landed(d)
<1>1. Added(d)' = Added(d) /\ \A x \in Added(d) : adding'[x] = adding[x]
  BY DEF Added
<1>. QED  BY <1>1 DEF Pending, Raced, Landed

LEMMA CalmTally ==
    ASSUME NEW d \in Campaigns, Tally(d), Created(d), create[d].at # "unused" => FileStays(d),
           \A x \in HandAdded : x[1] = d => adding'[x] = adding[x], Calm(d)
    PROVE  Tally(d)'
<1>1. Added(d)' = Added(d) /\ Pending(d)' = Pending(d) /\ Raced(d)' = Raced(d)
      /\ Landed(d)' = Landed(d)
  BY SameCalls
<1>2. CASE ~campaign'[d].live
  BY <1>1, <1>2 DEF Tally
<1>3. CASE campaign'[d].live
  <2>1. campaign[d].live /\ Whole(FileOf(d))' = Whole(FileOf(d))
    BY <1>3, WholeStays DEF Calm, Created
  <2>. QED  BY <1>1, <1>3, <2>1 DEF Tally, Calm
<1>. QED  BY <1>2, <1>3

(* AddRecipient: one row more, and one call more, open or overlapped.        *)
LEMMA AddTally ==
    ASSUME ImportTypes, NEW d \in Campaigns, Tally(d), Created(d),
           create[d].at # "unused" => FileStays(d),
           NEW x \in HandAdded, x[1] = d, AddRecipient(x)
    PROVE  Tally(d)'
<1>1. /\ TypeOK /\ IsFiniteSet(recipients[d]) /\ campaign[d].live /\ adding[x].at = "no"
      /\ x[2] \notin recipients[d] /\ UNCHANGED <<campaign, job, create>>
      /\ adding' = [adding EXCEPT ![x] = [at |-> "counting", raced |-> Counting(x[1])]]
      /\ recipients'[d] = recipients[d] \cup {x[2]}
  BY DEF AddRecipient, ImportTypes, Held, TypeOK
<1>2. adding'[x].at = "counting" /\ adding'[x].raced = (job[d].at = "finish")
      /\ \A y \in HandAdded \ {x} : adding'[y] = adding[y]
  BY <1>1 DEF TypeOK, Counting
<1>3. Added(d)' = Added(d) \cup {x} /\ x \notin Added(d)
  BY <1>1, <1>2 DEF Added
<1>4. IsFiniteSet(Added(d)) /\ IsFiniteSet(Added(d)')
  BY <1>3, OneMore DEF Tally
<1>5. /\ Landed(d)' = Landed(d)
      /\ job[d].at = "finish" => Pending(d)' = Pending(d) /\ Raced(d)' = Raced(d) \cup {x}
      /\ job[d].at # "finish" => Pending(d)' = Pending(d) \cup {x} /\ Raced(d)' = Raced(d)
  BY <1>2, <1>3 DEF Added, Pending, Raced, Landed
<1>6. Cardinality(recipients'[d]) = Cardinality(recipients[d]) + 1
      /\ Cardinality(recipients[d]) \in Nat
  BY <1>1, FS_AddElement, FS_CardinalityType
<1>7. /\ job[d].at = "finish" => Cardinality(Raced(d)') = Cardinality(Raced(d)) + 1
      /\ job[d].at # "finish" => Cardinality(Pending(d)') = Cardinality(Pending(d)) + 1
  <2>1. x \notin Pending(d) /\ x \notin Raced(d)
    BY <1>3 DEF Pending, Raced
  <2>. QED  BY <1>4, <1>5, <2>1, CallsAreFinite, FS_AddElement
<1>8. Whole(FileOf(d))' = Whole(FileOf(d))
  BY <1>1, WholeStays DEF Created
<1>9. /\ Cardinality(Pending(d)) \in Nat /\ Cardinality(Raced(d)) \in Nat
      /\ Cardinality(Landed(d)) \in Nat /\ campaign[d].total \in Nat /\ job[d].counted \in Nat
  BY <1>1, <1>4, CallsAreFinite DEF TypeOK, Row, Job
<1>10. CASE campaign[d].live /\ Whole(FileOf(d))
  <2>1. ASSUME job[d].at = "finish"
        PROVE  Pending(d)' = {} /\ Between(job[d].counted,
                 Cardinality(recipients'[d]) - Cardinality(Raced(d)'), Cardinality(recipients'[d]))
    BY <1>5, <1>6, <1>7, <1>9, <1>10, <2>1 DEF Tally, Between
  <2>2. ASSUME campaign[d].parse = "done"
        PROVE  Between(campaign[d].total,
                 Cardinality(recipients'[d]) - Cardinality(Pending(d)') - Cardinality(Raced(d)'),
                 Cardinality(recipients'[d]) - Cardinality(Pending(d)') + Cardinality(Landed(d)'))
    BY <1>5, <1>6, <1>7, <1>9, <1>10, <2>2 DEF Tally, Between
  <2>. QED  BY <1>1, <1>4, <2>1, <2>2 DEF Tally
<1>11. CASE ~(campaign[d].live /\ Whole(FileOf(d)))
  BY <1>1, <1>4, <1>8, <1>11 DEF Tally
<1>. QED  BY <1>10, <1>11

(* The end of a call of addRecipient: of one that a count overlapped, or of  *)
(* an open one, which is counted, or without its increment is overlapped.    *)
LEMMA EndTally ==
    ASSUME ImportTypes, NEW d \in Campaigns, Tally(d), Created(d),
           create[d].at # "unused" => FileStays(d),
           NEW x \in HandAdded, x[1] = d, CountRecipient(x) \/ AddAborts(x)
    PROVE  Tally(d)'
<1>1. /\ TypeOK /\ adding[x].at = "counting" /\ UNCHANGED <<recipients, job, create>>
      /\ campaign'[d].live = campaign[d].live /\ campaign'[d].parse = campaign[d].parse
      /\ CountRecipient(x) /\ campaign[d].live => campaign'[d].total = campaign[d].total + 1
      /\ AddAborts(x) => campaign'[d].total = campaign[d].total
  BY DEF CountRecipient, AddAborts, Incremented, ImportTypes, TypeOK, Row
<1>2. /\ \A y \in HandAdded \ {x} : adding'[y] = adding[y]
      /\ adding'[x].at = "ended"
      /\ CountRecipient(x) => (adding'[x].raced <=> adding[x].raced)
      /\ AddAborts(x) => adding'[x].raced
  BY <1>1 DEF CountRecipient, AddAborts, TypeOK, Add
<1>3. Added(d)' = Added(d) /\ x \in Added(d) /\ IsFiniteSet(Added(d))
  BY <1>1, <1>2 DEF Added, Tally
<1>4. \A y \in Added(d) \ {x} : /\ y \in Pending(d)' <=> y \in Pending(d)
                                /\ y \in Raced(d)' <=> y \in Raced(d)
                                /\ y \in Landed(d)' <=> y \in Landed(d)
  <2>1. TAKE y \in Added(d) \ {x}
  <2>2. adding'[y] = adding[y] /\ y \in Added(d)'
    BY <1>2, <1>3 DEF Added
  <2>. QED  BY <2>2 DEF Pending, Raced, Landed
<1>5. /\ x \notin Pending(d)' /\ x \notin Landed(d)
      /\ x \in Pending(d) <=> ~adding[x].raced
      /\ x \in Raced(d) <=> adding[x].raced
      /\ x \in Raced(d)' <=> adding'[x].raced
      /\ x \in Landed(d)' <=> adding'[x].raced
  BY <1>1, <1>2, <1>3 DEF Pending, Raced, Landed
<1>6. /\ Pending(d) \subseteq Added(d) /\ Raced(d) \subseteq Added(d) /\ Landed(d) \subseteq Added(d)
      /\ Pending(d)' \subseteq Added(d) /\ Raced(d)' \subseteq Added(d)
      /\ Landed(d)' \subseteq Added(d)
  BY <1>3 DEF Pending, Raced, Landed
<1>7. CASE adding[x].raced
  <2>1. Pending(d)' = Pending(d) /\ Raced(d)' = Raced(d) /\ Landed(d)' = Landed(d) \cup {x}
        /\ x \notin Landed(d)
    BY <1>2, <1>3, <1>4, <1>5, <1>6, <1>7
  <2>2. Cardinality(Landed(d)') = Cardinality(Landed(d)) + 1
    BY <1>3, <2>1, CallsAreFinite, FS_AddElement
  <2>3. Cardinality(recipients[d]) \in Nat /\ campaign[d].total \in Nat
        /\ Cardinality(Pending(d)) \in Nat /\ Cardinality(Raced(d)) \in Nat
        /\ Cardinality(Landed(d)) \in Nat
    BY <1>1, <1>3, CallsAreFinite, FS_CardinalityType DEF ImportTypes, Held, TypeOK, Row
  <2>4. ASSUME campaign[d].live, Whole(FileOf(d)), campaign[d].parse = "done"
        PROVE  Between(campaign'[d].total,
                 Cardinality(recipients[d]) - Cardinality(Pending(d)) - Cardinality(Raced(d)),
                 Cardinality(recipients[d]) - Cardinality(Pending(d)) + Cardinality(Landed(d)'))
    BY <1>1, <2>2, <2>3, <2>4 DEF Tally, Between
  <2>5. campaign[d].live => Whole(FileOf(d))' = Whole(FileOf(d))
    BY WholeStays DEF Created
  <2>. QED  BY <1>1, <1>3, <2>1, <2>4, <2>5 DEF Tally
<1>8. CASE ~adding[x].raced
  <2>1. x \in Pending(d) /\ Pending(d)' = Pending(d) \ {x}
    BY <1>3, <1>4, <1>5, <1>6, <1>8
  <2>2. /\ CountRecipient(x) => Raced(d)' = Raced(d) /\ Landed(d)' = Landed(d)
        /\ AddAborts(x) => Raced(d)' = Raced(d) \cup {x} /\ Landed(d)' = Landed(d) \cup {x}
        /\ x \notin Raced(d) /\ x \notin Landed(d)
    BY <1>2, <1>3, <1>4, <1>5, <1>6, <1>8
  <2>3. Cardinality(Pending(d)') = Cardinality(Pending(d)) - 1
    BY <1>3, <2>1, CallsAreFinite, FS_RemoveElement
  <2>4. AddAborts(x) => /\ Cardinality(Raced(d)') = Cardinality(Raced(d)) + 1
                        /\ Cardinality(Landed(d)') = Cardinality(Landed(d)) + 1
    BY <1>3, <2>2, CallsAreFinite, FS_AddElement
  <2>5. Cardinality(recipients[d]) \in Nat /\ campaign[d].total \in Nat
        /\ Cardinality(Pending(d)) \in Nat /\ Cardinality(Raced(d)) \in Nat
        /\ Cardinality(Landed(d)) \in Nat
    BY <1>1, <1>3, CallsAreFinite, FS_CardinalityType DEF ImportTypes, Held, TypeOK, Row
  <2>6. ASSUME campaign[d].live, Whole(FileOf(d)), campaign[d].parse = "done"
        PROVE  Between(campaign'[d].total,
                 Cardinality(recipients[d]) - Cardinality(Pending(d)') - Cardinality(Raced(d)'),
                 Cardinality(recipients[d]) - Cardinality(Pending(d)') + Cardinality(Landed(d)'))
    BY <1>1, <2>2, <2>3, <2>4, <2>5, <2>6 DEF Tally, Between
  <2>7. campaign[d].live => Whole(FileOf(d))' = Whole(FileOf(d))
    BY WholeStays DEF Created
  <2>8. campaign[d].live /\ Whole(FileOf(d)) => job[d].at # "finish"
    BY <2>1 DEF Tally
  <2>. QED  BY <1>1, <1>3, <2>6, <2>7, <2>8 DEF Tally
<1>. QED  BY <1>2, <1>7, <1>8

(* The count overlaps every call that is open.                               *)
LEMMA CountTally ==
    ASSUME ImportTypes, [Next]_vars, NEW d \in Campaigns, Tally(d), Steady(d), CountRecipients(d)
    PROVE  Tally(d)'
<1>1. /\ TypeOK /\ job[d].at = "count" /\ UNCHANGED <<campaign, recipients>>
      /\ job'[d].at = "finish" /\ job'[d].counted = Cardinality(recipients[d])
  BY DEF CountRecipients, RecipientCount, ImportTypes, TypeOK, Job
<1>2. \A x \in HandAdded :
        adding'[x] = IF x[1] = d /\ adding[x].at = "counting"
                     THEN [adding[x] EXCEPT !.raced = TRUE] ELSE adding[x]
  BY <1>1 DEF CountRecipients, TypeOK
<1>3. \A x \in HandAdded : /\ adding'[x].at = adding[x].at
                           /\ x[1] = d /\ adding[x].at = "counting" => adding'[x].raced
  BY <1>1, <1>2 DEF TypeOK, Add
<1>4. Added(d)' = Added(d) /\ Pending(d)' = {}
  BY <1>3 DEF Added, Pending
<1>5. IsFiniteSet(Added(d)')
  BY <1>4 DEF Tally
<1>6. Cardinality(Raced(d)') \in Nat
  <2>1. Raced(d)' \in SUBSET Added(d)'
    BY DEF Raced
  <2>. QED  BY <1>5, <2>1, FS_Subset, FS_CardinalityType
<1>7. Cardinality(recipients[d]) \in Nat
  BY FS_CardinalityType DEF ImportTypes, Held
<1>8. Between(job'[d].counted, Cardinality(recipients[d]) - Cardinality(Raced(d)'),
              Cardinality(recipients[d]))
  BY <1>1, <1>6, <1>7 DEF Between
<1>9. campaign[d].live => campaign[d].parse # "done"
  BY <1>1 DEF Steady
<1>. QED  BY <1>1, <1>4, <1>5, <1>8, <1>9 DEF Tally

LEMMA FinishTally ==
    ASSUME ImportTypes, [Next]_vars, NEW d \in Campaigns, Tally(d), Steady(d), FinishParse(d)
    PROVE  Tally(d)'
<1>1. /\ TypeOK /\ job[d].at = "finish" /\ UNCHANGED <<adding, recipients>>
      /\ job'[d].at = "ack" /\ campaign'[d].live = campaign[d].live
      /\ campaign[d].live => campaign'[d].total = job[d].counted
  BY DEF FinishParse, JobGoes, ImportTypes, TypeOK, Job, Row
<1>2. Added(d)' = Added(d) /\ Pending(d)' = Pending(d) /\ Raced(d)' = Raced(d)
      /\ Landed(d)' = Landed(d)
  BY <1>1, SameCalls
<1>3. IsFiniteSet(Added(d))
  BY DEF Tally
<1>4. Cardinality(recipients[d]) \in Nat /\ job[d].counted \in Nat
      /\ Cardinality(Raced(d)) \in Nat /\ Cardinality(Landed(d)) \in Nat
  BY <1>1, <1>3, CallsAreFinite, FS_CardinalityType DEF ImportTypes, Held, TypeOK, Job
<1>5. Whole(FileOf(d))' = Whole(FileOf(d))
  BY <1>1, ParsedFile
<1>6. ASSUME campaign[d].live, Whole(FileOf(d))
      PROVE  Between(campaign'[d].total,
               Cardinality(recipients[d]) - Cardinality(Pending(d)) - Cardinality(Raced(d)),
               Cardinality(recipients[d]) - Cardinality(Pending(d)) + Cardinality(Landed(d)))
  <2>1. Pending(d) = {} /\ Between(job[d].counted,
          Cardinality(recipients[d]) - Cardinality(Raced(d)), Cardinality(recipients[d]))
    BY <1>1, <1>6 DEF Tally
  <2>2. Cardinality(Pending(d)) = 0
    BY <2>1, FS_EmptySet
  <2>. QED  BY <1>1, <1>4, <1>6, <2>1, <2>2 DEF Between
<1>. QED  BY <1>1, <1>2, <1>3, <1>5, <1>6 DEF Tally

(* An INSERT that lands after the count finds its rows there already.        *)
LEMMA InsertTally ==
    ASSUME ImportTypes, [Next]_vars, NEW d \in Campaigns, Tally(d), Steady(d), Covered(d),
           NEW f \in reader[d].flights, InsertRows(d, f)
    PROVE  Tally(d)'
<1>1. /\ TypeOK /\ UNCHANGED <<campaign, adding>> /\ campaign[d].live
      /\ recipients'[d] = recipients[d] \cup AddressesOf(FileOf(d), f.rows)
      /\ job'[d] = job[d] \/ (job'[d].at = "count" /\ job[d].at = "flush")
  BY DEF InsertRows, JobGoes, ImportTypes, TypeOK, Job, Steady
<1>2. Added(d)' = Added(d) /\ Pending(d)' = Pending(d) /\ Raced(d)' = Raced(d)
      /\ Landed(d)' = Landed(d)
  BY <1>1, SameCalls
<1>3. reader[d] # NoReader /\ f.rows \subseteq Lines(FileOf(d))
  BY DEF NoReader, ImportTypes, Held
<1>4. Whole(FileOf(d))' = Whole(FileOf(d))
  BY <1>3, ParsedFile
<1>5. ASSUME Whole(FileOf(d)), job[d].at = "finish" \/ campaign[d].parse = "done"
      PROVE  recipients'[d] = recipients[d]
  <2>1. \A i \in Lines(FileOf(d)) : IsStored(d, i)
    BY <1>1, <1>5 DEF Covered
  <2>2. AddressesOf(FileOf(d), f.rows) \subseteq recipients[d]
    BY <1>3, <2>1 DEF AddressesOf, IsStored
  <2>. QED  BY <1>1, <2>2
<1>. QED  BY <1>1, <1>2, <1>4, <1>5 DEF Tally

LEMMA TallyStep ==
    ASSUME ImportFacts, [Next]_vars, NEW d \in Campaigns, Tally(d)
    PROVE  Tally(d)'
<1>1. ImportTypes /\ TypeOK /\ Held(d) /\ Created(d) /\ Steady(d) /\ Covered(d)
  BY DEF ImportFacts, ImportTypes, AllCreated
<1>2. create[d].at # "unused" => FileStays(d)
  BY <1>1, FilesStay
<1>3. Calm(d) /\ (\A x \in HandAdded : x[1] = d => adding'[x] = adding[x]) => Tally(d)'
  BY <1>1, <1>2, CalmTally
<1>4. Calm(d) /\ UNCHANGED adding => Tally(d)'
  BY <1>3
<1>5. ASSUME NEW c \in Campaigns, NEW u \in Files, SaveCampaign(c, u) PROVE Tally(d)'
  <2>1. UNCHANGED <<job, recipients, adding>> /\ create[c].at = "unused"
        /\ campaign' = [campaign EXCEPT ![c].live = TRUE]
    BY <1>5 DEF SaveCampaign
  <2>2. CASE d = c
    <3>1. job[d].at = "absent" /\ campaign[d].parse = "pending"
      BY <1>1, <2>1, <2>2 DEF Held, Created, NoRow
    <3>2. campaign'[d].parse = "pending"
      BY <1>1, <2>1, <2>2, <3>1 DEF TypeOK, Row
    <3>. QED  BY <2>1, <3>1, <3>2, SameCalls DEF Tally
  <2>3. CASE d # c
    <3>1. campaign'[d] = campaign[d]
      BY <1>1, <2>1, <2>3 DEF TypeOK
    <3>. QED  BY <1>4, <2>1, <3>1 DEF Calm
  <2>. QED  BY <2>2, <2>3
<1>6. ASSUME NEW x \in HandAdded, AddRecipient(x) PROVE Tally(d)'
  <2>1. CASE x[1] = d
    BY <1>1, <1>2, <1>6, <2>1, AddTally
  <2>2. CASE x[1] # d
    <3>1. UNCHANGED <<campaign, job>> /\ recipients'[d] = recipients[d]
          /\ \A y \in HandAdded : y[1] = d => adding'[y] = adding[y]
      BY <1>1, <1>6, <2>2 DEF AddRecipient, TypeOK
    <3>. QED  BY <1>3, <3>1 DEF Calm
  <2>. QED  BY <2>1, <2>2
<1>7. ASSUME NEW x \in HandAdded, CountRecipient(x) \/ AddAborts(x) PROVE Tally(d)'
  <2>1. CASE x[1] = d
    BY <1>1, <1>2, <1>7, <2>1, EndTally
  <2>2. CASE x[1] # d
    <3>1. UNCHANGED <<recipients, job>> /\ campaign'[d] = campaign[d]
          /\ \A y \in HandAdded : y[1] = d => adding'[y] = adding[y]
      BY <1>1, <1>7, <2>2, HandPlaces DEF CountRecipient, AddAborts, TypeOK
    <3>. QED  BY <1>3, <3>1 DEF Calm
  <2>. QED  BY <2>1, <2>2
<1>8. ASSUME NEW c \in Campaigns, Remove(c) PROVE Tally(d)'
  <2>1. UNCHANGED <<job, adding>>
        /\ IF d = c THEN ~campaign'[d].live
           ELSE campaign'[d] = campaign[d] /\ recipients'[d] = recipients[d]
    BY <1>1, <1>8 DEF Remove, TypeOK, NoRow
  <2>. QED  BY <1>4, <2>1 DEF Calm
<1>9. ASSUME NEW u \in Files, UploadStep(u) \/ UploadAborts(u) PROVE Tally(d)'
  <2>1. UNCHANGED <<campaign, recipients, adding, job>>
    BY <1>9 DEF UploadStep, UploadAborts, Preview, PushFileOnCloud, SaveDataSource, FinishUpload
  <2>. QED  BY <1>4, <2>1 DEF Calm
<1>10. ASSUME NEW c \in Campaigns, CreateStep(c) \/ CreateAborts(c) PROVE Tally(d)'
  <2>1. UNCHANGED <<recipients, adding>>
    BY <1>10 DEF CreateStep, LinkDataSource, EnqueueParseFile, CreateAborts
  <2>2. job'[d] = job[d] \/ job'[d].at = "waiting"
    BY <1>1, <1>10 DEF CreateStep, LinkDataSource, EnqueueParseFile, CreateAborts, TypeOK, Job
  <2>3. campaign'[d].live = campaign[d].live /\ campaign'[d].parse = campaign[d].parse
        /\ campaign'[d].total = campaign[d].total
    BY <1>1, <1>10 DEF CreateStep, LinkDataSource, EnqueueParseFile, CreateAborts, TypeOK, Row
  <2>. QED  BY <1>4, <2>1, <2>2, <2>3 DEF Calm
<1>11. ASSUME NEW c \in Campaigns, NEW p \in Processes, StartJob(c, p) PROVE Tally(d)'
  <2>1. UNCHANGED <<campaign, recipients, adding>>
        /\ (job'[d] = job[d] \/ job'[d].at = "mark")
    BY <1>1, <1>11 DEF StartJob, TypeOK, Job
  <2>. QED  BY <1>4, <2>1 DEF Calm
<1>12. ASSUME NEW p \in Processes, Crash(p) PROVE Tally(d)'
  <2>1. UNCHANGED <<campaign, recipients, adding>>
    BY <1>12 DEF Crash
  <2>2. job'[d] = job[d] \/ job'[d].at \in {"waiting", "failed"}
    BY <1>1, <1>12, CrashLeaves
  <2>. QED  BY <1>4, <2>1, <2>2 DEF Calm
<1>13. ASSUME NEW c \in Campaigns, d # c, ParseStep(c) \/ ParseThrows(c) PROVE Tally(d)'
  <2>1. /\ campaign'[d] = campaign[d] /\ recipients'[d] = recipients[d] /\ job'[d] = job[d]
    BY <1>1, <1>13, OthersParse
  <2>2. \A x \in HandAdded : x[1] = d => adding'[x] = adding[x]
    BY <1>1, <1>13 DEF ParseStep, ParseThrows, MarkProcessing, OpenFile, ReadRow, EndOfRows,
       InsertRows, InsertFails, CountRecipients, FinishParse, MarkFailed, Complete, TypeOK
  <2>. QED  BY <1>3, <2>1, <2>2 DEF Calm
<1>14. CASE ParseThrows(d)
  <2>1. UNCHANGED <<campaign, recipients, adding>>
        /\ (job' = [job EXCEPT ![d] = Retry(@)] \/ JobGoes(d, "fail"))
    BY <1>14 DEF ParseThrows
  <2>2. job'[d].at \in {"waiting", "failed", "fail"}
    BY <1>1, <2>1, JobRetried, JobWent
  <2>. QED  BY <1>4, <2>1, <2>2 DEF Calm
<1>15. CASE MarkProcessing(d)
  <2>1. UNCHANGED <<recipients, adding>>
        /\ (job' = [job EXCEPT ![d] = Retry(@)] \/ JobGoes(d, "open"))
    BY <1>15 DEF MarkProcessing
  <2>2. job'[d].at \in {"waiting", "failed", "open"}
    BY <1>1, <2>1, JobRetried, JobWent
  <2>3. campaign'[d].live = campaign[d].live /\ (campaign'[d].live => campaign'[d].parse = "processing")
    BY <1>1, <1>15 DEF MarkProcessing, WriteParse, TypeOK, Row
  <2>. QED  BY <1>4, <2>1, <2>2, <2>3 DEF Calm
<1>16. CASE OpenFile(d) \/ ReadRow(d) \/ EndOfRows(d) \/ Complete(d)
            \/ \E f \in reader[d].flights : InsertFails(d, f)
  <2>1. UNCHANGED <<campaign, recipients, adding>>
    BY <1>16 DEF OpenFile, ReadRow, EndOfRows, Complete, InsertFails
  <2>2. \/ job' = job
        \/ JobGoes(d, "rows") \/ JobGoes(d, "fail") \/ JobGoes(d, "count") \/ JobGoes(d, "flush")
        \/ JobGoes(d, "completed")
    BY <1>16 DEF OpenFile, ReadRow, EndOfRows, Complete, InsertFails
  <2>3. job'[d] = job[d] \/ job'[d].at # "finish"
    BY <1>1, <2>2, JobWent
  <2>. QED  BY <1>4, <2>1, <2>3 DEF Calm
<1>17. CASE MarkFailed(d)
  <2>1. UNCHANGED <<recipients, adding>> /\ JobGoes(d, "failed")
    BY <1>17 DEF MarkFailed
  <2>2. campaign'[d].live = campaign[d].live /\ (campaign'[d].live => campaign'[d].parse = "failed")
    BY <1>1, <1>17 DEF MarkFailed, Failure, WriteParse, TypeOK, Row
  <2>3. job'[d].at = "failed"
    BY <1>1, <2>1, JobWent
  <2>. QED  BY <1>4, <2>1, <2>2, <2>3 DEF Calm
<1>18. CASE ParseStep(d)
  BY <1>1, <1>15, <1>16, <1>17, <1>18, CountTally, FinishTally, InsertTally DEF ParseStep
<1>19. ASSUME NEW c \in Campaigns, NEW u \in Files \cup {NoFile}, PatchDataSource(c, u)
       PROVE  Tally(d)'
  BY <1>1, <1>4, <1>19, PatchKeeps DEF Calm
<1>20. CASE UNCHANGED vars
  BY <1>4, <1>20 DEF vars, Calm
<1>. QED
  BY <1>5, <1>6, <1>7, <1>8, <1>9, <1>10, <1>11, <1>12, <1>13, <1>14, <1>18, <1>19, <1>20
     DEF Next, UserStep, WorkStep, FaultStep

(* At rest a campaign that says "done" has counted its recipients, but for   *)
(* one at most of each call of addRecipient that a count overlapped or that  *)
(* never reached its increment.                                              *)
THEOREM TotalsAreCounts == Spec => []TotalDrift
<1>. DEFINE Tallied == \A c \in Campaigns : Tally(c)
<1>1. Init => ImportFacts /\ Tallied
  <2>1. ASSUME Init, NEW c \in Campaigns PROVE Tally(c)
    <3>1. Added(c) = {} /\ ~campaign[c].live
      BY <2>1 DEF Init, Added, NoRow
    <3>. QED  BY <3>1, FS_EmptySet DEF Tally
  <2>. QED  BY <2>1, ImportFactsInit
<1>2. ImportFacts /\ Tallied /\ [Next]_vars => (ImportFacts /\ Tallied)'
  BY ImportFactsStep, TallyStep
<1>3. ImportFacts /\ Tallied => TotalDrift
  <2>. SUFFICES ASSUME ImportFacts, Tallied, NEW c \in Campaigns,
                       Idle(c), campaign[c].parse = "done", Whole(FileOf(c))
                PROVE  campaign[c].total \in
                         (Cardinality(recipients[c]) - Cardinality(Raced(c)))
                           ..(Cardinality(recipients[c]) + Cardinality(Raced(c)))
    BY DEF TotalDrift, Raced
  <2>1. TypeOK /\ Held(c) /\ Created(c) /\ Steady(c) /\ Tally(c)
    BY DEF ImportFacts, ImportTypes, AllCreated
  <2>2. campaign[c].live
    BY <2>1 DEF Created, NoRow
  <2>4. Pending(c) = {} /\ IsFiniteSet(Added(c))
    BY <2>1 DEF Pending, Idle, Tally
  <2>5. Cardinality(Pending(c)) = 0
    BY <2>4, FS_EmptySet
  <2>6. Between(campaign[c].total,
          Cardinality(recipients[c]) - Cardinality(Pending(c)) - Cardinality(Raced(c)),
          Cardinality(recipients[c]) - Cardinality(Pending(c)) + Cardinality(Landed(c)))
    BY <2>1, <2>2 DEF Tally
  <2>7. Cardinality(recipients[c]) \in Nat /\ campaign[c].total \in Nat
        /\ Cardinality(Raced(c)) \in Nat /\ Cardinality(Landed(c)) \in Nat
        /\ Cardinality(Landed(c)) <= Cardinality(Raced(c))
    BY <2>1, <2>4, CallsAreFinite, FS_CardinalityType DEF Held, TypeOK, Row
  <2>. QED  BY <2>5, <2>6, <2>7 DEF Between
<1>. QED  BY <1>1, <1>2, <1>3, PTL DEF Spec
=============================================================================
