----------------------------- MODULE FileImport -----------------------------
(***************************************************************************)
(* From a spreadsheet to the recipients of a campaign: uploads, POST       *)
(* /campaigns, the parse jobs and POST .../recipients, running together.   *)
(***************************************************************************)
EXTENDS FileUpload, FileParse

SE == INSTANCE SequencesExt

UserStep ==
    \/ \E c \in Campaigns, u \in Files : SaveCampaign(c, u)
    \/ \E c \in Campaigns, u \in Files \cup {NoFile} : PatchDataSource(c, u)
    \/ \E x \in HandAdded : AddRecipient(x)
    \/ \E c \in Campaigns : Remove(c)

WorkStep ==
    \/ \E u \in Files : UploadStep(u)
    \/ \E c \in Campaigns : CreateStep(c) \/ ParseStep(c)
    \/ \E x \in HandAdded : CountRecipient(x)
    \/ \E c \in Campaigns, p \in Processes : StartJob(c, p)

FaultStep ==
    \/ \E u \in Files : UploadAborts(u)
    \/ \E c \in Campaigns : CreateAborts(c) \/ ParseThrows(c)
    \/ \E x \in HandAdded : AddAborts(x)
    \/ \E p \in Processes : Crash(p)

Next == UserStep \/ WorkStep \/ FaultStep

Spec == Init /\ [][Next]_vars

(* A process that is up continues what it holds, and takes waiting jobs.    *)
Fairness ==
    \A c \in Campaigns : /\ WF_vars(ParseStep(c))
                         /\ WF_vars(\E p \in Processes : StartJob(c, p))

FairSpec == Spec /\ Fairness

-----------------------------------------------------------------------------
(* Terms the properties use. *)

(* The preview reads a column under the header above it. *)
Previewed == [u \in Files |-> UNION {{Lower(a) : a \in EmailCells(Contents[u].rows[i], HeaderColumns(u))}
                          : i \in Lines(u)}]

Whole(u) == /\ "" \notin {Contents[u].header[j] : j \in DOMAIN Contents[u].header}
            /\ source[u] = "xlsx" \/ Cardinality(Lines(u)) <= BatchSize
Enqueued(c) == campaign[c].live /\ job[c].at # "absent"
Promised(c) == IF Enqueued(c) /\ Whole(FileOf(c)) THEN Previewed[FileOf(c)] ELSE {}

Added(c)  == {x \in HandAdded : x[1] = c /\ adding[x].at # "no"}
ByHand(c) == {x[2] : x \in Added(c)}
Idle(c)   == /\ job[c].at \notin ActiveAt \cup {"waiting"}
             /\ reader[c].flights = {}
             /\ \A x \in Added(c) : adding[x].at # "counting"

-----------------------------------------------------------------------------
AllAddresses ==
    {x[2] : x \in HandAdded} \cup {Lower(a) : a \in UNION {UNION {SE!ToSet(Contents[u].rows[i]) : i \in Lines(u)}
                                              : u \in Files}}

OutcomeOf(c) == IF ~campaign[c].live THEN "none"
                ELSE IF campaign[c].parse \in {"done", "failed"} THEN campaign[c].parse
                ELSE "open"

Import == INSTANCE RecipientImport WITH
    Addresses <- AllAddresses,
    promised  <- [c \in Campaigns |-> Promised(c)],
    stored    <- recipients,
    outcome   <- [c \in Campaigns |-> OutcomeOf(c)]

(* The import does what RecipientImport says: when a campaign's parse is     *)
(* "done", every address the preview of the file that POST /campaigns named  *)
(* showed is a recipient, for an XLSX file of any size and a CSV file of one *)
(* batch, if the header row has no gap.  A PATCH of the link meanwhile       *)
(* changes nothing: the job reads the file in its payload.                   *)
ImportIsWhole == Import!Spec

(* At rest, total_recipients is the number of recipients, but for the calls  *)
(* of addRecipient that ran while a parse counted, one each.                 *)
TotalDrift ==
    \A c \in Campaigns :
      LET raced == Cardinality({x \in Added(c) : adding[x].raced})
          rows  == Cardinality(recipients[c])
      IN Idle(c) /\ campaign[c].parse = "done" /\ Whole(FileOf(c))
           => campaign[c].total \in (rows - raced)..(rows + raced)

(* A campaign is left "processing" only by a job that used up its attempts   *)
(* or its stalls outside the try, in processes without sockets say: a parse  *)
(* that fails inside it always says so.                                      *)
ProcessingMeansWork ==
    \A c \in Campaigns :
      campaign[c].parse = "processing" =>
        \/ job[c].at \in ActiveAt \cup {"waiting"}
        \/ /\ job[c].at = "failed"
           /\ job[c].attemptsMade >= Attempts \/ job[c].stalls > MaxStalls

(* A data-source row points to an object that exists, and the type it states *)
(* for the parser is the type of its bytes.                                  *)
SourceIsWhatItSays ==
    \A u \in Files : source[u] # "none" => u \in objects /\ source[u] = Contents[u].format

(* Imported addresses are normalised: two rows of one campaign for the same  *)
(* mailbox involve one that was added by hand.                               *)
OneRowPerMailbox ==
    \A c \in Campaigns : \A a, b \in recipients[c] :
      a # b /\ a[1] = b[1] => {a, b} \cap ByHand(c) # {}

(* Every parse job ends, whatever fails: the queue drains.                    *)
QueueDrains ==
    []<>(\A c \in Campaigns : job[c].at \notin ActiveAt \cup {"waiting"})
=============================================================================
