------------------------------ MODULE ImportJobs ------------------------------
(***************************************************************************)
(* The CSV import of licences (import_service, file_parser, the router     *)
(* provider_import): a file is uploaded, previewed, and executed in one    *)
(* transaction that writes an import job and the licences.  The existing   *)
(* keys are read once; every row is then decided in memory; a row that     *)
(* raises is counted, and ends a strict import, whose earlier rows are     *)
(* committed all the same.  A sync, another import or a deletion may       *)
(* change the licences between the reading and the commit.                 *)
(*                                                                         *)
(* A row is what the two passes tell apart: its key, and its flaw.         *)
(*   reported   a field the preview objects to and the execution accepts   *)
(*              or drops (address, cost, status, unreadable date)          *)
(*   hidden     a date the preview accepts because it has the shape of one *)
(*              and the execution cannot build (25/12/2025: the pattern    *)
(*              MM/DD/YYYY is tried first, there is no month 25)           *)
(***************************************************************************)
EXTENDS Naturals, Sequences, FiniteSets, SequencesExt

CONSTANTS
    Keys,           \* licence keys of one provider
    NoKeyGiven,     \* a row without key and user id
    CsvFiles,       \* the files that are uploaded: sequences of rows
    MaxRows,        \* MAX_IMPORT_ROWS
    ImportRequests, \* executions at the same time
    MaxJobs         \* bound: committed jobs

Row == [key: Keys \cup {NoKeyGiven}, flaw: {"none", "reported", "hidden"}]

ASSUME ImportAssumptions ==
    /\ NoKeyGiven \notin Keys
    /\ CsvFiles \subseteq Seq(Row)
    /\ MaxRows \in Nat /\ MaxJobs \in Nat

VARIABLES
    upload,         \* the stored temp file, <<>> where there is none
    keyed,          \* the keys of the provider's licences
    importJobs,     \* committed import jobs, in order
    importReq       \* [ImportRequests -> a running execution]

importVars == <<upload, keyed, importJobs, importReq>>

Outcomes == {"completed", "failed"}

\* known: the keys read at the start, to which the rows add theirs; done: rows decided;
\* made: keys to be inserted; was: history, the keys at the time of the reading.
Execution ==
    [phase: {"idle", "reading", "rows", "commit", "strict", "clean"}, file: CsvFiles \cup {<<>>},
     strict: BOOLEAN, known: SUBSET Keys, was: SUBSET Keys, done: 0 .. MaxRows,
     made: SUBSET Keys, skipped: 0 .. MaxRows, failed: 0 .. MaxRows]

IdleImport ==
    [phase |-> "idle", file |-> <<>>, strict |-> FALSE, known |-> {}, was |-> {}, done |-> 0,
     made |-> {}, skipped |-> 0, failed |-> 0]

\* made, was, file and strict are history: the table keeps only the counts.
Job ==
    [status: Outcomes, created: 0 .. MaxRows, skipped: 0 .. MaxRows, errors: 0 .. MaxRows,
     total: 0 .. MaxRows, file: CsvFiles, strict: BOOLEAN, made: SUBSET Keys, was: SUBSET Keys]

ImportInit ==
    /\ upload = <<>>
    /\ keyed = {}
    /\ importJobs = <<>>
    /\ importReq = [r \in ImportRequests |-> IdleImport]

-----------------------------------------------------------------------------
(* The preview (validate_import).                                          *)
RowErrors(row) == row.key = NoKeyGiven \/ row.flaw = "reported"

InFileBefore(file, i) == \E j \in 1 .. i - 1 : file[j].key = file[i].key

\* Mutant: only the keys of the file are compared.
CreatesIfFresh(file, i, existing) == ~RowErrors(file[i]) /\ ~InFileBefore(file, i)

\* A duplicate inside the file is a warning, and counted as if it were created.
CountsAsCreate(file, i, existing) == ~RowErrors(file[i]) /\ file[i].key \notin existing

WillCreate(file, existing) == Cardinality({i \in DOMAIN file : CountsAsCreate(file, i, existing)})

IsValid(file) == \A i \in DOMAIN file : ~RowErrors(file[i])

-----------------------------------------------------------------------------
(* upload_file: a file with too many rows is refused, nothing is stored.   *)
Upload(file) ==
    /\ upload = <<>>
    /\ Len(file) \in 1 .. MaxRows
    /\ upload' = file
    /\ UNCHANGED <<keyed, importJobs, importReq>>

(* execute_import: the file is read into memory and the job is flushed;    *)
(* the job becomes visible only with the commit.                           *)
ExecuteBegin(r, strict) ==
    /\ importReq[r] = IdleImport
    /\ upload # <<>>
    /\ importReq' = [importReq EXCEPT ![r] = [IdleImport EXCEPT
                        !.phase = "reading", !.file = upload, !.strict = strict]]
    /\ UNCHANGED <<upload, keyed, importJobs>>

(* get_external_ids_by_provider *)
ReadExistingKeys(r) ==
    /\ importReq[r].phase = "reading"
    /\ importReq' = [importReq EXCEPT ![r].phase = "rows", ![r].known = keyed, ![r].was = keyed]
    /\ UNCHANGED <<upload, keyed, importJobs>>

Remember(known, key) == known \cup {key}

\* Mutant: the loop goes on after an error in strict mode too.
NeverStops(q, row) == FALSE

\* A duplicate is skipped before its other fields are read.
RowRaises(q, row) == row.key = NoKeyGiven \/ (row.key \notin q.known /\ row.flaw = "hidden")

StopsAt(q, row) == q.strict /\ RowRaises(q, row)

(* _process_row for the next row, and what the loop makes of it.           *)
ProcessRow(r) ==
    LET q == importReq[r]
        row == q.file[q.done + 1]
        next == [q EXCEPT !.done = @ + 1,
                          !.phase = IF q.done + 1 = Len(q.file) THEN "commit" ELSE "rows"]
    IN
    /\ q.phase = "rows"
    /\ importReq' = [importReq EXCEPT ![r] =
          IF RowRaises(q, row)
          THEN [next EXCEPT !.failed = @ + 1,
                            !.phase = IF StopsAt(q, row) THEN "strict" ELSE @]
          ELSE IF row.key \in q.known THEN [next EXCEPT !.skipped = @ + 1]
          ELSE [next EXCEPT !.made = @ \cup {row.key}, !.known = Remember(@, row.key)]]
    /\ UNCHANGED <<upload, keyed, importJobs>>

\* uq_license_provider_external: a key that came in meanwhile fails the whole commit.
InsertLicenses(q) ==
    /\ q.made \cap keyed = {}
    /\ keyed' = keyed \cup q.made

\* The counts are written only by an import that ran to its end.
JobRecord(q, status, created) ==
    [status |-> status, created |-> created, total |-> Len(q.file),
     skipped |-> IF status = "completed" THEN q.skipped ELSE 0,
     errors |-> IF status = "completed" THEN q.failed ELSE 0,
     file |-> q.file, strict |-> q.strict, made |-> q.made, was |-> q.was]

(* The job is completed in the transaction that inserts the licences; the  *)
(* temp file is removed after the commit.                                  *)
CommitImport(r) ==
    LET q == importReq[r] IN
    /\ q.phase = "commit"
    /\ Len(importJobs) < MaxJobs
    /\ InsertLicenses(q)
    /\ importJobs' = Append(importJobs,
          JobRecord(q, "completed", q.done - q.skipped - q.failed))
    /\ importReq' = [importReq EXCEPT ![r].phase = "clean"]
    /\ UNCHANGED upload

(* error_handling = "strict": the job is marked failed and committed, with *)
(* the rows that went before; the file stays.                              *)
FailImport(r) ==
    LET q == importReq[r] IN
    /\ q.phase = "strict"
    /\ Len(importJobs) < MaxJobs
    /\ InsertLicenses(q)
    /\ importJobs' = Append(importJobs, JobRecord(q, "failed", 0))
    /\ importReq' = [importReq EXCEPT ![r] = IdleImport]
    /\ UNCHANGED upload

(* os.remove: an error is ignored.                                         *)
RemoveFile(r) ==
    /\ importReq[r].phase = "clean"
    /\ upload' \in {upload, <<>>}
    /\ importReq' = [importReq EXCEPT ![r] = IdleImport]
    /\ UNCHANGED <<keyed, importJobs>>

(* An IntegrityError, any other failure or a crash before the commit rolls *)
(* back the job with the licences; after it, the file is left behind.      *)
ImportStops(r) ==
    /\ importReq[r] # IdleImport
    /\ importReq' = [importReq EXCEPT ![r] = IdleImport]
    /\ UNCHANGED <<upload, keyed, importJobs>>

(* A sync or a manual entry, and a deletion.                               *)
OtherChange(k) ==
    /\ keyed' \in {keyed \cup {k}, keyed \ {k}}
    /\ UNCHANGED <<upload, importJobs, importReq>>

ImportNext ==
    \/ \E file \in CsvFiles : Upload(file)
    \/ \E r \in ImportRequests :
          \/ \E strict \in BOOLEAN : ExecuteBegin(r, strict)
          \/ ReadExistingKeys(r)
          \/ ProcessRow(r)
          \/ CommitImport(r)
          \/ FailImport(r)
          \/ RemoveFile(r)
          \/ ImportStops(r)
    \/ \E k \in Keys : OtherChange(k)

ImportSpec == ImportInit /\ [][ImportNext]_importVars

-----------------------------------------------------------------------------
(* The variables hold values of their types.                               *)
ImportTypeOK ==
    /\ upload \in CsvFiles \cup {<<>>}
    /\ keyed \subseteq Keys
    /\ importJobs \in Seq(Job)
    /\ importReq \in [ImportRequests -> Execution]

(* What get_job_status reports of a completed job accounts for every row   *)
(* of the file, and "created" is the number of licences it inserted,       *)
(* duplicates inside the file included in "skipped".                       *)
JobsAccount ==
    \A i \in DOMAIN importJobs : LET j == importJobs[i] IN
        j.status = "completed" =>
            /\ j.created + j.skipped + j.errors = j.total
            /\ j.created = Cardinality(j.made)

(* A strict import stops at its first bad row: the licences it created,    *)
(* committed although the job failed, are those of earlier rows, and a     *)
(* strict import that completed had no bad row at all.                     *)
StrictStopsAtFirstError ==
    \A i \in DOMAIN importJobs : LET j == importJobs[i] IN
        j.strict =>
            IF j.status = "completed" THEN j.errors = 0
            ELSE \E n \in DOMAIN j.file :
                    /\ j.file[n].key = NoKeyGiven \/ j.file[n].flaw = "hidden"
                    /\ j.made = {j.file[m].key : m \in 1 .. n - 1} \ j.was

(* "This will create licenses based on the validated data": where the file *)
(* has no duplicate rows and no hidden flaw, and the preview saw the keys  *)
(* that the execution saw, the preview announced the number of licences    *)
(* that a valid file creates.                                              *)
PreviewForetells ==
    \A i \in DOMAIN importJobs : LET j == importJobs[i] IN
        (/\ IsValid(j.file)
         /\ \A n \in DOMAIN j.file : j.file[n].flaw = "none" /\ ~InFileBefore(j.file, n))
            => j.status = "completed" /\ j.created = WillCreate(j.file, j.was)

(* Both of the above for every job that has ended, completed or failed.    *)
ImportsAccount == JobsAccount /\ StrictStopsAtFirstError
=============================================================================
