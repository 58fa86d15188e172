----------------------------- MODULE Settlement -----------------------------
(***************************************************************************)
(* settlement_service, for one bank statement: its upload, the Celery task *)
(* process_uploaded_statement, which the upload queues twice (once from    *)
(* the post_save handler, once itself), the endpoints "settle" and         *)
(* "resolve", a deletion of the statement meanwhile, and the forms of the  *)
(* admin site that add and change it.  Statements do not share rows.       *)
(*                                                                         *)
(* Only the forms run in a transaction: every other create and save is     *)
(* committed by itself, and a queryset is read when its loop begins.  The  *)
(* save of a statement that was deleted since it was read inserts it       *)
(* again.  POST, PUT and PATCH of the statement end in an AssertionError   *)
(* (BankStatementSerializer declares a field it does not list) before      *)
(* anything is saved.                                                      *)
(***************************************************************************)
EXTENDS Integers, FiniteSets

CONSTANTS
    Lines,   \* lines an uploaded file can have
    Files,   \* the files: sets of lines
    Settles, \* the requests to "settle"
    Others   \* bound: requests to settle, change and delete that are made

\* What MatchingEngine looks at: whether there is a reference, and one that is
\* a UUID, as SettlementMatch wants it; the amount; whether there is a text.
ASSUME SettlementAssumption ==
    /\ \A l \in Lines :
          /\ l.reference \in {"none", "uuid", "other"}
          /\ l.amount \in Int
          /\ l.description \in BOOLEAN
    /\ Files \subseteq SUBSET Lines
    /\ Settles \cap {"signal", "again", "upload"} = {}
    /\ Others \in Nat

Points(condition, points) == IF condition THEN points ELSE 0

\* calculate_confidence
Confidence(l) ==
    Points(l.reference # "none", 40) + Points(l.amount > 0, 30) + Points(l.description, 30)

Storable(l) == l.reference = "uuid"
Weak(l)     == Confidence(l) < 80

\* The task queued by the signal, the one it queues when a statement is
\* inserted again, the one queued by the view, and requests.
Tasks == {"signal", "again", "upload"}
Runs  == Tasks \cup Settles

VARIABLES
    status,       \* BankStatement.status, or "absent"
    upload,       \* the upload request
    unparsed,     \* lines of the file it has still to read
    rows,         \* lines with a BankTransaction row
    matches,      \* SettlementMatch rows per line
    differences,  \* SettlementDifference rows per line
    resolved,     \* lines of which such a row was resolved
    pc,           \* what each run does next
    todo,         \* per run, the rows (or matches) its loop has still to visit
    draft,        \* the status in the hands of a change form, or "none"
    edited,       \* a form has set the status (bound: one change)
    deleted       \* the statement was deleted (bound: once)

results == <<matches, differences, resolved>>
run     == <<pc, todo>>
writes  == <<draft, edited, deleted>>
vars    == <<status, upload, unparsed, rows, results, run, writes>>

\* STATUS_CHOICES; only a form stores "failed".
Status == {"uploaded", "processing", "completed", "failed"}
PC     == {"none", "queued", "taken", "begin", "found", "load", "matching",
           "flagging", "confirm", "done", "failed"}
Over   == {"none", "done", "failed"}

TypeOK ==
    /\ status \in Status \cup {"absent"}
    /\ upload \in {"none", "parsing", "done", "failed", "plain"}
    /\ unparsed \subseteq Lines
    /\ rows \subseteq Lines
    /\ matches \in [Lines -> Nat]
    /\ differences \in [Lines -> Nat]
    /\ resolved \subseteq Lines
    /\ pc \in [Runs -> PC]
    /\ todo \in [Runs -> [Lines -> Nat]]
    /\ draft \in Status \cup {"none"}
    /\ edited \in BOOLEAN
    /\ deleted \in BOOLEAN

Nothing == [l \in Lines |-> 0]

Init ==
    /\ status = "absent"
    /\ upload = "none"
    /\ unparsed \in Files
    /\ rows = {}
    /\ matches = Nothing
    /\ differences = Nothing
    /\ resolved = {}
    /\ pc = [r \in Runs |-> "none"]
    /\ todo = [r \in Runs |-> Nothing]
    /\ draft = "none"
    /\ edited = FALSE
    /\ deleted = FALSE

-----------------------------------------------------------------------------
(* POST /statements/statement/upload/, and the form that adds a statement    *)

\* Mutant of Announced: the view queues its task before it reads the file.
AnnouncedBoth == {"signal", "upload"}

Announced == {"signal"}

\* serializer.save(): the post_save handler queues a task, for a new statement
\* that says so.
Insert(next, s) ==
    /\ status = "absent"
    /\ upload = "none"
    /\ status' = s
    /\ upload' = next
    /\ pc' = [r \in Runs |-> IF s = "uploaded" /\ r \in Announced THEN "queued" ELSE pc[r]]
    /\ edited' = (edited \/ s # "uploaded")
    /\ UNCHANGED <<unparsed, rows, results, todo, draft, deleted>>

\* The file is stored, too: a small upload is read to its end by that, and
\* parse_csv then finds no line in it.
Save == Insert("parsing", "uploaded")

\* BankStatementAdmin: any status, and the file is not parsed at all.
AdminAdd == \E s \in Status : Insert("plain", s)

Present == status # "absent"

ParseLine(l) ==
    /\ upload = "parsing"
    /\ Present
    /\ l \in unparsed
    /\ unparsed' = unparsed \ {l}
    /\ rows' = rows \cup {l}
    /\ UNCHANGED <<status, upload, results, run, writes>>

\* A line does not parse, its statement is gone, or the worker dies: the rows
\* so far stay, and the second task is not queued.
UploadFails ==
    /\ upload = "parsing"
    /\ upload' = "failed"
    /\ unparsed' = {}
    /\ UNCHANGED <<status, rows, results, run, writes>>

Uploaded ==
    /\ upload = "parsing"
    /\ unparsed = {}
    /\ upload' = "done"
    /\ pc' = [pc EXCEPT !["upload"] = IF @ = "none" THEN "queued" ELSE @]
    /\ UNCHANGED <<status, unparsed, rows, results, todo, writes>>

-----------------------------------------------------------------------------
(* process_uploaded_statement and the endpoint "settle"                      *)

Step(r, from, to) == pc[r] = from /\ pc' = [pc EXCEPT ![r] = to]

\* BankStatement.objects.get(id=statement_id), or DoesNotExist ends the run.
Get(r, from, to) == Step(r, from, IF Present THEN to ELSE "failed")

\* statement.status = s; statement.save(): where the row is gone by now it is
\* inserted, without the rows that went with it.
SetStatus(s) ==
    /\ status' = s
    /\ UNCHANGED <<upload, unparsed, rows, results, todo, writes>>

\* A request to settle, change or delete may still be made.
AnotherRequest ==
    Cardinality({r \in Settles : pc[r] # "none"})
        + (IF edited \/ draft # "none" THEN 1 ELSE 0)
        + (IF deleted THEN 1 ELSE 0) < Others

Request(r) ==
    /\ r \in Settles
    /\ AnotherRequest
    /\ Present
    /\ Step(r, "none", "begin")
    /\ UNCHANGED <<status, upload, unparsed, rows, results, todo, writes>>

\* The task takes its statement, and settlement_statement takes it again.
Fetch(r) ==
    /\ Get(r, "queued", "taken") \/ Get(r, "begin", "found")
    /\ UNCHANGED <<status, upload, unparsed, rows, results, todo, writes>>

\* The task's own save, and then the one of settlement_statement.
StartTask(r) == Step(r, "taken", "begin") /\ SetStatus("processing")
Begin(r)     == Step(r, "found", "load") /\ SetStatus("processing")

\* auto_match
LoadRows(r) ==
    /\ Get(r, "load", "matching")
    /\ todo' = [todo EXCEPT ![r] = [l \in Lines |-> IF l \in rows THEN 1 ELSE 0]]
    /\ UNCHANGED <<status, upload, unparsed, rows, results, writes>>

Visit(r, l) == todo[r][l] > 0 /\ todo' = [todo EXCEPT ![r][l] = @ - 1]

Drop(r) == todo' = [todo EXCEPT ![r] = Nothing]

Match(r, l) ==
    /\ pc[r] = "matching"
    /\ Visit(r, l)
    /\ l \in rows
    /\ Storable(l)
    /\ matches' = [matches EXCEPT ![l] = @ + 1]
    /\ UNCHANGED <<status, upload, unparsed, rows, differences, resolved, pc, writes>>

\* A reference that is no UUID (ValidationError), or a row that was deleted
\* since it was read, ends the run, in the state it is in.
VisitFails(r) ==
    /\ \/ Step(r, "matching", "failed")
       \/ Step(r, "flagging", "failed")
    /\ \E l \in Lines :
          /\ todo[r][l] > 0
          /\ l \notin rows \/ (pc[r] = "matching" /\ ~Storable(l))
    /\ Drop(r)
    /\ UNCHANGED <<status, upload, unparsed, rows, results, writes>>

\* Mutant of Unmatched: the filter on the status is left out.
UnmatchedUnfiltered(l) == matches[l]

\* The unmatched SettlementMatch rows of a line, those of other runs included.
Unmatched(l) == IF Weak(l) THEN matches[l] ELSE 0

\* flag_differences
LoadUnmatched(r) ==
    /\ Get(r, "matching", "flagging")
    /\ todo[r] = Nothing
    /\ todo' = [todo EXCEPT ![r] = [l \in Lines |-> Unmatched(l)]]
    /\ UNCHANGED <<status, upload, unparsed, rows, results, writes>>

Flag(r, l) ==
    /\ pc[r] = "flagging"
    /\ Visit(r, l)
    /\ l \in rows
    /\ differences' = [differences EXCEPT ![l] = @ + 1]
    /\ UNCHANGED <<status, upload, unparsed, rows, matches, resolved, pc, writes>>

\* Mutant of Completion: a status the model has no name for.
CompletionSettled == "settled"

\* Mutant of Completion: the status is left as it was.
CompletionForgotten == status

Completion == "completed"

\* The save of settlement_statement, and then the task's own.
Complete(r) ==
    /\ todo[r] = Nothing
    /\ Step(r, "flagging", IF r \in Tasks THEN "confirm" ELSE "done")
    /\ SetStatus(Completion)

Confirm(r) == Step(r, "confirm", "done") /\ SetStatus(Completion)

\* The process dies, or, of a task that a form has queued, looks for the
\* statement before the form is committed; a task is not delivered again.
Crash(r) ==
    /\ pc[r] \notin Over
    /\ pc' = [pc EXCEPT ![r] = "failed"]
    /\ Drop(r)
    /\ UNCHANGED <<status, upload, unparsed, rows, results, writes>>

-----------------------------------------------------------------------------
(* The change form of the admin site posts the whole row, with the status    *)
(* that its page showed or the administrator chose.                          *)

EditRead ==
    /\ Present
    /\ draft = "none"
    /\ ~edited
    /\ AnotherRequest
    /\ draft' \in Status
    /\ UNCHANGED <<status, upload, unparsed, rows, results, run, edited, deleted>>

\* Where the row has gone since the form read it, it is inserted again; in the
\* status "uploaded" that is announced like the first insertion.
EditSave ==
    /\ draft # "none"
    /\ status' = draft
    /\ draft' = "none"
    /\ edited' = TRUE
    /\ pc' = IF ~Present /\ draft = "uploaded" THEN [pc EXCEPT !["again"] = "queued"]
                                             ELSE pc
    /\ UNCHANGED <<upload, unparsed, rows, results, todo, deleted>>

\* DELETE of the statement: everything that refers to it goes with it.
Delete ==
    /\ Present
    /\ ~deleted
    /\ AnotherRequest
    /\ deleted' = TRUE
    /\ status' = "absent"
    /\ rows' = {}
    /\ matches' = Nothing
    /\ differences' = Nothing
    /\ resolved' = {}
    /\ UNCHANGED <<upload, unparsed, run, draft, edited>>

\* POST /statements/difference/<id>/resolve/
Resolve(l) ==
    /\ differences[l] > 0
    /\ resolved' = resolved \cup {l}
    /\ UNCHANGED <<status, upload, unparsed, rows, matches, differences, run, writes>>

-----------------------------------------------------------------------------
Work(r) ==
    \/ Fetch(r)
    \/ StartTask(r)
    \/ Begin(r)
    \/ LoadRows(r)
    \/ \E l \in Lines : Match(r, l) \/ Flag(r, l)
    \/ VisitFails(r)
    \/ LoadUnmatched(r)
    \/ Complete(r)
    \/ Confirm(r)

Next ==
    \/ Save
    \/ AdminAdd
    \/ \E l \in Lines : ParseLine(l) \/ Resolve(l)
    \/ UploadFails
    \/ Uploaded
    \/ \E r \in Runs : Request(r) \/ Work(r) \/ Crash(r)
    \/ EditRead
    \/ EditSave
    \/ Delete

Spec == Init /\ [][Next]_vars

\* Celery starts what is queued, and runs carry on: a run has finitely many
\* steps, so it is enough that some run takes one while one can.
FairSpec == Spec /\ WF_vars(\E r \in Runs : Work(r))

-----------------------------------------------------------------------------
(* Properties                                                                *)

\* The task that the view queues last sees every line: when it is done no line
\* is without a match, and no weak line without a difference, whatever the
\* task that ran during the upload saw and did.
UploadSettlesAll ==
    pc["upload"] = "done" =>
        \A l \in rows :
            /\ matches[l] > 0
            /\ Weak(l) => differences[l] > 0

\* The runs that have read the unmatched rows, or have failed.
Flaggers == {r \in Runs : pc[r] \in {"flagging", "confirm", "done", "failed"}}

\* Runs that overlap, and flag each other's matches, flag weak lines only, and
\* each of them no more often than once per match of theirs.
OnlyWeakAreFlagged ==
    \A l \in Lines :
        /\ differences[l] > 0 => Weak(l)
        /\ differences[l] <= matches[l] * Cardinality(Flaggers)

\* When all runs have ended, none of them badly, the statement says so, unless
\* it was deleted, or a form has set its status.  A statement that is deleted
\* under a run may come back, but not unfinished.
QuietIsCompleted ==
    (/\ \A r \in Runs : pc[r] \in {"none", "done"}
     /\ pc["signal"] = "done"
     /\ ~edited) => status = "completed" \/ (deleted /\ status = "absent")

\* A statement does not stay in "processing", unless a run broke off or a form
\* has set its status.
EventuallyCompleted ==
    status = "processing" ~>
        \/ status \in {"completed", "absent"}
        \/ edited
        \/ \E r \in Runs : pc[r] = "failed"

-----------------------------------------------------------------------------
(* The invariants behind the properties                                      *)

\* A task is queued once: by the insertion, the one change or the upload.
QueuedOnce ==
    /\ draft # "none" => ~edited
    /\ upload = "none" =>
          status = "absent" /\ draft = "none" /\ \A r \in Runs : pc[r] = "none"
    /\ ~edited => pc["again"] = "none"
    /\ pc["upload"] # "none" => upload = "done"

\* What the last task has done for a line that is still there, and what is left
\* in its loops: it begins when the file is read, so no line comes after it.
UploadDone(l) ==
    /\ pc["upload"] = "matching" => todo["upload"][l] > 0 \/ matches[l] > 0
    /\ pc["upload"] \in {"flagging", "confirm", "done"} => matches[l] > 0
    /\ pc["upload"] = "flagging" /\ Weak(l) => todo["upload"][l] > 0 \/ differences[l] > 0
    /\ pc["upload"] \in {"confirm", "done"} /\ Weak(l) => differences[l] > 0

UploadProgress == \A l \in rows : UploadDone(l)

\* The differences of a line that runs have still to make, with their numbers.
Due(l) == UNION {{r} \X (1..todo[r][l]) : r \in {q \in Runs : pc[q] = "flagging"}}

\* A line that is not there has no results, one that is still to come is in no
\* loop, and only weak lines are flagged.
ResultsPlaced(l) ==
    /\ l \notin rows => matches[l] = 0 /\ differences[l] = 0
    /\ l \in unparsed => l \notin rows /\ \A r \in Runs : todo[r][l] = 0
    /\ differences[l] > 0 => Weak(l)
    /\ \A r \in Runs : pc[r] = "flagging" /\ todo[r][l] > 0 => Weak(l)

\* What runs have flagged or will flag they have found as a match.
FlagsBounded(l) ==
    /\ IsFiniteSet(Due(l))
    /\ l \in rows =>
          differences[l] + Cardinality(Due(l)) <= matches[l] * Cardinality(Flaggers)

FlagsCovered ==
    /\ IsFiniteSet(Flaggers)
    /\ \A l \in Lines : ResultsPlaced(l) /\ FlagsBounded(l)

\* While no form has set it, the status says "uploaded" until the first task has
\* begun, and "processing" as long as some run has not come to its end.
StatusTrue ==
    /\ status = "absent" => deleted \/ pc["signal"] = "none"
    /\ status = "failed" => edited
    /\ status = "uploaded" /\ ~edited => pc["signal"] \in {"queued", "taken", "failed"}
    /\ status = "processing" /\ ~edited =>
          \E r \in Runs : pc[r] \in {"begin", "found", "load", "matching", "flagging", "failed"}

\* The inductive invariant.
SettlementInv ==
    /\ TypeOK
    /\ QueuedOnce
    /\ UploadProgress
    /\ FlagsCovered
    /\ StatusTrue
=============================================================================
