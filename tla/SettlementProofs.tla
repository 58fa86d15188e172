-------------------------- MODULE SettlementProofs --------------------------
(***************************************************************************)
(* Proofs about Settlement for all files, every set of requests to settle  *)
(* and any number of other requests.                                       *)
(***************************************************************************)
EXTENDS Settlement, FiniteSetTheorems, TLAPS

-----------------------------------------------------------------------------
(* Type correctness                                                          *)

LEMMA InitTypeOK == Init => TypeOK
<1> SUFFICES ASSUME Init PROVE TypeOK
  OBVIOUS
<1>1. unparsed \subseteq Lines
  <2>1. unparsed \in Files /\ Files \subseteq SUBSET Lines
    BY SettlementAssumption DEF Init
  <2>2. QED
    BY <2>1
<1>2. pc \in [Runs -> PC] /\ todo \in [Runs -> [Lines -> Nat]]
  BY DEF Init, Nothing, PC
<1>3. QED
  BY <1>1, <1>2 DEF Init, TypeOK, Nothing

\* What a step does to the run that takes it.
LEMMA StepTyped ==
    ASSUME TypeOK, NEW r \in Runs, NEW from, NEW to \in PC, Step(r, from, to)
    PROVE  pc' \in [Runs -> PC]
BY DEF Step, TypeOK

LEMMA VisitTyped ==
    ASSUME TypeOK, NEW r \in Runs, NEW l \in Lines, Visit(r, l)
    PROVE  /\ todo' \in [Runs -> [Lines -> Nat]]
           /\ todo'[r][l] = todo[r][l] - 1
           /\ \A k \in Lines \ {l} : todo'[r][k] = todo[r][k]
           /\ \A q \in Runs \ {r} : todo'[q] = todo[q]
<1>1. todo[r] \in [Lines -> Nat] /\ todo[r][l] - 1 \in Nat
  BY DEF Visit, TypeOK
<1>2. [todo[r] EXCEPT ![l] = todo[r][l] - 1] \in [Lines -> Nat]
  BY <1>1
<1>3. todo' = [todo EXCEPT ![r] = [todo[r] EXCEPT ![l] = todo[r][l] - 1]]
  BY <1>1 DEF Visit
<1>4. QED
  BY <1>1, <1>2, <1>3 DEF TypeOK

LEMMA NextTypeOK == TypeOK /\ [Next]_vars => TypeOK'
<1> SUFFICES ASSUME TypeOK, [Next]_vars PROVE TypeOK'
  OBVIOUS
<1> USE DEF results, run, writes
<1>1. CASE Save \/ AdminAdd
  <2>1. PICK next \in {"parsing", "plain"}, s \in Status : Insert(next, s)
    BY <1>1 DEF Save, AdminAdd, Status
  <2>2. pc' \in [Runs -> PC]
    BY <2>1 DEF Insert, TypeOK, PC
  <2>3. QED
    BY <2>1, <2>2 DEF Insert, TypeOK, Status
<1>2. ASSUME NEW l \in Lines, ParseLine(l) \/ Resolve(l)
      PROVE  TypeOK'
  BY <1>2 DEF ParseLine, Resolve, TypeOK
<1>3. CASE UploadFails
  BY <1>3 DEF UploadFails, TypeOK
<1>4. CASE Uploaded
  <2>1. pc' \in [Runs -> PC]
    BY <1>4 DEF Uploaded, TypeOK, PC
  <2>2. QED
    BY <1>4, <2>1 DEF Uploaded, TypeOK
<1>5. ASSUME NEW r \in Runs, Request(r) \/ Fetch(r)
      PROVE  TypeOK'
  <2>1. {"begin", "taken", "found", "failed"} \subseteq PC
    BY DEF PC
  <2>2. pc' \in [Runs -> PC]
    BY <1>5, <2>1, StepTyped DEF Request, Fetch, Get
  <2>3. QED
    BY <1>5, <2>2 DEF Request, Fetch, TypeOK
<1>6. ASSUME NEW r \in Runs, StartTask(r) \/ Begin(r) \/ Complete(r) \/ Confirm(r)
      PROVE  TypeOK'
  <2>1. {"begin", "load", "confirm", "done"} \subseteq PC /\ {"processing", "completed"} \subseteq Status
    BY DEF PC, Status
  <2>2. pc' \in [Runs -> PC]
    BY <1>6, <2>1, StepTyped DEF StartTask, Begin, Complete, Confirm
  <2>3. QED
    BY <1>6, <2>1, <2>2 DEF StartTask, Begin, Complete, Confirm, SetStatus, Completion, TypeOK
<1>7. ASSUME NEW r \in Runs, LoadRows(r) \/ LoadUnmatched(r)
      PROVE  TypeOK'
  <2>1. {"matching", "flagging", "failed"} \subseteq PC
    BY DEF PC
  <2>2. pc' \in [Runs -> PC]
    BY <1>7, <2>1, StepTyped DEF LoadRows, LoadUnmatched, Get
  <2>3. /\ [l \in Lines |-> IF l \in rows THEN 1 ELSE 0] \in [Lines -> Nat]
        /\ [l \in Lines |-> Unmatched(l)] \in [Lines -> Nat]
    BY DEF Unmatched, TypeOK
  <2>4. todo' \in [Runs -> [Lines -> Nat]]
    <3>1. PICK f \in [Lines -> Nat] : todo' = [todo EXCEPT ![r] = f]
      <4>1. CASE LoadRows(r)
        BY <2>3, <4>1 DEF LoadRows
      <4>2. CASE LoadUnmatched(r)
        BY <2>3, <4>2 DEF LoadUnmatched
      <4>3. QED
        BY <1>7, <4>1, <4>2
    <3>2. QED
      BY <3>1 DEF TypeOK
  <2>5. QED
    BY <1>7, <2>2, <2>4 DEF LoadRows, LoadUnmatched, TypeOK
<1>8. ASSUME NEW r \in Runs, NEW l \in Lines, Match(r, l) \/ Flag(r, l)
      PROVE  TypeOK'
  <2>1. todo' \in [Runs -> [Lines -> Nat]]
    BY <1>8, VisitTyped DEF Match, Flag
  <2>2. QED
    BY <1>8, <2>1 DEF Match, Flag, TypeOK
<1>9. ASSUME NEW r \in Runs, VisitFails(r) \/ Crash(r)
      PROVE  TypeOK'
  <2>1. pc' \in [Runs -> PC]
    BY <1>9 DEF VisitFails, Crash, Step, TypeOK, PC
  <2>2. todo' \in [Runs -> [Lines -> Nat]]
    <3>1. todo' = [todo EXCEPT ![r] = Nothing] /\ Nothing \in [Lines -> Nat]
      BY <1>9 DEF VisitFails, Crash, Drop, Nothing
    <3>2. QED
      BY <3>1 DEF TypeOK
  <2>3. QED
    BY <1>9, <2>1, <2>2 DEF VisitFails, Crash, TypeOK
<1>10. CASE EditRead
  BY <1>10 DEF EditRead, Present, TypeOK
<1>11. CASE EditSave
  <2>1. pc' \in [Runs -> PC]
    BY <1>11 DEF EditSave, TypeOK, PC
  <2>2. QED
    BY <1>11, <2>1 DEF EditSave, TypeOK
<1>12. CASE Delete
  BY <1>12 DEF Delete, Nothing, TypeOK
<1>13. CASE UNCHANGED vars
  BY <1>13 DEF vars, TypeOK
<1>14. QED
  BY <1>1, <1>2, <1>3, <1>4, <1>5, <1>6, <1>7, <1>8, <1>9, <1>10, <1>11, <1>12, <1>13
  DEF Next, Work

-----------------------------------------------------------------------------
(* Runs                                                                      *)

\* A run goes one way: through its loops to its end, or to a failure.
LEMMA PcStep ==
    ASSUME TypeOK, QueuedOnce, [Next]_vars, NEW r \in Runs, pc'[r] # pc[r]
    PROVE  \/ pc[r] = "none" /\ pc'[r] \in {"queued", "begin"}
           \/ pc[r] = "queued" /\ pc'[r] \in {"taken", "failed"}
           \/ pc[r] = "taken" /\ pc'[r] \in {"begin", "failed"}
           \/ pc[r] = "begin" /\ pc'[r] \in {"found", "failed"}
           \/ pc[r] = "found" /\ pc'[r] \in {"load", "failed"}
           \/ pc[r] = "load" /\ pc'[r] \in {"matching", "failed"}
           \/ pc[r] = "matching" /\ pc'[r] \in {"flagging", "failed"}
           \/ pc[r] = "flagging" /\ pc'[r] \in {"confirm", "done", "failed"}
           \/ pc[r] = "confirm" /\ pc'[r] \in {"done", "failed"}
<1> USE DEF TypeOK, run, writes, results
<1>1. CASE Save \/ AdminAdd
  <2>1. /\ upload = "none"
        /\ \A q \in Runs : pc'[q] = pc[q] \/ pc'[q] = "queued"
    BY <1>1 DEF Save, AdminAdd, Insert, Announced
  <2>2. QED
    BY <2>1 DEF QueuedOnce
<1>2. CASE \/ \E l \in Lines : ParseLine(l) \/ Resolve(l)
           \/ UploadFails \/ EditRead \/ Delete \/ UNCHANGED vars
  BY <1>2 DEF ParseLine, Resolve, UploadFails, EditRead, Delete, vars
<1>3. CASE Uploaded
  BY <1>3 DEF Uploaded
<1>4. CASE EditSave
  <2>1. /\ pc["again"] = "none"
        /\ \/ pc' = pc
           \/ pc' = [pc EXCEPT !["again"] = "queued"]
    BY <1>4 DEF EditSave, QueuedOnce
  <2>2. QED
    BY <2>1
<1>5. ASSUME NEW q \in Runs, \/ Request(q) \/ Fetch(q) \/ StartTask(q) \/ Begin(q) \/ LoadRows(q)
                             \/ LoadUnmatched(q) \/ VisitFails(q) \/ Complete(q) \/ Confirm(q)
      PROVE  r = q
  BY <1>5 DEF Request, Fetch, StartTask, Begin, LoadRows, LoadUnmatched, VisitFails, Complete,
     Confirm, Get, Step
<1>6. CASE \/ Request(r) \/ Fetch(r) \/ StartTask(r) \/ Begin(r) \/ LoadRows(r)
           \/ LoadUnmatched(r) \/ VisitFails(r) \/ Complete(r) \/ Confirm(r)
  BY <1>6 DEF Request, Fetch, StartTask, Begin, LoadRows, LoadUnmatched, VisitFails, Complete,
     Confirm, Get, Step
<1>7. ASSUME NEW q \in Runs, Crash(q)
      PROVE  r = q /\ pc[r] \in PC \ {"none", "done", "failed"} /\ pc'[r] = "failed"
  BY <1>7 DEF Crash, Over
<1>8. ASSUME NEW q \in Runs, NEW l \in Lines, Match(q, l) \/ Flag(q, l)
      PROVE  FALSE
  BY <1>8 DEF Match, Flag
<1>9. QED
  BY <1>1, <1>2, <1>3, <1>4, <1>5, <1>6, <1>7, <1>8 DEF Next, Work, PC

LEMMA NextQueuedOnce ==
    ASSUME TypeOK, QueuedOnce, [Next]_vars
    PROVE  QueuedOnce'
<1> USE DEF TypeOK, QueuedOnce, run, writes, results
<1>0. "signal" \in Runs /\ "again" \in Runs /\ "upload" \in Runs
      /\ \A r \in Settles : r \notin {"signal", "again", "upload"}
  BY SettlementAssumption DEF Runs, Tasks
<1>1. CASE Save \/ AdminAdd
  <2>1. /\ upload = "none" /\ draft' = draft
        /\ upload' \in {"parsing", "plain"}
        /\ \A r \in Runs : r # "signal" => pc'[r] = pc[r]
    BY <1>1 DEF Save, AdminAdd, Insert, Announced
  <2>2. QED
    BY <1>0, <2>1
<1>2. CASE \/ \E l \in Lines : ParseLine(l) \/ Resolve(l)
           \/ EditRead \/ Delete \/ UNCHANGED vars
  BY <1>2 DEF ParseLine, Resolve, EditRead, Delete, Present, vars
<1>3. CASE UploadFails \/ Uploaded
  BY <1>0, <1>3 DEF UploadFails, Uploaded
<1>4. CASE EditSave
  BY <1>0, <1>4 DEF EditSave
<1>5. ASSUME NEW r \in Runs, Request(r) \/ Work(r) \/ Crash(r)
      PROVE  /\ UNCHANGED <<upload, draft, edited>>
             /\ upload # "none"
             /\ \A q \in Tasks : pc[q] = "none" => pc'[q] = "none"
  <2>1. CASE Request(r)
    <3>1. r \notin Tasks /\ Tasks \subseteq Runs
      BY <1>0, <2>1 DEF Request, Tasks, Runs
    <3>2. pc' = [pc EXCEPT ![r] = "begin"]
      BY <2>1 DEF Request, Step
    <3>3. \A q \in Tasks : pc'[q] = pc[q]
      BY <3>1, <3>2
    <3>4. QED
      BY <2>1, <3>3 DEF Request, Present
  <2>2. CASE Crash(r)
    <3>1. pc[r] # "none" /\ upload # "none" /\ pc' = [pc EXCEPT ![r] = "failed"]
      BY <2>2 DEF Crash, Over
    <3>2. \A q \in Tasks : q \in Runs /\ (pc[q] = "none" => pc'[q] = "none")
      BY <3>1 DEF Runs
    <3>3. QED
      BY <2>2, <3>1, <3>2 DEF Crash
  <2>3. CASE \/ Fetch(r) \/ StartTask(r) \/ Begin(r) \/ Complete(r) \/ Confirm(r)
             \/ LoadRows(r) \/ LoadUnmatched(r) \/ VisitFails(r)
    <3>1. PICK from, to : from # "none" /\ Step(r, from, to)
      BY <2>3 DEF Fetch, Get, StartTask, Begin, Complete, Confirm, LoadRows, LoadUnmatched,
         VisitFails
    <3>2. \A q \in Tasks : q \in Runs /\ (pc[q] = "none" => pc'[q] = "none")
      BY <3>1 DEF Runs, Step
    <3>3. UNCHANGED <<upload, draft, edited>>
      BY <2>3 DEF Fetch, StartTask, Begin, Complete, Confirm, LoadRows, LoadUnmatched,
         VisitFails, SetStatus
    <3>4. upload # "none"
      BY <3>1 DEF Step
    <3>5. QED
      BY <3>2, <3>3, <3>4
  <2>5. CASE \E l \in Lines : Match(r, l) \/ Flag(r, l)
    BY <2>5 DEF Match, Flag
  <2>6. QED
    BY <1>5, <2>1, <2>2, <2>3, <2>5 DEF Work
<1>6. CASE \E r \in Runs : Request(r) \/ Work(r) \/ Crash(r)
  BY <1>5, <1>6 DEF Tasks
<1>7. QED
  BY <1>1, <1>2, <1>3, <1>4, <1>6 DEF Next

\* The steps of a run that are not about one line.
RunStep(r) ==
    \/ Request(r) \/ Fetch(r) \/ StartTask(r) \/ Begin(r) \/ LoadRows(r) \/ VisitFails(r)
    \/ LoadUnmatched(r) \/ Complete(r) \/ Confirm(r) \/ Crash(r)

\* They write no results, and touch no other run.
LEMMA RunStepAlone ==
    ASSUME TypeOK, NEW r \in Runs, RunStep(r)
    PROVE  /\ UNCHANGED <<upload, unparsed, rows, matches, differences, draft, edited, deleted>>
           /\ \A q \in Runs \ {r} : pc'[q] = pc[q] /\ todo'[q] = todo[q]
<1> USE DEF results, run, writes
<1>1. UNCHANGED <<upload, unparsed, rows, matches, differences, draft, edited, deleted>>
  BY DEF RunStep, Request, Fetch, StartTask, Begin, LoadRows, VisitFails, LoadUnmatched, Complete,
     Confirm, Crash, SetStatus
<1>2. \E to : pc' = [pc EXCEPT ![r] = to]
  BY DEF RunStep, Request, Fetch, StartTask, Begin, LoadRows, VisitFails, LoadUnmatched, Complete,
     Confirm, Crash, Get, Step
<1>3. todo' = todo \/ \E f : todo' = [todo EXCEPT ![r] = f]
  BY DEF RunStep, Request, Fetch, StartTask, Begin, LoadRows, VisitFails, LoadUnmatched, Complete,
     Confirm, Crash, SetStatus, Drop
<1>4. QED
  BY <1>1, <1>2, <1>3 DEF TypeOK

\* What comes from outside touches no loop, and leads no run into one.
Outside ==
    \/ Save \/ AdminAdd \/ UploadFails \/ Uploaded \/ EditRead \/ EditSave
    \/ \E l \in Lines : Resolve(l)

LEMMA OutsideStep ==
    ASSUME TypeOK, QueuedOnce, Outside
    PROVE  /\ UNCHANGED <<rows, matches, differences, todo, deleted>>
           /\ unparsed' \subseteq unparsed
           /\ \A r \in Runs : pc'[r] = pc[r] \/ (pc[r] = "none" /\ pc'[r] = "queued")
<1> USE DEF results, run, writes
<1>1. /\ UNCHANGED <<rows, matches, differences, todo, deleted>>
      /\ unparsed' \subseteq unparsed
  BY DEF Outside, Save, AdminAdd, Insert, UploadFails, Uploaded, EditRead, EditSave, Resolve
<1>2. CASE Save \/ AdminAdd
  <2>1. upload = "none" /\ \A r \in Runs : pc'[r] = pc[r] \/ pc'[r] = "queued"
    BY <1>2 DEF Save, AdminAdd, Insert, Announced
  <2>2. QED
    BY <1>1, <2>1 DEF QueuedOnce
<1>3. CASE Uploaded
  BY <1>1, <1>3 DEF Uploaded, TypeOK
<1>4. CASE EditSave
  <2>1. pc["again"] = "none" /\ (pc' = pc \/ pc' = [pc EXCEPT !["again"] = "queued"])
    BY <1>4 DEF EditSave, QueuedOnce
  <2>2. QED
    BY <1>1, <2>1 DEF TypeOK
<1>5. CASE UploadFails \/ EditRead \/ \E l \in Lines : Resolve(l)
  BY <1>1, <1>5 DEF UploadFails, EditRead, Resolve
<1>6. QED
  BY <1>2, <1>3, <1>4, <1>5 DEF Outside

\* Every step is one of these.
LEMMA NextSplit ==
    ASSUME Next
    PROVE  \/ Outside
           \/ Delete
           \/ \E l \in Lines : ParseLine(l)
           \/ \E r \in Runs : RunStep(r)
           \/ \E r \in Runs, l \in Lines : Match(r, l) \/ Flag(r, l)
BY DEF Next, Work, Outside, RunStep

-----------------------------------------------------------------------------
(* The last task                                                             *)

LEMMA RunsNamed ==
    /\ Tasks \subseteq Runs
    /\ {"signal", "again", "upload"} = Tasks
    /\ Tasks \cap Settles = {}
BY SettlementAssumption DEF Runs, Tasks

\* The run of the last task is in its loops.
LEMMA UploadRunStep ==
    ASSUME TypeOK, UploadProgress, RunStep("upload")
    PROVE  UploadProgress'
<1> DEFINE r == "upload"
<1> SUFFICES ASSUME NEW l \in rows'
             PROVE  /\ pc'[r] = "matching" => todo'[r][l] > 0 \/ matches'[l] > 0
                    /\ pc'[r] \in {"flagging", "confirm", "done"} => matches'[l] > 0
                    /\ pc'[r] = "flagging" /\ Weak(l) => todo'[r][l] > 0 \/ differences'[l] > 0
                    /\ pc'[r] \in {"confirm", "done"} /\ Weak(l) => differences'[l] > 0
  BY DEF UploadProgress, UploadDone
<1>0. /\ r \in Runs /\ r \in Tasks
      /\ l \in rows /\ l \in Lines
      /\ matches'[l] = matches[l] /\ differences'[l] = differences[l]
      /\ matches[l] \in Nat /\ differences[l] \in Nat /\ todo[r] \in [Lines -> Nat]
  BY RunsNamed, RunStepAlone DEF TypeOK
<1> USE DEF TypeOK
<1>1. CASE \/ Request(r) \/ Fetch(r) \/ StartTask(r) \/ Begin(r) \/ VisitFails(r) \/ Crash(r)
  <2>1. pc'[r] \in {"begin", "taken", "found", "failed", "load"}
    BY <1>0, <1>1 DEF Request, Fetch, StartTask, Begin, VisitFails, Crash, Get, Step
  <2>2. QED
    BY <2>1
<1>2. CASE LoadRows(r)
  <2>1. pc'[r] \in {"matching", "failed"} /\ todo'[r][l] = 1
    BY <1>0, <1>2 DEF LoadRows, Get, Step
  <2>2. QED
    BY <2>1
<1>3. CASE LoadUnmatched(r)
  <2>1. pc[r] = "matching" /\ pc'[r] \in {"flagging", "failed"} /\ todo'[r][l] = Unmatched(l)
    BY <1>0, <1>3 DEF LoadUnmatched, Get, Step
  <2>2. todo[r][l] = 0
    BY <1>0, <1>3 DEF LoadUnmatched, Nothing
  <2>3. matches[l] > 0
    BY <1>0, <2>1, <2>2 DEF UploadProgress, UploadDone
  <2>4. QED
    BY <1>0, <2>1, <2>3 DEF Unmatched
<1>4. CASE Complete(r)
  <2>1. pc[r] = "flagging" /\ pc'[r] = "confirm" /\ todo[r][l] = 0
    BY <1>0, <1>4 DEF Complete, Step, Nothing
  <2>2. matches[l] > 0 /\ (Weak(l) => differences[l] > 0)
    BY <1>0, <2>1 DEF UploadProgress, UploadDone
  <2>3. QED
    BY <1>0, <2>1, <2>2
<1>5. CASE Confirm(r)
  <2>1. pc[r] = "confirm" /\ pc'[r] = "done"
    BY <1>0, <1>5 DEF Confirm, Step
  <2>2. matches[l] > 0 /\ (Weak(l) => differences[l] > 0)
    BY <1>0, <2>1 DEF UploadProgress, UploadDone
  <2>3. QED
    BY <1>0, <2>1, <2>2
<1>6. QED
  BY <1>1, <1>2, <1>3, <1>4, <1>5 DEF RunStep

LEMMA NextUploadProgress ==
    ASSUME TypeOK, QueuedOnce, UploadProgress, [Next]_vars
    PROVE  UploadProgress'
<1>0. "upload" \in Runs
  BY RunsNamed
<1>1. CASE Outside
  <2>1. pc'["upload"] = pc["upload"] \/ pc'["upload"] = "queued"
    BY <1>0, <1>1, OutsideStep
  <2>2. UNCHANGED <<rows, matches, differences, todo>>
    BY <1>1, OutsideStep
  <2>3. CASE pc'["upload"] = pc["upload"]
    BY <2>2, <2>3 DEF UploadProgress, UploadDone
  <2>4. CASE pc'["upload"] = "queued"
    BY <2>4 DEF UploadProgress, UploadDone
  <2>5. QED
    BY <2>1, <2>3, <2>4
<1>2. CASE Delete
  BY <1>2 DEF Delete, UploadProgress, UploadDone
<1>3. ASSUME NEW l \in Lines, ParseLine(l)
      PROVE  UploadProgress'
  <2>1. pc'["upload"] = "none"
    BY <1>3 DEF ParseLine, QueuedOnce, run
  <2>2. QED
    BY <2>1 DEF UploadProgress, UploadDone
<1>4. ASSUME NEW r \in Runs, RunStep(r)
      PROVE  UploadProgress'
  <2>1. CASE r = "upload"
    BY <1>4, <2>1, UploadRunStep
  <2>2. CASE r # "upload"
    <3>1. /\ UNCHANGED <<rows, matches, differences>>
          /\ pc'["upload"] = pc["upload"] /\ todo'["upload"] = todo["upload"]
      BY <1>0, <1>4, <2>2, RunStepAlone
    <3>2. QED
      BY <3>1 DEF UploadProgress, UploadDone
  <2>3. QED
    BY <2>1, <2>2
<1>5. ASSUME NEW r \in Runs, NEW l \in Lines, Match(r, l) \/ Flag(r, l)
      PROVE  UploadProgress'
  <2>1. UNCHANGED <<rows, pc>>
    BY <1>5 DEF Match, Flag
  <2>2. \A k \in Lines :
           /\ matches'[k] \in Nat /\ differences'[k] \in Nat
           /\ matches'[k] >= matches[k] /\ differences'[k] >= differences[k]
           /\ k # l => todo'["upload"][k] = todo["upload"][k]
           /\ r # "upload" => todo'["upload"][k] = todo["upload"][k]
    BY <1>0, <1>5, VisitTyped DEF Match, Flag, TypeOK
  <2>3. CASE Match(r, l)
    <3>1. matches'[l] > 0 /\ pc[r] = "matching"
      BY <2>3 DEF Match, TypeOK
    <3>2. ASSUME NEW k \in rows
          PROVE  UploadDone(k)'
      <4>1. CASE r = "upload" /\ k = l
        BY <2>1, <2>2, <3>1, <4>1 DEF UploadProgress, UploadDone, TypeOK
      <4>2. CASE r # "upload" \/ k # l
        <5>1. todo'["upload"][k] = todo["upload"][k]
          BY <2>2, <4>2 DEF TypeOK
        <5>2. UploadDone(k)
          BY DEF UploadProgress, UploadDone
        <5>3. QED
          BY <2>1, <2>2, <5>1, <5>2 DEF UploadDone, TypeOK
      <4>3. QED
        BY <4>1, <4>2
    <3>3. QED
      BY <2>1, <3>2 DEF UploadProgress, UploadDone
  <2>4. CASE Flag(r, l)
    <3>1. differences'[l] > 0 /\ pc[r] = "flagging"
      BY <2>4 DEF Flag, TypeOK
    <3>2. ASSUME NEW k \in rows
          PROVE  UploadDone(k)'
      <4>1. CASE r = "upload" /\ k = l
        BY <2>1, <2>2, <3>1, <4>1 DEF UploadProgress, UploadDone, TypeOK
      <4>2. CASE r # "upload" \/ k # l
        <5>1. todo'["upload"][k] = todo["upload"][k]
          BY <2>2, <4>2 DEF TypeOK
        <5>2. UploadDone(k)
          BY DEF UploadProgress, UploadDone
        <5>3. QED
          BY <2>1, <2>2, <5>1, <5>2 DEF UploadDone, TypeOK
      <4>3. QED
        BY <4>1, <4>2
    <3>3. QED
      BY <2>1, <3>2 DEF UploadProgress, UploadDone
  <2>5. QED
    BY <1>5, <2>3, <2>4
<1>6. CASE UNCHANGED vars
  BY <1>6 DEF vars, results, run, UploadProgress, UploadDone
<1>7. QED
  BY <1>1, <1>2, <1>3, <1>4, <1>5, <1>6, NextSplit

-----------------------------------------------------------------------------
(* Flags                                                                     *)

\* Products grow with their factors.
LEMMA ProductMonotone ==
    ASSUME NEW a \in Nat, NEW b \in Nat, NEW c \in Nat, NEW d \in Nat, a <= c, b <= d
    PROVE  /\ a * b \in Nat /\ c * d \in Nat
           /\ a * b <= c * d
<1>1. a * b <= a * d
  <2>1. PICK k \in Nat : d = b + k
    BY d - b \in Nat
  <2>2. a * d = a * b + a * k /\ a * k \in Nat
    BY <2>1
  <2>3. QED
    BY <2>2
<1>2. a * d <= c * d
  <2>1. PICK k \in Nat : c = a + k
    BY c - a \in Nat
  <2>2. c * d = a * d + k * d /\ k * d \in Nat
    BY <2>1
  <2>3. QED
    BY <2>2
<1>3. a * b \in Nat /\ a * d \in Nat /\ c * d \in Nat
  OBVIOUS
<1>4. QED
  BY <1>1, <1>2, <1>3

\* What is due is due in the loop of a run that flags.
LEMMA DueElement ==
    ASSUME NEW l \in Lines, NEW x
    PROVE  /\ x \in Due(l) <=>
                \E r \in Runs : \E i \in 1..todo[r][l] : pc[r] = "flagging" /\ x = <<r, i>>
           /\ x \in Due(l)' <=>
                \E r \in Runs : \E i \in 1..todo'[r][l] : pc'[r] = "flagging" /\ x = <<r, i>>
BY DEF Due

LEMMA DueShrinks ==
    ASSUME TypeOK, TypeOK', NEW l \in Lines,
           \A r \in Runs : pc'[r] = "flagging" => pc[r] = "flagging" /\ todo'[r][l] <= todo[r][l]
    PROVE  Due(l)' \subseteq Due(l)
<1> SUFFICES ASSUME NEW x \in Due(l)' PROVE x \in Due(l)
  OBVIOUS
<1>1. PICK r \in Runs : \E i \in 1..todo'[r][l] : pc'[r] = "flagging" /\ x = <<r, i>>
  BY DueElement
<1>2. todo'[r][l] \in Nat /\ todo[r][l] \in Nat
  BY DEF TypeOK
<1>3. QED
  BY <1>1, <1>2, DueElement

\* Nothing more is due, and there is no difference more for it.
LEMMA BoundStays ==
    ASSUME TypeOK, TypeOK', IsFiniteSet(Flaggers), IsFiniteSet(Flaggers'), NEW l \in Lines,
           FlagsBounded(l), l \in rows' => l \in rows,
           Flaggers \subseteq Flaggers', Due(l)' \subseteq Due(l),
           matches'[l] >= matches[l], differences'[l] = differences[l]
    PROVE  FlagsBounded(l)'
<1>1. /\ Cardinality(Flaggers) \in Nat /\ Cardinality(Flaggers') \in Nat
      /\ Cardinality(Flaggers) <= Cardinality(Flaggers')
  BY FS_CardinalityType, FS_Subset
<1>2. /\ IsFiniteSet(Due(l)')
      /\ Cardinality(Due(l)) \in Nat /\ Cardinality(Due(l)') \in Nat
      /\ Cardinality(Due(l)') <= Cardinality(Due(l))
  BY FS_CardinalityType, FS_Subset DEF FlagsBounded
<1>3. matches[l] \in Nat /\ matches'[l] \in Nat /\ differences[l] \in Nat
  BY DEF TypeOK
<1>4. /\ matches[l] * Cardinality(Flaggers) \in Nat
      /\ matches'[l] * Cardinality(Flaggers') \in Nat
      /\ matches[l] * Cardinality(Flaggers) <= matches'[l] * Cardinality(Flaggers')
  BY <1>1, <1>3, ProductMonotone
<1>5. QED
  BY <1>2, <1>3, <1>4 DEF FlagsBounded

\* A set that gained at most m pairs.
LEMMA CountGrows ==
    ASSUME NEW D, IsFiniteSet(D), NEW r, NEW m \in Nat, NEW E, E \subseteq D \cup {r} \X (1..m)
    PROVE  /\ IsFiniteSet(E)
           /\ Cardinality(E) \in Nat /\ Cardinality(D) \in Nat
           /\ Cardinality(E) <= Cardinality(D) + m
<1>1. IsFiniteSet({r} \X (1..m)) /\ Cardinality({r} \X (1..m)) = m
  <2>1. IsFiniteSet(1..m) /\ Cardinality(1..m) = m
    <3>1. /\ IsFiniteSet(1..m)
          /\ Cardinality(1..m) = IF 1 > m THEN 0 ELSE m - 1 + 1
      BY FS_Interval, 1 \in Int, m \in Int
    <3>2. QED
      BY <3>1
  <2>2. IsFiniteSet({r}) /\ Cardinality({r}) = 1
    BY FS_Singleton
  <2>3. IsFiniteSet({r} \X (1..m)) /\ Cardinality({r} \X (1..m)) = 1 * m
    <3> DEFINE S == {r}
               T == 1..m
    <3>1. IsFiniteSet(S) /\ Cardinality(S) = 1 /\ IsFiniteSet(T) /\ Cardinality(T) = m
      BY <2>1, <2>2
    <3> HIDE DEF S, T
    <3>2. IsFiniteSet(S \X T) /\ Cardinality(S \X T) = 1 * m
      BY <3>1, FS_Product
    <3>3. QED
      BY <3>2 DEF S, T
  <2>4. QED
    BY <2>3
<1> DEFINE P == {r} \X (1..m)
<1>2. IsFiniteSet(P) /\ Cardinality(P) = m /\ E \subseteq D \cup P
  BY <1>1
<1> HIDE DEF P
<1>3. /\ IsFiniteSet(D \cup P)
      /\ IsFiniteSet(D \cap P)
      /\ Cardinality(D \cup P) = Cardinality(D) + Cardinality(P) - Cardinality(D \cap P)
  BY <1>2, FS_Union, FS_Intersection
<1>4. /\ Cardinality(D \cap P) \in Nat /\ Cardinality(D) \in Nat
      /\ Cardinality(D \cup P) \in Nat
  BY <1>3, FS_CardinalityType
<1>5. IsFiniteSet(E) /\ Cardinality(E) \in Nat /\ Cardinality(E) <= Cardinality(D \cup P)
  BY <1>2, <1>3, FS_Subset, FS_CardinalityType
<1>6. QED
  BY <1>2, <1>3, <1>4, <1>5

\* A run that reads the unmatched rows becomes one of those that flag, and owes
\* a difference for each match there is.
LEMMA BoundGrows ==
    ASSUME TypeOK, TypeOK', IsFiniteSet(Flaggers), NEW r \in Runs, NEW l \in Lines,
           FlagsBounded(l), l \in rows' => l \in rows,
           r \notin Flaggers, Flaggers' = Flaggers \cup {r},
           Due(l)' \subseteq Due(l) \cup {r} \X (1..matches[l]),
           matches'[l] = matches[l], differences'[l] = differences[l]
    PROVE  FlagsBounded(l)'
<1>1. /\ Cardinality(Flaggers) \in Nat
      /\ Cardinality(Flaggers') = Cardinality(Flaggers) + 1
  BY FS_CardinalityType, FS_AddElement
<1>2. matches[l] \in Nat /\ differences[l] \in Nat
  BY DEF TypeOK
<1>3. /\ IsFiniteSet(Due(l)')
      /\ Cardinality(Due(l)') \in Nat
      /\ Cardinality(Due(l)') <= Cardinality(Due(l)) + matches[l]
      /\ Cardinality(Due(l)) \in Nat
  <2>1. IsFiniteSet(Due(l))
    BY DEF FlagsBounded
  <2>2. QED
    BY <1>2, <2>1, CountGrows
<1>4. /\ matches[l] * Cardinality(Flaggers) \in Nat
      /\ matches[l] * Cardinality(Flaggers') = matches[l] * Cardinality(Flaggers) + matches[l]
  BY <1>1, <1>2
<1>5. QED
  BY <1>2, <1>3, <1>4 DEF FlagsBounded

\* What ended, or flags, ends.
LEMMA RunStepEnd ==
    ASSUME TypeOK, NEW r \in Runs, RunStep(r), pc[r] \in {"flagging", "confirm", "done", "failed"}
    PROVE  pc'[r] \in {"confirm", "done", "failed"}
BY DEF RunStep, Request, Fetch, StartTask, Begin, LoadRows, VisitFails, LoadUnmatched, Complete,
   Confirm, Crash, Get, Step, TypeOK

\* What such a step leaves in the loop of its run, and how a run comes to flag.
LEMMA RunStepLoop ==
    ASSUME TypeOK, NEW r \in Runs, RunStep(r), NEW l \in Lines
    PROVE  /\ \/ todo'[r][l] \in {todo[r][l], 0}
              \/ (todo'[r][l] = 1 /\ l \in rows)
              \/ todo'[r][l] = Unmatched(l)
           /\ pc'[r] = "flagging" => pc[r] = "matching" /\ todo'[r][l] = Unmatched(l)
<1> USE DEF TypeOK, run
<1>1. CASE \/ Request(r) \/ Fetch(r) \/ StartTask(r) \/ Begin(r) \/ Complete(r) \/ Confirm(r)
  <2>1. todo'[r][l] = todo[r][l]
    BY <1>1 DEF Request, Fetch, StartTask, Begin, Complete, Confirm, SetStatus
  <2>2. pc'[r] # "flagging"
    BY <1>1 DEF Request, Fetch, StartTask, Begin, Complete, Confirm, Get, Step
  <2>3. QED
    BY <2>1, <2>2
<1>2. CASE VisitFails(r) \/ Crash(r)
  <2>1. todo'[r][l] = 0 /\ pc'[r] = "failed"
    BY <1>2 DEF VisitFails, Crash, Drop, Nothing, Step
  <2>2. QED
    BY <2>1
<1>3. CASE LoadRows(r)
  <2>1. /\ pc[r] = "load" /\ pc'[r] \in {"matching", "failed"}
        /\ todo'[r][l] = IF l \in rows THEN 1 ELSE 0
    BY <1>3 DEF LoadRows, Get, Step
  <2>2. QED
    BY <2>1
<1>4. CASE LoadUnmatched(r)
  <2>1. pc[r] = "matching" /\ todo'[r][l] = Unmatched(l)
    BY <1>4 DEF LoadUnmatched, Get, Step
  <2>2. QED
    BY <2>1
<1>5. QED
  BY <1>1, <1>2, <1>3, <1>4 DEF RunStep

LEMMA NextResultsPlaced ==
    ASSUME TypeOK, QueuedOnce, Next, NEW l \in Lines, ResultsPlaced(l)
    PROVE  ResultsPlaced(l)'
<1> USE DEF ResultsPlaced
<1>1. CASE Outside
  <2>1. /\ UNCHANGED <<rows, matches, differences, todo>>
        /\ unparsed' \subseteq unparsed
        /\ \A r \in Runs : pc'[r] = "flagging" => pc[r] = "flagging"
    BY <1>1, OutsideStep
  <2>2. QED
    BY <2>1
<1>2. CASE Delete
  BY <1>2 DEF Delete, Nothing, run
<1>3. ASSUME NEW k \in Lines, ParseLine(k)
      PROVE  ResultsPlaced(l)'
  BY <1>3 DEF ParseLine, results, run
<1>4. ASSUME NEW r \in Runs, RunStep(r)
      PROVE  ResultsPlaced(l)'
  <2>1. /\ UNCHANGED <<rows, matches, differences, unparsed>>
        /\ \A q \in Runs \ {r} : pc'[q] = pc[q] /\ todo'[q] = todo[q]
    BY <1>4, RunStepAlone
  <2>2. l \in unparsed => todo'[r][l] = 0
    BY <1>4, RunStepLoop DEF Unmatched
  <2>3. pc'[r] = "flagging" /\ todo'[r][l] > 0 => Weak(l)
    BY <1>4, RunStepLoop DEF Unmatched
  <2>4. QED
    BY <2>1, <2>2, <2>3
<1>5. ASSUME NEW r \in Runs, NEW k \in Lines, Match(r, k) \/ Flag(r, k)
      PROVE  ResultsPlaced(l)'
  <2>1. /\ UNCHANGED <<rows, unparsed, pc>>
        /\ k \in rows /\ Visit(r, k)
        /\ l # k => matches'[l] = matches[l] /\ differences'[l] = differences[l]
    BY <1>5 DEF Match, Flag, TypeOK
  <2>2. \A q \in Runs :
           /\ todo[q][l] = 0 => todo'[q][l] = 0 \/ k = l
           /\ todo'[q][l] > 0 => todo[q][l] > 0
    BY <2>1, VisitTyped DEF TypeOK
  <2>3. differences'[l] > 0 => differences[l] > 0 \/ (l = k /\ pc[r] = "flagging" /\ todo[r][k] > 0)
    BY <1>5, <2>1 DEF Match, Flag, Visit, TypeOK
  <2>4. QED
    BY <2>1, <2>2, <2>3
<1>6. QED
  BY <1>1, <1>2, <1>3, <1>4, <1>5, NextSplit

\* Every run that flags, or did, still counts, and only runs count newly.
LEMMA FlaggersKept ==
    ASSUME TypeOK, QueuedOnce,
           \/ Outside
           \/ Delete
           \/ \E l \in Lines : ParseLine(l)
           \/ \E r \in Runs, l \in Lines : Match(r, l) \/ Flag(r, l)
    PROVE  Flaggers' = Flaggers
<1>1. CASE Outside
  BY <1>1, OutsideStep DEF Flaggers
<1>2. CASE ~Outside
  BY <1>2 DEF Delete, ParseLine, Match, Flag, run, Flaggers
<1>3. QED
  BY <1>1, <1>2

LEMMA FlaggersGrow ==
    ASSUME TypeOK, NEW r \in Runs, RunStep(r), IsFiniteSet(Flaggers)
    PROVE  /\ Flaggers \subseteq Flaggers'
           /\ Flaggers' \subseteq Flaggers \cup {r}
           /\ IsFiniteSet(Flaggers')
<1>1. \A q \in Runs \ {r} : pc'[q] = pc[q]
  BY RunStepAlone
<1>2. r \in Flaggers => r \in Flaggers'
  BY RunStepEnd DEF Flaggers
<1>3. Flaggers \subseteq Flaggers' /\ Flaggers' \subseteq Flaggers \cup {r}
  BY <1>1, <1>2 DEF Flaggers
<1>4. IsFiniteSet(Flaggers \cup {r})
  BY FS_AddElement
<1>5. QED
  BY <1>3, <1>4, FS_Subset

\* What the run of such a step owes then.
LEMMA RunStepBound ==
    ASSUME TypeOK, TypeOK', FlagsCovered, IsFiniteSet(Flaggers'),
           NEW r \in Runs, RunStep(r), NEW l \in Lines
    PROVE  FlagsBounded(l)'
<1>1. /\ UNCHANGED <<rows, matches, differences>>
      /\ \A q \in Runs \ {r} : pc'[q] = pc[q] /\ todo'[q] = todo[q]
  BY RunStepAlone
<1>2. /\ IsFiniteSet(Flaggers) /\ FlagsBounded(l)
      /\ Flaggers \subseteq Flaggers' /\ Flaggers' \subseteq Flaggers \cup {r}
  BY FlaggersGrow DEF FlagsCovered
<1>3. /\ matches[l] \in Nat /\ matches'[l] = matches[l] /\ differences'[l] = differences[l]
      /\ \A q \in Runs : todo[q][l] \in Nat /\ todo'[q][l] \in Nat
  BY <1>1 DEF TypeOK
<1>4. CASE pc'[r] # "flagging"
  <2>1. Due(l)' \subseteq Due(l)
    BY <1>1, <1>3, <1>4, DueShrinks
  <2>2. QED
    BY <1>1, <1>2, <1>3, <2>1, BoundStays
<1>5. CASE pc'[r] = "flagging"
  <2>1. pc[r] = "matching" /\ todo'[r][l] = Unmatched(l)
    BY <1>5, RunStepLoop
  <2>2. r \notin Flaggers /\ Flaggers' = Flaggers \cup {r}
    BY <1>2, <1>5, <2>1 DEF Flaggers
  <2>3. Due(l)' \subseteq Due(l) \cup {r} \X (1..matches[l])
    <3> SUFFICES ASSUME NEW x \in Due(l)'
                 PROVE  x \in Due(l) \cup {r} \X (1..matches[l])
      OBVIOUS
    <3>1. PICK q \in Runs : \E i \in 1..todo'[q][l] : pc'[q] = "flagging" /\ x = <<q, i>>
      BY DueElement
    <3>2. CASE q = r
      BY <1>3, <2>1, <3>1, <3>2 DEF Unmatched
    <3>3. CASE q # r
      <4>1. x \in Due(l)
        BY <1>1, <3>1, <3>3, DueElement
      <4>2. QED
        BY <4>1
    <3>4. QED
      BY <3>2, <3>3
  <2>4. QED
    BY <1>1, <1>2, <1>3, <2>2, <2>3, BoundGrows
<1>6. QED
  BY <1>4, <1>5

\* A run that flags makes a difference that was due.
LEMMA FlagBound ==
    ASSUME TypeOK, TypeOK', QueuedOnce, FlagsCovered, NEW r \in Runs, NEW k \in Lines, Flag(r, k),
           NEW l \in Lines
    PROVE  FlagsBounded(l)'
<1>1. /\ UNCHANGED <<rows, matches, pc>>
      /\ pc[r] = "flagging" /\ k \in rows /\ Visit(r, k) /\ todo[r][k] > 0
      /\ differences'[k] = differences[k] + 1
      /\ l # k => differences'[l] = differences[l]
  BY DEF Flag, Visit, TypeOK
<1>2. /\ todo'[r][k] = todo[r][k] - 1
      /\ \A j \in Lines \ {k} : todo'[r][j] = todo[r][j]
      /\ \A q \in Runs \ {r} : todo'[q] = todo[q]
  BY <1>1, VisitTyped
<1>3. Flaggers' = Flaggers /\ IsFiniteSet(Flaggers) /\ FlagsBounded(l)
  BY FlaggersKept DEF FlagsCovered
<1>4. \A q \in Runs : todo[q][l] \in Nat /\ todo'[q][l] \in Nat
  BY DEF TypeOK
<1>5. Due(l)' \subseteq Due(l)
  <2>1. \A q \in Runs : todo'[q][l] <= todo[q][l]
    BY <1>2, <1>4
  <2>2. QED
    BY <1>1, <2>1, DueShrinks
<1>6. CASE l # k
  BY <1>1, <1>3, <1>5, <1>6, BoundStays DEF TypeOK
<1>7. CASE l = k
  <2> DEFINE x == <<r, todo[r][l]>>
  <2>1. x \in Due(l)
    BY <1>1, <1>4, <1>7, DueElement
  <2>2. x \notin Due(l)'
    <3> SUFFICES ASSUME x \in Due(l)' PROVE FALSE
      OBVIOUS
    <3>1. PICK q \in Runs : \E i \in 1..todo'[q][l] : pc'[q] = "flagging" /\ x = <<q, i>>
      BY DueElement
    <3>2. PICK i \in 1..todo'[q][l] : x = <<q, i>>
      BY <3>1
    <3>3. q = r /\ i = todo[r][l]
      BY <3>2
    <3>4. QED
      BY <1>2, <1>4, <1>7, <3>2, <3>3
  <2> HIDE DEF x
  <2>3. /\ IsFiniteSet(Due(l) \ {x})
        /\ Cardinality(Due(l) \ {x}) = Cardinality(Due(l)) - 1
        /\ Due(l)' \subseteq Due(l) \ {x}
    BY <1>3, <1>5, <2>1, <2>2, FS_RemoveElement DEF FlagsBounded
  <2>4. /\ IsFiniteSet(Due(l)')
        /\ Cardinality(Due(l)') <= Cardinality(Due(l)) - 1
    BY <2>3, FS_Subset
  <2>5. /\ Cardinality(Due(l)) \in Nat /\ Cardinality(Due(l)') \in Nat
        /\ Cardinality(Flaggers) \in Nat
        /\ matches[l] \in Nat /\ differences[l] \in Nat
    BY <1>3, <2>4, FS_CardinalityType DEF FlagsBounded, TypeOK
  <2>6. matches'[l] * Cardinality(Flaggers') = matches[l] * Cardinality(Flaggers)
        /\ matches[l] * Cardinality(Flaggers) \in Nat
    BY <1>1, <1>3, <2>5
  <2>7. QED
    BY <1>1, <1>3, <1>7, <2>4, <2>5, <2>6 DEF FlagsBounded
<1>8. QED
  BY <1>6, <1>7

LEMMA NextFlagsCovered ==
    ASSUME TypeOK, TypeOK', QueuedOnce, FlagsCovered, [Next]_vars
    PROVE  FlagsCovered'
<1>1. CASE UNCHANGED vars
  BY <1>1 DEF vars, results, run, FlagsCovered, Flaggers, ResultsPlaced, FlagsBounded, Due
<1>2. CASE Next
  <2>1. IsFiniteSet(Flaggers) /\ \A l \in Lines : ResultsPlaced(l) /\ FlagsBounded(l)
    BY DEF FlagsCovered
  <2>2. IsFiniteSet(Flaggers')
    BY <1>2, <2>1, FlaggersKept, FlaggersGrow, NextSplit
  <2>3. ASSUME NEW l \in Lines
        PROVE  ResultsPlaced(l)' /\ FlagsBounded(l)'
    <3>1. ResultsPlaced(l)'
      BY <1>2, <2>1, NextResultsPlaced
    <3>2. FlagsBounded(l)
      BY <2>1
    <3>3. CASE Outside
      <4>1. /\ UNCHANGED <<rows, matches, differences, todo>>
            /\ \A r \in Runs : pc'[r] = "flagging" => pc[r] = "flagging"
        BY <3>3, OutsideStep
      <4>2. matches[l] \in Nat /\ \A r \in Runs : todo[r][l] \in Nat
        BY DEF TypeOK
      <4>3. Due(l)' \subseteq Due(l)
        BY <4>1, <4>2, DueShrinks
      <4>4. Flaggers' = Flaggers
        BY <3>3, FlaggersKept
      <4>5. QED
        BY <2>1, <2>2, <3>1, <3>2, <4>1, <4>2, <4>3, <4>4, BoundStays
    <3>4. CASE Delete
      <4>1. rows' = {} /\ Due(l)' = Due(l)
        BY <3>4 DEF Delete, run, Due
      <4>2. QED
        BY <3>1, <3>2, <4>1 DEF FlagsBounded
    <3>5. ASSUME NEW k \in Lines, ParseLine(k)
          PROVE  FlagsBounded(l)'
      <4>1. /\ rows' = rows \cup {k} /\ k \in unparsed
            /\ UNCHANGED <<matches, differences, todo, pc>>
        BY <3>5 DEF ParseLine, results, run
      <4>2. Flaggers' = Flaggers /\ Due(l)' = Due(l)
        BY <4>1 DEF Flaggers, Due
      <4>3. CASE l # k
        BY <3>2, <4>1, <4>2, <4>3 DEF FlagsBounded
      <4>4. CASE l = k
        <5>1. matches[l] = 0 /\ differences[l] = 0 /\ \A r \in Runs : todo[r][l] = 0
          BY <2>1, <4>1, <4>4 DEF ResultsPlaced
        <5>2. Due(l) = {}
          BY <5>1, DueElement
        <5>3. Cardinality(Due(l)') = 0 /\ Cardinality(Flaggers') \in Nat
          BY <2>2, <4>2, <5>2, FS_EmptySet, FS_CardinalityType
        <5>4. matches'[l] * Cardinality(Flaggers') = 0
          BY <4>1, <5>1, <5>3
        <5>5. QED
          BY <3>2, <4>1, <4>2, <5>1, <5>3, <5>4 DEF FlagsBounded
      <4>5. QED
        BY <4>3, <4>4
    <3>6. ASSUME NEW r \in Runs, RunStep(r)
          PROVE  FlagsBounded(l)'
      BY <2>2, <3>6, RunStepBound
    <3>7. ASSUME NEW r \in Runs, NEW k \in Lines, Flag(r, k)
          PROVE  FlagsBounded(l)'
      BY <3>7, FlagBound
    <3>8. ASSUME NEW r \in Runs, NEW k \in Lines, Match(r, k)
          PROVE  FlagsBounded(l)'
      <4>1. /\ UNCHANGED <<rows, differences, pc>> /\ pc[r] = "matching" /\ Visit(r, k)
            /\ matches[l] \in Nat /\ matches'[l] >= matches[l]
            /\ \A q \in Runs : todo[q][l] \in Nat
        BY <3>8 DEF Match, TypeOK
      <4>2. \A q \in Runs \ {r} : todo'[q] = todo[q]
        BY <4>1, VisitTyped
      <4>3. Due(l)' \subseteq Due(l)
        BY <4>1, <4>2, DueShrinks
      <4>4. Flaggers' = Flaggers
        BY <3>8, FlaggersKept
      <4>5. QED
        BY <2>1, <2>2, <3>2, <4>1, <4>3, <4>4, BoundStays
    <3>9. QED
      BY <1>2, <3>1, <3>3, <3>4, <3>5, <3>6, <3>7, <3>8, NextSplit
  <2>4. QED
    BY <2>2, <2>3 DEF FlagsCovered
<1>3. QED
  BY <1>1, <1>2

-----------------------------------------------------------------------------
(* The status                                                                *)

\* While no form is saved, who writes the status.
LEMMA StatusStep ==
    ASSUME TypeOK, Next, status' # status, ~edited'
    PROVE  \/ /\ status' = "uploaded"
              /\ pc' = [r \in Runs |-> IF r = "signal" THEN "queued" ELSE pc[r]]
           \/ /\ status' = "processing"
              /\ \E r \in Runs : pc'[r] \in {"begin", "load"}
           \/ status' = "completed"
           \/ status' = "absent" /\ deleted'
<1> USE DEF results, run, writes
<1>1. CASE Outside
  <2>1. Save \/ AdminAdd
    BY <1>1 DEF Outside, UploadFails, Uploaded, EditRead, EditSave, Resolve
  <2>2. QED
    BY <2>1 DEF Save, AdminAdd, Insert, Announced
<1>2. CASE Delete
  BY <1>2 DEF Delete
<1>3. ASSUME NEW r \in Runs, StartTask(r) \/ Begin(r)
      PROVE  status' = "processing" /\ pc'[r] \in {"begin", "load"}
  BY <1>3 DEF StartTask, Begin, SetStatus, Step, TypeOK
<1>4. ASSUME NEW r \in Runs, Complete(r) \/ Confirm(r)
      PROVE  status' = "completed"
  BY <1>4 DEF Complete, Confirm, SetStatus, Completion
<1>5. ASSUME NEW r \in Runs, RunStep(r)
      PROVE  StartTask(r) \/ Begin(r) \/ Complete(r) \/ Confirm(r)
  BY <1>5 DEF RunStep, Request, Fetch, LoadRows, VisitFails, LoadUnmatched, Crash
<1>6. ASSUME NEW l \in Lines, ParseLine(l)
      PROVE  FALSE
  BY <1>6 DEF ParseLine
<1>7. ASSUME NEW r \in Runs, NEW l \in Lines, Match(r, l) \/ Flag(r, l)
      PROVE  FALSE
  BY <1>7 DEF Match, Flag
<1>8. QED
  BY <1>1, <1>2, <1>3, <1>4, <1>5, <1>6, <1>7, NextSplit

\* A status that a form has set stays so, and a deletion stays made.
LEMMA WritesGrow ==
    ASSUME [Next]_vars
    PROVE  (edited => edited') /\ (deleted => deleted')
<1> USE DEF results, run, writes
<1>1. CASE Next
  <2>1. CASE Outside \/ Delete \/ \E l \in Lines : ParseLine(l)
    <3>1. CASE Save \/ AdminAdd
      <4>1. PICK s : edited' = (edited \/ s # "uploaded") /\ deleted' = deleted
        BY <3>1 DEF Save, AdminAdd, Insert
      <4>2. QED
        BY <4>1, Zenon
    <3>2. CASE \/ UploadFails \/ Uploaded \/ EditRead \/ EditSave \/ Delete
               \/ \E l \in Lines : Resolve(l) \/ ParseLine(l)
      BY <3>2 DEF UploadFails, Uploaded, EditRead, EditSave, Resolve, Delete, ParseLine
    <3>3. QED
      BY <2>1, <3>1, <3>2 DEF Outside
  <2>2. CASE \E r \in Runs : RunStep(r)
    BY <2>2 DEF RunStep, Request, Fetch, StartTask, Begin, LoadRows, VisitFails, LoadUnmatched,
       Complete, Confirm, Crash, SetStatus
  <2>3. CASE \E r \in Runs, l \in Lines : Match(r, l) \/ Flag(r, l)
    BY <2>3 DEF Match, Flag
  <2>4. QED
    BY <1>1, <2>1, <2>2, <2>3, NextSplit
<1>2. QED
  BY <1>1 DEF vars

\* The first task begins with a save of the statement in "processing", and a
\* run that stops being under way ends with one in "completed".
LEMMA SignalBegins ==
    ASSUME TypeOK, QueuedOnce, [Next]_vars, pc["signal"] \in {"queued", "taken", "failed"}
    PROVE  pc'["signal"] \in {"queued", "taken", "failed"} \/ status' = "processing"
<1> USE RunsNamed
<1>1. CASE pc'["signal"] = pc["signal"]
  BY <1>1
<1>2. CASE pc'["signal"] # pc["signal"]
  <2>1. \/ pc["signal"] = "queued" /\ pc'["signal"] \in {"taken", "failed"}
        \/ pc["signal"] = "taken" /\ pc'["signal"] \in {"begin", "failed"}
    BY <1>2, PcStep
  <2>2. CASE pc["signal"] = "taken" /\ pc'["signal"] = "begin"
    <3>1. Next
      BY <1>2 DEF vars, run
    <3>2. CASE Outside \/ Delete \/ (\E l \in Lines : ParseLine(l))
               \/ (\E r \in Runs, l \in Lines : Match(r, l) \/ Flag(r, l))
      BY <1>2, <2>2, <3>2, OutsideStep DEF Delete, ParseLine, Match, Flag, run
    <3>3. ASSUME NEW r \in Runs, RunStep(r)
          PROVE  status' = "processing"
      <4>1. r = "signal"
        BY <1>2, <3>3, RunStepAlone
      <4>2. StartTask(r)
        BY <2>2, <3>3, <4>1 DEF RunStep, Request, Fetch, Begin, LoadRows, VisitFails,
           LoadUnmatched, Complete, Confirm, Crash, Get, Step, TypeOK
      <4>3. QED
        BY <4>2 DEF StartTask, SetStatus
    <3>4. QED
      BY <3>1, <3>2, <3>3, NextSplit
  <2>3. QED
    BY <2>1, <2>2
<1>3. QED
  BY <1>1, <1>2

\* Only a deletion takes a statement away, and only its insertion starts the
\* first task.
LEMMA StatusStaysPresent ==
    ASSUME TypeOK, [Next]_vars, status' = "absent", ~deleted'
    PROVE  status = "absent"
<1> SUFFICES ASSUME Next, status' # status PROVE FALSE
  BY DEF vars
<1>1. ~edited' => FALSE
  BY StatusStep
<1>2. ASSUME NEW r \in Runs, RunStep(r)
      PROVE  FALSE
  BY <1>2 DEF RunStep, Request, Fetch, StartTask, Begin, LoadRows, VisitFails, LoadUnmatched,
     Complete, Confirm, Crash, SetStatus, Completion
<1>3. ~EditSave
  BY DEF EditSave, TypeOK, Status
<1>4. ~Save /\ ~AdminAdd /\ ~Delete
  BY DEF Save, AdminAdd, Insert, Delete
<1>5. QED
  BY <1>2, <1>3, <1>4, NextSplit DEF Outside, UploadFails, Uploaded, EditRead, Resolve, ParseLine,
     Match, Flag

LEMMA SignalAnnounced ==
    ASSUME TypeOK, [Next]_vars, pc["signal"] = "none", status' = "absent"
    PROVE  pc'["signal"] = "none"
<1>0. "signal" \in Runs /\ "signal" \notin Settles
  BY RunsNamed
<1>1. CASE Save \/ AdminAdd
  <2>1. status' \in Status
    BY <1>1 DEF Save, AdminAdd, Insert, Status
  <2>2. QED
    BY <2>1 DEF Status
<1>2. CASE Uploaded \/ EditSave
  BY <1>0, <1>2 DEF Uploaded, EditSave, TypeOK
<1>3. CASE \/ UploadFails \/ EditRead \/ Delete \/ UNCHANGED vars
           \/ \E l \in Lines : Resolve(l)
           \/ \E l \in Lines : ParseLine(l)
           \/ \E r \in Runs, l \in Lines : Match(r, l) \/ Flag(r, l)
  BY <1>3 DEF UploadFails, EditRead, Delete, ParseLine, Resolve, Match, Flag, vars, run
<1>4. ASSUME NEW r \in Runs, RunStep(r)
      PROVE  pc'["signal"] = "none"
  <2>1. CASE r # "signal"
    BY <1>0, <1>4, <2>1, RunStepAlone
  <2>2. CASE r = "signal"
    BY <1>0, <1>4, <2>2 DEF RunStep, Request, Fetch, StartTask, Begin, LoadRows, VisitFails,
       LoadUnmatched, Complete, Confirm, Crash, Get, Step, Over
  <2>3. QED
    BY <2>1, <2>2
<1>5. QED
  BY <1>1, <1>2, <1>3, <1>4, NextSplit DEF Outside

\* The states of a run in which the status says "processing" of it.
UnderWay == {"begin", "found", "load", "matching", "flagging", "failed"}

LEMMA UnderWayEnds ==
    ASSUME TypeOK, QueuedOnce, [Next]_vars, NEW r \in Runs, pc[r] \in UnderWay
    PROVE  pc'[r] \in UnderWay \/ status' = "completed"
<1>1. CASE pc'[r] = pc[r]
  BY <1>1
<1>2. CASE pc'[r] # pc[r] /\ pc'[r] \notin UnderWay
  <2>1. pc[r] = "flagging" /\ pc'[r] \in {"confirm", "done"}
    BY <1>2, PcStep DEF UnderWay
  <2>2. Next
    BY <1>2 DEF vars, run
  <2>3. CASE Outside \/ Delete \/ (\E l \in Lines : ParseLine(l))
             \/ (\E q \in Runs, l \in Lines : Match(q, l) \/ Flag(q, l))
    BY <1>2, <2>1, <2>3, OutsideStep DEF Delete, ParseLine, Match, Flag, run
  <2>4. ASSUME NEW q \in Runs, RunStep(q)
        PROVE  status' = "completed"
    <3>1. q = r
      BY <1>2, <2>4, RunStepAlone
    <3>2. Complete(r)
      BY <2>1, <2>4, <3>1 DEF RunStep, Request, Fetch, StartTask, Begin, LoadRows, VisitFails,
         LoadUnmatched, Confirm, Crash, Get, Step, TypeOK
    <3>3. QED
      BY <3>2 DEF Complete, SetStatus, Completion
  <2>5. QED
    BY <2>2, <2>3, <2>4, NextSplit
<1>3. QED
  BY <1>1, <1>2

LEMMA NextStatusTrue ==
    ASSUME TypeOK, QueuedOnce, StatusTrue, [Next]_vars
    PROVE  StatusTrue'
<1>0. "signal" \in Runs
  BY RunsNamed
<1>1. status' = "absent" => deleted' \/ pc'["signal"] = "none"
  <2> SUFFICES ASSUME status' = "absent", ~deleted' PROVE pc'["signal"] = "none"
    OBVIOUS
  <2>1. status = "absent"
    BY StatusStaysPresent
  <2>2. ~deleted /\ pc["signal"] = "none"
    BY <2>1, WritesGrow DEF StatusTrue
  <2>3. QED
    BY <2>1, <2>2, SignalAnnounced
<1>2. status' = "uploaded" /\ ~edited' => pc'["signal"] \in {"queued", "taken", "failed"}
  <2>1. CASE status' = status
    BY <2>1, SignalBegins, WritesGrow DEF StatusTrue
  <2>2. CASE status' # status
    <3>1. Next
      BY <2>2 DEF vars
    <3>2. QED
      BY <1>0, <2>2, <3>1, StatusStep
  <2>3. QED
    BY <2>1, <2>2
<1>3. status' = "processing" /\ ~edited' => \E r \in Runs : pc'[r] \in UnderWay
  <2>1. CASE status' = status
    BY <2>1, UnderWayEnds, WritesGrow DEF StatusTrue, UnderWay
  <2>2. CASE status' # status
    <3>1. Next
      BY <2>2 DEF vars
    <3>2. QED
      BY <2>2, <3>1, StatusStep DEF UnderWay
  <2>3. QED
    BY <2>1, <2>2
<1>4. status' = "failed" => edited'
  <2>1. CASE status' = status
    BY <2>1, WritesGrow DEF StatusTrue
  <2>2. CASE status' # status
    <3>1. Next
      BY <2>2 DEF vars
    <3>2. QED
      BY <2>2, <3>1, StatusStep
  <2>3. QED
    BY <2>1, <2>2
<1>5. QED
  BY <1>1, <1>2, <1>3, <1>4 DEF StatusTrue, UnderWay

-----------------------------------------------------------------------------
(* The theorems                                                              *)

LEMMA InitSettlementInv == Init => SettlementInv
<1> SUFFICES ASSUME Init PROVE SettlementInv
  OBVIOUS
<1>1. TypeOK
  BY InitTypeOK
<1>2. \A r \in Runs : pc[r] = "none"
  BY DEF Init
<1>3. QueuedOnce /\ UploadProgress /\ StatusTrue
  BY <1>2, RunsNamed DEF Init, QueuedOnce, UploadProgress, UploadDone, StatusTrue
<1>4. Flaggers = {} /\ \A l \in Lines : Due(l) = {}
  BY <1>2 DEF Flaggers, Due
<1>5. FlagsCovered
  BY <1>2, <1>4, FS_EmptySet DEF Init, Nothing, FlagsCovered, ResultsPlaced, FlagsBounded
<1>6. QED
  BY <1>1, <1>3, <1>5 DEF SettlementInv

LEMMA NextSettlementInv == SettlementInv /\ [Next]_vars => SettlementInv'
<1> SUFFICES ASSUME SettlementInv, [Next]_vars PROVE SettlementInv'
  OBVIOUS
<1>1. TypeOK'
  BY NextTypeOK DEF SettlementInv
<1>2. QueuedOnce' /\ UploadProgress'
  BY NextQueuedOnce, NextUploadProgress DEF SettlementInv
<1>3. FlagsCovered' /\ StatusTrue'
  BY <1>1, NextFlagsCovered, NextStatusTrue DEF SettlementInv
<1>4. QED
  BY <1>1, <1>2, <1>3 DEF SettlementInv

LEMMA SettlementInvariant == Spec => []SettlementInv
BY InitSettlementInv, NextSettlementInv, PTL DEF Spec

\* Every reachable state of the statement, its rows and its runs is well typed.
THEOREM TypeCorrect == Spec => []TypeOK
<1>1. SettlementInv => TypeOK
  BY DEF SettlementInv
<1>2. QED
  BY <1>1, SettlementInvariant, PTL

\* When the task queued by the upload is done, every line of the file that is
\* there has a match and every weak one a difference, for any file, and
\* whatever the other runs, a change form or a deletion did meanwhile.
THEOREM UploadSettles == Spec => []UploadSettlesAll
<1>1. SettlementInv => UploadSettlesAll
  BY DEF SettlementInv, UploadProgress, UploadDone, UploadSettlesAll
<1>2. QED
  BY <1>1, SettlementInvariant, PTL

\* Any number of overlapping runs flag weak lines only, each of them at most
\* once per match there is.
THEOREM FlagsAreBounded == Spec => []OnlyWeakAreFlagged
<1>1. SettlementInv => OnlyWeakAreFlagged
  <2> SUFFICES ASSUME SettlementInv, NEW l \in Lines
               PROVE  /\ differences[l] > 0 => Weak(l)
                      /\ differences[l] <= matches[l] * Cardinality(Flaggers)
    BY DEF OnlyWeakAreFlagged
  <2>1. ResultsPlaced(l) /\ FlagsBounded(l)
    BY DEF SettlementInv, FlagsCovered
  <2>2. /\ Cardinality(Flaggers) \in Nat /\ Cardinality(Due(l)) \in Nat
        /\ matches[l] \in Nat /\ differences[l] \in Nat
    BY <2>1, FS_CardinalityType DEF SettlementInv, FlagsCovered, FlagsBounded, TypeOK
  <2>3. matches[l] * Cardinality(Flaggers) \in Nat
    BY <2>2
  <2>4. QED
    BY <2>1, <2>2, <2>3 DEF ResultsPlaced, FlagsBounded
<1>2. QED
  BY <1>1, SettlementInvariant, PTL

\* When every run has ended well, and no form has set its status, the statement
\* is completed, or it was deleted.
THEOREM QuietCompleted == Spec => []QuietIsCompleted
<1>1. SettlementInv => QuietIsCompleted
  BY RunsNamed DEF SettlementInv, StatusTrue, TypeOK, Status, QuietIsCompleted
<1>2. QED
  BY <1>1, SettlementInvariant, PTL
=============================================================================
