------------------------------- MODULE Refunds -------------------------------
(***************************************************************************)
(* The refunds of one completed transfer.  A refund is requested, approved *)
(* by an administrator, which creates a transfer in the other direction,   *)
(* and processed, which marks both as completed; it is rejected on the     *)
(* form of the admin site only.  The view set also lets administrators     *)
(* save it as it is (PUT) and delete it.                                   *)
(*                                                                         *)
(* Every step reads rows without a lock and saves them later.  approve     *)
(* opens its transaction on "default", where the refunds are; the transfer *)
(* it creates is committed at once in the database of the month.           *)
(*                                                                         *)
(* The search for a transfer asks "default" first, and catches only that   *)
(* the row is not there.  The router keeps the table of the transfers out  *)
(* of "default", so that every search fails; where the databases were      *)
(* migrated without the router (the settings switch it off for tests) the  *)
(* table is there, and the search goes on.                                 *)
(***************************************************************************)
EXTENDS Integers, FiniteSets, SequencesExt

CONSTANTS
    Agents,     \* requests at work at a time
    MaxRefunds, \* bound: refunds that are stored for the transfer
    MaxMoves    \* bound: transfers that are created for refunds

ASSUME RefundsAssumption == MaxRefunds \in Nat /\ MaxMoves \in Nat

VARIABLES
    tables,    \* the databases that hold a table of transfers
    refunds,   \* the Refund rows, by id
    moves,     \* the transfers that were created, by the refund they are for
    agent,     \* what each request does next
    subject,   \* the refund it is about, or 0
    seen,      \* its copy of that row
    muddled    \* two at work on one row, one that failed half-way, or an admin

refundVars == <<tables, refunds, moves, agent, subject, seen, muddled>>

Months     == {"transaction_2026_05", "transaction_2026_06"}
Databases  == {"default"} \cup Months
\* The month of the transfer that is refunded, and of the transfers of refunds.
Month      == "transaction_2026_05"

States     == {"requested", "approved", "rejected", "completed"}
\* A row that was deleted keeps its place in the sequence, as Gone.
Refund     == [status : States \cup {"deleted"}, transfer : Nat]
AgentSteps == {"idle", "requesting", "approving", "linking", "processing",
               "completing", "editing", "deleting"}

RefundsTypeOK ==
    /\ tables \subseteq Databases
    /\ refunds \in Seq(Refund)
    /\ moves \in Seq(Nat)
    /\ agent \in [Agents -> AgentSteps]
    /\ subject \in [Agents -> Nat]
    /\ seen \in [Agents -> Refund]
    /\ muddled \in BOOLEAN

New  == [status |-> "requested", transfer |-> 0]
Gone == [status |-> "deleted", transfer |-> 0]

RefundsInit ==
    /\ tables \in {Months, Databases}
    /\ refunds = <<>>
    /\ moves = <<>>
    /\ agent = [a \in Agents |-> "idle"]
    /\ subject = [a \in Agents |-> 0]
    /\ seen = [a \in Agents |-> New]
    /\ muddled = FALSE

\* Another request is at work on that row (0: one that is to be inserted).
Others(a, i) == \E b \in Agents \ {a} : agent[b] # "idle" /\ subject[b] = i

\* Request a begins, with a copy of the row it is about.
Begin(a, to, i, row) ==
    /\ agent[a] = "idle"
    /\ agent' = [agent EXCEPT ![a] = to]
    /\ subject' = [subject EXCEPT ![a] = i]
    /\ seen' = [seen EXCEPT ![a] = row]
    /\ muddled' = (muddled \/ Others(a, i))

Finish(a) ==
    /\ agent' = [agent EXCEPT ![a] = "idle"]
    /\ subject' = [subject EXCEPT ![a] = 0]
    /\ seen' = [seen EXCEPT ![a] = New]

-----------------------------------------------------------------------------
\* _find_original_transaction, for a transfer in that database: the search ends
\* with an error at the first database without the table.
SearchOrder == <<"default", "transaction_2026_05", "transaction_2026_06">>

Finds(db) ==
    \E i \in DOMAIN SearchOrder :
        /\ SearchOrder[i] = db
        /\ \A j \in 1..i : SearchOrder[j] \in tables

\* Mutant of Free: earlier refunds are not looked for.
FreeAlways == TRUE

\* Refunds that stand in the way of another one.
Standing(row) == row.status \notin {"rejected", "deleted"}

\* Another request is refused unless the earlier ones were rejected.
Free == \A i \in DOMAIN refunds : ~Standing(refunds[i])

\* create_refund_request: the checks ...
RequestRefund(a) ==
    /\ Finds(Month)
    /\ Free
    /\ Begin(a, "requesting", 0, New)
    /\ UNCHANGED <<tables, refunds, moves>>

\* ... and the insert.
CreateRefund(a) ==
    /\ agent[a] = "requesting"
    /\ Len(refunds) < MaxRefunds
    /\ refunds' = Append(refunds, New)
    /\ Finish(a)
    /\ UNCHANGED <<tables, moves, muddled>>

\* An administrator may add a refund on the admin site, which asks nothing.
AddRefund(row) ==
    /\ Len(refunds) < MaxRefunds
    /\ refunds' = Append(refunds, row)
    /\ muddled' = TRUE
    /\ UNCHANGED <<tables, moves, agent, subject, seen>>

-----------------------------------------------------------------------------
\* approve_refund: the refund is read, and the transfer it is about is found.
ApproveRefund(a, i) ==
    /\ refunds[i].status = "requested"
    /\ Finds(Month)
    /\ Begin(a, "approving", i, refunds[i])
    /\ UNCHANGED <<tables, refunds, moves>>

\* The transfer is committed by itself; a signal queues its task.
CreateRefundTransfer(a) ==
    /\ agent[a] = "approving"
    /\ Len(moves) < MaxMoves
    /\ agent' = [agent EXCEPT ![a] = "linking"]
    /\ moves' = Append(moves, subject[a])
    /\ seen' = [seen EXCEPT ![a].status = "approved", ![a].transfer = Len(moves) + 1]
    /\ UNCHANGED <<tables, refunds, subject, muddled>>

\* A save of the whole row, from the copy; it inserts a row that was deleted.
SaveRefund(a) ==
    /\ agent[a] \in {"linking", "completing"}
    /\ refunds' = [refunds EXCEPT ![subject[a]] = seen[a]]
    /\ Finish(a)
    /\ UNCHANGED <<tables, moves, muddled>>

\* process_refund: the status is set in the copy.
ProcessRefund(a, i) ==
    /\ refunds[i].status = "approved"
    /\ Begin(a, "processing", i, [refunds[i] EXCEPT !.status = "completed"])
    /\ UNCHANGED <<tables, refunds, moves>>

\* The transfer of the refund, if it has one, is found and marked as completed,
\* whatever became of its payment.
CompleteTransfer(a) ==
    /\ agent[a] = "processing"
    /\ seen[a].transfer # 0 => Finds(Month)
    /\ agent' = [agent EXCEPT ![a] = "completing"]
    /\ UNCHANGED <<tables, refunds, moves, subject, seen, muddled>>

-----------------------------------------------------------------------------
\* The form of the admin site is opened, and saved with another status; PUT and
\* PATCH read the row, and save it with the status they read: all of the fields
\* of the serializer are read-only.
EditRefund(a, i) ==
    /\ refunds[i] # Gone
    /\ Begin(a, "editing", i, refunds[i])
    /\ UNCHANGED <<tables, refunds, moves>>

SaveEdit(a, s) ==
    /\ agent[a] = "editing"
    /\ refunds' = [refunds EXCEPT ![subject[a]] = [seen[a] EXCEPT !.status = s]]
    /\ muddled' = (muddled \/ s \notin {"rejected", seen[a].status})
    /\ Finish(a)
    /\ UNCHANGED <<tables, moves>>

\* DELETE, in whatever status the refund is.
DeleteRefund(a, i) ==
    /\ refunds[i] # Gone
    /\ Begin(a, "deleting", i, refunds[i])
    /\ UNCHANGED <<tables, refunds, moves>>

RemoveRefund(a) ==
    /\ agent[a] = "deleting"
    /\ refunds' = [refunds EXCEPT ![subject[a]] = Gone]
    /\ muddled' = (muddled \/ seen[a].transfer # 0)
    /\ Finish(a)
    /\ UNCHANGED <<tables, moves>>

\* A request is refused, or a database fails it; a transfer that was created
\* by then stays.
AgentFails(a) ==
    /\ agent[a] # "idle"
    /\ muddled' = (muddled \/ agent[a] = "linking")
    /\ Finish(a)
    /\ UNCHANGED <<tables, refunds, moves>>

RefundsNext ==
    \/ \E a \in Agents :
          \/ RequestRefund(a)
          \/ CreateRefund(a)
          \/ CreateRefundTransfer(a)
          \/ SaveRefund(a)
          \/ CompleteTransfer(a)
          \/ RemoveRefund(a)
          \/ AgentFails(a)
          \/ \E s \in States : SaveEdit(a, s)
          \/ \E i \in DOMAIN refunds :
                \/ ApproveRefund(a, i)
                \/ ProcessRefund(a, i)
                \/ EditRefund(a, i)
                \/ DeleteRefund(a, i)
    \/ \E s \in States : AddRefund([status |-> s, transfer |-> 0])

RefundsSpec == RefundsInit /\ [][RefundsNext]_refundVars

-----------------------------------------------------------------------------
(* Properties                                                                *)

\* Unless two requests overlap that work on one row, or are to insert one, an
\* approval fails between its two databases, an admin sets a status by hand, or
\* a refund that was approved is deleted, a transfer is refunded once: it has at
\* most one refund that stands, each refund at most one transfer, and a
\* completed one its own.  Late saves of other rows do no harm.
RefundedOnce ==
    ~muddled =>
        /\ \A i, j \in DOMAIN refunds :
              Standing(refunds[i]) /\ Standing(refunds[j]) => i = j
        /\ \A t, u \in DOMAIN moves :
              moves[t] = moves[u] => t = u
        /\ \A i \in DOMAIN refunds :
              refunds[i].status = "completed" =>
                  /\ refunds[i].transfer \in DOMAIN moves
                  /\ moves[refunds[i].transfer] = i
=============================================================================
