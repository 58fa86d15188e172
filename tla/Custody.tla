------------------------------- MODULE Custody -------------------------------
(***************************************************************************)
(* The status of one wallet.  The only endpoint that asks for it is        *)
(* check_balance, which transaction_service calls before it creates a      *)
(* transfer; reserve and settle, which come later, do not.  It is set by   *)
(* freeze and unfreeze (for requests that the middleware sends to the      *)
(* shard of the wallet) and by the form of the admin site.                 *)
(*                                                                         *)
(* The form posts every column of the page it was opened with, balance and *)
(* reserved_balance included, and commit_funds saves every column of a row *)
(* it read without a lock: each can undo what the other has done.          *)
(* Amounts are in units of one payment.                                    *)
(***************************************************************************)
EXTENDS Integers

CONSTANTS
    Payments,  \* payments from the wallet
    Admins,    \* pages of the admin site, with the form of the wallet
    Opening    \* its balance at the start

ASSUME CustodyAssumption ==
    /\ Opening \in Nat
    /\ Payments \cap Admins = {}

VARIABLES
    row,       \* the row of the wallet
    holder,    \* who holds the lock on it, as a set
    pay,       \* how far each payment got
    open,      \* the pages that are open
    known,     \* the row as each payment, or page, has read it
    paid,      \* debit rows
    decided,   \* the status an admin saved last
    contended  \* a settlement was under way at that time

custodyVars == <<row, holder, pay, open, known, paid, decided, contended>>

Status    == {"active", "frozen", "suspended"}
WalletRow == [status : Status, balance : Int, reserved : Int]
PayStep   == {"new", "allowed", "refused", "reserving", "reserved", "settling",
              "settled"}

CustodyTypeOK ==
    /\ row \in WalletRow
    /\ holder \subseteq Payments
    /\ pay \in [Payments -> PayStep]
    /\ open \subseteq Admins
    /\ known \in [Payments \cup Admins -> WalletRow]
    /\ paid \in Nat
    /\ decided \in Status
    /\ contended \in BOOLEAN

NewWallet == [status |-> "active", balance |-> Opening, reserved |-> 0]

CustodyInit ==
    /\ row = NewWallet
    /\ holder = {}
    /\ pay = [p \in Payments |-> "new"]
    /\ open = {}
    /\ known = [x \in Payments \cup Admins |-> NewWallet]
    /\ paid = 0
    /\ decided = "active"
    /\ contended = FALSE

Funds(r) == r.balance - r.reserved

Goes(p, from, to) == pay[p] = from /\ pay' = [pay EXCEPT ![p] = to]

\* What a payment, or a page, that is over has read is forgotten.
Read(x)   == known' = [known EXCEPT ![x] = row]
Forget(x) == known' = [known EXCEPT ![x] = NewWallet]

-----------------------------------------------------------------------------
\* EnoughBalancePerm asks check_balance, which finds the wallet by its id in
\* any of the three databases.
Sufficient == row.status = "active" /\ Funds(row) >= 1

Allow(p) ==
    /\ Sufficient
    /\ Goes(p, "new", "allowed")
    /\ UNCHANGED <<row, holder, open, known, paid, decided, contended>>

\* It says no, or does not answer, or the breaker is open.
Refuse(p) ==
    /\ Goes(p, "new", "refused")
    /\ UNCHANGED <<row, holder, open, known, paid, decided, contended>>

\* Mutant of Lock: the row is read without select_for_update.
LockNot(p) == UNCHANGED holder

\* select_for_update
Lock(p) == holder = {} /\ holder' = {p}

\* Mutant of Covers: reserve_funds does not look at the balance.
CoversAlways(r) == TRUE

\* reserve_funds refuses what is not available; the status does not matter.
Covers(r) == Funds(r) >= 1

ReserveRead(p) ==
    /\ Goes(p, "allowed", "reserving")
    /\ Lock(p)
    /\ Read(p)
    /\ UNCHANGED <<row, open, paid, decided, contended>>

ReserveSave(p) ==
    /\ Goes(p, "reserving", "reserved")
    /\ Covers(known[p])
    /\ row' = [known[p] EXCEPT !.reserved = @ + 1]
    /\ holder' = holder \ {p}
    /\ Forget(p)
    /\ UNCHANGED <<open, paid, decided, contended>>

\* The funds are short, or the worker dies: the transaction is rolled back.
ReserveEnds(p) ==
    /\ Goes(p, "reserving", "refused")
    /\ holder' = holder \ {p}
    /\ Forget(p)
    /\ UNCHANGED <<row, open, paid, decided, contended>>

\* commit_funds locks the booking, not the wallet ...
SettleRead(p) ==
    /\ Goes(p, "reserved", "settling")
    /\ Read(p)
    /\ UNCHANGED <<row, holder, open, paid, decided, contended>>

\* ... whose row it saves from its copy, as soon as nobody else locks it.
SettleSave(p) ==
    /\ holder = {}
    /\ Goes(p, "settling", "settled")
    /\ row' = [known[p] EXCEPT !.balance = @ - 1, !.reserved = @ - 1]
    /\ paid' = paid + 1
    /\ Forget(p)
    /\ UNCHANGED <<holder, open, decided, contended>>

\* The worker dies, and the booking stays open for the next call.
SettleEnds(p) ==
    /\ Goes(p, "settling", "reserved")
    /\ Forget(p)
    /\ UNCHANGED <<row, holder, open, paid, decided, contended>>

-----------------------------------------------------------------------------
OpenForm(a) ==
    /\ a \notin open
    /\ open' = open \cup {a}
    /\ Read(a)
    /\ UNCHANGED <<row, holder, pay, paid, decided, contended>>

\* The columns of the page, with the status the admin has chosen.
Posted(a, s) == [known[a] EXCEPT !.status = s]

SaveForm(a, s) ==
    /\ a \in open
    /\ holder = {}
    /\ row' = Posted(a, s)
    /\ decided' = s
    /\ contended' = \E p \in Payments : pay[p] = "settling"
    /\ open' = open \ {a}
    /\ Forget(a)
    /\ UNCHANGED <<holder, pay, paid>>

\* freeze and unfreeze save that column only.  The check that the wallet is not
\* in that status yet was made on an earlier read.
SetStatus(s) ==
    /\ s \in {"active", "frozen"}
    /\ holder = {}
    /\ row' = [row EXCEPT !.status = s]
    /\ decided' = s
    /\ contended' = \E p \in Payments : pay[p] = "settling"
    /\ UNCHANGED <<holder, pay, open, known, paid>>

CloseForm(a) ==
    /\ a \in open
    /\ open' = open \ {a}
    /\ Forget(a)
    /\ UNCHANGED <<row, holder, pay, paid, decided, contended>>

CustodyNext ==
    \/ \E p \in Payments :
          \/ Allow(p)
          \/ Refuse(p)
          \/ ReserveRead(p)
          \/ ReserveSave(p)
          \/ ReserveEnds(p)
          \/ SettleRead(p)
          \/ SettleSave(p)
          \/ SettleEnds(p)
    \/ \E a \in Admins :
          \/ OpenForm(a)
          \/ \E s \in Status : SaveForm(a, s)
          \/ CloseForm(a)
    \/ \E s \in Status : SetStatus(s)

CustodySpec == CustodyInit /\ [][CustodyNext]_custodyVars

-----------------------------------------------------------------------------
(* Properties                                                                *)

\* A status an admin saved while no settlement was under way stays until the
\* next one is saved: reservations, and settlements that begin later, write the
\* whole row and still do not thaw a frozen wallet.
FreezeStays == ~contended => row.status = decided

\* Old pages that are saved, and settlements that save old rows, may hide a
\* payment but never invent one: more is never reserved than there is, and the
\* balance never falls below what the debit rows explain.
NothingIsLost ==
    /\ row.reserved <= row.balance
    /\ row.balance >= Opening - paid
=============================================================================
