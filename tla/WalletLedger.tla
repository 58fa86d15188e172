---------------------------- MODULE WalletLedger ----------------------------
(***************************************************************************)
(* What wallet_service promises the rest of the system: an account from    *)
(* which money is first held and then paid.  A hold is granted only if the *)
(* funds that no open hold claims cover it, and each hold is paid at most  *)
(* once.  Each operation is one indivisible step.                          *)
(***************************************************************************)
EXTENDS Integers, FiniteSets

CONSTANTS Wallets, Txns, Bookings, WalletOf, Amount, InitialBalance, NoTxn

VARIABLES
    funds,  \* money in each account
    hold    \* the holds: whose they are and how far they got

ledgerVars == <<funds, hold>>

\* The money that open holds claim from an account, unit by unit.
Claimed(x) ==
    UNION {{b} \X (1..Amount[hold[b].txn]) :
              b \in {o \in Bookings : hold[o].state = "open" /\ WalletOf[hold[o].txn] = x}}

Held(x) == Cardinality(Claimed(x))

Init ==
    /\ funds = InitialBalance
    /\ hold = [b \in Bookings |-> [txn |-> NoTxn, state |-> "none"]]

Grant(b, t) ==
    /\ hold[b].state = "none"
    /\ funds[WalletOf[t]] - Held(WalletOf[t]) >= Amount[t]
    /\ hold' = [hold EXCEPT ![b] = [txn |-> t, state |-> "open"]]
    /\ UNCHANGED funds

Pay(b) ==
    /\ hold[b].state = "open"
    /\ hold' = [hold EXCEPT ![b].state = "committed"]
    /\ funds' = [funds EXCEPT ![WalletOf[hold[b].txn]] = @ - Amount[hold[b].txn]]

Next == \E b \in Bookings : Pay(b) \/ \E t \in Txns : Grant(b, t)

Spec == Init /\ [][Next]_ledgerVars
=============================================================================
