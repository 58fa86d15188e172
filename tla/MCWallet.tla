------------------------------ MODULE MCWallet ------------------------------
(***************************************************************************)
(* Instances of Wallet for TLC.  Wallets in shards do not touch each       *)
(* other's rows, so one wallet is in a shard and one is in "default".      *)
(***************************************************************************)
EXTENDS Wallet, TLC

CONSTANTS t1, t2, t3, wa, wd

MCWalletOf == (t1 :> wa) @@ (t2 :> wa) @@ (t3 :> wd)
MCAmount   == (t1 :> 1) @@ (t2 :> 2) @@ (t3 :> 1)
MCHome     == (wa :> "shard_1") @@ (wd :> "default")
MCBalance  == (wa :> 3) @@ (wd :> 2)

\* The service as long as CopiesAlone holds.
AloneSpec == Init /\ [][Next /\ CopiesAlone']_vars

-----------------------------------------------------------------------------
\* A booking that has expired is released again, or paid.
ExpiredIsClosed ==
    \A b \in Bookings : b \in ExpiredOpen ~> b \notin ExpiredOpen
=============================================================================
