----------------------------- MODULE MCTransfer -----------------------------
(***************************************************************************)
(* Instances of Transfer for TLC.  Both transfers pay from one wallet,     *)
(* which covers t1 twice or t2 once.                                       *)
(***************************************************************************)
EXTENDS Transfer, TLC

CONSTANTS t1, t2, wa

MCWalletOf == [t \in Txns |-> wa]
MCAmount   == [t \in Txns |-> IF t = t2 THEN 2 ELSE 1]
MCHome     == [x \in Wallets |-> "shard_1"]
MCBalance  == [x \in Wallets |-> 2]
MCEnqueued == [t \in Txns |-> IF t = t2 THEN 1 ELSE 2]

\* For runs without liveness: processes, request threads and booking keys are
\* interchangeable.
Symmetry == Permutations(Procs) \cup Permutations(Workers) \cup Permutations(Bookings)
=============================================================================
