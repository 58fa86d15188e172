---------------------------- MODULE MCSettlement ----------------------------
(***************************************************************************)
(* An instance of Settlement for TLC: files of no line, of one that falls  *)
(* short (a negative amount), and of one that is matched and one that      *)
(* cannot be stored.                                                       *)
(***************************************************************************)
EXTENDS Settlement

Line(r, a) == [reference |-> r, amount |-> a, description |-> TRUE]

Strong   == Line("uuid", 5)
Short    == Line("uuid", -5)
Nameless == Line("none", 5)

MCLines == {Strong, Short, Nameless}
MCFiles == {{}, {Short}, {Strong, Nameless}}
=============================================================================
