---------------------------- MODULE MCEventStore ----------------------------
(***************************************************************************)
(* An instance of EventStore for TLC: payloads that overlap, so that the   *)
(* order in which they are applied matters.                                *)
(***************************************************************************)
EXTENDS EventStore, SequencesExt, TLC

CONSTANTS e1, e2, e3, f, g

MCPayload == (e1 :> {f}) @@ (e2 :> {f, g}) @@ (e3 :> {g})

\* replay_events as it is written: the payloads are applied one by one.
ReplayOneByOne(order, S) ==
    FoldLeft(Apply, NoRow.state, SelectSeq(order, LAMBDA e : e \in S))

\* Replay has the result of the loop, in every order and of all events.
ASSUME LoopGivesReplay ==
    \A order \in {o \in UNION {[1..n -> Events] : n \in 0..3} : IsInjective(o)} :
        \A S \in SUBSET ToSet(order) : Replay(order, S) = ReplayOneByOne(order, S)
=============================================================================
