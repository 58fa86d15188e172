----------------------------- MODULE EventStore -----------------------------
(***************************************************************************)
(* record_service, for one aggregate: its events, and the two copies of    *)
(* its projection.                                                         *)
(*                                                                         *)
(* RecordRouter picks the database by the aggregate of an instance.  A     *)
(* query has no instance, so all events and the copy that queries read and *)
(* write are in "default"; projection.save() has one and goes to the shard *)
(* of the aggregate.  The transaction of append_event is one of "default": *)
(* the shard is written at once, and not rolled back.                      *)
(***************************************************************************)
EXTENDS Naturals, Sequences, Functions, FiniteSetsExt

CONSTANTS
    Events,   \* the events that are appended
    Fields,   \* keys of a payload
    Payload,  \* the keys each event sets
    Rebuilds, \* those who rebuild: the weekly task, requests to "replay"
    NoEvent

ASSUME EventAssumption ==
    /\ Payload \in [Events -> SUBSET Fields]
    /\ NoEvent \notin Events

VARIABLES
    created, \* all events ever inserted, in the order of created_at
    log,     \* the committed ones, in the order of their commits
    default, \* the projection in "default", as committed
    shard,   \* the projection in the shard
    pc,      \* what the request that appends each event does next
    copy,    \* the projection in its hands
    found    \* per rebuild, how many events it has read; 0 when it is idle

vars == <<created, log, default, shard, pc, copy, found>>

\* current_state says of each key which event set it last.
State == [Fields -> Events \cup {NoEvent}]
Row   == [state : State, version : Nat, last : Events \cup {NoEvent}]
NoRow == [state |-> [f \in Fields |-> NoEvent], version |-> 0, last |-> NoEvent]

Exists(row) == row.last # NoEvent

TypeOK ==
    /\ created \in Seq(Events) /\ IsInjective(created)
    /\ log \in Seq(Events) /\ IsInjective(log)
    /\ default \in Row
    /\ shard \in Row
    /\ pc \in [Events -> {"none", "inserted", "projecting", "saved", "done", "failed"}]
    /\ copy \in [Events -> Row]
    /\ found \in [Rebuilds -> 0..Len(log)]

Init ==
    /\ created = <<>>
    /\ log = <<>>
    /\ default = NoRow
    /\ shard = NoRow
    /\ pc = [e \in Events |-> "none"]
    /\ copy = [e \in Events |-> NoRow]
    /\ found = [r \in Rebuilds |-> 0]

-----------------------------------------------------------------------------
(* Payloads                                                                  *)

\* current_state.update(event.payload)
Apply(state, e) == [f \in Fields |-> IF f \in Payload[e] THEN e ELSE state[f]]

\* The last event of S by created_at, the order that queries sort by, which is
\* not that of the commits.
Latest(order, S) == order[Max({i \in DOMAIN order : order[i] \in S})]

\* The state after all events of S in that order: of each key, the last of them
\* to set it.
Replay(order, S) ==
    [f \in Fields |->
        LET setters == {e \in S : f \in Payload[e]}
        IN  IF setters = {} THEN NoEvent ELSE Latest(order, setters)]

\* The events that were committed when there were n of them.
Oldest(n) == {log[i] : i \in 1..n}

-----------------------------------------------------------------------------
(* append_event                                                              *)

Goto(e, to) == pc' = [pc EXCEPT ![e] = to]

Insert(e) ==
    /\ pc[e] = "none"
    /\ created' = Append(created, e)
    /\ Goto(e, "inserted")
    /\ UNCHANGED <<log, default, shard, copy, found>>

\* Mutant of Inserting: a request that fails is not rolled back.
InsertingStill(e) == pc[e] \in {"projecting", "saved", "failed"} /\ copy[e].last = e

\* The request has inserted the projection and not committed it yet.
Inserting(e) == pc[e] \in {"projecting", "saved"} /\ copy[e].last = e

\* get_or_create, of a projection that is there ...
Find(e) ==
    /\ pc[e] = "inserted"
    /\ Exists(default)
    /\ copy' = [copy EXCEPT ![e] = default]
    /\ Goto(e, "projecting")
    /\ UNCHANGED <<created, log, default, shard, found>>

\* ... and of one that is not: the primary key lets one request insert it, and
\* the others wait for that one to commit (and find it) or to fail.
InsertProjection(e) ==
    /\ pc[e] = "inserted"
    /\ ~Exists(default)
    /\ \A o \in Events : ~Inserting(o)
    /\ copy' = [copy EXCEPT ![e] = [NoRow EXCEPT !.last = e]]
    /\ Goto(e, "projecting")
    /\ UNCHANGED <<created, log, default, shard, found>>

\* Mutant of Updated: the version is that of the shard.
UpdatedInShard(e) ==
    [state |-> Apply(copy[e].state, e), version |-> shard.version + 1, last |-> e]

Updated(e) ==
    [state |-> Apply(copy[e].state, e), version |-> copy[e].version + 1, last |-> e]

\* projection.save(using=None): all columns, into the shard, at once.
Save(e) ==
    /\ pc[e] = "projecting"
    /\ shard' = Updated(e)
    /\ Goto(e, "saved")
    /\ UNCHANGED <<created, log, default, copy, found>>

\* Mutant of Ready: the projection is brought up to date after the commit.
ReadyEarly(e) == pc[e] \in {"projecting", "saved"}

Ready(e) == pc[e] = "saved"

\* The transaction of "default" ends: the event, and the projection if this
\* request has inserted it (as it was then: empty, version 0).
Commit(e) ==
    /\ Ready(e)
    /\ log' = Append(log, e)
    /\ default' = IF Inserting(e) THEN copy[e] ELSE default
    /\ Goto(e, "done")
    /\ UNCHANGED <<created, shard, copy, found>>

\* The process dies, a database is away, or the payload is no object: rollback.
Fail(e) ==
    /\ pc[e] \in {"inserted", "projecting", "saved"}
    /\ Goto(e, "failed")
    /\ UNCHANGED <<created, log, default, shard, copy, found>>

-----------------------------------------------------------------------------
(* rebuild_projection                                                        *)

ReadEvents(r) ==
    /\ found[r] = 0
    /\ log # <<>>
    /\ found' = [found EXCEPT ![r] = Len(log)]
    /\ UNCHANGED <<created, log, default, shard, pc, copy>>

\* Mutant of Count: events.count() asks the database again.
CountAgain(r) == Len(log)

\* events.count() of a queryset that has been read: the rows it has.
Count(r) == found[r]

\* update_or_create in "default".
Rebuild(r) ==
    /\ found[r] > 0
    /\ default' = [state   |-> Replay(created, Oldest(found[r])),
                   version |-> Count(r),
                   last    |-> Latest(created, Oldest(found[r]))]
    /\ found' = [found EXCEPT ![r] = 0]
    /\ UNCHANGED <<created, log, shard, pc, copy>>

\* The process dies between the two.
GiveUp(r) ==
    /\ found[r] > 0
    /\ found' = [found EXCEPT ![r] = 0]
    /\ UNCHANGED <<created, log, default, shard, pc, copy>>

-----------------------------------------------------------------------------
AppendStep(e) == InsertProjection(e) \/ Find(e) \/ Save(e) \/ Commit(e)

Next ==
    \/ \E e \in Events : Insert(e) \/ AppendStep(e) \/ Fail(e)
    \/ \E r \in Rebuilds : ReadEvents(r) \/ Rebuild(r) \/ GiveUp(r)

Spec == Init /\ [][Next]_vars

\* A request goes on with its statements, one that waits for a key included.
FairSpec == Spec /\ \A e \in Events : WF_vars(AppendStep(e))

-----------------------------------------------------------------------------
(* Properties                                                                *)

\* Rebuilds that race with appends and with one another leave a projection in
\* "default" that is exact for some moment: its state is what replay_events
\* would have returned when there were as many events as its version says.
DefaultIsSnapshot ==
    Exists(default) =>
        /\ default.version <= Len(log)
        /\ default.state = Replay(created, Oldest(default.version))

\* What the shard really holds: such a snapshot and one event on top, never
\* more.  (That event need not be the newest one, nor even be committed.)
ShardIsSnapshotPlusOne ==
    Exists(shard) =>
        /\ shard.version \in 1 .. Len(log) + 1
        /\ shard.state = Apply(Replay(created, Oldest(shard.version - 1)), shard.last)

\* The two databases are not written in one transaction, but in an order that
\* keeps this: no event without a projection in both, whoever fails when.
EventsAreProjected == log # <<>> => Exists(default) /\ Exists(shard)

\* First events of an aggregate that race for its projection do not wait for
\* one another for ever: each is appended or refused.
AppendsEnd == \A e \in Events : pc[e] = "inserted" ~> pc[e] \in {"done", "failed"}

-----------------------------------------------------------------------------
(* The invariants behind the properties                                      *)

\* What the table of events holds: those that were ever inserted, and of them,
\* in log, those that were committed.
Inserted ==
    /\ \A e \in Events : e \in Range(created) <=> pc[e] # "none"
    /\ \A e \in Events : e \in Range(log) <=> pc[e] = "done"

\* A row that is what the events were when there were as many as it says.
Snapshot(row) ==
    /\ row.version <= Len(log)
    /\ row.state = Replay(created, Oldest(row.version))

\* A request has such a row in its hands, new or found in "default", and tells
\* by it whether it has to insert it.
CopiesAreSnapshots ==
    \A e \in Events : pc[e] \in {"projecting", "saved"} =>
        /\ Snapshot(copy[e])
        /\ Inserting(e) \/ Exists(default)
        /\ pc[e] = "saved" => Exists(shard)

\* The inductive invariant.
EventStoreInv ==
    /\ TypeOK
    /\ Inserted
    /\ CopiesAreSnapshots
    /\ DefaultIsSnapshot
    /\ ShardIsSnapshotPlusOne
    /\ EventsAreProjected
=============================================================================
