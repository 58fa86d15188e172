-------------------------- MODULE EventStoreProofs --------------------------
(***************************************************************************)
(* Proofs about EventStore for every set of events, payloads and fields,   *)
(* and any number of rebuilds.                                             *)
(***************************************************************************)
EXTENDS EventStore, FiniteSetTheorems, TLAPS

-----------------------------------------------------------------------------
(* The order of events                                                       *)

\* A set of numbers with a bound has a largest element: of the intervals from
\* its elements to the bound one is minimal.
LEMMA LargestNumber ==
    ASSUME NEW n \in Nat, NEW S \in SUBSET (0..n), S # {}
    PROVE  \E k \in S : \A m \in S : k >= m
<1> DEFINE From == {k..n : k \in S}
<1>1. From \subseteq FiniteSubsetsOf(0..n)
  <2> SUFFICES ASSUME NEW k \in S PROVE k..n \in FiniteSubsetsOf(0..n)
    OBVIOUS
  <2>1. IsFiniteSet(k..n)
    BY FS_Interval
  <2>2. QED
    BY <2>1 DEF FiniteSubsetsOf
<1>2. PICK i \in From : \A j \in From : <<j, i>> \notin StrictSubsetOrdering(0..n)
  <2>1. IsWellFoundedOn(StrictSubsetOrdering(0..n), FiniteSubsetsOf(0..n))
    BY FS_StrictSubsetOrderingWellFounded
  <2>2. From # {}
    OBVIOUS
  <2> HIDE DEF From
  <2>3. QED
    BY <1>1, <2>1, <2>2, WFMin
<1>3. PICK k \in S : i = k..n
  OBVIOUS
<1>4. ASSUME NEW m \in S, k < m
      PROVE  FALSE
  <2>1. m..n \subseteq k..n /\ k \in k..n /\ k \notin m..n
    BY <1>4
  <2>2. <<m..n, k..n>> \in StrictSubsetOrdering(0..n)
    BY <2>1 DEF StrictSubsetOrdering
  <2>3. QED
    BY <1>2, <1>3, <2>2
<1>5. QED
  BY <1>4

LEMMA MaxIsLargest ==
    ASSUME NEW n \in Nat, NEW S \in SUBSET (0..n), S # {}
    PROVE  Max(S) \in S /\ \A m \in S : Max(S) >= m
BY LargestNumber DEF Max

\* The indices at which an order has elements of S.
LEMMA Indices ==
    ASSUME NEW order \in Seq(Events), NEW S \in SUBSET Range(order), S # {}
    PROVE  /\ {i \in DOMAIN order : order[i] \in S} # {}
           /\ {i \in DOMAIN order : order[i] \in S} \in SUBSET (0..Len(order))
           /\ Max({i \in DOMAIN order : order[i] \in S}) \in 1..Len(order)
           /\ Latest(order, S) \in S
<1> DEFINE I == {i \in DOMAIN order : order[i] \in S}
<1>1. Len(order) \in Nat /\ DOMAIN order = 1..Len(order)
  OBVIOUS
<1>2. I # {} /\ I \in SUBSET (0..Len(order)) /\ \A i \in I : i \in 1..Len(order) /\ order[i] \in S
  BY <1>1 DEF Range
<1>3. Latest(order, S) = order[Max(I)]
  BY DEF Latest
<1> HIDE DEF I
<1>4. Max(I) \in I
  BY <1>1, <1>2, MaxIsLargest
<1>5. QED
  BY <1>2, <1>3, <1>4 DEF I

LEMMA ReplayTyped ==
    ASSUME NEW order \in Seq(Events), NEW S \in SUBSET Range(order)
    PROVE  Replay(order, S) \in State
<1>1. Range(order) \subseteq Events
  BY DEF Range
<1>2. ASSUME NEW T \in SUBSET S, T # {}
      PROVE  Latest(order, T) \in Events
  BY <1>1, <1>2, Indices
<1>3. ASSUME NEW f \in Fields
      PROVE  (IF {e \in S : f \in Payload[e]} = {} THEN NoEvent
              ELSE Latest(order, {e \in S : f \in Payload[e]})) \in Events \cup {NoEvent}
  <2> DEFINE T == {e \in S : f \in Payload[e]}
  <2>1. T \in SUBSET S
    OBVIOUS
  <2> HIDE DEF T
  <2>2. (IF T = {} THEN NoEvent ELSE Latest(order, T)) \in Events \cup {NoEvent}
    BY <1>2, <2>1
  <2>3. QED
    BY <2>2 DEF T
<1>4. QED
  BY <1>3 DEF Replay, State

\* An event that comes later does not change which of the others is the last.
LEMMA LatestAppend ==
    ASSUME NEW order \in Seq(Events), NEW S \in SUBSET Range(order), S # {},
           NEW e \in Events, e \notin S
    PROVE  Latest(Append(order, e), S) = Latest(order, S)
<1> DEFINE longer == Append(order, e)
           I == {i \in DOMAIN order : order[i] \in S}
<1>1. /\ longer \in Seq(Events) /\ Len(longer) = Len(order) + 1
      /\ DOMAIN longer = 1..(Len(order) + 1) /\ DOMAIN order = 1..Len(order)
      /\ longer[Len(order) + 1] = e
      /\ \A i \in 1..Len(order) : longer[i] = order[i]
      /\ Len(order) \in Nat
  OBVIOUS
<1>2. {i \in DOMAIN longer : longer[i] \in S} = I
  BY <1>1
<1>3. Max(I) \in 1..Len(order)
  BY Indices
<1>4. Latest(longer, S) = longer[Max(I)] /\ Latest(order, S) = order[Max(I)]
  BY <1>2 DEF Latest
<1>5. QED
  BY <1>1, <1>3, <1>4

LEMMA ReplayAppend ==
    ASSUME NEW order \in Seq(Events), NEW S \in SUBSET Range(order),
           NEW e \in Events, e \notin S
    PROVE  Replay(Append(order, e), S) = Replay(order, S)
<1>1. ASSUME NEW T \in SUBSET S, T # {}
      PROVE  Latest(Append(order, e), T) = Latest(order, T)
  BY <1>1, LatestAppend
<1>2. ASSUME NEW f \in Fields
      PROVE  (IF {d \in S : f \in Payload[d]} = {} THEN NoEvent
              ELSE Latest(Append(order, e), {d \in S : f \in Payload[d]}))
             = (IF {d \in S : f \in Payload[d]} = {} THEN NoEvent
                ELSE Latest(order, {d \in S : f \in Payload[d]}))
  <2> DEFINE T == {d \in S : f \in Payload[d]}
  <2>1. T \in SUBSET S
    OBVIOUS
  <2> HIDE DEF T
  <2>2. T # {} => Latest(Append(order, e), T) = Latest(order, T)
    BY <1>1, <2>1
  <2>3. QED
    BY <2>2 DEF T
<1>3. QED
  BY <1>2 DEF Replay

-----------------------------------------------------------------------------
(* The loop of replay_events                                                 *)

\* The states that the loop of replay_events goes through: it starts with no
\* keys and updates them by the payload of each event of S, in their order.
LoopStates(order, S, st) ==
    /\ st \in [0..Len(order) -> State]
    /\ st[0] = NoRow.state
    /\ \A i \in 1..Len(order) :
          st[i] = IF order[i] \in S THEN Apply(st[i-1], order[i]) ELSE st[i-1]

\* A key that no step after the a-th sets has the value it had then.
LEMMA KeyStays ==
    ASSUME NEW n \in Nat, NEW g, NEW a \in 0..n,
           \A i \in 1..n : i > a => g[i] = g[i-1]
    PROVE  g[n] = g[a]
<1> DEFINE Same == {k \in 0..n : k >= a /\ g[k] = g[a]}
<1>1. Same \in SUBSET (0..n) /\ a \in Same
  OBVIOUS
<1>2. PICK k \in Same : \A m \in Same : k >= m
  BY <1>1, LargestNumber
<1>3. ASSUME k < n
      PROVE  FALSE
  <2>1. k+1 \in 1..n /\ k+1 > a /\ (k+1)-1 = k
    BY <1>2, <1>3
  <2>2. g[k+1] = g[k]
    BY <2>1
  <2>3. k+1 \in Same
    BY <1>2, <2>1, <2>2
  <2>4. QED
    BY <1>2, <2>1, <2>3
<1>4. QED
  BY <1>2, <1>3

\* What one turn of the loop does to a key.
LEMMA LoopTurn ==
    ASSUME NEW order \in Seq(Events), NEW S \in SUBSET Range(order), NEW st,
           LoopStates(order, S, st), NEW i \in 1..Len(order), NEW f \in Fields
    PROVE  st[i][f] = IF order[i] \in {e \in S : f \in Payload[e]} THEN order[i]
                      ELSE st[i-1][f]
<1>1. i-1 \in 0..Len(order)
  OBVIOUS
<1>2. st[i-1] \in [Fields -> Events \cup {NoEvent}]
  BY <1>1 DEF LoopStates, State
<1>3. CASE order[i] \in S
  BY <1>2, <1>3 DEF LoopStates, Apply
<1>4. CASE order[i] \notin S
  BY <1>4 DEF LoopStates
<1>5. QED
  BY <1>3, <1>4

\* After the whole loop each key has the last event that set it: Replay is what
\* replay_events computes, for every history and every set of events read.
THEOREM ReplayIsTheLoop ==
    ASSUME NEW order \in Seq(Events), NEW S \in SUBSET Range(order), NEW st,
           LoopStates(order, S, st)
    PROVE  st[Len(order)] = Replay(order, S)
<1> DEFINE n == Len(order)
<1>0. n \in Nat /\ DOMAIN order = 1..n /\ n \in 0..n /\ 0 \in 0..n
  OBVIOUS
<1>1. ASSUME NEW f \in Fields
      PROVE  st[n][f] = IF {e \in S : f \in Payload[e]} = {} THEN NoEvent
                        ELSE Latest(order, {e \in S : f \in Payload[e]})
  <2> DEFINE T == {e \in S : f \in Payload[e]}
             I == {i \in DOMAIN order : order[i] \in T}
             g == [i \in 0..n |-> st[i][f]]
  <2>1. \A i \in 1..n : g[i] = IF order[i] \in T THEN order[i] ELSE g[i-1]
    BY <1>0, LoopTurn
  <2>2. g[0] = NoEvent /\ g[n] = st[n][f]
    BY <1>0 DEF LoopStates, NoRow
  <2>3. T \in SUBSET Range(order)
    OBVIOUS
  <2> HIDE DEF T, g
  <2>4. CASE T = {}
    <3>1. g[n] = g[0]
      BY <1>0, <2>1, <2>4, KeyStays
    <3>2. QED
      BY <2>2, <2>4, <3>1 DEF T
  <2>5. CASE T # {}
    <3>1. /\ I # {} /\ I \in SUBSET (0..n)
          /\ Max(I) \in 1..n /\ Latest(order, T) = order[Max(I)]
          /\ Latest(order, T) \in T
      BY <2>3, <2>5, Indices DEF Latest
    <3>2. \A i \in 1..n : order[i] \in T => Max(I) >= i
      BY <1>0, <3>1, MaxIsLargest
    <3> HIDE DEF I
    <3>3. g[Max(I)] = order[Max(I)]
      BY <2>1, <3>1
    <3>4. \A i \in 1..n : i > Max(I) => g[i] = g[i-1]
      BY <1>0, <2>1, <3>1, <3>2
    <3>5. g[n] = g[Max(I)]
      <4>1. Max(I) \in 0..n
        BY <1>0, <3>1
      <4>2. QED
        BY <1>0, <3>4, <4>1, KeyStays
    <3>6. QED
      BY <2>2, <2>5, <3>1, <3>3, <3>5 DEF T
  <2>6. QED
    BY <2>4, <2>5
<1>2. st[n] \in [Fields -> Events \cup {NoEvent}]
  BY <1>0 DEF LoopStates, State
<1>3. QED
  BY <1>1, <1>2 DEF Replay

-----------------------------------------------------------------------------
(* Type correctness                                                          *)

LEMMA NoRowTyped == NoRow \in Row /\ \A e \in Events : [NoRow EXCEPT !.last = e] \in Row
BY DEF NoRow, Row, State

LEMMA InitTypeOK == Init => TypeOK
<1> SUFFICES ASSUME Init PROVE TypeOK
  OBVIOUS
<1>1. Len(log) = 0 /\ created \in Seq(Events) /\ log \in Seq(Events)
  BY DEF Init
<1>2. IsInjective(created) /\ IsInjective(log)
  BY DEF Init, IsInjective
<1>3. QED
  BY <1>1, <1>2, NoRowTyped DEF Init, TypeOK

\* What was committed when there were n events was inserted.
LEMMA OldestInserted ==
    ASSUME TypeOK, Inserted, NEW n \in 0..Len(log)
    PROVE  /\ Oldest(n) \in SUBSET Range(created)
           /\ \A e \in Oldest(n) : e \in Events /\ pc[e] = "done"
           /\ n > 0 => Oldest(n) # {}
<1>1. Len(log) \in Nat /\ DOMAIN log = 1..Len(log) /\ \A i \in 1..Len(log) : log[i] \in Events
  BY DEF TypeOK
<1>2. \A e \in Oldest(n) : e \in Events /\ e \in Range(log)
  BY <1>1 DEF Oldest, Range
<1>3. \A e \in Oldest(n) : e \in Range(created) /\ pc[e] = "done"
  BY <1>2 DEF Inserted
<1>4. n > 0 => log[1] \in Oldest(n)
  BY <1>1 DEF Oldest
<1>5. QED
  BY <1>2, <1>3, <1>4

LEMMA RebuiltTyped ==
    ASSUME TypeOK, Inserted, NEW r \in Rebuilds, Rebuild(r)
    PROVE  /\ found[r] \in 1..Len(log)
           /\ default' \in Row
           /\ default'.state = Replay(created, Oldest(found[r]))
           /\ default'.version = found[r]
           /\ default'.last # NoEvent
<1>1. found[r] \in 1..Len(log) /\ found[r] \in Nat
  BY DEF Rebuild, TypeOK
<1>2. Oldest(found[r]) \in SUBSET Range(created) /\ Oldest(found[r]) # {}
      /\ \A e \in Oldest(found[r]) : e \in Events
  BY <1>1, OldestInserted
<1>3. created \in Seq(Events)
  BY DEF TypeOK
<1>4. Replay(created, Oldest(found[r])) \in State
  BY <1>2, <1>3, ReplayTyped
<1>5. Latest(created, Oldest(found[r])) \in Events
  BY <1>2, <1>3, Indices
<1>6. default' = [state   |-> Replay(created, Oldest(found[r])),
                  version |-> found[r],
                  last    |-> Latest(created, Oldest(found[r]))]
  BY DEF Rebuild, Count
<1>7. QED
  BY <1>1, <1>4, <1>5, <1>6, EventAssumption DEF Row

LEMMA UpdatedTyped ==
    ASSUME TypeOK, NEW e \in Events
    PROVE  Updated(e) \in Row
<1>1. copy[e] \in Row /\ Payload[e] \in SUBSET Fields
  BY EventAssumption DEF TypeOK
<1>2. Apply(copy[e].state, e) \in State
  BY <1>1 DEF Apply, State, Row
<1>3. QED
  BY <1>1, <1>2 DEF Updated, Row

\* An event that is appended to a sequence it is not in.
LEMMA AppendInjective ==
    ASSUME NEW order \in Seq(Events), IsInjective(order), NEW e \in Events, e \notin Range(order)
    PROVE  /\ Append(order, e) \in Seq(Events)
           /\ IsInjective(Append(order, e))
           /\ Range(Append(order, e)) = Range(order) \cup {e}
           /\ Len(Append(order, e)) = Len(order) + 1
           /\ \A i \in 1..Len(order) : Append(order, e)[i] = order[i]
<1> DEFINE longer == Append(order, e)
<1>1. /\ longer \in Seq(Events) /\ Len(longer) = Len(order) + 1
      /\ DOMAIN longer = 1..(Len(order) + 1) /\ DOMAIN order = 1..Len(order)
      /\ longer[Len(order) + 1] = e
      /\ \A i \in 1..Len(order) : longer[i] = order[i]
      /\ Len(order) \in Nat
  OBVIOUS
<1>2. \A i \in 1..Len(order) : longer[i] # e
  BY <1>1 DEF Range
<1>3. \A i \in 1..(Len(order) + 1) : i \in 1..Len(order) \/ i = Len(order) + 1
  BY <1>1
<1> HIDE DEF longer
<1>4. IsInjective(longer)
  BY <1>1, <1>2, <1>3 DEF IsInjective
<1>5. Range(longer) = Range(order) \cup {e}
  BY <1>1, <1>3 DEF Range
<1>6. QED
  BY <1>1, <1>4, <1>5 DEF longer

LEMMA NextTypeOK ==
    ASSUME TypeOK, Inserted, [Next]_vars
    PROVE  TypeOK' /\ Inserted'
<1> DEFINE Steps == {"none", "inserted", "projecting", "saved", "done", "failed"}
<1>0. /\ created \in Seq(Events) /\ IsInjective(created)
      /\ log \in Seq(Events) /\ IsInjective(log) /\ Len(log) \in Nat
      /\ pc \in [Events -> Steps]
      /\ \A e \in Events : e \in Range(created) <=> pc[e] # "none"
      /\ \A e \in Events : e \in Range(log) <=> pc[e] = "done"
  BY DEF TypeOK, Inserted
<1>1. ASSUME NEW e \in Events, Insert(e)
      PROVE  TypeOK' /\ Inserted'
  <2>1. pc[e] = "none" /\ created' = Append(created, e) /\ e \notin Range(created)
    BY <1>0, <1>1 DEF Insert
  <2>2. /\ created' \in Seq(Events) /\ IsInjective(created')
        /\ Range(created') = Range(created) \cup {e}
    BY <1>0, <2>1, AppendInjective
  <2>3. pc' = [pc EXCEPT ![e] = "inserted"]
    BY <1>1 DEF Insert, Goto
  <2>4. TypeOK'
    BY <1>1, <2>2, <2>3 DEF Insert, TypeOK
  <2>5. Inserted'
    BY <1>0, <1>1, <2>1, <2>2, <2>3 DEF Insert, Inserted
  <2>6. QED
    BY <2>4, <2>5
<1>2. ASSUME NEW e \in Events, Commit(e)
      PROVE  TypeOK' /\ Inserted'
  <2>1. pc[e] = "saved" /\ log' = Append(log, e) /\ e \notin Range(log)
    BY <1>0, <1>2 DEF Commit, Ready
  <2>2. /\ log' \in Seq(Events) /\ IsInjective(log')
        /\ Range(log') = Range(log) \cup {e} /\ Len(log') = Len(log) + 1
    BY <1>0, <2>1, AppendInjective
  <2>3. pc' = [pc EXCEPT ![e] = "done"]
    BY <1>2 DEF Commit, Goto
  <2>4. default' \in Row
    BY <1>2 DEF Commit, TypeOK
  <2>5. found' \in [Rebuilds -> 0..Len(log')]
    <3>1. 0..Len(log) \subseteq 0..Len(log')
      BY <1>0, <2>2
    <3>2. QED
      BY <1>2, <3>1 DEF Commit, TypeOK
  <2>6. TypeOK'
    BY <1>2, <2>2, <2>3, <2>4, <2>5 DEF Commit, TypeOK
  <2>7. Inserted'
    BY <1>0, <1>2, <2>1, <2>2, <2>3 DEF Commit, Inserted
  <2>8. QED
    BY <2>6, <2>7
<1>3. ASSUME NEW e \in Events, InsertProjection(e) \/ Find(e)
      PROVE  TypeOK' /\ Inserted'
  <2>1. pc' = [pc EXCEPT ![e] = "projecting"] /\ pc[e] = "inserted"
    BY <1>3 DEF InsertProjection, Find, Goto
  <2>2. copy' \in [Events -> Row]
    BY <1>3, NoRowTyped DEF InsertProjection, Find, TypeOK
  <2>3. QED
    BY <1>0, <1>3, <2>1, <2>2 DEF InsertProjection, Find, TypeOK, Inserted
<1>4. ASSUME NEW e \in Events, Save(e) \/ Fail(e)
      PROVE  TypeOK' /\ Inserted'
  <2>1. /\ pc[e] \in {"inserted", "projecting", "saved"}
        /\ \E to \in {"saved", "failed"} : pc' = [pc EXCEPT ![e] = to]
    BY <1>4 DEF Save, Fail, Goto
  <2>2. shard' \in Row
    BY <1>4, UpdatedTyped DEF Save, Fail, TypeOK
  <2>3. QED
    BY <1>0, <1>4, <2>1, <2>2 DEF Save, Fail, TypeOK, Inserted
<1>5. ASSUME NEW r \in Rebuilds, ReadEvents(r) \/ Rebuild(r) \/ GiveUp(r)
      PROVE  TypeOK' /\ Inserted'
  <2>1. default' \in Row
    BY <1>5, RebuiltTyped DEF ReadEvents, GiveUp, TypeOK
  <2>2. found' \in [Rebuilds -> 0..Len(log)]
    BY <1>0, <1>5 DEF ReadEvents, Rebuild, GiveUp, TypeOK
  <2>3. UNCHANGED <<created, log, shard, pc, copy>>
    BY <1>5 DEF ReadEvents, Rebuild, GiveUp
  <2>4. QED
    BY <2>1, <2>2, <2>3 DEF TypeOK, Inserted
<1>6. CASE UNCHANGED vars
  BY <1>6 DEF vars, TypeOK, Inserted
<1>7. QED
  BY <1>1, <1>2, <1>3, <1>4, <1>5, <1>6 DEF Next, AppendStep

-----------------------------------------------------------------------------
(* Snapshots                                                                 *)

\* What the events were when there were n of them does not change: those that
\* are inserted or committed now come after them.
LEMMA ReplayStays ==
    ASSUME TypeOK, Inserted, Next, NEW n \in 0..Len(log)
    PROVE  /\ Len(log) \in Nat /\ Len(log') \in Nat /\ Len(log) <= Len(log')
           /\ Replay(created', {log'[i] : i \in 1..n}) = Replay(created, Oldest(n))
<1>0. /\ created \in Seq(Events) /\ IsInjective(created)
      /\ log \in Seq(Events) /\ IsInjective(log) /\ Len(log) \in Nat
      /\ \A e \in Events : e \in Range(log) <=> pc[e] = "done"
  BY DEF TypeOK, Inserted
<1>1. CASE \E e \in Events : Commit(e)
  <2>1. PICK e \in Events : Commit(e)
    BY <1>1
  <2>2. log' = Append(log, e) /\ e \notin Range(log) /\ created' = created
    BY <1>0, <2>1 DEF Commit, Ready
  <2>3. Len(log') = Len(log) + 1 /\ \A i \in 1..Len(log) : log'[i] = log[i]
    BY <1>0, <2>2, AppendInjective
  <2>4. \A i \in 1..n : log'[i] = log[i]
    BY <1>0, <2>3
  <2>5. {log'[i] : i \in 1..n} = Oldest(n)
    BY <2>4 DEF Oldest
  <2>6. created' = created /\ Len(log') \in Nat /\ Len(log) <= Len(log')
    BY <1>0, <2>2, <2>3
  <2>7. QED
    BY <1>0, <2>5, <2>6
<1>2. CASE \E e \in Events : Insert(e)
  <2>1. PICK e \in Events : Insert(e)
    BY <1>2
  <2>2. created' = Append(created, e) /\ pc[e] = "none" /\ log' = log
    BY <2>1 DEF Insert
  <2>3. Oldest(n) \in SUBSET Range(created) /\ e \notin Oldest(n)
    BY <2>2, OldestInserted
  <2>4. Replay(created', Oldest(n)) = Replay(created, Oldest(n))
    BY <1>0, <2>2, <2>3, ReplayAppend
  <2>5. QED
    BY <1>0, <2>2, <2>4 DEF Oldest
<1>3. CASE created' = created /\ log' = log
  BY <1>0, <1>3 DEF Oldest
<1>4. QED
  BY <1>1, <1>2, <1>3 DEF Next, AppendStep, InsertProjection, Find, Save, Fail, ReadEvents, Rebuild,
     GiveUp

LEMMA SnapshotStays ==
    ASSUME TypeOK, Inserted, Next, NEW row \in Row, Snapshot(row)
    PROVE  /\ row.version <= Len(log')
           /\ row.state = Replay(created', {log'[i] : i \in 1..row.version})
<1>1. row.version \in 0..Len(log)
  BY DEF Snapshot, Row, TypeOK
<1>2. row.state = Replay(created, Oldest(row.version)) /\ row.version <= Len(log)
  BY DEF Snapshot
<1> DEFINE n == row.version
<1>3. n \in 0..Len(log)
  BY <1>1
<1> HIDE DEF n
<1>4. /\ Len(log) \in Nat /\ Len(log') \in Nat /\ Len(log) <= Len(log')
      /\ Replay(created', {log'[i] : i \in 1..n}) = Replay(created, Oldest(n))
  BY <1>3, ReplayStays
<1>5. QED
  BY <1>1, <1>2, <1>4 DEF n

\* A projection that is there stays there.
LEMMA ExistsStays ==
    ASSUME TypeOK, Inserted, Next
    PROVE  /\ Exists(default) => Exists(default')
           /\ Exists(shard) => Exists(shard')
<1>1. \A e \in Events : e # NoEvent
  BY EventAssumption
<1>2. ASSUME NEW e \in Events, Insert(e) \/ InsertProjection(e) \/ Find(e) \/ Fail(e)
      PROVE  UNCHANGED <<default, shard>>
  BY <1>2 DEF Insert, InsertProjection, Find, Fail
<1>3. ASSUME NEW e \in Events, Save(e)
      PROVE  default' = default /\ Exists(shard')
  BY <1>1, <1>3 DEF Save, Updated, Exists
<1>4. ASSUME NEW e \in Events, Commit(e)
      PROVE  shard' = shard /\ (Exists(default') \/ default' = default)
  BY <1>1, <1>4 DEF Commit, Inserting, Exists
<1>5. ASSUME NEW r \in Rebuilds, ReadEvents(r) \/ Rebuild(r) \/ GiveUp(r)
      PROVE  shard' = shard /\ (Exists(default') \/ default' = default)
  BY <1>5, RebuiltTyped DEF ReadEvents, Rebuild, GiveUp, Exists
<1>6. QED
  BY <1>2, <1>3, <1>4, <1>5 DEF Next, AppendStep

LEMMA NextCopiesAreSnapshots ==
    ASSUME TypeOK, Inserted, CopiesAreSnapshots, DefaultIsSnapshot, Next
    PROVE  CopiesAreSnapshots'
<1> SUFFICES ASSUME NEW e \in Events, pc'[e] \in {"projecting", "saved"}
             PROVE  /\ copy'[e].version <= Len(log')
                    /\ copy'[e].state = Replay(created', {log'[i] : i \in 1..copy'[e].version})
                    /\ copy'[e].last = e \/ Exists(default')
                    /\ pc'[e] = "saved" => Exists(shard')
  BY DEF CopiesAreSnapshots, Snapshot, Inserting, Oldest, Exists
<1>0. /\ copy \in [Events -> Row]
      /\ default \in Row
      /\ pc \in [Events -> {"none", "inserted", "projecting", "saved", "done", "failed"}]
  BY DEF TypeOK
<1>1. CASE pc[e] = pc'[e] /\ copy'[e] = copy[e]
  <2>1. /\ Snapshot(copy[e])
        /\ copy[e].last = e \/ Exists(default)
        /\ pc[e] = "saved" => Exists(shard)
    BY <1>1 DEF CopiesAreSnapshots, Inserting
  <2>2. copy[e] \in Row
    BY <1>0
  <2>3. /\ copy[e].version <= Len(log')
        /\ copy[e].state = Replay(created', {log'[i] : i \in 1..copy[e].version})
    BY <2>1, <2>2, SnapshotStays
  <2>4. QED
    BY <1>1, <2>1, <2>3, ExistsStays
<1>2. CASE Find(e)
  <2>1. Exists(default) /\ copy'[e] = default /\ pc'[e] = "projecting"
    BY <1>0, <1>2 DEF Find, Goto
  <2>2. Snapshot(default)
    BY <2>1 DEF DefaultIsSnapshot, Snapshot
  <2>3. /\ default.version <= Len(log')
        /\ default.state = Replay(created', {log'[i] : i \in 1..default.version})
    BY <1>0, <2>2, SnapshotStays
  <2>4. QED
    BY <2>1, <2>3, ExistsStays
<1>3. CASE InsertProjection(e)
  <2>1. copy'[e] = [NoRow EXCEPT !.last = e] /\ pc'[e] = "projecting"
    BY <1>0, <1>3 DEF InsertProjection, Goto
  <2>2. copy'[e].version = 0 /\ copy'[e].last = e /\ copy'[e].state = [f \in Fields |-> NoEvent]
    BY <2>1 DEF NoRow
  <2>3. Replay(created', {}) = [f \in Fields |-> NoEvent]
    BY DEF Replay
  <2>4. {log'[i] : i \in 1..0} = {} /\ 0 <= Len(log')
    <3>1. Len(log) \in Nat /\ log' = log
      BY <1>3 DEF InsertProjection, TypeOK
    <3>2. QED
      BY <3>1
  <2>5. QED
    BY <2>1, <2>2, <2>3, <2>4
<1>4. CASE Save(e)
  <2>1. pc[e] = "projecting" /\ UNCHANGED <<copy, default>> /\ shard'.last = e
    BY <1>4 DEF Save, Updated
  <2>2. Snapshot(copy[e]) /\ (copy[e].last = e \/ Exists(default)) /\ copy[e] \in Row
    BY <1>0, <2>1 DEF CopiesAreSnapshots, Inserting
  <2>3. /\ copy[e].version <= Len(log')
        /\ copy[e].state = Replay(created', {log'[i] : i \in 1..copy[e].version})
    BY <2>2, SnapshotStays
  <2>4. QED
    BY <2>1, <2>2, <2>3, EventAssumption DEF Exists
<1>5. ASSUME NEW o \in Events, Insert(o) \/ Fail(o) \/ Commit(o)
      PROVE  pc[e] = pc'[e] /\ copy'[e] = copy[e]
  BY <1>0, <1>5 DEF Insert, Fail, Commit, Goto
<1>6. ASSUME NEW o \in Events \ {e}, AppendStep(o)
      PROVE  pc[e] = pc'[e] /\ copy'[e] = copy[e]
  BY <1>0, <1>6 DEF AppendStep, Find, InsertProjection, Save, Commit, Goto
<1>7. ASSUME NEW r \in Rebuilds, ReadEvents(r) \/ Rebuild(r) \/ GiveUp(r)
      PROVE  pc[e] = pc'[e] /\ copy'[e] = copy[e]
  BY <1>7 DEF ReadEvents, Rebuild, GiveUp
<1>8. QED
  BY <1>1, <1>2, <1>3, <1>4, <1>5, <1>6, <1>7 DEF Next, AppendStep

LEMMA NextDefaultIsSnapshot ==
    ASSUME TypeOK, Inserted, CopiesAreSnapshots, DefaultIsSnapshot, Next
    PROVE  DefaultIsSnapshot'
<1> SUFFICES ASSUME Exists(default')
             PROVE  /\ default'.version <= Len(log')
                    /\ default'.state = Replay(created', {log'[i] : i \in 1..default'.version})
  BY DEF DefaultIsSnapshot, Oldest, Exists
<1>0. copy \in [Events -> Row] /\ default \in Row
  BY DEF TypeOK
<1>1. CASE default' = default
  <2>1. Snapshot(default)
    BY <1>1 DEF DefaultIsSnapshot, Snapshot
  <2>2. QED
    BY <1>0, <1>1, <2>1, SnapshotStays
<1>2. ASSUME NEW e \in Events, Commit(e), default' # default
      PROVE  /\ default'.version <= Len(log')
             /\ default'.state = Replay(created', {log'[i] : i \in 1..default'.version})
  <2>1. default' = copy[e] /\ pc[e] = "saved" /\ copy[e] \in Row
    BY <1>0, <1>2 DEF Commit, Ready
  <2>2. Snapshot(copy[e])
    BY <2>1 DEF CopiesAreSnapshots
  <2>3. QED
    BY <2>1, <2>2, SnapshotStays
<1>3. ASSUME NEW r \in Rebuilds, Rebuild(r)
      PROVE  /\ default'.version <= Len(log')
             /\ default'.state = Replay(created', {log'[i] : i \in 1..default'.version})
  <2>1. /\ found[r] \in 1..Len(log) /\ Len(log) \in Nat
        /\ default'.state = Replay(created, Oldest(found[r]))
        /\ default'.version = found[r]
        /\ log' = log /\ created' = created
    <3>1. log' = log /\ created' = created /\ Len(log) \in Nat
      BY <1>3 DEF Rebuild, TypeOK
    <3>2. QED
      BY <1>3, <3>1, RebuiltTyped
  <2>2. QED
    BY <2>1 DEF Oldest
<1>4. QED
  BY <1>1, <1>2, <1>3 DEF Next, AppendStep, Insert, InsertProjection, Find, Save, Fail, ReadEvents,
     GiveUp

LEMMA NextShardIsSnapshotPlusOne ==
    ASSUME TypeOK, Inserted, CopiesAreSnapshots, ShardIsSnapshotPlusOne, Next
    PROVE  ShardIsSnapshotPlusOne'
<1> SUFFICES ASSUME Exists(shard')
             PROVE  /\ shard'.version \in 1 .. Len(log') + 1
                    /\ shard'.state = Apply(Replay(created', {log'[i] : i \in 1..(shard'.version - 1)}),
                                            shard'.last)
  BY DEF ShardIsSnapshotPlusOne, Oldest, Exists
<1>0. copy \in [Events -> Row] /\ shard \in Row /\ Len(log) \in Nat
  BY DEF TypeOK
<1>1. CASE shard' = shard
  <2>1. /\ shard.version \in 1 .. Len(log) + 1
        /\ shard.state = Apply(Replay(created, Oldest(shard.version - 1)), shard.last)
    BY <1>1 DEF ShardIsSnapshotPlusOne
  <2>2. shard.version - 1 \in 0..Len(log)
    BY <1>0, <2>1
  <2>3. /\ Len(log') \in Nat /\ Len(log) <= Len(log')
        /\ Replay(created', {log'[i] : i \in 1..(shard.version - 1)})
              = Replay(created, Oldest(shard.version - 1))
    BY <2>2, ReplayStays
  <2>4. QED
    BY <1>0, <1>1, <2>1, <2>3
<1>2. ASSUME NEW e \in Events, Save(e)
      PROVE  /\ shard'.version \in 1 .. Len(log') + 1
             /\ shard'.state = Apply(Replay(created', {log'[i] : i \in 1..(shard'.version - 1)}),
                                     shard'.last)
  <2>1. /\ pc[e] = "projecting" /\ log' = log /\ created' = created /\ copy[e] \in Row
        /\ shard' = [state |-> Apply(copy[e].state, e), version |-> copy[e].version + 1, last |-> e]
    BY <1>0, <1>2 DEF Save, Updated
  <2>2. /\ copy[e].version \in Nat /\ copy[e].version <= Len(log)
        /\ copy[e].state = Replay(created, Oldest(copy[e].version))
    BY <2>1 DEF CopiesAreSnapshots, Snapshot, Row
  <2>3. /\ shard'.version - 1 = copy[e].version /\ shard'.version \in 1 .. Len(log) + 1
        /\ shard'.last = e /\ shard'.state = Apply(copy[e].state, e)
    BY <1>0, <2>1, <2>2
  <2>4. {log'[i] : i \in 1..(shard'.version - 1)} = Oldest(copy[e].version)
    BY <2>1, <2>3 DEF Oldest
  <2>5. copy[e].state = Replay(created', {log'[i] : i \in 1..(shard'.version - 1)})
    BY <2>1, <2>2, <2>4
  <2>6. QED
    BY <2>1, <2>3, <2>5
<1>3. QED
  BY <1>1, <1>2 DEF Next, AppendStep, Insert, InsertProjection, Find, Commit, Fail, ReadEvents,
     Rebuild, GiveUp

LEMMA NextEventsAreProjected ==
    ASSUME TypeOK, Inserted, CopiesAreSnapshots, EventsAreProjected, Next
    PROVE  EventsAreProjected'
<1> SUFFICES ASSUME log' # <<>> PROVE Exists(default') /\ Exists(shard')
  BY DEF EventsAreProjected, Exists
<1>1. CASE log # <<>>
  BY <1>1, ExistsStays DEF EventsAreProjected
<1>2. CASE log = <<>>
  <2>1. PICK e \in Events : Commit(e)
    BY <1>2 DEF Next, AppendStep, Insert, InsertProjection, Find, Save, Fail, ReadEvents, Rebuild,
       GiveUp
  <2>2. pc[e] = "saved" /\ default' = IF Inserting(e) THEN copy[e] ELSE default
    BY <2>1 DEF Commit, Ready
  <2>3. Exists(shard) /\ (Inserting(e) \/ Exists(default))
    BY <2>2 DEF CopiesAreSnapshots
  <2>4. Inserting(e) => Exists(copy[e])
    BY EventAssumption DEF Inserting, Exists
  <2>5. QED
    BY <2>2, <2>3, <2>4, ExistsStays
<1>3. QED
  BY <1>1, <1>2

-----------------------------------------------------------------------------
(* The theorems                                                              *)

LEMMA InitEventStoreInv == Init => EventStoreInv
<1> SUFFICES ASSUME Init PROVE EventStoreInv
  OBVIOUS
<1>1. Inserted /\ CopiesAreSnapshots
  BY DEF Init, Inserted, Range, CopiesAreSnapshots
<1>2. DefaultIsSnapshot /\ ShardIsSnapshotPlusOne /\ EventsAreProjected
  BY DEF Init, DefaultIsSnapshot, ShardIsSnapshotPlusOne, EventsAreProjected, Exists, NoRow
<1>3. QED
  BY <1>1, <1>2, InitTypeOK DEF EventStoreInv

LEMMA NextEventStoreInv == EventStoreInv /\ [Next]_vars => EventStoreInv'
<1> SUFFICES ASSUME EventStoreInv, [Next]_vars PROVE EventStoreInv'
  OBVIOUS
<1> USE DEF EventStoreInv
<1>1. TypeOK' /\ Inserted'
  BY NextTypeOK
<1>2. CASE Next
  <2>1. CopiesAreSnapshots' /\ DefaultIsSnapshot'
    BY <1>2, NextCopiesAreSnapshots, NextDefaultIsSnapshot
  <2>2. ShardIsSnapshotPlusOne' /\ EventsAreProjected'
    BY <1>2, NextShardIsSnapshotPlusOne, NextEventsAreProjected
  <2>3. QED
    BY <1>1, <2>1, <2>2
<1>3. CASE UNCHANGED vars
  BY <1>1, <1>3 DEF vars, CopiesAreSnapshots, DefaultIsSnapshot, ShardIsSnapshotPlusOne,
     EventsAreProjected, Snapshot, Inserting, Exists, Oldest
<1>4. QED
  BY <1>2, <1>3

LEMMA EventStoreInvariant == Spec => []EventStoreInv
BY InitEventStoreInv, NextEventStoreInv, PTL DEF Spec

\* Every reachable state of events, projections and rebuilds is well typed, and
\* no event is inserted or committed twice.
THEOREM TypeCorrect == Spec => []TypeOK
<1>1. EventStoreInv => TypeOK
  BY DEF EventStoreInv
<1>2. QED
  BY <1>1, EventStoreInvariant, PTL

\* The projection in "default" is the one of all events there were at some
\* moment, however many rebuilds race with appends and one another, and
\* whatever the order of created_at and of the commits.
THEOREM DefaultSnapshot == Spec => []DefaultIsSnapshot
<1>1. EventStoreInv => DefaultIsSnapshot
  BY DEF EventStoreInv
<1>2. QED
  BY <1>1, EventStoreInvariant, PTL

\* The shard holds such a projection with one event on top.
THEOREM ShardSnapshotPlusOne == Spec => []ShardIsSnapshotPlusOne
<1>1. EventStoreInv => ShardIsSnapshotPlusOne
  BY DEF EventStoreInv
<1>2. QED
  BY <1>1, EventStoreInvariant, PTL

\* When there is an event there is a projection in both databases, whichever
\* requests fail, and when.
THEOREM AllEventsProjected == Spec => []EventsAreProjected
<1>1. EventStoreInv => EventsAreProjected
  BY DEF EventStoreInv
<1>2. QED
  BY <1>1, EventStoreInvariant, PTL
=============================================================================
