----------------------------- MODULE RateCache -----------------------------
(***************************************************************************)
(* The exchange rate of one currency pair in forex_service: the rows of    *)
(* ExchangeRate, the key in Redis that caches the newest of them, and the  *)
(* post_save handler that deletes the key.  effective_from is unique, so   *)
(* that it names a row; two figures stand for what a row can say.          *)
(*                                                                         *)
(* update_rate and the fetching task commit a row and then delete the key. *)
(* The form of the admin site adds a row, with any effective_from, in one  *)
(* transaction with its handlers, so that the key goes before the row can  *)
(* be seen; for a change or a deletion of a row it does not go at all.     *)
(***************************************************************************)
EXTENDS Integers, FiniteSetsExt

CONSTANTS
    Readers,   \* requests to "rates" and "convert"
    Writers,   \* requests to "update_rate", and runs of the fetching task
    Editors,   \* forms of the admin site that add a rate
    Figures,   \* what a row can say of the rate
    MaxStamp   \* bound of the clock, and of effective_from

ASSUME RateCacheAssumption == MaxStamp \in Nat

VARIABLES
    rates,     \* the rows
    cached,    \* the rate in Redis, or NoRate
    stamped,   \* the clock; no two stamps are the same
    reader,    \* what each reader does next
    newest,    \* the rate it has read from the database
    writer,    \* what each writer does next
    stamp,     \* the stamp it has taken
    pending,   \* the row each form has inserted and not yet committed
    floor      \* see RateNeverFallsBack

reading  == <<reader, newest>>
writing  == <<writer, stamp>>
rateVars == <<rates, cached, stamped, reading, writing, pending, floor>>

Rate   == [from : Nat \ {0}, figure : Figures]
NoRate == [from |-> 0]

ReaderSteps == {"idle", "missed", "filling"}
WriterSteps == {"idle", "asking", "inserting", "clearing"}

RateCacheTypeOK ==
    /\ rates \subseteq Rate
    /\ cached \in Rate \cup {NoRate}
    /\ stamped \in Nat
    /\ reader \in [Readers -> ReaderSteps]
    /\ newest \in [Readers -> Rate \cup {NoRate}]
    /\ writer \in [Writers -> WriterSteps]
    /\ stamp \in [Writers -> Nat]
    /\ pending \in [Editors -> Rate \cup {NoRate}]
    /\ floor \in Nat

RateCacheInit ==
    /\ rates = {}
    /\ cached = NoRate
    /\ stamped = 0
    /\ reader = [r \in Readers |-> "idle"]
    /\ newest = [r \in Readers |-> NoRate]
    /\ writer = [w \in Writers |-> "idle"]
    /\ stamp = [w \in Writers |-> 0]
    /\ pending = [e \in Editors |-> NoRate]
    /\ floor = 0

-----------------------------------------------------------------------------
(* get_current_rate; "convert" calls it twice, "rates" once per pair.  A hit *)
(* changes nothing, and neither does a miss without a row.                   *)

GetCached(r) ==
    /\ reader[r] = "idle"
    /\ cached = NoRate
    /\ reader' = [reader EXCEPT ![r] = "missed"]
    /\ UNCHANGED <<rates, cached, stamped, newest, writing, pending, floor>>

\* Rates that are in effect by now.
Effective == {q \in rates : q.from <= stamped}

\* Mutant of Current: the rows are ordered the other way round.
Oldest == CHOOSE q \in Effective : \A p \in Effective : q.from <= p.from

Current == CHOOSE q \in Effective : \A p \in Effective : p.from <= q.from

ReadNewest(r) ==
    /\ reader[r] = "missed"
    /\ Effective # {}
    /\ reader' = [reader EXCEPT ![r] = "filling"]
    /\ newest' = [newest EXCEPT ![r] = Current]
    /\ UNCHANGED <<rates, cached, stamped, writing, pending, floor>>

\* cache_rate: whatever has become of the rate meanwhile.
CacheRate(r) ==
    /\ reader[r] = "filling"
    /\ cached' = newest[r]
    /\ reader' = [reader EXCEPT ![r] = "idle"]
    /\ newest' = [newest EXCEPT ![r] = NoRate]
    /\ UNCHANGED <<rates, stamped, writing, pending, floor>>

\* No row, or the process or Redis fails.
ReaderEnds(r) ==
    /\ reader[r] # "idle"
    /\ reader' = [reader EXCEPT ![r] = "idle"]
    /\ newest' = [newest EXCEPT ![r] = NoRate]
    /\ UNCHANGED <<rates, cached, stamped, writing, pending, floor>>

-----------------------------------------------------------------------------
(* A new rate                                                                *)

\* Nobody has inserted a row for that time, committed or not: an insert that
\* meets an uncommitted one waits for it.
Vacant(s) ==
    /\ \A q \in rates : q.from # s
    /\ \A e \in Editors : pending[e].from # s

\* What floor is with these rows: where its own is gone, an older one if any.
Sunk(rows) ==
    LET older == {q.from : q \in {p \in rows : p.from < floor}}
    IN  IF older = {} \/ \E q \in rows : q.from = floor THEN floor ELSE Max(older)

Store(rows) == rates' = rows /\ floor' = Sunk(rows)

TimePasses ==
    /\ stamped < MaxStamp
    /\ stamped' = stamped + 1
    /\ UNCHANGED <<rates, cached, reading, writing, pending, floor>>

TakeStamp(w, next) ==
    /\ writer[w] = "idle"
    /\ stamped < MaxStamp
    /\ stamped' = stamped + 1
    /\ stamp' = [stamp EXCEPT ![w] = stamped + 1]
    /\ writer' = [writer EXCEPT ![w] = next]
    /\ UNCHANGED <<rates, cached, reading, pending, floor>>

\* update_rate
UpdateRate(w) == TakeStamp(w, "inserting")

\* fetch_live_forex_rates takes its stamp before it asks the provider.
FetchRates(w) == TakeStamp(w, "asking")

\* The answer, or, for a pair that is late in the loop, the turn of the pair.
QuoteArrives(w) ==
    /\ writer[w] = "asking"
    /\ writer' = [writer EXCEPT ![w] = "inserting"]
    /\ UNCHANGED <<rates, cached, stamped, reading, stamp, pending, floor>>

InsertRate(w, figure) ==
    /\ writer[w] = "inserting"
    /\ Vacant(stamp[w])
    /\ Store(rates \cup {[from |-> stamp[w], figure |-> figure]})
    /\ writer' = [writer EXCEPT ![w] = "clearing"]
    /\ UNCHANGED <<cached, stamped, reading, stamp, pending>>

\* A row of the writer, and no reader that is about to cache an older one.
Landed(w) ==
    /\ \E q \in rates : q.from = stamp[w]
    /\ \A r \in Readers : reader[r] = "filling" => newest[r].from >= stamp[w]

\* handle_rate_update, after the row is committed.
ClearCached(w) ==
    /\ writer[w] = "clearing"
    /\ cached' = NoRate
    /\ floor' = IF Landed(w) THEN Max({floor, stamp[w]}) ELSE floor
    /\ writer' = [writer EXCEPT ![w] = "idle"]
    /\ stamp' = [stamp EXCEPT ![w] = 0]
    /\ UNCHANGED <<rates, stamped, reading, pending>>

\* The provider has no answer or no rate for the pair, the row is there
\* already, the process dies, or Redis fails: a row that was inserted stays,
\* and so does the key.
WriterEnds(w) ==
    /\ writer[w] # "idle"
    /\ writer' = [writer EXCEPT ![w] = "idle"]
    /\ stamp' = [stamp EXCEPT ![w] = 0]
    /\ UNCHANGED <<rates, cached, stamped, reading, pending, floor>>

-----------------------------------------------------------------------------
(* The admin site                                                            *)

\* The handler runs inside the transaction of the form.
AddRate(e, row) ==
    /\ pending[e] = NoRate
    /\ Vacant(row.from)
    /\ pending' = [pending EXCEPT ![e] = row]
    /\ cached' = NoRate
    /\ UNCHANGED <<rates, stamped, reading, writing, floor>>

CommitRate(e) ==
    /\ pending[e] # NoRate
    /\ Store(rates \cup {pending[e]})
    /\ pending' = [pending EXCEPT ![e] = NoRate]
    /\ UNCHANGED <<cached, stamped, reading, writing>>

\* The process dies: the row is rolled back, the key is not.
AbandonRate(e) ==
    /\ pending[e] # NoRate
    /\ pending' = [pending EXCEPT ![e] = NoRate]
    /\ UNCHANGED <<rates, cached, stamped, reading, writing, floor>>

\* Not created: the handler leaves the key alone.  NoRate for a row that was
\* one of another pair.
EditRate(old, new) ==
    /\ new # old
    /\ new.from = old.from \/ Vacant(new.from)
    /\ Store((rates \ {old}) \cup {new})
    /\ UNCHANGED <<cached, stamped, reading, writing, pending>>

\* There is no handler for deletions.
RemoveRate(row) ==
    /\ Store(rates \ {row})
    /\ UNCHANGED <<cached, stamped, reading, writing, pending>>

-----------------------------------------------------------------------------
\* cleanup_old_rates deletes what is older than ten minutes, the current rate
\* included.  A run of the fetching task whose loop is slow may still insert
\* a rate that is older.
CleanupRates(limit) ==
    /\ \E q \in rates : q.from <= limit
    /\ Store({q \in rates : q.from > limit})
    /\ UNCHANGED <<cached, stamped, reading, writing, pending>>

\* Mutant of Volatile: the key is set without its time to live.
VolatileNever == FALSE

\* Redis keeps a key for an hour.
Volatile == cached # NoRate

KeyExpires ==
    /\ Volatile
    /\ cached' = NoRate
    /\ UNCHANGED <<rates, stamped, reading, writing, pending, floor>>

\* Rates that the admin site can be given.
Enterable == [from : 1..MaxStamp, figure : Figures]

RateCacheNext ==
    \/ \E r \in Readers : GetCached(r) \/ ReadNewest(r) \/ CacheRate(r) \/ ReaderEnds(r)
    \/ \E w \in Writers :
          \/ UpdateRate(w)
          \/ FetchRates(w)
          \/ QuoteArrives(w)
          \/ \E f \in Figures : InsertRate(w, f)
          \/ ClearCached(w)
          \/ WriterEnds(w)
    \/ \E e \in Editors :
          \/ \E row \in Enterable : AddRate(e, row)
          \/ CommitRate(e)
          \/ AbandonRate(e)
    \/ \E old \in rates : RemoveRate(old)
    \/ \E old \in rates \cup {NoRate}, new \in Enterable : EditRate(old, new)
    \/ \E limit \in 1..stamped : CleanupRates(limit)
    \/ KeyExpires
    \/ TimePasses

RateCacheSpec == RateCacheInit /\ [][RateCacheNext]_rateVars

\* Redis drops a key whose hour is over.  Nothing else is assumed: a reader may
\* stand still for ever, and a writer may never clear the key.
RateCacheFairness == WF_rateVars(KeyExpires)

-----------------------------------------------------------------------------
(* Properties                                                                *)

\* Served rates fall back only where the rows do.  Take the newest rate for
\* which update_rate or the task deleted the key while its row was there and no
\* reader stood between its query and its setex with an older one: no older
\* rate is served from Redis again, whatever readers, late inserts, cleanups
\* and the admin site do, unless that row is deleted or moved and an older one
\* is left or comes later.
RateNeverFallsBack == cached # NoRate => cached.from >= floor

\* Every way in which the key goes stale (a reader that fills it late, a
\* deletion that is lost or comes before the commit, a row that is changed or
\* deleted, one that comes into effect by itself) heals: if one rate stays the
\* current one, then from some time on Redis holds that rate or none.
CacheCatchesUp ==
    \A q \in Enterable :
        <>[](Effective # {} /\ Current = q) => <>[](cached \in {NoRate, q})

-----------------------------------------------------------------------------
(* The invariants behind the properties                                      *)

\* No rate older than floor is the current one: the row of floor is there, or
\* all are newer.
FloorHolds ==
    \/ \E q \in rates : q.from = floor
    \/ \A q \in rates : q.from > floor

\* The inductive invariant.
RateInv ==
    /\ RateCacheTypeOK
    /\ \A w \in Writers : writer[w] # "idle" => stamp[w] \in 1..stamped
    /\ floor <= stamped
    /\ FloorHolds
    /\ \A r \in Readers : reader[r] = "filling" => newest[r].from >= floor
    /\ RateNeverFallsBack
=============================================================================
