--------------------------- MODULE CircuitBreaker ---------------------------
(***************************************************************************)
(* breaker_call of Parent/circuit_utils.py, for one breaker name.  Its two *)
(* keys live in Redis and are shared by every process of a service; each   *)
(* Redis command is atomic, nothing else is.                               *)
(*                                                                         *)
(* No code stores HALF_OPEN: the open state simply times out.  The         *)
(* branches for it, and the counter half_open_successes, are dead and left *)
(* out.                                                                    *)
(***************************************************************************)
EXTENDS Integers, FiniteSets

CONSTANTS
    Callers,        \* threads and processes that use the breaker
    failure_limit,  \* CIRCUIT_CONFIG['failure_limit']
    MaxFailed       \* bound: how many calls fail

ASSUME BreakerAssumption ==
    /\ IsFiniteSet(Callers)
    /\ failure_limit \in Nat \ {0}
    /\ MaxFailed \in Nat

VARIABLES
    open,      \* the key "state" exists (its only value is "open")
    volatile,  \* ... and it has a timeout
    failures,  \* the key "failures"; 0 when there is none
    up,        \* the downstream service answers without an error
    pc,        \* what each caller does next
    failed,    \* calls that failed so far
    opened,    \* how often a caller opened the breaker
    passed     \* failures found to be below the limit since the counter was deleted

redis == <<open, volatile, failures>>
ghost == <<failed, opened, passed>>
vars  == <<open, volatile, failures, up, pc, failed, opened, passed>>

PC == {"idle", "calling", "succeeded", "failed", "first", "read", "opening",
       "clearing"}

TypeOK ==
    /\ open \in BOOLEAN
    /\ volatile \in BOOLEAN
    /\ failures \in Nat
    /\ up \in BOOLEAN
    /\ pc \in [Callers -> PC]
    /\ failed \in Nat
    /\ opened \in Nat
    /\ passed \in Nat

Init ==
    /\ open = FALSE
    /\ volatile = FALSE
    /\ failures = 0
    /\ up = TRUE
    /\ pc = [c \in Callers |-> "idle"]
    /\ failed = 0
    /\ opened = 0
    /\ passed = 0

Goto(c, to) == pc' = [pc EXCEPT ![c] = to]

-----------------------------------------------------------------------------
(* breaker_call                                                              *)

\* get_state: an open breaker blocks the call (nothing changes), otherwise it
\* is made.  The answer is never asked for again.
Call(c) ==
    /\ pc[c] = "idle"
    /\ ~open
    /\ Goto(c, "calling")
    /\ UNCHANGED <<redis, up, ghost>>

\* Any response below 500 is a success, a 4xx refusal included.
Succeed(c) ==
    /\ pc[c] = "calling"
    /\ up
    /\ Goto(c, "succeeded")
    /\ UNCHANGED <<redis, up, ghost>>

Fail(c) ==
    /\ pc[c] = "calling"
    /\ ~up
    /\ failed < MaxFailed
    /\ failed' = failed + 1
    /\ Goto(c, "failed")
    /\ UNCHANGED <<redis, up, opened, passed>>

DeleteFailures == failures' = 0 /\ passed' = 0

\* _reset_failures after a success, of whatever was counted meanwhile.
ResetFailures(c) ==
    /\ pc[c] = "succeeded"
    /\ DeleteFailures
    /\ Goto(c, "idle")
    /\ UNCHANGED <<open, volatile, up, failed, opened>>

\* incr of a key that exists ...
Increment(c) ==
    /\ pc[c] = "failed"
    /\ failures > 0
    /\ failures' = failures + 1
    /\ Goto(c, "read")
    /\ UNCHANGED <<open, volatile, up, ghost>>

\* ... or, after a ValueError, a set that comes later.
IncrementMissing(c) ==
    /\ pc[c] = "failed"
    /\ failures = 0
    /\ Goto(c, "first")
    /\ UNCHANGED <<redis, up, ghost>>

\* Mutant of FirstValue: the first failure is stored as none.
FirstValueZero == 0

FirstValue == 1

SetFirst(c) ==
    /\ pc[c] = "first"
    /\ failures' = FirstValue
    /\ Goto(c, "read")
    /\ UNCHANGED <<open, volatile, up, ghost>>

\* Mutant of LimitReached: the limit is taken to be one less.
LimitReachedEarly == failures >= failure_limit - 1

LimitReached == failures >= failure_limit

\* _get_failures: the counter as it is by now, not as this caller left it.
ReadFailures(c) ==
    /\ pc[c] = "read"
    /\ IF LimitReached
       THEN Goto(c, "opening") /\ UNCHANGED passed
       ELSE Goto(c, "idle") /\ passed' = passed + 1
    /\ UNCHANGED <<redis, up, failed, opened>>

\* Mutant of StoreOpen: the timeout keeps its default, None.
StoreOpenForGood == open' = TRUE /\ volatile' = FALSE

StoreOpen == open' = TRUE /\ volatile' = TRUE

Open(c) ==
    /\ pc[c] = "opening"
    /\ StoreOpen
    /\ opened' = opened + 1
    /\ Goto(c, "clearing")
    /\ UNCHANGED <<failures, up, failed, passed>>

ClearFailures(c) ==
    /\ pc[c] = "clearing"
    /\ DeleteFailures
    /\ Goto(c, "idle")
    /\ UNCHANGED <<open, volatile, up, failed, opened>>

\* The caller's process dies, or Redis refuses a command: what it has stored
\* so far stays.
Crash(c) ==
    /\ pc[c] # "idle"
    /\ Goto(c, "idle")
    /\ UNCHANGED <<redis, up, ghost>>

-----------------------------------------------------------------------------
(* Redis and the service behind the breaker                                  *)

\* recovery_timeout has passed since the breaker was last opened.
Recover ==
    /\ open
    /\ volatile
    /\ open' = FALSE
    /\ volatile' = FALSE
    /\ UNCHANGED <<failures, up, pc, ghost>>

\* Five minutes have passed since the first failure.
ForgetFailures ==
    /\ failures > 0
    /\ DeleteFailures
    /\ UNCHANGED <<open, volatile, up, pc, failed, opened>>

Toggle == up' = ~up /\ UNCHANGED <<redis, pc, ghost>>

-----------------------------------------------------------------------------
\* What a caller does once its call has been answered.
Record(c) ==
    \/ ResetFailures(c)
    \/ Increment(c)
    \/ IncrementMissing(c)
    \/ SetFirst(c)
    \/ ReadFailures(c)
    \/ Open(c)
    \/ ClearFailures(c)

Next ==
    \/ \E c \in Callers : Call(c) \/ Succeed(c) \/ Fail(c) \/ Record(c) \/ Crash(c)
    \/ Recover
    \/ ForgetFailures
    \/ Toggle

Spec == Init /\ [][Next]_vars

\* A caller that has its answer records it; Redis drops a key whose time is up.
\* Nothing is assumed of the calls or of the service behind them.
FairSpec ==
    /\ Spec
    /\ \A c \in Callers : WF_vars(Record(c))
    /\ WF_vars(Recover)

-----------------------------------------------------------------------------
(* Properties                                                                *)

\* The breaker never opens on fewer failures than the limit: stale resets and
\* overwritten counts only ever lower the counter.
OpensOnFailuresOnly == opened > 0 => failed >= failure_limit

\* Lost increments (a set that overwrites what others counted, a reader that
\* comes after it) are bounded: with N callers at most N * (failure_limit - 1)
\* + (1 + ... + N) failures in a row go by without one that opens the breaker.
FailuresAreNoticed ==
    LET N == Cardinality(Callers)
    IN  passed <= N * (failure_limit - 1) + (N * (N + 1)) \div 2

\* Once the service stays up, the breaker lets calls through for good, even
\* when a slow caller opened it late.
RecoversForGood == <>[]up => <>[]~open
=============================================================================
