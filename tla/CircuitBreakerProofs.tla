------------------------ MODULE CircuitBreakerProofs ------------------------
(***************************************************************************)
(* Proofs about CircuitBreaker for any number of callers and any limit.    *)
(***************************************************************************)
EXTENDS CircuitBreaker, FiniteSetTheorems, TLAPS

\* The callers at a point of breaker_call, and how many they are.
At(s)    == {c \in Callers : pc[c] = s}
Count(s) == Cardinality(At(s))

CallersNo == Cardinality(Callers)

-----------------------------------------------------------------------------
(* Counting callers                                                          *)

\* There are finitely many callers at each point.
LEMMA AtFinite ==
  ASSUME NEW s
  PROVE  IsFiniteSet(At(s)) /\ Count(s) \in Nat
BY BreakerAssumption, FS_Subset, FS_CardinalityType DEF At, Count

\* CallersNo is a number, since the callers are finitely many.
LEMMA CallersNat == CallersNo \in Nat
BY BreakerAssumption, FS_CardinalityType DEF CallersNo

\* Callers in "first" and in "read" are different ones.
LEMMA FirstAndRead == Count("first") + Count("read") <= CallersNo
<1> DEFINE F == At("first")
           R == At("read")
<1>1. IsFiniteSet(F) /\ IsFiniteSet(R)
  BY AtFinite
<1>2. Cardinality(F) \in Nat /\ Cardinality(R) \in Nat
  BY <1>1, FS_CardinalityType
<1>3. F \cap R = {} /\ F \cup R \subseteq Callers
  BY DEF At
<1>4. Cardinality(F \cap R) = 0
  BY <1>3, FS_EmptySet
<1> HIDE DEF F, R
<1>5. Cardinality(F \cup R) = Cardinality(F) + Cardinality(R)
  <2>1. Cardinality(F \cup R)
          = Cardinality(F) + Cardinality(R) - Cardinality(F \cap R)
    BY <1>1, FS_Union
  <2>2. QED
    BY <1>2, <1>4, <2>1
<1>6. Cardinality(F \cup R) <= Cardinality(Callers)
  BY <1>3, BreakerAssumption, FS_Subset
<1>7. QED
  BY <1>5, <1>6 DEF F, R, Count, CallersNo

\* What one caller's step from one point to another does to the counts.
LEMMA Move ==
  ASSUME TypeOK,
         NEW c \in Callers, NEW from \in PC, NEW to \in PC, from # to,
         pc[c] = from, Goto(c, to)
  PROVE  /\ Count(to)' = Count(to) + 1
         /\ Count(from)' = Count(from) - 1
         /\ \A s \in PC \ {from, to} : Count(s)' = Count(s)
<1>1. At(to)' = At(to) \cup {c} /\ c \notin At(to)
  BY DEF At, Goto, TypeOK
<1>2. At(from)' = At(from) \ {c} /\ c \in At(from)
  BY DEF At, Goto, TypeOK
<1>3. \A s \in PC \ {from, to} : At(s)' = At(s)
  BY DEF At, Goto, TypeOK
<1>4. Cardinality(At(to) \cup {c}) = Cardinality(At(to)) + 1
  BY <1>1, AtFinite, FS_AddElement
<1>5. Cardinality(At(from) \ {c}) = Cardinality(At(from)) - 1
  BY <1>2, AtFinite, FS_RemoveElement
<1>6. QED
  BY <1>1, <1>2, <1>3, <1>4, <1>5 DEF Count

-----------------------------------------------------------------------------
(* Types: the flags and the rest of TypeOK                                   *)

Flags == open \in BOOLEAN /\ volatile \in BOOLEAN /\ up \in BOOLEAN

Numbers ==
    /\ failures \in Nat
    /\ pc \in [Callers -> PC]
    /\ failed \in Nat
    /\ opened \in Nat
    /\ passed \in Nat

\* TypeOK, cut in two.
LEMMA TypeParts == TypeOK <=> Flags /\ Numbers
BY Zenon DEF TypeOK, Flags, Numbers

\* Each step keeps the flags Boolean.
LEMMA NextFlags == Flags /\ [Next]_vars => Flags'
<1> SUFFICES ASSUME Flags, [Next]_vars PROVE Flags'
  OBVIOUS
<1>1. ASSUME NEW c \in Callers, Call(c) \/ Succeed(c) \/ Fail(c) \/ Crash(c)
      PROVE  Flags'
  BY <1>1, Zenon DEF Flags, redis, Call, Succeed, Fail, Crash
<1>2. ASSUME NEW c \in Callers, Record(c) PROVE Flags'
  BY <1>2, Zenon DEF Flags, redis, Record, ResetFailures, Increment, IncrementMissing,
                     SetFirst, ReadFailures, Open, StoreOpen, ClearFailures
<1>3. CASE Recover
  BY <1>3, Zenon DEF Flags, Recover
<1>4. CASE ForgetFailures
  BY <1>4, Zenon DEF Flags, ForgetFailures
<1>5. CASE Toggle
  BY <1>5, Zenon DEF Flags, Toggle, redis
<1>6. CASE UNCHANGED vars
  BY <1>6, Zenon DEF Flags, vars
<1>7. QED
  BY <1>1, <1>2, <1>3, <1>4, <1>5, <1>6 DEF Next

\* Each step keeps the counters natural numbers and the callers at known points.
LEMMA NextNumbers == Numbers /\ [Next]_vars => Numbers'
<1> SUFFICES ASSUME Numbers, [Next]_vars PROVE Numbers'
  OBVIOUS
<1> USE DEF Numbers, redis, ghost, Goto, PC
<1>1. ASSUME NEW c \in Callers, Call(c) \/ Succeed(c) \/ Fail(c) \/ Crash(c)
      PROVE  Numbers'
  BY <1>1 DEF Call, Succeed, Fail, Crash
<1>2. ASSUME NEW c \in Callers, Record(c) PROVE Numbers'
  <2>1. CASE ResetFailures(c) \/ ClearFailures(c)
    BY <2>1 DEF ResetFailures, ClearFailures, DeleteFailures
  <2>2. CASE Increment(c) \/ IncrementMissing(c)
    BY <2>2 DEF Increment, IncrementMissing
  <2>3. CASE SetFirst(c)
    BY <2>3 DEF SetFirst, FirstValue
  <2>4. CASE ReadFailures(c)
    BY <2>4 DEF ReadFailures
  <2>5. CASE Open(c)
    BY <2>5 DEF Open
  <2>6. QED
    BY <1>2, <2>1, <2>2, <2>3, <2>4, <2>5 DEF Record
<1>3. CASE Recover \/ ForgetFailures \/ Toggle
  BY <1>3 DEF Recover, ForgetFailures, DeleteFailures, Toggle
<1>4. CASE UNCHANGED vars
  BY <1>4 DEF vars
<1>5. QED
  BY <1>1, <1>2, <1>3, <1>4 DEF Next

\* Every reachable state is well typed.
THEOREM TypeCorrect == Spec => []TypeOK
<1>1. Init => Flags
  BY Zenon DEF Init, Flags
<1>2. Init => Numbers
  BY DEF Init, Numbers, PC
<1>3. QED
  BY <1>1, <1>2, NextFlags, NextNumbers, TypeParts, PTL DEF Spec

-----------------------------------------------------------------------------
(* The breaker opens on failures only                                        *)

\* Every failure that is counted, or is about to be, did happen.
CountedOnce == failures + Count("failed") + Count("first") <= failed

OpeningOK ==
    \A c \in Callers : pc[c] = "opening" => failed >= failure_limit

OpenInv == CountedOnce /\ OpeningOK /\ OpensOnFailuresOnly

NatCounts ==
    Count("failed") \in Nat /\ Count("first") \in Nat /\ Count("read") \in Nat

\* The counts in use are natural numbers, before a step and after it.
LEMMA CountsNat == NatCounts /\ NatCounts'
<1>1. NatCounts
  BY AtFinite DEF NatCounts
<1>2. QED
  BY <1>1, PTL

\* Initially every caller is idle.
LEMMA InitCounts == Init => \A s \in PC \ {"idle"} : Count(s) = 0
<1>1. Init => \A s \in PC \ {"idle"} : At(s) = {}
  BY DEF Init, At
<1>2. QED
  BY <1>1, FS_EmptySet DEF Count

\* A step that moves no caller leaves the counts alone.
LEMMA Stay == UNCHANGED pc => \A s \in PC : Count(s)' = Count(s)
BY DEF Count, At

\* A caller that gives up is counted nowhere any more.
LEMMA CrashCounts ==
  ASSUME TypeOK, NEW c \in Callers, Crash(c)
  PROVE  /\ Count("failed")' <= Count("failed")
         /\ \/ /\ Count("first")' = Count("first") - 1
               /\ Count("read")' = Count("read")
            \/ /\ Count("first")' = Count("first")
               /\ Count("read")' <= Count("read")
<1>1. PICK from \in PC : pc[c] = from
  BY DEF TypeOK
<1>2. /\ Count(from)' = Count(from) - 1
      /\ \A s \in PC \ {from, "idle"} : Count(s)' = Count(s)
  BY <1>1, Move DEF Crash, PC
<1>3. QED
  BY <1>2, CountsNat DEF PC, NatCounts

\* Each step of breaker_call and of Redis preserves OpenInv.
LEMMA NextOpenInv == TypeOK /\ OpenInv /\ [Next]_vars => OpenInv'
<1> SUFFICES ASSUME TypeOK, OpenInv, [Next]_vars PROVE OpenInv'
  OBVIOUS
<1> USE BreakerAssumption, CountsNat
       DEF NatCounts, OpenInv, CountedOnce, OpeningOK, OpensOnFailuresOnly
<1>1. ASSUME NEW c \in Callers, Call(c) \/ Succeed(c) PROVE OpenInv'
  <2>1. \A s \in {"failed", "first"} : Count(s)' = Count(s)
    BY <1>1, Move DEF Call, Succeed, PC
  <2>2. QED
    BY <1>1, <2>1 DEF Call, Succeed, Goto, redis, ghost, TypeOK
<1>2. ASSUME NEW c \in Callers, Fail(c) PROVE OpenInv'
  <2>1. Count("failed")' = Count("failed") + 1 /\ Count("first")' = Count("first")
    BY <1>2, Move DEF Fail, PC
  <2>2. QED
    BY <1>2, <2>1 DEF Fail, Goto, redis, TypeOK
<1>3. ASSUME NEW c \in Callers, ResetFailures(c) \/ ClearFailures(c) PROVE OpenInv'
  <2>1. \A s \in {"failed", "first"} : Count(s)' = Count(s)
    BY <1>3, Move DEF ResetFailures, ClearFailures, PC
  <2>2. QED
    BY <1>3, <2>1 DEF ResetFailures, ClearFailures, DeleteFailures, Goto, TypeOK
<1>4. ASSUME NEW c \in Callers, Increment(c) PROVE OpenInv'
  <2>1. Count("failed")' = Count("failed") - 1 /\ Count("first")' = Count("first")
    BY <1>4, Move DEF Increment, PC
  <2>2. QED
    BY <1>4, <2>1 DEF Increment, Goto, ghost, TypeOK
<1>5. ASSUME NEW c \in Callers, IncrementMissing(c) PROVE OpenInv'
  <2>1. Count("failed")' = Count("failed") - 1 /\ Count("first")' = Count("first") + 1
    BY <1>5, Move DEF IncrementMissing, PC
  <2>2. QED
    BY <1>5, <2>1 DEF IncrementMissing, Goto, redis, ghost, TypeOK
<1>6. ASSUME NEW c \in Callers, SetFirst(c) PROVE OpenInv'
  <2>1. Count("failed")' = Count("failed") /\ Count("first")' = Count("first") - 1
    BY <1>6, Move DEF SetFirst, PC
  <2>2. QED
    BY <1>6, <2>1 DEF SetFirst, FirstValue, Goto, ghost, TypeOK
<1>7. ASSUME NEW c \in Callers, ReadFailures(c) PROVE OpenInv'
  <2>1. \A s \in {"failed", "first"} : Count(s)' = Count(s)
    BY <1>7, Move DEF ReadFailures, PC
  <2>2. LimitReached => failed >= failure_limit
    BY DEF LimitReached, TypeOK
  <2>3. QED
    BY <1>7, <2>1, <2>2 DEF ReadFailures, Goto, redis, TypeOK
<1>8. ASSUME NEW c \in Callers, Open(c) PROVE OpenInv'
  <2>1. \A s \in {"failed", "first"} : Count(s)' = Count(s)
    BY <1>8, Move DEF Open, PC
  <2>2. QED
    BY <1>8, <2>1 DEF Open, Goto, TypeOK
<1>9. ASSUME NEW c \in Callers, Crash(c) PROVE OpenInv'
  <2>1. Count("failed")' <= Count("failed") /\ Count("first")' <= Count("first")
    BY <1>9, CrashCounts
  <2>2. QED
    BY <1>9, <2>1 DEF Crash, Goto, redis, ghost, TypeOK
<1>10. CASE Recover \/ ForgetFailures \/ Toggle \/ UNCHANGED vars
  <2>1. \A s \in {"failed", "first"} : Count(s)' = Count(s)
    BY <1>10, Stay DEF Recover, ForgetFailures, Toggle, vars, PC
  <2>2. QED
    BY <1>10, <2>1 DEF Recover, ForgetFailures, DeleteFailures, Toggle, redis, ghost,
                       vars, TypeOK
<1>11. QED
  BY <1>1, <1>2, <1>3, <1>4, <1>5, <1>6, <1>7, <1>8, <1>9, <1>10 DEF Next, Record

\* The breaker is never opened on fewer failures than the limit, however the
\* commands of breaker_call interleave.
THEOREM OpensRightly == Spec => []OpensOnFailuresOnly
<1>1. Init => OpenInv
  BY InitCounts, BreakerAssumption
     DEF Init, OpenInv, CountedOnce, OpeningOK, OpensOnFailuresOnly, PC
<1>2. OpenInv => OpensOnFailuresOnly
  BY DEF OpenInv
<1>3. QED
  BY <1>1, <1>2, NextOpenInv, TypeCorrect, PTL DEF Spec

-----------------------------------------------------------------------------
(* Failures are noticed.                                                     *)
(*                                                                           *)
(* A caller in "first" will set the counter back to one, and can so take     *)
(* back what all the others have counted.  The more callers wait there, the  *)
(* less of them have counted anything: the k-th of the callers in "first" is *)
(* worth N + L - 1 - k failures that go by unnoticed, N the number of        *)
(* callers, L the limit.  Everything is doubled, to stay with integers.      *)

Weight(f, n, l) == 2 * f * (n + l - 1) - f * (f + 1)
Budget(n, l)    == 2 * n * (l - 1) + n * (n + 1)

\* Weights and budgets are integers.
LEMMA WeightType ==
  ASSUME NEW n \in Nat, NEW l \in Nat \ {0}, NEW f \in Nat
  PROVE  Weight(f, n, l) \in Int /\ Budget(n, l) \in Int
BY DEF Weight, Budget

\* What one more caller in "first" is worth.
LEMMA WeightStep ==
  ASSUME NEW n \in Nat, NEW l \in Nat \ {0}, NEW g \in Nat
  PROVE  Weight(g + 1, n, l) = Weight(g, n, l) + 2 * (n + l - 2 - g)
BY DEF Weight

\* For the products below, which the solver does not judge by itself.
LEMMA ProductNat == ASSUME NEW a \in Nat, NEW b \in Nat PROVE a * b \in Nat
OBVIOUS

\* No weight is negative, since at most all callers wait in "first".
LEMMA WeightNat ==
  ASSUME NEW n \in Nat, NEW l \in Nat \ {0}, NEW f \in Nat, f <= n
  PROVE  Weight(f, n, l) >= 0
<1>1. CASE f = 0
  BY <1>1 DEF Weight
<1>2. CASE f > 0
  <2> DEFINE b == 2 * (n + l - 1) - (f + 1)
  <2>1. b \in Nat
    BY <1>2
  <2>2. Weight(f, n, l) = f * b
    BY DEF Weight
  <2>3. QED
    BY <2>1, <2>2, ProductNat
<1>3. QED
  BY <1>1, <1>2

\* Once a caller has stored the first value, the others still fit in the budget.
LEMMA WeightRoom ==
  ASSUME NEW n \in Nat, NEW l \in Nat \ {0}, NEW g \in Nat, g < n
  PROVE  2 * n + 2 * (l - 1) + Weight(g, n, l) <= Budget(n, l)
<1> DEFINE h == n - 1 - g
<1>1. h \in Nat /\ n = g + 1 + h
  OBVIOUS
<1>2. PICK m \in Nat : l = m + 1
  <2>1. l - 1 \in Nat /\ l = (l - 1) + 1
    OBVIOUS
  <2>2. QED
    BY <2>1
<1> HIDE DEF h
<1>3. Budget(n, l)
        = 2 * n + 2 * (l - 1) + Weight(g, n, l) + (2 * (m * h) + h * (h + 1))
  BY <1>1, <1>2 DEF Weight, Budget
<1>4. m * h \in Nat /\ h * (h + 1) \in Nat
  BY <1>1, <1>2, ProductNat
<1>5. QED
  BY <1>3, <1>4, WeightType

\* What holds of the counter k, the failures p that went by, and the numbers of
\* callers in "first" and in "read".
Noticed(k, p, first, read) ==
    LET n == CallersNo
        l == failure_limit
    IN  /\ k = 0 => p + read <= n
        /\ k > 0 /\ k < l =>
             2 * p + 2 * read + 2 * (l - 1 - k) + Weight(first, n, l) <= Budget(n, l)
        /\ k >= l => 2 * p + Weight(first, n, l) <= Budget(n, l)

\* A deleted counter: only the callers in "read" may still let a failure go by.
LEMMA NoticedReset ==
  ASSUME NEW f \in Nat, NEW r \in Nat, r <= CallersNo
  PROVE  Noticed(0, 0, f, r)
BY BreakerAssumption, CallersNat DEF Noticed

\* incr moves a failure from the counter's room to one more reader.
LEMMA NoticedIncrement ==
  ASSUME NEW k \in Nat \ {0}, NEW p \in Nat, NEW f \in Nat, NEW r \in Nat,
         Noticed(k, p, f, r)
  PROVE  Noticed(k + 1, p, f, r + 1)
BY BreakerAssumption, CallersNat, WeightType DEF Noticed

\* A set to one costs what the caller in "first" was worth, or less.
LEMMA NoticedFirst ==
  ASSUME NEW k \in Nat, NEW p \in Nat, NEW g \in Nat, NEW r \in Nat,
         Noticed(k, p, g + 1, r), g + 1 + r <= CallersNo
  PROVE  Noticed(1, p, g, r + 1)
<1> DEFINE n == CallersNo
           l == failure_limit
<1>1. n \in Nat /\ l \in Nat \ {0} /\ g < n
  BY BreakerAssumption, CallersNat
<1> HIDE DEF n, l
<1>2. Weight(g + 1, n, l) = Weight(g, n, l) + 2 * (n + l - 2 - g)
  BY <1>1, WeightStep
<1>3. 2 * n + 2 * (l - 1) + Weight(g, n, l) <= Budget(n, l)
  BY <1>1, WeightRoom
<1>4. Weight(g, n, l) \in Int /\ Budget(n, l) \in Int
  BY <1>1, WeightType
<1>5. QED
  BY <1>1, <1>2, <1>3, <1>4 DEF Noticed, n, l

\* A reader below the limit turns into a failure that went by.
LEMMA NoticedRead ==
  ASSUME NEW k \in Nat, k < failure_limit, NEW p \in Nat, NEW f \in Nat,
         NEW r \in Nat \ {0}, Noticed(k, p, f, r)
  PROVE  Noticed(k, p + 1, f, r - 1)
BY BreakerAssumption, CallersNat, WeightType DEF Noticed

\* A reader that opens the breaker, or dies, frees budget.
LEMMA NoticedFewerReaders ==
  ASSUME NEW k \in Nat, NEW p \in Nat, NEW f \in Nat, NEW r \in Nat, NEW s \in Nat,
         s <= r, Noticed(k, p, f, r)
  PROVE  Noticed(k, p, f, s)
BY BreakerAssumption, CallersNat, WeightType DEF Noticed

\* So does a caller that dies before its set.
LEMMA NoticedFewerFirsts ==
  ASSUME NEW k \in Nat, NEW p \in Nat, NEW g \in Nat, NEW r \in Nat,
         g + 1 <= CallersNo, Noticed(k, p, g + 1, r)
  PROVE  Noticed(k, p, g, r)
<1>1. Weight(g, CallersNo, failure_limit) <= Weight(g + 1, CallersNo, failure_limit)
  BY BreakerAssumption, CallersNat, WeightStep, WeightType
<1>2. QED
  BY <1>1, BreakerAssumption, CallersNat, WeightType DEF Noticed

\* Within the budget, the bound of FailuresAreNoticed holds.
LEMMA NoticedEnough ==
  ASSUME NEW k \in Nat, NEW p \in Nat, NEW f \in Nat, NEW r \in Nat,
         f <= CallersNo, Noticed(k, p, f, r)
  PROVE  p <= CallersNo * (failure_limit - 1) + (CallersNo * (CallersNo + 1)) \div 2
<1> DEFINE n == CallersNo
           l == failure_limit
<1>1. n \in Nat /\ l \in Nat \ {0} /\ l - 1 \in Nat
  BY BreakerAssumption, CallersNat
<1>2. Weight(f, n, l) >= 0 /\ Weight(f, n, l) \in Int /\ Budget(n, l) \in Int
  BY <1>1, WeightNat, WeightType
<1> HIDE DEF n, l
<1>3. 2 * p <= Budget(n, l)
  <2>1. CASE k > 0
    BY <2>1, <1>1, <1>2 DEF Noticed, n, l
  <2>2. CASE k = 0
    <3>1. p <= n
      BY <2>2, <1>1 DEF Noticed, n, l
    <3>2. 2 * n <= Budget(n, l)
      <4>1. n * (l - 1) \in Nat
        BY <1>1, ProductNat
      <4>2. 2 * n <= n * (n + 1)
        <5>1. CASE n = 0
          BY <5>1
        <5>2. CASE n > 0
          <6>1. (n - 1) * n \in Nat
            BY <1>1, <5>2, ProductNat
          <6>2. n * (n + 1) = 2 * n + (n - 1) * n
            BY <1>1
          <6>3. QED
            BY <1>1, <6>1, <6>2
        <5>3. QED
          BY <1>1, <5>1, <5>2
      <4>3. 2 * n * (l - 1) = 2 * (n * (l - 1))
        BY <1>1
      <4>4. QED
        BY <1>1, <4>1, <4>2, <4>3 DEF Budget
    <3>3. QED
      BY <1>1, <1>2, <3>1, <3>2
  <2>3. QED
    BY <2>1, <2>2
<1> DEFINE a == n * (l - 1)
           x == n * (n + 1)
<1>4. a \in Nat /\ x \in Nat
  BY <1>1, ProductNat
<1>5. Budget(n, l) = 2 * a + x
  BY <1>1 DEF Budget
<1> HIDE DEF a, x
<1>6. p <= a + x \div 2
  BY <1>3, <1>4, <1>5
<1>7. QED
  BY <1>6 DEF a, x, n, l

NoticedInv == Noticed(failures, passed, Count("first"), Count("read"))

\* Each step of breaker_call and of Redis preserves NoticedInv.
LEMMA NextNoticedInv == TypeOK /\ NoticedInv /\ [Next]_vars => NoticedInv'
<1> SUFFICES ASSUME TypeOK, NoticedInv, [Next]_vars PROVE NoticedInv'
  OBVIOUS
<1> DEFINE f == Count("first")
           r == Count("read")
<1>a. f \in Nat /\ r \in Nat /\ f' \in Nat /\ r' \in Nat
  BY CountsNat DEF NatCounts
<1>b. f + r <= CallersNo /\ f <= CallersNo /\ r <= CallersNo /\ CallersNo \in Nat
  BY <1>a, FirstAndRead, CallersNat
<1>c. failures \in Nat /\ passed \in Nat /\ failure_limit \in Nat \ {0}
  BY BreakerAssumption DEF TypeOK
<1>d. Noticed(failures, passed, f, r)
  BY DEF NoticedInv
<1>1. ASSUME NEW c \in Callers, Call(c) \/ Succeed(c) \/ Fail(c) \/ Open(c)
      PROVE  NoticedInv'
  <2>1. f' = f /\ r' = r
    BY <1>1, Move DEF Call, Succeed, Fail, Open, PC
  <2>2. UNCHANGED <<failures, passed>>
    BY <1>1 DEF Call, Succeed, Fail, Open, redis, ghost
  <2>3. QED
    BY <1>d, <2>1, <2>2 DEF NoticedInv
<1>2. ASSUME NEW c \in Callers, ResetFailures(c) \/ ClearFailures(c)
      PROVE  NoticedInv'
  <2>1. f' = f /\ r' = r
    BY <1>2, Move DEF ResetFailures, ClearFailures, PC
  <2>2. failures' = 0 /\ passed' = 0
    BY <1>2 DEF ResetFailures, ClearFailures, DeleteFailures
  <2>3. QED
    BY <1>a, <1>b, <2>1, <2>2, NoticedReset DEF NoticedInv
<1>3. ASSUME NEW c \in Callers, Increment(c) PROVE NoticedInv'
  <2>1. f' = f /\ r' = r + 1
    BY <1>3, Move DEF Increment, PC
  <2>2. failures \in Nat \ {0} /\ failures' = failures + 1 /\ passed' = passed
    BY <1>c, <1>3 DEF Increment, ghost
  <2>3. Noticed(failures + 1, passed, f, r + 1)
    BY <1>a, <1>c, <1>d, <2>2, NoticedIncrement
  <2>4. QED
    BY <2>1, <2>2, <2>3 DEF NoticedInv
<1>4. ASSUME NEW c \in Callers, IncrementMissing(c) PROVE NoticedInv'
  <2>1. f' = f + 1 /\ r' = r
    BY <1>4, Move DEF IncrementMissing, PC
  <2>2. failures = 0 /\ UNCHANGED <<failures, passed>>
    BY <1>4 DEF IncrementMissing, redis, ghost
  <2>3. Noticed(0, passed, f + 1, r)
    BY <1>c, <1>d, <2>2 DEF Noticed
  <2>4. QED
    BY <2>1, <2>2, <2>3 DEF NoticedInv
<1>5. ASSUME NEW c \in Callers, SetFirst(c) PROVE NoticedInv'
  <2>1. f' = f - 1 /\ r' = r + 1
    BY <1>5, Move DEF SetFirst, PC
  <2>2. failures' = 1 /\ passed' = passed
    BY <1>5 DEF SetFirst, FirstValue, ghost
  <2>3. f - 1 \in Nat /\ (f - 1) + 1 = f /\ (f - 1) + 1 + r <= CallersNo
    BY <1>a, <1>b, <2>1
  <2>4. Noticed(1, passed, f - 1, r + 1)
    BY <1>a, <1>c, <1>d, <2>3, NoticedFirst
  <2>5. QED
    BY <2>1, <2>2, <2>4 DEF NoticedInv
<1>6. ASSUME NEW c \in Callers, ReadFailures(c) PROVE NoticedInv'
  <2>1. f' = f /\ r' = r - 1
    BY <1>6, Move DEF ReadFailures, PC
  <2>2. r \in Nat \ {0} /\ r - 1 \in Nat /\ r - 1 <= r
    BY <1>a, <2>1
  <2>3. CASE LimitReached
    <3>1. UNCHANGED <<failures, passed>>
      BY <1>6, <2>3 DEF ReadFailures, redis
    <3>2. Noticed(failures, passed, f, r - 1)
      BY <1>a, <1>c, <1>d, <2>2, NoticedFewerReaders
    <3>3. QED
      BY <2>1, <3>1, <3>2 DEF NoticedInv
  <2>4. CASE ~LimitReached
    <3>1. failures < failure_limit /\ failures' = failures /\ passed' = passed + 1
      BY <1>c, <1>6, <2>4 DEF ReadFailures, LimitReached, redis
    <3>2. Noticed(failures, passed + 1, f, r - 1)
      BY <1>a, <1>c, <1>d, <2>2, <3>1, NoticedRead
    <3>3. QED
      BY <2>1, <3>1, <3>2 DEF NoticedInv
  <2>5. QED
    BY <2>3, <2>4
<1>7. ASSUME NEW c \in Callers, Crash(c) PROVE NoticedInv'
  <2>1. UNCHANGED <<failures, passed>>
    BY <1>7 DEF Crash, redis, ghost
  <2>2. \/ f' = f - 1 /\ r' = r
        \/ f' = f /\ r' <= r
    BY <1>7, CrashCounts
  <2>3. CASE f' = f - 1 /\ r' = r
    <3>1. f - 1 \in Nat /\ (f - 1) + 1 = f
      BY <1>a, <2>3
    <3>2. Noticed(failures, passed, f - 1, r)
      BY <1>a, <1>b, <1>c, <1>d, <3>1, NoticedFewerFirsts
    <3>3. QED
      BY <2>1, <2>3, <3>2 DEF NoticedInv
  <2>4. CASE f' = f /\ r' <= r
    <3>1. Noticed(failures, passed, f, r')
      BY <1>a, <1>c, <1>d, <2>4, NoticedFewerReaders
    <3>2. QED
      BY <2>1, <2>4, <3>1 DEF NoticedInv
  <2>5. QED
    BY <2>2, <2>3, <2>4
<1>8. CASE Recover \/ Toggle \/ UNCHANGED vars
  <2>1. f' = f /\ r' = r /\ UNCHANGED <<failures, passed>>
    BY <1>8, Stay DEF Recover, Toggle, redis, ghost, vars, PC
  <2>2. QED
    BY <1>d, <2>1 DEF NoticedInv
<1>9. CASE ForgetFailures
  <2>1. f' = f /\ r' = r /\ failures' = 0 /\ passed' = 0
    BY <1>9, Stay DEF ForgetFailures, DeleteFailures, PC
  <2>2. QED
    BY <1>a, <1>b, <2>1, NoticedReset DEF NoticedInv
<1>10. QED
  BY <1>1, <1>2, <1>3, <1>4, <1>5, <1>6, <1>7, <1>8, <1>9 DEF Next, Record

\* However many increments get lost, so many failures in a row do not go by
\* without one that opens the breaker.
THEOREM NoticesFailures == Spec => []FailuresAreNoticed
<1>1. Init => NoticedInv
  <2>1. Init => failures = 0 /\ passed = 0 /\ Count("first") = 0 /\ Count("read") = 0
    BY InitCounts DEF Init, PC
  <2>2. QED
    BY <2>1, CallersNat, NoticedReset DEF NoticedInv
<1>2. TypeOK /\ NoticedInv => FailuresAreNoticed
  <2> SUFFICES ASSUME TypeOK, NoticedInv PROVE FailuresAreNoticed
    OBVIOUS
  <2>1. Count("first") \in Nat /\ Count("read") \in Nat /\ Count("first") <= CallersNo
    BY CountsNat, CallersNat, FirstAndRead DEF NatCounts
  <2>2. failures \in Nat /\ passed \in Nat
    BY DEF TypeOK
  <2>3. passed
          <= CallersNo * (failure_limit - 1) + (CallersNo * (CallersNo + 1)) \div 2
    BY <2>1, <2>2, NoticedEnough DEF NoticedInv
  <2>4. QED
    BY <2>3 DEF FailuresAreNoticed, CallersNo
<1>3. QED
  BY <1>1, <1>2, NextNoticedInv, TypeCorrect, PTL DEF Spec
=============================================================================
