----------------------- MODULE ExecutionLimiterProofs -----------------------
(***************************************************************************)
(* Proofs about ExecutionLimiter for every set of clients and every        *)
(* maximumConcurrency.  The invariant Inv is inductive as it stands: the   *)
(* counter is exact, the queue is exactly the waiters, and who waits does  *)
(* so because no permit is free.                                           *)
(***************************************************************************)
EXTENDS ExecutionLimiter, SequenceTheorems, FiniteSetTheorems, TLAPS

-----------------------------------------------------------------------------
\* Taking one element out of a sequence, as the abort listener's
\* splice(index, 1) does.
LEMMA RemoveAt ==
  ASSUME NEW S, NEW q \in Seq(S), NEW k \in 1..Len(q)
  PROVE  LET r == SubSeq(q, 1, k - 1) \o SubSeq(q, k + 1, Len(q))
         IN  /\ r \in Seq(S)
             /\ Len(r) = Len(q) - 1
             /\ \A i \in 1..Len(r) : r[i] = IF i < k THEN q[i] ELSE q[i + 1]
<1> DEFINE a == SubSeq(q, 1, k - 1)
           b == SubSeq(q, k + 1, Len(q))
           r == a \o b
<1>1. Len(q) \in Nat /\ \A i \in 1..Len(q) : q[i] \in S
  BY LenProperties, ElementOfSeq
<1>2. /\ a \in Seq(S)
      /\ Len(a) = k - 1
      /\ \A i \in 1..(k - 1) : a[i] = q[i]
  <2>1. \A i \in 1..(k - 1) : q[i] \in S
    BY <1>1
  <2> QED
    BY <1>1, <2>1, SubSeqProperties
<1>3. /\ b \in Seq(S)
      /\ Len(b) = Len(q) - k
      /\ \A i \in 1..(Len(q) - k) : b[i] = q[k + i]
  <2>1. \A i \in (k + 1)..Len(q) : q[i] \in S
    BY <1>1
  <2> QED
    BY <1>1, <2>1, SubSeqProperties
<1> HIDE DEF a, b
<1>4. /\ r \in Seq(S)
      /\ Len(r) = Len(a) + Len(b)
      /\ \A i \in 1..(Len(a) + Len(b)) :
           r[i] = IF i <= Len(a) THEN a[i] ELSE b[i - Len(a)]
  BY <1>2, <1>3, ConcatProperties
<1> HIDE DEF r
<1>5. ASSUME NEW i \in 1..(Len(q) - 1)
      PROVE  r[i] = IF i < k THEN q[i] ELSE q[i + 1]
  <2>1. i \in 1..(Len(a) + Len(b)) /\ Len(a) = k - 1
    BY <1>1, <1>2, <1>3
  <2>2. r[i] = IF i <= Len(a) THEN a[i] ELSE b[i - Len(a)]
    BY <1>4, <2>1
  <2>3. CASE i < k
    <3>1. i \in 1..(k - 1) /\ i <= Len(a)
      BY <1>1, <2>1, <2>3
    <3>2. a[i] = q[i]
      BY <1>2, <3>1
    <3> QED
      BY <2>2, <2>3, <3>1, <3>2
  <2>4. CASE ~(i < k)
    <3>1. /\ i - (k - 1) \in 1..(Len(q) - k)
          /\ k + (i - (k - 1)) = i + 1
          /\ ~(i <= Len(a))
      BY <1>1, <2>1, <2>4
    <3>2. b[i - (k - 1)] = q[i + 1]
      BY <1>3, <3>1
    <3> QED
      BY <2>1, <2>2, <2>4, <3>1, <3>2
  <2> QED
    BY <2>3, <2>4
<1>6. Len(r) = Len(q) - 1
  BY <1>1, <1>2, <1>3, <1>4
<1>7. \A i \in 1..Len(r) : r[i] = IF i < k THEN q[i] ELSE q[i + 1]
  BY <1>5, <1>6
<1> QED
  BY <1>4, <1>6, <1>7 DEF r, a, b

\* A sequence without its first n elements, as n calls of shift() leave it.
LEMMA DropFirst ==
  ASSUME NEW S, NEW q \in Seq(S), NEW n \in 0..Len(q)
  PROVE  LET r == SubSeq(q, n + 1, Len(q))
         IN  /\ r \in Seq(S)
             /\ Len(r) = Len(q) - n
             /\ \A i \in 1..Len(r) : r[i] = q[n + i]
<1>1. Len(q) \in Nat /\ \A i \in (n + 1)..Len(q) : q[i] \in S
  BY LenProperties, ElementOfSeq
<1> QED
  BY <1>1, SubSeqProperties

\* The elements of a queue, and the absence of repetitions.
Elements(q)  == {q[i] : i \in 1..Len(q)}
NoRepeats(q) == \A i, j \in 1..Len(q) : q[i] = q[j] => i = j

\* r is q without its k-th element.
IsWithout(r, q, k) ==
  /\ Len(r) = Len(q) - 1
  /\ \A i \in 1..Len(r) : r[i] = IF i < k THEN q[i] ELSE q[i + 1]

\* Both removals keep a queue free of repetitions and take out exactly the
\* elements that are removed.
LEMMA RemoveAtElements ==
  ASSUME NEW S, NEW q \in Seq(S), NoRepeats(q), NEW k \in 1..Len(q),
         NEW r \in Seq(S), IsWithout(r, q, k)
  PROVE  NoRepeats(r) /\ Elements(r) = Elements(q) \ {q[k]}
<1>0. \A i \in 1..Len(r) : r[i] = IF i < k THEN q[i] ELSE q[i + 1]
  BY DEF IsWithout
<1>1. Len(q) \in Nat /\ Len(r) = Len(q) - 1 /\ k \in 1..Len(q)
  BY LenProperties DEF IsWithout
<1>2. NoRepeats(r)
  <2> SUFFICES ASSUME NEW i \in 1..Len(r), NEW j \in 1..Len(r), r[i] = r[j]
               PROVE  i = j
    BY DEF NoRepeats
  <2> DEFINE source(m) == IF m < k THEN m ELSE m + 1
  <2>1. r[i] = q[source(i)] /\ r[j] = q[source(j)]
    BY <1>0
  <2>2. source(i) \in 1..Len(q) /\ source(j) \in 1..Len(q)
    BY <1>1
  <2>3. source(i) = source(j)
    <3> HIDE DEF source
    <3> QED
      BY <2>1, <2>2 DEF NoRepeats
  <2> QED
    BY <1>1, <2>3
<1>3. ASSUME NEW i \in 1..Len(r) PROVE r[i] \in Elements(q) \ {q[k]}
  <2> DEFINE source == IF i < k THEN i ELSE i + 1
  <2>1. r[i] = q[source]
    BY <1>0
  <2>2. source \in 1..Len(q) /\ source # k
    BY <1>1
  <2> HIDE DEF source
  <2> QED
    BY <2>1, <2>2 DEF NoRepeats, Elements
<1>4. ASSUME NEW m \in 1..Len(q), q[m] # q[k]
      PROVE  \E i \in 1..Len(r) : r[i] = q[m]
  <2>1. CASE m < k
    <3>1. m \in 1..Len(r) /\ r[m] = q[m]
      BY <1>0, <1>1, <2>1
    <3> QED
      BY <3>1
  <2>2. CASE m > k
    <3>1. m - 1 \in 1..Len(r) /\ ~(m - 1 < k) /\ (m - 1) + 1 = m
      BY <1>1, <2>2
    <3>2. r[m - 1] = q[m]
      BY <1>0, <3>1
    <3> QED
      BY <3>1, <3>2
  <2>3. m # k
    BY <1>4
  <2> QED
    BY <1>1, <2>1, <2>2, <2>3
<1>5. Elements(r) \subseteq Elements(q) \ {q[k]}
  BY <1>3 DEF Elements
<1>6. Elements(q) \ {q[k]} \subseteq Elements(r)
  BY <1>4 DEF Elements
<1> QED
  BY <1>2, <1>5, <1>6

LEMMA DropFirstElements ==
  ASSUME NEW S, NEW q \in Seq(S), NoRepeats(q), NEW n \in 0..Len(q),
         NEW r \in Seq(S), Len(r) = Len(q) - n,
         \A i \in 1..Len(r) : r[i] = q[n + i]
  PROVE  NoRepeats(r) /\ Elements(r) = Elements(q) \ {q[i] : i \in 1..n}
<1>1. Len(q) \in Nat /\ Len(r) = Len(q) - n /\ n \in 0..Len(q)
  BY LenProperties
<1>2. ASSUME NEW i \in 1..Len(r) PROVE n + i \in 1..Len(q) /\ n + i > n
  BY <1>1
<1>3. NoRepeats(r)
  <2> SUFFICES ASSUME NEW i \in 1..Len(r), NEW j \in 1..Len(r), r[i] = r[j]
               PROVE  i = j
    BY DEF NoRepeats
  <2>1. n + i = n + j
    BY <1>2 DEF NoRepeats
  <2> QED
    BY <1>1, <2>1
<1>4. ASSUME NEW i \in 1..Len(r)
      PROVE  r[i] \in Elements(q) \ {q[m] : m \in 1..n}
  <2>1. r[i] = q[n + i]
    OBVIOUS
  <2>2. \A m \in 1..n : m \in 1..Len(q) /\ m # n + i
    BY <1>1, <1>2
  <2>3. \A m \in 1..n : q[m] # q[n + i]
    BY <1>2, <2>2 DEF NoRepeats
  <2> QED
    BY <1>2, <2>1, <2>3 DEF Elements
<1>5. ASSUME NEW m \in 1..Len(q), q[m] \notin {q[i] : i \in 1..n}
      PROVE  \E i \in 1..Len(r) : r[i] = q[m]
  <2>1. m > n
    BY <1>1, <1>5
  <2>2. m - n \in 1..Len(r) /\ n + (m - n) = m
    BY <1>1, <2>1
  <2> QED
    BY <2>2
<1>6. Elements(r) \subseteq Elements(q) \ {q[i] : i \in 1..n}
  BY <1>4 DEF Elements
<1>7. Elements(q) \ {q[i] : i \in 1..n} \subseteq Elements(r)
  BY <1>5 DEF Elements
<1> QED
  BY <1>3, <1>6, <1>7

\* QueueHoldsWaiters in these words.
LEMMA QueueHoldsWaitersElements ==
  QueueHoldsWaiters <=> NoRepeats(queue) /\ Waiters = Elements(queue)
<1> QED
  BY DEF QueueHoldsWaiters, NoRepeats, Elements

LEMMA QueueHoldsWaitersElementsPrime ==
  QueueHoldsWaiters' <=> NoRepeats(queue') /\ Waiters' = Elements(queue')
<1> QED
  BY DEF QueueHoldsWaiters, NoRepeats, Elements

-----------------------------------------------------------------------------
\* One more element makes a finite set larger by at most one.
LEMMA OneMore ==
  ASSUME NEW S, IsFiniteSet(S), NEW x
  PROVE  /\ IsFiniteSet(S \cup {x})
         /\ Cardinality(S \cup {x}) <= Cardinality(S) + 1
<1>1. Cardinality(S) \in Nat
  BY FS_CardinalityType
<1>2. /\ IsFiniteSet(S \cup {x})
      /\ Cardinality(S \cup {x})
           = IF x \in S THEN Cardinality(S) ELSE Cardinality(S) + 1
  BY FS_AddElement
<1> QED
  BY <1>1, <1>2

\* The number of permits a drain hands out never overfills the limiter, and
\* the drain stops only when the limiter is full or nobody waits.
LEMMA DrainFills ==
  ASSUME TypeOK, NEW taken \in 0..(MaximumConcurrency - 1),
         NEW n \in 0..Len(queue), DrainShifts(n, taken)
  PROVE  /\ IsFiniteSet(GrantedBy(n))
         /\ taken + Cardinality(GrantedBy(n)) \in taken..MaximumConcurrency
         /\ ~shutdown /\ n # Len(queue) =>
               taken + Cardinality(GrantedBy(n)) = MaximumConcurrency
<1>1. Len(queue) \in Nat /\ \A i \in 1..Len(queue) : queue[i] \in Clients
  BY LenProperties, ElementOfSeq DEF TypeOK
<1>2. \A m \in 0..Len(queue) : /\ IsFiniteSet(GrantedBy(m))
                               /\ Cardinality(GrantedBy(m)) \in Nat
  <2> TAKE m \in 0..Len(queue)
  <2>1. GrantedBy(m) \in SUBSET Clients
    BY <1>1 DEF GrantedBy, Shifted
  <2> QED
    BY <2>1, ClientsAssumption, FS_Subset, FS_CardinalityType
<1>3. taken + Cardinality(GrantedBy(n)) <= MaximumConcurrency
  <2>1. CASE n = 0
    <3>1. GrantedBy(n) = {}
      BY <2>1 DEF GrantedBy, Shifted
    <3> QED
      BY <3>1, FS_EmptySet, MaximumConcurrencyAssumption
  <2>2. CASE n > 0
    <3>1. taken + Cardinality(GrantedBy(n - 1)) < MaximumConcurrency
      BY <1>1, <2>2 DEF DrainShifts
    <3>2. IsFiniteSet(GrantedBy(n - 1))
      BY <1>1, <1>2, <2>2
    <3>3. GrantedBy(n) \in SUBSET (GrantedBy(n - 1) \cup {queue[n]})
      BY <1>1, <2>2 DEF GrantedBy, Shifted
    <3>4. Cardinality(GrantedBy(n)) <= Cardinality(GrantedBy(n - 1)) + 1
      <4>1. /\ IsFiniteSet(GrantedBy(n - 1) \cup {queue[n]})
            /\ Cardinality(GrantedBy(n - 1) \cup {queue[n]})
                 <= Cardinality(GrantedBy(n - 1)) + 1
        BY <3>2, OneMore
      <4>2. Cardinality(GrantedBy(n))
              <= Cardinality(GrantedBy(n - 1) \cup {queue[n]})
        BY <3>3, <4>1, FS_Subset
      <4> QED
        BY <1>2, <3>2, <4>1, <4>2, FS_CardinalityType
    <3> QED
      BY <1>1, <1>2, <2>2, <3>1, <3>4, MaximumConcurrencyAssumption
  <2> QED
    BY <1>1, <2>1, <2>2
<1>4. ~shutdown /\ n # Len(queue) =>
         taken + Cardinality(GrantedBy(n)) >= MaximumConcurrency
  BY DEF DrainShifts
<1> QED
  BY <1>2, <1>3, <1>4, MaximumConcurrencyAssumption

-----------------------------------------------------------------------------
LEMMA InitEstablishes == Init => Inv
<1> SUFFICES ASSUME Init PROVE Inv
  OBVIOUS
<1>1. Holders = {} /\ Waiters = {}
  BY DEF Init, Holders, Waiters
<1>2. TypeOK
  <2>1. queue \in Seq(Clients)
    BY EmptySeq DEF Init
  <2>2. active = 0 /\ peak = 0
    BY DEF Init
  <2>3. active \in 0..MaximumConcurrency /\ peak \in active..MaximumConcurrency
    BY <2>2, MaximumConcurrencyAssumption
  <2>4. /\ shutdown \in BOOLEAN
        /\ call \in [Clients -> CallStates]
        /\ aborted \subseteq Clients
    BY DEF Init, CallStates
  <2> QED
    BY <2>1, <2>3, <2>4 DEF TypeOK
<1>3. ActiveCountsPermits
  BY <1>1, FS_EmptySet, MaximumConcurrencyAssumption
  DEF Init, ActiveCountsPermits
<1>4. QueueHoldsWaiters
  BY <1>1, EmptySeq DEF Init, QueueHoldsWaiters
<1>5. WorkConserving
  BY DEF Init, WorkConserving
<1> QED
  BY <1>2, <1>3, <1>4, <1>5 DEF Inv

LEMMA AcquireRejectedPreserves ==
  ASSUME Inv, NEW c \in Clients, AcquireRejected(c)
  PROVE  Inv'
<1>0. TypeOK /\ ActiveCountsPermits /\ QueueHoldsWaiters /\ WorkConserving
  BY DEF Inv
<1> USE DEF AcquireRejected, Ended
<1>1. Holders' = Holders /\ Waiters' = Waiters
  BY <1>0 DEF Holders, Waiters, TypeOK
<1>2. TypeOK'
  BY <1>0 DEF TypeOK, CallStates, FreshSignal
<1>3. ActiveCountsPermits'
  BY <1>0, <1>1 DEF ActiveCountsPermits
<1>4. QueueHoldsWaiters'
  BY <1>0, <1>1 DEF QueueHoldsWaiters
<1>5. WorkConserving'
  BY <1>0 DEF WorkConserving
<1> QED
  BY <1>0, <1>2, <1>3, <1>4, <1>5 DEF Inv

LEMMA AcquireGrantedPreserves ==
  ASSUME Inv, NEW c \in Clients, AcquireGranted(c)
  PROVE  Inv'
<1>0. TypeOK /\ ActiveCountsPermits /\ QueueHoldsWaiters /\ WorkConserving
  BY DEF Inv
<1> USE DEF AcquireGranted, Ended
<1>1. /\ Holders' = Holders \cup {c}
      /\ c \notin Holders
      /\ Waiters' = Waiters
  BY <1>0 DEF Holders, Waiters, TypeOK
<1>2. active + 1 \in 1..MaximumConcurrency
  BY <1>0, MaximumConcurrencyAssumption DEF MayGrantAtOnce, TypeOK
<1>3. TypeOK'
  BY <1>0, <1>2, MaximumConcurrencyAssumption
  DEF TypeOK, CallStates, FreshSignal, Larger
<1>4. ActiveCountsPermits'
  <2>1. IsFiniteSet(Holders)
    BY <1>0, ClientsAssumption, FS_Subset DEF Holders
  <2>2. Cardinality(Holders') = Cardinality(Holders) + 1
    BY <1>1, <2>1, FS_AddElement
  <2>3. active = Cardinality(Holders) /\ active' = active + 1
    BY <1>0 DEF ActiveCountsPermits
  <2>4. active' <= MaximumConcurrency
    BY <1>2, <2>3, MaximumConcurrencyAssumption
  <2> QED
    BY <2>2, <2>3, <2>4 DEF ActiveCountsPermits
<1>5. QueueHoldsWaiters'
  BY <1>0, <1>1 DEF QueueHoldsWaiters
<1>6. WorkConserving'
  BY <1>0, EmptySeq DEF WorkConserving, MayGrantAtOnce, TypeOK
<1> QED
  BY <1>0, <1>3, <1>4, <1>5, <1>6 DEF Inv

LEMMA AcquireQueuedPreserves ==
  ASSUME Inv, NEW c \in Clients, AcquireQueued(c)
  PROVE  Inv'
<1>0. TypeOK /\ ActiveCountsPermits /\ QueueHoldsWaiters /\ WorkConserving
  BY DEF Inv
<1> USE DEF AcquireQueued, Ended
<1>1. /\ Holders' = Holders
      /\ Waiters' = Waiters \cup {c}
      /\ c \notin Waiters
  BY <1>0 DEF Holders, Waiters, TypeOK
<1>2. /\ queue' \in Seq(Clients)
      /\ Len(queue) \in Nat
      /\ Len(queue') = Len(queue) + 1
      /\ \A i \in 1..Len(queue) : queue'[i] = queue[i]
      /\ queue'[Len(queue) + 1] = c
  BY <1>0, AppendProperties, LenProperties DEF TypeOK
<1>3. TypeOK'
  BY <1>0, <1>2 DEF TypeOK, CallStates, FreshSignal
<1>4. ActiveCountsPermits'
  BY <1>0, <1>1 DEF ActiveCountsPermits
<1>5. QueueHoldsWaiters'
  <2>1. \A i \in 1..Len(queue) : queue[i] \in Waiters
    BY <1>0 DEF QueueHoldsWaiters
  <2>2. \A i, j \in 1..Len(queue') : queue'[i] = queue'[j] => i = j
    BY <1>0, <1>1, <1>2, <2>1 DEF QueueHoldsWaiters
  <2>3. Waiters' = {queue'[i] : i \in 1..Len(queue')}
    BY <1>0, <1>1, <1>2 DEF QueueHoldsWaiters
  <2> QED
    BY <2>2, <2>3 DEF QueueHoldsWaiters
<1>6. WorkConserving'
  BY <1>0, EmptySeq, MaximumConcurrencyAssumption
  DEF WorkConserving, MayGrantAtOnce, TypeOK
<1> QED
  BY <1>0, <1>3, <1>4, <1>5, <1>6 DEF Inv

LEMMA FirstReleasePreserves ==
  ASSUME Inv, NEW c \in Clients, call[c] = "granted", FirstRelease(c)
  PROVE  Inv'
<1>0. TypeOK /\ ActiveCountsPermits /\ QueueHoldsWaiters /\ WorkConserving
  BY DEF Inv
<1>1. PICK n \in 0..Len(queue) :
        /\ DrainShifts(n, active - 1)
        /\ queue' = SubSeq(queue, n + 1, Len(queue))
        /\ active' = active - 1 + Cardinality(GrantedBy(n))
        /\ peak' = Larger(peak, active')
        /\ call' = [d \in Clients |->
                      IF d = c THEN "released"
                      ELSE IF d \in GrantedBy(n) THEN "granted"
                      ELSE IF d \in Shifted(n) THEN "cancelled"
                      ELSE call[d]]
        /\ UNCHANGED <<shutdown, aborted>>
  BY DEF FirstRelease
<1>2. /\ queue' \in Seq(Clients)
      /\ Len(queue) \in Nat
      /\ Len(queue') = Len(queue) - n
      /\ \A i \in 1..Len(queue') : queue'[i] = queue[n + i]
  BY <1>0, <1>1, DropFirst, LenProperties DEF TypeOK
<1>3. IsFiniteSet(Holders) /\ c \in Holders
  BY ClientsAssumption, FS_Subset DEF Holders
<1>4. active - 1 \in 0..(MaximumConcurrency - 1)
  <2>1. active # 0
    BY <1>0, <1>3, FS_EmptySet DEF ActiveCountsPermits
  <2> QED
    BY <1>0, <2>1, MaximumConcurrencyAssumption DEF TypeOK
<1>5. /\ IsFiniteSet(GrantedBy(n))
      /\ active' \in 0..MaximumConcurrency
      /\ ~shutdown /\ n # Len(queue) => active' = MaximumConcurrency
  BY <1>0, <1>1, <1>4, DrainFills, MaximumConcurrencyAssumption
<1>6. NoRepeats(queue) /\ Waiters = Elements(queue)
  BY <1>0, QueueHoldsWaitersElements
<1>7. Shifted(n) \subseteq Waiters
  BY <1>2, <1>6 DEF Shifted, Elements
<1>8. Holders' = (Holders \ {c}) \cup GrantedBy(n)
  BY <1>1, <1>7 DEF Holders, Waiters, GrantedBy
<1>9. (Holders \ {c}) \cap GrantedBy(n) = {}
  BY <1>7 DEF Holders, Waiters, GrantedBy
<1>10. Cardinality(Holders') = active'
  <2>1. IsFiniteSet(Holders \ {c}) /\ Cardinality(Holders \ {c}) = active - 1
    BY <1>0, <1>3, FS_RemoveElement DEF ActiveCountsPermits
  <2>2. Cardinality((Holders \ {c}) \cup GrantedBy(n))
          = Cardinality(Holders \ {c}) + Cardinality(GrantedBy(n)) - 0
    BY <1>5, <1>9, <2>1, FS_Union, FS_EmptySet
  <2> QED
    BY <1>1, <1>4, <1>5, <1>8, <2>1, <2>2, FS_CardinalityType
<1>11. TypeOK'
  BY <1>0, <1>1, <1>2, <1>5, MaximumConcurrencyAssumption
  DEF TypeOK, CallStates, Larger
<1>12. ActiveCountsPermits'
  BY <1>5, <1>10, MaximumConcurrencyAssumption DEF ActiveCountsPermits
<1>13. QueueHoldsWaiters'
  <2>1. Waiters' = Waiters \ Shifted(n)
    BY <1>1, <1>7 DEF Waiters, GrantedBy
  <2>2. NoRepeats(queue') /\ Elements(queue') = Elements(queue) \ Shifted(n)
    <3>1. queue \in Seq(Clients)
      BY <1>0 DEF TypeOK
    <3> QED
      BY <1>2, <1>6, <3>1, DropFirstElements DEF Shifted
  <2> QED
    BY <1>6, <2>1, <2>2, QueueHoldsWaitersElementsPrime
<1>14. WorkConserving'
  <2> SUFFICES ASSUME queue' # <<>>
               PROVE  active' = MaximumConcurrency /\ ~shutdown'
    BY DEF WorkConserving
  <2>1. Len(queue') # 0
    BY <1>2, EmptySeq
  <2>2. n # Len(queue) /\ queue # <<>>
    BY <1>2, <2>1, EmptySeq
  <2> QED
    BY <1>0, <1>1, <1>5, <2>2 DEF WorkConserving
<1> QED
  BY <1>11, <1>12, <1>13, <1>14 DEF Inv

LEMMA AbortListenerPreserves ==
  ASSUME Inv, NEW c \in Clients, AbortListener(c)
  PROVE  Inv'
<1>0. TypeOK /\ ActiveCountsPermits /\ QueueHoldsWaiters /\ WorkConserving
  BY DEF Inv
<1>1. PICK k \in 1..Len(queue) :
        /\ queue[k] = c
        /\ queue' = SubSeq(queue, 1, k - 1) \o SubSeq(queue, k + 1, Len(queue))
  BY DEF AbortListener
<1>2. /\ queue' \in Seq(Clients)
      /\ Len(queue') = Len(queue) - 1
      /\ \A i \in 1..Len(queue') :
           queue'[i] = IF i < k THEN queue[i] ELSE queue[i + 1]
  BY <1>0, <1>1, RemoveAt DEF TypeOK
<1>3. Holders' = Holders /\ Waiters' = Waiters \ {c}
  BY <1>0 DEF AbortListener, Holders, Waiters, TypeOK
<1>4. TypeOK'
  BY <1>0, <1>2 DEF AbortListener, TypeOK, CallStates
<1>5. ActiveCountsPermits'
  BY <1>0, <1>3 DEF AbortListener, ActiveCountsPermits
<1>6. QueueHoldsWaiters'
  <2>1. NoRepeats(queue) /\ Waiters = Elements(queue)
    BY <1>0, QueueHoldsWaitersElements
  <2>2. NoRepeats(queue') /\ Elements(queue') = Elements(queue) \ {c}
    <3>1. queue \in Seq(Clients) /\ queue[k] = c
      BY <1>0, <1>1 DEF TypeOK
    <3>2. queue' \in Seq(Clients) /\ IsWithout(queue', queue, k)
      BY <1>2 DEF IsWithout
    <3>3. NoRepeats(queue') /\ Elements(queue') = Elements(queue) \ {queue[k]}
      BY <2>1, <3>1, <3>2, RemoveAtElements
    <3> QED
      BY <3>1, <3>3
  <2> QED
    BY <1>3, <2>1, <2>2, QueueHoldsWaitersElementsPrime
<1>7. WorkConserving'
  <2>1. queue # <<>>
    BY <1>1, EmptySeq
  <2> QED
    BY <1>0, <2>1 DEF AbortListener, WorkConserving
<1> QED
  BY <1>4, <1>5, <1>6, <1>7 DEF Inv

LEMMA ShutdownPreserves ==
  ASSUME Inv, Shutdown
  PROVE  Inv'
<1>0. TypeOK /\ ActiveCountsPermits /\ QueueHoldsWaiters /\ WorkConserving
  BY DEF Inv
<1> USE DEF Shutdown
<1>1. Shifted(Len(queue)) = Waiters
  BY <1>0 DEF Shifted, QueueHoldsWaiters
<1>2. Holders' = Holders /\ Waiters' = {}
  BY <1>0, <1>1 DEF Holders, Waiters, TypeOK
<1>3. TypeOK'
  BY <1>0, EmptySeq DEF TypeOK, CallStates
<1>4. ActiveCountsPermits'
  BY <1>0, <1>2 DEF ActiveCountsPermits
<1>5. QueueHoldsWaiters'
  BY <1>0, <1>2, EmptySeq DEF QueueHoldsWaiters
<1>6. WorkConserving'
  BY <1>0 DEF WorkConserving
<1> QED
  BY <1>0, <1>3, <1>4, <1>5, <1>6 DEF Inv

LEMMA NextPreserves == Inv /\ [Next]_vars => Inv'
<1> SUFFICES ASSUME Inv, [Next]_vars PROVE Inv'
  OBVIOUS
<1>1. CASE Shutdown
  BY <1>1, ShutdownPreserves
<1>2. ASSUME NEW c \in Clients, AcquireRejected(c) PROVE Inv'
  BY <1>2, AcquireRejectedPreserves
<1>3. ASSUME NEW c \in Clients, AcquireGranted(c) PROVE Inv'
  BY <1>3, AcquireGrantedPreserves
<1>4. ASSUME NEW c \in Clients, AcquireQueued(c) PROVE Inv'
  BY <1>4, AcquireQueuedPreserves
<1>5. CASE UNCHANGED vars
  BY <1>5 DEF vars, Inv, TypeOK, ActiveCountsPermits, QueueHoldsWaiters,
              WorkConserving, Holders, Waiters
<1>6. ASSUME NEW c \in Clients, Release(c) PROVE Inv'
  BY <1>5, <1>6, FirstReleasePreserves DEF Release
<1>7. ASSUME NEW S \in SUBSET Clients, Abort(S) PROVE Inv'
  BY <1>7 DEF Abort, Inv, TypeOK, ActiveCountsPermits, QueueHoldsWaiters,
              WorkConserving, Holders, Waiters
<1>8. ASSUME NEW c \in Clients, AbortListener(c) PROVE Inv'
  BY <1>8, AbortListenerPreserves
<1> QED
  BY <1>1, <1>2, <1>3, <1>4, <1>5, <1>6, <1>7, <1>8 DEF Next

\* The four parts of the inductive invariant hold in every reachable state.
THEOREM InvariantHolds == Spec => []Inv
<1> QED
  BY InitEstablishes, NextPreserves, PTL DEF Spec

\* #active never exceeds maximumConcurrency and never turns negative, and the
\* other variables keep their types.
THEOREM TypesHold == Spec => []TypeOK
<1>1. Inv => TypeOK
  BY DEF Inv
<1> QED
  BY <1>1, InvariantHolds, PTL

\* #active is the number of permits out, however often release() is called.
THEOREM CounterIsExact == Spec => []ActiveCountsPermits
<1>1. Inv => ActiveCountsPermits
  BY DEF Inv
<1> QED
  BY <1>1, InvariantHolds, PTL

\* The queue holds exactly the unsettled acquire() calls, each once.
THEOREM QueueIsExact == Spec => []QueueHoldsWaiters
<1>1. Inv => QueueHoldsWaiters
  BY DEF Inv
<1> QED
  BY <1>1, InvariantHolds, PTL

\* Nobody waits beside a free permit.
THEOREM NoPermitIdles == Spec => []WorkConserving
<1>1. Inv => WorkConserving
  BY DEF Inv
<1> QED
  BY <1>1, InvariantHolds, PTL

-----------------------------------------------------------------------------
(***************************************************************************)
(* Action properties.                                                      *)
(***************************************************************************)

\* After shutdown() nobody who does not hold a permit gets one.
THEOREM ShutdownIsFinal == Spec => NoGrantAfterShutdown
<1> DEFINE P == shutdown => \A c \in Clients :
                               call'[c] = "granted" => call[c] = "granted"
<1>1. ASSUME Inv, [Next]_vars PROVE P
  <2> SUFFICES ASSUME shutdown, NEW d \in Clients, call'[d] = "granted"
               PROVE  call[d] = "granted"
    OBVIOUS
  <2>0. call \in [Clients -> CallStates]
    BY <1>1 DEF Inv, TypeOK
  <2>1. CASE Shutdown
    BY <2>1 DEF Shutdown
  <2>2. ASSUME NEW c \in Clients, AcquireRejected(c) PROVE call[d] = "granted"
    BY <2>0, <2>2 DEF AcquireRejected
  <2>3. ASSUME NEW c \in Clients, AcquireGranted(c) PROVE call[d] = "granted"
    BY <2>3 DEF AcquireGranted
  <2>4. ASSUME NEW c \in Clients, AcquireQueued(c) PROVE call[d] = "granted"
    BY <2>4 DEF AcquireQueued
  <2>5. CASE UNCHANGED vars
    BY <2>5 DEF vars
  <2>6. ASSUME NEW c \in Clients, call[c] = "granted", FirstRelease(c)
        PROVE  call[d] = "granted"
    <3>1. GrantedBy(0) = {} /\ Shifted(0) = {}
      BY DEF GrantedBy, Shifted
    <3> QED
      BY <2>6, <3>1 DEF FirstRelease, DrainShifts
  <2>7. ASSUME NEW S \in SUBSET Clients, Abort(S) PROVE call[d] = "granted"
    BY <2>7 DEF Abort
  <2>8. ASSUME NEW c \in Clients, AbortListener(c) PROVE call[d] = "granted"
    BY <2>0, <2>8 DEF AbortListener
  <2> QED
    BY <1>1, <2>1, <2>2, <2>3, <2>4, <2>5, <2>6, <2>7, <2>8
    DEF Next, Release
<1> QED
  BY <1>1, InvariantHolds, PTL DEF Spec, NoGrantAfterShutdown

\* A waiter whose signal reads as aborted is not granted a permit.
THEOREM AbortedWaiterIsNotGranted == Spec => AbortedNeverGranted
<1> DEFINE P == \A c \in aborted : call[c] = "waiting" => call'[c] # "granted"
<1>1. ASSUME Inv, [Next]_vars PROVE P
  <2> SUFFICES ASSUME NEW d \in aborted, call[d] = "waiting"
               PROVE  call'[d] # "granted"
    OBVIOUS
  <2>0. call \in [Clients -> CallStates] /\ d \in Clients
    BY <1>1 DEF Inv, TypeOK
  <2>1. CASE Shutdown
    BY <2>0, <2>1 DEF Shutdown
  <2>2. ASSUME NEW c \in Clients, AcquireRejected(c) PROVE call'[d] # "granted"
    BY <2>0, <2>2 DEF AcquireRejected
  <2>3. ASSUME NEW c \in Clients, AcquireGranted(c) PROVE call'[d] # "granted"
    BY <2>0, <2>3 DEF AcquireGranted, Ended
  <2>4. ASSUME NEW c \in Clients, AcquireQueued(c) PROVE call'[d] # "granted"
    BY <2>0, <2>4 DEF AcquireQueued
  <2>5. CASE UNCHANGED vars
    BY <2>5 DEF vars
  <2>6. ASSUME NEW c \in Clients, FirstRelease(c) PROVE call'[d] # "granted"
    BY <2>0, <2>6 DEF FirstRelease, GrantedBy
  <2>7. ASSUME NEW S \in SUBSET Clients, Abort(S) PROVE call'[d] # "granted"
    BY <2>7 DEF Abort
  <2>8. ASSUME NEW c \in Clients, AbortListener(c) PROVE call'[d] # "granted"
    BY <2>0, <2>8 DEF AbortListener
  <2> QED
    BY <1>1, <2>1, <2>2, <2>3, <2>4, <2>5, <2>6, <2>7, <2>8
    DEF Next, Release
<1> QED
  BY <1>1, InvariantHolds, PTL DEF Spec, AbortedNeverGranted

\* Permits are granted in the order of arrival.
THEOREM GrantsInOrder == Spec => NoOvertaking
<1> DEFINE P == \A c \in Waiters, d \in Clients :
                  c # d /\ (d \notin Waiters \/ Before(queue, c, d))
                        /\ call'[c] = "waiting" =>
                     /\ call'[d] = "granted" => call[d] = "granted"
                     /\ call'[d] = "waiting" => Before(queue', c, d)
<1>1. ASSUME Inv, [Next]_vars PROVE P
  <2> SUFFICES ASSUME NEW c \in Waiters, NEW d \in Clients, c # d,
                      d \notin Waiters \/ Before(queue, c, d),
                      call'[c] = "waiting"
               PROVE  /\ call'[d] = "granted" => call[d] = "granted"
                      /\ call'[d] = "waiting" => Before(queue', c, d)
    OBVIOUS
  <2> DEFINE Q == /\ call'[d] = "granted" => call[d] = "granted"
                  /\ call'[d] = "waiting" => Before(queue', c, d)
  <2>1. /\ call \in [Clients -> CallStates]
        /\ queue \in Seq(Clients)
        /\ NoRepeats(queue) /\ Waiters = Elements(queue)
        /\ c \in Clients /\ call[c] = "waiting"
    BY <1>1, QueueHoldsWaitersElements DEF Inv, TypeOK, Waiters
  <2>2. Len(queue) \in Nat
    BY <2>1, LenProperties
  <2>3. call[d] = "waiting" <=> d \in Waiters
    BY DEF Waiters
  <2>4. PICK i \in 1..Len(queue) : queue[i] = c
    BY <2>1 DEF Elements
  <2>5. d \in Waiters => \E j \in 1..Len(queue) : i < j /\ queue[j] = d
    BY <2>1, <2>2, <2>4 DEF Before, NoRepeats
  <2>6. queue' = queue /\ call'[d] \in {call[d], "released", "cancelled"} => Q
    BY <2>3
  <2>7. CASE Shutdown
    BY <2>1, <2>7 DEF Shutdown, Shifted, Elements
  <2>8. ASSUME NEW x \in Clients, AcquireRejected(x) PROVE Q
    <3>1. CASE x = d
      BY <2>1, <2>8, <3>1 DEF AcquireRejected
    <3>2. CASE x # d
      BY <2>1, <2>6, <2>8, <3>2 DEF AcquireRejected
    <3> QED
      BY <3>1, <3>2
  <2>9. ASSUME NEW x \in Clients, AcquireGranted(x) PROVE Q
    <3>1. Len(queue) = 0
      BY <2>9 DEF AcquireGranted, MayGrantAtOnce
    <3> QED
      BY <2>2, <2>4, <3>1
  <2>10. ASSUME NEW x \in Clients, AcquireQueued(x) PROVE Q
    <3>1. /\ Len(queue') = Len(queue) + 1
          /\ \A k \in 1..Len(queue) : queue'[k] = queue[k]
          /\ queue'[Len(queue) + 1] = x
      BY <2>1, <2>10, AppendProperties DEF AcquireQueued
    <3>2. CASE x = d
      <4>1. i < Len(queue) + 1 /\ i \in 1..Len(queue')
              /\ Len(queue) + 1 \in 1..Len(queue')
        BY <2>2, <3>1
      <4>2. queue'[i] = c /\ queue'[Len(queue) + 1] = d
        BY <2>4, <3>1, <3>2
      <4>3. Before(queue', c, d)
        BY <4>1, <4>2 DEF Before
      <4> QED
        BY <2>1, <2>10, <3>2, <4>3 DEF AcquireQueued
    <3>3. CASE x # d
      <4>1. call'[d] = call[d]
        BY <2>1, <2>10, <3>3 DEF AcquireQueued
      <4>2. ASSUME d \in Waiters PROVE Before(queue', c, d)
        <5>1. PICK j \in 1..Len(queue) : i < j /\ queue[j] = d
          BY <2>5, <4>2
        <5>2. i \in 1..Len(queue') /\ j \in 1..Len(queue')
          BY <2>2, <3>1
        <5>3. queue'[i] = c /\ queue'[j] = d
          BY <2>4, <3>1, <5>1
        <5> QED
          BY <5>1, <5>2, <5>3 DEF Before
      <4> QED
        BY <2>3, <4>1, <4>2
    <3> QED
      BY <3>2, <3>3
  <2>11. CASE UNCHANGED vars
    BY <2>6, <2>11 DEF vars
  <2>12. ASSUME NEW x \in Clients, call[x] = "granted", FirstRelease(x) PROVE Q
    <3>1. PICK n \in 0..Len(queue) :
            /\ queue' = SubSeq(queue, n + 1, Len(queue))
            /\ call' = [y \in Clients |->
                          IF y = x THEN "released"
                          ELSE IF y \in GrantedBy(n) THEN "granted"
                          ELSE IF y \in Shifted(n) THEN "cancelled"
                          ELSE call[y]]
      BY <2>12 DEF FirstRelease
    <3>2. /\ Len(queue') = Len(queue) - n
          /\ \A k \in 1..Len(queue') : queue'[k] = queue[n + k]
      BY <2>1, <3>1, DropFirst
    <3>3. c \notin Shifted(n)
      BY <2>1, <3>1 DEF GrantedBy
    <3>4. i > n
      BY <2>2, <2>4, <3>3 DEF Shifted
    <3>5. d \notin Shifted(n)
      <4>1. Shifted(n) \subseteq Waiters
        BY <2>1, <2>2 DEF Shifted, Elements
      <4>2. CASE d \in Waiters
        <5>1. PICK j \in 1..Len(queue) : i < j /\ queue[j] = d
          BY <2>5, <4>2
        <5>2. \A k \in 1..n : k \in 1..Len(queue) /\ k # j
          BY <2>2, <3>4, <5>1
        <5> QED
          BY <2>1, <5>1, <5>2 DEF Shifted, NoRepeats
      <4> QED
        BY <4>1, <4>2
    <3>6. call'[d] \in {call[d], "released"}
      BY <3>1, <3>5 DEF GrantedBy
    <3>7. ASSUME d \in Waiters PROVE Before(queue', c, d)
      <4>1. PICK j \in 1..Len(queue) : i < j /\ queue[j] = d
        BY <2>5, <3>7
      <4>2. /\ i - n \in 1..Len(queue') /\ j - n \in 1..Len(queue')
            /\ i - n < j - n
            /\ n + (i - n) = i /\ n + (j - n) = j
        BY <2>2, <3>2, <3>4, <4>1
      <4>3. queue'[i - n] = c /\ queue'[j - n] = d
        BY <2>4, <3>2, <4>1, <4>2
      <4> QED
        BY <4>2, <4>3 DEF Before
    <3> QED
      BY <2>3, <3>6, <3>7
  <2>13. ASSUME NEW S \in SUBSET Clients, Abort(S) PROVE Q
    BY <2>6, <2>13 DEF Abort
  <2>14. ASSUME NEW x \in Clients, AbortListener(x) PROVE Q
    <3>1. PICK k \in 1..Len(queue) :
            /\ queue[k] = x
            /\ queue' = SubSeq(queue, 1, k - 1)
                          \o SubSeq(queue, k + 1, Len(queue))
      BY <2>14 DEF AbortListener
    <3>2. /\ Len(queue') = Len(queue) - 1
          /\ \A m \in 1..Len(queue') :
               queue'[m] = IF m < k THEN queue[m] ELSE queue[m + 1]
      BY <2>1, <3>1, RemoveAt
    <3>3. x # c /\ call' = [call EXCEPT ![x] = "cancelled"]
      BY <2>1, <2>14 DEF AbortListener
    <3>4. CASE x = d
      BY <2>1, <3>3, <3>4
    <3>5. CASE x # d
      <4>1. ASSUME NEW m \in 1..Len(queue), m # k
            PROVE  LET w == IF m < k THEN m ELSE m - 1
                   IN  w \in 1..Len(queue') /\ queue'[w] = queue[m]
        <5>1. CASE m < k
          BY <2>2, <3>2, <5>1
        <5>2. CASE m > k
          <6>1. m - 1 \in 1..Len(queue') /\ ~(m - 1 < k) /\ (m - 1) + 1 = m
            BY <2>2, <3>2, <5>2
          <6>2. queue'[m - 1] = queue[m]
            BY <3>2, <6>1
          <6> QED
            BY <2>2, <5>2, <6>1, <6>2
        <5> QED
          BY <2>2, <4>1, <5>1, <5>2
      <4>2. ASSUME d \in Waiters PROVE Before(queue', c, d)
        <5>1. PICK j \in 1..Len(queue) : i < j /\ queue[j] = d
          BY <2>5, <4>2
        <5> DEFINE a == IF i < k THEN i ELSE i - 1
                   b == IF j < k THEN j ELSE j - 1
        <5>2. i # k /\ j # k
          BY <2>4, <3>1, <3>3, <3>5, <5>1
        <5>3. a \in 1..Len(queue') /\ queue'[a] = c
          BY <2>4, <4>1, <5>2
        <5>4. b \in 1..Len(queue') /\ queue'[b] = d
          BY <4>1, <5>1, <5>2
        <5>5. a < b
          BY <2>2, <5>1, <5>2
        <5> HIDE DEF a, b
        <5> QED
          BY <5>3, <5>4, <5>5 DEF Before
      <4>3. call'[d] = call[d]
        BY <2>1, <3>3, <3>5
      <4> QED
        BY <2>3, <4>2, <4>3
    <3> QED
      BY <3>4, <3>5
  <2> QED
    BY <1>1, <2>7, <2>8, <2>9, <2>10, <2>11, <2>12, <2>13, <2>14
    DEF Next, Release
<1> QED
  BY <1>1, InvariantHolds, PTL DEF Spec, NoOvertaking
=============================================================================
