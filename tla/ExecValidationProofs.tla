------------------------- MODULE ExecValidationProofs -------------------------
(***************************************************************************)
(* Proofs about ExecValidation, for any identifiers, requests of any       *)
(* length, any policies and any numbers in them: that the depth-first      *)
(* search accepts exactly the acyclic graphs, that the budget covers all   *)
(* streams, and that defaults are accepted.                                *)
(***************************************************************************)
EXTENDS ExecValidation, WellFoundedInduction, SequenceTheorems, FiniteSetTheorems, TLAPS

Depends(id) == ToSet(DependenciesById(id))

-----------------------------------------------------------------------------
(***************************************************************************)
(* Induction over the natural numbers, stated for sets: for what a         *)
(* recursive function computes, and for the least number with a property.  *)
(***************************************************************************)

\* Every non-empty set of natural numbers has a least element.
LEMMA LeastNumber ==
  ASSUME NEW T \in SUBSET Nat, T # {}
  PROVE  \E n \in T : \A m \in T : n <= m
<1> DEFINE R == OpToRel(<, Nat)
<1>1. IsWellFoundedOn(R, Nat)
  BY NatLessThanWellFounded
<1>2. PICK n \in T : \A m \in T : ~(<<m, n>> \in R)
  <2> HIDE DEF R
  <2> QED
    BY <1>1, WFMin
<1>3. \A m \in T : <<m, n>> \in R <=> m < n
  BY DEF OpToRel
<1> HIDE DEF R
<1>4. \A m \in T : ~(m < n)
  BY <1>2, <1>3
<1>5. n \in Nat /\ \A m \in T : m \in Nat
  OBVIOUS
<1> QED
  BY <1>4, <1>5

\* Induction, for a set of numbers.
LEMMA Induction ==
  ASSUME NEW T, 0 \in T, \A n \in Nat : n \in T => n + 1 \in T
  PROVE  \A n \in Nat : n \in T
<1> DEFINE Missing == {n \in Nat : n \notin T}
<1>1. SUFFICES ASSUME Missing # {} PROVE FALSE
  OBVIOUS
<1>2. PICK n \in Missing : \A m \in Missing : n <= m
  BY <1>1, LeastNumber
<1>3. n \in Nat /\ n # 0 /\ n \notin T
  BY <1>2
<1>4. n - 1 \in Nat /\ ~(n <= n - 1) /\ (n - 1) + 1 = n
  BY <1>3
<1>5. n - 1 \in T
  BY <1>2, <1>4
<1> QED
  BY <1>3, <1>4, <1>5

-----------------------------------------------------------------------------
(***************************************************************************)
(* What the identifiers and dependencies of a well-formed request are.     *)
(***************************************************************************)
LEMMA BoundedSeqIs ==
  ASSUME NEW S, NEW n \in Nat
  PROVE  BoundedSeq(S, n) = {s \in Seq(S) : Len(s) <= n}
<1>1. ASSUME NEW s \in BoundedSeq(S, n) PROVE s \in Seq(S) /\ Len(s) <= n
  <2>1. PICK m \in 0..n : s \in [1..m -> S]
    BY DEF BoundedSeq, SeqOf
  <2>2. s \in Seq(S) /\ Len(s) = m
    BY <2>1, SeqDef
  <2> QED
    BY <2>2
<1>2. ASSUME NEW s \in Seq(S), Len(s) <= n PROVE s \in BoundedSeq(S, n)
  <2>1. Len(s) \in 0..n /\ s \in [1..Len(s) -> S]
    BY <1>2, LenProperties
  <2> QED
    BY <2>1 DEF BoundedSeq, SeqOf
<1> QED
  BY <1>1, <1>2

LEMMA IdentifiersAre ==
  ASSUME steps \in Seq(StepInputs)
  PROVE  /\ Identifiers \subseteq Ids /\ IsFiniteSet(Identifiers)
         /\ Cardinality(Identifiers) \in Nat
         /\ Len(steps) \in Nat /\ DOMAIN steps = 1..Len(steps)
         /\ \A i \in DOMAIN steps : /\ steps[i].id \in Ids
                                    /\ steps[i].dependsOn \in Seq(Ids \cup {Unknown})
<1>1. Len(steps) \in Nat /\ DOMAIN steps = 1..Len(steps)
  BY LenProperties
<1>2. ASSUME NEW i \in DOMAIN steps
      PROVE  steps[i].id \in Ids /\ steps[i].dependsOn \in Seq(Ids \cup {Unknown})
  <2>1. steps[i] \in StepInputs
    BY <1>1, ElementOfSeq
  <2>2. BoundedSeq(Ids \cup {Unknown}, MaxDependencies) \subseteq Seq(Ids \cup {Unknown})
    BY BoundsAssumption, BoundedSeqIs
  <2> QED
    BY <2>1, <2>2 DEF StepInputs
<1>3. Identifiers \subseteq Ids
  BY <1>2 DEF Identifiers
<1>4. IsFiniteSet(Identifiers)
  <2> DEFINE f == [i \in 1..Len(steps) |-> steps[i].id]
  <2>1. f \in [1..Len(steps) -> Identifiers]
    BY <1>1 DEF Identifiers
  <2>2. \A x \in Identifiers : \E i \in 1..Len(steps) : f[i] = x
    BY <1>1 DEF Identifiers
  <2> HIDE DEF f
  <2>3. f \in Surjection(1..Len(steps), Identifiers)
    BY <2>1, <2>2 DEF Surjection
  <2>4. ExistsSurjection(1..Len(steps), Identifiers)
    BY <2>3 DEF ExistsSurjection
  <2> QED
    BY <1>1, <2>4, FS_NatSurjection
<1>5. Cardinality(Identifiers) \in Nat
  BY <1>4, FS_CardinalityType
<1> QED
  BY <1>1, <1>2, <1>3, <1>4, <1>5

LEMMA DependenciesAre ==
  ASSUME steps \in Seq(StepInputs), ~Malformed, NEW id \in Identifiers
  PROVE  /\ DependenciesById(id) \in Seq(Identifiers)
         /\ Depends(id) \subseteq Identifiers
<1> DEFINE n == CHOOSE i \in DOMAIN steps : steps[i].id = id
<1>1. n \in DOMAIN steps
  BY DEF Identifiers
<1> HIDE DEF n
<1>2. DependenciesById(id) = steps[n].dependsOn
  BY DEF DependenciesById, n
<1>3. steps[n].dependsOn \in Seq(Ids \cup {Unknown})
  BY <1>1, IdentifiersAre
<1>4. ToSet(steps[n].dependsOn) \subseteq Identifiers
  BY <1>1 DEF Malformed
<1> DEFINE s == steps[n].dependsOn
<1>5. DOMAIN s = 1..Len(s) /\ Len(s) \in Nat /\ s \in [1..Len(s) -> Ids \cup {Unknown}]
  BY <1>3, LenProperties
<1>6. \A i \in 1..Len(s) : s[i] \in Identifiers
  <2> HIDE DEF s
  <2> QED
    BY <1>4, <1>5 DEF ToSet, s
<1>7. s \in Seq(Identifiers)
  <2> HIDE DEF s
  <2>1. s \in [1..Len(s) -> Identifiers]
    BY <1>5, <1>6
  <2> QED
    BY <1>5, <2>1, SeqDef
<1> QED
  BY <1>2, <1>4, <1>7 DEF Depends

-----------------------------------------------------------------------------
(***************************************************************************)
(* What the search knows.                                                  *)
(***************************************************************************)

\* Each identifier on the stack depends on the next.
Path(q) == \A i \in 1..(Len(q) - 1) : q[i + 1] \in Depends(q[i])

Distinct(q) == \A i, j \in 1..Len(q) : q[i] = q[j] => i = j

\* Every part of the set has a member that depends on no other.
NoCycleIn(T) ==
    \A S \in SUBSET T : S # {} => \E id \in S : Depends(id) \cap S = {}

\* Between two visits: the stack is a path, and what has been visited is closed
\* and has no cycle.
SearchOK(s) ==
    /\ s \in Searches /\ s.ok /\ s.cycle = <<>>
    /\ s.stack \in Seq(Identifiers) /\ Path(s.stack) /\ Distinct(s.stack)
    /\ s.visiting = {s.stack[i] : i \in 1..Len(s.stack)}
    /\ s.visited \subseteq Identifiers /\ s.visited \cap s.visiting = {}
    /\ \A id \in s.visited : Depends(id) \subseteq s.visited
    /\ NoCycleIn(s.visited)

\* What an issue reports.
IsCycle(c) ==
    /\ c \in Seq(Identifiers) /\ Len(c) > 1 /\ c[1] = c[Len(c)] /\ Path(c)
    /\ \A i, j \in 1..(Len(c) - 1) : c[i] = c[j] => i = j

\* The next to be visited is a root, or what the top of the stack depends on.
MayVisit(s, id) == id \in Identifiers
                   /\ (s.stack # <<>> => id \in Depends(s.stack[Len(s.stack)]))

\* What has become of s when the identifiers in T were visited.
Outcome(s, T, t) ==
    IF t.ok
    THEN SearchOK(t) /\ t.stack = s.stack /\ s.visited \subseteq t.visited /\ T \subseteq t.visited
    ELSE t \in Searches /\ IsCycle(t.cycle)

\* A visit of one that is on the stack finds a cycle.
LEMMA FindsACycle ==
  ASSUME steps \in Seq(StepInputs), ~Malformed,
         NEW s, SearchOK(s), NEW id \in s.visiting, MayVisit(s, id)
  PROVE  IsCycle(CycleFrom(s, id)) /\ CycleFrom(s, id) \in Seq(Ids)
<1> DEFINE q == s.stack
<1>1. q \in Seq(Identifiers) /\ Path(q) /\ Distinct(q) /\ \E i \in 1..Len(q) : q[i] = id
  BY DEF SearchOK
<1>2. PICK l \in Nat : l = Len(q) /\ DOMAIN q = 1..l
  BY <1>1, LenProperties
<1> DEFINE k == CHOOSE i \in DOMAIN q : q[i] = id
           c == CycleFrom(s, id)
<1>3. k \in 1..l /\ q[k] = id
  BY <1>1, <1>2
<1>4. c = Append(SubSeq(q, k, l), id)
  BY <1>2 DEF CycleFrom
<1>5. id \in Identifiers /\ id \in Depends(q[l])
  <2>1. q # <<>>
    BY <1>1, <1>2, <1>3, EmptySeq
  <2> QED
    BY <1>2, <2>1 DEF MayVisit
<1> HIDE DEF k, c, q
<1>6. /\ SubSeq(q, k, l) \in Seq(Identifiers)
      /\ Len(SubSeq(q, k, l)) = l - k + 1
      /\ \A i \in 1..(l - k + 1) : SubSeq(q, k, l)[i] = q[k + i - 1]
  <2>1. \A i \in k..l : q[i] \in Identifiers
    BY <1>1, <1>2, <1>3, ElementOfSeq
  <2>2. k \in Int /\ l \in Int /\ k <= l
    BY <1>3
  <2> QED
    BY <2>1, <2>2, SubSeqProperties
<1>7. PICK m \in Nat : m = l - k + 1 /\ m >= 1
  BY <1>3
<1>8. /\ c \in Seq(Identifiers) /\ Len(c) = m + 1
      /\ \A i \in 1..(m + 1) : c[i] = IF i = m + 1 THEN id ELSE q[k + i - 1]
  <2>1. PICK p \in Seq(Identifiers) :
          /\ p = SubSeq(q, k, l) /\ Len(p) = m
          /\ \A i \in 1..m : p[i] = q[k + i - 1]
    BY <1>6, <1>7
  <2>2. c = Append(p, id)
    BY <1>4, <2>1
  <2>3. c \in Seq(Identifiers) /\ Len(c) = m + 1
        /\ \A i \in 1..(m + 1) : c[i] = IF i = m + 1 THEN id ELSE p[i]
    <3>1. /\ c \in Seq(Identifiers) /\ Len(c) = Len(p) + 1
          /\ \A i \in 1..Len(p) : c[i] = p[i]
          /\ c[Len(p) + 1] = id
      BY <1>5, <2>1, <2>2, AppendProperties
    <3> QED
      BY <1>7, <2>1, <3>1
  <2>4. ASSUME NEW i \in 1..(m + 1), i # m + 1 PROVE c[i] = q[k + i - 1]
    <3>1. i \in 1..m
      BY <2>4
    <3> QED
      BY <2>1, <2>3, <2>4, <3>1
  <2>5. c[m + 1] = id
    BY <2>3
  <2> QED
    BY <2>3, <2>4, <2>5
<1>9. c[1] = c[Len(c)]
  BY <1>3, <1>7, <1>8
<1>10. Path(c)
  <2> SUFFICES ASSUME NEW i \in 1..m PROVE c[i + 1] \in Depends(c[i])
    BY <1>8 DEF Path
  <2>1. c[i] = q[k + i - 1]
    BY <1>7, <1>8
  <2>2. CASE i = m
    <3>1. k + i - 1 = l /\ c[i + 1] = id
      BY <1>3, <1>7, <1>8, <2>2
    <3> QED
      BY <1>5, <2>1, <3>1
  <2>3. CASE i # m
    <3>1. /\ k + i - 1 \in 1..(l - 1) /\ (k + i - 1) + 1 = k + (i + 1) - 1
          /\ i + 1 \in 1..m
      BY <1>3, <1>7, <2>3
    <3>2. c[i + 1] = q[(k + i - 1) + 1]
      BY <1>7, <1>8, <3>1
    <3> QED
      BY <1>1, <1>2, <2>1, <3>1, <3>2 DEF Path
  <2> QED
    BY <2>2, <2>3
<1>11. ASSUME NEW i \in 1..(Len(c) - 1), NEW j \in 1..(Len(c) - 1), c[i] = c[j] PROVE i = j
  <2>1. /\ i \in 1..m /\ j \in 1..m
        /\ c[i] = q[k + i - 1] /\ c[j] = q[k + j - 1]
    BY <1>7, <1>8
  <2>2. k + i - 1 \in 1..l /\ k + j - 1 \in 1..l
    BY <1>3, <1>7, <2>1
  <2>3. k + i - 1 = k + j - 1
    BY <1>1, <1>2, <1>11, <2>1, <2>2 DEF Distinct
  <2> QED
    BY <1>3, <2>1, <2>3
<1>12. c \in Seq(Ids)
  BY <1>8, IdentifiersAre, SeqMonotonic
<1>13. IsCycle(c)
  <2>1. Len(c) > 1
    BY <1>7, <1>8
  <2> QED
    BY <1>8, <1>9, <1>10, <1>11, <2>1 DEF IsCycle
<1> QED
  BY <1>12, <1>13 DEF c

-----------------------------------------------------------------------------
(***************************************************************************)
(* The loop over identifiers.                                              *)
(***************************************************************************)
Once(next, t, id) == IF t.ok THEN next[t][id] ELSE t

Loops(next, s, ids, f) ==
    f = [i \in 0..Len(ids) |-> IF i = 0 THEN s ELSE Once(next, f[i - 1], ids[i])]

LEMMA LoopsExist ==
  ASSUME NEW next, NEW s, NEW ids, Len(ids) \in Nat
  PROVE  \E f : Loops(next, s, ids, f)
<1> DEFINE UpTo(n, f) == f = [i \in 0..n |-> IF i = 0 THEN s ELSE Once(next, f[i - 1], ids[i])]
           T == {n \in Nat : \E f : UpTo(n, f)}
<1>1. 0 \in T
  <2>1. UpTo(0, [i \in 0..0 |-> s])
    OBVIOUS
  <2> QED
    BY <2>1
<1>2. ASSUME NEW n \in Nat, n \in T PROVE n + 1 \in T
  <2>1. PICK f : UpTo(n, f)
    BY <1>2
  <2> DEFINE g == [i \in 0..(n + 1) |-> IF i = n + 1 THEN Once(next, f[n], ids[n + 1]) ELSE f[i]]
  <2>2. UpTo(n + 1, g)
    BY <2>1
  <2> HIDE DEF g, UpTo
  <2>3. \E h : UpTo(n + 1, h)
    BY <2>2
  <2> QED
    BY <2>3
<1>3. Len(ids) \in T
  <2> HIDE DEF T
  <2> QED
    BY <1>1, <1>2, Induction
<1> QED
  BY <1>3 DEF Loops

LEMMA LoopIs ==
  ASSUME NEW next, NEW s, NEW ids, Len(ids) \in Nat
  PROVE  \E f : /\ f[0] = s
                /\ \A i \in 1..Len(ids) : f[i] = Once(next, f[i - 1], ids[i])
                /\ VisitEach(next, s, ids) = f[Len(ids)]
<1> DEFINE f == CHOOSE f : Loops(next, s, ids, f)
<1>1. Loops(next, s, ids, f)
  BY LoopsExist
<1>2. VisitEach(next, s, ids) = f[Len(ids)]
  BY DEF VisitEach, Loops, Once
<1> HIDE DEF f
<1>3. f[0] = s /\ \A i \in 1..Len(ids) : f[i] = Once(next, f[i - 1], ids[i])
  BY <1>1 DEF Loops
<1> QED
  BY <1>2, <1>3

\* If each visit does what it should, so does the loop.
LEMMA EachVisited ==
  ASSUME NEW next, NEW s, SearchOK(s), NEW ids, Len(ids) \in Nat,
         \A t : \A i \in 1..Len(ids) :
            SearchOK(t) /\ t.stack = s.stack /\ t.visiting = s.visiting
              => Outcome(t, {ids[i]}, next[t][ids[i]])
  PROVE  Outcome(s, {ids[i] : i \in 1..Len(ids)}, VisitEach(next, s, ids))
<1>1. PICK f : /\ f[0] = s
               /\ \A i \in 1..Len(ids) : f[i] = Once(next, f[i - 1], ids[i])
               /\ VisitEach(next, s, ids) = f[Len(ids)]
  BY LoopIs
<1> DEFINE T == {n \in Nat : n <= Len(ids) => Outcome(s, {ids[i] : i \in 1..n}, f[n])}
<1>2. 0 \in T
  <2>1. {ids[i] : i \in 1..0} = {} /\ s.ok
    BY DEF SearchOK
  <2>2. Outcome(s, {}, s)
    BY <2>1 DEF Outcome
  <2> QED
    BY <1>1, <2>1, <2>2
<1>3. ASSUME NEW n \in Nat, n \in T PROVE n + 1 \in T
  <2> SUFFICES ASSUME n + 1 <= Len(ids)
               PROVE  Outcome(s, {ids[i] : i \in 1..(n + 1)}, f[n + 1])
    OBVIOUS
  <2>1. n + 1 \in 1..Len(ids) /\ (n + 1) - 1 = n /\ n <= Len(ids)
    OBVIOUS
  <2> DEFINE before == {ids[i] : i \in 1..n}
             t == f[n]
             u == f[n + 1]
  <2>2. Outcome(s, before, t)
    BY <1>3, <2>1
  <2>3. u = Once(next, t, ids[n + 1])
    BY <1>1, <2>1
  <2>4. {ids[i] : i \in 1..(n + 1)} = before \cup {ids[n + 1]}
    <3>1. 1..(n + 1) = (1..n) \cup {n + 1}
      OBVIOUS
    <3> QED
      BY <3>1
  <2> HIDE DEF t, u, before
  <2>5. CASE ~t.ok
    <3>1. u = t /\ t \in Searches /\ IsCycle(t.cycle)
      BY <2>2, <2>3, <2>5 DEF Outcome, Once
    <3> QED
      BY <2>5, <3>1 DEF Outcome, u
  <2>6. CASE t.ok
    <3>1. SearchOK(t) /\ t.stack = s.stack /\ s.visited \subseteq t.visited /\ before \subseteq t.visited
      BY <2>2, <2>6 DEF Outcome
    <3>2. t.visiting = s.visiting
      BY <3>1 DEF SearchOK
    <3>3. Outcome(t, {ids[n + 1]}, u)
      BY <2>1, <2>3, <2>6, <3>1, <3>2 DEF Once
    <3>4. CASE u.ok
      BY <2>4, <3>1, <3>3, <3>4 DEF Outcome, u
    <3>5. CASE ~u.ok
      BY <3>3, <3>5 DEF Outcome, u
    <3> QED
      BY <3>4, <3>5
  <2> QED
    BY <2>4, <2>5, <2>6 DEF u
<1>4. Len(ids) \in T
  <2> HIDE DEF T
  <2> QED
    BY <1>2, <1>3, Induction
<1> QED
  BY <1>1, <1>4

-----------------------------------------------------------------------------
(***************************************************************************)
(* One visit, with what its nested visits do.                              *)
(***************************************************************************)
Visited(room, next, s, id) ==
    IF id \in s.visiting THEN [s EXCEPT !.ok = FALSE, !.cycle = CycleFrom(s, id)]
    ELSE IF id \in s.visited \/ room = 0 THEN s
    ELSE LET all == VisitEach(next, Enter(s, id), DependenciesById(id))
         IN  IF all.ok THEN Leave(all, id) ELSE all

\* With the identifier on it the stack is still a path.
LEMMA EnterKeeps ==
  ASSUME steps \in Seq(StepInputs), ~Malformed, NEW s, SearchOK(s), NEW id,
         MayVisit(s, id), id \notin s.visiting, id \notin s.visited
  PROVE  /\ SearchOK(Enter(s, id)) /\ Enter(s, id).visiting = s.visiting \cup {id}
         /\ Enter(s, id).stack = Append(s.stack, id) /\ Enter(s, id).visited = s.visited
         /\ \A d \in Depends(id) : MayVisit(Enter(s, id), d)
<1> DEFINE e == Enter(s, id)
           q == s.stack
<1>1. s \in Searches /\ id \in Identifiers /\ id \in Ids
  BY IdentifiersAre DEF SearchOK, MayVisit
<1>2. /\ e.ok = s.ok /\ e.cycle = s.cycle /\ e.visited = s.visited
      /\ e.visiting = s.visiting \cup {id} /\ e.stack = Append(q, id)
  BY <1>1 DEF Enter, Searches
<1>3. q \in Seq(Identifiers) /\ Path(q) /\ Distinct(q) /\ s.visiting = {q[i] : i \in 1..Len(q)}
  BY DEF SearchOK
<1>4. PICK l \in Nat : l = Len(q)
  BY <1>3, LenProperties
<1> DEFINE p == Append(q, id)
<1>5. /\ p \in Seq(Identifiers) /\ p # <<>> /\ Len(p) = l + 1 /\ p[l + 1] = id
      /\ \A i \in 1..l : p[i] = q[i]
  BY <1>1, <1>3, <1>4, AppendProperties
<1>6. e \in Searches
  <2>1. p \in Seq(Ids)
    BY <1>5, IdentifiersAre, SeqMonotonic
  <2> QED
    BY <1>1, <2>1 DEF Enter, Searches
<1> HIDE DEF e, q, p
<1>7. Path(p)
  <2> SUFFICES ASSUME NEW i \in 1..l PROVE p[i + 1] \in Depends(p[i])
    BY <1>5 DEF Path
  <2>1. CASE i = l
    <3>1. q # <<>>
      BY <1>3, <1>4, <2>1, EmptySeq
    <3>2. id \in Depends(q[l])
      BY <1>4, <3>1 DEF MayVisit, q
    <3> QED
      BY <1>5, <2>1, <3>2
  <2>2. CASE i # l
    <3>1. i \in 1..(l - 1) /\ i + 1 \in 1..l
      BY <2>2
    <3> QED
      BY <1>3, <1>4, <1>5, <3>1 DEF Path
  <2> QED
    BY <2>1, <2>2
<1>8. \A i \in 1..l : q[i] # id
  BY <1>3, <1>4
<1>9. Distinct(p)
  <2> SUFFICES ASSUME NEW i \in 1..(l + 1), NEW j \in 1..(l + 1), p[i] = p[j] PROVE i = j
    BY <1>5 DEF Distinct
  <2>1. CASE i \in 1..l /\ j \in 1..l
    BY <1>3, <1>4, <1>5, <2>1 DEF Distinct
  <2>2. CASE i = l + 1 \/ j = l + 1
    BY <1>5, <1>8, <2>2
  <2> QED
    BY <2>1, <2>2
<1>10. s.visiting \cup {id} = {p[i] : i \in 1..Len(p)}
  <2>1. 1..(l + 1) = (1..l) \cup {l + 1}
    OBVIOUS
  <2> QED
    BY <1>3, <1>4, <1>5, <2>1
<1>11. SearchOK(e)
  <2>1. /\ s.ok /\ s.cycle = <<>> /\ s.visited \subseteq Identifiers
        /\ s.visited \cap s.visiting = {}
        /\ \A x \in s.visited : Depends(x) \subseteq s.visited
        /\ NoCycleIn(s.visited)
    BY DEF SearchOK
  <2>2. e.stack = p
    BY <1>2 DEF p
  <2>3. e.visited \cap e.visiting = {} /\ e.visited \subseteq Identifiers
    BY <1>2, <2>1
  <2>4. e.ok /\ e.cycle = <<>> /\ NoCycleIn(e.visited)
        /\ \A x \in e.visited : Depends(x) \subseteq e.visited
    BY <1>2, <2>1
  <2>5. e.visiting = {e.stack[i] : i \in 1..Len(e.stack)}
    BY <1>2, <1>10, <2>2
  <2>6. e.stack \in Seq(Identifiers) /\ Path(e.stack) /\ Distinct(e.stack)
    BY <1>5, <1>7, <1>9, <2>2
  <2> QED
    BY <1>6, <2>3, <2>4, <2>5, <2>6 DEF SearchOK
<1>12. \A d \in Depends(id) : MayVisit(e, d)
  BY <1>1, <1>2, <1>5, DependenciesAre DEF MayVisit, p
<1> QED
  BY <1>2, <1>11, <1>12 DEF e, q

\* When all it depends on has been visited, so may it be.
LEMMA LeaveKeeps ==
  ASSUME steps \in Seq(StepInputs), ~Malformed, NEW s, SearchOK(s), NEW id,
         MayVisit(s, id), id \notin s.visiting, id \notin s.visited,
         NEW t, SearchOK(t), t.stack = Append(s.stack, id), s.visited \subseteq t.visited,
         Depends(id) \subseteq t.visited
  PROVE  Leave(t, id).ok /\ Outcome(s, {id}, Leave(t, id))
<1> DEFINE u == Leave(t, id)
           q == s.stack
           p == t.stack
<1>1. s \in Searches /\ t \in Searches /\ id \in Identifiers /\ id \in Ids
  BY IdentifiersAre DEF SearchOK, MayVisit
<1>2. /\ u.ok = t.ok /\ u.cycle = t.cycle /\ u.visited = t.visited \cup {id}
      /\ u.visiting = t.visiting \ {id} /\ u.stack = Front(p)
  BY <1>1 DEF Leave, Searches
<1>3. /\ q \in Seq(Identifiers) /\ p \in Seq(Identifiers) /\ p = Append(q, id)
      /\ s.visiting = {q[i] : i \in 1..Len(q)} /\ t.visiting = {p[i] : i \in 1..Len(p)}
  BY DEF SearchOK
<1>4. PICK l \in Nat : l = Len(q)
  BY <1>3, LenProperties
<1>5. /\ Len(p) = l + 1 /\ p[l + 1] = id
      /\ \A i \in 1..l : p[i] = q[i]
  BY <1>1, <1>3, <1>4, AppendProperties
<1>6. Front(p) = q
  <2>1. Front(p) = SubSeq(p, 1, l)
    BY <1>4, <1>5 DEF Front
  <2>2. /\ SubSeq(p, 1, l) \in Seq(Identifiers) /\ Len(SubSeq(p, 1, l)) = l
        /\ \A i \in 1..l : SubSeq(p, 1, l)[i] = p[i]
    <3>1. \A i \in 1..l : p[i] \in Identifiers
      BY <1>3, <1>5, ElementOfSeq
    <3>2. /\ SubSeq(p, 1, l) \in Seq(Identifiers)
          /\ Len(SubSeq(p, 1, l)) = IF 1 <= l THEN l - 1 + 1 ELSE 0
          /\ \A i \in 1..(l - 1 + 1) : SubSeq(p, 1, l)[i] = p[1 + i - 1]
      <4> HIDE DEF p
      <4>1. 1 \in Int /\ l \in Int
        OBVIOUS
      <4> QED
        BY <3>1, <4>1, SubSeqProperties
    <3>3. /\ (IF 1 <= l THEN l - 1 + 1 ELSE 0) = l /\ l - 1 + 1 = l
          /\ \A i \in 1..l : 1 + i - 1 = i
      OBVIOUS
    <3> HIDE DEF p
    <3> QED
      BY <3>2, <3>3
  <2>3. \A i \in 1..l : SubSeq(p, 1, l)[i] = q[i]
    BY <1>5, <2>2
  <2> QED
    BY <1>3, <1>4, <2>1, <2>2, <2>3, SeqEqual
<1>7. u \in Searches
  <2>1. q \in Seq(Ids)
    BY <1>3, IdentifiersAre, SeqMonotonic
  <2> QED
    BY <1>1, <1>6, <2>1 DEF Leave, Searches
<1>8. t.visiting \ {id} = s.visiting
  <2>1. 1..(l + 1) = (1..l) \cup {l + 1}
    OBVIOUS
  <2>2. t.visiting = s.visiting \cup {id}
    BY <1>3, <1>4, <1>5, <2>1
  <2> QED
    BY <2>2
<1>9. id \in t.visiting /\ t.visited \cap t.visiting = {} /\ id \notin t.visited
  BY <1>3, <1>5 DEF SearchOK
<1> HIDE DEF u, q, p
<1>10. NoCycleIn(u.visited)
  <2> SUFFICES ASSUME NEW S \in SUBSET (t.visited \cup {id}), S # {}
               PROVE  \E x \in S : Depends(x) \cap S = {}
    BY <1>2 DEF NoCycleIn
  <2>1. CASE S \subseteq {id}
    BY <1>9, <2>1
  <2>2. CASE S \cap t.visited # {}
    <3>1. PICK x \in S \cap t.visited : Depends(x) \cap (S \cap t.visited) = {}
      BY <2>2 DEF SearchOK, NoCycleIn
    <3>2. Depends(x) \subseteq t.visited
      BY DEF SearchOK
    <3> QED
      BY <3>1, <3>2
  <2> QED
    BY <2>1, <2>2
<1>11. SearchOK(u)
  <2>1. /\ t.ok /\ t.cycle = <<>> /\ t.visited \subseteq Identifiers
        /\ \A x \in t.visited : Depends(x) \subseteq t.visited
    BY DEF SearchOK
  <2>2. Path(q) /\ Distinct(q) /\ s.visiting = {q[i] : i \in 1..Len(q)}
    BY DEF SearchOK, q
  <2>3. u.visited \cap u.visiting = {} /\ u.visited \subseteq Identifiers
    BY <1>1, <1>2, <1>9, <2>1
  <2>4. \A x \in u.visited : Depends(x) \subseteq u.visited
    BY <1>2, <2>1
  <2>5. u.ok /\ u.cycle = <<>>
    BY <1>2, <2>1
  <2>6. /\ u.stack \in Seq(Identifiers) /\ Path(u.stack) /\ Distinct(u.stack)
        /\ u.visiting = {u.stack[i] : i \in 1..Len(u.stack)}
    BY <1>2, <1>3, <1>6, <1>8, <2>2
  <2> QED
    BY <1>7, <1>10, <2>3, <2>4, <2>5, <2>6 DEF SearchOK
<1> QED
  BY <1>2, <1>6, <1>11 DEF Outcome, SearchOK, u, q

\* Room for the identifiers that are not on the stack.
Room(s) == Cardinality(Identifiers \ s.visiting)

LEMMA VisitedRight ==
  ASSUME steps \in Seq(StepInputs), ~Malformed, NEW s, SearchOK(s), NEW id,
         MayVisit(s, id), NEW room \in Nat, Room(s) <= room, NEW next,
         \A t, d : /\ room # 0 /\ SearchOK(t) /\ MayVisit(t, d) /\ Room(t) <= room - 1
                   => Outcome(t, {d}, next[t][d])
  PROVE  Outcome(s, {id}, Visited(room, next, s, id))
<1> DEFINE r == Visited(room, next, s, id)
           e == Enter(s, id)
           ids == DependenciesById(id)
           all == VisitEach(next, e, ids)
<1>1. s \in Searches /\ s.ok /\ id \in Identifiers
  BY DEF SearchOK, MayVisit
<1>2. CASE id \in s.visiting
  <2>1. r = [s EXCEPT !.ok = FALSE, !.cycle = CycleFrom(s, id)]
    BY <1>2 DEF Visited
  <2>2. IsCycle(CycleFrom(s, id)) /\ CycleFrom(s, id) \in Seq(Ids)
    BY <1>2, FindsACycle
  <2>3. r \in Searches /\ ~r.ok /\ r.cycle = CycleFrom(s, id)
    <3> HIDE DEF r
    <3> QED
      BY <1>1, <2>1, <2>2 DEF Searches
  <2> QED
    BY <2>2, <2>3 DEF Outcome
<1>3. CASE id \notin s.visiting /\ id \in s.visited
  <2>1. r = s
    BY <1>3 DEF Visited
  <2> HIDE DEF r
  <2> QED
    BY <1>1, <1>3, <2>1 DEF Outcome, r
<1>4. CASE id \notin s.visiting /\ id \notin s.visited
  <2>1. /\ SearchOK(e) /\ e.visiting = s.visiting \cup {id}
        /\ e.stack = Append(s.stack, id) /\ e.visited = s.visited
        /\ \A d \in Depends(id) : MayVisit(e, d)
    BY <1>4, EnterKeeps
  <2>2. room # 0 /\ Room(e) <= room - 1
    <3>1. Identifiers \ e.visiting = (Identifiers \ s.visiting) \ {id}
      BY <2>1
    <3>2. IsFiniteSet(Identifiers \ s.visiting)
      BY IdentifiersAre, FS_Subset
    <3>3. id \in Identifiers \ s.visiting
      BY <1>1, <1>4
    <3> DEFINE A == Identifiers \ s.visiting
    <3>4. Room(s) = Cardinality(A) /\ Room(e) = Cardinality(A \ {id})
      BY <3>1 DEF Room
    <3> HIDE DEF A, e
    <3>5. IsFiniteSet(A) /\ id \in A
      BY <3>2, <3>3 DEF A
    <3>6. IsFiniteSet(A \ {id}) /\ Cardinality(A \ {id}) = Cardinality(A) - 1
      BY <3>5, FS_RemoveElement
    <3>7. Cardinality(A) \in Nat /\ Cardinality(A \ {id}) \in Nat
      BY <3>5, <3>6, FS_CardinalityType
    <3> QED
      BY <3>4, <3>6, <3>7
  <2>3. r = IF all.ok THEN Leave(all, id) ELSE all
    BY <1>4, <2>2 DEF Visited
  <2>4. /\ ids \in Seq(Identifiers) /\ Len(ids) \in Nat
        /\ Depends(id) = {ids[i] : i \in 1..Len(ids)}
    <3>1. ids \in Seq(Identifiers)
      BY <1>1, DependenciesAre
    <3>2. Len(ids) \in Nat /\ DOMAIN ids = 1..Len(ids)
      BY <3>1, LenProperties
    <3> HIDE DEF ids
    <3> QED
      BY <3>1, <3>2 DEF Depends, ToSet, ids
  <2> HIDE DEF e, ids, r, all
  <2>5. ASSUME NEW t, NEW i \in 1..Len(ids),
               SearchOK(t), t.stack = e.stack, t.visiting = e.visiting
        PROVE  Outcome(t, {ids[i]}, next[t][ids[i]])
    <3>1. ids[i] \in Depends(id)
      BY <2>4
    <3>2. MayVisit(t, ids[i])
      BY <2>1, <2>5, <3>1 DEF MayVisit
    <3>3. Room(t) <= room - 1
      BY <2>2, <2>5 DEF Room
    <3> QED
      BY <2>2, <2>5, <3>2, <3>3
  <2>6. Outcome(e, Depends(id), all)
    <3>1. \A t : \A i \in 1..Len(ids) :
             SearchOK(t) /\ t.stack = e.stack /\ t.visiting = e.visiting
               => Outcome(t, {ids[i]}, next[t][ids[i]])
      BY <2>5
    <3>2. Outcome(e, {ids[i] : i \in 1..Len(ids)}, VisitEach(next, e, ids))
      BY <2>1, <2>4, <3>1, EachVisited
    <3> QED
      BY <2>4, <3>2 DEF all
  <2>7. CASE ~all.ok
    BY <2>3, <2>6, <2>7 DEF Outcome, r
  <2>8. CASE all.ok
    <3>1. /\ SearchOK(all) /\ all.stack = Append(s.stack, id)
          /\ s.visited \subseteq all.visited /\ Depends(id) \subseteq all.visited
      BY <2>1, <2>6, <2>8 DEF Outcome
    <3>2. Outcome(s, {id}, Leave(all, id))
      BY <1>4, <3>1, LeaveKeeps
    <3> QED
      BY <2>3, <2>8, <3>2 DEF r
  <2> QED
    BY <2>7, <2>8
<1> QED
  BY <1>2, <1>3, <1>4

-----------------------------------------------------------------------------
(***************************************************************************)
(* The recursion.                                                          *)
(***************************************************************************)
Visits(n, f) ==
    f = [room \in 0..n |->
           [s \in Searches |-> [id \in Ids |-> Visited(room, f[room - 1], s, id)]]]

LEMMA VisitsExist ==
  ASSUME NEW n \in Nat
  PROVE  \E f : Visits(n, f)
<1> DEFINE All(room, next) == [s \in Searches |-> [id \in Ids |-> Visited(room, next, s, id)]]
           T == {m \in Nat : \E f : f = [room \in 0..m |-> All(room, f[room - 1])]}
<1>1. \A x, y : All(0, x) = All(0, y)
  BY DEF Visited
<1> HIDE DEF All
<1>2. 0 \in T
  <2> DEFINE g == [room \in 0..0 |-> All(0, 0)]
  <2>1. g = [room \in 0..0 |-> All(room, g[room - 1])]
    <3>1. \A room \in 0..0 : room = 0 /\ All(0, 0) = All(0, g[room - 1])
      BY <1>1
    <3> HIDE DEF g
    <3>2. \A room \in 0..0 : All(0, 0) = All(room, g[room - 1])
      BY <3>1
    <3> QED
      BY <3>2 DEF g
  <2> HIDE DEF g
  <2> QED
    BY <2>1
<1>3. ASSUME NEW m \in Nat, m \in T PROVE m + 1 \in T
  <2>1. PICK f : f = [room \in 0..m |-> All(room, f[room - 1])]
    BY <1>3
  <2> DEFINE g == [room \in 0..(m + 1) |-> IF room = m + 1 THEN All(m + 1, f[m]) ELSE f[room]]
  <2>2. ASSUME NEW room \in 0..(m + 1) PROVE g[room] = All(room, g[room - 1])
    <3>1. CASE room = m + 1
      <4>1. g[room] = All(m + 1, f[m]) /\ g[room - 1] = f[m]
        BY <3>1
      <4> HIDE DEF g
      <4> QED
        BY <3>1, <4>1
    <3>2. CASE room = 0 /\ room # m + 1
      <4>1. g[room] = f[0] /\ f[0] = All(0, f[0 - 1])
        BY <2>1, <3>2
      <4> HIDE DEF g
      <4> QED
        BY <1>1, <3>2, <4>1
    <3>3. CASE room # 0 /\ room # m + 1
      <4>1. /\ room \in 0..m /\ room - 1 \in 0..(m + 1) /\ room - 1 # m + 1
            /\ g[room] = f[room] /\ g[room - 1] = f[room - 1]
        BY <3>3
      <4> HIDE DEF g
      <4> QED
        BY <2>1, <4>1
    <3> QED
      BY <3>1, <3>2, <3>3
  <2>3. g = [room \in 0..(m + 1) |-> g[room]]
    OBVIOUS
  <2> HIDE DEF g
  <2>4. g = [room \in 0..(m + 1) |-> All(room, g[room - 1])]
    BY <2>2, <2>3
  <2> QED
    BY <2>4
<1>4. n \in T
  <2> HIDE DEF T
  <2> QED
    BY <1>2, <1>3, Induction
<1> QED
  BY <1>4 DEF Visits, All

\* visit(), called between two visits, does what it should.
LEMMA VisitRight ==
  ASSUME steps \in Seq(StepInputs), ~Malformed, NEW s, SearchOK(s), NEW id, MayVisit(s, id)
  PROVE  Outcome(s, {id}, Visit[s][id])
<1>1. PICK n \in Nat : n = Cardinality(Identifiers)
  BY IdentifiersAre
<1> DEFINE f == CHOOSE f : Visits(n, f)
<1>2. Visit = f[n]
  BY <1>1 DEF Visit, Visits, Visited
<1>3. Visits(n, f)
  BY VisitsExist
<1> HIDE DEF f
<1>4. ASSUME NEW room \in 0..n, NEW t, SearchOK(t), NEW d, MayVisit(t, d)
      PROVE  f[room][t][d] = Visited(room, f[room - 1], t, d)
  <2>1. t \in Searches /\ d \in Ids
    BY <1>4, IdentifiersAre DEF SearchOK, MayVisit
  <2>2. f[room] = [s_1 \in Searches |-> [id_1 \in Ids |-> Visited(room, f[room - 1], s_1, id_1)]]
    BY <1>3 DEF Visits
  <2> QED
    BY <2>1, <2>2
<1> DEFINE Right(m) == \A t, d : SearchOK(t) /\ MayVisit(t, d) /\ Room(t) <= m
                                   => Outcome(t, {d}, f[m][t][d])
           T == {m \in Nat : m <= n => Right(m)}
<1>5. 0 \in T
  <2> SUFFICES ASSUME NEW t, NEW d, SearchOK(t), MayVisit(t, d), Room(t) <= 0
               PROVE  Outcome(t, {d}, f[0][t][d])
    OBVIOUS
  <2>1. Outcome(t, {d}, Visited(0, f[0 - 1], t, d))
    BY VisitedRight
  <2>2. 0 \in 0..n
    OBVIOUS
  <2> QED
    BY <1>4, <2>1, <2>2
<1>6. ASSUME NEW m \in Nat, m + 1 <= n, Right(m) PROVE Right(m + 1)
  <2> SUFFICES ASSUME NEW t, NEW d, SearchOK(t), MayVisit(t, d), Room(t) <= m + 1
               PROVE  Outcome(t, {d}, f[m + 1][t][d])
    OBVIOUS
  <2>1. m + 1 \in 0..n /\ m + 1 \in Nat /\ (m + 1) - 1 = m
    BY <1>6
  <2>2. ASSUME NEW u, NEW x, SearchOK(u), MayVisit(u, x), Room(u) <= (m + 1) - 1
        PROVE  Outcome(u, {x}, f[m][u][x])
    BY <1>6, <2>1, <2>2
  <2> HIDE DEF Right
  <2>3. Outcome(t, {d}, Visited(m + 1, f[m], t, d))
    BY <2>1, <2>2, VisitedRight
  <2> QED
    BY <1>4, <2>1, <2>3
<1> HIDE DEF Right
<1>7. n \in T
  <2>1. ASSUME NEW m \in Nat, m \in T PROVE m + 1 \in T
    BY <1>6, <2>1
  <2> HIDE DEF T
  <2> QED
    BY <1>5, <2>1, Induction
<1>8. Room(s) <= n
  <2>1. Cardinality(Identifiers \ s.visiting) <= Cardinality(Identifiers)
    BY IdentifiersAre, FS_Subset
  <2> QED
    BY <1>1, <2>1 DEF Room
<1>9. Right(n)
  BY <1>7
<1> QED
  BY <1>2, <1>8, <1>9 DEF Right

-----------------------------------------------------------------------------
(***************************************************************************)
(* The whole search.                                                       *)
(***************************************************************************)
LEMMA SearchRight ==
  ASSUME steps \in Seq(StepInputs), ~Malformed
  PROVE  IF SearchAll.ok THEN SearchAll.cycle = <<>> /\ Acyclic ELSE IsCycle(SearchAll.cycle)
<1> DEFINE roots == [i \in DOMAIN steps |-> steps[i].id]
           all == SearchAll
<1>1. PICK n \in Nat : n = Len(steps) /\ DOMAIN steps = 1..n
  BY IdentifiersAre
<1>2. /\ Len(roots) = n /\ \A i \in 1..n : roots[i] = steps[i].id
      /\ {roots[i] : i \in 1..n} = Identifiers
  BY <1>1 DEF Identifiers
<1> HIDE DEF roots
<1>3. SearchOK(Search) /\ Search.stack = <<>>
  <2>1. /\ Search.ok /\ Search.visiting = {} /\ Search.visited = {} /\ Search.stack = <<>>
        /\ Search.cycle = <<>> /\ Search \in Searches
    BY EmptySeq DEF Search, Searches
  <2>2. Search.stack \in Seq(Identifiers) /\ Len(Search.stack) = 0
    BY <2>1, EmptySeq
  <2>3. /\ Path(Search.stack) /\ Distinct(Search.stack)
        /\ Search.visiting = {Search.stack[i] : i \in 1..Len(Search.stack)}
    <3>1. 1..0 = {} /\ 1..(0 - 1) = {}
      OBVIOUS
    <3> QED
      BY <2>1, <2>2, <3>1 DEF Path, Distinct
  <2>4. NoCycleIn(Search.visited)
    BY <2>1 DEF NoCycleIn
  <2> QED
    BY <2>1, <2>2, <2>3, <2>4 DEF SearchOK
<1>4. all = VisitEach(Visit, Search, roots)
  BY DEF SearchAll, roots
<1>5. \A t : \A i \in 1..Len(roots) :
        SearchOK(t) /\ t.stack = Search.stack /\ t.visiting = Search.visiting
          => Outcome(t, {roots[i]}, Visit[t][roots[i]])
  <2> SUFFICES ASSUME NEW t, NEW i \in 1..n, SearchOK(t), t.stack = <<>>
               PROVE  Outcome(t, {roots[i]}, Visit[t][roots[i]])
    BY <1>2, <1>3
  <2>1. MayVisit(t, roots[i])
    BY <1>2 DEF MayVisit
  <2> QED
    BY <2>1, VisitRight
<1>6. Outcome(Search, Identifiers, all)
  <2>1. Len(roots) \in Nat
    BY <1>2
  <2>2. Outcome(Search, {roots[i] : i \in 1..Len(roots)}, VisitEach(Visit, Search, roots))
    BY <1>3, <1>5, <2>1, EachVisited
  <2> QED
    BY <1>2, <1>4, <2>2
<1> HIDE DEF all
<1>7. CASE all.ok
  <2>1. SearchOK(all) /\ Identifiers \subseteq all.visited
    BY <1>6, <1>7 DEF Outcome
  <2>2. all.visited = Identifiers /\ NoCycleIn(all.visited) /\ all.cycle = <<>>
    BY <2>1 DEF SearchOK
  <2>3. Acyclic
    BY <2>2 DEF NoCycleIn, Acyclic, Depends
  <2> QED
    BY <1>7, <2>2, <2>3 DEF all
<1>8. CASE ~all.ok
  <2>1. IsCycle(all.cycle)
    BY <1>6, <1>8 DEF Outcome
  <2> QED
    BY <1>8, <2>1 DEF all
<1> QED
  BY <1>7, <1>8

\* A reported cycle is one.
LEMMA CycleIsOne ==
  ASSUME NEW c, IsCycle(c)
  PROVE  /\ ~Acyclic /\ Len(c) > 1 /\ c[1] = Last(c) /\ IsInjective(Front(c))
         /\ \A i \in 1..(Len(c) - 1) : c[i + 1] \in Depends(c[i])
<1>1. c \in Seq(Identifiers) /\ Path(c) /\ c[1] = c[Len(c)]
  BY DEF IsCycle
<1>2. PICK m \in Nat : m = Len(c) - 1 /\ m >= 1 /\ Len(c) = m + 1
  <2>1. Len(c) \in Nat /\ Len(c) > 1
    BY <1>1, LenProperties DEF IsCycle
  <2> QED
    BY <2>1
<1>3. \A i \in 1..(m + 1) : c[i] \in Identifiers
  BY <1>1, <1>2, ElementOfSeq
<1>4. \A i \in 1..m : c[i + 1] \in Depends(c[i])
  BY <1>1, <1>2 DEF Path
<1>5. ~Acyclic
  <2> DEFINE S == {c[i] : i \in 1..m}
  <2>1. S \in SUBSET Identifiers /\ S # {}
    <3>1. 1 \in 1..m /\ \A i \in 1..m : i \in 1..(m + 1)
      BY <1>2
    <3> QED
      BY <1>3, <3>1
  <2>2. ASSUME NEW i \in 1..m PROVE Depends(c[i]) \cap S # {}
    <3>1. CASE i = m
      <4>1. c[i + 1] = c[1] /\ 1 \in 1..m
        BY <1>1, <1>2, <3>1
      <4> QED
        BY <1>4, <4>1
    <3>2. CASE i # m
      <4>1. i + 1 \in 1..m
        BY <3>2
      <4> QED
        BY <1>4, <4>1
    <3> QED
      BY <3>1, <3>2
  <2>3. \A x \in S : Depends(x) \cap S # {}
    BY <2>2
  <2> HIDE DEF S
  <2> QED
    BY <2>1, <2>3 DEF Acyclic, Depends
<1>6. IsInjective(Front(c))
  <2>1. /\ SubSeq(c, 1, m) \in Seq(Identifiers) /\ Len(SubSeq(c, 1, m)) = m
        /\ \A i \in 1..m : SubSeq(c, 1, m)[i] = c[i]
    <3>1. \A i \in 1..m : c[i] \in Identifiers
      BY <1>3
    <3>2. 1 \in Int /\ m \in Int
      OBVIOUS
    <3>3. /\ SubSeq(c, 1, m) \in Seq(Identifiers)
          /\ Len(SubSeq(c, 1, m)) = IF 1 <= m THEN m - 1 + 1 ELSE 0
          /\ \A i \in 1..(m - 1 + 1) : SubSeq(c, 1, m)[i] = c[1 + i - 1]
      BY <3>1, <3>2, SubSeqProperties
    <3>4. /\ (IF 1 <= m THEN m - 1 + 1 ELSE 0) = m /\ m - 1 + 1 = m
          /\ \A i \in 1..m : 1 + i - 1 = i
      BY <1>2
    <3> QED
      BY <3>3, <3>4
  <2>2. Front(c) = SubSeq(c, 1, m)
    BY <1>2 DEF Front
  <2>3. DOMAIN SubSeq(c, 1, m) = 1..m
    BY <2>1, LenProperties
  <2>4. \A i, j \in 1..m : c[i] = c[j] => i = j
    BY <1>2 DEF IsCycle
  <2> QED
    BY <2>1, <2>2, <2>3, <2>4 DEF IsInjective
<1> QED
  BY <1>1, <1>2, <1>4, <1>5, <1>6 DEF Last

-----------------------------------------------------------------------------
(***************************************************************************)
(* The limits.                                                             *)
(***************************************************************************)
Requests(t) == [LimitsOf(t) -> Values \cup {Absent}]

\* What a limit that is not exceeded says of the option.
LEMMA LimitsHold ==
  ASSUME NEW t, NEW p \in Policies(t), NEW request \in Requests(t), NEW l \in LimitsOf(t)
  PROVE  /\ Effective(p, request, l) \in Nat \ {0} /\ p[l].absolute \in Nat
         /\ DOMAIN p = LimitsOf(t) /\ Exceeded(p, request) \subseteq LimitsOf(t)
         /\ l \notin Exceeded(p, request) => Effective(p, request, l) <= p[l].absolute
         /\ request[l] = Absent => l \notin Exceeded(p, request)
<1>1. /\ p \in [LimitsOf(t) -> [default : Values, absolute : Values]]
      /\ p[l].default <= p[l].absolute
  BY DEF Policies, Loadable
<1>2. p[l].default \in Nat \ {0} /\ p[l].absolute \in Nat \ {0}
  BY <1>1, ValuesAssumption DEF Absent
<1>3. request[l] \in Values \cup {Absent}
  BY DEF Requests
<1>4. Effective(p, request, l) \in Nat \ {0}
  BY <1>2, <1>3, ValuesAssumption DEF Effective, Absent
<1>5. l \notin Exceeded(p, request) <=> ~(Effective(p, request, l) > p[l].absolute)
  BY <1>1 DEF Exceeded
<1>6. request[l] = Absent => Effective(p, request, l) = p[l].default
  BY DEF Effective
<1>7. l \notin Exceeded(p, request) => Effective(p, request, l) <= p[l].absolute
  BY <1>2, <1>4, <1>5
<1>8. request[l] = Absent => l \notin Exceeded(p, request)
  BY <1>1, <1>2, <1>5, <1>6
<1> QED
  BY <1>1, <1>2, <1>4, <1>7, <1>8 DEF Exceeded

\* The shares of the streams together stay within the total.
LEMMA SharesFit ==
  ASSUME NEW total \in Nat, NEW n \in Nat \ {0}, NEW share \in Nat,
         share <= total \div (n * 2)
  PROVE  2 * n * share <= total
<1> DEFINE k == n * 2
<1>1. k \in Nat \ {0}
  OBVIOUS
<1> HIDE DEF k
<1>2. k * (total \div k) <= total /\ total \div k \in Nat
  BY <1>1
<1>3. k * share <= k * (total \div k)
  BY <1>1, <1>2 DEF k
<1>4. 2 * n * share = k * share
  BY DEF k
<1> QED
  BY <1>1, <1>2, <1>3, <1>4

-----------------------------------------------------------------------------
(***************************************************************************)
(* The invariant.                                                          *)
(***************************************************************************)

\* Which checks come before which.
InStages ==
    /\ verdict = "unchecked" => tool = "none"
    /\ verdict = "acyclic" => steps # <<>> /\ tool \in Tools \ {"exec_program"}
    /\ verdict \in {"accepted", "over_limit"} => tool \in Tools

IInv == Inv /\ AcceptsExactlyAcyclic /\ DefaultsAreAccepted /\ InStages

LEMMA InitIInv == Init => IInv
<1> SUFFICES ASSUME Init PROVE IInv
  OBVIOUS
<1>1. <<>> \in Seq(StepInputs) /\ Len(<<>>) = 0 /\ <<>> \in Seq(Ids) /\ 0 <= MaxSteps
  BY EmptySeq, BoundsAssumption
<1> QED
  BY <1>1 DEF Init, IInv, Inv, TypeOK, BudgetCoversAllStreams, AcceptsExactlyAcyclic,
              DefaultsAreAccepted, InStages, Verdicts

LEMMA AddStepKeeps ==
  ASSUME IInv, AddStep
  PROVE  IInv'
<1>1. /\ steps \in Seq(StepInputs) /\ verdict = "unchecked" /\ Len(steps) < MaxSteps
      /\ UNCHANGED <<tool, verdict, cycle, policy, asked, issues, output>>
  BY DEF AddStep, limits, IInv, Inv, TypeOK
<1>2. PICK step \in StepInputs : steps' = Append(steps, step)
  BY DEF AddStep
<1>3. steps' \in Seq(StepInputs) /\ Len(steps') <= MaxSteps
  <2>1. steps' \in Seq(StepInputs) /\ Len(steps') = Len(steps) + 1 /\ Len(steps) \in Nat
    BY <1>1, <1>2, AppendProperties, LenProperties
  <2> QED
    BY <1>1, <2>1, BoundsAssumption
<1> QED
  BY <1>1, <1>3 DEF IInv, Inv, TypeOK, BudgetCoversAllStreams, AcceptsExactlyAcyclic,
                    DefaultsAreAccepted, InStages

\* What does not change while steps does not.
LEMMA SameGraph ==
  ASSUME UNCHANGED steps
  PROVE  (Acyclic' <=> Acyclic) /\ \A id : Depends(id)' = Depends(id)
<1>1. \A id : DependenciesById(id)' = DependenciesById(id)
  BY DEF DependenciesById
<1> QED
  BY <1>1 DEF Acyclic, Identifiers, Depends

\* A verdict that is not yet about limits.
LEMMA VerdictOnGraph ==
  ASSUME IInv, UNCHANGED <<steps, policy, asked, issues, output>>,
         steps # <<>>, tool' \in Tools \ {"exec_program"}, cycle' \in Seq(Ids),
         \/ verdict' = "malformed"
         \/ verdict' = "acyclic" /\ Acyclic
         \/ verdict' = "cyclic" /\ IsCycle(cycle')
  PROVE  IInv'
<1>1. TypeOK'
  BY DEF IInv, Inv, TypeOK, Verdicts
<1>2. BudgetCoversAllStreams' /\ DefaultsAreAccepted' /\ InStages'
  BY DEF BudgetCoversAllStreams, DefaultsAreAccepted, InStages
<1>3. CASE verdict' = "malformed"
  BY <1>1, <1>2, <1>3 DEF IInv, Inv, AcceptsExactlyAcyclic
<1>4. CASE verdict' = "acyclic" /\ Acyclic
  BY <1>1, <1>2, <1>4, SameGraph DEF IInv, Inv, AcceptsExactlyAcyclic
<1>5. CASE verdict' = "cyclic" /\ IsCycle(cycle')
  <2>1. PICK c : c = cycle'
    OBVIOUS
  <2>2. /\ ~Acyclic /\ Len(c) > 1 /\ c[1] = Last(c) /\ IsInjective(Front(c))
        /\ \A i \in 1..(Len(c) - 1) : c[i + 1] \in Depends(c[i])
    BY <1>5, <2>1, CycleIsOne
  <2>3. AcceptsExactlyAcyclic'
    <3>1. ~Acyclic'
      BY <2>2, SameGraph
    <3>2. \A i \in 1..(Len(c) - 1) : c[i + 1] \in ToSet(DependenciesById(c[i])')
      BY <2>2 DEF Depends, DependenciesById
    <3>3. \A i \in 1..(Len(c) - 1) : c[i + 1] \in ToSet(DependenciesById(cycle[i])')
      BY <2>1, <3>2 DEF DependenciesById
    <3> QED
      BY <1>5, <2>1, <2>2, <3>1, <3>3 DEF AcceptsExactlyAcyclic
  <2> QED
    BY <1>1, <1>2, <2>3 DEF IInv, Inv
<1> QED
  BY <1>3, <1>4, <1>5

LEMMA CheckGraphKeeps ==
  ASSUME IInv, CheckGraph, tool' \in {"exec", "workflow_exec"}
  PROVE  IInv'
<1>1. /\ steps \in Seq(StepInputs) /\ steps # <<>> /\ cycle \in Seq(Ids)
      /\ UNCHANGED <<steps, policy, asked, issues, output>>
      /\ tool' \in Tools \ {"exec_program"}
  BY DEF CheckGraph, limits, IInv, Inv, TypeOK, Tools
<1>2. CASE Malformed
  <2>1. verdict' = "malformed" /\ cycle' = cycle
    BY <1>2 DEF CheckGraph
  <2> QED
    BY <1>1, <2>1, VerdictOnGraph
<1>3. CASE ~Malformed
  <2>1. verdict' = (IF SearchAll.ok THEN "acyclic" ELSE "cyclic") /\ cycle' = SearchAll.cycle
    BY <1>3 DEF CheckGraph
  <2>2. IF SearchAll.ok THEN SearchAll.cycle = <<>> /\ Acyclic ELSE IsCycle(SearchAll.cycle)
    BY <1>1, <1>3, SearchRight
  <2>3. cycle' \in Seq(Ids)
    <3>1. CASE SearchAll.ok
      BY <2>1, <2>2, <3>1, EmptySeq
    <3>2. CASE ~SearchAll.ok
      <4>1. cycle' \in Seq(Identifiers)
        BY <2>1, <2>2, <3>2 DEF IsCycle
      <4> QED
        BY <1>1, <4>1, IdentifiersAre, SeqMonotonic
    <3> QED
      BY <3>1, <3>2
  <2>4. \/ verdict' = "acyclic" /\ Acyclic
        \/ verdict' = "cyclic" /\ IsCycle(cycle')
    BY <2>1, <2>2
  <2> QED
    BY <1>1, <2>3, <2>4, VerdictOnGraph
<1> QED
  BY <1>2, <1>3

LEMMA CheckBatchIdsKeeps ==
  ASSUME IInv, CheckBatchIds
  PROVE  IInv'
<1>1. /\ steps \in Seq(StepInputs) /\ steps # <<>> /\ cycle' \in Seq(Ids)
      /\ UNCHANGED <<steps, policy, asked, issues, output>>
      /\ tool' \in Tools \ {"exec_program"}
      /\ \A i \in DOMAIN steps : steps[i].dependsOn = <<>>
      /\ verdict' \in {"malformed", "acyclic"}
  BY DEF CheckBatchIds, limits, IInv, Inv, TypeOK, Tools
<1>2. Acyclic
  <2>1. ASSUME NEW id \in Identifiers PROVE Depends(id) = {}
    <3> DEFINE n == CHOOSE i \in DOMAIN steps : steps[i].id = id
    <3>1. n \in DOMAIN steps
      BY DEF Identifiers
    <3>2. DependenciesById(id) = <<>>
      BY <1>1, <3>1 DEF DependenciesById
    <3> QED
      BY <3>2 DEF Depends, ToSet
  <2> QED
    BY <2>1 DEF Acyclic, Depends
<1> QED
  BY <1>1, <1>2, VerdictOnGraph

\* A verdict on limits: of what is accepted none is exceeded.
LEMMA VerdictOnLimits ==
  ASSUME IInv, UNCHANGED <<steps, cycle>>, tool' \in Tools,
         tool' # "exec_program" => Acyclic,
         NEW p \in Policies(tool'), NEW request \in Requests(tool'),
         policy' = p, asked' = request,
         NEW others \in SUBSET {"batch_size", "share"}, NEW result,
         Decide(Exceeded(p, request) \cup others, result),
         tool' # "exec_program" /\ Exceeded(p, request) \cup others = {} =>
            /\ result.streamBytes \in 1..p["stream"].absolute
            /\ 2 * Len(steps) * result.streamBytes <= result.totalBytes
            /\ result.concurrency \in 1..Len(steps)
            /\ tool' = "exec" => result.totalBytes <= p["total"].absolute
  PROVE  IInv'
<1> DEFINE found == Exceeded(p, request) \cup others
<1>1. /\ issues' = found /\ verdict' = IF found = {} THEN "accepted" ELSE "over_limit"
      /\ found = {} => output' = result
  BY DEF Decide
<1>2. Exceeded(p, request) \subseteq LimitsOf(tool') /\ DOMAIN p = LimitsOf(tool')
  BY DEF Exceeded, Policies
<1>3. TypeOK'
  <2>1. issues' \subseteq {"batch_size", "share"} \cup UNION {LimitsOf(t) : t \in Tools}
    BY <1>1, <1>2
  <2>2. steps' \in Seq(StepInputs) /\ Len(steps') <= MaxSteps /\ cycle' \in Seq(Ids)
    BY DEF IInv, Inv, TypeOK
  <2>3. policy' \in Policies(tool') /\ asked' \in [LimitsOf(tool') -> Values \cup {Absent}]
    BY DEF Requests
  <2>4. verdict' \in Verdicts /\ tool' \in Tools \cup {"none"}
    BY <1>1 DEF Verdicts
  <2>5. (policy \in Policies(tool))' /\ (asked \in [LimitsOf(tool) -> Values \cup {Absent}])'
    BY <2>3 DEF Policies, Loadable, LimitsOf
  <2> QED
    BY <2>1, <2>2, <2>4, <2>5 DEF TypeOK, LimitsOf
<1>4. BudgetCoversAllStreams'
  BY <1>1 DEF BudgetCoversAllStreams
<1>5. AcceptsExactlyAcyclic'
  BY <1>1, SameGraph DEF AcceptsExactlyAcyclic
<1>6. DefaultsAreAccepted'
  <2> SUFFICES ASSUME \A l \in DOMAIN request : request[l] = Absent
               PROVE  issues' \subseteq {"batch_size", "share"}
    BY DEF DefaultsAreAccepted
  <2>1. ASSUME NEW l \in LimitsOf(tool') PROVE l \notin Exceeded(p, request)
    <3>1. request[l] = Absent
      BY DEF Requests
    <3> QED
      BY <3>1, LimitsHold
  <2> QED
    BY <1>1, <1>2, <2>1
<1>7. InStages'
  BY <1>1 DEF InStages
<1> QED
  BY <1>3, <1>4, <1>5, <1>6, <1>7 DEF IInv, Inv

LEMMA WorkersAre ==
  ASSUME steps \in Seq(StepInputs), steps # <<>>, NEW n \in Nat \ {0}
  PROVE  Len(steps) \in Nat \ {0} /\ Workers(n) \in 1..Len(steps)
<1>1. Len(steps) \in Nat \ {0}
  BY EmptySeq
<1> QED
  BY <1>1 DEF Workers

LEMMA ExecLimitsKeeps ==
  ASSUME IInv, ExecLimits
  PROVE  IInv'
<1>1. /\ verdict = "acyclic" /\ tool = "exec" /\ tool' = "exec" /\ UNCHANGED <<steps, cycle>>
      /\ steps \in Seq(StepInputs) /\ steps # <<>> /\ Acyclic
  BY DEF ExecLimits, IInv, Inv, TypeOK, AcceptsExactlyAcyclic, InStages
<1>2. PICK p \in Policies("exec"), batchSize \in BatchSizes, request \in Requests("exec") :
        LET total  == Effective(p, request, "total")
            stream == Effective(p, request, "stream")
        IN  /\ policy' = p /\ asked' = request
            /\ Decide(Exceeded(p, request) \cup TooMany(batchSize)
                        \cup (IF FairStreamBytes(total) < 1 THEN {"share"} ELSE {}),
                      [concurrency |-> Workers(Effective(p, request, "concurrency")),
                       totalBytes  |-> total,
                       streamBytes |-> StreamBytes(total, stream)])
  BY <1>1 DEF ExecLimits, Requests
<1> DEFINE total  == Effective(p, request, "total")
           stream == Effective(p, request, "stream")
           others == TooMany(batchSize) \cup (IF FairStreamBytes(total) < 1 THEN {"share"} ELSE {})
           result == [concurrency |-> Workers(Effective(p, request, "concurrency")),
                      totalBytes  |-> total,
                      streamBytes |-> StreamBytes(total, stream)]
<1>3. Decide(Exceeded(p, request) \cup others, result)
  <2>1. Exceeded(p, request) \cup others
          = Exceeded(p, request) \cup TooMany(batchSize)
              \cup (IF FairStreamBytes(total) < 1 THEN {"share"} ELSE {})
    OBVIOUS
  <2> QED
    BY <1>2, <2>1
<1>4. others \in SUBSET {"batch_size", "share"}
  BY DEF TooMany
<1>5. ASSUME Exceeded(p, request) \cup others = {}
      PROVE  /\ result.streamBytes \in 1..p["stream"].absolute
             /\ 2 * Len(steps) * result.streamBytes <= result.totalBytes
             /\ result.concurrency \in 1..Len(steps)
             /\ result.totalBytes <= p["total"].absolute
  <2>1. {"total", "stream", "concurrency"} \subseteq LimitsOf("exec")
    BY DEF LimitsOf
  <2>2. /\ total \in Nat \ {0} /\ stream \in Nat \ {0}
        /\ Effective(p, request, "concurrency") \in Nat \ {0}
        /\ p["stream"].absolute \in Nat
        /\ total <= p["total"].absolute /\ stream <= p["stream"].absolute
    BY <1>5, <2>1, LimitsHold
  <2>3. PICK n \in Nat \ {0} : n = Len(steps)
    BY <1>1, WorkersAre
  <2>4. Workers(Effective(p, request, "concurrency")) \in 1..n
    BY <1>1, <2>2, <2>3, WorkersAre
  <2>5. ~(FairStreamBytes(total) < 1) /\ FairStreamBytes(total) = total \div (n * 2)
    BY <1>5, <2>3 DEF FairStreamBytes
  <2> HIDE DEF total, stream
  <2>6. total \div (n * 2) \in Nat \ {0}
    <3>1. n * 2 \in Nat \ {0}
      OBVIOUS
    <3>2. total \div (n * 2) \in Nat
      BY <2>2, <3>1
    <3> QED
      BY <2>5, <3>2
  <2>7. PICK fair \in Nat \ {0} : fair = total \div (n * 2)
    BY <2>6
  <2>8. StreamBytes(total, stream) = IF stream < fair THEN stream ELSE fair
    BY <2>5, <2>7 DEF StreamBytes
  <2>9. PICK share \in Nat \ {0} : /\ share = StreamBytes(total, stream)
                                   /\ share <= fair /\ share <= stream
    BY <2>2, <2>8
  <2>10. 2 * n * share <= total
    BY <2>2, <2>7, <2>9, SharesFit
  <2>11. share \in 1..p["stream"].absolute
    BY <2>2, <2>9
  <2> QED
    BY <2>2, <2>3, <2>4, <2>9, <2>10, <2>11
<1> HIDE DEF others, result
<1> QED
  BY <1>1, <1>2, <1>3, <1>4, <1>5, VerdictOnLimits DEF Tools

LEMMA LegacyLimitsKeeps ==
  ASSUME IInv, LegacyLimits, tool \in {"batch_exec", "workflow_exec"}
  PROVE  IInv'
<1>1. /\ verdict = "acyclic" /\ tool' = tool /\ UNCHANGED <<steps, cycle>>
      /\ steps \in Seq(StepInputs) /\ steps # <<>> /\ Acyclic
  BY DEF LegacyLimits, IInv, Inv, TypeOK, AcceptsExactlyAcyclic, InStages
<1>2. PICK p \in Policies(tool), batchSize \in BatchSizes, request \in Requests(tool) :
        /\ policy' = p /\ asked' = request
        /\ Decide(Exceeded(p, request) \cup TooMany(batchSize),
                  LegacyOutput(Effective(p, request, "concurrency"),
                               Effective(p, request, "stream")))
  BY DEF LegacyLimits, Requests
<1> DEFINE stream == Effective(p, request, "stream")
           result == LegacyOutput(Effective(p, request, "concurrency"), stream)
<1>3. TooMany(batchSize) \in SUBSET {"batch_size", "share"}
  BY DEF TooMany
<1>4. ASSUME Exceeded(p, request) \cup TooMany(batchSize) = {}
      PROVE  /\ result.streamBytes \in 1..p["stream"].absolute
             /\ 2 * Len(steps) * result.streamBytes <= result.totalBytes
             /\ result.concurrency \in 1..Len(steps)
  <2>1. {"stream", "concurrency"} \subseteq LimitsOf(tool)
    BY DEF LimitsOf
  <2>2. /\ stream \in Nat \ {0} /\ stream <= p["stream"].absolute
        /\ p["stream"].absolute \in Nat
        /\ Effective(p, request, "concurrency") \in Nat \ {0}
    BY <1>4, <2>1, LimitsHold
  <2>3. PICK n \in Nat \ {0} : n = Len(steps)
    BY <1>1, WorkersAre
  <2>4. Workers(Effective(p, request, "concurrency")) \in 1..n
    BY <1>1, <2>2, <2>3, WorkersAre
  <2>5. 2 * n * stream <= stream * n * 2
    BY <2>2
  <2> HIDE DEF stream
  <2> QED
    BY <2>2, <2>3, <2>4, <2>5 DEF LegacyOutput
<1> HIDE DEF result
<1>5. tool' \in Tools /\ tool' # "exec"
  BY <1>1 DEF Tools
<1> QED
  BY <1>1, <1>2, <1>3, <1>4, <1>5, VerdictOnLimits DEF result

LEMMA ProgramLimitsKeeps ==
  ASSUME IInv, ProgramLimits
  PROVE  IInv'
<1>1. tool' = "exec_program" /\ UNCHANGED <<steps, cycle>>
  BY DEF ProgramLimits
<1>2. PICK p \in Policies(tool'), request \in Requests(tool') :
        /\ policy' = p /\ asked' = request
        /\ Decide(Exceeded(p, request),
                  [NoOutput EXCEPT !.concurrency = Effective(p, request, "concurrency")])
  BY DEF ProgramLimits, Requests
<1>3. Decide(Exceeded(p, request) \cup {},
             [NoOutput EXCEPT !.concurrency = Effective(p, request, "concurrency")])
  <2>1. Exceeded(p, request) \cup {} = Exceeded(p, request)
    OBVIOUS
  <2> QED
    BY <1>2, <2>1
<1> QED
  BY <1>1, <1>2, <1>3, VerdictOnLimits DEF Tools

LEMMA NextIInv == IInv /\ [Next]_vars => IInv'
<1> SUFFICES ASSUME IInv, [Next]_vars PROVE IInv'
  OBVIOUS
<1>1. CASE AddStep
  BY <1>1, AddStepKeeps
<1>2. CASE CheckExecGraph \/ CheckWorkflowGraph
  BY <1>2, CheckGraphKeeps DEF CheckExecGraph, CheckWorkflowGraph
<1>3. CASE CheckBatchIds
  BY <1>3, CheckBatchIdsKeeps
<1>4. CASE ExecLimits
  BY <1>4, ExecLimitsKeeps
<1>5. CASE BatchLimits \/ WorkflowLimits
  BY <1>5, LegacyLimitsKeeps DEF BatchLimits, WorkflowLimits
<1>6. CASE ProgramLimits
  BY <1>6, ProgramLimitsKeeps
<1>7. CASE UNCHANGED vars
  <2>1. Acyclic' <=> Acyclic
    BY <1>7, SameGraph DEF vars
  <2>2. \A id : DependenciesById(id)' = DependenciesById(id)
    BY <1>7 DEF vars, DependenciesById
  <2>3. TypeOK' /\ BudgetCoversAllStreams' /\ DefaultsAreAccepted' /\ InStages'
    BY <1>7 DEF vars, IInv, Inv, TypeOK, BudgetCoversAllStreams, DefaultsAreAccepted,
                InStages, Policies, LimitsOf, Loadable
  <2>4. AcceptsExactlyAcyclic'
    BY <1>7, <2>1, <2>2 DEF vars, IInv, AcceptsExactlyAcyclic
  <2> QED
    BY <2>3, <2>4 DEF IInv, Inv
<1> QED
  BY <1>1, <1>2, <1>3, <1>4, <1>5, <1>6, <1>7 DEF Next

-----------------------------------------------------------------------------
\* The inductive invariant holds.
THEOREM InvariantHolds == Spec => []IInv
<1> QED
  BY InitIInv, NextIInv, PTL DEF Spec

\* Every validated request has its type, and a budget that covers the streams of
\* all its steps within the server's limits (Inv).
THEOREM BudgetsCoverAllStreams == Spec => []Inv
<1>1. IInv => Inv
  BY DEF IInv
<1> QED
  BY <1>1, InvariantHolds, PTL

\* The depth-first search of the schemas accepts exactly the acyclic graphs,
\* and reports a cycle of any other.
THEOREM SearchAcceptsExactlyAcyclic == Spec => []AcceptsExactlyAcyclic
<1>1. IInv => AcceptsExactlyAcyclic
  BY DEF IInv
<1> QED
  BY <1>1, InvariantHolds, PTL

\* A request that names no limit exceeds none, under every loadable policy.
THEOREM DefaultsAlwaysPass == Spec => []DefaultsAreAccepted
<1>1. IInv => DefaultsAreAccepted
  BY DEF IInv
<1> QED
  BY <1>1, InvariantHolds, PTL
=============================================================================
