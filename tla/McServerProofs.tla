---------------------------- MODULE McServerProofs ----------------------------
(***************************************************************************)
(* Proofs about OutputArtifactStore and McServer.  First the store: for    *)
(* every size, every time to live and any output, what put(), get() and    *)
(* clear() keep of it, whoever calls them.  Then the server that calls     *)
(* them, for any calls, any output of their commands and any clock.        *)
(*                                                                         *)
(* The account of the store is a sum, so the proofs need induction.        *)
(***************************************************************************)
EXTENDS McServer, WellFoundedInduction, SequenceTheorems, TLAPS

-----------------------------------------------------------------------------
(***************************************************************************)
(* Induction over the natural numbers, stated for sets: for what a         *)
(* recursive function computes, and for the least number with a property.  *)
(***************************************************************************)

\* Every non-empty set of natural numbers has a least element.
LEMMA LeastNumber ==
  ASSUME NEW T \in SUBSET Nat, T # {}
  PROVE  \E n \in T : \A m \in T : n <= m
<1> DEFINE R == OpToRel(<, Nat)
<1>1. IsWellFoundedOn(R, Nat)
  BY NatLessThanWellFounded
<1>2. PICK n \in T : \A m \in T : ~(<<m, n>> \in R)
  <2> HIDE DEF R
  <2> QED
    BY <1>1, WFMin
<1>3. \A m \in T : <<m, n>> \in R <=> m < n
  BY DEF OpToRel
<1> HIDE DEF R
<1>4. \A m \in T : ~(m < n)
  BY <1>2, <1>3
<1>5. n \in Nat /\ \A m \in T : m \in Nat
  OBVIOUS
<1> QED
  BY <1>4, <1>5

\* Induction, for a set of numbers.
LEMMA Induction ==
  ASSUME NEW T, 0 \in T, \A n \in Nat : n \in T => n + 1 \in T
  PROVE  \A n \in Nat : n \in T
<1> DEFINE Missing == {n \in Nat : n \notin T}
<1>1. SUFFICES ASSUME Missing # {} PROVE FALSE
  OBVIOUS
<1>2. PICK n \in Missing : \A m \in Missing : n <= m
  BY <1>1, LeastNumber
<1>3. n \in Nat /\ n # 0 /\ n \notin T
  BY <1>2
<1>4. n - 1 \in Nat /\ ~(n <= n - 1) /\ (n - 1) + 1 = n
  BY <1>3
<1>5. n - 1 \in T
  BY <1>2, <1>4
<1> QED
  BY <1>3, <1>4, <1>5

-----------------------------------------------------------------------------
(***************************************************************************)
(* Sums of sequences of numbers.                                           *)
(***************************************************************************)

\* f has the sums of the first elements of s.
Sums(s, f) == f = [i \in 0..Len(s) |-> IF i = 0 THEN 0 ELSE f[i - 1] + s[i]]

LEMMA SumsExist ==
  ASSUME NEW s, Len(s) \in Nat
  PROVE  \E f : Sums(s, f)
<1> DEFINE UpTo(n, f) == f = [i \in 0..n |-> IF i = 0 THEN 0 ELSE f[i - 1] + s[i]]
           T == {n \in Nat : \E f : UpTo(n, f)}
<1>1. 0 \in T
  <2>1. UpTo(0, [i \in 0..0 |-> 0])
    OBVIOUS
  <2> QED
    BY <2>1
<1>2. ASSUME NEW n \in Nat, n \in T PROVE n + 1 \in T
  <2>1. PICK f : UpTo(n, f)
    BY <1>2
  <2> DEFINE g == [i \in 0..(n + 1) |-> IF i = n + 1 THEN f[n] + s[n + 1] ELSE f[i]]
  <2>2. UpTo(n + 1, g)
    BY <2>1
  <2> HIDE DEF g, UpTo
  <2>3. \E h : UpTo(n + 1, h)
    BY <2>2
  <2> QED
    BY <2>3
<1>3. Len(s) \in T
  <2> HIDE DEF T
  <2> QED
    BY <1>1, <1>2, Induction
<1> QED
  BY <1>3 DEF Sums

\* Total(s) is the last of any such sums; and they are numbers.
LEMMA TotalIsLastSum ==
  ASSUME NEW s \in Seq(Nat)
  PROVE  /\ \E f \in [0..Len(s) -> Nat] :
              /\ f[0] = 0 /\ \A i \in 1..Len(s) : f[i] = f[i - 1] + s[i]
              /\ Total(s) = f[Len(s)]
         /\ \A g : g[0] = 0 /\ (\A i \in 1..Len(s) : g[i] = g[i - 1] + s[i])
                     => Total(s) = g[Len(s)]
<1>1. /\ Len(s) \in Nat
      /\ \A i \in 1..Len(s) : s[i] \in Nat
  BY LenProperties, ElementOfSeq
<1> DEFINE f == CHOOSE f : Sums(s, f)
<1>2. Sums(s, f)
  BY <1>1, SumsExist
<1>3. Total(s) = f[Len(s)]
  BY DEF Total, Sums
<1> HIDE DEF f
<1>4. /\ f[0] = 0 /\ DOMAIN f = 0..Len(s)
      /\ \A i \in 1..Len(s) : f[i] = f[i - 1] + s[i]
  <2>1. f = [i \in 0..Len(s) |-> IF i = 0 THEN 0 ELSE f[i - 1] + s[i]]
    BY <1>2 DEF Sums
  <2>2. 0 \in 0..Len(s) /\ \A i \in 1..Len(s) : i \in 0..Len(s) /\ i # 0
    BY <1>1
  <2> QED
    BY <2>1, <2>2
<1>5. ASSUME NEW g, g[0] = 0, \A i \in 1..Len(s) : g[i] = g[i - 1] + s[i]
      PROVE  \A n \in Nat : n <= Len(s) => f[n] = g[n]
  <2> DEFINE T == {n \in Nat : n <= Len(s) => f[n] = g[n]}
  <2>1. 0 \in T
    BY <1>4, <1>5
  <2>2. ASSUME NEW n \in Nat, n \in T PROVE n + 1 \in T
    <3>1. SUFFICES ASSUME n + 1 <= Len(s) PROVE f[n + 1] = g[n + 1]
      OBVIOUS
    <3>2. n + 1 \in 1..Len(s) /\ (n + 1) - 1 = n /\ n <= Len(s)
      BY <1>1, <3>1
    <3>3. f[n] = g[n]
      BY <2>2, <3>2
    <3> QED
      BY <1>4, <1>5, <3>2, <3>3
  <2>3. \A n \in Nat : n \in T
    <3> HIDE DEF T
    <3> QED
      BY <2>1, <2>2, Induction
  <2> QED
    BY <2>3
<1>6. \A n \in Nat : n <= Len(s) => f[n] \in Nat
  <2> DEFINE T == {n \in Nat : n <= Len(s) => f[n] \in Nat}
  <2>1. 0 \in T
    BY <1>4
  <2>2. ASSUME NEW n \in Nat, n \in T PROVE n + 1 \in T
    <3>1. SUFFICES ASSUME n + 1 <= Len(s) PROVE f[n + 1] \in Nat
      OBVIOUS
    <3>2. n + 1 \in 1..Len(s) /\ (n + 1) - 1 = n /\ n <= Len(s)
      BY <1>1, <3>1
    <3>3. f[n] \in Nat /\ s[n + 1] \in Nat
      BY <1>1, <2>2, <3>2
    <3> QED
      BY <1>4, <3>2, <3>3
  <2>3. \A n \in Nat : n \in T
    <3> HIDE DEF T
    <3> QED
      BY <2>1, <2>2, Induction
  <2> QED
    BY <2>3
<1>7. f \in [0..Len(s) -> Nat]
  <2>1. \A n \in 0..Len(s) : f[n] \in Nat
    BY <1>1, <1>6
  <2>2. f = [i \in 0..Len(s) |-> f[i]]
    <3>1. f = [i \in 0..Len(s) |-> IF i = 0 THEN 0 ELSE f[i - 1] + s[i]]
      BY <1>2 DEF Sums
    <3> QED
      BY <3>1
  <2> QED
    BY <2>1, <2>2
<1>8. \A g : g[0] = 0 /\ (\A i \in 1..Len(s) : g[i] = g[i - 1] + s[i])
              => Total(s) = g[Len(s)]
  <2> SUFFICES ASSUME NEW g, g[0] = 0, \A i \in 1..Len(s) : g[i] = g[i - 1] + s[i]
               PROVE  Total(s) = g[Len(s)]
    OBVIOUS
  <2>1. Len(s) <= Len(s)
    BY <1>1
  <2> QED
    BY <1>1, <1>3, <1>5, <2>1
<1>9. \E h \in [0..Len(s) -> Nat] :
        /\ h[0] = 0 /\ \A i \in 1..Len(s) : h[i] = h[i - 1] + s[i]
        /\ Total(s) = h[Len(s)]
  BY <1>3, <1>4, <1>7
<1> QED
  BY <1>8, <1>9

\* The second half, as it is used.
LEMMA SumIsTotal ==
  ASSUME NEW s \in Seq(Nat), NEW g, g[0] = 0,
         \A i \in 1..Len(s) : g[i] = g[i - 1] + s[i]
  PROVE  Total(s) = g[Len(s)]
<1> QED
  BY TotalIsLastSum

LEMMA TotalType ==
  ASSUME NEW s \in Seq(Nat)
  PROVE  Total(s) \in Nat
<1> QED
  BY TotalIsLastSum, LenProperties

\* The sum of two parts.
LEMMA TotalSplit ==
  ASSUME NEW s \in Seq(Nat), NEW a \in Seq(Nat), NEW b \in Seq(Nat),
         Len(s) = Len(a) + Len(b),
         \A i \in 1..Len(a) : s[i] = a[i],
         \A i \in 1..Len(b) : s[Len(a) + i] = b[i]
  PROVE  Total(s) = Total(a) + Total(b)
<1>1. /\ Len(s) \in Nat /\ Len(a) \in Nat /\ Len(b) \in Nat
      /\ \A i \in 1..Len(b) : b[i] \in Nat
  BY LenProperties, ElementOfSeq
<1>2. PICK f \in [0..Len(s) -> Nat] :
        /\ f[0] = 0 /\ \A i \in 1..Len(s) : f[i] = f[i - 1] + s[i]
        /\ Total(s) = f[Len(s)]
  BY TotalIsLastSum
<1>3. Total(a) = f[Len(a)]
  <2>1. \A i \in 1..Len(a) : f[i] = f[i - 1] + a[i]
    BY <1>1, <1>2
  <2> QED
    BY <1>2, <2>1, SumIsTotal
<1> DEFINE g == [i \in 0..Len(b) |-> f[Len(a) + i] - f[Len(a)]]
<1>4. /\ f[Len(s)] \in Nat /\ f[Len(a)] \in Nat
      /\ g[0] = 0 /\ g[Len(b)] = f[Len(s)] - f[Len(a)]
  <2>1. /\ Len(s) \in 0..Len(s) /\ Len(a) \in 0..Len(s)
        /\ 0 \in 0..Len(b) /\ Len(b) \in 0..Len(b) /\ Len(a) + 0 = Len(a)
    BY <1>1
  <2>2. f[Len(s)] \in Nat /\ f[Len(a)] \in Nat
    BY <2>1
  <2> QED
    BY <2>1, <2>2
<1>5. ASSUME NEW i \in 1..Len(b) PROVE g[i] = g[i - 1] + b[i]
  <2>1. /\ Len(a) + i \in 1..Len(s) /\ (Len(a) + i) - 1 = Len(a) + (i - 1)
        /\ Len(a) + i \in 0..Len(s) /\ Len(a) + (i - 1) \in 0..Len(s)
        /\ Len(a) \in 0..Len(s)
        /\ i \in 0..Len(b) /\ i - 1 \in 0..Len(b)
    BY <1>1
  <2>2. f[Len(a) + i] = f[Len(a) + (i - 1)] + b[i]
    BY <1>2, <2>1
  <2>3. f[Len(a) + i] \in Nat /\ f[Len(a) + (i - 1)] \in Nat /\ f[Len(a)] \in Nat
    BY <1>2, <2>1
  <2>4. /\ g[i] = f[Len(a) + i] - f[Len(a)]
        /\ g[i - 1] = f[Len(a) + (i - 1)] - f[Len(a)]
    BY <2>1
  <2>5. b[i] \in Nat
    BY <1>1
  <2>6. PICK x \in Nat, y \in Nat, z \in Nat, d \in Nat :
          /\ x = f[Len(a) + i] /\ y = f[Len(a) + (i - 1)] /\ z = f[Len(a)]
          /\ d = b[i]
    BY <2>3, <2>5
  <2> HIDE DEF g
  <2>7. x = y + d /\ g[i] = x - z /\ g[i - 1] = y - z
    BY <2>2, <2>4, <2>6
  <2>8. g[i] = g[i - 1] + d
    BY <2>7
  <2> QED
    BY <2>6, <2>8
<1>6. Total(b) = g[Len(b)]
  <2> HIDE DEF g
  <2> QED
    BY <1>4, <1>5, SumIsTotal
<1> HIDE DEF g
<1> QED
  BY <1>2, <1>3, <1>4, <1>6

LEMMA TotalOfOne ==
  ASSUME NEW s \in Seq(Nat), Len(s) = 1
  PROVE  Total(s) = s[1]
<1> DEFINE g == [i \in 0..1 |-> IF i = 0 THEN 0 ELSE s[1]]
<1>1. s[1] \in Nat
  <2>1. 1 \in 1..Len(s)
    OBVIOUS
  <2> QED
    BY <2>1, ElementOfSeq
<1>2. g[0] = 0 /\ g[1] = s[1] /\ \A i \in 1..Len(s) : g[i] = g[i - 1] + s[i]
  BY <1>1
<1> HIDE DEF g
<1> QED
  BY <1>2, SumIsTotal

LEMMA TotalOfZeros ==
  ASSUME NEW s \in Seq(Nat), \A i \in 1..Len(s) : s[i] = 0
  PROVE  Total(s) = 0
<1> DEFINE g == [i \in 0..Len(s) |-> 0]
<1>1. Len(s) \in Nat
  BY LenProperties
<1>2. g[0] = 0 /\ g[Len(s)] = 0 /\ \A i \in 1..Len(s) : g[i] = g[i - 1] + s[i]
  BY <1>1
<1> HIDE DEF g
<1> QED
  BY <1>2, SumIsTotal

-----------------------------------------------------------------------------
(***************************************************************************)
(* What is always true of the store.                                       *)
(***************************************************************************)
Artifact == [id : Nat, bytes : Nat \ {0}, expiresAt : Nat]
Refusal  == [bytes : Nat, after : Nat]
Stores   == [artifacts : Seq(Artifact), retained : Nat, issued : Seq(Artifact),
             refused : Seq(Refusal), cleared : BOOLEAN]

\* How many of the issued artifacts are not stored any more.
Gone(st) == Len(st.issued) - Len(st.artifacts)

\* What is stored is the end of what was issued.
StoredLast(st) ==
    /\ Gone(st) \in Nat
    /\ \A i \in 1..Len(st.artifacts) : st.artifacts[i] = st.issued[Gone(st) + i]

\* As long as the clock runs forward artifacts expire in the order in which they
\* were issued, and what is gone has expired.
InOrder(st) ==
    ~steppedBack =>
        /\ \A i, j \in 1..Len(st.issued) :
             i <= j => st.issued[i].expiresAt <= st.issued[j].expiresAt
        /\ \A i \in 1..Len(st.issued) : st.issued[i].expiresAt <= now + TimeToLive
        /\ ~st.cleared => \A i \in 1..Gone(st) : Expired(st.issued[i])

\* A refusal was justified: see RefusedOnlyWhenFull.
Readable(st, n) == [i \in 1..n |-> IF Expired(st.issued[i]) THEN 0
                                   ELSE st.issued[i].bytes]
Justified(st, put) ==
    /\ put.after <= Len(st.issued)
    /\ ~steppedBack => Total(Readable(st, put.after)) + put.bytes > MaximumRetainedBytes

StoreInv(st) ==
    /\ st \in Stores
    /\ \A i \in 1..Len(st.issued) : st.issued[i].id = i
    /\ StoredLast(st)
    /\ st.retained = Bytes(st.artifacts) /\ st.retained <= MaximumRetainedBytes
    /\ InOrder(st)
    /\ \A i \in 1..Len(st.refused) : Justified(st, st.refused[i])

ClockOK == now \in 0..MaxTime /\ steppedBack \in BOOLEAN

-----------------------------------------------------------------------------
(***************************************************************************)
(* The bytes of a sequence of artifacts.                                   *)
(***************************************************************************)
Sizes(q) == [i \in 1..Len(q) |-> q[i].bytes]

LEMMA SizesAreNumbers ==
  ASSUME NEW q \in Seq(Artifact)
  PROVE  /\ Sizes(q) \in Seq(Nat) /\ Len(Sizes(q)) = Len(q)
         /\ \A i \in 1..Len(q) : Sizes(q)[i] = q[i].bytes
         /\ Bytes(q) = Total(Sizes(q)) /\ Bytes(q) \in Nat
<1>1. Len(q) \in Nat /\ \A i \in 1..Len(q) : q[i].bytes \in Nat
  <2>1. \A i \in 1..Len(q) : q[i] \in Artifact
    BY ElementOfSeq
  <2> QED
    BY <2>1, LenProperties DEF Artifact
<1>2. Sizes(q) \in [1..Len(q) -> Nat]
  BY <1>1 DEF Sizes
<1>3. Sizes(q) \in Seq(Nat)
  BY <1>1, <1>2, SeqDef
<1>4. Len(Sizes(q)) = Len(q) /\ Bytes(q) = Total(Sizes(q))
  BY <1>1, <1>2, <1>3, LenProperties DEF Sizes, Bytes
<1> QED
  BY <1>3, <1>4, TotalType DEF Sizes

LEMMA BytesOfNothing == Bytes(<<>>) = 0
<1>1. <<>> \in Seq(Artifact) /\ Len(<<>>) = 0
  OBVIOUS
<1>2. Sizes(<<>>) \in Seq(Nat) /\ Len(Sizes(<<>>)) = 0 /\ Bytes(<<>>) = Total(Sizes(<<>>))
  BY <1>1, SizesAreNumbers
<1>3. \A i \in 1..Len(Sizes(<<>>)) : Sizes(<<>>)[i] = 0
  BY <1>2
<1> QED
  BY <1>2, <1>3, TotalOfZeros

LEMMA BytesSplit ==
  ASSUME NEW q \in Seq(Artifact), NEW n \in 0..Len(q)
  PROVE  /\ SubSeq(q, 1, n) \in Seq(Artifact) /\ Len(SubSeq(q, 1, n)) = n
         /\ SubSeq(q, n + 1, Len(q)) \in Seq(Artifact)
         /\ Len(SubSeq(q, n + 1, Len(q))) = Len(q) - n
         /\ \A i \in 1..(Len(q) - n) : SubSeq(q, n + 1, Len(q))[i] = q[n + i]
         /\ Bytes(q) = Bytes(SubSeq(q, 1, n)) + Bytes(SubSeq(q, n + 1, Len(q)))
<1> DEFINE a == SubSeq(q, 1, n)
           b == SubSeq(q, n + 1, Len(q))
<1>1. Len(q) \in Nat /\ n \in Nat /\ n <= Len(q)
      /\ \A i \in 1..Len(q) : q[i] \in Artifact
  BY LenProperties, ElementOfSeq
<1>2. /\ a \in Seq(Artifact) /\ Len(a) = n
      /\ \A i \in 1..n : a[i] = q[i]
  <2>1. \A i \in 1..n : q[i] \in Artifact
    BY <1>1
  <2>2. /\ a \in Seq(Artifact)
        /\ Len(a) = IF 1 <= n THEN n - 1 + 1 ELSE 0
        /\ \A i \in 1..(n - 1 + 1) : a[i] = q[1 + i - 1]
    BY <1>1, <2>1, SubSeqProperties
  <2> HIDE DEF a
  <2> QED
    BY <1>1, <2>2
<1>3. /\ b \in Seq(Artifact) /\ Len(b) = Len(q) - n
      /\ \A i \in 1..(Len(q) - n) : b[i] = q[n + i]
  <2>1. \A i \in (n + 1)..Len(q) : q[i] \in Artifact
    BY <1>1
  <2>2. /\ b \in Seq(Artifact)
        /\ Len(b) = IF n + 1 <= Len(q) THEN Len(q) - (n + 1) + 1 ELSE 0
        /\ \A i \in 1..(Len(q) - (n + 1) + 1) : b[i] = q[(n + 1) + i - 1]
    BY <1>1, <2>1, SubSeqProperties
  <2> HIDE DEF b
  <2> QED
    BY <1>1, <2>2
<1> HIDE DEF a, b
<1>4. Bytes(q) = Bytes(a) + Bytes(b)
  <2>1. /\ Sizes(q) \in Seq(Nat) /\ Sizes(a) \in Seq(Nat) /\ Sizes(b) \in Seq(Nat)
        /\ Len(Sizes(q)) = Len(Sizes(a)) + Len(Sizes(b)) /\ Len(Sizes(a)) = n
    BY <1>1, <1>2, <1>3, SizesAreNumbers
  <2>2. \A i \in 1..Len(Sizes(a)) : Sizes(q)[i] = Sizes(a)[i]
    <3>1. /\ \A i \in 1..Len(q) : Sizes(q)[i] = q[i].bytes
          /\ \A i \in 1..Len(a) : Sizes(a)[i] = a[i].bytes
      BY <1>2, SizesAreNumbers
    <3>2. \A i \in 1..n : i \in 1..Len(q)
      BY <1>1
    <3> QED
      BY <1>2, <2>1, <3>1, <3>2
  <2>3. \A i \in 1..Len(Sizes(b)) : Sizes(q)[Len(Sizes(a)) + i] = Sizes(b)[i]
    <3>1. /\ Len(Sizes(b)) = Len(q) - n
          /\ \A i \in 1..Len(q) : Sizes(q)[i] = q[i].bytes
          /\ \A i \in 1..Len(b) : Sizes(b)[i] = b[i].bytes
      BY <1>3, SizesAreNumbers
    <3>2. \A i \in 1..(Len(q) - n) : n + i \in 1..Len(q)
      BY <1>1
    <3> QED
      BY <1>1, <1>3, <2>1, <3>1, <3>2
  <2>4. Total(Sizes(q)) = Total(Sizes(a)) + Total(Sizes(b))
    BY <2>1, <2>2, <2>3, TotalSplit
  <2> QED
    BY <1>2, <1>3, <2>4, SizesAreNumbers
<1> QED
  BY <1>2, <1>3, <1>4 DEF a, b

LEMMA BytesAppend ==
  ASSUME NEW q \in Seq(Artifact), NEW a \in Artifact
  PROVE  Bytes(Append(q, a)) = Bytes(q) + a.bytes
<1> DEFINE p   == Append(q, a)
           one == [i \in 1..1 |-> a.bytes]
<1>1. /\ p \in Seq(Artifact) /\ Len(q) \in Nat /\ Len(p) = Len(q) + 1
      /\ \A i \in 1..Len(q) : p[i] = q[i]
      /\ p[Len(q) + 1] = a
  BY AppendProperties, LenProperties
<1>2. /\ one \in Seq(Nat) /\ Len(one) = 1 /\ one[1] = a.bytes
  <2>1. a.bytes \in Nat
    BY DEF Artifact
  <2>2. one \in [1..1 -> Nat]
    BY <2>1
  <2>3. one \in Seq(Nat)
    BY <2>2, SeqDef
  <2> QED
    BY <2>2, <2>3, LenProperties
<1> HIDE DEF p, one
<1>3. /\ Sizes(p) \in Seq(Nat) /\ Sizes(q) \in Seq(Nat)
      /\ Len(Sizes(p)) = Len(q) + 1 /\ Len(Sizes(q)) = Len(q)
      /\ \A i \in 1..(Len(q) + 1) : Sizes(p)[i] = p[i].bytes
      /\ \A i \in 1..Len(q) : Sizes(q)[i] = q[i].bytes
  BY <1>1, SizesAreNumbers
<1>4. \A i \in 1..Len(Sizes(q)) : Sizes(p)[i] = Sizes(q)[i]
  <2>1. ASSUME NEW i \in 1..Len(q) PROVE Sizes(p)[i] = Sizes(q)[i]
    <3>1. i \in 1..(Len(q) + 1)
      BY <1>1
    <3>2. p[i] = q[i]
      BY <1>1
    <3> QED
      BY <1>3, <3>1, <3>2
  <2> QED
    BY <1>3, <2>1
<1>5. \A i \in 1..Len(one) : Sizes(p)[Len(Sizes(q)) + i] = one[i]
  BY <1>1, <1>2, <1>3
<1>6. Total(Sizes(p)) = Total(Sizes(q)) + Total(one)
  <2>1. Len(Sizes(p)) = Len(Sizes(q)) + Len(one)
    BY <1>2, <1>3
  <2> QED
    BY <1>2, <1>3, <1>4, <1>5, <2>1, TotalSplit
<1>7. Total(one) = a.bytes
  BY <1>2, TotalOfOne
<1> QED
  BY <1>1, <1>6, <1>7, SizesAreNumbers DEF p

-----------------------------------------------------------------------------
(***************************************************************************)
(* #purgeExpired().                                                        *)
(***************************************************************************)

\* Where the loop stops: at the first artifact that has not expired.
StopsAt(q, n) == /\ \A i \in 1..n : Expired(q[i])
                 /\ n < Len(q) => ~Expired(q[n + 1])

LEMMA PurgeStops ==
  ASSUME NEW q \in Seq(Artifact)
  PROVE  \E n \in 0..Len(q) : Purged(q) = SubSeq(q, 1, n) /\ StopsAt(q, n)
<1>1. Len(q) \in Nat
  BY LenProperties
<1>2. \E n \in 0..Len(q) : StopsAt(q, n)
  <2> DEFINE T == {n \in 0..Len(q) : n < Len(q) => ~Expired(q[n + 1])}
  <2>1. Len(q) \in T /\ T \in SUBSET Nat
    BY <1>1
  <2>2. PICK n \in T : \A m \in T : n <= m
    <3> HIDE DEF T
    <3> QED
      BY <2>1, LeastNumber
  <2>3. ASSUME NEW i \in 1..n PROVE Expired(q[i])
    <3>1. /\ n \in 0..Len(q) /\ i - 1 \in 0..Len(q) /\ (i - 1) + 1 = i
          /\ i - 1 < Len(q) /\ ~(n <= i - 1)
      BY <1>1, <2>2
    <3>2. i - 1 \notin T
      BY <2>2, <3>1
    <3> QED
      BY <3>1, <3>2
  <2> QED
    BY <2>2, <2>3 DEF StopsAt
<1> DEFINE n == CHOOSE n \in 0..Len(q) : StopsAt(q, n)
<1>3. n \in 0..Len(q) /\ StopsAt(q, n)
  BY <1>2
<1>4. Purged(q) = SubSeq(q, 1, n)
  BY DEF Purged, StopsAt
<1> HIDE DEF n
<1> QED
  BY <1>3, <1>4

\* What is gone and what is stored add up to what was issued.
LEMMA GoneOrStored ==
  ASSUME NEW st, StoreInv(st)
  PROVE  \E g \in Nat, k \in Nat :
           g = Gone(st) /\ k = Len(st.artifacts) /\ Len(st.issued) = g + k
<1>1. st.artifacts \in Seq(Artifact) /\ st.issued \in Seq(Artifact)
  BY DEF StoreInv, Stores
<1>2. /\ Len(st.artifacts) \in Nat /\ Len(st.issued) \in Nat
      /\ Gone(st) \in Nat /\ Gone(st) = Len(st.issued) - Len(st.artifacts)
  BY <1>1, LenProperties DEF StoreInv, StoredLast, Gone
<1>3. \A a \in Nat, b \in Nat, c \in Nat : c = a - b => a = c + b
  OBVIOUS
<1>4. Len(st.issued) = Gone(st) + Len(st.artifacts)
  BY <1>2, <1>3
<1> QED
  BY <1>2, <1>4

\* The purge keeps the invariant, and without a step back of the clock it leaves
\* exactly the artifacts that have not expired.
THEOREM PurgeKeeps ==
  ASSUME NEW st, StoreInv(st), ClockOK
  PROVE  LET after == AfterPurge(st)
         IN  /\ StoreInv(after)
             /\ after.issued = st.issued /\ after.refused = st.refused
             /\ after.cleared = st.cleared
             /\ ~steppedBack /\ ~st.cleared =>
                  \A i \in 1..Len(st.issued) : Expired(st.issued[i]) <=> i <= Gone(after)
<1> DEFINE q == st.artifacts
           after == AfterPurge(st)
<1>1. /\ st \in Stores /\ q \in Seq(Artifact) /\ st.issued \in Seq(Artifact)
      /\ Len(q) \in Nat /\ Len(st.issued) \in Nat
      /\ Gone(st) = Len(st.issued) - Len(q) /\ Gone(st) \in Nat
      /\ \A i \in 1..Len(q) : q[i] = st.issued[Gone(st) + i]
  <2>1. st \in Stores /\ q \in Seq(Artifact) /\ st.issued \in Seq(Artifact)
    BY DEF StoreInv, Stores
  <2> QED
    BY <2>1, LenProperties DEF StoreInv, StoredLast, Gone
<1>2. PICK n \in 0..Len(q) : Purged(q) = SubSeq(q, 1, n) /\ StopsAt(q, n)
  BY <1>1, PurgeStops
<1> DEFINE rest == SubSeq(q, n + 1, Len(q))
<1>3. /\ Len(Purged(q)) = n /\ rest \in Seq(Artifact) /\ Len(rest) = Len(q) - n
      /\ \A i \in 1..(Len(q) - n) : rest[i] = q[n + i]
      /\ Bytes(q) = Bytes(Purged(q)) + Bytes(rest)
      /\ Bytes(Purged(q)) \in Nat /\ Bytes(rest) \in Nat
  BY <1>1, <1>2, BytesSplit, SizesAreNumbers
<1>4. after = [st EXCEPT !.artifacts = rest, !.retained = @ - Bytes(Purged(q))]
  BY <1>3 DEF AfterPurge
<1> HIDE DEF rest
<1>5. /\ after.artifacts = rest /\ after.retained = st.retained - Bytes(Purged(q))
      /\ after.issued = st.issued /\ after.refused = st.refused
      /\ after.cleared = st.cleared
  BY <1>1, <1>4 DEF Stores
<1>6. after.retained = Bytes(rest) /\ after.retained \in Nat
        /\ after.retained <= MaximumRetainedBytes
  <2>1. st.retained = Bytes(q) /\ st.retained <= MaximumRetainedBytes
          /\ MaximumRetainedBytes \in Nat
    BY LimitsAssumption DEF StoreInv
  <2> QED
    BY <1>3, <1>5, <2>1
<1>7. after \in Stores
  BY <1>1, <1>3, <1>4, <1>5, <1>6 DEF Stores
<1>8. PICK g \in Nat, k \in Nat :
        g = Gone(st) /\ k = Len(q) /\ Len(st.issued) = g + k
  BY GoneOrStored
<1> HIDE DEF after, q
<1>9. PICK h \in Nat : h = Gone(after) /\ h = g + n
  <2>1. Gone(after) = (g + k) - (k - n)
    BY <1>3, <1>5, <1>8 DEF Gone
  <2>2. n \in 0..k
    BY <1>8
  <2>3. Gone(after) = g + n /\ g + n \in Nat
    BY <2>1, <2>2
  <2> QED
    BY <2>3
<1>10. n \in 0..k /\ Len(rest) = k - n
  BY <1>3, <1>8
<1>11. StoredLast(after)
  <2>1. ASSUME NEW i \in 1..Len(rest)
        PROVE  rest[i] = st.issued[h + i]
    <3>1. i \in 1..(k - n) /\ n + i \in 1..k /\ h + i = g + (n + i)
      BY <1>9, <1>10
    <3>2. rest[i] = q[n + i] /\ q[n + i] = st.issued[g + (n + i)]
      BY <1>1, <1>3, <1>8, <1>9, <1>10, <3>1
    <3> QED
      BY <3>1, <3>2
  <2> QED
    BY <1>5, <1>8, <1>9, <1>10, <2>1 DEF StoredLast
<1>12. ASSUME NEW i \in (g + 1)..h
       PROVE  Expired(st.issued[i])
  <2>1. PICK j \in 1..n : i = g + j
    <3>1. i - g \in 1..n /\ i = g + (i - g)
      BY <1>8, <1>9, <1>10
    <3> QED
      BY <3>1
  <2>2. j \in 1..Len(q)
    BY <1>1, <2>1
  <2>3. q[j] = st.issued[i]
    BY <1>1, <1>8, <1>9, <1>10, <2>1, <2>2
  <2> QED
    BY <1>2, <2>3 DEF StopsAt
<1>13. InOrder(after)
  <2>1. \A i \in 1..h : i \in 1..g \/ i \in (g + 1)..h
    BY <1>8, <1>9, <1>10
  <2>2. InOrder(st)
    BY DEF StoreInv
  <2> QED
    BY <1>5, <1>8, <1>9, <1>10, <1>12, <2>1, <2>2 DEF InOrder
<1>14. StoreInv(after)
  <2>1. \A put : Justified(st, put) <=> Justified(after, put)
    BY <1>5 DEF Justified, Readable
  <2> QED
    BY <1>5, <1>6, <1>7, <1>11, <1>13, <2>1 DEF StoreInv
<1>15. ASSUME ~steppedBack, ~st.cleared, NEW i \in 1..Len(st.issued)
       PROVE  Expired(st.issued[i]) <=> i <= Gone(after)
  <2>1. CASE i <= h
    <3>1. i \in 1..h
      BY <1>8, <1>9, <1>10, <2>1
    <3> QED
      BY <1>5, <1>8, <1>9, <1>10, <1>13, <1>15, <2>1, <3>1 DEF InOrder
  <2>2. CASE ~(i <= h)
    <3>1. PICK m \in 1..Len(st.issued) : m = g + (n + 1) /\ m <= i
      <4>1. g + (n + 1) \in 1..Len(st.issued) /\ g + (n + 1) <= i
        <5>1. i \in 1..(g + k)
          BY <1>8
        <5>2. g + (n + 1) \in 1..(g + k) /\ g + (n + 1) <= i
          BY <1>9, <1>10, <2>2, <5>1
        <5> QED
          BY <1>8, <5>2
      <4> QED
        BY <4>1
    <3>2. ~Expired(st.issued[m])
      <4>1. n + 1 \in 1..Len(q) /\ n < Len(q)
        BY <1>1, <1>8, <1>9, <1>10, <3>1
      <4>2. q[n + 1] = st.issued[m]
        BY <1>1, <1>8, <1>9, <1>10, <3>1, <4>1
      <4> QED
        BY <1>2, <4>1, <4>2 DEF StopsAt
    <3>3. st.issued[m].expiresAt <= st.issued[i].expiresAt
      BY <1>15, <3>1 DEF StoreInv, InOrder
    <3>4. /\ st.issued[m].expiresAt \in Nat /\ st.issued[i].expiresAt \in Nat
          /\ now \in Nat
      <4>1. st.issued[m] \in Artifact /\ st.issued[i] \in Artifact
        BY <1>1, ElementOfSeq
      <4> QED
        BY <4>1, MaxTimeAssumption DEF Artifact, ClockOK
    <3>5. ~Expired(st.issued[i])
      BY <3>2, <3>3, <3>4 DEF Expired
    <3> QED
      BY <1>8, <1>9, <1>10, <2>2, <3>5
  <2> QED
    BY <1>8, <1>9, <1>10, <2>1, <2>2
<1> QED
  BY <1>5, <1>14, <1>15 DEF after

\* Purging an empty store leaves it empty.
LEMMA PurgeEmpty ==
    ASSUME NEW st, "artifacts" \in DOMAIN st, st.artifacts = <<>>
    PROVE  /\ "artifacts" \in DOMAIN AfterPurge(st)
           /\ AfterPurge(st).artifacts = <<>>
<1>1. Purged(<<>>) = <<>>
  <2> DEFINE Stop(m) == /\ \A j \in 1..m : Expired(<<>>[j])
                        /\ m < Len(<<>>) => ~Expired(<<>>[m + 1])
             n == CHOOSE m \in 0..Len(<<>>) : Stop(m)
  <2>1. \E m \in 0..Len(<<>>) : Stop(m)
    <3>1. Len(<<>>) = 0 /\ 0 \in 0..0 /\ 1..0 = {}
      OBVIOUS
    <3> QED BY <3>1
  <2>2. n \in 0..Len(<<>>)
    BY <2>1
  <2>3. n = 0
    BY <2>2
  <2>4. Purged(<<>>) = SubSeq(<<>>, 1, n)
    BY DEF Purged
  <2>5. SubSeq(<<>>, 1, 0) = <<>>
    OBVIOUS
  <2> QED BY <2>3, <2>4, <2>5
<1>2. SubSeq(st.artifacts, Len(Purged(st.artifacts)) + 1, Len(st.artifacts)) = <<>>
  <2>1. Len(<<>>) = 0 /\ SubSeq(<<>>, 1, 0) = <<>>
    OBVIOUS
  <2> QED BY <1>1, <2>1
<1> QED BY <1>2 DEF AfterPurge

\* As long as the clock runs forward, what a purge leaves is what is readable, and
\* so its size is the sum that RefusedOnlyWhenFull speaks of.
LEMMA ReadableIsRetained ==
  ASSUME NEW st, StoreInv(st), ClockOK, ~steppedBack, ~st.cleared
  PROVE  LET after == AfterPurge(st)
         IN  Total(Readable(after, Len(after.issued))) = after.retained
<1> DEFINE after == AfterPurge(st)
           q == after.artifacts
           all == after.issued
           s == Readable(after, Len(all))
<1>1. /\ StoreInv(after)
      /\ \A i \in 1..Len(all) : Expired(all[i]) <=> i <= Gone(after)
  BY PurgeKeeps
<1> HIDE DEF after
<1>2. /\ q \in Seq(Artifact) /\ all \in Seq(Artifact)
      /\ Len(q) \in Nat /\ Len(all) \in Nat
      /\ \A i \in 1..Len(all) : all[i].bytes \in Nat
      /\ Gone(after) \in Nat /\ \A i \in 1..Len(q) : q[i] = all[Gone(after) + i]
      /\ after.retained = Bytes(q)
  <2>1. q \in Seq(Artifact) /\ all \in Seq(Artifact)
    BY <1>1 DEF StoreInv, Stores
  <2>2. \A i \in 1..Len(all) : all[i] \in Artifact
    BY <2>1, ElementOfSeq
  <2> QED
    BY <1>1, <2>1, <2>2, LenProperties DEF StoreInv, StoredLast, Artifact
<1>3. PICK g \in Nat, k \in Nat : g = Gone(after) /\ k = Len(q) /\ Len(all) = g + k
  BY <1>1, GoneOrStored
<1>4. /\ s \in Seq(Nat) /\ Len(s) = g + k
      /\ \A i \in 1..(g + k) : s[i] = IF i <= g THEN 0 ELSE all[i].bytes
  <2>1. s = [i \in 1..(g + k) |-> IF i <= g THEN 0 ELSE all[i].bytes]
    <3>1. \A i \in 1..(g + k) : (IF Expired(all[i]) THEN 0 ELSE all[i].bytes)
                                 = IF i <= g THEN 0 ELSE all[i].bytes
      BY <1>1, <1>3
    <3>2. s = [i \in 1..(g + k) |-> IF Expired(all[i]) THEN 0 ELSE all[i].bytes]
      BY <1>3 DEF Readable
    <3> HIDE DEF s, all
    <3> QED
      BY <3>1, <3>2
  <2>2. s \in [1..(g + k) -> Nat]
    <3>1. \A i \in 1..(g + k) : (IF i <= g THEN 0 ELSE all[i].bytes) \in Nat
      BY <1>2, <1>3
    <3> HIDE DEF s, all
    <3> QED
      BY <2>1, <3>1
  <2>3. s \in Seq(Nat)
    BY <2>2, SeqDef
  <2> QED
    BY <2>1, <2>2, <2>3, LenProperties
<1> DEFINE a == [i \in 1..g |-> 0]
           b == Sizes(q)
<1>5. a \in Seq(Nat) /\ Len(a) = g /\ \A i \in 1..g : a[i] = 0
  <2>1. a \in [1..g -> Nat]
    OBVIOUS
  <2>2. a \in Seq(Nat)
    BY <2>1, SeqDef
  <2> QED
    BY <2>1, <2>2, LenProperties
<1>6. /\ b \in Seq(Nat) /\ Len(b) = k
      /\ \A i \in 1..k : b[i] = all[g + i].bytes
      /\ Bytes(q) = Total(b)
  BY <1>2, <1>3, SizesAreNumbers
<1> HIDE DEF a, b, s
<1>7. \A i \in 1..Len(a) : s[i] = a[i]
  BY <1>4, <1>5
<1>8. \A i \in 1..Len(b) : s[Len(a) + i] = b[i]
  <2>1. \A i \in 1..k : g + i \in 1..(g + k) /\ ~(g + i <= g)
    OBVIOUS
  <2>2. \A i \in 1..k : s[g + i] = b[i]
    BY <1>4, <1>6, <2>1
  <2> QED
    BY <1>5, <1>6, <2>2
<1>9. Total(a) = 0 /\ Total(b) \in Nat
  BY <1>5, <1>6, TotalOfZeros, TotalType
<1>10. Total(s) = Total(a) + Total(b)
  BY <1>4, <1>5, <1>6, <1>7, <1>8, TotalSplit
<1>11. Total(s) = after.retained
  BY <1>2, <1>6, <1>9, <1>10
<1> QED
  BY <1>11 DEF s, after

-----------------------------------------------------------------------------
(***************************************************************************)
(* put(), get() and clear().                                               *)
(***************************************************************************)

\* An artifact is added when it fits.
NewArtifact(st, bytes) == [id |-> Len(st.issued) + 1, bytes |-> bytes,
                           expiresAt |-> now + TimeToLive]
Added(st, bytes) ==
    LET a == NewArtifact(st, bytes)
    IN  [st EXCEPT !.artifacts = Append(@, a), !.issued = Append(@, a),
                   !.retained = @ + bytes]

LEMMA AppendKeeps ==
  ASSUME NEW st, StoreInv(st), ClockOK, ~st.cleared,
         NEW bytes \in Nat \ {0}, Fits(bytes, st.retained)
  PROVE  LET new == Added(st, bytes)
         IN  StoreInv(new) /\ new.cleared = st.cleared
             /\ Len(new.issued) = Len(st.issued) + 1
<1> DEFINE q == st.artifacts
           all == st.issued
           a == NewArtifact(st, bytes)
           new == Added(st, bytes)
<1>1. /\ st \in Stores /\ q \in Seq(Artifact) /\ all \in Seq(Artifact)
      /\ Len(q) \in Nat /\ Len(all) \in Nat
  <2>1. st \in Stores /\ q \in Seq(Artifact) /\ all \in Seq(Artifact)
    BY DEF StoreInv, Stores
  <2> QED
    BY <2>1, LenProperties
<1>2. a \in Artifact /\ a.id = Len(all) + 1 /\ a.bytes = bytes
        /\ a.expiresAt = now + TimeToLive /\ now \in Nat /\ TimeToLive \in Nat
  BY <1>1, MaxTimeAssumption, LimitsAssumption DEF Artifact, ClockOK, NewArtifact
<1> HIDE DEF a
<1>3. /\ new.artifacts = Append(q, a) /\ new.issued = Append(all, a)
      /\ new.retained = st.retained + bytes
      /\ new.refused = st.refused /\ new.cleared = st.cleared
  <2>1. new = [st EXCEPT !.artifacts = Append(@, a), !.issued = Append(@, a),
                        !.retained = @ + bytes]
    BY DEF Added, a
  <2> QED
    BY <1>1, <2>1 DEF Stores
<1>4. /\ Append(q, a) \in Seq(Artifact) /\ Len(Append(q, a)) = Len(q) + 1
      /\ \A i \in 1..Len(q) : Append(q, a)[i] = q[i]
      /\ Append(q, a)[Len(q) + 1] = a
      /\ Append(all, a) \in Seq(Artifact) /\ Len(Append(all, a)) = Len(all) + 1
      /\ \A i \in 1..Len(all) : Append(all, a)[i] = all[i]
      /\ Append(all, a)[Len(all) + 1] = a
  BY <1>1, <1>2, AppendProperties
<1>5. /\ new.retained = Bytes(new.artifacts) /\ new.retained \in Nat
      /\ new.retained <= MaximumRetainedBytes
  BY <1>1, <1>2, <1>3, BytesAppend DEF StoreInv, Stores, Fits
<1>6. new \in Stores
  <2>1. new = [st EXCEPT !.artifacts = Append(@, a), !.issued = Append(@, a),
                        !.retained = @ + bytes]
    BY DEF Added, a
  <2> QED
    BY <1>1, <1>3, <1>4, <1>5, <2>1 DEF Stores
<1> HIDE DEF new
<1>7. PICK g \in Nat, k \in Nat : g = Gone(st) /\ k = Len(q) /\ Len(all) = g + k
  BY GoneOrStored
<1>8. /\ Len(new.issued) = g + k + 1 /\ Len(new.artifacts) = k + 1
      /\ \A i \in 1..(g + k) : new.issued[i] = all[i]
      /\ \A i \in 1..k : new.artifacts[i] = q[i]
      /\ new.issued[g + k + 1] = a /\ new.artifacts[k + 1] = a
      /\ \A i \in 1..(g + k) : all[i].id = i
      /\ \A i \in 1..k : q[i] = all[g + i]
      /\ a.id = g + k + 1
  BY <1>2, <1>3, <1>4, <1>7 DEF StoreInv, StoredLast
<1>9. \A i \in 1..(g + k + 1) : i \in 1..(g + k) \/ i = g + k + 1
  OBVIOUS
<1>10. \A i \in 1..Len(new.issued) : new.issued[i].id = i
  BY <1>8, <1>9
<1>11. Gone(new) = g
  <2>1. (g + k + 1) - (k + 1) = g
    OBVIOUS
  <2> QED
    BY <1>8, <2>1 DEF Gone
<1>12. StoredLast(new)
  <2>1. ASSUME NEW i \in 1..(k + 1) PROVE new.artifacts[i] = new.issued[g + i]
    <3>1. CASE i \in 1..k
      <4>1. g + i \in 1..(g + k)
        BY <3>1
      <4> QED
        BY <1>8, <3>1, <4>1
    <3>2. CASE i = k + 1
      <4>1. g + i = g + k + 1
        BY <3>2
      <4> QED
        BY <1>8, <3>2, <4>1
    <3>3. i \in 1..k \/ i = k + 1
      OBVIOUS
    <3> QED
      BY <3>1, <3>2, <3>3
  <2> QED
    BY <1>8, <1>11, <2>1 DEF StoredLast
<1>13. InOrder(new)
  <2> SUFFICES ASSUME ~steppedBack PROVE InOrder(new)
    BY DEF InOrder
  <2>1. /\ \A i, j \in 1..(g + k) : i <= j => all[i].expiresAt <= all[j].expiresAt
        /\ \A i \in 1..(g + k) : all[i].expiresAt <= now + TimeToLive
        /\ \A i \in 1..g : Expired(all[i])
    BY <1>7 DEF StoreInv, InOrder
  <2>2. ASSUME NEW i \in 1..(g + k + 1)
        PROVE  new.issued[i].expiresAt <= now + TimeToLive
    <3>1. CASE i \in 1..(g + k)
      BY <1>8, <2>1, <3>1
    <3>2. CASE i = g + k + 1
      <4>1. new.issued[i].expiresAt = now + TimeToLive
        BY <1>2, <1>8, <3>2
      <4> QED
        BY <1>2, <4>1
    <3> QED
      BY <1>9, <3>1, <3>2
  <2>3. ASSUME NEW i \in 1..(g + k + 1), NEW j \in 1..(g + k + 1), i <= j
        PROVE  new.issued[i].expiresAt <= new.issued[j].expiresAt
    <3>1. CASE j = g + k + 1
      BY <1>2, <1>8, <2>2, <3>1
    <3>2. CASE j \in 1..(g + k)
      <4>1. i \in 1..(g + k)
        BY <2>3, <3>2
      <4> QED
        BY <1>8, <2>1, <2>3, <3>2, <4>1
    <3> QED
      BY <1>9, <3>1, <3>2
  <2>4. \A i \in 1..g : i \in 1..(g + k)
    OBVIOUS
  <2> QED
    BY <1>8, <1>11, <2>1, <2>2, <2>3, <2>4 DEF InOrder
<1>14. ASSUME NEW put, put.after \in Nat, Justified(st, put) PROVE Justified(new, put)
  <2>1. put.after <= g + k /\ put.after <= g + k + 1
    BY <1>7, <1>14 DEF Justified
  <2>2. \A i \in 1..put.after : new.issued[i] = all[i]
    BY <1>8, <1>14, <2>1
  <2>3. Readable(new, put.after) = Readable(st, put.after)
    <3>1. \A i \in 1..put.after :
            (IF Expired(new.issued[i]) THEN 0 ELSE new.issued[i].bytes)
            = IF Expired(st.issued[i]) THEN 0 ELSE st.issued[i].bytes
      <4>1. \A x, y : x = y => (IF Expired(x) THEN 0 ELSE x.bytes)
                               = IF Expired(y) THEN 0 ELSE y.bytes
        BY Zenon
      <4> HIDE DEF all
      <4>2. \A i \in 1..put.after : new.issued[i] = all[i]
        BY <2>2
      <4> QED
        BY <4>1, <4>2, Zenon DEF all
    <3> QED
      BY <3>1 DEF Readable
  <2> QED
    BY <1>8, <1>14, <2>1, <2>3 DEF Justified
<1>15. ASSUME NEW i \in 1..Len(st.refused) PROVE st.refused[i].after \in Nat
  <2>1. st.refused[i] \in Refusal
    BY <1>1, ElementOfSeq DEF Stores
  <2> QED
    BY <2>1 DEF Refusal
<1> QED
  BY <1>3, <1>4, <1>5, <1>6, <1>10, <1>12, <1>13, <1>14, <1>15 DEF StoreInv, new

\* Only the refusals of one command are kept: those of the last are forgotten.
LEMMA ForgetKeeps ==
  ASSUME NEW st, StoreInv(st)
  PROVE  LET new == [st EXCEPT !.refused = <<>>]
         IN  /\ StoreInv(new) /\ new.issued = st.issued
             /\ new.artifacts = st.artifacts /\ new.cleared = st.cleared
<1> DEFINE new == [st EXCEPT !.refused = <<>>]
<1>1. st \in Stores
  BY DEF StoreInv
<1>2. /\ new.artifacts = st.artifacts /\ new.retained = st.retained
      /\ new.issued = st.issued /\ new.refused = <<>> /\ new.cleared = st.cleared
  BY <1>1 DEF Stores
<1>3. <<>> \in Seq(Refusal) /\ Len(<<>>) = 0
  OBVIOUS
<1>4. new \in Stores
  BY <1>1, <1>2, <1>3 DEF Stores
<1> HIDE DEF new
<1>5. StoredLast(new) /\ InOrder(new)
  <2>1. Gone(new) = Gone(st)
    BY <1>2 DEF Gone
  <2> QED
    BY <1>2, <2>1 DEF StoreInv, StoredLast, InOrder
<1>6. \A i \in 1..Len(new.refused) : Justified(new, new.refused[i])
  BY <1>2, <1>3
<1>7. StoreInv(new)
  BY <1>2, <1>4, <1>5, <1>6 DEF StoreInv
<1> QED
  BY <1>2, <1>7 DEF new

\* A text that does not fit beside what a purge leaves is refused.
LEMMA RefuseKeeps ==
  ASSUME NEW st, StoreInv(st), ClockOK, NEW put \in Refusal, Justified(st, put),
         NEW new, new = [st EXCEPT !.refused = Append(@, put)]
  PROVE  StoreInv(new) /\ new.issued = st.issued /\ new.cleared = st.cleared
<1>1. st \in Stores /\ st.refused \in Seq(Refusal)
  BY DEF StoreInv, Stores
<1>2. /\ new.artifacts = st.artifacts /\ new.retained = st.retained
      /\ new.issued = st.issued /\ new.refused = Append(st.refused, put)
      /\ new.cleared = st.cleared
  BY <1>1 DEF Stores
<1>3. PICK r \in Nat : r = Len(st.refused)
  BY <1>1, LenProperties
<1>4. /\ new.refused \in Seq(Refusal) /\ Len(new.refused) = r + 1
      /\ \A i \in 1..r : new.refused[i] = st.refused[i]
      /\ new.refused[r + 1] = put
  BY <1>1, <1>2, <1>3, AppendProperties
<1>5. new \in Stores
  BY <1>1, <1>2, <1>4 DEF Stores
<1>6. StoredLast(new) /\ InOrder(new)
  <2>1. Gone(new) = Gone(st)
    BY <1>2 DEF Gone
  <2> QED
    BY <1>2, <2>1 DEF StoreInv, StoredLast, InOrder
<1>7. \A p : Justified(new, p) <=> Justified(st, p)
  BY <1>2 DEF Justified, Readable
<1>8. ASSUME NEW i \in 1..(r + 1) PROVE Justified(new, new.refused[i])
  <2>1. i \in 1..r \/ i = r + 1
    OBVIOUS
  <2>2. CASE i \in 1..r
    BY <1>3, <1>4, <1>7, <2>2 DEF StoreInv
  <2>3. CASE i = r + 1
    BY <1>4, <1>7, <2>3
  <2> QED
    BY <2>1, <2>2, <2>3
<1> QED
  BY <1>2, <1>4, <1>5, <1>6, <1>8 DEF StoreInv

\* put() keeps the invariant: whether the text is empty, fits or does not.
LEMMA AfterPutKeeps ==
  ASSUME NEW st, StoreInv(st), ClockOK, ~st.cleared, NEW bytes \in Nat
  PROVE  LET after == AfterPut(st, bytes)
         IN  StoreInv(after) /\ ~after.cleared /\ Len(st.issued) <= Len(after.issued)
<1> DEFINE purged == AfterPurge(st)
           put == [bytes |-> bytes, after |-> Len(st.issued)]
           added == Added(purged, bytes)
           refused == [purged EXCEPT !.refused = Append(@, put)]
<1>1. /\ StoreInv(purged) /\ purged.issued = st.issued /\ ~purged.cleared
      /\ Len(st.issued) \in Nat
  <2>1. st.issued \in Seq(Artifact)
    BY DEF StoreInv, Stores
  <2> QED
    BY <2>1, PurgeKeeps, LenProperties
<1>2. AfterPut(st, bytes) = IF bytes = 0 THEN purged
                            ELSE IF Fits(bytes, purged.retained) THEN added ELSE refused
  BY <1>1 DEF AfterPut, Added, NewArtifact
<1> HIDE DEF purged
<1>3. CASE bytes = 0
  BY <1>1, <1>2, <1>3
<1>4. CASE bytes # 0 /\ Fits(bytes, purged.retained)
  <2>1. AfterPut(st, bytes) = added /\ bytes \in Nat \ {0}
    BY <1>2, <1>4
  <2>2. StoreInv(added) /\ added.cleared = purged.cleared
          /\ Len(added.issued) = Len(purged.issued) + 1
    BY <1>1, <1>4, <2>1, AppendKeeps
  <2> HIDE DEF added
  <2> QED
    BY <1>1, <2>1, <2>2
<1>5. CASE bytes # 0 /\ ~Fits(bytes, purged.retained)
  <2>1. AfterPut(st, bytes) = refused
    BY <1>2, <1>5
  <2>2. put \in Refusal /\ put.bytes = bytes /\ put.after = Len(st.issued)
    BY <1>1 DEF Refusal
  <2> HIDE DEF put
  <2>3. Justified(purged, put)
    <3>1. ~steppedBack =>
            Total(Readable(purged, Len(purged.issued))) = purged.retained
      BY ReadableIsRetained DEF purged
    <3>2. purged.retained + bytes > MaximumRetainedBytes
      <4>1. purged.retained \in Nat /\ MaximumRetainedBytes \in Nat
        BY <1>1, LimitsAssumption DEF StoreInv, Stores
      <4> QED
        BY <1>5, <4>1 DEF Fits
    <3>3. put.after <= Len(purged.issued)
      BY <1>1, <2>2
    <3> QED
      BY <1>1, <2>2, <3>1, <3>2, <3>3 DEF Justified
  <2>4. StoreInv(refused) /\ refused.issued = purged.issued
          /\ refused.cleared = purged.cleared
    <3> DEFINE new == refused
    <3>1. new = [purged EXCEPT !.refused = Append(@, put)]
      OBVIOUS
    <3> HIDE DEF new
    <3>2. StoreInv(new) /\ new.issued = purged.issued /\ new.cleared = purged.cleared
      BY <1>1, <2>2, <2>3, <3>1, RefuseKeeps
    <3> QED
      BY <3>2 DEF new
  <2> HIDE DEF refused
  <2> QED
    BY <1>1, <2>1, <2>4
<1> QED
  BY <1>3, <1>4, <1>5

\* What is true of the store and the clock, and of the store once it is cleared.
StoreOK == /\ ClockOK /\ StoreInv(store)
           /\ store.cleared => store.artifacts = <<>>

LEMMA InitStoreOK == StoreInit => StoreOK
<1> SUFFICES ASSUME StoreInit PROVE StoreOK
  OBVIOUS
<1>1. /\ store.artifacts = <<>> /\ store.retained = 0 /\ store.issued = <<>>
      /\ store.refused = <<>> /\ store.cleared = FALSE /\ store \in Stores
  BY DEF StoreInit, EmptyStore, Stores
<1>2. ClockOK
  <2>1. now \in 0..MaxTime
    BY MaxTimeAssumption DEF StoreInit
  <2>2. steppedBack \in BOOLEAN
    BY Zenon DEF StoreInit
  <2> QED
    BY <2>1, <2>2 DEF ClockOK
<1>3. Len(<<>>) = 0 /\ 1..0 = {} /\ <<>> \in Seq(Artifact)
  OBVIOUS
<1>4. Gone(store) = 0
  BY <1>1, <1>3 DEF Gone
<1>5. StoredLast(store) /\ InOrder(store)
  BY <1>1, <1>3, <1>4 DEF StoredLast, InOrder
<1>6. Bytes(<<>>) = 0
  BY BytesOfNothing
<1>7. StoreInv(store)
  BY <1>1, <1>3, <1>5, <1>6, LimitsAssumption DEF StoreInv
<1> QED
  BY <1>1, <1>2, <1>7 DEF StoreOK

\* A command that finishes puts its output: no uri is taken back.
LEMMA PutAllKeeps ==
  ASSUME StoreOK, ~store.cleared, NEW streams \in Seq(Nat), PutAll(streams)
  PROVE  StoreOK' /\ ~store'.cleared /\ Len(store.issued) <= Len(store'.issued)
<1>1. ASSUME NEW st, StoreInv(st), ~st.cleared, NEW i \in {1, 2}
      PROVE  LET new == PutStream(st, streams, i)
             IN  StoreInv(new) /\ ~new.cleared /\ Len(st.issued) <= Len(new.issued)
                 /\ Len(st.issued) \in Nat
  <2>0. Len(st.issued) \in Nat
    <3>1. st.issued \in Seq(Artifact)
      BY <1>1 DEF StoreInv, Stores
    <3> QED
      BY <3>1, LenProperties
  <2>1. CASE i \in DOMAIN streams
    <3>1. streams[i] \in Nat
      BY <2>1, ElementOfSeq, LenProperties
    <3>2. PutStream(st, streams, i) = AfterPut(st, streams[i])
      BY <2>1 DEF PutStream
    <3> QED
      BY <1>1, <2>0, <3>1, <3>2, AfterPutKeeps DEF StoreOK
  <2>2. CASE i \notin DOMAIN streams
    <3>1. PutStream(st, streams, i) = st
      BY <2>2 DEF PutStream
    <3> QED
      BY <1>1, <2>0, <3>1
  <2> QED
    BY <2>1, <2>2
<1> DEFINE st0 == [store EXCEPT !.refused = <<>>]
           st1 == PutStream(st0, streams, 1)
           st2 == PutStream(st1, streams, 2)
<1>2. StoreInv(st0) /\ ~st0.cleared /\ st0.issued = store.issued
  BY ForgetKeeps DEF StoreOK
<1>3. store' = st2 /\ UNCHANGED <<now, steppedBack>>
  BY DEF PutAll
<1> HIDE DEF st0
<1>4. /\ StoreInv(st1) /\ ~st1.cleared /\ Len(st0.issued) <= Len(st1.issued)
      /\ Len(st0.issued) \in Nat
  BY <1>1, <1>2
<1> HIDE DEF st1
<1>5. /\ StoreInv(st2) /\ ~st2.cleared /\ Len(st1.issued) <= Len(st2.issued)
      /\ Len(st1.issued) \in Nat
  BY <1>1, <1>4
<1> HIDE DEF st2
<1>6. Len(st2.issued) \in Nat
  <2>1. st2.issued \in Seq(Artifact)
    BY <1>5 DEF StoreInv, Stores
  <2> QED
    BY <2>1, LenProperties
<1>7. Len(store.issued) <= Len(store'.issued)
  BY <1>2, <1>3, <1>4, <1>5, <1>6
<1>8. StoreInv(store)'
  BY <1>3, <1>5 DEF StoreInv, Stores, StoredLast, InOrder, Justified, Readable, Expired
<1> QED
  BY <1>3, <1>5, <1>7, <1>8 DEF StoreOK, ClockOK

\* So does a Resource read, at any time.
LEMMA GetKeeps ==
  ASSUME StoreOK, Get
  PROVE  StoreOK' /\ store'.cleared = store.cleared /\ store'.issued = store.issued
<1> DEFINE purged == AfterPurge(store)
           new == [purged EXCEPT !.refused = <<>>]
<1>1. store' = new /\ UNCHANGED <<now, steppedBack>>
  BY DEF Get
<1>2. /\ StoreInv(purged) /\ purged.issued = store.issued
      /\ purged.cleared = store.cleared
  BY PurgeKeeps DEF StoreOK
<1>3. store.cleared => purged.artifacts = <<>>
  <2>1. "artifacts" \in DOMAIN store
    BY DEF StoreOK, StoreInv, Stores
  <2> QED
    BY <2>1, PurgeEmpty DEF StoreOK
<1> HIDE DEF purged
<1>4. /\ StoreInv(new) /\ new.issued = purged.issued
      /\ new.artifacts = purged.artifacts /\ new.cleared = purged.cleared
  BY <1>2, ForgetKeeps
<1> HIDE DEF new
<1>5. StoreInv(store)'
  BY <1>1, <1>4 DEF StoreInv, Stores, StoredLast, InOrder, Justified, Readable, Expired
<1> QED
  BY <1>1, <1>2, <1>3, <1>4, <1>5 DEF StoreOK, ClockOK

\* clear() forgets what is stored.
LEMMA ClearKeeps ==
  ASSUME StoreOK, ClearStore
  PROVE  StoreOK' /\ store'.cleared /\ store'.issued = store.issued
<1>1. /\ store'.artifacts = <<>> /\ store'.retained = 0 /\ store'.refused = <<>>
      /\ store'.issued = store.issued /\ store'.cleared
      /\ UNCHANGED <<now, steppedBack>>
  BY DEF ClearStore, EmptyStore
<1>2. store.issued \in Seq(Artifact)
  BY DEF StoreOK, StoreInv, Stores
<1>3. store' \in Stores
  <2>1. <<>> \in Seq(Artifact) /\ <<>> \in Seq(Refusal) /\ 0 \in Nat
    OBVIOUS
  <2>2. store' = [artifacts |-> <<>>, retained |-> 0, issued |-> store.issued,
                  refused |-> <<>>, cleared |-> TRUE]
    BY DEF ClearStore, EmptyStore
  <2> QED
    BY <1>2, <2>1, <2>2 DEF Stores
<1>4. Len(<<>>) = 0 /\ 1..0 = {} /\ Bytes(<<>>) = 0
  BY BytesOfNothing
<1>5. Len(store.issued) \in Nat
  BY <1>2, LenProperties
<1>6. StoredLast(store)'
  <2>1. Gone(store)' = Len(store.issued)
    BY <1>1, <1>4, <1>5 DEF Gone
  <2> QED
    BY <1>1, <1>4, <1>5, <2>1 DEF StoredLast
<1>7. InOrder(store)'
  BY <1>1 DEF StoreOK, StoreInv, InOrder
<1>8. StoreInv(store)'
  BY <1>1, <1>3, <1>4, <1>6, <1>7, LimitsAssumption DEF StoreOK, StoreInv
<1> QED
  BY <1>1, <1>8 DEF StoreOK, ClockOK

\* Time passes, or is set back.
LEMMA ClockKeeps ==
  ASSUME StoreOK, ClockSet
  PROVE  StoreOK' /\ store'.cleared = store.cleared /\ store'.issued = store.issued
<1> DEFINE new == [store EXCEPT !.refused = <<>>]
<1>1. store' = new
  BY DEF ClockSet
<1>2. /\ StoreInv(new) /\ new.issued = store.issued /\ new.refused = <<>>
      /\ new.artifacts = store.artifacts /\ new.cleared = store.cleared
  <2>1. "refused" \in DOMAIN store
    BY DEF StoreOK, StoreInv, Stores
  <2> QED
    BY <2>1, ForgetKeeps DEF StoreOK
<1> HIDE DEF new
<1>3. \/ now < MaxTime /\ now' = now + 1 /\ steppedBack' = steppedBack
      \/ now' \in 0..(now - 1) /\ steppedBack' = TRUE
  BY DEF ClockSet
<1>4. now \in Nat /\ now <= MaxTime /\ steppedBack \in BOOLEAN /\ MaxTime \in Nat
  BY MaxTimeAssumption DEF StoreOK, ClockOK
<1>5. now' \in 0..MaxTime
  BY <1>3, <1>4
<1>6. steppedBack' \in BOOLEAN
  <2>1. steppedBack' = steppedBack \/ steppedBack' = TRUE
    BY <1>3
  <2> QED
    BY <1>4, <2>1, Zenon
<1>7. \A i \in 1..Len(new.issued) : new.issued[i].expiresAt \in Nat
  <2>1. new.issued \in Seq(Artifact)
    BY <1>2 DEF StoreInv, Stores
  <2>2. \A i \in 1..Len(new.issued) : new.issued[i] \in Artifact
    BY <2>1, ElementOfSeq
  <2> QED
    BY <2>2 DEF Artifact
<1>8. InOrder(store)'
  <2> SUFFICES ASSUME ~steppedBack' PROVE InOrder(store)'
    BY DEF InOrder
  <2>1. now' = now + 1 /\ ~steppedBack
    BY <1>3
  <2>2. /\ \A i, j \in 1..Len(new.issued) :
             i <= j => new.issued[i].expiresAt <= new.issued[j].expiresAt
        /\ \A i \in 1..Len(new.issued) : new.issued[i].expiresAt <= now + TimeToLive
        /\ ~new.cleared => \A i \in 1..Gone(new) : new.issued[i].expiresAt <= now
    BY <1>2, <2>1 DEF StoreInv, InOrder, Expired
  <2>3. PICK l \in Nat, g \in Nat : l = Len(new.issued) /\ g = Gone(new) /\ g <= l
    <3>1. PICK g \in Nat, k \in Nat : g = Gone(new) /\ Len(new.issued) = g + k
      BY <1>2, GoneOrStored
    <3>2. g + k \in Nat /\ g <= g + k
      OBVIOUS
    <3> QED
      BY <3>1, <3>2
  <2>4. \A i \in 1..l : new.issued[i].expiresAt <= now' + TimeToLive
    <3>1. TimeToLive \in Nat
      BY LimitsAssumption
    <3>2. ASSUME NEW i \in 1..l PROVE new.issued[i].expiresAt <= now' + TimeToLive
      <4>1. PICK e \in Nat : e = new.issued[i].expiresAt
        BY <1>7, <2>3
      <4>2. e <= now + TimeToLive
        BY <2>2, <2>3, <4>1
      <4>3. e <= now' + TimeToLive
        BY <1>4, <2>1, <3>1, <4>2
      <4> QED
        BY <4>1, <4>3
    <3> QED
      BY <3>2
  <2>5. ASSUME ~new.cleared, NEW i \in 1..g PROVE new.issued[i].expiresAt <= now'
    <3>1. PICK e \in Nat : e = new.issued[i].expiresAt
      <4>1. i \in 1..l
        BY <2>3
      <4> QED
        BY <1>7, <2>3, <4>1
    <3>2. e <= now
      BY <2>2, <2>3, <2>5, <3>1
    <3>3. e <= now'
      BY <1>4, <2>1, <3>2
    <3> QED
      BY <3>1, <3>3
  <2> QED
    BY <1>1, <2>2, <2>3, <2>4, <2>5 DEF InOrder, Expired, Gone
<1>9. StoreInv(store)'
  <2>1. Len(<<>>) = 0 /\ 1..0 = {}
    OBVIOUS
  <2> QED
    BY <1>1, <1>2, <1>8, <2>1 DEF StoreInv, Stores, StoredLast, Gone
<1> QED
  BY <1>1, <1>2, <1>5, <1>6, <1>9 DEF StoreOK, ClockOK

-----------------------------------------------------------------------------
(***************************************************************************)
(* What the invariant promises.                                            *)
(***************************************************************************)

\* The types and the exact account.
LEMMA StoreIsTyped == StoreOK => StoreTypeOK /\ RetainedIsExact
<1> SUFFICES ASSUME StoreOK PROVE StoreTypeOK /\ RetainedIsExact
  OBVIOUS
<1>1. /\ store \in Stores /\ store.artifacts \in Seq(Artifact)
      /\ store.issued \in Seq(Artifact)
  BY DEF StoreOK, StoreInv, Stores
<1>2. store.retained \in 0..MaximumRetainedBytes
  BY <1>1, LimitsAssumption DEF StoreOK, StoreInv, Stores
<1>3. ASSUME NEW i \in DOMAIN store.artifacts
      PROVE  store.artifacts[i] \in ToSet(store.issued)
  <2>1. PICK g \in Nat, k \in Nat : /\ g = Gone(store) /\ k = Len(store.artifacts)
                                    /\ Len(store.issued) = g + k
    BY GoneOrStored DEF StoreOK
  <2>2. i \in 1..k /\ DOMAIN store.issued = 1..(g + k)
    BY <1>1, <2>1, LenProperties
  <2>3. g + i \in DOMAIN store.issued
    BY <2>2
  <2>4. store.artifacts[i] = store.issued[g + i]
    BY <2>1, <2>2 DEF StoreOK, StoreInv, StoredLast
  <2> QED
    BY <2>3, <2>4 DEF ToSet
<1>4. store.cleared \in BOOLEAN
  BY <1>1, Zenon DEF Stores
<1>5. now \in 0..MaxTime /\ steppedBack \in BOOLEAN
  BY DEF StoreOK, ClockOK
<1> QED
  BY <1>2, <1>3, <1>4, <1>5 DEF StoreTypeOK, RetainedIsExact, StoreOK, StoreInv

\* get() finds an artifact until it expires, and not from then on.
LEMMA FoundUntilExpiry == StoreOK => ReadableUntilExpiry
<1> SUFFICES ASSUME StoreOK, ~steppedBack, NEW id \in DOMAIN store.issued
             PROVE  Found(id) = (~store.cleared /\ ~Expired(store.issued[id]))
  BY DEF ReadableUntilExpiry
<1> DEFINE after == AfterPurge(store)
<1>1. /\ StoreInv(after) /\ after.issued = store.issued
      /\ ~store.cleared => \A i \in 1..Len(store.issued) :
                              Expired(store.issued[i]) <=> i <= Gone(after)
  BY PurgeKeeps DEF StoreOK
<1>2. store.cleared => after.artifacts = <<>>
  <2>1. "artifacts" \in DOMAIN store
    BY DEF StoreOK, StoreInv, Stores
  <2> QED
    BY <2>1, PurgeEmpty DEF StoreOK
<1>3. Found(id) <=> \E i \in DOMAIN after.artifacts : after.artifacts[i].id = id
  BY DEF Found
<1> HIDE DEF after
<1>4. /\ after.artifacts \in Seq(Artifact) /\ after.issued \in Seq(Artifact)
      /\ Len(after.artifacts) \in Nat /\ Len(after.issued) \in Nat
  <2>1. after.artifacts \in Seq(Artifact) /\ after.issued \in Seq(Artifact)
    BY <1>1 DEF StoreInv, Stores
  <2> QED
    BY <2>1, LenProperties
<1>5. PICK g \in Nat, k \in Nat : /\ g = Gone(after) /\ k = Len(after.artifacts)
                                  /\ Len(after.issued) = g + k
  BY <1>1, GoneOrStored
<1>6. /\ DOMAIN after.artifacts = 1..k /\ id \in 1..(g + k)
      /\ \A i \in 1..(g + k) : after.issued[i].id = i
      /\ \A i \in 1..k : after.artifacts[i] = after.issued[g + i]
  BY <1>1, <1>4, <1>5, LenProperties DEF StoreInv, StoredLast
<1>7. \A i \in 1..k : after.artifacts[i].id = g + i
  <2>1. \A i \in 1..k : g + i \in 1..(g + k)
    OBVIOUS
  <2> QED
    BY <1>6, <2>1
<1>8. Found(id) <=> g < id
  <2>1. ASSUME Found(id) PROVE g < id
    <3>1. PICK i \in 1..k : after.artifacts[i].id = id
      BY <1>3, <1>6, <2>1
    <3>2. id = g + i
      BY <1>7, <3>1
    <3> QED
      BY <3>2
  <2>2. ASSUME g < id PROVE Found(id)
    <3>1. PICK i \in 1..k : id = g + i
      <4>1. id - g \in 1..k /\ id = g + (id - g)
        BY <1>6, <2>2
      <4> QED
        BY <4>1
    <3> QED
      BY <1>3, <1>6, <1>7, <3>1
  <2> QED
    BY <2>1, <2>2
<1>9. CASE store.cleared
  <2>1. DOMAIN after.artifacts = {}
    BY <1>2, <1>9
  <2>2. ~Found(id)
    BY <1>3, <2>1
  <2> QED
    BY <1>3, <1>9, <2>2, Zenon DEF Found
<1>10. CASE ~store.cleared
  <2>1. Expired(store.issued[id]) <=> id <= g
    BY <1>1, <1>5, <1>6, <1>10
  <2>2. Found(id) <=> ~Expired(store.issued[id])
    BY <1>6, <1>8, <2>1
  <2> QED
    BY <1>10, <2>2, Zenon DEF Found
<1> QED
  BY <1>9, <1>10

\* A put is refused only when it does not fit beside what is still readable.
LEMMA RefusedWhenFull == StoreOK => RefusedOnlyWhenFull
<1> SUFFICES ASSUME StoreOK, ~steppedBack, NEW i \in DOMAIN store.refused
             PROVE  LET put      == store.refused[i]
                        readable == [n \in 1..put.after |->
                                       IF Expired(store.issued[n]) THEN 0
                                       ELSE store.issued[n].bytes]
                    IN  Total(readable) + put.bytes > MaximumRetainedBytes
  BY DEF RefusedOnlyWhenFull
<1>1. i \in 1..Len(store.refused)
  <2>1. store.refused \in Seq(Refusal)
    BY DEF StoreOK, StoreInv, Stores
  <2> QED
    BY <2>1, LenProperties
<1>2. Justified(store, store.refused[i])
  BY <1>1 DEF StoreOK, StoreInv
<1> QED
  BY <1>2 DEF Justified, Readable

-----------------------------------------------------------------------------
(***************************************************************************)
(* The server.                                                             *)
(***************************************************************************)
\* What the calls' variables are.  (Of the store only its end is needed.)
CallsTyped ==
    /\ phase \in [Calls -> Phases]
    /\ running \in [Calls -> Nat] /\ ran \in [Calls -> Nat]
    /\ DOMAIN answer = Calls /\ DOMAIN given = Calls /\ DOMAIN tool = Calls

\* A call has its answer from the moment its handler returns; before it arrives
\* nothing of it runs, and only while its handler runs does anything start.
Progress(c) ==
    /\ phase[c] \in {"idle", "running"} => answer[c].code = "none"
    /\ phase[c] = "idle" => ran[c] = 0 /\ running[c] = 0

\* What is promised of an answer.
Promise(c) ==
    /\ answer[c].code \in {"refused", "invalid_input"} => ran[c] = 0
    /\ answer[c].code \in {"refused", "invalid_input", "value"} => running[c] = 0
    /\ answer[c].code = "value" /\ tool[c] # "exec_program" => answer[c].uris = given[c]

Ended == server \in {"cleared", "closed"}

\* A cleared store holds nothing.
EmptyForever ==
    Ended => /\ \A c \in Calls : running[c] = 0
             /\ "artifacts" \in DOMAIN store /\ store.artifacts = <<>>

IInv == CallsTyped /\ (\A c \in Calls : Progress(c) /\ Promise(c)) /\ EmptyForever

-----------------------------------------------------------------------------
\* The first state: no call has arrived.
LEMMA InitIInv == Init => IInv
BY DEF Init, IInv, CallsTyped, Progress, Promise, EmptyForever, Ended, NoAnswer, Phases

\* Every step preserves the invariant: one step of the proof per action.
LEMMA NextIInv == IInv /\ [Next]_vars => IInv'
<1> SUFFICES ASSUME IInv, [Next]_vars PROVE IInv'
  OBVIOUS
<1> USE DEF IInv, CallsTyped, Progress, Promise, Phases
<1>1. ASSUME NEW c \in Calls, Receive(c) PROVE IInv'
  <2>1. PICK t : /\ phase[c] = "idle" /\ tool' = [tool EXCEPT ![c] = t]
                 /\ \/ Return(c, "refused", {})
                    \/ Return(c, ErrorCode("batch_input"), {})
                    \/ phase' = [phase EXCEPT ![c] = "running"] /\ UNCHANGED answer
    BY <1>1 DEF Receive
  <2>2. UNCHANGED <<store, running, ran, given, server>>
    BY <1>1 DEF Receive, storeVars
  <2>3. ErrorCode("batch_input") = "invalid_input"
    BY DEF ErrorCode
  <2>4. CallsTyped'
    BY <2>1, <2>2 DEF Return
  <2>5. ASSUME NEW d \in Calls PROVE (Progress(d) /\ Promise(d))'
    <3>1. CASE d = c
      <4>1. CASE \E code \in {"refused", "invalid_input"} : Return(c, code, {})
        BY <2>1, <2>2, <3>1, <4>1 DEF Return
      <4>2. CASE phase' = [phase EXCEPT ![c] = "running"] /\ UNCHANGED answer
        BY <2>1, <2>2, <3>1, <4>2
      <4> QED BY <2>1, <2>3, <4>1, <4>2
    <3>2. CASE d # c
      BY <2>1, <2>2, <3>2 DEF Return
    <3> QED BY <3>1, <3>2
  <2>6. EmptyForever'
    BY <2>2 DEF EmptyForever, Ended
  <2> QED BY <2>4, <2>5, <2>6
<1>2. ASSUME NEW c \in Calls, Start(c) PROVE IInv'
  <2>1. /\ phase[c] = "running" /\ server = "up"
        /\ running' = [running EXCEPT ![c] = @ + 1] /\ ran' = [ran EXCEPT ![c] = @ + 1]
        /\ UNCHANGED <<phase, tool, given, answer, server>>
    BY <1>2 DEF Start, MayStart
  <2>2. EmptyForever'
    BY <2>1 DEF EmptyForever, Ended
  <2>3. (CallsTyped /\ \A d \in Calls : Progress(d) /\ Promise(d))'
    BY <2>1
  <2> QED BY <2>2, <2>3
<1>3. ASSUME NEW c \in Calls, Finish(c) PROVE IInv'
  <2>1. ~Ended /\ UNCHANGED server
    BY <1>3 DEF Finish, EmptyForever
  <2>2. EmptyForever'
    BY <2>1 DEF EmptyForever, Ended
  <2>3. (CallsTyped /\ \A d \in Calls : Progress(d) /\ Promise(d))'
    BY <1>3 DEF Finish
  <2> QED BY <2>2, <2>3
<1>4. ASSUME NEW c \in Calls, ReturnValue(c) PROVE IInv'
  <2>1. phase[c] = "running" /\ running[c] = 0
    BY <1>4 DEF ReturnValue, HasResult
  <2>2. UNCHANGED <<store, tool, running, ran, given, server>>
    BY <1>4 DEF ReturnValue, storeVars
  <2>3. PICK code, uris : /\ Return(c, code, uris)
                          /\ \/ code = "value" /\ uris = NamedUris(c)
                             \/ code = "internal_error"
    BY <1>4 DEF ReturnValue, SerializeResult, ErrorCode
  <2>4. CallsTyped'
    BY <2>2, <2>3 DEF Return
  <2>5. ASSUME NEW d \in Calls PROVE (Progress(d) /\ Promise(d))'
    <3>1. CASE d = c
      BY <2>1, <2>2, <2>3, <3>1 DEF Return, NamedUris
    <3>2. CASE d # c
      BY <2>2, <2>3, <3>2 DEF Return
    <3> QED BY <3>1, <3>2
  <2>6. EmptyForever'
    BY <2>2 DEF EmptyForever, Ended
  <2> QED BY <2>4, <2>5, <2>6
<1>5. ASSUME NEW c \in Calls, ReturnProgramError(c) PROVE IInv'
  BY <1>5 DEF ReturnProgramError, Return, ErrorCode, EmptyForever, Ended, storeVars
<1>6. ASSUME NEW c \in Calls, Send(c) PROVE IInv'
  BY <1>6 DEF Send, EmptyForever, Ended, storeVars
<1>7. ASSUME NEW c \in Calls, Cancel(c) PROVE IInv'
  BY <1>7 DEF Cancel, callVars, EmptyForever, Ended, storeVars
<1>8. CASE Shutdown
  BY <1>8 DEF Shutdown, callVars, EmptyForever, Ended, storeVars
<1>9. CASE Clear
  BY <1>9 DEF Clear, AllSettled, ClearStore, EmptyStore, callVars, EmptyForever, Ended
<1>10. CASE Close
  BY <1>10 DEF Close, EmptyForever, Ended, storeVars
<1>11. CASE ReadResource
  <2>1. CASE ~Ended
    BY <1>11, <2>1 DEF ReadResource, callVars, EmptyForever, Ended
  <2>2. CASE Ended
    <3>1. "artifacts" \in DOMAIN store' /\ store'.artifacts = <<>>
      BY <1>11, <2>2, PurgeEmpty DEF ReadResource, Get, EmptyForever
    <3> QED BY <1>11, <2>2, <3>1 DEF ReadResource, callVars, EmptyForever
  <2> QED BY <2>1, <2>2
<1>12. CASE Clock
  <2>1. ~Ended
    BY <1>12 DEF Clock, ClockSet, EmptyForever
  <2> QED BY <1>12, <2>1 DEF Clock, callVars, EmptyForever, Ended
<1>13. CASE UNCHANGED vars
  BY <1>13 DEF vars, callVars, storeVars, EmptyForever, Ended
<1> QED
  BY <1>1, <1>2, <1>3, <1>4, <1>5, <1>6, <1>7, <1>8, <1>9, <1>10, <1>11, <1>12, <1>13
  DEF Next

\* The inductive invariant of server and store holds for any set of calls.
THEOREM InvariantHolds == Spec => []IInv
<1> QED BY InitIInv, NextIInv, PTL DEF Spec

-----------------------------------------------------------------------------
\* A call that is refused or invalid has started no command, and results are
\* returned only after the last command of the call and name every artifact that
\* its commands left.
THEOREM AnswersTellTheTruth == Spec => []AnswersAreTrue
<1>1. IInv => AnswersAreTrue
  BY DEF IInv, Promise, AnswersAreTrue
<1> QED BY <1>1, InvariantHolds, PTL

\* After shutdown() has cleared the store no command runs, and the store stays
\* empty, however late a handler hands a command to the runner.
THEOREM ClearedStoreStaysEmpty == Spec => []NothingStoredAfterClear
<1>1. IInv => NothingStoredAfterClear
  BY DEF IInv, EmptyForever, Ended, NothingStoredAfterClear
<1> QED BY <1>1, InvariantHolds, PTL
-----------------------------------------------------------------------------
(***************************************************************************)
(* The store behind the handlers.  The sections above say what its         *)
(* operations keep; here, that the server calls put() only before clear(). *)
(***************************************************************************)
HandlersTyped ==
    /\ tool \in [Calls -> Tools \cup {"none"}]
    /\ given \in [Calls -> SUBSET (1..Len(store.issued))]
    /\ \A c \in Calls : /\ running[c] <= ran[c]
                        /\ answer[c].code \in Codes /\ answer[c].uris \subseteq given[c]
    /\ cancelled \subseteq Calls /\ server \in Stages

StoreBehindHandlers == StoreOK /\ (store.cleared => Ended) /\ HandlersTyped

LEMMA InitStoreBehindHandlers == Init => StoreBehindHandlers
<1> SUFFICES ASSUME Init PROVE StoreBehindHandlers
  OBVIOUS
<1>1. StoreOK
  BY InitStoreOK DEF Init
<1>2. ~store.cleared /\ store.issued = <<>>
  BY DEF Init, StoreInit, EmptyStore
<1>3. HandlersTyped
  <2>1. given = [c \in Calls |-> {}]
    BY DEF Init
  <2>2. given \in [Calls -> SUBSET (1..Len(store.issued))]
    BY <2>1
  <2> QED
    BY <2>2 DEF Init, HandlersTyped, Tools, NoAnswer, Codes, Stages
<1> QED
  BY <1>1, <1>2, <1>3 DEF StoreBehindHandlers

\* A step that leaves the store alone: the handlers keep to their types.
LEMMA UnchangedStoreKeeps ==
  ASSUME StoreBehindHandlers, UNCHANGED storeVars, (Ended => Ended'), HandlersTyped'
  PROVE  StoreBehindHandlers'
<1>1. StoreOK'
  BY DEF StoreBehindHandlers, storeVars, StoreOK, ClockOK, StoreInv, Stores, StoredLast,
         InOrder, Justified, Readable, Expired
<1> QED
  BY <1>1 DEF StoreBehindHandlers, storeVars

LEMMA NextStoreBehindHandlers ==
  IInv /\ StoreBehindHandlers /\ [Next]_vars => StoreBehindHandlers'
<1> SUFFICES ASSUME IInv, StoreBehindHandlers, [Next]_vars PROVE StoreBehindHandlers'
  OBVIOUS
<1> USE DEF HandlersTyped
<1>0. /\ HandlersTyped /\ DOMAIN answer = Calls /\ DOMAIN given = Calls
      /\ running \in [Calls -> Nat] /\ ran \in [Calls -> Nat]
  BY DEF IInv, CallsTyped, StoreBehindHandlers
<1>1. ASSUME NEW c \in Calls, Receive(c) PROVE StoreBehindHandlers'
  <2>1. UNCHANGED <<storeVars, running, ran, given, cancelled, server>>
    BY <1>1 DEF Receive
  <2>2. PICK t \in Tools :
          /\ tool' = [tool EXCEPT ![c] = t]
          /\ UNCHANGED answer \/ \E code \in Codes :
                                   answer' = [answer EXCEPT ![c] = [code |-> code, uris |-> {}]]
    BY <1>1 DEF Receive, Return, ErrorCode, Codes
  <2>3. ASSUME NEW d \in Calls
        PROVE  answer'[d].code \in Codes /\ answer'[d].uris \subseteq given[d]
    <3>1. CASE UNCHANGED answer
      BY <1>0, <3>1
    <3>2. CASE \E code \in Codes :
                 answer' = [answer EXCEPT ![c] = [code |-> code, uris |-> {}]]
      BY <1>0, <3>2
    <3> QED
      BY <2>2, <3>1, <3>2
  <2>4. tool' \in [Calls -> Tools \cup {"none"}]
    BY <1>0, <2>2
  <2>5. HandlersTyped'
    BY <1>0, <2>1, <2>3, <2>4 DEF storeVars
  <2> QED
    BY <2>1, <2>5, UnchangedStoreKeeps DEF Ended
<1>2. ASSUME NEW c \in Calls, Start(c) PROVE StoreBehindHandlers'
  <2>1. /\ running' = [running EXCEPT ![c] = @ + 1] /\ ran' = [ran EXCEPT ![c] = @ + 1]
        /\ UNCHANGED <<storeVars, tool, given, answer, cancelled, server>>
    BY <1>2 DEF Start
  <2>2. \A d \in Calls : running'[d] <= ran'[d]
    <3>1. ASSUME NEW d \in Calls PROVE running'[d] <= ran'[d]
      <4>1. running[d] \in Nat /\ ran[d] \in Nat /\ running[d] <= ran[d]
        BY <1>0
      <4>2. CASE d = c
        <5>1. running'[d] = running[d] + 1 /\ ran'[d] = ran[d] + 1
          BY <1>0, <2>1, <4>2
        <5> QED
          BY <4>1, <5>1
      <4>3. CASE d # c
        BY <1>0, <2>1, <4>1, <4>3
      <4> QED
        BY <4>2, <4>3
    <3> QED
      BY <3>1
  <2>3. HandlersTyped'
    BY <1>0, <2>1, <2>2 DEF storeVars
  <2> QED
    BY <2>1, <2>3, UnchangedStoreKeeps DEF Ended
<1>3. ASSUME NEW c \in Calls, Finish(c) PROVE StoreBehindHandlers'
  <2>1. ~Ended /\ UNCHANGED <<tool, ran, answer, cancelled, server>>
    BY <1>3 DEF Finish, IInv, EmptyForever
  <2>2. PICK streams \in Streams \cup {<<>>} : PutAll(streams)
    BY <1>3 DEF Finish
  <2>3. streams \in Seq(Nat)
    BY <2>2, StreamsAssumption
  <2>4. StoreOK' /\ ~store'.cleared /\ Len(store.issued) <= Len(store'.issued)
    BY <2>1, <2>2, <2>3, PutAllKeeps DEF StoreBehindHandlers
  <2>5. PICK n \in Nat, m \in Nat :
          n = Len(store.issued) /\ m = Len(store'.issued) /\ n <= m
    <3>1. store.issued \in Seq(Artifact) /\ store'.issued \in Seq(Artifact)
      BY <2>4 DEF StoreBehindHandlers, StoreOK, StoreInv, Stores
    <3> QED
      BY <2>4, <3>1, LenProperties
  <2>6. given' = [given EXCEPT ![c] = @ \cup (n + 1)..m]
    BY <1>3, <2>5 DEF Finish
  <2>7. given' \in [Calls -> SUBSET (1..m)] /\ \A d \in Calls : given[d] \subseteq given'[d]
    <3>1. given \in [Calls -> SUBSET (1..n)]
      BY <1>0, <2>5
    <3>2. (n + 1)..m \subseteq 1..m /\ 1..n \subseteq 1..m
      BY <2>5
    <3> QED
      BY <2>6, <3>1, <3>2
  <2>8. running' = [running EXCEPT ![c] = @ - 1]
    BY <1>3 DEF Finish
  <2>9. \A d \in Calls : running'[d] <= ran'[d]
    <3>1. ASSUME NEW d \in Calls PROVE running'[d] <= ran'[d]
      <4>1. running[d] \in Nat /\ ran[d] \in Nat /\ running[d] <= ran[d]
        BY <1>0
      <4>2. running'[d] = running[d] \/ running'[d] = running[d] - 1
        BY <1>0, <2>8
      <4> QED
        BY <2>1, <4>1, <4>2
    <3> QED
      BY <3>1
  <2>10. HandlersTyped'
    BY <1>0, <2>1, <2>5, <2>7, <2>9
  <2> QED
    BY <2>4, <2>10 DEF StoreBehindHandlers
<1>4. ASSUME NEW c \in Calls, ReturnValue(c) PROVE StoreBehindHandlers'
  <2>1. UNCHANGED <<storeVars, tool, running, ran, given, cancelled, server>>
    BY <1>4 DEF ReturnValue
  <2>2. PICK code \in Codes, uris \in SUBSET given[c] :
          answer' = [answer EXCEPT ![c] = [code |-> code, uris |-> uris]]
    BY <1>4 DEF ReturnValue, SerializeResult, NamedUris, Return, ErrorCode, Codes
  <2>3. HandlersTyped'
    BY <1>0, <2>1, <2>2 DEF storeVars
  <2> QED
    BY <2>1, <2>3, UnchangedStoreKeeps DEF Ended
<1>5. ASSUME NEW c \in Calls, ReturnProgramError(c) PROVE StoreBehindHandlers'
  <2>1. UNCHANGED <<storeVars, tool, running, ran, given, cancelled, server>>
    BY <1>5 DEF ReturnProgramError
  <2>2. answer' = [answer EXCEPT ![c] = [code |-> "program_error", uris |-> {}]]
    BY <1>5 DEF ReturnProgramError, Return, ErrorCode
  <2>3. HandlersTyped'
    BY <1>0, <2>1, <2>2 DEF storeVars, Codes
  <2> QED
    BY <2>1, <2>3, UnchangedStoreKeeps DEF Ended
<1>6. ASSUME NEW c \in Calls, Send(c) PROVE StoreBehindHandlers'
  <2>1. HandlersTyped'
    BY <1>0, <1>6 DEF Send, storeVars
  <2> QED
    BY <1>6, <2>1, UnchangedStoreKeeps DEF Send, Ended
<1>7. ASSUME NEW c \in Calls, Cancel(c) PROVE StoreBehindHandlers'
  <2>1. HandlersTyped'
    BY <1>0, <1>7 DEF Cancel, callVars, storeVars
  <2> QED
    BY <1>7, <2>1, UnchangedStoreKeeps DEF Cancel, Ended
<1>8. CASE Shutdown
  <2>1. HandlersTyped'
    BY <1>0, <1>8 DEF Shutdown, callVars, storeVars, Stages
  <2> QED
    BY <1>8, <2>1, UnchangedStoreKeeps DEF Shutdown, Ended
<1>9. CASE Clear
  <2>1. StoreOK' /\ store'.issued = store.issued
    BY <1>9, ClearKeeps DEF Clear, StoreBehindHandlers
  <2>2. HandlersTyped' /\ Ended'
    BY <1>0, <1>9, <2>1 DEF Clear, callVars, Stages, Ended
  <2> QED
    BY <2>1, <2>2 DEF StoreBehindHandlers
<1>10. CASE Close
  <2>1. HandlersTyped'
    BY <1>0, <1>10 DEF Close, storeVars, Stages
  <2> QED
    BY <1>10, <2>1, UnchangedStoreKeeps DEF Close, Ended
<1>11. CASE ReadResource
  <2>1. StoreOK' /\ store'.cleared = store.cleared /\ store'.issued = store.issued
    BY <1>11, GetKeeps DEF ReadResource, StoreBehindHandlers
  <2>2. HandlersTyped' /\ server' = server
    BY <1>0, <1>11, <2>1 DEF ReadResource, callVars
  <2> QED
    BY <2>1, <2>2 DEF StoreBehindHandlers, Ended
<1>12. CASE Clock
  <2>1. StoreOK' /\ store'.cleared = store.cleared /\ store'.issued = store.issued
    BY <1>12, ClockKeeps DEF Clock, StoreBehindHandlers
  <2>2. HandlersTyped' /\ server' = server
    BY <1>0, <1>12, <2>1 DEF Clock, callVars
  <2> QED
    BY <2>1, <2>2 DEF StoreBehindHandlers, Ended
<1>13. CASE UNCHANGED vars
  <2>1. HandlersTyped'
    BY <1>0, <1>13 DEF vars, callVars, storeVars
  <2> QED
    BY <1>13, <2>1, UnchangedStoreKeeps DEF vars, Ended
<1> QED
  BY <1>1, <1>2, <1>3, <1>4, <1>5, <1>6, <1>7, <1>8, <1>9, <1>10, <1>11, <1>12, <1>13
  DEF Next

LEMMA StoreBehindHandlersHolds == Spec => []StoreBehindHandlers
<1> QED
  BY InvariantHolds, InitStoreBehindHandlers, NextStoreBehindHandlers, PTL DEF Spec

\* The types, the exact account of the store (its size is the sum of what it
\* holds, never above the limit), and nothing in it once shutdown() cleared it.
THEOREM AccountIsExact == Spec => []Inv
<1>1. IInv /\ StoreBehindHandlers => Inv
  <2> SUFFICES ASSUME IInv, StoreBehindHandlers PROVE Inv
    OBVIOUS
  <2>1. StoreTypeOK /\ RetainedIsExact
    BY StoreIsTyped DEF StoreBehindHandlers
  <2>2. NothingStoredAfterClear
    BY DEF IInv, EmptyForever, Ended, NothingStoredAfterClear
  <2>3. DOMAIN store.issued = 1..Len(store.issued)
    <3>1. store.issued \in Seq(Artifact)
      BY DEF StoreBehindHandlers, StoreOK, StoreInv, Stores
    <3> QED
      BY <3>1, LenProperties
  <2>4. TypeOK
    BY <2>1, <2>3 DEF TypeOK, IInv, CallsTyped, StoreBehindHandlers, HandlersTyped
  <2> QED
    BY <2>1, <2>2, <2>4 DEF Inv
<1> QED
  BY <1>1, InvariantHolds, StoreBehindHandlersHolds, PTL

\* An artifact can be read until it expires and not from then on, whatever other
\* commands put, clients cancel and resources are read, unless the clock is set
\* back or the server shuts down.
THEOREM ArtifactsAreReadable == Spec => []ReadableUntilExpiry
<1>1. StoreBehindHandlers => ReadableUntilExpiry
  BY FoundUntilExpiry DEF StoreBehindHandlers
<1> QED
  BY <1>1, StoreBehindHandlersHolds, PTL

\* No output is refused while there is room for it beside what can be read.
THEOREM RefusalsAreJustified == Spec => []RefusedOnlyWhenFull
<1>1. StoreBehindHandlers => RefusedOnlyWhenFull
  BY RefusedWhenFull DEF StoreBehindHandlers
<1> QED
  BY <1>1, StoreBehindHandlersHolds, PTL
=============================================================================
