-------------------------- MODULE OutputBufferProofs --------------------------
(***************************************************************************)
(* Proofs about OutputBuffer, for any output of the process, any cuts of   *)
(* its stream into chunks and any limits.                                  *)
(*                                                                         *)
(* The lengths of the chunks are added up, the chunks are concatenated and *)
(* texts are measured by recursive functions, so the proofs need induction.*)
(***************************************************************************)
EXTENDS OutputBuffer, WellFoundedInduction, SequenceTheorems, TLAPS

-----------------------------------------------------------------------------
(***************************************************************************)
(* Induction over the natural numbers, stated for sets: for what a         *)
(* recursive function computes, and for the least number with a property.  *)
(***************************************************************************)

\* Every non-empty set of natural numbers has a least element.
LEMMA LeastNumber ==
  ASSUME NEW T \in SUBSET Nat, T # {}
  PROVE  \E n \in T : \A m \in T : n <= m
<1> DEFINE R == OpToRel(<, Nat)
<1>1. IsWellFoundedOn(R, Nat)
  BY NatLessThanWellFounded
<1>2. PICK n \in T : \A m \in T : ~(<<m, n>> \in R)
  <2> HIDE DEF R
  <2> QED
    BY <1>1, WFMin
<1>3. \A m \in T : <<m, n>> \in R <=> m < n
  BY DEF OpToRel
<1> HIDE DEF R
<1>4. \A m \in T : ~(m < n)
  BY <1>2, <1>3
<1>5. n \in Nat /\ \A m \in T : m \in Nat
  OBVIOUS
<1> QED
  BY <1>4, <1>5

\* Induction, for a set of numbers.
LEMMA Induction ==
  ASSUME NEW T, 0 \in T, \A n \in Nat : n \in T => n + 1 \in T
  PROVE  \A n \in Nat : n \in T
<1> DEFINE Missing == {n \in Nat : n \notin T}
<1>1. SUFFICES ASSUME Missing # {} PROVE FALSE
  OBVIOUS
<1>2. PICK n \in Missing : \A m \in Missing : n <= m
  BY <1>1, LeastNumber
<1>3. n \in Nat /\ n # 0 /\ n \notin T
  BY <1>2
<1>4. n - 1 \in Nat /\ ~(n <= n - 1) /\ (n - 1) + 1 = n
  BY <1>3
<1>5. n - 1 \in T
  BY <1>2, <1>4
<1> QED
  BY <1>3, <1>4, <1>5

\* Induction from all smaller numbers.
LEMMA StrongInduction ==
  ASSUME NEW T, \A n \in Nat : (\A m \in 0..(n - 1) : m \in T) => n \in T
  PROVE  \A n \in Nat : n \in T
<1> DEFINE Missing == {n \in Nat : n \notin T}
<1>1. SUFFICES ASSUME Missing # {} PROVE FALSE
  OBVIOUS
<1>2. PICK n \in Missing : \A m \in Missing : n <= m
  BY <1>1, LeastNumber
<1>3. \A m \in 0..(n - 1) : m \in Nat /\ ~(n <= m)
  BY <1>2
<1>4. \A m \in 0..(n - 1) : m \in T
  BY <1>2, <1>3
<1> QED
  BY <1>2, <1>4

-----------------------------------------------------------------------------
(***************************************************************************)
(* Pieces of sequences, empty ones included; the smaller of two numbers.   *)
(***************************************************************************)
LEMMA MinOfTwo ==
  ASSUME NEW a \in Int, NEW b \in Int
  PROVE  Min({a, b}) = IF a <= b THEN a ELSE b
BY DEF Min

LEMMA MaxOfTwo ==
  ASSUME NEW a \in Int, NEW b \in Int
  PROVE  Max({a, b}) = IF a <= b THEN b ELSE a
BY DEF Max

LEMMA Piece ==
  ASSUME NEW S, NEW s \in Seq(S), NEW i \in 1..(Len(s) + 1), NEW j \in (i - 1)..Len(s)
  PROVE  /\ SubSeq(s, i, j) \in Seq(S)
         /\ Len(SubSeq(s, i, j)) = j - i + 1
         /\ \A k \in 1..(j - i + 1) : SubSeq(s, i, j)[k] = s[i + k - 1]
<1>1. Len(s) \in Nat /\ i \in Int /\ j \in Int
  BY LenProperties
<1>2. \A k \in i..j : s[k] \in S
  BY <1>1, ElementOfSeq
<1>3. (IF i <= j THEN j - i + 1 ELSE 0) = j - i + 1
  BY <1>1
<1> QED
  BY <1>1, <1>2, <1>3, SubSeqProperties

\* A piece of a piece is a piece of the whole.
LEMMA PieceOfPiece ==
  ASSUME NEW S, NEW s \in Seq(S), NEW i \in 1..(Len(s) + 1), NEW j \in (i - 1)..Len(s),
         NEW m \in 1..(j - i + 2), NEW n \in (m - 1)..(j - i + 1)
  PROVE  SubSeq(SubSeq(s, i, j), m, n) = SubSeq(s, i + m - 1, i + n - 1)
<1> DEFINE p == SubSeq(s, i, j)
<1>1. PICK l \in Nat : l = Len(s)
  BY LenProperties
<1>2. p \in Seq(S) /\ Len(p) = j - i + 1 /\ \A k \in 1..(j - i + 1) : p[k] = s[i + k - 1]
  BY Piece
<1> HIDE DEF p
<1>3. /\ SubSeq(p, m, n) \in Seq(S) /\ Len(SubSeq(p, m, n)) = n - m + 1
      /\ \A k \in 1..(n - m + 1) : SubSeq(p, m, n)[k] = p[m + k - 1]
  <2>1. m \in 1..(Len(p) + 1) /\ n \in (m - 1)..Len(p)
    BY <1>1, <1>2
  <2> QED
    BY <1>2, <2>1, Piece
<1>4. /\ SubSeq(s, i + m - 1, i + n - 1) \in Seq(S)
      /\ Len(SubSeq(s, i + m - 1, i + n - 1)) = n - m + 1
      /\ \A k \in 1..(n - m + 1) : SubSeq(s, i + m - 1, i + n - 1)[k] = s[(i + m - 1) + k - 1]
  <2>1. /\ i + m - 1 \in 1..(Len(s) + 1) /\ i + n - 1 \in ((i + m - 1) - 1)..Len(s)
        /\ (i + n - 1) - (i + m - 1) + 1 = n - m + 1
    BY <1>1
  <2> QED
    BY <2>1, Piece
<1>5. \A k \in 1..(n - m + 1) :
        m + k - 1 \in 1..(j - i + 1) /\ i + (m + k - 1) - 1 = (i + m - 1) + k - 1
  BY <1>1
<1>6. SubSeq(p, m, n) = SubSeq(s, i + m - 1, i + n - 1)
  BY <1>2, <1>3, <1>4, <1>5, SeqEqual
<1> QED
  BY <1>6 DEF p

\* Two neighbouring pieces make one.
LEMMA PiecesJoin ==
  ASSUME NEW S, NEW s \in Seq(S), NEW i \in 1..(Len(s) + 1),
         NEW j \in (i - 1)..Len(s), NEW k \in j..Len(s)
  PROVE  SubSeq(s, i, j) \o SubSeq(s, j + 1, k) = SubSeq(s, i, k)
BY ConcatAdjacentSubSeq

\* The end of a concatenation is the end of its second part, when it is long
\* enough.
LEMMA EndOfConcat ==
  ASSUME NEW S, NEW s \in Seq(S), NEW t \in Seq(S), NEW n \in 0..Len(t)
  PROVE  SubSeq(s \o t, Len(s) + n + 1, Len(s) + Len(t)) = SubSeq(t, n + 1, Len(t))
<1>1. PICK a \in Nat, b \in Nat : a = Len(s) /\ b = Len(t)
  BY LenProperties
<1>2. /\ s \o t \in Seq(S) /\ Len(s \o t) = a + b
      /\ \A i \in 1..(a + b) : (s \o t)[i] = IF i <= a THEN s[i] ELSE t[i - a]
  BY <1>1, ConcatProperties
<1> DEFINE u == s \o t
<1> HIDE DEF u
<1>3. /\ SubSeq(u, a + n + 1, a + b) \in Seq(S)
      /\ Len(SubSeq(u, a + n + 1, a + b)) = b - n
      /\ \A k \in 1..(b - n) : SubSeq(u, a + n + 1, a + b)[k] = u[a + n + k]
  <2>1. a + n + 1 \in 1..(Len(u) + 1) /\ a + b \in ((a + n + 1) - 1)..Len(u)
    BY <1>1, <1>2 DEF u
  <2>2. /\ (a + b) - (a + n + 1) + 1 = b - n
        /\ \A k \in 1..(b - n) : (a + n + 1) + k - 1 = a + n + k
    BY <1>1
  <2>3. u \in Seq(S)
    BY <1>2 DEF u
  <2>4. /\ SubSeq(u, a + n + 1, a + b) \in Seq(S)
        /\ Len(SubSeq(u, a + n + 1, a + b)) = (a + b) - (a + n + 1) + 1
        /\ \A k \in 1..((a + b) - (a + n + 1) + 1) :
             SubSeq(u, a + n + 1, a + b)[k] = u[(a + n + 1) + k - 1]
    BY <2>1, <2>3, Piece
  <2> QED
    BY <2>2, <2>4
<1>4. /\ SubSeq(t, n + 1, b) \in Seq(S) /\ Len(SubSeq(t, n + 1, b)) = b - n
      /\ \A k \in 1..(b - n) : SubSeq(t, n + 1, b)[k] = t[n + k]
  <2>1. n + 1 \in 1..(Len(t) + 1) /\ b \in ((n + 1) - 1)..Len(t)
    BY <1>1
  <2>2. b - (n + 1) + 1 = b - n /\ \A k \in 1..(b - n) : (n + 1) + k - 1 = n + k
    BY <1>1
  <2>3. /\ SubSeq(t, n + 1, b) \in Seq(S) /\ Len(SubSeq(t, n + 1, b)) = b - (n + 1) + 1
        /\ \A k \in 1..(b - (n + 1) + 1) : SubSeq(t, n + 1, b)[k] = t[(n + 1) + k - 1]
    BY <2>1, Piece
  <2> QED
    BY <2>2, <2>3
<1>5. \A k \in 1..(b - n) : u[a + n + k] = t[n + k]
  <2>1. \A k \in 1..(b - n) :
          a + n + k \in 1..(a + b) /\ ~(a + n + k <= a) /\ (a + n + k) - a = n + k
    BY <1>1
  <2> QED
    BY <1>2, <2>1 DEF u
<1>6. SubSeq(u, a + n + 1, a + b) = SubSeq(t, n + 1, b)
  BY <1>3, <1>4, <1>5, SeqEqual
<1> QED
  BY <1>1, <1>6 DEF u

-----------------------------------------------------------------------------
(***************************************************************************)
(* The beginning of the stream: head and persisted.                        *)
(***************************************************************************)

\* A buffer that holds the first bytes of the stream, as many as its limit
\* allows, still does after the next chunk, wherever the chunk ends.
LEMMA KeepsFirstBytes ==
  ASSUME NEW S, NEW written \in Seq(S), NEW t \in Nat, NEW u \in Nat,
         t <= u, u <= Len(written), NEW limit \in Nat,
         NEW before \in Nat, before = IF t <= limit THEN t ELSE limit,
         NEW after \in Nat, after = IF u <= limit THEN u ELSE limit
  PROVE  FirstBytes(SubSeq(written, 1, before), SubSeq(written, t + 1, u), limit)
           = SubSeq(written, 1, after)
<1> DEFINE chunk == SubSeq(written, t + 1, u)
           kept == SubSeq(written, 1, Min({t, limit}))
<1>0. PICK size \in Nat : u = t + size
  <2>1. u - t \in Nat /\ u = t + (u - t)
    OBVIOUS
  <2> QED
    BY <2>1
<1>1. PICK l \in Nat : l = Len(written)
  BY LenProperties
<1>2. Len(chunk) = size
  <2>1. /\ t + 1 \in 1..(Len(written) + 1) /\ u \in ((t + 1) - 1)..Len(written)
        /\ u - (t + 1) + 1 = size
    BY <1>0, <1>1
  <2> QED
    BY <2>1, Piece
<1>3. Len(kept) = Min({t, limit})
  <2>1. Min({t, limit}) \in 0..l
    BY <1>1, MinOfTwo
  <2> HIDE DEF kept
  <2>2. PICK m \in 0..l : m = Min({t, limit})
    BY <2>1
  <2>3. Len(SubSeq(written, 1, m)) = m
    <3>1. 1 \in 1..(Len(written) + 1) /\ m \in (1 - 1)..Len(written) /\ m - 1 + 1 = m
      BY <1>0, <1>1
    <3> QED
      BY <3>1, Piece
  <2> QED
    BY <2>2, <2>3 DEF kept
<1>4. ASSUME limit <= t
      PROVE  FirstBytes(kept, chunk, limit) = SubSeq(written, 1, Min({u, limit}))
  <2>1. Min({t, limit}) = limit /\ Min({u, limit}) = limit
    BY <1>4, MinOfTwo
  <2>2. ~(limit > Len(kept))
    BY <1>3, <2>1
  <2> QED
    BY <2>1, <2>2 DEF FirstBytes
<1>5. ASSUME limit > t
      PROVE  FirstBytes(kept, chunk, limit) = SubSeq(written, 1, Min({u, limit}))
  <2>1. Min({t, limit}) = t
    BY <1>0, <1>5, MinOfTwo
  <2>2. PICK n \in 0..size : /\ n = Min({Len(chunk), limit - Len(kept)})
                             /\ Min({u, limit}) = t + n
    <3>1. Min({size, limit - t}) \in 0..size /\ Min({u, limit}) = t + Min({size, limit - t})
      BY <1>0, <1>5, MinOfTwo
    <3> QED
      BY <1>2, <1>3, <2>1, <3>1
  <2>3. SubSeq(chunk, 1, n) = SubSeq(written, t + 1, t + n)
    <3>1. /\ t + 1 \in 1..(Len(written) + 1) /\ u \in ((t + 1) - 1)..Len(written)
          /\ 1 \in 1..(u - (t + 1) + 2) /\ n \in (1 - 1)..(u - (t + 1) + 1)
          /\ (t + 1) + 1 - 1 = t + 1 /\ (t + 1) + n - 1 = t + n
      BY <1>0, <1>1
    <3> QED
      BY <3>1, PieceOfPiece
  <2>4. SubSeq(written, 1, t) \o SubSeq(written, t + 1, t + n) = SubSeq(written, 1, t + n)
    <3>1. /\ 1 \in 1..(Len(written) + 1) /\ t \in (1 - 1)..Len(written)
          /\ t + n \in t..Len(written)
      BY <1>0, <1>1
    <3> QED
      BY <3>1, PiecesJoin
  <2>5. limit > Len(kept)
    BY <1>3, <1>5, <2>1
  <2>6. FirstBytes(kept, chunk, limit) = kept \o SubSeq(chunk, 1, n)
    BY <2>2, <2>5 DEF FirstBytes
  <2> QED
    BY <2>1, <2>2, <2>3, <2>4, <2>6
<1>6. limit <= t \/ limit > t
  OBVIOUS
<1> HIDE DEF chunk, kept
<1>7. FirstBytes(kept, chunk, limit) = SubSeq(written, 1, Min({u, limit}))
  BY <1>4, <1>5, <1>6, Zenon
<1>8. Min({t, limit}) = before /\ Min({u, limit}) = after
  BY MinOfTwo
<1> QED
  BY <1>7, <1>8 DEF chunk, kept

-----------------------------------------------------------------------------
(***************************************************************************)
(* The end of the stream: a sequence of chunks.                            *)
(***************************************************************************)

\* f[n] concatenates the first n chunks.
Flattens(chunks, n, f) ==
    f = [i \in 1..n |-> IF i = 1 THEN chunks[i] ELSE f[i - 1] \o chunks[i]]

LEMMA FlattensExists ==
  ASSUME NEW chunks, NEW n \in Nat
  PROVE  \E f : Flattens(chunks, n, f)
<1> DEFINE T == {k \in Nat : \E f : Flattens(chunks, k, f)}
<1>1. 0 \in T
  <2>1. Flattens(chunks, 0, [i \in 1..0 |-> <<>>])
    BY DEF Flattens
  <2> QED
    BY <2>1
<1>2. ASSUME NEW k \in Nat, k \in T PROVE k + 1 \in T
  <2>1. PICK f : Flattens(chunks, k, f)
    BY <1>2
  <2> DEFINE next == IF k = 0 THEN chunks[1] ELSE f[k] \o chunks[k + 1]
             g == [i \in 1..(k + 1) |-> IF i = k + 1 THEN next ELSE f[i]]
  <2>2. ASSUME NEW i \in 1..(k + 1)
        PROVE  g[i] = IF i = 1 THEN chunks[i] ELSE g[i - 1] \o chunks[i]
    <3>1. CASE i = k + 1
      <4>1. CASE k = 0
        BY <3>1, <4>1
      <4>2. CASE k # 0
        <5>1. i \in 1..(k + 1) /\ k \in 1..(k + 1) /\ k # k + 1 /\ i - 1 = k /\ i # 1
          BY <3>1, <4>2
        <5>2. g[i] = f[k] \o chunks[k + 1] /\ g[k] = f[k]
          BY <3>1, <4>2, <5>1
        <5> QED
          BY <3>1, <4>2, <5>1, <5>2
      <4> QED
        BY <4>1, <4>2
    <3>2. CASE i \in 1..k
      <4>1. g[i] = f[i] /\ (i # 1 => g[i - 1] = f[i - 1])
        BY <3>2
      <4> HIDE DEF g
      <4>2. f[i] = IF i = 1 THEN chunks[i] ELSE f[i - 1] \o chunks[i]
        BY <2>1, <3>2 DEF Flattens
      <4> QED
        BY <4>1, <4>2
    <3> QED
      BY <3>1, <3>2
  <2>3. g = [i \in 1..(k + 1) |-> g[i]]
    OBVIOUS
  <2> HIDE DEF g
  <2>4. Flattens(chunks, k + 1, g)
    BY <2>2, <2>3 DEF Flattens
  <2> QED
    BY <2>4
<1>3. \A k \in Nat : k \in T
  <2> HIDE DEF T
  <2> QED
    BY <1>1, <1>2, Induction
<1> QED
  BY <1>3

LEMMA FlattenEmpty == FlattenSeq(<<>>) = <<>>
BY DEF FlattenSeq

\* The chunks with one more.
LEMMA FlattenAppend ==
  ASSUME NEW S, NEW chunks \in Seq(Seq(S)), NEW chunk \in Seq(S)
  PROVE  FlattenSeq(Append(chunks, chunk)) = FlattenSeq(chunks) \o chunk
<1> DEFINE more == Append(chunks, chunk)
           f == CHOOSE f : Flattens(chunks, Len(chunks), f)
           g == CHOOSE g : Flattens(more, Len(more), g)
<1>1. PICK n \in Nat : n = Len(chunks)
  BY LenProperties
<1>2. /\ Len(more) = n + 1 /\ more[n + 1] = chunk /\ \A i \in 1..n : more[i] = chunks[i]
      /\ DOMAIN chunks = 1..n
      /\ Len(chunks) \in Nat /\ Len(more) \in Nat /\ Len(more) # 0
  BY <1>1, AppendProperties, LenProperties
<1> HIDE DEF more
<1>3. Flattens(chunks, n, f) /\ Flattens(more, n + 1, g)
  <2>1. /\ \E h : Flattens(chunks, Len(chunks), h)
        /\ \E h : Flattens(more, Len(more), h)
    BY <1>1, <1>2, FlattensExists
  <2>2. Flattens(chunks, Len(chunks), f) /\ Flattens(more, Len(more), g)
    BY <2>1
  <2> HIDE DEF f, g
  <2> QED
    BY <1>1, <1>2, <2>2
<1>4. FlattenSeq(chunks) = IF n = 0 THEN chunks ELSE f[n]
  BY <1>1 DEF FlattenSeq, Flattens
<1>5. FlattenSeq(more) = g[n + 1]
  BY <1>2 DEF FlattenSeq, Flattens
<1> HIDE DEF f, g
<1>6. \A k \in Nat : k \in 1..n => g[k] = f[k]
  <2> DEFINE T == {k \in Nat : k \in 1..n => g[k] = f[k]}
  <2>1. 0 \in T
    OBVIOUS
  <2>2. ASSUME NEW k \in Nat, k \in T PROVE k + 1 \in T
    <3> SUFFICES ASSUME k + 1 \in 1..n PROVE g[k + 1] = f[k + 1]
      OBVIOUS
    <3>0. k + 1 \in 1..n /\ k + 1 \in 1..(n + 1)
      OBVIOUS
    <3>1. /\ f[k + 1] = IF k + 1 = 1 THEN chunks[k + 1] ELSE f[(k + 1) - 1] \o chunks[k + 1]
          /\ g[k + 1] = IF k + 1 = 1 THEN more[k + 1] ELSE g[(k + 1) - 1] \o more[k + 1]
      BY <1>3, <3>0 DEF Flattens
    <3>2. k + 1 # 1 => g[k] = f[k] /\ (k + 1) - 1 = k
      BY <2>2
    <3> QED
      BY <1>2, <3>1, <3>2
  <2> HIDE DEF T
  <2>3. \A k \in Nat : k \in T
    BY <2>1, <2>2, Induction
  <2> QED
    BY <2>3 DEF T
<1>7. g[n + 1] = IF n + 1 = 1 THEN more[n + 1] ELSE g[(n + 1) - 1] \o more[n + 1]
  <2>1. n + 1 \in 1..(n + 1)
    OBVIOUS
  <2> QED
    BY <1>3, <2>1 DEF Flattens
<1>8. CASE n = 0
  <2>1. chunks = <<>> /\ FlattenSeq(chunks) = <<>>
    BY <1>1, <1>4, <1>8, EmptySeq
  <2> QED
    BY <1>2, <1>5, <1>7, <1>8, <2>1, ConcatEmptySeq DEF more
<1>9. CASE n # 0
  <2>1. g[n] = f[n] /\ n + 1 # 1 /\ (n + 1) - 1 = n
    BY <1>6, <1>9
  <2> QED
    BY <1>2, <1>4, <1>5, <1>7, <1>9, <2>1 DEF more
<1> QED
  BY <1>8, <1>9

\* Induction over sequences, stated for a set of them.
LEMMA SequenceInduction ==
  ASSUME NEW S, NEW T, <<>> \in T,
         \A s \in Seq(S) : \A e \in S : s \in T => Append(s, e) \in T
  PROVE  \A s \in Seq(S) : s \in T
<1> DEFINE N == {n \in Nat : \A s \in Seq(S) : Len(s) = n => s \in T}
<1>1. 0 \in N
  BY EmptySeq
<1>2. ASSUME NEW n \in Nat, n \in N PROVE n + 1 \in N
  <2>1. ASSUME NEW s \in Seq(S), Len(s) = n + 1 PROVE s \in T
    <3>1. s # <<>>
      BY <2>1, EmptySeq
    <3>2. PICK t \in Seq(S), e \in S : s = Append(t, e)
      BY <3>1, SequenceEmptyOrAppend
    <3>3. Len(t) = n
      <4>1. Len(t) \in Nat /\ Len(s) = Len(t) + 1
        BY <3>2, AppendProperties, LenProperties
      <4> QED
        BY <2>1, <4>1
    <3>4. t \in T
      BY <1>2, <3>3
    <3> QED
      BY <3>2, <3>4
  <2> QED
    BY <2>1
<1>3. \A n \in Nat : n \in N
  <2> HIDE DEF N
  <2> QED
    BY <1>1, <1>2, Induction
<1> QED
  BY <1>3, LenProperties

LEMMA FlattenTyped ==
  ASSUME NEW S, NEW chunks \in Seq(Seq(S))
  PROVE  FlattenSeq(chunks) \in Seq(S)
<1> DEFINE T == {s \in Seq(Seq(S)) : FlattenSeq(s) \in Seq(S)}
<1>1. <<>> \in T
  BY FlattenEmpty, EmptySeq
<1>2. ASSUME NEW s \in Seq(Seq(S)), NEW e \in Seq(S), s \in T PROVE Append(s, e) \in T
  BY <1>2, FlattenAppend, AppendProperties, ConcatProperties
<1>3. \A s \in Seq(Seq(S)) : s \in T
  <2> HIDE DEF T
  <2> QED
    BY <1>1, <1>2, SequenceInduction
<1> QED
  BY <1>3

LEMMA FlattenConcat ==
  ASSUME NEW S, NEW s \in Seq(Seq(S)), NEW t \in Seq(Seq(S))
  PROVE  FlattenSeq(s \o t) = FlattenSeq(s) \o FlattenSeq(t)
<1>0. \A x, y, z \in Seq(S) : (x \o y) \o z = x \o (y \o z)
  BY ConcatAssociative
<1> DEFINE T == {u \in Seq(Seq(S)) : FlattenSeq(s \o u) = FlattenSeq(s) \o FlattenSeq(u)}
<1>1. <<>> \in T
  <2>1. s \o <<>> = s /\ FlattenSeq(s) \o <<>> = FlattenSeq(s)
    BY ConcatEmptySeq, FlattenTyped
  <2> QED
    BY <2>1, FlattenEmpty, EmptySeq
<1>2. ASSUME NEW u \in Seq(Seq(S)), NEW e \in Seq(S), u \in T PROVE Append(u, e) \in T
  <2>1. s \o Append(u, e) = Append(s \o u, e)
    <3>1. Append(u, e) = u \o <<e>> /\ Append(s \o u, e) = (s \o u) \o <<e>>
      BY AppendIsConcat, ConcatProperties
    <3>2. <<e>> \in Seq(Seq(S))
      OBVIOUS
    <3> QED
      BY <3>1, <3>2, ConcatAssociative
  <2>2. FlattenSeq(Append(s \o u, e)) = FlattenSeq(s \o u) \o e
    BY FlattenAppend, ConcatProperties
  <2>3. FlattenSeq(Append(u, e)) = FlattenSeq(u) \o e
    BY FlattenAppend
  <2>4. (FlattenSeq(s) \o FlattenSeq(u)) \o e = FlattenSeq(s) \o (FlattenSeq(u) \o e)
    <3>1. FlattenSeq(s) \in Seq(S) /\ FlattenSeq(u) \in Seq(S)
      BY FlattenTyped
    <3> QED
      BY <1>0, <3>1
  <2>5. Append(u, e) \in Seq(Seq(S))
    BY AppendProperties
  <2> QED
    BY <1>2, <2>1, <2>2, <2>3, <2>4, <2>5
<1>3. \A u \in Seq(Seq(S)) : u \in T
  <2> HIDE DEF T
  <2> QED
    BY <1>1, <1>2, SequenceInduction
<1> QED
  BY <1>3

LEMMA FlattenOne ==
  ASSUME NEW S, NEW chunk \in Seq(S)
  PROVE  FlattenSeq(<<chunk>>) = chunk
<1>1. <<>> \in Seq(Seq(S)) /\ Append(<<>>, chunk) = <<chunk>>
  OBVIOUS
<1>2. FlattenSeq(Append(<<>>, chunk)) = FlattenSeq(<<>>) \o chunk
  BY <1>1, FlattenAppend
<1> QED
  BY <1>1, <1>2, FlattenEmpty, ConcatEmptySeq

\* The account #tailBytes is the length of what the chunks hold.
LEMMA BytesUpToIs ==
  ASSUME NEW S, NEW chunks \in Seq(Seq(S)), NEW n \in 0..Len(chunks)
  PROVE  BytesUpTo(chunks, n) = Len(FlattenSeq(SubSeq(chunks, 1, n)))
<1> DEFINE Length(i) == Len(FlattenSeq(SubSeq(chunks, 1, i)))
           Adds(f) == f = [i \in 0..Len(chunks) |->
                             IF i = 0 THEN 0 ELSE f[i - 1] + Len(chunks[i])]
           f == CHOOSE f : Adds(f)
           w == [i \in 0..Len(chunks) |-> Length(i)]
<1>1. PICK l \in Nat : l = Len(chunks)
  BY LenProperties
<1>2. Length(0) = 0
  <2>1. SubSeq(chunks, 1, 0) = <<>> /\ Len(<<>>) = 0
    BY SubSeqEmpty
  <2> QED
    BY <2>1, FlattenEmpty
<1>3. ASSUME NEW i \in 1..l PROVE Length(i) = Length(i - 1) + Len(chunks[i])
  <2>1. SubSeq(chunks, 1, i) = SubSeq(chunks, 1, i - 1) \o <<chunks[i]>>
    BY <1>1, SubSeqRecursiveSecond
  <2>2. chunks[i] \in Seq(S) /\ <<chunks[i]>> \in Seq(Seq(S))
    BY <1>1, ElementOfSeq
  <2>3. SubSeq(chunks, 1, i - 1) \in Seq(Seq(S))
    <3>1. 1 \in 1..(Len(chunks) + 1) /\ i - 1 \in (1 - 1)..Len(chunks)
      BY <1>1
    <3> QED
      BY <3>1, Piece
  <2>4. FlattenSeq(SubSeq(chunks, 1, i)) = FlattenSeq(SubSeq(chunks, 1, i - 1)) \o chunks[i]
    <3>1. FlattenSeq(SubSeq(chunks, 1, i - 1) \o <<chunks[i]>>)
            = FlattenSeq(SubSeq(chunks, 1, i - 1)) \o FlattenSeq(<<chunks[i]>>)
      BY <2>2, <2>3, FlattenConcat
    <3>2. FlattenSeq(<<chunks[i]>>) = chunks[i]
      BY <2>2, FlattenOne
    <3> QED
      BY <2>1, <3>1, <3>2
  <2>5. FlattenSeq(SubSeq(chunks, 1, i - 1)) \in Seq(S)
    BY <2>3, FlattenTyped
  <2> QED
    BY <2>2, <2>4, <2>5, ConcatProperties
<1> HIDE DEF Length
<1>4. Adds(w)
  <2>1. ASSUME NEW i \in 0..l
        PROVE  w[i] = IF i = 0 THEN 0 ELSE w[i - 1] + Len(chunks[i])
    <3>1. CASE i = 0
      BY <1>1, <1>2, <3>1
    <3>2. CASE i # 0
      <4>1. i \in 1..l /\ i - 1 \in 0..l
        BY <3>2
      <4> QED
        BY <1>1, <1>3, <3>2, <4>1
    <3> QED
      BY <3>1, <3>2
  <2>2. w = [i \in 0..Len(chunks) |-> w[i]]
    OBVIOUS
  <2> HIDE DEF w
  <2> QED
    BY <1>1, <2>1, <2>2
<1>5. Adds(f)
  <2> HIDE DEF w, Adds
  <2> QED
    BY <1>4
<1>6. BytesUpTo(chunks, n) = f[n]
  BY DEF BytesUpTo
<1> HIDE DEF f, w
<1>7. \A k \in Nat : k <= l => f[k] = Length(k)
  <2> DEFINE T == {k \in Nat : k <= l => f[k] = Length(k)}
  <2>1. 0 \in T
    <3>1. 0 \in 0..Len(chunks)
      BY <1>1
    <3> QED
      BY <1>2, <1>5, <3>1
  <2>2. ASSUME NEW k \in Nat, k \in T PROVE k + 1 \in T
    <3> SUFFICES ASSUME k + 1 <= l PROVE f[k + 1] = Length(k + 1)
      OBVIOUS
    <3>1. k <= l /\ k + 1 \in 0..Len(chunks) /\ k + 1 \in 1..l /\ k + 1 # 0 /\ (k + 1) - 1 = k
      BY <1>1
    <3>2. f[k + 1] = f[(k + 1) - 1] + Len(chunks[k + 1])
      BY <1>5, <3>1
    <3> QED
      BY <1>3, <2>2, <3>1, <3>2
  <2>3. \A k \in Nat : k \in T
    <3> HIDE DEF T
    <3> QED
      BY <2>1, <2>2, Induction
  <2> QED
    BY <2>3
<1>8. n \in Nat /\ n <= l
  BY <1>1
<1> QED
  BY <1>6, <1>7, <1>8 DEF Length

\* Every non-empty set of numbers up to n has a greatest element.
LEMMA GreatestNumber ==
  ASSUME NEW n \in Nat, NEW T \in SUBSET (0..n), T # {}
  PROVE  Max(T) \in T /\ \A t \in T : t <= Max(T)
<1> DEFINE U == {n - t : t \in T}
<1>1. U \in SUBSET Nat /\ U # {}
  <2>1. \A t \in T : n - t \in Nat
    OBVIOUS
  <2> QED
    BY <2>1
<1>2. PICK u \in U : \A v \in U : u <= v
  <2> HIDE DEF U
  <2> QED
    BY <1>1, LeastNumber
<1>3. PICK t \in T : u = n - t
  BY <1>2
<1>4. \A v \in T : t >= v
  <2>1. \A v \in T : n - t <= n - v
    BY <1>2, <1>3
  <2> QED
    BY <1>3, <2>1
<1>5. Max(T) \in T /\ \A v \in T : Max(T) >= v
  BY <1>3, <1>4 DEF Max
<1> QED
  BY <1>5

\* What is cut off at the front of a concatenation is cut off its first part,
\* when that is long enough.
LEMMA CutFront ==
  ASSUME NEW S, NEW s \in Seq(S), NEW t \in Seq(S), NEW n \in 0..Len(s)
  PROVE  SubSeq(s \o t, n + 1, Len(s) + Len(t)) = SubSeq(s, n + 1, Len(s)) \o t
<1> DEFINE u == s \o t
           p == SubSeq(s, n + 1, Len(s))
           q == SubSeq(u, n + 1, Len(s) + Len(t))
<1>1. PICK a \in Nat, b \in Nat : a = Len(s) /\ b = Len(t)
  BY LenProperties
<1>2. /\ u \in Seq(S) /\ Len(u) = a + b
      /\ \A i \in 1..(a + b) : u[i] = IF i <= a THEN s[i] ELSE t[i - a]
  BY <1>1, ConcatProperties
<1>3. p \in Seq(S) /\ Len(p) = a - n /\ \A k \in 1..(a - n) : p[k] = s[n + k]
  <2>1. /\ n + 1 \in 1..(Len(s) + 1) /\ a \in ((n + 1) - 1)..Len(s)
        /\ a - (n + 1) + 1 = a - n /\ \A k \in 1..(a - n) : (n + 1) + k - 1 = n + k
    BY <1>1
  <2> QED
    BY <1>1, <2>1, Piece
<1> HIDE DEF u
<1>4. /\ q \in Seq(S) /\ Len(q) = a + b - n
      /\ \A k \in 1..(a + b - n) : q[k] = u[n + k]
  <2>1. /\ n + 1 \in 1..(Len(u) + 1) /\ a + b \in ((n + 1) - 1)..Len(u)
        /\ (a + b) - (n + 1) + 1 = a + b - n
        /\ \A k \in 1..(a + b - n) : (n + 1) + k - 1 = n + k
    BY <1>1, <1>2
  <2> QED
    BY <1>1, <1>2, <2>1, Piece
<1> HIDE DEF p, q
<1>5. /\ p \o t \in Seq(S) /\ Len(p \o t) = (a - n) + b
      /\ \A i \in 1..((a - n) + b) :
           (p \o t)[i] = IF i <= a - n THEN p[i] ELSE t[i - (a - n)]
  <2>1. PICK c \in Nat : c = a - n /\ c = Len(p)
    BY <1>1, <1>3
  <2>2. /\ p \o t \in Seq(S) /\ Len(p \o t) = c + b
        /\ \A i \in 1..(c + b) : (p \o t)[i] = IF i <= c THEN p[i] ELSE t[i - c]
    <3>1. p \in Seq(S)
      BY <1>3
    <3>2. /\ p \o t \in Seq(S) /\ Len(p \o t) = Len(p) + Len(t)
          /\ \A i \in 1..(Len(p) + Len(t)) :
               (p \o t)[i] = IF i <= Len(p) THEN p[i] ELSE t[i - Len(p)]
      BY <3>1, ConcatProperties
    <3> QED
      BY <1>1, <2>1, <3>2
  <2> QED
    BY <2>1, <2>2
<1>6. ASSUME NEW k \in 1..(a + b - n) PROVE q[k] = (p \o t)[k]
  <2>1. n + k \in 1..(a + b) /\ k \in 1..((a - n) + b)
    BY <1>1
  <2>2. CASE k <= a - n
    <3>1. n + k <= a /\ k \in 1..(a - n)
      BY <1>1, <2>2
    <3> QED
      BY <1>2, <1>3, <1>4, <1>5, <2>1, <2>2, <3>1
  <2>3. CASE ~(k <= a - n)
    <3>1. ~(n + k <= a) /\ (n + k) - a = k - (a - n)
      BY <1>1, <2>3
    <3> QED
      BY <1>2, <1>4, <1>5, <2>1, <2>3, <3>1
  <2> QED
    BY <2>2, <2>3
<1>7. q = p \o t
  <2>1. Len(q) = Len(p \o t)
    BY <1>1, <1>4, <1>5
  <2> QED
    BY <1>4, <1>5, <1>6, <2>1, SeqEqual
<1> QED
  BY <1>7 DEF p, q, u

\* A sequence is its first element and the rest.
LEMMA FirstAndRest ==
  ASSUME NEW S, NEW s \in Seq(S), Len(s) # 0
  PROVE  /\ s[1] \in S /\ SubSeq(s, 2, Len(s)) \in Seq(S)
         /\ s = <<s[1]>> \o SubSeq(s, 2, Len(s))
<1>1. PICK l \in Nat : l = Len(s)
  BY LenProperties
<1>2. /\ 1 \in 1..Len(s) /\ Len(s) \in 1..Len(s) /\ l # 0
      /\ 2 \in 1..(Len(s) + 1) /\ Len(s) \in (2 - 1)..Len(s)
  BY <1>1
<1>3. SubSeq(s, 1, Len(s)) = <<s[1]>> \o SubSeq(s, 1 + 1, Len(s))
  BY <1>2, SubSeqRecursiveFirst
<1>4. SubSeq(s, 1, Len(s)) = s
  BY SubSeqFull
<1> QED
  BY <1>2, <1>3, <1>4, ElementOfSeq, Piece

\* Replacing the first element.
LEMMA ReplaceFirst ==
  ASSUME NEW S, NEW s \in Seq(S), Len(s) # 0, NEW e \in S
  PROVE  /\ [s EXCEPT ![1] = e] \in Seq(S) /\ Len([s EXCEPT ![1] = e]) = Len(s)
         /\ [s EXCEPT ![1] = e] = <<e>> \o SubSeq(s, 2, Len(s))
<1> DEFINE r == [s EXCEPT ![1] = e]
<1>1. PICK l \in Nat : l = Len(s)
  BY LenProperties
<1>2. /\ r \in Seq(S) /\ Len(r) = l
      /\ \A j \in 1..l : r[j] = IF j = 1 THEN e ELSE s[j]
  <2>1. 1 \in 1..Len(s)
    BY <1>1
  <2> QED
    BY <1>1, <2>1, ExceptSeq
<1> HIDE DEF r
<1>3. r[1] = e /\ r = <<r[1]>> \o SubSeq(r, 2, l)
  BY <1>1, <1>2, FirstAndRest
<1>4. SubSeq(r, 2, l) = SubSeq(s, 2, l)
  <2>1. 2 \in 1..(l + 1) /\ l \in (2 - 1)..l /\ l - 2 + 1 = l - 1
    BY <1>1
  <2>2. /\ SubSeq(r, 2, l) \in Seq(S) /\ Len(SubSeq(r, 2, l)) = l - 1
        /\ \A k \in 1..(l - 1) : SubSeq(r, 2, l)[k] = r[2 + k - 1]
    BY <1>2, <2>1, Piece
  <2>3. /\ SubSeq(s, 2, l) \in Seq(S) /\ Len(SubSeq(s, 2, l)) = l - 1
        /\ \A k \in 1..(l - 1) : SubSeq(s, 2, l)[k] = s[2 + k - 1]
    BY <1>1, <2>1, Piece
  <2>4. \A k \in 1..(l - 1) : 2 + k - 1 \in 1..l /\ 2 + k - 1 # 1
    OBVIOUS
  <2> QED
    BY <1>2, <2>2, <2>3, <2>4, SeqEqual
<1> QED
  BY <1>1, <1>2, <1>3, <1>4 DEF r

NonEmpty(chunks) == \A i \in DOMAIN chunks : chunks[i] /= <<>>

\* The loop in append() leaves exactly the last maximumBytes bytes.
THEOREM TrimmedKeepsTheEnd ==
  ASSUME NEW S, NEW chunks \in Seq(Seq(S)), maximumBytes \in Nat
  PROVE  LET whole == FlattenSeq(chunks)
         IN  /\ Trimmed(chunks) \in Seq(Seq(S))
             /\ FlattenSeq(Trimmed(chunks))
                  = SubSeq(whole, Max({0, Len(whole) - maximumBytes}) + 1, Len(whole))
             /\ NonEmpty(chunks) => NonEmpty(Trimmed(chunks))
<1> DEFINE whole == FlattenSeq(chunks)
           excess == Max({0, TailBytes(chunks) - maximumBytes})
           shiftable == {n \in 0 .. Len(chunks) : BytesUpTo(chunks, n) <= excess}
           shifted == Max(shiftable)
           rest == excess - BytesUpTo(chunks, shifted)
           kept == SubSeq(chunks, shifted + 1, Len(chunks))
           first == SubSeq(chunks, 1, shifted)
<1>0. \A x, y \in Seq(S) : Len(x \o y) = Len(x) + Len(y)
  BY ConcatProperties
<1>1. PICK l \in Nat : l = Len(chunks)
  BY LenProperties
<1>2. whole \in Seq(S)
  BY FlattenTyped
<1>3. PICK b \in Nat : b = Len(whole)
  BY <1>2, LenProperties
<1>4. TailBytes(chunks) = b
  <2>1. Len(chunks) \in 0..Len(chunks) /\ SubSeq(chunks, 1, Len(chunks)) = chunks
    BY <1>1, SubSeqFull
  <2> QED
    BY <1>3, <2>1, BytesUpToIs DEF TailBytes
<1>5. PICK e \in 0..b : e = excess /\ e = Max({0, Len(whole) - maximumBytes})
  BY <1>3, <1>4, MaxOfTwo
<1>6. BytesUpTo(chunks, 0) = 0 /\ BytesUpTo(chunks, l) = b
  <2>1. 0 \in 0..Len(chunks) /\ SubSeq(chunks, 1, 0) = <<>> /\ Len(<<>>) = 0
    BY <1>1, SubSeqEmpty
  <2>2. BytesUpTo(chunks, 0) = 0
    BY <2>1, BytesUpToIs, FlattenEmpty
  <2> QED
    BY <1>1, <1>4, <2>2 DEF TailBytes
<1> HIDE DEF excess
<1>7. shifted \in shiftable /\ \A n \in shiftable : n <= shifted
  <2>1. shiftable \in SUBSET (0..l) /\ 0 \in shiftable
    BY <1>1, <1>5, <1>6
  <2> HIDE DEF shiftable
  <2> QED
    BY <2>1, GreatestNumber
<1> HIDE DEF shifted
<1>8. PICK k \in 0..l : k = shifted
  BY <1>1, <1>7
<1>9. /\ first \in Seq(Seq(S)) /\ kept \in Seq(Seq(S)) /\ first \o kept = chunks
      /\ Len(kept) = l - k /\ \A i \in 1..(l - k) : kept[i] = chunks[k + i]
  <2>1. /\ 1 \in 1..(Len(chunks) + 1) /\ k \in (1 - 1)..Len(chunks)
        /\ k + 1 \in 1..(Len(chunks) + 1) /\ Len(chunks) \in ((k + 1) - 1)..Len(chunks)
        /\ Len(chunks) \in k..Len(chunks)
    BY <1>1
  <2>2. l - (k + 1) + 1 = l - k /\ \A i \in 1..(l - k) : (k + 1) + i - 1 = k + i
    OBVIOUS
  <2>3. /\ kept \in Seq(Seq(S)) /\ Len(kept) = l - (k + 1) + 1
        /\ \A i \in 1..(l - (k + 1) + 1) : kept[i] = chunks[(k + 1) + i - 1]
    BY <1>1, <1>8, <2>1, Piece
  <2>4. first \in Seq(Seq(S))
    BY <1>8, <2>1, Piece
  <2>5. first \o kept = SubSeq(chunks, 1, Len(chunks))
    BY <1>8, <2>1, PiecesJoin
  <2> HIDE DEF kept, first
  <2> QED
    BY <2>2, <2>3, <2>4, <2>5, SubSeqFull
<1>10. PICK r \in Nat : r = rest /\ BytesUpTo(chunks, k) = e - r /\ Len(FlattenSeq(first)) = e - r
  <2>1. BytesUpTo(chunks, k) = Len(FlattenSeq(first)) /\ BytesUpTo(chunks, k) <= e
    BY <1>1, <1>5, <1>7, <1>8, BytesUpToIs
  <2>2. Len(FlattenSeq(first)) \in Nat
    BY <1>9, FlattenTyped, LenProperties
  <2>3. PICK c \in Nat : c = BytesUpTo(chunks, k) /\ c <= e
    BY <2>1, <2>2
  <2>4. e - c \in Nat /\ c = e - (e - c)
    BY <2>3
  <2> QED
    BY <1>5, <1>8, <2>1, <2>3, <2>4
<1> HIDE DEF kept, first, rest
<1>11. /\ whole = FlattenSeq(first) \o FlattenSeq(kept)
       /\ FlattenSeq(first) \in Seq(S) /\ FlattenSeq(kept) \in Seq(S)
  BY <1>9, FlattenConcat, FlattenTyped
<1> HIDE DEF whole
<1>12. PICK d \in Nat : d = Len(FlattenSeq(kept)) /\ b = (e - r) + d
  <2>1. Len(FlattenSeq(first) \o FlattenSeq(kept)) = (e - r) + Len(FlattenSeq(kept))
    BY <1>10, <1>11, ConcatProperties
  <2> QED
    BY <1>3, <1>11, <2>1, LenProperties
<1>13. SubSeq(whole, e + 1, b) = SubSeq(FlattenSeq(kept), r + 1, d)
  <2>1. r \in 0..d
    BY <1>5, <1>12
  <2>2. SubSeq(whole, Len(FlattenSeq(first)) + r + 1, Len(FlattenSeq(first)) + d)
          = SubSeq(FlattenSeq(kept), r + 1, d)
    BY <1>11, <1>12, <2>1, EndOfConcat
  <2>3. Len(FlattenSeq(first)) + r + 1 = e + 1 /\ Len(FlattenSeq(first)) + d = b
    BY <1>5, <1>10, <1>12
  <2> QED
    BY <2>2, <2>3
<1>14. Trimmed(chunks) = IF r = 0 THEN kept
                         ELSE [kept EXCEPT ![1] = SubSeq(kept[1], r + 1, Len(kept[1]))]
  BY <1>10 DEF Trimmed, excess, shifted, rest, kept
<1>15. NonEmpty(chunks) => NonEmpty(kept)
  <2>1. \A i \in 1..(l - k) : k + i \in 1..l
    OBVIOUS
  <2>2. DOMAIN chunks = 1..l /\ DOMAIN kept = 1..(l - k)
    BY <1>1, <1>9, LenProperties
  <2> QED
    BY <1>9, <2>1, <2>2 DEF NonEmpty
<1>16. CASE r = 0
  <2>1. SubSeq(FlattenSeq(kept), 1, d) = FlattenSeq(kept)
    BY <1>11, <1>12, SubSeqFull
  <2>2. Trimmed(chunks) = kept /\ r + 1 = 1
    BY <1>14, <1>16
  <2> QED
    BY <1>3, <1>5, <1>9, <1>13, <1>15, <2>1, <2>2 DEF whole
<1>17. CASE r # 0
  <2> DEFINE h == kept[1]
             cut == SubSeq(h, r + 1, Len(h))
             others == SubSeq(kept, 2, Len(kept))
  <2>1. k < l /\ r < Len(chunks[k + 1]) /\ chunks[k + 1] \in Seq(S)
    <3>1. k # l
      <4>1. e - r < b
        BY <1>5, <1>17
      <4> QED
        BY <1>6, <1>10, <4>1
    <3>2. k + 1 \in 0..l /\ k + 1 \in 1..Len(chunks) /\ ~(k + 1 <= k)
      BY <1>1, <3>1
    <3>3. ~(BytesUpTo(chunks, k + 1) <= e)
      <4>1. k + 1 \notin shiftable
        BY <1>7, <1>8, <3>2
      <4> QED
        BY <1>1, <1>5, <3>2, <4>1
    <3>4. chunks[k + 1] \in Seq(S)
      BY <3>2, ElementOfSeq
    <3>5. BytesUpTo(chunks, k + 1) = (e - r) + Len(chunks[k + 1])
      <4>1. SubSeq(chunks, 1, k + 1) = SubSeq(chunks, 1, (k + 1) - 1) \o <<chunks[k + 1]>>
        BY <3>2, SubSeqRecursiveSecond
      <4>2. SubSeq(chunks, 1, (k + 1) - 1) = first
        BY <1>8 DEF first
      <4>3. <<chunks[k + 1]>> \in Seq(Seq(S))
        BY <3>4
      <4>4. FlattenSeq(SubSeq(chunks, 1, k + 1)) = FlattenSeq(first) \o chunks[k + 1]
        <5>1. FlattenSeq(first \o <<chunks[k + 1]>>)
                = FlattenSeq(first) \o FlattenSeq(<<chunks[k + 1]>>)
          BY <1>9, <4>3, FlattenConcat
        <5> QED
          BY <3>4, <4>1, <4>2, <5>1, FlattenOne
      <4>5. Len(FlattenSeq(first) \o chunks[k + 1]) = (e - r) + Len(chunks[k + 1])
        BY <1>0, <1>10, <1>11, <3>4
      <4> QED
        BY <1>1, <3>2, <4>4, <4>5, BytesUpToIs
    <3>6. PICK c \in Nat : c = Len(chunks[k + 1])
      BY <3>4, LenProperties
    <3>7. ~((e - r) + c <= e)
      BY <3>3, <3>5, <3>6
    <3>8. r < c
      BY <1>5, <3>7
    <3> QED
      BY <3>1, <3>4, <3>6, <3>8
  <2>2. /\ Len(kept) # 0 /\ h = chunks[k + 1] /\ h \in Seq(S)
    BY <1>9, <2>1
  <2>3. PICK c \in Nat : c = Len(h) /\ r < c
    BY <2>1, <2>2, LenProperties
  <2>4. cut \in Seq(S) /\ Len(cut) = c - r
    <3>1. /\ r + 1 \in 1..(Len(h) + 1) /\ c \in ((r + 1) - 1)..Len(h)
          /\ c - (r + 1) + 1 = c - r
      BY <2>3
    <3> QED
      BY <2>2, <2>3, <3>1, Piece
  <2>5. /\ others \in Seq(Seq(S)) /\ kept = <<h>> \o others
    BY <1>9, <2>2, FirstAndRest
  <2> HIDE DEF h, cut
  <2> DEFINE new == [kept EXCEPT ![1] = cut]
  <2>6. new \in Seq(Seq(S)) /\ Len(new) = Len(kept) /\ new = <<cut>> \o others
    BY <1>9, <2>2, <2>4, ReplaceFirst
  <2>7. Trimmed(chunks) = new
    BY <1>14, <1>17 DEF cut, h
  <2>8. <<h>> \in Seq(Seq(S)) /\ <<cut>> \in Seq(Seq(S))
    BY <2>2, <2>4
  <2> HIDE DEF others
  <2>9. FlattenSeq(kept) = h \o FlattenSeq(others) /\ FlattenSeq(others) \in Seq(S)
    <3>1. FlattenSeq(<<h>> \o others) = FlattenSeq(<<h>>) \o FlattenSeq(others)
      BY <2>5, <2>8, FlattenConcat
    <3> QED
      BY <2>2, <2>5, <3>1, FlattenOne, FlattenTyped
  <2>10. FlattenSeq(new) = cut \o FlattenSeq(others)
    <3>1. FlattenSeq(<<cut>> \o others) = FlattenSeq(<<cut>>) \o FlattenSeq(others)
      BY <2>5, <2>8, FlattenConcat
    <3> QED
      BY <2>4, <2>6, <3>1, FlattenOne
  <2>11. SubSeq(FlattenSeq(kept), r + 1, d) = FlattenSeq(new)
    <3>1. r \in 0..Len(h)
      BY <2>3
    <3>2. SubSeq(h \o FlattenSeq(others), r + 1, Len(h) + Len(FlattenSeq(others)))
            = SubSeq(h, r + 1, Len(h)) \o FlattenSeq(others)
      BY <2>2, <2>9, <3>1, CutFront
    <3>3. d = Len(h) + Len(FlattenSeq(others))
      BY <1>12, <2>2, <2>9, ConcatProperties
    <3> QED
      BY <2>9, <2>10, <3>2, <3>3 DEF cut
  <2>12. NonEmpty(chunks) => NonEmpty(new)
    <3>1. cut # <<>>
      BY <2>3, <2>4, EmptySeq
    <3>2. DOMAIN kept = 1..(l - k) /\ DOMAIN new = 1..(l - k)
      BY <1>9, <2>6, LenProperties
    <3>3. ASSUME NEW i \in 1..(l - k), NonEmpty(kept) PROVE new[i] # <<>>
      BY <3>1, <3>2, <3>3 DEF NonEmpty
    <3> QED
      BY <1>15, <3>2, <3>3 DEF NonEmpty
  <2> HIDE DEF new
  <2> QED
    BY <1>3, <1>5, <1>13, <2>6, <2>7, <2>11, <2>12 DEF whole
<1> QED
  BY <1>16, <1>17

-----------------------------------------------------------------------------
(***************************************************************************)
(* The inductive invariant: the buffers hold the ends of the stream, and   *)
(* what result() has returned was made from them.                          *)
(***************************************************************************)
Answer == IF total > maximumBytes /\ capture = "head_tail" THEN HeadTailResult ELSE HeadResult

\* How many bytes the tail no longer holds.
Dropped == Max({0, total - maximumBytes})

IInv ==
    /\ limits \in Cases /\ output \in limits.outputs /\ total \in 0..Len(output)
    /\ head = SubSeq(output, 1, Min({total, maximumBytes}))
    /\ persisted = SubSeq(output, 1, Min({total, persistedMaximumBytes}))
    /\ tail \in Seq(Seq(Bytes)) /\ NonEmpty(tail)
    /\ IF capture = "head_tail"
       THEN FlattenSeq(tail) = SubSeq(output, Dropped + 1, total)
       ELSE tail = <<>>
    /\ captured \in {<<>>, <<Answer>>}

LEMMA LimitsTyped ==
  ASSUME limits \in Cases, output \in limits.outputs
  PROVE  /\ maximumBytes \in Nat /\ maximumBytes # 0 /\ persistedMaximumBytes \in Nat
         /\ capture \in {"head", "head_tail"}
         /\ output \in Seq(Bytes) /\ Len(output) \in Nat
         /\ limits.chunkSizes \subseteq Nat \ {0}
<1>1. output \in Seq(Bytes)
  BY CasesAssumption
<1> QED
  BY <1>1, CasesAssumption, LenProperties DEF maximumBytes, persistedMaximumBytes, capture

LEMMA InitIInv == Init => IInv
<1> SUFFICES ASSUME Init PROVE IInv
  OBVIOUS
<1>1. /\ limits \in Cases /\ output \in limits.outputs /\ total = 0 /\ head = <<>>
      /\ tail = <<>> /\ persisted = <<>> /\ captured = <<>>
  BY DEF Init
<1>2. /\ maximumBytes \in Nat /\ persistedMaximumBytes \in Nat /\ Len(output) \in Nat
  BY <1>1, LimitsTyped
<1>3. /\ Min({total, maximumBytes}) = 0 /\ Min({total, persistedMaximumBytes}) = 0
      /\ Dropped = 0
  BY <1>1, <1>2, MinOfTwo, MaxOfTwo DEF Dropped
<1>4. SubSeq(output, 1, 0) = <<>> /\ SubSeq(output, 0 + 1, 0) = <<>>
  BY SubSeqEmpty
<1>5. <<>> \in Seq(Seq(Bytes)) /\ NonEmpty(<<>>)
  BY DEF NonEmpty
<1>6. total \in 0..Len(output)
  BY <1>1, <1>2
<1>7. /\ head = SubSeq(output, 1, Min({total, maximumBytes}))
      /\ persisted = SubSeq(output, 1, Min({total, persistedMaximumBytes}))
  BY <1>1, <1>3, <1>4
<1>8. FlattenSeq(tail) = SubSeq(output, Dropped + 1, total)
  BY <1>1, <1>3, <1>4, FlattenEmpty
<1>9. tail \in Seq(Seq(Bytes)) /\ NonEmpty(tail)
  BY <1>1, <1>5
<1> QED
  BY <1>1, <1>6, <1>7, <1>8, <1>9 DEF IInv

\* A chunk arrives.
LEMMA DataKeepsIInv ==
  ASSUME IInv, NEW size \in limits.chunkSizes, Data(size)
  PROVE  IInv'
<1> DEFINE chunk == SubSeq(output, total + 1, total + size)
<1>1. /\ limits \in Cases /\ output \in limits.outputs /\ total \in Nat
      /\ total <= Len(output)
      /\ maximumBytes \in Nat /\ persistedMaximumBytes \in Nat
      /\ output \in Seq(Bytes) /\ Len(output) \in Nat
      /\ size \in Nat /\ size # 0 /\ total + size <= Len(output)
  BY LimitsTyped DEF IInv, Data
<1>2. /\ UNCHANGED <<limits, output, captured>> /\ captured = <<>>
      /\ total' = total + size
      /\ persisted' = FirstBytes(persisted, chunk, persistedMaximumBytes)
      /\ head' = FirstBytes(head, chunk, maximumBytes)
      /\ tail' = IF capture = "head_tail" THEN Trimmed(tail \o <<chunk>>) ELSE tail
  BY DEF Data
<1>3. UNCHANGED <<maximumBytes, persistedMaximumBytes, capture>>
  BY <1>2 DEF maximumBytes, persistedMaximumBytes, capture
<1>0. ASSUME NEW limit \in Nat
      PROVE  FirstBytes(SubSeq(output, 1, Min({total, limit})), chunk, limit)
               = SubSeq(output, 1, Min({total + size, limit}))
  <2>1. PICK m \in Nat, n \in Nat :
          /\ m = Min({total, limit}) /\ m = IF total <= limit THEN total ELSE limit
          /\ n = Min({total + size, limit})
          /\ n = IF total + size <= limit THEN total + size ELSE limit
    BY <1>1, MinOfTwo
  <2>2. PICK t \in Nat, u \in Nat :
          t = total /\ u = total + size /\ t <= u /\ u <= Len(output)
    BY <1>1
  <2>3. /\ m = (IF t <= limit THEN t ELSE limit)
        /\ n = (IF u <= limit THEN u ELSE limit)
    BY <2>1, <2>2
  <2>4. PICK w \in Seq(Bytes) : w = output
    BY <1>1
  <2>5. FirstBytes(SubSeq(w, 1, m), SubSeq(w, t + 1, u), limit) = SubSeq(w, 1, n)
    <3>1. t <= u /\ u <= Len(w)
      BY <2>2, <2>4
    <3> QED
      BY <2>3, <3>1, KeepsFirstBytes
  <2> QED
    BY <2>1, <2>2, <2>4, <2>5
<1>4. head' = SubSeq(output, 1, Min({total + size, maximumBytes}))
  <2>1. head = SubSeq(output, 1, Min({total, maximumBytes}))
    BY DEF IInv
  <2>2. FirstBytes(SubSeq(output, 1, Min({total, maximumBytes})), chunk, maximumBytes)
          = SubSeq(output, 1, Min({total + size, maximumBytes}))
    BY <1>1, <1>0
  <2> QED
    BY <1>2, <2>1, <2>2
<1>5. persisted' = SubSeq(output, 1, Min({total + size, persistedMaximumBytes}))
  <2>1. persisted = SubSeq(output, 1, Min({total, persistedMaximumBytes}))
    BY DEF IInv
  <2>2. FirstBytes(SubSeq(output, 1, Min({total, persistedMaximumBytes})), chunk,
                   persistedMaximumBytes)
          = SubSeq(output, 1, Min({total + size, persistedMaximumBytes}))
    BY <1>1, <1>0
  <2> QED
    BY <1>2, <2>1, <2>2
<1>6. chunk \in Seq(Bytes) /\ Len(chunk) = size /\ chunk # <<>>
  <2>1. /\ total + 1 \in 1..(Len(output) + 1) /\ total + size \in ((total + 1) - 1)..Len(output)
        /\ (total + size) - (total + 1) + 1 = size
    BY <1>1
  <2>2. chunk \in Seq(Bytes) /\ Len(chunk) = size
    BY <1>1, <2>1, Piece
  <2> QED
    BY <1>1, <2>2, EmptySeq
<1>7. CASE capture = "head"
  <2>1. tail' = tail /\ tail = <<>>
    BY <1>2, <1>7 DEF IInv
  <2>2. <<>> \in Seq(Seq(Bytes)) /\ NonEmpty(<<>>)
    BY DEF NonEmpty
  <2>3. NonEmpty(tail)'
    BY <2>1, <2>2
  <2>4. total + size \in 0..Len(output)
    BY <1>1
  <2> QED
    BY <1>1, <1>2, <1>3, <1>4, <1>5, <1>7, <2>1, <2>2, <2>3, <2>4 DEF IInv
<1>8. CASE capture = "head_tail"
  <2> DEFINE gone == IF total <= maximumBytes THEN 0 ELSE total - maximumBytes
             more == tail \o <<chunk>>
             goes == IF total + size <= maximumBytes THEN 0 ELSE total + size - maximumBytes
             over == IF total + size - gone <= maximumBytes THEN 0
                     ELSE total + size - gone - maximumBytes
  <2>0. Dropped = gone /\ Dropped' = goes
    <3>1. /\ total - maximumBytes \in Int /\ (total - maximumBytes)' \in Int
          /\ total - maximumBytes <= 0 <=> total <= maximumBytes
          /\ (total - maximumBytes)' = total + size - maximumBytes
          /\ total + size - maximumBytes <= 0 <=> total + size <= maximumBytes
      BY <1>1, <1>2, <1>3
    <3>2. Dropped = gone
      BY <1>1, <3>1, MaxOfTwo DEF Dropped
    <3>3. Dropped' = goes
      BY <1>1, <3>1, MaxOfTwo DEF Dropped
    <3> QED
      BY <3>2, <3>3
  <2>1. tail \in Seq(Seq(Bytes)) /\ NonEmpty(tail) /\ FlattenSeq(tail) = SubSeq(output, gone + 1, total)
    BY <1>8, <2>0 DEF IInv
  <2>2. <<chunk>> \in Seq(Seq(Bytes))
    BY <1>6
  <2>3. gone \in 0..total /\ goes \in 0..(total + size)
        /\ goes = gone + over /\ over \in 0..(total + size - gone)
    BY <1>1
  <2> HIDE DEF gone, goes
  <2>4. more \in Seq(Seq(Bytes)) /\ NonEmpty(more)
    <3>1. more = Append(tail, chunk)
      BY <1>6, <2>1, AppendIsConcat
    <3>2. PICK l \in Nat : l = Len(tail)
      BY <2>1, LenProperties
    <3>3. /\ Append(tail, chunk) \in Seq(Seq(Bytes))
          /\ Len(Append(tail, chunk)) = l + 1
          /\ \A i \in 1..l : Append(tail, chunk)[i] = tail[i]
          /\ Append(tail, chunk)[l + 1] = chunk
      <4>1. tail \in Seq(Seq(Bytes)) /\ chunk \in Seq(Bytes)
        BY <1>6, <2>1
      <4> HIDE DEF chunk
      <4>2. /\ Append(tail, chunk) \in Seq(Seq(Bytes))
            /\ Len(Append(tail, chunk)) = Len(tail) + 1
            /\ \A i \in 1..Len(tail) : Append(tail, chunk)[i] = tail[i]
            /\ Append(tail, chunk)[Len(tail) + 1] = chunk
        BY <4>1, AppendProperties
      <4> QED
        BY <3>2, <4>2
    <3>4. DOMAIN Append(tail, chunk) = 1..(l + 1) /\ DOMAIN tail = 1..l
      BY <2>1, <3>2, <3>3, LenProperties
    <3>5. \A i \in 1..(l + 1) : i \in 1..l \/ i = l + 1
      OBVIOUS
    <3> QED
      BY <1>6, <2>1, <3>1, <3>3, <3>4, <3>5 DEF NonEmpty
  <2>5. FlattenSeq(more) = SubSeq(output, gone + 1, total + size)
    <3>1. FlattenSeq(more) = FlattenSeq(tail) \o FlattenSeq(<<chunk>>)
      BY <2>1, <2>2, FlattenConcat
    <3>2. FlattenSeq(<<chunk>>) = chunk
      BY <1>6, FlattenOne
    <3>3. /\ gone + 1 \in 1..(Len(output) + 1) /\ total \in ((gone + 1) - 1)..Len(output)
          /\ total + size \in total..Len(output)
      BY <1>1, <2>3
    <3>4. SubSeq(output, gone + 1, total) \o SubSeq(output, total + 1, total + size)
            = SubSeq(output, gone + 1, total + size)
      BY <1>1, <3>3, PiecesJoin
    <3> QED
      BY <2>1, <3>1, <3>2, <3>4
  <2>6. Len(FlattenSeq(more)) = total + size - gone
    <3>1. /\ gone + 1 \in 1..(Len(output) + 1)
          /\ total + size \in ((gone + 1) - 1)..Len(output)
          /\ (total + size) - (gone + 1) + 1 = total + size - gone
      BY <1>1, <2>3
    <3> QED
      BY <1>1, <2>5, <3>1, Piece
  <2> HIDE DEF more
  <2>7. /\ Trimmed(more) \in Seq(Seq(Bytes)) /\ NonEmpty(Trimmed(more))
        /\ FlattenSeq(Trimmed(more))
             = SubSeq(FlattenSeq(more), over + 1, total + size - gone)
    <3>1. PICK n \in Nat : n = total + size - gone
      BY <1>1, <2>3
    <3>2. /\ Trimmed(more) \in Seq(Seq(Bytes)) /\ NonEmpty(Trimmed(more))
          /\ FlattenSeq(Trimmed(more))
               = SubSeq(FlattenSeq(more), Max({0, Len(FlattenSeq(more)) - maximumBytes}) + 1,
                        Len(FlattenSeq(more)))
      BY <1>1, <2>4, TrimmedKeepsTheEnd
    <3>3. Len(FlattenSeq(more)) = n
      BY <2>6, <3>1
    <3>4. Max({0, n - maximumBytes}) = over
      <4>1. n - maximumBytes \in Int /\ (0 <= n - maximumBytes <=> maximumBytes <= n)
        BY <1>1
      <4>2. over = IF n <= maximumBytes THEN 0 ELSE n - maximumBytes
        <5>1. total + size - gone <= maximumBytes <=> n <= maximumBytes
          BY <1>1, <2>3, <3>1
        <5>2. total + size - gone - maximumBytes = n - maximumBytes
          BY <1>1, <2>3, <3>1
        <5> QED
          BY <5>1, <5>2
      <4>3. Max({0, n - maximumBytes}) = IF 0 <= n - maximumBytes THEN n - maximumBytes ELSE 0
        BY <4>1, MaxOfTwo
      <4> HIDE DEF over
      <4> QED
        BY <1>1, <4>2, <4>3
    <3>5. SubSeq(FlattenSeq(more), Max({0, Len(FlattenSeq(more)) - maximumBytes}) + 1,
                 Len(FlattenSeq(more)))
            = SubSeq(FlattenSeq(more), over + 1, n)
      BY <3>3, <3>4
    <3> QED
      BY <3>1, <3>2, <3>5
  <2> HIDE DEF over
  <2>8. FlattenSeq(Trimmed(more)) = SubSeq(output, goes + 1, total + size)
    <3>1. PICK x \in 0..(total + size - gone) :
            x = over /\ goes = gone + x
      BY <2>3
    <3>2. PICK w \in Nat, g \in Nat, y \in Nat :
            w = total + size /\ g = gone /\ y = x /\ g <= w /\ y <= w - g
      <4>1. total + size \in Nat /\ gone \in Nat /\ gone <= total + size
        BY <1>1, <2>3
      <4>2. PICK w \in Nat, g \in Nat : w = total + size /\ g = gone /\ g <= w
        BY <4>1
      <4>3. x \in Nat /\ x <= w - g
        <5>1. x \in 0..(w - g)
          BY <1>1, <2>3, <4>2
        <5> QED
          BY <4>2, <5>1
      <4> QED
        BY <4>2, <4>3
    <3>3. /\ g + 1 \in 1..(Len(output) + 1) /\ w \in ((g + 1) - 1)..Len(output)
          /\ y + 1 \in 1..(w - (g + 1) + 2)
          /\ w - g \in ((y + 1) - 1)..(w - (g + 1) + 1)
          /\ (g + 1) + (y + 1) - 1 = g + y + 1 /\ (g + 1) + (w - g) - 1 = w
      BY <1>1, <3>2
    <3>4. SubSeq(SubSeq(output, g + 1, w), y + 1, w - g)
            = SubSeq(output, (g + 1) + (y + 1) - 1, (g + 1) + (w - g) - 1)
      BY <1>1, <3>3, PieceOfPiece
    <3>5. FlattenSeq(Trimmed(more)) = SubSeq(SubSeq(output, g + 1, w), y + 1, w - g)
      <4>1. over = y /\ gone = g /\ total + size = w /\ total + size - gone = w - g
        BY <1>1, <3>1, <3>2
      <4>2. FlattenSeq(more) = SubSeq(output, g + 1, w)
        BY <2>5, <4>1
      <4>3. FlattenSeq(Trimmed(more)) = SubSeq(FlattenSeq(more), y + 1, w - g)
        BY <2>7, <4>1
      <4> QED
        BY <4>2, <4>3
    <3>6. SubSeq(output, (g + 1) + (y + 1) - 1, (g + 1) + (w - g) - 1)
            = SubSeq(output, g + y + 1, w)
      BY <3>3
    <3>7. FlattenSeq(Trimmed(more)) = SubSeq(output, g + y + 1, w)
      BY <3>4, <3>5, <3>6, Zenon
    <3>8. g + y = goes
      BY <3>1, <3>2
    <3> QED
      BY <3>2, <3>7, <3>8
  <2>9. tail' = Trimmed(more)
    BY <1>2, <1>8 DEF more
  <2>10. (tail \in Seq(Seq(Bytes)) /\ NonEmpty(tail))'
    BY <2>7, <2>9
  <2>11. total + size \in 0..Len(output)
    BY <1>1
  <2>12. (FlattenSeq(tail) = SubSeq(output, Dropped + 1, total))'
    BY <1>2, <2>0, <2>8, <2>9
  <2> QED
    BY <1>1, <1>2, <1>3, <1>4, <1>5, <1>8, <2>10, <2>11, <2>12 DEF IInv
<1>9. capture \in {"head", "head_tail"}
  BY <1>1, LimitsTyped
<1> QED
  BY <1>7, <1>8, <1>9

\* What result() returns depends on the buffers and the limits alone.
LEMMA AnswerStays ==
  ASSUME UNCHANGED <<limits, output, total, head, tail, persisted>>
  PROVE  Answer' = Answer
<1>1. UNCHANGED <<maximumBytes, persistedMaximumBytes, capture>>
  BY DEF maximumBytes, persistedMaximumBytes, capture
<1>2. Marker' = Marker
  BY <1>1 DEF Marker, ContentBudget, OmissionMarker
<1>3. PersistedResult' = PersistedResult
  BY <1>1 DEF PersistedResult, PersistedTruncated
<1>4. HeadResult' = HeadResult
  BY <1>1, <1>3 DEF HeadResult
<1>5. HeadTailResult' = HeadTailResult
  BY <1>1, <1>2, <1>3 DEF HeadTailResult, ContentBudget
<1>6. (total > maximumBytes /\ capture = "head_tail")'
        <=> (total > maximumBytes /\ capture = "head_tail")
  BY <1>1
<1> QED
  BY <1>4, <1>5, <1>6 DEF Answer

LEMMA NextIInv == IInv /\ [Next]_vars => IInv'
<1> SUFFICES ASSUME IInv, [Next]_vars PROVE IInv'
  OBVIOUS
<1>1. CASE Result
  <2>1. /\ UNCHANGED <<limits, output, total, head, tail, persisted>>
        /\ captured' = <<Answer>>
    BY <1>1 DEF Result, Answer
  <2>2. UNCHANGED <<maximumBytes, persistedMaximumBytes, capture, Dropped>>
    BY <2>1 DEF maximumBytes, persistedMaximumBytes, capture, Dropped
  <2>3. Answer' = Answer
    BY <2>1, AnswerStays
  <2>4. NonEmpty(tail)' <=> NonEmpty(tail)
    BY <2>1
  <2> QED
    BY <2>1, <2>2, <2>3, <2>4 DEF IInv
<1>2. CASE \E size \in limits.chunkSizes : Data(size)
  BY <1>2, DataKeepsIInv
<1>3. CASE UNCHANGED vars
  <2>1. UNCHANGED <<limits, output, total, head, tail, persisted, captured>>
    BY <1>3 DEF vars
  <2>2. UNCHANGED <<maximumBytes, persistedMaximumBytes, capture, Dropped>>
    BY <2>1 DEF maximumBytes, persistedMaximumBytes, capture, Dropped
  <2>3. Answer' = Answer
    BY <2>1, AnswerStays
  <2>4. NonEmpty(tail)' <=> NonEmpty(tail)
    BY <2>1
  <2> QED
    BY <2>1, <2>2, <2>3, <2>4 DEF IInv
<1> QED
  BY <1>1, <1>2, <1>3 DEF Next

\* The buffers hold the ends of the stream, however it is cut into chunks.
THEOREM InvariantHolds == Spec => []IInv
BY InitIInv, NextIInv, PTL DEF Spec

\* What is kept, as pieces of what has arrived.
LEMMA KeptOfArrived ==
  ASSUME IInv
  PROVE  /\ Arrived \in Seq(Bytes) /\ Len(Arrived) = total
         /\ \A limit \in Nat : \A n \in Nat : n = (IF total <= limit THEN total ELSE limit) =>
              /\ SubSeq(output, 1, n) = SubSeq(Arrived, 1, n)
              /\ Len(SubSeq(output, 1, n)) = n
         /\ \A n \in 0..total : /\ SubSeq(output, n + 1, total) = SubSeq(Arrived, n + 1, total)
                                /\ Len(SubSeq(output, n + 1, total)) = total - n
<1>1. /\ output \in Seq(Bytes) /\ Len(output) \in Nat /\ total \in 0..Len(output)
  BY LimitsTyped DEF IInv
<1>2. PICK t \in Nat : t = total /\ t <= Len(output)
  BY <1>1
<1>3. Arrived \in Seq(Bytes) /\ Len(Arrived) = total
  <2>1. 1 \in 1..(Len(output) + 1) /\ t \in (1 - 1)..Len(output) /\ t - 1 + 1 = t
    BY <1>1, <1>2
  <2> QED
    BY <1>1, <1>2, <2>1, Piece DEF Arrived
<1>4. ASSUME NEW n \in 0..t
      PROVE  SubSeq(output, 1, n) = SubSeq(Arrived, 1, n) /\ Len(SubSeq(output, 1, n)) = n
  <2>1. /\ 1 \in 1..(Len(output) + 1) /\ t \in (1 - 1)..Len(output)
        /\ 1 \in 1..(t - 1 + 2) /\ n \in (1 - 1)..(t - 1 + 1)
        /\ 1 + 1 - 1 = 1 /\ 1 + n - 1 = n /\ n - 1 + 1 = n /\ n \in (1 - 1)..Len(output)
    BY <1>1, <1>2
  <2>2. SubSeq(SubSeq(output, 1, t), 1, n) = SubSeq(output, 1 + 1 - 1, 1 + n - 1)
    BY <1>1, <2>1, PieceOfPiece
  <2>3. Len(SubSeq(output, 1, n)) = n - 1 + 1
    BY <1>1, <2>1, Piece
  <2> QED
    BY <1>2, <2>1, <2>2, <2>3 DEF Arrived
<1>5. ASSUME NEW n \in 0..t
      PROVE  /\ SubSeq(output, n + 1, t) = SubSeq(Arrived, n + 1, t)
             /\ Len(SubSeq(output, n + 1, t)) = t - n
  <2>1. /\ 1 \in 1..(Len(output) + 1) /\ t \in (1 - 1)..Len(output)
        /\ n + 1 \in 1..(t - 1 + 2) /\ t \in ((n + 1) - 1)..(t - 1 + 1)
        /\ 1 + (n + 1) - 1 = n + 1 /\ 1 + t - 1 = t /\ t - (n + 1) + 1 = t - n
        /\ n + 1 \in 1..(Len(output) + 1) /\ t \in ((n + 1) - 1)..Len(output)
    BY <1>1, <1>2
  <2>2. SubSeq(SubSeq(output, 1, t), n + 1, t) = SubSeq(output, 1 + (n + 1) - 1, 1 + t - 1)
    BY <1>1, <2>1, PieceOfPiece
  <2>3. Len(SubSeq(output, n + 1, t)) = t - (n + 1) + 1
    BY <1>1, <2>1, Piece
  <2> QED
    BY <1>2, <2>1, <2>2, <2>3 DEF Arrived
<1>6. ASSUME NEW limit \in Nat, NEW n \in Nat, n = IF total <= limit THEN total ELSE limit
      PROVE  n \in 0..t
  BY <1>2, <1>6
<1> QED
  BY <1>2, <1>3, <1>4, <1>5, <1>6

LEMMA IInvImpliesInv == IInv => Inv
<1> SUFFICES ASSUME IInv PROVE Inv
  OBVIOUS
<1>1. /\ limits \in Cases /\ output \in limits.outputs /\ total \in 0..Len(output)
      /\ maximumBytes \in Nat /\ persistedMaximumBytes \in Nat
      /\ capture \in {"head", "head_tail"} /\ output \in Seq(Bytes) /\ Len(output) \in Nat
  BY LimitsTyped DEF IInv
<1>2. PICK n \in Nat, p \in Nat, d \in 0..total :
        /\ n = Min({total, maximumBytes}) /\ n = IF total <= maximumBytes THEN total ELSE maximumBytes
        /\ p = Min({total, persistedMaximumBytes})
        /\ p = IF total <= persistedMaximumBytes THEN total ELSE persistedMaximumBytes
        /\ d = Dropped /\ d = IF total <= maximumBytes THEN 0 ELSE total - maximumBytes
  <2>1. PICK t \in Nat, m \in Nat, q \in Nat :
          t = total /\ m = maximumBytes /\ q = persistedMaximumBytes
    BY <1>1
  <2>2. /\ Min({t, m}) = IF t <= m THEN t ELSE m
        /\ Min({t, q}) = IF t <= q THEN t ELSE q
    BY MinOfTwo
  <2>3. Max({0, t - m}) = IF t <= m THEN 0 ELSE t - m
    <3>1. t - m \in Int /\ 0 \in Int /\ (0 <= t - m <=> m <= t)
      OBVIOUS
    <3>2. Max({0, t - m}) = IF 0 <= t - m THEN t - m ELSE 0
      BY <3>1, MaxOfTwo
    <3> QED
      BY <3>1, <3>2
  <2>4. /\ (IF t <= m THEN t ELSE m) \in Nat /\ (IF t <= q THEN t ELSE q) \in Nat
        /\ (IF t <= m THEN 0 ELSE t - m) \in 0..t
    OBVIOUS
  <2> QED
    BY <2>1, <2>2, <2>3, <2>4 DEF Dropped
<1>3. PICK t \in Nat : t = total
  BY <1>1
<1>4. /\ head = SubSeq(Arrived, 1, n) /\ Len(head) = n
      /\ persisted = SubSeq(Arrived, 1, p) /\ Len(persisted) = p
      /\ Arrived \in Seq(Bytes) /\ Len(Arrived) = t
  <2>1. head = SubSeq(output, 1, n) /\ persisted = SubSeq(output, 1, p)
    BY <1>2 DEF IInv
  <2>2. /\ SubSeq(output, 1, n) = SubSeq(Arrived, 1, n) /\ Len(SubSeq(output, 1, n)) = n
        /\ SubSeq(output, 1, p) = SubSeq(Arrived, 1, p) /\ Len(SubSeq(output, 1, p)) = p
    BY <1>1, <1>2, KeptOfArrived
  <2> QED
    BY <1>3, <2>1, <2>2, KeptOfArrived
<1>5. tail \in Seq(Seq(Bytes)) /\ NonEmpty(tail)
  BY DEF IInv
<1>6. capture = "head_tail" =>
        /\ FlattenSeq(tail) = SubSeq(Arrived, d + 1, t) /\ Len(FlattenSeq(tail)) = t - d
  <2> SUFFICES ASSUME capture = "head_tail"
               PROVE  /\ FlattenSeq(tail) = SubSeq(Arrived, d + 1, t)
                      /\ Len(FlattenSeq(tail)) = t - d
    OBVIOUS
  <2>1. FlattenSeq(tail) = SubSeq(output, d + 1, total)
    BY <1>2 DEF IInv
  <2>2. /\ SubSeq(output, d + 1, total) = SubSeq(Arrived, d + 1, total)
        /\ Len(SubSeq(output, d + 1, total)) = total - d
    BY <1>2, KeptOfArrived
  <2> QED
    BY <1>3, <2>1, <2>2
<1>7. TailBytes(tail) <= maximumBytes
  <2>1. TailBytes(tail) = Len(FlattenSeq(tail))
    <3>1. PICK l \in Nat : l = Len(tail)
      BY <1>5, LenProperties
    <3>2. l \in 0..Len(tail) /\ SubSeq(tail, 1, Len(tail)) = tail
      BY <1>5, <3>1, SubSeqFull
    <3>3. BytesUpTo(tail, l) = Len(FlattenSeq(SubSeq(tail, 1, l)))
      BY <1>5, <3>2, BytesUpToIs
    <3> QED
      BY <3>1, <3>2, <3>3 DEF TailBytes
  <2>2. CASE capture = "head_tail"
    <3>1. t - d <= maximumBytes
      BY <1>1, <1>2, <1>3
    <3> QED
      BY <1>6, <2>1, <2>2, <3>1
  <2>3. CASE capture = "head"
    <3>1. tail = <<>> /\ Len(<<>>) = 0
      BY <2>3 DEF IInv
    <3> QED
      BY <1>1, <2>1, <3>1, FlattenEmpty
  <2> QED
    BY <1>1, <2>2, <2>3
<1>8. TypeOK
  <2>1. output \in Outputs
    BY <1>1 DEF Outputs
  <2>2. n <= maximumBytes /\ p <= persistedMaximumBytes
    BY <1>1, <1>2
  <2> QED
    BY <1>1, <1>4, <1>5, <1>7, <2>1, <2>2 DEF TypeOK, NonEmpty
<1>9. EndsOfStreamKept
  <2>1. head = SubSeq(Arrived, 1, Min({total, maximumBytes}))
    BY <1>2, <1>4
  <2>2. capture = "head_tail" =>
          FlattenSeq(tail) = SubSeq(Arrived, Max({0, total - maximumBytes}) + 1, total)
    BY <1>2, <1>3, <1>6 DEF Dropped
  <2> QED
    BY <2>1, <2>2 DEF EndsOfStreamKept
<1>10. ArtifactIsWholeOrFlagged
  <2> SUFFICES ASSUME NEW r \in ToSet(captured), r.persisted.kept
               PROVE  /\ IsPrefix(persisted, Arrived)
                      /\ r.persisted.truncated <=> persisted # Arrived
                      /\ r.persisted.truncated \/ r.persisted.text = Decode(Arrived)
    BY DEF ArtifactIsWholeOrFlagged
  <2>1. r = Answer
    <3>1. PICK i \in DOMAIN captured : r = captured[i]
      BY DEF ToSet
    <3>2. captured # <<>>
      BY <3>1
    <3>3. captured = <<Answer>>
      BY <3>2 DEF IInv
    <3> QED
      BY <3>1, <3>3
  <2>2. r.persisted = PersistedResult
    BY <2>1 DEF Answer, HeadTailResult, HeadResult
  <2>3. /\ r.persisted.truncated = PersistedTruncated
        /\ r.persisted.text = Decode(persisted)
    <3>1. PersistedResult.kept
      BY <2>2
    <3>2. ~(persistedMaximumBytes = 0 \/ total <= maximumBytes)
      BY <3>1 DEF PersistedResult
    <3>3. PersistedResult = [kept |-> TRUE, text |-> Decode(persisted),
                             truncated |-> PersistedTruncated]
      BY <3>2, Zenon DEF PersistedResult
    <3> QED
      BY <2>2, <3>3
  <2>4. IsPrefix(persisted, Arrived)
    <3>1. p <= t
      BY <1>2, <1>3, <1>1
    <3>2. SubSeq(persisted, 1, Len(persisted)) = persisted
      <4>1. 1 \in 1..(Len(Arrived) + 1) /\ p \in (1 - 1)..Len(Arrived)
        BY <1>4, <3>1
      <4>2. persisted \in Seq(Bytes)
        BY <1>4, <4>1, Piece
      <4> QED
        BY <4>2, SubSeqFull
    <3> QED
      BY <1>4, <3>1, <3>2 DEF IsPrefix
  <2>5. PersistedTruncated <=> persisted # Arrived
    <3>1. CASE total <= persistedMaximumBytes
      <4>1. p = t /\ SubSeq(Arrived, 1, Len(Arrived)) = Arrived
        BY <1>2, <1>3, <1>4, <3>1, SubSeqFull
      <4> QED
        BY <1>1, <1>4, <3>1, <4>1 DEF PersistedTruncated
    <3>2. CASE ~(total <= persistedMaximumBytes)
      <4>1. p # t
        BY <1>1, <1>2, <1>3, <3>2
      <4> QED
        BY <1>1, <1>4, <3>2, <4>1 DEF PersistedTruncated
    <3> QED
      BY <3>1, <3>2
  <2>6. PersistedTruncated \in BOOLEAN
    BY DEF PersistedTruncated
  <2> QED
    BY <2>3, <2>4, <2>5, <2>6
<1> QED
  BY <1>8, <1>9, <1>10 DEF Inv

\* No buffer exceeds its limit; head and tail are the two ends of the stream,
\* byte for byte; an artifact is the whole stream or says that it is not.
THEOREM InvHolds == Spec => []Inv
BY InvariantHolds, IInvImpliesInv, PTL

-----------------------------------------------------------------------------
(***************************************************************************)
(* Decoding, and the room that a text takes.                               *)
(***************************************************************************)
Characters == {"a", "three", "four", "U+FFFD"}

LEMMA WidthIs ==
  /\ DOMAIN Width = Characters /\ \A c \in Characters : Width[c] \in Nat
  /\ Width["a"] = 1
<1>1. DOMAIN Width = Characters
  BY DEF Width, Encoding, Characters
<1>2. Width["a"] = 1 /\ Width["three"] = 3 /\ Width["four"] = 4 /\ Width["U+FFFD"] = 3
  BY DEF Width, Encoding
<1> QED
  BY <1>1, <1>2 DEF Characters

LEMMA EncodingIs ==
  /\ DOMAIN Encoding = {"a", "three", "four"}
  /\ Encoding["a"] = <<"a">>
  /\ Encoding["three"] = <<"t1", "t2", "t3">>
  /\ Encoding["four"] = <<"f1", "f2", "f3", "f4">>
  /\ \A c \in DOMAIN Encoding : Encoding[c] # <<>>
BY DEF Encoding

\* The characters that the bytes from i on encode: one or none.
Here(s, i) == {c \in DOMAIN Encoding : Encoding[c] = SubSeq(s, i, i + Begun(s, i) - 1)}

\* The character that decoding finds at i, and how many bytes it uses up.
Char(s, i) == IF Here(s, i) = {} THEN "U+FFFD" ELSE CHOOSE c \in Here(s, i) : TRUE
Step(s, i) == IF Here(s, i) = {} THEN Max({1, Begun(s, i)}) ELSE Begun(s, i)

\* The n bytes from i on begin a character.
Begins(s, i, n) ==
    /\ i + n - 1 <= Len(s)
    /\ \E c \in DOMAIN Encoding : IsPrefix(SubSeq(s, i, i + n - 1), Encoding[c])

LEMMA BegunIs ==
  ASSUME NEW s \in Seq(Bytes), NEW i \in 1..Len(s)
  PROVE  /\ Begun(s, i) \in 0..4 /\ i + Begun(s, i) - 1 <= Len(s)
         /\ Begun(s, i) # 0 => Begins(s, i, Begun(s, i))
         /\ \A n \in 1..4 : Begins(s, i, n) => n <= Begun(s, i)
<1> DEFINE T == {0} \cup {n \in 1 .. 4 : Begins(s, i, n)}
<1>1. PICK l \in Nat : l = Len(s)
  BY LenProperties
<1>2. T \in SUBSET (0..4) /\ T # {}
  OBVIOUS
<1>3. Begun(s, i) = Max(T)
  BY DEF Begun, Begins
<1>4. Max(T) \in T /\ \A t \in T : t <= Max(T)
  <2> HIDE DEF T
  <2> QED
    BY <1>2, GreatestNumber
<1>5. i + 0 - 1 <= Len(s)
  BY <1>1
<1>6. Max(T) # 0 => i + Max(T) - 1 <= Len(s)
  BY <1>4 DEF Begins
<1> HIDE DEF T
<1>7. /\ Max(T) \in 0..4 /\ i + Max(T) - 1 <= Len(s)
      /\ Max(T) # 0 => Begins(s, i, Max(T))
      /\ \A n \in 1..4 : Begins(s, i, n) => n <= Max(T)
  BY <1>4, <1>5, <1>6 DEF T
<1> QED
  BY <1>3, <1>7

LEMMA StepIs ==
  ASSUME NEW s \in Seq(Bytes), NEW i \in 1..Len(s)
  PROVE  Step(s, i) \in 1..(Len(s) + 1 - i) /\ Char(s, i) \in Characters
<1>1. PICK l \in Nat : l = Len(s)
  BY LenProperties
<1>2. PICK n \in 0..4 : n = Begun(s, i) /\ i + n - 1 <= l
  BY <1>1, BegunIs
<1>3. CASE Here(s, i) = {}
  <2>1. Step(s, i) = IF 1 <= n THEN n ELSE 1
    BY <1>2, <1>3, MaxOfTwo DEF Step
  <2> QED
    BY <1>1, <1>2, <1>3, <2>1 DEF Char, Characters
<1>4. CASE Here(s, i) # {}
  <2>1. n # 0
    <3>1. SUFFICES ASSUME n = 0 PROVE FALSE
      OBVIOUS
    <3>2. SubSeq(s, i, i + n - 1) = <<>>
      <4>1. i + n - 1 = i - 1 /\ i - 1 < i
        BY <3>1
      <4> QED
        BY <1>1, <4>1, SubSeqEmpty
    <3> QED
      BY <1>2, <1>4, <3>2, EncodingIs DEF Here
  <2>2. Step(s, i) = n
    BY <1>2, <1>4 DEF Step
  <2>3. Char(s, i) \in DOMAIN Encoding
    BY <1>4 DEF Char, Here
  <2> QED
    BY <1>1, <1>2, <2>1, <2>2, <2>3, EncodingIs DEF Characters
<1> QED
  BY <1>3, <1>4

\* f[i] is the text of the bytes from i on.
Decodes(s, f) ==
    f = [i \in 1..(Len(s) + 1) |->
           IF i > Len(s) THEN <<>> ELSE <<Char(s, i)>> \o f[i + Step(s, i)]]

LEMMA DecodesExists ==
  ASSUME NEW s \in Seq(Bytes)
  PROVE  \E f : Decodes(s, f)
<1>1. PICK l \in Nat : l = Len(s)
  BY LenProperties
<1> DEFINE Upon(m, f) == f = [i \in m..(l + 1) |->
                            IF i > l THEN <<>> ELSE <<Char(s, i)>> \o f[i + Step(s, i)]]
           T == {k \in Nat : k <= l => \E f : Upon(l + 1 - k, f)}
<1>2. 0 \in T
  <2> DEFINE e == [i \in (l + 1)..(l + 1) |-> <<>>]
  <2>1. Upon(l + 1 - 0, e)
    <3>1. l + 1 - 0 = l + 1 /\ \A i \in (l + 1)..(l + 1) : i > l
      OBVIOUS
    <3>2. e = [i \in (l + 1)..(l + 1) |->
                 IF i > l THEN <<>> ELSE <<Char(s, i)>> \o e[i + Step(s, i)]]
      BY <3>1
    <3> HIDE DEF e
    <3> QED
      BY <3>1, <3>2
  <2> QED
    BY <2>1
<1>3. ASSUME NEW k \in Nat, k \in T PROVE k + 1 \in T
  <2> SUFFICES ASSUME k + 1 <= l PROVE \E f : Upon(l + 1 - (k + 1), f)
    OBVIOUS
  <2>1. PICK m \in 1..l : m = l + 1 - (k + 1) /\ m + 1 = l + 1 - k
    OBVIOUS
  <2>2. PICK f : Upon(m + 1, f)
    BY <1>3, <2>1
  <2> DEFINE g == [i \in m..(l + 1) |->
                     IF i = m THEN <<Char(s, i)>> \o f[i + Step(s, i)] ELSE f[i]]
  <2>3. ASSUME NEW i \in m..(l + 1)
        PROVE  g[i] = IF i > l THEN <<>> ELSE <<Char(s, i)>> \o g[i + Step(s, i)]
    <3>1. i <= l => i + Step(s, i) \in (m + 1)..(l + 1) /\ i + Step(s, i) # m
      <4>1. i <= l => Step(s, i) \in 1..(l + 1 - i)
        BY <1>1, <2>1, StepIs
      <4> QED
        BY <4>1
    <3>2. i <= l => g[i + Step(s, i)] = f[i + Step(s, i)]
      BY <3>1
    <3>3. CASE i = m
      <4>1. i <= l /\ g[i] = <<Char(s, i)>> \o f[i + Step(s, i)]
        BY <3>3
      <4> HIDE DEF g
      <4> QED
        BY <3>2, <4>1
    <3>4. CASE i # m
      <4>1. i \in (m + 1)..(l + 1) /\ g[i] = f[i]
        BY <3>4
      <4> HIDE DEF g
      <4>2. f[i] = IF i > l THEN <<>> ELSE <<Char(s, i)>> \o f[i + Step(s, i)]
        BY <2>2, <4>1
      <4> QED
        BY <3>2, <4>1, <4>2
    <3> QED
      BY <3>3, <3>4
  <2>4. g = [i \in m..(l + 1) |-> g[i]]
    OBVIOUS
  <2> HIDE DEF g
  <2>5. Upon(m, g)
    BY <2>3, <2>4
  <2> QED
    BY <2>1, <2>5
<1>4. \A k \in Nat : k \in T
  <2> HIDE DEF T
  <2> QED
    BY <1>2, <1>3, Induction
<1>5. PICK f : Upon(1, f)
  <2>1. l \in T /\ l + 1 - l = 1
    BY <1>4
  <2> QED
    BY <2>1
<1> QED
  BY <1>1, <1>5 DEF Decodes

LEMMA DecodeIs ==
  ASSUME NEW s \in Seq(Bytes)
  PROVE  \E f : Decodes(s, f) /\ Decode(s) = f[1]
<1> DEFINE AsWritten(f) ==
             f = [i \in 1 .. Len(s) + 1 |->
                    IF i > Len(s) THEN <<>>
                    ELSE LET n == Begun(s, i)
                             here == {c \in DOMAIN Encoding :
                                         Encoding[c] = SubSeq(s, i, i + n - 1)}
                         IN  IF here = {} THEN <<"U+FFFD">> \o f[i + Max({1, n})]
                             ELSE <<CHOOSE c \in here : TRUE>> \o f[i + n]]
           g == CHOOSE f : AsWritten(f)
<1>1. Decode(s) = g[1]
  BY DEF Decode
<1>2. ASSUME NEW f PROVE AsWritten(f) <=> Decodes(s, f)
  BY DEF Decodes, Char, Step, Here
<1> HIDE DEF AsWritten
<1>3. AsWritten(g)
  BY <1>2, DecodesExists
<1> QED
  BY <1>1, <1>2, <1>3

LEMMA DecodeTyped ==
  ASSUME NEW s \in Seq(Bytes)
  PROVE  Decode(s) \in Seq(Characters)
<1>1. PICK f : Decodes(s, f) /\ Decode(s) = f[1]
  BY DecodeIs
<1>2. PICK l \in Nat : l = Len(s)
  BY LenProperties
<1> DEFINE T == {k \in Nat : k <= l => \A j \in (l + 1 - k)..(l + 1) : f[j] \in Seq(Characters)}
<1>3. 0 \in T
  <2>1. ASSUME NEW j \in (l + 1 - 0)..(l + 1) PROVE f[j] \in Seq(Characters)
    <3>1. j \in 1..(Len(s) + 1) /\ j > Len(s)
      BY <1>2
    <3>2. f[j] = <<>>
      BY <1>1, <3>1 DEF Decodes
    <3> QED
      BY <3>2, EmptySeq
  <2> QED
    BY <2>1
<1>4. ASSUME NEW k \in Nat, k \in T PROVE k + 1 \in T
  <2> SUFFICES ASSUME k + 1 <= l, NEW j \in (l + 1 - (k + 1))..(l + 1)
               PROVE  f[j] \in Seq(Characters)
    OBVIOUS
  <2>1. CASE j \in (l + 1 - k)..(l + 1)
    BY <1>4, <2>1
  <2>2. CASE j = l - k
    <3>1. j \in 1..Len(s) /\ j \in 1..(Len(s) + 1) /\ ~(j > Len(s))
      BY <1>2, <2>2
    <3>2. Step(s, j) \in 1..(l + 1 - j) /\ Char(s, j) \in Characters
      BY <1>2, <3>1, StepIs
    <3>3. j + Step(s, j) \in (l + 1 - k)..(l + 1)
      BY <2>2, <3>2
    <3>4. f[j + Step(s, j)] \in Seq(Characters)
      BY <1>4, <3>3
    <3>5. f[j] = <<Char(s, j)>> \o f[j + Step(s, j)]
      BY <1>1, <3>1 DEF Decodes
    <3>6. <<Char(s, j)>> \in Seq(Characters)
      BY <3>2
    <3> QED
      BY <3>4, <3>5, <3>6, ConcatProperties
  <2> QED
    BY <2>1, <2>2
<1>5. \A k \in Nat : k \in T
  <2> HIDE DEF T
  <2> QED
    BY <1>3, <1>4, Induction
<1>6. CASE l = 0
  <2>1. 0 \in T /\ 1 \in (l + 1 - 0)..(l + 1) /\ 0 <= l
    BY <1>5, <1>6
  <2> QED
    BY <1>1, <2>1
<1>7. CASE l # 0
  <2>1. l \in T /\ 1 \in (l + 1 - l)..(l + 1) /\ l <= l
    BY <1>5
  <2> QED
    BY <1>1, <2>1
<1> QED
  BY <1>6, <1>7

LEMMA DecodeEmpty == Decode(<<>>) = <<>>
<1>1. <<>> \in Seq(Bytes) /\ Len(<<>>) = 0 /\ 1 \in 1..(Len(<<>>) + 1)
  OBVIOUS
<1>2. PICK f : Decodes(<<>>, f) /\ Decode(<<>>) = f[1]
  BY <1>1, DecodeIs
<1> QED
  BY <1>1, <1>2 DEF Decodes


\* f[n] is the room the first n characters take.
Measures(text, f) ==
    f = [i \in 0..Len(text) |-> IF i = 0 THEN 0 ELSE f[i - 1] + Width[text[i]]]

LEMMA ByteLengthIs ==
  ASSUME NEW text \in Seq(Characters)
  PROVE  \E f : /\ Measures(text, f) /\ ByteLength(text) = f[Len(text)]
                /\ \A i \in 0..Len(text) : f[i] \in Nat
<1>1. PICK l \in Nat : l = Len(text)
  BY LenProperties
<1>2. \A i \in 1..l : Width[text[i]] \in Nat
  <2>1. \A i \in 1..l : text[i] \in Characters
    BY <1>1, ElementOfSeq
  <2> QED
    BY <2>1, WidthIs
<1> DEFINE UpTo(n, f) == f = [i \in 0..n |->
                            IF i = 0 THEN 0 ELSE f[i - 1] + Width[text[i]]]
           T == {k \in Nat : \E f : UpTo(k, f)}
<1>3. 0 \in T
  <2> DEFINE e == [i \in 0..0 |-> 0]
  <2>1. e = [i \in 0..0 |-> IF i = 0 THEN 0 ELSE e[i - 1] + Width[text[i]]]
    OBVIOUS
  <2> HIDE DEF e
  <2>2. UpTo(0, e)
    BY <2>1
  <2> QED
    BY <2>2
<1>4. ASSUME NEW k \in Nat, k \in T PROVE k + 1 \in T
  <2>1. PICK f : UpTo(k, f)
    BY <1>4
  <2> DEFINE g == [i \in 0..(k + 1) |->
                     IF i = k + 1 THEN f[k] + Width[text[k + 1]] ELSE f[i]]
  <2>2. ASSUME NEW i \in 0..(k + 1)
        PROVE  g[i] = IF i = 0 THEN 0 ELSE g[i - 1] + Width[text[i]]
    <3>1. CASE i = k + 1
      <4>1. i # 0 /\ i - 1 = k /\ k \in 0..(k + 1) /\ k # k + 1
        BY <3>1
      <4>2. g[i] = f[k] + Width[text[k + 1]] /\ g[k] = f[k]
        BY <3>1, <4>1
      <4> HIDE DEF g
      <4> QED
        BY <3>1, <4>1, <4>2
    <3>2. CASE i \in 0..k
      <4>1. g[i] = f[i] /\ (i # 0 => g[i - 1] = f[i - 1])
        BY <3>2
      <4> HIDE DEF g
      <4>2. f[i] = IF i = 0 THEN 0 ELSE f[i - 1] + Width[text[i]]
        BY <2>1, <3>2
      <4> QED
        BY <4>1, <4>2
    <3> QED
      BY <3>1, <3>2
  <2>3. g = [i \in 0..(k + 1) |-> g[i]]
    OBVIOUS
  <2> HIDE DEF g
  <2>4. UpTo(k + 1, g)
    BY <2>2, <2>3
  <2> QED
    BY <2>4
<1>5. \A k \in Nat : k \in T
  <2> HIDE DEF T
  <2> QED
    BY <1>3, <1>4, Induction
<1>6. \E f : Measures(text, f)
  BY <1>1, <1>5 DEF Measures
<1> DEFINE f == CHOOSE f : Measures(text, f)
<1>7. ByteLength(text) = f[Len(text)]
  BY DEF ByteLength, Measures
<1>8. Measures(text, f)
  BY <1>6
<1> HIDE DEF f
<1>9. \A k \in Nat : k <= l => f[k] \in Nat
  <2> DEFINE U == {k \in Nat : k <= l => f[k] \in Nat}
  <2>1. 0 \in U
    <3>1. 0 \in 0..Len(text)
      BY <1>1
    <3> QED
      BY <1>8, <3>1 DEF Measures
  <2>2. ASSUME NEW k \in Nat, k \in U PROVE k + 1 \in U
    <3> SUFFICES ASSUME k + 1 <= l PROVE f[k + 1] \in Nat
      OBVIOUS
    <3>1. k <= l /\ k + 1 \in 0..Len(text) /\ k + 1 \in 1..l /\ k + 1 # 0 /\ (k + 1) - 1 = k
      BY <1>1
    <3>2. f[k + 1] = f[(k + 1) - 1] + Width[text[k + 1]]
      BY <1>8, <3>1 DEF Measures
    <3> QED
      BY <1>2, <2>2, <3>1, <3>2
  <2>3. \A k \in Nat : k \in U
    <3> HIDE DEF U
    <3> QED
      BY <2>1, <2>2, Induction
  <2> QED
    BY <2>3
<1>10. \A i \in 0..Len(text) : f[i] \in Nat
  BY <1>1, <1>9
<1> QED
  BY <1>7, <1>8, <1>10

LEMMA ByteLengthTyped ==
  ASSUME NEW text \in Seq(Characters)
  PROVE  ByteLength(text) \in Nat
<1>1. PICK l \in Nat : l = Len(text)
  BY LenProperties
<1>2. l \in 0..Len(text)
  BY <1>1
<1> QED
  BY <1>1, <1>2, ByteLengthIs

LEMMA ByteLengthEmpty == ByteLength(<<>>) = 0
<1>1. <<>> \in Seq(Characters) /\ Len(<<>>) = 0 /\ 0 \in 0..Len(<<>>)
  OBVIOUS
<1>2. PICK f : Measures(<<>>, f) /\ ByteLength(<<>>) = f[Len(<<>>)]
  BY <1>1, ByteLengthIs
<1> QED
  BY <1>1, <1>2 DEF Measures

\* A text of one-byte characters takes one byte for each.
LEMMA ByteLengthOnes ==
  ASSUME NEW text \in Seq({"a"})
  PROVE  ByteLength(text) = Len(text)
<1>1. PICK l \in Nat : l = Len(text)
  BY LenProperties
<1>2. \A i \in 1..l : Width[text[i]] = 1
  BY <1>1, ElementOfSeq, WidthIs
<1>3. text \in Seq(Characters)
  <2>1. {"a"} \subseteq Characters
    BY DEF Characters
  <2> QED
    BY <2>1
<1>4. PICK f : Measures(text, f) /\ ByteLength(text) = f[Len(text)]
  BY <1>3, ByteLengthIs
<1> DEFINE U == {k \in Nat : k <= l => f[k] = k}
<1>5. 0 \in U
  <2>1. 0 \in 0..Len(text)
    BY <1>1
  <2> QED
    BY <1>4, <2>1 DEF Measures
<1>6. ASSUME NEW k \in Nat, k \in U PROVE k + 1 \in U
  <2> SUFFICES ASSUME k + 1 <= l PROVE f[k + 1] = k + 1
    OBVIOUS
  <2>1. k <= l /\ k + 1 \in 0..Len(text) /\ k + 1 \in 1..l /\ k + 1 # 0 /\ (k + 1) - 1 = k
    BY <1>1
  <2>2. f[k + 1] = f[(k + 1) - 1] + Width[text[k + 1]]
    BY <1>4, <2>1 DEF Measures
  <2> QED
    BY <1>2, <1>6, <2>1, <2>2
<1>7. \A k \in Nat : k \in U
  <2> HIDE DEF U
  <2> QED
    BY <1>5, <1>6, Induction
<1> QED
  BY <1>1, <1>4, <1>7

-----------------------------------------------------------------------------
(***************************************************************************)
(* Decimal digits.                                                         *)
(***************************************************************************)
\* f[m] is the number of digits of m, up to n.
Counts(n, f) == f = [m \in 0..n |-> IF m < 10 THEN 1 ELSE 1 + f[m \div 10]]

LEMMA Tenth ==
  ASSUME NEW n \in Nat
  PROVE  /\ n \div 10 \in Nat /\ 10 * (n \div 10) <= n /\ n <= 10 * (n \div 10) + 9
         /\ n >= 10 => n \div 10 \in 0..(n - 1)
OBVIOUS

LEMMA CountsExists ==
  ASSUME NEW n \in Nat
  PROVE  \E f : Counts(n, f)
<1> DEFINE T == {k \in Nat : \E f : Counts(k, f)}
<1>1. 0 \in T
  <2> DEFINE e == [m \in 0..0 |-> 1]
  <2>1. e = [m \in 0..0 |-> IF m < 10 THEN 1 ELSE 1 + e[m \div 10]]
    OBVIOUS
  <2> HIDE DEF e
  <2>2. Counts(0, e)
    BY <2>1 DEF Counts
  <2> QED
    BY <2>2
<1>2. ASSUME NEW k \in Nat, k \in T PROVE k + 1 \in T
  <2>1. PICK f : Counts(k, f)
    BY <1>2
  <2> DEFINE g == [m \in 0..(k + 1) |->
                     IF m = k + 1 THEN IF m < 10 THEN 1 ELSE 1 + f[m \div 10] ELSE f[m]]
  <2>2. ASSUME NEW m \in 0..(k + 1)
        PROVE  g[m] = IF m < 10 THEN 1 ELSE 1 + g[m \div 10]
    <3>1. m >= 10 => g[m \div 10] = f[m \div 10]
      <4>1. m >= 10 => m \div 10 \in 0..(m - 1)
        BY Tenth
      <4>2. ASSUME NEW d \in 0..(m - 1) PROVE g[d] = f[d]
        OBVIOUS
      <4> QED
        BY <4>1, <4>2
    <3>2. CASE m = k + 1
      <4>1. g[m] = IF m < 10 THEN 1 ELSE 1 + f[m \div 10]
        BY <3>2
      <4> HIDE DEF g
      <4> QED
        BY <3>1, <4>1
    <3>3. CASE m \in 0..k
      <4>1. g[m] = f[m]
        BY <3>3
      <4> HIDE DEF g
      <4>2. f[m] = IF m < 10 THEN 1 ELSE 1 + f[m \div 10]
        BY <2>1, <3>3 DEF Counts
      <4> QED
        BY <3>1, <4>1, <4>2
    <3> QED
      BY <3>2, <3>3
  <2>3. g = [m \in 0..(k + 1) |-> g[m]]
    OBVIOUS
  <2> HIDE DEF g
  <2>4. Counts(k + 1, g)
    BY <2>2, <2>3 DEF Counts
  <2> QED
    BY <2>4
<1>3. \A k \in Nat : k \in T
  <2> HIDE DEF T
  <2> QED
    BY <1>1, <1>2, Induction
<1> QED
  BY <1>3

LEMMA CountsAgree ==
  ASSUME NEW n \in Nat, NEW k \in 0..n, NEW f, Counts(n, f), NEW g, Counts(k, g)
  PROVE  \A m \in 0..k : f[m] = g[m]
<1> DEFINE T == {m \in Nat : m <= k => f[m] = g[m]}
<1>1. ASSUME NEW m \in Nat, \A d \in 0..(m - 1) : d \in T PROVE m \in T
  <2> SUFFICES ASSUME m <= k PROVE f[m] = g[m]
    OBVIOUS
  <2>1. m \in 0..n /\ m \in 0..k
    OBVIOUS
  <2>2. /\ f[m] = IF m < 10 THEN 1 ELSE 1 + f[m \div 10]
        /\ g[m] = IF m < 10 THEN 1 ELSE 1 + g[m \div 10]
    BY <2>1 DEF Counts
  <2>3. m >= 10 => f[m \div 10] = g[m \div 10]
    <3>1. m >= 10 => m \div 10 \in 0..(m - 1)
      BY Tenth
    <3>2. ASSUME NEW d \in 0..(m - 1) PROVE f[d] = g[d]
      <4>1. d \in T /\ d <= k
        BY <1>1
      <4> QED
        BY <4>1
    <3> QED
      BY <3>1, <3>2
  <2> QED
    BY <2>2, <2>3
<1>2. \A m \in Nat : m \in T
  <2> HIDE DEF T
  <2> QED
    BY <1>1, StrongInduction
<1> QED
  BY <1>2

LEMMA DigitsIs ==
  ASSUME NEW n \in Nat
  PROVE  Digits(n) = IF n < 10 THEN 1 ELSE 1 + Digits(n \div 10)
<1> DEFINE f(k) == CHOOSE f : Counts(k, f)
<1>1. \A k \in Nat : Digits(k) = f(k)[k] /\ Counts(k, f(k))
  BY CountsExists DEF Digits, Counts
<1> HIDE DEF f
<1>2. n \in 0..n
  OBVIOUS
<1>3. f(n)[n] = IF n < 10 THEN 1 ELSE 1 + f(n)[n \div 10]
  <2>1. Counts(n, f(n))
    BY <1>1
  <2> QED
    BY <1>2, <2>1 DEF Counts
<1>4. ASSUME n >= 10 PROVE f(n)[n \div 10] = Digits(n \div 10)
  <2>1. n \div 10 \in 0..(n - 1)
    BY <1>4, Tenth
  <2>2. PICK d \in 0..(n - 1) : d = n \div 10
    BY <2>1
  <2>3. Counts(n, f(n)) /\ Counts(d, f(d)) /\ d \in 0..n /\ d \in 0..d /\ d \in Nat
    BY <1>1
  <2>4. f(n)[d] = f(d)[d]
    BY <2>3, CountsAgree
  <2> QED
    BY <1>1, <2>2, <2>3, <2>4
<1> QED
  BY <1>1, <1>3, <1>4

LEMMA DigitsTyped ==
  ASSUME NEW n \in Nat
  PROVE  Digits(n) \in Nat \ {0}
<1> DEFINE T == {m \in Nat : Digits(m) \in Nat \ {0}}
<1>1. ASSUME NEW m \in Nat, \A d \in 0..(m - 1) : d \in T PROVE m \in T
  <2>1. m >= 10 => m \div 10 \in 0..(m - 1)
    BY Tenth
  <2>2. m >= 10 => Digits(m \div 10) \in Nat \ {0}
    BY <1>1, <2>1
  <2> QED
    BY <2>2, DigitsIs
<1>2. \A m \in Nat : m \in T
  <2> HIDE DEF T
  <2> QED
    BY <1>1, StrongInduction
<1> QED
  BY <1>2

LEMMA DigitsGrow ==
  ASSUME NEW n \in Nat
  PROVE  \A m \in 0..n : Digits(m) <= Digits(n)
<1> DEFINE T == {k \in Nat : \A m \in 0..k : Digits(m) <= Digits(k)}
<1>1. ASSUME NEW k \in Nat, \A d \in 0..(k - 1) : d \in T PROVE k \in T
  <2> SUFFICES ASSUME NEW m \in 0..k PROVE Digits(m) <= Digits(k)
    OBVIOUS
  <2>1. m \in Nat /\ Digits(k) \in Nat \ {0} /\ Digits(m) \in Nat \ {0}
    BY DigitsTyped
  <2>2. CASE m < 10
    BY <2>1, <2>2, DigitsIs
  <2>3. CASE ~(m < 10)
    <3>1. k \div 10 \in 0..(k - 1) /\ m \div 10 \in 0..(k \div 10) /\ k >= 10
      BY <2>1, <2>3
    <3>2. Digits(m \div 10) <= Digits(k \div 10)
      BY <1>1, <3>1
    <3>3. Digits(m \div 10) \in Nat /\ Digits(k \div 10) \in Nat
      BY <2>1, <3>1, DigitsTyped
    <3>4. Digits(m) = 1 + Digits(m \div 10) /\ Digits(k) = 1 + Digits(k \div 10)
      BY <2>1, <2>3, <3>1, DigitsIs
    <3> QED
      BY <3>2, <3>3, <3>4
  <2> QED
    BY <2>2, <2>3
<1>2. \A k \in Nat : k \in T
  <2> HIDE DEF T
  <2> QED
    BY <1>1, StrongInduction
<1> QED
  BY <1>2

\* Adding as little as a marker adds at most one digit.
LEMMA DigitsStep ==
  ASSUME NEW n \in Nat, NEW c \in Nat, c <= 25 + Digits(n)
  PROVE  Digits(n + c) <= Digits(n) + 1
<1> DEFINE T == {k \in Nat : \A d \in Nat :
                    d <= 25 + Digits(k) => Digits(k + d) <= Digits(k) + 1}
<1>1. ASSUME NEW k \in Nat, \A m \in 0..(k - 1) : m \in T PROVE k \in T
  <2> SUFFICES ASSUME NEW d \in Nat, d <= 25 + Digits(k)
               PROVE  Digits(k + d) <= Digits(k) + 1
    OBVIOUS
  <2>1. CASE k < 10
    <3>1. Digits(k) = 1
      BY <2>1, DigitsIs
    <3>2. (k + d) \div 10 \in Nat /\ (k + d) \div 10 < 10 /\ k + d \in Nat
      BY <2>1, <3>1
    <3>3. Digits((k + d) \div 10) = 1
      BY <3>2, DigitsIs
    <3>4. Digits(k + d) = IF k + d < 10 THEN 1 ELSE 1 + Digits((k + d) \div 10)
      BY <3>2, DigitsIs
    <3> QED
      BY <3>1, <3>3, <3>4
  <2>2. CASE ~(k < 10)
    <3>1. PICK m \in 0..(k - 1) : m = k \div 10
      BY <2>2, Tenth
    <3>2. PICK e \in Nat : e = Digits(m) /\ Digits(k) = 1 + e /\ e # 0
      <4>1. m \in Nat
        OBVIOUS
      <4>2. Digits(m) \in Nat \ {0} /\ Digits(k) = 1 + Digits(m)
        BY <2>2, <3>1, <4>1, DigitsTyped, DigitsIs
      <4> QED
        BY <4>2
    <3>3. PICK x \in Nat : (k + d) \div 10 = m + x /\ x <= 25 + e
      <4>1. PICK q \in Nat : q = (k + d) \div 10 /\ 10 * q <= k + d /\ k + d <= 10 * q + 9
        BY Tenth
      <4>2. 10 * m <= k /\ k <= 10 * m + 9
        BY <3>1, Tenth
      <4>3. m <= q /\ q - m <= 25 + e
        BY <3>2, <4>1, <4>2
      <4>4. q - m \in Nat /\ m + (q - m) = q
        BY <4>3
      <4> QED
        BY <4>1, <4>3, <4>4
    <3>4. Digits(m + x) <= e + 1
      BY <1>1, <3>1, <3>2, <3>3
    <3>5. Digits(k + d) = 1 + Digits(m + x)
      <4>1. k + d \in Nat /\ ~(k + d < 10)
        BY <2>2
      <4> QED
        BY <3>3, <4>1, DigitsIs
    <3>6. Digits(m + x) \in Nat
      BY DigitsTyped
    <3> QED
      BY <3>2, <3>4, <3>5, <3>6
  <2> QED
    BY <2>1, <2>2
<1>2. \A k \in Nat : k \in T
  <2> HIDE DEF T
  <2> QED
    BY <1>1, StrongInduction
<1> QED
  BY <1>2

-----------------------------------------------------------------------------
(***************************************************************************)
(* Decoding within a limit.                                                *)
(***************************************************************************)
\* Every non-empty set of numbers has a least element.
LEMMA LeastIs ==
  ASSUME NEW T \in SUBSET Nat, T # {}
  PROVE  Min(T) \in T /\ \A t \in T : Min(T) <= t
<1>1. PICK t \in T : \A v \in T : t <= v
  BY LeastNumber
<1>2. Min(T) \in T /\ \A v \in T : Min(T) <= v
  BY <1>1 DEF Min
<1> QED
  BY <1>2

LEMMA DecodeWithinFits ==
  ASSUME NEW bytes \in Seq(Bytes), NEW limit \in Nat
  PROVE  /\ DecodeWithin(bytes, limit) \in Seq(Characters)
         /\ ByteLength(DecodeWithin(bytes, limit)) <= limit
<1> DEFINE ends == 0 .. Min({Len(bytes), limit})
           fits == {end \in ends : ByteLength(Decode(SubSeq(bytes, 1, end))) <= limit}
           last == Max(fits)
<1>1. PICK l \in Nat : l = Len(bytes)
  BY LenProperties
<1>2. PICK m \in 0..l : ends = 0..m
  <2>1. PICK m \in 0..l : m = Min({Len(bytes), limit})
    BY <1>1, MinOfTwo
  <2> QED
    BY <2>1
<1> HIDE DEF ends
<1>3. fits \in SUBSET (0..m) /\ 0 \in fits
  <2>1. SubSeq(bytes, 1, 0) = <<>>
    BY SubSeqEmpty
  <2>2. ByteLength(Decode(SubSeq(bytes, 1, 0))) <= limit
    <3>1. Decode(SubSeq(bytes, 1, 0)) = <<>>
      BY <2>1, DecodeEmpty
    <3>2. ByteLength(Decode(SubSeq(bytes, 1, 0))) = 0
      BY <3>1, ByteLengthEmpty
    <3> QED
      BY <3>2
  <2> QED
    BY <1>2, <2>2
<1>4. last \in fits
  <2>1. m \in Nat /\ fits # {}
    BY <1>3
  <2> HIDE DEF fits
  <2> QED
    BY <1>3, <2>1, GreatestNumber
<1>5. DecodeWithin(bytes, limit) = Decode(SubSeq(bytes, 1, last))
  BY DEF DecodeWithin, ends
<1>6. last \in 0..l /\ ByteLength(Decode(SubSeq(bytes, 1, last))) <= limit
  <2>1. last \in 0..m
    BY <1>3, <1>4
  <2> HIDE DEF last
  <2> QED
    BY <1>4, <2>1
<1> HIDE DEF last
<1>7. SubSeq(bytes, 1, last) \in Seq(Bytes)
  <2>1. 1 \in 1..(Len(bytes) + 1) /\ last \in (1 - 1)..Len(bytes)
    BY <1>1, <1>6
  <2> QED
    BY <2>1, Piece
<1> QED
  BY <1>5, <1>6, <1>7, DecodeTyped

LEMMA DecodeTailWithinFits ==
  ASSUME NEW bytes \in Seq(Bytes), NEW limit \in Nat
  PROVE  /\ DecodeTailWithin(bytes, limit) \in Seq(Characters)
         /\ ByteLength(DecodeTailWithin(bytes, limit)) <= limit
<1> DEFINE starts == Max({0, Len(bytes) - limit}) .. Len(bytes)
           fits == {start \in starts : ByteLength(Decode(SubSeq(bytes, start + 1, Len(bytes)))) <= limit}
           first == Min(fits)
<1>1. PICK l \in Nat : l = Len(bytes)
  BY LenProperties
<1>2. PICK m \in 0..l : starts = m..l
  <2>1. l - limit \in Int /\ 0 \in Int
    OBVIOUS
  <2>2. Max({0, l - limit}) = IF 0 <= l - limit THEN l - limit ELSE 0
    BY <2>1, MaxOfTwo
  <2>3. (IF 0 <= l - limit THEN l - limit ELSE 0) \in 0..l
    OBVIOUS
  <2> QED
    BY <1>1, <2>2, <2>3
<1> HIDE DEF starts
<1>3. fits \in SUBSET Nat /\ fits \in SUBSET (0..l) /\ l \in fits
  <2>1. SubSeq(bytes, l + 1, l) = <<>>
    BY SubSeqEmpty
  <2>2. ByteLength(Decode(SubSeq(bytes, l + 1, l))) <= limit
    <3>1. Decode(SubSeq(bytes, l + 1, l)) = <<>>
      BY <2>1, DecodeEmpty
    <3>2. ByteLength(Decode(SubSeq(bytes, l + 1, l))) = 0
      BY <3>1, ByteLengthEmpty
    <3> QED
      BY <3>2
  <2> QED
    BY <1>1, <1>2, <2>2
<1>4. first \in fits
  <2> HIDE DEF fits
  <2> QED
    BY <1>3, LeastIs
<1>5. DecodeTailWithin(bytes, limit)
        = IF limit <= 0 THEN <<>> ELSE Decode(SubSeq(bytes, first + 1, Len(bytes)))
  BY DEF DecodeTailWithin, starts
<1>6. first \in 0..l /\ ByteLength(Decode(SubSeq(bytes, first + 1, Len(bytes)))) <= limit
  <2>1. first \in 0..l
    BY <1>3, <1>4
  <2> HIDE DEF first
  <2> QED
    BY <1>4, <2>1
<1> HIDE DEF first, fits
<1>7. SubSeq(bytes, first + 1, Len(bytes)) \in Seq(Bytes)
  <2>1. first + 1 \in 1..(Len(bytes) + 1) /\ Len(bytes) \in ((first + 1) - 1)..Len(bytes)
    BY <1>1, <1>6
  <2> QED
    BY <2>1, Piece
<1>8. CASE limit <= 0
  BY <1>5, <1>8, ByteLengthEmpty, EmptySeq
<1>9. CASE ~(limit <= 0)
  BY <1>5, <1>6, <1>7, <1>9, DecodeTyped
<1> QED
  BY <1>8, <1>9


-----------------------------------------------------------------------------
(***************************************************************************)
(* One-byte characters.                                                    *)
(***************************************************************************)
LEMMA OnesAreBytes == {"a"} \subseteq Bytes
BY EncodingIs DEF Bytes, ToSet

LEMMA OnesBegin ==
  ASSUME NEW s \in Seq({"a"}), NEW i \in 1..Len(s)
  PROVE  Step(s, i) = 1 /\ Char(s, i) = "a"
<1>0. s \in Seq(Bytes)
  BY OnesAreBytes
<1>1. PICK l \in Nat : l = Len(s)
  BY LenProperties
<1>2. \A j \in 1..l : s[j] = "a"
  BY <1>1, ElementOfSeq
<1>3. SubSeq(s, i, i) = <<"a">>
  <2>1. i \in 1..(Len(s) + 1) /\ i \in (i - 1)..Len(s) /\ i - i + 1 = 1
    BY <1>1
  <2>2. /\ SubSeq(s, i, i) \in Seq({"a"}) /\ Len(SubSeq(s, i, i)) = 1
        /\ SubSeq(s, i, i)[1] = s[i + 1 - 1]
    <3>1. 1 \in 1..(i - i + 1)
      OBVIOUS
    <3> QED
      BY <2>1, <3>1, Piece
  <2>3. /\ <<"a">> \in Seq({"a"}) /\ Len(<<"a">>) = 1 /\ <<"a">>[1] = "a"
        /\ i + 1 - 1 = i
    OBVIOUS
  <2>4. \A j \in 1..1 : SubSeq(s, i, i)[j] = <<"a">>[j]
    BY <1>1, <1>2, <2>2, <2>3
  <2> QED
    BY <2>2, <2>3, <2>4, SeqEqual
<1>4. ASSUME NEW n \in 2..4, Begins(s, i, n) PROVE FALSE
  <2> DEFINE p == SubSeq(s, i, i + n - 1)
             Others == {"t1", "t2", "t3", "f1", "f2", "f3", "f4"}
  <2>1. PICK c \in DOMAIN Encoding : IsPrefix(p, Encoding[c])
    BY <1>4 DEF Begins
  <2>2. p \in Seq({"a"}) /\ Len(p) = n /\ p[1] = "a" /\ p[2] = "a"
    <3>1. /\ i \in 1..(Len(s) + 1) /\ i + n - 1 \in (i - 1)..Len(s)
          /\ (i + n - 1) - i + 1 = n /\ 1 \in 1..n /\ 2 \in 1..n
          /\ i + 1 - 1 \in 1..l /\ i + 2 - 1 \in 1..l
      BY <1>1, <1>4 DEF Begins
    <3>2. /\ p \in Seq({"a"}) /\ Len(p) = n /\ p[1] = s[i + 1 - 1] /\ p[2] = s[i + 2 - 1]
      BY <3>1, Piece
    <3> QED
      BY <1>2, <3>1, <3>2
  <2> HIDE DEF p
  <2>3. n <= Len(Encoding[c]) /\ p = SubSeq(Encoding[c], 1, n)
    <3>1. SubSeq(p, 1, n) = p
      BY <2>2, SubSeqFull
    <3> QED
      BY <2>1, <2>2, <3>1 DEF IsPrefix
  <2>4. c \in {"three", "four"} /\ Encoding[c] \in Seq(Others) /\ Encoding[c][1] # "a"
    <3>1. c \in {"a", "three", "four"}
      BY EncodingIs
    <3>2. CASE c = "a"
      <4>1. Len(Encoding[c]) = 1
        BY <3>2, EncodingIs
      <4> QED
        BY <2>3, <4>1
    <3>3. CASE c = "three"
      <4>1. <<"t1", "t2", "t3">> \in Seq(Others) /\ <<"t1", "t2", "t3">>[1] = "t1"
        OBVIOUS
      <4> QED
        BY <3>3, <4>1, EncodingIs
    <3>4. CASE c = "four"
      <4>1. /\ <<"f1", "f2", "f3", "f4">> \in Seq(Others)
            /\ <<"f1", "f2", "f3", "f4">>[1] = "f1"
        OBVIOUS
      <4> QED
        BY <3>4, <4>1, EncodingIs
    <3> QED
      BY <3>1, <3>2, <3>3, <3>4
  <2>5. p[1] = Encoding[c][1]
    <3>1. PICK e \in Seq(Others) : e = Encoding[c]
      BY <2>4
    <3>2. PICK k \in Nat : k = Len(e) /\ n <= k
      BY <2>3, <3>1, LenProperties
    <3>3. 1 \in 1..(Len(e) + 1) /\ n \in (1 - 1)..Len(e) /\ 1 \in 1..(n - 1 + 1)
      BY <3>2
    <3>4. SubSeq(e, 1, n)[1] = e[1 + 1 - 1]
      BY <3>3, Piece
    <3> QED
      BY <2>3, <3>1, <3>4
  <2> QED
    BY <2>2, <2>4, <2>5
<1>5. Begins(s, i, 1)
  <2>1. i + 1 - 1 = i /\ i <= Len(s)
    BY <1>1
  <2>2. IsPrefix(<<"a">>, Encoding["a"])
    BY EncodingIs DEF IsPrefix
  <2> QED
    BY <1>3, <2>1, <2>2, EncodingIs DEF Begins
<1>6. Begun(s, i) = 1
  <2>1. /\ Begun(s, i) \in 0..4 /\ (Begun(s, i) # 0 => Begins(s, i, Begun(s, i)))
        /\ 1 <= Begun(s, i)
    BY <1>0, <1>5, BegunIs
  <2> QED
    BY <1>4, <2>1
<1>7. Here(s, i) = {"a"}
  <2>1. i + 1 - 1 = i
    OBVIOUS
  <2> QED
    BY <1>3, <1>6, <2>1, EncodingIs DEF Here
<1> QED
  BY <1>6, <1>7 DEF Step, Char

LEMMA DecodeOnes ==
  ASSUME NEW s \in Seq({"a"})
  PROVE  Decode(s) \in Seq({"a"}) /\ Len(Decode(s)) = Len(s)
<1>0. s \in Seq(Bytes)
  BY OnesAreBytes
<1>1. PICK l \in Nat : l = Len(s)
  BY LenProperties
<1>2. PICK f : Decodes(s, f) /\ Decode(s) = f[1]
  BY <1>0, DecodeIs
<1> DEFINE T == {k \in Nat : k <= l => f[l + 1 - k] \in Seq({"a"}) /\ Len(f[l + 1 - k]) = k}
<1>3. 0 \in T
  <2>1. l + 1 - 0 \in 1..(Len(s) + 1) /\ l + 1 - 0 > Len(s)
    BY <1>1
  <2>2. f[l + 1 - 0] = <<>>
    BY <1>2, <2>1 DEF Decodes
  <2>3. <<>> \in Seq({"a"}) /\ Len(<<>>) = 0
    OBVIOUS
  <2>4. f[l + 1 - 0] \in Seq({"a"}) /\ Len(f[l + 1 - 0]) = 0
    BY <2>2, <2>3
  <2> QED
    BY <2>4
<1>4. ASSUME NEW k \in Nat, k \in T PROVE k + 1 \in T
  <2> SUFFICES ASSUME k + 1 <= l
               PROVE  /\ f[l + 1 - (k + 1)] \in Seq({"a"})
                      /\ Len(f[l + 1 - (k + 1)]) = k + 1
    OBVIOUS
  <2>1. PICK j \in 1..l : j = l + 1 - (k + 1) /\ j + 1 = l + 1 - k
    OBVIOUS
  <2>2. j \in 1..Len(s) /\ j \in 1..(Len(s) + 1) /\ ~(j > Len(s))
    BY <1>1
  <2>3. f[j] = <<Char(s, j)>> \o f[j + Step(s, j)]
    BY <1>2, <2>2 DEF Decodes
  <2>4. f[j] = <<"a">> \o f[j + 1]
    BY <2>2, <2>3, OnesBegin
  <2>5. f[j + 1] \in Seq({"a"}) /\ Len(f[j + 1]) = k /\ <<"a">> \in Seq({"a"}) /\ Len(<<"a">>) = 1
    BY <1>4, <2>1
  <2>6. <<"a">> \o f[j + 1] \in Seq({"a"}) /\ Len(<<"a">> \o f[j + 1]) = 1 + k
    BY <2>5, ConcatProperties
  <2> QED
    BY <2>1, <2>4, <2>6
<1>5. \A k \in Nat : k \in T
  <2> HIDE DEF T
  <2> QED
    BY <1>3, <1>4, Induction
<1>6. l \in T /\ l + 1 - l = 1
  BY <1>5
<1> QED
  BY <1>1, <1>2, <1>6

LEMMA DecodeWithinOnes ==
  ASSUME NEW bytes \in Seq({"a"}), NEW limit \in Nat, limit <= Len(bytes)
  PROVE  Len(DecodeWithin(bytes, limit)) = limit
<1> DEFINE ends == 0 .. Min({Len(bytes), limit})
           fits == {end \in ends : ByteLength(Decode(SubSeq(bytes, 1, end))) <= limit}
           last == Max(fits)
<1>1. PICK l \in Nat : l = Len(bytes)
  BY LenProperties
<1>2. ends = 0..limit
  BY <1>1, MinOfTwo
<1> HIDE DEF ends
<1>3. ASSUME NEW n \in 0..limit
      PROVE  /\ Len(Decode(SubSeq(bytes, 1, n))) = n
             /\ ByteLength(Decode(SubSeq(bytes, 1, n))) = n
  <2>1. 1 \in 1..(Len(bytes) + 1) /\ n \in (1 - 1)..Len(bytes) /\ n - 1 + 1 = n
    BY <1>1
  <2>2. SubSeq(bytes, 1, n) \in Seq({"a"}) /\ Len(SubSeq(bytes, 1, n)) = n
    BY <2>1, Piece
  <2> QED
    BY <2>2, DecodeOnes, ByteLengthOnes
<1>4. fits = 0..limit
  <2>1. \A n \in 0..limit : ByteLength(Decode(SubSeq(bytes, 1, n))) <= limit
    BY <1>3
  <2> QED
    BY <1>2, <2>1
<1>5. last = limit
  <2> HIDE DEF fits
  <2>1. fits \in SUBSET (0..limit) /\ limit \in fits
    BY <1>4
  <2>2. last \in fits /\ limit <= last
    BY <2>1, GreatestNumber
  <2> QED
    BY <1>4, <2>2
<1>6. DecodeWithin(bytes, limit) = Decode(SubSeq(bytes, 1, last))
  BY DEF DecodeWithin, ends
<1>7. limit \in 0..limit
  OBVIOUS
<1> QED
  BY <1>3, <1>5, <1>6, <1>7

LEMMA DecodeTailWithinOnes ==
  ASSUME NEW bytes \in Seq({"a"}), NEW limit \in Nat, limit <= Len(bytes)
  PROVE  Len(DecodeTailWithin(bytes, limit)) = limit
<1> DEFINE starts == Max({0, Len(bytes) - limit}) .. Len(bytes)
           fits == {start \in starts :
                      ByteLength(Decode(SubSeq(bytes, start + 1, Len(bytes)))) <= limit}
           first == Min(fits)
<1>1. PICK l \in Nat : l = Len(bytes)
  BY LenProperties
<1>2. PICK m \in 0..l : m = l - limit /\ starts = m..l
  <2>1. l - limit \in Int /\ 0 \in Int /\ 0 <= l - limit /\ l - limit \in 0..l
    BY <1>1
  <2>2. Max({0, l - limit}) = l - limit
    BY <2>1, MaxOfTwo
  <2> QED
    BY <1>1, <2>1, <2>2
<1> HIDE DEF starts
<1>3. ASSUME NEW n \in m..l
      PROVE  /\ Len(Decode(SubSeq(bytes, n + 1, Len(bytes)))) = l - n
             /\ ByteLength(Decode(SubSeq(bytes, n + 1, Len(bytes)))) = l - n
  <2>1. /\ n + 1 \in 1..(Len(bytes) + 1) /\ Len(bytes) \in ((n + 1) - 1)..Len(bytes)
        /\ Len(bytes) - (n + 1) + 1 = l - n
    BY <1>1
  <2>2. /\ SubSeq(bytes, n + 1, Len(bytes)) \in Seq({"a"})
        /\ Len(SubSeq(bytes, n + 1, Len(bytes))) = l - n
    BY <2>1, Piece
  <2> QED
    BY <2>2, DecodeOnes, ByteLengthOnes
<1>4. fits = m..l
  <2>1. \A n \in m..l : ByteLength(Decode(SubSeq(bytes, n + 1, Len(bytes)))) <= limit
    <3>1. \A n \in m..l : l - n <= limit
      BY <1>2
    <3> QED
      BY <1>3, <3>1
  <2> QED
    BY <1>2, <2>1
<1>5. first = m
  <2> HIDE DEF fits
  <2>1. fits \in SUBSET Nat /\ m \in fits
    BY <1>4
  <2>2. first \in fits /\ first <= m
    BY <2>1, LeastIs
  <2> QED
    BY <1>4, <2>2
<1> HIDE DEF fits
<1>6. DecodeTailWithin(bytes, limit)
        = IF limit <= 0 THEN <<>> ELSE Decode(SubSeq(bytes, first + 1, Len(bytes)))
  BY DEF DecodeTailWithin, starts, fits
<1>7. m \in m..l /\ l - m = limit
  BY <1>2
<1> HIDE DEF first
<1>8. CASE limit <= 0
  BY <1>6, <1>8
<1>9. CASE ~(limit <= 0)
  BY <1>3, <1>5, <1>6, <1>7, <1>9
<1> QED
  BY <1>8, <1>9

-----------------------------------------------------------------------------
(***************************************************************************)
(* The marker.                                                             *)
(***************************************************************************)
\* One of the four attempts: the marker for what does not fit beside the last one.
Attempt(marker) == OmissionMarker(Max({0, total - ContentBudget(marker)}))

LEMMA MarkerIs ==
  Marker = Attempt(Attempt(Attempt(Attempt(NoMarker))))
<1> DEFINE m1 == Attempt(NoMarker)
           m2 == Attempt(m1)
           m3 == Attempt(m2)
           m4 == Attempt(m3)
           Tries(f) == f = [attempt \in 0 .. 4 |->
                              IF attempt = 0 THEN NoMarker
                              ELSE OmissionMarker(Max({0, total - ContentBudget(f[attempt - 1])}))]
           w == [attempt \in 0 .. 4 |->
                   IF attempt = 0 THEN NoMarker ELSE IF attempt = 1 THEN m1
                   ELSE IF attempt = 2 THEN m2 ELSE IF attempt = 3 THEN m3 ELSE m4]
           f == CHOOSE f : Tries(f)
<1>1. /\ m1 = Attempt(NoMarker) /\ m2 = Attempt(m1) /\ m3 = Attempt(m2) /\ m4 = Attempt(m3)
  OBVIOUS
<1> HIDE DEF m1, m2, m3, m4
<1>2. /\ w[0] = NoMarker /\ w[1] = m1 /\ w[2] = m2 /\ w[3] = m3 /\ w[4] = m4
  OBVIOUS
<1>3. ASSUME NEW a \in 0..4
      PROVE  w[a] = IF a = 0 THEN NoMarker ELSE Attempt(w[a - 1])
  <2>1. a = 0 \/ a = 1 \/ a = 2 \/ a = 3 \/ a = 4
    OBVIOUS
  <2> HIDE DEF w
  <2> QED
    BY <1>1, <1>2, <2>1
<1>4. w = [attempt \in 0..4 |-> w[attempt]]
  OBVIOUS
<1> HIDE DEF w
<1>5. Tries(w)
  BY <1>3, <1>4 DEF Attempt
<1>6. Marker = f[4]
  BY DEF Marker
<1>7. Tries(f)
  <2> HIDE DEF Tries
  <2> QED
    BY <1>5
<1> HIDE DEF f
<1>8. \A a \in 0..4 : f[a] = IF a = 0 THEN NoMarker ELSE Attempt(f[a - 1])
  BY <1>7 DEF Attempt
<1>9. /\ f[0] = NoMarker /\ f[1] = Attempt(f[0]) /\ f[2] = Attempt(f[1])
      /\ f[3] = Attempt(f[2]) /\ f[4] = Attempt(f[3])
  BY <1>8
<1> QED
  BY <1>6, <1>9

\* How long a marker is that shows a number of d digits.
Size(d) == IF 24 + d <= maximumBytes THEN 24 + d
           ELSE IF 7 + d <= maximumBytes THEN 7 + d ELSE maximumBytes

LEMMA OmissionMarkerIs ==
  ASSUME NEW o \in Nat, maximumBytes \in Nat
  PROVE  /\ OmissionMarker(o).omitted = o
         /\ OmissionMarker(o).size = Size(Digits(o)) /\ Size(Digits(o)) \in 0..maximumBytes
         /\ OmissionMarker(o).counts <=> 7 + Digits(o) <= maximumBytes
<1>1. PICK d \in Nat : d = Digits(o)
  BY DigitsTyped
<1>2. CASE 24 + d <= maximumBytes
  <2>1. OmissionMarker(o) = [omitted |-> o, size |-> 24 + d, counts |-> TRUE]
    BY <1>1, <1>2 DEF OmissionMarker
  <2> QED
    BY <1>1, <1>2, <2>1 DEF Size
<1>3. CASE ~(24 + d <= maximumBytes) /\ 7 + d <= maximumBytes
  <2>1. OmissionMarker(o) = [omitted |-> o, size |-> 7 + d, counts |-> TRUE]
    BY <1>1, <1>3 DEF OmissionMarker
  <2> QED
    BY <1>1, <1>3, <2>1 DEF Size
<1>4. CASE ~(24 + d <= maximumBytes) /\ ~(7 + d <= maximumBytes)
  <2>1. OmissionMarker(o) = [omitted |-> o, size |-> maximumBytes, counts |-> FALSE]
    BY <1>1, <1>4 DEF OmissionMarker
  <2> QED
    BY <1>1, <1>4, <2>1 DEF Size
<1> QED
  BY <1>2, <1>3, <1>4

\* The room beside a marker, and what does not fit into it.
LEMMA Beside ==
  ASSUME maximumBytes \in Nat, total \in Nat, total > maximumBytes,
         NEW marker, marker.size \in 0..maximumBytes
  PROVE  /\ ContentBudget(marker) = maximumBytes - marker.size
         /\ Attempt(marker) = OmissionMarker((total - maximumBytes) + marker.size)
         /\ (total - maximumBytes) + marker.size \in Nat
<1>1. PICK s \in Nat, m \in Nat, t \in Nat :
        s = marker.size /\ m = maximumBytes /\ t = total /\ s <= m /\ m < t
  OBVIOUS
<1>2. Max({0, m - s}) = m - s
  <2>1. m - s \in Int /\ 0 \in Int /\ 0 <= m - s
    BY <1>1
  <2> QED
    BY <2>1, MaxOfTwo
<1>3. ContentBudget(marker) = m - s
  BY <1>1, <1>2 DEF ContentBudget
<1>4. Max({0, t - (m - s)}) = (t - m) + s
  <2>1. t - (m - s) \in Int /\ 0 \in Int /\ 0 <= t - (m - s) /\ t - (m - s) = (t - m) + s
    BY <1>1
  <2> QED
    BY <2>1, MaxOfTwo
<1>5. Attempt(marker) = OmissionMarker((t - m) + s)
  BY <1>1, <1>3, <1>4 DEF Attempt
<1> QED
  BY <1>1, <1>3, <1>5

\* The numbers that the four attempts show.
LEMMA AttemptsAre ==
  ASSUME maximumBytes \in Nat, total \in Nat, total > maximumBytes
  PROVE  \E a \in Nat, b \in Nat, c \in Nat, d \in Nat :
           /\ a = total - maximumBytes /\ b = a + Size(Digits(a))
           /\ c = a + Size(Digits(b)) /\ d = a + Size(Digits(c))
           /\ Marker = OmissionMarker(d)
<1>1. PICK a \in Nat : a = total - maximumBytes
  OBVIOUS
<1>2. \A o \in Nat : /\ Size(Digits(o)) \in 0..maximumBytes
                     /\ OmissionMarker(o).size = Size(Digits(o))
  BY OmissionMarkerIs
<1>3. \A o \in Nat : /\ Attempt(OmissionMarker(o)) = OmissionMarker(a + Size(Digits(o)))
                     /\ a + Size(Digits(o)) \in Nat
  <2>1. ASSUME NEW o \in Nat
        PROVE  /\ Attempt(OmissionMarker(o)) = OmissionMarker(a + Size(Digits(o)))
               /\ a + Size(Digits(o)) \in Nat
    <3>1. OmissionMarker(o).size \in 0..maximumBytes
      BY <1>2
    <3>2. Attempt(OmissionMarker(o))
            = OmissionMarker((total - maximumBytes) + OmissionMarker(o).size)
      BY <3>1, Beside
    <3> QED
      BY <1>1, <1>2, <3>2
  <2> QED
    BY <2>1
<1>4. Attempt(NoMarker) = OmissionMarker(a)
  <2>1. NoMarker.size = 0 /\ NoMarker.size \in 0..maximumBytes
    BY DEF NoMarker
  <2>2. Attempt(NoMarker) = OmissionMarker((total - maximumBytes) + NoMarker.size)
    BY <2>1, Beside
  <2> QED
    BY <1>1, <2>1, <2>2
<1>5. PICK b \in Nat : b = a + Size(Digits(a)) /\ Attempt(OmissionMarker(a)) = OmissionMarker(b)
  BY <1>3
<1>6. PICK c \in Nat : c = a + Size(Digits(b)) /\ Attempt(OmissionMarker(b)) = OmissionMarker(c)
  BY <1>3
<1>7. PICK d \in Nat : d = a + Size(Digits(c)) /\ Attempt(OmissionMarker(c)) = OmissionMarker(d)
  BY <1>3
<1>8. Marker = OmissionMarker(d)
  BY <1>4, <1>5, <1>6, <1>7, MarkerIs
<1> QED
  BY <1>1, <1>5, <1>6, <1>7, <1>8

LEMMA MarkerFits ==
  ASSUME maximumBytes \in Nat, total \in Nat, total > maximumBytes
  PROVE  /\ Marker.size \in 0..maximumBytes
         /\ ContentBudget(Marker) = maximumBytes - Marker.size
<1>1. Marker.size \in 0..maximumBytes
  BY AttemptsAre, OmissionMarkerIs
<1> QED
  BY <1>1, Beside

\* If the marker shows a number, it is the number of bytes that do not fit
\* beside it.
LEMMA MarkerCounts ==
  ASSUME maximumBytes \in Nat, total \in Nat, total > maximumBytes, Marker.counts,
         maximumBytes <= 25 \/ maximumBytes # 24 + Digits(total - maximumBytes)
  PROVE  Marker.omitted + ContentBudget(Marker) = total
<1>1. PICK a \in Nat, b \in Nat, c \in Nat, d \in Nat :
        /\ a = total - maximumBytes /\ b = a + Size(Digits(a))
        /\ c = a + Size(Digits(b)) /\ d = a + Size(Digits(c))
        /\ Marker = OmissionMarker(d)
  BY AttemptsAre
<1>2. PICK ka \in Nat, kb \in Nat, kc \in Nat, kd \in Nat :
        /\ ka = Digits(a) /\ kb = Digits(b) /\ kc = Digits(c) /\ kd = Digits(d)
        /\ ka # 0 /\ kb # 0 /\ kc # 0 /\ kd # 0
  <2>1. \A n \in Nat : Digits(n) \in Nat /\ Digits(n) # 0
    BY DigitsTyped
  <2>2. /\ Digits(a) \in Nat /\ Digits(b) \in Nat /\ Digits(c) \in Nat /\ Digits(d) \in Nat
        /\ Digits(a) # 0 /\ Digits(b) # 0 /\ Digits(c) # 0 /\ Digits(d) # 0
    BY <2>1
  <2> QED
    BY <2>2, Zenon
<1>3. PICK m \in Nat : m = maximumBytes
  OBVIOUS
<1>4. PICK sa \in Nat, sb \in Nat, sc \in Nat :
        sa = Size(ka) /\ sb = Size(kb) /\ sc = Size(kc)
  <2>1. \A n \in Nat : Size(Digits(n)) \in Nat
    BY OmissionMarkerIs
  <2> QED
    BY <1>2, <2>1
<1>5. /\ sa = IF 24 + ka <= m THEN 24 + ka ELSE IF 7 + ka <= m THEN 7 + ka ELSE m
      /\ sb = IF 24 + kb <= m THEN 24 + kb ELSE IF 7 + kb <= m THEN 7 + kb ELSE m
      /\ sc = IF 24 + kc <= m THEN 24 + kc ELSE IF 7 + kc <= m THEN 7 + kc ELSE m
  BY <1>3, <1>4 DEF Size
<1>6. b = a + sa /\ c = a + sb /\ d = a + sc
  BY <1>1, <1>2, <1>4
<1>7. \A x, y \in Nat : x <= y => Digits(x) <= Digits(y)
  BY DigitsGrow
<1>8. \A x \in Nat : x <= 25 + ka => Digits(a + x) <= ka + 1
  BY <1>2, DigitsStep
<1>9. ka <= kb /\ kb <= ka + 1
  <2>1. sa <= 25 + ka
    BY <1>5
  <2> QED
    BY <1>2, <1>6, <1>7, <1>8, <2>1
<1>10. ka <= kc /\ kc <= ka + 1
  <2>1. sb <= 25 + ka
    BY <1>5, <1>9
  <2> QED
    BY <1>2, <1>6, <1>7, <1>8, <2>1
<1>11. ka <= kd /\ kd <= ka + 1
  <2>1. sc <= 25 + ka
    BY <1>5, <1>10
  <2> QED
    BY <1>2, <1>6, <1>7, <1>8, <2>1
<1>12. /\ b <= c => kb <= kc
       /\ c <= d => kc <= kd
       /\ d <= c => kd <= kc
       /\ b <= d => kb <= kd
       /\ b = c => kb = kc
       /\ c = d => kc = kd
  BY <1>2, <1>7
<1>13. \A x \in Nat : x >= 10 => Digits(x) >= 2
  <2>1. ASSUME NEW x \in Nat, x >= 10 PROVE Digits(x) >= 2
    <3>1. x \div 10 \in Nat /\ ~(x < 10)
      BY <2>1
    <3>2. Digits(x \div 10) \in Nat \ {0} /\ Digits(x) = 1 + Digits(x \div 10)
      BY <3>1, DigitsTyped, DigitsIs
    <3> QED
      BY <3>2
  <2> QED
    BY <2>1
<1>14. 7 + kd <= m
  BY <1>1, <1>2, <1>3, OmissionMarkerIs
<1>15. Size(kd) = sc
  <2>1. CASE kd = kc
    BY <1>4, <2>1
  <2>2. CASE m = 24 + ka /\ kd # kc
    <3>1. m <= 25 /\ ka = 1
      BY <1>1, <1>2, <1>3, <2>2
    <3>2. a # 0
      BY <1>1
    <3>3. sa = 25 /\ kb >= 2
      BY <1>2, <1>5, <1>6, <1>13, <2>2, <3>1
    <3>4. kb = 2 /\ sb = 9 /\ c >= 10
      BY <1>5, <1>6, <1>9, <2>2, <3>1, <3>2, <3>3
    <3>5. kc >= 2
      BY <1>2, <1>13, <3>4
    <3>6. kc = 2 /\ sc = 9 /\ d >= 10
      BY <1>5, <1>6, <1>10, <2>2, <3>1, <3>2, <3>5
    <3>7. kd >= 2
      BY <1>2, <1>13, <3>6
    <3> QED
      BY <1>11, <2>2, <3>1, <3>6, <3>7
  <2>3. CASE m # 24 + ka /\ kd # kc
    <3>1. m = 7 + ka \/ m < 7 + ka \/ (8 + ka <= m /\ m < 24 + ka) \/ 25 + ka <= m
      BY <2>3
    <3>2. CASE m <= 7 + ka
      <4>1. sc = m /\ Size(kd) = m
        BY <1>3, <1>5, <1>10, <1>11, <3>2 DEF Size
      <4> QED
        BY <4>1
    <3>3. CASE 8 + ka <= m /\ m < 24 + ka
      <4>1. sa = 7 + ka /\ sb = 7 + kb /\ sc = 7 + kc
        BY <1>5, <1>9, <1>10, <3>3
      <4> QED
        BY <1>6, <1>9, <1>10, <1>11, <1>12, <2>3, <4>1
    <3>4. CASE 25 + ka <= m
      <4>1. sa = 24 + ka /\ sb = 24 + kb /\ sc = 24 + kc
        BY <1>5, <1>9, <1>10, <3>4
      <4> QED
        BY <1>6, <1>9, <1>10, <1>11, <1>12, <2>3, <4>1
    <3> QED
      BY <3>1, <3>2, <3>3, <3>4
  <2> QED
    BY <2>1, <2>2, <2>3
<1>16. Marker.omitted = d /\ Marker.size = sc
  BY <1>1, <1>2, <1>15, OmissionMarkerIs
<1>17. ContentBudget(Marker) = m - sc
  BY <1>3, <1>16, MarkerFits
<1>18. sc <= m
  BY <1>3, <1>16, MarkerFits
<1> QED
  BY <1>1, <1>3, <1>6, <1>16, <1>17, <1>18

-----------------------------------------------------------------------------
(***************************************************************************)
(* What result() returns fits into the limit, and its marker is exact.     *)
(***************************************************************************)
LEMMA TextWithin ==
  ASSUME IInv
  PROVE  ByteLength(Answer.head) + Answer.marker.size + ByteLength(Answer.tail) <= maximumBytes
<1>1. /\ maximumBytes \in Nat /\ output \in Seq(Bytes) /\ total \in Nat
      /\ tail \in Seq(Seq(Bytes))
  <2>1. limits \in Cases /\ output \in limits.outputs /\ total \in 0..Len(output)
        /\ tail \in Seq(Seq(Bytes))
    BY DEF IInv
  <2> QED
    BY <2>1, LimitsTyped
<1>2. PICK m \in Nat : m = maximumBytes
  BY <1>1
<1>3. head \in Seq(Bytes) /\ FlattenSeq(tail) \in Seq(Bytes)
  <2>1. PICK n \in 0..Len(output) : head = SubSeq(output, 1, n)
    <3>1. Min({total, maximumBytes}) \in 0..Len(output)
      <4>1. PICK l \in Nat, t \in Nat : l = Len(output) /\ t = total /\ t <= l
        BY <1>1, LenProperties DEF IInv
      <4>2. Min({t, m}) = IF t <= m THEN t ELSE m
        BY MinOfTwo
      <4>3. Min({t, m}) \in 0..l
        BY <4>1, <4>2
      <4> QED
        BY <1>2, <4>1, <4>3
    <3> QED
      BY <3>1 DEF IInv
  <2>2. 1 \in 1..(Len(output) + 1) /\ n \in (1 - 1)..Len(output)
    BY <1>1, LenProperties
  <2>3. head \in Seq(Bytes)
    BY <1>1, <2>1, <2>2, Piece
  <2> QED
    BY <1>1, <2>3, FlattenTyped
<1>4. CASE total > maximumBytes /\ capture = "head_tail"
  <2> DEFINE budget == ContentBudget(Marker)
             quarter == budget \div 4
             first == DecodeWithin(head, quarter)
             last == DecodeTailWithin(FlattenSeq(tail), budget - quarter)
  <2>1. Answer = HeadTailResult
    BY <1>4 DEF Answer
  <2>2. Answer.head = first /\ Answer.marker = Marker /\ Answer.tail = last
    BY <2>1 DEF HeadTailResult
  <2>3. PICK s \in 0..m : s = Marker.size /\ budget = m - s
    BY <1>1, <1>2, <1>4, MarkerFits
  <2> HIDE DEF budget
  <2>4. PICK p \in Nat, q \in Nat : p = quarter /\ q = budget - quarter /\ p + q = budget
    <3>1. PICK b \in Nat : b = budget
      BY <2>3
    <3>2. b \div 4 \in Nat /\ b - b \div 4 \in Nat /\ b \div 4 + (b - b \div 4) = b
      OBVIOUS
    <3> QED
      BY <3>1, <3>2
  <2> HIDE DEF quarter
  <2>5. first \in Seq(Characters) /\ ByteLength(first) <= quarter
    BY <1>3, <2>4, DecodeWithinFits
  <2>6. last \in Seq(Characters) /\ ByteLength(last) <= budget - quarter
    BY <1>3, <2>4, DecodeTailWithinFits
  <2> HIDE DEF first, last
  <2>7. PICK x \in Nat, y \in Nat : x = ByteLength(first) /\ y = ByteLength(last)
    BY <2>5, <2>6, ByteLengthTyped
  <2>8. x <= p /\ y <= q /\ p + q = m - s
    BY <2>3, <2>4, <2>5, <2>6, <2>7
  <2>9. x + s + y <= m
    BY <2>8
  <2> QED
    BY <1>2, <2>2, <2>3, <2>7, <2>9
<1>5. CASE ~(total > maximumBytes /\ capture = "head_tail")
  <2>1. Answer = HeadResult
    BY <1>5 DEF Answer
  <2>2. /\ Answer.head = DecodeWithin(head, maximumBytes)
        /\ Answer.marker.size = 0 /\ Answer.tail = <<>>
    BY <2>1 DEF HeadResult, NoMarker
  <2>3. /\ DecodeWithin(head, maximumBytes) \in Seq(Characters)
        /\ ByteLength(DecodeWithin(head, maximumBytes)) <= maximumBytes
    BY <1>1, <1>3, DecodeWithinFits
  <2>4. PICK x \in Nat : x = ByteLength(DecodeWithin(head, maximumBytes)) /\ x <= m
    BY <1>2, <2>3, ByteLengthTyped
  <2>5. ByteLength(Answer.head) = x /\ ByteLength(Answer.tail) = 0
    BY <2>2, <2>4, ByteLengthEmpty
  <2> QED
    BY <1>2, <2>2, <2>4, <2>5
<1> QED
  BY <1>4, <1>5

LEMMA MarkerIsExact ==
  ASSUME IInv, Answer.marker.counts, ToSet(Arrived) \subseteq {"a"},
         maximumBytes <= 25 \/ maximumBytes # 24 + Digits(total - maximumBytes)
  PROVE  Answer.marker.omitted + Len(Answer.head) + Len(Answer.tail) = total
<1>1. /\ maximumBytes \in Nat /\ output \in Seq(Bytes) /\ total \in 0..Len(output)
      /\ Len(output) \in Nat
  <2>1. limits \in Cases /\ output \in limits.outputs /\ total \in 0..Len(output)
    BY DEF IInv
  <2> QED
    BY <2>1, LimitsTyped
<1>2. PICK m \in Nat, t \in Nat : m = maximumBytes /\ t = total
  BY <1>1
<1>3. total > maximumBytes /\ capture = "head_tail"
  <2>1. SUFFICES ASSUME ~(total > maximumBytes /\ capture = "head_tail") PROVE FALSE
    OBVIOUS
  <2>2. Answer = HeadResult
    BY <2>1 DEF Answer
  <2> QED
    BY <2>2 DEF HeadResult, NoMarker
<1>4. Arrived \in Seq({"a"}) /\ Len(Arrived) = t
  <2>1. Arrived \in Seq(Bytes) /\ Len(Arrived) = t
    BY <1>2, KeptOfArrived
  <2>2. \A i \in 1..t : Arrived[i] \in {"a"}
    <3>1. DOMAIN Arrived = 1..t
      BY <2>1, LenProperties
    <3> QED
      BY <3>1 DEF ToSet
  <2>3. Arrived = [i \in 1..t |-> Arrived[i]]
    BY <2>1, LenProperties
  <2> QED
    BY <2>1, <2>2, <2>3, IsASeq
<1>5. head \in Seq({"a"}) /\ Len(head) = m
  <2>1. Min({total, maximumBytes}) = m
    BY <1>2, <1>3, MinOfTwo
  <2>2. head = SubSeq(Arrived, 1, m)
    <3>1. head = SubSeq(output, 1, m)
      BY <2>1 DEF IInv
    <3>2. m = IF total <= m THEN total ELSE m
      BY <1>2, <1>3
    <3> QED
      BY <3>1, <3>2, KeptOfArrived
  <2>3. 1 \in 1..(Len(Arrived) + 1) /\ m \in (1 - 1)..Len(Arrived) /\ m - 1 + 1 = m
    BY <1>2, <1>3, <1>4
  <2> QED
    BY <1>4, <2>2, <2>3, Piece
<1>6. FlattenSeq(tail) \in Seq({"a"}) /\ Len(FlattenSeq(tail)) = m
  <2>1. Dropped = t - m /\ t - m \in 0..t
    <3>1. t - m \in Int /\ 0 \in Int /\ 0 <= t - m /\ t - m <= t
      BY <1>2, <1>3
    <3>2. Max({0, t - m}) = t - m
      BY <3>1, MaxOfTwo
    <3> QED
      BY <1>2, <3>1, <3>2 DEF Dropped
  <2>2. FlattenSeq(tail) = SubSeq(output, (t - m) + 1, t)
    BY <1>2, <1>3, <2>1 DEF IInv
  <2>3. SubSeq(output, (t - m) + 1, t) = SubSeq(Arrived, (t - m) + 1, t)
    BY <1>2, <2>1, KeptOfArrived
  <2>4. /\ (t - m) + 1 \in 1..(Len(Arrived) + 1) /\ t \in (((t - m) + 1) - 1)..Len(Arrived)
        /\ t - ((t - m) + 1) + 1 = m
    BY <1>4, <2>1
  <2>5. SubSeq(Arrived, (t - m) + 1, t) \in Seq({"a"}) /\ Len(SubSeq(Arrived, (t - m) + 1, t)) = m
    BY <1>4, <2>4, Piece
  <2> QED
    BY <2>2, <2>3, <2>5
<1> DEFINE budget == ContentBudget(Marker)
           quarter == budget \div 4
<1>7. /\ Answer.marker = Marker /\ Answer.head = DecodeWithin(head, quarter)
      /\ Answer.tail = DecodeTailWithin(FlattenSeq(tail), budget - quarter)
  BY <1>3 DEF Answer, HeadTailResult
<1>8. PICK s \in 0..m : s = Marker.size /\ budget = m - s
  BY <1>1, <1>2, <1>3, MarkerFits
<1>9. Marker.omitted + budget = total
  BY <1>1, <1>3, <1>7, MarkerCounts
<1> HIDE DEF budget
<1>10. /\ quarter \in Nat /\ budget - quarter \in Nat /\ budget \in Nat
       /\ quarter <= m /\ budget - quarter <= m
  BY <1>8
<1> HIDE DEF quarter
<1>11. Len(Answer.head) = quarter /\ Len(Answer.tail) = budget - quarter
  BY <1>5, <1>6, <1>7, <1>10, DecodeWithinOnes, DecodeTailWithinOnes
<1>12. PICK o \in Nat : o = Marker.omitted
  <2>1. Marker.omitted \in Nat
    <3>1. PICK d \in Nat : Marker = OmissionMarker(d)
      BY <1>1, <1>3, AttemptsAre
    <3> QED
      BY <1>1, <3>1, OmissionMarkerIs
  <2> QED
    BY <2>1
<1> QED
  BY <1>2, <1>7, <1>9, <1>10, <1>11, <1>12

LEMMA IInvImpliesTextFits == IInv => TextFits
<1> SUFFICES ASSUME IInv, NEW r \in ToSet(captured)
             PROVE  /\ ByteLength(r.head) + r.marker.size + ByteLength(r.tail) <= maximumBytes
                    /\ /\ r.marker.counts /\ ToSet(Arrived) \subseteq {"a"}
                       /\ maximumBytes <= 25 \/ maximumBytes # 24 + Digits(total - maximumBytes)
                       => r.marker.omitted + Len(r.head) + Len(r.tail) = total
  BY DEF TextFits
<1>1. r = Answer
  <2>1. PICK i \in DOMAIN captured : r = captured[i]
    BY DEF ToSet
  <2>2. captured # <<>>
    BY <2>1
  <2>3. captured = <<Answer>>
    BY <2>2 DEF IInv
  <2> QED
    BY <2>1, <2>3
<1> QED
  BY <1>1, TextWithin, MarkerIsExact

\* The returned text with its marker fits into the limit for every stream, and
\* the marker's number is exact where the property says so.
THEOREM TextAlwaysFits == Spec => []TextFits
BY InvariantHolds, IInvImpliesTextFits, PTL

=============================================================================
