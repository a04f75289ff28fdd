-------------------------- MODULE CommandPolicyProofs --------------------------
(***************************************************************************)
(* Proofs about CommandPolicy, for any names, policies, directories and    *)
(* commands, and for a file system that anyone may change at any moment.   *)
(***************************************************************************)
EXTENDS CommandPolicy, WellFoundedInduction, SequenceTheorems, TLAPS

Phased == phase \in Phases /\ DOMAIN inside = {"cwd", "exe"}

\* What prepare() has established by the time it looks for the executable.
Located == inside.cwd /\ RuleOf(command.name).path # "relative"

IInv ==
    /\ Phased
    /\ phase # "done" => result = "none"
    /\ phase \in {"exe", "exe_stat", "exe_access"} => Located
    /\ result = "prepared" => Located /\ AllowedLocation

-----------------------------------------------------------------------------
(***************************************************************************)
(* Induction over the natural numbers, stated for sets: for what a         *)
(* recursive function computes, and for the least number with a property.  *)
(***************************************************************************)

\* Every non-empty set of natural numbers has a least element.
LEMMA LeastNumber ==
  ASSUME NEW T \in SUBSET Nat, T # {}
  PROVE  \E n \in T : \A m \in T : n <= m
<1> DEFINE R == OpToRel(<, Nat)
<1>1. IsWellFoundedOn(R, Nat)
  BY NatLessThanWellFounded
<1>2. PICK n \in T : \A m \in T : ~(<<m, n>> \in R)
  <2> HIDE DEF R
  <2> QED
    BY <1>1, WFMin
<1>3. \A m \in T : <<m, n>> \in R <=> m < n
  BY DEF OpToRel
<1> HIDE DEF R
<1>4. \A m \in T : ~(m < n)
  BY <1>2, <1>3
<1>5. n \in Nat /\ \A m \in T : m \in Nat
  OBVIOUS
<1> QED
  BY <1>4, <1>5

\* Induction, for a set of numbers.
LEMMA Induction ==
  ASSUME NEW T, 0 \in T, \A n \in Nat : n \in T => n + 1 \in T
  PROVE  \A n \in Nat : n \in T
<1> DEFINE Missing == {n \in Nat : n \notin T}
<1>1. SUFFICES ASSUME Missing # {} PROVE FALSE
  OBVIOUS
<1>2. PICK n \in Missing : \A m \in Missing : n <= m
  BY <1>1, LeastNumber
<1>3. n \in Nat /\ n # 0 /\ n \notin T
  BY <1>2
<1>4. n - 1 \in Nat /\ ~(n <= n - 1) /\ (n - 1) + 1 = n
  BY <1>3
<1>5. n - 1 \in T
  BY <1>2, <1>4
<1> QED
  BY <1>3, <1>4, <1>5

-----------------------------------------------------------------------------
\* A name is never the word "prepared".
LEMMA NameVerdictIsNotPrepared == ASSUME NEW c PROVE NameVerdict(c) # "prepared"
BY DEF NameVerdict

\* The rule of a command depends on nothing that prepare() changes on its way.
LEMMA RuleUnchanged ==
    ASSUME UNCHANGED <<platform, policy, command>>
    PROVE  RuleOf(command.name)' = RuleOf(command.name)
<1>1. RulesOf(command.name)' = RulesOf(command.name)
  BY DEF RulesOf, Normalized
<1> QED BY <1>1 DEF RuleOf, NoRight

-----------------------------------------------------------------------------
\* At the start nothing is prepared.
LEMMA InitIInv == Init => IInv
BY DEF Init, IInv, Phased, Phases

\* Every step preserves the invariant: one step of the proof per action.
LEMMA NextIInv == IInv /\ [Next]_vars => IInv'
<1> SUFFICES ASSUME IInv, [Next]_vars PROVE IInv'
  OBVIOUS
<1> USE DEF IInv, Phased, Phases
<1>1. CASE LoadPolicy
  BY <1>1 DEF LoadPolicy, prepare
<1>2. CASE StartPrepare
  BY <1>2, NameVerdictIsNotPrepared DEF StartPrepare, Settle
<1>3. CASE RealpathCwd
  BY <1>3 DEF RealpathCwd, Settle, Unchanged
<1>4. CASE StatCwd
  <2>1. RuleOf(command.name)' = RuleOf(command.name)
    BY <1>4, RuleUnchanged DEF StatCwd, Unchanged
  <2>2. \/ phase' = "done" /\ result' \notin {"none", "prepared"}
        \/ phase' = "exe" /\ result' = "none" /\ Located
    BY <1>4 DEF StatCwd, Settle, Located
  <2> QED BY <1>4, <2>1, <2>2 DEF StatCwd, Unchanged, Located
<1>5. CASE RealpathExe
  <2>1. RuleOf(command.name)' = RuleOf(command.name)
    BY <1>5, RuleUnchanged DEF RealpathExe, Unchanged
  <2>2. inside'.cwd = inside.cwd /\ DOMAIN inside' = DOMAIN inside
    BY <1>5 DEF RealpathExe
  <2>3. \/ phase' = "done" /\ result' = "executable_not_found"
        \/ phase' \in {"exe", "exe_stat"} /\ result' = "none"
    BY <1>5 DEF RealpathExe, NextCandidate, Settle
  <2> QED BY <1>5, <2>1, <2>2, <2>3 DEF RealpathExe, Located
<1>6. CASE StatExe
  <2>1. RuleOf(command.name)' = RuleOf(command.name)
    BY <1>6, RuleUnchanged DEF StatExe, Unchanged
  <2>2. \/ phase' = "done" /\ result' = "executable_not_found"
        \/ phase' \in {"exe", "exe_access"} /\ result' = "none"
    BY <1>6 DEF StatExe, NextCandidate, Settle
  <2> QED BY <1>6, <2>1, <2>2 DEF StatExe, Located
<1>7. CASE AccessExe
  <2>1. RuleOf(command.name)' = RuleOf(command.name)
    BY <1>7, RuleUnchanged DEF AccessExe, Unchanged
  <2>2. UNCHANGED <<inside, policy>>
    BY <1>7 DEF AccessExe, Unchanged
  <2>3. \/ phase' = "done" /\ (result' = "prepared" => AllowedLocation)
        \/ phase' = "exe" /\ result' = "none"
    BY <1>7 DEF AccessExe, NextCandidate, Settle
  <2>4. AllowedLocation' = AllowedLocation
    BY <2>1, <2>2 DEF AllowedLocation
  <2> QED BY <1>7, <2>1, <2>2, <2>3, <2>4 DEF AccessExe, Located
<1>8. CASE Change
  <2>1. RuleOf(command.name)' = RuleOf(command.name)
    BY <1>8, RuleUnchanged DEF Change
  <2> QED BY <1>8, <2>1 DEF Change, Located
<1>9. CASE UNCHANGED vars
  <2>1. RuleOf(command.name)' = RuleOf(command.name)
    BY <1>9, RuleUnchanged DEF vars, prepare
  <2> QED BY <1>9, <2>1 DEF vars, prepare, Located, AllowedLocation
<1> QED
  BY <1>1, <1>2, <1>3, <1>4, <1>5, <1>6, <1>7, <1>8, <1>9 DEF Next

\* The inductive invariant of prepare() holds, however the file system changes.
THEOREM InvariantHolds == Spec => []IInv
<1> QED BY InitIInv, NextIInv, PTL DEF Spec

-----------------------------------------------------------------------------
\* A command is prepared only for a directory that realpath put inside a
\* workspace root and for a program that it put where the policy allows.
THEOREM PreparedIsConfined == Spec => []Confined
<1>1. IInv => Confined
  BY DEF IInv, Located, AllowedLocation, Confined
<1> QED BY <1>1, InvariantHolds, PTL

\* On Windows the case of a name makes no difference to its verdict, its rule and
\* the paths that are tried, for any names and any policy.
THEOREM CaseNeverMatters == Spec => []CaseMakesNoDifference
<1>1. CaseMakesNoDifference
  <2> SUFFICES ASSUME platform = "win32", NEW c \in Commands, NEW name \in Names \ Malformed,
                      c.name \notin Malformed, LowerCase[name] = LowerCase[c.name]
               PROVE  LET d == [c EXCEPT !.name = name]
                      IN  /\ NameVerdict(d) = NameVerdict(c)
                          /\ RuleOf(name) = RuleOf(c.name)
                          /\ Candidates(d) = Candidates(c)
    BY DEF CaseMakesNoDifference
  <2> DEFINE d == [c EXCEPT !.name = name]
  <2>1. d.name = name /\ d.subcommandListed = c.subcommandListed
    BY CommandsAssumption
  <2>2. Normalized(name) = Normalized(c.name)
    BY DEF Normalized
  <2>3. RulesOf(name) = RulesOf(c.name)
    BY <2>2 DEF RulesOf
  <2>4. RuleOf(name) = RuleOf(c.name)
    BY <2>3 DEF RuleOf
  <2>5. IsDenied(name) = IsDenied(c.name)
    BY <2>2 DEF IsDenied
  <2>6. NameVerdict(d) = NameVerdict(c)
    BY <2>1, <2>2, <2>4, <2>5 DEF NameVerdict
  <2>7. Extensions(name) = Extensions(c.name)
    BY DEF Extensions
  <2>8. Candidates(d) = Candidates(c)
    BY <2>1, <2>4, <2>7 DEF Candidates
  <2> QED BY <2>4, <2>6, <2>8
<1> QED BY <1>1, PTL
-----------------------------------------------------------------------------
(***************************************************************************)
(* The directories that loadPolicy keeps.                                  *)
(***************************************************************************)
FirstIn(given, d) == CHOOSE i \in DOMAIN given :
                        given[i] = d /\ \A j \in 1..(i - 1) : given[j] # d

LEMMA FirstIsFirst ==
  ASSUME NEW S, NEW given \in Seq(S), NEW k \in 1..Len(given)
  PROVE  LET first == FirstIn(given, given[k])
         IN  /\ first \in 1..Len(given) /\ given[first] = given[k] /\ first <= k
             /\ \A j \in 1..(first - 1) : given[j] # given[k]
<1> DEFINE d == given[k]
           T == {i \in 1..Len(given) : given[i] = d}
           First(i) == given[i] = d /\ \A j \in 1..(i - 1) : given[j] # d
<1>1. Len(given) \in Nat /\ DOMAIN given = 1..Len(given)
  BY LenProperties
<1>2. PICK i \in T : \A j \in T : i <= j
  <2>1. T \in SUBSET Nat /\ k \in T
    BY <1>1
  <2> HIDE DEF T
  <2> QED
    BY <2>1, LeastNumber
<1>3. First(i) /\ i \in 1..Len(given)
  <2>1. ASSUME NEW j \in 1..(i - 1), given[j] = d PROVE FALSE
    <3>1. j \in T /\ ~(i <= j)
      BY <1>1, <1>2, <2>1
    <3> QED
      BY <1>2, <3>1
  <2> QED
    BY <1>2, <2>1
<1> DEFINE first == CHOOSE x \in DOMAIN given : First(x)
<1>4. first \in 1..Len(given) /\ First(first)
  BY <1>1, <1>3
<1>5. first = FirstIn(given, given[k])
  BY DEF FirstIn
<1> HIDE DEF first
<1>6. first <= k
  <2>1. ~(k \in 1..(first - 1))
    BY <1>4
  <2> QED
    BY <1>1, <1>4, <2>1
<1> QED
  BY <1>4, <1>5, <1>6

\* f[n] is what the loop has kept of the first n directories.
Kept(given, n, f) ==
    f = [i \in 0..n |->
            IF i = 0 THEN <<>>
            ELSE IF given[i] \in {Unusable} \cup ToSet(f[i - 1]) THEN f[i - 1]
            ELSE Append(f[i - 1], given[i])]

LEMMA KeptExists ==
  ASSUME NEW given, Len(given) \in Nat
  PROVE  \E f : Kept(given, Len(given), f)
<1> DEFINE T == {n \in Nat : \E f : Kept(given, n, f)}
<1>1. 0 \in T
  <2>1. Kept(given, 0, [i \in 0..0 |-> <<>>])
    BY DEF Kept
  <2> QED
    BY <2>1
<1>2. ASSUME NEW n \in Nat, n \in T PROVE n + 1 \in T
  <2>1. PICK f : Kept(given, n, f)
    BY <1>2
  <2> DEFINE next == IF given[n + 1] \in {Unusable} \cup ToSet(f[n]) THEN f[n]
                     ELSE Append(f[n], given[n + 1])
             g == [i \in 0..(n + 1) |-> IF i = n + 1 THEN next ELSE f[i]]
  <2>2. ASSUME NEW i \in 0..(n + 1)
        PROVE  g[i] = IF i = 0 THEN <<>>
                      ELSE IF given[i] \in {Unusable} \cup ToSet(g[i - 1]) THEN g[i - 1]
                      ELSE Append(g[i - 1], given[i])
    <3>1. CASE i = n + 1
      <4>1. g[i] = next /\ g[i - 1] = f[n] /\ i # 0
        BY <3>1
      <4> QED
        BY <3>1, <4>1
    <3>2. CASE i \in 0..n
      <4>1. g[i] = f[i] /\ (i # 0 => g[i - 1] = f[i - 1])
        BY <3>2
      <4> HIDE DEF g
      <4>2. f[i] = IF i = 0 THEN <<>>
                   ELSE IF given[i] \in {Unusable} \cup ToSet(f[i - 1]) THEN f[i - 1]
                   ELSE Append(f[i - 1], given[i])
        BY <2>1, <3>2 DEF Kept
      <4> QED
        BY <4>1, <4>2
    <3> QED
      BY <3>1, <3>2
  <2>3. g = [i \in 0..(n + 1) |-> g[i]]
    OBVIOUS
  <2> HIDE DEF g
  <2>4. Kept(given, n + 1, g)
    BY <2>2, <2>3 DEF Kept
  <2> QED
    BY <2>4
<1>3. Len(given) \in T
  <2> HIDE DEF T
  <2> QED
    BY <1>1, <1>2, Induction
<1> QED
  BY <1>3

\* What the loop is to have kept of the first n directories.
RightlyKept(given, n, kept) ==
    /\ kept \in Seq(Directories) /\ Len(kept) <= n
    /\ ToSet(kept) = {given[j] : j \in 1..n} \ {Unusable}
    /\ \A i, j \in 1..Len(kept) :
         i < j => FirstIn(given, kept[i]) < FirstIn(given, kept[j])

LEMMA KeepsOneMore ==
  ASSUME NEW given \in Seq(Directories \cup {Unusable}), NEW n \in Nat,
         n + 1 <= Len(given), NEW kept, RightlyKept(given, n, kept)
  PROVE  RightlyKept(given, n + 1,
                     IF given[n + 1] \in {Unusable} \cup ToSet(kept) THEN kept
                     ELSE Append(kept, given[n + 1]))
<1> DEFINE d == given[n + 1]
<1>1. /\ Len(given) \in Nat /\ n + 1 \in 1..Len(given)
      /\ d \in Directories \cup {Unusable}
      /\ kept \in Seq(Directories) /\ Len(kept) \in Nat /\ Len(kept) <= n
      /\ DOMAIN kept = 1..Len(kept)
  BY LenProperties, ElementOfSeq DEF RightlyKept
<1>2. {given[j] : j \in 1..(n + 1)} = {given[j] : j \in 1..n} \cup {d}
  <2>1. 1..(n + 1) = 1..n \cup {n + 1}
    OBVIOUS
  <2> QED
    BY <2>1
<1>3. CASE d \in {Unusable} \cup ToSet(kept)
  <2>1. ToSet(kept) = {given[j] : j \in 1..(n + 1)} \ {Unusable}
    BY <1>2, <1>3 DEF RightlyKept
  <2> QED
    BY <1>1, <1>3, <2>1 DEF RightlyKept
<1>4. CASE d \notin {Unusable} \cup ToSet(kept)
  <2> DEFINE more == Append(kept, d)
  <2>0. PICK l \in Nat : l = Len(kept)
    BY <1>1
  <2>1. /\ more \in Seq(Directories) /\ Len(more) = l + 1
        /\ DOMAIN more = 1..(l + 1)
        /\ \A i \in 1..l : more[i] = kept[i]
        /\ more[l + 1] = d
    BY <1>1, <1>4, <2>0, AppendProperties, LenProperties
  <2> HIDE DEF more
  <2>2. ToSet(more) = ToSet(kept) \cup {d}
    <3>1. 1..(l + 1) = 1..l \cup {l + 1}
      OBVIOUS
    <3> QED
      BY <1>1, <2>0, <2>1, <3>1 DEF ToSet
  <2>3. ToSet(more) = {given[j] : j \in 1..(n + 1)} \ {Unusable}
    BY <1>2, <1>4, <2>2 DEF RightlyKept
  <2>4. FirstIn(given, d) = n + 1
    <3>1. /\ FirstIn(given, d) \in 1..Len(given) /\ FirstIn(given, d) <= n + 1
          /\ given[FirstIn(given, d)] = d
      BY <1>1, FirstIsFirst
    <3>2. FirstIn(given, d) \notin 1..n
      BY <1>4, <3>1 DEF RightlyKept
    <3> QED
      BY <1>1, <3>1, <3>2
  <2>5. ASSUME NEW i \in 1..l
        PROVE  FirstIn(given, kept[i]) \in Nat /\ FirstIn(given, kept[i]) <= n
    <3>1. kept[i] \in {given[j] : j \in 1..n}
      <4>1. kept[i] \in ToSet(kept)
        BY <1>1, <2>0 DEF ToSet
      <4> QED
        BY <4>1 DEF RightlyKept
    <3>2. PICK j \in 1..n : kept[i] = given[j]
      BY <3>1
    <3>3. j \in 1..Len(given)
      BY <1>1
    <3>4. FirstIn(given, given[j]) \in 1..Len(given) /\ FirstIn(given, given[j]) <= j
      BY <3>3, FirstIsFirst
    <3> QED
      BY <1>1, <3>2, <3>4
  <2>6. ASSUME NEW i \in 1..(l + 1), NEW j \in 1..(l + 1), i < j
        PROVE  FirstIn(given, more[i]) < FirstIn(given, more[j])
    <3>1. i \in 1..l
      BY <2>6
    <3>2. CASE j \in 1..l
      BY <2>0, <2>1, <2>6, <3>1, <3>2 DEF RightlyKept
    <3>3. CASE j = l + 1
      <4>1. FirstIn(given, more[j]) = n + 1
        BY <2>1, <2>4, <3>3
      <4>2. FirstIn(given, more[i]) \in Nat /\ FirstIn(given, more[i]) <= n
        BY <2>1, <2>5, <3>1
      <4> QED
        BY <4>1, <4>2
    <3> QED
      BY <3>2, <3>3
  <2>7. RightlyKept(given, n + 1, more)
    <3>1. l + 1 <= n + 1
      BY <1>1, <2>0
    <3> QED
      BY <2>1, <2>3, <2>6, <3>1 DEF RightlyKept
  <2> QED
    BY <1>4, <2>7 DEF more
<1> QED
  BY <1>3, <1>4

LEMMA UsableAreRight ==
  ASSUME NEW s, s.directories \in Seq(Directories \cup {Unusable})
  PROVE  RightlyKept(s.directories, Len(s.directories), UsableDirectories(s))
<1> DEFINE given == s.directories
           f == CHOOSE f : Kept(given, Len(given), f)
<1>1. Len(given) \in Nat
  BY LenProperties
<1>2. Kept(given, Len(given), f)
  BY <1>1, KeptExists
<1>3. UsableDirectories(s) = f[Len(given)]
  BY DEF UsableDirectories, Kept
<1> HIDE DEF f
<1>4. \A n \in Nat : n <= Len(given) => RightlyKept(given, n, f[n])
  <2> DEFINE T == {n \in Nat : n <= Len(given) => RightlyKept(given, n, f[n])}
  <2>1. 0 \in T
    <3>1. f[0] = <<>>
      BY <1>1, <1>2 DEF Kept
    <3>2. <<>> \in Seq(Directories) /\ Len(<<>>) = 0 /\ ToSet(<<>>) = {}
      <4>1. DOMAIN <<>> = {} /\ <<>> \in Seq(Directories) /\ Len(<<>>) = 0
        OBVIOUS
      <4> QED
        BY <4>1 DEF ToSet
    <3>3. {given[j] : j \in 1..0} = {}
      OBVIOUS
    <3>4. ToSet(<<>>) = {given[j] : j \in 1..0} \ {Unusable}
      BY <3>2, <3>3
    <3>5. \A i, j \in 1..Len(<<>>) :
            i < j => FirstIn(given, <<>>[i]) < FirstIn(given, <<>>[j])
      BY <3>2
    <3>6. RightlyKept(given, 0, <<>>)
      BY <3>2, <3>4, <3>5 DEF RightlyKept
    <3> QED
      BY <3>1, <3>6
  <2>2. ASSUME NEW n \in Nat, n \in T PROVE n + 1 \in T
    <3> SUFFICES ASSUME n + 1 <= Len(given) PROVE RightlyKept(given, n + 1, f[n + 1])
      OBVIOUS
    <3>1. n <= Len(given) /\ n + 1 \in 0..Len(given) /\ (n + 1) - 1 = n /\ n + 1 # 0
      BY <1>1
    <3>2. f[n + 1] = IF given[n + 1] \in {Unusable} \cup ToSet(f[n]) THEN f[n]
                     ELSE Append(f[n], given[n + 1])
      BY <1>2, <3>1 DEF Kept
    <3>3. RightlyKept(given, n, f[n])
      BY <2>2, <3>1
    <3> QED
      BY <3>2, <3>3, KeepsOneMore
  <2>3. \A n \in Nat : n \in T
    <3> HIDE DEF T
    <3> QED
      BY <2>1, <2>2, Induction
  <2> QED
    BY <2>3
<1>5. Len(given) <= Len(given)
  BY <1>1
<1> QED
  BY <1>1, <1>3, <1>4, <1>5

LEMMA BoundedSeqIs ==
  ASSUME NEW S, NEW n \in Nat
  PROVE  BoundedSeq(S, n) = {s \in Seq(S) : Len(s) <= n}
<1>1. ASSUME NEW s \in BoundedSeq(S, n) PROVE s \in Seq(S) /\ Len(s) <= n
  <2>1. PICK m \in 0..n : s \in [1..m -> S]
    BY DEF BoundedSeq, SeqOf
  <2>2. s \in Seq(S) /\ Len(s) = m
    BY <2>1, SeqDef
  <2> QED
    BY <2>2
<1>2. ASSUME NEW s \in Seq(S), Len(s) <= n PROVE s \in BoundedSeq(S, n)
  <2>1. Len(s) \in 0..n /\ s \in [1..Len(s) -> S]
    BY <1>2, LenProperties
  <2> QED
    BY <2>1 DEF BoundedSeq, SeqOf
<1> QED
  BY <1>1, <1>2

\* A start that succeeds takes over the configured directories.
LEMMA LoadsAsConfigured ==
  ASSUME platform \in Platforms, startup \in Startups(platform),
         LoadPolicy, phase' = "idle"
  PROVE  /\ trusted' \in BoundedSeq(Directories, MaxTrusted[platform])
         /\ trusted' # <<>>
         /\ ToSet(trusted') = ToSet(startup.directories)
                                \ (IF Explicit(startup) THEN {} ELSE {Unusable})
         /\ \A i, j \in DOMAIN trusted' : i < j =>
               FirstIn(startup.directories, trusted'[i])
                 < FirstIn(startup.directories, trusted'[j])
         /\ policy' \in Policies
         /\ startup.file # "valid" => policy' = DefaultPolicy
<1> DEFINE given == startup.directories
<1>1. MaxTrusted[platform] \in Nat
  BY MaxTrustedAssumption
<1>2. given \in Seq(Directories \cup {Unusable}) /\ Len(given) <= MaxTrusted[platform]
  <2>1. given \in BoundedSeq(Directories \cup {Unusable}, MaxTrusted[platform])
    BY DEF Startups
  <2> QED
    BY <1>1, <2>1, BoundedSeqIs
<1>3. ~StartFails(startup) /\ trusted' = UsableDirectories(startup)
  BY DEF LoadPolicy
<1>4. RightlyKept(given, Len(given), trusted')
  BY <1>2, <1>3, UsableAreRight
<1>5. Len(given) \in Nat /\ DOMAIN given = 1..Len(given)
  BY <1>2, LenProperties
<1>6. /\ trusted' \in Seq(Directories) /\ Len(trusted') <= Len(given)
      /\ Len(trusted') \in Nat /\ DOMAIN trusted' = 1..Len(trusted')
  BY <1>4, LenProperties DEF RightlyKept
<1>7. trusted' \in BoundedSeq(Directories, MaxTrusted[platform])
  <2>1. Len(trusted') <= MaxTrusted[platform]
    BY <1>1, <1>2, <1>5, <1>6
  <2> QED
    BY <1>1, <1>6, <2>1, BoundedSeqIs
<1>8. trusted' # <<>>
  BY <1>3 DEF StartFails
<1>9. ToSet(trusted') = ToSet(given) \ (IF Explicit(startup) THEN {} ELSE {Unusable})
  <2>1. ToSet(trusted') = ToSet(given) \ {Unusable}
    BY <1>4, <1>5 DEF RightlyKept, ToSet
  <2>2. Explicit(startup) => Unusable \notin ToSet(given)
    BY <1>3 DEF StartFails
  <2> QED
    BY <2>1, <2>2
<1>10. \A i, j \in DOMAIN trusted' :
         i < j => FirstIn(given, trusted'[i]) < FirstIn(given, trusted'[j])
  BY <1>4, <1>6 DEF RightlyKept
<1>11. policy' \in Policies /\ (startup.file # "valid" => policy' = DefaultPolicy)
  BY <1>3, PoliciesAssumption DEF LoadPolicy
<1> QED
  BY <1>7, <1>8, <1>9, <1>10, <1>11

-----------------------------------------------------------------------------
(***************************************************************************)
(* The search of prepare(): types, what the looks at a file system that    *)
(* nobody changes have shown, and the verdict.                             *)
(***************************************************************************)
Awaiting == {"cwd", "cwd_stat", "exe", "exe_stat", "exe_access"}

\* What has been shown of fs by the time the next look is taken.
Shown ==
    /\ fs \in [cwd : CwdNodes, exe : [1..Candidates(command) -> Nodes]]
    /\ phase = "cwd_stat" => fs.cwd.kind # "missing" /\ inside.cwd = fs.cwd.inside
    /\ phase \in {"exe", "exe_stat", "exe_access"} =>
         /\ fs.cwd.kind = "directory" /\ fs.cwd.inside
         /\ \A i \in 1..(candidate - 1) : ~Startable(fs.exe[i])
    /\ phase \in {"exe_stat", "exe_access"} =>
         /\ fs.exe[candidate].kind # "missing"
         /\ inside.exe = fs.exe[candidate].inside
    /\ phase = "exe_access" => fs.exe[candidate].kind # "directory"

SearchInv ==
    /\ TypeOK
    /\ phase = "starting" => startup \in Startups(platform)
    /\ phase \in {"starting", "failed", "idle"} => stable
    /\ phase \in {"starting", "failed", "idle", "cwd", "cwd_stat"} => candidate = 1
    /\ phase \notin {"starting", "failed"} => trusted # <<>>
    /\ phase \in Awaiting \cup {"done"} => command \in Commands
    /\ phase \in Awaiting =>
         NameVerdict(command) = "ok" /\ candidate <= Candidates(command)
    /\ phase \in Awaiting /\ stable => Shown
    /\ SearchIsOrdered

\* The verdicts on a command depend on nothing that the search changes.
LEMMA VerdictsUnchanged ==
  ASSUME UNCHANGED <<platform, policy, trusted, command>>
  PROVE  /\ NameVerdict(command)' = NameVerdict(command)
         /\ Candidates(command)' = Candidates(command)
         /\ \A node : Startable(node)' <=> Startable(node)
         /\ fs' = fs => Expected' = Expected
<1>1. RuleOf(command.name)' = RuleOf(command.name)
  BY RuleUnchanged
<1>2. IsDenied(command.name)' = IsDenied(command.name)
  BY DEF IsDenied, Normalized
<1>3. Normalized(command.name)' = Normalized(command.name)
  BY DEF Normalized
<1>4. NameVerdict(command)' = NameVerdict(command)
  BY <1>1, <1>2, <1>3 DEF NameVerdict
<1>5. Candidates(command)' = Candidates(command)
  BY <1>1 DEF Candidates, Extensions
<1>6. \A node : Startable(node)' <=> Startable(node)
  BY <1>1 DEF Startable
<1>7. ASSUME fs' = fs PROVE Expected' = Expected
  <2>1. {i \in DOMAIN fs.exe : Startable(fs.exe[i])}'
          = {i \in DOMAIN fs.exe : Startable(fs.exe[i])}
    BY <1>6, <1>7
  <2> QED
    BY <1>1, <1>7, <2>1 DEF Expected
<1> QED
  BY <1>4, <1>5, <1>6, <1>7

LEMMA NameVerdictIsACode == ASSUME NEW c PROVE NameVerdict(c) \in Codes \cup {"ok"}
BY DEF NameVerdict, Codes

\* There is a candidate, and never more than the bound allows.
LEMMA CandidatesBounded ==
  ASSUME TypeOK, trusted # <<>>, NEW c
  PROVE  Candidates(c) \in 1..(2 * MaxTrusted[platform])
<1>1. PICK m \in Nat \ {0} : m = MaxTrusted[platform]
  BY MaxTrustedAssumption DEF TypeOK
<1>2. trusted \in Seq(Directories) /\ Len(trusted) <= m
  <2>1. trusted \in BoundedSeq(Directories, m)
    BY <1>1 DEF TypeOK
  <2> QED
    BY <2>1, BoundedSeqIs
<1>3. PICK l \in Nat \ {0} : l = Len(trusted)
  BY <1>2, LenProperties, EmptySeq
<1>4. Candidates(c) \in {1, l * 1, l * 2}
  BY <1>3 DEF Candidates, Extensions
<1>5. l <= m
  BY <1>2, <1>3
<1>6. {1, l * 1, l * 2} \subseteq 1..(2 * m)
  BY <1>5
<1> QED
  BY <1>1, <1>4, <1>6

\* The loop over the request's variables stops at the first refused one.
LEMMA FirstRefusedCounts ==
  ASSUME NEW env \in Seq({"listed", "unlisted", "denied"})
  PROVE  EnvironmentVerdict(env) =
           IF \E i \in DOMAIN env :
                env[i] = "denied" /\ \A j \in 1..(i - 1) : env[j] = "listed"
           THEN "environment_key_denied"
           ELSE IF "unlisted" \in ToSet(env) THEN "environment_key_not_allowed"
           ELSE "prepared"
<1> DEFINE refused == {i \in DOMAIN env : env[i] # "listed"}
           Deciding(i) == env[i] = "denied" /\ \A j \in 1..(i - 1) : env[j] = "listed"
<1>1. /\ Len(env) \in Nat /\ DOMAIN env = 1..Len(env)
      /\ \A i \in 1..Len(env) : env[i] \in {"listed", "unlisted", "denied"}
  BY LenProperties, ElementOfSeq
<1>2. CASE refused = {}
  <2>1. \A i \in DOMAIN env : env[i] = "listed"
    BY <1>2
  <2>2. "unlisted" \notin ToSet(env)
    BY <2>1 DEF ToSet
  <2> QED
    BY <1>2, <2>1, <2>2 DEF EnvironmentVerdict
<1>3. CASE refused # {}
  <2> DEFINE first == Min(refused)
  <2>1. first \in refused /\ \A i \in refused : first <= i
    <3>1. refused \in SUBSET Nat
      BY <1>1
    <3> HIDE DEF refused
    <3>2. \E n \in refused : \A m \in refused : n <= m
      BY <1>3, <3>1, LeastNumber
    <3> QED
      BY <3>2 DEF Min
  <2>2. EnvironmentVerdict(env) = IF env[first] = "denied" THEN "environment_key_denied"
                                  ELSE "environment_key_not_allowed"
    BY <1>3 DEF EnvironmentVerdict
  <2> HIDE DEF first
  <2>3. first \in 1..Len(env) /\ env[first] \in {"unlisted", "denied"}
    BY <1>1, <2>1
  <2>4. ASSUME NEW j \in 1..(first - 1) PROVE env[j] = "listed"
    <3>1. j \in DOMAIN env /\ ~(first <= j)
      BY <1>1, <2>3
    <3> QED
      BY <2>1, <3>1
  <2>5. CASE env[first] = "denied"
    <3>1. first \in DOMAIN env /\ Deciding(first)
      BY <1>1, <2>3, <2>4, <2>5
    <3> QED
      BY <2>2, <2>5, <3>1
  <2>6. CASE env[first] = "unlisted"
    <3>1. "unlisted" \in ToSet(env)
      BY <1>1, <2>3, <2>6 DEF ToSet
    <3>2. ASSUME NEW i \in DOMAIN env, Deciding(i) PROVE FALSE
      <4>1. i \in refused /\ first # i
        BY <2>6, <3>2
      <4>2. first \in 1..(i - 1)
        BY <1>1, <2>1, <2>3, <4>1
      <4> QED
        BY <2>6, <3>2, <4>2
    <3> QED
      BY <2>2, <2>6, <3>1, <3>2
  <2> QED
    BY <2>3, <2>5, <2>6
<1> QED
  BY <1>2, <1>3

\* The promise settles, with the verdict on an unchanged file system.
LEMMA Settles ==
  ASSUME SearchInv, phase \in Awaiting, Unchanged, phase' = "done",
         result' \in Codes \cup {"prepared"}, candidate' \in 1..Candidates(command),
         inside' \in [cwd : BOOLEAN, exe : BOOLEAN],
         stable => /\ result' = Expected
                   /\ result' = "prepared" =>
                        /\ Startable(fs.exe[candidate'])
                        /\ \A i \in 1..(candidate' - 1) : ~Startable(fs.exe[i])
  PROVE  SearchInv'
<1>1. /\ UNCHANGED <<platform, startup, trusted, policy, command, fs, stable>>
      /\ phase \notin {"starting", "failed", "idle", "done"}
  BY DEF Unchanged, Awaiting
<1>2. /\ TypeOK /\ trusted # <<>> /\ command \in Commands
      /\ NameVerdict(command) = "ok"
  BY <1>1 DEF SearchInv
<1>3. /\ NameVerdict(command)' = "ok" /\ Expected' = Expected
      /\ \A node : Startable(node)' <=> Startable(node)
  BY <1>1, <1>2, VerdictsUnchanged
<1>4. TypeOK'
  <2>1. candidate' \in 1..(2 * MaxTrusted[platform])
    BY <1>2, CandidatesBounded, MaxTrustedAssumption DEF TypeOK
  <2>2. result' # "none"
    BY DEF Codes
  <2> QED
    BY <1>1, <1>2, <2>1, <2>2 DEF TypeOK, Phases
<1>5. SearchIsOrdered'
  BY <1>1, <1>3 DEF SearchIsOrdered
<1> QED
  BY <1>1, <1>2, <1>4, <1>5 DEF SearchInv, Awaiting

\* The search goes on.
LEMMA GoesOn ==
  ASSUME SearchInv, phase \in Awaiting, Unchanged, phase' \in Awaiting, result' = result,
         candidate' \in 1..Candidates(command),
         phase' \in {"cwd", "cwd_stat"} => candidate' = 1,
         inside' \in [cwd : BOOLEAN, exe : BOOLEAN], stable => Shown'
  PROVE  SearchInv'
<1>1. /\ UNCHANGED <<platform, startup, trusted, policy, command, fs, stable>>
      /\ phase \notin {"starting", "failed", "idle", "done"}
      /\ phase' \notin {"starting", "failed", "idle", "done"}
  BY DEF Unchanged, Awaiting
<1>2. /\ TypeOK /\ trusted # <<>> /\ command \in Commands
      /\ NameVerdict(command) = "ok"
  BY <1>1 DEF SearchInv
<1>3. NameVerdict(command)' = "ok" /\ Candidates(command)' = Candidates(command)
  BY <1>1, <1>2, VerdictsUnchanged
<1>4. candidate' <= Candidates(command)'
  BY <1>2, <1>3, CandidatesBounded, MaxTrustedAssumption DEF TypeOK
<1>5. TypeOK'
  <2>1. candidate' \in 1..(2 * MaxTrusted[platform])
    BY <1>2, CandidatesBounded, MaxTrustedAssumption DEF TypeOK
  <2>2. phase' \in Phases
    BY DEF Awaiting, Phases
  <2> QED
    BY <1>1, <1>2, <2>1, <2>2 DEF TypeOK
<1>6. SearchIsOrdered'
  BY <1>1 DEF SearchIsOrdered
<1> QED
  BY <1>1, <1>2, <1>3, <1>4, <1>5, <1>6 DEF SearchInv, Awaiting

\* A candidate that cannot be started is left for the next one.
LEMMA TriesNext ==
  ASSUME SearchInv, IInv, phase \in {"exe", "exe_stat", "exe_access"}, Unchanged,
         NextCandidate, inside' \in [cwd : BOOLEAN, exe : BOOLEAN],
         stable => ~Startable(fs.exe[candidate])
  PROVE  SearchInv'
<1>1. phase \in Awaiting /\ phase # "starting"
  BY DEF Awaiting
<1>2. /\ TypeOK /\ trusted # <<>> /\ candidate \in Nat \ {0}
      /\ candidate <= Candidates(command)
  BY <1>1, MaxTrustedAssumption DEF SearchInv, TypeOK
<1>3. PICK n \in Nat \ {0} : n = Candidates(command)
  BY <1>2, CandidatesBounded, MaxTrustedAssumption DEF TypeOK
<1>4. UNCHANGED <<platform, policy, trusted, command, fs, stable>>
  BY DEF Unchanged
<1>5. ASSUME stable
      PROVE  /\ Shown /\ DOMAIN fs.exe = 1..n
             /\ fs.cwd.kind = "directory" /\ fs.cwd.inside
             /\ \A i \in 1..candidate : ~Startable(fs.exe[i])
  <2>1. Shown
    BY <1>1, <1>5 DEF SearchInv
  <2>2. \A i \in 1..(candidate - 1) : ~Startable(fs.exe[i])
    BY <2>1 DEF Shown
  <2>3. ~Startable(fs.exe[candidate])
    BY <1>5
  <2>4. \A i \in 1..candidate : i \in 1..(candidate - 1) \/ i = candidate
    BY <1>2
  <2> QED
    BY <1>3, <2>1, <2>2, <2>3, <2>4 DEF Shown
<1>6. CASE candidate < Candidates(command)
  <2>1. /\ candidate' = candidate + 1 /\ phase' = "exe" /\ result' = result
        /\ candidate' \in 1..Candidates(command) /\ candidate' - 1 = candidate
    BY <1>2, <1>3, <1>6 DEF NextCandidate
  <2>2. ASSUME stable PROVE Shown'
    <3>1. /\ Candidates(command)' = Candidates(command)
          /\ \A node : Startable(node)' <=> Startable(node)
      BY <1>4, VerdictsUnchanged
    <3>2. (\A i \in 1..(candidate - 1) : ~Startable(fs.exe[i]))'
      <4>1. \A i \in 1..(candidate' - 1) : ~Startable(fs.exe[i])
        BY <1>5, <2>1, <2>2
      <4> QED
        BY <1>4, <3>1, <4>1
    <3>3. fs' \in [cwd : CwdNodes, exe : [1..Candidates(command)' -> Nodes]]
      BY <1>4, <1>5, <2>2, <3>1 DEF Shown
    <3> QED
      BY <1>4, <1>5, <2>1, <2>2, <3>2, <3>3 DEF Shown
  <2> QED
    BY <1>1, <2>1, <2>2, GoesOn DEF Awaiting
<1>7. CASE ~(candidate < Candidates(command))
  <2>1. /\ candidate' = candidate /\ phase' = "done"
        /\ result' = "executable_not_found"
        /\ candidate' \in 1..Candidates(command) /\ candidate = n
    BY <1>2, <1>3, <1>7 DEF NextCandidate, Settle
  <2>2. ASSUME stable PROVE Expected = "executable_not_found"
    <3>1. {i \in DOMAIN fs.exe : Startable(fs.exe[i])} = {}
      BY <1>5, <2>1, <2>2
    <3>2. RuleOf(command.name).path # "relative"
      BY DEF IInv, Located
    <3> QED
      BY <1>5, <2>2, <3>1, <3>2 DEF Expected
  <2> QED
    BY <1>1, <2>1, <2>2, Settles DEF Codes
<1> QED
  BY <1>6, <1>7

\* What is decided of a request's command is decided of that command.
LEMMA VerdictOnRequest ==
  ASSUME UNCHANGED <<platform, policy, trusted>>, NEW c, command' = c
  PROVE  /\ NameVerdict(command)' = NameVerdict(c)
         /\ Candidates(command)' = Candidates(c)
<1>1. RulesOf(command.name)' = RulesOf(c.name)
  BY DEF RulesOf, Normalized
<1>2. RuleOf(command.name)' = RuleOf(c.name)
  BY <1>1 DEF RuleOf, NoRight
<1>3. IsDenied(command.name)' = IsDenied(c.name)
  BY DEF IsDenied, Normalized
<1>4. Normalized(command.name)' = Normalized(c.name)
  BY DEF Normalized
<1> QED
  BY <1>2, <1>3, <1>4 DEF NameVerdict, Candidates, Extensions

LEMMA InitSearchInv == Init => SearchInv
<1> SUFFICES ASSUME Init PROVE SearchInv
  OBVIOUS
<1>1. PICK m \in Nat \ {0} : m = MaxTrusted[platform]
  BY MaxTrustedAssumption DEF Init
<1>2. trusted \in BoundedSeq(Directories, m)
  <2>1. <<>> \in Seq(Directories) /\ Len(<<>>) <= m
    BY EmptySeq
  <2> QED
    BY <2>1, BoundedSeqIs DEF Init
<1>3. TypeOK
  BY <1>1, <1>2, PoliciesAssumption DEF Init, TypeOK, Phases
<1> QED
  BY <1>3 DEF Init, SearchInv, SearchIsOrdered, Awaiting

LEMMA LoadKeepsSearch == SearchInv /\ IInv /\ LoadPolicy => SearchInv'
<1> SUFFICES ASSUME SearchInv, IInv, LoadPolicy PROVE SearchInv'
  OBVIOUS
<1>1. /\ phase = "starting" /\ phase' \in {"failed", "idle"} /\ result = "none"
      /\ UNCHANGED <<platform, command, fs, stable, candidate, inside, result>>
      /\ candidate = 1 /\ stable
      /\ platform \in Platforms /\ startup \in Startups(platform) /\ TypeOK
  BY DEF LoadPolicy, prepare, SearchInv, TypeOK, IInv
<1>2. /\ trusted' \in BoundedSeq(Directories, MaxTrusted[platform])
      /\ policy' \in Policies /\ (phase' = "idle" => trusted' # <<>>)
      /\ startup' \in Startups(platform) \cup {Loaded}
  <2>1. CASE phase' = "failed"
    BY <1>1, <2>1 DEF LoadPolicy, TypeOK
  <2>2. CASE phase' = "idle"
    BY <1>1, <2>2, LoadsAsConfigured DEF LoadPolicy
  <2> QED
    BY <1>1, <2>1, <2>2
<1>3. TypeOK'
  BY <1>1, <1>2 DEF TypeOK, Phases
<1> QED
  BY <1>1, <1>2, <1>3 DEF SearchInv, SearchIsOrdered, Awaiting

LEMMA StartKeepsSearch == SearchInv /\ IInv /\ StartPrepare => SearchInv'
<1> SUFFICES ASSUME SearchInv, IInv, StartPrepare PROVE SearchInv'
  OBVIOUS
<1>1. /\ phase = "idle" /\ candidate = 1 /\ stable /\ trusted # <<>> /\ result = "none"
      /\ UNCHANGED <<platform, startup, trusted, policy, stable, candidate, inside>>
      /\ TypeOK
  BY DEF StartPrepare, SearchInv, IInv
<1>2. PICK c \in Commands :
        /\ command' = c
        /\ IF NameVerdict(c) # "ok"
           THEN Settle(NameVerdict(c)) /\ UNCHANGED fs
           ELSE /\ phase' = "cwd"
                /\ fs' \in [cwd : CwdNodes, exe : [1..Candidates(c) -> Nodes]]
                /\ UNCHANGED result
  BY DEF StartPrepare
<1>3. NameVerdict(command)' = NameVerdict(c) /\ Candidates(command)' = Candidates(c)
  BY <1>1, <1>2, VerdictOnRequest
<1>4. CASE NameVerdict(c) # "ok"
  <2>1. phase' = "done" /\ result' = NameVerdict(c) /\ result' \in Codes
    BY <1>2, <1>4, NameVerdictIsACode DEF Settle
  <2>2. TypeOK'
    BY <1>1, <1>2, <2>1 DEF TypeOK, Phases, Codes
  <2> QED
    BY <1>1, <1>2, <1>3, <1>4, <2>1, <2>2 DEF SearchInv, SearchIsOrdered, Awaiting
<1>5. CASE NameVerdict(c) = "ok"
  <2>1. /\ phase' = "cwd" /\ result' = result
        /\ fs' \in [cwd : CwdNodes, exe : [1..Candidates(c) -> Nodes]]
    BY <1>2, <1>5
  <2>2. TypeOK'
    BY <1>1, <1>2, <2>1 DEF TypeOK, Phases
  <2>3. candidate' <= Candidates(c)
    <3>1. PICK m \in Nat : m = MaxTrusted[platform]
      BY <1>1, MaxTrustedAssumption DEF TypeOK
    <3>2. Candidates(c) \in 1..(2 * m)
      BY <1>1, <3>1, CandidatesBounded
    <3> QED
      BY <1>1, <3>2
  <2>4. Shown'
    BY <1>3, <2>1 DEF Shown
  <2> QED
    BY <1>1, <1>2, <1>3, <1>5, <2>1, <2>2, <2>3, <2>4 DEF SearchInv, SearchIsOrdered, Awaiting
<1> QED
  BY <1>4, <1>5

\* The nodes, and that candidate is one of the candidates.
LEMMA Awaited ==
  ASSUME SearchInv, phase \in Awaiting
  PROVE  /\ TypeOK /\ candidate \in 1..Candidates(command) /\ result = "none"
         /\ stable => Shown
<1>1. TypeOK /\ trusted # <<>> /\ candidate <= Candidates(command) /\ (stable => Shown)
  BY DEF SearchInv, Awaiting
<1>2. PICK m \in Nat : m = MaxTrusted[platform]
  BY <1>1, MaxTrustedAssumption DEF TypeOK
<1>3. Candidates(command) \in 1..(2 * m) /\ candidate \in 1..(2 * m)
  BY <1>1, <1>2, CandidatesBounded DEF TypeOK
<1>4. result = "none"
  BY <1>1 DEF TypeOK, Awaiting
<1> QED
  BY <1>1, <1>3, <1>4

LEMMA RealpathCwdKeepsSearch == SearchInv /\ IInv /\ RealpathCwd => SearchInv'
<1> SUFFICES ASSUME SearchInv, IInv, RealpathCwd PROVE SearchInv'
  OBVIOUS
<1>1. phase = "cwd" /\ phase \in Awaiting /\ Unchanged /\ candidate' = candidate
  BY DEF RealpathCwd, Awaiting
<1>2. /\ TypeOK /\ candidate \in 1..Candidates(command) /\ (stable => Shown)
      /\ inside \in [cwd : BOOLEAN, exe : BOOLEAN] /\ candidate = 1
  BY <1>1, Awaited DEF TypeOK, SearchInv
<1>3. PICK node \in SeenCwd :
        IF node.kind = "missing"
        THEN Settle("cwd_not_found") /\ UNCHANGED inside
        ELSE /\ phase' = "cwd_stat"
             /\ inside' = [inside EXCEPT !.cwd = node.inside]
             /\ UNCHANGED result
  BY DEF RealpathCwd
<1>4. node \in CwdNodes /\ node.inside \in BOOLEAN /\ (stable => node = fs.cwd)
  <2>1. node \in CwdNodes
    BY <1>2, <1>3 DEF SeenCwd, Shown
  <2> QED
    BY <1>3, <2>1 DEF SeenCwd, CwdNodes
<1>5. CASE node.kind = "missing"
  <2>1. phase' = "done" /\ result' = "cwd_not_found" /\ inside' = inside
    BY <1>3, <1>5 DEF Settle
  <2>2. stable => Expected = "cwd_not_found"
    BY <1>4, <1>5 DEF Expected
  <2> QED
    BY <1>1, <1>2, <2>1, <2>2, Settles DEF Codes
<1>6. CASE node.kind # "missing"
  <2>1. /\ phase' = "cwd_stat" /\ result' = result /\ inside'.cwd = node.inside
        /\ inside' \in [cwd : BOOLEAN, exe : BOOLEAN]
    BY <1>2, <1>3, <1>4, <1>6
  <2>2. ASSUME stable PROVE Shown'
    <3>1. Candidates(command)' = Candidates(command) /\ fs' = fs
      BY <1>1, VerdictsUnchanged DEF Unchanged
    <3> QED
      BY <1>2, <1>4, <1>6, <2>1, <2>2, <3>1 DEF Shown
  <2> QED
    BY <1>1, <1>2, <2>1, <2>2, GoesOn DEF Awaiting
<1> QED
  BY <1>5, <1>6

LEMMA StatCwdKeepsSearch == SearchInv /\ IInv /\ StatCwd => SearchInv'
<1> SUFFICES ASSUME SearchInv, IInv, StatCwd PROVE SearchInv'
  OBVIOUS
<1>1. /\ phase = "cwd_stat" /\ phase \in Awaiting /\ Unchanged
      /\ candidate' = candidate /\ inside' = inside
  BY DEF StatCwd, Awaiting
<1>2. /\ TypeOK /\ candidate \in 1..Candidates(command) /\ (stable => Shown)
      /\ inside \in [cwd : BOOLEAN, exe : BOOLEAN]
  BY <1>1, Awaited DEF TypeOK
<1>3. PICK node \in SeenCwd :
        IF node.kind = "missing" THEN Settle("cwd_not_found")
        ELSE IF node.kind = "file" THEN Settle("cwd_not_directory")
        ELSE IF ~inside.cwd THEN Settle("cwd_outside_workspace")
        ELSE IF RuleOf(command.name).path = "relative" THEN Settle("invalid_executable_path")
        ELSE phase' = "exe" /\ UNCHANGED result
  BY DEF StatCwd
<1>4. /\ node.kind \in {"missing", "file", "directory"}
      /\ stable => node = fs.cwd /\ inside.cwd = fs.cwd.inside
  <2>1. node \in CwdNodes
    BY <1>2, <1>3 DEF SeenCwd, Shown
  <2>2. node.kind \in {"missing", "file", "directory"}
    BY <2>1 DEF CwdNodes
  <2> QED
    BY <1>1, <1>2, <1>3, <2>2 DEF SeenCwd, Shown
<1>5. CASE phase' = "done"
  <2>1. result' \in Codes
    BY <1>1, <1>3, <1>5 DEF Settle, Codes
  <2>2. stable => result' = Expected
    <3>1. CASE node.kind \in {"missing", "file"}
      BY <1>3, <1>4, <3>1 DEF Settle, Expected
    <3>2. CASE node.kind = "directory" /\ ~inside.cwd
      BY <1>3, <1>4, <3>2 DEF Settle, Expected
    <3>3. CASE node.kind = "directory" /\ inside.cwd
      BY <1>3, <1>4, <1>5, <3>3 DEF Settle, Expected
    <3> QED
      BY <1>4, <3>1, <3>2, <3>3
  <2> QED
    BY <1>1, <1>2, <1>5, <2>1, <2>2, Settles DEF Codes
<1>6. CASE phase' # "done"
  <2>1. /\ phase' = "exe" /\ result' = result
        /\ node.kind = "directory" /\ inside.cwd
    BY <1>3, <1>4, <1>6 DEF Settle
  <2>2. ASSUME stable PROVE Shown'
    <3>1. Candidates(command)' = Candidates(command) /\ fs' = fs
      BY <1>1, VerdictsUnchanged DEF Unchanged
    <3>2. 1..(candidate' - 1) = {}
      <4>1. candidate' = 1
        BY <1>1 DEF SearchInv
      <4> QED
        BY <4>1
    <3> QED
      BY <1>1, <1>2, <1>4, <2>1, <2>2, <3>1, <3>2 DEF Shown
  <2> QED
    BY <1>1, <1>2, <2>1, <2>2, GoesOn DEF Awaiting
<1> QED
  BY <1>5, <1>6

\* A look sees a node, and that of the candidate when nobody changes it.
LEMMA LookSeesANode ==
  ASSUME SearchInv, phase \in {"exe", "exe_stat", "exe_access"}, NEW node \in SeenExe
  PROVE  /\ node \in Nodes /\ node.inside \in BOOLEAN
         /\ node.kind \in {"missing", "directory", "file", "program"}
         /\ stable => node = fs.exe[candidate]
<1>1. stable => Shown /\ candidate \in 1..Candidates(command)
  BY Awaited DEF Awaiting
<1>2. ASSUME stable PROVE fs.exe[candidate] \in Nodes
  <2>1. fs.exe \in [1..Candidates(command) -> Nodes]
    <3>1. fs \in [cwd : CwdNodes, exe : [1..Candidates(command) -> Nodes]]
      BY <1>1, <1>2 DEF Shown
    <3> QED
      BY <3>1
  <2> QED
    BY <1>1, <1>2, <2>1
<1>3. node \in Nodes /\ (stable => node = fs.exe[candidate])
  BY <1>2 DEF SeenExe
<1>4. ASSUME NEW n \in Nodes
      PROVE  n.inside \in BOOLEAN /\ n.kind \in {"missing", "directory", "file", "program"}
  <2>1. CASE n \in {[kind |-> k, inside |-> TRUE] : k \in {"directory", "file", "program"}}
    <3>1. PICK k \in {"directory", "file", "program"} : n = [kind |-> k, inside |-> TRUE]
      BY <2>1
    <3>2. n.inside = TRUE
      BY <3>1, Zenon
    <3>3. n.inside \in BOOLEAN
      BY <3>2, Zenon
    <3> QED
      BY <3>1, <3>3
  <2>2. CASE n \in {[kind |-> k, inside |-> FALSE] : k \in {"missing", "program"}}
    <3>1. PICK k \in {"missing", "program"} : n = [kind |-> k, inside |-> FALSE]
      BY <2>2
    <3>2. n.inside = FALSE
      BY <3>1, Zenon
    <3>3. n.inside \in BOOLEAN
      BY <3>2, Zenon
    <3> QED
      BY <3>1, <3>3
  <2> QED
    BY <2>1, <2>2 DEF Nodes
<1> QED
  BY <1>3, <1>4

LEMMA RealpathExeKeepsSearch == SearchInv /\ IInv /\ RealpathExe => SearchInv'
<1> SUFFICES ASSUME SearchInv, IInv, RealpathExe PROVE SearchInv'
  OBVIOUS
<1>1. phase = "exe" /\ phase \in Awaiting /\ Unchanged
  BY DEF RealpathExe, Awaiting
<1>2. /\ TypeOK /\ candidate \in 1..Candidates(command) /\ (stable => Shown)
      /\ inside \in [cwd : BOOLEAN, exe : BOOLEAN]
  BY <1>1, Awaited DEF TypeOK
<1>3. PICK node \in SeenExe :
        IF node.kind = "missing"
        THEN NextCandidate /\ UNCHANGED inside
        ELSE /\ phase' = "exe_stat"
             /\ inside' = [inside EXCEPT !.exe = node.inside]
             /\ UNCHANGED <<candidate, result>>
  BY DEF RealpathExe
<1>4. node \in Nodes /\ node.inside \in BOOLEAN /\ (stable => node = fs.exe[candidate])
  BY <1>1, LookSeesANode
<1>5. CASE node.kind = "missing"
  <2>1. stable => ~Startable(fs.exe[candidate])
    BY <1>4, <1>5 DEF Startable
  <2> QED
    BY <1>1, <1>2, <1>3, <1>5, <2>1, TriesNext
<1>6. CASE node.kind # "missing"
  <2>1. /\ phase' = "exe_stat" /\ result' = result /\ candidate' = candidate
        /\ inside'.exe = node.inside /\ inside' \in [cwd : BOOLEAN, exe : BOOLEAN]
    BY <1>2, <1>3, <1>4, <1>6
  <2>2. ASSUME stable PROVE Shown'
    <3>1. /\ Candidates(command)' = Candidates(command) /\ fs' = fs
          /\ \A n : Startable(n)' <=> Startable(n)
      BY <1>1, VerdictsUnchanged DEF Unchanged
    <3> QED
      BY <1>1, <1>2, <1>4, <1>6, <2>1, <2>2, <3>1 DEF Shown
  <2> QED
    BY <1>1, <1>2, <2>1, <2>2, GoesOn DEF Awaiting
<1> QED
  BY <1>5, <1>6

LEMMA StatExeKeepsSearch == SearchInv /\ IInv /\ StatExe => SearchInv'
<1> SUFFICES ASSUME SearchInv, IInv, StatExe PROVE SearchInv'
  OBVIOUS
<1>1. phase = "exe_stat" /\ phase \in Awaiting /\ Unchanged /\ inside' = inside
  BY DEF StatExe, Awaiting
<1>2. /\ TypeOK /\ candidate \in 1..Candidates(command) /\ (stable => Shown)
      /\ inside \in [cwd : BOOLEAN, exe : BOOLEAN]
  BY <1>1, Awaited DEF TypeOK
<1>3. PICK node \in SeenExe :
        IF node.kind \in {"missing", "directory"}
        THEN NextCandidate
        ELSE phase' = "exe_access" /\ UNCHANGED <<candidate, result>>
  BY DEF StatExe
<1>4. stable => node = fs.exe[candidate]
  BY <1>3 DEF SeenExe
<1>5. CASE node.kind \in {"missing", "directory"}
  <2>1. stable => ~Startable(fs.exe[candidate])
    BY <1>4, <1>5 DEF Startable
  <2> QED
    BY <1>1, <1>2, <1>3, <1>5, <2>1, TriesNext
<1>6. CASE node.kind \notin {"missing", "directory"}
  <2>1. phase' = "exe_access" /\ result' = result /\ candidate' = candidate
    BY <1>3, <1>6
  <2>2. ASSUME stable PROVE Shown'
    <3>1. /\ Candidates(command)' = Candidates(command) /\ fs' = fs
          /\ \A n : Startable(n)' <=> Startable(n)
      BY <1>1, VerdictsUnchanged DEF Unchanged
    <3> QED
      BY <1>1, <1>2, <1>4, <1>6, <2>1, <2>2, <3>1 DEF Shown
  <2> QED
    BY <1>1, <1>2, <2>1, <2>2, GoesOn DEF Awaiting
<1> QED
  BY <1>5, <1>6

LEMMA AccessExeKeepsSearch == SearchInv /\ IInv /\ AccessExe => SearchInv'
<1> SUFFICES ASSUME SearchInv, IInv, AccessExe PROVE SearchInv'
  OBVIOUS
<1>1. phase = "exe_access" /\ phase \in Awaiting /\ Unchanged /\ inside' = inside
  BY DEF AccessExe, Awaiting
<1>2. /\ TypeOK /\ candidate \in 1..Candidates(command) /\ (stable => Shown)
      /\ inside \in [cwd : BOOLEAN, exe : BOOLEAN] /\ command \in Commands
  BY <1>1, Awaited DEF TypeOK, SearchInv
<1>3. PICK node \in SeenExe :
        IF node.kind \in {"missing", "file"} \/ ~AllowedLocation
        THEN NextCandidate
        ELSE Settle(EnvironmentVerdict(command.env)) /\ UNCHANGED candidate
  BY DEF AccessExe
<1>4. stable => /\ node = fs.exe[candidate]
                /\ node.kind \in {"missing", "file", "program"}
                /\ inside.exe = node.inside
  <2>1. /\ node.kind \in {"missing", "directory", "file", "program"}
        /\ stable => node = fs.exe[candidate]
    BY <1>1, LookSeesANode
  <2>2. stable => /\ fs.exe[candidate].kind # "directory"
                  /\ inside.exe = fs.exe[candidate].inside
    BY <1>1, <1>2 DEF Shown
  <2> QED
    BY <2>1, <2>2
<1>5. CASE node.kind \in {"missing", "file"} \/ ~AllowedLocation
  <2>1. stable => ~Startable(fs.exe[candidate])
    BY <1>4, <1>5 DEF Startable, AllowedLocation
  <2> QED
    BY <1>1, <1>2, <1>3, <1>5, <2>1, TriesNext
<1>6. CASE ~(node.kind \in {"missing", "file"} \/ ~AllowedLocation)
  <2>1. /\ phase' = "done" /\ candidate' = candidate
        /\ result' = EnvironmentVerdict(command.env)
    BY <1>3, <1>6 DEF Settle
  <2>2. result' \in Codes \cup {"prepared"}
    BY <2>1 DEF EnvironmentVerdict, Codes
  <2>3. ASSUME stable
        PROVE  /\ result' = Expected /\ Startable(fs.exe[candidate])
               /\ \A i \in 1..(candidate - 1) : ~Startable(fs.exe[i])
    <3>1. /\ fs.cwd.kind = "directory" /\ fs.cwd.inside
          /\ DOMAIN fs.exe = 1..Candidates(command)
          /\ \A i \in 1..(candidate - 1) : ~Startable(fs.exe[i])
      BY <1>1, <1>2, <2>3 DEF Shown
    <3>2. Startable(fs.exe[candidate])
      <4>1. node.kind = "program"
        BY <1>4, <1>6, <2>3
      <4> QED
        BY <1>4, <1>6, <2>3, <4>1 DEF Startable, AllowedLocation
    <3>3. {i \in DOMAIN fs.exe : Startable(fs.exe[i])} # {}
      BY <1>2, <3>1, <3>2
    <3>4. RuleOf(command.name).path # "relative"
      BY <1>1 DEF IInv, Located
    <3>5. command.env \in Seq({"listed", "unlisted", "denied"})
      BY <1>2, CommandsAssumption
    <3>6. EnvironmentVerdict(command.env) = Expected
      BY <3>1, <3>3, <3>4, <3>5, FirstRefusedCounts DEF Expected
    <3> QED
      BY <2>1, <3>1, <3>2, <3>6
  <2> QED
    BY <1>1, <1>2, <2>1, <2>2, <2>3, Settles
<1> QED
  BY <1>5, <1>6

LEMMA ChangeKeepsSearch == SearchInv /\ IInv /\ Change => SearchInv'
<1> SUFFICES ASSUME SearchInv, IInv, Change PROVE SearchInv'
  OBVIOUS
<1>1. /\ UNCHANGED <<platform, startup, phase, trusted, policy, command, candidate,
                     inside, result>>
      /\ phase \notin {"starting", "failed", "idle", "done"} /\ ~stable'
      /\ stable' \in BOOLEAN /\ TypeOK
  BY DEF Change, SearchInv
<1>2. /\ NameVerdict(command)' = NameVerdict(command)
      /\ Candidates(command)' = Candidates(command)
  BY <1>1, VerdictsUnchanged
<1>3. TypeOK'
  BY <1>1 DEF TypeOK
<1> QED
  BY <1>1, <1>2, <1>3 DEF SearchInv, SearchIsOrdered, Awaiting

LEMMA StutterKeepsSearch == SearchInv /\ UNCHANGED vars => SearchInv'
<1> SUFFICES ASSUME SearchInv, UNCHANGED vars PROVE SearchInv'
  OBVIOUS
<1>1. UNCHANGED <<platform, startup, phase, trusted, policy, command, fs, stable,
                  candidate, inside, result>>
  BY DEF vars, prepare
<1>2. /\ NameVerdict(command)' = NameVerdict(command)
      /\ Candidates(command)' = Candidates(command)
      /\ Expected' = Expected
      /\ \A n : Startable(n)' <=> Startable(n)
  BY <1>1, VerdictsUnchanged
<1>3. TypeOK'
  BY <1>1 DEF TypeOK, SearchInv
<1>4. Shown' <=> Shown
  BY <1>1, <1>2 DEF Shown
<1>5. SearchIsOrdered' <=> SearchIsOrdered
  BY <1>1, <1>2 DEF SearchIsOrdered
<1> QED
  BY <1>1, <1>2, <1>3, <1>4, <1>5 DEF SearchInv

\* The types hold, and what the search has shown of an unchanged file system.
THEOREM SearchHolds == Spec => [](IInv /\ SearchInv)
<1>1. Init => IInv /\ SearchInv
  BY InitIInv, InitSearchInv
<1>2. IInv /\ SearchInv /\ [Next]_vars => (IInv /\ SearchInv)'
  BY NextIInv, LoadKeepsSearch, StartKeepsSearch, RealpathCwdKeepsSearch,
     StatCwdKeepsSearch, RealpathExeKeepsSearch, StatExeKeepsSearch,
     AccessExeKeepsSearch, ChangeKeepsSearch, StutterKeepsSearch DEF Next
<1> QED
  BY <1>1, <1>2, PTL DEF Spec

\* Types, and the confinement of what prepare() returns, for any number of
\* trusted directories.
THEOREM TypedAndConfined == Spec => []Inv
<1>1. SearchInv => TypeOK
  BY DEF SearchInv
<1> QED
  BY <1>1, SearchHolds, PreparedIsConfined, PTL DEF Inv

\* While nobody changes the file system the search finds the first program that
\* can be started, for any number of directories, and the verdict is that of the
\* first check that fails.
THEOREM SearchFindsTheFirst == Spec => []SearchIsOrdered
<1>1. SearchInv => SearchIsOrdered
  BY DEF SearchInv
<1> QED
  BY <1>1, SearchHolds, PTL

\* The server comes up with the configured directories, in order and each once,
\* however many are configured.
THEOREM StartsAsConfigured == Spec => LoadedAsConfigured
<1> DEFINE Taken ==
      phase = "starting" /\ phase' = "idle" =>
        LET given == startup.directories
            First(d) == CHOOSE i \in DOMAIN given :
                           given[i] = d /\ \A j \in 1..(i - 1) : given[j] # d
        IN  /\ trusted' # <<>>
            /\ ToSet(trusted') = ToSet(given) \ (IF Explicit(startup) THEN {} ELSE {Unusable})
            /\ \A i, j \in DOMAIN trusted' : i < j => First(trusted'[i]) < First(trusted'[j])
            /\ startup.file # "valid" => policy' = DefaultPolicy
<1>1. SearchInv /\ [Next]_vars => [Taken]_vars
  <2> SUFFICES ASSUME SearchInv, Next, phase = "starting", phase' = "idle" PROVE Taken
    BY DEF vars, prepare
  <2>1. LoadPolicy
    BY DEF Next, StartPrepare, RealpathCwd, StatCwd, RealpathExe, StatExe, AccessExe,
           Change
  <2>2. platform \in Platforms /\ startup \in Startups(platform)
    BY DEF SearchInv, TypeOK
  <2> QED
    BY <2>1, <2>2, LoadsAsConfigured DEF FirstIn
<1> QED
  BY <1>1, SearchHolds, PTL DEF Spec, LoadedAsConfigured
=============================================================================
