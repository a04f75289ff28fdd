------------------------- MODULE ExecSchedulerProofs -------------------------
(***************************************************************************)
(* Proofs about ExecScheduler, for every number of steps, every acyclic    *)
(* graph, both failure modes, every concurrency and every set of statuses  *)
(* that runs may end with.                                                 *)
(*                                                                         *)
(* Every handler computes intermediate values and passes them to           *)
(* schedule().  The proof follows that structure: Coherent states what the *)
(* values must satisfy at that point, one lemma shows that schedule()      *)
(* turns coherent values into a state that satisfies the invariant, and    *)
(* one lemma per handler shows that its values are coherent.               *)
(***************************************************************************)
EXTENDS ReleaseDependents, WellFoundedInduction, SequenceTheorems, FiniteSetTheorems,
        TLAPS

RunningIn(st) == {s \in Steps : st[s] = "running"}
SettledIn(st) == {s \in Steps : st[s] = "settled"}

\* The values have their types, and a result is there exactly when the step
\* has settled.
WellFormed(st, res, q, run, stop) ==
    /\ st \in [Steps -> NodeStates]
    /\ res \in [Steps -> Statuses \cup {"none"}]
    /\ q \in Seq(Steps)
    /\ run \in 0..concurrency
    /\ run = Cardinality(RunningIn(st))
    /\ stop \in StopReasons \cup {"none"}
    /\ \A s \in Steps : res[s] = "none" <=> st[s] # "settled"

\* Before a stop: the ready steps are queued; a pending step waits for a step
\* that has not settled and for none that failed; a settled step is skipped
\* exactly when a step it depends on failed.
Flowing(st, res, q) ==
    /\ \A s \in Steps : st[s] = "ready" => \E i \in 1..Len(q) : q[i] = s
    /\ \A s \in Steps : st[s] = "pending" =>
         /\ \E d \in deps[s] : st[d] # "settled"
         /\ \A d \in deps[s] : ~Failed(res[d])
    /\ \A s \in Steps : st[s] = "settled" =>
         IF res[s] = "skipped"
         THEN \E d \in deps[s] : Failed(res[d])
         ELSE \A d \in deps[s] : res[d] = "success"

\* Whether or not the request has stopped, what is ready, runs or has run
\* depends on successes only.
WasRun == {"success", "failed", "timeout", "rejected", "spawn_error"}

Ordered(st, res) ==
    \A s \in Steps : st[s] \in {"ready", "running"} \/ res[s] \in WasRun =>
                        \A d \in deps[s] : res[d] = "success"

Coherent(st, res, q, run, stop) ==
    /\ WellFormed(st, res, q, run, stop)
    /\ Ordered(st, res)
    /\ IF stop = "none" THEN Flowing(st, res, q)
       ELSE \A s \in Steps : st[s] \in {"running", "settled"}

\* The inductive invariant.
IInv ==
    /\ TypeOK
    /\ Acyclic(deps)
    /\ Coherent(state, result, ready, running, stopReason)
    /\ settled = Cardinality(SettledIn(state))
    /\ outcome = "created" => /\ stopReason = "none" /\ running = 0
                              /\ ~listening
    /\ outcome # "created" /\ InState("ready") # {} => running = concurrency
    /\ outcome = "open" => running > 0
    /\ outcome \in Answered => SettledIn(state) = Steps
    /\ finishes = IF outcome \in Answered THEN 1 ELSE 0
    /\ outcome # "threw"
    /\ listening => outcome = "open"

-----------------------------------------------------------------------------
(***************************************************************************)
(* Finite sets of steps.                                                   *)
(***************************************************************************)
LEMMA StepsFinite == IsFiniteSet(Steps) /\ Cardinality(Steps) = NumSteps
<1> QED
  BY NumStepsAssumption, FS_Interval DEF Steps

LEMMA StepSets ==
  ASSUME NEW S \in SUBSET Steps
  PROVE  /\ IsFiniteSet(S)
         /\ Cardinality(S) \in 0..NumSteps
         /\ Cardinality(S) = 0 <=> S = {}
         /\ Cardinality(S) = NumSteps <=> S = Steps
<1>1. IsFiniteSet(S) /\ Cardinality(S) <= NumSteps
  BY StepsFinite, FS_Subset
<1>2. Cardinality(S) \in Nat
  BY <1>1, FS_CardinalityType
<1>3. Cardinality(S) = 0 <=> S = {}
  BY <1>1, FS_EmptySet
<1>4. Cardinality(S) = NumSteps <=> S = Steps
  BY StepsFinite, FS_Subset
<1> QED
  BY <1>1, <1>2, <1>3, <1>4, NumStepsAssumption

LEMMA DisjointSum ==
  ASSUME NEW S \in SUBSET Steps, NEW T \in SUBSET Steps, S \cap T = {}
  PROVE  Cardinality(S \cup T) = Cardinality(S) + Cardinality(T)
<1>1. /\ IsFiniteSet(S) /\ IsFiniteSet(T)
      /\ Cardinality(S) \in Nat /\ Cardinality(T) \in Nat
  BY StepSets, NumStepsAssumption
<1>2. Cardinality(S \cup T)
        = Cardinality(S) + Cardinality(T) - Cardinality(S \cap T)
  BY <1>1, FS_Union
<1>3. Cardinality(S \cap T) = 0
  BY FS_EmptySet
<1> QED
  BY <1>1, <1>2, <1>3

LEMMA OneMoreStep ==
  ASSUME NEW S \in SUBSET Steps, NEW x \in Steps, NEW T \in SUBSET (S \cup {x})
  PROVE  Cardinality(T) <= Cardinality(S) + 1
<1>1. IsFiniteSet(S) /\ Cardinality(S) \in Nat
  BY StepSets, NumStepsAssumption
<1>2. /\ IsFiniteSet(S \cup {x})
      /\ Cardinality(S \cup {x})
           = IF x \in S THEN Cardinality(S) ELSE Cardinality(S) + 1
  BY <1>1, FS_AddElement
<1>3. Cardinality(T) <= Cardinality(S \cup {x})
  BY <1>2, FS_Subset
<1>4. Cardinality(T) \in Nat
  BY <1>2, FS_Subset, FS_CardinalityType
<1> QED
  BY <1>1, <1>2, <1>3, <1>4

-----------------------------------------------------------------------------
(***************************************************************************)
(* schedule().                                                             *)
(***************************************************************************)

\* The loop never starts more steps than there are slots, and it leaves a
\* ready step only when all slots are taken.
LEMMA LoopFillsSlots ==
  ASSUME TypeOK,
         NEW st, NEW q \in Seq(Steps), NEW run \in 0..concurrency, NEW stop,
         NEW n \in 0..Len(q), ScheduleShifts(n, st, q, run, stop)
  PROVE  /\ Cardinality(Started(st, q, n)) \in Nat
         /\ run + Cardinality(Started(st, q, n)) <= concurrency
         /\ stop = "none" /\ n # Len(q) =>
              run + Cardinality(Started(st, q, n)) = concurrency
         /\ stop # "none" => Started(st, q, n) = {}
<1>1. Len(q) \in Nat /\ \A i \in 1..Len(q) : q[i] \in Steps
  BY LenProperties, ElementOfSeq
<1>2. concurrency \in Nat
  BY NumStepsAssumption DEF TypeOK
<1>3. \A m \in 0..Len(q) : /\ Started(st, q, m) \in SUBSET Steps
                           /\ Cardinality(Started(st, q, m)) \in Nat
  <2> TAKE m \in 0..Len(q)
  <2>1. Started(st, q, m) \in SUBSET Steps
    BY DEF Started
  <2> QED
    BY <2>1, StepSets, NumStepsAssumption
<1>4. Started(st, q, 0) = {}
  BY DEF Started
<1>5. run + Cardinality(Started(st, q, n)) <= concurrency
  <2>1. CASE n = 0
    <3>1. Cardinality(Started(st, q, n)) = 0
      BY <1>4, <2>1, FS_EmptySet
    <3> QED
      BY <1>2, <3>1
  <2>2. CASE n # 0
    <3>1. stop = "none" /\ n - 1 \in 0..Len(q) /\ q[n] \in Steps
      BY <1>1, <2>2 DEF ScheduleShifts
    <3>2. run + Cardinality(Started(st, q, n - 1)) < concurrency
      BY <1>1, <2>2, <3>1 DEF ScheduleShifts
    <3>3. Started(st, q, n) \in SUBSET (Started(st, q, n - 1) \cup {q[n]})
      BY <1>1, <2>2 DEF Started
    <3>4. Cardinality(Started(st, q, n))
            <= Cardinality(Started(st, q, n - 1)) + 1
      BY <1>3, <3>1, <3>3, OneMoreStep
    <3> QED
      BY <1>1, <1>2, <1>3, <3>1, <3>2, <3>4
  <2> QED
    BY <2>1, <2>2
<1>6. stop = "none" /\ n # Len(q) =>
        run + Cardinality(Started(st, q, n)) >= concurrency
  BY DEF ScheduleShifts
<1>7. stop # "none" => Started(st, q, n) = {}
  BY <1>4 DEF ScheduleShifts
<1>8. Cardinality(Started(st, q, n)) \in Nat
  BY <1>3
<1> QED
  BY <1>2, <1>5, <1>6, <1>7, <1>8

\* What schedule() establishes, whoever calls it.
Scheduled ==
    /\ UNCHANGED request
    /\ Coherent(state', result', ready', running', stopReason')
    /\ settled' = Cardinality(SettledIn(state')) /\ settled' \in 0..NumSteps
    /\ peak' \in running'..concurrency
    /\ (\E s \in Steps : state'[s] = "ready") => running' = concurrency
    /\ outcome' = "open" => running' > 0
    /\ outcome' \in {"open", "resolved", "rejected"}
    /\ outcome' \in Answered => SettledIn(state') = Steps
    /\ finishes' = IF outcome' \in Answered THEN 1 ELSE 0

LEMMA ScheduleEstablishes ==
  ASSUME TypeOK, Acyclic(deps), settled = Cardinality(SettledIn(state)),
         finishes = 0,
         NEW st, NEW res, NEW q, NEW run, NEW stop,
         Coherent(st, res, q, run, stop),
         SettledIn(state) \subseteq SettledIn(st),
         Schedule(st, res, q, run, stop)
  PROVE  Scheduled
<1>1. PICK n \in 0..Len(q) :
        /\ ScheduleShifts(n, st, q, run, stop)
        /\ state' = [s \in Steps |->
                       IF s \in Started(st, q, n) THEN "running" ELSE st[s]]
        /\ ready' = SubSeq(q, n + 1, Len(q))
        /\ running' = run + Cardinality(Started(st, q, n))
  BY DEF Schedule
<1> DEFINE start == Started(st, q, n)
<1>2. /\ peak' = Larger(peak, running')
      /\ result' = res
      /\ stopReason' = stop
      /\ settled' = settled + Cardinality(NewlySettled(st))
      /\ UNCHANGED request
      /\ IF settled' = NumSteps /\ running' = 0
         THEN Finish(res, stop)
         ELSE outcome' = "open" /\ UNCHANGED finishes
  BY DEF Schedule
<1>3. /\ st \in [Steps -> NodeStates]
      /\ q \in Seq(Steps)
      /\ run \in 0..concurrency
      /\ run = Cardinality(RunningIn(st))
      /\ stop \in StopReasons \cup {"none"}
  BY DEF Coherent, WellFormed
<1>4. concurrency \in 1..NumSteps /\ concurrency \in Nat /\ concurrency > 0
  BY NumStepsAssumption DEF TypeOK
<1>5. /\ Cardinality(start) \in Nat
      /\ run + Cardinality(start) <= concurrency
      /\ stop = "none" /\ n # Len(q) => run + Cardinality(start) = concurrency
      /\ stop # "none" => start = {}
  BY <1>1, <1>3, LoopFillsSlots
<1>6. /\ \A s \in start : s \in Steps /\ st[s] = "ready" /\ state'[s] = "running"
      /\ \A s \in Steps \ start : state'[s] = st[s]
      /\ state' \in [Steps -> NodeStates]
  BY <1>1, <1>3 DEF Started, NodeStates
<1>7. running' \in 0..concurrency
  BY <1>1, <1>3, <1>4, <1>5
<1>8. running' = Cardinality(RunningIn(state'))
  <2>1. RunningIn(state') = RunningIn(st) \cup start
    BY <1>6 DEF RunningIn
  <2>2. /\ RunningIn(st) \in SUBSET Steps
        /\ start \in SUBSET Steps
        /\ RunningIn(st) \cap start = {}
    BY <1>6 DEF RunningIn
  <2>3. Cardinality(RunningIn(st) \cup start)
          = Cardinality(RunningIn(st)) + Cardinality(start)
    BY <2>2, DisjointSum
  <2> QED
    BY <1>1, <1>3, <2>1, <2>3
<1>9. SettledIn(state') = SettledIn(st)
  BY <1>6 DEF SettledIn
<1>10. settled' = Cardinality(SettledIn(state')) /\ settled' \in 0..NumSteps
  <2>1. SettledIn(st) = SettledIn(state) \cup NewlySettled(st)
    BY DEF SettledIn, NewlySettled
  <2>2. /\ SettledIn(state) \in SUBSET Steps
        /\ NewlySettled(st) \in SUBSET Steps
        /\ SettledIn(state) \cap NewlySettled(st) = {}
    BY DEF SettledIn, NewlySettled
  <2>3. Cardinality(SettledIn(state) \cup NewlySettled(st))
          = Cardinality(SettledIn(state)) + Cardinality(NewlySettled(st))
    BY <2>2, DisjointSum
  <2>4. settled' = Cardinality(SettledIn(state'))
    BY <1>2, <1>9, <2>1, <2>3
  <2>5. SettledIn(state') \in SUBSET Steps
    BY DEF SettledIn
  <2> QED
    BY <2>4, <2>5, StepSets
<1>11. /\ ready' \in Seq(Steps)
       /\ Len(q) \in Nat
       /\ Len(ready') = Len(q) - n
       /\ \A i \in 1..Len(ready') : ready'[i] = q[n + i]
  <2>1. Len(q) \in Nat /\ \A i \in (n + 1)..Len(q) : q[i] \in Steps
    BY <1>3, LenProperties, ElementOfSeq
  <2> QED
    BY <1>1, <2>1, SubSeqProperties
<1>12. ASSUME stop = "none", NEW s \in Steps, state'[s] = "ready"
       PROVE  \E i \in 1..Len(ready') : ready'[i] = s
  <2>1. s \notin start /\ st[s] = "ready"
    BY <1>6, <1>12
  <2>2. PICK i \in 1..Len(q) : q[i] = s
    BY <1>12, <2>1 DEF Coherent, Flowing
  <2>3. i > n
    BY <1>1, <1>11, <2>1, <2>2 DEF Started
  <2>4. i - n \in 1..Len(ready') /\ n + (i - n) = i
    BY <1>1, <1>11, <2>3
  <2> QED
    BY <1>11, <2>2, <2>4
<1>13. WellFormed(state', result', ready', running', stopReason')
  <2>1. \A s \in Steps : res[s] = "none" <=> state'[s] # "settled"
    BY <1>6 DEF Coherent, WellFormed
  <2>2. res \in [Steps -> Statuses \cup {"none"}]
    BY DEF Coherent, WellFormed
  <2> QED
    BY <1>2, <1>3, <1>6, <1>7, <1>8, <1>11, <2>1, <2>2 DEF WellFormed
<1>14. Coherent(state', result', ready', running', stopReason')
  <2>1. Ordered(state', result')
    BY <1>2, <1>6 DEF Coherent, Ordered
  <2>2. CASE stop # "none"
    BY <1>2, <1>5, <1>6, <1>13, <2>1, <2>2 DEF Coherent
  <2>3. CASE stop = "none"
    <3>1. Flowing(st, res, q)
      BY <2>3 DEF Coherent
    <3>2. \A s \in Steps : state'[s] = "ready" =>
             \E i \in 1..Len(ready') : ready'[i] = s
      BY <1>12, <2>3
    <3>3. \A s \in Steps : /\ state'[s] = "settled" <=> st[s] = "settled"
                           /\ state'[s] = "pending" <=> st[s] = "pending"
      BY <1>6
    <3>4. \A s \in Steps : deps[s] \subseteq Steps
      BY DEF TypeOK
    <3>5. \A s \in Steps : state'[s] = "pending" =>
             /\ \E d \in deps[s] : state'[d] # "settled"
             /\ \A d \in deps[s] : ~Failed(res[d])
      BY <3>1, <3>3, <3>4 DEF Flowing
    <3>6. \A s \in Steps : state'[s] = "settled" =>
             IF res[s] = "skipped"
             THEN \E d \in deps[s] : Failed(res[d])
             ELSE \A d \in deps[s] : res[d] = "success"
      BY <3>1, <3>3 DEF Flowing
    <3>7. Flowing(state', result', ready')
      BY <1>2, <3>2, <3>5, <3>6 DEF Flowing
    <3> QED
      BY <1>2, <1>13, <2>1, <2>3, <3>7 DEF Coherent
  <2> QED
    BY <2>2, <2>3
<1>15. (\E s \in Steps : state'[s] = "ready") => running' = concurrency
  <2> SUFFICES ASSUME NEW s \in Steps, state'[s] = "ready"
               PROVE  running' = concurrency
    OBVIOUS
  <2>1. stop = "none"
    BY <1>2, <1>14 DEF Coherent
  <2>2. Len(ready') # 0
    BY <1>12, <2>1
  <2> QED
    BY <1>1, <1>5, <1>11, <2>1, <2>2
<1>16. running' = 0 => settled' = NumSteps
  <2> SUFFICES ASSUME running' = 0 PROVE SettledIn(state') = Steps
    BY <1>10, StepsFinite
  <2>1. \A s \in Steps : state'[s] # "running"
    <3>1. RunningIn(state') \in SUBSET Steps
      BY DEF RunningIn
    <3>2. RunningIn(state') = {}
      BY <1>8, <3>1, StepSets
    <3> QED
      BY <3>2 DEF RunningIn
  <2>2. \A s \in Steps : state'[s] # "ready"
    BY <1>4, <1>15
  <2>3. CASE stop # "none"
    BY <1>2, <1>14, <2>1, <2>3 DEF Coherent, SettledIn
  <2>4. CASE stop = "none"
    <3> DEFINE U == {s \in Steps : state'[s] # "settled"}
    <3>1. SUFFICES ASSUME U # {} PROVE FALSE
      BY DEF SettledIn
    <3>2. PICK s \in U : deps[s] \cap U = {}
      BY <3>1 DEF Acyclic
    <3>3. state'[s] = "pending"
      BY <1>6, <2>1, <2>2 DEF NodeStates
    <3>4. PICK d \in deps[s] : state'[d] # "settled"
      BY <1>2, <1>14, <2>4, <3>3 DEF Coherent, Flowing
    <3>5. d \in Steps
      BY DEF TypeOK
    <3> QED
      BY <3>2, <3>4, <3>5
  <2> QED
    BY <2>3, <2>4
<1>17. outcome' = "open" => running' > 0
  BY <1>2, <1>7, <1>16, <1>4 DEF Finish
<1>18. /\ outcome' \in {"open", "resolved", "rejected"}
       /\ outcome' \in Answered => SettledIn(state') = Steps
       /\ finishes' = IF outcome' \in Answered THEN 1 ELSE 0
  <2>1. CASE settled' = NumSteps /\ running' = 0
    <3>1. SettledIn(state') = Steps
      <4>1. SettledIn(state') \in SUBSET Steps
        BY DEF SettledIn
      <4> QED
        BY <1>10, <2>1, <4>1, StepSets
    <3>2. \A s \in Steps : res[s] # "none"
      BY <1>2, <1>13, <3>1 DEF WellFormed, SettledIn
    <3>3. finishes' = 1 /\ outcome' \in {"resolved", "rejected"}
      BY <1>2, <2>1, <3>2 DEF Finish
    <3> QED
      BY <3>1, <3>3 DEF Answered
  <2>2. CASE ~(settled' = NumSteps /\ running' = 0)
    BY <1>2, <2>2 DEF Answered
  <2> QED
    BY <2>1, <2>2
<1>19. peak' \in running'..concurrency
  BY <1>2, <1>4, <1>7 DEF Larger, TypeOK
<1> QED
  BY <1>2, <1>10, <1>14, <1>15, <1>17, <1>18, <1>19 DEF Scheduled

-----------------------------------------------------------------------------
(***************************************************************************)
(* What the handlers pass to schedule().                                   *)
(***************************************************************************)

\* The values of a handler before it stops the request or releases
\* dependents: nothing that had settled is undone.
Midway(st, res, run) ==
    /\ st \in [Steps -> NodeStates]
    /\ res \in [Steps -> Statuses \cup {"none"}]
    /\ run \in 0..concurrency
    /\ run = Cardinality(RunningIn(st))
    /\ \A s \in Steps : res[s] = "none" <=> st[s] # "settled"
    /\ Ordered(st, res)
    /\ SettledIn(state) \subseteq SettledIn(st)

\* stop() leaves coherent values.
LEMMA StopIsCoherent ==
  ASSUME TypeOK, NEW st, NEW res, NEW run, Midway(st, res, run),
         NEW reason \in StopReasons
  PROVE  LET st2  == Settle(st, NotStarted(st))
             res2 == Record(res, NotStarted(st), StopStatus(reason))
         IN  /\ Coherent(st2, res2, ready, run, reason)
             /\ SettledIn(state) \subseteq SettledIn(st2)
<1> DEFINE st2  == Settle(st, NotStarted(st))
           res2 == Record(res, NotStarted(st), StopStatus(reason))
<1>1. /\ st \in [Steps -> NodeStates]
      /\ res \in [Steps -> Statuses \cup {"none"}]
      /\ run \in 0..concurrency
      /\ run = Cardinality(RunningIn(st))
      /\ \A s \in Steps : res[s] = "none" <=> st[s] # "settled"
      /\ Ordered(st, res)
      /\ SettledIn(state) \subseteq SettledIn(st)
  BY DEF Midway
<1>2. StopStatus(reason) \in {"cancelled", "skipped"}
  BY DEF StopStatus
<1>3. /\ st2 \in [Steps -> {"running", "settled"}]
      /\ \A s \in Steps : st2[s] = "running" <=> st[s] = "running"
      /\ \A s \in Steps : st[s] = "settled" => st2[s] = "settled"
  BY <1>1 DEF Settle, NotStarted, NodeStates
<1>4. /\ res2 \in [Steps -> Statuses \cup {"none"}]
      /\ \A s \in Steps : st[s] \in {"running", "settled"} => res2[s] = res[s]
      /\ \A s \in Steps : st[s] \notin {"running", "settled"} =>
            res2[s] \in {"cancelled", "skipped"}
  BY <1>1, <1>2 DEF Record, NotStarted, NodeStates, Statuses, AllRunStatuses
<1>5. \A s \in Steps : res2[s] = "none" <=> st2[s] # "settled"
  BY <1>1, <1>3, <1>4
<1>6. RunningIn(st2) = RunningIn(st)
  BY <1>3 DEF RunningIn
<1>7. Ordered(st2, res2)
  <2> SUFFICES ASSUME NEW s \in Steps, st2[s] = "running" \/ res2[s] \in WasRun,
                      NEW d \in deps[s]
               PROVE  res2[d] = "success"
    BY <1>3 DEF Ordered
  <2>1. st[s] = "running" \/ res[s] \in WasRun
    BY <1>1, <1>3, <1>4 DEF WasRun
  <2>2. res[d] = "success" /\ d \in Steps
    BY <1>1, <2>1 DEF Ordered, TypeOK
  <2>3. st[d] = "settled"
    BY <1>1, <2>2
  <2> QED
    BY <1>4, <2>2, <2>3
<1>8. SettledIn(state) \subseteq SettledIn(st2)
  BY <1>1, <1>3 DEF SettledIn
<1>9. WellFormed(st2, res2, ready, run, reason)
  <2>1. st2 \in [Steps -> NodeStates]
    BY <1>3 DEF NodeStates
  <2> HIDE DEF st2, res2
  <2> QED
    BY <1>1, <1>4, <1>5, <1>6, <2>1 DEF WellFormed, TypeOK
<1>10. reason # "none"
  BY DEF StopReasons
<1> HIDE DEF st2, res2
<1>11. Coherent(st2, res2, ready, run, reason)
  BY <1>3, <1>7, <1>9, <1>10 DEF Coherent
<1> QED
  BY <1>8, <1>11 DEF st2, res2

\* A running step that comes back, with its result recorded.
LEMMA RecordIsMidway ==
  ASSUME IInv, NEW s \in Steps, state[s] = "running", NEW value \in Statuses
  PROVE  /\ Midway(Settle(state, {s}), Record(result, {s}, value), running - 1)
         /\ outcome = "open" /\ finishes = 0
<1> DEFINE st  == Settle(state, {s})
           res == Record(result, {s}, value)
<1>1. /\ TypeOK
      /\ WellFormed(state, result, ready, running, stopReason)
      /\ Ordered(state, result)
  BY DEF IInv, Coherent
<1>2. /\ state \in [Steps -> NodeStates]
      /\ result \in [Steps -> Statuses \cup {"none"}]
      /\ \A t \in Steps : result[t] = "none" <=> state[t] # "settled"
  BY <1>1 DEF WellFormed
<1>3. /\ st \in [Steps -> NodeStates]
      /\ st[s] = "settled"
      /\ \A t \in Steps \ {s} : st[t] = state[t]
  BY <1>2 DEF Settle, NodeStates
<1>4. /\ res \in [Steps -> Statuses \cup {"none"}]
      /\ res[s] = value
      /\ \A t \in Steps \ {s} : res[t] = result[t]
  BY <1>2 DEF Record
<1>5. value # "none"
  BY DEF Statuses, AllRunStatuses
<1>6. \A t \in Steps : res[t] = "none" <=> st[t] # "settled"
  BY <1>2, <1>3, <1>4, <1>5
<1>7. Ordered(st, res)
  <2> SUFFICES ASSUME NEW t \in Steps,
                      st[t] \in {"ready", "running"} \/ res[t] \in WasRun,
                      NEW d \in deps[t]
               PROVE  res[d] = "success"
    BY DEF Ordered
  <2>1. state[t] \in {"ready", "running"} \/ result[t] \in WasRun
    BY <1>3, <1>4
  <2>2. result[d] = "success" /\ d \in Steps
    BY <1>1, <2>1 DEF Ordered, TypeOK
  <2>3. d # s
    BY <1>2, <2>2
  <2> QED
    BY <1>4, <2>2, <2>3
<1>8. /\ running - 1 \in 0..concurrency
      /\ running - 1 = Cardinality(RunningIn(st))
  <2>1. /\ RunningIn(state) \in SUBSET Steps
        /\ s \in RunningIn(state)
        /\ RunningIn(st) = RunningIn(state) \ {s}
    BY <1>3 DEF RunningIn
  <2> HIDE DEF st
  <2>2. IsFiniteSet(RunningIn(state)) /\ RunningIn(st) \in SUBSET Steps
    BY <2>1, StepSets
  <2>3. Cardinality(RunningIn(st)) = Cardinality(RunningIn(state)) - 1
    <3>1. Cardinality(RunningIn(state) \ {s}) = Cardinality(RunningIn(state)) - 1
      BY <2>1, <2>2, FS_RemoveElement
    <3> QED
      BY <2>1, <3>1
  <2>4. Cardinality(RunningIn(st)) \in Nat
    BY <2>2, StepSets, NumStepsAssumption
  <2>5. running = Cardinality(RunningIn(state)) /\ running \in 0..concurrency
    BY <1>1 DEF WellFormed
  <2> QED
    BY <2>3, <2>4, <2>5, NumStepsAssumption, <1>1 DEF TypeOK
<1>9. SettledIn(state) \subseteq SettledIn(st)
  BY <1>3 DEF SettledIn
<1>10. Midway(st, res, running - 1)
  <2> HIDE DEF st, res
  <2> QED
    BY <1>3, <1>4, <1>6, <1>7, <1>8, <1>9 DEF Midway
<1>11. running # 0
  <2>1. RunningIn(state) \in SUBSET Steps /\ s \in RunningIn(state)
    BY DEF RunningIn
  <2>2. Cardinality(RunningIn(state)) # 0
    BY <2>1, StepSets
  <2> QED
    BY <1>1, <2>2 DEF WellFormed
<1>12. outcome = "open" /\ finishes = 0
  <2>1. /\ outcome \in Answered => SettledIn(state) = Steps
        /\ outcome = "created" => running = 0
        /\ outcome # "threw"
        /\ finishes = IF outcome \in Answered THEN 1 ELSE 0
        /\ outcome \in Outcomes
    BY DEF IInv, TypeOK
  <2>2. SettledIn(state) # Steps
    BY DEF SettledIn
  <2> QED
    BY <1>11, <2>1, <2>2 DEF Outcomes, Answered
<1> QED
  BY <1>10, <1>12

\* The skipped steps are the least set of pending steps that contains the
\* blocked dependents and, with a step, its pending dependents.
LEMMA SkippedIsLeast ==
  ASSUME NEW st, NEW res, NEW c
  PROVE  LET K == Skipped(st, res, c)
         IN  /\ K \subseteq Pending(st)
             /\ Blocked(st, res, c) \subseteq K
             /\ IsClosed(K, st)
             /\ \A L \in SUBSET Pending(st) :
                  Blocked(st, res, c) \subseteq L /\ IsClosed(L, st)
                    => K \subseteq L
<1> DEFINE K == Skipped(st, res, c)
           Bound(L) == Blocked(st, res, c) \subseteq L /\ IsClosed(L, st)
<1>1. Blocked(st, res, c) \subseteq Pending(st)
  BY DEF Blocked, PendingDependents
<1>2. \A t \in Pending(st) :
        t \in K <=> \A L \in SUBSET Pending(st) : Bound(L) => t \in L
  BY DEF Skipped
<1>3. K \subseteq Pending(st)
  BY DEF Skipped
<1>4. Blocked(st, res, c) \subseteq K
  BY <1>1, <1>2
<1>5. ASSUME NEW t \in Pending(st), deps[t] \cap K # {} PROVE t \in K
  <2>1. PICK d \in deps[t] : d \in K
    BY <1>5
  <2>2. ASSUME NEW L \in SUBSET Pending(st), Bound(L) PROVE t \in L
    <3>1. d \in L
      BY <1>2, <1>3, <2>1, <2>2
    <3> QED
      BY <2>1, <2>2, <3>1 DEF IsClosed
  <2> QED
    BY <1>2, <2>2
<1>6. \A L \in SUBSET Pending(st) : Bound(L) => K \subseteq L
  BY <1>2, <1>3
<1> QED
  BY <1>3, <1>4, <1>5, <1>6 DEF IsClosed

\* releaseDependents() leaves coherent values: what waits still waits for a
\* step that has not settled, and everything behind a failure is skipped.
LEMMA ReleaseIsCoherent ==
  ASSUME IInv, stopReason = "none",
         NEW c \in Steps, state[c] = "running",
         NEW r \in Statuses \ {"skipped"},
         NEW order \in Ascending(Unlocked(Settle(state, {c}),
                                          Record(result, {c}, r), c))
  PROVE  LET st   == Settle(state, {c})
             res  == Record(result, {c}, r)
             skip == Skipped(st, res, c)
             st2  == [s \in Steps |-> IF s \in Unlocked(st, res, c) THEN "ready"
                                      ELSE Settle(st, skip)[s]]
         IN  /\ Coherent(st2, Record(res, skip, "skipped"), ready \o order,
                         running - 1, "none")
             /\ SettledIn(state) \subseteq SettledIn(st2)
<1> DEFINE st   == Settle(state, {c})
           res  == Record(result, {c}, r)
           skip == Skipped(st, res, c)
           unlock == Unlocked(st, res, c)
           st2  == [s \in Steps |-> IF s \in unlock THEN "ready"
                                    ELSE Settle(st, skip)[s]]
           res2 == Record(res, skip, "skipped")
           q2   == ready \o order
<1>1. /\ TypeOK
      /\ WellFormed(state, result, ready, running, stopReason)
      /\ Ordered(state, result)
      /\ Flowing(state, result, ready)
  BY DEF IInv, Coherent
<1>2. Midway(st, res, running - 1)
  BY RecordIsMidway
<1>3. /\ st \in [Steps -> NodeStates]
      /\ res \in [Steps -> Statuses \cup {"none"}]
      /\ running - 1 \in 0..concurrency
      /\ running - 1 = Cardinality(RunningIn(st))
      /\ \A s \in Steps : res[s] = "none" <=> st[s] # "settled"
      /\ Ordered(st, res)
      /\ SettledIn(state) \subseteq SettledIn(st)
  BY <1>2 DEF Midway
<1>4. /\ st[c] = "settled" /\ res[c] = r
      /\ \A s \in Steps \ {c} : st[s] = state[s] /\ res[s] = result[s]
  BY DEF Settle, Record
<1>5. \A s \in Steps : deps[s] \subseteq Steps
  BY <1>1 DEF TypeOK
<1>6. \A s \in Steps : result[s] = "none" <=> state[s] # "settled"
  BY <1>1 DEF WellFormed
<1> HIDE DEF st, res
<1>7. /\ skip \subseteq Pending(st)
      /\ Blocked(st, res, c) \subseteq skip
      /\ IsClosed(skip, st)
      /\ \A L \in SUBSET Pending(st) :
           Blocked(st, res, c) \subseteq L /\ IsClosed(L, st) => skip \subseteq L
  BY SkippedIsLeast
<1>8. unlock = {t \in PendingDependents(st, c) \ skip :
                  \A d \in deps[t] : st[d] = "settled"}
  BY DEF Unlocked
<1> HIDE DEF skip, unlock
<1>9. /\ \A t \in skip : t \in Steps /\ st[t] = "pending"
      /\ \A t \in unlock : t \in Steps /\ st[t] = "pending" /\ t \notin skip
  BY <1>7, <1>8 DEF Pending, PendingDependents
<1>10. /\ \A s \in Steps : st2[s] = IF s \in unlock THEN "ready"
                                    ELSE IF s \in skip THEN "settled"
                                    ELSE st[s]
       /\ st2 \in [Steps -> NodeStates]
  BY <1>3 DEF Settle, NodeStates
<1>11. /\ \A s \in Steps : res2[s] = IF s \in skip THEN "skipped" ELSE res[s]
       /\ res2 \in [Steps -> Statuses \cup {"none"}]
  BY <1>3 DEF Record, Statuses
<1> HIDE DEF st2, res2
<1>12. \A s \in Steps : res2[s] = "none" <=> st2[s] # "settled"
  BY <1>3, <1>9, <1>10, <1>11
<1>13. RunningIn(st2) = RunningIn(st)
  BY <1>9, <1>10 DEF RunningIn
<1>14. SettledIn(state) \subseteq SettledIn(st2)
  BY <1>3, <1>9, <1>10 DEF SettledIn
<1>15. /\ q2 \in Seq(Steps)
       /\ \A i \in 1..Len(ready) : i \in 1..Len(q2) /\ q2[i] = ready[i]
       /\ \A s \in unlock : \E i \in 1..Len(q2) : q2[i] = s
  <2>1. order \in [1..Cardinality(unlock) -> unlock]
    BY DEF Ascending, unlock, st, res
  <2>2. \A s \in unlock : \E i \in 1..Cardinality(unlock) : order[i] = s
    BY DEF Ascending, unlock, st, res
  <2>3. Cardinality(unlock) \in Nat
    <3>1. unlock \in SUBSET Steps
      BY <1>9
    <3> QED
      BY <3>1, StepSets, NumStepsAssumption
  <2>4. order \in Seq(Steps) /\ Len(order) = Cardinality(unlock)
    BY <1>9, <2>1, <2>3
  <2>5. ready \in Seq(Steps) /\ Len(ready) \in Nat
    BY <1>1, LenProperties DEF TypeOK
  <2>6. /\ q2 \in Seq(Steps)
        /\ Len(q2) = Len(ready) + Len(order)
        /\ \A i \in 1..(Len(ready) + Len(order)) :
             q2[i] = IF i <= Len(ready) THEN ready[i] ELSE order[i - Len(ready)]
    BY <2>4, <2>5, ConcatProperties
  <2> HIDE DEF q2
  <2>7. \A i \in 1..Len(ready) : i \in 1..Len(q2) /\ q2[i] = ready[i]
    BY <2>3, <2>4, <2>5, <2>6
  <2>8. ASSUME NEW s \in unlock PROVE \E i \in 1..Len(q2) : q2[i] = s
    <3>1. PICK j \in 1..Cardinality(unlock) : order[j] = s
      BY <2>2
    <3>2. /\ Len(ready) + j \in 1..Len(q2)
          /\ ~(Len(ready) + j <= Len(ready))
          /\ (Len(ready) + j) - Len(ready) = j
      BY <2>3, <2>4, <2>5, <2>6
    <3>3. q2[Len(ready) + j] = s
      BY <2>6, <3>1, <3>2
    <3> QED
      BY <3>2, <3>3
  <2> QED
    BY <2>6, <2>7, <2>8
<1> HIDE DEF q2
<1>16. ASSUME NEW t \in Steps, st[t] = "pending", t \notin skip, NEW d \in deps[t]
       PROVE  d \notin skip /\ ~Failed(res[d]) /\ res2[d] = res[d]
  <2>1. t # c /\ state[t] = "pending" /\ d \in Steps
    BY <1>4, <1>5, <1>16
  <2>2. d \notin skip
    BY <1>7, <1>16 DEF IsClosed, Pending
  <2>3. CASE d = c
    BY <1>7, <1>11, <1>16, <2>1, <2>2, <2>3
    DEF Blocked, PendingDependents, Pending
  <2>4. CASE d # c
    <3>1. ~Failed(result[d])
      BY <1>1, <2>1 DEF Flowing
    <3> QED
      BY <1>4, <1>11, <2>1, <2>2, <2>4, <3>1
  <2> QED
    BY <2>3, <2>4
<1>17. WellFormed(st2, res2, q2, running - 1, "none")
  BY <1>3, <1>10, <1>11, <1>12, <1>13, <1>15 DEF WellFormed
<1>18. Ordered(st2, res2)
  <2> SUFFICES ASSUME NEW s \in Steps,
                      st2[s] \in {"ready", "running"} \/ res2[s] \in WasRun,
                      NEW d \in deps[s]
               PROVE  res2[d] = "success"
    BY DEF Ordered
  <2>1. CASE s \in unlock
    <3>1. d \in Steps /\ st[s] = "pending" /\ s \notin skip /\ st[d] = "settled"
      BY <1>5, <1>8, <1>9, <2>1
    <3>2. ~Failed(res[d]) /\ res2[d] = res[d]
      BY <1>16, <3>1
    <3>3. res[d] # "none"
      BY <1>3, <3>1
    <3> QED
      BY <3>2, <3>3 DEF Failed
  <2>2. CASE s \notin unlock
    <3>1. s \notin skip
      BY <1>10, <1>11, <2>2 DEF WasRun
    <3>2. st[s] \in {"ready", "running"} \/ res[s] \in WasRun
      BY <1>10, <1>11, <2>2, <3>1
    <3>3. d \in Steps /\ res[d] = "success"
      BY <1>3, <1>5, <3>2 DEF Ordered
    <3>4. d \notin skip
      BY <1>3, <1>9, <3>3
    <3> QED
      BY <1>11, <3>3, <3>4
  <2> QED
    BY <2>1, <2>2
<1>19. ASSUME NEW s \in Steps, st2[s] = "ready"
       PROVE  \E i \in 1..Len(q2) : q2[i] = s
  <2>1. CASE s \in unlock
    BY <1>15, <2>1
  <2>2. CASE s \notin unlock
    <3>1. st[s] = "ready"
      BY <1>10, <1>19, <2>2
    <3>2. state[s] = "ready"
      BY <1>4, <3>1
    <3>3. PICK i \in 1..Len(ready) : ready[i] = s
      BY <1>1, <3>2 DEF Flowing
    <3> QED
      BY <1>15, <3>3
  <2> QED
    BY <2>1, <2>2
<1>20. ASSUME NEW s \in Steps, st2[s] = "pending"
       PROVE  /\ \E d \in deps[s] : st2[d] # "settled"
              /\ \A d \in deps[s] : ~Failed(res2[d])
  <2>1. st[s] = "pending" /\ s \notin skip /\ s \notin unlock
    BY <1>10, <1>20
  <2>2. state[s] = "pending" /\ s # c
    BY <1>4, <2>1
  <2>3. \A d \in deps[s] : ~Failed(res2[d])
    BY <1>16, <2>1
  <2>4. SUFFICES ASSUME \A d \in deps[s] : st2[d] = "settled" PROVE FALSE
    BY <2>3
  <2>5. \A d \in deps[s] : st[d] = "settled"
    BY <1>5, <1>10, <1>16, <2>1, <2>4
  <2>6. PICK d \in deps[s] : state[d] # "settled"
    BY <1>1, <2>2 DEF Flowing
  <2>7. d = c
    BY <1>4, <1>5, <2>5, <2>6
  <2>8. s \in unlock
    BY <1>8, <2>1, <2>5, <2>7 DEF PendingDependents, Pending
  <2> QED
    BY <2>1, <2>8
<1>21. ASSUME NEW s \in skip PROVE \E d \in deps[s] : Failed(res2[d])
  <2> DEFINE L == {t \in skip : \E d \in deps[t] : Failed(res2[d])}
  <2>1. L \in SUBSET Pending(st)
    BY <1>7
  <2>2. Blocked(st, res, c) \subseteq L
    <3> SUFFICES ASSUME NEW t \in Blocked(st, res, c) PROVE t \in L
      OBVIOUS
    <3>1. PICK d \in deps[t] : Failed(res[d])
      BY DEF Blocked
    <3>2. t \in skip /\ d \in Steps
      BY <1>5, <1>7, <1>9
    <3>3. Failed(res2[d])
      BY <1>11, <3>1, <3>2 DEF Failed
    <3> QED
      BY <3>2, <3>3
  <2>3. IsClosed(L, st)
    <3> SUFFICES ASSUME NEW t \in Pending(st), NEW d \in deps[t], d \in L
                 PROVE  t \in L
      BY DEF IsClosed
    <3>1. d \in skip /\ d \in Steps
      BY <1>9
    <3>2. t \in skip
      BY <1>7, <3>1 DEF IsClosed
    <3>3. Failed(res2[d])
      BY <1>11, <3>1 DEF Failed
    <3> QED
      BY <3>2, <3>3
  <2> QED
    BY <1>7, <2>1, <2>2, <2>3
<1>22. ASSUME NEW s \in Steps, st2[s] = "settled"
       PROVE  IF res2[s] = "skipped"
              THEN \E d \in deps[s] : Failed(res2[d])
              ELSE \A d \in deps[s] : res2[d] = "success"
  <2>1. CASE s \in skip
    BY <1>11, <1>21, <2>1
  <2>2. CASE s \notin skip
    <3>1. st[s] = "settled" /\ res2[s] = res[s]
      BY <1>10, <1>11, <1>22, <2>2
    <3>2. \A d \in deps[s] : d \in Steps
                             /\ (res[d] # "none" => res2[d] = res[d])
      BY <1>3, <1>5, <1>9, <1>11
    <3>3. CASE s = c
      <4>1. \A d \in deps[s] : result[d] = "success"
        BY <1>1, <3>3 DEF Ordered
      <4>2. \A d \in deps[s] : res[d] = "success"
        BY <1>4, <1>6, <3>2, <4>1
      <4> QED
        BY <1>4, <3>1, <3>2, <3>3, <4>2
    <3>4. CASE s # c
      <4>1. state[s] = "settled" /\ res[s] = result[s]
        BY <1>4, <3>1, <3>4
      <4>2. \A d \in deps[s] : result[d] # "none" => res2[d] = result[d]
        BY <1>4, <1>6, <3>2
      <4>3. IF result[s] = "skipped"
            THEN \E d \in deps[s] : Failed(result[d])
            ELSE \A d \in deps[s] : result[d] = "success"
        BY <1>1, <4>1 DEF Flowing
      <4>4. \A x : Failed(x) => x # "none"
        BY DEF Failed
      <4> QED
        BY <3>1, <4>1, <4>2, <4>3, <4>4
    <3> QED
      BY <3>3, <3>4
  <2> QED
    BY <2>1, <2>2
<1>23. Coherent(st2, res2, q2, running - 1, "none")
  BY <1>17, <1>18, <1>19, <1>20, <1>22 DEF Coherent, Flowing
<1> QED
  BY <1>14, <1>23 DEF st2, res2, q2, skip, unlock, st, res

-----------------------------------------------------------------------------
(***************************************************************************)
(* The invariant.                                                          *)
(***************************************************************************)

\* What schedule() establishes, together with the handling of the external
\* signal, is the invariant.
LEMMA ScheduledIsInvariant ==
  ASSUME IInv, Scheduled, aborted' \in BOOLEAN,
         NEW registered \in BOOLEAN, Listening(registered)
  PROVE  IInv'
<1>1. /\ deps' = deps /\ failureMode' = failureMode
      /\ concurrency' = concurrency
      /\ Coherent(state', result', ready', running', stopReason')
      /\ settled' = Cardinality(SettledIn(state')) /\ settled' \in 0..NumSteps
      /\ peak' \in running'..concurrency
      /\ (\E s \in Steps : state'[s] = "ready") => running' = concurrency
      /\ outcome' = "open" => running' > 0
      /\ outcome' \in {"open", "resolved", "rejected"}
      /\ outcome' \in Answered => SettledIn(state') = Steps
      /\ finishes' = IF outcome' \in Answered THEN 1 ELSE 0
  BY DEF Scheduled, request
<1>2. listening' \in BOOLEAN /\ (listening' => outcome' = "open")
  BY DEF Listening
<1>3. TypeOK /\ Acyclic(deps)
  BY DEF IInv
<1>4. /\ state' \in [Steps -> NodeStates]
      /\ result' \in [Steps -> Statuses \cup {"none"}]
      /\ ready' \in Seq(Steps)
      /\ running' \in 0..concurrency
      /\ stopReason' \in StopReasons \cup {"none"}
  BY <1>1 DEF Coherent, WellFormed
<1>5. finishes' \in Nat /\ outcome' \in Outcomes
  BY <1>1 DEF Outcomes
<1>6. TypeOK'
  BY <1>1, <1>2, <1>3, <1>4, <1>5 DEF TypeOK, NodeStates
<1>7. Acyclic(deps)'
  BY <1>1, <1>3 DEF Acyclic
<1>8. Coherent(state, result, ready, running, stopReason)'
  BY <1>1 DEF Coherent, WellFormed, Ordered, Flowing
<1>9. (InState("ready"))' # {} => running' = concurrency'
  BY <1>1 DEF InState
<1>10. SettledIn(state)' = SettledIn(state')
  OBVIOUS
<1> QED
  BY <1>1, <1>2, <1>6, <1>7, <1>8, <1>9, <1>10 DEF IInv, Outcomes

LEMMA InitEstablishes == Init => IInv
<1> SUFFICES ASSUME Init PROVE IInv
  OBVIOUS
<1>1. /\ deps \in [Steps -> SUBSET Steps] /\ Acyclic(deps)
      /\ failureMode \in {"continue", "fail_fast"}
      /\ concurrency \in 1..NumSteps
      /\ state = [s \in Steps |-> IF deps[s] = {} THEN "ready" ELSE "pending"]
      /\ result = [s \in Steps |-> "none"]
      /\ ready \in Ascending({s \in Steps : state[s] = "ready"})
      /\ running = 0 /\ settled = 0 /\ peak = 0
      /\ stopReason = "none" /\ aborted \in BOOLEAN /\ listening = FALSE
      /\ outcome = "created" /\ finishes = 0
  BY DEF Init
<1> DEFINE R == {s \in Steps : state[s] = "ready"}
<1>2. /\ ready \in [1..Cardinality(R) -> R]
      /\ \A s \in R : \E i \in 1..Cardinality(R) : ready[i] = s
  BY <1>1 DEF Ascending
<1>3. Cardinality(R) \in Nat
  <2>1. R \in SUBSET Steps
    OBVIOUS
  <2> HIDE DEF R
  <2> QED
    BY <2>1, StepSets, NumStepsAssumption
<1>4. /\ ready \in Seq(Steps)
      /\ \A s \in Steps : state[s] = "ready" =>
            \E i \in 1..Len(ready) : ready[i] = s
  <2>1. R \subseteq Steps /\ \A s \in Steps : state[s] = "ready" => s \in R
    OBVIOUS
  <2> DEFINE n == Cardinality(R)
  <2>2. /\ n \in Nat /\ ready \in [1..n -> R]
        /\ \A s \in R : \E i \in 1..n : ready[i] = s
    BY <1>2, <1>3
  <2> HIDE DEF R, n
  <2>3. ready \in [1..n -> Steps]
    BY <2>1, <2>2
  <2>4. ready \in Seq(Steps) /\ Len(ready) = n
    BY <2>2, <2>3
  <2> QED
    BY <2>1, <2>2, <2>4
<1>5. RunningIn(state) = {} /\ SettledIn(state) = {}
  BY <1>1 DEF RunningIn, SettledIn
<1>6. state \in [Steps -> NodeStates]
  BY <1>1 DEF NodeStates
<1>7. concurrency \in Nat /\ concurrency > 0
  BY <1>1, NumStepsAssumption
<1>8. WellFormed(state, result, ready, running, stopReason)
  <2>1. result \in [Steps -> Statuses \cup {"none"}]
    BY <1>1
  <2>2. running \in 0..concurrency /\ running = Cardinality(RunningIn(state))
    <3>1. Cardinality({}) = 0
      BY FS_EmptySet
    <3>2. running = 0 /\ RunningIn(state) = {}
      BY <1>1, <1>5
    <3> QED
      BY <1>7, <3>1, <3>2
  <2>3. stopReason \in StopReasons \cup {"none"}
    BY <1>1
  <2>4. \A s \in Steps : result[s] = "none" <=> state[s] # "settled"
    BY <1>1
  <2> HIDE DEF R
  <2> QED
    BY <1>4, <1>6, <2>1, <2>2, <2>3, <2>4 DEF WellFormed
<1>9. Ordered(state, result)
  BY <1>1 DEF Ordered, WasRun
<1>10. Flowing(state, result, ready)
  BY <1>1, <1>4 DEF Flowing, Failed
<1>11. TypeOK
  <2>1. /\ running \in 0..concurrency /\ settled \in 0..NumSteps
        /\ peak \in running..concurrency /\ finishes \in Nat
    BY <1>1, <1>7, NumStepsAssumption
  <2>2. /\ result \in [Steps -> Statuses \cup {"none"}]
        /\ stopReason \in StopReasons \cup {"none"}
        /\ outcome \in Outcomes /\ listening \in BOOLEAN
    BY <1>1 DEF Outcomes
  <2> QED
    BY <1>1, <1>4, <1>6, <2>1, <2>2 DEF TypeOK, NodeStates
<1> QED
  BY <1>1, <1>5, <1>8, <1>9, <1>10, <1>11, FS_EmptySet
  DEF IInv, Coherent, Answered

\* Where the handlers other than those of steps start from.
LEMMA NowIsMidway ==
  ASSUME IInv
  PROVE  Midway(state, result, running)
<1> QED
  BY DEF IInv, Coherent, WellFormed, Midway

LEMMA StartEstablishes ==
  ASSUME IInv, Start
  PROVE  Scheduled /\ IInv'
<1>1. /\ TypeOK /\ Acyclic(deps)
      /\ settled = Cardinality(SettledIn(state))
      /\ Coherent(state, result, ready, running, stopReason)
      /\ outcome = "created" /\ stopReason = "none" /\ finishes = 0
  BY DEF IInv, Start, Answered
<1>2. CASE aborted
  <2>1. StopAndSchedule(state, result, running, "external_cancellation")
          /\ Listening(FALSE)
    BY <1>2 DEF Start
  <2>2. Scheduled
    BY <1>1, <2>1, NowIsMidway, StopIsCoherent, ScheduleEstablishes
    DEF StopAndSchedule, StopReasons
  <2> QED
    BY <2>1, <2>2, ScheduledIsInvariant DEF Start, IInv, TypeOK
<1>3. CASE ~aborted
  <2>1. Schedule(state, result, ready, running, "none") /\ Listening(TRUE)
    BY <1>3 DEF Start
  <2>2. Scheduled
    BY <1>1, <2>1, ScheduleEstablishes
  <2> QED
    BY <2>1, <2>2, ScheduledIsInvariant DEF Start, IInv, TypeOK
<1> QED
  BY <1>2, <1>3

LEMMA AbortEstablishes ==
  ASSUME IInv, ExternalAbort
  PROVE  IInv'
<1>1. /\ TypeOK /\ Acyclic(deps)
      /\ settled = Cardinality(SettledIn(state))
      /\ Coherent(state, result, ready, running, stopReason)
      /\ listening => outcome = "open" /\ finishes = 0
      /\ aborted' = TRUE /\ listening' = FALSE
  BY DEF IInv, ExternalAbort, Answered
<1>2. Listening(FALSE)
  BY <1>1 DEF Listening
<1>3. CASE ~listening
  <2>1. UNCHANGED <<deps, failureMode, concurrency, state, result, ready,
                    running, settled, peak, stopReason, outcome, finishes>>
    BY <1>3 DEF ExternalAbort, request
  <2>2. TypeOK'
    BY <1>1, <2>1 DEF TypeOK
  <2>3. Acyclic(deps)' /\ Coherent(state, result, ready, running, stopReason)'
    BY <1>1, <2>1 DEF Acyclic, Coherent, WellFormed, Ordered, Flowing
  <2>4. InState("ready")' = InState("ready") /\ SettledIn(state)' = SettledIn(state)
    BY <2>1 DEF InState
  <2>5. outcome = "created" => stopReason = "none" /\ running = 0
    BY DEF IInv
  <2>6. /\ outcome # "created" /\ InState("ready") # {} => running = concurrency
        /\ outcome = "open" => running > 0
        /\ outcome \in Answered => SettledIn(state) = Steps
        /\ finishes = IF outcome \in Answered THEN 1 ELSE 0
        /\ outcome # "threw"
    BY DEF IInv
  <2> QED
    BY <1>1, <2>1, <2>2, <2>3, <2>4, <2>5, <2>6 DEF IInv
<1>4. CASE listening /\ stopReason = "none"
  <2>1. StopAndSchedule(state, result, running, "external_cancellation")
    BY <1>4 DEF ExternalAbort
  <2>2. Scheduled
    BY <1>1, <1>4, <2>1, NowIsMidway, StopIsCoherent, ScheduleEstablishes
    DEF StopAndSchedule, StopReasons
  <2> QED
    BY <1>1, <1>2, <2>2, ScheduledIsInvariant
<1>5. CASE listening /\ stopReason # "none"
  <2>1. Schedule(state, result, ready, running, stopReason)
    BY <1>5 DEF ExternalAbort
  <2>2. Scheduled
    BY <1>1, <1>5, <2>1, ScheduleEstablishes
  <2> QED
    BY <1>1, <1>2, <2>2, ScheduledIsInvariant
<1> QED
  BY <1>3, <1>4, <1>5

\* The three things a handler of a running step can do.
LEMMA StepEndsAfterStopEstablishes ==
  ASSUME IInv, NEW s \in Steps, state[s] = "running", NEW r \in Statuses,
         StepEndsAfterStop(s, r)
  PROVE  Scheduled
<1> DEFINE st == Settle(state, {s})
           res == Record(result, {s}, r)
<1>1. /\ TypeOK /\ Acyclic(deps)
      /\ settled = Cardinality(SettledIn(state))
      /\ Coherent(state, result, ready, running, stopReason)
      /\ stopReason # "none"
      /\ Schedule(st, res, ready, running - 1, stopReason)
  BY DEF IInv, StepEndsAfterStop
<1>2. Midway(st, res, running - 1) /\ finishes = 0
  BY RecordIsMidway
<1>3. \A t \in Steps : st[t] \in {"running", "settled"}
  BY <1>1 DEF Coherent, Settle
<1> HIDE DEF st, res
<1>4. WellFormed(st, res, ready, running - 1, stopReason)
  BY <1>1, <1>2 DEF Midway, Coherent, WellFormed
<1>5. Coherent(st, res, ready, running - 1, stopReason)
  BY <1>1, <1>2, <1>3, <1>4 DEF Midway, Coherent
<1>6. SettledIn(state) \subseteq SettledIn(st)
  BY <1>2 DEF Midway
<1> QED
  BY <1>1, <1>2, <1>5, <1>6, ScheduleEstablishes

LEMMA StepStopsEstablishes ==
  ASSUME IInv, NEW s \in Steps, state[s] = "running", NEW r \in Statuses,
         NEW reason \in StopReasons,
         StopAndSchedule(Settle(state, {s}), Record(result, {s}, r),
                         running - 1, reason)
  PROVE  Scheduled
<1>1. /\ TypeOK /\ Acyclic(deps)
      /\ settled = Cardinality(SettledIn(state))
  BY DEF IInv
<1>2. /\ Midway(Settle(state, {s}), Record(result, {s}, r), running - 1)
      /\ finishes = 0
  BY RecordIsMidway
<1> QED
  BY <1>1, <1>2, StopIsCoherent, ScheduleEstablishes DEF StopAndSchedule

LEMMA StepReleasesEstablishes ==
  ASSUME IInv, NEW s \in Steps, state[s] = "running",
         NEW r \in Statuses \ {"skipped"}, stopReason = "none",
         ReleaseAndSchedule(Settle(state, {s}), Record(result, {s}, r),
                            running - 1, s)
  PROVE  Scheduled
<1> DEFINE st   == Settle(state, {s})
           res  == Record(result, {s}, r)
           skip == Skipped(st, res, s)
           st2  == [t \in Steps |-> IF t \in Unlocked(st, res, s) THEN "ready"
                                    ELSE Settle(st, skip)[t]]
           res2 == Record(res, skip, "skipped")
<1>1. PICK order \in Ascending(Unlocked(st, res, s)) :
        Schedule(st2, res2, ready \o order, running - 1, "none")
  BY DEF ReleaseAndSchedule
<1>2. /\ Coherent(st2, res2, ready \o order, running - 1, "none")
      /\ SettledIn(state) \subseteq SettledIn(st2)
  BY ReleaseIsCoherent
<1>3. /\ TypeOK /\ Acyclic(deps)
      /\ settled = Cardinality(SettledIn(state))
      /\ finishes = 0
  BY RecordIsMidway DEF IInv
<1> HIDE DEF st2, res2
<1> QED
  BY <1>1, <1>2, <1>3, ScheduleEstablishes

LEMMA StepReturnsEstablishes ==
  ASSUME IInv, StepReturns
  PROVE  Scheduled /\ IInv'
<1>1. SUFFICES Scheduled /\ aborted' = aborted /\ Listening(listening)
  BY ScheduledIsInvariant DEF IInv, TypeOK
<1>2. /\ RunStatuses \subseteq Statuses \ {"skipped"}
      /\ "skipped" \in Statuses
      /\ {"fail_fast", "internal_error"} \subseteq StopReasons
  BY RunStatusesAssumption DEF Statuses, AllRunStatuses, StopReasons
<1>3. ASSUME NEW s \in Steps, NEW r \in RunStatuses, StepFinished(s, r)
      PROVE  Scheduled /\ aborted' = aborted /\ Listening(listening)
  <2>1. state[s] = "running" /\ StepCallback
    BY <1>3 DEF StepFinished
  <2>2. CASE StepFailsFast(s, r)
    BY <1>2, <2>1, <2>2, StepStopsEstablishes DEF StepFailsFast, StepCallback
  <2>3. CASE StepReleases(s, r)
    BY <1>2, <2>1, <2>3, StepReleasesEstablishes DEF StepReleases, StepCallback
  <2>4. CASE StepEndsAfterStop(s, r)
    BY <1>2, <2>1, <2>4, StepEndsAfterStopEstablishes DEF StepCallback
  <2> QED
    BY <1>3, <2>2, <2>3, <2>4 DEF StepFinished
<1>4. ASSUME NEW s \in Steps, StepErrored(s)
      PROVE  Scheduled /\ aborted' = aborted /\ Listening(listening)
  <2>1. state[s] = "running" /\ StepCallback
    BY <1>4 DEF StepErrored
  <2>2. CASE StopAndSchedule(Settle(state, {s}), Record(result, {s}, "skipped"),
                             running - 1, "internal_error")
    BY <1>2, <2>1, <2>2, StepStopsEstablishes DEF StepCallback
  <2>3. CASE StepEndsAfterStop(s, "skipped")
    BY <1>2, <2>1, <2>3, StepEndsAfterStopEstablishes DEF StepCallback
  <2> QED
    BY <1>4, <2>2, <2>3 DEF StepErrored
<1> QED
  BY <1>3, <1>4 DEF StepReturns

LEMMA NextPreserves == IInv /\ [Next]_vars => IInv'
<1> SUFFICES ASSUME IInv, [Next]_vars PROVE IInv'
  OBVIOUS
<1>1. CASE UNCHANGED vars
  BY <1>1 DEF vars, IInv, TypeOK, Acyclic, Coherent, WellFormed, Ordered,
              Flowing, InState
<1> QED
  BY <1>1, StartEstablishes, AbortEstablishes, StepReturnsEstablishes DEF Next

\* The inductive invariant holds in every reachable state of the scheduler.
THEOREM InvariantHolds == Spec => []IInv
<1> QED
  BY InitEstablishes, NextPreserves, PTL DEF Spec

\* A step is ready, runs or has run only after all it depends on succeeded.
THEOREM DependenciesComeFirst == Spec => []DependenciesFirst
<1>1. IInv => DependenciesFirst
  BY DEF IInv, Coherent, Ordered, WasRun, DependenciesFirst
<1> QED
  BY <1>1, InvariantHolds, PTL

\* Every variable keeps its type, and the counters that end the request are
\* exact.
THEOREM CountersAreExact == Spec => []Inv
<1>1. IInv => Inv
  BY DEF IInv, Coherent, WellFormed, RunningIn, SettledIn, InState,
         CountersExact, Inv
<1> QED
  BY <1>1, InvariantHolds, PTL

\* No unanswered request is stranded, for any acyclic graph, and none leaves a
\* slot free that a ready step could use.
THEOREM RequestsNeverStick == Spec => []NeverStuck
<1>1. ASSUME IInv, outcome = "open" PROVE InState("running") # {}
  <2>1. Cardinality(InState("running")) > 0
    BY <1>1 DEF IInv, Coherent, WellFormed, RunningIn, InState
  <2>2. Cardinality({}) = 0
    BY FS_EmptySet
  <2> QED
    BY <2>1, <2>2
<1>2. ASSUME IInv, outcome = "open", InState("ready") # {}
      PROVE  Cardinality(InState("running")) = concurrency
  BY <1>2 DEF IInv, Coherent, WellFormed, RunningIn, InState
<1>3. IInv => NeverStuck
  BY <1>1, <1>2 DEF NeverStuck
<1> QED
  BY <1>3, InvariantHolds, PTL

\* The answer comes once, complete, and finish() does not throw.
THEOREM RequestsAreAnsweredOnce == Spec => []AnsweredOnce
<1>1. ASSUME IInv PROVE AnsweredOnce
  <2>1. outcome \in Answered =>
          \A s \in Steps : state[s] = "settled" /\ result[s] # "none"
    BY <1>1 DEF IInv, Coherent, WellFormed, SettledIn
  <2> QED
    BY <1>1, <2>1 DEF IInv, AnsweredOnce
<1> QED
  BY <1>1, InvariantHolds, PTL

\* Without a stop, skipped means exactly: behind a failure.
THEOREM OnlyDescendantsAreSkipped == Spec => []SkipsOnlyDescendants
<1>1. ASSUME IInv PROVE SkipsOnlyDescendants
  <2> SUFFICES ASSUME outcome = "resolved", stopReason = "none",
                      NEW s \in Steps
               PROVE  result[s] = "skipped" <=>
                        \E d \in deps[s] : result[d] # "success"
    BY DEF SkipsOnlyDescendants
  <2>1. \A t \in Steps : state[t] = "settled" /\ result[t] # "none"
    BY <1>1 DEF IInv, Coherent, WellFormed, SettledIn, Answered
  <2>2. Flowing(state, result, ready) /\ deps[s] \subseteq Steps
    BY <1>1 DEF IInv, Coherent, TypeOK
  <2>3. \A d \in deps[s] : Failed(result[d]) <=> result[d] # "success"
    BY <2>1, <2>2 DEF Failed
  <2> QED
    BY <2>1, <2>2, <2>3 DEF Flowing
<1> QED
  BY <1>1, InvariantHolds, PTL

-----------------------------------------------------------------------------
(***************************************************************************)
(* The scheduler implements ExecContract.  The contract knows neither      *)
(* queue nor counters, so the proof first says what a handler does to the  *)
(* steps (Moves), shows that every handler does that, and then that a      *)
(* handler that does it and keeps the invariant is a step of the contract. *)
(***************************************************************************)
\* What a handler does to the steps when those in E end: nothing that settled
\* is undone, only E stops running, and of what had not started nothing gets a
\* result but "skipped", or "cancelled" once the request has stopped.
Moves(E) ==
    /\ \A s \in Steps : state[s] = "settled" =>
         state'[s] = "settled" /\ result'[s] = result[s]
    /\ \A s \in Steps \ E : state[s] = "running" => state'[s] = "running"
    /\ \A s \in E : state[s] = "running" /\ state'[s] = "settled"
    /\ \A s \in Steps :
         state[s] \in {"pending", "ready"} /\ state'[s] = "settled" =>
           \/ result'[s] = "skipped"
           \/ stopReason' # "none" /\ result'[s] = "cancelled"

-----------------------------------------------------------------------------
\* schedule() only lets ready steps start.
LEMMA ScheduleOnlyStarts ==
  ASSUME NEW st, NEW res, NEW q, NEW run, NEW stop,
         Schedule(st, res, q, run, stop)
  PROVE  /\ \A s \in Steps : st[s] # "ready" => state'[s] = st[s]
         /\ \A s \in Steps : st[s] = "ready" => state'[s] \in {"ready", "running"}
         /\ result' = res
         /\ stopReason' = stop
         /\ deps' = deps
         /\ outcome' # "created"
<1>1. PICK n \in 0..Len(q) :
        state' = [s \in Steps |->
                    IF s \in Started(st, q, n) THEN "running" ELSE st[s]]
  BY DEF Schedule
<1>2. \A s \in Started(st, q, n) : st[s] = "ready"
  BY DEF Started
<1>3. result' = res /\ stopReason' = stop /\ deps' = deps
  BY DEF Schedule, request
<1>4. outcome' # "created"
  BY DEF Schedule, Finish
<1>5. \A s \in Steps : /\ st[s] # "ready" => state'[s] = st[s]
                       /\ st[s] = "ready" => state'[s] \in {"ready", "running"}
  BY <1>1, <1>2
<1> QED
  BY <1>3, <1>4, <1>5

\* A stop, after the results of the steps in E have been recorded.
LEMMA StopMoves ==
  ASSUME IInv, NEW E \in SUBSET Steps, \A s \in E : state[s] = "running",
         NEW value, NEW run, NEW reason \in StopReasons,
         StopAndSchedule(Settle(state, E), Record(result, E, value), run, reason)
  PROVE  Moves(E) /\ deps' = deps /\ outcome' # "created"
<1> DEFINE st  == Settle(state, E)
           res == Record(result, E, value)
           st2  == Settle(st, NotStarted(st))
           res2 == Record(res, NotStarted(st), StopStatus(reason))
<1>1. state \in [Steps -> NodeStates]
  BY DEF IInv, TypeOK, NodeStates
<1>2. \A s \in Steps : /\ st[s] = IF s \in E THEN "settled" ELSE state[s]
                       /\ res[s] = IF s \in E THEN value ELSE result[s]
  BY DEF Settle, Record
<1> HIDE DEF st, res
<1>3. \A s \in Steps :
        /\ st2[s] = IF st[s] \in {"pending", "ready"} THEN "settled" ELSE st[s]
        /\ res2[s] = IF st[s] \in {"pending", "ready"} THEN StopStatus(reason)
                     ELSE res[s]
  BY DEF Settle, Record, NotStarted
<1>4. Schedule(st2, res2, ready, run, reason)
  BY DEF StopAndSchedule, st, res
<1> HIDE DEF st2, res2
<1>5. /\ \A s \in Steps : st2[s] # "ready" => state'[s] = st2[s]
      /\ result' = res2 /\ stopReason' = reason
      /\ deps' = deps /\ outcome' # "created"
  BY <1>4, ScheduleOnlyStarts
<1>6. reason # "none" /\ StopStatus(reason) \in {"cancelled", "skipped"}
  BY DEF StopReasons, StopStatus
<1>7. \A s \in Steps : state'[s] = IF s \notin E /\ state[s] = "running"
                                   THEN "running" ELSE "settled"
  BY <1>1, <1>2, <1>3, <1>5 DEF NodeStates
<1>8. Moves(E)
  BY <1>1, <1>2, <1>3, <1>5, <1>6, <1>7 DEF Moves
<1> QED
  BY <1>5, <1>8

\* No stop: schedule() as it is, after the results of the steps in E.
LEMMA PlainScheduleMoves ==
  ASSUME IInv, NEW E \in SUBSET Steps, \A s \in E : state[s] = "running",
         NEW value, NEW run, NEW stop,
         Schedule(Settle(state, E), Record(result, E, value), ready, run, stop)
  PROVE  Moves(E) /\ deps' = deps /\ outcome' # "created"
<1> DEFINE st  == Settle(state, E)
           res == Record(result, E, value)
<1>1. state \in [Steps -> NodeStates]
  BY DEF IInv, TypeOK, NodeStates
<1>2. \A s \in Steps : /\ st[s] = IF s \in E THEN "settled" ELSE state[s]
                       /\ res[s] = IF s \in E THEN value ELSE result[s]
  BY DEF Settle, Record
<1> HIDE DEF st, res
<1>3. Schedule(st, res, ready, run, stop)
  BY DEF st, res
<1>4. /\ \A s \in Steps : st[s] # "ready" => state'[s] = st[s]
      /\ \A s \in Steps : st[s] = "ready" => state'[s] \in {"ready", "running"}
      /\ result' = res
      /\ deps' = deps /\ outcome' # "created"
  BY <1>3, ScheduleOnlyStarts
<1>5. Moves(E)
  BY <1>1, <1>2, <1>4 DEF Moves, NodeStates
<1> QED
  BY <1>4, <1>5

\* releaseDependents().
LEMMA ReleaseMoves ==
  ASSUME IInv, NEW c \in Steps, state[c] = "running", NEW value, NEW run,
         ReleaseAndSchedule(Settle(state, {c}), Record(result, {c}, value), run, c)
  PROVE  Moves({c}) /\ deps' = deps /\ outcome' # "created"
<1> DEFINE st   == Settle(state, {c})
           res  == Record(result, {c}, value)
           skip == Skipped(st, res, c)
           unlock == Unlocked(st, res, c)
           st2  == [s \in Steps |-> IF s \in unlock THEN "ready"
                                    ELSE Settle(st, skip)[s]]
           res2 == Record(res, skip, "skipped")
<1>1. PICK order \in Ascending(unlock) :
        Schedule(st2, res2, ready \o order, run, "none")
  BY DEF ReleaseAndSchedule
<1>2. state \in [Steps -> NodeStates]
  BY DEF IInv, TypeOK, NodeStates
<1>3. \A s \in Steps : /\ st[s] = IF s = c THEN "settled" ELSE state[s]
                       /\ res[s] = IF s = c THEN value ELSE result[s]
  BY DEF Settle, Record
<1> HIDE DEF st, res
<1>4. \A s \in Steps : s \in skip \/ s \in unlock => st[s] = "pending"
  BY DEF Skipped, Unlocked, PendingDependents, Pending
<1> HIDE DEF skip, unlock
<1>5. \A s \in Steps : /\ st2[s] = IF s \in unlock THEN "ready"
                                   ELSE IF s \in skip THEN "settled" ELSE st[s]
                       /\ res2[s] = IF s \in skip THEN "skipped" ELSE res[s]
  BY DEF Settle, Record
<1> HIDE DEF st2, res2
<1>6. /\ \A s \in Steps : st2[s] # "ready" => state'[s] = st2[s]
      /\ \A s \in Steps : st2[s] = "ready" => state'[s] \in {"ready", "running"}
      /\ result' = res2
      /\ deps' = deps /\ outcome' # "created"
  BY <1>1, ScheduleOnlyStarts
<1>7. Moves({c})
  BY <1>2, <1>3, <1>4, <1>5, <1>6 DEF Moves, NodeStates
<1> QED
  BY <1>6, <1>7

-----------------------------------------------------------------------------
(***************************************************************************)
(* The steps of the contract.                                              *)
(***************************************************************************)

\* The status of the contract, in the old and in the new state.
LEMMA StatusValues ==
  \A s \in Steps :
     /\ StatusOf[s]  = IF state[s] = "settled" THEN result[s]
                       ELSE IF state[s] = "running" THEN "running" ELSE "waiting"
     /\ StatusOf'[s] = IF state'[s] = "settled" THEN result'[s]
                       ELSE IF state'[s] = "running" THEN "running" ELSE "waiting"
<1> QED
  BY DEF StatusOf

\* A handler that moves the steps as Moves(E) says, with one step in E at most,
\* and keeps the invariant is a step of the contract.
LEMMA MovesImplement ==
  ASSUME IInv, IInv', outcome \notin Answered, outcome' # "created", deps' = deps,
         NEW E \in SUBSET Steps, \A s, t \in E : s = t, Moves(E)
  PROVE  Contract!Next
<1>1. /\ \A s \in Steps : result[s] = "none" <=> state[s] # "settled"
      /\ \A s \in Steps : result'[s] = "none" <=> state'[s] # "settled"
      /\ state \in [Steps -> NodeStates] /\ state' \in [Steps -> NodeStates]
      /\ result \in [Steps -> Statuses \cup {"none"}]
      /\ result' \in [Steps -> Statuses \cup {"none"}]
  BY DEF IInv, Coherent, WellFormed
<1>2. /\ \A s \in Steps : deps[s] \subseteq Steps
      /\ \A s \in Steps : state'[s] = "running" =>
                            \A d \in deps[s] : result'[d] = "success"
  BY DEF IInv, TypeOK, Coherent, Ordered
<1>3. stopReason' = "none" =>
        \A s \in Steps : state'[s] = "settled" /\ result'[s] = "skipped" =>
                           \E d \in deps[s] : Failed(result'[d])
  BY DEF IInv, Coherent, Flowing
<1>4. stopReason' # "none" => \A s \in Steps : state'[s] \in {"running", "settled"}
  BY DEF IInv, Coherent
<1>5. {"waiting", "running"} \cap Statuses = {} /\ "none" \notin Statuses
  BY DEF Statuses, AllRunStatuses
<1>6. \A s \in Steps :
        /\ state[s] = "settled" => StatusOf[s] = result[s] /\ result[s] \in Statuses
        /\ state'[s] = "settled" => StatusOf'[s] = result'[s] /\ result'[s] \in Statuses
  BY <1>1, StatusValues
<1>7. ASSUME NEW s \in Steps
      PROVE  StatusOf'[s] \in Statuses <=> state'[s] = "settled"
  BY <1>5, <1>6, StatusValues
<1>8. (outcome \in Answered)' <=> \A s \in Steps : StatusOf'[s] \in Statuses
  <2>1. ASSUME outcome' \in Answered, NEW s \in Steps
        PROVE  state'[s] = "settled"
    BY <2>1 DEF IInv, SettledIn
  <2>2. ASSUME \A s \in Steps : state'[s] = "settled" PROVE outcome' \in Answered
    <3>1. RunningIn(state') = {}
      BY <2>2 DEF RunningIn
    <3>2. running' = 0
      BY <3>1, FS_EmptySet DEF IInv, Coherent, WellFormed
    <3>3. outcome' # "open" /\ outcome' # "threw" /\ outcome' \in Outcomes
      BY <3>2 DEF IInv, TypeOK
    <3> QED
      BY <3>3 DEF Outcomes, Answered
  <2> QED
    BY <1>7, <2>1, <2>2
<1>9. ASSUME NEW s \in Steps, NEW t \in Steps, Contract!Ends(s), Contract!Ends(t)
      PROVE  s = t
  <2>1. ASSUME NEW x \in Steps, Contract!Ends(x) PROVE x \in E
    <3>1. StatusOf[x] = "running" /\ StatusOf'[x] \in Statuses
      BY <2>1 DEF Contract!Ends
    <3>2. state[x] = "running" /\ state'[x] = "settled"
      BY <1>5, <1>6, <1>7, <3>1, StatusValues
    <3> QED
      BY <3>2 DEF Moves
  <2> QED
    BY <1>9, <2>1
<1>10. ASSUME NEW s \in Steps
       PROVE  \/ StatusOf'[s] = StatusOf[s]
              \/ Contract!Begins(s) \/ Contract!Ends(s) \/ Contract!GivenUp(s)
  <2>1. CASE state[s] = "settled"
    BY <1>6, <2>1 DEF Moves
  <2>2. CASE state[s] = "running" /\ s \notin E
    BY <2>2, StatusValues DEF Moves
  <2>3. CASE state[s] = "running" /\ s \in E
    BY <1>7, <2>3, StatusValues DEF Moves, Contract!Ends
  <2>4. CASE state[s] \in {"pending", "ready"}
    <3>1. StatusOf[s] = "waiting"
      BY <2>4, StatusValues
    <3>2. CASE state'[s] \in {"pending", "ready"}
      BY <3>1, <3>2, StatusValues
    <3>3. CASE state'[s] = "running"
      <4>1. ASSUME NEW d \in deps[s] PROVE StatusOf'[d] = "success"
        <5>1. d \in Steps /\ result'[d] = "success"
          BY <1>2, <3>3
        <5>2. state'[d] = "settled"
          BY <1>1, <5>1
        <5> QED
          BY <1>6, <5>1, <5>2
      <4> QED
        BY <3>1, <3>3, <4>1, StatusValues DEF Contract!Begins
    <3>4. CASE state'[s] = "settled" /\ stopReason' = "none"
      <4>1. StatusOf'[s] = "skipped" /\ result'[s] = "skipped"
        BY <1>6, <2>4, <3>4 DEF Moves
      <4>2. PICK d \in deps[s] : Failed(result'[d])
        BY <1>3, <3>4, <4>1
      <4>3. d \in Steps /\ state'[d] = "settled" /\ result'[d] # "success"
        BY <1>1, <1>2, <4>2 DEF Failed
      <4>4. StatusOf'[d] \in Statuses \ {"success"}
        BY <1>6, <4>3
      <4> QED
        BY <3>1, <4>1, <4>4 DEF Contract!GivenUp
    <3>5. CASE state'[s] = "settled" /\ stopReason' # "none"
      <4>1. StatusOf'[s] \in {"skipped", "cancelled"}
        BY <1>6, <2>4, <3>5 DEF Moves
      <4>2. ASSUME NEW t \in Steps PROVE StatusOf'[t] # "waiting"
        BY <1>4, <1>5, <1>6, <3>5, StatusValues
      <4> QED
        BY <3>1, <4>1, <4>2 DEF Contract!GivenUp
    <3> QED
      BY <1>1, <3>2, <3>3, <3>4, <3>5 DEF NodeStates
  <2> QED
    BY <1>1, <2>1, <2>2, <2>3, <2>4 DEF NodeStates
<1>11. (outcome \in Answered)' = \A s \in Steps : StatusOf'[s] \in Statuses
  <2> DEFINE all == \A s \in Steps : StatusOf'[s] \in Statuses
             now == (outcome \in Answered)'
  <2>1. now \in BOOLEAN /\ all \in BOOLEAN /\ (now <=> all)
    BY <1>8
  <2> HIDE DEF all, now
  <2>2. now = all
    BY <2>1
  <2> QED
    BY <2>2 DEF all, now
<1>12. \A s, t \in Steps : Contract!Ends(s) /\ Contract!Ends(t) => s = t
  BY <1>9
<1> QED
  BY <1>10, <1>11, <1>12, Zenon DEF Contract!Next

\* Each handler is a step of the contract or leaves its variables alone.
LEMMA HandlersImplement ==
  ASSUME IInv, IInv', [Next]_vars
  PROVE  [Contract!Next]_(Contract!vars)
<1>0. SUFFICES \/ Contract!Next
               \/ deps' = deps /\ StatusOf' = StatusOf /\ outcome' = outcome
  BY DEF Contract!vars
<1>1. /\ {"external_cancellation", "fail_fast", "internal_error"} \subseteq StopReasons
      /\ Settle(state, {}) = state /\ Record(result, {}, "none") = result
  BY DEF StopReasons, Settle, Record, IInv, TypeOK
<1>2. CASE Start
  <2>1. outcome \notin Answered
    BY <1>2 DEF Start, Answered
  <2>2. CASE aborted
    <3>1. StopAndSchedule(Settle(state, {}), Record(result, {}, "none"), running,
                          "external_cancellation")
      BY <1>1, <1>2, <2>2 DEF Start
    <3>2. Moves({}) /\ deps' = deps /\ outcome' # "created"
      BY <1>1, <3>1, StopMoves
    <3> QED
      BY <2>1, <3>2, MovesImplement
  <2>3. CASE ~aborted
    <3>1. Schedule(Settle(state, {}), Record(result, {}, "none"), ready, running,
                   "none")
      BY <1>1, <1>2, <2>3 DEF Start
    <3>2. Moves({}) /\ deps' = deps /\ outcome' # "created"
      BY <3>1, PlainScheduleMoves
    <3> QED
      BY <2>1, <3>2, MovesImplement
  <2> QED
    BY <2>2, <2>3
<1>3. CASE ExternalAbort
  <2>1. CASE ~listening
    <3>1. deps' = deps /\ state' = state /\ result' = result /\ outcome' = outcome
      BY <1>3, <2>1 DEF ExternalAbort, request
    <3>2. StatusOf' = StatusOf
      BY <3>1 DEF StatusOf
    <3> QED
      BY <3>1, <3>2
  <2>2. listening => outcome \notin Answered
    BY DEF IInv, Answered
  <2>3. CASE listening /\ stopReason = "none"
    <3>1. StopAndSchedule(Settle(state, {}), Record(result, {}, "none"), running,
                          "external_cancellation")
      BY <1>1, <1>3, <2>3 DEF ExternalAbort
    <3>2. Moves({}) /\ deps' = deps /\ outcome' # "created"
      BY <1>1, <3>1, StopMoves
    <3> QED
      BY <2>2, <2>3, <3>2, MovesImplement
  <2>4. CASE listening /\ stopReason # "none"
    <3>1. Schedule(Settle(state, {}), Record(result, {}, "none"), ready, running,
                   stopReason)
      BY <1>1, <1>3, <2>4 DEF ExternalAbort
    <3>2. Moves({}) /\ deps' = deps /\ outcome' # "created"
      BY <3>1, PlainScheduleMoves
    <3> QED
      BY <2>2, <2>4, <3>2, MovesImplement
  <2> QED
    BY <2>1, <2>3, <2>4
<1>4. ASSUME NEW s \in Steps, state[s] = "running",
             Moves({s}) /\ deps' = deps /\ outcome' # "created"
      PROVE  Contract!Next
  <2>1. outcome \notin Answered
    BY <1>4 DEF IInv, SettledIn
  <2> QED
    BY <1>4, <2>1, MovesImplement
<1>5. ASSUME NEW s \in Steps, NEW r, state[s] = "running", StepEndsAfterStop(s, r)
      PROVE  Contract!Next
  <2>1. Moves({s}) /\ deps' = deps /\ outcome' # "created"
    BY <1>5, PlainScheduleMoves DEF StepEndsAfterStop
  <2> QED
    BY <1>4, <1>5, <2>1
<1>6. ASSUME NEW s \in Steps, NEW r \in RunStatuses, StepFinished(s, r)
      PROVE  Contract!Next
  <2>1. state[s] = "running"
    BY <1>6 DEF StepFinished
  <2>2. CASE StepFailsFast(s, r)
    <3>1. Moves({s}) /\ deps' = deps /\ outcome' # "created"
      BY <1>1, <2>1, <2>2, StopMoves DEF StepFailsFast
    <3> QED
      BY <1>4, <2>1, <3>1
  <2>3. CASE StepReleases(s, r)
    <3>1. Moves({s}) /\ deps' = deps /\ outcome' # "created"
      BY <2>1, <2>3, ReleaseMoves DEF StepReleases
    <3> QED
      BY <1>4, <2>1, <3>1
  <2> QED
    BY <1>5, <1>6, <2>1, <2>2, <2>3 DEF StepFinished
<1>7. ASSUME NEW s \in Steps, StepErrored(s)
      PROVE  Contract!Next
  <2>1. state[s] = "running"
    BY <1>7 DEF StepErrored
  <2>2. CASE StepEndsAfterStop(s, "skipped")
    BY <1>5, <2>1, <2>2
  <2>3. CASE ~StepEndsAfterStop(s, "skipped")
    <3>1. Moves({s}) /\ deps' = deps /\ outcome' # "created"
      BY <1>1, <1>7, <2>1, <2>3, StopMoves DEF StepErrored
    <3> QED
      BY <1>4, <2>1, <3>1
  <2> QED
    BY <2>2, <2>3
<1>8. CASE UNCHANGED vars
  BY <1>8 DEF vars, StatusOf
<1> QED
  BY <1>2, <1>3, <1>6, <1>7, <1>8 DEF Next, StepReturns

\* The scheduler implements the contract of a request: for every acyclic graph
\* and every order of completions, errors and aborts, each handler of
\* executeValidated is one step of ExecContract or none.
THEOREM SchedulerImplementsContract == Spec => ImplementsContract
<1>1. Init => Contract!Init
  <2> SUFFICES ASSUME Init PROVE Contract!Init
    OBVIOUS
  <2>1. deps \in [Steps -> SUBSET Steps] /\ outcome \notin Answered
    BY DEF Init, Answered
  <2>2. StatusOf = [s \in Steps |-> "waiting"]
    BY DEF Init, StatusOf
  <2> QED
    BY <2>1, <2>2 DEF Contract!Init
<1>2. IInv /\ IInv' /\ [Next]_vars => [Contract!Next]_(Contract!vars)
  BY HandlersImplement
<1> QED
  BY <1>1, <1>2, InvariantHolds, PTL DEF Spec, ImplementsContract, Contract!Spec

-----------------------------------------------------------------------------
(***************************************************************************)
(* Induction over the natural numbers, stated for sets: for what a         *)
(* recursive function computes, and for the least number with a property.  *)
(***************************************************************************)

\* Every non-empty set of natural numbers has a least element.
LEMMA LeastNumber ==
  ASSUME NEW T \in SUBSET Nat, T # {}
  PROVE  \E n \in T : \A m \in T : n <= m
<1> DEFINE R == OpToRel(<, Nat)
<1>1. IsWellFoundedOn(R, Nat)
  BY NatLessThanWellFounded
<1>2. PICK n \in T : \A m \in T : ~(<<m, n>> \in R)
  <2> HIDE DEF R
  <2> QED
    BY <1>1, WFMin
<1>3. \A m \in T : <<m, n>> \in R <=> m < n
  BY DEF OpToRel
<1> HIDE DEF R
<1>4. \A m \in T : ~(m < n)
  BY <1>2, <1>3
<1>5. n \in Nat /\ \A m \in T : m \in Nat
  OBVIOUS
<1> QED
  BY <1>4, <1>5

\* Induction, for a set of numbers.
LEMMA Induction ==
  ASSUME NEW T, 0 \in T, \A n \in Nat : n \in T => n + 1 \in T
  PROVE  \A n \in Nat : n \in T
<1> DEFINE Missing == {n \in Nat : n \notin T}
<1>1. SUFFICES ASSUME Missing # {} PROVE FALSE
  OBVIOUS
<1>2. PICK n \in Missing : \A m \in Missing : n <= m
  BY <1>1, LeastNumber
<1>3. n \in Nat /\ n # 0 /\ n \notin T
  BY <1>2
<1>4. n - 1 \in Nat /\ ~(n <= n - 1) /\ (n - 1) + 1 = n
  BY <1>3
<1>5. n - 1 \in T
  BY <1>2, <1>4
<1> QED
  BY <1>3, <1>4, <1>5

-----------------------------------------------------------------------------
(***************************************************************************)
(* releaseDependents() as the code has it (ReleaseDependents): what the    *)
(* recursion computes.  Behind a failure it only skips; behind a success   *)
(* it only unlocks.                                                        *)
(***************************************************************************)

\* The steps that wait in w and no longer in v.
Gone(w, v) == {t \in Pending(w.st) : v.st[t] # "pending"}

\* v is w with some pending steps skipped, each for a reason.
OnlySkips(w, v) ==
    /\ v \in Works
    /\ v.q = w.q
    /\ \A t \in Steps \ Gone(w, v) : /\ v.st[t] = w.st[t]
                                     /\ v.res[t] = w.res[t]
                                     /\ v.blockedBy[t] = w.blockedBy[t]
    /\ \A t \in Gone(w, v) :
         /\ v.st[t] = "settled" /\ v.res[t] = "skipped"
         /\ v.blockedBy[t] # {}
         /\ \A d \in v.blockedBy[t] : d \in deps[t] /\ Failed(v.res[d])

\* What a call behind a failure does: neither the completed step nor a skipped
\* one leaves a dependent waiting, and nothing else is skipped.
Releases(w, c, v) ==
    /\ OnlySkips(w, v)
    /\ \A t \in Gone(w, v) \cup {c} : PendingDependents(v.st, t) = {}
    /\ \A K \in SUBSET Steps :
         PendingDependents(w.st, c) \subseteq K /\ IsClosed(K, w.st) => Gone(w, v) \subseteq K

Room(w) == Cardinality(Pending(w.st))

LEMMA SkipOne ==
  ASSUME TypeOK, NEW w \in Works, NEW t \in Pending(w.st), FailedDependencies(w, t) # {}
  PROVE  /\ OnlySkips(w, Skip(w, t)) /\ Gone(w, Skip(w, t)) = {t}
         /\ Failed(Skip(w, t).res[t])
<1> DEFINE x == Skip(w, t)
<1>1. /\ w.st \in [Steps -> NodeStates] /\ w.res \in [Steps -> Statuses \cup {"none"}]
      /\ w.q \in Seq(Steps) /\ w.blockedBy \in [Steps -> SUBSET Steps]
      /\ t \in Steps /\ w.st[t] = "pending"
  BY DEF Works, Pending
<1>2. FailedDependencies(w, t) \in SUBSET Steps
  BY <1>1 DEF TypeOK, FailedDependencies
<1>3. x = [st |-> Settle(w.st, {t}),
           res |-> Record(w.res, {t}, "skipped"),
           q |-> w.q,
           blockedBy |-> [w.blockedBy EXCEPT ![t] = FailedDependencies(w, t)]]
  BY DEF Skip, Works
<1> HIDE DEF x
<1>4. /\ x.st = Settle(w.st, {t})
      /\ x.res = Record(w.res, {t}, "skipped")
      /\ x.q = w.q
      /\ x.blockedBy = [w.blockedBy EXCEPT ![t] = FailedDependencies(w, t)]
  BY <1>3
<1>5. /\ x.st[t] = "settled" /\ x.res[t] = "skipped"
      /\ x.blockedBy[t] = FailedDependencies(w, t)
      /\ \A s \in Steps \ {t} : /\ x.st[s] = w.st[s] /\ x.res[s] = w.res[s]
                                /\ x.blockedBy[s] = w.blockedBy[s]
  BY <1>1, <1>4 DEF Settle, Record
<1>6. x \in Works
  <2>1. x.st \in [Steps -> NodeStates] /\ x.res \in [Steps -> Statuses \cup {"none"}]
    BY <1>1, <1>4 DEF NodeStates, Statuses, Settle, Record
  <2>2. x.blockedBy \in [Steps -> SUBSET Steps]
    BY <1>1, <1>2, <1>4
  <2> QED
    BY <1>1, <1>3, <1>4, <2>1, <2>2 DEF Works
<1>7. Gone(w, x) = {t}
  BY <1>1, <1>5 DEF Gone, Pending
<1>8. Failed(x.res[t])
  BY <1>5 DEF Failed
<1>9. \A d \in x.blockedBy[t] : d \in deps[t] /\ Failed(x.res[d])
  <2> TAKE d \in x.blockedBy[t]
  <2>1. d \in deps[t] /\ Failed(w.res[d]) /\ d \in Steps
    BY <1>2, <1>5 DEF FailedDependencies
  <2> QED
    BY <1>5, <1>8, <2>1
<1>10. OnlySkips(w, x)
  BY <1>4, <1>5, <1>6, <1>7, <1>9 DEF OnlySkips
<1> QED
  BY <1>7, <1>8, <1>10 DEF x

LEMMA SkipsCompose ==
  ASSUME NEW w \in Works, NEW u, NEW v, OnlySkips(w, u), OnlySkips(u, v), TypeOK
  PROVE  /\ OnlySkips(w, v)
         /\ Gone(w, v) = Gone(w, u) \cup Gone(u, v)
<1>1. Gone(w, u) \subseteq Steps /\ Gone(u, v) \subseteq Steps /\ Gone(w, v) \subseteq Steps
  BY DEF Gone, Pending
<1>2. \A t \in Steps : /\ t \in Gone(w, u) <=> w.st[t] = "pending" /\ u.st[t] # "pending"
                       /\ t \in Gone(u, v) <=> u.st[t] = "pending" /\ v.st[t] # "pending"
                       /\ t \in Gone(w, v) <=> w.st[t] = "pending" /\ v.st[t] # "pending"
  BY DEF Gone, Pending
<1>3. \A t \in Steps : t \in Gone(w, v) <=> t \in Gone(w, u) \/ t \in Gone(u, v)
  BY <1>2 DEF OnlySkips
<1>4. Gone(w, v) = Gone(w, u) \cup Gone(u, v)
  BY <1>1, <1>3
<1>5. \A t \in Gone(w, u) : t \notin Gone(u, v)
  BY <1>1, <1>2
<1>6. \A d \in Steps : Failed(u.res[d]) => Failed(v.res[d])
  <2>1. \A d \in Gone(u, v) : Failed(v.res[d])
    BY DEF OnlySkips, Failed
  <2> QED
    BY <2>1 DEF OnlySkips
<1>7. ASSUME NEW t \in Gone(w, v)
      PROVE  /\ v.st[t] = "settled" /\ v.res[t] = "skipped" /\ v.blockedBy[t] # {}
             /\ \A d \in v.blockedBy[t] : d \in deps[t] /\ Failed(v.res[d])
  <2>1. CASE t \in Gone(u, v)
    BY <2>1 DEF OnlySkips
  <2>2. CASE t \in Gone(w, u)
    <3>1. t \in Steps \ Gone(u, v) /\ deps[t] \subseteq Steps
      BY <1>1, <1>5, <2>2 DEF TypeOK
    <3>2. v.st[t] = u.st[t] /\ v.res[t] = u.res[t] /\ v.blockedBy[t] = u.blockedBy[t]
      BY <3>1 DEF OnlySkips
    <3>3. /\ u.st[t] = "settled" /\ u.res[t] = "skipped" /\ u.blockedBy[t] # {}
          /\ \A d \in u.blockedBy[t] : d \in deps[t] /\ Failed(u.res[d])
      BY <2>2 DEF OnlySkips
    <3> QED
      BY <1>6, <3>1, <3>2, <3>3
  <2> QED
    BY <1>4, <2>1, <2>2
<1>8. \A t \in Steps \ Gone(w, v) : /\ v.st[t] = w.st[t] /\ v.res[t] = w.res[t]
                                    /\ v.blockedBy[t] = w.blockedBy[t]
  <2> TAKE t \in Steps \ Gone(w, v)
  <2>1. t \in Steps \ Gone(w, u) /\ t \in Steps \ Gone(u, v)
    BY <1>4
  <2> QED
    BY <2>1 DEF OnlySkips
<1>9. v \in Works /\ v.q = w.q
  BY DEF OnlySkips
<1> QED
  BY <1>4, <1>7, <1>8, <1>9 DEF OnlySkips

\* Skips leave fewer steps pending.
LEMMA SkipsReduceRoom ==
  ASSUME NEW w \in Works, NEW v, OnlySkips(w, v)
  PROVE  /\ Pending(v.st) \subseteq Pending(w.st)
         /\ Room(v) \in Nat /\ Room(w) \in Nat /\ Room(v) <= Room(w)
         /\ Gone(w, v) # {} => Room(v) < Room(w)
<1>1. Pending(v.st) \subseteq Pending(w.st) /\ Pending(w.st) \in SUBSET Steps
  <2>1. \A t \in Steps : v.st[t] = "pending" => w.st[t] = "pending"
    BY DEF OnlySkips, Gone, Pending
  <2> QED
    BY <2>1 DEF Pending
<1>2. IsFiniteSet(Pending(w.st)) /\ Room(w) \in Nat
  BY <1>1, StepSets, NumStepsAssumption DEF Room
<1>3. Room(v) \in Nat /\ Room(v) <= Room(w)
  BY <1>1, <1>2, FS_Subset, FS_CardinalityType DEF Room
<1>4. ASSUME Gone(w, v) # {} PROVE Room(v) # Room(w)
  <2>1. Pending(v.st) # Pending(w.st)
    BY <1>4 DEF Gone, Pending
  <2> QED
    BY <1>1, <1>2, <2>1, FS_Subset DEF Room
<1> QED
  BY <1>1, <1>2, <1>3, <1>4

-----------------------------------------------------------------------------
\* The loop over the dependents, turn by turn.
Turns(release, w, c, n, f) ==
    f = [t \in 0..n |-> IF t = 0 THEN w ELSE ReleaseOne(release, f[t - 1], c, t)]

LEMMA TurnsExist ==
  ASSUME NEW release, NEW w, NEW c, NEW n \in Nat
  PROVE  \E f : Turns(release, w, c, n, f)
<1> DEFINE Turn(v, t) == ReleaseOne(release, v, c, t)
           UpTo(m, f) == f = [t \in 0..m |-> IF t = 0 THEN w ELSE Turn(f[t - 1], t)]
           T == {m \in Nat : \E f : UpTo(m, f)}
<1> HIDE DEF Turn
<1>1. 0 \in T
  <2>1. UpTo(0, [t \in 0..0 |-> w])
    OBVIOUS
  <2> QED
    BY <2>1
<1>2. ASSUME NEW m \in Nat, m \in T PROVE m + 1 \in T
  <2>1. PICK f : UpTo(m, f)
    BY <1>2
  <2> DEFINE g == [t \in 0..(m + 1) |-> IF t = m + 1 THEN Turn(f[m], m + 1) ELSE f[t]]
  <2>2. UpTo(m + 1, g)
    BY <2>1
  <2> HIDE DEF g, UpTo
  <2>3. \E h : UpTo(m + 1, h)
    BY <2>2
  <2> QED
    BY <2>3
<1>3. n \in T
  <2> HIDE DEF T
  <2> QED
    BY <1>1, <1>2, Induction
<1> QED
  BY <1>3 DEF Turns, Turn

LEMMA LoopIs ==
  ASSUME NEW release, NEW w, NEW c
  PROVE  \E f : /\ f[0] = w
                /\ \A t \in Steps : f[t] = ReleaseOne(release, f[t - 1], c, t)
                /\ ReleaseEach(release, w, c) = f[NumSteps]
<1> DEFINE f == CHOOSE f : Turns(release, w, c, NumSteps, f)
<1>1. Turns(release, w, c, NumSteps, f)
  BY TurnsExist, NumStepsAssumption
<1>2. ReleaseEach(release, w, c) = f[NumSteps]
  BY DEF ReleaseEach, Turns
<1> HIDE DEF f
<1>3. f[0] = w /\ \A t \in Steps : f[t] = ReleaseOne(release, f[t - 1], c, t)
  BY <1>1, NumStepsAssumption DEF Turns, Steps
<1> QED
  BY <1>2, <1>3

\* Behind a failure: if the nested calls do what they should, so does the loop.
LEMMA EachReleased ==
  ASSUME TypeOK, NEW w \in Works, NEW c \in Steps, Failed(w.res[c]), NEW release,
         \A x \in Works, t \in Steps :
            Failed(x.res[t]) /\ Room(x) < Room(w) => Releases(x, t, release[x][t])
  PROVE  Releases(w, c, ReleaseEach(release, w, c))
<1>1. PICK f : /\ f[0] = w
               /\ \A t \in Steps : f[t] = ReleaseOne(release, f[t - 1], c, t)
               /\ ReleaseEach(release, w, c) = f[NumSteps]
  BY LoopIs
<1> DEFINE Bound(K) == PendingDependents(w.st, c) \subseteq K /\ IsClosed(K, w.st)
           Good(n) ==
             /\ OnlySkips(w, f[n])
             /\ \A t \in Gone(w, f[n]) : PendingDependents(f[n].st, t) = {}
             /\ \A t \in 1..n : c \in deps[t] => f[n].st[t] # "pending"
             /\ \A K \in SUBSET Steps : Bound(K) => Gone(w, f[n]) \subseteq K
           T == {n \in Nat : n <= NumSteps => Good(n)}
<1>2. Good(0)
  <2>1. Gone(w, w) = {}
    BY DEF Gone, Pending
  <2>2. OnlySkips(w, w)
    BY <2>1 DEF OnlySkips
  <2> QED
    BY <1>1, <2>1, <2>2
<1>3. ASSUME NEW n \in Nat, n + 1 <= NumSteps, Good(n) PROVE Good(n + 1)
  <2> DEFINE t == n + 1
             u == f[n]
             v == f[t]
  <2>1. t \in Steps /\ v = ReleaseOne(release, u, c, t) /\ deps[t] \subseteq Steps
    <3>1. t \in Steps /\ t - 1 = n
      BY <1>3, NumStepsAssumption DEF Steps
    <3> QED
      BY <1>1, <3>1 DEF TypeOK
  <2>2. 1..t = 1..n \cup {t} /\ t \in 1..t
    BY <1>3
  <2>3. u \in Works
    BY <1>3 DEF OnlySkips
  <2>4. CASE c \notin deps[t] \/ u.st[t] # "pending"
    <3>1. v = u
      BY <2>1, <2>4 DEF ReleaseOne
    <3> HIDE DEF Bound
    <3> QED
      BY <1>3, <2>2, <2>4, <3>1
  <2>5. CASE c \in deps[t] /\ u.st[t] = "pending"
    <3> DEFINE x == Skip(u, t)
    <3>1. t \in Pending(u.st) /\ t \in Pending(w.st)
      <4>1. t \in Pending(u.st)
        BY <2>1, <2>5 DEF Pending
      <4> QED
        BY <1>3, <4>1, SkipsReduceRoom
    <3>2. FailedDependencies(u, t) # {}
      <4>1. Failed(u.res[c])
        <5>1. CASE c \in Gone(w, u)
          BY <1>3, <5>1 DEF OnlySkips, Failed
        <5>2. CASE c \notin Gone(w, u)
          BY <1>3, <5>2 DEF OnlySkips
        <5> QED
          BY <5>1, <5>2
      <4> QED
        BY <2>5, <4>1 DEF FailedDependencies
    <3>3. v = release[x][t]
      BY <2>1, <2>5, <3>2 DEF ReleaseOne
    <3>4. OnlySkips(u, x) /\ Gone(u, x) = {t} /\ Failed(x.res[t])
      BY <2>3, <3>1, <3>2, SkipOne
    <3> HIDE DEF x
    <3>5. x \in Works
      BY <3>4 DEF OnlySkips
    <3>6. Room(x) < Room(w)
      <4>1. Room(x) < Room(u) /\ Room(x) \in Nat /\ Room(u) \in Nat
        BY <2>3, <3>4, SkipsReduceRoom
      <4>2. Room(u) <= Room(w) /\ Room(w) \in Nat
        BY <1>3, SkipsReduceRoom
      <4> QED
        BY <4>1, <4>2
    <3>7. Releases(x, t, v)
      BY <2>1, <3>3, <3>4, <3>5, <3>6
    <3> HIDE DEF v
    <3>8. OnlySkips(x, v)
      BY <3>7 DEF Releases
    <3>9. OnlySkips(u, v) /\ Gone(u, v) = {t} \cup Gone(x, v)
      BY <2>3, <3>4, <3>8, SkipsCompose
    <3>10. OnlySkips(w, v) /\ Gone(w, v) = Gone(w, u) \cup {t} \cup Gone(x, v)
      BY <1>3, <3>9, SkipsCompose
    <3>11. /\ Pending(v.st) \subseteq Pending(u.st) /\ Pending(v.st) \subseteq Pending(x.st)
           /\ Pending(x.st) \subseteq Pending(w.st)
      <4>1. Pending(v.st) \subseteq Pending(x.st) /\ Pending(x.st) \subseteq Pending(u.st)
        BY <2>3, <3>4, <3>5, <3>8, SkipsReduceRoom
      <4>2. Pending(u.st) \subseteq Pending(w.st)
        BY <1>3, SkipsReduceRoom
      <4> QED
        BY <4>1, <4>2
    <3>12. \A s \in Gone(w, v) : PendingDependents(v.st, s) = {}
      <4>1. \A s \in Gone(w, u) : PendingDependents(v.st, s) = {}
        BY <1>3, <3>11 DEF PendingDependents
      <4>2. \A s \in Gone(x, v) \cup {t} : PendingDependents(v.st, s) = {}
        BY <3>7 DEF Releases
      <4> QED
        BY <3>10, <4>1, <4>2
    <3>13. \A s \in 1..t : c \in deps[s] => v.st[s] # "pending"
      <4>1. v.st[t] # "pending"
        BY <3>10 DEF Gone
      <4>2. ASSUME NEW s \in 1..n, c \in deps[s] PROVE v.st[s] # "pending"
        <5>1. s \in Steps /\ u.st[s] # "pending"
          BY <1>3, <4>2, NumStepsAssumption DEF Steps
        <5> QED
          BY <3>11, <5>1 DEF Pending
      <4> QED
        BY <2>2, <4>1, <4>2
    <3>14. ASSUME NEW K \in SUBSET Steps, Bound(K) PROVE Gone(w, v) \subseteq K
      <4>1. Gone(w, u) \subseteq K
        BY <1>3, <3>14
      <4>2. t \in K
        BY <2>5, <3>1, <3>14 DEF PendingDependents
      <4>3. PendingDependents(x.st, t) \subseteq K /\ IsClosed(K, x.st)
        BY <3>11, <3>14, <4>2 DEF PendingDependents, IsClosed
      <4>4. Gone(x, v) \subseteq K
        BY <3>7, <4>3 DEF Releases
      <4> QED
        BY <3>10, <4>1, <4>2, <4>4
    <3> QED
      BY <3>10, <3>12, <3>13, <3>14 DEF v
  <2> QED
    BY <2>4, <2>5
<1>4. NumSteps \in T
  <2> HIDE DEF Good
  <2>1. 0 \in T
    BY <1>2
  <2>2. ASSUME NEW n \in Nat, n \in T PROVE n + 1 \in T
    BY <1>3, <2>2, NumStepsAssumption
  <2> HIDE DEF T
  <2> QED
    BY <2>1, <2>2, Induction, NumStepsAssumption
<1> DEFINE v == f[NumSteps]
<1>5. /\ OnlySkips(w, v)
      /\ \A t \in Gone(w, v) : PendingDependents(v.st, t) = {}
      /\ \A t \in Steps : c \in deps[t] => v.st[t] # "pending"
      /\ \A K \in SUBSET Steps : Bound(K) => Gone(w, v) \subseteq K
  BY <1>4, NumStepsAssumption DEF Steps
<1>6. PendingDependents(v.st, c) = {}
  BY <1>5 DEF PendingDependents, Pending
<1> HIDE DEF v
<1>7. Releases(w, c, v)
  BY <1>5, <1>6 DEF Releases
<1> QED
  BY <1>1, <1>7 DEF v

-----------------------------------------------------------------------------
\* The recursion, with room for n nested calls.
Called(room, release, w, c) == IF room = 0 THEN w ELSE ReleaseEach(release, w, c)

Calling(n, f) ==
    f = [room \in 0..n |->
           [w \in Works |-> [c \in Steps |-> Called(room, f[room - 1], w, c)]]]

LEMMA CallingExists ==
  ASSUME NEW n \in Nat
  PROVE  \E f : Calling(n, f)
<1> DEFINE All(room, release) ==
             [w \in Works |-> [c \in Steps |-> Called(room, release, w, c)]]
           T == {m \in Nat : \E f : f = [room \in 0..m |-> All(room, f[room - 1])]}
<1>1. \A x, y : All(0, x) = All(0, y)
  BY DEF Called
<1> HIDE DEF All
<1>2. 0 \in T
  <2> DEFINE g == [room \in 0..0 |-> All(0, 0)]
  <2>1. g = [room \in 0..0 |-> All(room, g[room - 1])]
    <3>1. \A room \in 0..0 : room = 0 /\ All(0, 0) = All(0, g[room - 1])
      BY <1>1
    <3> HIDE DEF g
    <3>2. \A room \in 0..0 : All(0, 0) = All(room, g[room - 1])
      BY <3>1
    <3> QED
      BY <3>2 DEF g
  <2> HIDE DEF g
  <2> QED
    BY <2>1
<1>3. ASSUME NEW m \in Nat, m \in T PROVE m + 1 \in T
  <2>1. PICK f : f = [room \in 0..m |-> All(room, f[room - 1])]
    BY <1>3
  <2> DEFINE g == [room \in 0..(m + 1) |-> IF room = m + 1 THEN All(m + 1, f[m]) ELSE f[room]]
  <2>2. ASSUME NEW room \in 0..(m + 1) PROVE g[room] = All(room, g[room - 1])
    <3>1. CASE room = m + 1
      <4>1. g[room] = All(m + 1, f[m]) /\ g[room - 1] = f[m]
        BY <3>1
      <4> HIDE DEF g
      <4> QED
        BY <3>1, <4>1
    <3>2. CASE room = 0 /\ room # m + 1
      <4>1. g[room] = f[0] /\ f[0] = All(0, f[0 - 1])
        BY <2>1, <3>2
      <4> HIDE DEF g
      <4> QED
        BY <1>1, <3>2, <4>1
    <3>3. CASE room # 0 /\ room # m + 1
      <4>1. /\ room \in 0..m /\ room - 1 \in 0..(m + 1) /\ room - 1 # m + 1
            /\ g[room] = f[room] /\ g[room - 1] = f[room - 1]
        BY <3>3
      <4> HIDE DEF g
      <4> QED
        BY <2>1, <4>1
    <3> QED
      BY <3>1, <3>2, <3>3
  <2>3. g = [room \in 0..(m + 1) |-> g[room]]
    OBVIOUS
  <2> HIDE DEF g
  <2>4. g = [room \in 0..(m + 1) |-> All(room, g[room - 1])]
    BY <2>2, <2>3
  <2> QED
    BY <2>4
<1>4. n \in T
  <2> HIDE DEF T
  <2> QED
    BY <1>2, <1>3, Induction
<1> QED
  BY <1>4 DEF Calling, All

\* Called behind a failure, releaseDependents() does what it should, and its
\* nested calls never run out of room.
LEMMA BehindFailure ==
  ASSUME TypeOK, NEW w \in Works, NEW c \in Steps, Failed(w.res[c])
  PROVE  Releases(w, c, Release[w][c])
<1> DEFINE f == CHOOSE f : Calling(NumSteps, f)
<1>1. Release = f[NumSteps]
  BY DEF Release, Calling, Called
<1>2. Calling(NumSteps, f)
  BY CallingExists, NumStepsAssumption
<1> HIDE DEF f
<1>3. \A room \in 0..NumSteps, x \in Works, t \in Steps :
         f[room][x][t] = Called(room, f[room - 1], x, t)
  <2> TAKE room \in 0..NumSteps, x \in Works, t \in Steps
  <2>1. f[room] = [y \in Works |-> [s \in Steps |-> Called(room, f[room - 1], y, s)]]
    BY <1>2 DEF Calling
  <2> QED
    BY <2>1
<1> DEFINE Right(n) == \A x \in Works, t \in Steps :
                         Failed(x.res[t]) /\ Room(x) <= n => Releases(x, t, f[n][x][t])
           T == {n \in Nat : n <= NumSteps => Right(n)}
<1>4. \A x \in Works : Room(x) \in 0..NumSteps /\ (Room(x) = 0 <=> Pending(x.st) = {})
  <2> TAKE x \in Works
  <2>1. Pending(x.st) \in SUBSET Steps
    BY DEF Pending
  <2> QED
    BY <2>1, StepSets DEF Room
<1>5. 0 \in T
  <2> SUFFICES ASSUME NEW x \in Works, NEW t \in Steps, Room(x) <= 0
               PROVE  Releases(x, t, f[0][x][t])
    OBVIOUS
  <2>1. Pending(x.st) = {}
    BY <1>4, NumStepsAssumption
  <2>2. f[0][x][t] = x
    BY <1>3, NumStepsAssumption DEF Called
  <2>3. Gone(x, x) = {} /\ \A s : PendingDependents(x.st, s) = {}
    BY <2>1 DEF Gone, PendingDependents
  <2>4. OnlySkips(x, x)
    BY <2>3 DEF OnlySkips
  <2> QED
    BY <2>2, <2>3, <2>4 DEF Releases
<1>6. ASSUME NEW n \in Nat, n + 1 <= NumSteps, Right(n) PROVE Right(n + 1)
  <2> SUFFICES ASSUME NEW x \in Works, NEW t \in Steps, Failed(x.res[t]), Room(x) <= n + 1
               PROVE  Releases(x, t, f[n + 1][x][t])
    OBVIOUS
  <2>1. n + 1 \in 0..NumSteps /\ n + 1 # 0 /\ (n + 1) - 1 = n
    BY <1>6, NumStepsAssumption
  <2>2. f[n + 1][x][t] = ReleaseEach(f[n], x, t)
    BY <1>3, <2>1 DEF Called
  <2>3. \A y \in Works, s \in Steps :
           Failed(y.res[s]) /\ Room(y) < Room(x) => Releases(y, s, f[n][y][s])
    <3> TAKE y \in Works, s \in Steps
    <3>1. Room(y) < Room(x) => Room(y) <= n
      BY <1>4, NumStepsAssumption
    <3> QED
      BY <1>6, <3>1
  <2> HIDE DEF Right
  <2> QED
    BY <2>2, <2>3, EachReleased
<1> HIDE DEF Right
<1>7. NumSteps \in T
  <2>1. ASSUME NEW n \in Nat, n \in T PROVE n + 1 \in T
    BY <1>6, <2>1, NumStepsAssumption
  <2> HIDE DEF T
  <2> QED
    BY <1>5, <2>1, Induction, NumStepsAssumption
<1>8. Right(NumSteps) /\ Room(w) <= NumSteps
  BY <1>4, <1>7, NumStepsAssumption
<1> QED
  BY <1>1, <1>8 DEF Right

\* The loop is all there is to the outermost call.
LEMMA OutermostCall ==
  ASSUME NEW w \in Works, NEW c \in Steps
  PROVE  \E release : Release[w][c] = ReleaseEach(release, w, c)
<1> DEFINE f == CHOOSE f : Calling(NumSteps, f)
<1>1. Release = f[NumSteps]
  BY DEF Release, Calling, Called
<1>2. Calling(NumSteps, f)
  BY CallingExists, NumStepsAssumption
<1> HIDE DEF f
<1>3. f[NumSteps][w][c] = ReleaseEach(f[NumSteps - 1], w, c)
  <2>1. NumSteps \in 0..NumSteps /\ NumSteps # 0
    BY NumStepsAssumption
  <2>2. f[NumSteps]
          = [x \in Works |-> [t \in Steps |-> Called(NumSteps, f[NumSteps - 1], x, t)]]
    BY <1>2, <2>1 DEF Calling
  <2> QED
    BY <2>1, <2>2 DEF Called
<1> QED
  BY <1>1, <1>3

-----------------------------------------------------------------------------
LEMMA AscendingGrows ==
  ASSUME NEW S \in SUBSET Steps, NEW o \in Ascending(S), NEW t \in Steps,
         \A s \in S : s < t, NEW q \in Seq(Steps)
  PROVE  /\ Append(o, t) \in Ascending(S \cup {t})
         /\ Append(q \o o, t) = q \o Append(o, t)
<1> DEFINE n == Cardinality(S)
<1>1. IsFiniteSet(S) /\ n \in Nat
  BY StepSets, NumStepsAssumption
<1>2. t \notin S /\ t \in Int /\ \A s \in S : s \in Int
  BY DEF Steps
<1>3. Cardinality(S \cup {t}) = n + 1
  BY <1>1, <1>2, FS_AddElement
<1> HIDE DEF n
<1>4. /\ o \in [1..n -> S]
      /\ \A i, j \in 1..n : i < j => o[i] < o[j]
      /\ \A s \in S : \E i \in 1..n : o[i] = s
  BY DEF Ascending, n
<1>5. o \in Seq(Steps) /\ Len(o) = n
  BY <1>1, <1>4, SeqDef, LenProperties
<1> DEFINE p == Append(o, t)
<1>6. /\ p \in Seq(Steps) /\ Len(p) = n + 1
      /\ p[n + 1] = t /\ \A i \in 1..n : p[i] = o[i]
  BY <1>1, <1>5, AppendProperties
<1> HIDE DEF p
<1>7. DOMAIN p = 1..(n + 1) /\ p = [i \in 1..(n + 1) |-> p[i]]
  BY <1>1, <1>6, LenProperties
<1>8. \A i \in 1..(n + 1) : i \in 1..n \/ i = n + 1
  BY <1>1
<1>9. p \in [1..(n + 1) -> S \cup {t}]
  BY <1>4, <1>6, <1>7, <1>8
<1>10. ASSUME NEW i \in 1..(n + 1), NEW j \in 1..(n + 1), i < j PROVE p[i] < p[j]
  <2>1. i \in 1..n
    BY <1>1, <1>10
  <2> QED
    BY <1>4, <1>6, <1>8, <1>10, <2>1
<1>11. \A s \in S \cup {t} : \E i \in 1..(n + 1) : p[i] = s
  <2>1. 1..n \subseteq 1..(n + 1) /\ n + 1 \in 1..(n + 1)
    BY <1>1
  <2> QED
    BY <1>4, <1>6, <2>1
<1>12. p \in Ascending(S \cup {t})
  BY <1>3, <1>9, <1>10, <1>11 DEF Ascending
<1>13. Append(q \o o, t) = q \o p
  <2>1. p = o \o <<t>> /\ Append(q \o o, t) = (q \o o) \o <<t>>
    BY <1>5, AppendIsConcat, ConcatProperties DEF p
  <2>2. (q \o o) \o <<t>> = q \o (o \o <<t>>)
    BY <1>5, ConcatAssociative
  <2> QED
    BY <2>1, <2>2
<1> QED
  BY <1>12, <1>13 DEF p

LEMMA AscendingNothing == <<>> \in Ascending({})
<1>1. Cardinality({}) = 0
  BY FS_EmptySet
<1> QED
  BY <1>1 DEF Ascending

\* Behind a success: of the dependents, those whose dependencies have all
\* settled become ready, in index order, and nothing else changes.
Waited(w, c) == {t \in PendingDependents(w.st, c) : \A d \in deps[t] : w.st[d] = "settled"}

LEMMA EachUnlocked ==
  ASSUME TypeOK, NEW w \in Works, NEW c \in Steps, NEW release,
         \A t \in PendingDependents(w.st, c) : FailedDependencies(w, t) = {}
  PROVE  LET v == ReleaseEach(release, w, c)
             U == Waited(w, c)
         IN  /\ \A t \in Steps : v.st[t] = IF t \in U THEN "ready" ELSE w.st[t]
             /\ v.res = w.res
             /\ \E order \in Ascending(U) : v.q = w.q \o order
<1> USE DEF Waited
<1>1. PICK f : /\ f[0] = w
               /\ \A t \in Steps : f[t] = ReleaseOne(release, f[t - 1], c, t)
               /\ ReleaseEach(release, w, c) = f[NumSteps]
  BY LoopIs
<1> DEFINE U == Waited(w, c)
           Upto(n) == {t \in U : t <= n}
           Good(n) ==
             /\ f[n] \in Works
             /\ \A t \in Steps : f[n].st[t] = IF t \in Upto(n) THEN "ready" ELSE w.st[t]
             /\ f[n].res = w.res
             /\ \E order \in Ascending(Upto(n)) : f[n].q = w.q \o order
           T == {n \in Nat : n <= NumSteps => Good(n)}
<1>2. U \subseteq Steps /\ w.q \in Seq(Steps)
  BY DEF PendingDependents, Pending, Works
<1>3. Good(0)
  <2>1. Upto(0) = {}
    BY <1>2 DEF Steps
  <2>2. w.q = w.q \o <<>>
    BY <1>2
  <2> QED
    BY <1>1, <2>1, <2>2, AscendingNothing
<1>4. ASSUME NEW n \in Nat, n + 1 <= NumSteps, Good(n) PROVE Good(n + 1)
  <2> DEFINE t == n + 1
             u == f[n]
             v == f[t]
  <2>1. t \in Steps /\ v = ReleaseOne(release, u, c, t) /\ deps[t] \subseteq Steps
    <3>1. t \in Steps /\ t - 1 = n
      BY <1>4, NumStepsAssumption DEF Steps
    <3> QED
      BY <1>1, <3>1 DEF TypeOK
  <2>2. /\ u \in Works
        /\ \A s \in Steps : u.st[s] = IF s \in Upto(n) THEN "ready" ELSE w.st[s]
        /\ u.res = w.res
    BY <1>4
  <2>3. PICK order \in Ascending(Upto(n)) : u.q = w.q \o order
    BY <1>4
  <2>4. /\ t \notin Upto(n)
        /\ \A s \in Upto(n) : s < t
        /\ Upto(t) = IF t \in U THEN Upto(n) \cup {t} ELSE Upto(n)
    BY <1>2, <1>4 DEF Steps
  <2>5. u.st[t] = w.st[t]
    BY <2>1, <2>2, <2>4
  <2>6. \A d \in deps[t] : u.st[d] = "settled" <=> w.st[d] = "settled"
    <3>1. \A s \in Upto(n) : w.st[s] = "pending"
      BY DEF PendingDependents, Pending
    <3> QED
      BY <2>1, <2>2, <3>1
  <2>7. t \in U <=> /\ c \in deps[t] /\ u.st[t] = "pending"
                    /\ \A d \in deps[t] : u.st[d] = "settled"
    BY <2>1, <2>5, <2>6 DEF PendingDependents, Pending
  <2>8. c \in deps[t] /\ u.st[t] = "pending" => FailedDependencies(u, t) = {}
    BY <2>1, <2>2, <2>5 DEF PendingDependents, Pending, FailedDependencies
  <2>9. CASE t \notin U
    <3>1. v = u
      BY <2>1, <2>7, <2>8, <2>9 DEF ReleaseOne
    <3>2. Upto(t) = Upto(n)
      BY <2>4, <2>9
    <3> HIDE DEF Upto, v
    <3> QED
      BY <2>2, <2>3, <3>1, <3>2 DEF v
  <2>10. CASE t \in U
    <3>1. v = Unlock(u, t)
      BY <2>1, <2>7, <2>8, <2>10 DEF ReleaseOne
    <3>2. Upto(t) = Upto(n) \cup {t} /\ Upto(n) \in SUBSET Steps
      BY <1>2, <2>4, <2>10
    <3> HIDE DEF u, v, t, Upto
    <3>3. v.st = [u.st EXCEPT ![t] = "ready"] /\ v.q = Append(u.q, t) /\ v.res = u.res
      BY <2>2, <3>1 DEF Unlock, Works
    <3>4. v \in Works
      <4>1. /\ u.st \in [Steps -> NodeStates] /\ u.res \in [Steps -> Statuses \cup {"none"}]
            /\ u.q \in Seq(Steps) /\ u.blockedBy \in [Steps -> SUBSET Steps]
        BY <2>2 DEF Works
      <4>2. v = [st |-> [u.st EXCEPT ![t] = "ready"], res |-> u.res,
                 q |-> Append(u.q, t), blockedBy |-> u.blockedBy]
        BY <2>2, <3>1 DEF Unlock, Works
      <4>3. [u.st EXCEPT ![t] = "ready"] \in [Steps -> NodeStates]
        BY <4>1 DEF NodeStates
      <4>4. Append(u.q, t) \in Seq(Steps)
        BY <2>1, <4>1, AppendProperties
      <4> HIDE DEF v
      <4> QED
        BY <4>1, <4>2, <4>3, <4>4 DEF Works
    <3>5. \A s \in Steps : v.st[s] = IF s \in Upto(t) THEN "ready" ELSE w.st[s]
      BY <2>1, <2>2, <3>2, <3>3 DEF Works
    <3>6. /\ Append(order, t) \in Ascending(Upto(t))
          /\ v.q = w.q \o Append(order, t)
      <4>1. \A s \in Upto(n) : s < t
        BY <2>4
      <4>2. /\ Append(order, t) \in Ascending(Upto(n) \cup {t})
            /\ Append(w.q \o order, t) = w.q \o Append(order, t)
        <5>1. t \in Steps /\ w.q \in Seq(Steps) /\ Upto(n) \in SUBSET Steps
          BY <1>2, <2>1, <3>2
        <5> QED
          BY <4>1, <5>1, AscendingGrows
      <4> QED
        BY <2>3, <3>2, <3>3, <4>2
    <3> QED
      BY <2>2, <3>3, <3>4, <3>5, <3>6 DEF v, t
  <2> QED
    BY <2>9, <2>10
<1>5. NumSteps \in T
  <2> HIDE DEF Good
  <2>1. 0 \in T
    BY <1>3
  <2>2. ASSUME NEW n \in Nat, n \in T PROVE n + 1 \in T
    BY <1>4, <2>2, NumStepsAssumption
  <2> HIDE DEF T
  <2> QED
    BY <2>1, <2>2, Induction, NumStepsAssumption
<1>6. Good(NumSteps)
  <2> HIDE DEF Good
  <2> QED
    BY <1>5, NumStepsAssumption
<1>7. Upto(NumSteps) = U
  BY <1>2, NumStepsAssumption DEF Steps
<1> HIDE DEF Upto
<1> QED
  BY <1>1, <1>6, <1>7

-----------------------------------------------------------------------------
\* In every state of the invariant, whichever step comes back with whichever
\* status, the recursion computes what ExecScheduler says.
LEMMA RecursionRight == IInv => RecursionComputesSets
<1> SUFFICES ASSUME IInv, NEW call \in Calls
             PROVE  LET s      == call[1]
                        w      == Before(s, call[2])
                        after  == Release[w][s]
                        skip   == Skipped(w.st, w.res, s)
                        unlock == Unlocked(w.st, w.res, s)
                    IN  /\ \A t \in Steps : after.st[t] = IF t \in skip THEN "settled"
                                                          ELSE IF t \in unlock THEN "ready"
                                                          ELSE w.st[t]
                        /\ after.res = Record(w.res, skip, "skipped")
                        /\ \E order \in Ascending(unlock) : after.q = ready \o order
                        /\ \A t \in skip :
                             /\ after.blockedBy[t] # {}
                             /\ \A d \in after.blockedBy[t] :
                                  d \in deps[t] /\ after.res[d] \notin {"none", "success"}
  BY DEF RecursionComputesSets
<1> DEFINE s == call[1]
           r == call[2]
           w == Before(s, r)
           after == Release[w][s]
           skip == Skipped(w.st, w.res, s)
           unlock == Unlocked(w.st, w.res, s)
<1>1. s \in Steps /\ r \in AllRunStatuses /\ stopReason = "none" /\ state[s] = "running"
  BY RunStatusesAssumption DEF Calls
<1>2. /\ state \in [Steps -> NodeStates] /\ result \in [Steps -> Statuses \cup {"none"}]
      /\ ready \in Seq(Steps) /\ TypeOK /\ \A t \in Steps : deps[t] \subseteq Steps
  BY DEF IInv, TypeOK, NodeStates
<1>3. Flowing(state, result, ready)
  BY <1>1 DEF IInv, Coherent
<1> HIDE DEF s, r
<1>4. w = [st |-> Settle(state, {s}), res |-> Record(result, {s}, r), q |-> ready,
           blockedBy |-> [t \in Steps |-> {}]]
  BY DEF Before, Work
<1>5. /\ w.st = [t \in Steps |-> IF t = s THEN "settled" ELSE state[t]]
      /\ w.res = [t \in Steps |-> IF t = s THEN r ELSE result[t]]
      /\ w.q = ready
  BY <1>4 DEF Settle, Record
<1>6. w \in Works
  <2>1. Settle(state, {s}) \in [Steps -> NodeStates]
    BY <1>2 DEF Settle, NodeStates
  <2>2. Record(result, {s}, r) \in [Steps -> Statuses \cup {"none"}]
    BY <1>1, <1>2 DEF Record, Statuses
  <2> HIDE DEF w
  <2> QED
    BY <1>2, <1>4, <2>1, <2>2 DEF Works
<1> HIDE DEF w
<1>7. w.res[s] = r /\ \A t \in Steps \ {s} : w.res[t] = result[t]
  BY <1>1, <1>5
<1>8. \A t \in Pending(w.st) : t \in Steps /\ w.st[t] = "pending" /\ state[t] = "pending"
  BY <1>1, <1>5 DEF Pending
<1>9. /\ skip \subseteq Pending(w.st)
      /\ Blocked(w.st, w.res, s) \subseteq skip
      /\ IsClosed(skip, w.st)
      /\ \A L \in SUBSET Pending(w.st) :
           Blocked(w.st, w.res, s) \subseteq L /\ IsClosed(L, w.st) => skip \subseteq L
  BY SkippedIsLeast
<1> HIDE DEF skip
<1>10. unlock = {t \in PendingDependents(w.st, s) \ skip : \A d \in deps[t] : w.st[d] = "settled"}
  BY DEF Unlocked, skip
<1> HIDE DEF unlock
<1>11. CASE Failed(r)
  <2>1. Releases(w, s, after)
    BY <1>1, <1>2, <1>6, <1>7, <1>11, BehindFailure
  <2> HIDE DEF after
  <2> DEFINE K == Gone(w, after)
  <2>2. OnlySkips(w, after) /\ K \subseteq Pending(w.st)
    BY <2>1 DEF Releases, Gone
  <2>3. Blocked(w.st, w.res, s) = PendingDependents(w.st, s)
    BY <1>7, <1>11, <1>1 DEF Blocked, PendingDependents
  <2>4. \A t \in K \cup {s} : PendingDependents(w.st, t) \subseteq K
    BY <2>1 DEF Releases, Gone, PendingDependents, Pending
  <2>5. IsClosed(K, w.st)
    BY <2>4 DEF IsClosed, PendingDependents
  <2>6. skip \subseteq K
    BY <1>9, <2>2, <2>3, <2>4, <2>5
  <2>7. K \subseteq skip
    <3>1. skip \in SUBSET Steps
      BY <1>8, <1>9
    <3> QED
      BY <1>9, <2>1, <2>3, <3>1 DEF Releases
  <2>8. K = skip
    BY <2>6, <2>7
  <2>9. unlock = {}
    BY <1>9, <1>10, <2>3
  <2>10. \A t \in Steps : /\ t \in skip => after.st[t] = "settled" /\ after.res[t] = "skipped"
                          /\ t \notin skip => after.st[t] = w.st[t] /\ after.res[t] = w.res[t]
    BY <2>2, <2>8 DEF OnlySkips
  <2>11. after.res = Record(w.res, skip, "skipped")
    <3>1. after.res \in [Steps -> Statuses \cup {"none"}]
      BY <2>2 DEF OnlySkips, Works
    <3>2. after.res = [t \in Steps |-> after.res[t]]
      BY <3>1
    <3> QED
      BY <2>10, <3>2 DEF Record
  <2>12. <<>> \in Ascending(unlock) /\ after.q = ready \o <<>>
    BY <1>2, <1>5, <2>2, <2>9, AscendingNothing DEF OnlySkips
  <2>13. \A t \in skip : /\ after.blockedBy[t] # {}
                         /\ \A d \in after.blockedBy[t] :
                              d \in deps[t] /\ after.res[d] \notin {"none", "success"}
    BY <2>2, <2>8 DEF OnlySkips, Failed
  <2>14. \A t \in Steps : after.st[t] = IF t \in skip THEN "settled"
                                         ELSE IF t \in unlock THEN "ready" ELSE w.st[t]
    BY <2>9, <2>10
  <2> QED
    BY <2>11, <2>12, <2>13, <2>14 DEF s, r, w, after, skip, unlock
<1>12. CASE ~Failed(r)
  <2>1. \A t \in Pending(w.st) : \A d \in deps[t] : ~Failed(w.res[d])
    <3> TAKE t \in Pending(w.st)
    <3> TAKE d \in deps[t]
    <3>1. t \in Steps /\ d \in Steps /\ ~Failed(result[d])
      BY <1>2, <1>3, <1>8 DEF Flowing
    <3> QED
      BY <1>7, <1>12, <3>1
  <2>2. skip = {}
    <3>1. Blocked(w.st, w.res, s) = {}
      BY <2>1 DEF Blocked, PendingDependents
    <3>2. IsClosed({}, w.st)
      BY DEF IsClosed
    <3> QED
      BY <1>9, <3>1, <3>2
  <2>3. unlock = Waited(w, s)
    BY <1>10, <2>2 DEF Waited
  <2>4. \A t \in PendingDependents(w.st, s) : FailedDependencies(w, t) = {}
    BY <2>1 DEF PendingDependents, FailedDependencies
  <2>5. PICK release : after = ReleaseEach(release, w, s)
    BY <1>1, <1>6, OutermostCall
  <2> HIDE DEF after
  <2>6. /\ \A t \in Steps : after.st[t] = IF t \in unlock THEN "ready" ELSE w.st[t]
        /\ after.res = w.res
        /\ \E order \in Ascending(unlock) : after.q = w.q \o order
    <3> DEFINE v == ReleaseEach(release, w, s)
               U == Waited(w, s)
    <3>1. s \in Steps /\ TypeOK
      BY <1>1, <1>2
    <3>2. /\ \A t \in Steps : v.st[t] = IF t \in U THEN "ready" ELSE w.st[t]
          /\ v.res = w.res
          /\ \E order \in Ascending(U) : v.q = w.q \o order
      BY <1>6, <2>4, <3>1, EachUnlocked
    <3> QED
      BY <2>3, <2>5, <3>2
  <2>7. w.res = Record(w.res, skip, "skipped")
    BY <1>5, <2>2 DEF Record
  <2> QED
    BY <1>5, <2>2, <2>6, <2>7 DEF s, r, w, after, skip, unlock
<1> QED
  BY <1>11, <1>12

\* The recursion of releaseDependents(), which reads states and results while it
\* changes them, skips and unlocks exactly what ExecScheduler says, and explains
\* each skip, for every number of steps and every acyclic graph.
THEOREM RecursionComputesTheSets == Spec => []RecursionComputesSets
<1> QED
  BY RecursionRight, InvariantHolds, PTL
=============================================================================
