------------------------- MODULE ProcessRunnerProofs -------------------------
(***************************************************************************)
(* Proofs about ProcessRunner, for every set of commands, every            *)
(* maxConcurrency and every choice of what the programs may do.            *)
(*                                                                         *)
(* The limiter inside is not proved about again: its theorems are those of *)
(* ExecutionLimiterProofs, and the first section carries them over.  What  *)
(* is new is that the runner takes only steps of the limiter, and what ties*)
(* the calls of the limiter to the processes, the timers and the answers.  *)
(***************************************************************************)
EXTENDS ProcessRunner, SequenceTheorems, FiniteSetTheorems, TLAPS

\* The answer of a command is complete and true: see AnswersAreComplete, and a
\* refused signal answers only what was asked to end.
AnswerHolds(c) ==
    /\ \/ leader[c] \in {"none", "reaped"} /\ ~PipesOpen(c)
       \/ /\ behaviour[c] = "privileged" /\ status[c] = "spawn_error"
          /\ termination[c] # "none"
    /\ status[c] \in {"success", "failed"} =>
         termination[c] = "none" /\ (status[c] = "success") = (exit[c] = "zero")

\* How far a command has come, seen by the limiter, by the operating system
\* and by its caller.
CommandInv(c) ==
    /\ call[c] \in {"idle", "waiting"} => leader[c] = "none" /\ status[c] = "none"
    /\ call[c] \in {"cancelled", "shutdown"} =>
         leader[c] = "none" /\ status[c] = "cancelled"
    /\ call[c] = "released" => status[c] # "none"
    /\ leader[c] = "none" => /\ descendant[c] = "none" /\ termination[c] = "none"
                             /\ c \notin deadline /\ c \notin listening
    /\ leader[c] = "failing" => status[c] = "none" /\ descendant[c] = "none"
    /\ status[c] # "none" => /\ c \notin deadline /\ c \notin listening
                             /\ AnswerHolds(c)

\* Once shutdown() has run, nothing that still has a permit may start.
ServerInv ==
    /\ server # "up" => shutdown
    /\ server \in {"draining", "closed", "exited"} => Live \subseteq aborted

\* The inductive invariant.
IInv == /\ TypeOK
        /\ L!Inv
        /\ \A c \in Commands : CommandInv(c)
        /\ ServerInv

-----------------------------------------------------------------------------
(***************************************************************************)
(* The limiter's theorems.                                                 *)
(***************************************************************************)
LP == INSTANCE ExecutionLimiterProofs WITH Clients <- Commands


\* The two instances of the limiter define the same formulas.
LEMMA SameLimiter ==
  /\ L!Inv <=> LP!Inv
  /\ L!Inv' <=> LP!Inv'
  /\ L!Init <=> LP!Init
  /\ [L!Next]_(L!vars) <=> [LP!Next]_(LP!vars)
<1> USE DEF L!Cardinality, LP!Cardinality, L!IsFiniteSet, LP!IsFiniteSet,
            L!Larger, LP!Larger, L!Shifted, LP!Shifted, L!Ended, LP!Ended,
            L!FreshSignal, LP!FreshSignal, L!vars, LP!vars,
            L!MayGrantAtOnce, LP!MayGrantAtOnce
<1>1. (L!Inv <=> LP!Inv) /\ (L!Inv' <=> LP!Inv')
  BY DEF L!Inv, LP!Inv, L!TypeOK, LP!TypeOK, L!CallStates, LP!CallStates,
         L!ActiveCountsPermits, LP!ActiveCountsPermits,
         L!QueueHoldsWaiters, LP!QueueHoldsWaiters,
         L!WorkConserving, LP!WorkConserving,
         L!Holders, LP!Holders, L!Waiters, LP!Waiters
<1>2. L!Init <=> LP!Init
  BY DEF L!Init, LP!Init
<1>3. ASSUME NEW c
      PROVE  /\ L!AcquireRejected(c) <=> LP!AcquireRejected(c)
             /\ L!AcquireGranted(c) <=> LP!AcquireGranted(c)
             /\ L!AcquireQueued(c) <=> LP!AcquireQueued(c)
             /\ L!AbortListener(c) <=> LP!AbortListener(c)
  BY DEF L!AcquireRejected, LP!AcquireRejected, L!AcquireGranted,
         LP!AcquireGranted, L!AcquireQueued, LP!AcquireQueued,
         L!AbortListener, LP!AbortListener
<1>4. \A c : L!Release(c) <=> LP!Release(c)
  BY DEF L!Release, LP!Release, L!FirstRelease, LP!FirstRelease,
         L!DrainShifts, LP!DrainShifts, L!GrantedBy, LP!GrantedBy
<1>5. L!Shutdown <=> LP!Shutdown
  BY DEF L!Shutdown, LP!Shutdown
<1>6. \A S : L!Abort(S) <=> LP!Abort(S)
  BY DEF L!Abort, LP!Abort
<1>7. [L!Next]_(L!vars) <=> [LP!Next]_(LP!vars)
  BY <1>3, <1>4, <1>5, <1>6 DEF L!Next, LP!Next
<1> QED
  BY <1>1, <1>2, <1>7

LEMMA LimiterAssumptions ==
  LP!ClientsAssumption /\ LP!MaximumConcurrencyAssumption
<1> QED
  BY CommandsAssumption, MaximumConcurrencyAssumption
  DEF LP!ClientsAssumption, LP!MaximumConcurrencyAssumption, LP!IsFiniteSet,
      IsFiniteSet

\* What ExecutionLimiterProofs proves of its initial state and of its steps.
LEMMA LimiterKeepsItsInvariant ==
  /\ L!Init => L!Inv
  /\ L!Inv /\ [L!Next]_(L!vars) => L!Inv'
<1>1. LP!Init => LP!Inv
  BY LimiterAssumptions, LP!InitEstablishes
<1>2. LP!Inv /\ [LP!Next]_(LP!vars) => LP!Inv'
  BY LimiterAssumptions, LP!NextPreserves
<1> QED
  BY <1>1, <1>2, SameLimiter

-----------------------------------------------------------------------------
(***************************************************************************)
(* The runner takes only steps of the limiter.                             *)
(***************************************************************************)

\* The actions of one command, as Next offers them.
CommandStep(c) == Run(c) \/ Callback(c) \/ Timeout(c) \/ System(c)

\* Those that call the limiter; the others leave it alone.
LimiterAction(c) == Run(c) \/ WaiterCancelled(c) \/ Release(c)
OwnAction(c) ==
    \/ CancelledBeforeStart(c) \/ SpawnThrows(c) \/ Spawn(c)
    \/ Timeout(c) \/ AbortEvent(c) \/ ForceKill(c)
    \/ ErrorEvent(c) \/ Reap(c) \/ Close(c) \/ System(c)

LEMMA TwoKindsOfActions ==
  ASSUME NEW c, CommandStep(c)
  PROVE  LimiterAction(c) \/ OwnAction(c)
<1> QED
  BY DEF CommandStep, LimiterAction, OwnAction, Callback

LEMMA OwnActionsLeaveLimiter ==
  ASSUME NEW c, OwnAction(c)
  PROVE  UNCHANGED limiter /\ UNCHANGED server
<1> QED
  BY DEF OwnAction, CancelledBeforeStart, SpawnThrows, Spawn, Timeout,
         AbortEvent, ForceKill, ErrorEvent, Reap, Close, System, LeaderForks,
         LeaderExits, DescendantExits

LEMMA NextIsLimiterStep ==
  ASSUME [Next]_vars
  PROVE  [L!Next]_(L!vars)
<1>1. UNCHANGED limiter => UNCHANGED L!vars
  BY DEF limiter, L!vars
<1>2. Live \in SUBSET Commands
  BY DEF Live
<1>3. ASSUME NEW c \in Commands, CommandStep(c) PROVE [L!Next]_(L!vars)
  <2>1. CASE LimiterAction(c)
    BY <2>1 DEF LimiterAction, Run, WaiterCancelled, Release, L!Next
  <2>2. CASE OwnAction(c)
    BY <1>1, <2>2, OwnActionsLeaveLimiter
  <2> QED
    BY <1>3, <2>1, <2>2, TwoKindsOfActions
<1>4. CASE AbortActive
  BY <1>2, <1>4 DEF AbortActive, L!Next
<1>5. CASE Cancel
  BY <1>2, <1>5 DEF Cancel, L!Next
<1>6. CASE Shutdown
  BY <1>6 DEF Shutdown, L!Next
<1>7. CASE CloseServer \/ ExitProcess \/ UNCHANGED vars
  BY <1>1, <1>7 DEF CloseServer, ExitProcess, vars
<1> QED
  BY <1>3, <1>4, <1>5, <1>6, <1>7 DEF Next, CommandStep

-----------------------------------------------------------------------------
(***************************************************************************)
(* The limiter's steps, seen by the commands.                              *)
(***************************************************************************)

\* How a call may move: forward only, and a permit goes back after the answer.
CallMoves ==
    \A c \in Commands :
      \/ call'[c] = call[c]
      \/ /\ call[c] \in {"idle", "waiting"}
         /\ call'[c] \in {"waiting", "granted", "cancelled", "shutdown"}
      \/ call[c] = "granted" /\ call'[c] = "released" /\ status[c] # "none"

LEMMA LimiterActionMoves ==
  ASSUME L!Inv, NEW c \in Commands, LimiterAction(c)
  PROVE  CallMoves
<1>1. call \in [Commands -> L!CallStates]
  BY DEF L!Inv, L!TypeOK
<1>2. CASE Run(c)
  BY <1>1, <1>2 DEF Run, L!AcquireRejected, L!AcquireGranted, L!AcquireQueued,
                    CallMoves
<1>3. CASE WaiterCancelled(c)
  BY <1>1, <1>3 DEF WaiterCancelled, L!AbortListener, CallMoves
<1>4. CASE Release(c)
  <2>1. PICK n \in 0..Len(queue) :
          call' = [d \in Commands |->
                     IF d = c THEN "released"
                     ELSE IF d \in L!GrantedBy(n) THEN "granted"
                     ELSE IF d \in L!Shifted(n) THEN "cancelled"
                     ELSE call[d]]
    BY <1>4 DEF Release, L!Release, L!FirstRelease
  <2>2. \A d \in Commands : d \in L!Shifted(n) => call[d] = "waiting"
    <3>1. \A i \in 1..n : i \in 1..Len(queue)
      BY LenProperties DEF L!Inv, L!TypeOK
    <3> QED
      BY <3>1 DEF L!Inv, L!QueueHoldsWaiters, L!Waiters, L!Shifted
  <2>3. call[c] = "granted" /\ status[c] # "none"
    BY <1>4 DEF Release
  <2> QED
    BY <2>1, <2>2, <2>3 DEF CallMoves, L!GrantedBy
<1> QED
  BY <1>2, <1>3, <1>4 DEF LimiterAction

LEMMA ShutdownMoves ==
  ASSUME L!Inv, L!Shutdown
  PROVE  CallMoves
<1>1. \A d \in Commands : d \in L!Shifted(Len(queue)) => call[d] = "waiting"
  BY DEF L!Inv, L!QueueHoldsWaiters, L!Waiters, L!Shifted
<1> QED
  BY <1>1 DEF L!Shutdown, CallMoves

\* When a call moves so, what holds of its command still holds.
LEMMA CallMovesPreserve ==
  ASSUME IInv, L!Inv', CallMoves, RejectedAreCancelled, UNCHANGED <<os, timers>>
  PROVE  \A c \in Commands :
           /\ CommandInv(c)'
           /\ status'[c] \in {status[c], "cancelled"}
           /\ status[c] # "none" => status'[c] = status[c]
<1> TAKE c \in Commands
<1>1. CommandInv(c)
  BY DEF IInv
<1>2. /\ leader' = leader /\ descendant' = descendant /\ exit' = exit
      /\ behaviour' = behaviour /\ termination' = termination
      /\ deadline' = deadline /\ listening' = listening
  BY DEF os, timers
<1>3. status'[c] = IF call'[c] \in {"cancelled", "shutdown"} THEN "cancelled"
                   ELSE status[c]
  BY DEF RejectedAreCancelled
<1>4. status[c] # "none" => status'[c] = status[c]
  BY <1>1, <1>3 DEF CommandInv, CallMoves
<1>5. PipesOpen(c)' <=> PipesOpen(c)
  BY <1>2 DEF PipesOpen, HoldsPipe
<1>6. status'[c] # "none" => AnswerHolds(c)'
  <2>1. CASE status[c] # "none"
    BY <1>1, <1>2, <1>4, <1>5, <2>1 DEF CommandInv, AnswerHolds
  <2>2. CASE status[c] = "none" /\ status'[c] # "none"
    <3>1. leader[c] = "none" /\ descendant[c] = "none" /\ status'[c] = "cancelled"
      BY <1>1, <1>3, <2>2 DEF CommandInv, CallMoves
    <3> QED
      BY <1>2, <1>5, <3>1 DEF AnswerHolds, PipesOpen
  <2> QED
    BY <2>1, <2>2
<1>7. CommandInv(c)'
  BY <1>1, <1>2, <1>3, <1>4, <1>6 DEF CommandInv, CallMoves
<1> QED
  BY <1>3, <1>4, <1>7

-----------------------------------------------------------------------------
(***************************************************************************)
(* The steps of the runner itself.                                         *)
(***************************************************************************)

\* The part of the type invariant that is not the limiter's.
RunnerTypeOK ==
    /\ behaviour \in [Commands -> AllBehaviours]
    /\ leader \in [Commands -> LeaderStates]
    /\ exit \in [Commands -> {"none", "zero", "other"}]
    /\ descendant \in [Commands -> {"none", "alive", "gone"}]
    /\ termination \in [Commands -> {"none", "timeout", "cancelled"}]
    /\ deadline \subseteq Commands /\ listening \subseteq Commands
    /\ forceKill \in [Commands -> {"off", "armed", "fired"}]
    /\ status \in [Commands -> {"none", "success", "failed", "timeout",
                                "cancelled", "spawn_error"}]

\* They keep the types and change nothing of another command.
OwnStepOf(c) ==
    /\ RunnerTypeOK'
    /\ UNCHANGED limiter
    /\ \A d \in Commands \ {c} :
         /\ behaviour'[d] = behaviour[d] /\ leader'[d] = leader[d]
         /\ exit'[d] = exit[d] /\ descendant'[d] = descendant[d]
         /\ termination'[d] = termination[d] /\ status'[d] = status[d]
         /\ d \in deadline' <=> d \in deadline
         /\ d \in listening' <=> d \in listening

LEMMA RequestTerminationFacts ==
  ASSUME RunnerTypeOK, NEW c \in Commands, NEW reason \in {"timeout", "cancelled"},
         RequestTermination(c, reason)
  PROVE  \/ /\ termination[c] # "none"
            /\ UNCHANGED <<termination, forceKill, status>>
         \/ /\ termination[c] = "none"
            /\ termination' = [termination EXCEPT ![c] = reason]
            /\ forceKill' \in [Commands -> {"off", "armed", "fired"}]
            /\ \/ status' = status
               \/ /\ behaviour[c] = "privileged" /\ leader[c] \in {"alive", "exited"}
                  /\ status' = [status EXCEPT ![c] = "spawn_error"]
<1>1. CASE termination[c] # "none"
  BY <1>1 DEF RequestTermination
<1>2. CASE termination[c] = "none"
  <2>1. /\ termination' = [termination EXCEPT ![c] = reason]
        /\ SignalTree(c)
        /\ IF leader[c] # "failing" /\ KillRefused(c)
           THEN Finish(c, "spawn_error") ELSE UNCHANGED status
    BY <1>2 DEF RequestTermination
  <2>2. forceKill' \in [Commands -> {"off", "armed", "fired"}]
    BY <2>1 DEF SignalTree, RunnerTypeOK
  <2>3. KillRefused(c) =>
          behaviour[c] = "privileged" /\ leader[c] \in {"alive", "exited"}
    BY DEF KillRefused, Signalable
  <2>4. Finish(c, "spawn_error") =>
          status' = status \/ status' = [status EXCEPT ![c] = "spawn_error"]
    BY DEF Finish
  <2> QED
    BY <1>2, <2>1, <2>2, <2>3, <2>4
<1> QED
  BY <1>1, <1>2

LEMMA OwnActionsAreOwn ==
  ASSUME IInv, NEW c \in Commands, OwnAction(c)
  PROVE  OwnStepOf(c)
<1>1. RunnerTypeOK
  BY DEF IInv, TypeOK, RunnerTypeOK
<1>2. UNCHANGED limiter
  BY OwnActionsLeaveLimiter
<1> USE <1>1, <1>2 DEF OwnStepOf, RunnerTypeOK, os, timers
<1>3. CASE CancelledBeforeStart(c) \/ SpawnThrows(c)
  BY <1>3 DEF CancelledBeforeStart, SpawnThrows
<1>4. CASE Spawn(c)
  BY <1>4, BehavioursAssumption DEF Spawn, LeaderStates
<1>5. CASE Timeout(c)
  BY <1>5, RequestTerminationFacts DEF Timeout
<1>6. CASE AbortEvent(c)
  BY <1>6, RequestTerminationFacts DEF AbortEvent
<1>7. CASE ForceKill(c)
  BY <1>7 DEF ForceKill, LeaderStates
<1>8. CASE ErrorEvent(c)
  BY <1>8 DEF ErrorEvent, Finish, LeaderStates
<1>9. CASE Reap(c)
  BY <1>9 DEF Reap, LeaderStates
<1>10. CASE Close(c)
  BY <1>10 DEF Close, Finish, ClosedStatus
<1>11. CASE System(c)
  BY <1>11 DEF System, LeaderForks, LeaderExits, DescendantExits, LeaderStates
<1> QED
  BY <1>3, <1>4, <1>5, <1>6, <1>7, <1>8, <1>9, <1>10, <1>11 DEF OwnAction

\* They keep what holds of their command, and an answer that was given; only
\* Spawn starts a process.
LEMMA OwnActionsPreserve ==
  ASSUME IInv, NEW c \in Commands, OwnAction(c)
  PROVE  /\ CommandInv(c)'
         /\ status[c] # "none" =>
              status'[c] = status[c] /\ termination'[c] = termination[c]
         /\ leader[c] = "none" /\ leader'[c] # "none" => Spawn(c)
<1>1. RunnerTypeOK /\ CommandInv(c)
  BY DEF IInv, TypeOK, RunnerTypeOK
<1>2. call' = call /\ aborted' = aborted
  BY OwnActionsLeaveLimiter DEF limiter
<1> USE <1>1, <1>2 DEF CommandInv, RunnerTypeOK, os, timers, AnswerHolds,
                       PipesOpen, HoldsPipe
<1>3. CASE CancelledBeforeStart(c) \/ SpawnThrows(c)
  BY <1>3 DEF CancelledBeforeStart, SpawnThrows, Permitted
<1>4. CASE Spawn(c)
  BY <1>4 DEF Spawn, Permitted
<1>5. CASE Timeout(c)
  BY <1>5, RequestTerminationFacts DEF Timeout
<1>6. CASE AbortEvent(c)
  BY <1>6, RequestTerminationFacts DEF AbortEvent
<1>7. CASE ForceKill(c)
  BY <1>7 DEF ForceKill
<1>8. CASE ErrorEvent(c)
  BY <1>8 DEF ErrorEvent, Finish
<1>9. CASE Reap(c)
  BY <1>9 DEF Reap
<1>10. CASE Close(c)
  BY <1>10 DEF Close, Finish, ClosedStatus
<1>11. CASE System(c)
  BY <1>11 DEF System, LeaderForks, LeaderExits, DescendantExits
<1> QED
  BY <1>3, <1>4, <1>5, <1>6, <1>7, <1>8, <1>9, <1>10, <1>11 DEF OwnAction

-----------------------------------------------------------------------------
(***************************************************************************)
(* The invariant.                                                          *)
(***************************************************************************)
LEMMA InitEstablishes == Init => IInv
<1> SUFFICES ASSUME Init PROVE IInv
  OBVIOUS
<1>1. L!Inv
  BY LimiterKeepsItsInvariant DEF Init
<1>2. call = [c \in Commands |-> "idle"] /\ aborted = {}
  BY DEF Init, L!Init
<1>3. TypeOK
  BY <1>1 DEF Init, TypeOK, L!Inv, AllBehaviours, LeaderStates, ServerStates
<1>4. \A c \in Commands : CommandInv(c)
  BY <1>2 DEF Init, CommandInv
<1>5. ServerInv
  BY DEF Init, ServerInv
<1> QED
  BY <1>1, <1>3, <1>4, <1>5 DEF IInv

\* One action of a command.
LEMMA CommandStepPreserves ==
  ASSUME IInv, L!Inv', NEW c \in Commands, CommandStep(c), server # "stopping"
  PROVE  /\ RunnerTypeOK' /\ server' = server
         /\ \A d \in Commands :
              /\ CommandInv(d)'
              /\ status[d] # "none" =>
                   status'[d] = status[d] /\ termination'[d] = termination[d]
              /\ leader[d] = "none" /\ leader'[d] # "none" => d = c /\ Spawn(c)
<1>1. RunnerTypeOK /\ \A d \in Commands : CommandInv(d)
  BY DEF IInv, TypeOK, RunnerTypeOK
<1>2. CASE LimiterAction(c)
  <2>1. RejectedAreCancelled /\ UNCHANGED <<os, timers, server>>
    BY <1>2 DEF LimiterAction, Run, WaiterCancelled, Release, LimiterStep
  <2>2. CallMoves
    BY <1>2, LimiterActionMoves DEF IInv
  <2>3. \A d \in Commands : /\ CommandInv(d)'
                            /\ status'[d] \in {status[d], "cancelled"}
                            /\ status[d] # "none" => status'[d] = status[d]
    BY <2>1, <2>2, CallMovesPreserve
  <2>4. termination' = termination /\ leader' = leader
    BY <2>1 DEF os, timers
  <2>5. RunnerTypeOK'
    BY <1>1, <2>1 DEF RunnerTypeOK, RejectedAreCancelled, os, timers
  <2> QED
    BY <2>1, <2>3, <2>4, <2>5
<1>3. CASE OwnAction(c)
  <2>1. OwnStepOf(c) /\ server' = server
    BY <1>3, OwnActionsAreOwn, OwnActionsLeaveLimiter
  <2>2. ASSUME NEW d \in Commands, d # c
        PROVE  /\ CommandInv(d)' /\ status'[d] = status[d]
               /\ termination'[d] = termination[d] /\ leader'[d] = leader[d]
    <3>1. call' = call
      BY <2>1 DEF OwnStepOf, limiter
    <3>2. /\ behaviour'[d] = behaviour[d] /\ leader'[d] = leader[d]
          /\ exit'[d] = exit[d] /\ descendant'[d] = descendant[d]
          /\ termination'[d] = termination[d] /\ status'[d] = status[d]
          /\ d \in deadline' <=> d \in deadline
          /\ d \in listening' <=> d \in listening
      BY <2>1, <2>2 DEF OwnStepOf
    <3>3. CommandInv(d)
      BY <1>1
    <3> QED
      BY <3>1, <3>2, <3>3 DEF CommandInv, AnswerHolds, PipesOpen, HoldsPipe
  <2>3. /\ CommandInv(c)'
        /\ status[c] # "none" =>
             status'[c] = status[c] /\ termination'[c] = termination[c]
        /\ leader[c] = "none" /\ leader'[c] # "none" => Spawn(c)
    BY <1>3, OwnActionsPreserve
  <2>4. RunnerTypeOK'
    BY <2>1 DEF OwnStepOf
  <2> QED
    BY <2>1, <2>2, <2>3, <2>4
<1> QED
  BY <1>2, <1>3, TwoKindsOfActions

\* After shutdown() a command that is not aborted does not get a permit.
LEMMA CommandStepKeepsServerInv ==
  ASSUME IInv, NEW c \in Commands, CommandStep(c), server' = server
  PROVE  ServerInv'
<1>1. ServerInv /\ call \in [Commands -> L!CallStates]
  BY DEF IInv, L!Inv, L!TypeOK
<1>2. CASE OwnAction(c)
  BY <1>1, <1>2, OwnActionsLeaveLimiter DEF limiter, ServerInv, Live
<1>3. CASE Run(c)
  <2>1. shutdown' = shutdown
    BY <1>3 DEF Run, L!AcquireRejected, L!AcquireGranted, L!AcquireQueued
  <2>2. ASSUME shutdown
        PROVE  Live' \subseteq Live /\ aborted \ {c} \subseteq aborted' /\ c \notin Live'
    <3>1. L!AcquireRejected(c)
      BY <1>3, <2>2 DEF Run, L!AcquireGranted, L!AcquireQueued
    <3> QED
      BY <1>1, <3>1 DEF L!AcquireRejected, L!FreshSignal, L!Ended, Live
  <2> QED
    BY <1>1, <2>1, <2>2 DEF ServerInv
<1>4. CASE WaiterCancelled(c)
  <2>1. /\ shutdown' = shutdown /\ aborted' = aborted
        /\ call' = [call EXCEPT ![c] = "cancelled"]
    BY <1>4 DEF WaiterCancelled, L!AbortListener
  <2>2. Live' \subseteq Live
    BY <1>1, <2>1 DEF Live
  <2> QED
    BY <1>1, <2>1, <2>2 DEF ServerInv
<1>5. CASE Release(c)
  <2>1. shutdown' = shutdown /\ aborted' = aborted /\ CallMoves
    BY <1>5, LimiterActionMoves
    DEF LimiterAction, Release, L!Release, L!FirstRelease, IInv
  <2>2. ASSUME shutdown, NEW d \in Commands, call'[d] \in {"waiting", "granted"}
        PROVE  call[d] \in {"waiting", "granted"}
    <3>1. L!GrantedBy(0) = {} /\ L!Shifted(0) = {}
      BY DEF L!GrantedBy, L!Shifted
    <3> QED
      BY <1>1, <1>5, <2>2, <3>1
      DEF Release, L!Release, L!FirstRelease, L!DrainShifts
  <2>3. shutdown => Live' \subseteq Live
    BY <2>2 DEF Live
  <2> QED
    BY <1>1, <2>1, <2>3 DEF ServerInv
<1> QED
  BY <1>2, <1>3, <1>4, <1>5, TwoKindsOfActions DEF LimiterAction

\* The steps of the server: nothing but shutdown() touches a command.
LEMMA ServerStepPreserves ==
  ASSUME IInv, L!Inv',
         \/ AbortActive \/ Cancel \/ Shutdown \/ CloseServer \/ ExitProcess
         \/ UNCHANGED vars
  PROVE  /\ RunnerTypeOK' /\ server' \in ServerStates /\ ServerInv'
         /\ leader' = leader
         /\ \A d \in Commands :
              /\ CommandInv(d)'
              /\ status[d] # "none" =>
                   status'[d] = status[d] /\ termination'[d] = termination[d]
<1>1. /\ RunnerTypeOK /\ ServerInv /\ server \in ServerStates
      /\ call \in [Commands -> L!CallStates]
      /\ \A d \in Commands : CommandInv(d)
  BY DEF IInv, TypeOK, RunnerTypeOK, L!TypeOK
<1>2. CASE Shutdown
  <2>1. RejectedAreCancelled /\ UNCHANGED <<os, timers>>
    BY <1>2 DEF Shutdown
  <2>2. CallMoves
    BY <1>2, ShutdownMoves DEF Shutdown, IInv
  <2>3. \A d \in Commands : /\ CommandInv(d)'
                            /\ status'[d] \in {status[d], "cancelled"}
                            /\ status[d] # "none" => status'[d] = status[d]
    BY <2>1, <2>2, CallMovesPreserve
  <2>4. RunnerTypeOK' /\ termination' = termination /\ leader' = leader
    BY <1>1, <2>1 DEF RunnerTypeOK, RejectedAreCancelled, os, timers
  <2>5. server' = "stopping" /\ shutdown'
    BY <1>2 DEF Shutdown, L!Shutdown
  <2> QED
    BY <2>3, <2>4, <2>5 DEF ServerInv, ServerStates
<1>3. CASE AbortActive \/ Cancel \/ CloseServer \/ ExitProcess \/ UNCHANGED vars
  <2>1. /\ call' = call /\ shutdown' = shutdown /\ aborted \subseteq aborted'
        /\ UNCHANGED <<os, timers, status>>
    BY <1>3 DEF AbortActive, Cancel, CloseServer, ExitProcess, vars, limiter,
                L!Abort
  <2>2. RunnerTypeOK' /\ termination' = termination /\ leader' = leader
          /\ status' = status
    BY <1>1, <2>1 DEF RunnerTypeOK, os, timers
  <2>3. ASSUME NEW d \in Commands PROVE CommandInv(d)'
    BY <1>1, <2>1
    DEF CommandInv, AnswerHolds, PipesOpen, HoldsPipe, os, timers
  <2>4. Live' = Live
    BY <2>1 DEF Live
  <2>5. server' \in ServerStates /\ ServerInv'
    <3>1. CASE AbortActive
      BY <1>1, <2>1, <2>4, <3>1
      DEF AbortActive, L!Abort, ServerInv, ServerStates
    <3>2. CASE Cancel \/ UNCHANGED vars
      BY <1>1, <2>1, <2>4, <3>2 DEF Cancel, vars, ServerInv
    <3>3. CASE CloseServer \/ ExitProcess
      BY <1>1, <2>1, <2>4, <3>3
      DEF CloseServer, ExitProcess, ServerInv, ServerStates
    <3> QED
      BY <1>3, <3>1, <3>2, <3>3
  <2> QED
    BY <2>2, <2>3, <2>5
<1> QED
  BY <1>2, <1>3

LEMMA NextPreserves == IInv /\ [Next]_vars => IInv'
<1> SUFFICES ASSUME IInv, [Next]_vars PROVE IInv'
  OBVIOUS
<1>1. L!Inv'
  BY NextIsLimiterStep, LimiterKeepsItsInvariant DEF IInv
<1>2. SUFFICES /\ RunnerTypeOK' /\ server' \in ServerStates /\ ServerInv'
               /\ \A d \in Commands : CommandInv(d)'
  BY <1>1 DEF IInv, TypeOK, RunnerTypeOK, L!Inv
<1>3. ASSUME NEW c \in Commands, CommandStep(c), server # "stopping"
      PROVE  /\ RunnerTypeOK' /\ server' \in ServerStates /\ ServerInv'
             /\ \A d \in Commands : CommandInv(d)'
  BY <1>1, <1>3, CommandStepPreserves, CommandStepKeepsServerInv DEF IInv, TypeOK
<1> QED
  BY <1>1, <1>3, ServerStepPreserves DEF Next, CommandStep

\* The inductive invariant holds in every reachable state.
THEOREM InvariantHolds == Spec => []IInv
<1> QED
  BY InitEstablishes, NextPreserves, PTL DEF Spec

\* The runner is a client of the limiter as ExecutionLimiter describes one:
\* each of its steps is a step of the limiter or leaves the limiter alone.
THEOREM RunnerUsesLimiter == Spec => L!Spec
<1>1. Init => L!Init
  BY DEF Init
<1>2. [Next]_vars => [L!Next]_(L!vars)
  BY NextIsLimiterStep
<1> QED
  BY <1>1, <1>2, PTL DEF Spec, L!Spec

\* maxConcurrency bounds the processes of the server, whatever times out, is
\* aborted or fails to spawn: a process that may still run holds a permit, and
\* the limiter gives out no more than that.
THEOREM ProcessesAreBounded == Spec => []Inv
<1>1. ASSUME IInv PROVE ProcessesHoldPermits
  <2> DEFINE unprivileged == {c \in Commands : /\ leader[c] = "alive"
                                               /\ behaviour[c] # "privileged"}
  <2>1. TypeOK /\ L!Inv /\ \A c \in Commands : CommandInv(c)
    BY <1>1 DEF IInv
  <2>2. ASSUME NEW c \in Commands, leader[c] \in {"alive", "exited"}
        PROVE  \/ call[c] = "granted"
               \/ behaviour[c] = "privileged" /\ termination[c] # "none"
    <3>1. call[c] \in L!CallStates /\ CommandInv(c)
      BY <2>1 DEF L!Inv, L!TypeOK
    <3> QED
      BY <2>2, <3>1 DEF CommandInv, AnswerHolds, L!CallStates
  <2>3. \A c \in unprivileged : call[c] = "granted"
    <3>1. ASSUME NEW c \in unprivileged PROVE call[c] = "granted"
      BY <2>2
    <3> QED
      BY <3>1
  <2>4. Cardinality(unprivileged) <= MaximumConcurrency
    <3>1. unprivileged \subseteq L!Holders
      BY <2>3 DEF L!Holders
    <3>2. IsFiniteSet(L!Holders)
      BY CommandsAssumption, FS_Subset DEF L!Holders
    <3>3. Cardinality(unprivileged) <= Cardinality(L!Holders)
      BY <3>1, <3>2, FS_Subset
    <3>4. Cardinality(L!Holders) <= MaximumConcurrency
      <4>1. L!Cardinality(L!Holders) = Cardinality(L!Holders)
        BY DEF L!Cardinality, Cardinality, L!IsFiniteSet, IsFiniteSet
      <4> QED
        BY <2>1, <4>1 DEF L!Inv, L!ActiveCountsPermits
    <3>5. /\ Cardinality(unprivileged) \in Nat
          /\ Cardinality(L!Holders) \in Nat
      BY <3>1, <3>2, FS_Subset, FS_CardinalityType
    <3> QED
      BY <3>3, <3>4, <3>5, MaximumConcurrencyAssumption
  <2>5. \A c \in Commands : call[c] = "released" => status[c] # "none"
    BY <2>1 DEF CommandInv
  <2> QED
    BY <2>2, <2>4, <2>5 DEF ProcessesHoldPermits
<1>2. IInv => Inv
  BY <1>1 DEF IInv, Inv
<1> QED
  BY <1>2, InvariantHolds, PTL

\* No answer comes before its process has ended and its pipes are closed, and a
\* good exit code never hides a deadline or a cancellation.
THEOREM AnswersComeComplete == Spec => []AnswersAreComplete
<1>1. IInv => AnswersAreComplete
  BY DEF IInv, CommandInv, AnswerHolds, AnswersAreComplete
<1> QED
  BY <1>1, InvariantHolds, PTL

\* The second look at the signal is enough, with any number of commands: what is
\* aborted between its grant and its continuation is not spawned, and nothing is
\* spawned after shutdown() began.
THEOREM AbortedCommandsAreNotSpawned == Spec => AbortedIsNeverSpawned
<1> DEFINE P == \A c \in Commands : leader[c] = "none" /\ leader'[c] # "none" =>
                                      c \notin aborted /\ server = "up"
<1>1. ASSUME IInv, IInv', [Next]_vars PROVE P
  <2> SUFFICES ASSUME NEW c \in Commands, leader[c] = "none", leader'[c] # "none"
               PROVE  c \notin aborted /\ server = "up"
    OBVIOUS
  <2>1. Spawn(c) /\ server # "stopping"
    <3>1. L!Inv'
      BY <1>1 DEF IInv
    <3>2. ASSUME NEW d \in Commands, CommandStep(d), server # "stopping"
          PROVE  Spawn(c)
      BY <1>1, <3>1, <3>2, CommandStepPreserves
    <3>3. ~(AbortActive \/ Cancel \/ Shutdown \/ CloseServer \/ ExitProcess
              \/ UNCHANGED vars)
      BY <1>1, <3>1, ServerStepPreserves
    <3> QED
      BY <1>1, <3>2, <3>3 DEF Next, CommandStep
  <2>2. c \notin aborted /\ call[c] = "granted"
    BY <2>1 DEF Spawn, Permitted
  <2>3. server \in ServerStates /\ ServerInv /\ c \in Live
    BY <1>1, <2>2 DEF IInv, TypeOK, Live
  <2> QED
    BY <2>1, <2>2, <2>3 DEF ServerInv, ServerStates
<1> QED
  BY <1>1, InvariantHolds, PTL DEF Spec, AbortedIsNeverSpawned

\* The first answer of a command is its last, and no late timer or abort event
\* starts to terminate what has been answered.
THEOREM NothingFollowsTheAnswer == Spec => NothingAfterTheAnswer
<1> DEFINE P == \A c \in Commands : status[c] # "none" =>
                  status'[c] = status[c] /\ termination'[c] = termination[c]
<1>1. ASSUME IInv, IInv', [Next]_vars PROVE P
  <2>1. L!Inv'
    BY <1>1 DEF IInv
  <2>2. ASSUME NEW d \in Commands, CommandStep(d), server # "stopping" PROVE P
    BY <1>1, <2>1, <2>2, CommandStepPreserves
  <2> QED
    BY <1>1, <2>1, <2>2, ServerStepPreserves DEF Next, CommandStep
<1> QED
  BY <1>1, InvariantHolds, PTL DEF Spec, NothingAfterTheAnswer
=============================================================================
