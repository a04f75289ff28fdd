---------------------------- MODULE ExecScheduler ----------------------------
(***************************************************************************)
(* One exec request: the DAG scheduler of ExecExecutor.executeValidated in *)
(* src/executor/exec-executor.ts.                                          *)
(*                                                                         *)
(* The request (its dependency graph, failure mode and concurrency) is     *)
(* whatever validateExecInput accepts; it is chosen by Init and never      *)
(* changes.  Steps are the indexes of input.steps.  A JavaScript callback  *)
(* runs to completion, so each callback is one action with every call it   *)
(* makes: record, stop or releaseDependents, then schedule, and finish     *)
(* when the last step has settled.  What policy evaluation and the process *)
(* runner make of a running step is any of RunStatuses, or an unexpected   *)
(* error, at any later time.                                               *)
(***************************************************************************)
EXTENDS Integers, FiniteSets, Sequences

CONSTANTS NumSteps,     \* input.steps.length
          RunStatuses   \* the statuses that runStep may answer with

Steps == 1..NumSteps

AllRunStatuses ==
    {"success", "failed", "timeout", "cancelled", "rejected", "spawn_error"}
Statuses       == AllRunStatuses \cup {"skipped"}

ASSUME NumStepsAssumption == NumSteps \in Nat \ {0}
ASSUME RunStatusesAssumption == RunStatuses \subseteq AllRunStatuses

VARIABLES deps,         \* dependencyIndexes
          failureMode,  \* input.failureMode
          concurrency,  \* input.concurrency
          state,        \* states
          result,       \* the status in results, "none" while undefined
          ready,        \* the ready queue
          running, settled, peak,
          stopReason,   \* "none" while undefined
          aborted,      \* externalSignal.aborted
          listening,    \* externalAbortListener is registered
          outcome,      \* the promise of the request
          finishes      \* how often finish() has run

request == <<deps, failureMode, concurrency>>
vars == <<deps, failureMode, concurrency, state, result, ready, running,
          settled, peak, stopReason, aborted, listening, outcome, finishes>>

\* "created": before the promise's executor runs; "threw": finish() threw.
Outcomes    == {"created", "open", "resolved", "rejected", "threw"}
Answered    == {"resolved", "rejected"}
StopReasons == {"external_cancellation", "fail_fast", "internal_error"}

\* A graph is acyclic when every non-empty set of steps has one that depends
\* on no step of the set.  (ExecValidation checks that this is what the
\* depth-first search of execInputSchema accepts.)
Acyclic(g) == \A S \in SUBSET Steps :
                 S # {} => \E s \in S : g[s] \cap S = {}

Larger(a, b) == IF a > b THEN a ELSE b

\* The enumeration of a set of indexes in increasing order.
Ascending(S) == {q \in [1..Cardinality(S) -> S] :
                    /\ \A i, j \in 1..Cardinality(S) : i < j => q[i] < q[j]
                    /\ \A s \in S : \E i \in 1..Cardinality(S) : q[i] = s}

-----------------------------------------------------------------------------
(***************************************************************************)
(* The values at the start of executeValidated.                            *)
(***************************************************************************)
Init ==
    /\ deps \in {g \in [Steps -> SUBSET Steps] : Acyclic(g)}
    /\ failureMode \in {"continue", "fail_fast"}
    /\ concurrency \in 1..NumSteps
    /\ state = [s \in Steps |-> IF deps[s] = {} THEN "ready" ELSE "pending"]
    /\ result = [s \in Steps |-> "none"]
    /\ ready \in Ascending({s \in Steps : state[s] = "ready"})
    /\ running = 0
    /\ settled = 0
    /\ peak = 0
    /\ stopReason = "none"
    /\ aborted \in BOOLEAN
    /\ listening = FALSE
    /\ outcome = "created"
    /\ finishes = 0

-----------------------------------------------------------------------------
(***************************************************************************)
(* finish() and schedule().  A handler computes the states st, the results *)
(* res, the queue q, the count run and the stop reason `stop' that it has  *)
(* reached when it calls schedule(), and schedule() makes them the next    *)
(* state.  The loop shifts the first n entries of the queue; those that    *)
(* are still "ready" start.                                                *)
(***************************************************************************)
Finish(res, stop) ==
    /\ finishes' = finishes + 1
    /\ outcome' = IF stop = "internal_error" THEN "rejected"
                  ELSE IF \E s \in Steps : res[s] = "none" THEN "threw"
                  ELSE "resolved"

\* Its first statement removes the listener; `registered' says whether the
\* listener is there when schedule() is called.
\* (Faulty variant: finish() leaves the listener registered.)
ListeningForever(registered) == listening' = registered
Listening(registered) == listening' = (registered /\ outcome' = "open")

Started(st, q, n) == {s \in Steps : /\ st[s] = "ready"
                                    /\ \E i \in 1..n : q[i] = s}

\* Faulty variant: one step per call.
ScheduleShiftsOne(n, st, q, run, stop) ==
    n = IF stop # "none" \/ run >= concurrency \/ Len(q) = 0 THEN 0 ELSE 1

ScheduleShifts(n, st, q, run, stop) ==
    IF stop # "none"
    THEN n = 0
    ELSE /\ \A m \in 0..(n - 1) :
               run + Cardinality(Started(st, q, m)) < concurrency
         /\ \/ n = Len(q)
            \/ run + Cardinality(Started(st, q, n)) >= concurrency

\* Faulty variant: only a step that ran is counted.
NewlySettledRunning(st) ==
    {s \in Steps : st[s] = "settled" /\ state[s] = "running"}

NewlySettled(st) == {s \in Steps : st[s] = "settled" /\ state[s] # "settled"}

Schedule(st, res, q, run, stop) ==
    /\ \E n \in 0..Len(q) :
         /\ ScheduleShifts(n, st, q, run, stop)
         /\ state' = [s \in Steps |->
                        IF s \in Started(st, q, n) THEN "running" ELSE st[s]]
         /\ ready' = SubSeq(q, n + 1, Len(q))
         /\ running' = run + Cardinality(Started(st, q, n))
    /\ peak' = Larger(peak, running')
    /\ result' = res
    /\ stopReason' = stop
    /\ settled' = settled + Cardinality(NewlySettled(st))
    /\ IF settled' = NumSteps /\ running' = 0
       THEN Finish(res, stop)
       ELSE outcome' = "open" /\ UNCHANGED finishes
    /\ UNCHANGED request

(***************************************************************************)
(* record() for a set of steps, and stop(): the steps that have not        *)
(* started settle.                                                         *)
(***************************************************************************)
Settle(st, S)         == [s \in Steps |-> IF s \in S THEN "settled" ELSE st[s]]
Record(res, S, value) == [s \in Steps |-> IF s \in S THEN value ELSE res[s]]

NotStarted(st) == {s \in Steps : st[s] \in {"pending", "ready"}}

StopStatus(reason) ==
    IF reason = "external_cancellation" THEN "cancelled" ELSE "skipped"

StopAndSchedule(st, res, run, reason) ==
    Schedule(Settle(st, NotStarted(st)),
             Record(res, NotStarted(st), StopStatus(reason)),
             ready, run, reason)

(***************************************************************************)
(* releaseDependents(): a pending dependent of the completed step is       *)
(* skipped when one of its dependencies has a non-success result, and so   *)
(* are, recursively, the pending dependents of a skipped step: the least   *)
(* set closed under "depends on".  Of the others, those whose dependencies *)
(* have all settled join the ready queue in index order.                   *)
(* (ReleaseDependents checks this against the recursion of the code.)      *)
(***************************************************************************)
Failed(status) == status \notin {"none", "success"}

Pending(st)              == {t \in Steps : st[t] = "pending"}
PendingDependents(st, c) == {t \in Pending(st) : c \in deps[t]}

\* Faulty variants: a failure skips everything that waits, or nothing.
BlockedAll(st, res, c) ==
    IF \E d \in Steps : Failed(res[d]) THEN Pending(st) ELSE {}
BlockedNone(st, res, c) == {}

Blocked(st, res, c) ==
    {t \in PendingDependents(st, c) : \E d \in deps[t] : Failed(res[d])}

IsClosed(K, st) == \A t \in Pending(st) : deps[t] \cap K # {} => t \in K

\* Faulty variant: no recursion into the dependents of a skipped step.
SkippedDirect(st, res, c) == Blocked(st, res, c)

Skipped(st, res, c) ==
    {t \in Pending(st) : \A K \in SUBSET Pending(st) :
        Blocked(st, res, c) \subseteq K /\ IsClosed(K, st) => t \in K}

\* Faulty variant: the first dependency to succeed unlocks a step.
UnlockedEarly(st, res, c) == PendingDependents(st, c) \ Skipped(st, res, c)

Unlocked(st, res, c) ==
    {t \in PendingDependents(st, c) \ Skipped(st, res, c) :
        \A d \in deps[t] : st[d] = "settled"}

ReleaseAndSchedule(st, res, run, c) ==
    LET skip   == Skipped(st, res, c)
        unlock == Unlocked(st, res, c)
        next   == [s \in Steps |-> IF s \in unlock THEN "ready"
                                   ELSE Settle(st, skip)[s]]
    IN  \E order \in Ascending(unlock) :
          Schedule(next, Record(res, skip, "skipped"),
                   ready \o order, run, "none")

-----------------------------------------------------------------------------
(***************************************************************************)
(* The handlers.                                                           *)
(***************************************************************************)

\* The end of the promise's executor: a signal that is already aborted stops
\* the request; otherwise the listener is registered.
Start ==
    /\ outcome = "created"
    /\ IF aborted
       THEN /\ StopAndSchedule(state, result, running, "external_cancellation")
            /\ Listening(FALSE)
       ELSE /\ Schedule(state, result, ready, running, "none")
            /\ Listening(TRUE)
    /\ UNCHANGED aborted

\* The external signal aborts: externalAbortListener, while it is registered.
ExternalAbort ==
    /\ outcome # "created"
    /\ ~aborted
    /\ aborted' = TRUE
    /\ IF ~listening
       THEN UNCHANGED <<request, state, result, ready, running, settled, peak,
                        stopReason, outcome, finishes>>
       ELSE IF stopReason = "none"
            THEN StopAndSchedule(state, result, running, "external_cancellation")
            ELSE Schedule(state, result, ready, running, stopReason)
    /\ listening' = FALSE

\* What the two handlers of a running step have in common.
StepCallback ==
    /\ UNCHANGED aborted
    /\ Listening(listening)

\* stepFinished() in its three cases.
StepFailsFast(s, r) ==
    /\ stopReason = "none"
    /\ failureMode = "fail_fast" /\ Failed(r)
    /\ StopAndSchedule(Settle(state, {s}), Record(result, {s}, r),
                       running - 1, "fail_fast")

StepReleases(s, r) ==
    /\ stopReason = "none"
    /\ failureMode = "continue" \/ ~Failed(r)
    /\ ReleaseAndSchedule(Settle(state, {s}), Record(result, {s}, r),
                          running - 1, s)

StepEndsAfterStop(s, r) ==
    /\ stopReason # "none"
    /\ Schedule(Settle(state, {s}), Record(result, {s}, r),
                ready, running - 1, stopReason)

StepFinished(s, r) ==
    /\ state[s] = "running"
    /\ \/ StepFailsFast(s, r)
       \/ StepReleases(s, r)
       \/ StepEndsAfterStop(s, r)
    /\ StepCallback

\* stepErrored(): the step is recorded as skipped, and the error stops the
\* request unless something else has stopped it before.
StepErrored(s) ==
    /\ state[s] = "running"
    /\ \/ /\ stopReason = "none"
          /\ StopAndSchedule(Settle(state, {s}), Record(result, {s}, "skipped"),
                             running - 1, "internal_error")
       \/ StepEndsAfterStop(s, "skipped")
    /\ StepCallback

StepReturns == \E s \in Steps : \/ \E r \in RunStatuses : StepFinished(s, r)
                                \/ StepErrored(s)

Next == Start \/ ExternalAbort \/ StepReturns

Spec == Init /\ [][Next]_vars

\* The promise's executor runs, and the steps that run come back: prepare()
\* returns, and the process runner settles every command it is given.  The
\* second conjunct is WF_vars(StepReturns) spelled out: StepReturns is enabled
\* exactly while some step runs, and no other action settles a step that runs.
NoneRuns  == \A s \in Steps : state[s] # "running"
SomeEnds  == \E s \in Steps : state[s] = "running" /\ state'[s] = "settled"
FairSpec  == Spec /\ WF_vars(Start) /\ ([]<>NoneRuns \/ []<><<SomeEnds>>_vars)

-----------------------------------------------------------------------------
(***************************************************************************)
(* Properties.                                                             *)
(***************************************************************************)
InState(x) == {s \in Steps : state[s] = x}

\* The type invariant.
TypeOK ==
    /\ deps \in [Steps -> SUBSET Steps]
    /\ failureMode \in {"continue", "fail_fast"}
    /\ concurrency \in 1..NumSteps
    /\ state \in [Steps -> {"pending", "ready", "running", "settled"}]
    /\ result \in [Steps -> Statuses \cup {"none"}]
    /\ ready \in Seq(Steps)
    /\ running \in 0..concurrency
    /\ settled \in 0..NumSteps
    /\ peak \in running..concurrency
    /\ stopReason \in StopReasons \cup {"none"}
    /\ aborted \in BOOLEAN
    /\ listening \in BOOLEAN
    /\ outcome \in Outcomes
    /\ finishes \in Nat

\* The two counters that decide when the request ends are exact in every
\* state, although five handlers and a recursion keep them.
CountersExact == /\ running = Cardinality(InState("running"))
                 /\ settled = Cardinality(InState("settled"))

Inv == TypeOK /\ CountersExact

\* A step is ready, running, or has been run only when every step it depends
\* on has settled with success ("cancelled" and "skipped" can be the result of
\* a step that was never started, so they say nothing).
DependenciesFirst ==
    \A s \in Steps :
        \/ state[s] \in {"ready", "running"}
        \/ result[s] \in {"success", "failed", "timeout", "rejected",
                          "spawn_error"}
        => \A d \in deps[s] : result[d] = "success"

\* An unanswered request always has a step that runs, so it has a callback to
\* wake it, and a slot of the request is free only when no step could use it:
\* no order of completions, skips and stops strands a pending or a ready step.
NeverStuck ==
    outcome = "open" =>
        /\ InState("running") # {}
        /\ InState("ready") # {} => Cardinality(InState("running")) = concurrency

\* The request is answered at most once, and only when every step has settled
\* with a result; the error "Exec ended without a result for every step" is
\* never thrown.
AnsweredOnce ==
    /\ finishes = IF outcome \in Answered THEN 1 ELSE 0
    /\ outcome # "threw"
    /\ outcome \in Answered =>
         \A s \in Steps : state[s] = "settled" /\ result[s] # "none"

\* README: "a failed branch skips only its descendants; unrelated branches
\* continue".  In a request that nothing stopped, a step is skipped exactly
\* when a step it depends on did not succeed.
SkipsOnlyDescendants ==
    outcome = "resolved" /\ stopReason = "none" =>
        \A s \in Steps :
            result[s] = "skipped" <=> \E d \in deps[s] : result[d] # "success"

\* The scheduler implements the contract of a request: each handler is one
\* step of ExecContract or none.
StatusOf == [s \in Steps |-> CASE state[s] = "settled" -> result[s]
                               [] state[s] = "running" -> "running"
                               [] OTHER                -> "waiting"]

Contract == INSTANCE ExecContract
            WITH Final <- Statuses, status <- StatusOf,
                 answered <- (outcome \in Answered)

ImplementsContract == Contract!Spec

\* Every request is answered.
EventuallyAnswered == <>(outcome \in Answered)

=============================================================================
