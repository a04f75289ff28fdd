-------------------------- MODULE ExecutionLimiter --------------------------
(***************************************************************************)
(* The process-wide FIFO semaphore of src/executor/execution-limiter.ts.   *)
(*                                                                         *)
(* A client is a command that calls acquire() with its own AbortSignal,    *)
(* holds the permit it is granted, and calls release() on it.  A client    *)
(* whose call has ended may call again with a fresh signal: it then stands *)
(* for a later command.  Every JavaScript function runs to completion, so  *)
(* each of them is one action, with the drain loop that release() runs.    *)
(* Dispatching an abort event is the exception: the signal reads as        *)
(* aborted before its listeners run, and a listener registered earlier on  *)
(* the same source may call the limiter.  Abort and AbortListener are      *)
(* therefore two actions.                                                  *)
(***************************************************************************)
EXTENDS Integers, FiniteSets, Sequences

CONSTANTS Clients,             \* the commands that share the limiter
          MaximumConcurrency   \* this.maximumConcurrency

ASSUME ClientsAssumption == IsFiniteSet(Clients)

\* The constructor throws on anything but a positive integer.
ASSUME MaximumConcurrencyAssumption == MaximumConcurrency \in Nat \ {0}

VARIABLES queue,     \* #queue: the waiters in order of arrival
          active,    \* #active: permits granted and not yet released
          peak,      \* #peak: the largest value of active so far
          shutdown,  \* #shutdown
          call,      \* what became of each client's latest acquire()
          aborted    \* the clients whose signal reads as aborted

vars == <<queue, active, peak, shutdown, call, aborted>>

\* "waiting": the promise of acquire() is unsettled; "granted": it resolved
\* and the permit is held; "cancelled" and "shutdown": it was rejected with
\* that code; "released": the permit was given back.
CallStates == {"idle", "waiting", "granted", "released", "cancelled", "shutdown"}
Ended      == {"idle", "released", "cancelled", "shutdown"}

Holders == {c \in Clients : call[c] = "granted"}
Waiters == {c \in Clients : call[c] = "waiting"}

Larger(a, b) == IF a > b THEN a ELSE b

Init == /\ queue = <<>>
        /\ active = 0
        /\ peak = 0
        /\ shutdown = FALSE
        /\ call = [c \in Clients |-> "idle"]
        /\ aborted = {}

-----------------------------------------------------------------------------
(***************************************************************************)
(* acquire(): reject, grant at once, or queue.  A fresh call comes with a  *)
(* signal that is already aborted or not.                                  *)
(***************************************************************************)
FreshSignal(c, isAborted) ==
    aborted' = IF isAborted THEN aborted \cup {c} ELSE aborted \ {c}

AcquireRejected(c) ==
    /\ call[c] \in Ended
    /\ \E isAborted \in BOOLEAN :
         /\ shutdown \/ isAborted
         /\ FreshSignal(c, isAborted)
    /\ call' = [call EXCEPT ![c] = IF shutdown THEN "shutdown" ELSE "cancelled"]
    /\ UNCHANGED <<queue, active, peak, shutdown>>

MayGrantAtOnce == active < MaximumConcurrency /\ Len(queue) = 0

\* Faulty variant: acquire() does not look at #shutdown.
AcquireGrantedInShutdown(c) ==
    /\ call[c] \in Ended
    /\ MayGrantAtOnce
    /\ call' = [call EXCEPT ![c] = "granted"]
    /\ active' = active + 1
    /\ peak' = Larger(peak, active + 1)
    /\ FreshSignal(c, FALSE)
    /\ UNCHANGED <<queue, shutdown>>

AcquireGranted(c) ==
    /\ call[c] \in Ended
    /\ ~shutdown
    /\ MayGrantAtOnce
    /\ call' = [call EXCEPT ![c] = "granted"]
    /\ active' = active + 1
    /\ peak' = Larger(peak, active + 1)
    /\ FreshSignal(c, FALSE)
    /\ UNCHANGED <<queue, shutdown>>

\* Faulty variant: the newcomer enters at the head of the queue.
AcquireQueuedAtHead(c) ==
    /\ call[c] \in Ended
    /\ ~shutdown
    /\ ~MayGrantAtOnce
    /\ call' = [call EXCEPT ![c] = "waiting"]
    /\ queue' = <<c>> \o queue
    /\ FreshSignal(c, FALSE)
    /\ UNCHANGED <<active, peak, shutdown>>

AcquireQueued(c) ==
    /\ call[c] \in Ended
    /\ ~shutdown
    /\ ~MayGrantAtOnce
    /\ call' = [call EXCEPT ![c] = "waiting"]
    /\ queue' = Append(queue, c)
    /\ FreshSignal(c, FALSE)
    /\ UNCHANGED <<active, peak, shutdown>>

(***************************************************************************)
(* release(): idempotent, then the drain loop.  The loop shifts the queue  *)
(* until the limiter is full or the queue is empty; a waiter whose signal  *)
(* reads as aborted is rejected and takes no permit.  n is the number of   *)
(* waiters the loop shifts when it starts with `free' permits taken.       *)
(***************************************************************************)
Shifted(n) == {queue[i] : i \in 1..n}
\* Faulty variant: the drain does not look at the waiter's signal.
GrantedUnchecked(n) == Shifted(n)
GrantedBy(n) == Shifted(n) \ aborted

\* Faulty variant: one waiter per release, even when that waiter is rejected.
DrainShiftsOne(n, taken) ==
    n = IF shutdown \/ Len(queue) = 0 THEN 0 ELSE 1

DrainShifts(n, taken) ==
    IF shutdown
    THEN n = 0
    ELSE /\ \A m \in 0..(n - 1) :
               taken + Cardinality(GrantedBy(m)) < MaximumConcurrency
         /\ \/ n = Len(queue)
            \/ taken + Cardinality(GrantedBy(n)) >= MaximumConcurrency

FirstRelease(c) ==
    \E n \in 0..Len(queue) :
       /\ DrainShifts(n, active - 1)
       /\ queue' = SubSeq(queue, n + 1, Len(queue))
       /\ active' = active - 1 + Cardinality(GrantedBy(n))
       /\ peak' = Larger(peak, active')
       /\ call' = [d \in Clients |->
                     IF d = c THEN "released"
                     ELSE IF d \in GrantedBy(n) THEN "granted"
                     ELSE IF d \in Shifted(n) THEN "cancelled"
                     ELSE call[d]]
       /\ UNCHANGED <<shutdown, aborted>>

\* Faulty variant: the release does not drain.
ReleaseWithoutDrain(c) ==
    /\ call[c] = "granted"
    /\ active' = active - 1
    /\ call' = [call EXCEPT ![c] = "released"]
    /\ UNCHANGED <<queue, peak, shutdown, aborted>>

Release(c) ==
    \/ call[c] = "granted" /\ FirstRelease(c)
    \/ call[c] = "released" /\ UNCHANGED vars

(***************************************************************************)
(* One source aborts the signals of the waiting and running commands S;    *)
(* then the listener of a waiter, which is registered as long as it waits, *)
(* takes it out of the queue.                                              *)
(***************************************************************************)
Abort(S) ==
    /\ \A c \in S : call[c] \in {"waiting", "granted"}
    /\ aborted' = aborted \cup S
    /\ UNCHANGED <<queue, active, peak, shutdown, call>>

AbortListener(c) ==
    /\ call[c] = "waiting"
    /\ c \in aborted
    /\ \E index \in 1..Len(queue) :
         /\ queue[index] = c
         /\ queue' = SubSeq(queue, 1, index - 1)
                       \o SubSeq(queue, index + 1, Len(queue))
    /\ call' = [call EXCEPT ![c] = "cancelled"]
    /\ UNCHANGED <<active, peak, shutdown, aborted>>

(***************************************************************************)
(* shutdown(): every waiter is rejected and nobody is granted any more.    *)
(***************************************************************************)
Shutdown ==
    /\ ~shutdown
    /\ shutdown' = TRUE
    /\ queue' = <<>>
    /\ call' = [c \in Clients |->
                  IF c \in Shifted(Len(queue)) THEN "shutdown" ELSE call[c]]
    /\ UNCHANGED <<active, peak, aborted>>

Next == \/ Shutdown
        \/ \E S \in SUBSET Clients : Abort(S)
        \/ \E c \in Clients : \/ AcquireRejected(c)
                              \/ AcquireGranted(c)
                              \/ AcquireQueued(c)
                              \/ Release(c)
                              \/ AbortListener(c)

Spec == Init /\ [][Next]_vars

\* Every command ends (ProcessRunner releases its permit in a finally block),
\* and an abort event that is being dispatched reaches its listeners.
Fairness == \A c \in Clients : /\ WF_vars(Release(c))
                               /\ WF_vars(AbortListener(c))

FairSpec == Spec /\ Fairness

-----------------------------------------------------------------------------
(***************************************************************************)
(* Properties.                                                             *)
(***************************************************************************)

\* The type invariant.
TypeOK == /\ queue \in Seq(Clients)
          /\ active \in 0..MaximumConcurrency
          /\ peak \in active..MaximumConcurrency
          /\ shutdown \in BOOLEAN
          /\ call \in [Clients -> CallStates]
          /\ aborted \subseteq Clients

\* The counter is exact: active is the number of commands that hold a permit,
\* whatever the order of grants, double releases, aborts and shutdown, and
\* there are never more holders than maximumConcurrency.
ActiveCountsPermits == /\ active = Cardinality(Holders)
                       /\ Cardinality(Holders) <= MaximumConcurrency

\* No promise is lost: the queue holds exactly the commands whose acquire()
\* is unsettled, each once.
QueueHoldsWaiters ==
    /\ \A i, j \in 1..Len(queue) : queue[i] = queue[j] => i = j
    /\ Waiters = {queue[i] : i \in 1..Len(queue)}

\* A command waits only while every permit is taken: no interleaving of
\* aborts and releases leaves a free permit beside a waiter.
WorkConserving == queue # <<>> => /\ active = MaximumConcurrency
                                  /\ ~shutdown

\* The four together are inductive.
Inv == TypeOK /\ ActiveCountsPermits /\ QueueHoldsWaiters /\ WorkConserving

\* c stands before d in the queue q.
Before(q, c, d) ==
    \E i, j \in 1..Len(q) : i < j /\ q[i] = c /\ q[j] = d

\* Arrival order: when c already waits and d comes after it, in the queue or as
\* a new call, d is not granted in a step that leaves c waiting, and d never
\* gets before c in the queue.  By induction over the steps, permits are
\* granted in the order of the calls to acquire().
NoOvertaking ==
    [][\A c \in Waiters, d \in Clients :
         c # d /\ (d \notin Waiters \/ Before(queue, c, d)) /\ call'[c] = "waiting" =>
            /\ call'[d] = "granted" => call[d] = "granted"
            /\ call'[d] = "waiting" => Before(queue', c, d)]_vars

\* A waiter whose signal already reads as aborted when a permit comes free is
\* never granted it.
AbortedNeverGranted ==
    [][\A c \in aborted : call[c] = "waiting" => call'[c] # "granted"]_vars

\* After shutdown() no command is granted a permit, queued or new, although
\* the permits held are still given back.
NoGrantAfterShutdown ==
    [][shutdown => \A c \in Clients :
                     call'[c] = "granted" => call[c] = "granted"]_vars

\* No starvation: with every holder releasing in the end, a waiter is
\* granted, cancelled or rejected in the end, although other commands keep
\* coming.
NoStarvation == \A c \in Clients : call[c] = "waiting" ~> call[c] # "waiting"

=============================================================================
