------------------------------ MODULE ProgramRun ------------------------------
(***************************************************************************)
(* One exec_program call: ProgramExecutor.execute in                       *)
(* src/program/program-executor.ts, QuickJsProgramRuntime.run in           *)
(* quickjs-runtime.ts and the Worker of quickjs-worker.ts, two threads     *)
(* that exchange messages in order.                                        *)
(*                                                                         *)
(* The guest program is arbitrary: while it runs it calls exec, finish, or *)
(* nothing; it ends, throws or waits.  It runs from its start and after    *)
(* every answer to a call of exec.  The program's own limiter is           *)
(* ExecutionLimiter, used as it is; the process runner is external here:   *)
(* it settles a command it was given (ProcessRunner shows that it does).   *)
(***************************************************************************)
EXTENDS Integers, FiniteSets, Sequences

CONSTANTS MaxCalls,          \* bound: calls of exec that the guest makes
          MaxExecCalls,      \* limits.maxExecCalls
          LocalConcurrency   \* limits.maxConcurrency

Calls == 1..MaxCalls   \* the ids of exec_request

ASSUME BoundsAssumption == MaxCalls \in Nat /\ MaxExecCalls \in Nat \ {0}

\* validateExecProgramInput() accepts only positive integers.
ASSUME LocalConcurrencyAssumption == LocalConcurrency \in Nat \ {0}

VARIABLES queue, active, peak, shutdown, call, aborted   \* localLimiter
limiter == <<queue, active, peak, shutdown, call, aborted>>

L == INSTANCE ExecutionLimiter
     WITH Clients <- Calls, MaximumConcurrency <- LocalConcurrency

VARIABLES
    guest,         \* "running", "idle" (waits for an answer) or "ended"
    pending,       \* pending of the Worker: calls without an answer
    nextId,        \* nextRequestId
    finished,      \* finish() was called
    unsent,        \* history: the calls whose request could not be sent
    toHost, toWorker,   \* the messages on their way
    clientAborted, \* the signal of the tool call
    commandAborted,\* commandSignal.aborted
    execCalls,
    phase,         \* where executeCommand is for each call, see Phases
    settled,       \* how the promise of the runtime settled, or "no"
    returned       \* what execute() answered, or "no"

worker == <<guest, pending, nextId, finished, unsent>>
vars == <<limiter, worker, toHost, toWorker, clientAborted, commandAborted,
          execCalls, phase, settled, returned>>

\* "local": in or behind localLimiter.acquire(); "running": given to the
\* process runner; "done": executeCommand has returned or thrown; "answered":
\* after executeFromWorker.
Phases   == {"none", "local", "running", "done", "answered"}
Failures == {"cancelled", "timeout", "execution_failed", "memory_limit"}

Message(type, value) == [type |-> type, value |-> value]

\* The program starts, or the signal was aborted before: then run() throws.
Init ==
    /\ L!Init
    /\ clientAborted \in BOOLEAN
    /\ commandAborted = clientAborted
    /\ settled = IF clientAborted THEN "cancelled" ELSE "no"
    /\ guest = "running" /\ pending = {} /\ nextId = 1 /\ finished = FALSE
    /\ unsent = {}
    /\ toHost = <<>> /\ toWorker = <<>>
    /\ execCalls = 0
    /\ phase = [c \in Calls |-> "none"]
    /\ returned = "no"

\* settle() terminates the Worker; what it may still send is dropped.
WorkerUp == settled = "no"

-----------------------------------------------------------------------------
(***************************************************************************)
(* The Worker.                                                             *)
(***************************************************************************)
host == <<limiter, clientAborted, commandAborted, execCalls, phase, settled,
          returned>>

\* The id is taken and `pending' extended before the request is copied.  What
\* cannot be copied (a symbol) makes dump() or postMessage() throw: exec throws in
\* the guest, nothing is sent, and nobody takes the id out of `pending' again.
GuestExec ==
    /\ WorkerUp /\ guest = "running" /\ ~finished
    /\ nextId <= MaxCalls
    /\ nextId' = nextId + 1
    /\ pending' = pending \cup {nextId}
    /\ \/ /\ toHost' = Append(toHost, Message("exec_request", nextId))
          /\ UNCHANGED unsent
       \/ /\ unsent' = unsent \cup {nextId}
          /\ UNCHANGED toHost
    /\ UNCHANGED <<guest, finished, toWorker, host>>

\* Faulty variant: finish() does not look at `pending'.
GuestFinishAnyTime ==
    /\ WorkerUp /\ guest = "running" /\ ~finished
    /\ finished' = TRUE
    /\ UNCHANGED <<guest, pending, nextId, unsent, toHost, toWorker, host>>

GuestFinish ==
    /\ WorkerUp /\ guest = "running" /\ ~finished
    /\ pending = {}
    /\ finished' = TRUE
    /\ UNCHANGED <<guest, pending, nextId, unsent, toHost, toWorker, host>>

GuestWaits ==
    /\ WorkerUp /\ guest = "running"
    /\ guest' = "idle"
    /\ UNCHANGED <<pending, nextId, finished, unsent, toHost, toWorker, host>>

\* The end of main(), and its catch; the code of an error depends on the
\* message of what was thrown and on the deadline.  When the value of finish()
\* cannot be copied the Worker ends without a message (sentTerminalMessage).
GuestEnds ==
    /\ WorkerUp /\ guest = "running"
    /\ guest' = "ended"
    /\ \/ finished /\ toHost' = Append(toHost, Message("result", 0))
       \/ finished /\ UNCHANGED toHost
       \/ \E code \in {"execution_failed", "memory_limit", "timeout"} :
            toHost' = Append(toHost, Message("error", code))
    /\ UNCHANGED <<pending, nextId, finished, unsent, toWorker, host>>

\* handleResponse(): the answer, then the jobs that waited for it.
HandleResponse ==
    /\ WorkerUp /\ guest = "idle"
    /\ toWorker # <<>>
    /\ toWorker' = Tail(toWorker)
    /\ pending' = pending \ {Head(toWorker)}
    /\ guest' = "running"
    /\ UNCHANGED <<nextId, finished, unsent, toHost, host>>

-----------------------------------------------------------------------------
(***************************************************************************)
(* The host: settle() and fail() of the runtime.                           *)
(***************************************************************************)
Settle(how) == settled' = IF settled = "no" THEN how ELSE settled

OnlySettles(how) ==
    /\ Settle(how)
    /\ UNCHANGED <<limiter, worker, toWorker, clientAborted, commandAborted,
                   execCalls, phase, returned>>

Timeout == settled = "no" /\ OnlySettles("timeout") /\ UNCHANGED toHost

\* 'error' or 'exit' of the Worker.  The exit of one that has ended comes after
\* its last message, with code 0; that of one that was terminated comes after
\* the runtime has settled.
WorkerDies ==
    /\ guest = "ended" => toHost = <<>> \/ settled # "no"
    /\ \E code \in {"execution_failed", "memory_limit"} :
         (guest = "ended" => code = "execution_failed") /\ OnlySettles(code)
    /\ UNCHANGED toHost

TerminalMessage ==
    /\ toHost # <<>>
    /\ Head(toHost).type \in {"result", "error"}
    /\ toHost' = Tail(toHost)
    /\ OnlySettles(IF Head(toHost).type = "result" THEN "result"
                   ELSE Head(toHost).value)

-----------------------------------------------------------------------------
(***************************************************************************)
(* executeCommand().  It counts the call, refuses it, or waits for the     *)
(* local permit; its signal, commandSignal, cannot be aborted before the   *)
(* runtime has settled.                                                    *)
(***************************************************************************)
Acquire(c) == L!AcquireGranted(c) \/ L!AcquireQueued(c)

\* The check of max_exec_calls.
WithinBudget(calls) == calls <= MaxExecCalls

ExecRequest ==
    /\ toHost # <<>>
    /\ Head(toHost).type = "exec_request"
    /\ toHost' = Tail(toHost)
    /\ LET c == Head(toHost).value
       IN  IF settled # "no"
           THEN UNCHANGED <<limiter, execCalls, phase>>
           ELSE /\ execCalls' = execCalls + 1
                /\ \/ /\ WithinBudget(execCalls')
                      /\ Acquire(c)
                      /\ phase' = [phase EXCEPT ![c] = "local"]
                   \/ \* over the budget, malformed or not allowed
                      /\ phase' = [phase EXCEPT ![c] = "done"]
                      /\ UNCHANGED limiter
    /\ UNCHANGED <<worker, toWorker, clientAborted, commandAborted, settled,
                   returned>>

HostStep == UNCHANGED <<worker, toHost, toWorker, clientAborted,
                        commandAborted, execCalls, settled, returned>>

WaiterCancelled(c) ==
    /\ L!AbortListener(c)
    /\ HostStep /\ UNCHANGED phase

\* acquire() was rejected: a result "cancelled".
LocallyRejected(c) ==
    /\ phase[c] = "local"
    /\ call[c] \in {"cancelled", "shutdown"}
    /\ phase' = [phase EXCEPT ![c] = "done"]
    /\ HostStep /\ UNCHANGED limiter

\* prepare() has passed and run() is called; with an aborted signal run()
\* starts nothing.  (Faulty variant: run() gets no signal.)
StartsUnsignalled(c) ==
    /\ phase[c] = "local" /\ call[c] = "granted"
    /\ phase' = [phase EXCEPT ![c] = "running"]
    /\ HostStep /\ UNCHANGED limiter

Starts(c) ==
    /\ phase[c] = "local" /\ call[c] = "granted"
    /\ ~commandAborted
    /\ phase' = [phase EXCEPT ![c] = "running"]
    /\ HostStep /\ UNCHANGED limiter

\* The finally block, after prepare() rejected, after a run() that started
\* nothing, and after a command.  (Faulty variants: not after a rejection;
\* before the command has ended.)
ReturnsAfterRun(c) ==
    /\ phase[c] = "running"
    /\ L!Release(c)
    /\ phase' = [phase EXCEPT ![c] = "done"]
    /\ HostStep

ReturnsKeepingCommand(c) ==
    /\ phase[c] = "running" /\ call[c] = "granted"
    /\ L!Release(c)
    /\ HostStep /\ UNCHANGED phase

Returns(c) ==
    /\ phase[c] \in {"local", "running"} /\ call[c] = "granted"
    /\ L!Release(c)
    /\ phase' = [phase EXCEPT ![c] = "done"]
    /\ HostStep

\* The end of executeFromWorker().  (Faulty variant: what execute() threw is not
\* answered.)
RespondWithResults(c) ==
    /\ phase[c] = "done"
    /\ phase' = [phase EXCEPT ![c] = "answered"]
    /\ toWorker' = IF settled = "no" /\ call[c] # "idle"
                   THEN Append(toWorker, c) ELSE toWorker
    /\ UNCHANGED <<limiter, worker, toHost, clientAborted, commandAborted,
                   execCalls, settled, returned>>

Respond(c) ==
    /\ phase[c] = "done"
    /\ phase' = [phase EXCEPT ![c] = "answered"]
    /\ toWorker' = IF settled = "no" THEN Append(toWorker, c) ELSE toWorker
    /\ UNCHANGED <<limiter, worker, toHost, clientAborted, commandAborted,
                   execCalls, settled, returned>>

-----------------------------------------------------------------------------
(***************************************************************************)
(* Cancellation by the client, and the end of execute(): its finally block *)
(* aborts the commands and shuts the local limiter down, some turns of the *)
(* microtask queue after the runtime has settled.                          *)
(***************************************************************************)
Waiting == {c \in Calls : call[c] \in {"waiting", "granted"}}

ClientAborts ==
    /\ ~clientAborted /\ returned = "no"
    /\ clientAborted' = TRUE /\ commandAborted' = TRUE
    /\ L!Abort(Waiting)
    /\ Settle("cancelled")
    /\ UNCHANGED <<worker, toHost, toWorker, execCalls, phase, returned>>

FinallyAborts ==
    /\ settled # "no" /\ ~commandAborted
    /\ commandAborted' = TRUE
    /\ L!Abort(Waiting)
    /\ UNCHANGED <<worker, toHost, toWorker, clientAborted, execCalls, phase,
                   settled, returned>>

\* A result may be no JSON, or too large.
ExecuteReturns ==
    /\ settled # "no" /\ commandAborted /\ returned = "no"
    /\ L!Shutdown
    /\ returned' \in IF settled = "result"
                     THEN {"value", "execution_failed", "result_too_large"}
                     ELSE {settled}
    /\ UNCHANGED <<worker, toHost, toWorker, clientAborted, commandAborted,
                   execCalls, phase, settled>>

Host(c) == WaiterCancelled(c) \/ LocallyRejected(c) \/ Starts(c) \/ Returns(c)
           \/ Respond(c)

Next ==
    \/ GuestExec \/ GuestFinish \/ GuestWaits \/ GuestEnds \/ HandleResponse
    \/ Timeout \/ WorkerDies \/ TerminalMessage \/ ExecRequest
    \/ ClientAborts \/ FinallyAborts \/ ExecuteReturns
    \/ \E c \in Calls : Host(c)

Spec == Init /\ [][Next]_vars

\* Messages arrive, callbacks run, and the runner settles what it was given.
\* The guest and the deadline promise nothing.
FairSpec ==
    /\ Spec
    /\ WF_vars(HandleResponse) /\ WF_vars(TerminalMessage) /\ WF_vars(ExecRequest)
    /\ WF_vars(FinallyAborts) /\ WF_vars(ExecuteReturns)
    /\ \A c \in Calls : /\ WF_vars(WaiterCancelled(c)) /\ WF_vars(LocallyRejected(c))
                        /\ WF_vars(Returns(c)) /\ WF_vars(Respond(c))

-----------------------------------------------------------------------------
(***************************************************************************)
(* Properties.                                                             *)
(***************************************************************************)
\* The type invariant.
TypeOK ==
    /\ L!TypeOK
    /\ guest \in {"running", "idle", "ended"}
    /\ pending \subseteq Calls /\ nextId \in 1..(MaxCalls + 1)
    /\ finished \in BOOLEAN /\ unsent \subseteq Calls
    /\ clientAborted \in BOOLEAN /\ commandAborted \in BOOLEAN
    /\ execCalls \in 0..MaxCalls
    /\ phase \in [Calls -> Phases]
    /\ settled \in Failures \cup {"no", "result"}
    /\ returned \in Failures \cup {"no", "value", "result_too_large"}

InPhase(p) == {c \in Calls : phase[c] = p}

\* The program never has more commands than its max_concurrency with the
\* runner, nor starts more than max_exec_calls, and each holds its permit.
LimitsHold ==
    /\ Cardinality(InPhase("running")) <= LocalConcurrency
    /\ \A c \in InPhase("running") : call[c] = "granted"
    /\ Cardinality({c \in Calls : call[c] # "idle"}) <= MaxExecCalls

\* Both: the types and the limits.
Inv == TypeOK /\ LimitsHold

\* Each call that the Worker waits for is in exactly one place: on its way to
\* the host, in the host, or on its way back; no answer is lost or doubled.  Only
\* a call whose request could not be sent is in none, and is waited for in vain:
\* finish() refuses such a program for good (__hostExec, quickjs-worker.ts:84).
PendingIsSomewhere ==
    settled = "no" =>
      /\ \A c \in Calls :
           LET places == {<<"out", i>> : i \in {j \in DOMAIN toHost :
                             toHost[j] = Message("exec_request", c)}}
                 \cup {<<"in", i>> : i \in {j \in DOMAIN toWorker : toWorker[j] = c}}
                 \cup {<<"host", p>> : p \in {phase[c]} \ {"none", "answered"}}
           IN  Cardinality(places) = IF c \in pending \ unsent THEN 1 ELSE 0
      /\ unsent \subseteq pending
      /\ unsent # {} => ~finished

\* However a program ends, it leaves no command that nobody has asked to end: a
\* value is returned only when every call has been answered, although finish()
\* looks at the Worker's account of the calls and the commands are the host's;
\* and otherwise what has not ended is cancelled and the local limiter closed
\* (docs/execution-flows.md).
NoCommandIsForgotten ==
    /\ settled = "result" => InPhase("local") \cup InPhase("running") = {}
    /\ returned # "no" =>
         /\ commandAborted /\ shutdown
         /\ \A c \in InPhase("local") \cup InPhase("running") :
              c \in aborted \/ call[c] \in {"cancelled", "shutdown"}

\* The first outcome counts: deadline, cancellation, a message and the end of
\* the Worker race, and the answer follows the first.  After execute() has
\* returned no command of the program starts, whatever was in flight.
EndIsFinal ==
    [][/\ settled # "no" => settled' = settled
       /\ returned # "no" => /\ returned' = returned
                             /\ InPhase("running")' \subseteq InPhase("running")]_vars

\* The local limiter is used as its specification demands; in particular
\* every permit comes back, on each path through executeCommand.
UsesLimiter == L!FairSpec

\* Every call that a program has sent and waits for is answered, or the program
\* has ended: holding the local permit while waiting for the global one blocks
\* nobody.  A call that was not sent made exec throw; the guest knows of it.
CallsAreAnswered ==
    \A c \in Calls :
      []<>(guest = "idle") =>
        (c \in pending \ unsent ~> c \notin pending \/ settled # "no")

=============================================================================
