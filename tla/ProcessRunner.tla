----------------------------- MODULE ProcessRunner -----------------------------
(***************************************************************************)
(* The commands that share one ProcessRunner: src/executor/                *)
(* process-runner.ts and the POSIX half of process-tree.ts, composed with  *)
(* ExecutionLimiter, whose variables and actions are used as they are, and *)
(* with the shutdown sequence of src/mcp/stdio.ts.                         *)
(*                                                                         *)
(* Every command is run once.  What it does to the operating system is one *)
(* of Behaviours[c].  Any process may exit at any time, on SIGTERM or not; *)
(* only SIGKILL makes it exit.  A server callback is one action.           *)
(***************************************************************************)
EXTENDS Integers, FiniteSets, Sequences

CONSTANTS Commands, MaximumConcurrency,
          Behaviours   \* what the program of each command may do

\* "plain": one process.  "child", "daemon", "escaper": it forks a descendant
\* that inherits the output pipes, that stays in the process group with its
\* output redirected, or that holds the pipes and has left the group (setsid).
\* "privileged": one process that the server has no permission to signal.
AllBehaviours == {"plain", "child", "daemon", "escaper", "privileged"}
ASSUME BehavioursAssumption == Behaviours \in [Commands -> SUBSET AllBehaviours]

\* As in ExecutionLimiter: its constructor rejects anything but a positive integer.
ASSUME CommandsAssumption == IsFiniteSet(Commands)
ASSUME MaximumConcurrencyAssumption == MaximumConcurrency \in Nat \ {0}

VARIABLES queue, active, peak, shutdown, call, aborted   \* the limiter
limiter == <<queue, active, peak, shutdown, call, aborted>>

L == INSTANCE ExecutionLimiter WITH Clients <- Commands

VARIABLES
    behaviour,    \* of the spawned program
    leader,       \* the spawned process, see LeaderStates
    exit,         \* its exit code: "none", "zero" or "other" (also: by signal)
    descendant,   \* "none", "alive" or "gone"
    termination,  \* why the process tree was asked to end, or "none"
    deadline,     \* the timer of timeoutMs is armed
    listening,    \* the commands whose abort listener is registered
    forceKill,    \* the timer of FORCE_KILL_DELAY_MS: "off", "armed", "fired"
    status,       \* of the result that the promise resolved to, or "none"
    server        \* how far shutdown() of stdio.ts has come

os     == <<behaviour, leader, exit, descendant>>
timers == <<termination, deadline, listening, forceKill>>
vars   == <<limiter, os, timers, status, server>>

\* "failing": spawn() returned a child without a pid, its error event is due;
\* "exited": the process ended; "reaped": the server has seen that.
LeaderStates == {"none", "failing", "alive", "exited", "reaped"}
ServerStates == {"up", "stopping", "draining", "closed", "exited"}

Init ==
    /\ L!Init
    /\ behaviour = [c \in Commands |-> "plain"]
    /\ leader = [c \in Commands |-> "none"]
    /\ exit = [c \in Commands |-> "none"]
    /\ descendant = [c \in Commands |-> "none"]
    /\ termination = [c \in Commands |-> "none"]
    /\ deadline = {} /\ listening = {}
    /\ forceKill = [c \in Commands |-> "off"]
    /\ status = [c \in Commands |-> "none"]
    /\ server = "up"

InGroup(c)   == behaviour[c] \in {"child", "daemon"}
HoldsPipe(c) == behaviour[c] \in {"child", "escaper"}
Forks(c)     == behaviour[c] \in {"child", "daemon", "escaper"}

\* The write ends of the output pipes that are still open.
PipesOpen(c) == \/ leader[c] = "alive"
                \/ descendant[c] = "alive" /\ HoldsPipe(c)

-----------------------------------------------------------------------------
(***************************************************************************)
(* run() and the first half of #runLimited(): the permit.  A rejected      *)
(* acquire() becomes the result "cancelled", in whichever limiter action   *)
(* the rejection happens.                                                  *)
(***************************************************************************)
RejectedAreCancelled ==
    status' = [c \in Commands |-> IF call'[c] \in {"cancelled", "shutdown"}
                                  THEN "cancelled" ELSE status[c]]

LimiterStep == RejectedAreCancelled /\ UNCHANGED <<os, timers, server>>

Run(c) ==
    /\ server # "exited"
    /\ call[c] = "idle"
    /\ L!AcquireRejected(c) \/ L!AcquireGranted(c) \/ L!AcquireQueued(c)
    /\ LimiterStep

WaiterCancelled(c) == L!AbortListener(c) /\ LimiterStep

\* The finally block: the permit of an answered command goes back.  (Faulty
\* variant: the early return of a command that was not spawned misses it.)
ReleaseAfterSpawn(c) ==
    /\ call[c] = "granted"
    /\ status[c] # "none" /\ leader[c] # "none"
    /\ L!Release(c)
    /\ LimiterStep

Release(c) ==
    /\ call[c] = "granted"
    /\ status[c] # "none"
    /\ L!Release(c)
    /\ LimiterStep

-----------------------------------------------------------------------------
(***************************************************************************)
(* #run(): the continuation after the permit looks at the signal once      *)
(* more, then spawns.                                                      *)
(***************************************************************************)
Permitted(c) == call[c] = "granted" /\ leader[c] = "none" /\ status[c] = "none"

CancelledBeforeStart(c) ==
    /\ Permitted(c)
    /\ c \in aborted
    /\ status' = [status EXCEPT ![c] = "cancelled"]
    /\ UNCHANGED <<limiter, os, timers, server>>

\* spawn() throws.
SpawnThrows(c) ==
    /\ Permitted(c)
    /\ c \notin aborted
    /\ status' = [status EXCEPT ![c] = "spawn_error"]
    /\ UNCHANGED <<limiter, os, timers, server>>

\* Faulty variant: the signal is not looked at again.
SpawnUnchecked(c) ==
    /\ Permitted(c)
    /\ \E b \in Behaviours[c] : behaviour' = [behaviour EXCEPT ![c] = b]
    /\ leader' = [leader EXCEPT ![c] = "alive"]
    /\ deadline' = deadline \cup {c}
    /\ listening' = listening \cup {c}
    /\ UNCHANGED <<limiter, exit, descendant, termination, forceKill,
                   status, server>>

Spawn(c) ==
    /\ Permitted(c)
    /\ c \notin aborted
    /\ \/ /\ leader' = [leader EXCEPT ![c] = "alive"]
          /\ \E b \in Behaviours[c] : behaviour' = [behaviour EXCEPT ![c] = b]
       \/ leader' = [leader EXCEPT ![c] = "failing"] /\ UNCHANGED behaviour
    /\ deadline' = deadline \cup {c}
    /\ listening' = listening \cup {c}
    /\ UNCHANGED <<limiter, exit, descendant, termination, forceKill,
                   status, server>>

-----------------------------------------------------------------------------
(***************************************************************************)
(* finish(): only the first call counts.                                   *)
(***************************************************************************)
\* Faulty variant: a later event answers again.
FinishAgain(c, result) ==
    /\ status' = [status EXCEPT ![c] = result]
    /\ deadline' = deadline \ {c}
    /\ listening' = listening \ {c}

Finish(c, result) ==
    IF status[c] # "none"
    THEN UNCHANGED <<status, deadline, listening>>
    ELSE /\ status' = [status EXCEPT ![c] = result]
         /\ deadline' = deadline \ {c}
         /\ listening' = listening \ {c}

\* The status of a command that has closed: a good exit code does not beat the
\* deadline.
ClosedStatus(c) ==
    IF termination[c] # "none" THEN termination[c]
    ELSE IF exit[c] = "zero" THEN "success" ELSE "failed"

(***************************************************************************)
(* requestTermination() and terminateProcessTree(): SIGTERM to the process *)
(* group.  When no process of the group takes it, child.kill() tries the   *)
(* leader alone; if that is not permitted the child emits an error, and    *)
(* that error ends the command.  The force-kill timer is armed in any case *)
(* and never cleared.                                                      *)
(***************************************************************************)
Signalable(c) == \/ leader[c] \in {"alive", "exited"} /\ behaviour[c] # "privileged"
                 \/ descendant[c] = "alive" /\ InGroup(c)

KillRefused(c) == ~Signalable(c) /\ leader[c] \in {"alive", "exited"}

\* Faulty variant: no SIGKILL follows.
SignalTreeOnce(c) == UNCHANGED forceKill

SignalTree(c) ==
    IF leader[c] = "failing"    \* pid === undefined
    THEN UNCHANGED forceKill
    ELSE forceKill' = [forceKill EXCEPT ![c] = "armed"]

\* Faulty variant: the answer does not wait for the process to end.
RequestTerminationAndAnswer(c, reason) ==
    /\ termination' = [termination EXCEPT ![c] = reason]
    /\ SignalTree(c)
    /\ Finish(c, reason)

RequestTermination(c, reason) ==
    IF termination[c] # "none"
    THEN UNCHANGED <<termination, forceKill, status>>
    ELSE /\ termination' = [termination EXCEPT ![c] = reason]
         /\ SignalTree(c)
         /\ IF leader[c] # "failing" /\ KillRefused(c)
            THEN Finish(c, "spawn_error")
            ELSE UNCHANGED status

Timeout(c) ==
    /\ server # "exited"
    /\ c \in deadline
    /\ RequestTermination(c, "timeout")
    /\ deadline' = deadline \ {c}
    /\ listening' = IF status'[c] # "none" THEN listening \ {c} ELSE listening
    /\ UNCHANGED <<limiter, os, server>>

\* The abort event of the combined signal reaches the running command.
AbortEvent(c) ==
    /\ c \in listening \cap aborted
    /\ RequestTermination(c, "cancelled")
    /\ listening' = listening \ {c}
    /\ deadline' = IF status'[c] # "none" THEN deadline \ {c} ELSE deadline
    /\ UNCHANGED <<limiter, os, server>>

\* SIGKILL to the group, FORCE_KILL_DELAY_MS later; a process that cannot be
\* signalled stays, and the second error of the child is caught.
ForceKill(c) ==
    /\ server # "exited"
    /\ forceKill[c] = "armed"
    /\ forceKill' = [forceKill EXCEPT ![c] = "fired"]
    /\ IF leader[c] = "alive" /\ behaviour[c] # "privileged"
       THEN /\ leader' = [leader EXCEPT ![c] = "exited"]
            /\ exit' = [exit EXCEPT ![c] = "other"]
       ELSE UNCHANGED <<leader, exit>>
    /\ descendant' = IF descendant[c] = "alive" /\ InGroup(c)
                     THEN [descendant EXCEPT ![c] = "gone"] ELSE descendant
    /\ UNCHANGED <<limiter, behaviour, termination, deadline, listening,
                   status, server>>

-----------------------------------------------------------------------------
(***************************************************************************)
(* The operating system, and the events of the child in the server.        *)
(***************************************************************************)
LeaderForks(c) ==
    /\ leader[c] = "alive" /\ Forks(c) /\ descendant[c] = "none"
    /\ descendant' = [descendant EXCEPT ![c] = "alive"]
    /\ UNCHANGED <<limiter, behaviour, leader, exit, timers, status, server>>

LeaderExits(c) ==
    /\ leader[c] = "alive"
    /\ leader' = [leader EXCEPT ![c] = "exited"]
    /\ \E code \in {"zero", "other"} : exit' = [exit EXCEPT ![c] = code]
    /\ UNCHANGED <<limiter, behaviour, descendant, timers, status, server>>

DescendantExits(c) ==
    /\ descendant[c] = "alive"
    /\ descendant' = [descendant EXCEPT ![c] = "gone"]
    /\ UNCHANGED <<limiter, behaviour, leader, exit, timers, status, server>>

\* 'error' of a spawn that failed; its 'close' is still to come.
ErrorEvent(c) ==
    /\ leader[c] = "failing"
    /\ leader' = [leader EXCEPT ![c] = "reaped"]
    /\ exit' = [exit EXCEPT ![c] = "other"]
    /\ Finish(c, "spawn_error")
    /\ UNCHANGED <<limiter, behaviour, descendant, termination, forceKill, server>>

Reap(c) ==
    /\ server # "exited"
    /\ leader[c] = "exited"
    /\ leader' = [leader EXCEPT ![c] = "reaped"]
    /\ UNCHANGED <<limiter, behaviour, exit, descendant, timers, status, server>>

\* Faulty variant: 'exit' instead of 'close'.
CloseAtExit(c) ==
    /\ leader[c] = "reaped"
    /\ Finish(c, ClosedStatus(c))
    /\ UNCHANGED <<limiter, os, termination, forceKill, server>>

\* 'close': the process has been reaped and its pipes have reached their end.
Close(c) ==
    /\ server # "exited"
    /\ leader[c] = "reaped"
    /\ ~PipesOpen(c)
    /\ Finish(c, ClosedStatus(c))
    /\ UNCHANGED <<limiter, os, termination, forceKill, server>>

-----------------------------------------------------------------------------
(***************************************************************************)
(* Requests abort their commands; shutdown() of stdio.ts stops the         *)
(* limiter, aborts all that is active, awaits it and closes the server.    *)
(* The timers are unref'd: the process exits when no child and no pipe is  *)
(* left, whatever timer is armed.                                          *)
(***************************************************************************)
Live == {c \in Commands : call[c] \in {"waiting", "granted"}}

Cancel ==
    /\ server = "up"
    /\ \E S \in SUBSET Live : S # {} /\ L!Abort(S)
    /\ UNCHANGED <<os, timers, status, server>>

Shutdown ==
    /\ server = "up"
    /\ L!Shutdown
    /\ server' = "stopping"
    /\ RejectedAreCancelled
    /\ UNCHANGED <<os, timers>>

AbortActive ==
    /\ server = "stopping"
    /\ L!Abort(Live)
    /\ server' = "draining"
    /\ UNCHANGED <<os, timers, status>>

CloseServer ==
    /\ server = "draining"
    /\ Live = {}
    /\ server' = "closed"
    /\ UNCHANGED <<limiter, os, timers, status>>

ExitProcess ==
    /\ server = "closed"
    /\ \A c \in Commands : leader[c] \in {"none", "reaped"} /\ ~PipesOpen(c)
    /\ server' = "exited"
    /\ UNCHANGED <<limiter, os, timers, status>>

Callback(c) ==
    \/ WaiterCancelled(c) \/ Release(c)
    \/ CancelledBeforeStart(c) \/ SpawnThrows(c) \/ Spawn(c)
    \/ AbortEvent(c) \/ ForceKill(c)
    \/ ErrorEvent(c) \/ Reap(c) \/ Close(c)

System(c) == LeaderForks(c) \/ LeaderExits(c) \/ DescendantExits(c)

\* shutdown() runs to its first await: nothing comes between closing the
\* limiter and aborting the commands.
Next == \/ AbortActive
        \/ /\ server # "stopping"
           /\ \/ \E c \in Commands : Run(c) \/ Callback(c) \/ Timeout(c) \/ System(c)
              \/ Cancel \/ Shutdown \/ CloseServer \/ ExitProcess

Spec == Init /\ [][Next]_vars

\* The event loop runs the callbacks that are due, and a timer fires in the
\* end.  Nothing makes a process exit or a client cancel.
Fairness ==
    /\ \A c \in Commands :
         /\ WF_vars(WaiterCancelled(c)) /\ WF_vars(Release(c))
         /\ WF_vars(CancelledBeforeStart(c) \/ SpawnThrows(c) \/ Spawn(c))
         /\ WF_vars(Timeout(c)) /\ WF_vars(AbortEvent(c)) /\ WF_vars(ForceKill(c))
         /\ WF_vars(ErrorEvent(c)) /\ WF_vars(Reap(c)) /\ WF_vars(Close(c))
    /\ WF_vars(AbortActive) /\ WF_vars(CloseServer) /\ WF_vars(ExitProcess)

FairSpec == Spec /\ Fairness

-----------------------------------------------------------------------------
(***************************************************************************)
(* Properties.  (Behaviours other than "plain" are excluded where a        *)
(* property does not survive them; the configurations say so.)             *)
(***************************************************************************)

\* The type invariant.
TypeOK ==
    /\ L!TypeOK
    /\ behaviour \in [Commands -> AllBehaviours]
    /\ leader \in [Commands -> LeaderStates]
    /\ exit \in [Commands -> {"none", "zero", "other"}]
    /\ descendant \in [Commands -> {"none", "alive", "gone"}]
    /\ termination \in [Commands -> {"none", "timeout", "cancelled"}]
    /\ deadline \subseteq Commands /\ listening \subseteq Commands
    /\ forceKill \in [Commands -> {"off", "armed", "fired"}]
    /\ status \in [Commands -> {"none", "success", "failed", "timeout",
                                "cancelled", "spawn_error"}]
    /\ server \in ServerStates

\* Every process that was spawned and may still run holds a permit, so that
\* maxConcurrency bounds the processes of the whole server and not just the
\* calls; a command is answered before its permit goes back.  (A "privileged"
\* process is the exception: the refused signal answers its command.)
ProcessesHoldPermits ==
    /\ \A c \in Commands : leader[c] \in {"alive", "exited"} =>
         call[c] = "granted" \/ (behaviour[c] = "privileged" /\ termination[c] # "none")
    /\ Cardinality({c \in Commands : leader[c] = "alive" /\ behaviour[c] # "privileged"})
         <= MaximumConcurrency
    /\ \A c \in Commands : call[c] = "released" => status[c] # "none"

\* Both: the types, and the bound on the processes of the server.
Inv == TypeOK /\ ProcessesHoldPermits

\* The answer of a command that ran is complete and true.  Its process has ended
\* and nothing can write to its pipes any more (with the same exception).  And
\* success is reported only for exit code 0 of a process that nothing asked to
\* end: a process that beats its SIGTERM does not hide the timeout.
AnswersAreComplete ==
    \A c \in Commands : status[c] # "none" =>
        /\ \/ leader[c] \in {"none", "reaped"} /\ ~PipesOpen(c)
           \/ behaviour[c] = "privileged" /\ status[c] = "spawn_error"
        /\ status[c] \in {"success", "failed"} =>
             termination[c] = "none" /\ (status[c] = "success") = (exit[c] = "zero")

\* A command whose signal reads as aborted is never spawned, although the
\* abort may come between the grant of its permit and the continuation; in
\* particular nothing is spawned once shutdown() has been called.
AbortedIsNeverSpawned ==
    [][\A c \in Commands : leader[c] = "none" /\ leader'[c] # "none" =>
         c \notin aborted /\ server = "up"]_vars

\* The answer is final, and after it no deadline and no abort starts a
\* termination: a process group that has ended, and whose number may belong
\* to another one by now, is not sent SIGTERM.
NothingAfterTheAnswer ==
    [][\A c \in Commands : status[c] # "none" =>
         status'[c] = status[c] /\ termination'[c] = termination[c]]_vars

\* The runner is a correct client of the limiter: it implements the limiter's
\* specification, and with it the fairness that module assumes, that
\* every permit comes back.
UsesLimiter == L!FairSpec

\* Every command is answered, whatever its processes do: deadlines and SIGKILL
\* see to that.  (Not with "escaper".)
EveryCommandSettles ==
    \A c \in Commands : call[c] \in {"waiting", "granted"} ~> status[c] # "none"

\* A process tree that was asked to end ends, unless the server is gone first.
\* (Of a "privileged" one nothing is promised, and what an "escaper" forked has
\* left the tree.)
TerminatedTreesEnd ==
    \A c \in Commands :
      termination[c] # "none" /\ behaviour[c] # "privileged" ~>
        \/ server = "exited"
        \/ leader[c] = "reaped" /\ ~(descendant[c] = "alive" /\ InGroup(c))

\* shutdown() comes to its end.  (Not with "escaper" or "privileged".)
ShutdownEnds == server = "stopping" ~> server = "exited"

-----------------------------------------------------------------------------
(***************************************************************************)
(* What the documents say and the code does not do.                        *)
(***************************************************************************)

\* src/mcp/instructions.ts: "Detached processes are not tracked after their
\* parent exits."
ParentExitAnswers ==
    \A c \in Commands : leader[c] = "reaped" ~> status[c] # "none"

\* README: "Timeouts, cancellation, fail-fast, and shutdown terminate process
\* trees."
NoTreeOutlivesServer ==
    server = "exited" => \A c \in Commands : termination[c] # "none" =>
                           ~(descendant[c] = "alive" /\ InGroup(c))

=============================================================================
