------------------------------- MODULE McServer -------------------------------
(***************************************************************************)
(* The tool handlers of src/mcp/server.ts, the shutdown of                 *)
(* src/mcp/stdio.ts, and the output store between them.  A call is seen    *)
(* from outside: its commands start and finish in any order that the       *)
(* scheduler, the programs and the runner allow; ExecScheduler, ProgramRun *)
(* and ProcessRunner say which.                                            *)
(*                                                                         *)
(* The SDK is external: it reads requests as long as the transport is      *)
(* open, sends what a handler returns unless the client has cancelled the  *)
(* call, and drops the answers that are not sent when the server closes.   *)
(***************************************************************************)
EXTENDS OutputArtifactStore, FiniteSets

CONSTANTS Calls, Streams,      \* Streams: what one command may put, in order
          LegacyTools,         \* policy.legacyTools
          MaxCommands,         \* bounds: commands that start in all,
          MaxIssued            \* and artifacts after which only empty ones finish

ASSUME StreamsAssumption ==
    <<>> \in Streams /\ \A s \in Streams : s \in Seq(Nat) /\ Len(s) <= 2
ASSUME CallsAssumption ==
    IsFiniteSet(Calls) /\ LegacyTools \in BOOLEAN /\ {MaxCommands, MaxIssued} \subseteq Nat

\* batch_exec and workflow_exec are "legacy": their handlers do the same.
Tools == {"exec", "exec_program", "legacy"}

VARIABLES
    tool,       \* of each call, "none" before it arrives
    phase,      \* of its handler
    running,    \* its commands in the runner
    ran,        \* how many it has started
    given,      \* the uris that its commands returned
    answer,     \* [code, uris] once the handler has returned
    cancelled,  \* calls whose signal the client has aborted
    server      \* where shutdown() stands

callVars == <<tool, phase, running, ran, given, answer>>
vars     == <<storeVars, callVars, cancelled, server>>

Phases  == {"idle", "running", "returned", "answered", "dropped"}
Stages  == {"up", "draining", "cleared", "closed"}
Codes   == {"none", "refused", "invalid_input", "program_error", "internal_error", "value"}
NoAnswer == [code |-> "none", uris |-> {}]

Init ==
    /\ StoreInit
    /\ tool = [c \in Calls |-> "none"] /\ phase = [c \in Calls |-> "idle"]
    /\ running = [c \in Calls |-> 0] /\ ran = [c \in Calls |-> 0]
    /\ given = [c \in Calls |-> {}] /\ answer = [c \in Calls |-> NoAnswer]
    /\ cancelled = {} /\ server = "up"

-----------------------------------------------------------------------------
(***************************************************************************)
(* The errors a handler catches, and what errorPayload makes of them.      *)
(***************************************************************************)
ErrorCode(error) ==
    CASE error = "batch_input" -> "invalid_input"
      [] error = "program"     -> "program_error"
      [] OTHER                 -> "internal_error"

Return(c, code, uris) ==
    /\ phase' = [phase EXCEPT ![c] = "returned"]
    /\ answer' = [answer EXCEPT ![c] = [code |-> code, uris |-> uris]]

Registered == IF LegacyTools THEN Tools ELSE Tools \ {"legacy"}

\* A request arrives.  A tool that is not registered, and input that the tool's
\* schema does not admit, is the SDK's to refuse; a handler begins by checking
\* the input against the policy.
Receive(c) ==
    /\ server # "closed"
    /\ phase[c] = "idle"
    /\ \E t \in Tools :
         /\ tool' = [tool EXCEPT ![c] = t]
         /\ \/ Return(c, "refused", {})
            \/ t \in Registered /\ Return(c, ErrorCode("batch_input"), {})
            \/ /\ t \in Registered
               /\ phase' = [phase EXCEPT ![c] = "running"]
               /\ UNCHANGED answer
    /\ UNCHANGED <<storeVars, running, ran, given, cancelled, server>>

(***************************************************************************)
(* The commands of a call.  run() of process-runner.ts starts nothing once *)
(* the call's signal or the one of the server's shutdown has been aborted. *)
(***************************************************************************)
\* Faulty variant: only the signal of the call is looked at.
MayStartUnlessCancelled(c) == c \notin cancelled

MayStart(c) == c \notin cancelled /\ server = "up"

Start(c) ==
    /\ phase[c] = "running"
    /\ MayStart(c)
    /\ FoldFunction(+, 0, ran) < MaxCommands
    /\ running' = [running EXCEPT ![c] = @ + 1]
    /\ ran' = [ran EXCEPT ![c] = @ + 1]
    /\ UNCHANGED <<storeVars, tool, phase, given, answer, cancelled, server>>

\* A command ends, of itself or because it was stopped: its output is stored in
\* the callback that resolves it.
Finish(c) ==
    /\ running[c] > 0
    /\ running' = [running EXCEPT ![c] = @ - 1]
    /\ \E streams \in IF Len(store.issued) < MaxIssued THEN Streams ELSE {<<>>} : PutAll(streams)
    /\ given' = [given EXCEPT ![c] =
                    @ \cup (Len(store.issued) + 1)..Len(store'.issued)]
    /\ UNCHANGED <<tool, phase, ran, answer, cancelled, server>>

(***************************************************************************)
(* The handler returns.  An exec, batch or workflow has the results of all *)
(* its commands.  A program returns a value when no command of its own is  *)
(* left, and which uris it names there is up to it, not followed here; its *)
(* errors leave commands behind that have been told to stop.               *)
(* serializeResult throws away what is larger than the limit.              *)
(***************************************************************************)
\* Faulty variant: the handler does not wait for the commands it cancelled.
HasResultUnlessCancelled(c) == running[c] = 0 \/ c \in cancelled

HasResult(c) == running[c] = 0

\* compactExecResult leaves out what has its default value, never a uri.
NamedUris(c) == IF tool[c] = "exec_program" THEN {} ELSE given[c]

SerializeResult(c, uris) ==
    \/ Return(c, "value", uris)
    \/ Return(c, ErrorCode("too_large"), {})

ReturnValue(c) ==
    /\ phase[c] = "running"
    /\ HasResult(c)
    /\ SerializeResult(c, NamedUris(c))
    /\ UNCHANGED <<storeVars, tool, running, ran, given, cancelled, server>>

\* programController.abort(): the commands left behind are told to stop, and no
\* other can start, since the host is gone.
ReturnProgramError(c) ==
    /\ phase[c] = "running"
    /\ tool[c] = "exec_program"
    /\ Return(c, ErrorCode("program"), {})
    /\ UNCHANGED <<storeVars, tool, running, ran, given, cancelled, server>>

\* External: the SDK sends the answer, or drops it when the client has cancelled.
Send(c) ==
    /\ phase[c] = "returned"
    /\ server # "closed"
    /\ phase' = [phase EXCEPT ![c] = IF c \in cancelled THEN "dropped" ELSE "answered"]
    /\ UNCHANGED <<storeVars, tool, running, ran, given, answer, cancelled, server>>

\* notifications/cancelled: the SDK aborts extra.signal.
Cancel(c) ==
    /\ phase[c] \in {"running", "returned"}
    /\ c \notin cancelled /\ server # "closed"
    /\ cancelled' = cancelled \cup {c}
    /\ UNCHANGED <<storeVars, callVars, server>>

(***************************************************************************)
(* shutdown() of stdio.ts: SIGINT, SIGTERM, the end of stdin, an uncaught  *)
(* error.  Only the first counts.                                          *)
(***************************************************************************)
Shutdown ==
    /\ server = "up"
    /\ server' = "draining"
    /\ UNCHANGED <<storeVars, callVars, cancelled>>

\* Promise.allSettled([...this.#active])
AllSettled == \A c \in Calls : running[c] = 0

Clear ==
    /\ server = "draining" /\ AllSettled
    /\ server' = "cleared"
    /\ ClearStore
    /\ UNCHANGED <<callVars, cancelled>>

\* server.close(): what has not been sent is lost.
Close ==
    /\ server = "cleared"
    /\ server' = "closed"
    /\ phase' = [c \in Calls |-> IF phase[c] = "returned" THEN "dropped" ELSE phase[c]]
    /\ UNCHANGED <<storeVars, tool, running, ran, given, answer, cancelled>>

\* A Resource read, and the clock.
ReadResource ==
    /\ server # "closed"
    /\ Get
    /\ UNCHANGED <<callVars, cancelled, server>>

Clock == ClockSet /\ UNCHANGED <<callVars, cancelled, server>>

Next ==
    \/ \E c \in Calls : \/ Receive(c) \/ Start(c) \/ Finish(c) \/ ReturnValue(c)
                        \/ ReturnProgramError(c) \/ Send(c) \/ Cancel(c)
    \/ Shutdown \/ Clear \/ Close \/ ReadResource \/ Clock

Spec == Init /\ [][Next]_vars

-----------------------------------------------------------------------------
(***************************************************************************)
(* Properties.                                                             *)
(***************************************************************************)
TypeOK ==
    /\ StoreTypeOK
    /\ tool \in [Calls -> Tools \cup {"none"}] /\ phase \in [Calls -> Phases]
    /\ running \in [Calls -> Nat] /\ ran \in [Calls -> Nat]
    /\ \A c \in Calls : running[c] <= ran[c]
    /\ \A c \in Calls : /\ given[c] \subseteq DOMAIN store.issued
                        /\ answer[c].code \in Codes /\ answer[c].uris \subseteq given[c]
    /\ cancelled \subseteq Calls /\ server \in Stages

\* Once shutdown() has cleared the store, no command is left that could put its
\* output there, nor does one start: run() may be called as late as it likes by a
\* handler that was still preparing a command (stdio.ts:63-65).
NothingStoredAfterClear ==
    server \in {"cleared", "closed"} =>
        store.artifacts = <<>> /\ \A c \in Calls : running[c] = 0

\* The types, the exact account of the store and the end of it.
Inv == TypeOK /\ RetainedIsExact /\ NothingStoredAfterClear

\* What an answer tells a client is true, though the client may cancel and the
\* server shut down at any moment.  A call that was refused, or invalid, may be
\* repeated: no command of it has run.  (Any other error, that of an oversized
\* response among them, server.ts:102, may come after commands that did their
\* work.)  When results are returned, none of the call's commands runs or starts
\* any more, and every artifact that one of them left behind is named in them
\* (server.ts:191, exec-executor.ts); a program names what it likes.
AnswersAreTrue ==
    \A c \in Calls :
        /\ answer[c].code \in {"refused", "invalid_input"} => ran[c] = 0
        /\ answer[c].code = "value" =>
              /\ running[c] = 0
              /\ tool[c] # "exec_program" => answer[c].uris = given[c]
=============================================================================
