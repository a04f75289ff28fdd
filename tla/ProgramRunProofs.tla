--------------------------- MODULE ProgramRunProofs ---------------------------
(***************************************************************************)
(* Proofs about ProgramRun, for every number of calls, every max_exec_calls*)
(* and every max_concurrency of the program.                               *)
(*                                                                         *)
(* The local limiter's theorems are carried over from                      *)
(* ExecutionLimiterProofs.  What is new is the account of a call: between  *)
(* two threads that share nothing but two queues of messages, each call is *)
(* in one place until it is answered.                                      *)
(***************************************************************************)
EXTENDS ProgramRun, SequenceTheorems, FiniteSetTheorems, TLAPS

Request(c) == Message("exec_request", c)
Codes      == {"execution_failed", "memory_limit", "timeout"}
Messages   == {Request(c) : c \in Calls} \cup {Message("result", 0)}
              \cup {Message("error", code) : code \in Codes}

\* The queues, which TypeOK says nothing about.
MessagesOK == toHost \in Seq(Messages) /\ toWorker \in Seq(Calls)

\* x is in the queue s; and not twice.
In(s, x)     == \E i \in 1..Len(s) : s[i] = x
OnceIn(s, x) == \A i, j \in 1..Len(s) : s[i] = x /\ s[j] = x => i = j

InHost(c) == phase[c] \in {"local", "running", "done"}

\* While the Worker runs, a call it waits for is in one place only: on its way
\* to the host, in the host, or on its way back; or its request was not sent.
PlaceInv(c) ==
    /\ c >= nextId => phase[c] = "none" /\ ~In(toHost, Request(c)) /\ c \notin unsent
    /\ c \in unsent => phase[c] = "none" /\ ~In(toHost, Request(c))
    /\ In(toHost, Request(c)) => phase[c] = "none"
    /\ In(toWorker, c) => phase[c] = "answered"
    /\ c \in pending <=> In(toHost, Request(c)) \/ InHost(c) \/ In(toWorker, c) \/ c \in unsent
    /\ OnceIn(toHost, Request(c)) /\ OnceIn(toWorker, c)

\* A result is sent only by a program whose every call has been answered.
ResultInv == /\ finished => pending = {}
             /\ In(toHost, Message("result", 0)) => finished

\* Every call that the host has received is counted, and what it has started
\* is within the budget.
Received == {c \in Calls : phase[c] # "none"}
Started  == {c \in Calls : call[c] # "idle"}
CountInv == /\ execCalls = Cardinality(Received)
            /\ Cardinality(Started) <= MaxExecCalls

\* How far executeCommand is, and what the limiter says.
CallInv(c) ==
    /\ phase[c] = "none" => call[c] = "idle"
    /\ phase[c] = "local" => call[c] \in {"waiting", "granted", "cancelled",
                                          "shutdown"}
    /\ phase[c] = "running" => call[c] = "granted"
    /\ phase[c] \in {"done", "answered"} =>
         call[c] \in {"idle", "released", "cancelled", "shutdown"}

\* How the program ends.
EndInv ==
    /\ settled = "result" => \A c \in Calls : phase[c] \notin {"local", "running"}
    /\ commandAborted => settled # "no" /\ Waiting \subseteq aborted
    /\ returned # "no" => commandAborted /\ shutdown

\* The inductive invariant.
IInv == /\ TypeOK /\ MessagesOK
        /\ L!Inv
        /\ settled = "no" => (\A c \in Calls : PlaceInv(c)) /\ ResultInv
        /\ CountInv
        /\ \A c \in Calls : CallInv(c)
        /\ EndInv

-----------------------------------------------------------------------------
(***************************************************************************)
(* The limiter's theorems.                                                 *)
(***************************************************************************)
LP == INSTANCE ExecutionLimiterProofs
      WITH Clients <- Calls, MaximumConcurrency <- LocalConcurrency

\* The two instances of the limiter define the same formulas.
LEMMA SameLimiter ==
  /\ L!Inv <=> LP!Inv
  /\ L!Inv' <=> LP!Inv'
  /\ L!Init <=> LP!Init
  /\ [L!Next]_(L!vars) <=> [LP!Next]_(LP!vars)
<1> USE DEF L!Cardinality, LP!Cardinality, L!IsFiniteSet, LP!IsFiniteSet,
            L!Larger, LP!Larger, L!Shifted, LP!Shifted, L!Ended, LP!Ended,
            L!FreshSignal, LP!FreshSignal, L!vars, LP!vars,
            L!MayGrantAtOnce, LP!MayGrantAtOnce
<1>1. (L!Inv <=> LP!Inv) /\ (L!Inv' <=> LP!Inv')
  BY DEF L!Inv, LP!Inv, L!TypeOK, LP!TypeOK, L!CallStates, LP!CallStates,
         L!ActiveCountsPermits, LP!ActiveCountsPermits,
         L!QueueHoldsWaiters, LP!QueueHoldsWaiters,
         L!WorkConserving, LP!WorkConserving,
         L!Holders, LP!Holders, L!Waiters, LP!Waiters
<1>2. L!Init <=> LP!Init
  BY DEF L!Init, LP!Init
<1>3. ASSUME NEW c
      PROVE  /\ L!AcquireRejected(c) <=> LP!AcquireRejected(c)
             /\ L!AcquireGranted(c) <=> LP!AcquireGranted(c)
             /\ L!AcquireQueued(c) <=> LP!AcquireQueued(c)
             /\ L!AbortListener(c) <=> LP!AbortListener(c)
  BY DEF L!AcquireRejected, LP!AcquireRejected, L!AcquireGranted,
         LP!AcquireGranted, L!AcquireQueued, LP!AcquireQueued,
         L!AbortListener, LP!AbortListener
<1>4. \A c : L!Release(c) <=> LP!Release(c)
  BY DEF L!Release, LP!Release, L!FirstRelease, LP!FirstRelease,
         L!DrainShifts, LP!DrainShifts, L!GrantedBy, LP!GrantedBy
<1>5. L!Shutdown <=> LP!Shutdown
  BY DEF L!Shutdown, LP!Shutdown
<1>6. \A S : L!Abort(S) <=> LP!Abort(S)
  BY DEF L!Abort, LP!Abort
<1>7. [L!Next]_(L!vars) <=> [LP!Next]_(LP!vars)
  BY <1>3, <1>4, <1>5, <1>6 DEF L!Next, LP!Next
<1> QED
  BY <1>1, <1>2, <1>7

LEMMA CallsFinite == IsFiniteSet(Calls) /\ Cardinality(Calls) = MaxCalls
<1> QED
  BY BoundsAssumption, FS_Interval DEF Calls

LEMMA LimiterAssumptions ==
  LP!ClientsAssumption /\ LP!MaximumConcurrencyAssumption
<1> QED
  BY CallsFinite, LocalConcurrencyAssumption
  DEF LP!ClientsAssumption, LP!MaximumConcurrencyAssumption, LP!IsFiniteSet,
      IsFiniteSet

\* What ExecutionLimiterProofs proves of its initial state and of its steps.
LEMMA LimiterKeepsItsInvariant ==
  /\ L!Init => L!Inv
  /\ L!Inv /\ [L!Next]_(L!vars) => L!Inv'
<1>1. LP!Init => LP!Inv
  BY LimiterAssumptions, LP!InitEstablishes
<1>2. LP!Inv /\ [LP!Next]_(LP!vars) => LP!Inv'
  BY LimiterAssumptions, LP!NextPreserves
<1> QED
  BY <1>1, <1>2, SameLimiter

-----------------------------------------------------------------------------
(***************************************************************************)
(* The queues of messages.                                                 *)
(***************************************************************************)
LEMMA AppendIn ==
  ASSUME NEW S, NEW s \in Seq(S), NEW e \in S, NEW x
  PROVE  /\ Append(s, e) \in Seq(S)
         /\ In(Append(s, e), x) <=> In(s, x) \/ e = x
         /\ OnceIn(s, x) /\ (e = x => ~In(s, x)) => OnceIn(Append(s, e), x)
<1>1. /\ Append(s, e) \in Seq(S) /\ Len(s) \in Nat
      /\ Len(Append(s, e)) = Len(s) + 1
      /\ Append(s, e)[Len(s) + 1] = e
      /\ \A i \in 1..Len(s) : Append(s, e)[i] = s[i]
  BY AppendProperties, LenProperties
<1>2. \A i \in 1..(Len(s) + 1) : i \in 1..Len(s) \/ i = Len(s) + 1
  BY <1>1
<1>3. /\ \A i \in 1..Len(s) : i \in 1..(Len(s) + 1)
      /\ Len(s) + 1 \in 1..(Len(s) + 1)
  BY <1>1
<1>4. In(Append(s, e), x) <=> In(s, x) \/ e = x
  BY <1>1, <1>2, <1>3 DEF In
<1> QED
  BY <1>1, <1>2, <1>4 DEF In, OnceIn

LEMMA TailIn ==
  ASSUME NEW S, NEW s \in Seq(S), s # <<>>, NEW x
  PROVE  /\ Tail(s) \in Seq(S)
         /\ Head(s) \in S /\ In(s, Head(s))
         /\ In(Tail(s), x) => In(s, x)
         /\ In(s, x) => Head(s) = x \/ In(Tail(s), x)
         /\ OnceIn(s, x) => OnceIn(Tail(s), x)
         /\ OnceIn(s, x) /\ In(Tail(s), x) => Head(s) # x
<1>1. /\ Head(s) = s[1] /\ Head(s) \in S /\ Tail(s) \in Seq(S)
      /\ Len(s) \in Nat /\ Len(s) # 0
      /\ Len(Tail(s)) = Len(s) - 1
      /\ \A i \in 1..(Len(s) - 1) : Tail(s)[i] = s[i + 1]
  BY HeadTailProperties, LenProperties, EmptySeq
<1>2. 1 \in 1..Len(s) /\ \A i \in 1..(Len(s) - 1) : i + 1 \in 1..Len(s) /\ i + 1 # 1
  BY <1>1
<1>3. \A i \in 1..Len(s) : i = 1 \/ (i - 1 \in 1..(Len(s) - 1) /\ (i - 1) + 1 = i)
  BY <1>1
<1>4. OnceIn(s, x) => OnceIn(Tail(s), x)
  <2> SUFFICES ASSUME OnceIn(s, x),
                      NEW i \in 1..(Len(s) - 1), NEW j \in 1..(Len(s) - 1),
                      s[i + 1] = x, s[j + 1] = x
               PROVE  i = j
    BY <1>1 DEF OnceIn
  <2>1. i + 1 = j + 1
    BY <1>2 DEF OnceIn
  <2> QED
    BY <1>1, <2>1
<1>5. In(s, Head(s)) /\ (In(Tail(s), x) => In(s, x))
  BY <1>1, <1>2 DEF In
<1>6. ASSUME In(s, x), Head(s) # x PROVE In(Tail(s), x)
  <2>1. PICK i \in 1..Len(s) : s[i] = x
    BY <1>6 DEF In
  <2>2. i - 1 \in 1..(Len(s) - 1) /\ (i - 1) + 1 = i
    BY <1>1, <1>3, <1>6, <2>1
  <2>3. Tail(s)[i - 1] = x /\ i - 1 \in 1..Len(Tail(s))
    BY <1>1, <2>1, <2>2
  <2> QED
    BY <2>3 DEF In
<1>7. ASSUME OnceIn(s, x), In(Tail(s), x) PROVE Head(s) # x
  BY <1>1, <1>2, <1>7 DEF In, OnceIn
<1> QED
  BY <1>1, <1>4, <1>5, <1>6, <1>7

LEMMA MessageFacts ==
  /\ \A c, d : Request(c) = Request(d) => c = d
  /\ \A c, x : /\ Request(c) # Message("result", x)
               /\ Request(c) # Message("error", x)
  /\ \A x, y : Message("result", x) # Message("error", y)
  /\ \A m \in Messages :
       /\ m.type = "exec_request" => m.value \in Calls /\ m = Request(m.value)
       /\ m.type = "result" => m = Message("result", 0)
       /\ m.type = "error" => m.value \in Codes
<1> QED
  BY DEF Request, Message, Messages

\* What ExecRequest does, for the call that it is about.
RequestMoves(c) ==
    /\ Head(toHost) = Request(c)
    /\ \/ settled # "no" /\ UNCHANGED <<limiter, execCalls, phase>>
       \/ /\ settled = "no" /\ execCalls' = execCalls + 1
          /\ WithinBudget(execCalls') /\ Acquire(c)
          /\ phase' = [phase EXCEPT ![c] = "local"]
       \/ /\ settled = "no" /\ execCalls' = execCalls + 1
          /\ phase' = [phase EXCEPT ![c] = "done"]
          /\ UNCHANGED limiter

LEMMA RequestOfACall ==
  ASSUME MessagesOK, ExecRequest
  PROVE  \E c \in Calls : RequestMoves(c)
<1>1. toHost \in Seq(Messages) /\ toHost # <<>> /\ Head(toHost).type = "exec_request"
  BY DEF MessagesOK, ExecRequest
<1>2. Head(toHost) \in Messages
  BY <1>1, TailIn
<1>3. Head(toHost).value \in Calls /\ Head(toHost) = Request(Head(toHost).value)
  BY <1>1, <1>2, MessageFacts
<1>4. RequestMoves(Head(toHost).value)
  BY <1>3 DEF ExecRequest, RequestMoves
<1> QED
  BY <1>3, <1>4

-----------------------------------------------------------------------------
(***************************************************************************)
(* The program is a client of its limiter.                                 *)
(***************************************************************************)

\* executeCommand, the client's signal and the end of execute() are clients of
\* the limiter as ExecutionLimiter describes them.
LEMMA NextIsLimiterStep ==
  ASSUME MessagesOK, [Next]_vars
  PROVE  [L!Next]_(L!vars)
<1>1. UNCHANGED limiter => UNCHANGED L!vars
  BY DEF limiter, L!vars
<1>2. Waiting \in SUBSET Calls
  BY DEF Waiting
<1>3. ASSUME NEW c \in Calls, Host(c) PROVE [L!Next]_(L!vars)
  BY <1>1, <1>3 DEF Host, WaiterCancelled, LocallyRejected, Starts, Returns,
                    Respond, L!Next
<1>4. CASE ExecRequest
  BY <1>1, <1>4, RequestOfACall DEF RequestMoves, Acquire, L!Next
<1>5. CASE ClientAborts \/ FinallyAborts
  BY <1>2, <1>5 DEF ClientAborts, FinallyAborts, L!Next
<1>6. CASE ExecuteReturns
  BY <1>6 DEF ExecuteReturns, L!Next
<1>7. CASE GuestExec \/ GuestFinish \/ GuestWaits \/ GuestEnds \/ HandleResponse
  BY <1>1, <1>7 DEF GuestExec, GuestFinish, GuestWaits, GuestEnds,
                    HandleResponse, host
<1>8. CASE Timeout \/ WorkerDies \/ TerminalMessage \/ UNCHANGED vars
  BY <1>1, <1>8 DEF Timeout, WorkerDies, TerminalMessage, OnlySettles, vars
<1> QED
  BY <1>3, <1>4, <1>5, <1>6, <1>7, <1>8 DEF Next

-----------------------------------------------------------------------------
(***************************************************************************)
(* The types and the messages.                                             *)
(***************************************************************************)

\* The part of the type invariant that is not the limiter's, nor a count.
ProgramTypeOK ==
    /\ guest \in {"running", "idle", "ended"}
    /\ pending \subseteq Calls /\ nextId \in 1..(MaxCalls + 1)
    /\ finished \in BOOLEAN /\ unsent \subseteq Calls
    /\ clientAborted \in BOOLEAN /\ commandAborted \in BOOLEAN
    /\ phase \in [Calls -> Phases]
    /\ settled \in Failures \cup {"no", "result"}
    /\ returned \in Failures \cup {"no", "value", "result_too_large"}
    /\ MessagesOK

LEMMA TypesPreserved ==
  ASSUME ProgramTypeOK, [Next]_vars
  PROVE  ProgramTypeOK'
<1> USE DEF ProgramTypeOK
<1>1. MaxCalls \in Nat
  BY BoundsAssumption
<1>2. CASE GuestExec
  <2>1. nextId \in Calls /\ Request(nextId) \in Messages
    BY <1>1, <1>2 DEF GuestExec, Calls, Messages
  <2>2. MessagesOK'
    BY <1>2, <2>1, AppendIn DEF GuestExec, MessagesOK, Request
  <2>3. unsent' \subseteq Calls /\ pending' \subseteq Calls
    BY <1>2, <2>1 DEF GuestExec
  <2>4. nextId' \in 1..(MaxCalls + 1) /\ UNCHANGED <<guest, finished, host>>
    BY <1>1, <1>2 DEF GuestExec
  <2> QED
    BY <2>2, <2>3, <2>4 DEF host
<1>3. CASE GuestFinish \/ GuestWaits
  BY <1>3 DEF GuestFinish, GuestWaits, host, MessagesOK
<1>4. CASE GuestEnds
  <2>1. \/ toHost' = toHost
        \/ \E m \in Messages : toHost' = Append(toHost, m)
    BY <1>4 DEF GuestEnds, Messages, Codes
  <2>2. MessagesOK'
    BY <1>4, <2>1, AppendIn DEF GuestEnds, MessagesOK
  <2> QED
    BY <1>4, <2>2 DEF GuestEnds, host
<1>5. CASE HandleResponse
  <2>1. MessagesOK'
    BY <1>5, TailIn DEF HandleResponse, MessagesOK, host
  <2> QED
    BY <1>5, <2>1 DEF HandleResponse, host
<1>6. CASE Timeout \/ WorkerDies
  BY <1>6 DEF Timeout, WorkerDies, OnlySettles, Settle, Failures, worker, MessagesOK
<1>7. CASE TerminalMessage
  <2>1. toHost \in Seq(Messages) /\ toHost # <<>> /\ Head(toHost) \in Messages
          /\ toHost' \in Seq(Messages)
    BY <1>7, TailIn DEF TerminalMessage, MessagesOK
  <2>2. Head(toHost).type = "result" \/ Head(toHost).value \in Codes
    BY <1>7, <2>1, MessageFacts DEF TerminalMessage
  <2>3. settled' \in Failures \cup {"no", "result"}
    BY <1>7, <2>2 DEF TerminalMessage, OnlySettles, Settle, Failures, Codes
  <2> QED
    BY <1>7, <2>1, <2>3 DEF TerminalMessage, OnlySettles, worker, MessagesOK
<1>8. CASE ExecRequest
  <2>1. MessagesOK'
    BY <1>8, TailIn DEF ExecRequest, MessagesOK
  <2>2. phase' \in [Calls -> Phases]
    BY <1>8, RequestOfACall DEF RequestMoves, Phases
  <2> QED
    BY <1>8, <2>1, <2>2 DEF ExecRequest, worker
<1>9. CASE ClientAborts \/ FinallyAborts
  BY <1>9 DEF ClientAborts, FinallyAborts, Settle, Failures, worker, MessagesOK
<1>10. CASE ExecuteReturns
  BY <1>10 DEF ExecuteReturns, Failures, worker, MessagesOK
<1>11. ASSUME NEW c \in Calls, Host(c) PROVE ProgramTypeOK'
  <2>1. CASE WaiterCancelled(c) \/ LocallyRejected(c) \/ Starts(c) \/ Returns(c)
    BY <2>1 DEF WaiterCancelled, LocallyRejected, Starts, Returns, HostStep,
                worker, Phases, MessagesOK
  <2>2. CASE Respond(c)
    <3>1. toWorker' \in Seq(Calls)
      BY <2>2, AppendIn DEF Respond, MessagesOK
    <3> QED
      BY <2>2, <3>1 DEF Respond, worker, Phases, MessagesOK
  <2> QED
    BY <1>11, <2>1, <2>2 DEF Host
<1>12. CASE UNCHANGED vars
  BY <1>12 DEF vars, worker, MessagesOK
<1> QED
  BY <1>2, <1>3, <1>4, <1>5, <1>6, <1>7, <1>8, <1>9, <1>10, <1>11, <1>12 DEF Next

-----------------------------------------------------------------------------
(***************************************************************************)
(* The account of the calls, as long as the Worker runs.                   *)
(***************************************************************************)
Account == (\A c \in Calls : PlaceInv(c)) /\ ResultInv

LEMMA AccountOfGuest ==
  ASSUME IInv, settled = "no",
         GuestExec \/ GuestFinish \/ GuestWaits \/ GuestEnds \/ HandleResponse
  PROVE  Account'
<1>1. /\ Account
      /\ toHost \in Seq(Messages) /\ toWorker \in Seq(Calls)
      /\ pending \subseteq Calls /\ nextId \in 1..(MaxCalls + 1)
      /\ Calls \subseteq Nat /\ MaxCalls \in Nat
  BY BoundsAssumption DEF IInv, Account, TypeOK, MessagesOK, Calls
<1>2. phase' = phase
  BY DEF GuestExec, GuestFinish, GuestWaits, GuestEnds, HandleResponse, host
<1> USE DEF Account, ResultInv, PlaceInv, InHost
<1>3. CASE GuestExec
  <2>1. PICK n \in Calls : n = nextId
    BY <1>1, <1>3 DEF GuestExec, Calls
  <2>2. /\ nextId' = n + 1 /\ ~finished /\ finished' = finished
        /\ Request(n) \in Messages
        /\ pending' = pending \cup {n} /\ toWorker' = toWorker
    BY <1>3, <2>1 DEF GuestExec, Messages
  <2>3. /\ phase[n] = "none" /\ ~In(toHost, Request(n))
        /\ ~In(toWorker, n) /\ OnceIn(toWorker, n) /\ OnceIn(toHost, Request(n))
        /\ n \notin unsent
        /\ ~(n >= n + 1) /\ \A c \in Calls : c >= n + 1 => c >= n
    BY <1>1, <2>1
  <2>4. CASE toHost' = Append(toHost, Request(n)) /\ unsent' = unsent
    <3>1. ~In(toHost', Message("result", 0))
      <4>1. ~In(toHost, Message("result", 0)) /\ Request(n) # Message("result", 0)
        BY <1>1, <2>2, MessageFacts
      <4> QED
        BY <1>1, <2>2, <2>4, <4>1, AppendIn
    <3>2. ASSUME NEW c \in Calls, c # n PROVE PlaceInv(c)'
      <4>1. /\ In(toHost', Request(c)) <=> In(toHost, Request(c))
            /\ OnceIn(toHost', Request(c))
        <5>1. Request(n) # Request(c)
          BY <3>2, MessageFacts
        <5>2. /\ In(toHost', Request(c)) <=> In(toHost, Request(c)) \/ Request(n) = Request(c)
              /\ OnceIn(toHost, Request(c)) /\ (Request(n) = Request(c) => ~In(toHost, Request(c)))
                   => OnceIn(toHost', Request(c))
          BY <1>1, <2>2, <2>4, AppendIn
        <5>3. OnceIn(toHost, Request(c))
          BY <1>1
        <5> QED
          BY <5>1, <5>2, <5>3
      <4> QED
        BY <1>1, <1>2, <2>1, <2>2, <2>3, <2>4, <3>2, <4>1
    <3>3. PlaceInv(n)'
      <4>1. In(toHost', Request(n)) /\ OnceIn(toHost', Request(n))
        BY <1>1, <2>2, <2>3, <2>4, AppendIn
      <4> QED
        BY <1>2, <2>2, <2>3, <2>4, <4>1
    <3> QED
      BY <2>2, <3>1, <3>2, <3>3
  <2>5. CASE toHost' = toHost /\ unsent' = unsent \cup {n}
    <3>1. ASSUME NEW c \in Calls, c # n PROVE PlaceInv(c)'
      BY <1>1, <1>2, <2>1, <2>2, <2>3, <2>5, <3>1
    <3>2. PlaceInv(n)'
      BY <1>2, <2>2, <2>3, <2>5
    <3> QED
      BY <1>1, <2>2, <2>5, <3>1, <3>2
  <2> QED
    BY <1>3, <2>1, <2>4, <2>5 DEF GuestExec, Request
<1>4. CASE GuestFinish \/ GuestWaits
  <2>1. /\ UNCHANGED <<pending, nextId, unsent, toHost, toWorker>>
        /\ finished => finished'
        /\ finished' => finished \/ pending = {}
    BY <1>4 DEF GuestFinish, GuestWaits
  <2> QED
    BY <1>1, <1>2, <2>1
<1>5. CASE GuestEnds
  <2>1. \/ toHost' = toHost
        \/ \E m \in Messages : /\ toHost' = Append(toHost, m)
                               /\ \A c : m # Request(c)
                               /\ m = Message("result", 0) => finished
    BY <1>5, MessageFacts DEF GuestEnds, Messages, Codes
  <2>2. UNCHANGED <<pending, nextId, finished, unsent, toWorker>>
    BY <1>5 DEF GuestEnds
  <2>3. ASSUME NEW c \in Calls
        PROVE  /\ In(toHost', Request(c)) <=> In(toHost, Request(c))
               /\ OnceIn(toHost', Request(c))
    <3>1. CASE toHost' = toHost
      BY <1>1, <3>1
    <3>2. ASSUME NEW m \in Messages, toHost' = Append(toHost, m), m # Request(c)
          PROVE  /\ In(toHost', Request(c)) <=> In(toHost, Request(c))
                 /\ OnceIn(toHost', Request(c))
      BY <1>1, <3>2, AppendIn
    <3> QED
      BY <2>1, <3>1, <3>2
  <2>4. In(toHost', Message("result", 0)) => finished
    <3>1. CASE toHost' = toHost
      BY <1>1, <3>1
    <3>2. ASSUME NEW m \in Messages, toHost' = Append(toHost, m),
                 m = Message("result", 0) => finished
          PROVE  In(toHost', Message("result", 0)) => finished
      BY <1>1, <3>2, AppendIn
    <3> QED
      BY <2>1, <3>1, <3>2
  <2> QED
    BY <1>1, <1>2, <2>2, <2>3, <2>4
<1>6. CASE HandleResponse
  <2> DEFINE d == Head(toWorker)
  <2>1. /\ toWorker # <<>> /\ toWorker' = Tail(toWorker)
        /\ pending' = pending \ {d}
        /\ UNCHANGED <<nextId, finished, unsent, toHost>>
    BY <1>6 DEF HandleResponse
  <2>2. d \in Calls /\ In(toWorker, d)
    BY <1>1, <2>1, TailIn
  <2>3. ~In(toHost, Request(d)) /\ phase[d] = "answered" /\ ~In(toWorker', d)
        /\ d \notin unsent
    BY <1>1, <2>1, <2>2, TailIn
  <2>4. ASSUME NEW c \in Calls
        PROVE  /\ In(toWorker', c) => In(toWorker, c)
               /\ c # d => (In(toWorker, c) => In(toWorker', c))
               /\ OnceIn(toWorker', c)
    BY <1>1, <2>1, TailIn
  <2> HIDE DEF d
  <2> QED
    BY <1>1, <1>2, <2>1, <2>2, <2>3, <2>4
<1> QED
  BY <1>3, <1>4, <1>5, <1>6

LEMMA AccountOfHost ==
  ASSUME IInv, settled = "no", settled' = "no",
         \/ Timeout \/ WorkerDies \/ TerminalMessage \/ ExecRequest
         \/ ClientAborts \/ FinallyAborts \/ ExecuteReturns
         \/ \E c \in Calls : Host(c)
         \/ UNCHANGED vars
  PROVE  Account'
<1>1. /\ Account
      /\ toHost \in Seq(Messages) /\ toWorker \in Seq(Calls)
      /\ pending \subseteq Calls
      /\ phase \in [Calls -> Phases]
  BY DEF IInv, Account, TypeOK, MessagesOK
<1>2. CASE Timeout \/ WorkerDies \/ TerminalMessage \/ ClientAborts
             \/ FinallyAborts \/ ExecuteReturns
  <2>1. \A m \in Messages : m.type = "error" => m.value # "no"
    BY MessageFacts DEF Codes
  <2>2. TerminalMessage => Head(toHost) \in Messages
    BY <1>1, TailIn DEF TerminalMessage
  <2> QED
    BY <1>2, <2>1, <2>2 DEF Timeout, WorkerDies, TerminalMessage, ClientAborts,
                            FinallyAborts, ExecuteReturns, OnlySettles, Settle
<1> USE DEF Account, ResultInv, PlaceInv, InHost
<1>3. CASE ExecRequest
  <2>1. PICK c \in Calls : RequestMoves(c)
    BY <1>3, RequestOfACall DEF IInv
  <2>2. /\ toHost # <<>> /\ toHost' = Tail(toHost) /\ Head(toHost) = Request(c)
        /\ UNCHANGED <<pending, nextId, finished, unsent, toWorker>>
    BY <1>3, <2>1 DEF ExecRequest, RequestMoves, worker
  <2>3. /\ In(toHost, Request(c)) /\ ~In(toHost', Request(c))
    BY <1>1, <2>2, TailIn
  <2>4. /\ phase'[c] \in {"local", "done"}
        /\ \A d \in Calls \ {c} : phase'[d] = phase[d]
    BY <1>1, <2>1 DEF RequestMoves
  <2>5. /\ phase[c] = "none" /\ ~(c >= nextId) /\ ~In(toWorker, c) /\ c \in pending
        /\ c \notin unsent
    BY <1>1, <2>3
  <2>6. ASSUME NEW d \in Calls
        PROVE  /\ In(toHost', Request(d)) => In(toHost, Request(d))
               /\ d # c => (In(toHost, Request(d)) => In(toHost', Request(d)))
               /\ OnceIn(toHost', Request(d))
    BY <1>1, <2>2, TailIn, MessageFacts
  <2>7. In(toHost', Message("result", 0)) => In(toHost, Message("result", 0))
    BY <1>1, <2>2, TailIn
  <2>8. ResultInv'
    BY <1>1, <2>2, <2>7
  <2>9. PlaceInv(c)'
    BY <1>1, <2>2, <2>3, <2>4, <2>5, <2>6
  <2>10. ASSUME NEW d \in Calls, d # c PROVE PlaceInv(d)'
    BY <1>1, <2>2, <2>4, <2>6, <2>10
  <2> QED
    BY <2>8, <2>9, <2>10
<1>4. ASSUME NEW c \in Calls, Host(c) PROVE Account'
  <2>1. UNCHANGED <<pending, nextId, finished, unsent, toHost>>
    BY <1>4 DEF Host, WaiterCancelled, LocallyRejected, Starts, Returns, Respond,
                HostStep, worker
  <2>2. CASE WaiterCancelled(c) \/ LocallyRejected(c) \/ Starts(c) \/ Returns(c)
    <3>1. /\ toWorker' = toWorker
          /\ \A d \in Calls : \/ phase'[d] = phase[d]
                              \/ /\ phase[d] \in {"local", "running"}
                                 /\ phase'[d] \in {"running", "done"}
      BY <1>1, <2>2 DEF WaiterCancelled, LocallyRejected, Starts, Returns, HostStep
    <3> QED
      BY <1>1, <2>1, <3>1
  <2>3. CASE Respond(c)
    <3>1. /\ toWorker' = Append(toWorker, c)
          /\ phase[c] = "done" /\ phase'[c] = "answered"
          /\ \A d \in Calls \ {c} : phase'[d] = phase[d]
      BY <1>1, <2>3 DEF Respond
    <3>2. ~In(toWorker, c)
      BY <1>1, <3>1
    <3>3. ASSUME NEW d \in Calls
          PROVE  /\ In(toWorker', d) <=> In(toWorker, d) \/ d = c
                 /\ OnceIn(toWorker', d)
      BY <1>1, <3>1, <3>2, AppendIn
    <3> QED
      BY <1>1, <2>1, <3>1, <3>3
  <2> QED
    BY <1>4, <2>2, <2>3 DEF Host
<1>5. CASE UNCHANGED vars
  BY <1>1, <1>5 DEF vars, worker
<1> QED
  BY <1>2, <1>3, <1>4, <1>5

-----------------------------------------------------------------------------
(***************************************************************************)
(* The limiter's steps, seen by the calls.                                 *)
(***************************************************************************)

\* Only calls that wait in the limiter are moved on by what others do.
WaitersMove ==
    \A c \in Calls :
      \/ call'[c] = call[c]
      \/ /\ call[c] = "waiting"
         /\ call'[c] \in {"granted", "cancelled", "shutdown"}

LEMMA ReleaseMoves ==
  ASSUME L!Inv, NEW c \in Calls, call[c] = "granted", L!Release(c)
  PROVE  /\ call'[c] = "released"
         /\ \A d \in Calls \ {c} :
              \/ call'[d] = call[d]
              \/ call[d] = "waiting" /\ call'[d] \in {"granted", "cancelled"}
         /\ aborted' = aborted /\ shutdown' = shutdown
<1>1. PICK n \in 0..Len(queue) :
        call' = [d \in Calls |->
                   IF d = c THEN "released"
                   ELSE IF d \in L!GrantedBy(n) THEN "granted"
                   ELSE IF d \in L!Shifted(n) THEN "cancelled"
                   ELSE call[d]]
  BY DEF L!Release, L!FirstRelease
<1>2. \A d \in Calls : d \in L!Shifted(n) => call[d] = "waiting"
  <2>1. \A i \in 1..n : i \in 1..Len(queue)
    BY LenProperties DEF L!Inv, L!TypeOK
  <2> QED
    BY <2>1 DEF L!Inv, L!QueueHoldsWaiters, L!Waiters, L!Shifted
<1> QED
  BY <1>1, <1>2 DEF L!Release, L!FirstRelease, L!GrantedBy

LEMMA ShutdownMoves ==
  ASSUME L!Inv, L!Shutdown
  PROVE  WaitersMove /\ aborted' = aborted /\ shutdown'
<1>1. \A d \in Calls : d \in L!Shifted(Len(queue)) => call[d] = "waiting"
  BY DEF L!Inv, L!QueueHoldsWaiters, L!Waiters, L!Shifted
<1> QED
  BY <1>1 DEF L!Shutdown, WaitersMove

LEMMA AcquireMoves ==
  ASSUME L!Inv, NEW c \in Calls, Acquire(c)
  PROVE  /\ call'[c] \in {"waiting", "granted"}
         /\ \A d \in Calls \ {c} : call'[d] = call[d]
<1> QED
  BY DEF Acquire, L!AcquireGranted, L!AcquireQueued, L!Inv, L!TypeOK

\* What an action may do to the calls: all of them, one by one.  Neither the
\* limiter nor executeCommand ever moves two calls of different kinds at once.
CallSteps ==
    \A d \in Calls :
      \/ call'[d] = call[d] /\ phase'[d] = phase[d]
      \/ /\ call[d] = "waiting" /\ phase'[d] = phase[d]
         /\ call'[d] \in {"granted", "cancelled", "shutdown"}
      \/ /\ phase[d] = "none" /\ settled = "no"
         /\ \/ phase'[d] = "local" /\ call'[d] \in {"waiting", "granted"}
            \/ phase'[d] = "done" /\ call'[d] = call[d]
      \/ /\ phase[d] = "local" /\ call[d] = "granted" /\ ~commandAborted
         /\ phase'[d] = "running" /\ call'[d] = call[d]
      \/ /\ phase[d] = "local" /\ call[d] \in {"cancelled", "shutdown"}
         /\ phase'[d] = "done" /\ call'[d] = call[d]
      \/ /\ phase[d] \in {"local", "running"} /\ call[d] = "granted"
         /\ phase'[d] = "done" /\ call'[d] = "released"
      \/ phase[d] = "done" /\ phase'[d] = "answered" /\ call'[d] = call[d]

LEMMA NextCallSteps ==
  ASSUME IInv, [Next]_vars
  PROVE  CallSteps
<1>1. /\ L!Inv /\ MessagesOK /\ phase \in [Calls -> Phases]
      /\ call \in [Calls -> L!CallStates]
  BY DEF IInv, TypeOK, L!TypeOK
<1>2. CASE GuestExec \/ GuestFinish \/ GuestWaits \/ GuestEnds \/ HandleResponse
  BY <1>2 DEF GuestExec, GuestFinish, GuestWaits, GuestEnds, HandleResponse,
              host, limiter, CallSteps
<1>3. CASE Timeout \/ WorkerDies \/ TerminalMessage \/ UNCHANGED vars
  BY <1>3 DEF Timeout, WorkerDies, TerminalMessage, OnlySettles, limiter, vars,
              CallSteps
<1>4. CASE ClientAborts \/ FinallyAborts
  BY <1>4 DEF ClientAborts, FinallyAborts, L!Abort, CallSteps
<1>5. CASE ExecuteReturns
  BY <1>1, <1>5, ShutdownMoves DEF ExecuteReturns, WaitersMove, CallSteps
<1>6. CASE ExecRequest
  <2>1. PICK c \in Calls : RequestMoves(c)
    BY <1>1, <1>6, RequestOfACall
  <2>2. settled = "no" => phase[c] = "none"
    <3>1. In(toHost, Request(c))
      BY <1>1, <1>6, <2>1, TailIn DEF ExecRequest, RequestMoves, MessagesOK
    <3> QED
      BY <3>1 DEF IInv, PlaceInv
  <2>3. CASE UNCHANGED limiter
    BY <1>1, <2>1, <2>2, <2>3, AcquireMoves DEF RequestMoves, limiter, CallSteps
  <2>4. CASE Acquire(c) /\ settled = "no" /\ phase' = [phase EXCEPT ![c] = "local"]
    BY <1>1, <2>2, <2>4, AcquireMoves DEF CallSteps
  <2> QED
    BY <2>1, <2>3, <2>4 DEF RequestMoves
<1>7. ASSUME NEW c \in Calls, Host(c) PROVE CallSteps
  <2>1. CASE WaiterCancelled(c)
    BY <1>1, <2>1 DEF WaiterCancelled, L!AbortListener, CallSteps
  <2>2. CASE LocallyRejected(c) \/ Starts(c) \/ Respond(c)
    BY <1>1, <2>2 DEF LocallyRejected, Starts, Respond, limiter, CallSteps
  <2>3. CASE Returns(c)
    <3>1. /\ phase[c] \in {"local", "running"} /\ call[c] = "granted"
          /\ L!Release(c) /\ phase' = [phase EXCEPT ![c] = "done"]
      BY <2>3 DEF Returns
    <3> QED
      BY <1>1, <3>1, ReleaseMoves DEF CallSteps
  <2> QED
    BY <1>7, <2>1, <2>2, <2>3 DEF Host
<1> QED
  BY <1>2, <1>3, <1>4, <1>5, <1>6, <1>7 DEF Next

LEMMA CallsPreserved ==
  ASSUME IInv, [Next]_vars
  PROVE  \A c \in Calls : CallInv(c)'
<1>1. CallSteps /\ \A c \in Calls : CallInv(c)
  BY NextCallSteps DEF IInv
<1> QED
  BY <1>1 DEF CallSteps, CallInv

-----------------------------------------------------------------------------
(***************************************************************************)
(* The budget, and the end of the program.                                 *)
(***************************************************************************)
LEMMA SubsetsOfCalls ==
  ASSUME NEW S \in SUBSET Calls
  PROVE  IsFiniteSet(S) /\ Cardinality(S) \in 0..MaxCalls
<1> QED
  BY CallsFinite, FS_Subset, FS_CardinalityType, BoundsAssumption

\* Which actions let the host receive or start a call.
LEMMA CountPreserved ==
  ASSUME IInv, [Next]_vars
  PROVE  CountInv'
<1>1. /\ CountInv /\ CallSteps
      /\ \A c \in Calls : CallInv(c)
      /\ call \in [Calls -> L!CallStates] /\ MessagesOK
      /\ execCalls \in 0..MaxCalls /\ MaxCalls \in Nat
  BY NextCallSteps, BoundsAssumption DEF IInv, TypeOK, L!TypeOK
<1>2. Received \in SUBSET Calls /\ Started \in SUBSET Calls
  BY DEF Received, Started
<1>3. ASSUME NEW c \in Calls, RequestMoves(c), settled = "no", ExecRequest
      PROVE  CountInv'
  <2>1. phase[c] = "none" /\ phase'[c] # "none" /\ execCalls' = execCalls + 1
    <3>1. In(toHost, Request(c))
      BY <1>1, <1>3, TailIn DEF ExecRequest, RequestMoves, MessagesOK
    <3>2. phase[c] = "none" /\ phase \in [Calls -> Phases]
      BY <1>3, <3>1 DEF IInv, PlaceInv, TypeOK
    <3> QED
      BY <1>3, <3>2 DEF RequestMoves
  <2>2. \A d \in Calls \ {c} : phase'[d] # "none" <=> phase[d] # "none"
    BY <1>3 DEF IInv, TypeOK, RequestMoves
  <2>3. Received' = Received \cup {c} /\ c \notin Received
    BY <2>1, <2>2 DEF Received
  <2>4. Cardinality(Received') = execCalls'
    BY <1>1, <1>2, <2>1, <2>3, SubsetsOfCalls, FS_AddElement DEF CountInv
  <2>5. CASE UNCHANGED limiter
    <3>1. Started' = Started
      BY <2>5 DEF limiter, Started
    <3> QED
      BY <1>1, <2>4, <3>1 DEF CountInv
  <2>6. CASE WithinBudget(execCalls') /\ Acquire(c)
    <3>1. Started' \subseteq Received'
      <4>1. \A d \in Calls : call[d] # "idle" => phase[d] # "none"
        BY <1>1 DEF CallInv
      <4>2. \A d \in Calls \ {c} : call'[d] = call[d]
        BY <2>6, AcquireMoves DEF IInv
      <4> QED
        BY <2>3, <4>1, <4>2 DEF Started, Received
    <3>2. /\ IsFiniteSet(Received') /\ Cardinality(Received') \in Nat
          /\ Cardinality(Started') \in Nat
          /\ Cardinality(Started') <= Cardinality(Received')
      <4>1. Received' \in SUBSET Calls /\ Started' \in SUBSET Calls
        BY DEF Received, Started
      <4> QED
        BY <3>1, <4>1, SubsetsOfCalls, FS_Subset
    <3>3. Cardinality(Started') <= MaxExecCalls
      BY <1>1, <2>1, <2>4, <2>6, <3>2, BoundsAssumption DEF WithinBudget
    <3> QED
      BY <2>4, <3>3 DEF CountInv
  <2> QED
    BY <1>3, <2>5, <2>6 DEF RequestMoves
<1>4. CASE ~(ExecRequest /\ settled = "no")
  <2>1. execCalls' = execCalls /\ \A c \in Calls : phase[c] = "none" => phase'[c] = "none"
    <3>1. CASE GuestExec \/ GuestFinish \/ GuestWaits \/ GuestEnds \/ HandleResponse
      BY <3>1 DEF GuestExec, GuestFinish, GuestWaits, GuestEnds, HandleResponse,
                  host
    <3>2. CASE Timeout \/ WorkerDies \/ TerminalMessage \/ UNCHANGED vars
      BY <3>2 DEF Timeout, WorkerDies, TerminalMessage, OnlySettles, vars
    <3>3. CASE ClientAborts \/ FinallyAborts \/ ExecuteReturns
      BY <3>3 DEF ClientAborts, FinallyAborts, ExecuteReturns
    <3>4. CASE ExecRequest
      BY <1>4, <3>4 DEF ExecRequest
    <3>5. ASSUME NEW c \in Calls, Host(c)
          PROVE  /\ execCalls' = execCalls
                 /\ \A d \in Calls : phase[d] = "none" => phase'[d] = "none"
      <4>1. phase \in [Calls -> Phases]
        BY DEF IInv, TypeOK
      <4> QED
        BY <3>5, <4>1 DEF Host, WaiterCancelled, LocallyRejected, Starts, Returns,
                          Respond, HostStep
    <3> QED
      BY <3>1, <3>2, <3>3, <3>4, <3>5 DEF Next
  <2>2. \A c \in Calls : /\ phase'[c] # "none" <=> phase[c] # "none"
                         /\ call'[c] # "idle" <=> call[c] # "idle"
    BY <1>1, <2>1 DEF CallSteps
  <2>3. Received' = Received /\ Started' = Started
    BY <2>2 DEF Received, Started
  <2> QED
    BY <1>1, <2>1, <2>3 DEF CountInv
<1> QED
  BY <1>1, <1>3, <1>4, RequestOfACall

\* Which steps let the runtime settle, and how; what settled stays settled.
LEMMA SettledMoves ==
  ASSUME IInv, [Next]_vars
  PROVE  \/ settled' = settled
         \/ settled = "no" /\ settled' # "result"
         \/ settled = "no" /\ phase' = phase /\ \A c \in Calls : ~InHost(c)
<1>1. CASE GuestExec \/ GuestFinish \/ GuestWaits \/ GuestEnds \/ HandleResponse
  BY <1>1 DEF GuestExec, GuestFinish, GuestWaits, GuestEnds, HandleResponse, host
<1>2. CASE Timeout \/ WorkerDies \/ ClientAborts
  BY <1>2 DEF Timeout, WorkerDies, ClientAborts, OnlySettles, Settle
<1>3. CASE TerminalMessage
  <2>1. /\ toHost \in Seq(Messages) /\ toHost # <<>>
        /\ Head(toHost).type \in {"result", "error"}
        /\ settled' = IF settled = "no"
                      THEN IF Head(toHost).type = "result" THEN "result"
                           ELSE Head(toHost).value
                      ELSE settled
        /\ phase' = phase
    BY <1>3 DEF TerminalMessage, OnlySettles, Settle, IInv, MessagesOK
  <2>2. Head(toHost) \in Messages /\ In(toHost, Head(toHost))
    BY <2>1, TailIn
  <2>3. CASE Head(toHost).type = "error"
    <3>1. Head(toHost).value \in Codes /\ Head(toHost).type # "result"
      BY <2>2, <2>3, MessageFacts
    <3> QED
      BY <2>1, <3>1 DEF Codes
  <2>4. CASE Head(toHost).type = "result" /\ settled = "no"
    <3>1. In(toHost, Message("result", 0))
      BY <2>2, <2>4, MessageFacts
    <3>2. \A c \in Calls : ~InHost(c)
      BY <2>4, <3>1 DEF IInv, ResultInv, PlaceInv
    <3> QED
      BY <2>1, <2>4, <3>2
  <2> QED
    BY <2>1, <2>3, <2>4
<1>4. CASE ExecRequest \/ FinallyAborts \/ ExecuteReturns \/ UNCHANGED vars
  BY <1>4 DEF ExecRequest, FinallyAborts, ExecuteReturns, vars
<1>5. ASSUME NEW c \in Calls, Host(c) PROVE settled' = settled
  BY <1>5 DEF Host, WaiterCancelled, LocallyRejected, Starts, Returns, Respond,
              HostStep
<1> QED
  BY <1>1, <1>2, <1>3, <1>4, <1>5 DEF Next

\* Whose signals are aborted, and what execute() answers.
LEMMA SignalMoves ==
  ASSUME IInv, [Next]_vars
  PROVE  /\ \/ /\ commandAborted' = commandAborted
               /\ commandAborted => aborted' = aborted
            \/ /\ commandAborted' /\ settled' # "no"
               /\ call' = call /\ aborted' = aborted \cup Waiting
         /\ shutdown => shutdown'
         /\ \/ returned' = returned
            \/ returned = "no" /\ settled # "no" /\ commandAborted /\ shutdown'
<1>1. L!Inv /\ MessagesOK /\ EndInv
  BY DEF IInv
<1>2. CASE GuestExec \/ GuestFinish \/ GuestWaits \/ GuestEnds \/ HandleResponse
  BY <1>2 DEF GuestExec, GuestFinish, GuestWaits, GuestEnds, HandleResponse,
              host, limiter
<1>3. CASE Timeout \/ WorkerDies \/ TerminalMessage \/ UNCHANGED vars
  BY <1>3 DEF Timeout, WorkerDies, TerminalMessage, OnlySettles, limiter, vars
<1>4. CASE ClientAborts \/ FinallyAborts
  BY <1>4 DEF ClientAborts, FinallyAborts, L!Abort, Settle
<1>5. CASE ExecuteReturns
  BY <1>1, <1>5, ShutdownMoves DEF ExecuteReturns
<1>6. CASE ExecRequest
  <2>1. PICK c \in Calls : RequestMoves(c)
    BY <1>1, <1>6, RequestOfACall
  <2>2. commandAborted => aborted' = aborted
    BY <1>1, <2>1 DEF EndInv, RequestMoves, limiter
  <2>3. shutdown' = shutdown
    BY <2>1 DEF RequestMoves, limiter, Acquire, L!AcquireGranted, L!AcquireQueued
  <2> QED
    BY <1>6, <2>2, <2>3 DEF ExecRequest
<1>7. ASSUME NEW c \in Calls, Host(c)
      PROVE  /\ commandAborted' = commandAborted /\ returned' = returned
             /\ aborted' = aborted /\ shutdown' = shutdown
  <2>1. CASE Returns(c)
    BY <1>1, <2>1, ReleaseMoves DEF Returns, HostStep
  <2>2. CASE ~Returns(c)
    BY <1>7, <2>2 DEF Host, WaiterCancelled, LocallyRejected, Starts, Respond,
                      HostStep, L!AbortListener, limiter
  <2> QED
    BY <2>1, <2>2
<1> QED
  BY <1>2, <1>3, <1>4, <1>5, <1>6, <1>7 DEF Next

LEMMA EndPreserved ==
  ASSUME IInv, [Next]_vars
  PROVE  EndInv'
<1>1. EndInv /\ CallSteps
  BY NextCallSteps DEF IInv
<1>2. ASSUME settled' = "result", NEW c \in Calls
      PROVE  phase'[c] \notin {"local", "running"}
  <2>1. CASE settled' = settled
    <3>1. phase[c] \notin {"local", "running"} /\ settled # "no"
      BY <1>1, <1>2, <2>1 DEF EndInv
    <3> QED
      BY <1>1, <3>1 DEF CallSteps
  <2>2. CASE settled' # settled
    BY <1>2, <2>2, SettledMoves DEF InHost
  <2> QED
    BY <2>1, <2>2
<1>3. ASSUME commandAborted'
      PROVE  settled' # "no" /\ Waiting' \subseteq aborted'
  <2>1. CASE commandAborted /\ aborted' = aborted
    <3>1. settled # "no" /\ Waiting \subseteq aborted
      BY <1>1, <2>1 DEF EndInv
    <3>2. settled' # "no"
      BY <3>1, SettledMoves
    <3>3. Waiting' \subseteq Waiting
      BY <1>1, <3>1 DEF CallSteps, Waiting
    <3> QED
      BY <2>1, <3>1, <3>2, <3>3
  <2>2. CASE settled' # "no" /\ call' = call /\ aborted' = aborted \cup Waiting
    BY <2>2 DEF Waiting
  <2> QED
    BY <1>3, <2>1, <2>2, SignalMoves
<1>4. returned' # "no" => commandAborted' /\ shutdown'
  BY <1>1, SignalMoves DEF EndInv
<1> QED
  BY <1>2, <1>3, <1>4 DEF EndInv

-----------------------------------------------------------------------------
(***************************************************************************)
(* The invariant.                                                          *)
(***************************************************************************)
LEMMA InitEstablishes == Init => IInv
<1> SUFFICES ASSUME Init PROVE IInv
  OBVIOUS
<1>1. L!Inv /\ call = [c \in Calls |-> "idle"] /\ aborted = {}
  BY LimiterKeepsItsInvariant DEF Init, L!Init
<1>2. MaxCalls \in Nat /\ MaxExecCalls \in Nat
  BY BoundsAssumption
<1>3. TypeOK /\ MessagesOK
  <2>1. MessagesOK
    BY EmptySeq DEF Init, MessagesOK
  <2>2. /\ clientAborted \in BOOLEAN /\ commandAborted \in BOOLEAN
        /\ settled \in Failures \cup {"no", "result"}
    BY DEF Init, Failures
  <2>3. 1 \in 1..(MaxCalls + 1) /\ 0 \in 0..MaxCalls
    BY <1>2
  <2>4. phase \in [Calls -> Phases] /\ execCalls = 0 /\ nextId = 1
    BY DEF Init, Phases
  <2> QED
    BY <1>1, <2>1, <2>2, <2>3, <2>4 DEF Init, TypeOK, L!Inv
<1>4. Account
  <2>1. \A x : ~In(<<>>, x) /\ OnceIn(<<>>, x)
    BY EmptySeq DEF In, OnceIn
  <2> QED
    BY <1>1, <2>1 DEF Init, Account, PlaceInv, ResultInv, InHost
<1>5. CountInv
  <2>1. Received = {} /\ Started = {}
    BY <1>1 DEF Init, Received, Started
  <2> QED
    BY <1>2, <2>1, FS_EmptySet DEF Init, CountInv
<1>6. \A c \in Calls : CallInv(c)
  BY <1>1 DEF Init, CallInv
<1>7. EndInv
  BY <1>1 DEF Init, EndInv, Waiting
<1> QED
  BY <1>1, <1>3, <1>4, <1>5, <1>6, <1>7 DEF IInv, Account, MessagesOK

LEMMA NextPreserves == IInv /\ [Next]_vars => IInv'
<1> SUFFICES ASSUME IInv, [Next]_vars PROVE IInv'
  OBVIOUS
<1>1. L!Inv'
  BY NextIsLimiterStep, LimiterKeepsItsInvariant DEF IInv
<1>2. ProgramTypeOK'
  BY TypesPreserved DEF IInv, TypeOK, ProgramTypeOK
<1>3. CountInv' /\ EndInv' /\ \A c \in Calls : CallInv(c)'
  BY CountPreserved, EndPreserved, CallsPreserved
<1>4. execCalls' \in 0..MaxCalls
  <2>1. Received' \in SUBSET Calls
    BY DEF Received
  <2> QED
    BY <1>3, <2>1, SubsetsOfCalls DEF CountInv
<1>5. TypeOK' /\ MessagesOK'
  BY <1>1, <1>2, <1>4 DEF TypeOK, ProgramTypeOK, L!Inv
<1>6. ASSUME settled' = "no" PROVE Account'
  <2>1. settled = "no"
    BY <1>6, SettledMoves
  <2> QED
    BY <1>6, <2>1, AccountOfGuest, AccountOfHost DEF Next
<1> QED
  BY <1>1, <1>3, <1>5, <1>6 DEF IInv, Account

\* The inductive invariant holds in every reachable state.
THEOREM InvariantHolds == Spec => []IInv
<1> QED
  BY InitEstablishes, NextPreserves, PTL DEF Spec

-----------------------------------------------------------------------------
(***************************************************************************)
(* The theorems.                                                           *)
(***************************************************************************)

\* The program is a client of its local limiter as ExecutionLimiter describes
\* one: each of its steps is a step of the limiter or leaves it alone.
THEOREM ProgramUsesLimiter == Spec => L!Spec
<1>1. Init => L!Init
  BY DEF Init
<1>2. IInv /\ [Next]_vars => [L!Next]_(L!vars)
  BY NextIsLimiterStep DEF IInv
<1> QED
  BY <1>1, <1>2, InvariantHolds, PTL DEF Spec, L!Spec

\* The limits of a program hold whatever the guest does and however it ends: no
\* more than max_concurrency commands are with the runner, each of them with its
\* permit, and no more than max_exec_calls are ever started.
THEOREM LimitsAreKept == Spec => []Inv
<1>1. ASSUME IInv PROVE LimitsHold
  <2>1. \A c \in InPhase("running") : call[c] = "granted"
    BY <1>1 DEF IInv, CallInv, InPhase
  <2>2. Cardinality(InPhase("running")) <= LocalConcurrency
    <3>1. L!Holders \in SUBSET Calls /\ InPhase("running") \subseteq L!Holders
      BY <2>1 DEF L!Holders, InPhase
    <3>2. /\ Cardinality(InPhase("running")) <= Cardinality(L!Holders)
          /\ Cardinality(InPhase("running")) \in Nat
          /\ Cardinality(L!Holders) \in Nat
      <4>1. InPhase("running") \in SUBSET Calls
        BY DEF InPhase
      <4> QED
        BY <3>1, <4>1, SubsetsOfCalls, FS_Subset
    <3>3. Cardinality(L!Holders) <= LocalConcurrency
      <4>1. L!Cardinality(L!Holders) = Cardinality(L!Holders)
        BY DEF L!Cardinality, Cardinality, L!IsFiniteSet, IsFiniteSet
      <4> QED
        BY <1>1, <4>1 DEF IInv, L!Inv, L!ActiveCountsPermits
    <3> QED
      BY <3>2, <3>3, LocalConcurrencyAssumption
  <2> QED
    BY <1>1, <2>1, <2>2 DEF IInv, CountInv, Started, LimitsHold
<1>2. IInv => Inv
  BY <1>1 DEF IInv, Inv
<1> QED
  BY <1>2, InvariantHolds, PTL

\* No request and no answer is lost or doubled between the two threads: what
\* the Worker waits for is in exactly one place, unless its request could not be
\* sent; such a call is in none, and with it the program never finishes.
THEOREM CallsAreSomewhere == Spec => []PendingIsSomewhere
<1>1. ASSUME IInv, settled = "no", NEW c \in Calls
      PROVE  LET places ==
                   {<<"out", i>> : i \in {j \in DOMAIN toHost :
                                            toHost[j] = Message("exec_request", c)}}
                   \cup {<<"in", i>> : i \in {j \in DOMAIN toWorker :
                                                toWorker[j] = c}}
                   \cup {<<"host", p>> : p \in {phase[c]} \ {"none", "answered"}}
             IN  Cardinality(places) = IF c \in pending \ unsent THEN 1 ELSE 0
  <2> DEFINE out  == {i \in DOMAIN toHost : toHost[i] = Message("exec_request", c)}
             in   == {i \in DOMAIN toWorker : toWorker[i] = c}
             here == {phase[c]} \ {"none", "answered"}
             places == {<<"out", i>> : i \in out} \cup {<<"in", i>> : i \in in}
                       \cup {<<"host", p>> : p \in here}
  <2>1. /\ PlaceInv(c) /\ phase[c] \in Phases
        /\ DOMAIN toHost = 1..Len(toHost) /\ DOMAIN toWorker = 1..Len(toWorker)
    BY <1>1, LenProperties DEF IInv, TypeOK, MessagesOK
  <2>2. /\ out # {} <=> In(toHost, Request(c))
        /\ in # {} <=> In(toWorker, c)
        /\ here # {} <=> InHost(c)
    BY <2>1 DEF In, Request, InHost, Phases
  <2>3. /\ \A i, j \in out : i = j
        /\ \A i, j \in in : i = j
        /\ \A p, q \in here : p = q
    BY <2>1 DEF PlaceInv, OnceIn, Request
  <2>4. /\ out # {} => in = {} /\ here = {}
        /\ in # {} => here = {}
        /\ c \in pending \ unsent <=> out # {} \/ in # {} \/ here # {}
    BY <2>1, <2>2 DEF PlaceInv, InHost
  <2> HIDE DEF out, in, here
  <2>5. CASE c \in pending \ unsent
    <3>1. \E x : places = {x}
      <4>1. ASSUME NEW i \in out PROVE places = {<<"out", i>>}
        BY <2>3, <2>4, <4>1
      <4>2. ASSUME NEW i \in in PROVE places = {<<"in", i>>}
        BY <2>3, <2>4, <4>2
      <4>3. ASSUME NEW p \in here PROVE places = {<<"host", p>>}
        BY <2>3, <2>4, <4>3
      <4> QED
        BY <2>4, <2>5, <4>1, <4>2, <4>3
    <3>2. Cardinality(places) = 1
      BY <3>1, FS_Singleton
    <3> QED
      BY <2>5, <3>2 DEF out, in, here
  <2>6. CASE c \notin pending \ unsent
    <3>1. places = {}
      BY <2>4, <2>6
    <3>2. Cardinality(places) = 0
      BY <3>1, FS_EmptySet
    <3> QED
      BY <2>6, <3>2 DEF out, in, here
  <2> QED
    BY <2>5, <2>6
<1>2. ASSUME IInv, settled = "no"
      PROVE  unsent \subseteq pending /\ (unsent # {} => ~finished)
  <2>1. unsent \subseteq Calls /\ (finished => pending = {})
    BY <1>2 DEF IInv, TypeOK, ResultInv
  <2>2. \A c \in Calls : c \in unsent => c \in pending
    BY <1>2 DEF IInv, PlaceInv
  <2> QED
    BY <2>1, <2>2
<1>3. IInv => PendingIsSomewhere
  BY <1>1, <1>2 DEF PendingIsSomewhere
<1> QED
  BY <1>3, InvariantHolds, PTL

\* However a program ends, no command of it is left that nobody has asked to
\* end, and a value is returned only when every call has been answered.
THEOREM NoCommandIsLeft == Spec => []NoCommandIsForgotten
<1>1. IInv => NoCommandIsForgotten
  BY DEF IInv, EndInv, CallInv, NoCommandIsForgotten, InPhase, Waiting
<1> QED
  BY <1>1, InvariantHolds, PTL

\* The first outcome counts, the answer is given once, and after it no command
\* of the program starts.
THEOREM FirstOutcomeCounts == Spec => EndIsFinal
<1> DEFINE Final == /\ settled # "no" => settled' = settled
                    /\ returned # "no" =>
                         /\ returned' = returned
                         /\ InPhase("running")' \subseteq InPhase("running")
<1>1. ASSUME IInv, [Next]_vars PROVE Final
  <2>1. settled # "no" => settled' = settled
    BY <1>1, SettledMoves
  <2>2. returned # "no" => returned' = returned /\ commandAborted
    BY <1>1, SignalMoves DEF IInv, EndInv
  <2>3. commandAborted => InPhase("running")' \subseteq InPhase("running")
    BY <1>1, NextCallSteps DEF CallSteps, InPhase
  <2> QED
    BY <2>1, <2>2, <2>3
<1> QED
  BY <1>1, InvariantHolds, PTL DEF Spec, EndIsFinal
=============================================================================
