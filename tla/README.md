# os-exec-mcp in TLA+

os-exec-mcp is an MCP server that runs local commands for a client: `exec` runs
a graph of dependent steps, `exec_program` runs a small JavaScript program in a
QuickJS sandbox that calls `exec` for each command, and two legacy tools (batch
and workflow) are translated into `exec`. This directory holds TLA+ models of
the parts where its behaviour is hard to see and hard to test: start-up and the
policy on commands, the checks on requests, the semaphore, the scheduler, the life
of a process tree, the two threads of a program, the limits on what is kept of the
output, and the handlers of the server around them all.

Source paths below are relative to the repository; `src/executor/...` is the
server's own code.

    tlc   -config MCExecScheduler.cfg MCExecScheduler     # a run
    tlapm ExecSchedulerProofs.tla                         # the proofs

## 1. Inventory

| Component | State | Operations | Interacts with |
|---|---|---|---|
| **Execution limiter** `executor/execution-limiter.ts` | FIFO `#queue`, `#active`, peak, `#shutdown` | `acquire`, `release` (drains), abort listener, `shutdown` | one instance shared by every command of the server; a private one per program |
| **DAG scheduler** `executor/exec-executor.ts` | `states`, `results`, `ready` queue, `running`, `settled`, `stopReason`, the abort listener | `schedule`, `stepFinished`, `stepErrored`, `releaseDependents` (recursive), `stop`, `finish`, external abort | gets validated requests; gives every step to policy and process runner |
| **Request validation** `validation/*` | the sets and the stack of a depth-first search | schema refinements, `validateExecInput` and its three siblings | promises the scheduler an acyclic graph, and the buffers a byte budget |
| **Process runner, process trees, shutdown** `executor/process-runner.ts`, `process-tree.ts`, `mcp/stdio.ts` | per command: permit, child, deadline, abort listener, SIGKILL timer, answer; the server's shutdown state | `run`, spawn, deadline, abort, `requestTermination`, error/close events, force kill, `shutdown` | limiter, operating system, output buffers, artifact store |
| **Output buffer** `executor/output-buffer.ts` | head, tail and persisted chunks, total | `append`, `result` | one per stream of a child |
| **Artifact store** `executor/output-artifact-store.ts` | map of artifacts in insertion order, retained bytes | `put`, `get`, purge, `clear` | commands put, resource reads get, shutdown clears |
| **exec_program** `program/program-executor.ts`, `quickjs-runtime.ts`, `quickjs-worker.ts` | host: calls, command signal, outcome; Worker: pending calls, `finished`; the messages between them | guest calls, messages, deadline, cancellation, death of the Worker, `execute` | its own limiter, then the process runner |
| **Command policy** `policy/*` | none of its own: the policy, and a file system that others change | `prepare`: name, rule, working directory, search for the executable, environment | accepts or rejects a step; the runner spawns what it returns |
| **Configuration** `config/*` | none: read once | `loadPolicy`, the policy file's schema | gives every part its limits, the policy its directories |
| **Legacy adapters** `executor/batch-executor.ts`, `workflow-executor.ts` | none | translate, rename | validation, the scheduler |
| **MCP server** `mcp/server.ts`, `mcp/stdio.ts` | calls in progress, their signals and answers; the shutdown | tool handlers, serialisation with the response limit, Resource reads, `shutdown` | everything above, and the client through the SDK |
| Logging, type declarations | none | | |

What is hard in each part, and what makes it correct:

* **Limiter.** An abort reads as aborted before its listener runs, and a release
  in between drains the queue; releases come after
  `shutdown`. Correct when `#active` is exactly the number of permits out, the
  queue is exactly the unsettled calls, nobody waits beside a free permit,
  arrival order is kept, and nothing is granted to the aborted or after
  shutdown.
* **Scheduler.** Five handlers and a recursion change two counters that decide
  when the request ends; steps in flight come back after a stop; a cascade of
  skips runs while siblings run. Correct when dependencies come first, no
  request is stranded, only descendants of a failure are skipped, and the answer
  comes once, complete.
* **Validation.** One `visited` set serves all roots of the search; limits and
  defaults are separate fields. Correct when exactly the acyclic graphs pass, a
  reported cycle is one, the budget covers both streams of every step, and a request
  that names no limit is within them all.
* **Policy and configuration.** Six looks at the file system with an await between
  them; names whose case Windows ignores; a search over directories and
  extensions. Correct when nothing is prepared outside the roots and the trusted
  directories, the search finds the first program that may be started, the case of a
  name on Windows makes no difference, and the server starts with what the operator
  named or not at all.
* **Runner.** Deadline, abort, spawn error, refused kill, exit and close race;
  descendants hold pipes or leave the group; SIGKILL is a timer nobody awaits;
  shutdown meets all of them. Correct when processes stay within the permits, the
  answer is complete, final and truthful, and everything ends.
* **Program.** Two threads each keep their own account of the calls; a request may
  fail to be sent after it was entered; the program may end in six ways while
  commands run. Correct when no call that was sent is lost or answered twice, a value
  leaves no command behind, and an ended program starts nothing.
* **Buffer and store.** Byte arithmetic at chunk and character boundaries, and an
  account of bytes that several operations keep.
* **Server.** Calls, cancellations, Resource reads, the clock and a shutdown in any
  order; a handler may still be preparing a command when the store is cleared.
  Correct when an answer is true about what ran, and the store is empty for good
  after the shutdown.

Each point, with its line and the properties that would notice, is a row of
`hazards` in `PROJECT.json`.

## 2. Modules

| Module | Models | Used by |
|---|---|---|
| `ExecutionLimiter` | the semaphore; a client is a command | `ProcessRunner` and `ProgramRun` by `INSTANCE` |
| `ExecutionLimiterProofs` | its theorems | |
| `ExecContract` | what a request promises: no queue, no counters | `ExecScheduler` implements it |
| `ExecScheduler` | one request, any acyclic graph | |
| `ReleaseDependents` | the recursion of `releaseDependents()` as written, beside the sets `ExecScheduler` uses for it | `MCExecScheduler`, `ExecSchedulerProofs` |
| `ExecSchedulerProofs` | its theorems, and that it implements `ExecContract` | |
| `ExecValidation` | the refinements and limits of the four tools, and the legacy adapters' requests | |
| `ExecValidationProofs` | its theorems | |
| `CommandPolicy` | `loadPolicy`, then `prepare()` await by await | |
| `CommandPolicyProofs` | its theorems | |
| `ProcessRunner` | commands, processes, signals, shutdown; composed with the limiter | |
| `ProcessRunnerProofs` | its theorems, on top of the limiter's | |
| `ProgramRun` | one program on two threads; composed with the limiter | |
| `ProgramRunProofs` | its theorems, on top of the limiter's | |
| `OutputBuffer` | one stream, byte by byte | |
| `OutputBufferProofs` | its theorems | |
| `OutputArtifactStore` | the store and the clock | `McServer` extends it |
| `McServer` | handlers and shutdown, around the store; commands seen from outside | |
| `McServerProofs` | the theorems of store and server | |
| `MC*` | constants for TLC | |

`map` in `PROJECT.json` gives the source lines of every definition.

**How state and actions correspond.** JavaScript functions run to completion, so
one callback with every call it makes is one action. Where the code awaits, or
the platform may run something in between, the model has a step of its own:

* `ExecutionLimiter`: `queue`, `active`, `peak` and `shutdown` are the fields;
  `call[c]` is the promise of the client's latest `acquire`. `acquire` is three
  actions (its three outcomes). `Release` contains the whole drain loop: `n`, the
  number of waiters it shifts, is determined by `DrainShifts`. An abort is two
  actions, `Abort` (the signal reads as aborted) and `AbortListener`, because a
  listener registered earlier on the same source may call the limiter in between.
* `ExecScheduler`: the variables carry the source's names. The handlers compute
  states, results and queue and pass them to `Schedule`, which contains the loop,
  the end test and `Finish`. What policy and runner make of a step is any status
  in `RunStatuses`, or an exception, at any later time. `Skipped` is the least set
  closed under "depends on"; the module `ReleaseDependents` has
  the recursion as written, and it is proved that it computes the set.
* `ProcessRunner`: the limiter's variables and actions are the limiter's own. A
  command passes `Run`, (grant), `Spawn`, one of the racing events, `Release`. The
  abort between grant and spawn is possible because `Spawn` is its own step. `shutdown()`
  of stdio.ts closes the limiter and aborts the commands in two actions with nothing in
  between, because the code reaches no await there. The
  operating system is external: a program is "plain", forks a "child" that holds
  its pipes, a "daemon" that has redirected them, an "escaper" that left the group
  with them, or is "privileged" and cannot be signalled. Any process may exit at
  any time; only SIGKILL makes it.
* `ProgramRun`: `toHost` and `toWorker` are the two ordered channels. The guest is
  arbitrary: `GuestExec` also has the call whose request cannot be copied (a symbol as
  `argv`), which throws after the id was entered into `pending`; the history variable
  `unsent` names those calls. A result that cannot be copied ends the Worker without a
  message. `phase[c]` says where `executeCommand` is for a call. The process
  runner is external: it settles what it is given, which `ProcessRunner` shows.
* `ExecValidation` builds every request step by step, then checks it with the
  recursion of the code (a recursive function, whose argument `room` bounds how deep the
  calls nest; it is proved that they never reach the bound), and holds it against any policy that the policy file's
  schema accepts; a limit is a pair of default and absolute value, and a request
  names a number or leaves it out.
* `CommandPolicy` has one action per await of `prepare()`. `fs` is the node that each
  path leads to; as long as nobody changes the file system (`stable`) every look
  agrees with it, afterwards a look may see any node. `inside` is where `realpath`
  led, which is what the code decides by.
* `OutputBuffer` keeps bytes of three characters (one, three and four bytes long)
  and of broken encodings, and decodes them as Node does.
* `OutputArtifactStore` is the map as a sequence; the wall clock advances, and is
  set back at most once. It has no behaviour of its own: `McServer` says who puts,
  reads and clears, and when.
* `McServer` composes handlers, store and shutdown. A call's commands start and
  finish in any order that `MayStart` (the guard of `run()`) and `HasResult` (all of
  a scheduler's or of a program's commands have ended) allow, which is what
  `ExecScheduler`, `ProgramRun` and `ProcessRunner` show of them. A command's output
  is stored in the callback that ends it. `Shutdown`, `Clear` and `Close` are the
  three parts of `shutdown()` between its awaits. The SDK is external: it
  delivers calls and cancellations, and sends or drops what a handler returns.

Operators named as *faulty variants* or *plausible slips* are used by no
specification. Each is what one definition would be with a likely bug in it, and
`mutants` in `PROJECT.json` names the property that then fails; it is how we know
that a property can fail.

## 3. Runs

States are distinct states. `Inv` in every module is its type invariant together
with the bound or account that goes with it.

| Run | Question and result | Bounds | States |
|---|---|---|---|
| `limiter` | Exactness (`Inv`), order (`NoOvertaking`), aborts (`AbortedNeverGranted`), shutdown (`NoGrantAfterShutdown`), `NoStarvation`: all hold | 4 commands that return for ever, 2 permits | 9,628 |
| `scheduler` | `DependenciesFirst`, `NeverStuck`, `AnsweredOnce`, `SkipsOnlyDescendants`, exact counters, `EventuallyAnswered`; the recursion computes the sets (`RecursionComputesSets`); `ImplementsContract`: all hold | every acyclic graph on 4 steps (543), both modes, every concurrency | 354,089 |
| `validation` | `AcceptsExactlyAcyclic`, the budget (`Inv`), `DefaultsAreAccepted`: all hold | up to 3 steps, 2 dependencies each, repeated or unknown names included; 4 tools; every limit, default and option one of two values | 714,492 |
| `runner` | `Inv` (processes hold permits), `AnswersAreComplete`, `AbortedIsNeverSpawned`, `NothingAfterTheAnswer`: all hold | 2 commands of any behaviour, 1 permit | 431,525 |
| `runner_liveness` | `UsesLimiter`, `EveryCommandSettles`, `TerminatedTreesEnd`, `ShutdownEnds`: all hold | 2 commands, one forks a child, one a daemon; 1 permit | 64,188 |
| `policy` | `Inv` (what is prepared is confined), `SearchIsOrdered`, `CaseMakesNoDifference`, `LoadedAsConfigured`: all hold | 2 trusted directories on POSIX, 1 with 2 extensions on Windows; 7 names; 64 policies; one command | 188,900 |
| `server` | `Inv` (types, exact account, nothing stored after the clear), `AnswersAreTrue`, `ReadableUntilExpiry`, `RefusedOnlyWhenFull`: all hold | 2 calls, 3 commands, streams of 1, 2 and 5 bytes with room for 4, time to live 2, clock to 3 | 2,057,135 |
| `program` | limits, `PendingIsSomewhere`, `NoCommandIsForgotten`, `EndIsFinal`, `UsesLimiter`, `CallsAreAnswered`: all hold | 3 calls, each sent or not, budget 2, 1 local permit | 111,079 |
| `buffer` | both ends kept exactly and an artifact whole or flagged (`Inv`), `TextFits`: all hold | texts around each limit, cut into chunks in every way | 33,074 |
| `detached`, `orphans`, `untruncated` | each refutes one statement of the documents, see section 6 | one command, or short texts | |

**Why the bounds are enough.** *Limiter*: two permits and four commands give two
holders, and a queue in which the aborted one is first, last or followed by
another. *Scheduler*: four steps are the least with a diamond, a chain of three
behind a failure, and two unrelated branches at once. The four `RunStatuses`
left out of the run behave as "failed" does (only success is tested for). In the
proofs there is no bound. *Validation*: three steps give cycles of length two
(entered from outside or from within) and three, and two paths to one step; with the values 2 and 13 a
budget is refused as too small, divided with a remainder, and capped by the limit of a
stream. *Policy*: two candidates are the least for a search to go wrong in its order
or to stop early; the policies take each value that a check looks at, and the names are
one in two cases, the same with its suffix in two cases, and one of each other kind that
`prepare()` treats apart. *Runner*: one permit makes the
second command wait for all the first can do; commands interact only through
limiter and shutdown. *Program*: with a budget of two, the third call is refused
while the first runs and the second waits. *Server*: calls interact only through
store and shutdown, so two of them suffice; a third command puts output after
another was stored and expired. Streams fit alone, in pairs, not beside what is kept
(1 after 2 and 1, or 2) and never (5); after two issued artifacts only empty output
is put (`MaxIssued`), and while the store is empty time is not counted, since nothing
depends on it. The clock passes a lifetime, with room to step back from. Legacy tools
are off, so that the SDK's refusal of an unregistered tool happens; turned on they
behave as `exec` does. *Buffer*: limits
where a character is cut after each of its bytes, and where the marker takes each
of its three forms.

**Where a stop is not an error.** Requests are answered, programs return, servers
exit, commands are prepared, the clock is bounded, so these models may stop, and their
configurations say so. The limiter never does, and its run checks for deadlock.

## 4. Fairness

Fairness is assumed only for what the platform does by itself.

* `ExecutionLimiter`: each holder releases (a `finally` block around a runner that
  settles) and an abort that was dispatched reaches its listener. The first is an
  assumption here; `ProcessRunner` and `ProgramRun` *show* it: their property
  `UsesLimiter` is the limiter's whole fair specification.
* `ExecScheduler`: the promise's executor runs, and while steps run some step comes
  back. The latter is weak fairness of `StepReturns` in a spelled-out form: either
  infinitely often no step runs, or infinitely often a running step settles. It is
  equivalent (`StepReturns` is enabled exactly while a step runs, and only it
  settles a running step), and TLC evaluates it without enumerating successors.
* `ProcessRunner`: callbacks that are due run and timers fire. No process need
  exit, no client need cancel: that commands end rests on deadline and SIGKILL
  alone. Behaviours for which this is false ("escaper", and "privileged" for the
  trees) are left out of the liveness run and named at the properties.
* `ExecValidation`, `CommandPolicy`, `OutputBuffer` and `McServer` state none: their
  properties are safety properties.
* `ProgramRun`: messages arrive, callbacks run and the runner settles its commands.
  Nothing is assumed of the guest, of the deadline or of the client. A call is
  therefore answered only if the guest keeps yielding, which the property says.

## 5. Proofs

Induction over numbers is not built in, and the library's theorem has an operator as
parameter. The modules that need it prove it for sets (`LeastNumber`, `Induction`), from
the well-foundedness of `<`; with it they prove that a recursive function exists and
what it computes.

For every value of the constants, by TLAPS (all leaves by Z3, Zenon or LS4).

**`ExecutionLimiterProofs`**, for any finite set of clients and any positive
`maximumConcurrency` (the two `ASSUME`s: the constructor enforces the latter).
`Inv` (types, exact counter, queue equals waiters without repetition, nobody waits
beside a free permit) is inductive as it stands (`InvariantHolds`). No part is
inductive alone: that a drain does not overfill needs the exact counter, that
`shutdown` rejects everybody needs the exact queue, and that a
newcomer who joins a queue finds no free permit needs work conservation. The argument for the drain loop is `DrainFills`: `n` is
the first number of shifts at which the limiter is full or the queue empty, and
one shift grants at most one permit. `RemoveAt` and `DropFirst` are the two ways
the queue shrinks. From `Inv` follow the action properties `ShutdownIsFinal`,
`AbortedWaiterIsNotGranted` and `GrantsInOrder`.

**`ExecSchedulerProofs`**, for every number of steps, acyclic graph, failure
mode, concurrency and set of statuses. The invariant `IInv` adds to types and
counters: before a stop, ready steps are queued, a pending step waits for an
unsettled step and for no failed one, and a settled step is skipped exactly when
a dependency failed (`Flowing`); after a stop everything runs or has settled;
whatever runs or ran depends on successes (`Ordered`); and a free slot means that
no step is ready. It is needed because no step of the code looks for a stranded
request: that an open request has a running step follows from acyclicity (a
minimal unsettled step cannot be pending), the queue, and the loop that fills the
slots. The proof follows the code: `Coherent` is what the values must satisfy
when a handler calls `schedule()`, one lemma takes `schedule()` from coherent values
to `IInv`, and one lemma per handler shows that its values are coherent. The
theorems are `CountersAreExact`, `DependenciesComeFirst`, `RequestsNeverStick`,
`RequestsAreAnsweredOnce` and `OnlyDescendantsAreSkipped`. That the graph is
acyclic is what validation promises (`SearchAcceptsExactlyAcyclic`).

That `ExecScheduler` implements `ExecContract` (`SchedulerImplementsContract`) is
proved from the same invariant. `Moves` says what a handler may make of the steps as
the contract sees them: the step that came back is the only one that ends running,
others end skipped, unlocked or started. One lemma per handler shows that it moves the
steps so, and `MovesImplement` that a move is a step of the contract, the step into
the answer included; everything else stutters.

The recursion of `releaseDependents()` computes the sets Skipped and Unlocked
(`RecursionComputesTheSets`). Behind a failure it only skips: `Releases` says what one
call leaves, `EachReleased` shows it for the loop if the nested calls do so, and
`BehindFailure` is the induction on how many steps are still pending. Behind a success
it only unlocks (`EachUnlocked`), because no pending step of `IInv` waits for a failure.

**`ProcessRunnerProofs`**, for any finite set of commands, any behaviours and any
number of permits. The limiter is not proved about again: `LimiterKeepsItsInvariant`
carries over what `ExecutionLimiterProofs` shows, and `NextIsLimiterStep` shows that
every step of the runner is one of the limiter's or leaves it alone, which makes
`RunnerUsesLimiter` a theorem but for the fairness. To the limiter's invariant `IInv`
adds what each state of a call implies for process, timers and answer (`CommandInv`),
and that from the shutdown on whatever has a permit is aborted (`ServerInv`). No
event looks at all of these: an answer is complete because the handlers of `error` and
`close` come only in phases that `CommandInv` describes. Theorems:
`ProcessesAreBounded`, `AnswersComeComplete`, `AbortedCommandsAreNotSpawned`,
`NothingFollowsTheAnswer`.

**`ProgramRunProofs`**, for any number of calls, any budget and any local concurrency,
over the limiter in the same way (`ProgramUsesLimiter`). Neither thread sees the
other's account. What ties them is `PlaceInv`: as long as the Worker runs, a call it
waits for is in exactly one place, a request on its way, the host's hands, or an
answer on its way back; or its request could not be sent, and it is in none. With it a
result is known to be sent only when the host has nothing left (`ResultInv`): a call
left over in `pending` only makes `finish()` stricter. Theorems: `LimitsAreKept`,
`CallsAreSomewhere`,
`NoCommandIsLeft`, `FirstOutcomeCounts`.

**`McServerProofs`**, for any calls, any output of their commands, any bounds, any
clock and any size of the store.

*The store.* `#retainedBytes` is a sum over the entries, and sums are folds. That the
fold exists and what it adds up to (`SumIsTotal`, `TotalSplit`) is proved by induction
over numbers. `StoreInv` says that what is stored is the end of what was ever issued,
that issuing is in the order of expiry unless the clock was set back, that everything
before the stored end has expired, and that whatever was refused did not fit beside
what was readable then. With it the purge, which stops at the first
entry that has not expired, leaves exactly the unexpired ones (`PurgeKeeps`); one lemma
per operation shows that `StoreInv` is kept.

*The handlers.* `IInv` adds to the types of the calls that a call without a returned
handler has no answer and before its arrival no command (`Progress`), what is promised
of each answer (`Promise`: refused or invalid calls have nothing running either, so that
nothing can start for them), and that a cleared store is empty with no command left
(`EmptyForever`). `StoreBehindHandlers` is the second layer: nobody puts after the clear, and
answers name issued artifacts only. Theorems: `AnswersTellTheTruth`,
`ClearedStoreStaysEmpty`, `AccountIsExact` (the whole `Inv`), `ArtifactsAreReadable`,
`RefusalsAreJustified`.

**`CommandPolicyProofs`**, for any names, policies, directories and commands, and with
the file system changing at any moment, in two layers. `IInv` says what `prepare()` has
established when it reaches the search for the executable (`Located`: inside a root, and
no relative path in the rule) and when it returns; it is needed because the checks of
directory and program lie several awaits apart. From it follow `PreparedIsConfined` and
`CaseNeverMatters`, which is about case alone: section 6 says what a suffix does.
`SearchInv` says what an undisturbed file system has shown by the
time of each look (`Shown`): no candidate before the current one can be started,
where the current one led, and that the earlier looks at it passed. From it follow
`TypedAndConfined` (`Inv`) and `SearchFindsTheFirst`. While the working directory is
still looked at the search must stand at its first candidate: without this conjunct
the invariant is not inductive. `StartsAsConfigured` is about the loop of `loadPolicy`, which
drops repeated and unusable directories: `UsableAreRight` shows by induction over the
list what it leaves and in which order. Assumed are that folding is idempotent,
that a command is a record of its fields, that the default policy is a policy, and that
at least one directory may be named.

**`OutputBufferProofs`**, for any output, any way to cut it into chunks, any limits and
both capture modes. `IInv`: head, tail and persisted are the first and the last bytes of
the stream, as many as the limits allow, and what `result()` returned was made from
them. Its core is `TrimmedKeepsTheEnd`: the loop that shifts and shortens the oldest
chunks leaves exactly the last bytes, whatever the chunks. `InvHolds` is the run's `Inv`.
`TextAlwaysFits` (`TextFits`) rests on what the recursive functions compute: `Decode`
always terminates in known characters, `DecodeWithin` and `DecodeTailWithin` stay within
their limit since the empty text does, and for one-byte text they lose nothing. The
marker's number is exact when the last two of the four attempts agree (`MarkerCounts`):
adding at most 25 plus its own digits to a number gives it at most one digit more
(`DigitsStep`). They do not agree when the limit is 24 + k bytes and k >= 2 the digits of
the first attempt, since the long marker then has room in every other attempt only; the
property names this case, and section 6 reports it.

**`ExecValidationProofs`**, for any identifiers, requests of any length, any policies and
any numbers in them. `SearchOK` is what holds between two visits: the stack is a path of
the graph without repetition, visiting is the set of its members, and visited is closed
under dependencies and has no cycle in it. `Outcome` says what a visit of one identifier
makes of that; it is shown for a loop over dependencies if each visit does so
(`EachVisited`), and for the recursion by induction on the room that is left, which is
the number of identifiers not visiting. With it `SearchRight` shows that the whole
search succeeds exactly on acyclic graphs: the visited set is all of the graph, or
`FindsACycle` has found a way back onto the stack. `IInv` adds that the
verdicts come in the order of the stages. `LimitsHold` and `SharesFit` are the
arithmetic of limits and of the divided budget. Theorems:
`SearchAcceptsExactlyAcyclic`, `BudgetsCoverAllStreams` (the whole `Inv`),
`DefaultsAlwaysPass`.

**Assumed of the constants** (each an `ASSUME` that TLC evaluates): numbers of permits,
steps and calls and the sizes of limits are natural numbers, positive where the code
insists; sets of clients are finite; markers like `Absent` and `Unknown` are no values;
and, of `CommandPolicy`, what its paragraph names. What
bounds a run is a parameter of the theorems like any other.

**Only model-checked.** Every liveness property, and the use of the limiter under
fairness (`NoStarvation`, `EventuallyAnswered`, `EveryCommandSettles`,
`TerminatedTreesEnd`, `ShutdownEnds`, `CallsAreAnswered`, `UsesLimiter`): TLAPS does
not reason about `ENABLED`. Every other property of the passing runs is a theorem.

## 6. What the models disagree with

Three runs refute a sentence of the documents (`findings` in `PROJECT.json`):

1. `detached`: a descendant that left the process group and holds the output pipes
   keeps its command unanswered for as long as it lives, beyond timeout and SIGKILL,
   with its permit; `src/mcp/instructions.ts:5` says that detached processes are not
   tracked after their parent exits. Shutdown waits for it too.
2. `orphans`: after shutdown the server may exit before the unref'd SIGKILL timer
   fires, and a descendant that ignores SIGTERM survives; `README.md:302` says that
   shutdown terminates process trees.
3. `untruncated`: text that is not UTF-8 can be cut although `stdout_truncated` is
   false; `docs/tool-reference.md:140`.

Seen while modelling, without a run of their own.

*Output.* A four-byte character cut after three bytes leaves U+FFFD in the text, since
the replacement fits (`output-buffer.ts:64`; `docs/execution-flows.md:296` says that no
incomplete character is left). The four attempts at the omission marker alternate for
limits of 24 + k bytes when the first number has k >= 2 digits (26, 27, ...) and then
miscount (`output-buffer.ts:167`). After the clock is set back
an expired artifact stays readable (`output-artifact-store.ts:75`; the store's properties
say "as long as the clock has not stepped back"). An artifact's time to live runs from
the end of its command, so a slow sibling may make a uri expire before the response
that names it is sent; a response that is too large leaves its artifacts unreachable
until they expire.

*Limits.* The total output of a legacy request may exceed
`absoluteMaxTotalOutputBytes` (`batch-executor.ts:35`; compare
`docs/architecture.md:243`). The limit on a serialised response is held against the
text alone, not against error payloads, Resource reads, or the text together with
`structuredContent` (`server.ts:102`; `docs/configuration.md:76`).

*Policy.* On POSIX the rules are looked up as a property of a plain object, so that a
program called `constructor` finds an inherited one, which allows nothing: it is
refused in denylist mode as well (`command-policy.ts:227`; `docs/configuration.md:103`).
A shell is refused only where the policy says so, in denylist mode by `deniedCommands`;
`docs/architecture.md:246` says that shells are refused in any mode.

On Windows only the case of a name is folded. `git` and `git.exe` lead to one file
(`command-policy.ts:146`), but a rule, a denial, or the fixed list of privileged names
does not hold for its spelling with the suffix (`command-policy.ts:227`, `:233`, `:258`):
`runas` is refused and `runas.exe` is not, where `docs/security-model.md:43` and
`docs/configuration.md:21` say that the direct execution of `runas` is always refused.
The property is `CaseMakesNoDifference` and not more.

*Programs.* A call of `exec` whose request cannot be copied, `exec(Symbol())`, throws in
the guest after its id was entered into `pending` (`quickjs-worker.ts:84`). Nobody takes
it out again, so `finish()` then fails for good with "exec operations are still pending",
even in a program that caught the exception and has nothing under way
(`PendingIsSomewhere`; `docs/tool-reference.md:304` forbids `finish` only while an `exec`
is incomplete). When `finish` is given such a value the Worker ends without any message,
since `sentTerminalMessage` is set before the send that throws (`quickjs-worker.ts:156`);
the client is told that the Worker exited before returning a result.

*Errors.* A refused kill is reported as `spawn_error` and frees the permit while the
process lives (`process-runner.ts:316`, the "privileged" case of
`ProcessesHoldPermits`). An internal error that comes after a stop is dropped
(`exec-executor.ts:310`). The compact form of a result leaves out `signal`.

## 7. Not modelled

* Windows: `taskkill` and its exit codes. The models take the POSIX branch.
* Reuse of process and group numbers between SIGTERM and SIGKILL.
* Removal of terminal sequences and carriage returns (only removes characters).
* The QuickJS heap, `parallel()` and `lines()`: the guest is any sequence of calls,
  which includes what those helpers do.
* Fields of requests and results: their syntax, which zod checks, tool descriptions,
  output schemas and the renaming of fields.
* Characters of names and paths, and the environment that a prepared command gets: the
  policy's model knows of each name and path only what its checks ask.
* A change of the path between `prepare()` and spawn: the program cannot exclude it.
* Parsing of the policy file and of environment variables, ranges of single fields,
  logging.
* The protocol: framing, tool lists and progress are the SDK's.

## 8. Plan

Done: every component of section 1 but logging; as theorems, every safety property of
the runs and the refinement of `ExecContract`.

Next, in this order:

1. Facts that compose the models: that the output a command keeps (`OutputBuffer`) is
   what the store is asked to hold (`McServer`), and that a run which `ProcessRunner`
   answers is a step that comes back to `ExecScheduler`.
2. Safety behind the liveness properties that can be proved without `ENABLED`, such as
   a measure that every step of a terminating tree decreases.
3. The Windows branch of `process-tree.ts`, whose exit codes decide between two answers.
