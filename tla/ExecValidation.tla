----------------------------- MODULE ExecValidation -----------------------------
(***************************************************************************)
(* What a request of each tool must be before it is executed: the          *)
(* refinements of the input schemas (identifiers, dependencies, the        *)
(* depth-first search for cycles) and validateExecInput,                   *)
(* validateBatchInput, validateWorkflowInput and validateExecProgramInput  *)
(* in src/validation, against the limits of a policy file that             *)
(* src/config/schema.ts accepts; with the budgets that the legacy adapters *)
(* of src/executor hand on.                                                *)
(* The search is the recursion of the code, as recursive functions.        *)
(***************************************************************************)
EXTENDS Integers, FiniteSets, SequencesExt

CONSTANTS Ids, Unknown,       \* identifiers, and one that no step has
          MaxSteps,           \* bound: the length of the requests
          MaxDependencies,    \* bound: the length of depends_on
          BatchSizes,         \* maxBatchSize of the policies
          Values              \* the numbers that policies and requests name

\* An option that the request leaves out.
Absent == 0

ASSUME UnknownAssumption == Unknown \notin Ids
ASSUME BoundsAssumption == {MaxSteps, MaxDependencies} \subseteq Nat
ASSUME ValuesAssumption == Values \subseteq Nat \ {Absent}

VARIABLES steps,    \* the input: a sequence of [id, dependsOn]
          tool,     \* that it is sent to, "none" before
          verdict,  \* of the last check
          cycle,    \* the cycle an issue reports, <<>> without one
          policy,   \* the limits it was held against
          asked,    \* the options it names
          issues,   \* the limits it exceeds
          output    \* what a validated request gets

vars   == <<steps, tool, verdict, cycle, policy, asked, issues, output>>
limits == <<policy, asked, issues, output>>

Verdicts == {"unchecked", "malformed", "cyclic", "acyclic", "over_limit", "accepted"}
Tools    == {"exec", "batch_exec", "workflow_exec", "exec_program"}

StepInputs == [id : Ids, dependsOn : BoundedSeq(Ids \cup {Unknown}, MaxDependencies)]
NoOutput   == [concurrency |-> 0, totalBytes |-> 0, streamBytes |-> 0]

Init == /\ steps = <<>> /\ tool = "none" /\ verdict = "unchecked" /\ cycle = <<>>
        /\ policy = <<>> /\ asked = <<>> /\ issues = {} /\ output = NoOutput

AddStep ==
    /\ verdict = "unchecked"
    /\ Len(steps) < MaxSteps
    /\ \E step \in StepInputs : steps' = Append(steps, step)
    /\ UNCHANGED <<tool, verdict, cycle, limits>>

-----------------------------------------------------------------------------
(***************************************************************************)
(* The identifiers and the dependencies one by one.                        *)
(***************************************************************************)
Identifiers == {steps[i].id : i \in DOMAIN steps}

Malformed ==
    \/ \E i, j \in DOMAIN steps : i < j /\ steps[i].id = steps[j].id
    \/ \E i \in DOMAIN steps :
         \/ ~IsInjective(steps[i].dependsOn)
         \/ \E d \in ToSet(steps[i].dependsOn) :
              d = steps[i].id \/ d \notin Identifiers

DependenciesById(id) ==
    steps[CHOOSE i \in DOMAIN steps : steps[i].id = id].dependsOn

(***************************************************************************)
(* visit(): the search from one identifier, with the sets and the stack it *)
(* shares with the other calls.  A call that returns false leaves them as  *)
(* they are.                                                               *)
(***************************************************************************)
Searches == [ok : BOOLEAN, visiting : SUBSET Ids, visited : SUBSET Ids,
             stack : Seq(Ids), cycle : Seq(Ids)]

Search == [ok |-> TRUE, visiting |-> {}, visited |-> {}, stack |-> <<>>,
           cycle |-> <<>>]

\* [...stack.slice(stack.indexOf(identifier)), identifier]
CycleFrom(s, id) ==
    Append(SubSeq(s.stack, CHOOSE i \in DOMAIN s.stack : s.stack[i] = id,
                  Len(s.stack)), id)

\* Faulty variant: an identifier counts as visited before its dependencies do.
EnterVisited(s, id) == [s EXCEPT !.visited = @ \cup {id}, !.stack = Append(@, id)]

Enter(s, id) == [s EXCEPT !.visiting = @ \cup {id}, !.stack = Append(@, id)]

Leave(s, id) == [s EXCEPT !.stack = Front(@), !.visiting = @ \ {id},
                          !.visited = @ \cup {id}]

\* A loop over identifiers: the first visit that returns false ends it.
VisitEach(visit, s, ids) ==
    LET after[i \in 0..Len(ids)] ==
            IF i = 0 THEN s
            ELSE LET t == after[i - 1] IN IF t.ok THEN visit[t][ids[i]] ELSE t
    IN  after[Len(ids)]

\* Each visit that makes others adds one to visiting first, so that they are
\* nested no deeper than there are identifiers: room says how much deeper, and
\* what is neither visiting nor visited always finds some.
Visit ==
    LET visit[room \in 0..Cardinality(Identifiers)] ==
            [s \in Searches |-> [id \in Ids |->
               IF id \in s.visiting THEN [s EXCEPT !.ok = FALSE, !.cycle = CycleFrom(s, id)]
               ELSE IF id \in s.visited \/ room = 0 THEN s
               ELSE LET all == VisitEach(visit[room - 1], Enter(s, id), DependenciesById(id))
                    IN  IF all.ok THEN Leave(all, id) ELSE all]]
    IN  visit[Cardinality(Identifiers)]

\* The loop over the identifiers, in the order of the steps.
SearchAll == VisitEach(Visit, Search, [i \in DOMAIN steps |-> steps[i].id])

\* The refinement that exec and workflow_exec each spell out in their schema.
CheckGraph ==
    /\ verdict = "unchecked"
    /\ steps # <<>>
    /\ IF Malformed
       THEN verdict' = "malformed" /\ UNCHANGED cycle
       ELSE /\ verdict' = IF SearchAll.ok THEN "acyclic" ELSE "cyclic"
            /\ cycle' = SearchAll.cycle
    /\ UNCHANGED <<steps, limits>>

CheckExecGraph     == tool' = "exec" /\ CheckGraph
CheckWorkflowGraph == tool' = "workflow_exec" /\ CheckGraph

\* A batch has no dependencies: only its identifiers are looked at.
CheckBatchIds ==
    /\ verdict = "unchecked"
    /\ steps # <<>> /\ \A i \in DOMAIN steps : steps[i].dependsOn = <<>>
    /\ tool' = "batch_exec"
    /\ verdict' = IF \E i, j \in DOMAIN steps : i < j /\ steps[i].id = steps[j].id
                  THEN "malformed" ELSE "acyclic"
    /\ UNCHANGED <<steps, cycle, limits>>

-----------------------------------------------------------------------------
(***************************************************************************)
(* The limits.  Each has a default and an absolute value in the policy     *)
(* file; "timeout" stands for the step that asks for the most.             *)
(***************************************************************************)
LimitsOf(t) ==
    CASE t = "exec" -> {"concurrency", "timeout", "stream", "total"}
      [] t \in {"batch_exec", "workflow_exec"} -> {"concurrency", "timeout", "stream"}
      [] t = "exec_program" -> {"concurrency", "calls", "program_timeout",
                                "memory", "return"}

\* superRefine of policyFileSchema: no default exceeds its limit.  (Faulty
\* variant: the check of the total output budget is missing.)
LoadableButTotal(p) ==
    \A l \in DOMAIN p : l # "total" => p[l].default <= p[l].absolute

Loadable(p) == \A l \in DOMAIN p : p[l].default <= p[l].absolute

Policies(t) ==
    {p \in [LimitsOf(t) -> [default : Values, absolute : Values]] : Loadable(p)}

Effective(p, request, l) == IF request[l] = Absent THEN p[l].default ELSE request[l]

Exceeded(p, request) ==
    {l \in DOMAIN p : Effective(p, request, l) > p[l].absolute}

\* The share of the output budget of each of the 2 * length streams.
FairStreamBytes(total) == total \div (Len(steps) * 2)

\* Faulty variant: stdout and stderr share one stream's part.
StreamBytesPerStep(total, stream) ==
    LET fair == total \div Len(steps) IN IF stream < fair THEN stream ELSE fair

StreamBytes(total, stream) ==
    IF stream < FairStreamBytes(total) THEN stream ELSE FairStreamBytes(total)

\* Accepted with result, or refused with every limit that is exceeded.
Decide(found, result) ==
    /\ issues' = found
    /\ verdict' = IF found = {} THEN "accepted" ELSE "over_limit"
    /\ output' = IF found = {} THEN result ELSE output

TooMany(batchSize) == IF Len(steps) > batchSize THEN {"batch_size"} ELSE {}

Workers(concurrency) == IF concurrency < Len(steps) THEN concurrency ELSE Len(steps)

ExecLimits ==
    /\ verdict = "acyclic" /\ tool = "exec"
    /\ \E p \in Policies(tool), batchSize \in BatchSizes,
          request \in [LimitsOf(tool) -> Values \cup {Absent}] :
         LET total  == Effective(p, request, "total")
             stream == Effective(p, request, "stream")
         IN  /\ policy' = p /\ asked' = request
             /\ Decide(Exceeded(p, request) \cup TooMany(batchSize)
                         \cup (IF FairStreamBytes(total) < 1 THEN {"share"} ELSE {}),
                       [concurrency |-> Workers(Effective(p, request, "concurrency")),
                        totalBytes  |-> total,
                        streamBytes |-> StreamBytes(total, stream)])
    /\ UNCHANGED <<steps, tool, cycle>>

\* validateBatchInput and validateWorkflowInput, and what BatchExecutor and
\* WorkflowExecutor make of the one output limit that their tools have.
LegacyOutput(concurrency, maxOutputBytes) ==
    [concurrency |-> Workers(concurrency),
     totalBytes  |-> maxOutputBytes * Len(steps) * 2,
     streamBytes |-> maxOutputBytes]

LegacyLimits ==
    /\ verdict = "acyclic"
    /\ \E p \in Policies(tool), batchSize \in BatchSizes,
          request \in [LimitsOf(tool) -> Values \cup {Absent}] :
         /\ policy' = p /\ asked' = request
         /\ Decide(Exceeded(p, request) \cup TooMany(batchSize),
                   LegacyOutput(Effective(p, request, "concurrency"),
                                Effective(p, request, "stream")))
    /\ UNCHANGED <<steps, tool, cycle>>

BatchLimits    == tool = "batch_exec" /\ LegacyLimits
WorkflowLimits == tool = "workflow_exec" /\ LegacyLimits

\* exec_program has no steps; output keeps what bounds its commands.
ProgramLimits ==
    /\ verdict = "unchecked" /\ steps = <<>>
    /\ tool' = "exec_program"
    /\ \E p \in Policies(tool'),
          request \in [LimitsOf(tool') -> Values \cup {Absent}] :
         /\ policy' = p /\ asked' = request
         /\ Decide(Exceeded(p, request),
                   [NoOutput EXCEPT !.concurrency = Effective(p, request, "concurrency")])
    /\ UNCHANGED <<steps, cycle>>

Next == \/ AddStep
        \/ CheckExecGraph \/ CheckWorkflowGraph \/ CheckBatchIds
        \/ ExecLimits \/ BatchLimits \/ WorkflowLimits \/ ProgramLimits

Spec == Init /\ [][Next]_vars

-----------------------------------------------------------------------------
(***************************************************************************)
(* Properties.                                                             *)
(***************************************************************************)
\* The type invariant.
TypeOK ==
    /\ steps \in Seq(StepInputs) /\ Len(steps) <= MaxSteps
    /\ tool \in Tools \cup {"none"}
    /\ verdict \in Verdicts
    /\ cycle \in Seq(Ids)
    /\ verdict \in {"accepted", "over_limit"} =>
         /\ policy \in Policies(tool)
         /\ asked \in [LimitsOf(tool) -> Values \cup {Absent}]
    /\ issues \subseteq {"batch_size", "share"} \cup UNION {LimitsOf(t) : t \in Tools}

\* What ExecScheduler assumes of its input: dependencies are other steps, and
\* every set of steps has one that depends on none of the set.
Acyclic ==
    \A S \in SUBSET Identifiers : S # {} =>
        \E id \in S : ToSet(DependenciesById(id)) \cap S = {}

\* The search accepts exactly the acyclic graphs, for every order of the steps
\* and of their dependencies: sharing `visited' between its roots loses no cycle,
\* and a diamond is not one.  The cycle in the issue is one: each of its
\* identifiers depends on the next, it ends where it begins and visits nothing
\* else twice.
AcceptsExactlyAcyclic ==
    /\ verdict \in {"acyclic", "accepted", "over_limit"} /\ tool # "exec_program" => Acyclic
    /\ verdict = "cyclic" =>
         /\ ~Acyclic
         /\ Len(cycle) > 1 /\ cycle[1] = Last(cycle)
         /\ IsInjective(Front(cycle))
         /\ \A i \in 1..(Len(cycle) - 1) :
              cycle[i + 1] \in ToSet(DependenciesById(cycle[i]))

\* Whatever the steps print, what is kept of all streams together stays within
\* the request's budget, no stream is left without a byte, and no stream gets
\* more than the server's limit on one.  Of exec the whole budget is within the
\* server's limit as well; the legacy tools have none but the one per stream.
BudgetCoversAllStreams ==
    verdict = "accepted" /\ tool # "exec_program" =>
        /\ output.streamBytes \in 1..policy["stream"].absolute
        /\ 2 * Len(steps) * output.streamBytes <= output.totalBytes
        /\ output.concurrency \in 1..Len(steps)
        /\ tool = "exec" => output.totalBytes <= policy["total"].absolute

\* Both: the shape of what is validated, and the budget it is given.
Inv == TypeOK /\ BudgetCoversAllStreams

\* A client that names no limits is never told that it exceeds one, whichever
\* policy the server has loaded: only the number of its steps, or a budget that
\* is too small to share among them, can be refused.
DefaultsAreAccepted ==
    verdict = "over_limit" /\ (\A l \in DOMAIN asked : asked[l] = Absent) =>
        issues \subseteq {"batch_size", "share"}

=============================================================================
