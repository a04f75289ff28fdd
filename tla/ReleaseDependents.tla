--------------------------- MODULE ReleaseDependents ---------------------------
(***************************************************************************)
(* The recursion of releaseDependents() in src/executor/exec-executor.ts,  *)
(* as it is written, compared in every reachable state of ExecScheduler    *)
(* with the sets Skipped and Unlocked that ExecScheduler uses for it.      *)
(***************************************************************************)
EXTENDS ExecScheduler

NodeStates == {"pending", "ready", "running", "settled"}

\* What the recursion works on: states, results, the queue, and blocked_by of
\* the steps it skips.
Works == [st : [Steps -> NodeStates], res : [Steps -> Statuses \cup {"none"}],
          q : Seq(Steps), blockedBy : [Steps -> SUBSET Steps]]

Work(st, res, q) ==
    [st |-> st, res |-> res, q |-> q, blockedBy |-> [t \in Steps |-> {}]]

FailedDependencies(w, t) == {d \in deps[t] : Failed(w.res[d])}

Skip(w, t) ==
    [st |-> Settle(w.st, {t}), res |-> Record(w.res, {t}, "skipped"), q |-> w.q,
     blockedBy |-> [w.blockedBy EXCEPT ![t] = FailedDependencies(w, t)]]

Unlock(w, t) == [w EXCEPT !.st = [w.st EXCEPT ![t] = "ready"], !.q = Append(w.q, t)]

\* Faulty variant: the dependents of a skipped step are not visited.
ReleaseOneLevel(release, w, c, t) ==
    IF c \notin deps[t] \/ w.st[t] # "pending" THEN w
    ELSE IF FailedDependencies(w, t) # {} THEN Skip(w, t)
    ELSE IF \A d \in deps[t] : w.st[d] = "settled" THEN Unlock(w, t)
    ELSE w

\* One turn of the loop over dependentIndexes[c], which are in index order.
ReleaseOne(release, w, c, t) ==
    IF c \notin deps[t] \/ w.st[t] # "pending" THEN w
    ELSE IF FailedDependencies(w, t) # {} THEN release[Skip(w, t)][t]
    ELSE IF \A d \in deps[t] : w.st[d] = "settled" THEN Unlock(w, t)
    ELSE w

ReleaseEach(release, w, c) ==
    LET after[t \in 0..NumSteps] ==
            IF t = 0 THEN w ELSE ReleaseOne(release, after[t - 1], c, t)
    IN  after[NumSteps]

\* Each nested call has skipped a pending step before: room says how many may
\* still be, and without a pending step there is nothing to do.
Release ==
    LET release[room \in 0..NumSteps] ==
            [w \in Works |-> [c \in Steps |->
               IF room = 0 THEN w ELSE ReleaseEach(release[room - 1], w, c)]]
    IN  release[NumSteps]

-----------------------------------------------------------------------------
\* The calls of releaseDependents() that stepFinished() may make next.
Calls == {call \in Steps \X RunStatuses :
            /\ stopReason = "none"
            /\ state[call[1]] = "running"
            /\ failureMode = "continue" \/ ~Failed(call[2])}

Before(s, r) == Work(Settle(state, {s}), Record(result, {s}, r), ready)

\* The recursion skips the least set closed under "depends on", unlocks the
\* steps whose dependencies have all settled, in index order, and touches
\* nothing else, although it reads states and results while it changes them.
\* It explains each skip: blocked_by names dependencies of the step, at least
\* one, and only such as did not succeed.  (How many it names depends on the
\* order of the steps in the request.)
RecursionComputesSets ==
    \A call \in Calls :
      LET s      == call[1]
          w      == Before(s, call[2])
          after  == Release[w][s]
          skip   == Skipped(w.st, w.res, s)
          unlock == Unlocked(w.st, w.res, s)
      IN  /\ \A t \in Steps : after.st[t] = IF t \in skip THEN "settled"
                                            ELSE IF t \in unlock THEN "ready"
                                            ELSE w.st[t]
          /\ after.res = Record(w.res, skip, "skipped")
          /\ \E order \in Ascending(unlock) : after.q = ready \o order
          /\ \A t \in skip :
               /\ after.blockedBy[t] # {}
               /\ \A d \in after.blockedBy[t] :
                    d \in deps[t] /\ after.res[d] \notin {"none", "success"}

=============================================================================
