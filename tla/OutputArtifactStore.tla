------------------------- MODULE OutputArtifactStore -------------------------
(***************************************************************************)
(* The in-memory store of truncated output in src/executor/                *)
(* output-artifact-store.ts.  Commands put their output when they finish,  *)
(* MCP Resource reads get it, shutdown() of stdio.ts clears it: McServer   *)
(* says when.                                                              *)
(*                                                                         *)
(* The Map is the sequence of its entries in insertion order.  Time is the *)
(* wall clock that Date.now() reads; it is set back at most once, as the   *)
(* system's clock may be.                                                  *)
(***************************************************************************)
EXTENDS Integers, SequencesExt

CONSTANTS MaximumRetainedBytes, TimeToLive,
          MaxTime       \* bound of the clock

ASSUME LimitsAssumption == {MaximumRetainedBytes, TimeToLive} \subseteq Nat \ {0}
ASSUME MaxTimeAssumption == MaxTime \in Nat

VARIABLES store,       \* [artifacts, retained, issued, refused, cleared], below
          now,         \* Date.now()
          steppedBack

storeVars == <<store, now, steppedBack>>

\* artifacts and retained are #artifacts, <<[id, bytes, expiresAt], ...>>, and
\* #retainedBytes.  issued is every artifact whose uri was handed out, in order;
\* refused, the puts that the last command was refused, each with the number of
\* artifacts issued before it; cleared says that clear() has run.
EmptyStore == [artifacts |-> <<>>, retained |-> 0, issued |-> <<>>, refused |-> <<>>,
               cleared |-> FALSE]

StoreInit == store = EmptyStore /\ now = 0 /\ steppedBack = FALSE

\* The sum of a sequence of sizes.
Total(sizes) ==
    LET upTo[i \in 0..Len(sizes)] == IF i = 0 THEN 0 ELSE upTo[i - 1] + sizes[i]
    IN  upTo[Len(sizes)]

Bytes(q) == Total([i \in 1..Len(q) |-> q[i].bytes])

-----------------------------------------------------------------------------
(***************************************************************************)
(* #purgeExpired(): entries from the oldest on, up to the first that has   *)
(* not expired.                                                            *)
(***************************************************************************)
Expired(a) == a.expiresAt <= now

\* Faulty variant: the entry the loop stops at goes too.
PurgedOneMore(q) ==
    IF \A i \in DOMAIN q : Expired(q[i]) THEN q
    ELSE SubSeq(q, 1, CHOOSE n \in DOMAIN q :
                         ~Expired(q[n]) /\ \A i \in 1..(n - 1) : Expired(q[i]))

Purged(q) ==
    SubSeq(q, 1, CHOOSE n \in 0..Len(q) :
                    /\ \A i \in 1..n : Expired(q[i])
                    /\ n < Len(q) => ~Expired(q[n + 1]))

\* Faulty variant: a purged entry stays in the account.
AfterPurgeUnaccounted(st) ==
    [st EXCEPT !.artifacts = SubSeq(@, Len(Purged(@)) + 1, Len(@))]

AfterPurge(st) ==
    [st EXCEPT !.artifacts = SubSeq(@, Len(Purged(@)) + 1, Len(@)),
               !.retained  = @ - Bytes(Purged(st.artifacts))]

(***************************************************************************)
(* put(), get() and clear().                                               *)
(***************************************************************************)
Fits(bytes, used) == bytes <= MaximumRetainedBytes /\ used + bytes <= MaximumRetainedBytes

AfterPut(st, bytes) ==
    LET purged == AfterPurge(st)
        a      == [id |-> Len(st.issued) + 1, bytes |-> bytes, expiresAt |-> now + TimeToLive]
    IN  IF bytes = 0 THEN purged
        ELSE IF Fits(bytes, purged.retained)
        THEN [purged EXCEPT !.artifacts = Append(@, a), !.issued = Append(@, a),
                            !.retained = @ + bytes]
        ELSE [purged EXCEPT !.refused = Append(@, [bytes |-> bytes, after |-> Len(st.issued)])]

\* What finish() of process-runner.ts puts of one command, stdout before stderr:
\* streams has the sizes of those that were truncated.
PutStream(st, streams, i) ==
    IF i \in DOMAIN streams THEN AfterPut(st, streams[i]) ELSE st

PutAll(streams) ==
    /\ store' = PutStream(PutStream([store EXCEPT !.refused = <<>>], streams, 1),
                          streams, 2)
    /\ UNCHANGED <<now, steppedBack>>

\* What get() returns for an artifact, and what it leaves behind.
Found(id) ==
    LET kept == AfterPurge(store).artifacts IN \E i \in DOMAIN kept : kept[i].id = id

Get ==
    /\ store' = [AfterPurge(store) EXCEPT !.refused = <<>>]
    /\ UNCHANGED <<now, steppedBack>>

ClearStore ==
    /\ store' = [EmptyStore EXCEPT !.issued = store.issued, !.cleared = TRUE]
    /\ UNCHANGED <<now, steppedBack>>

\* While nothing is stored the time that passes changes nothing, and is not counted.
ClockSet ==
    /\ store.artifacts # <<>>
    /\ \/ now < MaxTime /\ now' = now + 1 /\ UNCHANGED steppedBack
       \/ ~steppedBack /\ now' \in 0..(now - 1) /\ steppedBack' = TRUE
    /\ store' = [store EXCEPT !.refused = <<>>]

-----------------------------------------------------------------------------
(***************************************************************************)
(* Properties.                                                             *)
(***************************************************************************)
StoreTypeOK ==
    /\ \A i \in DOMAIN store.artifacts : store.artifacts[i] \in ToSet(store.issued)
    /\ store.retained \in 0..MaximumRetainedBytes
    /\ now \in 0..MaxTime
    /\ store.cleared \in BOOLEAN /\ steppedBack \in BOOLEAN

\* The account is exact: after any puts, purges and a clear, #retainedBytes is
\* the size of what is stored.
RetainedIsExact == store.retained = Bytes(store.artifacts)

\* docs/execution-flows.md: an artifact cannot be had after its time to live.
\* Until then it can, whatever other commands put and whatever is read, unless
\* the server shuts down.  The purge relies on entries expiring in the order in
\* which they were put, so this and the next hold only as long as the clock has
\* not stepped back.
ReadableUntilExpiry ==
    ~steppedBack =>
        \A id \in DOMAIN store.issued :
            Found(id) = (~store.cleared /\ ~Expired(store.issued[id]))

\* A text is refused only when it does not fit beside what is still readable:
\* expired artifacts never take the room of a new one.
RefusedOnlyWhenFull ==
    ~steppedBack =>
        \A i \in DOMAIN store.refused :
            LET put      == store.refused[i]
                readable == [n \in 1..put.after |-> IF Expired(store.issued[n]) THEN 0
                                                    ELSE store.issued[n].bytes]
            IN  Total(readable) + put.bytes > MaximumRetainedBytes

=============================================================================
