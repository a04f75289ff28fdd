---------------------------- MODULE OutputBuffer ----------------------------
(***************************************************************************)
(* OutputBuffer (src/executor/output-buffer.ts): what one stream of a      *)
(* child process leaves in its result.  Chunks arrive as the pipe cuts     *)
(* them; the buffer keeps the first bytes, in "head_tail" capture the last *)
(* ones, and a longer prefix for the artifact store.  result() decodes     *)
(* what is kept as UTF-8 within the byte limit.                            *)
(*                                                                         *)
(* Three characters stand for all text: "a" takes one byte, "three" three  *)
(* and "four" four; "bad" is a byte no encoding holds.  Decoding replaces  *)
(* each of those, and each broken encoding, by U+FFFD, which takes three   *)
(* bytes.  normalize() only removes characters afterwards (carriage        *)
(* returns, terminal sequences) and is left out.                           *)
(***************************************************************************)
EXTENDS Integers, Sequences, SequencesExt, FiniteSetsExt

CONSTANT Cases   \* of a process: the outputs, the chunks, and the buffer's limits

Outputs == UNION {case.outputs : case \in Cases}

Encoding == [a |-> <<"a">>, three |-> <<"t1", "t2", "t3">>,
             four |-> <<"f1", "f2", "f3", "f4">>]
Bytes    == {"bad"} \cup UNION {ToSet(Encoding[c]) : c \in DOMAIN Encoding}

ASSUME CasesAssumption ==
    \A case \in Cases :
        /\ \A written \in case.outputs : written \in Seq(Bytes)
        /\ case.chunkSizes \subseteq Nat \ {0}
        /\ case.maximumBytes \in Nat \ {0}
        /\ case.capture \in {"head", "head_tail"}
        /\ case.persistedMaximumBytes \in Nat

VARIABLES
    limits,     \* the constructor's arguments, and how many bytes an event brings
    output,     \* what the process would write if nobody stopped it
    total,      \* #totalBytes: how much of it has arrived
    head,       \* #headChunks, concatenated
    tail,       \* #tailChunks
    persisted,  \* #persistedChunks, concatenated
    captured    \* what result() returned, if it was called: at most one record

vars == <<limits, output, total, head, tail, persisted, captured>>

maximumBytes          == limits.maximumBytes
capture               == limits.capture
persistedMaximumBytes == limits.persistedMaximumBytes   \* 0: no artifacts

(***************************************************************************)
(* Decoding.                                                               *)
(***************************************************************************)
\* How many bytes of s from i on could begin one character.
Begun(s, i) ==
    Max({0} \cup {n \in 1 .. 4 :
        /\ i + n - 1 <= Len(s)
        /\ \E c \in DOMAIN Encoding : IsPrefix(SubSeq(s, i, i + n - 1), Encoding[c])})

\* buffer.toString("utf8")
Decode(s) ==
    LET from[i \in 1 .. Len(s) + 1] ==
            IF i > Len(s) THEN <<>>
            ELSE LET n == Begun(s, i)
                     here == {c \in DOMAIN Encoding :
                                 Encoding[c] = SubSeq(s, i, i + n - 1)}
                 IN  IF here = {} THEN <<"U+FFFD">> \o from[i + Max({1, n})]
                     ELSE <<CHOOSE c \in here : TRUE>> \o from[i + n]
    IN  from[1]

Width == [c \in DOMAIN Encoding \cup {"U+FFFD"} |->
             IF c = "U+FFFD" THEN 3 ELSE Len(Encoding[c])]

ByteLength(text) ==
    LET sum[i \in 0 .. Len(text)] == IF i = 0 THEN 0 ELSE sum[i - 1] + Width[text[i]]
    IN  sum[Len(text)]

\* The longest prefix of at most `limit` bytes whose text takes at most that many.
DecodeWithin(bytes, limit) ==
    LET fits == {end \in 0 .. Min({Len(bytes), limit}) :
                    ByteLength(Decode(SubSeq(bytes, 1, end))) <= limit}
    IN  Decode(SubSeq(bytes, 1, Max(fits)))

\* The longest such suffix.
DecodeTailWithin(bytes, limit) ==
    LET fits == {start \in Max({0, Len(bytes) - limit}) .. Len(bytes) :
                    ByteLength(Decode(SubSeq(bytes, start + 1, Len(bytes)))) <= limit}
    IN  IF limit <= 0 THEN <<>> ELSE Decode(SubSeq(bytes, Min(fits) + 1, Len(bytes)))

(***************************************************************************)
(* The omission marker: its number, its length, and whether it shows the   *)
(* number at all.                                                          *)
(***************************************************************************)
\* How many decimal digits a number has.
Digits(number) ==
    LET digits[n \in 0 .. number] == IF n < 10 THEN 1 ELSE 1 + digits[n \div 10]
    IN  digits[number]

NoMarker == [omitted |-> 0, size |-> 0, counts |-> FALSE]

\* "\n... N bytes omitted ...\n", else "...NB...", else as many dots as fit.
OmissionMarker(omitted) ==
    IF 24 + Digits(omitted) <= maximumBytes
    THEN [omitted |-> omitted, size |-> 24 + Digits(omitted), counts |-> TRUE]
    ELSE IF 7 + Digits(omitted) <= maximumBytes
    THEN [omitted |-> omitted, size |-> 7 + Digits(omitted), counts |-> TRUE]
    ELSE [omitted |-> omitted, size |-> maximumBytes, counts |-> FALSE]

ContentBudget(marker) == Max({0, maximumBytes - marker.size})

\* A plausible slip: one attempt, so the marker's own length is not counted.
MarkerOnce == OmissionMarker(Max({0, total - ContentBudget(NoMarker)}))

\* Four attempts, because the number's length changes the number.
Marker ==
    LET after[attempt \in 0 .. 4] ==
            IF attempt = 0 THEN NoMarker
            ELSE OmissionMarker(Max({0, total - ContentBudget(after[attempt - 1])}))
    IN  after[4]

-----------------------------------------------------------------------------
Init ==
    /\ limits \in Cases
    /\ output \in limits.outputs
    /\ total = 0
    /\ head = <<>>
    /\ tail = <<>>
    /\ persisted = <<>>
    /\ captured = <<>>

\* The kept prefix, extended by what of the chunk the limit still allows.
FirstBytes(kept, chunk, limit) ==
    IF limit > Len(kept)
    THEN kept \o SubSeq(chunk, 1, Min({Len(chunk), limit - Len(kept)}))
    ELSE kept

\* #tailBytes: the lengths of the chunks, added up to the n-th.
BytesUpTo(chunks, n) ==
    LET sum[i \in 0 .. Len(chunks)] == IF i = 0 THEN 0 ELSE sum[i - 1] + Len(chunks[i])
    IN  sum[n]

TailBytes(chunks) == BytesUpTo(chunks, Len(chunks))

\* A plausible slip: the oldest chunk goes whole, however few bytes are too many.
TrimmedWhole(chunks) ==
    LET excess == Max({0, TailBytes(chunks) - maximumBytes})
        shifted == Min({n \in 0 .. Len(chunks) : BytesUpTo(chunks, n) >= excess})
    IN  SubSeq(chunks, shifted + 1, Len(chunks))

\* The loop that shifts out the oldest chunks while they lie wholly in the
\* excess, then shortens the oldest one left by the rest of it.
Trimmed(chunks) ==
    LET excess == Max({0, TailBytes(chunks) - maximumBytes})
        shifted == Max({n \in 0 .. Len(chunks) : BytesUpTo(chunks, n) <= excess})
        rest == excess - BytesUpTo(chunks, shifted)
        kept == SubSeq(chunks, shifted + 1, Len(chunks))
    IN  IF rest = 0 THEN kept
        ELSE [kept EXCEPT ![1] = SubSeq(@, rest + 1, Len(@))]

\* A 'data' event: the pipe delivers the next bytes of the output.
Data(size) ==
    /\ captured = <<>>
    /\ total + size <= Len(output)
    /\ LET chunk == SubSeq(output, total + 1, total + size) IN
        /\ total' = total + size
        /\ persisted' = FirstBytes(persisted, chunk, persistedMaximumBytes)
        /\ head' = FirstBytes(head, chunk, maximumBytes)
        /\ tail' = IF capture = "head_tail" THEN Trimmed(tail \o <<chunk>>) ELSE tail
    /\ UNCHANGED <<limits, output, captured>>

PersistedTruncated == total > persistedMaximumBytes

\* #persistedResult: an artifact only for a stream that went over its limit.
PersistedResult ==
    IF persistedMaximumBytes = 0 \/ total <= maximumBytes
    THEN [kept |-> FALSE, text |-> <<>>, truncated |-> FALSE]
    ELSE [kept |-> TRUE, text |-> Decode(persisted), truncated |-> PersistedTruncated]

HeadResult ==
    [head |-> DecodeWithin(head, maximumBytes), marker |-> NoMarker, tail |-> <<>>,
     truncated |-> total > maximumBytes, persisted |-> PersistedResult]

HeadTailResult ==
    LET budget == ContentBudget(Marker)
        headBudget == budget \div 4
    IN  [head |-> DecodeWithin(head, headBudget), marker |-> Marker,
         tail |-> DecodeTailWithin(FlattenSeq(tail), budget - headBudget),
         truncated |-> TRUE, persisted |-> PersistedResult]

\* result(), once, when the process has closed: it may stop at any byte.
Result ==
    /\ captured = <<>>
    /\ captured' = <<IF total > maximumBytes /\ capture = "head_tail"
                     THEN HeadTailResult ELSE HeadResult>>
    /\ UNCHANGED <<limits, output, total, head, tail, persisted>>

Next == Result \/ \E size \in limits.chunkSizes : Data(size)

Spec == Init /\ [][Next]_vars

-----------------------------------------------------------------------------
Arrived == SubSeq(output, 1, total)

\* The type invariant: no buffer ever holds more than its limit.
TypeOK ==
    /\ limits \in Cases
    /\ output \in Outputs
    /\ total \in 0 .. Len(output)
    /\ Len(head) <= maximumBytes
    /\ TailBytes(tail) <= maximumBytes
    /\ \A i \in DOMAIN tail : tail[i] /= <<>>
    /\ Len(persisted) <= persistedMaximumBytes

\* However the pipe cut the stream, the buffer holds exactly its first bytes
\* and exactly its last bytes, as many of each as the limit allows.
EndsOfStreamKept ==
    /\ head = SubSeq(Arrived, 1, Min({total, maximumBytes}))
    /\ capture = "head_tail" =>
        FlattenSeq(tail) = SubSeq(Arrived, Max({0, total - maximumBytes}) + 1, total)

\* The artifact kept for a cut stream is the whole stream, or its beginning and
\* says so.
ArtifactIsWholeOrFlagged ==
    \A r \in ToSet(captured) :
        r.persisted.kept =>
            /\ IsPrefix(persisted, Arrived)
            /\ r.persisted.truncated <=> persisted # Arrived
            /\ r.persisted.truncated \/ r.persisted.text = Decode(Arrived)

\* The bounds of the buffers, what they hold, and what is made of the artifact.
Inv == TypeOK /\ EndsOfStreamKept /\ ArtifactIsWholeOrFlagged

\* The returned text, its marker included, never takes more bytes than the
\* request allowed the stream, whatever the bytes decode to.  And the number in
\* the marker is the number of bytes that are not in the text, although the
\* marker takes room itself and its length depends on the number (for one-byte
\* characters, where no byte is lost to a cut character, and for limits other
\* than 26, 27, ... when the long marker just has room for the first attempt's
\* number of two, three, ... digits: there the four attempts may alternate).
TextFits ==
    \A r \in ToSet(captured) :
        /\ ByteLength(r.head) + r.marker.size + ByteLength(r.tail) <= maximumBytes
        /\ /\ r.marker.counts /\ ToSet(Arrived) \subseteq {"a"}
           /\ maximumBytes <= 25 \/ maximumBytes # 24 + Digits(total - maximumBytes)
           => r.marker.omitted + Len(r.head) + Len(r.tail) = total

\* truncated: whether the returned text was cut (docs/tool-reference.md).
UntruncatedIsWhole ==
    \A r \in ToSet(captured) : ~r.truncated => r.head = Decode(Arrived)

=============================================================================
