----------------------------- MODULE SseFraming -----------------------------
(***************************************************************************)
(* How the bridge cuts what the server sends into events.  A notification  *)
(* stream arrives in chunks of any size, cut inside an event, inside its   *)
(* delimiter, inside a character; the body of an answer arrives whole.     *)
(* Bytes: "d" is the prefix data:, "x" text, "z" text that is not JSON, "u" *)
(* and "v" the two bytes of one character, "n" LF, "r" CR.  The data of an *)
(* event is the sequence of its data lines: joined by LF they are the same *)
(* text for no two sequences but the empty ones.                           *)
(***************************************************************************)
EXTENDS Integers, Sequences, FiniteSets, FiniteSetsExt, SequencesExt

CONSTANTS
    SseInputs,         \* what the server may send
    MaxFrameBytes,     \* MAX_FRAME_BYTES
    MaxResponseBytes   \* MAX_RESPONSE_BYTES

Byte == {"d", "x", "z", "u", "v", "n", "r"}

\* The server ends its lines alike.  All that is needed of that: an empty line
\* ended by CR LF follows a line ended so (after LF the bridge does not take it
\* for the end of an event).
WellFormed(text) ==
    \A i \in 1..Len(text) - 2 :
        text[i] = "n" /\ text[i + 1] = "r" /\ text[i + 2] = "n" => i > 1 /\ text[i - 1] = "r"

ASSUME FramingAssumption ==
    /\ \A text \in SseInputs : text \in Seq(Byte) /\ WellFormed(text)
    /\ MaxFrameBytes \in Nat /\ MaxResponseBytes \in Nat

VARIABLES
    ssKind,     \* "stream" or "body"
    ssInput,    \* the bytes to come
    ssSeen,     \* the bytes delivered
    ssPending,  \* the text not yet cut
    ssClosed,   \* parse_sse_bytes put an end to the last event itself
    ssBatch,    \* the events cut and not yet sent
    ssEvents,   \* the events sent to the writer
    ssStep,     \* "read", "drain", "send" or "done"
    ssError     \* "none" or why it gave up

framingVars ==
    <<ssKind, ssInput, ssSeen, ssPending, ssClosed, ssBatch, ssEvents, ssStep, ssError>>

-----------------------------------------------------------------------------
\* Where a pattern first occurs, as an offset, or the length when it does not.
Find(text, pattern) ==
    LET hits == {i \in 0..Len(text) - Len(pattern) :
                    \A j \in 1..Len(pattern) : text[i + j] = pattern[j]}
    IN IF hits = {} THEN Len(text) ELSE Min(hits)

\* next_event_boundary: the first of the two delimiters, if any.
NextBoundary(text) ==
    LET lf == Find(text, <<"n", "n">>)
        crlf == Find(text, <<"r", "n", "r", "n">>)
    IN IF lf <= crlf THEN [at |-> lf, len |-> 2] ELSE [at |-> crlf, len |-> 4]

HasBoundary(text) == NextBoundary(text).at < Len(text)

\* A line without the CR before its end.
Chomp(line) == IF line /= <<>> /\ Last(line) = "r" THEN Front(line) ELSE line

\* The data lines with one more line.
WithLine(data, line) ==
    IF Chomp(line) /= <<>> /\ Head(Chomp(line)) = "d" THEN Append(data, Tail(Chomp(line))) ELSE data

\* str::lines, one byte: the line so far, and the data of those before it.
NextByte(at, byte) ==
    IF byte = "n" THEN [line |-> <<>>, data |-> WithLine(at.data, at.line)]
    ELSE [line |-> Append(at.line, byte), data |-> at.data]

LinesOf(text) ==
    LET after[k \in 0..Len(text)] ==
            IF k = 0 THEN [line |-> <<>>, data |-> <<>>] ELSE NextByte(after[k - 1], text[k])
    IN after[Len(text)]

\* The data of one event.
DataOf(text) == WithLine(LinesOf(text).data, LinesOf(text).line)

\* Data that is the empty text is no event.
EventOf(data) == IF data \in {<<>>, << <<>> >>} THEN <<>> ELSE <<data>>

\* Lines that are all empty are not JSON either.
IsJson(data) ==
    /\ \E i \in DOMAIN data : data[i] /= <<>>
    /\ \A i \in DOMAIN data : \A j \in DOMAIN data[i] : data[i][j] /= "z"

Utf8(chunk) == chunk /= <<>> => Head(chunk) /= "v" /\ Last(chunk) /= "u"

-----------------------------------------------------------------------------
\* Any "?" of forward_sse and of response_frames: what was cut is dropped.
GiveUp(error) ==
    /\ ssError' = error /\ ssBatch' = <<>> /\ ssStep' = "done"
    /\ UNCHANGED <<ssPending, ssEvents, ssClosed>>

\* Mutant: every chunk is taken by itself.
TakeChunkAlone(k) ==
    LET chunk == SubSeq(ssInput, 1, k)
    IN /\ ssKind = "stream" /\ ssStep = "read"
       /\ ssInput' = SubSeq(ssInput, k + 1, Len(ssInput)) /\ ssSeen' = ssSeen \o chunk
       /\ \/ ~Utf8(chunk) /\ GiveUp("not_utf8")
          \/ /\ Utf8(chunk) /\ ssPending' = chunk /\ ssStep' = "drain"
             /\ UNCHANGED <<ssClosed, ssBatch, ssEvents, ssError>>
       /\ UNCHANGED ssKind

\* forward_sse, a chunk: decoded by itself, buffered, measured.
TakeChunk(k) ==
    LET chunk == SubSeq(ssInput, 1, k)
    IN /\ ssKind = "stream" /\ ssStep = "read"
       /\ ssInput' = SubSeq(ssInput, k + 1, Len(ssInput)) /\ ssSeen' = ssSeen \o chunk
       /\ \/ ~Utf8(chunk) /\ GiveUp("not_utf8")
          \/ Utf8(chunk) /\ Len(ssPending \o chunk) > MaxFrameBytes /\ GiveUp("too_long")
          \/ /\ Utf8(chunk) /\ Len(ssPending \o chunk) <= MaxFrameBytes
             /\ ssPending' = ssPending \o chunk /\ ssStep' = "drain"
             /\ UNCHANGED <<ssClosed, ssBatch, ssEvents, ssError>>
       /\ UNCHANGED ssKind

\* The stream ends, breaks or is cancelled: what is not an event yet is lost.
EndStream ==
    /\ ssKind = "stream" /\ ssStep = "read" /\ ssStep' = "done"
    /\ UNCHANGED <<ssKind, ssInput, ssSeen, ssPending, ssClosed, ssBatch, ssEvents, ssError>>

\* bounded_body, and the start of parse_sse_bytes.
TakeBody ==
    /\ ssKind = "body" /\ ssStep = "read"
    /\ ssInput' = <<>> /\ ssSeen' = ssInput
    /\ \/ Len(ssInput) > MaxResponseBytes /\ GiveUp("too_long")
       \/ Len(ssInput) <= MaxResponseBytes /\ ~Utf8(ssInput) /\ GiveUp("not_utf8")
       \/ /\ Len(ssInput) <= MaxResponseBytes /\ Utf8(ssInput)
          /\ ssPending' = ssInput /\ ssStep' = "drain"
          /\ UNCHANGED <<ssClosed, ssBatch, ssEvents, ssError>>
    /\ UNCHANGED ssKind

\* drain_sse_events, one turn of its loop.
DrainEvent ==
    LET b == NextBoundary(ssPending)
        data == DataOf(SubSeq(ssPending, 1, b.at + b.len))
    IN /\ ssStep = "drain" /\ HasBoundary(ssPending)
       /\ \/ EventOf(data) /= <<>> /\ ~IsJson(data) /\ GiveUp("not_json")
          \/ /\ EventOf(data) = <<>> \/ IsJson(data)
             /\ ssBatch' = ssBatch \o EventOf(data)
             /\ ssPending' = SubSeq(ssPending, b.at + b.len + 1, Len(ssPending))
             /\ UNCHANGED <<ssClosed, ssEvents, ssStep, ssError>>
       /\ UNCHANGED <<ssKind, ssInput, ssSeen>>

IsBlank(text) == \A i \in DOMAIN text : text[i] \in {"n", "r"}

\* The loop is over.  parse_sse_bytes ends an unfinished event, once.
FinishDrain ==
    /\ ssStep = "drain" /\ ~HasBoundary(ssPending)
    /\ IF ssKind = "body" /\ ~ssClosed /\ ~IsBlank(ssPending)
       THEN ssPending' = ssPending \o <<"n", "n">> /\ ssClosed' = TRUE /\ UNCHANGED ssStep
       ELSE ssStep' = "send" /\ UNCHANGED <<ssPending, ssClosed>>
    /\ UNCHANGED <<ssKind, ssInput, ssSeen, ssBatch, ssEvents, ssError>>

\* The events cut are sent one by one; the receiver may be gone.
SendEvent ==
    /\ ssStep = "send"
    /\ \/ /\ ssBatch = <<>> /\ ssStep' = (IF ssKind = "stream" THEN "read" ELSE "done")
          /\ UNCHANGED <<ssPending, ssClosed, ssBatch, ssEvents, ssError>>
       \/ /\ ssBatch /= <<>> /\ ssEvents' = Append(ssEvents, Head(ssBatch)) /\ ssBatch' = Tail(ssBatch)
          /\ UNCHANGED <<ssPending, ssClosed, ssStep, ssError>>
       \/ ssBatch /= <<>> /\ GiveUp("stdout_closed")
    /\ UNCHANGED <<ssKind, ssInput, ssSeen>>

FramingInit ==
    /\ ssKind \in {"stream", "body"} /\ ssInput \in SseInputs
    /\ ssSeen = <<>> /\ ssPending = <<>> /\ ssClosed = FALSE
    /\ ssBatch = <<>> /\ ssEvents = <<>> /\ ssStep = "read" /\ ssError = "none"

FramingNext ==
    \/ \E k \in 1..Len(ssInput) : TakeChunk(k)
    \/ EndStream \/ TakeBody \/ DrainEvent \/ FinishDrain \/ SendEvent

FramingSpec == FramingInit /\ [][FramingNext]_framingVars

-----------------------------------------------------------------------------
(* What a text means, read byte by byte as it arrives: a line is an event's *)
(* data or not, and an empty line ends the event.                           *)

Hear(at, byte) ==
    IF byte = "n" /\ Chomp(at.line) = <<>>
    THEN [line |-> <<>>, data |-> <<>>, events |-> at.events \o EventOf(at.data)]
    ELSE [line |-> IF byte = "n" THEN <<>> ELSE Append(at.line, byte),
          data |-> IF byte = "n" THEN WithLine(at.data, at.line) ELSE at.data,
          events |-> at.events]

Meaning(text) ==
    LET after[k \in 0..Len(text)] ==
            IF k = 0 THEN [line |-> <<>>, data |-> <<>>, events |-> <<>>]
            ELSE Hear(after[k - 1], text[k])
    IN after[Len(text)]

\* The end of a body also ends its last line and its last event.
MeaningAtEnd(text) ==
    Meaning(text).events \o EventOf(WithLine(Meaning(text).data, Meaning(text).line))

\* However a stream is cut into chunks, the events sent are the first ones of
\* those that the bytes delivered contain, in order and none twice; and none
\* is missing whenever the bridge waits for more or has seen the stream end.
ChunkingIsInvisible ==
    ssKind = "stream" =>
        /\ IsPrefix(ssEvents, Meaning(ssSeen).events)
        /\ ssStep \in {"read", "done"} /\ ssError = "none" => ssEvents = Meaning(ssSeen).events

\* The body of an answer means the same, except that its end also ends an
\* event: nothing of an answer is left behind.
BodyIsReadToItsEnd ==
    ssKind = "body" =>
        /\ IsPrefix(ssEvents, MeaningAtEnd(ssSeen))
        /\ ssStep = "done" /\ ssError = "none" => ssEvents = MeaningAtEnd(ssSeen)

\* Streams and bodies are cut into the events they contain.
FramingIsFaithful == ChunkingIsInvisible /\ BodyIsReadToItsEnd
=============================================================================
