---------------------------- MODULE Redaction ----------------------------
(***************************************************************************)
(* RedactingProcess: the process a seat's driver reads from.  Output of    *)
(* the real process arrives in chunks of any size, so a secret may be cut  *)
(* in two; lines leave whole, a buffer without a newline leaves in bounded *)
(* chunks that hold back the last bytes, and the exit flushes the rest.    *)
(*                                                                         *)
(* A byte is a member of Bytes; the marker "[REDACTED]" is one symbol that *)
(* is not a byte, so a secret that spells part of the marker is outside    *)
(* the model.                                                              *)
(***************************************************************************)
EXTENDS Naturals, Sequences, SequencesExt

CONSTANTS
    Bytes,        \* what the process can write, Newline among it
    Newline,
    Secrets,      \* the sequence of secrets of the seat
    ChunkBytes,   \* REDACTION_STREAM_CHUNK_BYTES
    MaxWritten,   \* bound: bytes the process writes on one stream
    MaxWrite      \* bound: bytes of one read from the process

Streams == {"stdout", "stderr"}
Marker == "[REDACTED]"

\* No credential holds a newline: take_line would cut it.
ASSUME RedactionAssumption ==
    /\ Newline \in Bytes /\ Marker \notin Bytes
    /\ Secrets \in Seq(Seq(Bytes \ {Newline}))
    /\ ChunkBytes \in Nat /\ MaxWritten \in Nat /\ MaxWrite \in Nat

VARIABLES
    written,   \* the bytes the process wrote on each stream
    held,      \* the buffers stdout and stderr
    queued,    \* the events of queue_exit
    emitted,   \* the bytes next_event returned for each stream
    exited     \* "running", "queued" or "reported"

redactionVars == <<written, held, queued, emitted, exited>>

-----------------------------------------------------------------------------
\* The scan for one secret: a match is replaced and skipped.
ReplaceSecret(value, secret) ==
    LET n == Len(secret)
        rest[i \in 1..Len(value) + 1] ==
            CASE i > Len(value) -> <<>>
              [] i + n - 1 <= Len(value) /\ SubSeq(value, i, i + n - 1) = secret
                   -> <<Marker>> \o rest[i + n]
              [] OTHER -> <<value[i]>> \o rest[i + 1]
    IN IF n = 0 THEN value ELSE rest[1]

\* One secret after the other.
redact_bytes(value) ==
    LET after[k \in 0..Len(Secrets)] ==
            IF k = 0 THEN value ELSE ReplaceSecret(after[k - 1], Secrets[k])
    IN after[Len(Secrets)]

LongestSecret == Max({0} \cup { Len(Secrets[i]) : i \in DOMAIN Secrets })

HasLine(s) == \E i \in DOMAIN held[s] : held[s][i] = Newline

HasChunk(s) == Len(held[s]) > ChunkBytes

\* Mutant: the whole buffer leaves.
RetainNothing == 0

\* The bytes a bounded chunk holds back.
Retained == IF LongestSecret = 0 THEN 0 ELSE LongestSecret - 1

RedactionInit ==
    /\ written = [s \in Streams |-> <<>>] /\ held = [s \in Streams |-> <<>>]
    /\ emitted = [s \in Streams |-> <<>>]
    /\ queued = <<>> /\ exited = "running"

Emit(s, bytes) == emitted' = [emitted EXCEPT ![s] = @ \o bytes]

\* next_event tries, in this order: the queue, a line of stdout, a line of
\* stderr, a chunk of stdout, a chunk of stderr; then it reads the process.
Before(s, Has(_)) == s = "stderr" => ~Has("stdout")

take_line(s) ==
    /\ queued = <<>> /\ HasLine(s) /\ Before(s, HasLine)
    /\ LET end == CHOOSE i \in DOMAIN held[s] :
                    held[s][i] = Newline /\ \A j \in 1..i - 1 : held[s][j] /= Newline
       IN /\ Emit(s, redact_bytes(SubSeq(held[s], 1, end)))
          /\ held' = [held EXCEPT ![s] = SubSeq(@, end + 1, Len(@))]
    /\ UNCHANGED <<written, queued, exited>>

NoLine == \A s \in Streams : ~HasLine(s)

take_bounded_chunk(s) ==
    /\ queued = <<>> /\ NoLine /\ HasChunk(s) /\ Before(s, HasChunk)
    /\ LET n == IF Len(held[s]) > Retained THEN Len(held[s]) - Retained ELSE 0 IN
       /\ Emit(s, SubSeq(held[s], 1, n))
       /\ held' = [held EXCEPT ![s] = SubSeq(@, n + 1, Len(@))]
    /\ UNCHANGED <<written, queued, exited>>

ReadsProcess == queued = <<>> /\ NoLine /\ \A s \in Streams : ~HasChunk(s)

append_redacted(s, bytes) == held' = [held EXCEPT ![s] = redact_bytes(@ \o bytes)]

ReadOutput(s) ==
    /\ exited = "running" /\ ReadsProcess
    /\ \E bytes \in BoundedSeq(Bytes, MaxWrite) \ {<<>>} :
        /\ Len(written[s]) + Len(bytes) <= MaxWritten
        /\ written' = [written EXCEPT ![s] = @ \o bytes]
        /\ append_redacted(s, bytes)
    /\ UNCHANGED <<queued, emitted, exited>>

Flush(s) ==
    IF held[s] = <<>> THEN <<>> ELSE <<[stream |-> s, bytes |-> redact_bytes(held[s])]>>

\* The process exited: both buffers, then the exit itself.
queue_exit ==
    /\ exited = "running" /\ ReadsProcess
    /\ queued' = Flush("stdout") \o Flush("stderr")
    /\ held' = [s \in Streams |-> <<>>]
    /\ exited' = "queued"
    /\ UNCHANGED <<written, emitted>>

PopQueued ==
    /\ exited = "queued"
    /\ IF queued = <<>>
       THEN exited' = "reported" /\ UNCHANGED <<emitted, queued>>
       ELSE /\ Emit(queued[1].stream, queued[1].bytes)
            /\ queued' = Tail(queued)
            /\ UNCHANGED exited
    /\ UNCHANGED <<written, held>>

RedactionNext ==
    \/ \E s \in Streams : take_line(s) \/ take_bounded_chunk(s) \/ ReadOutput(s)
    \/ queue_exit
    \/ PopQueued

RedactionSpec == RedactionInit /\ [][RedactionNext]_redactionVars

-----------------------------------------------------------------------------
\* What the process can still owe a reader is in one of two places.
RedactionTypeOK ==
    /\ \A s \in Streams :
        /\ written[s] \in Seq(Bytes)
        /\ held[s] \in Seq(Bytes \cup {Marker}) /\ emitted[s] \in Seq(Bytes \cup {Marker})
        /\ Len(held[s]) <= ChunkBytes + MaxWrite
    /\ exited \in {"running", "queued", "reported"}
    /\ exited = "running" => queued = <<>>

\* Whatever the sizes of the reads and of the chunks, the concatenation of
\* what next_event returns for a stream never spells a secret.
EmittedHidesSecrets ==
    \A s \in Streams, i \in DOMAIN Secrets :
        Secrets[i] /= <<>> =>
        \A from \in DOMAIN emitted[s] :
            from + Len(Secrets[i]) - 1 <= Len(emitted[s]) =>
                SubSeq(emitted[s], from, from + Len(Secrets[i]) - 1) /= Secrets[i]

\* What a redacted sequence may stand for: a marker stands for a secret.
StandsFor(b) == IF b = Marker THEN ToSet(Secrets) ELSE {<<b>>}
Continued(texts, b) == { pair[1] \o pair[2] : pair \in texts \X StandsFor(b) }
Readings(value) ==
    LET upto[i \in 0..Len(value)] ==
            IF i = 0 THEN {<<>>} ELSE Continued(upto[i - 1], value[i])
    IN upto[Len(value)]

\* Redaction loses nothing else: when the exit is reported, every byte the
\* process wrote has left, in its place, as itself or inside a marker.
OutputIsComplete ==
    exited = "reported" => \A s \in Streams : written[s] \in Readings(emitted[s])

\* However output is cut, no secret leaves and nothing else is lost.
RedactionSafety == RedactionTypeOK /\ EmittedHidesSecrets /\ OutputIsComplete
=============================================================================
