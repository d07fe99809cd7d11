---------------------------- MODULE ExportStream ----------------------------
(***************************************************************************)
(* Exports: an envelope binds a record to an audience with a checksum, and *)
(* a JSONL stream takes verified envelopes in order, within limits, to a   *)
(* writer that may fail.  A checksum is the content it was taken of; a     *)
(* record is its family, identity, length in bytes and what it holds.      *)
(***************************************************************************)
EXTENDS Integers, Sequences, FiniteSets, SequencesExt

CONSTANTS
    ExportFamilies,  \* the families in the model
    RecordIds,       \* identities within a family, as numbers in sort order
    RecordSizes,     \* encoded lengths, without the newline
    MaxRecordBytes, MaxTotalBytes

ASSUME ExportAssumption ==
    /\ MaxRecordBytes \in Nat \ {0} /\ MaxTotalBytes \in Nat \ {0}
    /\ RecordIds \subseteq Nat /\ RecordSizes \subseteq Nat

VARIABLES
    exExporter,   \* JsonlExporter: [total, count, last, digest]
    exStream,     \* what the writer received, in chunks
    exFailed,     \* ghost: the writer has failed
    exSummary     \* ExportSummary, or the empty function before finish

exportVars == <<exExporter, exStream, exFailed, exSummary>>

Audiences == {"public", "operator"}
\* The families in the order of their sort keys.
Families == <<"public_replay", "operator_replay", "tournament_result", "standings",
              "ratings", "public_analytics", "operator_analytics">>
OperatorOnly == {"operator_replay", "operator_analytics"}
FamilyNumber(f) == CHOOSE i \in DOMAIN Families : Families[i] = f

\* content: complete, torn (a replay without a result, unsorted rows) or
\* private (a forbidden key or a credential somewhere inside).
Records == [family: ExportFamilies, id: RecordIds, size: RecordSizes,
            content: {"complete", "torn", "private"}]

\* record_sort_key: family, then identity.
KeyBefore(r, s) ==
    \/ FamilyNumber(r.family) < FamilyNumber(s.family)
    \/ FamilyNumber(r.family) = FamilyNumber(s.family) /\ r.id < s.id

\* record_content_type
ContentType(r, audience) ==
    CASE r.family \in {"public_replay", "operator_replay"} -> <<audience, "replay">>
      [] r.family \in {"public_analytics", "operator_analytics"} -> <<audience, "analytics">>
      [] OTHER -> <<"any", r.family>>

-----------------------------------------------------------------------------
\* validate_record, by what each family checks of its content.
validate_record(r) == r.content /= "torn"

validate_audience(r, audience) == audience = "public" => r.family \notin OperatorOnly

\* validate_public_value
PublicValue(r) == r.content /= "private"

Content(r, audience) == [type |-> ContentType(r, audience), audience |-> audience, record |-> r]

\* ExportEnvelope::verify
verify(e) ==
    /\ validate_record(e.record) /\ validate_audience(e.record, e.audience)
    /\ e.type = ContentType(e.record, e.audience)
    /\ e.checksum = Content(e.record, e.audience)
    /\ (e.audience = "public" => PublicValue(e.record))

\* ExportEnvelope::new, then perhaps a changed record on the way.
Envelope(r, audience, carried) ==
    [type |-> ContentType(carried, audience), audience |-> audience, record |-> carried,
     checksum |-> Content(r, audience)]

CanBuild(r, audience) ==
    verify([type |-> ContentType(r, audience), audience |-> audience, record |-> r,
            checksum |-> Content(r, audience)])

-----------------------------------------------------------------------------

AfterLast(r) == \A l \in exExporter.last : KeyBefore(l, r)

\* The limit of a record does not count its newline, that of the stream does.
Fits(r) == r.size <= MaxRecordBytes /\ exExporter.total + r.size + 1 <= MaxTotalBytes

\* Mutant: the newline is not counted.
WriteUncounted(e) ==
    /\ exSummary = << >>
    /\ verify(e) /\ AfterLast(e.record) /\ Fits(e.record)
    /\ exStream' = Append(exStream, [envelope |-> e, bytes |-> e.record.size + 1])
    /\ exExporter' = [total |-> exExporter.total + e.record.size,
                      count |-> exExporter.count + 1, last |-> {e.record},
                      digest |-> exStream']
    /\ UNCHANGED <<exFailed, exSummary>>

\* JsonlExporter::write, accepted.
WriteAccepted(e) ==
    /\ exSummary = << >>
    /\ verify(e) /\ AfterLast(e.record) /\ Fits(e.record)
    /\ exStream' = Append(exStream, [envelope |-> e, bytes |-> e.record.size + 1])
    /\ exExporter' = [total |-> exExporter.total + e.record.size + 1,
                      count |-> exExporter.count + 1, last |-> {e.record},
                      digest |-> exStream']
    /\ UNCHANGED <<exFailed, exSummary>>

\* write_all fails: part of the line may be out, the exporter keeps its state.
WriteFails(e) ==
    /\ exSummary = << >> /\ ~exFailed
    /\ verify(e) /\ AfterLast(e.record) /\ Fits(e.record)
    /\ exStream' \in {exStream, Append(exStream, [envelope |-> e, bytes |-> e.record.size])}
    /\ exFailed' = TRUE /\ UNCHANGED <<exExporter, exSummary>>

\* Any refusal returns before the writer is touched.
WriteRefused(e) ==
    /\ exSummary = << >>
    /\ ~(verify(e) /\ AfterLast(e.record) /\ Fits(e.record))
    /\ UNCHANGED exportVars

\* finish: flush and summary.
finish ==
    /\ exSummary = << >>
    /\ exSummary' = [record_count |-> exExporter.count, byte_count |-> exExporter.total,
                     checksum |-> exExporter.digest]
    /\ UNCHANGED <<exExporter, exStream, exFailed>>

ExportInit ==
    /\ exExporter = [total |-> 0, count |-> 0, last |-> {}, digest |-> <<>>]
    /\ exStream = <<>> /\ exFailed = FALSE /\ exSummary = << >>

ExportNext ==
    \/ \E r \in Records, audience \in Audiences :
        /\ CanBuild(r, audience)
        /\ \E carried \in {r, [r EXCEPT !.content = "private"]} :
           LET e == Envelope(r, audience, carried)
           IN WriteAccepted(e) \/ WriteFails(e) \/ WriteRefused(e)
    \/ finish

ExportSpec == ExportInit /\ [][ExportNext]_exportVars

-----------------------------------------------------------------------------
\* Counters and chunks are in range.
ExportTypeOK ==
    /\ exExporter.total \in 0..MaxTotalBytes /\ exExporter.count \in 0..Len(exStream)
    /\ \A i \in DOMAIN exStream : exStream[i].envelope.record \in Records

\* The bytes of the chunks of a stream, added up from the first to the last.
StreamBytes(stream, bytes) ==
    \E total \in [0..Len(stream) -> 0..MaxTotalBytes] :
        /\ total[0] = 0 /\ total[Len(stream)] = bytes
        /\ \A i \in 1..Len(stream) : total[i] = total[i - 1] + stream[i].bytes

\* The summary describes the stream byte for byte unless the writer failed:
\* what was refused left nothing behind.
SummaryIsTheStream ==
    (exSummary /= << >> /\ ~exFailed) =>
        /\ exSummary.record_count = Len(exStream) /\ StreamBytes(exStream, exSummary.byte_count)
        /\ exSummary.checksum = exStream

\* Records come in strictly increasing key order, so no record twice, as
\* long as the writer has not failed.
StreamIsOrdered ==
    ~exFailed => \A i \in 1..Len(exStream) - 1 :
        KeyBefore(exStream[i].envelope.record, exStream[i + 1].envelope.record)

\* Nothing reaches the writer that was changed after it was sealed, and
\* nothing private reaches it under the public audience.
StreamIsAuthentic ==
    \A i \in DOMAIN exStream :
        LET e == exStream[i].envelope IN
        /\ e.checksum.record = e.record
        /\ e.audience = "public" => e.record.content = "complete" /\ e.record.family \notin OperatorOnly

\* The stream stays within its limits, ordered, authentic, and described by
\* its summary, over refused records and a failing writer.
ExportSafety == ExportTypeOK /\ SummaryIsTheStream /\ StreamIsOrdered /\ StreamIsAuthentic
=============================================================================
