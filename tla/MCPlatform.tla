----------------------------- MODULE MCPlatform -----------------------------
(***************************************************************************)
(* What surrounds the games, for TLC: capabilities, the start of the       *)
(* server, game creation, allowances and the framing of events.  The parts *)
(* share no state, so a behaviour runs one of them, chosen at the start.   *)
(***************************************************************************)
EXTENDS Capabilities, Startup, GameCreation, PreviewAllowance, TokenBucketUse, SseFraming

CONSTANTS
    Parts,   \* the parts a run checks
    MaxLines,   \* bound: lines the server sends
    i1, i2, i3, c1, c2, c3, c4

VARIABLE part

mcVars == <<part, vars, startupVars, creationVars, previewVars, bucketVars, framingVars>>

-----------------------------------------------------------------------------
(* Capabilities *)

Issue(game, role, scopes, run) ==
    [game |-> game, role |-> role, scopes |-> scopes, expires |-> 1, run |-> run]

\* A seat run by an agent, the administrator of another game, and a request for
\* a scope that the role does not allow.
MCRequests == {Issue("g", "seat", {"act"}, "run"),
               Issue("h", "administrator", {"observe_administrator"}, None),
               Issue("g", "public", {"act"}, None)}
MCTokens == [id: Ids, genuine: {TRUE}] \cup [id: {i1}, genuine: {FALSE}]
MCQuestions == {[game |-> "g", scope |-> "act"],
                [game |-> "h", scope |-> "observe_administrator"]}

\* Calls occur in the state of the capabilities only, and are interchangeable.
Symmetry == Permutations(Calls)

(* The tables a seat owns, in the order migration 14 rebuilds them. *)
MCSeatTables == <<"budget", "runs">>
MCIndexed == <<"runs">>

(* What the server sends: lines all ended alike, or ended each in its way, and *)
(* perhaps a line that has no end.                                             *)
TextOf(lines) == FoldLeft(LAMBDA text, line : text \o line, <<>>, lines)
Ended(contents, end) == {line \o end : line \in contents}
Texts(lines, tails) ==
    {TextOf(ls) \o tail : ls \in BoundedSeq(lines, MaxLines), tail \in tails}
MCSseInputs ==
    LET all == {<<"d", "x">>, <<"d", "u", "v">>, <<"d", "z">>, <<"x">>, <<>>}
        few == {<<"d", "x">>, <<>>}
        bare == {<<"d", "x">>, <<"d">>, <<>>}
    IN Texts(Ended(all, <<"n">>), {<<>>}) \cup Texts(Ended(all, <<"r", "n">>), {<<>>})
       \cup Texts(Ended(bare, <<"n">>), {<<>>})
       \cup {text \in Texts(Ended(few, <<"n">>) \cup Ended(few, <<"r", "n">>), {<<>>, <<"d", "x">>}) :
                WellFormed(text)}

-----------------------------------------------------------------------------
\* A part that is not run starts in one state.
MCInit ==
    /\ part \in Parts
    /\ Init /\ StartupInit /\ CreationInit /\ PreviewInit
    /\ part /= "startup" => suRows
    /\ IF part = "bucket" THEN BucketInit
       ELSE /\ policy = [capacity |-> 1, refill_tokens |-> 1, refill_interval_ms |-> 1]
            /\ bucket = FullBucket(policy, BucketHorizon) /\ drawn = <<>>
    /\ IF part = "framing" THEN FramingInit
       ELSE /\ ssKind = "stream" /\ ssInput = <<>> /\ ssSeen = <<>> /\ ssPending = <<>>
            /\ ssClosed = FALSE /\ ssBatch = <<>> /\ ssEvents = <<>>
            /\ ssStep = "done" /\ ssError = "none"

MCNext ==
    /\ UNCHANGED part
    /\ \/ /\ part = "capabilities" /\ Next
          /\ UNCHANGED <<startupVars, creationVars, previewVars, bucketVars, framingVars>>
       \/ /\ part = "startup" /\ StartupNext
          /\ UNCHANGED <<vars, creationVars, previewVars, bucketVars, framingVars>>
       \/ /\ part = "creation" /\ CreationNext
          /\ UNCHANGED <<vars, startupVars, previewVars, bucketVars, framingVars>>
       \/ /\ part = "previews" /\ PreviewNext
          /\ UNCHANGED <<vars, startupVars, creationVars, bucketVars, framingVars>>
       \/ /\ part = "bucket" /\ BucketNext
          /\ UNCHANGED <<vars, startupVars, creationVars, previewVars, framingVars>>
       \/ /\ part = "framing" /\ FramingNext
          /\ UNCHANGED <<vars, startupVars, creationVars, previewVars, bucketVars>>

MCSpec == MCInit /\ [][MCNext]_mcVars
=============================================================================
