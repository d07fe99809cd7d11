----------------------------- MODULE MCRecords -----------------------------
(***************************************************************************)
(* The lexicon packs, the referee and what is kept of finished games, for  *)
(* TLC: the parts share no state, so a behaviour runs one of them, chosen  *)
(* at the start.                                                           *)
(***************************************************************************)
EXTENDS PackInstall, EngineGame, TournamentSchedule, TournamentStore, RatingStore, StatisticsStore,
        ExportStream

CONSTANT Parts   \* the parts a run checks

VARIABLE part

mcVars == <<part, packVars, engineVars, tournamentVars, storeVars, ratingVars, statisticsVars, exportVars>>

-----------------------------------------------------------------------------
(* One process installs two versions of a pack, the other one of them. *)
MCPackRequests == "p1" :> {<<"v2", "v1">>} @@ "p2" :> {<<"v1">>}

(* A three by three board, six tiles with a blank. *)
MCFace == <<"a", "a", "b", "b", "a", "blank">>
MCLetterValue == [a |-> 1, b |-> 3]
MCPremiumAt ==
    (<<2, 2>> :> "double_word") @@ (<<1, 1>> :> "triple_word")
        @@ (<<2, 1>> :> "double_letter") @@ (<<3, 2>> :> "triple_letter")
MCDictionary == { <<"a", "b">>, <<"b", "a">>, <<"a", "a">>, <<"a", "b", "a">> }

\* Round robins of two to seven with too few, enough and too many seeds.
MCStatic ==
    { [s EXCEPT !.seeds = @ + s.cycles * s.games * ((s.n * (s.n - 1)) \div 2)] :
        s \in [kind: {"static"}, n: 2..7, cycles: 1..2, games: 1..2, profiles: {2}, seeds: {-1, 0, 1}] }
\* Swiss with an even and an odd field, up to the point where rematches or
\* second byes are forced.
MCSwiss ==
    LET policies == {"avoid", "allow_when_required"}
    IN [kind: {"swiss"}, n: {3, 4}, rounds: {4}, games: {1, 2}, profiles: {2}, seeds: {3, 24}, rematches: policies]
       \cup [kind: {"swiss"}, n: {5}, rounds: {3}, games: {1}, profiles: {2}, seeds: {24}, rematches: policies]

MCRatedMatches == [m1 |-> [one |-> "e1", two |-> "e2", score |-> 2]]

\* A rating that every part of the results has a say in.
MCRatingAfter(rating, results) ==
    (rating + 1 + MapThenSumSet(LAMBDA m : results[m].rating + results[m].score, DOMAIN results))
        % RatingRange

MCLogs ==
    LET ev(k, s, n, r) == [kind |-> k, seat |-> s, score |-> n, result |-> r]
        res(why, a, b, w) == [reason |-> why, scores |-> <<a, b>>, winner |-> w]
    IN { << ev("resigned", 1, 0, res("resignation", 0, 0, 2)) >>,
         << ev("passed", 1, 0, NoResult), ev("exchanged", 2, 0, res("scoreless", 1, 1, 0)) >>,
         << ev("played", 1, 3, NoResult), ev("played", 2, 5, res("rack_emptied", 3, 5, 2)) >>,
         << ev("passed", 1, 0, res("scoreless", 2, 1, 2)) >>,
         << ev("passed", 1, 0, NoResult) >> }
MCMetrics == { Unavailable, [availability |-> "exact", value |-> 6],
               [availability |-> "estimated", value |-> 1] }
MCIdLength == <<3, 4>>
MCLongIdLength == <<3, 5>>

-----------------------------------------------------------------------------
MCInit ==
    /\ part \in Parts
    /\ EngineInit /\ StoreInit /\ RatingInit /\ StatisticsInit /\ ExportInit
    /\ IF part = "schedule" THEN TournamentInit
       ELSE /\ tnSpec = [kind |-> "static", n |-> 2, cycles |-> 1, games |-> 1, profiles |-> 1,
                         seeds |-> 1]
            /\ tnProgress = NewProgress(2) /\ tnMatches = <<>> /\ tnByes = {} /\ tnOutcome = "none"
    /\ part /= "engine" => seed = 0
    /\ PackInit /\ pkMisbuilt \in {{}, {"v1"}}
    /\ part /= "packs" => pkMisbuilt = {}

MCNext ==
    /\ UNCHANGED part
    /\ \/ /\ part = "packs" /\ PackNext
          /\ UNCHANGED <<engineVars, tournamentVars, storeVars, ratingVars, statisticsVars, exportVars>>
       \/ /\ part = "engine" /\ EngineNext
          /\ UNCHANGED <<packVars, tournamentVars, storeVars, ratingVars, statisticsVars, exportVars>>
       \/ /\ part = "schedule" /\ TournamentNext
          /\ UNCHANGED <<packVars, engineVars, storeVars, ratingVars, statisticsVars, exportVars>>
       \/ /\ part = "store" /\ StoreNext
          /\ UNCHANGED <<packVars, engineVars, tournamentVars, ratingVars, statisticsVars, exportVars>>
       \/ /\ part = "ratings" /\ RatingNext
          /\ UNCHANGED <<packVars, engineVars, tournamentVars, storeVars, statisticsVars, exportVars>>
       \/ /\ part = "statistics" /\ StatisticsNext
          /\ UNCHANGED <<packVars, engineVars, tournamentVars, storeVars, ratingVars, exportVars>>
       \/ /\ part = "exports" /\ ExportNext
          /\ UNCHANGED <<packVars, engineVars, tournamentVars, storeVars, ratingVars, statisticsVars>>

MCSpec == MCInit /\ [][MCNext]_mcVars
=============================================================================
