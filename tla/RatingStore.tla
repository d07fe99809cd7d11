---------------------------- MODULE RatingStore ----------------------------
(***************************************************************************)
(* Rating periods of one or more pools: a period is validated against its  *)
(* own matches, committed after a look for an earlier copy, and the pool   *)
(* is rebuilt from its periods.  A rating is a number; the Glicko-2        *)
(* arithmetic is a fixed function of a rating and its results.             *)
(***************************************************************************)
EXTENDS Integers, Sequences, FiniteSets, SequencesExt, FiniteSetsExt

CONSTANTS
    RatingPools,
    PeriodIds,
    RatedMatches,    \* id -> [one, two, score]: the entrants and what one scored, 0..2
    Raters,          \* callers of the repository
    RatingRange,     \* the ratings, 0..RatingRange - 1
    RatingAfter(_, _),  \* the rating that a rating and the results of a period lead to
    LastPeriod       \* bound: the last sequence number

SCORE_SCALE == 2
RatedEntrants == UNION { {RatedMatches[m].one, RatedMatches[m].two} : m \in DOMAIN RatedMatches }

RatingValues == 0..RatingRange - 1
PeriodResults ==
    UNION { [ms -> [rating: RatingValues, score: 0..SCORE_SCALE]] : ms \in SUBSET DOMAIN RatedMatches }

ASSUME RatingAssumption ==
    /\ RatingRange \in Nat \ {0} /\ LastPeriod \in Nat
    /\ \A m \in DOMAIN RatedMatches : RatedMatches[m].one /= RatedMatches[m].two
                                      /\ RatedMatches[m].score \in 0..SCORE_SCALE
    /\ \A rating \in RatingValues : \A results \in PeriodResults : RatingAfter(rating, results) \in RatingValues

VARIABLES
    rtPeriods,   \* pool -> committed periods in sequence
    rtRows,      \* period -> its normalised rows: matches, inputs and updates
    rtCurrent,   \* pool -> current_ratings: entrant -> rating
    rtOps        \* per caller, the call under way

ratingVars == <<rtPeriods, rtRows, rtCurrent, rtOps>>

-----------------------------------------------------------------------------
\* What a period says of one entrant: the opponents' ratings before the
\* period and the own scores, as a bag by match.
Results(matches, previous, e) ==
    [m \in { x \in matches : e \in {RatedMatches[x].one, RatedMatches[x].two} } |->
        IF e = RatedMatches[m].one
        THEN [rating |-> previous[RatedMatches[m].two], score |-> RatedMatches[m].score]
        ELSE [rating |-> previous[RatedMatches[m].one], score |-> SCORE_SCALE - RatedMatches[m].score]]

\* update_rating, as some function of the rating and the results.
update_rating(rating, results) == RatingAfter(rating, results)

\* validate: the opponents of the updates are those of the matches, and
\* every player of a match has an update.
ValidPeriod(p) ==
    /\ DOMAIN p.previous /= {}
    /\ \A m \in p.matches : {RatedMatches[m].one, RatedMatches[m].two} \subseteq DOMAIN p.previous
    /\ \A e \in DOMAIN p.previous : p.opponents[e] = Results(p.matches, p.previous, e)

derive(p) == [e \in DOMAIN p.previous |-> update_rating(p.previous[e], p.opponents[e])]

\* The rows insert_matches and insert_updates write next to the period.
NormalizedRows(p) ==
    [matches |-> { [id |-> m, pool |-> p.pool, game |-> RatedMatches[m]] : m \in p.matches },
     inputs |-> [e \in DOMAIN p.previous |-> [previous |-> p.previous[e], opponents |-> p.opponents[e]]],
     updates |-> [e \in DOMAIN p.previous |->
                    [pool |-> p.pool, sequence |-> p.sequence, rating |-> derive(p)[e]]]]

\* BTreeMap::extend, or rows that are inserted or replaced by their key.
Extended(map, by) == [x \in DOMAIN map \cup DOMAIN by |-> IF x \in DOMAIN by THEN by[x] ELSE map[x]]
NoRows == [x \in {} |-> 0]

\* The ratings a sequence of periods leads to: each period extends them, so
\* an entrant has the rating of the last period that rates it.
RatedIn(periods, e) == { k \in DOMAIN periods : e \in DOMAIN periods[k].previous }
Rebuilt(periods) ==
    [e \in UNION { DOMAIN periods[k].previous : k \in DOMAIN periods } |->
        derive(periods[Max(RatedIn(periods, e))])[e]]

\* The previous-rating chain that rebuild_pool checks.
Chained(periods) ==
    \A k \in DOMAIN periods :
        LET before == Rebuilt(SubSeq(periods, 1, k - 1)) IN
        \A e \in DOMAIN periods[k].previous \cap DOMAIN before :
            periods[k].previous[e] = before[e]

\* validate_normalized_rows
NormalizedRowsAgree(p) == rtRows[p.id] = NormalizedRows(p)

AllPeriods == UNION { ToSet(rtPeriods[p]) : p \in RatingPools }
RatingIdle == [kind |-> "idle"]
RatingDone(result) == [kind |-> "done", result |-> result]

-----------------------------------------------------------------------------

SamePeriod(p, existing) == p = existing

\* commit_period up to its transaction: load_period looks for the identifier.
CommitLoad(c, p) ==
    LET existing == { q \in AllPeriods : q.id = p.id } IN
    /\ rtOps[c] = RatingIdle
    /\ rtOps' = [rtOps EXCEPT ![c] =
            IF ~ValidPeriod(p) THEN RatingDone("corrupt")
            ELSE IF existing = {} THEN [kind |-> "commit", period |-> p]
            ELSE IF \A q \in existing : SamePeriod(p, q)
            THEN [kind |-> "done", result |-> "already_applied", period |-> p]
            ELSE RatingDone("conflict")]
    /\ UNCHANGED <<rtPeriods, rtRows, rtCurrent>>

validate_sequence(p) == p.sequence = Len(rtPeriods[p.pool])

\* Mutant: whatever rating the caller believes in is taken.
AnyPrevious(p) == TRUE

\* validate_previous
PreviousIsCurrent(p) ==
    \A e \in DOMAIN p.previous \cap DOMAIN rtCurrent[p.pool] : p.previous[e] = rtCurrent[p.pool][e]

\* The rows an insert collides with: the period, and a match of the pool.
Collisions(p) ==
    { q \in AllPeriods : q.id = p.id \/ (q.pool = p.pool /\ q.matches \cap p.matches /= {}) }

\* The transaction: period, matches, inputs, updates and current ratings.
\* A writer that overlaps another is refused as unavailable.
CommitTransaction(c) ==
    LET p == rtOps[c].period IN
    /\ rtOps[c].kind = "commit"
    /\ \/ /\ rtOps' = [rtOps EXCEPT ![c] = RatingDone("unavailable")]
          /\ UNCHANGED <<rtPeriods, rtRows, rtCurrent>>
       \/ /\ ~(validate_sequence(p) /\ PreviousIsCurrent(p) /\ Collisions(p) = {})
          /\ rtOps' = [rtOps EXCEPT ![c] = RatingDone("conflict")]
          /\ UNCHANGED <<rtPeriods, rtRows, rtCurrent>>
       \/ /\ validate_sequence(p) /\ PreviousIsCurrent(p) /\ Collisions(p) = {}
          /\ rtPeriods' = [rtPeriods EXCEPT ![p.pool] = Append(@, p)]
          /\ rtRows' = Extended(rtRows, [id \in {p.id} |-> NormalizedRows(p)])
          /\ rtCurrent' = [rtCurrent EXCEPT ![p.pool] = Extended(@, derive(p))]
          /\ rtOps' = [rtOps EXCEPT ![c] = [kind |-> "done", result |-> "applied", period |-> p]]

\* rebuild_pool: the periods and their rows in one go (a committed period
\* never changes), then the current ratings in a statement of their own.
RebuildPeriods(c, pool) ==
    /\ rtOps[c] = RatingIdle
    /\ rtOps' = [rtOps EXCEPT ![c] =
            IF /\ Chained(rtPeriods[pool])
               /\ \A k \in DOMAIN rtPeriods[pool] : NormalizedRowsAgree(rtPeriods[pool][k])
            THEN [kind |-> "rebuild", pool |-> pool, periods |-> rtPeriods[pool]]
            ELSE RatingDone("corrupt")]
    /\ UNCHANGED <<rtPeriods, rtRows, rtCurrent>>

\* validate_current_rows
RebuildCompare(c) ==
    LET op == rtOps[c] IN
    /\ op.kind = "rebuild"
    /\ rtOps' = [rtOps EXCEPT ![c] =
            [kind |-> "done", op |-> op, seen |-> rtCurrent[op.pool],
             result |-> IF rtCurrent[op.pool] = Rebuilt(op.periods)
                        THEN "rebuilt" ELSE "rebuild_corrupt"]]
    /\ UNCHANGED <<rtPeriods, rtRows, rtCurrent>>

RatingReturn(c) ==
    /\ rtOps[c].kind = "done"
    /\ rtOps' = [rtOps EXCEPT ![c] = RatingIdle]
    /\ UNCHANGED <<rtPeriods, rtRows, rtCurrent>>

\* A period a caller may send: right, or with a rating taken from elsewhere.
Period(id, pool, sequence, matches, previous) ==
    [id |-> id, pool |-> pool, sequence |-> sequence, matches |-> matches,
     previous |-> previous,
     opponents |-> [e \in DOMAIN previous |->
         IF \A m \in matches : {RatedMatches[m].one, RatedMatches[m].two} \subseteq DOMAIN previous
         THEN Results(matches, previous, e) ELSE << >>]]

RatingInit ==
    /\ rtPeriods = [p \in RatingPools |-> <<>>]
    /\ rtRows = NoRows
    /\ rtCurrent = [p \in RatingPools |-> NoRows]
    /\ rtOps = [c \in Raters |-> RatingIdle]

RatingNext ==
    \E c \in Raters :
        \/ \E id \in PeriodIds, pool \in RatingPools, sequence \in 0..LastPeriod,
             matches \in SUBSET DOMAIN RatedMatches,
             previous \in UNION { [es -> RatingValues] : es \in SUBSET RatedEntrants } :
                /\ \A e \in DOMAIN previous :
                    previous[e] \in {0} \cup { rtCurrent[pool][f] : f \in DOMAIN rtCurrent[pool] }
                /\ CommitLoad(c, Period(id, pool, sequence, matches, previous))
        \/ CommitTransaction(c)
        \/ \E pool \in RatingPools : RebuildPeriods(c, pool)
        \/ RebuildCompare(c) \/ RatingReturn(c)

RatingSpec == RatingInit /\ [][RatingNext]_ratingVars

-----------------------------------------------------------------------------
\* Ratings are in range, periods are numbered from zero without a gap, calls
\* are in a known state.
RatingTypeOK ==
    /\ \A p \in RatingPools : /\ \A e \in DOMAIN rtCurrent[p] : rtCurrent[p][e] \in RatingValues
                              /\ \A k \in DOMAIN rtPeriods[p] : rtPeriods[p][k].sequence = k - 1
    /\ \A c \in Raters : rtOps[c].kind \in {"idle", "commit", "rebuild", "done"}

\* The current ratings and the normalised rows are projections of the
\* periods, whose chain of previous ratings has no break.
CurrentIsRebuilt ==
    \A p \in RatingPools :
        /\ rtCurrent[p] = Rebuilt(rtPeriods[p]) /\ Chained(rtPeriods[p])
        /\ \A k \in DOMAIN rtPeriods[p] : NormalizedRowsAgree(rtPeriods[p][k])

\* A game is rated at most once in a pool.
RatedOnce ==
    \A p \in RatingPools : \A j, k \in DOMAIN rtPeriods[p] :
        j /= k => rtPeriods[p][j].matches \cap rtPeriods[p][k].matches = {}

\* A caller told that a period is applied, now or earlier, can rely on it:
\* the very period it sent is in the history.
AppliedIsInHistory ==
    \A c \in Raters :
        (rtOps[c].kind = "done" /\ rtOps[c].result \in {"applied", "already_applied"}) =>
            rtOps[c].period \in AllPeriods

\* A rebuild answers with ratings the pool really had; it calls the history
\* corrupt only when a commit fell between its two reads.
RebuildIsOneMoment ==
    \A c \in Raters : rtOps[c].kind = "done" =>
        /\ rtOps[c].result = "rebuilt" => Rebuilt(rtOps[c].op.periods) = rtOps[c].seen
        /\ rtOps[c].result = "rebuild_corrupt" =>
                rtOps[c].op.periods /= rtPeriods[rtOps[c].op.pool]

\* Periods that race: current ratings are what the history gives, no match is
\* rated twice, an applied period stays, a rebuild is of one moment.
RatingSafety ==
    RatingTypeOK /\ CurrentIsRebuilt /\ RatedOnce /\ AppliedIsInHistory /\ RebuildIsOneMoment
=============================================================================
