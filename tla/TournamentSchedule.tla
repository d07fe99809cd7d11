------------------------ MODULE TournamentSchedule ------------------------
(***************************************************************************)
(* Deterministic pairing.  Entrants are their ranks in seed order, 1..n.   *)
(* A static format yields its whole schedule at once; Swiss yields one     *)
(* round from the progress the organiser hands in, and the model plays the *)
(* rounds with arbitrary results.                                          *)
(***************************************************************************)
EXTENDS Integers, Sequences, FiniteSets, SequencesExt, FiniteSetsExt

CONSTANTS
    StaticSpecs,   \* specifications of the static formats
    SwissSpecs     \* and of Swiss ones; n is the number of entrants

\* TournamentSpec::validate
ASSUME ScheduleAssumption ==
    /\ StaticSpecs \subseteq [kind: {"static"}, n: Nat, cycles: Nat, games: Nat, profiles: Nat, seeds: Nat]
    /\ SwissSpecs \subseteq [kind: {"swiss"}, n: Nat, rounds: Nat, games: Nat, profiles: Nat, seeds: Nat,
                             rematches: {"avoid", "allow_when_required"}]
    /\ \A s \in StaticSpecs \cup SwissSpecs : s.n >= 2 /\ s.games > 0 /\ s.profiles > 0

VARIABLES
    tnSpec,      \* the specification, with its kind
    tnProgress,  \* SwissProgress
    tnMatches,   \* every match scheduled so far, in sequence
    tnByes,      \* every bye: [round, entrant]
    tnOutcome    \* "none", "scheduled" or the error

tournamentVars == <<tnSpec, tnProgress, tnMatches, tnByes, tnOutcome>>

Entrants(n) == 1..n
AbsDiff(a, b) == IF a >= b THEN a - b ELSE b - a
PairSet(a, b) == {a, b}

-----------------------------------------------------------------------------
(* Static rounds *)

\* The first slot stays, the last one moves behind it.
Rotate(slots) ==
    [i \in DOMAIN slots |-> IF i = 1 THEN slots[1] ELSE IF i = 2 THEN slots[Len(slots)] ELSE slots[i - 1]]

\* The slots of each round: everyone, and the empty one, 0, if that is odd.
SlotsOf(n) ==
    LET m == n + (n % 2)
        slots[r \in 1..m - 1] ==
            IF r = 1 THEN [i \in 1..m |-> IF i <= n THEN i ELSE 0] ELSE Rotate(slots[r - 1])
    IN slots

\* Slots face each other, the first the last; the table with the empty one is
\* no table, and who faces it rests.
PairingsOf(slots, n) ==
    LET m == Len(slots)
        facing == [t \in 1..m \div 2 |-> <<slots[t], slots[m + 1 - t]>>]
        empty == IF n % 2 = 0 THEN m ELSE CHOOSE t \in 1..m \div 2 : 0 \in ToSet(facing[t])
    IN [pairs |-> [t \in 1..n \div 2 |-> facing[IF t < empty THEN t ELSE t + 1]],
        bye |-> IF n % 2 = 0 THEN {} ELSE ToSet(facing[empty]) \ {0}]

circle_rounds(n) == [r \in DOMAIN SlotsOf(n) |-> PairingsOf(SlotsOf(n)[r], n)]

\* orient_static_round, for one pair; cycle counts from 0.
OrientPair(p, n, cycle) ==
    LET difference == (p[2] - p[1] + n) % n
        first == IF n % 2 = 0 /\ difference = n \div 2
                 THEN ((Min({p[1], p[2]}) - 1) % 2 = 0) = (p[1] < p[2])
                 ELSE difference <= n \div 2
    IN IF first /= (cycle % 2 = 1) THEN p ELSE <<p[2], p[1]>>

\* static_profile, from 0.
static_profile(p, n, cycle, profiles) ==
    LET direct == AbsDiff(p[1], p[2])
    IN (Min({direct, n - direct}) - 1 + cycle) % profiles

\* add_series: the games of a series alternate the seats.
add_series(round, table, base, profile, games) ==
    [g \in 1..games |->
        [round |-> round, table |-> table, game |-> g, profile |-> profile,
         one |-> IF g % 2 = 1 THEN base[1] ELSE base[2],
         two |-> IF g % 2 = 1 THEN base[2] ELSE base[1]]]

\* add_round: table by table, who has the first seat and the profile.
add_round(round, bases, profiles, games) ==
    FlattenSeq([t \in DOMAIN bases |-> add_series(round, t, bases[t], profiles[t], games)])

\* Every round of every cycle, in order.
StaticRounds(s) ==
    LET rounds == circle_rounds(s.n)
        perCycle == Len(rounds)
    IN [k \in 1..s.cycles * perCycle |->
            LET cycle == (k - 1) \div perCycle
                round == rounds[((k - 1) % perCycle) + 1]
                bases == [t \in DOMAIN round.pairs |-> OrientPair(round.pairs[t], s.n, cycle)]
                profiles == [t \in DOMAIN bases |-> static_profile(bases[t], s.n, cycle, s.profiles)]
            IN [matches |-> add_round(k, bases, profiles, s.games), bye |-> round.bye]]

\* TournamentSpec::schedule; finish wants every seed commitment used.
schedule ==
    LET rounds == StaticRounds(tnSpec)
        matches == FlattenSeq([k \in 1..Len(rounds) |-> rounds[k].matches])
    IN /\ tnSpec.kind = "static" /\ tnOutcome = "none"
       /\ IF Len(matches) = tnSpec.seeds
          THEN /\ tnOutcome' = "scheduled" /\ tnMatches' = matches
               /\ tnByes' = { b \in [round: DOMAIN rounds, entrant: Entrants(tnSpec.n)] :
                               b.entrant \in rounds[b.round].bye }
          ELSE /\ tnOutcome' = IF Len(matches) > tnSpec.seeds
                               THEN "missing_game_seeds" ELSE "extra_game_seeds"
               /\ UNCHANGED <<tnMatches, tnByes>>
       /\ UNCHANGED <<tnSpec, tnProgress>>

-----------------------------------------------------------------------------
(* Swiss rounds *)

NewProgress(n) ==
    [completed_rounds |-> 0, standing |-> [e \in Entrants(n) |-> 0],
     prior_pairings |-> {}, prior_byes |-> {},
     balance |-> [e \in Entrants(n) |-> <<0, 0>>]]

\* Best standing first, then seed.
Ahead(a, b, standing) ==
    standing[a] > standing[b] \/ (standing[a] = standing[b] /\ a < b)

\* The entrant with i - 1 others ahead is the i-th.
ordered_swiss_entrants(n, standing) ==
    [i \in 1..n |-> CHOOSE e \in Entrants(n) :
                        Cardinality({ f \in Entrants(n) : Ahead(f, e, standing) }) = i - 1]

\* choose_swiss_bye, for an odd number: the last one who had none yet.
choose_swiss_bye(ordered, prior) ==
    IF ToSet(ordered) \subseteq prior THEN Len(ordered)
    ELSE Max({ i \in 1..Len(ordered) : ordered[i] \notin prior })

\* In place of the pairs where there is no pairing.
NoPairing == <<0, 0>>

\* Mutant: the first free partner is taken, without going back on it.
PairGreedily(ordered, prior) ==
    LET pairing[s \in BoundedSeq(ToSet(ordered), Len(ordered))] ==
            IF s = <<>> THEN <<>>
            ELSE LET fresh == { i \in 2..Len(s) : PairSet(s[1], s[i]) \notin prior }
                 IN IF fresh = {} THEN <<NoPairing>>
                    ELSE LET i == Min(fresh)
                         IN << <<s[1], s[i]>> >> \o pairing[RemoveAt(Tail(s), i - 1)]
    IN pairing[ordered]

\* pair_without_rematches: depth first, a failed choice is undone.  The
\* result holds NoPairing where there is none.
pair_without_rematches(ordered, prior) ==
    LET pairing[s \in BoundedSeq(ToSet(ordered), Len(ordered))] ==
            IF s = <<>> THEN <<>>
            ELSE LET rest(i) == pairing[RemoveAt(Tail(s), i - 1)]
                     good == { i \in 2..Len(s) :
                                 PairSet(s[1], s[i]) \notin prior /\ NoPairing \notin ToSet(rest(i)) }
                 IN IF good = {} THEN <<NoPairing>>
                    ELSE LET i == Min(good) IN << <<s[1], s[i]>> >> \o rest(i)
    IN pairing[ordered]

\* swiss_pairs: neighbours meet when no pairing is free of rematches and the
\* policy allows it.
swiss_pairs(ordered, prior, policy) ==
    LET free == pair_without_rematches(ordered, prior)
    IN IF NoPairing \notin ToSet(free) THEN free
       ELSE IF policy = "allow_when_required"
       THEN [t \in 1..Len(ordered) \div 2 |-> <<ordered[2 * t - 1], ordered[2 * t]>>]
       ELSE <<NoPairing>>

orientation_penalty(one, two) == AbsDiff(one[1] + 1, one[2]) + AbsDiff(two[1], two[2] + 1)

preferred_orientation(p, balance) ==
    LET first == orientation_penalty(balance[p[1]], balance[p[2]])
        second == orientation_penalty(balance[p[2]], balance[p[1]])
    IN IF first < second \/ (first = second /\ p[1] <= p[2]) THEN p ELSE <<p[2], p[1]>>

\* preferred_profile when each entrant plays one series: exposures of a pair
\* are zero, so the round robin over tables decides.
preferred_profile(table, profiles) == (table - 1) % profiles

update_seat_balance(balance, matches) ==
    [e \in DOMAIN balance |->
        << balance[e][1] + Cardinality({ i \in DOMAIN matches : matches[i].one = e }),
           balance[e][2] + Cardinality({ i \in DOMAIN matches : matches[i].two = e }) >>]

\* The round a progress leads to: its bye, pairs and matches.
SwissRoundOf(s, progress) ==
    LET ordered == ordered_swiss_entrants(s.n, progress.standing)
        rest == choose_swiss_bye(ordered, progress.prior_byes)
        active == IF s.n % 2 = 0 THEN ordered ELSE RemoveAt(ordered, rest)
        pairs == swiss_pairs(active, progress.prior_pairings, s.rematches)
        bases == [t \in DOMAIN pairs |-> preferred_orientation(pairs[t], progress.balance)]
        profiles == [t \in DOMAIN pairs |-> preferred_profile(t, s.profiles)]
    IN [bye |-> IF s.n % 2 = 0 THEN {} ELSE {ordered[rest]}, active |-> active, pairs |-> pairs,
        matches |-> IF NoPairing \in ToSet(pairs) THEN <<>>
                    ELSE add_round(progress.completed_rounds + 1, bases, profiles, s.games)]

\* schedule_swiss_round.  The organiser then plays the round: the winner of a
\* series gains two, a tie gives one each, and the progress names the pairs,
\* the bye and the seats of the round.
schedule_swiss_round ==
    LET next == SwissRoundOf(tnSpec, tnProgress)
        round == tnProgress.completed_rounds + 1
    IN /\ tnSpec.kind = "swiss" /\ tnOutcome \in {"none", "scheduled"}
       /\ tnProgress.completed_rounds < tnSpec.rounds
       /\ \/ /\ NoPairing \in ToSet(next.pairs)
             /\ tnOutcome' = "swiss_pairing_unavailable"
             /\ UNCHANGED <<tnProgress, tnMatches, tnByes>>
          \/ /\ NoPairing \notin ToSet(next.pairs)
             /\ Len(tnMatches) + Len(next.matches) > tnSpec.seeds
             /\ tnOutcome' = "missing_game_seeds"
             /\ UNCHANGED <<tnProgress, tnMatches, tnByes>>
          \/ /\ NoPairing \notin ToSet(next.pairs)
             /\ Len(tnMatches) + Len(next.matches) <= tnSpec.seeds
             /\ tnOutcome' = "scheduled"
             /\ tnMatches' = tnMatches \o next.matches
             /\ tnByes' = tnByes \cup { [round |-> round, entrant |-> e] : e \in next.bye }
             /\ \E gain \in [1..Len(next.pairs) -> 0..2] :
                    tnProgress' =
                        [completed_rounds |-> round,
                         standing |-> [e \in Entrants(tnSpec.n) |->
                             LET t == { i \in DOMAIN next.pairs : e \in ToSet(next.pairs[i]) }
                             IN tnProgress.standing[e]
                                + (IF t = {} THEN 2
                                   ELSE LET i == CHOOSE i \in t : TRUE
                                        IN IF e = next.pairs[i][1] THEN gain[i] ELSE 2 - gain[i])],
                         prior_pairings |-> tnProgress.prior_pairings
                                            \cup { ToSet(p) : p \in ToSet(next.pairs) },
                         prior_byes |-> tnProgress.prior_byes \cup next.bye,
                         balance |-> update_seat_balance(tnProgress.balance, next.matches)]
       /\ UNCHANGED tnSpec

TournamentInit ==
    /\ tnSpec \in StaticSpecs \cup SwissSpecs
    /\ tnProgress = NewProgress(tnSpec.n)
    /\ tnMatches = <<>> /\ tnByes = {} /\ tnOutcome = "none"

TournamentNext == schedule \/ schedule_swiss_round

TournamentSpecification == TournamentInit /\ [][TournamentNext]_tournamentVars

-----------------------------------------------------------------------------
\* Entrants, tables and outcomes are in range.
ScheduleTypeOK ==
    /\ tnOutcome \in {"none", "scheduled", "missing_game_seeds", "extra_game_seeds",
                      "swiss_pairing_unavailable"}
    /\ \A i \in DOMAIN tnMatches :
        LET m == tnMatches[i] IN
        /\ {m.one, m.two} \subseteq Entrants(tnSpec.n) /\ m.profile \in 0..tnSpec.profiles - 1
        /\ m.table \in 1..tnSpec.n \div 2 /\ m.game \in 1..tnSpec.games

\* Nobody sits at two tables, or opposite themselves, in one wave (a round
\* and a game number), and nobody plays in the round they rest.
NoDoubleBooking ==
    /\ \A i, j \in DOMAIN tnMatches :
        LET a == tnMatches[i]  b == tnMatches[j] IN
        (i /= j /\ a.round = b.round /\ a.game = b.game) => {a.one, a.two} \cap {b.one, b.two} = {}
    /\ \A i \in DOMAIN tnMatches :
        /\ tnMatches[i].one /= tnMatches[i].two
        /\ \A b \in tnByes : b.round = tnMatches[i].round =>
                                b.entrant \notin {tnMatches[i].one, tnMatches[i].two}

Meetings(a, b) == { i \in DOMAIN tnMatches : {tnMatches[i].one, tnMatches[i].two} = {a, b} }
Sits(e, seat) ==
    Cardinality({ i \in DOMAIN tnMatches :
                    e = IF seat = 1 THEN tnMatches[i].one ELSE tnMatches[i].two })

\* A static schedule pairs everyone with everyone once per cycle, gives
\* everyone the same number of byes, and the seats even out: exactly when
\* each entrant plays an even number of games, to within one otherwise.
StaticIsComplete ==
    (tnSpec.kind = "static" /\ tnOutcome = "scheduled") =>
        \A a \in Entrants(tnSpec.n) :
            /\ \A b \in Entrants(tnSpec.n) \ {a} :
                Cardinality(Meetings(a, b)) = tnSpec.cycles * tnSpec.games
            /\ Cardinality({ x \in tnByes : x.entrant = a })
                = IF tnSpec.n % 2 = 0 THEN 0 ELSE tnSpec.cycles
            /\ AbsDiff(Sits(a, 1), Sits(a, 2)) <= 1

\* Pairings of the active entrants in which nobody meets a former opponent.
FreshPairings(active, prior) ==
    { ps \in SUBSET (kSubset(2, active) \ prior) :
        \A e \in active : \E p \in ps : \A q \in ps : e \in q <=> q = p }

\* A rematch is scheduled, or pairing declared impossible, only if every
\* pairing of the entrants who play has one: the search misses none.
RematchOnlyWhenForced ==
    (tnSpec.kind = "swiss" /\ tnProgress.completed_rounds < tnSpec.rounds) =>
        LET next == SwissRoundOf(tnSpec, tnProgress)
            paired == { ToSet(p) : p \in { q \in ToSet(next.pairs) : q /= NoPairing } }
        IN (\/ NoPairing \in ToSet(next.pairs)
            \/ paired \cap tnProgress.prior_pairings /= {})
           => FreshPairings(ToSet(next.active), tnProgress.prior_pairings) = {}

\* Nobody rests a second time before everybody has rested.
ByesRotate ==
    tnSpec.kind = "swiss" =>
        LET rests(e) == Cardinality({ b \in tnByes : b.entrant = e })
        IN \A e, f \in Entrants(tnSpec.n) : rests(e) >= 2 => rests(f) >= 1

\* Schedules are complete and fair for every field, static or Swiss, whatever
\* the results.
ScheduleIsSound ==
    ScheduleTypeOK /\ NoDoubleBooking /\ StaticIsComplete /\ RematchOnlyWhenForced /\ ByesRotate
=============================================================================
