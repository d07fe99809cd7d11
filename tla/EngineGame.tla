---------------------------- MODULE EngineGame ----------------------------
(***************************************************************************)
(* The referee: one game on its board, with physical tiles, words, scores, *)
(* a private bag and the event log that replays it.  Each move is a        *)
(* function from a game to a game, as each method of Game is a transaction *)
(* that changes everything or nothing; replay folds the same functions     *)
(* over the log.  A tile identifier is its position in Face.               *)
(***************************************************************************)
EXTENDS Integers, Sequences, FiniteSets, SequencesExt, FiniteSetsExt

CONSTANTS
    Size,             \* BOARD_SIZE
    Letters,
    Face,             \* the face of each tile: a letter or "blank"
    LetterValue,
    PremiumAt,        \* premium of the squares that have one
    Dictionary,       \* the words of the lexicon, as sequences of letters
    Players,          \* 2 to 4
    RackCapacity,
    ExchangeMinimum,
    BingoBonus,
    ScorelessTurnLimit,
    Seeds,            \* game seeds
    LastMove          \* bound: the version at which the model stops

Tiles == DOMAIN Face
EngineSeats == 1..Players
Coordinates == (1..Size) \X (1..Size)
CENTER == <<(Size + 1) \div 2, (Size + 1) \div 2>>
NoTile == [tile |-> 0, letter |-> "none"]

\* validate_limits and validate_tiles: what every ruleset satisfies.
ASSUME EngineAssumption ==
    /\ Size \in Nat /\ Size > 0 /\ Face \in Seq(Letters \cup {"blank"})
    /\ Players \in 2..4 /\ BingoBonus \in Nat /\ BingoBonus > 0
    /\ RackCapacity \in Nat /\ RackCapacity > 0
    /\ ScorelessTurnLimit \in Nat /\ ScorelessTurnLimit > 0
    /\ Seeds \subseteq Nat /\ ExchangeMinimum \in Nat /\ ExchangeMinimum >= RackCapacity
    /\ Cardinality(Tiles) >= 2 * RackCapacity
    /\ \A l \in Letters : LetterValue[l] \in Nat /\ LetterValue[l] > 0

VARIABLES
    seed,     \* the private seed, fixed for the game
    game,     \* the Game value
    refused   \* whether the referee ever refused a legal move as inconsistent

engineVars == <<seed, game, refused>>

-----------------------------------------------------------------------------
(* Tiles, bag and racks *)

ReverseOf(s) == [i \in 1..Len(s) |-> s[Len(s) + 1 - i]]

\* DeterministicRng: what the model keeps is that a stream depends on the
\* seed and the transition only.
uniform_below(upper, stream) == (stream + upper) % upper

\* Fisher-Yates, from the last position down to the second.
shuffle(values, stream) ==
    LET swap(s, i, j) == [s EXCEPT ![i] = s[j], ![j] = s[i]]
        after[k \in 0..Len(values)] ==
            IF k = 0 THEN values
            ELSE LET upper == Len(values) + 1 - k
                 IN swap(after[k - 1], upper, uniform_below(upper, stream) + 1)
    IN IF values = <<>> THEN values ELSE after[Len(values) - 1]

\* draw_up_to takes from the end.
Drawn(bag, n) == ReverseOf(SubSeq(bag, Len(bag) - (IF n < Len(bag) THEN n ELSE Len(bag)) + 1, Len(bag)))

LeftAfter(bag, n) == SubSeq(bag, 1, Len(bag) - (IF n < Len(bag) THEN n ELSE Len(bag)))

\* Mutant: the tiles go back in the order the caller named them.
ReturnInCallerOrder(bag, tiles, stream) == shuffle(bag \o tiles, stream)

\* A finite set of numbers, the smallest first.
Ascending(S) ==
    CHOOSE q \in [1..Cardinality(S) -> S] :
        \A i, j \in 1..Cardinality(S) : i < j => q[i] < q[j]

\* Exchanged tiles are sorted before the shuffle.
return_tiles_to_bag(bag, tiles, stream) == shuffle(bag \o Ascending(ToSet(tiles)), stream)

\* The tiles of the rack that stay, in their order.
Without(rack, tiles) ==
    LET kept == { i \in DOMAIN rack : rack[i] \notin tiles }
    IN [k \in 1..Cardinality(kept) |-> rack[Ascending(kept)[k]]]

RackValue(rack) ==
    SumFunction([i \in DOMAIN rack |->
        IF Face[rack[i]] = "blank" THEN 0 ELSE LetterValue[Face[rack[i]]]])

OnBoard(board) == { board[c].tile : c \in { d \in Coordinates : board[d] /= NoTile } }

InRacks(racks) == UNION { ToSet(racks[s]) : s \in EngineSeats }

\* verify_tile_conservation: no place holds a tile twice, no two places the
\* same tile, and together they hold them all.
Conserved(g) ==
    /\ IsInjective(g.bag) /\ \A s \in EngineSeats : IsInjective(g.racks[s])
    /\ \A c, d \in Coordinates :
        (c /= d /\ g.board[c] /= NoTile) => g.board[c].tile /= g.board[d].tile
    /\ \A s, t \in EngineSeats : s /= t => ToSet(g.racks[s]) \cap ToSet(g.racks[t]) = {}
    /\ ToSet(g.bag) \cap InRacks(g.racks) = {} /\ ToSet(g.bag) \cap OnBoard(g.board) = {}
    /\ InRacks(g.racks) \cap OnBoard(g.board) = {}
    /\ ToSet(g.bag) \cup InRacks(g.racks) \cup OnBoard(g.board) = Tiles

\* The shuffled tiles, dealt seat by seat from the end of the bag.
prepare_initial_deal(s) ==
    LET all == shuffle([t \in 1..Cardinality(Tiles) |-> t], s)
        bagAfter(seat) == LeftAfter(all, RackCapacity * seat)
    IN [bag |-> bagAfter(Players),
        racks |-> [seat \in EngineSeats |-> Drawn(bagAfter(seat - 1), RackCapacity)]]

\* The game before its first move.
Create(s) ==
    LET deal == prepare_initial_deal(s)
    IN [bag |-> deal.bag, racks |-> deal.racks,
        board |-> [c \in Coordinates |-> NoTile],
        scores |-> [seat \in EngineSeats |-> 0],
        current |-> 1, version |-> 0, scoreless |-> 0,
        phase |-> "active", reason |-> "none", winner |-> 0,
        events |-> <<>>, private |-> <<>>]

-----------------------------------------------------------------------------
(* Placement *)

\* The board with the proposed tiles on it.
Proposed(board, ps) ==
    [c \in Coordinates |->
        IF \E p \in ps : p.at = c
        THEN LET p == CHOOSE q \in ps : q.at = c IN [tile |-> p.tile, letter |-> p.letter]
        ELSE board[c]]

Between(c, d) ==
    { e \in Coordinates : /\ e[1] \in c[1]..d[1] \cup d[1]..c[1]
                          /\ e[2] \in c[2]..d[2] \cup d[2]..c[2] }

\* word_segment: the run of occupied squares through c along a line.
word_segment(b, c, line) ==
    { d \in Coordinates :
        /\ d[line] = c[line]
        /\ \A e \in Between(c, d) : b[e] /= NoTile }

\* 1: along a row; 2: along a column.
Lines == {1, 2}
SameLine(ps, line) == \A p, q \in ps : p.at[line] = q.at[line]

\* Mutant: only the word along the placement is looked at.
MainWordOnly(b, ps) ==
    { word_segment(b, p.at, line) : p \in ps, line \in { l \in Lines : SameLine(ps, l) } }

\* formed_word_coordinates, before push_if_word: the word along the placement
\* and the one that crosses each tile.
FormedRuns(b, ps) == { word_segment(b, p.at, line) : p \in ps, line \in Lines }

\* push_if_word
FormedWords(b, ps) == { w \in FormedRuns(b, ps) : Cardinality(w) >= 2 }

WordText(b, w) ==
    LET first == CHOOSE c \in w : \A d \in w : c[1] + c[2] <= d[1] + d[2]
        place(c) == c[1] + c[2] - first[1] - first[2] + 1
    IN [i \in { place(c) : c \in w } |-> b[CHOOSE c \in w : place(c) = i].letter]

PremiumOf(c) == IF c \in DOMAIN PremiumAt THEN PremiumAt[c] ELSE "normal"

\* Letter premiums and word premiums count for the new tiles only.
LetterScore(b, c, fresh) ==
    LET value == IF Face[b[c].tile] = "blank" THEN 0 ELSE LetterValue[b[c].letter]
    IN value * (CASE c \in fresh /\ PremiumOf(c) = "double_letter" -> 2
                  [] c \in fresh /\ PremiumOf(c) = "triple_letter" -> 3
                  [] OTHER -> 1)

WordMultiplier(w, fresh) ==
    FoldFunction(LAMBDA m, n : m * n, 1,
        [c \in w |-> CASE c \in fresh /\ PremiumOf(c) = "double_word" -> 2
                      [] c \in fresh /\ PremiumOf(c) = "triple_word" -> 3
                      [] OTHER -> 1])

WordScore(b, w, fresh) ==
    SumFunction([c \in w |-> LetterScore(b, c, fresh)]) * WordMultiplier(w, fresh)

MoveScore(b, ps) ==
    LET fresh == { p.at : p \in ps }
    IN SumFunction([w \in FormedWords(b, ps) |-> WordScore(b, w, fresh)])
       + (IF Cardinality(ps) = RackCapacity THEN BingoBonus ELSE 0)

\* validate_owned_placements, validate_unique_coordinates, validate_assignment.
Owned(g, seat, ps) ==
    /\ \A p \in ps :
        /\ p.tile \in ToSet(g.racks[seat])
        /\ Face[p.tile] \in {p.letter, "blank"}
        /\ g.board[p.at] = NoTile
    /\ \A p, q \in ps : p /= q => p.tile /= q.tile /\ p.at /= q.at

\* orientation and validate_contiguous.
Aligned(b, ps) ==
    /\ \E line \in Lines : SameLine(ps, line)
    /\ \A p, q \in ps : \A c \in Between(p.at, q.at) : b[c] /= NoTile

Neighbors(c) ==
    { d \in Coordinates : (d[1] - c[1]) * (d[1] - c[1]) + (d[2] - c[2]) * (d[2] - c[2]) = 1 }

\* validate_connection
Connected(board, ps) ==
    IF OnBoard(board) = {}
    THEN \E p \in ps : p.at = CENTER
    ELSE \E p \in ps : \E c \in Neighbors(p.at) : board[c] /= NoTile

\* prepare_placement
LegalPlacement(g, seat, ps) ==
    LET b == Proposed(g.board, ps) IN
    /\ ps /= {} /\ Owned(g, seat, ps)
    /\ Aligned(b, ps) /\ Connected(g.board, ps)
    /\ FormedWords(b, ps) /= {}
    /\ \A w \in FormedWords(b, ps) : WordText(b, w) \in Dictionary

-----------------------------------------------------------------------------
(* The end of a game *)

\* unique_winner among the seats in the race, 0 for a tie.
unique_winner(scores, race) ==
    LET best == { s \in race : \A t \in race : scores[s] >= scores[t] }
    IN IF Cardinality(best) = 1 THEN CHOOSE s \in best : TRUE ELSE 0

\* The scores after the rack deductions.
FinalScores(g, reason, outgoing) ==
    [s \in EngineSeats |->
        CASE reason = "resignation" -> g.scores[s]
          [] reason = "rack_emptied" /\ s = outgoing ->
                g.scores[s] + SumFunctionOnSet([t \in EngineSeats |-> RackValue(g.racks[t])],
                                               EngineSeats \ {s})
          [] OTHER -> g.scores[s] - RackValue(g.racks[s])]

complete_state(g, reason, seat) ==
    LET scores == FinalScores(g, reason, seat)
        race == IF reason = "resignation" THEN EngineSeats \ {seat} ELSE EngineSeats
    IN [g EXCEPT !.phase = "finished", !.scores = scores, !.reason = reason,
                 !.winner = unique_winner(scores, race)]

Completed(g, seat) ==
    CASE g.bag = <<>> /\ g.racks[seat] = <<>> -> complete_state(g, "rack_emptied", seat)
      [] g.scoreless >= ScorelessTurnLimit -> complete_state(g, "scoreless", seat)
      [] OTHER -> g

NextSeat(seat) == IF seat = Players THEN 1 ELSE seat + 1

\* What every event records of the state after it.
After(g) ==
    [scores |-> g.scores, counts |-> [s \in EngineSeats |-> Len(g.racks[s])], bag |-> Len(g.bag),
     scoreless |-> g.scoreless, next |-> g.current, result |-> <<g.phase, g.reason, g.winner>>]

Logged(g, move) == [g EXCEPT !.events = Append(@, [move |-> move, after |-> After(g)])]
LoggedPrivate(g, seat, removed, drawn) ==
    [g EXCEPT !.private = Append(@, [sequence |-> g.version, seat |-> seat, removed |-> removed,
                                     drawn |-> drawn, rack |-> g.racks[seat]])]

-----------------------------------------------------------------------------
(* The moves *)

play_tiles(g, seat, ps) ==
    LET b == Proposed(g.board, ps)
        score == MoveScore(b, ps)
        kept == Without(g.racks[seat], { p.tile : p \in ps })
        drawn == Drawn(g.bag, RackCapacity - Len(kept))
        next == [g EXCEPT !.board = b, !.bag = LeftAfter(g.bag, RackCapacity - Len(kept)),
                          !.racks[seat] = kept \o drawn, !.scores[seat] = @ + score,
                          !.current = NextSeat(seat), !.version = @ + 1,
                          !.scoreless = IF score = 0 THEN @ + 1 ELSE 0]
    IN LoggedPrivate(Logged(Completed(next, seat),
                            [kind |-> "played", seat |-> seat, placed |-> ps, score |-> score]),
                     seat, { p.tile : p \in ps }, drawn)

pass(g, seat) ==
    LET next == [g EXCEPT !.current = NextSeat(seat), !.version = @ + 1, !.scoreless = @ + 1]
    IN Logged(IF next.scoreless >= ScorelessTurnLimit
              THEN complete_state(next, "scoreless", seat) ELSE next,
              [kind |-> "passed", seat |-> seat])

\* tiles: the caller's sequence; the event holds it sorted.
exchange_tiles(g, s, seat, tiles) ==
    LET drawn == Drawn(g.bag, Len(tiles))
        next == [g EXCEPT
                    !.bag = return_tiles_to_bag(LeftAfter(g.bag, Len(tiles)), tiles,
                                                s + g.version + 1),
                    !.racks[seat] = Without(@, ToSet(tiles)) \o drawn,
                    !.current = NextSeat(seat), !.version = @ + 1, !.scoreless = @ + 1]
    IN LoggedPrivate(Logged(IF next.scoreless >= ScorelessTurnLimit
                            THEN complete_state(next, "scoreless", seat) ELSE next,
                            [kind |-> "exchanged", seat |-> seat,
                             tiles |-> Ascending(ToSet(tiles))]),
                     seat, ToSet(tiles), drawn)

resign_game(g, seat) ==
    Logged(complete_state([g EXCEPT !.version = @ + 1], "resignation", seat),
           [kind |-> "resigned", seat |-> seat])

\* replay_event: the move the event tells of, made by the player it names.
ReplayMove(g, s, event) ==
    LET move == event.move
    IN CASE move.kind = "played" -> play_tiles(g, move.seat, move.placed)
         [] move.kind = "passed" -> pass(g, move.seat)
         [] move.kind = "exchanged" -> exchange_tiles(g, s, move.seat, move.tiles)
         [] move.kind = "resigned" -> resign_game(g, move.seat)

replay(s, events) ==
    LET at[n \in 0..Len(events)] ==
            IF n = 0 THEN Create(s) ELSE ReplayMove(at[n - 1], s, events[n])
    IN at[Len(events)]

-----------------------------------------------------------------------------
(* Specification *)

EngineInit ==
    /\ seed \in Seeds /\ game = Create(seed) /\ refused = FALSE

\* A transition that fails the conservation check is refused, the game stays.
Commit(next) ==
    /\ game.phase = "active" /\ game.version < LastMove
    /\ IF Conserved(next) THEN game' = next /\ UNCHANGED refused
       ELSE refused' = TRUE /\ UNCHANGED game
    /\ UNCHANGED seed

\* Some tiles of the rack, each with a square and a letter.
Candidates(seat) ==
    { { [tile |-> t, at |-> f[t][1], letter |-> f[t][2]] : t \in DOMAIN f } :
        f \in UNION { [chosen -> Coordinates \X Letters] : chosen \in SUBSET ToSet(game.racks[seat]) } }

PlayTiles ==
    \E ps \in Candidates(game.current) :
        /\ LegalPlacement(game, game.current, ps)
        /\ Commit(play_tiles(game, game.current, ps))

Pass == Commit(pass(game, game.current))

ExchangeTiles ==
    /\ Len(game.bag) >= ExchangeMinimum
    /\ \E chosen \in (SUBSET Tiles) \ {{}} :
        /\ chosen \subseteq ToSet(game.racks[game.current])
        /\ \E tiles \in SetToSeqs(chosen) :
            Commit(exchange_tiles(game, seed, game.current, tiles))

Resign == Commit(resign_game(game, game.current))

EngineNext == PlayTiles \/ Pass \/ ExchangeTiles \/ Resign

EngineSpec == EngineInit /\ [][EngineNext]_engineVars

-----------------------------------------------------------------------------
\* Tiles are in their places and counters in their ranges.
EngineTypeOK ==
    /\ game.bag \in Seq(Tiles) /\ game.current \in EngineSeats
    /\ \A s \in EngineSeats : game.racks[s] \in Seq(Tiles) /\ Len(game.racks[s]) <= RackCapacity
    /\ game.version = Len(game.events) /\ game.scoreless \in 0..ScorelessTurnLimit
    /\ game.phase \in {"active", "finished"} /\ game.winner \in 0..Players

\* The conservation check of the referee never refuses a move the rules allow.
LegalMovesAreConsistent == ~refused

\* Every word on the board is a word of the lexicon, in both directions,
\* although a move only validates the words it forms.
BoardWordsAreValid ==
    \A c \in Coordinates, line \in Lines :
        game.board[c] /= NoTile =>
            LET w == word_segment(game.board, c, line)
            IN Cardinality(w) >= 2 => WordText(game.board, w) \in Dictionary

\* The tiles on the board hang together and cover the centre: there is no
\* gap that cuts some of them off from it.
BoardHangsTogether ==
    LET occupied == { c \in Coordinates : game.board[c] /= NoTile }
    IN occupied /= {} =>
        /\ CENTER \in occupied
        /\ \A S \in SUBSET occupied :
            (CENTER \in S /\ \A c \in occupied : Neighbors(c) \cap S /= {} => c \in S) => S = occupied

\* replay of the log from the seed ends in the same game, private state and
\* log included, at every version: what resume and the archive rely on.
ReplayReproduces == replay(seed, game.events) = game

PlayedScore(s) ==
    SumFunction([i \in DOMAIN game.events |->
        LET move == game.events[i].move
        IN IF move.kind = "played" /\ move.seat = s THEN move.score ELSE 0])

\* The scores are the log's, and what the end of a game takes from the racks
\* it gives to the player who went out: no points appear or vanish.
ScoresAddUp ==
    LET total == SumFunction(game.scores)
        played == SumFunction([s \in EngineSeats |-> PlayedScore(s)])
        racks == SumFunction([s \in EngineSeats |-> RackValue(game.racks[s])])
    IN total = IF game.reason = "scoreless" THEN played - racks ELSE played

\* The referee keeps the game sound over every sequence of moves: tiles and
\* types, the legality it reports, the words and the shape of the board, and
\* the points.
GameIsSound ==
    EngineTypeOK /\ LegalMovesAreConsistent /\ BoardWordsAreValid /\ BoardHangsTogether /\ ScoresAddUp
=============================================================================
