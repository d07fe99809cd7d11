------------------------------- MODULE Turns -------------------------------
(***************************************************************************)
(* What the application service sees of the engine: whose turn it is, when *)
(* a move is refused, and when the game ends.  Board, racks and words are  *)
(* abstracted to the kind of a move: a placement that scores, one that     *)
(* scores nothing, one that empties the rack of its player, an exchange, a *)
(* pass, a resignation, and a move that the rules refuse.                  *)
(***************************************************************************)
EXTENDS Integers

CONSTANTS
    PlayerCount,      \* 2 to 4
    ScorelessLimit    \* ruleset.game.scoreless_turn_limit

ASSUME TurnsAssumption ==
    /\ PlayerCount \in Nat \ {0, 1}
    /\ ScorelessLimit \in Nat \ {0}

Seats == 1..PlayerCount
LegalMoves == {"place", "place_zero", "place_out", "exchange", "pass", "resign"}
Moves == LegalMoves \cup {"illegal"}

\* Placements and exchanges also append an event that only the seat may see.
PrivateMoves == {"place", "place_zero", "place_out", "exchange"}

\* PublicGameState, as far as turns depend on it.
State == [current: Seats, scoreless: Nat, phase: {"active", "finished"}]

Created == [current |-> 1, scoreless |-> 0, phase |-> "active"]

\* Seat::next
next(seat) == IF seat = PlayerCount THEN 1 ELSE seat + 1

next_scoreless(state, move) ==
    IF move = "place" \/ move = "place_out" THEN 0 ELSE state.scoreless + 1

Ends(state, move) ==
    \/ move \in {"resign", "place_out"}
    \/ next_scoreless(state, move) >= ScorelessLimit

\* apply_move of a move that is not refused.  A resignation leaves the turn
\* and the scoreless count where they are.
apply_move(state, move) ==
    [current |-> IF move = "resign" THEN state.current ELSE next(state.current),
     scoreless |-> IF move = "resign" THEN state.scoreless
                   ELSE next_scoreless(state, move),
     phase |-> IF Ends(state, move) THEN "finished" ELSE "active"]

\* validate_action and then the move itself, as rejection_from_engine reports
\* it: the phase and the seat are tested before the version.
Verdict(state, version, seat, expected, move) ==
    IF state.phase = "finished" THEN "illegal"
    ELSE IF seat # state.current THEN "illegal"
    ELSE IF expected # version THEN "version_conflict"
    ELSE IF move = "illegal" THEN "illegal"
    ELSE "accepted"

=============================================================================
