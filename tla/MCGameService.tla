--------------------------- MODULE MCGameService ---------------------------
(* Small instances of GameService. *)
EXTENDS GameService, TLC

CONSTANTS a, b

Command(key, seat, version, move) ==
    [key |-> key, seat |-> seat, version |-> version, move |-> move]

\* Both seats, a key reused with another payload, moves that race, and refused
\* moves of one turn, before and after it has passed.
MCCommands == {Command(1, 1, 0, "place"), Command(1, 1, 0, "illegal"),
               Command(2, 1, 0, "illegal"), Command(3, 2, 1, "resign")}
MCOneMove == {Command(1, 1, 0, "place")}

ClientSymmetry == Permutations(Clients)
=============================================================================
