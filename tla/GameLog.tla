------------------------------ MODULE GameLog ------------------------------
(***************************************************************************)
(* What the mutation pipeline promises: a game is a log of versions, every *)
(* idempotency key is decided once, and a decision and the version it adds *)
(* happen at the same instant.                                             *)
(***************************************************************************)
EXTENDS Turns, Sequences

CONSTANTS Keys, Undecided

VARIABLES log, outcomes

Entry == [key: Int, move: LegalMoves \cup {"create"}, state: State]
Results == {"accepted", "illegal", "version_conflict"}

Latest == log[Len(log)]

\* A legal move of the seat whose turn it is.
Accept(k) ==
    /\ outcomes[k] = Undecided
    /\ Latest.state.phase = "active"
    /\ \E m \in LegalMoves :
          log' = Append(log, [key |-> k, move |-> m,
                              state |-> apply_move(Latest.state, m)])
    /\ outcomes' = [outcomes EXCEPT ![k] = "accepted"]

\* A refused command changes nothing.
Reject(k) ==
    /\ outcomes[k] = Undecided
    /\ \E r \in Results \ {"accepted"} : outcomes' = [outcomes EXCEPT ![k] = r]
    /\ UNCHANGED log

\* The refusal that exhausts the patience of the policy also moves for the seat.
RejectAndForce(k) ==
    /\ outcomes[k] = Undecided
    /\ Latest.state.phase = "active"
    /\ \E m \in {"pass", "resign"} :
          log' = Append(log, [key |-> k, move |-> m,
                              state |-> apply_move(Latest.state, m)])
    /\ outcomes' = [outcomes EXCEPT ![k] = "illegal"]

Init ==
    /\ log = <<[key |-> 0, move |-> "create", state |-> Created]>>
    /\ outcomes = [k \in Keys |-> Undecided]

Next == \E k \in Keys : Accept(k) \/ Reject(k) \/ RejectAndForce(k)

Spec == Init /\ [][Next]_<<log, outcomes>>

=============================================================================
