---------------------------- MODULE GameCreation ----------------------------
(***************************************************************************)
(* Creating games under idempotency keys: several calls at once, calls     *)
(* that are dropped and repeated.  A call looks its key up, draws the game *)
(* it would create, and inserts both in one transaction.                   *)
(***************************************************************************)
EXTENDS Integers, FiniteSets, Functions

CONSTANTS
    Creators,      \* calls in flight at a time
    CreationKeys,
    Payloads,      \* language, mode and player count
    GameIds        \* ids the generator draws; a collision is possible

VARIABLES
    gcGames,     \* game -> the payload it was created with
    gcRecords,   \* key -> [payload, game]
    gcCall,      \* the calls
    gcAnswers    \* [key, payload, game]: every creation that was answered

creationVars == <<gcGames, gcRecords, gcCall, gcAnswers>>

\* A table with one row more.
WithRow(table, key, row) == [k \in DOMAIN table \cup {key} |-> IF k = key THEN row ELSE table[k]]

Waiting == [at |-> "idle", outcome |-> "none"]

Finish(c, outcome) == gcCall' = [gcCall EXCEPT ![c] = [@ EXCEPT !.at = "answered", !.outcome = outcome]]

\* Mutant: the stored payload is not compared.
LookupByKey(key, payload) ==
    IF key \in DOMAIN gcRecords THEN "match" ELSE "missing"

\* load_creation_idempotency.
LookupCreation(key, payload) ==
    IF key \notin DOMAIN gcRecords THEN "missing"
    ELSE IF gcRecords[key].payload = payload THEN "match" ELSE "conflict"

Answer(c, game) ==
    /\ gcAnswers' = gcAnswers \cup {[key |-> gcCall[c].key, payload |-> gcCall[c].payload, game |-> game]}
    /\ Finish(c, "created")

-----------------------------------------------------------------------------
\* prepare_create_game draws the game id.
BeginCreation(c, key, payload, game) ==
    /\ gcCall[c].at \in {"idle", "answered"}
    /\ gcCall' = [gcCall EXCEPT ![c] = [at |-> "lookup", outcome |-> "none", key |-> key,
                                        payload |-> payload, game |-> game]]
    /\ UNCHANGED <<gcGames, gcRecords, gcAnswers>>

\* create_game, first lookup.
FirstLookup(c) ==
    LET q == gcCall[c]
        found == LookupCreation(q.key, q.payload)
    IN /\ q.at = "lookup"
       /\ CASE found = "match" -> Answer(c, gcRecords[q.key].game)
            [] found = "conflict" -> Finish(c, "conflict") /\ UNCHANGED gcAnswers
            [] found = "missing" -> /\ gcCall' = [gcCall EXCEPT ![c].at = "insert"]
                                    /\ UNCHANGED gcAnswers
       /\ UNCHANGED <<gcGames, gcRecords>>

\* insert_idempotent: the game, its rows and the record of its creation, or
\* nothing when the id or the key is taken.
InsertIdempotent(c) ==
    LET q == gcCall[c]
    IN /\ q.at = "insert"
       /\ IF q.game \in DOMAIN gcGames \/ q.key \in DOMAIN gcRecords
          THEN gcCall' = [gcCall EXCEPT ![c].at = "again"] /\ UNCHANGED <<gcGames, gcRecords, gcAnswers>>
          ELSE /\ gcGames' = WithRow(gcGames, q.game, q.payload)
               /\ gcRecords' = WithRow(gcRecords, q.key, [payload |-> q.payload, game |-> q.game])
               /\ Answer(c, q.game)

\* The loser of a race answers what the winner stored; a mere collision of
\* ids is an error.
SecondLookup(c) ==
    LET q == gcCall[c]
        found == LookupCreation(q.key, q.payload)
    IN /\ q.at = "again"
       /\ IF found = "match" THEN Answer(c, gcRecords[q.key].game)
          ELSE Finish(c, IF found = "conflict" THEN "conflict" ELSE "exists") /\ UNCHANGED gcAnswers
       /\ UNCHANGED <<gcGames, gcRecords>>

\* The storage is unavailable, the client leaves, or the server stops: the
\* call ends without an answer, with the transaction committed or not.
LoseCreation(c) ==
    /\ gcCall[c].at \in {"lookup", "insert", "again"}
    /\ \/ UNCHANGED <<gcGames, gcRecords>>
       \/ LET q == gcCall[c]
          IN /\ q.at = "insert" /\ q.game \notin DOMAIN gcGames /\ q.key \notin DOMAIN gcRecords
             /\ gcGames' = WithRow(gcGames, q.game, q.payload)
             /\ gcRecords' = WithRow(gcRecords, q.key, [payload |-> q.payload, game |-> q.game])
    /\ gcCall' = [gcCall EXCEPT ![c] = Waiting]
    /\ UNCHANGED gcAnswers

CreationInit ==
    /\ gcGames = <<>> /\ gcRecords = <<>> /\ gcAnswers = {}
    /\ gcCall = [c \in Creators |-> Waiting]

CreationNext ==
    \E c \in Creators :
        \/ \E key \in CreationKeys, payload \in Payloads, game \in GameIds : BeginCreation(c, key, payload, game)
        \/ FirstLookup(c) \/ InsertIdempotent(c) \/ SecondLookup(c) \/ LoseCreation(c)

CreationSpec == CreationInit /\ [][CreationNext]_creationVars

-----------------------------------------------------------------------------
\* Every game was created under exactly one key, with the payload recorded
\* there: a lost race or a dropped call leaves no game nobody knows of.
EveryGameHasItsRecord ==
    /\ \A key \in DOMAIN gcRecords : /\ gcRecords[key].game \in DOMAIN gcGames
                                     /\ gcGames[gcRecords[key].game] = gcRecords[key].payload
    /\ Cardinality({gcRecords[key].game : key \in DOMAIN gcRecords}) = Cardinality(DOMAIN gcGames)
    /\ IsInjective([key \in DOMAIN gcRecords |-> gcRecords[key].game])

\* All the calls that were ever answered under a key were told the same
\* game, the one stored, and had asked for what was created.
OneAnswerPerKey ==
    \A a \in gcAnswers : /\ a.key \in DOMAIN gcRecords
                         /\ gcRecords[a.key] = [payload |-> a.payload, game |-> a.game]

\* A call is refused as a conflict only if its key stands for another
\* payload: an exact repetition never is, however it races.
ConflictIsAnother ==
    \A c \in Creators : gcCall[c].outcome = "conflict" =>
        /\ gcCall[c].key \in DOMAIN gcRecords
        /\ gcRecords[gcCall[c].key].payload /= gcCall[c].payload

\* Racing, repeated and lost creations under one key make one game, which all
\* of them are told.
CreationSafety == EveryGameHasItsRecord /\ OneAnswerPerKey /\ ConflictIsAnother
=============================================================================
