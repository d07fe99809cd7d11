--------------------------- MODULE PlatformProofs ---------------------------
(***************************************************************************)
(* Proofs about what surrounds the games: creation under idempotency keys, *)
(* the preview allowance, the start of the server, the capabilities that   *)
(* seats are served under, and the installation of lexicon packs.          *)
(***************************************************************************)
EXTENDS Capabilities, GameCreation, PreviewAllowance, Startup, PackInstall, TLAPS, FiniteSetTheorems

-----------------------------------------------------------------------------
(* Game creation *)

Creation == [at: {"lookup", "insert", "again", "answered"},
             outcome: {"none", "created", "conflict", "exists"},
             key: CreationKeys, payload: Payloads, game: GameIds]

CallsAreTyped ==
    /\ DOMAIN gcCall = Creators
    /\ \A c \in Creators : gcCall[c] \in Creation \/ gcCall[c] = Waiting
    /\ DOMAIN gcRecords \subseteq CreationKeys
    /\ \A key \in DOMAIN gcRecords : gcRecords[key] \in [payload: Payloads, game: GameIds]

\* The games are those of the records, one each.
GamesAreRecorded ==
    /\ DOMAIN gcGames = {gcRecords[key].game : key \in DOMAIN gcRecords}
    /\ \A key \in DOMAIN gcRecords : gcGames[gcRecords[key].game] = gcRecords[key].payload
    /\ \A k1, k2 \in DOMAIN gcRecords : gcRecords[k1].game = gcRecords[k2].game => k1 = k2

CreationInv == CallsAreTyped /\ GamesAreRecorded /\ OneAnswerPerKey /\ ConflictIsAnother

\* The records are only ever added to.
RecordsGrow ==
    DOMAIN gcRecords \subseteq DOMAIN gcRecords' /\ \A key \in DOMAIN gcRecords : gcRecords'[key] = gcRecords[key]

\* What the transaction of a creation writes.
Inserts(q) ==
    /\ q.game \notin DOMAIN gcGames /\ q.key \notin DOMAIN gcRecords
    /\ gcGames' = WithRow(gcGames, q.game, q.payload)
    /\ gcRecords' = WithRow(gcRecords, q.key, [payload |-> q.payload, game |-> q.game])

\* The transaction adds one game under one key.
LEMMA InsertFacts ==
    ASSUME CreationInv, NEW q \in Creation, Inserts(q)
    PROVE  /\ GamesAreRecorded' /\ RecordsGrow
           /\ DOMAIN gcRecords' = DOMAIN gcRecords \cup {q.key}
           /\ gcRecords'[q.key] = [payload |-> q.payload, game |-> q.game]
           /\ gcRecords'[q.key].payload = q.payload
<1>1. /\ q.key \in CreationKeys /\ q.payload \in Payloads /\ q.game \in GameIds
      /\ q.game \notin DOMAIN gcGames /\ q.key \notin DOMAIN gcRecords
    BY DEF Creation, Inserts
<1>2. PICK new : new = [payload |-> q.payload, game |-> q.game]
    OBVIOUS
<1>3. new.payload = q.payload /\ new.game = q.game
    BY <1>2
<1>4. /\ DOMAIN gcGames' = DOMAIN gcGames \cup {q.game} /\ gcGames'[q.game] = q.payload
      /\ \A g \in DOMAIN gcGames : gcGames'[g] = gcGames[g]
    BY <1>1 DEF Inserts, WithRow
<1>5. /\ DOMAIN gcRecords' = DOMAIN gcRecords \cup {q.key} /\ gcRecords'[q.key] = new
      /\ \A key \in DOMAIN gcRecords : gcRecords'[key] = gcRecords[key]
    BY <1>1, <1>2 DEF Inserts, WithRow
<1>6. \A key \in DOMAIN gcRecords : gcRecords[key].game \in DOMAIN gcGames
    BY DEF CreationInv, GamesAreRecorded
<1>7. DOMAIN gcGames' = {gcRecords'[key].game : key \in DOMAIN gcRecords'}
    BY <1>3, <1>4, <1>5 DEF CreationInv, GamesAreRecorded
<1>8. \A key \in DOMAIN gcRecords' : gcGames'[gcRecords'[key].game] = gcRecords'[key].payload
    BY <1>3, <1>4, <1>5, <1>6 DEF CreationInv, GamesAreRecorded
<1>9. \A k1, k2 \in DOMAIN gcRecords' : gcRecords'[k1].game = gcRecords'[k2].game => k1 = k2
    BY <1>1, <1>3, <1>5, <1>6 DEF CreationInv, GamesAreRecorded
<1>10. GamesAreRecorded'
    BY <1>7, <1>8, <1>9, Zenon DEF GamesAreRecorded
<1> QED BY <1>2, <1>3, <1>5, <1>10 DEF RecordsGrow

\* The call of one creator goes on; what it is told agrees with the records.
LEMMA CallGoesOn ==
    ASSUME CreationInv, NEW c \in Creators, NEW new, new \in Creation \/ new = Waiting,
           gcCall' = [gcCall EXCEPT ![c] = new], RecordsGrow, GamesAreRecorded',
           DOMAIN gcRecords' \subseteq CreationKeys,
           \A key \in DOMAIN gcRecords' : gcRecords'[key] \in [payload: Payloads, game: GameIds],
           new.outcome = "conflict" => new.key \in DOMAIN gcRecords' /\ gcRecords'[new.key].payload # new.payload,
           OneAnswerPerKey'
    PROVE  CreationInv'
<1>1. /\ DOMAIN gcCall' = Creators /\ gcCall'[c] = new
      /\ \A o \in Creators \ {c} : gcCall'[o] = gcCall[o]
    BY DEF CreationInv, CallsAreTyped
<1>2. CallsAreTyped'
    BY <1>1 DEF CreationInv, CallsAreTyped
<1>3. ASSUME NEW o \in Creators, gcCall'[o].outcome = "conflict"
      PROVE  gcCall'[o].key \in DOMAIN gcRecords' /\ gcRecords'[gcCall'[o].key].payload # gcCall'[o].payload
    <2>1. CASE o = c
        BY <1>1, <1>3, <2>1
    <2>2. CASE o # c
        <3>1. gcCall'[o] = gcCall[o]
            BY <1>1, <2>2
        <3>2. gcCall[o].key \in DOMAIN gcRecords /\ gcRecords[gcCall[o].key].payload # gcCall[o].payload
            BY <1>3, <3>1 DEF CreationInv, ConflictIsAnother
        <3> QED BY <3>1, <3>2 DEF RecordsGrow
    <2> QED BY <2>1, <2>2
<1>4. ConflictIsAnother'
    BY <1>3, Zenon DEF ConflictIsAnother
<1> QED BY <1>2, <1>4 DEF CreationInv

\* The answers stay right, and so does a new one that is what is recorded.
LEMMA AnswersStay ==
    ASSUME CreationInv, RecordsGrow, NEW a,
           gcAnswers' = gcAnswers \/ gcAnswers' = gcAnswers \cup {a},
           gcAnswers' # gcAnswers => /\ a.key \in DOMAIN gcRecords'
                                     /\ gcRecords'[a.key] = [payload |-> a.payload, game |-> a.game]
    PROVE  OneAnswerPerKey'
<1>1. ASSUME NEW b \in gcAnswers'
      PROVE  b.key \in DOMAIN gcRecords' /\ gcRecords'[b.key] = [payload |-> b.payload, game |-> b.game]
    <2>1. CASE b \in gcAnswers
        BY <2>1 DEF CreationInv, OneAnswerPerKey, RecordsGrow
    <2>2. CASE b \notin gcAnswers
        BY <1>1, <2>2
    <2> QED BY <2>1, <2>2
<1> QED BY <1>1, Zenon DEF OneAnswerPerKey

\* The lookup finds what is recorded.
LEMMA LookupFacts ==
    ASSUME NEW key, NEW payload
    PROVE  /\ LookupCreation(key, payload) \in {"missing", "match", "conflict"}
           /\ LookupCreation(key, payload) = "match" =>
                key \in DOMAIN gcRecords /\ gcRecords[key].payload = payload
           /\ LookupCreation(key, payload) = "conflict" =>
                key \in DOMAIN gcRecords /\ gcRecords[key].payload # payload
BY DEF LookupCreation

\* A call that ends with a verdict.
LEMMA FinishFacts ==
    ASSUME CreationInv, NEW c \in Creators, gcCall[c] \in Creation,
           NEW outcome \in {"created", "conflict", "exists"}, Finish(c, outcome)
    PROVE  \E new \in Creation :
             /\ gcCall' = [gcCall EXCEPT ![c] = new] /\ new.outcome = outcome
             /\ new.key = gcCall[c].key /\ new.payload = gcCall[c].payload
<1>1. PICK new : new = [gcCall[c] EXCEPT !.at = "answered", !.outcome = outcome]
    OBVIOUS
<1>2. /\ new \in Creation /\ new.outcome = outcome
      /\ new.key = gcCall[c].key /\ new.payload = gcCall[c].payload
    BY <1>1 DEF Creation
<1>3. gcCall' = [gcCall EXCEPT ![c] = new]
    BY <1>1 DEF Finish, CreationInv, CallsAreTyped
<1> QED BY <1>2, <1>3

\* Nothing is inserted.
LEMMA NothingInserted ==
    ASSUME CreationInv, UNCHANGED <<gcGames, gcRecords>>
    PROVE  /\ RecordsGrow /\ GamesAreRecorded' /\ DOMAIN gcRecords' \subseteq CreationKeys
           /\ \A key \in DOMAIN gcRecords' : gcRecords'[key] \in [payload: Payloads, game: GameIds]
BY DEF CreationInv, CallsAreTyped, GamesAreRecorded, RecordsGrow

\* A call is answered with the game recorded under its key.
LEMMA AnswerStep ==
    ASSUME CreationInv, NEW c \in Creators, gcCall[c] \in Creation, NEW game, Answer(c, game),
           RecordsGrow, GamesAreRecorded', DOMAIN gcRecords' \subseteq CreationKeys,
           \A key \in DOMAIN gcRecords' : gcRecords'[key] \in [payload: Payloads, game: GameIds],
           gcCall[c].key \in DOMAIN gcRecords',
           gcRecords'[gcCall[c].key] = [payload |-> gcCall[c].payload, game |-> game]
    PROVE  CreationInv'
<1>1. PICK new \in Creation : /\ gcCall' = [gcCall EXCEPT ![c] = new] /\ new.outcome = "created"
    BY FinishFacts DEF Answer
<1>2. PICK a : a = [key |-> gcCall[c].key, payload |-> gcCall[c].payload, game |-> game]
    OBVIOUS
<1>3. a.key = gcCall[c].key /\ a.payload = gcCall[c].payload /\ a.game = game
    BY <1>2
<1>4. gcAnswers' = gcAnswers \cup {a}
    BY <1>2 DEF Answer
<1>5. a.key \in DOMAIN gcRecords' /\ gcRecords'[a.key] = [payload |-> a.payload, game |-> a.game]
    BY <1>3
<1>6. OneAnswerPerKey'
    BY <1>4, <1>5, AnswersStay
<1> QED BY <1>1, <1>6, CallGoesOn

\* A call moves on or ends without an answer.
LEMMA SilentStep ==
    ASSUME CreationInv, NEW c \in Creators, NEW new, new \in Creation \/ new = Waiting,
           gcCall' = [gcCall EXCEPT ![c] = new], UNCHANGED gcAnswers,
           RecordsGrow, GamesAreRecorded', DOMAIN gcRecords' \subseteq CreationKeys,
           \A key \in DOMAIN gcRecords' : gcRecords'[key] \in [payload: Payloads, game: GameIds],
           new.outcome = "conflict" => new.key \in DOMAIN gcRecords' /\ gcRecords'[new.key].payload # new.payload
    PROVE  CreationInv'
<1>1. OneAnswerPerKey'
    BY AnswersStay
<1> QED BY <1>1, CallGoesOn

\* The call waits for a conflict no longer than its first lookup.
LEMMA MovedFacts ==
    ASSUME CreationInv, NEW c \in Creators, gcCall[c] \in Creation, NEW at \in {"insert", "again"},
           gcCall' = [gcCall EXCEPT ![c].at = at]
    PROVE  \E new \in Creation :
             /\ gcCall' = [gcCall EXCEPT ![c] = new] /\ new.outcome = gcCall[c].outcome
             /\ new.key = gcCall[c].key /\ new.payload = gcCall[c].payload
<1>1. PICK new : new = [gcCall[c] EXCEPT !.at = at]
    OBVIOUS
<1>2. /\ new \in Creation /\ new.outcome = gcCall[c].outcome
      /\ new.key = gcCall[c].key /\ new.payload = gcCall[c].payload
    BY <1>1 DEF Creation
<1>3. gcCall' = [gcCall EXCEPT ![c] = new]
    BY <1>1 DEF CreationInv, CallsAreTyped
<1> QED BY <1>2, <1>3

\* A call that is under way.
LEMMA CallUnderWay ==
    ASSUME CreationInv, NEW c \in Creators, gcCall[c].at # "idle"
    PROVE  gcCall[c] \in Creation
BY DEF CreationInv, CallsAreTyped, Waiting

\* The record of a key, written out.
LEMMA RecordFacts ==
    ASSUME CreationInv, NEW key \in DOMAIN gcRecords
    PROVE  gcRecords[key] = [payload |-> gcRecords[key].payload, game |-> gcRecords[key].game]
BY DEF CreationInv, CallsAreTyped

\* The lookups, the first and the one after a lost race.
LEMMA LookupStep ==
    ASSUME CreationInv, NEW c \in Creators, FirstLookup(c) \/ SecondLookup(c)
    PROVE  CreationInv'
<1>0. gcCall[c].at # "idle" /\ UNCHANGED <<gcGames, gcRecords>>
    BY DEF FirstLookup, SecondLookup
<1>1. gcCall[c] \in Creation
    BY <1>0, CallUnderWay
<1>2. PICK found : found = LookupCreation(gcCall[c].key, gcCall[c].payload)
    OBVIOUS
<1>3. /\ found \in {"missing", "match", "conflict"}
      /\ found \in {"match", "conflict"} => gcCall[c].key \in DOMAIN gcRecords
      /\ found = "match" => gcRecords[gcCall[c].key].payload = gcCall[c].payload
      /\ found = "conflict" => gcRecords[gcCall[c].key].payload # gcCall[c].payload
    BY <1>2, LookupFacts
<1>4. /\ RecordsGrow /\ GamesAreRecorded' /\ DOMAIN gcRecords' \subseteq CreationKeys
      /\ \A key \in DOMAIN gcRecords' : gcRecords'[key] \in [payload: Payloads, game: GameIds]
    BY <1>0, NothingInserted
<1>5. CASE found = "match"
    <2>1. Answer(c, gcRecords[gcCall[c].key].game)
        BY <1>2, <1>5 DEF FirstLookup, SecondLookup
    <2>2. gcRecords'[gcCall[c].key] = [payload |-> gcCall[c].payload, game |-> gcRecords[gcCall[c].key].game]
        BY <1>0, <1>3, <1>5, RecordFacts
    <2> QED BY <1>0, <1>1, <1>3, <1>4, <1>5, <2>1, <2>2, AnswerStep
<1>6. CASE found # "match"
    <2>1. UNCHANGED gcAnswers
        BY <1>2, <1>3, <1>6 DEF FirstLookup, SecondLookup
    <2>2. \/ Finish(c, "conflict") /\ found = "conflict"
          \/ Finish(c, "exists")
          \/ gcCall' = [gcCall EXCEPT ![c].at = "insert"] /\ gcCall[c].at = "lookup"
        BY <1>2, <1>3, <1>6 DEF FirstLookup, SecondLookup
    <2>3. CASE Finish(c, "conflict") /\ found = "conflict"
        <3>1. PICK new \in Creation :
                /\ gcCall' = [gcCall EXCEPT ![c] = new] /\ new.outcome = "conflict"
                /\ new.key = gcCall[c].key /\ new.payload = gcCall[c].payload
            BY <1>1, <2>3, FinishFacts
        <3> QED BY <1>0, <1>3, <1>4, <2>1, <2>3, <3>1, SilentStep
    <2>4. CASE Finish(c, "exists")
        <3>1. PICK new \in Creation : gcCall' = [gcCall EXCEPT ![c] = new] /\ new.outcome = "exists"
            BY <1>1, <2>4, FinishFacts
        <3> QED BY <1>4, <2>1, <3>1, SilentStep
    <2>5. CASE gcCall' = [gcCall EXCEPT ![c].at = "insert"]
        <3>1. PICK new \in Creation :
                /\ gcCall' = [gcCall EXCEPT ![c] = new] /\ new.outcome = gcCall[c].outcome
                /\ new.key = gcCall[c].key /\ new.payload = gcCall[c].payload
            BY <1>1, <2>5, MovedFacts
        <3>2. new.outcome = "conflict" =>
                new.key \in DOMAIN gcRecords' /\ gcRecords'[new.key].payload # new.payload
            BY <1>0, <3>1 DEF CreationInv, ConflictIsAnother
        <3> QED BY <1>4, <2>1, <3>1, <3>2, SilentStep
    <2> QED BY <2>2, <2>3, <2>4, <2>5
<1> QED BY <1>5, <1>6

\* The transaction, answered or lost.
LEMMA InsertStep ==
    ASSUME CreationInv, NEW c \in Creators, InsertIdempotent(c) \/ LoseCreation(c)
    PROVE  CreationInv'
<1>0. gcCall[c].at # "idle"
    BY DEF InsertIdempotent, LoseCreation
<1>1. PICK q \in Creation : q = gcCall[c]
    BY <1>0, CallUnderWay
<1>2. \/ UNCHANGED <<gcGames, gcRecords>>
      \/ Inserts(q)
    BY <1>1 DEF InsertIdempotent, LoseCreation, Inserts
<1>3. /\ RecordsGrow /\ GamesAreRecorded' /\ DOMAIN gcRecords' \subseteq CreationKeys
      /\ \A key \in DOMAIN gcRecords' : gcRecords'[key] \in [payload: Payloads, game: GameIds]
    <2>1. CASE UNCHANGED <<gcGames, gcRecords>>
        BY <2>1, NothingInserted
    <2>2. CASE Inserts(q)
        <3>1. /\ GamesAreRecorded' /\ RecordsGrow
              /\ DOMAIN gcRecords' = DOMAIN gcRecords \cup {q.key}
              /\ gcRecords'[q.key] = [payload |-> q.payload, game |-> q.game]
            BY <2>2, InsertFacts
        <3>2. gcRecords'[q.key] \in [payload: Payloads, game: GameIds] /\ q.key \in CreationKeys
            BY <3>1 DEF Creation
        <3> QED BY <3>1, <3>2 DEF RecordsGrow, CreationInv, CallsAreTyped
    <2> QED BY <1>2, <2>1, <2>2
<1>4. CASE LoseCreation(c)
    <2>1. gcCall' = [gcCall EXCEPT ![c] = Waiting] /\ UNCHANGED gcAnswers
        BY <1>4 DEF LoseCreation
    <2>2. Waiting.outcome = "none"
        BY DEF Waiting
    <2> QED BY <1>3, <2>1, <2>2, SilentStep
<1>5. CASE InsertIdempotent(c) /\ gcCall' = [gcCall EXCEPT ![c].at = "again"] /\ UNCHANGED gcAnswers
    <2>1. PICK new \in Creation :
            /\ gcCall' = [gcCall EXCEPT ![c] = new] /\ new.outcome = gcCall[c].outcome
            /\ new.key = gcCall[c].key /\ new.payload = gcCall[c].payload
        BY <1>1, <1>5, MovedFacts
    <2>2. new.outcome = "conflict" =>
            new.key \in DOMAIN gcRecords' /\ gcRecords'[new.key].payload # new.payload
        BY <1>3, <2>1 DEF CreationInv, ConflictIsAnother, RecordsGrow
    <2> QED BY <1>3, <1>5, <2>1, <2>2, SilentStep
<1>6. CASE InsertIdempotent(c) /\ Inserts(q) /\ Answer(c, q.game)
    <2>1. /\ q.key \in DOMAIN gcRecords'
          /\ gcRecords'[q.key] = [payload |-> q.payload, game |-> q.game]
        BY <1>6, InsertFacts
    <2> QED BY <1>1, <1>3, <1>6, <2>1, AnswerStep
<1>7. InsertIdempotent(c) => \/ gcCall' = [gcCall EXCEPT ![c].at = "again"] /\ UNCHANGED gcAnswers
                             \/ Inserts(q) /\ Answer(c, q.game)
    BY <1>1 DEF InsertIdempotent, Inserts
<1> QED BY <1>4, <1>5, <1>6, <1>7

\* However creations race, repeat and are lost, for any number of callers,
\* keys, payloads and ids: one game per key, recorded with the payload that it
\* was created with, told to every caller that is answered, and no exact
\* repetition is refused.  That the games are exactly those of the records,
\* one each, is what the proof carries along.
THEOREM CreationIsSafe == CreationSpec => []CreationSafety
<1>1. CreationInit => CreationInv
    BY DEF CreationInit, CreationInv, CallsAreTyped, GamesAreRecorded, OneAnswerPerKey, ConflictIsAnother, Waiting
<1>2. CreationInv /\ [CreationNext]_creationVars => CreationInv'
    <2> SUFFICES ASSUME CreationInv, [CreationNext]_creationVars
                 PROVE  CreationInv'
        OBVIOUS
    <2>1. CASE UNCHANGED creationVars
        BY <2>1 DEF creationVars, CreationInv, CallsAreTyped, GamesAreRecorded, OneAnswerPerKey, ConflictIsAnother
    <2>2. ASSUME NEW c \in Creators, NEW key \in CreationKeys, NEW payload \in Payloads, NEW game \in GameIds,
                 BeginCreation(c, key, payload, game)
          PROVE  CreationInv'
        <3>1. PICK new : new = [at |-> "lookup", outcome |-> "none", key |-> key, payload |-> payload, game |-> game]
            OBVIOUS
        <3>2. new \in Creation /\ new.outcome = "none"
            BY <3>1 DEF Creation
        <3>3. gcCall' = [gcCall EXCEPT ![c] = new] /\ UNCHANGED <<gcGames, gcRecords, gcAnswers>>
            BY <2>2, <3>1 DEF BeginCreation
        <3> QED BY <3>2, <3>3, NothingInserted, SilentStep
    <2>3. ASSUME NEW c \in Creators, FirstLookup(c) \/ InsertIdempotent(c) \/ SecondLookup(c) \/ LoseCreation(c)
          PROVE  CreationInv'
        BY <2>3, LookupStep, InsertStep
    <2> QED BY <2>1, <2>2, <2>3, Zenon DEF CreationNext
<1>3. CreationInv => CreationSafety
    <2> SUFFICES ASSUME CreationInv
                 PROVE  EveryGameHasItsRecord
        BY DEF CreationInv, CreationSafety
    <2>1. \A key \in DOMAIN gcRecords : /\ gcRecords[key].game \in DOMAIN gcGames
                                        /\ gcGames[gcRecords[key].game] = gcRecords[key].payload
        BY DEF CreationInv, GamesAreRecorded
    <2>2. Cardinality({gcRecords[key].game : key \in DOMAIN gcRecords}) = Cardinality(DOMAIN gcGames)
        BY DEF CreationInv, GamesAreRecorded
    <2>3. IsInjective([key \in DOMAIN gcRecords |-> gcRecords[key].game])
        BY DEF IsInjective, CreationInv, GamesAreRecorded
    <2> QED BY <2>1, <2>2, <2>3 DEF EveryGameHasItsRecord
<1> QED BY <1>1, <1>2, <1>3, PTL DEF CreationSpec

-----------------------------------------------------------------------------
(* The preview allowance *)

\* Products that the solver is to see as numbers.
LEMMA Products ==
    ASSUME NEW m \in Nat, NEW k \in Nat
    PROVE  m * k \in Nat /\ m * (k + 1) = (m * k) + m
OBVIOUS

\* More windows, more previews.
LEMMA MoreIsMore ==
    ASSUME NEW m \in Nat, NEW k \in Nat, NEW n \in Nat, k <= n
    PROVE  m * k <= m * n
OBVIOUS

\* Whole windows that fit into the time passed.
LEMMA WholeWindows ==
    ASSUME NEW a \in Nat, NEW w \in Nat \ {0}, NEW t \in Nat, w * a <= t
    PROVE  t \div w \in Nat /\ a <= t \div w
<1>1. /\ t \div w \in Nat /\ t % w \in 0..(w - 1)
      /\ t = (w * (t \div w)) + (t % w)
    OBVIOUS
<1>2. PICK q \in Nat : q = t \div w
    BY <1>1
<1>3. CASE a >= q + 1
    <2>1. w * (q + 1) <= w * a
        BY <1>3, MoreIsMore
    <2>2. w * (q + 1) = (w * q) + w /\ w * q \in Nat /\ w * a \in Nat
        BY Products
    <2>3. t = (w * q) + (t % w) /\ t % w < w /\ t % w \in Nat
        BY <1>1, <1>2
    <2> QED BY <2>1, <2>2, <2>3
<1> QED BY <1>1, <1>2, <1>3

PreviewRangesOK ==
    /\ pvNow \in Nat /\ pvGranted \in Nat /\ pvPassed \in Nat /\ pvSetbacks \in Nat
    /\ pvWindow \in [open: BOOLEAN, started: Nat, requests: Nat]
    /\ pvRetry \in Int

\* Every window that is over is accounted for by a window's length of time or
\* by a setback; the one that is open is as old as the clock says, unless a
\* setback has not been used up for it.
Accounts(a, b) ==
    /\ pvGranted <= (PreviewMax * (a + b)) + pvWindow.requests
    /\ pvWindow.requests <= PreviewMax
    /\ PreviewWindowMs * a <= pvPassed /\ b <= pvSetbacks
    /\ pvWindow.open =>
          \/ b + 1 <= pvSetbacks
          \/ pvNow >= pvWindow.started /\ (PreviewWindowMs * a) + (pvNow - pvWindow.started) <= pvPassed
    /\ ~pvWindow.open => pvWindow.requests = 0

GrantsAreAccounted == \E a, b \in Nat : Accounts(a, b)

\* A refusal stands while the clock does.
RefusalStands ==
    pvRetry # -1 => /\ pvWindow.open /\ pvWindow.requests >= PreviewMax
                    /\ pvWindow.started <= pvNow /\ pvNow < pvWindow.started + PreviewWindowMs
                    /\ pvRetry = pvWindow.started + PreviewWindowMs - pvNow

PreviewInv == PreviewRangesOK /\ GrantsAreAccounted /\ RefusalStands

\* The same account with a window in which the clock is.
AccountsIn(w, c, d) ==
    /\ w \in [open: BOOLEAN, started: Nat, requests: Nat] /\ w.open
    /\ w.started <= pvNow /\ pvNow < w.started + PreviewWindowMs
    /\ pvGranted <= (PreviewMax * (c + d)) + w.requests
    /\ w.requests <= PreviewMax
    /\ PreviewWindowMs * c <= pvPassed /\ d <= pvSetbacks
    /\ \/ d + 1 <= pvSetbacks
       \/ (PreviewWindowMs * c) + (pvNow - w.started) <= pvPassed

\* The window that a request falls in keeps the account.
LEMMA WindowKeepsAccount ==
    ASSUME PreviewRangesOK, NEW a \in Nat, NEW b \in Nat, Accounts(a, b),
           NEW w, w = WindowAt(pvNow)
    PROVE  \E c, d \in Nat : AccountsIn(w, c, d)
<1>0. /\ PreviewWindowMs \in Nat /\ PreviewWindowMs > 0 /\ PreviewMax \in Nat
      /\ pvNow \in Nat /\ pvGranted \in Nat /\ pvPassed \in Nat /\ pvSetbacks \in Nat
      /\ pvWindow.started \in Nat /\ pvWindow.requests \in Nat /\ pvWindow.open \in BOOLEAN
    BY PreviewAssumption DEF PreviewRangesOK
<1>1. CASE ~Expired(pvWindow, pvNow)
    <2>1. w = pvWindow
        BY <1>1 DEF WindowAt
    <2>2. w.open /\ w.started <= pvNow /\ pvNow < w.started + PreviewWindowMs
        BY <1>0, <1>1, <2>1 DEF Expired
    <2>3. AccountsIn(w, a, b)
        BY <2>1, <2>2 DEF Accounts, PreviewRangesOK, AccountsIn
    <2> QED BY <2>3
<1>2. CASE Expired(pvWindow, pvNow)
    <2>1. /\ w = NewWindow(pvNow)
          /\ w \in [open: BOOLEAN, started: Nat, requests: Nat]
          /\ w.open /\ w.started = pvNow /\ w.requests = 0
        BY <1>0, <1>2 DEF WindowAt, NewWindow
    <2>2. /\ PreviewMax * (a + b) \in Nat
          /\ PreviewMax * ((a + b) + 1) = (PreviewMax * (a + b)) + PreviewMax
          /\ PreviewWindowMs * a \in Nat
          /\ PreviewWindowMs * (a + 1) = (PreviewWindowMs * a) + PreviewWindowMs
        BY <1>0, Products
    <2>3. /\ pvGranted <= (PreviewMax * (a + b)) + pvWindow.requests
          /\ pvWindow.requests <= PreviewMax
          /\ PreviewWindowMs * a <= pvPassed /\ b <= pvSetbacks
        BY DEF Accounts
    <2>4. pvGranted <= PreviewMax * ((a + b) + 1)
        BY <1>0, <2>2, <2>3
    <2>5. CASE ~pvWindow.open
        <3>1. pvGranted <= PreviewMax * (a + b)
            BY <1>0, <2>2, <2>3, <2>5 DEF Accounts
        <3>2. (PreviewWindowMs * a) + (pvNow - w.started) <= pvPassed
            BY <1>0, <2>1, <2>2, <2>3
        <3>3. pvGranted <= (PreviewMax * (a + b)) + w.requests
            BY <1>0, <2>1, <2>2, <3>1
        <3>4. AccountsIn(w, a, b)
             BY <1>0, <2>1, <2>3, <3>2, <3>3 DEF AccountsIn
        <3> QED BY <3>4
    <2>6. CASE b + 1 <= pvSetbacks
        <3>1. (a + b) + 1 = a + (b + 1)
            OBVIOUS
        <3>2. pvGranted <= (PreviewMax * (a + (b + 1))) + w.requests
            BY <1>0, <2>1, <2>2, <2>4, <3>1
        <3>3. (PreviewWindowMs * a) + (pvNow - w.started) <= pvPassed
            BY <1>0, <2>1, <2>2, <2>3
        <3>4. b + 1 \in Nat
            OBVIOUS
        <3>5. AccountsIn(w, a, b + 1)
             BY <1>0, <2>1, <2>3, <2>6, <3>2, <3>3, <3>4 DEF AccountsIn
        <3> QED BY <3>5, <3>4
    <2>7. CASE pvWindow.open /\ ~(b + 1 <= pvSetbacks)
        <3>1. pvNow >= pvWindow.started /\ (PreviewWindowMs * a) + (pvNow - pvWindow.started) <= pvPassed
            BY <2>7 DEF Accounts
        <3>2. pvNow - pvWindow.started >= PreviewWindowMs
            BY <1>0, <1>2, <2>7, <3>1 DEF Expired
        <3>3. PreviewWindowMs * (a + 1) <= pvPassed
            BY <1>0, <2>2, <3>1, <3>2
        <3>4. (a + b) + 1 = (a + 1) + b
            OBVIOUS
        <3>5. pvGranted <= (PreviewMax * ((a + 1) + b)) + w.requests
            BY <1>0, <2>1, <2>2, <2>4, <3>4
        <3>6. (PreviewWindowMs * (a + 1)) + (pvNow - w.started) <= pvPassed
            BY <1>0, <2>1, <2>2, <3>3
        <3>7. a + 1 \in Nat
            OBVIOUS
        <3>8. AccountsIn(w, a + 1, b)
             BY <1>0, <2>1, <2>3, <3>3, <3>5, <3>6, <3>7 DEF AccountsIn
        <3> QED BY <3>8, <3>7
    <2> QED BY <1>0, <2>5, <2>6, <2>7
<1> QED BY <1>1, <1>2

\* A request keeps the invariant: granted, it is within the window's limit.
LEMMA PreviewStep ==
    ASSUME PreviewInv, Preview
    PROVE  PreviewInv'
<1>0. /\ PreviewWindowMs \in Nat /\ PreviewMax \in Nat
      /\ pvNow \in Nat /\ pvGranted \in Nat /\ pvPassed \in Nat /\ pvSetbacks \in Nat
      /\ UNCHANGED <<pvNow, pvPassed, pvSetbacks>>
    BY PreviewAssumption DEF PreviewInv, PreviewRangesOK, Preview
<1>1. PICK w : w = WindowAt(pvNow)
    OBVIOUS
<1>2. PICK c, d \in Nat : AccountsIn(w, c, d)
    BY <1>1, WindowKeepsAccount DEF PreviewInv, GrantsAreAccounted
<1>3. /\ w \in [open: BOOLEAN, started: Nat, requests: Nat] /\ w.open
      /\ w.started \in Nat /\ w.requests \in Nat
      /\ w.started <= pvNow /\ pvNow < w.started + PreviewWindowMs
    BY <1>2 DEF AccountsIn
<1>4. PreviewMax * (c + d) \in Nat /\ PreviewWindowMs * c \in Nat
    BY <1>0, Products
<1>5. CASE w.requests < PreviewMax
    <2>1. PICK new : new = [w EXCEPT !.requests = @ + 1]
        OBVIOUS
    <2>2. /\ new \in [open: BOOLEAN, started: Nat, requests: Nat] /\ new.open
          /\ new.started = w.started /\ new.requests = w.requests + 1
        BY <1>3, <2>1
    <2>3. pvWindow' = new /\ pvGranted' = pvGranted + 1 /\ pvRetry' = -1
        BY <1>1, <1>5, <2>1 DEF Preview, Allowed
    <2>4. Accounts(c, d)'
        BY <1>0, <1>2, <1>3, <1>4, <1>5, <2>2, <2>3 DEF Accounts, AccountsIn
    <2>5. PreviewRangesOK' /\ RefusalStands'
        BY <1>0, <2>2, <2>3 DEF PreviewRangesOK, RefusalStands
    <2> QED BY <2>4, <2>5 DEF PreviewInv, GrantsAreAccounted
<1>6. CASE ~(w.requests < PreviewMax)
    <2>1. pvWindow' = w /\ pvGranted' = pvGranted /\ pvRetry' = w.started + PreviewWindowMs - pvNow
        BY <1>1, <1>6 DEF Preview, Allowed
    <2>2. Accounts(c, d)'
        BY <1>0, <1>2, <1>3, <2>1 DEF Accounts, AccountsIn
    <2>3. PreviewRangesOK' /\ RefusalStands'
        BY <1>0, <1>3, <1>6, <2>1 DEF PreviewRangesOK, RefusalStands
    <2> QED BY <2>2, <2>3 DEF PreviewInv, GrantsAreAccounted
<1> QED BY <1>5, <1>6

\* Time that passes ages the window by as much; a setback is one that a
\* window may be charged to.
LEMMA ClockStep ==
    ASSUME PreviewInv, PassTime \/ RestartServer \/ (\E t \in 0..LatestTime : SetClock(t))
    PROVE  PreviewInv'
<1>0. /\ PreviewWindowMs \in Nat /\ PreviewMax \in Nat /\ LatestTime \in Nat
      /\ pvNow \in Nat /\ pvGranted \in Nat /\ pvPassed \in Nat /\ pvSetbacks \in Nat
      /\ pvWindow \in [open: BOOLEAN, started: Nat, requests: Nat]
      /\ pvWindow.started \in Nat /\ pvWindow.requests \in Nat
    BY PreviewAssumption DEF PreviewInv, PreviewRangesOK
<1>1. PICK a, b \in Nat : Accounts(a, b)
    BY DEF PreviewInv, GrantsAreAccounted
<1>2. PreviewMax * (a + b) \in Nat /\ PreviewWindowMs * a \in Nat
    BY <1>0, Products
<1>3. pvRetry' = -1
    BY DEF PassTime, RestartServer, SetClock
<1>4. CASE PassTime
    <2>1. pvNow' = pvNow + 1 /\ pvPassed' = pvPassed + 1 /\ UNCHANGED <<pvWindow, pvGranted, pvSetbacks>>
        BY <1>4 DEF PassTime
    <2>2. Accounts(a, b)'
        BY <1>0, <1>1, <1>2, <2>1 DEF Accounts
    <2> QED BY <1>0, <1>3, <2>1, <2>2 DEF PreviewInv, PreviewRangesOK, RefusalStands, GrantsAreAccounted
<1>5. CASE RestartServer
    <2>1. /\ pvWindow' = NoWindow /\ pvSetbacks' = pvSetbacks + 1
          /\ UNCHANGED <<pvNow, pvGranted, pvPassed>>
        BY <1>5 DEF RestartServer
    <2>2. /\ NoWindow \in [open: BOOLEAN, started: Nat, requests: Nat]
          /\ ~NoWindow.open /\ NoWindow.requests = 0
        BY DEF NoWindow
    <2>3. PreviewMax * ((a + b) + 1) = (PreviewMax * (a + b)) + PreviewMax
        BY <1>0, Products
    <2>4. (a + b) + 1 = a + (b + 1) /\ b + 1 \in Nat
        OBVIOUS
    <2>5. pvGranted <= PreviewMax * (a + (b + 1))
        BY <1>0, <1>1, <1>2, <2>3, <2>4 DEF Accounts
    <2>6. Accounts(a, b + 1)'
        <3>1. b <= pvSetbacks /\ PreviewWindowMs * a <= pvPassed
            BY <1>1 DEF Accounts
        <3>2. PreviewMax * (a + (b + 1)) \in Nat
            BY <1>0, <1>2, <2>3, <2>4
        <3> QED BY <1>0, <1>2, <2>1, <2>2, <2>5, <3>1, <3>2 DEF Accounts
    <2>7. GrantsAreAccounted'
        BY <2>4, <2>6 DEF GrantsAreAccounted
    <2> QED BY <1>0, <1>3, <2>1, <2>2, <2>7 DEF PreviewInv, PreviewRangesOK, RefusalStands
<1>6. ASSUME NEW t \in 0..LatestTime, SetClock(t)
      PROVE  PreviewInv'
    <2>1. pvNow' = t /\ pvSetbacks' = pvSetbacks + 1 /\ UNCHANGED <<pvWindow, pvGranted, pvPassed>>
        BY <1>6 DEF SetClock
    <2>2. Accounts(a, b)'
        BY <1>0, <1>1, <1>2, <2>1 DEF Accounts
    <2> QED BY <1>0, <1>3, <2>1, <2>2 DEF PreviewInv, PreviewRangesOK, RefusalStands, GrantsAreAccounted
<1> QED BY <1>4, <1>5, <1>6

\* For every policy and every way the clock is set: a seat is granted no more
\* than its limit for each window of time that passed and each setback, and a
\* refused request is told exactly when to come back.  Which windows are paid
\* for by time and which by a setback is what the invariant keeps track of.
THEOREM PreviewsAreSafe == PreviewSpec => []PreviewSafety
<1>1. PreviewInit => PreviewInv
    <2> SUFFICES ASSUME PreviewInit
                 PROVE  PreviewInv
        OBVIOUS
    <2>1. /\ NoWindow \in [open: BOOLEAN, started: Nat, requests: Nat]
          /\ ~NoWindow.open /\ NoWindow.requests = 0
        BY DEF NoWindow
    <2>2. Accounts(0, 0)
        <3>1. PreviewMax * (0 + 0) = 0 /\ PreviewWindowMs * 0 = 0 /\ PreviewMax \in Nat
            BY PreviewAssumption
        <3> QED BY <2>1, <3>1 DEF PreviewInit, Accounts
    <2>3. GrantsAreAccounted
        BY <2>2 DEF GrantsAreAccounted
    <2> QED BY <2>1, <2>3 DEF PreviewInit, PreviewInv, PreviewRangesOK, RefusalStands
<1>2. PreviewInv /\ [PreviewNext]_previewVars => PreviewInv'
    <2>1. ASSUME PreviewInv, UNCHANGED previewVars
          PROVE  PreviewInv'
        BY <2>1 DEF previewVars, PreviewInv, PreviewRangesOK, GrantsAreAccounted, Accounts, RefusalStands
    <2> QED BY <2>1, PreviewStep, ClockStep DEF PreviewNext
<1>3. PreviewInv => PreviewSafety
    <2> SUFFICES ASSUME PreviewInv
                 PROVE  GrantsAreBounded /\ RetryAfterIsExact
        BY DEF PreviewSafety
    <2>0. /\ PreviewWindowMs \in Nat \ {0} /\ PreviewMax \in Nat \ {0}
          /\ pvNow \in Nat /\ pvGranted \in Nat /\ pvPassed \in Nat /\ pvSetbacks \in Nat
          /\ pvWindow.started \in Nat /\ pvWindow.requests \in Nat
        BY PreviewAssumption DEF PreviewInv, PreviewRangesOK
    <2>1. GrantsAreBounded
        <3>1. PICK a, b \in Nat : Accounts(a, b)
            BY DEF PreviewInv, GrantsAreAccounted
        <3>2. pvPassed \div PreviewWindowMs \in Nat /\ a <= pvPassed \div PreviewWindowMs
            BY <2>0, <3>1, WholeWindows DEF Accounts
        <3>3. PICK n \in Nat : n = 1 + pvPassed \div PreviewWindowMs + pvSetbacks
            <4>1. PICK k \in Nat : k = pvPassed \div PreviewWindowMs
                BY <3>2
            <4>2. 1 + k + pvSetbacks \in Nat
                BY <2>0
            <4> QED BY <4>1, <4>2
        <3>4. (a + b) + 1 <= n
            BY <2>0, <3>1, <3>2, <3>3 DEF Accounts
        <3>5. PreviewMax * ((a + b) + 1) <= PreviewMax * n
            BY <2>0, <3>4, MoreIsMore
        <3>6. PreviewMax * ((a + b) + 1) = (PreviewMax * (a + b)) + PreviewMax
            BY <2>0, Products
        <3>7. /\ PreviewMax * (a + b) \in Nat /\ PreviewMax * n \in Nat
              /\ PreviewMax * ((a + b) + 1) \in Nat
            BY <2>0, Products
        <3>8. pvGranted <= (PreviewMax * (a + b)) + PreviewMax
            BY <2>0, <3>1, <3>7 DEF Accounts
        <3>9. pvGranted <= PreviewMax * n
            BY <2>0, <3>5, <3>6, <3>7, <3>8
        <3> QED BY <3>3, <3>9 DEF GrantsAreBounded
    <2>2. RetryAfterIsExact
        <3> SUFFICES ASSUME pvRetry # -1
                     PROVE  /\ pvRetry \in 1..PreviewWindowMs
                            /\ Allowed(pvNow + pvRetry) /\ ~Allowed(pvNow + pvRetry - 1)
            BY DEF RetryAfterIsExact
        <3>1. /\ pvWindow.open /\ pvWindow.requests >= PreviewMax
              /\ pvWindow.started <= pvNow /\ pvNow < pvWindow.started + PreviewWindowMs
              /\ pvRetry = pvWindow.started + PreviewWindowMs - pvNow
            BY DEF PreviewInv, RefusalStands
        <3>2. PICK t \in Nat : t = pvNow + pvRetry
            BY <2>0, <3>1
        <3>3. t = pvWindow.started + PreviewWindowMs
            BY <2>0, <3>1, <3>2
        <3>4. Expired(pvWindow, t) /\ ~Expired(pvWindow, t - 1)
            BY <2>0, <3>1, <3>3 DEF Expired
        <3>5. Allowed(t)
            BY <2>0, <3>4 DEF Allowed, WindowAt, NewWindow
        <3>6. ~Allowed(t - 1)
            BY <2>0, <3>1, <3>4 DEF Allowed, WindowAt
        <3> QED BY <2>0, <3>1, <3>2, <3>5, <3>6
    <2> QED BY <2>1, <2>2
<1> QED BY <1>1, <1>2, <1>3, PTL DEF PreviewSpec

-----------------------------------------------------------------------------
(* The start of the server *)

\* The statements of migration 14 come in five groups and the history row.
N == Len(SeatTables)
M == Len(Indexed)

Statement == [op: {"rename", "create", "copy", "drop", "index", "record"}, table: Tables]
Table == [shape: {"absent", "old", "new"}, rows: BOOLEAN, indexed: BOOLEAN]
Proc == [at: {"down", "migrate", "key", "write_key", "restore", "bind", "serving"},
         next: 0..LastVersion, pc: 0..((4 * N) + M + 1), key: ServerProcesses \cup {Nobody}]

\* A group of statements is a sequence of them.
LEMMA EachFacts ==
    ASSUME NEW op \in {"rename", "create", "copy", "drop", "index", "record"}, NEW tables \in Seq(Tables)
    PROVE  /\ Each(op, tables) \in Seq(Statement) /\ Len(Each(op, tables)) = Len(tables)
           /\ Len(tables) \in Nat
           /\ \A i \in 1..Len(tables) : Each(op, tables)[i] = [op |-> op, table |-> tables[i]] /\ tables[i] \in Tables
<1>1. DOMAIN tables = 1..Len(tables) /\ Len(tables) \in Nat /\ \A i \in 1..Len(tables) : tables[i] \in Tables
    OBVIOUS
<1>2. DOMAIN Each(op, tables) = 1..Len(tables)
      /\ \A i \in 1..Len(tables) : Each(op, tables)[i] = [op |-> op, table |-> tables[i]]
    BY <1>1 DEF Each
<1>3. \A i \in 1..Len(tables) : Each(op, tables)[i] \in Statement
    BY <1>1, <1>2 DEF Statement
<1>4. Each(op, tables) \in Seq(Statement)
    <2>1. Each(op, tables) = [i \in 1..Len(tables) |-> [op |-> op, table |-> tables[i]]]
        BY <1>1 DEF Each
    <2>2. Each(op, tables) \in [1..Len(tables) -> Statement]
        BY <1>3, <2>1
    <2> QED BY <1>1, <2>2
<1> QED BY <1>1, <1>2, <1>4

\* Two sequences, one after the other.
LEMMA ConcatFacts ==
    ASSUME NEW S, NEW s \in Seq(S), NEW t \in Seq(S)
    PROVE  /\ s \o t \in Seq(S) /\ Len(s \o t) = Len(s) + Len(t)
           /\ Len(s) \in Nat /\ Len(t) \in Nat
           /\ \A i \in 1..Len(s) : (s \o t)[i] = s[i]
           /\ \A i \in 1..Len(t) : (s \o t)[Len(s) + i] = t[i]
OBVIOUS

\* What the script says at each place.
LEMMA ScriptFacts ==
    /\ N \in Nat \ {0} /\ M \in Nat /\ Len(Script) = (4 * N) + M + 1
    /\ \A i \in 1..N : /\ Script[i] = [op |-> "rename", table |-> SeatTables[i]]
                       /\ Script[N + i] = [op |-> "create", table |-> SeatTables[i]]
                       /\ Script[(2 * N) + i] = [op |-> "copy", table |-> SeatTables[i]]
                       /\ Script[(3 * N) + i] = [op |-> "drop", table |-> SeatTables[i]]
                       /\ SeatTables[i] \in Tables
    /\ \A j \in 1..M : Script[(4 * N) + j] = [op |-> "index", table |-> Indexed[j]] /\ Indexed[j] \in Tables
    /\ Script[(4 * N) + M + 1] = [op |-> "record", table |-> SeatTables[1]]
<1>0. /\ SeatTables \in Seq(Tables) /\ Indexed \in Seq(Tables) /\ SeatTables # <<>>
    BY StartupAssumption DEF Tables
<1>1. PICK a : a = Each("rename", SeatTables)
    OBVIOUS
<1>2. PICK b : b = Each("create", SeatTables)
    OBVIOUS
<1>3. PICK c : c = Each("copy", SeatTables)
    OBVIOUS
<1>4. PICK d : d = Each("drop", SeatTables)
    OBVIOUS
<1>5. PICK e : e = Each("index", Indexed)
    OBVIOUS
<1>6. /\ N \in Nat /\ M \in Nat /\ N # 0 /\ Head(SeatTables) = SeatTables[1] /\ SeatTables[1] \in Tables
    BY <1>0 DEF N, M
<1>7. /\ a \in Seq(Statement) /\ Len(a) = N /\ \A i \in 1..N : a[i] = [op |-> "rename", table |-> SeatTables[i]]
      /\ \A i \in 1..N : SeatTables[i] \in Tables
    BY <1>0, <1>1, EachFacts DEF N
<1>8. b \in Seq(Statement) /\ Len(b) = N /\ \A i \in 1..N : b[i] = [op |-> "create", table |-> SeatTables[i]]
    BY <1>0, <1>2, EachFacts DEF N
<1>9. c \in Seq(Statement) /\ Len(c) = N /\ \A i \in 1..N : c[i] = [op |-> "copy", table |-> SeatTables[i]]
    BY <1>0, <1>3, EachFacts DEF N
<1>10. d \in Seq(Statement) /\ Len(d) = N /\ \A i \in 1..N : d[i] = [op |-> "drop", table |-> SeatTables[i]]
    BY <1>0, <1>4, EachFacts DEF N
<1>11. /\ e \in Seq(Statement) /\ Len(e) = M /\ \A i \in 1..M : e[i] = [op |-> "index", table |-> Indexed[i]]
       /\ \A i \in 1..M : Indexed[i] \in Tables
    BY <1>0, <1>5, EachFacts DEF M
<1>12. PICK r : r = [op |-> "record", table |-> SeatTables[1]]
    OBVIOUS
<1>13. /\ Record = <<r>> /\ r \in Statement
    BY <1>6, <1>12 DEF Record, Statement
<1>14. <<r>> \in Seq(Statement) /\ Len(<<r>>) = 1 /\ <<r>>[1] = r
    BY <1>13
<1>15. PICK ab : ab = a \o b
    OBVIOUS
<1>16. /\ ab \in Seq(Statement) /\ Len(ab) = 2 * N
       /\ \A i \in 1..N : ab[i] = a[i] /\ ab[N + i] = b[i]
    <2>1. /\ a \in Seq(Statement) /\ b \in Seq(Statement) /\ Len(a) = N /\ Len(b) = N
          /\ N \in Nat /\ N \in Nat
        BY <1>6, <1>7, <1>8
    <2>2. /\ ab \in Seq(Statement) /\ Len(ab) = (N) + N
          /\ \A i \in 1..(N) : ab[i] = a[i]
          /\ \A i \in 1..N : ab[(N) + i] = b[i]
        <3>1. a \in Seq(Statement) /\ b \in Seq(Statement)
            BY <2>1
        <3>2. /\ a \o b \in Seq(Statement) /\ Len(a \o b) = Len(a) + Len(b)
              /\ \A i \in 1..Len(a) : (a \o b)[i] = a[i]
              /\ \A i \in 1..Len(b) : (a \o b)[Len(a) + i] = b[i]
            BY <3>1, ConcatFacts
        <3> QED BY <2>1, <3>2, <1>15
    <2> QED BY <1>6, <2>2
<1>17. PICK abc : abc = ab \o c
    OBVIOUS
<1>18. /\ abc \in Seq(Statement) /\ Len(abc) = 3 * N
       /\ \A i \in 1..(2 * N) : abc[i] = ab[i]
       /\ \A i \in 1..N : abc[(2 * N) + i] = c[i]
    <2>1. /\ ab \in Seq(Statement) /\ c \in Seq(Statement) /\ Len(ab) = 2 * N /\ Len(c) = N
          /\ 2 * N \in Nat /\ N \in Nat
        BY <1>6, <1>9, <1>16
    <2>2. /\ abc \in Seq(Statement) /\ Len(abc) = (2 * N) + N
          /\ \A i \in 1..(2 * N) : abc[i] = ab[i]
          /\ \A i \in 1..N : abc[(2 * N) + i] = c[i]
        <3>1. ab \in Seq(Statement) /\ c \in Seq(Statement)
            BY <2>1
        <3>2. /\ ab \o c \in Seq(Statement) /\ Len(ab \o c) = Len(ab) + Len(c)
              /\ \A i \in 1..Len(ab) : (ab \o c)[i] = ab[i]
              /\ \A i \in 1..Len(c) : (ab \o c)[Len(ab) + i] = c[i]
            BY <3>1, ConcatFacts
        <3> QED BY <2>1, <3>2, <1>17
    <2> QED BY <1>6, <2>2
<1>19. PICK abcd : abcd = abc \o d
    OBVIOUS
<1>20. /\ abcd \in Seq(Statement) /\ Len(abcd) = 4 * N
       /\ \A i \in 1..(3 * N) : abcd[i] = abc[i]
       /\ \A i \in 1..N : abcd[(3 * N) + i] = d[i]
    <2>1. /\ abc \in Seq(Statement) /\ d \in Seq(Statement) /\ Len(abc) = 3 * N /\ Len(d) = N
          /\ 3 * N \in Nat /\ N \in Nat
        BY <1>6, <1>10, <1>18
    <2>2. /\ abcd \in Seq(Statement) /\ Len(abcd) = (3 * N) + N
          /\ \A i \in 1..(3 * N) : abcd[i] = abc[i]
          /\ \A i \in 1..N : abcd[(3 * N) + i] = d[i]
        <3>1. abc \in Seq(Statement) /\ d \in Seq(Statement)
            BY <2>1
        <3>2. /\ abc \o d \in Seq(Statement) /\ Len(abc \o d) = Len(abc) + Len(d)
              /\ \A i \in 1..Len(abc) : (abc \o d)[i] = abc[i]
              /\ \A i \in 1..Len(d) : (abc \o d)[Len(abc) + i] = d[i]
            BY <3>1, ConcatFacts
        <3> QED BY <2>1, <3>2, <1>19
    <2> QED BY <1>6, <2>2
<1>21. PICK abcde : abcde = abcd \o e
    OBVIOUS
<1>22. /\ abcde \in Seq(Statement) /\ Len(abcde) = (4 * N) + M
       /\ \A i \in 1..(4 * N) : abcde[i] = abcd[i]
       /\ \A j \in 1..M : abcde[(4 * N) + j] = e[j]
    <2>1. /\ abcd \in Seq(Statement) /\ e \in Seq(Statement) /\ Len(abcd) = 4 * N /\ Len(e) = M
          /\ 4 * N \in Nat /\ M \in Nat
        BY <1>6, <1>11, <1>20
    <2>2. /\ abcde \in Seq(Statement) /\ Len(abcde) = (4 * N) + M
          /\ \A i \in 1..(4 * N) : abcde[i] = abcd[i]
          /\ \A i \in 1..M : abcde[(4 * N) + i] = e[i]
        <3>1. abcd \in Seq(Statement) /\ e \in Seq(Statement)
            BY <2>1
        <3>2. /\ abcd \o e \in Seq(Statement) /\ Len(abcd \o e) = Len(abcd) + Len(e)
              /\ \A i \in 1..Len(abcd) : (abcd \o e)[i] = abcd[i]
              /\ \A i \in 1..Len(e) : (abcd \o e)[Len(abcd) + i] = e[i]
            BY <3>1, ConcatFacts
        <3> QED BY <2>1, <3>2, <1>21
    <2> QED BY <1>6, <2>2
<1>23. Script = abcde \o <<r>>
    BY <1>1, <1>2, <1>3, <1>4, <1>5, <1>13, <1>15, <1>17, <1>19, <1>21, Zenon DEF Script
<1>24. /\ Len(Script) = (4 * N) + M + 1
       /\ \A i \in 1..((4 * N) + M) : Script[i] = abcde[i]
       /\ Script[(4 * N) + M + 1] = r
    <2>1. Len(abcde) = (4 * N) + M /\ (4 * N) + M \in Nat /\ abcde \in Seq(Statement)
        BY <1>6, <1>22
    <2>2. /\ Len(Script) = ((4 * N) + M) + 1
          /\ \A i \in 1..((4 * N) + M) : Script[i] = abcde[i]
          /\ \A i \in 1..1 : Script[((4 * N) + M) + i] = <<r>>[i]
        BY <1>14, <1>23, <2>1, ConcatFacts
    <2> QED BY <1>6, <1>14, <2>2
<1>25. ASSUME NEW i \in 1..N
       PROVE  /\ Script[i] = a[i] /\ Script[N + i] = b[i]
              /\ Script[(2 * N) + i] = c[i] /\ Script[(3 * N) + i] = d[i]
    <2>1. /\ i \in 1..(2 * N) /\ i \in 1..(3 * N) /\ i \in 1..(4 * N) /\ i \in 1..((4 * N) + M)
          /\ N + i \in 1..(2 * N) /\ N + i \in 1..(3 * N) /\ N + i \in 1..(4 * N) /\ N + i \in 1..((4 * N) + M)
          /\ (2 * N) + i \in 1..(3 * N) /\ (2 * N) + i \in 1..(4 * N) /\ (2 * N) + i \in 1..((4 * N) + M)
          /\ (3 * N) + i \in 1..(4 * N) /\ (3 * N) + i \in 1..((4 * N) + M)
        BY <1>6
    <2> QED BY SMTT(40), <1>16, <1>18, <1>20, <1>22, <1>24, <2>1
<1>26. ASSUME NEW j \in 1..M
       PROVE  Script[(4 * N) + j] = e[j]
    <2>1. (4 * N) + j \in 1..((4 * N) + M)
        BY <1>6
    <2> QED BY <1>22, <1>24, <2>1
<1> QED BY <1>6, <1>7, <1>8, <1>9, <1>10, <1>11, <1>12, <1>24, <1>25, <1>26

\* The script names a table once in each group.
LEMMA TablesDiffer == \A i, j \in 1..N : SeatTables[i] = SeatTables[j] => i = j
<1>1. DOMAIN SeatTables = 1..N
    BY StartupAssumption DEF N
<1> QED BY <1>1, StartupAssumption

\* A process that is in the untransacted migration, and the stretch of it
\* from the rename of a table until the drop of what was set aside.
Running(p) == suProc[p].at = "migrate" /\ suProc[p].next = LastVersion
Between(p, k) == Running(p) /\ k < suProc[p].pc /\ suProc[p].pc <= (3 * N) + k
Past == {"key", "write_key", "restore", "bind", "serving"}

StartupRangesOK ==
    /\ suRows \in BOOLEAN /\ suAlone \in BOOLEAN
    /\ suRecorded \in 0..LastVersion
    /\ suMain \in [Tables -> Table] /\ suAside \in [Tables -> Table]
    /\ suProc \in [ServerProcesses -> Proc]
    /\ suPort \in ServerProcesses \cup {Nobody} /\ suRunner \in ServerProcesses \cup {Nobody}
    /\ suKey \in {"absent", "empty"} \cup ServerProcesses

\* A start is never ahead of the history, and gets past it only at its end.
VersionsAreOrdered ==
    /\ suRows => suRecorded >= LastVersion - 1
    /\ \A p \in ServerProcesses :
        /\ suProc[p].at = "down" => suProc[p] = Down
        /\ suProc[p].at = "migrate" => /\ suProc[p].next \in 1..(suRecorded + 1) /\ suProc[p].pc >= 1
                                       /\ suProc[p].next < LastVersion => suProc[p].pc = 1
        /\ suProc[p].at \in Past => suRecorded = LastVersion

\* The rows of the k-th table are where they were put.  One process at most is
\* between the rename and the drop: the rename needs the place that only the
\* drop makes free.  It finds what it has created and copied.
TableIsSafe(k) ==
    /\ (suMain[SeatTables[k]].rows \/ suAside[SeatTables[k]].rows) <=> suRows
    /\ \A p \in ServerProcesses : Between(p, k) =>
        /\ suAside[SeatTables[k]] # NoTable
        /\ suProc[p].pc > N + k => suMain[SeatTables[k]] # NoTable
        /\ suProc[p].pc > (2 * N) + k /\ suRows => suMain[SeatTables[k]].rows
        /\ \A q \in ServerProcesses : Between(q, k) => q = p

TablesAreSafe == \A k \in 1..N : TableIsSafe(k)

\* The key is written once, before anybody has read it.
KeyIsHeld ==
    \A p \in ServerProcesses :
        /\ suProc[p].at \in {"restore", "bind", "serving"} => suKey = suProc[p].key /\ suKey \in ServerProcesses
        /\ suProc[p].at = "write_key" =>
              suKey = "empty" /\ \A q \in ServerProcesses : suProc[q].at = "write_key" => q = p

\* The port and the runner are of a process that serves.
PortIsHeld ==
    /\ \A p \in ServerProcesses : suProc[p].at = "serving" <=> suPort = p
    /\ suRunner # Nobody => suRunner = suPort

\* What a process that is alone has made of the k-th table.
Fresh(filled, indexed) == [shape |-> "new", rows |-> filled, indexed |-> indexed]
IndexedBy(t, pc) == \E j \in 1..M : Indexed[j] = t /\ (4 * N) + j < pc
Rebuilt(k, pc) ==
    /\ k < pc /\ pc <= N + k => suMain[SeatTables[k]] = NoTable
    /\ N + k < pc /\ pc <= (2 * N) + k => suMain[SeatTables[k]] = Fresh(FALSE, FALSE)
    /\ (2 * N) + k < pc /\ pc <= (3 * N) + k => suMain[SeatTables[k]] = Fresh(suRows, FALSE)
    /\ (3 * N) + k < pc => /\ suAside[SeatTables[k]] = NoTable
                           /\ suMain[SeatTables[k]] = Fresh(suRows, IndexedBy(SeatTables[k], pc))

Whole == \A t \in Tables : suMain[t] = Fresh(suRows, t \in ToSet(Indexed)) /\ suAside[t] = NoTable

AloneRebuilds ==
    suAlone => /\ \A p, q \in ServerProcesses : suProc[p].at # "down" /\ suProc[q].at # "down" => p = q
               /\ \A p \in ServerProcesses : suProc[p].at = "migrate" => suProc[p].next = suRecorded + 1
               /\ \A p \in ServerProcesses : Running(p) => \A k \in 1..N : Rebuilt(k, suProc[p].pc)
               /\ suRecorded = LastVersion => Whole

\* Past restore, an active match has the runner that made it so.
AloneRuns ==
    suAlone => \A p \in ServerProcesses :
        suProc[p].at \in {"bind", "serving"} /\ suMatch = "active" => suRunner # Nobody

StartupInv ==
    /\ StartupRangesOK /\ VersionsAreOrdered /\ TablesAreSafe /\ KeyIsHeld /\ PortIsHeld
    /\ AloneRebuilds /\ AloneRuns

\* The process that is down.
LEMMA DownFacts ==
    Down \in Proc /\ Down.at = "down" /\ Down.next = 0 /\ Down.pc = 0 /\ Down.key = Nobody
<1>1. N \in Nat /\ M \in Nat /\ LastVersion \in Nat
    BY ScriptFacts, StartupAssumption
<1> QED BY <1>1 DEF Down, Proc

\* One process goes on.
LEMMA OneProcChanges ==
    ASSUME StartupInv, NEW p \in ServerProcesses, NEW new \in Proc, suProc' = [suProc EXCEPT ![p] = new]
    PROVE  /\ suProc' \in [ServerProcesses -> Proc]
           /\ suProc'[p] = new /\ \A q \in ServerProcesses \ {p} : suProc'[q] = suProc[q]
BY DEF StartupInv, StartupRangesOK

\* A process that is up is the only one, if it was started alone.
LEMMA AloneIsAlone ==
    ASSUME StartupInv, suAlone, NEW p \in ServerProcesses, suProc[p].at # "down"
    PROVE  \A q \in ServerProcesses \ {p} : suProc[q].at = "down" /\ suProc[q] = Down
BY DEF StartupInv, AloneRebuilds, VersionsAreOrdered

\* A step of a process outside the migrations keeps what is said of them.
LEMMA QuietStep ==
    ASSUME StartupInv, NEW p \in ServerProcesses, NEW new \in Proc, suProc' = [suProc EXCEPT ![p] = new],
           UNCHANGED <<suRecorded, suMain, suAside, suRows>>,
           new.at = "down" => new = Down,
           new.at = "migrate" => new.pc = 1 /\ new.next = suRecorded + 1,
           new.at \in Past => suRecorded = LastVersion,
           suAlone' \in BOOLEAN, suAlone' => suAlone /\ \A q \in ServerProcesses \ {p} : suProc[q].at = "down"
    PROVE  /\ VersionsAreOrdered' /\ TablesAreSafe' /\ AloneRebuilds'
           /\ suProc' \in [ServerProcesses -> Proc]
<1>0. /\ N \in Nat /\ M \in Nat /\ LastVersion \in Nat /\ suRecorded \in Nat
    BY ScriptFacts, StartupAssumption DEF StartupInv, StartupRangesOK
<1>1. /\ suProc' \in [ServerProcesses -> Proc]
      /\ suProc'[p] = new /\ \A q \in ServerProcesses \ {p} : suProc'[q] = suProc[q]
    BY OneProcChanges
<1>2. VersionsAreOrdered'
    <2>1. suRows' => suRecorded' >= LastVersion - 1
        BY DEF StartupInv, VersionsAreOrdered
    <2>2. ASSUME NEW q \in ServerProcesses
          PROVE  /\ suProc'[q].at = "down" => suProc'[q] = Down
                 /\ suProc'[q].at = "migrate" => /\ suProc'[q].next \in 1..(suRecorded' + 1) /\ suProc'[q].pc >= 1
                                                 /\ suProc'[q].next < LastVersion => suProc'[q].pc = 1
                 /\ suProc'[q].at \in Past => suRecorded' = LastVersion
        <3>1. CASE q = p
            BY <1>0, <1>1, <3>1
        <3>2. CASE q # p
            BY <1>1, <3>2 DEF StartupInv, VersionsAreOrdered
        <3> QED BY <3>1, <3>2
    <2> QED BY <2>1, <2>2 DEF VersionsAreOrdered
<1>3. \A q \in ServerProcesses, k \in 1..N : Between(q, k)' => Between(q, k) /\ suProc'[q] = suProc[q]
    BY <1>0, <1>1 DEF Between, Running
<1>4. TablesAreSafe'
    BY <1>3 DEF StartupInv, TablesAreSafe, TableIsSafe
<1>5. AloneRebuilds'
    <2> SUFFICES ASSUME suAlone'
                 PROVE  AloneRebuilds'
        BY DEF AloneRebuilds
    <2>1. suAlone /\ \A q \in ServerProcesses \ {p} : suProc'[q].at = "down"
        BY <1>1
    <2>2. \A q, r \in ServerProcesses : suProc'[q].at # "down" /\ suProc'[r].at # "down" => q = r
        BY <2>1
    <2>3. \A q \in ServerProcesses : suProc'[q].at = "migrate" => suProc'[q].next = suRecorded' + 1
        BY <1>1, <2>1
    <2>4. \A q \in ServerProcesses : Running(q)' => \A k \in 1..N : Rebuilt(k, suProc[q].pc)'
        <3> SUFFICES ASSUME NEW q \in ServerProcesses, Running(q)', NEW k \in 1..N
                     PROVE  Rebuilt(k, suProc[q].pc)'
            OBVIOUS
        <3>1. suProc'[q].pc = 1
            BY <1>1, <2>1 DEF Running
        <3>2. ~(k < suProc'[q].pc) /\ ~(N + k < suProc'[q].pc) /\ ~((2 * N) + k < suProc'[q].pc)
              /\ ~((3 * N) + k < suProc'[q].pc)
            BY <1>0, <3>1
        <3> QED BY <3>2, Zenon DEF Rebuilt
    <2>5. suRecorded' = LastVersion => Whole'
        BY <2>1 DEF StartupInv, AloneRebuilds, Whole
    <2> QED BY <2>2, <2>3, <2>4, <2>5, Zenon DEF AloneRebuilds
<1> QED BY <1>1, <1>2, <1>4, <1>5

\* An error ends the start of a process that does not serve yet.
LEMMA FailStep ==
    ASSUME StartupInv, NEW p \in ServerProcesses, suProc[p].at \notin {"down", "serving"}, Fail(p),
           UNCHANGED <<suRecorded, suMain, suAside, suKey, suPort, suMatch, suRunner, suRows, suAlone>>
    PROVE  StartupInv'
<1>1. suProc' = [suProc EXCEPT ![p] = Down] /\ Down \in Proc /\ Down.at = "down"
    BY DownFacts DEF Fail
<1>2. /\ suProc' \in [ServerProcesses -> Proc]
      /\ suProc'[p] = Down /\ \A q \in ServerProcesses \ {p} : suProc'[q] = suProc[q]
    BY <1>1, OneProcChanges
<1>3. VersionsAreOrdered' /\ TablesAreSafe' /\ AloneRebuilds'
    <2>1. suAlone => \A q \in ServerProcesses \ {p} : suProc[q].at = "down"
        BY AloneIsAlone
    <2>2. suAlone \in BOOLEAN
        BY DEF StartupInv, StartupRangesOK
    <2> QED BY <1>1, <2>1, <2>2, QuietStep DEF Past
<1>4. StartupRangesOK'
    BY <1>2 DEF StartupInv, StartupRangesOK
<1>5. KeyIsHeld' /\ PortIsHeld' /\ AloneRuns'
    <2>1. KeyIsHeld'
        BY <1>1, <1>2 DEF StartupInv, KeyIsHeld
    <2>2. PortIsHeld'
        BY <1>1, <1>2 DEF StartupInv, PortIsHeld
    <2>3. AloneRuns'
        BY <1>1, <1>2 DEF StartupInv, AloneRuns
    <2> QED BY <2>1, <2>2, <2>3
<1> QED BY <1>3, <1>4, <1>5 DEF StartupInv

\* A process is started, alone or beside another.
LEMMA StartStep ==
    ASSUME StartupInv, NEW p \in ServerProcesses, StartProcess(p), UNCHANGED suRows
    PROVE  StartupInv'
<1>0. /\ suProc[p] = Down /\ UNCHANGED <<suRecorded, suMain, suAside, suKey, suPort, suMatch, suRunner, suRows>>
      /\ suAlone' = (suAlone /\ \A q \in ServerProcesses : suProc[q] = Down)
      /\ suRecorded \in 0..LastVersion /\ LastVersion \in Nat /\ N \in Nat /\ M \in Nat
    BY ScriptFacts, StartupAssumption DEF StartProcess, StartupInv, StartupRangesOK
<1>1. PICK new : new = IF suRecorded = LastVersion THEN [Down EXCEPT !.at = "key"]
                       ELSE [Down EXCEPT !.at = "migrate", !.next = suRecorded + 1, !.pc = 1]
    OBVIOUS
<1>2. suProc' = [suProc EXCEPT ![p] = new]
    BY <1>1 DEF StartProcess
<1>3. /\ new \in Proc /\ new.at \in {"key", "migrate"}
      /\ new.at = "migrate" => new.pc = 1 /\ new.next = suRecorded + 1
      /\ new.at = "key" => suRecorded = LastVersion
    <2>1. CASE suRecorded = LastVersion
        <3>1. new = [Down EXCEPT !.at = "key"]
            BY <1>1, <2>1
        <3> QED BY <1>0, <2>1, <3>1 DEF Down, Proc
    <2>2. CASE suRecorded # LastVersion
        <3>1. new = [Down EXCEPT !.at = "migrate", !.next = suRecorded + 1, !.pc = 1]
            BY <1>1, <2>2
        <3>2. suRecorded + 1 \in 0..LastVersion /\ 1 \in 0..((4 * N) + M + 1)
            BY <1>0, <2>2
        <3>3. new = [at |-> "migrate", next |-> suRecorded + 1, pc |-> 1, key |-> Nobody]
            BY <3>1 DEF Down
        <3> QED BY <3>2, <3>3 DEF Proc
    <2> QED BY <2>1, <2>2
<1>4. /\ suProc' \in [ServerProcesses -> Proc]
      /\ suProc'[p] = new /\ \A q \in ServerProcesses \ {p} : suProc'[q] = suProc[q]
    BY <1>2, <1>3, OneProcChanges
<1>5. suAlone' \in BOOLEAN /\ (suAlone' => suAlone /\ \A q \in ServerProcesses \ {p} : suProc[q].at = "down")
    <2>1. \A q \in ServerProcesses : suProc[q] = Down => suProc[q].at = "down"
        BY DownFacts
    <2>2. suAlone' \in BOOLEAN
        BY <1>0
    <2>3. suAlone' => suAlone /\ \A q \in ServerProcesses : suProc[q] = Down
        BY <1>0
    <2> QED BY <2>1, <2>2, <2>3
<1>6. VersionsAreOrdered' /\ TablesAreSafe' /\ AloneRebuilds'
    BY <1>0, <1>2, <1>3, <1>5, QuietStep DEF Past
<1>7. StartupRangesOK'
    BY <1>0, <1>4, <1>5 DEF StartupInv, StartupRangesOK
<1>8. KeyIsHeld' /\ PortIsHeld'
    <2>1. suProc[p].at = "down"
        BY <1>0, DownFacts
    <2>2. KeyIsHeld'
        BY <1>0, <1>3, <1>4, <2>1 DEF StartupInv, KeyIsHeld
    <2>3. PortIsHeld'
        BY <1>0, <1>3, <1>4, <2>1 DEF StartupInv, PortIsHeld
    <2> QED BY <2>2, <2>3
<1>9. AloneRuns'
    BY <1>0, <1>3, <1>4, <1>5 DEF StartupInv, AloneRuns
<1> QED BY <1>6, <1>7, <1>8, <1>9 DEF StartupInv

\* A process past the migrations goes on, or is where it was.
LEMMA PastStep ==
    ASSUME StartupInv, NEW p \in ServerProcesses, suProc[p].at \in Past, NEW new \in Proc, new.at \in Past,
           suProc' = [suProc EXCEPT ![p] = new],
           UNCHANGED <<suRecorded, suMain, suAside, suRows, suAlone>>,
           suPort' \in ServerProcesses \cup {Nobody}, suRunner' \in ServerProcesses \cup {Nobody},
           suKey' \in {"absent", "empty"} \cup ServerProcesses
    PROVE  VersionsAreOrdered' /\ TablesAreSafe' /\ AloneRebuilds' /\ StartupRangesOK'
<1>1. suRecorded = LastVersion /\ suProc[p].at # "down" /\ suAlone \in BOOLEAN
    BY DEF StartupInv, VersionsAreOrdered, Past, StartupRangesOK
<1>2. suAlone => \A q \in ServerProcesses \ {p} : suProc[q].at = "down"
    BY <1>1, AloneIsAlone
<1>3. /\ VersionsAreOrdered' /\ TablesAreSafe' /\ AloneRebuilds'
      /\ suProc' \in [ServerProcesses -> Proc]
    BY <1>1, <1>2, QuietStep DEF Past
<1> QED BY <1>3 DEF StartupInv, StartupRangesOK

\* The key is opened, created or found, and written.
LEMMA KeyStep ==
    ASSUME StartupInv, NEW p \in ServerProcesses, KeyOpen(p) \/ KeyWrite(p), UNCHANGED suRows
    PROVE  StartupInv'
<1>0. /\ UNCHANGED <<suRecorded, suMain, suAside, suPort, suMatch, suRunner, suAlone>>
      /\ suProc[p].at \in {"key", "write_key"} /\ suProc[p] \in Proc
    BY DEF KeyOpen, KeyWrite, StartupInv, StartupRangesOK
<1>a. {Nobody, "absent", "empty"} \cap ServerProcesses = {}
    BY StartupAssumption
<1>1. CASE KeyOpen(p) /\ suKey = "empty"
    <2>1. Fail(p) /\ UNCHANGED suKey
        BY <1>1 DEF KeyOpen
    <2> QED BY <1>0, <2>1, FailStep
<1>2. ASSUME NEW new \in Proc, new.at \in {"write_key", "restore"}, suProc' = [suProc EXCEPT ![p] = new],
             suKey' \in {"empty"} \cup ServerProcesses, KeyIsHeld'
      PROVE  StartupInv'
    <2>1. VersionsAreOrdered' /\ TablesAreSafe' /\ AloneRebuilds' /\ StartupRangesOK'
        <3>1. suPort \in ServerProcesses \cup {Nobody} /\ suRunner \in ServerProcesses \cup {Nobody}
            BY DEF StartupInv, StartupRangesOK
        <3> QED BY <1>0, <1>2, <3>1, PastStep DEF Past
    <2>2. /\ suProc'[p] = new /\ \A q \in ServerProcesses \ {p} : suProc'[q] = suProc[q]
        BY <1>2, OneProcChanges
    <2>3. PortIsHeld' /\ AloneRuns'
        BY <1>0, <1>2, <2>2 DEF StartupInv, PortIsHeld, AloneRuns
    <2> QED BY <1>2, <2>1, <2>3 DEF StartupInv
<1>3. CASE KeyOpen(p) /\ suKey = "absent"
    <2>1. PICK new : new = [suProc[p] EXCEPT !.at = "write_key"]
        OBVIOUS
    <2>2. suKey' = "empty" /\ suProc' = [suProc EXCEPT ![p] = new]
        BY <1>3, <2>1 DEF KeyOpen
    <2>3. new \in Proc /\ new.at = "write_key"
        BY <1>0, <2>1 DEF Proc
    <2>4. /\ suProc'[p] = new /\ \A q \in ServerProcesses \ {p} : suProc'[q] = suProc[q]
        BY <2>2, <2>3, OneProcChanges
    <2>5. \A q \in ServerProcesses : suProc[q].at \notin {"restore", "bind", "serving", "write_key"}
        BY <1>3, <1>a DEF StartupInv, KeyIsHeld
    <2>6. KeyIsHeld'
        BY <2>2, <2>3, <2>4, <2>5 DEF KeyIsHeld
    <2> QED BY <1>2, <2>2, <2>3, <2>6
<1>4. CASE KeyOpen(p) /\ suKey \notin {"absent", "empty"}
    <2>0. suKey \in ServerProcesses
        BY <1>4 DEF StartupInv, StartupRangesOK
    <2>1. PICK new : new = [suProc[p] EXCEPT !.at = "restore", !.key = suKey]
        OBVIOUS
    <2>2. UNCHANGED suKey /\ suProc' = [suProc EXCEPT ![p] = new]
        BY <1>4, <2>1 DEF KeyOpen, StartupInv, StartupRangesOK
    <2>3. new \in Proc /\ new.at = "restore" /\ new.key = suKey
        BY <1>0, <2>0, <2>1 DEF Proc
    <2>4. /\ suProc'[p] = new /\ \A q \in ServerProcesses \ {p} : suProc'[q] = suProc[q]
        BY <2>2, <2>3, OneProcChanges
    <2>5. KeyIsHeld'
        BY <2>0, <2>2, <2>3, <2>4 DEF StartupInv, KeyIsHeld
    <2> QED BY <1>2, <2>0, <2>2, <2>3, <2>5
<1>5. CASE KeyWrite(p)
    <2>1. PICK new : new = [suProc[p] EXCEPT !.at = "restore", !.key = p]
        OBVIOUS
    <2>2. suProc[p].at = "write_key" /\ suKey' = p /\ suProc' = [suProc EXCEPT ![p] = new]
        BY <1>5, <2>1 DEF KeyWrite, StartupInv, StartupRangesOK
    <2>3. new \in Proc /\ new.at = "restore" /\ new.key = p
        BY <1>0, <2>1 DEF Proc
    <2>4. /\ suProc'[p] = new /\ \A q \in ServerProcesses \ {p} : suProc'[q] = suProc[q]
        BY <2>2, <2>3, OneProcChanges
    <2>5. \A q \in ServerProcesses \ {p} : suProc[q].at \notin {"restore", "bind", "serving", "write_key"}
        BY <2>2, <1>a DEF StartupInv, KeyIsHeld
    <2>6. KeyIsHeld'
        BY <2>2, <2>3, <2>4, <2>5 DEF KeyIsHeld
    <2> QED BY <1>2, <2>2, <2>3, <2>6
<1> QED BY <1>1, <1>3, <1>4, <1>5

\* The matches of a former process, and the port.
LEMMA BindStep ==
    ASSUME StartupInv, NEW p \in ServerProcesses, Restore(p) \/ Bind(p), UNCHANGED suRows
    PROVE  StartupInv'
<1>0. /\ UNCHANGED <<suRecorded, suMain, suAside, suKey, suRunner, suAlone>>
      /\ suProc[p].at \in {"restore", "bind"} /\ suProc[p] \in Proc
      /\ suPort \in ServerProcesses \cup {Nobody} /\ suRunner \in ServerProcesses \cup {Nobody}
      /\ suKey \in {"absent", "empty"} \cup ServerProcesses
    BY DEF Restore, Bind, StartupInv, StartupRangesOK
<1>a. Nobody \notin ServerProcesses
    BY StartupAssumption
<1>1. CASE Bind(p) /\ suPort # Nobody
    <2>1. Fail(p) /\ UNCHANGED <<suPort, suMatch>>
        BY <1>1 DEF Bind
    <2> QED BY <1>0, <2>1, FailStep
<1>2. CASE Restore(p)
    <2>1. PICK new : new = [suProc[p] EXCEPT !.at = "bind"]
        OBVIOUS
    <2>2. /\ suProc' = [suProc EXCEPT ![p] = new] /\ suMatch' # "active" /\ UNCHANGED suPort
          /\ suProc[p].at = "restore"
        BY <1>2, <2>1 DEF Restore
    <2>3. new \in Proc /\ new.at = "bind" /\ new.key = suProc[p].key
        BY <1>0, <2>1 DEF Proc
    <2>4. /\ suProc'[p] = new /\ \A q \in ServerProcesses \ {p} : suProc'[q] = suProc[q]
        BY <2>2, <2>3, OneProcChanges
    <2>5. VersionsAreOrdered' /\ TablesAreSafe' /\ AloneRebuilds' /\ StartupRangesOK'
        BY <1>0, <2>2, <2>3, PastStep DEF Past
    <2>6. KeyIsHeld'
        BY <1>0, <2>2, <2>3, <2>4 DEF StartupInv, KeyIsHeld
    <2>7. PortIsHeld' /\ AloneRuns'
        BY <1>0, <2>2, <2>3, <2>4 DEF StartupInv, PortIsHeld, AloneRuns
    <2> QED BY <2>5, <2>6, <2>7 DEF StartupInv
<1>3. CASE Bind(p) /\ suPort = Nobody
    <2>1. PICK new : new = [suProc[p] EXCEPT !.at = "serving"]
        OBVIOUS
    <2>2. /\ suProc' = [suProc EXCEPT ![p] = new] /\ suPort' = p /\ UNCHANGED suMatch
          /\ suProc[p].at = "bind"
        BY <1>3, <2>1 DEF Bind
    <2>3. new \in Proc /\ new.at = "serving" /\ new.key = suProc[p].key
        BY <1>0, <2>1 DEF Proc
    <2>4. /\ suProc'[p] = new /\ \A q \in ServerProcesses \ {p} : suProc'[q] = suProc[q]
        BY <2>2, <2>3, OneProcChanges
    <2>5. VersionsAreOrdered' /\ TablesAreSafe' /\ AloneRebuilds' /\ StartupRangesOK'
        BY <1>0, <2>2, <2>3, PastStep DEF Past
    <2>6. KeyIsHeld'
        BY <1>0, <2>2, <2>3, <2>4 DEF StartupInv, KeyIsHeld
    <2>7. PortIsHeld'
        BY <1>0, <1>3, <1>a, <2>2, <2>3, <2>4 DEF StartupInv, PortIsHeld
    <2>8. AloneRuns'
        BY <1>0, <2>2, <2>3, <2>4 DEF StartupInv, AloneRuns
    <2> QED BY <2>5, <2>6, <2>7, <2>8 DEF StartupInv
<1> QED BY <1>1, <1>2, <1>3

\* A server runs a match, or a process crashes.
LEMMA ServeOrCrash ==
    ASSUME StartupInv, NEW p \in ServerProcesses, RunMatch(p) \/ CrashProcess(p), UNCHANGED suRows
    PROVE  StartupInv'
<1>0. /\ UNCHANGED <<suRecorded, suMain, suAside, suKey, suAlone>> /\ suAlone \in BOOLEAN
      /\ suPort \in ServerProcesses \cup {Nobody} /\ suRunner \in ServerProcesses \cup {Nobody}
    BY DEF RunMatch, CrashProcess, StartupInv, StartupRangesOK
<1>a. Nobody \notin ServerProcesses
    BY StartupAssumption
<1>1. CASE RunMatch(p)
    <2>1. /\ suProc[p].at = "serving" /\ UNCHANGED <<suProc, suPort>>
          /\ \/ suRunner' = p
             \/ suMatch' = "finished" /\ suRunner' = Nobody
        BY <1>1 DEF RunMatch
    <2>2. suPort = p
        BY <2>1 DEF StartupInv, PortIsHeld
    <2>3. StartupRangesOK' /\ PortIsHeld'
        BY <1>0, <2>1, <2>2 DEF StartupInv, StartupRangesOK, PortIsHeld
    <2>4. VersionsAreOrdered' /\ KeyIsHeld'
        BY <1>0, <2>1 DEF StartupInv, VersionsAreOrdered, KeyIsHeld
    <2>5. TablesAreSafe'
        BY <1>0, <2>1 DEF StartupInv, TablesAreSafe, TableIsSafe, Between, Running
    <2>6. AloneRebuilds'
        BY <1>0, <2>1 DEF StartupInv, AloneRebuilds, Running, Rebuilt, Whole
    <2>7. AloneRuns'
        BY <1>0, <1>a, <2>1 DEF StartupInv, AloneRuns
    <2> QED BY <2>3, <2>4, <2>5, <2>6, <2>7 DEF StartupInv
<1>2. CASE CrashProcess(p)
    <2>1. /\ suProc[p] # Down /\ suProc' = [suProc EXCEPT ![p] = Down] /\ Down \in Proc /\ Down.at = "down"
          /\ suPort' = (IF suPort = p THEN Nobody ELSE suPort)
          /\ suRunner' = (IF suRunner = p THEN Nobody ELSE suRunner) /\ UNCHANGED suMatch
        BY <1>2, DownFacts DEF CrashProcess, Fail
    <2>2. /\ suProc'[p] = Down /\ \A q \in ServerProcesses \ {p} : suProc'[q] = suProc[q]
          /\ suProc' \in [ServerProcesses -> Proc]
        BY <2>1, OneProcChanges
    <2>3. suProc[p].at # "down"
        BY <2>1 DEF StartupInv, VersionsAreOrdered
    <2>4. suAlone => \A q \in ServerProcesses \ {p} : suProc[q].at = "down"
        BY <2>3, AloneIsAlone
    <2>5. VersionsAreOrdered' /\ TablesAreSafe' /\ AloneRebuilds'
        BY <1>0, <2>1, <2>4, QuietStep DEF Past
    <2>6. StartupRangesOK'
        BY <1>0, <2>1, <2>2 DEF StartupInv, StartupRangesOK
    <2>7. KeyIsHeld'
        BY <1>0, <2>1, <2>2 DEF StartupInv, KeyIsHeld
    <2>8. PortIsHeld'
        BY <1>0, <1>a, <2>1, <2>2 DEF StartupInv, PortIsHeld
    <2>9. AloneRuns'
        BY <1>0, <2>1, <2>2, <2>4 DEF AloneRuns
    <2> QED BY <2>5, <2>6, <2>7, <2>8, <2>9 DEF StartupInv
<1> QED BY <1>1, <1>2

\* A transacted migration is applied by one process; nobody is in the last
\* one or past it, and there are no rows.
LEMMA TransactedStep ==
    ASSUME StartupInv, NEW p \in ServerProcesses, ApplyTransacted(p), UNCHANGED suRows
    PROVE  StartupInv'
<1>0. /\ N \in Nat /\ M \in Nat /\ LastVersion \in Nat /\ suRecorded \in Nat /\ suProc[p] \in Proc
      /\ suProc[p].at = "migrate" /\ suProc[p].next < LastVersion /\ suProc[p].next \in Nat
      /\ UNCHANGED <<suAside, suKey, suPort, suMatch, suRunner, suAlone>>
      /\ suProc[p].next \in 1..(suRecorded + 1) /\ suProc[p].pc = 1
    BY ScriptFacts, StartupAssumption DEF StartupInv, StartupRangesOK, VersionsAreOrdered, ApplyTransacted, Proc
<1>1. CASE suRecorded >= suProc[p].next
    <2>1. Fail(p) /\ UNCHANGED <<suRecorded, suMain>>
        BY <1>1 DEF ApplyTransacted
    <2> QED BY <1>0, <2>1, FailStep
<1>2. CASE ~(suRecorded >= suProc[p].next)
    <2>1. PICK new : new = [suProc[p] EXCEPT !.next = suProc[p].next + 1]
        OBVIOUS
    <2>2. /\ suRecorded' = suProc[p].next /\ suProc' = [suProc EXCEPT ![p] = new]
          /\ suMain' = IF suProc[p].next = 1 THEN [t \in Tables |-> [shape |-> "old", rows |-> FALSE, indexed |-> TRUE]]
                       ELSE suMain
        BY <1>2, <2>1 DEF ApplyTransacted
    <2>3. suRecorded' = suRecorded + 1 /\ suRecorded' < LastVersion
        BY <1>0, <1>2, <2>2
    <2>4. /\ new \in Proc /\ new.at = "migrate" /\ new.pc = 1 /\ new.next = suRecorded' + 1
        <3>1. suProc[p].next + 1 \in 0..LastVersion
            BY <1>0
        <3> QED BY <1>0, <2>1, <2>2, <3>1 DEF Proc
    <2>5. /\ suProc' \in [ServerProcesses -> Proc]
          /\ suProc'[p] = new /\ \A q \in ServerProcesses \ {p} : suProc'[q] = suProc[q]
        BY <2>2, <2>4, OneProcChanges
    <2>6. /\ ~suRows /\ \A q \in ServerProcesses : suProc[q].at \notin Past /\ ~Running(q)
        BY <1>0, <2>3 DEF StartupInv, VersionsAreOrdered, Running, Past
    <2>7. \A k \in 1..N : /\ ~suMain[SeatTables[k]].rows /\ ~suAside[SeatTables[k]].rows
                          /\ SeatTables[k] \in Tables
        BY <2>6, ScriptFacts DEF StartupInv, TablesAreSafe, TableIsSafe
    <2>8. suMain' \in [Tables -> Table] /\ \A k \in 1..N : ~suMain'[SeatTables[k]].rows
        <3>1. CASE suProc[p].next = 1
            BY <2>2, <2>7, <3>1 DEF Table
        <3>2. CASE suProc[p].next # 1
            BY <2>2, <2>7, <3>2 DEF StartupInv, StartupRangesOK
        <3> QED BY <3>1, <3>2
    <2>9. StartupRangesOK'
        BY <1>0, <2>2, <2>3, <2>5, <2>8 DEF StartupInv, StartupRangesOK
    <2>10. VersionsAreOrdered'
        <3>1. ASSUME NEW q \in ServerProcesses
              PROVE  /\ suProc'[q].at = "down" => suProc'[q] = Down
                     /\ suProc'[q].at = "migrate" => /\ suProc'[q].next \in 1..(suRecorded' + 1) /\ suProc'[q].pc >= 1
                                                     /\ suProc'[q].next < LastVersion => suProc'[q].pc = 1
                     /\ suProc'[q].at \notin Past
            <4>1. CASE q = p
                BY <1>0, <2>3, <2>4, <2>5, <4>1 DEF Past
            <4>2. CASE q # p
                <5>1. suProc'[q] = suProc[q] /\ suProc[q].at \notin Past
                    BY <2>5, <2>6, <4>2
                <5>2. /\ suProc[q].at = "down" => suProc[q] = Down
                      /\ suProc[q].at = "migrate" => /\ suProc[q].next \in 1..(suRecorded + 1) /\ suProc[q].pc >= 1
                                                     /\ suProc[q].next < LastVersion => suProc[q].pc = 1
                    BY DEF StartupInv, VersionsAreOrdered
                <5> QED BY <1>0, <2>3, <5>1, <5>2
            <4> QED BY <4>1, <4>2
        <3> QED BY <2>6, <3>1 DEF VersionsAreOrdered
    <2>11. \A q \in ServerProcesses : Running(q)' => suProc'[q].pc = 1 /\ q = p
        BY <2>4, <2>5, <2>6 DEF Running
    <2>12. TablesAreSafe'
        <3>1. \A q \in ServerProcesses, k \in 1..N : ~Between(q, k)'
            BY <1>0, <2>11 DEF Between
        <3> QED BY <1>0, <2>6, <2>7, <2>8, <3>1 DEF TablesAreSafe, TableIsSafe
    <2>13. KeyIsHeld' /\ PortIsHeld' /\ AloneRuns'
        BY <1>0, <2>4, <2>5 DEF StartupInv, KeyIsHeld, PortIsHeld, AloneRuns
    <2>14. AloneRebuilds'
        <3> SUFFICES ASSUME suAlone'
                     PROVE  AloneRebuilds'
            BY DEF AloneRebuilds
        <3>1. \A q \in ServerProcesses \ {p} : suProc'[q].at = "down"
            BY <1>0, <2>5, AloneIsAlone
        <3>2. \A q, r \in ServerProcesses : suProc'[q].at # "down" /\ suProc'[r].at # "down" => q = r
            BY <3>1
        <3>3. \A q \in ServerProcesses : suProc'[q].at = "migrate" => suProc'[q].next = suRecorded' + 1
            BY <2>4, <2>5, <3>1
        <3>4. \A q \in ServerProcesses : Running(q)' => \A k \in 1..N : Rebuilt(k, suProc[q].pc)'
            <4> SUFFICES ASSUME NEW q \in ServerProcesses, Running(q)', NEW k \in 1..N
                         PROVE  Rebuilt(k, suProc[q].pc)'
                OBVIOUS
            <4>1. suProc'[q].pc = 1
                BY <2>11
            <4>2. ~(k < suProc'[q].pc) /\ ~(N + k < suProc'[q].pc) /\ ~((2 * N) + k < suProc'[q].pc)
                  /\ ~((3 * N) + k < suProc'[q].pc)
                BY <1>0, <4>1
            <4> QED BY <4>2, Zenon DEF Rebuilt
        <3>5. suRecorded' # LastVersion
            BY <1>0, <2>3
        <3> QED BY <3>2, <3>3, <3>4, <3>5, Zenon DEF AloneRebuilds
    <2> QED BY <2>9, <2>10, <2>12, <2>13, <2>14 DEF StartupInv
<1> QED BY <1>1, <1>2

\* A statement of the script on the k-th table, which says what becomes of
\* that table; the others stay as they were.
LEMMA ScriptGoesOn ==
    ASSUME StartupInv, NEW p \in ServerProcesses, Running(p), NEW c, c = suProc[p].pc, c < (4 * N) + M + 1,
           NEW k \in 1..N, NEW t, t = SeatTables[k],
           \A o \in Tables \ {t} : suMain'[o] = suMain[o] /\ suAside'[o] = suAside[o],
           suMain' \in [Tables -> Table], suAside' \in [Tables -> Table],
           suProc' = [suProc EXCEPT ![p] = [suProc[p] EXCEPT !.pc = c + 1]],
           UNCHANGED <<suRecorded, suRows, suAlone, suKey, suPort, suMatch, suRunner>>,
           \A o \in (1..N) \ {k} : /\ c \notin {o, N + o, (2 * N) + o, (3 * N) + o}
                                   /\ IndexedBy(SeatTables[o], c + 1) = IndexedBy(SeatTables[o], c),
           TableIsSafe(k)', suAlone => Rebuilt(k, c + 1)'
    PROVE  StartupInv'
<1>0. /\ N \in Nat \ {0} /\ M \in Nat /\ LastVersion \in Nat /\ suRecorded \in Nat /\ suProc[p] \in Proc
      /\ c \in Nat /\ c >= 1 /\ suProc[p].at = "migrate" /\ suProc[p].next = LastVersion
    BY SMTT(40), ScriptFacts, StartupAssumption DEF StartupInv, StartupRangesOK, VersionsAreOrdered, Running, Proc
<1>1. PICK new : new = [suProc[p] EXCEPT !.pc = c + 1]
    OBVIOUS
<1>2. new \in Proc /\ new.at = "migrate" /\ new.next = LastVersion /\ new.pc = c + 1
    <2>1. c + 1 \in 0..((4 * N) + M + 1)
        BY <1>0
    <2> QED BY <1>0, <1>1, <2>1 DEF Proc
<1>3. /\ suProc' \in [ServerProcesses -> Proc]
      /\ suProc'[p] = new /\ \A q \in ServerProcesses \ {p} : suProc'[q] = suProc[q]
    BY <1>1, <1>2, OneProcChanges
<1>4. StartupRangesOK'
    BY <1>3 DEF StartupInv, StartupRangesOK
<1>5. VersionsAreOrdered'
    <2>1. ASSUME NEW q \in ServerProcesses
          PROVE  /\ suProc'[q].at = "down" => suProc'[q] = Down
                 /\ suProc'[q].at = "migrate" => /\ suProc'[q].next \in 1..(suRecorded' + 1) /\ suProc'[q].pc >= 1
                                                 /\ suProc'[q].next < LastVersion => suProc'[q].pc = 1
                 /\ suProc'[q].at \in Past => suRecorded' = LastVersion
        <3>1. CASE q = p
            BY <1>0, <1>2, <1>3, <3>1 DEF StartupInv, VersionsAreOrdered, Past
        <3>2. CASE q # p
            BY <1>3, <3>2 DEF StartupInv, VersionsAreOrdered
        <3> QED BY <3>1, <3>2
    <2> QED BY <2>1 DEF StartupInv, VersionsAreOrdered
<1>6. KeyIsHeld' /\ PortIsHeld' /\ AloneRuns'
    BY <1>0, <1>2, <1>3 DEF StartupInv, KeyIsHeld, PortIsHeld, AloneRuns
<1>7. ASSUME NEW o \in (1..N) \ {k}
      PROVE  /\ suMain'[SeatTables[o]] = suMain[SeatTables[o]]
             /\ suAside'[SeatTables[o]] = suAside[SeatTables[o]]
    <2>1. SeatTables[o] # t /\ SeatTables[o] \in Tables
        BY TablesDiffer, ScriptFacts
    <2> QED BY <2>1
<1>8. TablesAreSafe'
    <2> SUFFICES ASSUME NEW o \in (1..N) \ {k}
                 PROVE  TableIsSafe(o)'
        BY DEF TablesAreSafe
    <2>1. /\ c # o /\ c # N + o /\ c # (2 * N) + o /\ c # (3 * N) + o
          /\ suMain'[SeatTables[o]] = suMain[SeatTables[o]] /\ suAside'[SeatTables[o]] = suAside[SeatTables[o]]
        BY <1>7
    <2>2. \A q \in ServerProcesses : /\ Between(q, o)' <=> Between(q, o)
                                     /\ suProc'[q].pc > N + o <=> suProc[q].pc > N + o
                                     /\ suProc'[q].pc > (2 * N) + o <=> suProc[q].pc > (2 * N) + o
        <3>1. /\ Between(p, o)' <=> Between(p, o)
              /\ suProc'[p].pc > N + o <=> suProc[p].pc > N + o
              /\ suProc'[p].pc > (2 * N) + o <=> suProc[p].pc > (2 * N) + o
            BY <1>0, <1>2, <1>3, <2>1 DEF Between, Running
        <3>2. ASSUME NEW q \in ServerProcesses \ {p}
              PROVE  suProc'[q] = suProc[q] /\ (Between(q, o)' <=> Between(q, o))
            BY <1>3 DEF Between, Running
        <3> QED BY <3>1, <3>2
    <2>3. TableIsSafe(o)
        BY DEF StartupInv, TablesAreSafe
    <2> QED BY <2>1, <2>2, <2>3 DEF TableIsSafe
<1>9. AloneRebuilds'
    <2> SUFFICES ASSUME suAlone
                 PROVE  AloneRebuilds'
        BY DEF AloneRebuilds
    <2>1. \A q \in ServerProcesses \ {p} : suProc'[q].at = "down" /\ ~Running(q)'
        BY <1>0, <1>3, AloneIsAlone DEF Running
    <2>2. \A q, r \in ServerProcesses : suProc'[q].at # "down" /\ suProc'[r].at # "down" => q = r
        BY <2>1
    <2>3. suRecorded + 1 = LastVersion
        BY <1>0 DEF StartupInv, AloneRebuilds
    <2>4. \A q \in ServerProcesses : suProc'[q].at = "migrate" => suProc'[q].next = suRecorded' + 1
        BY <1>2, <1>3, <2>1, <2>3
    <2>5. \A o \in 1..N : Rebuilt(o, c + 1)'
        <3> SUFFICES ASSUME NEW o \in (1..N) \ {k}
                     PROVE  Rebuilt(o, c + 1)'
            OBVIOUS
        <3>1. /\ o < c + 1 => o < c
              /\ c + 1 <= N + o => c <= N + o
              /\ N + o < c + 1 => N + o < c
              /\ c + 1 <= (2 * N) + o => c <= (2 * N) + o
              /\ (2 * N) + o < c + 1 => (2 * N) + o < c
              /\ c + 1 <= (3 * N) + o => c <= (3 * N) + o
              /\ (3 * N) + o < c + 1 => (3 * N) + o < c
            BY <1>0
        <3>2. Rebuilt(o, c)
            BY DEF StartupInv, AloneRebuilds
        <3>3. /\ suMain'[SeatTables[o]] = suMain[SeatTables[o]] /\ suAside'[SeatTables[o]] = suAside[SeatTables[o]]
              /\ IndexedBy(SeatTables[o], c + 1) = IndexedBy(SeatTables[o], c)
            BY <1>7
        <3> QED BY <3>1, <3>2, <3>3 DEF Rebuilt
    <2>6. \A q \in ServerProcesses : Running(q)' => \A o \in 1..N : Rebuilt(o, suProc[q].pc)'
        <3>1. suProc'[p].pc = c + 1
            BY <1>2, <1>3
        <3>2. \A o \in 1..N : Rebuilt(o, suProc[p].pc)'
            BY ZenonT(40), <2>5, <3>1 DEF Rebuilt
        <3> QED BY <2>1, <3>2
    <2>7. suRecorded' # LastVersion
        BY <1>0, <2>3
    <2> QED BY <2>2, <2>4, <2>6, <2>7, Zenon DEF AloneRebuilds
<1> QED BY <1>4, <1>5, <1>6, <1>8, <1>9 DEF StartupInv

\* What a statement that is possible does.
Executes(p, s) ==
    /\ Possible(s)
    /\ suMain' = [suMain EXCEPT ![s.table] =
            CASE s.op = "rename" -> NoTable
              [] s.op = "create" -> [shape |-> "new", rows |-> FALSE, indexed |-> FALSE]
              [] s.op = "copy" -> [@ EXCEPT !.rows = suMain[s.table].rows \/ suAside[s.table].rows]
              [] s.op = "index" -> [@ EXCEPT !.indexed = TRUE]
              [] OTHER -> @]
    /\ suAside' = [suAside EXCEPT ![s.table] = CASE s.op = "rename" -> suMain[s.table]
                                                 [] s.op = "drop" -> NoTable
                                                 [] OTHER -> @]
    /\ suRecorded' = IF s.op = "record" THEN LastVersion ELSE suRecorded

\* Where in the script a process is.
LEMMA ScriptPlace ==
    ASSUME StartupInv, NEW p \in ServerProcesses, Running(p), NEW c, c = suProc[p].pc
    PROVE  /\ c \in 1..((4 * N) + M + 1)
           /\ \/ \E k \in 1..N : c = k
              \/ \E k \in 1..N : c = N + k
              \/ \E k \in 1..N : c = (2 * N) + k
              \/ \E k \in 1..N : c = (3 * N) + k
              \/ \E j \in 1..M : c = (4 * N) + j
              \/ c = (4 * N) + M + 1
<1>1. N \in Nat /\ M \in Nat
    BY ScriptFacts
<1>2. c \in 1..((4 * N) + M + 1)
    BY <1>1 DEF StartupInv, StartupRangesOK, VersionsAreOrdered, Running, Proc
<1>3. CASE c <= N
    BY <1>1, <1>2, <1>3
<1>4. CASE N < c /\ c <= 2 * N
    <2>1. c - N \in 1..N /\ c = N + (c - N)
        BY <1>1, <1>2, <1>4
    <2> QED BY <1>2, <2>1
<1>5. CASE 2 * N < c /\ c <= 3 * N
    <2>1. c - (2 * N) \in 1..N /\ c = (2 * N) + (c - (2 * N))
        BY <1>1, <1>2, <1>5
    <2> QED BY <1>2, <2>1
<1>6. CASE 3 * N < c /\ c <= 4 * N
    <2>1. c - (3 * N) \in 1..N /\ c = (3 * N) + (c - (3 * N))
        BY <1>1, <1>2, <1>6
    <2> QED BY <1>2, <2>1
<1>7. CASE 4 * N < c /\ c <= (4 * N) + M
    <2>1. c - (4 * N) \in 1..M /\ c = (4 * N) + (c - (4 * N))
        BY <1>1, <1>2, <1>7
    <2> QED BY <1>2, <2>1
<1>8. CASE c = (4 * N) + M + 1
    BY <1>2, <1>8
<1> QED BY <1>1, <1>2, <1>3, <1>4, <1>5, <1>6, <1>7, <1>8

\* The statement of the script that a step executes.
LEMMA ScriptStepFacts ==
    ASSUME StartupInv, NEW p \in ServerProcesses, ScriptStep(p), NEW s, s = Script[suProc[p].pc]
    PROVE  /\ Running(p) /\ UNCHANGED <<suKey, suPort, suMatch, suRunner, suAlone>>
           /\ \/ Fail(p) /\ UNCHANGED <<suRecorded, suMain, suAside>>
              \/ /\ Executes(p, s)
                 /\ suProc[p].pc # Len(Script) =>
                        suProc' = [suProc EXCEPT ![p] = [suProc[p] EXCEPT !.pc = suProc[p].pc + 1]]
                 /\ suProc[p].pc = Len(Script) => suProc' = [suProc EXCEPT ![p] = [Down EXCEPT !.at = "key"]]
<1>1. Running(p) /\ UNCHANGED <<suKey, suPort, suMatch, suRunner, suAlone>>
    BY Zenon DEF ScriptStep, Running
<1>2. CASE ~Possible(s)
    BY <1>1, <1>2, Zenon DEF ScriptStep
<1>3. CASE Possible(s)
    <2>1. Executes(p, s)
        BY <1>3, Zenon DEF ScriptStep, Executes
    <2>2. suProc' = [suProc EXCEPT ![p] =
                    IF @.pc = Len(Script) THEN [Down EXCEPT !.at = "key"] ELSE [@ EXCEPT !.pc = suProc[p].pc + 1]]
        BY <1>3, Zenon DEF ScriptStep
    <2>3. suProc[p] \in Proc /\ suProc \in [ServerProcesses -> Proc]
        BY DEF StartupInv, StartupRangesOK
    <2>4. suProc[p].pc # Len(Script) =>
                suProc' = [suProc EXCEPT ![p] = [suProc[p] EXCEPT !.pc = suProc[p].pc + 1]]
        BY <2>2, <2>3
    <2>5. suProc[p].pc = Len(Script) => suProc' = [suProc EXCEPT ![p] = [Down EXCEPT !.at = "key"]]
        BY <2>2, <2>3
    <2> QED BY <1>1, <2>1, <2>4, <2>5
<1> QED BY <1>2, <1>3

\* Tables and their rows.
LEMMA TableFacts ==
    /\ NoTable \in Table /\ ~NoTable.rows /\ NoTable.rows = FALSE
    /\ \A filled, indexed \in BOOLEAN :
        /\ Fresh(filled, indexed) \in Table /\ Fresh(filled, indexed) # NoTable
        /\ Fresh(filled, indexed).rows = filled /\ Fresh(filled, indexed).indexed = indexed
BY DEF NoTable, Table, Fresh

\* The place of the k-th table is nobody else's place.
LEMMA OtherPlaces ==
    ASSUME NEW k \in 1..N, NEW c, NEW o \in (1..N) \ {k}
    PROVE  c \in {k, N + k, (2 * N) + k, (3 * N) + k} =>
             /\ c \notin {o, N + o, (2 * N) + o, (3 * N) + o}
             /\ IndexedBy(SeatTables[o], c + 1) = IndexedBy(SeatTables[o], c)
<1>1. N \in Nat /\ M \in Nat
    BY ScriptFacts
<1> SUFFICES ASSUME c \in {k, N + k, (2 * N) + k, (3 * N) + k}
             PROVE  /\ c \notin {o, N + o, (2 * N) + o, (3 * N) + o}
                    /\ IndexedBy(SeatTables[o], c + 1) = IndexedBy(SeatTables[o], c)
    OBVIOUS
<1>2. c \in Nat /\ c <= 4 * N
    BY <1>1
<1>3. c \notin {o, N + o, (2 * N) + o, (3 * N) + o}
    BY <1>1
<1>4. \A j \in 1..M : ~((4 * N) + j < c + 1) /\ ~((4 * N) + j < c)
    BY <1>1, <1>2
<1>5. ~IndexedBy(SeatTables[o], c + 1) /\ ~IndexedBy(SeatTables[o], c)
    BY <1>4 DEF IndexedBy
<1> QED BY <1>3, <1>5 DEF IndexedBy

\* The rename: the place was free, so nobody is between.
LEMMA RenameStep ==
    ASSUME StartupInv, NEW p \in ServerProcesses, Running(p), NEW k \in 1..N, suProc[p].pc = k,
           Executes(p, Script[k]), suProc' = [suProc EXCEPT ![p] = [suProc[p] EXCEPT !.pc = k + 1]],
           UNCHANGED <<suKey, suPort, suMatch, suRunner, suAlone, suRows>>
    PROVE  StartupInv'
<1>0. /\ N \in Nat \ {0} /\ M \in Nat /\ SeatTables[k] \in Tables
      /\ Script[k] = [op |-> "rename", table |-> SeatTables[k]]
    BY ScriptFacts
<1>1. PICK t \in Tables : t = SeatTables[k]
    BY <1>0
<1>2. /\ suMain[t] # NoTable /\ suAside[t] = NoTable
      /\ suMain' = [suMain EXCEPT ![t] = NoTable] /\ suAside' = [suAside EXCEPT ![t] = suMain[t]]
      /\ suRecorded' = suRecorded
    BY <1>0, <1>1 DEF Executes, Possible
<1>3. /\ suMain \in [Tables -> Table] /\ suAside \in [Tables -> Table] /\ suProc[p] \in Proc
    BY DEF StartupInv, StartupRangesOK
<1>4. /\ suMain' \in [Tables -> Table] /\ suAside' \in [Tables -> Table]
      /\ suMain'[t] = NoTable /\ suAside'[t] = suMain[t]
      /\ \A o \in Tables \ {t} : suMain'[o] = suMain[o] /\ suAside'[o] = suAside[o]
    BY <1>2, <1>3, TableFacts
<1>5. suProc'[p].pc = k + 1 /\ \A q \in ServerProcesses \ {p} : suProc'[q] = suProc[q]
    BY <1>3 DEF StartupInv, StartupRangesOK, Proc
<1>6. \A q \in ServerProcesses : Between(q, k)' => q = p
    <2>1. \A q \in ServerProcesses : ~Between(q, k)
        BY <1>1, <1>2 DEF StartupInv, TablesAreSafe, TableIsSafe
    <2> QED BY <1>5, <2>1 DEF Between, Running
<1>7. TableIsSafe(k)'
    <2>1. (suMain'[t].rows \/ suAside'[t].rows) <=> suRows
        BY <1>1, <1>2, <1>4, TableFacts DEF StartupInv, TablesAreSafe, TableIsSafe
    <2>2. ~(suProc'[p].pc > N + k) /\ ~(suProc'[p].pc > (2 * N) + k)
        BY <1>0, <1>5
    <2> QED BY <1>1, <1>2, <1>4, <1>6, <2>1, <2>2 DEF TableIsSafe
<1>8. Rebuilt(k, k + 1)'
    <2>1. k + 1 <= N + k /\ ~(N + k < k + 1) /\ ~((2 * N) + k < k + 1) /\ ~((3 * N) + k < k + 1)
        BY <1>0
    <2> QED BY <1>1, <1>4, <2>1 DEF Rebuilt
<1>9. k < (4 * N) + M + 1
    BY <1>0
<1>10. \A o \in (1..N) \ {k} : /\ k \notin {o, N + o, (2 * N) + o, (3 * N) + o}
                               /\ IndexedBy(SeatTables[o], k + 1) = IndexedBy(SeatTables[o], k)
    BY OtherPlaces
<1> QED BY ZenonT(100), <1>1, <1>2, <1>4, <1>7, <1>8, <1>9, <1>10, ScriptGoesOn

\* What a step on the k-th table leaves of a process that is between.
LEMMA StillBetween ==
    ASSUME StartupInv, NEW p \in ServerProcesses, NEW c, suProc' = [suProc EXCEPT ![p] = [suProc[p] EXCEPT !.pc = c]]
    PROVE  /\ suProc'[p].pc = c /\ suProc'[p].at = suProc[p].at /\ suProc'[p].next = suProc[p].next
           /\ \A q \in ServerProcesses \ {p} : suProc'[q] = suProc[q]
           /\ \A q \in ServerProcesses \ {p}, k \in 1..N : Between(q, k)' <=> Between(q, k)
<1>1. suProc \in [ServerProcesses -> Proc] /\ suProc[p] \in Proc
    BY DEF StartupInv, StartupRangesOK
<1>2. \A q \in ServerProcesses \ {p} : suProc'[q] = suProc[q]
    BY <1>1
<1>3. suProc'[p].pc = c /\ suProc'[p].at = suProc[p].at /\ suProc'[p].next = suProc[p].next
    BY <1>1 DEF Proc
<1> QED BY <1>2, <1>3 DEF Between, Running

\* The new table, of the process that set the old one aside.
LEMMA CreateStep ==
    ASSUME StartupInv, NEW p \in ServerProcesses, Running(p), NEW k \in 1..N, NEW c, c = N + k, suProc[p].pc = c,
           Executes(p, Script[c]), suProc' = [suProc EXCEPT ![p] = [suProc[p] EXCEPT !.pc = c + 1]],
           UNCHANGED <<suKey, suPort, suMatch, suRunner, suAlone, suRows>>
    PROVE  StartupInv'
<1>0. /\ N \in Nat \ {0} /\ M \in Nat /\ SeatTables[k] \in Tables
      /\ Script[c] = [op |-> "create", table |-> SeatTables[k]]
    BY ScriptFacts
<1>1. PICK t \in Tables : t = SeatTables[k]
    BY <1>0
<1>3. /\ suMain \in [Tables -> Table] /\ suAside \in [Tables -> Table]
    BY DEF StartupInv, StartupRangesOK
<1>2. /\ suMain[t] = NoTable
      /\ suMain' = [suMain EXCEPT ![t] = Fresh(FALSE, FALSE)] /\ suAside' = suAside
      /\ suRecorded' = suRecorded
    BY <1>0, <1>1, <1>3 DEF Executes, Possible, Fresh
<1>4. /\ suMain' \in [Tables -> Table] /\ suMain'[t] = Fresh(FALSE, FALSE)
      /\ \A o \in Tables \ {t} : suMain'[o] = suMain[o] /\ suAside'[o] = suAside[o]
    BY <1>2, <1>3, TableFacts
<1>5. Between(p, k) /\ TableIsSafe(k)
    BY <1>0 DEF Between, StartupInv, TablesAreSafe
<1>6. \A q \in ServerProcesses : Between(q, k)' => q = p
    BY <1>5, StillBetween DEF TableIsSafe
<1>7. TableIsSafe(k)'
    <2>1. (suMain'[t].rows \/ suAside'[t].rows) <=> suRows
        BY <1>1, <1>2, <1>4, <1>5, TableFacts DEF TableIsSafe
    <2>2. ~(suProc'[p].pc > (2 * N) + k)
        <3>1. suProc'[p].pc = c + 1
            BY StillBetween
        <3> QED BY <1>0, <3>1
    <2>3. suAside[t] # NoTable /\ suMain'[t] # NoTable
        BY <1>1, <1>4, <1>5, TableFacts DEF TableIsSafe
    <2> QED BY <1>1, <1>2, <1>6, <2>1, <2>2, <2>3 DEF TableIsSafe
<1>8. Rebuilt(k, c + 1)'
    <2>1. c + 1 <= (2 * N) + k /\ ~(c + 1 <= N + k) /\ ~((2 * N) + k < c + 1) /\ ~((3 * N) + k < c + 1)
        BY <1>0
    <2> QED BY <1>1, <1>4, <2>1 DEF Rebuilt
<1>9. c < (4 * N) + M + 1
    BY <1>0
<1>10. \A o \in (1..N) \ {k} : /\ c \notin {o, N + o, (2 * N) + o, (3 * N) + o}
                               /\ IndexedBy(SeatTables[o], c + 1) = IndexedBy(SeatTables[o], c)
    BY OtherPlaces
<1> QED BY <1>1, <1>2, <1>3, <1>4, <1>7, <1>8, <1>9, <1>10, ScriptGoesOn

\* The copy: what was set aside still has the rows.
LEMMA CopyStep ==
    ASSUME StartupInv, NEW p \in ServerProcesses, Running(p), NEW k \in 1..N, NEW c, c = (2 * N) + k, suProc[p].pc = c,
           Executes(p, Script[c]), suProc' = [suProc EXCEPT ![p] = [suProc[p] EXCEPT !.pc = c + 1]],
           UNCHANGED <<suKey, suPort, suMatch, suRunner, suAlone, suRows>>
    PROVE  StartupInv'
<1>0. /\ N \in Nat \ {0} /\ M \in Nat /\ SeatTables[k] \in Tables
      /\ Script[c] = [op |-> "copy", table |-> SeatTables[k]]
    BY ScriptFacts
<1>1. PICK t \in Tables : t = SeatTables[k]
    BY <1>0
<1>3. /\ suMain \in [Tables -> Table] /\ suAside \in [Tables -> Table] /\ suMain[t] \in Table /\ suAside[t] \in Table
      /\ suRows \in BOOLEAN
    BY DEF StartupInv, StartupRangesOK
<1>2. PICK new : new = [suMain[t] EXCEPT !.rows = suMain[t].rows \/ suAside[t].rows]
    OBVIOUS
<1>a. /\ suMain[t] # NoTable /\ suMain' = [suMain EXCEPT ![t] = new] /\ suAside' = suAside
      /\ suRecorded' = suRecorded
    BY <1>0, <1>1, <1>2, <1>3 DEF Executes, Possible
<1>5. Between(p, k) /\ TableIsSafe(k)
    BY <1>0 DEF Between, StartupInv, TablesAreSafe
<1>b. /\ new \in Table /\ new.rows = suRows /\ new.shape = suMain[t].shape /\ new.indexed = suMain[t].indexed
    <2>1. (suMain[t].rows \/ suAside[t].rows) = suRows
        BY <1>1, <1>3, <1>5 DEF TableIsSafe, Table
    <2> QED BY <1>2, <1>3, <2>1 DEF Table
<1>c. new # NoTable
    <2>1. CASE new.rows = FALSE
        <3>1. suMain[t].rows = FALSE
            BY <1>1, <1>3, <1>5, <1>b, <2>1 DEF TableIsSafe, Table
        <3>2. new = suMain[t]
            BY <1>3, <1>b, <2>1, <3>1 DEF Table
        <3> QED BY <1>a, <3>2
    <2>2. CASE new.rows # FALSE
        BY <2>2, TableFacts
    <2> QED BY <2>1, <2>2
<1>4. /\ suMain' \in [Tables -> Table] /\ suMain'[t] = new
      /\ \A o \in Tables \ {t} : suMain'[o] = suMain[o] /\ suAside'[o] = suAside[o]
    BY <1>3, <1>a, <1>b
<1>6. \A q \in ServerProcesses : Between(q, k)' => q = p
    BY <1>5, StillBetween DEF TableIsSafe
<1>7. TableIsSafe(k)'
    <2>1. (suMain'[t].rows \/ suAside'[t].rows) <=> suRows
        BY <1>1, <1>3, <1>4, <1>5, <1>a, <1>b DEF TableIsSafe
    <2>2. suAside[t] # NoTable
        BY <1>1, <1>5 DEF TableIsSafe
    <2>3. suRows => suMain'[t].rows
        BY <1>4, <1>b
    <2> QED BY <1>1, <1>4, <1>6, <1>a, <1>c, <2>1, <2>2, <2>3 DEF TableIsSafe
<1>8. suAlone => Rebuilt(k, c + 1)'
    <2> SUFFICES ASSUME suAlone
                 PROVE  Rebuilt(k, c + 1)'
        OBVIOUS
    <2>1. /\ c + 1 <= (3 * N) + k /\ ~(c + 1 <= N + k) /\ ~(c + 1 <= (2 * N) + k) /\ ~((3 * N) + k < c + 1)
          /\ N + k < c /\ c <= (2 * N) + k
        BY <1>0
    <2>2. Rebuilt(k, c)
        BY DEF StartupInv, AloneRebuilds
    <2>3. suMain[t] = Fresh(FALSE, FALSE)
        BY <1>1, <2>1, <2>2 DEF Rebuilt
    <2>4. new = Fresh(suRows, FALSE)
        <3>1. suMain[t].shape = "new" /\ suMain[t].indexed = FALSE
            BY <2>3 DEF Fresh
        <3>2. new = [shape |-> new.shape, rows |-> new.rows, indexed |-> new.indexed]
            BY <1>b DEF Table
        <3> QED BY <1>b, <3>1, <3>2 DEF Fresh
    <2> QED BY <1>1, <1>4, <2>1, <2>4 DEF Rebuilt
<1>9. c < (4 * N) + M + 1
    BY <1>0
<1>10. \A o \in (1..N) \ {k} : /\ c \notin {o, N + o, (2 * N) + o, (3 * N) + o}
                               /\ IndexedBy(SeatTables[o], c + 1) = IndexedBy(SeatTables[o], c)
    BY OtherPlaces
<1> QED BY <1>1, <1>3, <1>4, <1>7, <1>8, <1>9, <1>10, <1>a, ScriptGoesOn

\* The drop: the process that drops has copied.
LEMMA DropStep ==
    ASSUME StartupInv, NEW p \in ServerProcesses, Running(p), NEW k \in 1..N, NEW c, c = (3 * N) + k, suProc[p].pc = c,
           Executes(p, Script[c]), suProc' = [suProc EXCEPT ![p] = [suProc[p] EXCEPT !.pc = c + 1]],
           UNCHANGED <<suKey, suPort, suMatch, suRunner, suAlone, suRows>>
    PROVE  StartupInv'
<1>0. /\ N \in Nat \ {0} /\ M \in Nat /\ SeatTables[k] \in Tables
      /\ Script[c] = [op |-> "drop", table |-> SeatTables[k]]
    BY ScriptFacts
<1>1. PICK t \in Tables : t = SeatTables[k]
    BY <1>0
<1>3. /\ suMain \in [Tables -> Table] /\ suAside \in [Tables -> Table]
    BY DEF StartupInv, StartupRangesOK
<1>2. /\ suMain' = suMain /\ suAside' = [suAside EXCEPT ![t] = NoTable] /\ suRecorded' = suRecorded
    BY <1>0, <1>1, <1>3 DEF Executes
<1>4. /\ suAside' \in [Tables -> Table] /\ suAside'[t] = NoTable
      /\ \A o \in Tables \ {t} : suMain'[o] = suMain[o] /\ suAside'[o] = suAside[o]
    BY <1>2, <1>3, TableFacts
<1>5. Between(p, k) /\ TableIsSafe(k)
    BY <1>0 DEF Between, StartupInv, TablesAreSafe
<1>6. \A q \in ServerProcesses : ~Between(q, k)'
    <2>1. ~Between(p, k)'
        <3>1. suProc'[p].pc = c + 1
            BY StillBetween
        <3>2. ~(suProc'[p].pc <= (3 * N) + k)
            BY <1>0, <3>1
        <3> QED BY <3>2 DEF Between
    <2> QED BY <1>5, <2>1, StillBetween DEF TableIsSafe
<1>7. TableIsSafe(k)'
    <2>1. (suMain'[t].rows \/ suAside'[t].rows) <=> suRows
        <3>1. c > (2 * N) + k
            BY <1>0
        <3>2. suMain[t].rows <=> suRows
            BY <1>1, <1>5, <3>1 DEF TableIsSafe
        <3> QED BY <1>2, <1>4, <3>2, TableFacts
    <2> QED BY <1>1, <1>6, <2>1 DEF TableIsSafe
<1>8. suAlone => Rebuilt(k, c + 1)'
    <2> SUFFICES ASSUME suAlone
                 PROVE  Rebuilt(k, c + 1)'
        OBVIOUS
    <2>1. /\ ~(c + 1 <= (3 * N) + k) /\ ~(c + 1 <= N + k) /\ ~(c + 1 <= (2 * N) + k)
          /\ (2 * N) + k < c /\ c <= (3 * N) + k
        BY <1>0
    <2>2. Rebuilt(k, c)
        BY DEF StartupInv, AloneRebuilds
    <2>3. suMain[t] = Fresh(suRows, FALSE)
        BY <1>1, <2>1, <2>2 DEF Rebuilt
    <2>4. IndexedBy(t, c + 1) = FALSE
        <3>1. \A j \in 1..M : ~((4 * N) + j < c + 1)
            BY <1>0
        <3> QED BY <3>1 DEF IndexedBy
    <2> QED BY <1>1, <1>2, <1>4, <2>1, <2>3, <2>4 DEF Rebuilt
<1>9. c < (4 * N) + M + 1
    BY <1>0
<1>10. \A o \in (1..N) \ {k} : /\ c \notin {o, N + o, (2 * N) + o, (3 * N) + o}
                               /\ IndexedBy(SeatTables[o], c + 1) = IndexedBy(SeatTables[o], c)
    BY OtherPlaces
<1> QED BY <1>1, <1>2, <1>3, <1>4, <1>7, <1>8, <1>9, <1>10, ScriptGoesOn

\* The places of a sequence hold all that it holds.
LEMMA PlacesHold ==
    ASSUME NEW S, NEW seq \in Seq(S)
    PROVE  \A x : x \in ToSet(seq) <=> \E i \in 1..Len(seq) : seq[i] = x
<1>1. DOMAIN seq = 1..Len(seq)
    OBVIOUS
<1> QED BY <1>1, Zenon DEF ToSet

\* The tables are the ones of the script.
LEMMA TablesHavePlaces ==
    /\ \A t \in Tables : \E k \in 1..N : t = SeatTables[k]
    /\ \A t : t \in ToSet(Indexed) <=> \E j \in 1..M : Indexed[j] = t
<1>1. SeatTables \in Seq(Tables) /\ Indexed \in Seq(Tables)
    BY StartupAssumption DEF Tables
<1>2. \A t : t \in ToSet(SeatTables) <=> \E k \in 1..Len(SeatTables) : SeatTables[k] = t
    BY <1>1, PlacesHold
<1>3. \A t : t \in ToSet(Indexed) <=> \E j \in 1..Len(Indexed) : Indexed[j] = t
    BY <1>1, PlacesHold
<1> QED BY <1>2, <1>3, Zenon DEF Tables, N, M

\* An index of a new table, which is nobody's to rebuild by then.
LEMMA IndexStep ==
    ASSUME StartupInv, NEW p \in ServerProcesses, Running(p), NEW j \in 1..M, NEW c, c = (4 * N) + j,
           suProc[p].pc = c,
           Executes(p, Script[c]), suProc' = [suProc EXCEPT ![p] = [suProc[p] EXCEPT !.pc = c + 1]],
           UNCHANGED <<suKey, suPort, suMatch, suRunner, suAlone, suRows>>
    PROVE  StartupInv'
<1>0. /\ N \in Nat \ {0} /\ M \in Nat /\ Indexed[j] \in Tables /\ j \in Nat
      /\ Script[c] = [op |-> "index", table |-> Indexed[j]]
    BY ScriptFacts
<1>1. PICK t \in Tables : t = Indexed[j]
    BY <1>0
<1>k. PICK k \in 1..N : t = SeatTables[k]
    BY TablesHavePlaces
<1>3. /\ suMain \in [Tables -> Table] /\ suAside \in [Tables -> Table] /\ suMain[t] \in Table
      /\ suRows \in BOOLEAN
    BY DEF StartupInv, StartupRangesOK
<1>2. PICK new : new = [suMain[t] EXCEPT !.indexed = TRUE]
    OBVIOUS
<1>a. /\ suMain' = [suMain EXCEPT ![t] = new] /\ suAside' = suAside /\ suRecorded' = suRecorded
    BY <1>0, <1>1, <1>2, <1>3 DEF Executes
<1>b. /\ new \in Table /\ new.rows = suMain[t].rows /\ new.shape = suMain[t].shape /\ new.indexed = TRUE
    BY <1>2, <1>3 DEF Table
<1>c. new # NoTable
    BY <1>b DEF NoTable
<1>4. /\ suMain' \in [Tables -> Table] /\ suMain'[t] = new
      /\ \A o \in Tables \ {t} : suMain'[o] = suMain[o] /\ suAside'[o] = suAside[o]
    BY <1>3, <1>a, <1>b
<1>5. TableIsSafe(k)
    BY DEF StartupInv, TablesAreSafe
<1>6. ASSUME NEW q \in ServerProcesses
      PROVE  Between(q, k)' => q # p /\ Between(q, k) /\ suProc'[q] = suProc[q]
    <2>1. suProc'[p].pc = c + 1
        BY StillBetween
    <2>2. ~(suProc'[p].pc <= (3 * N) + k)
        BY <1>0, <2>1
    <2>3. ~Between(p, k)'
        BY <2>2 DEF Between
    <2> QED BY <2>3, StillBetween
<1>7. TableIsSafe(k)'
    BY <1>k, <1>4, <1>5, <1>6, <1>a, <1>b, <1>c DEF TableIsSafe
<1>8. suAlone => Rebuilt(k, c + 1)'
    <2> SUFFICES ASSUME suAlone
                 PROVE  Rebuilt(k, c + 1)'
        OBVIOUS
    <2>1. /\ ~(c + 1 <= (3 * N) + k) /\ ~(c + 1 <= N + k) /\ ~(c + 1 <= (2 * N) + k)
          /\ (3 * N) + k < c /\ (4 * N) + j < c + 1
        BY <1>0
    <2>2. Rebuilt(k, c)
        BY DEF StartupInv, AloneRebuilds
    <2>3. suMain[t] = Fresh(suRows, IndexedBy(t, c)) /\ suAside[t] = NoTable
        BY <1>k, <2>1, <2>2 DEF Rebuilt
    <2>4. IndexedBy(t, c + 1) = TRUE
        BY <1>1, <2>1 DEF IndexedBy
    <2>5. new = Fresh(suRows, TRUE)
        <3>1. suMain[t].shape = "new" /\ suMain[t].rows = suRows
            BY <2>3 DEF Fresh
        <3>2. new = [shape |-> new.shape, rows |-> new.rows, indexed |-> new.indexed]
            BY <1>b DEF Table
        <3> QED BY <1>b, <3>1, <3>2 DEF Fresh
    <2> QED BY <1>k, <1>4, <1>a, <2>1, <2>3, <2>4, <2>5 DEF Rebuilt
<1>9. c < (4 * N) + M + 1
    BY <1>0
<1>10. \A o \in (1..N) \ {k} : /\ c \notin {o, N + o, (2 * N) + o, (3 * N) + o}
                               /\ IndexedBy(SeatTables[o], c + 1) = IndexedBy(SeatTables[o], c)
    <2> SUFFICES ASSUME NEW o \in (1..N) \ {k}
                 PROVE  /\ c \notin {o, N + o, (2 * N) + o, (3 * N) + o}
                        /\ IndexedBy(SeatTables[o], c + 1) = IndexedBy(SeatTables[o], c)
        OBVIOUS
    <2>1. c \notin {o, N + o, (2 * N) + o, (3 * N) + o}
        BY <1>0
    <2>2. SeatTables[o] # t
        BY <1>k, TablesDiffer
    <2>3. ASSUME NEW i \in 1..M, Indexed[i] = SeatTables[o]
          PROVE  (4 * N) + i < c + 1 <=> (4 * N) + i < c
        <3>1. i # j
            BY <1>1, <2>2, <2>3
        <3> QED BY <1>0, <3>1
    <2> QED BY <2>1, <2>3 DEF IndexedBy
<1> QED BY <1>k, <1>3, <1>4, <1>7, <1>8, <1>9, <1>10, <1>a, ScriptGoesOn

\* The history row, written when every table is rebuilt and indexed.
LEMMA RecordStep ==
    ASSUME StartupInv, NEW p \in ServerProcesses, Running(p), NEW c, c = (4 * N) + M + 1,
           suProc[p].pc = c,
           Executes(p, Script[c]), suProc' = [suProc EXCEPT ![p] = [Down EXCEPT !.at = "key"]],
           UNCHANGED <<suKey, suPort, suMatch, suRunner, suAlone, suRows>>
    PROVE  StartupInv'
<1>0. /\ N \in Nat \ {0} /\ M \in Nat /\ Script[c].op = "record" /\ Script[c].table \in Tables
      /\ LastVersion \in Nat \ {0} /\ suRecorded \in Nat
    <2>1. N \in Nat \ {0} /\ M \in Nat /\ Script[c] = [op |-> "record", table |-> SeatTables[1]]
        BY ScriptFacts
    <2>2. 1 \in 1..N
        BY <2>1
    <2>3. SeatTables[1] \in Tables
        BY <2>2, ScriptFacts
    <2>4. LastVersion \in Nat \ {0} /\ suRecorded \in Nat
        BY StartupAssumption DEF StartupInv, StartupRangesOK
    <2> QED BY <2>1, <2>3, <2>4
<1>1. PICK new : new = [Down EXCEPT !.at = "key"]
    OBVIOUS
<1>2. new \in Proc /\ new.at = "key"
    BY <1>1, DownFacts DEF Proc
<1>3. /\ suProc' \in [ServerProcesses -> Proc]
      /\ suProc'[p] = new /\ \A q \in ServerProcesses \ {p} : suProc'[q] = suProc[q]
    BY <1>1, <1>2, OneProcChanges
<1>4. suMain' = suMain /\ suAside' = suAside /\ suRecorded' = LastVersion /\ suRecorded < LastVersion
    <2>1. suMain \in [Tables -> Table] /\ suAside \in [Tables -> Table]
        BY DEF StartupInv, StartupRangesOK
    <2> QED BY <1>0, <2>1 DEF Executes, Possible
<1>5. StartupRangesOK'
    BY <1>0, <1>3, <1>4 DEF StartupInv, StartupRangesOK
<1>6. VersionsAreOrdered'
    <2>1. ASSUME NEW q \in ServerProcesses
          PROVE  /\ suProc'[q].at = "down" => suProc'[q] = Down
                 /\ suProc'[q].at = "migrate" => /\ suProc'[q].next \in 1..(suRecorded' + 1) /\ suProc'[q].pc >= 1
                                                 /\ suProc'[q].next < LastVersion => suProc'[q].pc = 1
                 /\ suProc'[q].at \in Past => suRecorded' = LastVersion
        <3>1. CASE q = p
            BY <1>2, <1>3, <1>4, <3>1
        <3>2. CASE q # p
            <4>1. suProc'[q] = suProc[q]
                BY <1>3, <3>2
            <4>2. /\ suProc[q].at = "down" => suProc[q] = Down
                  /\ suProc[q].at = "migrate" => /\ suProc[q].next \in 1..(suRecorded + 1) /\ suProc[q].pc >= 1
                                                 /\ suProc[q].next < LastVersion => suProc[q].pc = 1
                BY DEF StartupInv, VersionsAreOrdered
            <4> QED BY <1>0, <1>4, <4>1, <4>2
        <3> QED BY <3>1, <3>2
    <2>2. suRows' => suRecorded' >= LastVersion - 1
        BY <1>0, <1>4
    <2> QED BY <2>1, <2>2 DEF VersionsAreOrdered
<1>7. TablesAreSafe'
    <2>1. \A q \in ServerProcesses, k \in 1..N : Between(q, k)' => Between(q, k) /\ suProc'[q] = suProc[q]
        BY <1>2, <1>3 DEF Between, Running
    <2> QED BY ZenonT(40), <1>4, <2>1 DEF StartupInv, TablesAreSafe, TableIsSafe
<1>8. KeyIsHeld' /\ PortIsHeld' /\ AloneRuns'
    BY <1>2, <1>3 DEF StartupInv, KeyIsHeld, PortIsHeld, AloneRuns, Running
<1>9. AloneRebuilds'
    <2> SUFFICES ASSUME suAlone
                 PROVE  AloneRebuilds'
        BY DEF AloneRebuilds
    <2>1. \A q \in ServerProcesses \ {p} : suProc'[q].at = "down"
        BY <1>3, AloneIsAlone DEF Running
    <2>2. \A q, r \in ServerProcesses : suProc'[q].at # "down" /\ suProc'[r].at # "down" => q = r
        BY <2>1
    <2>3. \A q \in ServerProcesses : suProc'[q].at # "migrate"
        BY <1>2, <1>3, <2>1
    <2>4. Whole'
        <3> SUFFICES ASSUME NEW t \in Tables
                     PROVE  suMain[t] = Fresh(suRows, t \in ToSet(Indexed)) /\ suAside[t] = NoTable
            BY <1>4 DEF Whole
        <3>1. PICK k \in 1..N : t = SeatTables[k]
            BY TablesHavePlaces
        <3>2. Rebuilt(k, c)
            BY DEF StartupInv, AloneRebuilds
        <3>3. (3 * N) + k < c
            BY <1>0
        <3>4. suAside[t] = NoTable /\ suMain[t] = Fresh(suRows, IndexedBy(t, c))
            BY <3>1, <3>2, <3>3 DEF Rebuilt
        <3>5. IndexedBy(t, c) = (t \in ToSet(Indexed))
            <4>1. \A j \in 1..M : (4 * N) + j < c
                BY <1>0
            <4>2. t \in ToSet(Indexed) <=> \E j \in 1..M : Indexed[j] = t
                BY TablesHavePlaces
            <4>3. IndexedBy(t, c) <=> t \in ToSet(Indexed)
                BY <4>1, <4>2, Zenon DEF IndexedBy
            <4>4. IndexedBy(t, c) \in BOOLEAN
                BY DEF IndexedBy
            <4> QED BY <4>3, <4>4
        <3> QED BY <3>4, <3>5
    <2> QED BY <2>2, <2>3, <2>4, Zenon DEF AloneRebuilds, Running
<1> QED BY <1>5, <1>6, <1>7, <1>8, <1>9 DEF StartupInv

\* Every statement of the script.
LEMMA ScriptStepKeeps ==
    ASSUME StartupInv, NEW p \in ServerProcesses, ScriptStep(p), UNCHANGED suRows
    PROVE  StartupInv'
<1>1. PICK c : c = suProc[p].pc
    OBVIOUS
<1>2. PICK s : s = Script[c]
    OBVIOUS
<1>3. /\ Running(p) /\ UNCHANGED <<suKey, suPort, suMatch, suRunner, suAlone, suRows>>
      /\ \/ Fail(p) /\ UNCHANGED <<suRecorded, suMain, suAside>>
         \/ /\ Executes(p, s)
            /\ c # Len(Script) => suProc' = [suProc EXCEPT ![p] = [suProc[p] EXCEPT !.pc = c + 1]]
            /\ c = Len(Script) => suProc' = [suProc EXCEPT ![p] = [Down EXCEPT !.at = "key"]]
    BY <1>1, <1>2, ScriptStepFacts, Zenon
<1>4. N \in Nat \ {0} /\ M \in Nat /\ Len(Script) = (4 * N) + M + 1
    BY ScriptFacts
<1>5. CASE Fail(p) /\ UNCHANGED <<suRecorded, suMain, suAside>>
    <2>1. suProc[p].at \notin {"down", "serving"}
        BY <1>3 DEF Running
    <2> QED BY <1>3, <1>5, <2>1, FailStep
<1>6. CASE /\ Executes(p, s)
           /\ c # Len(Script) => suProc' = [suProc EXCEPT ![p] = [suProc[p] EXCEPT !.pc = c + 1]]
           /\ c = Len(Script) => suProc' = [suProc EXCEPT ![p] = [Down EXCEPT !.at = "key"]]
    <2>1. \/ \E k \in 1..N : c = k
          \/ \E k \in 1..N : c = N + k
          \/ \E k \in 1..N : c = (2 * N) + k
          \/ \E k \in 1..N : c = (3 * N) + k
          \/ \E j \in 1..M : c = (4 * N) + j
          \/ c = (4 * N) + M + 1
        BY <1>1, <1>3, ScriptPlace, Zenon
    <2>2. CASE \E k \in 1..N : c = k
        <3>1. PICK k \in 1..N : c = k
            BY <2>2
        <3>2. c # Len(Script)
            BY <1>4, <3>1
        <3> QED BY <1>1, <1>2, <1>3, <1>6, <3>1, <3>2, RenameStep, Zenon
    <2>3. CASE \E k \in 1..N : c = N + k
        <3>1. PICK k \in 1..N : c = N + k
            BY <2>3
        <3>2. c # Len(Script)
            BY <1>4, <3>1
        <3> QED BY <1>1, <1>2, <1>3, <1>6, <3>1, <3>2, CreateStep, Zenon
    <2>4. CASE \E k \in 1..N : c = (2 * N) + k
        <3>1. PICK k \in 1..N : c = (2 * N) + k
            BY <2>4
        <3>2. c # Len(Script)
            BY <1>4, <3>1
        <3> QED BY <1>1, <1>2, <1>3, <1>6, <3>1, <3>2, CopyStep, Zenon
    <2>5. CASE \E k \in 1..N : c = (3 * N) + k
        <3>1. PICK k \in 1..N : c = (3 * N) + k
            BY <2>5
        <3>2. c # Len(Script)
            BY <1>4, <3>1
        <3> QED BY <1>1, <1>2, <1>3, <1>6, <3>1, <3>2, DropStep, Zenon
    <2>6. CASE \E j \in 1..M : c = (4 * N) + j
        <3>1. PICK j \in 1..M : c = (4 * N) + j
            BY <2>6
        <3>2. c # Len(Script)
            BY <1>4, <3>1
        <3> QED BY <1>1, <1>2, <1>3, <1>6, <3>1, <3>2, IndexStep, Zenon
    <2>7. CASE c = (4 * N) + M + 1
        BY <1>1, <1>2, <1>3, <1>4, <1>6, <2>7, RecordStep, Zenon
    <2> QED BY <2>1, <2>2, <2>3, <2>4, <2>5, <2>6, <2>7
<1> QED BY <1>3, <1>5, <1>6

\* A fresh database, or one of the version before with its rows.
LEMMA StartupStarts == StartupInit => StartupInv
<1> SUFFICES ASSUME StartupInit
             PROVE  StartupInv
    OBVIOUS
<1>0. /\ N \in Nat \ {0} /\ M \in Nat /\ LastVersion \in Nat /\ LastVersion > 1
    BY ScriptFacts, StartupAssumption
<1>1. \A p \in ServerProcesses : suProc[p] = Down /\ suProc[p].at = "down"
    BY DownFacts DEF StartupInit
<1>2. suRecorded \in 0..LastVersion /\ suRecorded # LastVersion /\ (suRows => suRecorded >= LastVersion - 1)
    BY <1>0 DEF StartupInit
<1>3. \A t \in Tables : /\ suMain[t] \in Table /\ suAside[t] = NoTable
                        /\ (suMain[t].rows \/ suAside[t].rows) <=> suRows
    <2> SUFFICES ASSUME NEW t \in Tables
                 PROVE  /\ suMain[t] \in Table /\ suAside[t] = NoTable
                        /\ (suMain[t].rows \/ suAside[t].rows) <=> suRows
        OBVIOUS
    <2>1. suAside[t] = NoTable /\ ~NoTable.rows /\ NoTable \in Table
        BY TableFacts DEF StartupInit
    <2>2. CASE suRows
        <3>1. suMain[t] = [shape |-> "old", rows |-> TRUE, indexed |-> TRUE]
            BY <2>2 DEF StartupInit
        <3> QED BY <2>1, <2>2, <3>1 DEF Table
    <2>3. CASE ~suRows
        <3>1. suMain[t] = NoTable
            BY <2>3 DEF StartupInit
        <3> QED BY <2>1, <2>3, <3>1
    <2> QED BY <2>2, <2>3
<1>4. StartupRangesOK
    <2>1. suMain \in [Tables -> Table] /\ suAside \in [Tables -> Table]
        BY <1>3, TableFacts DEF StartupInit
    <2>2. suProc \in [ServerProcesses -> Proc]
        BY DownFacts DEF StartupInit
    <2> QED BY <1>2, <2>1, <2>2 DEF StartupRangesOK, StartupInit
<1>5. VersionsAreOrdered
    BY <1>1, <1>2 DEF VersionsAreOrdered, Past
<1>6. TablesAreSafe
    <2>1. \A p \in ServerProcesses, k \in 1..N : ~Between(p, k)
        BY <1>1 DEF Between, Running
    <2>2. \A k \in 1..N : SeatTables[k] \in Tables
        BY ScriptFacts
    <2> QED BY <1>3, <2>1, <2>2 DEF TablesAreSafe, TableIsSafe
<1>7. KeyIsHeld
    BY <1>1 DEF KeyIsHeld
<1>8. PortIsHeld
    BY <1>1, StartupAssumption DEF PortIsHeld, StartupInit
<1>9. AloneRebuilds
    BY <1>1, <1>2 DEF AloneRebuilds, Running
<1>10. AloneRuns
    BY <1>1 DEF AloneRuns
<1> QED BY <1>4, <1>5, <1>6, <1>7, <1>8, <1>9, <1>10 DEF StartupInv

\* Every step of a start, and steps of others.
LEMMA StartupKeeps == StartupInv /\ [StartupNext]_startupVars => StartupInv'
<1> SUFFICES ASSUME StartupInv, [StartupNext]_startupVars
             PROVE  StartupInv'
    OBVIOUS
<1>1. CASE StartupNext
    <2>1. PICK p \in ServerProcesses :
            \/ StartProcess(p) \/ ApplyTransacted(p) \/ ScriptStep(p) \/ KeyOpen(p) \/ KeyWrite(p)
            \/ Restore(p) \/ Bind(p) \/ RunMatch(p) \/ CrashProcess(p)
        BY <1>1, Zenon DEF StartupNext
    <2>2. UNCHANGED suRows
        BY <1>1, Zenon DEF StartupNext
    <2> QED BY <2>1, <2>2, StartStep, TransactedStep, ScriptStepKeeps, KeyStep, BindStep, ServeOrCrash, Zenon
<1>2. CASE UNCHANGED startupVars
    BY ZenonT(100), <1>2 DEF startupVars, StartupInv, StartupRangesOK, VersionsAreOrdered, TablesAreSafe, TableIsSafe,
        Between, Running, KeyIsHeld, PortIsHeld, AloneRebuilds, AloneRuns, Rebuilt, Whole
<1> QED BY <1>1, <1>2

\* What the invariant is for.
LEMMA StartupInvSuffices == StartupInv => StartupSafety
<1> SUFFICES ASSUME StartupInv
             PROVE  StartupSafety
    OBVIOUS
<1>1. StartupTypeOK
    <2>1. ASSUME NEW p \in ServerProcesses
          PROVE  /\ suProc[p].at \in {"down", "migrate", "key", "write_key", "restore", "bind", "serving"}
                 /\ (suProc[p].at = "serving") = (suPort = p)
        BY DEF StartupInv, StartupRangesOK, PortIsHeld, Proc
    <2> QED BY <2>1 DEF StartupTypeOK, StartupInv, StartupRangesOK
<1>2. RowsSurvive
    <2>1. ASSUME suRows, NEW t \in Tables
          PROVE  suMain[t].rows \/ suAside[t].rows
        <3>1. PICK k \in 1..N : t = SeatTables[k]
            BY TablesHavePlaces
        <3> QED BY <2>1, <3>1 DEF StartupInv, TablesAreSafe, TableIsSafe
    <2> QED BY <2>1 DEF RowsSurvive
<1>3. suPort # Nobody => suPort \in ServerProcesses /\ suProc[suPort].at = "serving"
    BY DEF StartupInv, StartupRangesOK, PortIsHeld
<1>4. ServesFromWholeSchema
    <2> SUFFICES ASSUME suAlone, suPort # Nobody
                 PROVE  ServesFromWholeSchema
        BY DEF ServesFromWholeSchema
    <2>1. suRecorded = LastVersion
        BY <1>3 DEF StartupInv, VersionsAreOrdered, Past
    <2>2. Whole
        BY <2>1 DEF StartupInv, AloneRebuilds
    <2> QED BY <2>1, <2>2, Zenon DEF ServesFromWholeSchema, Whole, Fresh
<1>5. OneKey
    BY DEF StartupInv, KeyIsHeld, OneKey
<1>6. NoMatchPretendsToRun
    BY <1>3 DEF StartupInv, AloneRuns, NoMatchPretendsToRun
<1> QED BY <1>1, <1>2, <1>4, <1>5, <1>6 DEF StartupSafety

\* However many server processes are started on one data directory,
\* crash and are started again, anywhere in the untransacted migration, the key
\* file or the restore: the rows of every table are in it or in what was set
\* aside, all processes past the key hold the key in the file, and a server
\* that never had another beside it serves only from the complete schema, with
\* the rows, and shows no active match without a runner.  Migration 0014, which
\* has no transaction, load_or_create_key and AgentMatchManager::restore are the
\* places where it could go wrong.
THEOREM StartupIsSafe == StartupSpec => []StartupSafety
<1>1. StartupInit => StartupInv
    BY StartupStarts
<1>2. StartupInv /\ [StartupNext]_startupVars => StartupInv'
    BY StartupKeeps
<1>3. StartupInv => StartupSafety
    BY StartupInvSuffices
<1> QED BY <1>1, <1>2, <1>3, PTL DEF StartupSpec

-----------------------------------------------------------------------------
(* Capabilities: the inductive invariant *)

\* A call between its load and its transaction holds a record of a stored row
\* with the authority that the row still has, and a time at which the row, and
\* the replacement, are legal.
LoadedInv ==
    \A c \in Calls : calls[c].phase = "loaded" =>
        LET k == calls[c]
        IN /\ k.id \in Ids
           /\ Present(k.id)
           /\ k.row \in CapabilityRecord
           /\ Readable(k.row)
           /\ Authority(k.row) = Authority(rows[k.id])
           /\ k.op = "rotate" => k.now < k.expires

\* A lineage is named by a stored capability, and its members share one
\* authority.
LineageInv ==
    \A i \in Ids : Present(i) =>
        /\ lineage[i] \in Ids
        /\ Present(lineage[i])
        /\ Authority(rows[i]) = Authority(rows[lineage[i]])

\* What an authentication knows at each of its phases.
CallOK(c) ==
    LET k == calls[c]
    IN /\ k.phase \in {"called", "judged", "audited"} => k.op = "authenticate"
       /\ k.phase = "called" => k.id \in Ids /\ (k.late => Revoked(k.id))
       /\ k.phase \in {"judged", "audited", "answered"} /\ k.late
             => k.outcome # "success"
       /\ k.phase = "judged" => k.outcome # "none"
       /\ k.phase \in {"audited", "answered"} /\ k.op = "authenticate" =>
             Audit(c, "authenticate", k.outcome, k.id) \in audits
       /\ k.phase = "answered" /\ k.op = "authenticate"
             /\ k.outcome = "success" /\ k.scope \in Privileged =>
             Audit(c, "privileged_access", "success", k.id) \in audits

CallInv == \A c \in Calls : CallOK(c)

Inv == TypeOK /\ LoadedInv

-----------------------------------------------------------------------------
(* Capabilities: what the actions do to a call *)

\* role_allows gives scopes.
LEMMA RoleAllowsType == role_allows \in [Roles -> SUBSET Scopes]
BY Zenon DEF role_allows, Roles, Scopes

\* The state of a call that was not made.
LEMMA NoCallType == NoCall \in Call
BY DEF NoCall, Call, Phases

\* The empty tables satisfy the invariant.
LEMMA InitInv == Init => Inv
<1> SUFFICES ASSUME Init PROVE Inv OBVIOUS
<1> QED BY NoCallType DEF Init, Inv, TypeOK, LoadedInv, NoCall, Present

\* A step that changes one call only, and does not make it hold a record.
LEMMA QuietInv ==
    ASSUME Inv, NEW c \in Calls, NEW v \in Call, v.phase # "loaded",
           calls' = [calls EXCEPT ![c] = v], rows' = rows, lineage' = lineage,
           audits' \subseteq AuditRecord, clock' \in Nat
    PROVE  Inv'
<1>1. TypeOK'
    BY DEF Inv, TypeOK, Present
<1>2. LoadedInv'
    BY DEF Inv, TypeOK, LoadedInv, Present
<1> QED BY <1>1, <1>2 DEF Inv

\* The row that NewRow makes of a legal request or record can be read back.
LEMMA NewRowType ==
    ASSUME NEW q, q.game \in Games, q.role \in Roles, q.scopes \in SUBSET Scopes,
           q.run \in Runs, NEW now \in Nat, NEW expires \in Nat,
           validate_issue(q.game, q.role, q.scopes, q.run, expires, now)
    PROVE  /\ NewRow(q, now, expires) \in CapabilityRecord
           /\ Readable(NewRow(q, now, expires))
           /\ NewRow(q, now, expires) # None
           /\ NewRow(q, now, expires).revoked = None
           /\ Authority(NewRow(q, now, expires)) = Authority(q)
<1>1. NewRow(q, now, expires) \in CapabilityRecord
    BY DEF NewRow, CapabilityRecord
<1> QED BY <1>1, CapabilitiesAssumption DEF NewRow, Readable, validate_issue, Authority

\* Revoking a row leaves it readable, with the same authority.
LEMMA RevokedRowType ==
    ASSUME NEW r \in CapabilityRecord, Readable(r), NEW now \in Nat, r.issued <= now
    PROVE  LET s == [r EXCEPT !.revoked = now]
           IN /\ s \in CapabilityRecord
              /\ Readable(s)
              /\ s # None
              /\ s.revoked = now
              /\ s.revoked # None
              /\ Authority(s) = Authority(r)
<1> DEFINE s == [r EXCEPT !.revoked = now]
<1>1. s \in CapabilityRecord
    BY DEF CapabilityRecord
<1> QED BY <1>1, CapabilitiesAssumption DEF CapabilityRecord, Readable, Authority

\* Stored rows stay and keep their authority.
RowsKept ==
    \A i \in Ids : Present(i) =>
        rows'[i] # None /\ Authority(rows'[i]) = Authority(rows[i])

\* A step that ends one call and keeps the rows leaves what the others hold.
LEMMA LoadedKept ==
    ASSUME Inv, RowsKept, NEW c \in Calls, NEW v \in Call, v.phase # "loaded",
           calls' = [calls EXCEPT ![c] = v]
    PROVE  LoadedInv'
BY DEF Inv, TypeOK, LoadedInv, Present, RowsKept

\* An answered call holds nothing.
LEMMA AnsweredType ==
    ASSUME NEW op \in {"issue", "revoke", "rotate"}
    PROVE  Answered(op) \in Call /\ Answered(op).phase = "answered"
           /\ Answered(op).late = FALSE /\ Answered(op).op = op
BY NoCallType DEF Answered, NoCall, Call, Phases

\* issue_capability keeps the invariant and every stored row.
LEMMA IssueInv ==
    ASSUME Inv, NEW c \in Calls, NEW i \in Ids, NEW q \in Requests,
           issue_capability(c, i, q)
    PROVE  Inv' /\ RowsKept
<1>1. PICK now \in Sampled :
          /\ validate_issue(q.game, q.role, q.scopes, q.run, q.expires, now)
          /\ ~Present(i)
          /\ rows' = [rows EXCEPT ![i] = NewRow(q, now, q.expires)]
          /\ audits' = audits \cup {Audit(c, "issue", "success", i)}
          /\ calls' = [calls EXCEPT ![c] = Answered("issue")]
          /\ clock' = clock
          /\ lineage' = [lineage EXCEPT ![i] = i]
    BY DEF issue_capability
<1>2. now \in Nat
    BY DEF Sampled, Inv, TypeOK
<1>3. q \in Request
    BY CapabilitiesAssumption
<1> DEFINE n == NewRow(q, now, q.expires)
<1>4. /\ n \in CapabilityRecord /\ Readable(n) /\ n # None
    BY <1>1, <1>2, <1>3, NewRowType DEF Request
<1> HIDE DEF n
<1>5. rows' = [rows EXCEPT ![i] = n]
    BY <1>1 DEF n
<1>6. RowsKept
    BY <1>1, <1>4, <1>5 DEF RowsKept, Inv, TypeOK, Present
<1>7. LoadedInv'
    BY <1>1, <1>6, LoadedKept, AnsweredType
<1>8. audits' \subseteq AuditRecord
    BY <1>1 DEF Inv, TypeOK, AuditRecord, Audit
<1>9. TypeOK'
    BY <1>1, <1>4, <1>5, <1>8, AnsweredType DEF Inv, TypeOK, Present
<1> QED BY <1>6, <1>7, <1>9 DEF Inv

\* revoke keeps the invariant and the authority of the row it revokes.
LEMMA RevokeInv ==
    ASSUME Inv, NEW c \in Calls, revoke(c)
    PROVE  Inv' /\ RowsKept
<1> DEFINE k == calls[c]
           n == [rows[k.id] EXCEPT !.revoked = k.now]
<1>1. k \in Call /\ k.id \in Ids /\ k.now \in Nat
    BY DEF Inv, TypeOK, LoadedInv, revoke, Call
<1>2. rows[k.id] \in CapabilityRecord /\ Readable(rows[k.id])
    BY <1>1 DEF Inv, TypeOK, revoke, Updatable, Present
<1>3. /\ n \in CapabilityRecord /\ Readable(n) /\ n # None
      /\ Authority(n) = Authority(rows[k.id])
    BY <1>1, <1>2, RevokedRowType DEF revoke, Updatable
<1>4. /\ rows' = [rows EXCEPT ![k.id] = n]
      /\ audits' = audits \cup {Audit(c, "revoke", "success", k.id)}
      /\ calls' = [calls EXCEPT ![c] = Answered("revoke")]
      /\ clock' = clock
      /\ lineage' = lineage
    BY DEF revoke
<1> HIDE DEF n
<1>5. RowsKept
    BY <1>1, <1>3, <1>4 DEF RowsKept, Inv, TypeOK, Present
<1>6. LoadedInv'
    BY <1>4, <1>5, LoadedKept, AnsweredType
<1>7. audits' \subseteq AuditRecord
    BY <1>1, <1>4 DEF Inv, TypeOK, AuditRecord, Audit
<1>8. TypeOK'
    BY <1>1, <1>3, <1>4, <1>7, AnsweredType DEF Inv, TypeOK, Present
<1> QED BY <1>5, <1>6, <1>8 DEF Inv

\* rotate keeps the invariant, the prior row and its authority.
LEMMA RotateInv ==
    ASSUME Inv, NEW c \in Calls, NEW i \in Ids, rotate(c, i)
    PROVE  Inv' /\ RowsKept
<1> DEFINE k == calls[c]
           n == [rows[k.id] EXCEPT !.revoked = k.now]
           m == NewRow(k.row, k.now, k.expires)
<1>1. /\ k \in Call /\ k.id \in Ids /\ k.now \in Nat /\ k.expires \in Nat
      /\ k.row \in CapabilityRecord /\ Readable(k.row)
      /\ k.now < k.expires
    BY DEF Inv, TypeOK, LoadedInv, rotate, Call
<1>2. rows[k.id] \in CapabilityRecord /\ Readable(rows[k.id])
    BY <1>1 DEF Inv, TypeOK, rotate, Updatable, Present
<1>3. /\ n \in CapabilityRecord /\ Readable(n) /\ n # None
      /\ Authority(n) = Authority(rows[k.id])
    BY <1>1, <1>2, RevokedRowType DEF rotate, Updatable
<1>4. validate_issue(k.row.game, k.row.role, k.row.scopes, k.row.run, k.expires, k.now)
    BY <1>1 DEF validate_issue, Readable
<1>5. /\ m \in CapabilityRecord /\ Readable(m) /\ m # None
    BY <1>1, <1>4, NewRowType DEF CapabilityRecord
<1>6. /\ rows' = [rows EXCEPT ![k.id] = n, ![i] = m]
      /\ audits' = audits \cup {Audit(c, "rotate", "success", k.id),
                                Audit(c, "issue", "success", i)}
      /\ calls' = [calls EXCEPT ![c] = Answered("rotate")]
      /\ clock' = clock
      /\ lineage' = [lineage EXCEPT ![i] = lineage[k.id]]
      /\ rows[i] = None /\ rows[k.id] # None
    BY DEF rotate, Updatable, Present
<1> HIDE DEF n, m
<1>7. RowsKept
    BY <1>1, <1>3, <1>5, <1>6 DEF RowsKept, Inv, TypeOK, Present
<1>8. LoadedInv'
    BY <1>6, <1>7, LoadedKept, AnsweredType
<1>9. audits' \subseteq AuditRecord
    BY <1>1, <1>6 DEF Inv, TypeOK, AuditRecord, Audit
<1>10. TypeOK'
    BY <1>1, <1>3, <1>5, <1>6, <1>9, AnsweredType DEF Inv, TypeOK, Present
<1> QED BY <1>7, <1>8, <1>10 DEF Inv

\* The loads of revoke and rotate: the call now holds the row.
LEMMA LoadInv ==
    ASSUME Inv, NEW c \in Calls, NEW i \in Ids, NEW expires \in Nat,
           RevokeLoad(c, i) \/ RotateLoad(c, i, expires)
    PROVE  Inv'
<1>1. rows[i] \in CapabilityRecord /\ Readable(rows[i]) /\ clock \in Nat
    BY DEF Inv, TypeOK, RevokeLoad, RotateLoad, Present
<1>2. PICK v \in Call :
          /\ calls' = [calls EXCEPT ![c] = v]
          /\ v.id = i
          /\ v.row = rows[i]
          /\ v.op = "rotate" => v.now < v.expires
    <2>1. CASE RevokeLoad(c, i)
        <3> DEFINE v == [NoCall EXCEPT !.phase = "loaded", !.op = "revoke", !.now = clock,
                                       !.id = i, !.row = rows[i]]
        <3>1. v \in Call /\ v.id = i /\ v.row = rows[i] /\ v.op = "revoke"
            BY <1>1 DEF NoCall, Call, Phases
        <3>2. calls' = [calls EXCEPT ![c] = v]
            BY <2>1 DEF RevokeLoad
        <3> QED BY <3>1, <3>2
    <2>2. CASE RotateLoad(c, i, expires)
        <3> DEFINE v == [NoCall EXCEPT !.phase = "loaded", !.op = "rotate", !.now = clock,
                                       !.id = i, !.row = rows[i], !.expires = expires]
        <3>1. /\ v \in Call /\ v.id = i /\ v.row = rows[i]
              /\ v.now = clock /\ v.expires = expires
            BY <1>1 DEF NoCall, Call, Phases
        <3>2. calls' = [calls EXCEPT ![c] = v] /\ clock < expires
            BY <2>2 DEF RotateLoad, validate_issue
        <3> QED BY <3>1, <3>2
    <2> QED BY <2>1, <2>2
<1>3. rows' = rows /\ lineage' = lineage /\ clock' = clock /\ audits' = audits /\ Present(i)
    BY DEF RevokeLoad, RotateLoad
<1>4. TypeOK'
    BY <1>2, <1>3 DEF Inv, TypeOK, Present
<1>5. LoadedInv'
    BY <1>1, <1>2, <1>3 DEF Inv, TypeOK, LoadedInv, Present
<1> QED BY <1>4, <1>5 DEF Inv

\* The steps that write no row: time, the steps of an authentication, the end
\* of a call.  Each leaves calls alone or gives one call a new state.
Silent(c) ==
    \/ \E q \in Questions : AuthenticateMalformed(c, q)
    \/ \E q \in Questions, t \in Tokens : AuthenticateCall(c, t, q)
    \/ AuthenticateLoad(c)
    \/ AuthenticateAudit(c)
    \/ PrivilegedAudit(c)
    \/ Drop(c)

\* The outcome of an authentication is one of those that are audited.
LEMMA VerdictType ==
    ASSUME NEW k, NEW row PROVE Verdict(k, row) \in Denied \cup {"success"}
BY DEF Verdict, Denied

\* The steps of an authentication keep the invariant and write no row.
LEMMA SilentInv ==
    ASSUME Inv, CallInv, NEW c \in Calls, Silent(c)
    PROVE  Inv' /\ rows' = rows /\ lineage' = lineage
<1> USE DEF Phases
<1>0. calls[c] \in Call /\ clock \in Nat
    BY DEF Inv, TypeOK
<1>1. ASSUME NEW q \in Questions, AuthenticateMalformed(c, q)
      PROVE  Inv' /\ rows' = rows /\ lineage' = lineage
    <2> DEFINE v == [NoCall EXCEPT !.phase = "judged", !.op = "authenticate",
                                   !.scope = q.scope, !.outcome = "denied_malformed"]
    <2>1. v \in Call /\ v.phase # "loaded"
        BY CapabilitiesAssumption DEF NoCall, Call, Denied
    <2>2. calls' = [calls EXCEPT ![c] = v]
        BY <1>1 DEF AuthenticateMalformed
    <2> HIDE DEF v
    <2> QED BY <1>0, <1>1, <2>1, <2>2, QuietInv DEF AuthenticateMalformed, Inv, TypeOK
<1>2. ASSUME NEW q \in Questions, NEW t \in Tokens, AuthenticateCall(c, t, q)
      PROVE  Inv' /\ rows' = rows /\ lineage' = lineage
    <2> DEFINE v == [NoCall EXCEPT !.phase = "called", !.op = "authenticate", !.now = clock,
                         !.id = t.id, !.genuine = t.genuine, !.scope = q.scope,
                         !.game = q.game, !.late = Revoked(t.id)]
    <2>0. Revoked(t.id) \in BOOLEAN
        BY DEF Revoked, Present
    <2>1. v \in Call /\ v.phase # "loaded"
        BY ZenonT(100), <1>0, <2>0, CapabilitiesAssumption DEF NoCall, Call, Denied
    <2>2. calls' = [calls EXCEPT ![c] = v]
        BY <1>2 DEF AuthenticateCall
    <2> HIDE DEF v
    <2> QED BY <1>0, <1>2, <2>1, <2>2, QuietInv DEF AuthenticateCall, Inv, TypeOK
<1>3. ASSUME AuthenticateLoad(c) PROVE Inv' /\ rows' = rows /\ lineage' = lineage
    <2> DEFINE o == Verdict(calls[c], rows[calls[c].id])
               v == [calls[c] EXCEPT !.phase = "judged", !.now = 0, !.genuine = FALSE,
                         !.game = None, !.outcome = o]
    <2>0. o \in Denied \cup {"success"}
        BY VerdictType
    <2>2. calls' = [calls EXCEPT ![c] = v]
        BY <1>3 DEF AuthenticateLoad
    <2> HIDE DEF o
    <2>1. v \in Call /\ v.phase # "loaded"
        BY ZenonT(40), <1>0, <2>0 DEF Call
    <2> HIDE DEF v
    <2> QED BY <1>0, <1>3, <2>1, <2>2, QuietInv DEF AuthenticateLoad, Inv, TypeOK
<1>4. ASSUME AuthenticateAudit(c) PROVE Inv' /\ rows' = rows /\ lineage' = lineage
    <2> DEFINE p == IF calls[c].outcome = "success" /\ calls[c].scope \in Privileged
                    THEN "audited" ELSE "answered"
               v == [calls[c] EXCEPT !.phase = p]
    <2>0. p \in {"audited", "answered"}
        OBVIOUS
    <2>2. calls' = [calls EXCEPT ![c] = v]
        BY <1>4 DEF AuthenticateAudit
    <2> HIDE DEF p
    <2>1. v \in Call /\ v.phase # "loaded"
        BY <1>0, <2>0 DEF Call
    <2>3. calls[c].outcome \in Denied \cup {"success"} /\ calls[c].id \in Ids \cup {None}
        BY <1>0, <1>4 DEF CallInv, CallOK, AuthenticateAudit, Call
    <2>4. audits' \subseteq AuditRecord
        BY <1>4, <2>3 DEF AuthenticateAudit, Inv, TypeOK, Audit, AuditRecord
    <2> HIDE DEF v
    <2> QED BY <1>0, <1>4, <2>1, <2>2, <2>4, QuietInv DEF AuthenticateAudit
<1>5. ASSUME PrivilegedAudit(c) PROVE Inv' /\ rows' = rows /\ lineage' = lineage
    <2> DEFINE v == [calls[c] EXCEPT !.phase = "answered"]
    <2>1. v \in Call /\ v.phase # "loaded"
        BY <1>0 DEF Call
    <2>2. calls' = [calls EXCEPT ![c] = v]
        BY <1>5 DEF PrivilegedAudit
    <2>3. audits' \subseteq AuditRecord
        BY <1>0, <1>5 DEF PrivilegedAudit, Inv, TypeOK, Audit, AuditRecord, Call
    <2> HIDE DEF v
    <2> QED BY <1>0, <1>5, <2>1, <2>2, <2>3, QuietInv DEF PrivilegedAudit
<1>6. ASSUME Drop(c) PROVE Inv' /\ rows' = rows /\ lineage' = lineage
    <2> DEFINE v == [NoCall EXCEPT !.phase = "dropped"]
    <2>1. v \in Call /\ v.phase # "loaded"
        BY NoCallType DEF NoCall, Call
    <2>2. calls' = [calls EXCEPT ![c] = v]
        BY <1>6 DEF Drop
    <2> HIDE DEF v
    <2> QED BY <1>0, <1>6, <2>1, <2>2, QuietInv DEF Drop, Inv, TypeOK
<1> QED BY <1>1, <1>2, <1>3, <1>4, <1>5, <1>6 DEF Silent

-----------------------------------------------------------------------------
(* Capabilities: rows are final once revoked *)

\* What one step may do to a stored row.
RowStep ==
    \A i \in Ids : Present(i) =>
        \/ rows'[i] = rows[i]
        \/ /\ rows[i].revoked = None
           /\ rows'[i] = [rows[i] EXCEPT !.revoked = rows'[i].revoked]

\* The actions that write rows.
Writes ==
    \E c \in Calls :
        \/ revoke(c)
        \/ \E i \in Ids : rotate(c, i) \/ \E q \in Requests : issue_capability(c, i, q)

\* Every other step leaves the rows and their lineages alone.
LEMMA NextCases ==
    ASSUME Inv, CallInv, [Next]_vars
    PROVE  \/ Writes
           \/ /\ Inv'
              /\ rows' = rows
              /\ lineage' = lineage
<1>1. CASE UNCHANGED vars
    BY <1>1 DEF vars, Inv, TypeOK, LoadedInv, Present
<1>2. CASE Tick
    <2>1. clock' \in Nat /\ UNCHANGED <<rows, audits, calls, lineage>>
        BY <1>2 DEF Tick, Inv, TypeOK
    <2> QED BY <2>1 DEF Inv, TypeOK, LoadedInv, Present
<1>3. ASSUME NEW c \in Calls, Silent(c)
      PROVE  Inv' /\ rows' = rows /\ lineage' = lineage
    BY <1>3, SilentInv
<1>4. ASSUME NEW c \in Calls, NEW i \in Ids, RevokeLoad(c, i)
      PROVE  Inv' /\ rows' = rows /\ lineage' = lineage
    <2>1. Inv'
        BY <1>4, LoadInv
    <2> QED BY <1>4, <2>1 DEF RevokeLoad
<1>5. ASSUME NEW c \in Calls, NEW i \in Ids, NEW expires \in Expiries,
             RotateLoad(c, i, expires)
      PROVE  Inv' /\ rows' = rows /\ lineage' = lineage
    <2>1. expires \in Nat
        BY CapabilitiesAssumption
    <2>2. Inv'
        BY <1>5, <2>1, LoadInv
    <2> QED BY <1>5, <2>2 DEF RotateLoad
<1> QED BY <1>1, <1>2, <1>3, <1>4, <1>5, Zenon DEF Next, Silent, Writes

\* Every step revokes a row for the first time or leaves it alone.
LEMMA RowStepHolds ==
    ASSUME Inv, CallInv, [Next]_vars
    PROVE  RowStep
<1>1. ASSUME NEW c \in Calls, revoke(c) PROVE RowStep
    <2> DEFINE k == calls[c]
    <2>1. k.id \in Ids
        BY <1>1 DEF revoke, Inv, LoadedInv
    <2>2. /\ rows' = [rows EXCEPT ![k.id] = [@ EXCEPT !.revoked = k.now]]
          /\ rows[k.id].revoked = None
          /\ rows[k.id] \in CapabilityRecord
        BY <1>1, <2>1 DEF revoke, Updatable, Inv, TypeOK, Present
    <2> QED BY <2>1, <2>2 DEF RowStep, Inv, TypeOK, CapabilityRecord
<1>2. ASSUME NEW c \in Calls, NEW i \in Ids, rotate(c, i) PROVE RowStep
    <2> DEFINE k == calls[c]
    <2>1. k.id \in Ids
        BY <1>2 DEF rotate, Inv, LoadedInv
    <2>2. /\ rows' = [rows EXCEPT ![k.id] = [@ EXCEPT !.revoked = k.now],
                                  ![i] = NewRow(k.row, k.now, k.expires)]
          /\ rows[k.id].revoked = None
          /\ rows[k.id] \in CapabilityRecord
          /\ rows[i] = None
        BY <1>2, <2>1 DEF rotate, Updatable, Inv, TypeOK, Present
    <2> QED BY <2>1, <2>2 DEF RowStep, Inv, TypeOK, CapabilityRecord, Present
<1>3. ASSUME NEW c \in Calls, NEW i \in Ids, NEW q \in Requests, issue_capability(c, i, q)
      PROVE  RowStep
    <2>1. PICK now \in Sampled : /\ rows' = [rows EXCEPT ![i] = NewRow(q, now, q.expires)]
                                 /\ rows[i] = None
        BY <1>3 DEF issue_capability, Present
    <2> QED BY <2>1 DEF RowStep, Inv, TypeOK, Present
<1>4. CASE rows' = rows
    BY <1>4 DEF RowStep
<1> QED BY <1>1, <1>2, <1>3, <1>4, NextCases DEF Writes

\* Inv is inductive together with CallInv.
LEMMA StepInv ==
    ASSUME Inv, CallInv, [Next]_vars
    PROVE  Inv'
BY NextCases, IssueInv, RevokeInv, RotateInv DEF Writes

-----------------------------------------------------------------------------
(* Capabilities: authentications *)

\* Revocations and audit records stay; a step changes at most one call.
LEMMA CallsKept ==
    ASSUME Inv, CallInv, RowStep, audits \subseteq audits', NEW c \in Calls,
           \A d \in Calls \ {c} : calls'[d] = calls[d], CallOK(c)'
    PROVE  CallInv'
<1>1. ASSUME NEW i \in Ids, Revoked(i) PROVE Revoked(i)'
    BY <1>1 DEF RowStep, Revoked, Present
<1>2. ASSUME NEW d \in Calls \ {c} PROVE CallOK(d)'
    <2>1. CallOK(d) /\ calls'[d] = calls[d]
        BY <1>2 DEF CallInv
    <2>2. /\ Audit(d, "authenticate", calls[d].outcome, calls[d].id)'
                = Audit(d, "authenticate", calls[d].outcome, calls[d].id)
          /\ Audit(d, "privileged_access", "success", calls[d].id)'
                = Audit(d, "privileged_access", "success", calls[d].id)
        BY <2>1 DEF Audit
    <2> QED BY <1>1, <2>1, <2>2 DEF CallOK
<1> QED BY <1>2 DEF CallInv

\* A call that is not an authentication at work satisfies CallOK.
LEMMA PlainCallOK ==
    ASSUME NEW c \in Calls, calls[c].phase \in {"loaded", "answered", "dropped"},
           calls[c].op # "authenticate", calls[c].late = FALSE
    PROVE  CallOK(c)
BY DEF CallOK

\* Every step keeps what the authentications know.
LEMMA StepCallInv ==
    ASSUME Inv, CallInv, [Next]_vars
    PROVE  CallInv'
<1>0. RowStep
    BY RowStepHolds
<1> USE DEF Inv, TypeOK
<1>1. ASSUME audits' = audits, calls' = calls PROVE CallInv'
    <2>1. ASSUME NEW i \in Ids, Revoked(i) PROVE Revoked(i)'
        BY <1>0, <2>1 DEF RowStep, Revoked, Present
    <2> QED BY <1>1, <2>1 DEF CallInv, CallOK, Audit
<1>2. ASSUME NEW c \in Calls, NEW op \in {"issue", "revoke", "rotate"},
             calls' = [calls EXCEPT ![c] = Answered(op)], audits \subseteq audits'
      PROVE  CallInv'
    <2>1. calls'[c] = Answered(op) /\ \A d \in Calls \ {c} : calls'[d] = calls[d]
        BY <1>2
    <2>2. CallOK(c)'
        BY <2>1, AnsweredType, PlainCallOK DEF CallOK
    <2> QED BY <1>0, <1>2, <2>1, <2>2, CallsKept
<1>3. ASSUME NEW c \in Calls, NEW i \in Ids, NEW q \in Requests, issue_capability(c, i, q)
      PROVE  CallInv'
    BY <1>2, <1>3 DEF issue_capability
<1>4. ASSUME NEW c \in Calls, revoke(c) PROVE CallInv'
    BY <1>2, <1>4 DEF revoke
<1>5. ASSUME NEW c \in Calls, NEW i \in Ids, rotate(c, i) PROVE CallInv'
    BY <1>2, <1>5 DEF rotate
<1>6. ASSUME NEW c \in Calls, NEW i \in Ids, RevokeLoad(c, i) PROVE CallInv'
    <2>1. /\ calls'[c] = [NoCall EXCEPT !.phase = "loaded", !.op = "revoke", !.now = clock,
                                        !.id = i, !.row = rows[i]]
          /\ \A d \in Calls \ {c} : calls'[d] = calls[d]
          /\ audits' = audits
        BY <1>6 DEF RevokeLoad
    <2>2. CallOK(c)'
        BY <2>1 DEF CallOK, NoCall
    <2> QED BY <1>0, <2>1, <2>2, CallsKept
<1>7. ASSUME NEW c \in Calls, NEW i \in Ids, NEW expires \in Expiries,
             RotateLoad(c, i, expires)
      PROVE  CallInv'
    <2>1. /\ calls'[c] = [NoCall EXCEPT !.phase = "loaded", !.op = "rotate", !.now = clock,
                                        !.id = i, !.row = rows[i], !.expires = expires]
          /\ \A d \in Calls \ {c} : calls'[d] = calls[d]
          /\ audits' = audits
        BY <1>7 DEF RotateLoad
    <2>2. CallOK(c)'
        BY <2>1 DEF CallOK, NoCall
    <2> QED BY <1>0, <2>1, <2>2, CallsKept
<1>8. ASSUME NEW c \in Calls, NEW q \in Questions, AuthenticateMalformed(c, q)
      PROVE  CallInv'
    <2>1. /\ calls'[c] = [NoCall EXCEPT !.phase = "judged", !.op = "authenticate",
                                        !.scope = q.scope, !.outcome = "denied_malformed"]
          /\ \A d \in Calls \ {c} : calls'[d] = calls[d]
          /\ audits' = audits
        BY <1>8 DEF AuthenticateMalformed
    <2>2. CallOK(c)'
        BY <2>1 DEF CallOK, NoCall
    <2> QED BY <1>0, <2>1, <2>2, CallsKept
<1>9. ASSUME NEW c \in Calls, NEW q \in Questions, NEW t \in Tokens,
             AuthenticateCall(c, t, q)
      PROVE  CallInv'
    <2> DEFINE v == [NoCall EXCEPT !.phase = "called", !.op = "authenticate", !.now = clock,
                         !.id = t.id, !.genuine = t.genuine, !.scope = q.scope,
                         !.game = q.game, !.late = Revoked(t.id)]
    <2>1. /\ calls'[c] = v
          /\ \A d \in Calls \ {c} : calls'[d] = calls[d]
          /\ audits' = audits /\ rows' = rows
        BY <1>9 DEF AuthenticateCall
    <2>2. /\ v.phase = "called" /\ v.op = "authenticate" /\ v.id = t.id
          /\ v.late = Revoked(t.id) /\ t.id \in Ids
        BY CapabilitiesAssumption DEF NoCall
    <2> HIDE DEF v
    <2>3. CallOK(c)'
        BY <2>1, <2>2 DEF CallOK, Revoked, Present
    <2> QED BY <1>0, <2>1, <2>3, CallsKept
<1>10. ASSUME NEW c \in Calls, AuthenticateLoad(c) PROVE CallInv'
    <2> DEFINE k == calls[c]
               o == Verdict(k, rows[k.id])
               v == [k EXCEPT !.phase = "judged", !.now = 0, !.genuine = FALSE,
                              !.game = None, !.outcome = o]
    <2>1. /\ calls'[c] = v
          /\ \A d \in Calls \ {c} : calls'[d] = calls[d]
          /\ audits' = audits
        BY <1>10 DEF AuthenticateLoad
    <2>2. /\ k.op = "authenticate" /\ k.id \in Ids /\ (k.late => Revoked(k.id))
        BY <1>10 DEF AuthenticateLoad, CallInv, CallOK
    <2>3. k.late => o # "success"
        BY <2>2 DEF Verdict, Revoked, Present
    <2>4. o # "none"
        BY DEF Verdict
    <2> HIDE DEF o
    <2>5. /\ v.phase = "judged" /\ v.op = k.op /\ v.late = k.late /\ v.outcome = o
        BY DEF Call
    <2> HIDE DEF v, k
    <2>6. CallOK(c)'
        BY <2>1, <2>2, <2>3, <2>4, <2>5 DEF CallOK
    <2> QED BY <1>0, <2>1, <2>6, CallsKept
<1>11. ASSUME NEW c \in Calls, AuthenticateAudit(c) PROVE CallInv'
    <2> DEFINE k == calls[c]
               p == IF k.outcome = "success" /\ k.scope \in Privileged
                    THEN "audited" ELSE "answered"
               v == [k EXCEPT !.phase = p]
    <2>1. /\ calls'[c] = v
          /\ \A d \in Calls \ {c} : calls'[d] = calls[d]
          /\ audits' = audits \cup {Audit(c, "authenticate", k.outcome, k.id)}
        BY <1>11 DEF AuthenticateAudit
    <2>2. /\ k.op = "authenticate" /\ (k.late => k.outcome # "success")
        BY <1>11 DEF AuthenticateAudit, CallInv, CallOK
    <2>3. /\ v.phase = p /\ v.op = k.op /\ v.late = k.late /\ v.outcome = k.outcome
          /\ v.id = k.id /\ v.scope = k.scope
        BY DEF Call
    <2>4. p \in {"audited", "answered"}
          /\ (k.outcome = "success" /\ k.scope \in Privileged => p = "audited")
        OBVIOUS
    <2> HIDE DEF v, k, p
    <2>5. CallOK(c)'
        BY <2>1, <2>2, <2>3, <2>4 DEF CallOK, Audit
    <2> QED BY <1>0, <2>1, <2>5, CallsKept
<1>12. ASSUME NEW c \in Calls, PrivilegedAudit(c) PROVE CallInv'
    <2> DEFINE k == calls[c]
               v == [k EXCEPT !.phase = "answered"]
    <2>1. /\ calls'[c] = v
          /\ \A d \in Calls \ {c} : calls'[d] = calls[d]
          /\ audits' = audits \cup {Audit(c, "privileged_access", "success", k.id)}
        BY <1>12 DEF PrivilegedAudit
    <2>2. /\ k.op = "authenticate" /\ (k.late => k.outcome # "success")
          /\ Audit(c, "authenticate", k.outcome, k.id) \in audits
        BY <1>12 DEF PrivilegedAudit, CallInv, CallOK
    <2>3. /\ v.phase = "answered" /\ v.op = k.op /\ v.late = k.late
          /\ v.outcome = k.outcome /\ v.id = k.id /\ v.scope = k.scope
        BY DEF Call
    <2> HIDE DEF v, k
    <2>4. CallOK(c)'
        BY <2>1, <2>2, <2>3 DEF CallOK, Audit
    <2> QED BY <1>0, <2>1, <2>4, CallsKept
<1>13. ASSUME NEW c \in Calls, Drop(c) PROVE CallInv'
    <2>1. /\ calls'[c] = [NoCall EXCEPT !.phase = "dropped"]
          /\ \A d \in Calls \ {c} : calls'[d] = calls[d]
          /\ audits' = audits
        BY <1>13 DEF Drop
    <2>2. CallOK(c)'
        BY <2>1 DEF CallOK, NoCall
    <2> QED BY <1>0, <2>1, <2>2, CallsKept
<1>14. CASE UNCHANGED vars
    BY <1>1, <1>14 DEF vars
<1>15. CASE Tick
    BY <1>1, <1>15 DEF Tick
<1> QED
    BY <1>3, <1>4, <1>5, <1>6, <1>7, <1>8, <1>9, <1>10, <1>11, <1>12, <1>13,
       <1>14, <1>15, Zenon DEF Next

-----------------------------------------------------------------------------
(* Capabilities: lineages *)

\* What the three writing actions do, in the terms of lineages and audits.
IssueEffect(c, i, n) ==
    /\ ~Present(i)
    /\ n # None /\ n.revoked = None
    /\ rows' = [rows EXCEPT ![i] = n]
    /\ lineage' = [lineage EXCEPT ![i] = i]
    /\ audits' = audits \cup {Audit(c, "issue", "success", i)}

RevokeEffect(c, p, n) ==
    /\ p \in Ids /\ Present(p) /\ rows[p].revoked = None
    /\ n # None /\ n.revoked # None /\ Authority(n) = Authority(rows[p])
    /\ rows' = [rows EXCEPT ![p] = n]
    /\ lineage' = lineage
    /\ audits' = audits \cup {Audit(c, "revoke", "success", p)}

RotateEffect(c, p, i, n, m) ==
    /\ p \in Ids /\ Present(p) /\ rows[p].revoked = None
    /\ ~Present(i) /\ i # p
    /\ n # None /\ n.revoked # None /\ Authority(n) = Authority(rows[p])
    /\ m # None /\ m.revoked = None /\ Authority(m) = Authority(rows[p])
    /\ rows' = [rows EXCEPT ![p] = n, ![i] = m]
    /\ lineage' = [lineage EXCEPT ![i] = lineage[p]]
    /\ audits' = audits \cup {Audit(c, "rotate", "success", p),
                              Audit(c, "issue", "success", i)}

\* issue_capability has the effect above.
LEMMA IssueHasEffect ==
    ASSUME Inv, NEW c \in Calls, NEW i \in Ids, NEW q \in Requests,
           issue_capability(c, i, q)
    PROVE  \E n : IssueEffect(c, i, n) /\ n \in CapabilityRecord
<1>1. PICK now \in Sampled :
          /\ validate_issue(q.game, q.role, q.scopes, q.run, q.expires, now)
          /\ ~Present(i)
          /\ rows' = [rows EXCEPT ![i] = NewRow(q, now, q.expires)]
          /\ audits' = audits \cup {Audit(c, "issue", "success", i)}
          /\ lineage' = [lineage EXCEPT ![i] = i]
    BY DEF issue_capability
<1>2. now \in Nat /\ q \in Request
    BY CapabilitiesAssumption DEF Sampled, Inv, TypeOK
<1> DEFINE n == NewRow(q, now, q.expires)
<1>3. n # None /\ n.revoked = None /\ n \in CapabilityRecord
    BY <1>1, <1>2, NewRowType DEF Request
<1> HIDE DEF n
<1>4. rows' = [rows EXCEPT ![i] = n]
    BY <1>1 DEF n
<1>5. IssueEffect(c, i, n)
    BY <1>1, <1>3, <1>4 DEF IssueEffect
<1> QED BY <1>3, <1>5

\* revoke has the effect above.
LEMMA RevokeHasEffect ==
    ASSUME Inv, NEW c \in Calls, revoke(c)
    PROVE  \E n : RevokeEffect(c, calls[c].id, n)
<1> DEFINE k == calls[c]
           n == [rows[k.id] EXCEPT !.revoked = k.now]
<1>1. k \in Call /\ k.id \in Ids /\ k.now \in Nat
    BY DEF Inv, TypeOK, LoadedInv, revoke, Call
<1>2. rows[k.id] \in CapabilityRecord /\ Readable(rows[k.id])
    BY <1>1 DEF Inv, TypeOK, revoke, Updatable, Present
<1>3. n # None /\ n.revoked # None /\ Authority(n) = Authority(rows[k.id])
    BY <1>1, <1>2, RevokedRowType DEF revoke, Updatable
<1>4. /\ Present(k.id) /\ rows[k.id].revoked = None
      /\ rows' = [rows EXCEPT ![k.id] = n]
      /\ audits' = audits \cup {Audit(c, "revoke", "success", k.id)}
      /\ lineage' = lineage
    BY DEF revoke, Updatable
<1> HIDE DEF n
<1>5. RevokeEffect(c, k.id, n)
    BY <1>1, <1>3, <1>4 DEF RevokeEffect
<1> QED BY <1>5

\* rotate has the effect above.
LEMMA RotateHasEffect ==
    ASSUME Inv, NEW c \in Calls, NEW i \in Ids, rotate(c, i)
    PROVE  \E n, m : RotateEffect(c, calls[c].id, i, n, m)
<1> DEFINE k == calls[c]
           n == [rows[k.id] EXCEPT !.revoked = k.now]
           m == NewRow(k.row, k.now, k.expires)
<1>1. /\ k \in Call /\ k.id \in Ids /\ k.now \in Nat /\ k.expires \in Nat
      /\ k.row \in CapabilityRecord /\ Readable(k.row)
      /\ k.now < k.expires /\ Authority(k.row) = Authority(rows[k.id])
    BY DEF Inv, TypeOK, LoadedInv, rotate, Call
<1>2. rows[k.id] \in CapabilityRecord /\ Readable(rows[k.id])
    BY <1>1 DEF Inv, TypeOK, rotate, Updatable, Present
<1>3. n # None /\ n.revoked # None /\ Authority(n) = Authority(rows[k.id])
    BY <1>1, <1>2, RevokedRowType DEF rotate, Updatable
<1>4. validate_issue(k.row.game, k.row.role, k.row.scopes, k.row.run, k.expires, k.now)
    BY <1>1 DEF validate_issue, Readable
<1>5. m # None /\ m.revoked = None /\ Authority(m) = Authority(k.row)
    BY <1>1, <1>4, NewRowType DEF CapabilityRecord
<1>6. /\ rows' = [rows EXCEPT ![k.id] = n, ![i] = m]
      /\ audits' = audits \cup {Audit(c, "rotate", "success", k.id),
                                Audit(c, "issue", "success", i)}
      /\ lineage' = [lineage EXCEPT ![i] = lineage[k.id]]
      /\ Present(k.id) /\ rows[k.id].revoked = None /\ ~Present(i)
    BY DEF rotate, Updatable
<1>7. i # k.id
    BY <1>6
<1> HIDE DEF n, m
<1>8. RotateEffect(c, k.id, i, n, m)
    BY <1>1, <1>3, <1>5, <1>6, <1>7 DEF RotateEffect
<1> QED BY <1>8

\* Every step has one of these effects, or writes neither rows nor lineages
\* and adds no record of an issuance, revocation or rotation.
NoEffect ==
    /\ rows' = rows
    /\ lineage' = lineage
    /\ audits \subseteq audits'
    /\ \A a \in audits' \ audits : a.action \in {"authenticate", "privileged_access"}

\* The cases of a step, by effect.
LEMMA StepHasEffect ==
    ASSUME Inv, CallInv, [Next]_vars
    PROVE  \/ NoEffect
           \/ \E c \in Calls, i \in Ids, n \in CapabilityRecord : IssueEffect(c, i, n)
           \/ \E c \in Calls, p \in Ids : \E n : RevokeEffect(c, p, n)
           \/ \E c \in Calls, p, i \in Ids : \E n, m : RotateEffect(c, p, i, n, m)
<1>1. ASSUME NEW c \in Calls, NEW i \in Ids, NEW q \in Requests, issue_capability(c, i, q)
      PROVE  \E n \in CapabilityRecord : IssueEffect(c, i, n)
    BY <1>1, IssueHasEffect
<1>2. ASSUME NEW c \in Calls, revoke(c)
      PROVE  \E p \in Ids : \E n : RevokeEffect(c, p, n)
    BY <1>2, RevokeHasEffect DEF RevokeEffect
<1>3. ASSUME NEW c \in Calls, NEW i \in Ids, rotate(c, i)
      PROVE  \E p \in Ids : \E n, m : RotateEffect(c, p, i, n, m)
    BY <1>3, RotateHasEffect DEF RotateEffect
<1>4. ASSUME NEW c \in Calls, Silent(c) PROVE NoEffect
    <2> USE DEF NoEffect, Audit
    <2>1. ASSUME NEW q, AuthenticateMalformed(c, q) PROVE NoEffect
        BY <2>1 DEF AuthenticateMalformed
    <2>2. ASSUME NEW t, NEW q, AuthenticateCall(c, t, q) PROVE NoEffect
        BY <2>2 DEF AuthenticateCall
    <2>3. CASE AuthenticateLoad(c)
        BY <2>3 DEF AuthenticateLoad
    <2>4. CASE AuthenticateAudit(c)
        <3>1. /\ rows' = rows /\ lineage' = lineage
              /\ audits' = audits \cup {Audit(c, "authenticate", calls[c].outcome, calls[c].id)}
            BY <2>4 DEF AuthenticateAudit
        <3> QED BY <3>1
    <2>5. CASE PrivilegedAudit(c)
        <3>1. /\ rows' = rows /\ lineage' = lineage
              /\ audits' = audits \cup {Audit(c, "privileged_access", "success", calls[c].id)}
            BY <2>5 DEF PrivilegedAudit
        <3> QED BY <3>1
    <2>6. CASE Drop(c)
        BY <2>6 DEF Drop
    <2> QED BY <1>4, <2>1, <2>2, <2>3, <2>4, <2>5, <2>6, Zenon DEF Silent
<1>5. ASSUME NEW c \in Calls, NEW i \in Ids, RevokeLoad(c, i) PROVE NoEffect
    BY <1>5 DEF RevokeLoad, NoEffect
<1>6. ASSUME NEW c \in Calls, NEW i \in Ids, NEW expires, RotateLoad(c, i, expires)
      PROVE  NoEffect
    BY <1>6 DEF RotateLoad, NoEffect
<1>7. CASE UNCHANGED vars
    BY <1>7 DEF vars, NoEffect
<1>8. CASE Tick
    BY <1>8 DEF Tick, NoEffect
<1> QED BY <1>1, <1>2, <1>3, <1>4, <1>5, <1>6, <1>7, <1>8, Zenon DEF Next, Silent

\* A replacement joins the lineage of a stored row, with its authority.
LEMMA StepLineageInv ==
    ASSUME Inv, CallInv, LineageInv, [Next]_vars
    PROVE  LineageInv'
<1> USE DEF Inv, TypeOK, LineageInv, Present
<1>1. CASE NoEffect
    BY <1>1 DEF NoEffect
<1>2. ASSUME NEW c \in Calls, NEW i \in Ids, NEW n, IssueEffect(c, i, n)
      PROVE  LineageInv'
    BY <1>2 DEF IssueEffect
<1>3. ASSUME NEW c \in Calls, NEW p \in Ids, NEW n, RevokeEffect(c, p, n)
      PROVE  LineageInv'
    BY <1>3 DEF RevokeEffect
<1>4. ASSUME NEW c \in Calls, NEW p \in Ids, NEW i \in Ids, NEW n, NEW m,
             RotateEffect(c, p, i, n, m)
      PROVE  LineageInv'
    BY <1>4 DEF RotateEffect
<1> QED BY <1>1, <1>2, <1>3, <1>4, StepHasEffect

\* A rotation adds a valid member and revokes the one there was.
LEMMA StepOneValid ==
    ASSUME Inv, CallInv, LineageInv, OneValidPerLineage, [Next]_vars
    PROVE  OneValidPerLineage'
<1> USE DEF Inv, TypeOK, LineageInv, Present, OneValidPerLineage, Valid, Members
<1>1. CASE NoEffect
    BY <1>1 DEF NoEffect
<1>2. ASSUME NEW c \in Calls, NEW i \in Ids, NEW n, IssueEffect(c, i, n)
      PROVE  OneValidPerLineage'
    BY <1>2 DEF IssueEffect
<1>3. ASSUME NEW c \in Calls, NEW p \in Ids, NEW n, RevokeEffect(c, p, n)
      PROVE  OneValidPerLineage'
    BY <1>3 DEF RevokeEffect
<1>4. ASSUME NEW c \in Calls, NEW p \in Ids, NEW i \in Ids, NEW n, NEW m,
             RotateEffect(c, p, i, n, m)
      PROVE  OneValidPerLineage'
    BY <1>4 DEF RotateEffect
<1> QED BY <1>1, <1>2, <1>3, <1>4, StepHasEffect

\* The records of the issuance of a capability, and of its end.
Issues(i) == {a \in audits : a.action = "issue" /\ a.id = i}
Ends(i) == {a \in audits : a.action \in {"revoke", "rotate"} /\ a.id = i}

Explained(i) ==
    /\ Present(i) => \E a \in Issues(i) : Issues(i) = {a}
    /\ ~Present(i) => Issues(i) = {} /\ Ends(i) = {}
    /\ Revoked(i) => \E a \in Ends(i) : Ends(i) = {a}
    /\ Present(i) /\ ~Revoked(i) => Ends(i) = {}

\* AuditExplainsRows, capability by capability.
LEMMA ExplainedRows == AuditExplainsRows <=> \A i \in Ids : Explained(i)
BY DEF AuditExplainsRows, Explained, Issues, Ends

\* Rows and the records about them are written in one transaction.
LEMMA StepAudits ==
    ASSUME Inv, CallInv, AuditExplainsRows, [Next]_vars
    PROVE  AuditExplainsRows'
<1> SUFFICES ASSUME NEW j \in Ids PROVE Explained(j)'
    BY DEF AuditExplainsRows, Explained, Issues, Ends
<1> USE DEF Inv, TypeOK, Present, Revoked
<1>0. Explained(j)
    BY ExplainedRows
<1>1. CASE NoEffect
    <2>1. Issues(j)' = Issues(j) /\ Ends(j)' = Ends(j)
        BY <1>1 DEF NoEffect, Issues, Ends
    <2> QED BY <1>0, <1>1, <2>1 DEF NoEffect, Explained
<1>2. ASSUME NEW c \in Calls, NEW i \in Ids, NEW n, IssueEffect(c, i, n)
      PROVE  Explained(j)'
    <2> DEFINE x == Audit(c, "issue", "success", i)
    <2>1. x.action = "issue" /\ x.id = i /\ audits' = audits \cup {x}
        BY <1>2 DEF IssueEffect, Audit
    <2> HIDE DEF x
    <2>2. Ends(j)' = Ends(j) /\ (j # i => Issues(j)' = Issues(j))
        BY <2>1 DEF Issues, Ends
    <2>3. CASE j = i
        <3>1. Issues(j) = {} /\ Ends(j) = {}
            BY <1>0, <1>2, <2>3 DEF Explained, IssueEffect
        <3>2. Issues(j)' = {x}
            BY <2>1, <2>3, <3>1 DEF Issues
        <3>3. Present(j)' /\ ~Revoked(j)'
            BY <1>2, <2>3 DEF IssueEffect
        <3> QED BY <2>2, <3>1, <3>2, <3>3 DEF Explained
    <2>4. CASE j # i
        <3>1. rows'[j] = rows[j]
            BY <1>2, <2>4 DEF IssueEffect
        <3> QED BY <1>0, <2>2, <2>4, <3>1 DEF Explained
    <2> QED BY <2>3, <2>4
<1>3. ASSUME NEW c \in Calls, NEW p \in Ids, NEW n, RevokeEffect(c, p, n)
      PROVE  Explained(j)'
    <2> DEFINE x == Audit(c, "revoke", "success", p)
    <2>1. x.action = "revoke" /\ x.id = p /\ audits' = audits \cup {x}
        BY <1>3 DEF RevokeEffect, Audit
    <2> HIDE DEF x
    <2>2. Issues(j)' = Issues(j) /\ (j # p => Ends(j)' = Ends(j))
        BY <2>1 DEF Issues, Ends
    <2>3. CASE j = p
        <3>1. Ends(j) = {} /\ Present(j)
            BY <1>0, <1>3, <2>3 DEF Explained, RevokeEffect
        <3>2. Ends(j)' = {x}
            BY <2>1, <2>3, <3>1 DEF Ends
        <3>3. Present(j)' /\ Revoked(j)'
            BY <1>3, <2>3 DEF RevokeEffect
        <3> QED BY <1>0, <2>2, <3>1, <3>2, <3>3 DEF Explained
    <2>4. CASE j # p
        <3>1. rows'[j] = rows[j]
            BY <1>3, <2>4 DEF RevokeEffect
        <3> QED BY <1>0, <2>2, <2>4, <3>1 DEF Explained
    <2> QED BY <2>3, <2>4
<1>4. ASSUME NEW c \in Calls, NEW p \in Ids, NEW i \in Ids, NEW n, NEW m,
             RotateEffect(c, p, i, n, m)
      PROVE  Explained(j)'
    <2> DEFINE x == Audit(c, "rotate", "success", p)
               y == Audit(c, "issue", "success", i)
    <2>1. /\ x.action = "rotate" /\ x.id = p /\ y.action = "issue" /\ y.id = i
          /\ audits' = audits \cup {x, y} /\ i # p
        BY <1>4 DEF RotateEffect, Audit
    <2> HIDE DEF x, y
    <2>2. (j # i => Issues(j)' = Issues(j)) /\ (j # p => Ends(j)' = Ends(j))
        BY <2>1 DEF Issues, Ends
    <2>3. CASE j = p
        <3>1. Ends(j) = {} /\ Present(j)
            BY <1>0, <1>4, <2>3 DEF Explained, RotateEffect
        <3>2. Ends(j)' = {x}
            BY <2>1, <2>3, <3>1 DEF Ends
        <3>3. Present(j)' /\ Revoked(j)'
            BY <1>4, <2>1, <2>3 DEF RotateEffect
        <3> QED BY <1>0, <2>1, <2>2, <2>3, <3>1, <3>2, <3>3 DEF Explained
    <2>4. CASE j = i
        <3>1. Issues(j) = {} /\ Ends(j) = {}
            BY <1>0, <1>4, <2>4 DEF Explained, RotateEffect
        <3>2. Issues(j)' = {y}
            BY <2>1, <2>4, <3>1 DEF Issues
        <3>3. Present(j)' /\ ~Revoked(j)'
            BY <1>4, <2>4 DEF RotateEffect
        <3> QED BY <2>1, <2>2, <2>4, <3>1, <3>2, <3>3 DEF Explained
    <2>5. CASE j # p /\ j # i
        <3>1. rows'[j] = rows[j]
            BY <1>4, <2>5 DEF RotateEffect
        <3> QED BY <1>0, <2>2, <2>5, <3>1 DEF Explained
    <2> QED BY <2>3, <2>4, <2>5
<1> QED BY <1>1, <1>2, <1>3, <1>4, StepHasEffect

-----------------------------------------------------------------------------
(* Capabilities: theorems *)

FullInv == Inv /\ CallInv /\ LineageInv /\ OneValidPerLineage /\ AuditExplainsRows

\* The empty tables satisfy the whole invariant.
LEMMA InitFull == Init => FullInv
<1> SUFFICES ASSUME Init PROVE FullInv OBVIOUS
<1>1. CallInv
    BY DEF Init, CallInv, CallOK, NoCall
<1>2. LineageInv /\ OneValidPerLineage
    BY DEF Init, LineageInv, OneValidPerLineage, Valid, Members, Present
<1>3. AuditExplainsRows
    BY DEF Init, AuditExplainsRows, Present, Revoked
<1> QED BY <1>1, <1>2, <1>3, InitInv DEF FullInv

\* Every step keeps the whole invariant.
LEMMA StepFull == FullInv /\ [Next]_vars => FullInv'
BY StepInv, StepCallInv, StepLineageInv, StepOneValid, StepAudits DEF FullInv

\* In every behaviour of Spec the invariant holds.
LEMMA Invariance == Spec => []FullInv
<1> QED BY InitFull, StepFull, PTL DEF Spec

\* Every row that issue_capability and rotate_capability store satisfies the
\* constraints of the table and decode_capability, however the calls race.
THEOREM TypeCorrect == Spec => []TypeOK
<1>1. FullInv => TypeOK
    BY DEF FullInv, Inv
<1> QED BY <1>1, Invariance, PTL

\* At most one capability of a lineage is unrevoked, for any number of racing
\* rotations and revocations.
THEOREM OneValid == Spec => []OneValidPerLineage
<1>1. FullInv => OneValidPerLineage
    BY DEF FullInv
<1> QED BY <1>1, Invariance, PTL

\* The audit log has one issue record per stored row, and one revoke or rotate
\* record per revoked row, and no other such record.
THEOREM AuditsExplain == Spec => []AuditExplainsRows
<1>1. FullInv => AuditExplainsRows
    BY DEF FullInv
<1> QED BY <1>1, Invariance, PTL

\* authenticate_capability never grants a call made after the revocation.
THEOREM RevocationImmediate == Spec => []RevocationIsImmediate
<1>1. FullInv => RevocationIsImmediate
    BY DEF FullInv, CallInv, CallOK, RevocationIsImmediate
<1> QED BY <1>1, Invariance, PTL

\* authenticate_capability answers only what is in the audit log.
THEOREM AnswersAudited == Spec => []AnswersAreAudited
<1>1. FullInv => AnswersAreAudited
    BY DEF FullInv, CallInv, CallOK, AnswersAreAudited
<1> QED BY <1>1, Invariance, PTL

\* A stored row changes only by its first revocation, and is never deleted.
THEOREM RowsAreFinal == Spec => RevokedOnce
<1>1. FullInv /\ [Next]_vars => [RowStep]_vars
    BY RowStepHolds DEF FullInv
<1> QED BY <1>1, Invariance, PTL DEF Spec, RevokedOnce, RowStep

-----------------------------------------------------------------------------
(* Capabilities: refinement of CapabilityLineage *)

\* The refinement mapping, by name.
Used == {i \in Ids : Present(i)}
HolderIn(S, V) == IF S = {} THEN None
                  ELSE IF V = {} THEN "dead" ELSE CHOOSE i \in V : TRUE
Holder == [r \in Ids |-> HolderIn(Members(r), Valid(r))]
Authorities(r) == {Authority(rows[i]) : i \in Members(r)}
AuthorityOf == [r \in Ids |-> Authorities(r)]

\* The holder of a lineage with one valid member is that member.
LEMMA HolderOfOne == ASSUME NEW S, NEW i, i \in S PROVE HolderIn(S, {i}) = i
BY DEF HolderIn

\* The holder of a lineage with a valid member is an identifier.
LEMMA HolderIsValid ==
    ASSUME NEW r \in Ids, NEW i \in Valid(r) PROVE Holder[r] \in Ids
<1>1. Members(r) # {} /\ Valid(r) # {} /\ Valid(r) \subseteq Ids
    BY DEF Valid, Members
<1>2. (CHOOSE x \in Valid(r) : TRUE) \in Valid(r)
    BY <1>1
<1> QED BY <1>1, <1>2 DEF Holder, HolderIn

\* An issuance starts a lineage of one member.
LEMMA IssueRefines ==
    ASSUME FullInv, NEW c \in Calls, NEW i \in Ids, NEW n \in CapabilityRecord,
           IssueEffect(c, i, n)
    PROVE  /\ i \notin Used
           /\ Used' = Used \cup {i}
           /\ Holder' = [Holder EXCEPT ![i] = i]
           /\ AuthorityOf' = [AuthorityOf EXCEPT ![i] = {Authority(n)}]
<1> USE DEF FullInv, Inv, TypeOK, IssueEffect, Present
<1>1. Members(i)' = {i} /\ Valid(i)' = {i}
    BY DEF Members, Valid, LineageInv
<1>2. ASSUME NEW r \in Ids, r # i
      PROVE  Members(r)' = Members(r) /\ Valid(r)' = Valid(r)
    BY <1>2 DEF Members, Valid
<1>3. ASSUME NEW r \in Ids, r # i PROVE Authorities(r)' = Authorities(r)
    BY <1>2, <1>3 DEF Authorities, Members
<1>4. Authorities(i)' = {Authority(n)}
    BY <1>1 DEF Authorities
<1>5. Holder' = [Holder EXCEPT ![i] = i]
    <2>1. ASSUME NEW r \in Ids PROVE Holder'[r] = [Holder EXCEPT ![i] = i][r]
        BY <1>1, <1>2, <2>1, HolderOfOne DEF Holder
    <2> QED BY <2>1 DEF Holder
<1>6. AuthorityOf' = [AuthorityOf EXCEPT ![i] = {Authority(n)}]
    BY <1>3, <1>4 DEF AuthorityOf
<1> QED BY <1>5, <1>6 DEF Used

\* A revocation kills the lineage: its only valid member was the one revoked.
LEMMA RevokeRefines ==
    ASSUME FullInv, NEW c \in Calls, NEW p \in Ids, NEW n, RevokeEffect(c, p, n)
    PROVE  /\ lineage[p] \in Ids
           /\ Holder[lineage[p]] \in Ids
           /\ Used' = Used
           /\ Holder' = [Holder EXCEPT ![lineage[p]] = "dead"]
           /\ AuthorityOf' = AuthorityOf
<1> USE DEF FullInv, Inv, TypeOK, RevokeEffect, Present
<1> DEFINE l == lineage[p]
<1>1. l \in Ids /\ p \in Members(l) /\ p \in Valid(l)
    BY DEF LineageInv, Members, Valid
<1>2. \A r \in Ids : Members(r)' = Members(r)
    BY DEF Members
<1>3. Valid(l)' = {}
    BY <1>1 DEF OneValidPerLineage, Members, Valid
<1>4. ASSUME NEW r \in Ids, r # l PROVE Valid(r)' = Valid(r)
    BY <1>4 DEF Members, Valid
<1>5. ASSUME NEW r \in Ids PROVE Authorities(r)' = Authorities(r)
    BY <1>2, <1>5 DEF Authorities, Members
<1>6. Holder' = [Holder EXCEPT ![l] = "dead"]
    <2>1. HolderIn(Members(l), {}) = "dead"
        BY <1>1 DEF HolderIn
    <2>2. ASSUME NEW r \in Ids PROVE Holder'[r] = [Holder EXCEPT ![l] = "dead"][r]
        BY <1>1, <1>2, <1>3, <1>4, <2>1, <2>2 DEF Holder
    <2> QED BY <2>2 DEF Holder
<1>7. AuthorityOf' = AuthorityOf
    BY <1>5 DEF AuthorityOf
<1> QED BY <1>1, <1>6, <1>7, HolderIsValid DEF Used

\* A rotation passes the lineage on, with its authority.
LEMMA RotateRefines ==
    ASSUME FullInv, NEW c \in Calls, NEW p \in Ids, NEW i \in Ids, NEW n, NEW m,
           RotateEffect(c, p, i, n, m)
    PROVE  /\ lineage[p] \in Ids
           /\ Holder[lineage[p]] \in Ids
           /\ i \notin Used
           /\ Used' = Used \cup {i}
           /\ Holder' = [Holder EXCEPT ![lineage[p]] = i]
           /\ AuthorityOf' = AuthorityOf
<1> USE DEF FullInv, Inv, TypeOK, RotateEffect, Present
<1> DEFINE l == lineage[p]
<1>1. l \in Ids /\ p \in Members(l) /\ p \in Valid(l)
    BY DEF LineageInv, Members, Valid
<1>2. Members(l)' = Members(l) \cup {i}
    BY <1>1 DEF Members
<1>3. ASSUME NEW r \in Ids, r # l
      PROVE  Members(r)' = Members(r) /\ Valid(r)' = Valid(r)
    BY <1>3 DEF Members, Valid
<1>4. Valid(l)' = {i}
    BY <1>1 DEF OneValidPerLineage, Members, Valid
<1>5. ASSUME NEW r \in Ids PROVE Authorities(r)' = Authorities(r)
    BY <1>1, <1>2, <1>3, <1>5 DEF Authorities, Members
<1>6. Holder' = [Holder EXCEPT ![l] = i]
    <2>1. HolderIn(Members(l)', {i}) = i
        BY <1>2, HolderOfOne
    <2>2. ASSUME NEW r \in Ids PROVE Holder'[r] = [Holder EXCEPT ![l] = i][r]
        BY <1>1, <1>3, <1>4, <2>1, <2>2 DEF Holder
    <2> QED BY <2>2 DEF Holder
<1>7. AuthorityOf' = AuthorityOf
    BY <1>5 DEF AuthorityOf
<1> QED BY <1>1, <1>6, <1>7, HolderIsValid DEF Used

\* The mapped variables of CapabilityLineage are the ones above.
LEMMA MappedNext ==
    ASSUME \/ UNCHANGED <<Used, Holder, AuthorityOf>>
           \/ \E r \in Ids :
                 \/ /\ r \notin Used
                    /\ Used' = Used \cup {r}
                    /\ Holder' = [Holder EXCEPT ![r] = r]
                    /\ \E a \in [game: Games, role: Roles, scopes: SUBSET Scopes, run: Runs] :
                          AuthorityOf' = [AuthorityOf EXCEPT ![r] = {a}]
                 \/ /\ Holder[r] \in Ids
                    /\ Holder' = [Holder EXCEPT ![r] = "dead"]
                    /\ UNCHANGED <<Used, AuthorityOf>>
                 \/ \E i \in Ids :
                       /\ Holder[r] \in Ids
                       /\ i \notin Used
                       /\ Used' = Used \cup {i}
                       /\ Holder' = [Holder EXCEPT ![r] = i]
                       /\ UNCHANGED AuthorityOf
    PROVE  [Lineage!Next]_(Lineage!vars)
BY Zenon DEF Used, Holder, HolderIn, AuthorityOf, Authorities, Lineage!Next,
             Lineage!Issue, Lineage!Rotate, Lineage!Revoke, Lineage!vars

\* Every step is a step of CapabilityLineage or changes none of its variables.
LEMMA StepRefines == FullInv /\ [Next]_vars => [Lineage!Next]_(Lineage!vars)
<1> SUFFICES ASSUME FullInv, [Next]_vars PROVE [Lineage!Next]_(Lineage!vars)
    OBVIOUS
<1>1. CASE NoEffect
    <2>1. UNCHANGED <<Used, Holder, AuthorityOf>>
        BY <1>1 DEF NoEffect, Used, Holder, AuthorityOf, Authorities, Members, Valid, Present
    <2> QED BY <2>1, MappedNext
<1>2. ASSUME NEW c \in Calls, NEW i \in Ids, NEW n \in CapabilityRecord,
             IssueEffect(c, i, n)
      PROVE  [Lineage!Next]_(Lineage!vars)
    <2>1. Authority(n) \in [game: Games, role: Roles, scopes: SUBSET Scopes, run: Runs]
        BY DEF Authority, CapabilityRecord
    <2> QED BY <1>2, <2>1, IssueRefines, MappedNext
<1>3. ASSUME NEW c \in Calls, NEW p \in Ids, NEW n, RevokeEffect(c, p, n)
      PROVE  [Lineage!Next]_(Lineage!vars)
    BY <1>3, RevokeRefines, MappedNext
<1>4. ASSUME NEW c \in Calls, NEW p \in Ids, NEW i \in Ids, NEW n, NEW m,
             RotateEffect(c, p, i, n, m)
      PROVE  [Lineage!Next]_(Lineage!vars)
    BY <1>4, RotateRefines, MappedNext
<1> QED BY <1>1, <1>2, <1>3, <1>4, StepHasEffect DEF FullInv

\* Issuance, rotation and revocation, as racing calls that may be dropped,
\* implement the lineage: one holder, one authority, death is final.
THEOREM LineageRefined == Spec => ImplementsLineage
<1>1. Init => Lineage!Init
    BY DEF Init, Lineage!Init, Members, Present
<1> QED BY <1>1, StepRefines, Invariance, PTL DEF Spec, ImplementsLineage, Lineage!Spec

\* One valid capability per lineage, immediate revocation and rows revoked
\* once, for every number of calls that race, are dropped or bring old times.
THEOREM CapabilitiesSound == Spec => CapabilitiesAreSound
<1> QED BY TypeCorrect, OneValid, RevocationImmediate, RowsAreFinal, PTL DEF CapabilitiesAreSound

\* The audit log explains every row and was written before every answer.
THEOREM AuditComplete == Spec => []AuditIsComplete
<1>1. AuditExplainsRows /\ AnswersAreAudited => AuditIsComplete
    BY DEF AuditIsComplete
<1> QED BY <1>1, AuditsExplain, AnswersAudited, PTL

-----------------------------------------------------------------------------
(* Lexicon packs *)

\* Packs seen whole, verified or about to be published.
StagedEntry(seen, misbuilt) ==
    [pack: seen, status: {"already"}, files: {{}}]
        \cup [pack: Packs \ misbuilt, status: {"ready"}, files: {PackFiles}]
PackAnswer(seen) == [pack: seen, status: {"already", "installed"}]

\* A call of install_many has published nothing before its last check.
PreparingCall(seen, misbuilt) ==
    [kind: {"prepare", "obtain", "download"}, left: Seq(Packs) \ {<<>>}, offline: BOOLEAN,
     staged: Seq(StagedEntry(seen, misbuilt)), own: {{}}]
ExtractingCall(seen, misbuilt) ==
    [kind: {"extract"}, left: Seq(Packs) \ {<<>>}, offline: BOOLEAN,
     staged: Seq(StagedEntry(seen, misbuilt)), own: {{}}, files: SUBSET PackFiles]
CommittingCall(seen, misbuilt) ==
    [kind: {"commit", "collision"}, left: Seq(StagedEntry(seen, misbuilt)) \ {<<>>},
     own: SUBSET Packs, answers: Seq(PackAnswer(seen))]
InstallAnswer(seen) ==
    [kind: {"done"}, result: {"ok"}, answers: Seq(PackAnswer(seen)), own: SUBSET Packs]
InstallError ==
    [kind: {"done"}, result: {"prepare_error"}, own: {{}}, answers: {<<>>}]
        \cup [kind: {"done"}, result: {"commit_error"}, own: SUBSET Packs, answers: {<<>>}]
RemovingCall == [kind: {"remove"}, pack: Packs, suffix: Nat]
LoadingCall == { [kind |-> "load", pack |-> p, listed |-> {p}] : p \in Packs }
LoadedAnswer(seen) == { [kind |-> "done", result |-> "loaded", pack |-> p, listed |-> {p}] : p \in seen }
PlainAnswer ==
    [kind: {"done"}, result: {"not_installed", "invalid", "removed", "io_error", "ambiguous"}]

PackCalls(seen, misbuilt) ==
    {PackIdle} \cup PreparingCall(seen, misbuilt) \cup ExtractingCall(seen, misbuilt)
        \cup CommittingCall(seen, misbuilt) \cup InstallAnswer(seen) \cup InstallError
        \cup RemovingCall \cup LoadingCall \cup LoadedAnswer(seen) \cup PlainAnswer

WholePacks == { p \in Packs : pkFinal[p] = PackFiles }

\* The disk has damaged one thing at most.
Torn(p) == pkFinal[p] \notin {{}, PackFiles}
OneFault ==
    \A p, q \in Packs : /\ pkCache[p] = "wrong" /\ pkCache[q] = "wrong" => p = q
                        /\ Torn(p) /\ Torn(q) => p = q
                        /\ ~(pkCache[p] = "wrong" /\ Torn(q))

PackShared ==
    /\ pkMisbuilt \subseteq Packs
    /\ pkCache \in [Packs -> {"absent", "right", "wrong"}]
    /\ pkFinal \in [Packs -> SUBSET PackFiles]
    /\ pkTrash \in [Packs -> Seq(SUBSET PackFiles)]
    /\ pkPublished \in [Packs -> Nat]
    /\ OneFault /\ NothingIsLost

PackCallsAreSound ==
    /\ pkSeen \in [Installers -> SUBSET Packs]
    /\ DOMAIN pkOps = Installers
    /\ \A c \in Installers : pkOps[c] \in PackCalls(pkSeen[c], pkMisbuilt)

PackInv == PackShared /\ PackCallsAreSound

\* What a step adds to the packs seen whole.
SeenStep ==
    pkSeen' = [c \in Installers |->
        IF pkOps'[c].kind = "idle" THEN {}
        ELSE pkSeen[c] \cup { p \in Packs : pkFinal'[p] = PackFiles }]

\* What a step may do to an installed pack.
FinalStep ==
    \A p \in Packs : pkFinal'[p] /= pkFinal[p] =>
        \/ pkFinal[p] = {} /\ pkFinal'[p] = PackFiles /\ p \notin pkMisbuilt
        \/ pkFinal'[p] = {} /\ pkTrash'[p] = Append(pkTrash[p], pkFinal[p])
        \/ pkFinal'[p] /= {} /\ pkFinal'[p] \subseteq pkFinal[p] /\ pkOps' = pkOps

\* Sequences over a larger set.
LEMMA SeqMonotone ==
    ASSUME NEW S, NEW T, S \subseteq T, NEW s \in Seq(S)
    PROVE  s \in Seq(T)
OBVIOUS

\* The head and the rest of a sequence.
LEMMA HeadTail ==
    ASSUME NEW S, NEW s \in Seq(S) \ {<<>>}
    PROVE  /\ Head(s) \in S /\ Tail(s) \in Seq(S) /\ Len(s) \in Nat
           /\ Len(s) > 1 => Tail(s) \in Seq(S) \ {<<>>}
<1>1. s \in Seq(S) /\ Len(s) \in Nat /\ Len(s) /= 0
    OBVIOUS
<1>2. Head(s) \in S /\ Tail(s) \in Seq(S) /\ Len(Tail(s)) = Len(s) - 1
    BY <1>1
<1>3. Len(<<>>) = 0
    OBVIOUS
<1>4. Len(s) > 1 => Tail(s) /= <<>>
    BY <1>1, <1>2, <1>3
<1> QED BY <1>1, <1>2, <1>4

\* Calls stay what they are when more has been seen.
LEMMA CallsMonotone ==
    ASSUME NEW seen, NEW more, seen \subseteq more, NEW misbuilt, NEW op \in PackCalls(seen, misbuilt)
    PROVE  op \in PackCalls(more, misbuilt)
<1>1. StagedEntry(seen, misbuilt) \subseteq StagedEntry(more, misbuilt)
    BY DEF StagedEntry
<1>2. PackAnswer(seen) \subseteq PackAnswer(more)
    BY DEF PackAnswer
<1>3. \A s \in Seq(StagedEntry(seen, misbuilt)) : s \in Seq(StagedEntry(more, misbuilt))
    BY <1>1, SeqMonotone
<1>4. \A s \in Seq(PackAnswer(seen)) : s \in Seq(PackAnswer(more))
    BY <1>2, SeqMonotone
<1>5. PreparingCall(seen, misbuilt) \subseteq PreparingCall(more, misbuilt)
    BY <1>3 DEF PreparingCall
<1>6. ExtractingCall(seen, misbuilt) \subseteq ExtractingCall(more, misbuilt)
    BY <1>3 DEF ExtractingCall
<1>7. CommittingCall(seen, misbuilt) \subseteq CommittingCall(more, misbuilt)
    BY <1>3, <1>4 DEF CommittingCall
<1>8. InstallAnswer(seen) \subseteq InstallAnswer(more)
    BY <1>4 DEF InstallAnswer
<1>9. LoadedAnswer(seen) \subseteq LoadedAnswer(more)
    BY DEF LoadedAnswer
<1> QED BY <1>5, <1>6, <1>7, <1>8, <1>9, Zenon DEF PackCalls

\* A step of one call that fits what has been seen after it.
LEMMA PackCallStep ==
    ASSUME PackInv, SeenStep, UNCHANGED pkMisbuilt, NEW c \in Installers, NEW op,
           pkOps' = [pkOps EXCEPT ![c] = op],
           op \in PackCalls(pkSeen[c] \cup WholePacks', pkMisbuilt)
    PROVE  PackCallsAreSound'
<1>1. WholePacks' = { p \in Packs : pkFinal'[p] = PackFiles } /\ WholePacks' \subseteq Packs
    BY DEF WholePacks
<1>2. /\ pkSeen \in [Installers -> SUBSET Packs] /\ DOMAIN pkOps = Installers
      /\ \A d \in Installers : pkOps[d] \in PackCalls(pkSeen[d], pkMisbuilt)
    BY DEF PackInv, PackCallsAreSound
<1>3. /\ DOMAIN pkOps' = Installers
      /\ \A d \in Installers : pkOps'[d] = IF d = c THEN op ELSE pkOps[d]
    BY <1>2
<1>4. /\ pkSeen' \in [Installers -> SUBSET Packs]
      /\ \A d \in Installers :
            pkSeen'[d] = IF pkOps'[d].kind = "idle" THEN {} ELSE pkSeen[d] \cup WholePacks'
    BY <1>1, <1>2 DEF SeenStep
<1>5. ASSUME NEW d \in Installers
      PROVE  pkOps'[d] \in PackCalls(pkSeen'[d], pkMisbuilt)
    <2>1. pkOps'[d] \in PackCalls(pkSeen[d] \cup WholePacks', pkMisbuilt)
        <3>1. CASE d = c
            BY <3>1, <1>3
        <3>2. CASE d /= c
            BY <3>2, <1>2, <1>3, CallsMonotone
        <3> QED BY <3>1, <3>2
    <2>2. CASE pkOps'[d].kind = "idle"
        <3>1. pkOps'[d] = PackIdle
            BY <2>1, <2>2 DEF PackCalls, PreparingCall, ExtractingCall, CommittingCall, InstallAnswer,
                              InstallError, RemovingCall, LoadingCall, LoadedAnswer, PlainAnswer
        <3> QED BY <3>1 DEF PackCalls
    <2>3. CASE pkOps'[d].kind /= "idle"
        BY <2>1, <2>3, <1>4
    <2> QED BY <2>2, <2>3
<1> QED BY <1>3, <1>4, <1>5 DEF PackCallsAreSound

\* A step that leaves the directories, the cache and the trash alone.
LEMMA QuietPackStep ==
    ASSUME PackInv, UNCHANGED <<pkMisbuilt, pkCache, pkFinal, pkTrash, pkPublished>>
    PROVE  PackShared' /\ FinalStep /\ WholePacks' = WholePacks
BY DEF PackInv, PackShared, OneFault, Torn, NothingIsLost, FinalStep, WholePacks

\* A prepared entry leads to the next pack, or to the commits.
LEMMA PreparedCall ==
    ASSUME NEW seen, NEW misbuilt, NEW op, NEW entry \in StagedEntry(seen, misbuilt),
           op.left \in Seq(Packs) \ {<<>>}, op.offline \in BOOLEAN,
           op.staged \in Seq(StagedEntry(seen, misbuilt)), op.own = {}
    PROVE  Prepared(op, entry) \in PackCalls(seen, misbuilt)
<1>1. PICK staged : staged = Append(op.staged, entry)
    OBVIOUS
<1>2. staged \in Seq(StagedEntry(seen, misbuilt)) \ {<<>>}
    BY <1>1
<1>3. CASE Len(op.left) > 1
    <2>1. PICK rest : rest = Tail(op.left)
        OBVIOUS
    <2>2. rest \in Seq(Packs) \ {<<>>}
        BY <2>1, <1>3, HeadTail
    <2>3. Prepared(op, entry) = [kind |-> "prepare", left |-> rest, offline |-> op.offline,
                                 staged |-> staged, own |-> op.own]
        BY <1>1, <1>3, <2>1 DEF Prepared
    <2>4. Prepared(op, entry) \in PreparingCall(seen, misbuilt)
        BY <1>2, <2>2, <2>3 DEF PreparingCall
    <2> QED BY <2>4 DEF PackCalls
<1>4. CASE ~(Len(op.left) > 1)
    <2>1. Prepared(op, entry) = [kind |-> "commit", left |-> staged, own |-> op.own, answers |-> <<>>]
        BY <1>1, <1>4 DEF Prepared
    <2>2. <<>> \in Seq(PackAnswer(seen))
        OBVIOUS
    <2>3. Prepared(op, entry) \in CommittingCall(seen, misbuilt)
        BY <1>2, <2>1, <2>2 DEF CommittingCall
    <2> QED BY <2>3 DEF PackCalls
<1> QED BY <1>3, <1>4

\* The answer for a pack leads to the next commit, or to the end.
LEMMA CommittedCall ==
    ASSUME NEW seen \in SUBSET Packs, NEW misbuilt, NEW op \in CommittingCall(seen, misbuilt), op.kind = "commit",
           NEW status \in {"already", "installed"}, Head(op.left).pack \in seen
    PROVE  Committed(op, status) \in PackCalls(seen, misbuilt)
<1>1. /\ op.left \in Seq(StagedEntry(seen, misbuilt)) \ {<<>>} /\ op.own \in SUBSET Packs
      /\ op.answers \in Seq(PackAnswer(seen))
    BY DEF CommittingCall
<1>2. PICK answer : answer = [pack |-> Head(op.left).pack, status |-> status]
    OBVIOUS
<1>3. answer \in PackAnswer(seen)
    BY <1>2 DEF PackAnswer
<1>4. PICK answers : answers = Append(op.answers, answer)
    OBVIOUS
<1>5. answers \in Seq(PackAnswer(seen))
    BY <1>1, <1>3, <1>4
<1>6. PICK own : own = IF status = "installed" THEN op.own \cup {Head(op.left).pack} ELSE op.own
    OBVIOUS
<1>7. own \in SUBSET Packs
    BY <1>1, <1>6
<1>8. CASE Len(op.left) > 1
    <2>1. PICK rest : rest = Tail(op.left)
        OBVIOUS
    <2>2. rest \in Seq(StagedEntry(seen, misbuilt)) \ {<<>>}
        BY <1>1, <1>8, <2>1, HeadTail
    <2>3. Committed(op, status) = [op EXCEPT !.left = rest, !.answers = answers, !.own = own]
        BY <1>2, <1>4, <1>6, <1>8, <2>1 DEF Committed
    <2>4. Committed(op, status) \in CommittingCall(seen, misbuilt)
        BY <1>5, <1>7, <2>2, <2>3 DEF CommittingCall
    <2> QED BY <2>4 DEF PackCalls
<1>9. CASE ~(Len(op.left) > 1)
    <2>1. Committed(op, status) = [kind |-> "done", result |-> "ok", answers |-> answers, own |-> own]
        BY <1>2, <1>4, <1>6, <1>9 DEF Committed
    <2>2. Committed(op, status) \in InstallAnswer(seen)
        BY <1>5, <1>7, <2>1 DEF InstallAnswer
    <2> QED BY <2>2 DEF PackCalls
<1> QED BY <1>8, <1>9

\* A pack that verifies is whole and honest.
LEMMA VerifiedIsWhole ==
    ASSUME NEW pack \in Packs, verify_at(pack, pkFinal[pack])
    PROVE  pack \in WholePacks /\ pack \notin pkMisbuilt
BY DEF verify_at, validate_pack, verify_loaded_identity, WholePacks

\* A set of one element at most that is not empty is the set of what is
\* chosen from it.
LEMMA OnlyOne ==
    ASSUME NEW S, IsFiniteSet(S), S /= {}, ~(Cardinality(S) > 1), NEW x, x = CHOOSE y \in S : TRUE
    PROVE  x \in S /\ S = {x}
<1>1. x \in S
    OBVIOUS
<1>2. ASSUME NEW y \in S, y /= x
      PROVE  FALSE
    <2>1. {x, y} \subseteq S /\ IsFiniteSet({x}) /\ Cardinality({x}) = 1
        BY <1>1, <1>2, FS_Singleton
    <2>2. IsFiniteSet({x} \cup {y}) /\ Cardinality({x} \cup {y}) = 2
        BY <2>1, <1>2, FS_AddElement
    <2>3. Cardinality({x} \cup {y}) <= Cardinality(S) /\ Cardinality(S) \in Nat
        BY <2>1, FS_Subset, FS_CardinalityType
    <2> QED BY <2>2, <2>3
<1> QED BY <1>1, <1>2

\* A call that prepares, by its kind.
LEMMA PreparingFacts ==
    ASSUME PackInv, NEW c \in Installers, pkOps[c].kind \in {"prepare", "obtain", "download"}
    PROVE  /\ pkOps[c] \in PreparingCall(pkSeen[c], pkMisbuilt)
           /\ Head(pkOps[c].left) \in Packs
<1>1. pkOps[c] \in PackCalls(pkSeen[c], pkMisbuilt)
    BY DEF PackInv, PackCallsAreSound
<1>2. pkOps[c] \in PreparingCall(pkSeen[c], pkMisbuilt)
    BY <1>1 DEF PackCalls, PackIdle, ExtractingCall, CommittingCall, InstallAnswer,
                InstallError, RemovingCall, LoadingCall, LoadedAnswer, PlainAnswer
<1>3. pkOps[c].left \in Seq(Packs) \ {<<>>}
    BY <1>2 DEF PreparingCall
<1> QED BY <1>2, <1>3, HeadTail

\* The same for a call that has a pack to extract.
LEMMA ExtractingFacts ==
    ASSUME PackInv, NEW c \in Installers, pkOps[c].kind = "extract"
    PROVE  /\ pkOps[c] \in ExtractingCall(pkSeen[c], pkMisbuilt)
           /\ Head(pkOps[c].left) \in Packs
<1>1. pkOps[c] \in PackCalls(pkSeen[c], pkMisbuilt)
    BY DEF PackInv, PackCallsAreSound
<1>2. pkOps[c] \in ExtractingCall(pkSeen[c], pkMisbuilt)
    BY <1>1 DEF PackCalls, PackIdle, PreparingCall, CommittingCall, InstallAnswer,
                InstallError, RemovingCall, LoadingCall, LoadedAnswer, PlainAnswer
<1>3. pkOps[c].left \in Seq(Packs) \ {<<>>}
    BY <1>2 DEF ExtractingCall
<1> QED BY <1>2, <1>3, HeadTail

\* The same for a call that has staged packs to rename into place.
LEMMA CommittingFacts ==
    ASSUME PackInv, NEW c \in Installers, pkOps[c].kind \in {"commit", "collision"}
    PROVE  /\ pkOps[c] \in CommittingCall(pkSeen[c], pkMisbuilt)
           /\ Head(pkOps[c].left) \in StagedEntry(pkSeen[c], pkMisbuilt)
           /\ Head(pkOps[c].left).pack \in Packs
<1>1. pkOps[c] \in PackCalls(pkSeen[c], pkMisbuilt) /\ pkSeen[c] \subseteq Packs
    BY DEF PackInv, PackCallsAreSound
<1>2. pkOps[c] \in CommittingCall(pkSeen[c], pkMisbuilt)
    BY <1>1 DEF PackCalls, PackIdle, PreparingCall, ExtractingCall, InstallAnswer,
                InstallError, RemovingCall, LoadingCall, LoadedAnswer, PlainAnswer
<1>3. pkOps[c].left \in Seq(StagedEntry(pkSeen[c], pkMisbuilt)) \ {<<>>}
    BY <1>2 DEF CommittingCall
<1>4. Head(pkOps[c].left) \in StagedEntry(pkSeen[c], pkMisbuilt)
    BY <1>3, HeadTail
<1> QED BY <1>1, <1>2, <1>4 DEF StagedEntry

\* A call becomes one that fits what is whole now, and nothing else changes.
BecomesCall(c, op) ==
    /\ op \in PackCalls(pkSeen[c] \cup WholePacks, pkMisbuilt)
    /\ pkOps' = [pkOps EXCEPT ![c] = op]
    /\ UNCHANGED <<pkCache, pkFinal, pkTrash, pkPublished>>

\* The steps up to the commits.
LEMMA PreparationStep ==
    ASSUME PackInv, NEW c \in Installers,
           \/ \E request \in PackRequests[c], offline \in BOOLEAN : Install(c, request, offline)
           \/ PrepareCheck(c) \/ ObtainArchive(c)
           \/ \E outcome \in {"failed", "wrong"} : Download(c, outcome)
           \/ \E file \in PackFiles : Extract(c, file)
           \/ VerifyStaged(c)
    PROVE  \E op : BecomesCall(c, op)
<1>1. PICK seen : seen = pkSeen[c] \cup WholePacks
    OBVIOUS
<1>2. pkSeen[c] \subseteq seen /\ WholePacks \subseteq seen
    BY <1>1
<1>3. StagedEntry(pkSeen[c], pkMisbuilt) \subseteq StagedEntry(seen, pkMisbuilt)
    BY <1>2 DEF StagedEntry
<1>4. \A s \in Seq(StagedEntry(pkSeen[c], pkMisbuilt)) : s \in Seq(StagedEntry(seen, pkMisbuilt))
    BY <1>3, SeqMonotone
<1>5. ASSUME NEW op \in PackCalls(seen, pkMisbuilt), pkOps' = [pkOps EXCEPT ![c] = op],
             UNCHANGED <<pkCache, pkFinal, pkTrash, pkPublished>>
      PROVE  \E new : BecomesCall(c, new)
    BY <1>1, <1>5 DEF BecomesCall
<1>6. ASSUME pkOps[c].own = {}, pkOps' = [pkOps EXCEPT ![c] = PackFail(c, "prepare_error")],
             UNCHANGED <<pkCache, pkFinal, pkTrash, pkPublished>>
      PROVE  \E new : BecomesCall(c, new)
    <2>1. PackFail(c, "prepare_error") \in InstallError
        BY <1>6 DEF PackFail, InstallError
    <2>2. PackFail(c, "prepare_error") \in PackCalls(seen, pkMisbuilt)
        BY <2>1 DEF PackCalls
    <2> QED BY <1>5, <1>6, <2>2
<1>7. ASSUME NEW request \in PackRequests[c], NEW offline \in BOOLEAN, Install(c, request, offline)
      PROVE  \E new : BecomesCall(c, new)
    <2>1. PICK op : op = [kind |-> "prepare", left |-> request, offline |-> offline,
                          staged |-> <<>>, own |-> {}]
        OBVIOUS
    <2>2. request \in Seq(Packs) \ {<<>>}
        BY PackAssumption
    <2>3. op \in PreparingCall(seen, pkMisbuilt)
        BY <2>1, <2>2 DEF PreparingCall
    <2>4. op \in PackCalls(seen, pkMisbuilt)
        BY <2>3 DEF PackCalls
    <2> QED BY <1>5, <1>7, <2>1, <2>4 DEF Install
<1>8. ASSUME pkOps[c].kind \in {"prepare", "obtain", "download"}
      PROVE  /\ pkOps[c].left \in Seq(Packs) \ {<<>>} /\ pkOps[c].offline \in BOOLEAN
             /\ pkOps[c].staged \in Seq(StagedEntry(seen, pkMisbuilt)) /\ pkOps[c].own = {}
             /\ Head(pkOps[c].left) \in Packs /\ pkOps[c] \in PreparingCall(seen, pkMisbuilt)
    BY <1>4, <1>8, PreparingFacts DEF PreparingCall
<1>9. ASSUME pkOps[c].kind = "extract"
      PROVE  /\ pkOps[c].left \in Seq(Packs) \ {<<>>} /\ pkOps[c].offline \in BOOLEAN
             /\ pkOps[c].staged \in Seq(StagedEntry(seen, pkMisbuilt)) /\ pkOps[c].own = {}
             /\ Head(pkOps[c].left) \in Packs /\ pkOps[c] \in ExtractingCall(seen, pkMisbuilt)
    BY <1>4, <1>9, ExtractingFacts DEF ExtractingCall
\* The extraction begins.
<1>10. ASSUME pkOps[c].kind = "obtain",
              pkOps' = [pkOps EXCEPT ![c] =
                [kind |-> "extract", left |-> pkOps[c].left, offline |-> pkOps[c].offline,
                 staged |-> pkOps[c].staged, own |-> pkOps[c].own, files |-> {}]],
              UNCHANGED <<pkCache, pkFinal, pkTrash, pkPublished>>
       PROVE  \E new : BecomesCall(c, new)
    <2>1. PICK op :
            op = [kind |-> "extract", left |-> pkOps[c].left, offline |-> pkOps[c].offline,
                  staged |-> pkOps[c].staged, own |-> pkOps[c].own, files |-> {}]
        OBVIOUS
    <2>2. op \in ExtractingCall(seen, pkMisbuilt)
        BY <1>8, <1>10, <2>1 DEF ExtractingCall
    <2>3. op \in PackCalls(seen, pkMisbuilt)
        BY <2>2 DEF PackCalls
    <2> QED BY <1>5, <1>10, <2>1, <2>3
\* Another kind of preparation.
<1>11. ASSUME NEW kind \in {"obtain", "download"}, pkOps[c].kind \in {"prepare", "obtain"},
              pkOps' = [pkOps EXCEPT ![c] = [pkOps[c] EXCEPT !.kind = kind]],
              UNCHANGED <<pkCache, pkFinal, pkTrash, pkPublished>>
       PROVE  \E new : BecomesCall(c, new)
    <2>1. PICK op : op = [pkOps[c] EXCEPT !.kind = kind]
        OBVIOUS
    <2>2. op \in PreparingCall(seen, pkMisbuilt)
        BY <1>8, <1>11, <2>1 DEF PreparingCall
    <2>3. op \in PackCalls(seen, pkMisbuilt)
        BY <2>2 DEF PackCalls
    <2> QED BY <1>5, <1>11, <2>1, <2>3
<1>12. CASE PrepareCheck(c)
    <2>0. pkOps[c].kind = "prepare" /\ UNCHANGED <<pkCache, pkFinal, pkTrash, pkPublished>>
        BY <1>12 DEF PrepareCheck
    <2>1. PICK pack \in Packs : pack = Head(pkOps[c].left)
        BY <2>0, <1>8
    <2>2. CASE pkFinal[pack] = {}
        <3>1. pkOps' = [pkOps EXCEPT ![c] = [pkOps[c] EXCEPT !.kind = "obtain"]]
            BY <1>12, <2>1, <2>2 DEF PrepareCheck
        <3> QED BY <2>0, <3>1, <1>11
    <2>3. CASE pkFinal[pack] /= {} /\ verify_at(pack, pkFinal[pack])
        <3>1. PICK entry : entry = [pack |-> pack, status |-> "already", files |-> {}]
            OBVIOUS
        <3>2. pack \in seen
            BY <2>3, <1>2, VerifiedIsWhole
        <3>3. entry \in StagedEntry(seen, pkMisbuilt)
            BY <3>1, <3>2 DEF StagedEntry
        <3>4. Prepared(pkOps[c], entry) \in PackCalls(seen, pkMisbuilt)
            BY <3>3, <2>0, <1>8, PreparedCall
        <3>5. pkOps' = [pkOps EXCEPT ![c] = Prepared(pkOps[c], entry)]
            BY <1>12, <2>1, <2>3, <3>1 DEF PrepareCheck
        <3> QED BY <2>0, <3>4, <3>5, <1>5
    <2>4. CASE pkFinal[pack] /= {} /\ ~verify_at(pack, pkFinal[pack])
        <3>1. pkOps' = [pkOps EXCEPT ![c] = PackFail(c, "prepare_error")]
            BY <1>12, <2>1, <2>4 DEF PrepareCheck
        <3> QED BY <2>0, <3>1, <1>6, <1>8
    <2> QED BY <2>2, <2>3, <2>4
<1>13. CASE ObtainArchive(c)
    <2>0. pkOps[c].kind = "obtain" /\ UNCHANGED <<pkCache, pkFinal, pkTrash, pkPublished>>
        BY <1>13 DEF ObtainArchive
    <2>1. CASE pkCache[Head(pkOps[c].left)] = "right"
        <3>1. pkOps' = [pkOps EXCEPT ![c] =
                [kind |-> "extract", left |-> pkOps[c].left, offline |-> pkOps[c].offline,
                 staged |-> pkOps[c].staged, own |-> pkOps[c].own, files |-> {}]]
            BY <1>13, <2>1 DEF ObtainArchive
        <3> QED BY <2>0, <3>1, <1>10
    <2>2. CASE pkCache[Head(pkOps[c].left)] /= "right" /\ pkOps[c].offline
        <3>1. pkOps' = [pkOps EXCEPT ![c] = PackFail(c, "prepare_error")]
            BY <1>13, <2>2 DEF ObtainArchive
        <3> QED BY <2>0, <3>1, <1>6, <1>8
    <2>3. CASE pkCache[Head(pkOps[c].left)] /= "right" /\ ~pkOps[c].offline
        <3>1. pkOps' = [pkOps EXCEPT ![c] = [pkOps[c] EXCEPT !.kind = "download"]]
            BY <1>13, <2>3 DEF ObtainArchive
        <3> QED BY <2>0, <3>1, <1>11
    <2> QED BY <2>1, <2>2, <2>3
<1>14. ASSUME NEW outcome \in {"failed", "wrong"}, Download(c, outcome)
       PROVE  \E new : BecomesCall(c, new)
    <2>0. pkOps[c].kind = "download" /\ UNCHANGED <<pkCache, pkFinal, pkTrash, pkPublished>>
          /\ pkOps' = [pkOps EXCEPT ![c] = PackFail(c, "prepare_error")]
        BY <1>14 DEF Download
    <2> QED BY <2>0, <1>6, <1>8
<1>15. ASSUME NEW file \in PackFiles, Extract(c, file)
       PROVE  \E new : BecomesCall(c, new)
    <2>0. pkOps[c].kind = "extract" /\ UNCHANGED <<pkCache, pkFinal, pkTrash, pkPublished>>
        BY <1>15 DEF Extract
    <2>1. CASE pkCache[Head(pkOps[c].left)] = "right"
        <3>1. PICK op : op = [pkOps[c] EXCEPT !.files = pkOps[c].files \cup {file}]
            OBVIOUS
        <3>2. op \in ExtractingCall(seen, pkMisbuilt)
            BY <2>0, <3>1, <1>9 DEF ExtractingCall
        <3>3. op \in PackCalls(seen, pkMisbuilt)
            BY <3>2 DEF PackCalls
        <3>4. pkOps' = [pkOps EXCEPT ![c] = op]
            BY <1>15, <2>1, <3>1 DEF Extract
        <3> QED BY <2>0, <3>3, <3>4, <1>5
    <2>2. CASE pkCache[Head(pkOps[c].left)] /= "right"
        <3>1. pkOps' = [pkOps EXCEPT ![c] = PackFail(c, "prepare_error")]
            BY <1>15, <2>2 DEF Extract
        <3> QED BY <2>0, <3>1, <1>6, <1>9
    <2> QED BY <2>1, <2>2
<1>16. CASE VerifyStaged(c)
    <2>0. /\ pkOps[c].kind = "extract" /\ pkOps[c].files = PackFiles
          /\ UNCHANGED <<pkCache, pkFinal, pkTrash, pkPublished>>
        BY <1>16 DEF VerifyStaged
    <2>1. PICK pack \in Packs : pack = Head(pkOps[c].left)
        BY <2>0, <1>9
    <2>2. CASE verify_at(pack, pkOps[c].files)
        <3>1. PICK entry : entry = [pack |-> pack, status |-> "ready", files |-> pkOps[c].files]
            OBVIOUS
        <3>2. pack \notin pkMisbuilt
            BY <2>2 DEF verify_at, verify_loaded_identity
        <3>3. entry \in StagedEntry(seen, pkMisbuilt)
            BY <2>0, <3>1, <3>2 DEF StagedEntry
        <3>4. Prepared(pkOps[c], entry) \in PackCalls(seen, pkMisbuilt)
            BY <3>3, <2>0, <1>9, PreparedCall
        <3>5. pkOps' = [pkOps EXCEPT ![c] = Prepared(pkOps[c], entry)]
            BY <1>16, <2>1, <2>2, <3>1 DEF VerifyStaged
        <3> QED BY <2>0, <3>4, <3>5, <1>5
    <2>3. CASE ~verify_at(pack, pkOps[c].files)
        <3>1. pkOps' = [pkOps EXCEPT ![c] = PackFail(c, "prepare_error")]
            BY <1>16, <2>1, <2>3 DEF VerifyStaged
        <3> QED BY <2>0, <3>1, <1>6, <1>9
    <2> QED BY <2>2, <2>3
<1> QED BY <1>7, <1>12, <1>13, <1>14, <1>15, <1>16, Zenon

\* The later steps of a call, where they leave the directories alone.
LEMMA AnsweringStep ==
    ASSUME PackInv, NEW c \in Installers,
           UNCHANGED <<pkCache, pkFinal, pkTrash, pkPublished>>,
           \/ \E fails \in BOOLEAN : CommitStaged(c, fails)
           \/ CommitCollision(c) \/ \E pack \in Packs : RemoveVerify(c, pack)
           \/ RemoveRename(c) \/ LoadDiscover(c) \/ LoadPack(c) \/ PackReturn(c) \/ PackCrash(c)
    PROVE  \E op : BecomesCall(c, op)
<1>1. PICK seen : seen = pkSeen[c] \cup WholePacks
    OBVIOUS
<1>2. pkSeen[c] \subseteq seen /\ WholePacks \subseteq seen /\ seen \in SUBSET Packs
    BY <1>1 DEF PackInv, PackCallsAreSound, WholePacks
<1>3. ASSUME NEW op \in PackCalls(seen, pkMisbuilt), pkOps' = [pkOps EXCEPT ![c] = op]
      PROVE  \E new : BecomesCall(c, new)
    BY <1>1, <1>3 DEF BecomesCall
<1>4. ASSUME NEW result \in {"not_installed", "invalid", "removed", "io_error", "ambiguous"},
             pkOps' = [pkOps EXCEPT ![c] = PackDone(result)]
      PROVE  \E new : BecomesCall(c, new)
    <2>1. PackDone(result) \in PlainAnswer
        BY DEF PackDone, PlainAnswer
    <2>2. PackDone(result) \in PackCalls(seen, pkMisbuilt)
        BY <2>1 DEF PackCalls
    <2> QED BY <1>3, <1>4, <2>2
<1>5. ASSUME pkOps[c].kind \in {"commit", "collision"}
      PROVE  /\ pkOps[c] \in CommittingCall(seen, pkMisbuilt)
             /\ Head(pkOps[c].left) \in StagedEntry(seen, pkMisbuilt)
             /\ Head(pkOps[c].left).pack \in Packs
             /\ Head(pkOps[c].left).status = "already" => Head(pkOps[c].left).pack \in seen
    <2>1. /\ pkOps[c] \in CommittingCall(pkSeen[c], pkMisbuilt)
          /\ Head(pkOps[c].left) \in StagedEntry(pkSeen[c], pkMisbuilt)
          /\ Head(pkOps[c].left).pack \in Packs
        BY <1>5, CommittingFacts
    <2>2. StagedEntry(pkSeen[c], pkMisbuilt) \subseteq StagedEntry(seen, pkMisbuilt)
        BY <1>2 DEF StagedEntry
    <2>3. PackAnswer(pkSeen[c]) \subseteq PackAnswer(seen)
        BY <1>2 DEF PackAnswer
    <2>4. /\ \A s \in Seq(StagedEntry(pkSeen[c], pkMisbuilt)) : s \in Seq(StagedEntry(seen, pkMisbuilt))
          /\ \A s \in Seq(PackAnswer(pkSeen[c])) : s \in Seq(PackAnswer(seen))
        BY <2>2, <2>3, SeqMonotone
    <2>5. pkOps[c] \in CommittingCall(seen, pkMisbuilt)
        BY <2>1, <2>4 DEF CommittingCall
    <2>6. Head(pkOps[c].left).status = "already" => Head(pkOps[c].left).pack \in seen
        BY <2>1, <1>2 DEF StagedEntry
    <2> QED BY <2>1, <2>2, <2>5, <2>6
<1>6. ASSUME NEW fails \in BOOLEAN, CommitStaged(c, fails)
      PROVE  \E new : BecomesCall(c, new)
    <2>1. PICK op : op = pkOps[c]
        OBVIOUS
    <2>2. op.kind = "commit"
        BY <1>6, <2>1 DEF CommitStaged
    <2>3. CASE Head(op.left).status = "already"
        <3>1. Committed(op, "already") \in PackCalls(seen, pkMisbuilt)
            BY <1>2, <1>5, <2>1, <2>2, <2>3, CommittedCall
        <3>2. pkOps' = [pkOps EXCEPT ![c] = Committed(op, "already")]
            BY <1>6, <2>1, <2>3 DEF CommitStaged
        <3> QED BY <1>3, <3>1, <3>2
    <2>4. CASE Head(op.left).status /= "already" /\ ~fails /\ pkFinal[Head(op.left).pack] = {}
        <3>1. pkPublished' = [pkPublished EXCEPT ![Head(op.left).pack] = @ + 1]
            BY <1>6, <2>1, <2>4 DEF CommitStaged
        <3>2. Head(op.left).pack \in Packs /\ pkPublished \in [Packs -> Nat]
            BY <1>5, <2>1, <2>2 DEF PackInv, PackShared
        <3>3. pkPublished'[Head(op.left).pack] /= pkPublished[Head(op.left).pack]
            BY <3>1, <3>2
        <3> QED BY <3>3
    <2>5. CASE Head(op.left).status /= "already" /\ ~(~fails /\ pkFinal[Head(op.left).pack] = {})
        <3>1. PICK new : new = [op EXCEPT !.kind = "collision"]
            OBVIOUS
        <3>2. new \in CommittingCall(seen, pkMisbuilt)
            BY <1>5, <2>1, <2>2, <3>1 DEF CommittingCall
        <3>3. new \in PackCalls(seen, pkMisbuilt)
            BY <3>2 DEF PackCalls
        <3>4. pkOps' = [pkOps EXCEPT ![c] = new]
            BY <1>6, <2>1, <2>5, <3>1 DEF CommitStaged
        <3> QED BY <1>3, <3>3, <3>4
    <2> QED BY <2>3, <2>4, <2>5
<1>7. CASE CommitCollision(c)
    <2>1. PICK op : op = pkOps[c]
        OBVIOUS
    <2>2. op.kind = "collision"
        BY <1>7, <2>1 DEF CommitCollision
    <2>3. PICK pack \in Packs : pack = Head(op.left).pack
        BY <1>5, <2>1, <2>2
    <2>4. CASE verify_at(pack, pkFinal[pack])
        <3>1. PICK new : new = [op EXCEPT !.kind = "commit"]
            OBVIOUS
        <3>2. new \in CommittingCall(seen, pkMisbuilt) /\ new.kind = "commit" /\ new.left = op.left
            BY <1>5, <2>1, <2>2, <3>1 DEF CommittingCall
        <3>3. pack \in seen
            BY <1>2, <2>4, VerifiedIsWhole
        <3>4. Committed(new, "already") \in PackCalls(seen, pkMisbuilt)
            BY <1>2, <2>3, <3>2, <3>3, CommittedCall
        <3>5. pkOps' = [pkOps EXCEPT ![c] = Committed(new, "already")]
            BY <1>7, <2>1, <2>3, <2>4, <3>1 DEF CommitCollision
        <3> QED BY <1>3, <3>4, <3>5
    <2>5. CASE ~verify_at(pack, pkFinal[pack])
        <3>1. pkOps[c].own \in SUBSET Packs
            BY <1>5, <2>1, <2>2 DEF CommittingCall
        <3>2. PackFail(c, "commit_error") \in InstallError
            BY <3>1 DEF PackFail, InstallError
        <3>3. PackFail(c, "commit_error") \in PackCalls(seen, pkMisbuilt)
            BY <3>2 DEF PackCalls
        <3>4. pkOps' = [pkOps EXCEPT ![c] = PackFail(c, "commit_error")]
            BY <1>7, <2>1, <2>3, <2>5 DEF CommitCollision
        <3> QED BY <1>3, <3>3, <3>4
    <2> QED BY <2>4, <2>5
<1>8. ASSUME NEW pack \in Packs, RemoveVerify(c, pack)
      PROVE  \E new : BecomesCall(c, new)
    <2>1. CASE pkOps' = [pkOps EXCEPT ![c] = PackDone("not_installed")]
        BY <2>1, <1>4
    <2>2. CASE pkOps' = [pkOps EXCEPT ![c] = PackDone("invalid")]
        BY <2>2, <1>4
    <2>3. CASE pkOps' = [pkOps EXCEPT ![c] =
                    [kind |-> "remove", pack |-> pack, suffix |-> Len(pkTrash[pack]) + 1]]
        <3>1. PICK op : op = [kind |-> "remove", pack |-> pack, suffix |-> Len(pkTrash[pack]) + 1]
            OBVIOUS
        <3>2. Len(pkTrash[pack]) + 1 \in Nat
            BY DEF PackInv, PackShared
        <3>3. op \in RemovingCall
            BY <3>1, <3>2 DEF RemovingCall
        <3>4. op \in PackCalls(seen, pkMisbuilt)
            BY <3>3 DEF PackCalls
        <3> QED BY <1>3, <2>3, <3>1, <3>4
    <2> QED BY <1>8, <2>1, <2>2, <2>3 DEF RemoveVerify
<1>9. CASE RemoveRename(c)
    <2>1. CASE pkOps' = [pkOps EXCEPT ![c] = PackDone("removed")]
        BY <2>1, <1>4
    <2>2. CASE pkOps' = [pkOps EXCEPT ![c] = PackDone("io_error")]
        BY <2>2, <1>4
    <2> QED BY <1>9, <2>1, <2>2 DEF RemoveRename
<1>10. CASE LoadDiscover(c)
    <2>1. PICK found : found = { p \in Packs : pkFinal[p] /= {} }
        OBVIOUS
    <2>2. IsFiniteSet(found) /\ found \subseteq Packs
        BY <2>1, PackAssumption, FS_Subset
    <2>3. CASE pkOps' = [pkOps EXCEPT ![c] = PackDone("not_installed")]
        BY <2>3, <1>4
    <2>4. CASE pkOps' = [pkOps EXCEPT ![c] = PackDone("ambiguous")]
        BY <2>4, <1>4
    <2>5. CASE /\ found /= {} /\ ~(Cardinality(found) > 1)
               /\ pkOps' = [pkOps EXCEPT ![c] =
                    [kind |-> "load", pack |-> CHOOSE p \in found : TRUE, listed |-> found]]
        <3>1. PICK p : p = CHOOSE q \in found : TRUE
            OBVIOUS
        <3>2. p \in found /\ found = {p}
            BY <2>2, <2>5, <3>1, OnlyOne
        <3>3. PICK op : op = [kind |-> "load", pack |-> p, listed |-> {p}]
            OBVIOUS
        <3>4. op \in LoadingCall
            BY <2>2, <3>2, <3>3 DEF LoadingCall
        <3>5. op \in PackCalls(seen, pkMisbuilt)
            BY <3>4 DEF PackCalls
        <3>6. pkOps' = [pkOps EXCEPT ![c] = op]
            BY <2>5, <3>1, <3>2, <3>3
        <3> QED BY <1>3, <3>5, <3>6
    <2> QED BY <1>10, <2>1, <2>3, <2>4, <2>5 DEF LoadDiscover, Discovered
<1>11. CASE LoadPack(c)
    <2>1. PICK op : op = pkOps[c]
        OBVIOUS
    <2>2. op.kind = "load" /\ op \in PackCalls(pkSeen[c], pkMisbuilt)
        BY <1>11, <2>1 DEF LoadPack, PackInv, PackCallsAreSound
    <2>3. op \in LoadingCall
        BY <2>2 DEF PackCalls, PackIdle, PreparingCall, ExtractingCall, CommittingCall, InstallAnswer,
                    InstallError, RemovingCall, LoadedAnswer, PlainAnswer
    <2>4. op.pack \in Packs /\ op.listed = {op.pack}
        BY <2>3 DEF LoadingCall
    <2>5. CASE verify_at(op.pack, pkFinal[op.pack])
        <3>1. op.pack \in seen
            BY <1>2, <2>4, <2>5, VerifiedIsWhole
        <3>2. PICK new : new = [kind |-> "done", result |-> "loaded", pack |-> op.pack, listed |-> {op.pack}]
            OBVIOUS
        <3>3. new \in LoadedAnswer(seen)
            BY <3>1, <3>2 DEF LoadedAnswer
        <3>4. new \in PackCalls(seen, pkMisbuilt)
            BY <3>3 DEF PackCalls
        <3>5. pkOps' = [pkOps EXCEPT ![c] = new]
            BY <1>11, <2>1, <2>4, <2>5, <3>2 DEF LoadPack
        <3> QED BY <1>3, <3>4, <3>5
    <2>6. CASE ~verify_at(op.pack, pkFinal[op.pack])
        <3>1. pkOps' = [pkOps EXCEPT ![c] = PackDone("invalid")]
            BY <1>11, <2>1, <2>6 DEF LoadPack
        <3> QED BY <1>4, <3>1
    <2> QED BY <2>5, <2>6
<1>12. CASE PackReturn(c) \/ PackCrash(c)
    <2>1. PackIdle \in PackCalls(seen, pkMisbuilt)
        BY DEF PackCalls
    <2> QED BY <1>3, <1>12, <2>1 DEF PackReturn, PackCrash
<1> QED BY <1>6, <1>7, <1>8, <1>9, <1>10, <1>11, <1>12, Zenon

\* A step that only changes a call keeps the invariant.
LEMMA CallOnlyStep ==
    ASSUME PackInv, SeenStep, UNCHANGED pkMisbuilt, NEW c \in Installers, NEW op, BecomesCall(c, op)
    PROVE  PackInv' /\ FinalStep
<1>1. UNCHANGED <<pkMisbuilt, pkCache, pkFinal, pkTrash, pkPublished>>
    BY DEF BecomesCall
<1>2. PackShared' /\ FinalStep /\ WholePacks' = WholePacks
    BY <1>1, QuietPackStep
<1>3. pkOps' = [pkOps EXCEPT ![c] = op] /\ op \in PackCalls(pkSeen[c] \cup WholePacks', pkMisbuilt)
    BY <1>2 DEF BecomesCall
<1>4. PackCallsAreSound'
    BY <1>3, PackCallStep
<1> QED BY <1>2, <1>4 DEF PackInv

\* A download that verifies replaces what the cache holds.
LEMMA DownloadStep ==
    ASSUME PackInv, SeenStep, UNCHANGED pkMisbuilt, NEW c \in Installers, Download(c, "right")
    PROVE  PackInv' /\ FinalStep
<1>1. PICK op : op = pkOps[c]
    OBVIOUS
<1>2. op.kind = "download"
    BY <1>1 DEF Download
<1>3. op \in PreparingCall(pkSeen[c], pkMisbuilt) /\ Head(op.left) \in Packs
    BY <1>1, <1>2, PreparingFacts
<1>4. pkCache' = [pkCache EXCEPT ![Head(op.left)] = "right"] /\ UNCHANGED <<pkFinal, pkTrash, pkPublished>>
    BY <1>1 DEF Download
<1>5. PICK new : new = [kind |-> "extract", left |-> op.left, offline |-> op.offline,
                        staged |-> op.staged, own |-> op.own, files |-> {}]
    OBVIOUS
<1>6. new \in ExtractingCall(pkSeen[c], pkMisbuilt)
    BY <1>3, <1>5 DEF PreparingCall, ExtractingCall
<1>7. new \in PackCalls(pkSeen[c], pkMisbuilt)
    BY <1>6 DEF PackCalls
<1>8. new \in PackCalls(pkSeen[c] \cup WholePacks', pkMisbuilt)
    BY <1>7, CallsMonotone
<1>9. pkOps' = [pkOps EXCEPT ![c] = new]
    BY <1>1, <1>5 DEF Download
<1>10. PackCallsAreSound'
    BY <1>8, <1>9, PackCallStep
<1>11. /\ pkCache' \in [Packs -> {"absent", "right", "wrong"}]
       /\ \A p \in Packs : pkCache'[p] = "wrong" => pkCache[p] = "wrong"
    BY <1>3, <1>4 DEF PackInv, PackShared
<1>12. OneFault'
    BY <1>4, <1>11 DEF PackInv, PackShared, OneFault, Torn
<1>13. NothingIsLost' /\ FinalStep
    BY <1>4 DEF PackInv, PackShared, NothingIsLost, FinalStep
<1> QED BY <1>4, <1>10, <1>11, <1>12, <1>13 DEF PackInv, PackShared

\* A published pack is whole, and takes the place of nothing.
LEMMA PublishStep ==
    ASSUME PackInv, SeenStep, UNCHANGED pkMisbuilt, NEW c \in Installers, NEW fails \in BOOLEAN,
           CommitStaged(c, fails)
    PROVE  PackInv' /\ FinalStep
<1>1. PICK op : op = pkOps[c]
    OBVIOUS
<1>2. op.kind = "commit" /\ UNCHANGED <<pkCache, pkTrash>>
    BY <1>1 DEF CommitStaged
<1>3. PICK entry : entry = Head(op.left)
    OBVIOUS
<1>4. /\ op \in CommittingCall(pkSeen[c], pkMisbuilt)
      /\ entry \in StagedEntry(pkSeen[c], pkMisbuilt) /\ entry.pack \in Packs
    BY <1>1, <1>2, <1>3, CommittingFacts
<1>5. CASE entry.status /= "already" /\ ~fails /\ pkFinal[entry.pack] = {}
    <2>1. /\ pkFinal' = [pkFinal EXCEPT ![entry.pack] = entry.files]
          /\ pkPublished' = [pkPublished EXCEPT ![entry.pack] = @ + 1]
          /\ pkOps' = [pkOps EXCEPT ![c] = Committed(op, "installed")]
        BY <1>1, <1>3, <1>5 DEF CommitStaged
    <2>2. entry.files = PackFiles /\ entry.pack \notin pkMisbuilt
        BY <1>4, <1>5 DEF StagedEntry
    <2>3. /\ pkFinal' \in [Packs -> SUBSET PackFiles]
          /\ pkFinal'[entry.pack] = PackFiles
          /\ \A p \in Packs : p /= entry.pack => pkFinal'[p] = pkFinal[p]
        BY <1>4, <2>1, <2>2 DEF PackInv, PackShared
    <2>4. /\ pkPublished' \in [Packs -> Nat]
          /\ pkPublished'[entry.pack] = pkPublished[entry.pack] + 1
          /\ \A p \in Packs : p /= entry.pack => pkPublished'[p] = pkPublished[p]
        BY <1>4, <2>1 DEF PackInv, PackShared
    <2>5. FinalStep
        BY <1>5, <2>2, <2>3 DEF FinalStep
    <2>6. OneFault'
        <3>1. \A p \in Packs : Torn(p)' => Torn(p)
            BY <2>3 DEF Torn
        <3> QED BY <3>1, <1>2 DEF PackInv, PackShared, OneFault
    <2>7. NothingIsLost'
        <3>1. SUFFICES ASSUME NEW p \in Packs
                       PROVE  pkPublished'[p] = Len(pkTrash'[p]) + (IF pkFinal'[p] = {} THEN 0 ELSE 1)
            BY DEF NothingIsLost
        <3>2. /\ pkPublished[p] = Len(pkTrash[p]) + (IF pkFinal[p] = {} THEN 0 ELSE 1)
              /\ Len(pkTrash[p]) \in Nat /\ PackFiles /= {}
            BY PackAssumption DEF PackInv, PackShared, NothingIsLost
        <3>3. CASE p = entry.pack
            <4>1. pkFinal[p] = {} /\ pkFinal'[p] /= {} /\ pkTrash'[p] = pkTrash[p]
                BY <3>2, <3>3, <1>2, <1>5, <2>3
            <4>2. pkPublished[p] = Len(pkTrash[p]) /\ pkPublished'[p] = pkPublished[p] + 1
                BY <3>2, <3>3, <4>1, <2>4
            <4> QED BY <4>1, <4>2
        <3>4. CASE p /= entry.pack
            BY <3>2, <3>4, <1>2, <2>3, <2>4
        <3> QED BY <3>3, <3>4
    <2>8. PICK seen : seen = pkSeen[c] \cup WholePacks'
        OBVIOUS
    <2>9. seen \in SUBSET Packs /\ pkSeen[c] \subseteq seen /\ entry.pack \in seen
        BY <1>4, <2>3, <2>8 DEF PackInv, PackCallsAreSound, WholePacks
    <2>10. op \in CommittingCall(seen, pkMisbuilt)
        <3>1. op \in PackCalls(pkSeen[c], pkMisbuilt)
            BY <1>4 DEF PackCalls
        <3>2. op \in PackCalls(seen, pkMisbuilt)
            BY <2>9, <3>1, CallsMonotone
        <3> QED BY <1>2, <3>2 DEF PackCalls, PackIdle, PreparingCall, ExtractingCall, InstallAnswer,
                                  InstallError, RemovingCall, LoadingCall, LoadedAnswer, PlainAnswer
    <2>11. Committed(op, "installed") \in PackCalls(seen, pkMisbuilt)
        BY <1>2, <1>3, <2>9, <2>10, CommittedCall
    <2>12. PackCallsAreSound'
        BY <2>1, <2>8, <2>11, PackCallStep
    <2> QED BY <1>2, <2>3, <2>4, <2>5, <2>6, <2>7, <2>12 DEF PackInv, PackShared
<1>6. CASE ~(entry.status /= "already" /\ ~fails /\ pkFinal[entry.pack] = {})
    <2>1. UNCHANGED <<pkCache, pkFinal, pkTrash, pkPublished>>
        BY <1>1, <1>3, <1>6 DEF CommitStaged
    <2>2. \E new : BecomesCall(c, new)
        BY <2>1, AnsweringStep
    <2> QED BY <2>2, CallOnlyStep
<1> QED BY <1>5, <1>6

\* A removed pack goes to the trash.
LEMMA RemoveStep ==
    ASSUME PackInv, SeenStep, UNCHANGED pkMisbuilt, NEW c \in Installers, RemoveRename(c)
    PROVE  PackInv' /\ FinalStep
<1>1. PICK op : op = pkOps[c]
    OBVIOUS
<1>2. op.kind = "remove" /\ op \in PackCalls(pkSeen[c], pkMisbuilt)
    BY <1>1 DEF RemoveRename, PackInv, PackCallsAreSound
<1>3. op \in RemovingCall
    BY <1>2 DEF PackCalls, PackIdle, PreparingCall, ExtractingCall, CommittingCall, InstallAnswer,
                InstallError, LoadingCall, LoadedAnswer, PlainAnswer
<1>4. PICK pack \in Packs : pack = op.pack
    BY <1>3 DEF RemovingCall
<1>5. CASE pkFinal[pack] /= {} /\ Len(pkTrash[pack]) < op.suffix
    <2>1. /\ pkTrash' = [pkTrash EXCEPT ![pack] = Append(@, pkFinal[pack])]
          /\ pkFinal' = [pkFinal EXCEPT ![pack] = {}]
          /\ pkOps' = [pkOps EXCEPT ![c] = PackDone("removed")]
          /\ UNCHANGED <<pkCache, pkPublished>>
        BY <1>1, <1>4, <1>5 DEF RemoveRename
    <2>2. PICK s \in Seq(SUBSET PackFiles) : s = pkTrash[pack]
        BY DEF PackInv, PackShared
    <2>3. PICK t : t = Append(s, pkFinal[pack])
        OBVIOUS
    <2>4. t \in Seq(SUBSET PackFiles) /\ Len(t) = Len(s) + 1 /\ Len(s) \in Nat
        BY <2>2, <2>3 DEF PackInv, PackShared
    <2>5. pkTrash' = [pkTrash EXCEPT ![pack] = t]
        BY <2>1, <2>2, <2>3
    <2>6. /\ pkTrash' \in [Packs -> Seq(SUBSET PackFiles)] /\ pkTrash'[pack] = t
          /\ \A p \in Packs : p /= pack => pkTrash'[p] = pkTrash[p]
        BY <2>4, <2>5 DEF PackInv, PackShared
    <2>7. /\ pkFinal' \in [Packs -> SUBSET PackFiles] /\ pkFinal'[pack] = {}
          /\ \A p \in Packs : p /= pack => pkFinal'[p] = pkFinal[p]
        BY <2>1 DEF PackInv, PackShared
    <2>8. FinalStep
        BY <2>2, <2>3, <2>6, <2>7 DEF FinalStep
    <2>9. OneFault'
        <3>1. \A p \in Packs : Torn(p)' => Torn(p)
            BY <2>7 DEF Torn
        <3> QED BY <3>1, <2>1 DEF PackInv, PackShared, OneFault
    <2>10. NothingIsLost'
        <3>1. SUFFICES ASSUME NEW p \in Packs
                       PROVE  pkPublished'[p] = Len(pkTrash'[p]) + (IF pkFinal'[p] = {} THEN 0 ELSE 1)
            BY DEF NothingIsLost
        <3>2. pkPublished[p] = Len(pkTrash[p]) + (IF pkFinal[p] = {} THEN 0 ELSE 1)
            BY DEF PackInv, PackShared, NothingIsLost
        <3>3. CASE p = pack
            BY <3>2, <3>3, <1>5, <2>1, <2>2, <2>4, <2>6, <2>7
        <3>4. CASE p /= pack
            BY <3>2, <3>4, <2>1, <2>6, <2>7
        <3> QED BY <3>3, <3>4
    <2>11. PackDone("removed") \in PlainAnswer
        BY DEF PackDone, PlainAnswer
    <2>12. PackDone("removed") \in PackCalls(pkSeen[c] \cup WholePacks', pkMisbuilt)
        BY <2>11 DEF PackCalls
    <2>13. PackCallsAreSound'
        BY <2>1, <2>12, PackCallStep
    <2> QED BY <2>1, <2>6, <2>7, <2>8, <2>9, <2>10, <2>13 DEF PackInv, PackShared
<1>6. CASE ~(pkFinal[pack] /= {} /\ Len(pkTrash[pack]) < op.suffix)
    <2>1. UNCHANGED <<pkCache, pkFinal, pkTrash, pkPublished>>
        BY <1>1, <1>4, <1>6 DEF RemoveRename
    <2>2. \E new : BecomesCall(c, new)
        BY <2>1, AnsweringStep
    <2> QED BY <2>2, CallOnlyStep
<1> QED BY <1>5, <1>6

\* The disk damages one thing when nothing is damaged.
LEMMA DamageStep ==
    ASSUME PackInv, SeenStep, UNCHANGED pkMisbuilt, DiskDamage
    PROVE  PackInv' /\ FinalStep
<1>1. /\ \A p \in Packs : pkFinal[p] \in {{}, PackFiles} /\ pkCache[p] /= "wrong"
      /\ UNCHANGED <<pkTrash, pkOps, pkPublished>>
    BY DEF DiskDamage
<1>2. PackCallsAreSound'
    <2>1. /\ pkSeen \in [Installers -> SUBSET Packs] /\ DOMAIN pkOps = Installers
          /\ \A d \in Installers : pkOps[d] \in PackCalls(pkSeen[d], pkMisbuilt)
        BY DEF PackInv, PackCallsAreSound
    <2>2. /\ pkSeen' \in [Installers -> SUBSET Packs]
          /\ \A d \in Installers : pkSeen'[d] = IF pkOps[d].kind = "idle" THEN {}
                                                ELSE pkSeen[d] \cup WholePacks'
        BY <1>1, <2>1 DEF SeenStep, WholePacks
    <2>3. ASSUME NEW d \in Installers
          PROVE  pkOps[d] \in PackCalls(pkSeen'[d], pkMisbuilt)
        <3>1. CASE pkOps[d].kind = "idle"
            <4>1. pkOps[d] = PackIdle
                BY <2>1, <3>1 DEF PackCalls, PreparingCall, ExtractingCall, CommittingCall, InstallAnswer,
                                  InstallError, RemovingCall, LoadingCall, LoadedAnswer, PlainAnswer
            <4> QED BY <4>1 DEF PackCalls
        <3>2. CASE pkOps[d].kind /= "idle"
            <4>1. pkSeen'[d] = pkSeen[d] \cup WholePacks'
                BY <2>2, <3>2
            <4>2. pkOps[d] \in PackCalls(pkSeen[d] \cup WholePacks', pkMisbuilt)
                BY <2>1, CallsMonotone
            <4> QED BY <4>1, <4>2
        <3> QED BY <3>1, <3>2
    <2> QED BY <1>1, <2>1, <2>2, <2>3 DEF PackCallsAreSound
<1>3. ASSUME NEW p \in Packs, NEW f \in PackFiles, f \in pkFinal[p], pkFinal[p] /= {f},
             pkFinal' = [pkFinal EXCEPT ![p] = @ \ {f}], UNCHANGED pkCache
      PROVE  PackInv' /\ FinalStep
    <2>1. PICK rest : rest = pkFinal[p] \ {f}
        OBVIOUS
    <2>2. rest /= {} /\ rest \subseteq pkFinal[p] /\ rest \in SUBSET PackFiles
        BY <1>3, <2>1 DEF PackInv, PackShared
    <2>3. /\ pkFinal' \in [Packs -> SUBSET PackFiles] /\ pkFinal'[p] = rest
          /\ \A q \in Packs : q /= p => pkFinal'[q] = pkFinal[q]
        BY <1>3, <2>1, <2>2 DEF PackInv, PackShared
    <2>4. OneFault'
        BY <1>1, <1>3, <2>3 DEF OneFault, Torn
    <2>5. FinalStep
        BY <1>1, <2>2, <2>3 DEF FinalStep
    <2>6. NothingIsLost'
        BY <1>1, <1>3, <2>2, <2>3 DEF PackInv, PackShared, NothingIsLost
    <2> QED BY <1>1, <1>2, <1>3, <2>3, <2>4, <2>5, <2>6 DEF PackInv, PackShared
<1>4. ASSUME NEW p \in Packs, pkCache' = [pkCache EXCEPT ![p] = "wrong"], UNCHANGED pkFinal
      PROVE  PackInv' /\ FinalStep
    <2>1. /\ pkCache' \in [Packs -> {"absent", "right", "wrong"}]
          /\ \A q \in Packs : q /= p => pkCache'[q] = pkCache[q]
        BY <1>4 DEF PackInv, PackShared
    <2>2. OneFault'
        BY <1>1, <1>4, <2>1 DEF OneFault, Torn
    <2>3. FinalStep /\ NothingIsLost'
        BY <1>1, <1>4 DEF FinalStep, PackInv, PackShared, NothingIsLost
    <2> QED BY <1>1, <1>2, <1>4, <2>1, <2>2, <2>3 DEF PackInv, PackShared
<1> QED BY <1>3, <1>4 DEF DiskDamage

\* Every step keeps the invariant and treats installed packs well.
LEMMA PackStepIsSound ==
    ASSUME PackInv, PackNext
    PROVE  PackInv' /\ FinalStep
<1>1. PackStep /\ UNCHANGED pkMisbuilt /\ SeenStep
    BY DEF PackNext, SeenStep
<1>2. CASE DiskDamage
    BY <1>1, <1>2, DamageStep
<1>3. ASSUME NEW c \in Installers,
             \/ \E request \in PackRequests[c], offline \in BOOLEAN : Install(c, request, offline)
             \/ PrepareCheck(c) \/ ObtainArchive(c)
             \/ \E outcome \in {"failed", "right", "wrong"} : Download(c, outcome)
             \/ \E file \in PackFiles : Extract(c, file)
             \/ VerifyStaged(c)
      PROVE  PackInv' /\ FinalStep
    <2>1. CASE Download(c, "right")
        BY <1>1, <2>1, DownloadStep
    <2>2. CASE ~Download(c, "right")
        <3>1. \/ \E request \in PackRequests[c], offline \in BOOLEAN : Install(c, request, offline)
              \/ PrepareCheck(c) \/ ObtainArchive(c)
              \/ \E outcome \in {"failed", "wrong"} : Download(c, outcome)
              \/ \E file \in PackFiles : Extract(c, file)
              \/ VerifyStaged(c)
            BY <1>3, <2>2, Zenon
        <3>2. \E op : BecomesCall(c, op)
            BY <3>1, PreparationStep
        <3> QED BY <1>1, <3>2, CallOnlyStep
    <2> QED BY <2>1, <2>2
<1>4. ASSUME NEW c \in Installers,
             \/ CommitCollision(c) \/ \E pack \in Packs : RemoveVerify(c, pack)
             \/ LoadDiscover(c) \/ LoadPack(c) \/ PackReturn(c) \/ PackCrash(c)
      PROVE  PackInv' /\ FinalStep
    <2>1. UNCHANGED <<pkCache, pkFinal, pkTrash, pkPublished>>
        BY <1>4 DEF CommitCollision, RemoveVerify, LoadDiscover, LoadPack, PackReturn, PackCrash
    <2>2. \E op : BecomesCall(c, op)
        BY <1>4, <2>1, AnsweringStep
    <2> QED BY <1>1, <2>2, CallOnlyStep
<1>5. ASSUME NEW c \in Installers, \E fails \in BOOLEAN : CommitStaged(c, fails)
      PROVE  PackInv' /\ FinalStep
    BY <1>1, <1>5, PublishStep
<1>6. ASSUME NEW c \in Installers, RemoveRename(c)
      PROVE  PackInv' /\ FinalStep
    BY <1>1, <1>6, RemoveStep
<1> QED BY <1>1, <1>2, <1>3, <1>4, <1>5, <1>6, Zenon DEF PackStep

\* The invariant gives what is promised of a state.
LEMMA PackInvIsSafe ==
    ASSUME PackInv
    PROVE  /\ PackTypeOK /\ InstallAnswerWasTrue /\ PreflightPublishesNothing
           /\ NothingIsLost /\ LoadedIsTheOnlyOne
<1>1. ASSUME NEW c \in Installers
      PROVE  pkOps[c] \in PackCalls(pkSeen[c], pkMisbuilt)
    BY DEF PackInv, PackCallsAreSound
<1>2. ASSUME NEW c \in Installers
      PROVE  pkOps[c].kind \in {"idle", "prepare", "obtain", "download", "extract", "commit",
                                "collision", "remove", "load", "done"}
    BY <1>1 DEF PackCalls, PackIdle, PreparingCall, ExtractingCall, CommittingCall, InstallAnswer,
                InstallError, RemovingCall, LoadingCall, LoadedAnswer, PlainAnswer
<1>3. PICK W : W = { p \in Packs : pkCache[p] = "wrong" }
    OBVIOUS
<1>4. PICK T : T = { p \in Packs : pkFinal[p] \notin {{}, PackFiles} }
    OBVIOUS
<1>5. /\ \A p, q \in W : p = q
      /\ \A p, q \in T : p = q
      /\ W = {} \/ T = {}
    BY <1>3, <1>4 DEF PackInv, PackShared, OneFault, Torn
<1>6. ASSUME NEW S, \A p, q \in S : p = q
      PROVE  Cardinality(S) \in {0, 1} /\ (S = {} => Cardinality(S) = 0)
    <2>1. CASE S = {}
        BY <2>1, FS_EmptySet
    <2>2. CASE S /= {}
        <3>1. PICK x : x \in S
            BY <2>2
        <3>2. S = {x}
            BY <1>6, <3>1
        <3> QED BY <2>2, <3>2, FS_Singleton
    <2> QED BY <2>1, <2>2
<1>7. Cardinality(W) \in {0, 1} /\ (W = {} => Cardinality(W) = 0)
    BY <1>5, <1>6
<1>8. Cardinality(T) \in {0, 1} /\ (T = {} => Cardinality(T) = 0)
    BY <1>5, <1>6
<1>9. Cardinality(W) + Cardinality(T) <= 1
    BY <1>5, <1>7, <1>8
<1>10. PackTypeOK
    <2>1. \A p \in Packs : pkFinal[p] \subseteq PackFiles
        BY DEF PackInv, PackShared
    <2> QED BY <1>2, <1>3, <1>4, <1>9, <2>1 DEF PackTypeOK
<1>11. InstallAnswerWasTrue
    <2>1. SUFFICES ASSUME NEW c \in Installers, pkOps[c].kind = "done", pkOps[c].result = "ok",
                          NEW i \in DOMAIN pkOps[c].answers
                   PROVE  pkOps[c].answers[i].pack \in pkSeen[c]
        BY DEF InstallAnswerWasTrue
    <2>2. pkOps[c] \in InstallAnswer(pkSeen[c])
        BY <1>1, <2>1 DEF PackCalls, PackIdle, PreparingCall, ExtractingCall, CommittingCall,
                          InstallError, RemovingCall, LoadingCall, LoadedAnswer, PlainAnswer
    <2>3. PICK s \in Seq(PackAnswer(pkSeen[c])) : s = pkOps[c].answers
        BY <2>2 DEF InstallAnswer
    <2>4. s[i] \in PackAnswer(pkSeen[c])
        BY <2>1, <2>3
    <2> QED BY <2>3, <2>4 DEF PackAnswer
<1>12. PreflightPublishesNothing
    <2>1. SUFFICES ASSUME NEW c \in Installers, pkOps[c].kind = "done", pkOps[c].result = "prepare_error"
                   PROVE  pkOps[c].own = {}
        BY DEF PreflightPublishesNothing
    <2>2. pkOps[c] \in InstallError
        BY <1>1, <2>1 DEF PackCalls, PackIdle, PreparingCall, ExtractingCall, CommittingCall,
                          InstallAnswer, RemovingCall, LoadingCall, LoadedAnswer, PlainAnswer
    <2> QED BY <2>1, <2>2 DEF InstallError
<1>13. LoadedIsTheOnlyOne
    <2>1. SUFFICES ASSUME NEW c \in Installers, pkOps[c].kind = "done", pkOps[c].result = "loaded"
                   PROVE  pkOps[c].listed = {pkOps[c].pack} /\ pkOps[c].pack \in pkSeen[c]
        BY DEF LoadedIsTheOnlyOne
    <2>2. pkOps[c] \in LoadedAnswer(pkSeen[c])
        BY <1>1, <2>1 DEF PackCalls, PackIdle, PreparingCall, ExtractingCall, CommittingCall,
                          InstallAnswer, InstallError, RemovingCall, LoadingCall, PlainAnswer
    <2> QED BY <2>2 DEF LoadedAnswer
<1> QED BY <1>10, <1>11, <1>12, <1>13 DEF PackInv, PackShared

\* Packs: processes that install, remove, load and die over one damaged disk
\* are told the truth, publish packs whole and honest, lose none, and start
\* only with the one pack that is installed.
THEOREM PackIsSafe == PackSpec => PackSafety
<1>1. PackInit => PackInv
    <2> SUFFICES ASSUME PackInit PROVE PackInv
        OBVIOUS
    <2>1. /\ pkMisbuilt \subseteq Packs
          /\ pkCache \in [Packs -> {"absent", "right", "wrong"}] /\ \A p \in Packs : pkCache[p] = "absent"
          /\ pkFinal \in [Packs -> SUBSET PackFiles] /\ \A p \in Packs : pkFinal[p] = {}
          /\ pkTrash \in [Packs -> Seq(SUBSET PackFiles)] /\ \A p \in Packs : Len(pkTrash[p]) = 0
          /\ pkPublished \in [Packs -> Nat] /\ \A p \in Packs : pkPublished[p] = 0
        BY DEF PackInit
    <2>2. OneFault /\ NothingIsLost
        BY <2>1 DEF OneFault, Torn, NothingIsLost
    <2>3. PackCallsAreSound
        BY DEF PackInit, PackCallsAreSound, PackCalls
    <2> QED BY <2>1, <2>2, <2>3 DEF PackInv, PackShared
<1>2. PackInv /\ [PackNext]_packVars => PackInv'
    <2>1. ASSUME PackInv, UNCHANGED packVars
          PROVE  PackInv'
        <3>1. UNCHANGED <<pkMisbuilt, pkCache, pkFinal, pkTrash, pkPublished>>
            BY <2>1 DEF packVars
        <3>2. PackShared'
            BY <2>1, <3>1, QuietPackStep
        <3> QED BY <2>1, <3>2 DEF packVars, PackInv, PackCallsAreSound
    <2> QED BY <2>1, PackStepIsSound
<1>3. PackInv => /\ PackTypeOK /\ InstallAnswerWasTrue /\ PreflightPublishesNothing
                 /\ NothingIsLost /\ LoadedIsTheOnlyOne
    BY PackInvIsSafe
<1>4. PackInv /\ [PackNext]_packVars =>
        [\A p \in Packs : pkFinal'[p] /= pkFinal[p] =>
            \/ pkFinal[p] = {} /\ pkFinal'[p] = PackFiles /\ p \notin pkMisbuilt
            \/ pkFinal'[p] = {} /\ pkTrash'[p] = Append(pkTrash[p], pkFinal[p])
            \/ pkFinal'[p] /= {} /\ pkFinal'[p] \subseteq pkFinal[p] /\ pkOps' = pkOps]_packVars
    <2>1. ASSUME PackInv, PackNext
          PROVE  FinalStep
        BY <2>1, PackStepIsSound
    <2> QED BY <2>1, Zenon DEF FinalStep
<1> QED BY <1>1, <1>2, <1>3, <1>4, PTL DEF PackSpec, PackSafety, PublishedWhole

=============================================================================
