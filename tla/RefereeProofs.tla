--------------------------- MODULE RefereeProofs ---------------------------
(***************************************************************************)
(* Proofs about the referee: the replay of a log, the words and the shape  *)
(* of the board, the tiles and the points; and the theory of the folds     *)
(* that the points are summed with.                                        *)
(***************************************************************************)
EXTENDS EngineGame, TLAPS, FiniteSetTheorems, WellFoundedInduction

\* A set of numbers has a least one.
LEMMA LeastExists ==
    ASSUME NEW S, S \subseteq Nat, S /= {}
    PROVE  \E n \in S : \A m \in S : n <= m
<1>1. \E n \in S : \A m \in S : ~(<<m, n>> \in OpToRel(<, Nat))
    BY NatLessThanWellFounded, WFMin, Zenon
<1>2. ASSUME NEW m \in Nat, NEW n \in Nat, m < n
      PROVE  <<m, n>> \in OpToRel(<, Nat)
    BY <1>2, Zenon DEF OpToRel
<1>3. \E n \in S : \A m \in S : ~(m < n)
    BY <1>1, <1>2, Zenon
<1> QED BY <1>3

-----------------------------------------------------------------------------
(* The referee: numbers and sets of numbers *)

\* What the proofs use of the ruleset.
LEMMA EngineConstants ==
    /\ Size \in Nat /\ Size > 0 /\ Players \in Nat /\ Players > 0 /\ EngineSeats = 1..Players
    /\ RackCapacity \in Nat /\ ScorelessTurnLimit \in Nat /\ ScorelessTurnLimit > 0
    /\ Seeds \subseteq Nat /\ Len(Face) \in Nat /\ Tiles = 1..Len(Face)
BY EngineAssumption DEF EngineSeats, Tiles

IsAscending(q, S) ==
    /\ q \in [1..Cardinality(S) -> S]
    /\ \A i, j \in 1..Cardinality(S) : i < j => q[i] < q[j]

\* Every finite set of numbers can be sorted.
LEMMA AscendingExists ==
    ASSUME NEW S \in SUBSET Nat, IsFiniteSet(S)
    PROVE  \E q : IsAscending(q, S)
<1> SUFFICES ASSUME ~ \E q : IsAscending(q, S)
             PROVE  FALSE
    OBVIOUS
<1> DEFINE Bad == { n \in Nat : \E R \in SUBSET Nat :
                      IsFiniteSet(R) /\ Cardinality(R) = n /\ ~ \E q : IsAscending(q, R) }
<1>1. PICK n \in Bad : \A k \in Bad : n <= k
    <2>1. Cardinality(S) \in Bad
        BY FS_CardinalityType, Zenon
    <2>2. Bad \subseteq Nat
        OBVIOUS
    <2> HIDE DEF Bad
    <2> QED BY <2>1, <2>2, LeastExists
<1>2. PICK R \in SUBSET Nat : IsFiniteSet(R) /\ Cardinality(R) = n /\ ~ \E q : IsAscending(q, R)
    BY Zenon
<1>3. R /= {}
    <2>1. ASSUME R = {}
          PROVE  IsAscending([i \in {} |-> 0], R)
        <3>1. Cardinality(R) = 0 /\ 1..0 = {}
            BY <2>1, FS_EmptySet
        <3> QED BY <3>1 DEF IsAscending
    <2> QED BY <1>2, <2>1
<1>4. PICK m \in R : \A x \in R : m <= x
    BY <1>2, <1>3, LeastExists
<1>5. PICK T : T = R \ {m}
    OBVIOUS
<1>6. /\ T \in SUBSET Nat /\ IsFiniteSet(T) /\ Cardinality(T) = n - 1 /\ n - 1 \in Nat /\ n \in Nat
      /\ \A x \in T : x \in Nat /\ m < x
    <2>1. IsFiniteSet(T) /\ Cardinality(T) = n - 1
        BY <1>2, <1>5, FS_RemoveElement
    <2>2. n - 1 \in Nat
        BY <2>1, FS_CardinalityType
    <2> QED BY <1>4, <1>5, <2>1, <2>2
<1>7. PICK q : IsAscending(q, T)
    <2>1. n - 1 \notin Bad
        <3>1. ~(n <= n - 1)
            BY <1>6
        <3> QED BY <1>1, <3>1, Zenon
    <2> QED BY <1>6, <2>1
<1>8. PICK r : r = [i \in 1..n |-> IF i = 1 THEN m ELSE q[i - 1]]
    OBVIOUS
<1>9. IsAscending(r, R)
    <2>1. \A i \in 1..n : i /= 1 => i - 1 \in 1..n - 1
        BY <1>6
    <2>2. \A i \in 1..n : i /= 1 => r[i] = q[i - 1] /\ r[i] \in T
        BY <1>6, <1>7, <1>8, <2>1 DEF IsAscending
    <2>3. r \in [1..n -> R]
        BY <1>4, <1>5, <1>8, <2>2
    <2>4. ASSUME NEW i \in 1..n, NEW j \in 1..n, i < j
          PROVE  r[i] < r[j]
        <3>1. j /= 1
            BY <2>4
        <3>2. CASE i = 1
            <4>1. r[i] = m
                BY <1>8, <3>2
            <4> QED BY <1>6, <2>2, <3>1, <4>1
        <3>3. CASE i /= 1
            <4>1. i - 1 \in 1..n - 1 /\ j - 1 \in 1..n - 1 /\ i - 1 < j - 1
                BY <2>4, <3>1, <3>3
            <4>2. q[i - 1] < q[j - 1]
                BY <1>6, <1>7, <4>1 DEF IsAscending
            <4> QED BY <2>2, <3>1, <3>3, <4>2
        <3> QED BY <3>2, <3>3
    <2> QED BY <1>2, <2>3, <2>4 DEF IsAscending
<1> QED BY <1>2, <1>9

\* Sorting a finite set of numbers lists each of them once.
LEMMA AscendingIsSorted ==
    ASSUME NEW S \in SUBSET Nat, IsFiniteSet(S)
    PROVE  /\ IsAscending(Ascending(S), S) /\ Cardinality(S) \in Nat
           /\ Ascending(S) \in Seq(S) /\ Len(Ascending(S)) = Cardinality(S)
           /\ ToSet(Ascending(S)) = S /\ IsInjective(Ascending(S))
<1>0. Cardinality(S) \in Nat
    BY FS_CardinalityType
<1>1. IsAscending(Ascending(S), S)
    <2>1. PICK q : IsAscending(q, S)
        BY AscendingExists
    <2>2. \E p \in [1..Cardinality(S) -> S] : \A i, j \in 1..Cardinality(S) : i < j => p[i] < p[j]
        BY <2>1, Zenon DEF IsAscending
    <2> QED BY <2>2, Zenon DEF IsAscending, Ascending
<1>2. PICK q : q = Ascending(S)
    OBVIOUS
<1>3. q \in [1..Cardinality(S) -> S]
    BY <1>1, <1>2 DEF IsAscending
<1>4. q \in Seq(S) /\ Len(q) = Cardinality(S) /\ DOMAIN q = 1..Cardinality(S)
    BY <1>0, <1>3
<1>5. \A i, j \in 1..Cardinality(S) : q[i] = q[j] => i = j
    <2> SUFFICES ASSUME NEW i \in 1..Cardinality(S), NEW j \in 1..Cardinality(S), q[i] = q[j], i /= j
                 PROVE  FALSE
        OBVIOUS
    <2>1. i < j \/ j < i
        BY <1>0
    <2>2. q[i] < q[j] \/ q[j] < q[i]
        BY <1>1, <1>2, <2>1 DEF IsAscending
    <2>3. q[i] \in Nat /\ q[j] \in Nat
        BY <1>3
    <2> QED BY <2>2, <2>3
<1>6. IsInjective(q)
    BY <1>4, <1>5, Zenon DEF IsInjective
<1>7. ToSet(q) = S
    <2>1. q \in Injection(1..Cardinality(S), S)
        BY <1>3, <1>6, Zenon DEF Injection
    <2>2. IsFiniteSet(1..Cardinality(S)) /\ Cardinality(1..Cardinality(S)) = Cardinality(S)
        BY <1>0, FS_Interval
    <2>3. q \in Surjection(1..Cardinality(S), S)
        BY <2>1, <2>2, FS_Injection
    <2>4. \A x \in S : \E i \in 1..Cardinality(S) : q[i] = x
        BY <2>3, Zenon DEF Surjection
    <2> QED BY <1>3, <1>4, <2>4 DEF ToSet
<1> QED BY <1>0, <1>1, <1>2, <1>4, <1>6, <1>7

-----------------------------------------------------------------------------
(* The referee: replay *)

\* f[n] is the game after the first n events, for every n up to m.
ReplaysTo(f, s, events, m) ==
    f = [n \in 0..m |-> IF n = 0 THEN Create(s) ELSE ReplayMove(f[n - 1], s, events[n])]

\* Every log can be replayed.
LEMMA ReplayExists ==
    ASSUME NEW s, NEW events, NEW m \in Nat
    PROVE  \E f : ReplaysTo(f, s, events, m)
<1> SUFFICES ASSUME ~ \E f : ReplaysTo(f, s, events, m)
             PROVE  FALSE
    OBVIOUS
<1> DEFINE Bad == { n \in Nat : ~ \E f : ReplaysTo(f, s, events, n) }
<1>1. PICK n \in Bad : \A k \in Bad : n <= k
    BY LeastExists
<1>2. n /= 0
    <2>1. ReplaysTo([i \in 0..0 |-> Create(s)], s, events, 0)
        BY DEF ReplaysTo
    <2> QED BY <2>1
<1>3. PICK f : ReplaysTo(f, s, events, n - 1)
    <2>1. n \in Nat /\ n - 1 \in Nat /\ ~(n <= n - 1)
        BY <1>2
    <2> QED BY <1>1, <2>1
<1>4. PICK g : g = [k \in 0..n |-> IF k = n THEN ReplayMove(f[n - 1], s, events[n]) ELSE f[k]]
    OBVIOUS
<1>5. \A k \in 0..n : g[k] = IF k = 0 THEN Create(s) ELSE ReplayMove(g[k - 1], s, events[k])
    <2> SUFFICES ASSUME NEW k \in 0..n
                 PROVE  g[k] = IF k = 0 THEN Create(s) ELSE ReplayMove(g[k - 1], s, events[k])
        OBVIOUS
    <2>1. \A i \in 0..n - 1 : g[i] = f[i]
        BY <1>2, <1>4
    <2>2. CASE k = n
        <3>1. n - 1 \in 0..n - 1
            BY <1>2
        <3> QED BY <1>2, <1>4, <2>1, <2>2, <3>1
    <2>3. CASE k /= n
        <3>1. k \in 0..n - 1
            BY <2>3
        <3>2. f[k] = IF k = 0 THEN Create(s) ELSE ReplayMove(f[k - 1], s, events[k])
            BY <1>3, <3>1 DEF ReplaysTo
        <3>3. k /= 0 => k - 1 \in 0..n - 1
            BY <3>1
        <3> QED BY <2>1, <3>1, <3>2, <3>3
    <2> QED BY <2>2, <2>3
<1>6. ReplaysTo(g, s, events, n)
    <2>1. g = [k \in 0..n |-> g[k]]
        BY <1>4
    <2> QED BY <1>5, <2>1, Zenon DEF ReplaysTo
<1> QED BY <1>6

\* Two logs that agree so far lead to the same games so far.
LEMMA ReplayAgrees ==
    ASSUME NEW s, NEW v, NEW w, NEW m \in Nat, NEW k \in Nat, m <= k,
           \A i \in 1..m : v[i] = w[i],
           NEW f, ReplaysTo(f, s, v, m), NEW g, ReplaysTo(g, s, w, k)
    PROVE  f[m] = g[m]
<1> SUFFICES ASSUME f[m] /= g[m]
             PROVE  FALSE
    OBVIOUS
<1> DEFINE Bad == { n \in 0..m : f[n] /= g[n] }
<1>1. PICK n \in Bad : \A j \in Bad : n <= j
    <2>1. Bad \subseteq Nat /\ Bad /= {}
        OBVIOUS
    <2> QED BY <2>1, LeastExists
<1>2. /\ f[n] = IF n = 0 THEN Create(s) ELSE ReplayMove(f[n - 1], s, v[n])
      /\ g[n] = IF n = 0 THEN Create(s) ELSE ReplayMove(g[n - 1], s, w[n])
    <2>1. n \in 0..m /\ n \in 0..k
        OBVIOUS
    <2> QED BY <2>1, Zenon DEF ReplaysTo
<1>3. n /= 0
    BY <1>2
<1>4. f[n - 1] = g[n - 1]
    <2>1. n - 1 \in 0..m /\ ~(n <= n - 1)
        BY <1>3
    <2> QED BY <1>1, <2>1
<1>5. v[n] = w[n]
    BY <1>3
<1> QED BY <1>2, <1>3, <1>4, <1>5

\* What replay computes is such a function's last value.
LEMMA ReplayIs ==
    ASSUME NEW s, NEW events, Len(events) \in Nat
    PROVE  \E f : ReplaysTo(f, s, events, Len(events)) /\ replay(s, events) = f[Len(events)]
<1>1. \E f : ReplaysTo(f, s, events, Len(events))
    BY ReplayExists
<1> DEFINE at == CHOOSE f : ReplaysTo(f, s, events, Len(events))
<1>2. ReplaysTo(at, s, events, Len(events))
    BY <1>1, Zenon
<1>3. replay(s, events) = at[Len(events)]
    BY DEF replay, ReplaysTo
<1> QED BY <1>2, <1>3, Zenon

\* Replaying one more event makes the move it tells of.
LEMMA ReplayOneMore ==
    ASSUME NEW s, NEW S, NEW events \in Seq(S), NEW e \in S
    PROVE  replay(s, Append(events, e)) = ReplayMove(replay(s, events), s, e)
<1>1. PICK v : v = Append(events, e)
    OBVIOUS
<1>2. /\ Len(events) \in Nat /\ Len(v) = Len(events) + 1 /\ v[Len(events) + 1] = e
      /\ \A i \in 1..Len(events) : events[i] = v[i]
    BY <1>1
<1>3. PICK f : ReplaysTo(f, s, events, Len(events)) /\ replay(s, events) = f[Len(events)]
    BY <1>2, ReplayIs
<1>4. PICK g : ReplaysTo(g, s, v, Len(v)) /\ replay(s, v) = g[Len(v)]
    BY <1>2, ReplayIs
<1>5. f[Len(events)] = g[Len(events)]
    BY <1>2, <1>3, <1>4, ReplayAgrees
<1>6. g[Len(v)] = ReplayMove(g[Len(events)], s, e)
    <2>1. Len(v) \in 0..Len(v) /\ Len(v) /= 0 /\ Len(v) - 1 = Len(events)
        BY <1>2
    <2>2. g[Len(v)] = ReplayMove(g[Len(v) - 1], s, v[Len(v)])
        BY <1>4, <2>1, Zenon DEF ReplaysTo
    <2> QED BY <1>2, <2>1, <2>2
<1> QED BY <1>1, <1>3, <1>4, <1>5, <1>6

-----------------------------------------------------------------------------
(* The referee: what a move leaves of a game *)

GameFields ==
    {"bag", "racks", "board", "scores", "current", "version", "scoreless", "phase", "reason",
     "winner", "events", "private"}

\* The end of a game touches its result only.
LEMMA CompleteKeeps ==
    ASSUME NEW g, DOMAIN g = GameFields, NEW reason, NEW seat
    PROVE  LET h == complete_state(g, reason, seat)
           IN /\ DOMAIN h = GameFields
              /\ h.bag = g.bag /\ h.racks = g.racks /\ h.board = g.board /\ h.current = g.current
              /\ h.version = g.version /\ h.scoreless = g.scoreless /\ h.events = g.events
              /\ h.private = g.private /\ h.phase = "finished" /\ h.reason = reason
              /\ h.scores = FinalScores(g, reason, seat)
BY DEF complete_state, GameFields

\* Logging touches the log only.
SameButLog(g, h) ==
    /\ DOMAIN h = GameFields
    /\ h.bag = g.bag /\ h.racks = g.racks /\ h.board = g.board /\ h.current = g.current
    /\ h.version = g.version /\ h.scoreless = g.scoreless /\ h.phase = g.phase
    /\ h.reason = g.reason /\ h.winner = g.winner /\ h.scores = g.scores

LEMMA LoggedKeeps ==
    ASSUME NEW g, DOMAIN g = GameFields, NEW move
    PROVE  /\ SameButLog(g, Logged(g, move))
           /\ Logged(g, move).events = Append(g.events, [move |-> move, after |-> After(g)])
BY DEF Logged, GameFields, SameButLog

\* So does the log of what a player drew.
LEMMA PrivateKeeps ==
    ASSUME NEW g, DOMAIN g = GameFields, NEW move, NEW seat, NEW removed, NEW drawn
    PROVE  LET h == LoggedPrivate(Logged(g, move), seat, removed, drawn)
           IN /\ SameButLog(g, h)
              /\ h.events = Append(g.events, [move |-> move, after |-> After(g)])
<1>1. PICK l : l = Logged(g, move)
    OBVIOUS
<1>2. SameButLog(g, l) /\ l.events = Append(g.events, [move |-> move, after |-> After(g)])
    BY <1>1, LoggedKeeps
<1>3. PICK h : h = LoggedPrivate(l, seat, removed, drawn)
    OBVIOUS
<1>4. SameButLog(l, h) /\ h.events = l.events
    BY <1>2, <1>3 DEF LoggedPrivate, GameFields, SameButLog
<1>5. SameButLog(g, h)
    BY <1>2, <1>4 DEF SameButLog
<1> QED BY <1>1, <1>2, <1>3, <1>4, <1>5

\* There is a winner among the seats, or none.
LEMMA WinnerIsASeat ==
    ASSUME NEW scores, NEW race \in SUBSET EngineSeats
    PROVE  unique_winner(scores, race) \in 0..Players
<1> DEFINE best == { s \in race : \A t \in race : scores[s] >= scores[t] }
<1>1. CASE Cardinality(best) = 1
    <2>1. best /= {}
        BY <1>1, FS_EmptySet
    <2>2. (CHOOSE s \in best : TRUE) \in best
        BY <2>1
    <2>3. best \subseteq EngineSeats
        BY Zenon
    <2>4. EngineSeats \subseteq 0..Players
        BY EngineConstants DEF EngineSeats
    <2> QED BY <1>1, <2>2, <2>3, <2>4 DEF unique_winner
<1>2. CASE Cardinality(best) /= 1
    BY <1>2, EngineConstants DEF unique_winner
<1> QED BY <1>1, <1>2

\* What every move does to a game, besides its tiles: a turn is counted, the
\* move is logged, and a game that goes on is within the limit.
TurnEffect(g, h, seat, move) ==
    /\ DOMAIN h = GameFields /\ h.version = g.version + 1
    /\ \E after : h.events = Append(g.events, [move |-> move, after |-> after])
    /\ h.current \in {g.current, NextSeat(seat)}
    /\ h.scoreless \in {0, g.scoreless, g.scoreless + 1}
    /\ h.phase \in {g.phase, "finished"}
    /\ h.phase = "finished" \/ ~(h.scoreless >= ScorelessTurnLimit)
    /\ h.winner \in {g.winner} \cup 0..Players

TilesOf(h, bag, racks, board) == h.bag = bag /\ h.racks = racks /\ h.board = board

\* The scores after the rack deductions.
Settled(scores, racks, reason, seat) ==
    [s \in EngineSeats |->
        CASE reason = "resignation" -> scores[s]
          [] reason = "rack_emptied" /\ s = seat ->
                scores[s] + SumFunctionOnSet([t \in EngineSeats |-> RackValue(racks[t])],
                                             EngineSeats \ {s})
          [] OTHER -> scores[s] - RackValue(racks[s])]

\* The move brought the scores to these, and the end of the game settled them.
ScoresFollow(g, h, scores, seat) ==
    \/ h.scores = scores /\ h.reason = g.reason
    \/ /\ h.phase = "finished" /\ h.reason \in {"resignation", "scoreless", "rack_emptied"}
       /\ h.scores = Settled(scores, h.racks, h.reason, seat)
       /\ h.reason = "rack_emptied" => h.racks[seat] = <<>>

\* The game goes on, or it ends for one of the reasons.
IsEnded(done, next, seat) ==
    \/ done = next /\ ~(next.scoreless >= ScorelessTurnLimit)
    \/ \E reason \in {"resignation", "scoreless", "rack_emptied"} :
        /\ done = complete_state(next, reason, seat)
        /\ reason = "rack_emptied" => next.racks[seat] = <<>>

\* A game with the move made, ended or not, and logged.
LEMMA MoveIsLogged ==
    ASSUME NEW g, NEW seat, NEW move, NEW bag, NEW racks, NEW board,
           NEW next, DOMAIN next = GameFields, next.version = g.version + 1,
           next.events = g.events, next.current \in {g.current, NextSeat(seat)},
           next.scoreless \in {0, g.scoreless, g.scoreless + 1}, next.phase = g.phase,
           next.winner = g.winner, TilesOf(next, bag, racks, board),
           NEW scores, next.scores = scores, next.reason = g.reason,
           NEW done, IsEnded(done, next, seat),
           NEW h, SameButLog(done, h),
           h.events = Append(done.events, [move |-> move, after |-> After(done)])
    PROVE  TurnEffect(g, h, seat, move) /\ TilesOf(h, bag, racks, board)
           /\ ScoresFollow(g, h, scores, seat)
<1>1. CASE done = next /\ ~(next.scoreless >= ScorelessTurnLimit)
    BY <1>1 DEF SameButLog, TurnEffect, TilesOf, ScoresFollow
<1>2. CASE \E reason \in {"resignation", "scoreless", "rack_emptied"} :
                /\ done = complete_state(next, reason, seat)
                /\ reason = "rack_emptied" => next.racks[seat] = <<>>
    <2>1. PICK reason \in {"resignation", "scoreless", "rack_emptied"} :
                /\ done = complete_state(next, reason, seat)
                /\ reason = "rack_emptied" => next.racks[seat] = <<>>
        BY <1>2
    <2>2. /\ done.bag = next.bag /\ done.racks = next.racks /\ done.board = next.board
          /\ done.current = next.current /\ done.version = next.version
          /\ done.scoreless = next.scoreless /\ done.events = next.events /\ done.phase = "finished"
        BY <2>1, CompleteKeeps
    <2>3. done.winner \in 0..Players
        <3>1. \E points, race : race \in SUBSET EngineSeats /\ done.winner = unique_winner(points, race)
            BY <2>1 DEF complete_state, GameFields
        <3> QED BY <3>1, WinnerIsASeat
    <2>4. ScoresFollow(g, h, scores, seat)
        <3>1. done.reason = reason /\ done.scores = FinalScores(next, reason, seat)
            BY <2>1, CompleteKeeps
        <3>2. FinalScores(next, reason, seat) = Settled(next.scores, next.racks, reason, seat)
            BY Zenon DEF FinalScores, Settled
        <3>3. h.racks = racks /\ next.racks = racks /\ h.reason = reason /\ h.phase = "finished"
            BY <2>2, <3>1 DEF SameButLog, TilesOf
        <3>4. h.scores = Settled(scores, h.racks, h.reason, seat)
            BY <3>1, <3>2, <3>3 DEF SameButLog
        <3> QED BY <2>1, <3>3, <3>4 DEF ScoresFollow
    <2> QED BY <2>2, <2>3, <2>4 DEF SameButLog, TurnEffect, TilesOf
<1> QED BY <1>1, <1>2 DEF IsEnded

\* A placement fills the board and the rack.
LEMMA PlayEffect ==
    ASSUME NEW g, DOMAIN g = GameFields, NEW seat, NEW ps
    PROVE  LET kept == Without(g.racks[seat], { p.tile : p \in ps })
               b == Proposed(g.board, ps)
           IN /\ TurnEffect(g, play_tiles(g, seat, ps), seat,
                            [kind |-> "played", seat |-> seat, placed |-> ps, score |-> MoveScore(b, ps)])
              /\ TilesOf(play_tiles(g, seat, ps), LeftAfter(g.bag, RackCapacity - Len(kept)),
                     [g.racks EXCEPT ![seat] = kept \o Drawn(g.bag, RackCapacity - Len(kept))], b)
              /\ ScoresFollow(g, play_tiles(g, seat, ps),
                              [g.scores EXCEPT ![seat] = @ + MoveScore(b, ps)], seat)
<1> DEFINE b == Proposed(g.board, ps)
           score == MoveScore(b, ps)
           removed == { p.tile : p \in ps }
           kept == Without(g.racks[seat], removed)
           drawn == Drawn(g.bag, RackCapacity - Len(kept))
           left == LeftAfter(g.bag, RackCapacity - Len(kept))
           racks == [g.racks EXCEPT ![seat] = kept \o drawn]
           scores == [g.scores EXCEPT ![seat] = @ + score]
           move == [kind |-> "played", seat |-> seat, placed |-> ps, score |-> score]
           next == [g EXCEPT !.board = b, !.bag = left,
                          !.racks[seat] = kept \o drawn, !.scores[seat] = @ + score,
                          !.current = NextSeat(seat), !.version = @ + 1,
                          !.scoreless = IF score = 0 THEN @ + 1 ELSE 0]
           done == Completed(next, seat)
           h == play_tiles(g, seat, ps)
<1>1. h = LoggedPrivate(Logged(done, move), seat, removed, drawn)
    BY Zenon DEF play_tiles
<1> HIDE DEF b, score, kept, drawn, left, move, removed
<1>2. /\ DOMAIN next = GameFields /\ TilesOf(next, left, racks, b)
      /\ next.version = g.version + 1 /\ next.current = NextSeat(seat) /\ next.events = g.events
      /\ next.scoreless \in {0, g.scoreless, g.scoreless + 1} /\ next.phase = g.phase
      /\ next.winner = g.winner /\ next.scores = scores /\ next.reason = g.reason
    BY DEF GameFields, TilesOf
<1> HIDE DEF next, racks, scores
<1>3. \/ done = next /\ ~(next.scoreless >= ScorelessTurnLimit)
      \/ done = complete_state(next, "rack_emptied", seat) /\ next.racks[seat] = <<>>
      \/ done = complete_state(next, "scoreless", seat)
    BY DEF Completed
<1>4. DOMAIN done = GameFields
    BY <1>2, <1>3, CompleteKeeps
<1> HIDE DEF done, h
<1>5. /\ SameButLog(done, h)
      /\ h.events = Append(done.events, [move |-> move, after |-> After(done)])
    BY <1>1, <1>4, PrivateKeeps
<1>6. TurnEffect(g, h, seat, move) /\ TilesOf(h, left, racks, b) /\ ScoresFollow(g, h, scores, seat)
    <2>1. IsEnded(done, next, seat)
        BY <1>3 DEF IsEnded
    <2> QED BY <1>2, <1>5, <2>1, MoveIsLogged
<1> QED BY <1>6, Zenon DEF h, b, score, kept, drawn, left, move, removed, racks, scores

\* A pass moves no tile.
LEMMA PassEffect ==
    ASSUME NEW g, DOMAIN g = GameFields, NEW seat
    PROVE  /\ TurnEffect(g, pass(g, seat), seat, [kind |-> "passed", seat |-> seat])
           /\ TilesOf(pass(g, seat), g.bag, g.racks, g.board)
           /\ ScoresFollow(g, pass(g, seat), g.scores, seat)
<1> DEFINE next == [g EXCEPT !.current = NextSeat(seat), !.version = @ + 1, !.scoreless = @ + 1]
           done == IF next.scoreless >= ScorelessTurnLimit
                   THEN complete_state(next, "scoreless", seat) ELSE next
           move == [kind |-> "passed", seat |-> seat]
           h == pass(g, seat)
<1>1. h = Logged(done, move)
    BY Zenon DEF pass
<1>2. /\ DOMAIN next = GameFields /\ TilesOf(next, g.bag, g.racks, g.board)
      /\ next.version = g.version + 1 /\ next.current = NextSeat(seat) /\ next.events = g.events
      /\ next.scoreless \in {0, g.scoreless, g.scoreless + 1} /\ next.phase = g.phase
      /\ next.winner = g.winner /\ next.scores = g.scores /\ next.reason = g.reason
    BY DEF GameFields, TilesOf
<1> HIDE DEF next, move
<1>3. \/ done = next /\ ~(next.scoreless >= ScorelessTurnLimit)
      \/ done = complete_state(next, "scoreless", seat)
    OBVIOUS
<1>4. DOMAIN done = GameFields
    BY <1>2, <1>3, CompleteKeeps
<1> HIDE DEF done, h
<1>5. /\ SameButLog(done, h)
      /\ h.events = Append(done.events, [move |-> move, after |-> After(done)])
    BY <1>1, <1>4, LoggedKeeps
<1>6. TurnEffect(g, h, seat, move) /\ TilesOf(h, g.bag, g.racks, g.board) /\ ScoresFollow(g, h, g.scores, seat)
    <2>1. IsEnded(done, next, seat)
        BY <1>3 DEF IsEnded
    <2> QED BY <1>2, <1>5, <2>1, MoveIsLogged
<1> QED BY <1>6, Zenon DEF h, move

\* A resignation neither.
LEMMA ResignEffect ==
    ASSUME NEW g, DOMAIN g = GameFields, NEW seat
    PROVE  /\ TurnEffect(g, resign_game(g, seat), seat, [kind |-> "resigned", seat |-> seat])
           /\ TilesOf(resign_game(g, seat), g.bag, g.racks, g.board)
           /\ ScoresFollow(g, resign_game(g, seat), g.scores, seat)
<1> DEFINE next == [g EXCEPT !.version = @ + 1]
           done == complete_state(next, "resignation", seat)
           move == [kind |-> "resigned", seat |-> seat]
           h == resign_game(g, seat)
<1>1. h = Logged(done, move)
    BY Zenon DEF resign_game
<1>2. /\ DOMAIN next = GameFields /\ TilesOf(next, g.bag, g.racks, g.board)
      /\ next.version = g.version + 1 /\ next.current = g.current /\ next.events = g.events
      /\ next.scoreless \in {0, g.scoreless, g.scoreless + 1} /\ next.phase = g.phase
      /\ next.winner = g.winner /\ next.scores = g.scores /\ next.reason = g.reason
    BY DEF GameFields, TilesOf
<1> HIDE DEF next, move
<1>4. DOMAIN done = GameFields
    BY <1>2, CompleteKeeps
<1>3. done = complete_state(next, "resignation", seat)
    BY Zenon
<1> HIDE DEF done, h
<1>5. /\ SameButLog(done, h)
      /\ h.events = Append(done.events, [move |-> move, after |-> After(done)])
    BY <1>1, <1>4, LoggedKeeps
<1>6. TurnEffect(g, h, seat, move) /\ TilesOf(h, g.bag, g.racks, g.board) /\ ScoresFollow(g, h, g.scores, seat)
    <2>1. IsEnded(done, next, seat)
        BY <1>3 DEF IsEnded
    <2> QED BY <1>2, <1>5, <2>1, MoveIsLogged
<1> QED BY <1>6, Zenon DEF h, move

\* An exchange moves tiles between the rack and the bag.
LEMMA ExchangeEffect ==
    ASSUME NEW g, DOMAIN g = GameFields, NEW s, NEW seat, NEW tiles
    PROVE  LET h == exchange_tiles(g, s, seat, tiles)
           IN /\ TurnEffect(g, h, seat,
                            [kind |-> "exchanged", seat |-> seat, tiles |-> Ascending(ToSet(tiles))])
              /\ TilesOf(h, return_tiles_to_bag(LeftAfter(g.bag, Len(tiles)), tiles, s + g.version + 1),
                     [g.racks EXCEPT ![seat] = Without(@, ToSet(tiles)) \o Drawn(g.bag, Len(tiles))],
                     g.board)
              /\ ScoresFollow(g, h, g.scores, seat)
<1> DEFINE drawn == Drawn(g.bag, Len(tiles))
           removed == ToSet(tiles)
           bag == return_tiles_to_bag(LeftAfter(g.bag, Len(tiles)), tiles, s + g.version + 1)
           racks == [g.racks EXCEPT ![seat] = Without(@, removed) \o drawn]
           next == [g EXCEPT !.bag = bag, !.racks[seat] = Without(@, removed) \o drawn,
                             !.current = NextSeat(seat), !.version = @ + 1, !.scoreless = @ + 1]
           done == IF next.scoreless >= ScorelessTurnLimit
                   THEN complete_state(next, "scoreless", seat) ELSE next
           move == [kind |-> "exchanged", seat |-> seat, tiles |-> Ascending(removed)]
           h == exchange_tiles(g, s, seat, tiles)
<1>1. h = LoggedPrivate(Logged(done, move), seat, removed, drawn)
    BY Zenon DEF exchange_tiles
<1> HIDE DEF drawn, removed, bag, move
<1>2. /\ DOMAIN next = GameFields /\ TilesOf(next, bag, racks, g.board)
      /\ next.version = g.version + 1 /\ next.current = NextSeat(seat) /\ next.events = g.events
      /\ next.scoreless \in {0, g.scoreless, g.scoreless + 1} /\ next.phase = g.phase
      /\ next.winner = g.winner /\ next.scores = g.scores /\ next.reason = g.reason
    BY DEF GameFields, TilesOf
<1> HIDE DEF next, racks
<1>3. \/ done = next /\ ~(next.scoreless >= ScorelessTurnLimit)
      \/ done = complete_state(next, "scoreless", seat)
    OBVIOUS
<1>4. DOMAIN done = GameFields
    BY <1>2, <1>3, CompleteKeeps
<1> HIDE DEF done, h
<1>5. /\ SameButLog(done, h)
      /\ h.events = Append(done.events, [move |-> move, after |-> After(done)])
    BY <1>1, <1>4, PrivateKeeps
<1>6. TurnEffect(g, h, seat, move) /\ TilesOf(h, bag, racks, g.board) /\ ScoresFollow(g, h, g.scores, seat)
    <2>1. IsEnded(done, next, seat)
        BY <1>3 DEF IsEnded
    <2> QED BY <1>2, <1>5, <2>1, MoveIsLogged
<1> QED BY <1>6, Zenon DEF h, drawn, removed, bag, move, racks

-----------------------------------------------------------------------------
(* The referee: the log tells the game *)

\* A sequence that lists each tile of a set once is as long as the sorted one.
LEMMA SortedIsAsLong ==
    ASSUME NEW chosen \in SUBSET Tiles, NEW tiles \in SetToSeqs(chosen)
    PROVE  /\ ToSet(tiles) = chosen /\ IsFiniteSet(chosen) /\ chosen \in SUBSET Nat
           /\ tiles \in Seq(Tiles) /\ IsInjective(tiles) /\ Len(tiles) = Cardinality(chosen)
           /\ ToSet(Ascending(chosen)) = chosen /\ Len(Ascending(chosen)) = Len(tiles)
<1>1. IsFiniteSet(chosen) /\ chosen \in SUBSET Nat
    <2>1. IsFiniteSet(Tiles) /\ Tiles \subseteq Nat
        BY EngineConstants, FS_Interval
    <2> QED BY <2>1, FS_Subset
<1>2. Cardinality(chosen) \in Nat
    BY <1>1, FS_CardinalityType
<1>3. /\ tiles \in [1..Cardinality(chosen) -> chosen]
      /\ \A i, j \in 1..Cardinality(chosen) : i # j => tiles[i] # tiles[j]
    BY Zenon DEF SetToSeqs
<1>4. tiles \in Seq(Tiles) /\ Len(tiles) = Cardinality(chosen) /\ DOMAIN tiles = 1..Cardinality(chosen)
    BY <1>2, <1>3
<1>5. IsInjective(tiles)
    BY <1>3, <1>4, Zenon DEF IsInjective
<1>6. ToSet(tiles) = chosen
    <2>1. tiles \in Injection(1..Cardinality(chosen), chosen)
        BY <1>3, <1>5, Zenon DEF Injection
    <2>2. IsFiniteSet(1..Cardinality(chosen)) /\ Cardinality(1..Cardinality(chosen)) = Cardinality(chosen)
        BY <1>2, FS_Interval
    <2>3. tiles \in Surjection(1..Cardinality(chosen), chosen)
        BY <1>1, <2>1, <2>2, FS_Injection
    <2>4. \A x \in chosen : \E i \in 1..Cardinality(chosen) : tiles[i] = x
        BY <2>3, Zenon DEF Surjection
    <2> QED BY <1>3, <1>4, <2>4 DEF ToSet
<1>7. ToSet(Ascending(chosen)) = chosen /\ Len(Ascending(chosen)) = Cardinality(chosen)
    BY <1>1, AscendingIsSorted
<1> QED BY <1>1, <1>4, <1>5, <1>6, <1>7

\* The exchange of a set of tiles for drawn ones, with the bag after it.
ExchangedFor(g, seat, removed, drawn, bag) ==
    LET next == [g EXCEPT !.bag = bag, !.racks[seat] = Without(@, removed) \o drawn,
                          !.current = NextSeat(seat), !.version = @ + 1, !.scoreless = @ + 1]
    IN LoggedPrivate(Logged(IF next.scoreless >= ScorelessTurnLimit
                            THEN complete_state(next, "scoreless", seat) ELSE next,
                            [kind |-> "exchanged", seat |-> seat, tiles |-> Ascending(removed)]),
                     seat, removed, drawn)

\* An exchange does not depend on the order in which its tiles are named.
LEMMA ExchangeIgnoresOrder ==
    ASSUME NEW g, NEW s, NEW seat, NEW chosen \in SUBSET Tiles, NEW tiles \in SetToSeqs(chosen)
    PROVE  exchange_tiles(g, s, seat, Ascending(ToSet(tiles))) = exchange_tiles(g, s, seat, tiles)
<1>1. PICK sorted : sorted = Ascending(ToSet(tiles))
    OBVIOUS
<1>2. Len(sorted) = Len(tiles) /\ ToSet(sorted) = ToSet(tiles)
    BY <1>1, SortedIsAsLong
<1>3. \A bag, stream : return_tiles_to_bag(bag, sorted, stream) = return_tiles_to_bag(bag, tiles, stream)
    BY <1>2 DEF return_tiles_to_bag
<1>4. \A t : exchange_tiles(g, s, seat, t) =
            ExchangedFor(g, seat, ToSet(t), Drawn(g.bag, Len(t)),
                         return_tiles_to_bag(LeftAfter(g.bag, Len(t)), t, s + g.version + 1))
    BY Zenon DEF exchange_tiles, ExchangedFor
<1>5. exchange_tiles(g, s, seat, sorted) = exchange_tiles(g, s, seat, tiles)
    BY <1>2, <1>3, <1>4
<1> QED BY <1>1, <1>5

\* The game is a record, and its log a sequence that replays to it.
ReplayInv ==
    /\ DOMAIN game = GameFields
    /\ \E S : game.events \in Seq(S)
    /\ ReplayReproduces

\* A move of the game that its event repeats.
IsMove(h) ==
    \/ \E seat, ps : h = play_tiles(game, seat, ps)
    \/ \E seat : h = pass(game, seat)
    \/ \E seat : h = resign_game(game, seat)
    \/ \E seat : \E chosen \in SUBSET Tiles : \E tiles \in SetToSeqs(chosen) :
        h = exchange_tiles(game, seed, seat, tiles)

\* Every move is the one its own event repeats.
LEMMA EventRepeatsMove ==
    ASSUME DOMAIN game = GameFields, NEW h, IsMove(h)
    PROVE  /\ DOMAIN h = GameFields
           /\ \E e : h.events = Append(game.events, e) /\ ReplayMove(game, seed, e) = h
<1>1. CASE \E seat, ps : h = play_tiles(game, seat, ps)
    <2>1. PICK seat, ps : h = play_tiles(game, seat, ps)
        BY <1>1
    <2>6. PICK score :
            TurnEffect(game, h, seat, [kind |-> "played", seat |-> seat, placed |-> ps, score |-> score])
        BY <2>1, PlayEffect, Zenon
    <2>2. PICK after : h.events = Append(game.events,
            [move |-> [kind |-> "played", seat |-> seat, placed |-> ps, score |-> score], after |-> after])
        BY <2>6, Zenon DEF TurnEffect
    <2>3. DOMAIN h = GameFields
        BY <2>6, Zenon DEF TurnEffect
    <2> DEFINE e == [move |-> [kind |-> "played", seat |-> seat, placed |-> ps, score |-> score],
                     after |-> after]
    <2>4. e.move.kind = "played" /\ e.move.seat = seat /\ e.move.placed = ps
        OBVIOUS
    <2> HIDE DEF e
    <2>5. ReplayMove(game, seed, e) = h
        BY <2>1, <2>4 DEF ReplayMove
    <2> QED BY <2>2, <2>3, <2>5 DEF e
<1>2. CASE \E seat : h = pass(game, seat)
    <2>1. PICK seat : h = pass(game, seat)
        BY <1>2
    <2>2. PICK after : h.events = Append(game.events,
            [move |-> [kind |-> "passed", seat |-> seat], after |-> after])
        BY <2>1, PassEffect DEF TurnEffect
    <2>3. DOMAIN h = GameFields
        BY <2>1, PassEffect DEF TurnEffect
    <2> DEFINE e == [move |-> [kind |-> "passed", seat |-> seat], after |-> after]
    <2>4. e.move.kind = "passed" /\ e.move.seat = seat
        OBVIOUS
    <2> HIDE DEF e
    <2>5. ReplayMove(game, seed, e) = h
        BY <2>1, <2>4 DEF ReplayMove
    <2> QED BY <2>2, <2>3, <2>5 DEF e
<1>3. CASE \E seat : h = resign_game(game, seat)
    <2>1. PICK seat : h = resign_game(game, seat)
        BY <1>3
    <2>2. PICK after : h.events = Append(game.events,
            [move |-> [kind |-> "resigned", seat |-> seat], after |-> after])
        BY <2>1, ResignEffect DEF TurnEffect
    <2>3. DOMAIN h = GameFields
        BY <2>1, ResignEffect DEF TurnEffect
    <2> DEFINE e == [move |-> [kind |-> "resigned", seat |-> seat], after |-> after]
    <2>4. e.move.kind = "resigned" /\ e.move.seat = seat
        OBVIOUS
    <2> HIDE DEF e
    <2>5. ReplayMove(game, seed, e) = h
        BY <2>1, <2>4 DEF ReplayMove
    <2> QED BY <2>2, <2>3, <2>5 DEF e
<1>4. CASE \E seat : \E chosen \in SUBSET Tiles : \E tiles \in SetToSeqs(chosen) :
        h = exchange_tiles(game, seed, seat, tiles)
    <2>7. PICK seat : \E chosen \in SUBSET Tiles : \E tiles \in SetToSeqs(chosen) :
            h = exchange_tiles(game, seed, seat, tiles)
        BY <1>4, Zenon
    <2>8. PICK chosen \in SUBSET Tiles : \E tiles \in SetToSeqs(chosen) :
            h = exchange_tiles(game, seed, seat, tiles)
        BY <2>7, Zenon
    <2>1. PICK tiles \in SetToSeqs(chosen) : h = exchange_tiles(game, seed, seat, tiles)
        BY <2>8, Zenon
    <2> DEFINE sorted == Ascending(ToSet(tiles))
    <2>9. TurnEffect(game, h, seat, [kind |-> "exchanged", seat |-> seat, tiles |-> sorted])
        BY <2>1, ExchangeEffect, Zenon
    <2>2. PICK after : h.events = Append(game.events,
            [move |-> [kind |-> "exchanged", seat |-> seat, tiles |-> sorted], after |-> after])
        BY <2>9, Zenon DEF TurnEffect
    <2>3. DOMAIN h = GameFields
        BY <2>9, Zenon DEF TurnEffect
    <2> DEFINE e == [move |-> [kind |-> "exchanged", seat |-> seat, tiles |-> sorted], after |-> after]
    <2>4. e.move.kind = "exchanged" /\ e.move.seat = seat /\ e.move.tiles = sorted
        OBVIOUS
    <2>6. exchange_tiles(game, seed, seat, sorted) = h
        BY <2>1, ExchangeIgnoresOrder, Zenon
    <2> HIDE DEF e, sorted
    <2>5. ReplayMove(game, seed, e) = h
        BY <2>4, <2>6 DEF ReplayMove
    <2> QED BY <2>2, <2>3, <2>5 DEF e
<1> QED BY <1>1, <1>2, <1>3, <1>4 DEF IsMove

\* Every step makes a move or is refused.
LEMMA StepIsMove ==
    ASSUME EngineNext
    PROVE  /\ seed' = seed /\ game.phase = "active"
           /\ game' = game \/ (IsMove(game') /\ Conserved(game'))
<1>1. ASSUME NEW next, Commit(next), IsMove(next)
      PROVE  /\ seed' = seed /\ game.phase = "active"
             /\ game' = game \/ (IsMove(game') /\ Conserved(game'))
    <2>1. seed' = seed /\ game.phase = "active" /\ (game' = game \/ (game' = next /\ Conserved(next)))
        BY <1>1, Zenon DEF Commit
    <2>2. CASE game' = game
        BY <2>1, <2>2
    <2>3. CASE game' = next /\ Conserved(next)
        <3>1. IsMove(game') /\ Conserved(game')
            BY <1>1, <2>3, Zenon
        <3> QED BY <2>1, <3>1
    <2> QED BY <2>1, <2>2, <2>3
<1>2. CASE PlayTiles
    <2>1. PICK ps : Commit(play_tiles(game, game.current, ps))
        BY <1>2, Zenon DEF PlayTiles
    <2>2. IsMove(play_tiles(game, game.current, ps))
        BY Zenon DEF IsMove
    <2> QED BY <1>1, <2>1, <2>2
<1>3. CASE Pass
    <2>1. IsMove(pass(game, game.current))
        BY Zenon DEF IsMove
    <2> QED BY <1>1, <1>3, <2>1 DEF Pass
<1>4. CASE ExchangeTiles
    <2>1. PICK chosen \in SUBSET Tiles : \E tiles \in SetToSeqs(chosen) :
            Commit(exchange_tiles(game, seed, game.current, tiles))
        BY <1>4, Zenon DEF ExchangeTiles
    <2>2. PICK tiles \in SetToSeqs(chosen) : Commit(exchange_tiles(game, seed, game.current, tiles))
        BY <2>1, Zenon
    <2>3. IsMove(exchange_tiles(game, seed, game.current, tiles))
        BY Zenon DEF IsMove
    <2> QED BY <1>1, <2>2, <2>3
<1>5. CASE Resign
    <2>1. IsMove(resign_game(game, game.current))
        BY Zenon DEF IsMove
    <2> QED BY <1>1, <1>5, <2>1 DEF Resign
<1> QED BY <1>2, <1>3, <1>4, <1>5 DEF EngineNext

\* ReplayReproduces: whatever is played, and in whatever order the tiles of an
\* exchange are named, replaying the log from the seed gives the same game,
\* racks, bag, scores and log included, at every version.
THEOREM ReplayIsFaithful == EngineSpec => []ReplayReproduces
<1>1. EngineInit => ReplayInv
    <2> SUFFICES ASSUME EngineInit
                 PROVE  ReplayInv
        OBVIOUS
    <2>1. game = Create(seed)
        BY DEF EngineInit
    <2>2. DOMAIN game = GameFields /\ game.events = <<>>
        BY <2>1 DEF Create, GameFields
    <2>3. game.events \in Seq({}) /\ Len(game.events) = 0
        BY <2>2
    <2>4. PICK f : ReplaysTo(f, seed, game.events, 0) /\ replay(seed, game.events) = f[0]
        BY <2>3, ReplayIs
    <2>5. f[0] = Create(seed)
        BY <2>4 DEF ReplaysTo
    <2> QED BY <2>1, <2>2, <2>3, <2>4, <2>5 DEF ReplayInv, ReplayReproduces
<1>2. ReplayInv /\ [EngineNext]_engineVars => ReplayInv'
    <2> SUFFICES ASSUME ReplayInv, [EngineNext]_engineVars
                 PROVE  ReplayInv'
        OBVIOUS
    <2>1. CASE game' = game /\ seed' = seed
        BY <2>1 DEF ReplayInv, ReplayReproduces
    <2>2. CASE EngineNext /\ game' /= game
        <3>1. seed' = seed /\ IsMove(game')
            BY <2>2, StepIsMove
        <3>2. PICK e : game'.events = Append(game.events, e) /\ ReplayMove(game, seed, e) = game'
            BY <3>1, EventRepeatsMove DEF ReplayInv
        <3>3. DOMAIN game' = GameFields
            BY <3>1, EventRepeatsMove DEF ReplayInv
        <3>4. PICK S : game.events \in Seq(S)
            BY DEF ReplayInv
        <3>5. game.events \in Seq(S \cup {e}) /\ e \in S \cup {e}
            BY <3>4
        <3>6. game'.events \in Seq(S \cup {e})
            BY <3>2, <3>5
        <3>7. replay(seed, game'.events) = ReplayMove(replay(seed, game.events), seed, e)
            BY <3>2, <3>5, ReplayOneMore
        <3>8. replay(seed, game.events) = game
            BY DEF ReplayInv, ReplayReproduces
        <3> QED BY <3>1, <3>2, <3>3, <3>6, <3>7, <3>8 DEF ReplayInv, ReplayReproduces
    <2>3. EngineNext => seed' = seed
        BY StepIsMove
    <2> QED BY <2>1, <2>2, <2>3 DEF engineVars
<1>3. ReplayInv => ReplayReproduces
    BY DEF ReplayInv
<1> QED BY <1>1, <1>2, <1>3, PTL DEF EngineSpec

-----------------------------------------------------------------------------
(* The referee: squares, runs and words *)

\* The numbers of a square.
LEMMA SquareNumbers ==
    ASSUME NEW c \in Coordinates
    PROVE  c[1] \in Int /\ c[2] \in Int /\ c = <<c[1], c[2]>>
BY EngineConstants DEF Coordinates

\* What lies between two squares lies there seen from both ends, and so does
\* what lies between one of them and a square in between.
LEMMA BetweenFacts ==
    ASSUME NEW c \in Coordinates, NEW d \in Coordinates
    PROVE  /\ Between(c, d) = Between(d, c) /\ c \in Between(c, d) /\ d \in Between(c, d)
           /\ Between(c, d) \subseteq Coordinates
           /\ \A e \in Between(c, d) : Between(c, e) \subseteq Between(c, d)
           /\ \A line \in Lines : c[line] = d[line] => \A e \in Between(c, d) : e[line] = c[line]
<1>0. c[1] \in Int /\ c[2] \in Int /\ d[1] \in Int /\ d[2] \in Int
    BY SquareNumbers
<1>1. Between(c, d) = Between(d, c) /\ c \in Between(c, d) /\ d \in Between(c, d)
    BY <1>0 DEF Between
<1>2. ASSUME NEW e \in Between(c, d)
      PROVE  Between(c, e) \subseteq Between(c, d)
    <2>1. e[1] \in Int /\ e[2] \in Int
        BY SquareNumbers DEF Between
    <2> QED BY <1>0, <1>2, <2>1 DEF Between
<1>3. ASSUME NEW line \in Lines, c[line] = d[line], NEW e \in Between(c, d)
      PROVE  e[line] = c[line]
    <2>1. e[1] \in Int /\ e[2] \in Int
        BY SquareNumbers DEF Between
    <2>2. CASE line = 1
        BY <1>0, <1>3, <2>1, <2>2 DEF Between
    <2>3. CASE line = 2
        BY <1>0, <1>3, <2>1, <2>3 DEF Between
    <2> QED BY <2>2, <2>3 DEF Lines
<1>4. Between(c, d) \subseteq Coordinates
    BY DEF Between
<1> QED BY <1>1, <1>2, <1>3, <1>4

\* On one line, the way to a square leads over any other, or beside it.
LEMMA BetweenSplits ==
    ASSUME NEW c \in Coordinates, NEW d \in Coordinates, NEW x \in Coordinates, NEW line \in Lines,
           c[line] = d[line], d[line] = x[line]
    PROVE  Between(c, x) \subseteq Between(c, d) \cup Between(d, x)
<1>0. /\ c[1] \in Int /\ c[2] \in Int /\ d[1] \in Int /\ d[2] \in Int /\ x[1] \in Int /\ x[2] \in Int
      /\ \A e \in Between(c, x) : e[1] \in Int /\ e[2] \in Int
    BY SquareNumbers DEF Between
<1>2. CASE line = 1
    BY <1>0, <1>2 DEF Between
<1>3. CASE line = 2
    BY <1>0, <1>3 DEF Between
<1> QED BY <1>2, <1>3 DEF Lines

\* A run is the run of each of its squares.
LEMMA RunOfMember ==
    ASSUME NEW b, NEW c \in Coordinates, NEW line \in Lines, NEW d \in word_segment(b, c, line)
    PROVE  word_segment(b, d, line) = word_segment(b, c, line)
<1>1. d \in Coordinates /\ d[line] = c[line] /\ \A e \in Between(c, d) : b[e] /= NoTile
    BY DEF word_segment
<1>2. ASSUME NEW x \in word_segment(b, c, line)
      PROVE  x \in word_segment(b, d, line)
    <2>1. x \in Coordinates /\ x[line] = c[line] /\ \A e \in Between(c, x) : b[e] /= NoTile
        BY DEF word_segment
    <2>2. Between(d, x) \subseteq Between(d, c) \cup Between(c, x) /\ Between(d, c) = Between(c, d)
        BY <1>1, <2>1, BetweenSplits, BetweenFacts
    <2> QED BY <1>1, <2>1, <2>2 DEF word_segment
<1>3. ASSUME NEW x \in word_segment(b, d, line)
      PROVE  x \in word_segment(b, c, line)
    <2>1. x \in Coordinates /\ x[line] = d[line] /\ \A e \in Between(d, x) : b[e] /= NoTile
        BY DEF word_segment
    <2>2. Between(c, x) \subseteq Between(c, d) \cup Between(d, x)
        BY <1>1, <2>1, BetweenSplits
    <2> QED BY <1>1, <2>1, <2>2 DEF word_segment
<1> QED BY <1>2, <1>3

\* A run that no new tile is part of was there before.
LEMMA RunIsOld ==
    ASSUME NEW b, NEW a, NEW c \in Coordinates, NEW line \in Lines,
           \A e \in Coordinates : b[e] /= NoTile => a[e] = b[e],
           \A e \in word_segment(a, c, line) : a[e] = b[e]
    PROVE  word_segment(a, c, line) = word_segment(b, c, line)
<1>1. ASSUME NEW x \in word_segment(b, c, line)
      PROVE  x \in word_segment(a, c, line)
    <2>1. x \in Coordinates /\ x[line] = c[line] /\ \A e \in Between(c, x) : b[e] /= NoTile
        BY DEF word_segment
    <2>2. Between(c, x) \subseteq Coordinates
        BY <2>1, BetweenFacts
    <2> QED BY <2>1, <2>2 DEF word_segment
<1>2. ASSUME NEW x \in word_segment(a, c, line)
      PROVE  x \in word_segment(b, c, line)
    <2>1. x \in Coordinates /\ x[line] = c[line] /\ \A e \in Between(c, x) : a[e] /= NoTile
        BY DEF word_segment
    <2>2. ASSUME NEW e \in Between(c, x)
          PROVE  b[e] /= NoTile
        <3>1. e \in Coordinates /\ Between(c, e) \subseteq Between(c, x) /\ e[line] = c[line]
            BY <2>1, BetweenFacts
        <3>2. e \in word_segment(a, c, line)
            BY <2>1, <3>1 DEF word_segment
        <3> QED BY <2>1, <3>2
    <2> QED BY <2>1, <2>2 DEF word_segment
<1> QED BY <1>1, <1>2

\* The text of a run depends on its squares only.
LEMMA TextAgrees ==
    ASSUME NEW a, NEW b, NEW w, \A c \in w : a[c] = b[c]
    PROVE  WordText(a, w) = WordText(b, w)
<1> DEFINE first == CHOOSE c \in w : \A d \in w : c[1] + c[2] <= d[1] + d[2]
           place(c) == c[1] + c[2] - first[1] - first[2] + 1
           places == { place(c) : c \in w }
           of(i) == CHOOSE c \in w : place(c) = i
<1>1. \A i \in places : of(i) \in w
    BY Zenon
<1>2. \A i \in places : a[of(i)].letter = b[of(i)].letter
    BY <1>1, Zenon
<1>3. WordText(a, w) = [i \in places |-> a[of(i)].letter]
    BY Zenon DEF WordText
<1>4. WordText(b, w) = [i \in places |-> b[of(i)].letter]
    BY Zenon DEF WordText
<1> HIDE DEF places, of
<1> QED BY <1>2, <1>3, <1>4, Zenon

\* Every run of two or more tiles is a word.
WordsAreValid(b) ==
    \A c \in Coordinates, line \in Lines :
        b[c] /= NoTile =>
            (Cardinality(word_segment(b, c, line)) >= 2
                => WordText(b, word_segment(b, c, line)) \in Dictionary)

\* The squares a placement names.
IsPlacement(ps) == \A p \in ps : p.at \in Coordinates

\* The board with a placement: the squares it names are new, the others stay.
LEMMA ProposedFacts ==
    ASSUME NEW board, NEW ps, NEW c \in Coordinates
    PROVE  /\ (\A p \in ps : p.at /= c) => Proposed(board, ps)[c] = board[c]
           /\ (\A p \in ps : board[p.at] = NoTile) /\ board[c] /= NoTile
                => Proposed(board, ps)[c] = board[c]
BY DEF Proposed

\* A move validates the words it forms, and these are all the words that are
\* not on the board yet.
LEMMA PlacementKeepsWords ==
    ASSUME NEW g, NEW seat, NEW ps, IsPlacement(ps), LegalPlacement(g, seat, ps),
           WordsAreValid(g.board)
    PROVE  WordsAreValid(Proposed(g.board, ps))
<1> DEFINE b == g.board
           a == Proposed(g.board, ps)
<1>1. \A p \in ps : b[p.at] = NoTile
    BY DEF LegalPlacement, Owned
<1>2. \A w \in FormedWords(a, ps) : WordText(a, w) \in Dictionary
    BY Zenon DEF LegalPlacement
<1>3. \A c \in Coordinates : /\ (\A p \in ps : p.at /= c) => a[c] = b[c]
                             /\ b[c] /= NoTile => a[c] = b[c]
    BY <1>1, ProposedFacts
<1> HIDE DEF a, b
<1>4. ASSUME NEW c \in Coordinates, NEW line \in Lines, a[c] /= NoTile,
             Cardinality(word_segment(a, c, line)) >= 2
      PROVE  WordText(a, word_segment(a, c, line)) \in Dictionary
    <2> DEFINE w == word_segment(a, c, line)
    <2>1. CASE \E p \in ps : p.at \in w
        <3>1. PICK p \in ps : p.at \in w
            BY <2>1
        <3>2. word_segment(a, p.at, line) = w
            BY <3>1, RunOfMember
        <3>3. w \in FormedRuns(a, ps)
            BY <3>2 DEF FormedRuns
        <3>4. w \in FormedWords(a, ps)
            BY <1>4, <3>3, Zenon DEF FormedWords
        <3> QED BY <1>2, <3>4
    <2>2. CASE ~ \E p \in ps : p.at \in w
        <3>1. w \subseteq Coordinates /\ c \in Coordinates
            BY DEF word_segment
        <3>2. \A e \in w : a[e] = b[e]
            BY <1>3, <2>2, <3>1
        <3>3. w = word_segment(b, c, line)
            BY <1>3, <3>2, RunIsOld
        <3>4. c \in w
            <4>1. \A e \in Between(c, c) : e = c
                <5>1. c[1] \in Int /\ c[2] \in Int /\ c = <<c[1], c[2]>>
                    BY SquareNumbers
                <5>2. \A e \in Between(c, c) : e = <<e[1], e[2]>> /\ e[1] = c[1] /\ e[2] = c[2]
                    BY <5>1, SquareNumbers DEF Between
                <5> QED BY <5>1, <5>2
            <4> QED BY <1>4, <4>1 DEF word_segment
        <3>5. b[c] /= NoTile
            BY <1>4, <3>2, <3>4
        <3>6. WordText(b, w) \in Dictionary
            BY <1>4, <3>3, <3>5 DEF WordsAreValid, b
        <3> QED BY <3>2, <3>6, TextAgrees
    <2> QED BY <2>1, <2>2
<1> QED BY <1>4, Zenon DEF WordsAreValid, a

-----------------------------------------------------------------------------
(* The referee: the shape of the board *)

Occupied(b) == { c \in Coordinates : b[c] /= NoTile }

\* S keeps every occupied square that is next to one of its own.
IsClosed(S, b) == \A c \in Occupied(b) : Neighbors(c) \cap S /= {} => c \in S

HangsTogether(b) ==
    Occupied(b) /= {} =>
        /\ CENTER \in Occupied(b)
        /\ \A S \in SUBSET Occupied(b) : (CENTER \in S /\ IsClosed(S, b)) => S = Occupied(b)

Away(x, y) == IF x >= y THEN x - y ELSE y - x

\* The square before e on the way from p to it.
LEMMA StepTowards ==
    ASSUME NEW p \in Coordinates, NEW q \in Coordinates, NEW line \in Lines, p[line] = q[line],
           NEW e \in Between(p, q), e /= p
    PROVE  \E d \in Between(p, q) :
                /\ d \in Neighbors(e)
                /\ Away(d[1], p[1]) + Away(d[2], p[2]) < Away(e[1], p[1]) + Away(e[2], p[2])
<1>0. /\ p[1] \in 1..Size /\ p[2] \in 1..Size /\ q[1] \in 1..Size /\ q[2] \in 1..Size /\ Size \in Nat
      /\ e[1] \in 1..Size /\ e[2] \in 1..Size /\ e \in Coordinates /\ e[line] = p[line]
      /\ e = <<e[1], e[2]>> /\ p = <<p[1], p[2]>>
    BY BetweenFacts, EngineConstants DEF Between, Coordinates
<1>1. /\ e[1] \in p[1]..q[1] \cup q[1]..p[1]
      /\ e[2] \in p[2]..q[2] \cup q[2]..p[2]
    BY DEF Between
<1>2. CASE line = 1
    <2>1. e[1] = p[1] /\ q[1] = p[1] /\ e[2] /= p[2]
        BY <1>0, <1>2
    <2>2. PICK k \in 1..Size : /\ k \in p[2]..q[2] \cup q[2]..p[2] /\ Away(k, p[2]) < Away(e[2], p[2])
                               /\ (k = e[2] - 1 \/ k = e[2] + 1)
        <3>1. CASE e[2] > p[2]
            <4>1. e[2] - 1 \in 1..Size /\ e[2] - 1 \in p[2]..q[2] /\ Away(e[2] - 1, p[2]) < Away(e[2], p[2])
                BY <1>0, <1>1, <3>1 DEF Away
            <4> QED BY <4>1
        <3>2. CASE e[2] < p[2]
            <4>1. e[2] + 1 \in 1..Size /\ e[2] + 1 \in q[2]..p[2] /\ Away(e[2] + 1, p[2]) < Away(e[2], p[2])
                BY <1>0, <1>1, <3>2 DEF Away
            <4> QED BY <4>1
        <3> QED BY <1>0, <2>1, <3>1, <3>2
    <2>3. PICK d : d = <<e[1], k>>
        OBVIOUS
    <2>4. d \in Coordinates /\ d[1] = e[1] /\ d[2] = k
        BY <1>0, <2>3 DEF Coordinates
    <2>5. d \in Between(p, q)
        BY <1>0, <2>1, <2>2, <2>4 DEF Between
    <2>6. d \in Neighbors(e)
        <3>1. d[1] - e[1] = 0 /\ (d[2] - e[2] = 1 \/ d[2] - e[2] = -1)
            BY <1>0, <2>2, <2>4
        <3> QED BY <2>4, <3>1 DEF Neighbors
    <2>7. Away(d[1], p[1]) = Away(e[1], p[1]) /\ Away(e[1], p[1]) = 0
        BY <1>0, <2>1, <2>4 DEF Away
    <2>8. Away(d[1], p[1]) + Away(d[2], p[2]) < Away(e[1], p[1]) + Away(e[2], p[2])
        <3>1. Away(k, p[2]) \in Int /\ Away(e[2], p[2]) \in Int
            BY <1>0, <2>2 DEF Away
        <3> QED BY <2>2, <2>4, <2>7, <3>1
    <2> QED BY <2>5, <2>6, <2>8
<1>3. CASE line = 2
    <2>1. e[2] = p[2] /\ q[2] = p[2] /\ e[1] /= p[1]
        BY <1>0, <1>3
    <2>2. PICK k \in 1..Size : /\ k \in p[1]..q[1] \cup q[1]..p[1] /\ Away(k, p[1]) < Away(e[1], p[1])
                               /\ (k = e[1] - 1 \/ k = e[1] + 1)
        <3>1. CASE e[1] > p[1]
            <4>1. e[1] - 1 \in 1..Size /\ e[1] - 1 \in p[1]..q[1] /\ Away(e[1] - 1, p[1]) < Away(e[1], p[1])
                BY <1>0, <1>1, <3>1 DEF Away
            <4> QED BY <4>1
        <3>2. CASE e[1] < p[1]
            <4>1. e[1] + 1 \in 1..Size /\ e[1] + 1 \in q[1]..p[1] /\ Away(e[1] + 1, p[1]) < Away(e[1], p[1])
                BY <1>0, <1>1, <3>2 DEF Away
            <4> QED BY <4>1
        <3> QED BY <1>0, <2>1, <3>1, <3>2
    <2>3. PICK d : d = <<k, e[2]>>
        OBVIOUS
    <2>4. d \in Coordinates /\ d[1] = k /\ d[2] = e[2]
        BY <1>0, <2>3 DEF Coordinates
    <2>5. d \in Between(p, q)
        BY <1>0, <2>1, <2>2, <2>4 DEF Between
    <2>6. d \in Neighbors(e)
        <3>1. d[2] - e[2] = 0 /\ (d[1] - e[1] = 1 \/ d[1] - e[1] = -1)
            BY <1>0, <2>2, <2>4
        <3> QED BY <2>4, <3>1 DEF Neighbors
    <2>7. Away(d[2], p[2]) = Away(e[2], p[2]) /\ Away(e[2], p[2]) = 0
        BY <1>0, <2>1, <2>4 DEF Away
    <2>8. Away(d[1], p[1]) + Away(d[2], p[2]) < Away(e[1], p[1]) + Away(e[2], p[2])
        <3>1. Away(k, p[1]) \in Int /\ Away(e[1], p[1]) \in Int
            BY <1>0, <2>2 DEF Away
        <3> QED BY <2>2, <2>4, <2>7, <3>1
    <2> QED BY <2>5, <2>6, <2>8
<1> QED BY <1>2, <1>3 DEF Lines

\* A closed set holds the whole of a run it holds one end of.
LEMMA RunIsReached ==
    ASSUME NEW b, NEW S, IsClosed(S, b),
           NEW p \in Coordinates, NEW q \in Coordinates, NEW line \in Lines, p[line] = q[line],
           \A e \in Between(p, q) : b[e] /= NoTile, p \in S
    PROVE  q \in S
<1> SUFFICES ASSUME q \notin S
             PROVE  FALSE
    OBVIOUS
<1> DEFINE Far(e) == Away(e[1], p[1]) + Away(e[2], p[2])
           Bad == { n \in Nat : \E e \in Between(p, q) : e \notin S /\ n = Far(e) }
<1>0. \A e \in Between(p, q) : e \in Coordinates /\ Far(e) \in Nat
    <2>1. \A e \in Between(p, q) : e \in Coordinates
        BY DEF Between
    <2> QED BY <2>1, SquareNumbers DEF Away
<1>1. q \in Between(p, q)
    BY BetweenFacts
<1>2. PICK n \in Bad : \A m \in Bad : n <= m
    <2>1. Far(q) \in Bad
        BY <1>0, <1>1, Zenon
    <2>2. Bad \subseteq Nat
        OBVIOUS
    <2> HIDE DEF Bad
    <2> QED BY <2>1, <2>2, LeastExists
<1>3. PICK e \in Between(p, q) : e \notin S /\ n = Far(e)
    BY Zenon
<1> HIDE DEF Far
<1>4. PICK d \in Between(p, q) : d \in Neighbors(e) /\ Far(d) < Far(e)
    <2>1. e /= p
        BY <1>3
    <2> QED BY <2>1, StepTowards DEF Far
<1>5. d \in S
    <2>1. Far(d) \notin Bad
        <3>1. ~(Far(e) <= Far(d))
            BY <1>0, <1>4
        <3> QED BY <1>2, <1>3, <3>1
    <2> QED BY <1>0, <2>1
<1>6. e \in Occupied(b) /\ Neighbors(e) \cap S /= {}
    BY <1>0, <1>4, <1>5 DEF Occupied
<1> QED BY <1>3, <1>6 DEF IsClosed

\* A placement joins what is on the board, or covers the centre.
LEMMA PlacementHangsTogether ==
    ASSUME NEW g, NEW seat, NEW ps, IsPlacement(ps), LegalPlacement(g, seat, ps),
           HangsTogether(g.board)
    PROVE  HangsTogether(Proposed(g.board, ps))
<1> DEFINE b == g.board
           a == Proposed(g.board, ps)
<1>1. \A p \in ps : b[p.at] = NoTile
    BY DEF LegalPlacement, Owned
<1>2. \A c \in Coordinates : /\ (\A p \in ps : p.at /= c) => a[c] = b[c]
                             /\ b[c] /= NoTile => a[c] = b[c]
    BY <1>1, ProposedFacts
<1>3. PICK line \in Lines : SameLine(ps, line)
    BY DEF LegalPlacement, Aligned
<1>4. \A p, q \in ps : p.at[line] = q.at[line] /\ \A c \in Between(p.at, q.at) : a[c] /= NoTile
    BY <1>3, Zenon DEF LegalPlacement, Aligned, SameLine
<1>5. Connected(b, ps)
    BY Zenon DEF LegalPlacement
<1> HIDE DEF a, b
<1>6. /\ Occupied(b) \subseteq Occupied(a)
      /\ \A c \in Occupied(a) : c \in Occupied(b) \/ \E p \in ps : p.at = c
    BY <1>2 DEF Occupied
<1>7. \A p \in ps : p.at \in Coordinates /\ p.at \in Occupied(a)
    BY <1>4, BetweenFacts DEF IsPlacement, Occupied
<1>8. ASSUME NEW S, IsClosed(S, a), NEW p \in ps, p.at \in S, Occupied(b) \subseteq S
      PROVE  Occupied(a) \subseteq S
    <2>1. \A q \in ps : q.at \in S
        BY <1>4, <1>7, <1>8, RunIsReached
    <2> QED BY <1>6, <1>8, <2>1
<1>9. OnBoard(b) = {} <=> Occupied(b) = {}
    BY DEF OnBoard, Occupied
<1>10. CASE Occupied(b) = {}
    <2>1. PICK p \in ps : p.at = CENTER
        BY <1>5, <1>9, <1>10 DEF Connected
    <2>2. CENTER \in Occupied(a)
        BY <1>7, <2>1
    <2>3. ASSUME NEW S \in SUBSET Occupied(a), CENTER \in S, IsClosed(S, a)
          PROVE  S = Occupied(a)
        BY <1>8, <1>10, <2>1, <2>3
    <2> QED BY <2>2, <2>3, Zenon DEF HangsTogether, a
<1>11. CASE Occupied(b) /= {}
    <2>6. PICK p \in ps : \E c \in Neighbors(p.at) : b[c] /= NoTile
        BY <1>5, <1>9, <1>11, Zenon DEF Connected
    <2>1. PICK c \in Neighbors(p.at) : b[c] /= NoTile
        BY <2>6
    <2>2. c \in Occupied(b)
        BY <2>1 DEF Neighbors, Occupied
    <2>3. /\ CENTER \in Occupied(b)
          /\ \A T \in SUBSET Occupied(b) : (CENTER \in T /\ IsClosed(T, b)) => T = Occupied(b)
        BY <1>11, Zenon DEF HangsTogether, b
    <2>4. ASSUME NEW S \in SUBSET Occupied(a), CENTER \in S, IsClosed(S, a)
          PROVE  S = Occupied(a)
        <3>1. IsClosed(S \cap Occupied(b), b)
            BY <1>6, <2>4 DEF IsClosed
        <3>2. S \cap Occupied(b) = Occupied(b)
            BY <2>3, <2>4, <3>1
        <3>3. p.at \in S
            BY <1>7, <2>1, <2>2, <2>4, <3>2 DEF IsClosed
        <3> QED BY <1>8, <2>4, <3>2, <3>3
    <2>5. CENTER \in Occupied(a)
        BY <1>6, <2>3
    <2> QED BY <2>4, <2>5, Zenon DEF HangsTogether, a
<1> QED BY <1>10, <1>11

-----------------------------------------------------------------------------
(* The referee: the bag and the racks *)

\* A sequence as a function, and its elements.
LEMMA SequenceFacts ==
    ASSUME NEW T, NEW s \in Seq(T)
    PROVE  /\ Len(s) \in Nat /\ DOMAIN s = 1..Len(s) /\ s \in [1..Len(s) -> T]
           /\ ToSet(s) = { s[i] : i \in 1..Len(s) } /\ ToSet(s) \subseteq T
<1>1. Len(s) \in Nat /\ DOMAIN s = 1..Len(s) /\ s \in [1..Len(s) -> T]
    OBVIOUS
<1> QED BY <1>1 DEF ToSet

\* What is in a sequence, and whether it lists anything twice, by position.
LEMMA ListFacts ==
    ASSUME NEW T, NEW s \in Seq(T)
    PROVE  /\ \A x : x \in ToSet(s) <=> \E i \in 1..Len(s) : s[i] = x
           /\ IsInjective(s) <=> \A i, j \in 1..Len(s) : s[i] = s[j] => i = j
<1>1. DOMAIN s = 1..Len(s)
    BY SequenceFacts
<1> QED BY <1>1, Zenon DEF ToSet, IsInjective

\* t lists what s lists, as often.
SameTiles(s, t) ==
    /\ Len(t) = Len(s) /\ ToSet(t) = ToSet(s)
    /\ IsInjective(s) => IsInjective(t)

SwapOf(s, i, j) == [s EXCEPT ![i] = s[j], ![j] = s[i]]

LEMMA SwapKeeps ==
    ASSUME NEW T, NEW s \in Seq(T), NEW i \in 1..Len(s), NEW j \in 1..Len(s)
    PROVE  /\ SwapOf(s, i, j) \in Seq(T) /\ Len(SwapOf(s, i, j)) = Len(s)
           /\ ToSet(SwapOf(s, i, j)) = ToSet(s)
           /\ IsInjective(s) => IsInjective(SwapOf(s, i, j))
<1>1. PICK t : t = SwapOf(s, i, j)
    OBVIOUS
<1>2. Len(s) \in Nat /\ DOMAIN s = 1..Len(s) /\ s \in [1..Len(s) -> T]
    BY SequenceFacts
<1>3. /\ t \in [1..Len(s) -> T] /\ DOMAIN t = 1..Len(s)
      /\ \A k \in 1..Len(s) : t[k] = IF k = j THEN s[i] ELSE IF k = i THEN s[j] ELSE s[k]
    BY <1>1, <1>2 DEF SwapOf
<1>4. t \in Seq(T) /\ Len(t) = Len(s)
    BY <1>2, <1>3
<1>5. ToSet(t) = ToSet(s)
    BY <1>2, <1>3, Zenon DEF ToSet
<1>6. IsInjective(s) => IsInjective(t)
    BY <1>2, <1>3 DEF IsInjective
<1> QED BY <1>1, <1>4, <1>5, <1>6

\* f[k] is the sequence after the first k swaps.
ShufflesTo(f, values, stream, m) ==
    f = [k \in 0..m |->
            IF k = 0 THEN values
            ELSE SwapOf(f[k - 1], Len(values) + 1 - k, uniform_below(Len(values) + 1 - k, stream) + 1)]

LEMMA ShuffleExists ==
    ASSUME NEW values, NEW stream, NEW m \in Nat
    PROVE  \E f : ShufflesTo(f, values, stream, m)
<1> SUFFICES ASSUME ~ \E f : ShufflesTo(f, values, stream, m)
             PROVE  FALSE
    OBVIOUS
<1> DEFINE Upper(k) == Len(values) + 1 - k
           Next(s, k) == SwapOf(s, Upper(k), uniform_below(Upper(k), stream) + 1)
           Bad == { n \in Nat : ~ \E f : ShufflesTo(f, values, stream, n) }
<1>1. PICK n \in Bad : \A k \in Bad : n <= k
    BY LeastExists
<1>2. n /= 0
    <2>1. ShufflesTo([i \in 0..0 |-> values], values, stream, 0)
        BY DEF ShufflesTo
    <2> QED BY <2>1
<1>3. PICK f : ShufflesTo(f, values, stream, n - 1)
    <2>1. n \in Nat /\ n - 1 \in Nat /\ ~(n <= n - 1)
        BY <1>2
    <2> QED BY <1>1, <2>1
<1>9. f = [k \in 0..n - 1 |-> IF k = 0 THEN values ELSE Next(f[k - 1], k)]
    BY <1>3, Zenon DEF ShufflesTo
<1> HIDE DEF Next, Upper
<1>4. PICK g : g = [k \in 0..n |-> IF k = n THEN Next(f[n - 1], n) ELSE f[k]]
    OBVIOUS
<1>5. \A k \in 0..n : g[k] = IF k = 0 THEN values ELSE Next(g[k - 1], k)
    <2> SUFFICES ASSUME NEW k \in 0..n
                 PROVE  g[k] = IF k = 0 THEN values ELSE Next(g[k - 1], k)
        OBVIOUS
    <2>1. \A i \in 0..n - 1 : g[i] = f[i]
        BY <1>2, <1>4
    <2>2. CASE k = n
        <3>1. n - 1 \in 0..n - 1
            BY <1>2
        <3> QED BY <1>2, <1>4, <2>1, <2>2, <3>1
    <2>3. CASE k /= n
        <3>1. k \in 0..n - 1
            BY <2>3
        <3>2. f[k] = IF k = 0 THEN values ELSE Next(f[k - 1], k)
            BY <1>9, <3>1
        <3>3. k /= 0 => k - 1 \in 0..n - 1
            BY <3>1
        <3> QED BY <2>1, <3>1, <3>2, <3>3
    <2> QED BY <2>2, <2>3
<1>6. ShufflesTo(g, values, stream, n)
    <2>1. g = [k \in 0..n |-> g[k]]
        BY <1>4
    <2>2. g = [k \in 0..n |-> IF k = 0 THEN values ELSE Next(g[k - 1], k)]
        BY <1>5, <2>1, Zenon
    <2> QED BY <2>2, Zenon DEF ShufflesTo, Next, Upper
<1> QED BY <1>6

\* The stream never points past the positions that are left.
LEMMA UniformBelowIsBelow ==
    ASSUME NEW upper \in Nat, upper > 0, NEW stream \in Nat
    PROVE  uniform_below(upper, stream) + 1 \in 1..upper
<1>1. stream + upper \in Nat
    OBVIOUS
<1>2. (stream + upper) % upper \in 0..upper - 1
    BY <1>1
<1> QED BY <1>2 DEF uniform_below

\* A shuffle only changes the order.
LEMMA ShuffleKeeps ==
    ASSUME NEW T, NEW values \in Seq(T), NEW stream \in Nat
    PROVE  shuffle(values, stream) \in Seq(T) /\ SameTiles(values, shuffle(values, stream))
<1>0. Len(values) \in Nat
    BY SequenceFacts
<1>1. CASE values = <<>>
    BY <1>1 DEF shuffle, SameTiles
<1>2. CASE values /= <<>>
    <2> DEFINE N == Len(values)
               at == CHOOSE f : ShufflesTo(f, values, stream, N)
    <2>1. ShufflesTo(at, values, stream, N)
        BY <1>0, ShuffleExists, Zenon
    <2>2. shuffle(values, stream) = at[N - 1]
        BY <1>2 DEF shuffle, ShufflesTo, SwapOf
    <2> HIDE DEF at
    <2>3. N > 0
        BY <1>0, <1>2
    <2> DEFINE Good(s) == s \in Seq(T) /\ SameTiles(values, s)
               Bad == { k \in 0..N : ~Good(at[k]) }
    <2>4. ASSUME Bad /= {}
          PROVE  FALSE
        <3>1. PICK k \in Bad : \A i \in Bad : k <= i
            <4>1. Bad \subseteq Nat
                BY <1>0
            <4> HIDE DEF Bad
            <4> QED BY <2>4, <4>1, LeastExists
        <3>2. k \in 0..N /\ ~Good(at[k])
            OBVIOUS
        <3>3. k /= 0
            <4>1. at[0] = values
                BY <1>0, <2>1 DEF ShufflesTo
            <4>2. Good(values)
                BY DEF SameTiles
            <4> QED BY <3>2, <4>1, <4>2
        <3>4. Good(at[k - 1])
            <4>1. k - 1 \in 0..N /\ ~(k <= k - 1)
                BY <1>0, <3>2, <3>3
            <4> QED BY <3>1, <4>1
        <3>5. PICK i : i = N + 1 - k
            OBVIOUS
        <3>6. i \in 1..N
            BY <1>0, <3>2, <3>3, <3>5
        <3>7. PICK j : j = uniform_below(i, stream) + 1
            OBVIOUS
        <3>8. j \in 1..N
            <4>1. j \in 1..i
                <5>1. i \in Nat /\ i > 0
                    BY <1>0, <3>6
                <5> QED BY <3>7, <5>1, UniformBelowIsBelow
            <4> QED BY <1>0, <3>6, <4>1
        <3>9. at[k] = SwapOf(at[k - 1], i, j)
            BY <2>1, <3>2, <3>3, <3>5, <3>7 DEF ShufflesTo
        <3>10. Len(at[k - 1]) = N
            BY <3>4 DEF SameTiles
        <3>11. Good(at[k])
            BY <3>4, <3>6, <3>8, <3>9, <3>10, SwapKeeps DEF SameTiles
        <3> QED BY <3>2, <3>11
    <2>5. N - 1 \in 0..N
        BY <1>0, <2>3
    <2> QED BY <2>2, <2>4, <2>5
<1> QED BY <1>1, <1>2

Fewer(n, m) == IF n < m THEN n ELSE m

\* Drawing splits the bag: what is left, and what was drawn from its end.
LEMMA DrawFacts ==
    ASSUME NEW T, NEW bag \in Seq(T), NEW n \in Nat
    PROVE  LET left == LeftAfter(bag, n)
               drawn == Drawn(bag, n)
               k == Len(bag) - Fewer(n, Len(bag))
           IN /\ k \in 0..Len(bag) /\ Len(bag) \in Nat
              /\ left \in Seq(T) /\ Len(left) = k /\ \A i \in 1..k : left[i] = bag[i]
              /\ drawn \in Seq(T) /\ Len(drawn) = Len(bag) - k
              /\ \A i \in 1..Len(bag) - k : drawn[i] = bag[Len(bag) + 1 - i]
<1> DEFINE k == Len(bag) - Fewer(n, Len(bag))
<1>1. Len(bag) \in Nat /\ DOMAIN bag = 1..Len(bag) /\ bag \in [1..Len(bag) -> T]
    BY SequenceFacts
<1>2. k \in 0..Len(bag)
    BY <1>1 DEF Fewer
<1>3. LeftAfter(bag, n) = SubSeq(bag, 1, k) /\ Drawn(bag, n) = ReverseOf(SubSeq(bag, k + 1, Len(bag)))
    BY DEF LeftAfter, Drawn, Fewer
<1> HIDE DEF k
<1>4. /\ SubSeq(bag, 1, k) \in Seq(T) /\ Len(SubSeq(bag, 1, k)) = k
      /\ \A i \in 1..k : SubSeq(bag, 1, k)[i] = bag[i]
    BY <1>1, <1>2
<1>5. PICK t : t = SubSeq(bag, k + 1, Len(bag))
    OBVIOUS
<1>6. /\ t \in Seq(T) /\ Len(t) = Len(bag) - k
      /\ \A i \in 1..Len(bag) - k : t[i] = bag[k + i]
    <2>1. CASE k = Len(bag)
        <3>1. t = <<>>
            BY <1>1, <1>5, <2>1
        <3> QED BY <1>1, <2>1, <3>1
    <2>2. CASE k /= Len(bag)
        <3>1. k + 1 \in 1..Len(bag) /\ Len(bag) \in 1..Len(bag) /\ k + 1 <= Len(bag)
            <4>1. \A a \in Nat : \A m \in 0..a :
                    m /= a => m + 1 \in 1..a /\ a \in 1..a /\ m + 1 <= a
                OBVIOUS
            <4> QED BY <1>1, <1>2, <2>2, <4>1, Zenon
        <3>2. t \in Seq(T) /\ Len(t) = Len(bag) - (k + 1) + 1
            BY <1>5, <3>1
        <3>3. \A i \in 1..Len(bag) - k : t[i] = bag[(k + 1) + i - 1]
            BY <1>2, <1>5, <3>1
        <3>4. /\ Len(bag) - (k + 1) + 1 = Len(bag) - k
              /\ \A i \in 1..Len(bag) - k : (k + 1) + i - 1 = k + i
            BY <1>1, <1>2
        <3> QED BY <3>2, <3>3, <3>4
    <2> QED BY <2>1, <2>2
<1>7. PICK u : u = ReverseOf(t)
    OBVIOUS
<1>8. u = [i \in 1..Len(bag) - k |-> t[Len(bag) - k + 1 - i]]
    BY <1>6, <1>7 DEF ReverseOf
<1>9. \A i \in 1..Len(bag) - k : Len(bag) - k + 1 - i \in 1..Len(bag) - k
    BY <1>1, <1>2
<1>10. \A i \in 1..Len(bag) - k : u[i] = bag[Len(bag) + 1 - i] /\ u[i] \in T
    <2> SUFFICES ASSUME NEW i \in 1..Len(bag) - k
                 PROVE  u[i] = bag[Len(bag) + 1 - i] /\ u[i] \in T
        OBVIOUS
    <2>1. u[i] = t[Len(bag) - k + 1 - i]
        BY <1>8
    <2>2. t[Len(bag) - k + 1 - i] = bag[k + (Len(bag) - k + 1 - i)]
        BY <1>6, <1>9
    <2>3. k + (Len(bag) - k + 1 - i) = Len(bag) + 1 - i /\ Len(bag) + 1 - i \in 1..Len(bag)
        BY <1>1, <1>2
    <2> QED BY <1>1, <2>1, <2>2, <2>3
<1>11. u \in Seq(T) /\ Len(u) = Len(bag) - k
    <2>1. Len(bag) - k \in Nat
        BY <1>1, <1>2
    <2>2. u \in [1..Len(bag) - k -> T]
        BY <1>8, <1>10
    <2> QED BY <2>1, <2>2
<1> QED BY <1>1, <1>2, <1>3, <1>4, <1>5, <1>7, <1>10, <1>11 DEF k

\* Two sequences with nothing in common that hold what a third one holds.
Splits(s, t, u) ==
    /\ ToSet(s) \cup ToSet(t) = ToSet(u)
    /\ IsInjective(u) => IsInjective(s) /\ IsInjective(t) /\ ToSet(s) \cap ToSet(t) = {}

LEMMA DrawSplits ==
    ASSUME NEW T, NEW bag \in Seq(T), NEW n \in Nat
    PROVE  /\ LeftAfter(bag, n) \in Seq(T) /\ Drawn(bag, n) \in Seq(T)
           /\ Len(Drawn(bag, n)) <= n /\ Splits(LeftAfter(bag, n), Drawn(bag, n), bag)
<1> DEFINE left == LeftAfter(bag, n)
           drawn == Drawn(bag, n)
           k == Len(bag) - Fewer(n, Len(bag))
<1>1. /\ k \in 0..Len(bag) /\ Len(bag) \in Nat
      /\ left \in Seq(T) /\ Len(left) = k /\ \A i \in 1..k : left[i] = bag[i]
      /\ drawn \in Seq(T) /\ Len(drawn) = Len(bag) - k
      /\ \A i \in 1..Len(bag) - k : drawn[i] = bag[Len(bag) + 1 - i]
    BY DrawFacts
<1>2. Len(drawn) <= n
    BY <1>1 DEF Fewer
<1> HIDE DEF left, drawn, k
<1>3. DOMAIN left = 1..k /\ DOMAIN drawn = 1..Len(bag) - k /\ DOMAIN bag = 1..Len(bag)
    BY <1>1
<1>4. /\ \A i \in 1..k : i \in 1..Len(bag)
      /\ \A i \in 1..Len(bag) - k : /\ Len(bag) + 1 - i \in 1..Len(bag)
                                    /\ Len(bag) + 1 - i \notin 1..k
      /\ \A i \in 1..Len(bag) : i \in 1..k \/ Len(bag) + 1 - i \in 1..Len(bag) - k
      /\ \A i \in 1..Len(bag) : Len(bag) + 1 - (Len(bag) + 1 - i) = i
    BY <1>1
<1>5. ToSet(left) \cup ToSet(drawn) = ToSet(bag)
    <2>1. ASSUME NEW x \in ToSet(bag)
          PROVE  x \in ToSet(left) \/ x \in ToSet(drawn)
        <3>1. PICK i \in 1..Len(bag) : bag[i] = x
            BY ListFacts
        <3>2. CASE i \in 1..k
            BY <1>1, <3>1, <3>2, ListFacts
        <3>3. CASE i \notin 1..k
            <4>1. Len(bag) + 1 - i \in 1..Len(bag) - k /\ Len(bag) + 1 - (Len(bag) + 1 - i) = i
                BY <1>4, <3>3
            <4>2. drawn[Len(bag) + 1 - i] = x
                BY <1>1, <3>1, <4>1
            <4> QED BY <1>1, <4>1, <4>2, ListFacts
        <3> QED BY <3>2, <3>3
    <2>2. ASSUME NEW x \in ToSet(left)
          PROVE  x \in ToSet(bag)
        <3>1. PICK i \in 1..k : left[i] = x
            BY <1>1, ListFacts
        <3> QED BY <1>1, <1>4, <3>1, ListFacts
    <2>3. ASSUME NEW x \in ToSet(drawn)
          PROVE  x \in ToSet(bag)
        <3>1. PICK i \in 1..Len(bag) - k : drawn[i] = x
            BY <1>1, ListFacts
        <3> QED BY <1>1, <1>4, <3>1, ListFacts
    <2> QED BY <2>1, <2>2, <2>3
<1>6. ASSUME IsInjective(bag)
      PROVE  IsInjective(left) /\ IsInjective(drawn) /\ ToSet(left) \cap ToSet(drawn) = {}
    <2>1. \A i, j \in 1..Len(bag) : bag[i] = bag[j] => i = j
        BY <1>3, <1>6, Zenon DEF IsInjective
    <2>2. IsInjective(left)
        BY <1>1, <1>3, <1>4, <2>1 DEF IsInjective
    <2>3. IsInjective(drawn)
        <3>1. ASSUME NEW i \in 1..Len(bag) - k, NEW j \in 1..Len(bag) - k, drawn[i] = drawn[j]
              PROVE  i = j
            <4>2. bag[Len(bag) + 1 - i] = bag[Len(bag) + 1 - j]
                BY <1>1, <3>1
            <4>1. Len(bag) + 1 - i = Len(bag) + 1 - j
                BY <1>4, <2>1, <4>2, Zenon
            <4> QED BY <1>1, <4>1
        <3> QED BY <1>3, <3>1, Zenon DEF IsInjective
    <2>4. ToSet(left) \cap ToSet(drawn) = {}
        <3>1. ASSUME NEW i \in 1..k, NEW j \in 1..Len(bag) - k
              PROVE  left[i] /= drawn[j]
            BY ZenonT(40), <1>1, <1>4, <2>1
        <3> QED BY <1>3, <3>1, Zenon DEF ToSet
    <2> QED BY <2>2, <2>3, <2>4
<1> QED BY <1>1, <1>2, <1>5, <1>6, Zenon DEF Splits, left, drawn

\* One sequence after another.
LEMMA ConcatFacts ==
    ASSUME NEW T, NEW s \in Seq(T), NEW t \in Seq(T)
    PROVE  /\ s \o t \in Seq(T) /\ Len(s \o t) = Len(s) + Len(t) /\ Len(s) \in Nat /\ Len(t) \in Nat
           /\ ToSet(s \o t) = ToSet(s) \cup ToSet(t)
           /\ (IsInjective(s) /\ IsInjective(t) /\ ToSet(s) \cap ToSet(t) = {}) => IsInjective(s \o t)
<1>1. PICK u : u = s \o t
    OBVIOUS
<1>2. /\ u \in Seq(T) /\ Len(u) = Len(s) + Len(t) /\ Len(s) \in Nat /\ Len(t) \in Nat
      /\ DOMAIN u = 1..Len(s) + Len(t) /\ DOMAIN s = 1..Len(s) /\ DOMAIN t = 1..Len(t)
    BY <1>1
<1>3. /\ \A i \in 1..Len(s) : u[i] = s[i] /\ i \in 1..Len(s) + Len(t)
      /\ \A i \in 1..Len(t) : u[Len(s) + i] = t[i] /\ Len(s) + i \in 1..Len(s) + Len(t)
      /\ \A i \in 1..Len(s) + Len(t) :
            i \in 1..Len(s) \/ (i - Len(s) \in 1..Len(t) /\ u[i] = t[i - Len(s)])
    BY <1>1, <1>2
<1>4. ToSet(u) = ToSet(s) \cup ToSet(t)
    <2>1. ToSet(u) \subseteq ToSet(s) \cup ToSet(t)
        BY <1>2, <1>3 DEF ToSet
    <2>2. ToSet(s) \subseteq ToSet(u) /\ ToSet(t) \subseteq ToSet(u)
        <3>1. \A i \in 1..Len(s) : s[i] \in ToSet(u)
            BY <1>2, <1>3, Zenon DEF ToSet
        <3>2. \A i \in 1..Len(t) : t[i] \in ToSet(u)
            BY <1>2, <1>3, Zenon DEF ToSet
        <3>3. ASSUME NEW x \in ToSet(s)
              PROVE  x \in ToSet(u)
            BY <3>1, ListFacts
        <3>4. ASSUME NEW x \in ToSet(t)
              PROVE  x \in ToSet(u)
            BY <3>2, ListFacts
        <3> QED BY <3>3, <3>4
    <2> QED BY <2>1, <2>2
<1>5. ASSUME IsInjective(s), IsInjective(t), ToSet(s) \cap ToSet(t) = {}
      PROVE  IsInjective(u)
    <2>0. /\ \A i, j \in 1..Len(s) : s[i] = s[j] => i = j
          /\ \A i, j \in 1..Len(t) : t[i] = t[j] => i = j
          /\ \A i \in 1..Len(s), j \in 1..Len(t) : s[i] /= t[j]
        <3>1. \A i \in 1..Len(s), j \in 1..Len(t) : s[i] \in ToSet(s) /\ t[j] \in ToSet(t)
            BY <1>2, Zenon DEF ToSet
        <3>2. \A i \in 1..Len(s), j \in 1..Len(t) : s[i] /= t[j]
            BY <1>5, <3>1
        <3>3. /\ \A i, j \in 1..Len(s) : s[i] = s[j] => i = j
              /\ \A i, j \in 1..Len(t) : t[i] = t[j] => i = j
            BY <1>5, ListFacts, Zenon
        <3> QED BY <3>2, <3>3
    <2>1. ASSUME NEW i \in 1..Len(s) + Len(t), NEW j \in 1..Len(s) + Len(t), u[i] = u[j]
          PROVE  i = j
        <3>1. CASE i \in 1..Len(s) /\ j \in 1..Len(s)
            BY <1>3, <2>0, <2>1, <3>1
        <3>2. CASE i \in 1..Len(s) /\ j \notin 1..Len(s)
            BY <1>3, <2>0, <2>1, <3>2
        <3>3. CASE i \notin 1..Len(s) /\ j \in 1..Len(s)
            BY <1>3, <2>0, <2>1, <3>3
        <3>4. CASE i \notin 1..Len(s) /\ j \notin 1..Len(s)
            <4>1. i - Len(s) = j - Len(s)
                BY <1>3, <2>0, <2>1, <3>4
            <4> QED BY <1>2, <4>1
        <3> QED BY <3>1, <3>2, <3>3, <3>4
    <2> QED BY <1>2, <2>1, Zenon DEF IsInjective
<1> QED BY <1>1, <1>2, <1>4, <1>5

\* What a rack keeps when tiles leave it.
LEMMA WithoutFacts ==
    ASSUME NEW T, NEW rack \in Seq(T), NEW tiles
    PROVE  /\ Without(rack, tiles) \in Seq(T) /\ ToSet(Without(rack, tiles)) = ToSet(rack) \ tiles
           /\ Len(Without(rack, tiles)) <= Len(rack)
           /\ IsInjective(rack) => IsInjective(Without(rack, tiles))
<1> DEFINE kept == { i \in DOMAIN rack : rack[i] \notin tiles }
<1>1. Len(rack) \in Nat /\ DOMAIN rack = 1..Len(rack) /\ rack \in [1..Len(rack) -> T]
    BY SequenceFacts
<1>2. kept \subseteq 1..Len(rack) /\ \A i \in 1..Len(rack) : i \in kept <=> rack[i] \notin tiles
    BY <1>1
<1>3. PICK u : u = Without(rack, tiles)
    OBVIOUS
<1>4. u = [k \in 1..Cardinality(kept) |-> rack[Ascending(kept)[k]]]
    BY <1>3, Zenon DEF Without
<1> HIDE DEF kept
<1>5. IsFiniteSet(1..Len(rack)) /\ Cardinality(1..Len(rack)) = Len(rack) /\ 1..Len(rack) \subseteq Nat
    BY SMTT(40), <1>1, FS_Interval
<1>6. IsFiniteSet(kept) /\ kept \in SUBSET Nat /\ Cardinality(kept) <= Len(rack)
    BY <1>2, <1>5, FS_Subset
<1>7. PICK q : q = Ascending(kept)
    OBVIOUS
<1>8. /\ Cardinality(kept) \in Nat /\ q \in Seq(kept) /\ Len(q) = Cardinality(kept)
      /\ ToSet(q) = kept /\ IsInjective(q)
    BY <1>6, <1>7, AscendingIsSorted
<1>9. DOMAIN q = 1..Cardinality(kept) /\ \A k \in 1..Cardinality(kept) : q[k] \in kept
    BY <1>8
<1>10. u \in [1..Cardinality(kept) -> T] /\ \A k \in 1..Cardinality(kept) : u[k] = rack[q[k]]
    BY <1>1, <1>2, <1>4, <1>7, <1>9
<1>11. u \in Seq(T) /\ Len(u) = Cardinality(kept) /\ DOMAIN u = 1..Cardinality(kept)
    BY <1>8, <1>10
<1>12. ToSet(u) = ToSet(rack) \ tiles
    <2>1. \A i \in kept : \E k \in 1..Cardinality(kept) : q[k] = i
        BY <1>8, <1>9, Zenon DEF ToSet
    <2>2. ToSet(u) \subseteq ToSet(rack) \ tiles
        BY <1>1, <1>2, <1>9, <1>10, <1>11, ZenonT(40) DEF ToSet
    <2>3. ASSUME NEW x \in ToSet(rack) \ tiles
          PROVE  x \in ToSet(u)
        <3>1. PICK i \in 1..Len(rack) : rack[i] = x
            BY <1>1, Zenon DEF ToSet
        <3>2. PICK k \in 1..Cardinality(kept) : q[k] = i
            BY <1>2, <2>1, <3>1
        <3> QED BY <1>10, <1>11, <3>1, <3>2, Zenon DEF ToSet
    <2> QED BY <2>2, <2>3
<1>13. ASSUME IsInjective(rack)
       PROVE  IsInjective(u)
    <2>1. ASSUME NEW i \in 1..Cardinality(kept), NEW j \in 1..Cardinality(kept), u[i] = u[j]
          PROVE  i = j
        <3>1. q[i] \in 1..Len(rack) /\ q[j] \in 1..Len(rack) /\ rack[q[i]] = rack[q[j]]
            BY <1>2, <1>9, <1>10, <2>1
        <3>2. q[i] = q[j]
            BY <1>1, <1>13, <3>1, Zenon DEF IsInjective
        <3> QED BY <1>8, <1>9, <3>2, Zenon DEF IsInjective
    <2> QED BY <1>11, <2>1, Zenon DEF IsInjective
<1> QED BY <1>3, <1>6, <1>11, <1>12, <1>13

-----------------------------------------------------------------------------
(* The referee: tiles are conserved *)

TilesOnce(b) ==
    \A c, d \in Coordinates : (c /= d /\ b[c] /= NoTile) => b[c].tile /= b[d].tile

TilesAreSound(g) ==
    /\ g.bag \in Seq(Tiles) /\ g.racks \in [EngineSeats -> Seq(Tiles)]
    /\ \A s \in EngineSeats : Len(g.racks[s]) <= RackCapacity
    /\ Conserved(g)

\* What the racks hold together.
LEMMA InRacksFacts ==
    ASSUME NEW racks
    PROVE  \A x : x \in InRacks(racks) <=> \E s \in EngineSeats : x \in ToSet(racks[s])
BY Zenon DEF InRacks

\* What Conserved says of one seat's rack, the bag and the board.
LEMMA ConservedFacts ==
    ASSUME NEW g, Conserved(g), NEW seat \in EngineSeats
    PROVE  /\ IsInjective(g.bag) /\ IsInjective(g.racks[seat]) /\ TilesOnce(g.board)
           /\ ToSet(g.bag) \cap ToSet(g.racks[seat]) = {} /\ ToSet(g.bag) \cap OnBoard(g.board) = {}
           /\ ToSet(g.racks[seat]) \cap OnBoard(g.board) = {}
           /\ OnBoard(g.board) \subseteq Tiles /\ ToSet(g.racks[seat]) \subseteq Tiles
           /\ ToSet(g.bag) \subseteq Tiles
<1>1. /\ IsInjective(g.bag) /\ IsInjective(g.racks[seat]) /\ TilesOnce(g.board)
    BY DEF Conserved, TilesOnce
<1>2. ToSet(g.racks[seat]) \subseteq InRacks(g.racks)
    BY InRacksFacts
<1>3. /\ ToSet(g.bag) \cap InRacks(g.racks) = {} /\ ToSet(g.bag) \cap OnBoard(g.board) = {}
      /\ InRacks(g.racks) \cap OnBoard(g.board) = {}
      /\ ToSet(g.bag) \cup InRacks(g.racks) \cup OnBoard(g.board) = Tiles
    BY Zenon DEF Conserved
<1> QED BY <1>1, <1>2, <1>3

\* Tiles that move between one rack, the bag and the board are conserved.
LEMMA MovedTilesAreSound ==
    ASSUME NEW g, TilesAreSound(g), NEW seat \in EngineSeats,
           NEW h, NEW bag \in Seq(Tiles), NEW rack \in Seq(Tiles), NEW board,
           TilesOf(h, bag, [g.racks EXCEPT ![seat] = rack], board),
           Len(rack) <= RackCapacity, IsInjective(bag), IsInjective(rack), TilesOnce(board),
           ToSet(bag) \cap ToSet(rack) = {}, ToSet(bag) \cap OnBoard(board) = {},
           ToSet(rack) \cap OnBoard(board) = {},
           ToSet(bag) \cup ToSet(rack) \cup OnBoard(board)
               = ToSet(g.bag) \cup ToSet(g.racks[seat]) \cup OnBoard(g.board)
    PROVE  TilesAreSound(h)
<1> DEFINE old == InRacks(g.racks)
           new == InRacks(h.racks)
           all == ToSet(g.bag) \cup ToSet(g.racks[seat]) \cup OnBoard(g.board)
<1>1. /\ g.racks \in [EngineSeats -> Seq(Tiles)] /\ Conserved(g)
      /\ \A s \in EngineSeats : Len(g.racks[s]) <= RackCapacity
    BY DEF TilesAreSound
<1>2. /\ h.bag = bag /\ h.board = board /\ h.racks \in [EngineSeats -> Seq(Tiles)]
      /\ h.racks[seat] = rack /\ \A s \in EngineSeats \ {seat} : h.racks[s] = g.racks[s]
    BY <1>1 DEF TilesOf
<1>3. /\ \A s \in EngineSeats : IsInjective(g.racks[s])
      /\ \A s, t \in EngineSeats : s /= t => ToSet(g.racks[s]) \cap ToSet(g.racks[t]) = {}
      /\ ToSet(g.bag) \cap old = {} /\ ToSet(g.bag) \cap OnBoard(g.board) = {}
      /\ old \cap OnBoard(g.board) = {}
      /\ ToSet(g.bag) \cup old \cup OnBoard(g.board) = Tiles
    BY <1>1, Zenon DEF Conserved
<1>4. \A x : /\ x \in old <=> \E s \in EngineSeats : x \in ToSet(g.racks[s])
             /\ x \in new <=> \E s \in EngineSeats : x \in ToSet(h.racks[s])
    BY InRacksFacts
<1> HIDE DEF old, new
<1>5. \A s \in EngineSeats \ {seat} : ToSet(g.racks[s]) \cap all = {}
    <2>1. \A s \in EngineSeats : ToSet(g.racks[s]) \subseteq old
        BY <1>4
    <2> QED BY <1>3, <2>1
<1>6. \A s \in EngineSeats : IsInjective(h.racks[s]) /\ Len(h.racks[s]) <= RackCapacity
    BY <1>1, <1>2, <1>3
<1>7. \A s, t \in EngineSeats : s /= t => ToSet(h.racks[s]) \cap ToSet(h.racks[t]) = {}
    <2>1. \A s \in EngineSeats \ {seat} : ToSet(h.racks[s]) \cap ToSet(rack) = {}
        BY <1>2, <1>5
    <2> QED BY ZenonT(40), <1>2, <1>3, <2>1
<1>10. \A s \in EngineSeats : ToSet(h.racks[s]) \cap ToSet(bag) = {} /\ ToSet(h.racks[s]) \cap OnBoard(board) = {}
    <2> SUFFICES ASSUME NEW s \in EngineSeats
                 PROVE  ToSet(h.racks[s]) \cap ToSet(bag) = {} /\ ToSet(h.racks[s]) \cap OnBoard(board) = {}
        OBVIOUS
    <2>1. CASE s = seat
        BY <1>2, <2>1
    <2>2. CASE s /= seat
        BY <1>2, <1>5, <2>2
    <2> QED BY <2>1, <2>2
<1>11. new \cap ToSet(bag) = {} /\ new \cap OnBoard(board) = {}
    BY <1>4, <1>10
<1>12. ToSet(bag) \cup new \cup OnBoard(board) = Tiles
    <2>1. new \cup all = old \cup all
        <3>1. \A x : x \in new => x \in old \cup all
            BY <1>2, <1>4
        <3>2. \A x : x \in old => x \in new \cup all
            BY <1>2, <1>4
        <3> QED BY <3>1, <3>2
    <2>2. ToSet(g.racks[seat]) \subseteq old /\ ToSet(rack) \subseteq new
        BY <1>2, <1>4
    <2>3. Tiles = old \cup all
        BY <1>3, <2>2
    <2>4. ToSet(bag) \cup new \cup OnBoard(board) = new \cup all
        BY <2>2
    <2> QED BY <2>1, <2>3, <2>4
<1>13. Conserved(h)
    <2>1. /\ \A c, d \in Coordinates :
               (c /= d /\ board[c] /= NoTile) => board[c].tile /= board[d].tile
          /\ ToSet(bag) \cap new = {}
        BY <1>11 DEF TilesOnce
    <2> QED BY <1>2, <1>6, <1>7, <1>11, <1>12, <2>1, Zenon DEF Conserved, new
<1> QED BY <1>2, <1>6, <1>13 DEF TilesAreSound

\* A list without repetitions is as long as the set of what it lists.
LEMMA ListLength ==
    ASSUME NEW T, NEW s \in Seq(T), IsInjective(s)
    PROVE  IsFiniteSet(ToSet(s)) /\ Cardinality(ToSet(s)) = Len(s) /\ Len(s) \in Nat
<1>1. Len(s) \in Nat /\ DOMAIN s = 1..Len(s) /\ s \in [1..Len(s) -> T]
    BY SequenceFacts
<1>2. \A i \in 1..Len(s) : s[i] \in ToSet(s)
    BY <1>1, Zenon DEF ToSet
<1>3. s \in [1..Len(s) -> ToSet(s)]
    BY <1>1, <1>2
<1>4. s \in Injection(1..Len(s), ToSet(s)) /\ s \in Surjection(1..Len(s), ToSet(s))
    <2>1. \A x \in ToSet(s) : \E i \in 1..Len(s) : s[i] = x
        BY <1>1, Zenon DEF ToSet
    <2> QED BY <1>1, <1>3, <2>1, Zenon DEF Injection, Surjection
<1>5. IsFiniteSet(1..Len(s)) /\ Cardinality(1..Len(s)) = Len(s)
    BY <1>1, FS_Interval
<1> QED BY <1>1, <1>4, <1>5, FS_Surjection

\* A placement puts tiles of the rack on free squares, each on one.
PlacesTiles(g, seat, ps) ==
    /\ \A p \in ps : /\ p.at \in Coordinates /\ g.board[p.at] = NoTile
                     /\ p.tile \in ToSet(g.racks[seat])
    /\ \A p, q \in ps : p /= q => p.tile /= q.tile /\ p.at /= q.at

\* The board after a placement holds the tiles it held and those of it.
LEMMA ProposedTiles ==
    ASSUME NEW g, Conserved(g), NEW seat \in EngineSeats, NEW ps, PlacesTiles(g, seat, ps)
    PROVE  /\ TilesOnce(Proposed(g.board, ps))
           /\ OnBoard(Proposed(g.board, ps)) = OnBoard(g.board) \cup { p.tile : p \in ps }
<1> DEFINE b == g.board
           a == Proposed(g.board, ps)
<1>1. /\ TilesOnce(b) /\ ToSet(g.racks[seat]) \cap OnBoard(b) = {}
      /\ OnBoard(b) \subseteq Tiles /\ ToSet(g.racks[seat]) \subseteq Tiles
    BY ConservedFacts
<1>2. 0 \notin Tiles
    BY EngineConstants
<1>3. ASSUME NEW p \in ps
      PROVE  a[p.at] = [tile |-> p.tile, letter |-> p.letter]
    <2>1. p.at \in Coordinates /\ \E q \in ps : q.at = p.at
        BY DEF PlacesTiles
    <2>2. PICK q : q = CHOOSE r \in ps : r.at = p.at
        OBVIOUS
    <2>3. q \in ps /\ q.at = p.at
        BY <2>1, <2>2, Zenon
    <2>4. q = p
        BY <2>3 DEF PlacesTiles
    <2>5. a[p.at] = [tile |-> q.tile, letter |-> q.letter]
        BY <2>1, <2>2 DEF Proposed
    <2> QED BY <2>4, <2>5
<1>4. \A p \in ps : a[p.at].tile = p.tile /\ a[p.at] /= NoTile /\ p.tile \in ToSet(g.racks[seat])
    <2> SUFFICES ASSUME NEW p \in ps
                 PROVE  a[p.at].tile = p.tile /\ a[p.at] /= NoTile /\ p.tile \in ToSet(g.racks[seat])
        OBVIOUS
    <2>1. p.tile \in ToSet(g.racks[seat]) /\ p.tile /= 0
        BY <1>1, <1>2 DEF PlacesTiles
    <2>2. a[p.at] = [tile |-> p.tile, letter |-> p.letter]
        BY <1>3
    <2>3. a[p.at].tile = p.tile
        BY <2>2
    <2> QED BY <2>1, <2>3 DEF NoTile
<1>5. \A c \in Coordinates : /\ (\A p \in ps : p.at /= c) => a[c] = b[c]
                             /\ b[c] /= NoTile => a[c] = b[c] /\ b[c].tile \in OnBoard(b)
    BY ProposedFacts DEF PlacesTiles, OnBoard
<1>6. \A p \in ps : p.at \in Coordinates /\ b[p.at] = NoTile
    BY DEF PlacesTiles
<1>7. \A p, q \in ps : p /= q => p.tile /= q.tile /\ p.at /= q.at
    BY Zenon DEF PlacesTiles
<1>8. NoTile.tile = 0
    BY DEF NoTile
<1> HIDE DEF a, b
<1>9. TilesOnce(a)
    <2> SUFFICES ASSUME NEW c \in Coordinates, NEW d \in Coordinates, c /= d, a[c] /= NoTile
                 PROVE  a[c].tile /= a[d].tile
        BY Zenon DEF TilesOnce
    <2>1. CASE \E p \in ps : p.at = c
        <3>1. PICK p \in ps : p.at = c
            BY <2>1
        <3>2. CASE \E q \in ps : q.at = d
            BY <1>4, <1>7, <3>1, <3>2
        <3>3. CASE \A q \in ps : q.at /= d
            <4>1. a[d] = b[d]
                BY <1>5, <3>3
            <4>2. CASE b[d] = NoTile
                BY <1>1, <1>2, <1>4, <1>8, <3>1, <4>1, <4>2
            <4>3. CASE b[d] /= NoTile
                BY <1>1, <1>4, <1>5, <3>1, <4>1, <4>3
            <4> QED BY <4>2, <4>3
        <3> QED BY <3>2, <3>3
    <2>2. CASE \A p \in ps : p.at /= c
        <3>1. a[c] = b[c] /\ b[c].tile \in OnBoard(b)
            BY <1>5, <2>2
        <3>2. CASE \E q \in ps : q.at = d
            BY <1>1, <1>4, <3>1, <3>2
        <3>3. CASE \A q \in ps : q.at /= d
            BY <1>1, <1>5, <3>1, <3>3 DEF TilesOnce
        <3> QED BY <3>2, <3>3
    <2> QED BY <2>1, <2>2
<1>10. OnBoard(a) = OnBoard(b) \cup { p.tile : p \in ps }
    <2>1. ASSUME NEW x \in OnBoard(a)
          PROVE  x \in OnBoard(b) \cup { p.tile : p \in ps }
        <3>1. PICK c \in Coordinates : a[c] /= NoTile /\ x = a[c].tile
            BY DEF OnBoard
        <3>2. CASE \E p \in ps : p.at = c
            BY <1>4, <3>1, <3>2
        <3>3. CASE \A p \in ps : p.at /= c
            BY <1>5, <3>1, <3>3
        <3> QED BY <3>2, <3>3
    <2>2. ASSUME NEW x \in OnBoard(b)
          PROVE  x \in OnBoard(a)
        <3>1. PICK c \in Coordinates : b[c] /= NoTile /\ x = b[c].tile
            BY DEF OnBoard
        <3>2. a[c] = b[c]
            BY <1>5, <3>1
        <3> QED BY <3>1, <3>2 DEF OnBoard
    <2>3. ASSUME NEW p \in ps
          PROVE  p.tile \in OnBoard(a)
        BY <1>4, <1>6 DEF OnBoard
    <2> QED BY <2>1, <2>2, <2>3
<1> QED BY <1>9, <1>10 DEF a, b

\* A placement moves tiles of the rack to the board, and the bag fills it up.
LEMMA PlayKeepsTiles ==
    ASSUME NEW g, DOMAIN g = GameFields, TilesAreSound(g), NEW seat \in EngineSeats, NEW ps,
           PlacesTiles(g, seat, ps)
    PROVE  TilesAreSound(play_tiles(g, seat, ps))
<1> DEFINE P == { p.tile : p \in ps }
           rack == g.racks[seat]
           kept == Without(rack, P)
           n == RackCapacity - Len(kept)
           left == LeftAfter(g.bag, n)
           drawn == Drawn(g.bag, n)
           a == Proposed(g.board, ps)
           h == play_tiles(g, seat, ps)
<1>1. /\ g.bag \in Seq(Tiles) /\ rack \in Seq(Tiles) /\ Len(rack) <= RackCapacity /\ Conserved(g)
      /\ Len(rack) \in Nat /\ RackCapacity \in Nat
    BY EngineConstants DEF TilesAreSound
<1>2. /\ IsInjective(g.bag) /\ IsInjective(rack)
      /\ ToSet(g.bag) \cap ToSet(rack) = {} /\ ToSet(g.bag) \cap OnBoard(g.board) = {}
      /\ ToSet(rack) \cap OnBoard(g.board) = {}
    BY <1>1, ConservedFacts
<1>3. TilesOf(h, left, [g.racks EXCEPT ![seat] = kept \o drawn], a)
    BY PlayEffect, Zenon
<1>4. TilesOnce(a) /\ OnBoard(a) = OnBoard(g.board) \cup P
    BY <1>1, ProposedTiles
<1>5. P \subseteq ToSet(rack)
    BY DEF PlacesTiles
<1> HIDE DEF P, rack, a, h
<1>6. /\ kept \in Seq(Tiles) /\ ToSet(kept) = ToSet(rack) \ P /\ Len(kept) <= Len(rack)
      /\ IsInjective(kept)
    BY <1>1, <1>2, WithoutFacts
<1> HIDE DEF kept
<1>7. Len(kept) \in Nat /\ n \in Nat
    <2>1. Len(kept) \in Nat
        BY <1>6
    <2> QED BY <1>1, <1>6, <2>1
<1>8. /\ left \in Seq(Tiles) /\ drawn \in Seq(Tiles) /\ Len(drawn) <= n
      /\ Splits(left, drawn, g.bag)
    BY <1>1, <1>7, DrawSplits
<1> HIDE DEF left, drawn
<1>9. /\ ToSet(left) \cup ToSet(drawn) = ToSet(g.bag) /\ IsInjective(left) /\ IsInjective(drawn)
      /\ ToSet(left) \cap ToSet(drawn) = {}
    BY <1>2, <1>8, Zenon DEF Splits
<1>10. ToSet(kept) \cap ToSet(drawn) = {}
    BY <1>2, <1>6, <1>9
<1>11. /\ kept \o drawn \in Seq(Tiles) /\ Len(kept \o drawn) = Len(kept) + Len(drawn)
       /\ ToSet(kept \o drawn) = ToSet(kept) \cup ToSet(drawn) /\ IsInjective(kept \o drawn)
       /\ Len(drawn) \in Nat
    BY <1>6, <1>8, <1>9, <1>10, ConcatFacts
<1>12. Len(kept \o drawn) <= RackCapacity
    BY <1>1, <1>7, <1>8, <1>11
<1>13. PICK r : r = kept \o drawn
    OBVIOUS
<1>14. /\ ToSet(left) \cap ToSet(r) = {} /\ ToSet(left) \cap OnBoard(a) = {}
       /\ ToSet(r) \cap OnBoard(a) = {}
       /\ ToSet(left) \cup ToSet(r) \cup OnBoard(a) = ToSet(g.bag) \cup ToSet(rack) \cup OnBoard(g.board)
    <2>1. ToSet(r) = (ToSet(rack) \ P) \cup ToSet(drawn)
        BY <1>6, <1>11, <1>13
    <2>2. ToSet(left) \cap ToSet(r) = {}
        BY <1>2, <1>9, <2>1
    <2>3. ToSet(left) \cap OnBoard(a) = {}
        BY <1>2, <1>4, <1>5, <1>9
    <2>4. ToSet(r) \cap OnBoard(a) = {}
        BY <1>2, <1>4, <1>5, <1>9, <2>1
    <2>5. ToSet(left) \cup ToSet(r) \cup OnBoard(a) = ToSet(g.bag) \cup ToSet(rack) \cup OnBoard(g.board)
        BY <1>4, <1>5, <1>9, <2>1
    <2> QED BY <2>2, <2>3, <2>4, <2>5
<1>15. TilesAreSound(h)
    BY <1>3, <1>4, <1>8, <1>9, <1>11, <1>12, <1>13, <1>14, MovedTilesAreSound DEF rack
<1> QED BY <1>15 DEF h

\* An exchange moves tiles of the rack to the bag, and as many back.
LEMMA ExchangeKeepsTiles ==
    ASSUME NEW g, DOMAIN g = GameFields, TilesAreSound(g), g.version \in Nat, NEW s \in Nat,
           NEW seat \in EngineSeats, NEW chosen \in SUBSET Tiles, chosen \subseteq ToSet(g.racks[seat]),
           NEW tiles \in SetToSeqs(chosen)
    PROVE  TilesAreSound(exchange_tiles(g, s, seat, tiles))
<1> DEFINE rack == g.racks[seat]
           kept == Without(rack, chosen)
           n == Len(tiles)
           left == LeftAfter(g.bag, n)
           drawn == Drawn(g.bag, n)
           sorted == Ascending(chosen)
           bag == shuffle(left \o sorted, s + g.version + 1)
           h == exchange_tiles(g, s, seat, tiles)
<1>1. /\ g.bag \in Seq(Tiles) /\ rack \in Seq(Tiles) /\ Len(rack) <= RackCapacity /\ Conserved(g)
      /\ Len(rack) \in Nat /\ RackCapacity \in Nat /\ g.racks \in [EngineSeats -> Seq(Tiles)]
    BY EngineConstants DEF TilesAreSound
<1>2. /\ IsInjective(g.bag) /\ IsInjective(rack) /\ TilesOnce(g.board)
      /\ ToSet(g.bag) \cap ToSet(rack) = {} /\ ToSet(g.bag) \cap OnBoard(g.board) = {}
      /\ ToSet(rack) \cap OnBoard(g.board) = {}
    BY <1>1, ConservedFacts
<1>3. /\ ToSet(tiles) = chosen /\ IsFiniteSet(chosen) /\ chosen \in SUBSET Nat
      /\ n = Cardinality(chosen)
    BY SortedIsAsLong
<1>4. TilesOf(h, bag, [g.racks EXCEPT ![seat] = kept \o drawn], g.board)
    <2>1. return_tiles_to_bag(left, tiles, s + g.version + 1) = bag
        BY <1>3 DEF return_tiles_to_bag
    <2>2. TilesOf(h, return_tiles_to_bag(left, tiles, s + g.version + 1),
                  [g.racks EXCEPT ![seat] = Without(@, ToSet(tiles)) \o drawn], g.board)
        BY ExchangeEffect, Zenon
    <2> HIDE DEF bag, h, drawn, left
    <2> QED BY <1>3, <2>1, <2>2
<1> HIDE DEF rack, h
<1>5. /\ kept \in Seq(Tiles) /\ ToSet(kept) = ToSet(rack) \ chosen /\ IsInjective(kept)
    BY <1>1, <1>2, WithoutFacts
<1>6. Len(kept) = Len(rack) - n /\ n \in Nat
    <2>1. IsFiniteSet(ToSet(rack)) /\ Cardinality(ToSet(rack)) = Len(rack)
        BY <1>1, <1>2, ListLength
    <2>2. Cardinality(ToSet(kept)) = Len(kept)
        BY <1>5, ListLength
    <2>3. Cardinality(ToSet(rack) \ chosen) = Cardinality(ToSet(rack)) - Cardinality(ToSet(rack) \cap chosen)
        BY <2>1, FS_Difference
    <2>4. ToSet(rack) \cap chosen = chosen
        BY DEF rack
    <2>5. Cardinality(chosen) \in Nat
        BY <1>3, FS_CardinalityType
    <2> QED BY <1>3, <1>5, <2>1, <2>2, <2>3, <2>4, <2>5
<1> HIDE DEF kept, n
<1>7. /\ left \in Seq(Tiles) /\ drawn \in Seq(Tiles) /\ Len(drawn) <= n
      /\ Splits(left, drawn, g.bag)
    BY <1>1, <1>6, DrawSplits
<1> HIDE DEF left, drawn
<1>8. /\ ToSet(left) \cup ToSet(drawn) = ToSet(g.bag) /\ IsInjective(left) /\ IsInjective(drawn)
      /\ ToSet(left) \cap ToSet(drawn) = {}
    BY <1>2, <1>7, Zenon DEF Splits
<1>9. sorted \in Seq(Tiles) /\ ToSet(sorted) = chosen /\ IsInjective(sorted)
    <2>1. sorted \in Seq(chosen) /\ ToSet(sorted) = chosen /\ IsInjective(sorted)
        BY <1>3, AscendingIsSorted
    <2> HIDE DEF sorted
    <2>2. sorted \in Seq(Tiles)
        BY <2>1
    <2> QED BY <2>1, <2>2
<1> HIDE DEF sorted
<1>10. chosen \subseteq ToSet(rack)
    BY DEF rack
<1>11. /\ left \o sorted \in Seq(Tiles) /\ ToSet(left \o sorted) = ToSet(left) \cup chosen
       /\ IsInjective(left \o sorted)
    <2>1. ToSet(left) \cap ToSet(sorted) = {}
        BY <1>2, <1>8, <1>9, <1>10
    <2> QED BY <1>7, <1>8, <1>9, <2>1, ConcatFacts
<1>12. bag \in Seq(Tiles) /\ ToSet(bag) = ToSet(left) \cup chosen /\ IsInjective(bag)
    <2>1. s + g.version + 1 \in Nat
        OBVIOUS
    <2>2. PICK v : v = left \o sorted
        OBVIOUS
    <2>3. v \in Seq(Tiles) /\ ToSet(v) = ToSet(left) \cup chosen /\ IsInjective(v)
        BY <1>11, <2>2
    <2>4. PICK k : k = s + g.version + 1
        OBVIOUS
    <2>5. shuffle(v, k) \in Seq(Tiles) /\ SameTiles(v, shuffle(v, k))
        BY <2>1, <2>3, <2>4, ShuffleKeeps
    <2> QED BY <2>2, <2>3, <2>4, <2>5 DEF SameTiles
<1> HIDE DEF bag
<1>13. /\ kept \o drawn \in Seq(Tiles) /\ Len(kept \o drawn) = Len(kept) + Len(drawn)
       /\ ToSet(kept \o drawn) = ToSet(kept) \cup ToSet(drawn) /\ IsInjective(kept \o drawn)
       /\ Len(drawn) \in Nat
    <2>1. ToSet(kept) \cap ToSet(drawn) = {}
        BY <1>2, <1>5, <1>8
    <2> QED BY <1>5, <1>7, <1>8, <2>1, ConcatFacts
<1>14. Len(kept \o drawn) <= RackCapacity
    BY <1>1, <1>6, <1>7, <1>13
<1>15. PICK r : r = kept \o drawn
    OBVIOUS
<1>16. /\ ToSet(bag) \cap ToSet(r) = {} /\ ToSet(bag) \cap OnBoard(g.board) = {}
       /\ ToSet(r) \cap OnBoard(g.board) = {}
       /\ ToSet(bag) \cup ToSet(r) \cup OnBoard(g.board)
            = ToSet(g.bag) \cup ToSet(rack) \cup OnBoard(g.board)
    <2>1. ToSet(r) = (ToSet(rack) \ chosen) \cup ToSet(drawn)
        BY <1>5, <1>13, <1>15
    <2>2. ToSet(bag) \cap ToSet(r) = {}
        BY <1>2, <1>8, <1>10, <1>12, <2>1
    <2>3. ToSet(bag) \cap OnBoard(g.board) = {}
        BY <1>2, <1>8, <1>10, <1>12
    <2>4. ToSet(r) \cap OnBoard(g.board) = {}
        BY <1>2, <1>8, <2>1
    <2>5. ToSet(bag) \cup ToSet(r) = ToSet(g.bag) \cup ToSet(rack)
        BY <1>8, <1>10, <1>12, <2>1
    <2> QED BY <2>2, <2>3, <2>4, <2>5
<1>17. TilesAreSound(h)
    BY <1>2, <1>4, <1>12, <1>13, <1>14, <1>15, <1>16, MovedTilesAreSound DEF rack
<1> QED BY <1>17 DEF h

\* A game whose tiles stay where they are.
LEMMA SameTilesAreSound ==
    ASSUME NEW g, TilesAreSound(g), NEW h, TilesOf(h, g.bag, g.racks, g.board)
    PROVE  TilesAreSound(h)
BY Zenon DEF TilesOf, TilesAreSound, Conserved

\* How much of the bag is left after n draws from all of them.
Cut(all, n) == Len(all) - Fewer(n, Len(all))

\* The rack holds the stretch of all between two cuts.
IsStretch(rack, all, low, high) ==
    \A x : x \in ToSet(rack) <=> \E j \in 1..Len(all) : low < j /\ j <= high /\ all[j] = x

\* A rack is dealt from one stretch of the shuffled tiles.
LEMMA DealtRack ==
    ASSUME NEW T, NEW all \in Seq(T), IsInjective(all), NEW k \in Nat, NEW n \in Nat,
           NEW rack, rack = Drawn(LeftAfter(all, k), n)
    PROVE  /\ rack \in Seq(T) /\ IsInjective(rack) /\ Len(rack) <= n
           /\ IsStretch(rack, all, Cut(all, k + n), Cut(all, k))
<1> DEFINE left == LeftAfter(all, k)
           m == Cut(all, k)
           c == Cut(all, k + n)
<1>1. /\ left \in Seq(T) /\ Len(left) = m /\ \A i \in 1..m : left[i] = all[i]
      /\ m \in 0..Len(all) /\ Len(all) \in Nat
    BY DrawFacts, Zenon DEF Cut
<1>2. IsInjective(left)
    BY DrawSplits DEF Splits
<1>0. rack = Drawn(left, n)
    OBVIOUS
<1> HIDE DEF left
<1>3. rack \in Seq(T) /\ Len(rack) <= n /\ IsInjective(rack)
    BY <1>0, <1>1, <1>2, DrawSplits DEF Splits
<1>4. m - Fewer(n, m) = c /\ c \in 0..m
    <2>1. PICK A \in Nat : A = Len(all)
        BY <1>1
    <2>2. m = A - Fewer(k, A) /\ c = A - Fewer(k + n, A)
        BY <2>1 DEF Cut
    <2>3. CASE A <= k
        <3>1. Fewer(k, A) = A /\ Fewer(k + n, A) = A /\ Fewer(n, 0) = 0
            BY <2>1, <2>3 DEF Fewer
        <3>2. m = 0 /\ c = 0
            BY <2>2, <3>1
        <3> HIDE DEF m, c
        <3> QED BY <3>1, <3>2
    <2>4. CASE k < A /\ A <= k + n
        <3>1. Fewer(k, A) = k /\ Fewer(k + n, A) = A /\ Fewer(n, A - k) = A - k
            BY <2>1, <2>4 DEF Fewer
        <3>2. m = A - k /\ c = 0
            BY <2>2, <3>1
        <3> HIDE DEF m, c
        <3> QED BY <2>4, <3>1, <3>2
    <2>5. CASE k < A /\ k + n < A
        <3>1. Fewer(k, A) = k /\ Fewer(k + n, A) = k + n /\ Fewer(n, A - k) = n
            BY <2>1, <2>5 DEF Fewer
        <3>2. m = A - k /\ c = A - (k + n)
            BY <2>2, <3>1
        <3> HIDE DEF m, c
        <3> QED BY <2>5, <3>1, <3>2
    <2> QED BY <2>1, <2>3, <2>4, <2>5
<1>5. Len(rack) = m - c /\ \A i \in 1..m - c : rack[i] = left[m + 1 - i]
    <2>1. /\ Len(rack) = Len(left) - (Len(left) - Fewer(n, Len(left)))
          /\ \A i \in 1..Len(left) - (Len(left) - Fewer(n, Len(left))) : rack[i] = left[Len(left) + 1 - i]
        <3>1. left \in Seq(T)
            BY <1>1
        <3>2. /\ Len(Drawn(left, n)) = Len(left) - (Len(left) - Fewer(n, Len(left)))
              /\ \A i \in 1..Len(left) - (Len(left) - Fewer(n, Len(left))) :
                    Drawn(left, n)[i] = left[Len(left) + 1 - i]
            BY <3>1, DrawFacts, Zenon
        <3> QED BY <1>0, <3>2, Zenon
    <2> QED BY <1>1, <1>4, <2>1
<1> HIDE DEF m, c
<1>6. ASSUME NEW x \in ToSet(rack)
      PROVE  \E j \in 1..Len(all) : c < j /\ j <= m /\ all[j] = x
    <2>1. PICK i \in 1..m - c : rack[i] = x
        BY <1>3, <1>5, ListFacts
    <2>2. m + 1 - i \in 1..m /\ c < m + 1 - i /\ m + 1 - i <= m /\ m + 1 - i \in 1..Len(all)
        BY <1>1, <1>4
    <2>3. all[m + 1 - i] = x
        BY <1>1, <1>5, <2>1, <2>2
    <2> QED BY <2>2, <2>3
<1>7. ASSUME NEW x, NEW j \in 1..Len(all), c < j, j <= m, all[j] = x
      PROVE  x \in ToSet(rack)
    <2>1. m + 1 - j \in 1..m - c /\ m + 1 - (m + 1 - j) = j /\ j \in 1..m
        BY <1>1, <1>4, <1>7
    <2>2. rack[m + 1 - j] = x
        BY <1>1, <1>5, <1>7, <2>1
    <2> QED BY <1>3, <1>5, <2>1, <2>2, ListFacts
<1> QED BY <1>3, <1>6, <1>7 DEF m, c, IsStretch

\* The stretches of two racks do not overlap.
LEMMA SeatProducts ==
    ASSUME NEW s \in EngineSeats
    PROVE  /\ RackCapacity * s \in Nat /\ RackCapacity * (s - 1) \in Nat
           /\ RackCapacity * (s - 1) + RackCapacity = RackCapacity * s
           /\ \A t \in EngineSeats : s < t => RackCapacity * s <= RackCapacity * (t - 1)
           /\ RackCapacity * s <= RackCapacity * Players
<1>1. RackCapacity \in Nat /\ Players \in 2..4 /\ s \in 1..4 /\ s <= Players
    BY EngineAssumption, EngineConstants
<1>2. s = 1 \/ s = 2 \/ s = 3 \/ s = 4
    BY <1>1
<1>3. /\ RackCapacity * s \in Nat /\ RackCapacity * (s - 1) \in Nat
      /\ RackCapacity * (s - 1) + RackCapacity = RackCapacity * s
    BY <1>1, <1>2
<1>4. ASSUME NEW t \in EngineSeats, s < t
      PROVE  RackCapacity * s <= RackCapacity * (t - 1)
    <2>1. t \in 1..4
        BY <1>1, EngineConstants
    <2>2. t = 1 \/ t = 2 \/ t = 3 \/ t = 4
        BY <2>1
    <2> QED BY <1>1, <1>2, <1>4, <2>2
<1>5. RackCapacity * s <= RackCapacity * Players
    <2>1. Players = 2 \/ Players = 3 \/ Players = 4
        BY <1>1
    <2> QED BY <1>1, <1>2, <2>1
<1> QED BY <1>3, <1>4, <1>5

\* The deal puts every tile in the bag or in one rack.
LEMMA DealIsSound ==
    ASSUME NEW s \in Nat, NEW g, g = Create(s)
    PROVE  TilesAreSound(g) /\ OnBoard(g.board) = {}
<1> DEFINE N == Cardinality(Tiles)
           first == [t \in 1..N |-> t]
           all == shuffle(first, s)
           deal == prepare_initial_deal(s)
           cut(k) == Cut(all, k)
<1>1. N = Len(Face) /\ N \in Nat /\ Tiles = 1..N
    <2>1. Tiles = 1..Len(Face) /\ Len(Face) \in Nat
        BY EngineConstants
    <2>2. Cardinality(1..Len(Face)) = Len(Face)
        <3>1. Cardinality(1..Len(Face)) = IF 1 > Len(Face) THEN 0 ELSE Len(Face) - 1 + 1
            <4>1. 1 \in Int /\ Len(Face) \in Int
                BY <2>1
            <4> QED BY <4>1, FS_Interval, Zenon
        <3> QED BY <2>1, <3>1
    <2> QED BY <2>1, <2>2
<1>2. /\ first \in Seq(Tiles) /\ Len(first) = N /\ ToSet(first) = Tiles /\ IsInjective(first)
    <2>1. first \in [1..N -> Tiles] /\ DOMAIN first = 1..N /\ \A t \in 1..N : first[t] = t
        BY <1>1
    <2> HIDE DEF first
    <2>2. first \in Seq(Tiles) /\ Len(first) = N
        BY <1>1, <2>1
    <2> QED BY <1>1, <2>1, <2>2, Zenon DEF ToSet, IsInjective
<1> HIDE DEF first
<1>3. all \in Seq(Tiles) /\ Len(all) = N /\ ToSet(all) = Tiles /\ IsInjective(all)
    BY <1>2, ShuffleKeeps DEF SameTiles
<1>4. /\ g.bag = LeftAfter(all, RackCapacity * Players)
      /\ g.racks = [seat \in EngineSeats |-> Drawn(LeftAfter(all, RackCapacity * (seat - 1)), RackCapacity)]
      /\ g.board = [c \in Coordinates |-> NoTile]
    <2>1. g.bag = deal.bag /\ g.racks = deal.racks /\ g.board = [c \in Coordinates |-> NoTile]
        BY DEF Create
    <2> HIDE DEF all
    <2>2. deal = [bag |-> LeftAfter(all, RackCapacity * Players),
                  racks |-> [seat \in EngineSeats |->
                                Drawn(LeftAfter(all, RackCapacity * (seat - 1)), RackCapacity)]]
        BY Zenon DEF prepare_initial_deal, all, first
    <2> HIDE DEF deal
    <2> QED BY <2>1, <2>2
<1> HIDE DEF all, deal
<1>5. RackCapacity \in Nat /\ RackCapacity * Players \in Nat /\ Players \in EngineSeats
    <2>1. Players \in EngineSeats
        BY EngineConstants
    <2> QED BY <2>1, SeatProducts, EngineConstants
<1>6. ASSUME NEW seat \in EngineSeats
      PROVE  /\ g.racks[seat] \in Seq(Tiles) /\ IsInjective(g.racks[seat])
             /\ Len(g.racks[seat]) <= RackCapacity
             /\ \A x : x \in ToSet(g.racks[seat]) <=>
                  \E j \in 1..N : cut(RackCapacity * seat) < j /\ j <= cut(RackCapacity * (seat - 1))
                                  /\ all[j] = x
    <2>1. /\ RackCapacity * (seat - 1) \in Nat
          /\ RackCapacity * (seat - 1) + RackCapacity = RackCapacity * seat
        BY SeatProducts
    <2>2. g.racks[seat] = Drawn(LeftAfter(all, RackCapacity * (seat - 1)), RackCapacity)
        BY <1>4
    <2> HIDE DEF cut
    <2>3. PICK k : k = RackCapacity * (seat - 1)
        OBVIOUS
    <2>4. k \in Nat /\ k + RackCapacity = RackCapacity * seat
        BY <2>1, <2>3
    <2>5. PICK r : r = Drawn(LeftAfter(all, k), RackCapacity)
        OBVIOUS
    <2>6. /\ r \in Seq(Tiles) /\ IsInjective(r) /\ Len(r) <= RackCapacity
          /\ \A x : x \in ToSet(r) <=>
                \E j \in 1..N : cut(k + RackCapacity) < j /\ j <= cut(k) /\ all[j] = x
        <3>1. /\ r \in Seq(Tiles) /\ IsInjective(r) /\ Len(r) <= RackCapacity
              /\ IsStretch(r, all, Cut(all, k + RackCapacity), Cut(all, k))
            BY <1>3, <1>5, <2>4, <2>5, DealtRack
        <3> QED BY <1>3, <2>5, <3>1, Zenon DEF cut, IsStretch
    <2> QED BY <2>2, <2>3, <2>4, <2>5, <2>6
<1>7. /\ g.bag \in Seq(Tiles) /\ IsInjective(g.bag)
      /\ \A x : x \in ToSet(g.bag) <=> \E j \in 1..N : j <= cut(RackCapacity * Players) /\ all[j] = x
    <2>1. PICK k : k = RackCapacity * Players
        OBVIOUS
    <2>2. /\ g.bag \in Seq(Tiles) /\ Len(g.bag) = cut(k) /\ \A i \in 1..cut(k) : g.bag[i] = all[i]
          /\ cut(k) \in 0..N
        <3>1. k \in Nat /\ g.bag = LeftAfter(all, k)
            BY <1>4, <1>5, <2>1
        <3>2. LeftAfter(all, k) \in Seq(Tiles) /\ Len(LeftAfter(all, k)) = Len(all) - Fewer(k, Len(all))
              /\ Len(all) - Fewer(k, Len(all)) \in 0..Len(all)
              /\ \A i \in 1..Len(all) - Fewer(k, Len(all)) : LeftAfter(all, k)[i] = all[i]
            BY <1>3, <3>1, DrawFacts, Zenon
        <3> QED BY <1>3, <3>1, <3>2, Zenon DEF Cut
    <2>3. IsInjective(g.bag)
        BY <1>3, <1>4, <1>5, DrawSplits DEF Splits
    <2> HIDE DEF cut
    <2>4. ASSUME NEW x \in ToSet(g.bag)
          PROVE  \E j \in 1..N : j <= cut(k) /\ all[j] = x
        <3>1. PICK i \in 1..cut(k) : g.bag[i] = x
            BY <2>2, ListFacts
        <3> QED BY <1>1, <2>2, <3>1
    <2>5. ASSUME NEW x, NEW j \in 1..N, j <= cut(k), all[j] = x
          PROVE  x \in ToSet(g.bag)
        <3>1. j \in 1..cut(k)
            BY <1>1, <2>2, <2>5
        <3> QED BY <2>2, <2>5, <3>1, ListFacts
    <2> QED BY <2>1, <2>2, <2>3, <2>4, <2>5
<1>8. \A i, j \in 1..N : all[i] = all[j] => i = j
    BY <1>3, ListFacts, Zenon
<1>9. /\ \A k \in Nat : cut(k) \in Nat
      /\ \A k, m \in Nat : k <= m => cut(m) <= cut(k)
      /\ cut(0) = N
    BY <1>1, <1>3 DEF Cut, Fewer
<1> HIDE DEF cut
<1>10. ASSUME NEW p \in EngineSeats, NEW t \in EngineSeats, p < t
       PROVE  ToSet(g.racks[p]) \cap ToSet(g.racks[t]) = {}
    <2>1. cut(RackCapacity * (t - 1)) <= cut(RackCapacity * p)
        BY <1>9, <1>10, SeatProducts
    <2>2. ASSUME NEW x, x \in ToSet(g.racks[p]), x \in ToSet(g.racks[t])
          PROVE  FALSE
        <3>1. PICK i \in 1..N : cut(RackCapacity * p) < i /\ all[i] = x
            BY <1>6, <2>2
        <3>2. PICK j \in 1..N : j <= cut(RackCapacity * (t - 1)) /\ all[j] = x
            BY <1>6, <2>2
        <3>3. i = j
            BY <1>8, <3>1, <3>2
        <3>4. cut(RackCapacity * p) \in Nat /\ cut(RackCapacity * (t - 1)) \in Nat
            BY <1>9, SeatProducts
        <3> QED BY <2>1, <3>1, <3>2, <3>3, <3>4
    <2> QED BY <2>2
<1>11. \A p, t \in EngineSeats : p /= t => ToSet(g.racks[p]) \cap ToSet(g.racks[t]) = {}
    <2> SUFFICES ASSUME NEW p \in EngineSeats, NEW t \in EngineSeats, p /= t
                 PROVE  ToSet(g.racks[p]) \cap ToSet(g.racks[t]) = {}
        OBVIOUS
    <2>1. p < t \/ t < p
        BY EngineConstants
    <2> QED BY <1>10, <2>1
<1>12. ToSet(g.bag) \cap InRacks(g.racks) = {}
    <2>1. ASSUME NEW x \in ToSet(g.bag), NEW seat \in EngineSeats, x \in ToSet(g.racks[seat])
          PROVE  FALSE
        <3>1. PICK i \in 1..N : i <= cut(RackCapacity * Players) /\ all[i] = x
            BY <1>7
        <3>2. PICK j \in 1..N : cut(RackCapacity * seat) < j /\ all[j] = x
            BY <1>6, <2>1
        <3>3. i = j
            BY <1>8, <3>1, <3>2
        <3>4. /\ cut(RackCapacity * seat) \in Nat /\ cut(RackCapacity * Players) \in Nat
              /\ cut(RackCapacity * Players) <= cut(RackCapacity * seat)
            BY <1>5, <1>9, SeatProducts
        <3> QED BY <3>1, <3>2, <3>3, <3>4
    <2> QED BY <2>1, InRacksFacts
<1>13. ToSet(g.bag) \cup InRacks(g.racks) = Tiles
    <2>1. ASSUME NEW x \in Tiles
          PROVE  x \in ToSet(g.bag) \cup InRacks(g.racks)
        <3>1. PICK j \in 1..N : all[j] = x
            BY <1>3, ListFacts
        <3>2. CASE j <= cut(RackCapacity * Players)
            BY <1>7, <3>1, <3>2
        <3>3. CASE ~(j <= cut(RackCapacity * Players))
            <4> DEFINE Past == { seat \in EngineSeats : ~(j <= cut(RackCapacity * seat)) }
            <4>1. Past \subseteq Nat /\ Past /= {}
                BY <1>5, <3>3, EngineConstants
            <4>2. PICK seat \in Past : \A t \in Past : seat <= t
                <5> HIDE DEF Past
                <5> QED BY <4>1, LeastExists
            <4>3. seat \in EngineSeats /\ cut(RackCapacity * seat) < j
                BY SMTT(40), <1>1, <1>9, SeatProducts
            <4>4. j <= cut(RackCapacity * (seat - 1))
                <5>1. CASE seat = 1
                    <6>1. RackCapacity * (seat - 1) = 0
                        BY <1>5, <5>1
                    <6> QED BY <1>1, <1>9, <6>1
                <5>2. CASE seat /= 1
                    <6>1. seat - 1 \in EngineSeats /\ ~(seat <= seat - 1)
                        BY <4>3, <5>2, EngineConstants
                    <6>2. seat - 1 \notin Past
                        BY <4>2, <6>1
                    <6> QED BY <6>1, <6>2
                <5> QED BY <5>1, <5>2
            <4>5. x \in ToSet(g.racks[seat])
                BY <1>6, <3>1, <4>3, <4>4
            <4> QED BY <4>3, <4>5, InRacksFacts
        <3> QED BY <3>2, <3>3
    <2>2. ToSet(g.bag) \subseteq Tiles
        BY <1>7, SequenceFacts
    <2>3. \A seat \in EngineSeats : ToSet(g.racks[seat]) \subseteq Tiles
        BY <1>6, SequenceFacts
    <2>4. InRacks(g.racks) \subseteq Tiles
        BY <2>3, InRacksFacts
    <2> QED BY <2>1, <2>2, <2>4
<1>14. OnBoard(g.board) = {}
    BY <1>4 DEF OnBoard
<1>15. \A c \in Coordinates : g.board[c] = NoTile
    BY <1>4
<1>16. Conserved(g)
    <2>1. /\ \A c, d \in Coordinates :
               (c /= d /\ g.board[c] /= NoTile) => g.board[c].tile /= g.board[d].tile
          /\ ToSet(g.bag) \cap OnBoard(g.board) = {} /\ InRacks(g.racks) \cap OnBoard(g.board) = {}
          /\ ToSet(g.bag) \cup InRacks(g.racks) \cup OnBoard(g.board) = Tiles
        BY <1>13, <1>14, <1>15
    <2> QED BY <1>6, <1>7, <1>11, <1>12, <2>1, Zenon DEF Conserved
<1>17. g.racks \in [EngineSeats -> Seq(Tiles)]
    <2>1. DOMAIN g.racks = EngineSeats /\ g.racks = [seat \in EngineSeats |-> g.racks[seat]]
        BY <1>4
    <2> QED BY <1>6, <2>1
<1> QED BY <1>6, <1>7, <1>14, <1>16, <1>17 DEF TilesAreSound

-----------------------------------------------------------------------------
(* Sums and products over finite sets *)

\* The element a fold takes next.
Taken(s) == CHOOSE x \in s : TRUE

\* g[s] is the sum of f over s, for every subset s of S.
SumsUp(g, f, S) ==
    g = [s \in SUBSET S |-> IF s = {} THEN 0 ELSE f[Taken(s)] + g[s \ {Taken(s)}]]

\* The same for the product.
Multiplies(g, f, S) ==
    g = [s \in SUBSET S |-> IF s = {} THEN 1 ELSE f[Taken(s)] * g[s \ {Taken(s)}]]

\* Taking one element of a finite set leaves a smaller one.
LEMMA TakenFacts ==
    ASSUME NEW S, IsFiniteSet(S), NEW s \in SUBSET S
    PROVE  /\ IsFiniteSet(s) /\ Cardinality(s) \in Nat
           /\ \A x \in s : /\ s \ {x} \in SUBSET S /\ Cardinality(s \ {x}) \in Nat
                           /\ Cardinality(s \ {x}) < Cardinality(s)
           /\ s /= {} => Taken(s) \in s
<1>1. IsFiniteSet(s) /\ Cardinality(s) \in Nat
    BY FS_Subset, FS_CardinalityType
<1>2. ASSUME NEW x \in s
      PROVE  /\ s \ {x} \in SUBSET S /\ Cardinality(s \ {x}) \in Nat
             /\ Cardinality(s \ {x}) < Cardinality(s)
    <2>1. Cardinality(s \ {x}) = Cardinality(s) - 1 /\ IsFiniteSet(s \ {x})
        BY <1>1, FS_RemoveElement
    <2>2. Cardinality(s \ {x}) \in Nat
        BY <2>1, FS_CardinalityType
    <2> QED BY <1>1, <2>1, <2>2
<1> QED BY <1>1, <1>2 DEF Taken

\* A set of finite sets has a smallest one.
LEMMA SmallestExists ==
    ASSUME NEW S, IsFiniteSet(S), NEW B, B \subseteq SUBSET S, B /= {}
    PROVE  \E s \in B : \A x \in s : s \ {x} \notin B
<1> DEFINE sizes == { Cardinality(s) : s \in B }
<1>1. sizes \subseteq Nat /\ sizes /= {}
    BY TakenFacts
<1>2. PICK n \in sizes : \A m \in sizes : n <= m
    BY <1>1, LeastExists
<1>3. PICK s \in B : Cardinality(s) = n
    BY <1>2
<1>4. ASSUME NEW x \in s, s \ {x} \in B
      PROVE  FALSE
    <2>1. Cardinality(s \ {x}) \in Nat /\ Cardinality(s \ {x}) < n /\ n \in Nat
        BY <1>1, <1>3, TakenFacts
    <2>2. n <= Cardinality(s \ {x})
        BY <1>2, <1>4
    <2> QED BY <2>1, <2>2
<1> QED BY <1>4

\* What is computed by taking one element after the other, F[<<x, v>>] being
\* the value with x taken into v, for the subsets of up to n elements.
FoldsTo(g, F, base, S, n) ==
    \A s \in SUBSET S : Cardinality(s) <= n =>
        g[s] = IF s = {} THEN base ELSE F[<<Taken(s), g[s \ {Taken(s)}]>>]

\* It can be computed for every subset.
LEMMA FoldExists ==
    ASSUME NEW S, IsFiniteSet(S), NEW V, NEW base \in V, NEW F \in [S \X V -> V], NEW n \in Nat
    PROVE  \E g \in [SUBSET S -> V] : FoldsTo(g, F, base, S, n)
<1> DEFINE Bad == { k \in Nat : ~ \E g \in [SUBSET S -> V] : FoldsTo(g, F, base, S, k) }
<1> SUFFICES ASSUME Bad /= {}
             PROVE  FALSE
    OBVIOUS
<1>1. PICK k \in Bad : \A m \in Bad : k <= m
    <2>1. Bad \subseteq Nat
        OBVIOUS
    <2> QED BY <2>1, LeastExists
<1>2. k /= 0
    <2>1. PICK g : g = [s \in SUBSET S |-> base]
        OBVIOUS
    <2>2. ASSUME NEW s \in SUBSET S, Cardinality(s) <= 0
          PROVE  s = {}
        <3>1. Cardinality(s) = 0 /\ IsFiniteSet(s)
            BY <2>2, TakenFacts
        <3> QED BY <3>1, FS_EmptySet
    <2>3. g \in [SUBSET S -> V] /\ FoldsTo(g, F, base, S, 0)
        BY <2>1, <2>2 DEF FoldsTo
    <2> QED BY <2>3
<1>3. PICK g \in [SUBSET S -> V] : FoldsTo(g, F, base, S, k - 1)
    <2>1. k - 1 \in Nat /\ ~(k <= k - 1)
        BY <1>2
    <2> QED BY <1>1, <2>1
<1>4. PICK h : h = [s \in SUBSET S |->
                        IF s = {} THEN base
                        ELSE IF Cardinality(s) = k THEN F[<<Taken(s), g[s \ {Taken(s)}]>>] ELSE g[s]]
    OBVIOUS
<1>5. ASSUME NEW s \in SUBSET S, s /= {}
      PROVE  /\ Taken(s) \in S /\ s \ {Taken(s)} \in SUBSET S
             /\ F[<<Taken(s), g[s \ {Taken(s)}]>>] \in V
    <2>1. Taken(s) \in S /\ s \ {Taken(s)} \in SUBSET S
        BY <1>5, TakenFacts
    <2> QED BY <2>1
<1>6. h \in [SUBSET S -> V]
    BY <1>4, <1>5
<1>7. \A s \in SUBSET S : Cardinality(s) <= k - 1 => h[s] = g[s]
    <2> SUFFICES ASSUME NEW s \in SUBSET S, Cardinality(s) <= k - 1
                 PROVE  h[s] = g[s]
        OBVIOUS
    <2>1. Cardinality(s) \in Nat /\ Cardinality(s) /= k
        BY TakenFacts
    <2>2. s = {} => g[s] = base
        BY <1>3 DEF FoldsTo
    <2> QED BY <1>4, <2>1, <2>2
<1>8. ASSUME NEW s \in SUBSET S, Cardinality(s) <= k
      PROVE  h[s] = IF s = {} THEN base ELSE F[<<Taken(s), h[s \ {Taken(s)}]>>]
    <2>1. CASE s = {}
        BY <1>4, <2>1
    <2>2. CASE s /= {}
        <3>1. /\ Cardinality(s) \in Nat /\ s \ {Taken(s)} \in SUBSET S
              /\ Cardinality(s \ {Taken(s)}) \in Nat /\ Cardinality(s \ {Taken(s)}) < Cardinality(s)
            BY <2>2, TakenFacts
        <3>2. Cardinality(s \ {Taken(s)}) <= k - 1
            BY <1>8, <3>1
        <3>3. h[s \ {Taken(s)}] = g[s \ {Taken(s)}]
            BY <1>7, <3>1, <3>2
        <3>4. CASE Cardinality(s) = k
            BY <1>4, <2>2, <3>3, <3>4
        <3>5. CASE Cardinality(s) /= k
            <4>1. Cardinality(s) <= k - 1
                BY <1>8, <3>1, <3>5
            <4>2. h[s] = g[s]
                BY <1>7, <4>1
            <4>3. g[s] = F[<<Taken(s), g[s \ {Taken(s)}]>>]
                BY <1>3, <2>2, <4>1 DEF FoldsTo
            <4> QED BY <2>2, <3>3, <4>2, <4>3
        <3> QED BY <3>4, <3>5
    <2> QED BY <2>1, <2>2
<1>9. FoldsTo(h, F, base, S, k)
    BY <1>8 DEF FoldsTo
<1> QED BY <1>6, <1>9

\* For all of them.
Folds(g, F, base, S) ==
    \A s \in SUBSET S : g[s] = IF s = {} THEN base ELSE F[<<Taken(s), g[s \ {Taken(s)}]>>]

LEMMA WholeFoldExists ==
    ASSUME NEW S, IsFiniteSet(S), NEW V, NEW base \in V, NEW F \in [S \X V -> V]
    PROVE  \E g \in [SUBSET S -> V] : Folds(g, F, base, S)
<1>1. Cardinality(S) \in Nat
    BY FS_CardinalityType
<1>2. PICK g \in [SUBSET S -> V] : FoldsTo(g, F, base, S, Cardinality(S))
    BY <1>1, FoldExists
<1>3. \A s \in SUBSET S : Cardinality(s) <= Cardinality(S)
    BY FS_Subset
<1> QED BY <1>2, <1>3 DEF FoldsTo, Folds

\* The sums of integers over the subsets of a finite set.
LEMMA SumExists ==
    ASSUME NEW S, IsFiniteSet(S), NEW f, \A x \in S : f[x] \in Int
    PROVE  \E g : SumsUp(g, f, S)
<1> DEFINE F == [p \in S \X Int |-> f[p[1]] + p[2]]
<1>1. F \in [S \X Int -> Int]
    OBVIOUS
<1>2. \A x \in S, v \in Int : F[<<x, v>>] = f[x] + v
    OBVIOUS
<1> HIDE DEF F
<1>3. PICK g \in [SUBSET S -> Int] : Folds(g, F, 0, S)
    <2>1. 0 \in Int
        OBVIOUS
    <2> QED BY <1>1, <2>1, WholeFoldExists
<1>4. ASSUME NEW s \in SUBSET S
      PROVE  g[s] = IF s = {} THEN 0 ELSE f[Taken(s)] + g[s \ {Taken(s)}]
    <2>1. s /= {} => Taken(s) \in S /\ s \ {Taken(s)} \in SUBSET S
        BY TakenFacts
    <2> QED BY <1>2, <1>3, <2>1 DEF Folds
<1>5. g = [s \in SUBSET S |-> g[s]]
    OBVIOUS
<1> QED BY <1>4, <1>5, Zenon DEF SumsUp

\* And their products.
LEMMA ProductExists ==
    ASSUME NEW S, IsFiniteSet(S), NEW f, \A x \in S : f[x] \in Int
    PROVE  \E g : Multiplies(g, f, S)
<1> DEFINE F == [p \in S \X Int |-> f[p[1]] * p[2]]
<1>1. F \in [S \X Int -> Int]
    OBVIOUS
<1>2. \A x \in S, v \in Int : F[<<x, v>>] = f[x] * v
    OBVIOUS
<1> HIDE DEF F
<1>3. PICK g \in [SUBSET S -> Int] : Folds(g, F, 1, S)
    <2>1. 1 \in Int
        OBVIOUS
    <2> QED BY <1>1, <2>1, WholeFoldExists
<1>4. ASSUME NEW s \in SUBSET S
      PROVE  g[s] = IF s = {} THEN 1 ELSE f[Taken(s)] * g[s \ {Taken(s)}]
    <2>1. s /= {} => Taken(s) \in S /\ s \ {Taken(s)} \in SUBSET S
        BY TakenFacts
    <2> QED BY <1>2, <1>3, <2>1 DEF Folds
<1>5. g = [s \in SUBSET S |-> g[s]]
    OBVIOUS
<1> QED BY <1>4, <1>5, Zenon DEF Multiplies

\* The sum over no element.
LEMMA EmptySum ==
    ASSUME NEW S, NEW f, NEW g, SumsUp(g, f, S)
    PROVE  g[{}] = 0
<1>1. {} \in SUBSET S
    OBVIOUS
<1> QED BY <1>1, Zenon DEF SumsUp

\* One step of a sum.
LEMMA SumStep ==
    ASSUME NEW S, IsFiniteSet(S), NEW f, NEW g, SumsUp(g, f, S), NEW s \in SUBSET S, s /= {}
    PROVE  /\ g[s] = f[Taken(s)] + g[s \ {Taken(s)}]
           /\ Taken(s) \in s /\ s \ {Taken(s)} \in SUBSET S
<1>1. g[s] = IF s = {} THEN 0 ELSE f[Taken(s)] + g[s \ {Taken(s)}]
    BY Zenon DEF SumsUp
<1> QED BY <1>1, TakenFacts

\* Sums of integers are integers.
LEMMA SumsAreInt ==
    ASSUME NEW S, IsFiniteSet(S), NEW f, \A x \in S : f[x] \in Int, NEW g, SumsUp(g, f, S)
    PROVE  \A s \in SUBSET S : g[s] \in Int
<1> DEFINE B == { s \in SUBSET S : g[s] \notin Int }
<1> SUFFICES ASSUME B /= {}
             PROVE  FALSE
    OBVIOUS
<1>1. PICK s \in B : \A x \in s : s \ {x} \notin B
    <2>1. B \subseteq SUBSET S
        OBVIOUS
    <2> QED BY <2>1, SmallestExists
<1>2. s \in SUBSET S /\ g[s] \notin Int
    OBVIOUS
<1>3. /\ s /= {} /\ g[s] = f[Taken(s)] + g[s \ {Taken(s)}]
      /\ Taken(s) \in s /\ s \ {Taken(s)} \in SUBSET S
    <2>1. s /= {}
        BY <1>2, EmptySum
    <2> QED BY <1>2, <2>1, SumStep, ZenonT(40)
<1>4. g[s \ {Taken(s)}] \in Int
    BY <1>1, <1>3
<1> QED BY <1>2, <1>3, <1>4

\* The sum over a set depends on the values in it only.
LEMMA SumsAgree ==
    ASSUME NEW S, IsFiniteSet(S), NEW f, NEW g, SumsUp(g, f, S),
           NEW T, IsFiniteSet(T), NEW e, NEW h, SumsUp(h, e, T),
           NEW R, R \subseteq S, R \subseteq T, \A x \in R : f[x] = e[x]
    PROVE  g[R] = h[R]
<1> DEFINE B == { s \in SUBSET R : g[s] /= h[s] }
<1> SUFFICES ASSUME B /= {}
             PROVE  FALSE
    OBVIOUS
<1>1. PICK s \in B : \A x \in s : s \ {x} \notin B
    <2>1. B \subseteq SUBSET S
        OBVIOUS
    <2> QED BY <2>1, SmallestExists
<1>2. s \in SUBSET R /\ s \in SUBSET S /\ s \in SUBSET T /\ g[s] /= h[s]
    OBVIOUS
<1>3. s /= {}
    BY <1>2, EmptySum, Zenon
<1>4. /\ g[s] = f[Taken(s)] + g[s \ {Taken(s)}] /\ h[s] = e[Taken(s)] + h[s \ {Taken(s)}]
      /\ Taken(s) \in s
    <2>1. g[s] = f[Taken(s)] + g[s \ {Taken(s)}] /\ Taken(s) \in s
        BY <1>2, <1>3, SumStep
    <2>2. h[s] = e[Taken(s)] + h[s \ {Taken(s)}]
        BY <1>2, <1>3, SumStep
    <2> QED BY <2>1, <2>2
<1>5. g[s \ {Taken(s)}] = h[s \ {Taken(s)}]
    BY <1>1, <1>2, <1>4
<1> QED BY <1>2, <1>4, <1>5

\* Any element can be taken first.
LEMMA SumTakesAny ==
    ASSUME NEW S, IsFiniteSet(S), NEW f, \A x \in S : f[x] \in Int, NEW g, SumsUp(g, f, S)
    PROVE  \A s \in SUBSET S : \A x \in s : g[s] = f[x] + g[s \ {x}]
<1> DEFINE B == { s \in SUBSET S : \E x \in s : g[s] /= f[x] + g[s \ {x}] }
<1> SUFFICES ASSUME B /= {}
             PROVE  FALSE
    OBVIOUS
<1>1. PICK s \in B : \A x \in s : s \ {x} \notin B
    <2>1. B \subseteq SUBSET S
        OBVIOUS
    <2> QED BY <2>1, SmallestExists
<1>2. s \in SUBSET S
    OBVIOUS
<1>3. PICK x \in s : g[s] /= f[x] + g[s \ {x}]
    OBVIOUS
<1>4. PICK y : y = Taken(s)
    OBVIOUS
<1>5. y \in s /\ g[s] = f[y] + g[s \ {y}]
    <2>1. s /= {}
        BY <1>3
    <2>2. g[s] = f[Taken(s)] + g[s \ {Taken(s)}] /\ Taken(s) \in s
        BY <1>2, <2>1, SumStep
    <2> QED BY <1>4, <2>2
<1>6. x /= y
    BY <1>3, <1>5
<1>7. s \ {x} \in SUBSET S /\ s \ {y} \in SUBSET S /\ s \ {x} \notin B /\ s \ {y} \notin B
    BY <1>1, <1>2, <1>5
<1>8. g[s \ {y}] = f[x] + g[(s \ {y}) \ {x}]
    BY <1>6, <1>7
<1>9. g[s \ {x}] = f[y] + g[(s \ {x}) \ {y}]
    BY <1>5, <1>6, <1>7
<1>10. (s \ {x}) \ {y} = (s \ {y}) \ {x} /\ (s \ {x}) \ {y} \in SUBSET S
    BY <1>2
<1>11. g[(s \ {x}) \ {y}] \in Int /\ f[x] \in Int /\ f[y] \in Int
    BY <1>2, <1>5, <1>10, SumsAreInt
<1>12. PICK v \in Int : v = g[(s \ {x}) \ {y}]
    BY <1>11
<1>13. g[s \ {y}] = f[x] + v /\ g[s \ {x}] = f[y] + v
    BY <1>8, <1>9, <1>10, <1>12, Zenon
<1>14. f[y] + (f[x] + v) = f[x] + (f[y] + v)
    BY <1>11
<1> QED BY <1>3, <1>5, <1>13, <1>14, Zenon

\* What SumFunctionOnSet computes.
LEMMA SumIs ==
    ASSUME NEW S, IsFiniteSet(S), NEW f, \A x \in S : f[x] \in Int
    PROVE  \E g : SumsUp(g, f, S) /\ SumFunctionOnSet(f, S) = g[S]
<1>1. \E g : SumsUp(g, f, S)
    BY SumExists
<1> DEFINE at == CHOOSE g : SumsUp(g, f, S)
<1>2. SumsUp(at, f, S)
    BY <1>1, Zenon
<1>3. SumFunctionOnSet(f, S) = at[S]
    BY Zenon DEF SumFunctionOnSet, FoldFunctionOnSet, MapThenFoldSet, SumsUp, Taken
<1> QED BY <1>2, <1>3, Zenon

LEMMA SumIsInt ==
    ASSUME NEW S, IsFiniteSet(S), NEW f, \A x \in S : f[x] \in Int
    PROVE  SumFunctionOnSet(f, S) \in Int
<1>1. PICK g : SumsUp(g, f, S) /\ SumFunctionOnSet(f, S) = g[S]
    BY SumIs
<1>2. S \in SUBSET S
    OBVIOUS
<1> QED BY <1>1, <1>2, SumsAreInt

LEMMA SumOfNone ==
    ASSUME NEW f
    PROVE  SumFunctionOnSet(f, {}) = 0
<1>1. IsFiniteSet({})
    BY FS_EmptySet
<1>2. PICK g : SumsUp(g, f, {}) /\ SumFunctionOnSet(f, {}) = g[{}]
    BY <1>1, SumIs
<1> QED BY <1>2, EmptySum, Zenon

LEMMA SumSame ==
    ASSUME NEW S, IsFiniteSet(S), NEW f, \A x \in S : f[x] \in Int, NEW e, \A x \in S : f[x] = e[x]
    PROVE  SumFunctionOnSet(f, S) = SumFunctionOnSet(e, S)
<1>1. PICK g : SumsUp(g, f, S) /\ SumFunctionOnSet(f, S) = g[S]
    BY SumIs
<1>2. \A x \in S : e[x] \in Int
    OBVIOUS
<1>3. PICK h : SumsUp(h, e, S) /\ SumFunctionOnSet(e, S) = h[S]
    BY <1>2, SumIs
<1>4. g[S] = h[S]
    BY <1>1, <1>3, SumsAgree
<1> QED BY <1>1, <1>3, <1>4

\* One term of a sum.
LEMMA SumWithout ==
    ASSUME NEW S, IsFiniteSet(S), NEW f, \A x \in S : f[x] \in Int, NEW x \in S
    PROVE  SumFunctionOnSet(f, S) = f[x] + SumFunctionOnSet(f, S \ {x})
<1>1. PICK g : SumsUp(g, f, S) /\ SumFunctionOnSet(f, S) = g[S]
    BY SumIs
<1>2. PICK T : T = S \ {x}
    OBVIOUS
<1>3. IsFiniteSet(T) /\ T \in SUBSET S
    BY <1>2, FS_Subset
<1>4. PICK h : SumsUp(h, f, T) /\ SumFunctionOnSet(f, T) = h[T]
    BY <1>3, SumIs
<1>5. g[T] = h[T]
    BY <1>1, <1>3, <1>4, SumsAgree
<1>6. g[S] = f[x] + g[S \ {x}]
    <2>1. S \in SUBSET S
        OBVIOUS
    <2> QED BY <1>1, <2>1, SumTakesAny
<1> QED BY <1>1, <1>2, <1>4, <1>5, <1>6

\* d is the sum of f and e on S.
AreAdded(d, f, e, S) == \A x \in S : f[x] \in Int /\ e[x] \in Int /\ d[x] = f[x] + e[x]

\* A sum of sums.
LEMMA SumPlus ==
    ASSUME NEW S, IsFiniteSet(S), NEW f, NEW e, NEW d, AreAdded(d, f, e, S)
    PROVE  SumFunctionOnSet(d, S) = SumFunctionOnSet(f, S) + SumFunctionOnSet(e, S)
<1>0. \A x \in S : f[x] \in Int /\ e[x] \in Int /\ d[x] = f[x] + e[x]
    BY DEF AreAdded
<1>1. PICK g : SumsUp(g, f, S) /\ SumFunctionOnSet(f, S) = g[S]
    BY <1>0, SumIs
<1>2. PICK h : SumsUp(h, e, S) /\ SumFunctionOnSet(e, S) = h[S]
    BY <1>0, SumIs
<1>3. \A x \in S : d[x] \in Int
    BY <1>0
<1>4. PICK k : SumsUp(k, d, S) /\ SumFunctionOnSet(d, S) = k[S]
    BY <1>3, SumIs
<1>5. \A s \in SUBSET S : k[s] = g[s] + h[s]
    <2> DEFINE B == { s \in SUBSET S : k[s] /= g[s] + h[s] }
    <2> SUFFICES ASSUME B /= {}
                 PROVE  FALSE
        OBVIOUS
    <2>1. PICK s \in B : \A x \in s : s \ {x} \notin B
        <3>1. B \subseteq SUBSET S
            OBVIOUS
        <3> QED BY <3>1, SmallestExists
    <2>2. s \in SUBSET S /\ k[s] /= g[s] + h[s]
        OBVIOUS
    <2>3. s /= {}
        <3>1. g[{}] = 0 /\ h[{}] = 0 /\ k[{}] = 0
            BY <1>1, <1>2, <1>4, EmptySum, Zenon
        <3>2. k[{}] = g[{}] + h[{}]
            BY <3>1
        <3> QED BY <2>2, <3>2, Zenon
    <2>4. /\ g[s] = f[Taken(s)] + g[s \ {Taken(s)}] /\ Taken(s) \in s /\ s \ {Taken(s)} \in SUBSET S
        <3>1. g[s] = f[Taken(s)] + g[s \ {Taken(s)}]
            BY <1>1, <2>2, <2>3, SumStep
        <3>2. Taken(s) \in s /\ s \ {Taken(s)} \in SUBSET S
            BY <2>2, <2>3, TakenFacts
        <3> QED BY <3>1, <3>2
    <2>5. h[s] = e[Taken(s)] + h[s \ {Taken(s)}]
        BY <1>2, <2>2, <2>3, SumStep
    <2>6. k[s] = d[Taken(s)] + k[s \ {Taken(s)}]
        BY <1>3, <1>4, <2>2, <2>3, SumStep
    <2>7. PICK y : y = Taken(s)
        OBVIOUS
    <2>8. k[s \ {y}] = g[s \ {y}] + h[s \ {y}]
        BY <2>1, <2>4, <2>7
    <2>9. g[s \ {y}] \in Int /\ h[s \ {y}] \in Int
        BY <1>0, <1>1, <1>2, <2>4, <2>7, SumsAreInt
    <2>10. f[y] \in Int /\ e[y] \in Int /\ d[y] = f[y] + e[y]
        BY <1>0, <2>2, <2>4, <2>7
    <2> QED BY <2>2, <2>4, <2>5, <2>6, <2>7, <2>8, <2>9, <2>10
<1> QED BY <1>1, <1>2, <1>4, <1>5

\* A sum of nothing but zeros.
LEMMA SumOfZeros ==
    ASSUME NEW S, IsFiniteSet(S), NEW f, \A x \in S : f[x] = 0
    PROVE  SumFunctionOnSet(f, S) = 0
<1>1. AreAdded(f, f, f, S) /\ \A x \in S : f[x] \in Int
    BY DEF AreAdded
<1>2. SumFunctionOnSet(f, S) = SumFunctionOnSet(f, S) + SumFunctionOnSet(f, S)
    BY <1>1, SumPlus
<1>3. SumFunctionOnSet(f, S) \in Int
    BY <1>1, SumIsInt
<1>4. \A n \in Int : n = n + n => n = 0
    OBVIOUS
<1> QED BY <1>2, <1>3, <1>4, Zenon

\* A product of integers is an integer.
LEMMA ProductIsInt ==
    ASSUME NEW f, IsFiniteSet(DOMAIN f), \A x \in DOMAIN f : f[x] \in Int
    PROVE  FoldFunction(LAMBDA a, b : a * b, 1, f) \in Int
<1> DEFINE S == DOMAIN f
           at == CHOOSE g : Multiplies(g, f, S)
<1>1. \E g : Multiplies(g, f, S)
    BY ProductExists
<1>2. Multiplies(at, f, S)
    BY <1>1, Zenon
<1>3. FoldFunction(LAMBDA a, b : a * b, 1, f) = at[S]
    BY Zenon DEF FoldFunction, FoldFunctionOnSet, MapThenFoldSet, Multiplies, Taken
<1> HIDE DEF at
<1>4. \A s \in SUBSET S : at[s] \in Int
    <2> DEFINE B == { s \in SUBSET S : at[s] \notin Int }
    <2> SUFFICES ASSUME B /= {}
                 PROVE  FALSE
        OBVIOUS
    <2>1. PICK s \in B : \A x \in s : s \ {x} \notin B
        <3>1. B \subseteq SUBSET S
            OBVIOUS
        <3> QED BY <3>1, SmallestExists
    <2>2. s \in SUBSET S /\ at[s] \notin Int
        OBVIOUS
    <2>3. at[s] = IF s = {} THEN 1 ELSE f[Taken(s)] * at[s \ {Taken(s)}]
        BY <1>2, <2>2, Zenon DEF Multiplies
    <2>4. s /= {}
        BY <2>2, <2>3
    <2>5. Taken(s) \in s /\ s \ {Taken(s)} \in SUBSET S
        BY <2>2, <2>4, TakenFacts
    <2>6. at[s \ {Taken(s)}] \in Int /\ f[Taken(s)] \in Int
        BY <2>1, <2>2, <2>5
    <2> QED BY <2>2, <2>3, <2>4, <2>6
<1>5. S \in SUBSET S
    OBVIOUS
<1> QED BY <1>3, <1>4, <1>5
-----------------------------------------------------------------------------
(* The referee: points *)

LEMMA CoordinatesAreFinite == IsFiniteSet(Coordinates) /\ IsFiniteSet(SUBSET Coordinates)
<1>1. Size \in Nat
    BY EngineAssumption
<1>2. IsFiniteSet(1..Size)
    BY <1>1, FS_Interval
<1>3. IsFiniteSet(Coordinates)
    BY <1>2, FS_Product DEF Coordinates
<1> QED BY <1>3, FS_SUBSET

LEMMA SeatsAreFinite == IsFiniteSet(EngineSeats)
<1>1. Players \in Nat
    BY EngineAssumption
<1> QED BY <1>1, FS_Interval DEF EngineSeats

LettersAreKnown(b) == \A c \in Coordinates : b[c] /= NoTile => b[c].letter \in Letters

\* What a letter on the board is worth.
LEMMA LetterScoreIsInt ==
    ASSUME NEW b, LettersAreKnown(b), NEW c \in Coordinates, b[c] /= NoTile, NEW fresh
    PROVE  LetterScore(b, c, fresh) \in Int
<1> DEFINE value == IF Face[b[c].tile] = "blank" THEN 0 ELSE LetterValue[b[c].letter]
           times == CASE c \in fresh /\ PremiumOf(c) = "double_letter" -> 2
                      [] c \in fresh /\ PremiumOf(c) = "triple_letter" -> 3
                      [] OTHER -> 1
<1>1. b[c].letter \in Letters
    BY DEF LettersAreKnown
<1>2. value \in Int
    BY <1>1, EngineAssumption
<1>3. times \in Int
    <2>1. 1 \in Int /\ 2 \in Int /\ 3 \in Int
        OBVIOUS
    <2> QED BY <2>1
<1>4. LetterScore(b, c, fresh) = value * times
    BY Zenon DEF LetterScore
<1> HIDE DEF value, times
<1> QED BY <1>2, <1>3, <1>4

\* What a word is worth.
LEMMA WordScoreIsInt ==
    ASSUME NEW b, LettersAreKnown(b), NEW w \in SUBSET Coordinates, \A c \in w : b[c] /= NoTile, NEW fresh
    PROVE  WordScore(b, w, fresh) \in Int
<1> DEFINE letters == [c \in w |-> LetterScore(b, c, fresh)]
           times == [c \in w |-> CASE c \in fresh /\ PremiumOf(c) = "double_word" -> 2
                                   [] c \in fresh /\ PremiumOf(c) = "triple_word" -> 3
                                   [] OTHER -> 1]
<1>1. IsFiniteSet(w)
    BY CoordinatesAreFinite, FS_Subset
<1>2. DOMAIN letters = w /\ \A c \in w : letters[c] \in Int
    BY LetterScoreIsInt
<1>3. DOMAIN times = w /\ \A c \in w : times[c] \in Int
    <2>1. 1 \in Int /\ 2 \in Int /\ 3 \in Int
        OBVIOUS
    <2> QED BY <2>1
<1>4. WordScore(b, w, fresh) = SumFunction(letters) * FoldFunction(LAMBDA m, n : m * n, 1, times)
    BY Zenon DEF WordScore, WordMultiplier
<1> HIDE DEF letters, times
<1>5. SumFunction(letters) \in Int
    BY <1>1, <1>2, SumIsInt DEF SumFunction
<1>6. FoldFunction(LAMBDA m, n : m * n, 1, times) \in Int
    BY <1>1, <1>3, ProductIsInt
<1>7. \E t \in Int : WordScore(b, w, fresh) = SumFunction(letters) * t
    BY <1>4, <1>6, Zenon
<1> QED BY <1>5, <1>7

\* What a move is worth.
LEMMA MoveScoreIsInt ==
    ASSUME NEW b, LettersAreKnown(b), NEW ps, \A p \in ps : p.at \in Coordinates
    PROVE  MoveScore(b, ps) \in Int
<1> DEFINE fresh == { p.at : p \in ps }
           words == [w \in FormedWords(b, ps) |-> WordScore(b, w, fresh)]
           bonus == IF Cardinality(ps) = RackCapacity THEN BingoBonus ELSE 0
<1>1. ASSUME NEW w \in FormedWords(b, ps)
      PROVE  w \in SUBSET Coordinates /\ \A c \in w : b[c] /= NoTile
    <2>1. PICK p \in ps : \E line \in Lines : w = word_segment(b, p.at, line)
        <3>1. w \in FormedRuns(b, ps)
            BY DEF FormedWords
        <3> QED BY <3>1 DEF FormedRuns
    <2>2. ASSUME NEW c \in w
          PROVE  c \in Coordinates /\ b[c] /= NoTile
        <3>1. c \in Coordinates /\ \A e \in Between(p.at, c) : b[e] /= NoTile
            BY <2>1, <2>2 DEF word_segment
        <3>2. c \in Between(p.at, c)
            BY <3>1, BetweenFacts
        <3> QED BY <3>1, <3>2
    <2> QED BY <2>2
<1>2. FormedWords(b, ps) \in SUBSET (SUBSET Coordinates)
    BY <1>1
<1>3. IsFiniteSet(FormedWords(b, ps))
    BY <1>2, CoordinatesAreFinite, FS_Subset
<1>4. DOMAIN words = FormedWords(b, ps) /\ \A w \in FormedWords(b, ps) : words[w] \in Int
    BY <1>1, WordScoreIsInt
<1>5. MoveScore(b, ps) = SumFunction(words) + bonus
    BY Zenon DEF MoveScore
<1> HIDE DEF words
<1>6. SumFunction(words) \in Int
    BY <1>3, <1>4, SumIsInt DEF SumFunction
<1>7. bonus \in Int
    BY EngineAssumption
<1> HIDE DEF bonus
<1> QED BY <1>5, <1>6, <1>7

\* What a rack is worth.
LEMMA RackValueIsInt ==
    ASSUME NEW rack \in Seq(Tiles)
    PROVE  RackValue(rack) \in Int /\ (rack = <<>> => RackValue(rack) = 0)
<1> DEFINE values == [i \in DOMAIN rack |->
                        IF Face[rack[i]] = "blank" THEN 0 ELSE LetterValue[Face[rack[i]]]]
<1>1. DOMAIN rack = 1..Len(rack) /\ Len(rack) \in Nat /\ \A i \in 1..Len(rack) : rack[i] \in Tiles
    OBVIOUS
<1>2. \A t \in Tiles : Face[t] \in Letters \cup {"blank"}
    BY EngineAssumption DEF Tiles
<1>3. DOMAIN values = DOMAIN rack /\ \A i \in DOMAIN rack : values[i] \in Int
    <2> SUFFICES ASSUME NEW i \in DOMAIN rack
                 PROVE  values[i] \in Int
        OBVIOUS
    <2>1. Face[rack[i]] \in Letters \cup {"blank"}
        BY <1>1, <1>2
    <2> QED BY <2>1, EngineAssumption
<1>4. RackValue(rack) = SumFunction(values)
    BY Zenon DEF RackValue
<1> HIDE DEF values
<1>5. IsFiniteSet(DOMAIN rack)
    BY <1>1, FS_Interval
<1>6. RackValue(rack) \in Int
    BY <1>3, <1>4, <1>5, SumIsInt DEF SumFunction
<1>7. rack = <<>> => DOMAIN rack = {}
    OBVIOUS
<1>8. rack = <<>> => RackValue(rack) = 0
    BY <1>3, <1>4, <1>7, SumOfNone DEF SumFunction
<1> QED BY <1>6, <1>8

ValuesOf(racks) == [s \in EngineSeats |-> RackValue(racks[s])]

\* What a settlement is given, and what it leaves of the total.
IsSettled(after, scores, racks, reason, seat) ==
    /\ scores \in [EngineSeats -> Int] /\ racks \in [EngineSeats -> Seq(Tiles)]
    /\ reason \in {"resignation", "scoreless", "rack_emptied"} /\ seat \in EngineSeats
    /\ reason = "rack_emptied" => racks[seat] = <<>>
    /\ after = Settled(scores, racks, reason, seat)

SettledTotal(after, scores, racks, reason) ==
    /\ after \in [EngineSeats -> Int]
    /\ SumFunction(after) = IF reason = "scoreless"
                            THEN SumFunction(scores) - SumFunction(ValuesOf(racks))
                            ELSE SumFunction(scores)

\* What the end of a game does to the points: it takes the racks' from all
\* when nobody scored for long, and it moves them to the player who went out.
LEMMA SettledSum ==
    ASSUME NEW scores, NEW racks, NEW reason, NEW seat, NEW after,
           IsSettled(after, scores, racks, reason, seat)
    PROVE  SettledTotal(after, scores, racks, reason)
<1> SUFFICES ASSUME scores \in [EngineSeats -> Int], racks \in [EngineSeats -> Seq(Tiles)],
                    reason \in {"resignation", "scoreless", "rack_emptied"}, seat \in EngineSeats,
                    reason = "rack_emptied" => racks[seat] = <<>>,
                    after = Settled(scores, racks, reason, seat)
             PROVE  /\ after \in [EngineSeats -> Int]
                    /\ SumFunction(after) = IF reason = "scoreless"
                                            THEN SumFunction(scores) - SumFunction(ValuesOf(racks))
                                            ELSE SumFunction(scores)
    BY Zenon DEF IsSettled, SettledTotal
<1> DEFINE values == ValuesOf(racks)
           rest == SumFunctionOnSet(values, EngineSeats \ {seat})
           total(f) == SumFunctionOnSet(f, EngineSeats)
<1>1. values \in [EngineSeats -> Int] /\ (reason = "rack_emptied" => values[seat] = 0)
    BY RackValueIsInt DEF ValuesOf
<1>2. IsFiniteSet(EngineSeats) /\ IsFiniteSet(EngineSeats \ {seat})
    BY SeatsAreFinite, FS_RemoveElement
<1>3. ASSUME NEW f, DOMAIN f = EngineSeats
      PROVE  SumFunction(f) = total(f)
    BY <1>3 DEF SumFunction
<1>4. rest \in Int
    BY <1>1, <1>2, SumIsInt
<1>5. DOMAIN after = EngineSeats /\ after = [s \in EngineSeats |-> after[s]]
    BY DEF Settled
<1>6. \A s \in EngineSeats :
        after[s] = CASE reason = "resignation" -> scores[s]
                     [] reason = "rack_emptied" /\ s = seat -> scores[s] + rest
                     [] OTHER -> scores[s] - values[s]
    <2>1. ASSUME NEW s \in EngineSeats
          PROVE  after[s] = CASE reason = "resignation" -> scores[s]
                              [] reason = "rack_emptied" /\ s = seat ->
                                    scores[s] + SumFunctionOnSet(values, EngineSeats \ {s})
                              [] OTHER -> scores[s] - RackValue(racks[s])
        BY Zenon DEF Settled, ValuesOf
    <2>2. \A s \in EngineSeats : values[s] = RackValue(racks[s])
        BY DEF ValuesOf
    <2> QED BY <2>1, <2>2
<1> HIDE DEF values, rest
<1>7. CASE reason = "resignation"
    <2>1. after = scores
        <3>1. \A s \in EngineSeats : after[s] = scores[s]
            BY <1>6, <1>7
        <3>2. scores = [s \in EngineSeats |-> scores[s]]
            OBVIOUS
        <3> QED BY <1>5, <3>1, <3>2, Zenon
    <2> QED BY <1>7, <2>1
<1>8. CASE reason = "scoreless"
    <2>1. \A s \in EngineSeats : after[s] \in Int /\ scores[s] = after[s] + values[s]
        BY <1>1, <1>6, <1>8
    <2>2. total(scores) = total(after) + total(values)
        <3>1. AreAdded(scores, after, values, EngineSeats)
            BY <1>1, <2>1 DEF AreAdded
        <3> QED BY <1>2, <3>1, SumPlus
    <2>3. total(after) \in Int /\ total(values) \in Int
        BY <1>1, <1>2, <2>1, SumIsInt
    <2>4. after \in [EngineSeats -> Int]
        BY <1>5, <2>1
    <2>5. SumFunction(after) = total(after) /\ SumFunction(scores) = total(scores)
          /\ SumFunction(values) = total(values)
        BY <1>1, <1>3, <1>5
    <2>6. total(after) = total(scores) - total(values)
        BY <2>2, <2>3
    <2> QED BY <1>8, <2>4, <2>5, <2>6 DEF values
<1>9. CASE reason = "rack_emptied"
    <2> DEFINE gain == [s \in EngineSeats |-> IF s = seat THEN rest ELSE 0]
               sum == [s \in EngineSeats |-> scores[s] + gain[s]]
    <2>1. gain \in [EngineSeats -> Int] /\ sum \in [EngineSeats -> Int]
        BY <1>4
    <2>2. \A s \in EngineSeats : after[s] \in Int /\ sum[s] = after[s] + values[s]
        BY <1>1, <1>4, <1>6, <1>9
    <2>3. \A s \in EngineSeats : sum[s] = scores[s] + gain[s]
        OBVIOUS
    <2>4. gain[seat] = rest /\ \A s \in EngineSeats \ {seat} : gain[s] = 0
        OBVIOUS
    <2> HIDE DEF gain, sum
    <2>5. total(sum) = total(after) + total(values)
        <3>1. AreAdded(sum, after, values, EngineSeats)
            BY <1>1, <2>2 DEF AreAdded
        <3> QED BY <1>2, <3>1, SumPlus
    <2>6. total(sum) = total(scores) + total(gain)
        <3>1. AreAdded(sum, scores, gain, EngineSeats)
            BY <2>1, <2>3 DEF AreAdded
        <3> QED BY <1>2, <3>1, SumPlus
    <2>7. total(values) = rest
        <3>1. total(values) = values[seat] + rest
            BY <1>1, <1>2, SumWithout DEF rest
        <3> QED BY <1>1, <1>4, <1>9, <3>1
    <2>8. total(gain) = rest
        <3>1. total(gain) = rest + SumFunctionOnSet(gain, EngineSeats \ {seat})
            BY <1>2, <2>1, <2>4, SumWithout
        <3>2. SumFunctionOnSet(gain, EngineSeats \ {seat}) = 0
            BY <1>2, <2>4, SumOfZeros
        <3> QED BY <1>4, <3>1, <3>2
    <2>9. total(after) \in Int /\ total(scores) \in Int
        BY <1>2, <2>2, SumIsInt
    <2>10. total(after) = total(scores)
        BY <1>4, <2>5, <2>6, <2>7, <2>8, <2>9
    <2>11. after \in [EngineSeats -> Int]
        BY <1>5, <2>2
    <2>12. SumFunction(after) = total(after) /\ SumFunction(scores) = total(scores)
        BY <1>3, <1>5
    <2> QED BY <1>9, <2>10, <2>11, <2>12
<1> QED BY <1>7, <1>8, <1>9

\* The points an event gives a seat.
Points(e, s) == IF e.move.kind = "played" /\ e.move.seat = s THEN e.move.score ELSE 0

PlayedIn(events, s) == SumFunction([i \in DOMAIN events |-> Points(events[i], s)])

PointsAreInt(events) == \A i \in DOMAIN events : \A s \in EngineSeats : Points(events[i], s) \in Int

TotalPlayed(events) == SumFunction([s \in EngineSeats |-> PlayedIn(events, s)])

\* One more event adds its points.
LEMMA PlayedOneMore ==
    ASSUME NEW S, NEW events \in Seq(S), NEW e \in S, PointsAreInt(events), NEW s \in EngineSeats,
           Points(e, s) \in Int
    PROVE  /\ PlayedIn(events, s) \in Int
           /\ PlayedIn(Append(events, e), s) = PlayedIn(events, s) + Points(e, s)
<1> DEFINE n == Len(events)
           f == [i \in DOMAIN events |-> Points(events[i], s)]
           more == Append(events, e)
           g == [i \in DOMAIN more |-> Points(more[i], s)]
<1>1. n \in Nat /\ DOMAIN events = 1..n /\ DOMAIN more = 1..n + 1 /\ more[n + 1] = e
      /\ \A i \in 1..n : more[i] = events[i]
    OBVIOUS
<1>2. DOMAIN f = 1..n /\ \A i \in 1..n : f[i] \in Int
    BY <1>1 DEF PointsAreInt
<1>3. DOMAIN g = 1..n + 1 /\ g[n + 1] = Points(e, s) /\ \A i \in 1..n : g[i] = f[i]
    BY <1>1
<1>4. PlayedIn(events, s) = SumFunction(f) /\ PlayedIn(more, s) = SumFunction(g)
    BY Zenon DEF PlayedIn
<1> HIDE DEF n, f, g, more
<1>5. IsFiniteSet(1..n) /\ IsFiniteSet(1..n + 1) /\ n + 1 \in 1..n + 1 /\ (1..n + 1) \ {n + 1} = 1..n
    <2>1. IsFiniteSet(1..n)
        BY <1>1, FS_Interval
    <2>2. n + 1 \in Nat
        BY <1>1
    <2>3. IsFiniteSet(1..n + 1)
        BY <2>2, FS_Interval
    <2> QED BY <1>1, <2>1, <2>3
<1>6. \A i \in 1..n + 1 : g[i] \in Int
    BY <1>1, <1>2, <1>3
<1>7. SumFunctionOnSet(g, 1..n + 1) = g[n + 1] + SumFunctionOnSet(g, (1..n + 1) \ {n + 1})
    BY <1>5, <1>6, SumWithout
<1>8. SumFunctionOnSet(g, 1..n) = SumFunctionOnSet(f, 1..n)
    BY <1>2, <1>3, <1>5, SumSame
<1>9. SumFunctionOnSet(f, 1..n) \in Int
    BY <1>2, <1>5, SumIsInt
<1>10. SumFunction(f) = SumFunctionOnSet(f, 1..n) /\ SumFunction(g) = SumFunctionOnSet(g, 1..n + 1)
    BY <1>2, <1>3, Zenon DEF SumFunction
<1>11. SumFunction(g) = Points(e, s) + SumFunction(f)
    BY <1>3, <1>5, <1>7, <1>8, <1>10, Zenon
<1>12. SumFunction(f) \in Int
    BY <1>9, <1>10
<1>13. PlayedIn(more, s) = PlayedIn(events, s) + Points(e, s) /\ PlayedIn(events, s) \in Int
    BY <1>4, <1>11, <1>12
<1> QED BY <1>13 DEF more

\* The scores are the log's points, settled when the game is over.
PointsAddUp(g) ==
    /\ g.scores \in [EngineSeats -> Int] /\ PointsAreInt(g.events)
    /\ g.phase = "active" => g.reason = "none"
    /\ SumFunction(g.scores) = IF g.reason = "scoreless"
                               THEN TotalPlayed(g.events) - SumFunction(ValuesOf(g.racks))
                               ELSE TotalPlayed(g.events)

\* A turn of g to h that logs e, whose points make the scores to settle.
TurnAdds(g, h, e, scores, seat) ==
    /\ \E S : g.events \in Seq(S) /\ e \in S
    /\ h.events = Append(g.events, e)
    /\ h.racks \in [EngineSeats -> Seq(Tiles)] /\ h.phase \in {"active", "finished"}
    /\ scores \in [EngineSeats -> Int] /\ seat \in EngineSeats
    /\ \A s \in EngineSeats : Points(e, s) \in Int /\ scores[s] = g.scores[s] + Points(e, s)
    /\ ScoresFollow(g, h, scores, seat)

\* A turn that adds the points its event tells of.
LEMMA TurnKeepsPoints ==
    ASSUME NEW g, PointsAddUp(g), g.phase = "active", NEW h, NEW e, NEW scores, NEW seat,
           TurnAdds(g, h, e, scores, seat)
    PROVE  PointsAddUp(h)
<1> SUFFICES ASSUME NEW S, g.events \in Seq(S), e \in S, h.events = Append(g.events, e),
                    h.racks \in [EngineSeats -> Seq(Tiles)], h.phase \in {"active", "finished"},
                    scores \in [EngineSeats -> Int], seat \in EngineSeats,
                    \A s \in EngineSeats :
                        Points(e, s) \in Int /\ scores[s] = g.scores[s] + Points(e, s),
                    ScoresFollow(g, h, scores, seat)
             PROVE  PointsAddUp(h)
    BY Zenon DEF TurnAdds
<1> DEFINE played == [s \in EngineSeats |-> PlayedIn(g.events, s)]
           now == [s \in EngineSeats |-> PlayedIn(h.events, s)]
           gain == [s \in EngineSeats |-> Points(e, s)]
           total(f) == SumFunctionOnSet(f, EngineSeats)
<1>1. g.scores \in [EngineSeats -> Int] /\ PointsAreInt(g.events) /\ g.reason = "none"
    BY DEF PointsAddUp
<1>2. SumFunction(g.scores) = TotalPlayed(g.events)
    BY <1>1 DEF PointsAddUp
<1>3. PointsAreInt(h.events)
    <2> SUFFICES ASSUME NEW i \in DOMAIN h.events, NEW s \in EngineSeats
                 PROVE  Points(h.events[i], s) \in Int
        BY DEF PointsAreInt
    <2>1. i = Len(g.events) + 1 \/ (i \in DOMAIN g.events /\ h.events[i] = g.events[i])
        OBVIOUS
    <2>2. h.events[Len(g.events) + 1] = e
        OBVIOUS
    <2> QED BY <1>1, <2>1, <2>2 DEF PointsAreInt
<1>4. /\ played \in [EngineSeats -> Int] /\ now \in [EngineSeats -> Int] /\ gain \in [EngineSeats -> Int]
      /\ \A s \in EngineSeats : now[s] = played[s] + gain[s]
    <2>1. ASSUME NEW s \in EngineSeats
          PROVE  PlayedIn(g.events, s) \in Int /\ PlayedIn(h.events, s) = PlayedIn(g.events, s) + Points(e, s)
        BY <1>1, PlayedOneMore
    <2>2. ASSUME NEW s \in EngineSeats
          PROVE  PlayedIn(h.events, s) \in Int
        BY <2>1
    <2> QED BY <2>1, <2>2
<1>5. TotalPlayed(g.events) = SumFunction(played) /\ TotalPlayed(h.events) = SumFunction(now)
    BY Zenon DEF TotalPlayed
<1>6. \A s \in EngineSeats : scores[s] = g.scores[s] + gain[s]
    OBVIOUS
<1> HIDE DEF played, now, gain
<1>7. ASSUME NEW f \in [EngineSeats -> Int]
      PROVE  SumFunction(f) = total(f) /\ total(f) \in Int
    <2>1. DOMAIN f = EngineSeats
        OBVIOUS
    <2>2. total(f) \in Int
        BY SeatsAreFinite, SumIsInt
    <2> QED BY <2>1, <2>2 DEF SumFunction
<1>8. total(now) = total(played) + total(gain)
    <2>1. AreAdded(now, played, gain, EngineSeats)
        BY <1>4 DEF AreAdded
    <2> QED BY <2>1, SeatsAreFinite, SumPlus
<1>9. total(scores) = total(g.scores) + total(gain)
    <2>1. AreAdded(scores, g.scores, gain, EngineSeats)
        BY <1>1, <1>4, <1>6 DEF AreAdded
    <2> QED BY <2>1, SeatsAreFinite, SumPlus
<1>10. SumFunction(scores) = TotalPlayed(h.events)
    <2>1. total(g.scores) = total(played)
        BY <1>1, <1>2, <1>4, <1>5, <1>7
    <2>2. total(scores) = total(now)
        BY <1>8, <1>9, <2>1
    <2> QED BY <1>4, <1>5, <1>7, <2>2
<1>11. CASE h.scores = scores /\ h.reason = g.reason
    BY <1>1, <1>3, <1>10, <1>11 DEF PointsAddUp
<1>12. CASE /\ h.phase = "finished" /\ h.reason \in {"resignation", "scoreless", "rack_emptied"}
            /\ h.scores = Settled(scores, h.racks, h.reason, seat)
            /\ h.reason = "rack_emptied" => h.racks[seat] = <<>>
    <2>1. /\ h.scores \in [EngineSeats -> Int]
          /\ SumFunction(h.scores) = IF h.reason = "scoreless"
                                     THEN SumFunction(scores) - SumFunction(ValuesOf(h.racks))
                                     ELSE SumFunction(scores)
        <3>1. IsSettled(h.scores, scores, h.racks, h.reason, seat)
            BY <1>12 DEF IsSettled
        <3>2. SettledTotal(h.scores, scores, h.racks, h.reason)
            BY <3>1, SettledSum
        <3> QED BY <3>2, Zenon DEF SettledTotal
    <2> QED BY <1>3, <1>10, <1>12, <2>1 DEF PointsAddUp
<1> QED BY <1>11, <1>12 DEF ScoresFollow

-----------------------------------------------------------------------------
(* The referee: the game stays sound *)

\* Whose turn it is, how many there were, and how the game stands.
CountersAreSound(g) ==
    /\ g.current \in EngineSeats
    /\ g.version \in Nat /\ g.version = Len(g.events) /\ \E S : g.events \in Seq(S)
    /\ g.scoreless \in 0..ScorelessTurnLimit
    /\ g.phase \in {"active", "finished"} /\ (g.phase = "active" => g.scoreless < ScorelessTurnLimit)
    /\ g.winner \in 0..Players

SoundGame(g) ==
    /\ DOMAIN g = GameFields /\ CountersAreSound(g) /\ TilesAreSound(g)
    /\ WordsAreValid(g.board) /\ HangsTogether(g.board)
    /\ LettersAreKnown(g.board) /\ PointsAddUp(g)

\* The inductive invariant of the referee.
EngineInv == seed \in Nat /\ SoundGame(game) /\ refused = FALSE

\* A turn keeps the counters.
LEMMA TurnKeepsCounters ==
    ASSUME NEW g, CountersAreSound(g), g.phase = "active", NEW h, NEW move,
           TurnEffect(g, h, g.current, move)
    PROVE  DOMAIN h = GameFields /\ CountersAreSound(h)
<1>1. DOMAIN h = GameFields /\ h.version = g.version + 1 /\ g.version \in Nat
    BY DEF TurnEffect, CountersAreSound
<1>2. h.current \in EngineSeats
    BY EngineConstants DEF TurnEffect, CountersAreSound, NextSeat, EngineSeats
<1>3. \E S : h.events \in Seq(S) /\ Len(h.events) = g.version + 1
    <2>1. PICK S : g.events \in Seq(S) /\ g.version = Len(g.events)
        BY DEF CountersAreSound
    <2>2. PICK after : h.events = Append(g.events, [move |-> move, after |-> after])
        BY DEF TurnEffect
    <2>3. PICK e : e = [move |-> move, after |-> after]
        OBVIOUS
    <2>4. g.events \in Seq(S \cup {e}) /\ e \in S \cup {e}
        BY <2>1
    <2>5. h.events \in Seq(S \cup {e}) /\ Len(h.events) = Len(g.events) + 1
        BY <2>2, <2>3, <2>4
    <2> QED BY <2>1, <2>5
<1>4. /\ ScorelessTurnLimit \in Nat /\ g.scoreless \in 0..ScorelessTurnLimit
      /\ g.scoreless < ScorelessTurnLimit
    BY EngineAssumption DEF CountersAreSound
<1>5. h.scoreless \in {0, g.scoreless, g.scoreless + 1}
    BY DEF TurnEffect
<1>6. h.scoreless \in 0..ScorelessTurnLimit
    BY <1>4, <1>5
<1>7. h.phase \in {"active", "finished"} /\ (h.phase = "active" => h.scoreless < ScorelessTurnLimit)
    BY <1>4, <1>6 DEF TurnEffect
<1>8. h.winner \in 0..Players
    BY DEF TurnEffect, CountersAreSound
<1> QED BY <1>1, <1>2, <1>3, <1>6, <1>7, <1>8 DEF CountersAreSound

\* A move that scores nothing keeps the points, whatever it does to the tiles.
LEMMA ScorelessMoveKeepsPoints ==
    ASSUME NEW g, SoundGame(g), g.phase = "active", NEW h, TilesAreSound(h), NEW move,
           TurnEffect(g, h, g.current, move), move.kind /= "played",
           ScoresFollow(g, h, g.scores, g.current)
    PROVE  PointsAddUp(h)
<1>1. PointsAddUp(g) /\ CountersAreSound(g) /\ h.racks \in [EngineSeats -> Seq(Tiles)]
    BY DEF SoundGame, TilesAreSound
<1>2. PICK after : h.events = Append(g.events, [move |-> move, after |-> after])
    BY DEF TurnEffect
<1>3. PICK e : e = [move |-> move, after |-> after]
    OBVIOUS
<1>4. PICK S : g.events \in Seq(S)
    BY <1>1 DEF CountersAreSound
<1>5. PICK T : T = S \cup {e}
    OBVIOUS
<1>6. g.events \in Seq(T) /\ e \in T /\ h.events = Append(g.events, e)
    BY <1>2, <1>3, <1>4, <1>5
<1>7. \A s : Points(e, s) = 0
    BY <1>3 DEF Points
<1>8. g.scores \in [EngineSeats -> Int]
    BY <1>1 DEF PointsAddUp
<1>9. \A s \in EngineSeats : Points(e, s) \in Int /\ g.scores[s] = g.scores[s] + Points(e, s)
    BY <1>7, <1>8
<1>10. h.phase \in {"active", "finished"} /\ g.current \in EngineSeats
    BY <1>1 DEF TurnEffect, CountersAreSound
<1>11. TurnAdds(g, h, e, g.scores, g.current)
    BY <1>1, <1>6, <1>8, <1>9, <1>10, Zenon DEF TurnAdds
<1> QED BY <1>1, <1>11, TurnKeepsPoints

\* A placement adds its score to the player's.
LEMMA PlayKeepsPoints ==
    ASSUME NEW g, SoundGame(g), g.phase = "active", NEW h, TilesAreSound(h),
           NEW score \in Int, NEW ps, NEW move,
           move = [kind |-> "played", seat |-> g.current, placed |-> ps, score |-> score],
           TurnEffect(g, h, g.current, move),
           ScoresFollow(g, h, [g.scores EXCEPT ![g.current] = @ + score], g.current)
    PROVE  PointsAddUp(h)
<1>1. PointsAddUp(g) /\ CountersAreSound(g) /\ h.racks \in [EngineSeats -> Seq(Tiles)]
    BY DEF SoundGame, TilesAreSound
<1>2. PICK after : h.events = Append(g.events, [move |-> move, after |-> after])
    BY DEF TurnEffect
<1>3. PICK e : e = [move |-> move, after |-> after]
    OBVIOUS
<1>4. PICK S : g.events \in Seq(S)
    BY <1>1 DEF CountersAreSound
<1>5. PICK T : T = S \cup {e}
    OBVIOUS
<1>6. g.events \in Seq(T) /\ e \in T /\ h.events = Append(g.events, e)
    BY <1>2, <1>3, <1>4, <1>5
<1>7. \A s : Points(e, s) = IF s = g.current THEN score ELSE 0
    BY <1>3 DEF Points
<1>8. g.scores \in [EngineSeats -> Int]
    BY <1>1 DEF PointsAddUp
<1>9. h.phase \in {"active", "finished"} /\ g.current \in EngineSeats
    BY <1>1 DEF TurnEffect, CountersAreSound
<1>10. PICK scores : scores = [g.scores EXCEPT ![g.current] = @ + score]
    OBVIOUS
<1>11. /\ scores \in [EngineSeats -> Int]
       /\ \A s \in EngineSeats : Points(e, s) \in Int /\ scores[s] = g.scores[s] + Points(e, s)
    BY <1>7, <1>8, <1>9, <1>10
<1>12. ScoresFollow(g, h, scores, g.current)
    BY <1>10
<1>13. TurnAdds(g, h, e, scores, g.current)
    BY <1>1, <1>6, <1>9, <1>11, <1>12, Zenon DEF TurnAdds
<1> QED BY <1>1, <1>13, TurnKeepsPoints

\* A move that leaves every tile where it is.
LEMMA QuietMoveKeepsSound ==
    ASSUME NEW g, SoundGame(g), g.phase = "active", NEW h, NEW move,
           TurnEffect(g, h, g.current, move), TilesOf(h, g.bag, g.racks, g.board),
           move.kind /= "played", ScoresFollow(g, h, g.scores, g.current)
    PROVE  SoundGame(h)
<1>1. DOMAIN h = GameFields /\ CountersAreSound(h)
    BY TurnKeepsCounters DEF SoundGame
<1>2. TilesAreSound(h) /\ h.board = g.board
    BY SameTilesAreSound DEF SoundGame, TilesOf
<1>3. PointsAddUp(h)
    BY <1>2, ScorelessMoveKeepsPoints
<1> QED BY <1>1, <1>2, <1>3 DEF SoundGame

\* An exchange.
LEMMA ExchangeKeepsSound ==
    ASSUME NEW g, SoundGame(g), g.phase = "active", NEW s \in Nat,
           NEW chosen \in SUBSET Tiles, chosen \subseteq ToSet(g.racks[g.current]),
           NEW tiles \in SetToSeqs(chosen)
    PROVE  SoundGame(exchange_tiles(g, s, g.current, tiles))
<1>1. PICK h : h = exchange_tiles(g, s, g.current, tiles)
    OBVIOUS
<1>2. DOMAIN g = GameFields /\ CountersAreSound(g) /\ TilesAreSound(g)
    BY DEF SoundGame
<1>3. g.current \in EngineSeats /\ g.version \in Nat
    BY <1>2 DEF CountersAreSound
<1>4. TilesAreSound(h)
    BY <1>1, <1>2, <1>3, ExchangeKeepsTiles
<1>5. h.board = g.board
    <2>1. \E bag, racks : TilesOf(h, bag, racks, g.board)
        BY <1>1, <1>2, ExchangeEffect
    <2> QED BY <2>1 DEF TilesOf
<1>6. PICK move : TurnEffect(g, h, g.current, move) /\ move.kind = "exchanged"
    <2>1. PICK move : move = [kind |-> "exchanged", seat |-> g.current, tiles |-> Ascending(ToSet(tiles))]
        OBVIOUS
    <2>2. TurnEffect(g, h, g.current, move)
        BY <1>1, <1>2, <2>1, ExchangeEffect
    <2> QED BY <2>1, <2>2
<1>7. DOMAIN h = GameFields /\ CountersAreSound(h)
    BY <1>2, <1>6, TurnKeepsCounters
<1>8. ScoresFollow(g, h, g.scores, g.current)
    BY <1>1, <1>2, ExchangeEffect
<1>9. PointsAddUp(h)
    BY <1>4, <1>6, <1>8, ScorelessMoveKeepsPoints
<1> QED BY <1>1, <1>4, <1>5, <1>7, <1>9 DEF SoundGame

\* A legal placement.
LEMMA PlayKeepsSound ==
    ASSUME NEW g, SoundGame(g), g.phase = "active", NEW ps, IsPlacement(ps),
           \A p \in ps : p.letter \in Letters, LegalPlacement(g, g.current, ps)
    PROVE  SoundGame(play_tiles(g, g.current, ps))
<1>1. PICK h : h = play_tiles(g, g.current, ps)
    OBVIOUS
<1>2. DOMAIN g = GameFields /\ CountersAreSound(g) /\ TilesAreSound(g)
      /\ WordsAreValid(g.board) /\ HangsTogether(g.board)
    BY DEF SoundGame
<1>3. g.current \in EngineSeats
    BY <1>2 DEF CountersAreSound
<1>4. PlacesTiles(g, g.current, ps)
    BY DEF LegalPlacement, Owned, IsPlacement, PlacesTiles
<1>5. TilesAreSound(h)
    BY <1>1, <1>2, <1>3, <1>4, PlayKeepsTiles
<1>6. h.board = Proposed(g.board, ps)
    <2>1. \E bag, racks : TilesOf(h, bag, racks, Proposed(g.board, ps))
        BY <1>1, <1>2, PlayEffect
    <2> QED BY <2>1 DEF TilesOf
<1>7. WordsAreValid(h.board) /\ HangsTogether(h.board)
    BY <1>2, <1>6, PlacementKeepsWords, PlacementHangsTogether
<1>8. LettersAreKnown(h.board)
    <2>1. LettersAreKnown(g.board)
        BY DEF SoundGame
    <2>2. ASSUME NEW c \in Coordinates, h.board[c] /= NoTile
          PROVE  h.board[c].letter \in Letters
        <3>1. CASE \A p \in ps : p.at /= c
            BY <1>6, <2>1, <2>2, <3>1, ProposedFacts DEF LettersAreKnown
        <3>2. CASE \E p \in ps : p.at = c
            <4>1. PICK q : q = CHOOSE p \in ps : p.at = c
                OBVIOUS
            <4>2. q \in ps
                BY <3>2, <4>1
            <4>3. h.board[c] = [tile |-> q.tile, letter |-> q.letter]
                BY <1>6, <3>2, <4>1 DEF Proposed
            <4> QED BY <4>2, <4>3
        <3> QED BY <3>1, <3>2
    <2> QED BY <2>2 DEF LettersAreKnown
<1>9. PICK score : score = MoveScore(Proposed(g.board, ps), ps)
    OBVIOUS
<1>10. score \in Int
    BY <1>6, <1>8, <1>9, MoveScoreIsInt DEF IsPlacement
<1>11. PICK move : move = [kind |-> "played", seat |-> g.current, placed |-> ps, score |-> score]
    OBVIOUS
<1>12. TurnEffect(g, h, g.current, move)
    BY <1>1, <1>2, <1>9, <1>11, PlayEffect
<1>13. ScoresFollow(g, h, [g.scores EXCEPT ![g.current] = @ + score], g.current)
    BY <1>1, <1>2, <1>9, PlayEffect
<1>14. DOMAIN h = GameFields /\ CountersAreSound(h)
    BY <1>2, <1>12, TurnKeepsCounters
<1>15. PointsAddUp(h)
    BY <1>5, <1>10, <1>11, <1>12, <1>13, PlayKeepsPoints
<1> QED BY <1>1, <1>5, <1>7, <1>8, <1>14, <1>15 DEF SoundGame

\* Every candidate names squares of the board and letters.
LEMMA CandidatesArePlacements ==
    ASSUME NEW seat, NEW ps \in Candidates(seat)
    PROVE  IsPlacement(ps) /\ \A p \in ps : p.letter \in Letters
<1>1. PICK f \in UNION { [chosen -> Coordinates \X Letters] : chosen \in SUBSET ToSet(game.racks[seat]) } :
        ps = { [tile |-> t, at |-> f[t][1], letter |-> f[t][2]] : t \in DOMAIN f }
    BY Zenon DEF Candidates
<1>2. PICK chosen \in SUBSET ToSet(game.racks[seat]) : f \in [chosen -> Coordinates \X Letters]
    BY <1>1, Zenon
<1>3. DOMAIN f = chosen /\ \A t \in chosen : f[t] \in Coordinates \X Letters
    BY <1>2, Zenon
<1>4. \A t \in chosen : f[t][1] \in Coordinates /\ f[t][2] \in Letters
    BY <1>3
<1>5. ASSUME NEW p \in ps
      PROVE  p.at \in Coordinates /\ p.letter \in Letters
    <2>1. PICK t \in chosen : p = [tile |-> t, at |-> f[t][1], letter |-> f[t][2]]
        BY <1>1, <1>3, <1>5
    <2> QED BY <1>4, <2>1
<1> QED BY <1>5 DEF IsPlacement

\* A sound next game is never refused.
LEMMA CommitAccepts ==
    ASSUME NEW next, Commit(next), game.phase = "active" => SoundGame(next), EngineInv
    PROVE  EngineInv'
<1>1. game.phase = "active"
    BY DEF Commit
<1>2. SoundGame(next) /\ Conserved(next)
    BY <1>1 DEF SoundGame, TilesAreSound
<1>3. game' = next /\ refused' = refused /\ seed' = seed
    BY <1>2, Zenon DEF Commit
<1>4. SoundGame(game') = SoundGame(next)
    BY <1>3
<1> QED BY <1>2, <1>3, <1>4 DEF EngineInv

\* The deal is a sound game.
LEMMA CreateIsSound ==
    ASSUME NEW s \in Nat
    PROVE  SoundGame(Create(s))
<1>1. PICK g : g = Create(s)
    OBVIOUS
<1>2. TilesAreSound(g)
    BY <1>1, DealIsSound
<1>3. /\ DOMAIN g = GameFields /\ g.events = <<>> /\ g.version = 0 /\ g.current = 1
      /\ g.scoreless = 0 /\ g.phase = "active" /\ g.winner = 0
      /\ g.board = [c \in Coordinates |-> NoTile]
    BY <1>1 DEF Create, GameFields
<1>4. CountersAreSound(g)
    <2>1. <<>> \in Seq({}) /\ Len(<<>>) = 0
        OBVIOUS
    <2>2. /\ 1 \in EngineSeats /\ 0 \in 0..ScorelessTurnLimit /\ 0 < ScorelessTurnLimit
          /\ 0 \in 0..Players
        BY EngineAssumption DEF EngineSeats
    <2> QED BY <1>3, <2>1, <2>2 DEF CountersAreSound
<1>5. \A c \in Coordinates : g.board[c] = NoTile
    BY <1>3
<1>6. WordsAreValid(g.board)
    BY <1>5, Zenon DEF WordsAreValid
<1>7. HangsTogether(g.board)
    BY <1>5, Zenon DEF HangsTogether, Occupied
<1>8. LettersAreKnown(g.board)
    BY <1>5, Zenon DEF LettersAreKnown
<1>9. PointsAddUp(g)
    <2> DEFINE zero == [p \in EngineSeats |-> 0]
               played == [p \in EngineSeats |-> PlayedIn(<<>>, p)]
    <2>1. g.scores = zero /\ g.reason = "none"
        BY <1>1 DEF Create
    <2>2. PointsAreInt(<<>>)
        BY DEF PointsAreInt
    <2>3. ASSUME NEW seat \in EngineSeats
          PROVE  PlayedIn(<<>>, seat) = 0
        <3>1. PICK f : f = [i \in DOMAIN <<>> |-> Points(<<>>[i], seat)]
            OBVIOUS
        <3>2. DOMAIN f = {} /\ PlayedIn(<<>>, seat) = SumFunction(f)
            BY <3>1 DEF PlayedIn
        <3> QED BY <3>2, SumOfNone DEF SumFunction
    <2>4. played = zero
        BY <2>3
    <2>5. TotalPlayed(<<>>) = SumFunction(zero)
        BY <2>4 DEF TotalPlayed
    <2>6. zero \in [EngineSeats -> Int]
        OBVIOUS
    <2> HIDE DEF zero
    <2> QED BY <1>3, <2>1, <2>2, <2>5, <2>6 DEF PointsAddUp
<1> QED BY <1>1, <1>2, <1>3, <1>4, <1>6, <1>7, <1>8, <1>9 DEF SoundGame

\* EngineInv is inductive.
LEMMA EngineInvHolds == EngineSpec => []EngineInv
<1>1. EngineInit => EngineInv
    <2> SUFFICES ASSUME EngineInit
                 PROVE  EngineInv
        OBVIOUS
    <2>1. seed \in Nat /\ game = Create(seed) /\ refused = FALSE
        BY EngineAssumption DEF EngineInit
    <2>2. SoundGame(Create(seed))
        BY <2>1, CreateIsSound
    <2> QED BY <2>1, <2>2 DEF EngineInv
<1>2. EngineInv /\ [EngineNext]_engineVars => EngineInv'
    <2> SUFFICES ASSUME EngineInv, [EngineNext]_engineVars
                 PROVE  EngineInv'
        OBVIOUS
    <2>1. seed \in Nat /\ SoundGame(game) /\ DOMAIN game = GameFields
        BY DEF EngineInv, SoundGame
    <2>2. CASE PlayTiles
        <3>1. PICK ps \in Candidates(game.current) :
                LegalPlacement(game, game.current, ps) /\ Commit(play_tiles(game, game.current, ps))
            BY <2>2, Zenon DEF PlayTiles
        <3>2. game.phase = "active" => SoundGame(play_tiles(game, game.current, ps))
            BY <2>1, <3>1, CandidatesArePlacements, PlayKeepsSound
        <3> QED BY <3>1, <3>2, CommitAccepts
    <2>3. CASE Pass
        <3>1. PICK h : h = pass(game, game.current)
            OBVIOUS
        <3>2. PICK move : TurnEffect(game, h, game.current, move) /\ move.kind = "passed"
            <4>1. TurnEffect(game, h, game.current, [kind |-> "passed", seat |-> game.current])
                BY <2>1, <3>1, PassEffect
            <4> QED BY <4>1
        <3>3. TilesOf(h, game.bag, game.racks, game.board)
              /\ ScoresFollow(game, h, game.scores, game.current)
            BY <2>1, <3>1, PassEffect
        <3>4. game.phase = "active" => SoundGame(h)
            BY <2>1, <3>2, <3>3, QuietMoveKeepsSound
        <3> QED BY <2>3, <3>1, <3>4, CommitAccepts DEF Pass
    <2>4. CASE ExchangeTiles
        <3>1. PICK chosen \in SUBSET Tiles :
                /\ chosen \subseteq ToSet(game.racks[game.current])
                /\ \E tiles \in SetToSeqs(chosen) :
                    Commit(exchange_tiles(game, seed, game.current, tiles))
            BY <2>4, Zenon DEF ExchangeTiles
        <3>2. PICK tiles \in SetToSeqs(chosen) : Commit(exchange_tiles(game, seed, game.current, tiles))
            BY <3>1, Zenon
        <3>3. game.phase = "active" => SoundGame(exchange_tiles(game, seed, game.current, tiles))
            BY <2>1, <3>1, <3>2, ExchangeKeepsSound
        <3> QED BY <3>2, <3>3, CommitAccepts
    <2>5. CASE Resign
        <3>1. PICK h : h = resign_game(game, game.current)
            OBVIOUS
        <3>2. PICK move : TurnEffect(game, h, game.current, move) /\ move.kind = "resigned"
            <4>1. TurnEffect(game, h, game.current, [kind |-> "resigned", seat |-> game.current])
                BY <2>1, <3>1, ResignEffect
            <4> QED BY <4>1
        <3>3. TilesOf(h, game.bag, game.racks, game.board)
              /\ ScoresFollow(game, h, game.scores, game.current)
            BY <2>1, <3>1, ResignEffect
        <3>4. game.phase = "active" => SoundGame(h)
            BY <2>1, <3>2, <3>3, QuietMoveKeepsSound
        <3> QED BY <2>5, <3>1, <3>4, CommitAccepts DEF Resign
    <2>6. CASE UNCHANGED engineVars
        BY <2>6 DEF EngineInv, engineVars
    <2> QED BY <2>2, <2>3, <2>4, <2>5, <2>6 DEF EngineNext
<1> QED BY <1>1, <1>2, PTL DEF EngineSpec

\* GameIsSound: the referee looks at one move at a time, and over every
\* sequence of them the conservation check refuses nothing that is legal, every
\* run of letters on the board is a word of the lexicon in both directions,
\* every tile hangs together with the centre square, and the scores are the
\* points of the log, with what the end of the game moves between the players.
THEOREM GameStaysSound == EngineSpec => []GameIsSound
<1>1. EngineInv => GameIsSound
    <2> SUFFICES ASSUME EngineInv
                 PROVE  GameIsSound
        OBVIOUS
    <2>1. WordsAreValid(game.board) /\ HangsTogether(game.board) /\ PointsAddUp(game)
        BY DEF EngineInv, SoundGame
    <2>2. EngineTypeOK /\ LegalMovesAreConsistent
        BY DEF EngineInv, SoundGame, CountersAreSound, TilesAreSound, EngineTypeOK, LegalMovesAreConsistent
    <2>3. BoardWordsAreValid
        BY <2>1, Zenon DEF WordsAreValid, BoardWordsAreValid
    <2>4. BoardHangsTogether
        BY <2>1, Zenon DEF HangsTogether, IsClosed, Occupied, BoardHangsTogether
    <2>5. ScoresAddUp
        <3>1. \A s : PlayedScore(s) = PlayedIn(game.events, s)
            BY Zenon DEF PlayedScore, PlayedIn, Points
        <3>2. SumFunction([s \in EngineSeats |-> PlayedScore(s)]) = TotalPlayed(game.events)
            BY <3>1, Zenon DEF TotalPlayed
        <3>3. SumFunction([s \in EngineSeats |-> RackValue(game.racks[s])])
                = SumFunction(ValuesOf(game.racks))
            BY Zenon DEF ValuesOf
        <3> QED BY <2>1, <3>2, <3>3, Zenon DEF PointsAddUp, ScoresAddUp
    <2> QED BY <2>2, <2>3, <2>4, <2>5 DEF GameIsSound
<1> QED BY <1>1, EngineInvHolds, PTL

\* verify_tile_conservation: each physical tile is in the bag, in one rack or
\* on one square, at every moment of the game.
THEOREM TilesAreConserved == EngineSpec => []Conserved(game)
<1>1. EngineInv => Conserved(game)
    BY DEF EngineInv, SoundGame, TilesAreSound
<1> QED BY <1>1, EngineInvHolds, PTL
=============================================================================
