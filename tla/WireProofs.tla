----------------------------- MODULE WireProofs -----------------------------
(***************************************************************************)
(* Proofs about what clients are told: the WebSocket feed, for every       *)
(* number of sockets, permits and buffered markers; the stdio bridge, for  *)
(* every capacity of its channel; the MCP gateway, for every number of     *)
(* requests in flight, capabilities and sessions; the framing of streams   *)
(* and bodies, for every input, every chunking and every limit.            *)
(***************************************************************************)
EXTENDS LiveFeed, McpBridge, McpGateway, SseFraming, TLAPS, FiniteSetTheorems, WellFoundedInduction

-----------------------------------------------------------------------------
(* The feed: the inductive invariant *)

\* The greater of two versions.
LEMMA MaxPair ==
    ASSUME NEW m \in Nat, NEW n \in Nat
    PROVE  /\ Max({m, n}) \in {m, n}
           /\ Max({m, n}) >= m /\ Max({m, n}) >= n
<1>1. \E x \in {m, n} : \A y \in {m, n} : x >= y
    OBVIOUS
<1> QED BY <1>1 DEF Max

\* The first element of a sequence and the rest.
LEMMA TailFacts ==
    ASSUME NEW S, NEW q \in Seq(S), q # <<>>
    PROVE  /\ Len(q) \in Nat \ {0} /\ Head(q) \in S /\ Head(q) = q[1]
           /\ Tail(q) \in Seq(S) /\ Len(Tail(q)) = Len(q) - 1
           /\ \A i \in 1..(Len(q) - 1) : Tail(q)[i] = q[i + 1]
OBVIOUS

\* The elements of a sequence.
LEMMA ElementFacts ==
    ASSUME NEW S, NEW q \in Seq(S), NEW i \in 1..Len(q)
    PROVE  q[i] \in S
OBVIOUS

\* The last element of an extended sequence and the others.
LEMMA AppendFacts ==
    ASSUME NEW S, NEW q \in Seq(S), NEW x \in S
    PROVE  /\ Append(q, x) \in Seq(S) /\ Len(q) \in Nat
           /\ Len(Append(q, x)) = Len(q) + 1 /\ Append(q, x)[Len(q) + 1] = x
           /\ \A i \in 1..Len(q) : Append(q, x)[i] = q[i]
OBVIOUS

Conn == [at: {"closed", "reading", "accepting", "first", "open", "rereading"},
         queue: Seq(1..LastGameVersion), lagged: BOOLEAN,
         current: 0..LastGameVersion, last: 0..LastGameVersion]

\* The places at which a connection holds a permit.
Holding == {"first", "open", "rereading"}
Accepted == {s \in Sockets : lfSocket[s].at \in Holding}

\* A published version is accounted for: the client has it, or it is in the
\* queue, or the connection knows that it has lost markers, or it is about to
\* read the version or holds a version it has read.
Accounted(conn, v) ==
    \/ conn.at \in {"closed", "reading", "rereading"}
    \/ v <= conn.last
    \/ conn.lagged
    \/ \E i \in 1..Len(conn.queue) : conn.queue[i] = v
    \/ conn.at \in {"accepting", "first"} /\ v <= conn.current

ConnIsSound(conn) ==
    /\ Len(conn.queue) <= Buffer
    /\ \A i \in 1..Len(conn.queue) : conn.queue[i] <= lfVersion
    /\ conn.at \in {"accepting", "first"} => conn.current <= lfVersion
    /\ conn.at \in {"accepting"} \cup Holding => conn.last <= lfVersion
    /\ \A v \in lfPublished : Accounted(conn, v)

ConnsAreSound == \A s \in Sockets : ConnIsSound(lfSocket[s])

FeedRangesOK ==
    /\ lfVersion \in 0..LastGameVersion
    /\ lfPending \subseteq 1..lfVersion
    /\ lfPublished \subseteq 1..lfVersion
    /\ lfSocket \in [Sockets -> Conn]

PermitsAreAccounted ==
    lfSlots \in Nat /\ lfSlots + Cardinality(Accepted) = WebsocketSlots

FeedInv == FeedRangesOK /\ ConnsAreSound /\ PermitsAreAccounted

\* A connection that is closed has nothing to answer for.
LEMMA ClosedIsSound == Closed \in Conn /\ Closed.at = "closed" /\ ConnIsSound(Closed)
<1>1. Closed \in Conn /\ Closed.at = "closed" /\ Closed.queue = <<>>
    BY FeedAssumption DEF Closed, Conn
<1> QED BY <1>1, FeedAssumption DEF ConnIsSound, Accounted, Holding

\* What the game does, connections survive: versions only grow.
LEMMA GrowthKeepsConns ==
    ASSUME FeedInv, FeedRangesOK', lfVersion <= lfVersion',
           UNCHANGED <<lfPublished, lfSlots, lfSocket>>
    PROVE  FeedInv'
<1>1. lfVersion \in Int /\ lfVersion' \in Int
    BY DEF FeedInv, FeedRangesOK
<1>2. ASSUME NEW s \in Sockets
      PROVE  ConnIsSound(lfSocket[s])'
    <2>1. lfSocket[s] \in Conn /\ ConnIsSound(lfSocket[s])
        BY DEF FeedInv, FeedRangesOK, ConnsAreSound
    <2>2. PICK conn \in Conn : conn = lfSocket[s]
        BY <2>1
    <2>3. /\ conn.current \in Int /\ conn.last \in Int
          /\ \A i \in 1..Len(conn.queue) : conn.queue[i] \in Int
        <3>1. conn.queue \in Seq(1..LastGameVersion)
            BY DEF Conn
        <3>2. \A i \in 1..Len(conn.queue) : conn.queue[i] \in 1..LastGameVersion
            BY <3>1, ElementFacts
        <3> QED BY <3>2 DEF Conn
    <2>4. ConnIsSound(conn)'
        BY <1>1, <2>1, <2>2, <2>3 DEF ConnIsSound, Accounted
    <2> QED BY <2>2, <2>4 DEF ConnIsSound, Accounted
<1>3. PermitsAreAccounted'
    BY DEF FeedInv, PermitsAreAccounted, Accepted
<1> QED BY <1>2, <1>3 DEF FeedInv, ConnsAreSound

\* One connection changes, to one that is sound; the permits are the
\* action's affair.
LEMMA OneConnChanges ==
    ASSUME FeedInv, NEW s \in Sockets, NEW new \in Conn, ConnIsSound(new), SetSocket(s, new),
           UNCHANGED <<lfVersion, lfPending, lfPublished>>
    PROVE  /\ FeedRangesOK' /\ ConnsAreSound'
           /\ lfSocket'[s] = new /\ \A t \in Sockets \ {s} : lfSocket'[t] = lfSocket[t]
<1>1. lfSocket \in [Sockets -> Conn]
    BY DEF FeedInv, FeedRangesOK
<1>2. /\ lfSocket' \in [Sockets -> Conn] /\ lfSocket'[s] = new
      /\ \A t \in Sockets \ {s} : lfSocket'[t] = lfSocket[t]
    BY <1>1 DEF SetSocket
<1>3. ASSUME NEW conn, ConnIsSound(conn)
      PROVE  ConnIsSound(conn)'
    BY <1>3 DEF ConnIsSound, Accounted
<1>4. ASSUME NEW t \in Sockets
      PROVE  ConnIsSound(lfSocket[t])'
    <2>1. PICK conn : conn = IF t = s THEN new ELSE lfSocket[t]
        OBVIOUS
    <2>2. ConnIsSound(conn)'
        BY <1>3, <2>1 DEF FeedInv, ConnsAreSound
    <2>3. lfSocket'[t] = conn
        BY <1>2, <2>1
    <2> QED BY <2>2, <2>3 DEF ConnIsSound, Accounted
<1> QED BY <1>2, <1>4 DEF FeedInv, FeedRangesOK, ConnsAreSound

\* A connection that keeps what it holds of the semaphore.
LEMMA ConnGoesOn ==
    ASSUME FeedInv, NEW s \in Sockets, NEW new \in Conn, ConnIsSound(new), SetSocket(s, new),
           UNCHANGED <<lfVersion, lfPending, lfPublished, lfSlots>>,
           new.at \in Holding <=> lfSocket[s].at \in Holding
    PROVE  FeedInv'
<1>1. /\ FeedRangesOK' /\ ConnsAreSound'
      /\ lfSocket'[s] = new /\ \A t \in Sockets \ {s} : lfSocket'[t] = lfSocket[t]
    BY OneConnChanges
<1>2. Accepted' = Accepted
    BY <1>1 DEF Accepted
<1> QED BY <1>1, <1>2 DEF FeedInv, PermitsAreAccounted

\* The set of accepted connections is finite.
LEMMA AcceptedIsFinite == IsFiniteSet(Accepted) /\ Cardinality(Accepted) \in Nat
<1>1. Accepted \subseteq Sockets
    BY DEF Accepted
<1> QED BY <1>1, FeedAssumption, FS_Subset, FS_CardinalityType

\* What is in a queue that a marker is appended to.
LEMMA EnqueueFacts ==
    ASSUME FeedRangesOK, NEW conn \in Conn, ConnIsSound(conn), NEW v \in 1..lfVersion,
           conn.at # "closed"
    PROVE  /\ Enqueue(conn, v) \in Conn
           /\ Enqueue(conn, v).at = conn.at /\ Enqueue(conn, v).last = conn.last
           /\ Enqueue(conn, v).current = conn.current
           /\ Len(Enqueue(conn, v).queue) <= Buffer
           /\ \A i \in 1..Len(Enqueue(conn, v).queue) : Enqueue(conn, v).queue[i] <= lfVersion
           /\ \A w \in lfPublished \cup {v} : Accounted(Enqueue(conn, v), w)
<1>0. /\ Buffer \in Nat \ {0} /\ conn.queue \in Seq(1..LastGameVersion)
      /\ v \in 1..LastGameVersion /\ Len(conn.queue) \in Nat
      /\ lfVersion \in Nat
    BY FeedAssumption DEF Conn, FeedRangesOK
<1>1. CASE Len(conn.queue) = Buffer
    <2>1. PICK q : q = Append(Tail(conn.queue), v)
        OBVIOUS
    <2>2. conn.queue # <<>>
        BY <1>0, <1>1
    <2>3. Tail(conn.queue) \in Seq(1..LastGameVersion) /\ Len(Tail(conn.queue)) = Len(conn.queue) - 1
        BY <1>0, <2>2, TailFacts
    <2>4. \A i \in 1..(Len(conn.queue) - 1) : Tail(conn.queue)[i] = conn.queue[i + 1]
        BY <1>0, <2>2
    <2>5. q \in Seq(1..LastGameVersion) /\ Len(q) = Len(conn.queue) /\ q[Len(q)] = v
        BY <1>0, <2>1, <2>3
    <2>6. \A i \in 1..(Len(q) - 1) : q[i] = Tail(conn.queue)[i]
        BY <1>0, <2>1, <2>3
    <2>7. \A i \in 1..Len(q) : q[i] <= lfVersion
        <3>1. \A i \in 1..(Len(q) - 1) : q[i] <= lfVersion
            BY <1>0, <2>4, <2>5, <2>6 DEF ConnIsSound
        <3> QED BY <1>0, <2>5, <3>1
    <2>8. PICK new : new = [conn EXCEPT !.queue = q, !.lagged = TRUE]
        OBVIOUS
    <2>9. Enqueue(conn, v) = new
        BY <1>1, <2>1, <2>8 DEF Enqueue
    <2>10. /\ new \in Conn /\ new.at = conn.at /\ new.last = conn.last
           /\ new.current = conn.current /\ new.queue = q /\ new.lagged
        BY <2>5, <2>8 DEF Conn
    <2> QED BY <1>0, <1>1, <2>5, <2>7, <2>9, <2>10 DEF Accounted
<1>2. CASE Len(conn.queue) # Buffer
    <2>1. PICK q : q = Append(conn.queue, v)
        OBVIOUS
    <2>2. /\ q \in Seq(1..LastGameVersion) /\ Len(q) = Len(conn.queue) + 1 /\ q[Len(q)] = v
          /\ \A i \in 1..Len(conn.queue) : q[i] = conn.queue[i]
        BY <1>0, <2>1
    <2>3. \A i \in 1..Len(q) : q[i] <= lfVersion
        BY SMTT(40), <1>0, <2>2 DEF ConnIsSound
    <2>4. PICK new : new = [conn EXCEPT !.queue = q]
        OBVIOUS
    <2>5. Enqueue(conn, v) = new
        BY <1>2, <2>1, <2>4 DEF Enqueue
    <2>6. /\ new \in Conn /\ new.at = conn.at /\ new.last = conn.last
          /\ new.current = conn.current /\ new.queue = q /\ new.lagged = conn.lagged
        BY <2>2, <2>4 DEF Conn
    <2>7. Len(q) <= Buffer
        BY <1>0, <1>2, <2>2 DEF ConnIsSound
    <2>8. ASSUME NEW w \in lfPublished
          PROVE  Accounted(new, w)
        <3>1. Accounted(conn, w)
            BY DEF ConnIsSound
        <3>2. ASSUME NEW i \in 1..Len(conn.queue), conn.queue[i] = w
              PROVE  \E j \in 1..Len(q) : q[j] = w
            <4>1. i \in 1..Len(q) /\ q[i] = w
                BY <1>0, <2>2, <3>2
            <4> QED BY <4>1
        <3> QED BY <2>6, <3>1, <3>2 DEF Accounted
    <2>9. Accounted(new, v)
        BY <1>0, <2>2, <2>6 DEF Accounted
    <2> QED BY <2>3, <2>5, <2>6, <2>7, <2>8, <2>9
<1> QED BY <1>1, <1>2

\* publish reaches every receiver.
LEMMA BroadcastStep ==
    ASSUME FeedInv, NEW v \in 1..lfVersion, Broadcast(v), lfPending' \subseteq lfPending,
           UNCHANGED <<lfVersion, lfSlots>>
    PROVE  FeedInv'
<1>1. /\ lfSocket' = [s \in Sockets |-> IF Subscribed(s) THEN Enqueue(lfSocket[s], v) ELSE lfSocket[s]]
      /\ lfPublished' = lfPublished \cup {v}
    BY DEF Broadcast
<1>2. ASSUME NEW s \in Sockets
      PROVE  /\ lfSocket'[s] \in Conn /\ lfSocket'[s].at = lfSocket[s].at
             /\ ConnIsSound(lfSocket[s])'
    <2>1. PICK conn \in Conn : conn = lfSocket[s]
        BY DEF FeedInv, FeedRangesOK
    <2>2. ConnIsSound(conn) /\ FeedRangesOK
        BY <2>1 DEF FeedInv, ConnsAreSound
    <2>3. CASE conn.at = "closed"
        <3>1. lfSocket'[s] = conn
            BY <1>1, <2>1, <2>3 DEF Subscribed
        <3>2. ConnIsSound(conn)'
            BY <2>2, <2>3 DEF ConnIsSound, Accounted
        <3> QED BY <2>1, <3>1, <3>2 DEF ConnIsSound, Accounted
    <2>4. CASE conn.at # "closed"
        <3>1. PICK new : new = Enqueue(conn, v)
            OBVIOUS
        <3>2. lfSocket'[s] = new
            BY <1>1, <2>1, <2>4, <3>1 DEF Subscribed
        <3>3. /\ new \in Conn /\ new.at = conn.at /\ new.last = conn.last
              /\ new.current = conn.current
              /\ Len(new.queue) <= Buffer
              /\ \A i \in 1..Len(new.queue) : new.queue[i] <= lfVersion
              /\ \A w \in lfPublished \cup {v} : Accounted(new, w)
            BY <2>2, <2>4, <3>1, EnqueueFacts
        <3>4. ConnIsSound(new)'
            BY <1>1, <2>2, <3>3 DEF ConnIsSound, Accounted
        <3> QED BY <2>1, <3>2, <3>3, <3>4 DEF ConnIsSound, Accounted
    <2> QED BY <2>3, <2>4
<1>3. ConnsAreSound'
    BY <1>2, Zenon DEF ConnsAreSound
<1>4. FeedRangesOK'
    <2>1. lfSocket' \in [Sockets -> Conn]
        BY <1>1, <1>2
    <2> QED BY <1>1, <2>1 DEF FeedInv, FeedRangesOK
<1>5. PermitsAreAccounted'
    <2>1. Accepted' = Accepted
        BY <1>2 DEF Accepted
    <2> QED BY <2>1 DEF FeedInv, PermitsAreAccounted
<1> QED BY <1>3, <1>4, <1>5 DEF FeedInv

\* A socket's own steps keep the invariant.
LEMMA SocketKeepsInv ==
    ASSUME FeedInv, NEW s \in Sockets, SocketStep(s)
    PROVE  FeedInv'
<1>0. FeedRangesOK /\ lfVersion \in Nat /\ lfVersion \in 0..LastGameVersion
    BY DEF FeedInv, FeedRangesOK
<1>1. PICK conn \in Conn : conn = lfSocket[s]
    BY <1>0 DEF FeedRangesOK
<1>2. ConnIsSound(conn)
    BY <1>1 DEF FeedInv, ConnsAreSound
<1>3. conn.last \in Nat /\ conn.current \in Nat /\ conn.queue \in Seq(1..LastGameVersion)
    BY DEF Conn
<1>4. UNCHANGED <<lfVersion, lfPending, lfPublished, lfSlots>>
    BY DEF SocketStep, SendFirst, Receive, NoticeLag, Reread
<1>5. CASE SendFirst(s)
    <2>1. PICK n : n = Max({conn.last, conn.current})
        OBVIOUS
    <2>2. n \in {conn.last, conn.current} /\ n >= conn.last /\ n >= conn.current
        BY <1>3, <2>1, MaxPair
    <2>3. PICK new : new = [conn EXCEPT !.at = "open", !.last = n]
        OBVIOUS
    <2>4. conn.at = "first" /\ SetSocket(s, new)
        BY <1>1, <1>5, <2>1, <2>3 DEF SendFirst
    <2>5. /\ new \in Conn /\ new.at = "open" /\ new.last = n
          /\ new.queue = conn.queue /\ new.lagged = conn.lagged
        BY <2>2, <2>3 DEF Conn
    <2>6. n <= lfVersion
        BY <1>2, <2>2, <2>4 DEF ConnIsSound, Holding
    <2>7. ASSUME NEW v \in lfPublished
          PROVE  Accounted(new, v)
        <3>1. Accounted(conn, v) /\ v \in Nat
            BY <1>0, <1>2 DEF ConnIsSound, FeedRangesOK
        <3> QED BY <1>3, <2>2, <2>4, <2>5, <3>1 DEF Accounted
    <2>8. ConnIsSound(new)
        BY <1>2, <2>5, <2>6, <2>7 DEF ConnIsSound
    <2> QED BY <1>1, <1>4, <2>4, <2>5, <2>8, ConnGoesOn DEF Holding
<1>6. CASE Receive(s)
    <2>1. conn.at = "open" /\ ~conn.lagged /\ conn.queue # <<>>
        BY <1>1, <1>6 DEF Receive
    <2>2. PICK h, q : h = Head(conn.queue) /\ q = Tail(conn.queue)
        OBVIOUS
    <2>3. /\ Len(conn.queue) \in Nat \ {0} /\ h \in 1..LastGameVersion /\ h = conn.queue[1]
          /\ q \in Seq(1..LastGameVersion) /\ Len(q) = Len(conn.queue) - 1
          /\ \A i \in 1..(Len(conn.queue) - 1) : q[i] = conn.queue[i + 1]
        BY <1>3, <2>1, <2>2, TailFacts
    <2>4. PICK n : n = Max({conn.last, h})
        OBVIOUS
    <2>5. /\ n \in {conn.last, h} /\ n >= conn.last /\ n >= h
          /\ n \in 0..LastGameVersion
        <3>1. h \in Nat /\ conn.last \in 0..LastGameVersion /\ h \in 0..LastGameVersion
            BY <2>3 DEF Conn
        <3> QED BY <2>4, <3>1, MaxPair
    <2>6. PICK new : new = [conn EXCEPT !.queue = q, !.last = n]
        OBVIOUS
    <2>7. SetSocket(s, new)
        BY <1>1, <1>6, <2>2, <2>4, <2>6 DEF Receive
    <2>8. /\ new \in Conn /\ new.at = "open" /\ new.last = n /\ new.queue = q
          /\ new.lagged = conn.lagged
        BY <2>1, <2>3, <2>5, <2>6 DEF Conn
    <2>9. n <= lfVersion
        BY <1>2, <2>1, <2>3, <2>5 DEF ConnIsSound, Holding
    <2>10. \A i \in 1..Len(q) : q[i] <= lfVersion
        BY <1>2, <2>3 DEF ConnIsSound
    <2>11. Len(q) <= Buffer
        BY <1>2, <2>3, FeedAssumption DEF ConnIsSound
    <2>12. ASSUME NEW v \in lfPublished
           PROVE  Accounted(new, v)
        <3>1. Accounted(conn, v) /\ v \in Nat
            BY <1>0, <1>2 DEF ConnIsSound, FeedRangesOK
        <3>2. v <= conn.last \/ \E i \in 1..Len(conn.queue) : conn.queue[i] = v
            BY <2>1, <3>1 DEF Accounted
        <3>3. CASE v <= conn.last
            BY <1>3, <2>3, <2>5, <2>8, <3>1, <3>3 DEF Accounted
        <3>4. ASSUME NEW i \in 1..Len(conn.queue), conn.queue[i] = v
              PROVE  Accounted(new, v)
            <4>1. CASE i = 1
                BY <2>3, <2>5, <2>8, <3>4, <4>1 DEF Accounted
            <4>2. CASE i # 1
                <5>1. i - 1 \in 1..Len(q) /\ q[i - 1] = v
                    BY <2>3, <3>4, <4>2
                <5> QED BY <2>8, <5>1 DEF Accounted
            <4> QED BY <4>1, <4>2
        <3> QED BY <3>2, <3>3, <3>4
    <2>13. ConnIsSound(new)
        BY <2>8, <2>9, <2>10, <2>11, <2>12 DEF ConnIsSound
    <2> QED BY <1>1, <1>4, <2>1, <2>7, <2>8, <2>13, ConnGoesOn
<1>7. CASE NoticeLag(s)
    <2>1. PICK new : new = [conn EXCEPT !.at = "rereading", !.lagged = FALSE]
        OBVIOUS
    <2>2. conn.at = "open" /\ SetSocket(s, new)
        BY <1>1, <1>7, <2>1 DEF NoticeLag
    <2>3. /\ new \in Conn /\ new.at = "rereading" /\ new.last = conn.last
          /\ new.queue = conn.queue
        BY <2>1 DEF Conn
    <2>4. ConnIsSound(new)
        BY <1>2, <2>2, <2>3 DEF ConnIsSound, Accounted, Holding
    <2> QED BY <1>1, <1>4, <2>2, <2>3, <2>4, ConnGoesOn DEF Holding
<1>8. CASE Reread(s)
    <2>1. PICK n : n = Max({conn.last, lfVersion})
        OBVIOUS
    <2>2. n \in {conn.last, lfVersion} /\ n >= conn.last /\ n >= lfVersion
        BY <1>0, <1>3, <2>1, MaxPair
    <2>3. PICK new : new = [conn EXCEPT !.at = "open", !.last = n]
        OBVIOUS
    <2>4. conn.at = "rereading" /\ SetSocket(s, new)
        BY <1>1, <1>8, <2>1, <2>3 DEF Reread
    <2>5. /\ new \in Conn /\ new.at = "open" /\ new.last = n /\ new.queue = conn.queue
        BY <1>0, <2>2, <2>3 DEF Conn
    <2>6. n <= lfVersion
        BY <1>0, <1>2, <2>2, <2>4 DEF ConnIsSound, Holding
    <2>7. ASSUME NEW v \in lfPublished
          PROVE  Accounted(new, v)
        <3>1. v \in Nat /\ v <= lfVersion
            BY <1>0 DEF FeedRangesOK
        <3> QED BY <1>0, <1>3, <2>2, <2>5, <3>1 DEF Accounted
    <2>8. ConnIsSound(new)
        BY <1>2, <2>5, <2>6, <2>7 DEF ConnIsSound
    <2> QED BY <1>1, <1>4, <2>4, <2>5, <2>8, ConnGoesOn DEF Holding
<1> QED BY <1>5, <1>6, <1>7, <1>8 DEF SocketStep

\* A connection is made or refused.
LEMMA HandshakeKeepsInv ==
    ASSUME FeedInv, NEW s \in Sockets,
           (\E after \in 0..LastGameVersion : Connect(s, after)) \/ ReadVersion(s)
    PROVE  FeedInv'
<1>0. FeedRangesOK /\ lfVersion \in Nat /\ lfVersion \in 0..LastGameVersion
    BY DEF FeedInv, FeedRangesOK
<1>1. PICK conn \in Conn : conn = lfSocket[s]
    BY <1>0 DEF FeedRangesOK
<1>2. ConnIsSound(conn)
    BY <1>1 DEF FeedInv, ConnsAreSound
<1>3. ASSUME NEW after \in 0..LastGameVersion, Connect(s, after)
      PROVE  FeedInv'
    <2>1. PICK new : new = [Closed EXCEPT !.at = "reading", !.last = after]
        OBVIOUS
    <2>2. /\ lfSocket[s].at = "closed" /\ SetSocket(s, new)
          /\ UNCHANGED <<lfVersion, lfPending, lfPublished, lfSlots>>
        BY <1>3, <2>1 DEF Connect
    <2>3. /\ new \in Conn /\ new.at = "reading" /\ new.queue = <<>>
        <3>1. Closed \in Conn /\ Closed.queue = <<>>
            BY ClosedIsSound DEF Closed
        <3> QED BY <2>1, <3>1 DEF Conn
    <2>4. ConnIsSound(new)
        BY <2>3, FeedAssumption DEF ConnIsSound, Accounted, Holding
    <2> QED BY <2>2, <2>3, <2>4, ConnGoesOn DEF Holding
<1>4. CASE ReadVersion(s)
    <2>0. /\ conn.at = "reading" /\ UNCHANGED <<lfVersion, lfPending, lfPublished, lfSlots>>
        BY <1>1, <1>4 DEF ReadVersion
    <2>1. CASE conn.last > lfVersion
        <3>1. SetSocket(s, Closed)
            BY <1>1, <1>4, <2>1 DEF ReadVersion
        <3> QED BY <1>1, <2>0, <3>1, ClosedIsSound, ConnGoesOn DEF Holding
    <2>2. CASE ~(conn.last > lfVersion)
        <3>1. PICK new : new = [conn EXCEPT !.at = "accepting", !.current = lfVersion]
            OBVIOUS
        <3>2. SetSocket(s, new)
            BY <1>1, <1>4, <2>2, <3>1 DEF ReadVersion
        <3>3. /\ new \in Conn /\ new.at = "accepting" /\ new.queue = conn.queue
              /\ new.last = conn.last /\ new.current = lfVersion
            BY <1>0, <3>1 DEF Conn
        <3>4. conn.last <= lfVersion /\ lfVersion <= lfVersion
            BY <1>0, <2>2 DEF Conn
        <3>5. \A v \in lfPublished : Accounted(new, v)
            BY <1>0, <3>3 DEF FeedRangesOK, Accounted
        <3>6. ConnIsSound(new)
            BY <1>2, <3>3, <3>4, <3>5 DEF ConnIsSound
        <3> QED BY <1>1, <2>0, <3>2, <3>3, <3>6, ConnGoesOn DEF Holding
    <2> QED BY <2>1, <2>2
<1> QED BY <1>3, <1>4

\* A permit is taken with the connection that holds it, and returned with it.
LEMMA PermitKeepsInv ==
    ASSUME FeedInv, NEW s \in Sockets, Accept(s) \/ DropSocket(s)
    PROVE  FeedInv'
<1>0. /\ FeedRangesOK /\ PermitsAreAccounted
      /\ UNCHANGED <<lfVersion, lfPending, lfPublished>>
      /\ IsFiniteSet(Accepted) /\ Cardinality(Accepted) \in Nat
      /\ WebsocketSlots \in Nat /\ lfSlots \in Nat
    BY AcceptedIsFinite, FeedAssumption DEF FeedInv, Accept, DropSocket, PermitsAreAccounted
<1>1. PICK conn \in Conn : conn = lfSocket[s]
    BY <1>0 DEF FeedRangesOK
<1>2. ConnIsSound(conn)
    BY <1>1 DEF FeedInv, ConnsAreSound
<1>3. CASE SetSocket(s, Closed) /\ conn.at \notin Holding /\ lfSlots' = lfSlots
    BY <1>0, <1>1, <1>3, ClosedIsSound, ConnGoesOn DEF Holding
<1>4. CASE SetSocket(s, Closed) /\ conn.at \in Holding /\ lfSlots' = lfSlots + 1
    <2>1. /\ FeedRangesOK' /\ ConnsAreSound'
          /\ lfSocket'[s] = Closed /\ \A t \in Sockets \ {s} : lfSocket'[t] = lfSocket[t]
        BY <1>0, <1>4, ClosedIsSound, OneConnChanges
    <2>2. Accepted' = Accepted \ {s} /\ s \in Accepted
        BY <1>1, <1>4, <2>1, ClosedIsSound DEF Accepted, Holding
    <2>3. Cardinality(Accepted') = Cardinality(Accepted) - 1
        BY <1>0, <2>2, FS_RemoveElement
    <2>4. PermitsAreAccounted'
        BY <1>0, <1>4, <2>3 DEF PermitsAreAccounted
    <2> QED BY <2>1, <2>4 DEF FeedInv
<1>5. CASE /\ conn.at = "accepting" /\ lfSlots # 0 /\ lfSlots' = lfSlots - 1
           /\ SetSocket(s, [conn EXCEPT !.at = "first"])
    <2>1. PICK new : new = [conn EXCEPT !.at = "first"]
        OBVIOUS
    <2>2. /\ new \in Conn /\ new.at = "first" /\ new.queue = conn.queue /\ new.last = conn.last
          /\ new.current = conn.current /\ new.lagged = conn.lagged
        BY <2>1 DEF Conn
    <2>3. ConnIsSound(new)
        BY <1>2, <1>5, <2>2 DEF ConnIsSound, Accounted, Holding
    <2>4. /\ FeedRangesOK' /\ ConnsAreSound'
          /\ lfSocket'[s] = new /\ \A t \in Sockets \ {s} : lfSocket'[t] = lfSocket[t]
        BY <1>0, <1>5, <2>1, <2>2, <2>3, OneConnChanges
    <2>5. Accepted' = Accepted \cup {s} /\ s \notin Accepted
        BY <1>1, <1>5, <2>2, <2>4 DEF Accepted, Holding
    <2>6. Cardinality(Accepted') = Cardinality(Accepted) + 1
        BY <1>0, <2>5, FS_AddElement
    <2>7. PermitsAreAccounted'
        BY <1>0, <1>5, <2>6 DEF PermitsAreAccounted
    <2> QED BY <2>4, <2>7 DEF FeedInv
<1> QED BY <1>1, <1>3, <1>4, <1>5 DEF Accept, DropSocket, Holding

\* Every step keeps the invariant.
LEMMA FeedInvNext == FeedInv /\ [FeedNext]_feedVars => FeedInv'
<1> SUFFICES ASSUME FeedInv, [FeedNext]_feedVars PROVE FeedInv'
    OBVIOUS
<1>0. FeedRangesOK /\ lfVersion \in Nat
    BY DEF FeedInv, FeedRangesOK
<1>1. CASE CommitTransition \/ CommitUnannounced
    <2>1. /\ lfVersion' = lfVersion + 1 /\ lfVersion < LastGameVersion
          /\ lfPending' \subseteq lfPending \cup {lfVersion + 1}
          /\ UNCHANGED <<lfPublished, lfSlots, lfSocket>>
        BY <1>1 DEF CommitTransition, CommitUnannounced
    <2>2. FeedRangesOK'
        BY <1>0, <2>1, FeedAssumption DEF FeedRangesOK
    <2> QED BY <1>0, <2>1, <2>2, GrowthKeepsConns
<1>2. ASSUME NEW v \in 1..LastGameVersion, Publish(v) \/ Republish(v)
      PROVE  FeedInv'
    BY <1>0, <1>2, BroadcastStep DEF Publish, Republish, FeedRangesOK
<1>3. ASSUME NEW v \in 1..LastGameVersion, DropPublication(v)
      PROVE  FeedInv'
    <2>1. FeedRangesOK' /\ lfVersion' = lfVersion
        BY <1>0, <1>3 DEF DropPublication, FeedRangesOK
    <2> QED BY <1>0, <1>3, <2>1, GrowthKeepsConns DEF DropPublication
<1>4. CASE UNCHANGED feedVars
    <2>1. FeedRangesOK' /\ lfVersion' = lfVersion
        BY <1>0, <1>4 DEF feedVars, FeedRangesOK
    <2> QED BY <1>0, <1>4, <2>1, GrowthKeepsConns DEF feedVars
<1> QED BY <1>1, <1>2, <1>3, <1>4, SocketKeepsInv, HandshakeKeepsInv, PermitKeepsInv DEF FeedNext

\* The feed starts with all permits free and no connection.
LEMMA FeedInvInit == FeedInit => FeedInv
<1> SUFFICES ASSUME FeedInit PROVE FeedInv
    OBVIOUS
<1>1. /\ lfVersion = 0 /\ lfPending = {} /\ lfPublished = {} /\ lfSlots = WebsocketSlots
      /\ lfSocket = [s \in Sockets |-> Closed]
    BY DEF FeedInit
<1>2. FeedRangesOK /\ ConnsAreSound
    BY <1>1, ClosedIsSound, FeedAssumption DEF FeedRangesOK, ConnsAreSound
<1>3. Accepted = {}
    BY <1>1, ClosedIsSound DEF Accepted, Holding
<1>4. PermitsAreAccounted
    BY <1>1, <1>3, FS_EmptySet, FeedAssumption DEF PermitsAreAccounted
<1> QED BY <1>2, <1>4 DEF FeedInv

\* Markers of a connection that stays open do not go back.
LEMMA FeedStepAdvances ==
    ASSUME FeedInv, [FeedNext]_feedVars, NEW s \in Sockets, Subscribed(s), lfSocket'[s].at # "closed"
    PROVE  lfSocket'[s].last >= lfSocket[s].last
<1>0. FeedRangesOK /\ lfVersion \in Nat
    BY DEF FeedInv, FeedRangesOK
<1>1. PICK conn \in Conn : conn = lfSocket[s]
    BY <1>0 DEF FeedRangesOK
<1>2. conn.last \in Nat /\ conn.current \in Nat /\ conn.at # "closed" /\ conn.last >= conn.last
    BY <1>1 DEF Conn, Subscribed
<1>3. CASE lfSocket' = lfSocket
    BY <1>1, <1>2, <1>3
<1>4. ASSUME NEW v \in 1..LastGameVersion, Publish(v) \/ Republish(v)
      PROVE  lfSocket'[s].last >= conn.last
    <2>1. v \in 1..lfVersion /\ Broadcast(v)
        BY <1>0, <1>4 DEF Publish, Republish, FeedRangesOK
    <2>2. lfSocket'[s] = Enqueue(conn, v)
        BY <1>1, <2>1 DEF Broadcast
    <2>3. ConnIsSound(conn)
        BY <1>1 DEF FeedInv, ConnsAreSound
    <2>4. Enqueue(conn, v).last = conn.last
        BY <1>0, <1>2, <2>1, <2>3, EnqueueFacts
    <2> QED BY <1>2, <2>2, <2>4
<1>5. ASSUME NEW t \in Sockets, NEW new, SetSocket(t, new), t = s => new.last >= conn.last
      PROVE  lfSocket'[s].last >= conn.last
    <2>1. lfSocket'[s] = IF t = s THEN new ELSE conn
        BY <1>0, <1>1, <1>5 DEF SetSocket, FeedRangesOK
    <2> QED BY <1>2, <1>5, <2>1
<1>6. ASSUME NEW t \in Sockets, NEW new, SetSocket(t, new), new = Closed
      PROVE  lfSocket'[s].last >= conn.last
    <2>1. t # s
        BY <1>0, <1>6, ClosedIsSound DEF SetSocket, FeedRangesOK
    <2> QED BY <1>5, <1>6, <2>1
<1>7. ASSUME NEW t \in Sockets, NEW after \in 0..LastGameVersion, Connect(t, after)
      PROVE  lfSocket'[s].last >= conn.last
    <2>1. PICK new : new = [Closed EXCEPT !.at = "reading", !.last = after]
        OBVIOUS
    <2>2. SetSocket(t, new) /\ t # s
        BY <1>1, <1>2, <1>7, <2>1 DEF Connect
    <2> QED BY <1>5, <2>2
<1>8. ASSUME NEW t \in Sockets, ReadVersion(t) \/ Accept(t) \/ DropSocket(t) \/ SocketStep(t)
      PROVE  lfSocket'[s].last >= conn.last
    <2>1. PICK old \in Conn : old = lfSocket[t]
        BY <1>0 DEF FeedRangesOK
    <2>2. old.last \in Nat /\ old.current \in Nat /\ old.queue \in Seq(1..LastGameVersion)
        BY DEF Conn
    <2>3. CASE SetSocket(t, Closed)
        BY <1>6, <2>3
    <2>4. CASE ~SetSocket(t, Closed) /\ (ReadVersion(t) \/ Accept(t) \/ NoticeLag(t))
        <3>1. PICK new : SetSocket(t, new) /\ new \in {[old EXCEPT !.at = "accepting", !.current = lfVersion],
                                      [old EXCEPT !.at = "first"],
                                      [old EXCEPT !.at = "rereading", !.lagged = FALSE]}
            BY <2>1, <2>4 DEF ReadVersion, Accept, NoticeLag
        <3>2. new.last = old.last
            BY <3>1 DEF Conn
        <3> QED BY <1>1, <1>2, <1>5, <2>1, <3>1, <3>2
    <2>5. CASE SendFirst(t) \/ Reread(t)
        <3>1. PICK n \in {old.current, lfVersion} :
                 SetSocket(t, [old EXCEPT !.at = "open", !.last = Max({old.last, n})])
            BY <2>1, <2>5 DEF SendFirst, Reread
        <3>2. PICK m : m = Max({old.last, n})
            OBVIOUS
        <3>3. m >= old.last
            BY <1>0, <2>2, <3>2, MaxPair
        <3>4. PICK new : new = [old EXCEPT !.at = "open", !.last = m]
            OBVIOUS
        <3>5. SetSocket(t, new) /\ new.last = m
            BY <3>1, <3>2, <3>4 DEF Conn
        <3> QED BY <1>1, <1>5, <2>1, <3>3, <3>5
    <2>6. CASE Receive(t)
        <3>1. old.queue # <<>>
            BY <2>1, <2>6 DEF Receive
        <3>2. Head(old.queue) \in Nat
            <4>1. Head(old.queue) \in 1..LastGameVersion
                BY <2>2, <3>1, TailFacts
            <4> QED BY <4>1
        <3>3. PICK m, q : m = Max({old.last, Head(old.queue)}) /\ q = Tail(old.queue)
            OBVIOUS
        <3>4. m >= old.last
            BY <2>2, <3>2, <3>3, MaxPair
        <3>5. PICK new : new = [old EXCEPT !.queue = q, !.last = m]
            OBVIOUS
        <3>6. SetSocket(t, new)
            BY <2>1, <2>6, <3>3, <3>5 DEF Receive
        <3>7. new.last = m
            BY <3>5 DEF Conn
        <3> QED BY <1>1, <1>5, <2>1, <3>4, <3>6, <3>7
    <2> QED BY <1>8, <2>3, <2>4, <2>5, <2>6 DEF SocketStep, DropSocket
<1>9. CASE CommitTransition \/ CommitUnannounced \/ \E v \in 1..LastGameVersion : DropPublication(v)
    BY <1>3, <1>9 DEF CommitTransition, CommitUnannounced, DropPublication
<1>10. CASE UNCHANGED feedVars
    BY <1>3, <1>10 DEF feedVars
<1> QED BY <1>1, <1>4, <1>7, <1>8, <1>9, <1>10 DEF FeedNext

\* A connection that has read its queue has told its client of the newest
\* version ever published; markers are committed versions and never go back;
\* at most MAX_WEBSOCKETS connections are open and no permit is lost.
THEOREM FeedIsSafe == FeedSpec => FeedSafety
<1>1. FeedInit => FeedInv
    BY FeedInvInit
<1>2. FeedInv /\ [FeedNext]_feedVars => FeedInv'
    BY FeedInvNext
<1>3. FeedInv => FeedTypeOK /\ NothingMissed /\ MarkersAreCommitted
    <2> SUFFICES ASSUME FeedInv PROVE FeedTypeOK /\ NothingMissed /\ MarkersAreCommitted
        OBVIOUS
    <2>1. FeedRangesOK /\ ConnsAreSound /\ PermitsAreAccounted
        BY DEF FeedInv
    <2>2. FeedTypeOK
        <3>1. {s \in Sockets : lfSocket[s].at \in {"first", "open", "rereading"}} = Accepted
            BY DEF Accepted, Holding
        <3>2. \A s \in Sockets : Len(lfSocket[s].queue) <= Buffer
            BY <2>1 DEF ConnsAreSound, ConnIsSound
        <3>3. lfVersion \in 0..LastGameVersion /\ lfPending \subseteq 1..LastGameVersion
            BY <2>1, FeedAssumption DEF FeedRangesOK
        <3> QED BY <2>1, <3>1, <3>2, <3>3, Zenon DEF FeedTypeOK, PermitsAreAccounted
    <2>3. NothingMissed
        BY <2>1 DEF NothingMissed, ConnsAreSound, ConnIsSound, Accounted
    <2>4. MarkersAreCommitted
        <3>1. ASSUME NEW s \in Sockets, NEW v \in ToSet(lfSocket[s].queue)
              PROVE  v <= lfVersion
            <4>1. lfSocket[s].queue \in Seq(1..LastGameVersion)
                BY <2>1 DEF FeedRangesOK, Conn
            <4>2. PICK i \in 1..Len(lfSocket[s].queue) : v = lfSocket[s].queue[i]
                BY <4>1 DEF ToSet
            <4> QED BY <2>1, <4>2 DEF ConnsAreSound, ConnIsSound
        <3> QED BY <2>1, <3>1 DEF MarkersAreCommitted, ConnsAreSound, ConnIsSound, Holding
    <2> QED BY <2>2, <2>3, <2>4
<1>4. FeedInv /\ [FeedNext]_feedVars =>
        [\A s \in Sockets : (Subscribed(s) /\ lfSocket'[s].at /= "closed") =>
            lfSocket'[s].last >= lfSocket[s].last]_feedVars
    BY FeedStepAdvances
<1> QED BY <1>1, <1>2, <1>3, <1>4, PTL DEF FeedSpec, FeedSafety, MarkersAdvance

-----------------------------------------------------------------------------
(* The bridge *)

Frames == {"reply", "note"} \X Nat

\* The frames sent are those written, in order, and then those in the channel.
ChannelIsFaithful ==
    /\ brSent \in Seq(Frames) /\ brOut \in Seq(Frames) /\ brQueue \in Seq(Frames)
    /\ Len(brSent) = Len(brOut) + Len(brQueue)
    /\ \A i \in 1..Len(brOut) : brSent[i] = brOut[i]
    /\ \A i \in 1..Len(brQueue) : brSent[Len(brOut) + i] = brQueue[i]
    /\ Len(brQueue) <= FrameBuffer

\* Posts are numbered by the frames read, and there is one while it is
\* answered.
PostsAreOrdered ==
    /\ brReads \in Nat /\ brPosts \in Seq(Nat)
    /\ \A i \in 1..Len(brPosts) : brPosts[i] <= brReads
    /\ \A i, j \in 1..Len(brPosts) : i < j => brPosts[i] < brPosts[j]
    /\ brAt \in {"posting", "answering"} => Len(brPosts) > 0
    /\ brNotes \in Nat /\ brReplies \in 0..1

\* The notification task belongs to the session that is known; from the
\* DELETE on it has ended.  Only an orderly shutdown deletes, once.
ShutdownIsOrdered ==
    /\ brAt \in {"read", "posting", "answering", "stopping", "deleting", "draining", "done", "abandoned"}
    /\ brSse \in {"none", "connecting", "streaming", "passing", "waiting", "ended"}
    /\ brSession \in BOOLEAN
    /\ brSession <=> brSse # "none"
    /\ brAt \in {"deleting", "draining", "done"} => brSse \in {"none", "ended"}
    /\ brDeletes = IF brAt \in {"draining", "done"} /\ brSession THEN 1 ELSE 0

\* A bridge that is done has written everything or says that it could not.
DoneIsWritten == brAt = "done" /\ brResult # "io" => brQueue = <<>>

BridgeInv == ChannelIsFaithful /\ PostsAreOrdered /\ ShutdownIsOrdered /\ DoneIsWritten

\* A frame enters the channel.
LEMMA SendKeepsChannel ==
    ASSUME ChannelIsFaithful, CanSend, NEW f \in Frames, SendFrame(f), UNCHANGED brOut
    PROVE  ChannelIsFaithful'
<1>1. /\ brSent' = Append(brSent, f) /\ brQueue' = Append(brQueue, f)
      /\ Len(brQueue) < FrameBuffer
    BY DEF SendFrame, CanSend
<1>2. /\ brSent \in Seq(Frames) /\ brOut \in Seq(Frames) /\ brQueue \in Seq(Frames)
      /\ Len(brSent) = Len(brOut) + Len(brQueue)
      /\ Len(brOut) \in Nat /\ Len(brQueue) \in Nat
    BY DEF ChannelIsFaithful
<1>3. /\ brSent' \in Seq(Frames) /\ Len(brSent') = Len(brSent) + 1
      /\ brSent'[Len(brSent) + 1] = f /\ \A i \in 1..Len(brSent) : brSent'[i] = brSent[i]
    <2>1. /\ Append(brSent, f) \in Seq(Frames) /\ Len(Append(brSent, f)) = Len(brSent) + 1
          /\ Append(brSent, f)[Len(brSent) + 1] = f
          /\ \A i \in 1..Len(brSent) : Append(brSent, f)[i] = brSent[i]
        <3>1. brSent \in Seq(Frames)
            BY <1>2
        <3> QED BY <3>1, AppendFacts
    <2>2. brSent' = Append(brSent, f)
        BY <1>1
    <2> QED BY <2>1, <2>2, Zenon
<1>4. /\ brQueue' \in Seq(Frames) /\ Len(brQueue') = Len(brQueue) + 1
      /\ brQueue'[Len(brQueue) + 1] = f /\ \A i \in 1..Len(brQueue) : brQueue'[i] = brQueue[i]
    <2>1. /\ Append(brQueue, f) \in Seq(Frames) /\ Len(Append(brQueue, f)) = Len(brQueue) + 1
          /\ Append(brQueue, f)[Len(brQueue) + 1] = f
          /\ \A i \in 1..Len(brQueue) : Append(brQueue, f)[i] = brQueue[i]
        <3>1. brQueue \in Seq(Frames)
            BY <1>2
        <3> QED BY <3>1, AppendFacts
    <2>2. brQueue' = Append(brQueue, f)
        BY <1>1
    <2> QED BY <2>1, <2>2, Zenon
<1>5. \A i \in 1..Len(brOut) : brSent'[i] = brOut[i]
    BY <1>2, <1>3 DEF ChannelIsFaithful
<1>6. ASSUME NEW i \in 1..Len(brQueue')
      PROVE  brSent'[Len(brOut) + i] = brQueue'[i]
    <2>1. CASE i <= Len(brQueue)
        <3>1. Len(brOut) + i \in 1..Len(brSent) /\ i \in 1..Len(brQueue)
            BY <1>2, <2>1
        <3> QED BY <1>3, <1>4, <3>1 DEF ChannelIsFaithful
    <2>2. CASE i = Len(brQueue) + 1
        <3>1. Len(brOut) + i = Len(brSent) + 1
            BY <1>2, <2>2
        <3> QED BY <1>3, <1>4, <2>2, <3>1
    <2> QED BY <1>2, <1>4, <2>1, <2>2
<1>7. Len(brQueue') <= FrameBuffer
    BY <1>1, <1>2, <1>4, BridgeAssumption
<1> QED BY <1>2, <1>3, <1>4, <1>5, <1>6, <1>7 DEF ChannelIsFaithful

\* The writer takes a frame out of the channel.
LEMMA WriteKeepsChannel ==
    ASSUME ChannelIsFaithful, WriteFrame
    PROVE  ChannelIsFaithful'
<1>1. /\ brOut' = Append(brOut, Head(brQueue)) /\ brQueue' = Tail(brQueue)
      /\ brQueue # <<>> /\ brSent' = brSent
    BY DEF WriteFrame
<1>2. /\ brSent \in Seq(Frames) /\ brOut \in Seq(Frames) /\ brQueue \in Seq(Frames)
      /\ Len(brSent) = Len(brOut) + Len(brQueue)
      /\ Len(brOut) \in Nat /\ Len(brQueue) \in Nat
    BY DEF ChannelIsFaithful
<1>3. /\ Len(brQueue) \in Nat \ {0} /\ Head(brQueue) \in Frames /\ Head(brQueue) = brQueue[1]
      /\ brQueue' \in Seq(Frames) /\ Len(brQueue') = Len(brQueue) - 1
      /\ \A i \in 1..(Len(brQueue) - 1) : brQueue'[i] = brQueue[i + 1]
    BY <1>1, <1>2, TailFacts
<1>4. /\ brOut' \in Seq(Frames) /\ Len(brOut') = Len(brOut) + 1
      /\ brOut'[Len(brOut) + 1] = brQueue[1] /\ \A i \in 1..Len(brOut) : brOut'[i] = brOut[i]
    BY <1>1, <1>2, <1>3, AppendFacts
<1>5. ASSUME NEW i \in 1..Len(brOut')
      PROVE  brSent[i] = brOut'[i]
    <2>1. CASE i \in 1..Len(brOut)
        BY <1>4, <2>1 DEF ChannelIsFaithful
    <2>2. CASE i = Len(brOut) + 1
        BY <1>2, <1>3, <1>4, <2>2 DEF ChannelIsFaithful
    <2> QED BY <1>2, <1>4, <2>1, <2>2
<1>6. ASSUME NEW i \in 1..Len(brQueue')
      PROVE  brSent[Len(brOut') + i] = brQueue'[i]
    <2>1. i + 1 \in 1..Len(brQueue) /\ Len(brOut') + i = Len(brOut) + (i + 1)
          /\ brQueue'[i] = brQueue[i + 1]
        BY <1>2, <1>3, <1>4
    <2> QED BY <2>1 DEF ChannelIsFaithful
<1>7. Len(brQueue') <= FrameBuffer
    BY <1>2, <1>3, BridgeAssumption DEF ChannelIsFaithful
<1>8. Len(brSent) = Len(brOut') + Len(brQueue')
    BY <1>2, <1>3, <1>4
<1> QED BY <1>1, <1>2, <1>3, <1>4, <1>5, <1>6, <1>7, <1>8 DEF ChannelIsFaithful

\* Steps that leave the channel alone.
LEMMA ChannelUnchanged ==
    ASSUME ChannelIsFaithful, UNCHANGED <<channelVars, brOut>>
    PROVE  ChannelIsFaithful'
BY DEF ChannelIsFaithful, channelVars

\* A frame read is posted under the next number.
LEMMA ReadKeepsInv ==
    ASSUME BridgeInv, NEW kind \in {"eof", "oversized", "malformed", "blank", "frame"}, ReadFrame(kind)
    PROVE  BridgeInv'
<1>0. ChannelIsFaithful /\ PostsAreOrdered /\ ShutdownIsOrdered /\ DoneIsWritten
    BY DEF BridgeInv
<1>1. /\ brAt = "read" /\ brReads' = brReads + 1
      /\ UNCHANGED <<brSession, brReplies, brDeletes, brCancelled, brServer, brSse, brNotes, channelVars, writerVars>>
    BY DEF ReadFrame
<1>2. \/ brAt' \in {"stopping", "abandoned", "read"} /\ brPosts' = brPosts
      \/ brAt' = "posting" /\ brPosts' = Append(brPosts, brReads + 1)
    BY <1>1 DEF ReadFrame, Break, Abandon
<1>3. ChannelIsFaithful'
    BY <1>0, <1>1, ChannelUnchanged DEF writerVars
<1>4. ShutdownIsOrdered' /\ DoneIsWritten'
    BY <1>0, <1>1, <1>2 DEF ShutdownIsOrdered, DoneIsWritten
<1>5. PostsAreOrdered'
    <2>1. CASE brAt' \in {"stopping", "abandoned", "read"} /\ brPosts' = brPosts
        <3>1. \A i \in 1..Len(brPosts) : brPosts[i] \in Nat
            BY <1>0, ElementFacts DEF PostsAreOrdered
        <3> QED BY <1>0, <1>1, <2>1, <3>1 DEF PostsAreOrdered
    <2>2. CASE brAt' = "posting" /\ brPosts' = Append(brPosts, brReads + 1)
        <3>1. brReads \in Nat /\ brReads + 1 \in Nat /\ brPosts \in Seq(Nat) /\ Len(brPosts) \in Nat
            BY <1>0 DEF PostsAreOrdered
        <3>2. /\ brPosts' \in Seq(Nat) /\ Len(brPosts') = Len(brPosts) + 1
              /\ brPosts'[Len(brPosts) + 1] = brReads + 1
              /\ \A i \in 1..Len(brPosts) : brPosts'[i] = brPosts[i]
            BY <2>2, <3>1, AppendFacts
        <3>3. \A i \in 1..Len(brPosts) : brPosts[i] <= brReads /\ brPosts[i] \in Nat
            BY <1>0, <3>1, ElementFacts DEF PostsAreOrdered
        <3>4. ASSUME NEW i \in 1..Len(brPosts')
              PROVE  brPosts'[i] <= brReads'
            <4>1. CASE i \in 1..Len(brPosts)
                BY SMTT(40), <1>1, <3>1, <3>2, <3>3, <4>1
            <4>2. CASE i = Len(brPosts) + 1
                BY <1>1, <3>1, <3>2, <4>2
            <4> QED BY <3>1, <3>2, <4>1, <4>2
        <3>5. ASSUME NEW i \in 1..Len(brPosts'), NEW j \in 1..Len(brPosts'), i < j
              PROVE  brPosts'[i] < brPosts'[j]
            <4>1. i \in 1..Len(brPosts)
                BY <3>1, <3>2, <3>5
            <4>2. CASE j \in 1..Len(brPosts)
                BY <1>0, <3>2, <3>5, <4>1, <4>2 DEF PostsAreOrdered
            <4>3. CASE j = Len(brPosts) + 1
                BY <3>1, <3>2, <3>3, <4>1, <4>3
            <4> QED BY <3>1, <3>2, <4>2, <4>3
        <3> QED BY <1>0, <1>1, <2>2, <3>1, <3>2, <3>4, <3>5 DEF PostsAreOrdered
    <2> QED BY <1>2, <2>1, <2>2
<1> QED BY <1>3, <1>4, <1>5 DEF BridgeInv

\* The steps of run_bridge after a frame was read.
LEMMA MainKeepsInv ==
    ASSUME BridgeInv, MainStep
    PROVE  BridgeInv'
<1>0. ChannelIsFaithful /\ PostsAreOrdered /\ ShutdownIsOrdered /\ DoneIsWritten
    BY DEF BridgeInv
<1>1. CASE PassReply /\ brWriter # "broken"
    <2>1. /\ brAt = "answering" /\ brReplies > 0 /\ CanSend /\ SendFrame(<<"reply", Last(brPosts)>>)
          /\ brReplies' = brReplies - 1 /\ UNCHANGED <<brAt, brResult>>
          /\ UNCHANGED <<brSession, brReads, brPosts, brDeletes, brCancelled, brServer, brSse, brNotes, writerVars>>
        BY <1>1 DEF PassReply
    <2>2. Last(brPosts) \in Nat
        <3>1. brPosts \in Seq(Nat) /\ Len(brPosts) \in 1..Len(brPosts)
            BY <1>0, <2>1 DEF PostsAreOrdered
        <3> QED BY <3>1, ElementFacts DEF Last
    <2>3. <<"reply", Last(brPosts)>> \in Frames
        BY <2>2 DEF Frames
    <2>4. ChannelIsFaithful'
        BY <1>0, <2>1, <2>3, SendKeepsChannel DEF writerVars
    <2>5. PostsAreOrdered' /\ ShutdownIsOrdered' /\ DoneIsWritten'
        BY <1>0, <2>1 DEF PostsAreOrdered, ShutdownIsOrdered, DoneIsWritten
    <2> QED BY <2>4, <2>5 DEF BridgeInv
<1>2. CASE PassReply /\ brWriter = "broken"
    <2>1. ChannelIsFaithful'
        BY <1>0, <1>2, ChannelUnchanged DEF PassReply, writerVars
    <2>2. PostsAreOrdered' /\ ShutdownIsOrdered' /\ DoneIsWritten'
        BY <1>0, <1>2 DEF PassReply, Abandon, PostsAreOrdered, ShutdownIsOrdered, DoneIsWritten
    <2> QED BY <2>1, <2>2 DEF BridgeInv
<1>3. CASE FinishPost
    <2>1. ChannelIsFaithful'
        BY <1>0, <1>3, ChannelUnchanged DEF FinishPost, writerVars
    <2>2. PostsAreOrdered' /\ ShutdownIsOrdered' /\ DoneIsWritten'
        BY <1>0, <1>3 DEF FinishPost, PostsAreOrdered, ShutdownIsOrdered, DoneIsWritten
    <2> QED BY <2>1, <2>2 DEF BridgeInv
<1>4. CASE NoticeInterrupt \/ StopForwarder
    <2>1. ChannelIsFaithful'
        BY <1>0, <1>4, ChannelUnchanged DEF NoticeInterrupt, StopForwarder, writerVars
    <2>2. PostsAreOrdered' /\ ShutdownIsOrdered' /\ DoneIsWritten'
        BY <1>0, <1>4 DEF NoticeInterrupt, StopForwarder, Break, PostsAreOrdered, ShutdownIsOrdered, DoneIsWritten
    <2> QED BY <2>1, <2>2 DEF BridgeInv
<1>5. CASE DeleteSession
    <2>1. ChannelIsFaithful'
        BY <1>0, <1>5, ChannelUnchanged DEF DeleteSession, writerVars
    <2>2. PostsAreOrdered' /\ ShutdownIsOrdered' /\ DoneIsWritten'
        BY <1>0, <1>5 DEF DeleteSession, PostsAreOrdered, ShutdownIsOrdered, DoneIsWritten
    <2> QED BY <2>1, <2>2 DEF BridgeInv
<1>6. CASE FinishBridge
    <2>1. ChannelIsFaithful'
        BY <1>0, <1>6, ChannelUnchanged DEF FinishBridge, writerVars
    <2>2. PostsAreOrdered' /\ ShutdownIsOrdered' /\ DoneIsWritten'
        BY <1>0, <1>6 DEF FinishBridge, PostsAreOrdered, ShutdownIsOrdered, DoneIsWritten, channelVars
    <2> QED BY <2>1, <2>2 DEF BridgeInv
<1>7. CASE PostFails \/ \E replies \in 0..1 : PostAnswered(replies)
    <2>1. ChannelIsFaithful'
        BY <1>0, <1>7, ChannelUnchanged DEF PostFails, PostAnswered, writerVars
    <2>2. PostsAreOrdered' /\ ShutdownIsOrdered' /\ DoneIsWritten'
        BY <1>0, <1>7 DEF PostFails, PostAnswered, Abandon, PostsAreOrdered, ShutdownIsOrdered, DoneIsWritten
    <2> QED BY <2>1, <2>2 DEF BridgeInv
<1> QED BY <1>1, <1>2, <1>3, <1>4, <1>5, <1>6, <1>7 DEF MainStep

\* The steps of the notification task, the writer and the environment.
LEMMA TasksKeepInv ==
    ASSUME BridgeInv,
           \/ SsePass \/ SseCancelled \/ WriteFrame \/ SseEvent \/ SseEnd \/ SseRetry
           \/ \E outcome \in {"success", "not_found", "failure"} : SseConnect(outcome)
           \/ BreakStdout \/ Interrupt \/ UNCHANGED bridgeVars
    PROVE  BridgeInv'
<1>0. ChannelIsFaithful /\ PostsAreOrdered /\ ShutdownIsOrdered /\ DoneIsWritten
    BY DEF BridgeInv
<1>1. CASE SsePass /\ brWriter # "broken"
    <2>1. /\ brSse = "passing" /\ CanSend /\ SendFrame(<<"note", brNotes>>) /\ brSse' = "streaming"
          /\ UNCHANGED <<mainVars, brCancelled, brServer, brNotes, writerVars>>
        BY <1>1 DEF SsePass
    <2>2. <<"note", brNotes>> \in Frames
        BY <1>0 DEF Frames, PostsAreOrdered
    <2>3. ChannelIsFaithful'
        BY <1>0, <2>1, <2>2, SendKeepsChannel DEF writerVars
    <2>4. PostsAreOrdered' /\ ShutdownIsOrdered' /\ DoneIsWritten'
        BY <1>0, <2>1 DEF mainVars, PostsAreOrdered, ShutdownIsOrdered, DoneIsWritten
    <2> QED BY <2>3, <2>4 DEF BridgeInv
<1>2. CASE SsePass /\ brWriter = "broken"
    <2>1. ChannelIsFaithful'
        BY <1>0, <1>2, ChannelUnchanged DEF SsePass, writerVars
    <2>2. PostsAreOrdered' /\ ShutdownIsOrdered' /\ DoneIsWritten'
        BY <1>0, <1>2 DEF SsePass, mainVars, channelVars, PostsAreOrdered, ShutdownIsOrdered, DoneIsWritten
    <2> QED BY <2>1, <2>2 DEF BridgeInv
<1>3. CASE SseCancelled \/ SseEvent \/ SseEnd \/ SseRetry \/ BreakStdout \/ Interrupt
    <2>1. ChannelIsFaithful'
        BY <1>0, <1>3, ChannelUnchanged
           DEF SseCancelled, SseEvent, SseEnd, SseRetry, BreakStdout, Interrupt, writerVars
    <2>2. PostsAreOrdered' /\ ShutdownIsOrdered' /\ DoneIsWritten'
        BY <1>0, <1>3 DEF SseCancelled, SseEvent, SseEnd, SseRetry, BreakStdout, Interrupt,
           mainVars, channelVars, PostsAreOrdered, ShutdownIsOrdered, DoneIsWritten
    <2> QED BY <2>1, <2>2 DEF BridgeInv
<1>4. ASSUME NEW outcome \in {"success", "not_found", "failure"}, SseConnect(outcome)
      PROVE  BridgeInv'
    <2>1. /\ brSse = "connecting" /\ brSse' \in {"streaming", "ended", "waiting"}
          /\ UNCHANGED <<mainVars, brCancelled, brServer, brNotes, channelVars, writerVars>>
        BY <1>4 DEF SseConnect
    <2>2. ChannelIsFaithful'
        BY <1>0, <2>1, ChannelUnchanged DEF writerVars
    <2>3. PostsAreOrdered' /\ ShutdownIsOrdered' /\ DoneIsWritten'
        BY <1>0, <2>1 DEF mainVars, channelVars, PostsAreOrdered, ShutdownIsOrdered, DoneIsWritten
    <2> QED BY <2>2, <2>3 DEF BridgeInv
<1>5. CASE WriteFrame
    <2>1. ChannelIsFaithful'
        BY <1>0, <1>5, WriteKeepsChannel
    <2>2. PostsAreOrdered' /\ ShutdownIsOrdered' /\ DoneIsWritten'
        BY <1>0, <1>5 DEF WriteFrame, Ended, mainVars, PostsAreOrdered, ShutdownIsOrdered, DoneIsWritten
    <2> QED BY <2>1, <2>2 DEF BridgeInv
<1>6. CASE UNCHANGED bridgeVars
    <2>1. ChannelIsFaithful'
        BY <1>0, <1>6, ChannelUnchanged DEF bridgeVars, writerVars
    <2>2. PostsAreOrdered' /\ ShutdownIsOrdered' /\ DoneIsWritten'
        BY <1>0, <1>6 DEF bridgeVars, mainVars, channelVars, PostsAreOrdered, ShutdownIsOrdered, DoneIsWritten
    <2> QED BY <2>1, <2>2 DEF BridgeInv
<1> QED BY <1>1, <1>2, <1>3, <1>4, <1>5, <1>6

\* Each stdin frame is posted at most once and in order, stdout gets what was
\* forwarded, in order and completely unless it broke, and an orderly
\* shutdown deletes the session once, after its notification task has ended.
THEOREM BridgeIsSafe == BridgeSpec => []BridgeSafety
<1>1. BridgeInit => BridgeInv
    <2> SUFFICES ASSUME BridgeInit PROVE BridgeInv
        OBVIOUS
    <2>1. ChannelIsFaithful
        BY BridgeAssumption DEF BridgeInit, ChannelIsFaithful
    <2>2. PostsAreOrdered
        BY DEF BridgeInit, PostsAreOrdered
    <2>3. ShutdownIsOrdered /\ DoneIsWritten
        BY Zenon DEF BridgeInit, ShutdownIsOrdered, DoneIsWritten
    <2> QED BY <2>1, <2>2, <2>3 DEF BridgeInv
<1>2. BridgeInv /\ [BridgeNext]_bridgeVars => BridgeInv'
    BY ReadKeepsInv, MainKeepsInv, TasksKeepInv DEF BridgeNext
<1>3. BridgeInv => BridgeSafety
    <2> SUFFICES ASSUME BridgeInv PROVE BridgeSafety
        OBVIOUS
    <2>0. ChannelIsFaithful /\ PostsAreOrdered /\ ShutdownIsOrdered /\ DoneIsWritten
        BY DEF BridgeInv
    <2>1. BridgeTypeOK /\ ShutdownClosesSession
        BY <2>0 DEF BridgeTypeOK, ShutdownClosesSession, ChannelIsFaithful, ShutdownIsOrdered
    <2>2. PostedOnce
        <3>1. DOMAIN brPosts = 1..Len(brPosts)
            BY <2>0 DEF PostsAreOrdered
        <3> QED BY <2>0, <3>1 DEF PostedOnce, PostsAreOrdered
    <2>3. ForwardedIsWritten
        <3>0. /\ brSent \in Seq(Frames) /\ brOut \in Seq(Frames) /\ brQueue \in Seq(Frames)
              /\ Len(brSent) = Len(brOut) + Len(brQueue)
              /\ Len(brOut) \in Nat /\ Len(brQueue) \in Nat
              /\ \A i \in 1..Len(brOut) : brSent[i] = brOut[i]
            BY <2>0 DEF ChannelIsFaithful
        <3>1. IsPrefix(brOut, brSent)
            <4>1. Len(brOut) <= Len(brSent)
                BY <3>0
            <4>2. SubSeq(brOut, 1, Len(brOut)) = SubSeq(brSent, 1, Len(brOut))
                BY <3>0, <4>1
            <4> QED BY <4>1, <4>2 DEF IsPrefix
        <3>2. ASSUME brAt = "done", brResult # "io"
              PROVE  brOut = brSent
            <4>1. brQueue = <<>>
                BY <2>0, <3>2 DEF DoneIsWritten
            <4>2. Len(brSent) = Len(brOut)
                BY <3>0, <4>1
            <4> QED BY <3>0, <4>2
        <3> QED BY <3>1, <3>2 DEF ForwardedIsWritten
    <2> QED BY <2>1, <2>2, <2>3 DEF BridgeSafety
<1> QED BY <1>1, <1>2, <1>3, PTL DEF BridgeSpec

-----------------------------------------------------------------------------
(* The gateway *)

Request == [at: {"idle", "retain", "retain_subscriptions", "check", "serve", "bind", "work",
                 "unbind", "unsubscribe"},
            token: McpTokens, session: SessionIds \cup {NoSession}, live: SUBSET SessionIds]

\* The sessions the library has opened: an owner is never replaced.
Opened == {s \in SessionIds : mgOwner[s] \in McpTokens}

\* From the check of the binding on, a request with a session is its owner's;
\* once the library has closed a session, it stays closed.
RequestIsOwners(q) ==
    /\ q.at \in {"bind", "work", "unbind", "unsubscribe"} => q.session \in Opened
    /\ q.at \in {"serve", "bind", "work", "unbind", "unsubscribe"} /\ q.session # NoSession =>
          q.session \in Opened /\ mgOwner[q.session] = q.token
    /\ q.at = "unbind" => q.session \notin mgLive

Opening == {r \in McpRequests : \/ At(r, "serve") /\ mgRequest[r].session = NoSession
                                \/ At(r, "bind")}

SubIsWithin(s, sub) ==
    /\ sub.game = GameOf(mgOwner[s])
    /\ sub.uris \subseteq {GameOf(mgOwner[s])} \X {"public"}

GatewayRangesOK ==
    /\ mgOwner \in [SessionIds -> McpTokens \cup {NoSession}]
    /\ mgLive \subseteq Opened
    /\ DOMAIN mgBindings \subseteq Opened
    /\ DOMAIN mgSubs \subseteq Opened
    /\ IsFiniteSet(DOMAIN mgBindings)
    /\ DOMAIN mgRequest = McpRequests

RequestsAreOwners ==
    \A r \in McpRequests : (mgRequest[r] \in Request \/ mgRequest[r] = NoRequest) /\ RequestIsOwners(mgRequest[r])

BindingsAreOwners == \A s \in DOMAIN mgBindings : mgBindings[s] = mgOwner[s]

SubsAreWithin ==
    \A s \in DOMAIN mgSubs : DOMAIN mgSubs[s] = {"game", "uris"} /\ SubIsWithin(s, mgSubs[s])

GatewayInv ==
    /\ GatewayRangesOK /\ RequestsAreOwners /\ BindingsAreOwners /\ SubsAreWithin
    /\ LimitPassedByRequestsOnly

\* The counts of LimitPassedByRequestsOnly.
LEMMA OpeningIsFinite ==
    /\ IsFiniteSet(Opening) /\ Cardinality(Opening) \in Nat
    /\ Cardinality(McpRequests) \in Nat /\ Cardinality(Opening) <= Cardinality(McpRequests)
<1>1. Opening \subseteq McpRequests
    BY DEF Opening
<1> QED BY <1>1, GatewayAssumption, FS_Subset, FS_CardinalityType

\* The request that has nothing to do.
LEMMA NoRequestFacts ==
    /\ NoRequest.at = "idle" /\ NoRequest.session = NoSession /\ RequestIsOwners(NoRequest)
BY DEF NoRequest, RequestIsOwners

\* Fewer bindings and fewer openings keep the limit.
LEMMA LimitKept ==
    ASSUME GatewayInv, DOMAIN mgBindings' \subseteq DOMAIN mgBindings, Opening' \subseteq Opening
    PROVE  LimitPassedByRequestsOnly' /\ IsFiniteSet(DOMAIN mgBindings')
<1>1. /\ IsFiniteSet(DOMAIN mgBindings) /\ LimitPassedByRequestsOnly
      /\ MaxMcpSessions \in Nat
    BY GatewayAssumption DEF GatewayInv, GatewayRangesOK
<1>2. /\ IsFiniteSet(DOMAIN mgBindings') /\ Cardinality(DOMAIN mgBindings') <= Cardinality(DOMAIN mgBindings)
      /\ Cardinality(DOMAIN mgBindings') \in Nat /\ Cardinality(DOMAIN mgBindings) \in Nat
    BY <1>1, FS_Subset, FS_CardinalityType
<1>3. /\ Cardinality(Opening') <= Cardinality(Opening)
      /\ Cardinality(Opening') \in Nat /\ Cardinality(Opening) \in Nat
      /\ Cardinality(McpRequests) \in Nat
    BY OpeningIsFinite, FS_Subset, FS_CardinalityType
<1>4. Cardinality(DOMAIN mgBindings) + Cardinality(Opening) <= MaxMcpSessions + Cardinality(McpRequests) - 1
    BY <1>1 DEF LimitPassedByRequestsOnly, Opening
<1>5. Cardinality(DOMAIN mgBindings') + Cardinality(Opening') <= MaxMcpSessions + Cardinality(McpRequests) - 1
    BY <1>1, <1>2, <1>3, <1>4
<1> QED BY <1>2, <1>5 DEF LimitPassedByRequestsOnly, Opening, At

\* A step of one request that leaves the owners alone and closes sessions at
\* most: the other requests stay as they were.
LEMMA OneRequestChanges ==
    ASSUME GatewayInv, NEW r \in McpRequests, NEW new, new \in Request \/ new = NoRequest,
           mgRequest' = [mgRequest EXCEPT ![r] = new], mgOwner' = mgOwner,
           mgLive' \subseteq mgLive, RequestIsOwners(new)'
    PROVE  /\ DOMAIN mgRequest' = McpRequests
           /\ RequestsAreOwners'
           /\ mgRequest'[r] = new /\ \A o \in McpRequests \ {r} : mgRequest'[o] = mgRequest[o]
<1>1. DOMAIN mgRequest = McpRequests
    BY DEF GatewayInv, GatewayRangesOK
<1>2. /\ DOMAIN mgRequest' = McpRequests
      /\ mgRequest'[r] = new /\ \A o \in McpRequests \ {r} : mgRequest'[o] = mgRequest[o]
    BY <1>1
<1>3. ASSUME NEW q, RequestIsOwners(q)
      PROVE  RequestIsOwners(q)'
    BY <1>3 DEF RequestIsOwners, Opened
<1>4. ASSUME NEW o \in McpRequests
      PROVE  (mgRequest'[o] \in Request \/ mgRequest'[o] = NoRequest) /\ RequestIsOwners(mgRequest[o])'
    <2>1. PICK q : q = IF o = r THEN new ELSE mgRequest[o]
        OBVIOUS
    <2>2. (q \in Request \/ q = NoRequest) /\ RequestIsOwners(q)'
        BY <1>3, <2>1 DEF GatewayInv, RequestsAreOwners
    <2>3. mgRequest'[o] = q
        BY <1>2, <2>1
    <2> QED BY <2>2, <2>3 DEF RequestIsOwners, Opened
<1> QED BY <1>2, <1>4 DEF RequestsAreOwners

\* Such a step that adds no binding and no opening, and leaves the
\* subscriptions that it does not remove as they were.
LEMMA RequestGoesOn ==
    ASSUME GatewayInv, NEW r \in McpRequests, NEW new, new \in Request \/ new = NoRequest,
           mgRequest' = [mgRequest EXCEPT ![r] = new], mgOwner' = mgOwner,
           mgLive' \subseteq mgLive, RequestIsOwners(new)',
           new.at \notin {"serve", "bind"} \/ (new.at = "serve" /\ new.session # NoSession),
           DOMAIN mgBindings' \subseteq DOMAIN mgBindings,
           \A s \in DOMAIN mgBindings' : mgBindings'[s] = mgBindings[s],
           DOMAIN mgSubs' \subseteq DOMAIN mgSubs,
           \A s \in DOMAIN mgSubs' : mgSubs'[s] = mgSubs[s]
    PROVE  GatewayInv'
<1>1. /\ DOMAIN mgRequest' = McpRequests
      /\ RequestsAreOwners'
      /\ mgRequest'[r] = new /\ \A o \in McpRequests \ {r} : mgRequest'[o] = mgRequest[o]
    BY OneRequestChanges
<1>2. Opening' \subseteq Opening
    BY <1>1 DEF Opening, At
<1>3. LimitPassedByRequestsOnly' /\ IsFiniteSet(DOMAIN mgBindings')
    BY <1>2, LimitKept
<1>4. Opened' = Opened
    BY DEF Opened
<1>5. GatewayRangesOK'
    BY <1>1, <1>3, <1>4 DEF GatewayInv, GatewayRangesOK
<1>6. BindingsAreOwners' /\ SubsAreWithin'
    BY DEF GatewayInv, BindingsAreOwners, SubsAreWithin, SubIsWithin, GameOf
<1> QED BY <1>1, <1>3, <1>5, <1>6 DEF GatewayInv

\* A request that is being handled.
LEMMA BusyRequest ==
    ASSUME GatewayInv, NEW r \in McpRequests, ~At(r, "idle")
    PROVE  mgRequest[r] \in Request /\ RequestIsOwners(mgRequest[r])
BY NoRequestFacts DEF GatewayInv, RequestsAreOwners, At

\* Moving a request on changes where it is.
LEMMA MoveFacts ==
    ASSUME GatewayInv, NEW r \in McpRequests, ~At(r, "idle"), NEW where, Move(r, where)
    PROVE  \E new : /\ mgRequest' = [mgRequest EXCEPT ![r] = new]
                    /\ new = [mgRequest[r] EXCEPT !.at = where]
                    /\ new.at = where /\ new.token = mgRequest[r].token
                    /\ new.session = mgRequest[r].session /\ new.live = mgRequest[r].live
<1>1. mgRequest[r] \in Request
    BY BusyRequest
<1>2. PICK new : new = [mgRequest[r] EXCEPT !.at = where]
    OBVIOUS
<1>3. mgRequest' = [mgRequest EXCEPT ![r] = new]
    BY <1>2 DEF Move
<1>4. /\ new.at = where /\ new.token = mgRequest[r].token
      /\ new.session = mgRequest[r].session /\ new.live = mgRequest[r].live
    BY <1>1, <1>2 DEF Request
<1> QED BY <1>2, <1>3, <1>4

\* A request arrives, or ends without touching the tables.
LEMMA ArriveOrEnd ==
    ASSUME GatewayInv, NEW r \in McpRequests,
           \/ \E t \in McpTokens, s \in SessionIds \cup {NoSession} : Arrive(r, t, s)
           \/ DropRequest(r) \/ OtherCall(r)
    PROVE  GatewayInv'
<1>0. mgLive \subseteq SessionIds
    BY DEF GatewayInv, GatewayRangesOK, Opened
<1>1. UNCHANGED <<mgLive, mgBindings, mgSubs, mgOwner, mgKnown>>
    BY DEF Arrive, DropRequest, OtherCall
<1>2. ASSUME NEW t \in McpTokens, NEW s \in SessionIds \cup {NoSession}, Arrive(r, t, s)
      PROVE  GatewayInv'
    <2>1. PICK new : new = [at |-> "retain", token |-> t, session |-> s, live |-> mgLive]
        OBVIOUS
    <2>2. mgRequest' = [mgRequest EXCEPT ![r] = new]
        BY <1>2, <2>1 DEF Arrive
    <2>3. new \in Request /\ new.at = "retain"
        BY <1>0, <2>1 DEF Request
    <2>4. RequestIsOwners(new)'
        BY <2>3 DEF RequestIsOwners
    <2> QED BY <1>1, <2>2, <2>3, <2>4, RequestGoesOn
<1>3. CASE DropRequest(r) \/ OtherCall(r)
    <2>1. mgRequest' = [mgRequest EXCEPT ![r] = NoRequest]
        BY <1>3 DEF DropRequest, OtherCall, Done
    <2>2. RequestIsOwners(NoRequest)'
        BY NoRequestFacts DEF RequestIsOwners
    <2> QED BY <1>1, <2>1, <2>2, NoRequestFacts, RequestGoesOn
<1> QED BY <1>2, <1>3

\* The sweep of remove_closed_bindings removes, and adds nothing.
LEMMA SweepStep ==
    ASSUME GatewayInv, NEW r \in McpRequests, RetainBindings(r) \/ RetainSubscriptions(r)
    PROVE  GatewayInv'
<1>1. ~At(r, "idle")
    BY DEF RetainBindings, RetainSubscriptions, At
<1>2. mgRequest[r] \in Request
    BY <1>1, BusyRequest
<1>3. CASE RetainBindings(r)
    <2>1. PICK new : /\ mgRequest' = [mgRequest EXCEPT ![r] = new]
                     /\ new = [mgRequest[r] EXCEPT !.at = "retain_subscriptions"]
                     /\ new.at = "retain_subscriptions"
        BY <1>1, <1>3, MoveFacts DEF RetainBindings
    <2>2. new \in Request
        BY <1>2, <2>1 DEF Request
    <2>3. RequestIsOwners(new)'
        BY <2>1 DEF RequestIsOwners
    <2>4. /\ DOMAIN mgBindings' \subseteq DOMAIN mgBindings
          /\ \A s \in DOMAIN mgBindings' : mgBindings'[s] = mgBindings[s]
          /\ mgSubs' = mgSubs /\ mgOwner' = mgOwner /\ mgLive' = mgLive
        BY <1>3 DEF RetainBindings, Restrict
    <2> QED BY <2>1, <2>2, <2>3, <2>4, RequestGoesOn
<1>4. CASE RetainSubscriptions(r)
    <2>1. PICK new : new = [mgRequest[r] EXCEPT !.at = "check", !.live = {}]
        OBVIOUS
    <2>2. mgRequest' = [mgRequest EXCEPT ![r] = new]
        BY <1>4, <2>1 DEF RetainSubscriptions, GatewayInv, GatewayRangesOK
    <2>3. new \in Request /\ new.at = "check"
        BY <1>2, <2>1 DEF Request
    <2>4. RequestIsOwners(new)'
        BY <2>3 DEF RequestIsOwners
    <2>5. /\ DOMAIN mgSubs' \subseteq DOMAIN mgSubs
          /\ \A s \in DOMAIN mgSubs' : mgSubs'[s] = mgSubs[s]
          /\ mgBindings' = mgBindings /\ mgOwner' = mgOwner /\ mgLive' = mgLive
        BY <1>4 DEF RetainSubscriptions, Restrict
    <2> QED BY <2>2, <2>3, <2>4, <2>5, RequestGoesOn
<1> QED BY <1>3, <1>4

\* The check of the binding, which the request keeps to, or of the limit.
LEMMA CheckStep ==
    ASSUME GatewayInv, NEW r \in McpRequests, CheckSession(r)
    PROVE  GatewayInv'
<1>0. /\ ~At(r, "idle") /\ mgRequest[r].at = "check"
      /\ UNCHANGED <<mgLive, mgBindings, mgSubs, mgOwner, mgKnown>>
    BY DEF CheckSession, At
<1>1. PICK q \in Request : q = mgRequest[r]
    BY <1>0, BusyRequest
<1>2. CASE Done(r)
    <2>1. mgRequest' = [mgRequest EXCEPT ![r] = NoRequest]
        BY <1>2 DEF Done
    <2>2. RequestIsOwners(NoRequest)'
        BY NoRequestFacts DEF RequestIsOwners
    <2> QED BY <1>0, <2>1, <2>2, NoRequestFacts, RequestGoesOn
<1>3. CASE Move(r, "serve")
    <2>1. PICK new : /\ mgRequest' = [mgRequest EXCEPT ![r] = new]
                     /\ new = [q EXCEPT !.at = "serve"]
                     /\ new.at = "serve" /\ new.token = q.token /\ new.session = q.session
        BY <1>0, <1>1, <1>3, MoveFacts
    <2>2. new \in Request
        BY <2>1 DEF Request
    <2>3. CASE q.session # NoSession
        <3>1. BoundTo(q.session, q.token)
            <4>1. Done(r) \/ BoundTo(q.session, q.token)
                BY <1>1, <2>3, Zenon DEF CheckSession
            <4>2. ~Done(r)
                <5>1. mgRequest'[r] = new
                    BY <2>1 DEF GatewayInv, GatewayRangesOK
                <5> QED BY <2>1, <5>1, NoRequestFacts DEF Done, GatewayInv, GatewayRangesOK
            <4> QED BY <4>1, <4>2
        <3>2. q.session \in Opened /\ mgOwner[q.session] = q.token
            BY <3>1 DEF BoundTo, GatewayInv, GatewayRangesOK, BindingsAreOwners
        <3>3. RequestIsOwners(new)'
            BY <1>0, <2>1, <3>2 DEF RequestIsOwners, Opened
        <3> QED BY <1>0, <2>1, <2>2, <2>3, <3>3, RequestGoesOn
    <2>4. CASE q.session = NoSession
        <3>1. Room
            <4>1. Done(r) \/ Room
                BY <1>1, <2>4, Zenon DEF CheckSession
            <4>2. ~Done(r)
                <5>1. mgRequest'[r] = new
                    BY <2>1 DEF GatewayInv, GatewayRangesOK
                <5> QED BY <2>1, <5>1, NoRequestFacts DEF Done, GatewayInv, GatewayRangesOK
            <4> QED BY <4>1, <4>2
        <3>2. RequestIsOwners(new)'
            BY <2>1, <2>4 DEF RequestIsOwners
        <3>3. DOMAIN mgRequest' = McpRequests /\ RequestsAreOwners'
            BY <1>0, <2>1, <2>2, <3>2, OneRequestChanges
        <3>4. GatewayRangesOK' /\ BindingsAreOwners' /\ SubsAreWithin'
            BY <1>0, <3>3 DEF GatewayInv, GatewayRangesOK, BindingsAreOwners, SubsAreWithin, SubIsWithin,
               GameOf, Opened
        <3>5. LimitPassedByRequestsOnly'
            <4>1. /\ Cardinality(Opening') \in Nat /\ Cardinality(McpRequests) \in Nat
                  /\ Cardinality(Opening') <= Cardinality(McpRequests)
                <5>1. Opening' \subseteq McpRequests
                    BY DEF Opening
                <5> QED BY <5>1, GatewayAssumption, FS_Subset, FS_CardinalityType
            <4>2. Cardinality(DOMAIN mgBindings) \in Nat /\ MaxMcpSessions \in Nat
                BY GatewayAssumption, FS_CardinalityType DEF GatewayInv, GatewayRangesOK
            <4>3. Cardinality(DOMAIN mgBindings) < MaxMcpSessions
                BY <3>1 DEF Room
            <4>4. Cardinality(DOMAIN mgBindings) + Cardinality(Opening')
                    <= MaxMcpSessions + Cardinality(McpRequests) - 1
                BY <4>1, <4>2, <4>3
            <4> QED BY <1>0, <4>4 DEF LimitPassedByRequestsOnly, Opening, At
        <3> QED BY <3>3, <3>4, <3>5 DEF GatewayInv
    <2> QED BY <2>3, <2>4
<1> QED BY <1>2, <1>3, Zenon DEF CheckSession

\* The library opens a session for a request that passed the limit; the id is
\* one that has no owner.
LEMMA InitializeStep ==
    ASSUME GatewayInv, NEW r \in McpRequests, Initialize(r)
    PROVE  GatewayInv'
<1>0. /\ ~At(r, "idle") /\ mgRequest[r].at = "serve" /\ mgRequest[r].session = NoSession
      /\ UNCHANGED <<mgBindings, mgSubs, mgKnown>>
    BY DEF Initialize, At
<1>1. PICK q \in Request : q = mgRequest[r]
    BY <1>0, BusyRequest
<1>2. PICK s \in SessionIds :
         /\ mgOwner[s] = NoSession
         /\ mgLive' = mgLive \cup {s} /\ mgOwner' = [mgOwner EXCEPT ![s] = mgRequest[r].token]
         /\ mgRequest' = [mgRequest EXCEPT ![r].at = "bind", ![r].session = s]
    BY DEF Initialize
<1>3. PICK new : new = [q EXCEPT !.at = "bind", !.session = s]
    OBVIOUS
<1>4. new \in Request /\ new.at = "bind" /\ new.session = s /\ new.token = q.token
    BY <1>3 DEF Request
<1>5. /\ DOMAIN mgRequest' = McpRequests /\ mgRequest'[r] = new
      /\ \A o \in McpRequests \ {r} : mgRequest'[o] = mgRequest[o]
    BY <1>1, <1>2, <1>3 DEF GatewayInv, GatewayRangesOK
<1>6. /\ mgOwner' \in [SessionIds -> McpTokens \cup {NoSession}]
      /\ q.token \in McpTokens /\ mgOwner'[s] = q.token /\ s \notin Opened
      /\ \A o \in SessionIds \ {s} : mgOwner'[o] = mgOwner[o]
    BY <1>1, <1>2, GatewayAssumption DEF GatewayInv, GatewayRangesOK, Opened, Request
<1>7. Opened' = Opened \cup {s} /\ \A o \in Opened : mgOwner'[o] = mgOwner[o] /\ o # s
    BY <1>6 DEF Opened
<1>8. GatewayRangesOK'
    BY <1>0, <1>2, <1>5, <1>6, <1>7 DEF GatewayInv, GatewayRangesOK
<1>9. ASSUME NEW o \in McpRequests
      PROVE  /\ mgRequest'[o] \in Request \/ mgRequest'[o] = NoRequest
             /\ RequestIsOwners(mgRequest[o])'
    <2>1. CASE o = r
        <3>1. RequestIsOwners(new)'
            BY <1>4, <1>6, <1>7 DEF RequestIsOwners
        <3> QED BY <1>4, <1>5, <2>1, <3>1 DEF RequestIsOwners, Opened
    <2>2. CASE o # r
        <3>1. PICK p : p = mgRequest[o]
            OBVIOUS
        <3>2. (p \in Request \/ p = NoRequest) /\ RequestIsOwners(p)
            BY <3>1 DEF GatewayInv, RequestsAreOwners
        <3>3. RequestIsOwners(p)'
            BY <1>2, <1>7, <3>2 DEF RequestIsOwners
        <3>4. mgRequest'[o] = p
            BY <1>5, <2>2, <3>1
        <3> QED BY <3>2, <3>3, <3>4 DEF RequestIsOwners, Opened
    <2> QED BY <2>1, <2>2
<1>10. RequestsAreOwners'
    BY <1>9, Zenon DEF RequestsAreOwners
<1>11. BindingsAreOwners' /\ SubsAreWithin'
    BY <1>0, <1>7 DEF GatewayInv, GatewayRangesOK, BindingsAreOwners, SubsAreWithin, SubIsWithin, GameOf
<1>12. LimitPassedByRequestsOnly'
    <2>1. Opening' \subseteq Opening
        BY <1>0, <1>4, <1>5 DEF Opening, At
    <2> QED BY <1>0, <2>1, LimitKept
<1> QED BY <1>8, <1>10, <1>11, <1>12 DEF GatewayInv

\* The answer to the initialisation binds the session to its owner.
LEMMA BindStep ==
    ASSUME GatewayInv, NEW r \in McpRequests, BindSession(r)
    PROVE  GatewayInv'
<1>0. /\ ~At(r, "idle") /\ mgRequest[r].at = "bind" /\ Done(r)
      /\ UNCHANGED <<mgLive, mgSubs, mgOwner>>
    BY DEF BindSession, At
<1>1. PICK q \in Request : q = mgRequest[r]
    BY <1>0, BusyRequest
<1>2. q.session \in Opened /\ mgOwner[q.session] = q.token
    <2>1. RequestIsOwners(q)
        BY <1>0, <1>1, BusyRequest
    <2>2. q.session \in Opened /\ q.session # NoSession
        BY <1>0, <1>1, <2>1, GatewayAssumption DEF RequestIsOwners, Opened
    <2> QED BY <1>0, <1>1, <2>1, <2>2 DEF RequestIsOwners
<1>3. /\ DOMAIN mgBindings' = DOMAIN mgBindings \cup {q.session}
      /\ mgBindings'[q.session] = q.token
      /\ \A s \in DOMAIN mgBindings \ {q.session} : mgBindings'[s] = mgBindings[s]
    BY <1>1 DEF BindSession
<1>4. /\ DOMAIN mgRequest' = McpRequests /\ RequestsAreOwners'
      /\ mgRequest'[r] = NoRequest /\ \A o \in McpRequests \ {r} : mgRequest'[o] = mgRequest[o]
    <2>1. mgRequest' = [mgRequest EXCEPT ![r] = NoRequest]
        BY <1>0 DEF Done
    <2>2. RequestIsOwners(NoRequest)'
        BY NoRequestFacts DEF RequestIsOwners
    <2> QED BY <1>0, <2>1, <2>2, OneRequestChanges
<1>5. Opening' = Opening \ {r} /\ r \in Opening
    BY <1>0, <1>4, NoRequestFacts DEF Opening, At
<1>6. Cardinality(Opening') = Cardinality(Opening) - 1 /\ Cardinality(Opening) \in Nat
    BY <1>5, OpeningIsFinite, FS_RemoveElement
<1>7. /\ IsFiniteSet(DOMAIN mgBindings) /\ Cardinality(DOMAIN mgBindings) \in Nat
      /\ IsFiniteSet(DOMAIN mgBindings') /\ Cardinality(DOMAIN mgBindings') \in Nat
      /\ Cardinality(DOMAIN mgBindings') <= Cardinality(DOMAIN mgBindings) + 1
    <2>1. IsFiniteSet(DOMAIN mgBindings)
        BY DEF GatewayInv, GatewayRangesOK
    <2>2. /\ IsFiniteSet(DOMAIN mgBindings') /\ Cardinality(DOMAIN mgBindings') \in Nat
          /\ Cardinality(DOMAIN mgBindings) \in Nat
        BY <1>3, <2>1, FS_AddElement, FS_CardinalityType
    <2>3. CASE q.session \in DOMAIN mgBindings
        <3>1. DOMAIN mgBindings' = DOMAIN mgBindings
            BY <1>3, <2>3
        <3> QED BY <2>1, <2>2, <3>1
    <2>4. CASE q.session \notin DOMAIN mgBindings
        BY <1>3, <2>1, <2>2, <2>4, FS_AddElement
    <2> QED BY <2>3, <2>4
<1>8. LimitPassedByRequestsOnly'
    <2>1. Cardinality(DOMAIN mgBindings) + Cardinality(Opening) <= MaxMcpSessions + Cardinality(McpRequests) - 1
        BY DEF GatewayInv, LimitPassedByRequestsOnly, Opening
    <2>2. Cardinality(DOMAIN mgBindings') + Cardinality(Opening') <= MaxMcpSessions + Cardinality(McpRequests) - 1
        BY <1>6, <1>7, <2>1, OpeningIsFinite, GatewayAssumption
    <2> QED BY <2>2 DEF LimitPassedByRequestsOnly, Opening, At
<1>9. GatewayRangesOK'
    BY <1>0, <1>2, <1>3, <1>4, <1>7 DEF GatewayInv, GatewayRangesOK, Opened
<1>10. BindingsAreOwners' /\ SubsAreWithin'
    BY <1>0, <1>2, <1>3 DEF GatewayInv, BindingsAreOwners, SubsAreWithin, SubIsWithin, GameOf
<1> QED BY <1>4, <1>8, <1>9, <1>10 DEF GatewayInv

\* The library closes the session of a DELETE, or looks it up for a call.
LEMMA ServeStep ==
    ASSUME GatewayInv, NEW r \in McpRequests, Delete(r) \/ Forward(r)
    PROVE  GatewayInv'
<1>0. /\ ~At(r, "idle") /\ mgRequest[r].at = "serve" /\ mgRequest[r].session # NoSession
      /\ UNCHANGED <<mgBindings, mgSubs, mgOwner, mgKnown>> /\ mgLive' \subseteq mgLive
    BY DEF Delete, Forward, At
<1>1. PICK q \in Request : q = mgRequest[r]
    BY <1>0, BusyRequest
<1>2. q.session \in Opened /\ mgOwner[q.session] = q.token
    <2>1. RequestIsOwners(q)
        BY <1>0, <1>1, BusyRequest
    <2> QED BY <1>0, <1>1, <2>1 DEF RequestIsOwners
<1>3. CASE Done(r)
    <2>1. mgRequest' = [mgRequest EXCEPT ![r] = NoRequest]
        BY <1>3 DEF Done
    <2>2. RequestIsOwners(NoRequest)'
        BY NoRequestFacts DEF RequestIsOwners
    <2> QED BY <1>0, <2>1, <2>2, NoRequestFacts, RequestGoesOn
<1>4. ASSUME NEW where \in {"work", "unbind"}, Move(r, where),
             where = "unbind" => q.session \notin mgLive'
      PROVE  GatewayInv'
    <2>1. PICK new : /\ mgRequest' = [mgRequest EXCEPT ![r] = new]
                     /\ new = [q EXCEPT !.at = where]
                     /\ new.at = where /\ new.token = q.token /\ new.session = q.session
        BY <1>0, <1>1, <1>4, MoveFacts
    <2>2. new \in Request
        BY <2>1 DEF Request
    <2>3. RequestIsOwners(new)'
        BY <1>0, <1>2, <1>4, <2>1 DEF RequestIsOwners, Opened
    <2> QED BY <1>0, <2>1, <2>2, <2>3, RequestGoesOn
<1>5. CASE Delete(r)
    <2>1. Move(r, "unbind") /\ q.session \notin mgLive'
        BY <1>1, <1>5 DEF Delete
    <2> QED BY <1>4, <2>1
<1>6. CASE Forward(r)
    <2>1. Move(r, "work") \/ Done(r)
        BY <1>6, Zenon DEF Forward
    <2> QED BY <1>3, <1>4, <2>1
<1> QED BY <1>5, <1>6

\* A closed session is unbound, then forgotten by the subscriptions.
LEMMA CloseStep ==
    ASSUME GatewayInv, NEW r \in McpRequests, Unbind(r) \/ RemoveSession(r)
    PROVE  GatewayInv'
<1>0. ~At(r, "idle") /\ UNCHANGED <<mgLive, mgOwner>>
    BY DEF Unbind, RemoveSession, At
<1>1. PICK q \in Request : q = mgRequest[r]
    BY <1>0, BusyRequest
<1>2. CASE Unbind(r)
    <2>0. RequestIsOwners(q) /\ q.at = "unbind"
        BY <1>0, <1>1, <1>2, BusyRequest DEF Unbind, At
    <2>1. PICK new : /\ mgRequest' = [mgRequest EXCEPT ![r] = new]
                     /\ new = [q EXCEPT !.at = "unsubscribe"]
                     /\ new.at = "unsubscribe" /\ new.token = q.token /\ new.session = q.session
        BY <1>0, <1>1, <1>2, MoveFacts DEF Unbind
    <2>2. new \in Request
        BY <2>1 DEF Request
    <2>3. RequestIsOwners(new)'
        BY <1>0, <2>0, <2>1 DEF RequestIsOwners, Opened
    <2>4. /\ DOMAIN mgBindings' \subseteq DOMAIN mgBindings
          /\ \A s \in DOMAIN mgBindings' : mgBindings'[s] = mgBindings[s]
          /\ mgSubs' = mgSubs
        BY <1>2 DEF Unbind, WithoutSession, Restrict
    <2> QED BY <1>0, <2>1, <2>2, <2>3, <2>4, RequestGoesOn
<1>3. CASE RemoveSession(r)
    <2>1. mgRequest' = [mgRequest EXCEPT ![r] = NoRequest]
        BY <1>3 DEF Done, RemoveSession
    <2>2. RequestIsOwners(NoRequest)'
        BY NoRequestFacts DEF RequestIsOwners
    <2>3. /\ DOMAIN mgSubs' \subseteq DOMAIN mgSubs
          /\ \A s \in DOMAIN mgSubs' : mgSubs'[s] = mgSubs[s]
          /\ mgBindings' = mgBindings
        BY <1>3 DEF RemoveSession, WithoutSession, Restrict
    <2> QED BY <1>0, <2>1, <2>2, <2>3, NoRequestFacts, RequestGoesOn
<1> QED BY <1>2, <1>3

\* A worker's call changes the subscriptions of its own session, within the
\* game of its own capability: the two belong to the same capability.
LEMMA WorkStep ==
    ASSUME GatewayInv, NEW r \in McpRequests, NEW uri \in Uris, Subscribe(r, uri) \/ Unsubscribe(r, uri)
    PROVE  GatewayInv'
<1>0. /\ ~At(r, "idle") /\ mgRequest[r].at = "work" /\ Done(r)
      /\ AuthorizeUri(uri, mgRequest[r].token) /\ Subscribable(uri)
      /\ UNCHANGED <<mgLive, mgBindings, mgOwner>>
    BY DEF Subscribe, Unsubscribe, At
<1>1. PICK q \in Request : q = mgRequest[r]
    BY <1>0, BusyRequest
<1>2. q.session \in Opened /\ mgOwner[q.session] = q.token
    <2>1. RequestIsOwners(q)
        BY <1>0, <1>1, BusyRequest
    <2>2. q.session \in Opened /\ q.session # NoSession
        BY <1>0, <1>1, <2>1, GatewayAssumption DEF RequestIsOwners, Opened
    <2> QED BY <1>0, <1>1, <2>1, <2>2 DEF RequestIsOwners
<1>3. uri \in {GameOf(q.token)} \X {"public"}
    BY <1>0, <1>1 DEF Uris, AuthorizeUri, Subscribable
<1>4. /\ DOMAIN mgRequest' = McpRequests /\ RequestsAreOwners'
      /\ mgRequest'[r] = NoRequest /\ \A o \in McpRequests \ {r} : mgRequest'[o] = mgRequest[o]
    <2>1. mgRequest' = [mgRequest EXCEPT ![r] = NoRequest]
        BY <1>0 DEF Done
    <2>2. RequestIsOwners(NoRequest)'
        BY NoRequestFacts DEF RequestIsOwners
    <2> QED BY <1>0, <2>1, <2>2, OneRequestChanges
<1>5. ASSUME NEW sub, mgSubs' = [s \in DOMAIN mgSubs \cup {q.session} |->
                                     IF s = q.session THEN sub ELSE mgSubs[s]],
             DOMAIN sub = {"game", "uris"}, SubIsWithin(q.session, sub)
      PROVE  SubsAreWithin' /\ DOMAIN mgSubs' \subseteq Opened
    <2>1. \A s \in DOMAIN mgSubs' : mgSubs'[s] = IF s = q.session THEN sub ELSE mgSubs[s]
        BY <1>5
    <2>2. DOMAIN mgSubs' = DOMAIN mgSubs \cup {q.session}
        BY <1>5
    <2>3. ASSUME NEW s \in DOMAIN mgSubs'
          PROVE  DOMAIN mgSubs'[s] = {"game", "uris"} /\ SubIsWithin(s, mgSubs[s])'
        <3>1. PICK own : own = mgSubs'[s]
            OBVIOUS
        <3>2. DOMAIN own = {"game", "uris"} /\ SubIsWithin(s, own)
            BY <1>5, <2>1, <2>2, <3>1 DEF GatewayInv, SubsAreWithin
        <3> QED BY <1>0, <3>1, <3>2 DEF SubIsWithin
    <2> QED BY <1>2, <2>2, <2>3, Zenon DEF SubsAreWithin, GatewayInv, GatewayRangesOK
<1>6. SubsAreWithin' /\ DOMAIN mgSubs' \subseteq Opened
    <2>1. CASE Subscribe(r, uri)
        <3>1. PICK now : now = IF q.session \in DOMAIN mgSubs THEN mgSubs[q.session]
                               ELSE [game |-> GameOf(q.token), uris |-> {}]
            OBVIOUS
        <3>2. DOMAIN now = {"game", "uris"} /\ SubIsWithin(q.session, now)
            BY <1>2, <3>1 DEF GatewayInv, SubsAreWithin, SubIsWithin
        <3>3. PICK sub : sub = [now EXCEPT !.uris = @ \cup {uri}]
            OBVIOUS
        <3>4. /\ DOMAIN sub = {"game", "uris"} /\ sub.game = now.game
              /\ sub.uris = now.uris \cup {uri}
            BY <3>2, <3>3
        <3>5. SubIsWithin(q.session, sub)
            BY <1>2, <1>3, <3>2, <3>4 DEF SubIsWithin
        <3>6. mgSubs' = [s \in DOMAIN mgSubs \cup {q.session} |-> IF s = q.session THEN sub ELSE mgSubs[s]]
            BY <1>1, <2>1, <3>1, <3>3 DEF Subscribe
        <3> QED BY <1>5, <3>4, <3>5, <3>6
    <2>2. CASE Unsubscribe(r, uri) /\ mgSubs' = WithoutSession(mgSubs, q.session)
        BY <1>0, <2>2 DEF WithoutSession, Restrict, GatewayInv, GatewayRangesOK, SubsAreWithin, SubIsWithin, GameOf
    <2>3. CASE Unsubscribe(r, uri) /\ mgSubs' # WithoutSession(mgSubs, q.session)
        <3>1. /\ q.session \in DOMAIN mgSubs
              /\ mgSubs' = [mgSubs EXCEPT ![q.session].uris = @ \ {uri}]
            BY <1>1, <2>3 DEF Unsubscribe
        <3>2. DOMAIN mgSubs[q.session] = {"game", "uris"} /\ SubIsWithin(q.session, mgSubs[q.session])
            BY <3>1 DEF GatewayInv, SubsAreWithin
        <3>3. PICK sub : sub = [mgSubs[q.session] EXCEPT !.uris = @ \ {uri}]
            OBVIOUS
        <3>4. /\ DOMAIN sub = {"game", "uris"} /\ sub.game = mgSubs[q.session].game
              /\ sub.uris = mgSubs[q.session].uris \ {uri}
            BY <3>2, <3>3
        <3>5. SubIsWithin(q.session, sub)
            BY <3>2, <3>4 DEF SubIsWithin
        <3>6. mgSubs' = [s \in DOMAIN mgSubs \cup {q.session} |-> IF s = q.session THEN sub ELSE mgSubs[s]]
            BY <3>1, <3>3
        <3> QED BY <1>5, <3>4, <3>5, <3>6
    <2> QED BY <2>1, <2>2, <2>3
<1>7. LimitPassedByRequestsOnly' /\ IsFiniteSet(DOMAIN mgBindings')
    <2>1. Opening' \subseteq Opening
        BY <1>4, NoRequestFacts DEF Opening, At
    <2> QED BY <1>0, <2>1, LimitKept
<1>8. GatewayRangesOK' /\ BindingsAreOwners'
    BY <1>0, <1>4, <1>6, <1>7 DEF GatewayInv, GatewayRangesOK, BindingsAreOwners, Opened
<1> QED BY <1>4, <1>6, <1>7, <1>8 DEF GatewayInv

\* The library closes an idle session, or nothing happens.
LEMMA ExpireStep ==
    ASSUME GatewayInv, (\E s \in SessionIds : Expire(s)) \/ UNCHANGED gatewayVars
    PROVE  GatewayInv'
<1>1. /\ mgLive' \subseteq mgLive
      /\ UNCHANGED <<mgBindings, mgSubs, mgRequest, mgOwner>>
    BY DEF Expire, gatewayVars
<1>2. Opened' = Opened /\ Opening' = Opening
    BY <1>1 DEF Opened, Opening, At
<1>3. ASSUME NEW r \in McpRequests
      PROVE  RequestIsOwners(mgRequest[r])'
    <2>1. PICK q : q = mgRequest[r]
        OBVIOUS
    <2>2. RequestIsOwners(q)
        BY <2>1 DEF GatewayInv, RequestsAreOwners
    <2>3. RequestIsOwners(q)'
        BY <1>1, <1>2, <2>2 DEF RequestIsOwners
    <2> QED BY <1>1, <2>1, <2>3 DEF RequestIsOwners, Opened
<1>4. RequestsAreOwners'
    BY <1>1, <1>3, Zenon DEF GatewayInv, RequestsAreOwners
<1>5. LimitPassedByRequestsOnly' /\ IsFiniteSet(DOMAIN mgBindings')
    BY <1>1, <1>2, LimitKept
<1>6. GatewayRangesOK' /\ BindingsAreOwners' /\ SubsAreWithin'
    BY <1>1, <1>2, <1>5 DEF GatewayInv, GatewayRangesOK, BindingsAreOwners, SubsAreWithin, SubIsWithin, GameOf
<1> QED BY <1>4, <1>5, <1>6 DEF GatewayInv

\* The invariant of the gateway is inductive.
LEMMA GatewayInvNext == GatewayInv /\ [GatewayNext]_gatewayVars => GatewayInv'
<1> SUFFICES ASSUME GatewayInv, [GatewayNext]_gatewayVars
             PROVE  GatewayInv'
    OBVIOUS
<1>1. CASE UNCHANGED gatewayVars \/ \E s \in SessionIds : Expire(s)
    BY <1>1, ExpireStep
<1>2. ASSUME NEW r \in McpRequests, NEW t \in McpTokens, NEW s \in SessionIds \cup {NoSession}, Arrive(r, t, s)
      PROVE  GatewayInv'
    BY <1>2, ArriveOrEnd
<1>3. ASSUME NEW r \in McpRequests, RequestStep(r)
      PROVE  GatewayInv'
    <2>1. CASE RetainBindings(r) \/ RetainSubscriptions(r)
        BY <2>1, SweepStep
    <2>2. CASE CheckSession(r)
        BY <2>2, CheckStep
    <2>3. CASE Initialize(r)
        BY <2>3, InitializeStep
    <2>4. CASE Delete(r) \/ Forward(r)
        BY <2>4, ServeStep
    <2>5. CASE BindSession(r)
        BY <2>5, BindStep
    <2>6. CASE Unbind(r) \/ RemoveSession(r)
        BY <2>6, CloseStep
    <2>7. ASSUME NEW uri \in Uris, Subscribe(r, uri) \/ Unsubscribe(r, uri)
          PROVE  GatewayInv'
        BY <2>7, WorkStep
    <2>8. CASE OtherCall(r)
        BY <2>8, ArriveOrEnd
    <2> QED BY <1>3, <2>1, <2>2, <2>3, <2>4, <2>5, <2>6, <2>7, <2>8, Zenon DEF RequestStep
<1>4. ASSUME NEW r \in McpRequests, DropRequest(r)
      PROVE  GatewayInv'
    BY <1>4, ArriveOrEnd
<1> QED BY <1>1, <1>2, <1>3, <1>4, Zenon DEF GatewayNext

\* It holds of a gateway that has just started.
LEMMA GatewayInvInit == GatewayInit => GatewayInv
<1> SUFFICES ASSUME GatewayInit
             PROVE  GatewayInv
    OBVIOUS
<1>1. /\ mgLive = {} /\ DOMAIN mgBindings = {} /\ DOMAIN mgSubs = {}
      /\ mgOwner \in [SessionIds -> McpTokens \cup {NoSession}]
      /\ DOMAIN mgRequest = McpRequests /\ \A r \in McpRequests : mgRequest[r] = NoRequest
    BY DEF GatewayInit
<1>2. GatewayRangesOK
    BY <1>1, FS_EmptySet DEF GatewayRangesOK
<1>3. RequestsAreOwners
    BY <1>1, NoRequestFacts DEF RequestsAreOwners
<1>4. BindingsAreOwners /\ SubsAreWithin
    BY <1>1 DEF BindingsAreOwners, SubsAreWithin
<1>5. LimitPassedByRequestsOnly
    <2>1. Opening = {} /\ Cardinality(Opening) = 0 /\ Cardinality(DOMAIN mgBindings) = 0
        BY <1>1, NoRequestFacts, FS_EmptySet DEF Opening, At
    <2>2. Cardinality(DOMAIN mgBindings) + Cardinality(Opening) <= MaxMcpSessions + Cardinality(McpRequests) - 1
        BY <2>1, GatewayAssumption, OpeningIsFinite
    <2> QED BY <2>2 DEF LimitPassedByRequestsOnly, Opening
<1> QED BY <1>2, <1>3, <1>4, <1>5 DEF GatewayInv

\* GatewaySafety, for any number of requests, capabilities and sessions:
\* a session is used, subscribed and told of games only for the capability
\* that initialised it, the session limit is passed by requests in flight at
\* most, and the binding of a live session is lost only to a sweep that copied
\* the live sessions before it was opened.  RequestIsOwners carries the check
\* of the binding across the locks a request takes after it.
THEOREM GatewayIsSafe == GatewaySpec => GatewaySafety
<1>1. GatewayInit => GatewayInv
    BY GatewayInvInit
<1>2. GatewayInv /\ [GatewayNext]_gatewayVars => GatewayInv'
    BY GatewayInvNext
<1>3. GatewayInv => GatewayTypeOK /\ SessionIsNotTransferred /\ SubscribedWithinGame
                    /\ ToldOfOneGame /\ LimitPassedByRequestsOnly
    <2> SUFFICES ASSUME GatewayInv
                 PROVE  GatewayTypeOK /\ SessionIsNotTransferred /\ SubscribedWithinGame
                        /\ ToldOfOneGame /\ LimitPassedByRequestsOnly
        OBVIOUS
    <2>1. GatewayTypeOK
        <3>1. \A r \in McpRequests : mgRequest[r].at \in {"idle", "retain", "retain_subscriptions",
                    "check", "serve", "bind", "work", "unbind", "unsubscribe"}
            BY NoRequestFacts DEF GatewayInv, RequestsAreOwners, Request
        <3> QED BY <3>1 DEF GatewayTypeOK, GatewayInv, GatewayRangesOK, Opened
    <2>2. SessionIsNotTransferred
        BY GatewayAssumption DEF SessionIsNotTransferred, GatewayInv, RequestsAreOwners, RequestIsOwners, Opened
    <2>3. SubscribedWithinGame /\ ToldOfOneGame
        BY DEF SubscribedWithinGame, ToldOfOneGame, Targets, GatewayInv, SubsAreWithin, SubIsWithin
    <2> QED BY <2>1, <2>2, <2>3 DEF GatewayInv
<1>4. GatewayInv /\ [GatewayNext]_gatewayVars =>
        [\A s \in mgLive' \cap DOMAIN mgBindings : s \notin DOMAIN mgBindings' =>
            \E r \in McpRequests : At(r, "retain") /\ s \notin mgRequest[r].live]_gatewayVars
    <2> SUFFICES ASSUME GatewayInv, GatewayNext,
                        NEW s \in mgLive' \cap DOMAIN mgBindings, s \notin DOMAIN mgBindings'
                 PROVE  \E r \in McpRequests : At(r, "retain") /\ s \notin mgRequest[r].live
        OBVIOUS
    <2>1. ASSUME NEW r \in McpRequests, RequestStep(r)
          PROVE  At(r, "retain") /\ s \notin mgRequest[r].live
        <3>1. RetainBindings(r) \/ Unbind(r)
            <4>1. ASSUME BindSession(r)
                  PROVE  FALSE
                BY <4>1 DEF BindSession
            <4>2. ASSUME \/ RetainSubscriptions(r) \/ CheckSession(r) \/ Initialize(r) \/ Delete(r)
                         \/ Forward(r) \/ RemoveSession(r) \/ OtherCall(r)
                         \/ \E uri \in Uris : Subscribe(r, uri) \/ Unsubscribe(r, uri)
                  PROVE  FALSE
                <5>1. mgBindings' = mgBindings
                    BY <4>2, Zenon DEF RetainSubscriptions, CheckSession, Initialize, Delete, Forward, RemoveSession,
                       OtherCall, Subscribe, Unsubscribe
                <5> QED BY <5>1
            <4> QED BY <2>1, <4>1, <4>2, Zenon DEF RequestStep
        <3>2. CASE RetainBindings(r)
            BY <3>2 DEF RetainBindings, Restrict
        <3>3. CASE Unbind(r)
            <4>1. mgRequest[r].session \notin mgLive
                BY <3>3 DEF Unbind, At, GatewayInv, RequestsAreOwners, RequestIsOwners
            <4>2. s = mgRequest[r].session /\ s \in mgLive
                BY <3>3 DEF Unbind, WithoutSession, Restrict
            <4> QED BY <4>1, <4>2
        <3> QED BY <3>1, <3>2, <3>3
    <2>2. ASSUME NEW r \in McpRequests, DropRequest(r) \/ \E t \in McpTokens, o \in SessionIds \cup {NoSession} : Arrive(r, t, o)
          PROVE  FALSE
        BY <2>2 DEF DropRequest, Arrive
    <2>3. ASSUME NEW o \in SessionIds, Expire(o)
          PROVE  FALSE
        BY <2>3 DEF Expire
    <2> QED BY <2>1, <2>2, <2>3, Zenon DEF GatewayNext
<1> QED BY <1>1, <1>2, <1>3, <1>4, PTL DEF GatewaySpec, GatewaySafety, BindingLostOnlyToStaleSweep

-----------------------------------------------------------------------------
(* Framing: what is read of a text, byte by byte *)

\* A set of natural numbers that is not empty has a least member.
LEMMA LeastOf ==
    ASSUME NEW S, S \subseteq Nat, S # {}
    PROVE  \E n \in S : \A m \in S : n <= m
<1>1. \E n \in S : \A m \in S : ~(<<m, n>> \in OpToRel(<, Nat))
    BY NatLessThanWellFounded, WFMin, Zenon
<1>2. ASSUME NEW m \in Nat, NEW n \in Nat, m < n
      PROVE  <<m, n>> \in OpToRel(<, Nat)
    BY <1>2, Zenon DEF OpToRel
<1>3. \E n \in S : \A m \in S : ~(m < n)
    BY <1>1, <1>2, Zenon
<1> QED BY <1>3

\* f[k] is what str::lines has read of the first k bytes, for k up to m.
LinesUpto(f, text, m) ==
    f = [k \in 0..m |-> IF k = 0 THEN [line |-> <<>>, data |-> <<>>] ELSE NextByte(f[k - 1], text[k])]

\* The same for what the text means.
MeansUpto(f, text, m) ==
    f = [k \in 0..m |-> IF k = 0 THEN [line |-> <<>>, data |-> <<>>, events |-> <<>>]
                        ELSE Hear(f[k - 1], text[k])]

\* There is such a function for every text and every m.
LEMMA LinesExist ==
    ASSUME NEW text, NEW m \in Nat
    PROVE  \E f : LinesUpto(f, text, m)
<1> SUFFICES ASSUME ~ \E f : LinesUpto(f, text, m)
             PROVE  FALSE
    OBVIOUS
<1> DEFINE Bad == { n \in Nat : ~ \E f : LinesUpto(f, text, n) }
           Start == [line |-> <<>>, data |-> <<>>]
<1> HIDE DEF Start
<1>1. PICK n \in Bad : \A k \in Bad : n <= k
    BY LeastOf
<1>2. n # 0
    <2>1. LinesUpto([i \in 0..0 |-> Start], text, 0)
        BY DEF LinesUpto, Start
    <2> QED BY <2>1
<1>3. PICK f : LinesUpto(f, text, n - 1)
    <2>1. n \in Nat /\ n - 1 \in Nat /\ ~(n <= n - 1)
        BY <1>2
    <2> QED BY <1>1, <2>1
<1>4. PICK g : g = [k \in 0..n |-> IF k = n THEN NextByte(f[n - 1], text[n]) ELSE f[k]]
    OBVIOUS
<1>5. ASSUME NEW k \in 0..n
      PROVE  g[k] = IF k = 0 THEN Start ELSE NextByte(g[k - 1], text[k])
    <2>1. \A i \in 0..n - 1 : g[i] = f[i]
        BY <1>2, <1>4
    <2>2. CASE k = n
        <3>1. n - 1 \in 0..n - 1
            BY <1>2
        <3> QED BY <1>2, <1>4, <2>1, <2>2, <3>1
    <2>3. CASE k # n
        <3>1. k \in 0..n - 1
            BY <2>3
        <3>2. f[k] = IF k = 0 THEN Start ELSE NextByte(f[k - 1], text[k])
            BY <1>3, <3>1 DEF LinesUpto, Start
        <3>3. k # 0 => k - 1 \in 0..n - 1
            BY <3>1
        <3> QED BY <2>1, <3>1, <3>2, <3>3
    <2> QED BY <2>2, <2>3
<1>6. LinesUpto(g, text, n)
    <2>1. g = [k \in 0..n |-> g[k]]
        BY <1>4
    <2> QED BY <1>5, <2>1, Zenon DEF LinesUpto, Start
<1> QED BY <1>6

\* The same for what a text means.
LEMMA MeaningExists ==
    ASSUME NEW text, NEW m \in Nat
    PROVE  \E f : MeansUpto(f, text, m)
<1> SUFFICES ASSUME ~ \E f : MeansUpto(f, text, m)
             PROVE  FALSE
    OBVIOUS
<1> DEFINE Bad == { n \in Nat : ~ \E f : MeansUpto(f, text, n) }
           Start == [line |-> <<>>, data |-> <<>>, events |-> <<>>]
<1> HIDE DEF Start
<1>1. PICK n \in Bad : \A k \in Bad : n <= k
    BY LeastOf
<1>2. n # 0
    <2>1. MeansUpto([i \in 0..0 |-> Start], text, 0)
        BY DEF MeansUpto, Start
    <2> QED BY <2>1
<1>3. PICK f : MeansUpto(f, text, n - 1)
    <2>1. n \in Nat /\ n - 1 \in Nat /\ ~(n <= n - 1)
        BY <1>2
    <2> QED BY <1>1, <2>1
<1>4. PICK g : g = [k \in 0..n |-> IF k = n THEN Hear(f[n - 1], text[n]) ELSE f[k]]
    OBVIOUS
<1>5. ASSUME NEW k \in 0..n
      PROVE  g[k] = IF k = 0 THEN Start ELSE Hear(g[k - 1], text[k])
    <2>1. \A i \in 0..n - 1 : g[i] = f[i]
        BY <1>2, <1>4
    <2>2. CASE k = n
        <3>1. n - 1 \in 0..n - 1
            BY <1>2
        <3> QED BY <1>2, <1>4, <2>1, <2>2, <3>1
    <2>3. CASE k # n
        <3>1. k \in 0..n - 1
            BY <2>3
        <3>2. f[k] = IF k = 0 THEN Start ELSE Hear(f[k - 1], text[k])
            BY <1>3, <3>1 DEF MeansUpto, Start
        <3>3. k # 0 => k - 1 \in 0..n - 1
            BY <3>1
        <3> QED BY <2>1, <3>1, <3>2, <3>3
    <2> QED BY <2>2, <2>3
<1>6. MeansUpto(g, text, n)
    <2>1. g = [k \in 0..n |-> g[k]]
        BY <1>4
    <2> QED BY <1>5, <2>1, Zenon DEF MeansUpto, Start
<1> QED BY <1>6

\* The same bytes are read alike, whatever follows.
LEMMA LinesAgree ==
    ASSUME NEW text, NEW t, NEW m \in Nat, NEW n \in Nat, n <= m,
           \A i \in 1..n : text[i] = t[i],
           NEW f, LinesUpto(f, text, m), NEW g, LinesUpto(g, t, n)
    PROVE  f[n] = g[n]
<1> DEFINE Bad == { k \in 0..n : f[k] # g[k] }
<1> SUFFICES ASSUME Bad # {}
             PROVE  FALSE
    OBVIOUS
<1>0. Bad \subseteq Nat
    OBVIOUS
<1>1. PICK k \in Bad : \A j \in Bad : k <= j
    BY <1>0, LeastOf
<1>2. /\ f[k] = IF k = 0 THEN [line |-> <<>>, data |-> <<>>] ELSE NextByte(f[k - 1], text[k])
      /\ g[k] = IF k = 0 THEN [line |-> <<>>, data |-> <<>>] ELSE NextByte(g[k - 1], t[k])
    <2>1. k \in 0..m /\ k \in 0..n
        OBVIOUS
    <2> QED BY <2>1, Zenon DEF LinesUpto
<1>3. k # 0
    BY <1>1, <1>2
<1>4. k - 1 \in 0..n /\ ~(k <= k - 1) /\ k \in 1..n
    BY <1>3
<1>5. f[k - 1] = g[k - 1]
    BY <1>1, <1>4
<1> QED BY <1>1, <1>2, <1>3, <1>4, <1>5

\* The same for what a text means.
LEMMA MeaningAgrees ==
    ASSUME NEW text, NEW t, NEW m \in Nat, NEW n \in Nat, n <= m,
           \A i \in 1..n : text[i] = t[i],
           NEW f, MeansUpto(f, text, m), NEW g, MeansUpto(g, t, n)
    PROVE  f[n] = g[n]
<1> DEFINE Bad == { k \in 0..n : f[k] # g[k] }
<1> SUFFICES ASSUME Bad # {}
             PROVE  FALSE
    OBVIOUS
<1>0. Bad \subseteq Nat
    OBVIOUS
<1>1. PICK k \in Bad : \A j \in Bad : k <= j
    BY <1>0, LeastOf
<1>2. /\ f[k] = IF k = 0 THEN [line |-> <<>>, data |-> <<>>, events |-> <<>>] ELSE Hear(f[k - 1], text[k])
      /\ g[k] = IF k = 0 THEN [line |-> <<>>, data |-> <<>>, events |-> <<>>] ELSE Hear(g[k - 1], t[k])
    <2>1. k \in 0..m /\ k \in 0..n
        OBVIOUS
    <2> QED BY <2>1, Zenon DEF MeansUpto
<1>3. k # 0
    BY <1>1, <1>2
<1>4. k - 1 \in 0..n /\ ~(k <= k - 1) /\ k \in 1..n
    BY <1>3
<1>5. f[k - 1] = g[k - 1]
    BY <1>1, <1>4
<1> QED BY <1>1, <1>2, <1>3, <1>4, <1>5

\* Reading one more byte.
LEMMA LinesStep ==
    ASSUME NEW S, NEW t \in Seq(S), NEW b \in S
    PROVE  LinesOf(Append(t, b)) = NextByte(LinesOf(t), b)
<1>0. PICK text, n : text = Append(t, b) /\ n = Len(t)
    OBVIOUS
<1>1. n \in Nat /\ Len(text) = n + 1 /\ text[n + 1] = b /\ \A i \in 1..n : text[i] = t[i]
    BY <1>0
<1>2. PICK f, g : f = (CHOOSE h : LinesUpto(h, text, n + 1)) /\ g = (CHOOSE h : LinesUpto(h, t, n))
    OBVIOUS
<1>3. LinesUpto(f, text, n + 1) /\ LinesUpto(g, t, n)
    <2>1. n + 1 \in Nat
        BY <1>1
    <2>2. (\E h : LinesUpto(h, text, n + 1)) /\ \E h : LinesUpto(h, t, n)
        BY <1>1, <2>1, LinesExist
    <2> QED BY <1>2, <2>2, Zenon
<1>4. LinesOf(text) = f[n + 1] /\ LinesOf(t) = g[n]
    <2>1. LinesOf(text) = (CHOOSE h : LinesUpto(h, text, Len(text)))[Len(text)]
        BY Zenon DEF LinesOf, LinesUpto
    <2>2. LinesOf(t) = (CHOOSE h : LinesUpto(h, t, Len(t)))[Len(t)]
        BY Zenon DEF LinesOf, LinesUpto
    <2> QED BY <1>0, <1>1, <1>2, <2>1, <2>2
<1>5. f[n] = g[n]
    <2>1. n + 1 \in Nat /\ n <= n + 1
        BY <1>1
    <2> QED BY <1>1, <1>3, <2>1, LinesAgree
<1>6. f[n + 1] = NextByte(f[n], text[n + 1])
    <2>1. n + 1 \in 0..n + 1 /\ n + 1 # 0 /\ (n + 1) - 1 = n
        BY <1>1
    <2>2. f[n + 1] = IF n + 1 = 0 THEN [line |-> <<>>, data |-> <<>>] ELSE NextByte(f[(n + 1) - 1], text[n + 1])
        BY <1>3, <2>1, Zenon DEF LinesUpto
    <2> QED BY <2>1, <2>2
<1> QED BY <1>0, <1>1, <1>4, <1>5, <1>6

\* Of the empty text nothing is read.
LEMMA LinesStart == LinesOf(<<>>) = [line |-> <<>>, data |-> <<>>]
<1>1. PICK f, t : f = (CHOOSE h : LinesUpto(h, t, 0)) /\ t = <<>>
    OBVIOUS
<1>2. LinesUpto(f, t, 0)
    <2>1. \E h : LinesUpto(h, t, 0)
        BY LinesExist
    <2> QED BY <1>1, <2>1, Zenon
<1>3. f[0] = [line |-> <<>>, data |-> <<>>]
    <2>1. 0 \in 0..0
        OBVIOUS
    <2>2. f[0] = IF 0 = 0 THEN [line |-> <<>>, data |-> <<>>] ELSE NextByte(f[0 - 1], t[0])
        BY <1>2, <2>1, Zenon DEF LinesUpto
    <2> QED BY <2>2
<1>4. LinesOf(t) = (CHOOSE h : LinesUpto(h, t, Len(t)))[Len(t)]
    BY Zenon DEF LinesOf, LinesUpto
<1>5. Len(t) = 0
    BY <1>1
<1> QED BY <1>1, <1>3, <1>4, <1>5

\* What a text means with one more byte.
LEMMA MeaningStep ==
    ASSUME NEW S, NEW t \in Seq(S), NEW b \in S
    PROVE  Meaning(Append(t, b)) = Hear(Meaning(t), b)
<1>0. PICK text, n : text = Append(t, b) /\ n = Len(t)
    OBVIOUS
<1>1. n \in Nat /\ Len(text) = n + 1 /\ text[n + 1] = b /\ \A i \in 1..n : text[i] = t[i]
    BY <1>0
<1>2. PICK f, g : f = (CHOOSE h : MeansUpto(h, text, n + 1)) /\ g = (CHOOSE h : MeansUpto(h, t, n))
    OBVIOUS
<1>3. MeansUpto(f, text, n + 1) /\ MeansUpto(g, t, n)
    <2>1. n + 1 \in Nat
        BY <1>1
    <2>2. (\E h : MeansUpto(h, text, n + 1)) /\ \E h : MeansUpto(h, t, n)
        BY <1>1, <2>1, MeaningExists
    <2> QED BY <1>2, <2>2, Zenon
<1>4. Meaning(text) = f[n + 1] /\ Meaning(t) = g[n]
    <2>1. Meaning(text) = (CHOOSE h : MeansUpto(h, text, Len(text)))[Len(text)]
        BY Zenon DEF Meaning, MeansUpto
    <2>2. Meaning(t) = (CHOOSE h : MeansUpto(h, t, Len(t)))[Len(t)]
        BY Zenon DEF Meaning, MeansUpto
    <2> QED BY <1>0, <1>1, <1>2, <2>1, <2>2
<1>5. f[n] = g[n]
    <2>1. n + 1 \in Nat /\ n <= n + 1
        BY <1>1
    <2> QED BY <1>1, <1>3, <2>1, MeaningAgrees
<1>6. f[n + 1] = Hear(f[n], text[n + 1])
    <2>1. n + 1 \in 0..n + 1 /\ n + 1 # 0 /\ (n + 1) - 1 = n
        BY <1>1
    <2>2. f[n + 1] = IF n + 1 = 0 THEN [line |-> <<>>, data |-> <<>>, events |-> <<>>]
                     ELSE Hear(f[(n + 1) - 1], text[n + 1])
        BY <1>3, <2>1, Zenon DEF MeansUpto
    <2> QED BY <2>1, <2>2
<1> QED BY <1>0, <1>1, <1>4, <1>5, <1>6

\* The empty text means nothing.
LEMMA MeaningStart == Meaning(<<>>) = [line |-> <<>>, data |-> <<>>, events |-> <<>>]
<1>1. PICK f, t : f = (CHOOSE h : MeansUpto(h, t, 0)) /\ t = <<>>
    OBVIOUS
<1>2. MeansUpto(f, t, 0)
    <2>1. \E h : MeansUpto(h, t, 0)
        BY MeaningExists
    <2> QED BY <1>1, <2>1, Zenon
<1>3. f[0] = [line |-> <<>>, data |-> <<>>, events |-> <<>>]
    <2>1. 0 \in 0..0
        OBVIOUS
    <2>2. f[0] = IF 0 = 0 THEN [line |-> <<>>, data |-> <<>>, events |-> <<>>] ELSE Hear(f[0 - 1], t[0])
        BY <1>2, <2>1, Zenon DEF MeansUpto
    <2> QED BY <2>2
<1>4. Meaning(t) = (CHOOSE h : MeansUpto(h, t, Len(t)))[Len(t)]
    BY Zenon DEF Meaning, MeansUpto
<1>5. Len(t) = 0
    BY <1>1
<1> QED BY <1>1, <1>3, <1>4, <1>5

-----------------------------------------------------------------------------
(* Framing: lines, prefixes and delimiters *)

\* One byte more, field by field.
LEMMA LinesNext ==
    ASSUME NEW t \in Seq(Byte), NEW b \in Byte
    PROVE  /\ b = "n" => /\ LinesOf(Append(t, b)).line = <<>>
                         /\ LinesOf(Append(t, b)).data = WithLine(LinesOf(t).data, LinesOf(t).line)
           /\ b # "n" => /\ LinesOf(Append(t, b)).line = Append(LinesOf(t).line, b)
                         /\ LinesOf(Append(t, b)).data = LinesOf(t).data
<1>1. LinesOf(Append(t, b)) = NextByte(LinesOf(t), b)
    BY LinesStep
<1> QED BY <1>1 DEF NextByte

\* The parts of what is read of the empty text.
LEMMA LinesNone == LinesOf(<<>>).line = <<>> /\ LinesOf(<<>>).data = <<>>
BY LinesStart

\* The parts of what the empty text means.
LEMMA MeaningNone ==
    Meaning(<<>>).line = <<>> /\ Meaning(<<>>).data = <<>> /\ Meaning(<<>>).events = <<>>
BY MeaningStart

\* The first k bytes of a text, from the first k - 1.
LEMMA PrefixStep ==
    ASSUME NEW S, NEW t \in Seq(S), NEW k \in 1..Len(t)
    PROVE  /\ SubSeq(t, 1, k) = Append(SubSeq(t, 1, k - 1), t[k])
           /\ SubSeq(t, 1, k - 1) \in Seq(S) /\ t[k] \in S /\ Len(SubSeq(t, 1, k - 1)) = k - 1
           /\ \A i \in 1..k - 1 : SubSeq(t, 1, k - 1)[i] = t[i]
<1>1. SubSeq(t, 1, k - 1) \in Seq(S) /\ t[k] \in S /\ Len(SubSeq(t, 1, k - 1)) = k - 1
    OBVIOUS
<1>2. \A i \in 1..k - 1 : SubSeq(t, 1, k - 1)[i] = t[i]
    OBVIOUS
<1>3. SubSeq(t, 1, k) \in Seq(S) /\ Len(SubSeq(t, 1, k)) = k /\ \A i \in 1..k : SubSeq(t, 1, k)[i] = t[i]
    OBVIOUS
<1>4. PICK a, b : a = SubSeq(t, 1, k) /\ b = Append(SubSeq(t, 1, k - 1), t[k])
    OBVIOUS
<1>5. b \in Seq(S) /\ Len(b) = k /\ \A i \in 1..k : b[i] = t[i]
    BY <1>1, <1>2, <1>4
<1>6. a = b
    BY <1>3, <1>4, <1>5
<1> QED BY <1>1, <1>2, <1>4, <1>6

\* A text that is not empty is a text and its last byte.
LEMMA LastStep ==
    ASSUME NEW S, NEW t \in Seq(S), Len(t) > 0
    PROVE  \E v \in Seq(S) : /\ t = Append(v, t[Len(t)]) /\ t[Len(t)] \in S
                             /\ Len(v) = Len(t) - 1 /\ \A i \in 1..Len(t) - 1 : v[i] = t[i]
<1>1. PICK k, v : k = Len(t) /\ v = SubSeq(t, 1, k - 1)
    OBVIOUS
<1>2. k \in 1..Len(t) /\ SubSeq(t, 1, k) = t
    BY <1>1
<1>3. /\ t = Append(v, t[k]) /\ v \in Seq(S) /\ t[k] \in S
      /\ Len(v) = k - 1 /\ \A i \in 1..k - 1 : v[i] = t[i]
    <2>1. /\ SubSeq(t, 1, k) = Append(v, t[k]) /\ v \in Seq(S) /\ t[k] \in S
          /\ Len(v) = k - 1 /\ \A i \in 1..k - 1 : v[i] = t[i]
        BY <1>1, <1>2, PrefixStep, ZenonT(40)
    <2> QED BY <1>2, <2>1, Zenon
<1> QED BY <1>1, <1>3, Zenon

\* Chomp takes one CR.
LEMMA ChompFacts ==
    ASSUME NEW l \in Seq(Byte)
    PROVE  /\ Chomp(l) \in Seq(Byte)
           /\ Chomp(l) = <<>> <=> (l = <<>> \/ l = <<"r">>)
<1>1. CASE l = <<>>
    BY <1>1 DEF Chomp
<1>2. CASE l # <<>> /\ l[Len(l)] # "r"
    <2>1. Chomp(l) = l
        BY <1>2 DEF Chomp, Last
    <2>2. l # <<"r">>
        BY <1>2
    <2> QED BY <1>2, <2>1, <2>2
<1>3. CASE l # <<>> /\ l[Len(l)] = "r"
    <2>1. Chomp(l) = SubSeq(l, 1, Len(l) - 1)
        BY <1>3 DEF Chomp, Last, Front
    <2>2. Len(l) \in Nat /\ Len(l) > 0
        BY <1>3
    <2>3. SubSeq(l, 1, Len(l) - 1) \in Seq(Byte) /\ Len(SubSeq(l, 1, Len(l) - 1)) = Len(l) - 1
        <3>1. Len(l) \in 1..Len(l)
            BY <2>2
        <3> QED BY <3>1, PrefixStep, Zenon
    <2>4. CASE Len(l) = 1
        BY <1>3, <2>1, <2>3, <2>4
    <2>5. CASE Len(l) # 1
        <3>1. Chomp(l) # <<>>
            <4>1. Len(Chomp(l)) = Len(l) - 1 /\ Len(l) - 1 # 0
                BY <2>1, <2>2, <2>3, <2>5
            <4>2. Len(<<>>) = 0
                OBVIOUS
            <4> QED BY <4>1, <4>2, Zenon
        <3>2. l # <<"r">>
            BY <2>5
        <3> QED BY <1>3, <2>1, <2>3, <3>1, <3>2
    <2> QED BY <2>4, <2>5
<1> QED BY <1>1, <1>2, <1>3

\* A line that is empty without its CR adds no data.
LEMMA WithLineFacts ==
    ASSUME NEW data \in Seq(Seq(Byte)), NEW l \in Seq(Byte)
    PROVE  /\ WithLine(data, l) \in Seq(Seq(Byte))
           /\ Chomp(l) = <<>> => WithLine(data, l) = data
<1>1. Chomp(l) \in Seq(Byte)
    BY ChompFacts
<1>2. Chomp(l) # <<>> => Tail(Chomp(l)) \in Seq(Byte)
    BY <1>1
<1> QED BY <1>2 DEF WithLine

\* What str::lines reads is a line, and lines of data.
LEMMA LinesTyped ==
    ASSUME NEW t \in Seq(Byte)
    PROVE  LinesOf(t).line \in Seq(Byte) /\ LinesOf(t).data \in Seq(Seq(Byte))
<1> DEFINE Ok(u) == LinesOf(u).line \in Seq(Byte) /\ LinesOf(u).data \in Seq(Seq(Byte))
           Bad == { k \in 0..Len(t) : ~Ok(SubSeq(t, 1, k)) }
<1> SUFFICES Bad = {}
    <2>1. Len(t) \in 0..Len(t) /\ SubSeq(t, 1, Len(t)) = t
        OBVIOUS
    <2> QED BY <2>1
<1> SUFFICES ASSUME Bad # {}
             PROVE  FALSE
    OBVIOUS
<1>1. PICK k \in Bad : \A j \in Bad : k <= j
    <2>1. Bad \subseteq Nat
        OBVIOUS
    <2> HIDE DEF Bad
    <2> QED BY <2>1, LeastOf
<1>2. k # 0
    <2>1. SubSeq(t, 1, 0) = <<>>
        OBVIOUS
    <2>2. Ok(<<>>)
        <3>1. <<>> \in Seq(Byte) /\ <<>> \in Seq(Seq(Byte))
            OBVIOUS
        <3> QED BY <3>1, LinesNone, Zenon
    <2> QED BY <2>1, <2>2
<1>3. PICK u, b : u = SubSeq(t, 1, k - 1) /\ b = t[k]
    OBVIOUS
<1>4. k \in 1..Len(t) /\ k - 1 \in 0..Len(t) /\ ~(k <= k - 1)
    BY <1>2
<1>5. SubSeq(t, 1, k) = Append(u, b) /\ u \in Seq(Byte) /\ b \in Byte
    BY <1>3, <1>4, PrefixStep
<1>6. Ok(u)
    BY <1>1, <1>3, <1>4
<1>7. Ok(Append(u, b))
    <2>1. CASE b = "n"
        <3>1. WithLine(LinesOf(u).data, LinesOf(u).line) \in Seq(Seq(Byte))
            BY <1>6, WithLineFacts
        <3>2. <<>> \in Seq(Byte)
            OBVIOUS
        <3> QED BY <1>5, <2>1, <3>1, <3>2, LinesNext
    <2>2. CASE b # "n"
        <3>1. Append(LinesOf(u).line, b) \in Seq(Byte)
            BY <1>5, <1>6
        <3> QED BY <1>5, <1>6, <2>2, <3>1, LinesNext
    <2> QED BY <2>1, <2>2
<1> QED BY <1>1, <1>5, <1>7

\* Where the line being read is empty, or only a CR.
AtLineStart(u) == u = <<>> \/ (Len(u) > 0 /\ u[Len(u)] = "n")
AfterCr(u) == Len(u) > 0 /\ u[Len(u)] = "r" /\ (Len(u) = 1 \/ u[Len(u) - 1] = "n")

\* The line so far is empty, but for a CR, exactly after a line feed.
LEMMA LineIsEmpty ==
    ASSUME NEW u \in Seq(Byte)
    PROVE  /\ LinesOf(u).line = <<>> <=> AtLineStart(u)
           /\ Chomp(LinesOf(u).line) = <<>> <=> (AtLineStart(u) \/ AfterCr(u))
<1>0. LinesOf(u).line \in Seq(Byte)
    BY LinesTyped
<1>1. ASSUME NEW w \in Seq(Byte)
      PROVE  LinesOf(w).line = <<>> <=> AtLineStart(w)
    <2>1. CASE Len(w) = 0
        <3>1. w = <<>>
            BY <2>1
        <3> QED BY <3>1, LinesNone DEF AtLineStart
    <2>2. CASE Len(w) # 0
        <3>1. Len(w) > 0 /\ w # <<>>
            BY <2>2
        <3>2. PICK v \in Seq(Byte) : w = Append(v, w[Len(w)]) /\ w[Len(w)] \in Byte
            BY <3>1, LastStep
        <3>3. PICK b : b = w[Len(w)]
            OBVIOUS
        <3>4. b = "n" => LinesOf(w).line = <<>>
            BY <3>2, <3>3, LinesNext
        <3>5. b # "n" => LinesOf(w).line # <<>>
            <4>1. b # "n" => LinesOf(w).line = Append(LinesOf(v).line, b)
                BY <3>2, <3>3, LinesNext
            <4>2. Append(LinesOf(v).line, b) # <<>>
                <5>1. LinesOf(v).line \in Seq(Byte)
                    BY LinesTyped
                <5> QED BY <3>2, <3>3, <5>1
            <4> QED BY <4>1, <4>2
        <3> QED BY <3>1, <3>3, <3>4, <3>5 DEF AtLineStart
    <2> QED BY <2>1, <2>2
<1>2. LinesOf(u).line = <<"r">> <=> AfterCr(u)
    <2>1. CASE Len(u) = 0
        <3>1. u = <<>>
            BY <2>1
        <3>2. LinesOf(u).line = <<>> /\ ~AfterCr(u)
            BY <3>1, LinesNone DEF AfterCr
        <3> QED BY <3>2
    <2>2. CASE Len(u) # 0
        <3>1. Len(u) > 0 /\ u # <<>>
            BY <2>2
        <3>2. PICK v \in Seq(Byte) : /\ u = Append(v, u[Len(u)]) /\ u[Len(u)] \in Byte
                                     /\ Len(v) = Len(u) - 1 /\ \A i \in 1..Len(u) - 1 : v[i] = u[i]
            BY <3>1, LastStep
        <3>3. PICK b, l : b = u[Len(u)] /\ l = LinesOf(v).line
            OBVIOUS
        <3>4. l \in Seq(Byte) /\ b \in Byte
            BY <3>2, <3>3, LinesTyped
        <3>5. b = "n" => LinesOf(u).line = <<>>
            BY <3>2, <3>3, LinesNext, ZenonT(40)
        <3>6. b # "n" => LinesOf(u).line = Append(l, b)
            BY <3>2, <3>3, LinesNext
        <3>7. Append(l, b) = <<"r">> <=> l = <<>> /\ b = "r"
            <4>1. Append(l, b) = <<"r">> => Len(l) = 0 /\ b = "r"
                <5>1. Len(Append(l, b)) = Len(l) + 1 /\ Append(l, b)[Len(l) + 1] = b /\ Len(l) \in Nat
                    BY <3>4
                <5>2. Len(<<"r">>) = 1 /\ <<"r">>[1] = "r"
                    OBVIOUS
                <5> QED BY <5>1, <5>2
            <4>2. Len(l) = 0 => l = <<>>
                BY <3>4
            <4>3. Append(<<>>, "r") = <<"r">>
                OBVIOUS
            <4> QED BY <4>1, <4>2, <4>3
        <3>8. l = <<>> <=> AtLineStart(v)
            BY <1>1, <3>3
        <3>9. AtLineStart(v) <=> (Len(u) = 1 \/ u[Len(u) - 1] = "n")
            <4>1. v = <<>> <=> Len(u) = 1
                BY <3>1, <3>2
            <4>2. Len(u) # 1 => Len(u) - 1 \in 1..Len(u) - 1 /\ Len(v) > 0
                BY <3>1, <3>2
            <4>3. Len(u) # 1 => v[Len(v)] = u[Len(u) - 1]
                BY <3>2, <4>2
            <4>4. Len(v) > 0 => Len(u) # 1
                BY <3>1, <3>2
            <4>5. CASE Len(u) = 1
                BY <4>1, <4>5 DEF AtLineStart
            <4>6. CASE Len(u) # 1
                BY <4>1, <4>2, <4>3, <4>6 DEF AtLineStart
            <4> QED BY <4>5, <4>6
        <3>10. CASE b = "r"
            BY <3>1, <3>3, <3>6, <3>7, <3>8, <3>9, <3>10 DEF AfterCr
        <3>11. CASE b # "r"
            <4>1. ~AfterCr(u)
                BY <3>3, <3>11 DEF AfterCr
            <4>2. LinesOf(u).line # <<"r">>
                <5>1. <<>> # <<"r">>
                    OBVIOUS
                <5> QED BY <3>5, <3>6, <3>7, <3>11, <5>1, Zenon
            <4> QED BY <4>1, <4>2
        <3> QED BY <3>10, <3>11
    <2> QED BY <2>1, <2>2
<1> QED BY <1>0, <1>1, <1>2, ChompFacts

\* The parts of what a text means with one more byte.
LEMMA MeaningNext ==
    ASSUME NEW t \in Seq(Byte), NEW b \in Byte
    PROVE  /\ b = "n" /\ Chomp(Meaning(t).line) = <<>> =>
                /\ Meaning(Append(t, b)).line = <<>> /\ Meaning(Append(t, b)).data = <<>>
                /\ Meaning(Append(t, b)).events = Meaning(t).events \o EventOf(Meaning(t).data)
           /\ b = "n" /\ Chomp(Meaning(t).line) # <<>> =>
                /\ Meaning(Append(t, b)).line = <<>> /\ Meaning(Append(t, b)).events = Meaning(t).events
                /\ Meaning(Append(t, b)).data = WithLine(Meaning(t).data, Meaning(t).line)
           /\ b # "n" =>
                /\ Meaning(Append(t, b)).line = Append(Meaning(t).line, b)
                /\ Meaning(Append(t, b)).data = Meaning(t).data
                /\ Meaning(Append(t, b)).events = Meaning(t).events
<1>1. Meaning(Append(t, b)) = Hear(Meaning(t), b)
    BY MeaningStep
<1>2. PICK m, w : m = Meaning(t) /\ w = Meaning(Append(t, b))
    OBVIOUS
<1>3. PICK ev, dt, ln : ev = m.events \o EventOf(m.data) /\ dt = WithLine(m.data, m.line) /\ ln = Append(m.line, b)
    OBVIOUS
<1>4. w = IF b = "n" /\ Chomp(m.line) = <<>> THEN [line |-> <<>>, data |-> <<>>, events |-> ev]
          ELSE [line |-> IF b = "n" THEN <<>> ELSE ln, data |-> IF b = "n" THEN dt ELSE m.data,
                events |-> m.events]
    BY <1>1, <1>2, <1>3, Zenon DEF Hear
<1>5. b = "n" /\ Chomp(m.line) = <<>> => w.line = <<>> /\ w.data = <<>> /\ w.events = ev
    BY <1>4
<1>6. b = "n" /\ Chomp(m.line) # <<>> => w.line = <<>> /\ w.data = dt /\ w.events = m.events
    BY <1>4
<1>7. b # "n" => w.line = ln /\ w.data = m.data /\ w.events = m.events
    BY <1>4
<1> QED BY <1>2, <1>3, <1>5, <1>6, <1>7, Zenon

\* An event is a sequence of lines.
Lines == Seq(Seq(Byte))

\* The events of a text are sequences of lines.
LEMMA EventTyped ==
    ASSUME NEW data \in Lines
    PROVE  EventOf(data) \in Seq(Lines)
BY DEF EventOf

\* What a text means is a line, lines of data and events.
LEMMA MeaningTyped ==
    ASSUME NEW t \in Seq(Byte)
    PROVE  /\ Meaning(t).line \in Seq(Byte) /\ Meaning(t).data \in Lines
           /\ Meaning(t).events \in Seq(Lines)
<1> DEFINE Ok(u) == /\ Meaning(u).line \in Seq(Byte) /\ Meaning(u).data \in Lines
                    /\ Meaning(u).events \in Seq(Lines)
           Bad == { k \in 0..Len(t) : ~Ok(SubSeq(t, 1, k)) }
<1> SUFFICES Bad = {}
    <2>1. Len(t) \in 0..Len(t) /\ SubSeq(t, 1, Len(t)) = t
        OBVIOUS
    <2> QED BY <2>1
<1> SUFFICES ASSUME Bad # {}
             PROVE  FALSE
    OBVIOUS
<1>1. PICK k \in Bad : \A j \in Bad : k <= j
    <2>1. Bad \subseteq Nat
        OBVIOUS
    <2> HIDE DEF Bad
    <2> QED BY <2>1, LeastOf
<1>0. <<>> \in Seq(Byte) /\ <<>> \in Lines /\ <<>> \in Seq(Lines)
    BY DEF Lines
<1>2. k # 0
    <2>1. SubSeq(t, 1, 0) = <<>>
        OBVIOUS
    <2>2. Ok(<<>>)
        BY <1>0, MeaningNone, Zenon
    <2> QED BY <2>1, <2>2
<1>3. PICK u, b : u = SubSeq(t, 1, k - 1) /\ b = t[k]
    OBVIOUS
<1>4. k \in 1..Len(t) /\ k - 1 \in 0..Len(t) /\ ~(k <= k - 1)
    BY <1>2
<1>5. SubSeq(t, 1, k) = Append(u, b) /\ u \in Seq(Byte) /\ b \in Byte
    BY <1>3, <1>4, PrefixStep
<1>6. Ok(u)
    BY <1>1, <1>3, <1>4
<1>7. Ok(Append(u, b))
    <2>1. CASE b = "n" /\ Chomp(Meaning(u).line) = <<>>
        <3>1. Meaning(u).events \o EventOf(Meaning(u).data) \in Seq(Lines)
            <4>1. EventOf(Meaning(u).data) \in Seq(Lines)
                BY <1>6, EventTyped
            <4> QED BY <1>6, <4>1
        <3> QED BY <1>0, <1>5, <2>1, <3>1, MeaningNext, Zenon
    <2>2. CASE b = "n" /\ Chomp(Meaning(u).line) # <<>>
        <3>1. WithLine(Meaning(u).data, Meaning(u).line) \in Lines
            BY <1>6, WithLineFacts, Zenon DEF Lines
        <3> QED BY <1>0, <1>5, <1>6, <2>2, <3>1, MeaningNext, Zenon
    <2>3. CASE b # "n"
        <3>1. Append(Meaning(u).line, b) \in Seq(Byte)
            BY <1>5, <1>6
        <3> QED BY <1>5, <1>6, <2>3, <3>1, MeaningNext, Zenon
    <2> QED BY <2>1, <2>2, <2>3
<1> QED BY <1>1, <1>5, <1>7

\* Where no line is begun, the text so far ends with a line.
LEMMA MeaningAtLineStart ==
    ASSUME NEW u \in Seq(Byte), Meaning(u).line = <<>>
    PROVE  AtLineStart(u)
<1> SUFFICES ASSUME ~AtLineStart(u)
             PROVE  FALSE
    OBVIOUS
<1>1. Len(u) > 0 /\ u[Len(u)] # "n"
    <2>1. Len(u) = 0 => u = <<>>
        OBVIOUS
    <2>2. Len(u) \in Nat
        OBVIOUS
    <2> QED BY <2>1, <2>2 DEF AtLineStart
<1>2. PICK v \in Seq(Byte) : u = Append(v, u[Len(u)]) /\ u[Len(u)] \in Byte
    BY <1>1, LastStep
<1>3. Meaning(u).line = Append(Meaning(v).line, u[Len(u)])
    BY <1>1, <1>2, MeaningNext
<1>4. Meaning(v).line \in Seq(Byte)
    BY MeaningTyped
<1> QED BY <1>2, <1>3, <1>4

-----------------------------------------------------------------------------
(* Framing: delimiters *)

\* A delimiter whose last byte is the e-th.
LfEnds(t, e) == e >= 2 /\ t[e - 1] = "n" /\ t[e] = "n"
CrlfEnds(t, e) == e >= 4 /\ t[e - 3] = "r" /\ t[e - 2] = "n" /\ t[e - 1] = "r" /\ t[e] = "n"
DelimiterEnds(t, e) == LfEnds(t, e) \/ CrlfEnds(t, e)
NoDelimiter(t, n) == \A e \in 1..n : ~DelimiterEnds(t, e)

\* The least of a set of offsets.
LEMMA MinFacts ==
    ASSUME NEW S, S \subseteq Nat, S # {}
    PROVE  Min(S) \in S /\ \A x \in S : Min(S) <= x
<1>1. \E n \in S : \A m \in S : n <= m
    BY LeastOf
<1> QED BY <1>1, Zenon DEF Min

\* Find gives the first place where LF LF ends, if there is one.
LEMMA FindLf ==
    ASSUME NEW t \in Seq(Byte)
    PROVE  /\ Find(t, <<"n", "n">>) \in 0..Len(t)
           /\ Find(t, <<"n", "n">>) < Len(t) =>
                /\ Find(t, <<"n", "n">>) + 2 <= Len(t) /\ LfEnds(t, Find(t, <<"n", "n">>) + 2)
           /\ \A e \in 1..Len(t) : LfEnds(t, e) => Find(t, <<"n", "n">>) <= e - 2
<1>0. PICK p : p = <<"n", "n">>
    OBVIOUS
<1>1. Len(p) = 2 /\ p[1] = "n" /\ p[2] = "n" /\ Len(t) \in Nat
    BY <1>0
<1>2. PICK hits : hits = {i \in 0..Len(t) - Len(p) : \A j \in 1..Len(p) : t[i + j] = p[j]}
    OBVIOUS
<1>3. Find(t, p) = IF hits = {} THEN Len(t) ELSE Min(hits)
    BY <1>2, Zenon DEF Find
<1>4. \A i \in hits : i \in Nat /\ i + 2 <= Len(t) /\ LfEnds(t, i + 2)
    <2> SUFFICES ASSUME NEW i \in hits
                 PROVE  i \in Nat /\ i + 2 <= Len(t) /\ LfEnds(t, i + 2)
        OBVIOUS
    <2>1. i \in 0..Len(t) - 2 /\ \A j \in 1..2 : t[i + j] = p[j]
        BY <1>1, <1>2
    <2>2. i \in Nat /\ i + 2 <= Len(t)
        BY <1>1, <2>1
    <2>3. t[i + 1] = "n" /\ t[i + 2] = "n"
        BY <1>1, <2>1
    <2>4. i + 2 >= 2 /\ (i + 2) - 1 = i + 1
        BY <2>2
    <2> QED BY <2>2, <2>3, <2>4 DEF LfEnds
<1>5. ASSUME NEW e \in 1..Len(t), LfEnds(t, e)
      PROVE  e - 2 \in hits
    <2>1. e >= 2 /\ t[e - 1] = "n" /\ t[e] = "n"
        BY <1>5 DEF LfEnds
    <2>2. e - 2 \in 0..Len(t) - 2 /\ (e - 2) + 1 = e - 1 /\ (e - 2) + 2 = e
        BY <1>1, <2>1
    <2>3. \A j \in 1..2 : t[(e - 2) + j] = p[j]
        BY <1>1, <2>1, <2>2
    <2> QED BY <1>1, <1>2, <2>2, <2>3
<1>6. CASE hits = {}
    BY <1>0, <1>1, <1>3, <1>5, <1>6
<1>7. CASE hits # {}
    <2>1. hits \subseteq Nat
        BY <1>4
    <2>2. Min(hits) \in hits /\ \A x \in hits : Min(hits) <= x
        BY <1>7, <2>1, MinFacts
    <2>3. PICK m : m = Min(hits)
        OBVIOUS
    <2>4. m \in Nat /\ m + 2 <= Len(t) /\ LfEnds(t, m + 2)
        BY <1>4, <2>2, <2>3
    <2>5. \A e \in 1..Len(t) : LfEnds(t, e) => m <= e - 2
        BY <1>5, <2>2, <2>3
    <2>6. m \in 0..Len(t)
        BY <1>1, <2>4
    <2> QED BY <1>0, <1>3, <1>7, <2>3, <2>4, <2>5, <2>6
<1> QED BY <1>6, <1>7

\* The same for CR LF CR LF.
LEMMA FindCrlf ==
    ASSUME NEW t \in Seq(Byte)
    PROVE  /\ Find(t, <<"r", "n", "r", "n">>) \in 0..Len(t)
           /\ Find(t, <<"r", "n", "r", "n">>) < Len(t) =>
                /\ Find(t, <<"r", "n", "r", "n">>) + 4 <= Len(t)
                /\ CrlfEnds(t, Find(t, <<"r", "n", "r", "n">>) + 4)
           /\ \A e \in 1..Len(t) : CrlfEnds(t, e) => Find(t, <<"r", "n", "r", "n">>) <= e - 4
<1>0. PICK p : p = <<"r", "n", "r", "n">>
    OBVIOUS
<1>1. Len(p) = 4 /\ p[1] = "r" /\ p[2] = "n" /\ p[3] = "r" /\ p[4] = "n" /\ Len(t) \in Nat
    BY <1>0
<1>2. PICK hits : hits = {i \in 0..Len(t) - Len(p) : \A j \in 1..Len(p) : t[i + j] = p[j]}
    OBVIOUS
<1>3. Find(t, p) = IF hits = {} THEN Len(t) ELSE Min(hits)
    BY <1>2, Zenon DEF Find
<1>4. \A i \in hits : i \in Nat /\ i + 4 <= Len(t) /\ CrlfEnds(t, i + 4)
    <2> SUFFICES ASSUME NEW i \in hits
                 PROVE  i \in Nat /\ i + 4 <= Len(t) /\ CrlfEnds(t, i + 4)
        OBVIOUS
    <2>1. i \in 0..Len(t) - 4 /\ \A j \in 1..4 : t[i + j] = p[j]
        BY <1>1, <1>2
    <2>2. i \in Nat /\ i + 4 <= Len(t)
        BY <1>1, <2>1
    <2>3. t[i + 1] = "r" /\ t[i + 2] = "n" /\ t[i + 3] = "r" /\ t[i + 4] = "n"
        BY <1>1, <2>1
    <2>4. i + 4 >= 4 /\ (i + 4) - 3 = i + 1 /\ (i + 4) - 2 = i + 2 /\ (i + 4) - 1 = i + 3
        BY <2>2
    <2> QED BY <2>2, <2>3, <2>4 DEF CrlfEnds
<1>5. ASSUME NEW e \in 1..Len(t), CrlfEnds(t, e)
      PROVE  e - 4 \in hits
    <2>1. e >= 4 /\ t[e - 3] = "r" /\ t[e - 2] = "n" /\ t[e - 1] = "r" /\ t[e] = "n"
        BY <1>5 DEF CrlfEnds
    <2>2. /\ e - 4 \in 0..Len(t) - 4 /\ (e - 4) + 1 = e - 3 /\ (e - 4) + 2 = e - 2
          /\ (e - 4) + 3 = e - 1 /\ (e - 4) + 4 = e
        BY <1>1, <2>1
    <2>3. \A j \in 1..4 : t[(e - 4) + j] = p[j]
        BY <1>1, <2>1, <2>2
    <2> QED BY <1>1, <1>2, <2>2, <2>3
<1>6. CASE hits = {}
    BY <1>0, <1>1, <1>3, <1>5, <1>6
<1>7. CASE hits # {}
    <2>1. hits \subseteq Nat
        BY <1>4
    <2>2. Min(hits) \in hits /\ \A x \in hits : Min(hits) <= x
        BY <1>7, <2>1, MinFacts
    <2>3. PICK m : m = Min(hits)
        OBVIOUS
    <2>4. m \in Nat /\ m + 4 <= Len(t) /\ CrlfEnds(t, m + 4)
        BY <1>4, <2>2, <2>3
    <2>5. \A e \in 1..Len(t) : CrlfEnds(t, e) => m <= e - 4
        BY <1>5, <2>2, <2>3
    <2>6. m \in 0..Len(t)
        BY <1>1, <2>4
    <2> QED BY <1>0, <1>3, <1>7, <2>3, <2>4, <2>5, <2>6
<1> QED BY <1>6, <1>7

\* The boundary is the end of the delimiter that ends first.
LEMMA BoundaryFacts ==
    ASSUME NEW t \in Seq(Byte)
    PROVE  /\ ~HasBoundary(t) => NoDelimiter(t, Len(t))
           /\ HasBoundary(t) =>
                \E e \in 2..Len(t) : /\ e = NextBoundary(t).at + NextBoundary(t).len
                                     /\ DelimiterEnds(t, e) /\ NoDelimiter(t, e - 1)
<1>0. PICK lf, crlf : lf = Find(t, <<"n", "n">>) /\ crlf = Find(t, <<"r", "n", "r", "n">>)
    OBVIOUS
<1>1. /\ lf \in 0..Len(t) /\ (lf < Len(t) => lf + 2 <= Len(t) /\ LfEnds(t, lf + 2))
      /\ \A e \in 1..Len(t) : LfEnds(t, e) => lf <= e - 2
    BY <1>0, FindLf
<1>2. /\ crlf \in 0..Len(t) /\ (crlf < Len(t) => crlf + 4 <= Len(t) /\ CrlfEnds(t, crlf + 4))
      /\ \A e \in 1..Len(t) : CrlfEnds(t, e) => crlf <= e - 4
    BY <1>0, FindCrlf
<1>3. NextBoundary(t) = IF lf <= crlf THEN [at |-> lf, len |-> 2] ELSE [at |-> crlf, len |-> 4]
    BY <1>0 DEF NextBoundary
<1>4. Len(t) \in Nat
    OBVIOUS
<1>5. CASE lf <= crlf /\ lf = Len(t)
    <2>1. NextBoundary(t).at = Len(t)
        BY <1>3, <1>5
    <2>2. ~HasBoundary(t)
        BY <1>4, <2>1 DEF HasBoundary
    <2>3. ASSUME NEW e \in 1..Len(t)
          PROVE  ~DelimiterEnds(t, e)
        BY <1>1, <1>2, <1>4, <1>5 DEF DelimiterEnds
    <2> QED BY <2>2, <2>3 DEF NoDelimiter
<1>6. CASE lf <= crlf /\ lf < Len(t)
    <2>1. NextBoundary(t).at = lf /\ NextBoundary(t).len = 2
        BY <1>3, <1>6
    <2>2. HasBoundary(t)
        BY <1>6, <2>1 DEF HasBoundary
    <2>3. lf + 2 \in 2..Len(t) /\ DelimiterEnds(t, lf + 2)
        BY <1>1, <1>4, <1>6 DEF DelimiterEnds
    <2>4. ASSUME NEW e \in 1..(lf + 2) - 1
          PROVE  ~DelimiterEnds(t, e)
        <3>1. e \in 1..Len(t) /\ e < lf + 2
            BY <1>1, <2>3
        <3> QED BY <1>1, <1>2, <1>6, <3>1 DEF DelimiterEnds
    <2> QED BY <2>1, <2>2, <2>3, <2>4 DEF NoDelimiter
<1>7. CASE ~(lf <= crlf)
    <2>1. NextBoundary(t).at = crlf /\ NextBoundary(t).len = 4
        BY <1>3, <1>7
    <2>2. crlf < Len(t) /\ crlf < lf
        BY <1>1, <1>2, <1>4, <1>7
    <2>3. HasBoundary(t)
        BY <2>1, <2>2 DEF HasBoundary
    <2>4. crlf + 4 \in 2..Len(t) /\ DelimiterEnds(t, crlf + 4) /\ t[crlf + 3] = "r"
        <3>1. (crlf + 4) - 1 = crlf + 3
            BY <1>2
        <3> QED BY <1>2, <1>4, <2>2, <3>1 DEF DelimiterEnds, CrlfEnds
    <2>5. ASSUME NEW e \in 1..(crlf + 4) - 1
          PROVE  ~DelimiterEnds(t, e)
        <3>1. e \in 1..Len(t) /\ e < crlf + 4
            BY <1>2, <2>4
        <3>2. ~CrlfEnds(t, e)
            BY <1>2, <3>1
        <3>3. ASSUME LfEnds(t, e)
              PROVE  FALSE
            <4>1. lf <= e - 2
                BY <1>1, <3>1, <3>3
            <4>2. e = crlf + 3
                BY <1>1, <1>2, <2>2, <3>1, <4>1
            <4> QED BY <2>4, <3>3, <4>2 DEF LfEnds
        <3> QED BY <3>2, <3>3 DEF DelimiterEnds
    <2> QED BY <2>1, <2>3, <2>4, <2>5 DEF NoDelimiter
<1>8. (lf <= crlf /\ lf = Len(t)) \/ (lf <= crlf /\ lf < Len(t)) \/ ~(lf <= crlf)
    BY <1>1, <1>4
<1> QED BY <1>5, <1>6, <1>7, <1>8

-----------------------------------------------------------------------------
(* Framing: what the bridge cuts is what the text means *)

\* Nothing is begun at the end of h.
AtEventStart(h) == Meaning(h).line = <<>> /\ Meaning(h).data = <<>>

\* A text behind another.
LEMMA Joined ==
    ASSUME NEW S, NEW h \in Seq(S), NEW t \in Seq(S)
    PROVE  /\ h \o t \in Seq(S) /\ Len(h) \in Nat /\ Len(t) \in Nat /\ Len(h \o t) = Len(h) + Len(t)
           /\ \A i \in 1..Len(h) : (h \o t)[i] = h[i]
           /\ \A i \in 1..Len(t) : (h \o t)[Len(h) + i] = t[i]
OBVIOUS

\* A byte behind a text behind another.
LEMMA JoinedByte ==
    ASSUME NEW S, NEW h \in Seq(S), NEW u \in Seq(S), NEW b \in S
    PROVE  h \o Append(u, b) = Append(h \o u, b)
<1>1. PICK a, c : a = h \o Append(u, b) /\ c = Append(h \o u, b)
    OBVIOUS
<1>2. PICK v : v = Append(u, b)
    OBVIOUS
<1>3. v \in Seq(S) /\ Len(v) = Len(u) + 1 /\ v[Len(u) + 1] = b /\ \A i \in 1..Len(u) : v[i] = u[i]
    BY <1>2
<1>4. Len(h) \in Nat /\ Len(u) \in Nat
    OBVIOUS
<1>5. /\ a \in Seq(S) /\ Len(a) = Len(h) + Len(u) + 1
      /\ \A i \in 1..Len(h) : a[i] = h[i]
      /\ \A i \in 1..Len(u) + 1 : a[Len(h) + i] = v[i]
    BY <1>1, <1>2, <1>3, <1>4, Joined
<1>6. PICK w : w = h \o u
    OBVIOUS
<1>7. /\ w \in Seq(S) /\ Len(w) = Len(h) + Len(u) /\ \A i \in 1..Len(h) : w[i] = h[i]
      /\ \A i \in 1..Len(u) : w[Len(h) + i] = u[i]
    BY <1>6, Joined
<1>8. c \in Seq(S) /\ Len(c) = Len(w) + 1 /\ c[Len(w) + 1] = b /\ \A i \in 1..Len(w) : c[i] = w[i]
    BY <1>1, <1>6, <1>7
<1>9. Len(a) = Len(c)
    BY <1>4, <1>5, <1>7, <1>8
<1>10. ASSUME NEW i \in 1..Len(c)
       PROVE  a[i] = c[i]
    <2>1. CASE i \in 1..Len(h)
        <3>1. i \in 1..Len(w)
            BY <1>4, <1>7, <2>1
        <3> QED BY <1>5, <1>7, <1>8, <2>1, <3>1
    <2>2. CASE i = Len(w) + 1
        <3>1. i = Len(h) + (Len(u) + 1) /\ Len(u) + 1 \in 1..Len(u) + 1
            BY <1>4, <1>7, <2>2
        <3> QED BY <1>3, <1>5, <1>8, <2>2, <3>1
    <2>3. CASE i \notin 1..Len(h) /\ i # Len(w) + 1
        <3>1. PICK j : j = i - Len(h)
            OBVIOUS
        <3>2. j \in 1..Len(u) /\ i = Len(h) + j /\ i \in 1..Len(w) /\ j \in 1..Len(u) + 1
            BY <1>4, <1>7, <1>8, <2>3, <3>1
        <3> QED BY <1>3, <1>5, <1>7, <1>8, <3>2
    <2> QED BY <2>1, <2>2, <2>3
<1>11. a = c
    BY <1>5, <1>8, <1>9, <1>10
<1> QED BY <1>1, <1>11

\* Reading from the start of an event to before the end of a delimiter: the
\* meaning is what str::lines reads, and no event.
LEMMA LinesAreMeant ==
    ASSUME NEW h \in Seq(Byte), NEW t \in Seq(Byte), AtEventStart(h), WellFormed(h \o t),
           NEW n \in 0..Len(t), NoDelimiter(t, n)
    PROVE  /\ Meaning(h \o SubSeq(t, 1, n)).line = LinesOf(SubSeq(t, 1, n)).line
           /\ Meaning(h \o SubSeq(t, 1, n)).data = LinesOf(SubSeq(t, 1, n)).data
           /\ Meaning(h \o SubSeq(t, 1, n)).events = Meaning(h).events
<1> DEFINE Ok(u) == /\ Meaning(h \o u).line = LinesOf(u).line
                    /\ Meaning(h \o u).data = LinesOf(u).data
                    /\ Meaning(h \o u).events = Meaning(h).events
           Bad == { k \in 0..n : ~Ok(SubSeq(t, 1, k)) }
<1>0. Len(t) \in Nat /\ Len(h) \in Nat /\ n \in Nat
    OBVIOUS
<1> SUFFICES Bad = {}
    <2>1. n \in 0..n
        BY <1>0
    <2> QED BY <2>1
<1> SUFFICES ASSUME Bad # {}
             PROVE  FALSE
    OBVIOUS
<1>1. PICK k \in Bad : \A j \in Bad : k <= j
    <2>1. Bad \subseteq Nat
        BY <1>0
    <2> HIDE DEF Bad
    <2> QED BY <2>1, LeastOf
<1>2. k # 0
    <2>1. SubSeq(t, 1, 0) = <<>>
        OBVIOUS
    <2>2. h \o <<>> = h
        OBVIOUS
    <2>3. Ok(<<>>)
        BY <2>2, LinesNone, Zenon DEF AtEventStart
    <2> QED BY <2>1, <2>3
<1>3. PICK u, b : u = SubSeq(t, 1, k - 1) /\ b = t[k]
    OBVIOUS
<1>4. k \in 1..Len(t) /\ k - 1 \in 0..n /\ ~(k <= k - 1) /\ k \in 1..n
    BY <1>0, <1>2
<1>5. /\ SubSeq(t, 1, k) = Append(u, b) /\ u \in Seq(Byte) /\ b \in Byte
      /\ Len(u) = k - 1 /\ \A i \in 1..k - 1 : u[i] = t[i]
    BY <1>3, <1>4, PrefixStep
<1>6. Ok(u)
    BY <1>1, <1>3, <1>4
<1>7. h \o Append(u, b) = Append(h \o u, b) /\ h \o u \in Seq(Byte)
    BY <1>5, JoinedByte
<1>a. PICK w : w = h \o u
    OBVIOUS
<1>b. h \o SubSeq(t, 1, k) = Append(w, b) /\ w \in Seq(Byte)
    BY <1>5, <1>7, <1>a, Zenon
<1>c. ~(/\ Meaning(Append(w, b)).line = LinesOf(Append(u, b)).line
        /\ Meaning(Append(w, b)).data = LinesOf(Append(u, b)).data
        /\ Meaning(Append(w, b)).events = Meaning(h).events)
    BY <1>1, <1>5, <1>b
<1>d. /\ Meaning(w).line = LinesOf(u).line /\ Meaning(w).data = LinesOf(u).data
      /\ Meaning(w).events = Meaning(h).events
    BY <1>6, <1>a
<1>8. CASE b # "n"
    <2>1. /\ LinesOf(Append(u, b)).line = Append(LinesOf(u).line, b)
          /\ LinesOf(Append(u, b)).data = LinesOf(u).data
        BY <1>5, <1>8, LinesNext
    <2>2. /\ Meaning(Append(w, b)).line = Append(Meaning(w).line, b)
          /\ Meaning(Append(w, b)).data = Meaning(w).data
          /\ Meaning(Append(w, b)).events = Meaning(w).events
        BY <1>5, <1>8, <1>b, MeaningNext
    <2> QED BY <1>c, <1>d, <2>1, <2>2, Zenon
<1>9. CASE b = "n" /\ Chomp(LinesOf(u).line) # <<>>
    <2>1. /\ LinesOf(Append(u, b)).line = <<>>
          /\ LinesOf(Append(u, b)).data = WithLine(LinesOf(u).data, LinesOf(u).line)
        BY <1>5, <1>9, LinesNext
    <2>2. Chomp(Meaning(w).line) # <<>>
        BY <1>9, <1>d
    <2>3. /\ Meaning(Append(w, b)).line = <<>>
          /\ Meaning(Append(w, b)).data = WithLine(Meaning(w).data, Meaning(w).line)
          /\ Meaning(Append(w, b)).events = Meaning(w).events
        BY <1>5, <1>9, <1>b, <2>2, MeaningNext
    <2> QED BY <1>c, <1>d, <2>1, <2>3, Zenon
<1>10. CASE b = "n" /\ Chomp(LinesOf(u).line) = <<>>
    <2>1. AtLineStart(u) \/ AfterCr(u)
        BY <1>5, <1>10, LineIsEmpty
    <2>2. LinesOf(u).data = <<>>
        <3>1. CASE k = 1
            <4>1. u = <<>>
                BY <1>5, <3>1
            <4> QED BY <4>1, LinesNone
        <3>2. CASE k # 1
            <4>0. ~DelimiterEnds(t, k)
                BY <1>4 DEF NoDelimiter
            <4>1. Len(u) > 0 /\ k - 1 \in 1..k - 1 /\ Len(u) = k - 1
                BY <1>4, <1>5, <3>2
            <4>2. u[Len(u)] = t[k - 1]
                BY <1>5, <4>1
            <4>3. u # <<>>
                BY <4>1
            <4>4. ~AtLineStart(u)
                <5>1. k >= 2
                    BY <1>4, <3>2
                <5> QED BY <1>3, <1>10, <4>0, <4>2, <4>3, <5>1 DEF AtLineStart, DelimiterEnds, LfEnds
            <4>5. t[k - 1] = "r" /\ (k = 2 \/ u[Len(u) - 1] = "n")
                BY <2>1, <4>1, <4>2, <4>4 DEF AfterCr
            <4>6. CASE k = 2
                <5>1. PICK v \in Seq(Byte) : u = Append(v, u[Len(u)]) /\ u[Len(u)] \in Byte /\ Len(v) = Len(u) - 1
                    BY <1>5, <4>1, LastStep
                <5>2. v = <<>>
                    BY <4>1, <4>6, <5>1
                <5>3. u[Len(u)] # "n"
                    BY <4>2, <4>5
                <5>4. LinesOf(u).data = LinesOf(v).data
                    BY <5>1, <5>3, LinesNext
                <5> QED BY <5>2, <5>4, LinesNone
            <4>7. CASE k # 2
                <5>1. PICK i : i = Len(h) + (k - 2)
                    OBVIOUS
                <5>2. k >= 3 /\ k - 2 \in 1..k - 1 /\ Len(u) - 1 = k - 2
                    BY <1>4, <3>2, <4>1, <4>7
                <5>3. t[k - 2] = "n" /\ t[k - 1] = "r" /\ t[k] = "n"
                    BY <1>3, <1>5, <1>10, <4>5, <4>7, <5>2
                <5>4. PICK x : x = h \o t
                    OBVIOUS
                <5>5. /\ Len(x) = Len(h) + Len(t) /\ \A j \in 1..Len(t) : x[Len(h) + j] = t[j]
                      /\ \A j \in 1..Len(h) : x[j] = h[j]
                    BY <5>4, Joined
                <5>6. /\ k - 2 \in 1..Len(t) /\ k - 1 \in 1..Len(t)
                      /\ i + 1 = Len(h) + (k - 1) /\ i + 2 = Len(h) + k /\ i \in 1..Len(x) - 2
                    BY <1>0, <1>4, <5>1, <5>2, <5>5
                <5>7. x[i] = "n" /\ x[i + 1] = "r" /\ x[i + 2] = "n"
                    <6>1. x[i] = t[k - 2]
                        BY <5>1, <5>5, <5>6
                    <6>2. x[i + 1] = t[k - 1]
                        BY <5>5, <5>6
                    <6>3. x[i + 2] = t[k]
                        BY <1>4, <5>5, <5>6
                    <6> QED BY <5>3, <6>1, <6>2, <6>3
                <5>8. i > 1 /\ x[i - 1] = "r"
                    BY <5>4, <5>6, <5>7 DEF WellFormed
                <5>9. CASE k = 3
                    <6>1. i - 1 = Len(h) /\ Len(h) \in 1..Len(h) /\ Len(h) > 0
                        BY <1>0, <5>1, <5>8, <5>9
                    <6>2. h[Len(h)] = "r"
                        BY <5>5, <5>8, <6>1
                    <6>3. AtLineStart(h)
                        BY MeaningAtLineStart DEF AtEventStart
                    <6> QED BY <6>1, <6>2, <6>3 DEF AtLineStart
                <5>10. CASE k # 3
                    <6>1. k >= 4 /\ k - 3 \in 1..Len(t) /\ i - 1 = Len(h) + (k - 3)
                        BY <1>0, <1>4, <5>1, <5>2, <5>10
                    <6>2. t[k - 3] = "r"
                        BY <5>5, <5>8, <6>1
                    <6> QED BY <4>0, <5>3, <6>1, <6>2 DEF DelimiterEnds, CrlfEnds
                <5> QED BY <5>9, <5>10
            <4> QED BY <4>6, <4>7
        <3> QED BY <3>1, <3>2
    <2>3. LinesOf(u).line \in Seq(Byte) /\ <<>> \in Seq(Seq(Byte))
        BY <1>5, LinesTyped
    <2>4. WithLine(LinesOf(u).data, LinesOf(u).line) = <<>>
        BY <1>10, <2>2, <2>3, WithLineFacts, Zenon
    <2>5. Meaning(h \o u).events \o EventOf(Meaning(h \o u).data) = Meaning(h).events
        <3>1. EventOf(Meaning(h \o u).data) = <<>>
            BY <1>6, <2>2 DEF EventOf
        <3>2. Meaning(h).events \in Seq(Lines)
            BY MeaningTyped
        <3> QED BY <1>6, <3>1, <3>2
    <2>6. /\ LinesOf(Append(u, b)).line = <<>>
          /\ LinesOf(Append(u, b)).data = WithLine(LinesOf(u).data, LinesOf(u).line)
        BY <1>5, <1>10, LinesNext
    <2>7. Chomp(Meaning(w).line) = <<>>
        BY <1>10, <1>d
    <2>8. /\ Meaning(Append(w, b)).line = <<>> /\ Meaning(Append(w, b)).data = <<>>
          /\ Meaning(Append(w, b)).events = Meaning(w).events \o EventOf(Meaning(w).data)
        BY <1>5, <1>10, <1>b, <2>7, MeaningNext
    <2> QED BY <1>a, <1>c, <2>4, <2>5, <2>6, <2>8, Zenon
<1> QED BY <1>8, <1>9, <1>10

\* What is cut off at a boundary is one event of the text, or none.
LEMMA CutIsMeant ==
    ASSUME NEW h \in Seq(Byte), NEW t \in Seq(Byte), AtEventStart(h), WellFormed(h \o t),
           NEW e \in 2..Len(t), DelimiterEnds(t, e), NoDelimiter(t, e - 1)
    PROVE  /\ AtEventStart(h \o SubSeq(t, 1, e))
           /\ Meaning(h \o SubSeq(t, 1, e)).events = Meaning(h).events \o EventOf(DataOf(SubSeq(t, 1, e)))
<1>0. Len(t) \in Nat
    OBVIOUS
<1>1. PICK v, u : v = SubSeq(t, 1, e - 1) /\ u = SubSeq(t, 1, e)
    OBVIOUS
<1>2. e \in 1..Len(t) /\ e - 1 \in 0..Len(t) /\ e >= 2
    BY <1>0
<1>3. /\ u = Append(v, t[e]) /\ v \in Seq(Byte) /\ t[e] \in Byte
      /\ Len(v) = e - 1 /\ \A i \in 1..e - 1 : v[i] = t[i]
    BY <1>1, <1>2, PrefixStep
<1>4. /\ Meaning(h \o v).line = LinesOf(v).line /\ Meaning(h \o v).data = LinesOf(v).data
      /\ Meaning(h \o v).events = Meaning(h).events
    BY <1>1, <1>2, LinesAreMeant
<1>5. t[e] = "n"
    BY DEF DelimiterEnds, LfEnds, CrlfEnds
<1>6. Chomp(LinesOf(v).line) = <<>>
    <2>1. Len(v) > 0 /\ e - 1 \in 1..e - 1 /\ Len(v) \in Nat
        BY <1>2, <1>3
    <2>2. v[Len(v)] = t[e - 1]
        BY <1>3, <2>1
    <2>3. CASE LfEnds(t, e)
        BY <1>3, <2>1, <2>2, <2>3, LineIsEmpty DEF LfEnds, AtLineStart
    <2>4. CASE CrlfEnds(t, e)
        <3>1. e - 2 \in 1..e - 1 /\ Len(v) - 1 = e - 2
            BY <1>2, <1>3, <2>4 DEF CrlfEnds
        <3>2. v[Len(v) - 1] = t[e - 2]
            BY <1>3, <3>1
        <3>3. AfterCr(v)
            BY <2>1, <2>2, <2>4, <3>2 DEF CrlfEnds, AfterCr
        <3> QED BY <1>3, <3>3, LineIsEmpty
    <2> QED BY <2>3, <2>4 DEF DelimiterEnds
<1>7. h \o u = Append(h \o v, t[e]) /\ h \o v \in Seq(Byte)
    BY <1>3, JoinedByte
<1>8. /\ Meaning(h \o u).line = <<>> /\ Meaning(h \o u).data = <<>>
      /\ Meaning(h \o u).events = Meaning(h).events \o EventOf(LinesOf(v).data)
    <2>1. PICK w, b : w = h \o v /\ b = t[e]
        OBVIOUS
    <2>2. w \in Seq(Byte) /\ b \in Byte /\ b = "n" /\ h \o u = Append(w, b)
        BY <1>3, <1>5, <1>7, <2>1
    <2>3. Chomp(Meaning(w).line) = <<>>
        BY <1>4, <1>6, <2>1
    <2>4. /\ Meaning(Append(w, b)).line = <<>> /\ Meaning(Append(w, b)).data = <<>>
          /\ Meaning(Append(w, b)).events = Meaning(w).events \o EventOf(Meaning(w).data)
        BY <2>2, <2>3, MeaningNext
    <2> QED BY <1>4, <2>1, <2>2, <2>4, Zenon
<1>9. DataOf(u) = LinesOf(v).data
    <2>1. LinesOf(v).line \in Seq(Byte) /\ LinesOf(v).data \in Seq(Seq(Byte)) /\ <<>> \in Seq(Byte)
        BY <1>3, LinesTyped
    <2>2. LinesOf(u).line = <<>> /\ LinesOf(u).data = WithLine(LinesOf(v).data, LinesOf(v).line)
        BY <1>3, <1>5, LinesNext, Zenon
    <2>3. LinesOf(u).data = LinesOf(v).data
        BY <1>6, <2>1, <2>2, WithLineFacts, Zenon
    <2>4. Chomp(<<>>) = <<>>
        BY DEF Chomp
    <2>5. WithLine(LinesOf(v).data, <<>>) = LinesOf(v).data
        BY <2>1, <2>4, WithLineFacts, Zenon
    <2> QED BY <2>2, <2>3, <2>5, Zenon DEF DataOf
<1> QED BY <1>1, <1>8, <1>9, Zenon DEF AtEventStart

-----------------------------------------------------------------------------
(* Framing: the end of a body *)

\* A text too short for a delimiter.
LEMMA ShortHasNone ==
    ASSUME NEW t \in Seq(Byte), Len(t) < 2
    PROVE  ~HasBoundary(t)
BY BoundaryFacts

\* A line of line ends is no data.
LEMMA BlankLine ==
    ASSUME NEW l \in Seq(Byte), IsBlank(l), NEW data
    PROVE  WithLine(data, l) = data
<1>1. Chomp(l) # <<>> => Head(Chomp(l)) = l[1] /\ l # <<>>
    <2>1. CASE l # <<>> /\ Last(l) = "r"
        <3>1. Len(l) \in 1..Len(l)
            BY <2>1
        <3>2. PICK f : f = SubSeq(l, 1, Len(l) - 1)
            OBVIOUS
        <3>3. f \in Seq(Byte) /\ Len(f) = Len(l) - 1 /\ \A i \in 1..Len(l) - 1 : f[i] = l[i]
            BY <3>1, <3>2, PrefixStep
        <3>4. f # <<>> => 1 \in 1..Len(l) - 1 /\ Head(f) = f[1]
            BY <3>3
        <3>5. Chomp(l) = f
            BY <2>1, <3>2, Zenon DEF Chomp, Front
        <3> QED BY <2>1, <3>3, <3>4, <3>5
    <2>2. CASE ~(l # <<>> /\ Last(l) = "r")
        <3>1. Chomp(l) = l
            BY <2>2, Zenon DEF Chomp
        <3>2. l # <<>> => Head(l) = l[1]
            OBVIOUS
        <3> QED BY <3>1, <3>2
    <2> QED BY <2>1, <2>2
<1>2. l # <<>> => l[1] # "d"
    <2>1. l # <<>> => 1 \in DOMAIN l
        OBVIOUS
    <2>2. l # <<>> => l[1] \in {"n", "r"}
        BY <2>1 DEF IsBlank
    <2> QED BY <2>2
<1> QED BY <1>1, <1>2 DEF WithLine

\* A text of line ends holds no data.
LEMMA BlankText ==
    ASSUME NEW t \in Seq(Byte), IsBlank(t)
    PROVE  LinesOf(t).data = <<>> /\ WithLine(LinesOf(t).data, LinesOf(t).line) = <<>>
<1> DEFINE Ok(u) == LinesOf(u).data = <<>> /\ IsBlank(LinesOf(u).line)
           Bad == { k \in 0..Len(t) : ~Ok(SubSeq(t, 1, k)) }
<1> SUFFICES Bad = {}
    <2>1. Len(t) \in 0..Len(t) /\ SubSeq(t, 1, Len(t)) = t
        OBVIOUS
    <2>2. Ok(t)
        BY <2>1
    <2>3. LinesOf(t).line \in Seq(Byte)
        BY LinesTyped
    <2> QED BY <2>2, <2>3, BlankLine
<1> SUFFICES ASSUME Bad # {}
             PROVE  FALSE
    OBVIOUS
<1>1. PICK k \in Bad : \A j \in Bad : k <= j
    <2>1. Bad \subseteq Nat
        OBVIOUS
    <2> HIDE DEF Bad
    <2> QED BY <2>1, LeastOf
<1>2. k # 0
    <2>1. SubSeq(t, 1, 0) = <<>>
        OBVIOUS
    <2>2. IsBlank(<<>>)
        BY DEF IsBlank
    <2>3. Ok(<<>>)
        BY <2>2, LinesNone, Zenon
    <2> QED BY <2>1, <2>3
<1>3. PICK u, b : u = SubSeq(t, 1, k - 1) /\ b = t[k]
    OBVIOUS
<1>4. k \in 1..Len(t) /\ k - 1 \in 0..Len(t) /\ ~(k <= k - 1)
    BY <1>2
<1>5. SubSeq(t, 1, k) = Append(u, b) /\ u \in Seq(Byte) /\ b \in Byte
    BY <1>3, <1>4, PrefixStep
<1>6. Ok(u)
    BY <1>1, <1>3, <1>4
<1>7. b \in {"n", "r"}
    BY <1>3, <1>4 DEF IsBlank
<1>8. LinesOf(u).line \in Seq(Byte)
    BY <1>5, LinesTyped
<1>9. Ok(Append(u, b))
    <2>1. CASE b = "n"
        <3>1. WithLine(LinesOf(u).data, LinesOf(u).line) = <<>>
            BY <1>6, <1>8, BlankLine
        <3>2. IsBlank(<<>>)
            BY DEF IsBlank
        <3> QED BY <1>5, <2>1, <3>1, <3>2, LinesNext
    <2>2. CASE b # "n"
        <3>1. PICK l : l = LinesOf(u).line
            OBVIOUS
        <3>2. IsBlank(Append(l, b))
            BY <1>6, <1>7, <1>8, <3>1 DEF IsBlank
        <3> QED BY <1>5, <1>6, <2>2, <3>1, <3>2, LinesNext
    <2> QED BY <2>1, <2>2
<1> QED BY <1>1, <1>5, <1>9

\* With two line feeds behind it, a text without a delimiter is one event: its
\* lines, the last one ended or not.
LEMMA ClosedText ==
    ASSUME NEW q \in Seq(Byte), ~HasBoundary(q), NEW t, t = q \o <<"n", "n">>
    PROVE  /\ t \in Seq(Byte) /\ HasBoundary(t)
           /\ \E e \in 2..Len(t) :
                /\ e = NextBoundary(t).at + NextBoundary(t).len
                /\ DataOf(SubSeq(t, 1, e)) = WithLine(LinesOf(q).data, LinesOf(q).line)
                /\ ~HasBoundary(SubSeq(t, e + 1, Len(t))) /\ SubSeq(t, e + 1, Len(t)) \in Seq(Byte)
<1>1. PICK n : n = Len(q)
    OBVIOUS
<1>2. PICK p : p = <<"n", "n">>
    OBVIOUS
<1>3. p \in Seq(Byte) /\ Len(p) = 2 /\ p[1] = "n" /\ p[2] = "n" /\ n \in Nat
    BY <1>1, <1>2 DEF Byte
<1>4. /\ t \in Seq(Byte) /\ Len(t) = n + 2 /\ \A i \in 1..n : t[i] = q[i]
      /\ t[n + 1] = "n" /\ t[n + 2] = "n"
    <2>1. /\ q \o p \in Seq(Byte) /\ Len(q \o p) = n + 2 /\ \A i \in 1..n : (q \o p)[i] = q[i]
          /\ \A i \in 1..2 : (q \o p)[n + i] = p[i]
        <3>1. /\ q \o p \in Seq(Byte) /\ Len(q \o p) = Len(q) + Len(p)
              /\ \A i \in 1..Len(q) : (q \o p)[i] = q[i]
              /\ \A i \in 1..Len(p) : (q \o p)[Len(q) + i] = p[i]
            <4>1. p \in Seq(Byte)
                BY <1>3
            <4> QED BY <4>1, Joined
        <3>2. Len(q) = n /\ Len(p) = 2
            BY <1>1, <1>3
        <3> QED BY <3>1, <3>2, Zenon
    <2> QED BY <1>2, <1>3, <2>1
<1>5. NoDelimiter(q, n)
    BY <1>1, BoundaryFacts
<1>6. HasBoundary(t)
    <2>1. n + 2 \in 1..Len(t) /\ (n + 2) - 1 = n + 1 /\ n + 2 >= 2
        BY <1>3, <1>4
    <2>2. DelimiterEnds(t, n + 2)
        BY <1>4, <2>1 DEF DelimiterEnds, LfEnds
    <2> QED BY <1>4, <2>1, <2>2, BoundaryFacts DEF NoDelimiter
<1>7. PICK e \in 2..Len(t) : e = NextBoundary(t).at + NextBoundary(t).len /\ DelimiterEnds(t, e)
    BY <1>4, <1>6, BoundaryFacts
<1>8. e \in {n + 1, n + 2}
    <2> SUFFICES ASSUME e <= n
                 PROVE  FALSE
        BY <1>3, <1>4
    <2>1. e \in 1..n /\ e - 1 \in 1..n /\ (e >= 4 => e - 2 \in 1..n /\ e - 3 \in 1..n)
        BY <1>3
    <2>2. CASE LfEnds(t, e)
        <3>1. LfEnds(q, e)
            BY <1>4, <2>1, <2>2 DEF LfEnds
        <3> QED BY <1>5, <2>1, <3>1 DEF NoDelimiter, DelimiterEnds
    <2>3. CASE CrlfEnds(t, e)
        <3>1. CrlfEnds(q, e)
            BY <1>4, <2>1, <2>3 DEF CrlfEnds
        <3> QED BY <1>5, <2>1, <3>1 DEF NoDelimiter, DelimiterEnds
    <2> QED BY <1>7, <2>2, <2>3 DEF DelimiterEnds
<1>9. PICK u, data : u = SubSeq(t, 1, n + 1) /\ data = WithLine(LinesOf(q).data, LinesOf(q).line)
    OBVIOUS
<1>10. u = Append(q, "n") /\ u \in Seq(Byte) /\ "n" \in Byte
    <2>1. n + 1 \in 1..Len(t) /\ (n + 1) - 1 = n
        BY <1>3, <1>4
    <2>2. u = Append(SubSeq(t, 1, n), "n") /\ Len(SubSeq(t, 1, n)) = n /\ SubSeq(t, 1, n) \in Seq(Byte)
          /\ \A i \in 1..n : SubSeq(t, 1, n)[i] = t[i]
        <3>1. PICK k : k = n + 1
            OBVIOUS
        <3>2. k \in 1..Len(t) /\ k - 1 = n /\ t[k] = "n" /\ u = SubSeq(t, 1, k)
            BY <1>4, <1>9, <2>1, <3>1
        <3>3. /\ SubSeq(t, 1, k) = Append(SubSeq(t, 1, k - 1), t[k]) /\ Len(SubSeq(t, 1, k - 1)) = k - 1
              /\ SubSeq(t, 1, k - 1) \in Seq(Byte) /\ \A i \in 1..k - 1 : SubSeq(t, 1, k - 1)[i] = t[i]
            BY <1>4, <3>2, PrefixStep, Zenon
        <3> QED BY <3>2, <3>3, Zenon
    <2>3. SubSeq(t, 1, n) = q
        <3>1. PICK v : v = SubSeq(t, 1, n)
            OBVIOUS
        <3>2. v \in Seq(Byte) /\ Len(v) = n /\ \A i \in 1..n : v[i] = q[i]
            BY <1>4, <2>2, <3>1
        <3>3. v = q
            BY <1>1, <3>2, SMTT(40)
        <3> QED BY <3>1, <3>3
    <2>4. "n" \in Byte
        BY DEF Byte
    <2> QED BY <2>2, <2>3, <2>4
<1>11. LinesOf(u).line = <<>> /\ LinesOf(u).data = data
    BY <1>9, <1>10, LinesNext
<1>12. data \in Seq(Seq(Byte)) /\ WithLine(data, <<>>) = data
    <2>1. LinesOf(q).line \in Seq(Byte) /\ LinesOf(q).data \in Seq(Seq(Byte))
        BY LinesTyped
    <2>2. data \in Seq(Seq(Byte))
        BY <1>9, <2>1, WithLineFacts
    <2>3. Chomp(<<>>) = <<>> /\ <<>> \in Seq(Byte)
        BY DEF Chomp
    <2> QED BY <2>2, <2>3, WithLineFacts
<1>13. DataOf(SubSeq(t, 1, e)) = data
    <2>1. CASE e = n + 1
        BY <1>9, <1>11, <1>12, <2>1, Zenon DEF DataOf
    <2>2. CASE e = n + 2
        <3>1. n + 2 \in 1..Len(t) /\ (n + 2) - 1 = n + 1
            BY <1>3, <1>4
        <3>2. SubSeq(t, 1, n + 2) = Append(u, "n")
            BY <1>4, <1>9, <3>1, PrefixStep, ZenonT(40)
        <3>3. LinesOf(Append(u, "n")).line = <<>> /\ LinesOf(Append(u, "n")).data = data
            BY <1>10, <1>11, <1>12, LinesNext
        <3> QED BY <1>12, <2>2, <3>2, <3>3, Zenon DEF DataOf
    <2> QED BY <1>8, <2>1, <2>2
<1>14. ~HasBoundary(SubSeq(t, e + 1, Len(t))) /\ SubSeq(t, e + 1, Len(t)) \in Seq(Byte)
    <2>1. PICK r : r = SubSeq(t, e + 1, Len(t))
        OBVIOUS
    <2>2. r \in Seq(Byte) /\ Len(r) < 2
        <3>1. CASE e = n + 1
            <4>1. r = SubSeq(t, n + 2, n + 2)
                BY <1>3, <1>4, <2>1, <3>1
            <4> QED BY <1>3, <1>4, <4>1
        <3>2. CASE e = n + 2
            <4>1. r = SubSeq(t, n + 3, n + 2)
                BY <1>3, <1>4, <2>1, <3>2
            <4> QED BY <1>3, <1>4, <4>1
        <3> QED BY <1>8, <3>1, <3>2
    <2> QED BY <2>1, <2>2, ShortHasNone
<1> QED BY <1>4, <1>6, <1>7, <1>9, <1>13, <1>14

-----------------------------------------------------------------------------
(* Framing: the inductive invariant *)

\* The sequence b begins with the sequence a.
Begins(a, b) == \E x \in Seq(Lines) : b = a \o x

\* What it begins with is a prefix.
LEMMA BeginsIsPrefix ==
    ASSUME NEW a \in Seq(Lines), NEW b, Begins(a, b)
    PROVE  IsPrefix(a, b)
<1>1. PICK x \in Seq(Lines) : b = a \o x
    BY DEF Begins
<1>2. /\ b \in Seq(Lines) /\ Len(a) \in Nat /\ Len(b) = Len(a) + Len(x) /\ Len(x) \in Nat
      /\ \A i \in 1..Len(a) : b[i] = a[i]
    BY <1>1, Joined
<1>3. PICK c : c = SubSeq(b, 1, Len(a))
    OBVIOUS
<1>4. Len(c) = Len(a) /\ c \in Seq(Lines) /\ \A i \in 1..Len(a) : c[i] = a[i]
    BY <1>2, <1>3
<1>5. c = a /\ SubSeq(a, 1, Len(a)) = a
    BY <1>4
<1> QED BY <1>2, <1>3, <1>5 DEF IsPrefix

\* What is added at the end changes no beginning.
LEMMA BeginsLonger ==
    ASSUME NEW a \in Seq(Lines), NEW b \in Seq(Lines), NEW x \in Seq(Lines), Begins(a, b)
    PROVE  Begins(a, b \o x)
<1>1. PICK y \in Seq(Lines) : b = a \o y
    BY DEF Begins
<1>2. (a \o y) \o x = a \o (y \o x) /\ y \o x \in Seq(Lines)
    OBVIOUS
<1> QED BY <1>1, <1>2, Zenon DEF Begins

\* Reading on takes no event back.
LEMMA MeaningGrows ==
    ASSUME NEW h \in Seq(Byte), NEW t \in Seq(Byte), NEW a \in Seq(Lines), Begins(a, Meaning(h).events)
    PROVE  Begins(a, Meaning(h \o t).events)
<1> DEFINE Ok(u) == Begins(a, Meaning(h \o u).events)
           Bad == { k \in 0..Len(t) : ~Ok(SubSeq(t, 1, k)) }
<1> SUFFICES Bad = {}
    <2>1. Len(t) \in 0..Len(t) /\ SubSeq(t, 1, Len(t)) = t
        OBVIOUS
    <2> QED BY <2>1
<1> SUFFICES ASSUME Bad # {}
             PROVE  FALSE
    OBVIOUS
<1>1. PICK k \in Bad : \A j \in Bad : k <= j
    <2>1. Bad \subseteq Nat
        OBVIOUS
    <2> HIDE DEF Bad
    <2> QED BY <2>1, LeastOf
<1>2. k # 0
    <2>1. SubSeq(t, 1, 0) = <<>> /\ h \o <<>> = h
        OBVIOUS
    <2> QED BY <2>1
<1>3. PICK u, b : u = SubSeq(t, 1, k - 1) /\ b = t[k]
    OBVIOUS
<1>4. k \in 1..Len(t) /\ k - 1 \in 0..Len(t) /\ ~(k <= k - 1)
    BY <1>2
<1>5. SubSeq(t, 1, k) = Append(u, b) /\ u \in Seq(Byte) /\ b \in Byte
    BY <1>3, <1>4, PrefixStep
<1>6. PICK w : w = h \o u
    OBVIOUS
<1>7. Begins(a, Meaning(w).events)
    BY <1>1, <1>3, <1>4, <1>6
<1>8. h \o Append(u, b) = Append(w, b) /\ w \in Seq(Byte)
    BY <1>5, <1>6, JoinedByte
<1>9. Meaning(w).events \in Seq(Lines) /\ EventOf(Meaning(w).data) \in Seq(Lines)
    BY <1>8, MeaningTyped, EventTyped
<1>10. \/ Meaning(Append(w, b)).events = Meaning(w).events
       \/ Meaning(Append(w, b)).events = Meaning(w).events \o EventOf(Meaning(w).data)
    BY <1>5, <1>8, MeaningNext
<1>11. Begins(a, Meaning(Append(w, b)).events)
    BY <1>7, <1>9, <1>10, BeginsLonger
<1> QED BY <1>1, <1>5, <1>8, <1>11

\* The text not yet cut begins where an event does, and the events cut so far
\* are all those before it.
Cutting(seen, pending, out) ==
    \E h \in Seq(Byte) : seen = h \o pending /\ AtEventStart(h) /\ Meaning(h).events = out

\* The same once the last event of a body was given an end.
Closing(seen, pending, out) ==
    \E q \in Seq(Byte) : Cutting(seen, q, out) /\ ~HasBoundary(q) /\ pending = q \o <<"n", "n">>

\* Whatever was sent is the beginning of what was meant.
Sent(kind, seen, out) ==
    Begins(out, IF kind = "stream" THEN Meaning(seen).events ELSE MeaningAtEnd(seen))

FramingTypes ==
    /\ ssKind \in {"stream", "body"} /\ ssStep \in {"read", "drain", "send", "done"}
    /\ ssClosed \in BOOLEAN
    /\ ssInput \in Seq(Byte) /\ ssSeen \in Seq(Byte) /\ ssPending \in Seq(Byte)
    /\ ssBatch \in Seq(Lines) /\ ssEvents \in Seq(Lines)
    /\ WellFormed(ssSeen \o ssInput)

\* What holds of each step of the bridge.
FramingSteps ==
    /\ ssError # "none" => ssStep = "done"
    /\ ssStep \in {"read", "done"} => ssBatch = <<>>
    /\ ssKind = "stream" => ssClosed = FALSE
    /\ ssKind = "body" /\ ssStep \in {"read", "drain"} => ssEvents = <<>>
    /\ ssKind = "body" /\ ssStep = "read" => ssSeen = <<>> /\ ssPending = <<>> /\ ssClosed = FALSE

FramingInv ==
    /\ FramingTypes /\ FramingSteps
    /\ Sent(ssKind, ssSeen, ssEvents)
    /\ ssError = "none" /\ ~ssClosed => Cutting(ssSeen, ssPending, ssEvents \o ssBatch)
    /\ ssError = "none" /\ ~ssClosed /\ ssStep # "drain" => ~HasBoundary(ssPending)
    /\ ssError = "none" /\ ssClosed =>
        \/ ssStep = "drain" /\ Closing(ssSeen, ssPending, ssEvents \o ssBatch)
        \/ ~HasBoundary(ssPending) /\ ssEvents \o ssBatch = MeaningAtEnd(ssSeen)
    /\ ssError = "none" /\ ~ssClosed /\ ssKind = "body" /\ ssStep \in {"send", "done"} =>
        ssEvents \o ssBatch = MeaningAtEnd(ssSeen)

\* A prefix of a text keeps its empty lines.
LEMMA WellFormedBefore ==
    ASSUME NEW a \in Seq(Byte), NEW b \in Seq(Byte), WellFormed(a \o b)
    PROVE  WellFormed(a)
<1>1. PICK x : x = a \o b
    OBVIOUS
<1>2. Len(a) \in Nat /\ Len(b) \in Nat /\ Len(x) = Len(a) + Len(b) /\ \A i \in 1..Len(a) : x[i] = a[i]
    BY <1>1, Joined
<1>3. WellFormed(x)
    BY <1>1
<1> SUFFICES ASSUME NEW i \in 1..Len(a) - 2, a[i] = "n" /\ a[i + 1] = "r" /\ a[i + 2] = "n"
             PROVE  i > 1 /\ a[i - 1] = "r"
    BY DEF WellFormed
<1>4. i \in 1..Len(x) - 2 /\ i \in 1..Len(a) /\ i + 1 \in 1..Len(a) /\ i + 2 \in 1..Len(a)
    BY <1>2
<1>5. x[i] = "n" /\ x[i + 1] = "r" /\ x[i + 2] = "n"
    BY <1>2, <1>4
<1>6. i > 1 /\ x[i - 1] = "r"
    BY <1>3, <1>4, <1>5 DEF WellFormed
<1>7. i - 1 \in 1..Len(a)
    BY <1>2, <1>4, <1>6
<1> QED BY <1>2, <1>6, <1>7

\* The end of a body adds events and takes none back.
LEMMA AtEndTyped ==
    ASSUME NEW t \in Seq(Byte)
    PROVE  /\ MeaningAtEnd(t) \in Seq(Lines)
           /\ \A a \in Seq(Lines) : Begins(a, Meaning(t).events) => Begins(a, MeaningAtEnd(t))
<1>1. PICK m : m = Meaning(t)
    OBVIOUS
<1>2. m.line \in Seq(Byte) /\ m.data \in Lines /\ m.events \in Seq(Lines)
    BY <1>1, MeaningTyped
<1>3. WithLine(m.data, m.line) \in Lines
    BY <1>2, WithLineFacts, Zenon DEF Lines
<1>4. PICK x : x = EventOf(WithLine(m.data, m.line))
    OBVIOUS
<1>5. x \in Seq(Lines)
    BY <1>3, <1>4, EventTyped
<1>6. MeaningAtEnd(t) = m.events \o x
    BY <1>1, <1>4, Zenon DEF MeaningAtEnd
<1>7. m.events \o x \in Seq(Lines)
    BY <1>2, <1>5
<1>8. ASSUME NEW a \in Seq(Lines), Begins(a, m.events)
      PROVE  Begins(a, m.events \o x)
    BY <1>2, <1>5, <1>8, BeginsLonger
<1> QED BY <1>1, <1>6, <1>7, <1>8, Zenon

\* What has been cut and sent so far was meant.
LEMMA CuttingSends ==
    ASSUME NEW kind \in {"stream", "body"}, NEW seen \in Seq(Byte), NEW pending \in Seq(Byte),
           NEW out \in Seq(Lines), NEW x \in Seq(Lines), Cutting(seen, pending, out \o x)
    PROVE  Sent(kind, seen, out)
<1>1. PICK h \in Seq(Byte) : seen = h \o pending /\ Meaning(h).events = out \o x
    BY DEF Cutting
<1>2. Begins(out, Meaning(h).events)
    BY <1>1 DEF Begins
<1>3. Begins(out, Meaning(seen).events)
    BY <1>1, <1>2, MeaningGrows
<1>4. Begins(out, MeaningAtEnd(seen))
    BY <1>3, AtEndTyped
<1> QED BY <1>3, <1>4 DEF Sent

\* Where nothing is left to cut, everything meant has been cut.
LEMMA NothingToCut ==
    ASSUME NEW seen \in Seq(Byte), NEW pending \in Seq(Byte), NEW out, WellFormed(seen),
           Cutting(seen, pending, out), ~HasBoundary(pending)
    PROVE  /\ Meaning(seen).events = out
           /\ MeaningAtEnd(seen) = out \o EventOf(WithLine(LinesOf(pending).data, LinesOf(pending).line))
<1>1. PICK h \in Seq(Byte) : seen = h \o pending /\ AtEventStart(h) /\ Meaning(h).events = out
    BY DEF Cutting
<1>2. Len(pending) \in 0..Len(pending) /\ SubSeq(pending, 1, Len(pending)) = pending
    OBVIOUS
<1>3. NoDelimiter(pending, Len(pending))
    BY BoundaryFacts
<1>4. /\ Meaning(h \o SubSeq(pending, 1, Len(pending))).line = LinesOf(SubSeq(pending, 1, Len(pending))).line
      /\ Meaning(h \o SubSeq(pending, 1, Len(pending))).data = LinesOf(SubSeq(pending, 1, Len(pending))).data
      /\ Meaning(h \o SubSeq(pending, 1, Len(pending))).events = Meaning(h).events
    BY <1>1, <1>2, <1>3, LinesAreMeant
<1>5. /\ Meaning(seen).line = LinesOf(pending).line /\ Meaning(seen).data = LinesOf(pending).data
      /\ Meaning(seen).events = out
    BY <1>1, <1>2, <1>4, Zenon
<1> QED BY <1>5, Zenon DEF MeaningAtEnd

\* A text is its first bytes and the others.
LEMMA SplitAt ==
    ASSUME NEW S, NEW t \in Seq(S), NEW k \in 0..Len(t)
    PROVE  /\ SubSeq(t, 1, k) \in Seq(S) /\ SubSeq(t, k + 1, Len(t)) \in Seq(S)
           /\ t = SubSeq(t, 1, k) \o SubSeq(t, k + 1, Len(t))
<1>1. PICK a, c : a = SubSeq(t, 1, k) /\ c = SubSeq(t, k + 1, Len(t))
    OBVIOUS
<1>2. Len(t) \in Nat /\ k \in Nat /\ k <= Len(t)
    OBVIOUS
<1>3. a \in Seq(S) /\ Len(a) = k /\ \A i \in 1..k : a[i] = t[i]
    BY <1>1, <1>2
<1>4. c \in Seq(S) /\ Len(c) = Len(t) - k /\ \A i \in 1..Len(t) - k : c[i] = t[k + i]
    BY <1>1, <1>2
<1>5. PICK x : x = a \o c
    OBVIOUS
<1>6. /\ x \in Seq(S) /\ Len(x) = Len(t) /\ \A i \in 1..k : x[i] = a[i]
      /\ \A i \in 1..Len(t) - k : x[k + i] = c[i]
    <2>1. /\ x \in Seq(S) /\ Len(x) = Len(a) + Len(c) /\ \A i \in 1..Len(a) : x[i] = a[i]
          /\ \A i \in 1..Len(c) : x[Len(a) + i] = c[i]
        BY <1>3, <1>4, <1>5, Joined
    <2> QED BY <1>2, <1>3, <1>4, <2>1
<1>7. ASSUME NEW i \in 1..Len(t)
      PROVE  x[i] = t[i]
    <2>1. CASE i <= k
        BY <1>2, <1>3, <1>6, <2>1
    <2>2. CASE ~(i <= k)
        <3>1. PICK j : j = i - k
            OBVIOUS
        <3>2. j \in 1..Len(t) - k /\ i = k + j
            BY <1>2, <2>2, <3>1
        <3> QED BY <1>4, <1>6, <3>2
    <2> QED BY <2>1, <2>2
<1>8. x = t
    BY <1>6, <1>7
<1> QED BY <1>1, <1>3, <1>4, <1>5, <1>8

\* Three texts in a row.
LEMMA JoinAssoc ==
    ASSUME NEW S, NEW a \in Seq(S), NEW b \in Seq(S), NEW c \in Seq(S)
    PROVE  (a \o b) \o c = a \o (b \o c)
OBVIOUS

\* Giving up keeps what was sent.
LEMMA GivingUp ==
    ASSUME FramingInv, NEW e, e # "none", GiveUp(e), ssKind' = ssKind,
           ssInput' \in Seq(Byte), ssSeen' \in Seq(Byte), WellFormed(ssSeen' \o ssInput'),
           Sent(ssKind, ssSeen', ssEvents)
    PROVE  FramingInv'
<1>1. /\ ssError' = e /\ ssBatch' = <<>> /\ ssStep' = "done"
      /\ ssPending' = ssPending /\ ssEvents' = ssEvents /\ ssClosed' = ssClosed
    BY DEF GiveUp
<1>2. FramingTypes' /\ FramingSteps'
    BY <1>1 DEF FramingInv, FramingTypes, FramingSteps
<1>3. Sent(ssKind, ssSeen, ssEvents)'
    BY <1>1
<1> QED BY <1>1, <1>2, <1>3, Zenon DEF FramingInv

\* A chunk is put behind what is pending: where the uncut text begins does not move.
LEMMA TakeChunkStep ==
    ASSUME FramingInv, NEW k \in 1..Len(ssInput), TakeChunk(k)
    PROVE  FramingInv'
<1>1. FramingTypes /\ FramingSteps
    BY DEF FramingInv
<1>2. PICK chunk, rest : chunk = SubSeq(ssInput, 1, k) /\ rest = SubSeq(ssInput, k + 1, Len(ssInput))
    OBVIOUS
<1>3. chunk \in Seq(Byte) /\ rest \in Seq(Byte) /\ ssInput = chunk \o rest
    <2>1. k \in 0..Len(ssInput) /\ ssInput \in Seq(Byte)
        BY <1>1 DEF FramingTypes
    <2> QED BY <1>2, <2>1, SplitAt
<1>4. /\ ssKind = "stream" /\ ssStep = "read" /\ ssKind' = ssKind
      /\ ssInput' = rest /\ ssSeen' = ssSeen \o chunk
    BY <1>2, Zenon DEF TakeChunk
<1>5. ssError = "none" /\ ssClosed = FALSE /\ ssBatch = <<>>
    BY <1>1, <1>4 DEF FramingSteps
<1>6. ssSeen \in Seq(Byte) /\ ssPending \in Seq(Byte) /\ WellFormed(ssSeen \o ssInput)
    BY <1>1 DEF FramingTypes
<1>7. ssSeen' \in Seq(Byte) /\ ssInput' \in Seq(Byte)
    BY <1>3, <1>4, <1>6
<1>8. WellFormed(ssSeen' \o ssInput')
    <2>1. (ssSeen \o chunk) \o rest = ssSeen \o (chunk \o rest)
        BY <1>3, <1>6, JoinAssoc
    <2> QED BY <1>3, <1>4, <1>6, <2>1, Zenon
<1>9. Sent(ssKind, ssSeen', ssEvents)
    <2>1. Begins(ssEvents, Meaning(ssSeen).events) /\ ssEvents \in Seq(Lines)
        BY <1>1, <1>4 DEF FramingInv, Sent, FramingTypes
    <2>2. Begins(ssEvents, Meaning(ssSeen \o chunk).events)
        BY <1>3, <1>6, <2>1, MeaningGrows
    <2> QED BY <1>4, <2>2 DEF Sent
<1>10. CASE \E e : e # "none" /\ GiveUp(e)
    BY <1>4, <1>7, <1>8, <1>9, <1>10, GivingUp
<1>11. CASE /\ ssPending' = ssPending \o chunk /\ ssStep' = "drain"
            /\ UNCHANGED <<ssClosed, ssBatch, ssEvents, ssError>>
    <2>1. /\ ssClosed' = FALSE /\ ssBatch' = <<>> /\ ssEvents' = ssEvents /\ ssError' = "none"
          /\ ssEvents' \o ssBatch' = ssEvents \o ssBatch
        BY <1>5, <1>11
    <2>2. FramingTypes' /\ FramingSteps'
        <3>1. ssPending' \in Seq(Byte)
            BY <1>3, <1>6, <1>11
        <3> QED BY <1>1, <1>4, <1>7, <1>8, <1>11, <2>1, <3>1 DEF FramingTypes, FramingSteps
    <2>3. Cutting(ssSeen, ssPending, ssEvents \o ssBatch)
        BY <1>5 DEF FramingInv
    <2>4. PICK h \in Seq(Byte) :
            ssSeen = h \o ssPending /\ AtEventStart(h) /\ Meaning(h).events = ssEvents \o ssBatch
        BY <2>3 DEF Cutting
    <2>5. (h \o ssPending) \o chunk = h \o (ssPending \o chunk)
        BY <1>3, <1>6, JoinAssoc, SMTT(40)
    <2>6. Cutting(ssSeen', ssPending', ssEvents' \o ssBatch')
        BY <1>4, <1>11, <2>1, <2>4, <2>5, Zenon DEF Cutting
    <2>7. Sent(ssKind', ssSeen', ssEvents')
        BY <1>4, <1>9, <2>1, Zenon
    <2> QED BY <1>4, <1>11, <2>1, <2>2, <2>6, <2>7 DEF FramingInv
<1>12. "not_utf8" # "none" /\ "too_long" # "none"
    OBVIOUS
<1> QED BY <1>2, <1>10, <1>11, <1>12, Zenon DEF TakeChunk

\* At the end of a stream nothing is left that could have been cut.
LEMMA EndStreamStep ==
    ASSUME FramingInv, EndStream
    PROVE  FramingInv'
<1>1. /\ ssKind' = ssKind /\ ssInput' = ssInput /\ ssSeen' = ssSeen /\ ssPending' = ssPending
      /\ ssClosed' = ssClosed /\ ssBatch' = ssBatch /\ ssEvents' = ssEvents /\ ssError' = ssError
      /\ ssKind = "stream" /\ ssStep = "read" /\ ssStep' = "done"
    BY DEF EndStream
<1>2. ssError = "none" /\ ssClosed = FALSE
    BY <1>1 DEF FramingInv, FramingSteps
<1>3. FramingTypes' /\ FramingSteps'
    BY <1>1 DEF FramingInv, FramingTypes, FramingSteps
<1>4. /\ Sent(ssKind, ssSeen, ssEvents) /\ Cutting(ssSeen, ssPending, ssEvents \o ssBatch)
      /\ ~HasBoundary(ssPending)
    BY <1>1, <1>2 DEF FramingInv
<1>5. /\ Sent(ssKind', ssSeen', ssEvents') /\ Cutting(ssSeen', ssPending', ssEvents' \o ssBatch')
      /\ ~HasBoundary(ssPending')
    BY <1>1, <1>4, Zenon
<1> QED BY <1>1, <1>2, <1>3, <1>5 DEF FramingInv

\* A body is pending as a whole.
LEMMA TakeBodyStep ==
    ASSUME FramingInv, TakeBody
    PROVE  FramingInv'
<1>1. FramingTypes /\ FramingSteps
    BY DEF FramingInv
<1>2. ssKind = "body" /\ ssStep = "read" /\ ssKind' = ssKind /\ ssInput' = <<>> /\ ssSeen' = ssInput
    BY DEF TakeBody
<1>3. /\ ssError = "none" /\ ssClosed = FALSE /\ ssBatch = <<>> /\ ssEvents = <<>>
      /\ ssSeen = <<>> /\ ssPending = <<>>
    BY <1>1, <1>2 DEF FramingSteps
<1>4. ssInput \in Seq(Byte) /\ WellFormed(ssSeen \o ssInput)
    BY <1>1 DEF FramingTypes
<1>5. ssInput' \in Seq(Byte) /\ ssSeen' \in Seq(Byte)
    BY <1>2, <1>4
<1>6. WellFormed(ssSeen' \o ssInput')
    <2>1. <<>> \o ssInput = ssInput \o <<>>
        BY <1>4
    <2> QED BY <1>2, <1>3, <1>4, <2>1, Zenon
<1>7. Sent(ssKind, ssSeen', ssEvents)
    <2>1. MeaningAtEnd(ssInput) \in Seq(Lines)
        BY <1>4, AtEndTyped
    <2>2. MeaningAtEnd(ssInput) = <<>> \o MeaningAtEnd(ssInput)
        BY <2>1
    <2>3. Begins(<<>>, MeaningAtEnd(ssInput))
        BY <2>1, <2>2, Zenon DEF Begins
    <2> QED BY <1>2, <1>3, <2>3 DEF Sent
<1>8. CASE \E e : e # "none" /\ GiveUp(e)
    BY <1>2, <1>5, <1>6, <1>7, <1>8, GivingUp
<1>9. CASE /\ ssPending' = ssInput /\ ssStep' = "drain"
           /\ UNCHANGED <<ssClosed, ssBatch, ssEvents, ssError>>
    <2>1. ssClosed' = FALSE /\ ssBatch' = <<>> /\ ssEvents' = <<>> /\ ssError' = "none"
        BY <1>3, <1>9
    <2>2. FramingTypes' /\ FramingSteps'
        BY <1>1, <1>2, <1>4, <1>5, <1>6, <1>9, <2>1 DEF FramingTypes, FramingSteps
    <2>3. /\ <<>> \in Seq(Byte) /\ AtEventStart(<<>>) /\ <<>> \o ssInput = ssInput
          /\ Meaning(<<>>).events = <<>>
        BY <1>4, MeaningNone DEF AtEventStart
    <2>4. ssEvents' \o ssBatch' = <<>>
        BY <2>1
    <2>5. Cutting(ssSeen', ssPending', ssEvents' \o ssBatch')
        BY <1>2, <1>9, <2>3, <2>4, Zenon DEF Cutting
    <2>6. Sent(ssKind', ssSeen', ssEvents')
        BY <1>2, <1>3, <1>7, <2>1, Zenon
    <2> QED BY <1>9, <2>1, <2>2, <2>5, <2>6 DEF FramingInv
<1>10. "not_utf8" # "none" /\ "too_long" # "none"
    OBVIOUS
<1> QED BY <1>8, <1>9, <1>10, Zenon DEF TakeBody

\* One event is cut off what is pending.
LEMMA CuttingMoves ==
    ASSUME NEW seen \in Seq(Byte), NEW pending \in Seq(Byte), NEW out, WellFormed(seen),
           Cutting(seen, pending, out), HasBoundary(pending),
           NEW e, e = NextBoundary(pending).at + NextBoundary(pending).len
    PROVE  /\ SubSeq(pending, e + 1, Len(pending)) \in Seq(Byte)
           /\ Cutting(seen, SubSeq(pending, e + 1, Len(pending)),
                      out \o EventOf(DataOf(SubSeq(pending, 1, e))))
<1>1. PICK h \in Seq(Byte) : seen = h \o pending /\ AtEventStart(h) /\ Meaning(h).events = out
    BY DEF Cutting
<1>2. e \in 2..Len(pending) /\ DelimiterEnds(pending, e) /\ NoDelimiter(pending, e - 1)
    BY BoundaryFacts
<1>3. PICK cut, rest : cut = SubSeq(pending, 1, e) /\ rest = SubSeq(pending, e + 1, Len(pending))
    OBVIOUS
<1>4. e \in 0..Len(pending)
    BY <1>2
<1>5. cut \in Seq(Byte) /\ rest \in Seq(Byte) /\ pending = cut \o rest
    BY <1>3, <1>4, SplitAt
<1>6. /\ AtEventStart(h \o cut)
      /\ Meaning(h \o cut).events = Meaning(h).events \o EventOf(DataOf(cut))
    BY <1>1, <1>2, <1>3, CutIsMeant
<1>7. (h \o cut) \o rest = h \o (cut \o rest)
    BY <1>5, JoinAssoc
<1>8. h \o cut \in Seq(Byte)
    BY <1>5
<1> QED BY <1>1, <1>3, <1>5, <1>6, <1>7, <1>8, Zenon DEF Cutting

\* The last event of a body is cut off, with the end it was given.
LEMMA ClosingEnds ==
    ASSUME NEW seen \in Seq(Byte), NEW pending \in Seq(Byte), NEW out, WellFormed(seen),
           Closing(seen, pending, out),
           NEW e, e = NextBoundary(pending).at + NextBoundary(pending).len
    PROVE  /\ SubSeq(pending, e + 1, Len(pending)) \in Seq(Byte)
           /\ ~HasBoundary(SubSeq(pending, e + 1, Len(pending)))
           /\ out \o EventOf(DataOf(SubSeq(pending, 1, e))) = MeaningAtEnd(seen)
<1>1. PICK q \in Seq(Byte) : Cutting(seen, q, out) /\ ~HasBoundary(q) /\ pending = q \o <<"n", "n">>
    BY DEF Closing
<1>2. MeaningAtEnd(seen) = out \o EventOf(WithLine(LinesOf(q).data, LinesOf(q).line))
    BY <1>1, NothingToCut
<1>3. /\ DataOf(SubSeq(pending, 1, e)) = WithLine(LinesOf(q).data, LinesOf(q).line)
      /\ ~HasBoundary(SubSeq(pending, e + 1, Len(pending)))
      /\ SubSeq(pending, e + 1, Len(pending)) \in Seq(Byte)
    BY <1>1, ClosedText, Zenon
<1> QED BY <1>2, <1>3, Zenon

\* One turn of the loop moves where the uncut text begins by one event.
LEMMA DrainEventStep ==
    ASSUME FramingInv, DrainEvent
    PROVE  FramingInv'
<1>1. FramingTypes /\ FramingSteps
    BY DEF FramingInv
<1>2. PICK e : e = NextBoundary(ssPending).at + NextBoundary(ssPending).len
    OBVIOUS
<1>3. PICK data, rest : data = DataOf(SubSeq(ssPending, 1, e)) /\ rest = SubSeq(ssPending, e + 1, Len(ssPending))
    OBVIOUS
<1>4. /\ ssStep = "drain" /\ HasBoundary(ssPending)
      /\ ssKind' = ssKind /\ ssInput' = ssInput /\ ssSeen' = ssSeen
      /\ \/ GiveUp("not_json")
         \/ /\ ssBatch' = ssBatch \o EventOf(data) /\ ssPending' = rest
            /\ UNCHANGED <<ssClosed, ssEvents, ssStep, ssError>>
    <2>1. NextBoundary(ssPending).at + NextBoundary(ssPending).len + 1 = e + 1
        BY <1>2
    <2> QED BY <1>2, <1>3, <2>1, Zenon DEF DrainEvent
<1>5. ssError = "none"
    BY <1>1, <1>4 DEF FramingSteps
<1>6. /\ ssSeen \in Seq(Byte) /\ ssInput \in Seq(Byte) /\ ssPending \in Seq(Byte)
      /\ ssEvents \in Seq(Lines) /\ ssBatch \in Seq(Lines)
      /\ WellFormed(ssSeen \o ssInput) /\ WellFormed(ssSeen)
    BY <1>1, WellFormedBefore DEF FramingTypes
<1>7. CASE GiveUp("not_json")
    <2>1. Sent(ssKind, ssSeen', ssEvents)
        BY <1>4 DEF FramingInv
    <2>2. "not_json" # "none" /\ WellFormed(ssSeen' \o ssInput')
        BY <1>4, <1>6
    <2> QED BY <1>4, <1>6, <1>7, <2>1, <2>2, GivingUp
<1>8. CASE /\ ssBatch' = ssBatch \o EventOf(data) /\ ssPending' = rest
           /\ UNCHANGED <<ssClosed, ssEvents, ssStep, ssError>>
    <2>1. PICK out, ev : out = ssEvents \o ssBatch /\ ev = EventOf(data)
        OBVIOUS
    <2>2. ev \in Seq(Lines)
        <3>1. PICK u : u = SubSeq(ssPending, 1, e)
            OBVIOUS
        <3>2. u \in Seq(Byte)
            <4>1. e \in 2..Len(ssPending)
                BY <1>2, <1>4, <1>6, BoundaryFacts
            <4>2. e \in 0..Len(ssPending)
                BY <1>6, <4>1
            <4> QED BY <1>6, <3>1, <4>2, SplitAt
        <3>3. LinesOf(u).line \in Seq(Byte) /\ LinesOf(u).data \in Seq(Seq(Byte))
            BY <3>2, LinesTyped
        <3>4. data \in Lines
            BY <1>3, <3>1, <3>3, WithLineFacts, Zenon DEF DataOf, Lines
        <3> QED BY <2>1, <3>4, EventTyped
    <2>3. ssEvents' \o ssBatch' = out \o ev
        <3>1. (ssEvents \o ssBatch) \o ev = ssEvents \o (ssBatch \o ev)
            <4>1. ssEvents \in Seq(Lines) /\ ssBatch \in Seq(Lines)
                BY <1>6
            <4> QED BY <2>2, <4>1, JoinAssoc
        <3> QED BY <1>8, <2>1, <3>1, Zenon
    <2>4. ssClosed' = ssClosed /\ ssEvents' = ssEvents /\ ssStep' = "drain" /\ ssError' = "none"
        BY <1>4, <1>5, <1>8
    <2>5. ssBatch' \in Seq(Lines)
        BY <1>6, <1>8, <2>1, <2>2
    <2>6. Sent(ssKind', ssSeen', ssEvents')
        BY <1>4, <2>4 DEF FramingInv
    <2>7. ASSUME ssPending' \in Seq(Byte)
          PROVE  FramingTypes' /\ FramingSteps'
        BY <1>1, <1>4, <2>4, <2>5, <2>7 DEF FramingTypes, FramingSteps
    <2>8. CASE ~ssClosed
        <3>1. Cutting(ssSeen, ssPending, out)
            BY <1>5, <2>1, <2>8 DEF FramingInv
        <3>2. rest \in Seq(Byte) /\ Cutting(ssSeen, rest, out \o ev)
            BY <1>2, <1>3, <1>4, <1>6, <2>1, <3>1, CuttingMoves
        <3>3. ssPending' \in Seq(Byte) /\ Cutting(ssSeen', ssPending', ssEvents' \o ssBatch')
            BY <1>4, <1>8, <2>3, <3>2, Zenon
        <3> QED BY <2>4, <2>6, <2>7, <2>8, <3>3 DEF FramingInv
    <2>9. CASE ssClosed
        <3>1. Closing(ssSeen, ssPending, out)
            BY <1>4, <1>5, <2>1, <2>9 DEF FramingInv
        <3>2. rest \in Seq(Byte) /\ ~HasBoundary(rest) /\ out \o ev = MeaningAtEnd(ssSeen)
            <4>1. ssSeen \in Seq(Byte) /\ ssPending \in Seq(Byte) /\ WellFormed(ssSeen)
                BY <1>6
            <4>2. /\ SubSeq(ssPending, e + 1, Len(ssPending)) \in Seq(Byte)
                  /\ ~HasBoundary(SubSeq(ssPending, e + 1, Len(ssPending)))
                  /\ out \o EventOf(DataOf(SubSeq(ssPending, 1, e))) = MeaningAtEnd(ssSeen)
                BY <1>2, <3>1, <4>1, ClosingEnds, Zenon
            <4> QED BY <1>3, <2>1, <4>2, Zenon
        <3>3. /\ ssPending' \in Seq(Byte) /\ ~HasBoundary(ssPending')
              /\ ssEvents' \o ssBatch' = MeaningAtEnd(ssSeen')
            BY <1>4, <1>8, <2>3, <3>2, Zenon
        <3> QED BY <2>4, <2>6, <2>7, <2>9, <3>3 DEF FramingInv
    <2> QED BY <2>8, <2>9
<1> QED BY <1>4, <1>7, <1>8

\* The loop ends with nothing left to cut, or gives a body's last event an end.
LEMMA FinishDrainStep ==
    ASSUME FramingInv, FinishDrain
    PROVE  FramingInv'
<1>1. FramingTypes /\ FramingSteps
    BY DEF FramingInv
<1>2. /\ ssStep = "drain" /\ ~HasBoundary(ssPending)
      /\ ssKind' = ssKind /\ ssInput' = ssInput /\ ssSeen' = ssSeen
      /\ ssBatch' = ssBatch /\ ssEvents' = ssEvents /\ ssError' = ssError
    BY DEF FinishDrain
<1>3. ssError = "none"
    BY <1>1, <1>2 DEF FramingSteps
<1>4. /\ ssSeen \in Seq(Byte) /\ ssInput \in Seq(Byte) /\ ssPending \in Seq(Byte)
      /\ ssEvents \in Seq(Lines) /\ ssBatch \in Seq(Lines) /\ WellFormed(ssSeen)
    BY <1>1, WellFormedBefore DEF FramingTypes
<1>5. PICK out : out = ssEvents \o ssBatch
    OBVIOUS
<1>6. out \in Seq(Lines) /\ out = ssEvents' \o ssBatch'
    BY <1>2, <1>4, <1>5
<1>7. Sent(ssKind', ssSeen', ssEvents')
    BY <1>2 DEF FramingInv
<1>8. ~ssClosed => Cutting(ssSeen, ssPending, out)
    BY <1>3, <1>5 DEF FramingInv
<1>9. CASE ssKind = "body" /\ ~ssClosed /\ ~IsBlank(ssPending)
    <2>1. ssPending' = ssPending \o <<"n", "n">> /\ ssClosed' = TRUE /\ ssStep' = "drain"
        BY <1>2, <1>9 DEF FinishDrain
    <2>2. ssPending' \in Seq(Byte)
        BY <1>2, <1>4, <2>1, ClosedText
    <2>3. FramingTypes' /\ FramingSteps'
        BY <1>1, <1>2, <1>9, <2>1, <2>2 DEF FramingTypes, FramingSteps
    <2>4. Closing(ssSeen', ssPending', ssEvents' \o ssBatch')
        BY <1>2, <1>4, <1>6, <1>8, <1>9, <2>1, Zenon DEF Closing
    <2> QED BY <1>2, <1>3, <1>7, <2>1, <2>3, <2>4 DEF FramingInv
<1>10. CASE ~(ssKind = "body" /\ ~ssClosed /\ ~IsBlank(ssPending))
    <2>1. ssPending' = ssPending /\ ssClosed' = ssClosed /\ ssStep' = "send"
        BY <1>10 DEF FinishDrain
    <2>2. FramingTypes' /\ FramingSteps'
        BY <1>1, <1>2, <2>1 DEF FramingTypes, FramingSteps
    <2>3. ~HasBoundary(ssPending')
        BY <1>2, <2>1
    <2>4. ~ssClosed' => Cutting(ssSeen', ssPending', ssEvents' \o ssBatch')
        BY <1>2, <1>6, <1>8, <2>1, Zenon
    <2>5. ssClosed' => ssEvents' \o ssBatch' = MeaningAtEnd(ssSeen')
        <3>1. ~Closing(ssSeen, ssPending, out)
            BY <1>2, ClosedText DEF Closing
        <3>2. ssClosed => out = MeaningAtEnd(ssSeen)
            BY <1>3, <1>5, <3>1 DEF FramingInv
        <3> QED BY <1>2, <1>6, <2>1, <3>2
    <2>6. ~ssClosed' /\ ssKind' = "body" => ssEvents' \o ssBatch' = MeaningAtEnd(ssSeen')
        <3>1. SUFFICES ASSUME ~ssClosed, ssKind = "body"
                       PROVE  out = MeaningAtEnd(ssSeen)
            BY <1>2, <1>6, <2>1
        <3>2. IsBlank(ssPending)
            BY <1>10, <3>1
        <3>3. WithLine(LinesOf(ssPending).data, LinesOf(ssPending).line) = <<>>
            BY <1>4, <3>2, BlankText
        <3>4. MeaningAtEnd(ssSeen) = out \o EventOf(<<>>)
            BY <1>2, <1>4, <1>8, <3>1, <3>3, NothingToCut
        <3>5. EventOf(<<>>) = <<>>
            BY DEF EventOf
        <3>6. out \in Seq(Lines)
            BY <1>6
        <3>7. out \o <<>> = out
            BY <3>6
        <3> QED BY <3>4, <3>5, <3>7
    <2> QED BY <1>2, <1>3, <1>7, <2>1, <2>2, <2>3, <2>4, <2>5, <2>6 DEF FramingInv
<1> QED BY <1>9, <1>10

\* Sending moves an event from those cut to those sent.
LEMMA SendEventStep ==
    ASSUME FramingInv, SendEvent
    PROVE  FramingInv'
<1>1. FramingTypes /\ FramingSteps
    BY DEF FramingInv
<1>2. ssStep = "send" /\ ssKind' = ssKind /\ ssInput' = ssInput /\ ssSeen' = ssSeen
    BY DEF SendEvent
<1>3. ssError = "none"
    BY <1>1, <1>2 DEF FramingSteps
<1>4. /\ ssSeen \in Seq(Byte) /\ ssInput \in Seq(Byte) /\ ssPending \in Seq(Byte)
      /\ ssEvents \in Seq(Lines) /\ ssBatch \in Seq(Lines) /\ WellFormed(ssSeen \o ssInput)
      /\ ssKind \in {"stream", "body"}
    BY <1>1 DEF FramingTypes
<1>5. /\ ~HasBoundary(ssPending) \/ ssClosed
      /\ ~ssClosed => Cutting(ssSeen, ssPending, ssEvents \o ssBatch)
      /\ ssClosed => ~HasBoundary(ssPending) /\ ssEvents \o ssBatch = MeaningAtEnd(ssSeen)
      /\ ~ssClosed /\ ssKind = "body" => ssEvents \o ssBatch = MeaningAtEnd(ssSeen)
      /\ Sent(ssKind, ssSeen, ssEvents)
    BY <1>2, <1>3 DEF FramingInv
<1>6. ASSUME ssPending' = ssPending, ssClosed' = ssClosed, ssError' = ssError,
             FramingTypes', FramingSteps', ssStep' # "drain",
             ssEvents' \o ssBatch' = ssEvents \o ssBatch, Sent(ssKind', ssSeen', ssEvents')
      PROVE  FramingInv'
    <2>1. /\ ~HasBoundary(ssPending')
          /\ ~ssClosed' => Cutting(ssSeen', ssPending', ssEvents' \o ssBatch')
          /\ ssClosed' => ssEvents' \o ssBatch' = MeaningAtEnd(ssSeen')
          /\ ~ssClosed' /\ ssKind' = "body" => ssEvents' \o ssBatch' = MeaningAtEnd(ssSeen')
        BY <1>2, <1>5, <1>6, Zenon
    <2> QED BY <1>6, <2>1, Zenon DEF FramingInv
<1>7. CASE /\ ssBatch = <<>> /\ ssStep' = (IF ssKind = "stream" THEN "read" ELSE "done")
           /\ UNCHANGED <<ssPending, ssClosed, ssBatch, ssEvents, ssError>>
    <2>1. ssStep' \in {"read", "done"} /\ (ssKind = "body" => ssStep' = "done")
        BY <1>7
    <2>2. FramingTypes' /\ FramingSteps'
        BY <1>1, <1>2, <1>3, <1>7, <2>1 DEF FramingTypes, FramingSteps
    <2>3. Sent(ssKind', ssSeen', ssEvents') /\ ssEvents' \o ssBatch' = ssEvents \o ssBatch
        BY <1>2, <1>5, <1>7
    <2> QED BY <1>6, <1>7, <2>1, <2>2, <2>3
<1>8. CASE /\ ssBatch /= <<>> /\ ssEvents' = Append(ssEvents, Head(ssBatch)) /\ ssBatch' = Tail(ssBatch)
           /\ UNCHANGED <<ssPending, ssClosed, ssStep, ssError>>
    <2>1. PICK x, y : x = Head(ssBatch) /\ y = Tail(ssBatch)
        OBVIOUS
    <2>2. x \in Lines /\ y \in Seq(Lines) /\ ssBatch = <<x>> \o y
        BY <1>4, <1>8, <2>1
    <2>3. Append(ssEvents, x) = ssEvents \o <<x>> /\ <<x>> \in Seq(Lines)
        BY <1>4, <2>2
    <2>4. (ssEvents \o <<x>>) \o y = ssEvents \o (<<x>> \o y)
        BY <1>4, <2>2, <2>3, JoinAssoc
    <2>5. /\ ssEvents' \o ssBatch' = ssEvents \o ssBatch
          /\ ssEvents' \in Seq(Lines) /\ ssBatch' \in Seq(Lines)
        <3>1. ssEvents' = ssEvents \o <<x>> /\ ssBatch' = y
            BY <1>8, <2>1, <2>3
        <3>2. ssEvents \o <<x>> \in Seq(Lines)
            BY <1>4, <2>3
        <3> QED BY <2>2, <2>4, <3>1, <3>2, Zenon
    <2>6. FramingTypes' /\ FramingSteps'
        BY <1>1, <1>2, <1>8, <2>5 DEF FramingTypes, FramingSteps
    <2>7. Sent(ssKind', ssSeen', ssEvents')
        <3>1. CASE ~ssClosed
            <4>1. Cutting(ssSeen, ssPending, ssEvents' \o ssBatch')
                BY <1>5, <2>5, <3>1
            <4> QED BY <1>2, <1>4, <2>5, <4>1, CuttingSends
        <3>2. CASE ssClosed
            <4>1. ssEvents' \o ssBatch' = MeaningAtEnd(ssSeen) /\ ssKind = "body"
                BY <1>1, <1>4, <1>5, <2>5, <3>2 DEF FramingSteps
            <4>2. Begins(ssEvents', MeaningAtEnd(ssSeen))
                BY <2>5, <4>1, Zenon DEF Begins
            <4> QED BY <1>2, <4>1, <4>2 DEF Sent
        <3> QED BY <3>1, <3>2
    <2> QED BY <1>2, <1>6, <1>8, <2>5, <2>6, <2>7
<1>9. CASE GiveUp("stdout_closed")
    <2>1. "stdout_closed" # "none"
        OBVIOUS
    <2> QED BY <1>2, <1>4, <1>5, <1>9, <2>1, GivingUp
<1> QED BY <1>7, <1>8, <1>9 DEF SendEvent

\* Before the first byte nothing is cut and nothing is pending.
LEMMA FramingStarts ==
    ASSUME FramingInit
    PROVE  FramingInv
<1>1. /\ ssKind \in {"stream", "body"} /\ ssInput \in SseInputs
      /\ ssSeen = <<>> /\ ssPending = <<>> /\ ssClosed = FALSE
      /\ ssBatch = <<>> /\ ssEvents = <<>> /\ ssStep = "read" /\ ssError = "none"
    BY DEF FramingInit
<1>2. ssInput \in Seq(Byte) /\ WellFormed(ssInput)
    BY <1>1, FramingAssumption
<1>3. <<>> \o ssInput = ssInput /\ <<>> \in Seq(Byte) /\ <<>> \in Seq(Lines)
    BY <1>2
<1>4. FramingTypes /\ FramingSteps
    BY <1>1, <1>2, <1>3 DEF FramingTypes, FramingSteps
<1>5. /\ AtEventStart(<<>>) /\ Meaning(<<>>).events = <<>>
      /\ <<>> \o ssPending = <<>> /\ ssEvents \o ssBatch = <<>>
    BY <1>1, MeaningNone DEF AtEventStart
<1>6. Cutting(ssSeen, ssPending, ssEvents \o ssBatch)
    BY <1>1, <1>3, <1>5, Zenon DEF Cutting
<1>7. Cutting(ssSeen, ssPending, <<>> \o <<>>)
    BY <1>1, <1>6
<1>8. Sent(ssKind, ssSeen, ssEvents)
    BY <1>1, <1>3, <1>7, CuttingSends
<1>9. ~HasBoundary(ssPending)
    <2>1. Len(ssPending) < 2 /\ ssPending \in Seq(Byte)
        BY <1>1
    <2> QED BY <2>1, ShortHasNone
<1> QED BY <1>1, <1>4, <1>6, <1>8, <1>9 DEF FramingInv

\* The invariant says what FramingIsFaithful does.
LEMMA FramingInvSuffices ==
    ASSUME FramingInv
    PROVE  FramingIsFaithful
<1>1. /\ ssSeen \in Seq(Byte) /\ ssInput \in Seq(Byte) /\ ssPending \in Seq(Byte)
      /\ ssEvents \in Seq(Lines) /\ WellFormed(ssSeen)
    BY WellFormedBefore DEF FramingInv, FramingTypes
<1>2. ssStep \in {"read", "done"} => ssEvents \o ssBatch = ssEvents
    <2>1. ssStep \in {"read", "done"} => ssBatch = <<>>
        BY DEF FramingInv, FramingSteps
    <2> QED BY <1>1, <2>1
<1>3. ChunkingIsInvisible
    <2> SUFFICES ASSUME ssKind = "stream"
                 PROVE  /\ IsPrefix(ssEvents, Meaning(ssSeen).events)
                        /\ ssStep \in {"read", "done"} /\ ssError = "none" => ssEvents = Meaning(ssSeen).events
        BY Zenon DEF ChunkingIsInvisible
    <2>1. Begins(ssEvents, Meaning(ssSeen).events)
        BY DEF FramingInv, Sent
    <2>2. IsPrefix(ssEvents, Meaning(ssSeen).events)
        BY <1>1, <2>1, BeginsIsPrefix
    <2>3. ASSUME ssStep \in {"read", "done"}, ssError = "none"
          PROVE  ssEvents = Meaning(ssSeen).events
        <3>1. ~ssClosed /\ ssStep # "drain"
            BY <2>3 DEF FramingInv, FramingSteps
        <3>2. Cutting(ssSeen, ssPending, ssEvents \o ssBatch) /\ ~HasBoundary(ssPending)
            BY <2>3, <3>1 DEF FramingInv
        <3>3. Meaning(ssSeen).events = ssEvents \o ssBatch
            BY <1>1, <3>2, NothingToCut
        <3> QED BY <1>2, <2>3, <3>3
    <2> QED BY <2>2, <2>3
<1>4. BodyIsReadToItsEnd
    <2> SUFFICES ASSUME ssKind = "body"
                 PROVE  /\ IsPrefix(ssEvents, MeaningAtEnd(ssSeen))
                        /\ ssStep = "done" /\ ssError = "none" => ssEvents = MeaningAtEnd(ssSeen)
        BY Zenon DEF BodyIsReadToItsEnd
    <2>1. Begins(ssEvents, MeaningAtEnd(ssSeen))
        BY DEF FramingInv, Sent
    <2>2. IsPrefix(ssEvents, MeaningAtEnd(ssSeen))
        BY <1>1, <2>1, BeginsIsPrefix
    <2>3. ASSUME ssStep = "done", ssError = "none"
          PROVE  ssEvents = MeaningAtEnd(ssSeen)
        <3>1. ssEvents \o ssBatch = MeaningAtEnd(ssSeen)
            BY <2>3 DEF FramingInv
        <3> QED BY <1>2, <2>3, <3>1
    <2> QED BY <2>2, <2>3
<1> QED BY <1>3, <1>4 DEF FramingIsFaithful

\* Whatever the server sends and however it is cut into chunks, of any sizes
\* and with any limits on a frame and on a body, the events that the bridge
\* forwards are those that the bytes contain.
THEOREM FramingCutsEvents == FramingSpec => []FramingIsFaithful
<1>1. FramingInit => FramingInv
    BY FramingStarts
<1>2. FramingInv /\ [FramingNext]_framingVars => FramingInv'
    <2> SUFFICES ASSUME FramingInv, [FramingNext]_framingVars
                 PROVE  FramingInv'
        OBVIOUS
    <2>1. CASE \E k \in 1..Len(ssInput) : TakeChunk(k)
        BY <2>1, TakeChunkStep
    <2>2. CASE EndStream
        BY <2>2, EndStreamStep
    <2>3. CASE TakeBody
        BY <2>3, TakeBodyStep
    <2>4. CASE DrainEvent
        BY <2>4, DrainEventStep
    <2>5. CASE FinishDrain
        BY <2>5, FinishDrainStep
    <2>6. CASE SendEvent
        BY <2>6, SendEventStep
    <2>7. CASE UNCHANGED framingVars
        <3>1. FramingTypes' /\ FramingSteps'
            BY <2>7 DEF FramingInv, FramingTypes, FramingSteps, framingVars
        <3> QED BY <2>7, <3>1 DEF FramingInv, framingVars
    <2> QED BY <2>1, <2>2, <2>3, <2>4, <2>5, <2>6, <2>7 DEF FramingNext
<1>3. FramingInv => FramingIsFaithful
    BY FramingInvSuffices
<1> QED BY <1>1, <1>2, <1>3, PTL DEF FramingSpec
=============================================================================
