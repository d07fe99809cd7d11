------------------------------ MODULE LiveFeed ------------------------------
(***************************************************************************)
(* The WebSocket feed of one game: transitions committed by several        *)
(* handlers, the hub that broadcasts their versions, and the sockets that  *)
(* pass them on.  A marker only says that a newer version exists; a client *)
(* that has read version v reconnects with after_version = v.              *)
(***************************************************************************)
EXTENDS Integers, Sequences, FiniteSets, FiniteSetsExt, SequencesExt

CONSTANTS
    Sockets,         \* clients that connect, leave and connect again
    WebsocketSlots,  \* MAX_WEBSOCKETS
    Buffer,          \* WEBSOCKET_BUFFER
    LastGameVersion  \* bound: transitions of the game

ASSUME FeedAssumption ==
    /\ Buffer \in Nat \ {0} /\ WebsocketSlots \in Nat \ {0}
    /\ LastGameVersion \in Nat /\ IsFiniteSet(Sockets)

VARIABLES
    lfVersion,    \* the authoritative version
    lfPending,    \* versions whose handler has committed and not yet published
    lfPublished,  \* versions that were ever published
    lfSlots,      \* permits of the semaphore
    lfSocket      \* per client, its connection

feedVars == <<lfVersion, lfPending, lfPublished, lfSlots, lfSocket>>

Closed == [at |-> "closed", queue |-> <<>>, lagged |-> FALSE, current |-> 0, last |-> 0]

SetSocket(s, conn) == lfSocket' = [lfSocket EXCEPT ![s] = conn]

\* Mutant: a receiver is made only when the connection is accepted.
SubscribedLate(s) == lfSocket[s].at \in {"first", "open", "rereading"}

\* The connection holds a receiver of the game's channel.
Subscribed(s) == lfSocket[s].at /= "closed"

\* broadcast::Sender::send to one receiver: the oldest value makes room.
Enqueue(conn, v) ==
    IF Len(conn.queue) = Buffer
    THEN [conn EXCEPT !.queue = Append(Tail(@), v), !.lagged = TRUE]
    ELSE [conn EXCEPT !.queue = Append(@, v)]

\* NotificationHub::publish.
Broadcast(v) ==
    /\ lfSocket' = [s \in Sockets |-> IF Subscribed(s) THEN Enqueue(lfSocket[s], v) ELSE lfSocket[s]]
    /\ lfPublished' = lfPublished \cup {v}

-----------------------------------------------------------------------------
(* The handlers *)

\* A transition committed by game_action, the deadline worker or a match
\* runner, each of which publishes it afterwards.
CommitTransition ==
    /\ lfVersion < LastGameVersion
    /\ lfVersion' = lfVersion + 1 /\ lfPending' = lfPending \cup {lfVersion + 1}
    /\ UNCHANGED <<lfPublished, lfSlots, lfSocket>>

\* A transition committed through an MCP tool, or forced by the last invalid
\* attempt and answered as an error, which no socket is told of.
CommitUnannounced ==
    /\ lfVersion < LastGameVersion
    /\ lfVersion' = lfVersion + 1
    /\ UNCHANGED <<lfPending, lfPublished, lfSlots, lfSocket>>

\* Handlers run side by side: their publications come in any order.
Publish(v) ==
    /\ v \in lfPending /\ Broadcast(v)
    /\ lfPending' = lfPending \ {v}
    /\ UNCHANGED <<lfVersion, lfSlots>>

\* A retried action answers from its record and publishes its version again.
Republish(v) ==
    /\ v \in lfPublished /\ Broadcast(v)
    /\ UNCHANGED <<lfVersion, lfPending, lfSlots>>

\* The handler is dropped between commit and publication: the request timed
\* out or its client left, or a later timeout of the batch failed.
DropPublication(v) ==
    /\ v \in lfPending /\ lfPending' = lfPending \ {v}
    /\ UNCHANGED <<lfVersion, lfPublished, lfSlots, lfSocket>>

-----------------------------------------------------------------------------
(* The sockets *)

\* game_events, authenticated: the receiver is made before the version is
\* read.  The client's cursor is a version it was once told, or too large.
Connect(s, after) ==
    /\ lfSocket[s].at = "closed"
    /\ SetSocket(s, [Closed EXCEPT !.at = "reading", !.last = after])
    /\ UNCHANGED <<lfVersion, lfPending, lfPublished, lfSlots>>

\* public_game; a cursor from the future is refused.
ReadVersion(s) ==
    /\ lfSocket[s].at = "reading"
    /\ SetSocket(s, IF lfSocket[s].last > lfVersion THEN Closed
                    ELSE [lfSocket[s] EXCEPT !.at = "accepting", !.current = lfVersion])
    /\ UNCHANGED <<lfVersion, lfPending, lfPublished, lfSlots>>

\* try_acquire_owned, which is the handler's last step.
Accept(s) ==
    /\ lfSocket[s].at = "accepting"
    /\ IF lfSlots = 0
       THEN SetSocket(s, Closed) /\ UNCHANGED lfSlots
       ELSE SetSocket(s, [lfSocket[s] EXCEPT !.at = "first"]) /\ lfSlots' = lfSlots - 1
    /\ UNCHANGED <<lfVersion, lfPending, lfPublished>>

\* websocket_loop: the current version at once, if the client is behind.
SendFirst(s) ==
    /\ lfSocket[s].at = "first"
    /\ SetSocket(s, [lfSocket[s] EXCEPT !.at = "open", !.last = Max({@, lfSocket[s].current})])
    /\ UNCHANGED <<lfVersion, lfPending, lfPublished, lfSlots>>

\* Mutant: a marker that is not newer stays at the head.
ReceiveNewer(s) ==
    LET conn == lfSocket[s]
    IN /\ conn.at = "open" /\ ~conn.lagged /\ conn.queue /= <<>> /\ Head(conn.queue) > conn.last
       /\ SetSocket(s, [conn EXCEPT !.queue = Tail(@), !.last = Head(conn.queue)])
       /\ UNCHANGED <<lfVersion, lfPending, lfPublished, lfSlots>>

\* The next marker; older ones are skipped.
Receive(s) ==
    LET conn == lfSocket[s]
    IN /\ conn.at = "open" /\ ~conn.lagged /\ conn.queue /= <<>>
       /\ SetSocket(s, [conn EXCEPT !.queue = Tail(@), !.last = Max({@, Head(conn.queue)})])
       /\ UNCHANGED <<lfVersion, lfPending, lfPublished, lfSlots>>

\* Lagged: values were lost, so the version is read again.
NoticeLag(s) ==
    /\ lfSocket[s].at = "open" /\ lfSocket[s].lagged
    /\ SetSocket(s, [lfSocket[s] EXCEPT !.at = "rereading", !.lagged = FALSE])
    /\ UNCHANGED <<lfVersion, lfPending, lfPublished, lfSlots>>

Reread(s) ==
    /\ lfSocket[s].at = "rereading"
    /\ SetSocket(s, [lfSocket[s] EXCEPT !.at = "open", !.last = Max({@, lfVersion})])
    /\ UNCHANGED <<lfVersion, lfPending, lfPublished, lfSlots>>

\* The client leaves, a send or the read fails: the loop's locals, the
\* permit and the receiver among them, are dropped.
DropSocket(s) ==
    /\ Subscribed(s) /\ SetSocket(s, Closed)
    /\ lfSlots' = IF lfSocket[s].at \in {"first", "open", "rereading"} THEN lfSlots + 1 ELSE lfSlots
    /\ UNCHANGED <<lfVersion, lfPending, lfPublished>>

FeedInit ==
    /\ lfVersion = 0 /\ lfPending = {} /\ lfPublished = {}
    /\ lfSlots = WebsocketSlots /\ lfSocket = [s \in Sockets |-> Closed]

SocketStep(s) == SendFirst(s) \/ Receive(s) \/ NoticeLag(s) \/ Reread(s)

FeedNext ==
    \/ CommitTransition \/ CommitUnannounced
    \/ \E v \in 1..LastGameVersion : Publish(v) \/ Republish(v) \/ DropPublication(v)
    \/ \E s \in Sockets :
        \/ \E after \in 0..LastGameVersion : Connect(s, after)
        \/ ReadVersion(s) \/ Accept(s) \/ SocketStep(s) \/ DropSocket(s)

FeedSpec == FeedInit /\ [][FeedNext]_feedVars /\ \A s \in Sockets : WF_feedVars(SocketStep(s))

-----------------------------------------------------------------------------
\* Each permit is free or held by one accepted connection, so at most
\* MAX_WEBSOCKETS are open and none of the slots is ever lost.
FeedTypeOK ==
    /\ lfVersion \in 0..LastGameVersion /\ lfPending \subseteq 1..LastGameVersion
    /\ \A s \in Sockets : Len(lfSocket[s].queue) <= Buffer
    /\ lfSlots + Cardinality({s \in Sockets : lfSocket[s].at \in {"first", "open", "rereading"}})
        = WebsocketSlots

\* Nothing that was published is missed: a connection that has caught up
\* with its queue has told its client of the newest version ever published,
\* whether that came before it connected, between its subscription and its
\* read, or while its queue overflowed.
NothingMissed ==
    \A s \in Sockets :
        (lfSocket[s].at = "open" /\ lfSocket[s].queue = <<>> /\ ~lfSocket[s].lagged) =>
            \A v \in lfPublished : v <= lfSocket[s].last

\* No marker names a version the game has not reached, so a client that
\* reads after it always finds at least that version and can use it as its
\* next cursor.
MarkersAreCommitted ==
    \A s \in Sockets : /\ lfSocket[s].at \in {"first", "open", "rereading"} => lfSocket[s].last <= lfVersion
                       /\ \A v \in ToSet(lfSocket[s].queue) : v <= lfVersion

\* The markers of a connection never go back, though handlers publish out of
\* order and retries publish old versions again.
MarkersAdvance ==
    [][\A s \in Sockets : (Subscribed(s) /\ lfSocket'[s].at /= "closed") =>
            lfSocket'[s].last >= lfSocket[s].last]_feedVars

\* Every published version reaches every open connection, or a newer one
\* does, as long as the connection stays open: also when its queue lags.
ToldOrGone ==
    \A s \in Sockets, v \in 1..LastGameVersion :
        (lfSocket[s].at \in {"first", "open", "rereading"} /\ v \in lfPublished)
            ~> (lfSocket[s].at = "closed" \/ lfSocket[s].last >= v)

\* Nothing published is missed, markers are committed versions and advance,
\* and every permit is accounted for.
FeedSafety == [](FeedTypeOK /\ NothingMissed /\ MarkersAreCommitted) /\ MarkersAdvance
=============================================================================
