----------------------------- MODULE McpGateway -----------------------------
(***************************************************************************)
(* The MCP gateway: requests authenticated with a capability, the sessions *)
(* of the MCP library, the table that binds a session to the capability it *)
(* was initialised with, and the resource subscriptions.  A request takes  *)
(* each lock on its own, so requests interleave between any two of them.   *)
(***************************************************************************)
EXTENDS Integers, FiniteSets, Functions

CONSTANTS
    McpRequests,    \* requests in flight at a time
    McpTokens,      \* capabilities that authenticate
    TokenSeat,      \* token -> its <<game, seat>>
    SessionIds,     \* bound: session ids the library will draw, 1..n
    NoSession,
    MaxMcpSessions  \* MAX_MCP_SESSIONS

ASSUME GatewayAssumption ==
    /\ DOMAIN TokenSeat = McpTokens /\ SessionIds \subseteq Nat
    /\ NoSession \notin SessionIds /\ NoSession \notin McpTokens
    /\ MaxMcpSessions \in Nat \ {0} /\ IsFiniteSet(McpRequests)

VARIABLES
    mgLive,      \* the library's sessions
    mgBindings,  \* session -> the token it is bound to
    mgSubs,      \* session -> [game, uris]
    mgRequest,   \* the requests being handled
    mgOwner,     \* session -> the token that initialised it
    mgKnown      \* sessions whose initialisation was answered

gatewayVars == <<mgLive, mgBindings, mgSubs, mgRequest, mgOwner, mgKnown>>

GameOf(t) == TokenSeat[t][1]
SeatGames == {GameOf(t) : t \in McpTokens}
Uris == SeatGames \X {"public", "ruleset"}   \* a resource that changes and one that does not
Subscribable(uri) == uri[2] = "public"

NoRequest == [at |-> "idle", token |-> CHOOSE t \in McpTokens : TRUE, session |-> NoSession, live |-> {}]

At(r, where) == mgRequest[r].at = where
Move(r, where) == mgRequest' = [mgRequest EXCEPT ![r].at = where]
Done(r) == mgRequest' = [mgRequest EXCEPT ![r] = NoRequest]
WithoutSession(f, s) == Restrict(f, DOMAIN f \ {s})

-----------------------------------------------------------------------------
(* McpGateway::handle *)

\* A request has authenticated; only an initialisation names no session.
\* remove_closed_bindings first copies the live sessions,
Arrive(r, t, s) ==
    /\ At(r, "idle") /\ s \in mgKnown \cup {NoSession}
    /\ mgRequest' = [mgRequest EXCEPT ![r] = [at |-> "retain", token |-> t, session |-> s, live |-> mgLive]]
    /\ UNCHANGED <<mgLive, mgBindings, mgSubs, mgOwner, mgKnown>>

\* then drops the bindings of the others,
RetainBindings(r) ==
    /\ At(r, "retain") /\ Move(r, "retain_subscriptions")
    /\ mgBindings' = Restrict(mgBindings, DOMAIN mgBindings \cap mgRequest[r].live)
    /\ UNCHANGED <<mgLive, mgSubs, mgOwner, mgKnown>>

\* and their subscriptions.
RetainSubscriptions(r) ==
    /\ At(r, "retain_subscriptions")
    /\ mgRequest' = [mgRequest EXCEPT ![r].at = "check", ![r].live = {}]
    /\ mgSubs' = Restrict(mgSubs, DOMAIN mgSubs \cap mgRequest[r].live)
    /\ UNCHANGED <<mgLive, mgBindings, mgOwner, mgKnown>>

\* Mutant: a session that is bound will do.
BoundToAnyone(s, t) == s \in DOMAIN mgBindings

\* The binding is of this game, seat and token.
BoundTo(s, t) == s \in DOMAIN mgBindings /\ mgBindings[s] = t

Room == Cardinality(DOMAIN mgBindings) < MaxMcpSessions

\* session_authority_mismatch, session_limit, or on to the library.
CheckSession(r) ==
    LET q == mgRequest[r]
        pass == IF q.session = NoSession THEN Room ELSE BoundTo(q.session, q.token)
    IN /\ At(r, "check")
       /\ IF pass THEN Move(r, "serve") ELSE Done(r)
       /\ UNCHANGED <<mgLive, mgBindings, mgSubs, mgOwner, mgKnown>>

\* The library opens a session for an initialisation,
Initialize(r) ==
    LET drawn == {s \in SessionIds : mgOwner[s] = NoSession}
    IN /\ At(r, "serve") /\ mgRequest[r].session = NoSession /\ drawn /= {}
       /\ \E s \in drawn :
            /\ \A other \in drawn : s <= other
            /\ mgLive' = mgLive \cup {s} /\ mgOwner' = [mgOwner EXCEPT ![s] = mgRequest[r].token]
            /\ mgRequest' = [mgRequest EXCEPT ![r].at = "bind", ![r].session = s]
       /\ UNCHANGED <<mgBindings, mgSubs, mgKnown>>

\* closes the session,
Delete(r) ==
    /\ At(r, "serve") /\ mgRequest[r].session /= NoSession /\ Move(r, "unbind")
    /\ mgLive' = mgLive \ {mgRequest[r].session}
    /\ UNCHANGED <<mgBindings, mgSubs, mgOwner, mgKnown>>

\* or passes the call to the session's worker; a closed session is not found.
Forward(r) ==
    LET q == mgRequest[r]
    IN /\ At(r, "serve") /\ q.session /= NoSession
       /\ IF q.session \in mgLive
          THEN Move(r, "work")
          ELSE Done(r)
       /\ UNCHANGED <<mgLive, mgBindings, mgSubs, mgOwner, mgKnown>>

\* The answer to an initialisation carries the session id.
BindSession(r) ==
    LET q == mgRequest[r]
    IN /\ At(r, "bind") /\ Done(r)
       /\ mgBindings' = [s \in DOMAIN mgBindings \cup {q.session} |->
                            IF s = q.session THEN q.token ELSE mgBindings[s]]
       /\ mgKnown' = mgKnown \cup {q.session}
       /\ UNCHANGED <<mgLive, mgSubs, mgOwner>>

Unbind(r) ==
    /\ At(r, "unbind") /\ Move(r, "unsubscribe")
    /\ mgBindings' = WithoutSession(mgBindings, mgRequest[r].session)
    /\ UNCHANGED <<mgLive, mgSubs, mgOwner, mgKnown>>

RemoveSession(r) ==
    /\ At(r, "unsubscribe") /\ Done(r)
    /\ mgSubs' = WithoutSession(mgSubs, mgRequest[r].session)
    /\ UNCHANGED <<mgLive, mgBindings, mgOwner, mgKnown>>

\* The client leaves or the request times out at an await; what the worker
\* has been given it finishes.
DropRequest(r) ==
    /\ ~At(r, "idle") /\ ~At(r, "work") /\ Done(r)
    /\ UNCHANGED <<mgLive, mgBindings, mgSubs, mgOwner, mgKnown>>

\* The library closes an idle session.
Expire(s) ==
    /\ s \in mgLive /\ mgLive' = mgLive \ {s}
    /\ UNCHANGED <<mgBindings, mgSubs, mgRequest, mgOwner, mgKnown>>

-----------------------------------------------------------------------------
(* McpResourceSubscriptions; a worker's call may outlive its session *)

\* authorize_uri: the resource is of the capability's game.
AuthorizeUri(uri, t) == uri[1] = GameOf(t)

\* A subscription to what may not be subscribed to is an error.
Subscribe(r, uri) ==
    LET q == mgRequest[r]
        now == IF q.session \in DOMAIN mgSubs THEN mgSubs[q.session]
               ELSE [game |-> GameOf(q.token), uris |-> {}]
    IN /\ At(r, "work") /\ AuthorizeUri(uri, q.token) /\ Subscribable(uri) /\ Done(r)
       /\ mgSubs' = [s \in DOMAIN mgSubs \cup {q.session} |->
                        IF s = q.session THEN [now EXCEPT !.uris = @ \cup {uri}] ELSE mgSubs[s]]
       /\ UNCHANGED <<mgLive, mgBindings, mgOwner, mgKnown>>

\* With its last resource the session's entry goes.
Unsubscribe(r, uri) ==
    LET q == mgRequest[r]
    IN /\ At(r, "work") /\ AuthorizeUri(uri, q.token) /\ Subscribable(uri) /\ Done(r)
       /\ q.session \in DOMAIN mgSubs
       /\ mgSubs' = IF mgSubs[q.session].uris \subseteq {uri} THEN WithoutSession(mgSubs, q.session)
                    ELSE [mgSubs EXCEPT ![q.session].uris = @ \ {uri}]
       /\ UNCHANGED <<mgLive, mgBindings, mgOwner, mgKnown>>

\* Any other call, or one that is refused.
OtherCall(r) ==
    /\ At(r, "work") /\ Done(r)
    /\ UNCHANGED <<mgLive, mgBindings, mgSubs, mgOwner, mgKnown>>

\* notify_game_updated: the sessions told of a transition of the game.
Targets(g) == {s \in DOMAIN mgSubs : mgSubs[s].game = g}

GatewayInit ==
    /\ mgLive = {} /\ mgBindings = <<>> /\ mgSubs = <<>> /\ mgKnown = {}
    /\ mgRequest = [r \in McpRequests |-> NoRequest] /\ mgOwner = [s \in SessionIds |-> NoSession]

RequestStep(r) ==
    \/ RetainBindings(r) \/ RetainSubscriptions(r) \/ CheckSession(r)
    \/ Initialize(r) \/ Delete(r) \/ Forward(r) \/ BindSession(r) \/ Unbind(r) \/ RemoveSession(r)
    \/ \E uri \in Uris : Subscribe(r, uri) \/ Unsubscribe(r, uri)
    \/ OtherCall(r)

GatewayNext ==
    \/ \E r \in McpRequests :
        \/ \E t \in McpTokens, s \in SessionIds \cup {NoSession} : Arrive(r, t, s)
        \/ RequestStep(r) \/ DropRequest(r)
    \/ \E s \in SessionIds : Expire(s)

GatewaySpec == GatewayInit /\ [][GatewayNext]_gatewayVars

-----------------------------------------------------------------------------
\* McpRequests are in a known place, and only sessions the library opened are
\* live, bound or subscribed.
GatewayTypeOK ==
    /\ \A r \in McpRequests : mgRequest[r].at \in {"idle", "retain", "retain_subscriptions",
                                                "check", "serve", "bind", "work", "unbind", "unsubscribe"}
    /\ mgLive \cup DOMAIN mgBindings \cup DOMAIN mgSubs \subseteq {s \in SessionIds : mgOwner[s] \in McpTokens}

\* A session is never used with another capability than the one that
\* initialised it, though the binding is looked up in one critical section
\* and used after it.
SessionIsNotTransferred ==
    \A r \in McpRequests : mgRequest[r].at \in {"work", "unbind"} => mgRequest[r].token = mgOwner[mgRequest[r].session]

\* A session is only ever subscribed to changing resources of the game it
\* was initialised for, and told of that game's transitions alone.
SubscribedWithinGame ==
    \A s \in DOMAIN mgSubs : /\ mgSubs[s].game = GameOf(mgOwner[s])
                             /\ mgSubs[s].uris \subseteq {GameOf(mgOwner[s])} \X {"public"}

\* A transition of one game sends no update to a session of another.
ToldOfOneGame == \A g \in SeatGames : \A s \in Targets(g) : GameOf(mgOwner[s]) = g

\* The limit is checked before the library opens the session: no more than
\* the requests in flight beside the last admitted one get past it.
LimitPassedByRequestsOnly ==
    LET opening == {r \in McpRequests : \/ At(r, "serve") /\ mgRequest[r].session = NoSession
                                     \/ At(r, "bind")}
    IN Cardinality(DOMAIN mgBindings) + Cardinality(opening) <= MaxMcpSessions + Cardinality(McpRequests) - 1

\* The session id an initialisation returned can be used until the session
\* is closed, with one exception: a request that copied the live sessions
\* before this one was opened, and sweeps after it was bound, takes the
\* binding of a live session away, and its client is refused from then on.
BindingLostOnlyToStaleSweep ==
    [][\A s \in mgLive' \cap DOMAIN mgBindings : s \notin DOMAIN mgBindings' =>
            \E r \in McpRequests : At(r, "retain") /\ s \notin mgRequest[r].live]_gatewayVars

\* Sessions stay with their capability and game, the limit is passed only by
\* requests in flight, and a binding is lost only to a stale sweep.
GatewaySafety ==
    /\ [](GatewayTypeOK /\ SessionIsNotTransferred /\ SubscribedWithinGame)
    /\ [](ToldOfOneGame /\ LimitPassedByRequestsOnly)
    /\ BindingLostOnlyToStaleSweep
=============================================================================
