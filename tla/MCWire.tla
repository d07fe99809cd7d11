------------------------------- MODULE MCWire -------------------------------
(***************************************************************************)
(* What clients are told, for TLC: the deadline worker, the WebSocket      *)
(* feed, the MCP sessions and the MCP bridge.  They share no state here,   *)
(* so a behaviour runs one of them, chosen at the start.                   *)
(***************************************************************************)
EXTENDS GameService, LiveFeed, McpGateway, McpBridge, TLC

CONSTANTS
    Parts,   \* the parts a run checks
    a

VARIABLE part

mcVars == <<part, vars, feedVars, gatewayVars, bridgeVars>>

-----------------------------------------------------------------------------
\* A move that the deadline worker races.
MCOneMove == {[key |-> 1, seat |-> 1, version |-> 0, move |-> "place"]}
\* A seat in each of two games.
MCTokenSeat == "t1" :> <<"g1", 1>> @@ "t2" :> <<"g2", 1>>

-----------------------------------------------------------------------------
MCInit == part \in Parts /\ Init /\ FeedInit /\ GatewayInit /\ BridgeInit

MCNext ==
    /\ UNCHANGED part
    /\ \/ part = "deadlines" /\ Next /\ UNCHANGED <<feedVars, gatewayVars, bridgeVars>>
       \/ part = "feed" /\ FeedNext /\ UNCHANGED <<vars, gatewayVars, bridgeVars>>
       \/ part = "gateway" /\ GatewayNext /\ UNCHANGED <<vars, feedVars, bridgeVars>>
       \/ part = "bridge" /\ BridgeNext /\ UNCHANGED <<vars, feedVars, gatewayVars>>

(***************************************************************************)
(* The deadline worker runs for ever; every socket loop goes on; the       *)
(* bridge's tasks are polled.  Nothing is assumed of clients, of the       *)
(* network or of crashes.                                                  *)
(***************************************************************************)
MCFairness ==
    /\ WF_vars(part = "deadlines" /\ Tick)
    /\ WF_vars(part = "deadlines" /\ resolve_due_timeouts)
    /\ WF_vars(part = "deadlines" /\ Progress(Timer))
    /\ \A s \in Sockets : WF_feedVars(part = "feed" /\ SocketStep(s))
    /\ WF_bridgeVars(part = "bridge" /\ MainStep)
    /\ WF_bridgeVars(part = "bridge" /\ SsePass)
    /\ WF_bridgeVars(part = "bridge" /\ SseCancelled)
    /\ WF_bridgeVars(part = "bridge" /\ WriteFrame)

MCSpec == MCInit /\ [][MCNext]_mcVars /\ MCFairness
=============================================================================
