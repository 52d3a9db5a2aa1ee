---------------------------- MODULE MCLobbyLive ----------------------------
(***************************************************************************)
(* Fair instances of the hub, of the tasks behind one connection and of a  *)
(* client.  The other two keep to themselves, so a behaviour is one of     *)
(*   joins  : two players who join each other's lobbies, no rendezvous,    *)
(*   pings  : one player at a time, two connections and two nonces,        *)
(*   tasks  : a connection that is used again and again,                   *)
(*   client : a client and its callers.                                    *)
(***************************************************************************)
EXTENDS Hub, Sequences

CONSTANTS Conn, Home, Callers

VARIABLES
    focus,
    oSessions, oByIp, oHub, oReader, oWriter, oQueue, oClient,
    cLink, cWaiting, cInbox, cAsked, cBound, cTold, cPolled

O == INSTANCE Outbound WITH
        Conns <- {Conn}, Addrs <- {Home}, AddrOf <- [c \in {Conn} |-> Home],
        Capacity <- 2, MaxConnections <- 1, MaxPerIp <- 1,
        sessions <- oSessions, byIp <- oByIp, hub <- oHub, reader <- oReader,
        writer <- oWriter, queue <- oQueue, client <- oClient

C == INSTANCE LobbyClient WITH
        LastDelay <- 1,
        link <- cLink, waiting <- cWaiting, inbox <- cInbox,
        asked <- cAsked, bound <- cBound, told <- cTold, polled <- cPolled

taskVars   == <<oSessions, oByIp, oHub, oReader, oWriter, oQueue, oClient>>
clientVars == <<cLink, cWaiting, cInbox, cAsked, cBound, cTold, cPolled>>

LiveInit == Init /\ O!OutboundInit /\ C!ClientInit /\ focus \in {"joins", "pings", "tasks", "client"}

Joins == \A s \in DOMAIN sessions : sessions[s].nonce = None
Pings == Cardinality(DOMAIN byAccount) <= 1

LiveNext ==
    /\ \/ focus = "joins" /\ Next /\ Joins' /\ UNCHANGED <<taskVars, clientVars>>
       \/ focus = "pings" /\ Next /\ Pings' /\ UNCHANGED <<taskVars, clientVars>>
       \/ focus = "tasks" /\ O!OutboundNext /\ UNCHANGED <<hubVars, clientVars>>
       \/ focus = "client" /\ C!ClientNext /\ UNCHANGED <<hubVars, taskVars>>
    /\ UNCHANGED focus

LiveSpec ==
    /\ LiveInit
    /\ [][LiveNext]_<<hubVars, taskVars, clientVars, focus>>
    /\ Fairness /\ O!OutboundFairness /\ C!ClientFairness

-----------------------------------------------------------------------------
\* What is over, ends: the tasks of a connection without a session (ws.rs).
TasksEnd == O!ConnectionEnds /\ O!WriterEnds

\* Nothing the client awaits hangs: no call and no attempt (lobby_client.gd).
NothingHangs == C!EveryCallReturns /\ C!AttemptEnds
=============================================================================
