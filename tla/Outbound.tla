------------------------------ MODULE Outbound ------------------------------
(***************************************************************************)
(* The tasks of a websocket connection (lobby-server/src/ws.rs): a reader, *)
(* a writer, and between the hub (session.rs) and the writer a bounded     *)
(* queue that is only ever tried, never waited for.                        *)
(*                                                                         *)
(* The hub's mutex is held over a whole order (hub), but the writers, the  *)
(* clients and the network go on while it is.                              *)
(***************************************************************************)
EXTENDS Naturals, Sequences, FiniteSets

CONSTANTS
    Conns,           \* connections, each reused once its tasks have ended
    Addrs, AddrOf,   \* the address each of them comes from
    Capacity,        \* OUTBOUND_QUEUE
    MaxConnections,  \* config.max_connections
    MaxPerIp         \* config.max_connections_per_ip

ASSUME OutboundAssumption ==
    /\ IsFiniteSet(Conns)
    /\ AddrOf \in [Conns -> Addrs]
    /\ {Capacity, MaxConnections, MaxPerIp} \subseteq Nat

VARIABLES
    sessions,  \* Hub.sessions
    byIp,      \* Hub.by_ip, zero for an absent address
    hub,       \* the calls the holder of the hub's mutex still makes, and on whom
    reader,    \* where handle_socket is: in its loop, behind it, waiting for the writer
    writer,    \* the frame the writer is sending, or whether it waits or has ended
    queue,     \* the channel between them
    client     \* reading its socket, or not, or without one

hubVars      == <<sessions, byIp, hub>>
outboundVars == <<hubVars, reader, writer, queue, client>>

-----------------------------------------------------------------------------
Frames == {"text", "close"}

\* send tries its text, and when that is refused a close frame of its own;
\* broadcast_registered tries and forgets.
Tries == {"text", "cast", "close", "remove"}

\* What handlers, sweeper and owner do to a session in one hub section: answer or
\* push, broadcast, close, say why and close, kick.
Orders == {<<"text">>, <<"cast">>, <<"close">>, <<"text", "close">>, <<"text", "close", "remove">>}

HubFree == hub = <<>>

Room(c) == writer[c] # "ended" /\ Len(queue[c]) < Capacity

\* try_send.
Offer(c, frame) ==
    IF Room(c) THEN queue' = [queue EXCEPT ![c] = Append(@, frame)] ELSE UNCHANGED queue

-----------------------------------------------------------------------------
(* The hub. *)

\* add_session, and the two tasks.
Connect(c) ==
    /\ HubFree
    /\ reader[c] = "none" /\ writer[c] \in {"none", "ended"}
    /\ Cardinality(sessions) < MaxConnections
    /\ byIp[AddrOf[c]] < MaxPerIp
    /\ sessions' = sessions \cup {c}
    /\ byIp' = [byIp EXCEPT ![AddrOf[c]] = @ + 1]
    /\ reader' = [reader EXCEPT ![c] = "loop"]
    /\ writer' = [writer EXCEPT ![c] = "recv"]
    /\ queue' = [queue EXCEPT ![c] = <<>>]
    /\ client' = [client EXCEPT ![c] = "reading"]
    /\ UNCHANGED hub

Take(c, order) == hub' = [i \in DOMAIN order |-> [to |-> c, call |-> order[i]]]

\* The lock is taken; c may have gone by then, and then nothing is done to it.
Order(c, order) ==
    /\ HubFree
    /\ c \in sessions
    /\ Take(c, order)
    /\ UNCHANGED <<sessions, byIp, reader, writer, queue, client>>

Less(n) == IF n = 0 THEN 0 ELSE n - 1

\* Mutant of Removed: the count goes down before the session is looked up.
RemovedTwice(c) ==
    /\ sessions' = sessions \ {c}
    /\ byIp' = [byIp EXCEPT ![AddrOf[c]] = Less(@)]

\* remove_session.
Removed(c) ==
    IF c \in sessions
    THEN /\ sessions' = sessions \ {c}
         /\ byIp' = [byIp EXCEPT ![AddrOf[c]] = Less(@)]
    ELSE UNCHANGED <<sessions, byIp>>

\* The queue takes no text.
RefusesText ==
    ~HubFree /\ LET next == Head(hub) IN next.call = "text" /\ next.to \in sessions /\ ~Room(next.to)

\* The next call on the session, by whoever holds the mutex.
HubStep ==
    /\ ~HubFree
    /\ LET c == Head(hub).to
           what == Head(hub).call
       IN  /\ hub' = IF RefusesText THEN [hub EXCEPT ![1].call = "close"] ELSE Tail(hub)
           /\ IF what = "remove" THEN Removed(c) ELSE UNCHANGED <<sessions, byIp>>
           /\ IF c \in sessions /\ what # "remove"
              THEN Offer(c, IF what = "close" THEN "close" ELSE "text")
              ELSE UNCHANGED queue
    /\ UNCHANGED <<reader, writer, client>>

-----------------------------------------------------------------------------
(* The reader. *)

InLoop(c) == reader[c] = "loop" /\ (~HubFree => Head(hub).to # c)

Leave(c) == reader' = [reader EXCEPT ![c] = "leaving"]

\* A flood, too many malformed frames, another protocol: closed and left.
Refuse(c) ==
    /\ InLoop(c) /\ client[c] # "gone"
    /\ HubFree
    /\ \E order \in {<<"close">>, <<"text", "close">>} : Take(c, order)
    /\ Leave(c)
    /\ UNCHANGED <<sessions, byIp, writer, queue, client>>

\* Any frame of a session that was removed ends its reader.
FrameOfRemoved(c) ==
    /\ InLoop(c) /\ client[c] # "gone"
    /\ HubFree /\ c \notin sessions
    /\ Leave(c)
    /\ UNCHANGED <<hubVars, writer, queue, client>>

\* The client's close frame, or the end of its stream.
SeesEnd(c) ==
    /\ InLoop(c) /\ client[c] = "gone"
    /\ Leave(c)
    /\ UNCHANGED <<hubVars, writer, queue, client>>

\* Mutant of IdleTimeout: a silent connection is closed and its task returns.
IdleTimeoutReturns(c) ==
    /\ InLoop(c) /\ HubFree
    /\ Take(c, <<"close">>)
    /\ reader' = [reader EXCEPT ![c] = "draining"]
    /\ UNCHANGED <<sessions, byIp, writer, queue, client>>

\* IDLE_TIMEOUT_SEC without a frame.
IdleTimeout(c) ==
    /\ InLoop(c) /\ HubFree
    /\ Take(c, <<"close">>)
    /\ Leave(c)
    /\ UNCHANGED <<sessions, byIp, writer, queue, client>>

CleanUp(c) ==
    /\ reader[c] = "leaving" /\ HubFree
    /\ Removed(c)
    /\ reader' = [reader EXCEPT ![c] = "draining"]
    /\ UNCHANGED <<hub, writer, queue, client>>

\* Mutant of ReaderEnds: the writer is waited for without a limit.
ReaderEndsLast(c) ==
    /\ reader[c] = "draining" /\ writer[c] = "ended"
    /\ reader' = [reader EXCEPT ![c] = "none"]
    /\ UNCHANGED <<hubVars, writer, queue, client>>

\* The writer has ended, or two seconds have passed: it is detached, not stopped.
ReaderEnds(c) ==
    /\ reader[c] = "draining"
    /\ reader' = [reader EXCEPT ![c] = "none"]
    /\ UNCHANGED <<hubVars, writer, queue, client>>

-----------------------------------------------------------------------------
(* The writer. *)

WriterTakes(c) ==
    /\ writer[c] = "recv" /\ queue[c] # <<>>
    /\ writer' = [writer EXCEPT ![c] = Head(queue[c])]
    /\ queue' = [queue EXCEPT ![c] = Tail(@)]
    /\ UNCHANGED <<hubVars, reader, client>>

\* A close frame is the writer's last, whatever is queued behind it.
WriterSent(c) ==
    /\ writer[c] \in Frames /\ client[c] = "reading"
    /\ writer' = [writer EXCEPT ![c] = IF @ = "close" THEN "ended" ELSE "recv"]
    /\ UNCHANGED <<hubVars, reader, queue, client>>

WriterFails(c) ==
    /\ writer[c] \in Frames /\ client[c] = "gone"
    /\ writer' = [writer EXCEPT ![c] = "ended"]
    /\ UNCHANGED <<hubVars, reader, queue, client>>

\* The session holds a sender, and the reader one of its own until it has cleaned up.
SendersGone(c) == c \notin sessions /\ reader[c] \in {"draining", "none"}

WriterDrained(c) ==
    /\ writer[c] = "recv" /\ queue[c] = <<>> /\ SendersGone(c)
    /\ writer' = [writer EXCEPT ![c] = "ended"]
    /\ UNCHANGED <<hubVars, reader, queue, client>>

-----------------------------------------------------------------------------
(* The client. *)

\* It stops and starts reading, or its connection goes; there is no way back from that.
ClientTurns(c) ==
    /\ reader[c] # "none" \/ writer[c] \notin {"none", "ended"}
    /\ client[c] # "gone"
    /\ \E state \in {"reading", "stalled", "gone"} \ {client[c]} : client' = [client EXCEPT ![c] = state]
    /\ UNCHANGED <<hubVars, reader, writer, queue>>

-----------------------------------------------------------------------------
OutboundInit ==
    /\ sessions = {}
    /\ byIp = [a \in Addrs |-> 0]
    /\ hub = <<>>
    /\ reader = [c \in Conns |-> "none"]
    /\ writer = [c \in Conns |-> "none"]
    /\ queue = [c \in Conns |-> <<>>]
    /\ client = [c \in Conns |-> "gone"]

Reader(c) == Refuse(c) \/ FrameOfRemoved(c) \/ SeesEnd(c) \/ IdleTimeout(c) \/ CleanUp(c) \/ ReaderEnds(c)

Writer(c) == WriterTakes(c) \/ WriterSent(c) \/ WriterFails(c) \/ WriterDrained(c)

OutboundNext ==
    \/ HubStep
    \/ \E c \in Conns :
         \/ Connect(c) \/ Reader(c) \/ Writer(c) \/ ClientTurns(c)
         \/ \E order \in Orders : Order(c, order)

OutboundSpec == OutboundInit /\ [][OutboundNext]_outboundVars

\* The holder of the mutex goes on, and nobody waits for it for ever; tasks that can
\* run do.  Nothing is assumed of a client: of a removed one the timer takes care.
OutboundFairness ==
    /\ WF_outboundVars(HubStep)
    /\ \A c \in Conns :
         /\ SF_outboundVars(IdleTimeout(c) /\ c \notin sessions)
         /\ SF_outboundVars(CleanUp(c))
         /\ WF_outboundVars(SeesEnd(c))
         /\ WF_outboundVars(ReaderEnds(c))
         /\ WF_outboundVars(Writer(c))

OutboundFairSpec == OutboundSpec /\ OutboundFairness

-----------------------------------------------------------------------------
(* Properties. *)

\* Types; a queue never holds more than its capacity (ws.rs, mpsc::channel).
OutboundTypeOK ==
    /\ sessions \subseteq Conns
    /\ byIp \in [Addrs -> Nat]
    /\ hub \in Seq([to : Conns, call : Tries])
    /\ reader \in [Conns -> {"none", "loop", "leaving", "draining"}]
    /\ writer \in [Conns -> {"none", "recv", "ended"} \cup Frames]
    /\ queue \in [Conns -> Seq(Frames)]
    /\ \A c \in Conns : Len(queue[c]) <= Capacity
    /\ client \in [Conns -> {"reading", "stalled", "gone"}]

From(a) == {c \in sessions : AddrOf[c] = a}

\* The count an address is admitted by is the number of its sessions, although a
\* kicked session is removed twice, by the kick and by its own reader, with other
\* connections of the address coming and going between (by_ip of session.rs).
ByIpCounts == \A a \in Addrs : byIp[a] = Cardinality(From(a))

\* Whoever is still in the hub's table has a reader that will take it out: no path
\* out of handle_socket's loop leaves a session behind.
SessionHasReader == \A c \in sessions : reader[c] \in {"loop", "leaving"}

\* A session that was removed ends its connection, however its client behaves.
ConnectionEnds == \A c \in Conns : c \notin sessions ~> c \in sessions \/ reader[c] = "none"

\* The writer of a connection that is over ends too, unless its client keeps the
\* socket without reading it: nothing stops a writer that is sending.
WriterEnds ==
    \A c \in Conns : reader[c] = "none" ~> writer[c] \in {"none", "ended"} \/ client[c] = "stalled"
=============================================================================
