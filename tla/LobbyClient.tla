----------------------------- MODULE LobbyClient -----------------------------
(***************************************************************************)
(* The connection of online/lobby_client.gd: one websocket, the requests   *)
(* in flight on it, the handshake that runs as a coroutine over two of     *)
(* them, and the reconnects.                                               *)
(*                                                                         *)
(* Completing a request resumes its caller at once, inside the function    *)
(* that completes it.  The handshake is such a caller, and drops the       *)
(* socket: so dropping the socket while the handshake waits drops it twice.*)
(***************************************************************************)
EXTENDS Naturals, FiniteSets, SequencesExt

CONSTANTS
    Callers,  \* callers of request(), each with one request at a time
    LastDelay \* last index of RECONNECT_BACKOFF_SEC

ASSUME ClientAssumption == LastDelay \in Nat /\ Callers \cap {"hello", "auth", "kicked"} = {}

VARIABLES
    link,     \* WBLobbyClient's own state, a record
    waiting,  \* callers whose await has not returned
    inbox,    \* packets the socket has received and not handed out
    asked,    \* requests on this socket that the server has not answered
    bound,    \* the server has bound an account to this socket
    told,     \* a kicked push has reached the inbox since connect_now
    polled    \* a frame has polled the socket and is not over

clientVars == <<link, waiting, inbox, asked, bound, told, polled>>
server == <<inbox, asked, bound, told>>

-----------------------------------------------------------------------------
Handshake == {"hello", "auth"}
Requests  == Handshake \cup Callers

\* A late answer to a request that has expired finds no handle and is forgotten, so
\* it leaves asked and inbox when the request does.
Messages == ({"ok", "error", "mismatch"} \X Requests) \cup {<<"kicked", "kicked">>}

Link == [wanted  : BOOLEAN,
         sock    : {"none", "connecting", "open", "closing", "closed"},
         stage   : {"idle", "hello", "auth", "done"},   \* _handshake_stage, "idle" when it is empty
         state   : {"offline", "connecting", "online"},
         pending : Seq(Requests),   \* _pending's keys, oldest and so soonest due first
         attempt : 0..LastDelay,    \* _reconnect_attempt, which only counts up to the last delay
         delay   : 0..LastDelay]    \* which delay the next open waits for

InFlight(l) == ToSet(l.pending)

Capped(n) == IF n < LastDelay THEN n ELSE LastDelay

\* _schedule_reconnect.
Schedule(l) == [l EXCEPT !.delay = l.attempt, !.attempt = Capped(l.attempt + 1)]

\* Mutant of Settle: a socket that goes leaves the state as it was.
SettleQuietly(l) == IF l.wanted THEN Schedule(l) ELSE l

\* The end of _drop_socket, behind _fail_all_pending.
Settle(l) ==
    LET off == [l EXCEPT !.state = "offline"]
    IN  IF off.wanted THEN Schedule(off) ELSE off

\* _drop_socket: a handshake that waits is failed with the others, and drops the
\* socket itself before this drop settles.
Drop(l) ==
    LET bare == [l EXCEPT !.sock = "none", !.stage = "idle", !.pending = <<>>]
    IN  IF InFlight(l) \cap Handshake # {} THEN Settle(Settle(bare)) ELSE Settle(bare)

Kept(t, x, S) == IF x \in S THEN t ELSE Append(t, x)

\* What is left of s, in its order, without the members of S.
Without(s, S) ==
    LET kept[i \in 0..Len(s)] == IF i = 0 THEN <<>> ELSE Kept(kept[i - 1], s[i], S)
    IN  kept[Len(s)]

Forgotten(requests) ==
    /\ asked' = Without(asked, requests)
    /\ inbox' = Without(inbox, {m \in Messages : m[2] \in requests})

\* What a drop does besides: all callers hear of it, and the packets of the old
\* socket are gone with it.
Dropped(l) ==
    /\ link' = Drop(l)
    /\ waiting' = waiting \ InFlight(l)
    /\ inbox' = <<>> /\ asked' = <<>> /\ bound' = FALSE /\ polled' = FALSE
    /\ UNCHANGED told

-----------------------------------------------------------------------------
(* What the player and the screens call. *)

\* _open_socket; an address that cannot be used schedules the next try at once.
Opens(l) ==
    \/ link' = [l EXCEPT !.sock = "connecting", !.stage = "idle", !.state = "connecting"]
    \/ link' = Schedule(l)

ConnectNow ==
    /\ LET l == [link EXCEPT !.wanted = TRUE, !.attempt = 0, !.delay = 0]
       IN  IF l.sock = "none" THEN Opens(l) ELSE link' = l
    /\ told' = FALSE
    /\ UNCHANGED <<waiting, inbox, asked, bound, polled>>

DisconnectNow ==
    /\ link.wanted
    /\ Dropped([link EXCEPT !.wanted = FALSE])

Ask(l, r) == [l EXCEPT !.pending = Append(@, r)]

\* request: without an open socket it answers at once, which changes nothing.
Call(u) ==
    /\ u \notin waiting /\ link.sock = "open"
    /\ link' = Ask(link, u)
    /\ waiting' = waiting \cup {u}
    /\ asked' = Append(asked, u)
    /\ UNCHANGED <<inbox, bound, told, polled>>

-----------------------------------------------------------------------------
(* One frame of _process: the socket is polled once, then the packets it *)
(* has are handed out, then its state is looked at.                       *)

Reopen ==
    /\ link.sock = "none" /\ link.wanted
    /\ Opens(link)
    /\ UNCHANGED <<waiting, server, polled>>

Poll ==
    /\ link.sock # "none" /\ ~polled
    /\ polled' = TRUE
    /\ UNCHANGED <<link, waiting, server>>

Drained == polled /\ inbox = <<>>

\* _begin_handshake up to its first await.
BeginHandshake ==
    /\ link.sock = "open" /\ link.stage = "idle" /\ Drained
    /\ link' = Ask([link EXCEPT !.stage = "hello"], "hello")
    /\ asked' = Append(asked, "hello")
    /\ polled' = FALSE
    /\ UNCHANGED <<waiting, inbox, bound, told>>

\* Nothing is to be done: nothing is due, or the socket is closing.
NothingDue ==
    /\ Drained /\ link.sock # "closed"
    /\ ~(link.sock = "open" /\ link.stage = "idle")
    /\ polled' = FALSE
    /\ UNCHANGED <<link, waiting, server>>

Answered(r) == [link EXCEPT !.pending = Without(@, {r})]

\* The handshake resumes with what the server said.  A socket that has closed by
\* then refuses the next request, as if the server had.
HandshakeGoes(m) ==
    LET l == Answered(m[2]) IN
    \/ /\ m = <<"ok", "hello">> /\ l.sock = "open"
       /\ link' = Ask([l EXCEPT !.stage = "auth"], "auth")
       /\ asked' = Append(asked, "auth")
       /\ inbox' = Tail(inbox)
       /\ UNCHANGED <<waiting, bound, told, polled>>
    \/ /\ m = <<"ok", "hello">> /\ l.sock # "open"
       /\ Dropped(l)
    \/ /\ m = <<"ok", "auth">>
       /\ link' = [l EXCEPT !.stage = "done", !.state = "online", !.attempt = 0]
       /\ inbox' = Tail(inbox)
       /\ UNCHANGED <<waiting, asked, bound, told, polled>>
    \/ /\ m[1] = "error"
       /\ Dropped(l)
    \/ /\ m[1] = "mismatch"
       /\ Dropped([l EXCEPT !.wanted = FALSE])

\* _handle_socket_text.
Receive ==
    /\ polled /\ inbox # <<>>
    /\ LET m == Head(inbox) IN
       \/ /\ m[2] \in Handshake
          /\ HandshakeGoes(m)
       \/ /\ m[2] \in Callers
          /\ link' = Answered(m[2])
          /\ waiting' = waiting \ {m[2]}
          /\ inbox' = Tail(inbox)
          /\ UNCHANGED <<asked, bound, told, polled>>
       \/ /\ m[1] = "kicked"
          /\ link' = [link EXCEPT !.wanted = FALSE]
          /\ inbox' = Tail(inbox)
          /\ UNCHANGED <<waiting, asked, bound, told, polled>>

ConnectTimeout ==
    /\ link.sock = "connecting" /\ Drained
    /\ Dropped(link)

\* Mutant of ExpiryRuns: only a client that is online looks at what is due.
ExpiryOnline == link.sock = "open" /\ link.stage = "done" /\ Drained

ExpiryRuns == link.sock = "open" /\ link.stage # "idle" /\ Drained

\* _expire_pending, the k oldest requests being due.  When the handshake's is one of
\* them it drops the socket, and the loop breaks off over what the drop has cleared.
Expire(k) ==
    /\ ExpiryRuns
    /\ LET due == SubSeq(link.pending, 1, k)
           rest == SubSeq(link.pending, k + 1, Len(link.pending))
       IN  IF ToSet(due) \cap Handshake = {}
           THEN /\ link' = [link EXCEPT !.pending = rest]
                /\ waiting' = waiting \ ToSet(due)
                /\ Forgotten(ToSet(due))
                /\ polled' = FALSE
                /\ UNCHANGED <<bound, told>>
           ELSE Dropped([link EXCEPT !.pending = Without(@, Handshake)])

\* Mutant of CloseSeen: the state is looked at before the packets.
CloseSeenFirst ==
    /\ link.sock = "closed" /\ polled
    /\ Dropped(link)

CloseSeen ==
    /\ link.sock = "closed" /\ Drained
    /\ Dropped(link)

-----------------------------------------------------------------------------
(* The network and the server, which the client sees when it polls. *)

Accepted ==
    /\ link.sock = "connecting" /\ ~polled
    /\ link' = [link EXCEPT !.sock = "open"]
    /\ UNCHANGED <<waiting, server, polled>>

\* A connection breaks, or the server closes it; what was received before stays to
\* be read.
Closes ==
    /\ ~polled
    /\ \E to \in {"closing", "closed"} :
         /\ <<link.sock, to>> \in {<<"connecting", "closed">>, <<"open", "closing">>,
                                   <<"open", "closed">>, <<"closing", "closed">>}
         /\ link' = [link EXCEPT !.sock = to]
    /\ asked' = <<>> /\ bound' = FALSE
    /\ UNCHANGED <<waiting, inbox, told, polled>>

\* The server answers in order; only hello can be a version it does not speak.
Answers ==
    /\ asked # <<>> /\ link.sock = "open" /\ ~polled
    /\ \E m \in Messages :
         /\ m[2] = Head(asked)
         /\ m[1] = "mismatch" => m[2] = "hello"
         /\ inbox' = Append(inbox, m)
         /\ bound' = (bound \/ m = <<"ok", "auth">>)
    /\ asked' = Tail(asked)
    /\ UNCHANGED <<link, waiting, told, polled>>

\* Another login or the owner: the session is removed, and answers nothing more.
Kicks ==
    /\ bound /\ link.sock = "open" /\ ~polled
    /\ inbox' = Append(inbox, <<"kicked", "kicked">>)
    /\ told' = TRUE
    /\ asked' = <<>> /\ bound' = FALSE
    /\ UNCHANGED <<link, waiting, polled>>

-----------------------------------------------------------------------------
ClientInit ==
    /\ link = [wanted |-> FALSE, sock |-> "none", stage |-> "idle", state |-> "offline",
               pending |-> <<>>, attempt |-> 0, delay |-> 0]
    /\ waiting = {} /\ inbox = <<>> /\ asked = <<>> /\ bound = FALSE /\ told = FALSE /\ polled = FALSE

Screens == ConnectNow \/ DisconnectNow \/ \E u \in Callers : Call(u)

ExpireAny == \E k \in DOMAIN link.pending : Expire(k)

Looks == BeginHandshake \/ NothingDue \/ CloseSeen

Frame == Reopen \/ Poll \/ Receive \/ Looks \/ ConnectTimeout \/ ExpireAny

Network == Accepted \/ Closes \/ Answers \/ Kicks

ClientNext == Screens \/ Frame \/ Network

ClientSpec == ClientInit /\ [][ClientNext]_clientVars

\* _process runs in every frame and the clock goes on; a socket that is closing
\* closes.  Nothing is assumed of the server.
ClientFairness ==
    /\ WF_clientVars(Poll) /\ WF_clientVars(Receive) /\ WF_clientVars(Looks)
    /\ SF_clientVars(ConnectTimeout)
    /\ \A r \in Requests : SF_clientVars(ExpireAny /\ link.pending[1] = r)
    /\ SF_clientVars(Closes /\ link.sock = "closing")

ClientFairSpec == ClientSpec /\ ClientFairness

-----------------------------------------------------------------------------
(* Properties. *)

LinkTypeOK ==
    /\ link \in Link
    /\ waiting \subseteq Callers
    /\ inbox \in Seq(Messages)
    /\ asked \in Seq(Requests)
    /\ bound \in BOOLEAN /\ told \in BOOLEAN /\ polled \in BOOLEAN

\* lobby_client.gd:399, "only a finished handshake reports the client online": online
\* means a socket whose handshake is done and not being repeated, through drops
\* inside drops and answers read after the socket has closed.
OnlineMeansHandshaken ==
    link.state = "online" =>
        link.sock # "none" /\ link.stage = "done" /\ InFlight(link) \cap Handshake = {}

\* lobby_client.gd:581-583: once the kicked push is received the client stays off
\* until the player asks, also when the close arrives with it (333-335).
KickedStaysOff == told => ~link.wanted \/ <<"kicked", "kicked">> \in ToSet(inbox)

\* Every call returns, whatever the server does not answer (request, 300-301).
EveryCallReturns == \A u \in Callers : u \in waiting ~> u \notin waiting

\* Every attempt ends: no socket stays half connected or in a handshake for ever.
AttemptEnds == link.sock # "none" /\ link.state # "online" ~> link.sock = "none" \/ link.state = "online"
=============================================================================
