---------------------------- MODULE MCOutbound ----------------------------
(* Two connections from one address, and which of them had a text refused. *)
EXTENDS Outbound

CONSTANTS c1, c2, home

VARIABLE slow

TwoConns == {c1, c2}
OneHome  == {home}
FromHome == [c \in Conns |-> home]

SlowInit == OutboundInit /\ slow = {}

\* A connection is another one once it is opened again.
SlowNext ==
    /\ OutboundNext
    /\ slow' = (slow \cup (IF RefusesText /\ hub' # hub THEN {Head(hub).to} ELSE {})) \ (sessions' \ sessions)

SlowSpec == SlowInit /\ [][SlowNext]_<<outboundVars, slow>>

\* session.rs:228: "a full queue means a stalled client, which is disconnected rather
\* than allowed to hold memory": once the send is over, a connection whose frame was
\* refused is on its way out.
SlowIsDisconnected ==
    HubFree => \A c \in slow \cap sessions :
        \/ reader[c] = "leaving"
        \/ writer[c] \in {"close", "ended"}
        \/ \E i \in DOMAIN queue[c] : queue[c][i] = "close"
===========================================================================
