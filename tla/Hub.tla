-------------------------------- MODULE Hub --------------------------------
(***************************************************************************)
(* The in-memory hub of the lobby server (lobby-server/src/session.rs,     *)
(* lobbies.rs, rendezvous.rs, sweeper.rs, and the hub sections of          *)
(* accounts.rs, matches.rs and admin.rs).                                  *)
(*                                                                         *)
(* The hub is one mutex.  A handler locks it, does a section of its work,  *)
(* unlocks it, goes to the database, and may lock it again: every action   *)
(* below is one such critical section, and whatever other tasks do between *)
(* two sections of a handler is an interleaving of this specification.     *)
(* The requests of one connection are handled one at a time by its reader  *)
(* task, which is what task[s] records.                                    *)
(***************************************************************************)
EXTENDS Naturals, FiniteSets, Functions

CONSTANTS
    Sids,            \* connection slots; a slot stands for the session id it was given
    Accounts,        \* registered accounts
    LobbyIds,        \* lobby ids
    MatchIds,        \* rows of the matches table
    Nonces,          \* rendezvous nonces
    Hashes,          \* content hashes a client may announce
    MaxConnections,  \* config.max_connections
    MaxLobbies,      \* config.max_lobbies
    None             \* the absent value of every Option<...>

ASSUME HubAssumption ==
    /\ None \notin Sids \cup Accounts \cup LobbyIds \cup MatchIds \cup Nonces \cup Hashes
    /\ MaxConnections \in Nat
    /\ MaxLobbies \in Nat
    /\ IsFiniteSet(Sids)
    /\ IsFiniteSet(LobbyIds)

VARIABLES
    sessions,    \* Hub.sessions: live session id -> Session
    byAccount,   \* Hub.by_account: account -> the session bound to it
    lobbies,     \* Hub.lobbies: lobby id -> Lobby
    pending,     \* Hub.pending_joins
    rendezvous,  \* Hub.rendezvous: nonce -> the observed endpoint's entry
    task,        \* what the reader task of each slot is in the middle of
    waiting      \* the lobbies each client was told "pending" for, and no outcome yet

hubVars == <<sessions, byAccount, lobbies, pending, rendezvous, task, waiting>>

-----------------------------------------------------------------------------
(* Data. *)

Option(S) == S \cup {None}

Presence == [at : {"idle", "hosting", "joined", "in_match"}, lobby : Option(LobbyIds)]

Idle        == [at |-> "idle", lobby |-> None]
Hosting(l)  == [at |-> "hosting", lobby |-> l]
Joined(l)   == [at |-> "joined", lobby |-> l]
InMatch(l)  == [at |-> "in_match", lobby |-> l]

Session == [account : Option(Accounts), presence : Presence,
            nonce : Option(Nonces), content : Option(Hashes)]

Lobby == [host : Sids, content : Hashes, state : {"open", "full", "in_match"},
          joiner : Option(Sids), match : Option(MatchIds), hostPublic : BOOLEAN]

PendingJoin == [lobby : LobbyIds, joiner : Sids, host : Sids, overdue : BOOLEAN]

\* fresh: seen within RENDEZVOUS_FRESH_SEC; expired: beyond RENDEZVOUS_EXPIRE_SEC.
Age == {"fresh", "stale", "expired"}
RendezvousEntry == [session : Sids, age : Age]

\* auth: between the database lookup and bind_account; start and end: between
\* the first and the last hub section of match_start and match_end.
Task == [op : {"none", "auth", "start", "end"},
         account : Option(Accounts), lobby : Option(LobbyIds)]
NoTask == [op |-> "none", account |-> None, lobby |-> None]

Put(f, k, v) == [x \in DOMAIN f \cup {k} |-> IF x = k THEN v ELSE f[x]]
Drop(f, S)   == Restrict(f, DOMAIN f \ S)

-----------------------------------------------------------------------------
(* Reading the hub. *)

Live == DOMAIN sessions

\* The reader of a live connection may take the next request.
Ready(s) == s \in Live /\ task[s] = NoTask

\* require_account
Registered(s) == Ready(s) /\ sessions[s].account # None

\* lobby_hosted_by and lobby_joined_by return any one of these.
HostedBy(s) == {l \in DOMAIN lobbies : lobbies[l].host = s}
JoinedBy(s) == {l \in DOMAIN lobbies : lobbies[l].joiner = s}

Observed(s) == sessions[s].nonce # None /\ sessions[s].nonce \in DOMAIN rendezvous

FreshPublic(s) == Observed(s) /\ rendezvous[sessions[s].nonce].age = "fresh"

HostFresh(l) ==
    LET h == lobbies[l].host
    IN  /\ h \in Live
        /\ IF Observed(h) THEN FreshPublic(h) ELSE sessions[h].nonce = None

SameContent(a, b) == a = None \/ b = None \/ a = b

\* An id generator of 48 random bits: an id something still mentions is not drawn.
FreshLobbyId(l) ==
    /\ l \notin DOMAIN lobbies
    /\ \A s \in Live : sessions[s].presence.lobby # l
    /\ \A s \in Sids : task[s].lobby # l

-----------------------------------------------------------------------------
(* The hub's own methods, as functions of the state. *)

SetPresence(ss, S, p) ==
    [x \in DOMAIN ss |-> IF x \in S THEN [ss[x] EXCEPT !.presence = p] ELSE ss[x]]

\* The lobbies s asks to join in the pending joins P.
Asked(s, P) == {p.lobby : p \in {q \in P : q.joiner = s}}

\* The pushes that settle the pending joins P: each joiner learns its outcome.
Told(P) == [s \in Sids |-> waiting[s] \ Asked(s, P)]

\* close_lobby for every lobby of S, as it leaves the presences of ss.
ClosedPresences(ss, S) ==
    LET joiners == {lobbies[l].joiner : l \in S}
        hosts   == {x \in {lobbies[l].host : l \in S} \cap DOMAIN ss :
                        ss[x].presence.at \in {"hosting", "in_match"}}
    IN  SetPresence(ss, joiners \cup hosts, Idle)

PendingAt(S) == {p \in pending : p.lobby \in S}

\* joiner_left, as it leaves the lobby.
Vacated(lobby) ==
    [lobby EXCEPT !.joiner = None,
                  !.state  = IF lobby.state = "full" THEN "open" ELSE lobby.state]

\* remove_session, table by table.
RemovedSessions(s) == ClosedPresences(Drop(sessions, {s}), HostedBy(s))

RemovedByAccount(s) ==
    Drop(byAccount, {a \in DOMAIN byAccount : a = sessions[s].account /\ byAccount[a] = s})

\* Mutant of RemovedLobbies: a removed joiner keeps its seat.
RemovedLobbiesSeatKept(s) == Drop(lobbies, HostedBy(s))

RemovedLobbies(s) ==
    [l \in DOMAIN lobbies \ HostedBy(s) |->
        IF lobbies[l].joiner = s THEN Vacated(lobbies[l]) ELSE lobbies[l]]

RemovedPending(s) == {p \in pending : p.lobby \notin HostedBy(s) /\ p.joiner # s}

\* Mutant of RemovedRendezvous: the entry outlives its session.
RemovedRendezvousKept(s) == rendezvous

RemovedRendezvous(s) == Drop(rendezvous, {sessions[s].nonce})

RemovedWaiting(s) == [Told(PendingAt(HostedBy(s))) EXCEPT ![s] = {}]

Remove(s) ==
    /\ sessions'   = RemovedSessions(s)
    /\ byAccount'  = RemovedByAccount(s)
    /\ lobbies'    = RemovedLobbies(s)
    /\ pending'    = RemovedPending(s)
    /\ rendezvous' = RemovedRendezvous(s)
    /\ waiting'    = RemovedWaiting(s)

\* Mutant of CloseLobbies: the joins pending at a closed lobby are forgotten.
CloseLobbiesUntold(S, late) ==
    /\ lobbies' = Drop(lobbies, S)
    /\ pending' = (pending \ late) \ PendingAt(S)
    /\ waiting' = Told(late)

\* close_lobby for every lobby of S, but for the presences, after the joins in
\* late were rejected.
CloseLobbies(S, late) ==
    /\ lobbies' = Drop(lobbies, S)
    /\ pending' = (pending \ late) \ PendingAt(S)
    /\ waiting' = Told(late \cup PendingAt(S))

-----------------------------------------------------------------------------
(* Connections and accounts. *)

NewSession == [account |-> None, presence |-> Idle, nonce |-> None, content |-> None]

\* A socket opens.  The slot is reused once its reader task is over.
Connect(s) ==
    /\ s \notin Live /\ task[s] = NoTask
    /\ Cardinality(Live) < MaxConnections
    /\ sessions' = Put(sessions, s, NewSession)
    /\ UNCHANGED <<byAccount, lobbies, pending, rendezvous, task, waiting>>

\* hello, at any time of the connection; the content hash may be empty.
Hello(s) ==
    /\ Ready(s)
    /\ \E h \in Option(Hashes) : sessions' = [sessions EXCEPT ![s].content = h]
    /\ UNCHANGED <<byAccount, lobbies, pending, rendezvous, task, waiting>>

\* auth or register: the account is known to the database, not yet bound.
Authenticate(s) ==
    /\ Ready(s) /\ sessions[s].account = None
    /\ \E a \in Accounts : task' = [task EXCEPT ![s] = [NoTask EXCEPT !.op = "auth", !.account = a]]
    /\ UNCHANGED <<sessions, byAccount, lobbies, pending, rendezvous, waiting>>

\* Mutant of BindAccount: the older session of the account is not removed.
BindAccountTwice(s) ==
    LET a == task[s].account
    IN  /\ task[s].op = "auth"
        /\ task' = [task EXCEPT ![s] = NoTask]
        /\ sessions' = IF s \in Live THEN [sessions EXCEPT ![s].account = a] ELSE sessions
        /\ byAccount' = IF s \in Live THEN Put(byAccount, a, s) ELSE byAccount
        /\ UNCHANGED <<lobbies, pending, rendezvous, waiting>>

\* bind_account's hub section: an older session of the account is removed first;
\* if this session is gone by now, the handler fails after that removal.
BindAccount(s) ==
    LET a == task[s].account
        Bound(ss) == IF s \in DOMAIN ss THEN [ss EXCEPT ![s].account = a] ELSE ss
        Indexed(f) == IF s \in Live THEN Put(f, a, s) ELSE f
    IN  /\ task[s].op = "auth"
        /\ task' = [task EXCEPT ![s] = NoTask]
        /\ IF a \in DOMAIN byAccount /\ byAccount[a] # s
           THEN LET old == byAccount[a]
                IN  /\ sessions'   = Bound(RemovedSessions(old))
                    /\ byAccount'  = Indexed(RemovedByAccount(old))
                    /\ lobbies'    = RemovedLobbies(old)
                    /\ pending'    = RemovedPending(old)
                    /\ rendezvous' = RemovedRendezvous(old)
                    /\ waiting'    = RemovedWaiting(old)
           ELSE /\ sessions'  = Bound(sessions)
                /\ byAccount' = Indexed(byAccount)
                /\ UNCHANGED <<lobbies, pending, rendezvous, waiting>>

\* The database section of a handler fails and the handler returns its error.
RequestFails(s) ==
    /\ task[s].op # "none"
    /\ task' = [task EXCEPT ![s] = NoTask]
    /\ UNCHANGED <<sessions, byAccount, lobbies, pending, rendezvous, waiting>>

\* The reader loop ends: close frame, error, idle timeout or abuse.
Disconnect(s) ==
    /\ Ready(s)
    /\ Remove(s)
    /\ UNCHANGED task

\* The owner kicks a session, in the middle of a request or not.
Kick(s) ==
    /\ s \in Live
    /\ Remove(s)
    /\ UNCHANGED task

\* The owner disables an account or resets its key: its session is kicked.
KickAccount(a) ==
    /\ a \in DOMAIN byAccount
    /\ Remove(byAccount[a])
    /\ UNCHANGED task

-----------------------------------------------------------------------------
(* Rendezvous: nonces over the WebSocket, observations over UDP. *)

RendezvousRegister(s, n) ==
    LET old  == sessions[s].nonce
        kept == IF old # n THEN Drop(rendezvous, {old}) ELSE rendezvous
    IN  /\ Registered(s)
        /\ ~ (/\ n \in DOMAIN rendezvous
              /\ rendezvous[n].session # s
              /\ rendezvous[n].session \in Live)
        /\ sessions' = [sessions EXCEPT ![s].nonce = n]
        /\ rendezvous' = IF n \in DOMAIN kept THEN [kept EXCEPT ![n].session = s] ELSE kept
        /\ UNCHANGED <<byAccount, lobbies, pending, task, waiting>>

\* A ping for a registered nonce, from the endpoint last seen or from another.
Observe(s, moved) ==
    LET n       == sessions[s].nonce
        changed == moved \/ n \notin DOMAIN rendezvous \/ rendezvous[n].session # s
    IN  /\ s \in Live /\ n # None
        /\ rendezvous' = Put(rendezvous, n, [session |-> s, age |-> "fresh"])
        /\ lobbies' = [l \in DOMAIN lobbies |->
                          IF changed /\ lobbies[l].host = s
                          THEN [lobbies[l] EXCEPT !.hostPublic = TRUE] ELSE lobbies[l]]
        /\ UNCHANGED <<sessions, byAccount, pending, task, waiting>>

\* No ping for so long.
RendezvousAges(n) ==
    /\ n \in DOMAIN rendezvous /\ rendezvous[n].age # "expired"
    /\ rendezvous' = [rendezvous EXCEPT ![n].age = IF @ = "fresh" THEN "stale" ELSE "expired"]
    /\ UNCHANGED <<sessions, byAccount, lobbies, pending, task, waiting>>

-----------------------------------------------------------------------------
(* Lobbies. *)

Create(s, l) ==
    /\ Registered(s)
    /\ sessions[s].content # None
    /\ sessions[s].presence = Idle
    /\ Cardinality(DOMAIN lobbies) < MaxLobbies
    /\ FreshLobbyId(l)
    /\ lobbies' = Put(lobbies, l,
           [host |-> s, content |-> sessions[s].content, state |-> "open",
            joiner |-> None, match |-> None, hostPublic |-> FreshPublic(s)])
    /\ sessions' = [sessions EXCEPT ![s].presence = Hosting(l)]
    /\ UNCHANGED <<byAccount, pending, rendezvous, task, waiting>>

\* lobby_update: an open flag counts only while there is no second player.
Update(s, l) ==
    /\ Registered(s)
    /\ l \in HostedBy(s)
    /\ \E open \in BOOLEAN \cup {None} :
          lobbies' = [lobbies EXCEPT
              ![l].hostPublic = @ \/ FreshPublic(s),
              ![l].state = IF open = None \/ lobbies[l].joiner # None THEN @
                           ELSE IF open THEN "open" ELSE "in_match"]
    /\ UNCHANGED <<sessions, byAccount, pending, rendezvous, task, waiting>>

Close(s, l) ==
    /\ Registered(s)
    /\ l \in HostedBy(s)
    /\ CloseLobbies({l}, {})
    /\ sessions' = [ClosedPresences(sessions, {l}) EXCEPT ![s].presence = Idle]
    /\ UNCHANGED <<byAccount, rendezvous, task>>

\* Mutant of MayRequest: whether the lobby is still open is not checked.
MayRequestClosed(s, l) ==
    /\ Registered(s)
    /\ l \in DOMAIN lobbies /\ lobbies[l].host # s
    /\ sessions[s].presence = Idle
    /\ PendingAt({l}) = {}

\* Mutant of MayRequest: whether somebody else is already asking is not checked.
MayRequestTwice(s, l) ==
    /\ Registered(s)
    /\ l \in DOMAIN lobbies /\ lobbies[l].host # s /\ lobbies[l].state = "open"
    /\ sessions[s].presence = Idle

\* What lobby_join_request checks before it tells the host.
MayRequest(s, l) ==
    /\ Registered(s)
    /\ l \in DOMAIN lobbies
    /\ lobbies[l].host # s
    /\ sessions[s].presence = Idle
    /\ lobbies[l].state = "open"
    /\ PendingAt({l}) = {}
    /\ SameContent(lobbies[l].content, sessions[s].content)
    /\ HostFresh(l)

JoinRequest(s, l) ==
    /\ MayRequest(s, l)
    /\ pending' = pending \cup
           {[lobby |-> l, joiner |-> s, host |-> lobbies[l].host, overdue |-> FALSE]}
    /\ waiting' = [waiting EXCEPT ![s] = @ \cup {l}]
    /\ UNCHANGED <<sessions, byAccount, lobbies, rendezvous, task>>

\* What lobby_join_answer checks before it seats the player it was asked about.
Seatable(p) ==
    /\ p.joiner \in Live
    /\ sessions[p.joiner].account # None
    /\ p.lobby \in DOMAIN lobbies
    /\ lobbies[p.lobby].joiner = None

\* The host accepts.  When the player cannot be seated the join is dropped, and
\* only the host hears of it.
JoinAccept(s, p) ==
    /\ Registered(s)
    /\ p \in pending /\ p.host = s
    /\ pending' = pending \ {p}
    /\ IF Seatable(p)
       THEN /\ lobbies' = [lobbies EXCEPT
                   ![p.lobby].joiner = p.joiner,
                   ![p.lobby].hostPublic = @ \/ FreshPublic(s),
                   ![p.lobby].state = IF @ = "open" THEN "full" ELSE @]
            /\ sessions' = [sessions EXCEPT ![p.joiner].presence = Joined(p.lobby)]
            /\ waiting' = Told({p})
       ELSE UNCHANGED <<lobbies, sessions, waiting>>
    /\ UNCHANGED <<byAccount, rendezvous, task>>

JoinReject(s, p) ==
    /\ Registered(s)
    /\ p \in pending /\ p.host = s
    /\ pending' = pending \ {p}
    /\ waiting' = Told({p})
    /\ UNCHANGED <<sessions, byAccount, lobbies, rendezvous, task>>

Leave(s) ==
    /\ Registered(s)
    /\ \E l \in JoinedBy(s) : lobbies' = [lobbies EXCEPT ![l] = Vacated(@)]
    /\ sessions' = [sessions EXCEPT ![s].presence = Idle]
    /\ UNCHANGED <<byAccount, pending, rendezvous, task, waiting>>

-----------------------------------------------------------------------------
(* The hub sections of match_start and match_end. *)

\* Mutant of MatchStart: the joiner's lobby is taken for its own.
MatchStartByJoiner(s) ==
    /\ Registered(s)
    /\ \E l \in {h \in DOMAIN lobbies : lobbies[h].joiner # None} :
          task' = [task EXCEPT ![s] = [NoTask EXCEPT !.op = "start", !.lobby = l]]
    /\ UNCHANGED <<sessions, byAccount, lobbies, pending, rendezvous, waiting>>

\* A hosted match is started by the host of a lobby with a second player; a solo
\* or couch match by anyone.
MatchStart(s) ==
    /\ Registered(s)
    /\ \E l \in {h \in HostedBy(s) : lobbies[h].joiner # None} \cup {None} :
          task' = [task EXCEPT ![s] = [NoTask EXCEPT !.op = "start", !.lobby = l]]
    /\ UNCHANGED <<sessions, byAccount, lobbies, pending, rendezvous, waiting>>

\* The row m is in the database: the lobby, if it is still there, is in a match,
\* and so is whoever is seated in it by now.
MatchStarted(s, m) ==
    LET l == task[s].lobby
    IN  /\ task[s].op = "start"
        /\ task' = [task EXCEPT ![s] = NoTask]
        /\ IF l \in DOMAIN lobbies
           THEN /\ lobbies' = [lobbies EXCEPT ![l].state = "in_match", ![l].match = m]
                /\ sessions' = SetPresence(sessions, {s, lobbies[l].joiner}, InMatch(l))
           ELSE /\ sessions' = SetPresence(sessions, {s}, InMatch(l))
                /\ UNCHANGED lobbies
        /\ UNCHANGED <<byAccount, pending, rendezvous, waiting>>

MatchEnd(s) ==
    /\ Registered(s)
    /\ task' = [task EXCEPT ![s] = [NoTask EXCEPT !.op = "end"]]
    /\ UNCHANGED <<sessions, byAccount, lobbies, pending, rendezvous, waiting>>

\* The report is recorded: by the reporter's presence now, whichever match it was.
MatchEnded(s) ==
    LET p == IF s \in Live THEN sessions[s].presence ELSE Idle
        l == p.lobby
    IN  /\ task[s].op = "end"
        /\ task' = [task EXCEPT ![s] = NoTask]
        /\ IF p.at = "in_match" /\ l \in DOMAIN lobbies
           THEN /\ lobbies' = [lobbies EXCEPT
                       ![l].match = None,
                       ![l].state = IF lobbies[l].joiner # None THEN "full" ELSE "open"]
                /\ sessions' = SetPresence(SetPresence(sessions, {s}, Hosting(l)),
                                           {lobbies[l].joiner}, Joined(l))
           ELSE /\ sessions' = IF p.at # "in_match" THEN sessions
                               ELSE SetPresence(sessions, {s}, IF l = None THEN Idle ELSE Hosting(l))
                /\ UNCHANGED lobbies
        /\ UNCHANGED <<byAccount, pending, rendezvous, waiting>>

-----------------------------------------------------------------------------
(* The sweeper. *)

\* JOIN_ANSWER_TIMEOUT_SEC pass without an answer.
JoinDeadline(p) ==
    /\ p \in pending /\ ~ p.overdue
    /\ pending' = (pending \ {p}) \cup {[p EXCEPT !.overdue = TRUE]}
    /\ UNCHANGED <<sessions, byAccount, lobbies, rendezvous, task, waiting>>

\* Lobbies a host was once observed for, and whose nonce is not in known.
Unreachable(known) ==
    {l \in DOMAIN lobbies :
        /\ lobbies[l].hostPublic
        /\ lobbies[l].host \in Live
        /\ sessions[lobbies[l].host].nonce \notin known \cup {None}}

\* Mutant of Sweep: unanswered joins are left alone.
SweepNoJoins ==
    LET kept == Drop(rendezvous, {n \in DOMAIN rendezvous : rendezvous[n].age = "expired"})
        dead == Unreachable(DOMAIN kept)
    IN  /\ rendezvous' = kept
        /\ CloseLobbies(dead, {})
        /\ sessions' = ClosedPresences(sessions, dead)
        /\ UNCHANGED <<byAccount, task>>

\* Mutant of Sweep: no entry ever expires.
SweepNeverExpires ==
    LET dead == Unreachable(DOMAIN rendezvous)
    IN  /\ CloseLobbies(dead, {p \in pending : p.overdue})
        /\ sessions' = ClosedPresences(sessions, dead)
        /\ UNCHANGED <<byAccount, rendezvous, task>>

Sweep ==
    LET late  == {p \in pending : p.overdue}
        kept  == Drop(rendezvous, {n \in DOMAIN rendezvous : rendezvous[n].age = "expired"})
        dead  == Unreachable(DOMAIN kept)
    IN  /\ rendezvous' = kept
        /\ CloseLobbies(dead, late)
        /\ sessions' = ClosedPresences(sessions, dead)
        /\ UNCHANGED <<byAccount, task>>

-----------------------------------------------------------------------------
Empty == [x \in {} |-> None]

Init ==
    /\ sessions = Empty /\ byAccount = Empty /\ lobbies = Empty
    /\ pending = {} /\ rendezvous = Empty
    /\ task = [s \in Sids |-> NoTask]
    /\ waiting = [s \in Sids |-> {}]

\* The process dies and comes back: nothing of the hub is persisted.
Restart ==
    /\ sessions' = Empty /\ byAccount' = Empty /\ lobbies' = Empty
    /\ pending' = {} /\ rendezvous' = Empty
    /\ task' = [s \in Sids |-> NoTask]
    /\ waiting' = [s \in Sids |-> {}]

SessionStep(s) ==
    \/ Connect(s) \/ Hello(s) \/ Authenticate(s) \/ BindAccount(s)
    \/ RequestFails(s) \/ Disconnect(s) \/ Kick(s)

RendezvousStep(s) ==
    \/ \E n \in Nonces : RendezvousRegister(s, n)
    \/ \E moved \in BOOLEAN : Observe(s, moved)

LobbyStep(s) ==
    \/ \E l \in LobbyIds : Create(s, l) \/ Update(s, l) \/ Close(s, l) \/ JoinRequest(s, l)
    \/ \E p \in pending : JoinAccept(s, p) \/ JoinReject(s, p)
    \/ Leave(s)

MatchStep(s) ==
    \/ MatchStart(s) \/ MatchEnd(s) \/ MatchEnded(s)
    \/ \E m \in MatchIds : MatchStarted(s, m)

Next ==
    \/ \E s \in Sids : SessionStep(s) \/ RendezvousStep(s) \/ LobbyStep(s) \/ MatchStep(s)
    \/ \E a \in Accounts : KickAccount(a)
    \/ \E n \in Nonces : RendezvousAges(n)
    \/ \E p \in pending : JoinDeadline(p)
    \/ Sweep
    \/ Restart

Spec == Init /\ [][Next]_hubVars

\* The sweeper ticks for ever; time passes for an unanswered join, and for a
\* nonce that nobody pings (a ping makes it fresh again).
Fairness ==
    /\ WF_hubVars(Sweep)
    /\ \A n \in Nonces : WF_hubVars(RendezvousAges(n))
    /\ \A l \in LobbyIds :
          WF_hubVars(\E p \in pending : p.lobby = l /\ JoinDeadline(p))

FairSpec == Spec /\ Fairness

-----------------------------------------------------------------------------
(* Type correctness. *)

\* Every table holds what its Rust type allows, keyed by ids of its kind.
TypeOK ==
    /\ DOMAIN sessions \subseteq Sids /\ sessions \in [DOMAIN sessions -> Session]
    /\ DOMAIN byAccount \subseteq Accounts /\ byAccount \in [DOMAIN byAccount -> Sids]
    /\ DOMAIN lobbies \subseteq LobbyIds /\ lobbies \in [DOMAIN lobbies -> Lobby]
    /\ pending \subseteq PendingJoin
    /\ DOMAIN rendezvous \subseteq Nonces
    /\ rendezvous \in [DOMAIN rendezvous -> RendezvousEntry]
    /\ task \in [Sids -> Task]
    /\ waiting \in [Sids -> SUBSET LobbyIds]

-----------------------------------------------------------------------------
(* Safety. *)

\* An account is bound to at most one live session, and by_account is exactly the
\* inverse of the sessions' own account fields: remove_session, bind_account and
\* the two kicks keep the two tables in step.
AccountBinding ==
    /\ \A a \in DOMAIN byAccount :
          byAccount[a] \in Live /\ sessions[byAccount[a]].account = a
    /\ \A s \in Live : sessions[s].account # None =>
          /\ sessions[s].account \in DOMAIN byAccount
          /\ byAccount[sessions[s].account] = s

\* A lobby never outlives the people in it: its host and its joiner are live
\* registered sessions, two different ones.  (close_lobby and joiner_left are
\* called wherever remove_session is.)
LobbyMembersLive ==
    \A l \in DOMAIN lobbies :
        LET host == lobbies[l].host
            joiner == lobbies[l].joiner
        IN  /\ host \in Live /\ sessions[host].account # None
            /\ joiner # None => joiner \in Live /\ sessions[joiner].account # None
            /\ joiner # host

\* "open" and "full" tell whether the seat is taken, whatever joins, leaves,
\* updates and match reports come in between; only "in_match" leaves it open.
SeatMatchesState ==
    \A l \in DOMAIN lobbies :
        /\ lobbies[l].state = "open" => lobbies[l].joiner = None
        /\ lobbies[l].state = "full" => lobbies[l].joiner # None

\* A join offer that can still be answered is about a lobby that still exists, is
\* still its host's, and has a free seat; the player who asked is still there.
PendingAnswerable ==
    \A p \in pending :
        /\ p.lobby \in DOMAIN lobbies
        /\ lobbies[p.lobby].host = p.host
        /\ lobbies[p.lobby].joiner = None
        /\ p.joiner \in Live /\ sessions[p.joiner].account # None /\ p.joiner # p.host

\* A host is never asked about two players for its one free seat.
OneOfferPerLobby ==
    \A p, q \in pending : p.lobby = q.lobby => p = q

\* No join request is dropped in silence: a client is waiting for an outcome
\* exactly while the hub has its request pending.
NoSilentDrop == \A s \in Sids : waiting[s] = Asked(s, pending)

\* A player is in at most one lobby: lobby_create and lobby_join_request refuse
\* whoever is "already in a lobby".
InOneLobby == \A s \in Live : Cardinality(HostedBy(s) \cup JoinedBy(s)) <= 1

\* Whoever is refused as "already in a lobby" is in one: a presence that names a
\* lobby names a lobby that still exists.
PresenceNamesLobby ==
    \A s \in Live : sessions[s].presence.lobby \in DOMAIN lobbies \cup {None}

\* A rendezvous entry names a live session that still uses that nonce, so no
\* endpoint is handed out for a player who has gone or has changed its nonce.
RendezvousOwned ==
    \A n \in DOMAIN rendezvous :
        rendezvous[n].session \in Live /\ sessions[rendezvous[n].session].nonce = n

-----------------------------------------------------------------------------
(* Liveness. *)

\* A player who asked to join is told the outcome: by the host's answer, by the
\* lobby's end, or by the sweeper.
JoinResolved ==
    \A s \in Sids, l \in LobbyIds : l \in waiting[s] ~> l \notin waiting[s]

\* The host of l was seen once, and has stopped pinging the nonce it has now.
Silent(l) ==
    /\ l \in DOMAIN lobbies
    /\ lobbies[l].hostPublic
    /\ lobbies[l].host \in Live
    /\ sessions[lobbies[l].host].nonce # None
    /\ ~ FreshPublic(lobbies[l].host)

\* A lobby does not stay listed for a host that stopped pinging: the entry goes
\* stale and expires and the sweeper closes the lobby, unless the host pings
\* again or the lobby ends first, whatever nonce it registers meanwhile.
UnreachableClosed == \A l \in LobbyIds : Silent(l) ~> ~ Silent(l)

=============================================================================
