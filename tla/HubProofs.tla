----------------------------- MODULE HubProofs -----------------------------
(* Theorems about Hub, for every number of connections, accounts and lobbies. *)
EXTENDS Hub, TLAPS

-----------------------------------------------------------------------------
(* The operators the hub's tables are updated with. *)

LEMMA PutType ==
    ASSUME NEW f, NEW k, NEW T, NEW v \in T, \A x \in DOMAIN f : f[x] \in T
    PROVE  Put(f, k, v) \in [DOMAIN f \cup {k} -> T]
BY DEF Put

LEMMA DropFacts ==
    ASSUME NEW f, NEW S
    PROVE  /\ DOMAIN Drop(f, S) = DOMAIN f \ S
           /\ \A x \in DOMAIN f \ S : Drop(f, S)[x] = f[x]
           /\ \A T : (\A x \in DOMAIN f : f[x] \in T)
                        => Drop(f, S) \in [DOMAIN f \ S -> T]
BY DEF Drop, Restrict

\* Presences change, and nothing else of a session.
Presences(ss, tt) ==
    /\ DOMAIN tt = DOMAIN ss
    /\ \A x \in DOMAIN ss : /\ tt[x].account = ss[x].account
                            /\ tt[x].nonce = ss[x].nonce
                            /\ tt[x].content = ss[x].content

LEMMA SetPresenceFacts ==
    ASSUME NEW ss, ss \in [DOMAIN ss -> Session], NEW S, NEW p \in Presence
    PROVE  /\ SetPresence(ss, S, p) \in [DOMAIN ss -> Session]
           /\ Presences(ss, SetPresence(ss, S, p))
BY DEF SetPresence, Presences, Session

LEMMA PresenceValues ==
    /\ Idle \in Presence
    /\ \A l \in Option(LobbyIds) : Hosting(l) \in Presence /\ Joined(l) \in Presence /\ InMatch(l) \in Presence
BY DEF Idle, Hosting, Joined, InMatch, Presence, Option

LEMMA ClosedPresencesFacts ==
    ASSUME NEW ss, ss \in [DOMAIN ss -> Session], NEW S
    PROVE  /\ ClosedPresences(ss, S) \in [DOMAIN ss -> Session]
           /\ Presences(ss, ClosedPresences(ss, S))
BY SetPresenceFacts, PresenceValues DEF ClosedPresences

LEMMA VacatedFacts ==
    ASSUME NEW lobby \in Lobby
    PROVE  /\ Vacated(lobby) \in Lobby
           /\ Vacated(lobby).host = lobby.host
           /\ Vacated(lobby).joiner = None
           /\ Vacated(lobby).state = IF lobby.state = "full" THEN "open" ELSE lobby.state
           /\ Vacated(lobby).match = lobby.match
BY DEF Vacated, Lobby, Option

LEMMA AskedFacts ==
    ASSUME NEW s, NEW P
    PROVE  \A l : l \in Asked(s, P) <=> \E p \in P : p.joiner = s /\ p.lobby = l
BY DEF Asked

LEMMA ToldFacts ==
    ASSUME waiting \in [Sids -> SUBSET LobbyIds], NEW P
    PROVE  /\ Told(P) \in [Sids -> SUBSET LobbyIds]
           /\ \A s \in Sids : Told(P)[s] = waiting[s] \ Asked(s, P)
BY DEF Told

-----------------------------------------------------------------------------
(* The inductive invariant.  A task in "auth" carries the account it looked up *)
(* and its session has none yet: that is what makes bind_account keep by_account*)
(* the inverse of the sessions' account fields.                                *)

AuthTasks ==
    \A s \in Sids : task[s].op = "auth" =>
        task[s].account \in Accounts /\ (s \in Live => sessions[s].account = None)

Types    == TypeOK /\ AuthTasks
Bindings == AccountBinding /\ RendezvousOwned
Seats    == LobbyMembersLive /\ SeatMatchesState
Joins    == PendingAnswerable /\ OneOfferPerLobby /\ NoSilentDrop

Inv == Types /\ Bindings /\ Seats /\ Joins

THEOREM InitInv == Init => Inv
<1>. SUFFICES ASSUME Init PROVE Inv  OBVIOUS
<1>0. DOMAIN Empty = {}  BY DEF Empty
<1>1. Types
  <2>1. \A S : Empty \in [DOMAIN Empty -> S]  BY DEF Empty
  <2>2. task \in [Sids -> Task] /\ waiting \in [Sids -> SUBSET LobbyIds]
    BY DEF Init, NoTask, Task, Option
  <2>3. TypeOK  BY <1>0, <2>1, <2>2 DEF Init, TypeOK
  <2>. QED  BY <2>3 DEF Types, AuthTasks, Init, NoTask
<1>2. Bindings /\ Seats  BY <1>0 DEF Init, Bindings, Seats, AccountBinding, RendezvousOwned,
                                     LobbyMembersLive, SeatMatchesState, Live
<1>3. Joins
  <2>1. \A s : Asked(s, {}) = {}  BY DEF Asked
  <2>. QED  BY <2>1 DEF Init, Joins, PendingAnswerable, OneOfferPerLobby, NoSilentDrop
<1>. QED  BY <1>1, <1>2, <1>3 DEF Inv

-----------------------------------------------------------------------------
(* What keeps each part of the invariant when only some tables change. *)

LEMMA TaskValues ==
    /\ NoTask \in Task
    /\ \A a \in Accounts : [NoTask EXCEPT !.op = "auth", !.account = a] \in Task
    /\ \A l \in Option(LobbyIds) : [NoTask EXCEPT !.op = "start", !.lobby = l] \in Task
    /\ [NoTask EXCEPT !.op = "end"] \in Task
BY DEF NoTask, Task, Option

\* Presences may change; accounts and nonces stay.
LEMMA KeptBindings ==
    ASSUME Bindings, Presences(sessions, sessions')
    PROVE  /\ byAccount' = byAccount => AccountBinding'
           /\ rendezvous' = rendezvous => RendezvousOwned'
BY DEF Bindings, AccountBinding, RendezvousOwned, Presences, Live

\* Tasks stay, or one of them is over or turns to something that is not a login.
LEMMA KeptAuthTasks ==
    ASSUME Types, Presences(sessions, sessions'),
           NEW s \in Sids, NEW t \in Task, t.op # "auth",
           task' = task \/ task' = [task EXCEPT ![s] = t]
    PROVE  AuthTasks' /\ task' \in [Sids -> Task]
BY DEF Types, TypeOK, AuthTasks, Presences, Live

\* Lobbies may change in everything but their members.
SameMembers ==
    /\ DOMAIN lobbies' = DOMAIN lobbies
    /\ \A l \in DOMAIN lobbies : /\ lobbies'[l].host = lobbies[l].host
                                 /\ lobbies'[l].joiner = lobbies[l].joiner

LEMMA KeptMembers ==
    ASSUME Seats, Joins, Presences(sessions, sessions'), SameMembers
    PROVE  /\ LobbyMembersLive'
           /\ pending' = pending => PendingAnswerable'
BY DEF Seats, Joins, LobbyMembersLive, PendingAnswerable, Presences, Live, SameMembers

LEMMA KeptSeats ==
    ASSUME Seats, Presences(sessions, sessions'), lobbies' = lobbies
    PROVE  Seats'
BY DEF Seats, LobbyMembersLive, SeatMatchesState, Presences, Live

LEMMA KeptJoins ==
    ASSUME Joins, Presences(sessions, sessions'), SameMembers,
           pending' = pending, waiting' = waiting
    PROVE  Joins'
BY DEF Joins, PendingAnswerable, OneOfferPerLobby, NoSilentDrop, Presences, Live, SameMembers

-----------------------------------------------------------------------------
(* remove_session. *)

LEMMA RemovedTypes ==
    ASSUME TypeOK, NEW s \in Live
    PROVE  /\ RemovedSessions(s) \in [Live \ {s} -> Session]
           /\ Presences(Drop(sessions, {s}), RemovedSessions(s))
           /\ DOMAIN RemovedByAccount(s) \subseteq Accounts
           /\ RemovedByAccount(s) \in [DOMAIN RemovedByAccount(s) -> Sids]
           /\ RemovedLobbies(s) \in [DOMAIN lobbies \ HostedBy(s) -> Lobby]
           /\ RemovedPending(s) \subseteq PendingJoin
           /\ RemovedRendezvous(s) \in [DOMAIN rendezvous \ {sessions[s].nonce} -> RendezvousEntry]
           /\ RemovedWaiting(s) \in [Sids -> SUBSET LobbyIds]
<1>1. /\ RemovedSessions(s) \in [Live \ {s} -> Session]
      /\ Presences(Drop(sessions, {s}), RemovedSessions(s))
  <2>1. Drop(sessions, {s}) \in [Live \ {s} -> Session]
    BY DropFacts DEF TypeOK, Live
  <2>. QED  BY <2>1, ClosedPresencesFacts DEF RemovedSessions
<1>2. /\ DOMAIN RemovedByAccount(s) \subseteq Accounts
      /\ RemovedByAccount(s) \in [DOMAIN RemovedByAccount(s) -> Sids]
  <2>. DEFINE S == {a \in DOMAIN byAccount : a = sessions[s].account /\ byAccount[a] = s}
  <2>1. RemovedByAccount(s) = Drop(byAccount, S)  BY DEF RemovedByAccount
  <2>2. \A a \in DOMAIN byAccount : byAccount[a] \in Sids  BY DEF TypeOK
  <2>3. Drop(byAccount, S) \in [DOMAIN byAccount \ S -> Sids]  BY <2>2, DropFacts
  <2>. QED  BY <2>1, <2>3 DEF TypeOK
<1>3. RemovedLobbies(s) \in [DOMAIN lobbies \ HostedBy(s) -> Lobby]
  BY VacatedFacts DEF RemovedLobbies, TypeOK
<1>4. RemovedPending(s) \subseteq PendingJoin
  BY DEF RemovedPending, TypeOK
<1>5. RemovedRendezvous(s) \in [DOMAIN rendezvous \ {sessions[s].nonce} -> RendezvousEntry]
  BY DropFacts DEF RemovedRendezvous, TypeOK
<1>6. RemovedWaiting(s) \in [Sids -> SUBSET LobbyIds]
  BY ToldFacts DEF RemovedWaiting, TypeOK
<1>. QED  BY <1>1, <1>2, <1>3, <1>4, <1>5, <1>6

\* Who is left, and with which account and nonce.
LEMMA RemovedIdentities ==
    ASSUME TypeOK, NEW s \in Live
    PROVE  /\ DOMAIN RemovedSessions(s) = Live \ {s}
           /\ \A x \in Live \ {s} : /\ RemovedSessions(s)[x].account = sessions[x].account
                                    /\ RemovedSessions(s)[x].nonce = sessions[x].nonce
<1>1. /\ DOMAIN Drop(sessions, {s}) = Live \ {s}
      /\ \A x \in Live \ {s} : Drop(sessions, {s})[x] = sessions[x]
  BY DropFacts DEF Live
<1>2. Presences(Drop(sessions, {s}), RemovedSessions(s))
  BY RemovedTypes
<1>. QED  BY <1>1, <1>2 DEF Presences

LEMMA RemovedIndex ==
    ASSUME TypeOK, AccountBinding, NEW s \in Live
    PROVE  /\ DOMAIN RemovedByAccount(s) = {a \in DOMAIN byAccount : byAccount[a] # s}
           /\ \A a \in DOMAIN RemovedByAccount(s) : RemovedByAccount(s)[a] = byAccount[a]
<1>. DEFINE S == {a \in DOMAIN byAccount : a = sessions[s].account /\ byAccount[a] = s}
<1>1. RemovedByAccount(s) = Drop(byAccount, S)  BY DEF RemovedByAccount
<1>2. DOMAIN byAccount \ S = {a \in DOMAIN byAccount : byAccount[a] # s}
  BY DEF AccountBinding
<1>3. /\ DOMAIN Drop(byAccount, S) = DOMAIN byAccount \ S
      /\ \A a \in DOMAIN byAccount \ S : Drop(byAccount, S)[a] = byAccount[a]
  BY DropFacts
<1>. QED  BY <1>1, <1>2, <1>3

\* The rest of the hub once s is out of it, whatever happens to the others' accounts
\* as long as those bound stay bound.
StillBound(s) ==
    \A x \in Live \ {s} :
        /\ x \in DOMAIN sessions'
        /\ sessions'[x].nonce = sessions[x].nonce
        /\ sessions[x].account # None => sessions'[x].account # None

LEMMA RemovedSeats ==
    ASSUME Types, Seats, NEW s \in Live, StillBound(s), lobbies' = RemovedLobbies(s)
    PROVE  Seats'
<1>1. \A l \in DOMAIN lobbies' :
         /\ l \in DOMAIN lobbies
         /\ lobbies[l].host # s
         /\ lobbies[l] \in Lobby
         /\ lobbies'[l] = IF lobbies[l].joiner = s THEN Vacated(lobbies[l]) ELSE lobbies[l]
  BY DEF RemovedLobbies, HostedBy, Types, TypeOK
<1>2. LobbyMembersLive'
  <2>. SUFFICES ASSUME NEW l \in DOMAIN lobbies'
                PROVE  /\ lobbies'[l].host \in Live' /\ sessions'[lobbies'[l].host].account # None
                       /\ lobbies'[l].joiner # None =>
                             /\ lobbies'[l].joiner \in Live'
                             /\ sessions'[lobbies'[l].joiner].account # None
                       /\ lobbies'[l].joiner # lobbies'[l].host
    BY DEF LobbyMembersLive
  <2>1. lobbies'[l].host = lobbies[l].host
    BY <1>1, VacatedFacts
  <2>2. lobbies'[l].joiner = IF lobbies[l].joiner = s THEN None ELSE lobbies[l].joiner
    BY <1>1, VacatedFacts
  <2>3. lobbies[l].host \in Live \ {s} /\ lobbies[l].host # None
    BY <1>1, HubAssumption DEF Seats, LobbyMembersLive, Lobby
  <2>. QED  BY <1>1, <2>1, <2>2, <2>3 DEF Seats, LobbyMembersLive, StillBound, Live
<1>3. SeatMatchesState'
  <2>. SUFFICES ASSUME NEW l \in DOMAIN lobbies'
                PROVE  /\ lobbies'[l].state = "open" => lobbies'[l].joiner = None
                       /\ lobbies'[l].state = "full" => lobbies'[l].joiner # None
    BY DEF SeatMatchesState
  <2>1. CASE lobbies[l].joiner = s
    BY <1>1, <2>1, VacatedFacts
  <2>2. CASE lobbies[l].joiner # s
    BY <1>1, <2>2 DEF Seats, SeatMatchesState
  <2>. QED  BY <2>1, <2>2
<1>. QED  BY <1>2, <1>3 DEF Seats

LEMMA RemovedJoins ==
    ASSUME Types, Joins, NEW s \in Live, StillBound(s),
           lobbies' = RemovedLobbies(s), pending' = RemovedPending(s),
           waiting' = RemovedWaiting(s)
    PROVE  Joins'
<1>1. PendingAnswerable'
  <2>. SUFFICES ASSUME NEW p \in pending'
                PROVE  /\ p.lobby \in DOMAIN lobbies' /\ lobbies'[p.lobby].host = p.host
                       /\ lobbies'[p.lobby].joiner = None
                       /\ p.joiner \in Live' /\ sessions'[p.joiner].account # None
                       /\ p.joiner # p.host
    BY DEF PendingAnswerable
  <2>1. p \in pending /\ p.lobby \notin HostedBy(s) /\ p.joiner # s
    BY DEF RemovedPending
  <2>2. /\ p.lobby \in DOMAIN lobbies /\ lobbies[p.lobby].host = p.host
        /\ lobbies[p.lobby].joiner = None /\ p.joiner \in Live
        /\ sessions[p.joiner].account # None /\ p.joiner # p.host
    BY <2>1 DEF Joins, PendingAnswerable
  <2>3. s # None
    BY HubAssumption DEF Types, TypeOK, Live
  <2>4. lobbies'[p.lobby] = lobbies[p.lobby]
    BY <2>1, <2>2, <2>3 DEF RemovedLobbies
  <2>. QED  BY <2>1, <2>2, <2>4 DEF RemovedLobbies, StillBound, Live
<1>2. OneOfferPerLobby'
  BY DEF Joins, OneOfferPerLobby, RemovedPending
<1>3. NoSilentDrop'
  <2>. SUFFICES ASSUME NEW x \in Sids PROVE waiting'[x] = Asked(x, pending')
    BY DEF NoSilentDrop
  <2>. DEFINE P == PendingAt(HostedBy(s))
  <2>1. Told(P)[x] = Asked(x, pending) \ Asked(x, P) /\ Told(P) \in [Sids -> SUBSET LobbyIds]
    BY ToldFacts DEF Joins, NoSilentDrop, Types, TypeOK
  <2>2. CASE x = s
    <3>1. waiting'[x] = {}  BY <2>1, <2>2 DEF RemovedWaiting
    <3>2. \A p \in pending' : p.joiner # x  BY <2>2 DEF RemovedPending
    <3>. QED  BY <3>1, <3>2, AskedFacts
  <2>3. CASE x # s
    <3>1. waiting'[x] = Asked(x, pending) \ Asked(x, P)
      BY <2>1, <2>3 DEF RemovedWaiting
    <3>2. \A p \in pending : p \in P <=> p.lobby \in HostedBy(s)
      BY DEF PendingAt
    <3>3. \A p : p \in pending' <=> p \in pending /\ p.lobby \notin HostedBy(s) /\ p.joiner # s
      BY DEF RemovedPending
    <3>4. P \subseteq pending  BY DEF PendingAt
    <3>5. ASSUME NEW l PROVE l \in waiting'[x] <=> l \in Asked(x, pending')
      BY <2>3, <3>1, <3>2, <3>3, <3>4, AskedFacts
    <3>. QED  BY <3>5
  <2>. QED  BY <2>2, <2>3
<1>. QED  BY <1>1, <1>2, <1>3 DEF Joins

LEMMA RemovedRendezvousOwned ==
    ASSUME Types, RendezvousOwned, NEW s \in Live, StillBound(s),
           rendezvous' = RemovedRendezvous(s)
    PROVE  RendezvousOwned'
<1>1. \A n \in DOMAIN rendezvous' : /\ n \in DOMAIN rendezvous /\ n # sessions[s].nonce
                                    /\ rendezvous'[n] = rendezvous[n]
  <2>. DEFINE n == sessions[s].nonce
  <2>1. rendezvous' = Drop(rendezvous, {n})  BY DEF RemovedRendezvous
  <2>2. /\ DOMAIN Drop(rendezvous, {n}) = DOMAIN rendezvous \ {n}
        /\ \A x \in DOMAIN rendezvous \ {n} : Drop(rendezvous, {n})[x] = rendezvous[x]
    BY DropFacts
  <2>. HIDE DEF n
  <2>3. \A x \in DOMAIN rendezvous' : x \in DOMAIN rendezvous /\ x # n /\ rendezvous'[x] = rendezvous[x]
    BY <2>1, <2>2
  <2>. QED  BY <2>3 DEF n
<1>. QED  BY <1>1 DEF RendezvousOwned, StillBound, Live

LEMMA RemoveInv ==
    ASSUME Inv, NEW s \in Live, Remove(s), UNCHANGED task
    PROVE  Inv'
<1>. USE DEF Inv
<1>1. TypeOK /\ AccountBinding /\ RendezvousOwned
  BY DEF Types, Bindings
<1>2. DOMAIN sessions' = Live \ {s} /\ StillBound(s)
      /\ \A x \in Live \ {s} : sessions'[x].account = sessions[x].account
  BY <1>1, RemovedIdentities DEF Remove, StillBound
<1>3. Types'
  <2>1. TypeOK'  BY <1>1, RemovedTypes DEF Remove, TypeOK, Live
  <2>2. AuthTasks'  BY <1>2 DEF Types, AuthTasks, Live
  <2>. QED  BY <2>1, <2>2 DEF Types
<1>4. Bindings'
  <2>1. AccountBinding'
    <3>1. /\ DOMAIN byAccount' = {a \in DOMAIN byAccount : byAccount[a] # s}
          /\ \A a \in DOMAIN byAccount' : byAccount'[a] = byAccount[a]
      BY <1>1, RemovedIndex DEF Remove
    <3>. QED  BY <1>1, <1>2, <3>1 DEF AccountBinding, Live
  <2>. QED  BY <1>1, <1>2, <2>1, RemovedRendezvousOwned DEF Bindings, Remove
<1>5. Seats' /\ Joins'
  BY <1>2, RemovedSeats, RemovedJoins DEF Remove
<1>. QED  BY <1>3, <1>4, <1>5

-----------------------------------------------------------------------------
(* One step per action. *)

LEMMA ConnectInv == ASSUME Inv, NEW s \in Sids, Connect(s) PROVE Inv'
<1>. USE DEF Inv
<1>1. /\ sessions' = Put(sessions, s, NewSession) /\ s \notin Live /\ task[s] = NoTask
      /\ byAccount' = byAccount /\ lobbies' = lobbies /\ pending' = pending
      /\ rendezvous' = rendezvous /\ task' = task /\ waiting' = waiting
  BY DEF Connect
<1>2. NewSession \in Session /\ NewSession.account = None
  BY PresenceValues DEF NewSession, Session, Option
<1>3. /\ DOMAIN sessions' = Live \cup {s} /\ sessions'[s] = NewSession
      /\ \A x \in Live : sessions'[x] = sessions[x]
  BY <1>1 DEF Put, Live
<1>4. Types'
  <2>1. sessions' \in [Live \cup {s} -> Session]
    <3>1. \A x \in DOMAIN sessions : sessions[x] \in Session  BY DEF Types, TypeOK
    <3>. QED  BY <1>1, <1>2, <3>1, PutType DEF Live
  <2>2. TypeOK'  BY <1>1, <1>3, <2>1 DEF Types, TypeOK, Live
  <2>3. AuthTasks'  BY <1>1, <1>2, <1>3 DEF Types, AuthTasks, NoTask, Live
  <2>. QED  BY <2>2, <2>3 DEF Types
<1>5. Bindings'
  BY <1>1, <1>2, <1>3 DEF Bindings, AccountBinding, RendezvousOwned, Live
<1>6. Seats'
  BY <1>1, <1>3 DEF Seats, LobbyMembersLive, SeatMatchesState, Live
<1>7. Joins'
  BY <1>1, <1>3 DEF Joins, PendingAnswerable, OneOfferPerLobby, NoSilentDrop, Live
<1>. QED  BY <1>4, <1>5, <1>6, <1>7

\* The sessions' presences or contents change, or only a task does.
LEMMA QuietInv ==
    ASSUME Inv, NEW s \in Sids, NEW t \in Task, t.op # "auth",
           task' = task \/ task' = [task EXCEPT ![s] = t],
           sessions' \in [Live -> Session], Presences(sessions, sessions'),
           UNCHANGED <<byAccount, lobbies, pending, rendezvous, waiting>>
    PROVE  Inv'
<1>. USE DEF Inv
<1>1. Types'  BY KeptAuthTasks DEF Types, TypeOK, Live
<1>2. Bindings'  BY KeptBindings DEF Bindings
<1>3. SameMembers  BY DEF SameMembers
<1>4. Seats' /\ Joins'  BY <1>3, KeptSeats, KeptJoins
<1>. QED  BY <1>1, <1>2, <1>4

LEMMA HelloInv == ASSUME Inv, NEW s \in Sids, Hello(s) PROVE Inv'
<1>1. PICK h \in Option(Hashes) : sessions' = [sessions EXCEPT ![s].content = h]
  BY DEF Hello
<1>2. sessions' \in [Live -> Session]
  BY <1>1 DEF Inv, Types, TypeOK, Live, Session
<1>3. TypeOK' /\ AuthTasks'
  BY <1>1, <1>2 DEF Hello, Inv, Types, TypeOK, AuthTasks, Live
<1>4. /\ DOMAIN sessions' = Live
      /\ \A x \in Live : sessions'[x].account = sessions[x].account /\ sessions'[x].nonce = sessions[x].nonce
  BY <1>1 DEF Inv, Types, TypeOK, Live, Session
<1>5. Bindings' /\ Seats' /\ Joins'
  BY <1>4 DEF Hello, Inv, Bindings, AccountBinding, RendezvousOwned, Seats, LobbyMembersLive,
              SeatMatchesState, Joins, PendingAnswerable, OneOfferPerLobby, NoSilentDrop, Live
<1>. QED  BY <1>3, <1>5 DEF Inv, Types

LEMMA AuthenticateInv == ASSUME Inv, NEW s \in Sids, Authenticate(s) PROVE Inv'
<1>. USE DEF Inv
<1>1. PICK a \in Accounts : task' = [task EXCEPT ![s] = [NoTask EXCEPT !.op = "auth", !.account = a]]
  BY DEF Authenticate
<1>2. UNCHANGED <<sessions, byAccount, lobbies, pending, rendezvous, waiting>>
      /\ sessions[s].account = None
  BY DEF Authenticate
<1>3. Types'
  BY <1>1, <1>2, TaskValues DEF Types, TypeOK, AuthTasks, NoTask, Live
<1>4. Bindings' /\ Seats' /\ Joins'
  BY <1>2 DEF Bindings, AccountBinding, RendezvousOwned, Seats, LobbyMembersLive,
              SeatMatchesState, Joins, PendingAnswerable, OneOfferPerLobby, NoSilentDrop, Live
<1>. QED  BY <1>3, <1>4

\* bind_account gives s, when it is still there, the account a, after which
\* nobody else has it.
LEMMA BoundFacts ==
    ASSUME NEW ss, ss \in [DOMAIN ss -> Session], NEW s, NEW a \in Accounts,
           NEW tt, tt = IF s \in DOMAIN ss THEN [ss EXCEPT ![s].account = a] ELSE ss
    PROVE  /\ DOMAIN tt = DOMAIN ss
           /\ tt \in [DOMAIN ss -> Session]
           /\ \A x \in DOMAIN ss : /\ tt[x].nonce = ss[x].nonce
                                   /\ tt[x].account = IF x = s THEN a ELSE ss[x].account
<1>1. CASE s \in DOMAIN ss
  <2>1. tt = [ss EXCEPT ![s].account = a]  BY <1>1
  <2>2. a \in Option(Accounts)  BY DEF Option
  <2>. QED  BY <1>1, <2>1, <2>2 DEF Session
<1>2. CASE s \notin DOMAIN ss
  BY <1>2
<1>. QED  BY <1>1, <1>2

LEMMA BindAccountInv == ASSUME Inv, NEW s \in Sids, BindAccount(s) PROVE Inv'
<1>. USE DEF Inv
<1>. DEFINE a == task[s].account
<1>1. a \in Accounts /\ task[s].op = "auth" /\ (s \in Live => sessions[s].account = None)
  BY DEF BindAccount, Types, AuthTasks
<1>2. task' = [task EXCEPT ![s] = NoTask] /\ NoTask \in Task /\ NoTask.op # "auth"
  BY TaskValues DEF BindAccount, NoTask
<1>3. a # None /\ s # None
  BY <1>1, HubAssumption
<1>4. TypeOK /\ AccountBinding /\ RendezvousOwned
  BY DEF Types, Bindings
<1>5. task' \in [Sids -> Task] /\ \A x \in Sids : task'[x].op = "auth" => x # s /\ task'[x] = task[x]
  BY <1>2, <1>4 DEF TypeOK
<1>6. CASE a \in DOMAIN byAccount /\ byAccount[a] # s
  <2>. DEFINE old == byAccount[a]
  <2>1. old \in Live /\ sessions[old].account = a /\ old # s
    BY <1>4, <1>6 DEF AccountBinding
  <2>2. /\ sessions' = IF s \in DOMAIN RemovedSessions(old)
                       THEN [RemovedSessions(old) EXCEPT ![s].account = a] ELSE RemovedSessions(old)
        /\ byAccount' = IF s \in Live THEN Put(RemovedByAccount(old), a, s) ELSE RemovedByAccount(old)
        /\ lobbies' = RemovedLobbies(old) /\ pending' = RemovedPending(old)
        /\ rendezvous' = RemovedRendezvous(old) /\ waiting' = RemovedWaiting(old)
    BY <1>6 DEF BindAccount
  <2>. HIDE DEF a, old
  <2>3. /\ DOMAIN RemovedSessions(old) = Live \ {old}
        /\ RemovedSessions(old) \in [DOMAIN RemovedSessions(old) -> Session]
        /\ \A x \in Live \ {old} : /\ RemovedSessions(old)[x].account = sessions[x].account
                                   /\ RemovedSessions(old)[x].nonce = sessions[x].nonce
    BY <1>4, <2>1, RemovedTypes, RemovedIdentities
  <2>4. /\ DOMAIN sessions' = Live \ {old} /\ sessions' \in [Live \ {old} -> Session]
        /\ \A x \in Live \ {old} :
              /\ sessions'[x].nonce = sessions[x].nonce
              /\ sessions'[x].account = IF x = s THEN a ELSE sessions[x].account
    BY <1>1, <2>2, <2>3, BoundFacts
  <2>5. StillBound(old)
    BY <1>3, <2>4 DEF StillBound
  <2>6. /\ DOMAIN RemovedByAccount(old) = {b \in DOMAIN byAccount : byAccount[b] # old}
        /\ \A b \in DOMAIN RemovedByAccount(old) : RemovedByAccount(old)[b] = byAccount[b]
    BY <1>4, <2>1, RemovedIndex
  <2>7. ASSUME s \in Live
        PROVE  /\ AccountBinding' /\ DOMAIN byAccount' \subseteq Accounts
               /\ byAccount' \in [DOMAIN byAccount' -> Sids]
    <3>1. byAccount' = Put(RemovedByAccount(old), a, s)  BY <2>2, <2>7
    <3>2. /\ DOMAIN byAccount' = DOMAIN RemovedByAccount(old) \cup {a} /\ byAccount'[a] = s
          /\ \A b \in DOMAIN RemovedByAccount(old) : b # a => byAccount'[b] = RemovedByAccount(old)[b]
      BY <3>1 DEF Put
    <3>3. DOMAIN byAccount' \subseteq Accounts /\ byAccount' \in [DOMAIN byAccount' -> Sids]
      <4>1. \A b \in DOMAIN RemovedByAccount(old) : RemovedByAccount(old)[b] \in Sids
        BY <1>4, <2>6 DEF TypeOK
      <4>2. byAccount' \in [DOMAIN RemovedByAccount(old) \cup {a} -> Sids]
        BY <3>1, <4>1, PutType
      <4>. QED  BY <1>1, <1>4, <2>6, <3>2, <4>2 DEF TypeOK
    <3>4. AccountBinding'
      <4>1. ASSUME NEW b \in DOMAIN byAccount'
            PROVE  byAccount'[b] \in Live' /\ sessions'[byAccount'[b]].account = b
        <5>1. CASE b = a  BY <2>1, <2>4, <2>7, <3>2, <5>1 DEF Live
        <5>2. CASE b # a
          <6>1. b \in DOMAIN byAccount /\ byAccount'[b] = byAccount[b] /\ byAccount[b] # old
            BY <2>6, <3>2, <5>2
          <6>2. byAccount[b] \in Live /\ sessions[byAccount[b]].account = b /\ b # None
            BY <1>4, <6>1, HubAssumption DEF AccountBinding, TypeOK
          <6>3. byAccount[b] # s  BY <1>1, <2>7, <6>2
          <6>. QED  BY <2>4, <6>1, <6>2, <6>3 DEF Live
        <5>. QED  BY <5>1, <5>2
      <4>2. ASSUME NEW x \in Live', sessions'[x].account # None
            PROVE  sessions'[x].account \in DOMAIN byAccount' /\ byAccount'[sessions'[x].account] = x
        <5>1. x \in Live \ {old}  BY <2>4 DEF Live
        <5>2. CASE x = s  BY <2>4, <3>2, <5>1, <5>2
        <5>3. CASE x # s
          <6>. DEFINE b == sessions[x].account
          <6>1. sessions'[x].account = b /\ b # None  BY <2>4, <4>2, <5>1, <5>3
          <6>2. b \in DOMAIN byAccount /\ byAccount[b] = x  BY <1>4, <5>1, <6>1 DEF AccountBinding
          <6>3. b # a  BY <2>1, <5>1, <6>2 DEF old
          <6>. QED  BY <2>6, <3>2, <5>1, <6>1, <6>2, <6>3
        <5>. QED  BY <5>2, <5>3
      <4>. QED  BY <4>1, <4>2 DEF AccountBinding
    <3>. QED  BY <3>3, <3>4
  <2>8. ASSUME s \notin Live
        PROVE  /\ AccountBinding' /\ DOMAIN byAccount' \subseteq Accounts
               /\ byAccount' \in [DOMAIN byAccount' -> Sids]
    <3>1. byAccount' = RemovedByAccount(old) /\ \A x \in Live \ {old} : sessions'[x].account = sessions[x].account
      BY <2>2, <2>4, <2>8
    <3>2. DOMAIN byAccount' \subseteq Accounts /\ byAccount' \in [DOMAIN byAccount' -> Sids]
      BY <1>4, <2>1, <3>1, RemovedTypes
    <3>3. AccountBinding'
      BY <1>4, <2>4, <2>6, <3>1 DEF AccountBinding, Live
    <3>. QED  BY <3>2, <3>3
  <2>9. Types'
    <3>1. DOMAIN byAccount' \subseteq Accounts /\ byAccount' \in [DOMAIN byAccount' -> Sids]
      BY <2>7, <2>8
    <3>2. /\ lobbies' \in [DOMAIN lobbies \ HostedBy(old) -> Lobby] /\ pending' \subseteq PendingJoin
          /\ rendezvous' \in [DOMAIN rendezvous \ {sessions[old].nonce} -> RendezvousEntry]
          /\ waiting' \in [Sids -> SUBSET LobbyIds]
      BY <1>4, <2>1, <2>2, RemovedTypes
    <3>3. TypeOK'
      BY <1>4, <1>5, <2>4, <3>1, <3>2 DEF TypeOK, Live
    <3>4. AuthTasks'  BY <1>5, <2>4 DEF Types, AuthTasks, Live
    <3>. QED  BY <3>3, <3>4 DEF Types
  <2>10. Bindings'
    BY <1>4, <2>1, <2>2, <2>5, <2>7, <2>8, RemovedRendezvousOwned DEF Bindings
  <2>11. Seats' /\ Joins'
    BY <2>1, <2>2, <2>5, RemovedSeats, RemovedJoins
  <2>. QED  BY <2>9, <2>10, <2>11
<1>7. CASE ~ (a \in DOMAIN byAccount /\ byAccount[a] # s)
  <2>1. /\ sessions' = IF s \in DOMAIN sessions THEN [sessions EXCEPT ![s].account = a] ELSE sessions
        /\ byAccount' = IF s \in Live THEN Put(byAccount, a, s) ELSE byAccount
        /\ UNCHANGED <<lobbies, pending, rendezvous, waiting>>
    BY <1>7 DEF BindAccount, Live
  <2>. HIDE DEF a
  <2>2. /\ DOMAIN sessions' = Live /\ sessions' \in [Live -> Session]
        /\ \A x \in Live : /\ sessions'[x].nonce = sessions[x].nonce
                           /\ sessions'[x].account = IF x = s THEN a ELSE sessions[x].account
    <3>1. sessions \in [DOMAIN sessions -> Session]  BY <1>4 DEF TypeOK
    <3>. QED  BY <1>1, <2>1, <3>1, BoundFacts DEF Live
  <2>3. s \in Live => a \notin DOMAIN byAccount
    BY <1>1, <1>3, <1>4, <1>7 DEF AccountBinding, a
  <2>4a. a \notin DOMAIN byAccount => \A b \in DOMAIN byAccount : Put(byAccount, a, s)[b] = byAccount[b]
    BY DEF Put
  <2>4. /\ DOMAIN byAccount' = IF s \in Live THEN DOMAIN byAccount \cup {a} ELSE DOMAIN byAccount
        /\ s \in Live => byAccount'[a] = s
        /\ \A b \in DOMAIN byAccount : byAccount'[b] = byAccount[b]
    <3>1. CASE s \in Live
      <4>1. byAccount' = Put(byAccount, a, s)  BY <2>1, <3>1
      <4>2. DOMAIN Put(byAccount, a, s) = DOMAIN byAccount \cup {a} /\ Put(byAccount, a, s)[a] = s
        BY DEF Put
      <4>. QED  BY <2>3, <2>4a, <3>1, <4>1, <4>2
    <3>2. CASE s \notin Live  BY <2>1, <3>2
    <3>. QED  BY <3>1, <3>2
  <2>5. byAccount' \in [DOMAIN byAccount' -> Sids]
    <3>1. \A b \in DOMAIN byAccount : byAccount[b] \in Sids  BY <1>4 DEF TypeOK
    <3>2. Put(byAccount, a, s) \in [DOMAIN byAccount \cup {a} -> Sids]  BY <3>1, PutType
    <3>. QED  BY <1>4, <2>1, <2>4, <3>2 DEF TypeOK
  <2>6. Types'
    <3>1. TypeOK'  BY <1>1, <1>4, <1>5, <2>1, <2>2, <2>4, <2>5 DEF TypeOK, Live
    <3>2. AuthTasks'  BY <1>5, <2>2 DEF Types, AuthTasks, Live
    <3>. QED  BY <3>1, <3>2 DEF Types
  <2>7. Bindings'
    <3>1. AccountBinding'
      <4>1. ASSUME NEW b \in DOMAIN byAccount'
            PROVE  byAccount'[b] \in Live' /\ sessions'[byAccount'[b]].account = b
        <5>1. CASE b \in DOMAIN byAccount
          <6>1. byAccount[b] \in Live /\ sessions[byAccount[b]].account = b /\ b # None
            BY <1>4, <5>1, HubAssumption DEF AccountBinding, TypeOK
          <6>2. byAccount[b] # s  BY <1>1, <6>1
          <6>. QED  BY <2>2, <2>4, <5>1, <6>1, <6>2 DEF Live
        <5>2. CASE b \notin DOMAIN byAccount  BY <2>2, <2>4, <5>2 DEF Live
        <5>. QED  BY <5>1, <5>2
      <4>2. ASSUME NEW x \in Live', sessions'[x].account # None
            PROVE  sessions'[x].account \in DOMAIN byAccount' /\ byAccount'[sessions'[x].account] = x
        BY <1>4, <2>2, <2>4, <4>2 DEF AccountBinding, Live
      <4>. QED  BY <4>1, <4>2 DEF AccountBinding
    <3>. QED  BY <1>4, <2>1, <2>2, <3>1 DEF Bindings, RendezvousOwned, Live
  <2>8. Seats' /\ Joins'
    BY <1>3, <2>1, <2>2 DEF Seats, LobbyMembersLive, SeatMatchesState, Joins, PendingAnswerable,
                            OneOfferPerLobby, NoSilentDrop, Live
  <2>. QED  BY <2>6, <2>7, <2>8
<1>. QED  BY <1>6, <1>7

LEMMA TaskOnlyInv ==
    ASSUME Inv, NEW s \in Sids, RequestFails(s) \/ MatchStart(s) \/ MatchEnd(s)
    PROVE  Inv'
<1>1. PICK t \in Task : t.op # "auth" /\ task' = [task EXCEPT ![s] = t]
  <2>1. CASE RequestFails(s)
    BY <2>1, TaskValues DEF RequestFails, NoTask
  <2>2. CASE MatchStart(s)
    <3>1. PICK l \in {h \in HostedBy(s) : lobbies[h].joiner # None} \cup {None} :
             task' = [task EXCEPT ![s] = [NoTask EXCEPT !.op = "start", !.lobby = l]]
      BY <2>2 DEF MatchStart
    <3>2. l \in Option(LobbyIds)
      BY DEF Inv, Types, TypeOK, HostedBy, Option
    <3>. QED  BY <3>1, <3>2, TaskValues DEF NoTask
  <2>3. CASE MatchEnd(s)
    BY <2>3, TaskValues DEF MatchEnd, NoTask
  <2>. QED  BY <2>1, <2>2, <2>3
<1>2. UNCHANGED <<sessions, byAccount, lobbies, pending, rendezvous, waiting>>
  BY DEF RequestFails, MatchStart, MatchEnd
<1>3. sessions' \in [Live -> Session] /\ Presences(sessions, sessions')
  BY <1>2 DEF Inv, Types, TypeOK, Live, Presences
<1>. QED  BY <1>1, <1>2, <1>3, QuietInv

LEMMA RendezvousRegisterInv ==
    ASSUME Inv, NEW s \in Sids, NEW n \in Nonces, RendezvousRegister(s, n)
    PROVE  Inv'
<1>. DEFINE old == sessions[s].nonce
            kept == IF old # n THEN Drop(rendezvous, {old}) ELSE rendezvous
<1>1. /\ s \in Live
      /\ sessions' = [sessions EXCEPT ![s].nonce = n]
      /\ rendezvous' = IF n \in DOMAIN kept THEN [kept EXCEPT ![n].session = s] ELSE kept
      /\ UNCHANGED <<byAccount, lobbies, pending, task, waiting>>
  BY DEF RendezvousRegister, Registered, Ready
<1>2. /\ DOMAIN sessions' = Live /\ sessions' \in [Live -> Session]
      /\ \A x \in Live : /\ sessions'[x].account = sessions[x].account
                         /\ sessions'[x].nonce = IF x = s THEN n ELSE sessions[x].nonce
  BY <1>1 DEF Inv, Types, TypeOK, Live, Session, Option
<1>. HIDE DEF old
<1>3. /\ DOMAIN kept = IF old # n THEN DOMAIN rendezvous \ {old} ELSE DOMAIN rendezvous
      /\ \A k \in DOMAIN kept : kept[k] = rendezvous[k]
  <2>1. /\ DOMAIN Drop(rendezvous, {old}) = DOMAIN rendezvous \ {old}
        /\ \A k \in DOMAIN rendezvous \ {old} : Drop(rendezvous, {old})[k] = rendezvous[k]
    BY DropFacts
  <2>. QED  BY <2>1
<1>4. kept \in [DOMAIN kept -> RendezvousEntry] /\ DOMAIN kept \subseteq DOMAIN rendezvous
  <2>1. \A k \in DOMAIN rendezvous : rendezvous[k] \in RendezvousEntry
    BY DEF Inv, Types, TypeOK
  <2>2. Drop(rendezvous, {old}) \in [DOMAIN rendezvous \ {old} -> RendezvousEntry]
    BY <2>1, DropFacts
  <2>. QED  BY <1>3, <2>2 DEF Inv, Types, TypeOK
<1>. HIDE DEF kept
<1>5. /\ DOMAIN rendezvous' = DOMAIN kept /\ rendezvous' \in [DOMAIN kept -> RendezvousEntry]
      /\ \A k \in DOMAIN kept : rendezvous'[k].session = IF k = n THEN s ELSE rendezvous[k].session
  BY <1>1, <1>3, <1>4 DEF RendezvousEntry
<1>6. Types'
  BY <1>1, <1>2, <1>4, <1>5 DEF Inv, Types, TypeOK, AuthTasks, Live
<1>7. RendezvousOwned'
  <2>. SUFFICES ASSUME NEW k \in DOMAIN kept
                PROVE  /\ rendezvous'[k].session \in Live
                       /\ sessions'[rendezvous'[k].session].nonce = k
    BY <1>2, <1>5 DEF RendezvousOwned, Live
  <2>1. CASE k = n  BY <1>1, <1>2, <1>5, <2>1
  <2>2. CASE k # n
    <3>1. k \in DOMAIN rendezvous /\ (old # n => k # old)
      BY <1>3
    <3>2. rendezvous[k].session \in Live /\ sessions[rendezvous[k].session].nonce = k
      BY <3>1 DEF Inv, Bindings, RendezvousOwned
    <3>3. rendezvous[k].session # s
      BY <2>2, <3>1, <3>2 DEF old
    <3>. QED  BY <1>2, <1>5, <2>2, <3>2, <3>3
  <2>. QED  BY <2>1, <2>2
<1>8. AccountBinding' /\ Seats' /\ Joins'
  BY <1>1, <1>2 DEF Inv, Bindings, AccountBinding, Seats, LobbyMembersLive, SeatMatchesState,
                    Joins, PendingAnswerable, OneOfferPerLobby, NoSilentDrop, Live
<1>. QED  BY <1>6, <1>7, <1>8 DEF Inv, Bindings

LEMMA ObserveInv ==
    ASSUME Inv, NEW s \in Sids, NEW moved \in BOOLEAN, Observe(s, moved)
    PROVE  Inv'
<1>. DEFINE n == sessions[s].nonce
            e == [session |-> s, age |-> "fresh"]
<1>1. /\ s \in Live /\ n \in Nonces
      /\ rendezvous' = Put(rendezvous, n, e)
      /\ UNCHANGED <<sessions, byAccount, pending, task, waiting>>
  <2>1. sessions[s].nonce \in Option(Nonces)
    BY DEF Observe, Inv, Types, TypeOK, Live, Session
  <2>. QED  BY <2>1 DEF Observe, Option
<1>2. /\ lobbies' \in [DOMAIN lobbies -> Lobby] /\ SameMembers
      /\ \A l \in DOMAIN lobbies : lobbies'[l].state = lobbies[l].state
  BY DEF Observe, Inv, Types, TypeOK, Lobby, SameMembers
<1>3. /\ DOMAIN rendezvous' = DOMAIN rendezvous \cup {n}
      /\ rendezvous' \in [DOMAIN rendezvous \cup {n} -> RendezvousEntry]
      /\ rendezvous'[n].session = s
      /\ \A k \in DOMAIN rendezvous : k # n => rendezvous'[k] = rendezvous[k]
  <2>1. e \in RendezvousEntry  BY DEF RendezvousEntry, Age
  <2>2. \A k \in DOMAIN rendezvous : rendezvous[k] \in RendezvousEntry
    BY DEF Inv, Types, TypeOK
  <2>3. Put(rendezvous, n, e) \in [DOMAIN rendezvous \cup {n} -> RendezvousEntry]
    BY <2>1, <2>2, PutType
  <2>. QED  BY <1>1, <2>3 DEF Put
<1>4. Types'
  BY <1>1, <1>2, <1>3 DEF Inv, Types, TypeOK, AuthTasks, Live
<1>5. Presences(sessions, sessions')  BY <1>1 DEF Presences
<1>6. Bindings'
  <2>1. AccountBinding'  BY <1>1, <1>5, KeptBindings DEF Inv
  <2>2. RendezvousOwned'
    BY <1>1, <1>3 DEF Inv, Bindings, RendezvousOwned, Live
  <2>. QED  BY <2>1, <2>2 DEF Bindings
<1>7. Seats' /\ Joins'
  <2>1. SeatMatchesState'
    BY <1>2 DEF Inv, Seats, SeatMatchesState, SameMembers
  <2>. QED  BY <1>1, <1>2, <1>5, <2>1, KeptMembers, KeptJoins DEF Inv, Seats
<1>. QED  BY <1>4, <1>6, <1>7 DEF Inv

LEMMA RendezvousAgesInv ==
    ASSUME Inv, NEW n \in Nonces, RendezvousAges(n)
    PROVE  Inv'
<1>1. /\ DOMAIN rendezvous' = DOMAIN rendezvous
      /\ rendezvous' \in [DOMAIN rendezvous -> RendezvousEntry]
      /\ \A k \in DOMAIN rendezvous : rendezvous'[k].session = rendezvous[k].session
  BY DEF RendezvousAges, Inv, Types, TypeOK, RendezvousEntry, Age
<1>2. UNCHANGED <<sessions, byAccount, lobbies, pending, task, waiting>>
  BY DEF RendezvousAges
<1>. QED  BY <1>1, <1>2 DEF Inv, Types, TypeOK, AuthTasks, Bindings, AccountBinding, RendezvousOwned,
                          Seats, LobbyMembersLive, SeatMatchesState, Joins, PendingAnswerable,
                          OneOfferPerLobby, NoSilentDrop, Live

LEMMA CreateInv ==
    ASSUME Inv, NEW s \in Sids, NEW l \in LobbyIds, Create(s, l)
    PROVE  Inv'
<1>. DEFINE lobby == [host |-> s, content |-> sessions[s].content, state |-> "open",
                      joiner |-> None, match |-> None, hostPublic |-> FreshPublic(s)]
<1>1. /\ s \in Live /\ sessions[s].account # None /\ l \notin DOMAIN lobbies
      /\ sessions[s].content # None
      /\ lobbies' = Put(lobbies, l, lobby)
      /\ sessions' = [sessions EXCEPT ![s].presence = Hosting(l)]
      /\ UNCHANGED <<byAccount, pending, rendezvous, task, waiting>>
  BY DEF Create, Registered, Ready, FreshLobbyId
<1>2. sessions' \in [Live -> Session] /\ Presences(sessions, sessions')
  <2>1. Hosting(l) \in Presence  BY PresenceValues DEF Option
  <2>. QED  BY <1>1, <2>1 DEF Inv, Types, TypeOK, Live, Session, Presences
<1>3. lobby \in Lobby
  <2>1. sessions[s].content \in Hashes
    BY <1>1 DEF Inv, Types, TypeOK, Live, Session, Option
  <2>2. FreshPublic(s) \in BOOLEAN  BY DEF FreshPublic
  <2>. QED  BY <2>1, <2>2 DEF Lobby, Option
<1>4. /\ DOMAIN lobbies' = DOMAIN lobbies \cup {l}
      /\ lobbies' \in [DOMAIN lobbies \cup {l} -> Lobby]
      /\ lobbies'[l].host = s /\ lobbies'[l].joiner = None /\ lobbies'[l].state = "open"
      /\ \A k \in DOMAIN lobbies : lobbies'[k] = lobbies[k]
  <2>1. \A k \in DOMAIN lobbies : lobbies[k] \in Lobby  BY DEF Inv, Types, TypeOK
  <2>2. Put(lobbies, l, lobby) \in [DOMAIN lobbies \cup {l} -> Lobby]
    BY <1>3, <2>1, PutType
  <2>3. lobbies'[l] = lobby  BY <1>1 DEF Put
  <2>. QED  BY <1>1, <2>2, <2>3 DEF Put
<1>5. Types'
  BY <1>1, <1>2, <1>4 DEF Inv, Types, TypeOK, AuthTasks, Live, Presences
<1>6. Bindings'
  BY <1>1, <1>2, KeptBindings DEF Inv, Bindings
<1>7. Seats'
  <2>1. s # None  BY HubAssumption
  <2>. QED  BY <1>1, <1>2, <1>4, <2>1 DEF Inv, Seats, LobbyMembersLive, SeatMatchesState, Presences, Live
<1>8. Joins'
  BY <1>1, <1>2, <1>4 DEF Inv, Joins, PendingAnswerable, OneOfferPerLobby, NoSilentDrop, Presences, Live
<1>. QED  BY <1>5, <1>6, <1>7, <1>8 DEF Inv

LEMMA UpdateInv ==
    ASSUME Inv, NEW s \in Sids, NEW l \in LobbyIds, Update(s, l)
    PROVE  Inv'
<1>1. PICK open \in BOOLEAN \cup {None} :
         lobbies' = [lobbies EXCEPT
             ![l].hostPublic = @ \/ FreshPublic(s),
             ![l].state = IF open = None \/ lobbies[l].joiner # None THEN @
                          ELSE IF open THEN "open" ELSE "in_match"]
  BY DEF Update
<1>2. UNCHANGED <<sessions, byAccount, pending, rendezvous, task, waiting>>
  BY DEF Update
<1>3. /\ lobbies' \in [DOMAIN lobbies -> Lobby] /\ SameMembers
      /\ \A k \in DOMAIN lobbies :
            \/ lobbies'[k].state = lobbies[k].state
            \/ lobbies[k].joiner = None /\ lobbies'[k].state \in {"open", "in_match"}
  <2>. DEFINE public == lobbies[l].hostPublic \/ FreshPublic(s)
              state == IF open = None \/ lobbies[l].joiner # None THEN lobbies[l].state
                       ELSE IF open THEN "open" ELSE "in_match"
  <2>1. l \in DOMAIN lobbies /\ lobbies \in [DOMAIN lobbies -> Lobby]
    BY DEF Update, HostedBy, Inv, Types, TypeOK
  <2>2. public \in BOOLEAN
    BY <2>1 DEF Lobby, FreshPublic
  <2>3. /\ state \in {"open", "full", "in_match"}
        /\ \/ state = lobbies[l].state
           \/ lobbies[l].joiner = None /\ state \in {"open", "in_match"}
    BY <2>1 DEF Lobby
  <2>4. lobbies' = [lobbies EXCEPT ![l] = [lobbies[l] EXCEPT !.hostPublic = public, !.state = state]]
    BY <1>1, <2>1
  <2>. HIDE DEF public, state
  <2>. QED  BY <2>1, <2>2, <2>3, <2>4 DEF Lobby, SameMembers
<1>4. Presences(sessions, sessions')  BY <1>2 DEF Presences
<1>5. Types' /\ Bindings' /\ Joins'
  BY <1>2, <1>3, <1>4, KeptBindings, KeptJoins DEF Inv, Types, TypeOK, AuthTasks, Bindings, Live
<1>6. Seats'
  <2>1. SeatMatchesState'
    BY <1>3 DEF Inv, Seats, SeatMatchesState, SameMembers
  <2>. QED  BY <1>3, <1>4, <2>1, KeptMembers DEF Inv, Seats
<1>. QED  BY <1>5, <1>6 DEF Inv

\* Some pending joins are over, and their joiners are told.
LEMMA SettledJoins ==
    ASSUME Types, Joins, NEW P, P \subseteq pending, pending' = pending \ P, waiting' = Told(P)
    PROVE  /\ OneOfferPerLobby' /\ NoSilentDrop'
           /\ pending' \subseteq PendingJoin /\ waiting' \in [Sids -> SUBSET LobbyIds]
<1>1. /\ waiting' \in [Sids -> SUBSET LobbyIds]
      /\ \A x \in Sids : waiting'[x] = Asked(x, pending) \ Asked(x, P)
  BY ToldFacts DEF Types, TypeOK, Joins, NoSilentDrop
<1>2. ASSUME NEW x \in Sids, NEW l PROVE l \in waiting'[x] <=> l \in Asked(x, pending')
  <2>1. l \in waiting'[x] <=> l \in Asked(x, pending) /\ l \notin Asked(x, P)
    BY <1>1
  <2>. QED  BY <2>1, AskedFacts DEF Joins, OneOfferPerLobby
<1>. QED  BY <1>1, <1>2 DEF Types, TypeOK, Joins, OneOfferPerLobby, NoSilentDrop

LEMMA CloseLobbiesInv ==
    ASSUME Inv, NEW S, NEW late \in SUBSET pending, CloseLobbies(S, late),
           sessions' \in [Live -> Session], Presences(sessions, sessions'),
           UNCHANGED <<byAccount, task>>,
           DOMAIN rendezvous' \subseteq DOMAIN rendezvous,
           \A n \in DOMAIN rendezvous' : rendezvous'[n] = rendezvous[n],
           rendezvous' \in [DOMAIN rendezvous' -> RendezvousEntry]
    PROVE  Inv'
<1>. USE DEF Inv
<1>1. /\ DOMAIN lobbies' = DOMAIN lobbies \ S
      /\ \A l \in DOMAIN lobbies \ S : lobbies'[l] = lobbies[l]
  <2>1. lobbies' = Drop(lobbies, S)  BY DEF CloseLobbies
  <2>2. /\ DOMAIN Drop(lobbies, S) = DOMAIN lobbies \ S
        /\ \A l \in DOMAIN lobbies \ S : Drop(lobbies, S)[l] = lobbies[l]
    BY DropFacts
  <2>. QED  BY <2>1, <2>2
<1>2. lobbies' \in [DOMAIN lobbies' -> Lobby]
  <2>1. \A l \in DOMAIN lobbies : lobbies[l] \in Lobby  BY DEF Types, TypeOK
  <2>2. Drop(lobbies, S) \in [DOMAIN lobbies \ S -> Lobby]  BY <2>1, DropFacts
  <2>. QED  BY <1>1, <2>2 DEF CloseLobbies
<1>. DEFINE P == late \cup PendingAt(S)
<1>3. P \subseteq pending /\ pending' = pending \ P /\ waiting' = Told(P)
  BY DEF CloseLobbies, PendingAt
<1>4. /\ OneOfferPerLobby' /\ NoSilentDrop'
      /\ pending' \subseteq PendingJoin /\ waiting' \in [Sids -> SUBSET LobbyIds]
  BY <1>3, SettledJoins
<1>5. Types'
  BY <1>1, <1>2, <1>4 DEF Types, TypeOK, AuthTasks, Presences, Live
<1>6. Bindings'
  <2>1. AccountBinding'  BY KeptBindings
  <2>. QED  BY <2>1 DEF Bindings, RendezvousOwned, Presences, Live
<1>7. Seats'
  BY <1>1 DEF Seats, LobbyMembersLive, SeatMatchesState, Presences, Live
<1>8. PendingAnswerable'
  <2>1. \A p \in pending' : p \in pending /\ p.lobby \notin S
    BY DEF CloseLobbies, PendingAt
  <2>. QED  BY <1>1, <2>1 DEF Joins, PendingAnswerable, Presences, Live
<1>. QED  BY <1>4, <1>5, <1>6, <1>7, <1>8 DEF Joins

LEMMA CloseInv ==
    ASSUME Inv, NEW s \in Sids, NEW l \in LobbyIds, Close(s, l)
    PROVE  Inv'
<1>. DEFINE ss == ClosedPresences(sessions, {l})
<1>1. ss \in [Live -> Session] /\ Presences(sessions, ss)
  BY ClosedPresencesFacts DEF Inv, Types, TypeOK, Live
<1>2. sessions' = [ss EXCEPT ![s].presence = Idle] /\ CloseLobbies({l}, {})
      /\ UNCHANGED <<byAccount, rendezvous, task>>
  BY DEF Close
<1>. HIDE DEF ss
<1>3. sessions' \in [Live -> Session] /\ Presences(sessions, sessions')
  BY <1>1, <1>2, PresenceValues DEF Presences, Session, Live
<1>4. {} \in SUBSET pending
  OBVIOUS
<1>. QED  BY <1>2, <1>3, <1>4, CloseLobbiesInv DEF Inv, Types, TypeOK

LEMMA SweepInv == ASSUME Inv, Sweep PROVE Inv'
<1>. DEFINE late == {p \in pending : p.overdue}
            E == {n \in DOMAIN rendezvous : rendezvous[n].age = "expired"}
            kept == Drop(rendezvous, E)
            dead == Unreachable(DOMAIN kept)
<1>1. /\ rendezvous' = kept /\ CloseLobbies(dead, late)
      /\ sessions' = ClosedPresences(sessions, dead) /\ UNCHANGED <<byAccount, task>>
  BY DEF Sweep
<1>2. /\ DOMAIN kept = DOMAIN rendezvous \ E
      /\ \A n \in DOMAIN rendezvous \ E : kept[n] = rendezvous[n]
  <2>. HIDE DEF E
  <2>. QED  BY DropFacts
<1>3. kept \in [DOMAIN kept -> RendezvousEntry]
  <2>1. \A n \in DOMAIN rendezvous : rendezvous[n] \in RendezvousEntry
    BY DEF Inv, Types, TypeOK
  <2>. QED  BY <1>2, <2>1, DropFacts
<1>. HIDE DEF kept, dead
<1>4. sessions' \in [Live -> Session] /\ Presences(sessions, sessions')
  BY <1>1, ClosedPresencesFacts DEF Inv, Types, TypeOK, Live
<1>5. late \in SUBSET pending
  OBVIOUS
<1>. HIDE DEF late
<1>6. /\ DOMAIN rendezvous' \subseteq DOMAIN rendezvous
      /\ \A n \in DOMAIN rendezvous' : rendezvous'[n] = rendezvous[n]
      /\ rendezvous' \in [DOMAIN rendezvous' -> RendezvousEntry]
  BY <1>1, <1>2, <1>3
<1>. QED  BY <1>1, <1>4, <1>5, <1>6, CloseLobbiesInv

LEMMA JoinRequestInv ==
    ASSUME Inv, NEW s \in Sids, NEW l \in LobbyIds, JoinRequest(s, l)
    PROVE  Inv'
<1>. DEFINE p == [lobby |-> l, joiner |-> s, host |-> lobbies[l].host, overdue |-> FALSE]
<1>1. /\ s \in Live /\ sessions[s].account # None
      /\ l \in DOMAIN lobbies /\ lobbies[l].host # s /\ lobbies[l].state = "open"
      /\ \A q \in pending : q.lobby # l
  BY DEF JoinRequest, MayRequest, Registered, Ready, PendingAt
<1>2. /\ pending' = pending \cup {p}
      /\ waiting' = [waiting EXCEPT ![s] = @ \cup {l}]
      /\ UNCHANGED <<sessions, byAccount, lobbies, rendezvous, task>>
  BY DEF JoinRequest
<1>3. p \in PendingJoin /\ p.lobby = l /\ p.joiner = s /\ p.host = lobbies[l].host
  BY <1>1 DEF Inv, Types, TypeOK, Lobby, PendingJoin
<1>. HIDE DEF p
<1>4. Types'
  BY <1>2, <1>3 DEF Inv, Types, TypeOK, AuthTasks, Live
<1>5. Presences(sessions, sessions')  BY <1>2 DEF Presences
<1>6. Bindings' /\ Seats'
  BY <1>2, <1>5, KeptBindings, KeptSeats DEF Inv, Bindings
<1>7. PendingAnswerable'
  BY <1>1, <1>2, <1>3 DEF Inv, Seats, SeatMatchesState, Joins, PendingAnswerable, Live
<1>8. OneOfferPerLobby'
  BY <1>1, <1>2, <1>3 DEF Inv, Joins, OneOfferPerLobby
<1>9. NoSilentDrop'
  <2>. SUFFICES ASSUME NEW x \in Sids PROVE waiting'[x] = Asked(x, pending')
    BY DEF NoSilentDrop
  <2>1. waiting'[x] = IF x = s THEN Asked(x, pending) \cup {l} ELSE Asked(x, pending)
    BY <1>2 DEF Inv, Types, TypeOK, Joins, NoSilentDrop
  <2>2. ASSUME NEW k PROVE k \in waiting'[x] <=> k \in Asked(x, pending')
    BY <1>2, <1>3, <2>1, AskedFacts
  <2>. QED  BY <2>2
<1>. QED  BY <1>4, <1>6, <1>7, <1>8, <1>9 DEF Inv, Joins

LEMMA JoinAcceptInv ==
    ASSUME Inv, NEW s \in Sids, NEW p \in pending, JoinAccept(s, p)
    PROVE  Inv'
<1>1. /\ p.lobby \in DOMAIN lobbies /\ lobbies[p.lobby].host = p.host
      /\ lobbies[p.lobby].joiner = None /\ p.joiner # p.host
      /\ p.joiner \in Live /\ sessions[p.joiner].account # None
      /\ p.joiner \in Sids /\ p.joiner # None
  BY HubAssumption DEF Inv, Types, TypeOK, PendingJoin, Joins, PendingAnswerable
<1>2. /\ lobbies' = [lobbies EXCEPT
             ![p.lobby].joiner = p.joiner,
             ![p.lobby].hostPublic = @ \/ FreshPublic(s),
             ![p.lobby].state = IF @ = "open" THEN "full" ELSE @]
      /\ sessions' = [sessions EXCEPT ![p.joiner].presence = Joined(p.lobby)]
      /\ pending' = pending \ {p} /\ waiting' = Told({p})
      /\ UNCHANGED <<byAccount, rendezvous, task>>
  BY <1>1 DEF JoinAccept, Seatable
<1>3. sessions' \in [Live -> Session] /\ Presences(sessions, sessions')
  <2>1. Joined(p.lobby) \in Presence
    BY <1>1, PresenceValues DEF Inv, Types, TypeOK, Option
  <2>. QED  BY <1>2, <2>1 DEF Inv, Types, TypeOK, Live, Session, Presences
<1>4. /\ lobbies' \in [DOMAIN lobbies -> Lobby]
      /\ \A k \in DOMAIN lobbies : k # p.lobby => lobbies'[k] = lobbies[k]
      /\ lobbies'[p.lobby].host = p.host /\ lobbies'[p.lobby].joiner = p.joiner
      /\ lobbies'[p.lobby].state # "open"
  <2>. DEFINE l == p.lobby
              public == lobbies[l].hostPublic \/ FreshPublic(s)
              state == IF lobbies[l].state = "open" THEN "full" ELSE lobbies[l].state
  <2>1. lobbies[l] \in Lobby /\ lobbies \in [DOMAIN lobbies -> Lobby]
    BY <1>1 DEF Inv, Types, TypeOK
  <2>2. public \in BOOLEAN
    BY <2>1 DEF Lobby, FreshPublic
  <2>3. state \in {"open", "full", "in_match"} /\ state # "open"
    BY <2>1 DEF Lobby
  <2>4. lobbies' = [lobbies EXCEPT ![l] =
                       [lobbies[l] EXCEPT !.joiner = p.joiner, !.hostPublic = public, !.state = state]]
    BY <1>1, <1>2, <2>1
  <2>. HIDE DEF public, state
  <2>. QED  BY <1>1, <2>1, <2>2, <2>3, <2>4 DEF Lobby, Option
<1>5. p \in pending /\ {p} \subseteq pending
  OBVIOUS
<1>6. /\ OneOfferPerLobby' /\ NoSilentDrop'
      /\ pending' \subseteq PendingJoin /\ waiting' \in [Sids -> SUBSET LobbyIds]
  BY <1>2, <1>5, SettledJoins DEF Inv
<1>7. Types'
  BY <1>2, <1>3, <1>4, <1>6 DEF Inv, Types, TypeOK, AuthTasks, Presences, Live
<1>8. Bindings'
  BY <1>2, <1>3, KeptBindings DEF Inv, Bindings
<1>9. DOMAIN lobbies' = DOMAIN lobbies
  BY <1>4
<1>10. Seats'
  <2>1. LobbyMembersLive'
    BY <1>1, <1>3, <1>4, <1>9 DEF Inv, Seats, LobbyMembersLive, Presences, Live
  <2>2. SeatMatchesState'
    BY <1>1, <1>4, <1>9 DEF Inv, Seats, SeatMatchesState
  <2>. QED  BY <2>1, <2>2 DEF Seats
<1>11. PendingAnswerable'
  <2>1. \A q \in pending' : q \in pending /\ q.lobby # p.lobby
    BY <1>2 DEF Inv, Joins, OneOfferPerLobby
  <2>. QED  BY <1>3, <1>4, <1>9, <2>1 DEF Inv, Joins, PendingAnswerable, Presences, Live
<1>. QED  BY <1>6, <1>7, <1>8, <1>10, <1>11 DEF Inv, Joins

LEMMA JoinRejectInv ==
    ASSUME Inv, NEW s \in Sids, NEW p \in pending, JoinReject(s, p)
    PROVE  Inv'
<1>1. /\ pending' = pending \ {p} /\ waiting' = Told({p}) /\ {p} \subseteq pending
      /\ UNCHANGED <<sessions, byAccount, lobbies, rendezvous, task>>
  BY DEF JoinReject
<1>2. /\ OneOfferPerLobby' /\ NoSilentDrop'
      /\ pending' \subseteq PendingJoin /\ waiting' \in [Sids -> SUBSET LobbyIds]
  BY <1>1, SettledJoins DEF Inv
<1>3. PendingAnswerable'
  BY <1>1 DEF Inv, Joins, PendingAnswerable, Live
<1>4. Types' /\ Bindings' /\ Seats'
  BY <1>1, <1>2 DEF Inv, Types, TypeOK, AuthTasks, Bindings, AccountBinding, RendezvousOwned,
                    Seats, LobbyMembersLive, SeatMatchesState, Live
<1>. QED  BY <1>2, <1>3, <1>4 DEF Inv, Joins

LEMMA LeaveInv == ASSUME Inv, NEW s \in Sids, Leave(s) PROVE Inv'
<1>1. PICK l \in JoinedBy(s) : lobbies' = [lobbies EXCEPT ![l] = Vacated(@)]
  BY DEF Leave
<1>2. /\ l \in DOMAIN lobbies /\ lobbies[l].joiner = s /\ s # None
      /\ sessions' = [sessions EXCEPT ![s].presence = Idle]
      /\ UNCHANGED <<byAccount, pending, rendezvous, task, waiting>>
  BY HubAssumption DEF Leave, JoinedBy
<1>3. sessions' \in [Live -> Session] /\ Presences(sessions, sessions')
  BY <1>2, PresenceValues DEF Inv, Types, TypeOK, Live, Session, Presences
<1>4. /\ lobbies' \in [DOMAIN lobbies -> Lobby]
      /\ \A k \in DOMAIN lobbies : k # l => lobbies'[k] = lobbies[k]
      /\ lobbies'[l].host = lobbies[l].host /\ lobbies'[l].joiner = None
      /\ lobbies'[l].state # "full"
  <2>1. lobbies[l] \in Lobby /\ lobbies \in [DOMAIN lobbies -> Lobby]
    BY <1>2 DEF Inv, Types, TypeOK
  <2>2. lobbies'[l] = Vacated(lobbies[l])  BY <1>1, <1>2, <2>1
  <2>. QED  BY <1>1, <1>2, <2>1, <2>2, VacatedFacts
<1>5. DOMAIN lobbies' = DOMAIN lobbies
  BY <1>4
<1>6. Types'
  BY <1>2, <1>3, <1>4 DEF Inv, Types, TypeOK, AuthTasks, Presences, Live
<1>7. Bindings'
  BY <1>2, <1>3, KeptBindings DEF Inv, Bindings
<1>8. Seats'
  <2>1. LobbyMembersLive'
    <3>1. lobbies[l].host # None
      BY <1>2, HubAssumption DEF Inv, Types, TypeOK, Lobby
    <3>. QED  BY <1>2, <1>3, <1>4, <1>5, <3>1 DEF Inv, Seats, LobbyMembersLive, Presences, Live
  <2>2. SeatMatchesState'
    BY <1>4, <1>5 DEF Inv, Seats, SeatMatchesState
  <2>. QED  BY <2>1, <2>2 DEF Seats
<1>9. Joins'
  BY <1>2, <1>3, <1>4, <1>5 DEF Inv, Joins, PendingAnswerable, OneOfferPerLobby, NoSilentDrop, Presences, Live
<1>. QED  BY <1>6, <1>7, <1>8, <1>9 DEF Inv

\* Presences change, and states and matches of lobbies, as the seats require.
LEMMA ReportedInv ==
    ASSUME Inv, NEW s \in Sids, task' = [task EXCEPT ![s] = NoTask],
           sessions' \in [Live -> Session], Presences(sessions, sessions'),
           lobbies' \in [DOMAIN lobbies -> Lobby], SameMembers,
           \A l \in DOMAIN lobbies :
               \/ lobbies'[l].state = lobbies[l].state
               \/ lobbies'[l].state = "in_match"
               \/ lobbies'[l].state = IF lobbies[l].joiner # None THEN "full" ELSE "open",
           UNCHANGED <<byAccount, pending, rendezvous, waiting>>
    PROVE  Inv'
<1>1. Types'
  <2>1. AuthTasks' /\ task' \in [Sids -> Task]
    BY KeptAuthTasks, TaskValues DEF Inv, NoTask
  <2>. QED  BY <2>1 DEF Inv, Types, TypeOK, Live
<1>2. Bindings' /\ Joins'
  BY KeptBindings, KeptJoins DEF Inv, Bindings
<1>3. Seats'
  <2>1. SeatMatchesState'
    BY DEF Inv, Seats, SeatMatchesState, SameMembers
  <2>. QED  BY <2>1, KeptMembers DEF Inv, Seats
<1>. QED  BY <1>1, <1>2, <1>3 DEF Inv

LEMMA MatchStartedInv ==
    ASSUME Inv, NEW s \in Sids, NEW m \in MatchIds, MatchStarted(s, m)
    PROVE  Inv'
<1>. DEFINE l == task[s].lobby
<1>1. task' = [task EXCEPT ![s] = NoTask] /\ UNCHANGED <<byAccount, pending, rendezvous, waiting>>
  BY DEF MatchStarted
<1>2. sessions' \in [Live -> Session] /\ Presences(sessions, sessions')
  <2>1. InMatch(l) \in Presence
    BY PresenceValues DEF Inv, Types, TypeOK, Task
  <2>2. PICK S : sessions' = SetPresence(sessions, S, InMatch(l))
    BY DEF MatchStarted
  <2>. QED  BY <2>1, <2>2, SetPresenceFacts DEF Inv, Types, TypeOK, Live
<1>3. /\ lobbies' \in [DOMAIN lobbies -> Lobby] /\ SameMembers
      /\ \A k \in DOMAIN lobbies : lobbies'[k].state \in {lobbies[k].state, "in_match"}
  <2>1. lobbies' = [lobbies EXCEPT ![l].state = "in_match", ![l].match = m] \/ lobbies' = lobbies
    BY DEF MatchStarted
  <2>2. lobbies \in [DOMAIN lobbies -> Lobby] /\ m \in Option(MatchIds)
    BY DEF Inv, Types, TypeOK, Option
  <2>. QED  BY <2>1, <2>2 DEF Lobby, SameMembers
<1>. QED  BY <1>1, <1>2, <1>3, ReportedInv

LEMMA MatchEndedInv ==
    ASSUME Inv, NEW s \in Sids, MatchEnded(s)
    PROVE  Inv'
<1>. DEFINE p == IF s \in Live THEN sessions[s].presence ELSE Idle
            l == p.lobby
            there == p.at = "in_match" /\ l \in DOMAIN lobbies
<1>1. task' = [task EXCEPT ![s] = NoTask] /\ UNCHANGED <<byAccount, pending, rendezvous, waiting>>
  BY DEF MatchEnded
<1>2. l \in Option(LobbyIds)
  BY DEF Inv, Types, TypeOK, Live, Session, Presence, Idle, Option
<1>3. CASE there
  <2>1. /\ lobbies' = [lobbies EXCEPT
               ![l].match = None,
               ![l].state = IF lobbies[l].joiner # None THEN "full" ELSE "open"]
        /\ sessions' = SetPresence(SetPresence(sessions, {s}, Hosting(l)),
                                   {lobbies[l].joiner}, Joined(l))
    BY <1>3 DEF MatchEnded
  <2>. HIDE DEF l
  <2>2. sessions' \in [Live -> Session] /\ Presences(sessions, sessions')
    <3>. DEFINE ss == SetPresence(sessions, {s}, Hosting(l))
    <3>1. Hosting(l) \in Presence /\ Joined(l) \in Presence
      BY <1>2, PresenceValues
    <3>2. ss \in [Live -> Session] /\ DOMAIN ss = Live /\ Presences(sessions, ss)
      BY <3>1, SetPresenceFacts DEF Inv, Types, TypeOK, Live
    <3>. HIDE DEF ss
    <3>3. sessions' = SetPresence(ss, {lobbies[l].joiner}, Joined(l))
      BY <2>1 DEF ss
    <3>4. sessions' \in [Live -> Session] /\ Presences(ss, sessions')
      BY <3>1, <3>2, <3>3, SetPresenceFacts
    <3>. QED  BY <3>2, <3>4 DEF Presences, Live
  <2>3. /\ lobbies' \in [DOMAIN lobbies -> Lobby] /\ SameMembers
        /\ \A k \in DOMAIN lobbies :
              \/ lobbies'[k].state = lobbies[k].state
              \/ lobbies'[k].state = IF lobbies[k].joiner # None THEN "full" ELSE "open"
    <3>. DEFINE state == IF lobbies[l].joiner # None THEN "full" ELSE "open"
    <3>1. l \in DOMAIN lobbies  BY <1>3 DEF l
    <3>2. lobbies \in [DOMAIN lobbies -> Lobby] /\ lobbies[l] \in Lobby
      BY <3>1 DEF Inv, Types, TypeOK
    <3>3. lobbies' = [lobbies EXCEPT ![l] = [lobbies[l] EXCEPT !.match = None, !.state = state]]
      BY <2>1, <3>1, <3>2
    <3>4. state \in {"open", "full", "in_match"}  OBVIOUS
    <3>5. lobbies'[l] = [lobbies[l] EXCEPT !.match = None, !.state = state]
          /\ \A k \in DOMAIN lobbies : k # l => lobbies'[k] = lobbies[k]
      BY <3>1, <3>2, <3>3
    <3>6. /\ lobbies'[l] \in Lobby /\ lobbies'[l].state = state
          /\ lobbies'[l].host = lobbies[l].host /\ lobbies'[l].joiner = lobbies[l].joiner
      <4>. HIDE DEF state
      <4>. QED  BY <3>2, <3>4, <3>5 DEF Lobby, Option
    <3>7. lobbies' \in [DOMAIN lobbies -> Lobby]
      BY <3>2, <3>3, <3>5, <3>6
    <3>. QED  BY <3>5, <3>6, <3>7 DEF SameMembers
  <2>. QED  BY <1>1, <2>2, <2>3, ReportedInv
<1>4. CASE ~ there
  <2>1. /\ sessions' = IF p.at # "in_match" THEN sessions
                       ELSE SetPresence(sessions, {s}, IF l = None THEN Idle ELSE Hosting(l))
        /\ lobbies' = lobbies
    BY <1>4 DEF MatchEnded
  <2>. HIDE DEF p, l
  <2>2. sessions' \in [Live -> Session] /\ Presences(sessions, sessions')
    <3>1. (IF l = None THEN Idle ELSE Hosting(l)) \in Presence
      BY <1>2, PresenceValues
    <3>2. sessions \in [Live -> Session] /\ DOMAIN sessions = Live
      BY DEF Inv, Types, TypeOK, Live
    <3>3. CASE p.at # "in_match"
      BY <2>1, <3>2, <3>3 DEF Presences
    <3>4. CASE p.at = "in_match"
      BY <2>1, <3>1, <3>2, <3>4, SetPresenceFacts
    <3>. QED  BY <3>3, <3>4
  <2>3. lobbies' \in [DOMAIN lobbies -> Lobby] /\ SameMembers
    BY <2>1 DEF Inv, Types, TypeOK, SameMembers
  <2>. QED  BY <1>1, <2>1, <2>2, <2>3, ReportedInv
<1>. QED  BY <1>3, <1>4

LEMMA JoinDeadlineInv ==
    ASSUME Inv, NEW p \in pending, JoinDeadline(p)
    PROVE  Inv'
<1>. DEFINE q == [p EXCEPT !.overdue = TRUE]
<1>1. /\ pending' = (pending \ {p}) \cup {q}
      /\ UNCHANGED <<sessions, byAccount, lobbies, rendezvous, task, waiting>>
  BY DEF JoinDeadline
<1>2. q \in PendingJoin /\ q.lobby = p.lobby /\ q.joiner = p.joiner /\ q.host = p.host
  BY DEF Inv, Types, TypeOK, PendingJoin
<1>. HIDE DEF q
<1>3. Types' /\ Bindings' /\ Seats'
  BY <1>1, <1>2 DEF Inv, Types, TypeOK, AuthTasks, Bindings, AccountBinding, RendezvousOwned,
                    Seats, LobbyMembersLive, SeatMatchesState, Live
<1>4. PendingAnswerable'
  BY <1>1, <1>2 DEF Inv, Joins, PendingAnswerable, Live
<1>5. OneOfferPerLobby'
  BY <1>1, <1>2 DEF Inv, Joins, OneOfferPerLobby
<1>6. NoSilentDrop'
  <2>1. ASSUME NEW x \in Sids, NEW l PROVE l \in Asked(x, pending) <=> l \in Asked(x, pending')
    BY <1>1, <1>2, AskedFacts
  <2>2. \A x \in Sids : Asked(x, pending) = Asked(x, pending')
    BY <2>1
  <2>. QED  BY <1>1, <2>2 DEF Inv, Joins, NoSilentDrop
<1>. QED  BY <1>3, <1>4, <1>5, <1>6 DEF Inv, Joins

LEMMA RestartInv == ASSUME Restart PROVE Inv'
<1>1. Init'  BY DEF Init, Restart
<1>. QED  BY <1>1, InitInv, PTL

LEMMA NextInv == ASSUME Inv, [Next]_hubVars PROVE Inv'
<1>1. ASSUME NEW s \in Sids, SessionStep(s) PROVE Inv'
  <2>1. CASE Disconnect(s) \/ Kick(s)
    BY <2>1, RemoveInv DEF Disconnect, Kick, Ready
  <2>. QED  BY <1>1, <2>1, ConnectInv, HelloInv, AuthenticateInv, BindAccountInv, TaskOnlyInv
            DEF SessionStep
<1>2. ASSUME NEW s \in Sids, RendezvousStep(s) PROVE Inv'
  BY <1>2, RendezvousRegisterInv, ObserveInv DEF RendezvousStep
<1>3. ASSUME NEW s \in Sids, LobbyStep(s) PROVE Inv'
  BY <1>3, CreateInv, UpdateInv, CloseInv, JoinRequestInv, JoinAcceptInv, JoinRejectInv, LeaveInv
  DEF LobbyStep
<1>4. ASSUME NEW s \in Sids, MatchStep(s) PROVE Inv'
  BY <1>4, TaskOnlyInv, MatchStartedInv, MatchEndedInv DEF MatchStep
<1>5. ASSUME NEW a \in Accounts, KickAccount(a) PROVE Inv'
  <2>1. byAccount[a] \in Live
    BY <1>5 DEF KickAccount, Inv, Bindings, AccountBinding
  <2>. QED  BY <1>5, <2>1, RemoveInv DEF KickAccount
<1>6. CASE UNCHANGED hubVars
  BY <1>6 DEF hubVars, Inv, Types, TypeOK, AuthTasks, Bindings, AccountBinding, RendezvousOwned,
              Seats, LobbyMembersLive, SeatMatchesState, Joins, PendingAnswerable,
              OneOfferPerLobby, NoSilentDrop, Live
<1>. QED  BY <1>1, <1>2, <1>3, <1>4, <1>5, <1>6, RendezvousAgesInv, JoinDeadlineInv, SweepInv,
             RestartInv DEF Next

\* The whole invariant holds of the hub for ever.
THEOREM Invariance == Spec => []Inv
<1>1. Init => Inv  BY InitInv
<1>2. Inv /\ [Next]_hubVars => Inv'  BY NextInv
<1>. QED  BY <1>1, <1>2, PTL DEF Spec

-----------------------------------------------------------------------------
(* What it gives. *)

\* Every table of the hub always holds what its Rust type allows.
THEOREM TypeCorrect == Spec => []TypeOK
<1>1. Inv => TypeOK  BY DEF Inv, Types
<1>. QED  BY <1>1, Invariance, PTL

\* by_account is always the inverse of the live sessions' account fields, however
\* logins, kicks, disconnects and a login of the same account elsewhere interleave.
THEOREM AccountsBoundOnce == Spec => []AccountBinding
<1>1. Inv => AccountBinding  BY DEF Inv, Bindings
<1>. QED  BY <1>1, Invariance, PTL

\* No lobby outlives its host, and no removed session keeps a seat.
THEOREM LobbiesHaveLiveMembers == Spec => [](LobbyMembersLive /\ SeatMatchesState)
<1>1. Inv => LobbyMembersLive /\ SeatMatchesState  BY DEF Inv, Seats
<1>. QED  BY <1>1, Invariance, PTL

\* A lobby is listed as open only while its seat is free, and as full only while
\* it is taken.
THEOREM SeatsTellState == Spec => []SeatMatchesState
<1>1. Inv => SeatMatchesState  BY DEF Inv, Seats
<1>. QED  BY <1>1, Invariance, PTL

\* Two players are never offered the same free seat: a lobby has one pending
\* join at a time.
THEOREM OneOfferAtATime == Spec => []OneOfferPerLobby
<1>1. Inv => OneOfferPerLobby  BY DEF Inv, Joins
<1>. QED  BY <1>1, Invariance, PTL

\* A host is asked about one player at a time, and can always seat that player.
THEOREM OffersAnswerable == Spec => [](PendingAnswerable /\ OneOfferPerLobby)
<1>1. Inv => PendingAnswerable /\ OneOfferPerLobby  BY DEF Inv, Joins
<1>. QED  BY <1>1, Invariance, PTL

\* A join request leaves the hub only with its outcome told.
THEOREM JoinsNotDropped == Spec => []NoSilentDrop
<1>1. Inv => NoSilentDrop  BY DEF Inv, Joins
<1>. QED  BY <1>1, Invariance, PTL

\* An observed endpoint always belongs to a live session that uses that nonce.
THEOREM EndpointsOwned == Spec => []RendezvousOwned
<1>1. Inv => RendezvousOwned  BY DEF Inv, Bindings
<1>. QED  BY <1>1, Invariance, PTL

=============================================================================
