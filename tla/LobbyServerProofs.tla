------------------------- MODULE LobbyServerProofs -------------------------
(* Theorems about LobbyServer, for every number of connections and matches. *)
EXTENDS MCLobbyCrowd, HubProofs

-----------------------------------------------------------------------------
(* The inductive invariant: the hub's, and of the database's tables and the     *)
(* readers' jobs what follows.                                                  *)

DbTypes ==
    /\ DOMAIN rows \subseteq MatchIds /\ rows \in [DOMAIN rows -> Row]
    /\ ledger \in [Accounts -> [MatchIds -> Nat]]
    /\ job \in [Sids -> Job]
    /\ abandoning \subseteq Batch

\* A handler that goes on to the database has an account, and one that has been
\* there has a match.
JobsFilled ==
    \A s \in Sids :
        /\ job[s].step \in {"insert", "insert_report", "record", "commit"} => job[s].account \in Accounts
        /\ job[s].step \in {"commit", "record", "settle"} => job[s].match \in MatchIds

\* As long as the lobby of a match_start is there, the reader still hosts it with
\* the account it started with.
StartsOwnLobby ==
    \A s \in Sids : job[s].step \in {"insert", "commit"} =>
        /\ task[s].op = "start"
        /\ task[s].lobby \in DOMAIN lobbies =>
              lobbies[task[s].lobby].host = s /\ sessions[s].account = job[s].account

\* The row a match_start has inserted is its account's and nobody else's yet.
RowIsItsOwn ==
    \A s \in Sids : job[s].step = "commit" =>
        /\ job[s].match \in DOMAIN rows /\ rows[job[s].match].host = job[s].account
        /\ \A l \in DOMAIN lobbies : lobbies[l].match # job[s].match
        /\ \A t \in Sids \ {s} : job[t].step = "commit" => job[t].match # job[s].match

Records == DbTypes /\ JobsFilled /\ LedgerMatchesRows
Links   == StartsOwnLobby /\ RowIsItsOwn /\ RunningMatchIsHosts

LSInv == Inv /\ Records /\ Links

-----------------------------------------------------------------------------
(* What a hub section does to what the matches rest on.                         *)

\* Lobbies keep their host and their match or lose it, a new one has none and no
\* task knows of it, and an account that is bound stays bound.
SteadyLobbies ==
    /\ \A l \in DOMAIN lobbies' :
          \/ /\ l \in DOMAIN lobbies /\ lobbies'[l].host = lobbies[l].host
             /\ lobbies'[l].match \in {lobbies[l].match, None}
          \/ /\ l \notin DOMAIN lobbies /\ lobbies'[l].match = None
             /\ \A s \in Sids : task[s].lobby # l
    /\ \A s \in Live : s \in Live' /\ sessions[s].account # None => sessions'[s].account = sessions[s].account

\* And match_start goes on.
Steady == SteadyLobbies /\ \A s \in Sids : task[s].op = "start" => task'[s] = task[s]

NoLobbyLost == DOMAIN lobbies \subseteq DOMAIN lobbies'

LEMMA ConnectSteady ==
    ASSUME Inv, NEW s \in Sids, Connect(s)
    PROVE  Steady /\ NoLobbyLost
BY DEF Connect, Steady, SteadyLobbies, NoLobbyLost, Put, Live

LEMMA HelloSteady ==
    ASSUME Inv, NEW s \in Sids, Hello(s)
    PROVE  Steady /\ NoLobbyLost
<1>1. PICK h \in Option(Hashes) : sessions' = [sessions EXCEPT ![s].content = h]
  BY DEF Hello
<1>2. \A x \in Live : sessions'[x].account = sessions[x].account
  BY <1>1 DEF Inv, Types, TypeOK, Live, Session
<1>. QED  BY <1>2 DEF Hello, Steady, SteadyLobbies, NoLobbyLost

\* A reader that is free, logs in or reports is not in match_start.
LEMMA TaskSteady ==
    ASSUME NEW s \in Sids, \A x \in Sids \ {s} : task'[x] = task[x],
           task[s].op # "start",
           UNCHANGED <<sessions, lobbies>>
    PROVE  Steady /\ NoLobbyLost
BY DEF Steady, SteadyLobbies, NoLobbyLost, Live

LEMMA AuthenticateSteady ==
    ASSUME Inv, NEW s \in Sids, Authenticate(s)
    PROVE  Steady /\ NoLobbyLost
<1>1. \A x \in Sids \ {s} : task'[x] = task[x]
  BY DEF Authenticate, Inv, Types, TypeOK
<1>. QED  BY <1>1, TaskSteady DEF Authenticate, Ready, NoTask

LEMMA MatchRequestSteady ==
    ASSUME Inv, NEW s \in Sids, MatchEnd(s) \/ MatchStart(s)
    PROVE  Steady /\ NoLobbyLost
<1>1. \A x \in Sids \ {s} : task'[x] = task[x]
  <2>1. CASE MatchEnd(s)
    BY <2>1 DEF MatchEnd, Inv, Types, TypeOK
  <2>2. CASE MatchStart(s)
    <3>1. PICK l \in {h \in HostedBy(s) : lobbies[h].joiner # None} \cup {None} :
             task' = [task EXCEPT ![s] = [NoTask EXCEPT !.op = "start", !.lobby = l]]
      BY <2>2 DEF MatchStart
    <3>. QED  BY <3>1 DEF Inv, Types, TypeOK
  <2>. QED  BY <2>1, <2>2
<1>2. Registered(s) /\ UNCHANGED <<sessions, lobbies>>
  <2>1. CASE MatchEnd(s)  BY <2>1 DEF MatchEnd
  <2>2. CASE MatchStart(s)  BY <2>2 DEF MatchStart
  <2>. QED  BY <2>1, <2>2
<1>. QED  BY <1>1, <1>2, TaskSteady DEF Registered, Ready, NoTask

LEMMA RendezvousSteady ==
    ASSUME Inv, NEW s \in Sids, RendezvousStep(s)
    PROVE  Steady /\ NoLobbyLost
<1>1. ASSUME NEW n \in Nonces, RendezvousRegister(s, n) PROVE Steady /\ NoLobbyLost
  <2>1. \A x \in Live : sessions'[x].account = sessions[x].account
    BY <1>1 DEF RendezvousRegister, Inv, Types, TypeOK, Live, Session
  <2>. QED  BY <1>1, <2>1 DEF RendezvousRegister, Steady, SteadyLobbies, NoLobbyLost
<1>2. ASSUME NEW moved \in BOOLEAN, Observe(s, moved) PROVE Steady /\ NoLobbyLost
  <2>1. \A l \in DOMAIN lobbies : /\ lobbies'[l].host = lobbies[l].host
                                  /\ lobbies'[l].match = lobbies[l].match
    BY <1>2 DEF Observe, Inv, Types, TypeOK, Lobby
  <2>2. DOMAIN lobbies' = DOMAIN lobbies
    BY <1>2 DEF Observe
  <2>. QED  BY <1>2, <2>1, <2>2 DEF Observe, Steady, SteadyLobbies, NoLobbyLost
<1>. QED  BY <1>1, <1>2 DEF RendezvousStep

LEMMA ClockSteady ==
    ASSUME Inv, (\E n \in Nonces : RendezvousAges(n)) \/ (\E p \in pending : JoinDeadline(p))
    PROVE  Steady /\ NoLobbyLost
BY DEF RendezvousAges, JoinDeadline, Steady, SteadyLobbies, NoLobbyLost, Live

LEMMA CreateSteady ==
    ASSUME Inv, NEW s \in Sids, NEW l \in LobbyIds, Create(s, l)
    PROVE  Steady /\ NoLobbyLost
<1>1. \A x \in Live : sessions'[x].account = sessions[x].account
  BY DEF Create, Inv, Types, TypeOK, Live, Session
<1>2. /\ DOMAIN lobbies' = DOMAIN lobbies \cup {l} /\ l \notin DOMAIN lobbies
      /\ \A k \in DOMAIN lobbies : lobbies'[k] = lobbies[k]
      /\ lobbies'[l].match = None
      /\ \A x \in Sids : task[x].lobby # l
  BY DEF Create, Put, FreshLobbyId
<1>3. UNCHANGED task  BY DEF Create
<1>. QED  BY <1>1, <1>2, <1>3 DEF Steady, SteadyLobbies, NoLobbyLost

LEMMA UpdateSteady ==
    ASSUME Inv, NEW s \in Sids, NEW l \in LobbyIds, Update(s, l)
    PROVE  Steady /\ NoLobbyLost
<1>1. /\ DOMAIN lobbies' = DOMAIN lobbies
      /\ \A k \in DOMAIN lobbies : lobbies'[k].host = lobbies[k].host /\ lobbies'[k].match = lobbies[k].match
  BY DEF Update, Inv, Types, TypeOK, Lobby
<1>. QED  BY <1>1 DEF Update, Steady, SteadyLobbies, NoLobbyLost, Live

LEMMA JoinSteady ==
    ASSUME Inv, NEW s \in Sids,
           (\E l \in LobbyIds : JoinRequest(s, l)) \/ (\E p \in pending : JoinAccept(s, p) \/ JoinReject(s, p))
    PROVE  Steady /\ NoLobbyLost
<1>1. CASE UNCHANGED <<sessions, lobbies, task>>
  BY <1>1 DEF Steady, SteadyLobbies, NoLobbyLost, Live
<1>2. ASSUME NEW p \in pending, JoinAccept(s, p), Seatable(p)
      PROVE  Steady /\ NoLobbyLost
  <2>. DEFINE l == p.lobby
              joined == p.joiner
  <2>1. l \in DOMAIN lobbies /\ lobbies[l] \in Lobby /\ lobbies \in [DOMAIN lobbies -> Lobby]
        /\ joined \in Live /\ sessions \in [Live -> Session]
    BY <1>2 DEF Seatable, Inv, Types, TypeOK, Live
  <2>2. /\ lobbies' = [lobbies EXCEPT
               ![l].joiner = joined,
               ![l].hostPublic = @ \/ FreshPublic(s),
               ![l].state = IF @ = "open" THEN "full" ELSE @]
        /\ sessions' = [sessions EXCEPT ![joined].presence = Joined(l)]
        /\ UNCHANGED task
    BY <1>2 DEF JoinAccept
  <2>. HIDE DEF l, joined
  <2>3. \A x \in Live : sessions'[x].account = sessions[x].account
    BY <2>1, <2>2 DEF Session
  <2>4. /\ DOMAIN lobbies' = DOMAIN lobbies
        /\ \A k \in DOMAIN lobbies : lobbies'[k].host = lobbies[k].host /\ lobbies'[k].match = lobbies[k].match
    BY <2>1, <2>2 DEF Lobby
  <2>. QED  BY <2>2, <2>3, <2>4 DEF Steady, SteadyLobbies, NoLobbyLost
<1>3. UNCHANGED <<sessions, lobbies, task>> \/ \E p \in pending : JoinAccept(s, p) /\ Seatable(p)
  BY DEF JoinRequest, JoinAccept, JoinReject
<1>. QED  BY <1>1, <1>2, <1>3

LEMMA LeaveSteady ==
    ASSUME Inv, NEW s \in Sids, Leave(s)
    PROVE  Steady /\ NoLobbyLost
<1>1. PICK l \in JoinedBy(s) : lobbies' = [lobbies EXCEPT ![l] = Vacated(@)]
  BY DEF Leave
<1>2. /\ DOMAIN lobbies' = DOMAIN lobbies
      /\ \A k \in DOMAIN lobbies : lobbies'[k].host = lobbies[k].host /\ lobbies'[k].match = lobbies[k].match
  <2>1. l \in DOMAIN lobbies /\ lobbies[l] \in Lobby
    BY <1>1 DEF JoinedBy, Inv, Types, TypeOK
  <2>2. lobbies'[l] = Vacated(lobbies[l]) /\ \A k \in DOMAIN lobbies : k # l => lobbies'[k] = lobbies[k]
    BY <1>1, <2>1
  <2>. QED  BY <1>1, <2>1, <2>2, VacatedFacts
<1>3. \A x \in Live : sessions'[x].account = sessions[x].account
  BY DEF Leave, Inv, Types, TypeOK, Live, Session
<1>. QED  BY <1>2, <1>3 DEF Leave, Steady, SteadyLobbies, NoLobbyLost

LEMMA MatchEndedSteady ==
    ASSUME Inv, NEW s \in Sids, MatchEnded(s)
    PROVE  Steady /\ NoLobbyLost
<1>. DEFINE p == IF s \in Live THEN sessions[s].presence ELSE Idle
            l == p.lobby
            state == IF lobbies[l].joiner # None THEN "full" ELSE "open"
            first == SetPresence(sessions, {s}, Hosting(l))
<1>1. \A x \in Sids : task[x].op = "start" => task'[x] = task[x]
  BY DEF MatchEnded, Inv, Types, TypeOK
<1>2. lobbies \in [DOMAIN lobbies -> Lobby] /\ sessions \in [Live -> Session]
  BY DEF Inv, Types, TypeOK, Live
<1>3. lobbies' = lobbies \/ (l \in DOMAIN lobbies /\ lobbies' = [lobbies EXCEPT ![l].match = None, ![l].state = state])
  BY DEF MatchEnded
<1>4. \/ sessions' = sessions
      \/ sessions' = SetPresence(first, {lobbies[l].joiner}, Joined(l))
      \/ sessions' = SetPresence(sessions, {s}, IF l = None THEN Idle ELSE Hosting(l))
  BY DEF MatchEnded
<1>5. Hosting(l) \in Presence /\ Joined(l) \in Presence /\ Idle \in Presence
  <2>1. l \in Option(LobbyIds)
    BY DEF Inv, Types, TypeOK, Live, Session, Presence, Idle, Option
  <2>. QED  BY <2>1, PresenceValues
<1>. HIDE DEF p, l, state
<1>6. /\ DOMAIN lobbies' = DOMAIN lobbies
      /\ \A k \in DOMAIN lobbies : /\ lobbies'[k].host = lobbies[k].host
                                  /\ lobbies'[k].match \in {lobbies[k].match, None}
  BY <1>2, <1>3 DEF Lobby
<1>7. \A x \in Live : sessions'[x].account = sessions[x].account
  <2>1. DOMAIN sessions = Live  BY <1>2
  <2>2. first \in [Live -> Session] /\ Presences(sessions, first)
    BY <1>2, <1>5, <2>1, SetPresenceFacts
  <2>. HIDE DEF first
  <2>3. Presences(first, SetPresence(first, {lobbies[l].joiner}, Joined(l)))
    BY <1>5, <2>2, SetPresenceFacts
  <2>4. Presences(sessions, SetPresence(sessions, {s}, IF l = None THEN Idle ELSE Hosting(l)))
    BY <1>2, <1>5, <2>1, SetPresenceFacts
  <2>. QED  BY <1>4, <2>1, <2>2, <2>3, <2>4 DEF Presences
<1>. QED  BY <1>1, <1>6, <1>7 DEF Steady, SteadyLobbies, NoLobbyLost

-----------------------------------------------------------------------------
(* Sections that remove lobbies. *)

LEMMA RemovedSteady ==
    ASSUME Inv, NEW s \in Live, lobbies' = RemovedLobbies(s),
           \A x \in Live : x \in Live' /\ sessions[x].account # None => sessions'[x].account = sessions[x].account
    PROVE  SteadyLobbies
<1>1. ASSUME NEW l \in DOMAIN lobbies'
      PROVE  /\ l \in DOMAIN lobbies /\ lobbies'[l].host = lobbies[l].host
             /\ lobbies'[l].match = lobbies[l].match
  <2>1. l \in DOMAIN lobbies /\ lobbies[l] \in Lobby
        /\ lobbies'[l] = IF lobbies[l].joiner = s THEN Vacated(lobbies[l]) ELSE lobbies[l]
    BY DEF RemovedLobbies, Inv, Types, TypeOK
  <2>. QED  BY <2>1, VacatedFacts
<1>. QED  BY <1>1 DEF SteadyLobbies

LEMMA RemoveSteady ==
    ASSUME Inv, NEW s \in Live, Remove(s), UNCHANGED task
    PROVE  Steady
<1>1. \A x \in Live : x \in Live' => sessions'[x].account = sessions[x].account
  BY RemovedIdentities DEF Remove, Inv, Types, Live
<1>. QED  BY <1>1, RemovedSteady DEF Remove, Steady

LEMMA BindAccountSteady ==
    ASSUME Inv, NEW s \in Sids, BindAccount(s)
    PROVE  Steady
<1>. DEFINE a == task[s].account
            old == byAccount[a]
<1>1. \A x \in Sids : task[x].op = "start" => task'[x] = task[x]
  BY DEF BindAccount, Inv, Types, TypeOK
<1>2. a \in Accounts /\ (s \in Live => sessions[s].account = None)
  BY DEF BindAccount, Inv, Types, AuthTasks
<1>3. CASE a \in DOMAIN byAccount /\ old # s
  <2>1. old \in Live
    BY <1>3 DEF Inv, Bindings, AccountBinding
  <2>2. RemovedSessions(old) \in [Live \ {old} -> Session]
        /\ \A x \in Live \ {old} : RemovedSessions(old)[x].account = sessions[x].account
    BY <2>1, RemovedTypes, RemovedIdentities DEF Inv, Types
  <2>3. /\ sessions' = IF s \in DOMAIN RemovedSessions(old)
                       THEN [RemovedSessions(old) EXCEPT ![s].account = a] ELSE RemovedSessions(old)
        /\ lobbies' = RemovedLobbies(old)
    BY <1>3 DEF BindAccount
  <2>. HIDE DEF a, old
  <2>4. DOMAIN sessions' = Live \ {old}
        /\ \A x \in Live \ {old} : sessions'[x].account = IF x = s THEN a ELSE sessions[x].account
    BY <1>2, <2>2, <2>3, BoundFacts
  <2>5. \A x \in Live : x \in Live' /\ sessions[x].account # None => sessions'[x].account = sessions[x].account
    BY <1>2, <2>4 DEF Live
  <2>. QED  BY <1>1, <2>1, <2>3, <2>5, RemovedSteady DEF Steady
<1>4. CASE ~ (a \in DOMAIN byAccount /\ old # s)
  <2>1. /\ sessions' = IF s \in DOMAIN sessions THEN [sessions EXCEPT ![s].account = a] ELSE sessions
        /\ lobbies' = lobbies
    BY <1>4 DEF BindAccount
  <2>. HIDE DEF a, old
  <2>2. \A x \in Live : sessions'[x].account = IF x = s THEN a ELSE sessions[x].account
    BY <1>2, <2>1, BoundFacts DEF Inv, Types, TypeOK, Live
  <2>. QED  BY <1>1, <1>2, <2>1, <2>2 DEF Steady, SteadyLobbies
<1>. QED  BY <1>3, <1>4

LEMMA CloseLobbiesSteady ==
    ASSUME Inv, NEW S, lobbies' = Drop(lobbies, S), UNCHANGED task,
           \A x \in Live : x \in Live' => sessions'[x].account = sessions[x].account
    PROVE  Steady
<1>1. /\ DOMAIN lobbies' = DOMAIN lobbies \ S
      /\ \A l \in DOMAIN lobbies \ S : lobbies'[l] = lobbies[l]
  BY DropFacts
<1>. QED  BY <1>1 DEF Steady, SteadyLobbies

LEMMA CloseSteady ==
    ASSUME Inv, NEW s \in Sids, NEW l \in LobbyIds, Close(s, l)
    PROVE  Steady
<1>. DEFINE ss == ClosedPresences(sessions, {l})
<1>1. ss \in [Live -> Session] /\ DOMAIN ss = Live /\ Presences(sessions, ss)
  BY ClosedPresencesFacts DEF Inv, Types, TypeOK, Live
<1>2. sessions' = [ss EXCEPT ![s].presence = Idle]
  BY DEF Close
<1>. HIDE DEF ss
<1>3. \A x \in Live : sessions'[x].account = sessions[x].account
  BY <1>1, <1>2 DEF Presences, Session, Live
<1>. QED  BY <1>3, CloseLobbiesSteady DEF Close, CloseLobbies

LEMMA SweepSteady ==
    ASSUME Inv, Sweep
    PROVE  Steady
<1>1. PICK dead : lobbies' = Drop(lobbies, dead) /\ sessions' = ClosedPresences(sessions, dead)
  BY DEF Sweep, CloseLobbies
<1>2. Presences(sessions, sessions')
  BY <1>1, ClosedPresencesFacts DEF Inv, Types, TypeOK
<1>3. UNCHANGED task  BY DEF Sweep
<1>. QED  BY <1>1, <1>2, <1>3, CloseLobbiesSteady DEF Presences, Live

LEMMA RemovalsSteady ==
    ASSUME Inv, OwnerKicks \/ \E s \in Sids : ConnectionEnds(s)
    PROVE  Steady
<1>1. PICK s \in Live : Remove(s) /\ UNCHANGED task
  BY DEF OwnerKicks, ConnectionEnds, Disconnect, Ready, Kick, KickAccount,
         Inv, Bindings, AccountBinding
<1>. QED  BY <1>1, RemoveSteady

LEMMA HubOnlySteady ==
    ASSUME Inv, NEW s \in Sids, HubOnly(s)
    PROVE  Steady /\ NoLobbyLost
BY ConnectSteady, HelloSteady, AuthenticateSteady, RendezvousSteady, LeaveSteady, CreateSteady,
   UpdateSteady, JoinSteady DEF HubOnly

-----------------------------------------------------------------------------
(* Every section is a step of the hub. *)

LEMMA ReaderIsHub ==
    ASSUME LSInv, NEW s \in Sids, ReaderStep(s)
    PROVE  [Next]_hubVars
<1>1. CASE HubOnly(s)
  BY <1>1 DEF HubOnly, Next, SessionStep, LobbyStep
<1>2. CASE CloseLobby(s)
  BY <1>2 DEF CloseLobby, Next, LobbyStep
<1>3. CASE ConnectionEnds(s) \/ Bind(s) \/ RequestRefused(s) \/ InsertCutShort(s)
  BY <1>3 DEF ConnectionEnds, Bind, RequestRefused, InsertCutShort, Next, SessionStep
<1>4. CASE StartRequest(s) \/ EndRequest(s) \/ EndSettle(s)
  BY <1>4 DEF StartRequest, EndRequest, EndSettle, Next, MatchStep
<1>5. CASE StartCommit(s)
  BY <1>5 DEF StartCommit, LSInv, Records, JobsFilled, Next, MatchStep
<1>6. CASE StartInsert(s) \/ EndInsert(s) \/ EndRecord(s)
  BY <1>6 DEF StartInsert, EndInsert, EndRecord, InsertRow
<1>. QED  BY <1>1, <1>2, <1>3, <1>4, <1>5, <1>6 DEF ReaderStep

LEMMA StepIsHub == ASSUME LSInv, [LSNext]_vars PROVE [Next]_hubVars
<1>1. CASE OwnerKicks
  BY <1>1 DEF OwnerKicks, Next, SessionStep
<1>2. CASE SweepLobbies \/ Clock \/ ServerRestart
  BY <1>2 DEF SweepLobbies, Clock, ServerRestart, Next
<1>3. CASE \/ \E b \in abandoning : DbAbandon(b) \/ DbAbandonFails(b)
           \/ \E S \in SUBSET MatchIds : AbandonOld(S)
  BY <1>3 DEF DbAbandon, DbAbandonFails, AbandonOld
<1>4. CASE UNCHANGED vars
  BY <1>4 DEF vars
<1>. QED  BY <1>1, <1>2, <1>3, <1>4, ReaderIsHub DEF LSNext, LSStep

-----------------------------------------------------------------------------
(* The links between lobbies, jobs and rows. *)

RowsKept ==
    DOMAIN rows \subseteq DOMAIN rows' /\ \A m \in DOMAIN rows : rows'[m].host = rows[m].host

\* Jobs of a match_start end or go on as they are.
StartsKept ==
    \A x \in Sids : job'[x].step \in {"insert", "commit"} =>
        job'[x] = job[x] /\ (task[x].op = "start" => task'[x] = task[x])

LEMMA LinksKept ==
    ASSUME LSInv, Inv', SteadyLobbies, StartsKept, RowsKept
    PROVE  Links'
<1>1. ASSUME NEW l \in DOMAIN lobbies'
      PROVE  /\ lobbies'[l].host \in Live' /\ sessions'[lobbies'[l].host].account # None
             /\ l \in DOMAIN lobbies =>
                   /\ lobbies'[l].host = lobbies[l].host
                   /\ sessions'[lobbies'[l].host].account = sessions[lobbies[l].host].account
                   /\ lobbies'[l].match \in {lobbies[l].match, None}
             /\ l \notin DOMAIN lobbies => lobbies'[l].match = None /\ \A s \in Sids : task[s].lobby # l
  <2>1. lobbies'[l].host \in Live' /\ sessions'[lobbies'[l].host].account # None
    BY DEF Inv, Seats, LobbyMembersLive
  <2>2. l \in DOMAIN lobbies => lobbies[l].host \in Live /\ sessions[lobbies[l].host].account # None
    BY DEF LSInv, Inv, Seats, LobbyMembersLive
  <2>. QED  BY <2>1, <2>2 DEF SteadyLobbies
<1>2. StartsOwnLobby'
  <2>1. ASSUME NEW x \in Sids, job'[x].step \in {"insert", "commit"}
        PROVE  /\ task'[x].op = "start"
               /\ task'[x].lobby \in DOMAIN lobbies' =>
                     /\ lobbies'[task'[x].lobby].host = x
                     /\ sessions'[x].account = job'[x].account
    <3>1. job'[x] = job[x] /\ task[x].op = "start" /\ task'[x] = task[x]
      BY <2>1 DEF StartsKept, LSInv, Links, StartsOwnLobby
    <3>2. task[x].lobby \in DOMAIN lobbies => lobbies[task[x].lobby].host = x /\ sessions[x].account = job[x].account
      BY <2>1, <3>1 DEF LSInv, Links, StartsOwnLobby
    <3>. QED  BY <1>1, <3>1, <3>2
  <2>. QED  BY <2>1 DEF StartsOwnLobby
<1>3. RowIsItsOwn'
  <2>1. ASSUME NEW x \in Sids, job'[x].step = "commit"
        PROVE  /\ job'[x].match \in DOMAIN rows' /\ rows'[job'[x].match].host = job'[x].account
               /\ \A l \in DOMAIN lobbies' : lobbies'[l].match # job'[x].match
               /\ \A t \in Sids \ {x} : job'[t].step = "commit" => job'[t].match # job'[x].match
    <3>1. job'[x] = job[x]
      BY <2>1 DEF StartsKept
    <3>2. /\ job[x].match \in DOMAIN rows /\ rows[job[x].match].host = job[x].account
          /\ \A l \in DOMAIN lobbies : lobbies[l].match # job[x].match
          /\ \A t \in Sids \ {x} : job[t].step = "commit" => job[t].match # job[x].match
      BY <2>1, <3>1 DEF RowIsItsOwn, LSInv, Links
    <3>3. job[x].match # None
      BY <2>1, <3>1, HubAssumption DEF LSInv, Records, JobsFilled
    <3>4. \A t \in Sids : job'[t].step = "commit" => job'[t] = job[t]
      BY DEF StartsKept
    <3>5. ASSUME NEW l \in DOMAIN lobbies' PROVE lobbies'[l].match # job[x].match
      BY <1>1, <3>2, <3>3
    <3>. QED  BY <3>1, <3>2, <3>4, <3>5 DEF RowsKept
  <2>. QED  BY <2>1 DEF RowIsItsOwn
<1>4. RunningMatchIsHosts'
  <2>1. ASSUME NEW l \in DOMAIN lobbies', lobbies'[l].match # None
        PROVE  /\ l \in DOMAIN lobbies /\ lobbies'[l].match = lobbies[l].match
               /\ lobbies'[l].match \in DOMAIN rows'
               /\ rows'[lobbies'[l].match].host = sessions'[lobbies'[l].host].account
    BY <1>1, <2>1 DEF LSInv, Links, RunningMatchIsHosts, RowsKept, Account
  <2>. QED  BY <2>1 DEF LSInv, Links, RunningMatchIsHosts, Account
<1>. QED  BY <1>2, <1>3, <1>4 DEF Links

-----------------------------------------------------------------------------
(* Sections of the hub alone. *)

LEMMA HandOverType ==
    ASSUME LSInv, NEW by \in Option(Sids), HandOver(by)
    PROVE  abandoning' \subseteq Batch
<1>. DEFINE ids == {lobbies[l].match : l \in DOMAIN lobbies \ DOMAIN lobbies'} \ {None}
<1>1. ids \subseteq MatchIds
  BY DEF LSInv, Inv, Types, TypeOK, Lobby, Option
<1>2. abandoning' = abandoning \cup (IF ids = {} THEN {} ELSE {[by |-> by, ids |-> ids]})
  BY DEF HandOver
<1>. HIDE DEF ids
<1>. QED  BY <1>1, <1>2 DEF LSInv, Records, DbTypes, Batch

LEMMA HubSectionInv ==
    ASSUME LSInv, Inv', Steady, UNCHANGED <<rows, ledger, job>>, abandoning' \subseteq Batch
    PROVE  LSInv'
<1>1. Links'
  BY LinksKept DEF Steady, StartsKept, RowsKept
<1>2. Records'
  BY DEF LSInv, Records, DbTypes, JobsFilled, LedgerMatchesRows
<1>. QED  BY <1>1, <1>2 DEF LSInv

LEMMA HubSections ==
    ASSUME LSInv, Inv',
           \/ \E s \in Sids : HubOnly(s) \/ CloseLobby(s) \/ ConnectionEnds(s) \/ Bind(s)
           \/ Clock \/ OwnerKicks \/ SweepLobbies
    PROVE  LSInv'
<1>. Inv /\ abandoning \subseteq Batch /\ None \in Option(Sids) /\ Sids \subseteq Option(Sids)
  BY DEF LSInv, Records, DbTypes, Option
<1>1. CASE \E s \in Sids : HubOnly(s)
  BY <1>1, HubOnlySteady, HubSectionInv DEF HubOnly, dbVars
<1>2. CASE Clock
  BY <1>2, ClockSteady, HubSectionInv DEF Clock, dbVars
<1>3. CASE OwnerKicks \/ \E s \in Sids : ConnectionEnds(s)
  BY <1>3, RemovalsSteady, HandOverType, HubSectionInv DEF OwnerKicks, ConnectionEnds
<1>4. CASE \E s \in Sids : CloseLobby(s)
  BY <1>4, CloseSteady, HandOverType, HubSectionInv DEF CloseLobby
<1>5. CASE \E s \in Sids : Bind(s)
  BY <1>5, BindAccountSteady, HandOverType, HubSectionInv DEF Bind
<1>6. CASE SweepLobbies
  BY <1>6, SweepSteady, HandOverType, HubSectionInv DEF SweepLobbies
<1>. QED  BY <1>1, <1>2, <1>3, <1>4, <1>5, <1>6

-----------------------------------------------------------------------------
(* Sections of the database. *)

LEMMA AbandonedFacts ==
    ASSUME DbTypes, NEW S, Abandoned(S)
    PROVE  /\ DOMAIN rows' = DOMAIN rows
           /\ \A m \in DOMAIN rows :
                 /\ rows'[m] \in Row /\ rows'[m].host = rows[m].host /\ rows'[m].seats = rows[m].seats
                 /\ rows'[m].status = IF m \in S /\ rows[m].status = "open" THEN "abandoned"
                                      ELSE rows[m].status
                 /\ rows[m].status # "open" => rows'[m] = rows[m]
           /\ rows' \in [DOMAIN rows' -> Row]
<1>1. DOMAIN rows' = DOMAIN rows
  BY DEF Abandoned
<1>2. ASSUME NEW m \in DOMAIN rows
      PROVE  /\ rows'[m] \in Row /\ rows'[m].host = rows[m].host /\ rows'[m].seats = rows[m].seats
             /\ rows'[m].status = IF m \in S /\ rows[m].status = "open" THEN "abandoned"
                                  ELSE rows[m].status
             /\ rows[m].status # "open" => rows'[m] = rows[m]
  <2>1. /\ rows[m] \in Row
        /\ rows'[m] = IF m \in S /\ rows[m].status = "open"
                      THEN [rows[m] EXCEPT !.status = "abandoned"] ELSE rows[m]
    BY DEF Abandoned, DbTypes
  <2>. QED  BY <2>1 DEF Row
<1>3. rows' = [m \in DOMAIN rows' |-> rows'[m]]
  BY DEF Abandoned
<1>. QED  BY <1>1, <1>2, <1>3

LEMMA AbandonedRecords ==
    ASSUME Records, NEW S, Abandoned(S), ledger' = ledger,
           job' = job \/ job' = [s \in Sids |-> NoJob], abandoning' \subseteq Batch
    PROVE  Records' /\ RowsKept
<1>. DbTypes  BY DEF Records
<1>1. DbTypes'
  BY AbandonedFacts DEF DbTypes, Job, NoJob, Option, Step
<1>2. JobsFilled'
  BY DEF Records, JobsFilled, NoJob
<1>3. LedgerMatchesRows'
  BY AbandonedFacts DEF Records, LedgerMatchesRows
<1>. QED  BY <1>1, <1>2, <1>3, AbandonedFacts DEF Records, RowsKept

LEMMA StutterSteady == ASSUME UNCHANGED hubVars PROVE Steady /\ NoLobbyLost
BY DEF hubVars, Steady, SteadyLobbies, NoLobbyLost, Live

LEMMA AbandonInv ==
    ASSUME LSInv, Inv',
           \/ \E b \in abandoning : DbAbandon(b) \/ DbAbandonFails(b)
           \/ \E S \in SUBSET MatchIds : AbandonOld(S)
    PROVE  LSInv'
<1>1. PICK S : Abandoned(S)
  BY DEF DbAbandon, DbAbandonFails, AbandonOld
<1>2. UNCHANGED <<hubVars, ledger, job>> /\ abandoning' \subseteq Batch
  BY DEF DbAbandon, DbAbandonFails, AbandonOld, LSInv, Records, DbTypes
<1>3. Records' /\ RowsKept
  BY <1>1, <1>2, AbandonedRecords DEF LSInv
<1>4. Links'
  BY <1>2, <1>3, StutterSteady, LinksKept DEF Steady, StartsKept
<1>. QED  BY <1>3, <1>4 DEF LSInv

LEMMA RestartedInv == ASSUME LSInv, Inv', ServerRestart PROVE LSInv'
<1>1. Records'
  BY AbandonedRecords DEF ServerRestart, LSInv
<1>2. \A s \in Sids : job'[s].step = "none"
  BY DEF ServerRestart, NoJob
<1>3. DOMAIN lobbies' = {}
  BY DEF ServerRestart, Restart, Empty
<1>4. Links'
  BY <1>2, <1>3 DEF Links, StartsOwnLobby, RowIsItsOwn, RunningMatchIsHosts
<1>. QED  BY <1>1, <1>4 DEF LSInv

-----------------------------------------------------------------------------
(* match_start and match_end. *)

\* One reader's job changes.
LEMMA JobRecords ==
    ASSUME Records, NEW s \in Sids, NEW j \in Job, job' = [job EXCEPT ![s] = j],
           UNCHANGED <<rows, ledger, abandoning>>,
           j.step \in {"insert", "insert_report", "record", "commit"} => j.account \in Accounts,
           j.step \in {"commit", "record", "settle"} => j.match \in MatchIds
    PROVE  Records'
<1>1. job' \in [Sids -> Job] /\ \A x \in Sids : job'[x] = IF x = s THEN j ELSE job[x]
  BY DEF Records, DbTypes
<1>2. DbTypes'
  BY <1>1 DEF Records, DbTypes
<1>3. JobsFilled'
  BY <1>1 DEF Records, JobsFilled
<1>. QED  BY <1>2, <1>3 DEF Records, LedgerMatchesRows

\* A job ends, or one begins that is not a match_start.
LEMMA JobInv ==
    ASSUME LSInv, Inv', NEW s \in Sids, NEW j \in Job, job' = [job EXCEPT ![s] = j],
           UNCHANGED <<rows, ledger, abandoning>>,
           j.step \notin {"insert", "commit"},
           j.step \in {"insert_report", "record"} => j.account \in Accounts,
           j.step \in {"record", "settle"} => j.match \in MatchIds,
           SteadyLobbies, \A x \in Sids \ {s} : task[x].op = "start" => task'[x] = task[x]
    PROVE  LSInv'
<1>1. Records'
  BY JobRecords DEF LSInv
<1>2. \A x \in Sids : job'[x] = IF x = s THEN j ELSE job[x]
  BY DEF LSInv, Records, DbTypes
<1>3. Links'
  BY <1>2, LinksKept DEF StartsKept, RowsKept
<1>. QED  BY <1>1, <1>3 DEF LSInv

LEMMA NoJobFacts == NoJob \in Job /\ NoJob.step = "none"
BY DEF NoJob, Job, Step, Option

LEMMA RequestInv ==
    ASSUME LSInv, Inv', NEW s \in Sids, RequestRefused(s) \/ EndSettle(s) \/ EndRequest(s)
    PROVE  LSInv'
<1>. Inv  BY DEF LSInv
<1>1. CASE RequestRefused(s)
  <2>1. SteadyLobbies
    BY <1>1 DEF RequestRefused, RequestFails, SteadyLobbies, Live
  <2>2. \A x \in Sids \ {s} : task'[x] = task[x]
    BY <1>1 DEF RequestRefused, RequestFails, Inv, Types, TypeOK
  <2>. QED  BY <1>1, <2>1, <2>2, NoJobFacts, JobInv DEF RequestRefused
<1>2. CASE EndSettle(s)
  BY <1>2, MatchEndedSteady, NoJobFacts, JobInv DEF EndSettle, Steady
<1>3. CASE EndRequest(s)
  <2>1. PICK m \in Option(MatchIds) :
          job' = [job EXCEPT ![s] =
                     [step |-> IF m = None THEN "insert_report" ELSE "record",
                      account |-> Account(s), seats |-> {Account(s)}, match |-> m]]
    BY <1>3 DEF EndRequest
  <2>2. Account(s) \in Accounts
    BY <1>3 DEF EndRequest, MatchEnd, Registered, Ready, Account, Inv, Types, TypeOK, Session, Option, Live
  <2>. DEFINE j == [step |-> IF m = None THEN "insert_report" ELSE "record",
                    account |-> Account(s), seats |-> {Account(s)}, match |-> m]
  <2>3. j \in Job /\ j.step \in {"insert_report", "record"} /\ j.account \in Accounts
        /\ (j.step = "record" => j.match \in MatchIds)
    BY <2>2 DEF Job, Step, Option
  <2>4. Steady
    BY <1>3, MatchRequestSteady DEF EndRequest
  <2>5. job' = [job EXCEPT ![s] = j] /\ UNCHANGED <<rows, ledger, abandoning>>
    BY <1>3, <2>1 DEF EndRequest
  <2>. HIDE DEF j
  <2>. QED  BY <2>3, <2>4, <2>5, JobInv DEF Steady
<1>. QED  BY <1>1, <1>2, <1>3

LEMMA StartRequestInv ==
    ASSUME LSInv, Inv', NEW s \in Sids, StartRequest(s)
    PROVE  LSInv'
<1>. Inv  BY DEF LSInv
<1>1. PICK l \in {h \in HostedBy(s) : lobbies[h].joiner # None} \cup {None} :
         task' = [task EXCEPT ![s] = [NoTask EXCEPT !.op = "start", !.lobby = l]]
  BY DEF StartRequest, MatchStart
<1>2. task \in [Sids -> Task] /\ job \in [Sids -> Job]
  BY DEF Inv, Types, TypeOK, LSInv, Records, DbTypes
<1>3. /\ task'[s].op = "start" /\ task'[s].lobby = l
      /\ \A x \in Sids \ {s} : task'[x] = task[x]
  BY <1>1, <1>2 DEF NoTask
<1>. DEFINE second == IF l = None THEN {} ELSE {Account(lobbies[l].joiner)}
            j == [NoJob EXCEPT !.step = "insert", !.account = Account(s), !.seats = {Account(s)} \cup second]
<1>4. job' = [job EXCEPT ![s] = j] /\ UNCHANGED <<rows, ledger, abandoning>>
  BY <1>3 DEF StartRequest
<1>5. Account(s) \in Accounts /\ UNCHANGED <<sessions, lobbies>>
  BY DEF StartRequest, MatchStart, Registered, Ready, Account, Inv, Types, TypeOK, Session, Option, Live
<1>6. second \subseteq Accounts
  <2>1. l # None => l \in DOMAIN lobbies /\ lobbies[l].joiner # None
    BY DEF HostedBy
  <2>2. l # None => lobbies[l].joiner \in Live /\ sessions[lobbies[l].joiner].account # None
    BY <2>1 DEF Inv, Seats, LobbyMembersLive
  <2>. QED  BY <2>2 DEF Account, Inv, Types, TypeOK, Session, Option, Live
<1>. HIDE DEF second
<1>7. j \in Job /\ j.step = "insert" /\ j.account = Account(s)
  BY <1>5, <1>6 DEF NoJob, Job, Step, Option
<1>. HIDE DEF j
<1>8. Records'
  BY <1>4, <1>5, <1>7, JobRecords DEF LSInv
<1>9. \A x \in Sids : job'[x] = IF x = s THEN j ELSE job[x]
  BY <1>2, <1>4
<1>10. l \in DOMAIN lobbies => lobbies[l].host = s
  BY HubAssumption DEF HostedBy, Inv, Types, TypeOK
<1>11. StartsOwnLobby'
  BY <1>3, <1>5, <1>7, <1>9, <1>10 DEF StartsOwnLobby, LSInv, Links, Account
<1>12. RowIsItsOwn'
  BY <1>4, <1>5, <1>7, <1>9 DEF RowIsItsOwn, LSInv, Links
<1>13. RunningMatchIsHosts'
  BY <1>4, <1>5 DEF RunningMatchIsHosts, Account, LSInv, Links
<1>. QED  BY <1>8, <1>11, <1>12, <1>13 DEF LSInv, Links

\* A new row touches no other, and no account has been credited for it.
LEMMA InsertRowFacts ==
    ASSUME LSInv, NEW s \in Sids, NEW m \in MatchIds, NEW next \in {"commit", "record"},
           InsertRow(s, m, next), job[s].account \in Accounts
    PROVE  /\ Records' /\ RowsKept
           /\ m \notin DOMAIN rows /\ m \in DOMAIN rows' /\ rows'[m].host = job[s].account
           /\ job'[s].step = next /\ job'[s].match = m /\ job'[s].account = job[s].account
           /\ \A x \in Sids \ {s} : job'[x] = job[x]
<1>. DEFINE row == [host |-> job[s].account, seats |-> job[s].seats, status |-> "open"]
<1>0. DbTypes
  BY DEF LSInv, Records
<1>1. row \in Row /\ row.status = "open" /\ row.host = job[s].account
  BY <1>0 DEF DbTypes, Job, Row
<1>2. m \notin DOMAIN rows /\ rows' = Put(rows, m, row)
  BY DEF InsertRow
<1>. HIDE DEF row
<1>3. /\ DOMAIN rows' = DOMAIN rows \cup {m} /\ rows'[m] = row
      /\ \A k \in DOMAIN rows : rows'[k] = rows[k]
      /\ rows' \in [DOMAIN rows' -> Row]
  BY <1>0, <1>1, <1>2 DEF Put, DbTypes
<1>4. /\ job' \in [Sids -> Job]
      /\ job'[s].step = next /\ job'[s].match = m /\ job'[s].account = job[s].account
      /\ \A x \in Sids \ {s} : job'[x] = job[x]
  <2>1. job' = [job EXCEPT ![s].step = next, ![s].match = m] /\ job \in [Sids -> Job]
    BY <1>0 DEF InsertRow, DbTypes
  <2>2. job'[s] = [job[s] EXCEPT !.step = next, !.match = m] /\ \A x \in Sids \ {s} : job'[x] = job[x]
    BY <2>1
  <2>3. job'[s] \in Job
    BY <2>1, <2>2 DEF Job, Step, Option
  <2>. QED  BY <2>1, <2>2, <2>3 DEF Job
<1>5. DbTypes'
  BY <1>0, <1>3, <1>4 DEF DbTypes, InsertRow
<1>6. JobsFilled'
  BY <1>4 DEF JobsFilled, LSInv, Records
<1>7. LedgerMatchesRows'
  BY <1>1, <1>3, <1>2 DEF LedgerMatchesRows, LSInv, Records, InsertRow
<1>. QED  BY <1>1, <1>2, <1>3, <1>4, <1>5, <1>6, <1>7 DEF Records, RowsKept

\* The same of a row whose statements fail half way; its reader has no job left.
LEMMA InsertCutShortInv == ASSUME LSInv, Inv', NEW s \in Sids, InsertCutShort(s) PROVE LSInv'
<1>0. DbTypes /\ job[s].account \in Accounts
  BY DEF InsertCutShort, LSInv, Records, JobsFilled
<1>1. PICK m \in MatchIds \ DOMAIN rows, seats \in {{}, {job[s].account}} :
         rows' = Put(rows, m, [host |-> job[s].account, seats |-> seats, status |-> "open"])
  BY DEF InsertCutShort
<1>. DEFINE row == [host |-> job[s].account, seats |-> seats, status |-> "open"]
<1>2. row \in Row /\ row.status = "open" /\ rows' = Put(rows, m, row)
  BY <1>0, <1>1 DEF Row
<1>. HIDE DEF row
<1>3. /\ DOMAIN rows' = DOMAIN rows \cup {m} /\ rows'[m] = row
      /\ \A k \in DOMAIN rows : rows'[k] = rows[k]
      /\ rows' \in [DOMAIN rows' -> Row]
  BY <1>0, <1>1, <1>2 DEF Put, DbTypes
<1>4. job' \in [Sids -> Job] /\ \A x \in Sids : job'[x] = IF x = s THEN NoJob ELSE job[x]
  BY <1>0, NoJobFacts DEF InsertCutShort, DbTypes
<1>5. DbTypes'
  BY <1>0, <1>3, <1>4 DEF DbTypes, InsertCutShort
<1>6. JobsFilled'
  BY <1>4, NoJobFacts DEF JobsFilled, LSInv, Records
<1>7. LedgerMatchesRows'
  <2>1. ledger' = ledger  BY DEF InsertCutShort
  <2>2. m \notin DOMAIN rows /\ rows'[m].status # "ended"  BY <1>2, <1>3
  <2>3. LedgerMatchesRows  BY DEF LSInv, Records
  <2>. QED  BY <1>3, <2>1, <2>2, <2>3 DEF LedgerMatchesRows
<1>8. SteadyLobbies /\ \A x \in Sids \ {s} : task'[x] = task[x]
  BY DEF InsertCutShort, RequestFails, SteadyLobbies, Live, LSInv, Inv, Types, TypeOK
<1>9. Links'
  BY <1>3, <1>4, <1>8, NoJobFacts, LinksKept DEF StartsKept, RowsKept
<1>. QED  BY <1>5, <1>6, <1>7, <1>9 DEF LSInv, Records

LEMMA EndInsertInv == ASSUME LSInv, Inv', NEW s \in Sids, EndInsert(s) PROVE LSInv'
<1>1. PICK m \in MatchIds : InsertRow(s, m, "record")
  BY DEF EndInsert
<1>2. job[s].account \in Accounts
  BY DEF EndInsert, LSInv, Records, JobsFilled
<1>3. Records' /\ RowsKept /\ job'[s].step = "record" /\ \A x \in Sids \ {s} : job'[x] = job[x]
  BY <1>1, <1>2, InsertRowFacts
<1>4. Steady
  BY <1>1, StutterSteady DEF InsertRow
<1>5. Links'
  BY <1>3, <1>4, LinksKept DEF Steady, StartsKept
<1>. QED  BY <1>3, <1>5 DEF LSInv

LEMMA StartInsertInv == ASSUME LSInv, Inv', NEW s \in Sids, StartInsert(s) PROVE LSInv'
<1>1. PICK m \in MatchIds : InsertRow(s, m, "commit")
  BY DEF StartInsert
<1>2. job[s].account \in Accounts /\ job[s].step = "insert"
  BY DEF StartInsert, LSInv, Records, JobsFilled
<1>3. /\ Records' /\ RowsKept
      /\ m \notin DOMAIN rows /\ m \in DOMAIN rows' /\ rows'[m].host = job[s].account
      /\ job'[s].step = "commit" /\ job'[s].match = m /\ job'[s].account = job[s].account
      /\ \A x \in Sids \ {s} : job'[x] = job[x]
  BY <1>1, <1>2, InsertRowFacts
<1>4. UNCHANGED <<sessions, lobbies, task>>
  BY <1>1 DEF InsertRow, hubVars
<1>5. StartsOwnLobby'
  BY <1>2, <1>3, <1>4 DEF StartsOwnLobby, LSInv, Links
<1>6. ASSUME NEW l \in DOMAIN lobbies, lobbies[l].match # None
      PROVE  lobbies[l].match \in DOMAIN rows
  BY <1>6 DEF LSInv, Links, RunningMatchIsHosts
<1>7. RowIsItsOwn'
  <2>1. m # None
    BY HubAssumption
  <2>2. \A x \in Sids \ {s} : job[x].step = "commit" => job[x].match \in DOMAIN rows
    BY DEF LSInv, Links, RowIsItsOwn
  <2>3. ASSUME NEW x \in Sids, job'[x].step = "commit"
        PROVE  /\ job'[x].match \in DOMAIN rows' /\ rows'[job'[x].match].host = job'[x].account
               /\ \A l \in DOMAIN lobbies' : lobbies'[l].match # job'[x].match
               /\ \A t \in Sids \ {x} : job'[t].step = "commit" => job'[t].match # job'[x].match
    <3>1. CASE x = s
      BY <1>3, <1>4, <1>6, <2>1, <2>2, <3>1
    <3>2. CASE x # s
      <4>1. /\ job[x].match \in DOMAIN rows /\ rows[job[x].match].host = job[x].account
            /\ \A l \in DOMAIN lobbies : lobbies[l].match # job[x].match
            /\ \A t \in Sids \ {x} : job[t].step = "commit" => job[t].match # job[x].match
        BY <1>3, <2>3, <3>2 DEF LSInv, Links, RowIsItsOwn
      <4>. QED  BY <1>3, <1>4, <3>2, <4>1 DEF RowsKept
    <3>. QED  BY <3>1, <3>2
  <2>. QED  BY <2>3 DEF RowIsItsOwn
<1>8. RunningMatchIsHosts'
  BY <1>3, <1>4, <1>6 DEF RunningMatchIsHosts, Account, LSInv, Links, RowsKept
<1>. QED  BY <1>3, <1>5, <1>7, <1>8 DEF LSInv, Links

LEMMA EndRecordInv == ASSUME LSInv, Inv', NEW s \in Sids, EndRecord(s) PROVE LSInv'
<1>. DEFINE m == job[s].match
<1>0. DbTypes /\ m \in MatchIds /\ m \in DOMAIN rows /\ rows[m] \in Row
  BY DEF LSInv, Records, DbTypes, EndRecord, MayReport
<1>1. job' = [job EXCEPT ![s].step = "settle"] /\ UNCHANGED <<hubVars, abandoning>>
  BY DEF EndRecord
<1>2. \/ UNCHANGED <<rows, ledger>>
      \/ /\ rows[m].status = "open" /\ rows' = [rows EXCEPT ![m].status = "ended"]
         /\ ledger' = [a \in Accounts |->
                          IF a \in rows[m].seats THEN [ledger[a] EXCEPT ![m] = @ + 1] ELSE ledger[a]]
  BY DEF EndRecord
<1>3. /\ job' \in [Sids -> Job] /\ job'[s].step = "settle" /\ job'[s].match = m
      /\ \A x \in Sids \ {s} : job'[x] = job[x]
  <2>1. job'[s] = [job[s] EXCEPT !.step = "settle"] /\ \A x \in Sids \ {s} : job'[x] = job[x]
    BY <1>0, <1>1 DEF DbTypes
  <2>2. job'[s] \in Job
    BY <1>0, <2>1 DEF DbTypes, Job, Step
  <2>. QED  BY <1>0, <1>1, <2>1, <2>2 DEF DbTypes, Job
<1>. HIDE DEF m
<1>4. /\ rows' \in [DOMAIN rows' -> Row] /\ RowsKept /\ DOMAIN rows' = DOMAIN rows
      /\ ledger' \in [Accounts -> [MatchIds -> Nat]] /\ LedgerMatchesRows'
  <2>1. CASE UNCHANGED <<rows, ledger>>
    BY <1>0, <2>1 DEF DbTypes, RowsKept, LedgerMatchesRows, LSInv, Records
  <2>2. CASE /\ rows[m].status = "open" /\ rows' = [rows EXCEPT ![m].status = "ended"]
             /\ ledger' = [a \in Accounts |->
                              IF a \in rows[m].seats THEN [ledger[a] EXCEPT ![m] = @ + 1] ELSE ledger[a]]
    <3>1. /\ DOMAIN rows' = DOMAIN rows /\ \A k \in DOMAIN rows \ {m} : rows'[k] = rows[k]
          /\ rows'[m] = [rows[m] EXCEPT !.status = "ended"]
      BY <1>0, <2>2
    <3>2. /\ rows'[m] \in Row /\ rows'[m].host = rows[m].host
          /\ rows'[m].seats = rows[m].seats /\ rows'[m].status = "ended"
      BY <1>0, <3>1 DEF Row
    <3>3. rows' = [k \in DOMAIN rows |-> rows'[k]]
      BY <2>2
    <3>4. rows' \in [DOMAIN rows' -> Row] /\ RowsKept
      BY <1>0, <3>1, <3>2, <3>3 DEF DbTypes, RowsKept
    <3>5. ASSUME NEW a \in Accounts
          PROVE  /\ ledger'[a] \in [MatchIds -> Nat]
                 /\ \A k \in MatchIds :
                       ledger'[a][k] = IF k = m /\ a \in rows[m].seats THEN 1 ELSE ledger[a][k]
      <4>1. ledger[a] \in [MatchIds -> Nat] /\ ledger[a][m] = 0
        BY <1>0, <2>2 DEF DbTypes, LedgerMatchesRows, LSInv, Records
      <4>2. ledger'[a] = IF a \in rows[m].seats THEN [ledger[a] EXCEPT ![m] = @ + 1] ELSE ledger[a]
        BY <2>2
      <4>. QED  BY <1>0, <4>1, <4>2
    <3>6. ledger' \in [Accounts -> [MatchIds -> Nat]]
      BY <2>2, <3>5
    <3>7. LedgerMatchesRows'
      BY <1>0, <2>2, <3>1, <3>2, <3>5 DEF LedgerMatchesRows, LSInv, Records
    <3>. QED  BY <3>1, <3>4, <3>6, <3>7
  <2>. QED  BY <1>2, <2>1, <2>2
<1>5. Records'
  <2>1. DbTypes'
    BY <1>0, <1>1, <1>3, <1>4 DEF DbTypes
  <2>2. JobsFilled'
    BY <1>0, <1>3 DEF JobsFilled, LSInv, Records
  <2>. QED  BY <1>4, <2>1, <2>2 DEF Records
<1>6. Links'
  BY <1>1, <1>3, <1>4, StutterSteady, LinksKept DEF Steady, StartsKept
<1>. QED  BY <1>5, <1>6 DEF LSInv

LEMMA StartCommitInv == ASSUME LSInv, Inv', NEW s \in Sids, StartCommit(s) PROVE LSInv'
<1>. DEFINE m == job[s].match
            l == task[s].lobby
<1>. Inv  BY DEF LSInv
<1>1. /\ job[s].step = "commit" /\ job' = [job EXCEPT ![s] = NoJob]
      /\ UNCHANGED <<rows, ledger, abandoning>>
  BY DEF StartCommit
<1>2. /\ m \in DOMAIN rows /\ rows[m].host = job[s].account
      /\ \A k \in DOMAIN lobbies : lobbies[k].match # m
      /\ \A t \in Sids \ {s} : job[t].step = "commit" => job[t].match # m
  BY <1>1 DEF LSInv, Links, RowIsItsOwn
<1>3. l \in DOMAIN lobbies => lobbies[l].host = s /\ sessions[s].account = job[s].account
  BY <1>1 DEF LSInv, Links, StartsOwnLobby
<1>4. Records'
  BY <1>1, NoJobFacts, JobRecords DEF LSInv
<1>5. \A x \in Sids : job'[x] = IF x = s THEN NoJob ELSE job[x]
  BY <1>1 DEF LSInv, Records, DbTypes
<1>6. \A x \in Sids \ {s} : task'[x] = task[x]
  BY DEF StartCommit, MatchStarted, Inv, Types, TypeOK
<1>7. /\ DOMAIN lobbies' = DOMAIN lobbies
      /\ \A k \in DOMAIN lobbies : /\ lobbies'[k].host = lobbies[k].host
                                  /\ lobbies'[k].match = IF k = l THEN m ELSE lobbies[k].match
  <2>1. lobbies' = IF l \in DOMAIN lobbies
                   THEN [lobbies EXCEPT ![l].state = "in_match", ![l].match = m] ELSE lobbies
    BY DEF StartCommit, MatchStarted
  <2>2. lobbies \in [DOMAIN lobbies -> Lobby]
    BY DEF Inv, Types, TypeOK
  <2>. HIDE DEF l, m
  <2>. QED  BY <2>1, <2>2 DEF Lobby
<1>8. Live' = Live /\ \A x \in Live : sessions'[x].account = sessions[x].account
  <2>1. PICK S : sessions' = SetPresence(sessions, S, InMatch(l))
    BY DEF StartCommit, MatchStarted
  <2>2. InMatch(l) \in Presence
    BY PresenceValues DEF Inv, Types, TypeOK, Task
  <2>3. sessions \in [Live -> Session] /\ DOMAIN sessions = Live
    BY DEF Inv, Types, TypeOK, Live
  <2>. HIDE DEF l
  <2>4. Presences(sessions, sessions')
    BY <2>1, <2>2, <2>3, SetPresenceFacts
  <2>. QED  BY <2>3, <2>4 DEF Presences, Live
<1>9. \A k \in DOMAIN lobbies : lobbies[k].host \in Live
  BY DEF Inv, Seats, LobbyMembersLive
<1>. HIDE DEF l, m
<1>10. StartsOwnLobby'
  <2>1. ASSUME NEW x \in Sids, job'[x].step \in {"insert", "commit"}
        PROVE  /\ task'[x].op = "start"
               /\ task'[x].lobby \in DOMAIN lobbies' =>
                     lobbies'[task'[x].lobby].host = x /\ sessions'[x].account = job'[x].account
    <3>1. x # s /\ job'[x] = job[x] /\ task'[x] = task[x]
      BY <1>5, <1>6, <2>1, NoJobFacts
    <3>2. /\ task[x].op = "start"
          /\ task[x].lobby \in DOMAIN lobbies =>
                lobbies[task[x].lobby].host = x /\ sessions[x].account = job[x].account
      BY <2>1, <3>1 DEF LSInv, Links, StartsOwnLobby
    <3>. QED  BY <1>7, <1>8, <1>9, <3>1, <3>2
  <2>. QED  BY <2>1 DEF StartsOwnLobby
<1>11. RowIsItsOwn'
  <2>1. ASSUME NEW x \in Sids, job'[x].step = "commit"
        PROVE  /\ job'[x].match \in DOMAIN rows' /\ rows'[job'[x].match].host = job'[x].account
               /\ \A k \in DOMAIN lobbies' : lobbies'[k].match # job'[x].match
               /\ \A t \in Sids \ {x} : job'[t].step = "commit" => job'[t].match # job'[x].match
    <3>1. x # s /\ job'[x] = job[x]
      BY <1>5, <2>1, NoJobFacts
    <3>2. /\ job[x].match \in DOMAIN rows /\ rows[job[x].match].host = job[x].account
          /\ \A k \in DOMAIN lobbies : lobbies[k].match # job[x].match
          /\ \A t \in Sids \ {x} : job[t].step = "commit" => job[t].match # job[x].match
      BY <2>1, <3>1 DEF LSInv, Links, RowIsItsOwn
    <3>3. job[x].match # m
      BY <1>2, <2>1, <3>1
    <3>. QED  BY <1>1, <1>5, <1>7, <3>1, <3>2, <3>3, NoJobFacts
  <2>. QED  BY <2>1 DEF RowIsItsOwn
<1>12. RunningMatchIsHosts'
  <2>1. ASSUME NEW k \in DOMAIN lobbies', lobbies'[k].match # None
        PROVE  /\ lobbies'[k].match \in DOMAIN rows'
               /\ rows'[lobbies'[k].match].host = sessions'[lobbies'[k].host].account
    <3>1. CASE k = l
      BY <1>1, <1>2, <1>3, <1>7, <1>8, <1>9, <3>1
    <3>2. CASE k # l
      BY <1>1, <1>7, <1>8, <1>9, <2>1, <3>2 DEF LSInv, Links, RunningMatchIsHosts, Account
    <3>. QED  BY <3>1, <3>2
  <2>2. ASSUME NEW j \in DOMAIN lobbies', NEW k \in DOMAIN lobbies', j # k
        PROVE  lobbies'[j].match = None \/ lobbies'[j].match # lobbies'[k].match
    BY <1>2, <1>7, <2>2 DEF LSInv, Links, RunningMatchIsHosts
  <2>. QED  BY <2>1, <2>2 DEF RunningMatchIsHosts, Account
<1>. QED  BY <1>4, <1>10, <1>11, <1>12 DEF LSInv, Links

-----------------------------------------------------------------------------
(* The invariant holds for ever. *)

LEMMA InitLSInv == LSInit => LSInv
<1>. SUFFICES ASSUME LSInit PROVE LSInv  OBVIOUS
<1>1. Inv
  BY InitInv DEF LSInit
<1>2. DOMAIN rows = {} /\ rows \in [DOMAIN rows -> Row] /\ DOMAIN lobbies = {}
  BY DEF LSInit, Init, Empty
<1>3. \A s \in Sids : job[s] = NoJob
  BY DEF LSInit
<1>4. DbTypes
  BY <1>2, NoJobFacts DEF DbTypes, LSInit
<1>5. JobsFilled /\ StartsOwnLobby /\ RowIsItsOwn
  BY <1>3, NoJobFacts DEF JobsFilled, StartsOwnLobby, RowIsItsOwn
<1>6. LedgerMatchesRows /\ RunningMatchIsHosts
  BY <1>2 DEF LedgerMatchesRows, RunningMatchIsHosts, LSInit
<1>. QED  BY <1>1, <1>4, <1>5, <1>6 DEF LSInv, Records, Links

LEMMA NextLSInv == ASSUME LSInv, [LSNext]_vars PROVE LSInv'
<1>1. Inv'
  BY StepIsHub, NextInv DEF LSInv
<1>2. ASSUME NEW s \in Sids, ReaderStep(s) PROVE LSInv'
  BY <1>1, <1>2, HubSections, RequestInv, StartRequestInv, StartInsertInv, StartCommitInv,
     EndInsertInv, EndRecordInv, InsertCutShortInv DEF ReaderStep
<1>3. CASE UNCHANGED vars
  <2>1. Steady
    BY <1>3, StutterSteady DEF vars
  <2>. QED  BY <1>1, <1>3, <2>1, HubSectionInv DEF vars, dbVars, LSInv, Records, DbTypes
<1>. QED  BY <1>1, <1>2, <1>3, HubSections, AbandonInv, RestartedInv DEF LSNext, LSStep

LEMMA LSInvariance == LSSpec => []LSInv
BY InitLSInv, NextLSInv, PTL DEF LSSpec

\* The hub's own specification allows everything the composed server does to the
\* hub, so each theorem about Hub is one about the server.
THEOREM ServerIsHub == LSSpec => Spec
<1>1. LSInit => Init  BY DEF LSInit
<1>2. LSInv /\ [LSNext]_vars => [Next]_hubVars  BY StepIsHub
<1>. QED  BY <1>1, <1>2, LSInvariance, PTL DEF LSSpec, Spec

\* Every table of the hub and of the database always holds what its type allows.
THEOREM LSTypeCorrect == LSSpec => []LSTypeOK
<1>1. LSInv => LSTypeOK  BY DEF LSInv, Inv, Types, Records, DbTypes, LSTypeOK
<1>. QED  BY <1>1, LSInvariance, PTL

\* Repeated, raced and late reports credit each seated account exactly once, and
\* an abandoned match credits nobody.
THEOREM CreditsMatchRows == LSSpec => []LedgerMatchesRows
<1>1. LSInv => LedgerMatchesRows  BY DEF LSInv, Records
<1>. QED  BY <1>1, LSInvariance, PTL

\* The match a lobby runs is its own host's, however match_start interleaves with
\* leaving, closing, kicks and logins.
THEOREM MatchesBelongToHosts == LSSpec => []RunningMatchIsHosts
<1>1. LSInv => RunningMatchIsHosts  BY DEF LSInv, Links
<1>. QED  BY <1>1, LSInvariance, PTL

-----------------------------------------------------------------------------
(* The specification that the crowd run checks: the hub alone, or the composed  *)
(* server with a bound on who plays at a time.                                  *)

CrowdInv == Inv /\ (focus = "matches" => LSInv)

LEMMA CrowdStep == ASSUME CrowdInv, [CrowdNext]_<<vars, focus>> PROVE CrowdInv'
<1>1. CASE focus = "crowd" /\ Next /\ UNCHANGED <<dbVars, focus>>
  <2>1. Inv'
    BY <1>1, NextInv DEF CrowdInv
  <2>. QED  BY <1>1, <2>1 DEF CrowdInv
<1>2. CASE focus = "matches" /\ LSNext /\ UNCHANGED focus
  <2>1. LSInv'
    BY <1>2, NextLSInv DEF CrowdInv
  <2>. QED  BY <2>1 DEF CrowdInv, LSInv
<1>3. CASE UNCHANGED <<vars, focus>>
  <2>1. Inv'
    BY <1>3, NextInv DEF CrowdInv, vars
  <2>2. LSInv => LSInv'
    BY <1>3, NextLSInv
  <2>. QED  BY <1>3, <2>1, <2>2 DEF CrowdInv
<1>. QED  BY <1>1, <1>2, <1>3 DEF CrowdNext

\* In the run with every connection there is, as in the server itself, a lobby runs
\* a match of its own host.
THEOREM CrowdMatchesAreHosts == CrowdSpec => []MatchesAreHosts
<1>1. CrowdInit => CrowdInv
  BY InitLSInv DEF CrowdInit, CrowdInv, LSInv
<1>2. CrowdInv => MatchesAreHosts
  BY DEF CrowdInv, LSInv, Links, MatchesAreHosts
<1>. QED  BY <1>1, <1>2, CrowdStep, PTL DEF CrowdSpec

-----------------------------------------------------------------------------
(* What the steps do to the tables of matches. *)

\* A step opens a row, ends one and credits its seats, or abandons open ones.
Opens(m) ==
    /\ m \notin DOMAIN rows
    /\ \E row : row.status = "open" /\ rows' = Put(rows, m, row)
    /\ UNCHANGED ledger

LEMMA TableSteps ==
    ASSUME LSInv, [LSNext]_vars
    PROVE  \/ UNCHANGED <<rows, ledger>>
           \/ \E m \in MatchIds : Opens(m)
           \/ \E s \in Sids : EndRecord(s)
           \/ \E S \in SUBSET MatchIds : Abandoned(S) /\ UNCHANGED ledger
<1>1. ASSUME NEW s \in Sids, ReaderStep(s)
      PROVE  UNCHANGED <<rows, ledger>> \/ (\E m \in MatchIds : Opens(m)) \/ EndRecord(s)
  <2>1. ASSUME NEW m \in MatchIds, NEW next, InsertRow(s, m, next) PROVE Opens(m)
    <3>1. [host |-> job[s].account, seats |-> job[s].seats, status |-> "open"].status = "open"
      OBVIOUS
    <3>. QED  BY <2>1, <3>1 DEF InsertRow, Opens
  <2>4. ASSUME InsertCutShort(s) PROVE \E m \in MatchIds : Opens(m)
    <3>1. PICK m \in MatchIds \ DOMAIN rows, seats \in {{}, {job[s].account}} :
             rows' = Put(rows, m, [host |-> job[s].account, seats |-> seats, status |-> "open"])
      BY <2>4 DEF InsertCutShort
    <3>2. [host |-> job[s].account, seats |-> seats, status |-> "open"].status = "open"
      OBVIOUS
    <3>3. UNCHANGED ledger
      BY <2>4 DEF InsertCutShort
    <3>. QED  BY <3>1, <3>2, <3>3 DEF Opens
  <2>2. CASE HubOnly(s) \/ CloseLobby(s) \/ ConnectionEnds(s) \/ Bind(s)
    BY <2>2 DEF HubOnly, CloseLobby, ConnectionEnds, Bind, dbVars
  <2>3. CASE RequestRefused(s) \/ StartRequest(s) \/ StartCommit(s) \/ EndRequest(s) \/ EndSettle(s)
    BY <2>3 DEF RequestRefused, StartRequest, StartCommit, EndRequest, EndSettle
  <2>. QED  BY <1>1, <2>1, <2>2, <2>3, <2>4 DEF ReaderStep, StartInsert, EndInsert
<1>2. CASE OwnerKicks \/ SweepLobbies \/ Clock
  BY <1>2 DEF OwnerKicks, SweepLobbies, Clock, dbVars
<1>3. ASSUME NEW b \in abandoning, DbAbandon(b) \/ DbAbandonFails(b)
      PROVE  \E S \in SUBSET MatchIds : Abandoned(S) /\ UNCHANGED ledger
  <2>1. b.ids \in SUBSET MatchIds /\ SUBSET b.ids \subseteq SUBSET MatchIds
    BY DEF LSInv, Records, DbTypes, Batch
  <2>. QED  BY <1>3, <2>1 DEF DbAbandon, DbAbandonFails
<1>4. CASE \E S \in SUBSET MatchIds : AbandonOld(S)
  BY <1>4 DEF AbandonOld
<1>5. CASE ServerRestart
  <2>1. DOMAIN rows \in SUBSET MatchIds
    BY DEF LSInv, Records, DbTypes
  <2>. QED  BY <1>5, <2>1 DEF ServerRestart
<1>6. CASE UNCHANGED vars
  BY <1>6 DEF vars, dbVars
<1>. QED  BY <1>1, <1>2, <1>3, <1>4, <1>5, <1>6 DEF LSNext, LSStep

LEMMA OpensFacts ==
    ASSUME NEW m, Opens(m)
    PROVE  /\ m \notin DOMAIN rows /\ DOMAIN rows' = DOMAIN rows \cup {m} /\ rows'[m].status = "open"
           /\ \A k \in DOMAIN rows : rows'[k] = rows[k]
           /\ ledger' = ledger
BY DEF Opens, Put

LEMMA EndRecordFacts ==
    ASSUME DbTypes, NEW s \in Sids, EndRecord(s)
    PROVE  \/ UNCHANGED <<rows, ledger>>
           \/ \E m \in DOMAIN rows :
                 /\ rows[m].status = "open" /\ DOMAIN rows' = DOMAIN rows
                 /\ rows'[m].status = "ended"
                 /\ \A k \in DOMAIN rows \ {m} : rows'[k] = rows[k]
                 /\ ledger' = [a \in Accounts |->
                                  IF a \in rows[m].seats THEN [ledger[a] EXCEPT ![m] = @ + 1] ELSE ledger[a]]
<1>. DEFINE m == job[s].match
<1>1. m \in DOMAIN rows /\ rows[m] \in Row /\ rows \in [DOMAIN rows -> Row]
  BY DEF EndRecord, MayReport, DbTypes
<1>2. ASSUME rows[m].status = "open"
      PROVE  /\ rows' = [rows EXCEPT ![m].status = "ended"]
             /\ ledger' = [a \in Accounts |->
                              IF a \in rows[m].seats THEN [ledger[a] EXCEPT ![m] = @ + 1] ELSE ledger[a]]
  BY <1>2 DEF EndRecord
<1>3. rows[m].status # "open" => UNCHANGED <<rows, ledger>>
  BY DEF EndRecord
<1>. HIDE DEF m
<1>4. ASSUME rows[m].status = "open"
      PROVE  /\ DOMAIN rows' = DOMAIN rows /\ rows'[m].status = "ended"
             /\ \A k \in DOMAIN rows \ {m} : rows'[k] = rows[k]
  BY <1>1, <1>2, <1>4 DEF Row
<1>. QED  BY <1>1, <1>2, <1>3, <1>4

\* A row that has ended or was abandoned is never written again.
THEOREM RowsAreFinal == LSSpec => RowsFinal
<1>. DEFINE Final == \A m \in DOMAIN rows : m \in DOMAIN rows' /\ (rows[m].status # "open" => rows'[m] = rows[m])
<1>1. ASSUME LSInv, [LSNext]_vars PROVE Final
  <2>. DbTypes  BY <1>1 DEF LSInv, Records
  <2>1. CASE UNCHANGED <<rows, ledger>>  BY <2>1
  <2>2. CASE \E m \in MatchIds : Opens(m)  BY <2>2, OpensFacts
  <2>3. CASE \E s \in Sids : EndRecord(s)  BY <2>3, EndRecordFacts
  <2>4. CASE \E S \in SUBSET MatchIds : Abandoned(S)  BY <2>4, AbandonedFacts
  <2>. QED  BY <1>1, <2>1, <2>2, <2>3, <2>4, TableSteps
<1>. QED  BY <1>1, LSInvariance, PTL DEF LSSpec, RowsFinal

-----------------------------------------------------------------------------
(* Which matches of removed lobbies are handed back. *)

LEMMA HandOverTellsAll ==
    ASSUME NEW by, HandOver(by), NEW l \in DOMAIN lobbies \ DOMAIN lobbies', lobbies[l].match # None
    PROVE  \E b \in abandoning' : lobbies[l].match \in b.ids
<1>. DEFINE ids == {lobbies[k].match : k \in DOMAIN lobbies \ DOMAIN lobbies'} \ {None}
<1>1. lobbies[l].match \in ids
  OBVIOUS
<1>2. abandoning' = abandoning \cup (IF ids = {} THEN {} ELSE {[by |-> by, ids |-> ids]})
  BY DEF HandOver
<1>. HIDE DEF ids
<1>3. [by |-> by, ids |-> ids] \in abandoning'
  BY <1>1, <1>2
<1>4. lobbies[l].match \in [by |-> by, ids |-> ids].ids
  BY <1>1
<1>. QED  BY <1>3, <1>4

LostOnTheWay == \E s \in Sids \ Live : task[s].op = "auth" /\ task'[s] = NoTask

LEMMA HandedBackStep ==
    ASSUME LSInv, [LSNext]_vars
    PROVE  Forgotten = {} \/ LostOnTheWay
<1>. Inv  BY DEF LSInv
<1>1. ASSUME NoLobbyLost PROVE Forgotten = {}
  BY <1>1 DEF NoLobbyLost, Forgotten
<1>2. ASSUME NEW by, HandOver(by) PROVE Forgotten = {}
  BY <1>2, HandOverTellsAll DEF Forgotten
<1>3. ASSUME NEW s \in Sids, ReaderStep(s) PROVE Forgotten = {} \/ LostOnTheWay
  <2>1. CASE HubOnly(s)
    BY <1>1, <2>1, HubOnlySteady
  <2>2. CASE CloseLobby(s) \/ ConnectionEnds(s)
    BY <1>2, <2>2 DEF CloseLobby, ConnectionEnds
  <2>3. CASE Bind(s)
    <3>1. CASE s \in Live
      BY <1>2, <2>3, <3>1 DEF Bind
    <3>2. CASE s \notin Live
      <4>1. task[s].op = "auth" /\ task'[s] = NoTask
        BY <2>3 DEF Bind, BindAccount, Inv, Types, TypeOK
      <4>. QED  BY <3>2, <4>1 DEF LostOnTheWay
    <3>. QED  BY <3>1, <3>2
  <2>4. CASE StartRequest(s) \/ EndRequest(s)
    BY <1>1, <2>4, MatchRequestSteady DEF StartRequest, EndRequest
  <2>5. CASE EndSettle(s)
    BY <1>1, <2>5, MatchEndedSteady DEF EndSettle
  <2>6. CASE StartInsert(s) \/ EndInsert(s) \/ EndRecord(s)
    BY <1>1, <2>6, StutterSteady DEF StartInsert, EndInsert, EndRecord, InsertRow
  <2>7. CASE RequestRefused(s) \/ InsertCutShort(s) \/ StartCommit(s)
    <3>1. DOMAIN lobbies' = DOMAIN lobbies
      BY <2>7 DEF RequestRefused, InsertCutShort, RequestFails, StartCommit, MatchStarted
    <3>. QED  BY <1>1, <3>1 DEF NoLobbyLost
  <2>. QED  BY <1>3, <2>1, <2>2, <2>3, <2>4, <2>5, <2>6, <2>7 DEF ReaderStep
<1>4. CASE OwnerKicks \/ SweepLobbies
  BY <1>2, <1>4 DEF OwnerKicks, SweepLobbies
<1>5. CASE Clock
  BY <1>1, <1>5, ClockSteady DEF Clock
<1>6. CASE \/ \E b \in abandoning : DbAbandon(b) \/ DbAbandonFails(b)
           \/ \E S \in SUBSET MatchIds : AbandonOld(S)
           \/ UNCHANGED vars
  BY <1>1, <1>6, StutterSteady DEF DbAbandon, DbAbandonFails, AbandonOld, vars
<1>7. CASE ServerRestart
  <2>1. \A m \in DOMAIN rows : rows'[m].status # "open"
    BY <1>7, AbandonedFacts DEF ServerRestart, LSInv, Records
  <2>2. \A l \in DOMAIN lobbies : lobbies[l].match # None => lobbies[l].match \in DOMAIN rows
    BY DEF LSInv, Links, RunningMatchIsHosts
  <2>. QED  BY <2>1, <2>2 DEF Forgotten
<1>. QED  BY <1>3, <1>4, <1>5, <1>6, <1>7 DEF LSNext, LSStep

\* A removed lobby's running match always reaches the database call that ends it,
\* but for a login whose own session is gone when it is bound.
THEOREM HandedBackUnlessGone == LSSpec => MatchHandedBackUnlessGone
<1>1. LSInv /\ [LSNext]_vars => Forgotten = {} \/ LostOnTheWay  BY HandedBackStep
<1>. QED  BY <1>1, LSInvariance, PTL DEF LSSpec, MatchHandedBackUnlessGone, LostOnTheWay

-----------------------------------------------------------------------------
(* The server implements MatchBook. *)

BookStatus == [m \in MatchIds |-> IF m \in DOMAIN rows THEN rows[m].status ELSE "none"]

LEMMA BookInit == LSInit => Book!Init
BY DEF LSInit, Book!Init, Empty

LEMMA EndsInBook ==
    ASSUME NEW m \in MatchIds, NEW seats \in SUBSET Accounts, Book!End(m, seats)
    PROVE  [Book!Next]_<<BookStatus, ledger>>
BY DEF Book!Next

LEMMA BookStep == ASSUME LSInv, [LSNext]_vars PROVE [Book!Next]_<<BookStatus, ledger>>
<1>. DbTypes  BY DEF LSInv, Records
<1>. DOMAIN rows \subseteq MatchIds  BY DEF DbTypes
<1>1. CASE UNCHANGED <<rows, ledger>>
  BY <1>1 DEF BookStatus
<1>2. ASSUME NEW m \in MatchIds, Opens(m) PROVE Book!Open(m)
  BY <1>2, OpensFacts DEF Book!Open
<1>3. ASSUME NEW s \in Sids, EndRecord(s) PROVE [Book!Next]_<<BookStatus, ledger>>
  <2>1. CASE \E m \in DOMAIN rows :
               /\ rows[m].status = "open" /\ DOMAIN rows' = DOMAIN rows
               /\ rows'[m].status = "ended"
               /\ \A k \in DOMAIN rows \ {m} : rows'[k] = rows[k]
               /\ ledger' = [a \in Accounts |->
                                IF a \in rows[m].seats THEN [ledger[a] EXCEPT ![m] = @ + 1] ELSE ledger[a]]
    <3>1. PICK m \in DOMAIN rows :
               /\ rows[m].status = "open" /\ DOMAIN rows' = DOMAIN rows
               /\ rows'[m].status = "ended"
               /\ \A k \in DOMAIN rows \ {m} : rows'[k] = rows[k]
               /\ ledger' = [a \in Accounts |->
                                IF a \in rows[m].seats THEN [ledger[a] EXCEPT ![m] = @ + 1] ELSE ledger[a]]
      BY <2>1
    <3>2. PICK seats \in SUBSET Accounts : seats = rows[m].seats /\ m \in MatchIds
      BY DEF DbTypes, Row
    <3>3. Book!End(m, seats)
      BY <3>1, <3>2 DEF Book!End
    <3>. QED  BY <3>2, <3>3, EndsInBook
  <2>. QED  BY <1>1, <1>3, <2>1, EndRecordFacts
<1>4. ASSUME NEW S \in SUBSET MatchIds, Abandoned(S), UNCHANGED ledger PROVE Book!Abandon(S)
  BY <1>4, AbandonedFacts DEF Book!Abandon
<1>. QED  BY <1>1, <1>2, <1>3, <1>4, TableSteps DEF Book!Next

\* Whoever reports, retries, disconnects or restarts, the server keeps its book:
\* a match opens once and ends once, credited or abandoned.
THEOREM KeepsTheBook == LSSpec => ImplementsBook
<1>1. LSInv /\ [LSNext]_vars => [Book!Next]_(Book!bookVars)
  BY BookStep DEF Book!bookVars, BookStatus
<1>. QED  BY <1>1, BookInit, LSInvariance, PTL DEF LSSpec, ImplementsBook, Book!Spec

=============================================================================
