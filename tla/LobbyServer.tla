---------------------------- MODULE LobbyServer ----------------------------
(***************************************************************************)
(* The lobby server's hub together with its match records: Hub composed    *)
(* with the matches, match_players and point_ledger tables of              *)
(* lobby-server/src/matches.rs.  The database is a second mutex, taken     *)
(* between the hub sections of a handler and never together with the hub's *)
(* own: between two sections of match_start, match_end, lobby_close or of  *)
(* a removal, any other task may run.                                      *)
(***************************************************************************)
EXTENDS Hub

VARIABLES
    rows,        \* matches and match_players: match -> Row
    ledger,      \* point_ledger rows with reason match_end, counted per account and match
    job,         \* what match_start or match_end of each reader carries across its sections
    abandoning   \* ids handed back by a removed lobby, before db_abandon has run

dbVars == <<rows, ledger, job, abandoning>>
vars   == <<hubVars, dbVars>>

-----------------------------------------------------------------------------
Row == [host : Accounts, seats : SUBSET Accounts, status : {"open", "ended", "abandoned"}]

Step == {"none", "insert", "commit", "insert_report", "record", "settle"}
Job  == [step : Step, account : Option(Accounts), seats : SUBSET Accounts,
         match : Option(MatchIds)]
NoJob == [step |-> "none", account |-> None, seats |-> {}, match |-> None]

Batch == [by : Option(Sids), ids : SUBSET MatchIds]

\* The reader of s is not still busy marking matches abandoned.
Free(s) == \A b \in abandoning : b.by # s

\* Mutant of HandOver: the caller ignores the ids it is given.
HandOverIgnored(by) == UNCHANGED abandoning

\* Every id the removed lobbies gave back goes to one db_abandon call of by.
HandOver(by) ==
    LET ids == {lobbies[l].match : l \in DOMAIN lobbies \ DOMAIN lobbies'} \ {None}
    IN  abandoning' = abandoning \cup (IF ids = {} THEN {} ELSE {[by |-> by, ids |-> ids]})

Account(s) == sessions[s].account

-----------------------------------------------------------------------------
(* Hub sections that touch no match. *)

HubOnly(s) ==
    /\ Free(s)
    /\ \/ Connect(s) \/ Hello(s) \/ Authenticate(s) \/ RendezvousStep(s) \/ Leave(s)
       \/ \E l \in LobbyIds : Create(s, l) \/ Update(s, l) \/ JoinRequest(s, l)
       \/ \E p \in pending : JoinAccept(s, p) \/ JoinReject(s, p)
    /\ UNCHANGED dbVars

Clock ==
    /\ (\E n \in Nonces : RendezvousAges(n)) \/ (\E p \in pending : JoinDeadline(p))
    /\ UNCHANGED dbVars

-----------------------------------------------------------------------------
(* Hub sections that may close a lobby, and then owe its match an end. *)

CloseLobby(s) ==
    /\ Free(s)
    /\ \E l \in LobbyIds : Close(s, l)
    /\ HandOver(s)
    /\ UNCHANGED <<rows, ledger, job>>

ConnectionEnds(s) ==
    /\ Free(s)
    /\ Disconnect(s)
    /\ HandOver(s)
    /\ UNCHANGED <<rows, ledger, job>>

OwnerKicks ==
    /\ (\E s \in Sids : Kick(s)) \/ (\E a \in Accounts : KickAccount(a))
    /\ HandOver(None)
    /\ UNCHANGED <<rows, ledger, job>>

SweepLobbies ==
    /\ Sweep
    /\ HandOver(None)
    /\ UNCHANGED <<rows, ledger, job>>

\* bind_account returns early, without the ids, when its own session is gone.
Bind(s) ==
    /\ BindAccount(s)
    /\ IF s \in Live THEN HandOver(s) ELSE UNCHANGED abandoning
    /\ UNCHANGED <<rows, ledger, job>>

\* One db_abandon call: only rows still open change.
Abandoned(S) ==
    rows' = [m \in DOMAIN rows |->
                IF m \in S /\ rows[m].status = "open"
                THEN [rows[m] EXCEPT !.status = "abandoned"] ELSE rows[m]]

\* Mutant of DbAbandon: the call is made without the ids.
DbAbandonNothing(b) ==
    /\ b \in abandoning
    /\ abandoning' = abandoning \ {b}
    /\ UNCHANGED <<hubVars, rows, ledger, job>>

DbAbandon(b) ==
    /\ b \in abandoning
    /\ abandoning' = abandoning \ {b}
    /\ Abandoned(b.ids)
    /\ UNCHANGED <<hubVars, ledger, job>>

\* db_abandon fails before the last of its ids: the caller ignores that or returns
\* the error, and nobody has the ids any more.
DbAbandonFails(b) ==
    /\ b \in abandoning
    /\ abandoning' = abandoning \ {b}
    /\ \E done \in SUBSET b.ids : done # b.ids /\ Abandoned(done)
    /\ UNCHANGED <<hubVars, ledger, job>>

\* The hourly maintenance: rows that were open for too long.
AbandonOld(S) ==
    /\ S # {} /\ S \subseteq {m \in DOMAIN rows : rows[m].status = "open"}
    /\ Abandoned(S)
    /\ UNCHANGED <<hubVars, ledger, job, abandoning>>

\* A new process abandons every match the old one left open.
ServerRestart ==
    /\ Restart
    /\ Abandoned(DOMAIN rows)
    /\ job' = [s \in Sids |-> NoJob]
    /\ abandoning' = {}
    /\ UNCHANGED ledger

-----------------------------------------------------------------------------
(* match_start: hub, database, hub. *)

StartRequest(s) ==
    /\ Free(s)
    /\ MatchStart(s)
    /\ LET l      == task'[s].lobby
           second == IF l = None THEN {} ELSE {Account(lobbies[l].joiner)}
       IN  job' = [job EXCEPT ![s] = [NoJob EXCEPT !.step = "insert", !.account = Account(s),
                                                   !.seats = {Account(s)} \cup second]]
    /\ UNCHANGED <<rows, ledger, abandoning>>

\* db_insert_match and db_insert_player, which nothing comes between: the database
\* is locked; next is the section that follows.
InsertRow(s, m, next) ==
    /\ m \notin DOMAIN rows
    /\ rows' = Put(rows, m, [host |-> job[s].account, seats |-> job[s].seats, status |-> "open"])
    /\ job' = [job EXCEPT ![s].step = next, ![s].match = m]
    /\ UNCHANGED <<hubVars, ledger, abandoning>>

\* One of these statements fails, and no transaction takes the others back: the row
\* stays, open, with no player or with the first one (a couch guest has no account),
\* and the handler returns its error.
InsertCutShort(s) ==
    /\ job[s].step \in {"insert", "insert_report"}
    /\ RequestFails(s)
    /\ \E m \in MatchIds \ DOMAIN rows, seats \in {{}, {job[s].account}} :
          rows' = Put(rows, m, [host |-> job[s].account, seats |-> seats, status |-> "open"])
    /\ job' = [job EXCEPT ![s] = NoJob]
    /\ UNCHANGED <<ledger, abandoning>>

StartInsert(s) ==
    /\ job[s].step = "insert"
    /\ \E m \in MatchIds : InsertRow(s, m, "commit")

StartCommit(s) ==
    /\ job[s].step = "commit"
    /\ MatchStarted(s, job[s].match)
    /\ job' = [job EXCEPT ![s] = NoJob]
    /\ UNCHANGED <<rows, ledger, abandoning>>

-----------------------------------------------------------------------------
(* match_end: hub, database (one or two sections), hub. *)

\* A report names a match, or is one-shot: a finished solo or couch run.
EndRequest(s) ==
    /\ Free(s)
    /\ MatchEnd(s)
    /\ \E m \in Option(MatchIds) :
          job' = [job EXCEPT ![s] =
                     [step |-> IF m = None THEN "insert_report" ELSE "record",
                      account |-> Account(s), seats |-> {Account(s)}, match |-> m]]
    /\ UNCHANGED <<rows, ledger, abandoning>>

EndInsert(s) ==
    /\ job[s].step = "insert_report"
    /\ \E m \in MatchIds : InsertRow(s, m, "record")

\* db_end_match refuses a report from anyone but the row's host.
MayReport(s) ==
    /\ job[s].match \in DOMAIN rows
    /\ rows[job[s].match].host = job[s].account

\* Mutant of EndRecord: a repeated report is credited again.
EndRecordRepeats(s) ==
    LET m == job[s].match
    IN  /\ job[s].step = "record" /\ MayReport(s)
        /\ rows' = [rows EXCEPT ![m].status = "ended"]
        /\ ledger' = [a \in Accounts |->
                         IF a \in rows[m].seats THEN [ledger[a] EXCEPT ![m] = @ + 1]
                         ELSE ledger[a]]
        /\ job' = [job EXCEPT ![s].step = "settle"]
        /\ UNCHANGED <<hubVars, abandoning>>

\* Mutant of EndRecord: a report ends its row before the credits, which are lost
\* when the row was abandoned meanwhile.
EndRecordAbandonedToo(s) ==
    LET m == job[s].match
    IN  /\ job[s].step = "record" /\ MayReport(s)
        /\ rows' = [rows EXCEPT ![m].status = "ended"]
        /\ ledger' = [a \in Accounts |->
                         IF rows[m].status = "open" /\ a \in rows[m].seats
                         THEN [ledger[a] EXCEPT ![m] = @ + 1] ELSE ledger[a]]
        /\ job' = [job EXCEPT ![s].step = "settle"]
        /\ UNCHANGED <<hubVars, abandoning>>

\* db_end_match: the row ends and every seated account is credited, in one
\* transaction; a row that has ended is left alone.
EndRecord(s) ==
    LET m == job[s].match
    IN  /\ job[s].step = "record"
        /\ MayReport(s)
        /\ IF rows[m].status = "open"
           THEN /\ rows' = [rows EXCEPT ![m].status = "ended"]
                /\ ledger' = [a \in Accounts |->
                                 IF a \in rows[m].seats THEN [ledger[a] EXCEPT ![m] = @ + 1]
                                 ELSE ledger[a]]
           ELSE UNCHANGED <<rows, ledger>>
        /\ job' = [job EXCEPT ![s].step = "settle"]
        /\ UNCHANGED <<hubVars, abandoning>>

EndSettle(s) ==
    /\ job[s].step = "settle"
    /\ MatchEnded(s)
    /\ job' = [job EXCEPT ![s] = NoJob]
    /\ UNCHANGED <<rows, ledger, abandoning>>

\* A database section refuses or fails and the handler returns its error: also after
\* the report was recorded, when a wallet is read for the answer, and the lobby then
\* stays in its match.
RequestRefused(s) ==
    /\ RequestFails(s)
    /\ job[s].step # "commit"
    /\ job' = [job EXCEPT ![s] = NoJob]
    /\ UNCHANGED <<rows, ledger, abandoning>>

-----------------------------------------------------------------------------
LSInit ==
    /\ Init
    /\ rows = Empty
    /\ ledger = [a \in Accounts |-> [m \in MatchIds |-> 0]]
    /\ job = [s \in Sids |-> NoJob]
    /\ abandoning = {}

ReaderStep(s) ==
    \/ HubOnly(s) \/ CloseLobby(s) \/ ConnectionEnds(s) \/ Bind(s) \/ RequestRefused(s)
    \/ StartRequest(s) \/ StartInsert(s) \/ StartCommit(s) \/ InsertCutShort(s)
    \/ EndRequest(s) \/ EndInsert(s) \/ EndRecord(s) \/ EndSettle(s)

\* A step in which no abandonment fails.
LSStep ==
    \/ \E s \in Sids : ReaderStep(s)
    \/ \E b \in abandoning : DbAbandon(b)
    \/ \E S \in SUBSET MatchIds : AbandonOld(S)
    \/ OwnerKicks \/ SweepLobbies \/ Clock \/ ServerRestart

LSNext == LSStep \/ \E b \in abandoning : DbAbandonFails(b)

LSSpec == LSInit /\ [][LSNext]_vars

\* A task that has the ids goes on to its database call, and the call succeeds.
LSFairSpec == LSInit /\ [][LSStep]_vars /\ WF_vars(\E b \in abandoning : DbAbandon(b))

-----------------------------------------------------------------------------
LSTypeOK ==
    /\ TypeOK
    /\ DOMAIN rows \subseteq MatchIds /\ rows \in [DOMAIN rows -> Row]
    /\ ledger \in [Accounts -> [MatchIds -> Nat]]
    /\ job \in [Sids -> Job]
    /\ abandoning \subseteq Batch

\* The points of a match are in the ledger exactly once for each account seated
\* when it started, and exactly when the host's report ended the row: not twice
\* when a report is repeated, raced or sent again after a reconnect, and never
\* for an abandoned match.
LedgerMatchesRows ==
    \A a \in Accounts, m \in MatchIds :
        ledger[a][m] = IF m \in DOMAIN rows /\ rows[m].status = "ended" /\ a \in rows[m].seats
                       THEN 1 ELSE 0

\* The running match of a lobby is a row of the lobby's own host, and no two
\* lobbies run the same match: the match_id a handler carries across its sections
\* always lands in the lobby it was started for.
RunningMatchIsHosts ==
    /\ \A l \in DOMAIN lobbies : lobbies[l].match # None =>
          /\ lobbies[l].match \in DOMAIN rows
          /\ rows[lobbies[l].match].host = Account(lobbies[l].host)
    /\ \A k, l \in DOMAIN lobbies : k # l =>
          lobbies[k].match = None \/ lobbies[k].match # lobbies[l].match

\* A row that has ended or was abandoned never changes again, and no row is lost.
RowsFinal ==
    [][\A m \in DOMAIN rows :
          m \in DOMAIN rows' /\ (rows[m].status # "open" => rows'[m] = rows[m])]_vars

\* The lobbies that a step removed while they ran a match whose row it left open
\* and which it gave to nobody to abandon.
Forgotten ==
    {l \in DOMAIN lobbies \ DOMAIN lobbies' :
        /\ lobbies[l].match # None
        /\ rows'[lobbies[l].match].status = "open"
        /\ \A b \in abandoning' : lobbies[l].match \notin b.ids}

\* When a lobby with a running match is removed, "a running match id is handed
\* back for abandonment" (close_lobby's comment) and gets there.
MatchHandedBack == [][Forgotten = {}]_vars

\* The same but for the one path that loses the ids: the session that took the
\* account over was itself removed before it was bound.
MatchHandedBackUnlessGone ==
    [][\/ Forgotten = {}
       \/ \E s \in Sids \ Live : task[s].op = "auth" /\ task'[s] = NoTask]_vars

\* What was handed back does not stay open for ever.
HandedBackIsClosed ==
    \A m \in MatchIds :
        (m \in UNION {b.ids : b \in abandoning}) ~> (m \in DOMAIN rows => rows[m].status # "open")

\* The match book this server keeps.
Book == INSTANCE MatchBook WITH
            status <- [m \in MatchIds |-> IF m \in DOMAIN rows THEN rows[m].status ELSE "none"]

ImplementsBook == Book!Spec

=============================================================================
