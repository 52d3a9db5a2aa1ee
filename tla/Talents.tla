------------------------------ MODULE Talents ------------------------------
(***************************************************************************)
(* The talent wallet of the lobby server (lobby-server/src/talents.rs, the *)
(* points action of admin.rs, the credit of matches.rs) and the copy of it *)
(* each player's client keeps (online/lobby_client.gd, talent_cache.gd).   *)
(*                                                                         *)
(* Every handler works in sections: it changes the tables and reads the    *)
(* state it will report under the database mutex, unlocks it, and queues   *)
(* the message under the hub's.  A message therefore carries the wallet of *)
(* an earlier moment, and messages of different tasks for one player are   *)
(* queued in the order the tasks reach the hub.  One connection delivers   *)
(* in order, so queueing a state stands for its arrival as well.           *)
(***************************************************************************)
EXTENDS Integers, Sequences, FiniteSets, Functions

CONSTANTS
    Accounts,   \* registered accounts
    Nodes,      \* ids of talent nodes, of every version of the catalogue
    Catalogs,   \* the contents talents.json may have at a start of the server
    Deltas,     \* what one credit may add or, from the owner, take
    MaxLedger,  \* bound: ledger rows per account
    MaxPushes   \* bound: pushes between their two sections

\* TalentCatalog.from_json refuses a requirement it does not know.
ASSUME CatalogAssumption ==
    \A k \in Catalogs :
        /\ DOMAIN k.cost \subseteq Nodes
        /\ \A n \in DOMAIN k.cost : k.cost[n] \in Nat /\ k.requires[n] \subseteq DOMAIN k.cost

ASSUME DeltaAssumption == Deltas \subseteq Int

VARIABLES
    catalog,   \* AppState.talents
    revised,   \* has the catalogue changed since the first start
    wallet,    \* accounts and talent_nodes: account -> Wallet
    ledger,    \* point_ledger: account -> its deltas, oldest first
    cooling,   \* accounts whose last respec is within the cooldown
    grant,     \* the owner's grant between its two statements, the mutex held
    torn,      \* accounts with a grant that a stop cut in two
    conn,      \* the connection of each account's client
    reply,     \* the states a reader has read and not yet queued: [Accounts -> SUBSET Wallet]
    pushes,    \* credits of other tasks on their way to the client
    cached     \* WBLobbyClient.profile_state, and the cache file

rows   == <<wallet, ledger>>
beside == <<catalog, revised, cooling, torn>>
tables == <<rows, beside, grant>>
links  == <<conn, reply, pushes, cached>>
talentVars == <<tables, links>>

-----------------------------------------------------------------------------
Wallet == [points : Nat, owned : SUBSET Nodes, earned : Nat]
Tally(points, owned, earned) == [points |-> points, owned |-> owned, earned |-> earned]
Empty  == Tally(0, {}, 0)

\* to_read: the tables changed, the state not read yet; sent to a session known
\* by then (match_end).  to_send: the state read; the session looked up last (points).
Push == [to : Accounts, step : {"to_read", "to_queue", "to_send"}, state : Wallet]

Bigger(m, n) == IF m > n THEN m ELSE n

\* spent_total: nodes the catalogue has lost count for nothing.
SpentTotal(k, owned) == SumFunctionOnSet(k.cost, owned \cap DOMAIN k.cost)

\* Mutant of CanBuy: any requirement of the catalogue will do.
CanBuyAny(w, n) == n \in DOMAIN catalog.cost \ w.owned /\ w.points >= catalog.cost[n]

\* validate_spend, then the price.
CanBuy(w, n) ==
    /\ n \in DOMAIN catalog.cost \ w.owned
    /\ catalog.requires[n] \subseteq w.owned
    /\ w.points >= catalog.cost[n]

-----------------------------------------------------------------------------
(* The writes.  All but the owner's grant are transactions; every section that *)
(* touches the tables waits for the database mutex (DbFree).                   *)

DbFree == grant = {}

Write(a, w, delta) ==
    /\ DbFree
    /\ Len(ledger[a]) < MaxLedger
    /\ wallet' = [wallet EXCEPT ![a] = w]
    /\ ledger' = [ledger EXCEPT ![a] = Append(@, delta)]

DbSpend(a, n) ==
    LET w == wallet[a] IN
    Write(a, Tally(w.points - catalog.cost[n], w.owned \cup {n}, w.earned), -catalog.cost[n])

DbRespec(a) ==
    LET w == wallet[a]
        refund == SpentTotal(catalog, w.owned)
    IN  Write(a, Tally(w.points + refund, {}, w.earned), refund)

Credited(w, delta) == Tally(Bigger(0, w.points + delta), w.owned, w.earned + Bigger(0, delta))

\* The wallet is clamped at zero, the ledger keeps the delta as it was asked for.
DbCredit(a, delta) == Write(a, Credited(wallet[a], delta), delta)

-----------------------------------------------------------------------------
(* Requests of the account's own reader, one at a time. *)

Connected(a) == conn[a] \in {"on", "ended"}

Ready(a) == conn[a] = "on" /\ reply[a] = {}

\* state_json, read in the section of the write it follows.
Answer(a) == reply' = [reply EXCEPT ![a] = {wallet'[a]}]

Spend(a, n) ==
    /\ Ready(a)
    /\ CanBuy(wallet[a], n)
    /\ DbSpend(a, n)
    /\ Answer(a)
    /\ UNCHANGED <<beside, grant, conn, pushes, cached>>

Respec(a) ==
    /\ Ready(a)
    /\ wallet[a].owned # {}
    /\ a \notin cooling
    /\ DbRespec(a)
    /\ cooling' = cooling \cup {a}
    /\ Answer(a)
    /\ UNCHANGED <<catalog, revised, torn, grant, conn, pushes, cached>>

\* talent_state; a respec with nothing to take back answers the same.
FetchState(a) ==
    /\ Ready(a) /\ DbFree
    /\ UNCHANGED tables
    /\ Answer(a)
    /\ UNCHANGED <<conn, pushes, cached>>

\* match_end of a match the account reports itself: the credit, and in another
\* section the state of the response.
OwnMatchEnd(a, delta) ==
    /\ Ready(a)
    /\ delta > 0
    /\ DbCredit(a, delta)
    /\ conn' = [conn EXCEPT ![a] = "ended"]
    /\ UNCHANGED <<beside, grant, reply, pushes, cached>>

ReadReporter(a) ==
    /\ conn[a] = "ended" /\ DbFree
    /\ conn' = [conn EXCEPT ![a] = "on"]
    /\ UNCHANGED tables
    /\ Answer(a)
    /\ UNCHANGED <<pushes, cached>>

\* _store_profile_state: the client keeps whatever arrives last.
Store(a, w) == cached' = [cached EXCEPT ![a] = w]

\* dispatch: the response is queued in a later hub section.
QueueReply(a) ==
    /\ conn[a] = "on"
    /\ \E w \in reply[a] : Store(a, w)
    /\ reply' = [reply EXCEPT ![a] = {}]
    /\ UNCHANGED <<tables, conn, pushes>>

CooldownEnds(a) ==
    /\ a \in cooling
    /\ cooling' = cooling \ {a}
    /\ UNCHANGED <<rows, catalog, revised, torn, grant, links>>

-----------------------------------------------------------------------------
(* Credits by other tasks: the owner's, and the host's match_end for its joiner. *)

AddPush(p) == Cardinality(pushes) < MaxPushes /\ pushes' = pushes \cup {p}

\* points: db_credit's two statements, here outside a transaction, and the state.
OwnerUpdates(a, delta) ==
    /\ DbFree
    /\ Len(ledger[a]) < MaxLedger /\ a \notin torn   \* bound: one torn grant
    /\ wallet' = [wallet EXCEPT ![a] = Credited(@, delta)]
    /\ grant' = {[to |-> a, delta |-> delta]}
    /\ UNCHANGED <<ledger, beside, links>>

\* Mutant of OwnerRecords: the ledger keeps what was earned, as points_earned_total does.
OwnerRecordsEarned(g) ==
    /\ ledger' = [ledger EXCEPT ![g.to] = Append(@, Bigger(0, g.delta))]
    /\ grant' = {}
    /\ AddPush([to |-> g.to, step |-> "to_send", state |-> wallet[g.to]])
    /\ UNCHANGED <<wallet, beside, conn, reply, cached>>

OwnerRecords(g) ==
    /\ ledger' = [ledger EXCEPT ![g.to] = Append(@, g.delta)]
    /\ grant' = {}
    /\ AddPush([to |-> g.to, step |-> "to_send", state |-> wallet[g.to]])
    /\ UNCHANGED <<wallet, beside, conn, reply, cached>>

HostMatchEnd(a, delta) ==
    /\ delta > 0
    /\ DbCredit(a, delta)
    /\ AddPush([to |-> a, step |-> "to_read", state |-> Empty])
    /\ UNCHANGED <<beside, grant, conn, reply, cached>>

\* The player is looked up first, and its state read after that.
ReadForPush(p) ==
    /\ p.step = "to_read" /\ DbFree
    /\ pushes' = (pushes \ {p}) \cup
           (IF Connected(p.to) THEN {[p EXCEPT !.step = "to_queue", !.state = wallet[p.to]]}
                               ELSE {})
    /\ UNCHANGED <<tables, conn, reply, cached>>

SendPush(p) ==
    /\ p.step \in {"to_queue", "to_send"}
    /\ pushes' = pushes \ {p}
    /\ IF Connected(p.to) THEN Store(p.to, p.state) ELSE UNCHANGED cached
    /\ UNCHANGED <<tables, conn, reply>>

-----------------------------------------------------------------------------
(* The client, its connection, and the server's starts. *)

\* bind_account reads the state for the auth reply before it binds the session.
AuthReads(a) ==
    /\ conn[a] = "off"
    /\ DbFree
    /\ conn' = [conn EXCEPT ![a] = "binding"]
    /\ UNCHANGED tables
    /\ Answer(a)
    /\ UNCHANGED <<pushes, cached>>

Bind(a) ==
    /\ conn[a] = "binding"
    /\ conn' = [conn EXCEPT ![a] = "on"]
    /\ UNCHANGED <<tables, reply, pushes, cached>>

\* What was on its way over the connection is lost; what was written stays.
Disconnect(a) ==
    /\ conn[a] # "off"
    /\ conn' = [conn EXCEPT ![a] = "off"]
    /\ reply' = [reply EXCEPT ![a] = {}]
    /\ pushes' = {p \in pushes : ~(p.to = a /\ p.step = "to_queue")}
    /\ UNCHANGED <<tables, cached>>

\* A start reads the catalogue afresh; deploy.sh installs it beside the binary.
Restart(k) ==
    /\ catalog' = k
    /\ revised' = (revised \/ k # catalog)
    /\ conn' = [a \in Accounts |-> "off"]
    /\ reply' = [a \in Accounts |-> {}]
    /\ pushes' = {}
    /\ torn' = torn \cup {g.to : g \in grant}
    /\ grant' = {}
    /\ UNCHANGED <<rows, cooling, cached>>

-----------------------------------------------------------------------------
TalentsInit ==
    /\ catalog \in Catalogs
    /\ revised = FALSE
    /\ wallet = [a \in Accounts |-> Empty]
    /\ ledger = [a \in Accounts |-> <<>>]
    /\ cooling = {}
    /\ grant = {} /\ torn = {}
    /\ conn = [a \in Accounts |-> "off"]
    /\ reply = [a \in Accounts |-> {}]
    /\ pushes = {}
    /\ cached = [a \in Accounts |-> Empty]

AccountReader(a) ==
    \/ \E n \in Nodes : Spend(a, n)
    \/ \E delta \in Deltas : OwnMatchEnd(a, delta)
    \/ Respec(a) \/ FetchState(a) \/ ReadReporter(a) \/ QueueReply(a) \/ AuthReads(a) \/ Bind(a)

OtherTask ==
    \/ \E a \in Accounts, delta \in Deltas : OwnerUpdates(a, delta) \/ HostMatchEnd(a, delta)
    \/ \E g \in grant : OwnerRecords(g)
    \/ \E p \in pushes : ReadForPush(p) \/ SendPush(p)

Client(a) == Disconnect(a) \/ CooldownEnds(a)

TalentsNext ==
    \/ \E a \in Accounts : AccountReader(a) \/ Client(a)
    \/ OtherTask
    \/ \E k \in Catalogs : Restart(k)

TalentsSpec == TalentsInit /\ [][TalentsNext]_talentVars

-----------------------------------------------------------------------------
(* Properties. *)

\* Types, and the CHECK of the accounts table: no wallet is below zero.
TalentsTypeOK ==
    /\ catalog \in Catalogs /\ revised \in BOOLEAN
    /\ wallet \in [Accounts -> Wallet]
    /\ ledger \in [Accounts -> Seq(Int)]
    /\ cooling \subseteq Accounts /\ torn \subseteq Accounts
    /\ grant \subseteq [to : Accounts, delta : Int]
    /\ conn \in [Accounts -> {"off", "binding", "on", "ended"}]
    /\ reply \in [Accounts -> SUBSET Wallet]
    /\ pushes \subseteq Push
    /\ cached \in [Accounts -> Wallet]

\* The balance a reader of the ledger arrives at: a grant that takes more than
\* there is leaves nothing (db_credit), every other row is taken in full.
Replay(deltas) ==
    LET balance[i \in 0..Len(deltas)] == IF i = 0 THEN 0 ELSE Bigger(0, balance[i - 1] + deltas[i])
    IN  balance[Len(deltas)]

\* The ledger accounts for every wallet: read in order and clamped as db_credit
\* clamps, an account's rows give its points, unless the server stopped between
\* the two statements of an owner's grant (talents.rs, point_ledger).
LedgerExplainsWallet ==
    \A a \in Accounts \ (torn \cup {g.to : g \in grant}) : wallet[a].points = Replay(ledger[a])

\* Until the catalogue changes, whoever owns a node owns all it requires: a
\* respec takes back the whole tree, never the trunk under a branch.
PrerequisitesOwned ==
    ~revised => \A a \in Accounts : \A n \in wallet[a].owned : catalog.requires[n] \subseteq wallet[a].owned

NothingUnderway(a) ==
    /\ conn[a] = "on" /\ reply[a] = {} /\ grant = {}
    /\ \A p \in pushes : p.to # a

\* talent_cache.gd:4-6 keeps the last state the server sent "so offline solo and
\* couch play still apply the grants the player has earned": with nothing left on
\* its way to a connected client, its copy is the wallet the server has.
CachedIsCurrent == \A a \in Accounts : NothingUnderway(a) => cached[a] = wallet[a]
=============================================================================
