----------------------------- MODULE GameServer ----------------------------
(***************************************************************************)
(* The authoritative game server (src/server/authoritative_server.gd) as   *)
(* every "--server" process runs it: a lobby that waits with no match, is  *)
(* given one by a HELLO, seats the players of it, and goes back to waiting *)
(* when the last of them leaves.                                           *)
(*                                                                         *)
(* The server is one thread.  An action is one signal handler, one packet, *)
(* one expired handshake, or one physics frame.  A packet is what a peer   *)
(* may send at any time, whatever it is told; sequence numbers, rates and  *)
(* ticks are inputs too, so a packet that fails one of these checks is one *)
(* of Overlooked or Refused.                                               *)
(***************************************************************************)
EXTENDS Naturals, FiniteSets, Functions

CONSTANTS
    Peers,          \* ENet connection ids
    Contracts,      \* match contracts a client may ask for
    CoopContracts,  \* the ones of mode "coop"
    Slots,          \* numbered saved games
    MaxClients,     \* ENet slots: MAX_CLIENTS or MAX_PUBLIC_CLIENTS
    MaxRejections,  \* MAX_UNAUTHENTICATED_REJECTIONS
    None            \* null, an empty dictionary, an empty slot

ASSUME GameAssumption ==
    /\ CoopContracts \subseteq Contracts
    /\ None \notin Peers \cup Contracts \cup Slots
    /\ MaxClients \in Nat
    /\ MaxRejections \in Nat \ {0}
    /\ IsFiniteSet(Peers)

VARIABLES
    net,       \* ENet's view of each connection
    peers,     \* _peers: connection -> its state
    owner,     \* _seat_owners: seat -> connection
    sim,       \* simulation, or None
    contract,  \* _match_contract, or None
    paused,    \* paused
    replay,    \* _replay_export_cache is not empty
    saves      \* the files of the saved-game store

gameVars == <<net, peers, owner, sim, contract, paused, replay, saves>>

-----------------------------------------------------------------------------
(* Data. *)

Option(S) == S \cup {None}

Seats == {0, 1}
SeatsOf(c) == IF c \in CoopContracts THEN {0, 1} ELSE {0}

\* closing: the server has dropped the peer, whose packets received before may
\* still be in the queue, and the disconnection is not signalled yet.
Net == {"away", "up", "closing"}

Peer == [authenticated : BOOLEAN, seats : SUBSET Seats, rejections : Nat]
NewPeer == [authenticated |-> FALSE, seats |-> {}, rejections |-> 0]

\* loaded: how far restore_shop_save got with a simulation object it refused:
\* blank has no content yet, half has its content and is not configured, partly is
\* configured and not wholly restored.  of: what it is configured for, or was to be.
\* play stands for every phase but the shop, the credits and the two terminal ones.
\* held: seats whose input mask is not 0; ready: seats that are done shopping.
Run == [loaded : {"blank", "half", "partly", "yes"}, of : Option(Contracts),
        phase : {"play", "shop", "credits", "over"},
        held : SUBSET Seats, ready : SUBSET Seats]

FreshRun(c)     == [loaded |-> "yes", of |-> c, phase |-> "play", held |-> {}, ready |-> {}]
BlankRun        == [loaded |-> "blank", of |-> None, phase |-> "play", held |-> {}, ready |-> {}]

\* old: refused by its versions or its content hash; unfit: refused by configure,
\* once the content is loaded, for its match configuration; damaged: refused after
\* configure has succeeded.  Nobody has left the shop it was made in; a refused one
\* is not read further.
SaveState == {"good", "old", "unfit", "damaged"}
Save == {s \in [contract : Contracts, state : SaveState, ready : SUBSET Seats] :
            /\ ~ SeatsOf(s.contract) \subseteq s.ready
            /\ s.state # "good" => s.ready = {}}

\* The match request of a HELLO, which may be empty, and the seats it claims; seat 2
\* is out of range.
NoRequest == [contract |-> None, slot |-> None]
Request == [contract : Contracts, slot : Option(Slots)] \cup {NoRequest}
Claims  == {{0}, {1}, {0, 1}, {2}}

\* No object is null.
ASSUME NoneAssumption == None \notin Run /\ None \notin Save

Put(f, k, v) == [x \in DOMAIN f \cup {k} |-> IF x = k THEN v ELSE f[x]]
Drop(f, S)   == Restrict(f, DOMAIN f \ S)
Empty        == [x \in {} |-> None]

-----------------------------------------------------------------------------
(* Reading the state. *)

\* A packet may be handled for p; _ensure_peer knows p from then on.
Heard(p) == net[p] # "away"
State(p) == IF p \in DOMAIN peers THEN peers[p] ELSE NewPeer

Players == {p \in DOMAIN peers : peers[p].authenticated}

Owns(p, k) == p \in Players /\ k \in peers[p].seats

\* simulation._configured: without it, it takes no step and no command but a retirement.
Configured == sim # None /\ sim.loaded \in {"partly", "yes"}

\* _required_seat_count and the waiting_for_seats of a snapshot.
RequiredSeats == IF sim = None \/ contract = None THEN {} ELSE SeatsOf(contract)
Waiting == Cardinality(DOMAIN owner) < Cardinality(RequiredSeats)

-----------------------------------------------------------------------------
(* Helpers that change the state.  m is the simulation and the contract as   *)
(* the handler has left them so far.                                         *)

Match == [sim |-> sim, contract |-> contract]
Keep(m) == sim' = m.sim /\ contract' = m.contract

\* Mutant of Reset: the replay of the last match stays.
ResetReplayKept ==
    Keep([sim |-> None, contract |-> None]) /\ owner' = Empty /\ paused' = FALSE /\ UNCHANGED replay

\* _reset_lobby_match
Reset == Keep([sim |-> None, contract |-> None]) /\ owner' = Empty /\ paused' = FALSE /\ replay' = FALSE

\* clear_transient_seat_state, for the seats S
Released(s, S) == IF s = None THEN None ELSE [s EXCEPT !.held = @ \ S, !.ready = @ \ S]

\* The seats _on_peer_disconnected takes back from p.
SeatsHeldBy(p) ==
    IF p \in DOMAIN peers THEN {k \in peers[p].seats \cap DOMAIN owner : owner[k] = p} ELSE {}

\* Mutant of Removed: the seats of a peer that is gone stay taken.
RemovedSeatsKept(p, m) ==
    LET rest == Drop(peers, {p})
    IN  /\ peers' = rest
        /\ IF m.sim # None /\ \A q \in DOMAIN rest : ~ rest[q].authenticated
           THEN Reset
           ELSE Keep(m) /\ UNCHANGED <<owner, paused, replay>>

\* Mutant of Removed: the keys a peer held down stay down.
RemovedKeysKept(p, m) ==
    LET rest == Drop(peers, {p})
    IN  /\ peers' = rest
        /\ IF m.sim # None /\ \A q \in DOMAIN rest : ~ rest[q].authenticated
           THEN Reset
           ELSE Keep(m) /\ owner' = Drop(owner, SeatsHeldBy(p)) /\ UNCHANGED <<paused, replay>>

\* Mutant of Removed: the match outlives its players.
RemovedMatchKept(p, m) ==
    /\ peers' = Drop(peers, {p})
    /\ Keep([m EXCEPT !.sim = Released(@, SeatsHeldBy(p))])
    /\ owner' = Drop(owner, SeatsHeldBy(p))
    /\ UNCHANGED <<paused, replay>>

\* _on_peer_disconnected: p's seats are free again, and with the last player the
\* match goes too.
Removed(p, m) ==
    LET rest == Drop(peers, {p})
    IN  /\ peers' = rest
        /\ IF m.sim # None /\ \A q \in DOMAIN rest : ~ rest[q].authenticated
           THEN Reset
           ELSE /\ Keep([m EXCEPT !.sim = Released(@, SeatsHeldBy(p))])
                /\ owner' = Drop(owner, SeatsHeldBy(p))
                /\ UNCHANGED <<paused, replay>>

\* _drop_peer
Dropped(p, m) == net' = [net EXCEPT ![p] = "closing"] /\ Removed(p, m)

\* _record_unauthenticated_rejection, of a peer that is not authenticated.
Rejected(p, m) ==
    IF State(p).rejections + 1 < MaxRejections
    THEN /\ peers' = Put(peers, p, [State(p) EXCEPT !.rejections = @ + 1])
         /\ Keep(m)
         /\ UNCHANGED <<net, owner, paused, replay>>
    ELSE Dropped(p, m)

-----------------------------------------------------------------------------
(* Connections. *)

Connected(p) ==
    /\ net[p] = "away"
    /\ Cardinality({q \in Peers : net[q] # "away"}) < MaxClients
    /\ net' = [net EXCEPT ![p] = "up"]
    /\ peers' = Put(peers, p, State(p))
    /\ UNCHANGED <<owner, sim, contract, paused, replay, saves>>

\* The peer_disconnected signal, for a peer the server may have dropped before.
Disconnected(p) ==
    /\ net[p] # "away"
    /\ net' = [net EXCEPT ![p] = "away"]
    /\ IF p \in DOMAIN peers
       THEN Removed(p, Match)
       ELSE UNCHANGED <<peers, owner, sim, contract, paused, replay>>
    /\ UNCHANGED saves

\* _expire_unauthenticated_peers, when the handshake deadline of p has passed.
Expired(p) ==
    /\ p \in DOMAIN peers /\ ~ peers[p].authenticated
    /\ Dropped(p, Match)
    /\ UNCHANGED saves

\* The process ends (shutdown or loss of its client's heartbeat) and another is
\* started; the saved games are files.
ServerRestart ==
    /\ net' = [p \in Peers |-> "away"]
    /\ peers' = Empty
    /\ Reset
    /\ UNCHANGED saves

-----------------------------------------------------------------------------
(* Packets that only make the peer known or count against it. *)

\* PING, CHAT, SHOP, a malformed or stale packet, a request that is refused with
\* no strike, or any refusal of a peer that has authenticated.
Overlooked(p) ==
    /\ Heard(p)
    /\ peers' = Put(peers, p, State(p))
    /\ UNCHANGED <<net, owner, sim, contract, paused, replay, saves>>

\* Before its HELLO: a packet beyond the rate, of another type, or with a wrong
\* token or content hash.
Refused(p) ==
    /\ Heard(p) /\ p \notin Players
    /\ Rejected(p, Match)
    /\ UNCHANGED saves

-----------------------------------------------------------------------------
(* HELLO, with the right token and the server's content.  A blank simulation *)
(* has an empty content hash, which no client has.                           *)

\* Mutant of MayHello: a simulation without content is not told from the server's.
MayHelloBlank(p) == Heard(p) /\ p \notin Players

MayHello(p) == Heard(p) /\ p \notin Players /\ (sim # None => sim.loaded # "blank")

\* With a match there, the request is empty or asks for that very match anew.
JoinsMatch(r) == sim # None /\ r.slot = None /\ r.contract \in {None, contract}

\* The saved game a request names, or None.
Saved(r) == IF r.slot = None THEN None ELSE saves[r.slot]

\* The first request chooses the match, or resumes a saved run of its contract.
AuthorsMatch(r) ==
    /\ sim = None /\ r # NoRequest
    /\ r.slot # None => /\ Saved(r) # None
                       /\ Saved(r).state = "good" /\ Saved(r).contract = r.contract

AuthoredRun(r) ==
    IF r.slot = None THEN FreshRun(r.contract)
    ELSE [FreshRun(r.contract) EXCEPT !.phase = "shop", !.ready = Saved(r).ready]

\* The match the seats are checked against.
MatchFor(r) ==
    IF sim = None THEN [sim |-> AuthoredRun(r), contract |-> r.contract] ELSE Match

\* Mutant of Claimable: a seat somebody has may be claimed.
ClaimableTaken(p, claim, c) == claim \subseteq SeatsOf(c)

Claimable(p, claim, c) ==
    /\ claim \subseteq SeatsOf(c)
    /\ \A k \in claim \cap DOMAIN owner : owner[k] = p

\* The seats are checked after the match is there, and it stays.
HelloSeatRefused(p, r, claim) ==
    /\ MayHello(p) /\ (JoinsMatch(r) \/ AuthorsMatch(r))
    /\ ~ Claimable(p, claim, MatchFor(r).contract)
    /\ Rejected(p, MatchFor(r))
    /\ UNCHANGED saves

\* The simulation that restore_shop_save leaves when it refuses the save s.
RefusedRun(s) ==
    IF s.state = "old" THEN BlankRun
    ELSE [FreshRun(s.contract) EXCEPT !.loaded = IF s.state = "unfit" THEN "half" ELSE "partly"]

\* _resume_saved_run fails in restore_shop_save: the new simulation stays.
HelloResumeFails(p, r) ==
    /\ MayHello(p) /\ sim = None
    /\ Saved(r) # None /\ Saved(r).state # "good"
    /\ sim' = RefusedRun(Saved(r))
    /\ peers' = Put(peers, p, State(p))
    /\ UNCHANGED <<net, owner, contract, paused, replay, saves>>

HelloWelcomed(p, r, claim) ==
    /\ MayHello(p) /\ (JoinsMatch(r) \/ AuthorsMatch(r))
    /\ Claimable(p, claim, MatchFor(r).contract)
    /\ Keep(MatchFor(r))
    /\ peers' = Put(peers, p, [State(p) EXCEPT !.authenticated = TRUE, !.seats = claim])
    /\ owner' = [k \in DOMAIN owner \cup claim |-> IF k \in claim THEN p ELSE owner[k]]
    /\ UNCHANGED <<net, paused, replay, saves>>

Hello(p) ==
    \E r \in Request :
        \/ HelloResumeFails(p, r)
        \/ \E claim \in Claims : HelloSeatRefused(p, r, claim) \/ HelloWelcomed(p, r, claim)

-----------------------------------------------------------------------------
(* Commands of a player for a seat it owns. *)

\* simulation.set_input
Input(p, k, down) ==
    /\ Heard(p) /\ Owns(p, k)
    /\ Configured /\ k \in SeatsOf(sim.of)
    /\ sim' = [sim EXCEPT !.held = IF down THEN @ \cup {k} ELSE @ \ {k}]
    /\ UNCHANGED <<net, peers, owner, contract, paused, replay, saves>>

\* _try_leave_shop, once the seats in r are ready: on to the next level, or to the
\* end of the campaign.
ShopAfter(r) ==
    IF SeatsOf(sim.of) \subseteq r
    THEN {[sim EXCEPT !.phase = ph, !.ready = {}] : ph \in {"play", "over"}}
    ELSE {[sim EXCEPT !.ready = r]}

ShopReady(p, k, ready) ==
    /\ Heard(p) /\ Owns(p, k)
    /\ Configured /\ k \in SeatsOf(sim.of) /\ sim.phase = "shop"
    /\ sim' \in ShopAfter(IF ready THEN sim.ready \cup {k} ELSE sim.ready \ {k})
    /\ UNCHANGED <<net, peers, owner, contract, paused, replay, saves>>

Pause(p, on) ==
    /\ Heard(p) /\ Owns(p, 0)
    /\ paused' = on
    /\ UNCHANGED <<net, peers, owner, sim, contract, replay, saves>>

\* A paused match may be retired, and goes on into its game over; so does a
\* simulation that is not configured.
Retire(p, k) ==
    /\ Heard(p) /\ Owns(p, k)
    /\ k \in SeatsOf(sim.of) /\ sim.phase \in {"play", "shop"}
    /\ sim' = [sim EXCEPT !.phase = "over"]
    /\ paused' = FALSE
    /\ UNCHANGED <<net, peers, owner, contract, replay, saves>>

SaveRun(p, k, s) ==
    /\ Heard(p) /\ Owns(p, k)
    /\ Configured /\ sim.phase = "shop"
    /\ saves' = [saves EXCEPT ![s] = [contract |-> sim.of, state |-> "good", ready |-> sim.ready]]
    /\ UNCHANGED <<net, peers, owner, sim, contract, paused, replay>>

ReplayRequest(p, k) ==
    /\ Heard(p) /\ Owns(p, k)
    /\ Configured /\ sim.phase = "over"
    /\ replay' = TRUE
    /\ UNCHANGED <<net, peers, owner, sim, contract, paused, saves>>

Command(p) ==
    \/ \E k \in Seats : Retire(p, k) \/ ReplayRequest(p, k)
    \/ \E k \in Seats, b \in BOOLEAN : Input(p, k, b) \/ ShopReady(p, k, b)
    \/ \E b \in BOOLEAN : Pause(p, b)
    \/ \E k \in Seats, s \in Slots : SaveRun(p, k, s)

-----------------------------------------------------------------------------
(* simulation.step, at most once in a physics frame. *)

\* The seats that are done shopping after a step: who holds keys may change its mind.
Pressed ==
    LET S == sim.held \cap SeatsOf(sim.of)
    IN  {r \in SUBSET Seats : r \ S = sim.ready \ S}

\* Where a step may take the simulation; a held key may mean ready or continue.
Stepped ==
    CASE sim.phase = "play" ->
            {sim, [sim EXCEPT !.phase = "over"]}
                \cup {[sim EXCEPT !.phase = ph, !.ready = {}] : ph \in {"shop", "credits"}}
      [] sim.phase = "shop" ->
            {[sim EXCEPT !.phase = "over"]}
                \cup UNION {ShopAfter(r) : r \in Pressed}
      [] sim.phase = "credits" ->
            {sim, [sim EXCEPT !.phase = "over"]}
                \cup (IF sim.held = {} THEN {} ELSE {[sim EXCEPT !.phase = "play"]})
      [] OTHER -> {sim}

\* Mutant of Physics: the match runs while a seat is empty.
PhysicsUnattended ==
    /\ Configured /\ ~ paused
    /\ sim' \in Stepped
    /\ UNCHANGED <<net, peers, owner, contract, paused, replay, saves>>

Physics ==
    /\ Configured /\ ~ Waiting /\ ~ paused
    /\ sim' \in Stepped
    /\ UNCHANGED <<net, peers, owner, contract, paused, replay, saves>>

-----------------------------------------------------------------------------
Init ==
    /\ net = [p \in Peers |-> "away"]
    /\ peers = Empty
    /\ owner = Empty
    /\ sim = None
    /\ contract = None
    /\ paused = FALSE
    /\ replay = FALSE
    /\ saves \in [Slots -> Option(Save)]

PeerStep(p) ==
    Connected(p) \/ Disconnected(p) \/ Expired(p) \/ Overlooked(p) \/ Refused(p) \/ Hello(p) \/ Command(p)

Next ==
    \/ \E p \in Peers : PeerStep(p)
    \/ Physics
    \/ ServerRestart

Spec == Init /\ [][Next]_gameVars

\* poll_network checks the handshake deadlines in every frame.
FairSpec == Spec /\ \A p \in Peers : WF_gameVars(Expired(p))

-----------------------------------------------------------------------------
(* What should hold. *)

TypeOK ==
    /\ net \in [Peers -> Net]
    /\ DOMAIN peers \subseteq Peers /\ peers \in [DOMAIN peers -> Peer]
    /\ DOMAIN owner \subseteq Seats /\ owner \in [DOMAIN owner -> Peers]
    /\ sim \in Option(Run)
    /\ contract \in Option(Contracts)
    /\ paused \in BOOLEAN
    /\ replay \in BOOLEAN
    /\ saves \in [Slots -> Option(Save)]

\* The seats of the players and the owners of the seats are the same relation:
\* nobody plays a seat that was given to somebody else, and no seat stays taken
\* after its player is gone, dropped, or replaced.
SeatTablesAgree ==
    /\ \A k \in DOMAIN owner : Owns(owner[k], k)
    /\ \A p \in Players : \A k \in peers[p].seats : k \in DOMAIN owner /\ owner[k] = p

\* Whoever is authenticated has a simulation with the server's content and a seat
\* in it: the handlers of INPUT, SHOP, READY, RETIRE and SAVE use it without looking.
\* Where a match was agreed on, it is that match, configured and wholly restored, and
\* the seats are seats of it.  Where none was, the simulation is what a failed resume
\* left behind: it has seat 0 only, and may be one that plays nothing.
PlayersHaveMatch ==
    \A p \in Players :
        /\ sim # None /\ peers[p].seats # {}
        /\ IF contract # None
           THEN sim.loaded = "yes" /\ sim.of = contract /\ peers[p].seats \subseteq SeatsOf(contract)
           ELSE sim.loaded \in {"half", "partly"} /\ peers[p].seats = {0}

\* An empty seat presses nothing: what its last player held down is released, also
\* when that player was dropped in the middle of a frame.
KeysOfOwners == sim # None => sim.held \subseteq DOMAIN owner

\* A lobby nobody is connected to has no match left over.
NoMatchLeftBehind == DOMAIN peers = {} => sim = None

\* The replay that is handed out was made of the match that is there, after its end.
ReplayOfEndedMatch == replay => sim # None /\ sim.phase = "over"

\* "There is no reconfiguration underneath a live match" (_handle_hello): as long as
\* somebody stays, the match is the same one, and one that has ended stays ended.
MatchStays ==
    \A p \in Players \cap Players' :
        /\ contract' = contract
        /\ sim' # None /\ sim'.of = sim.of /\ sim'.loaded = sim.loaded
        /\ sim.phase = "over" => sim'.phase = "over"

LiveMatchKept == [][MatchStays]_gameVars

\* A level goes on only with all its seats taken and nobody pausing it.
MoveAttended ==
    /\ sim # None /\ sim' # None
    /\ sim.phase \in {"play", "credits"} /\ sim'.phase \notin {sim.phase, "over"}
    => ~ Waiting /\ ~ paused

NothingMovesUnattended == [][MoveAttended]_gameVars

\* "A failed resume leaves the lobby idle for the next match": the lobby has a
\* simulation only with the contract of its match.
ConfiguredOrIdle == contract = None => sim = None

\* A match without players is taken up or taken down before long.
LobbyReturns == (sim # None /\ Players = {}) ~> (sim = None \/ Players # {})

\* The seat table this server keeps.
Table == INSTANCE SeatTable WITH
            match  <- IF sim = None THEN None ELSE sim.of,
            seated <- [p \in Peers |-> IF p \in Players THEN peers[p].seats ELSE {}]

ImplementsTable == Table!Spec

=============================================================================
