-------------------------- MODULE GameServerProofs --------------------------
(* Theorems about GameServer, for every number of connections and contracts. *)
EXTENDS GameServer, TLAPS

-----------------------------------------------------------------------------
(* The inductive invariant.  The properties of the run, and how the simulation *)
(* object, its contract and its phase belong together.                         *)

Shape(s, c) ==
    /\ s = None => c = None
    /\ s # None => /\ c \in {None, s.of}
                   /\ c # None <=> s.loaded = "yes"
                   /\ s.loaded = "blank" => s = BlankRun
                   /\ s.loaded # "blank" => s.of \in Contracts
                   /\ s.phase = "shop" => ~ SeatsOf(s.of) \subseteq s.ready

Inv ==
    /\ TypeOK
    /\ SeatTablesAgree
    /\ PlayersHaveMatch
    /\ KeysOfOwners
    /\ NoMatchLeftBehind
    /\ ReplayOfEndedMatch
    /\ Shape(sim, contract)

-----------------------------------------------------------------------------
(* The operators the handlers are built from. *)

LEMMA DropFacts ==
    ASSUME NEW f, NEW S
    PROVE  /\ DOMAIN Drop(f, S) = DOMAIN f \ S
           /\ \A x \in DOMAIN f \ S : Drop(f, S)[x] = f[x]
           /\ \A T : (\A x \in DOMAIN f : f[x] \in T)
                        => Drop(f, S) \in [DOMAIN f \ S -> T]
BY DEF Drop, Restrict

LEMMA PutFacts ==
    ASSUME NEW f, NEW k, NEW v
    PROVE  /\ DOMAIN Put(f, k, v) = DOMAIN f \cup {k}
           /\ Put(f, k, v)[k] = v
           /\ \A x \in DOMAIN f : x # k => Put(f, k, v)[x] = f[x]
           /\ \A T : v \in T /\ (\A x \in DOMAIN f : f[x] \in T)
                        => Put(f, k, v) \in [DOMAIN f \cup {k} -> T]
BY DEF Put

LEMMA StateType ==
    ASSUME TypeOK, NEW p \in Peers
    PROVE  State(p) \in Peer
BY DEF TypeOK, State, NewPeer, Peer

LEMMA SeatsOfFacts ==
    /\ SeatsOf(None) = {0}
    /\ \A c : SeatsOf(c) # {} /\ SeatsOf(c) \subseteq Seats /\ SeatsOf(None) \subseteq SeatsOf(c)
BY GameAssumption DEF SeatsOf, Seats

LEMMA ReleasedFacts ==
    ASSUME NEW s \in Run, NEW S
    PROVE  /\ Released(s, S) \in Run
           /\ Released(s, S) = [s EXCEPT !.held = @ \ S, !.ready = @ \ S]
BY NoneAssumption DEF Released, Run

\* A match the rest of a handler may go on with: the one that is there, or one
\* made where there was none.
GoodMatch(m) ==
    /\ m.sim \in Option(Run) /\ m.contract \in Option(Contracts)
    /\ Shape(m.sim, m.contract)
    /\ \/ m.sim = sim /\ m.contract = contract
       \/ sim = None /\ m.sim # None /\ m.sim.held = {}

LEMMA MatchGood ==
    ASSUME Inv
    PROVE  GoodMatch(Match)
BY DEF Inv, GoodMatch, Match, TypeOK

LEMMA MatchForGood ==
    ASSUME Inv, NEW p \in Peers, NEW r \in Request, MayHello(p), JoinsMatch(r) \/ AuthorsMatch(r)
    PROVE  /\ GoodMatch(MatchFor(r))
           /\ MatchFor(r).sim \in Run /\ MatchFor(r).sim.loaded # "blank"
           /\ SeatsOf(MatchFor(r).contract) \subseteq SeatsOf(MatchFor(r).sim.of)
           /\ sim # None => MatchFor(r) = Match
<1>1. CASE sim # None
  <2>1. MatchFor(r) = Match
    BY <1>1 DEF MatchFor
  <2>2. sim \in Run /\ sim.loaded # "blank"
    BY <1>1 DEF Inv, TypeOK, MayHello, Option
  <2>3. SeatsOf(contract) \subseteq SeatsOf(sim.of)
    BY <1>1, SeatsOfFacts DEF Inv, Shape
  <2>. QED  BY <1>1, <2>1, <2>2, <2>3, MatchGood DEF Match
<1>2. CASE sim = None
  <2>1. AuthorsMatch(r)
    BY <1>2 DEF JoinsMatch
  <2>2. r.contract \in Contracts
    BY <2>1 DEF AuthorsMatch, Request
  <2>3. MatchFor(r) = [sim |-> AuthoredRun(r), contract |-> r.contract]
    BY <1>2 DEF MatchFor
  <2>4. r.slot # None => Saved(r) \in Save
    BY <2>1, GameAssumption DEF Saved, Request, NoRequest, Inv, TypeOK, Option, AuthorsMatch
  <2>5. r.slot # None => Saved(r).contract = r.contract
    BY <2>1 DEF AuthorsMatch
  <2>6. /\ AuthoredRun(r) \in Run
        /\ AuthoredRun(r).of = r.contract /\ AuthoredRun(r).loaded = "yes" /\ AuthoredRun(r).held = {}
        /\ AuthoredRun(r).phase = "shop" => ~ SeatsOf(r.contract) \subseteq AuthoredRun(r).ready
    BY <2>2, <2>4, <2>5 DEF AuthoredRun, FreshRun, Run, Save, Option
  <2>7. Shape(AuthoredRun(r), r.contract)
    BY <2>2, <2>6, NoneAssumption, GameAssumption DEF Shape
  <2>. QED  BY <1>2, <2>2, <2>3, <2>6, <2>7, NoneAssumption DEF GoodMatch, Option
<1>. QED  BY <1>1, <1>2

-----------------------------------------------------------------------------
(* A peer is gone: its entry, its seats, and the match with the last player. *)

LEMMA ReleasedShape ==
    ASSUME NEW s \in Run, NEW c, Shape(s, c), NEW S
    PROVE  Shape(Released(s, S), c)
<1>. DEFINE t == Released(s, S)
<1>1. t \in Run /\ t = [s EXCEPT !.held = @ \ S, !.ready = @ \ S]
  BY ReleasedFacts
<1>2. t.of = s.of /\ t.loaded = s.loaded /\ t.phase = s.phase /\ t.ready = s.ready \ S /\ t.held = s.held \ S
  BY <1>1 DEF Run
<1>3. s.loaded = "blank" => t = BlankRun
  <2>1. \A x \in Run : x = [loaded |-> x.loaded, of |-> x.of, phase |-> x.phase,
                           held |-> x.held, ready |-> x.ready]
    BY DEF Run
  <2>2. s.loaded = "blank" => s.of = None /\ s.phase = "play" /\ s.held = {} /\ s.ready = {}
    BY NoneAssumption DEF Shape, BlankRun
  <2>. QED  BY <1>1, <1>2, <2>1, <2>2 DEF BlankRun
<1>. QED  BY <1>1, <1>2, <1>3, NoneAssumption DEF Shape

LEMMA RemovedInv ==
    ASSUME Inv, NEW p \in Peers, NEW m, GoodMatch(m), Removed(p, m),
           net' \in [Peers -> Net], saves' = saves
    PROVE  Inv'
<1>. DEFINE rest == Drop(peers, {p})
            gone == SeatsHeldBy(p)
            alone == m.sim # None /\ \A q \in DOMAIN rest : ~ rest[q].authenticated
<1>1. /\ DOMAIN rest = DOMAIN peers \ {p}
      /\ \A q \in DOMAIN peers \ {p} : rest[q] = peers[q]
      /\ rest \in [DOMAIN peers \ {p} -> Peer]
  BY DropFacts DEF Inv, TypeOK
<1>2. peers' = rest
  BY DEF Removed
<1>3. DOMAIN peers' \subseteq Peers /\ peers' \in [DOMAIN peers' -> Peer]
  BY <1>1, <1>2 DEF Inv, TypeOK
<1>4. Players' = Players \ {p} /\ \A q \in Players' : peers'[q] = peers[q]
  BY <1>1, <1>2 DEF Players
<1>5. \A k \in DOMAIN owner : k \in gone <=> owner[k] = p
  BY DEF Inv, SeatTablesAgree, Owns, Players, SeatsHeldBy
<1>6. CASE alone
  <2>1. Reset
    BY <1>6 DEF Removed
  <2>2. sim' = None /\ contract' = None /\ owner' = Empty /\ paused' = FALSE /\ replay' = FALSE
    BY <2>1 DEF Reset, Keep
  <2>3. DOMAIN owner' = {} /\ owner' \in [DOMAIN owner' -> Peers]
    BY <2>2 DEF Empty
  <2>4. Players' = {}
    BY <1>2, <1>6 DEF Players
  <2>5. TypeOK'
    BY <1>3, <2>2, <2>3 DEF TypeOK, Inv, Option
  <2>6. SeatTablesAgree' /\ PlayersHaveMatch' /\ KeysOfOwners' /\ NoMatchLeftBehind' /\ ReplayOfEndedMatch'
    BY <2>2, <2>3, <2>4 DEF SeatTablesAgree, PlayersHaveMatch, KeysOfOwners, NoMatchLeftBehind, ReplayOfEndedMatch
  <2>7. Shape(sim', contract')
    BY <2>2 DEF Shape
  <2>. QED  BY <2>5, <2>6, <2>7 DEF Inv
<1>7. CASE ~ alone
  <2>1. /\ sim' = Released(m.sim, gone) /\ contract' = m.contract
        /\ owner' = Drop(owner, gone) /\ paused' = paused /\ replay' = replay
    <3>1. Keep([m EXCEPT !.sim = Released(@, gone)]) /\ owner' = Drop(owner, gone)
          /\ UNCHANGED <<paused, replay>>
      BY <1>7 DEF Removed
    <3>2. Keep([m EXCEPT !.sim = Released(@, gone)]) => sim' = Released(m.sim, gone) /\ contract' = m.contract
      BY DEF Keep, GoodMatch
    <3>. QED  BY <3>1, <3>2
  <2>2. /\ DOMAIN owner' = DOMAIN owner \ gone
        /\ \A k \in DOMAIN owner' : owner'[k] = owner[k] /\ owner[k] # p
        /\ owner' \in [DOMAIN owner' -> Peers]
    <3>1. \A k \in DOMAIN owner : owner[k] \in Peers
      BY DEF Inv, TypeOK
    <3>2. DOMAIN owner' = DOMAIN owner \ gone /\ \A k \in DOMAIN owner \ gone : owner'[k] = owner[k]
      BY <2>1, DropFacts
    <3>3. owner' \in [DOMAIN owner \ gone -> Peers]
      BY <2>1, <3>1, DropFacts
    <3>. HIDE DEF gone
    <3>. QED  BY <1>5, <3>2, <3>3
  <2>3. /\ m.sim = None => sim' = None
        /\ m.sim # None => /\ sim' \in Run /\ sim' # None
                           /\ sim'.of = m.sim.of /\ sim'.loaded = m.sim.loaded
                           /\ sim'.phase = m.sim.phase /\ sim'.held = m.sim.held \ gone
    <3>. HIDE DEF gone
    <3>1. m.sim = None => sim' = None
      BY <2>1 DEF Released
    <3>2. m.sim # None => m.sim \in Run
      BY DEF GoodMatch, Option
    <3>3. m.sim # None => sim' \in Run /\ sim' = [m.sim EXCEPT !.held = @ \ gone, !.ready = @ \ gone]
      BY <2>1, <3>2, ReleasedFacts
    <3>. QED  BY <3>1, <3>2, <3>3, NoneAssumption DEF Run
  <2>4. TypeOK'
    BY <1>3, <2>1, <2>2, <2>3 DEF TypeOK, Inv, Option, GoodMatch
  <2>5. SeatTablesAgree'
    BY <1>4, <1>5, <2>2 DEF SeatTablesAgree, Inv, Owns, Players
  <2>6. sim = None => m.sim = None \/ Players = {}
    BY DEF Inv, PlayersHaveMatch
  <2>7. sim # None => m.sim = sim
    BY DEF GoodMatch
  <2>8. PlayersHaveMatch'
    <3>1. sim # None => m.contract = contract
      BY DEF GoodMatch
    <3>2. ASSUME NEW q \in Players'
          PROVE  /\ q \in Players /\ peers'[q] = peers[q]
                 /\ sim # None /\ sim' # None /\ contract' = contract
                 /\ sim'.loaded = sim.loaded /\ sim'.of = sim.of
      BY <1>4, <2>1, <2>3, <2>7, <3>1 DEF Inv, PlayersHaveMatch
    <3>. QED  BY <3>2 DEF PlayersHaveMatch, Inv
  <2>9. KeysOfOwners'
    BY <2>2, <2>3, <2>7 DEF KeysOfOwners, Inv, GoodMatch
  <2>10. NoMatchLeftBehind'
    BY <1>2, <1>7, <2>3 DEF NoMatchLeftBehind
  <2>11. ReplayOfEndedMatch'
    BY <2>1, <2>3, <2>7 DEF ReplayOfEndedMatch, Inv
  <2>12. Shape(sim', contract')
    BY <2>1, <2>3, ReleasedShape DEF GoodMatch, Option, Shape
  <2>. QED  BY <2>4, <2>5, <2>8, <2>9, <2>10, <2>11, <2>12 DEF Inv
<1>. QED  BY <1>6, <1>7

-----------------------------------------------------------------------------
(* A peer is known, or is counted a refusal; the match goes on or is made. *)

LEMMA KnownInv ==
    ASSUME Inv, NEW p \in Peers, NEW v \in Peer, NEW m, GoodMatch(m),
           v.authenticated = State(p).authenticated, v.seats = State(p).seats,
           peers' = Put(peers, p, v), Keep(m),
           net' \in [Peers -> Net], UNCHANGED <<owner, paused, replay, saves>>
    PROVE  Inv'
<1>1. /\ DOMAIN peers' = DOMAIN peers \cup {p}
      /\ peers'[p] = v
      /\ \A x \in DOMAIN peers : x # p => peers'[x] = peers[x]
  BY DEF Put
<1>2. peers' \in [DOMAIN peers' -> Peer] /\ DOMAIN peers' \subseteq Peers
  <2>1. \A x \in DOMAIN peers : peers[x] \in Peer
    BY DEF Inv, TypeOK
  <2>2. peers' \in [DOMAIN peers \cup {p} -> Peer]
    BY <2>1, PutFacts
  <2>. QED  BY <1>1, <2>2 DEF Inv, TypeOK
<1>3. Players' = Players /\ \A q \in Players : peers'[q].seats = peers[q].seats
  BY <1>1 DEF Players, State, NewPeer
<1>4. sim' = m.sim /\ contract' = m.contract
  BY DEF Keep
<1>5. TypeOK'
  BY <1>2, <1>4 DEF TypeOK, Inv, GoodMatch
<1>6. SeatTablesAgree'
  BY <1>3 DEF SeatTablesAgree, Inv, Owns
<1>7. sim = None => Players = {}
  BY DEF Inv, PlayersHaveMatch
<1>8. PlayersHaveMatch'
  BY <1>3, <1>4, <1>7 DEF PlayersHaveMatch, Inv, GoodMatch
<1>9. KeysOfOwners'
  BY <1>4 DEF KeysOfOwners, Inv, GoodMatch
<1>10. NoMatchLeftBehind'
  BY <1>1 DEF NoMatchLeftBehind
<1>11. ReplayOfEndedMatch'
  BY <1>4 DEF ReplayOfEndedMatch, Inv, GoodMatch
<1>12. Shape(sim', contract')
  BY <1>4 DEF GoodMatch
<1>. QED  BY <1>5, <1>6, <1>8, <1>9, <1>10, <1>11, <1>12 DEF Inv

LEMMA RejectedInv ==
    ASSUME Inv, NEW p \in Peers, NEW m, GoodMatch(m), Rejected(p, m), saves' = saves
    PROVE  Inv'
<1>1. CASE State(p).rejections + 1 < MaxRejections
  <2>1. [State(p) EXCEPT !.rejections = @ + 1] \in Peer
    BY StateType DEF Inv, Peer
  <2>2. /\ [State(p) EXCEPT !.rejections = @ + 1].authenticated = State(p).authenticated
        /\ [State(p) EXCEPT !.rejections = @ + 1].seats = State(p).seats
    BY StateType DEF Inv, Peer
  <2>. QED  BY <1>1, <2>1, <2>2, KnownInv DEF Rejected, Inv, TypeOK
<1>2. CASE ~ (State(p).rejections + 1 < MaxRejections)
  <2>1. net' \in [Peers -> Net] /\ Removed(p, m)
    BY <1>2 DEF Rejected, Dropped, Inv, TypeOK, Net
  <2>. QED  BY <2>1, RemovedInv
<1>. QED  BY <1>1, <1>2

-----------------------------------------------------------------------------
(* A player's command or a step changes the simulation, and no table. *)

LEMMA RunInv ==
    ASSUME Inv, sim # None, sim' \in Run, sim'.of = sim.of, sim'.loaded = sim.loaded,
           sim.loaded # "blank",
           sim'.held \subseteq DOMAIN owner,
           sim.phase = "over" => sim'.phase = "over",
           sim'.phase = "shop" => ~ SeatsOf(sim.of) \subseteq sim'.ready,
           UNCHANGED <<net, peers, owner, contract, replay, saves>>, paused' \in BOOLEAN
    PROVE  Inv'
<1>1. sim' # None
  BY NoneAssumption
<1>2. TypeOK'
  BY DEF TypeOK, Inv, Option
<1>3. SeatTablesAgree' /\ Players' = Players
  BY DEF SeatTablesAgree, Inv, Owns, Players
<1>4. PlayersHaveMatch'
  BY <1>1, <1>3 DEF PlayersHaveMatch, Inv
<1>5. KeysOfOwners' /\ NoMatchLeftBehind' /\ ReplayOfEndedMatch'
  BY <1>1 DEF KeysOfOwners, NoMatchLeftBehind, ReplayOfEndedMatch, Inv
<1>6. Shape(sim', contract')
  BY <1>1 DEF Shape, Inv
<1>. QED  BY <1>2, <1>3, <1>4, <1>5, <1>6 DEF Inv

LEMMA PlayerFacts ==
    ASSUME Inv, NEW p \in Peers, NEW k, Owns(p, k)
    PROVE  /\ sim # None /\ sim \in Run /\ sim.loaded # "blank" /\ sim.of \in Contracts
           /\ k \in SeatsOf(sim.of) /\ k \in Seats /\ k \in DOMAIN owner
<1>1. p \in Players /\ k \in peers[p].seats /\ k \in DOMAIN owner
  BY DEF Inv, SeatTablesAgree, Owns
<1>2. sim # None /\ sim.loaded # "blank"
  BY <1>1 DEF Inv, PlayersHaveMatch
<1>3. k \in SeatsOf(sim.of)
  BY <1>1, SeatsOfFacts DEF Inv, PlayersHaveMatch
<1>4. sim \in Run /\ sim.of \in Contracts
  BY <1>2 DEF Inv, TypeOK, Option, Shape
<1>. QED  BY <1>1, <1>2, <1>3, <1>4, SeatsOfFacts

LEMMA ShopAfterFacts ==
    ASSUME sim \in Run, NEW r \in SUBSET Seats, NEW t \in ShopAfter(r), sim.phase = "shop"
    PROVE  /\ t \in Run /\ t.of = sim.of /\ t.loaded = sim.loaded /\ t.held = sim.held
           /\ t.phase = "shop" => ~ SeatsOf(sim.of) \subseteq t.ready
<1>1. CASE SeatsOf(sim.of) \subseteq r
  <2>1. PICK ph \in {"play", "over"} : t = [sim EXCEPT !.phase = ph, !.ready = {}]
    BY <1>1 DEF ShopAfter
  <2>. QED  BY <2>1 DEF Run
<1>2. CASE ~ SeatsOf(sim.of) \subseteq r
  <2>1. t = [sim EXCEPT !.ready = r]
    BY <1>2 DEF ShopAfter
  <2>. QED  BY <1>2, <2>1 DEF Run
<1>. QED  BY <1>1, <1>2

LEMMA SteppedFacts ==
    ASSUME sim \in Run, NEW t \in Stepped,
           sim.phase = "shop" => ~ SeatsOf(sim.of) \subseteq sim.ready
    PROVE  /\ t \in Run /\ t.of = sim.of /\ t.loaded = sim.loaded /\ t.held = sim.held
           /\ sim.phase = "over" => t.phase = "over"
           /\ t.phase = "shop" => ~ SeatsOf(sim.of) \subseteq t.ready
<1>1. CASE sim.phase = "play"
  <2>1. t \in {sim, [sim EXCEPT !.phase = "over"]}
               \cup {[sim EXCEPT !.phase = ph, !.ready = {}] : ph \in {"shop", "credits"}}
    BY <1>1 DEF Stepped
  <2>2. ~ SeatsOf(sim.of) \subseteq {}
    BY SeatsOfFacts
  <2>. QED  BY <1>1, <2>1, <2>2 DEF Run
<1>2. CASE sim.phase = "shop"
  <2>1. \/ t = [sim EXCEPT !.phase = "over"]
        \/ \E r \in Pressed : t \in ShopAfter(r)
    BY <1>2 DEF Stepped
  <2>2. CASE t = [sim EXCEPT !.phase = "over"]
    BY <2>2 DEF Run
  <2>3. ASSUME NEW r \in Pressed, t \in ShopAfter(r)
        PROVE  /\ t \in Run /\ t.of = sim.of /\ t.loaded = sim.loaded /\ t.held = sim.held
               /\ t.phase = "shop" => ~ SeatsOf(sim.of) \subseteq t.ready
    BY <1>2, <2>3, ShopAfterFacts DEF Pressed
  <2>. QED  BY <1>2, <2>1, <2>2, <2>3
<1>3. CASE sim.phase = "credits"
  <2>1. t \in {sim, [sim EXCEPT !.phase = "over"], [sim EXCEPT !.phase = "play"]}
    BY <1>3 DEF Stepped
  <2>. QED  BY <1>3, <2>1 DEF Run
<1>4. CASE sim.phase = "over"
  <2>1. t = sim
    BY <1>4 DEF Stepped
  <2>. QED  BY <1>4, <2>1
<1>. QED  BY <1>1, <1>2, <1>3, <1>4 DEF Run

-----------------------------------------------------------------------------
(* Every action keeps the invariant. *)

LEMMA InitInv == Init => Inv
BY DEF Init, Inv, TypeOK, SeatTablesAgree, PlayersHaveMatch, KeysOfOwners, NoMatchLeftBehind,
       ReplayOfEndedMatch, Shape, Empty, Players, Net, Option

LEMMA ConnectedInv ==
    ASSUME Inv, NEW p \in Peers, Connected(p)
    PROVE  Inv'
BY MatchGood, StateType, KnownInv DEF Connected, Keep, Match, Inv, TypeOK, Net

LEMMA DisconnectedInv ==
    ASSUME Inv, NEW p \in Peers, Disconnected(p)
    PROVE  Inv'
<1>1. net' \in [Peers -> Net]
  BY DEF Disconnected, Inv, TypeOK, Net
<1>2. CASE p \in DOMAIN peers
  BY <1>1, <1>2, MatchGood, RemovedInv DEF Disconnected
<1>3. CASE p \notin DOMAIN peers
  <2>1. UNCHANGED <<peers, owner, sim, contract, paused, replay, saves>>
    BY <1>3 DEF Disconnected
  <2>. QED  BY <1>1, <2>1 DEF Inv, TypeOK, SeatTablesAgree, PlayersHaveMatch, KeysOfOwners,
                              NoMatchLeftBehind, ReplayOfEndedMatch, Shape, Players, Owns
<1>. QED  BY <1>2, <1>3

LEMMA ExpiredInv ==
    ASSUME Inv, NEW p \in Peers, Expired(p)
    PROVE  Inv'
<1>1. net' \in [Peers -> Net] /\ Removed(p, Match) /\ saves' = saves
  BY DEF Expired, Dropped, Inv, TypeOK, Net
<1>. QED  BY <1>1, MatchGood, RemovedInv

LEMMA OverlookedInv ==
    ASSUME Inv, NEW p \in Peers, Overlooked(p)
    PROVE  Inv'
BY MatchGood, StateType, KnownInv DEF Overlooked, Keep, Match, Inv, TypeOK

LEMMA RefusedInv ==
    ASSUME Inv, NEW p \in Peers, Refused(p)
    PROVE  Inv'
BY MatchGood, RejectedInv DEF Refused

LEMMA HelloSeatRefusedInv ==
    ASSUME Inv, NEW p \in Peers, NEW r \in Request, NEW claim, HelloSeatRefused(p, r, claim)
    PROVE  Inv'
<1>1. GoodMatch(MatchFor(r))
  BY MatchForGood DEF HelloSeatRefused
<1>. QED  BY <1>1, RejectedInv DEF HelloSeatRefused

LEMMA HelloResumeFailsInv ==
    ASSUME Inv, NEW p \in Peers, NEW r \in Request, HelloResumeFails(p, r)
    PROVE  Inv'
<1>. DEFINE m == [sim |-> sim', contract |-> contract]
<1>1. Saved(r) \in Save
  BY GameAssumption DEF HelloResumeFails, Saved, Request, NoRequest, Inv, TypeOK, Option
<1>2. Saved(r).contract \in Contracts
  BY <1>1 DEF Save
<1>3. sim = None /\ contract = None
  BY DEF HelloResumeFails, Inv, Shape
<1>4. \/ sim' = BlankRun
      \/ sim' = [FreshRun(Saved(r).contract) EXCEPT !.loaded = "half"]
      \/ sim' = [FreshRun(Saved(r).contract) EXCEPT !.loaded = "partly"]
  BY DEF HelloResumeFails, RefusedRun
<1>5. /\ sim' \in Run /\ sim'.held = {} /\ sim'.phase = "play" /\ sim'.loaded # "yes"
      /\ sim'.loaded = "blank" => sim' = BlankRun
      /\ sim'.loaded # "blank" => sim'.of \in Contracts
  BY <1>2, <1>4 DEF BlankRun, FreshRun, Run, Option
<1>6. GoodMatch(m)
  BY <1>3, <1>5, NoneAssumption DEF GoodMatch, Shape, Option
<1>7. Keep(m) /\ UNCHANGED <<net, owner, paused, replay, saves>> /\ peers' = Put(peers, p, State(p))
  BY DEF HelloResumeFails, Keep
<1>. QED  BY <1>6, <1>7, StateType, KnownInv DEF Inv, TypeOK

\* What HelloWelcomed leaves of the peers' table.
LEMMA WelcomedPeers ==
    ASSUME Inv, NEW p \in Peers, NEW r, NEW claim, HelloWelcomed(p, r, claim), claim \subseteq Seats
    PROVE  /\ DOMAIN peers' = DOMAIN peers \cup {p}
           /\ peers' \in [DOMAIN peers' -> Peer] /\ DOMAIN peers' \subseteq Peers
           /\ p \notin Players /\ Players' = Players \cup {p}
           /\ peers'[p].seats = claim
           /\ \A q \in Players : peers'[q].seats = peers[q].seats
<1>. DEFINE v == [State(p) EXCEPT !.authenticated = TRUE, !.seats = claim]
<1>1. peers' = Put(peers, p, v) /\ p \notin Players
  BY DEF HelloWelcomed, MayHello
<1>2. v \in Peer /\ v.authenticated /\ v.seats = claim
  BY StateType DEF Inv, Peer
<1>. HIDE DEF v
<1>3. /\ DOMAIN peers' = DOMAIN peers \cup {p} /\ peers'[p] = v
      /\ \A x \in DOMAIN peers : x # p => peers'[x] = peers[x]
  BY <1>1 DEF Put
<1>4. \A x \in DOMAIN peers : peers[x] \in Peer
  BY DEF Inv, TypeOK
<1>5. peers' \in [DOMAIN peers \cup {p} -> Peer]
  BY <1>1, <1>2, <1>4, PutFacts
<1>6. Players' = Players \cup {p}
  BY <1>1, <1>2, <1>3 DEF Players
<1>. QED  BY <1>1, <1>2, <1>3, <1>5, <1>6 DEF Inv, TypeOK, Players

LEMMA HelloWelcomedInv ==
    ASSUME Inv, NEW p \in Peers, NEW r \in Request, NEW claim \in Claims, HelloWelcomed(p, r, claim)
    PROVE  Inv'
<1>. DEFINE m == MatchFor(r)
<1>1. /\ MayHello(p) /\ (JoinsMatch(r) \/ AuthorsMatch(r))
      /\ claim \subseteq SeatsOf(m.contract)
      /\ \A k \in claim \cap DOMAIN owner : owner[k] = p
      /\ sim' = m.sim /\ contract' = m.contract
      /\ owner' = [k \in DOMAIN owner \cup claim |-> IF k \in claim THEN p ELSE owner[k]]
      /\ UNCHANGED <<net, paused, replay, saves>>
  BY DEF HelloWelcomed, Claimable, Keep
<1>2. /\ GoodMatch(m) /\ m.sim \in Run /\ m.sim.loaded # "blank"
      /\ SeatsOf(m.contract) \subseteq SeatsOf(m.sim.of)
  BY <1>1, MatchForGood DEF HelloWelcomed
<1>3. sim # None => m.sim = sim
  BY <1>2 DEF GoodMatch
<1>. HIDE DEF m
<1>4. claim # {} /\ claim \subseteq Seats
  BY <1>1, SeatsOfFacts DEF Claims
<1>5. /\ DOMAIN peers' = DOMAIN peers \cup {p}
      /\ peers' \in [DOMAIN peers' -> Peer] /\ DOMAIN peers' \subseteq Peers
      /\ p \notin Players /\ Players' = Players \cup {p}
      /\ peers'[p].seats = claim
      /\ \A q \in Players : peers'[q].seats = peers[q].seats
  BY <1>4, WelcomedPeers
<1>6. /\ DOMAIN owner' = DOMAIN owner \cup claim
      /\ \A k \in claim : owner'[k] = p
      /\ \A k \in DOMAIN owner \ claim : owner'[k] = owner[k]
      /\ owner' \in [DOMAIN owner' -> Peers]
  BY <1>1 DEF Inv, TypeOK
<1>7. \A k \in DOMAIN owner : k \notin claim
  <2>1. ASSUME NEW k \in DOMAIN owner, k \in claim
        PROVE  FALSE
    BY <1>1, <1>5, <2>1 DEF Inv, SeatTablesAgree, Owns
  <2>. QED  BY <2>1
<1>8. TypeOK'
  BY <1>1, <1>2, <1>4, <1>5, <1>6 DEF TypeOK, Inv, GoodMatch
<1>9. SeatTablesAgree'
  <2>1. ASSUME NEW k \in DOMAIN owner'
        PROVE  owner'[k] \in Players' /\ k \in peers'[owner'[k]].seats
    BY <1>5, <1>6 DEF Inv, SeatTablesAgree, Owns
  <2>2. ASSUME NEW q \in Players', NEW k \in peers'[q].seats
        PROVE  k \in DOMAIN owner' /\ owner'[k] = q
    BY <1>5, <1>6, <1>7, <2>2 DEF Inv, SeatTablesAgree
  <2>. QED  BY <2>1, <2>2 DEF SeatTablesAgree, Owns
<1>10. sim = None => Players = {}
  BY DEF Inv, PlayersHaveMatch
<1>11. PlayersHaveMatch'
  <2>1. /\ sim' # None
        /\ contract' # None => sim'.loaded = "yes" /\ sim'.of = contract'
        /\ contract' = None => sim'.loaded \in {"half", "partly"}
    BY <1>1, <1>2, NoneAssumption DEF GoodMatch, Shape, Run
  <2>2. contract' = None => claim = {0}
    BY <1>1, <1>4, SeatsOfFacts
  <2>3. sim # None => contract' = contract
    BY <1>1, <1>2 DEF GoodMatch
  <2>4. ASSUME NEW q \in Players
        PROVE  /\ peers[q].seats # {}
               /\ contract' # None => peers[q].seats \subseteq SeatsOf(contract')
               /\ contract' = None => peers[q].seats = {0}
    BY <1>10, <2>3 DEF Inv, PlayersHaveMatch
  <2>. QED  BY <1>1, <1>4, <1>5, <2>1, <2>2, <2>4 DEF PlayersHaveMatch
<1>12. KeysOfOwners'
  BY <1>1, <1>2, <1>3, <1>6 DEF KeysOfOwners, Inv, GoodMatch
<1>13. NoMatchLeftBehind'
  BY <1>5 DEF NoMatchLeftBehind
<1>14. ReplayOfEndedMatch'
  BY <1>1, <1>3 DEF ReplayOfEndedMatch, Inv
<1>15. Shape(sim', contract')
  BY <1>1, <1>2 DEF GoodMatch
<1>. QED  BY <1>8, <1>9, <1>11, <1>12, <1>13, <1>14, <1>15 DEF Inv

LEMMA InputInv ==
    ASSUME Inv, NEW p \in Peers, NEW k \in Seats, NEW down \in BOOLEAN, Input(p, k, down)
    PROVE  Inv'
<1>1. sim # None /\ sim \in Run /\ sim.loaded # "blank" /\ k \in DOMAIN owner
  BY PlayerFacts DEF Input
<1>2. sim.held \subseteq DOMAIN owner /\ (sim.phase = "shop" => ~ SeatsOf(sim.of) \subseteq sim.ready)
  BY <1>1 DEF Inv, KeysOfOwners, Shape
<1>3. /\ sim' \in Run /\ sim'.of = sim.of /\ sim'.loaded = sim.loaded
      /\ sim'.phase = sim.phase /\ sim'.ready = sim.ready
      /\ sim'.held \subseteq sim.held \cup {k}
  BY <1>1 DEF Input, Run
<1>. QED  BY <1>1, <1>2, <1>3, RunInv DEF Input, Inv, TypeOK

LEMMA ShopReadyInv ==
    ASSUME Inv, NEW p \in Peers, NEW k \in Seats, NEW b \in BOOLEAN, ShopReady(p, k, b)
    PROVE  Inv'
<1>1. sim # None /\ sim \in Run /\ sim.loaded # "blank" /\ sim.phase = "shop"
  BY PlayerFacts DEF ShopReady
<1>2. sim.held \subseteq DOMAIN owner
  BY <1>1 DEF Inv, KeysOfOwners
<1>3. PICK r \in SUBSET Seats : sim' \in ShopAfter(r)
  BY <1>1 DEF ShopReady, Run
<1>4. /\ sim' \in Run /\ sim'.of = sim.of /\ sim'.loaded = sim.loaded /\ sim'.held = sim.held
      /\ sim'.phase = "shop" => ~ SeatsOf(sim.of) \subseteq sim'.ready
  BY <1>1, <1>3, ShopAfterFacts
<1>. QED  BY <1>1, <1>2, <1>4, RunInv DEF ShopReady, Inv, TypeOK

LEMMA PauseInv ==
    ASSUME Inv, NEW p \in Peers, NEW on \in BOOLEAN, Pause(p, on)
    PROVE  Inv'
<1>1. sim # None /\ sim \in Run /\ sim.loaded # "blank"
  BY PlayerFacts DEF Pause
<1>2. sim.held \subseteq DOMAIN owner /\ (sim.phase = "shop" => ~ SeatsOf(sim.of) \subseteq sim.ready)
  BY <1>1 DEF Inv, KeysOfOwners, Shape
<1>. QED  BY <1>1, <1>2, RunInv DEF Pause

LEMMA RetireInv ==
    ASSUME Inv, NEW p \in Peers, NEW k \in Seats, Retire(p, k)
    PROVE  Inv'
<1>1. sim # None /\ sim \in Run /\ sim.loaded # "blank"
  BY PlayerFacts DEF Retire
<1>2. sim.held \subseteq DOMAIN owner
  BY <1>1 DEF Inv, KeysOfOwners
<1>3. /\ sim' \in Run /\ sim'.of = sim.of /\ sim'.loaded = sim.loaded
      /\ sim'.phase = "over" /\ sim'.held = sim.held
  BY <1>1 DEF Retire, Run
<1>. QED  BY <1>1, <1>2, <1>3, RunInv DEF Retire

LEMMA SaveRunInv ==
    ASSUME Inv, NEW p \in Peers, NEW k \in Seats, NEW s \in Slots, SaveRun(p, k, s)
    PROVE  Inv'
<1>1. sim # None /\ sim \in Run /\ sim.of \in Contracts /\ sim.phase = "shop"
  BY PlayerFacts DEF SaveRun
<1>2. ~ SeatsOf(sim.of) \subseteq sim.ready
  BY <1>1 DEF Inv, Shape
<1>3. [contract |-> sim.of, state |-> "good", ready |-> sim.ready] \in Save
  BY <1>1, <1>2 DEF Save, SaveState, Run
<1>4. saves' \in [Slots -> Option(Save)]
  BY <1>3 DEF SaveRun, Inv, TypeOK, Option
<1>. QED  BY <1>4 DEF SaveRun, Inv, TypeOK, SeatTablesAgree, PlayersHaveMatch, KeysOfOwners,
                      NoMatchLeftBehind, ReplayOfEndedMatch, Shape, Players, Owns

LEMMA ReplayRequestInv ==
    ASSUME Inv, NEW p \in Peers, NEW k \in Seats, ReplayRequest(p, k)
    PROVE  Inv'
BY DEF ReplayRequest, Inv, TypeOK, SeatTablesAgree, PlayersHaveMatch, KeysOfOwners,
       NoMatchLeftBehind, ReplayOfEndedMatch, Shape, Players, Owns

LEMMA PhysicsInv ==
    ASSUME Inv, Physics
    PROVE  Inv'
<1>1. sim # None /\ sim \in Run /\ sim.loaded # "blank"
  BY DEF Physics, Configured, Inv, TypeOK, Option
<1>2. sim.held \subseteq DOMAIN owner /\ (sim.phase = "shop" => ~ SeatsOf(sim.of) \subseteq sim.ready)
  BY <1>1 DEF Inv, KeysOfOwners, Shape
<1>3. sim' \in Stepped
  BY DEF Physics
<1>4. /\ sim' \in Run /\ sim'.of = sim.of /\ sim'.loaded = sim.loaded /\ sim'.held = sim.held
      /\ sim.phase = "over" => sim'.phase = "over"
      /\ sim'.phase = "shop" => ~ SeatsOf(sim.of) \subseteq sim'.ready
  BY <1>1, <1>2, <1>3, SteppedFacts
<1>. QED  BY <1>1, <1>2, <1>4, RunInv DEF Physics, Inv, TypeOK

LEMMA ServerRestartInv ==
    ASSUME Inv, ServerRestart
    PROVE  Inv'
<1>1. /\ net' = [p \in Peers |-> "away"] /\ peers' = Empty /\ owner' = Empty
      /\ sim' = None /\ contract' = None /\ paused' = FALSE /\ replay' = FALSE /\ saves' = saves
  BY DEF ServerRestart, Reset, Keep
<1>. QED  BY <1>1 DEF Inv, TypeOK, SeatTablesAgree, PlayersHaveMatch, KeysOfOwners, NoMatchLeftBehind,
                      ReplayOfEndedMatch, Shape, Empty, Players, Net, Option

LEMMA NextInv == Inv /\ [Next]_gameVars => Inv'
<1>1. ASSUME Inv, NEW p \in Peers, PeerStep(p)
      PROVE  Inv'
  <2>1. CASE Hello(p)
    BY <1>1, <2>1, HelloResumeFailsInv, HelloSeatRefusedInv, HelloWelcomedInv DEF Hello
  <2>2. CASE Command(p)
    BY <1>1, <2>2, RetireInv, ReplayRequestInv, InputInv, ShopReadyInv, PauseInv, SaveRunInv DEF Command
  <2>. QED  BY <1>1, <2>1, <2>2, ConnectedInv, DisconnectedInv, ExpiredInv, OverlookedInv, RefusedInv
            DEF PeerStep
<1>2. ASSUME Inv, UNCHANGED gameVars
      PROVE  Inv'
  BY <1>2 DEF gameVars, Inv, TypeOK, SeatTablesAgree, PlayersHaveMatch, KeysOfOwners,
              NoMatchLeftBehind, ReplayOfEndedMatch, Shape, Players, Owns
<1>. QED  BY <1>1, <1>2, PhysicsInv, ServerRestartInv DEF Next

\* The parts of the inductive invariant hold together in every state.
THEOREM Invariance == Spec => []Inv
<1>. QED  BY InitInv, NextInv, PTL DEF Spec

\* Every table and the match are always well typed.
THEOREM TypeCorrect == Spec => []TypeOK
<1>1. Inv => TypeOK  BY DEF Inv
<1>. QED  BY <1>1, Invariance, PTL

\* A seat has one owner, who is a player of that seat, and a player owns its seats.
THEOREM SeatTablesAlwaysAgree == Spec => []SeatTablesAgree
<1>1. Inv => SeatTablesAgree  BY DEF Inv
<1>. QED  BY <1>1, Invariance, PTL

\* A command of an authenticated peer always finds a simulation that has its seat: the
\* match that was agreed on, whole, or the one seat of what a failed resume left.
THEOREM PlayersAlwaysHaveMatch == Spec => []PlayersHaveMatch
<1>1. Inv => PlayersHaveMatch  BY DEF Inv
<1>. QED  BY <1>1, Invariance, PTL

\* Only a seat that has an owner holds a key down.
THEOREM KeysReleased == Spec => []KeysOfOwners
<1>1. Inv => KeysOfOwners  BY DEF Inv
<1>. QED  BY <1>1, Invariance, PTL

\* The last peer to go takes the match with it.
THEOREM LobbyLeftClean == Spec => []NoMatchLeftBehind
<1>1. Inv => NoMatchLeftBehind  BY DEF Inv
<1>. QED  BY <1>1, Invariance, PTL

\* No match is given the replay of another one, or a replay before its end.
THEOREM ReplaysAreOfEndedMatch == Spec => []ReplayOfEndedMatch
<1>1. Inv => ReplayOfEndedMatch  BY DEF Inv
<1>. QED  BY <1>1, Invariance, PTL

-----------------------------------------------------------------------------
(* What one step may do to a match that is played. *)

Steady == MatchStays /\ MoveAttended

LEMMA SameRunSteady ==
    ASSUME Inv,
           sim # None => /\ sim' # None /\ sim'.of = sim.of /\ sim'.loaded = sim.loaded
                         /\ contract' = contract /\ (sim.phase = "over" => sim'.phase = "over")
                         /\ \/ sim'.phase \in {sim.phase, "over"}
                            \/ sim.phase = "shop"
                            \/ ~ Waiting /\ ~ paused
    PROVE  Steady
BY DEF Steady, MatchStays, MoveAttended, Inv, PlayersHaveMatch

LEMMA RemovedSteady ==
    ASSUME Inv, NEW p \in Peers, NEW m, GoodMatch(m), Removed(p, m)
    PROVE  Steady
<1>. DEFINE rest == Drop(peers, {p})
<1>1. peers' = rest
  BY DEF Removed
<1>2. CASE m.sim # None /\ \A q \in DOMAIN rest : ~ rest[q].authenticated
  <2>1. sim' = None
    BY <1>2 DEF Removed, Reset, Keep
  <2>2. Players' = {}
    BY <1>1, <1>2 DEF Players
  <2>. QED  BY <2>1, <2>2 DEF Steady, MatchStays, MoveAttended
<1>3. CASE ~ (m.sim # None /\ \A q \in DOMAIN rest : ~ rest[q].authenticated)
  <2>1. sim' = Released(m.sim, SeatsHeldBy(p)) /\ contract' = m.contract
    <3>1. Keep([m EXCEPT !.sim = Released(@, SeatsHeldBy(p))])
      BY <1>3 DEF Removed
    <3>. QED  BY <3>1 DEF Keep, GoodMatch
  <2>2. ASSUME sim # None
        PROVE  m.sim = sim /\ m.contract = contract /\ sim \in Run
    BY <2>2 DEF GoodMatch, Inv, TypeOK, Option
  <2>3. ASSUME sim # None
        PROVE  /\ sim' # None /\ sim'.of = sim.of /\ sim'.loaded = sim.loaded
               /\ contract' = contract /\ sim'.phase = sim.phase
    <3>. DEFINE S == SeatsHeldBy(p)
    <3>1. sim' = Released(sim, S) /\ sim \in Run /\ contract' = contract
      BY <2>1, <2>2, <2>3
    <3>. HIDE DEF S
    <3>2. sim' \in Run /\ sim' = [sim EXCEPT !.held = @ \ S, !.ready = @ \ S]
      BY <3>1, ReleasedFacts
    <3>. QED  BY <3>1, <3>2, NoneAssumption DEF Run
  <2>. QED  BY <2>3, SameRunSteady
<1>. QED  BY <1>2, <1>3

LEMMA KeepSteady ==
    ASSUME Inv, NEW m, GoodMatch(m), Keep(m)
    PROVE  Steady
BY SameRunSteady DEF GoodMatch, Keep

LEMMA RejectedSteady ==
    ASSUME Inv, NEW p \in Peers, NEW m, GoodMatch(m), Rejected(p, m)
    PROVE  Steady
BY RemovedSteady, KeepSteady DEF Rejected, Dropped

LEMMA HelloSteady ==
    ASSUME Inv, NEW p \in Peers, Hello(p)
    PROVE  Steady
<1>1. PICK r \in Request : \/ HelloResumeFails(p, r)
                           \/ \E claim \in Claims : HelloSeatRefused(p, r, claim) \/ HelloWelcomed(p, r, claim)
  BY DEF Hello
<1>2. CASE HelloResumeFails(p, r)
  BY <1>2, SameRunSteady DEF HelloResumeFails
<1>3. CASE \E claim \in Claims : HelloSeatRefused(p, r, claim) \/ HelloWelcomed(p, r, claim)
  <2>1. PICK claim \in Claims : HelloSeatRefused(p, r, claim) \/ HelloWelcomed(p, r, claim)
    BY <1>3
  <2>2. GoodMatch(MatchFor(r))
    BY <2>1, MatchForGood DEF HelloSeatRefused, HelloWelcomed
  <2>. QED  BY <2>1, <2>2, RejectedSteady, KeepSteady DEF HelloSeatRefused, HelloWelcomed
<1>. QED  BY <1>1, <1>2, <1>3

\* A command keeps the match and moves it on from nothing but a shop.
LEMMA CommandRun ==
    ASSUME Inv, NEW p \in Peers, Command(p)
    PROVE  sim # None => /\ sim' # None /\ sim'.of = sim.of /\ sim'.loaded = sim.loaded
                         /\ contract' = contract /\ (sim.phase = "over" => sim'.phase = "over")
                         /\ sim'.phase \in {sim.phase, "over"} \/ sim.phase = "shop"
<1>. DEFINE Goes == /\ sim' # None /\ sim'.of = sim.of /\ sim'.loaded = sim.loaded
                    /\ contract' = contract /\ (sim.phase = "over" => sim'.phase = "over")
                    /\ sim'.phase \in {sim.phase, "over"} \/ sim.phase = "shop"
<1>. SUFFICES ASSUME sim # None
              PROVE  Goes
  OBVIOUS
<1>1. ASSUME NEW k \in Seats, NEW b \in BOOLEAN, Input(p, k, b)
      PROVE  Goes
  <2>1. sim \in Run /\ sim # None
    BY <1>1, PlayerFacts DEF Input
  <2>2. sim' \in Run /\ sim'.of = sim.of /\ sim'.loaded = sim.loaded /\ sim'.phase = sim.phase
    BY <1>1, <2>1 DEF Input, Run
  <2>. QED  BY <1>1, <2>2, NoneAssumption DEF Input
<1>2. ASSUME NEW k \in Seats, NEW b \in BOOLEAN, ShopReady(p, k, b)
      PROVE  Goes
  <2>1. sim \in Run /\ sim # None /\ sim.phase = "shop"
    BY <1>2, PlayerFacts DEF ShopReady
  <2>2. PICK r \in SUBSET Seats : sim' \in ShopAfter(r)
    BY <1>2, <2>1 DEF ShopReady, Run
  <2>3. sim' \in Run /\ sim'.of = sim.of /\ sim'.loaded = sim.loaded
    BY <2>1, <2>2, ShopAfterFacts
  <2>. QED  BY <1>2, <2>1, <2>3, NoneAssumption DEF ShopReady
<1>3. ASSUME NEW k \in Seats, Retire(p, k)
      PROVE  Goes
  <2>1. sim \in Run /\ sim # None
    BY <1>3, PlayerFacts DEF Retire
  <2>2. sim' \in Run /\ sim'.of = sim.of /\ sim'.loaded = sim.loaded /\ sim'.phase = "over"
    BY <1>3, <2>1 DEF Retire, Run
  <2>. QED  BY <1>3, <2>2, NoneAssumption DEF Retire
<1>4. ASSUME sim' = sim, contract' = contract
      PROVE  Goes
  BY <1>4
<1>. QED  BY <1>1, <1>2, <1>3, <1>4 DEF Command, Pause, SaveRun, ReplayRequest

LEMMA CommandSteady ==
    ASSUME Inv, NEW p \in Peers, Command(p)
    PROVE  Steady
BY CommandRun, SameRunSteady

LEMMA PhysicsRun ==
    ASSUME Inv, Physics
    PROVE  /\ sim # None /\ sim' # None /\ sim'.of = sim.of /\ sim'.loaded = sim.loaded
           /\ sim.phase = "over" => sim'.phase = "over"
<1>1. sim # None /\ sim \in Run
  BY DEF Physics, Configured, Inv, TypeOK, Option
<1>2. sim.phase = "shop" => ~ SeatsOf(sim.of) \subseteq sim.ready
  BY <1>1 DEF Inv, Shape
<1>3. /\ sim' \in Run /\ sim'.of = sim.of /\ sim'.loaded = sim.loaded
      /\ sim.phase = "over" => sim'.phase = "over"
  BY <1>1, <1>2, SteppedFacts DEF Physics
<1>. QED  BY <1>1, <1>3, NoneAssumption

LEMMA PhysicsSteady ==
    ASSUME Inv, Physics
    PROVE  Steady
BY PhysicsRun, SameRunSteady DEF Physics

LEMMA NextSteady == Inv /\ [Next]_gameVars => [Steady]_gameVars
<1>1. ASSUME Inv, NEW p \in Peers, PeerStep(p)
      PROVE  Steady
  <2>1. CASE Connected(p) \/ Overlooked(p)
    BY <1>1, <2>1, SameRunSteady DEF Connected, Overlooked
  <2>2. CASE Disconnected(p)
    BY <1>1, <2>2, MatchGood, RemovedSteady, SameRunSteady DEF Disconnected
  <2>3. CASE Expired(p)
    BY <1>1, <2>3, MatchGood, RemovedSteady DEF Expired, Dropped
  <2>4. CASE Refused(p)
    BY <1>1, <2>4, MatchGood, RejectedSteady DEF Refused
  <2>. QED  BY <1>1, <2>1, <2>2, <2>3, <2>4, HelloSteady, CommandSteady DEF PeerStep
<1>2. ASSUME Inv, ServerRestart
      PROVE  Steady
  <2>1. sim' = None /\ Players' = {}
    BY <1>2 DEF ServerRestart, Reset, Keep, Players, Empty
  <2>. QED  BY <2>1 DEF Steady, MatchStays, MoveAttended
<1>. QED  BY <1>1, <1>2, PhysicsSteady DEF Next

\* Whoever stays in a match stays in that match: nobody configures another one
\* underneath it, and one that has ended stays ended.
THEOREM LiveMatchAlwaysKept == Spec => LiveMatchKept
<1>1. Steady => MatchStays
  BY DEF Steady
<1>. QED  BY <1>1, Invariance, NextSteady, PTL DEF Spec, LiveMatchKept

\* No level goes on while it is paused or waits for a player.
THEOREM MovesAreAttended == Spec => NothingMovesUnattended
<1>1. Steady => MoveAttended
  BY DEF Steady
<1>. QED  BY <1>1, Invariance, NextSteady, PTL DEF Spec, NothingMovesUnattended

-----------------------------------------------------------------------------
(* The server implements SeatTable. *)

TableMatch  == IF sim = None THEN None ELSE sim.of
TableSeated == [p \in Peers |-> IF p \in Players THEN peers[p].seats ELSE {}]

LEMMA NobodyFacts ==
    ASSUME Inv
    PROVE  /\ Table!Nobody(TableSeated) <=> Players = {}
           /\ sim = None => Players = {}
<1>1. Players \subseteq Peers
  BY DEF Players, Inv, TypeOK
<1>. QED  BY <1>1 DEF Table!Nobody, TableSeated, Inv, PlayersHaveMatch

LEMMA TableInit == Init => Table!Init
BY DEF Init, Table!Init, Players, Empty

\* The tables stay, and so does the match if there is one.
LEMMA StayTable ==
    ASSUME Inv, TypeOK', TableSeated' = TableSeated, sim # None => sim' # None /\ sim'.of = sim.of
    PROVE  [Table!Next]_<<TableMatch, TableSeated>>
<1>1. CASE sim # None \/ sim' = None
  BY <1>1 DEF TableMatch
<1>2. CASE sim = None /\ sim' # None
  <2>1. TableMatch = None /\ TableMatch' \in Contracts \cup {None}
    BY <1>2 DEF TableMatch, TypeOK, Option, Run
  <2>2. Table!Nobody(TableSeated)
    BY <1>2, NobodyFacts
  <2>3. Table!Choose(TableMatch')
    BY <2>1, <2>2 DEF Table!Choose, TableMatch, TableSeated
  <2>. QED  BY <2>1, <2>3 DEF Table!Next
<1>. QED  BY <1>1, <1>2

LEMMA RemovedTable ==
    ASSUME Inv, Inv', NEW p \in Peers, NEW m, GoodMatch(m), Removed(p, m)
    PROVE  Table!Leave(p)
<1>. DEFINE rest == Drop(peers, {p})
<1>1. /\ DOMAIN rest = DOMAIN peers \ {p}
      /\ \A q \in DOMAIN peers \ {p} : rest[q] = peers[q]
      /\ peers' = rest
  BY DropFacts DEF Removed
<1>2. Players' = Players \ {p} /\ \A q \in Players' : peers'[q] = peers[q]
  BY <1>1 DEF Players
<1>3. TableSeated' = [TableSeated EXCEPT ![p] = {}]
  BY <1>2 DEF TableSeated
<1>4. CASE m.sim # None /\ \A q \in DOMAIN rest : ~ rest[q].authenticated
  <2>1. sim' = None
    BY <1>4 DEF Removed, Reset, Keep
  <2>2. Players' = {}
    BY <1>1, <1>4 DEF Players
  <2>3. Table!Nobody(TableSeated')
    BY <2>2 DEF Table!Nobody, TableSeated
  <2>. QED  BY <1>3, <2>1, <2>3 DEF Table!Leave, TableMatch, TableSeated
<1>5. CASE ~ (m.sim # None /\ \A q \in DOMAIN rest : ~ rest[q].authenticated)
  <2>1. sim' = Released(m.sim, SeatsHeldBy(p))
    <3>1. Keep([m EXCEPT !.sim = Released(@, SeatsHeldBy(p))])
      BY <1>5 DEF Removed
    <3>. QED  BY <3>1 DEF Keep, GoodMatch
  <2>2. m.sim = sim
    BY <1>1, <1>5, NobodyFacts DEF GoodMatch, Players
  <2>3. TableMatch' = TableMatch
    <3>. DEFINE S == SeatsHeldBy(p)
    <3>1. sim' = Released(sim, S) /\ sim \in Option(Run)
      BY <2>1, <2>2 DEF Inv, TypeOK
    <3>. HIDE DEF S
    <3>2. sim = None => sim' = None
      BY <3>1 DEF Released
    <3>3. sim # None => sim' \in Run /\ sim' = [sim EXCEPT !.held = @ \ S, !.ready = @ \ S] /\ sim \in Run
      BY <3>1, ReleasedFacts DEF Option
    <3>. QED  BY <3>2, <3>3, NoneAssumption DEF Run, TableMatch
  <2>. QED  BY <1>3, <2>3 DEF Table!Leave, TableMatch, TableSeated
<1>. QED  BY <1>4, <1>5

LEMMA SameSeats ==
    ASSUME Inv, NEW p \in Peers, NEW v, peers' = Put(peers, p, v),
           v.authenticated = State(p).authenticated, v.seats = State(p).seats
    PROVE  TableSeated' = TableSeated
<1>1. /\ DOMAIN peers' = DOMAIN peers \cup {p}
      /\ peers'[p] = v
      /\ \A x \in DOMAIN peers : x # p => peers'[x] = peers[x]
  BY DEF Put
<1>2. Players' = Players /\ \A q \in Players : peers'[q].seats = peers[q].seats
  BY <1>1 DEF Players, State, NewPeer
<1>. QED  BY <1>2 DEF TableSeated

TableStep == [Table!Next]_<<TableMatch, TableSeated>>

LEMMA LeaveStep ==
    ASSUME NEW p \in Peers, Table!Leave(p)
    PROVE  TableStep
BY DEF TableStep, Table!Next

LEMMA RejectedTable ==
    ASSUME Inv, Inv', NEW p \in Peers, NEW m, GoodMatch(m), Rejected(p, m)
    PROVE  TableStep
<1>1. CASE State(p).rejections + 1 < MaxRejections
  <2>1. /\ [State(p) EXCEPT !.rejections = @ + 1].authenticated = State(p).authenticated
        /\ [State(p) EXCEPT !.rejections = @ + 1].seats = State(p).seats
    BY StateType DEF Inv, Peer
  <2>2. TableSeated' = TableSeated
    BY <1>1, <2>1, SameSeats DEF Rejected
  <2>3. sim # None => sim' = sim
    BY <1>1 DEF Rejected, Keep, GoodMatch
  <2>. QED  BY <2>2, <2>3, StayTable DEF TableStep, Inv
<1>2. CASE ~ (State(p).rejections + 1 < MaxRejections)
  BY <1>2, RemovedTable, LeaveStep DEF Rejected, Dropped
<1>. QED  BY <1>1, <1>2

LEMMA WelcomedTable ==
    ASSUME Inv, Inv', NEW p \in Peers, NEW r \in Request, NEW claim \in Claims, HelloWelcomed(p, r, claim)
    PROVE  TableStep
<1>1. /\ MayHello(p) /\ (JoinsMatch(r) \/ AuthorsMatch(r))
      /\ claim \subseteq SeatsOf(MatchFor(r).contract)
      /\ \A k \in claim \cap DOMAIN owner : owner[k] = p
      /\ sim' = MatchFor(r).sim
  BY DEF HelloWelcomed, Claimable, Keep
<1>2. /\ GoodMatch(MatchFor(r)) /\ sim' \in Run /\ sim'.loaded # "blank"
      /\ SeatsOf(MatchFor(r).contract) \subseteq SeatsOf(sim'.of)
  <2>1. MayHello(p)
    BY <1>1
  <2>2. JoinsMatch(r) \/ AuthorsMatch(r)
    BY <1>1
  <2>. QED  BY <1>1, <2>1, <2>2, MatchForGood
<1>3. claim # {} /\ claim \subseteq SeatsOf(sim'.of) /\ claim \subseteq Seats
  BY <1>1, <1>2, SeatsOfFacts DEF Claims
<1>4. /\ p \notin Players /\ Players' = Players \cup {p}
      /\ peers'[p].seats = claim
      /\ \A q \in Players : peers'[q].seats = peers[q].seats
  BY <1>3, WelcomedPeers
<1>5. sim' # None /\ sim'.of \in Contracts
  BY <1>2, NoneAssumption DEF Inv, Shape
<1>6. TableMatch' = sim'.of
  BY <1>5 DEF TableMatch
<1>7. TableMatch = sim'.of \/ (TableMatch = None /\ Table!Nobody(TableSeated))
  BY <1>1, <1>2, NobodyFacts DEF GoodMatch, TableMatch
<1>8. TableSeated[p] = {} /\ TableSeated' = [TableSeated EXCEPT ![p] = claim]
  BY <1>4 DEF TableSeated
<1>9. \A q \in Peers : TableSeated[q] \cap claim = {}
  BY <1>1, <1>4 DEF TableSeated, Inv, SeatTablesAgree
<1>10. claim \subseteq Table!SeatsOf(sim'.of)
  BY <1>3 DEF Table!SeatsOf, SeatsOf
<1>11. Table!Sit(p, sim'.of, claim)
  BY <1>3, <1>6, <1>7, <1>8, <1>9, <1>10 DEF Table!Sit, TableMatch, TableSeated
<1>. QED  BY <1>3, <1>5, <1>11 DEF TableStep, Table!Next, Seats

LEMMA HelloTable ==
    ASSUME Inv, Inv', NEW p \in Peers, Hello(p)
    PROVE  TableStep
<1>1. PICK r \in Request : \/ HelloResumeFails(p, r)
                           \/ \E claim \in Claims : HelloSeatRefused(p, r, claim) \/ HelloWelcomed(p, r, claim)
  BY DEF Hello
<1>2. CASE HelloResumeFails(p, r)
  <2>1. TableSeated' = TableSeated
    BY <1>2, SameSeats DEF HelloResumeFails
  <2>. QED  BY <1>2, <2>1, StayTable DEF HelloResumeFails, TableStep, Inv
<1>3. CASE \E claim \in Claims : HelloSeatRefused(p, r, claim)
  BY <1>3, MatchForGood, RejectedTable DEF HelloSeatRefused
<1>. QED  BY <1>1, <1>2, <1>3, WelcomedTable

LEMMA SameTables ==
    ASSUME Inv, Inv', peers' = peers, sim # None => sim' # None /\ sim'.of = sim.of
    PROVE  TableStep
<1>1. TableSeated' = TableSeated
  BY DEF TableSeated, Players
<1>. QED  BY <1>1, StayTable DEF TableStep, Inv

LEMMA NextTable == Inv /\ Inv' /\ [Next]_gameVars => TableStep
<1>. SUFFICES ASSUME Inv, Inv', [Next]_gameVars
              PROVE  TableStep
  OBVIOUS
<1>1. ASSUME NEW p \in Peers, PeerStep(p)
      PROVE  TableStep
  <2>1. CASE Connected(p) \/ Overlooked(p)
    <3>1. TableSeated' = TableSeated
      BY <2>1, SameSeats DEF Connected, Overlooked
    <3>. QED  BY <2>1, <3>1, StayTable DEF Connected, Overlooked, TableStep, Inv
  <2>2. CASE Disconnected(p)
    <3>1. CASE p \in DOMAIN peers
      BY <2>2, <3>1, MatchGood, RemovedTable, LeaveStep DEF Disconnected
    <3>2. CASE p \notin DOMAIN peers
      BY <2>2, <3>2 DEF Disconnected, TableStep, TableMatch, TableSeated, Players
    <3>. QED  BY <3>1, <3>2
  <2>3. CASE Expired(p)
    BY <2>3, MatchGood, RemovedTable, LeaveStep DEF Expired, Dropped
  <2>4. CASE Refused(p)
    BY <2>4, MatchGood, RejectedTable DEF Refused
  <2>5. CASE Command(p)
    <3>1. peers' = peers
      BY <2>5 DEF Command, Retire, ReplayRequest, Input, ShopReady, Pause, SaveRun
    <3>2. sim # None => sim' # None /\ sim'.of = sim.of
      BY <2>5, CommandRun
    <3>. QED  BY <3>1, <3>2, SameTables
  <2>. QED  BY <1>1, <2>1, <2>2, <2>3, <2>4, <2>5, HelloTable DEF PeerStep
<1>2. CASE Physics
  <2>. QED  BY <1>2, PhysicsRun, SameTables DEF Physics
<1>3. CASE ServerRestart
  <2>1. sim' = None /\ Players' = {}
    BY <1>3 DEF ServerRestart, Reset, Keep, Players, Empty
  <2>2. Table!Stop
    BY <2>1 DEF Table!Stop, TableMatch, TableSeated
  <2>. QED  BY <2>2 DEF TableStep, Table!Next
<1>4. CASE UNCHANGED gameVars
  BY <1>4 DEF gameVars, TableStep, TableMatch, TableSeated, Players
<1>. QED  BY <1>1, <1>2, <1>3, <1>4 DEF Next

\* Whatever the peers send and however they go, the server keeps the promise of
\* SeatTable: one match at a time, and one player to a seat.
THEOREM Implementation == Spec => ImplementsTable
<1>1. TableStep => [Table!Next]_(Table!seatVars)
  BY DEF TableStep, Table!seatVars, TableMatch, TableSeated
<1>. QED  BY <1>1, TableInit, Invariance, NextTable, PTL DEF Spec, ImplementsTable, Table!Spec

=============================================================================
