# Warblade remake: a TLA+ model and its proofs

The repository is a two-player remake of an arcade shooter. A Rust *lobby server*
lets players find each other; a Godot *authoritative game server* runs one match
and replicates it to the clients; a deterministic *simulation* plays the game; the
*client* renders it, keeps its files and talks to both servers. This directory
holds TLA+ modules of the parts whose correctness depends on the order of events,
their TLC configurations, and theorems that TLAPS checks.

## 1. Inventory

| Part | Code | State | Operations | What makes it hard |
|---|---|---|---|---|
| Session hub | `lobby-server/src/session.rs` | live sessions, account index, lobbies, pending joins, rendezvous entries, all under one mutex | add, remove (with unwinding), send, broadcast | every handler takes the mutex more than once |
| Lobbies | `lobbies.rs` | per lobby: host, joiner, state, running match, host endpoint | create, update, close, list, join request, answer, leave | three parties, a deadline, answers about something that has gone |
| Accounts | `accounts.rs` | accounts table; the session's key and account | auth, register, rename, bind | look-up and bind are separate sections; a second login removes the first |
| Rendezvous | `rendezvous.rs` | nonce -> observed endpoint | observe, expire | a nonce changes hands, pings stop |
| Sweeper | `sweeper.rs` | none of its own | close late joins, expired entries, unreachable lobbies, old rows | races with every handler |
| Matches | `matches.rs` | `matches`, `match_players`, `point_ledger` | start, end (credit), abandon | hub, database, hub again; repeats; crashes |
| Talents | `talents.rs` | wallet, owned nodes, ledger, respec clock, each client's copy | spend, respec, credit, grant, tell the client | a state is read in one section and queued in another; clamping; catalogues change |
| Chat, stats, admin | `chat.rs`, `stats.rs`, `admin.rs` | history rows, counters | send, history, kick, disable, rename, grant | admin acts on a session in the middle of a request |
| WebSocket plumbing | `ws.rs` | a reader and a writer task, a bounded queue between hub and writer | read, dispatch, write, close, clean up | queue full, close lost, writer stuck in a send |
| Game server | `src/server/authoritative_server.gd` | peers, seats, pause, shop readiness, input sequence, event window | hello, input, shop, pause, retire, save, replay, snapshot | reconnects, duplicate and late packets, half-done restores |
| Wire codec, contracts | `src/net`, `src/shared` | none | encode, decode, validate | boundaries |
| Lobby client | `src/online` | socket, handshake stage, pending requests, back-off | connect, handshake, request, expire, drop, reconnect | a completed request resumes its caller inside the code that completes it |
| Session adapter | `src/client/network_session_adapter.gd` | last snapshot and event ids, reconnect timers | join, input, snapshot | reordered and lost packets |
| Client stores | `src/client/*_store.gd` | files | load, save through a temporary file | crash between two file operations |
| Simulation | `src/sim` | the whole match | tick | phase machines, lives, shop, determinism |
| Sprite pipeline | `tools/tripo_pipeline.py` | work directory of each concept, the pack's textures and `pack.json` | gen (paid), render, post, sheet, all, validate | files replaced one after the other; a run stops anywhere; several authors share the pack |
| Level editor and archive | `Parser/scripts` | descriptors, `.lvd` files, `warblade.pac` with `.bak` and `.tmp` | edit (decode, edit, lint, encode), update | a descriptor is found by its base name; the archive is swapped by two renames |
| Content generators | `tools/*_extract.py`, `presentation_manifest.py` | the copied assets, eight sets of generated documents | extract, generate, `--check` | each is made from others; half-written sets |
| Content gate | `tools/validate_content.py`, `Makefile` | none | rebuild and compare, rules | what it forgets to compare |
| Release checks and smoke | `tools/export_*_verify.py`, `source_version_verify.py`, `packaged_runtime_smoke.py`, `src/app` | processes, ready file, heartbeat file | start, probe, beat, stop, kill | crashes, hangs, orphans, deadlines |
| Presentation | `src/client` | | | not state that the rest depends on |

What makes each part correct:

* *Hub and lobbies*: the tables agree with each other after any interleaving (an
  account has one session, a lobby has live members, the seat and the state agree,
  an offer can be honoured), nothing is dropped in silence, nothing waits for ever.
* *Matches*: a match is credited once to each seat or not at all, and does not stay
  open when nobody can report it.
* *Talents*: the balance is what the ledger says, a tree keeps its roots, and the client's
  copy catches up with the server.
* *WebSocket*: addresses are counted right, every session has a task that will take it
  out, and tasks end; a slow client is let go.
* *Lobby client*: online means a finished handshake, a kicked client stays off, no call
  and no attempt hangs.
* *Game server*: a seat belongs to one peer, an ended match stays ended, no level goes on
  unattended, and a match nobody plays goes away.
* *Stores*: a crash leaves the old file or the new one.
* *Sprite pipeline*: the pack is valid at every moment, a model that counts as cached
  was downloaded, and `all` delivers textures of its own model only.
* *Level editor*: a whole archive is always on disk; what is written means what was
  linted; changing nothing changes nothing.
* *Content*: what the gate lets through is what the generators would write now, and
  regenerating in order is enough to pass it.
* *Smoke*: "ok" is about a server that answered and was then told to stop; the smoke
  ends, and nothing is left running.

## 2. Modules

| Module | Models | Uses |
|---|---|---|
| `Hub` | the hub's tables and every critical section that touches them | |
| `MCHub` | the instances behind findings 1 and 2 | `Hub` |
| `HubProofs` | theorems of `Hub` | `Hub`, `TLAPS` |
| `MatchBook` | what match records promise, in three actions | |
| `LobbyServer` | `Hub` composed with the match tables, section by section | `Hub`, `MatchBook` |
| `MCLobbyServer`, `MCLobbyCrowd` | instances of `LobbyServer` for TLC | `LobbyServer` |
| `LobbyServerProofs` | theorems of `LobbyServer` | `LobbyServer`, `HubProofs` |
| `Talents` | wallets, ledger and the copies of them the clients keep | |
| `Outbound` | the two tasks of a connection and the queue between hub and writer | |
| `LobbyClient` | the client's socket, handshake, requests and reconnects | |
| `LobbyPartsProofs` | theorems of `Talents`, `Outbound` and `LobbyClient` | all three, `InductionLemmas` |
| `MCLobbyLive` | fair instances of `Hub`, `Outbound` and `LobbyClient` | all three |
| `MCTalents`, `MCOutbound` | the instances behind findings 5 and 6 | `Talents`, `Outbound` |
| `SeatTable` | what a game server promises to its players, in four actions | |
| `GameServer` | the game server's connections, seats, match and commands | `SeatTable` |
| `MCGameServer` | instances of `GameServer` for TLC | `GameServer` |
| `GameServerProofs` | theorems of `GameServer` | `GameServer`, `TLAPS` |
| `SpritePipeline` | the pipeline's commands as the files they replace | |
| `SpritePipelineProofs` | theorems of `SpritePipeline` | `SpritePipeline`, `TLAPS` |
| `SpriteImage` | what post and sheet do to pixels, as operators | |
| `SpriteImageChecks` | those operators against what they are for | `SpriteImage` |
| `LvdCodec` | the three codecs of level and path files | |
| `LevelEditor` | edit and update, step by step | `LvdCodec` |
| `LevelEditorProofs` | theorems of `LevelEditor` and of the block and path codecs | `LevelEditor`, `InductionLemmas` |
| `MCAssetTools` | instances of both tools for TLC, codec checks | `SpritePipeline`, `LevelEditor`, `SpriteImageChecks` |
| `MCParts` | instances of the parts that stand alone | `MCTalents`, `Outbound`, `LobbyClient`, `MCAssetTools` |
| `SpriteAtlas` | how `sprite_frames.json` is built from the executable, textures and levels | |
| `LevelExtract` | how levels, Time Trial, bonus levels and bosses are built | `SpriteAtlas` |
| `ContentRules` | the rules of `validate_content.py`, one operator per document | |
| `ContentBuild` | assets, generators, edits and `make verify` over time | `LevelExtract`, `ContentRules` |
| `ReleaseChecks` | `presentation.json`, versions, exported executables | `SpriteAtlas` |
| `RuntimeSmoke` | the smoke tool and the processes it starts | |
| `ReleaseProofs` | theorems of `RuntimeSmoke` and `ContentBuild` | both, `TLAPS` |
| `InductionLemmas` | induction and recursion for the other proofs | `TLAPS` |
| `MCContentRelease` | instances of both for TLC, rule and extractor checks | `RuntimeSmoke`, `ContentBuild`, `ReleaseChecks` |

### Hub

The hub is one `Mutex<Hub>`. A handler locks it, works, unlocks it, goes to the
database, and may lock it again. **One action is one critical section**; whatever
other tasks do between two sections of a handler is an interleaving of the model.
A connection's requests are handled one after the other by its reader task, so
`task[s]` says which handler that reader is in the middle of (`auth`, `start`,
`end`) and what it carries, and every request is guarded by `task[s] = NoTask`.
A kick may remove the session while its handler goes on, which is why the last
sections (`BindAccount`, `MatchStarted`, `MatchEnded`) do not assume a live session.

Tables are partial functions whose domain is the set of keys present. `sessions`,
`byAccount`, `lobbies` and `rendezvous` are the fields of `Hub`; `pending` is a set of
records since nothing reads a join's id but its own answer. `remove_session` and
`close_lobby` are state functions (`RemovedLobbies`, `ClosedPresences`, ...) because
four handlers call them inside a larger section. `waiting[s]` is the one variable
the code does not hold: what client `s` was last told about its join requests.

Time is abstract. An endpoint is fresh, stale or expired (`RENDEZVOUS_FRESH_SEC`,
`RENDEZVOUS_EXPIRE_SEC`), a pending join is overdue or not (`JOIN_ANSWER_TIMEOUT_SEC`),
and an action of its own moves it on at any moment. Names, endpoints, ports,
content and game tokens are left out, but for the content hash that the join
guards compare. Rate limits and the flood counter are left out: they only refuse.

### LobbyServer and MatchBook

`LobbyServer` adds the database: `rows` (`matches` with `match_players`), `ledger`
(how often a match was credited to an account), `job` (what a handler carries across
its sections) and `abandoning` (ids that `remove_session` or `close_lobby` handed to
a caller that has not run `db_abandon` yet). `match_start` is three actions
(hub, insert, hub) and `match_end` three or four. The database is locked for a whole
section, so nothing comes between its statements, but only `db_end_match` is a
transaction: an insert that is cut short (`InsertCutShort`) leaves an open row with no
player or with the first. A section that fails returns its error to the client
(`RequestRefused`), also when a wallet cannot be read after the report was booked; the
lobby then stays in its match until the host reports again. `db_abandon` may fail before
the last of its ids (`DbAbandonFails`): its callers log the error, ignore it or return it,
and the ids are gone. The rows stay open until the hourly maintenance or a restart.
`MatchBook` says in three actions what all this must look like from
outside: a match opens once, then ends once with its credits in the same step, or
is abandoned. `ImplementsBook` is the refinement.

### Talents

**One action is one database section, or one hub section that queues a message.**
`wallet` is a row of `accounts` with its `talent_nodes`, `ledger` the deltas of
`point_ledger`, `grant` the owner's grant between its two statements, with the mutex still
held. A reader that has read the state it will report keeps it in `reply` until it has the
hub; a credit by another task (the owner, or the host's `match_end`) is a record of
`pushes`. A connection delivers in order, so queueing a state is its arrival:
`cached`. `Restart` stops the server anywhere, cuts a grant in two (`torn`) and may load
another catalogue. How many points a match is worth is an input.

### Outbound

The hub's mutex is held over a whole order (answer, say why and close, kick), but writers,
clients and the network go on meanwhile: `hub` is the sequence of calls its holder still
makes. `reader` is where `handle_socket` is (in its loop, behind it, waiting two
seconds for the writer), `writer` the frame being sent. A frame is a text or a close.
`Removed` is `remove_session` seen from here, and is reached twice by a kicked session.

### LobbyClient

`_process` is **one poll, the packets it brought one by one, then one look at the
state**; `polled` says that a frame is between its poll and its look. Resuming a caller is
part of the action that completes its request. That is what makes `Drop` settle twice: a
handshake that waits is failed by the drop, resumes, and drops too. `pending` holds
requests in the order they fall due, and `Expire(k)` is the clock reaching the first `k` of
them. What the server does is external: it answers in order, or not at all, or closes, or
kicks. `bound` and `told` are of the server.

### GameServer and SeatTable

The game server is one thread: **one action is one signal handler, one packet, one
expired handshake or one physics frame**. Interleaving comes from outside, as the
order in which connections, packets, frames and disconnections arrive. `peers` and
`owner` are `_peers` and `_seat_owners`, `sim` the simulation object with the part of
it the server's decisions read, `contract` is `_match_contract`, and `saves` the slots
of the saved-game store, which outlive the process.

A packet is what a peer may send at any time, whatever it was told. Tokens, rates,
sequence numbers and ticks are inputs, so a packet that fails one of these checks is
`Overlooked` (nothing but the peer's entry) or `Refused` (a strike before its HELLO,
and a drop at the last one). A HELLO is one of `HelloResumeFails`, `HelloSeatRefused`
and `HelloWelcomed`; what it configures on the way is part of the action, as
`MatchFor`. A dropped peer is `closing` until ENet signals its disconnection: its
packets may still be queued, and `_ensure_peer` takes it for a new one.

The simulation's phases are four: shop, credits, over (complete or game over), and
play for all the others. `held` are the seats whose input mask is not 0, `ready` the
seats done shopping. A restore is refused in three places, and each leaves another
simulation behind (`RefusedRun`). Before `configure` it is `blank`: it has no content hash
and no HELLO passes. Inside `configure`, after the content was loaded (730) and before
`_configured` is set (1061), it is `half`: a HELLO without a request is welcomed to a
simulation that takes no step and no command but a retirement. After `configure` it is
`partly` restored, and plays. Seats are checked against no contract then, so only
seat 0 can be had. `Stepped` gives the phases a frame may lead to; what happens in a level is left
to chance.

`SeatTable` says what this must look like from outside: a match is chosen while nobody
is seated, stays while anybody is, and each seat of it has one player at most.

### SpritePipeline and SpriteImage

Nothing is kept in memory between two runs of the tool, so the state is files: `work`
(model, `meta.json`, frames and finished frames of each concept), `textures` and
`manifest` (`pack.json`). **One action is one file replaced, or one read that a later
write depends on.** An image is abstracted to the set of models it was made from: a
number is the generation (each is paid for), `Override` a file given with `--glb`.
`Stop` ends a run between any two steps, which stands for exceptions, failed requests
and kills alike. A shot of `RenderShot` or `PostShot` may be done in part; its frames
are then of two models. The pixels are `SpriteImage`'s: scaling, quantizing, cleanup,
outlines, palettes, sheets. PIL, colorsys and the renderer are parameters of it.
`RetailKeys` are the manifest's textures: `sheet` asks only whether a key is there and of the
sheet's size, `validate` whether it is a texture, and that the entries the concepts name are
textures, and no hit masks, is assumed.

### LevelEditor and LvdCodec

A level is a sequence of words in sections (`Layout`); the codec is applied, not
abstracted, since what the properties ask is whether it gives words back. `edit` is
`ReuseDescriptor` or `DecodeEntry` and `WriteDescriptor`, then the author's changes,
`LintAndEncode` and `WriteLevel`; `update` is `OpenArchives` ... `InstallArchive`. A
plain write that is stopped leaves `Torn`. `update` does not look into the level it
installs, so the archive may hold a torn one; the decoder takes it as it is and makes a
descriptor without some of its sections, which the linter refuses (`Decoded`). `Lints` are
the linter's errors and the schema's: every section of its size, the shop inventory with
all its entries, at most `MaxNames` names that end in `.bmp`, signature and record size of the
shop header. That words are int32, and what the fields are called, is fixed. At most one
`update` runs at a time, and one
`edit` per descriptor: the code locks neither, and two would overwrite each other. What an
archive's name holds is a record (`NoPac`, `TornPac`, `Pac`), so that a torn file is never
mistaken for an archive. `EncodeLvd` refuses what `encode_lvd` and `struct.pack` refuse: a
section of another width, a record that is not as many integers as a block has words, a
block behind the last. That the archive can be recovered is said of its directory: every
level of it is there by name. `inventory` says whether a descriptor has a shop inventory at all:
the decoder writes none when the chunks hold no words, and the encoder then leaves the
chunks as they are, while an inventory that an author emptied clears them. `WellFormed`
is what the decoder makes of any level: every field, integers in the sections, names
without control characters and nothing but those in the padding.

### ContentBuild, LevelExtract, SpriteAtlas, ContentRules

The content of a generated file is the revision of the tool that made it, its version,
what it was made from and what a hand did to it. People edit facts, allowlist, assets,
tools and documents, or check out older content; generators read their inputs at once
and replace their outputs one by one; `make verify` is nine steps. One command runs at a
time, and edits come in between its steps. `settled` (which generators have been run,
in order, since the last edit) is the one variable the code does not hold.
What the generators make of the retail files (`LevelExtract`, `SpriteAtlas`) and what the
gate asks of it (`ContentRules`) are operators, tried on small documents by assumptions
that TLC evaluates: a whole campaign that passes extraction, rules, bonus modes and
bosses, and the same one spoilt in one place, which does not.

### RuntimeSmoke and ReleaseChecks

The tool, the client and the server are three programs that meet in two files and
signals. Seconds are counted (`Tick`), and everybody who is due acts before the next. The
heartbeat is the file's content; `age` is how long the server has seen it unchanged,
`gap` how long its own monitor has not run. The server under test may crash or hang, and so
may client and probe; the tool may be killed. The parent of a server is the tool or the client.

## 3. Runs

| Run | Bounds | Question |
|---|---|---|
| `lobby_crowd` | crowd: 3 connections, 3 accounts, 1 lobby. matches: 2 connections, 2 accounts, 2 matches, handlers one at a time (`OneAtATime`), content announced before the login (`Announced`), database calls may fail | do the hub's tables agree after any interleaving (three are needed: a host, a joiner and a third who asks, takes over or is kicked), and does a lobby run only its own host's match? |
| `lobby_live` | 2 connections with joins and no nonces, or with 2 nonces and one of them signed in; one connection's tasks; one client with one caller | is every join resolved, does the lobby of a host that stopped pinging leave the list, does a rendezvous entry outlive its session or nonce (two nonces let one be swapped and one be taken over), do tasks, calls and attempts end? |
| `lobby_server` | 2 connections, 2 accounts, 2 lobby ids (1 at a time), 1 match | is each match credited once, is one that was handed back closed (if the calls that abandon it succeed), and does the server implement `MatchBook`? |
| `game_server` | 2 peers (`MAX_CLIENTS`), solo and co-op, 1 slot, 2 strikes | do seats, match and simulation stay consistent, does the server implement `SeatTable`, and does a match nobody plays go away (fair deadlines)? |
| `parts` | tools: 2 authors, 3 concepts (an enemy, two procedural sheets), 2 generations, 3 runs; 2 users, 2 levels of one base name, 1 edit, 3 runs. wallets: 1 account, 2 nodes, 2 catalogues, 4 ledger rows, 2 pushes. tasks: 2 connections of one address, queues of 1. client: 2 callers, 2 delays | is the pack always valid and what `all` delivers of one model; does an archive survive, and does an edit mean what was linted; does the ledger explain the wallet; are addresses counted and sessions read; does online mean a handshake, and a kick the end? |
| `content_release` | 2 edits of any kind, or 2 late monitor callbacks | does the gate miss anything, does regenerating in order satisfy it; is the smoke's verdict right, and does everything end? |
| `hub_one_lobby` | violated | may a player be in two lobbies? |
| `hub_presence` | violated | may a presence name a lobby that is gone? |
| `lobby_server_lost` | violated | may the id of an interrupted match be lost? |
| `game_server_resume` | violated | does a failed resume leave the lobby idle? |
| `talents_cached` | violated | has the client the wallet the server has, once all is delivered? |
| `outbound_slow` | violated | is a client whose queue was full disconnected? |

The number of connections, lobbies and rows is bounded by the sets of the `.cfg`
files. `Announced` leaves out players who log in before their hello has named their content: they
can host or join nothing. `OneAtATime` keeps two connections from being between the sections of a match
report at once, which `lobby_server` does explore with one match; two matches would not end
without it. `lobby_live` has no matches (`MatchIds` is empty): none of its properties is
about one, and matches reported and ended are in `lobby_crowd`.
`MaxRejections` is 2 instead of 4: the last strike and one before it. The ids of one kind
are interchangeable, so the runs that check no liveness use symmetry.
A public host has room for four peers; what a third one does to
two seated ones is left to the theorems, which hold for any number.

*Parts.* `parts`, `content_release`, `lobby_crowd` and `lobby_live` each explore programs,
or uses of one program, that share nothing here: a behaviour exercises one of them, which
keeps the sum, not the product, of their states. In `parts` two people are the authors,
users, connections and callers, so that one exchange serves all. `MaxRuns` and `MaxStarts`
are 3 (one run that stops, one that is stopped by it or goes on beside it, one that
finds what both left), `MaxTasks` 2 (a generation and the one that replaces it), `MaxEdits`
of the editor 1 (each kind of change by itself) and of the content 2 (a change and its
partial undoing, or an interruption), `MaxStalls` 2. `MaxLedger` 4 leaves room for a
credit, two purchases and their refund, `MaxPushes` 2 for two tasks that overtake each
other. A queue of 1 is full with one frame, and one of 2 (`lobby_live`, `outbound_slow`)
holds a text and its close. `LastDelay` 1 tells a first attempt from a later one. The
timeouts of the smoke are scaled to a few seconds; their order is kept, and so is
`ShutdownTimeout > Stale`, the assumption the verdict rests on. Deadlock is not checked in
`parts` and `content_release`: when the bounded runs are used up, or the smoke is over,
nothing more happens.

*Fairness.* `Sweep` is weakly fair because its task loops for ever on a timer
(`sweeper.rs` `run`), and so are the passing of a join's deadline and the ageing of each
nonce's endpoint, because they are the clock; a ping makes an endpoint fresh again, as
often as it likes. `UnreachableClosed` starts from a host whose endpoint was fresh when the lobby
was created or updated (`host_public`) and is so no longer: entry stale, expired or gone. It
says that the host pings again, or the sweeper expires the entry and closes the lobby. A lobby
whose host was never observed has no `host_public`, and the sweeper does not look at it. A task
that holds ids to abandon goes on to its database call, and in `HandedBackIsClosed` the call
succeeds (`LSFairSpec`); `lobby_crowd` and the theorems are about `LSNext`, where it
may fail. `Expired` is weakly
fair because `poll_network` looks at the handshake deadlines in every frame. Nothing is
assumed of clients, the owner or the network. Behind a connection (`OutboundFairness`),
whoever holds the hub's mutex goes on, and nobody waits for it for ever (strong fairness of
`CleanUp`: `std::sync::Mutex` promises no order, but no section waits inside, and the
mutex is free most of the time); the idle timer of a session
that was removed fires in the end; a task that can run does. Of the client nothing is
assumed, so a writer may wait in a send for ever, as `WriterEnds` says. In the lobby client
(`ClientFairness`) frames and the clock go on, and a closing socket closes; nothing is
assumed of the server. In the smoke, seconds pass, the tool
goes on, a serving server looks at its heartbeat and a client that lives beats and
reports; nothing is assumed of a process that crashed or hangs.

### Findings

1. *A player in two lobbies* (`hub_one_lobby`). The guards of `lobby_create` and
   `lobby_join_request` read the session's presence only. A host that reports a solo
   match has presence `InMatch` without a lobby, and `Idle` at its end, while its
   lobby is still listed; it can host again or be seated elsewhere.
2. *In a lobby that is gone* (`hub_presence`). The second hub section of `match_start`
   sets the presence to `InMatch` of its lobby even when it finds that lobby closed.
3. *A match nobody abandons* (`lobby_server_lost`). `bind_account` removes the older
   session, then fails because its own session was kicked; the ids that removal
   handed back are dropped. `MatchHandedBackUnlessGone` shows that this is the only
   path that loses them before the database call; a call that fails loses them too.

4. *A lobby that is not idle* (`game_server_resume`). `_resume_saved_run` replaces the
   simulation before `restore_shop_save` accepts the save, and `_handle_hello` returns
   without the reset its sibling branches make. Until a peer is dropped or expires the
   lobby refuses every other match; `LobbyReturns` shows that it does recover. When
   `configure` is what refused, a HELLO without a request is welcomed to a simulation that
   plays nothing; `PlayersHaveMatch` says that only a failed resume leaves a player so.

5. *A copy that stays behind* (`talents_cached`). The state for a reply or a push is read in
   one section and queued in another. A credit between `bind_account`'s two sections finds
   no session to tell, and an older state may be queued behind a newer one; the client
   keeps what arrives last. The next reply or push puts it right.
6. *A slow client that stays* (`outbound_slow`). `send` answers a full queue with a close frame
   on the same full queue, and ignores its refusal. The text is lost and nothing is closed.

What else the models pinned down, which no run reports as an error:

* The rebuild comparisons of `validate_content.py` are tied to frames of version 10 and
  bosses of version 4 (lines 1607 and 1781), which no generator writes any more. That
  stale frames or bosses do not pass is due to `sprite_atlas_test.py` and `--check`
  alone; `VerifyMeansFresh` fails without them (its mutant).
* A socket lost during the lobby handshake is dropped twice (`lobby_client.gd` 386, then 413 or
  423), and each drop schedules a reconnect (389): the first failed attempt waits the
  second delay. `OnlineMeansHandshaken` holds through the drop inside the drop.
* When a time-out of the handshake's request and another fall in one frame, the first drops
  the socket and clears `_pending`, and the loop reads an entry that is gone (458). No call
  hangs by it (`NothingHangs`), as the drop has failed them all.
* A stop between the two statements of the owner's grant leaves points without a ledger
  row; `LedgerExplainsWallet` shows that nothing else does.
* Levels of versions 8 and 9 can no longer pass the gate with rebuilt companions.
* Extraction never deletes an asset: after a removal from the allowlist the gate refuses
  until somebody deletes the file, the one exception `RegenerateConverges` makes.
* The allowlist is read when the extraction starts, its digest when it ends.
* A gap between resource slots passes the level extractor and is refused by the rules.
* `silhouette_iou` says that fully opaque references fall back to luminance; only fully
  clear ones do. A check of `SpriteImageChecks` pins what it computes.
* The first frame of an explosion sheet is empty, and the cleanup filter never removes a
  lone pixel in a corner.
* A generation that was submitted and not yet downloaded is paid for again: nothing
  remembers its task.
* The client smoke has no limit on reading the output of a client it has terminated:
  `SmokeEnds` holds but for a sidecar that hangs while it starts. One that hangs later
  would hold the output open in the same way; fairness leaves it out, since a server that
  serves is taken to keep running its frames.

## 4. Proofs

`HubProofs` proves, for any finite sets of connections and lobby ids and any sets of
accounts, nonces and hashes, that `Hub`'s safety invariants hold:
`THEOREM Invariance == Spec => []Inv`, and from it `TypeCorrect`, `AccountsBoundOnce`,
`LobbiesHaveLiveMembers`, `SeatsTellState`, `OffersAnswerable`, `OneOfferAtATime`,
`JoinsNotDropped`, `EndpointsOwned`.

The only assumption is `HubAssumption`: the absent value is none of the ids, and the
two limits are numbers.

The invariants are not inductive one by one. `Inv` is their conjunction, with
`AuthTasks` added: a reader in the middle of a login has looked up an account, and its
session has none yet. Without it `BindAccount` could overwrite an account that
`by_account` still maps to the session. The parts lean on each other:
`PendingAnswerable` needs `SeatMatchesState` (a request is only taken for an open lobby,
which then has a free seat), `JoinAccept` needs `PendingAnswerable` (so its refusals are
never taken), and `NoSilentDrop` needs `OneOfferPerLobby` (settling one join settles
all that this player has at that lobby).

The proof has one lemma per action. Lemmas on the tables' operators (`Put`, `Drop`,
`SetPresence`, `Vacated`, `Told`) come first, then one lemma for each part of the
invariant under `remove_session`, under `close_lobby` and under a step that leaves
the members of lobbies alone.

`LobbyServerProofs` proves, under the same assumption and for any set of match ids, that
the database keeps its books: the types (`LSTypeCorrect`), that
the ledger agrees with the rows (`CreditsMatchRows`), that a lobby's match is its host's
(`MatchesBelongToHosts`), `RowsAreFinal`, `HandedBackUnlessGone` and the refinement of
`MatchBook` (`KeepsTheBook`). `ServerIsHub` shows that every section is a step of `Hub` or
leaves it alone, so the theorems of `HubProofs` hold of the composed server too, and its
proof uses their `Inv`.

`RunningMatchIsHosts` says nothing of a match that has a row and no lobby yet. `LSInv` adds
what a `match_start` may rely on between its sections: while the lobby it was sent for
exists, its reader still hosts it with the account it started with (`StartsOwnLobby`), and
the row it has inserted is that account's and no lobby's or other handler's
(`RowIsItsOwn`). `SteadyLobbies` is what all other sections keep of that: a lobby never
changes hands, an account that is bound stays bound until its session goes, and a fresh
lobby id is one that no waiting handler remembers. Each hub section is shown to be
steady, and `LinksKept` does the rest.

`GameServerProofs` proves, for any set of peers, contracts and slots, its
invariants (the four that the `game_server` run checks, the types, and `LobbyLeftClean`),
two action properties (`LiveMatchAlwaysKept`, `MovesAreAttended`) and the refinement of
`SeatTable` (`Implementation`). The assumptions are `GameAssumption` and `NoneAssumption`: null is
no peer, contract, slot, run or save.

`PlayersAlwaysHaveMatch` says that a match that was agreed on is configured, wholly restored
and the one its players sit in. Where none was agreed on, the simulation is what a failed
resume left, half configured or restored in part, and seat 0 is all a player can have.

Its `Inv` adds `Shape` to the checked invariants: the contract is the one the simulation
was made of or none, a simulation that is whole has one and any other has none, a blank one
has nothing at all, and a shop has a seat that is not ready. Without it
`SaveRun` could write a save nobody can make, and
`HelloWelcomed` could seat a player in a seat the simulation does not play. A
handler that drops a peer runs on a match that it has just made or has found, so
the lemmas speak of any `GoodMatch`; `RemovedInv`, `KnownInv` and `RunInv` then cover
all actions but `HelloWelcomed`, which has a proof of its own. In the refinement every
removal is a `Leave`, a match made for nobody is a `Choose`, and a welcome is a `Sit`.

`SpritePipelineProofs` proves, for any authors, concepts, keys and number of generations,
that the files are well typed, that every entry of `pack.json` is valid (`PackValid`),
that `meta.json` never runs ahead of the model (`CacheIsReal`), and that an "all" which
returns 0 leaves every texture made of the model it was about (`AllDelivered`). The
assumptions are `PipelineAssumption`, that the absent value is no concept and no generation
and that shots and keys are sequences, and for `AllDelivered` `KeysAssumption`: each concept
names a key and no two name the same. The concepts in `tools/sprite_concepts` are so, but
the tool does not see to it: with a shared key another run could paint over a texture while
"all" is at the next one. The inductive invariant says what a run holds between two steps (`Busy`): a
task in flight is not older than what is on disk, textures up to the current key are
written, and every key of the manifest it has read still has its file, as textures are
never removed. `OneRunEach` keeps two runs from sharing a work directory; without
it a run could meet an older model than its own. `StepInv` reduces each action to the run
that takes it. `Carried` is what "all" hands from command to command: every frame before
the current shot is of its model when it renders, every finished frame before the current
one when it posts, the sheet in memory and every texture before the current key when it
writes. That covers what an earlier run has left half done, because each command goes over
all the shots, or all the keys, before the next begins. `WithinKeys` keeps a run from
writing a texture outside its concept's keys, which `CarriedOn` needs of the others.

`LobbyPartsProofs` has the parts of the lobby that stand alone.

* *Connections*, for any finite set of them, any addresses and limits: queues never exceed
  their capacity (`TasksTypeCorrect`), an address is counted by its sessions
  (`AddressesCounted`) and every session has a reader (`SessionsAreRead`). The three are
  inductive together: `Connect` counts up for a connection that is not in the table only
  because a connection in it would still have its reader.
* *Wallets*, for any catalogues (`CatalogAssumption`), deltas (`DeltaAssumption`) and length
  of ledger: a tree keeps its roots (`TreesAreRooted`), and reading an account's rows in
  order gives its points (`LedgerIsComplete`). `LedgerInv` adds that a grant's wallet is
  one step ahead of its ledger between the two statements (`GrantAhead`), that grants wait
  for one another, and that a wallet owns finitely many nodes: a respec refunds what they
  cost, a sum over a set. `SubsetRecursion` gives that sum a value.
* *Client*, for any callers but the three reserved names (`ClientAssumption`): online means
  a handshake that is over (`OnlineIsHandshaken`), and a kick is the end
  (`KickedClientsStayOff`). Neither is inductive. `ClientInv` adds which of the two requests of
  the handshake may be in flight at each stage (`HandshakeInOrder`), that it is either on
  its way or answered, once (`OneAnswer`), and that a kick comes after the welcome
  (`Welcomed`): only then can no answer of an old handshake sign a kicked client in.

`LevelEditorProofs` proves, for any layout (`LayoutAssumption`), any shipped archive of whole
levels (`ArchiveAssumption`), any `StemOf` and any number of users, entries and runs:

* `ArchiveNeverLost`, from `EditorInv`: what is torn is only ever at `.tmp`; while an update
  copies, the old archive is whole, while it retires it both are, and before it installs
  the new one is.
* `WrittenWasLinted` and `UntouchedIsReencoded`, from `DraftInv`: no two runs of edit have one
  descriptor, a run that decoded afresh and saw nobody save has its own level's in front of
  it, and what is about to be written encodes what was linted.
* `RoundTrip`: a level whose names are in the form the decoder keeps is the same after
  decoding and encoding, unless that is refused. The decoder of names is followed byte by
  byte (`Scanned`: what was read so far is what the entries spell, then padding, then the
  name underway), the shop inventory through its regrouping (`TablesBack`, `ChunksBack`), and
  the blocks one by one (`BlockBack`). `EncodedIsLevel` is the converse: whatever an author
  writes, what is encoded without an error is a level.
* `UntouchedGivesBack` is `UntouchedIsUnchanged`, from `DraftInv`, `RoundTrip` and `LevelsInv`:
  archives, outputs and runs hold only levels, or what is torn, and what is torn makes a
  descriptor that never passes the linter.
* `WritesWhatWasLinted` is `WrittenMeansLinted`, from `DraftInv` (what is written encodes what
  was linted) and `FormInv` (what was linted is well formed, which `DecodedIsWellFormed` keeps
  true of fresh descriptors). It rests on `EncodedMeansSame`: the sections come back from
  their blocks (`SectionsWritten`), the names from their bytes, entry by entry (`NamesAgain`),
  and the inventory from the chunks it was cut to (`ChunksFilled`). Its hypothesis
  `ChangesKeepForm` is about authors, and the claim is false without it: the linter lets a
  control character into a name and a printable one into the padding, where the decoder
  reads another name. The instance's changes keep to it (`MCAssetTools`).
* `PathRoundTrip` and `PathMeansSame`: the path codec gives a file back word for word, and
  encodes a document only as a file that decodes to it, for any number of slots.

`ReleaseProofs` proves of the smoke, for any timeouts with `ShutdownTimeout > Stale >= 2`
(`SmokeAssumption`), that "ok" is about a server that answered, was told to stop and has
left (`OkIsAnswered`) and that a parent that beats is never taken for gone
(`BeatingParentIsSeen`). `SmokeInv` adds how old what the server has seen may be
(`SeenLately`: of this second, or of the last while the parent is still to act) and where a
request to stop is until it is heard (`ToldOrHeard`). Of the content gate it proves, for any
assets, revisions and number of edits, that what `make verify` lets through is what the
generators would write (`VerifiedIsFresh`), and that running every generator in order is
enough to pass it (`RegeneratedPasses`). `RefusalAssumption` says that the value that stands
for an error is no document. `ContentInv` adds what a settled generator has written
(`SettledOk`), what one that runs since then still has to write (`CleanOk`), that one that
runs otherwise is read by nothing settled (`UncleanOk`), and that a gate's passed steps
still pass while nothing changes (`GateOk`).

*Induction over data.* The library states induction for a predicate and recursion for an
operator, which the provers cannot be given. `InductionLemmas` states both for sets and
functions (`Counting`: a set of numbers with 0 and every successor has them all; `Recursion`:
a function that is chosen by an equation at each number satisfies it; `SubsetRecursion`: a
fold over finite sets), and derives them from well-founded induction. Definitions
the proofs meet are written as recursive functions: `Replay`, `NameOf`, `DecodeNames`,
`ShopChunks`, `Followed`. What they compute is proved by counting up a set such as
"the lengths at which this holds". `FlattenSeq` of the community modules is reached the
same way.

Some theorems state what no run of its own checks, because a checked property implies it or
needs it: the type and inductive invariants, `SeatMatchesState`, `RowsFinal`, `LiveMatchKept`,
`NoMatchLeftBehind`, `RunningMatchIsHosts` and the theorems of the codec. `MatchesAreHosts`,
which `lobby_crowd` checks where there are rows, follows from it (`CrowdMatchesAreHosts`).

Only model-checked:

* Liveness.
* The pure operators of `SpriteImage`, `LevelExtract`, `SpriteAtlas`, `ContentRules`,
  `ReleaseChecks` and the lossless level codec, over the small inputs of the assumptions.

## 5. Not modelled

* *Presentation* (renderer, audio, HUD, screens): drawing and sound, no state the rest reads.
* *Session adapter, client stores, chat, statistics*: not reached. The adapter comes first
  in a continuation: snapshots and events as it receives them. A connection that is refused
  before it has a session keeps no state.
* *Simulation*: movement and collision are arithmetic over large ranges, out of TLC's
  reach; of its phases only what the server's decisions read is modelled.
* *Field parsing and formatting, rate limits*: they only refuse; abstracted to guards.
* *Runtime-fact extractors* (`ordnance_contract_extract.py`, `difficulty_rules.py`,
  `weapon_runtime_extract.py`, ...): they compare bytes at fixed addresses with
  literals; a model would be the literals.
* *The game server's* chat, punching, rendezvous keep-alives and its snapshot feed: they
  change nothing `GameServer` reads.
* *What a service, a renderer or an image library computes*: external, as far as the
  code relies on it.

## 6. Where to go on

1. `GameFeed`: snapshots and buffered events of the game server composed with the
   session adapter that receives them; what a client may miss.
2. Client stores: replacing a file with a crash at any step.

Theorem worth proving next: that `EncodeLevel` gives back what `DecodeLevel` was given.
