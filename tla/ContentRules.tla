---------------------------- MODULE ContentRules ----------------------------
(***************************************************************************)
(* tools/validate_content.py: the rules the shipped JSON content must      *)
(* obey, one operator per document and one per table of pinned facts.      *)
(*                                                                         *)
(* A document is a record of the fields the rules relate; that a field is  *)
(* there and has its type is not modelled.  Retail is what the retail game *)
(* has: Retail.level[id] has the pinned fields of a level.                 *)
(***************************************************************************)
EXTENDS Integers, Sequences, SequencesExt, FiniteSets, FiniteSetsExt, Functions, TLC

Ids(items) == [i \in DOMAIN items |-> items[i].id]

Numbered(items, first, n) == Ids(items) = [i \in 1..n |-> first + i - 1]

\* A rectangle <<x, y, width, height>> within a sheet.
Inside(rect, width, height) ==
    /\ \A i \in 1..4 : rect[i] >= 0
    /\ rect[3] > 0 /\ rect[4] > 0
    /\ rect[1] + rect[3] <= width /\ rect[2] + rect[4] <= height

----------------------------------------------------------------------------
(* weapons.json, bonuses.json, shop.json *)

WeaponsOk(d) ==
    /\ d.version = 1 /\ d.autoFireDelay = 100 /\ d.superAutoFireDelay = 25
    /\ Numbered(d.weapons, 0, 9)
    /\ \A w \in Range(d.weapons) :
         /\ w.damage >= 1
         /\ w.projectiles # <<>>
         /\ \A p \in Range(w.projectiles) : p.width > 0 /\ p.height > 0
         /\ IsInjective([i \in DOMAIN w.projectiles |-> w.projectiles[i].prototype])

BonusWeights ==
    <<45, 45, 45, 45, 45, 111, 53, 90, 90, 130, 130, 65, 80, 80, 80, 20, 140, 20, 60, 35, 50, 25, 35, 35, 35, 5, 25,
      10, 15, 300, 150, 75, 30, 8, 10, 15, 20>>

BonusRows ==
    <<60, 80, 100, 120, 140, 20, 460, 160, 180, 280, 300, 40, 340, 320, 360, 240, 380, 400, 260, 420, 0, 500, 520, 540,
      560, 660, 440, 200, 480, 600, 580, 620, 640, 220, 700, 680, 720>>

\* Only the bonuses 12 to 14 may be rolled again, below a progression.
RerollGate(id) == IF id \in 12..14 THEN <<50, 150, 300>>[id - 11] ELSE -1

BonusesOk(d) ==
    /\ d.version = 1
    /\ Numbered(d.bonuses, 0, 37)
    /\ \A i \in 1..37 :
         LET b == d.bonuses[i] IN
         /\ b.weight = BonusWeights[i]
         /\ b.rect = <<0, BonusRows[i], 20, 20>> /\ b.frames = 10
         /\ b.reroll = RerollGate(i - 1)
    /\ d.totalWeight = 2252
    /\ MapThenSumSet(LAMBDA i : d.bonuses[i].weight, DOMAIN d.bonuses) = d.totalWeight

ShopOk(d) ==
    /\ d.version = 1
    /\ Numbered(d.items, 1, 21)
    /\ \A item \in Range(d.items) :
         /\ item.price >= 0 /\ item.threshold >= 0
         /\ item.weapon \in -1..8     \* -1: the item equips none
         /\ item.gate \in {"always", "hit_percent_above_level_25", "all_profile_shields"}

----------------------------------------------------------------------------
(* levels.json *)

LevelCount == <<20, 25, 30, 35, 49, 50, 62, 100, 100, 100>>

ResourcesOk(level, version) ==
    version >= 2 =>
        /\ level.resources # <<>>
        /\ \A i \in DOMAIN level.resources : level.resources[i].slot = i /\ level.resources[i].score >= 0
        /\ level.sprite = level.resources[1].sheet
        /\ level.score = level.resources[1].score

\* A state-13 boss of which the rules allow groups without a path.
BossLevel(id, version) ==
    \/ version >= 2 /\ id = 25
    \/ version >= 6 /\ id = 50
    \/ version >= 8 /\ id \in {75, 100}

Opcodes(id, version) ==
    CASE version >= 8 /\ id \in {75, 94, 100} -> {0, 1, 2, 3, 6, 7}
      [] version >= 2 /\ id = 25              -> {0, 1, 2, 7}
      [] version >= 6 /\ id = 50              -> {0, 1, 2, 3, 7}
      [] OTHER                                -> {0, 1, 6}

GroupOk(group, id, version) ==
    LET least == IF BossLevel(id, version) THEN 0 ELSE 1 IN
    /\ group.delay >= 0 /\ group.stagger >= 0 /\ group.cohort >= 0
    /\ Len(group.enemies) \in 1..50 /\ Numbered(group.enemies, 0, Len(group.enemies))
    /\ \A e \in Range(group.enemies) : e.slot \in least..6 /\ e.health > 0
    /\ Len(group.points) \in least..150 /\ Numbered(group.points, 0, Len(group.points))
    /\ \A p \in Range(group.points) : p.opcode \in Opcodes(id, version) /\ p.duration >= 0

AuthoredOk(a, id, version) ==
    /\ version >= 7 /\ id >= 51 => a.mode \in (IF version >= 8 THEN {1, 2, 3, 4, 6} ELSE {1, 2, 3})
    /\ a.width = 800 /\ a.mirror = ((id \div 100) % 2 = 1)
    /\ Len(a.supplemental) = 5 /\ Len(a.fixed) = 50
    /\ Len(a.groups) \in 1..25 /\ Numbered(a.groups, 0, Len(a.groups))
    /\ \A group \in Range(a.groups) : GroupOk(group, id, version)

\* What the rules compare with the retail game: <<level, field>>, by the
\* version that brought the level in.
EarlyPins(version) ==
    CASE version = 2 -> ({24} \X {"mode", "targets", "shop"}) \cup {<<25, "groupModes">>}
      [] version = 3 -> ({28} \X {"shop", "supplemental"}) \cup {<<30, "scores">>}
      [] version = 4 -> ({32} \X {"shop", "supplemental"}) \cup ({33} \X {"mode", "slots", "scores", "shop"})
                          \cup ((31..35) \X {"targets"}) \cup ({34, 35} \X {"scores"})
      [] OTHER       -> {}

LatePins(version) ==
    CASE version = 5 -> ({36, 40, 44, 48} \X {"supplemental"}) \cup ((36..49) \X {"targets", "sheets", "scores"})
                          \cup ({41, 49} \X {"mode", "shop"})
      [] version = 6 -> {50} \X {"mode", "groupModes", "targets", "supplemental", "sheets", "scores"}
      [] OTHER       -> {}

CampaignPins(version) ==
    CASE version = 7 -> ((51..62) \X {"sheets", "scores", "targets"}) \cup ({53, 57, 61} \X {"supplemental"})
                          \cup ({58} \X {"mode", "shop"})
      [] version = 8 -> ((63..100) \X {"mode", "targets"}) \cup ({75, 100} \X {"groupModes"})
                          \cup ({65, 69, 73, 78, 82, 86, 90, 94, 98} \X {"supplemental"})
      [] OTHER       -> {}

PinnedBy(version) == EarlyPins(version) \cup LatePins(version) \cup CampaignPins(version)

\* The levels with a shop, as the rules list them.
ShopLevels(version) ==
    CASE version >= 8       -> {4 * n : n \in 1..25}
      [] version = 7        -> {4, 8, 12, 16, 20, 24, 28, 32, 36, 40, 44, 48, 52, 56, 60}
      [] version \in {5, 6} -> {4, 8, 12, 16, 20, 24, 28, 32, 36, 40, 44, 48}

\* disk: the raw level files, by level.
LevelsOk(d, disk, Retail) ==
    /\ d.version \in 1..10
    /\ Numbered(d.levels, 1, LevelCount[d.version])
    /\ \A level \in Range(d.levels) :
         /\ level.ordinarySpeed = (IF d.version >= 9 THEN 65536 ELSE 0)     \* 0: not declared
         /\ ResourcesOk(level, d.version)
         /\ level.id \in DOMAIN disk /\ disk[level.id] = level.sha256
         /\ AuthoredOk(level.authored, level.id, d.version)
    /\ \A version \in 2..d.version : \A pin \in PinnedBy(version) :
         d.levels[pin[1]][pin[2]] = Retail.level[pin[1]][pin[2]]
    /\ d.version >= 5 => {level.id : level \in {l \in Range(d.levels) : l.shop}} = ShopLevels(d.version)

----------------------------------------------------------------------------
(* difficulties.json *)

\* Simulation scale, timer adjustment and floor, projectile, base and
\* upgrade speed of easy, normal, hard and ace.
Rates == <<<<6, 400, 300, 210, 252, 48>>, <<6, 200, 200, 258, 240, 42>>,
           <<7, -50, 190, 350, 210, 36>>, <<8, -200, 180, 440, 180, 30>>>>

\* Health of the four special ships and their greatest speed.
Specials == <<<<10, 300, 75, 1500, 3>>, <<16, 350, 100, 1750, 4>>, <<20, 450, 125, 2000, 5>>, <<25, 600, 150, 2500, 6>>>>

\* Lifetime, its range, least and greatest speed and steering of the debris.
Debris == <<<<200, 200, 2400, 3200, 50>>, <<200, 225, 3100, 3800, 40>>,
            <<210, 230, 3300, 4300, 30>>, <<220, 235, 3500, 4800, 20>>>>

DifficultiesOk(d) ==
    /\ d.version = 4
    /\ Ids(d.difficulties) = <<"easy", "normal", "hard", "ace">>
    /\ \A i \in 1..4 :
         LET x == d.difficulties[i] IN
         /\ x.rates = Rates[i] /\ x.specials = Specials[i] /\ x.debris = Debris[i]
         /\ x.timerB = <<x.rates[2], x.rates[3]>>
         /\ x.scaleDenominator = 6 /\ x.speedDenominators = {60}

----------------------------------------------------------------------------
(* sprites.json and sprite_frames.json.  latest is what the extractor      *)
(* builds from the executable and the assets as they are now.              *)

Measures(file, s) == file.tga => file.size = <<s.width, s.height>>

\* disk: the files by path; an image that is not a TGA is not measured.
SpritesOk(d, disk) ==
    /\ d.version = 1
    /\ d.sprites # <<>> /\ IsInjective(Ids(d.sprites))
    /\ \A s \in Range(d.sprites) :
         /\ s.width >= 1 /\ s.height >= 1
         /\ s.texture \in DOMAIN disk /\ Measures(disk[s.texture], s)
         /\ s.mask # "none" => s.mask \in DOMAIN disk /\ Measures(disk[s.mask], s)
         /\ s.hitMask # "none" => s.hitMask \in DOMAIN disk /\ disk[s.hitMask].bytes = s.width * s.height

FrameCounts == [directional_32 |-> 16, formation_animation_32 |-> 6, supplemental_large_animation_64 |-> 7]

LayoutOk(d) ==
    /\ d.version \in 2..11
    /\ d.mirrorTable = [i \in 1..16 |-> (i + 7) % 16]
    /\ \A family \in DOMAIN FrameCounts :
         /\ Len(d.families[family]) = FrameCounts[family]
         /\ \A f \in Range(d.families[family]) : Inside(f.rect, 576, 96) /\ f.hit = f.rect
    /\ Ids(d.fighters) = <<"fighter1", "fighter2">>
    /\ \A fighter \in Range(d.fighters) :
         fighter.frames = [i \in 1..11 |-> <<40 * (i - 1), 0, 40, 27>>]

\* Follow the shots a shot turns into, from those a weapon fires; every one
\* of them must be in the catalogue.
Followed(frames, fired) ==
    LET follow[shots \in SUBSET (fired \cup {frames[p].next : p \in DOMAIN frames})] ==
            LET next == {frames[p].next : p \in {q \in shots : q \in DOMAIN frames /\ frames[q].next >= 0}}
            IN  IF next \subseteq shots THEN shots ELSE follow[shots \cup next]
    IN  follow[fired]

ClosureOk(frames, weapons, captive) ==
    LET fired == {p.prototype : p \in UNION {Range(w.projectiles) : w \in Range(weapons)}} \cup captive
    IN  DOMAIN frames = Followed(frames, fired)

ShotsOk(frames) ==
    \A p \in DOMAIN frames : Inside(frames[p].rect, 672, 100) /\ frames[p].hit = frames[p].rect

\* Sheets, as <<version, index>>: how many each version of the catalogue added.
SheetsAdded == [v \in 2..8 |-> <<5, 8, 4, 2, 5, 6, 9>>[v - 1]]

SheetsUpTo(version) == UNION {{v} \X (1..SheetsAdded[v]) : v \in 2..version}

ExpectedSheets(version, latest) == IF version >= 9 THEN latest.sheets ELSE SheetsUpTo(version)

SheetsOk(d, latest, disk) ==
    /\ d.sheets = ExpectedSheets(d.version, latest)
    /\ \A sheet \in d.sheets : sheet \in DOMAIN disk /\ disk[sheet].bytes = 576 * 96

UsageCount == [v \in 2..11 |-> <<20, 25, 30, 35, 49, 50, 62, 100, 100, 100>>[v - 1]]

\* How many levels in a row use sheets of the same version.
UsageRuns == [v \in 2..8 |-> <<20, 5, 5, 5, 14, 1, 12>>[v - 1]]

UsageOk(d, latest) ==
    /\ Numbered(d.usage, 1, UsageCount[d.version])
    /\ d.version >= 9 => \A i \in DOMAIN d.usage : d.usage[i].sheet = latest.usage[i].sheet
    /\ d.version >= 3 => \A level \in Range(d.usage) :
         /\ level.resources # <<>>
         /\ \A i \in DOMAIN level.resources :
              level.resources[i].slot = i /\ level.resources[i].sheet \in ExpectedSheets(d.version, latest)
         /\ level.resources[1].sheet = level.sheet

\* The levels where supplemental ships appear, once for each of their records.
LinkageLevels(version) ==
    <<3, 7, 11, 15, 19>> \o
    (IF version >= 3 THEN <<23>> ELSE <<>>) \o
    (IF version >= 4 THEN <<28>> ELSE <<>>) \o
    (IF version >= 5 THEN <<32>> ELSE <<>>) \o
    (IF version >= 6 THEN <<36, 36, 40, 44, 48>> ELSE <<>>) \o
    (IF version = 8 THEN <<53, 53, 57, 61>> ELSE <<>>)

TerminalLevel(version) ==
    CASE version = 4 -> 28 [] version = 5 -> 32 [] version = 8 -> 61 [] OTHER -> 48

LinkagesOk(d, latest) ==
    LET expected == IF d.version >= 9 THEN latest.linkages ELSE LinkageLevels(d.version) IN
    /\ [i \in DOMAIN d.linkages |-> d.linkages[i].level] = expected
    /\ d.version >= 4 =>
         /\ \A l \in Range(d.linkages) : l.phases \in 1..7 /\ l.fixed = l.phases
         /\ Last(d.linkages).level = (IF d.version >= 9 THEN Last(latest.linkages) ELSE TerminalLevel(d.version))

\* The sheets whose projectile masks are pinned: all that are listed, but
\* for those that came in after this version.
MaskedSheets(version) ==
    UNION {{v} \X (1..SheetsAdded[v]) : v \in {2, 6, 7, 8}}
        \ UNION {{v} \X (1..SheetsAdded[v]) : v \in {u \in {6, 7, 8} : version < u}}

ReachableLevels(version) ==
    CASE version = 3 -> {3, 7, 11, 15, 19, 23}
      [] version = 4 -> {3, 7, 11, 15, 19, 23, 28}
      [] version = 5 -> {3, 7, 11, 15, 19, 23, 28, 32}
      [] version = 8 -> {3, 7, 11, 15, 19, 23, 28, 32, 36, 40, 44, 48, 53, 57, 61}
      [] OTHER       -> {3, 7, 11, 15, 19, 23, 28, 32, 36, 40, 44, 48}

MasksOk(d, latest, Retail) ==
    /\ DOMAIN d.masks = ExpectedSheets(d.version, latest)
    /\ IF d.version >= 9 THEN d.masks = latest.masks
       ELSE \A sheet \in MaskedSheets(d.version) : d.masks[sheet] = Retail.masks[sheet]

ReachOk(d, latest) ==
    /\ d.version >= 3 =>
         d.reachable = (IF d.version >= 9 THEN latest.reachable ELSE ReachableLevels(d.version))
    /\ d.version = 10 => d = latest

----------------------------------------------------------------------------
(* The other documents. *)

PathsOk(d, rebuilt) ==
    /\ Numbered(d.paths, 0, 14)
    /\ \A i \in 1..14 :
         LET path == d.paths[i] IN
         /\ path.file = i /\ path.selector \in 1..3
         /\ Len(path.points) = path.active /\ path.active \in 0..150
         /\ \A p \in Range(path.points) : p.opcode \in {0, 1, 6} /\ p.threshold >= 0
    /\ d = rebuilt

\* The rules of mode 3 are those of level 8 without what is the level's own.
Without(f, key) == Restrict(f, DOMAIN f \ {key})

BonusModesOk(d, aliases, rebuilt) ==
    /\ d.modeThree.levels = aliases
    /\ d.modeThree.rewards = Without(d.level8.rewards, "authored_enemy_score")
    /\ d.modeThree.timing = Without(d.level8.timing, "shop_rule")
    /\ [i \in DOMAIN d.ranks |-> d.ranks[i].rank] = [i \in 1..20 |-> i]
    /\ \A rank \in Range(d.ranks) : ToSet(rank.cues) \subseteq d.voices
    /\ d = rebuilt

BossIds(version) ==
    <<25>> \o (IF version >= 3 THEN <<50>> ELSE <<>>) \o (IF version >= 4 THEN <<75, 100>> ELSE <<>>)

BossesOk(d, rebuilt) ==
    /\ d.version \in 1..5
    /\ [i \in DOMAIN d.bosses |-> d.bosses[i].level] = BossIds(d.version)
    /\ \A boss \in Range(d.bosses) :
         /\ d.version >= 5 => boss.endlessStep = 100
         /\ boss.mode = 4 /\ boss.state = 13
         /\ boss.traceComplete /\ ~boss.unresolved
    /\ d.version = 4 => d = rebuilt

OrdnanceOk(d) == d.version = 1

\* A node is known by its id; the vocabulary of grants is the contract's.
TalentsOk(d, contract) ==
    LET ids == {node.id : node \in Range(d.nodes)}
        node(id) == CHOOSE n \in Range(d.nodes) : n.id = id
        peel[done \in SUBSET ids] ==
            LET more == {id \in ids \ done : node(id).requires \subseteq done}
            IN  IF more = {} THEN done ELSE peel[done \cup more]
    IN  /\ d.gated = contract.gated
        /\ d.grantKeys \subseteq contract.grantKeys
        /\ IsInjective(Ids(d.nodes))
        /\ \A n \in Range(d.nodes) :
             /\ n.cost >= 1
             /\ IF n.kind = "shop_unlock" THEN n.effect \in d.gated ELSE n.grants \subseteq d.grantKeys
             /\ n.requires \subseteq ids
        /\ peel[{}] = ids

TimeTrialOk(d, facts) ==
    /\ d.clock = <<181000, 241000, 10000>>
    /\ d.enabled = {} /\ d.seats = 1 /\ d.weapon = 0
    /\ Numbered(d.levels, 1, 15)
    /\ \A level \in Range(d.levels) :
         /\ level.fact = facts[level.id]
         /\ ~level.shop
         /\ AuthoredOk(level.authored, level.id, 9)
         /\ level.authored.mode \in {1, 2} /\ ~level.authored.mirror

----------------------------------------------------------------------------
(* The documents together. *)

\* assets: output -> digest; disk has only regular files, no .import.
ManifestOk(manifest, assets, facts, allowlist) ==
    /\ manifest.facts = facts /\ manifest.allowlist = allowlist
    /\ manifest.assets = assets

EvidenceOk(docs, facts) ==
    /\ \A w \in Range(docs.weapons.weapons) :
         LET fact == facts.weapons[w.id] IN
         w.damage = fact.damage /\ [i \in DOMAIN w.projectiles |-> w.projectiles[i].prototype] = fact.prototypes
    /\ \A level \in Range(docs.levels.levels) :
         LET fact == facts.levels[level.id] IN
         /\ level.sprite = fact.sprite /\ level.resources = fact.resources
         /\ level.shop = fact.shop /\ level.sha256 = fact.sha256
    /\ docs.shop.items = facts.shop

\* The versions that go with a version of levels.json; 0: any.
Companions ==
    <<[bosses |-> 0, ordnance |-> 0, frames |-> 2], [bosses |-> 1, ordnance |-> 0, frames |-> 3],
      [bosses |-> 2, ordnance |-> 1, frames |-> 4], [bosses |-> 2, ordnance |-> 1, frames |-> 5],
      [bosses |-> 2, ordnance |-> 1, frames |-> 6], [bosses |-> 3, ordnance |-> 1, frames |-> 7],
      [bosses |-> 3, ordnance |-> 1, frames |-> 8], [bosses |-> 4, ordnance |-> 1, frames |-> 9],
      [bosses |-> 5, ordnance |-> 1, frames |-> 10], [bosses |-> 5, ordnance |-> 1, frames |-> 11]>>

VersionsAgree(levels, frames, bosses, ordnance) ==
    LET c == Companions[levels] IN
    frames = c.frames /\ c.bosses \in {0, bosses} /\ c.ordnance \in {0, ordnance}

\* What the rebuilds leave of it, when they are of versions newFrames and
\* newBosses.
VersionsPass(levels, frames, bosses, ordnance, newFrames, newBosses) ==
    /\ levels \in 1..10 /\ frames \in 2..11 /\ bosses \in 1..5 /\ ordnance = 1
    /\ frames = 10 => newFrames = 10
    /\ bosses = 4 => newBosses = 4
    /\ VersionsAgree(levels, frames, bosses, ordnance)
=============================================================================
