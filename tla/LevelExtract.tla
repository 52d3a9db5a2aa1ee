---------------------------- MODULE LevelExtract ----------------------------
(***************************************************************************)
(* What is built from the retail level files: levels.json                  *)
(* (tools/classic_levels_extract.py), time_trial.json                      *)
(* (time_trial_extract.py), the recurring bonus levels                     *)
(* (bonus_modes_extract.py) and bosses.json (boss_contract_extract.py).    *)
(*                                                                         *)
(* A level is what lvd_decoder makes of its file; a fact is what           *)
(* known_facts.json says of it.  A text is one value; a sheet is named by  *)
(* the file name the level gives, without case and suffix.                 *)
(***************************************************************************)
EXTENDS SpriteAtlas

----------------------------------------------------------------------------
(* classic_levels_extract.py *)

LevelIds == 1..100

ShopAfter == {4 * n : n \in 1..25}

SupplementalLevels ==
    <<3, 7, 11, 15, 19, 23, 28, 32, 36, 40, 44, 48, 53, 57, 61, 65, 69, 73, 78, 82, 86, 90, 94, 98>>

\* The mode of a level after 50.
LevelMode(id) ==
    CASE id \in {54, 62, 70, 79, 87, 95}                 -> 2
      [] id \in {58, 66, 74, 83, 91, 99}                 -> 3
      [] id \in {75, 100}                                -> 4
      [] id \in {63, 64, 65, 67, 68, 69, 71, 72, 73, 76, 77, 88, 89, 90, 92, 93} -> 6
      [] OTHER                                           -> 1

GroupModes(id, groups) ==
    CASE id = 75  -> <<4, 5, 6, 7, 7>>
      [] id = 100 -> <<4, 5, 6, 6, 7, 7>>
      [] id = 80  -> <<3, 3, 1, 1, 1, 1, 1, 1, 1, 1>>
      [] OTHER    -> [g \in 1..groups |-> 1]

AllowedOpcodes(id) ==
    CASE id = 75  -> {0, 1, 2, 3, 7}
      [] id = 100 -> {0, 1, 2, 6, 7}
      [] id = 94  -> {0, 1, 2, 6}
      [] OTHER    -> {0, 1, 6}

\* Slots without a name are passed over.
EnemyResources(level, sheets) ==
    LET named == SetToSortSeq({i \in 1..6 : level.slots[i] # "none"}, LAMBDA i, j : i < j)
    IN  Unless(\E i \in Range(named) : level.slots[i] \notin sheets,
               [k \in DOMAIN named |->
                   [slot |-> named[k], sheet |-> level.slots[named[k]], score |-> level.scores[named[k]]]])

\* The part of a level that is played.
Authored(level, mirror) ==
    [mode |-> level.mode, width |-> 800, mirror |-> mirror,
     supplemental |-> level.records, fixed |-> level.fixed, groups |-> level.groups]

AuthoredLvd(level, id) == Authored(level, (id \div 100) % 2 = 1)

ModesOf(level) == [g \in DOMAIN level.groups |-> level.groups[g].mode]

\* Only levels after 50 are held to their modes and opcodes here.
LateLevelOk(id, level) ==
    id >= 51 =>
        /\ level.mode = LevelMode(id)
        /\ ModesOf(level) = GroupModes(id, Len(level.groups))
        /\ PathOpcodes(level) \subseteq AllowedOpcodes(id)

\* What is decoded must encode to the same file: exact.
ClassicLevelOk(id, fact, level, sheets) ==
    LET resources == EnemyResources(level, sheets) IN
    /\ fact.member = id
    /\ fact.sha256 = level.sha256 /\ fact.size = level.size /\ level.exact
    /\ resources # Refused
    /\ resources # <<>>
    /\ fact.title = level.title /\ fact.author = level.author
    /\ fact.sheet = resources[1].sheet
    /\ fact.resources \in {<<>>, resources}     \* <<>>: the fact is not there
    /\ fact.shop = (id \in ShopAfter)
    /\ Len(level.fixed) = 50 /\ \A i \in 1..50 : Len(level.fixed[i]) = 4
    /\ LateLevelOk(id, level)

\* Who is on a level: its enemies and the supplemental ships of the first
\* four records.
Entities(level) ==
    SumFunction([g \in DOMAIN level.groups |-> Len(level.groups[g].enemies)])
        + SumFunction([r \in 1..4 |-> IF level.records[r].count > 0 THEN level.records[r].count ELSE 0])

ManagedLevelEntry(id, fact, level, sheets) ==
    LET resources == EnemyResources(level, sheets)
    IN  [id |-> id, title |-> fact.title, author |-> fact.author,
         resources |-> resources, sprite |-> resources[1].sheet, score |-> resources[1].score,
         shop |-> fact.shop, sha256 |-> fact.sha256, ordinarySpeed |-> 65536,
         authored |-> AuthoredLvd(level, id)]

\* The sheets in the order the levels bring them in.
UsedSheets(named) ==
    LET new == {k \in DOMAIN named : \A j \in 1..(k - 1) : named[j] # named[k]}
        order == SetToSortSeq(new, <)
    IN  [n \in DOMAIN order |-> named[order[n]]]

\* Four frames of supplemental ships: x and y, pixels and bounds.
PinnedFrames ==
    [alien000     |-> [x |-> 384, pixels |-> 1123, bounds |-> <<0, 0, 61, 38>>],
     alien003     |-> [x |-> 384, pixels |-> 1424, bounds |-> <<2, 2, 61, 60>>],
     alien_rakett |-> [x |-> 192, pixels |-> 1044, bounds |-> <<17, 1, 46, 61>>],
     alien_baller |-> [x |-> 192, pixels |-> 1817, bounds |-> <<5, 2, 58, 59>>]]

FrameOk(sheet, hma) ==
    LET pin == PinnedFrames[sheet]
    IN  OccupiedBounds([hma |-> hma, width |-> 576], <<pin.x, 0, 64, 64>>) = [bounds |-> pin.bounds, pixels |-> pin.pixels]

\* pinned: the enemy textures, masks and hit masks of the provenance
\* manifest, <<sheet, kind>> -> digest; disk: the files.
CampaignAssetsOk(sheets, pinned, disk) ==
    /\ DOMAIN pinned = sheets \X {"texture", "mask", "hma"}
    /\ \A asset \in DOMAIN pinned : asset \in DOMAIN disk /\ disk[asset].sha256 = pinned[asset]
    /\ \A sheet \in sheets :
         /\ Len(disk[<<sheet, "hma">>].bytes) = 576 * 96
         /\ Range(disk[<<sheet, "hma">>].bytes) \subseteq {0, 1}
         /\ sheet \in DOMAIN PinnedFrames => FrameOk(sheet, disk[<<sheet, "hma">>].bytes)

\* readable: the version of the levels.json that is replaced.
ClassicLevels(known, levels, order, assetsOk, readable) ==
    LET sheets == Range(order)
        entry(i) == ManagedLevelEntry(i, known[i], levels[i], sheets)
        resources == FlattenSeq([i \in DOMAIN levels |-> EnemyResources(levels[i], sheets)])
    IN  IF \E i \in DOMAIN levels : ~ClassicLevelOk(i, known[i], levels[i], sheets) THEN Refused
        ELSE Unless(\/ readable \notin 1..10 \/ ~assetsOk
                    \/ UsedSheets([k \in DOMAIN resources |-> resources[k].sheet]) # order,
                    [version |-> 10, levels |-> [i \in DOMAIN levels |-> entry(i)],
                     entities |-> [i \in DOMAIN levels |-> Entities(levels[i])]])

----------------------------------------------------------------------------
(* time_trial_extract.py: fifteen levels of their own, never mirrored. *)

TrialLevelOk(id, fact, level, sheets) ==
    LET resources == EnemyResources(level, sheets) IN
    /\ fact.member = id
    /\ fact.sha256 = level.sha256 /\ fact.size = level.size /\ level.exact
    /\ resources # Refused
    /\ resources # <<>>
    /\ fact.title = level.title /\ fact.author = level.author
    /\ fact.sheet = resources[1].sheet /\ fact.resources = resources
    /\ level.mode \in {1, 2}
    /\ Range(ModesOf(level)) = {1}
    /\ PathOpcodes(level) \subseteq {0, 1, 6}
    /\ \A r \in 1..4 : level.records[r].count <= 0

TrialLevels(facts, levels, sheets) ==
    Unless(\E i \in DOMAIN levels : ~TrialLevelOk(i, facts[i], levels[i], sheets),
           [i \in DOMAIN levels |->
               [id |-> i, resources |-> EnemyResources(levels[i], sheets), shop |-> FALSE,
                sha256 |-> levels[i].sha256, authored |-> Authored(levels[i], FALSE)]])

----------------------------------------------------------------------------
(* bonus_modes_extract.py: the levels of mode three of a levels.json. *)

CatalogSize == [v \in 3..10 |-> <<30, 35, 49, 50, 62, 100, 100, 100>>[v - 2]]

ModeThreeLevels(version) ==
    SubSeq(<<8, 16, 24, 33, 41, 49, 58, 66, 74, 83, 91, 99>>,
           1, IF version >= 8 THEN 12 ELSE IF version = 7 THEN 7 ELSE 6)

Targets(authored) == SumFunction([g \in DOMAIN authored.groups |-> Len(authored.groups[g].enemies)])

SlotOneScores(entry) == {r.score : r \in {x \in Range(entry.resources) : x.slot = 1}}

\* raw: the level files, decoded.
ModeThreeLevelOk(entry, raw) ==
    /\ raw.sha256 = entry.sha256 /\ raw.exact
    /\ raw.mode = 3
    /\ Targets(entry.authored) = Targets(raw)
    /\ Cardinality({k \in DOMAIN entry.resources : entry.resources[k].slot = 1}) = 1
    /\ SlotOneScores(entry) = {raw.scores[1]}

ModeThreeLevelAliases(doc, raw) ==
    LET ids == ModeThreeLevels(doc.version)
        authored == SelectSeq(doc.levels, LAMBDA entry : entry.authored.mode = 3)
    IN  IF doc.version \notin 5..10 THEN Refused
        ELSE Unless(\/ Len(doc.levels) # CatalogSize[doc.version]
                    \/ [i \in DOMAIN authored |-> authored[i].id] # ids
                    \/ \E id \in Range(ids) : ~ModeThreeLevelOk(doc.levels[id], raw[id]),
                    [i \in DOMAIN ids |-> [level |-> ids[i], targets |-> Targets(raw[ids[i]]), score |-> raw[ids[i]].scores[1]]])

----------------------------------------------------------------------------
(* boss_contract_extract.py *)

BossLevels(version) == {25} \cup (IF version >= 6 THEN {50} ELSE {}) \cup (IF version >= 8 THEN {75, 100} ELSE {})

BossModes(id) == IF id = 100 THEN <<4, 5, 6, 6, 7, 7>> ELSE <<4, 5, 6, 7, 7>>

\* pin: the sheets, the first record and the whole authored level.
BossLevelOk(entry, id, pin) ==
    /\ entry.id = id /\ entry.authored.mode = 4
    /\ ModesOf(entry.authored) = BossModes(id)
    /\ [i \in DOMAIN entry.resources |-> entry.resources[i].slot] = <<1, 2, 3, 4, 5, 6>>
    /\ [i \in DOMAIN entry.resources |-> entry.resources[i].sheet] = pin.sheets
    /\ entry.authored.supplemental[1] = pin.record
    /\ entry.authored = pin.authored

BossSourcesOk(doc, frames, pins) ==
    /\ doc.version \in 3..10
    /\ Len(doc.levels) = CatalogSize[doc.version]
    /\ \A id \in BossLevels(doc.version) :
         BossLevelOk(doc.levels[id], id, pins[id]) /\ Range(pins[id].sheets) \subseteq frames.sheets
    /\ frames.version = doc.version + 1

BossVersion(levels) == IF levels < 6 THEN 2 ELSE IF levels < 8 THEN 3 ELSE 5

\* A burst is fired by the groups of mode 6, all at the speed of their first.
BurstGroups(entry) == {g \in Range(entry.authored.groups) : g.mode = 6}

BurstOk(entry) ==
    /\ \A g \in BurstGroups(entry) : g.enemies # <<>>
    /\ Cardinality({g.enemies[1].health : g \in BurstGroups(entry)}) = 1

\* A late boss turns with opcode 3, leaves with opcode 6, and only the last
\* one ends the campaign.
LateBoss(id, opcodes) ==
    [level |-> id, turns |-> 3 \in opcodes, leaves |-> 6 \in opcodes, next |-> IF id < 100 THEN {id + 1} ELSE {}]

Contract(id) ==
    CASE id = 75  -> LateBoss(75, {0, 1, 2, 3, 7})
      [] id = 100 -> LateBoss(100, {0, 1, 2, 6, 7})
      [] OTHER    -> [level |-> id, turns |-> id = 50, leaves |-> FALSE, next |-> {id + 1}]

BossDocument(doc, frames, pins) ==
    Unless(\/ ~BossSourcesOk(doc, frames, pins)
           \/ doc.version >= 8 /\ \E id \in BossLevels(doc.version) : ~BurstOk(doc.levels[id]),
           [version |-> BossVersion(doc.version), bosses |-> {Contract(id) : id \in BossLevels(doc.version)}])
=============================================================================
