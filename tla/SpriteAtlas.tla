----------------------------- MODULE SpriteAtlas -----------------------------
(***************************************************************************)
(* tools/sprite_atlas_extract.py: sprite_frames.json built from the retail *)
(* executable, the copied textures and hit masks and the raw levels.       *)
(*                                                                         *)
(* A pixel is one word; a digest is what it is taken of; a rectangle is    *)
(* <<x, y, width, height>>.  A level is what lvd_decoder makes of its file.*)
(***************************************************************************)
EXTENDS Integers, Sequences, SequencesExt, FiniteSets, FiniteSetsExt, Functions, TLC

CONSTANT Refused    \* SpriteAtlasError

\* The value, unless something is wrong with the input.
Unless(bad, value) == IF bad THEN Refused ELSE value

----------------------------------------------------------------------------
(* The executable. *)

OpenImage(file) ==
    Unless(\/ ~file.signed \/ file.magic # 267
           \/ file.table + 40 * Len(file.sections) > file.length,
           [base |-> file.base, sections |-> file.sections, length |-> file.length, bytes |-> file.bytes])

\* The first section that holds the address decides; its last bytes may have
\* no place in the file.
FileOffset(image, address, size) ==
    LET rva == address - image.base
        Holds(s) == s.va <= rva /\ rva < s.va + Max({s.virtual, s.raw})
        holding == {i \in DOMAIN image.sections : Holds(image.sections[i])}
        section == image.sections[Min(holding)]
        delta == rva - section.va
    IN  Unless(\/ rva < 0 \/ holding = {}
               \/ delta + size > section.raw
               \/ section.offset + delta + size > image.length,
               section.offset + delta)

VerifiedRegion(image, address, size, expected) ==
    LET offset == FileOffset(image, address, size)
    IN  Unless(offset = Refused \/ SubSeq(image.bytes, offset + 1, offset + size) # expected, expected)

----------------------------------------------------------------------------
(* Textures and hit masks. *)

\* The pixels of a run-length file, packet by packet, until there are enough.
Packets(data, pixels) ==
    LET unpack[cursor \in Nat, missing \in Nat] ==
            LET packet == data[cursor]
                count == (packet % 128) + 1
                used == IF packet >= 128 THEN 1 ELSE count
                run == IF packet >= 128 THEN [i \in 1..count |-> data[cursor + 1]]
                       ELSE SubSeq(data, cursor + 1, cursor + count)
                rest == unpack[cursor + 1 + used, missing - count]
            IN  IF missing = 0 THEN <<>>
                ELSE Unless(cursor > Len(data) \/ cursor + used > Len(data) \/ count > missing \/ rest = Refused,
                            run \o rest)
    IN  unpack[1, pixels]

FileOrder(file) ==
    LET n == file.width * file.height
    IN  CASE file.type = 2  -> Unless(Len(file.data) < n, SubSeq(file.data, 1, n))
          [] file.type = 10 -> Packets(file.data, n)
          [] OTHER          -> Refused

\* Row by row from the top left, wherever the file begins.
DecodeTga(file) ==
    LET pixels == FileOrder(file)
        column(x) == IF file.fromRight THEN file.width - 1 - x ELSE x
        row(y) == IF file.fromTop THEN y ELSE file.height - 1 - y
        at(i) == pixels[(row((i - 1) \div file.width) * file.width) + column((i - 1) % file.width) + 1]
    IN  Unless(file.depth \notin {24, 32} \/ pixels = Refused,
               [i \in 1..(file.width * file.height) |-> IF file.depth = 32 THEN at(i) ELSE 255])

\* hma: one byte, 0 or 1, for each pixel.
MaskAsset(asset) ==
    LET alpha == DecodeTga(asset.texture)
        width == asset.texture.width
        height == asset.texture.height
        Flipped(i) == ((height - 1 - ((i - 1) \div width)) * width) + ((i - 1) % width) + 1
        matches(at(_)) == Cardinality({i \in DOMAIN alpha : (asset.hma[i] # 0) = (alpha[at(i)] # 0)})
    IN  Unless(alpha = Refused \/ Len(asset.hma) # width * height \/ Range(asset.hma) # {0, 1},
               [width |-> width, height |-> height, hma |-> asset.hma,
                occupied |-> Cardinality({i \in DOMAIN asset.hma : asset.hma[i] = 1}),
                direct |-> matches(LAMBDA i : i), flipped |-> matches(Flipped)])

\* Where a rectangle of a hit mask is occupied: inclusive local bounds.
OccupiedBounds(mask, rect) ==
    LET hit == {p \in (0..(rect[3] - 1)) \X (0..(rect[4] - 1)) :
                   mask.hma[(rect[2] + p[2]) * mask.width + rect[1] + p[1] + 1] # 0}
        xs == {p[1] : p \in hit}
        ys == {p[2] : p \in hit}
    IN  [bounds |-> IF hit = {} THEN <<>> ELSE <<Min(xs), Min(ys), Max(xs), Max(ys)>>, pixels |-> Cardinality(hit)]

\* The two phases of a projectile on every sheet; the first one's bounds are
\* the broad phase.  Only phases known to be empty may be.
SheetMasks(masks, sheets, rects, empty) ==
    LET phases == [s \in sheets |-> [i \in DOMAIN rects |-> OccupiedBounds(masks[s], rects[i])]]
    IN  Unless(\E s \in sheets : \E i \in DOMAIN rects : phases[s][i].pixels = 0 /\ <<s, i>> \notin empty,
               [s \in sheets |-> [broad |-> phases[s][1].bounds, phases |-> phases[s]]])

ProjectileContracts(masks, sheets, src) ==
    [ordinary     |-> SheetMasks(masks, sheets, src.ordinaryRects, src.emptyPhases),
     supplemental |-> SheetMasks(masks, sheets, src.supplementalRects, src.emptyPhases)]

----------------------------------------------------------------------------
(* The weapons' shots. *)

Membership(weapons) ==
    LET shots == UNION {w.prototypes \cup w.captive : w \in weapons}
    IN  [p \in shots |-> {w.id : w \in {v \in weapons : p \in v.prototypes \cup v.captive}}]

\* The work list: what a shot turns into belongs to that shot's weapons too,
\* and is looked at again when that is news.
Closed(member, queue, next) ==
    LET shots == DOMAIN member \cup DOMAIN next
        close[of \in [shots -> SUBSET UNION Range(member)], todo \in Seq(shots)] ==
            LET p == Head(todo)
                q == next[p]
                grown == [of EXCEPT ![q] = @ \cup of[p]]
            IN  IF todo = <<>> THEN Restrict(of, {r \in shots : of[r] # {}})
                ELSE IF q < 0 THEN close[of, Tail(todo)]
                ELSE IF q >= Cardinality(DOMAIN next) THEN Refused
                ELSE close[grown, IF grown = of THEN Tail(todo) ELSE Append(Tail(todo), q)]
    IN  close[[p \in shots |-> IF p \in DOMAIN member THEN member[p] ELSE {}], queue]

\* next, rects and persistent are tables of the executable, read up to the
\* last shot that a weapon names.
ProjectileFrames(weapons, tables, width, height) ==
    LET member == Membership(weapons)
        known == 0..Max(DOMAIN member)
        all == Closed(member, SetToSeq(DOMAIN member), [p \in known |-> tables.next[p]])
        Outside(r) == r[1] < 0 \/ r[2] < 0 \/ r[3] <= 0 \/ r[4] <= 0 \/ r[1] + r[3] > width \/ r[2] + r[4] > height
    IN  IF DOMAIN member = {} THEN Refused
        ELSE IF all = Refused THEN Refused
        ELSE Unless(\E p \in DOMAIN all : Outside(tables.rects[p]),
                    [p \in DOMAIN all |-> [weapons |-> all[p], next |-> tables.next[p],
                                           rect |-> tables.rects[p], hit |-> tables.rects[p]]])

AliasGroups(frames) ==
    {g \in {{q \in DOMAIN frames : frames[q].rect = frames[p].rect} : p \in DOMAIN frames} : Cardinality(g) > 1}

----------------------------------------------------------------------------
(* Enemies. *)

EnemyLayout(tables) ==
    LET frame(rect) == [rect |-> rect, hit |-> rect] IN
    [mirror |-> tables.mirror,
     families |->
        [directional_32 |-> [i \in 1..16 |-> frame(<<tables.x[i], tables.y[i], 32, 32>>)],
         formation_animation_32 |-> [i \in 1..6 |-> frame(<<tables.x[16 + i], tables.y[16 + i], 32, 32>>)],
         supplemental_large_animation_64 |-> [i \in 1..7 |-> frame(<<64 * (i - 1), 0, 64, 64>>)]]]

FighterFrames(mask) ==
    Unless(mask.width # 440 \/ mask.height # 28, [i \in 1..11 |-> <<40 * (i - 1), 0, 40, 27>>])

\* Slots without a name are passed over; a name stands for its sheet.
Resources(level, sheets) ==
    LET named == SetToSortSeq({i \in 1..6 : level.slots[i] # "none"}, LAMBDA i, j : i < j)
    IN  Unless(\E i \in Range(named) : level.slots[i] \notin sheets,
               [k \in DOMAIN named |->
                   [slot |-> named[k], sheet |-> level.slots[named[k]], score |-> level.scores[named[k]]]])

PathOpcodes(level) == UNION {{p.opcode : p \in Range(g.points)} : g \in Range(level.groups)}

\* The family that draws an enemy, by the state its snapshot names.  None is
\* written down for "kamikaze".
StateFamilies ==
    [s \in {"entry", "hold", "formation", "supplemental_large", "state_ten"} |->
        CASE s \in {"entry", "hold"}           -> "directional_32"
          [] s \in {"formation", "state_ten"}  -> "formation_animation_32"
          [] s = "supplemental_large"          -> "supplemental_large_animation_64"]

\* Supplemental records that are there.
Records(level) == SelectSeq(level.records, LAMBDA r : r.count # 0)

AuthoredStates(level, supplemental) ==
    {"entry"}
        \cup (IF 1 \in PathOpcodes(level) THEN {"formation"} ELSE {})
        \cup (IF level.mode = 2 /\ 6 \in PathOpcodes(level) THEN {"kamikaze"} ELSE {})
        \cup (IF supplemental THEN {"supplemental_large"} ELSE {})

\* expected: the records the retail level has.  A fact without resources
\* (the levels before the late ones have none) has <<>>.
LevelUsage(level, fact, sheets, expected) ==
    LET resources == Resources(level, sheets)
        records == Records(level)
    IN  IF resources = Refused THEN Refused
        ELSE Unless(\/ level.sha256 # fact.sha256
                    \/ level.slots[1] # fact.reference
                    \/ fact.resources \notin {<<>>, resources}
                    \/ resources = <<>> \/ resources[1].sheet # fact.sheet
                    \/ records # expected.records,
                    [id |-> level.id, mode |-> level.mode, sheet |-> resources[1].sheet, resources |-> resources,
                     states |-> AuthoredStates(level, expected.supplemental /\ records # <<>>), records |-> records])

Linkages(level, usage, expected) ==
    LET valid(r) == r.phases \in 1..7 /\ \E x \in Range(usage.resources) : x.slot = r.selector
    IN  IF usage = Refused THEN Refused
        ELSE IF ~expected.supplemental THEN <<>>
        ELSE Unless(\E r \in Range(usage.records) : ~valid(r),
                    [i \in DOMAIN usage.records |->
                        [level |-> level.id, phases |-> usage.records[i].phases, fixed |-> usage.records[i].phases]])

\* A Time Trial level has no supplemental ships.
TimeTrialUsage(level, fact, sheets) ==
    LevelUsage(level, fact, sheets, [records |-> <<>>, supplemental |-> FALSE])

----------------------------------------------------------------------------
(* The document.  src has what the tool reads and the retail facts.        *)

AtlasAssets(src) == src.sheets \cup {"fighter1", "fighter2", "weapons_big"}

AtlasDocument(src) ==
    LET image == OpenImage(src.exe)
        Verified(region) == VerifiedRegion(image, region.address, Len(region.expected), region.expected) # Refused
        masks == [a \in AtlasAssets(src) |-> MaskAsset(src.assets[a])]
        usage == [i \in DOMAIN src.levels |-> LevelUsage(src.levels[i], src.facts[i], src.sheets, src.expected[i])]
        linkages == [i \in DOMAIN src.levels |-> Linkages(src.levels[i], usage[i], src.expected[i])]
        trial == [i \in DOMAIN src.trial |-> TimeTrialUsage(src.trial[i], src.trialFacts[i], src.sheets)]
        layout == EnemyLayout(src.tables)
        contracts == ProjectileContracts(masks, src.sheets, src)
        fighters == [f \in {"fighter1", "fighter2"} |-> FighterFrames(masks[f])]
        frames == ProjectileFrames(src.weapons, src.tables, masks["weapons_big"].width, masks["weapons_big"].height)
    IN  IF image = Refused THEN Refused
        ELSE IF \E region \in src.instructions : ~Verified(region) THEN Refused
        ELSE IF \/ \E a \in DOMAIN masks : masks[a] = Refused
           \/ \E s \in src.sheets : <<masks[s].width, masks[s].height>> # <<576, 96>>
        THEN Refused
        ELSE IF \/ frames = Refused \/ Refused \in Range(contracts) \/ Refused \in Range(fighters)
                \/ Refused \in Range(usage) \cup Range(linkages) \cup Range(trial)
        THEN Refused
        ELSE [version |-> 11, mirrorTable |-> layout.mirror, families |-> layout.families, states |-> StateFamilies,
              sheets |-> src.sheets, usage |-> usage, trialUsage |-> trial, linkages |-> FlattenSeq(linkages),
              reachable |-> {src.levels[i].id : i \in {j \in DOMAIN src.levels : src.expected[j].supplemental}},
              fighters |-> <<[id |-> "fighter1", frames |-> fighters["fighter1"]],
                             [id |-> "fighter2", frames |-> fighters["fighter2"]]>>,
              frames |-> frames, aliases |-> AliasGroups(frames), masks |-> contracts]
=============================================================================
