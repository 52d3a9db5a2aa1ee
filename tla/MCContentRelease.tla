-------------------------- MODULE MCContentRelease --------------------------
(***************************************************************************)
(* The release: the content and its gate, and the smoke of the packaged    *)
(* programs.  They share no state, so each is explored while the other     *)
(* rests; and the tables and pure rules of the content are tried on small  *)
(* documents, as assumptions TLC evaluates.                                *)
(***************************************************************************)
EXTENDS RuntimeSmoke, ContentBuild, ReleaseChecks

----------------------------------------------------------------------------
(* The tables of the rules. *)

\* The counts of the catalogue by version agree with each other: levels, the
\* levels that use sheets, and the runs of levels that use the same sheets.
ASSUME \A v \in 1..10 : LevelCount[v] = UsageCount[v + 1]

ASSUME \A v \in 2..8 : SumFunction([u \in 2..v |-> UsageRuns[u]]) = UsageCount[v]

\* Every pin is about a level its version has, and a shop follows every
\* fourth level there is.
ASSUME \A v \in 1..10 : \A pin \in PinnedBy(v) : pin[1] <= LevelCount[v]

ASSUME \A v \in 5..10 : ShopLevels(v) = {id \in 1..LevelCount[v] : id % 4 = 0}

\* Only sheets that are there are masked; supplemental ships are reachable
\* where a linkage has them, and the last linkage is the terminal one.
ASSUME \A v \in 2..8 : MaskedSheets(v) \subseteq SheetsUpTo(v)

ASSUME \A v \in 3..8 : ReachableLevels(v) = Range(LinkageLevels(v))

ASSUME \A v \in 4..8 : TerminalLevel(v) = Last(LinkageLevels(v))

ASSUME SumFunction(BonusWeights) = 2252 /\ IsInjective(BonusRows)

\* Documents rebuilt now pass with levels of every version but two: the
\* version 8 asks for bosses nobody builds any more, and 9 for frames.
ASSUME \A levels \in 3..10 :
    VersionsPass(levels, levels + 1, BossVersion(levels), 1, 11, BossVersion(levels)) <=> levels \notin {8, 9}

\* The extractor writes no level the rules would refuse, as far as modes,
\* opcodes and mirrors go, and the mode-3 levels are those of the bonus modes.
ASSUME \A id \in 51..100 : AllowedOpcodes(id) \subseteq Opcodes(id, 10) /\ LevelMode(id) \in {1, 2, 3, 4, 6}

ASSUME {id \in 51..100 : LevelMode(id) = 3} = {id \in Range(ModeThreeLevels(10)) : id > 50}

ASSUME \A id \in BossLevels(10) : id > 50 => GroupModes(id, 0) = BossModes(id) \/ id = 75

ASSUME BossIds(BossVersion(10)) = SetToSortSeq(BossLevels(10), <)

----------------------------------------------------------------------------
(* The other checks of a release. *)

\* Any pack of at least twenty bytes that was appended with its trailer is
\* found; what is found ends at the trailer and holds its own header.
ASSUME \A size \in 30..36, distance \in -1..40, start \in 0..36 :
    LET file == [size |-> size, distance |-> distance, magic |-> {start, size - 4}, versions |-> [o \in 0..36 |-> <<4, 5, 1>>]]
        pck == EmbeddedPck(file, 1, <<4, 5, 1>>)
    IN  /\ (size >= 32 /\ distance \in 20..(size - 12) /\ start = size - 12 - distance) => pck = [offset |-> start, bytes |-> distance]
        /\ pck # Refused => pck.offset + pck.bytes + 12 = size /\ pck.offset >= 0 /\ pck.bytes >= 20
        /\ EmbeddedPck(file, 1, <<4, 5, 2>>) = Refused /\ EmbeddedPck(file, distance + 1, <<>>) = Refused

\* The console wrapper, a library and a truncated file are not the client.
ClientHead == [mz |-> TRUE, length |-> 4096, lfanew |-> 4002, pe |-> TRUE, machine |-> "amd64", magic |-> "pe32+",
               subsystem |-> "gui", characteristics |-> {"executable"}]
ASSUME /\ WindowsHeaderOk(ClientHead)
       /\ \A h \in {[ClientHead EXCEPT !.subsystem = "console"], [ClientHead EXCEPT !.characteristics = @ \cup {"dll"}],
                    [ClientHead EXCEPT !.lfanew = @ + 1], [ClientHead EXCEPT !.length = 63, !.lfanew = -94]} : ~WindowsHeaderOk(h)
       /\ \A type \in {"exec", "dyn", "rel"}, length \in {19, 20} :
            LinuxHeaderOk([elf |-> TRUE, length |-> length, class |-> 64, data |-> "little", type |-> type, machine |-> "amd64"])
                <=> type # "rel" /\ length = 20
       /\ \A runnable \in BOOLEAN, kind \in {"windows", "linux"} :
            ArtifactOk([there |-> TRUE, size |-> 40, executable |-> runnable, distance |-> 20, magic |-> {8, 36},
                        versions |-> [o \in {8} |-> <<4>>], texts |-> {"Warblade"},
                        head |-> ClientHead @@ [elf |-> TRUE, class |-> 64, data |-> "little", type |-> "dyn"]],
                       kind, 40, 20, <<4>>, {"Warblade"}) <=> runnable \/ kind = "windows"

\* One version that differs anywhere is found.
Now == <<1, 4, 0>>
Stale3 == <<1, 3, 9>>
Versioned == [project |-> <<Now>>, short |-> <<Now, Now>>, bundle |-> <<Now, Now>>, file |-> <<Now \o <<0>>>>, product |-> <<Now \o <<0>>>>]
ASSUME /\ SourceVersionsOk(Versioned, Now)
       /\ \A key \in DOMAIN Versioned, i \in 1..2 : i \in DOMAIN Versioned[key] =>
            ~SourceVersionsOk([Versioned EXCEPT ![key][i] = IF key \in {"file", "product"} THEN Now ELSE Stale3], Now)
       /\ \A short, version \in {Now, Stale3, <<>>} :
            BundlesOk({[info |-> TRUE, short |-> Now, version |-> Now], [info |-> TRUE, short |-> short, version |-> version]}, Now)
                <=> short = Now /\ version = Now

\* presentation.json takes a set of assets exactly when no two of them have
\* one key in one section, and then every reference is to what it says.
Shipped ==
    LET asset(output, stem, suffix, category) ==
            [output |-> output, stem |-> stem, suffix |-> suffix, category |-> category, texture |-> category = "texture",
             known |-> TRUE, retail |-> 1, recorded |-> 1, copied |-> 1, size |-> <<800, 600>>]
    IN  <<asset(1, "newlogo3", "tga", "texture"), asset(2, "newlogo3", "jpg", "texture"), asset(3, "newlogo3", "hma", "texture"),
          asset(4, "newlogo3", "png", "texture"), asset(5, "rank", "mp3", "voice"), asset(6, "rank", "mp3", "sound_effect"),
          asset(7, "rank", "ogg", "voice_pack_2"), asset(8, "readme", "txt", "none")>>

Ending == [exe |-> TRUE, text |-> TRUE, marker |-> TRUE, slides |-> {<<"newlogo3", "">>}, music |-> "endgame"]

ASSUME \A chosen \in SUBSET (1..8) :
    LET music == [Shipped[1] EXCEPT !.output = 9, !.stem = "endgame", !.suffix = "mp3", !.category = "music", !.texture = FALSE]
        assets == Append(SelectSeq(Shipped, LAMBDA a : a.output \in chosen), music)
        counted == [s \in Sections |-> Cardinality({i \in DOMAIN assets : s \in SectionsOf(assets[i], {"rank"})})]
        inputs == [legacy |-> {"rank"}, counts |-> counted, ending |-> Ending,
                references |-> {[section |-> "textures", key |-> <<"newlogo3", "hma">>, kind |-> "hit_mask"]},
                required |-> [s \in {"textures", "voices"} |-> IF s = "textures" THEN {<<"newlogo3", "">>} ELSE {"rank"}]]
        made == PresentationManifest(assets, inputs)
    IN  /\ made # Refused <=> {3, 5} \subseteq chosen /\ Cardinality({1, 4} \cap chosen) = 1 /\ 6 \notin chosen
        /\ made # Refused => /\ made.fallback = (IF 7 \in chosen THEN {"rank"} ELSE {})
                             /\ made.required.textures = {<<"newlogo3", "">>}
                             /\ made.sections.sfx["rank"] = made.sections.voices["rank"]
        /\ PresentationManifest(assets, [inputs EXCEPT !.counts["textures"] = @ + 1]) = Refused
        /\ PresentationManifest(assets \o <<music>>, [inputs EXCEPT !.counts["music"] = 2]) = Refused
        /\ PresentationManifest([i \in DOMAIN assets |-> [assets[i] EXCEPT !.copied = 2]], inputs) = Refused

----------------------------------------------------------------------------
(* Talents: a tree is accepted exactly when its prerequisites have no cycle. *)

TalentTree(requires) ==
    [gated |-> {"pause"}, grantKeys |-> {"shield"},
     nodes |-> [i \in 1..3 |-> [id |-> i, kind |-> "stat", cost |-> 1, grants |-> {"shield"}, effect |-> "none",
                                requires |-> requires[i]]]]

ASSUME \A requires \in [1..3 -> SUBSET (1..3)] :
    LET Acyclic == \E rank \in [1..3 -> 1..3] : \A i \in 1..3 : \A j \in requires[i] : rank[j] < rank[i]
    IN  TalentsOk(TalentTree(requires), TalentTree(requires)) <=> Acyclic

\* What some shots turn into, among at most four.
Turned(next, shots) ==
    LET Step(some) == some \cup {next[p] : p \in {q \in some : next[q] >= 0}}
    IN  Step(Step(Step(shots)))

\* A shot that another turns into must be catalogued, and nothing else may be.
ASSUME \A next \in [0..3 -> -1..3], listed \in SUBSET (0..3) :
    ClosureOk([p \in listed |-> [next |-> next[p]]], <<[projectiles |-> <<[prototype |-> 0]>>]>>, {})
        <=> listed = Turned(next, {0})

\* The extractor's own closure names, for every shot, all the weapons whose
\* shots become it.
ASSUME \A next \in [0..3 -> -1..3], one, two \in 0..3 :
    LET member == one :> {w \in {1, 2} : w = 1 \/ one = two} @@ two :> {2}
    IN  Closed(member, SetToSeq({one, two}), next) =
            [p \in Turned(next, {one, two}) |-> {w \in {1, 2} : p \in Turned(next, {<<one, two>>[w]})}]

----------------------------------------------------------------------------
(* Files. *)

\* Whatever corner a texture starts in, and run-length coded or not, it is the
\* same picture; a file that ends too early is refused.
Texture(type, right, top, data) ==
    [type |-> type, depth |-> 32, width |-> 2, height |-> 2, fromRight |-> right, fromTop |-> top, data |-> data]

Picture == <<0, 9, 9, 7>>

Stored(right, top) ==
    [i \in 1..4 |-> LET x == (i - 1) % 2
                        y == (i - 1) \div 2
                    IN  Picture[(IF top THEN y ELSE 1 - y) * 2 + (IF right THEN 1 - x ELSE x) + 1]]

ASSUME \A right, top \in BOOLEAN :
    LET words == Stored(right, top)
        \* a run of equal pixels, a literal packet, or both
        runs == {<<3>> \o words,
                 <<128, words[1]>> \o <<2>> \o Tail(words)}
                \cup (IF words[2] = words[3] THEN {<<0, words[1], 129, words[2], 0, words[4]>>} ELSE {})
    IN  /\ DecodeTga(Texture(2, right, top, words)) = Picture
        /\ DecodeTga(Texture(2, right, top, Front(words))) = Refused
        /\ \A run \in runs :
             /\ DecodeTga(Texture(10, right, top, run)) = Picture
             /\ DecodeTga(Texture(10, right, top, Front(run))) = Refused

\* An address of a section is found in the file, one after the other; one
\* that the file has no bytes for is refused.
Executable == [base |-> 10, length |-> 12, bytes |-> [i \in 1..12 |-> i],
               sections |-> <<[va |-> 2, virtual |-> 3, raw |-> 4, offset |-> 4],
                              [va |-> 8, virtual |-> 6, raw |-> 4, offset |-> 8]>>]

ASSUME \A address \in 8..26, size \in 1..2 :
    LET at == FileOffset(Executable, address, size)
        inside(s) == address - 10 >= s.va /\ address - 10 + size <= s.va + s.raw
    IN  IF \E s \in Range(Executable.sections) : inside(s)
        THEN \E s \in Range(Executable.sections) : inside(s) /\ at = s.offset + address - 10 - s.va
        ELSE at = Refused

----------------------------------------------------------------------------
(* Levels. *)

\* A slot that is left out between others passes the extractor and is then
\* refused by the rules, which count the slots.
Slotted(named) == [slots |-> [i \in 1..6 |-> IF i \in named THEN "alien001" ELSE "none"], scores |-> <<1, 2, 3, 4, 5, 6>>]

Resourced(named) ==
    LET resources == EnemyResources(Slotted(named), {"alien001"})
    IN  [resources |-> resources, sprite |-> "alien001", score |-> IF resources = <<>> THEN 0 ELSE resources[1].score]

ASSUME \A named \in SUBSET (1..6) : ResourcesOk(Resourced(named), 10) <=> \E n \in 1..6 : named = 1..n

\* Every state but "kamikaze" that an enemy's snapshot may name has a family.
Path(opcodes) == [mode |-> 2, groups |-> <<[points |-> [i \in DOMAIN opcodes |-> [opcode |-> opcodes[i]]]]>>]

ASSUME \A opcodes \in [1..3 -> {0, 1, 6}] : \A supplemental \in BOOLEAN :
    AuthoredStates(Path(opcodes), supplemental) \ DOMAIN StateFamilies \subseteq {"kamikaze"}

\* A whole campaign: levels of the modes, groups and sheets the tools expect.
Sheets == <<"alien001", "alien_2", "alien_3", "alien000", "alien_lilla", "alien003">>

ModeOf(id) ==
    CASE id > 50                               -> LevelMode(id)
      [] id \in {25, 50}                       -> 4
      [] id \in Range(ModeThreeLevels(10))     -> 3
      [] OTHER                                 -> 1

ModesAt(id) == IF id \in {25, 50} THEN BossModes(id) ELSE GroupModes(id, 2)

Group(g, kind) ==
    [id |-> g, mode |-> kind, delay |-> 0, stagger |-> 0, cohort |-> 0,
     enemies |-> <<[id |-> 0, slot |-> 1, health |-> 1]>>,
     points |-> <<[id |-> 0, opcode |-> 0, duration |-> 1]>>]

Raw(id) ==
    [sha256 |-> id, size |-> 117656, exact |-> TRUE, title |-> "title", author |-> "author", mode |-> ModeOf(id),
     slots |-> IF ModeOf(id) = 4 THEN Sheets ELSE <<Sheets[1]>> \o [i \in 1..5 |-> "none"],
     scores |-> <<1, 2, 3, 4, 5, 6>>,
     records |-> [r \in 1..5 |-> [count |-> 0]], fixed |-> [i \in 1..50 |-> <<0, 0, 0, 0>>],
     groups |-> [g \in DOMAIN ModesAt(id) |-> Group(g - 1, ModesAt(id)[g])]]

Campaign == [id \in LevelIds |-> Raw(id)]

FactOf(id, level) ==
    [member |-> id, sha256 |-> level.sha256, size |-> level.size, title |-> level.title, author |-> level.author,
     sheet |-> Sheets[1], resources |-> <<>>, shop |-> id \in ShopAfter]

FactsOf(levels) == [id \in DOMAIN levels |-> FactOf(id, levels[id])]

Built100 == ClassicLevels(FactsOf(Campaign), Campaign, Sheets, TRUE, 10)

OnDisk == [id \in LevelIds |-> id]

\* What the retail game has of the pinned fields, were this the retail game.
Pinnable(entry) ==
    entry @@ [mode |-> entry.authored.mode, targets |-> Targets(entry.authored), groupModes |-> ModesOf(entry.authored),
              supplemental |-> entry.authored.supplemental, sheets |-> {r.sheet : r \in Range(entry.resources)},
              slots |-> {r.slot : r \in Range(entry.resources)}, scores |-> {r.score : r \in Range(entry.resources)}]

Document == [version |-> 10, levels |-> [id \in LevelIds |-> Pinnable(Built100.levels[id])]]

\* It is extracted, and the rules, the bonus modes and the bosses accept it.
ASSUME
    /\ LevelsOk(Document, OnDisk, [level |-> Document.levels])
    /\ ModeThreeLevelAliases(Document, Campaign) = [i \in 1..12 |->
           [level |-> ModeThreeLevels(10)[i], targets |-> 2, score |-> 1]]
    /\ LET pins == [id \in BossLevels(10) |-> [sheets |-> Sheets, record |-> Raw(id).records[1],
                                               authored |-> Document.levels[id].authored]]
           bosses == BossDocument(Document, [version |-> 11, sheets |-> Range(Sheets)], pins)
       IN  bosses.version = 5 /\ {b.level : b \in bosses.bosses} = BossLevels(10)

\* With one level of another mode, a digest of another file or a sheet that
\* comes in at another place, none of it is.
ASSUME \A id \in {51, 75, 100} :
    LET Broken(level) == [Campaign EXCEPT ![id] = level]
        Refuses(levels, order) == ClassicLevels(FactsOf(Campaign), levels, order, TRUE, 10) = Refused
    IN  /\ Refuses(Broken([Raw(id) EXCEPT !.mode = 5]), Sheets)
        /\ Refuses(Broken([Raw(id) EXCEPT !.sha256 = 0]), Sheets)
        /\ Refuses(Broken([Raw(id) EXCEPT !.groups[1].points[1].opcode = 5]), Sheets)
        /\ Refuses(Campaign, Reverse(Sheets))
        /\ ~LevelsOk([Document EXCEPT !.levels[id].sha256 = 0], OnDisk, [level |-> Document.levels])
        /\ ~LevelsOk([Document EXCEPT !.levels[id].shop = ~@], OnDisk, [level |-> Document.levels])

\* A Time Trial has no supplemental ships, though the rules do not ask.
ASSUME \A count \in {0, 1} :
    LET level == [Raw(1) EXCEPT !.records[1].count = count]
        fact == [FactOf(1, level) EXCEPT !.resources = EnemyResources(level, Range(Sheets))]
        trial == TrialLevels(<<fact>>, <<level>>, Range(Sheets))
    IN  IF count = 1 THEN trial = Refused
        ELSE ResourcesOk(Resourced({1}), 9) /\ AuthoredOk(trial[1].authored, 1, 9)

----------------------------------------------------------------------------

VARIABLE part

vars == <<part, smokeVars, contentVars>>

SmokeRests ==
    /\ mode = "reject" /\ runner = [step |-> "done", ok |-> FALSE, left |-> 0]
    /\ heartbeat = "none" /\ ready = "none"
    /\ server = NoServer /\ client = [NoClient EXCEPT !.state = "exited"] /\ probe = NoProbe
    /\ due = {} /\ stalls = 0

Init ==
    /\ ContentInit
    /\ \/ part = "smoke" /\ SmokeInit
       \/ part = "content" /\ SmokeRests

Next ==
    /\ UNCHANGED part
    /\ \/ part = "smoke" /\ SmokeNext /\ UNCHANGED contentVars
       \/ part = "content" /\ ContentNext /\ UNCHANGED smokeVars

Spec == Init /\ [][Next]_vars /\ SmokeFairness
=============================================================================
