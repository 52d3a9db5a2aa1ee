---------------------------- MODULE ReleaseChecks ----------------------------
(***************************************************************************)
(* The checks a release passes through besides the content gate, as        *)
(* operators: presentation.json (tools/presentation_manifest.py), the      *)
(* versions in the sources and in the exported bundles                     *)
(* (source_version_verify.py, export_version_verify.py), and the exported  *)
(* executables (export_artifact_verify.py).                                *)
(***************************************************************************)
EXTENDS SpriteAtlas

----------------------------------------------------------------------------
(* presentation.json.  An asset has an output (its name there), whether it *)
(* lies under textures/, a suffix, a stem in lower case and a category.    *)

\* Assets of no section are left out; four announcements are in two.
SectionsOf(asset, legacy) ==
    IF asset.texture /\ asset.suffix \in {"tga", "jpg", "png", "hma"} THEN {"textures"}
    ELSE CASE asset.category = "music" /\ asset.suffix = "mp3"        -> {"music"}
           [] asset.category = "sound_effect" /\ asset.suffix = "mp3" -> {"sfx"}
           [] asset.category = "voice" /\ asset.suffix = "mp3"        -> {"voices"} \cup (IF asset.stem \in legacy THEN {"sfx"} ELSE {})
           [] asset.category = "voice_pack_2" /\ asset.suffix = "ogg" -> {"voice_pack_2"}
           [] OTHER -> {}

Sections == {"textures", "music", "sfx", "voices", "voice_pack_2"}

\* counts: how many assets of each section there must be.
Selected(assets, legacy, counts) ==
    LET chosen == [s \in Sections |-> SelectSeq(assets, LAMBDA a : s \in SectionsOf(a, legacy))]
    IN  Unless(\/ \E i, j \in DOMAIN assets : i # j /\ assets[i].output = assets[j].output
               \/ \E s \in Sections : Len(chosen[s]) # counts[s],
               chosen)

\* A picture and its hit mask have the same stem; one logo exists twice.
TextureKey(asset) ==
    IF asset.suffix = "hma" THEN <<asset.stem, "hma">>
    ELSE IF asset.stem = "newlogo3" /\ asset.suffix = "jpg" THEN <<asset.stem, "jpg">>
    ELSE <<asset.stem, "">>

KeyIn(section, asset) == IF section = "textures" THEN TextureKey(asset) ELSE asset.stem

\* A section as a function of its keys, which must not collide.
Keyed(section, assets) ==
    LET key(i) == KeyIn(section, assets[i])
    IN  Unless(\E i, j \in DOMAIN assets : i # j /\ key(i) = key(j),
               [k \in {key(i) : i \in DOMAIN assets} |-> assets[CHOOSE i \in DOMAIN assets : key(i) = k]])

\* What was copied is what the retail files hold and what the provenance says.
Genuine(asset) ==
    /\ asset.known
    /\ asset.retail = asset.recorded
    /\ asset.copied = asset.recorded

KindOf(asset) == IF asset.suffix = "hma" THEN "hit_mask" ELSE "texture"

\* required: the keys each section must have; a hit mask is never required.
IsRequired(section, key, asset, required) ==
    key \in required[section] /\ (section = "textures" => KindOf(asset) = "texture")

\* The text has its length, its digest, its leading control and its credits
\* where they are; every slide fills the screen.
EndingOk(ending, textures, music) ==
    /\ ending.exe /\ ending.text /\ ending.marker
    /\ \A slide \in ending.slides : slide \in DOMAIN textures /\ textures[slide].size = <<800, 600>>
    /\ ending.music \in DOMAIN music

\* references: what the other parts of the document name, and in which section.
ReferencesOk(sections, references, required) ==
    /\ \A r \in references :
         /\ r.key \in DOMAIN sections[r.section]
         /\ r.section = "textures" => KindOf(sections.textures[r.key]) = r.kind
    /\ \A s \in DOMAIN required : required[s] \subseteq DOMAIN sections[s]

PresentationManifest(assets, inputs) ==
    LET chosen == Selected(assets, inputs.legacy, inputs.counts)
        sections == [s \in Sections |-> Keyed(s, chosen[s])]
    IN  IF chosen = Refused THEN Refused
        ELSE IF \/ \E s \in Sections : sections[s] = Refused
                \/ \E s \in Sections : \E a \in Range(chosen[s]) : ~Genuine(a)
                \/ \E a \in Range(chosen.textures) : 0 \in Range(a.size)
        THEN Refused
        ELSE IF ~EndingOk(inputs.ending, sections.textures, sections.music) \/ ~ReferencesOk(sections, inputs.references, inputs.required)
        THEN Refused
        ELSE [sections |-> sections,
              required |-> [s \in DOMAIN inputs.required |->
                               {k \in DOMAIN sections[s] : IsRequired(s, k, sections[s][k], inputs.required)}],
              \* clips of the second voice pack that the first can stand in for
              fallback |-> DOMAIN sections.voice_pack_2 \cap DOMAIN sections.voices,
              clips |-> [pack1 |-> Cardinality(DOMAIN sections.voices), pack2 |-> Cardinality(DOMAIN sections.voice_pack_2)]]

----------------------------------------------------------------------------
(* Versions: sequences of numbers. *)

\* The project has one version, the macOS presets two of each kind, the
\* Windows preset one of each with a zero behind.
SourceVersionsOk(found, expected) ==
    /\ Len(found.project) = 1
    /\ Len(found.short) = 2 /\ Len(found.bundle) = 2
    /\ \A v \in Range(found.project \o found.short \o found.bundle) : v = expected
    /\ Len(found.file) = 1 /\ Len(found.product) = 1
    /\ \A v \in Range(found.file \o found.product) : v = expected \o <<0>>

\* Every bundle given; a key that is missing reads as no version.
BundlesOk(bundles, expected) ==
    /\ expected # <<>>
    /\ \A b \in bundles : b.info /\ b.short = expected /\ b.version = expected

----------------------------------------------------------------------------
(* Executables.  head: the first bytes, of which it tells what is where. *)

WindowsHeaderOk(head) ==
    /\ head.mz /\ head.length >= 64
    /\ head.lfanew + 24 + 70 <= head.length
    /\ head.pe
    /\ head.machine = "amd64"
    /\ "executable" \in head.characteristics /\ "dll" \notin head.characteristics
    /\ head.magic = "pe32+" /\ head.subsystem = "gui"

LinuxHeaderOk(head) ==
    /\ head.elf /\ head.length >= 20
    /\ head.class = 64 /\ head.data = "little"
    /\ head.type \in {"exec", "dyn"} /\ head.machine = "amd64"

\* file: size, the offsets at which the magic stands, the distance the trailer
\* states and, for each offset, the version that follows the magic there.
EmbeddedPck(file, least, version) ==
    LET start == file.size - 12 - file.distance
    IN  Unless(\/ file.size < 12 + 20
               \/ file.size - 4 \notin file.magic
               \/ file.distance <= 0 \/ start < 0 \/ start + 20 > file.size - 12
               \/ start \notin file.magic
               \/ version # <<>> /\ file.versions[start] # version
               \/ file.distance < least,
               [offset |-> start, bytes |-> file.distance])

ArtifactOk(file, kind, leastBytes, leastPck, version, texts) ==
    /\ file.there /\ file.size >= leastBytes
    /\ kind = "linux" => file.executable
    /\ IF kind = "windows" THEN WindowsHeaderOk(file.head) ELSE LinuxHeaderOk(file.head)
    /\ EmbeddedPck(file, leastPck, version) # Refused
    /\ texts \subseteq file.texts
=============================================================================
