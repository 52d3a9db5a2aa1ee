---------------------------- MODULE ContentBuild ----------------------------
(***************************************************************************)
(* How the shipped content is kept in step with what it is made from.      *)
(*                                                                         *)
(* The retail archives never change.  People edit known_facts.json, the    *)
(* allowlist, the tools and, by hand, what the tools made; a generator     *)
(* reads its inputs and then replaces its outputs one after the other; and *)
(* "make verify" (the gate) rebuilds everything in the order of the        *)
(* Makefile and compares.                                                  *)
(*                                                                         *)
(* The content of a file is the revision of the tool that made it, the     *)
(* version it has, what it was made from and what a hand did to it:        *)
(* "rule" breaks what validate_content.py checks, "payload" what another   *)
(* generator verifies when it reads the file, "value" neither, and "torn"  *)
(* is what a plain write leaves when it is interrupted.                    *)
(*                                                                         *)
(* One command runs at a time; edits may come in between its steps.        *)
(***************************************************************************)
EXTENDS LevelExtract, ContentRules

CONSTANTS
    Revisable,    \* generators whose code is revised
    HandEdited,   \* files that are edited by hand
    OldVersion,   \* of levels.json, when older content is checked out
    MaxEdits      \* bound: edits of any kind and interruptions

VARIABLES
    facts,      \* known_facts.json: revision, and whether it is true of the retail files
    allow,      \* the allowlist: the assets to copy
    tool,       \* revision of each generator
    disk,       \* the copied assets
    doc,        \* the generated files
    job,        \* the generator that runs and what it has still to write
    gate,       \* "make verify": its step, and what happened meanwhile
    settled,    \* generators run to the end, in order, since the last edit
    edits

contentVars == <<facts, allow, tool, disk, doc, job, gate, settled, edits>>

\* One asset of each kind; path2 is in the archive but not in the allowlist.
Assets == {"level", "sheet", "path", "path2", "sound"}

\* A refusal is an error and never a document.
ASSUME RefusalAssumption ==
    LET States == {"none", "edited", "retail"}
        Documents(from) == [tool : Nat, hand : {"no"}, version : Nat, from : from]
        Manifests == Documents([facts : Nat, allow : SUBSET Assets, assets : SUBSET Assets])
    IN  /\ Refused \notin Manifests
        /\ Refused \notin Documents([manifest : Manifests])
        /\ Refused \notin Documents([paths : SUBSET States])
        /\ Refused \notin Documents([sheet : States])
        /\ Refused \notin Documents([levels : {"retail"}])
        /\ Refused \notin Documents([aliases : {ModeThreeLevels(10)}])
        /\ Refused \notin Documents([bosses : {BossLevels(10)}])

Gens == {"assets", "presentation", "trial", "paths", "frames", "levels", "bonus", "bosses"}

\* What must be made first.
Needs == [g \in Gens |->
    CASE g = "assets" -> {}
      [] g = "bonus"  -> {"levels"}
      [] g = "bosses" -> {"levels", "frames"}
      [] OTHER        -> {"assets"}]

\* In the order they are written; the first is what others read.
Outputs == [g \in Gens |->
    CASE g = "assets"       -> <<"manifest">>
      [] g = "presentation" -> <<"presentation", "presentation.md">>
      [] g = "trial"        -> <<"trial", "trial.md">>
      [] g = "paths"        -> <<"paths">>
      [] g = "frames"       -> <<"frames">>
      [] g = "levels"       -> <<"levels", "levels.md", "decoded">>
      [] g = "bonus"        -> <<"bonus", "bonus.md">>
      [] g = "bosses"       -> <<"bosses", "bosses.md">>]

Files == UNION {Range(Outputs[g]) : g \in Gens}

\* These write in place, the others to a file of their own that they rename.
PlainWriters == {"paths", "frames", "bosses"}

----------------------------------------------------------------------------
(* What a generator would write now. *)

Present == {a \in Assets : disk[a] # "none"}

Readable(file) == doc[file].hand # "torn"

\* The manifest records the asset, as it is on the disk.
Pinned(asset) ==
    /\ Readable("manifest") /\ doc["manifest"].hand # "payload"
    /\ asset \in doc["manifest"].from.assets /\ disk[asset] = "retail"

LevelFilesOk == facts.sound /\ disk["level"] = "retail"

Made(g, version, from) == [tool |-> tool[g], hand |-> "no", version |-> version, from |-> from]

\* The manifest, when these assets were copied.
ManifestOf(copied) ==
    Unless(~facts.sound, Made("assets", 1, [facts |-> facts.rev, allow |-> allow, assets |-> copied]))

PresentationOf == Unless(~Pinned("sheet") \/ ~Pinned("sound"), Made("presentation", 2, [manifest |-> doc["manifest"]]))

\* Every attack path on the disk, wherever it comes from.
PathsOf ==
    LET paths == {"path", "path2"} \cap Present
    IN  Unless(Cardinality(paths) # 1, Made("paths", 1, [paths |-> {disk[p] : p \in paths}]))

FramesOf == Unless(~LevelFilesOk \/ disk["sheet"] = "none", Made("frames", 11, [sheet |-> disk["sheet"]]))

LevelsOf == Unless(~LevelFilesOk \/ ~Pinned("sheet") \/ ~Readable("levels"), Made("levels", 10, [levels |-> "retail"]))

TrialOf == Unless(~LevelFilesOk, Made("trial", 1, [levels |-> "retail"]))

BonusOf ==
    LET levels == doc["levels"]
    IN  Unless(\/ ~Readable("levels") \/ levels.hand = "payload"
               \/ levels.version \notin 5..10 \/ disk["level"] # "retail",
               Made("bonus", 1, [aliases |-> ModeThreeLevels(levels.version)]))

BossesOf ==
    LET levels == doc["levels"]
    IN  Unless(\/ ~Readable("levels") \/ ~Readable("frames") \/ levels.hand = "payload"
               \/ levels.version \notin 3..10 \/ doc["frames"].version # levels.version + 1,
               Made("bosses", BossVersion(levels.version), [bosses |-> BossLevels(levels.version)]))

Built(g) ==
    CASE g = "assets"       -> ManifestOf(allow)
      [] g = "presentation" -> PresentationOf
      [] g = "trial"        -> TrialOf
      [] g = "paths"        -> PathsOf
      [] g = "frames"       -> FramesOf
      [] g = "levels"       -> LevelsOf
      [] g = "bonus"        -> BonusOf
      [] g = "bosses"       -> BossesOf

----------------------------------------------------------------------------
(* The gate. *)

GateSteps ==
    <<"assets", "presentation", "content", "trial", "paths", "frames", "bonus", "bosses", "levels">>

\* --check, and sprite_atlas_test.py for the frames: every output is what
\* would be written.
Current(g) == Built(g) # Refused /\ \A file \in Range(Outputs[g]) : doc[file] = Built(g)

AssetsCurrent == (\A a \in allow : disk[a] = "retail") /\ Current("assets")

\* ContentRules!ManifestOk: nothing but what the manifest lists is there.
ManifestHolds ==
    LET manifest == doc["manifest"] IN
    /\ Readable("manifest") /\ manifest.hand # "rule"
    /\ manifest.from.allow = allow /\ manifest.from.facts = facts.rev
    /\ \A a \in manifest.from.assets : Pinned(a)
    /\ Present = manifest.from.assets

\* validate_content.py rebuilds the paths and the bonus modes and compares;
\* the frames and the bosses only in versions it no longer builds.
ContentValid ==
    /\ \A file \in {"levels", "frames", "bosses", "trial", "paths", "bonus"} : doc[file].hand \notin {"rule", "torn"}
    /\ doc["frames"].version >= 9 => FramesOf # Refused
    /\ doc["paths"] = PathsOf
    /\ doc["bonus"] = BonusOf
    /\ VersionsPass(doc["levels"].version, doc["frames"].version, doc["bosses"].version, 1, 11,
                    IF BossesOf = Refused THEN 0 ELSE BossesOf.version)
    /\ facts.sound
    /\ ManifestHolds

\* Mutant of StepPasses: validate_content.py is trusted with the frames.
StepPassesFrames(step) ==
    CASE step = "assets"              -> AssetsCurrent
      [] step \in {"content", "frames"} -> ContentValid
      [] OTHER                        -> Current(step)

StepPasses(step) ==
    CASE step = "assets"  -> AssetsCurrent
      [] step = "content" -> ContentValid
      [] OTHER            -> Current(step)

----------------------------------------------------------------------------
(* Steps. *)

Idle == [gen |-> "none", todo |-> <<>>, made |-> Refused, copied |-> {}, clean |-> FALSE]

NoGate == [step |-> 0, state |-> "idle", quiet |-> TRUE, settled |-> FALSE]

OldCompanions == Companions[OldVersion]

ContentInit ==
    /\ facts = [rev |-> 0, sound |-> TRUE]
    /\ allow = Assets \ {"path2"}
    /\ tool = [g \in Gens |-> 0]
    /\ disk = [a \in Assets |-> IF a \in allow THEN "retail" ELSE "none"]
    /\ LET manifest == Made("assets", 1, [facts |-> 0, allow |-> allow, assets |-> allow])
           made == [g \in Gens |->
                       CASE g = "assets"       -> manifest
                         [] g = "presentation" -> Made(g, 2, [manifest |-> manifest])
                         [] g = "paths"        -> Made(g, 1, [paths |-> {"retail"}])
                         [] g = "frames"       -> Made(g, 11, [sheet |-> "retail"])
                         [] g = "levels"       -> Made(g, 10, [levels |-> "retail"])
                         [] g = "trial"        -> Made(g, 1, [levels |-> "retail"])
                         [] g = "bonus"        -> Made(g, 1, [aliases |-> ModeThreeLevels(10)])
                         [] g = "bosses"       -> Made(g, 5, [bosses |-> BossLevels(10)])]
       IN  doc = [file \in Files |-> made[CHOOSE g \in Gens : file \in Range(Outputs[g])]]
    /\ job = Idle /\ gate = NoGate /\ settled = Gens /\ edits = 0

\* Something the gate reads has changed.
Disturb == gate' = IF gate.state = "runs" THEN [gate EXCEPT !.quiet = FALSE] ELSE NoGate

\* Whatever is changed by hand, what was made so far may be out of date.
Edit ==
    /\ edits < MaxEdits
    /\ edits' = edits + 1 /\ settled' = {} /\ job' = [job EXCEPT !.clean = FALSE]
    /\ Disturb

EditFacts ==
    /\ Edit
    /\ \E sound \in BOOLEAN : facts' = [rev |-> facts.rev + 1, sound |-> sound]
    /\ UNCHANGED <<allow, tool, disk, doc>>

EditAllowlist ==
    /\ Edit
    /\ \E a \in Assets : allow' = IF a \in allow THEN allow \ {a} ELSE allow \cup {a}
    /\ UNCHANGED <<facts, tool, disk, doc>>

ReviseTool ==
    /\ Edit
    /\ \E g \in Revisable : tool' = [tool EXCEPT ![g] = @ + 1]
    /\ UNCHANGED <<facts, allow, disk, doc>>

EditAsset ==
    /\ Edit
    /\ \E a \in Assets, state \in {"none", "edited"} : disk[a] # state /\ disk' = [disk EXCEPT ![a] = state]
    /\ UNCHANGED <<facts, allow, tool, doc>>

EditFile ==
    /\ Edit
    /\ \E file \in HandEdited, hand \in {"value", "rule", "payload"} :
         /\ hand = "payload" => file \in {"manifest", "levels"}
         /\ doc' = [doc EXCEPT ![file].hand = hand]
    /\ UNCHANGED <<facts, allow, tool, disk>>

\* Levels, frames and bosses of an older version, as they were then.
CheckOutOlder ==
    /\ Edit
    /\ \E files \in {{"levels"}, {"levels", "frames"}, {"levels", "frames", "bosses"}} :
         doc' = [file \in Files |->
                    IF file \notin files THEN doc[file]
                    ELSE [tool |-> -1, hand |-> "no", from |-> doc[file].from,
                          version |-> CASE file = "levels" -> OldVersion
                                        [] file = "frames" -> OldCompanions.frames
                                        [] file = "bosses" -> OldCompanions.bosses]]
    /\ UNCHANGED <<facts, allow, tool, disk>>

Ready(g) == Needs[g] \subseteq settled

Free == job = Idle /\ gate.state # "runs"

\* extract_original_assets.py copies as it reads.
StartAssets ==
    /\ Free
    /\ job' = [gen |-> "assets", todo |-> SetToSeq(allow), made |-> Refused, copied |-> {}, clean |-> TRUE]
    /\ gate' = NoGate
    /\ UNCHANGED <<facts, allow, tool, disk, doc, settled, edits>>

CopyAsset ==
    /\ job.gen = "assets" /\ job.todo # <<>>
    /\ disk' = [disk EXCEPT ![Head(job.todo)] = "retail"]
    /\ job' = [job EXCEPT !.todo = Tail(@), !.copied = @ \cup {Head(job.todo)}]
    /\ UNCHANGED <<facts, allow, tool, doc, gate, settled, edits>>

\* The allowlist's digest and the facts are read only now.
WriteManifest ==
    /\ job.gen = "assets" /\ job.todo = <<>>
    /\ LET manifest == ManifestOf(job.copied) IN
         IF manifest = Refused THEN UNCHANGED <<doc, settled>>
         ELSE /\ doc' = [doc EXCEPT !["manifest"] = manifest]
              /\ settled' = IF job.clean THEN settled \cup {"assets"} ELSE settled
    /\ job' = Idle
    /\ UNCHANGED <<facts, allow, tool, disk, gate, edits>>

\* The others make everything in memory first; one that refuses its input
\* writes nothing.
StartGenerator ==
    /\ Free
    /\ \E g \in Gens \ {"assets"} :
         /\ Built(g) # Refused
         /\ job' = [gen |-> g, todo |-> Outputs[g], made |-> Built(g), copied |-> {}, clean |-> Ready(g)]
    /\ gate' = NoGate
    /\ UNCHANGED <<facts, allow, tool, disk, doc, settled, edits>>

\* Mutant of WriteOutput: only the JSON is written, not what goes with it.
WriteOutputFirst ==
    /\ job.gen \notin {"none", "assets"}
    /\ doc' = [doc EXCEPT ![Head(job.todo)] = job.made]
    /\ job' = Idle
    /\ settled' = IF job.clean THEN settled \cup {job.gen} ELSE settled
    /\ UNCHANGED <<facts, allow, tool, disk, gate, edits>>

WriteOutput ==
    /\ job.gen \notin {"none", "assets"}
    /\ doc' = [doc EXCEPT ![Head(job.todo)] = job.made]
    /\ IF Len(job.todo) > 1
       THEN job' = [job EXCEPT !.todo = Tail(@)] /\ UNCHANGED settled
       ELSE job' = Idle /\ settled' = (IF job.clean THEN settled \cup {job.gen} ELSE settled)
    /\ UNCHANGED <<facts, allow, tool, disk, gate, edits>>

\* Interrupted: what is written stays, what is not is not.
Interrupt ==
    /\ job # Idle /\ edits < MaxEdits
    /\ job' = Idle /\ edits' = edits + 1
    /\ \/ UNCHANGED <<doc, settled>>
       \/ /\ job.gen \in PlainWriters
          /\ doc' = [doc EXCEPT ![Head(job.todo)].hand = "torn"]
          /\ settled' = settled \ {job.gen}
    /\ UNCHANGED <<facts, allow, tool, disk, gate>>

GateStart ==
    /\ Free
    /\ gate' = [step |-> 1, state |-> "runs", quiet |-> TRUE, settled |-> settled = Gens]
    /\ UNCHANGED <<facts, allow, tool, disk, doc, job, settled, edits>>

GateStep ==
    /\ gate.state = "runs"
    /\ gate' = IF ~StepPasses(GateSteps[gate.step]) THEN [gate EXCEPT !.state = "refused"]
               ELSE IF gate.step = Len(GateSteps) THEN [gate EXCEPT !.state = "passed"]
               ELSE [gate EXCEPT !.step = @ + 1]
    /\ UNCHANGED <<facts, allow, tool, disk, doc, job, settled, edits>>

ContentNext ==
    \/ EditFacts \/ EditAllowlist \/ ReviseTool \/ EditAsset \/ EditFile \/ CheckOutOlder
    \/ StartAssets \/ CopyAsset \/ WriteManifest
    \/ StartGenerator \/ WriteOutput \/ Interrupt
    \/ GateStart \/ GateStep

ContentSpec == ContentInit /\ [][ContentNext]_contentVars

----------------------------------------------------------------------------

\* When make verify has passed and nothing changed while it ran, every
\* generated file is, byte for byte, what its generator would write now, and
\* the assets on the disk are those of the allowlist, as they are in the
\* archive: no edit, revision, interrupted run or older checkout is missed.
VerifyMeansFresh ==
    gate.state = "passed" /\ gate.quiet =>
        /\ \A g \in Gens : Current(g)
        /\ Present = allow
        /\ \A a \in allow : disk[a] = "retail"

\* When every generator has been run to the end, each after those it reads,
\* and nothing was edited since, make verify does not refuse, except for an
\* asset that is no longer on the allowlist: no tool removes it.
RegenerateConverges ==
    gate.state = "refused" /\ gate.quiet /\ gate.settled => Present \ allow # {}
=============================================================================
