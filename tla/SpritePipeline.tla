--------------------------- MODULE SpritePipeline ---------------------------
(***************************************************************************)
(* tools/tripo_pipeline.py: authors write concepts, and runs of the tool   *)
(* turn a concept into a model (gen, which spends credits), into rendered  *)
(* frames (render, through Godot), into finished frames (post) and into    *)
(* the textures and the manifest of a sprite pack (sheet); "all" does the  *)
(* four in a row.  Nothing is kept in memory between two runs: all that    *)
(* lasts is files, each replaced atomically, one after the other, and a    *)
(* run may stop between any two of them (an exception, a failed request,   *)
(* Ctrl-C, a full disk).  Several authors share the pack; one concept has  *)
(* at most one run at a time.                                              *)
(*                                                                         *)
(* An image is abstracted to the models it was made from: a generated      *)
(* model is the number of the task that made it, a --glb file is Override. *)
(***************************************************************************)
EXTENDS Naturals, Sequences, SequencesExt, FiniteSets

CONSTANTS
    Authors,      \* who run the tool
    Concepts,     \* names under tools/sprite_concepts
    Prompts,      \* what a concept and its style may ask for
    ShotsOf,      \* [Concepts -> Seq(Shots)]: KIND_SHOTS of the concept's kind
    KeysOf,       \* [Concepts -> Seq(Keys)]: the sheet and its recolours and masks
    RetailKeys,   \* keys the retail manifest has as textures, at the size the sheet has
    Override,     \* a model given with --glb
    MaxTasks,     \* bound: generations submitted
    MaxRuns,      \* bound: runs started
    None

Shots == UNION {ToSet(ShotsOf[c]) : c \in Concepts}
Keys == UNION {ToSet(KeysOf[c]) : c \in Concepts}
Models == 1..MaxTasks \cup {Override}
Commands == <<"gen", "render", "post", "sheet">>

ASSUME PipelineAssumption ==
    /\ MaxTasks \in Nat
    /\ None \notin Concepts
    /\ None \notin 1..MaxTasks
    /\ \A c \in Concepts : ShotsOf[c] \in Seq(Shots) /\ KeysOf[c] \in Seq(Keys)

\* Nothing in the tool keeps two concepts from naming one key; those that are
\* there do not.  A concept that names none has no sheet.  Nor does cmd_sheet look at
\* the kind of a manifest entry, which cmd_validate does: that the entries the concepts
\* name are textures, and none a hit mask, is assumed as well (RetailKeys).
ASSUME KeysAssumption ==
    /\ \A c \in Concepts : KeysOf[c] # <<>>
    /\ \A c, d \in Concepts : c # d => ToSet(KeysOf[c]) \cap ToSet(KeysOf[d]) = {}

VARIABLES
    concept,   \* what each concept file asks for at present
    tasks,     \* how many generations have been submitted, each of them paid
    work,      \* build/sprite_pipeline/<concept>: model, meta, frames, post
    textures,  \* the PNG files of the pack: what each was made from
    manifest,  \* pack.json: the task each entry names
    runs,      \* what each author's run is doing
    started    \* how many runs there have been

pipelineVars == <<concept, tasks, work, textures, manifest, runs, started>>

Procedural(c) == ShotsOf[c] = <<>>

NoFiles == [k \in {} |-> None]

\* The old files or entries with the new ones added or put in their place.
Upserted(new, old) ==
    [k \in DOMAIN new \cup DOMAIN old |-> IF k \in DOMAIN new THEN new[k] ELSE old[k]]

EmptyWork == [model |-> None, meta |-> None, frames |-> [s \in Shots |-> {}], post |-> [s \in Shots |-> {}]]

Idle == [command |-> "idle", chain |-> FALSE, concept |-> None, force |-> FALSE, glb |-> FALSE,
         step |-> "begin", prompt |-> None, task |-> None, next |-> 1, made |-> {}, view |-> NoFiles]

PipelineInit ==
    /\ concept \in {[c \in Concepts |-> p] : p \in Prompts}
    /\ tasks = 0
    /\ work = [c \in Concepts |-> EmptyWork]
    /\ textures = NoFiles
    /\ manifest = NoFiles
    /\ runs = [a \in Authors |-> Idle]
    /\ started = 0

----------------------------------------------------------------------------
(* The course of a run. *)

At(a, command, step) == runs[a].command = command /\ runs[a].step = step

Goes(a, r) == runs' = [runs EXCEPT ![a] = r]

Onward(r) == [r EXCEPT !.next = @ + 1]

\* An exit code other than 0, a SystemExit, an exception or a kill.
Ends(a) == runs' = [runs EXCEPT ![a] = Idle]

\* cmd_all: the next command follows only when this one returned 0.
Returns(a) ==
    LET r == runs[a]
        i == CHOOSE j \in DOMAIN Commands : Commands[j] = r.command
    IN  runs' = [runs EXCEPT ![a] =
            IF r.chain /\ i < Len(Commands)
            THEN [Idle EXCEPT !.command = Commands[i + 1], !.chain = TRUE, !.concept = r.concept,
                              !.glb = r.glb]
            ELSE Idle]

Start(a) ==
    /\ runs[a] = Idle
    /\ started < MaxRuns
    /\ started' = started + 1
    /\ \E c \in Concepts, command \in ToSet(Commands), chain, force, glb \in BOOLEAN :
         /\ \A b \in Authors : runs[b].concept # c
         /\ chain => command = "gen"
         /\ force => command = "gen"
         /\ glb => command = "render" \/ chain
         /\ Goes(a, [Idle EXCEPT !.command = command, !.chain = chain, !.concept = c, !.force = force, !.glb = glb])
    /\ UNCHANGED <<concept, tasks, work, textures, manifest>>

Stop(a) ==
    /\ runs[a] # Idle
    /\ Ends(a)
    /\ UNCHANGED <<concept, tasks, work, textures, manifest, started>>

\* The prompt of a procedural concept is read by nobody.
Edit(c) ==
    /\ ~Procedural(c)
    /\ \E p \in Prompts \ {concept[c]} : concept' = [concept EXCEPT ![c] = p]
    /\ UNCHANGED <<tasks, work, textures, manifest, runs, started>>

----------------------------------------------------------------------------
(* gen *)

Cached(c) == work[c].model # None /\ work[c].meta # None

GenCached(a) ==
    LET c == runs[a].concept IN
    /\ At(a, "gen", "begin")
    /\ \/ Procedural(c)
       \/ Cached(c) /\ ~runs[a].force /\ work[c].meta.prompt = concept[c]
    /\ Returns(a)
    /\ UNCHANGED <<concept, tasks, work, textures, manifest, started>>

GenRefused(a) ==
    LET c == runs[a].concept IN
    /\ At(a, "gen", "begin")
    /\ ~Procedural(c)
    /\ Cached(c) /\ ~runs[a].force /\ work[c].meta.prompt # concept[c]
    /\ Ends(a)
    /\ UNCHANGED <<concept, tasks, work, textures, manifest, started>>

\* Mutant of GenSubmit: the download is skipped.
GenSubmitUnfetched(a) ==
    LET c == runs[a].concept IN
    /\ At(a, "gen", "begin")
    /\ ~Procedural(c)
    /\ ~Cached(c) \/ runs[a].force
    /\ tasks < MaxTasks
    /\ tasks' = tasks + 1
    /\ Goes(a, [runs[a] EXCEPT !.step = "meta", !.prompt = concept[c], !.task = tasks + 1])
    /\ UNCHANGED <<concept, work, textures, manifest, started>>

\* The task is paid for as soon as the service has taken it.
GenSubmit(a) ==
    LET c == runs[a].concept IN
    /\ At(a, "gen", "begin")
    /\ ~Procedural(c)
    /\ ~Cached(c) \/ runs[a].force
    /\ tasks < MaxTasks
    /\ tasks' = tasks + 1
    /\ Goes(a, [runs[a] EXCEPT !.step = "download", !.prompt = concept[c], !.task = tasks + 1])
    /\ UNCHANGED <<concept, work, textures, manifest, started>>

\* A task that failed, or that is not done at the deadline, ends the run (Stop).
GenDownload(a) ==
    /\ At(a, "gen", "download")
    /\ work' = [work EXCEPT ![runs[a].concept].model = runs[a].task]
    /\ Goes(a, [runs[a] EXCEPT !.step = "meta"])
    /\ UNCHANGED <<concept, tasks, textures, manifest, started>>

GenMeta(a) ==
    /\ At(a, "gen", "meta")
    /\ work' = [work EXCEPT ![runs[a].concept].meta = [prompt |-> runs[a].prompt, task |-> runs[a].task]]
    /\ Returns(a)
    /\ UNCHANGED <<concept, tasks, textures, manifest, started>>

----------------------------------------------------------------------------
(* render *)

JobModel(a) == IF runs[a].glb THEN Override ELSE work[runs[a].concept].model

RenderBegin(a) ==
    LET c == runs[a].concept IN
    /\ At(a, "render", "begin")
    /\ CASE Procedural(c)       -> Returns(a)
         [] JobModel(a) = None  -> Ends(a)
         [] OTHER               -> Goes(a, [runs[a] EXCEPT !.step = "godot"])
    /\ UNCHANGED <<concept, tasks, work, textures, manifest, started>>

\* One shot's frames, all of them or, when Godot aborts, the first ones: it
\* leaves with exit code 2 and the tool refuses the report.
RenderShot(a) ==
    LET c == runs[a].concept
        s == ShotsOf[c][runs[a].next]
    IN  /\ At(a, "render", "godot")
        /\ \/ /\ work' = [work EXCEPT ![c].frames[s] = {JobModel(a)}]
              /\ IF runs[a].next < Len(ShotsOf[c]) THEN Goes(a, Onward(runs[a])) ELSE Returns(a)
           \/ /\ work' = [work EXCEPT ![c].frames[s] = @ \cup {JobModel(a)}]
              /\ Ends(a)
        /\ UNCHANGED <<concept, tasks, textures, manifest, started>>

----------------------------------------------------------------------------
(* post *)

\* Mutant of PostShot: a shot that has been posted before is not posted again.
PostShotKept(a) ==
    LET c == runs[a].concept
        n == runs[a].next
        s == ShotsOf[c][n]
        frames == work[c].frames[s]
    IN  /\ At(a, "post", "begin")
        /\ IF Procedural(c) THEN Returns(a) /\ UNCHANGED work
           ELSE /\ work' = [work EXCEPT ![c].post[s] = IF @ # {} THEN @ ELSE frames]
                /\ IF n < Len(ShotsOf[c]) THEN Goes(a, Onward(runs[a])) ELSE Returns(a)
        /\ UNCHANGED <<concept, tasks, textures, manifest, started>>

\* A shot without frames is passed over; the run fails when no shot has any.
PostShot(a) ==
    LET c == runs[a].concept
        n == runs[a].next
        s == ShotsOf[c][n]
        any == \E t \in ToSet(ShotsOf[c]) : work[c].frames[t] # {}
        frames == work[c].frames[s]
    IN  /\ At(a, "post", "begin")
        /\ IF Procedural(c) THEN Returns(a) /\ UNCHANGED work
           ELSE \/ /\ work' = [work EXCEPT ![c].post[s] = IF frames = {} THEN @ ELSE frames]
                   /\ CASE n < Len(ShotsOf[c]) -> Goes(a, Onward(runs[a]))
                        [] n = Len(ShotsOf[c]) /\ any -> Returns(a)
                        [] OTHER -> Ends(a)
                \/ /\ frames # {}
                   /\ work' = [work EXCEPT ![c].post[s] = @ \cup frames]
                   /\ Ends(a)
        /\ UNCHANGED <<concept, tasks, textures, manifest, started>>

----------------------------------------------------------------------------
(* sheet *)

\* What a sheet is made from; a procedural one is drawn by the tool itself.
SheetOf(c) == UNION {work[c].post[s] : s \in ToSet(ShotsOf[c])}

\* Only the first shot (directional, banking) must have frames.
SheetBegin(a) ==
    LET c == runs[a].concept IN
    /\ At(a, "sheet", "begin")
    /\ IF ~Procedural(c) /\ work[c].post[ShotsOf[c][1]] = {}
       THEN Ends(a)
       ELSE Goes(a, [runs[a] EXCEPT !.step = "keys", !.made = SheetOf(c),
                     !.task = IF work[c].meta = None THEN None ELSE work[c].meta.task])
    /\ UNCHANGED <<concept, tasks, work, textures, manifest, started>>

\* Mutant of SheetKey: the last key is left out.
SheetKeyShort(a) ==
    LET c == runs[a].concept
        n == runs[a].next
        k == KeysOf[c][n]
    IN  /\ At(a, "sheet", "keys")
        /\ IF k \notin RetailKeys
           THEN Ends(a) /\ UNCHANGED textures
           ELSE /\ textures' = Upserted([j \in {k} |-> runs[a].made], textures)
                /\ IF n + 1 < Len(KeysOf[c]) THEN Goes(a, Onward(runs[a])) ELSE Goes(a, [runs[a] EXCEPT !.step = "load"])
        /\ UNCHANGED <<concept, tasks, work, manifest, started>>

\* Each key is looked up and measured just before its own file is written.
SheetKey(a) ==
    LET c == runs[a].concept
        n == runs[a].next
        k == KeysOf[c][n]
    IN  /\ At(a, "sheet", "keys")
        /\ IF k \notin RetailKeys
           THEN Ends(a) /\ UNCHANGED textures
           ELSE /\ textures' = Upserted([j \in {k} |-> runs[a].made], textures)
                /\ IF n < Len(KeysOf[c]) THEN Goes(a, Onward(runs[a])) ELSE Goes(a, [runs[a] EXCEPT !.step = "load"])
        /\ UNCHANGED <<concept, tasks, work, manifest, started>>

SheetLoad(a) ==
    /\ At(a, "sheet", "load")
    /\ Goes(a, [runs[a] EXCEPT !.step = "upsert", !.view = manifest])
    /\ UNCHANGED <<concept, tasks, work, textures, manifest, started>>

SheetUpsert(a) ==
    LET r == runs[a] IN
    /\ At(a, "sheet", "upsert")
    /\ manifest' = Upserted([k \in ToSet(KeysOf[r.concept]) |-> r.task], r.view)
    /\ Goes(a, [r EXCEPT !.step = "preview", !.view = NoFiles])
    /\ UNCHANGED <<concept, tasks, work, textures, started>>

SheetPreview(a) ==
    /\ At(a, "sheet", "preview")
    /\ Returns(a)
    /\ UNCHANGED <<concept, tasks, work, textures, manifest, started>>

----------------------------------------------------------------------------

PipelineNext ==
    \/ \E a \in Authors :
         \/ Start(a) \/ Stop(a)
         \/ GenCached(a) \/ GenRefused(a) \/ GenSubmit(a) \/ GenDownload(a) \/ GenMeta(a)
         \/ RenderBegin(a) \/ RenderShot(a)
         \/ PostShot(a)
         \/ SheetBegin(a) \/ SheetKey(a) \/ SheetLoad(a) \/ SheetUpsert(a) \/ SheetPreview(a)
    \/ \E c \in Concepts : Edit(c)

(***************************************************************************)
(* cmd_validate: what the offline gate says of the pack as it stands.      *)
(***************************************************************************)
PackErrors == {k \in DOMAIN manifest : k \notin RetailKeys \/ k \notin DOMAIN textures}

----------------------------------------------------------------------------

PipelineSpec == PipelineInit /\ [][PipelineNext]_pipelineVars

----------------------------------------------------------------------------
(***************************************************************************)
(* The state has its type.                                                 *)
(***************************************************************************)
PipelineTypeOK ==
    /\ concept \in [Concepts -> Prompts]
    /\ tasks \in 0..MaxTasks
    /\ work \in [Concepts -> [model : 1..MaxTasks \cup {None},
                              meta : [prompt : Prompts, task : 1..MaxTasks] \cup {None},
                              frames : [Shots -> SUBSET Models],
                              post : [Shots -> SUBSET Models]]]
    /\ \A k \in DOMAIN textures : k \in RetailKeys /\ textures[k] \subseteq Models
    /\ \A k \in DOMAIN manifest : manifest[k] \in 1..MaxTasks \cup {None}

(***************************************************************************)
(* The gate never refuses a pack for what the tool wrote: whoever works on *)
(* it at the same time and wherever a run stops, an entry of pack.json     *)
(* names a retail texture and its file exists (cmd_sheet writes the files  *)
(* first and the manifest once all of them are there).                     *)
(***************************************************************************)
PackAlwaysValid == PackErrors = {}

(***************************************************************************)
(* What gen calls cached is a model that was downloaded: meta.json never   *)
(* names a generation whose model is not on disk, at most one that a later *)
(* generation has replaced.                                                *)
(***************************************************************************)
MetaNeverAhead ==
    \A c \in Concepts : work[c].meta # None =>
        work[c].model # None /\ work[c].meta.task <= work[c].model

(***************************************************************************)
(* "all" delivers: when it returns 0, every texture of the concept is made *)
(* of the model the run was about and of no other, whatever earlier runs,  *)
(* stopped anywhere, have left in the work directory.                      *)
(***************************************************************************)
Finishes(a) == runs[a].chain /\ At(a, "sheet", "preview") /\ SheetPreview(a)

AllDelivers ==
    [][\A a \in Authors : Finishes(a) =>
        LET c == runs[a].concept IN
        Procedural(c) \/ \A k \in ToSet(KeysOf[c]) : textures[k] = {JobModel(a)}]_pipelineVars
=============================================================================
