----------------------- MODULE SpritePipelineProofs -----------------------
(* Theorems about SpritePipeline, for any authors, concepts and keys. *)
EXTENDS SpritePipeline, TLAPS

---------------------------------------------------------------------------
(* The inductive invariant: what a run may rely on between two of its      *)
(* steps, although other runs go on and any of them may stop at any step.  *)

Task == 1..MaxTasks

Meta == [prompt : Prompts, task : Task]

WorkType == [model : Task \cup {None}, meta : Meta \cup {None},
             frames : [Shots -> SUBSET Models], post : [Shots -> SUBSET Models]]

Fields == {"command", "chain", "concept", "force", "glb", "step", "prompt", "task", "next", "made", "view"}

\* A generation is never older than what it has replaced.
GoodWork(w, t) ==
    /\ w \in WorkType
    /\ w.model # None => w.model <= t
    /\ w.meta # None => w.model # None /\ w.meta.task <= w.model

\* What a run of concept r.concept holds, w being its work directory, t the
\* tasks submitted and x the textures that are there.
Busy(r, w, t, x) ==
    /\ r.concept \in Concepts /\ r.next \in Nat /\ r.made \subseteq Models /\ r.task \in Task \cup {None}
    /\ r.command = "gen" /\ r.step \in {"download", "meta"} =>
         /\ r.task \in Task /\ r.prompt \in Prompts /\ r.task <= t
         /\ w.model # None => w.model <= r.task
    /\ r.command = "gen" /\ r.step = "meta" => w.model = r.task
    /\ r.command = "render" /\ r.step = "godot" => r.glb \/ w.model # None
    /\ r.command = "sheet" /\ r.step = "begin" => r.next = 1
    /\ r.command = "sheet" /\ r.step = "keys" =>
         \A i \in DOMAIN KeysOf[r.concept] : i < r.next => KeysOf[r.concept][i] \in RetailKeys \cap x
    /\ r.command = "sheet" /\ r.step \in {"load", "upsert"} => ToSet(KeysOf[r.concept]) \subseteq RetailKeys \cap x
    /\ \A k \in DOMAIN r.view : k \in x /\ r.view[k] \in Task \cup {None}

GoodRun(r, w, t, x) == DOMAIN r = Fields /\ (r = Idle \/ Busy(r, w, t, x))

OneRunEach ==
    \A a, b \in Authors : a # b /\ runs[a].concept = runs[b].concept => runs[a].concept = None

GoodPack ==
    /\ \A k \in DOMAIN textures : k \in RetailKeys /\ textures[k] \subseteq Models
    /\ \A k \in DOMAIN manifest : k \in DOMAIN textures /\ manifest[k] \in Task \cup {None}

Inv ==
    /\ concept \in [Concepts -> Prompts]
    /\ tasks \in 0..MaxTasks
    /\ DOMAIN work = Concepts /\ work = [c \in Concepts |-> work[c]]
    /\ \A c \in Concepts : GoodWork(work[c], tasks)
    /\ GoodPack
    /\ DOMAIN runs = Authors
    /\ \A a \in Authors : GoodRun(runs[a], work[runs[a].concept], tasks, DOMAIN textures)
    /\ OneRunEach

---------------------------------------------------------------------------
(* The records. *)

LEMMA IdleGood ==
    /\ DOMAIN Idle = Fields /\ Idle.concept = None /\ Idle.command = "idle"
    /\ \A w, t, x : GoodRun(Idle, w, t, x)
BY DEF Idle, Fields, GoodRun

LEMMA EmptyWorkGood == ASSUME NEW t PROVE GoodWork(EmptyWork, t)
<1>1. EmptyWork \in WorkType
  BY DEF EmptyWork, WorkType
<1>. QED  BY <1>1 DEF GoodWork, EmptyWork

\* What other runs do only adds tasks and textures.
LEMMA RunKept ==
    ASSUME NEW r, NEW w, NEW t \in Nat, NEW u \in Nat, NEW x, NEW y,
           t <= u, x \subseteq y, GoodRun(r, w, t, x)
    PROVE  GoodRun(r, w, u, y)
<1>1. CASE r = Idle  BY <1>1 DEF GoodRun
<1>2. CASE Busy(r, w, t, x)
  <2>1. Busy(r, w, u, y)
    BY <1>2, PipelineAssumption, SMTT(30) DEF Busy, Task
  <2>. QED  BY <2>1 DEF GoodRun
<1>. QED  BY <1>1, <1>2 DEF GoodRun

LEMMA WorkKept ==
    ASSUME NEW w, NEW t \in Nat, NEW u \in Nat, t <= u, GoodWork(w, t)
    PROVE  GoodWork(w, u)
BY PipelineAssumption DEF GoodWork, WorkType, Task

\* The keys of a sheet are the entries of its sequence.
LEMMA KeysOfConcept ==
    ASSUME NEW c \in Concepts
    PROVE  /\ DOMAIN KeysOf[c] = 1..Len(KeysOf[c]) /\ Len(KeysOf[c]) \in Nat
           /\ \A i \in DOMAIN KeysOf[c] : KeysOf[c][i] \in ToSet(KeysOf[c])
           /\ \A k \in ToSet(KeysOf[c]) : \E i \in DOMAIN KeysOf[c] : KeysOf[c][i] = k
<1>1. KeysOf[c] \in Seq(Keys)  BY PipelineAssumption
<1>. QED  BY <1>1 DEF ToSet

---------------------------------------------------------------------------
(* One step of one run: it leaves the concept's own work directory, the    *)
(* pack and itself as they should be, so the others are where they were.   *)

LEMMA StepInv ==
    ASSUME Inv, NEW a \in Authors, NEW r, DOMAIN r = Fields, NEW w,
           runs' = [runs EXCEPT ![a] = r],
           work' = [work EXCEPT ![runs[a].concept] = w],
           runs[a].concept \in Concepts,
           r.concept \in {None, runs[a].concept},
           GoodWork(w, tasks'),
           tasks' \in 0..MaxTasks, tasks <= tasks',
           DOMAIN textures \subseteq DOMAIN textures',
           GoodPack', concept' = concept,
           r = Idle \/ Busy(r, w, tasks', DOMAIN textures')
    PROVE  Inv'
<1>. DEFINE c == runs[a].concept
<1>. tasks \in Nat /\ tasks' \in Nat  BY PipelineAssumption DEF Inv
<1>1. concept' \in [Concepts -> Prompts] /\ DOMAIN work' = Concepts /\ work' = [d \in Concepts |-> work'[d]]
  BY DEF Inv
<1>2. \A d \in Concepts : GoodWork(work'[d], tasks')
  <2>1. TAKE d \in Concepts
  <2>2. CASE d = c  BY <2>2 DEF Inv
  <2>3. CASE d # c  BY <2>3, WorkKept DEF Inv
  <2>. QED  BY <2>2, <2>3
<1>3. DOMAIN runs' = Authors /\ runs'[a] = r /\ \A b \in Authors \ {a} : runs'[b] = runs[b]
  BY DEF Inv
<1>4. \A b \in Authors \ {a} : runs[b].concept # c
  BY PipelineAssumption DEF Inv, OneRunEach
<1>5. \A b \in Authors : GoodRun(runs'[b], work'[runs'[b].concept], tasks', DOMAIN textures')
  <2>1. TAKE b \in Authors
  <2>2. CASE b = a
    <3>1. CASE r = Idle  BY <1>3, <2>2, <3>1 DEF GoodRun
    <3>2. CASE Busy(r, w, tasks', DOMAIN textures')
      <4>1. r.concept = c  BY <3>2, PipelineAssumption DEF Busy
      <4>2. work'[r.concept] = w  BY <4>1 DEF Inv
      <4>. QED  BY <1>3, <2>2, <3>2, <4>2 DEF GoodRun
    <3>. QED  BY <3>1, <3>2
  <2>3. CASE b # a
    <3>1. runs'[b] = runs[b] /\ work'[runs[b].concept] = work[runs[b].concept]
      BY <1>3, <1>4, <2>3 DEF Inv
    <3>2. GoodRun(runs[b], work[runs[b].concept], tasks, DOMAIN textures)
      BY DEF Inv
    <3>. QED  BY <3>1, <3>2, RunKept
  <2>. QED  BY <2>2, <2>3
<1>6. OneRunEach'
  BY <1>3, <1>4, IdleGood DEF Inv, OneRunEach
<1>. QED  BY <1>1, <1>2, <1>3, <1>5, <1>6 DEF Inv

\* A step that writes nothing of the concept's own.
LEMMA MoveInv ==
    ASSUME Inv, NEW a \in Authors, NEW r, DOMAIN r = Fields,
           runs' = [runs EXCEPT ![a] = r], UNCHANGED <<concept, tasks, work>>,
           runs[a].concept \in Concepts,
           r.concept \in {None, runs[a].concept},
           DOMAIN textures \subseteq DOMAIN textures', GoodPack',
           r = Idle \/ Busy(r, work[runs[a].concept], tasks, DOMAIN textures')
    PROVE  Inv'
<1>1. work' = [work EXCEPT ![runs[a].concept] = work[runs[a].concept]]  BY DEF Inv
<1>2. GoodWork(work[runs[a].concept], tasks')  BY DEF Inv
<1>3. tasks' \in 0..MaxTasks /\ tasks <= tasks'  BY PipelineAssumption DEF Inv
<1>. QED  BY <1>1, <1>2, <1>3, StepInv

\* Returning or ending frees the author; nothing else is asked of the step.
LEMMA ReturnsInv ==
    ASSUME Inv, NEW a \in Authors, Returns(a), runs[a].concept \in Concepts,
           UNCHANGED <<concept, tasks, textures, manifest>>,
           NEW w, work' = [work EXCEPT ![runs[a].concept] = w], GoodWork(w, tasks)
    PROVE  Inv'
<1>. DEFINE r == runs[a]
            i == CHOOSE j \in DOMAIN Commands : Commands[j] = r.command
            n == [Idle EXCEPT !.command = Commands[i + 1], !.chain = TRUE, !.concept = r.concept, !.glb = r.glb]
<1>1. tasks' \in 0..MaxTasks /\ tasks <= tasks' /\ GoodPack'
  BY PipelineAssumption DEF Inv, GoodPack
<1>2. CASE runs' = [runs EXCEPT ![a] = Idle]
  BY <1>1, <1>2, StepInv, IdleGood
<1>3. CASE runs' = [runs EXCEPT ![a] = n]
  <2>1. DOMAIN n = Fields /\ n.concept = r.concept /\ n.step = "begin" /\ n.next = 1 /\ n.made = {}
        /\ n.task = None /\ DOMAIN n.view = {}
    BY DEF Idle, Fields, NoFiles
  <2>. HIDE DEF n
  <2>2. Busy(n, w, tasks', DOMAIN textures')
    BY <2>1 DEF Busy
  <2>. QED  BY <1>1, <1>3, <2>1, <2>2, StepInv
<1>. QED  BY <1>2, <1>3 DEF Returns

LEMMA EndsInv ==
    ASSUME Inv, NEW a \in Authors, Ends(a), runs[a].concept \in Concepts,
           UNCHANGED <<concept, tasks, textures, manifest>>,
           NEW w, work' = [work EXCEPT ![runs[a].concept] = w], GoodWork(w, tasks)
    PROVE  Inv'
<1>1. tasks' \in 0..MaxTasks /\ tasks <= tasks' /\ GoodPack'
  BY PipelineAssumption DEF Inv, GoodPack
<1>. QED  BY <1>1, StepInv, IdleGood DEF Ends

\* A run that is anywhere but idle is of a concept.
LEMMA RunningFacts ==
    ASSUME Inv, NEW a \in Authors, runs[a] # Idle
    PROVE  LET c == runs[a].concept
           IN  /\ c \in Concepts /\ DOMAIN runs[a] = Fields
               /\ Busy(runs[a], work[c], tasks, DOMAIN textures)
               /\ GoodWork(work[c], tasks)
               /\ work = [work EXCEPT ![c] = work[c]]
BY DEF Inv, GoodRun, Busy

LEMMA AtFacts ==
    ASSUME NEW a, NEW command, NEW step, At(a, command, step), command # "idle"
    PROVE  runs[a] # Idle /\ runs[a].command = command /\ runs[a].step = step
BY IdleGood DEF At

---------------------------------------------------------------------------
(* The actions. *)

LEMMA StartInv == ASSUME Inv, NEW a \in Authors, Start(a) PROVE Inv'
<1>1. PICK c \in Concepts, command \in ToSet(Commands), chain, force, glb \in BOOLEAN :
        /\ \A b \in Authors : runs[b].concept # c
        /\ Goes(a, [Idle EXCEPT !.command = command, !.chain = chain, !.concept = c, !.force = force, !.glb = glb])
  BY DEF Start
<1>. DEFINE r == [Idle EXCEPT !.command = command, !.chain = chain, !.concept = c, !.force = force, !.glb = glb]
<1>2. DOMAIN r = Fields /\ r.concept = c /\ r.step = "begin" /\ r.next = 1 /\ r.made = {}
      /\ r.task = None /\ DOMAIN r.view = {}
  BY DEF Idle, Fields, NoFiles
<1>3. runs' = [runs EXCEPT ![a] = r]  BY <1>1 DEF Goes
<1>. HIDE DEF r
<1>4. Busy(r, work[c], tasks, DOMAIN textures)
  BY <1>2 DEF Busy
<1>5. UNCHANGED <<concept, tasks, work, textures, manifest>>  BY DEF Start
<1>6. DOMAIN runs' = Authors /\ runs'[a] = r /\ \A b \in Authors \ {a} : runs'[b] = runs[b]
  BY <1>3 DEF Inv
<1>7. \A b \in Authors : GoodRun(runs'[b], work'[runs'[b].concept], tasks', DOMAIN textures')
  BY <1>2, <1>4, <1>5, <1>6 DEF Inv, GoodRun
<1>8. OneRunEach'
  BY <1>1, <1>2, <1>6 DEF Inv, OneRunEach
<1>. QED  BY <1>5, <1>6, <1>7, <1>8 DEF Inv, GoodPack

LEMMA StopInv == ASSUME Inv, NEW a \in Authors, Stop(a) PROVE Inv'
BY RunningFacts, EndsInv DEF Stop

LEMMA EditInv == ASSUME Inv, NEW c \in Concepts, Edit(c) PROVE Inv'
<1>1. concept' \in [Concepts -> Prompts] /\ UNCHANGED <<tasks, work, textures, manifest, runs>>
  BY DEF Edit, Inv
<1>. QED  BY <1>1 DEF Inv, GoodPack, OneRunEach

LEMMA GenCachedInv == ASSUME Inv, NEW a \in Authors, GenCached(a) PROVE Inv'
<1>1. runs[a] # Idle  BY AtFacts DEF GenCached
<1>. QED  BY <1>1, RunningFacts, ReturnsInv DEF GenCached

LEMMA GenRefusedInv == ASSUME Inv, NEW a \in Authors, GenRefused(a) PROVE Inv'
<1>1. runs[a] # Idle  BY AtFacts DEF GenRefused
<1>. QED  BY <1>1, RunningFacts, EndsInv DEF GenRefused

\* The new task is the latest of all.
LEMMA GenSubmitInv == ASSUME Inv, NEW a \in Authors, GenSubmit(a) PROVE Inv'
<1>. DEFINE c == runs[a].concept
            r == [runs[a] EXCEPT !.step = "download", !.prompt = concept[c], !.task = tasks + 1]
<1>1. runs[a] # Idle /\ runs[a].command = "gen"  BY AtFacts DEF GenSubmit
<1>2. runs' = [runs EXCEPT ![a] = r] /\ tasks < MaxTasks /\ tasks' = tasks + 1
      /\ UNCHANGED <<concept, work, textures, manifest>>
  BY DEF GenSubmit, Goes
<1>3. c \in Concepts /\ DOMAIN runs[a] = Fields /\ Busy(runs[a], work[c], tasks, DOMAIN textures)
      /\ GoodWork(work[c], tasks) /\ work = [work EXCEPT ![c] = work[c]]
  BY <1>1, RunningFacts
<1>4. DOMAIN r = Fields /\ r.command = "gen" /\ r.step = "download" /\ r.prompt = concept[c] /\ r.task = tasks + 1
      /\ r.concept = c /\ r.next = runs[a].next /\ r.made = runs[a].made /\ r.view = runs[a].view
  BY <1>1, <1>3 DEF Fields
<1>. HIDE DEF r
<1>5. tasks \in Nat /\ MaxTasks \in Nat /\ tasks' \in 0..MaxTasks /\ tasks + 1 \in Task
      /\ tasks <= tasks' /\ concept[c] \in Prompts
  BY <1>2, <1>3, PipelineAssumption DEF Inv, Task
<1>6. GoodWork(work[c], tasks')  BY <1>3, <1>5, WorkKept
<1>7. work[c].model # None => work[c].model <= tasks + 1
  BY <1>2, <1>6 DEF GoodWork
<1>8. Busy(r, work[c], tasks', DOMAIN textures')
  BY <1>2, <1>3, <1>4, <1>5, <1>7 DEF Busy
<1>9. GoodPack'  BY <1>2 DEF Inv, GoodPack
<1>. QED  BY <1>2, <1>3, <1>4, <1>5, <1>6, <1>8, <1>9, StepInv

LEMMA GenDownloadInv == ASSUME Inv, NEW a \in Authors, GenDownload(a) PROVE Inv'
<1>. DEFINE c == runs[a].concept
            r == [runs[a] EXCEPT !.step = "meta"]
            w == [work[c] EXCEPT !.model = runs[a].task]
<1>1. runs[a] # Idle /\ runs[a].command = "gen" /\ runs[a].step = "download"  BY AtFacts DEF GenDownload
<1>2. runs' = [runs EXCEPT ![a] = r] /\ work' = [work EXCEPT ![c] = w]
      /\ UNCHANGED <<concept, tasks, textures, manifest>>
  <2>1. work' = [work EXCEPT ![c].model = runs[a].task]  BY DEF GenDownload
  <2>2. work' = [work EXCEPT ![c] = [work[c] EXCEPT !.model = runs[a].task]]  BY <2>1
  <2>. QED  BY <2>2 DEF GenDownload, Goes
<1>3. c \in Concepts /\ DOMAIN runs[a] = Fields /\ Busy(runs[a], work[c], tasks, DOMAIN textures)
      /\ GoodWork(work[c], tasks)
  BY <1>1, RunningFacts
<1>4. DOMAIN r = Fields /\ r.command = "gen" /\ r.step = "meta" /\ r.prompt = runs[a].prompt /\ r.task = runs[a].task
      /\ r.concept = c /\ r.next = runs[a].next /\ r.made = runs[a].made /\ r.view = runs[a].view
  BY <1>1, <1>3 DEF Fields
<1>5. runs[a].task \in Task /\ runs[a].task <= tasks /\ runs[a].prompt \in Prompts
      /\ (work[c].model # None => work[c].model <= runs[a].task)
  BY <1>1, <1>3 DEF Busy
<1>6. w \in WorkType /\ w.model = runs[a].task /\ w.meta = work[c].meta
  BY <1>3, <1>5 DEF GoodWork, WorkType
<1>. HIDE DEF r, w
<1>7. GoodWork(w, tasks)
  BY <1>3, <1>5, <1>6, PipelineAssumption DEF GoodWork, WorkType, Task, Meta
<1>8. Busy(r, w, tasks, DOMAIN textures)
  BY <1>3, <1>4, <1>5, <1>6, PipelineAssumption DEF Busy, Task
<1>9. GoodPack' /\ tasks' \in 0..MaxTasks /\ tasks <= tasks'
  BY <1>2, PipelineAssumption DEF Inv, GoodPack
<1>. QED  BY <1>2, <1>3, <1>4, <1>7, <1>8, <1>9, StepInv

LEMMA GenMetaInv == ASSUME Inv, NEW a \in Authors, GenMeta(a) PROVE Inv'
<1>. DEFINE c == runs[a].concept
            w == [work[c] EXCEPT !.meta = [prompt |-> runs[a].prompt, task |-> runs[a].task]]
<1>1. runs[a] # Idle /\ runs[a].command = "gen" /\ runs[a].step = "meta"  BY AtFacts DEF GenMeta
<1>2. work' = [work EXCEPT ![c] = w] /\ UNCHANGED <<concept, tasks, textures, manifest>>
  <2>1. work' = [work EXCEPT ![c].meta = [prompt |-> runs[a].prompt, task |-> runs[a].task]]  BY DEF GenMeta
  <2>2. work' = [work EXCEPT ![c] = [work[c] EXCEPT !.meta = [prompt |-> runs[a].prompt, task |-> runs[a].task]]]
    BY <2>1
  <2>. QED  BY <2>2 DEF GenMeta
<1>3. c \in Concepts /\ Busy(runs[a], work[c], tasks, DOMAIN textures) /\ GoodWork(work[c], tasks)
  BY <1>1, RunningFacts
<1>4. runs[a].task \in Task /\ runs[a].task <= tasks /\ runs[a].prompt \in Prompts /\ work[c].model = runs[a].task
  BY <1>1, <1>3 DEF Busy
<1>5. w \in WorkType /\ w.model = runs[a].task /\ w.meta.task = runs[a].task
  BY <1>3, <1>4 DEF GoodWork, WorkType, Meta
<1>. HIDE DEF w
<1>6. GoodWork(w, tasks)
  BY <1>4, <1>5, PipelineAssumption DEF GoodWork, Task
<1>. QED  BY <1>2, <1>3, <1>6, ReturnsInv DEF GenMeta

\* A run goes to a step of its own that asks no more than it has.
LEMMA OnwardInv ==
    ASSUME Inv, NEW a \in Authors, Goes(a, Onward(runs[a])), runs[a] # Idle,
           runs[a].command \in {"render", "post"},
           runs[a].command = "render" => ~(runs[a].glb = FALSE /\ work[runs[a].concept].model = None),
           UNCHANGED <<concept, tasks, textures, manifest>>,
           NEW w, work' = [work EXCEPT ![runs[a].concept] = w], GoodWork(w, tasks),
           w.model = work[runs[a].concept].model
    PROVE  Inv'
<1>. DEFINE c == runs[a].concept
            r == Onward(runs[a])
<1>1. c \in Concepts /\ DOMAIN runs[a] = Fields /\ Busy(runs[a], work[c], tasks, DOMAIN textures)
  BY RunningFacts
<1>2. runs[a].next \in Nat  BY <1>1 DEF Busy
<1>3. DOMAIN r = Fields /\ r.command = runs[a].command /\ r.step = runs[a].step /\ r.task = runs[a].task
      /\ r.concept = c /\ r.next = runs[a].next + 1 /\ r.made = runs[a].made /\ r.view = runs[a].view
      /\ r.glb = runs[a].glb
  BY <1>1 DEF Onward, Fields
<1>6. runs' = [runs EXCEPT ![a] = r]  BY DEF Goes
<1>. HIDE DEF r
<1>4. Busy(r, w, tasks', DOMAIN textures')
  BY <1>1, <1>2, <1>3 DEF Busy
<1>5. GoodPack' /\ tasks' \in 0..MaxTasks /\ tasks <= tasks'
  BY PipelineAssumption DEF Inv, GoodPack
<1>. QED  BY <1>1, <1>3, <1>4, <1>5, <1>6, StepInv

\* The frames of one shot, rendered or posted.
LEMMA FramesGood ==
    ASSUME NEW w, NEW t \in Nat, GoodWork(w, t), NEW g \in [Shots -> SUBSET Models], NEW v,
           v = [w EXCEPT !.frames = g] \/ v = [w EXCEPT !.post = g]
    PROVE  GoodWork(v, t) /\ v.model = w.model
<1>1. w \in WorkType  BY DEF GoodWork
<1>2. v \in WorkType /\ v.model = w.model /\ v.meta = w.meta  BY <1>1 DEF WorkType
<1>. QED  BY <1>2 DEF GoodWork

LEMMA JobModelType ==
    ASSUME Inv, NEW a \in Authors, runs[a] # Idle, runs[a].command = "render", runs[a].step = "godot"
    PROVE  JobModel(a) \in Models /\ ~(runs[a].glb = FALSE /\ work[runs[a].concept].model = None)
<1>. DEFINE c == runs[a].concept
<1>1. Busy(runs[a], work[c], tasks, DOMAIN textures) /\ GoodWork(work[c], tasks)  BY RunningFacts
<1>2. runs[a].glb \/ work[c].model # None  BY <1>1 DEF Busy
<1>3. work[c].model \in Task \cup {None}  BY <1>1 DEF GoodWork, WorkType
<1>. QED  BY <1>2, <1>3 DEF JobModel, Models, Task

LEMMA RenderBeginInv == ASSUME Inv, NEW a \in Authors, RenderBegin(a) PROVE Inv'
<1>. DEFINE c == runs[a].concept
            r == [runs[a] EXCEPT !.step = "godot"]
<1>1. runs[a] # Idle /\ runs[a].command = "render" /\ runs[a].step = "begin"  BY AtFacts DEF RenderBegin
<1>2. c \in Concepts /\ DOMAIN runs[a] = Fields /\ Busy(runs[a], work[c], tasks, DOMAIN textures)
      /\ GoodWork(work[c], tasks) /\ work' = [work EXCEPT ![c] = work[c]]
  BY <1>1, RunningFacts DEF RenderBegin
<1>3. CASE Returns(a)  BY <1>2, <1>3, ReturnsInv DEF RenderBegin
<1>4. CASE Ends(a)  BY <1>2, <1>4, EndsInv DEF RenderBegin
<1>5. CASE JobModel(a) # None /\ Goes(a, r)
  <2>1. DOMAIN r = Fields /\ r.command = "render" /\ r.step = "godot" /\ r.task = runs[a].task
        /\ r.concept = c /\ r.next = runs[a].next /\ r.made = runs[a].made /\ r.view = runs[a].view
        /\ r.glb = runs[a].glb
    BY <1>1, <1>2 DEF Fields
  <2>. HIDE DEF r
  <2>2. r.glb \/ work[c].model # None  BY <1>5, <2>1 DEF JobModel
  <2>3. Busy(r, work[c], tasks, DOMAIN textures)  BY <1>2, <2>1, <2>2 DEF Busy
  <2>4. GoodPack'  BY DEF RenderBegin, Inv, GoodPack
  <2>. QED  BY <1>2, <1>5, <2>1, <2>3, <2>4, MoveInv DEF RenderBegin, Goes
<1>. QED  BY <1>3, <1>4, <1>5 DEF RenderBegin

LEMMA RenderShotInv == ASSUME Inv, NEW a \in Authors, RenderShot(a) PROVE Inv'
<1>. DEFINE c == runs[a].concept
            s == ShotsOf[c][runs[a].next]
<1>1. runs[a] # Idle /\ runs[a].command = "render" /\ runs[a].step = "godot"  BY AtFacts DEF RenderShot
<1>2. c \in Concepts /\ GoodWork(work[c], tasks)  BY <1>1, RunningFacts
<1>3. JobModel(a) \in Models /\ ~(runs[a].glb = FALSE /\ work[c].model = None)  BY <1>1, JobModelType
<1>4. tasks \in Nat /\ c \in DOMAIN work  BY <1>2, PipelineAssumption DEF Inv
<1>5. ASSUME NEW f \in SUBSET Models, work' = [work EXCEPT ![c].frames[s] = f],
             Goes(a, Onward(runs[a])) \/ Returns(a) \/ Ends(a)
      PROVE  Inv'
  <2>. DEFINE g == [work[c].frames EXCEPT ![s] = f]
              w == [work[c] EXCEPT !.frames = g]
  <2>1. work' = [work EXCEPT ![c] = w]  BY <1>5
  <2>3. g \in [Shots -> SUBSET Models]  BY <1>2 DEF GoodWork, WorkType
  <2>. HIDE DEF g
  <2>4. w = [work[c] EXCEPT !.frames = g]  OBVIOUS
  <2>. HIDE DEF w
  <2>2. GoodWork(w, tasks) /\ w.model = work[c].model  BY <1>2, <1>4, <2>3, <2>4, FramesGood
  <2>. QED  BY <1>1, <1>2, <1>3, <1>5, <2>1, <2>2, OnwardInv, ReturnsInv, EndsInv DEF RenderShot
<1>6. {JobModel(a)} \in SUBSET Models  BY <1>3
<1>7. ASSUME s \in Shots PROVE work[c].frames[s] \cup {JobModel(a)} \in SUBSET Models
  BY <1>2, <1>6, <1>7 DEF GoodWork, WorkType
<1>8. CASE work' = [work EXCEPT ![c].frames[s] = {JobModel(a)}]
           /\ (IF runs[a].next < Len(ShotsOf[c]) THEN Goes(a, Onward(runs[a])) ELSE Returns(a))
  BY <1>5, <1>6, <1>8
<1>9. CASE work' = [work EXCEPT ![c].frames[s] = @ \cup {JobModel(a)}] /\ Ends(a)
  <2>1. CASE s \in Shots
    <3>1. work' = [work EXCEPT ![c].frames[s] = work[c].frames[s] \cup {JobModel(a)}]  BY <1>9
    <3>. QED  BY <1>5, <1>7, <1>9, <2>1, <3>1
  <2>2. CASE s \notin Shots
    <3>1. work[c].frames \in [Shots -> SUBSET Models]  BY <1>2 DEF GoodWork, WorkType
    <3>2. [work[c].frames EXCEPT ![s] = @ \cup {JobModel(a)}] = [work[c].frames EXCEPT ![s] = {}]  BY <2>2, <3>1
    <3>3. work' = [work EXCEPT ![c].frames[s] = {}]  BY <1>9, <3>2
    <3>4. {} \in SUBSET Models  OBVIOUS
    <3>. QED  BY <1>5, <1>9, <3>3, <3>4
  <2>. QED  BY <2>1, <2>2
<1>. QED  BY <1>8, <1>9 DEF RenderShot

LEMMA PostShotInv == ASSUME Inv, NEW a \in Authors, PostShot(a) PROVE Inv'
<1>. DEFINE c == runs[a].concept
            n == runs[a].next
            s == ShotsOf[c][n]
            frames == work[c].frames[s]
<1>1. runs[a] # Idle /\ runs[a].command = "post"  BY AtFacts DEF PostShot
<1>2. c \in Concepts /\ GoodWork(work[c], tasks) /\ work = [work EXCEPT ![c] = work[c]]  BY <1>1, RunningFacts
<1>3. tasks \in Nat /\ c \in DOMAIN work /\ work[c].frames \in [Shots -> SUBSET Models]
      /\ work[c].post \in [Shots -> SUBSET Models]
  BY <1>2, PipelineAssumption DEF Inv, GoodWork, WorkType
<1>4. ASSUME NEW f \in SUBSET Models, work' = [work EXCEPT ![c].post[s] = f],
             Goes(a, Onward(runs[a])) \/ Returns(a) \/ Ends(a)
      PROVE  Inv'
  <2>. DEFINE g == [work[c].post EXCEPT ![s] = f]
              w == [work[c] EXCEPT !.post = g]
  <2>1. work' = [work EXCEPT ![c] = w]  BY <1>4
  <2>3. g \in [Shots -> SUBSET Models]  BY <1>3
  <2>. HIDE DEF g
  <2>4. w = [work[c] EXCEPT !.post = g]  OBVIOUS
  <2>. HIDE DEF w
  <2>2. GoodWork(w, tasks) /\ w.model = work[c].model  BY <1>2, <1>3, <2>3, <2>4, FramesGood
  <2>. QED  BY <1>1, <1>2, <1>4, <2>1, <2>2, OnwardInv, ReturnsInv, EndsInv DEF PostShot
<1>5. ASSUME NEW g, s \in Shots => g \in SUBSET Models, work' = [work EXCEPT ![c].post[s] = g],
             Goes(a, Onward(runs[a])) \/ Returns(a) \/ Ends(a)
      PROVE  Inv'
  <2>1. CASE s \in Shots  BY <1>4, <1>5, <2>1
  <2>2. CASE s \notin Shots
    <3>1. [work[c].post EXCEPT ![s] = g] = [work[c].post EXCEPT ![s] = {}]  BY <1>3, <2>2
    <3>2. work' = [work EXCEPT ![c].post[s] = {}]  BY <1>5, <3>1
    <3>3. {} \in SUBSET Models  OBVIOUS
    <3>. QED  BY <1>4, <1>5, <3>2, <3>3
  <2>. QED  BY <2>1, <2>2
<1>6. s \in Shots => frames \in SUBSET Models /\ work[c].post[s] \in SUBSET Models  BY <1>3
<1>7. CASE Procedural(c)
  <2>1. Returns(a) /\ UNCHANGED work  BY <1>7 DEF PostShot
  <2>. QED  BY <1>2, <2>1, ReturnsInv DEF PostShot
<1>8. CASE /\ work' = [work EXCEPT ![c].post[s] = IF frames = {} THEN @ ELSE frames]
           /\ Goes(a, Onward(runs[a])) \/ Returns(a) \/ Ends(a)
  <2>. DEFINE g == IF frames = {} THEN work[c].post[s] ELSE frames
  <2>1. work' = [work EXCEPT ![c].post[s] = g]  BY <1>8
  <2>2. s \in Shots => g \in SUBSET Models  BY <1>6
  <2>. HIDE DEF g
  <2>. QED  BY <1>5, <1>8, <2>1, <2>2
<1>9. CASE work' = [work EXCEPT ![c].post[s] = @ \cup frames] /\ Ends(a)
  <2>. DEFINE g == work[c].post[s] \cup frames
  <2>1. work' = [work EXCEPT ![c].post[s] = g]  BY <1>9
  <2>2. s \in Shots => g \in SUBSET Models  BY <1>6
  <2>. HIDE DEF g
  <2>. QED  BY <1>5, <1>9, <2>1, <2>2
<1>. QED  BY <1>7, <1>8, <1>9 DEF PostShot

LEMMA SheetBeginInv == ASSUME Inv, NEW a \in Authors, SheetBegin(a) PROVE Inv'
<1>. DEFINE c == runs[a].concept
            task == IF work[c].meta = None THEN None ELSE work[c].meta.task
            r == [runs[a] EXCEPT !.step = "keys", !.made = SheetOf(c), !.task = task]
<1>1. runs[a] # Idle /\ runs[a].command = "sheet" /\ runs[a].step = "begin"  BY AtFacts DEF SheetBegin
<1>2. c \in Concepts /\ DOMAIN runs[a] = Fields /\ Busy(runs[a], work[c], tasks, DOMAIN textures)
      /\ GoodWork(work[c], tasks) /\ work' = [work EXCEPT ![c] = work[c]]
  BY <1>1, RunningFacts DEF SheetBegin
<1>3. CASE Ends(a)  BY <1>2, <1>3, EndsInv DEF SheetBegin
<1>4. CASE Goes(a, r)
  <2>1. work[c].post \in [Shots -> SUBSET Models] /\ task \in Task \cup {None}
    BY <1>2 DEF GoodWork, WorkType, Meta
  <2>2. SheetOf(c) \subseteq Models
    <3>1. \A s \in ToSet(ShotsOf[c]) : work[c].post[s] \in SUBSET Models  BY <1>2, <2>1 DEF Shots
    <3>. QED  BY <3>1 DEF SheetOf
  <2>. HIDE DEF task
  <2>3. DOMAIN r = Fields /\ r.command = "sheet" /\ r.step = "keys" /\ r.task = task /\ r.made = SheetOf(c)
        /\ r.concept = c /\ r.next = runs[a].next /\ r.view = runs[a].view
    BY <1>1, <1>2 DEF Fields
  <2>4. runs' = [runs EXCEPT ![a] = r]  BY <1>4 DEF Goes
  <2>. HIDE DEF r
  <2>5. runs[a].next = 1  BY <1>1, <1>2 DEF Busy
  <2>6. Busy(r, work[c], tasks, DOMAIN textures)
    BY <1>2, <2>1, <2>2, <2>3, <2>5, KeysOfConcept DEF Busy
  <2>7. GoodPack'  BY DEF SheetBegin, Inv, GoodPack
  <2>. QED  BY <1>2, <2>3, <2>4, <2>6, <2>7, MoveInv DEF SheetBegin
<1>. QED  BY <1>3, <1>4 DEF SheetBegin

\* The textures are there one by one, and with the last one the whole sheet.
LEMMA SheetKeyInv == ASSUME Inv, NEW a \in Authors, SheetKey(a) PROVE Inv'
<1>. DEFINE c == runs[a].concept
            n == runs[a].next
            k == KeysOf[c][n]
            f == Onward(runs[a])
            g == [runs[a] EXCEPT !.step = "load"]
<1>1. runs[a] # Idle /\ runs[a].command = "sheet" /\ runs[a].step = "keys"  BY AtFacts DEF SheetKey
<1>2. c \in Concepts /\ DOMAIN runs[a] = Fields /\ Busy(runs[a], work[c], tasks, DOMAIN textures)
      /\ work' = [work EXCEPT ![c] = work[c]] /\ GoodWork(work[c], tasks)
      /\ UNCHANGED <<concept, tasks, work, manifest>>
  BY <1>1, RunningFacts DEF SheetKey
<1>3. CASE k \notin RetailKeys
  <2>1. Ends(a) /\ UNCHANGED textures  BY <1>3 DEF SheetKey
  <2>. QED  BY <1>2, <2>1, EndsInv
<1>4. CASE k \in RetailKeys
  <2>1. textures' = Upserted([j \in {k} |-> runs[a].made], textures)
        /\ (IF n < Len(KeysOf[c]) THEN Goes(a, f) ELSE Goes(a, g))
    BY <1>4 DEF SheetKey
  <2>2. DOMAIN textures' = DOMAIN textures \cup {k} /\ textures'[k] = runs[a].made
        /\ \A j \in DOMAIN textures : j # k => textures'[j] = textures[j]
    <3>. DEFINE one == [j \in {k} |-> runs[a].made]
    <3>1. textures' = Upserted(one, textures) /\ DOMAIN one = {k} /\ one[k] = runs[a].made
      BY <2>1
    <3>. HIDE DEF one, k
    <3>2. /\ DOMAIN textures' = DOMAIN one \cup DOMAIN textures
          /\ \A j \in DOMAIN one : textures'[j] = one[j]
          /\ \A j \in DOMAIN textures : j \notin DOMAIN one => textures'[j] = textures[j]
      BY <3>1 DEF Upserted
    <3>. QED  BY <3>1, <3>2
  <2>3. runs[a].made \subseteq Models /\ n \in Nat
        /\ \A i \in DOMAIN KeysOf[c] : i < n => KeysOf[c][i] \in RetailKeys \cap DOMAIN textures
    BY <1>1, <1>2 DEF Busy
  <2>4. GoodPack'
    <3>1. \A j \in DOMAIN textures' : j \in RetailKeys /\ textures'[j] \subseteq Models
      BY <1>4, <2>2, <2>3 DEF Inv, GoodPack
    <3>. QED  BY <1>2, <2>2, <3>1 DEF Inv, GoodPack
  <2>5. \A i \in DOMAIN KeysOf[c] : i <= n => KeysOf[c][i] \in RetailKeys \cap DOMAIN textures'
    BY <1>2, <1>4, <2>2, <2>3, KeysOfConcept
  <2>6. CASE n < Len(KeysOf[c]) /\ runs' = [runs EXCEPT ![a] = f]
    <3>1. DOMAIN f = Fields /\ f.command = "sheet" /\ f.step = "keys" /\ f.task = runs[a].task
          /\ f.made = runs[a].made /\ f.concept = c /\ f.next = n + 1 /\ f.view = runs[a].view
      BY <1>1, <1>2 DEF Onward, Fields
    <3>. HIDE DEF f
    <3>2. \A i \in DOMAIN KeysOf[c] : i < n + 1 => i <= n  BY <1>2, <2>3, KeysOfConcept
    <3>3. \A i \in DOMAIN KeysOf[f.concept] : i < f.next => KeysOf[f.concept][i] \in RetailKeys \cap DOMAIN textures'
      BY <2>5, <3>1, <3>2
    <3>4. \A j \in DOMAIN f.view : j \in DOMAIN textures' /\ f.view[j] \in Task \cup {None}
      BY <1>2, <2>2, <3>1 DEF Busy
    <3>5. f.concept \in Concepts /\ f.next \in Nat /\ f.made \subseteq Models /\ f.task \in Task \cup {None}
      BY <1>2, <2>3, <3>1 DEF Busy
    <3>6. Busy(f, work[c], tasks, DOMAIN textures')
      BY <3>1, <3>3, <3>4, <3>5 DEF Busy
    <3>. QED  BY <1>2, <2>2, <2>4, <2>6, <3>1, <3>6, MoveInv
  <2>7. CASE ~(n < Len(KeysOf[c])) /\ runs' = [runs EXCEPT ![a] = g]
    <3>1. DOMAIN g = Fields /\ g.command = "sheet" /\ g.step = "load" /\ g.task = runs[a].task
          /\ g.made = runs[a].made /\ g.concept = c /\ g.next = n /\ g.view = runs[a].view
      BY <1>1, <1>2 DEF Fields
    <3>. HIDE DEF g
    <3>2. \A i \in DOMAIN KeysOf[c] : i <= n  BY <1>2, <2>3, <2>7, KeysOfConcept
    <3>3. ToSet(KeysOf[c]) \subseteq RetailKeys \cap DOMAIN textures'
      <4>1. \A i \in DOMAIN KeysOf[c] : KeysOf[c][i] \in RetailKeys \cap DOMAIN textures'
        BY <2>5, <3>2
      <4>. HIDE DEF c
      <4>2. \A j \in ToSet(KeysOf[c]) : \E i \in DOMAIN KeysOf[c] : KeysOf[c][i] = j
        BY <1>2, KeysOfConcept
      <4>. QED  BY <4>1, <4>2
    <3>4. \A j \in DOMAIN g.view : j \in DOMAIN textures' /\ g.view[j] \in Task \cup {None}
      BY <1>2, <2>2, <3>1 DEF Busy
    <3>5. g.concept \in Concepts /\ g.next \in Nat /\ g.made \subseteq Models /\ g.task \in Task \cup {None}
      BY <1>2, <2>3, <3>1 DEF Busy
    <3>6. Busy(g, work[c], tasks, DOMAIN textures')
      BY <3>1, <3>3, <3>4, <3>5 DEF Busy
    <3>. QED  BY <1>2, <2>2, <2>4, <2>7, <3>1, <3>6, MoveInv
  <2>. QED  BY <2>1, <2>6, <2>7 DEF Goes
<1>. QED  BY <1>3, <1>4

LEMMA SheetLoadInv == ASSUME Inv, NEW a \in Authors, SheetLoad(a) PROVE Inv'
<1>. DEFINE c == runs[a].concept
            r == [runs[a] EXCEPT !.step = "upsert", !.view = manifest]
<1>1. runs[a] # Idle /\ runs[a].command = "sheet" /\ runs[a].step = "load"  BY AtFacts DEF SheetLoad
<1>2. c \in Concepts /\ DOMAIN runs[a] = Fields /\ Busy(runs[a], work[c], tasks, DOMAIN textures)
  BY <1>1, RunningFacts
<1>3. DOMAIN r = Fields /\ r.command = "sheet" /\ r.step = "upsert" /\ r.task = runs[a].task
      /\ r.made = runs[a].made /\ r.concept = c /\ r.next = runs[a].next /\ r.view = manifest
  BY <1>1, <1>2 DEF Fields
<1>4. runs' = [runs EXCEPT ![a] = r] /\ UNCHANGED <<concept, tasks, work, textures, manifest>>
  BY DEF SheetLoad, Goes
<1>. HIDE DEF r
<1>5. Busy(r, work[c], tasks, DOMAIN textures)
  BY <1>1, <1>2, <1>3 DEF Busy, Inv, GoodPack
<1>6. GoodPack'  BY <1>4 DEF Inv, GoodPack
<1>. QED  BY <1>2, <1>3, <1>4, <1>5, <1>6, MoveInv

\* What was in the manifest when it was read is still in the pack.
LEMMA SheetUpsertInv == ASSUME Inv, NEW a \in Authors, SheetUpsert(a) PROVE Inv'
<1>. DEFINE c == runs[a].concept
            r == [runs[a] EXCEPT !.step = "preview", !.view = NoFiles]
            new == [k \in ToSet(KeysOf[c]) |-> runs[a].task]
<1>1. runs[a] # Idle /\ runs[a].command = "sheet" /\ runs[a].step = "upsert"  BY AtFacts DEF SheetUpsert
<1>2. c \in Concepts /\ DOMAIN runs[a] = Fields /\ Busy(runs[a], work[c], tasks, DOMAIN textures)
  BY <1>1, RunningFacts
<1>3. DOMAIN r = Fields /\ r.command = "sheet" /\ r.step = "preview" /\ r.task = runs[a].task
      /\ r.made = runs[a].made /\ r.concept = c /\ r.next = runs[a].next /\ DOMAIN r.view = {}
  BY <1>1, <1>2 DEF Fields, NoFiles
<1>4. runs' = [runs EXCEPT ![a] = r] /\ manifest' = Upserted(new, runs[a].view)
      /\ UNCHANGED <<concept, tasks, work, textures>>
  BY DEF SheetUpsert, Goes
<1>. HIDE DEF r
<1>5. Busy(r, work[c], tasks, DOMAIN textures)
  BY <1>1, <1>2, <1>3 DEF Busy
<1>6. /\ runs[a].task \in Task \cup {None}
      /\ ToSet(KeysOf[c]) \subseteq DOMAIN textures
      /\ \A k \in DOMAIN runs[a].view : k \in DOMAIN textures /\ runs[a].view[k] \in Task \cup {None}
  BY <1>1, <1>2 DEF Busy
<1>7. \A k \in DOMAIN manifest' : k \in DOMAIN textures /\ manifest'[k] \in Task \cup {None}
  <2>1. DOMAIN new = ToSet(KeysOf[c]) /\ \A k \in DOMAIN new : new[k] = runs[a].task  OBVIOUS
  <2>. HIDE DEF new
  <2>. DEFINE old == runs[a].view
  <2>2. manifest' = Upserted(new, old)  BY <1>4
  <2>. HIDE DEF old
  <2>3. /\ DOMAIN manifest' = DOMAIN new \cup DOMAIN old
        /\ \A k \in DOMAIN new : manifest'[k] = new[k]
        /\ \A k \in DOMAIN old : k \notin DOMAIN new => manifest'[k] = old[k]
    BY <2>2 DEF Upserted
  <2>. USE DEF old
  <2>. QED  BY <1>6, <2>1, <2>3
<1>8. GoodPack'  BY <1>4, <1>7 DEF Inv, GoodPack
<1>. QED  BY <1>2, <1>3, <1>4, <1>5, <1>8, MoveInv

LEMMA SheetPreviewInv == ASSUME Inv, NEW a \in Authors, SheetPreview(a) PROVE Inv'
<1>1. runs[a] # Idle  BY AtFacts DEF SheetPreview
<1>. QED  BY <1>1, RunningFacts, ReturnsInv DEF SheetPreview

---------------------------------------------------------------------------
(* The theorems. *)

LEMMA InitInv == PipelineInit => Inv
<1>. SUFFICES ASSUME PipelineInit PROVE Inv  OBVIOUS
<1>1. concept \in [Concepts -> Prompts] /\ tasks \in 0..MaxTasks
  BY PipelineAssumption DEF PipelineInit
<1>2. DOMAIN work = Concepts /\ work = [c \in Concepts |-> work[c]]
      /\ \A c \in Concepts : GoodWork(work[c], tasks)
  BY EmptyWorkGood DEF PipelineInit
<1>3. GoodPack  BY DEF PipelineInit, GoodPack, NoFiles
<1>4. DOMAIN runs = Authors /\ \A a \in Authors : runs[a] = Idle
  BY DEF PipelineInit
<1>5. OneRunEach  BY <1>4, IdleGood DEF OneRunEach
<1>. QED  BY <1>1, <1>2, <1>3, <1>4, <1>5, IdleGood DEF Inv

LEMMA NextInv == ASSUME Inv, [PipelineNext]_pipelineVars PROVE Inv'
<1>1. ASSUME NEW a \in Authors, Start(a) \/ Stop(a) PROVE Inv'
  BY <1>1, StartInv, StopInv
<1>2. ASSUME NEW a \in Authors,
             GenCached(a) \/ GenRefused(a) \/ GenSubmit(a) \/ GenDownload(a) \/ GenMeta(a)
      PROVE  Inv'
  BY <1>2, GenCachedInv, GenRefusedInv, GenSubmitInv, GenDownloadInv, GenMetaInv
<1>3. ASSUME NEW a \in Authors, RenderBegin(a) \/ RenderShot(a) \/ PostShot(a) PROVE Inv'
  BY <1>3, RenderBeginInv, RenderShotInv, PostShotInv
<1>4. ASSUME NEW a \in Authors,
             SheetBegin(a) \/ SheetKey(a) \/ SheetLoad(a) \/ SheetUpsert(a) \/ SheetPreview(a)
      PROVE  Inv'
  BY <1>4, SheetBeginInv, SheetKeyInv, SheetLoadInv, SheetUpsertInv, SheetPreviewInv
<1>5. ASSUME NEW c \in Concepts, Edit(c) PROVE Inv'
  BY <1>5, EditInv
<1>6. CASE UNCHANGED pipelineVars
  BY <1>6 DEF pipelineVars, Inv, GoodPack, OneRunEach
<1>. QED  BY <1>1, <1>2, <1>3, <1>4, <1>5, <1>6 DEF PipelineNext

\* What every run may rely on holds in every state, for any number of authors
\* and concepts, wherever runs stop.
THEOREM Invariance == PipelineSpec => []Inv
BY InitInv, NextInv, PTL DEF PipelineSpec

\* The files of the work directories, the pack and its manifest are always
\* well typed.
THEOREM TypeCorrect == PipelineSpec => []PipelineTypeOK
<1>1. ASSUME Inv PROVE PipelineTypeOK
  <2>1. \A c \in Concepts : work[c] \in WorkType  BY <1>1 DEF Inv, GoodWork
  <2>2. work \in [Concepts -> WorkType]  BY <1>1, <2>1 DEF Inv
  <2>. QED  BY <1>1, <2>2 DEF Inv, GoodPack, PipelineTypeOK, WorkType, Meta, Task
<1>. QED  BY <1>1, Invariance, PTL

\* The offline gate never refuses a pack for what cmd_sheet wrote: whoever
\* works on it and wherever a run stops, an entry of pack.json names a retail
\* texture whose file exists.
THEOREM PackValid == PipelineSpec => []PackAlwaysValid
<1>1. Inv => PackAlwaysValid
  BY DEF Inv, GoodPack, PackAlwaysValid, PackErrors
<1>. QED  BY <1>1, Invariance, PTL

\* What cmd_gen calls cached was downloaded: meta.json never names a
\* generation whose model, or a later one, is not on disk.
THEOREM CacheIsReal == PipelineSpec => []MetaNeverAhead
<1>1. Inv => MetaNeverAhead
  BY DEF Inv, GoodWork, MetaNeverAhead
<1>. QED  BY <1>1, Invariance, PTL

---------------------------------------------------------------------------
(* cmd_sheet never looks for a key past the last of its concept.           *)

InKeys(r) == r.command = "sheet" /\ r.step = "keys" => r.next <= Len(KeysOf[r.concept])

WithinKeys == \A a \in Authors : InKeys(runs[a])

LEMMA WithinOn ==
    ASSUME WithinKeys, Inv, NEW a \in Authors, NEW r, runs' = [runs EXCEPT ![a] = r], InKeys(r)
    PROVE  WithinKeys'
<1>1. \A b \in Authors : InKeys(runs'[b])
  BY DEF Inv, WithinKeys
<1>. QED  BY <1>1 DEF WithinKeys, InKeys

LEMMA EndsWithin ==
    ASSUME WithinKeys, Inv, NEW a \in Authors, Ends(a) \/ Returns(a)
    PROVE  WithinKeys'
<1>1. InKeys(Idle) /\ \A n : n.step = "begin" => InKeys(n)
  BY DEF InKeys, Idle
<1>2. CASE runs' = [runs EXCEPT ![a] = Idle]
  BY <1>1, <1>2, WithinOn
<1>3. ASSUME NEW command, NEW c, NEW glb,
             runs' = [runs EXCEPT ![a] = [Idle EXCEPT !.command = command, !.chain = TRUE, !.concept = c, !.glb = glb]]
      PROVE  WithinKeys'
  <2>. DEFINE n == [Idle EXCEPT !.command = command, !.chain = TRUE, !.concept = c, !.glb = glb]
  <2>1. n.step = "begin"
    BY DEF Idle
  <2>. HIDE DEF n
  <2>. QED  BY <1>1, <1>3, <2>1, WithinOn DEF n
<1>4. CASE Ends(a)
  BY <1>2, <1>4 DEF Ends
<1>5. CASE Returns(a)
  <2>. DEFINE i == CHOOSE j \in DOMAIN Commands : Commands[j] = runs[a].command
  <2>1. CASE runs[a].chain /\ i < Len(Commands)
    <3>1. runs' = [runs EXCEPT ![a] = [Idle EXCEPT !.command = Commands[i + 1], !.chain = TRUE,
                                                   !.concept = runs[a].concept, !.glb = runs[a].glb]]
      BY <1>5, <2>1 DEF Returns
    <3>. HIDE DEF i
    <3>. QED  BY <1>3, <3>1
  <2>2. CASE ~(runs[a].chain /\ i < Len(Commands))
    BY <1>2, <1>5, <2>2 DEF Returns
  <2>. QED  BY <2>1, <2>2
<1>. QED  BY <1>4, <1>5

\* A step to another step than "keys".
LEMMA ElsewhereWithin ==
    ASSUME WithinKeys, Inv, NEW a \in Authors, NEW r, Goes(a, r), r.command # "sheet" \/ r.step # "keys"
    PROVE  WithinKeys'
BY WithinOn DEF Goes, InKeys

LEMMA NextWithin == ASSUME Inv, WithinKeys, [PipelineNext]_pipelineVars PROVE WithinKeys'
<1>1. ASSUME UNCHANGED runs PROVE WithinKeys'
  BY <1>1 DEF WithinKeys, InKeys
<1>2. ASSUME NEW a \in Authors, Start(a) PROVE WithinKeys'
  <2>1. PICK c \in Concepts, command \in ToSet(Commands), chain, force, glb \in BOOLEAN :
          Goes(a, [Idle EXCEPT !.command = command, !.chain = chain, !.concept = c, !.force = force, !.glb = glb])
    BY <1>2 DEF Start
  <2>. DEFINE r == [Idle EXCEPT !.command = command, !.chain = chain, !.concept = c, !.force = force, !.glb = glb]
  <2>2. r.step # "keys"
    BY DEF Idle
  <2>. HIDE DEF r
  <2>. QED  BY <2>1, <2>2, ElsewhereWithin DEF r
<1>3. ASSUME NEW a \in Authors,
             Stop(a) \/ GenCached(a) \/ GenRefused(a) \/ GenMeta(a) \/ SheetPreview(a)
      PROVE  WithinKeys'
  BY <1>3, EndsWithin DEF Stop, GenCached, GenRefused, GenMeta, SheetPreview
<1>4. ASSUME NEW a \in Authors, GenSubmit(a) \/ GenDownload(a) \/ RenderBegin(a) \/ SheetLoad(a) \/ SheetUpsert(a)
      PROVE  WithinKeys'
  <2>1. DOMAIN runs[a] = Fields
    BY DEF Inv, GoodRun
  <2>2. \A v : /\ [runs[a] EXCEPT !.step = "godot"].step # "keys"
               /\ [runs[a] EXCEPT !.step = "meta"].step # "keys"
               /\ [runs[a] EXCEPT !.step = "upsert", !.view = v].step # "keys"
               /\ [runs[a] EXCEPT !.step = "preview", !.view = v].step # "keys"
    BY <2>1 DEF Fields
  <2>3. \A p, t : [runs[a] EXCEPT !.step = "download", !.prompt = p, !.task = t].step # "keys"
    BY <2>1 DEF Fields
  <2>4. ASSUME GenSubmit(a) PROVE WithinKeys'
    BY <2>3, <2>4, ElsewhereWithin DEF GenSubmit
  <2>5. ASSUME GenDownload(a) PROVE WithinKeys'
    BY <2>2, <2>5, ElsewhereWithin DEF GenDownload
  <2>6. ASSUME RenderBegin(a) PROVE WithinKeys'
    BY <2>2, <2>6, ElsewhereWithin, EndsWithin DEF RenderBegin
  <2>7. ASSUME SheetLoad(a) PROVE WithinKeys'
    BY <2>2, <2>7, ElsewhereWithin DEF SheetLoad
  <2>8. ASSUME SheetUpsert(a) PROVE WithinKeys'
    BY <2>2, <2>8, ElsewhereWithin DEF SheetUpsert
  <2>. QED  BY <1>4, <2>4, <2>5, <2>6, <2>7, <2>8
<1>5. ASSUME NEW a \in Authors, RenderShot(a) \/ PostShot(a) PROVE WithinKeys'
  <2>. DEFINE r == Onward(runs[a])
  <2>1. r.command # "sheet"
    BY <1>5 DEF RenderShot, PostShot, At, Onward, Inv, GoodRun, Fields
  <2>2. Goes(a, r) \/ Ends(a) \/ Returns(a)
    BY <1>5 DEF RenderShot, PostShot
  <2>. HIDE DEF r
  <2>. QED  BY <2>1, <2>2, ElsewhereWithin, EndsWithin
<1>6. ASSUME NEW a \in Authors, SheetBegin(a) PROVE WithinKeys'
  <2>. DEFINE c == runs[a].concept
  <2>1. runs[a] # Idle /\ runs[a].command = "sheet" /\ runs[a].step = "begin"
    BY <1>6, AtFacts DEF SheetBegin
  <2>2. c \in Concepts /\ DOMAIN runs[a] = Fields /\ runs[a].next = 1
    BY <2>1, RunningFacts DEF Busy
  <2>3. ASSUME NEW made, NEW task, Goes(a, [runs[a] EXCEPT !.step = "keys", !.made = made, !.task = task])
        PROVE  WithinKeys'
    <3>. DEFINE r == [runs[a] EXCEPT !.step = "keys", !.made = made, !.task = task]
    <3>1. r.next = 1 /\ r.concept = c
      BY <2>2 DEF Fields
    <3>2. 1 <= Len(KeysOf[c])
      BY <2>2, KeysAssumption, PipelineAssumption
    <3>. HIDE DEF r
    <3>. QED  BY <2>3, <3>1, <3>2, WithinOn DEF Goes, InKeys, r
  <2>. QED  BY <1>6, <2>3, EndsWithin DEF SheetBegin
<1>7. ASSUME NEW a \in Authors, SheetKey(a) PROVE WithinKeys'
  <2>. DEFINE c == runs[a].concept
              n == runs[a].next
              f == Onward(runs[a])
              g == [runs[a] EXCEPT !.step = "load"]
  <2>1. runs[a] # Idle
    BY <1>7, AtFacts DEF SheetKey
  <2>2. /\ c \in Concepts /\ n \in Nat /\ f.next = n + 1 /\ f.concept = c /\ g.step # "keys"
    BY <2>1, RunningFacts DEF Busy, Onward, Fields
  <2>3. \/ Ends(a)
        \/ n < Len(KeysOf[c]) /\ Goes(a, f)
        \/ Goes(a, g)
    BY <1>7 DEF SheetKey
  <2>4. n < Len(KeysOf[c]) => n + 1 <= Len(KeysOf[c])
    BY <2>2, KeysOfConcept
  <2>. HIDE DEF f, g
  <2>5. ASSUME n < Len(KeysOf[c]), Goes(a, f) PROVE WithinKeys'
    BY <2>2, <2>4, <2>5, WithinOn DEF Goes, InKeys
  <2>6. ASSUME Goes(a, g) PROVE WithinKeys'
    BY <2>2, <2>6, ElsewhereWithin
  <2>. QED  BY <2>3, <2>5, <2>6, EndsWithin
<1>8. ASSUME NEW c \in Concepts, Edit(c) PROVE WithinKeys'
  BY <1>1, <1>8 DEF Edit
<1>9. CASE UNCHANGED pipelineVars
  BY <1>1, <1>9 DEF pipelineVars
<1>. QED  BY <1>2, <1>3, <1>4, <1>5, <1>6, <1>7, <1>8, <1>9 DEF PipelineNext

THEOREM WithinKeysAlways == PipelineSpec => []WithinKeys
<1>1. PipelineInit => WithinKeys
  BY DEF PipelineInit, WithinKeys, InKeys, Idle
<1>. QED  BY <1>1, NextWithin, Invariance, PTL DEF PipelineSpec

---------------------------------------------------------------------------
(* What "all" carries from command to command: so far as it has come,      *)
(* frames, finished frames and textures are of the model it is about.      *)

Model(r, w) == IF r.glb THEN Override ELSE w.model

\* Every shot of c, or every one before the n-th, is of the model m in f.
AllAre(f, c, m) == \A i \in DOMAIN ShotsOf[c] : f[ShotsOf[c][i]] = {m}
FirstAre(f, c, n, m) == \A i \in DOMAIN ShotsOf[c] : i < n => f[ShotsOf[c][i]] = {m}

\* And of its textures in x.
Painted(x, k, m) == k \in DOMAIN x /\ x[k] = {m}
AllPainted(x, c, m) == \A i \in DOMAIN KeysOf[c] : Painted(x, KeysOf[c][i], m)
FirstPainted(x, c, n, m) == \A i \in DOMAIN KeysOf[c] : i < n => Painted(x, KeysOf[c][i], m)

Delivers(r, w, x) ==
    r.chain /\ ~Procedural(r.concept) =>
        LET m == Model(r, w) IN
        /\ r.command = "render" => FirstAre(w.frames, r.concept, r.next, m)
        /\ r.command = "post" => AllAre(w.frames, r.concept, m) /\ FirstAre(w.post, r.concept, r.next, m)
        /\ r.command = "sheet" /\ r.step = "begin" => AllAre(w.post, r.concept, m)
        /\ r.command = "sheet" /\ r.step # "begin" => r.made = {m}
        /\ r.command = "sheet" /\ r.step = "keys" => FirstPainted(x, r.concept, r.next, m)
        /\ r.command = "sheet" /\ r.step \in {"load", "upsert", "preview"} => AllPainted(x, r.concept, m)

Carried ==
    \A a \in Authors : runs[a].next \in Nat \ {0} /\ Delivers(runs[a], work[runs[a].concept], textures)

---------------------------------------------------------------------------
(* Shots and keys one by one. *)

LEMMA ShotsOfConcept ==
    ASSUME NEW c \in Concepts
    PROVE  /\ DOMAIN ShotsOf[c] = 1..Len(ShotsOf[c]) /\ Len(ShotsOf[c]) \in Nat
           /\ \A i \in DOMAIN ShotsOf[c] : ShotsOf[c][i] \in Shots /\ ShotsOf[c][i] \in ToSet(ShotsOf[c])
           /\ \A s \in ToSet(ShotsOf[c]) : \E i \in DOMAIN ShotsOf[c] : ShotsOf[c][i] = s
           /\ ~Procedural(c) => 1 \in DOMAIN ShotsOf[c]
<1>1. ShotsOf[c] \in Seq(Shots)  BY PipelineAssumption
<1>. QED  BY <1>1 DEF ToSet, Procedural

LEMMA FirstNone ==
    ASSUME NEW c \in Concepts, NEW f, NEW m
    PROVE  FirstAre(f, c, 1, m) /\ FirstPainted(f, c, 1, m)
BY ShotsOfConcept, KeysOfConcept DEF FirstAre, FirstPainted

LEMMA FirstMore ==
    ASSUME NEW c \in Concepts, NEW n \in Nat, NEW m, NEW f, DOMAIN f = Shots, FirstAre(f, c, n, m)
    PROVE  FirstAre([f EXCEPT ![ShotsOf[c][n]] = {m}], c, n + 1, m)
<1>1. ASSUME NEW i \in DOMAIN ShotsOf[c], i < n + 1
      PROVE  [f EXCEPT ![ShotsOf[c][n]] = {m}][ShotsOf[c][i]] = {m}
  <2>1. i \in Nat /\ ShotsOf[c][i] \in Shots  BY ShotsOfConcept
  <2>2. i < n \/ i = n  BY <1>1, <2>1
  <2>. QED  BY <2>1, <2>2 DEF FirstAre
<1>. QED  BY <1>1 DEF FirstAre

LEMMA FirstAll ==
    ASSUME NEW c \in Concepts, NEW n \in Nat, NEW m, NEW f
    PROVE  /\ ~(n < Len(ShotsOf[c])) /\ FirstAre(f, c, n + 1, m) => AllAre(f, c, m)
           /\ ~(n < Len(KeysOf[c])) /\ FirstPainted(f, c, n + 1, m) => AllPainted(f, c, m)
<1>1. ASSUME ~(n < Len(ShotsOf[c])) PROVE \A i \in DOMAIN ShotsOf[c] : i < n + 1
  BY <1>1, ShotsOfConcept
<1>2. ASSUME ~(n < Len(KeysOf[c])) PROVE \A i \in DOMAIN KeysOf[c] : i < n + 1
  BY <1>2, KeysOfConcept
<1>. QED  BY <1>1, <1>2 DEF FirstAre, AllAre, FirstPainted, AllPainted

\* What a sheet is composed of.
LEMMA MadeOfOne ==
    ASSUME NEW c \in Concepts, NEW m, ~Procedural(c), AllAre(work[c].post, c, m)
    PROVE  SheetOf(c) = {m}
<1>1. ASSUME NEW s \in ToSet(ShotsOf[c]) PROVE work[c].post[s] = {m}
  <2>1. PICK i \in DOMAIN ShotsOf[c] : ShotsOf[c][i] = s
    BY ShotsOfConcept
  <2>. QED  BY <2>1 DEF AllAre
<1>2. ShotsOf[c][1] \in ToSet(ShotsOf[c])
  BY ShotsOfConcept
<1>. QED  BY <1>1, <1>2 DEF SheetOf

---------------------------------------------------------------------------
(* One step of one run. The textures of another concept stay as they are.  *)

LEMMA IdleDelivers == Idle.next = 1 /\ \A w, x : Delivers(Idle, w, x)
BY DEF Idle, Delivers

LEMMA DeliversStay ==
    ASSUME NEW r, NEW w, NEW x, NEW y, Delivers(r, w, x),
           \A i \in DOMAIN KeysOf[r.concept] : KeysOf[r.concept][i] \in DOMAIN x =>
               KeysOf[r.concept][i] \in DOMAIN y /\ y[KeysOf[r.concept][i]] = x[KeysOf[r.concept][i]]
    PROVE  Delivers(r, w, y)
<1>1. \A n, m : FirstPainted(x, r.concept, n, m) => FirstPainted(y, r.concept, n, m)
  BY DEF FirstPainted, Painted
<1>2. \A m : AllPainted(x, r.concept, m) => AllPainted(y, r.concept, m)
  BY DEF AllPainted, Painted
<1>. QED  BY <1>1, <1>2, Zenon DEF Delivers

LEMMA CarriedOn ==
    ASSUME Inv, Carried, NEW a \in Authors, runs[a] # Idle, NEW r, NEW w,
           runs' = [runs EXCEPT ![a] = r], work' = [work EXCEPT ![runs[a].concept] = w],
           r = Idle \/ (r.concept = runs[a].concept /\ r.next \in Nat \ {0} /\ Delivers(r, w, textures')),
           \A k \in DOMAIN textures : k \notin ToSet(KeysOf[runs[a].concept]) =>
               k \in DOMAIN textures' /\ textures'[k] = textures[k]
    PROVE  Carried'
<1>. DEFINE c == runs[a].concept
<1>1. c \in Concepts /\ DOMAIN work = Concepts /\ DOMAIN runs = Authors
  BY RunningFacts DEF Inv
<1>2. runs'[a] = r /\ work'[c] = w
  BY <1>1
<1>3. r.next \in Nat \ {0} /\ Delivers(runs'[a], work'[runs'[a].concept], textures')
  BY <1>2, IdleDelivers
<1>4. ASSUME NEW b \in Authors, b # a
      PROVE  runs'[b].next \in Nat \ {0} /\ Delivers(runs'[b], work'[runs'[b].concept], textures')
  <2>1. runs'[b] = runs[b]
    BY <1>1, <1>4
  <2>2. CASE runs[b] = Idle
    BY <2>1, <2>2, IdleDelivers
  <2>3. CASE runs[b] # Idle
    <3>. DEFINE d == runs[b].concept
    <3>1. d \in Concepts /\ d # c
      BY <1>1, <1>4, <2>3, RunningFacts, PipelineAssumption DEF Inv, OneRunEach
    <3>2. work'[d] = work[d]
      BY <1>1, <3>1
    <3>3. \A i \in DOMAIN KeysOf[d] : KeysOf[d][i] \notin ToSet(KeysOf[c])
      <4>. HIDE DEF c, d
      <4>1. \A i \in DOMAIN KeysOf[d] : KeysOf[d][i] \in ToSet(KeysOf[d])
        BY <3>1, KeysOfConcept
      <4>2. ToSet(KeysOf[c]) \cap ToSet(KeysOf[d]) = {}
        BY <1>1, <3>1, KeysAssumption
      <4>. QED  BY <4>1, <4>2
    <3>4. runs[b].next \in Nat \ {0} /\ Delivers(runs[b], work[d], textures)
      BY DEF Carried
    <3>5. Delivers(runs[b], work[d], textures')
      BY <3>3, <3>4, DeliversStay
    <3>. QED  BY <2>1, <3>2, <3>4, <3>5
  <2>. QED  BY <2>2, <2>3
<1>. QED  BY <1>2, <1>3, <1>4 DEF Carried, Delivers

LEMMA EndsCarried ==
    ASSUME Inv, Carried, NEW a \in Authors, runs[a] # Idle, Ends(a), UNCHANGED textures,
           NEW w, work' = [work EXCEPT ![runs[a].concept] = w]
    PROVE  Carried'
BY CarriedOn DEF Ends

\* A step of a command that has nothing to hand on yet.
LEMMA GenCarried ==
    ASSUME Inv, Carried, NEW a \in Authors, runs[a] # Idle, UNCHANGED textures,
           NEW r, runs' = [runs EXCEPT ![a] = r], r.command = "gen", r.concept = runs[a].concept, r.next = runs[a].next,
           NEW w, work' = [work EXCEPT ![runs[a].concept] = w]
    PROVE  Carried'
<1>1. runs[a].next \in Nat \ {0} /\ Delivers(r, w, textures')
  BY DEF Carried, Delivers
<1>. QED  BY <1>1, CarriedOn

LEMMA CommandsAre ==
    ASSUME NEW command \in {"gen", "render", "post", "sheet"}
    PROVE  LET i == CHOOSE j \in DOMAIN Commands : Commands[j] = command
           IN  /\ command = "gen" => Commands[i + 1] = "render"
               /\ command = "render" => Commands[i + 1] = "post"
               /\ command = "post" => Commands[i + 1] = "sheet"
               /\ command = "sheet" => ~(i < Len(Commands))
<1>1. /\ DOMAIN Commands = 1..4 /\ Len(Commands) = 4
      /\ Commands[1] = "gen" /\ Commands[2] = "render" /\ Commands[3] = "post" /\ Commands[4] = "sheet"
  BY DEF Commands
<1>. HIDE DEF Commands
<1>2. PICK k \in 1..4 : k = CHOOSE j \in DOMAIN Commands : Commands[j] = command
  BY <1>1
<1>3. Commands[k] = command
  BY <1>1, <1>2
<1>. QED  BY <1>1, <1>2, <1>3

\* The next command finds what it needs.
LEMMA ReturnsCarried ==
    ASSUME Inv, Carried, NEW a \in Authors, runs[a] # Idle, Returns(a), UNCHANGED textures,
           runs[a].command \in {"gen", "render", "post", "sheet"},
           NEW w, work' = [work EXCEPT ![runs[a].concept] = w],
           runs[a].chain /\ ~Procedural(runs[a].concept) =>
               /\ runs[a].command = "render" => AllAre(w.frames, runs[a].concept, Model(runs[a], w))
               /\ runs[a].command = "post" => AllAre(w.post, runs[a].concept, Model(runs[a], w))
    PROVE  Carried'
<1>. DEFINE r == runs[a]
            i == CHOOSE j \in DOMAIN Commands : Commands[j] = r.command
            next == Commands[i + 1]
            n == [Idle EXCEPT !.command = next, !.chain = TRUE, !.concept = r.concept, !.glb = r.glb]
<1>1. CASE runs' = [runs EXCEPT ![a] = Idle]
  BY <1>1, CarriedOn
<1>2. CASE r.chain /\ i < Len(Commands) /\ runs' = [runs EXCEPT ![a] = n]
  <2>1. /\ r.command = "gen" => next = "render"
        /\ r.command = "render" => next = "post"
        /\ r.command = "post" => next = "sheet"
        /\ r.command # "sheet"
    BY <1>2, CommandsAre
  <2>. HIDE DEF next
  <2>2. n.command = next /\ n.concept = r.concept /\ n.glb = r.glb /\ n.next = 1 /\ n.step = "begin" /\ n.chain
    BY DEF Idle
  <2>3. Model(n, w) = Model(r, w)
    BY <2>2 DEF Model
  <2>4. r.concept \in Concepts
    BY RunningFacts
  <2>. DEFINE m == Model(r, w)
  <2>5. FirstAre(w.frames, r.concept, 1, m) /\ FirstAre(w.post, r.concept, 1, m)
    BY <2>4, FirstNone
  <2>. HIDE DEF n, r, m
  <2>6. Delivers(n, w, textures')
    BY <1>2, <2>1, <2>2, <2>3, <2>5 DEF Delivers, r, m
  <2>7. n.next \in Nat \ {0} /\ n.concept = runs[a].concept /\ runs' = [runs EXCEPT ![a] = n]
    BY <1>2, <2>2 DEF r
  <2>. QED  BY <2>6, <2>7, CarriedOn
<1>. QED  BY <1>1, <1>2 DEF Returns

---------------------------------------------------------------------------
(* The actions. *)

LEMMA StartCarried == ASSUME Inv, Carried, NEW a \in Authors, Start(a) PROVE Carried'
<1>1. PICK c \in Concepts, command \in ToSet(Commands), chain, force, glb \in BOOLEAN :
        /\ chain => command = "gen"
        /\ Goes(a, [Idle EXCEPT !.command = command, !.chain = chain, !.concept = c, !.force = force, !.glb = glb])
  BY DEF Start
<1>. DEFINE r == [Idle EXCEPT !.command = command, !.chain = chain, !.concept = c, !.force = force, !.glb = glb]
<1>2. r.next = 1 /\ r.command = command /\ r.chain = chain
  BY DEF Idle
<1>3. runs' = [runs EXCEPT ![a] = r] /\ UNCHANGED <<work, textures>>
  BY <1>1 DEF Goes, Start
<1>. HIDE DEF r
<1>4. \A w, x : Delivers(r, w, x)
  BY <1>1, <1>2 DEF Delivers
<1>5. runs'[a] = r /\ \A b \in Authors \ {a} : runs'[b] = runs[b]
  BY <1>3 DEF Inv
<1>6. \A b \in Authors : runs'[b].next \in Nat \ {0} /\ Delivers(runs'[b], work[runs'[b].concept], textures)
  BY <1>2, <1>4, <1>5 DEF Carried
<1>. QED  BY <1>3, <1>6 DEF Carried, Delivers

LEMMA OfTheConcept ==
    ASSUME Inv, NEW a \in Authors, runs[a] # Idle
    PROVE  LET c == runs[a].concept
           IN  /\ c \in Concepts /\ DOMAIN runs[a] = Fields
               /\ DOMAIN work[c].frames = Shots /\ DOMAIN work[c].post = Shots
               /\ DOMAIN work = Concepts /\ work = [work EXCEPT ![c] = work[c]]
               /\ DOMAIN work[c] = {"model", "meta", "frames", "post"}
BY RunningFacts DEF Inv, GoodWork, WorkType

\* gen hands nothing on but the model.
LEMMA GenActionsCarried ==
    ASSUME Inv, Carried, NEW a \in Authors,
           GenCached(a) \/ GenRefused(a) \/ GenSubmit(a) \/ GenDownload(a) \/ GenMeta(a)
    PROVE  Carried'
<1>. DEFINE c == runs[a].concept
<1>1. runs[a] # Idle /\ runs[a].command = "gen"
  BY AtFacts DEF GenCached, GenRefused, GenSubmit, GenDownload, GenMeta
<1>2. DOMAIN runs[a] = Fields /\ work = [work EXCEPT ![c] = work[c]] /\ UNCHANGED textures
  BY <1>1, OfTheConcept DEF GenCached, GenRefused, GenSubmit, GenDownload, GenMeta
<1>3. CASE GenCached(a)
  BY <1>1, <1>2, <1>3, ReturnsCarried DEF GenCached
<1>4. CASE GenRefused(a)
  BY <1>1, <1>2, <1>4, EndsCarried DEF GenRefused
<1>5. CASE GenSubmit(a)
  <2>. DEFINE r == [runs[a] EXCEPT !.step = "download", !.prompt = concept[c], !.task = tasks + 1]
  <2>1. r.command = "gen" /\ r.concept = c /\ r.next = runs[a].next
    BY <1>1, <1>2 DEF Fields
  <2>2. runs' = [runs EXCEPT ![a] = r] /\ UNCHANGED work
    BY <1>5 DEF GenSubmit, Goes
  <2>. HIDE DEF r
  <2>. QED  BY <1>1, <1>2, <2>1, <2>2, GenCarried
<1>6. CASE GenDownload(a)
  <2>. DEFINE r == [runs[a] EXCEPT !.step = "meta"]
              w == [work[c] EXCEPT !.model = runs[a].task]
  <2>1. r.command = "gen" /\ r.concept = c /\ r.next = runs[a].next
    BY <1>1, <1>2 DEF Fields
  <2>2. runs' = [runs EXCEPT ![a] = r] /\ work' = [work EXCEPT ![c] = w]
    BY <1>6 DEF GenDownload, Goes
  <2>. HIDE DEF r, w
  <2>. QED  BY <1>1, <1>2, <2>1, <2>2, GenCarried
<1>7. CASE GenMeta(a)
  <2>. DEFINE w == [work[c] EXCEPT !.meta = [prompt |-> runs[a].prompt, task |-> runs[a].task]]
  <2>1. Returns(a) /\ work' = [work EXCEPT ![c] = w]
    BY <1>7 DEF GenMeta
  <2>. HIDE DEF w
  <2>. QED  BY <1>1, <1>2, <2>1, ReturnsCarried
<1>. QED  BY <1>3, <1>4, <1>5, <1>6, <1>7

LEMMA RenderBeginCarried == ASSUME Inv, Carried, NEW a \in Authors, RenderBegin(a) PROVE Carried'
<1>. DEFINE c == runs[a].concept
            r == [runs[a] EXCEPT !.step = "godot"]
<1>1. runs[a] # Idle /\ runs[a].command = "render"
  BY AtFacts DEF RenderBegin
<1>2. /\ DOMAIN runs[a] = Fields /\ work = [work EXCEPT ![c] = work[c]]
      /\ UNCHANGED work /\ UNCHANGED textures
  BY <1>1, OfTheConcept DEF RenderBegin
<1>3. CASE Procedural(c) /\ Returns(a)
  BY <1>1, <1>2, <1>3, ReturnsCarried
<1>4. CASE Ends(a)
  BY <1>1, <1>2, <1>4, EndsCarried
<1>5. CASE Goes(a, r)
  <2>1. /\ r.command = "render" /\ r.concept = c /\ r.next = runs[a].next /\ r.chain = runs[a].chain
        /\ r.glb = runs[a].glb
    BY <1>1, <1>2 DEF Fields
  <2>2. runs' = [runs EXCEPT ![a] = r]
    BY <1>5 DEF Goes
  <2>3. runs[a].next \in Nat \ {0} /\ Delivers(runs[a], work[c], textures)
    BY DEF Carried
  <2>. HIDE DEF r
  <2>4. Delivers(r, work[c], textures')
    BY <1>1, <1>2, <2>1, <2>3 DEF Delivers, Model
  <2>. QED  BY <1>1, <1>2, <2>1, <2>2, <2>3, <2>4, CarriedOn
<1>. QED  BY <1>3, <1>4, <1>5 DEF RenderBegin

\* What a run of render or post has before its step, and goes on with after it.
LEMMA OnwardFacts ==
    ASSUME Inv, Carried, NEW a \in Authors, runs[a] # Idle
    PROVE  LET r == Onward(runs[a])
           IN  /\ runs[a].next \in Nat /\ runs[a].next \in Nat \ {0}
               /\ Delivers(runs[a], work[runs[a].concept], textures)
               /\ r.command = runs[a].command /\ r.step = runs[a].step /\ r.concept = runs[a].concept
               /\ r.chain = runs[a].chain /\ r.glb = runs[a].glb /\ r.made = runs[a].made
               /\ r.next = runs[a].next + 1 /\ r.next \in Nat \ {0}
BY OfTheConcept DEF Carried, Onward, Fields

LEMMA RenderShotCarried == ASSUME Inv, Carried, NEW a \in Authors, RenderShot(a) PROVE Carried'
<1>. DEFINE c == runs[a].concept
            n == runs[a].next
            s == ShotsOf[c][n]
            m == JobModel(a)
            f == [work[c].frames EXCEPT ![s] = {m}]
            w == [work[c] EXCEPT !.frames = f]
            r == Onward(runs[a])
<1>1. runs[a] # Idle /\ runs[a].command = "render" /\ UNCHANGED textures
  BY AtFacts DEF RenderShot
<1>2. c \in Concepts /\ DOMAIN work[c].frames = Shots /\ DOMAIN work[c] = {"model", "meta", "frames", "post"}
  BY <1>1, OfTheConcept
<1>3. CASE work' = [work EXCEPT ![c].frames[s] = @ \cup {JobModel(a)}] /\ Ends(a)
  <2>. DEFINE v == [work[c] EXCEPT !.frames = [work[c].frames EXCEPT ![s] = work[c].frames[s] \cup {m}]]
  <2>1. work' = [work EXCEPT ![c] = v]
    BY <1>3
  <2>. HIDE DEF v
  <2>. QED  BY <1>1, <1>3, <2>1, EndsCarried
<1>4. CASE work' = [work EXCEPT ![c].frames[s] = {m}] /\ (IF n < Len(ShotsOf[c]) THEN Goes(a, r) ELSE Returns(a))
  <2>1. work' = [work EXCEPT ![c] = w]
    BY <1>4
  <2>2. w.frames = f /\ w.model = work[c].model /\ m = Model(runs[a], work[c]) /\ m = Model(runs[a], w)
    BY <1>2 DEF JobModel, Model
  <2>3. /\ n \in Nat /\ r.next = n + 1 /\ r.next \in Nat \ {0} /\ r.command = "render" /\ r.concept = c
        /\ r.chain = runs[a].chain /\ r.glb = runs[a].glb /\ Delivers(runs[a], work[c], textures)
    BY <1>1, OnwardFacts
  <2>4. ASSUME runs[a].chain, ~Procedural(c) PROVE FirstAre(f, c, n + 1, m)
    <3>1. FirstAre(work[c].frames, c, n, m)
      BY <1>1, <2>2, <2>3, <2>4 DEF Delivers
    <3>. QED  BY <1>2, <2>3, <3>1, FirstMore
  <2>. HIDE DEF w, f, m
  <2>5. CASE n < Len(ShotsOf[c]) /\ Goes(a, r)
    <3>. HIDE DEF r
    <3>1. Model(r, w) = m
      BY <2>2, <2>3 DEF Model
    <3>2. Delivers(r, w, textures')
      BY <2>2, <2>3, <2>4, <3>1 DEF Delivers
    <3>3. runs' = [runs EXCEPT ![a] = r]
      BY <2>5 DEF Goes
    <3>. QED  BY <1>1, <2>1, <2>3, <3>2, <3>3, CarriedOn
  <2>6. CASE ~(n < Len(ShotsOf[c])) /\ Returns(a)
    <3>1. runs[a].chain /\ ~Procedural(c) => AllAre(w.frames, c, Model(runs[a], w))
      BY <1>2, <2>2, <2>3, <2>4, <2>6, FirstAll
    <3>. QED  BY <1>1, <2>1, <2>6, <3>1, ReturnsCarried
  <2>. QED  BY <1>4, <2>5, <2>6
<1>. QED  BY <1>3, <1>4 DEF RenderShot

LEMMA PostShotCarried == ASSUME Inv, Carried, NEW a \in Authors, PostShot(a) PROVE Carried'
<1>. DEFINE c == runs[a].concept
            n == runs[a].next
            s == ShotsOf[c][n]
            frames == work[c].frames[s]
            p == IF frames = {} THEN work[c].post[s] ELSE frames
            g == [work[c].post EXCEPT ![s] = p]
            w == [work[c] EXCEPT !.post = g]
            r == Onward(runs[a])
            m == Model(runs[a], work[c])
<1>1. runs[a] # Idle /\ runs[a].command = "post" /\ UNCHANGED textures
  BY AtFacts DEF PostShot
<1>2. /\ c \in Concepts /\ DOMAIN work[c].post = Shots /\ DOMAIN work[c] = {"model", "meta", "frames", "post"}
      /\ work = [work EXCEPT ![c] = work[c]]
  BY <1>1, OfTheConcept
<1>3. CASE Procedural(c) /\ Returns(a) /\ UNCHANGED work
  BY <1>1, <1>2, <1>3, ReturnsCarried
<1>4. CASE work' = [work EXCEPT ![c].post[s] = @ \cup frames] /\ Ends(a)
  <2>. DEFINE v == [work[c] EXCEPT !.post = [work[c].post EXCEPT ![s] = work[c].post[s] \cup frames]]
  <2>1. work' = [work EXCEPT ![c] = v]
    BY <1>4
  <2>. HIDE DEF v
  <2>. QED  BY <1>1, <1>4, <2>1, EndsCarried
<1>5. CASE /\ ~Procedural(c) /\ work' = [work EXCEPT ![c].post[s] = IF frames = {} THEN @ ELSE frames]
           /\ \/ n < Len(ShotsOf[c]) /\ Goes(a, r)
              \/ n = Len(ShotsOf[c]) /\ Returns(a)
              \/ Ends(a)
  <2>1. work' = [work EXCEPT ![c] = w]
    BY <1>5
  <2>2. w.post = g /\ w.frames = work[c].frames /\ w.model = work[c].model /\ m = Model(runs[a], w)
    BY <1>2 DEF Model
  <2>3. /\ n \in Nat /\ n \in Nat \ {0} /\ r.next = n + 1 /\ r.next \in Nat \ {0} /\ r.command = "post" /\ r.concept = c
        /\ r.chain = runs[a].chain /\ r.glb = runs[a].glb /\ Delivers(runs[a], work[c], textures)
    BY <1>1, OnwardFacts
  <2>4. ASSUME runs[a].chain PROVE AllAre(work[c].frames, c, m) /\ FirstAre(work[c].post, c, n, m)
    BY <1>1, <1>5, <2>3, <2>4 DEF Delivers
  <2>5. ASSUME runs[a].chain, n <= Len(ShotsOf[c]) PROVE FirstAre(g, c, n + 1, m)
    <3>1. n \in DOMAIN ShotsOf[c]
      BY <1>2, <2>3, <2>5, ShotsOfConcept
    <3>2. p = {m}
      BY <2>4, <2>5, <3>1 DEF AllAre
    <3>. HIDE DEF p, m
    <3>. QED  BY <1>2, <2>3, <2>4, <2>5, <3>2, FirstMore
  <2>. HIDE DEF w, g, m
  <2>6. CASE n < Len(ShotsOf[c]) /\ Goes(a, r)
    <3>0. n <= Len(ShotsOf[c])
      BY <1>2, <2>3, <2>6, ShotsOfConcept
    <3>. HIDE DEF r
    <3>1. Model(r, w) = m
      BY <2>2, <2>3 DEF Model
    <3>2. Delivers(r, w, textures')
      BY <2>2, <2>3, <2>4, <2>5, <3>0, <3>1 DEF Delivers
    <3>3. runs' = [runs EXCEPT ![a] = r]
      BY <2>6 DEF Goes
    <3>. QED  BY <1>1, <2>1, <2>3, <3>2, <3>3, CarriedOn
  <2>7. CASE n = Len(ShotsOf[c]) /\ Returns(a)
    <3>1. n <= Len(ShotsOf[c]) /\ ~(n < Len(ShotsOf[c]))
      BY <2>3, <2>7
    <3>2. runs[a].chain => AllAre(w.post, c, Model(runs[a], w))
      BY <1>2, <2>2, <2>3, <2>5, <3>1, FirstAll
    <3>. QED  BY <1>1, <2>1, <2>7, <3>2, ReturnsCarried
  <2>8. CASE Ends(a)
    BY <1>1, <2>1, <2>8, EndsCarried
  <2>. QED  BY <1>5, <2>6, <2>7, <2>8
<1>. QED  BY <1>3, <1>4, <1>5 DEF PostShot

LEMMA SheetBeginCarried == ASSUME Inv, Carried, NEW a \in Authors, SheetBegin(a) PROVE Carried'
<1>. DEFINE c == runs[a].concept
            task == IF work[c].meta = None THEN None ELSE work[c].meta.task
            r == [runs[a] EXCEPT !.step = "keys", !.made = SheetOf(c), !.task = task]
            m == Model(runs[a], work[c])
<1>1. runs[a] # Idle /\ runs[a].command = "sheet" /\ runs[a].step = "begin"
  BY AtFacts DEF SheetBegin
<1>2. /\ c \in Concepts /\ DOMAIN runs[a] = Fields /\ work = [work EXCEPT ![c] = work[c]]
      /\ UNCHANGED work /\ UNCHANGED textures
  BY <1>1, OfTheConcept DEF SheetBegin
<1>3. CASE Ends(a)
  BY <1>1, <1>2, <1>3, EndsCarried
<1>4. CASE Goes(a, r)
  <2>. HIDE DEF task
  <2>1. /\ r.command = "sheet" /\ r.step = "keys" /\ r.made = SheetOf(c) /\ r.concept = c /\ r.next = runs[a].next
        /\ r.chain = runs[a].chain /\ r.glb = runs[a].glb
    BY <1>1, <1>2 DEF Fields
  <2>2. runs' = [runs EXCEPT ![a] = r]
    BY <1>4 DEF Goes
  <2>3. runs[a].next \in Nat \ {0} /\ Delivers(runs[a], work[c], textures)
    BY DEF Carried
  <2>4. runs[a].next = 1
    BY <1>1, RunningFacts DEF Busy
  <2>. HIDE DEF r
  <2>5. Model(r, work[c]) = m
    BY <2>1 DEF Model
  <2>6. FirstPainted(textures', c, 1, m)
    BY <1>2, FirstNone
  <2>. HIDE DEF m
  <2>7. runs[a].chain /\ ~Procedural(c) => SheetOf(c) = {m}
    BY <1>1, <1>2, <2>3, MadeOfOne DEF Delivers, m
  <2>8. Delivers(r, work[c], textures')
    BY <2>1, <2>4, <2>5, <2>6, <2>7 DEF Delivers
  <2>. QED  BY <1>1, <1>2, <2>1, <2>2, <2>3, <2>8, CarriedOn
<1>. QED  BY <1>3, <1>4 DEF SheetBegin

LEMMA SheetKeyCarried == ASSUME Inv, WithinKeys, Carried, NEW a \in Authors, SheetKey(a) PROVE Carried'
<1>. DEFINE c == runs[a].concept
            n == runs[a].next
            k == KeysOf[c][n]
            f == Onward(runs[a])
            g == [runs[a] EXCEPT !.step = "load"]
            m == Model(runs[a], work[c])
<1>1. runs[a] # Idle /\ runs[a].command = "sheet" /\ runs[a].step = "keys"
  BY AtFacts DEF SheetKey
<1>2. c \in Concepts /\ DOMAIN runs[a] = Fields /\ work = [work EXCEPT ![c] = work[c]] /\ UNCHANGED work
  BY <1>1, OfTheConcept DEF SheetKey
<1>3. n \in DOMAIN KeysOf[c] /\ k \in ToSet(KeysOf[c])
  <2>1. n \in Nat \ {0} /\ n <= Len(KeysOf[c])
    BY <1>1 DEF Carried, WithinKeys, InKeys
  <2>. QED  BY <1>2, <2>1, KeysOfConcept
<1>4. CASE Ends(a) /\ UNCHANGED textures
  BY <1>1, <1>2, <1>4, EndsCarried
<1>5. CASE /\ textures' = Upserted([j \in {k} |-> runs[a].made], textures)
           /\ IF n < Len(KeysOf[c]) THEN Goes(a, f) ELSE Goes(a, g)
  <2>1. DOMAIN textures' = DOMAIN textures \cup {k} /\ textures'[k] = runs[a].made
        /\ \A j \in DOMAIN textures : j # k => textures'[j] = textures[j]
    <3>. DEFINE one == [j \in {k} |-> runs[a].made]
    <3>1. textures' = Upserted(one, textures) /\ DOMAIN one = {k} /\ one[k] = runs[a].made
      BY <1>5
    <3>. HIDE DEF one, k
    <3>2. /\ DOMAIN textures' = DOMAIN one \cup DOMAIN textures
          /\ \A j \in DOMAIN one : textures'[j] = one[j]
          /\ \A j \in DOMAIN textures : j \notin DOMAIN one => textures'[j] = textures[j]
      BY <3>1 DEF Upserted
    <3>. QED  BY <3>1, <3>2
  <2>2. /\ n \in Nat /\ n \in Nat \ {0} /\ f.next = n + 1 /\ f.next \in Nat \ {0} /\ f.command = "sheet"
        /\ f.step = "keys" /\ f.concept = c /\ f.chain = runs[a].chain /\ f.glb = runs[a].glb
        /\ f.made = runs[a].made /\ Delivers(runs[a], work[c], textures)
    BY <1>1, OnwardFacts
  <2>3. \A j \in DOMAIN textures : j \notin ToSet(KeysOf[c]) => j \in DOMAIN textures' /\ textures'[j] = textures[j]
    <3>. HIDE DEF k, c
    <3>. QED  BY <1>3, <2>1
  <2>4. work' = [work EXCEPT ![c] = work[c]]
    BY <1>2
  <2>5. /\ g.command = "sheet" /\ g.step = "load" /\ g.concept = c /\ g.next = n /\ g.chain = runs[a].chain
        /\ g.glb = runs[a].glb /\ g.made = runs[a].made
    BY <1>1, <1>2 DEF Fields
  <2>. HIDE DEF f, g
  <2>6. Model(f, work[c]) = m /\ Model(g, work[c]) = m
    BY <2>2, <2>5 DEF Model
  <2>. HIDE DEF m
  <2>7. ASSUME runs[a].chain, ~Procedural(c)
        PROVE  runs[a].made = {m} /\ FirstPainted(textures', c, n + 1, m)
    <3>1. runs[a].made = {m} /\ FirstPainted(textures, c, n, m)
      BY <1>1, <2>2, <2>7 DEF Delivers, m
    <3>2. ASSUME NEW i \in DOMAIN KeysOf[c], i < n + 1 PROVE Painted(textures', KeysOf[c][i], m)
      <4>1. i < n \/ i = n
        BY <1>2, <2>2, <3>2, KeysOfConcept
      <4>2. CASE i = n
        BY <2>1, <3>1, <4>2 DEF Painted
      <4>3. CASE i < n
        <5>1. Painted(textures, KeysOf[c][i], m)
          BY <3>1, <4>3 DEF FirstPainted
        <5>. HIDE DEF k, c
        <5>. QED  BY <2>1, <3>1, <5>1 DEF Painted
      <4>. QED  BY <4>1, <4>2, <4>3
    <3>. QED  BY <3>1, <3>2 DEF FirstPainted
  <2>8. CASE n < Len(KeysOf[c]) /\ Goes(a, f)
    <3>1. Delivers(f, work[c], textures')
      BY <2>2, <2>6, <2>7 DEF Delivers
    <3>2. runs' = [runs EXCEPT ![a] = f]
      BY <2>8 DEF Goes
    <3>. HIDE DEF k
    <3>. QED  BY <1>1, <2>2, <2>3, <2>4, <3>1, <3>2, CarriedOn
  <2>9. CASE ~(n < Len(KeysOf[c])) /\ Goes(a, g)
    <3>1. runs[a].chain /\ ~Procedural(c) => AllPainted(textures', c, m)
      BY <1>2, <2>2, <2>7, <2>9, FirstAll
    <3>2. Delivers(g, work[c], textures')
      BY <2>5, <2>6, <2>7, <3>1 DEF Delivers
    <3>3. runs' = [runs EXCEPT ![a] = g]
      BY <2>9 DEF Goes
    <3>4. g.next \in Nat \ {0}
      BY <2>2, <2>5
    <3>. HIDE DEF k
    <3>. QED  BY <1>1, <2>5, <2>3, <2>4, <3>2, <3>3, <3>4, CarriedOn
  <2>. QED  BY <1>5, <2>8, <2>9
<1>. QED  BY <1>4, <1>5 DEF SheetKey

\* The manifest is no part of what is delivered.
LEMMA SheetPackCarried ==
    ASSUME Inv, Carried, NEW a \in Authors, SheetLoad(a) \/ SheetUpsert(a)
    PROVE  Carried'
<1>. DEFINE c == runs[a].concept
<1>1. runs[a] # Idle /\ runs[a].command = "sheet" /\ runs[a].step \in {"load", "upsert"}
  BY AtFacts DEF SheetLoad, SheetUpsert
<1>2. /\ DOMAIN runs[a] = Fields /\ work = [work EXCEPT ![c] = work[c]]
      /\ UNCHANGED work /\ UNCHANGED textures
  BY <1>1, OfTheConcept DEF SheetLoad, SheetUpsert
<1>3. PICK r : /\ runs' = [runs EXCEPT ![a] = r] /\ r.command = "sheet" /\ r.step \in {"upsert", "preview"}
               /\ r.concept = c /\ r.next = runs[a].next /\ r.chain = runs[a].chain /\ r.glb = runs[a].glb
               /\ r.made = runs[a].made
  <2>1. CASE SheetLoad(a)
    <3>. DEFINE r == [runs[a] EXCEPT !.step = "upsert", !.view = manifest]
    <3>1. /\ r.command = "sheet" /\ r.step \in {"upsert", "preview"}
          /\ r.concept = c /\ r.next = runs[a].next /\ r.chain = runs[a].chain /\ r.glb = runs[a].glb
          /\ r.made = runs[a].made
      BY <1>1, <1>2 DEF Fields
    <3>2. runs' = [runs EXCEPT ![a] = r]
      BY <2>1 DEF SheetLoad, Goes
    <3>. HIDE DEF r
    <3>. QED  BY <3>1, <3>2
  <2>2. CASE SheetUpsert(a)
    <3>. DEFINE r == [runs[a] EXCEPT !.step = "preview", !.view = NoFiles]
    <3>1. /\ r.command = "sheet" /\ r.step \in {"upsert", "preview"}
          /\ r.concept = c /\ r.next = runs[a].next /\ r.chain = runs[a].chain /\ r.glb = runs[a].glb
          /\ r.made = runs[a].made
      BY <1>1, <1>2 DEF Fields
    <3>2. runs' = [runs EXCEPT ![a] = r]
      BY <2>2 DEF SheetUpsert, Goes
    <3>. HIDE DEF r
    <3>. QED  BY <3>1, <3>2
  <2>. QED  BY <2>1, <2>2
<1>4. runs[a].next \in Nat \ {0} /\ Delivers(runs[a], work[c], textures)
  BY DEF Carried
<1>5. Delivers(r, work[c], textures')
  BY <1>1, <1>2, <1>3, <1>4 DEF Delivers, Model
<1>. QED  BY <1>1, <1>2, <1>3, <1>4, <1>5, CarriedOn

LEMMA NextCarried == ASSUME Inv, WithinKeys, Carried, [PipelineNext]_pipelineVars PROVE Carried'
<1>1. ASSUME NEW a \in Authors, Stop(a) PROVE Carried'
  <2>1. runs[a] # Idle /\ Ends(a) /\ UNCHANGED work /\ UNCHANGED textures
    BY <1>1 DEF Stop
  <2>. QED  BY <2>1, OfTheConcept, EndsCarried
<1>2. ASSUME NEW a \in Authors, SheetPreview(a) PROVE Carried'
  <2>1. runs[a] # Idle /\ runs[a].command = "sheet" /\ Returns(a) /\ UNCHANGED work /\ UNCHANGED textures
    BY <1>2, AtFacts DEF SheetPreview
  <2>. QED  BY <2>1, OfTheConcept, ReturnsCarried
<1>3. ASSUME UNCHANGED <<work, textures, runs>> PROVE Carried'
  BY <1>3 DEF Carried, Delivers
<1>4. CASE UNCHANGED pipelineVars
  BY <1>3, <1>4 DEF pipelineVars
<1>5. ASSUME NEW c \in Concepts, Edit(c) PROVE Carried'
  BY <1>3, <1>5 DEF Edit
<1>. QED  BY <1>1, <1>2, <1>4, <1>5, StartCarried, GenActionsCarried, RenderBeginCarried, RenderShotCarried,
             PostShotCarried, SheetBeginCarried, SheetKeyCarried, SheetPackCarried DEF PipelineNext

\* What "all" has done so far is of one model at every step of it, whatever other
\* authors do and wherever earlier runs have stopped.
THEOREM CarriedAlong == PipelineSpec => []Carried
<1>1. PipelineInit => Carried
  BY IdleDelivers DEF PipelineInit, Carried
<1>. QED  BY <1>1, NextCarried, WithinKeysAlways, Invariance, PTL DEF PipelineSpec

\* When "all" returns 0 every texture of its concept is made of the model it was
\* about and of no other, for any authors, concepts, shots and keys: as long as no
\* two concepts name one key and each names one.
THEOREM AllDelivered == PipelineSpec => AllDelivers
<1>1. ASSUME Carried, Inv, NEW a \in Authors, Finishes(a)
      PROVE  LET c == runs[a].concept IN
             Procedural(c) \/ \A k \in ToSet(KeysOf[c]) : textures[k] = {JobModel(a)}
  <2>. DEFINE c == runs[a].concept
  <2>1. runs[a].chain /\ runs[a].command = "sheet" /\ runs[a].step = "preview" /\ runs[a] # Idle
    BY <1>1, AtFacts DEF Finishes
  <2>2. c \in Concepts
    BY <1>1, <2>1, OfTheConcept
  <2>3. CASE ~Procedural(c)
    <3>1. AllPainted(textures, c, JobModel(a))
      BY <1>1, <2>1, <2>3 DEF Carried, Delivers, JobModel, Model
    <3>2. ASSUME NEW k \in ToSet(KeysOf[c]) PROVE textures[k] = {JobModel(a)}
      <4>1. PICK i \in DOMAIN KeysOf[c] : KeysOf[c][i] = k
        BY <2>2, KeysOfConcept
      <4>. QED  BY <3>1, <4>1 DEF AllPainted, Painted
    <3>. QED  BY <3>2
  <2>. QED  BY <2>3
<1>2. Carried /\ Inv =>
        \A a \in Authors : Finishes(a) =>
            LET c == runs[a].concept IN
            Procedural(c) \/ \A k \in ToSet(KeysOf[c]) : textures[k] = {JobModel(a)}
  BY <1>1
<1>. QED  BY <1>2, CarriedAlong, Invariance, PTL DEF AllDelivers, PipelineSpec
===========================================================================
