------------------------- MODULE LevelEditorProofs -------------------------
(* Theorems about LevelEditor, for every number of users, levels and runs. *)
EXTENDS LevelEditor, InductionLemmas

-----------------------------------------------------------------------------
(* The inductive invariant: what each file name holds, and what the run that    *)
(* updates may rely on at each of its steps.                                    *)

Fields == {"command", "entry", "refresh", "backup", "step", "blob", "lint", "base", "edited"}

RunsTyped ==
    /\ DOMAIN tools = Users
    /\ \A u \in Users : DOMAIN tools[u] = Fields

\* The archive itself and its copy are whole archives or not there: what is
\* torn is only ever at .tmp.
FilesTyped ==
    /\ pac = NoPac \/ IsArchive(pac)
    /\ bak = NoPac \/ IsArchive(bak)
    /\ tmp \in {NoPac, TornPac} \/ IsArchive(tmp)

Updating(u) == tools[u].command = "update"

OneUpdate == \A u, v \in Users : Updating(u) /\ Updating(v) => u = v

\* The old archive is there until the new one is whole, and the new one until it
\* has taken the old one's name.
StepsKeepArchive ==
    \A u \in Users : Updating(u) =>
        /\ tools[u].step = "copy" => IsArchive(pac)
        /\ tools[u].step = "retire" => IsArchive(pac) /\ IsArchive(tmp)
        /\ tools[u].step = "install" => IsArchive(tmp)

EditorInv == RunsTyped /\ FilesTyped /\ OneUpdate /\ StepsKeepArchive /\ ArchiveRecoverable

-----------------------------------------------------------------------------
(* How a run goes on. *)

LEMMA PacFacts ==
    /\ NoPac # TornPac /\ ~ IsArchive(NoPac) /\ ~ IsArchive(TornPac)
    /\ NoPac.kind # "whole" /\ TornPac.kind # "whole"
    /\ \A f : Pac(f).kind = "whole" /\ Pac(f).levels = f
BY DEF NoPac, TornPac, Pac, IsArchive

LEMMA QuietFacts == DOMAIN Quiet = Fields /\ Quiet.command = "none" /\ Quiet.step = "begin"
BY DEF Quiet, Fields

\* One run becomes r and the others go on as they were.
LEMMA BecomesFacts ==
    ASSUME RunsTyped, NEW u \in Users, NEW r, DOMAIN r = Fields, Becomes(u, r)
    PROVE  RunsTyped' /\ tools'[u] = r /\ \A v \in Users : v # u => tools'[v] = tools[v]
BY DEF RunsTyped, Becomes

\* A run that does not update, or no longer does, leaves the archives to the one
\* that does.
LEMMA OtherInv ==
    ASSUME EditorInv, RunsTyped', UNCHANGED <<pac, bak, tmp>>,
           \A v \in Users : Updating(v)' =>
               Updating(v) /\ tools'[v].step = tools[v].step
    PROVE  EditorInv'
BY DEF EditorInv, FilesTyped, OneUpdate, StepsKeepArchive, ArchiveRecoverable, Updating, IsArchive

LEMMA AloneInv ==
    ASSUME EditorInv, NEW u \in Users, NEW r, DOMAIN r = Fields, Updating(u), Becomes(u, r),
           FilesTyped', ArchiveRecoverable',
           r.command = "update" =>
               /\ r.step = "copy" => IsArchive(pac')
               /\ r.step = "retire" => IsArchive(pac') /\ IsArchive(tmp')
               /\ r.step = "install" => IsArchive(tmp')
    PROVE  EditorInv'
<1>1. RunsTyped' /\ tools'[u] = r /\ \A v \in Users : v # u => tools'[v] = tools[v]
  BY BecomesFacts DEF EditorInv
<1>2. \A v \in Users : Updating(v)' => v = u
  BY <1>1 DEF EditorInv, OneUpdate, Updating
<1>3. OneUpdate'
  BY <1>2 DEF OneUpdate
<1>4. StepsKeepArchive'
  BY <1>1, <1>2 DEF StepsKeepArchive, Updating, IsArchive
<1>. QED  BY <1>1, <1>3, <1>4 DEF EditorInv

-----------------------------------------------------------------------------
(* Each action keeps the invariant. *)

LEMMA LaunchInv == ASSUME EditorInv, NEW u \in Users, Launch(u) PROVE EditorInv'
<1>1. CASE \E e \in Entries, refresh \in BOOLEAN :
              Becomes(u, [Quiet EXCEPT !.command = "edit", !.entry = e, !.refresh = refresh])
  <2>1. PICK e \in Entries, refresh \in BOOLEAN :
              Becomes(u, [Quiet EXCEPT !.command = "edit", !.entry = e, !.refresh = refresh])
    BY <1>1
  <2>. DEFINE r == [Quiet EXCEPT !.command = "edit", !.entry = e, !.refresh = refresh]
  <2>2. DOMAIN r = Fields /\ r.command = "edit"
    BY QuietFacts DEF Fields
  <2>3. RunsTyped' /\ tools'[u] = r /\ \A v \in Users : v # u => tools'[v] = tools[v]
    BY <2>1, <2>2, BecomesFacts DEF EditorInv
  <2>. QED  BY <2>2, <2>3, OtherInv DEF Launch, Updating
<1>2. CASE \E e \in Entries, backup \in BOOLEAN :
              /\ \A v \in Users : tools[v].command # "update"
              /\ Becomes(u, [Quiet EXCEPT !.command = "update", !.entry = e, !.backup = backup])
  <2>1. PICK e \in Entries, backup \in BOOLEAN :
              /\ \A v \in Users : ~ Updating(v)
              /\ Becomes(u, [Quiet EXCEPT !.command = "update", !.entry = e, !.backup = backup])
    BY <1>2 DEF Updating
  <2>. DEFINE r == [Quiet EXCEPT !.command = "update", !.entry = e, !.backup = backup]
  <2>2. DOMAIN r = Fields /\ r.command = "update" /\ r.step = "begin"
    BY QuietFacts DEF Fields
  <2>3. RunsTyped' /\ tools'[u] = r /\ \A v \in Users : v # u => tools'[v] = tools[v]
    BY <2>1, <2>2, BecomesFacts DEF EditorInv
  <2>4. \A v \in Users : Updating(v)' => v = u
    BY <2>1, <2>3 DEF Updating
  <2>5. OneUpdate' /\ StepsKeepArchive'
    BY <2>2, <2>3, <2>4 DEF OneUpdate, StepsKeepArchive
  <2>6. FilesTyped' /\ ArchiveRecoverable'
    BY DEF Launch, EditorInv, FilesTyped, ArchiveRecoverable, IsArchive
  <2>. QED  BY <2>3, <2>5, <2>6 DEF EditorInv
<1>. QED  BY <1>1, <1>2 DEF Launch

LEMMA AbandonInv == ASSUME EditorInv, NEW u \in Users, Abandon(u) PROVE EditorInv'
<1>1. RunsTyped' /\ tools'[u] = Quiet /\ \A v \in Users : v # u => tools'[v] = tools[v]
  BY QuietFacts, BecomesFacts DEF Abandon, EditorInv
<1>. QED  BY <1>1, QuietFacts, OtherInv DEF Abandon, Updating

\* Neither edit nor a change an author saves touches the archives.
LEMMA EditInv ==
    ASSUME EditorInv, NEW u \in Users,
           ReuseDescriptor(u) \/ DecodeEntry(u) \/ WriteDescriptor(u) \/ LintAndEncode(u) \/ WriteLevel(u)
    PROVE  EditorInv'
<1>1. DOMAIN tools[u] = Fields /\ tools[u].command = "edit"
  BY DEF EditorInv, RunsTyped, Doing, ReuseDescriptor, DecodeEntry, WriteDescriptor, LintAndEncode, WriteLevel
<1>2. \E r : DOMAIN r = Fields /\ r.command # "update" /\ Becomes(u, r)
  <2>1. CASE ReuseDescriptor(u)  BY <1>1, <2>1 DEF ReuseDescriptor, Fields
  <2>2. CASE DecodeEntry(u)
    <3>. DEFINE r == [tools[u] EXCEPT !.step = "decoded", !.blob = pac.levels[tools[u].entry]]
    <3>1. DOMAIN r = Fields /\ r.command = "edit"  BY <1>1 DEF Fields
    <3>2. Becomes(u, r)  BY <2>2 DEF DecodeEntry
    <3>. QED  BY <3>1, <3>2
  <2>3. CASE WriteDescriptor(u)
    <3>. DEFINE r == [tools[u] EXCEPT !.step = "editor", !.base = tools[u].blob, !.blob = Missing]
    <3>1. DOMAIN r = Fields /\ r.command = "edit"  BY <1>1 DEF Fields
    <3>2. Becomes(u, r)  BY <2>3 DEF WriteDescriptor
    <3>. QED  BY <3>1, <3>2
  <2>4. CASE LintAndEncode(u)
    <3>. DEFINE r == [tools[u] EXCEPT !.step = "write",
                                          !.blob = EncodeLvd(Layout, descriptors[StemOf[tools[u].entry]]),
                                          !.lint = descriptors[StemOf[tools[u].entry]]]
    <3>1. DOMAIN r = Fields /\ r.command = "edit"  BY <1>1 DEF Fields
    <3>2. Becomes(u, r)  BY <2>4 DEF LintAndEncode
    <3>. QED  BY <3>1, <3>2
  <2>5. CASE WriteLevel(u)       BY <2>5, QuietFacts DEF WriteLevel
  <2>. QED  BY <2>1, <2>2, <2>3, <2>4, <2>5
<1>3. PICK r : DOMAIN r = Fields /\ r.command # "update" /\ Becomes(u, r)
  BY <1>2
<1>4. RunsTyped' /\ tools'[u] = r /\ \A v \in Users : v # u => tools'[v] = tools[v]
  BY <1>3, BecomesFacts DEF EditorInv
<1>5. UNCHANGED <<pac, bak, tmp>>
  BY DEF ReuseDescriptor, DecodeEntry, WriteDescriptor, LintAndEncode, WriteLevel
<1>. QED  BY <1>3, <1>4, <1>5, OtherInv DEF Updating

LEMMA SaveChangeInv == ASSUME EditorInv, NEW s \in Stems, SaveChange(s) PROVE EditorInv'
<1>1. \A u \in Users : /\ DOMAIN tools'[u] = Fields
                        /\ tools'[u].command = tools[u].command /\ tools'[u].step = tools[u].step
  BY DEF SaveChange, EditorInv, RunsTyped, Fields
<1>2. RunsTyped'
  BY <1>1 DEF SaveChange, RunsTyped
<1>. QED  BY <1>1, <1>2, OtherInv DEF SaveChange, Updating

LEMMA OpenArchivesInv == ASSUME EditorInv, NEW u \in Users, OpenArchives(u) PROVE EditorInv'
<1>. DEFINE r == [tools[u] EXCEPT !.step = "copy", !.blob = out[tools[u].entry]]
<1>1. DOMAIN tools[u] = Fields /\ Updating(u) /\ IsArchive(pac)
  BY DEF EditorInv, RunsTyped, FilesTyped, OpenArchives, Doing, Updating
<1>2. DOMAIN r = Fields /\ r.step = "copy" /\ Becomes(u, r)
  BY <1>1 DEF OpenArchives, Fields
<1>3. FilesTyped' /\ ArchiveRecoverable' /\ IsArchive(pac')
  BY <1>1 DEF OpenArchives, EditorInv, FilesTyped, ArchiveRecoverable, IsArchive
<1>. QED  BY <1>1, <1>2, <1>3, AloneInv

LEMMA CopyMembersInv == ASSUME EditorInv, NEW u \in Users, CopyMembers(u) PROVE EditorInv'
<1>1. DOMAIN tools[u] = Fields /\ Updating(u) /\ IsArchive(pac)
  BY DEF EditorInv, RunsTyped, StepsKeepArchive, CopyMembers, Doing, Updating
<1>2. CASE InPac(tools[u].entry)
  <2>. DEFINE r == [tools[u] EXCEPT !.step = "retire"]
  <2>1. DOMAIN r = Fields /\ r.step = "retire" /\ Becomes(u, r)
    BY <1>1, <1>2 DEF CopyMembers, Fields
  <2>2. tmp' = Pac([pac.levels EXCEPT ![tools[u].entry] = tools[u].blob])
    BY <1>2 DEF CopyMembers
  <2>3. IsArchive(tmp')
    BY <1>1, <2>2, PacFacts DEF IsArchive
  <2>4. FilesTyped' /\ ArchiveRecoverable' /\ IsArchive(pac')
    BY <1>1, <2>3 DEF CopyMembers, EditorInv, FilesTyped, ArchiveRecoverable, IsArchive
  <2>. QED  BY <1>1, <2>1, <2>3, <2>4, AloneInv
<1>3. CASE ~ InPac(tools[u].entry)
  <2>1. Becomes(u, Quiet) /\ tmp' = NoPac
    BY <1>3 DEF CopyMembers
  <2>2. FilesTyped' /\ ArchiveRecoverable'
    BY <1>1, <2>1 DEF CopyMembers, EditorInv, FilesTyped, ArchiveRecoverable, IsArchive
  <2>. QED  BY <1>1, <2>1, <2>2, QuietFacts, AloneInv
<1>. QED  BY <1>2, <1>3

LEMMA RetireArchiveInv == ASSUME EditorInv, NEW u \in Users, RetireArchive(u) PROVE EditorInv'
<1>. DEFINE r == [tools[u] EXCEPT !.step = "install"]
<1>1. DOMAIN tools[u] = Fields /\ Updating(u) /\ IsArchive(pac) /\ IsArchive(tmp)
  BY DEF EditorInv, RunsTyped, StepsKeepArchive, RetireArchive, Doing, Updating
<1>2. DOMAIN r = Fields /\ r.step = "install" /\ Becomes(u, r)
  BY <1>1 DEF RetireArchive, Fields
<1>3. FilesTyped' /\ ArchiveRecoverable' /\ IsArchive(tmp')
  BY <1>1 DEF RetireArchive, EditorInv, FilesTyped, ArchiveRecoverable, IsArchive
<1>. QED  BY <1>1, <1>2, <1>3, AloneInv

LEMMA InstallArchiveInv == ASSUME EditorInv, NEW u \in Users, InstallArchive(u) PROVE EditorInv'
<1>1. Updating(u) /\ IsArchive(tmp)
  BY DEF EditorInv, StepsKeepArchive, InstallArchive, Doing, Updating
<1>2. FilesTyped' /\ ArchiveRecoverable'
  BY <1>1 DEF InstallArchive, EditorInv, FilesTyped, ArchiveRecoverable, IsArchive
<1>. QED  BY <1>1, <1>2, QuietFacts, AloneInv DEF InstallArchive

LEMMA RestoreByHandInv == ASSUME EditorInv, RestoreByHand PROVE EditorInv'
<1>1. IsArchive(pac') /\ FilesTyped' /\ ArchiveRecoverable'
  BY PacFacts DEF RestoreByHand, EditorInv, FilesTyped, ArchiveRecoverable, IsArchive
<1>. QED  BY <1>1 DEF RestoreByHand, EditorInv, RunsTyped, OneUpdate, StepsKeepArchive, Updating

LEMMA NextEditorInv == ASSUME EditorInv, [EditorNext]_editorVars PROVE EditorInv'
<1>1. CASE UNCHANGED editorVars
  BY <1>1, OtherInv DEF editorVars, EditorInv, RunsTyped, Updating
<1>. QED  BY <1>1, LaunchInv, AbandonInv, EditInv, SaveChangeInv, OpenArchivesInv, CopyMembersInv,
             RetireArchiveInv, InstallArchiveInv, RestoreByHandInv DEF EditorNext

LEMMA InitEditorInv == EditorInit => EditorInv
<1>. SUFFICES ASSUME EditorInit PROVE EditorInv  OBVIOUS
<1>1. \A u \in Users : tools[u] = Quiet
  BY DEF EditorInit
<1>2. IsArchive(pac)
  BY PacFacts DEF EditorInit, IsArchive
<1>3. RunsTyped
  BY <1>1, QuietFacts DEF EditorInit, RunsTyped
<1>. QED  BY <1>1, <1>2, <1>3, QuietFacts
          DEF EditorInit, EditorInv, FilesTyped, OneUpdate, StepsKeepArchive, ArchiveRecoverable, Updating

\* What an update may rely on between two of its steps, wherever others stop.
THEOREM EditorInvariance == EditorSpec => []EditorInv
BY InitEditorInv, NextEditorInv, PTL DEF EditorSpec

\* A whole archive is on disk under one of the three names wherever an update is
\* killed, for any number of users and of runs, and whatever the levels hold.
THEOREM ArchiveNeverLost == EditorSpec => []ArchiveRecoverable
<1>1. EditorInv => ArchiveRecoverable  BY DEF EditorInv
<1>. QED  BY <1>1, EditorInvariance, PTL

-----------------------------------------------------------------------------
(* What is linted, what is written, and what it was decoded from.               *)

Editing(u) == tools[u].command = "edit"

Stem(u) == StemOf[tools[u].entry]

\* Two runs of edit never work on one descriptor.
OneAuthor == \A u, v \in Users : Editing(u) /\ Editing(v) /\ Stem(u) = Stem(v) => u = v

\* A run that had the level decoded and saw nobody save still has the level's own
\* descriptor, and what it is about to write encodes what was linted.
DraftsKept ==
    \A u \in Users : Editing(u) =>
        /\ tools[u].entry \in Entries
        /\ tools[u].step \in {"begin", "decoded", "editor", "write"}
        /\ tools[u].step = "decoded" => descriptors[Stem(u)] = Torn
        /\ tools[u].step = "editor" /\ tools[u].refresh /\ ~tools[u].edited =>
               descriptors[Stem(u)] = Decoded(tools[u].base)
        /\ tools[u].step = "write" =>
               /\ Lints(tools[u].lint)
               /\ tools[u].blob = EncodeLvd(Layout, tools[u].lint) /\ tools[u].blob # Refused
               /\ tools[u].refresh /\ ~tools[u].edited =>
                     tools[u].base # Torn /\ tools[u].lint = ParseLvd(Layout, tools[u].base)

DraftInv == RunsTyped /\ DOMAIN descriptors = Stems /\ OneAuthor /\ DraftsKept

-----------------------------------------------------------------------------
(* Each action keeps it. *)

\* What DraftsKept asks of one run, r, that works on the descriptor d.
DraftOk(r, d) ==
    /\ r.entry \in Entries
    /\ r.step \in {"begin", "decoded", "editor", "write"}
    /\ r.step = "decoded" => d = Torn
    /\ r.step = "editor" /\ r.refresh /\ ~r.edited => d = Decoded(r.base)
    /\ r.step = "write" =>
           /\ Lints(r.lint)
           /\ r.blob = EncodeLvd(Layout, r.lint) /\ r.blob # Refused
           /\ r.refresh /\ ~r.edited => r.base # Torn /\ r.lint = ParseLvd(Layout, r.base)

LEMMA DraftsAre == DraftsKept <=> \A u \in Users : Editing(u) => DraftOk(tools[u], descriptors[Stem(u)])
BY DEF DraftsKept, DraftOk, Editing, Stem

LEMMA DraftsBecome == DraftsKept' <=> \A u \in Users : Editing(u)' => DraftOk(tools'[u], descriptors'[StemOf[tools'[u].entry]])
BY DEF DraftsKept, DraftOk, Editing, Stem, Lints

LEMMA StemFacts == \A e \in Entries : StemOf[e] \in Stems
BY StemAssumption DEF Stems, Range

\* A step that leaves the drafts of every run that goes on editing as they are.
LEMMA DraftsLeft ==
    ASSUME DraftInv, RunsTyped', DOMAIN descriptors' = Stems,
           \A u \in Users : Editing(u)' =>
               Editing(u) /\ tools'[u] = tools[u] /\ descriptors'[Stem(u)] = descriptors[Stem(u)]
    PROVE  DraftInv'
<1>1. OneAuthor'
  BY DEF DraftInv, OneAuthor, Editing, Stem
<1>2. DraftsKept'
  BY DraftsAre, DraftsBecome DEF DraftInv, Stem
<1>. QED  BY <1>1, <1>2 DEF DraftInv

\* A run of edit that goes on, or ends, touching no descriptor but its own.
LEMMA DraftGoesOn ==
    ASSUME DraftInv, NEW u \in Users, Editing(u), NEW r, DOMAIN r = Fields, Becomes(u, r),
           DOMAIN descriptors' = Stems,
           \A s \in Stems : s # Stem(u) => descriptors'[s] = descriptors[s],
           r.command = "edit" => r.entry = tools[u].entry /\ DraftOk(r, descriptors'[Stem(u)])
    PROVE  DraftInv'
<1>1. RunsTyped' /\ tools'[u] = r /\ \A v \in Users : v # u => tools'[v] = tools[v]
  BY BecomesFacts DEF DraftInv
<1>2. OneAuthor'
  BY <1>1 DEF DraftInv, OneAuthor, Editing, Stem
<1>3. ASSUME NEW v \in Users, Editing(v)'
      PROVE  DraftOk(tools'[v], descriptors'[StemOf[tools'[v].entry]])
  <2>1. CASE v = u
    BY <1>1, <1>3, <2>1 DEF Editing, Stem
  <2>2. CASE v # u
    <3>1. Editing(v) /\ tools'[v] = tools[v]
      BY <1>1, <1>3, <2>2 DEF Editing
    <3>2. DraftOk(tools[v], descriptors[Stem(v)])
      BY <3>1, DraftsAre DEF DraftInv
    <3>3. Stem(v) \in Stems
      BY <3>2, StemFacts DEF DraftOk, Stem
    <3>4. Stem(v) # Stem(u)
      BY <2>2, <3>1 DEF DraftInv, OneAuthor
    <3>. QED  BY <3>1, <3>2, <3>3, <3>4 DEF Stem
  <2>. QED  BY <2>1, <2>2
<1>4. DraftsKept'
  BY <1>3, DraftsBecome
<1>. QED  BY <1>1, <1>2, <1>4 DEF DraftInv

LEMMA EditingFacts ==
    ASSUME DraftInv, NEW u \in Users, Editing(u)
    PROVE  /\ DOMAIN tools[u] = Fields /\ DraftOk(tools[u], descriptors[Stem(u)])
           /\ Stem(u) \in Stems /\ DOMAIN descriptors = Stems
BY DraftsAre, StemFacts DEF DraftInv, RunsTyped, DraftOk, Stem

LEMMA LaunchDraft == ASSUME DraftInv, NEW u \in Users, Launch(u) PROVE DraftInv'
<1>1. CASE \E e \in Entries, refresh \in BOOLEAN :
              /\ \A v \in Users : tools[v].command = "edit" => StemOf[tools[v].entry] # StemOf[e]
              /\ Becomes(u, [Quiet EXCEPT !.command = "edit", !.entry = e, !.refresh = refresh])
  <2>1. PICK e \in Entries, refresh \in BOOLEAN :
              /\ \A v \in Users : Editing(v) => Stem(v) # StemOf[e]
              /\ Becomes(u, [Quiet EXCEPT !.command = "edit", !.entry = e, !.refresh = refresh])
    BY <1>1 DEF Editing, Stem
  <2>. DEFINE r == [Quiet EXCEPT !.command = "edit", !.entry = e, !.refresh = refresh]
  <2>2. DOMAIN r = Fields /\ r.command = "edit" /\ r.entry = e /\ r.step = "begin"
    BY QuietFacts DEF Fields
  <2>3. RunsTyped' /\ tools'[u] = r /\ \A v \in Users : v # u => tools'[v] = tools[v]
    BY <2>1, <2>2, BecomesFacts DEF DraftInv
  <2>. HIDE DEF r
  <2>4. OneAuthor'
    BY <2>1, <2>2, <2>3 DEF DraftInv, OneAuthor, Editing, Stem
  <2>5. \A d : DraftOk(r, d)
    BY <2>2 DEF DraftOk
  <2>6. \A v \in Users : Editing(v)' => DraftOk(tools'[v], descriptors'[StemOf[tools'[v].entry]])
    BY <2>3, <2>5, DraftsAre DEF DraftInv, Launch, Editing, Stem
  <2>7. DraftsKept' /\ DOMAIN descriptors' = Stems
    BY <2>6, DraftsBecome DEF DraftInv, Launch
  <2>. QED  BY <2>3, <2>4, <2>7 DEF DraftInv
<1>2. CASE \E e \in Entries, backup \in BOOLEAN :
              Becomes(u, [Quiet EXCEPT !.command = "update", !.entry = e, !.backup = backup])
  <2>1. PICK e \in Entries, backup \in BOOLEAN :
              Becomes(u, [Quiet EXCEPT !.command = "update", !.entry = e, !.backup = backup])
    BY <1>2
  <2>. DEFINE r == [Quiet EXCEPT !.command = "update", !.entry = e, !.backup = backup]
  <2>2. DOMAIN r = Fields /\ r.command = "update"
    BY QuietFacts DEF Fields
  <2>3. RunsTyped' /\ tools'[u] = r /\ \A v \in Users : v # u => tools'[v] = tools[v]
    BY <2>1, <2>2, BecomesFacts DEF DraftInv
  <2>. QED  BY <2>2, <2>3, DraftsLeft DEF DraftInv, Launch, Editing
<1>. QED  BY <1>1, <1>2 DEF Launch

LEMMA AbandonDraft == ASSUME DraftInv, NEW u \in Users, Abandon(u) PROVE DraftInv'
<1>1. RunsTyped' /\ tools'[u] = Quiet /\ \A v \in Users : v # u => tools'[v] = tools[v]
  BY QuietFacts, BecomesFacts DEF Abandon, DraftInv
<1>. QED  BY <1>1, QuietFacts, DraftsLeft DEF DraftInv, Abandon, Editing

LEMMA ReuseDescriptorDraft == ASSUME DraftInv, NEW u \in Users, ReuseDescriptor(u) PROVE DraftInv'
<1>. DEFINE r == [tools[u] EXCEPT !.step = "editor"]
<1>1. Editing(u) /\ Becomes(u, r) /\ ~ tools[u].refresh /\ UNCHANGED descriptors
  BY DEF ReuseDescriptor, Doing, Editing
<1>2. DOMAIN tools[u] = Fields /\ DraftOk(tools[u], descriptors[Stem(u)])
  BY <1>1, EditingFacts
<1>3. DOMAIN r = Fields /\ r.step = "editor" /\ r.entry = tools[u].entry /\ r.refresh = tools[u].refresh
  BY <1>2 DEF Fields
<1>. HIDE DEF r
<1>4. DraftOk(r, descriptors[Stem(u)])
  BY <1>1, <1>2, <1>3 DEF DraftOk
<1>. QED  BY <1>1, <1>3, <1>4, DraftGoesOn DEF DraftInv

LEMMA DecodeEntryDraft == ASSUME DraftInv, NEW u \in Users, DecodeEntry(u) PROVE DraftInv'
<1>. DEFINE r == [tools[u] EXCEPT !.step = "decoded", !.blob = pac.levels[tools[u].entry]]
<1>1. Editing(u) /\ Becomes(u, r) /\ descriptors' = [descriptors EXCEPT ![Stem(u)] = Torn]
  BY DEF DecodeEntry, Doing, Editing, Stem
<1>2. /\ DOMAIN tools[u] = Fields /\ DraftOk(tools[u], descriptors[Stem(u)])
      /\ Stem(u) \in Stems /\ DOMAIN descriptors = Stems
  BY <1>1, EditingFacts
<1>3. DOMAIN r = Fields /\ r.step = "decoded" /\ r.entry = tools[u].entry
  BY <1>2 DEF Fields
<1>. HIDE DEF r
<1>4. DraftOk(r, Torn)
  BY <1>2, <1>3 DEF DraftOk
<1>. QED  BY <1>1, <1>2, <1>3, <1>4, DraftGoesOn

LEMMA WriteDescriptorDraft == ASSUME DraftInv, NEW u \in Users, WriteDescriptor(u) PROVE DraftInv'
<1>. DEFINE r == [tools[u] EXCEPT !.step = "editor", !.base = tools[u].blob, !.blob = Missing]
            d == Decoded(tools[u].blob)
<1>1. Editing(u) /\ Becomes(u, r) /\ descriptors' = [descriptors EXCEPT ![Stem(u)] = d]
  BY DEF WriteDescriptor, Doing, Editing, Stem
<1>2. /\ DOMAIN tools[u] = Fields /\ DraftOk(tools[u], descriptors[Stem(u)])
      /\ Stem(u) \in Stems /\ DOMAIN descriptors = Stems
  BY <1>1, EditingFacts
<1>3. DOMAIN r = Fields /\ r.step = "editor" /\ r.entry = tools[u].entry /\ r.base = tools[u].blob
  BY <1>2 DEF Fields
<1>. HIDE DEF r
<1>4. DraftOk(r, d)
  BY <1>2, <1>3 DEF DraftOk
<1>. QED  BY <1>1, <1>2, <1>3, <1>4, DraftGoesOn

LEMMA LintAndEncodeDraft == ASSUME DraftInv, NEW u \in Users, LintAndEncode(u) PROVE DraftInv'
<1>. DEFINE d == descriptors[Stem(u)]
            r == [tools[u] EXCEPT !.step = "write", !.blob = EncodeLvd(Layout, d), !.lint = d]
<1>1. /\ Editing(u) /\ Becomes(u, r) /\ UNCHANGED descriptors /\ tools[u].step = "editor"
      /\ Lints(d) /\ EncodeLvd(Layout, d) # Refused /\ d # Torn
  BY DEF LintAndEncode, Doing, Editing, Stem
<1>2. DOMAIN tools[u] = Fields /\ DraftOk(tools[u], d)
  BY <1>1, EditingFacts
<1>3. /\ DOMAIN r = Fields /\ r.step = "write" /\ r.entry = tools[u].entry
      /\ r.blob = EncodeLvd(Layout, d) /\ r.lint = d
      /\ r.refresh = tools[u].refresh /\ r.edited = tools[u].edited /\ r.base = tools[u].base
  BY <1>2 DEF Fields
<1>. HIDE DEF r, d
<1>4. DraftOk(r, d)
  BY <1>1, <1>2, <1>3 DEF DraftOk, Decoded
<1>. QED  BY <1>1, <1>3, <1>4, DraftGoesOn DEF DraftInv, d

LEMMA WriteLevelDraft == ASSUME DraftInv, NEW u \in Users, WriteLevel(u) PROVE DraftInv'
BY QuietFacts, DraftGoesOn DEF WriteLevel, Doing, Editing, DraftInv

\* An author who saves marks every run on the descriptor that changes.
LEMMA SaveChangeDraft == ASSUME DraftInv, NEW s \in Stems, SaveChange(s) PROVE DraftInv'
<1>1. /\ descriptors[s] # Torn /\ DOMAIN descriptors' = Stems
      /\ \A t \in Stems : t # s => descriptors'[t] = descriptors[t]
  BY DEF SaveChange, DraftInv
<1>2. \A u \in Users : tools'[u] = IF Editing(u) /\ Stem(u) = s
                                   THEN [tools[u] EXCEPT !.edited = TRUE] ELSE tools[u]
  BY DEF SaveChange, Editing, Stem
<1>3. RunsTyped'
  BY <1>2 DEF SaveChange, DraftInv, RunsTyped
<1>4. \A u \in Users : /\ tools'[u].command = tools[u].command /\ tools'[u].entry = tools[u].entry
                       /\ tools'[u].step = tools[u].step /\ tools'[u].refresh = tools[u].refresh
                       /\ tools'[u].base = tools[u].base /\ tools'[u].blob = tools[u].blob
                       /\ tools'[u].lint = tools[u].lint
                       /\ tools'[u].edited = (tools[u].edited \/ (Editing(u) /\ Stem(u) = s)) \/ tools'[u] = tools[u]
  BY <1>2 DEF DraftInv, RunsTyped, Fields
<1>5. OneAuthor'
  BY <1>4 DEF DraftInv, OneAuthor, Editing, Stem
<1>6. ASSUME NEW u \in Users, Editing(u)'
      PROVE  DraftOk(tools'[u], descriptors'[StemOf[tools'[u].entry]])
  <2>1. Editing(u) /\ DraftOk(tools[u], descriptors[Stem(u)]) /\ Stem(u) \in Stems /\ DOMAIN tools[u] = Fields
    BY <1>4, <1>6, EditingFacts DEF Editing
  <2>2. CASE Stem(u) = s
    <3>1. tools'[u].edited = TRUE
      BY <1>2, <2>1, <2>2 DEF Fields
    <3>. QED  BY <1>1, <1>4, <2>1, <2>2, <3>1 DEF DraftOk, Stem
  <2>3. CASE Stem(u) # s
    BY <1>1, <1>2, <2>1, <2>3 DEF Stem
  <2>. QED  BY <2>2, <2>3
<1>7. DraftsKept'
  BY <1>6, DraftsBecome
<1>. QED  BY <1>1, <1>3, <1>5, <1>7 DEF DraftInv

\* No update has a descriptor.
LEMMA UpdateDraft ==
    ASSUME DraftInv, NEW u \in Users,
           OpenArchives(u) \/ CopyMembers(u) \/ RetireArchive(u) \/ InstallArchive(u)
    PROVE  DraftInv'
<1>1. DOMAIN tools[u] = Fields /\ tools[u].command = "update"
  BY DEF DraftInv, RunsTyped, Doing, OpenArchives, CopyMembers, RetireArchive, InstallArchive
<1>2. \E r : DOMAIN r = Fields /\ r.command # "edit" /\ Becomes(u, r)
  <2>1. CASE OpenArchives(u)
    <3>. DEFINE r == [tools[u] EXCEPT !.step = "copy", !.blob = out[tools[u].entry]]
    <3>1. DOMAIN r = Fields /\ r.command = "update"  BY <1>1 DEF Fields
    <3>2. Becomes(u, r)  BY <2>1 DEF OpenArchives
    <3>. QED  BY <3>1, <3>2
  <2>2. CASE CopyMembers(u)
    <3>. DEFINE r == [tools[u] EXCEPT !.step = "retire"]
    <3>1. DOMAIN r = Fields /\ r.command = "update"  BY <1>1 DEF Fields
    <3>2. Becomes(u, r) \/ Becomes(u, Quiet)  BY <2>2 DEF CopyMembers
    <3>. QED  BY <3>1, <3>2, QuietFacts
  <2>3. CASE RetireArchive(u)
    <3>. DEFINE r == [tools[u] EXCEPT !.step = "install"]
    <3>1. DOMAIN r = Fields /\ r.command = "update"  BY <1>1 DEF Fields
    <3>2. Becomes(u, r)  BY <2>3 DEF RetireArchive
    <3>. QED  BY <3>1, <3>2
  <2>4. CASE InstallArchive(u)  BY <2>4, QuietFacts DEF InstallArchive
  <2>. QED  BY <2>1, <2>2, <2>3, <2>4
<1>3. PICK r : DOMAIN r = Fields /\ r.command # "edit" /\ Becomes(u, r)
  BY <1>2
<1>4. RunsTyped' /\ tools'[u] = r /\ \A v \in Users : v # u => tools'[v] = tools[v]
  BY <1>3, BecomesFacts DEF DraftInv
<1>5. UNCHANGED descriptors
  BY DEF OpenArchives, CopyMembers, RetireArchive, InstallArchive
<1>. QED  BY <1>3, <1>4, <1>5, DraftsLeft DEF DraftInv, Editing

LEMMA NextDraftInv == ASSUME DraftInv, [EditorNext]_editorVars PROVE DraftInv'
<1>1. CASE UNCHANGED editorVars
  BY <1>1, DraftsLeft DEF editorVars, DraftInv, RunsTyped, Editing
<1>2. CASE RestoreByHand
  BY <1>2, DraftsLeft DEF RestoreByHand, DraftInv, RunsTyped, Editing
<1>. QED  BY <1>1, <1>2, LaunchDraft, AbandonDraft, ReuseDescriptorDraft, DecodeEntryDraft, WriteDescriptorDraft,
             LintAndEncodeDraft, WriteLevelDraft, SaveChangeDraft, UpdateDraft DEF EditorNext

LEMMA InitDraftInv == EditorInit => DraftInv
BY QuietFacts DEF EditorInit, DraftInv, RunsTyped, OneAuthor, DraftsKept, Editing

\* What a run of edit relies on between two of its steps, whoever else saves.
THEOREM DraftInvariance == EditorSpec => []DraftInv
BY InitDraftInv, NextDraftInv, PTL DEF EditorSpec

\* What edit is about to write passed the linter, and is its encoding: not
\* something saved after the linter read the file.
THEOREM WrittenWasLinted ==
    EditorSpec => [](\A u \in Users : Doing(u, "edit", "write") =>
                        Lints(tools[u].lint) /\ tools[u].blob = EncodeLvd(Layout, tools[u].lint))
<1>1. DraftInv => \A u \in Users : Doing(u, "edit", "write") =>
                      Lints(tools[u].lint) /\ tools[u].blob = EncodeLvd(Layout, tools[u].lint)
  BY DEF DraftInv, DraftsKept, Doing, Editing
<1>. QED  BY <1>1, DraftInvariance, PTL

\* One output file for each entry.
OutputsNamed == DOMAIN out = Entries

LEMMA OutputsStay == ASSUME OutputsNamed, [EditorNext]_editorVars PROVE OutputsNamed'
<1>1. UNCHANGED out \/ \E e, b : out' = [out EXCEPT ![e] = b]
  BY DEF EditorNext, editorVars, Launch, Abandon, ReuseDescriptor, DecodeEntry, WriteDescriptor, LintAndEncode,
         WriteLevel, SaveChange, OpenArchives, CopyMembers, RetireArchive, InstallArchive, RestoreByHand
<1>. QED  BY <1>1 DEF OutputsNamed

\* Editing afresh and changing nothing writes what the codec makes of the level
\* it decoded, whatever earlier runs, or runs on a level of the same base name,
\* have left.
THEOREM UntouchedIsReencoded ==
    EditorSpec => [][\A u \in Users :
                        WriteLevel(u) /\ tools[u].refresh /\ ~tools[u].edited =>
                            out'[tools[u].entry] = EncodeLvd(Layout, ParseLvd(Layout, tools[u].base))]_editorVars
<1> DEFINE Wrote(u) == out'[tools[u].entry] = EncodeLvd(Layout, ParseLvd(Layout, tools[u].base))
<1>1. EditorInit => OutputsNamed
  BY DEF EditorInit, OutputsNamed
<1>2. EditorSpec => []OutputsNamed
  BY <1>1, OutputsStay, PTL DEF EditorSpec
<1>3. ASSUME DraftInv, OutputsNamed, NEW u \in Users, WriteLevel(u), tools[u].refresh, ~tools[u].edited
      PROVE  Wrote(u)
  <2>1. Editing(u) /\ tools[u].step = "write" /\ out' = [out EXCEPT ![tools[u].entry] = tools[u].blob]
    BY <1>3 DEF WriteLevel, Doing, Editing
  <2>2. DraftOk(tools[u], descriptors[Stem(u)])
    BY <1>3, <2>1, EditingFacts
  <2>. QED  BY <1>3, <2>1, <2>2 DEF DraftOk, OutputsNamed
<1>4. DraftInv /\ OutputsNamed =>
          \A u \in Users : WriteLevel(u) /\ tools[u].refresh /\ ~tools[u].edited => Wrote(u)
  BY <1>3
<1>. QED  BY <1>2, <1>4, DraftInvariance, PTL DEF EditorSpec

-----------------------------------------------------------------------------
(* Sequences of sequences, end to end. *)

\* Named, so that the provers take it for a term and not for a definition.
Cat(s, t) == s \o t

LEMMA CatFacts ==
    ASSUME NEW T, NEW s \in Seq(T), NEW t \in Seq(T)
    PROVE  /\ Cat(s, t) \in Seq(T) /\ Len(s) \in Nat /\ Len(t) \in Nat /\ Len(Cat(s, t)) = Len(s) + Len(t)
           /\ \A i \in 1..Len(s) : Cat(s, t)[i] = s[i]
           /\ \A i \in 1..Len(t) : Cat(s, t)[Len(s) + i] = t[i]
BY DEF Cat

\* f joins the first i of them, for every i.
Joins(f, s, T) ==
    /\ s \in Seq(Seq(T))
    /\ f \in [0..Len(s) -> Seq(T)]
    /\ f[0] = <<>>
    /\ \A i \in 1..Len(s) : f[i] = Cat(f[i - 1], s[i])

LEMMA FlattenJoins ==
    ASSUME NEW T, NEW s \in Seq(Seq(T))
    PROVE  \E f : Joins(f, s, T) /\ FlattenSeq(s) = f[Len(s)]
<1>. DEFINE N == Len(s)
            U == Seq(T)
            step == [p \in (1..N) \X U |-> Cat(p[2], s[p[1]])]
            Body(k, i) == IF i = 1 THEN s[i] ELSE Cat(k[i - 1], s[i])
            flatten == CHOOSE k : k = [i \in 1..N |-> Body(k, i)]
<1>1. N \in Nat /\ <<>> \in U /\ \A i \in 1..N : s[i] \in U
  OBVIOUS
<1>2. FlattenSeq(s) = IF N = 0 THEN s ELSE flatten[N]
  BY DEF FlattenSeq, Cat
<1>3. N = 0 => s = <<>>
  OBVIOUS
<1>4. step \in Steps(N, U) /\ \A i \in 1..N, t \in U : step[<<i, t>>] = Cat(t, s[i])
  BY <1>1, CatFacts DEF Steps
<1>. HIDE DEF N, U, step
<1>5. PICK f \in [0..N -> U] : Recurs(f, N, <<>>, step)
  BY <1>1, <1>4, Recursion
<1>6. f[0] = <<>> /\ \A i \in 1..N : i - 1 \in 0..N /\ f[i - 1] \in U /\ f[i] = Cat(f[i - 1], s[i])
  <2>1. f[0] = <<>>
    BY <1>5 DEF Recurs
  <2>2. ASSUME NEW i \in 1..N PROVE i - 1 \in 0..N /\ f[i - 1] \in U /\ f[i] = Cat(f[i - 1], s[i])
    <3>1. i - 1 \in 0..N
      BY <1>1
    <3>2. f[i - 1] \in U /\ f[i] = step[<<i, f[i - 1]>>]
      BY <1>5, <3>1 DEF Recurs
    <3>. QED  BY <1>4, <3>1, <3>2
  <2>. QED  BY <2>1, <2>2
<1>7. Joins(f, s, T)
  BY <1>5, <1>6 DEF Joins, N, U
<1>8. CASE N = 0
  BY <1>2, <1>3, <1>6, <1>7, <1>8 DEF N
<1>9. CASE N # 0
  <2>. DEFINE g == [i \in 1..N |-> f[i]]
  <2>1. g = [i \in 1..N |-> Body(g, i)]
    <3>1. ASSUME NEW i \in 1..N PROVE g[i] = Body(g, i)
      <4>1. CASE i = 1
        <5>1. Cat(<<>>, s[1]) = s[1]
          BY <1>1, <4>1 DEF U, Cat
        <5>. QED  BY <1>1, <1>6, <4>1, <5>1
      <4>2. CASE i # 1
        <5>1. i - 1 \in 1..N
          BY <1>1, <4>2
        <5>. QED  BY <1>1, <1>6, <4>2, <5>1
      <4>. QED  BY <4>1, <4>2
    <3>. HIDE DEF Body
    <3>. QED  BY <3>1
  <2>2. flatten = [i \in 1..N |-> Body(flatten, i)]
    <3>. HIDE DEF Body, g
    <3>. QED  BY <2>1
  <2>. HIDE DEF flatten
  <2>3. \A i \in 1..N : flatten[i] = Body(flatten, i)
    <3>. HIDE DEF Body
    <3>. QED  BY <2>2
  <2>. DEFINE Same(i) == i # 0 => flatten[i] = f[i]
              S == {i \in 0..N : Same(i)}
  <2>4. 0 \in S
    BY <1>1
  <2>5. ASSUME NEW i \in 1..N, i - 1 \in S PROVE i \in S
    <3>1. flatten[i] = f[i]
      <4>1. CASE i = 1
        <5>1. Cat(<<>>, s[1]) = s[1]
          BY <1>1, <4>1 DEF U, Cat
        <5>2. f[1] = Cat(f[0], s[1])
          BY <1>1, <1>6, <4>1
        <5>. QED  BY <1>6, <2>3, <4>1, <5>1, <5>2
      <4>2. CASE i # 1
        <5>1. i - 1 # 0
          BY <1>1, <4>2
        <5>2. flatten[i - 1] = f[i - 1]
          BY <2>5, <5>1
        <5>. QED  BY <1>6, <2>3, <4>2, <5>2
      <4>. QED  BY <4>1, <4>2
    <3>. QED  BY <1>1, <3>1
  <2>. HIDE DEF S
  <2>6. \A i \in 0..N : i \in S
    BY <1>1, <2>4, <2>5, CountingTo
  <2>7. N \in S
    BY <1>1, <2>6
  <2>. QED  BY <1>2, <1>7, <1>9, <2>7 DEF S, N
<1>. QED  BY <1>8, <1>9

\* The pieces, and how many members come before the end of each.
Offsets(at, s) ==
    /\ at \in [0..Len(s) -> Nat]
    /\ at[0] = 0
    /\ \A i \in 1..Len(s) : at[i] = at[i - 1] + Len(s[i])

LEMMA Flattened ==
    ASSUME NEW T, NEW s \in Seq(Seq(T))
    PROVE  /\ FlattenSeq(s) \in Seq(T)
           /\ \E at : /\ Offsets(at, s) /\ Len(FlattenSeq(s)) = at[Len(s)]
                      /\ \A i \in 1..Len(s) : \A k \in 1..Len(s[i]) :
                           /\ at[i - 1] + k \in 1..at[Len(s)]
                           /\ FlattenSeq(s)[at[i - 1] + k] = s[i][k]
<1>1. PICK f : Joins(f, s, T) /\ FlattenSeq(s) = f[Len(s)]
  BY FlattenJoins
<1>. DEFINE N == Len(s)
            at == [i \in 0..N |-> Len(f[i])]
<1>2. /\ N \in Nat /\ f \in [0..N -> Seq(T)] /\ f[0] = <<>>
      /\ \A i \in 1..N : i - 1 \in 0..N /\ i \in 0..N /\ s[i] \in Seq(T) /\ f[i] = Cat(f[i - 1], s[i])
  BY <1>1 DEF Joins
<1>3. ASSUME NEW a \in Seq(T), NEW b \in Seq(T)
      PROVE  /\ Len(a) \in Nat /\ Len(b) \in Nat /\ Len(Cat(a, b)) = Len(a) + Len(b)
             /\ \A i \in 1..Len(a) : Cat(a, b)[i] = a[i]
             /\ \A i \in 1..Len(b) : Cat(a, b)[Len(a) + i] = b[i]
  BY DEF Cat
<1>. HIDE DEF N
<1>4. \A i \in 0..N : f[i] \in Seq(T) /\ at[i] = Len(f[i]) /\ at[i] \in Nat
  BY <1>2, <1>3
<1>. HIDE DEF at
<1>5. at \in [0..N -> Nat] /\ at[0] = 0 /\ at[N] = Len(f[N])
  BY <1>2, <1>4 DEF at
<1>6. ASSUME NEW i \in 1..N
      PROVE  /\ at[i] = at[i - 1] + Len(s[i]) /\ Len(s[i]) \in Nat
             /\ \A m \in 1..at[i - 1] : f[i][m] = f[i - 1][m]
             /\ \A k \in 1..Len(s[i]) : f[i][at[i - 1] + k] = s[i][k]
  <2>1. f[i - 1] \in Seq(T) /\ s[i] \in Seq(T) /\ f[i] = Cat(f[i - 1], s[i]) /\ at[i - 1] = Len(f[i - 1]) /\ at[i] = Len(f[i])
    BY <1>2, <1>4
  <2>2. /\ Len(f[i - 1]) \in Nat /\ Len(s[i]) \in Nat /\ Len(f[i]) = Len(f[i - 1]) + Len(s[i])
        /\ \A m \in 1..Len(f[i - 1]) : f[i][m] = f[i - 1][m]
        /\ \A k \in 1..Len(s[i]) : f[i][Len(f[i - 1]) + k] = s[i][k]
    <3>. DEFINE a == f[i - 1]
                b == s[i]
    <3>1. a \in Seq(T) /\ b \in Seq(T) /\ f[i] = Cat(a, b)
      BY <2>1
    <3>. HIDE DEF a, b
    <3>2. /\ Len(a) \in Nat /\ Len(b) \in Nat /\ Len(f[i]) = Len(a) + Len(b)
          /\ \A m \in 1..Len(a) : f[i][m] = a[m]
          /\ \A k \in 1..Len(b) : f[i][Len(a) + k] = b[k]
      BY <1>3, <3>1
    <3>. QED  BY <3>2 DEF a, b
  <2>. QED  BY <2>1, <2>2
<1>7. ASSUME NEW i \in 1..N, NEW k \in 1..Len(s[i])
      PROVE  at[i - 1] + k \in 1..at[N] /\ f[N][at[i - 1] + k] = s[i][k]
  <2>. DEFINE p == at[i - 1] + k
              S == {j \in 0..N : i <= j => p \in 1..at[j] /\ f[j][p] = s[i][k]}
  <2>0. /\ p \in Int /\ at[i - 1] \in Nat /\ at[i] = at[i - 1] + Len(s[i]) /\ f[i][p] = s[i][k] /\ Len(s[i]) \in Nat
        /\ p \in 1..at[i]
    <3>1. at[i - 1] \in Nat /\ at[i] = at[i - 1] + Len(s[i]) /\ f[i][at[i - 1] + k] = s[i][k] /\ Len(s[i]) \in Nat
      BY <1>2, <1>4, <1>6
    <3>. QED  BY <3>1
  <2>. HIDE DEF p
  <2>1. 0 \in S
    BY <1>2
  <2>2. ASSUME NEW j \in 1..N, j - 1 \in S PROVE j \in S
    <3>1. CASE i <= j - 1
      <4>1. p \in 1..at[j - 1] /\ f[j - 1][p] = s[i][k]
        BY <2>2, <3>1
      <4>2. at[j - 1] \in Nat /\ at[j] = at[j - 1] + Len(s[j]) /\ Len(s[j]) \in Nat /\ f[j][p] = f[j - 1][p]
        BY <1>2, <1>4, <1>6, <4>1
      <4>3. p \in 1..at[j] /\ j \in 0..N
        <5>. DEFINE m == at[j - 1]
                    l == Len(s[j])
        <5>1. p \in 1..m /\ m \in Nat /\ l \in Nat /\ at[j] = m + l
          BY <4>1, <4>2
        <5>. HIDE DEF m, l
        <5>2. p \in 1..(m + l)
          BY <5>1
        <5>. QED  BY <1>2, <5>1, <5>2
      <4>. QED  BY <4>1, <4>2, <4>3
    <3>2. CASE i = j
      <4>1. j \in 0..N
        BY <1>2
      <4>. QED  BY <2>0, <3>2, <4>1
    <3>3. CASE i > j
      <4>1. j \in 0..N /\ ~(i <= j)
        BY <1>2, <3>3
      <4>. QED  BY <4>1
    <3>. QED  BY <1>2, <3>1, <3>2, <3>3
  <2>. HIDE DEF S
  <2>3. \A j \in 0..N : j \in S
    BY <1>2, <2>1, <2>2, CountingTo
  <2>4. N \in S /\ i <= N
    BY <1>2, <2>3
  <2>. QED  BY <2>4 DEF S, p
<1>8. Offsets(at, s)
  BY <1>5, <1>6 DEF Offsets, N
<1>9. FlattenSeq(s) \in Seq(T) /\ Len(FlattenSeq(s)) = at[N]
  BY <1>1, <1>2, <1>4, <1>5 DEF N
<1>10. \A i \in 1..N : \A k \in 1..Len(s[i]) :
           at[i - 1] + k \in 1..at[N] /\ FlattenSeq(s)[at[i - 1] + k] = s[i][k]
  BY <1>1, <1>7 DEF N
<1>. QED  BY <1>8, <1>9, <1>10 DEF N

LEMMA FlattenType ==
    ASSUME NEW T, NEW s \in Seq(Seq(T))
    PROVE  FlattenSeq(s) \in Seq(T)
BY Flattened

LEMMA FlattenNone == FlattenSeq(<<>>) = <<>>
BY DEF FlattenSeq

LEMMA FlattenAppend ==
    ASSUME NEW T, NEW s \in Seq(Seq(T)), NEW x \in Seq(T)
    PROVE  FlattenSeq(Append(s, x)) = Cat(FlattenSeq(s), x)
<1>. DEFINE t == Append(s, x)
            n == Len(s)
<1>1. t \in Seq(Seq(T)) /\ Len(t) = n + 1 /\ t[n + 1] = x /\ n \in Nat /\ \A i \in 1..n : s[i] = t[i]
  OBVIOUS
<1>. HIDE DEF t
<1>2. PICK f : Joins(f, s, T) /\ FlattenSeq(s) = f[n]
  BY FlattenJoins
<1>3. PICK g : Joins(g, t, T) /\ FlattenSeq(t) = g[Len(t)]
  BY <1>1, FlattenJoins
<1>4. f[0] = <<>> /\ \A i \in 1..n : f[i] = Cat(f[i - 1], s[i])
  BY <1>2 DEF Joins
<1>5. g[0] = <<>> /\ \A i \in 1..(n + 1) : g[i] = Cat(g[i - 1], t[i])
  BY <1>1, <1>3 DEF Joins
<1>. HIDE DEF n
<1>. DEFINE S == {i \in 0..n : f[i] = g[i]}
<1>6. 0 \in S
  BY <1>1, <1>4, <1>5
<1>7. ASSUME NEW i \in 1..n, i - 1 \in S PROVE i \in S
  <2>1. f[i - 1] = g[i - 1] /\ i \in 0..n /\ i \in 1..(n + 1)
    BY <1>1, <1>7
  <2>. QED  BY <1>1, <1>4, <1>5, <2>1
<1>. HIDE DEF S
<1>8. \A i \in 0..n : i \in S
  BY <1>1, <1>6, <1>7, CountingTo
<1>9. f[n] = g[n]
  <2>1. n \in 0..n
    BY <1>1
  <2>. QED  BY <1>8, <2>1 DEF S
<1>10. g[n + 1] = Cat(g[n], x)
  <2>1. n + 1 \in 1..(n + 1) /\ (n + 1) - 1 = n
    BY <1>1
  <2>. QED  BY <1>1, <1>5, <2>1
<1>. QED  BY <1>1, <1>2, <1>3, <1>9, <1>10 DEF t

\* v is the pieces of s, each of n members, end to end.
LaidOut(v, s, n) ==
    /\ Len(v) = Len(s) * n
    /\ \A i \in 1..Len(s), k \in 1..n : (i - 1) * n + k \in 1..Len(v) /\ v[(i - 1) * n + k] = s[i][k]

LEMMA FlattenEven ==
    ASSUME NEW T, NEW n \in Nat, NEW s \in Seq([1..n -> T])
    PROVE  FlattenSeq(s) \in Seq(T) /\ LaidOut(FlattenSeq(s), s, n)
<1>. DEFINE N == Len(s)
<1>1. \A x \in [1..n -> T] : x \in Seq(T) /\ Len(x) = n
  OBVIOUS
<1>2. s \in Seq(Seq(T)) /\ N \in Nat /\ \A i \in 1..N : s[i] \in Seq(T) /\ Len(s[i]) = n
  BY <1>1
<1>. HIDE DEF N
<1>3. /\ FlattenSeq(s) \in Seq(T)
      /\ \E at : /\ Offsets(at, s) /\ Len(FlattenSeq(s)) = at[N]
                 /\ \A i \in 1..N : \A k \in 1..Len(s[i]) :
                      /\ at[i - 1] + k \in 1..at[N]
                      /\ FlattenSeq(s)[at[i - 1] + k] = s[i][k]
  BY <1>2, Flattened DEF N
<1>4. PICK at : /\ Offsets(at, s) /\ Len(FlattenSeq(s)) = at[N]
                /\ \A i \in 1..N : \A k \in 1..Len(s[i]) :
                     /\ at[i - 1] + k \in 1..at[N]
                     /\ FlattenSeq(s)[at[i - 1] + k] = s[i][k]
  BY <1>3
<1>5. at[0] = 0 /\ \A i \in 1..N : at[i] = at[i - 1] + n
  BY <1>2, <1>4 DEF Offsets, N
<1>. DEFINE S == {i \in 0..N : at[i] = i * n}
<1>6. 0 \in S
  BY <1>2, <1>5
<1>7. ASSUME NEW i \in 1..N, i - 1 \in S PROVE i \in S
  <2>1. at[i - 1] = (i - 1) * n /\ at[i] = at[i - 1] + n /\ i \in 0..N /\ i \in Nat
    BY <1>2, <1>5, <1>7
  <2>2. (i - 1) * n + n = i * n
    BY <2>1
  <2>. QED  BY <2>1, <2>2
<1>. HIDE DEF S
<1>8. \A i \in 0..N : i \in S
  BY <1>2, <1>6, <1>7, CountingTo
<1>9. \A i \in 0..N : at[i] = i * n
  BY <1>8 DEF S
<1>10. at[N] = N * n /\ \A i \in 1..N : at[i - 1] = (i - 1) * n
  BY <1>2, <1>9
<1>. QED  BY <1>2, <1>3, <1>4, <1>10 DEF N, LaidOut

-----------------------------------------------------------------------------
(* Words in groups of n. *)

LEMMA Quotient ==
    ASSUME NEW x \in Nat, NEW n \in Nat \ {0}
    PROVE  /\ x \div n \in Nat /\ x % n \in 0..(n - 1)
           /\ x = (x \div n) * n + (x % n)
  OBVIOUS

LEMMA QuotientIs ==
    ASSUME NEW q \in Nat, NEW r \in Nat, NEW n \in Nat \ {0}, r < n
    PROVE  (q * n + r) \div n = q
<1>. DEFINE x == q * n + r
            p == x \div n
            m == x % n
<1>1. x \in Nat
  OBVIOUS
<1>2. p \in Nat /\ m \in 0..(n - 1) /\ x = p * n + m
  BY <1>1, Quotient
<1>. HIDE DEF p, m
<1>3. q * n + r = p * n + m
  BY <1>2 DEF x
<1>4. (q - p) * n = m - r
  BY <1>2, <1>3
<1>5. ASSUME q > p PROVE FALSE
  <2>1. q - p >= 1 /\ q - p \in Nat
    BY <1>2, <1>5
  <2>2. (q - p) * n >= n
    <3>. DEFINE d == q - p
    <3>1. d \in Nat /\ d >= 1
      BY <2>1
    <3>. HIDE DEF d
    <3>2. d * n = (d - 1) * n + n /\ (d - 1) * n >= 0
      BY <3>1
    <3>3. d * n >= n
      <4>1. (d - 1) * n \in Int /\ d * n \in Int
        BY <3>1
      <4>. QED  BY <3>2, <4>1
    <3>. QED  BY <3>3 DEF d
  <2>. QED  BY <1>2, <1>4, <2>2
<1>6. ASSUME p > q PROVE FALSE
  <2>1. p - q >= 1 /\ p - q \in Nat
    BY <1>2, <1>6
  <2>2. (p - q) * n >= n
    <3>. DEFINE d == p - q
    <3>1. d \in Nat /\ d >= 1
      BY <2>1
    <3>. HIDE DEF d
    <3>2. d * n = (d - 1) * n + n /\ (d - 1) * n >= 0
      BY <3>1
    <3>3. d * n >= n
      <4>1. (d - 1) * n \in Int /\ d * n \in Int
        BY <3>1
      <4>. QED  BY <3>2, <4>1
    <3>. QED  BY <3>3 DEF d
  <2>3. (p - q) * n = r - m
    BY <1>2, <1>3
  <2>. QED  BY <1>2, <2>2, <2>3
<1>. QED  BY <1>2, <1>5, <1>6 DEF p

LEMMA Before ==
    ASSUME NEW N \in Nat, NEW n \in Nat, NEW i \in 1..N
    PROVE  (i - 1) * n \in Nat /\ (N - i) * n \in Nat /\ N * n = (i - 1) * n + n + (N - i) * n
<1>1. i - 1 \in Nat /\ N - i \in Nat
  OBVIOUS
<1>. QED  BY <1>1

\* Words that are laid out as groups fall into these groups.
LEMMA Regroup ==
    ASSUME NEW n \in Nat \ {0}, NEW s \in Seq([1..n -> Int]), NEW v \in Seq(Int), LaidOut(v, s, n)
    PROVE  InGroups(v, n) = s
<1>. DEFINE N == Len(s)
<1>1. N \in Nat /\ s = [i \in 1..N |-> s[i]] /\ \A i \in 1..N : s[i] \in [1..n -> Int]
  OBVIOUS
<1>. HIDE DEF N
<1>2. (N * n + (n - 1)) \div n = N
  <2>1. n - 1 \in Nat /\ n - 1 < n
    OBVIOUS
  <2>. HIDE DEF N
  <2>. QED  BY <1>1, <2>1, QuotientIs
<1>3. (Len(v) + n - 1) \div n = N
  <2>1. Len(v) = N * n
    BY DEF N, LaidOut
  <2>2. N * n \in Nat
    BY <1>1
  <2>3. Len(v) + n - 1 = N * n + (n - 1)
    BY <2>1, <2>2
  <2>. QED  BY <1>2, <2>3
<1>4. ASSUME NEW i \in 1..N PROVE Slice(v, (i - 1) * n, n) = s[i]
  <2>1. ASSUME NEW k \in 1..n PROVE (i - 1) * n + k <= Len(v) /\ v[(i - 1) * n + k] = s[i][k]
    <3>. DEFINE a == (i - 1) * n
                b == (N - i) * n
    <3>1. a \in Nat /\ b \in Nat /\ N * n = a + n + b
      BY <1>1, Before
    <3>2. Len(v) = N * n /\ v[a + k] = s[i][k]
      BY <1>4, <2>1 DEF N, LaidOut
    <3>. HIDE DEF a, b
    <3>3. a + k <= Len(v)
      BY <3>1, <3>2
    <3>. QED  BY <3>2, <3>3 DEF a
  <2>2. Slice(v, (i - 1) * n, n) = [k \in 1..n |-> s[i][k]]
    BY <2>1 DEF Slice
  <2>. QED  BY <1>1, <2>2
<1>5. InGroups(v, n) = [i \in 1..N |-> s[i]]
  BY <1>3, <1>4 DEF InGroups
<1>. QED  BY <1>1, <1>5

\* Groups laid end to end fall into the same groups.
LEMMA GroupsAgain ==
    ASSUME NEW n \in Nat \ {0}, NEW s \in Seq([1..n -> Int])
    PROVE  InGroups(FlattenSeq(s), n) = s
<1>. DEFINE v == FlattenSeq(s)
<1>1. v \in Seq(Int) /\ LaidOut(v, s, n)
  BY FlattenEven
<1>. HIDE DEF v
<1>2. InGroups(v, n) = s
  BY <1>1, Regroup
<1>. QED  BY <1>2 DEF v

Starts(v, w) == Len(w) <= Len(v) /\ \A p \in 1..Len(w) : v[p] = w[p]

LEMMA StartsAt ==
    ASSUME NEW v, NEW w, Len(v) \in Nat, Len(w) \in Nat, Starts(v, w), NEW p \in 1..Len(w)
    PROVE  p \in Nat /\ p <= Len(v) /\ v[p] = w[p]
BY DEF Starts

\* Words put into groups and laid end to end again have only been padded.
LEMMA Padded ==
    ASSUME NEW n \in Nat \ {0}, NEW w \in Seq(Int)
    PROVE  /\ InGroups(w, n) \in Seq([1..n -> Int])
           /\ FlattenSeq(InGroups(w, n)) \in Seq(Int)
           /\ Starts(FlattenSeq(InGroups(w, n)), w)
<1>. DEFINE L == Len(w)
            q == (L + n - 1) \div n
            r == (L + n - 1) % n
            g == InGroups(w, n)
            v == FlattenSeq(g)
<1>1. L \in Nat /\ \A p \in 1..L : w[p] \in Int
  OBVIOUS
<1>2. q \in Nat /\ r \in 0..(n - 1) /\ L + n - 1 = q * n + r
  <2>1. L + n - 1 \in Nat
    BY <1>1
  <2>. QED  BY <2>1, Quotient
<1>3. g = [i \in 1..q |-> Slice(w, (i - 1) * n, n)]
  BY DEF InGroups
<1>. HIDE DEF L, q, r, g
<1>4. ASSUME NEW i \in 1..q PROVE Slice(w, (i - 1) * n, n) \in [1..n -> Int]
  <2>. DEFINE a == (i - 1) * n
  <2>1. a \in Nat
    BY <1>2, Before
  <2>. HIDE DEF a
  <2>2. Slice(w, a, n) \in [1..n -> Int]
    BY <1>1, <2>1 DEF Slice, L
  <2>. QED  BY <2>2 DEF a
<1>5. g \in Seq([1..n -> Int]) /\ Len(g) = q
  <2>. DEFINE R == [1..n -> Int]
  <2>1. \A i \in 1..q : Slice(w, (i - 1) * n, n) \in R
    BY <1>4
  <2>. HIDE DEF R
  <2>2. g \in Seq(R) /\ Len(g) = q
    BY <1>2, <1>3, <2>1
  <2>. QED  BY <2>2 DEF R
<1>6. v \in Seq(Int) /\ LaidOut(v, g, n)
  BY <1>5, FlattenEven
<1>. HIDE DEF v
<1>7. Len(v) = q * n /\ q * n \in Nat /\ Len(v) \in Nat /\ L <= Len(v)
  <2>1. q * n \in Nat
    BY <1>2
  <2>2. Len(v) = q * n
    BY <1>5, <1>6 DEF LaidOut
  <2>. QED  BY <1>1, <1>2, <2>1, <2>2
<1>8. ASSUME NEW p \in 1..L PROVE v[p] = w[p]
  <2>. DEFINE i == ((p - 1) \div n) + 1
              k == ((p - 1) % n) + 1
              a == (i - 1) * n
  <2>1. i - 1 \in Nat /\ k \in 1..n /\ p - 1 = a + (k - 1) /\ i \in Nat /\ i >= 1
    <3>1. p - 1 \in Nat
      BY <1>1
    <3>2. /\ (p - 1) \div n \in Nat /\ (p - 1) % n \in 0..(n - 1)
          /\ p - 1 = ((p - 1) \div n) * n + ((p - 1) % n)
      BY <3>1, Quotient
    <3>. QED  BY <3>2
  <2>. HIDE DEF i, k
  <2>2. i <= q
    <3>1. SUFFICES ASSUME q <= i - 1 PROVE FALSE
      BY <1>2, <2>1
    <3>2. q * n <= a /\ a \in Nat
      <4>. DEFINE d == (i - 1) - q
      <4>1. d \in Nat /\ i - 1 = q + d
        BY <1>2, <2>1, <3>1
      <4>. HIDE DEF d
      <4>2. (q + d) * n = q * n + d * n /\ d * n \in Nat
        BY <1>2, <4>1
      <4>. QED  BY <1>7, <4>1, <4>2
    <3>. QED  BY <1>1, <1>7, <2>1, <3>2
  <2>3. i \in 1..q /\ a \in Nat
    BY <1>2, <2>1, <2>2, Before
  <2>4. v[a + k] = g[i][k]
    BY <1>5, <1>6, <2>1, <2>3 DEF LaidOut
  <2>. HIDE DEF a
  <2>5. a + k = p
    BY <1>1, <2>1, <2>3
  <2>6. g[i] = Slice(w, a, n)
    BY <1>3, <2>3 DEF a
  <2>7. Slice(w, a, n)[k] = w[p]
    BY <1>1, <2>1, <2>5 DEF Slice, L
  <2>. QED  BY <2>4, <2>5, <2>6, <2>7
<1>. QED  BY <1>5, <1>6, <1>7, <1>8 DEF Starts, L, v, g

-----------------------------------------------------------------------------
(* The shop inventory goes back to the chunks it was gathered from. *)

\* The groups of t are those of s after the first a.
RunsIn(t, s, a) == \A k \in 1..Len(t) : a + k \in 1..Len(s) /\ s[a + k] = t[k]

\* l groups of words, after the first a.
GroupsAt(v, a, l, n) == InGroups(Slice(v, a * n, l * n), n)

LEMMA RunOfGroups ==
    ASSUME NEW n \in Nat \ {0}, NEW s \in Seq([1..n -> Int]), NEW w \in Seq(Int), LaidOut(w, s, n),
           NEW v \in Seq(Int), Starts(v, w),
           NEW t \in Seq([1..n -> Int]), NEW a \in Nat, RunsIn(t, s, a)
    PROVE  GroupsAt(v, a, Len(t), n) = t
<1>. DEFINE M == Len(t)
            x == a * n
            m == M * n
            u == Slice(v, x, m)
<1>1. M \in Nat /\ x \in Nat /\ m \in Nat /\ Len(v) \in Nat /\ Len(w) \in Nat /\ Len(s) \in Nat
  OBVIOUS
<1>2. u = [p \in 1..m |-> IF x + p <= Len(v) THEN v[x + p] ELSE 0]
  BY DEF Slice
<1>. HIDE DEF u, M
<1>3. ASSUME NEW i \in 1..M, NEW k \in 1..n
      PROVE  (i - 1) * n + k \in 1..m /\ u[(i - 1) * n + k] = t[i][k]
  <2>. DEFINE b == (i - 1) * n
              p == b + k
  <2>1. b \in Nat /\ p \in 1..m
    <3>. DEFINE c == (M - i) * n
    <3>1. b \in Nat /\ c \in Nat /\ m = b + n + c
      BY <1>1, Before
    <3>. HIDE DEF b, c, m
    <3>. QED  BY <3>1
  <2>2. a + i \in 1..Len(s) /\ s[a + i] = t[i]
    BY DEF M, RunsIn
  <2>3. ((a + i) - 1) * n + k \in 1..Len(w) /\ w[((a + i) - 1) * n + k] = s[a + i][k]
    BY <2>2 DEF LaidOut
  <2>4. ((a + i) - 1) * n + k = x + p
    <3>1. (a + i) - 1 = a + (i - 1) /\ i - 1 \in Nat
      BY <1>1
    <3>2. (a + (i - 1)) * n = a * n + (i - 1) * n
      BY <3>1
    <3>3. ((a + i) - 1) * n = x + b
      BY <3>1, <3>2
    <3>. HIDE DEF x, b
    <3>. QED  BY <1>1, <2>1, <3>3
  <2>. HIDE DEF x, b, p, m
  <2>5. x + p \in 1..Len(w) /\ w[x + p] = t[i][k]
    BY <2>2, <2>3, <2>4
  <2>6. x + p <= Len(v) /\ v[x + p] = t[i][k]
    <3>. DEFINE z == x + p
    <3>1. z \in 1..Len(w) /\ w[z] = t[i][k]
      BY <2>5
    <3>. HIDE DEF z
    <3>2. z \in Nat /\ z <= Len(v) /\ v[z] = w[z]
      BY <1>1, <3>1, StartsAt
    <3>. QED  BY <3>1, <3>2 DEF z
  <2>7. u[p] = v[x + p]
    BY <1>2, <2>1, <2>6
  <2>. QED  BY <2>1, <2>6, <2>7 DEF p, b
<1>4. u \in Seq(Int) /\ Len(u) = m
  <2>1. \A p \in 1..m : (IF x + p <= Len(v) THEN v[x + p] ELSE 0) \in Int
    <3>. HIDE DEF x, m
    <3>. QED  BY <1>1
  <2>. HIDE DEF x, m
  <2>. QED  BY <1>1, <1>2, <2>1
<1>5. LaidOut(u, t, n)
  <2>. HIDE DEF m
  <2>1. Len(u) = Len(t) * n
    BY <1>4 DEF m, M
  <2>2. \A i \in 1..Len(t), k \in 1..n : (i - 1) * n + k \in 1..Len(u) /\ u[(i - 1) * n + k] = t[i][k]
    BY <1>3, <1>4 DEF M
  <2>. QED  BY <2>1, <2>2 DEF LaidOut
<1>6. InGroups(u, n) = t
  BY <1>4, <1>5, Regroup
<1>. QED  BY <1>6 DEF u, M, GroupsAt

\* The words of some tables, gathered, regrouped and padded: each table's words
\* are still where its offset says.
LEMMA TablesBack ==
    ASSUME NEW n \in Nat \ {0}, NEW m \in Nat \ {0}, NEW cs \in Seq(Seq([1..n -> Int]))
    PROVE  \E at : /\ Offsets(at, cs)
                   /\ \A i \in 1..Len(cs) :
                        GroupsAt(FlattenSeq(InGroups(FlattenSeq(FlattenSeq(cs)), m)), at[i - 1], Len(cs[i]), n) = cs[i]
<1>. DEFINE R == [1..n -> Int]
            N == Len(cs)
            s == FlattenSeq(cs)
            w == FlattenSeq(s)
            v == FlattenSeq(InGroups(w, m))
<1>1. N \in Nat /\ \A i \in 1..N : cs[i] \in Seq(R)
  OBVIOUS
<1>2. /\ s \in Seq(R)
      /\ \E at : /\ Offsets(at, cs) /\ Len(s) = at[N]
                 /\ \A j \in 1..N : \A k \in 1..Len(cs[j]) :
                      at[j - 1] + k \in 1..at[N] /\ s[at[j - 1] + k] = cs[j][k]
  <2>. HIDE DEF R
  <2>1. cs \in Seq(Seq(R))
    BY DEF R
  <2>. QED  BY <2>1, Flattened
<1>3. PICK at : /\ Offsets(at, cs) /\ Len(s) = at[N]
                /\ \A j \in 1..N : \A k \in 1..Len(cs[j]) :
                     at[j - 1] + k \in 1..at[N] /\ s[at[j - 1] + k] = cs[j][k]
  BY <1>2
<1>. HIDE DEF s
<1>4. w \in Seq(Int) /\ LaidOut(w, s, n)
  BY <1>2, FlattenEven
<1>. HIDE DEF w
<1>5. v \in Seq(Int) /\ Starts(v, w)
  BY <1>4, Padded
<1>. HIDE DEF v
<1>6. ASSUME NEW i \in 1..N PROVE GroupsAt(v, at[i - 1], Len(cs[i]), n) = cs[i]
  <2>. DEFINE a == at[i - 1]
              t == cs[i]
  <2>1. a \in Nat
    <3>1. at \in [0..N -> Nat]
      BY <1>3 DEF Offsets
    <3>. HIDE DEF N
    <3>. QED  BY <1>1, <3>1
  <2>2. t \in Seq(R) /\ RunsIn(t, s, a)
    BY <1>1, <1>3 DEF RunsIn
  <2>. HIDE DEF a, t
  <2>3. GroupsAt(v, a, Len(t), n) = t
    BY <1>2, <1>4, <1>5, <2>1, <2>2, RunOfGroups
  <2>. QED  BY <2>3 DEF a, t
<1>. QED  BY <1>3, <1>6 DEF N, v, w, s

\* The offsets in words, as ShopChunks computes them.
Cursors(N, len, n) == CHOOSE k : k = [i \in 1..N |-> IF i = 1 THEN 0 ELSE k[i - 1] + len[i - 1] * n]

\* at adds up len.
Adds(at, len, N) ==
    /\ at \in [0..N -> Nat]
    /\ at[0] = 0
    /\ \A i \in 1..N : len[i] \in Nat /\ at[i] = at[i - 1] + len[i]

LEMMA CursorAt ==
    ASSUME NEW n \in Nat, NEW N \in Nat, NEW len, NEW at, Adds(at, len, N)
    PROVE  \A i \in 1..N : Cursors(N, len, n)[i] = at[i - 1] * n
<1>. DEFINE c == Cursors(N, len, n)
            f == [j \in 0..N |-> at[j] * n]
            g == [i \in 1..N |-> f[i - 1]]
            Body(k, i) == IF i = 1 THEN 0 ELSE k[i - 1] + len[i - 1] * n
<1>1. f[0] = 0 /\ \A i \in 1..N : i - 1 \in 0..N /\ f[i - 1] = at[i - 1] * n /\ f[i] = f[i - 1] + len[i] * n
  <2>1. f[0] = 0
    BY DEF Adds
  <2>2. ASSUME NEW i \in 1..N PROVE i - 1 \in 0..N /\ f[i - 1] = at[i - 1] * n /\ f[i] = f[i - 1] + len[i] * n
    <3>1. i - 1 \in 0..N /\ i \in 0..N /\ at[i - 1] \in Nat /\ len[i] \in Nat /\ at[i] = at[i - 1] + len[i]
      BY DEF Adds
    <3>2. (at[i - 1] + len[i]) * n = at[i - 1] * n + len[i] * n
      BY <3>1
    <3>. QED  BY <3>1, <3>2
  <2>. QED  BY <2>1, <2>2
<1>. HIDE DEF f
<1>2. \A i \in 1..N : g[i] = Body(g, i)
  <2>1. ASSUME NEW i \in 1..N PROVE g[i] = Body(g, i)
    <3>1. CASE i = 1
      BY <1>1, <3>1
    <3>2. CASE i # 1
      <4>1. i - 1 \in 1..N
        BY <3>2
      <4>2. g[i] = f[i - 1] /\ g[i - 1] = f[(i - 1) - 1] /\ f[i - 1] = f[(i - 1) - 1] + len[i - 1] * n
        BY <1>1, <4>1
      <4>. QED  BY <3>2, <4>2
    <3>. QED  BY <3>1, <3>2
  <2>. QED  BY <2>1
<1>3. c = [i \in 1..N |-> Body(c, i)]
  <2>1. g = [i \in 1..N |-> g[i]]
    OBVIOUS
  <2>. HIDE DEF g
  <2>2. g = [i \in 1..N |-> Body(g, i)]
    <3>. HIDE DEF Body
    <3>. QED  BY <1>2, <2>1
  <2>3. c = CHOOSE k : k = [i \in 1..N |-> Body(k, i)]
    BY DEF Cursors
  <2>. HIDE DEF Body, c
  <2>. QED  BY <2>2, <2>3
<1>. HIDE DEF g, c
<1>4. \A i \in 1..N : c[i] = Body(c, i)
  <2>. HIDE DEF Body
  <2>. QED  BY <1>3
<1>. DEFINE S == {i \in 0..N : i # 0 => c[i] = f[i - 1]}
<1>5. 0 \in S
  OBVIOUS
<1>6. ASSUME NEW i \in 1..N, i - 1 \in S PROVE i \in S
  <2>1. CASE i = 1
    BY <1>1, <1>4, <2>1
  <2>2. CASE i # 1
    <3>1. i - 1 \in 1..N /\ i \in 0..N
      BY <2>2
    <3>2. c[i - 1] = f[(i - 1) - 1] /\ f[i - 1] = f[(i - 1) - 1] + len[i - 1] * n
      BY <1>1, <1>6, <3>1
    <3>. QED  BY <1>4, <2>2, <3>1, <3>2
  <2>. QED  BY <2>1, <2>2
<1>. HIDE DEF S
<1>7. \A i \in 0..N : i \in S
  BY <1>5, <1>6, CountingTo
<1>8. ASSUME NEW i \in 1..N PROVE c[i] = at[i - 1] * n
  <2>1. i \in 0..N /\ i # 0
    OBVIOUS
  <2>. QED  BY <1>1, <1>7, <2>1 DEF S
<1>. QED  BY <1>8 DEF c

Lengths(cs) == [i \in 1..Len(cs) |-> Len(cs[i])]

\* TablesBack, with the offsets that ShopChunks computes.
Restored(cs, n, m) ==
    LET v == FlattenSeq(InGroups(FlattenSeq(FlattenSeq(cs)), m))
        c == Cursors(Len(cs), Lengths(cs), n)
    IN  \A i \in 1..Len(cs) : InGroups(Slice(v, c[i], Len(cs[i]) * n), n) = cs[i]

LEMMA TablesRestored ==
    ASSUME NEW n \in Nat \ {0}, NEW m \in Nat \ {0}, NEW cs \in Seq(Seq([1..n -> Int]))
    PROVE  Restored(cs, n, m)
<1>. DEFINE N == Len(cs)
            v == FlattenSeq(InGroups(FlattenSeq(FlattenSeq(cs)), m))
            len == Lengths(cs)
            c == Cursors(N, len, n)
<1>1. PICK at : Offsets(at, cs) /\ \A i \in 1..N : GroupsAt(v, at[i - 1], Len(cs[i]), n) = cs[i]
  BY TablesBack
<1>2. N \in Nat /\ n \in Nat /\ \A i \in 1..N : cs[i] \in Seq([1..n -> Int]) /\ Len(cs[i]) \in Nat
  OBVIOUS
<1>. HIDE DEF v, N
<1>3. at \in [0..N -> Nat] /\ at[0] = 0 /\ \A i \in 1..N : at[i] = at[i - 1] + Len(cs[i])
  BY <1>1 DEF Offsets, N
<1>4. \A i \in 1..N : len[i] = Len(cs[i])
  BY DEF Lengths, N
<1>. HIDE DEF len
<1>5. Adds(at, len, N)
  BY <1>2, <1>3, <1>4 DEF Adds
<1>6. \A i \in 1..N : c[i] = at[i - 1] * n
  BY <1>2, <1>5, CursorAt
<1>. HIDE DEF c
<1>7. ASSUME NEW i \in 1..N PROVE InGroups(Slice(v, c[i], Len(cs[i]) * n), n) = cs[i]
  <2>1. GroupsAt(v, at[i - 1], Len(cs[i]), n) = cs[i]
    BY <1>1
  <2>. QED  BY <1>6, <2>1 DEF GroupsAt
<1>. QED  BY <1>7 DEF v, c, len, N, Restored

\* The chunks of a level, and the inventory that was gathered from them.
LEMMA ChunksBack ==
    ASSUME NEW lay, lay.words \in Nat \ {0}, lay.entryWords \in Nat \ {0},
           NEW d, lay.chunks \in Seq(DOMAIN d.sections),
           \A name \in DOMAIN d.sections : d.sections[name] \in Seq(Record(lay)),
           d.shop = ShopEntries(lay, d.sections)
    PROVE  \A i \in DOMAIN lay.chunks : ShopChunks(lay, d)[i] = d.sections[lay.chunks[i]]
<1>. DEFINE n == lay.words
            N == Len(lay.chunks)
            cs == [j \in 1..N |-> d.sections[lay.chunks[j]]]
            v == FlattenSeq(d.shop)
            size(j) == Len(d.sections[lay.chunks[j]]) * n
            c == CHOOSE k : k = [j \in DOMAIN lay.chunks |-> IF j = 1 THEN 0 ELSE k[j - 1] + size(j - 1)]
<1>1. /\ DOMAIN lay.chunks = 1..N /\ N \in Nat
      /\ \A j \in 1..N : d.sections[lay.chunks[j]] \in Seq([1..n -> Int])
  BY DEF Record
<1>2. ShopChunks(lay, d) = [i \in DOMAIN lay.chunks |->
                               IF ~d.inventory THEN d.sections[lay.chunks[i]]
                               ELSE InGroups(Slice(v, c[i], size(i)), n)]
  BY DEF ShopChunks
<1>3. d.shop = InGroups(FlattenSeq(FlattenSeq(cs)), lay.entryWords)
  BY <1>1 DEF ShopEntries, ChunkRecords
<1>4. \A j \in 1..N : cs[j] = d.sections[lay.chunks[j]]
  OBVIOUS
<1>. HIDE DEF N, v, c
<1>5. cs \in Seq(Seq([1..n -> Int])) /\ Len(cs) = N
  BY <1>1
<1>. DEFINE len == Lengths(cs)
            b == Cursors(N, len, n)
<1>6. \A j \in 1..N : len[j] = Len(cs[j])
  BY <1>5 DEF Lengths
<1>. HIDE DEF len
<1>7. c = b
  <2>1. \A j \in 1..N : j # 1 => size(j - 1) = len[j - 1] * n
    BY <1>1, <1>4, <1>6
  <2>2. ASSUME NEW k
        PROVE  [j \in 1..N |-> IF j = 1 THEN 0 ELSE k[j - 1] + size(j - 1)]
                   = [j \in 1..N |-> IF j = 1 THEN 0 ELSE k[j - 1] + len[j - 1] * n]
    <3>. HIDE DEF size
    <3>. QED  BY <2>1
  <2>3. c = CHOOSE k : k = [j \in 1..N |-> IF j = 1 THEN 0 ELSE k[j - 1] + size(j - 1)]
    BY <1>1 DEF c
  <2>. HIDE DEF size
  <2>. QED  BY <2>2, <2>3 DEF Cursors
<1>8. v = FlattenSeq(InGroups(FlattenSeq(FlattenSeq(cs)), lay.entryWords))
  BY <1>3 DEF v
<1>9. Restored(cs, n, lay.entryWords)
  <2>1. n \in Nat \ {0}
    BY DEF n
  <2>. QED  BY <1>5, <2>1, TablesRestored
<1>. HIDE DEF cs, n
<1>10. ASSUME NEW i \in 1..N PROVE InGroups(Slice(v, c[i], size(i)), n) = d.sections[lay.chunks[i]]
  <2>1. size(i) = Len(cs[i]) * n
    BY <1>4 DEF n
  <2>2. InGroups(Slice(v, b[i], Len(cs[i]) * n), n) = cs[i]
    BY <1>5, <1>8, <1>9 DEF Restored, len
  <2>. QED  BY <1>4, <1>7, <2>1, <2>2
<1>. HIDE DEF c, v, size
<1>. QED  BY <1>1, <1>2, <1>10 DEF n

-----------------------------------------------------------------------------
(* The bitmap names. *)

\* Names in the form that the decoder keeps.
Tidy(raw) ==
    /\ raw \in Seq(Int) /\ Len(raw) # 0
    /\ \A i \in 1..Len(raw) : raw[i] < 128 /\ (raw[i] = Bmp => i = Len(raw))
    /\ raw[1] # Space /\ raw[Len(raw)] # Space

LEMMA WholeSeq ==
    ASSUME NEW T, NEW s \in Seq(T), Len(s) # 0
    PROVE  SubSeq(s, 1, Len(s)) = s /\ SubSeq(s, 1, 0) = <<>>
OBVIOUS

LEMMA NextPrefix ==
    ASSUME NEW T, NEW s \in Seq(T), NEW i \in 1..Len(s)
    PROVE  /\ SubSeq(s, 1, i - 1) \in Seq(T) /\ SubSeq(s, 1, i) \in Seq(T)
           /\ SubSeq(s, 1, i) = Append(SubSeq(s, 1, i - 1), s[i])
OBVIOUS

LEMMA MinIs == ASSUME NEW S \in SUBSET Int, NEW m \in S, \A x \in S : m <= x PROVE Min(S) = m
<1>1. \A x \in S : (\A y \in S : x <= y) => x = m
  OBVIOUS
<1>. QED  BY <1>1 DEF Min

LEMMA MaxIs == ASSUME NEW S \in SUBSET Int, NEW m \in S, \A x \in S : x <= m PROVE Max(S) = m
<1>1. \A x \in S : (\A y \in S : x >= y) => x = m
  OBVIOUS
<1>. QED  BY <1>1 DEF Max

LEMMA TidyNames ==
    ASSUME NEW raw, Tidy(raw)
    PROVE  NameOf(raw) = raw
<1>. DEFINE N == Len(raw)
            Body(k, i) == IF i = 0 THEN <<>> ELSE IF raw[i] < 128 THEN Append(k[i - 1], raw[i]) ELSE k[i - 1]
            kept == CHOOSE k : k = [i \in 0..N |-> Body(k, i)]
            h == [i \in 0..N |-> SubSeq(raw, 1, i)]
            ascii == kept[N]
            cut == IF Contains(ascii, Bmp) THEN SubSeq(ascii, 1, Min({i \in DOMAIN ascii : ascii[i] = Bmp})) ELSE ascii
            inner == {i \in DOMAIN cut : cut[i] # Space}
<1>1. NameOf(raw) = IF inner = {} THEN <<>> ELSE SubSeq(cut, Min(inner), Max(inner))
  BY DEF NameOf
<1>2. N \in Nat \ {0} /\ raw \in Seq(Int) /\ DOMAIN raw = 1..N /\ SubSeq(raw, 1, N) = raw /\ SubSeq(raw, 1, 0) = <<>>
  BY WholeSeq DEF Tidy
<1>3. \A i \in 1..N : raw[i] < 128 /\ SubSeq(raw, 1, i) = Append(SubSeq(raw, 1, i - 1), raw[i])
  BY NextPrefix DEF Tidy
<1>4. kept = [i \in 0..N |-> Body(kept, i)]
  <2>1. ASSUME NEW i \in 0..N PROVE h[i] = Body(h, i)
    <3>1. CASE i = 0
      BY <1>2, <3>1
    <3>2. CASE i # 0
      <4>1. i \in 1..N /\ i - 1 \in 0..N
        BY <1>2, <3>2
      <4>2. h[i] = SubSeq(raw, 1, i) /\ h[i - 1] = SubSeq(raw, 1, i - 1)
        BY <4>1
      <4>. QED  BY <1>3, <3>2, <4>1, <4>2
    <3>. QED  BY <3>1, <3>2
  <2>2. h = [i \in 0..N |-> h[i]]
    OBVIOUS
  <2>. HIDE DEF h
  <2>3. h = [i \in 0..N |-> Body(h, i)]
    <3>. HIDE DEF Body
    <3>. QED  BY <2>1, <2>2
  <2>. HIDE DEF Body
  <2>. QED  BY <2>3
<1>. HIDE DEF kept, h
<1>5. \A i \in 0..N : kept[i] = Body(kept, i)
  <2>. HIDE DEF Body
  <2>. QED  BY <1>4
<1>. DEFINE S == {i \in 0..N : kept[i] = SubSeq(raw, 1, i)}
<1>6. 0 \in S
  <2>1. 0 \in 0..N /\ kept[0] = <<>>
    BY <1>2, <1>5
  <2>. QED  BY <1>2, <2>1
<1>7. ASSUME NEW i \in 1..N, i - 1 \in S PROVE i \in S
  <2>1. i \in 0..N /\ i # 0 /\ kept[i - 1] = SubSeq(raw, 1, i - 1)
    BY <1>2, <1>7
  <2>. QED  BY <1>3, <1>5, <2>1
<1>. HIDE DEF S
<1>8. ascii = raw
  <2>1. \A i \in 0..N : i \in S
    BY <1>2, <1>6, <1>7, CountingTo
  <2>2. N \in S
    BY <1>2, <2>1
  <2>. QED  BY <1>2, <2>2 DEF S
<1>. HIDE DEF ascii
<1>9. cut = raw
  <2>1. CASE Contains(ascii, Bmp)
    <3>1. \E i \in 1..N : raw[i] = Bmp
      BY <1>2, <1>8, <2>1 DEF Contains
    <3>2. {i \in DOMAIN ascii : ascii[i] = Bmp} = {N}
      BY <1>2, <1>8, <3>1 DEF Tidy
    <3>3. Min({N}) = N
      BY <1>2 DEF Min
    <3>. QED  BY <1>2, <1>8, <2>1, <3>2, <3>3
  <2>2. CASE ~Contains(ascii, Bmp)
    BY <1>8, <2>2
  <2>. QED  BY <2>1, <2>2
<1>. HIDE DEF cut
<1>10. 1 \in inner /\ N \in inner /\ inner \subseteq 1..N
  <2>1. raw[1] # Space /\ raw[N] # Space
    BY DEF Tidy
  <2>. HIDE DEF N
  <2>2. DOMAIN cut = 1..N /\ 1 \in 1..N /\ N \in 1..N
    BY <1>2, <1>9
  <2>. QED  BY <1>9, <2>1, <2>2
<1>. HIDE DEF inner, N
<1>11. inner \subseteq Int /\ (\A x \in inner : 1 <= x) /\ (\A x \in inner : x <= N)
  BY <1>2, <1>10
<1>12. Min(inner) = 1 /\ Max(inner) = N
  BY <1>10, <1>11, MinIs, MaxIs
<1>. QED  BY <1>1, <1>2, <1>9, <1>10, <1>12

\* What a scan has made of the bytes so far.
Pieces == [padding : Seq(Int), filename : {NameOf(raw) : raw \in Seq(Int)}]
Scans == [entries : Seq(Pieces), padding : Seq(Int), raw : Seq(Int)]

LEMMA ScanByteType == ASSUME NEW s \in Scans, NEW byte \in Int PROVE ScanByte(s, byte) \in Scans
<1>. DEFINE e == [padding |-> s.padding, filename |-> NameOf(s.raw)]
<1>1. e \in Pieces
  BY DEF Scans, Pieces
<1>2. s.entries \in Seq(Pieces) /\ s.padding \in Seq(Int) /\ s.raw \in Seq(Int)
  BY DEF Scans
<1>. HIDE DEF e
<1>3. Append(s.entries, e) \in Seq(Pieces) /\ Append(s.raw, byte) \in Seq(Int) /\ Append(s.padding, byte) \in Seq(Int)
      /\ <<>> \in Seq(Int) /\ <<byte>> \in Seq(Int)
  <2>. HIDE DEF Pieces
  <2>. QED  BY <1>1, <1>2
<1>4. Named(s) = [s EXCEPT !.entries = Append(s.entries, e), !.padding = <<>>, !.raw = <<>>]
  BY DEF Named, e
<1>5. Named(s) \in Scans
  BY <1>3, <1>4 DEF Scans
<1>6. [Named(s) EXCEPT !.padding = <<byte>>] \in Scans
  BY <1>3, <1>5 DEF Scans
<1>7. [s EXCEPT !.raw = Append(s.raw, byte)] \in Scans /\ [s EXCEPT !.padding = Append(s.padding, byte)] \in Scans
  BY <1>3 DEF Scans
<1>. QED  BY <1>5, <1>6, <1>7 DEF ScanByte

\* scan is what DecodeNames computes, byte by byte.
ScansOf(scan, bytes) ==
    /\ scan[0] = NoScan
    /\ \A i \in 1..Len(bytes) : scan[i] = ScanByte(scan[i - 1], bytes[i])

LEMMA Scanning ==
    ASSUME NEW bytes \in Seq(Int)
    PROVE  \E scan : /\ ScansOf(scan, bytes) /\ \A i \in 0..Len(bytes) : scan[i] \in Scans
                     /\ DecodeNames(bytes) = IF scan[Len(bytes)].raw = <<>> THEN scan[Len(bytes)] ELSE Named(scan[Len(bytes)])
<1>. DEFINE N == Len(bytes)
            Body(k, i) == IF i = 0 THEN NoScan ELSE ScanByte(k[i - 1], bytes[i])
            scan == CHOOSE k : k = [i \in 0..N |-> Body(k, i)]
            step == [p \in (1..N) \X Scans |-> ScanByte(p[2], bytes[p[1]])]
<1>1. N \in Nat /\ \A i \in 1..N : bytes[i] \in Int
  OBVIOUS
<1>. HIDE DEF N
<1>2. step \in Steps(N, Scans) /\ \A i \in 1..N, s \in Scans : step[<<i, s>>] = ScanByte(s, bytes[i])
  BY <1>1, ScanByteType DEF Steps
<1>3. NoScan \in Scans
  BY DEF NoScan, Scans
<1>. HIDE DEF step
<1>4. PICK f \in [0..N -> Scans] : Recurs(f, N, NoScan, step)
  BY <1>1, <1>2, <1>3, Recursion
<1>5. f[0] = NoScan /\ \A i \in 1..N : f[i] = ScanByte(f[i - 1], bytes[i])
  <2>1. ASSUME NEW i \in 1..N PROVE f[i] = ScanByte(f[i - 1], bytes[i])
    <3>1. i - 1 \in 0..N
      BY <1>1
    <3>2. f[i - 1] \in Scans /\ f[i] = step[<<i, f[i - 1]>>]
      BY <1>4, <3>1 DEF Recurs
    <3>. QED  BY <1>2, <3>2
  <2>. QED  BY <1>4, <2>1 DEF Recurs
<1>6. f = [i \in 0..N |-> Body(f, i)]
  <2>1. f = [i \in 0..N |-> f[i]]
    OBVIOUS
  <2>2. \A i \in 0..N : f[i] = Body(f, i)
    <3>1. \A i \in 0..N : i = 0 \/ i \in 1..N
      BY <1>1
    <3>. QED  BY <1>5, <3>1
  <2>. HIDE DEF Body
  <2>. QED  BY <2>1, <2>2
<1>7. scan = [i \in 0..N |-> Body(scan, i)]
  <2>. HIDE DEF Body
  <2>. QED  BY <1>6
<1>. HIDE DEF scan
<1>8. \A i \in 0..N : scan[i] = Body(scan, i)
  <2>. HIDE DEF Body
  <2>. QED  BY <1>7
<1>9. scan[0] = NoScan /\ \A i \in 1..N : scan[i] = ScanByte(scan[i - 1], bytes[i])
  <2>1. 0 \in 0..N /\ \A i \in 1..N : i \in 0..N /\ i # 0
    BY <1>1
  <2>. QED  BY <1>8, <2>1
<1>. DEFINE S == {i \in 0..N : scan[i] \in Scans}
<1>10. 0 \in S
  BY <1>1, <1>3, <1>9
<1>11. ASSUME NEW i \in 1..N, i - 1 \in S PROVE i \in S
  <2>1. i \in 0..N /\ scan[i - 1] \in Scans
    BY <1>1, <1>11
  <2>. QED  BY <1>1, <1>9, <2>1, ScanByteType
<1>. HIDE DEF S
<1>12. \A i \in 0..N : scan[i] \in Scans
  <2>1. \A i \in 0..N : i \in S
    BY <1>1, <1>10, <1>11, CountingTo
  <2>. QED  BY <2>1 DEF S
<1>13. DecodeNames(bytes) = IF scan[N].raw = <<>> THEN scan[N] ELSE Named(scan[N])
  BY DEF DecodeNames, scan, N
<1>. QED  BY <1>9, <1>12, <1>13 DEF ScansOf, N

\* raw is what was read since the last byte that belongs to no name.
EndRun(raw, bytes, i) ==
    /\ raw \in Seq(Int) /\ Len(raw) <= i
    /\ \A j \in 1..Len(raw) : raw[j] = bytes[i - Len(raw) + j] /\ raw[j] >= 32
    /\ Len(raw) < i => bytes[i - Len(raw)] < 32

LEMMA RunGrows ==
    ASSUME NEW bytes \in Seq(Int), NEW i \in 1..Len(bytes), NEW raw, EndRun(raw, bytes, i - 1), bytes[i] >= 32
    PROVE  EndRun(Append(raw, bytes[i]), bytes, i)
<1>. DEFINE n == Len(raw)
            more == Append(raw, bytes[i])
<1>1. n \in Nat /\ i \in Nat /\ bytes[i] \in Int
  BY DEF EndRun
<1>2. more \in Seq(Int) /\ Len(more) = n + 1 /\ more[n + 1] = bytes[i] /\ \A j \in 1..n : more[j] = raw[j]
  BY DEF EndRun
<1>3. /\ n <= i - 1 /\ \A j \in 1..n : raw[j] = bytes[(i - 1) - n + j] /\ raw[j] >= 32
      /\ n < i - 1 => bytes[(i - 1) - n] < 32
  BY DEF EndRun
<1>. HIDE DEF more, n
<1>4. ASSUME NEW j \in 1..(n + 1) PROVE more[j] = bytes[i - (n + 1) + j] /\ more[j] >= 32
  <2>1. i - (n + 1) + j = (i - 1) - n + j
    BY <1>1
  <2>2. CASE j = n + 1
    <3>1. i - (n + 1) + j = i
      BY <1>1, <2>2
    <3>. QED  BY <1>2, <2>2, <3>1
  <2>3. CASE j # n + 1
    <3>1. j \in 1..n
      BY <1>1, <2>3
    <3>. QED  BY <1>2, <1>3, <2>1, <3>1
  <2>. QED  BY <2>2, <2>3
<1>5. n + 1 <= i /\ (n + 1 < i => bytes[i - (n + 1)] < 32)
  <2>1. i - (n + 1) = (i - 1) - n
    BY <1>1
  <2>. QED  BY <1>1, <1>3, <2>1
<1>. QED  BY <1>2, <1>4, <1>5 DEF EndRun, more

\* In a section whose names are clean, a name is ended by a zero, and is tidy.
LEMMA RunEnds ==
    ASSUME NEW bytes \in Seq(Int), CleanNames(bytes), NEW i \in 1..Len(bytes), NEW raw, EndRun(raw, bytes, i - 1),
           bytes[i] < 32, Len(raw) # 0
    PROVE  bytes[i] = 0 /\ Tidy(raw)
<1>. DEFINE n == Len(raw)
            N == Len(bytes)
            at(j) == (i - 1) - n + j
<1>1. n \in Nat \ {0} /\ i \in Nat /\ N \in Nat /\ raw \in Seq(Int) /\ i \in 1..N /\ \A j \in 1..N : bytes[j] \in Int
  BY DEF EndRun
<1>2. /\ n <= i - 1 /\ \A j \in 1..n : raw[j] = bytes[at(j)] /\ raw[j] >= 32
      /\ n < i - 1 => bytes[(i - 1) - n] < 32
  BY DEF EndRun
<1>3. \A p \in 1..N : bytes[p] >= 32 =>
          /\ bytes[p] < 128
          /\ bytes[p + 1] = 0 \/ (bytes[p + 1] >= 32 /\ bytes[p] # Bmp)
          /\ bytes[p] = Space => bytes[p + 1] >= 32 /\ p > 1 /\ bytes[p - 1] >= 32
  BY DEF CleanNames
<1>. HIDE DEF n, N
<1>4. ASSUME NEW j \in 1..n
      PROVE  /\ at(j) \in 1..N /\ at(j) + 1 \in 1..N /\ bytes[at(j)] = raw[j] /\ raw[j] >= 32 /\ raw[j] < 128
             /\ bytes[at(j) + 1] = 0 \/ (bytes[at(j) + 1] >= 32 /\ raw[j] # Bmp)
             /\ raw[j] = Space => bytes[at(j) + 1] >= 32 /\ at(j) > 1 /\ bytes[at(j) - 1] >= 32
  <2>1. at(j) \in 1..N /\ at(j) + 1 \in 1..N
    BY <1>1, <1>2
  <2>2. bytes[at(j)] = raw[j] /\ raw[j] >= 32
    BY <1>2
  <2>. HIDE DEF at
  <2>. QED  BY <1>3, <2>1, <2>2
<1>5. at(n) + 1 = i /\ \A j \in 1..n : j # n => at(j) + 1 = at(j + 1) /\ j + 1 \in 1..n
  BY <1>1
<1>6. at(1) - 1 = (i - 1) - n /\ 1 \in 1..n /\ n \in 1..n
  BY <1>1
<1>. HIDE DEF at
<1>7. bytes[i] = 0 /\ raw[n] # Space
  <2>1. /\ bytes[at(n) + 1] = 0 \/ (bytes[at(n) + 1] >= 32 /\ raw[n] # Bmp)
        /\ raw[n] = Space => bytes[at(n) + 1] >= 32
    BY <1>4, <1>6
  <2>2. bytes[i] \in Int /\ ~(bytes[i] >= 32)
    BY <1>1
  <2>. QED  BY <1>5, <2>1, <2>2
<1>8. ASSUME NEW j \in 1..n, j # n PROVE raw[j] # Bmp
  <2>1. at(j) + 1 = at(j + 1) /\ j + 1 \in 1..n
    BY <1>5, <1>8
  <2>2. bytes[at(j + 1)] = raw[j + 1] /\ raw[j + 1] >= 32
    BY <1>4, <2>1
  <2>3. bytes[at(j) + 1] # 0
    BY <2>1, <2>2
  <2>. QED  BY <1>4, <2>3
<1>9. raw[1] # Space
  <2>1. SUFFICES ASSUME raw[1] = Space PROVE FALSE
    OBVIOUS
  <2>2. at(1) > 1 /\ bytes[at(1) - 1] >= 32 /\ at(1) \in 1..N
    BY <1>4, <1>6, <2>1
  <2>3. n < i - 1
    BY <1>1, <1>6, <2>2
  <2>4. bytes[at(1) - 1] < 32 /\ bytes[at(1) - 1] \in Int
    BY <1>1, <1>2, <1>6, <2>2, <2>3
  <2>. QED  BY <2>2, <2>4
<1>. QED  BY <1>1, <1>4, <1>7, <1>8, <1>9 DEF Tidy, n

Words == Seq(Int)

LEMMA CatWords ==
    ASSUME NEW x \in Words, NEW r \in Words, NEW b \in Int
    PROVE  /\ Cat(x, r) \in Words /\ Append(Cat(x, r), b) \in Words
           /\ Cat(x, <<>>) = x /\ <<>> \in Words
           /\ Cat(x, Append(r, b)) = Append(Cat(x, r), b)
<1>1. Cat(x, r) \in Words
  BY DEF Cat, Words
<1>2. Append(Cat(x, r), b) \in Words /\ <<>> \in Words
  BY <1>1 DEF Words
<1>3. Cat(x, <<>>) = x
  BY DEF Cat, Words
<1>4. x \o Append(r, b) = Append(x \o r, b)
  BY DEF Words
<1>. QED  BY <1>1, <1>2, <1>3, <1>4 DEF Cat

LEMMA CatNone == ASSUME NEW x \in Words PROVE Cat(x, <<>>) = x
BY DEF Cat, Words

LEMMA CatGrows ==
    ASSUME NEW x \in Words, NEW r \in Words, NEW b \in Int
    PROVE  Cat(x, Append(r, b)) = Append(Cat(x, r), b)
BY CatWords

\* A name as EncodeNames writes it.
Spelled(e) == e.padding \o e.filename \o <<0>>

Rendered(entries) == [i \in DOMAIN entries |-> Spelled(entries[i])]

LEMMA SpelledIs ==
    ASSUME NEW x \in Words, NEW p \in Words, NEW r \in Words
    PROVE  /\ p \o r \o <<0>> \in Words
           /\ Cat(x, p \o r \o <<0>>) = Append(Cat(Cat(x, p), r), 0)
<1>1. p \o r \in Words /\ p \o r \o <<0>> = Append(p \o r, 0) /\ p \o r \o <<0>> \in Words
  BY DEF Words
<1>2. Cat(x, Append(p \o r, 0)) = Append(Cat(x, p \o r), 0)
  BY <1>1, CatWords
<1>3. Cat(x, p \o r) = Cat(Cat(x, p), r)
  BY DEF Cat, Words
<1>. QED  BY <1>1, <1>2, <1>3

LEMMA SpelledAfter ==
    ASSUME NEW x \in Words, NEW e, e.padding \in Words, e.filename \in Words
    PROVE  Spelled(e) \in Words /\ Cat(x, Spelled(e)) = Append(Cat(Cat(x, e.padding), e.filename), 0)
BY SpelledIs DEF Spelled

LEMMA AppendIs ==
    ASSUME NEW T, NEW s \in Seq(T), NEW x \in T
    PROVE  Append(s, x) = [i \in 1..(Len(s) + 1) |-> IF i = Len(s) + 1 THEN x ELSE s[i]]
<1>. DEFINE a == Append(s, x)
            n == Len(s)
<1>1. a \in Seq(T) /\ Len(a) = n + 1 /\ n \in Nat /\ a[n + 1] = x /\ \A i \in 1..n : a[i] = s[i]
  OBVIOUS
<1>. HIDE DEF a, n
<1>2. a = [i \in 1..(n + 1) |-> a[i]]
  <2>1. a = [i \in 1..Len(a) |-> a[i]]
    BY <1>1
  <2>. QED  BY <1>1, <2>1
<1>3. \A i \in 1..(n + 1) : a[i] = IF i = n + 1 THEN x ELSE s[i]
  <2>1. \A i \in 1..(n + 1) : i = n + 1 \/ i \in 1..n
    BY <1>1
  <2>. QED  BY <1>1, <2>1
<1>. QED  BY <1>2, <1>3 DEF a, n

LEMMA RenderedMore ==
    ASSUME NEW T, NEW es \in Seq(T), NEW e \in T, \A i \in 1..Len(es) : Spelled(es[i]) \in Words, Spelled(e) \in Words
    PROVE  /\ Rendered(es) \in Seq(Words)
           /\ Rendered(Append(es, e)) = Append(Rendered(es), Spelled(e))
<1>1. Rendered(es) = [i \in 1..Len(es) |-> Spelled(es[i])]
  BY DEF Rendered
<1>2. Append(es, e) \in Seq(T) /\ Len(Append(es, e)) = Len(es) + 1 /\ DOMAIN Append(es, e) = 1..(Len(es) + 1) /\ Len(es) \in Nat
  OBVIOUS
<1>3. Rendered(Append(es, e)) = [i \in 1..(Len(es) + 1) |-> Spelled(Append(es, e)[i])]
  BY <1>2 DEF Rendered
<1>4. \A i \in 1..(Len(es) + 1) : Append(es, e)[i] = IF i = Len(es) + 1 THEN e ELSE es[i]
  OBVIOUS
<1>5. Rendered(es) \in Seq(Words) /\ Len(Rendered(es)) = Len(es)
  <2>. DEFINE n == Len(es)
  <2>. HIDE DEF n
  <2>1. [i \in 1..n |-> Spelled(es[i])] \in Seq(Words) /\ Len([i \in 1..n |-> Spelled(es[i])]) = n
    BY <1>2 DEF n
  <2>. QED  BY <1>1, <2>1 DEF n
<1>6. Append(Rendered(es), Spelled(e)) = [i \in 1..(Len(es) + 1) |-> IF i = Len(es) + 1 THEN Spelled(e) ELSE Rendered(es)[i]]
  BY <1>5, AppendIs
<1>7. \A i \in 1..(Len(es) + 1) : Spelled(Append(es, e)[i]) = IF i = Len(es) + 1 THEN Spelled(e) ELSE Rendered(es)[i]
  <2>1. ASSUME NEW i \in 1..(Len(es) + 1) PROVE Spelled(Append(es, e)[i]) = IF i = Len(es) + 1 THEN Spelled(e) ELSE Rendered(es)[i]
    <3>1. CASE i = Len(es) + 1
      BY <1>4, <3>1
    <3>2. CASE i # Len(es) + 1
      <4>1. i \in 1..Len(es)
        BY <1>2, <3>2
      <4>. QED  BY <1>1, <1>4, <3>2, <4>1
    <3>. QED  BY <3>1, <3>2
  <2>. QED  BY <2>1
<1>. QED  BY <1>3, <1>5, <1>6, <1>7

\* A scan after i bytes spells what it has read, and its names are tidy.
Scanned(s, bytes, i) ==
    /\ s \in Scans
    /\ EndRun(s.raw, bytes, i)
    /\ \A j \in 1..Len(s.entries) : Tidy(s.entries[j].filename)
    /\ Cat(Cat(FlattenSeq(Rendered(s.entries)), s.padding), s.raw) = SubSeq(bytes, 1, i)

LEMMA ScansAre ==
    ASSUME NEW s \in Scans, \A j \in 1..Len(s.entries) : Tidy(s.entries[j].filename)
    PROVE  /\ s.entries \in Seq(Pieces) /\ s.padding \in Words /\ s.raw \in Words
           /\ \A j \in 1..Len(s.entries) : Spelled(s.entries[j]) \in Words
           /\ FlattenSeq(Rendered(s.entries)) \in Words
<1>1. s.entries \in Seq(Pieces) /\ s.padding \in Words /\ s.raw \in Words
  BY DEF Scans, Words
<1>2. ASSUME NEW j \in 1..Len(s.entries) PROVE Spelled(s.entries[j]) \in Words
  <2>1. s.entries[j] \in Pieces
    <3>. HIDE DEF Pieces
    <3>. QED  BY <1>1
  <2>2. s.entries[j].padding \in Words /\ s.entries[j].filename \in Words
    BY <2>1 DEF Pieces, Words, Tidy
  <2>. QED  BY <2>2, CatWords, SpelledIs DEF Spelled
<1>3. Rendered(s.entries) \in Seq(Words)
  <2>1. Rendered(s.entries) = [j \in 1..Len(s.entries) |-> Spelled(s.entries[j])] /\ Len(s.entries) \in Nat
    BY <1>1 DEF Rendered
  <2>. DEFINE n == Len(s.entries)
  <2>. HIDE DEF n
  <2>. QED  BY <1>2, <2>1 DEF n
<1>4. FlattenSeq(Rendered(s.entries)) \in Words
  BY <1>3, FlattenType DEF Words
<1>. QED  BY <1>1, <1>2, <1>4

LEMMA ScannedNone ==
    ASSUME NEW bytes \in Seq(Int)
    PROVE  Scanned(NoScan, bytes, 0)
<1>1. Rendered(<<>>) = <<>>
  BY DEF Rendered
<1>2. Cat(Cat(<<>>, <<>>), <<>>) = <<>> /\ SubSeq(bytes, 1, 0) = <<>>
  BY DEF Cat
<1>3. EndRun(<<>>, bytes, 0)
  BY DEF EndRun
<1>4. /\ NoScan \in Scans /\ NoScan.entries = <<>> /\ NoScan.padding = <<>> /\ NoScan.raw = <<>>
  BY DEF NoScan, Scans
<1>5. Len(NoScan.entries) = 0
  BY <1>4
<1>6. \A j \in 1..Len(NoScan.entries) : Tidy(NoScan.entries[j].filename)
  <2>1. 1..Len(NoScan.entries) = {}
    BY <1>5
  <2>. QED  BY <2>1
<1>. QED  BY <1>1, <1>2, <1>3, <1>4, <1>6, FlattenNone DEF Scanned

LEMMA ScannedNext ==
    ASSUME NEW bytes \in Seq(Int), CleanNames(bytes), NEW i \in 1..Len(bytes), NEW s, Scanned(s, bytes, i - 1)
    PROVE  Scanned(ScanByte(s, bytes[i]), bytes, i)
<1>. DEFINE b == bytes[i]
            E == FlattenSeq(Rendered(s.entries))
            before == SubSeq(bytes, 1, i - 1)
            e == [padding |-> s.padding, filename |-> NameOf(s.raw)]
<1>1. b \in Int /\ s \in Scans /\ ScanByte(s, b) \in Scans /\ SubSeq(bytes, 1, i) = Append(before, b)
  BY ScanByteType, NextPrefix DEF Scanned
<1>2. /\ EndRun(s.raw, bytes, i - 1)
      /\ \A j \in 1..Len(s.entries) : Tidy(s.entries[j].filename)
      /\ Cat(Cat(E, s.padding), s.raw) = before
  BY DEF Scanned
<1>3. /\ s.entries \in Seq(Pieces) /\ s.padding \in Words /\ s.raw \in Words /\ E \in Words
      /\ \A j \in 1..Len(s.entries) : Spelled(s.entries[j]) \in Words
  BY <1>1, <1>2, ScansAre
<1>. DEFINE x == Cat(E, s.padding)
<1>4. x \in Words
  BY <1>1, <1>3, CatWords
<1>4a. Cat(x, s.raw) = before
  BY <1>2
<1>. HIDE DEF E, before, b, e, x
<1>5. CASE b >= 32
  <2>. DEFINE t == [s EXCEPT !.raw = Append(s.raw, b)]
  <2>1. ScanByte(s, b) = t
    BY <1>5 DEF ScanByte, b
  <2>2. t.entries = s.entries /\ t.padding = s.padding /\ t.raw = Append(s.raw, b)
    BY <1>1 DEF Scans
  <2>3. EndRun(t.raw, bytes, i)
    BY <1>2, <1>5, <2>2, RunGrows DEF b
  <2>4. Cat(x, Append(s.raw, b)) = Append(before, b)
    <3>1. Cat(x, Append(s.raw, b)) = Append(Cat(x, s.raw), b)
      BY <1>1, <1>3, <1>4, CatGrows
    <3>. QED  BY <1>4a, <3>1
  <2>. HIDE DEF t
  <2>. QED  BY <1>1, <1>2, <2>1, <2>2, <2>3, <2>4 DEF Scanned, b, x, E
<1>6. CASE b < 32 /\ s.raw = <<>>
  <2>. DEFINE t == [s EXCEPT !.padding = Append(s.padding, b)]
  <2>1. ScanByte(s, b) = t
    BY <1>1, <1>6 DEF ScanByte
  <2>2. t.entries = s.entries /\ t.padding = Append(s.padding, b) /\ t.raw = <<>>
    BY <1>1, <1>6 DEF Scans
  <2>3. EndRun(<<>>, bytes, i)
    BY <1>6 DEF EndRun, b
  <2>4. Cat(Cat(E, Append(s.padding, b)), <<>>) = Append(before, b)
    <3>1. x = before
      BY <1>1, <1>4, <1>4a, <1>6, CatWords
    <3>2. Cat(E, Append(s.padding, b)) = Append(x, b)
      BY <1>1, <1>3, CatWords DEF x
    <3>3. Append(x, b) \in Words
      BY <1>1, <1>3, CatWords DEF x
    <3>. QED  BY <1>1, <3>1, <3>2, <3>3, CatWords
  <2>. HIDE DEF t
  <2>. QED  BY <1>1, <1>2, <2>1, <2>2, <2>3, <2>4 DEF Scanned, b, E
<1>7. CASE b < 32 /\ s.raw # <<>>
  <2>1. b = 0 /\ Tidy(s.raw)
    <3>1. Len(s.raw) # 0
      BY <1>3, <1>7 DEF Words
    <3>. QED  BY <1>2, <1>7, <3>1, RunEnds DEF b
  <2>2. e = [padding |-> s.padding, filename |-> s.raw]
    BY <2>1, TidyNames DEF e
  <2>. DEFINE t == [s EXCEPT !.entries = Append(s.entries, e), !.padding = <<>>, !.raw = <<>>]
  <2>3. ScanByte(s, b) = t
    BY <1>1, <1>7, <2>1 DEF ScanByte, Named, e
  <2>4. t.entries = Append(s.entries, e) /\ t.padding = <<>> /\ t.raw = <<>>
    BY <1>1 DEF Scans
  <2>5. EndRun(<<>>, bytes, i)
    BY <1>7 DEF EndRun, b
  <2>6. e \in Pieces /\ e.filename = s.raw /\ Spelled(e) = s.padding \o s.raw \o <<0>> /\ Spelled(e) \in Words
    <3>1. e \in Pieces
      BY <1>1 DEF Scans, Pieces, e
    <3>. QED  BY <1>3, <2>2, <3>1, SpelledIs DEF Spelled
  <2>. HIDE DEF t
  <2>7. ASSUME NEW j \in 1..Len(t.entries) PROVE Tidy(t.entries[j].filename)
    <3>1. Append(s.entries, e)[j] = IF j = Len(s.entries) + 1 THEN e ELSE s.entries[j]
      <4>. HIDE DEF Pieces
      <4>1. j \in 1..(Len(s.entries) + 1)
        BY <1>3, <2>4, <2>6, <2>7
      <4>. QED  BY <1>3, <2>6, <4>1
    <3>2. j \in 1..Len(s.entries) \/ j = Len(s.entries) + 1
      <4>. HIDE DEF Pieces
      <4>. QED  BY <1>3, <2>4, <2>6, <2>7
    <3>. QED  BY <1>2, <2>1, <2>4, <2>6, <3>1, <3>2
  <2>8. Cat(Cat(FlattenSeq(Rendered(t.entries)), <<>>), <<>>) = Append(before, b)
    <3>1. Rendered(s.entries) \in Seq(Words) /\ Rendered(t.entries) = Append(Rendered(s.entries), Spelled(e))
      BY <1>3, <2>4, <2>6, RenderedMore
    <3>2. FlattenSeq(Rendered(t.entries)) = Cat(E, Spelled(e))
      BY <2>6, <3>1, FlattenAppend DEF Words, E
    <3>3. Cat(E, Spelled(e)) = Append(before, b)
      <4>1. e.padding = s.padding /\ e.filename = s.raw
        BY <2>2
      <4>. QED  BY <1>3, <1>4a, <2>1, <4>1, SpelledAfter DEF x
    <3>4. Cat(E, Spelled(e)) \in Words
      BY <1>1, <1>3, <2>6, CatWords
    <3>. QED  BY <1>1, <3>2, <3>3, <3>4, CatWords
  <2>. QED  BY <1>1, <2>3, <2>4, <2>5, <2>7, <2>8 DEF Scanned, b
<1>8. b >= 32 \/ b < 32
  BY <1>1
<1>. QED  BY <1>5, <1>6, <1>7, <1>8

LEMMA RefitAll == ASSUME NEW bytes \in Seq(Int) PROVE Refit(bytes, Len(bytes)) = bytes
<1>. DEFINE N == Len(bytes)
<1>1. N \in Nat /\ bytes = [i \in 1..N |-> bytes[i]]
  OBVIOUS
<1>2. Slice(bytes, 0, N) = [i \in 1..N |-> bytes[i]]
  <2>1. \A i \in 1..N : 0 + i = i /\ 0 + i <= Len(bytes)
    OBVIOUS
  <2>. QED  BY <2>1 DEF Slice
<1>. QED  BY <1>1, <1>2 DEF Refit

\* Clean names are written back byte by byte.
LEMMA NamesBack ==
    ASSUME NEW bytes \in Seq(Int), CleanNames(bytes)
    PROVE  EncodeNames(DecodeNames(bytes).entries, DecodeNames(bytes).padding, Len(bytes)) = bytes
<1>. DEFINE N == Len(bytes)
<1>1. PICK scan : /\ ScansOf(scan, bytes)
                  /\ DecodeNames(bytes) = IF scan[N].raw = <<>> THEN scan[N] ELSE Named(scan[N])
  BY Scanning
<1>2. N \in Nat /\ SubSeq(bytes, 1, N) = bytes
  OBVIOUS
<1>. DEFINE S == {i \in 0..N : Scanned(scan[i], bytes, i)}
<1>3. 0 \in S
  BY <1>1, <1>2, ScannedNone DEF ScansOf
<1>4. ASSUME NEW i \in 1..N, i - 1 \in S PROVE i \in S
  <2>1. scan[i] = ScanByte(scan[i - 1], bytes[i]) /\ Scanned(scan[i - 1], bytes, i - 1) /\ i \in 0..N
    BY <1>1, <1>2, <1>4 DEF ScansOf
  <2>. QED  BY <2>1, ScannedNext
<1>. HIDE DEF S
<1>5. \A i \in 0..N : i \in S
  BY <1>2, <1>3, <1>4, CountingTo
<1>6. Scanned(scan[N], bytes, N)
  BY <1>2, <1>5 DEF S
<1>. DEFINE s == scan[N]
<1>7. s.raw = <<>>
  <2>. DEFINE r == s.raw
              n == Len(r)
  <2>1. EndRun(r, bytes, N)
    BY <1>6 DEF Scanned
  <2>. HIDE DEF r, N
  <2>2. SUFFICES ASSUME n # 0 PROVE FALSE
    BY <2>1 DEF EndRun, r
  <2>3. n \in Nat \ {0} /\ n <= N /\ \A j \in 1..n : r[j] = bytes[N - n + j] /\ r[j] >= 32
    BY <2>1, <2>2 DEF EndRun
  <2>. HIDE DEF n
  <2>4. n \in 1..n /\ N - n + n = N
    BY <1>2, <2>3
  <2>5. bytes[N] >= 32 /\ N \in DOMAIN bytes
    <3>1. bytes[N] >= 32
      BY <2>3, <2>4
    <3>2. N # 0
      BY <1>2, <2>3
    <3>. QED  BY <1>2, <3>1, <3>2 DEF N
  <2>. QED  BY <2>5 DEF CleanNames, N
<1>8. /\ DecodeNames(bytes) = s /\ s \in Scans
      /\ \A j \in 1..Len(s.entries) : Tidy(s.entries[j].filename)
      /\ Cat(Cat(FlattenSeq(Rendered(s.entries)), s.padding), s.raw) = SubSeq(bytes, 1, N)
  BY <1>1, <1>6, <1>7 DEF Scanned
<1>. HIDE DEF s
<1>9. s.padding \in Words /\ FlattenSeq(Rendered(s.entries)) \in Words /\ s.entries \in Seq(Pieces)
  BY <1>8, ScansAre
<1>10. FlattenSeq(Rendered(s.entries)) \o s.padding = bytes
  <2>1. Cat(FlattenSeq(Rendered(s.entries)), s.padding) \in Words
    BY <1>9, CatWords
  <2>2. Cat(FlattenSeq(Rendered(s.entries)), s.padding) = bytes
    BY <1>2, <1>7, <1>8, <2>1, CatNone
  <2>. QED  BY <2>2 DEF Cat
<1>11. ASSUME NEW i \in DOMAIN s.entries, NEW c \in Range(s.entries[i].filename) PROVE ~(c >= 128)
  <2>1. i \in 1..Len(s.entries)
    <3>. HIDE DEF Pieces
    <3>. QED  BY <1>9
  <2>2. Tidy(s.entries[i].filename)
    BY <1>8, <2>1
  <2>. DEFINE f == s.entries[i].filename
  <2>3. f \in Seq(Int) /\ \A j \in 1..Len(f) : f[j] < 128
    BY <2>2 DEF Tidy
  <2>4. c \in Range(f)
    BY <1>11
  <2>. HIDE DEF f
  <2>5. PICK j \in 1..Len(f) : c = f[j]
    BY <2>3, <2>4 DEF Range
  <2>. QED  BY <2>3, <2>5
<1>12. Rendered(s.entries) = [i \in DOMAIN s.entries |-> s.entries[i].padding \o s.entries[i].filename \o <<0>>]
  BY DEF Rendered, Spelled
<1>13. EncodeNames(s.entries, s.padding, N) = Refit(bytes, N)
  <2>1. ~(Len(bytes) > N)
    BY <1>2
  <2>. HIDE DEF N
  <2>. QED  BY <1>10, <1>11, <1>12, <2>1 DEF EncodeNames
<1>. QED  BY <1>8, <1>13, RefitAll

-----------------------------------------------------------------------------
(* A level that is decoded and encoded again. *)

\* A level of the archive: whole blocks, and what follows them.
IsLevel(blob) == blob = [blocks |-> blob.blocks, tail |-> blob.tail] /\ blob.blocks \in Seq(Record(Layout))

LEMMA LayoutFacts ==
    /\ Layout.words \in Nat \ {0} /\ Layout.words \in Nat /\ Layout.entryWords \in Nat \ {0}
    /\ Layout.names \in DOMAIN Layout.sections
    /\ Layout.chunks \in Seq(DOMAIN Layout.sections)
    /\ \A name \in DOMAIN Layout.sections :
         /\ Layout.sections[name].first \in Nat /\ Layout.sections[name].last \in Nat
         /\ Layout.sections[name].first <= Layout.sections[name].last
         /\ Width(Layout, name) = Layout.sections[name].last - Layout.sections[name].first + 1
         /\ Width(Layout, name) \in Nat
BY LayoutAssumption DEF Width

\* The members a to b of s, counted from none, are t.
IsCut(t, s, T, a, b) == t \in Seq(T) /\ Len(t) = b - a + 1 /\ \A i \in a..b : t[i - a + 1] = s[i + 1]

LEMMA SubSeqFacts ==
    ASSUME NEW T, NEW s \in Seq(T), NEW a \in Nat, NEW b \in Nat, a <= b, b < Len(s)
    PROVE  IsCut(SubSeq(s, a + 1, b + 1), s, T, a, b)
<1>1. a + 1 \in Int /\ b + 1 \in Int /\ \A i \in (a + 1)..(b + 1) : s[i] \in T
  OBVIOUS
<1>2. /\ SubSeq(s, a + 1, b + 1) \in Seq(T) /\ Len(SubSeq(s, a + 1, b + 1)) = b - a + 1
      /\ \A j \in 1..(b - a + 1) : SubSeq(s, a + 1, b + 1)[j] = s[a + 1 + j - 1]
  BY <1>1
<1>3. ASSUME NEW i \in a..b PROVE SubSeq(s, a + 1, b + 1)[i - a + 1] = s[i + 1]
  <2>1. i - a + 1 \in 1..(b - a + 1) /\ a + 1 + (i - a + 1) - 1 = i + 1
    OBVIOUS
  <2>. QED  BY <1>2, <2>1
<1>. QED  BY <1>2, <1>3 DEF IsCut

LEMMA SectionFacts ==
    ASSUME NEW blocks \in Seq(Record(Layout)), NEW name \in DOMAIN Layout.sections
    PROVE  /\ Section(Layout, blocks, name) \in Seq(Record(Layout))
           /\ Layout.sections[name].last < Len(blocks) =>
                /\ Len(Section(Layout, blocks, name)) = Width(Layout, name)
                /\ \A b \in Layout.sections[name].first..Layout.sections[name].last :
                     Section(Layout, blocks, name)[b - Layout.sections[name].first + 1] = blocks[b + 1]
<1>. DEFINE R == Record(Layout)
            first == Layout.sections[name].first
            last == Layout.sections[name].last
            w == Width(Layout, name)
<1>1. first \in Nat /\ last \in Nat /\ first <= last /\ w = last - first + 1
  BY LayoutFacts
<1>2. Section(Layout, blocks, name) = IF last < Len(blocks) THEN SubSeq(blocks, first + 1, last + 1) ELSE <<>>
  BY DEF Section
<1>. HIDE DEF R, first, last, w
<1>3. blocks \in Seq(R)
  BY DEF R
<1>4. CASE last < Len(blocks)
  <2>1. IsCut(SubSeq(blocks, first + 1, last + 1), blocks, R, first, last)
    BY <1>1, <1>3, <1>4, SubSeqFacts
  <2>. DEFINE sub == SubSeq(blocks, first + 1, last + 1)
              sec == Section(Layout, blocks, name)
  <2>2. sec = sub
    BY <1>2, <1>4
  <2>3. sub \in Seq(R) /\ Len(sub) = w /\ \A i \in first..last : sub[i - first + 1] = blocks[i + 1]
    BY <1>1, <2>1 DEF IsCut
  <2>. HIDE DEF sub
  <2>4. sec \in Seq(R) /\ Len(sec) = w
    BY <2>2, <2>3
  <2>5. ASSUME NEW i \in first..last PROVE sec[i - first + 1] = blocks[i + 1]
    BY <2>2, <2>3
  <2>. HIDE DEF sec
  <2>6. sec \in Seq(R) /\ (last < Len(blocks) => Len(sec) = w /\ \A i \in first..last : sec[i - first + 1] = blocks[i + 1])
    BY <2>4, <2>5
  <2>. QED  BY <2>6 DEF R, first, last, w, sec
<1>5. CASE ~(last < Len(blocks))
  <2>1. <<>> \in Seq(R)
    OBVIOUS
  <2>. QED  BY <1>2, <1>5, <2>1 DEF R, first, last, w
<1>. QED  BY <1>4, <1>5

\* The shape of what ParseLvd makes of a level.
LEMMA ParsedFacts ==
    ASSUME NEW blob
    PROVE  LET d == ParseLvd(Layout, blob)
               names == DecodeNames(FlattenSeq(d.sections[Layout.names]))
           IN  /\ d.total = Len(blob.blocks) /\ d.tail = blob.tail
               /\ DOMAIN d.sections = DOMAIN Layout.sections
               /\ \A name \in DOMAIN Layout.sections : d.sections[name] = Section(Layout, blob.blocks, name)
               /\ d.shop = ShopEntries(Layout, d.sections)
               /\ d.names = names.entries /\ d.trailing = names.padding
               /\ d.remainder = Remainder(Layout, blob.blocks)
BY DEF ParseLvd

Holder(b) == {name \in DOMAIN Layout.sections : b \in Layout.sections[name].first..Layout.sections[name].last}
Extra(d, b) == {e \in d.remainder : e.block = b}
Block(d, b) ==
    CASE Extra(d, b) # {} -> (CHOOSE e \in Extra(d, b) : TRUE).values
      [] Extra(d, b) = {} /\ Holder(b) # {} ->
           LET name == CHOOSE n \in Holder(b) : TRUE
           IN  Encoded(Layout, d)[name][b - Layout.sections[name].first + 1]
      [] OTHER -> Zeros(Layout.words)

\* EncodeLvd, in parts.
LEMMA EncodedIs ==
    ASSUME NEW d, EncodeLvd(Layout, d) # Refused, d.total \in Nat
    PROVE  /\ \A name \in DOMAIN Layout.sections :
                /\ Encoded(Layout, d)[name] \in [1..Width(Layout, name) -> Record(Layout)]
                /\ ~(Layout.sections[name].last >= d.total)
           /\ \A e \in d.remainder : e.values \in Record(Layout)
           /\ EncodeLvd(Layout, d) = [blocks |-> [i \in 1..d.total |-> Block(d, i - 1)], tail |-> d.tail]
<1>. DEFINE records == Encoded(Layout, d)
            Bad == \/ d.total \notin Nat
                   \/ \E name \in DOMAIN records : \/ records[name] \notin [1..Width(Layout, name) -> Record(Layout)]
                                                   \/ Layout.sections[name].last >= d.total
                   \/ \E e \in d.remainder : e.block >= d.total \/ e.values \notin Record(Layout)
            Made == [blocks |-> [i \in 1..d.total |-> Block(d, i - 1)], tail |-> d.tail]
<1>1. DOMAIN records = DOMAIN Layout.sections
  BY DEF Encoded
<1>2. EncodeLvd(Layout, d) = IF Bad THEN Refused ELSE Made
  BY DEF EncodeLvd, Block, Extra, Holder
<1>. HIDE DEF Made
<1>3. ~Bad /\ EncodeLvd(Layout, d) = Made
  <2>. HIDE DEF Bad
  <2>. QED  BY <1>2
<1>. HIDE DEF records
<1>. QED  BY <1>1, <1>3 DEF Made, records

LEMMA SectionsBack ==
    ASSUME NEW blob, IsLevel(blob), Clean(blob),
           \A name \in DOMAIN Layout.sections : Layout.sections[name].last < Len(blob.blocks)
    PROVE  \A name \in DOMAIN Layout.sections :
               Encoded(Layout, ParseLvd(Layout, blob))[name] = Section(Layout, blob.blocks, name)
<1>. DEFINE d == ParseLvd(Layout, blob)
            n == Layout.words
            sec(name) == Section(Layout, blob.blocks, name)
            bytes == FlattenSeq(sec(Layout.names))
            back == EncodeNames(d.names, d.trailing, Width(Layout, Layout.names) * n)
<1>1. \A name \in DOMAIN Layout.sections : sec(name) \in Seq([1..n -> Int]) /\ Len(sec(name)) = Width(Layout, name)
  BY SectionFacts DEF IsLevel, Record
<1>2. /\ DOMAIN d.sections = DOMAIN Layout.sections
      /\ \A name \in DOMAIN Layout.sections : d.sections[name] = sec(name)
      /\ d.shop = ShopEntries(Layout, d.sections)
  BY ParsedFacts
<1>3. d.names = DecodeNames(bytes).entries /\ d.trailing = DecodeNames(bytes).padding
  <2>1. LET names == DecodeNames(FlattenSeq(d.sections[Layout.names]))
        IN  d.names = names.entries /\ d.trailing = names.padding
    BY ParsedFacts
  <2>2. d.sections[Layout.names] = sec(Layout.names)
    BY <1>2, LayoutFacts
  <2>. QED  BY <2>1, <2>2
<1>. HIDE DEF d, sec
<1>4. back = bytes /\ bytes \in Seq(Int)
  <2>. DEFINE s == sec(Layout.names)
  <2>1. s \in Seq([1..n -> Int]) /\ Len(s) = Width(Layout, Layout.names) /\ n \in Nat
    BY <1>1, LayoutFacts
  <2>. HIDE DEF s
  <2>2. FlattenSeq(s) \in Seq(Int) /\ Len(FlattenSeq(s)) = Len(s) * n
    BY <2>1, FlattenEven DEF LaidOut
  <2>3. CleanNames(FlattenSeq(s))
    BY DEF Clean, s, sec
  <2>4. EncodeNames(DecodeNames(FlattenSeq(s)).entries, DecodeNames(FlattenSeq(s)).padding, Len(FlattenSeq(s))) = FlattenSeq(s)
    BY <2>2, <2>3, NamesBack
  <2>5. Width(Layout, Layout.names) * n = Len(FlattenSeq(s))
    BY <2>1, <2>2
  <2>. QED  BY <1>3, <2>2, <2>4, <2>5 DEF s
<1>5. InGroups(bytes, n) = sec(Layout.names)
  BY <1>1, LayoutFacts, GroupsAgain
<1>6. back # Refused
  BY <1>4, LayoutAssumption
<1>7. ASSUME NEW name \in DOMAIN Layout.sections, Contains(Layout.chunks, name)
      PROVE  ShopChunks(Layout, d)[Min({i \in DOMAIN Layout.chunks : Layout.chunks[i] = name})] = sec(name)
  <2>. DEFINE I == {i \in DOMAIN Layout.chunks : Layout.chunks[i] = name}
              m == Min(I)
  <2>1. DOMAIN Layout.chunks = 1..Len(Layout.chunks) /\ Len(Layout.chunks) \in Nat
    BY LayoutFacts
  <2>2. I # {} /\ I \in SUBSET Nat
    BY <1>7, <2>1 DEF Contains
  <2>3. PICK x \in I : \A y \in I : x <= y
    BY <2>2, Smallest
  <2>4. m = x
    BY <2>2, <2>3, MinIs
  <2>5. m \in DOMAIN Layout.chunks /\ Layout.chunks[m] = name
    BY <2>3, <2>4
  <2>6. \A i \in DOMAIN Layout.chunks : ShopChunks(Layout, d)[i] = d.sections[Layout.chunks[i]]
    <3>1. Layout.chunks \in Seq(DOMAIN d.sections) /\ \A x_1 \in DOMAIN d.sections : d.sections[x_1] \in Seq(Record(Layout))
      BY <1>1, <1>2, LayoutFacts DEF Record
    <3>. QED  BY <1>2, <3>1, LayoutFacts, ChunksBack
  <2>. HIDE DEF m
  <2>. QED  BY <1>2, <2>5, <2>6 DEF m
<1>8. Encoded(Layout, d) =
          [name \in DOMAIN Layout.sections |->
              CASE name = Layout.names       -> IF back = Refused THEN Refused ELSE InGroups(back, n)
                [] Contains(Layout.chunks, name) ->
                       ShopChunks(Layout, d)[Min({i \in DOMAIN Layout.chunks : Layout.chunks[i] = name})]
                [] OTHER                     -> d.sections[name]]
  BY DEF Encoded
<1>. HIDE DEF back
<1>9. ASSUME NEW name \in DOMAIN Layout.sections PROVE Encoded(Layout, d)[name] = sec(name)
  <2>. DEFINE X == ShopChunks(Layout, d)[Min({i \in DOMAIN Layout.chunks : Layout.chunks[i] = name})]
  <2>1. Encoded(Layout, d)[name] =
            CASE name = Layout.names       -> IF back = Refused THEN Refused ELSE InGroups(back, n)
              [] Contains(Layout.chunks, name) -> X
              [] OTHER                     -> d.sections[name]
    BY <1>8
  <2>. HIDE DEF X
  <2>2. CASE name = Layout.names
    <3>1. (IF back = Refused THEN Refused ELSE InGroups(back, n)) = sec(name)
      BY <1>4, <1>5, <1>6, <2>2
    <3>2. Contains(Layout.chunks, name) => X = sec(name)
      BY <1>7 DEF X
    <3>. QED  BY <2>1, <2>2, <3>1, <3>2
  <2>3. CASE name # Layout.names /\ Contains(Layout.chunks, name)
    BY <1>7, <2>1, <2>3 DEF X
  <2>4. CASE name # Layout.names /\ ~Contains(Layout.chunks, name)
    BY <1>2, <2>1, <2>4
  <2>. QED  BY <2>2, <2>3, <2>4
<1>. QED  BY <1>9 DEF d, sec

LEMMA BlockBack ==
    ASSUME NEW blob, IsLevel(blob), Clean(blob),
           \A name \in DOMAIN Layout.sections : Layout.sections[name].last < Len(blob.blocks),
           NEW b \in Nat, b < Len(blob.blocks)
    PROVE  Block(ParseLvd(Layout, blob), b) = blob.blocks[b + 1]
<1>. DEFINE d == ParseLvd(Layout, blob)
            blocks == blob.blocks
            value == blocks[b + 1]
<1>1. b + 1 \in DOMAIN blocks /\ DOMAIN blocks = 1..Len(blocks) /\ (b + 1) - 1 = b
  BY DEF IsLevel
<1>2. Extra(d, b) = {e \in Remainder(Layout, blocks) : e.block = b}
  BY ParsedFacts DEF Extra
<1>3. \A name \in DOMAIN Layout.sections : Encoded(Layout, d)[name] = Section(Layout, blocks, name)
  BY SectionsBack
<1>. HIDE DEF d
<1>4. CASE Extra(d, b) # {}
  <2>1. \A e \in Extra(d, b) : e.values = value
    <3>1. ASSUME NEW e \in Extra(d, b) PROVE e.values = value
      <4>1. e \in Remainder(Layout, blocks) /\ e.block = b
        BY <1>2
      <4>2. PICK i \in DOMAIN blocks : e = [block |-> i - 1, values |-> blocks[i]]
        BY <4>1 DEF Remainder
      <4>3. i - 1 = b /\ e.values = blocks[i] /\ i \in Nat
        BY <1>1, <4>1, <4>2
      <4>4. i = b + 1
        BY <4>3
      <4>. QED  BY <4>3, <4>4
    <3>. QED  BY <3>1
  <2>2. Block(d, b) = (CHOOSE e \in Extra(d, b) : TRUE).values
    BY <1>4 DEF Block
  <2>3. (CHOOSE e \in Extra(d, b) : TRUE) \in Extra(d, b)
    BY <1>4
  <2>. QED  BY <2>1, <2>2, <2>3 DEF d
<1>5. CASE Extra(d, b) = {} /\ Holder(b) # {}
  <2>. DEFINE name == CHOOSE n \in Holder(b) : TRUE
  <2>1. name \in Holder(b)
    BY <1>5
  <2>2. Block(d, b) = Encoded(Layout, d)[name][b - Layout.sections[name].first + 1]
    BY <1>5 DEF Block
  <2>. HIDE DEF name
  <2>3. name \in DOMAIN Layout.sections /\ b \in Layout.sections[name].first..Layout.sections[name].last
    BY <2>1 DEF Holder
  <2>4. Section(Layout, blocks, name)[b - Layout.sections[name].first + 1] = value
    BY <2>3, SectionFacts DEF IsLevel
  <2>. QED  BY <1>3, <2>2, <2>3, <2>4 DEF d
<1>6. CASE Extra(d, b) = {} /\ Holder(b) = {}
  <2>1. Block(d, b) = Zeros(Layout.words)
    BY <1>6 DEF Block
  <2>2. b \notin Covered(Layout)
    <3>1. SUFFICES ASSUME b \in Covered(Layout) PROVE FALSE
      OBVIOUS
    <3>2. PICK s \in Range(Layout.sections) : b \in s.first..s.last
      BY <3>1 DEF Covered
    <3>3. PICK name \in DOMAIN Layout.sections : s = Layout.sections[name]
      BY <3>2 DEF Range
    <3>. QED  BY <1>6, <3>2, <3>3 DEF Holder
  <2>3. value = Zeros(Layout.words)
    <3>1. SUFFICES ASSUME value # Zeros(Layout.words) PROVE FALSE
      OBVIOUS
    <3>2. [block |-> (b + 1) - 1, values |-> value] \in Remainder(Layout, blocks)
      BY <1>1, <2>2, <3>1 DEF Remainder
    <3>. QED  BY <1>1, <1>2, <1>6, <3>2
  <2>. QED  BY <2>1, <2>3 DEF d
<1>. QED  BY <1>4, <1>5, <1>6 DEF d

\* Decoding a level with clean names and encoding it again gives it back, or is
\* refused.
THEOREM RoundTrip ==
    ASSUME NEW blob, IsLevel(blob), Clean(blob), EncodeLvd(Layout, ParseLvd(Layout, blob)) # Refused
    PROVE  EncodeLvd(Layout, ParseLvd(Layout, blob)) = blob
<1>. DEFINE d == ParseLvd(Layout, blob)
            N == Len(blob.blocks)
<1>1. d.total = N /\ d.tail = blob.tail
  BY ParsedFacts
<1>2. N \in Nat /\ blob.blocks = [i \in 1..N |-> blob.blocks[i]] /\ blob = [blocks |-> blob.blocks, tail |-> blob.tail]
  BY DEF IsLevel
<1>. HIDE DEF d, N
<1>3. /\ \A name \in DOMAIN Layout.sections : ~(Layout.sections[name].last >= N)
      /\ EncodeLvd(Layout, d) = [blocks |-> [i \in 1..N |-> Block(d, i - 1)], tail |-> blob.tail]
  <2>1. d.total \in Nat /\ EncodeLvd(Layout, d) # Refused
    BY <1>1, <1>2 DEF d
  <2>2. /\ \A name \in DOMAIN Layout.sections : ~(Layout.sections[name].last >= d.total)
        /\ EncodeLvd(Layout, d) = [blocks |-> [i \in 1..d.total |-> Block(d, i - 1)], tail |-> d.tail]
    BY <2>1, EncodedIs
  <2>. QED  BY <1>1, <2>2
<1>4. \A name \in DOMAIN Layout.sections : Layout.sections[name].last < Len(blob.blocks)
  BY <1>2, <1>3, LayoutFacts DEF N
<1>5. ASSUME NEW i \in 1..N PROVE Block(d, i - 1) = blob.blocks[i]
  <2>1. i - 1 \in Nat /\ i - 1 < N /\ (i - 1) + 1 = i
    BY <1>2
  <2>2. Block(d, i - 1) = blob.blocks[(i - 1) + 1]
    BY <1>4, <2>1, BlockBack DEF d, N
  <2>. QED  BY <2>1, <2>2
<1>6. [i \in 1..N |-> Block(d, i - 1)] = [i \in 1..N |-> blob.blocks[i]]
  BY <1>5
<1>. QED  BY <1>2, <1>3, <1>6 DEF d

\* What is encoded without an error is a level.
THEOREM EncodedIsLevel ==
    ASSUME NEW d, EncodeLvd(Layout, d) # Refused
    PROVE  IsLevel(EncodeLvd(Layout, d))
<1>. DEFINE R == Record(Layout)
            n == d.total
            made == [i \in 1..n |-> Block(d, i - 1)]
<1>1. n \in Nat
  BY DEF EncodeLvd
<1>2. /\ \A name \in DOMAIN Layout.sections : Encoded(Layout, d)[name] \in [1..Width(Layout, name) -> R]
      /\ \A e \in d.remainder : e.values \in R
      /\ EncodeLvd(Layout, d) = [blocks |-> made, tail |-> d.tail]
  BY <1>1, EncodedIs
<1>3. ASSUME NEW b \in Nat PROVE Block(d, b) \in R
  <2>1. CASE Extra(d, b) # {}
    <3>1. (CHOOSE e \in Extra(d, b) : TRUE) \in d.remainder
      BY <2>1 DEF Extra
    <3>2. Block(d, b) = (CHOOSE e \in Extra(d, b) : TRUE).values
      BY <2>1 DEF Block
    <3>. QED  BY <1>2, <3>1, <3>2
  <2>2. CASE Extra(d, b) = {} /\ Holder(b) # {}
    <3>. DEFINE name == CHOOSE x \in Holder(b) : TRUE
                first == Layout.sections[name].first
                last == Layout.sections[name].last
    <3>1. name \in Holder(b)
      BY <2>2
    <3>2. Block(d, b) = Encoded(Layout, d)[name][b - first + 1]
      BY <2>2 DEF Block
    <3>. HIDE DEF name
    <3>3. name \in DOMAIN Layout.sections /\ b \in first..last
      BY <3>1 DEF Holder
    <3>4. first \in Nat /\ last \in Nat /\ Width(Layout, name) = last - first + 1
      BY <3>3, LayoutFacts
    <3>5. b - first + 1 \in 1..Width(Layout, name)
      <4>. HIDE DEF first, last
      <4>. QED  BY <3>3, <3>4
    <3>. QED  BY <1>2, <3>2, <3>3, <3>5
  <2>3. CASE Extra(d, b) = {} /\ Holder(b) = {}
    <3>1. Block(d, b) = Zeros(Layout.words)
      BY <2>3 DEF Block
    <3>. QED  BY <3>1, LayoutFacts DEF Zeros, Record
  <2>. QED  BY <2>1, <2>2, <2>3
<1>4. made \in Seq(R)
  <2>1. \A i \in 1..n : i - 1 \in Nat
    BY <1>1
  <2>. HIDE DEF n, R
  <2>. QED  BY <1>1, <1>3, <2>1
<1>. QED  BY <1>2, <1>4 DEF IsLevel

-----------------------------------------------------------------------------
(* The inductive invariant of the levels: every level in an archive, in an      *)
(* output file or in the hands of a run is one the codec can read, or is torn.  *)

Held(x) == x = Torn \/ IsLevel(x)

FilesHeld ==
    \A f \in {pac, bak, tmp} : f.kind = "whole" => \A e \in DOMAIN f.levels : Held(f.levels[e])

OutputsHeld == \A e \in Entries : out[e] = Missing \/ Held(out[e])

\* A run that reused a descriptor that was there has no base.
RunHeld(r) ==
    /\ r.command = "update" /\ r.step = "begin" => r.entry \in Entries
    /\ r.command = "edit" /\ r.step = "decoded" => Held(r.blob)
    /\ r.command = "edit" /\ r.step \in {"editor", "write"} /\ r.refresh => Held(r.base)
    /\ r.command = "edit" /\ r.step = "write" => IsLevel(r.blob)
    /\ r.command = "update" /\ r.step = "copy" => Held(r.blob)

RunsHeld == \A u \in Users : RunHeld(tools[u])

LevelsInv == RunsTyped /\ OutputsNamed /\ FilesHeld /\ OutputsHeld /\ RunsHeld

LEMMA RunHeldQuiet == RunHeld(Quiet)
BY QuietFacts DEF RunHeld

LEMMA LevelsGoOn ==
    ASSUME LevelsInv, NEW u \in Users, NEW r, DOMAIN r = Fields, Becomes(u, r), RunHeld(r),
           OutputsNamed', FilesHeld', OutputsHeld'
    PROVE  LevelsInv'
<1>1. RunsTyped' /\ tools'[u] = r /\ \A v \in Users : v # u => tools'[v] = tools[v]
  BY BecomesFacts DEF LevelsInv
<1>2. \A v \in Users : RunHeld(tools[v])
  BY DEF LevelsInv, RunsHeld
<1>3. \A v \in Users : RunHeld(tools'[v])
  <2>. HIDE DEF RunHeld
  <2>. QED  BY <1>1, <1>2
<1>4. RunsHeld'
  BY <1>3 DEF RunsHeld, RunHeld
<1>. QED  BY <1>1, <1>4 DEF LevelsInv

\* What no action but those on the archives and on the output changes.
LEMMA FilesStay == ASSUME LevelsInv, UNCHANGED <<pac, bak, tmp>> PROVE FilesHeld'
BY DEF LevelsInv, FilesHeld

LEMMA OutputsHeldStay == ASSUME LevelsInv, UNCHANGED out PROVE OutputsNamed' /\ OutputsHeld'
BY DEF LevelsInv, OutputsNamed, OutputsHeld

LEMMA OutputsHeldNow ==
    ASSUME LevelsInv, NEW e, NEW b, Held(b), out' = [out EXCEPT ![e] = b]
    PROVE  OutputsNamed' /\ OutputsHeld'
BY DEF LevelsInv, OutputsNamed, OutputsHeld

LEMMA LaunchLevels == ASSUME LevelsInv, NEW u \in Users, Launch(u) PROVE LevelsInv'
<1>1. PICK r : Becomes(u, r) /\ DOMAIN r = Fields /\ r.step = "begin" /\ r.entry \in Entries
  <2>1. CASE \E e \in Entries, refresh \in BOOLEAN :
                Becomes(u, [Quiet EXCEPT !.command = "edit", !.entry = e, !.refresh = refresh])
    <3>1. PICK e \in Entries, refresh \in BOOLEAN :
                Becomes(u, [Quiet EXCEPT !.command = "edit", !.entry = e, !.refresh = refresh])
      BY <2>1
    <3>. DEFINE r == [Quiet EXCEPT !.command = "edit", !.entry = e, !.refresh = refresh]
    <3>2. DOMAIN r = Fields /\ r.step = "begin" /\ r.entry = e
      BY QuietFacts DEF Fields
    <3>. QED  BY <3>1, <3>2
  <2>2. CASE \E e \in Entries, backup \in BOOLEAN :
                Becomes(u, [Quiet EXCEPT !.command = "update", !.entry = e, !.backup = backup])
    <3>1. PICK e \in Entries, backup \in BOOLEAN :
                Becomes(u, [Quiet EXCEPT !.command = "update", !.entry = e, !.backup = backup])
      BY <2>2
    <3>. DEFINE r == [Quiet EXCEPT !.command = "update", !.entry = e, !.backup = backup]
    <3>2. DOMAIN r = Fields /\ r.step = "begin" /\ r.entry = e
      BY QuietFacts DEF Fields
    <3>. QED  BY <3>1, <3>2
  <2>. QED  BY <2>1, <2>2 DEF Launch
<1>2. RunHeld(r)
  BY <1>1 DEF RunHeld
<1>3. UNCHANGED <<pac, bak, tmp>> /\ UNCHANGED out
  BY DEF Launch
<1>. QED  BY <1>1, <1>2, <1>3, FilesStay, OutputsHeldStay, LevelsGoOn

LEMMA AbandonLevels == ASSUME LevelsInv, NEW u \in Users, Abandon(u) PROVE LevelsInv'
<1>1. UNCHANGED <<pac, bak, tmp>> /\ UNCHANGED out /\ Becomes(u, Quiet)
  BY DEF Abandon
<1>. QED  BY <1>1, QuietFacts, RunHeldQuiet, FilesStay, OutputsHeldStay, LevelsGoOn

LEMMA ReuseDescriptorLevels == ASSUME LevelsInv, NEW u \in Users, ReuseDescriptor(u) PROVE LevelsInv'
<1>. DEFINE r == [tools[u] EXCEPT !.step = "editor"]
<1>1. UNCHANGED <<pac, bak, tmp>> /\ UNCHANGED out /\ Becomes(u, r) /\ ~tools[u].refresh
  BY DEF ReuseDescriptor
<1>2. DOMAIN tools[u] = Fields /\ tools[u].command = "edit"
  BY DEF LevelsInv, RunsTyped, ReuseDescriptor, Doing
<1>3. DOMAIN r = Fields /\ r.command = "edit" /\ r.step = "editor" /\ ~r.refresh
  BY <1>1, <1>2 DEF Fields
<1>4. RunHeld(r)
  BY <1>3 DEF RunHeld
<1>. QED  BY <1>1, <1>3, <1>4, FilesStay, OutputsHeldStay, LevelsGoOn

LEMMA DecodeEntryLevels == ASSUME LevelsInv, NEW u \in Users, DecodeEntry(u) PROVE LevelsInv'
<1>. DEFINE e == tools[u].entry
            r == [tools[u] EXCEPT !.step = "decoded", !.blob = pac.levels[e]]
<1>1. /\ UNCHANGED <<pac, bak, tmp>> /\ UNCHANGED out /\ Becomes(u, r)
      /\ InPac(e)
  BY DEF DecodeEntry
<1>2. DOMAIN tools[u] = Fields /\ tools[u].command = "edit"
  BY DEF LevelsInv, RunsTyped, DecodeEntry, Doing
<1>3. Held(pac.levels[e])
  BY <1>1 DEF LevelsInv, FilesHeld, InPac
<1>4. DOMAIN r = Fields /\ r.command = "edit" /\ r.step = "decoded" /\ r.blob = pac.levels[e]
  BY <1>2 DEF Fields
<1>. HIDE DEF e
<1>5. RunHeld(r)
  BY <1>3, <1>4 DEF RunHeld
<1>. QED  BY <1>1, <1>4, <1>5, FilesStay, OutputsHeldStay, LevelsGoOn

LEMMA WriteDescriptorLevels == ASSUME LevelsInv, NEW u \in Users, WriteDescriptor(u) PROVE LevelsInv'
<1>. DEFINE r == [tools[u] EXCEPT !.step = "editor", !.base = tools[u].blob, !.blob = Missing]
<1>1. UNCHANGED <<pac, bak, tmp>> /\ UNCHANGED out /\ Becomes(u, r)
  BY DEF WriteDescriptor
<1>2. DOMAIN tools[u] = Fields /\ tools[u].command = "edit" /\ tools[u].step = "decoded"
  BY DEF LevelsInv, RunsTyped, WriteDescriptor, Doing
<1>3. Held(tools[u].blob)
  BY <1>2 DEF LevelsInv, RunsHeld, RunHeld
<1>4. DOMAIN r = Fields /\ r.command = "edit" /\ r.step = "editor" /\ r.base = tools[u].blob
  BY <1>2 DEF Fields
<1>5. RunHeld(r)
  BY <1>3, <1>4 DEF RunHeld
<1>. QED  BY <1>1, <1>4, <1>5, FilesStay, OutputsHeldStay, LevelsGoOn

\* The encoder's own checks are what makes a level of what an author wrote.
LEMMA LintAndEncodeLevels == ASSUME LevelsInv, NEW u \in Users, LintAndEncode(u) PROVE LevelsInv'
<1>. DEFINE e == tools[u].entry
            d == descriptors[StemOf[e]]
            blob == EncodeLvd(Layout, d)
            r == [tools[u] EXCEPT !.step = "write", !.blob = blob, !.lint = d]
<1>1. /\ UNCHANGED <<pac, bak, tmp>> /\ out' = [out EXCEPT ![e] = Torn] /\ Becomes(u, r)
      /\ EncodeLvd(Layout, d) # Refused
  BY DEF LintAndEncode
<1>2. DOMAIN tools[u] = Fields /\ tools[u].command = "edit" /\ tools[u].step = "editor"
  BY DEF LevelsInv, RunsTyped, LintAndEncode, Doing
<1>. HIDE DEF d
<1>3. IsLevel(blob)
  BY <1>1, EncodedIsLevel
<1>. HIDE DEF blob
<1>4. tools[u].refresh => Held(tools[u].base)
  BY <1>2 DEF LevelsInv, RunsHeld, RunHeld
<1>5. /\ DOMAIN r = Fields /\ r.command = "edit" /\ r.step = "write" /\ r.blob = blob
      /\ r.base = tools[u].base /\ r.refresh = tools[u].refresh
  BY <1>2 DEF Fields
<1>. HIDE DEF e
<1>6. RunHeld(r)
  <2>. HIDE DEF r
  <2>. QED  BY <1>3, <1>4, <1>5 DEF RunHeld
<1>7. OutputsNamed' /\ OutputsHeld'
  BY <1>1, OutputsHeldNow DEF Held
<1>. QED  BY <1>1, <1>5, <1>6, <1>7, FilesStay, LevelsGoOn

LEMMA WriteLevelLevels == ASSUME LevelsInv, NEW u \in Users, WriteLevel(u) PROVE LevelsInv'
<1>1. /\ UNCHANGED <<pac, bak, tmp>> /\ out' = [out EXCEPT ![tools[u].entry] = tools[u].blob]
      /\ Becomes(u, Quiet) /\ tools[u].command = "edit" /\ tools[u].step = "write"
  BY DEF WriteLevel, Doing
<1>2. Held(tools[u].blob)
  BY <1>1 DEF LevelsInv, RunsHeld, RunHeld, Held
<1>3. OutputsNamed' /\ OutputsHeld'
  BY <1>1, <1>2, OutputsHeldNow
<1>. QED  BY <1>1, <1>3, QuietFacts, RunHeldQuiet, FilesStay, LevelsGoOn

LEMMA SaveChangeLevels == ASSUME LevelsInv, NEW s \in Stems, SaveChange(s) PROVE LevelsInv'
<1>1. ASSUME NEW u \in Users PROVE DOMAIN tools'[u] = Fields /\ RunHeld(tools'[u])
  <2>1. tools'[u] = tools[u] \/ tools'[u] = [tools[u] EXCEPT !.edited = TRUE]
    BY DEF SaveChange
  <2>2. DOMAIN tools[u] = Fields /\ RunHeld(tools[u])
    BY DEF LevelsInv, RunsTyped, RunsHeld
  <2>. QED  BY <2>1, <2>2 DEF RunHeld, Fields
<1>2. RunsTyped' /\ RunsHeld'
  BY <1>1 DEF SaveChange, RunsTyped, RunsHeld, RunHeld
<1>. QED  BY <1>2, FilesStay, OutputsHeldStay DEF SaveChange, LevelsInv

LEMMA OpenArchivesLevels == ASSUME LevelsInv, NEW u \in Users, OpenArchives(u) PROVE LevelsInv'
<1>. DEFINE e == tools[u].entry
            r == [tools[u] EXCEPT !.step = "copy", !.blob = out[e]]
<1>1. /\ UNCHANGED <<pac, bak>> /\ tmp' = TornPac /\ UNCHANGED out /\ Becomes(u, r)
      /\ out[e] # Missing
  BY DEF OpenArchives
<1>2. DOMAIN tools[u] = Fields /\ tools[u].command = "update"
  BY DEF LevelsInv, RunsTyped, OpenArchives, Doing
<1>3. Held(out[e])
  <2>1. e \in Entries
    BY <1>2 DEF LevelsInv, RunsHeld, RunHeld, OpenArchives, Doing
  <2>. QED  BY <1>1, <2>1 DEF LevelsInv, OutputsHeld
<1>4. DOMAIN r = Fields /\ r.command = "update" /\ r.step = "copy" /\ r.blob = out[e]
  BY <1>2 DEF Fields
<1>5. RunHeld(r)
  BY <1>3, <1>4 DEF RunHeld
<1>6. FilesHeld'
  BY <1>1, PacFacts DEF LevelsInv, FilesHeld
<1>. QED  BY <1>1, <1>4, <1>5, <1>6, OutputsHeldStay, LevelsGoOn

LEMMA CopyMembersLevels == ASSUME LevelsInv, NEW u \in Users, CopyMembers(u) PROVE LevelsInv'
<1>. DEFINE e == tools[u].entry
            blob == tools[u].blob
<1>1. UNCHANGED <<pac, bak>> /\ UNCHANGED out
  BY DEF CopyMembers
<1>2. DOMAIN tools[u] = Fields /\ tools[u].command = "update" /\ tools[u].step = "copy"
  BY DEF LevelsInv, RunsTyped, CopyMembers, Doing
<1>3. Held(blob)
  BY <1>2 DEF LevelsInv, RunsHeld, RunHeld
<1>4. CASE InPac(e)
  <2>. DEFINE r == [tools[u] EXCEPT !.step = "retire"]
              levels == [pac.levels EXCEPT ![e] = blob]
  <2>1. Becomes(u, r) /\ tmp' = Pac(levels)
    BY <1>4 DEF CopyMembers
  <2>2. DOMAIN r = Fields /\ r.command = "update" /\ r.step = "retire"
    BY <1>2 DEF Fields
  <2>3. RunHeld(r)
    BY <2>2 DEF RunHeld
  <2>. HIDE DEF blob, e
  <2>4. \A x \in DOMAIN levels : Held(levels[x])
    BY <1>3, <1>4 DEF LevelsInv, FilesHeld, InPac
  <2>. HIDE DEF levels
  <2>5. FilesHeld'
    BY <1>1, <2>1, <2>4, PacFacts DEF LevelsInv, FilesHeld
  <2>. QED  BY <1>1, <2>1, <2>2, <2>3, <2>5, OutputsHeldStay, LevelsGoOn
<1>5. CASE ~InPac(e)
  <2>1. Becomes(u, Quiet) /\ tmp' = NoPac
    BY <1>5 DEF CopyMembers
  <2>2. FilesHeld'
    BY <1>1, <2>1, PacFacts DEF LevelsInv, FilesHeld
  <2>. QED  BY <1>1, <2>1, <2>2, QuietFacts, RunHeldQuiet, OutputsHeldStay, LevelsGoOn
<1>. QED  BY <1>4, <1>5

LEMMA RetireArchiveLevels == ASSUME LevelsInv, NEW u \in Users, RetireArchive(u) PROVE LevelsInv'
<1>. DEFINE r == [tools[u] EXCEPT !.step = "install"]
<1>1. /\ bak' \in {pac, bak} /\ pac' = NoPac /\ UNCHANGED tmp /\ UNCHANGED out /\ Becomes(u, r)
  BY DEF RetireArchive
<1>2. DOMAIN tools[u] = Fields /\ tools[u].command = "update"
  BY DEF LevelsInv, RunsTyped, RetireArchive, Doing
<1>3. DOMAIN r = Fields /\ r.command = "update" /\ r.step = "install"
  BY <1>2 DEF Fields
<1>4. RunHeld(r)
  BY <1>3 DEF RunHeld
<1>5. FilesHeld'
  BY <1>1, PacFacts DEF LevelsInv, FilesHeld
<1>. QED  BY <1>1, <1>3, <1>4, <1>5, OutputsHeldStay, LevelsGoOn

LEMMA InstallArchiveLevels == ASSUME LevelsInv, NEW u \in Users, InstallArchive(u) PROVE LevelsInv'
<1>1. UNCHANGED bak /\ pac' = tmp /\ tmp' = NoPac /\ UNCHANGED out /\ Becomes(u, Quiet)
  BY DEF InstallArchive
<1>2. FilesHeld'
  BY <1>1, PacFacts DEF LevelsInv, FilesHeld
<1>. QED  BY <1>1, <1>2, QuietFacts, RunHeldQuiet, OutputsHeldStay, LevelsGoOn

LEMMA RestoreByHandLevels == ASSUME LevelsInv, RestoreByHand PROVE LevelsInv'
<1>1. FilesHeld'
  BY PacFacts DEF RestoreByHand, LevelsInv, FilesHeld
<1>. QED  BY <1>1, OutputsHeldStay DEF RestoreByHand, LevelsInv, RunsTyped, RunsHeld, RunHeld

LEMMA NextLevelsInv == ASSUME LevelsInv, [EditorNext]_editorVars PROVE LevelsInv'
<1>1. CASE UNCHANGED editorVars
  BY <1>1, FilesStay, OutputsHeldStay DEF editorVars, LevelsInv, RunsTyped, RunsHeld, RunHeld
<1>. QED  BY <1>1, LaunchLevels, AbandonLevels, ReuseDescriptorLevels, DecodeEntryLevels, WriteDescriptorLevels,
             LintAndEncodeLevels, WriteLevelLevels, SaveChangeLevels, OpenArchivesLevels, CopyMembersLevels,
             RetireArchiveLevels, InstallArchiveLevels, RestoreByHandLevels DEF EditorNext

LEMMA InitLevelsInv == EditorInit => LevelsInv
<1>. SUFFICES ASSUME EditorInit PROVE LevelsInv  OBVIOUS
<1>1. \A u \in Users : tools[u] = Quiet
  BY DEF EditorInit
<1>2. RunsTyped /\ RunsHeld
  BY <1>1, QuietFacts, RunHeldQuiet DEF EditorInit, RunsTyped, RunsHeld
<1>3. \A e \in DOMAIN Archive : Held(Archive[e])
  BY ArchiveAssumption DEF Held, IsLevel
<1>4. FilesHeld
  BY <1>3, PacFacts DEF EditorInit, FilesHeld
<1>. QED  BY <1>2, <1>4 DEF EditorInit, LevelsInv, OutputsNamed, OutputsHeld

\* No archive, output or run ever holds bytes that are neither a level nor torn,
\* whatever authors write into descriptors.
THEOREM LevelsInvariance == EditorSpec => []LevelsInv
BY InitLevelsInv, NextLevelsInv, PTL DEF EditorSpec

\* Editing afresh and changing nothing gives the archive's own level back, for
\* any layout, archive, number of users and of runs: the codec loses nothing and
\* no other run can have put its own words in between.
THEOREM UntouchedGivesBack == EditorSpec => UntouchedIsUnchanged
<1> DEFINE Afresh(u) == WriteLevel(u) /\ tools[u].refresh /\ ~tools[u].edited /\ Clean(tools[u].base)
           Back(u) == out'[tools[u].entry] = tools[u].base
<1>1. ASSUME DraftInv, LevelsInv, NEW u \in Users, Afresh(u)
      PROVE  Back(u)
  <2>1. /\ Editing(u) /\ tools[u].step = "write" /\ out' = [out EXCEPT ![tools[u].entry] = tools[u].blob]
        /\ tools[u].command = "edit"
    BY <1>1 DEF WriteLevel, Doing, Editing
  <2>2. DraftOk(tools[u], descriptors[Stem(u)])
    BY <1>1, <2>1, EditingFacts
  <2>3. /\ tools[u].entry \in Entries /\ tools[u].blob = EncodeLvd(Layout, ParseLvd(Layout, tools[u].base))
        /\ tools[u].blob # Refused /\ tools[u].base # Torn
    BY <1>1, <2>1, <2>2 DEF DraftOk
  <2>4. IsLevel(tools[u].base)
    BY <1>1, <2>1, <2>3 DEF LevelsInv, RunsHeld, RunHeld, Held
  <2>5. tools[u].blob = tools[u].base
    BY <1>1, <2>3, <2>4, RoundTrip
  <2>. QED  BY <1>1, <2>1, <2>3, <2>5 DEF LevelsInv, OutputsNamed
<1>2. DraftInv /\ LevelsInv => \A u \in Users : Afresh(u) => Back(u)
  BY <1>1
<1>. QED  BY <1>2, DraftInvariance, LevelsInvariance, PTL DEF EditorSpec, UntouchedIsUnchanged

-----------------------------------------------------------------------------
(* Runs of words, as rows of a table. *)

LEMMA SameSeq ==
    ASSUME NEW T, NEW s \in Seq(T), NEW t \in Seq(T), Len(s) = Len(t), \A i \in 1..Len(s) : s[i] = t[i]
    PROVE  s = t
OBVIOUS

\* u is s and then t.
Ends(u, s, t) ==
    /\ Len(u) = Len(s) + Len(t)
    /\ \A p \in 1..Len(s) : u[p] = s[p]
    /\ \A p \in 1..Len(t) : u[Len(s) + p] = t[p]

LEMMA CatIs ==
    ASSUME NEW T, NEW s \in Seq(T), NEW t \in Seq(T), NEW u \in Seq(T), Ends(u, s, t)
    PROVE  Cat(s, t) = u
<1>. DEFINE m == Len(s)
            n == Len(t)
            c == s \o t
<1>1. /\ c \in Seq(T) /\ m \in Nat /\ n \in Nat /\ Len(c) = m + n
      /\ \A p \in 1..m : c[p] = s[p]
      /\ \A p \in 1..n : c[m + p] = t[p]
  OBVIOUS
<1>2. u \in Seq(T) /\ Len(u) = m + n /\ (\A p \in 1..m : u[p] = s[p]) /\ \A p \in 1..n : u[m + p] = t[p]
  BY DEF Ends
<1>. HIDE DEF m, n, c
<1>3. ASSUME NEW p \in 1..(m + n) PROVE c[p] = u[p]
  <2>1. CASE p <= m
    BY <1>1, <1>2, <2>1
  <2>2. CASE p > m
    <3>1. p - m \in 1..n /\ m + (p - m) = p
      BY <1>1, <2>2
    <3>. QED  BY <1>1, <1>2, <3>1
  <2>. QED  BY <1>1, <2>1, <2>2
<1>4. c = u
  BY <1>1, <1>2, <1>3, SameSeq
<1>. QED  BY <1>4 DEF c, Cat

\* The word at a place, zero past the end.
At(w, p) == IF p <= Len(w) THEN w[p] ELSE 0

LEMMA SliceFacts ==
    ASSUME NEW w \in Seq(Int), NEW a \in Nat, NEW m \in Nat
    PROVE  /\ Slice(w, a, m) \in Seq(Int) /\ Len(Slice(w, a, m)) = m
           /\ \A p \in 1..m : Slice(w, a, m)[p] = At(w, a + p)
<1>1. Slice(w, a, m) = [p \in 1..m |-> At(w, a + p)]
  BY DEF Slice, At
<1>2. \A p \in 1..m : At(w, a + p) \in Int
  BY DEF At
<1>. QED  BY <1>1, <1>2

LEMMA SlicesJoin ==
    ASSUME NEW w \in Seq(Int), NEW a \in Nat, NEW m \in Nat, NEW n \in Nat
    PROVE  Cat(Slice(w, a, m), Slice(w, a + m, n)) = Slice(w, a, m + n)
<1>. DEFINE s == Slice(w, a, m)
            t == Slice(w, a + m, n)
            u == Slice(w, a, m + n)
<1>1. s \in Seq(Int) /\ Len(s) = m /\ \A p \in 1..m : s[p] = At(w, a + p)
  BY SliceFacts
<1>2. t \in Seq(Int) /\ Len(t) = n /\ \A p \in 1..n : t[p] = At(w, (a + m) + p)
  <2>. DEFINE b == a + m
  <2>1. b \in Nat
    OBVIOUS
  <2>. HIDE DEF b
  <2>2. Slice(w, b, n) \in Seq(Int) /\ Len(Slice(w, b, n)) = n /\ \A p \in 1..n : Slice(w, b, n)[p] = At(w, b + p)
    BY <2>1, SliceFacts
  <2>. QED  BY <2>2 DEF b
<1>3. u \in Seq(Int) /\ Len(u) = m + n /\ \A p \in 1..(m + n) : u[p] = At(w, a + p)
  <2>. DEFINE b == m + n
  <2>1. b \in Nat
    OBVIOUS
  <2>. HIDE DEF b
  <2>2. Slice(w, a, b) \in Seq(Int) /\ Len(Slice(w, a, b)) = b /\ \A p \in 1..b : Slice(w, a, b)[p] = At(w, a + p)
    BY <2>1, SliceFacts
  <2>. QED  BY <2>2 DEF b
<1>. HIDE DEF s, t, u
<1>4. \A p \in 1..m : u[p] = s[p]
  BY <1>1, <1>3
<1>5. \A p \in 1..n : u[m + p] = t[p]
  <2>1. \A p \in 1..n : m + p \in 1..(m + n) /\ (a + m) + p = a + (m + p)
    OBVIOUS
  <2>. QED  BY <1>2, <1>3, <2>1
<1>6. Ends(u, s, t)
  BY <1>1, <1>2, <1>3, <1>4, <1>5 DEF Ends
<1>7. Cat(s, t) = u
  BY <1>1, <1>2, <1>3, <1>6, CatIs
<1>. QED  BY <1>7 DEF s, t, u

LEMMA SliceOfSlice ==
    ASSUME NEW w \in Seq(Int), NEW a \in Nat, NEW m \in Nat, NEW b \in Nat, NEW n \in Nat, b + n <= m
    PROVE  Slice(Slice(w, a, m), b, n) = Slice(w, a + b, n)
<1>. DEFINE s == Slice(w, a, m)
<1>1. s \in Seq(Int) /\ Len(s) = m /\ \A p \in 1..m : s[p] = At(w, a + p)
  BY SliceFacts
<1>. HIDE DEF s
<1>2. Slice(s, b, n) = [p \in 1..n |-> At(s, b + p)] /\ Slice(w, a + b, n) = [p \in 1..n |-> At(w, a + b + p)]
  BY DEF Slice, At
<1>3. ASSUME NEW p \in 1..n PROVE At(s, b + p) = At(w, a + b + p)
  <2>1. b + p \in 1..m /\ a + (b + p) = a + b + p
    OBVIOUS
  <2>. QED  BY <1>1, <2>1 DEF At
<1>4. Slice(s, b, n) = Slice(w, a + b, n)
  BY <1>2, <1>3
<1>. QED  BY <1>4 DEF s

\* The group of n words with number k, counted from one; l of them after the
\* first a.
RowAt(w, k, n) == Slice(w, (k - 1) * n, n)
Rows(w, a, l, n) == [k \in 1..l |-> RowAt(w, a + k, n)]

LEMMA RowAtType ==
    ASSUME NEW w \in Seq(Int), NEW k \in Nat \ {0}, NEW n \in Nat
    PROVE  RowAt(w, k, n) \in Seq(Int) /\ RowAt(w, k, n) \in [1..n -> Int]
<1>. DEFINE x == (k - 1) * n
<1>1. x \in Nat
  <2>1. k - 1 \in Nat
    OBVIOUS
  <2>. QED  BY <2>1
<1>. HIDE DEF x
<1>2. Slice(w, x, n) \in Seq(Int) /\ Len(Slice(w, x, n)) = n
  BY <1>1, SliceFacts
<1>3. Slice(w, x, n) \in [1..n -> Int]
  BY <1>2
<1>. QED  BY <1>2, <1>3 DEF RowAt, x

IsRows(s, w, a, l, n) ==
    /\ s \in Seq([1..n -> Int]) /\ s \in Seq(Seq(Int)) /\ Len(s) = l
    /\ \A k \in 1..l : s[k] = RowAt(w, a + k, n)

LEMMA RowsFacts ==
    ASSUME NEW w \in Seq(Int), NEW a \in Nat, NEW l \in Nat, NEW n \in Nat
    PROVE  IsRows(Rows(w, a, l, n), w, a, l, n)
<1>. DEFINE R == [1..n -> Int]
            U == Seq(Int)
            row(k) == RowAt(w, a + k, n)
            s == [k \in 1..l |-> row(k)]
<1>1. \A k \in 1..l : row(k) \in R /\ row(k) \in U
  <2>1. \A k \in 1..l : a + k \in Nat \ {0}
    OBVIOUS
  <2>. QED  BY <2>1, RowAtType
<1>2. Rows(w, a, l, n) = s
  BY DEF Rows
<1>. HIDE DEF R, U, row
<1>3. s \in Seq(R)
  BY <1>1
<1>4. s \in Seq(U)
  BY <1>1
<1>5. Len(s) = l /\ \A k \in 1..l : s[k] = row(k)
  OBVIOUS
<1>. HIDE DEF s
<1>. QED  BY <1>2, <1>3, <1>4, <1>5 DEF IsRows, R, U, row

LEMMA GroupsAreRows ==
    ASSUME NEW w \in Seq(Int), NEW a \in Nat, NEW l \in Nat, NEW n \in Nat \ {0}
    PROVE  GroupsAt(w, a, l, n) = Rows(w, a, l, n)
<1>. DEFINE x == a * n
            m == l * n
            s == Slice(w, x, m)
<1>1. x \in Nat /\ m \in Nat
  OBVIOUS
<1>. HIDE DEF x, m
<1>2. Len(s) = m
  BY <1>1, SliceFacts
<1>3. (Len(s) + n - 1) \div n = l
  <2>1. n - 1 \in Nat /\ n - 1 < n /\ l * n \in Nat
    OBVIOUS
  <2>2. (l * n + (n - 1)) \div n = l
    BY <2>1, QuotientIs
  <2>3. Len(s) + n - 1 = l * n + (n - 1)
    BY <1>2, <2>1 DEF m
  <2>. QED  BY <2>2, <2>3
<1>. HIDE DEF s
<1>4. InGroups(s, n) = [k \in 1..l |-> Slice(s, (k - 1) * n, n)]
  BY <1>3 DEF InGroups
<1>5. ASSUME NEW k \in 1..l PROVE Slice(s, (k - 1) * n, n) = RowAt(w, a + k, n)
  <2>. DEFINE b == (k - 1) * n
              c == (l - k) * n
  <2>1. b \in Nat /\ c \in Nat /\ m = b + n + c
    BY Before DEF m
  <2>2. ((a + k) - 1) * n = x + b
    <3>1. (a + k) - 1 = a + (k - 1) /\ k - 1 \in Nat
      OBVIOUS
    <3>2. (a + (k - 1)) * n = a * n + (k - 1) * n
      BY <3>1
    <3>. QED  BY <3>1, <3>2 DEF x
  <2>. HIDE DEF b, c
  <2>3. Slice(s, b, n) = Slice(w, x + b, n)
    <3>1. b + n <= m
      BY <1>1, <2>1
    <3>. QED  BY <1>1, <2>1, <3>1, SliceOfSlice DEF s
  <2>. QED  BY <2>2, <2>3 DEF b, RowAt
<1>6. InGroups(s, n) = Rows(w, a, l, n)
  BY <1>4, <1>5 DEF Rows
<1>. QED  BY <1>6 DEF GroupsAt, s, x, m

LEMMA RowsJoin ==
    ASSUME NEW w \in Seq(Int), NEW a \in Nat, NEW l \in Nat, NEW n \in Nat
    PROVE  Cat(Rows(w, 0, a, n), Rows(w, a, l, n)) = Rows(w, 0, a + l, n)
<1>. DEFINE U == Seq(Int)
            b == a + l
            s == Rows(w, 0, a, n)
            t == Rows(w, a, l, n)
            u == Rows(w, 0, b, n)
<1>0. b \in Nat /\ 0 \in Nat /\ \A p \in Nat : 0 + p = p
  OBVIOUS
<1>. HIDE DEF b
<1>1. s \in Seq(U) /\ Len(s) = a /\ \A k \in 1..a : s[k] = RowAt(w, 0 + k, n)
  <2>1. IsRows(s, w, 0, a, n)
    BY <1>0, RowsFacts
  <2>. QED  BY <2>1 DEF IsRows
<1>2. u \in Seq(U) /\ Len(u) = b /\ \A k \in 1..b : u[k] = RowAt(w, 0 + k, n)
  <2>1. IsRows(u, w, 0, b, n)
    BY <1>0, RowsFacts
  <2>. QED  BY <2>1 DEF IsRows
<1>3. t \in Seq(U) /\ Len(t) = l /\ \A k \in 1..l : t[k] = RowAt(w, a + k, n)
  <2>1. IsRows(t, w, a, l, n)
    BY RowsFacts
  <2>. QED  BY <2>1 DEF IsRows
<1>. HIDE DEF s, t, u, U
<1>4. \A p \in 1..a : u[p] = s[p]
  <2>1. \A p \in 1..a : p \in 1..b
    BY DEF b
  <2>. QED  BY <1>1, <1>2, <2>1
<1>5. \A p \in 1..l : u[a + p] = t[p]
  <2>1. \A p \in 1..l : a + p \in 1..b /\ 0 + (a + p) = a + p
    BY DEF b
  <2>. QED  BY <1>2, <1>3, <2>1
<1>6. Ends(u, s, t)
  BY <1>1, <1>2, <1>3, <1>4, <1>5 DEF Ends, b
<1>7. Cat(s, t) = u
  BY <1>1, <1>2, <1>3, <1>6, CatIs
<1>. QED  BY <1>7 DEF s, t, u, b

LEMMA RowsFlat ==
    ASSUME NEW w \in Seq(Int), NEW l \in Nat, NEW n \in Nat
    PROVE  FlattenSeq(Rows(w, 0, l, n)) = Slice(w, 0, l * n)
<1>. DEFINE s == Rows(w, 0, l, n)
<1>1. s \in Seq(Seq(Int)) /\ Len(s) = l /\ \A k \in 1..l : s[k] = RowAt(w, k, n)
  <2>1. 0 \in Nat /\ \A p \in 1..l : 0 + p = p
    OBVIOUS
  <2>2. s \in Seq(Seq(Int)) /\ Len(s) = l /\ \A k \in 1..l : s[k] = RowAt(w, 0 + k, n)
    <3>1. IsRows(s, w, 0, l, n)
      BY <2>1, RowsFacts
    <3>. QED  BY <3>1 DEF IsRows
  <2>. HIDE DEF s
  <2>. QED  BY <2>1, <2>2
<1>. HIDE DEF s
<1>2. PICK f : Joins(f, s, Int) /\ FlattenSeq(s) = f[l]
  BY <1>1, FlattenJoins
<1>3. f[0] = <<>> /\ \A i \in 1..l : f[i] = Cat(f[i - 1], s[i])
  BY <1>1, <1>2 DEF Joins
<1>. DEFINE S == {i \in 0..l : f[i] = Slice(w, 0, i * n)}
<1>4. 0 \in S
  <2>1. Slice(w, 0, 0) = <<>>
    BY DEF Slice
  <2>. QED  BY <1>3, <2>1
<1>5. ASSUME NEW i \in 1..l, i - 1 \in S PROVE i \in S
  <2>. DEFINE b == (i - 1) * n
  <2>1. b \in Nat /\ b + n = i * n /\ i \in 0..l
    <3>1. i - 1 \in Nat /\ i = (i - 1) + 1
      OBVIOUS
    <3>2. ((i - 1) + 1) * n = (i - 1) * n + n
      BY <3>1
    <3>. QED  BY <3>1, <3>2
  <2>2. f[i - 1] = Slice(w, 0, b)
    BY <1>5
  <2>3. s[i] = Slice(w, b, n)
    BY <1>1 DEF RowAt
  <2>. HIDE DEF b
  <2>4. Cat(Slice(w, 0, b), Slice(w, b, n)) = Slice(w, 0, b + n)
    <3>1. 0 \in Nat /\ 0 + b = b
      BY <2>1
    <3>2. Cat(Slice(w, 0, b), Slice(w, 0 + b, n)) = Slice(w, 0, b + n)
      BY <2>1, <3>1, SlicesJoin
    <3>. QED  BY <3>1, <3>2
  <2>5. f[i] = Slice(w, 0, i * n)
    BY <1>3, <2>1, <2>2, <2>3, <2>4
  <2>. QED  BY <2>1, <2>5
<1>. HIDE DEF S
<1>6. l \in S
  <2>1. \A i \in 0..l : i \in S
    BY <1>4, <1>5, CountingTo
  <2>. QED  BY <2>1
<1>. QED  BY <1>2, <1>6 DEF S, s

\* Tables of rows one after the other are all the rows.
LEMMA TablesJoin ==
    ASSUME NEW w \in Seq(Int), NEW n \in Nat, NEW cs \in Seq(Seq(Seq(Int))), NEW at, Offsets(at, cs),
           \A i \in 1..Len(cs) : cs[i] = Rows(w, at[i - 1], Len(cs[i]), n)
    PROVE  FlattenSeq(cs) = Rows(w, 0, at[Len(cs)], n)
<1>. DEFINE N == Len(cs)
            U == Seq(Int)
<1>0. cs \in Seq(Seq(U))
  OBVIOUS
<1>. HIDE DEF U
<1>1. PICK f : Joins(f, cs, U) /\ FlattenSeq(cs) = f[N]
  BY <1>0, FlattenJoins
<1>2. N \in Nat /\ f[0] = <<>> /\ \A i \in 1..N : f[i] = Cat(f[i - 1], cs[i])
  BY <1>1 DEF Joins
<1>3. at[0] = 0 /\ \A i \in 1..N : at[i - 1] \in Nat /\ Len(cs[i]) \in Nat /\ at[i] = at[i - 1] + Len(cs[i])
  <2>1. \A i \in 1..N : i - 1 \in 0..N /\ Len(cs[i]) \in Nat
    BY <1>0
  <2>. QED  BY <2>1 DEF Offsets
<1>3a. \A i \in 1..N : cs[i] = Rows(w, at[i - 1], Len(cs[i]), n)
  OBVIOUS
<1>. HIDE DEF N
<1>. DEFINE S == {i \in 0..N : f[i] = Rows(w, 0, at[i], n)}
<1>4. 0 \in S
  <2>1. Rows(w, 0, 0, n) = <<>>
    BY DEF Rows
  <2>. QED  BY <1>2, <1>3, <2>1
<1>5. ASSUME NEW i \in 1..N, i - 1 \in S PROVE i \in S
  <2>. DEFINE a == at[i - 1]
              l == Len(cs[i])
  <2>1. a \in Nat /\ l \in Nat /\ at[i] = a + l /\ cs[i] = Rows(w, a, l, n) /\ f[i - 1] = Rows(w, 0, a, n) /\ i \in 0..N
    BY <1>2, <1>3, <1>3a, <1>5
  <2>. HIDE DEF a, l
  <2>2. Cat(Rows(w, 0, a, n), Rows(w, a, l, n)) = Rows(w, 0, a + l, n)
    BY <2>1, RowsJoin
  <2>. QED  BY <1>2, <2>1, <2>2
<1>. HIDE DEF S
<1>6. N \in S
  <2>1. \A i \in 0..N : i \in S
    BY <1>2, <1>4, <1>5, CountingTo
  <2>. QED  BY <1>2, <2>1
<1>. QED  BY <1>1, <1>6 DEF S, N

\* The chunks that ShopChunks makes of an inventory hold its words, as many as
\* they have room for.
LEMMA ChunksFilled ==
    ASSUME NEW lay, lay.words \in Nat \ {0}, NEW d, lay.chunks \in Seq(DOMAIN d.sections),
           \A name \in DOMAIN d.sections : d.sections[name] \in Seq(Seq(Int)),
           d.shop \in Seq(Seq(Int)), d.inventory
    PROVE  /\ ShopChunks(lay, d) \in Seq(Seq(Seq(Int)))
           /\ Len(ShopChunks(lay, d)) = Len(lay.chunks)
           /\ FlattenSeq(FlattenSeq(ShopChunks(lay, d)))
                  = Refit(FlattenSeq(d.shop), Len(ChunkRecords(lay, d.sections)) * lay.words)
<1>. DEFINE n == lay.words
            N == Len(lay.chunks)
            U == Seq(Int)
            w == FlattenSeq(d.shop)
            old == [j \in 1..N |-> d.sections[lay.chunks[j]]]
            size(j) == Len(d.sections[lay.chunks[j]]) * n
            c == CHOOSE k : k = [j \in DOMAIN lay.chunks |-> IF j = 1 THEN 0 ELSE k[j - 1] + size(j - 1)]
            cs == ShopChunks(lay, d)
<1>1. /\ DOMAIN lay.chunks = 1..N /\ N \in Nat /\ n \in Nat \ {0} /\ w \in Seq(Int)
      /\ \A j \in 1..N : d.sections[lay.chunks[j]] \in Seq(U)
  BY FlattenType
<1>2. cs = [i \in 1..N |-> InGroups(Slice(w, c[i], size(i)), n)]
  <2>1. cs = [i \in DOMAIN lay.chunks |-> IF ~d.inventory THEN d.sections[lay.chunks[i]]
                                          ELSE InGroups(Slice(w, c[i], size(i)), n)]
    BY DEF ShopChunks
  <2>. HIDE DEF c, w, size, cs
  <2>. QED  BY <1>1, <2>1
<1>3. ChunkRecords(lay, d.sections) = FlattenSeq(old)
  BY <1>1 DEF ChunkRecords
<1>4. \A j \in 1..N : old[j] = d.sections[lay.chunks[j]]
  OBVIOUS
<1>. HIDE DEF N, w, c, cs, U
<1>5. old \in Seq(Seq(U)) /\ Len(old) = N /\ \A j \in 1..N : Len(old[j]) \in Nat
  BY <1>1
<1>. DEFINE len == Lengths(old)
            b == Cursors(N, len, n)
<1>6. \A j \in 1..N : len[j] = Len(old[j])
  BY <1>5 DEF Lengths
<1>. HIDE DEF len
<1>7. c = b
  <2>1. \A j \in 1..N : j # 1 => size(j - 1) = len[j - 1] * n
    BY <1>1, <1>4, <1>6
  <2>2. ASSUME NEW k
        PROVE  [j \in 1..N |-> IF j = 1 THEN 0 ELSE k[j - 1] + size(j - 1)]
                   = [j \in 1..N |-> IF j = 1 THEN 0 ELSE k[j - 1] + len[j - 1] * n]
    <3>. HIDE DEF size
    <3>. QED  BY <2>1
  <2>3. c = CHOOSE k : k = [j \in 1..N |-> IF j = 1 THEN 0 ELSE k[j - 1] + size(j - 1)]
    BY <1>1 DEF c
  <2>. HIDE DEF size
  <2>. QED  BY <2>2, <2>3 DEF Cursors
<1>8. PICK at : Offsets(at, old) /\ Len(FlattenSeq(old)) = at[N]
  <2>1. \E at : Offsets(at, old) /\ Len(FlattenSeq(old)) = at[Len(old)]
    BY <1>5, Flattened
  <2>. QED  BY <1>5, <2>1
<1>. HIDE DEF old
<1>9. /\ at \in [0..N -> Nat] /\ at[0] = 0
      /\ \A i \in 1..N : i - 1 \in 0..N /\ at[i - 1] \in Nat /\ at[i] = at[i - 1] + Len(old[i])
  <2>1. /\ at \in [0..N -> Nat] /\ at[0] = 0
        /\ \A i \in 1..N : at[i] = at[i - 1] + Len(old[i])
    BY <1>5, <1>8 DEF Offsets
  <2>2. \A i \in 1..N : i - 1 \in 0..N
    BY <1>1
  <2>. QED  BY <2>1, <2>2
<1>10. \A i \in 1..N : c[i] = at[i - 1] * n
  <2>1. Adds(at, len, N)
    BY <1>5, <1>6, <1>9 DEF Adds
  <2>2. n \in Nat
    BY <1>1
  <2>3. \A i \in 1..N : b[i] = at[i - 1] * n
    <3>. HIDE DEF n
    <3>. QED  BY <1>1, <2>1, <2>2, CursorAt
  <2>. QED  BY <1>7, <2>3
<1>11. ASSUME NEW i \in 1..N
       PROVE  cs[i] = Rows(w, at[i - 1], Len(old[i]), n) /\ cs[i] \in Seq(U) /\ Len(cs[i]) = Len(old[i])
  <2>. DEFINE a == at[i - 1]
              l == Len(old[i])
  <2>1. a \in Nat /\ l \in Nat
    BY <1>5, <1>9
  <2>2. size(i) = l * n
    BY <1>4
  <2>3. cs[i] = GroupsAt(w, a, l, n)
    BY <1>2, <1>10, <2>2 DEF GroupsAt
  <2>. HIDE DEF a, l, n
  <2>4. cs[i] = Rows(w, a, l, n)
    BY <1>1, <2>1, <2>3, GroupsAreRows
  <2>5. IsRows(cs[i], w, a, l, n)
    BY <1>1, <2>1, <2>4, RowsFacts
  <2>. QED  BY <2>4, <2>5 DEF IsRows, U, a, l
<1>12. cs \in Seq(Seq(U)) /\ Len(cs) = N
  <2>. DEFINE V == Seq(U)
              row(i) == InGroups(Slice(w, c[i], size(i)), n)
  <2>1. cs = [i \in 1..N |-> row(i)]
    BY <1>2
  <2>2. \A i \in 1..N : cs[i] \in V
    BY <1>11
  <2>. HIDE DEF V, row
  <2>3. \A i \in 1..N : row(i) \in V
    BY <2>1, <2>2
  <2>4. [i \in 1..N |-> row(i)] \in Seq(V) /\ Len([i \in 1..N |-> row(i)]) = N
    BY <1>1, <2>3
  <2>. QED  BY <2>1, <2>4 DEF V
<1>13. Offsets(at, cs) /\ \A i \in 1..Len(cs) : cs[i] = Rows(w, at[i - 1], Len(cs[i]), n)
  BY <1>9, <1>11, <1>12 DEF Offsets
<1>. HIDE DEF n
<1>14. FlattenSeq(cs) = Rows(w, 0, at[N], n)
  <2>1. n \in Nat
    BY <1>1
  <2>2. FlattenSeq(cs) = Rows(w, 0, at[Len(cs)], n)
    BY <1>1, <1>12, <1>13, <2>1, TablesJoin DEF U
  <2>. QED  BY <1>12, <2>2
<1>15. FlattenSeq(FlattenSeq(cs)) = Slice(w, 0, at[N] * n)
  <2>1. n \in Nat /\ at[N] \in Nat
    BY <1>1, <1>9
  <2>. QED  BY <1>1, <1>14, <2>1, RowsFlat
<1>16. at[N] = Len(ChunkRecords(lay, d.sections))
  BY <1>3, <1>8 DEF old
<1>. QED  BY <1>12, <1>15, <1>16 DEF cs, N, U, w, n, Refit

-----------------------------------------------------------------------------
(* What NameOf keeps of a name. *)

LEMMA Greatest ==
    ASSUME NEW N \in Nat, NEW S \in SUBSET (1..N), S # {}
    PROVE  \E m \in S : \A x \in S : x <= m
<1>. DEFINE D == {N - x : x \in S}
<1>1. D \in SUBSET Nat /\ D # {}
  <2>1. \A x \in S : N - x \in Nat
    OBVIOUS
  <2>. QED  BY <2>1
<1>2. PICK k \in D : \A y \in D : k <= y
  <2>. HIDE DEF D
  <2>. QED  BY <1>1, Smallest
<1>3. PICK m \in S : k = N - m
  OBVIOUS
<1>4. ASSUME NEW x \in S PROVE x <= m
  <2>1. k <= N - x
    BY <1>2
  <2>. QED  BY <1>3, <2>1
<1>. QED  BY <1>3, <1>4

\* The members lo to hi of a sequence.
LEMMA CutOut ==
    ASSUME NEW T, NEW s \in Seq(T), NEW lo \in 1..Len(s), NEW hi \in 1..Len(s), lo <= hi
    PROVE  /\ SubSeq(s, lo, hi) \in Seq(T) /\ Len(SubSeq(s, lo, hi)) = hi - lo + 1
           /\ \A j \in 1..(hi - lo + 1) : SubSeq(s, lo, hi)[j] = s[lo + j - 1]
<1>1. lo \in Int /\ hi \in Int /\ \A i \in lo..hi : s[i] \in T
  OBVIOUS
<1>. QED  BY <1>1

\* What NameOf keeps: some of the bytes, in the form that it leaves alone.
LEMMA NameFacts ==
    ASSUME NEW T \in SUBSET Int, NEW raw \in Seq(T)
    PROVE  NameOf(raw) \in Seq(T) /\ (NameOf(raw) = <<>> \/ Tidy(NameOf(raw)))
<1>. DEFINE N == Len(raw)
            A == {x \in T : x < 128}
            Body(k, i) == IF i = 0 THEN <<>> ELSE IF raw[i] < 128 THEN Append(k[i - 1], raw[i]) ELSE k[i - 1]
            kept == CHOOSE k : k = [i \in 0..N |-> Body(k, i)]
            step == [p \in (1..N) \X Seq(A) |-> IF raw[p[1]] < 128 THEN Append(p[2], raw[p[1]]) ELSE p[2]]
            ascii == kept[N]
            B == {i \in DOMAIN ascii : ascii[i] = Bmp}
            cut == IF Contains(ascii, Bmp) THEN SubSeq(ascii, 1, Min(B)) ELSE ascii
            inner == {i \in DOMAIN cut : cut[i] # Space}
<1>1. NameOf(raw) = IF inner = {} THEN <<>> ELSE SubSeq(cut, Min(inner), Max(inner))
  BY DEF NameOf
<1>2. N \in Nat /\ (\A i \in 1..N : raw[i] \in T) /\ A \subseteq T /\ <<>> \in Seq(A)
  OBVIOUS
<1>3. ASSUME NEW i \in 1..N, NEW s \in Seq(A)
      PROVE  (IF raw[i] < 128 THEN Append(s, raw[i]) ELSE s) \in Seq(A)
  <2>1. CASE raw[i] < 128
    <3>1. raw[i] \in A
      BY <1>2, <2>1
    <3>. HIDE DEF A
    <3>. QED  BY <2>1, <3>1
  <2>2. CASE ~(raw[i] < 128)
    BY <2>2
  <2>. QED  BY <2>1, <2>2
<1>. HIDE DEF N, A
<1>4. step \in Steps(N, Seq(A))
      /\ \A i \in 1..N, s \in Seq(A) : step[<<i, s>>] = IF raw[i] < 128 THEN Append(s, raw[i]) ELSE s
  BY <1>3 DEF Steps
<1>. HIDE DEF step
<1>5. PICK f \in [0..N -> Seq(A)] : Recurs(f, N, <<>>, step)
  BY <1>2, <1>4, Recursion
<1>6. f = [i \in 0..N |-> Body(f, i)]
  <2>1. f[0] = Body(f, 0)
    BY <1>5 DEF Recurs
  <2>2. ASSUME NEW i \in 1..N PROVE f[i] = Body(f, i)
    <3>1. i - 1 \in 0..N /\ i # 0
      BY <1>2
    <3>2. f[i - 1] \in Seq(A) /\ f[i] = step[<<i, f[i - 1]>>]
      BY <1>5, <3>1 DEF Recurs
    <3>. QED  BY <1>4, <3>1, <3>2
  <2>3. \A i \in 0..N : f[i] = Body(f, i)
    <3>1. \A i \in 0..N : i = 0 \/ i \in 1..N
      BY <1>2
    <3>. HIDE DEF Body
    <3>. QED  BY <2>1, <2>2, <3>1
  <2>4. f = [i \in 0..N |-> f[i]]
    OBVIOUS
  <2>. HIDE DEF Body
  <2>. QED  BY <2>3, <2>4
<1>7. kept = [i \in 0..N |-> Body(kept, i)]
  <2>. HIDE DEF Body
  <2>. QED  BY <1>6
<1>. HIDE DEF kept
<1>8. \A i \in 0..N : kept[i] = Body(kept, i)
  <2>. HIDE DEF Body
  <2>. QED  BY <1>7
<1>. DEFINE S == {i \in 0..N : kept[i] \in Seq(A)}
<1>9. 0 \in S
  <2>1. 0 \in 0..N /\ kept[0] = Body(kept, 0)
    BY <1>2, <1>8
  <2>. QED  BY <1>2, <2>1
<1>10. ASSUME NEW i \in 1..N, i - 1 \in S PROVE i \in S
  <2>1. i \in 0..N /\ i # 0 /\ kept[i - 1] \in Seq(A)
    BY <1>2, <1>10
  <2>2. kept[i] = IF raw[i] < 128 THEN Append(kept[i - 1], raw[i]) ELSE kept[i - 1]
    BY <1>8, <2>1
  <2>. QED  BY <1>3, <2>1, <2>2
<1>. HIDE DEF S
<1>11. ascii \in Seq(A)
  <2>1. \A i \in 0..N : i \in S
    BY <1>2, <1>9, <1>10, CountingTo
  <2>2. N \in S
    BY <1>2, <2>1
  <2>. QED  BY <2>2 DEF S
<1>. HIDE DEF ascii
<1>12. cut \in Seq(A) /\ \A i \in 1..Len(cut) : cut[i] = Bmp => i = Len(cut)
  <2>1. CASE Contains(ascii, Bmp)
    <3>1. B # {} /\ B \in SUBSET Nat /\ B \in SUBSET Int
          /\ (\A x \in B : x \in 1..Len(ascii)) /\ \A x \in 1..Len(ascii) : ascii[x] = Bmp => x \in B
      BY <1>11, <2>1 DEF Contains
    <3>. HIDE DEF B
    <3>2. PICK m \in B : \A x \in B : m <= x
      BY <3>1, Smallest
    <3>3. Min(B) = m
      BY <3>1, <3>2, MinIs
    <3>4. m \in 1..Len(ascii) /\ Len(ascii) \in Nat /\ 1 \in 1..Len(ascii) /\ 1 <= m
      BY <1>11, <3>1
    <3>5. cut = SubSeq(ascii, 1, m)
      BY <2>1, <3>3
    <3>6. cut \in Seq(A) /\ Len(cut) = m - 1 + 1 /\ \A j \in 1..(m - 1 + 1) : cut[j] = ascii[1 + j - 1]
      <4>. DEFINE sub == SubSeq(ascii, 1, m)
      <4>1. sub \in Seq(A) /\ Len(sub) = m - 1 + 1 /\ \A j \in 1..(m - 1 + 1) : sub[j] = ascii[1 + j - 1]
        BY <1>11, <3>4, CutOut
      <4>2. cut = sub
        BY <3>5
      <4>. HIDE DEF sub, cut
      <4>. QED  BY <4>1, <4>2
    <3>. HIDE DEF cut
    <3>7. Len(cut) = m /\ \A j \in 1..m : cut[j] = ascii[j]
      <4>1. m - 1 + 1 = m /\ \A j \in 1..m : 1 + j - 1 = j
        BY <3>4
      <4>. QED  BY <3>6, <4>1
    <3>8. ASSUME NEW i \in 1..m, cut[i] = Bmp PROVE i = m
      <4>1. i \in B
        BY <3>1, <3>4, <3>7, <3>8
      <4>. QED  BY <3>2, <3>4, <4>1
    <3>. QED  BY <3>6, <3>7, <3>8
  <2>2. CASE ~Contains(ascii, Bmp)
    <3>1. \A i \in 1..Len(ascii) : ascii[i] # Bmp
      BY <1>11, <2>2 DEF Contains
    <3>. QED  BY <1>11, <2>2, <3>1
  <2>. QED  BY <2>1, <2>2
<1>. HIDE DEF cut
<1>13. CASE inner = {}
  BY <1>1, <1>13
<1>14. CASE inner # {}
  <2>. DEFINE M == Len(cut)
  <2>1. inner \in SUBSET (1..M) /\ M \in Nat /\ inner \in SUBSET Nat /\ inner \in SUBSET Int
        /\ \A i \in inner : cut[i] # Space
    BY <1>12
  <2>. HIDE DEF M, inner
  <2>2. PICK lo \in inner : \A x \in inner : lo <= x
    BY <1>14, <2>1, Smallest
  <2>3. PICK hi \in inner : \A x \in inner : x <= hi
    BY <1>14, <2>1, Greatest
  <2>4. Min(inner) = lo /\ Max(inner) = hi
    BY <2>1, <2>2, <2>3, MinIs, MaxIs
  <2>. DEFINE r == SubSeq(cut, lo, hi)
              L == hi - lo + 1
  <2>5. NameOf(raw) = r
    BY <1>1, <1>14, <2>4
  <2>6. lo \in 1..M /\ hi \in 1..M /\ lo <= hi
    BY <2>1, <2>2
  <2>7. r \in Seq(A) /\ Len(r) = L /\ \A j \in 1..L : r[j] = cut[lo + j - 1]
    BY <1>12, <2>6, CutOut DEF M
  <2>. HIDE DEF r
  <2>8. L \in Nat /\ L # 0 /\ 1 \in 1..L /\ L \in 1..L /\ lo + 1 - 1 = lo /\ lo + L - 1 = hi
    BY <2>1, <2>6
  <2>9. r[1] # Space /\ r[L] # Space
    BY <2>1, <2>2, <2>3, <2>7, <2>8
  <2>. HIDE DEF L
  <2>10. ASSUME NEW j \in 1..L PROVE r[j] < 128 /\ (r[j] = Bmp => j = L)
    <3>1. r[j] \in A
      BY <2>7
    <3>2. lo + j - 1 \in 1..M
      BY <2>1, <2>6, <2>8 DEF L
    <3>3. r[j] = Bmp => lo + j - 1 = M
      BY <1>12, <2>7, <3>2 DEF M
    <3>4. lo + j - 1 = M => j = L
      BY <2>1, <2>6, <2>8 DEF L
    <3>. QED  BY <3>1, <3>3, <3>4 DEF A
  <2>11. r \in Seq(T) /\ r \in Seq(Int)
    <3>1. \A j \in 1..L : r[j] \in A
      BY <2>7
    <3>2. \A j \in 1..L : r[j] \in T
      BY <1>2, <3>1
    <3>3. r = [j \in 1..L |-> r[j]]
      BY <2>7
    <3>4. r \in Seq(T)
      BY <2>8, <3>2, <3>3
    <3>5. \A j \in 1..L : r[j] \in Int
      BY <3>2
    <3>. QED  BY <2>8, <3>3, <3>4, <3>5
  <2>12. Tidy(r)
    BY <2>7, <2>8, <2>9, <2>10, <2>11 DEF Tidy
  <2>. QED  BY <2>5, <2>11, <2>12
<1>. QED  BY <1>13, <1>14

\* A name that was kept is kept as it is.
LEMMA NameAgain ==
    ASSUME NEW raw \in Seq(Int)
    PROVE  NameOf(NameOf(raw)) = NameOf(raw) /\ NameOf(<<>>) = <<>>
<1>1. NameOf(<<>>) = <<>>
  <2>1. <<>> \in Seq({}) /\ {} \in SUBSET Int
    OBVIOUS
  <2>2. NameOf(<<>>) \in Seq({})
    BY <2>1, NameFacts
  <2>. DEFINE r == NameOf(<<>>)
  <2>. HIDE DEF r
  <2>3. r \in Seq({}) => r = <<>>
    OBVIOUS
  <2>. QED  BY <2>2, <2>3 DEF r
<1>2. NameOf(raw) = <<>> \/ Tidy(NameOf(raw))
  BY NameFacts
<1>. QED  BY <1>1, <1>2, TidyNames

-----------------------------------------------------------------------------
(* What a scan makes of bytes that were put together. *)

\* A scan that reads the bytes x comes from s to t.
ReadsBy(f, s, x, t) ==
    f[0] = s /\ f[Len(x)] = t /\ \A i \in 1..Len(x) : f[i] = ScanByte(f[i - 1], x[i])

Reads(s, x, t) == \E f : ReadsBy(f, s, x, t)

LEMMA WordsAre == ASSUME NEW T \in SUBSET Int, NEW x \in Seq(T) PROVE x \in Words
<1>1. x = [i \in 1..Len(x) |-> x[i]] /\ Len(x) \in Nat /\ \A i \in 1..Len(x) : x[i] \in Int
  OBVIOUS
<1>. QED  BY <1>1 DEF Words

LEMMA ReadsNone == ASSUME NEW s PROVE Reads(s, <<>>, s)
<1>. DEFINE f == [i \in 0..0 |-> s]
<1>1. f[0] = s /\ Len(<<>>) = 0 /\ 1..0 = {}
  OBVIOUS
<1>. HIDE DEF f
<1>2. ReadsBy(f, s, <<>>, s)
  BY <1>1 DEF ReadsBy
<1>. QED  BY <1>2 DEF Reads

LEMMA ReadsCat ==
    ASSUME NEW x \in Words, NEW y \in Words, NEW s, NEW t, NEW u, Reads(s, x, t), Reads(t, y, u)
    PROVE  Reads(s, Cat(x, y), u)
<1>1. PICK f : ReadsBy(f, s, x, t)
  BY DEF Reads
<1>2. PICK g : ReadsBy(g, t, y, u)
  BY DEF Reads
<1>. DEFINE m == Len(x)
            n == Len(y)
            c == Cat(x, y)
            h == [i \in 0..(m + n) |-> IF i <= m THEN f[i] ELSE g[i - m]]
<1>3. /\ m \in Nat /\ n \in Nat /\ Len(c) = m + n
      /\ \A i \in 1..m : c[i] = x[i]
      /\ \A i \in 1..n : c[m + i] = y[i]
  BY DEF Words, Cat
<1>4. /\ f[0] = s /\ f[m] = t /\ \A i \in 1..m : f[i] = ScanByte(f[i - 1], x[i])
      /\ g[0] = t /\ g[n] = u /\ \A i \in 1..n : g[i] = ScanByte(g[i - 1], y[i])
  BY <1>1, <1>2 DEF ReadsBy
<1>. HIDE DEF m, n, c
<1>5. (\A i \in 0..m : h[i] = f[i]) /\ \A i \in 0..n : h[m + i] = g[i]
  <2>1. ASSUME NEW i \in 0..m PROVE h[i] = f[i]
    BY <1>3
  <2>2. ASSUME NEW i \in 0..n PROVE h[m + i] = g[i]
    <3>1. m + i \in 0..(m + n) /\ (m + i) - m = i
      BY <1>3
    <3>2. CASE i = 0
      BY <1>3, <1>4, <3>1, <3>2
    <3>3. CASE i # 0
      <4>1. ~(m + i <= m)
        BY <1>3, <3>3
      <4>. QED  BY <3>1, <4>1
    <3>. QED  BY <3>2, <3>3
  <2>. QED  BY <2>1, <2>2
<1>. HIDE DEF h
<1>6. h[0] = s /\ h[m + n] = u
  <2>1. 0 \in 0..m /\ n \in 0..n
    BY <1>3
  <2>. QED  BY <1>4, <1>5, <2>1
<1>7. ASSUME NEW i \in 1..(m + n) PROVE h[i] = ScanByte(h[i - 1], c[i])
  <2>1. CASE i <= m
    <3>1. i \in 1..m /\ i \in 0..m /\ i - 1 \in 0..m
      BY <1>3, <2>1
    <3>. QED  BY <1>3, <1>4, <1>5, <3>1
  <2>2. CASE i > m
    <3>. DEFINE j == i - m
    <3>1. j \in 1..n /\ j \in 0..n /\ j - 1 \in 0..n /\ i = m + j /\ i - 1 = m + (j - 1)
      BY <1>3, <2>2
    <3>. HIDE DEF j
    <3>2. h[i] = g[j] /\ h[i - 1] = g[j - 1] /\ c[i] = y[j] /\ g[j] = ScanByte(g[j - 1], y[j])
      BY <1>3, <1>4, <1>5, <3>1
    <3>. QED  BY <3>2
  <2>. QED  BY <1>3, <2>1, <2>2
<1>8. ReadsBy(h, s, c, u)
  BY <1>3, <1>6, <1>7 DEF ReadsBy
<1>. QED  BY <1>8 DEF Reads, c

LEMMA ReadsByte == ASSUME NEW s, NEW b \in Int PROVE Reads(s, <<b>>, ScanByte(s, b)) /\ <<b>> \in Words
<1>. DEFINE f == [i \in 0..1 |-> IF i = 0 THEN s ELSE ScanByte(s, b)]
            x == <<b>>
<1>1. f[0] = s /\ f[1] = ScanByte(s, b) /\ Len(x) = 1 /\ x[1] = b /\ x \in Words
  BY DEF Words
<1>2. \A i \in 1..1 : i = 1 /\ i - 1 = 0
  OBVIOUS
<1>. HIDE DEF f, x
<1>3. ReadsBy(f, s, x, ScanByte(s, b))
  BY <1>1, <1>2 DEF ReadsBy
<1>. QED  BY <1>1, <1>3 DEF Reads, x

LEMMA ReadsMore ==
    ASSUME NEW x \in Words, NEW b \in Int, NEW s, NEW t, Reads(s, x, t)
    PROVE  Reads(s, Append(x, b), ScanByte(t, b))
<1>1. Reads(t, <<b>>, ScanByte(t, b)) /\ <<b>> \in Words
  BY ReadsByte
<1>2. Reads(s, Cat(x, <<b>>), ScanByte(t, b))
  BY <1>1, ReadsCat
<1>3. Cat(x, <<b>>) = Append(x, b)
  BY DEF Cat, Words
<1>. QED  BY <1>2, <1>3

\* What DecodeNames makes of bytes that a scan has read.
LEMMA ReadsAll ==
    ASSUME NEW x \in Words, NEW t, Reads(NoScan, x, t)
    PROVE  t \in Scans /\ DecodeNames(x) = IF t.raw = <<>> THEN t ELSE Named(t)
<1>. DEFINE N == Len(x)
<1>0. x \in Seq(Int) /\ N \in Nat
  BY DEF Words
<1>1. PICK scan : /\ ScansOf(scan, x) /\ \A i \in 0..N : scan[i] \in Scans
                  /\ DecodeNames(x) = IF scan[N].raw = <<>> THEN scan[N] ELSE Named(scan[N])
  BY <1>0, Scanning
<1>2. PICK f : ReadsBy(f, NoScan, x, t)
  BY DEF Reads
<1>3. /\ f[0] = NoScan /\ f[N] = t /\ \A i \in 1..N : f[i] = ScanByte(f[i - 1], x[i])
      /\ scan[0] = NoScan /\ \A i \in 1..N : scan[i] = ScanByte(scan[i - 1], x[i])
  BY <1>1, <1>2 DEF ReadsBy, ScansOf
<1>. HIDE DEF N
<1>. DEFINE S == {i \in 0..N : f[i] = scan[i]}
<1>4. 0 \in S
  BY <1>0, <1>3
<1>5. ASSUME NEW i \in 1..N, i - 1 \in S PROVE i \in S
  <2>1. i \in 0..N /\ f[i - 1] = scan[i - 1]
    BY <1>0, <1>5
  <2>. QED  BY <1>3, <2>1
<1>. HIDE DEF S
<1>6. t = scan[N]
  <2>1. \A i \in 0..N : i \in S
    BY <1>0, <1>4, <1>5, CountingTo
  <2>2. N \in S
    BY <1>0, <2>1
  <2>. QED  BY <1>3, <2>2 DEF S
<1>. QED  BY <1>0, <1>1, <1>6

\* Padding is read into the padding.
LEMMA ReadsControl ==
    ASSUME NEW x \in Seq(Control), NEW s \in Scans, s.raw = <<>>
    PROVE  \E t \in Scans : Reads(s, x, t) /\ t.raw = <<>> /\ t.entries = s.entries
<1>. DEFINE N == Len(x)
            S == {i \in 0..N : \E t \in Scans : Reads(s, SubSeq(x, 1, i), t) /\ t.raw = <<>> /\ t.entries = s.entries}
<1>0. N \in Nat /\ x = SubSeq(x, 1, N) /\ SubSeq(x, 1, 0) = <<>> /\ Control \subseteq Int /\ \A i \in 1..N : x[i] \in Control
  BY DEF Control
<1>1. 0 \in S
  <2>1. Reads(s, SubSeq(x, 1, 0), s)
    BY <1>0, ReadsNone
  <2>2. 0 \in 0..N
    BY <1>0
  <2>. HIDE DEF N
  <2>. QED  BY <2>1, <2>2
<1>2. ASSUME NEW i \in 1..N, i - 1 \in S PROVE i \in S
  <2>1. PICK t \in Scans : Reads(s, SubSeq(x, 1, i - 1), t) /\ t.raw = <<>> /\ t.entries = s.entries
    BY <1>2
  <2>. DEFINE b == x[i]
              u == [t EXCEPT !.padding = Append(t.padding, b)]
              y == SubSeq(x, 1, i - 1)
  <2>2. /\ y \in Seq(Control) /\ SubSeq(x, 1, i) = Append(y, b) /\ b \in Int /\ b < 32 /\ i \in 0..N
    BY <1>0, NextPrefix DEF Control
  <2>3. y \in Words
    <3>. HIDE DEF y
    <3>. QED  BY <1>0, <2>2, WordsAre
  <2>. HIDE DEF y, b, N
  <2>4. ScanByte(t, b) = u
    BY <2>1, <2>2 DEF ScanByte
  <2>5. u \in Scans
    BY <2>2, <2>4, ScanByteType
  <2>6. u.raw = <<>> /\ u.entries = s.entries
    BY <2>1 DEF Scans
  <2>7. Reads(s, SubSeq(x, 1, i), u)
    <3>1. Reads(s, y, t)
      BY <2>1 DEF y
    <3>. HIDE DEF u
    <3>2. Reads(s, Append(y, b), ScanByte(t, b))
      BY <2>2, <2>3, <3>1, ReadsMore
    <3>. QED  BY <2>2, <2>4, <3>2
  <2>8. \E v \in Scans : Reads(s, SubSeq(x, 1, i), v) /\ v.raw = <<>> /\ v.entries = s.entries
    <3>. HIDE DEF u
    <3>. QED  BY <2>5, <2>6, <2>7
  <2>. QED  BY <2>2, <2>8
<1>. HIDE DEF S
<1>3. N \in S
  <2>1. \A i \in 0..N : i \in S
    <3>. HIDE DEF N
    <3>. QED  BY <1>0, <1>1, <1>2, CountingTo
  <2>. QED  BY <1>0, <2>1
<1>. QED  BY <1>0, <1>3 DEF S

\* A name is read as it stands.
LEMMA ReadsPrintable ==
    ASSUME NEW x \in Seq(Printable), NEW s \in Scans, s.raw = <<>>
    PROVE  \E t \in Scans : Reads(s, x, t) /\ t.raw = x /\ t.entries = s.entries
<1>. DEFINE N == Len(x)
            S == {i \in 0..N : \E t \in Scans : Reads(s, SubSeq(x, 1, i), t) /\ t.raw = SubSeq(x, 1, i) /\ t.entries = s.entries}
<1>0. N \in Nat /\ x = SubSeq(x, 1, N) /\ SubSeq(x, 1, 0) = <<>> /\ Printable \subseteq Int /\ \A i \in 1..N : x[i] \in Printable
  BY DEF Printable
<1>1. 0 \in S
  <2>1. Reads(s, SubSeq(x, 1, 0), s) /\ s.raw = SubSeq(x, 1, 0)
    BY <1>0, ReadsNone
  <2>2. 0 \in 0..N
    BY <1>0
  <2>. HIDE DEF N
  <2>. QED  BY <2>1, <2>2
<1>2. ASSUME NEW i \in 1..N, i - 1 \in S PROVE i \in S
  <2>. DEFINE b == x[i]
              y == SubSeq(x, 1, i - 1)
  <2>1. PICK t \in Scans : Reads(s, y, t) /\ t.raw = y /\ t.entries = s.entries
    BY <1>2
  <2>. DEFINE u == [t EXCEPT !.raw = Append(t.raw, b)]
  <2>2. /\ y \in Seq(Printable) /\ SubSeq(x, 1, i) = Append(y, b) /\ b \in Int /\ b >= 32 /\ i \in 0..N
    BY <1>0, NextPrefix DEF Printable
  <2>3. y \in Words
    <3>. HIDE DEF y
    <3>. QED  BY <1>0, <2>2, WordsAre
  <2>. HIDE DEF y, b, N
  <2>4. ScanByte(t, b) = u
    BY <2>1, <2>2 DEF ScanByte
  <2>5. u \in Scans
    BY <2>2, <2>4, ScanByteType
  <2>6. u.raw = Append(y, b) /\ u.entries = s.entries
    BY <2>1 DEF Scans
  <2>7. Reads(s, SubSeq(x, 1, i), u)
    <3>. HIDE DEF u
    <3>1. Reads(s, Append(y, b), ScanByte(t, b))
      BY <2>1, <2>2, <2>3, ReadsMore
    <3>. QED  BY <2>2, <2>4, <3>1
  <2>8. \E v \in Scans : Reads(s, SubSeq(x, 1, i), v) /\ v.raw = SubSeq(x, 1, i) /\ v.entries = s.entries
    <3>. HIDE DEF u
    <3>. QED  BY <2>2, <2>5, <2>6, <2>7
  <2>. QED  BY <2>2, <2>8
<1>. HIDE DEF S
<1>3. N \in S
  <2>1. \A i \in 0..N : i \in S
    <3>. HIDE DEF N
    <3>. QED  BY <1>0, <1>1, <1>2, CountingTo
  <2>. QED  BY <1>0, <2>1
<1>. QED  BY <1>0, <1>3 DEF S

-----------------------------------------------------------------------------
(* The names that are read are the names that were written. *)

\* The names that a list of entries shows.
Showing(es) == [i \in DOMAIN es |-> Shown(es[i].filename)]
Found(es) == FlattenSeq(Showing(es))

LEMMA ShownType == ASSUME NEW w \in Words PROVE Shown(w) \in Seq(Words) /\ Shown(NameOf(w)) = Shown(w)
<1>1. w \in Seq(Int) /\ Int \in SUBSET Int
  BY DEF Words
<1>2. NameOf(w) \in Words
  BY <1>1, NameFacts DEF Words
<1>3. NameOf(NameOf(w)) = NameOf(w)
  BY <1>1, NameAgain
<1>4. <<>> \in Seq(Words) /\ <<NameOf(w)>> \in Seq(Words)
  BY <1>2
<1>. QED  BY <1>3, <1>4 DEF Shown

LEMMA ShowingType ==
    ASSUME NEW T, NEW es \in Seq(T), \A i \in 1..Len(es) : es[i].filename \in Words
    PROVE  /\ Showing(es) \in Seq(Seq(Words)) /\ Len(Showing(es)) = Len(es) /\ Len(es) \in Nat
           /\ \A i \in 1..Len(es) : Showing(es)[i] = Shown(es[i].filename)
           /\ Found(es) \in Seq(Words)
<1>1. Showing(es) = [i \in 1..Len(es) |-> Shown(es[i].filename)] /\ Len(es) \in Nat
  BY DEF Showing
<1>2. \A i \in 1..Len(es) : Shown(es[i].filename) \in Seq(Words)
  BY ShownType
<1>. DEFINE n == Len(es)
            U == Seq(Words)
<1>. HIDE DEF n, U
<1>3. [i \in 1..n |-> Shown(es[i].filename)] \in Seq(U) /\ Len([i \in 1..n |-> Shown(es[i].filename)]) = n
  BY <1>1, <1>2 DEF n, U
<1>4. Showing(es) \in Seq(Seq(Words)) /\ Len(Showing(es)) = Len(es)
  BY <1>1, <1>3 DEF n, U
<1>5. Found(es) \in Seq(Words)
  BY <1>4, FlattenType DEF Found
<1>. QED  BY <1>1, <1>4, <1>5

LEMMA FoundMore ==
    ASSUME NEW T, NEW es \in Seq(T), NEW e \in T, \A i \in 1..Len(es) : es[i].filename \in Words, e.filename \in Words
    PROVE  Found(Append(es, e)) = Cat(Found(es), Shown(e.filename))
<1>. DEFINE n == Len(es)
            a == Append(es, e)
            s == Showing(es)
            x == Shown(e.filename)
<1>1. /\ a \in Seq(T) /\ Len(a) = n + 1 /\ DOMAIN a = 1..(n + 1) /\ n \in Nat
      /\ a[n + 1] = e /\ \A i \in 1..n : a[i] = es[i]
  OBVIOUS
<1>2. s \in Seq(Seq(Words)) /\ Len(s) = n /\ \A i \in 1..n : s[i] = Shown(es[i].filename)
  BY ShowingType
<1>3. x \in Seq(Words)
  BY ShownType
<1>. HIDE DEF a, s, n, x
<1>4. Append(s, x) = [i \in 1..(n + 1) |-> IF i = n + 1 THEN x ELSE s[i]]
  <2>. DEFINE U == Seq(Words)
  <2>. HIDE DEF U
  <2>1. s \in Seq(U) /\ x \in U
    BY <1>2, <1>3 DEF U
  <2>2. Append(s, x) = [i \in 1..(Len(s) + 1) |-> IF i = Len(s) + 1 THEN x ELSE s[i]]
    BY <2>1, AppendIs
  <2>. QED  BY <1>2, <2>2
<1>5. Showing(a) = [i \in 1..(n + 1) |-> Shown(a[i].filename)]
  BY <1>1 DEF Showing
<1>6. ASSUME NEW i \in 1..(n + 1) PROVE Shown(a[i].filename) = IF i = n + 1 THEN x ELSE s[i]
  <2>1. CASE i = n + 1
    BY <1>1, <2>1 DEF x
  <2>2. CASE i # n + 1
    <3>1. i \in 1..n
      BY <1>1, <2>2
    <3>. QED  BY <1>1, <1>2, <2>2, <3>1
  <2>. QED  BY <2>1, <2>2
<1>7. Showing(a) = Append(s, x)
  BY <1>4, <1>5, <1>6
<1>8. FlattenSeq(Append(s, x)) = Cat(FlattenSeq(s), x)
  BY <1>2, <1>3, FlattenAppend
<1>. QED  BY <1>7, <1>8 DEF Found, a, s, x

\* The entries a scan has read.
LEMMA ScanEntries ==
    ASSUME NEW s \in Scans
    PROVE  /\ s.entries \in Seq(Pieces) /\ \A i \in 1..Len(s.entries) : s.entries[i].filename \in Words
           /\ Found(s.entries) \in Seq(Words)
<1>1. s.entries \in Seq(Pieces)
  BY DEF Scans
<1>2. ASSUME NEW i \in 1..Len(s.entries) PROVE s.entries[i].filename \in Words
  <2>1. s.entries[i] \in Pieces
    <3>. HIDE DEF Pieces
    <3>. QED  BY <1>1
  <2>2. PICK raw \in Seq(Int) : s.entries[i].filename = NameOf(raw)
    BY <2>1 DEF Pieces
  <2>3. Int \in SUBSET Int
    OBVIOUS
  <2>. QED  BY <2>2, <2>3, NameFacts DEF Words
<1>3. Found(s.entries) \in Seq(Words)
  BY <1>1, <1>2, ShowingType
<1>. QED  BY <1>1, <1>2, <1>3

\* The entries of a well-formed descriptor.
NameEntries == [padding : Seq(Control), filename : Seq(Printable)]

LEMMA EntryWords ==
    ASSUME NEW e \in NameEntries
    PROVE  /\ e.padding \in Seq(Control) /\ e.filename \in Seq(Printable)
           /\ e.padding \in Words /\ e.filename \in Words /\ Spelled(e) \in Words
           /\ Spelled(e) = Append(Cat(e.padding, e.filename), 0)
<1>1. e.padding \in Seq(Control) /\ e.filename \in Seq(Printable) /\ Control \in SUBSET Int /\ Printable \in SUBSET Int
  BY DEF NameEntries, Control, Printable
<1>2. e.padding \in Words /\ e.filename \in Words
  BY <1>1, WordsAre
<1>3. Spelled(e) = Append(Cat(e.padding, e.filename), 0) /\ Spelled(e) \in Words
  <2>. DEFINE p == e.padding
              w == e.filename
  <2>1. p \in Seq(Int) /\ w \in Seq(Int) /\ Spelled(e) = p \o w \o <<0>>
    BY <1>2 DEF Words, Spelled
  <2>. HIDE DEF p, w
  <2>2. p \o w \o <<0>> = Append(p \o w, 0) /\ p \o w \o <<0>> \in Seq(Int)
    BY <2>1
  <2>. QED  BY <2>1, <2>2 DEF Cat, Words, p, w
<1>. QED  BY <1>1, <1>2, <1>3

\* An entry that is written is read as one that shows the same name.
LEMMA EntryRead ==
    ASSUME NEW e \in NameEntries, NEW s \in Scans, s.raw = <<>>
    PROVE  \E t \in Scans : Reads(s, Spelled(e), t) /\ t.raw = <<>>
                            /\ Found(t.entries) = Cat(Found(s.entries), Shown(e.filename))
<1>. DEFINE p == e.padding
            w == e.filename
<1>1. p \in Seq(Control) /\ w \in Seq(Printable) /\ p \in Words /\ w \in Words /\ Spelled(e) = Append(Cat(p, w), 0)
  BY EntryWords
<1>. HIDE DEF p, w
<1>2. PICK t1 \in Scans : Reads(s, p, t1) /\ t1.raw = <<>> /\ t1.entries = s.entries
  BY <1>1, ReadsControl
<1>3. PICK t2 \in Scans : Reads(t1, w, t2) /\ t2.raw = w /\ t2.entries = t1.entries
  BY <1>1, <1>2, ReadsPrintable
<1>. DEFINE t == ScanByte(t2, 0)
<1>4. t \in Scans
  BY ScanByteType
<1>5. Reads(s, Spelled(e), t)
  <2>1. Reads(s, Cat(p, w), t2) /\ Cat(p, w) \in Words
    BY <1>1, <1>2, <1>3, ReadsCat, CatWords
  <2>. QED  BY <1>1, <2>1, ReadsMore
<1>6. CASE w = <<>>
  <2>1. t = [t2 EXCEPT !.padding = Append(t2.padding, 0)]
    BY <1>3, <1>6 DEF ScanByte
  <2>2. t.raw = <<>> /\ t.entries = s.entries
    BY <1>2, <1>3, <1>6, <2>1 DEF Scans
  <2>3. Shown(w) = <<>>
    <3>1. NameOf(<<>>) = <<>>
      BY <1>1, NameAgain DEF Words
    <3>. QED  BY <1>6, <3>1 DEF Shown
  <2>4. Cat(Found(s.entries), <<>>) = Found(s.entries)
    <3>1. Found(s.entries) \in Seq(Words)
      BY ScanEntries
    <3>. QED  BY <3>1 DEF Cat
  <2>5. Found(t.entries) = Cat(Found(s.entries), Shown(w))
    BY <2>2, <2>3, <2>4
  <2>. HIDE DEF t
  <2>. QED  BY <1>4, <1>5, <2>2, <2>5 DEF w
<1>7. CASE w # <<>>
  <2>. DEFINE c == [padding |-> t2.padding, filename |-> NameOf(w)]
  <2>1. t = Named(t2)
    BY <1>3, <1>7 DEF ScanByte
  <2>2. t.raw = <<>> /\ t.entries = Append(s.entries, c)
    BY <1>2, <1>3, <2>1 DEF Scans, Named
  <2>3. c \in Pieces /\ c.filename = NameOf(w) /\ c.filename \in Words
    <3>1. t2.padding \in Seq(Int) /\ w \in Seq(Int) /\ Int \in SUBSET Int
      BY <1>1 DEF Scans, Words
    <3>2. NameOf(w) \in Seq(Int)
      BY <3>1, NameFacts
    <3>. QED  BY <3>1, <3>2 DEF Pieces, Words
  <2>. HIDE DEF c, t
  <2>4. Found(Append(s.entries, c)) = Cat(Found(s.entries), Shown(c.filename))
    <3>. HIDE DEF Pieces
    <3>. QED  BY <2>3, ScanEntries, FoundMore
  <2>5. Shown(NameOf(w)) = Shown(w)
    BY <1>1, ShownType
  <2>6. Found(t.entries) = Cat(Found(s.entries), Shown(w))
    BY <2>2, <2>3, <2>4, <2>5
  <2>. QED  BY <1>4, <1>5, <2>2, <2>6 DEF w
<1>. QED  BY <1>6, <1>7

LEMMA EntriesFacts ==
    ASSUME NEW es \in Seq(NameEntries)
    PROVE  /\ Rendered(es) \in Seq(Words) /\ Len(Rendered(es)) = Len(es) /\ Len(es) \in Nat
           /\ \A i \in 1..Len(es) : es[i] \in NameEntries /\ Rendered(es)[i] = Spelled(es[i])
           /\ Showing(es) \in Seq(Seq(Words)) /\ Len(Showing(es)) = Len(es)
           /\ \A i \in 1..Len(es) : Showing(es)[i] = Shown(es[i].filename)
<1>. DEFINE n == Len(es)
            E == NameEntries
<1>. HIDE DEF E
<1>1. n \in Nat /\ DOMAIN es = 1..n /\ \A i \in 1..n : es[i] \in E
  BY DEF E
<1>2. \A i \in 1..n : es[i].filename \in Words /\ Spelled(es[i]) \in Words
  BY <1>1, EntryWords DEF E
<1>3. Rendered(es) = [i \in 1..n |-> Spelled(es[i])]
  BY <1>1 DEF Rendered
<1>4. /\ Showing(es) \in Seq(Seq(Words)) /\ Len(Showing(es)) = Len(es)
      /\ \A i \in 1..Len(es) : Showing(es)[i] = Shown(es[i].filename)
  BY <1>2, ShowingType
<1>. HIDE DEF n
<1>5. Rendered(es) \in Seq(Words) /\ Len(Rendered(es)) = n
  BY <1>1, <1>2, <1>3
<1>. QED  BY <1>1, <1>3, <1>4, <1>5 DEF n, E

\* Entries that are written are read as entries that show the same names.
LEMMA EntriesRead ==
    ASSUME NEW es \in Seq(NameEntries)
    PROVE  /\ FlattenSeq(Rendered(es)) \in Words
           /\ \E t \in Scans : Reads(NoScan, FlattenSeq(Rendered(es)), t) /\ t.raw = <<>> /\ Found(t.entries) = Found(es)
<1>. DEFINE N == Len(es)
            r == Rendered(es)
            h == Showing(es)
<1>1. /\ r \in Seq(Words) /\ Len(r) = N /\ N \in Nat /\ h \in Seq(Seq(Words)) /\ Len(h) = N
      /\ \A i \in 1..N : es[i] \in NameEntries /\ r[i] = Spelled(es[i]) /\ h[i] = Shown(es[i].filename)
  BY EntriesFacts
<1>. HIDE DEF N, r, h
<1>2. r \in Seq(Seq(Int))
  BY <1>1 DEF Words
<1>3. PICK f : Joins(f, r, Int) /\ FlattenSeq(r) = f[N]
  BY <1>1, <1>2, FlattenJoins
<1>4. PICK g : Joins(g, h, Words) /\ FlattenSeq(h) = g[N]
  BY <1>1, FlattenJoins
<1>5. /\ f[0] = <<>> /\ (\A i \in 0..N : f[i] \in Words) /\ \A i \in 1..N : f[i] = Cat(f[i - 1], r[i])
      /\ g[0] = <<>> /\ \A i \in 1..N : g[i] = Cat(g[i - 1], h[i])
  BY <1>1, <1>3, <1>4 DEF Joins, Words
<1>. DEFINE Told(i, t) == Reads(NoScan, f[i], t) /\ t.raw = <<>> /\ Found(t.entries) = g[i]
            S == {i \in 0..N : \E t \in Scans : Told(i, t)}
<1>6. 0 \in S
  <2>1. NoScan \in Scans /\ NoScan.raw = <<>> /\ NoScan.entries = <<>>
    BY DEF NoScan, Scans
  <2>2. Showing(<<>>) = <<>>
    BY DEF Showing
  <2>3. Found(<<>>) = <<>>
    BY <2>2, FlattenNone DEF Found
  <2>4. Told(0, NoScan)
    BY <1>5, <2>1, <2>3, ReadsNone
  <2>5. 0 \in 0..N
    BY <1>1
  <2>. HIDE DEF Told
  <2>. QED  BY <2>1, <2>4, <2>5
<1>7. ASSUME NEW i \in 1..N, i - 1 \in S PROVE i \in S
  <2>1. PICK s \in Scans : Told(i - 1, s)
    BY <1>7
  <2>2. i - 1 \in 0..N /\ i \in 0..N
    BY <1>1
  <2>3. es[i] \in NameEntries /\ Spelled(es[i]) = r[i] /\ r[i] \in Words /\ f[i - 1] \in Words
    BY <1>1, <1>5, <2>2, EntryWords
  <2>4. s.raw = <<>>
    BY <2>1
  <2>5. PICK t \in Scans : Reads(s, Spelled(es[i]), t) /\ t.raw = <<>>
                           /\ Found(t.entries) = Cat(Found(s.entries), Shown(es[i].filename))
    BY <2>3, <2>4, EntryRead
  <2>6. Reads(NoScan, f[i], t)
    <3>1. Reads(NoScan, f[i - 1], s) /\ Reads(s, r[i], t)
      BY <2>1, <2>3, <2>5
    <3>2. Reads(NoScan, Cat(f[i - 1], r[i]), t)
      BY <2>3, <3>1, ReadsCat
    <3>. QED  BY <1>5, <3>2
  <2>7. Found(t.entries) = g[i]
    BY <1>1, <1>5, <2>1, <2>5
  <2>8. Told(i, t)
    BY <2>5, <2>6, <2>7
  <2>. HIDE DEF Told
  <2>. QED  BY <2>2, <2>8
<1>. HIDE DEF S
<1>8. N \in S
  <2>1. \A i \in 0..N : i \in S
    BY <1>1, <1>6, <1>7, CountingTo
  <2>2. N \in 0..N
    BY <1>1
  <2>. QED  BY <2>1, <2>2
<1>9. f[N] \in Words
  BY <1>1, <1>5
<1>. QED  BY <1>3, <1>4, <1>8, <1>9 DEF S, Found, r, h

LEMMA ZerosFacts == ASSUME NEW n \in Nat PROVE Zeros(n) \in Seq(Control) /\ Len(Zeros(n)) = n /\ \A i \in 1..n : Zeros(n)[i] = 0
<1>1. 0 \in Control
  BY DEF Control
<1>. QED  BY <1>1 DEF Zeros

LEMMA RefitPads ==
    ASSUME NEW w \in Words, NEW n \in Nat, Len(w) <= n
    PROVE  n - Len(w) \in Nat /\ Refit(w, n) = Cat(w, Zeros(n - Len(w)))
<1>. DEFINE l == Len(w)
            m == n - l
            z == Zeros(m)
            u == Refit(w, n)
<1>1. w \in Seq(Int) /\ l \in Nat /\ m \in Nat /\ l + m = n
  BY DEF Words
<1>. HIDE DEF m
<1>2. z \in Seq(Control) /\ Len(z) = m /\ \A i \in 1..m : z[i] = 0
  BY <1>1, ZerosFacts
<1>3. z \in Seq(Int)
  <2>1. Control \in SUBSET Int
    BY DEF Control
  <2>. HIDE DEF z
  <2>. QED  BY <1>2, <2>1, WordsAre DEF Words
<1>4. u = [i \in 1..n |-> IF 0 + i <= l THEN w[0 + i] ELSE 0]
  BY DEF Refit, Slice
<1>. HIDE DEF z, u, l
<1>5. u \in Seq(Int) /\ Len(u) = n
  <2>1. \A i \in 1..n : (IF 0 + i <= l THEN w[0 + i] ELSE 0) \in Int
    BY <1>1 DEF l
  <2>. QED  BY <1>4, <2>1
<1>6. \A i \in 1..n : u[i] = IF i <= l THEN w[i] ELSE 0
  BY <1>4
<1>7. \A i \in 1..l : u[i] = w[i]
  BY <1>1, <1>6
<1>8. ASSUME NEW i \in 1..m PROVE u[l + i] = z[i]
  <2>1. l + i \in 1..n /\ ~(l + i <= l)
    BY <1>1
  <2>. QED  BY <1>2, <1>6, <2>1
<1>9. Ends(u, w, z)
  BY <1>1, <1>2, <1>5, <1>7, <1>8 DEF Ends, l
<1>10. Cat(w, z) = u
  BY <1>1, <1>3, <1>5, <1>9, CatIs
<1>. QED  BY <1>1, <1>10 DEF m, z, u, l

\* The names that are encoded without an error are the names that are read.
LEMMA NamesAgain ==
    ASSUME NEW es \in Seq(NameEntries), NEW trailing \in Seq(Control), NEW size \in Nat,
           EncodeNames(es, trailing, size) # Refused
    PROVE  /\ EncodeNames(es, trailing, size) \in Seq(Int) /\ Len(EncodeNames(es, trailing, size)) = size
           /\ Found(DecodeNames(EncodeNames(es, trailing, size)).entries) = Found(es)
<1>. DEFINE F == FlattenSeq(Rendered(es))
            w == F \o trailing
            z == Zeros(size - Len(w))
            bytes == EncodeNames(es, trailing, size)
<1>1. Rendered(es) = [i \in DOMAIN es |-> es[i].padding \o es[i].filename \o <<0>>]
  BY DEF Rendered, Spelled
<1>2. ~(Len(w) > size) /\ bytes = Refit(w, size)
  <2>. DEFINE bad == \E i \in DOMAIN es : \E b \in Range(es[i].filename) : b >= 128
  <2>1. bytes = IF Len(w) > size \/ bad THEN Refused ELSE Refit(w, size)
    BY <1>1 DEF EncodeNames
  <2>. HIDE DEF bad, w
  <2>. QED  BY <2>1
<1>3. F \in Words
  BY EntriesRead
<1>4. PICK t \in Scans : Reads(NoScan, F, t) /\ t.raw = <<>> /\ Found(t.entries) = Found(es)
  BY EntriesRead
<1>5. trailing \in Words
  <2>1. Control \in SUBSET Int
    BY DEF Control
  <2>. QED  BY <2>1, WordsAre
<1>6. PICK t1 \in Scans : Reads(t, trailing, t1) /\ t1.raw = <<>> /\ t1.entries = t.entries
  BY <1>4, ReadsControl
<1>. HIDE DEF F
<1>7. w = Cat(F, trailing) /\ w \in Words /\ Len(w) \in Nat
  BY <1>3, <1>5 DEF Cat, Words
<1>8. Reads(NoScan, w, t1)
  BY <1>3, <1>4, <1>5, <1>6, <1>7, ReadsCat
<1>. HIDE DEF w, bytes
<1>9. size - Len(w) \in Nat /\ bytes = Cat(w, z)
  BY <1>2, <1>7, RefitPads
<1>10. z \in Seq(Control) /\ Len(z) = size - Len(w)
  BY <1>9, ZerosFacts
<1>. HIDE DEF z
<1>11. z \in Words
  <2>1. Control \in SUBSET Int
    BY DEF Control
  <2>. QED  BY <1>10, <2>1, WordsAre
<1>12. PICK t2 \in Scans : Reads(t1, z, t2) /\ t2.raw = <<>> /\ t2.entries = t1.entries
  BY <1>6, <1>10, ReadsControl
<1>13. Reads(NoScan, bytes, t2) /\ bytes \in Words
  <2>1. Reads(NoScan, Cat(w, z), t2)
    BY <1>7, <1>8, <1>11, <1>12, ReadsCat
  <2>2. Cat(w, z) \in Words
    BY <1>7, <1>11, CatWords
  <2>. QED  BY <1>9, <2>1, <2>2
<1>14. DecodeNames(bytes) = t2
  BY <1>12, <1>13, ReadsAll
<1>15. Len(bytes) = size
  <2>1. w \in Seq(Int) /\ z \in Seq(Int)
    BY <1>7, <1>11 DEF Words
  <2>2. Len(Cat(w, z)) = Len(w) + Len(z)
    BY <2>1 DEF Cat
  <2>. QED  BY <1>7, <1>9, <1>10, <2>2
<1>. QED  BY <1>4, <1>6, <1>12, <1>13, <1>14, <1>15 DEF bytes, Words

-----------------------------------------------------------------------------
(* A descriptor that is encoded and decoded again. *)

\* A descriptor that is encoded without an error and keeps no blocks of its own.
Encodes(d) == WellFormed(d) /\ d.remainder = {} /\ EncodeLvd(Layout, d) # Refused

\* What its names are encoded to.
Bytes(d) == EncodeNames(d.names, d.trailing, Width(Layout, Layout.names) * Layout.words)

LEMMA ApartFacts ==
    /\ \A a, b \in DOMAIN Layout.sections :
         a # b => Layout.sections[a].last < Layout.sections[b].first \/ Layout.sections[b].last < Layout.sections[a].first
    /\ \A i, j \in DOMAIN Layout.chunks : Layout.chunks[i] = Layout.chunks[j] => i = j
    /\ \A i \in DOMAIN Layout.chunks : Layout.chunks[i] # Layout.names
    /\ Refused \notin Seq(Record(Layout))
BY LayoutAssumption

\* What a descriptor that encodes makes.
LEMMA EncodesFacts ==
    ASSUME NEW d, Encodes(d)
    PROVE  LET blob == EncodeLvd(Layout, d)
           IN  /\ d.total \in Nat /\ IsLevel(blob) /\ Len(blob.blocks) = d.total /\ blob.tail = d.tail
               /\ \A i \in 1..d.total : blob.blocks[i] = Block(d, i - 1)
               /\ \A name \in DOMAIN Layout.sections :
                    /\ Encoded(Layout, d)[name] \in [1..Width(Layout, name) -> Record(Layout)]
                    /\ Layout.sections[name].last < d.total
<1>. DEFINE blob == EncodeLvd(Layout, d)
            n == d.total
            made == [i \in 1..n |-> Block(d, i - 1)]
<1>1. n \in Nat
  BY DEF EncodeLvd, Encodes
<1>2. /\ \A name \in DOMAIN Layout.sections : /\ Encoded(Layout, d)[name] \in [1..Width(Layout, name) -> Record(Layout)]
                                             /\ ~(Layout.sections[name].last >= n)
      /\ blob = [blocks |-> made, tail |-> d.tail]
  BY <1>1, EncodedIs DEF Encodes
<1>3. IsLevel(blob)
  BY EncodedIsLevel DEF Encodes
<1>. HIDE DEF blob, n
<1>4. blob.blocks = made /\ blob.tail = d.tail
  BY <1>2
<1>5. Len(blob.blocks) = n
  <2>1. blob.blocks \in Seq(Record(Layout)) /\ DOMAIN blob.blocks = 1..n
    BY <1>3, <1>4 DEF IsLevel
  <2>. HIDE DEF made
  <2>2. Len(blob.blocks) \in Nat /\ DOMAIN blob.blocks = 1..Len(blob.blocks)
    BY <2>1
  <2>3. 1..n = 1..Len(blob.blocks)
    BY <2>1, <2>2
  <2>. QED  BY <1>1, <2>2, <2>3
<1>6. \A name \in DOMAIN Layout.sections : Layout.sections[name].last < n
  <2>1. \A name \in DOMAIN Layout.sections : Layout.sections[name].last \in Nat
    BY LayoutFacts
  <2>. QED  BY <1>1, <1>2, <2>1
<1>. QED  BY <1>1, <1>2, <1>3, <1>4, <1>5, <1>6 DEF blob, n

LEMMA BlockOf ==
    ASSUME NEW d, d.remainder = {}, NEW name \in DOMAIN Layout.sections,
           NEW b \in Layout.sections[name].first..Layout.sections[name].last
    PROVE  Block(d, b) = Encoded(Layout, d)[name][b - Layout.sections[name].first + 1]
<1>1. Extra(d, b) = {}
  BY DEF Extra
<1>2. name \in Holder(b)
  BY DEF Holder
<1>3. ASSUME NEW a \in Holder(b) PROVE a = name
  <2>1. a \in DOMAIN Layout.sections /\ b \in Layout.sections[a].first..Layout.sections[a].last
    BY <1>3 DEF Holder
  <2>2. /\ Layout.sections[a].first \in Nat /\ Layout.sections[a].last \in Nat
        /\ Layout.sections[name].first \in Nat /\ Layout.sections[name].last \in Nat
    BY <2>1, LayoutFacts
  <2>3. ~(Layout.sections[a].last < Layout.sections[name].first) /\ ~(Layout.sections[name].last < Layout.sections[a].first)
    BY <2>1, <2>2
  <2>. QED  BY <2>1, <2>3, ApartFacts
<1>4. (CHOOSE x \in Holder(b) : TRUE) = name
  <2>1. (CHOOSE x \in Holder(b) : TRUE) \in Holder(b)
    BY <1>2
  <2>. QED  BY <1>3, <2>1
<1>. QED  BY <1>1, <1>2, <1>4 DEF Block

\* Each section of the level is what was encoded for it, and there is nothing else.
LEMMA SectionsWritten ==
    ASSUME NEW d, Encodes(d)
    PROVE  /\ \A name \in DOMAIN Layout.sections :
                Section(Layout, EncodeLvd(Layout, d).blocks, name) = Encoded(Layout, d)[name]
           /\ Remainder(Layout, EncodeLvd(Layout, d).blocks) = {}
<1>. DEFINE blob == EncodeLvd(Layout, d)
            blocks == blob.blocks
            n == d.total
<1>1. /\ n \in Nat /\ blocks \in Seq(Record(Layout)) /\ Len(blocks) = n
      /\ \A i \in 1..n : blocks[i] = Block(d, i - 1)
      /\ \A name \in DOMAIN Layout.sections :
           /\ Encoded(Layout, d)[name] \in [1..Width(Layout, name) -> Record(Layout)]
           /\ Layout.sections[name].last < n
  BY EncodesFacts DEF IsLevel
<1>2. d.remainder = {}
  BY DEF Encodes
<1>. HIDE DEF blob, blocks, n
<1>3. ASSUME NEW name \in DOMAIN Layout.sections PROVE Section(Layout, blocks, name) = Encoded(Layout, d)[name]
  <2>. DEFINE first == Layout.sections[name].first
              last == Layout.sections[name].last
              w == Width(Layout, name)
              s == Section(Layout, blocks, name)
              e == Encoded(Layout, d)[name]
              R == Record(Layout)
  <2>1. first \in Nat /\ last \in Nat /\ first <= last /\ w = last - first + 1 /\ w \in Nat /\ last < n
    BY <1>1, LayoutFacts
  <2>2. s \in Seq(R) /\ Len(s) = w /\ \A b \in first..last : s[b - first + 1] = blocks[b + 1]
    BY <1>1, SectionFacts
  <2>3. e \in [1..w -> R]
    BY <1>1
  <2>4. \A b \in first..last : Block(d, b) = e[b - first + 1]
    BY <1>2, BlockOf
  <2>. HIDE DEF first, last, w, s, e, R
  <2>5. ASSUME NEW k \in 1..w PROVE s[k] = e[k]
    <3>. DEFINE b == first + k - 1
    <3>1. b \in first..last /\ b - first + 1 = k /\ b + 1 \in 1..n /\ (b + 1) - 1 = b
      BY <1>1, <2>1
    <3>. HIDE DEF b
    <3>2. s[k] = blocks[b + 1] /\ blocks[b + 1] = Block(d, b) /\ Block(d, b) = e[k]
      BY <1>1, <2>2, <2>4, <3>1
    <3>. QED  BY <3>2
  <2>6. s = [k \in 1..w |-> s[k]]
    BY <2>2
  <2>. QED  BY <2>3, <2>5, <2>6 DEF s, e
<1>4. Remainder(Layout, blocks) = {}
  <2>1. SUFFICES ASSUME NEW j \in DOMAIN blocks, j - 1 \notin Covered(Layout) PROVE blocks[j] = Zeros(Layout.words)
    BY DEF Remainder
  <2>2. j \in 1..n
    BY <1>1
  <2>3. Holder(j - 1) = {}
    <3>1. SUFFICES ASSUME NEW name \in Holder(j - 1) PROVE FALSE
      OBVIOUS
    <3>2. name \in DOMAIN Layout.sections /\ j - 1 \in Layout.sections[name].first..Layout.sections[name].last
      BY DEF Holder
    <3>3. Layout.sections[name] \in Range(Layout.sections)
      BY <3>2 DEF Range
    <3>. QED  BY <2>1, <3>2, <3>3 DEF Covered
  <2>4. Extra(d, j - 1) = {}
    BY <1>2 DEF Extra
  <2>5. Block(d, j - 1) = Zeros(Layout.words)
    BY <2>3, <2>4 DEF Block
  <2>. QED  BY <1>1, <2>2, <2>5
<1>. QED  BY <1>3, <1>4 DEF blocks, blob

\* What is encoded for each section.
LEMMA EncodedParts ==
    ASSUME NEW d, Encodes(d)
    PROVE  /\ Bytes(d) # Refused /\ Encoded(Layout, d)[Layout.names] = InGroups(Bytes(d), Layout.words)
           /\ \A i \in DOMAIN Layout.chunks : Encoded(Layout, d)[Layout.chunks[i]] = ShopChunks(Layout, d)[i]
           /\ \A name \in DOMAIN Layout.sections :
                name # Layout.names /\ ~Contains(Layout.chunks, name) => Encoded(Layout, d)[name] = d.sections[name]
<1>. DEFINE B == Bytes(d)
            n == Layout.words
            chunk(name) == ShopChunks(Layout, d)[Min({i \in DOMAIN Layout.chunks : Layout.chunks[i] = name})]
            E == Encoded(Layout, d)
<1>1. E = [name \in DOMAIN Layout.sections |->
              CASE name = Layout.names       -> IF B = Refused THEN Refused ELSE InGroups(B, n)
                [] Contains(Layout.chunks, name) -> chunk(name)
                [] OTHER                     -> d.sections[name]]
  BY DEF Encoded, Bytes
<1>2. E[Layout.names] \in Seq(Record(Layout))
  <2>1. E[Layout.names] \in [1..Width(Layout, Layout.names) -> Record(Layout)] /\ Width(Layout, Layout.names) \in Nat
    BY EncodesFacts, LayoutFacts
  <2>. DEFINE w == Width(Layout, Layout.names)
              R == Record(Layout)
  <2>. HIDE DEF w, R, E
  <2>. QED  BY <2>1 DEF w, R
<1>3. DOMAIN Layout.chunks = 1..Len(Layout.chunks) /\ Len(Layout.chunks) \in Nat
      /\ \A i \in DOMAIN Layout.chunks : Layout.chunks[i] \in DOMAIN Layout.sections
  BY LayoutFacts
<1>4. ~Contains(Layout.chunks, Layout.names)
  BY <1>3, ApartFacts DEF Contains
<1>. HIDE DEF B, n, E
<1>5. ASSUME NEW i \in DOMAIN Layout.chunks PROVE chunk(Layout.chunks[i]) = ShopChunks(Layout, d)[i]
  <2>. DEFINE I == {j \in DOMAIN Layout.chunks : Layout.chunks[j] = Layout.chunks[i]}
  <2>1. I = {i} /\ i \in Int
    BY <1>3, ApartFacts
  <2>2. Min({i}) = i
    <3>1. {i} \in SUBSET Int /\ i \in {i} /\ \A x \in {i} : i <= x
      BY <2>1
    <3>. QED  BY <3>1, MinIs
  <2>3. Min(I) = i
    BY <2>1, <2>2
  <2>. HIDE DEF I
  <2>4. chunk(Layout.chunks[i]) = ShopChunks(Layout, d)[Min(I)]
    BY DEF I
  <2>. QED  BY <2>3, <2>4
<1>. HIDE DEF chunk
<1>6. E[Layout.names] = IF B = Refused THEN Refused ELSE InGroups(B, n)
  BY <1>1, <1>4, LayoutFacts
<1>7. B # Refused /\ E[Layout.names] = InGroups(B, n)
  BY <1>2, <1>6, ApartFacts
<1>8. ASSUME NEW i \in DOMAIN Layout.chunks PROVE E[Layout.chunks[i]] = ShopChunks(Layout, d)[i]
  <2>1. Layout.chunks[i] \in DOMAIN Layout.sections /\ Layout.chunks[i] # Layout.names /\ Contains(Layout.chunks, Layout.chunks[i])
    <3>1. \E j \in 1..Len(Layout.chunks) : Layout.chunks[j] = Layout.chunks[i]
      BY <1>3
    <3>. QED  BY <1>3, <3>1, ApartFacts DEF Contains
  <2>2. E[Layout.chunks[i]] = chunk(Layout.chunks[i])
    BY <1>1, <2>1
  <2>. QED  BY <1>5, <2>2
<1>9. \A name \in DOMAIN Layout.sections :
          name # Layout.names /\ ~Contains(Layout.chunks, name) => E[name] = d.sections[name]
  BY <1>1
<1>. QED  BY <1>7, <1>8, <1>9 DEF E, B, n

LEMMA GroupsFlat ==
    ASSUME NEW w \in Seq(Int), NEW l \in Nat, NEW n \in Nat \ {0}, Len(w) = l * n
    PROVE  FlattenSeq(InGroups(w, n)) = w
<1>. DEFINE m == l * n
            z == 0 * n
<1>1. m \in Nat /\ z = 0 /\ 0 \in Nat /\ Len(w) = m
  OBVIOUS
<1>2. Slice(w, 0, m) = w
  <2>. HIDE DEF m
  <2>. QED  BY <1>1, RefitAll DEF Refit
<1>3. GroupsAt(w, 0, l, n) = Rows(w, 0, l, n)
  BY <1>1, GroupsAreRows
<1>4. FlattenSeq(Rows(w, 0, l, n)) = Slice(w, 0, m)
  BY RowsFlat
<1>5. GroupsAt(w, 0, l, n) = InGroups(Slice(w, z, m), n)
  BY DEF GroupsAt
<1>. HIDE DEF z, m
<1>. QED  BY <1>1, <1>2, <1>3, <1>4, <1>5

\* Decoding what was encoded gives the names that were encoded.
LEMMA NamesWritten ==
    ASSUME NEW d, Encodes(d)
    PROVE  Found(DecodeNames(FlattenSeq(Encoded(Layout, d)[Layout.names])).entries) = Found(d.names)
<1>. DEFINE W == Width(Layout, Layout.names)
            n == Layout.words
            size == W * n
            b == Bytes(d)
<1>1. W \in Nat /\ n \in Nat \ {0}
  BY LayoutFacts
<1>2. size \in Nat
  <2>. HIDE DEF W, n
  <2>. QED  BY <1>1
<1>3. d.names \in Seq(NameEntries) /\ d.trailing \in Seq(Control)
  BY DEF Encodes, WellFormed, NameEntries
<1>4. b = EncodeNames(d.names, d.trailing, size)
  BY DEF Bytes
<1>. HIDE DEF size
<1>5. EncodeNames(d.names, d.trailing, size) # Refused
  BY <1>4, EncodedParts
<1>6. b \in Seq(Int) /\ Len(b) = size /\ Found(DecodeNames(b).entries) = Found(d.names)
  BY <1>2, <1>3, <1>4, <1>5, NamesAgain
<1>7. Encoded(Layout, d)[Layout.names] = InGroups(b, n)
  BY EncodedParts
<1>. HIDE DEF b, W, n
<1>8. FlattenSeq(InGroups(b, n)) = b
  <2>1. Len(b) = W * n
    BY <1>6 DEF size
  <2>. QED  BY <1>1, <1>6, <2>1, GroupsFlat
<1>. QED  BY <1>6, <1>7, <1>8

\* The records of the shop chunks that are encoded are those of the descriptor,
\* or hold the words of its inventory.
LEMMA ShopWritten ==
    ASSUME NEW d, Encodes(d), NEW sections, \A name \in DOMAIN Layout.sections : sections[name] = Encoded(Layout, d)[name]
    PROVE  ShopEntries(Layout, sections) =
               IF d.inventory
               THEN InGroups(Refit(FlattenSeq(d.shop), Len(ChunkRecords(Layout, d.sections)) * Layout.words), Layout.entryWords)
               ELSE ShopEntries(Layout, d.sections)
<1>. DEFINE N == Len(Layout.chunks)
            new == [i \in DOMAIN Layout.chunks |-> sections[Layout.chunks[i]]]
            cs == ShopChunks(Layout, d)
<1>1. DOMAIN Layout.chunks = 1..N /\ N \in Nat /\ \A i \in 1..N : Layout.chunks[i] \in DOMAIN Layout.sections
  BY LayoutFacts
<1>2. \A i \in 1..N : sections[Layout.chunks[i]] = cs[i]
  BY <1>1, EncodedParts
<1>3. new = [i \in 1..N |-> cs[i]]
  BY <1>1, <1>2
<1>4. ShopEntries(Layout, sections) = InGroups(FlattenSeq(FlattenSeq(new)), Layout.entryWords)
  BY DEF ShopEntries, ChunkRecords
<1>5. CASE d.inventory
  <2>1. Layout.chunks \in Seq(DOMAIN d.sections) /\ \A name \in DOMAIN d.sections : d.sections[name] \in Seq(Seq(Int))
    BY LayoutFacts DEF Encodes, WellFormed
  <2>2. d.shop \in Seq(Seq(Int))
    BY DEF Encodes, WellFormed
  <2>3. /\ cs \in Seq(Seq(Seq(Int))) /\ Len(cs) = N
        /\ FlattenSeq(FlattenSeq(cs)) = Refit(FlattenSeq(d.shop), Len(ChunkRecords(Layout, d.sections)) * Layout.words)
    BY <1>5, <2>1, <2>2, LayoutFacts, ChunksFilled
  <2>. DEFINE U == Seq(Seq(Int))
  <2>. HIDE DEF new, cs, N, U
  <2>4. cs \in Seq(U)
    BY <2>3 DEF U
  <2>5. cs = [i \in 1..N |-> cs[i]]
    BY <2>3, <2>4
  <2>. QED  BY <1>3, <1>4, <1>5, <2>3, <2>5
<1>6. CASE ~d.inventory
  <2>1. cs = [i \in DOMAIN Layout.chunks |-> d.sections[Layout.chunks[i]]]
    BY <1>6 DEF ShopChunks
  <2>2. new = [i \in DOMAIN Layout.chunks |-> d.sections[Layout.chunks[i]]]
    BY <1>1, <1>3, <2>1
  <2>3. ShopEntries(Layout, d.sections) = InGroups(FlattenSeq(FlattenSeq(new)), Layout.entryWords)
    BY <2>2 DEF ShopEntries, ChunkRecords
  <2>. QED  BY <1>4, <1>6, <2>3
<1>. QED  BY <1>5, <1>6

\* Decoding the level that a descriptor is encoded into gives a descriptor that
\* means the same.
THEOREM EncodedMeansSame ==
    ASSUME NEW d, WellFormed(d), Lints(d), EncodeLvd(Layout, d) # Refused
    PROVE  SameMeaning(ParseLvd(Layout, EncodeLvd(Layout, d)), Settled(d))
<1>. DEFINE blob == EncodeLvd(Layout, d)
            p == ParseLvd(Layout, blob)
            q == Settled(d)
            room == Len(ChunkRecords(Layout, d.sections)) * Layout.words
            shop == IF d.inventory THEN InGroups(Refit(FlattenSeq(d.shop), room), Layout.entryWords)
                    ELSE ShopEntries(Layout, d.sections)
<1>1. Encodes(d) /\ d.remainder = {}
  BY DEF Encodes, Lints
<1>2. /\ p.total = Len(blob.blocks) /\ p.tail = blob.tail /\ p.remainder = Remainder(Layout, blob.blocks)
      /\ \A name \in DOMAIN Layout.sections : p.sections[name] = Section(Layout, blob.blocks, name)
      /\ p.shop = ShopEntries(Layout, p.sections)
      /\ p.names = DecodeNames(FlattenSeq(p.sections[Layout.names])).entries
  BY ParsedFacts
<1>3. q.total = d.total /\ q.tail = d.tail /\ q.remainder = d.remainder /\ q.sections = d.sections
      /\ q.names = d.names /\ q.shop = shop
  <2>1. q = [d EXCEPT !.shop = shop]
    BY DEF Settled
  <2>2. DOMAIN d = {"total", "sections", "inventory", "shop", "names", "trailing", "remainder", "tail"}
    BY DEF WellFormed
  <2>. HIDE DEF shop, q
  <2>. QED  BY <2>1, <2>2
<1>4. p.total = d.total /\ p.tail = d.tail
  BY <1>1, <1>2, EncodesFacts
<1>5. p.remainder = {}
  BY <1>1, <1>2, SectionsWritten
<1>6. \A name \in DOMAIN Layout.sections : p.sections[name] = Encoded(Layout, d)[name]
  BY <1>1, <1>2, SectionsWritten
<1>7. p.shop = shop
  <2>. HIDE DEF p
  <2>1. ShopEntries(Layout, p.sections) = shop
    BY <1>1, <1>6, ShopWritten
  <2>. QED  BY <1>2, <2>1
<1>8. Filenames(p) = Filenames(q)
  <2>1. Found(p.names) = Found(d.names)
    <3>1. p.names = DecodeNames(FlattenSeq(Encoded(Layout, d)[Layout.names])).entries
      BY <1>2, <1>6, LayoutFacts
    <3>. QED  BY <1>1, <3>1, NamesWritten
  <2>2. Filenames(p) = Found(p.names) /\ Filenames(q) = Found(q.names)
    BY DEF Filenames, Found, Showing
  <2>. QED  BY <1>3, <2>1, <2>2
<1>9. \A name \in DOMAIN Layout.sections :
          Contains(Layout.chunks, name) \/ name = Layout.names \/ p.sections[name] = q.sections[name]
  BY <1>1, <1>3, <1>6, EncodedParts
<1>. HIDE DEF p, q, shop
<1>10. SameMeaning(p, q)
  BY <1>1, <1>3, <1>4, <1>5, <1>7, <1>8, <1>9 DEF SameMeaning
<1>. QED  BY <1>10 DEF p, q

-----------------------------------------------------------------------------
(* The form of a decoded descriptor. *)

\* A scan that keeps control bytes and names apart.
Apart(s) == s.entries \in Seq(NameEntries) /\ s.padding \in Seq(Control) /\ s.raw \in Seq(Printable)

LEMMA NamedApart ==
    ASSUME NEW s \in Scans, Apart(s)
    PROVE  Apart(Named(s)) /\ \A x : x \in Seq(Control) => Apart([Named(s) EXCEPT !.padding = x])
<1>. DEFINE e == [padding |-> s.padding, filename |-> NameOf(s.raw)]
<1>1. NameOf(s.raw) \in Seq(Printable)
  <2>1. Printable \in SUBSET Int
    BY DEF Printable
  <2>2. s.raw \in Seq(Printable)
    BY DEF Apart
  <2>. QED  BY <2>1, <2>2, NameFacts
<1>2. e \in NameEntries
  BY <1>1 DEF NameEntries, Apart
<1>. HIDE DEF e
<1>3. Append(s.entries, e) \in Seq(NameEntries) /\ <<>> \in Seq(Control) /\ <<>> \in Seq(Printable)
  <2>1. s.entries \in Seq(NameEntries)
    BY DEF Apart
  <2>. QED  BY <1>2, <2>1
<1>4. Named(s) = [s EXCEPT !.entries = Append(s.entries, e), !.padding = <<>>, !.raw = <<>>]
  BY DEF Named, e
<1>5. /\ Named(s).entries = Append(s.entries, e) /\ Named(s).padding = <<>> /\ Named(s).raw = <<>>
      /\ \A x : LET n == [Named(s) EXCEPT !.padding = x]
                IN  n.entries = Append(s.entries, e) /\ n.padding = x /\ n.raw = <<>>
  BY <1>4 DEF Scans
<1>. QED  BY <1>3, <1>5 DEF Apart

LEMMA ScanByteApart ==
    ASSUME NEW s \in Scans, Apart(s), NEW byte \in Int
    PROVE  Apart(ScanByte(s, byte))
<1>1. s.entries \in Seq(NameEntries) /\ s.padding \in Seq(Control) /\ s.raw \in Seq(Printable)
  BY DEF Apart
<1>2. CASE byte >= 32
  <2>. DEFINE t == [s EXCEPT !.raw = Append(s.raw, byte)]
  <2>1. byte \in Printable /\ ~(byte < 32)
    BY <1>2 DEF Printable
  <2>2. Append(s.raw, byte) \in Seq(Printable)
    BY <1>1, <2>1
  <2>3. t.entries = s.entries /\ t.padding = s.padding /\ t.raw = Append(s.raw, byte)
    BY DEF Scans
  <2>4. ScanByte(s, byte) = t
    BY <1>2, <2>1 DEF ScanByte
  <2>. HIDE DEF t
  <2>. QED  BY <1>1, <2>2, <2>3, <2>4 DEF Apart
<1>3. CASE byte < 32 /\ s.raw = <<>>
  <2>. DEFINE t == [s EXCEPT !.padding = Append(s.padding, byte)]
  <2>1. byte \in Control /\ ~(byte >= 32)
    BY <1>3 DEF Control
  <2>2. Append(s.padding, byte) \in Seq(Control)
    BY <1>1, <2>1
  <2>3. t.entries = s.entries /\ t.padding = Append(s.padding, byte) /\ t.raw = s.raw
    BY DEF Scans
  <2>4. ScanByte(s, byte) = t
    BY <1>3, <2>1 DEF ScanByte
  <2>. HIDE DEF t
  <2>. QED  BY <1>1, <2>2, <2>3, <2>4 DEF Apart
<1>4. CASE byte < 32 /\ s.raw # <<>>
  <2>1. byte \in Control /\ ~(byte >= 32)
    BY <1>4 DEF Control
  <2>2. <<byte>> \in Seq(Control)
    BY <2>1
  <2>3. ScanByte(s, byte) \in {Named(s), [Named(s) EXCEPT !.padding = <<byte>>]}
    BY <1>4, <2>1 DEF ScanByte
  <2>. QED  BY <2>2, <2>3, NamedApart
<1>. QED  BY <1>2, <1>3, <1>4

LEMMA DecodedApart ==
    ASSUME NEW bytes \in Seq(Int)
    PROVE  DecodeNames(bytes).entries \in Seq(NameEntries) /\ DecodeNames(bytes).padding \in Seq(Control)
<1>. DEFINE N == Len(bytes)
<1>1. PICK scan : /\ ScansOf(scan, bytes) /\ \A i \in 0..N : scan[i] \in Scans
                  /\ DecodeNames(bytes) = IF scan[N].raw = <<>> THEN scan[N] ELSE Named(scan[N])
  BY Scanning
<1>2. N \in Nat /\ \A i \in 1..N : bytes[i] \in Int
  OBVIOUS
<1>3. scan[0] = NoScan /\ \A i \in 1..N : scan[i] = ScanByte(scan[i - 1], bytes[i])
  BY <1>1 DEF ScansOf
<1>. HIDE DEF N
<1>. DEFINE S == {i \in 0..N : Apart(scan[i])}
<1>4. 0 \in S
  <2>1. Apart(NoScan)
    BY DEF NoScan, Apart
  <2>. QED  BY <1>2, <1>3, <2>1
<1>5. ASSUME NEW i \in 1..N, i - 1 \in S PROVE i \in S
  <2>1. i - 1 \in 0..N /\ i \in 0..N /\ Apart(scan[i - 1])
    BY <1>2, <1>5
  <2>. QED  BY <1>1, <1>2, <1>3, <2>1, ScanByteApart
<1>. HIDE DEF S
<1>6. Apart(scan[N]) /\ scan[N] \in Scans
  <2>1. \A i \in 0..N : i \in S
    BY <1>2, <1>4, <1>5, CountingTo
  <2>. QED  BY <1>1, <1>2, <2>1 DEF S
<1>7. Apart(DecodeNames(bytes))
  BY <1>1, <1>6, NamedApart
<1>. QED  BY <1>7 DEF Apart

LEMMA RecordsAreWords ==
    ASSUME NEW n \in Nat, NEW s \in Seq([1..n -> Int])
    PROVE  s \in Seq(Seq(Int))
<1>1. \A x \in [1..n -> Int] : x \in Seq(Int)
  OBVIOUS
<1>. DEFINE A == [1..n -> Int]
            U == Seq(Int)
<1>. HIDE DEF A, U
<1>2. s \in Seq(A) /\ \A x \in A : x \in U
  BY <1>1 DEF A, U
<1>3. s \in Seq(U)
  <2>1. s = [i \in 1..Len(s) |-> s[i]] /\ Len(s) \in Nat /\ \A i \in 1..Len(s) : s[i] \in U
    BY <1>2
  <2>. QED  BY <2>1
<1>. QED  BY <1>3 DEF U

\* What the decoder makes of a level is well formed.
THEOREM DecodedIsWellFormed ==
    ASSUME NEW blob, IsLevel(blob)
    PROVE  WellFormed(ParseLvd(Layout, blob))
<1>. DEFINE d == ParseLvd(Layout, blob)
            sections == d.sections
<1>1. DOMAIN d = {"total", "sections", "inventory", "shop", "names", "trailing", "remainder", "tail"}
  BY DEF ParseLvd
<1>2. /\ DOMAIN sections = DOMAIN Layout.sections
      /\ \A name \in DOMAIN Layout.sections : sections[name] = Section(Layout, blob.blocks, name)
      /\ d.shop = ShopEntries(Layout, sections)
  BY ParsedFacts
<1>. DEFINE names == DecodeNames(FlattenSeq(sections[Layout.names]))
<1>3. d.names = names.entries /\ d.trailing = names.padding
  BY ParsedFacts
<1>. HIDE DEF d
<1>4. \A name \in DOMAIN Layout.sections : sections[name] \in Seq(Seq(Int))
  <2>1. ASSUME NEW name \in DOMAIN Layout.sections PROVE sections[name] \in Seq(Seq(Int))
    <3>1. Section(Layout, blob.blocks, name) \in Seq(Record(Layout))
      BY SectionFacts DEF IsLevel
    <3>2. Section(Layout, blob.blocks, name) \in Seq(Seq(Int))
      BY <3>1, LayoutFacts, RecordsAreWords DEF Record
    <3>. QED  BY <1>2, <3>2
  <2>. QED  BY <2>1
<1>. HIDE DEF sections
<1>5. d.shop \in Seq(Seq(Int))
  <2>. DEFINE U == Seq(Seq(Int))
              old == [i \in DOMAIN Layout.chunks |-> sections[Layout.chunks[i]]]
              records == ChunkRecords(Layout, sections)
              n == Layout.entryWords
  <2>1. DOMAIN Layout.chunks = 1..Len(Layout.chunks) /\ Len(Layout.chunks) \in Nat
        /\ \A i \in 1..Len(Layout.chunks) : sections[Layout.chunks[i]] \in U
    BY <1>4, LayoutFacts
  <2>2. old \in Seq(U)
    <3>. HIDE DEF U
    <3>. QED  BY <2>1
  <2>3. records = FlattenSeq(old)
    BY DEF ChunkRecords
  <2>. HIDE DEF records, old
  <2>4. records \in Seq(Seq(Int))
    BY <2>2, <2>3, FlattenType
  <2>5. FlattenSeq(records) \in Seq(Int)
    BY <2>4, FlattenType
  <2>6. n \in Nat \ {0} /\ n \in Nat
    BY LayoutFacts
  <2>7. InGroups(FlattenSeq(records), n) \in Seq([1..n -> Int])
    BY <2>5, <2>6, Padded
  <2>8. InGroups(FlattenSeq(records), n) \in Seq(Seq(Int))
    BY <2>6, <2>7, RecordsAreWords
  <2>. QED  BY <1>2, <2>8 DEF ShopEntries, records
<1>6. d.names \in Seq(NameEntries) /\ d.trailing \in Seq(Control)
  <2>1. sections[Layout.names] \in Seq(Seq(Int))
    BY <1>4, LayoutFacts
  <2>2. FlattenSeq(sections[Layout.names]) \in Seq(Int)
    BY <2>1, FlattenType
  <2>. QED  BY <1>3, <2>2, DecodedApart
<1>7. WellFormed(d)
  BY <1>1, <1>2, <1>4, <1>5, <1>6 DEF WellFormed, NameEntries, sections
<1>. QED  BY <1>7 DEF d

-----------------------------------------------------------------------------
(* The inductive invariant of the descriptors: each is torn or in the form that *)
(* encoding keeps the meaning of, and so is what was linted.                    *)

\* An author keeps a descriptor in form.
ChangesKeepForm == \A d : WellFormed(d) => \A e \in Changes(d) : WellFormed(e)

Usable(x) == x = Torn \/ WellFormed(x)

DraftsUsable == \A s \in Stems : descriptors[s] = Missing \/ Usable(descriptors[s])

\* A run finds a descriptor that is there, and lints what it has read of it.
FormOk(r, d) ==
    r.command = "edit" => (r.step = "editor" => Usable(d)) /\ (r.step = "write" => WellFormed(r.lint))

FormInv == DraftsUsable /\ \A u \in Users : FormOk(tools[u], descriptors[Stem(u)])

LEMMA FormGoesOn ==
    ASSUME DraftInv, FormInv, NEW u \in Users, NEW r, DOMAIN r = Fields, Becomes(u, r),
           \A s \in Stems : descriptors'[s] = descriptors[s] \/ Usable(descriptors'[s]),
           FormOk(r, descriptors'[StemOf[r.entry]])
    PROVE  FormInv'
<1>1. tools'[u] = r /\ \A v \in Users : v # u => tools'[v] = tools[v]
  BY BecomesFacts DEF DraftInv
<1>2. DraftsUsable'
  BY DEF FormInv, DraftsUsable, Usable, WellFormed
<1>3. ASSUME NEW v \in Users, v # u PROVE FormOk(tools'[v], descriptors'[StemOf[tools'[v].entry]])
  <2>1. tools'[v] = tools[v] /\ FormOk(tools[v], descriptors[Stem(v)])
    BY <1>1, <1>3 DEF FormInv
  <2>2. Editing(v) => Stem(v) \in Stems
    BY EditingFacts
  <2>3. Editing(v) => descriptors'[Stem(v)] = descriptors[Stem(v)] \/ Usable(descriptors'[Stem(v)])
    BY <2>2
  <2>. QED  BY <2>1, <2>3 DEF FormOk, Editing, Stem
<1>4. \A v \in Users : FormOk(tools'[v], descriptors'[StemOf[tools'[v].entry]])
  BY <1>1, <1>3
<1>. QED  BY <1>2, <1>4 DEF FormInv, FormOk, Usable, WellFormed, Stem

LEMMA SaveChangeForm ==
    ASSUME ChangesKeepForm, DraftInv, FormInv, NEW s \in Stems, SaveChange(s)
    PROVE  FormInv'
<1>1. PICK d \in Changes(descriptors[s]) : descriptors' = [descriptors EXCEPT ![s] = d]
  BY DEF SaveChange
<1>2. WellFormed(descriptors[s])
  BY DEF FormInv, DraftsUsable, Usable, SaveChange
<1>3. WellFormed(d)
  BY <1>1, <1>2 DEF ChangesKeepForm
<1>4. DOMAIN descriptors = Stems
  BY DEF DraftInv
<1>5. \A t \in Stems : descriptors'[t] = descriptors[t] \/ Usable(descriptors'[t])
  BY <1>1, <1>3, <1>4 DEF Usable
<1>6. \A u \in Users : /\ tools'[u].command = tools[u].command /\ tools'[u].entry = tools[u].entry
                       /\ tools'[u].step = tools[u].step /\ tools'[u].lint = tools[u].lint
  BY DEF SaveChange, DraftInv, RunsTyped, Fields
<1>7. DraftsUsable'
  BY <1>5 DEF FormInv, DraftsUsable, Usable, WellFormed
<1>8. ASSUME NEW v \in Users PROVE FormOk(tools'[v], descriptors'[StemOf[tools'[v].entry]])
  <2>1. FormOk(tools[v], descriptors[Stem(v)])
    BY DEF FormInv
  <2>2. Editing(v) => Stem(v) \in Stems
    BY EditingFacts
  <2>3. Editing(v) => descriptors'[Stem(v)] = descriptors[Stem(v)] \/ Usable(descriptors'[Stem(v)])
    BY <1>5, <2>2
  <2>. QED  BY <1>6, <2>1, <2>3 DEF FormOk, Editing, Stem
<1>. QED  BY <1>7, <1>8 DEF FormInv, FormOk, Usable, WellFormed, Stem

LEMMA LaunchForm == ASSUME DraftInv, FormInv, NEW u \in Users, Launch(u) PROVE FormInv'
<1>1. PICK r : Becomes(u, r) /\ DOMAIN r = Fields /\ r.step = "begin"
  <2>1. CASE \E e \in Entries, refresh \in BOOLEAN :
                Becomes(u, [Quiet EXCEPT !.command = "edit", !.entry = e, !.refresh = refresh])
    <3>1. PICK e \in Entries, refresh \in BOOLEAN :
                Becomes(u, [Quiet EXCEPT !.command = "edit", !.entry = e, !.refresh = refresh])
      BY <2>1
    <3>. DEFINE r == [Quiet EXCEPT !.command = "edit", !.entry = e, !.refresh = refresh]
    <3>2. DOMAIN r = Fields /\ r.step = "begin"
      BY QuietFacts DEF Fields
    <3>. QED  BY <3>1, <3>2
  <2>2. CASE \E e \in Entries, backup \in BOOLEAN :
                Becomes(u, [Quiet EXCEPT !.command = "update", !.entry = e, !.backup = backup])
    <3>1. PICK e \in Entries, backup \in BOOLEAN :
                Becomes(u, [Quiet EXCEPT !.command = "update", !.entry = e, !.backup = backup])
      BY <2>2
    <3>. DEFINE r == [Quiet EXCEPT !.command = "update", !.entry = e, !.backup = backup]
    <3>2. DOMAIN r = Fields /\ r.step = "begin"
      BY QuietFacts DEF Fields
    <3>. QED  BY <3>1, <3>2
  <2>. QED  BY <2>1, <2>2 DEF Launch
<1>2. FormOk(r, descriptors'[StemOf[r.entry]])
  BY <1>1 DEF FormOk
<1>3. \A s \in Stems : descriptors'[s] = descriptors[s]
  BY DEF Launch
<1>. QED  BY <1>1, <1>2, <1>3, FormGoesOn

\* A run that ends, or that is no edit, asks nothing of a descriptor.
LEMMA IdleForm ==
    ASSUME DraftInv, FormInv, NEW u \in Users, UNCHANGED descriptors, NEW r, DOMAIN r = Fields, Becomes(u, r),
           r.command # "edit"
    PROVE  FormInv'
<1>1. FormOk(r, descriptors'[StemOf[r.entry]])
  BY DEF FormOk
<1>. QED  BY <1>1, FormGoesOn

LEMMA UpdateForm ==
    ASSUME DraftInv, FormInv, NEW u \in Users,
           OpenArchives(u) \/ CopyMembers(u) \/ RetireArchive(u) \/ InstallArchive(u)
    PROVE  FormInv'
<1>1. DOMAIN tools[u] = Fields /\ tools[u].command = "update"
  BY DEF DraftInv, RunsTyped, Doing, OpenArchives, CopyMembers, RetireArchive, InstallArchive
<1>2. PICK r : DOMAIN r = Fields /\ r.command # "edit" /\ Becomes(u, r)
  <2>1. CASE OpenArchives(u)
    <3>. DEFINE r == [tools[u] EXCEPT !.step = "copy", !.blob = out[tools[u].entry]]
    <3>1. DOMAIN r = Fields /\ r.command = "update"  BY <1>1 DEF Fields
    <3>2. Becomes(u, r)  BY <2>1 DEF OpenArchives
    <3>. QED  BY <3>1, <3>2
  <2>2. CASE CopyMembers(u)
    <3>. DEFINE r == [tools[u] EXCEPT !.step = "retire"]
    <3>1. DOMAIN r = Fields /\ r.command = "update"  BY <1>1 DEF Fields
    <3>2. Becomes(u, r) \/ Becomes(u, Quiet)  BY <2>2 DEF CopyMembers
    <3>. QED  BY <3>1, <3>2, QuietFacts
  <2>3. CASE RetireArchive(u)
    <3>. DEFINE r == [tools[u] EXCEPT !.step = "install"]
    <3>1. DOMAIN r = Fields /\ r.command = "update"  BY <1>1 DEF Fields
    <3>2. Becomes(u, r)  BY <2>3 DEF RetireArchive
    <3>. QED  BY <3>1, <3>2
  <2>4. CASE InstallArchive(u)  BY <2>4, QuietFacts DEF InstallArchive
  <2>. QED  BY <2>1, <2>2, <2>3, <2>4
<1>3. UNCHANGED descriptors
  BY DEF OpenArchives, CopyMembers, RetireArchive, InstallArchive
<1>. QED  BY <1>2, <1>3, IdleForm

LEMMA EditForm ==
    ASSUME DraftInv, FormInv, LevelsInv, NEW u \in Users,
           ReuseDescriptor(u) \/ DecodeEntry(u) \/ WriteDescriptor(u) \/ LintAndEncode(u)
    PROVE  FormInv'
<1>1. Editing(u) /\ tools[u].command = "edit"
  BY DEF Doing, Editing, ReuseDescriptor, DecodeEntry, WriteDescriptor, LintAndEncode
<1>2. DOMAIN tools[u] = Fields /\ Stem(u) \in Stems /\ DOMAIN descriptors = Stems
  BY <1>1, EditingFacts
<1>3. FormOk(tools[u], descriptors[Stem(u)]) /\ (descriptors[Stem(u)] = Missing \/ Usable(descriptors[Stem(u)]))
  BY <1>2 DEF FormInv, DraftsUsable
<1>4. CASE ReuseDescriptor(u)
  <2>. DEFINE r == [tools[u] EXCEPT !.step = "editor"]
  <2>1. Becomes(u, r) /\ UNCHANGED descriptors /\ descriptors[Stem(u)] # Missing
    BY <1>4 DEF ReuseDescriptor, Stem
  <2>2. DOMAIN r = Fields /\ r.step = "editor" /\ r.entry = tools[u].entry
    BY <1>2 DEF Fields
  <2>. HIDE DEF r
  <2>3. FormOk(r, descriptors'[StemOf[r.entry]])
    BY <1>3, <2>1, <2>2 DEF FormOk, Stem
  <2>. QED  BY <2>1, <2>2, <2>3, FormGoesOn
<1>5. CASE DecodeEntry(u)
  <2>. DEFINE r == [tools[u] EXCEPT !.step = "decoded", !.blob = pac.levels[tools[u].entry]]
  <2>1. Becomes(u, r) /\ descriptors' = [descriptors EXCEPT ![Stem(u)] = Torn]
    BY <1>5 DEF DecodeEntry, Stem
  <2>2. DOMAIN r = Fields /\ r.step = "decoded"
    BY <1>2 DEF Fields
  <2>. HIDE DEF r
  <2>3. FormOk(r, descriptors'[StemOf[r.entry]])
    BY <2>2 DEF FormOk
  <2>4. \A s \in Stems : descriptors'[s] = descriptors[s] \/ Usable(descriptors'[s])
    BY <1>2, <2>1 DEF Usable
  <2>. QED  BY <2>1, <2>2, <2>3, <2>4, FormGoesOn
<1>6. CASE WriteDescriptor(u)
  <2>. DEFINE r == [tools[u] EXCEPT !.step = "editor", !.base = tools[u].blob, !.blob = Missing]
              d == Decoded(tools[u].blob)
  <2>1. Becomes(u, r) /\ descriptors' = [descriptors EXCEPT ![Stem(u)] = d] /\ tools[u].step = "decoded"
    BY <1>6 DEF WriteDescriptor, Doing, Stem
  <2>2. Held(tools[u].blob)
    BY <1>1, <2>1 DEF LevelsInv, RunsHeld, RunHeld
  <2>3. Usable(d)
    BY <2>2, DecodedIsWellFormed DEF Usable, Held, Decoded
  <2>4. DOMAIN r = Fields /\ r.step = "editor" /\ r.entry = tools[u].entry
    BY <1>2 DEF Fields
  <2>. HIDE DEF r, d
  <2>5. descriptors'[Stem(u)] = d /\ \A s \in Stems : descriptors'[s] = descriptors[s] \/ Usable(descriptors'[s])
    BY <1>2, <2>1, <2>3
  <2>6. FormOk(r, descriptors'[StemOf[r.entry]])
    BY <2>3, <2>4, <2>5 DEF FormOk, Stem
  <2>. QED  BY <2>1, <2>4, <2>5, <2>6, FormGoesOn
<1>7. CASE LintAndEncode(u)
  <2>. DEFINE d == descriptors[Stem(u)]
              r == [tools[u] EXCEPT !.step = "write", !.blob = EncodeLvd(Layout, d), !.lint = d]
  <2>1. Becomes(u, r) /\ UNCHANGED descriptors /\ tools[u].step = "editor" /\ d # Torn
    BY <1>7 DEF LintAndEncode, Doing, Stem
  <2>2. WellFormed(d)
    BY <1>1, <1>3, <2>1 DEF FormOk, Usable
  <2>3. DOMAIN r = Fields /\ r.step = "write" /\ r.lint = d
    BY <1>2 DEF Fields
  <2>. HIDE DEF r
  <2>4. FormOk(r, descriptors'[StemOf[r.entry]])
    BY <2>2, <2>3 DEF FormOk
  <2>. QED  BY <2>1, <2>3, <2>4, FormGoesOn
<1>. QED  BY <1>4, <1>5, <1>6, <1>7

LEMMA NextFormInv ==
    ASSUME ChangesKeepForm, DraftInv, LevelsInv, FormInv, [EditorNext]_editorVars
    PROVE  FormInv'
<1>1. CASE UNCHANGED <<descriptors, tools>>
  BY <1>1 DEF FormInv, DraftsUsable, FormOk, Usable, WellFormed, Stem
<1>2. ASSUME NEW u \in Users, Abandon(u) \/ WriteLevel(u) PROVE FormInv'
  <2>1. Becomes(u, Quiet) /\ UNCHANGED descriptors
    BY <1>2 DEF Abandon, WriteLevel
  <2>. QED  BY <2>1, QuietFacts, IdleForm
<1>3. UNCHANGED editorVars \/ RestoreByHand => UNCHANGED <<descriptors, tools>>
  BY DEF editorVars, RestoreByHand
<1>. QED  BY <1>1, <1>2, <1>3, LaunchForm, EditForm, UpdateForm, SaveChangeForm DEF EditorNext

LEMMA InitFormInv == EditorInit => FormInv
<1>. SUFFICES ASSUME EditorInit PROVE FormInv  OBVIOUS
<1>1. \A u \in Users : tools[u].command = "none"
  BY QuietFacts DEF EditorInit
<1>2. \A s \in Stems : descriptors[s] = Missing
  BY DEF EditorInit
<1>. QED  BY <1>1, <1>2 DEF FormInv, DraftsUsable, FormOk

\* Every descriptor a run may read is torn or well formed, and what was linted is
\* well formed, whoever saves in between.
THEOREM FormInvariance == ASSUME ChangesKeepForm PROVE EditorSpec => []FormInv
<1>1. DraftInv /\ LevelsInv /\ FormInv /\ [EditorNext]_editorVars => FormInv'
  BY NextFormInv
<1>. QED  BY <1>1, InitFormInv, DraftInvariance, LevelsInvariance, PTL DEF EditorSpec

\* What edit writes means what the author saw.
THEOREM WritesWhatWasLinted == ASSUME ChangesKeepForm PROVE EditorSpec => []WrittenMeansLinted
<1>1. ASSUME DraftInv, FormInv, NEW u \in Users, Doing(u, "edit", "write")
      PROVE  SameMeaning(ParseLvd(Layout, tools[u].blob), Settled(tools[u].lint))
  <2>1. Editing(u) /\ tools[u].command = "edit" /\ tools[u].step = "write"
    BY <1>1 DEF Doing, Editing
  <2>2. Lints(tools[u].lint) /\ tools[u].blob = EncodeLvd(Layout, tools[u].lint) /\ tools[u].blob # Refused
    BY <1>1, <2>1, EditingFacts DEF DraftOk
  <2>3. WellFormed(tools[u].lint)
    BY <1>1, <2>1 DEF FormInv, FormOk
  <2>. QED  BY <2>2, <2>3, EncodedMeansSame
<1>2. DraftInv /\ FormInv => WrittenMeansLinted
  BY <1>1 DEF WrittenMeansLinted
<1>. QED  BY <1>2, DraftInvariance, FormInvariance, PTL

-----------------------------------------------------------------------------
(* The structured path codec. *)

\* The words of each point.
PathRows(blob, slots) == [i \in 1..slots |-> Slice(blob, 9 + (i - 1) * 5, 5)]

LEMMA PathRowsFlat ==
    ASSUME NEW blob \in Seq(Int), NEW slots \in Nat
    PROVE  FlattenSeq(PathRows(blob, slots)) = Slice(blob, 9, slots * 5)
<1>. DEFINE m == slots * 5
            w == Slice(blob, 9, m)
<1>1. m \in Nat /\ 9 \in Nat /\ 5 \in Nat
  OBVIOUS
<1>2. w \in Seq(Int) /\ Len(w) = m
  <2>. HIDE DEF m
  <2>. QED  BY <1>1, SliceFacts
<1>3. Rows(w, 0, slots, 5) = PathRows(blob, slots)
  <2>1. ASSUME NEW i \in 1..slots PROVE RowAt(w, 0 + i, 5) = Slice(blob, 9 + (i - 1) * 5, 5)
    <3>. DEFINE b == (i - 1) * 5
    <3>1. b \in Nat /\ b + 5 <= m /\ 0 + i = i
      OBVIOUS
    <3>2. RowAt(w, i, 5) = Slice(w, b, 5)
      BY DEF RowAt
    <3>. HIDE DEF b, m
    <3>3. Slice(Slice(blob, 9, m), b, 5) = Slice(blob, 9 + b, 5)
      BY <1>1, <3>1, SliceOfSlice
    <3>. QED  BY <3>1, <3>2, <3>3 DEF b
  <2>. HIDE DEF w
  <2>. QED  BY <2>1 DEF Rows, PathRows
<1>4. FlattenSeq(Rows(w, 0, slots, 5)) = Slice(w, 0, m)
  <2>. HIDE DEF w
  <2>. QED  BY <1>1, <1>2, RowsFlat
<1>5. Slice(w, 0, m) = w
  <2>. HIDE DEF w, m
  <2>. QED  BY <1>2, RefitAll DEF Refit
<1>. QED  BY <1>3, <1>4, <1>5

\* A path file is written back word for word, whatever its words are.
THEOREM PathRoundTrip ==
    ASSUME NEW slots \in Nat, NEW blob \in Seq(Int), DecodePath(slots, blob) # Refused
    PROVE  EncodePath(slots, DecodePath(slots, blob)) = blob
<1>. DEFINE d == DecodePath(slots, blob)
            m == slots * 5
            N == Len(blob)
            active == Last(blob)
            h == Slice(blob, 0, 9)
            w == Slice(blob, 9, m)
            p == [i \in 1..slots |-> [slot_index |-> i - 1, words |-> Slice(blob, 9 + (i - 1) * 5, 5)]]
<1>1. N = 9 + m + 1 /\ active \in 0..slots /\ d = [header |-> h, active |-> active, points |-> p]
  BY DEF DecodePath
<1>2. m \in Nat /\ 9 + m \in Nat /\ N \in Nat /\ 0 \in Nat /\ 9 \in Nat /\ 0 + 9 = 9
  OBVIOUS
<1>3. Len(h) = 9 /\ h \in Seq(Int) /\ w \in Seq(Int)
  <2>. HIDE DEF m
  <2>. QED  BY <1>2, SliceFacts
<1>4. Len(p) = slots /\ DOMAIN p = 1..slots
  OBVIOUS
<1>5. \A i \in 1..slots : p[i].slot_index = i - 1 /\ p[i].words = Slice(blob, 9 + (i - 1) * 5, 5) /\ Len(p[i].words) = 5
  <2>1. ASSUME NEW i \in 1..slots PROVE Len(Slice(blob, 9 + (i - 1) * 5, 5)) = 5
    <3>1. 9 + (i - 1) * 5 \in Nat /\ 5 \in Nat
      OBVIOUS
    <3>. QED  BY <3>1, SliceFacts
  <2>. QED  BY <2>1
<1>6. [i \in DOMAIN p |-> p[i].words] = PathRows(blob, slots)
  <2>. HIDE DEF p
  <2>. QED  BY <1>4, <1>5 DEF PathRows
<1>7. FlattenSeq([i \in DOMAIN p |-> p[i].words]) = w
  BY <1>6, PathRowsFlat
<1>. HIDE DEF d, p, h, w, m, N
<1>8. EncodePath(slots, d) = h \o w \o <<active>>
  <2>1. d.header = h /\ d.active = active /\ d.points = p
    BY <1>1
  <2>2. /\ Len(d.header) = 9 /\ d.active \in 0..slots /\ Len(d.points) = slots
        /\ \A i \in DOMAIN d.points : d.points[i].slot_index = i - 1 /\ Len(d.points[i].words) = 5
    BY <1>1, <1>3, <1>4, <1>5, <2>1
  <2>. HIDE DEF active
  <2>. QED  BY <1>7, <2>1, <2>2 DEF EncodePath
<1>9. h \o w = Slice(blob, 0, 9 + m)
  <2>1. Cat(Slice(blob, 0, 9), Slice(blob, 0 + 9, m)) = Slice(blob, 0, 9 + m)
    BY <1>2, SlicesJoin
  <2>. QED  BY <1>2, <2>1 DEF Cat, h, w
<1>. DEFINE s == Slice(blob, 0, 9 + m)
<1>10. s \in Seq(Int) /\ Len(s) = 9 + m
  BY <1>2, SliceFacts
<1>11. \A i \in 1..(9 + m) : s[i] = blob[i]
  BY <1>1, <1>2 DEF Slice, N
<1>12. active = blob[9 + m + 1] /\ active \in Int
  BY <1>1, <1>2 DEF Last, N
<1>. HIDE DEF s, active
<1>13. s \o <<active>> = blob
  <2>1. <<active>> \in Seq(Int) /\ Len(<<active>>) = 1 /\ <<active>>[1] = active
    BY <1>12
  <2>2. Ends(blob, s, <<active>>)
    <3>1. \A q \in 1..1 : q = 1
      OBVIOUS
    <3>. QED  BY <1>1, <1>10, <1>11, <1>12, <2>1, <3>1 DEF Ends, N
  <2>3. Cat(s, <<active>>) = blob
    BY <1>10, <2>1, <2>2, CatIs
  <2>. QED  BY <2>3 DEF Cat
<1>. QED  BY <1>8, <1>9, <1>13 DEF d, s

LEMMA FiveWords == ASSUME NEW w \in Seq(Int), Len(w) = 5 PROVE w \in [1..5 -> Int]
<1>1. w = [k \in 1..5 |-> w[k]] /\ \A k \in 1..5 : w[k] \in Int
  OBVIOUS
<1>. QED  BY <1>1

LEMMA WordsEnd ==
    ASSUME NEW x \in Seq(Int), NEW y \in Seq(Int)
    PROVE  Cat(x, y) \in Seq(Int) /\ Ends(Cat(x, y), x, y)
BY DEF Cat, Ends

\* The points of a path document.
PathPoints == [slot_index : Int, words : Seq(Int)]

\* What is encoded for a path without an error is decoded to the same document.
THEOREM PathMeansSame ==
    ASSUME NEW slots \in Nat, NEW d \in [header : Seq(Int), active : Int, points : Seq(PathPoints)],
           EncodePath(slots, d) # Refused
    PROVE  DecodePath(slots, EncodePath(slots, d)) = d
<1>. DEFINE m == slots * 5
            ws == [i \in DOMAIN d.points |-> d.points[i].words]
            F == FlattenSeq(ws)
            a == d.active
            h == d.header
            blob == EncodePath(slots, d)
            p == d.points
<1>1. /\ Len(h) = 9 /\ a \in 0..slots /\ Len(p) = slots
      /\ \A i \in DOMAIN p : p[i].slot_index = i - 1 /\ Len(p[i].words) = 5
      /\ blob = h \o F \o <<a>>
  BY DEF EncodePath
<1>2. h \in Seq(Int) /\ p \in Seq(PathPoints) /\ m \in Nat /\ d = [header |-> h, active |-> a, points |-> p]
  OBVIOUS
<1>3. DOMAIN p = 1..slots /\ \A i \in 1..slots : p[i] \in PathPoints
  <2>. HIDE DEF p, PathPoints
  <2>. QED  BY <1>1, <1>2
<1>4. \A i \in 1..slots : p[i].words \in [1..5 -> Int] /\ p[i] = [slot_index |-> i - 1, words |-> p[i].words]
  <2>1. ASSUME NEW i \in 1..slots PROVE p[i].words \in [1..5 -> Int] /\ p[i] = [slot_index |-> i - 1, words |-> p[i].words]
    <3>. DEFINE x == p[i]
    <3>1. x \in PathPoints /\ x.slot_index = i - 1 /\ Len(x.words) = 5
      BY <1>1, <1>3
    <3>. HIDE DEF x
    <3>2. x.words \in Seq(Int) /\ x = [slot_index |-> x.slot_index, words |-> x.words]
      BY <3>1 DEF PathPoints
    <3>3. x.words \in [1..5 -> Int]
      BY <3>1, <3>2, FiveWords
    <3>. QED  BY <3>1, <3>2, <3>3 DEF x
  <2>. QED  BY <2>1
<1>. HIDE DEF p
<1>5. ws \in Seq([1..5 -> Int]) /\ Len(ws) = slots /\ \A i \in 1..slots : ws[i] = p[i].words
  <2>1. ws = [i \in 1..slots |-> p[i].words]
    BY <1>3 DEF p
  <2>. DEFINE R == [1..5 -> Int]
  <2>2. \A i \in 1..slots : p[i].words \in R
    BY <1>4
  <2>. HIDE DEF R, ws
  <2>3. ws \in Seq(R) /\ Len(ws) = slots
    BY <2>1, <2>2
  <2>. QED  BY <2>1, <2>3 DEF R
<1>. HIDE DEF ws
<1>6. F \in Seq(Int) /\ LaidOut(F, ws, 5)
  BY <1>5, FlattenEven
<1>. HIDE DEF F, h, a, blob
<1>7. Len(F) = m /\ \A i \in 1..slots, k \in 1..5 : (i - 1) * 5 + k \in 1..m /\ F[(i - 1) * 5 + k] = p[i].words[k]
  <2>1. Len(F) = Len(ws) * 5 /\ \A i \in 1..Len(ws), k \in 1..5 :
            (i - 1) * 5 + k \in 1..Len(F) /\ F[(i - 1) * 5 + k] = ws[i][k]
    BY <1>6 DEF LaidOut
  <2>2. Len(F) = m
    BY <1>5, <2>1
  <2>3. ASSUME NEW i \in 1..slots, NEW k \in 1..5
        PROVE  (i - 1) * 5 + k \in 1..m /\ F[(i - 1) * 5 + k] = p[i].words[k]
    <3>. DEFINE j == (i - 1) * 5 + k
    <3>. HIDE DEF m
    <3>1. j \in 1..Len(F) /\ F[j] = ws[i][k]
      BY <1>5, <2>1
    <3>. HIDE DEF j
    <3>2. j \in 1..m /\ F[j] = p[i].words[k]
      BY <1>5, <2>2, <3>1
    <3>. QED  BY <3>2 DEF j
  <2>. QED  BY <2>2, <2>3
<1>8. /\ blob \in Seq(Int) /\ Len(blob) = 9 + m + 1
      /\ \A i \in 1..9 : blob[i] = h[i]
      /\ \A j \in 1..m : blob[9 + j] = F[j]
      /\ blob[9 + m + 1] = a
  <2>. HIDE DEF m
  <2>. DEFINE g == h \o F
  <2>1. g \in Seq(Int) /\ Len(g) = 9 + m /\ (\A i \in 1..9 : g[i] = h[i]) /\ \A j \in 1..m : g[9 + j] = F[j]
    <3>1. h \in Seq(Int) /\ F \in Seq(Int) /\ Len(h) = 9 /\ Len(F) = m
      BY <1>1, <1>2, <1>6, <1>7
    <3>2. /\ Cat(h, F) \in Seq(Int) /\ Len(Cat(h, F)) = Len(h) + Len(F)
          /\ (\A i \in 1..Len(h) : Cat(h, F)[i] = h[i]) /\ \A j \in 1..Len(F) : Cat(h, F)[Len(h) + j] = F[j]
      BY <3>1, WordsEnd DEF Ends
    <3>. QED  BY <3>1, <3>2 DEF Cat
  <2>2. blob = Append(g, a) /\ a \in Int
    <3>. HIDE DEF g
    <3>1. g \o <<a>> = Append(g, a) /\ a \in Int
      BY <1>1, <2>1
    <3>. QED  BY <1>1, <3>1 DEF g
  <2>. HIDE DEF g
  <2>3. blob \in Seq(Int) /\ Len(blob) = 9 + m + 1 /\ blob[9 + m + 1] = a /\ \A i \in 1..(9 + m) : blob[i] = g[i]
    <3>. DEFINE n == 9 + m
    <3>1. n \in Nat /\ Len(g) = n /\ g \in Seq(Int)
      BY <1>2, <2>1
    <3>. HIDE DEF n
    <3>2. /\ Append(g, a) \in Seq(Int) /\ Len(Append(g, a)) = n + 1 /\ Append(g, a)[n + 1] = a
          /\ \A i \in 1..n : Append(g, a)[i] = g[i]
      BY <2>2, <3>1
    <3>. QED  BY <2>2, <3>2 DEF n
  <2>4. (\A i \in 1..9 : i \in 1..(9 + m)) /\ \A j \in 1..m : 9 + j \in 1..(9 + m)
    BY <1>2
  <2>. QED  BY <2>1, <2>3, <2>4
<1>9. Slice(blob, 0, 9) = h
  <2>1. \A i \in 1..9 : 0 + i = i /\ i <= Len(blob)
    <3>1. m \in Nat /\ Len(blob) = 9 + m + 1
      BY <1>2, <1>8
    <3>. HIDE DEF m
    <3>. QED  BY <3>1
  <2>2. Slice(blob, 0, 9) = [i \in 1..9 |-> h[i]]
    BY <1>8, <2>1 DEF Slice
  <2>3. h = [i \in 1..Len(h) |-> h[i]]
    BY <1>2
  <2>. QED  BY <1>1, <2>2, <2>3
<1>10. Last(blob) = a
  BY <1>2, <1>8 DEF Last
<1>11. ASSUME NEW i \in 1..slots PROVE Slice(blob, 9 + (i - 1) * 5, 5) = p[i].words
  <2>. DEFINE b == (i - 1) * 5
  <2>1. \A k \in 1..5 : 9 + b + k <= Len(blob) /\ 9 + b + k = 9 + (b + k) /\ blob[9 + (b + k)] = p[i].words[k]
    <3>1. ASSUME NEW k \in 1..5
          PROVE  9 + b + k <= Len(blob) /\ 9 + b + k = 9 + (b + k) /\ blob[9 + (b + k)] = p[i].words[k]
      <4>. DEFINE j == b + k
      <4>1. j \in 1..m /\ F[j] = p[i].words[k]
        BY <1>7
      <4>2. 9 + b + k = 9 + j
        OBVIOUS
      <4>. HIDE DEF j, m
      <4>3. 9 + j <= Len(blob) /\ blob[9 + j] = p[i].words[k]
        BY <1>2, <1>8, <4>1
      <4>4. 9 + b + k <= Len(blob)
        BY <4>2, <4>3
      <4>. QED  BY <4>2, <4>3, <4>4 DEF j
    <3>. QED  BY <3>1
  <2>. HIDE DEF b
  <2>2. Slice(blob, 9 + b, 5) = [k \in 1..5 |-> p[i].words[k]]
    BY <2>1 DEF Slice
  <2>3. p[i].words = [k \in 1..5 |-> p[i].words[k]]
    BY <1>4
  <2>. QED  BY <2>2, <2>3 DEF b
<1>12. [i \in 1..slots |-> [slot_index |-> i - 1, words |-> Slice(blob, 9 + (i - 1) * 5, 5)]] = p
  <2>1. [i \in 1..slots |-> [slot_index |-> i - 1, words |-> Slice(blob, 9 + (i - 1) * 5, 5)]] = [i \in 1..slots |-> p[i]]
    BY <1>4, <1>11
  <2>2. p = [i \in 1..slots |-> p[i]]
    BY <1>2, <1>3 DEF p
  <2>. QED  BY <2>1, <2>2
<1>13. DecodePath(slots, blob) = [header |-> Slice(blob, 0, 9), active |-> Last(blob),
          points |-> [i \in 1..slots |-> [slot_index |-> i - 1, words |-> Slice(blob, 9 + (i - 1) * 5, 5)]]]
  <2>1. ~(Len(blob) # 9 + slots * 5 + 1 \/ Last(blob) \notin 0..slots)
    BY <1>1, <1>8, <1>10
  <2>. QED  BY <2>1 DEF DecodePath
<1>14. DecodePath(slots, blob) = d
  BY <1>2, <1>9, <1>10, <1>12, <1>13
<1>. QED  BY <1>14 DEF blob

=============================================================================
