---------------------------- MODULE LevelEditor ----------------------------
(***************************************************************************)
(* Parser/scripts: an author decodes a level of warblade.pac into a JSON   *)
(* descriptor, edits it, has it linted and encoded into an .lvd file       *)
(* (warblade_editor_cli.py edit), and puts that file back into the archive *)
(* (warblade_pac.py update).  Descriptors and .lvd files are written in    *)
(* place, so a run that stops while it writes leaves a torn file; the      *)
(* archive is rebuilt beside the old one and swapped in by two renames.    *)
(*                                                                         *)
(* At most one run updates the archive, and at most one edits through the  *)
(* same descriptor file, at a time: nothing in the code locks them.        *)
(***************************************************************************)
EXTENDS LvdCodec

CONSTANTS
    Users,        \* who run the tools
    Entries,      \* names of levels, in the archive or not
    StemOf,       \* [Entries -> Stems]: the base name the descriptor path is made of
    Archive,      \* the archive as it was shipped: [some Entries -> blobs]
    Layout,       \* the sections of a level file
    SignedSection, Signatures, RecordSizes,   \* the section whose first two words the linter checks, and their values
    MaxNames,     \* bitmap names the schema allows in a level
    Changes(_),   \* what an author may make of a descriptor in one edit
    MaxEdits,     \* bound: edits
    MaxStarts,    \* bound: runs started
    Missing, Torn \* Torn: cut short, or decoded from a level that was

ASSUME StemAssumption == DOMAIN StemOf = Entries

\* The layout is a table of the program, whose sections do not overlap; an error
\* is no bytes and no blocks, and the shipped levels are sequences of whole blocks.
ASSUME LayoutAssumption ==
    /\ Refused \notin Seq(Int) /\ Refused \notin Seq(Record(Layout))
    /\ Layout.words \in Nat \ {0} /\ Layout.entryWords \in Nat \ {0}
    /\ Layout.names \in DOMAIN Layout.sections
    /\ Layout.chunks \in Seq(DOMAIN Layout.sections)
    /\ \A name \in DOMAIN Layout.sections :
         /\ Layout.sections[name].first \in Nat /\ Layout.sections[name].last \in Nat
         /\ Layout.sections[name].first <= Layout.sections[name].last
    /\ \A a, b \in DOMAIN Layout.sections :
         a # b => Layout.sections[a].last < Layout.sections[b].first \/ Layout.sections[b].last < Layout.sections[a].first
    /\ \A i, j \in DOMAIN Layout.chunks : Layout.chunks[i] = Layout.chunks[j] => i = j
    /\ \A i \in DOMAIN Layout.chunks : Layout.chunks[i] # Layout.names

ASSUME ArchiveAssumption ==
    \A e \in DOMAIN Archive : Archive[e] = [blocks |-> Archive[e].blocks, tail |-> Archive[e].tail]
                             /\ Archive[e].blocks \in Seq(Record(Layout))

Stems == Range(StemOf)

VARIABLES
    pac, bak, tmp,   \* warblade.pac, .bak and .tmp
    descriptors,     \* reports/<stem>.json
    out,             \* the .lvd file written for each entry
    tools,           \* what each user runs
    edits, starts    \* how many so far

editorVars == <<pac, bak, tmp, descriptors, out, tools, edits, starts>>

Quiet == [command |-> "none", entry |-> Missing, refresh |-> FALSE, backup |-> FALSE, step |-> "begin",
          blob |-> Missing, lint |-> Missing, base |-> Missing, edited |-> FALSE]

\* What an archive's name holds: nothing, a part of an archive, or all of one.
NoPac == [kind |-> "missing"]
TornPac == [kind |-> "torn"]
Pac(levels) == [kind |-> "whole", levels |-> levels]

EditorInit ==
    /\ pac = Pac(Archive)
    /\ bak = NoPac /\ tmp = NoPac
    /\ descriptors = [s \in Stems |-> Missing]
    /\ out = [e \in Entries |-> Missing]
    /\ tools = [u \in Users |-> Quiet]
    /\ edits = 0 /\ starts = 0

----------------------------------------------------------------------------

Doing(u, command, step) == tools[u].command = command /\ tools[u].step = step

Becomes(u, r) == tools' = [tools EXCEPT ![u] = r]

Launch(u) ==
    /\ tools[u] = Quiet
    /\ starts < MaxStarts
    /\ starts' = starts + 1
    /\ \E e \in Entries :
         \/ /\ \A v \in Users : tools[v].command = "edit" => StemOf[tools[v].entry] # StemOf[e]
            /\ \E refresh \in BOOLEAN : Becomes(u, [Quiet EXCEPT !.command = "edit", !.entry = e, !.refresh = refresh])
         \/ /\ \A v \in Users : tools[v].command # "update"
            /\ \E backup \in BOOLEAN : Becomes(u, [Quiet EXCEPT !.command = "update", !.entry = e, !.backup = backup])
    /\ UNCHANGED <<pac, bak, tmp, descriptors, out, edits>>

\* An error, an editor that fails, or a kill.
Abandon(u) ==
    /\ tools[u] # Quiet
    /\ Becomes(u, Quiet)
    /\ UNCHANGED <<pac, bak, tmp, descriptors, out, edits, starts>>

----------------------------------------------------------------------------
(* edit *)

\* A descriptor that is there is used, whatever it was decoded from.
ReuseDescriptor(u) ==
    /\ Doing(u, "edit", "begin")
    /\ descriptors[StemOf[tools[u].entry]] # Missing /\ ~tools[u].refresh
    /\ Becomes(u, [tools[u] EXCEPT !.step = "editor"])
    /\ UNCHANGED <<pac, bak, tmp, descriptors, out, edits, starts>>

InPac(e) == pac.kind = "whole" /\ e \in DOMAIN pac.levels

\* Mutant of DecodeEntry: a descriptor that is there is not refreshed.
DecodeEntryKept(u) ==
    LET e == tools[u].entry
        old == descriptors[StemOf[e]]
    IN  /\ Doing(u, "edit", "begin")
        /\ old = Missing \/ tools[u].refresh
        /\ InPac(e)
        /\ IF old = Missing
           THEN /\ descriptors' = [descriptors EXCEPT ![StemOf[e]] = Torn]
                /\ Becomes(u, [tools[u] EXCEPT !.step = "decoded", !.blob = pac.levels[e]])
           ELSE /\ Becomes(u, [tools[u] EXCEPT !.step = "editor", !.base = pac.levels[e]])
                /\ UNCHANGED descriptors
        /\ UNCHANGED <<pac, bak, tmp, out, edits, starts>>

DecodeEntry(u) ==
    LET e == tools[u].entry IN
    /\ Doing(u, "edit", "begin")
    /\ descriptors[StemOf[e]] = Missing \/ tools[u].refresh
    /\ InPac(e)
    /\ descriptors' = [descriptors EXCEPT ![StemOf[e]] = Torn]
    /\ Becomes(u, [tools[u] EXCEPT !.step = "decoded", !.blob = pac.levels[e]])
    /\ UNCHANGED <<pac, bak, tmp, out, edits, starts>>

\* The decoder takes whatever bytes there are.  Of a level that was cut short it
\* makes a descriptor without some of its sections, which nobody completes by hand
\* and the linter refuses.
Decoded(blob) == IF blob = Torn THEN Torn ELSE ParseLvd(Layout, blob)

WriteDescriptor(u) ==
    LET r == tools[u] IN
    /\ Doing(u, "edit", "decoded")
    /\ descriptors' = [descriptors EXCEPT ![StemOf[r.entry]] = Decoded(r.blob)]
    /\ Becomes(u, [r EXCEPT !.step = "editor", !.base = r.blob, !.blob = Missing])
    /\ UNCHANGED <<pac, bak, tmp, out, edits, starts>>

\* The author saves a change, in the editor the tool opened or in another.
SaveChange(s) ==
    /\ descriptors[s] \notin {Missing, Torn}
    /\ edits < MaxEdits
    /\ edits' = edits + 1
    /\ \E d \in Changes(descriptors[s]) : descriptors' = [descriptors EXCEPT ![s] = d]
    /\ tools' = [u \in Users |-> IF tools[u].command = "edit" /\ StemOf[tools[u].entry] = s
                                 THEN [tools[u] EXCEPT !.edited = TRUE] ELSE tools[u]]
    /\ UNCHANGED <<pac, bak, tmp, out, starts>>

\* validate_descriptor: the errors, not the warnings.  The words of a descriptor
\* are int32 here, and its fields have the names and the places the schema fixes.
Lints(d) ==
    /\ d.remainder = {}
    /\ \A name \in DOMAIN Layout.sections : Len(d.sections[name]) = Width(Layout, name)
    /\ d.inventory /\ Len(d.shop) = Len(ShopEntries(Layout, d.sections))
    /\ Len(d.names) <= MaxNames
    /\ \A i \in DOMAIN d.names : Len(d.names[i].filename) > 1 /\ Last(d.names[i].filename) = Bmp
    /\ d.sections[SignedSection][1][1] \in Signatures
    /\ d.sections[SignedSection][1][2] \in RecordSizes

\* The editor has closed: load, lint, encode, open the output file.
LintAndEncode(u) ==
    LET r == tools[u]
        d == descriptors[StemOf[r.entry]]
    IN  /\ Doing(u, "edit", "editor")
        /\ d # Torn
        /\ Lints(d)
        /\ EncodeLvd(Layout, d) # Refused
        /\ out' = [out EXCEPT ![r.entry] = Torn]
        /\ Becomes(u, [r EXCEPT !.step = "write", !.blob = EncodeLvd(Layout, d), !.lint = d])
        /\ UNCHANGED <<pac, bak, tmp, descriptors, edits, starts>>

WriteLevel(u) ==
    /\ Doing(u, "edit", "write")
    /\ out' = [out EXCEPT ![tools[u].entry] = tools[u].blob]
    /\ Becomes(u, Quiet)
    /\ UNCHANGED <<pac, bak, tmp, descriptors, edits, starts>>

----------------------------------------------------------------------------
(* update *)

\* Mutant of OpenArchives: the new archive is opened before the old one.
OpenArchivesEager(u) ==
    /\ Doing(u, "update", "begin")
    /\ out[tools[u].entry] # Missing
    /\ tmp' = TornPac
    /\ Becomes(u, IF pac = NoPac THEN Quiet ELSE [tools[u] EXCEPT !.step = "copy", !.blob = out[tools[u].entry]])
    /\ UNCHANGED <<pac, bak, descriptors, out, edits, starts>>

\* The replacement is read first, then the archive is opened, then the new
\* one: an archive that is missing leaves what is at .tmp alone.
OpenArchives(u) ==
    /\ Doing(u, "update", "begin")
    /\ out[tools[u].entry] # Missing
    /\ pac # NoPac
    /\ tmp' = TornPac
    /\ Becomes(u, [tools[u] EXCEPT !.step = "copy", !.blob = out[tools[u].entry]])
    /\ UNCHANGED <<pac, bak, descriptors, out, edits, starts>>

CopyMembers(u) ==
    LET r == tools[u] IN
    /\ Doing(u, "update", "copy")
    /\ IF InPac(r.entry)
       THEN tmp' = Pac([pac.levels EXCEPT ![r.entry] = r.blob]) /\ Becomes(u, [r EXCEPT !.step = "retire"])
       ELSE tmp' = NoPac /\ Becomes(u, Quiet)
    /\ UNCHANGED <<pac, bak, descriptors, out, edits, starts>>

RetireArchive(u) ==
    /\ Doing(u, "update", "retire")
    /\ bak' = IF tools[u].backup THEN pac ELSE bak
    /\ pac' = NoPac
    /\ Becomes(u, [tools[u] EXCEPT !.step = "install"])
    /\ UNCHANGED <<tmp, descriptors, out, edits, starts>>

InstallArchive(u) ==
    /\ Doing(u, "update", "install")
    /\ pac' = tmp
    /\ tmp' = NoPac
    /\ Becomes(u, Quiet)
    /\ UNCHANGED <<bak, descriptors, out, edits, starts>>

\* The author puts a copy back where the archive is missing.
RestoreByHand ==
    /\ pac = NoPac /\ \A u \in Users : tools[u].command # "update"
    /\ \/ tmp.kind = "whole" /\ pac' = tmp /\ tmp' = NoPac /\ UNCHANGED bak
       \/ bak # NoPac /\ pac' = bak /\ bak' = NoPac /\ UNCHANGED tmp
    /\ UNCHANGED <<descriptors, out, tools, edits, starts>>

----------------------------------------------------------------------------

EditorNext ==
    \/ \E u \in Users :
         \/ Launch(u) \/ Abandon(u)
         \/ ReuseDescriptor(u) \/ DecodeEntry(u) \/ WriteDescriptor(u) \/ LintAndEncode(u) \/ WriteLevel(u)
         \/ OpenArchives(u) \/ CopyMembers(u) \/ RetireArchive(u) \/ InstallArchive(u)
    \/ \E s \in Stems : SaveChange(s)
    \/ RestoreByHand

EditorSpec == EditorInit /\ [][EditorNext]_editorVars

----------------------------------------------------------------------------
(***************************************************************************)
(* Wherever an update stops, and whatever is run or restored afterwards, a *)
(* whole archive that names every shipped level is still on disk, under    *)
(* one of the three names.  (A level in it may be one that a stopped edit  *)
(* cut short, when the author put that file into the archive.)             *)
(***************************************************************************)
IsArchive(f) == f.kind = "whole" /\ DOMAIN f.levels = DOMAIN Archive

ArchiveRecoverable == \E f \in {pac, bak, tmp} : IsArchive(f)

\* A descriptor as the decoder makes it, and as it stays while an author keeps
\* its fields and puts no control character into a name, and nothing else into
\* the padding between names.
Control == {byte \in Int : byte < 32}
Printable == {byte \in Int : byte >= 32}

WellFormed(d) ==
    /\ DOMAIN d = {"total", "sections", "inventory", "shop", "names", "trailing", "remainder", "tail"}
    /\ DOMAIN d.sections = DOMAIN Layout.sections
    /\ \A name \in DOMAIN Layout.sections : d.sections[name] \in Seq(Seq(Int))
    /\ d.shop \in Seq(Seq(Int))
    /\ d.names \in Seq([padding : Seq(Control), filename : Seq(Printable)])
    /\ d.trailing \in Seq(Control)

(***************************************************************************)
(* What edit writes means what the author saw: decoding the file it is     *)
(* about to write gives the descriptor that was linted, where the shop     *)
(* inventory decides over the chunks it was gathered from and is cut to    *)
(* the words the chunks hold.                                              *)
(***************************************************************************)
Settled(d) ==
    LET room == Len(ChunkRecords(Layout, d.sections)) * Layout.words
    IN  [d EXCEPT !.shop = IF d.inventory THEN InGroups(Refit(FlattenSeq(@), room), Layout.entryWords)
                           ELSE ShopEntries(Layout, d.sections)]

\* The name an entry shows, if any.
Shown(filename) == IF NameOf(filename) = <<>> THEN <<>> ELSE <<NameOf(filename)>>

Filenames(d) == FlattenSeq([i \in DOMAIN d.names |-> Shown(d.names[i].filename)])

SameMeaning(d, e) ==
    /\ d.shop = e.shop /\ d.tail = e.tail /\ d.remainder = e.remainder /\ d.total = e.total
    /\ Filenames(d) = Filenames(e)
    /\ \A name \in DOMAIN Layout.sections :
         Contains(Layout.chunks, name) \/ name = Layout.names \/ d.sections[name] = e.sections[name]

WrittenMeansLinted ==
    \A u \in Users : Doing(u, "edit", "write") =>
        SameMeaning(ParseLvd(Layout, tools[u].blob), Settled(tools[u].lint))

(***************************************************************************)
(* Editing afresh and changing nothing gives the archive's own level back, *)
(* word for word, whatever descriptor an earlier run, or a run on a level  *)
(* of the same base name, has left: for levels whose bitmap names are in   *)
(* the form the decoder keeps.                                             *)
(***************************************************************************)
CleanNames(bytes) ==
    \A i \in DOMAIN bytes : bytes[i] >= 32 =>
        /\ bytes[i] < 128
        /\ i < Len(bytes)
        /\ bytes[i + 1] = 0 \/ (bytes[i + 1] >= 32 /\ bytes[i] # Bmp)
        /\ bytes[i] = Space => bytes[i + 1] >= 32 /\ i > 1 /\ bytes[i - 1] >= 32

Clean(blob) == CleanNames(FlattenSeq(Section(Layout, blob.blocks, Layout.names)))

UntouchedIsUnchanged ==
    [][\A u \in Users :
        LET r == tools[u] IN
        WriteLevel(u) /\ r.refresh /\ ~r.edited /\ Clean(r.base) => out'[r.entry] = r.base]_editorVars
=============================================================================
