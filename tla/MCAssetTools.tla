---------------------------- MODULE MCAssetTools ----------------------------
(***************************************************************************)
(* Instances of the two authoring tools.  They share no file, so a         *)
(* behaviour exercises the one or the other.  The assumptions check the    *)
(* codecs over small inputs; those of SpriteImageChecks the pixels.        *)
(***************************************************************************)
EXTENDS SpritePipeline, LevelEditor, SpriteImageChecks

CONSTANTS alien, pickups, explosion, directional, formation, alien001, bonuses, blast, unlisted,
          level1, bonus1

VARIABLE tool

MCShotsOf == alien :> <<directional, formation>> @@ pickups :> <<>> @@ explosion :> <<>>
MCKeysOf == alien :> <<alien001>> @@ pickups :> <<bonuses>> @@ explosion :> <<blast, unlisted>>

----------------------------------------------------------------------------
(* A level of seven blocks of two words: two shop chunks that do not touch, *)
(* six bytes of bitmap names and block 2, which no section covers.  level1 *)
(* and bonus1 have the same base name and bonus1 a name that is cut short. *)

MCStemOf == level1 :> 1 @@ bonus1 :> 1

MCLayout ==
    [words |-> 2, entryWords |-> 3, names |-> "news", chunks |-> <<"chunk_0", "chunk_1">>,
     sections |-> [header  |-> [first |-> 0, last |-> 0], chunk_0 |-> [first |-> 1, last |-> 1],
                   chunk_1 |-> [first |-> 3, last |-> 3], news    |-> [first |-> 4, last |-> 6]]]

Signed == 7
LetterA == 65

MCLevel(names, hole, tail) ==
    [blocks |-> <<<<Signed, 5>>, <<1, 2>>, hole, <<3, 4>>>> \o InGroups(names, 2), tail |-> tail]

MCArchive ==
    level1 :> MCLevel(<<1, LetterA, Bmp, 0, 0, 0>>, <<0, 0>>, <<9>>) @@
    bonus1 :> MCLevel(<<LetterA, Bmp, LetterA, 1, 1, 0>>, <<0, 0>>, <<>>)

\* The last words of the last shop entry lie beyond the chunks.  A longer shop, a
\* missing inventory and another signature are refused, and so is a name that fills
\* the section.
MCChanges(d) ==
    { [d EXCEPT !.shop = Append(@, <<6, 6, 6>>)],
      [d EXCEPT !.shop[1][1] = 8],
      [d EXCEPT !.shop[2][3] = 6],
      [d EXCEPT !.inventory = FALSE],
      [d EXCEPT !.sections["chunk_0"] = <<<<8, 8>>>>],
      [d EXCEPT !.names[1].filename = <<LetterA, LetterA, LetterA, LetterA, LetterA, Bmp>>],
      [d EXCEPT !.sections["header"][1][1] = 0] }

----------------------------------------------------------------------------
(* The codecs. *)

\* What an author does here keeps a descriptor well-formed.
ASSUME \A e \in {level1, bonus1} :
    LET d == ParseLvd(MCLayout, MCArchive[e]) IN WellFormed(d) /\ \A c \in MCChanges(d) : WellFormed(c)

\* The block codec gives the words back when the names have the form it
\* keeps and every section is there, and refuses a file that is too short.
ASSUME \A e \in {level1, bonus1} :
    LET blob == MCArchive[e] IN
    EncodeLvd(MCLayout, ParseLvd(MCLayout, blob)) = blob <=> e = level1

ASSUME \A n \in 0..6 :
    LET blob == [MCArchive[level1] EXCEPT !.blocks = SubSeq(@, 1, n)]
    IN  EncodeLvd(MCLayout, ParseLvd(MCLayout, blob)) = Refused

\* Name sections: whatever five bytes hold, decoding what was encoded finds
\* the same names, unless they no longer fit.
NameBytes == {0, 1, Space, LetterA, Bmp, NotAscii}

NamesFound(scan) ==
    SelectSeq([i \in DOMAIN scan.entries |-> scan.entries[i].filename], LAMBDA name : name # <<>>)

ASSUME \A bytes \in [1..5 -> NameBytes] :
    LET scan == DecodeNames(bytes)
        again == EncodeNames(scan.entries, scan.padding, 5)
    IN  again # Refused => NamesFound(DecodeNames(again)) = NamesFound(scan)

\* The retail level file has 0x1CB98 bytes and its tables where they are.
Retail == [groups |-> 25, enemies |-> 50, points |-> 150, title |-> 9, author |-> 13, resources |-> 153, fixed |-> 50]

ASSUME
    /\ FileWords(Retail) * 4 = 117656
    /\ [i \in DOMAIN Regions(Retail) |-> 4 * RegionStart(Retail, Regions(Retail)[i][1])]
         = <<0, 108, 41008, 41108, 41144, 41196, 116196, 116808, 117608, 117632>>

\* The lossless codec: a level is given back word for word or refused, the
\* groups shown are not what is encoded, and raw words that do not match
\* their hash are refused.
Tiny == [groups |-> 2, enemies |-> 1, points |-> 1, title |-> 1, author |-> 1, resources |-> 1, fixed |-> 1]

TinyLevels ==
    {[i \in 1..FileWords(Tiny) |->
        CASE i = 2 -> groups
          [] i = GroupStart(Tiny, 0) + 5 -> enemies
          [] i = GroupStart(Tiny, 1) + 5 -> other
          [] i = RegionStart(Tiny, "path_point_counts") + 1 -> points
          [] OTHER -> i] : groups \in -1..3, enemies, other, points \in {-1, 0, 1, 2}}

ASSUME \A blob \in TinyLevels :
    LET d == DecodeLevel(Tiny, blob) IN
    IF d = Refused THEN ~Readable(Tiny, blob)
    ELSE /\ EncodeLevel(Tiny, d) = blob
         /\ EncodeLevel(Tiny, [d EXCEPT !.groups = <<>>]) = blob
         /\ EncodeLevel(Tiny, [d EXCEPT !.raw[1] = 0]) = Refused
         /\ EncodeLevel(Tiny, [d EXCEPT !.raw = Tail(@), !.sha256 = <<>>]) = Refused

ASSUME \A raw \in [1..3 -> 0..3] :
    LET s == PascalSlot(raw) IN
    /\ <<s.length>> \o s.payload \o s.padding = raw
    /\ s.valid <=> Len(s.payload) = s.length

\* The path codec: a file is given back word for word, and a document is
\* encoded only if decoding it gives that document.
ASSUME \A last \in -1..3, cut \in 0..1 :
    LET blob == [i \in 1..(20 - cut) |-> IF i = 20 - cut THEN last ELSE i]
        d == DecodePath(2, blob)
    IN  IF d = Refused THEN cut = 1 \/ last \notin 0..2
        ELSE /\ EncodePath(2, d) = blob
             /\ EncodePath(2, [d EXCEPT !.active = 3]) = Refused
             /\ EncodePath(2, [d EXCEPT !.points = <<@[2], @[1]>>]) = Refused

----------------------------------------------------------------------------

MCInit == PipelineInit /\ EditorInit /\ tool \in {"sprites", "levels"}

MCNext ==
    \/ tool = "sprites" /\ PipelineNext /\ UNCHANGED <<editorVars, tool>>
    \/ tool = "levels" /\ EditorNext /\ UNCHANGED <<pipelineVars, tool>>

MCSpec == MCInit /\ [][MCNext]_<<pipelineVars, editorVars, tool>>

Symmetry == Permutations(Authors) \cup Permutations(Prompts) \cup Permutations(Users)
=============================================================================
