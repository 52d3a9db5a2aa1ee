------------------------------ MODULE LvdCodec ------------------------------
(***************************************************************************)
(* How level and path files become JSON descriptors and back.              *)
(*                                                                         *)
(* Three codecs: the block codec of Parser/scripts/parse_warblade_lvd.py,  *)
(* whose descriptor authors edit; the lossless level codec of              *)
(* tools/lvd_decoder.py, whose JSON carries the raw file; and the          *)
(* structured path codec of tools/swd_decoder.py.  A file is a sequence of *)
(* words; the widths of its tables are parameters.                         *)
(***************************************************************************)
EXTENDS Integers, Sequences, SequencesExt, FiniteSets, FiniteSetsExt, Functions, TLC

CONSTANT Refused    \* the codec raised an error

Zeros(n) == [i \in 1..n |-> 0]

\* n words after the first k, zeros where there are fewer.
Slice(words, k, n) == [i \in 1..n |-> IF k + i <= Len(words) THEN words[k + i] ELSE 0]

Refit(words, n) == Slice(words, 0, n)

InGroups(words, n) == [i \in 1..((Len(words) + n - 1) \div n) |-> Slice(words, (i - 1) * n, n)]

----------------------------------------------------------------------------
(***************************************************************************)
(* The block codec.  lay is the layout: the words of a block and of a shop *)
(* entry, the sections (first and last block, counted from 0), the shop    *)
(* chunks in order and the section of bitmap names.                        *)
(*                                                                         *)
(* A name section holds bytes.  Below 32 is padding, 0 ends a name; ".bmp" *)
(* is one byte here, and so is whatever is not ASCII.                      *)
(***************************************************************************)
Space == 32
Bmp == 46
NotAscii == 200

\* The name as it is kept: ASCII only, nothing after .bmp, no outer spaces.
NameOf(raw) ==
    LET kept[i \in 0..Len(raw)] ==
            IF i = 0 THEN <<>> ELSE IF raw[i] < 128 THEN Append(kept[i - 1], raw[i]) ELSE kept[i - 1]
        ascii == kept[Len(raw)]
        cut == IF Contains(ascii, Bmp) THEN SubSeq(ascii, 1, Min({i \in DOMAIN ascii : ascii[i] = Bmp})) ELSE ascii
        inner == {i \in DOMAIN cut : cut[i] # Space}
    IN  IF inner = {} THEN <<>> ELSE SubSeq(cut, Min(inner), Max(inner))

NoScan == [entries |-> <<>>, padding |-> <<>>, raw |-> <<>>]

Named(s) == [s EXCEPT !.entries = Append(@, [padding |-> s.padding, filename |-> NameOf(s.raw)]),
                      !.padding = <<>>, !.raw = <<>>]

ScanByte(s, byte) ==
    CASE byte >= 32                -> [s EXCEPT !.raw = Append(@, byte)]
      [] byte < 32 /\ s.raw = <<>> -> [s EXCEPT !.padding = Append(@, byte)]
      [] byte = 0 /\ s.raw # <<>>  -> Named(s)
      [] OTHER                     -> [Named(s) EXCEPT !.padding = <<byte>>]

DecodeNames(bytes) ==
    LET scan[i \in 0..Len(bytes)] == IF i = 0 THEN NoScan ELSE ScanByte(scan[i - 1], bytes[i])
        s == scan[Len(bytes)]
    IN  IF s.raw = <<>> THEN s ELSE Named(s)

EncodeNames(entries, trailing, size) ==
    LET bytes == FlattenSeq([i \in DOMAIN entries |-> entries[i].padding \o entries[i].filename \o <<0>>]) \o trailing
    IN  IF Len(bytes) > size \/ \E i \in DOMAIN entries : \E b \in Range(entries[i].filename) : b >= 128
        THEN Refused ELSE Refit(bytes, size)

Section(lay, blocks, name) ==
    LET s == lay.sections[name]
    IN  IF s.last < Len(blocks) THEN SubSeq(blocks, s.first + 1, s.last + 1) ELSE <<>>

Width(lay, name) == lay.sections[name].last - lay.sections[name].first + 1

Covered(lay) == UNION {s.first..s.last : s \in Range(lay.sections)}

\* Blocks outside every section are kept when they are not zero.
Remainder(lay, blocks) ==
    {[block |-> i - 1, values |-> blocks[i]] :
        i \in {j \in DOMAIN blocks : j - 1 \notin Covered(lay) /\ blocks[j] # Zeros(lay.words)}}

\* The records of the shop chunks, in order.
ChunkRecords(lay, sections) == FlattenSeq([i \in DOMAIN lay.chunks |-> sections[lay.chunks[i]]])

ShopEntries(lay, sections) == InGroups(FlattenSeq(ChunkRecords(lay, sections)), lay.entryWords)

ParseLvd(lay, blob) ==
    LET sections == [name \in DOMAIN lay.sections |-> Section(lay, blob.blocks, name)]
        shop == ShopEntries(lay, sections)
        names == DecodeNames(FlattenSeq(sections[lay.names]))
    IN  [total |-> Len(blob.blocks), sections |-> sections, inventory |-> shop # <<>>, shop |-> shop,
         names |-> names.entries, trailing |-> names.padding,
         remainder |-> Remainder(lay, blob.blocks), tail |-> blob.tail]

\* Mutant of ShopChunks: the chunks are taken as they are, whatever the
\* inventory has become.
ShopChunksOld(lay, d) == [i \in DOMAIN lay.chunks |-> d.sections[lay.chunks[i]]]

\* The words of the inventory go back to the chunks, in order; what does not
\* fit is dropped, and what it does not fill, all of it when its records are
\* gone, is zero.  Without an inventory the chunks are taken as they are.
ShopChunks(lay, d) ==
    LET words == FlattenSeq(d.shop)
        size(i) == Len(d.sections[lay.chunks[i]]) * lay.words
        cursor[i \in DOMAIN lay.chunks] == IF i = 1 THEN 0 ELSE cursor[i - 1] + size(i - 1)
    IN  [i \in DOMAIN lay.chunks |->
            IF ~d.inventory THEN d.sections[lay.chunks[i]]
            ELSE InGroups(Slice(words, cursor[i], size(i)), lay.words)]

Encoded(lay, d) ==
    LET bytes == EncodeNames(d.names, d.trailing, Width(lay, lay.names) * lay.words)
    IN  [name \in DOMAIN lay.sections |->
            CASE name = lay.names       -> IF bytes = Refused THEN Refused ELSE InGroups(bytes, lay.words)
              [] Contains(lay.chunks, name) -> ShopChunks(lay, d)[Min({i \in DOMAIN lay.chunks : lay.chunks[i] = name})]
              [] OTHER                  -> d.sections[name]]

\* A block is packed only from as many integers as it has words.
Record(lay) == [1..lay.words -> Int]

EncodeLvd(lay, d) ==
    LET records == Encoded(lay, d)
        Holder(b) == {name \in DOMAIN lay.sections : b \in lay.sections[name].first..lay.sections[name].last}
        Extra(b) == {e \in d.remainder : e.block = b}
        Block(b) == CASE Extra(b) # {} -> (CHOOSE e \in Extra(b) : TRUE).values
                      [] Extra(b) = {} /\ Holder(b) # {} ->
                           LET name == CHOOSE n \in Holder(b) : TRUE
                           IN  records[name][b - lay.sections[name].first + 1]
                      [] OTHER -> Zeros(lay.words)
    IN  IF \/ d.total \notin Nat
           \/ \E name \in DOMAIN records : \/ records[name] \notin [1..Width(lay, name) -> Record(lay)]
                                            \/ lay.sections[name].last >= d.total
           \/ \E e \in d.remainder : e.block >= d.total \/ e.values \notin Record(lay)
        THEN Refused
        ELSE [blocks |-> [i \in 1..d.total |-> Block(i - 1)], tail |-> d.tail]

----------------------------------------------------------------------------
(***************************************************************************)
(* The lossless level codec.  lay gives the number of group, enemy, point, *)
(* resource and fixed-table slots of the file.                             *)
(***************************************************************************)
GroupWords(lay) == 9 + lay.enemies * 8
PointsWords(lay) == lay.points * 5

\* The regions of the file, in words: name and size.
Regions(lay) ==
    << <<"global_header", 27>>, <<"group_slots", lay.groups * GroupWords(lay)>>, <<"path_point_counts", lay.groups>>,
       <<"title", lay.title>>, <<"author", lay.author>>, <<"path_points", lay.groups * PointsWords(lay)>>,
       <<"resources", lay.resources>>, <<"fixed_table", lay.fixed * 4>>, <<"tail_a", 6>>, <<"tail_b", 6>> >>

RegionStart(lay, name) ==
    LET i == CHOOSE j \in DOMAIN Regions(lay) : Regions(lay)[j][1] = name
    IN  MapThenSumSet(LAMBDA j : Regions(lay)[j][2], 1..(i - 1))

FileWords(lay) == MapThenSumSet(LAMBDA j : Regions(lay)[j][2], DOMAIN Regions(lay))

Word(blob, offset) == blob[offset + 1]

Groups(lay, blob) == Word(blob, 1)
GroupStart(lay, g) == RegionStart(lay, "group_slots") + g * GroupWords(lay)
Enemies(lay, blob, g) == Word(blob, GroupStart(lay, g) + 4)
Points(lay, blob, g) == Word(blob, RegionStart(lay, "path_point_counts") + g)

\* Only the counts of active groups are looked at.
Readable(lay, blob) ==
    /\ Len(blob) = FileWords(lay)
    /\ Groups(lay, blob) \in 0..lay.groups
    /\ \A g \in 0..(Groups(lay, blob) - 1) :
         Enemies(lay, blob, g) \in 0..lay.enemies /\ Points(lay, blob, g) \in 0..lay.points

EnemyRecord(lay, blob, g, e) == Slice(blob, GroupStart(lay, g) + 9 + e * 8, 8)

PathPoint(lay, blob, g, p) == Slice(blob, RegionStart(lay, "path_points") + g * PointsWords(lay) + p * 5, 5)

\* A slot of a Pascal string: its length byte may be more than the slot holds.
PascalSlot(raw) ==
    LET size == Len(raw)
        used == Min({raw[1], size - 1})
    IN  [length |-> raw[1], valid |-> raw[1] <= size - 1,
         payload |-> SubSeq(raw, 2, 1 + used), padding |-> SubSeq(raw, 2 + used, size)]

\* A hash is modelled by the bytes it is taken of.
DecodeLevel(lay, blob) ==
    IF ~Readable(lay, blob) THEN Refused
    ELSE [schema |-> "warblade.lvd.lossless.v1", sha256 |-> blob, raw |-> blob,
          groups |-> [g \in 0..(Groups(lay, blob) - 1) |->
              [header |-> Slice(blob, GroupStart(lay, g), 9),
               enemies |-> [e \in 0..(Enemies(lay, blob, g) - 1) |-> EnemyRecord(lay, blob, g, e)],
               points |-> [p \in 0..(Points(lay, blob, g) - 1) |-> PathPoint(lay, blob, g, p)]]]]

\* The raw words are the authority; the groups of the document are not read.
\* A document may lack the hash, which is <<>> here.
EncodeLevel(lay, d) ==
    IF /\ d.schema = "warblade.lvd.lossless.v1"
       /\ d.sha256 \in {<<>>, d.raw}
       /\ Readable(lay, d.raw)
    THEN d.raw ELSE Refused

----------------------------------------------------------------------------
(* The path codec: nine header words, slots of five words, the count. *)

DecodePath(slots, blob) ==
    IF Len(blob) # 9 + slots * 5 + 1 \/ Last(blob) \notin 0..slots THEN Refused
    ELSE [header |-> Slice(blob, 0, 9), active |-> Last(blob),
          points |-> [i \in 1..slots |-> [slot_index |-> i - 1, words |-> Slice(blob, 9 + (i - 1) * 5, 5)]]]

EncodePath(slots, d) ==
    IF /\ Len(d.header) = 9
       /\ d.active \in 0..slots
       /\ Len(d.points) = slots
       /\ \A i \in DOMAIN d.points : d.points[i].slot_index = i - 1 /\ Len(d.points[i].words) = 5
    THEN d.header \o FlattenSeq([i \in DOMAIN d.points |-> d.points[i].words]) \o <<d.active>>
    ELSE Refused
=============================================================================
