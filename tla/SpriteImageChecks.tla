-------------------------- MODULE SpriteImageChecks --------------------------
(***************************************************************************)
(* What the image operators do to every small picture.                     *)
(***************************************************************************)
EXTENDS Integers, Sequences, FiniteSets, FiniteSetsExt, Functions

\* A palette keeps the least colours, and a colour takes the closest of it.
First(set, n) == {c \in set : Cardinality({d \in set : d < c}) < n}
Distance(c, d) == IF c < d THEN d - c ELSE c - d
Closest(set, c) == CHOOSE d \in set : \A e \in set : Distance(c, d) <= Distance(c, e)
Same(c) == c
Shifted(palette, index) == index + 100
Seven(image) == 7
Spins(k, of) == <<IF 2 * k < of THEN of - 2 * k ELSE 2 * k - of, of>>

INSTANCE SpriteImage WITH MedianCut <- First, Nearest <- Closest, IndexOf <- Closest, Grade <- Same,
                          Styled <- Shifted, OutlineOf <- Seven, Luminance <- Same, Spin <- Spins

Cut(mask, width, height, colour) ==
    Image(width, height, [p \in Grid(width, height) |-> IF p \in mask THEN Opaque(colour) ELSE Clear])

\* Scaling down does not let the black of clear pixels into the edges.
ASSUME \A colour \in {60, 200, 255}, mask \in SUBSET Grid(4, 2) :
    LET small == PremultipliedDownscale(Cut(mask, 4, 2, colour), 2, 1)
    IN  \A p \in Visible(small) : small.at[p][2] \in (colour - 4)..colour

\* Nor does the halving that comes first for large renders, which rounds more
\* often, the more so the fainter the pixel.
ASSUME \A mask \in {(0..a) \X (b..7) : a, b \in {0, 2, 5}} :
    LET small == PremultipliedDownscale(Cut(mask, 8, 8, 200), 1, 1)
    IN  \A p \in Visible(small) : Magnitude(small.at[p][2] - 200) <= 2 + 510 \div small.at[p][1]

\* The finish keeps the silhouette above the threshold and uses one palette
\* and one outline colour; the ring outside grows it by what lies beside it.
FinishCfg == [threshold |-> 96, passes |-> 2, colours |-> 0]

ASSUME \A mask \in SUBSET Grid(3, 2) :
    LET image == Image(3, 2, [p \in Grid(3, 2) |-> IF p \in mask THEN <<96, 10 * p[1] + p[2]>> ELSE <<95, 99>>])
        done == PixelArtFinish(<<image, Cut(mask, 3, 2, 5)>>, FinishCfg)
        ring == OutlineSprite(done[1], 8)
    IN  /\ Visible(done[1]) = mask /\ Visible(done[2]) = mask
        /\ Cardinality(Colours(done) \ {7}) <= 2 + 1
        /\ \A p \in mask : done[1].at[p] = Opaque(7) <=> ~(Beside(p) \subseteq mask)
        /\ Visible(ring) = mask \cup {p \in Grid(3, 2) : Beside(p) \cap mask # {}}
        /\ Visible(DeriveMaskSheet(done[1])) = mask
        /\ SilhouetteIoU(done[1], image)[1] = Cardinality(mask)

ASSUME \A picture \in [Grid(2, 2) -> 0..3] :
    LET frame == Image(2, 2, [p \in Grid(2, 2) |-> Opaque(picture[p])])
        shared == QuantizeShared(<<frame, Cut(Grid(2, 2), 2, 2, 9)>>, 2)
    IN  /\ Cardinality(Colours(shared)) <= 2
        /\ QuantizeShared(<<frame>>, 0) = <<frame>>

\* The cleanup kills a pixel that differs from all around it, except in a
\* corner, which has too few neighbours to be outvoted.
ASSUME \A indices \in [Grid(3, 3) -> 0..1], p \in Grid(3, 3) :
    (\A q \in Around(p) \cap Grid(3, 3) : indices[q] # indices[p]) =>
        (MajorityFilter(indices, Grid(3, 3))[p] = indices[p] <=> p \in {0, 2} \X {0, 2})

\* A reference of another size, or clear everywhere, is compared all the same;
\* one that is opaque everywhere is taken for a full rectangle.
ASSUME \A mask \in SUBSET Grid(2, 2) :
    LET large == Cut({p \in Grid(4, 4) : <<p[1] \div 2, p[2] \div 2>> \in mask}, 4, 4, 99)
        dark == Image(2, 2, [p \in Grid(2, 2) |-> <<0, IF p \in mask THEN 99 ELSE 0>>])
        opaque == Image(2, 2, [p \in Grid(2, 2) |-> Opaque(IF p \in mask THEN 99 ELSE 0)])
        iou == SilhouetteIoU(Cut(mask, 2, 2, 1), large)
    IN  /\ iou[1] = Cardinality(mask)
        /\ mask # {} => iou = SilhouetteIoU(Cut(mask, 2, 2, 1), dark)
        /\ SilhouetteIoU(Cut(mask, 2, 2, 1), opaque) = <<Cardinality(mask), 4>>

\* Turning back gives the hue back, but for the angles that round twice to even.
ASSUME \A degrees \in 1..359, hue \in {0, 1, 100, 254} :
    LET back == HueRotate(HueRotate(hue, degrees), 360 - degrees)
    IN  IF degrees % 24 = 12 THEN back \in {(hue + 1) % 255, (hue + 254) % 255} ELSE back = hue

ASSUME /\ DominantGlow(<<<<255, <<9, 9, 9>>>>, <<255, <<9, 0, 0>>>>, <<128, <<0, 9, 0>>>>, <<127, <<255, 0, 0>>>>>>) = <<9, 9, 9>>
       /\ DominantGlow(<<<<200, <<9, 0, 0>>>>, <<200, <<0, 9, 0>>>>>>) = <<9, 0, 0>>
       /\ DominantGlow(<<<<0, <<9, 0, 0>>>>>>) = <<255, 200, 90>>

\* The retail layout in cells of two pixels: large frames in seven columns,
\* directional ones below them, formation ones at the right.  No frame or shot
\* overwrites another, and together they fill the sheet.
SheetLayout ==
    [width |-> 36, height |-> 6, cell |-> 2, column |-> 28,
     shots |-> <<<<30, 0, 2, 2>>, <<30, 2, 2, 2>>>>,
     rects |-> [directional |-> [i \in 1..16 |-> <<2 * (i - 1), 4, 2, 2>>],
                formation |-> <<<<32, 4, 2, 2>>, <<34, 4, 2, 2>>, <<32, 0, 2, 2>>, <<34, 0, 2, 2>>, <<32, 2, 2, 2>>, <<34, 2, 2, 2>>>>,
                large |-> [i \in 1..7 |-> <<4 * (i - 1), 0, 4, 4>>]]]

Solid(width, height, colour) == Cut(Grid(width, height), width, height, colour)
Orbs == [size \in {2} |-> Solid(size, size, 99)]

Posted == [directional |-> [i \in 1..16 |-> Solid(2, 2, i)], formation |-> [i \in 1..6 |-> Solid(2, 2, 20 + i)],
           large |-> [i \in 1..7 |-> Solid(4, 4, 30 + i)]]

ASSUME
    LET sheet == ComposeEnemySheet(SheetLayout, Posted, Orbs)
        held(rect) == {sheet.at[<<rect[1] + p[1], rect[2] + p[2]>>] : p \in Grid(rect[3], rect[4])}
    IN  /\ \A family \in DOMAIN Posted, i \in 1..16 :
             i \in DOMAIN Posted[family] => held(SheetLayout.rects[family][i]) = {Posted[family][i].at[<<0, 0>>]}
        /\ \A x \in {28, 30}, y \in {0, 2} : held(<<x, y, 2, 2>>) = {Opaque(99)}
        /\ Visible(sheet) = Grid(36, 6)
        /\ Refuses(ComposeEnemySheet(SheetLayout, [Posted EXCEPT !.large = <<Solid(2, 2, 1)>>], Orbs))

\* The storage row of a fighter sheet stays clear.
ASSUME
    LET rects == [i \in 1..11 |-> <<4 * (i - 1), 0, 4, 3>>]
        sheet == ComposeFighterSheet([width |-> 44, height |-> 4, rects |-> rects], [i \in 1..11 |-> Solid(4, 3, i)])
    IN  Visible(sheet) = Grid(44, 3) /\ sheet.at[<<13, 2>>] = Opaque(4)

\* Every weapon slot shows something, the same on both sides.
ASSUME \A width \in 1..9, height \in 1..24 :
    LET bolt == PaintBolt(Blank(width, height), <<0, 0, width, height>>)
    IN  /\ Visible(bolt) # {}
        /\ \A p \in DOMAIN bolt.at : bolt.at[p] = bolt.at[<<width - 1 - p[1], p[2]>>]

\* Weapons that share a cell draw it once; the others keep to their cells.
ASSUME
    LET one == <<0, 0, 4, 10>>
        other == <<4, 0, 6, 10>>
        sheet(rects) == ComposeWeaponsSheet([width |-> 10, height |-> 10, rects |-> rects])
    IN  sheet(<<one, other, one>>) = sheet(<<other, one>>)

\* A letter lies on the face of its coin, never across the rim.
ASSUME \A tenths \in 6..10 :
    LET coin == PaintToken(Blank(20, 20), <<0, 0, 20, 20>>, <<tenths, 10>>, {})
    IN  \A p \in Grid(3, 5) : coin.at[<<8 + p[1], 7 + p[2]>>] \in {Opaque("core"), Opaque("bright"), Opaque("gold"), Opaque("gold deep")}

ASSUME
    LET sheet == ComposePickupsSheet(80, 20, <<[x |-> 0, y |-> 0, size |-> 20, frames |-> 4, glyph |-> Grid(3, 5)]>>)
    IN  \A k \in 0..3 : \E p \in Grid(20, 20) : sheet.at[<<20 * k + p[1], p[2]>>][1] = 255

\* An orb has its three bands; of the explosion only the first frame is empty.
ASSUME \A radius \in {9, 12} :
    LET orb == ShotOrb(32, radius)
    IN  {orb.at[p][2] : p \in Visible(orb)} = {"core", "bright", "rim"}

ASSUME \A frame \in 0..12 : (\A p \in Grid(32, 32) : ExplosionBand(p, 32, frame, 12) = "none") <=> frame = 0

ASSUME LET sheet == ComposeExplosionSheet([width |-> 12, height |-> 8, columns |-> 3, size |-> 4, frames |-> 5])
       IN  \A p \in Visible(sheet) : p[2] < 4 \/ p[1] < 8

ASSUME ContactSheet(<<<<4, 2>>, <<3, 5>>>>, 3) = [width |-> 28, height |-> 45, at |-> <<<<8, 8>>, <<8, 22>>>>]
=============================================================================
