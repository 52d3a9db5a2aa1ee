----------------------------- MODULE SpriteImage -----------------------------
(***************************************************************************)
(* tools/tripo_pipeline.py: what post and sheet do to pixels, as           *)
(* operators.                                                              *)
(*                                                                         *)
(* An image has a width, a height and, at every <<x, y>>, a pixel <<alpha, *)
(* colour>>.  Where colours are computed one channel stands for the three. *)
(* What PIL and colorsys do to colours (quantizing, grading, hues) is a    *)
(* parameter.  Fractions are <<numerator, denominator>>.                   *)
(***************************************************************************)
EXTENDS Integers, Sequences, FiniteSets, FiniteSetsExt, Functions

CONSTANTS MedianCut(_, _),    \* the palette of a set of colours, and its size
          Nearest(_, _),      \* the colour of a palette nearest to a colour
          IndexOf(_, _),      \* its index
          Grade(_),           \* a colour after contrast and saturation
          Styled(_, _),       \* what stylize_palette makes of a palette's index
          OutlineOf(_),       \* the outline colour for an image
          Luminance(_),       \* of a colour
          Spin(_, _)          \* |cos| of a frame's share of half a turn

Grid(width, height) == (0..(width - 1)) \X (0..(height - 1))

Image(width, height, pixels) == [width |-> width, height |-> height, at |-> pixels]

Clear == <<0, 0>>
Opaque(colour) == <<255, colour>>
Blank(width, height) == Image(width, height, [p \in Grid(width, height) |-> Clear])

Visible(image) == {p \in DOMAIN image.at : image.at[p][1] > 0}

Beside(p) == {<<p[1] - 1, p[2]>>, <<p[1] + 1, p[2]>>, <<p[1], p[2] - 1>>, <<p[1], p[2] + 1>>}
Around(p) == (((p[1] - 1)..(p[1] + 1)) \X ((p[2] - 1)..(p[2] + 1))) \ {p}

Magnitude(n) == IF n < 0 THEN -n ELSE n
Least(a, b) == Min({a, b})
Most(a, b) == Max({a, b})

\* a <= b for fractions.
Below(a, b) == a[1] * b[2] <= b[1] * a[2]

----------------------------------------------------------------------------
(* PIL. *)

\* Box filter: a target pixel is the mean of the pixels whose centre it covers.
BoxResize(image, width, height) ==
    LET covers(j, i, source, target) == 2 * j * source < (2 * i + 1) * target /\ (2 * i + 1) * target <= 2 * (j + 1) * source
        block(q) == {p \in DOMAIN image.at : covers(q[1], p[1], image.width, width) /\ covers(q[2], p[2], image.height, height)}
        mean(q, k) == LET n == Cardinality(block(q))
                      IN  (2 * FoldFunctionOnSet(+, 0, [p \in DOMAIN image.at |-> image.at[p][k]], block(q)) + n) \div (2 * n)
    IN  Image(width, height, [q \in Grid(width, height) |-> <<mean(q, 1), mean(q, 2)>>])

NearestResize(image, width, height) ==
    Image(width, height, [q \in Grid(width, height) |-> image.at[<<((2 * q[1] + 1) * image.width) \div (2 * width),
                                               ((2 * q[2] + 1) * image.height) \div (2 * height)>>]])

\* paste with the pasted image's own alpha; what falls outside is lost.
Paste(canvas, image, x, y) ==
    Image(canvas.width, canvas.height,
          [p \in DOMAIN canvas.at |-> LET q == <<p[1] - x, p[2] - y>>
                     IN  IF q \in DOMAIN image.at /\ image.at[q][1] > 0 THEN image.at[q] ELSE canvas.at[p]])

----------------------------------------------------------------------------
(* Finishing a render. *)

Halvings == 10    \* a render is less than 2^Halvings times its cell

PremultipliedDownscale(image, width, height) ==
    LET scaled(c, a) == ((c * a + 128) + (c * a + 128) \div 256) \div 256
        working[n \in 0..Halvings] ==
            IF n = 0
            THEN Image(image.width, image.height,
                       [p \in DOMAIN image.at |-> <<image.at[p][1], scaled(image.at[p][2], image.at[p][1])>>])
            ELSE LET w == working[n - 1]
                 IN  IF w.width >= width * 4 /\ w.height >= height * 4
                     THEN BoxResize(w, Most(1, w.width \div 2), Most(1, w.height \div 2))
                     ELSE w
        small == BoxResize(working[Halvings], width, height)
    IN  Image(width, height, [p \in Grid(width, height) |->
            LET pixel == small.at[p]
            IN  IF pixel[1] <= 0 THEN Clear ELSE <<pixel[1], Least(255, (pixel[2] * 255) \div pixel[1])>>])

ThresholdAlpha(image, threshold) ==
    Image(image.width, image.height,
          [p \in DOMAIN image.at |-> <<IF image.at[p][1] >= threshold THEN 255 ELSE 0, image.at[p][2]>>])

Colours(frames) == UNION {{f.at[p][2] : p \in DOMAIN f.at} : f \in Range(frames)}

\* One palette for all the frames of a shot.
QuantizeShared(frames, colours) ==
    LET palette == MedianCut(Colours(frames), colours)
    IN  IF colours <= 0 \/ frames = <<>> THEN frames
        ELSE [i \in DOMAIN frames |->
                 Image(frames[i].width, frames[i].height,
                       [p \in DOMAIN frames[i].at |-> <<frames[i].at[p][1], Nearest(palette, frames[i].at[p][2])>>])]

Votes(indices, mask, p, index) == Cardinality({q \in Around(p) \cap mask : indices[q] = index})

MajorityFilter(indices, mask) ==
    [p \in DOMAIN indices |->
        LET winners == {indices[q] : q \in {r \in Around(p) \cap mask : Votes(indices, mask, p, indices[r]) >= 5}}
        IN  IF p \in mask /\ winners # {} THEN CHOOSE i \in winners : TRUE ELSE indices[p]]

EdgeOutline(image, colour) ==
    LET visible == Visible(image)
    IN  Image(image.width, image.height,
              [p \in DOMAIN image.at |-> IF p \in visible /\ ~(Beside(p) \subseteq visible) THEN Opaque(colour) ELSE image.at[p]])

\* cfg: threshold, passes, colours.  The first frame gives all the outline's colour.
PixelArtFinish(frames, cfg) ==
    LET mask(f) == {p \in DOMAIN f.at : f.at[p][1] >= cfg.threshold}
        graded(f) == [p \in DOMAIN f.at |-> Grade(f.at[p][2])]
        palette == MedianCut(UNION {Range(graded(f)) : f \in Range(frames)}, cfg.colours + 2)
        flat(f) ==
            LET indices[n \in 0..cfg.passes] ==
                    IF n = 0 THEN [p \in DOMAIN f.at |-> IndexOf(palette, graded(f)[p])]
                    ELSE MajorityFilter(indices[n - 1], mask(f))
                kept == indices[cfg.passes]
            IN  Image(f.width, f.height,
                      [p \in DOMAIN f.at |-> <<IF p \in mask(f) THEN 255 ELSE 0, Styled(palette, kept[p])>>])
    IN  [i \in DOMAIN frames |-> EdgeOutline(flat(frames[i]), OutlineOf(flat(frames[1])))]

\* The other outline, a ring outside the silhouette: it may be cut off.
OutlineSprite(image, colour) ==
    LET visible == Visible(image)
    IN  Image(image.width, image.height,
              [p \in DOMAIN image.at |-> IF p \notin visible /\ Beside(p) \cap visible # {} THEN Opaque(colour) ELSE image.at[p]])

\* A reference that is clear everywhere is judged by its luminance.  One that
\* is opaque everywhere is not, although the comment of the source says so.
SilhouetteIoU(candidate, reference) ==
    LET size == <<candidate.width, candidate.height>>
        ref == IF <<reference.width, reference.height>> = size THEN reference
               ELSE NearestResize(reference, candidate.width, candidate.height)
        mask == IF Visible(ref) # {} THEN Visible(ref) ELSE {p \in DOMAIN ref.at : Luminance(ref.at[p][2]) > 16}
        union == Visible(candidate) \cup mask
    IN  IF union = {} THEN <<0, 1>> ELSE <<Cardinality(Visible(candidate) \cap mask), Cardinality(union)>>

\* Half of a unit goes to the even neighbour.
RoundHalfEven(n, d) ==
    LET q == n \div d
        twice == 2 * (n % d)
    IN  IF twice > d \/ (twice = d /\ q % 2 = 1) THEN q + 1 ELSE q

\* Hues are 0..255 and rotate by 255.
HueRotate(hue, degrees) == (hue + (RoundHalfEven(degrees * 255, 360) % 255)) % 255

\* The first of the best pixels <<alpha, <<r, g, b>>>>, in the order of the image.
DominantGlow(pixels) ==
    LET score(c) == c[1] + c[2] + c[3] + 2 * (Max(Range(c)) - Min(Range(c)))
        opaque == {i \in DOMAIN pixels : pixels[i][1] >= 128}
        best == {i \in opaque : \A j \in opaque : score(pixels[j][2]) <= score(pixels[i][2])}
    IN  IF opaque = {} THEN <<255, 200, 90>> ELSE pixels[Min(best)][2]

----------------------------------------------------------------------------
(* Drawing. *)

Bands(colour) ==
    [core |-> <<Least(255, colour[1] + 170), Least(255, colour[2] + 170), Least(255, colour[3] + 150)>>,
     bright |-> colour,
     deep |-> <<(colour[1] * 55) \div 100, (colour[2] * 55) \div 100, (colour[3] * 62) \div 100>>]

\* Twice the distance from the centre of a width-by-height slot, squared.
FromCentre(p, width, height) == (2 * p[1] - (width - 1)) * (2 * p[1] - (width - 1))
                              + (2 * p[2] - (height - 1)) * (2 * p[2] - (height - 1))

\* Whether that distance is at most r, a fraction.
Reaches(square, r) == r[1] >= 0 /\ square * r[2] * r[2] <= 4 * r[1] * r[1]

ShotOrb(size, radius) ==
    Image(size, size, [p \in Grid(size, size) |->
        LET square == FromCentre(p, size, size)
        IN  IF ~Reaches(square, <<radius, 1>>) THEN Clear
            ELSE Opaque(CASE Reaches(square, <<radius * 45, 100>>) -> "core"
                          [] ~Reaches(square, <<radius * 45, 100>>) /\ Reaches(square, <<radius * 8, 10>>) -> "bright"
                          [] OTHER -> "rim")])

\* A slot <<x, y, width, height>> of the canvas is drawn on in bands; "none" leaves a pixel.
Drawn(canvas, slot, bands) ==
    Image(canvas.width, canvas.height, [p \in DOMAIN canvas.at |->
        LET q == <<p[1] - slot[1], p[2] - slot[2]>>
        IN  IF q \in Grid(slot[3], slot[4]) /\ bands[q] # "none" THEN Opaque(bands[q]) ELSE canvas.at[p]])

\* Its visible pixels beside a clear one, or at its border, become ink.
Inked(canvas, slot) ==
    LET inside == {<<p[1] + slot[1], p[2] + slot[2]>> : p \in Grid(slot[3], slot[4])} \cap Visible(canvas)
    IN  Image(canvas.width, canvas.height, [p \in DOMAIN canvas.at |->
            IF p \in inside /\ ~(Beside(p) \subseteq inside) THEN Opaque("ink") ELSE canvas.at[p]])

\* A beam, a capsule, or a comet with a head and a narrowing trail.
BoltBand(p, width, height) ==
    LET comet == 10 * height >= 22 * Most(1, width)
        head == IF comet THEN Least(width, height) ELSE height
        dx == <<Magnitude(2 * p[1] - (width - 1)), Most(1, width)>>
        span == Most(1, height - head)
        tip == IF comet THEN Least(p[2], Most(0, head - p[2])) ELSE Least(p[2], height - 1 - p[2])
        round == IF 2 * tip + 3 > Least(width, height) + 1 THEN <<1, 1>> ELSE <<2 * tip + 3, Least(width, height) + 1>>
        trail == comet /\ p[2] > head
        reach == IF trail THEN <<10 * span - 6 * (p[2] - head), 10 * span>> ELSE round
        within(f) == Below(<<100 * dx[1], dx[2]>>, <<f * reach[1], reach[2]>>) /\ 100 * dx[1] * reach[2] # f * reach[1] * dx[2]
    IN  IF ~Below(dx, reach) THEN "none"
        ELSE IF within(IF trail THEN 35 ELSE 40) THEN "core"
        ELSE IF within(IF trail THEN 75 ELSE 80) THEN "bright" ELSE "deep"

PaintBolt(canvas, slot) ==
    LET drawn == Drawn(canvas, slot, [p \in Grid(slot[3], slot[4]) |-> BoltBand(p, slot[3], slot[4])])
    IN  IF slot[3] >= 6 THEN Inked(drawn, slot) ELSE drawn

\* factor: |cos(phase)|, how much of the coin is turned to the viewer.
TokenBand(p, size, factor) ==
    LET across == IF Below(<<3 * factor[2], factor[2]>>, <<(size - 3) * factor[1], factor[2]>>)
                  THEN <<(size - 3) * factor[1], factor[2]>> ELSE <<3, 1>>
        a == (2 * p[1] - (size - 1)) * across[2]
        b == 2 * p[2] - (size - 1)
        top == a * a * (size - 3) * (size - 3) + b * b * across[1] * across[1]
        bottom == across[1] * across[1] * (size - 3) * (size - 3)
    IN  CASE top > bottom -> "none"
          [] top <= bottom /\ 50 * top > 31 * bottom ->
                IF (p[1] + p[2]) % 2 = 0 \/ 2 * factor[1] < factor[2] THEN "gold" ELSE "gold deep"
          [] 50 * top <= 31 * bottom -> IF 5 * top > bottom THEN "bright" ELSE "core"

\* glyph: the marked cells of three columns and five rows.
PaintToken(canvas, slot, factor, glyph) ==
    LET size == slot[3]
        coin == Inked(Drawn(canvas, slot, [p \in Grid(slot[3], slot[4]) |-> TokenBand(p, size, factor)]), slot)
        place == <<(size - 3) \div 2, (size - 5) \div 2>>
    IN  IF glyph = {} \/ 100 * factor[1] <= 55 * factor[2] THEN coin
        ELSE Drawn(coin, slot,
                   [p \in Grid(slot[3], slot[4]) |-> IF <<p[1] - place[1], p[2] - place[2]>> \in glyph THEN "glyph" ELSE "none"])

----------------------------------------------------------------------------
(* Sheets.  A rectangle is <<x, y, width, height>>. *)

\* An image of no size stands for the refusal of a frame of the wrong size.
WrongSize == Blank(0, 0)
Refuses(image) == image.width = 0

\* Frames beyond the rectangles, and rectangles beyond the frames, are ignored.
PasteFrames(canvas, frames, rects) ==
    LET n == Least(Len(frames), Len(rects))
        pasted[i \in 0..n] ==
            IF i = 0 THEN canvas
            ELSE IF Refuses(pasted[i - 1]) \/ <<frames[i].width, frames[i].height>> # <<rects[i][3], rects[i][4]>>
            THEN WrongSize
            ELSE Paste(pasted[i - 1], frames[i], rects[i][1], rects[i][2])
    IN  pasted[n]

\* layout: width, height, rects and the first column of the other shot cells.
\* An orb of its size is drawn in each shot cell and, where there is one, in the cell to its left.
ComposeEnemySheet(layout, shots, orbs) ==
    LET families == <<"directional", "formation", "large">>
        posted[i \in 0..3] ==
            IF i = 0 THEN Blank(layout.width, layout.height)
            ELSE IF Refuses(posted[i - 1]) THEN WrongSize
            ELSE PasteFrames(posted[i - 1], shots[families[i]], layout.rects[families[i]])
        orb(k) == orbs[Least(layout.shots[k][3], layout.shots[k][4])]
        shot(canvas, k) == Paste(canvas, orb(k), layout.shots[k][1], layout.shots[k][2])
        mirrored(k) == layout.shots[k][1] - layout.cell
        drawn[k \in 0..Len(layout.shots)] ==
            IF k = 0 THEN posted[3]
            ELSE IF mirrored(k) >= layout.column
            THEN Paste(shot(drawn[k - 1], k), orb(k), mirrored(k), layout.shots[k][2])
            ELSE shot(drawn[k - 1], k)
    IN  IF Refuses(posted[3]) THEN WrongSize ELSE drawn[Len(layout.shots)]

ComposeFighterSheet(sheet, frames) == PasteFrames(Blank(sheet.width, sheet.height), frames, sheet.rects)

DeriveMaskSheet(sheet) ==
    Image(sheet.width, sheet.height, [p \in DOMAIN sheet.at |-> IF sheet.at[p][1] > 0 THEN Opaque("white") ELSE Clear])

\* Frames of several weapons share a cell: the first one draws it.
ComposeWeaponsSheet(meta) ==
    LET first(i) == \A j \in 1..(i - 1) : <<meta.rects[j][1], meta.rects[j][2]>> # <<meta.rects[i][1], meta.rects[i][2]>>
        painted[i \in 0..Len(meta.rects)] ==
            IF i = 0 THEN Blank(meta.width, meta.height)
            ELSE IF first(i) THEN PaintBolt(painted[i - 1], meta.rects[i]) ELSE painted[i - 1]
    IN  painted[Len(meta.rects)]

ComposePickupsSheet(width, height, tokens) ==
    LET row(canvas, token) ==
            LET spun[k \in 0..token.frames] ==
                    IF k = 0 THEN canvas
                    ELSE PaintToken(spun[k - 1], <<token.x + (k - 1) * token.size, token.y, token.size, token.size>>,
                                    Spin(k - 1, token.frames), token.glyph)
            IN  spun[token.frames]
        painted[i \in 0..Len(tokens)] == IF i = 0 THEN Blank(width, height) ELSE row(painted[i - 1], tokens[i])
    IN  painted[Len(tokens)]

\* A flash that swells and fades, the ring it throws off, and the pixels it
\* has lost at the end.  last: the index of the last frame.
ExplosionBand(p, width, frame, last) ==
    LET square == FromCentre(p, width, width)
        core == IF 2 * frame < last THEN <<260 * frame, 10 * last>> ELSE <<234 * last - 208 * frame, 10 * last>>
        half == IF 4 * frame < 3 * last THEN <<5, 2>> ELSE <<3, 2>>
        ring(side) == <<30 * frame + side * half[1] * last, 2 * last>>
        lost == 10 * frame > 7 * last /\ (p[1] + 3 * p[2] + frame) % 3 = 0
    IN  CASE lost -> "none"
          [] ~lost /\ Reaches(square, <<core[1], 2 * core[2]>>) -> "cream"
          [] ~lost /\ Reaches(square, core) /\ ~Reaches(square, <<core[1], 2 * core[2]>>) ->
                IF 10 * frame < 6 * last THEN "gold" ELSE "ember"
          [] ~lost /\ ~Reaches(square, core) ->
                IF /\ 10 * frame > 3 * last
                   /\ Reaches(square, ring(1))
                   /\ ring(-1)[1] <= 0 \/ square * ring(-1)[2] * ring(-1)[2] >= 4 * ring(-1)[1] * ring(-1)[1]
                THEN (IF 10 * frame < 8 * last THEN "magenta" ELSE "deep") ELSE "none"

ComposeExplosionSheet(meta) ==
    LET painted[i \in 0..meta.frames] ==
            IF i = 0 THEN Blank(meta.width, meta.height)
            ELSE Drawn(painted[i - 1],
                       <<((i - 1) % meta.columns) * meta.size, ((i - 1) \div meta.columns) * meta.size, meta.size, meta.size>>,
                       [p \in Grid(meta.size, meta.size) |-> ExplosionBand(p, meta.size, i - 1, meta.frames - 1)])
    IN  painted[meta.frames]

\* The board's size, and where each sheet starts on it, in the order of their names.
ContactSheet(sizes, scale) ==
    LET gap == 8
        top[i \in 1..Len(sizes) + 1] == IF i = 1 THEN gap ELSE top[i - 1] + sizes[i - 1][2] * scale + gap
    IN  IF sizes = <<>> THEN [width |-> 8, height |-> 8, at |-> <<>>]
        ELSE [width |-> Max({s[1] : s \in Range(sizes)}) * scale + 2 * gap, height |-> top[Len(sizes) + 1],
              at |-> [i \in DOMAIN sizes |-> <<gap, top[i]>>]]
=============================================================================
