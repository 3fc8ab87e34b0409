---------------------------- MODULE MarkedScreen ----------------------------
(***************************************************************************)
(* Where the marks of a marked screen are: how a picture of a monitor is   *)
(* cropped and scaled down, how marks are made of the elements of a tree,  *)
(* of boxes found on the picture and of a grid, which of them are kept,    *)
(* and where they are drawn.                                               *)
(*                                                                         *)
(* Sources: crates/agent/src/tools/som.rs (the strategies, the filter, the *)
(* drawing) and screen.rs (process_dynamic_image).                         *)
(*                                                                         *)
(* A rectangle is in pixels of the desktop, of the monitor or of the       *)
(* picture. A thing is a rectangle that an application fills with a color, *)
(* which has an element in the tree or not. What boxes are made of is its  *)
(* outline: its color is far from that around it, one thing may lie within *)
(* another, and no two outlines cross or touch. Floats are rationals.      *)
(***************************************************************************)
EXTENDS Integers, FiniteSetsExt, Lists

CONSTANTS
    Shots,      \* what is asked for, of which screen: a behaviour draws one
    Glows,      \* sets of blocks in which a blurred outline may show
    None

VARIABLES
    shot,       \* the monitor, its things and the arguments of the call
    pc,
    pic,        \* the picture: its size, the crop, and the scale reported
    spots,      \* where the things are on the picture that is looked at
    lit,        \* the blocks in which the outline of each of them is seen
    groups,     \* the blocks that are next to each other, in a scan's order
    marks,      \* the marks, their numbers being their places here
    drawn       \* the numbers of those drawn

vars == <<shot, pc, pic, spots, lit, groups, marks, drawn>>

Default   == 1280   \* the largest picture, unless a call says otherwise
Detection == 1280   \* the widest picture in which boxes are looked for
Block     == 16

Init ==
    /\ shot \in Shots
    /\ pc = "crop" /\ pic = None /\ spots = <<>> /\ lit = <<>> /\ groups = <<>> /\ marks = <<>> /\ drawn = {}

Rect(x, y, w, h) == [x |-> x, y |-> y, w |-> w, h |-> h]
Least(a, b)    == IF a < b THEN a ELSE b
Most(a, b)     == IF a > b THEN a ELSE b
Round(a, b)    == IF a >= 0 THEN (2 * a + b) \div (2 * b) ELSE -((b - 2 * a) \div (2 * b))
Span(lo1, n1, lo2, n2) == Most(0, Least(lo1 + n1, lo2 + n2) - Most(lo1, lo2))
Shared(r, s)   == Span(r.x, r.w, s.x, s.w) * Span(r.y, r.h, s.y, s.h)
Area(r)        == r.w * r.h
Meet(r, s)     == r.x < s.x + s.w /\ r.x + r.w > s.x /\ r.y < s.y + s.h /\ r.y + r.h > s.y
Center(r)      == [x |-> r.x + r.w \div 2, y |-> r.y + r.h \div 2]
Lies(p, r)     == r.x <= p.x /\ p.x < r.x + r.w /\ r.y <= p.y /\ p.y < r.y + r.h

Monitor == shot.monitor
Whole   == Rect(0, 0, Monitor.w, Monitor.h)

(***************************************************************************)
(* The crop asked for, or that of the window named; then the scale. The    *)
(* picture is no larger than the call says, 0 being no limit.              *)
(***************************************************************************)
WindowCrop(win) ==
    LET x == Most(win.x - Monitor.x, 0)
        y == Most(win.y - Monitor.y, 0)
        w == Least(win.w, Most(Monitor.w - x, 0))
        h == Least(win.h, Most(Monitor.h - y, 0)) IN
    IF w > 0 /\ h > 0 /\ (w < Monitor.w \/ h < Monitor.h) THEN Rect(x, y, w, h) ELSE None

Cropped(c) == \* what of a crop is in the picture
    IF c # None /\ c.x < Monitor.w /\ c.y < Monitor.h /\ c.w > 0 /\ c.h > 0
    THEN Rect(c.x, c.y, Least(c.w, Monitor.w - c.x), Least(c.h, Monitor.h - c.y))
    ELSE None

(* A picture that is higher than wide gets the width of the limit: the new *)
(* width is computed from the old width alone.                             *)
Scaled(w, h) ==
    LET max == CASE shot.max = None -> Default [] shot.max # None -> shot.max IN
    IF max = 0 \/ (w <= max /\ h <= max) THEN [w |-> w, h |-> h]
    ELSE IF w >= h THEN [w |-> max, h |-> Most(1, Round(h * max, w))]
    ELSE [w |-> Most(1, Round(w * max, w)), h |-> max]

ProcessImage ==
    /\ pc = "crop"
    /\ LET crop == Cropped(IF shot.crop = None /\ shot.window # None THEN WindowCrop(shot.window) ELSE shot.crop)
           size == IF crop = None THEN Whole ELSE crop
           new  == Scaled(size.w, size.h) IN
       pic' = [w |-> new.w, h |-> new.h, crop |-> crop, from |-> size,
               num |-> IF new.w = size.w /\ new.h = size.h THEN 1 ELSE new.w,
               den |-> IF new.w = size.w /\ new.h = size.h THEN 1 ELSE size.w]
    /\ pc' = "look"
    /\ UNCHANGED <<shot, spots, lit, groups, marks, drawn>>

(* The region of the desktop that the picture shows.                       *)
Region == Rect(Monitor.x + pic.from.x, Monitor.y + pic.from.y, pic.from.w, pic.from.h)

(***************************************************************************)
(* Marks of elements: not of those too small, nor of one that is nearly as *)
(* large as the monitor.                                                   *)
(***************************************************************************)
Mark(r, of) == [rect |-> r, of |-> of]
Numbers     == [i \in 1..Len(shot.things) |-> i]
Thing(i)    == shot.things[i].rect

Fits(r) == /\ r.w >= 12 /\ r.h >= 12
           /\ ~(r.w >= (Monitor.w * 95) \div 100 /\ r.h >= (Monitor.h * 95) \div 100)
UiMarks ==
    LET ns == Among(Numbers, {i \in 1..Len(shot.things) : shot.things[i].ui /\ Fits(Thing(i))}) IN
    [n \in 1..Len(ns) |-> Mark(Thing(ns[n]), ns[n])]

(***************************************************************************)
(* A mark or box that has too large a part in common with one before it is *)
(* left out: base with those of more that are not.                         *)
(***************************************************************************)
Overlaps_Half(m, n, part) == 100 * Shared(m.rect, n.rect) > (part + 25) * (Area(m.rect) + Area(n.rect) - Shared(m.rect, n.rect))
                             \* a larger part has to be the same
Overlaps(m, n, part) == 100 * Shared(m.rect, n.rect) > part * (Area(m.rect) + Area(n.rect) - Shared(m.rect, n.rect))
Joined(base, more, part) ==
    LET f[n \in 0..Len(more)] ==
          IF n = 0 THEN base
          ELSE IF \E k \in 1..Len(f[n - 1]) : Overlaps(more[n], f[n - 1][k], part) THEN f[n - 1]
          ELSE Append(f[n - 1], more[n])
    IN  f[Len(more)]

(***************************************************************************)
(* Boxes found on the picture. A wide one is looked at in a smaller size,  *)
(* of which each pixel is that in the middle of what it stands for.        *)
(***************************************************************************)
LookSize == IF pic.w > Detection THEN [w |-> Detection, h |-> Most(1, Round(pic.h * Detection, pic.w))]
            ELSE [w |-> pic.w, h |-> pic.h]

Nearest(a, b) == (2 * a + b - 1) \div (2 * b)
Between(lo, n, from, whole, size) == \* the first of the pixels, and how many
    LET a == Most(lo, from) - from
        b == Least(lo + n, from + whole) - from IN
    [lo |-> Nearest(a * size, whole), n |-> Nearest(b * size, whole) - Nearest(a * size, whole)]
OnPicture(i) == LET x == Between(Thing(i).x, Thing(i).w, Region.x, Region.w, LookSize.w)
                    y == Between(Thing(i).y, Thing(i).h, Region.y, Region.h, LookSize.h) IN
    Rect(x.lo, y.lo, x.n, y.n)
Look ==
    /\ pc = "look"
    /\ spots' = [i \in 1..Len(shot.things) |-> OnPicture(i)]
    /\ pc' = "detect"
    /\ UNCHANGED <<shot, pic, lit, groups, marks, drawn>>

(***************************************************************************)
(* A block, <<row, column>>, is active if five of its pixels or more are   *)
(* not of the color of the one to the right or of the one below. These are *)
(* the pixels along the sides of a thing: within it at the right and at    *)
(* the bottom, just before it at the left and at the top, but for the      *)
(* corner where those two meet. A picture that was scaled down is blurred, *)
(* by a pixel to either side. Beyond the picture nothing is compared.      *)
(***************************************************************************)
Rows == 0..((LookSize.h - 1) \div Block)
Cols == 0..((LookSize.w - 1) \div Block)
Cell(b) == LET y == b[1] * Block  x == b[2] * Block IN
    Rect(x, y, Least(Block, LookSize.w - x), Least(Block, LookSize.h - y))

Visible(i)      == Meet(Thing(i), Region) /\ spots[i].w > 0 /\ spots[i].h > 0
From(lo)        == IF lo = 0 THEN -Block ELSE lo                       \* a side at the border is beyond it
To(lo, n, size) == IF lo + n = size THEN size + Block ELSE lo + n
Beyond(i) == LET p == spots[i]  x == From(p.x)  y == From(p.y) IN
    Rect(x, y, To(p.x, p.w, LookSize.w) - x, To(p.y, p.h, LookSize.h) - y)
Grown(r, n) == Rect(r.x - n, r.y - n, r.w + 2 * n - 1, r.h + 2 * n - 1)
Corner(r)   == [x |-> r.x - 1, y |-> r.y - 1]
Edges(i, b, blur) == LET r == Beyond(i) IN
    IF ~Visible(i) THEN 0
    ELSE Shared(Grown(r, blur + 1), Cell(b)) - Shared(Grown(r, -blur), Cell(b))
             - (IF blur = 0 /\ Lies(Corner(r), Cell(b)) THEN 1 ELSE 0)

Touched(i, blur) == LET r == Grown(Beyond(i), blur + 1) IN
    {b \in {y \in Rows : Span(r.y, r.h, y * Block, Block) > 0} \X {x \in Cols : Span(r.x, r.w, x * Block, Block) > 0} :
        Edges(i, b, blur) > 0}
EdgeCount(b, blur) ==
    LET f[n \in 0..Len(shot.things)] == IF n = 0 THEN 0 ELSE f[n - 1] + Edges(n, b, blur)
    IN  f[Len(shot.things)]
Blur == IF pic.num = pic.den THEN 0 ELSE 1
Active(b, glow) == EdgeCount(b, 0) >= 5 \/ (b \in glow /\ EdgeCount(b, Blur) >= 5)
Lit(glow) == [i \in 1..Len(shot.things) |-> {b \in Touched(i, Blur) : Active(b, glow)}]

(* The groups: from the first active block that is not of one, all that    *)
(* are reached over the four neighbors of each.                            *)
Around(S) == UNION {{<<b[1] - 1, b[2]>>, <<b[1] + 1, b[2]>>, <<b[1], b[2] - 1>>, <<b[1], b[2] + 1>>} : b \in S}
Flood(A, b) == \* a step takes the queue for its neighbors, while there are any
    LET Steps == [visited : SUBSET A, queue : SUBSET A]
        f[n \in 0..Cardinality(A)] == [s \in Steps |->
          LET more == (Around(s.queue) \cap A) \ s.visited IN
          IF n = 0 \/ s.queue = {} THEN s.visited ELSE f[n - 1][[visited |-> s.visited \cup more, queue |-> more]]]
    IN  f[Cardinality(A)][[visited |-> {b}, queue |-> {b}]]
First(S) == LET y == Min({b[1] : b \in S}) IN <<y, Min({b[2] : b \in {c \in S : c[1] = y}})>>
Grouped(A) ==
    LET Steps == [found : Seq(SUBSET A), rest : SUBSET A]
        f[n \in 0..Cardinality(A)] == [s \in Steps |->
          LET g == Flood(s.rest, First(s.rest)) IN
          IF n = 0 \/ s.rest = {} THEN s.found ELSE f[n - 1][[found |-> Append(s.found, g), rest |-> s.rest \ g]]]
    IN  f[Cardinality(A)][[found |-> <<>>, rest |-> A]]

Detects == shot.how \in {"contours", "hybrid"} /\ pic.w >= 24 /\ pic.h >= 24 /\ LookSize.h >= 24
Detect ==
    /\ pc = "detect"
    /\ \/ /\ Detects
          /\ \E glow \in Glows : lit' = Lit(glow)
          /\ groups' = Grouped(UNION {lit'[i] : i \in 1..Len(shot.things)})
       \/ ~Detects /\ UNCHANGED <<lit, groups>>
    /\ pc' = "mark"
    /\ UNCHANGED <<shot, pic, spots, marks, drawn>>

(***************************************************************************)
(* A group's box is not that of a thing if it is as large as most of the   *)
(* picture. The first 32 are scaled back, to the picture and the desktop.  *)
(***************************************************************************)
Box(g) == LET ys == {b[1] : b \in g}  xs == {b[2] : b \in g} IN
    Rect(Min(xs) * Block, Min(ys) * Block, Least((Max(xs) - Min(xs) + 1) * Block, LookSize.w),
         Least((Max(ys) - Min(ys) + 1) * Block, LookSize.h))
Found(g) ==
    LET b == Box(g) IN
    /\ Cardinality(g) <= Most((Cardinality(Rows) * Cardinality(Cols)) \div 4, 4)
    /\ b.w >= 16 /\ b.h >= 16 /\ 100 * b.w <= 85 * LookSize.w /\ 10 * b.h <= 6 * LookSize.h
Owner(g) == CHOOSE i \in 1..Len(shot.things) : lit[i] \cap g # {}

Back(b) == \* from the picture looked at to the picture
    IF pic.w <= Detection THEN b
    ELSE Rect(Round(b.x * pic.w, LookSize.w), Round(b.y * pic.h, LookSize.h),
              Round(b.w * pic.w, LookSize.w), Round(b.h * pic.h, LookSize.h))
Unscaled_Twice(n) == Round(Round(n * pic.den, pic.num) * pic.den, pic.num) \* scaled back once more
Unscaled(n) == Round(n * pic.den, pic.num)
VisualMark(box, i) == LET b == Back(box) IN
    Mark(Rect(Region.x + Unscaled(b.x), Region.y + Unscaled(b.y), Unscaled(b.w), Unscaled(b.h)), i)
VisualMarks ==
    LET seen  == Among(groups, {groups[k] : k \in {j \in 1..Len(groups) : Found(groups[j])}})
        boxes == Joined(<<>>, [n \in 1..Len(seen) |-> Mark(Box(seen[n]), Owner(seen[n]))], 40) IN
    [n \in 1..Least(Len(boxes), 32) |-> VisualMark(boxes[n].rect, boxes[n].of)]

(* The grid: the last cell of a row and of a column takes the remainder.   *)
Grid(divisions) == LET d == Least(Most(divisions, 2), 8)
                       w == Most(Region.w \div d, 1)  h == Most(Region.h \div d, 1) IN
    [n \in 1..(d * d) |->
        LET r == (n - 1) \div d  c == (n - 1) % d IN
        Mark(Rect(Region.x + c * w, Region.y + r * h,
                  IF c = d - 1 THEN Region.w - c * w ELSE w,
                  IF r = d - 1 THEN Region.h - r * h ELSE h), 0)]

(***************************************************************************)
(* The strategies, and the filter of a crop.                               *)
(***************************************************************************)
Merged == Joined(IF shot.tree THEN UiMarks ELSE <<>>, VisualMarks, 25)
OrGrid(ms, divisions) == IF ms = <<>> THEN Grid(divisions) ELSE ms

Candidates ==
    CASE shot.how = "grid"     -> Grid(shot.divisions)
      [] shot.how = "ui_tree"  -> UiMarks
      [] shot.how = "contours" -> OrGrid(VisualMarks, 4)
      [] shot.how = "hybrid"   -> OrGrid(Merged, shot.divisions)

(* Of these the ones that the picture shows some of.                       *)
Shown(ms) == Among(ms, {ms[n] : n \in {k \in 1..Len(ms) : Meet(ms[k].rect, Region)}})

GenerateMarks ==
    /\ pc = "mark"
    /\ \/ /\ shot.how = "ui_tree" /\ ~shot.tree
          /\ pc' = "failed" /\ UNCHANGED marks
       \/ /\ shot.how = "ui_tree" => shot.tree
          /\ marks' = IF pic.crop = None THEN Candidates ELSE Shown(Candidates)
          /\ pc' = "draw"
    /\ UNCHANGED <<shot, pic, spots, lit, groups, drawn>>

(* Where a mark is drawn; one that is not in the picture is left out.      *)
Placed(m) == LET s(n) == Round(n * pic.num, pic.den) IN
    Rect(s(m.rect.x - Region.x), s(m.rect.y - Region.y), Most(s(m.rect.w), 4), Most(s(m.rect.h), 4))
Annotate ==
    /\ pc = "draw"
    /\ drawn' = {n \in 1..Len(marks) : Meet(Placed(marks[n]), Rect(0, 0, pic.w, pic.h))}
    /\ pc' = "done"
    /\ UNCHANGED <<shot, pic, spots, lit, groups, marks>>

Next == ProcessImage \/ Look \/ Detect \/ GenerateMarks \/ Annotate
Spec == Init /\ [][Next]_vars

(***************************************************************************)
(* Properties. A picture that is higher than wide and had to be made       *)
(* smaller is not what they are about: KeepsAspect is.                     *)
(***************************************************************************)
Done     == pc = "done"
Upright  == pic.w * pic.from.h = pic.h * pic.from.w \/ pic.from.w >= pic.from.h
IsGrid   == marks # <<>> /\ \A n \in 1..Len(marks) : marks[n].of = 0
Large(i, least) == Meet(Thing(i), Region) /\ spots[i].w >= least /\ spots[i].h >= least

(* A thing's outline is one group of blocks, and no other thing's is of    *)
(* that. It is not if it has just a few pixels in the blocks of its        *)
(* corners: then its sides are groups of their own, and have a mark each.  *)
Unbroken(i) == \A k \in 1..Len(groups) : lit[i] \cap groups[k] # {} => groups[k] = lit[i]

(* A click on a mark hits the thing that the mark is of: its center, after *)
(* the crop, two roundings down, blocks and two roundings back, is within  *)
(* the thing, unless the mark is of a box and the thing is too small on    *)
(* the picture for its blocks to say where it is, or its outline broken.   *)
MarksReach == Done /\ Upright => \A n \in 1..Len(marks) : LET m == marks[n] IN
    m.of # 0 /\ (m.rect = Thing(m.of) \/ (Large(m.of, 30) /\ Unbroken(m.of))) => Lies(Center(m.rect), Thing(m.of))

Seen(r)  == LET pixel(n) == n * pic.num >= pic.den IN
    pixel(Span(r.x, r.w, Region.x, Region.w)) /\ pixel(Span(r.y, r.h, Region.y, Region.h))
Hit(x, y) == {n \in 1..Len(marks) : Lies([x |-> Region.x + x, y |-> Region.y + y], marks[n].rect)}
Within(r) == /\ Region.x <= r.x /\ r.x + r.w <= Region.x + Region.w
             /\ Region.y <= r.y /\ r.y + r.h <= Region.y + Region.h

(* What is on the picture has one mark on it: a grid's cells cover every   *)
(* pixel of the region once (some are looked at here), an unbroken thing   *)
(* that is within it does not have a mark of its element and of its box,   *)
(* and a mark is drawn if as much as a pixel of it would be seen.          *)
GridCovers  == IsGrid => \A x \in {0, Region.w \div 2, Region.w - 1}, y \in {0, Region.h \div 3, Region.h - 1} :
                   Cardinality(Hit(x, y)) = 1
MarksOf(i)  == {n \in 1..Len(marks) : marks[n].of = i}
MarkedOnce  == \A i \in 1..Len(shot.things) :
    Large(i, 50) /\ Within(Thing(i)) /\ Unbroken(i) => Cardinality(MarksOf(i)) <= 1
SeenIsDrawn == \A n \in 1..Len(marks) : Seen(marks[n].rect) => n \in drawn
MarksCover  == Done /\ Upright => GridCovers /\ MarkedOnce /\ SeenIsDrawn

(* What of a named window is on the monitor is in the picture.             *)
WindowShown == pc # "crop" /\ shot.crop = None /\ shot.window # None =>
    Shared(shot.window, Region) = Shared(shot.window, Monitor)

(* A picture that is made smaller keeps its aspect, to the pixel.          *)
KeepsAspect == pc # "crop" =>
    LET off == pic.w * pic.from.h - pic.h * pic.from.w IN
    off <= Most(pic.from.w, pic.from.h) /\ -off <= Most(pic.from.w, pic.from.h)
=============================================================================
