---------------------------- MODULE ScreenShots ----------------------------
(* The shots for which MarkedScreen is checked: a few monitors, their      *)
(* things and what is asked for.                                           *)
EXTENDS Integers, Sequences

CONSTANT None

Rect(x, y, w, h) == [x |-> x, y |-> y, w |-> w, h |-> h]
Main  == Rect(0, 0, 1920, 1080)
Right == Rect(1920, -200, 2560, 1600)
Left  == Rect(-1366, 100, 1366, 768)
Wide  == Rect(0, 0, 3440, 1440)
Tall  == Rect(1920, 0, 1080, 1920)

Element(r) == [rect |-> r, ui |-> TRUE]
Drawn(r)   == [rect |-> r, ui |-> FALSE]
From(m, x, y, w, h) == Rect(m.x + x, m.y + y, w, h)
Things(m) == <<Element(From(m, 100, 90, 120, 40)), Drawn(From(m, 513, 333, 77, 61)),
               Element(From(m, 400, 500, 10, 30)), Drawn(From(m, m.w - 90, m.h - 90, 64, 64)),
               Element(From(m, -60, 300, 100, 100)), Element(From(m, 0, 0, m.w, m.h))>>
Little(m) == <<Element(From(m, 200, 200, 16, 16)), Drawn(From(m, 300, 301, 9, 200))>>

Shot(m, things, how) == [monitor |-> m, things |-> things, how |-> how, tree |-> TRUE,
                         crop |-> None, window |-> None, max |-> None, divisions |-> 4]
Strategies == {"grid", "ui_tree", "contours", "hybrid"}

(* Every strategy on every monitor, larger, smaller and unscaled.          *)
Plain == UNION {{[Shot(m, things, how) EXCEPT !.max = x] :
            how \in Strategies, x \in {None, 0, 700},
            things \in {Things(m), Things(Main), Things(Left), Little(Main), <<>>}} : m \in {Main, Right, Left, Wide}}
(* Crops: within, at and over the edge, tiny, and none at all.             *)
Crops == {[Shot(m, Things(m), how) EXCEPT !.crop = c, !.divisions = d] :
            m \in {Main, Right}, how \in Strategies, d \in {0, 3, 9},
            c \in {Rect(90, 80, 640, 480), Rect(1800, 900, 4000, 4000), Rect(500, 320, 3, 5),
                   Rect(150, 95, 1500, 900), Rect(9999, 0, 10, 10), Rect(0, 0, 0, 10)}}
(* Windows: on the monitor, partly on it, on another one, of no size.      *)
Windows == {[Shot(m, Things(m), how) EXCEPT !.window = w] :
              m \in {Main, Right, Left}, how \in {"grid", "hybrid"},
              w \in {From(Main, 50, 60, 700, 500), From(Right, 40, 300, 900, 900), From(Right, -300, 0, 600, 700),
                     From(Left, 700, 500, 800, 600), Rect(0, 0, 0, 0), Right}}
NoTree == {[Shot(Main, Things(Main), how) EXCEPT !.tree = FALSE] : how \in Strategies}
(* A large element with a thing within it, an element whose box is of more *)
(* than twice its area, and one whose outline falls to pieces in the second *)
(* of the crops: whole, and cut off by a crop.                             *)
Nested == <<Element(From(Main, 300, 300, 400, 300)), Drawn(From(Main, 420, 400, 100, 80)), Drawn(From(Main, 1000, 300, 200, 200)),
            Element(From(Main, 776, 328, 50, 50)), Element(From(Main, 827, 624, 50, 50))>>
Cut == {[Shot(Main, Nested, how) EXCEPT !.crop = c] :
          how \in Strategies, c \in {None, Rect(620, 200, 700, 700), Rect(200, 200, 900, 700)}}
(* A monitor that stands on its side.                                      *)
Upended == {[Shot(Tall, Things(Tall), how) EXCEPT !.max = x] : how \in Strategies, x \in {None, 0}}

(* A blurred outline shows where it would if it were not, or wherever it   *)
(* may.                                                                    *)
MCGlows == {{}, (0..120) \X (0..80)}

MCShots == Plain \cup Crops \cup Windows \cup NoTree \cup Cut \cup Upended
=============================================================================
