----------------------------- MODULE ToolWorlds -----------------------------
(* The worlds in which DesktopTools is checked: a world names the calls of *)
(* the callers, what the screen shows and will show, and what may happen.  *)
EXTENDS Naturals, Sequences, TLC

CONSTANTS c1, c2, None

Shows(n, v)  == [name |-> n, value |-> v]
Editor       == [p1 |-> Shows("ok", ""), p2 |-> Shows("field", "old")]
Typed        == [p1 |-> Shows("ok", ""), p2 |-> Shows("field", "new")]
Closed       == [p1 |-> Shows("ok", ""), p2 |-> None]
Shifted      == [p1 |-> None, p2 |-> Shows("ok", "")]
Dialog       == [p1 |-> None, p2 |-> Shows("", "")]
MCOrder      == <<"p1", "p2">>
Places       == {"p1", "p2"}
On(w, shows) == [front |-> w, shows |-> shows]

Tool(t)  == [tool |-> t, by |-> None, nth |-> 0, id |-> 0, meant |-> None, at |-> None, to |-> None,
             keys |-> <<>>, text |-> "", how |-> None, crop |-> Places, diff |-> FALSE, steps |-> <<>>]
Tree         == Tool("get_ui_tree")
Marks(how)   == [Tool("get_marked_screen") EXCEPT !.how = how]
OnElement(t, n, d) == [Tool(t) EXCEPT !.by = "element", !.nth = n, !.diff = d]
Marked(t, n) == [Tool(t) EXCEPT !.by = "mark", !.nth = n]
Text(n, x, d) == [OnElement("set_element_text", n, d) EXCEPT !.text = x]
At(t, p)     == [Tool(t) EXCEPT !.by = "place", !.at = p]
Keys(t, ks)  == [Tool(t) EXCEPT !.keys = ks]
Batch(d, ss) == [Tool("batch_actions") EXCEPT !.diff = d, !.steps = ss]
World(platform, shows, then, calls1, calls2, events) ==
    [platform |-> platform, enabled |-> TRUE, screen |-> On("w1", shows), later |-> then,
     windows |-> [w1 |-> shows, w2 |-> Dialog], calls |-> (c1 :> calls1 @@ c2 :> calls2), events |-> events]

(* Clicks by element and by mark, while another caller marks the screen.   *)
Clicking == {World(p, Editor, <<>>, <<Tree, Marks("grid"), Marked("click_mark", 1), OnElement("click_element", 2, FALSE)>>,
                   <<m, Marked("mouse_click", 1)>>, {}) :
               p \in {"windows", "macos"}, m \in {[Marks("grid") EXCEPT !.crop = {"p2"}], Tree}}
(* What is found on a screen, by every strategy.                           *)
Finding == {World("windows", Editor, then, <<[Marks(how) EXCEPT !.crop = crop], Marked("click_mark", 1),
                                             Marked("click_element", 2)>>, <<>>, {"encodefails"}) :
              how \in {"grid", "ui_tree", "contours", "hybrid"}, crop \in {{"p1", "p2"}, {"p2"}},
              then \in {<<>>, <<On(None, Dialog)>>}}
(* What changes after a click, and while others look.                      *)
Comparing == {World("windows", Editor, <<On(w, next)>>, <<Tree, OnElement("click_element", 1, TRUE)>>, <<Tree>>, {}) :
                w \in {"w1", "w2", None}, next \in {Typed, Closed, Shifted, Dialog}}
(* Text, typed or put into the element, of one that has gone too.          *)
Typing == {World(p, Editor, <<On("w1", Typed)>>, <<Tree, Text(2, x, TRUE), Text(1, "new", FALSE)>>, <<Tree, Tree>>,
                 {"injectfails"}) : p \in {"windows", "macos"}, x \in {"new", ""}}
(* Keys of two callers; a failure in between; a user.                      *)
Keying == {World("macos", Editor, <<>>, <<Keys("hotkey", <<"ctrl", "c">>), Keys("key_up", <<"ctrl">>)>>,
                 <<k, [At("mouse_drag", "p1") EXCEPT !.to = "p2"]>>, ev) :
             k \in {Keys("key_down", <<"ctrl">>), Keys("press_key", <<"c">>), Keys("hotkey", <<"c", "bad">>)},
             ev \in {{}, {"injectfails"}}}
Pointing == {World(p, Editor, <<>>, <<At("mouse_move", "p2"), Tool("mouse_click"), At("mouse_click", "p1"), Batch(TRUE, <<>>)>>,
                   <<At("mouse_scroll", "p2")>>, {"user"}) : p \in {"windows", "macos"}}
(* Batches: all their steps, or as many as succeed.                        *)
Batching == {World(p, Editor, <<On("w1", Typed)>>,
                   <<Tree, Batch(TRUE, <<OnElement("click_element", 1, FALSE), Text(2, "new", FALSE), end>>),
                     OnElement("click_element", 1, TRUE)>>, <<Tool("type_text")>>, {}) :
               p \in {"windows", "macos"},
               end \in {At("focus_window", "w2"), At("focus_window", "w3"), Tool("unknown"), Keys("press_key", <<"bad">>)}}
Disabled == {[World("windows", Editor, <<>>, <<Tree, Batch(TRUE, <<Keys("hotkey", <<"ctrl", "c">>)>>),
                     Marked("mouse_click", 1), OnElement("set_element_text", 1, TRUE)>>, <<Marks("hybrid")>>, {})
              EXCEPT !.enabled = FALSE]}

MCWorlds == Clicking \cup Finding \cup Comparing \cup Typing \cup Keying \cup Pointing \cup Batching \cup Disabled
=============================================================================
