---------------------------- MODULE DesktopTools ----------------------------
(***************************************************************************)
(* The tools with which a caller looks at the agent's desktop and acts on  *)
(* it: the tree of user interface elements, the screen with its numbered   *)
(* marks, clicks by element, by mark and by place, keys, text, and batches *)
(* of these. The agent runs each call on a thread of its own; what two     *)
(* calls share is the cache of elements, the cache of marks, the pointer   *)
(* and the keys that are down.                                             *)
(*                                                                         *)
(* Sources: crates/agent/src/tools/uia.rs, som.rs, computer_use.rs,        *)
(* batch.rs, window.rs (the review of an action), tools/dispatch/*.rs,     *)
(* input.rs and executor.rs (which calls are reviewed).                    *)
(*                                                                         *)
(* The screen is what each of a few places shows; a window, an element, a  *)
(* mark and a click are at a place. Where exactly a mark is drawn and      *)
(* lands is the subject of MarkedScreen. A step is one injected event, one *)
(* look at the screen, or one use of a cache.                              *)
(***************************************************************************)
EXTENDS Naturals, FiniteSets, SequencesExt, Lists

CONSTANTS
    Order,      \* the places of the screen, in the order of a tree
    Clients,    \* callers, each with one call at a time
    CacheSize,  \* elements the cache keeps
    Worlds,     \* what may happen: a behaviour draws one of these
    None        \* nothing, nowhere

VARIABLES
    world,     \* the world of this behaviour
    screen,    \* the front window, and what each place shows
    later,     \* the screens that applications will show
    elements,  \* the cached elements, by id
    nextId,    \* the next id
    marks,     \* the cached marks: the places of number 1, 2, ...
    pointer,   \* where the pointer is
    last,      \* where the agent last moved it (macOS)
    held,      \* the keys and buttons that are down
    pressed,   \* history: the keys that key_down is to keep down
    stuck,     \* history: those a failed call has left down
    hit,       \* history: the last press or release of a button
    todo,      \* the calls each caller has yet to make
    call,      \* its call at work, or the last one
    told       \* what it was told: a tree and marks, and whether the marks are still the last ones

vars == <<world, screen, later, elements, nextId, marks, pointer, last, held, pressed, stuck,
          hit, todo, call, told>>
desktop == <<pointer, last, held, pressed, stuck, hit>>

Places == ToSet(Order)

Mac    == world.platform = "macos"
May(e) == e \in world.events

(***************************************************************************)
(* Tools: those that act need computer use to be enabled on the agent; the *)
(* executor looks at the front window before and after some of them.       *)
(***************************************************************************)
Looking  == {"get_ui_tree", "get_marked_screen"}
Reviewed == {"mouse_click", "click_element", "click_mark", "press_key", "hotkey"}
Known(k) == k # "bad"

Idle == [pc |-> "idle", item |-> None, steps |-> <<>>, doing |-> None, target |-> None, events |-> <<>>,
         front |-> None, pic |-> None, list |-> <<>>, snap |-> None, was |-> None, seen |-> None,
         diff |-> None, found |-> <<>>, calm |-> FALSE, sure |-> FALSE, ok |-> FALSE]
Told == [tree |-> <<>>, marks |-> <<>>, mine |-> FALSE]

Init ==
    /\ world \in Worlds
    /\ screen = world.screen /\ later = world.later
    /\ elements = <<>> /\ nextId = 1 /\ marks = <<>>
    /\ pointer = Order[1] /\ last = None
    /\ held = {} /\ pressed = {} /\ stuck = {} /\ hit = None
    /\ todo = [c \in Clients |-> world.calls[c]]
    /\ call = [c \in Clients |-> Idle] /\ told = [c \in Clients |-> Told]

Put(c, q)  == call' = [call EXCEPT ![c] = q]
Fail(q)    == [q EXCEPT !.pc = "review", !.events = <<>>, !.steps = <<>>, !.ok = FALSE]
Succeed(q) == [q EXCEPT !.pc = "review", !.ok = TRUE]

(***************************************************************************)
(* The beginning of a call. An id is that of an element of the caller's    *)
(* last tree, a number one of its last marks.                              *)
(***************************************************************************)
Sent(c, it) == IF it.by = "element" /\ it.nth <= Len(told[c].tree)
               THEN [it EXCEPT !.id = told[c].tree[it.nth].id, !.meant = told[c].tree[it.nth].at]
               ELSE IF it.by = "mark" /\ it.nth <= Len(told[c].marks)
               THEN [it EXCEPT !.id = it.nth, !.meant = told[c].marks[it.nth]]
               ELSE [it EXCEPT !.id = it.nth]

Gated(it) == it.tool \notin Looking /\ ~world.enabled

Begin(c) == LET it == Sent(c, Head(todo[c])) IN
    /\ call[c].pc = "idle" /\ todo[c] # <<>>
    /\ todo' = [todo EXCEPT ![c] = Tail(@)]
    /\ LET q == [Idle EXCEPT !.item = it, !.front = IF it.tool \in Reviewed THEN screen.front ELSE None] IN
       Put(c, IF Gated(it) THEN Fail(q)
              ELSE CASE it.tool = "get_ui_tree" -> [q EXCEPT !.pc = "tree"]
                     [] it.tool = "get_marked_screen" -> [q EXCEPT !.pc = "capture"]
                     [] it.tool = "batch_actions" -> [q EXCEPT !.pc = "snap"]
                     [] OTHER -> [q EXCEPT !.pc = "step", !.steps = <<it>>])
    /\ UNCHANGED <<world, screen, later, elements, nextId, marks, desktop, told>>

(***************************************************************************)
(* The tree of the front window: every element gets an id that none had    *)
(* before, and is cached; the oldest go when there are too many. Then the  *)
(* caller has it, or the marks are made of it, or it is compared with what *)
(* was cached before the action.                                           *)
(***************************************************************************)
Shown(s)   == Among(Order, {p \in Places : s.shows[p] # None})
Element(s, p, i) == [id |-> i, at |-> p, name |-> s.shows[p].name, value |-> s.shows[p].value]

ReadTree_Restarts(c) == LET q == call[c] \* ids start again with every tree
                            n == Len(Shown(screen)) IN
    /\ q.pc = "tree"
    /\ IF screen.front = None
       THEN Put(c, IF q.item.tool = "get_ui_tree" \/ q.item.how = "ui_tree" THEN Fail(q)
                   ELSE [q EXCEPT !.pc = IF q.item.tool = "get_marked_screen" THEN "mark" ELSE "review",
                                  !.diff = "unsampled"])
            /\ UNCHANGED nextId
       ELSE /\ nextId' = 1 + n
            /\ Put(c, [q EXCEPT !.pc = "keep", !.seen = screen,
                                !.list = [i \in 1..n |-> Element(screen, Shown(screen)[i], i)]])
    /\ UNCHANGED <<world, screen, later, elements, marks, desktop, todo, told>>
ReadTree(c) == LET q == call[c]
                   n == Len(Shown(screen)) IN
    /\ q.pc = "tree"
    /\ IF screen.front = None
       THEN Put(c, IF q.item.tool = "get_ui_tree" \/ q.item.how = "ui_tree" THEN Fail(q)
                   ELSE [q EXCEPT !.pc = IF q.item.tool = "get_marked_screen" THEN "mark" ELSE "review",
                                  !.diff = "unsampled"])
            /\ UNCHANGED nextId
       ELSE /\ nextId' = nextId + n
            /\ Put(c, [q EXCEPT !.pc = "keep", !.seen = screen,
                                !.list = [i \in 1..n |-> Element(screen, Shown(screen)[i], nextId + i - 1)]])
    /\ UNCHANGED <<world, screen, later, elements, marks, desktop, todo, told>>

Newest(D)  == {i \in D : Cardinality({j \in D : j > i}) < CacheSize}
Stored(es) == LET D == DOMAIN elements \cup {e.id : e \in es} IN
    [i \in Newest(D) |-> IF \E e \in es : e.id = i THEN CHOOSE e \in es : e.id = i ELSE elements[i]]

(* What was cached at a place before is one of the elements cached there,  *)
(* of which tree is not said. An element that has moved is the same if its *)
(* name is.                                                                *)
Changes_AddedOnly(before, after, prev) == \* what has gone is not looked for
    \E e \in after : IF e.at \in DOMAIN prev
                      THEN prev[e.at].name # e.name \/ prev[e.at].value # e.value
                      ELSE e.name = "" \/ \A b \in before : b.name # e.name
Changes(before, after, prev) ==
    \/ \E e \in after : IF e.at \in DOMAIN prev
                        THEN prev[e.at].name # e.name \/ prev[e.at].value # e.value
                        ELSE e.name = "" \/ \A b \in before : b.name # e.name
    \/ \E b \in before : b.name # "" /\ \A e \in after : e.at # b.at /\ e.name # b.name
Previous(before) == LET P == {b.at : b \in before} IN
    {f \in [P -> before] : \A p \in P : f[p].at = p}

Keep(c) == LET q == call[c] IN
    /\ q.pc = "keep"
    /\ elements' = Stored(ToSet(q.list))
    /\ IF q.item.tool = "get_ui_tree"
       THEN told' = [told EXCEPT ![c].tree = q.list] /\ Put(c, Succeed(q))
       ELSE /\ UNCHANGED told
            /\ IF q.item.tool = "get_marked_screen" THEN Put(c, [q EXCEPT !.pc = "mark"])
               ELSE \E prev \in Previous(q.snap) :
                    Put(c, [q EXCEPT !.pc = "review",
                                     !.diff = IF Changes(q.snap, ToSet(q.list), prev) THEN "changed" ELSE "none"])
    /\ UNCHANGED <<world, screen, later, nextId, marks, desktop, todo>>

(***************************************************************************)
(* The marked screen: a picture, then the tree if the strategy wants one,  *)
(* then what is found on the picture, or a grid if nothing is; what the    *)
(* crop leaves is numbered and replaces the cached marks. The picture may  *)
(* still fail to be encoded.                                               *)
(***************************************************************************)
Capture(c) == LET q == call[c] IN
    /\ q.pc = "capture"
    /\ Put(c, [q EXCEPT !.pc = IF q.item.how \in {"ui_tree", "hybrid"} THEN "tree" ELSE "mark", !.pic = screen])
    /\ UNCHANGED <<world, screen, later, elements, nextId, marks, desktop, todo, told>>

Only(S)       == Among(Order, S)
Ui(q)         == [i \in 1..Len(q.list) |-> q.list[i].at]
Candidates(q, boxes) ==
    LET ui  == Ui(q)
        all == CASE q.item.how = "grid" -> <<>>
                 [] q.item.how = "ui_tree" -> ui
                 [] q.item.how = "contours" -> Only(boxes)
                 [] q.item.how = "hybrid" -> ui \o Only(boxes \ ToSet(ui)) IN
    IF all = <<>> /\ q.item.how # "ui_tree" THEN Order ELSE all

Mark(c) == LET q == call[c] IN
    /\ q.pc = "mark"
    /\ \E boxes \in SUBSET ToSet(Shown(q.pic)) :
         LET kept == Among(Candidates(q, boxes), q.item.crop) IN
         marks' = kept /\ Put(c, [q EXCEPT !.pc = "encode", !.found = kept])
    /\ told' = [d \in Clients |-> [told[d] EXCEPT !.mine = d = c]]
    /\ UNCHANGED <<world, screen, later, elements, nextId, desktop, todo>>

Encode(c) == LET q == call[c] IN
    /\ q.pc = "encode"
    /\ \/ /\ told' = [told EXCEPT ![c].marks = q.found] /\ Put(c, Succeed(q))
       \/ /\ May("encodefails") /\ Put(c, Fail(q))
          /\ told' = [told EXCEPT ![c].mine = FALSE]
    /\ UNCHANGED <<world, screen, later, elements, nextId, marks, desktop, todo>>

(***************************************************************************)
(* What a tool does to the desktop: the events it injects. A press and a   *)
(* release of a button carry the place they are meant for. Of what selects *)
(* the old text before the new one is typed, a failure is passed over.     *)
(***************************************************************************)
Event(do, key, at, soft) == [do |-> do, key |-> key, at |-> at, soft |-> soft]
Move(p)     == <<Event("move", None, p, 0)>>
Down(k, p)  == <<Event("down", k, p, 0)>>
Up(k, p)    == <<Event("up", k, p, 0)>>
Type        == <<Event("type", None, None, 0)>>
Soft(es, n) == [i \in 1..Len(es) |-> [es[i] EXCEPT !.soft = n]]
Each(do, ks) == [i \in 1..Len(ks) |-> Event(do, ks[i], None, 0)]
Chord_LastHeld(ks) == \* the key that was pressed first is not released
    Each("down", ks) \o Each("up", Reverse(Tail(ks)))
Chord(ks)   == Each("down", ks) \o Each("up", Reverse(ks))
Tap(k)      == Down(k, None) \o Up(k, None)
Click(p, meant) == (IF p = None THEN <<>> ELSE Move(p)) \o Down("left", meant) \o Up("left", meant)
Drag(a, b)  == Move(a) \o Down("left", a) \o Move(b) \o Up("left", b)
SelectAll   == Soft(Chord(<<"ctrl", "a">>), 1)
Replacing(it) == IF it.text = "" THEN Soft(Tap("backspace"), 2) ELSE Type

(* Where the caches say a step is to act; an id that no element has is     *)
(* taken for the number of a mark by a click.                              *)
InElements(i) == i \in DOMAIN elements
InMarks(i)    == i \in 1..Len(marks)
Where(it) ==
    CASE it.tool = "click_element" /\ InElements(it.id) -> elements[it.id].at
      [] it.tool = "click_element" /\ ~InElements(it.id) -> IF InMarks(it.id) THEN marks[it.id] ELSE None
      [] it.tool = "set_element_text" -> IF InElements(it.id) THEN elements[it.id].at ELSE None
      [] it.tool \in {"click_mark", "mouse_click"} /\ it.by = "mark" ->
            IF InMarks(it.id) THEN marks[it.id] ELSE None
      [] OTHER -> it.at

Refused(it) ==
    \/ it.by \in {"element", "mark"} /\ Where(it) = None
    \/ \E i \in 1..Len(it.keys) : ~Known(it.keys[i])
    \/ it.tool = "focus_window" /\ it.at \notin DOMAIN world.windows
    \/ it.tool \in {"unknown", "batch_actions"}
ByElement(it) == it.tool \in {"click_element", "set_element_text"} /\ InElements(it.id)

Script(it) == LET p == Where(it) IN
    CASE it.tool \in {"click_element", "click_mark", "mouse_click"} ->
            Click(p, IF it.meant # None THEN it.meant ELSE it.at)
      [] it.tool = "set_element_text" -> Click(p, it.meant) \o SelectAll \o Replacing(it)
      [] it.tool = "mouse_drag" -> Drag(it.at, it.to)
      [] it.tool \in {"mouse_move", "mouse_scroll"} -> Move(it.at)
      [] it.tool \in {"press_key", "hotkey"} -> Chord(it.keys)
      [] it.tool = "key_down" -> Down(it.keys[1], None)
      [] it.tool = "key_up" -> Up(it.keys[1], None)
      [] it.tool = "type_text" -> Type
      [] it.tool = "focus_window" -> <<Event("focus", None, it.at, 0)>>
      [] OTHER -> <<>>

(***************************************************************************)
(* The snapshot an action is compared with: all that is cached. A batch,   *)
(* which has a step at least, takes it before the first, a click or a text *)
(* of its own after it has found its element. On Windows the element may   *)
(* do what is asked without pointer and keys.                              *)
(***************************************************************************)
Cached == {elements[i] : i \in DOMAIN elements}
Taken(q) == IF q.item.diff THEN [q EXCEPT !.snap = Cached, !.was = screen] ELSE q

Snap(c) == LET q == call[c] IN
    /\ q.pc = "snap"
    /\ Put(c, IF q.item.steps = <<>> THEN Fail(q) ELSE [Taken(q) EXCEPT !.pc = "step", !.steps = q.item.steps])
    /\ UNCHANGED <<world, screen, later, elements, nextId, marks, desktop, todo, told>>

Sure(c, it) == \/ it.by = "element" /\ InElements(it.id)
               \/ it.by = "mark" /\ it.tool # "click_element" /\ told[c].mine
               \/ it.by = "place"

Step(c) == LET q == call[c]
               it == IF q.item.tool = "batch_actions" THEN Sent(c, Head(q.steps)) ELSE Head(q.steps)
               n == [(IF q.item.tool # "batch_actions" /\ ByElement(it) THEN Taken(q) ELSE q)
                       EXCEPT !.steps = Tail(@), !.pc = "act", !.doing = it, !.calm = FALSE,
                              !.sure = Sure(c, it),
                              !.target = IF ByElement(it) THEN elements[it.id] ELSE None] IN
    /\ q.pc = "step"
    /\ \/ Put(c, IF Refused(it) THEN Fail(q) ELSE [n EXCEPT !.events = Script(it)])
       \/ ~Mac /\ ByElement(it) /\ Put(c, n)
    /\ UNCHANGED <<world, screen, later, elements, nextId, marks, desktop, todo, told>>

(* After the last event of a step, the next one; after the last step, the  *)
(* look at what has changed, if there is a snapshot. A text that was typed *)
(* is put into the cache, also if its element has gone from there.         *)
Written(q) == [i \in DOMAIN elements \cup {q.target.id} |->
                 IF i = q.target.id THEN [q.target EXCEPT !.value = q.doing.text] ELSE elements[i]]
Acted(c) == LET q == call[c] IN
    /\ q.pc = "act" /\ q.events = <<>>
    /\ elements' = IF q.doing.tool = "set_element_text" THEN Written(q) ELSE elements
    /\ Put(c, IF q.steps # <<>> THEN [q EXCEPT !.pc = "step"]
              ELSE [Succeed(q) EXCEPT !.pc = IF q.snap # None THEN "tree" ELSE "review"])
    /\ UNCHANGED <<world, screen, later, nextId, marks, desktop, todo, told>>

(***************************************************************************)
(* An event. A button goes down and up where the pointer is, on macOS      *)
(* where the agent last moved it, whatever the user did meanwhile. An      *)
(* injection that fails leaves down what is down; it ends the call, or     *)
(* what it belongs to if a failure of that is passed over.                 *)
(***************************************************************************)
PressedAt  == IF Mac /\ last # None THEN last ELSE pointer
ReleasedAt == IF Mac THEN last ELSE pointer

(* History: a call is calm from its own move of the pointer to the next.   *)
Moved(calls, c) == [d \in Clients |-> [calls[d] EXCEPT !.calm = d = c]]
Owed(es) == {es[i].key : i \in {j \in 1..Len(es) : es[j].do = "up"}}

Inject(c) == LET q == call[c]
                 e == Head(q.events)
                 done == [call EXCEPT ![c].events = Tail(@)] IN
    /\ q.pc = "act" /\ q.events # <<>>
    /\ CASE e.do = "move" ->
              /\ pointer' = e.at /\ last' = e.at /\ call' = Moved(done, c)
              /\ UNCHANGED <<held, pressed, stuck, hit>>
         [] e.do = "down" ->
              /\ held' = held \cup {e.key} /\ call' = done
              /\ hit' = IF e.key = "left" /\ e.at # None
                        THEN [sure |-> q.sure /\ q.calm, at |-> PressedAt, meant |-> e.at] ELSE hit
              /\ pressed' = IF q.doing.tool = "key_down" THEN pressed \cup {e.key} ELSE pressed
              /\ UNCHANGED <<pointer, last, stuck>>
         [] e.do = "up" ->
              /\ held' = held \ {e.key} /\ call' = done
              /\ hit' = IF e.key = "left" /\ e.at # None
                        THEN [sure |-> q.sure /\ q.calm, at |-> ReleasedAt, meant |-> e.at] ELSE hit
              /\ pressed' = pressed \ {e.key} /\ stuck' = stuck \ {e.key}
              /\ UNCHANGED <<pointer, last>>
         [] OTHER -> call' = done /\ UNCHANGED desktop
    /\ \/ UNCHANGED screen
       \/ /\ e.do = "focus"
          /\ screen' = [front |-> e.at, shows |-> world.windows[e.at]]
    /\ UNCHANGED <<world, later, elements, nextId, marks, todo, told>>

Run(es, n) == \A i \in 1..Len(es) : i <= n <=> es[i].soft = es[1].soft

InjectFails(c) == LET q == call[c]
                      es == q.events IN
    /\ q.pc = "act" /\ es # <<>> /\ Mac /\ May("injectfails")
    /\ stuck' = stuck \cup (held \cap Owed(es))
    /\ \/ es[1].soft = 0 /\ Put(c, Fail(q))
       \/ es[1].soft # 0 /\ \E n \in 1..Len(es) :
             Run(es, n) /\ Put(c, [q EXCEPT !.events = SubSeq(es, n + 1, Len(es))])
    /\ UNCHANGED <<world, screen, later, elements, nextId, marks, pointer, last, held, pressed, hit, todo, told>>

(* The review: another front window takes the place of what was compared.  *)
Review(c) == LET q == call[c] IN
    /\ q.pc = "review"
    /\ Put(c, [q EXCEPT !.pc = "idle",
                        !.diff = IF q.ok /\ q.front # None /\ screen.front \notin {None, q.front} THEN "window"
                                 ELSE @])
    /\ UNCHANGED <<world, screen, later, elements, nextId, marks, desktop, todo, told>>

(***************************************************************************)
(* The user and the applications.                                          *)
(***************************************************************************)
Change ==
    /\ later # <<>>
    /\ screen' = Head(later) /\ later' = Tail(later)
    /\ UNCHANGED <<world, elements, nextId, marks, desktop, todo, call, told>>
UserMoves == \E p \in Places :
    /\ May("user") /\ pointer # p
    /\ pointer' = p /\ call' = Moved(call, None)
    /\ UNCHANGED <<world, screen, later, elements, nextId, marks, last, held, pressed, stuck, hit, todo, told>>

Next ==
    \/ \E c \in Clients : \/ Begin(c) \/ ReadTree(c) \/ Keep(c) \/ Capture(c) \/ Mark(c) \/ Encode(c)
                          \/ Snap(c) \/ Step(c) \/ Acted(c) \/ Inject(c) \/ InjectFails(c) \/ Review(c)
    \/ Change \/ UserMoves
Spec == Init /\ [][Next]_vars

(***************************************************************************)
(* Properties.                                                             *)
(***************************************************************************)

(* A click lands where the thing was that its caller meant: an id never    *)
(* becomes that of another element, and a number is that of the caller's   *)
(* own picture as long as nobody has marked the screen after it. It does   *)
(* not say so of a pointer that somebody else moves between the call's own *)
(* move and its press.                                                     *)
ClicksWhatWasMeant == hit # None /\ hit.sure => hit.at = hit.meant

(* A key or a button is down because a call at work is to release it,      *)
(* because key_down is to keep it down, or because a call failed in        *)
(* between; and never on an agent that may not act on its desktop.         *)
HeldHasCause ==
    /\ held \subseteq pressed \cup stuck \cup
                      UNION {Owed(call[c].events) : c \in {d \in Clients : call[d].pc = "act"}}
    /\ ~world.enabled => held = {} /\ hit = None

(* What an action reports to have changed: if the cache held just what the *)
(* screen showed before it, then a report of no change is true of what is  *)
(* shown at the same place, and of the names on the screen, and a report   *)
(* of a change is true; whatever other calls read and cache meanwhile.     *)
Content(s) == {[at |-> p, name |-> s.shows[p].name, value |-> s.shows[p].value] : p \in ToSet(Shown(s))}
Names(s)   == {e.name : e \in Content(s)} \ {""}
Fresh(q)   == {[at |-> e.at, name |-> e.name, value |-> e.value] : e \in q.snap} = Content(q.was)
DiffTells == \A c \in Clients : LET q == call[c] IN
    q.pc = "idle" /\ q.ok /\ q.snap # None /\ Fresh(q) =>
        /\ q.diff = "none" =>
              /\ Names(q.was) = Names(q.seen)
              /\ \A e \in Content(q.was), f \in Content(q.seen) : e.at = f.at => e = f
        /\ q.diff = "changed" => Content(q.was) # Content(q.seen)
=============================================================================
