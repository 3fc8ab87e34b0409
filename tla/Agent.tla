-------------------------------- MODULE Agent --------------------------------
(***************************************************************************)
(* Three parts of the agent that share none of its state: the connection   *)
(* to the server and its user's controls (AgentClient), the tools that     *)
(* look at the desktop and act on it (DesktopTools), and the geometry of   *)
(* the marked screen (MarkedScreen). A behaviour is one of one part, drawn *)
(* at its beginning, while the others stand still.                         *)
(***************************************************************************)
EXTENDS AgentClient, Integers, Sequences

CONSTANTS
    None,
    Order, Clients, CacheSize, Worlds,  \* DesktopTools
    Shots, Glows                        \* MarkedScreen

VARIABLES
    part,
    (* DesktopTools *)
    world, screen, later, elements, nextId, marks, pointer, last, held, pressed, stuck,
    hit, todo, call, told,
    (* MarkedScreen *)
    shot, step, pic, spots, lit, groups, drawing, drawn

tools == <<world, screen, later, elements, nextId, marks, pointer, last, held, pressed, stuck,
           hit, todo, call, told>>
picture == <<shot, step, pic, spots, lit, groups, drawing, drawn>>

T == INSTANCE DesktopTools
S == INSTANCE MarkedScreen WITH pc <- step, marks <- drawing

(* The calls of all worlds, and the steps of the batches among them. A     *)
(* call's target is an element, a mark or a place where the tool has such  *)
(* an argument; what the caller was told of it is filled in when the call  *)
(* is made.                                                                *)
Asked   == UNION {UNION {T!ToSet(w.calls[c]) : c \in Clients} : w \in Worlds}
Stepped == UNION {T!ToSet(it.steps) : it \in Asked}
Plain(it) ==
    /\ it = [tool |-> it.tool, by |-> it.by, nth |-> it.nth, id |-> it.id, meant |-> it.meant, at |-> it.at,
             to |-> it.to, keys |-> it.keys, text |-> it.text, how |-> it.how, crop |-> it.crop,
             diff |-> it.diff, steps |-> it.steps]
    /\ it.nth \in Nat /\ it.id = 0 /\ it.meant = None /\ it.keys \in Seq(T!ToSet(it.keys))
    /\ it.tool = "get_marked_screen" => it.how \in {"grid", "ui_tree", "contours", "hybrid"}
    /\ it.tool = "set_element_text" => it.by = "element"
    /\ it.tool \in {"key_down", "key_up"} => it.keys # <<>>
    /\ it.by \in {"element", "mark"} => it.nth # 0 /\ it.at = None
    /\ it.by = "element" => it.tool \in {"click_element", "set_element_text"}
    /\ it.by = "mark"    => it.tool \in {"click_element", "click_mark", "mouse_click"}
    /\ it.by = "place"   => it.tool \in {"mouse_move", "mouse_click", "mouse_drag", "mouse_scroll", "focus_window"}

ASSUME OrderAssumption == Order \in Seq(T!Places) \ {<<>>} /\ None \notin T!Places \cup Clients \cup {"none", "changed"}
ASSUME CallsAssumption ==
    /\ \A w \in Worlds, c \in Clients : w.calls[c] \in Seq(Asked)
    /\ \A it \in Asked : it.steps \in Seq(Stepped)
    /\ \A it \in Asked \cup Stepped : Plain(it)

(* A picture is of a monitor of some size; a crop is in whole pixels from  *)
(* its corner; a window and a thing may be anywhere.                       *)
Sized(r) == r.x \in Int /\ r.y \in Int /\ r.w \in Nat /\ r.h \in Nat
ASSUME ShotsAssumption == \A s \in Shots :
    /\ Sized(s.monitor) /\ s.monitor.w > 0 /\ s.monitor.h > 0
    /\ s.things \in Seq(T!ToSet(s.things)) /\ \A i \in 1..Len(s.things) : Sized(s.things[i].rect)
    /\ s.crop # None => Sized(s.crop) /\ s.crop.x >= 0 /\ s.crop.y >= 0
    /\ s.window # None => Sized(s.window)
    /\ s.max # None => s.max \in Nat
    /\ s.divisions \in Nat
    /\ s.how \in {"grid", "ui_tree", "contours", "hybrid"}

MCInit ==
    /\ part \in {"client", "tools", "screen"}
    /\ IF part = "client" THEN TRUE ELSE env = CHOOSE s \in Scenarios : TRUE
    /\ IF part = "client" THEN TRUE ELSE target = CHOOSE u \in Urls : TRUE
    /\ IF part = "tools" THEN TRUE ELSE world = CHOOSE w \in Worlds : TRUE
    /\ IF part = "screen" THEN TRUE ELSE shot = CHOOSE s \in Shots : TRUE
    /\ Init /\ T!Init /\ S!Init

MCNext ==
    \/ part = "client" /\ Next   /\ UNCHANGED <<part, tools, picture>>
    \/ part = "tools"  /\ T!Next /\ UNCHANGED <<part, vars, picture>>
    \/ part = "screen" /\ S!Next /\ UNCHANGED <<part, vars, tools>>

(* The fairness of AgentClient, as it states it; the others state none.    *)
MCFairness == \A t \in Tasks :
    /\ WF_vars(part = "client" /\ Job(t))
    /\ WF_vars(part = "client" /\ Loop(t))

MCSpec == MCInit /\ [][MCNext]_<<part, vars, tools, picture>> /\ MCFairness

-----------------------------------------------------------------------------
(* DesktopTools: a click lands where its caller meant (uia.rs and som.rs,  *)
(* the two caches), nothing is held down without a cause (computer_use.rs, *)
(* batch.rs), and a reported difference is one (uia.rs,                    *)
(* compute_state_diff).                                                    *)
ClicksWhatWasMeant == T!ClicksWhatWasMeant
HeldHasCause       == T!HeldHasCause
DiffTells          == T!DiffTells

(* MarkedScreen: a mark is clicked where its thing is, what is on the      *)
(* picture is marked once and drawn, and a named window is in the picture  *)
(* (som.rs, screen.rs).                                                    *)
MarksReach == S!MarksReach
MarksCover == S!MarksCover /\ S!WindowShown

(* A picture that is made smaller keeps its aspect ("维持宽高比降采样",    *)
(* docs/plans): screen.rs, process_dynamic_image.                          *)
KeepsAspect == S!KeepsAspect
=============================================================================
