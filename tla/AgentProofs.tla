---------------------------- MODULE AgentProofs ----------------------------
(***************************************************************************)
(* The three parts of the agent, for whatever constants. The tools: a      *)
(* click lands where its caller meant, what is down has a cause, and a     *)
(* reported difference is one. The connection: one task at most runs the   *)
(* reconnect loop, for any number of clicks and any addresses. The marked  *)
(* screen: a mark is where its thing is, a pixel of a grid is on one mark, *)
(* and what is seen is drawn, for any monitor, crop, scale and things,     *)
(* those that are large enough and whose outline is one group of blocks.   *)
(***************************************************************************)
EXTENDS Agent, FiniteSetTheorems, SequenceTheorems, WellFoundedInduction, TLAPS

(***************************************************************************)
(* The tools. The fields of a call, which every step copies or sets.       *)
(***************************************************************************)
Shape(q) ==
    q = [pc |-> q.pc, item |-> q.item, steps |-> q.steps, doing |-> q.doing, target |-> q.target, events |-> q.events,
         front |-> q.front, pic |-> q.pic, list |-> q.list, snap |-> q.snap, was |-> q.was, seen |-> q.seen,
         diff |-> q.diff, found |-> q.found, calm |-> q.calm, sure |-> q.sure, ok |-> q.ok]

(* What an event, and a list of events, has to be: a key that goes down    *)
(* goes up later; a button goes down and up where the last move before it  *)
(* goes to.                                                                *)
Spots == T!Places \cup {None} \cup {it.at : it \in Asked \cup Stepped} \cup {it.to : it \in Asked \cup Stepped}
Keyed == {None, "left", "ctrl", "a", "backspace"} \cup UNION {T!ToSet(it.keys) : it \in Asked \cup Stepped}
Input == [do : {"down", "up", "move", "type", "focus"}, key : Keyed, at : Spots, soft : 0..2]
Firm(es)   == \A i \in 1..Len(es) : es[i].soft # 0 => es[i].do # "move"
Paired(es) == \A i \in 1..Len(es) : es[i].do = "down" =>
                 \E j \in i + 1..Len(es) : es[j].do = "up" /\ es[j].key = es[i].key
Presses(e) == e.do \in {"down", "up"} /\ e.key = "left" /\ e.at # None
Governs(es, m, i) == es[m].do = "move" /\ \A k \in m + 1..i - 1 : es[k].do # "move"
Aimed(es)  == \A i \in 1..Len(es) : Presses(es[i]) => \A m \in 1..i - 1 : Governs(es, m, i) => es[m].at = es[i].at
Blind(es)  == \A i \in 1..Len(es) : es[i].do # "move" /\ es[i].at = None

(* What a call has to be by the time it acts, but for its target.          *)
Called(it) ==
    /\ it.at \in Spots /\ it.to \in Spots /\ it.keys \in Seq(Keyed)
    /\ it.tool = "get_marked_screen" => it.how \in {"grid", "ui_tree", "contours", "hybrid"}
    /\ it.tool = "set_element_text" => it.by = "element"
    /\ it.tool \in {"key_down", "key_up"} => it.keys # <<>>
    /\ it.by \in {"element", "mark"} => it.at = None
    /\ it.by = "element" => it.tool \in {"click_element", "set_element_text"}
    /\ it.by = "mark"    => it.tool \in {"click_element", "click_mark", "mouse_click"}
    /\ it.by = "place"   => it.tool \in {"mouse_move", "mouse_click", "mouse_drag", "mouse_scroll", "focus_window"}

(* What becomes of a call, field by field: when it fails,                  *)
LEMMA Failed ==
    ASSUME NEW q, Shape(q), NEW d, d = T!Fail(q)
    PROVE  /\ Shape(d) /\ d.pc = "review" /\ d.item = q.item /\ d.steps = <<>> /\ d.doing = q.doing
           /\ d.target = q.target /\ d.events = <<>> /\ d.list = q.list /\ d.snap = q.snap /\ d.was = q.was
           /\ d.seen = q.seen /\ d.diff = q.diff /\ d.found = q.found /\ d.calm = q.calm /\ d.sure = q.sure
           /\ d.ok = FALSE
<1>1. d = [pc |-> "review", item |-> q.item, steps |-> <<>>, doing |-> q.doing, target |-> q.target,
           events |-> <<>>, front |-> q.front, pic |-> q.pic, list |-> q.list, snap |-> q.snap, was |-> q.was,
           seen |-> q.seen, diff |-> q.diff, found |-> q.found, calm |-> q.calm, sure |-> q.sure, ok |-> FALSE]
  BY Zenon DEF Shape, T!Fail
<1> QED BY ONLY <1>1, Zenon DEF Shape

(* or when only its place changes.                                         *)
LEMMA Goes ==
    ASSUME NEW q, Shape(q), NEW to, NEW d, d = [q EXCEPT !.pc = to]
    PROVE  /\ Shape(d) /\ d.pc = to /\ d.item = q.item /\ d.steps = q.steps /\ d.doing = q.doing
           /\ d.target = q.target /\ d.events = q.events /\ d.list = q.list /\ d.snap = q.snap
           /\ d.was = q.was /\ d.seen = q.seen /\ d.diff = q.diff /\ d.found = q.found /\ d.calm = q.calm
           /\ d.sure = q.sure /\ d.ok = q.ok
<1>1. d = [pc |-> to, item |-> q.item, steps |-> q.steps, doing |-> q.doing, target |-> q.target,
           events |-> q.events, front |-> q.front, pic |-> q.pic, list |-> q.list, snap |-> q.snap,
           was |-> q.was, seen |-> q.seen, diff |-> q.diff, found |-> q.found, calm |-> q.calm,
           sure |-> q.sure, ok |-> q.ok]
  BY Zenon DEF Shape
<1> QED BY ONLY <1>1, Zenon DEF Shape

(* The steps of Among, up to the m-th.                                     *)
Picked(g, s, A, m) ==
    /\ g = [n \in 0..m |-> g[n]] /\ g[0] = <<>>
    /\ \A n \in 1..m : g[n] = IF s[n] \in A THEN Append(g[n - 1], s[n]) ELSE g[n - 1]

(* One step more of the same.                                              *)
LEMMA PickedMore ==
    ASSUME NEW s, NEW A, NEW m \in Nat \ {0}, NEW g, Picked(g, s, A, m - 1)
    PROVE  \E h : Picked(h, s, A, m)
<1> DEFINE x == IF s[m] \in A THEN Append(g[m - 1], s[m]) ELSE g[m - 1]
           h == [n \in 0..m |-> IF n = m THEN x ELSE g[n]]
<1>1. h = [n \in 0..m |-> h[n]] /\ h[0] = <<>>
  BY DEF Picked
<1>2. ASSUME NEW n \in 1..m
      PROVE  h[n] = IF s[n] \in A THEN Append(h[n - 1], s[n]) ELSE h[n - 1]
  <2>1. n - 1 \in 0..m /\ n - 1 # m /\ n \in 0..m
    OBVIOUS
  <2>2. h[n - 1] = g[n - 1]
    BY <2>1
  <2>3. CASE n = m
    BY <2>1, <2>2, <2>3
  <2>4. CASE n # m
    <3>1. n \in 1..(m - 1) /\ h[n] = g[n]
      BY <2>1, <2>4
    <3> QED BY <2>2, <3>1 DEF Picked
  <2> QED BY <2>3, <2>4
<1>3. Picked(h, s, A, m)
  BY <1>1, <1>2 DEF Picked
<1> QED BY <1>3

(* A set of numbers each of which has a smaller one in it is empty.        *)
LEMMA NoLeast ==
    ASSUME NEW N \in SUBSET Nat, \A n \in N : \E m \in N : m < n
    PROVE  N = {}
<1> SUFFICES ASSUME N # {} PROVE FALSE
  OBVIOUS
<1>1. IsWellFoundedOn(OpToRel(<, Nat), Nat)
  BY NatLessThanWellFounded
<1>2. \E x \in N : \A y \in N : ~(<<y, x>> \in OpToRel(<, Nat))
  BY <1>1, WFMin
<1> QED BY <1>2 DEF OpToRel

(* There is such a function for every m: if not, for a least one.          *)
LEMMA PickedExists ==
    ASSUME NEW s, NEW A, NEW m \in Nat
    PROVE  \E g : Picked(g, s, A, m)
<1> DEFINE N == {n \in Nat : ~\E g : Picked(g, s, A, n)}
<1>1. \A n \in N : \E k \in N : k < n
  <2> SUFFICES ASSUME NEW n \in N PROVE \E k \in N : k < n
    OBVIOUS
  <2>1. n # 0
    <3> DEFINE g == [i \in 0..0 |-> <<>>]
    <3>1. Picked(g, s, A, 0)
      BY DEF Picked
    <3> QED BY <3>1
  <2>2. n \in Nat \ {0} /\ n - 1 \in Nat /\ n - 1 < n
    BY <2>1
  <2>3. n - 1 \in N
    BY <2>2, PickedMore
  <2> QED BY <2>2, <2>3
<1>2. N = {}
  <2>1. N \in SUBSET Nat
    OBVIOUS
  <2> HIDE DEF N
  <2> QED BY <1>1, <2>1, NoLeast
<1> QED BY <1>2

(* Among gives a sequence of what s has in common with A.                  *)
LEMMA AmongGives ==
    ASSUME NEW R, NEW s \in Seq(R), NEW A
    PROVE  /\ T!Among(s, A) \in Seq(R)
           /\ {T!Among(s, A)[i] : i \in 1..Len(T!Among(s, A))} = {s[i] : i \in 1..Len(s)} \cap A
<1> DEFINE Is(f) == f = [n \in 0..Len(s) |-> IF n = 0 THEN <<>> ELSE
                           IF s[n] \in A THEN Append(f[n - 1], s[n]) ELSE f[n - 1]]
           F == CHOOSE f : Is(f)
           L == Len(s)
<1>0. L \in Nat
  BY LenProperties
<1>1. PICK g : Picked(g, s, A, L)
  BY <1>0, PickedExists
<1>2. Is(g)
  <2>1. g = [n \in 0..L |-> g[n]]
    BY <1>1 DEF Picked
  <2>2. ASSUME NEW n \in 0..L
        PROVE  g[n] = IF n = 0 THEN <<>> ELSE IF s[n] \in A THEN Append(g[n - 1], s[n]) ELSE g[n - 1]
    <3>1. CASE n = 0
      BY <1>1, <3>1 DEF Picked
    <3>2. CASE n # 0
      <4>1. n \in 1..L
        BY <1>0, <3>2
      <4> QED BY <1>1, <3>2, <4>1 DEF Picked
    <3> QED BY <3>1, <3>2
  <2> QED BY <2>1, <2>2
<1>3. Is(F)
  <2> HIDE DEF Is
  <2> QED BY <1>2
<1>4. T!Among(s, A) = F[L]
  BY DEF T!Among
<1> HIDE DEF F
<1>5. F[0] = <<>> /\ \A n \in 1..L : F[n] = IF s[n] \in A THEN Append(F[n - 1], s[n]) ELSE F[n - 1]
  <2>1. \A n \in 0..L : F[n] = IF n = 0 THEN <<>> ELSE IF s[n] \in A THEN Append(F[n - 1], s[n]) ELSE F[n - 1]
    BY <1>3, ZenonT(20)
  <2>2. 0 \in 0..L /\ \A n \in 1..L : n \in 0..L /\ n # 0
    BY <1>0
  <2> QED BY ONLY <2>1, <2>2, Zenon
<1> DEFINE Good(n) == F[n] \in Seq(R) /\ {F[n][i] : i \in 1..Len(F[n])} = {s[i] : i \in 1..n} \cap A
           N == {n \in 0..L : ~Good(n)}
<1>6. \A n \in N : \E k \in N : k < n
  <2> SUFFICES ASSUME NEW n \in N PROVE \E k \in N : k < n
    OBVIOUS
  <2>1. n # 0
    <3>1. F[0] = <<>> /\ <<>> \in Seq(R) /\ Len(<<>>) = 0
      BY <1>5, EmptySeq
    <3>2. Good(0)
      BY <3>1
    <3> QED BY <3>2
  <2>2. n \in 1..L /\ n - 1 \in 0..L /\ n - 1 < n
    BY <1>0, <2>1
  <2>3. ASSUME Good(n - 1) PROVE Good(n)
    <3> DEFINE z == F[n - 1]
               y == F[n]
    <3>1. z \in Seq(R) /\ {z[i] : i \in 1..Len(z)} = {s[i] : i \in 1..(n - 1)} \cap A
      BY <2>3
    <3>2. y = IF s[n] \in A THEN Append(z, s[n]) ELSE z
      BY <1>5, <2>2
    <3>3. s[n] \in R
      BY <2>2, ElementOfSeq
    <3>4. {s[i] : i \in 1..n} = {s[i] : i \in 1..(n - 1)} \cup {s[n]}
      <4>1. 1..n = (1..(n - 1)) \cup {n}
        BY <1>0, <2>2
      <4> QED BY <4>1
    <3> HIDE DEF z, y
    <3>5. CASE s[n] \in A
      <4>1. y = Append(z, s[n])
        BY <3>2, <3>5
      <4>2. y \in Seq(R) /\ Len(y) = Len(z) + 1 /\ y[Len(z) + 1] = s[n] /\ \A i \in 1..Len(z) : y[i] = z[i]
        BY <3>1, <3>3, <4>1, AppendProperties
      <4>3. 1..(Len(z) + 1) = (1..Len(z)) \cup {Len(z) + 1}
        BY <3>1, LenProperties
      <4>4. {y[i] : i \in 1..Len(y)} = {z[i] : i \in 1..Len(z)} \cup {s[n]}
        BY <4>2, <4>3
      <4>5. {y[i] : i \in 1..Len(y)} = {s[i] : i \in 1..n} \cap A
        BY <3>1, <3>4, <3>5, <4>4
      <4> QED BY <4>2, <4>5 DEF y
    <3>6. CASE s[n] \notin A
      <4>1. y = z
        BY <3>2, <3>6
      <4>2. {y[i] : i \in 1..Len(y)} = {s[i] : i \in 1..n} \cap A
        BY <3>1, <3>4, <3>6, <4>1
      <4> QED BY <3>1, <4>1, <4>2 DEF y
    <3> QED BY <3>5, <3>6
  <2>4. n - 1 \in N
    BY <2>2, <2>3
  <2> QED BY <2>2, <2>4
<1>7. N = {}
  <2>1. N \in SUBSET Nat
    BY <1>0
  <2> HIDE DEF N
  <2> QED BY <1>6, <2>1, NoLeast
<1>8. Good(L)
  BY <1>0, <1>7
<1> HIDE DEF L
<1> QED BY <1>4, <1>8 DEF L

-----------------------------------------------------------------------------
(***************************************************************************)
(* The inductive invariant of the tools. Of a call: what its fields are,   *)
(* and where it stands with which steps and events.                        *)
(***************************************************************************)
Batch(q) == q.item.tool = "batch_actions"

CallTypes(q) ==
    /\ Shape(q) /\ q.events \in Seq(Input) /\ q.found \in Seq(T!Places)
    /\ Len(q.list) \in Nat /\ DOMAIN q.list = 1..Len(q.list) /\ \A i \in 1..Len(q.list) : q.list[i].at \in T!Places

StageOf(q) ==
    /\ q.pc # "act" => q.events = <<>>
    /\ q.pc # "idle" => Called(q.item) /\ (Batch(q) => q.item.steps \in Seq(Stepped))
    /\ q.pc \in {"capture", "mark", "encode"} => q.item.tool = "get_marked_screen"
    /\ q.pc = "snap" => Batch(q)
    /\ q.pc = "step" => IF Batch(q) THEN q.steps \in Seq(Stepped) \ {<<>>} ELSE q.steps = <<q.item>>
    /\ q.pc = "act"  => IF Batch(q) THEN q.steps \in Seq(Stepped) ELSE q.steps = <<>>

(* A tree that was read is still the whole of what the screen showed then; *)
(* and a difference is reported by the last look only.                     *)
Body(e) == [at |-> e.at, name |-> e.name, value |-> e.value]
KeepOf(q) == q.pc = "keep" => {Body(e) : e \in T!ToSet(q.list)} = T!Content(q.seen)
DiffOf(q) ==
    IF q.pc \in {"review", "idle"}
    THEN q.ok /\ q.snap # None /\ T!Fresh(q) =>
            /\ q.diff = "none" =>
                  /\ T!Names(q.was) = T!Names(q.seen)
                  /\ \A e \in T!Content(q.was), f \in T!Content(q.seen) : e.at = f.at => e = f
            /\ q.diff = "changed" => T!Content(q.was) # T!Content(q.seen)
    ELSE q.diff \notin {"none", "changed"}

CallInv(q) == CallTypes(q) /\ StageOf(q) /\ KeepOf(q) /\ DiffOf(q)

ToolTypes ==
    /\ world \in Worlds /\ marks \in Seq(T!Places)
    /\ call = [c \in Clients |-> call[c]] /\ told = [c \in Clients |-> told[c]] /\ todo = [c \in Clients |-> todo[c]]
    /\ \A c \in Clients :
          /\ todo[c] \in Seq(Asked)
          /\ told[c] = [tree |-> told[c].tree, marks |-> told[c].marks, mine |-> told[c].mine]
          /\ Len(told[c].tree) \in Nat /\ told[c].marks \in Seq(T!Places)
CallsInv == \A c \in Clients :
    /\ CallInv(call[c])
    /\ ~world.enabled => call[c].pc \notin {"snap", "step", "act"}

(* What is to be injected releases what it presses, and presses where the  *)
(* pointer will be.                                                        *)
First(es, i) == \A m \in 1..i - 1 : es[m].do # "move"
Handled(q) ==
    /\ Paired(q.events) \/ q.doing.tool = "key_down"
    /\ q.calm => pointer = last
    /\ Firm(q.events)
    /\ q.sure => /\ Aimed(q.events)
                 /\ \A i \in 1..Len(q.events) :
                       Presses(q.events[i]) /\ First(q.events, i) /\ q.calm => q.events[i].at = pointer
HandsInv == HeldHasCause /\ ClicksWhatWasMeant /\ \A c \in Clients : Handled(call[c])

(* Every id is that of one place, for whoever has been told it.            *)
Means(c, f, it) ==
    IF it.meant = None THEN TRUE
    ELSE \/ it.by = "element" /\ it.id \in DOMAIN f /\ it.meant = f[it.id]
         \/ it.by = "mark" /\ it.id \in 1..Len(told[c].marks) /\ it.meant = told[c].marks[it.id]
Stands(f, e) ==
    /\ e = [id |-> e.id, at |-> e.at, name |-> e.name, value |-> e.value]
    /\ e.id \in DOMAIN f /\ e.at = f[e.id]
NamedTo(c, f) ==
    /\ \A j \in 1..Len(told[c].tree) : Stands(f, told[c].tree[j])
    /\ \A j \in 1..Len(call[c].list) : Stands(f, call[c].list[j])
    /\ call[c].pc = "act" /\ call[c].doing.tool = "set_element_text" => Stands(f, call[c].target)
    /\ call[c].pc = "step" /\ ~Batch(call[c]) => Means(c, f, call[c].item)
Named(f) ==
    /\ \A i \in DOMAIN elements : Stands(f, elements[i]) /\ elements[i].id = i
    /\ \A c \in Clients : NamedTo(c, f)
NameInv == nextId \in Nat \ {0} /\ \E f \in [1..nextId - 1 -> T!Places] : Named(f)

(* The caller whose marks were not replaced has the cached ones.           *)
MarkInv == \A c \in Clients : told[c].mine =>
               marks = IF call[c].pc = "encode" THEN call[c].found ELSE told[c].marks

ToolInv == ToolTypes /\ CallsInv /\ HandsInv /\ NameInv /\ MarkInv

-----------------------------------------------------------------------------
(***************************************************************************)
(* What a step of one call leaves of the invariant.                        *)
(***************************************************************************)
LEMMA Puts ==
    ASSUME ToolTypes, NEW c \in Clients, NEW r, T!Put(c, r)
    PROVE  /\ call' = [d \in Clients |-> call'[d]]
           /\ call'[c] = r
           /\ \A d \in Clients : d # c => call'[d] = call[d]
BY DEF ToolTypes, T!Put

(* The other calls stay what they are.                                     *)
LEMMA CallsStay ==
    ASSUME ToolTypes, CallsInv, NEW c \in Clients, NEW r, T!Put(c, r), UNCHANGED world,
           CallInv(r), ~world.enabled => r.pc \notin {"snap", "step", "act"}
    PROVE  CallsInv'
<1>1. call'[c] = r /\ \A d \in Clients : d # c => call'[d] = call[d]
  BY Puts
<1> SUFFICES ASSUME NEW d \in Clients
             PROVE  CallInv(call'[d]) /\ (~world.enabled => call'[d].pc \notin {"snap", "step", "act"})
  BY DEF CallsInv
<1>2. CASE d = c
  BY <1>1, <1>2
<1>3. CASE d # c
  <2>1. CallInv(call[d]) /\ (~world.enabled => call[d].pc \notin {"snap", "step", "act"})
    BY DEF CallsInv
  <2> QED BY <1>1, <1>3, <2>1
<1> QED BY <1>2, <1>3

(* Nothing of the desktop; and the call had nothing left to do to it.      *)
LEMMA HandsTake ==
    ASSUME ToolTypes, HandsInv, NEW c \in Clients, NEW r, T!Put(c, r), UNCHANGED <<world, T!desktop>>,
           call[c].events = <<>>, Handled(r)
    PROVE  HandsInv'
<1>1. call'[c] = r /\ \A d \in Clients : d # c => call'[d] = call[d]
  BY Puts
<1>2. UNCHANGED <<pointer, last, held, pressed, stuck, hit>>
  BY DEF T!desktop
<1>3. ClicksWhatWasMeant'
  BY <1>2 DEF HandsInv, ClicksWhatWasMeant, T!ClicksWhatWasMeant
<1>4. \A d \in Clients : call[d].pc = "act" => \/ call'[d].pc = "act" /\ call'[d].events = call[d].events
                                               \/ T!Owed(call[d].events) = {}
  <2>1. T!Owed(<<>>) = {}
    BY EmptySeq DEF T!Owed
  <2> QED BY <1>1, <2>1
<1>5. HeldHasCause'
  <2>1. held \subseteq pressed \cup stuck \cup
                       UNION {T!Owed(call[d].events) : d \in {e \in Clients : call[e].pc = "act"}}
    BY DEF HandsInv, HeldHasCause, T!HeldHasCause
  <2>2. \A x \in held : x \in pressed \cup stuck \/ \E d \in Clients : call[d].pc = "act" /\ x \in T!Owed(call[d].events)
    BY <2>1
  <2>3. \A x \in held : x \in pressed \cup stuck \/ \E d \in Clients : call'[d].pc = "act" /\ x \in T!Owed(call'[d].events)
    BY <1>4, <2>2
  <2>4. held \subseteq pressed \cup stuck \cup
                       UNION {T!Owed(call'[d].events) : d \in {e \in Clients : call'[e].pc = "act"}}
    BY <2>3
  <2> QED BY <1>2, <2>4 DEF HandsInv, HeldHasCause, T!HeldHasCause, T!Owed
<1>6. ASSUME NEW d \in Clients PROVE Handled(call[d])'
  <2>1. CASE d = c
    BY <1>1, <1>2, <2>1 DEF Handled
  <2>2. CASE d # c
    <3>1. Handled(call[d]) /\ call'[d] = call[d]
      BY <1>1, <2>2 DEF HandsInv
    <3> QED BY <1>2, <3>1 DEF Handled
  <2> QED BY <2>1, <2>2
<1> QED BY <1>3, <1>5, <1>6 DEF HandsInv

(* The same of a call that has nothing to do to it after the step either.  *)
LEMMA HandsStay ==
    ASSUME ToolTypes, HandsInv, NEW c \in Clients, NEW r, T!Put(c, r), UNCHANGED <<world, T!desktop>>,
           call[c].events = <<>>, r.events = <<>>, r.calm => call[c].calm
    PROVE  HandsInv'
<1>1. Len(<<>>) = 0
  OBVIOUS
<1>2. Handled(call[c])
  BY DEF HandsInv
<1>3. Handled(r)
  BY <1>1, <1>2 DEF Handled, Paired, Firm, Aimed
<1> QED BY <1>3, HandsTake

(* The marks, when the step is not the one that replaces them.             *)
LEMMA MarksStay ==
    ASSUME ToolTypes, MarkInv, NEW c \in Clients, NEW r, T!Put(c, r), UNCHANGED <<marks, told>>,
           call[c].pc # "encode", r.pc # "encode"
    PROVE  MarkInv'
<1>1. call'[c] = r /\ \A d \in Clients : d # c => call'[d] = call[d]
  BY Puts
<1> QED BY <1>1 DEF MarkInv

(* The elements, and what everybody else was told of them.                 *)
LEMMA NamesStay ==
    ASSUME ToolTypes, NEW c \in Clients, NEW r, T!Put(c, r), UNCHANGED nextId, nextId \in Nat \ {0},
           NEW f \in [1..nextId - 1 -> T!Places], Named(f),
           \A i \in DOMAIN elements' : Stands(f, elements'[i]) /\ elements'[i].id = i,
           \A d \in Clients : d # c => told'[d].tree = told[d].tree /\ told'[d].marks = told[d].marks,
           NamedTo(c, f)'
    PROVE  NameInv'
<1>1. call'[c] = r /\ \A d \in Clients : d # c => call'[d] = call[d]
  BY Puts
<1>2. ASSUME NEW d \in Clients PROVE NamedTo(d, f)'
  <2>1. CASE d # c
    <3>1. call'[d] = call[d] /\ told'[d].tree = told[d].tree /\ told'[d].marks = told[d].marks
      BY <1>1, <2>1
    <3>2. NamedTo(d, f)
      BY DEF Named
    <3> QED BY <3>1, <3>2 DEF NamedTo, Means
  <2>2. CASE d = c
    BY <2>2
  <2> QED BY <2>1, <2>2
<1>3. Named(f)'
  BY <1>2 DEF Named
<1> QED BY <1>3 DEF NameInv

(* A step that touches neither caches nor desktop.                         *)
LEMMA Stays ==
    ASSUME ToolInv, NEW c \in Clients, NEW r, T!Put(c, r), CallInv(r),
           ~world.enabled => r.pc \notin {"snap", "step", "act"},
           UNCHANGED <<world, elements, nextId, marks, told, T!desktop>>,
           todo' = [d \in Clients |-> todo'[d]], \A d \in Clients : todo'[d] \in Seq(Asked),
           call[c].events = <<>>, r.events = <<>>, r.calm => call[c].calm,
           call[c].pc # "encode", r.pc # "encode", r.list \in {call[c].list, <<>>},
           \A f \in [1..nextId - 1 -> T!Places] : Named(f) =>
               /\ r.pc = "act" /\ r.doing.tool = "set_element_text" => Stands(f, r.target)
               /\ r.pc = "step" /\ ~Batch(r) => Means(c, f, r.item)
    PROVE  ToolInv'
<1>1. call' = [d \in Clients |-> call'[d]] /\ call'[c] = r
  BY Puts DEF ToolInv
<1>2. ToolTypes'
  BY <1>1 DEF ToolInv, ToolTypes
<1>3. CallsInv'
  BY CallsStay DEF ToolInv
<1>4. HandsInv'
  BY HandsStay DEF ToolInv
<1>5. MarkInv'
  BY MarksStay DEF ToolInv
<1>6. NameInv'
  <2>1. nextId \in Nat \ {0} /\ \E f \in [1..nextId - 1 -> T!Places] : Named(f)
    BY DEF ToolInv, NameInv
  <2>2. PICK f \in [1..nextId - 1 -> T!Places] : Named(f)
    BY <2>1
  <2>3. NamedTo(c, f)'
    <3>1. NamedTo(c, f)
      BY <2>2 DEF Named
    <3>2. Len(<<>>) = 0
      OBVIOUS
    <3>3. \A j \in 1..Len(r.list) : Stands(f, r.list[j])
      BY <3>1, <3>2 DEF NamedTo
    <3> QED BY <1>1, <2>2, <3>1, <3>3 DEF NamedTo, Means
  <2>4. \A i \in DOMAIN elements : Stands(f, elements[i]) /\ elements[i].id = i
    BY <2>2 DEF Named
  <2> QED BY <2>1, <2>2, <2>3, <2>4, NamesStay DEF ToolInv
<1> QED BY <1>2, <1>3, <1>4, <1>5, <1>6 DEF ToolInv

(* Of a call: whatever is to be injected, and whether it is calm.          *)
Alike(q, r) ==
    /\ r.pc = q.pc /\ r.item = q.item /\ r.steps = q.steps /\ r.doing = q.doing /\ r.target = q.target
    /\ r.list = q.list /\ r.snap = q.snap /\ r.was = q.was /\ r.seen = q.seen /\ r.diff = q.diff
    /\ r.found = q.found /\ r.sure = q.sure /\ r.ok = q.ok

(* When calls change in nothing else, only the hands are left to look at.  *)
LEMMA AlikeStays ==
    ASSUME ToolInv, call' = [d \in Clients |-> call'[d]],
           UNCHANGED <<world, elements, nextId, marks, told, todo>>,
           \A d \in Clients : /\ Shape(call'[d]) /\ Alike(call[d], call'[d]) /\ call'[d].events \in Seq(Input)
                              /\ call[d].pc # "act" => call'[d].events = <<>>
    PROVE  ToolTypes' /\ CallsInv' /\ NameInv' /\ MarkInv'
<1>1. ToolTypes'
  BY DEF ToolInv, ToolTypes
<1>2. CallsInv'
  <2> SUFFICES ASSUME NEW d \in Clients
               PROVE  CallInv(call'[d]) /\ (~world'.enabled => call'[d].pc \notin {"snap", "step", "act"})
    BY DEF CallsInv
  <2>1. CallInv(call[d]) /\ (~world.enabled => call[d].pc \notin {"snap", "step", "act"})
    BY DEF ToolInv, CallsInv
  <2>2. /\ Shape(call'[d]) /\ Alike(call[d], call'[d]) /\ call'[d].events \in Seq(Input)
        /\ call[d].pc # "act" => call'[d].events = <<>>
    OBVIOUS
  <2>3. CallTypes(call'[d])
    BY <2>1, <2>2 DEF CallInv, CallTypes, Alike
  <2>4. StageOf(call'[d])
    BY <2>1, <2>2 DEF CallInv, StageOf, Alike, Batch
  <2>5. KeepOf(call'[d])
    BY <2>1, <2>2 DEF CallInv, KeepOf, Alike
  <2>6. DiffOf(call'[d])
    BY <2>1, <2>2 DEF CallInv, DiffOf, Alike, T!Fresh
  <2> QED BY <2>1, <2>2, <2>3, <2>4, <2>5, <2>6 DEF CallInv, Alike
<1>3. NameInv'
  <2>1. nextId \in Nat \ {0} /\ \E f \in [1..nextId - 1 -> T!Places] : Named(f)
    BY DEF ToolInv, NameInv
  <2>2. PICK f \in [1..nextId - 1 -> T!Places] : Named(f)
    BY <2>1
  <2>3. ASSUME NEW d \in Clients PROVE NamedTo(d, f)'
    <3>1. NamedTo(d, f) /\ Alike(call[d], call'[d])
      BY <2>2 DEF Named
    <3> QED BY <3>1 DEF NamedTo, Means, Alike, Batch
  <2>4. Named(f)'
    BY <2>2, <2>3 DEF Named
  <2> QED BY <2>1, <2>4 DEF NameInv
<1>4. MarkInv'
  BY DEF ToolInv, MarkInv, Alike
<1> QED BY <1>1, <1>2, <1>3, <1>4

(* Two lists of events one after the other.                                *)
LEMMA Joined ==
    ASSUME NEW R, NEW a \in Seq(R), NEW b \in Seq(R), NEW es, es = a \o b
    PROVE  /\ es \in Seq(R) /\ Len(a) \in Nat /\ Len(b) \in Nat /\ Len(es) = Len(a) + Len(b)
           /\ \A i \in 1..Len(a) : es[i] = a[i]
           /\ \A i \in 1..Len(b) : es[Len(a) + i] = b[i]
           /\ \A i \in 1..Len(es) : i \in 1..Len(a) \/ (i - Len(a) \in 1..Len(b) /\ es[i] = b[i - Len(a)])
BY ConcatProperties, LenProperties

(* What both lists are, the whole is.                                      *)
LEMMA JoinedKeeps ==
    ASSUME NEW a \in Seq(Input), NEW b \in Seq(Input), NEW es, es = a \o b
    PROVE  /\ Paired(a) /\ Paired(b) => Paired(es)
           /\ Firm(a) /\ Firm(b) => Firm(es)
           /\ Blind(a) /\ Blind(b) => Blind(es)
           /\ Aimed(a) /\ Blind(b) => Aimed(es)
<1>1. /\ es \in Seq(Input) /\ Len(a) \in Nat /\ Len(b) \in Nat /\ Len(es) = Len(a) + Len(b)
      /\ \A i \in 1..Len(a) : es[i] = a[i]
      /\ \A i \in 1..Len(b) : es[Len(a) + i] = b[i]
      /\ \A i \in 1..Len(es) : i \in 1..Len(a) \/ (i - Len(a) \in 1..Len(b) /\ es[i] = b[i - Len(a)])
  BY Joined
<1>2. ASSUME Paired(a), Paired(b), NEW i \in 1..Len(es), es[i].do = "down"
      PROVE  \E j \in i + 1..Len(es) : es[j].do = "up" /\ es[j].key = es[i].key
  <2>1. CASE i \in 1..Len(a)
    <3>1. PICK j \in i + 1..Len(a) : a[j].do = "up" /\ a[j].key = a[i].key
      BY <1>1, <1>2, <2>1 DEF Paired
    <3>2. j \in i + 1..Len(es) /\ j \in 1..Len(a)
      BY <1>1, <2>1
    <3> QED BY <1>1, <2>1, <3>1, <3>2
  <2>2. CASE i - Len(a) \in 1..Len(b) /\ es[i] = b[i - Len(a)]
    <3> DEFINE k == i - Len(a)
    <3>1. PICK j \in k + 1..Len(b) : b[j].do = "up" /\ b[j].key = b[k].key
      BY <1>2, <2>2 DEF Paired
    <3>2. Len(a) + j \in i + 1..Len(es) /\ j \in 1..Len(b)
      BY <1>1, <2>2
    <3>3. es[Len(a) + j] = b[j]
      BY <1>1, <3>2
    <3> QED BY <2>2, <3>1, <3>2, <3>3
  <2> QED BY <1>1, <1>2, <2>1, <2>2
<1>3. ASSUME Firm(a), Firm(b), NEW i \in 1..Len(es) PROVE es[i].soft # 0 => es[i].do # "move"
  BY <1>1, <1>3 DEF Firm
<1>4. ASSUME Blind(a), Blind(b), NEW i \in 1..Len(es) PROVE es[i].do # "move" /\ es[i].at = None
  BY <1>1, <1>4 DEF Blind
<1>5. ASSUME Aimed(a), Blind(b), NEW i \in 1..Len(es), Presses(es[i]), NEW m \in 1..i - 1, Governs(es, m, i)
      PROVE  es[m].at = es[i].at
  <2>1. i \in 1..Len(a)
    BY <1>1, <1>5 DEF Presses, Blind
  <2>2. m \in 1..Len(a) /\ es[m] = a[m] /\ es[i] = a[i]
    BY <1>1, <2>1
  <2>3. Governs(a, m, i)
    <3>1. ASSUME NEW k \in m + 1..i - 1 PROVE a[k].do # "move"
      <4>1. k \in 1..Len(a)
        BY <1>1, <2>1, <2>2
      <4> QED BY <1>1, <1>5, <4>1 DEF Governs
    <3> QED BY <1>5, <2>2, <3>1 DEF Governs
  <2> QED BY <1>5, <2>1, <2>2, <2>3 DEF Aimed
<1> QED BY <1>2, <1>3, <1>4, <1>5 DEF Paired, Firm, Blind, Aimed

(* The keys of a chord, down and up.                                       *)
LEMMA EachIs ==
    ASSUME NEW do \in {"down", "up"}, NEW ks \in Seq(Keyed), NEW es, es = T!Each(do, ks)
    PROVE  /\ es \in Seq(Input) /\ Len(es) = Len(ks)
           /\ \A i \in 1..Len(ks) : es[i].do = do /\ es[i].key = ks[i] /\ es[i].at = None /\ es[i].soft = 0
<1>1. Len(ks) \in Nat
  BY LenProperties
<1>2. es = [i \in 1..Len(ks) |-> T!Event(do, ks[i], None, 0)]
  BY DEF T!Each
<1>3. ASSUME NEW i \in 1..Len(ks)
      PROVE  es[i] \in Input /\ es[i].do = do /\ es[i].key = ks[i] /\ es[i].at = None /\ es[i].soft = 0
  <2>1. ks[i] \in Keyed /\ None \in Spots /\ 0 \in 0..2
    BY ElementOfSeq DEF Spots
  <2>2. es[i] = T!Event(do, ks[i], None, 0)
    BY <1>2
  <2> QED BY <2>1, <2>2 DEF T!Event, Input
<1>4. es \in [1..Len(ks) -> Input]
  BY <1>2, <1>3
<1>5. es \in Seq(Input) /\ Len(es) = Len(ks)
  BY <1>1, <1>4, SeqDef, LenProperties
<1> QED BY <1>3, <1>5

(* The keys of a chord go up in the other order.                           *)
LEMMA ReverseIs ==
    ASSUME NEW ks \in Seq(Keyed), NEW r, r = T!Reverse(ks)
    PROVE  r \in Seq(Keyed) /\ Len(r) = Len(ks) /\ \A i \in 1..Len(ks) : r[Len(ks) - i + 1] = ks[i]
<1>1. Len(ks) \in Nat
  BY LenProperties
<1>2. r = [i \in 1..Len(ks) |-> ks[(Len(ks) - i) + 1]]
  BY DEF T!Reverse
<1>3. r \in [1..Len(ks) -> Keyed]
  <2>1. \A i \in 1..Len(ks) : (Len(ks) - i) + 1 \in 1..Len(ks)
    BY <1>1
  <2>2. \A i \in 1..Len(ks) : ks[i] \in Keyed
    BY ElementOfSeq
  <2> QED BY <1>2, <2>1, <2>2
<1>4. r \in Seq(Keyed) /\ Len(r) = Len(ks)
  BY <1>1, <1>3, SeqDef, LenProperties
<1>5. ASSUME NEW i \in 1..Len(ks) PROVE r[Len(ks) - i + 1] = ks[i]
  <2>1. Len(ks) - i + 1 \in 1..Len(ks) /\ (Len(ks) - (Len(ks) - i + 1)) + 1 = i
    BY <1>1
  <2> QED BY <1>2, <2>1
<1> QED BY <1>4, <1>5

(* Every key of a chord that goes down goes up in it.                      *)
LEMMA ChordIs ==
    ASSUME NEW ks \in Seq(Keyed), NEW es, es = T!Chord(ks)
    PROVE  es \in Seq(Input) /\ Paired(es) /\ Firm(es) /\ Blind(es)
<1> DEFINE a == T!Each("down", ks)
           r == T!Reverse(ks)
           b == T!Each("up", r)
           n == Len(ks)
<1>0. n \in Nat /\ r \in Seq(Keyed) /\ Len(r) = n /\ \A i \in 1..n : r[n - i + 1] = ks[i]
  BY ReverseIs, LenProperties
<1>1. /\ a \in Seq(Input) /\ Len(a) = n
      /\ \A i \in 1..n : a[i].do = "down" /\ a[i].key = ks[i] /\ a[i].at = None /\ a[i].soft = 0
  BY EachIs
<1>2. /\ b \in Seq(Input) /\ Len(b) = n
      /\ \A i \in 1..n : b[i].do = "up" /\ b[i].key = r[i] /\ b[i].at = None /\ b[i].soft = 0
  <2> HIDE DEF r
  <2> QED BY <1>0, EachIs
<1>3. es = a \o b
  BY DEF T!Chord
<1> HIDE DEF a, b, r, n
<1>4. /\ es \in Seq(Input) /\ Len(es) = n + n
      /\ \A i \in 1..n : es[i] = a[i]
      /\ \A i \in 1..n : es[n + i] = b[i]
      /\ \A i \in 1..Len(es) : i \in 1..n \/ (i - n \in 1..n /\ es[i] = b[i - n])
  <2>1. /\ es \in Seq(Input) /\ Len(es) = Len(a) + Len(b)
        /\ \A i \in 1..Len(a) : es[i] = a[i]
        /\ \A i \in 1..Len(b) : es[Len(a) + i] = b[i]
        /\ \A i \in 1..Len(es) : i \in 1..Len(a) \/ (i - Len(a) \in 1..Len(b) /\ es[i] = b[i - Len(a)])
    <3>1. a \in Seq(Input) /\ b \in Seq(Input)
      BY <1>1, <1>2
    <3> QED BY ONLY <3>1, <1>3, Joined
  <2>2. Len(a) = n /\ Len(b) = n
    BY <1>1, <1>2
  <2> QED BY ONLY <2>1, <2>2
<1>5. Blind(es) /\ Firm(es)
  <2>1. ASSUME NEW i \in 1..Len(es) PROVE es[i].do # "move" /\ es[i].at = None /\ es[i].soft = 0
    <3>1. CASE i \in 1..n
      BY <1>1, <1>4, <3>1
    <3>2. CASE i - n \in 1..n /\ es[i] = b[i - n]
      BY <1>2, <3>2
    <3> QED BY <1>4, <3>1, <3>2
  <2> QED BY ONLY <2>1 DEF Blind, Firm
<1>6. ASSUME NEW i \in 1..Len(es), es[i].do = "down"
      PROVE  \E j \in i + 1..Len(es) : es[j].do = "up" /\ es[j].key = es[i].key
  <2>1. i \in 1..n
    BY <1>2, <1>4, <1>6
  <2>2. n - i + 1 \in 1..n /\ n + (n - i + 1) \in i + 1..Len(es)
    BY <1>0, <1>4, <2>1
  <2>3. es[n + (n - i + 1)].do = "up" /\ es[n + (n - i + 1)].key = ks[i] /\ es[i].key = ks[i]
    <3> DEFINE j == n - i + 1
    <3>1. j \in 1..n /\ r[j] = ks[i]
      BY <1>0, <2>1, <2>2
    <3> HIDE DEF j
    <3>2. es[n + j].do = "up" /\ es[n + j].key = ks[i]
      BY <1>2, <1>4, <3>1
    <3>3. es[i].key = ks[i]
      BY <1>1, <1>4, <2>1
    <3> QED BY <3>2, <3>3 DEF j
  <2> QED BY <2>2, <2>3
<1> QED BY <1>4, <1>5, <1>6 DEF Paired

(* The lists of one event, of a button at a place, and of what replaces a  *)
(* text.                                                                   *)
LEMMA SingleIs ==
    ASSUME NEW R, NEW e \in R, NEW es, es = <<e>>
    PROVE  es \in Seq(R) /\ Len(es) = 1 /\ es[1] = e
OBVIOUS

(* A list and one event more.                                              *)
LEMMA JoinedOne ==
    ASSUME NEW a \in Seq(Input), NEW b \in Seq(Input), NEW es, es = a \o b
    PROVE  Len(b) = 1 => /\ es \in Seq(Input) /\ Len(es) = Len(a) + 1 /\ es[Len(a) + 1] = b[1]
                         /\ \A i \in 1..Len(a) : es[i] = a[i]
<1>1. /\ es \in Seq(Input) /\ Len(a) \in Nat /\ Len(b) \in Nat /\ Len(es) = Len(a) + Len(b)
      /\ \A i \in 1..Len(a) : es[i] = a[i]
      /\ \A i \in 1..Len(b) : es[Len(a) + i] = b[i]
      /\ \A i \in 1..Len(es) : i \in 1..Len(a) \/ (i - Len(a) \in 1..Len(b) /\ es[i] = b[i - Len(a)])
  BY Joined
<1>2. Len(b) = 1 => 1 \in 1..Len(b)
  BY <1>1
<1>3. Len(b) = 1 => es[Len(a) + 1] = b[1]
  BY <1>1, <1>2
<1> QED BY <1>1, <1>3

(* A move, a button that goes down and one that goes up, at a place.       *)
LEMMA ButtonIs ==
    ASSUME NEW p \in Spots, NEW es
    PROVE  /\ es = T!Move(p) => /\ es \in Seq(Input) /\ Len(es) = 1 /\ es[1].do = "move" /\ es[1].at = p /\ es[1].soft = 0
           /\ es = T!Down("left", p) => /\ es \in Seq(Input) /\ Len(es) = 1 /\ es[1].do = "down" /\ es[1].key = "left"
                                        /\ es[1].at = p /\ es[1].soft = 0
           /\ es = T!Up("left", p) => /\ es \in Seq(Input) /\ Len(es) = 1 /\ es[1].do = "up" /\ es[1].key = "left"
                                      /\ es[1].at = p /\ es[1].soft = 0
<1>1. None \in Keyed /\ "left" \in Keyed /\ 0 \in 0..2
  BY DEF Keyed
<1>2. CASE es = T!Move(p)
  <2> DEFINE e == T!Event("move", None, p, 0)
  <2>1. e \in Input /\ e.do = "move" /\ e.at = p /\ e.soft = 0
    BY <1>1 DEF T!Event, Input
  <2>2. es = <<e>>
    BY <1>2 DEF T!Move
  <2> HIDE DEF e
  <2>3. es \in Seq(Input) /\ Len(es) = 1 /\ es[1] = e
    BY ONLY <2>1, <2>2, SingleIs
  <2> QED BY <2>1, <2>3, <1>2 DEF T!Move, T!Down, T!Up, T!Event
<1>3. CASE es = T!Down("left", p)
  <2> DEFINE e == T!Event("down", "left", p, 0)
  <2>1. e \in Input /\ e.do = "down" /\ e.key = "left" /\ e.at = p /\ e.soft = 0
    BY <1>1 DEF T!Event, Input
  <2>2. es = <<e>>
    BY <1>3 DEF T!Down
  <2> HIDE DEF e
  <2>3. es \in Seq(Input) /\ Len(es) = 1 /\ es[1] = e
    BY ONLY <2>1, <2>2, SingleIs
  <2> QED BY <2>1, <2>3, <1>3 DEF T!Move, T!Down, T!Up, T!Event
<1>4. CASE es = T!Up("left", p)
  <2> DEFINE e == T!Event("up", "left", p, 0)
  <2>1. e \in Input /\ e.do = "up" /\ e.key = "left" /\ e.at = p /\ e.soft = 0
    BY <1>1 DEF T!Event, Input
  <2>2. es = <<e>>
    BY <1>4 DEF T!Up
  <2> HIDE DEF e
  <2>3. es \in Seq(Input) /\ Len(es) = 1 /\ es[1] = e
    BY ONLY <2>1, <2>2, SingleIs
  <2> QED BY <2>1, <2>3, <1>4 DEF T!Move, T!Down, T!Up, T!Event
<1> QED BY <1>2, <1>3, <1>4

(* What a click is: to the place it means, or where the pointer is.        *)
LEMMA ClickIs ==
    ASSUME NEW p \in Spots, NEW meant \in Spots, NEW es, es = T!Click(p, meant)
    PROVE  /\ es \in Seq(Input) /\ Paired(es) /\ Firm(es)
           /\ p = None \/ meant = None \/ p = meant => Aimed(es)
<1> DEFINE m == IF p = None THEN <<>> ELSE T!Move(p)
           d == T!Down("left", meant)
           u == T!Up("left", meant)
           md == m \o d
<1>1. /\ d \in Seq(Input) /\ Len(d) = 1 /\ d[1].do = "down" /\ d[1].key = "left" /\ d[1].at = meant /\ d[1].soft = 0
      /\ u \in Seq(Input) /\ Len(u) = 1 /\ u[1].do = "up" /\ u[1].key = "left" /\ u[1].at = meant /\ u[1].soft = 0
  BY ButtonIs
<1>2. /\ m \in Seq(Input) /\ Len(m) \in {0, 1} /\ (p # None <=> Len(m) = 1)
      /\ Len(m) = 1 => m[1].do = "move" /\ m[1].at = p /\ m[1].soft = 0
  <2>1. CASE p = None
    <3>1. <<>> \in Seq(Input) /\ Len(<<>>) = 0
      BY EmptySeq
    <3> QED BY <2>1, <3>1
  <2>2. CASE p # None
    <3>1. m = T!Move(p)
      BY <2>2
    <3> HIDE DEF m
    <3> QED BY <2>2, <3>1, ButtonIs
  <2> QED BY <2>1, <2>2
<1>3. es = md \o u
  BY DEF T!Click
<1> HIDE DEF m, d, u
<1>4. /\ md \in Seq(Input) /\ Len(md) = Len(m) + 1
      /\ \A i \in 1..Len(m) : md[i] = m[i]
      /\ md[Len(m) + 1] = d[1]
  <2>1. /\ md \in Seq(Input) /\ Len(md) = Len(m) + Len(d) /\ Len(d) \in Nat
        /\ \A i \in 1..Len(m) : md[i] = m[i]
        /\ \A i \in 1..Len(d) : md[Len(m) + i] = d[i]
    <3>1. m \in Seq(Input) /\ d \in Seq(Input)
      BY <1>1, <1>2
    <3> QED BY ONLY <3>1, Joined DEF md
  <2>2. 1 \in 1..Len(d)
    BY <1>1
  <2> QED BY <1>1, <2>1, <2>2
<1> HIDE DEF md
<1>5. /\ es \in Seq(Input) /\ Len(es) = Len(m) + 2
      /\ \A i \in 1..Len(m) : es[i] = m[i]
      /\ es[Len(m) + 1] = d[1] /\ es[Len(m) + 2] = u[1]
  <2>1. /\ es \in Seq(Input) /\ Len(es) = Len(md) + Len(u)
        /\ \A i \in 1..Len(md) : es[i] = md[i]
        /\ \A i \in 1..Len(u) : es[Len(md) + i] = u[i]
    <3>1. md \in Seq(Input) /\ u \in Seq(Input)
      BY <1>1, <1>4
    <3> QED BY ONLY <3>1, <1>3, Joined
  <2>2. 1 \in 1..Len(u) /\ Len(md) + 1 = Len(m) + 2 /\ Len(m) + 1 \in 1..Len(md) /\ \A i \in 1..Len(m) : i \in 1..Len(md)
    BY <1>1, <1>2, <1>4
  <2> QED BY <1>1, <1>2, <1>4, <2>1, <2>2
<1>6. CASE Len(m) = 0
  <2>1. Len(es) = 2 /\ es[1] = d[1] /\ es[2] = u[1] /\ \A i \in 1..Len(es) : i \in {1, 2}
    BY <1>5, <1>6
  <2>2. Paired(es)
    <3>1. 2 \in 1 + 1..Len(es)
      BY <2>1
    <3> QED BY <1>1, <2>1, <3>1 DEF Paired
  <2>3. Firm(es)
    BY <1>1, <2>1 DEF Firm
  <2>4. Aimed(es)
    BY <1>1, <2>1 DEF Aimed, Governs
  <2> QED BY <1>5, <2>2, <2>3, <2>4
<1>7. CASE Len(m) = 1
  <2>1. Len(es) = 3 /\ es[1] = m[1] /\ es[2] = d[1] /\ es[3] = u[1] /\ \A i \in 1..Len(es) : i \in {1, 2, 3}
    BY <1>5, <1>7
  <2>2. Paired(es)
    <3>1. 3 \in 2 + 1..Len(es)
      BY <2>1
    <3> QED BY <1>1, <1>2, <1>7, <2>1, <3>1 DEF Paired
  <2>3. Firm(es)
    BY <1>1, <1>2, <1>7, <2>1 DEF Firm
  <2>4. ASSUME p = None \/ meant = None \/ p = meant PROVE Aimed(es)
    <3>1. p # None
      BY <1>2, <1>7
    <3> SUFFICES ASSUME NEW i \in 1..Len(es), Presses(es[i]), NEW k \in 1..i - 1, Governs(es, k, i)
                 PROVE  es[k].at = es[i].at
      BY DEF Aimed
    <3>2. es[i].at = meant /\ meant # None
      BY <1>1, <1>2, <1>7, <2>1 DEF Presses
    <3>3. k = 1
      <4>1. es[k].do = "move"
        BY DEF Governs
      <4> QED BY <1>1, <2>1, <4>1
    <3> QED BY <1>2, <1>7, <2>1, <2>4, <3>1, <3>2, <3>3
  <2> QED BY <1>5, <2>2, <2>3, <2>4
<1> QED BY <1>2, <1>6, <1>7

(* A drag presses and releases where its own moves go.                     *)
LEMMA DragIs ==
    ASSUME NEW p \in Spots, NEW r \in Spots, NEW es, es = T!Drag(p, r)
    PROVE  es \in Seq(Input) /\ Paired(es) /\ Firm(es) /\ Aimed(es)
<1> DEFINE a == T!Move(p)
           d == T!Down("left", p)
           b == T!Move(r)
           u == T!Up("left", r)
           ad == a \o d
           adb == ad \o b
<1>1. /\ a \in Seq(Input) /\ Len(a) = 1 /\ a[1].do = "move" /\ a[1].at = p /\ a[1].soft = 0
      /\ d \in Seq(Input) /\ Len(d) = 1 /\ d[1].do = "down" /\ d[1].key = "left" /\ d[1].at = p /\ d[1].soft = 0
      /\ b \in Seq(Input) /\ Len(b) = 1 /\ b[1].do = "move" /\ b[1].at = r /\ b[1].soft = 0
      /\ u \in Seq(Input) /\ Len(u) = 1 /\ u[1].do = "up" /\ u[1].key = "left" /\ u[1].at = r /\ u[1].soft = 0
  BY ButtonIs
<1>2. es = adb \o u
  BY DEF T!Drag
<1>a. ad = a \o d
  OBVIOUS
<1>b. adb = ad \o b
  OBVIOUS
<1> HIDE DEF a, b, d, u, ad, adb
<1>3. ad \in Seq(Input) /\ Len(ad) = 2 /\ ad[1] = a[1] /\ ad[2] = d[1]
  <2>1. a \in Seq(Input) /\ d \in Seq(Input)
    BY <1>1
  <2>2. Len(d) = 1 => /\ ad \in Seq(Input) /\ Len(ad) = Len(a) + 1 /\ ad[Len(a) + 1] = d[1]
                      /\ \A i \in 1..Len(a) : ad[i] = a[i]
    BY ONLY <1>a, <2>1, JoinedOne
  <2> QED BY <1>1, <2>2
<1>4. adb \in Seq(Input) /\ Len(adb) = 3 /\ adb[1] = a[1] /\ adb[2] = d[1] /\ adb[3] = b[1]
  <2>1. ad \in Seq(Input) /\ b \in Seq(Input)
    BY <1>1, <1>3
  <2>2. Len(b) = 1 => /\ adb \in Seq(Input) /\ Len(adb) = Len(ad) + 1 /\ adb[Len(ad) + 1] = b[1]
                      /\ \A i \in 1..Len(ad) : adb[i] = ad[i]
    BY ONLY <1>b, <2>1, JoinedOne
  <2> QED BY <1>1, <1>3, <2>2
<1>5. es \in Seq(Input) /\ Len(es) = 4 /\ es[1] = a[1] /\ es[2] = d[1] /\ es[3] = b[1] /\ es[4] = u[1]
  <2>1. adb \in Seq(Input) /\ u \in Seq(Input)
    BY <1>1, <1>4
  <2>2. Len(u) = 1 => /\ es \in Seq(Input) /\ Len(es) = Len(adb) + 1 /\ es[Len(adb) + 1] = u[1]
                      /\ \A i \in 1..Len(adb) : es[i] = adb[i]
    BY ONLY <1>2, <2>1, JoinedOne
  <2> QED BY <1>1, <1>4, <2>2
<1>6. \A i \in 1..Len(es) : i \in {1, 2, 3, 4}
  BY <1>5
<1>7. Paired(es)
  <2>1. 4 \in 2 + 1..Len(es)
    BY <1>5
  <2> QED BY <1>1, <1>5, <1>6, <2>1 DEF Paired
<1>8. Firm(es)
  BY <1>1, <1>5, <1>6 DEF Firm
<1>9. Aimed(es)
  <2> SUFFICES ASSUME NEW i \in 1..Len(es), Presses(es[i]), NEW k \in 1..i - 1, Governs(es, k, i)
               PROVE  es[k].at = es[i].at
    BY DEF Aimed
  <2>1. i \in {2, 4} /\ es[k].do = "move" /\ k \in {1, 2, 3, 4}
    BY <1>1, <1>5, <1>6 DEF Presses, Governs
  <2>2. CASE i = 2
    <3>1. k = 1
      BY <2>2
    <3> QED BY <1>1, <1>5, <2>2, <3>1
  <2>3. CASE i = 4
    <3>1. k # 2
      BY <1>1, <1>5, <2>1
    <3>2. k # 1
      <4>1. 3 \in 1 + 1..4 - 1
        OBVIOUS
      <4> QED BY <1>1, <1>5, <2>3, <4>1 DEF Governs
    <3>3. k = 3
      BY <2>3, <3>1, <3>2
    <3> QED BY <1>1, <1>5, <2>3, <3>3
  <2> QED BY <2>1, <2>2, <2>3
<1> QED BY <1>5, <1>7, <1>8, <1>9

(* Events whose failure is passed over.                                    *)
LEMMA SoftIs ==
    ASSUME NEW es \in Seq(Input), Blind(es), Paired(es), NEW n \in 0..2, NEW z, z = T!Soft(es, n)
    PROVE  z \in Seq(Input) /\ Blind(z) /\ Paired(z) /\ Firm(z)
<1>1. Len(es) \in Nat
  BY LenProperties
<1>2. z = [i \in 1..Len(es) |-> [es[i] EXCEPT !.soft = n]]
  BY DEF T!Soft
<1>3. ASSUME NEW i \in 1..Len(es)
      PROVE  z[i] \in Input /\ z[i].do = es[i].do /\ z[i].key = es[i].key /\ z[i].at = es[i].at
  <2> DEFINE e == es[i]
  <2>1. e \in Input
    BY ElementOfSeq
  <2>2. z[i] = [e EXCEPT !.soft = n]
    BY <1>2
  <2> HIDE DEF e
  <2>3. z[i] \in Input /\ z[i].do = e.do /\ z[i].key = e.key /\ z[i].at = e.at
    BY <2>1, <2>2 DEF Input
  <2> QED BY <2>3 DEF e
<1>4. z \in [1..Len(es) -> Input]
  BY <1>2, <1>3
<1>5. z \in Seq(Input) /\ Len(z) = Len(es)
  BY <1>1, <1>4, SeqDef, LenProperties
<1>6. Blind(z) /\ Firm(z)
  BY <1>3, <1>5 DEF Blind, Firm
<1>7. Paired(z)
  <2> SUFFICES ASSUME NEW i \in 1..Len(z), z[i].do = "down"
               PROVE  \E j \in i + 1..Len(z) : z[j].do = "up" /\ z[j].key = z[i].key
    BY DEF Paired
  <2>1. PICK j \in i + 1..Len(es) : es[j].do = "up" /\ es[j].key = es[i].key
    BY <1>3, <1>5 DEF Paired
  <2>2. j \in 1..Len(es) /\ j \in i + 1..Len(z)
    BY <1>1, <1>5
  <2> QED BY <1>3, <1>5, <2>1, <2>2
<1> QED BY <1>5, <1>6, <1>7

(* A list without moves and places presses nothing anywhere.               *)
LEMMA BlindIsAimed == ASSUME NEW es, Blind(es) PROVE Aimed(es)
BY DEF Blind, Aimed, Presses

(* One event without a place, and the empty list.                          *)
LEMMA LoneIs ==
    ASSUME NEW do \in {"down", "up", "move", "type", "focus"}, NEW key \in Keyed, NEW at \in Spots,
           NEW es, es = <<T!Event(do, key, at, 0)>>
    PROVE  /\ es \in Seq(Input) /\ Firm(es) /\ (do # "down" => Paired(es))
           /\ do \in {"type", "focus", "move"} \/ at = None => Aimed(es)
<1> DEFINE e == T!Event(do, key, at, 0)
<1>1. e \in Input /\ e.do = do /\ e.key = key /\ e.at = at /\ e.soft = 0
  BY DEF T!Event, Input
<1>2. es = <<e>>
  OBVIOUS
<1> HIDE DEF e
<1>3. es \in Seq(Input) /\ Len(es) = 1 /\ es[1] = e
  BY ONLY <1>1, <1>2, SingleIs
<1>4. \A i \in 1..Len(es) : i = 1
  BY <1>3
<1> QED BY <1>1, <1>3, <1>4 DEF Firm, Paired, Aimed, Presses

(* The empty list.                                                         *)
LEMMA NothingIs == <<>> \in Seq(Input) /\ Firm(<<>>) /\ Paired(<<>>) /\ Aimed(<<>>)
<1>1. <<>> \in Seq(Input) /\ Len(<<>>) = 0
  BY EmptySeq
<1> QED BY <1>1 DEF Firm, Paired, Aimed

(* What replaces a text.                                                   *)
LEMMA SelectAllIs ==
    ASSUME NEW es, es = T!SelectAll
    PROVE  es \in Seq(Input) /\ Blind(es) /\ Paired(es) /\ Firm(es)
<1> DEFINE ks == <<"ctrl", "a">>
           ch == T!Chord(ks)
<1>1. ks \in Seq(Keyed)
  BY DEF Keyed
<1> HIDE DEF ks
<1>2. ch \in Seq(Input) /\ Paired(ch) /\ Blind(ch)
  BY <1>1, ChordIs
<1>3. es = T!Soft(ch, 1)
  BY DEF T!SelectAll, ks
<1> HIDE DEF ch
<1>4. 1 \in 0..2
  OBVIOUS
<1> QED BY ONLY <1>2, <1>3, <1>4, SoftIs

(* A key that goes down and up.                                            *)
LEMMA TapIs ==
    ASSUME NEW k \in Keyed, NEW es, es = T!Tap(k)
    PROVE  es \in Seq(Input) /\ Blind(es) /\ Paired(es) /\ Firm(es)
<1> DEFINE d == T!Event("down", k, None, 0)
           u == T!Event("up", k, None, 0)
<1>1. /\ d \in Input /\ d.do = "down" /\ d.key = k /\ d.at = None /\ d.soft = 0
      /\ u \in Input /\ u.do = "up" /\ u.key = k /\ u.at = None /\ u.soft = 0
  BY DEF T!Event, Input, Spots
<1>2. es = <<d>> \o <<u>>
  BY DEF T!Tap, T!Down, T!Up
<1> HIDE DEF d, u
<1> DEFINE a == <<d>>
           b == <<u>>
<1>3. /\ a \in Seq(Input) /\ Len(a) = 1 /\ a[1] = d
      /\ b \in Seq(Input) /\ Len(b) = 1 /\ b[1] = u
  <2>1. a = <<d>> /\ b = <<u>>
    OBVIOUS
  <2> HIDE DEF a, b
  <2> QED BY ONLY <1>1, <2>1, SingleIs
<1>b. es = a \o b
  BY <1>2
<1> HIDE DEF a, b
<1>4. es \in Seq(Input) /\ Len(es) = 2 /\ es[1] = d /\ es[2] = u
  <2>1. Len(b) = 1 => /\ es \in Seq(Input) /\ Len(es) = Len(a) + 1 /\ es[Len(a) + 1] = b[1]
                      /\ \A i \in 1..Len(a) : es[i] = a[i]
    <3>1. a \in Seq(Input) /\ b \in Seq(Input)
      BY <1>3
    <3> QED BY ONLY <1>b, <3>1, JoinedOne
  <2> QED BY <1>3, <2>1
<1>5. \A i \in 1..Len(es) : i \in {1, 2}
  BY <1>4
<1>6. Paired(es)
  <2>1. 2 \in 1 + 1..Len(es)
    BY <1>4
  <2> QED BY <1>1, <1>4, <1>5, <2>1 DEF Paired
<1> QED BY <1>1, <1>4, <1>5, <1>6 DEF Blind, Firm

(* The selection of the text, its deletion and the new text.               *)
LEMMA ReplacingIs ==
    ASSUME NEW it, NEW es, es = T!Replacing(it)
    PROVE  es \in Seq(Input) /\ Blind(es) /\ Paired(es) /\ Firm(es)
<1>1. CASE it.text = ""
  <2> DEFINE t == T!Tap("backspace")
  <2>1. "backspace" \in Keyed
    BY DEF Keyed
  <2>2. t \in Seq(Input) /\ Blind(t) /\ Paired(t)
    BY <2>1, TapIs
  <2>3. es = T!Soft(t, 2)
    BY <1>1 DEF T!Replacing
  <2> HIDE DEF t
  <2>4. 2 \in 0..2
    OBVIOUS
  <2> QED BY ONLY <2>2, <2>3, <2>4, SoftIs
<1>2. CASE it.text # ""
  <2> DEFINE e == T!Event("type", None, None, 0)
  <2>1. e \in Input /\ e.do = "type" /\ e.at = None /\ e.soft = 0
    BY DEF T!Event, Input, Spots, Keyed
  <2>2. es = <<e>>
    BY <1>2 DEF T!Replacing, T!Type
  <2> HIDE DEF e
  <2>3. es \in Seq(Input) /\ Len(es) = 1 /\ es[1] = e
    BY ONLY <2>1, <2>2, SingleIs
  <2>4. \A i \in 1..Len(es) : i = 1
    BY <2>3
  <2> QED BY <2>1, <2>3, <2>4 DEF Blind, Paired, Firm
<1> QED BY <1>1, <1>2

(* What any step of a call injects.                                        *)
LEMMA ScriptIs ==
    ASSUME NEW it, Called(it), NEW p \in Spots, p = T!Where(it), it.meant \in Spots, NEW es, es = T!Script(it),
           NEW m, m = IF it.meant # None THEN it.meant ELSE it.at
    PROVE  /\ es \in Seq(Input) /\ Firm(es) /\ (it.tool # "key_down" => Paired(es))
           /\ p = None \/ m = None \/ p = m => Aimed(es)
<1>0. m \in Spots /\ None \in Spots /\ None \in Keyed /\ it.at \in Spots /\ it.to \in Spots
  BY DEF Called, Spots, Keyed
<1>1. CASE it.tool \in {"click_element", "click_mark", "mouse_click"}
  <2>1. es = T!Click(p, m)
    BY <1>1 DEF T!Script
  <2>2. /\ es \in Seq(Input) /\ Paired(es) /\ Firm(es)
        /\ p = None \/ m = None \/ p = m => Aimed(es)
    BY ONLY <1>0, <2>1, p \in Spots, ClickIs
  <2> QED BY ONLY <1>1, <2>2
<1>2. CASE it.tool = "set_element_text"
  <2> DEFINE a == T!Click(p, it.meant)
             b == T!SelectAll
             ab == a \o b
             r == T!Replacing(it)
  <2>1. m = it.meant
    BY <1>2 DEF Called
  <2>2. a \in Seq(Input) /\ Paired(a) /\ Firm(a) /\ (p = None \/ m = None \/ p = m => Aimed(a))
    BY ONLY <1>0, <2>1, p \in Spots, ClickIs
  <2>3. b \in Seq(Input) /\ Blind(b) /\ Paired(b) /\ Firm(b)
    BY SelectAllIs
  <2>4. r \in Seq(Input) /\ Blind(r) /\ Paired(r) /\ Firm(r)
    BY ReplacingIs
  <2>5. es = ab \o r
    BY <1>2 DEF T!Script
  <2>6. ab = a \o b
    OBVIOUS
  <2> HIDE DEF a, b, r, ab
  <2>7. ab \in Seq(Input) /\ Paired(ab) /\ Firm(ab) /\ (Aimed(a) => Aimed(ab))
    <3>1. ab \in Seq(Input)
      BY <2>2, <2>3, <2>6
    <3> QED BY ONLY <2>2, <2>3, <2>6, <3>1, JoinedKeeps
  <2>8. es \in Seq(Input) /\ Paired(es) /\ Firm(es) /\ (Aimed(ab) => Aimed(es))
    <3>1. es \in Seq(Input)
      BY <2>4, <2>5, <2>7
    <3> QED BY ONLY <2>4, <2>5, <2>7, <3>1, JoinedKeeps
  <2> QED BY ONLY <1>2, <2>2, <2>7, <2>8
<1>3. CASE it.tool = "mouse_drag"
  <2>1. es = T!Drag(it.at, it.to)
    BY <1>3 DEF T!Script
  <2> QED BY ONLY <1>0, <2>1, DragIs
<1>4. CASE it.tool \in {"mouse_move", "mouse_scroll"}
  <2>1. es = <<T!Event("move", None, it.at, 0)>>
    BY <1>4 DEF T!Script, T!Move
  <2> QED BY ONLY <1>0, <2>1, LoneIs
<1>5. CASE it.tool \in {"press_key", "hotkey"}
  <2>1. es = T!Chord(it.keys) /\ it.keys \in Seq(Keyed)
    BY <1>5 DEF T!Script, Called
  <2> QED BY ONLY <2>1, ChordIs, BlindIsAimed
<1>6. CASE it.tool = "key_down"
  <2>1. es = <<T!Event("down", it.keys[1], None, 0)>> /\ it.keys[1] \in Keyed
    BY <1>6 DEF T!Script, T!Down, Called
  <2> QED BY ONLY <1>0, <1>6, <2>1, LoneIs
<1>7. CASE it.tool = "key_up"
  <2>1. es = <<T!Event("up", it.keys[1], None, 0)>> /\ it.keys[1] \in Keyed
    BY <1>7 DEF T!Script, T!Up, Called
  <2> QED BY ONLY <1>0, <2>1, LoneIs
<1>8. CASE it.tool = "type_text"
  <2>1. es = <<T!Event("type", None, None, 0)>>
    BY <1>8 DEF T!Script, T!Type
  <2> QED BY ONLY <1>0, <2>1, LoneIs
<1>9. CASE it.tool = "focus_window"
  <2>1. es = <<T!Event("focus", None, it.at, 0)>>
    BY <1>9 DEF T!Script
  <2> QED BY ONLY <1>0, <2>1, LoneIs
<1>10. CASE it.tool \notin {"click_element", "click_mark", "mouse_click", "set_element_text", "mouse_drag", "mouse_move",
                            "mouse_scroll", "press_key", "hotkey", "key_down", "key_up", "type_text", "focus_window"}
  <2>1. es = <<>>
    BY <1>10 DEF T!Script
  <2> QED BY <2>1, NothingIs
<1> QED BY <1>1, <1>2, <1>3, <1>4, <1>5, <1>6, <1>7, <1>8, <1>9, <1>10

-----------------------------------------------------------------------------
(***************************************************************************)
(* The steps, one by one. A call that begins: what it acts on is what its  *)
(* caller was told.                                                        *)
(***************************************************************************)
LEMMA SentIs ==
    ASSUME NEW c \in Clients, NEW it \in Asked \cup Stepped, NEW s, s = T!Sent(c, it),
           Len(told[c].tree) \in Nat, Len(told[c].marks) \in Nat
    PROVE  /\ Called(s) /\ s.tool = it.tool /\ s.steps = it.steps
           /\ \A f : NamedTo(c, f) => Means(c, f, s)
<1>1. Plain(it)
  BY CallsAssumption
<1>2. PICK i, m : /\ s = [tool |-> it.tool, by |-> it.by, nth |-> it.nth, id |-> i, meant |-> m, at |-> it.at,
                          to |-> it.to, keys |-> it.keys, text |-> it.text, how |-> it.how, crop |-> it.crop,
                          diff |-> it.diff, steps |-> it.steps]
                  /\ \/ m = None
                     \/ /\ it.by = "element" /\ it.nth \in 1..Len(told[c].tree)
                        /\ i = told[c].tree[it.nth].id /\ m = told[c].tree[it.nth].at
                     \/ it.by = "mark" /\ i \in 1..Len(told[c].marks) /\ m = told[c].marks[i]
  <2>1. it.nth \in Nat /\ it.meant = None /\ (it.by \in {"element", "mark"} => it.nth # 0)
    BY <1>1 DEF Plain
  <2>2. CASE it.by = "element" /\ it.nth <= Len(told[c].tree)
    <3>1. s = [it EXCEPT !.id = told[c].tree[it.nth].id, !.meant = told[c].tree[it.nth].at]
      BY <2>2 DEF T!Sent
    <3>2. s = [tool |-> it.tool, by |-> it.by, nth |-> it.nth, id |-> told[c].tree[it.nth].id,
               meant |-> told[c].tree[it.nth].at, at |-> it.at,
               to |-> it.to, keys |-> it.keys, text |-> it.text, how |-> it.how, crop |-> it.crop,
               diff |-> it.diff, steps |-> it.steps]
      BY <1>1, <3>1, Zenon DEF Plain
    <3>3. it.nth \in 1..Len(told[c].tree)
      BY <2>1, <2>2
    <3> QED BY <2>2, <3>2, <3>3, Zenon
  <2>3. CASE ~(it.by = "element" /\ it.nth <= Len(told[c].tree)) /\ it.by = "mark" /\ it.nth <= Len(told[c].marks)
    <3>1. s = [it EXCEPT !.id = it.nth, !.meant = told[c].marks[it.nth]]
      BY <2>3 DEF T!Sent
    <3>2. s = [tool |-> it.tool, by |-> it.by, nth |-> it.nth, id |-> it.nth, meant |-> told[c].marks[it.nth],
               at |-> it.at, to |-> it.to, keys |-> it.keys, text |-> it.text, how |-> it.how, crop |-> it.crop,
               diff |-> it.diff, steps |-> it.steps]
      BY <1>1, <3>1, Zenon DEF Plain
    <3>3. it.nth \in 1..Len(told[c].marks)
      BY <2>1, <2>3
    <3> QED BY <2>3, <3>2, <3>3, Zenon
  <2>4. CASE /\ ~(it.by = "element" /\ it.nth <= Len(told[c].tree))
             /\ ~(it.by = "mark" /\ it.nth <= Len(told[c].marks))
    <3>1. s = [it EXCEPT !.id = it.nth]
      BY <2>4 DEF T!Sent
    <3>2. s = [tool |-> it.tool, by |-> it.by, nth |-> it.nth, id |-> it.nth, meant |-> it.meant,
               at |-> it.at, to |-> it.to, keys |-> it.keys, text |-> it.text, how |-> it.how, crop |-> it.crop,
               diff |-> it.diff, steps |-> it.steps]
      BY <1>1, <3>1, Zenon DEF Plain
    <3> QED BY <2>1, <3>2, Zenon
  <2> QED BY <2>2, <2>3, <2>4
<1>3. /\ s.tool = it.tool /\ s.by = it.by /\ s.id = i /\ s.meant = m /\ s.at = it.at /\ s.to = it.to
      /\ s.keys = it.keys /\ s.how = it.how /\ s.steps = it.steps
  <2>1. s = [tool |-> it.tool, by |-> it.by, nth |-> it.nth, id |-> i, meant |-> m, at |-> it.at,
             to |-> it.to, keys |-> it.keys, text |-> it.text, how |-> it.how, crop |-> it.crop,
             diff |-> it.diff, steps |-> it.steps]
    BY <1>2
  <2> QED BY ONLY <2>1, Zenon
<1>4. it.at \in Spots /\ it.to \in Spots
  BY DEF Spots
<1>5. it.keys \in Seq(Keyed)
  <2>1. T!ToSet(it.keys) \subseteq Keyed
    BY DEF Keyed
  <2>2. it.keys \in Seq(T!ToSet(it.keys))
    BY <1>1 DEF Plain
  <2>3. Len(it.keys) \in Nat /\ it.keys \in [1..Len(it.keys) -> T!ToSet(it.keys)]
    BY <2>2, LenProperties
  <2>4. it.keys \in [1..Len(it.keys) -> Keyed]
    BY <2>1, <2>3
  <2> QED BY <2>3, <2>4, SeqDef
<1>6. Called(s)
  BY <1>1, <1>3, <1>4, <1>5 DEF Called, Plain
<1>8. ASSUME NEW f, NamedTo(c, f) PROVE Means(c, f, s)
  <2>1. CASE it.by = "element" /\ it.nth \in 1..Len(told[c].tree) /\ i = told[c].tree[it.nth].id /\ m = told[c].tree[it.nth].at
    <3>1. Stands(f, told[c].tree[it.nth])
      BY <1>8, <2>1 DEF NamedTo
    <3> QED BY <1>3, <2>1, <3>1 DEF Means, Stands
  <2>2. CASE m = None \/ (it.by = "mark" /\ i \in 1..Len(told[c].marks) /\ m = told[c].marks[i])
    BY <1>3, <2>2 DEF Means
  <2> QED BY <1>2, <2>1, <2>2
<1> QED BY <1>3, <1>6, <1>8

(* The begun call stands where its tool begins.                            *)
LEMMA BeginStep ==
    ASSUME ToolInv, NEW c \in Clients, T!Begin(c)
    PROVE  ToolInv'
<1> DEFINE it == T!Sent(c, Head(todo[c]))
           x == IF it.tool \in T!Reviewed THEN screen.front ELSE None
           q == [T!Idle EXCEPT !.item = it, !.front = x]
           r == IF T!Gated(it) THEN T!Fail(q)
                ELSE CASE it.tool = "get_ui_tree" -> [q EXCEPT !.pc = "tree"]
                       [] it.tool = "get_marked_screen" -> [q EXCEPT !.pc = "capture"]
                       [] it.tool = "batch_actions" -> [q EXCEPT !.pc = "snap"]
                       [] OTHER -> [q EXCEPT !.pc = "step", !.steps = <<it>>]
<1>1. /\ call[c].pc = "idle" /\ todo[c] # <<>> /\ todo' = [todo EXCEPT ![c] = Tail(@)]
      /\ T!Put(c, r)
      /\ UNCHANGED <<world, screen, later, elements, nextId, marks, T!desktop, told>>
  BY DEF T!Begin
<1>2. /\ ToolTypes /\ CallInv(call[c]) /\ todo[c] \in Seq(Asked) /\ told[c].marks \in Seq(T!Places)
      /\ Len(told[c].tree) \in Nat
  BY DEF ToolInv, ToolTypes, CallsInv
<1>3. Head(todo[c]) \in Asked /\ Tail(todo[c]) \in Seq(Asked)
  BY <1>1, <1>2, HeadTailProperties
<1>4. /\ Called(it) /\ it.tool = Head(todo[c]).tool /\ it.steps = Head(todo[c]).steps
      /\ \A f : NamedTo(c, f) => Means(c, f, it)
  BY <1>2, <1>3, LenProperties, SentIs
<1>5. it.steps \in Seq(Stepped)
  BY <1>3, <1>4, CallsAssumption
<1>6. /\ Shape(q) /\ q.pc = "idle" /\ q.item = it /\ q.steps = <<>> /\ q.doing = None /\ q.target = None
      /\ q.events = <<>> /\ q.list = <<>> /\ q.snap = None /\ q.was = None /\ q.seen = None
      /\ q.diff = None /\ q.found = <<>> /\ q.calm = FALSE /\ q.sure = FALSE /\ q.ok = FALSE
  <2>1. q = [T!Idle EXCEPT !.item = it, !.front = x]
    OBVIOUS
  <2> HIDE DEF q, it, x
  <2>2. q = [pc |-> "idle", item |-> it, steps |-> <<>>, doing |-> None, target |-> None, events |-> <<>>,
             front |-> x, pic |-> None, list |-> <<>>, snap |-> None, was |-> None, seen |-> None,
             diff |-> None, found |-> <<>>, calm |-> FALSE, sure |-> FALSE, ok |-> FALSE]
    BY ONLY <2>1, Zenon DEF T!Idle
  <2> QED BY ONLY <2>2, Zenon DEF Shape
<1> HIDE DEF q, it, x
<1>q. Shape(q)
  BY <1>6
<1>7. /\ Shape(r) /\ r.item = it /\ r.events = <<>> /\ r.list = <<>> /\ r.diff = None /\ r.found = <<>>
      /\ r.calm = FALSE /\ r.ok = FALSE
      /\ \/ r.pc = "review"
         \/ r.pc = "tree" /\ it.tool \in T!Looking
         \/ r.pc = "capture" /\ it.tool = "get_marked_screen"
         \/ r.pc = "snap" /\ Batch(r) /\ world.enabled
         \/ r.pc = "step" /\ ~Batch(r) /\ r.steps = <<it>> /\ world.enabled
  <2>1. CASE T!Gated(it)
    <3>1. r = T!Fail(q)
      BY <2>1
    <3> HIDE DEF r
    <3>2. /\ Shape(r) /\ r.item = q.item /\ r.events = <<>> /\ r.list = q.list /\ r.diff = q.diff
          /\ r.found = q.found /\ r.calm = q.calm /\ r.ok = FALSE
          /\ r.pc = "review"
      BY ONLY <1>q, <3>1, Failed
    <3> QED BY <1>6, <2>1, <3>2
  <2>2. CASE ~T!Gated(it) /\ it.tool = "get_ui_tree"
    <3>1. r = [q EXCEPT !.pc = "tree"]
      BY <2>2
    <3> HIDE DEF r
    <3>2. /\ Shape(r) /\ r.item = q.item /\ r.events = q.events /\ r.list = q.list /\ r.diff = q.diff
          /\ r.found = q.found /\ r.calm = q.calm /\ r.ok = q.ok
          /\ r.pc = "tree"
      BY ONLY <1>q, <3>1, Goes
    <3> QED BY <1>6, <2>2, <3>2 DEF T!Looking
  <2>3. CASE ~T!Gated(it) /\ it.tool = "get_marked_screen"
    <3>1. r = [q EXCEPT !.pc = "capture"]
      BY <2>3
    <3> HIDE DEF r
    <3>2. /\ Shape(r) /\ r.item = q.item /\ r.events = q.events /\ r.list = q.list /\ r.diff = q.diff
          /\ r.found = q.found /\ r.calm = q.calm /\ r.ok = q.ok
          /\ r.pc = "capture"
      BY ONLY <1>q, <3>1, Goes
    <3> QED BY <1>6, <2>3, <3>2
  <2>4. CASE ~T!Gated(it) /\ it.tool = "batch_actions"
    <3>1. r = [q EXCEPT !.pc = "snap"]
      BY <2>4
    <3> HIDE DEF r
    <3>2. /\ Shape(r) /\ r.item = q.item /\ r.events = q.events /\ r.list = q.list /\ r.diff = q.diff
          /\ r.found = q.found /\ r.calm = q.calm /\ r.ok = q.ok
          /\ r.pc = "snap"
      BY ONLY <1>q, <3>1, Goes
    <3> QED BY <1>6, <2>4, <3>2 DEF Batch, T!Gated, T!Looking
  <2>5. CASE ~T!Gated(it) /\ it.tool \notin {"get_ui_tree", "get_marked_screen", "batch_actions"}
    <3>1. r = [q EXCEPT !.pc = "step", !.steps = <<it>>]
      BY <2>5
    <3> HIDE DEF r
    <3>2. r = [pc |-> "step", item |-> q.item, steps |-> <<it>>, doing |-> q.doing, target |-> q.target,
               events |-> q.events, front |-> q.front, pic |-> q.pic, list |-> q.list, snap |-> q.snap,
               was |-> q.was, seen |-> q.seen, diff |-> q.diff, found |-> q.found, calm |-> q.calm,
               sure |-> q.sure, ok |-> q.ok]
      BY ONLY <1>q, <3>1, Zenon DEF Shape
    <3>3. /\ Shape(r) /\ r.item = q.item /\ r.events = q.events /\ r.list = q.list /\ r.diff = q.diff
          /\ r.found = q.found /\ r.calm = q.calm /\ r.ok = q.ok /\ r.pc = "step" /\ r.steps = <<it>>
      BY ONLY <3>2, Zenon DEF Shape
    <3> QED BY <1>6, <2>5, <3>3 DEF Batch, T!Gated, T!Looking
  <2> QED BY <2>1, <2>2, <2>3, <2>4, <2>5
<1> HIDE DEF r
<1>8. <<>> \in Seq(Input) /\ <<>> \in Seq(T!Places) /\ Len(<<>>) = 0
  BY EmptySeq
<1>9. CallTypes(r)
  BY <1>7, <1>8 DEF CallTypes
<1>10. StageOf(r)
  BY <1>4, <1>5, <1>7 DEF StageOf
<1>11. KeepOf(r) /\ DiffOf(r)
  BY <1>7, OrderAssumption DEF KeepOf, DiffOf
<1>12. CallInv(r)
  BY <1>9, <1>10, <1>11 DEF CallInv
<1>13. ~world.enabled => r.pc \notin {"snap", "step", "act"}
  BY <1>7
<1>14. call[c].events = <<>>
  BY <1>1, <1>2 DEF CallInv, StageOf
<1>15. todo' = [d \in Clients |-> todo'[d]] /\ \A d \in Clients : todo'[d] \in Seq(Asked)
  <2>1. todo = [d \in Clients |-> todo[d]] /\ \A d \in Clients : todo[d] \in Seq(Asked)
    BY <1>2 DEF ToolTypes
  <2> QED BY <1>1, <1>3, <2>1
<1>16. \A f \in [1..nextId - 1 -> T!Places] : Named(f) =>
               /\ r.pc = "act" /\ r.doing.tool = "set_element_text" => Stands(f, r.target)
               /\ r.pc = "step" /\ ~Batch(r) => Means(c, f, r.item)
  BY <1>4, <1>7 DEF Named
<1> QED BY <1>1, <1>7, <1>12, <1>13, <1>14, <1>15, <1>16, Stays

(* The picture of the screen.                                              *)
LEMMA CaptureStep ==
    ASSUME ToolInv, NEW c \in Clients, T!Capture(c)
    PROVE  ToolInv'
<1> DEFINE q == call[c]
           r == [q EXCEPT !.pc = IF q.item.how \in {"ui_tree", "hybrid"} THEN "tree" ELSE "mark", !.pic = screen]
<1>1. q.pc = "capture" /\ T!Put(c, r)
      /\ UNCHANGED <<world, screen, later, elements, nextId, marks, T!desktop, todo, told>>
  BY DEF T!Capture
<1>2. ToolTypes /\ CallInv(q) /\ Shape(q) /\ (~world.enabled => q.pc \notin {"snap", "step", "act"})
  BY DEF ToolInv, ToolTypes, CallsInv, CallInv, CallTypes
<1>r. r = [q EXCEPT !.pc = IF q.item.how \in {"ui_tree", "hybrid"} THEN "tree" ELSE "mark", !.pic = screen]
  OBVIOUS
<1> HIDE DEF q, r
<1>s. Shape(q)
  BY <1>2
<1>3. r = [pc |-> (IF q.item.how \in {"ui_tree", "hybrid"} THEN "tree" ELSE "mark"), item |-> q.item,
           steps |-> q.steps, doing |-> q.doing, target |-> q.target, events |-> q.events, front |-> q.front,
           pic |-> screen, list |-> q.list, snap |-> q.snap, was |-> q.was, seen |-> q.seen, diff |-> q.diff,
           found |-> q.found, calm |-> q.calm, sure |-> q.sure, ok |-> q.ok]
  BY ONLY <1>s, <1>r, Zenon DEF Shape
<1>4. /\ Shape(r) /\ r.pc = (IF q.item.how \in {"ui_tree", "hybrid"} THEN "tree" ELSE "mark") /\ r.item = q.item
      /\ r.events = q.events /\ r.list = q.list /\ r.diff = q.diff /\ r.found = q.found /\ r.calm = q.calm
      /\ r.ok = q.ok /\ r.snap = q.snap /\ r.was = q.was /\ r.seen = q.seen
  BY ONLY <1>3, Zenon DEF Shape
<1>5. r.pc \in {"tree", "mark"}
  BY <1>4
<1>6. CallTypes(r) /\ StageOf(r) /\ KeepOf(r) /\ DiffOf(r)
  BY <1>1, <1>2, <1>4, <1>5 DEF CallInv, CallTypes, StageOf, Batch, KeepOf, DiffOf
<1>7. CallInv(r) /\ (~world.enabled => r.pc \notin {"snap", "step", "act"})
  BY <1>2, <1>5, <1>6 DEF CallInv
<1>8. q.events = <<>> /\ q = call[c]
  BY <1>1, <1>2 DEF CallInv, StageOf, q
<1>9. todo' = [d \in Clients |-> todo'[d]] /\ \A d \in Clients : todo'[d] \in Seq(Asked)
  BY <1>1, <1>2 DEF ToolTypes
<1> QED BY <1>1, <1>4, <1>5, <1>7, <1>8, <1>9, Stays

(* The review of what an action has done.                                  *)
LEMMA ReviewStep ==
    ASSUME ToolInv, NEW c \in Clients, T!Review(c)
    PROVE  ToolInv'
<1> DEFINE q == call[c]
           r == [q EXCEPT !.pc = "idle", !.diff = IF q.ok /\ q.front # None /\ screen.front \notin {None, q.front} THEN "window" ELSE @]
<1>1. q.pc = "review" /\ T!Put(c, r)
      /\ UNCHANGED <<world, screen, later, elements, nextId, marks, T!desktop, todo, told>>
  BY DEF T!Review
<1>2. ToolTypes /\ CallInv(q) /\ Shape(q) /\ (~world.enabled => q.pc \notin {"snap", "step", "act"})
  BY DEF ToolInv, ToolTypes, CallsInv, CallInv, CallTypes
<1>r. r = [q EXCEPT !.pc = "idle", !.diff = IF q.ok /\ q.front # None /\ screen.front \notin {None, q.front} THEN "window" ELSE @]
  OBVIOUS
<1> HIDE DEF q, r
<1>s. Shape(q)
  BY <1>2
<1>3. r = [pc |-> "idle", item |-> q.item, steps |-> q.steps, doing |-> q.doing, target |-> q.target,
           events |-> q.events, front |-> q.front, pic |-> q.pic, list |-> q.list, snap |-> q.snap,
           was |-> q.was, seen |-> q.seen,
           diff |-> (IF q.ok /\ q.front # None /\ screen.front \notin {None, q.front} THEN "window" ELSE q.diff),
           found |-> q.found, calm |-> q.calm, sure |-> q.sure, ok |-> q.ok]
  BY ONLY <1>s, <1>r, Zenon DEF Shape
<1>4. /\ Shape(r) /\ r.pc = "idle" /\ r.item = q.item /\ r.events = q.events /\ r.list = q.list
      /\ r.diff = (IF q.ok /\ q.front # None /\ screen.front \notin {None, q.front} THEN "window" ELSE q.diff)
      /\ r.found = q.found /\ r.calm = q.calm /\ r.ok = q.ok /\ r.snap = q.snap /\ r.was = q.was
      /\ r.seen = q.seen
  BY ONLY <1>3, Zenon DEF Shape
<1>5. r.pc \in {"idle"}
  BY <1>4
<1>6. CallTypes(r) /\ StageOf(r) /\ KeepOf(r) /\ DiffOf(r)
  BY <1>1, <1>2, <1>4, <1>5 DEF CallInv, CallTypes, StageOf, Batch, KeepOf, DiffOf, T!Fresh
<1>7. CallInv(r) /\ (~world.enabled => r.pc \notin {"snap", "step", "act"})
  BY <1>2, <1>5, <1>6 DEF CallInv
<1>8. q.events = <<>> /\ q = call[c]
  BY <1>1, <1>2 DEF CallInv, StageOf, q
<1>9. todo' = [d \in Clients |-> todo'[d]] /\ \A d \in Clients : todo'[d] \in Seq(Asked)
  BY <1>1, <1>2 DEF ToolTypes
<1> QED BY <1>1, <1>4, <1>5, <1>7, <1>8, <1>9, Stays

(* The snapshot before a batch, and before a click or a text of its own.   *)
LEMMA TakenIs ==
    ASSUME NEW q, Shape(q), NEW t, t = T!Taken(q)
    PROVE  /\ Shape(t) /\ t.pc = q.pc /\ t.item = q.item /\ t.steps = q.steps /\ t.doing = q.doing
           /\ t.target = q.target /\ t.events = q.events /\ t.list = q.list /\ t.seen = q.seen
           /\ t.diff = q.diff /\ t.found = q.found /\ t.calm = q.calm /\ t.sure = q.sure /\ t.ok = q.ok
<1>1. CASE q.item.diff
  <2>1. t = [q EXCEPT !.snap = T!Cached, !.was = screen]
    BY <1>1 DEF T!Taken
  <2>2. t = [pc |-> q.pc, item |-> q.item, steps |-> q.steps, doing |-> q.doing, target |-> q.target,
             events |-> q.events, front |-> q.front, pic |-> q.pic, list |-> q.list, snap |-> T!Cached,
             was |-> screen, seen |-> q.seen, diff |-> q.diff, found |-> q.found, calm |-> q.calm,
             sure |-> q.sure, ok |-> q.ok]
    BY <2>1, Zenon DEF Shape
  <2>3. /\ Shape(t) /\ t.pc = q.pc /\ t.item = q.item /\ t.steps = q.steps /\ t.doing = q.doing
        /\ t.target = q.target /\ t.events = q.events /\ t.list = q.list /\ t.seen = q.seen /\ t.diff = q.diff
        /\ t.found = q.found /\ t.calm = q.calm /\ t.sure = q.sure /\ t.ok = q.ok
    BY ONLY <2>2, Zenon DEF Shape
  <2> QED BY ONLY <2>3
<1>2. CASE ~q.item.diff
  BY <1>2 DEF T!Taken
<1> QED BY <1>1, <1>2

(* A batch takes it before its first step.                                 *)
LEMMA SnapStep ==
    ASSUME ToolInv, NEW c \in Clients, T!Snap(c)
    PROVE  ToolInv'
<1> DEFINE q == call[c]
           t == T!Taken(q)
           g == [t EXCEPT !.pc = "step", !.steps = q.item.steps]
           r == IF q.item.steps = <<>> THEN T!Fail(q) ELSE g
<1>1. /\ q.pc = "snap" /\ T!Put(c, r)
      /\ UNCHANGED <<world, screen, later, elements, nextId, marks, T!desktop, todo, told>>
  BY DEF T!Snap
<1>2. ToolTypes /\ CallInv(q) /\ Shape(q) /\ (~world.enabled => q.pc \notin {"snap", "step", "act"})
  BY DEF ToolInv, ToolTypes, CallsInv, CallInv, CallTypes
<1>4. /\ Shape(t) /\ t.pc = q.pc /\ t.item = q.item /\ t.steps = q.steps /\ t.doing = q.doing
      /\ t.target = q.target /\ t.events = q.events /\ t.list = q.list /\ t.seen = q.seen /\ t.diff = q.diff
      /\ t.found = q.found /\ t.calm = q.calm /\ t.sure = q.sure /\ t.ok = q.ok
  <2>1. t = T!Taken(q)
    OBVIOUS
  <2> HIDE DEF t, q
  <2> QED BY ONLY <1>2, <2>1, TakenIs
<1>t. Shape(t)
  BY <1>4
<1>g. g = [t EXCEPT !.pc = "step", !.steps = q.item.steps]
  OBVIOUS
<1>r. r = IF q.item.steps = <<>> THEN T!Fail(q) ELSE g
  OBVIOUS
<1>c. q = call[c]
  OBVIOUS
<1>s. Shape(q)
  BY <1>2
<1> HIDE DEF q, t, g, r
<1>3. \A z : z = T!Fail(q) =>
         /\ Shape(z) /\ z.pc = "review" /\ z.item = q.item /\ z.events = <<>> /\ z.list = q.list
         /\ z.diff = q.diff /\ z.found = q.found /\ z.calm = q.calm /\ z.ok = FALSE
  BY ONLY <1>s, Failed
<1>5. g = [pc |-> "step", item |-> t.item, steps |-> q.item.steps, doing |-> t.doing, target |-> t.target,
           events |-> t.events, front |-> t.front, pic |-> t.pic, list |-> t.list, snap |-> t.snap,
           was |-> t.was, seen |-> t.seen, diff |-> t.diff, found |-> t.found, calm |-> t.calm, sure |-> t.sure,
           ok |-> t.ok]
  BY ONLY <1>t, <1>g, Zenon DEF Shape
<1>6. /\ Shape(g) /\ g.pc = "step" /\ g.item = t.item /\ g.steps = q.item.steps /\ g.events = t.events
      /\ g.list = t.list /\ g.diff = t.diff /\ g.found = t.found /\ g.calm = t.calm /\ g.ok = t.ok
  BY ONLY <1>5, Zenon DEF Shape
<1>7. /\ Shape(r) /\ r.item = q.item /\ r.events = <<>> /\ r.list = q.list /\ r.diff = q.diff
      /\ r.found = q.found /\ r.calm = q.calm
      /\ \/ r.pc = "review" /\ r.ok = FALSE
         \/ r.pc = "step" /\ r.steps = q.item.steps /\ q.item.steps # <<>>
  <2>1. q.events = <<>>
    BY <1>1, <1>2 DEF CallInv, StageOf
  <2> QED BY <1>3, <1>4, <1>6, <1>r, <2>1
<1>8. CallTypes(r) /\ StageOf(r) /\ KeepOf(r) /\ DiffOf(r)
  BY <1>1, <1>2, <1>7 DEF CallInv, CallTypes, StageOf, Batch, KeepOf, DiffOf
<1>9. CallInv(r) /\ (~world.enabled => r.pc \notin {"snap", "step", "act"})
  BY <1>1, <1>2, <1>7, <1>8 DEF CallInv
<1>10. Batch(r) /\ q.events = <<>>
  BY <1>1, <1>2, <1>7 DEF CallInv, StageOf, Batch
<1>11. todo' = [d \in Clients |-> todo'[d]] /\ \A d \in Clients : todo'[d] \in Seq(Asked)
  BY <1>1, <1>2 DEF ToolTypes
<1> QED BY <1>1, <1>c, <1>7, <1>9, <1>10, <1>11, Stays

(* The tree: its elements get ids that none had.                           *)
LEMMA Extends ==
    ASSUME NEW N \in Nat \ {0}, NEW n \in Nat, NEW f \in [1..N - 1 -> T!Places], NEW g,
           DOMAIN g = 1..N + n - 1, \A i \in 1..N - 1 : g[i] = f[i]
    PROVE  /\ \A e : Stands(f, e) => Stands(g, e)
           /\ \A c, it : Means(c, f, it) => Means(c, g, it)
<1>1. DOMAIN f = 1..N - 1 /\ \A i \in 1..N - 1 : i \in 1..N + n - 1
  OBVIOUS
<1> QED BY <1>1 DEF Stands, Means

(* What a window shows is a sequence of places.                            *)
LEMMA ShownIs ==
    ASSUME NEW sc
    PROVE  T!Shown(sc) \in Seq(T!Places)
<1>1. Order \in Seq(T!Places)
  BY OrderAssumption
<1> QED BY <1>1, AmongGives DEF T!Shown

(* Without a window in front there is no tree.                             *)
LEMMA NoFrontStep ==
    ASSUME ToolInv, NEW c \in Clients, T!ReadTree(c), screen.front = None
    PROVE  ToolInv'
<1> DEFINE q == call[c]
           m == IF q.item.tool = "get_marked_screen" THEN "mark" ELSE "review"
           g == [q EXCEPT !.pc = m, !.diff = "unsampled"]
           r == IF q.item.tool = "get_ui_tree" \/ q.item.how = "ui_tree" THEN T!Fail(q) ELSE g
<1>1. /\ q.pc = "tree" /\ T!Put(c, r)
      /\ UNCHANGED <<world, elements, nextId, marks, T!desktop, todo, told>>
  BY DEF T!ReadTree
<1>2. ToolTypes /\ CallInv(q) /\ Shape(q)
  BY DEF ToolInv, CallsInv, CallInv, CallTypes
<1>r. r = IF q.item.tool = "get_ui_tree" \/ q.item.how = "ui_tree" THEN T!Fail(q) ELSE g
  OBVIOUS
<1>g. g = [q EXCEPT !.pc = m, !.diff = "unsampled"]
  OBVIOUS
<1>m. m = IF q.item.tool = "get_marked_screen" THEN "mark" ELSE "review"
  OBVIOUS
<1>c. q = call[c]
  OBVIOUS
<1>s. Shape(q)
  BY <1>2
<1> HIDE DEF q, g, r, m
<1>3. \A z : z = T!Fail(q) =>
         /\ Shape(z) /\ z.pc = "review" /\ z.item = q.item /\ z.events = <<>> /\ z.list = q.list
         /\ z.diff = q.diff /\ z.found = q.found /\ z.calm = q.calm /\ z.ok = FALSE
  BY ONLY <1>s, Failed
<1>4. g = [pc |-> m, item |-> q.item, steps |-> q.steps, doing |-> q.doing, target |-> q.target,
           events |-> q.events, front |-> q.front, pic |-> q.pic, list |-> q.list, snap |-> q.snap,
           was |-> q.was, seen |-> q.seen, diff |-> "unsampled", found |-> q.found, calm |-> q.calm,
           sure |-> q.sure, ok |-> q.ok]
  BY ONLY <1>s, <1>g, Zenon DEF Shape
<1>5. /\ Shape(g) /\ g.pc = m /\ g.item = q.item /\ g.events = q.events /\ g.list = q.list /\ g.seen = q.seen
      /\ g.diff = "unsampled" /\ g.found = q.found /\ g.calm = q.calm /\ g.ok = q.ok
  BY ONLY <1>4, Zenon DEF Shape
<1>6. /\ Shape(r) /\ r.item = q.item /\ r.events = <<>> /\ r.list = q.list
      /\ r.found = q.found /\ r.calm = q.calm
      /\ \/ r.pc = "review" /\ r.ok = FALSE
         \/ r.pc = "review" /\ r.diff = "unsampled"
         \/ r.pc = "mark" /\ r.diff = "unsampled" /\ q.item.tool = "get_marked_screen"
  <2>1. q.events = <<>>
    BY <1>1, <1>2 DEF CallInv, StageOf
  <2> QED BY <1>3, <1>5, <1>r, <1>m, <2>1
<1>7. CallTypes(r) /\ StageOf(r) /\ KeepOf(r) /\ DiffOf(r)
  BY <1>1, <1>2, <1>6 DEF CallInv, CallTypes, StageOf, Batch, KeepOf, DiffOf
<1>8. CallInv(r) /\ r.pc \notin {"snap", "step", "act"} /\ q.events = <<>>
  BY <1>1, <1>2, <1>6, <1>7 DEF CallInv, StageOf
<1>9. todo' = [d \in Clients |-> todo'[d]] /\ \A d \in Clients : todo'[d] \in Seq(Asked)
  BY <1>1, <1>2 DEF ToolTypes
<1> QED BY <1>1, <1>c, <1>6, <1>8, <1>9, Stays

(* With one, f is extended by the ids of the new elements, and whoever has *)
(* been told an id keeps its place.                                        *)
LEMMA ReadTreeStep ==
    ASSUME ToolInv, NEW c \in Clients, T!ReadTree(c), screen.front # None
    PROVE  ToolInv'
<1> DEFINE q == call[c]
           sh == T!Shown(screen)
           n == Len(sh)
           new == [i \in 1..n |-> T!Element(screen, sh[i], nextId + i - 1)]
           r == [q EXCEPT !.pc = "keep", !.seen = screen, !.list = new]
<1>1. /\ q.pc = "tree" /\ nextId' = nextId + n /\ T!Put(c, r)
      /\ UNCHANGED <<world, elements, marks, T!desktop, todo, told>>
  BY DEF T!ReadTree
<1>2. ToolTypes /\ CallInv(q) /\ Shape(q)
  BY DEF ToolInv, CallsInv, CallInv, CallTypes
<1>3. sh \in Seq(T!Places) /\ n \in Nat /\ sh = T!Shown(screen)
  <2>1. sh \in Seq(T!Places)
    BY ShownIs
  <2> QED BY <2>1, LenProperties
<1>4. nextId \in Nat \ {0} /\ \E f \in [1..nextId - 1 -> T!Places] : Named(f)
  BY DEF ToolInv, NameInv
<1>n. n = Len(sh)
  OBVIOUS
<1> HIDE DEF sh, n
<1>5. /\ Len(new) = n /\ DOMAIN new = 1..n
      /\ \A i \in 1..n : /\ new[i] = [id |-> nextId + i - 1, at |-> sh[i], name |-> screen.shows[sh[i]].name,
                                      value |-> screen.shows[sh[i]].value]
                        /\ sh[i] \in T!Places
  <2>1. \A i \in 1..n : sh[i] \in T!Places
    BY <1>3, <1>n, ElementOfSeq
  <2> QED BY <1>3, <2>1 DEF T!Element
<1>r. r = [q EXCEPT !.pc = "keep", !.seen = screen, !.list = new]
  OBVIOUS
<1>c. q = call[c]
  OBVIOUS
<1>s. Shape(q)
  BY <1>2
<1> HIDE DEF q, r, new
<1>6. r = [pc |-> "keep", item |-> q.item, steps |-> q.steps, doing |-> q.doing, target |-> q.target,
           events |-> q.events, front |-> q.front, pic |-> q.pic, list |-> new, snap |-> q.snap, was |-> q.was,
           seen |-> screen, diff |-> q.diff, found |-> q.found, calm |-> q.calm, sure |-> q.sure, ok |-> q.ok]
  BY ONLY <1>s, <1>r, Zenon DEF Shape
<1>7. /\ Shape(r) /\ r.pc = "keep" /\ r.item = q.item /\ r.events = q.events /\ r.list = new /\ r.seen = screen
      /\ r.diff = q.diff /\ r.found = q.found /\ r.calm = q.calm /\ r.ok = q.ok
  BY ONLY <1>6, Zenon DEF Shape
<1>8. q.events = <<>>
  BY <1>1, <1>2 DEF CallInv, StageOf
<1>9. CallTypes(r) /\ StageOf(r) /\ DiffOf(r)
  <2>1. CallTypes(q) /\ StageOf(q) /\ DiffOf(q)
    BY <1>2 DEF CallInv
  <2>2. CallTypes(r)
    <3>1. \A i \in 1..n : new[i].at \in T!Places
      BY <1>5
    <3> QED BY <1>3, <1>5, <1>7, <2>1, <3>1 DEF CallTypes
  <2>3. StageOf(r)
    BY <1>1, <1>7, <1>8, <2>1 DEF StageOf, Batch
  <2>4. DiffOf(r)
    BY <1>1, <1>7, <2>1 DEF DiffOf
  <2> QED BY <2>2, <2>3, <2>4
<1>10. KeepOf(r)
  <2>1. \A i \in 1..n : Body(new[i]) = [at |-> sh[i], name |-> screen.shows[sh[i]].name,
                                       value |-> screen.shows[sh[i]].value]
    BY <1>5 DEF Body
  <2>2. T!ToSet(new) = {new[i] : i \in 1..n}
    BY <1>5 DEF T!ToSet
  <2>3. T!ToSet(T!Shown(screen)) = {sh[i] : i \in 1..n}
    <3>1. DOMAIN sh = 1..n
      BY <1>3, <1>n, LenProperties
    <3> QED BY <1>3, <3>1 DEF T!ToSet
  <2>4. T!Content(screen) = {[at |-> p, name |-> screen.shows[p].name, value |-> screen.shows[p].value] :
                                p \in {sh[i] : i \in 1..n}}
    BY <2>3 DEF T!Content
  <2>5. {Body(e) : e \in T!ToSet(new)} = T!Content(screen)
    <3>1. {Body(e) : e \in {new[i] : i \in 1..n}} = {Body(new[i]) : i \in 1..n}
      OBVIOUS
    <3> DEFINE shows(p) == [at |-> p, name |-> screen.shows[p].name, value |-> screen.shows[p].value]
    <3>2. {shows(p) : p \in {sh[i] : i \in 1..n}} = {shows(sh[i]) : i \in 1..n}
      OBVIOUS
    <3>3. {Body(new[i]) : i \in 1..n} = {shows(sh[i]) : i \in 1..n}
      BY <2>1
    <3> QED BY <2>2, <2>4, <3>1, <3>2, <3>3
  <2> QED BY <1>7, <2>5 DEF KeepOf
<1>11. CallInv(r)
  BY <1>9, <1>10 DEF CallInv
<1>12. call'[c] = r /\ call' = [d \in Clients |-> call'[d]] /\ \A d \in Clients : d # c => call'[d] = call[d]
  BY <1>1, <1>2, Puts
<1>13. ToolTypes'
  BY <1>1, <1>2, <1>12 DEF ToolTypes
<1>14. CallsInv'
  BY <1>1, <1>7, <1>11, CallsStay DEF ToolInv
<1>15. HandsInv'
  BY <1>1, <1>c, <1>7, <1>8, HandsStay DEF ToolInv
<1>16. MarkInv'
  BY <1>1, <1>c, <1>7, MarksStay DEF ToolInv
<1>17. NameInv'
  <2>1. PICK f \in [1..nextId - 1 -> T!Places] : Named(f)
    BY <1>4
  <2>a. f \in [1..nextId - 1 -> T!Places]
    OBVIOUS
  <2>2. \E g \in [1..nextId + n - 1 -> T!Places] :
           /\ \A i \in 1..nextId - 1 : g[i] = f[i]
           /\ \A i \in 1..n : nextId + i - 1 \in 1..nextId + n - 1 /\ g[nextId + i - 1] = sh[i]
    <3> DEFINE g == [i \in 1..nextId + n - 1 |-> IF i < nextId THEN f[i] ELSE sh[i - nextId + 1]]
    <3>1. /\ \A i \in 1..nextId - 1 : g[i] = f[i]
          /\ \A i \in 1..n : nextId + i - 1 \in 1..nextId + n - 1 /\ g[nextId + i - 1] = sh[i]
      BY <1>3, <1>4
    <3>2. ASSUME NEW i \in 1..nextId + n - 1 PROVE g[i] \in T!Places
      <4>1. CASE i < nextId
        <5>1. i \in 1..nextId - 1
          BY <1>3, <1>4, <4>1
        <5> QED BY <2>a, <3>1, <5>1
      <4>2. CASE ~(i < nextId)
        <5>1. i - nextId + 1 \in 1..n
          BY <1>3, <1>4, <4>2
        <5> QED BY <1>5, <4>2, <5>1
      <4> QED BY <4>1, <4>2
    <3> QED BY <3>1, <3>2
  <2>3. PICK g \in [1..nextId + n - 1 -> T!Places] :
           /\ \A i \in 1..nextId - 1 : g[i] = f[i]
           /\ \A i \in 1..n : nextId + i - 1 \in 1..nextId + n - 1 /\ g[nextId + i - 1] = sh[i]
    BY <2>2
  <2>4. (\A e : Stands(f, e) => Stands(g, e)) /\ \A d, it : Means(d, f, it) => Means(d, g, it)
    <3>1. DOMAIN g = 1..nextId + n - 1
      OBVIOUS
    <3> QED BY <1>3, <1>4, <2>3, <3>1, Extends
  <2>5. \A i \in DOMAIN elements : Stands(g, elements[i]) /\ elements[i].id = i
    BY <2>1, <2>4 DEF Named
  <2>6. ASSUME NEW d \in Clients, d # c PROVE NamedTo(d, g)'
    <3>1. NamedTo(d, f)
      BY <2>1 DEF Named
    <3>2. NamedTo(d, g)
      BY <2>4, <3>1 DEF NamedTo
    <3>3. call'[d] = call[d] /\ told'[d] = told[d]
      BY <1>1, <1>12, <2>6
    <3> QED BY <3>2, <3>3 DEF NamedTo, Means
  <2>7. NamedTo(c, g)'
    <3>1. \A j \in 1..Len(told[c].tree) : Stands(g, told[c].tree[j])
      BY <2>1, <2>4 DEF Named, NamedTo
    <3>2. \A j \in 1..Len(new) : Stands(g, new[j])
      <4>1. DOMAIN g = 1..nextId + n - 1
        OBVIOUS
      <4> SUFFICES ASSUME NEW j \in 1..n PROVE Stands(g, new[j])
        BY <1>5
      <4>2. /\ new[j] = [id |-> nextId + j - 1, at |-> sh[j], name |-> screen.shows[sh[j]].name,
                       value |-> screen.shows[sh[j]].value]
            /\ nextId + j - 1 \in 1..nextId + n - 1 /\ g[nextId + j - 1] = sh[j]
        BY <1>5, <2>3
      <4> QED BY ONLY <4>1, <4>2 DEF Stands
    <3>3. call'[c] = r /\ told' = told /\ r.pc = "keep" /\ r.list = new
      BY <1>1, <1>7, <1>12
    <3> QED BY <3>1, <3>2, <3>3 DEF NamedTo
  <2>8. Named(g)'
    <3>1. elements' = elements
      BY <1>1
    <3> QED BY <2>5, <2>6, <2>7, <3>1 DEF Named
  <2>9. nextId' \in Nat \ {0}
    BY <1>1, <1>3, <1>4
  <2>10. g \in [1..nextId' - 1 -> T!Places]
    <3>1. nextId' = nextId + n
      BY <1>1
    <3>2. g \in [1..nextId + n - 1 -> T!Places]
      OBVIOUS
    <3>3. nextId' - 1 = nextId + n - 1
      BY <3>1, <1>3, <1>4
    <3> QED BY ONLY <3>2, <3>3
  <2> QED BY <2>8, <2>9, <2>10 DEF NameInv
<1> QED BY <1>13, <1>14, <1>15, <1>16, <1>17 DEF ToolInv

(* What is cached is compared with what is shown, place by place.          *)
LEMMA Compare ==
    ASSUME NEW B, NEW A, NEW W, NEW N, NEW prev \in T!Previous(B),
           {Body(e) : e \in B} = W, {Body(e) : e \in A} = N,
           \A x, y \in W : x.at = y.at => x = y
    PROVE  /\ ~T!Changes(B, A, prev) =>
                 /\ {x.name : x \in W} \ {""} = {x.name : x \in N} \ {""}
                 /\ \A x \in W, y \in N : x.at = y.at => x = y
           /\ T!Changes(B, A, prev) => W # N
<1>1. /\ DOMAIN prev = {b.at : b \in B}
      /\ \A p \in DOMAIN prev : prev[p] \in B /\ prev[p].at = p
  BY DEF T!Previous
<1>2. \A e : Body(e).at = e.at /\ Body(e).name = e.name /\ Body(e).value = e.value
  BY DEF Body
<1>3. \A d, e : d.at = e.at /\ d.name = e.name /\ d.value = e.value => Body(d) = Body(e)
  BY DEF Body
<1>4. \A x : x \in W <=> \E b \in B : x = Body(b)
  OBVIOUS
<1>5. \A y : y \in N <=> \E e \in A : y = Body(e)
  OBVIOUS
<1>6. ASSUME NEW b \in B
      PROVE  b.at \in DOMAIN prev /\ prev[b.at].name = b.name /\ prev[b.at].value = b.value
  <2>1. b.at \in DOMAIN prev
    BY <1>1
  <2>2. prev[b.at] \in B /\ prev[b.at].at = b.at
    BY <1>1, <2>1
  <2>3. Body(prev[b.at]) \in W /\ Body(b) \in W
    BY <1>4, <2>2
  <2>4. Body(prev[b.at]) = Body(b)
    BY <1>2, <2>2, <2>3
  <2> QED BY <1>2, <2>1, <2>4
<1>7. ASSUME ~T!Changes(B, A, prev)
      PROVE  /\ {x.name : x \in W} \ {""} = {x.name : x \in N} \ {""}
             /\ \A x \in W, y \in N : x.at = y.at => x = y
  <2>1. \A e \in A : IF e.at \in DOMAIN prev THEN prev[e.at].name = e.name /\ prev[e.at].value = e.value
                     ELSE e.name # "" /\ \E b \in B : b.name = e.name
    BY <1>7 DEF T!Changes
  <2>2. \A b \in B : b.name = "" \/ \E e \in A : e.at = b.at \/ e.name = b.name
    BY <1>7 DEF T!Changes
  <2>3. ASSUME NEW b \in B, NEW e \in A, b.at = e.at PROVE Body(b) = Body(e)
    <3>1. b.at \in DOMAIN prev /\ prev[b.at].name = b.name /\ prev[b.at].value = b.value
      BY <1>6
    <3>2. prev[b.at].name = e.name /\ prev[b.at].value = e.value
      BY <2>1, <2>3, <3>1
    <3> QED BY <1>3, <2>3, <3>1, <3>2
  <2>4. ASSUME NEW b \in B, b.name # "" PROVE \E e \in A : e.name = b.name
    <3>1. PICK e \in A : e.at = b.at \/ e.name = b.name
      BY <2>2, <2>4
    <3>2. CASE e.at = b.at
      <4>1. Body(b) = Body(e)
        BY <2>3, <3>2
      <4> QED BY <1>2, <4>1
    <3> QED BY <3>1, <3>2
  <2>5. ASSUME NEW e \in A, e.name # "" PROVE \E b \in B : b.name = e.name
    BY <1>1, <2>1
  <2>6. \A x \in W, y \in N : x.at = y.at => x = y
    <3> SUFFICES ASSUME NEW x \in W, NEW y \in N, x.at = y.at PROVE x = y
      OBVIOUS
    <3>1. PICK b \in B : x = Body(b)
      BY <1>4
    <3>2. PICK e \in A : y = Body(e)
      BY <1>5
    <3>3. b.at = e.at
      BY <1>2, <3>1, <3>2
    <3> QED BY <2>3, <3>1, <3>2, <3>3
  <2>7. {x.name : x \in W} \ {""} = {x.name : x \in N} \ {""}
    <3>1. ASSUME NEW n, n # "" PROVE (\E x \in W : n = x.name) <=> (\E y \in N : n = y.name)
      <4>1. (\E x \in W : n = x.name) <=> \E b \in B : n = b.name
        BY <1>2, <1>4
      <4>2. (\E y \in N : n = y.name) <=> \E e \in A : n = e.name
        BY <1>2, <1>5
      <4>3. (\E b \in B : n = b.name) => \E e \in A : n = e.name
        BY <2>4, <3>1
      <4>4. (\E e \in A : n = e.name) => \E b \in B : n = b.name
        BY <2>5, <3>1
      <4> QED BY ONLY <4>1, <4>2, <4>3, <4>4
    <3>2. ASSUME NEW n PROVE n \in {x.name : x \in W} \ {""} <=> n \in {x.name : x \in N} \ {""}
      BY ONLY <3>1, Zenon
    <3> QED BY ONLY <3>2
  <2> QED BY <2>6, <2>7
<1>8. ASSUME T!Changes(B, A, prev), W = N PROVE FALSE
  <2>1. CASE \E e \in A : IF e.at \in DOMAIN prev THEN prev[e.at].name # e.name \/ prev[e.at].value # e.value
                          ELSE e.name = "" \/ \A b \in B : b.name # e.name
    <3>1. PICK e \in A : IF e.at \in DOMAIN prev THEN prev[e.at].name # e.name \/ prev[e.at].value # e.value
                         ELSE e.name = "" \/ \A b \in B : b.name # e.name
      BY <2>1
    <3>2. PICK b \in B : Body(e) = Body(b)
      BY <1>4, <1>5, <1>8
    <3>3. e.at = b.at /\ e.name = b.name /\ e.value = b.value
      BY <1>2, <3>2
    <3> QED BY <1>6, <3>1, <3>3
  <2>2. CASE \E b \in B : b.name # "" /\ \A e \in A : e.at # b.at /\ e.name # b.name
    <3>1. PICK b \in B : \A e \in A : e.at # b.at /\ e.name # b.name
      BY <2>2
    <3>2. PICK e \in A : Body(b) = Body(e)
      BY <1>4, <1>5, <1>8
    <3> QED BY <1>2, <3>1, <3>2
  <2> QED BY <1>8, <2>1, <2>2 DEF T!Changes
<1> QED BY <1>7, <1>8

(* A screen shows one thing at a place.                                    *)
LEMMA ContentIs == \A s : \A x, y \in T!Content(s) : x.at = y.at => x = y
BY DEF T!Content

(* The cache holds elements that were in it or are new.                    *)
LEMMA StoredIs ==
    ASSUME NEW f, \A i \in DOMAIN elements : Stands(f, elements[i]) /\ elements[i].id = i,
           NEW es, \A e \in es : Stands(f, e), NEW new, new = T!Stored(es)
    PROVE  \A i \in DOMAIN new : Stands(f, new[i]) /\ new[i].id = i
<1> DEFINE D == DOMAIN elements \cup {e.id : e \in es}
<1>1. new = [i \in T!Newest(D) |-> IF \E e \in es : e.id = i THEN CHOOSE e \in es : e.id = i ELSE elements[i]]
  BY DEF T!Stored
<1>2. T!Newest(D) \subseteq D
  BY DEF T!Newest
<1> SUFFICES ASSUME NEW i \in T!Newest(D) PROVE Stands(f, new[i]) /\ new[i].id = i
  BY <1>1
<1>3. CASE \E e \in es : e.id = i
  <2>1. new[i] \in es /\ new[i].id = i
    BY <1>1, <1>3
  <2> QED BY <2>1
<1>4. CASE ~\E e \in es : e.id = i
  <2>1. new[i] = elements[i] /\ i \in DOMAIN elements
    BY <1>1, <1>2, <1>4
  <2> QED BY <2>1
<1> QED BY <1>3, <1>4

(* The new elements are cached, and the caller has them, or marks are made *)
(* of them, or they are compared with those of before.                     *)
LEMMA KeepStep ==
    ASSUME ToolInv, NEW c \in Clients, T!Keep(c)
    PROVE  ToolInv'
<1> DEFINE q == call[c]
<1>1. q.pc = "keep" /\ elements' = T!Stored(T!ToSet(q.list)) /\ UNCHANGED <<world, nextId, marks, T!desktop, todo>>
  BY DEF T!Keep
<1>2. ToolTypes /\ CallInv(q) /\ Shape(q) /\ q = call[c]
  BY DEF ToolInv, CallsInv, CallInv, CallTypes
<1>3. CallTypes(q) /\ StageOf(q) /\ KeepOf(q) /\ DiffOf(q)
  BY <1>2 DEF CallInv
<1>4. PICK r :
         /\ T!Put(c, r)
         /\ \/ r = T!Succeed(q) /\ told' = [told EXCEPT ![c].tree = q.list]
            \/ r = [q EXCEPT !.pc = "mark"] /\ UNCHANGED told /\ q.item.tool = "get_marked_screen"
            \/ /\ UNCHANGED told
               /\ \E prev \in T!Previous(q.snap) :
                     r = [q EXCEPT !.pc = "review",
                                   !.diff = IF T!Changes(q.snap, T!ToSet(q.list), prev) THEN "changed" ELSE "none"]
  BY DEF T!Keep
<1>5. q.events = <<>> /\ q.diff \notin {"none", "changed"}
  BY <1>1, <1>3 DEF StageOf, DiffOf
<1> HIDE DEF q
<1>6. /\ Shape(r) /\ r.item = q.item /\ r.events = q.events /\ r.list = q.list /\ r.snap = q.snap
      /\ r.was = q.was /\ r.seen = q.seen /\ r.found = q.found /\ r.calm = q.calm
      /\ \/ r.pc = "review" /\ r.diff = q.diff /\ told' = [told EXCEPT ![c].tree = q.list]
         \/ r.pc = "mark" /\ r.diff = q.diff /\ UNCHANGED told /\ q.item.tool = "get_marked_screen"
         \/ /\ r.pc = "review" /\ UNCHANGED told
            /\ \E prev \in T!Previous(q.snap) :
                  r.diff = IF T!Changes(q.snap, T!ToSet(q.list), prev) THEN "changed" ELSE "none"
  <2>s. Shape(q)
    BY <1>2
  <2>1. CASE r = T!Succeed(q) /\ told' = [told EXCEPT ![c].tree = q.list]
    <3>0. r = T!Succeed(q)
      BY <2>1
    <3>1. r = [pc |-> "review", item |-> q.item, steps |-> q.steps, doing |-> q.doing, target |-> q.target,
               events |-> q.events, front |-> q.front, pic |-> q.pic, list |-> q.list, snap |-> q.snap,
               was |-> q.was, seen |-> q.seen, diff |-> q.diff, found |-> q.found, calm |-> q.calm,
               sure |-> q.sure, ok |-> TRUE]
      BY ONLY <2>s, <3>0, Zenon DEF Shape, T!Succeed
    <3>2. /\ Shape(r) /\ r.pc = "review" /\ r.item = q.item /\ r.events = q.events /\ r.list = q.list
          /\ r.snap = q.snap /\ r.was = q.was /\ r.seen = q.seen /\ r.diff = q.diff /\ r.found = q.found
          /\ r.calm = q.calm /\ r.ok = TRUE
      BY ONLY <3>1, Zenon DEF Shape
    <3> QED BY <2>1, <3>2
  <2>2. CASE r = [q EXCEPT !.pc = "mark"] /\ UNCHANGED told /\ q.item.tool = "get_marked_screen"
    <3>0. r = [q EXCEPT !.pc = "mark"]
      BY <2>2
    <3>1. r = [pc |-> "mark", item |-> q.item, steps |-> q.steps, doing |-> q.doing, target |-> q.target,
               events |-> q.events, front |-> q.front, pic |-> q.pic, list |-> q.list, snap |-> q.snap,
               was |-> q.was, seen |-> q.seen, diff |-> q.diff, found |-> q.found, calm |-> q.calm,
               sure |-> q.sure, ok |-> q.ok]
      BY ONLY <2>s, <3>0, Zenon DEF Shape
    <3>2. /\ Shape(r) /\ r.pc = "mark" /\ r.item = q.item /\ r.events = q.events /\ r.list = q.list
          /\ r.snap = q.snap /\ r.was = q.was /\ r.seen = q.seen /\ r.diff = q.diff /\ r.found = q.found
          /\ r.calm = q.calm /\ r.ok = q.ok
      BY ONLY <3>1, Zenon DEF Shape
    <3> QED BY <2>2, <3>2
  <2>3. ASSUME UNCHANGED told, NEW prev \in T!Previous(q.snap), NEW x,
               x = IF T!Changes(q.snap, T!ToSet(q.list), prev) THEN "changed" ELSE "none",
               r = [q EXCEPT !.pc = "review", !.diff = x]
        PROVE  /\ Shape(r) /\ r.item = q.item /\ r.events = q.events /\ r.list = q.list /\ r.snap = q.snap
               /\ r.was = q.was /\ r.seen = q.seen /\ r.found = q.found /\ r.calm = q.calm
               /\ r.pc = "review" /\ r.diff = x
    <3>1. r = [pc |-> "review", item |-> q.item, steps |-> q.steps, doing |-> q.doing, target |-> q.target,
               events |-> q.events, front |-> q.front, pic |-> q.pic, list |-> q.list, snap |-> q.snap,
               was |-> q.was, seen |-> q.seen, diff |-> x, found |-> q.found, calm |-> q.calm, sure |-> q.sure,
               ok |-> q.ok]
      BY ONLY <2>s, <2>3, Zenon DEF Shape
    <3>2. /\ Shape(r) /\ r.pc = "review" /\ r.item = q.item /\ r.events = q.events /\ r.list = q.list
          /\ r.snap = q.snap /\ r.was = q.was /\ r.seen = q.seen /\ r.diff = x /\ r.found = q.found
          /\ r.calm = q.calm /\ r.ok = q.ok
      BY ONLY <3>1, Zenon DEF Shape
    <3> QED BY ONLY <3>2
  <2>4. CASE /\ UNCHANGED told
             /\ \E prev \in T!Previous(q.snap) :
                   r = [q EXCEPT !.pc = "review",
                                 !.diff = IF T!Changes(q.snap, T!ToSet(q.list), prev) THEN "changed" ELSE "none"]
    BY <2>3, <2>4
  <2> QED BY <1>4, <2>1, <2>2, <2>4
<1>7. DiffOf(r)
  <2>1. CASE r.diff = q.diff
    BY <1>5, <1>6, <2>1 DEF DiffOf
  <2>2. CASE \E prev \in T!Previous(q.snap) :
                r.diff = IF T!Changes(q.snap, T!ToSet(q.list), prev) THEN "changed" ELSE "none"
    <3>1. PICK prev \in T!Previous(q.snap) :
             r.diff = IF T!Changes(q.snap, T!ToSet(q.list), prev) THEN "changed" ELSE "none"
      BY <2>2
    <3>a. r.pc = "review"
      BY <1>5, <1>6, <3>1
    <3> SUFFICES ASSUME T!Fresh(r)
                 PROVE  /\ r.diff = "none" =>
                              /\ T!Names(r.was) = T!Names(r.seen)
                              /\ \A e \in T!Content(r.was), f \in T!Content(r.seen) : e.at = f.at => e = f
                        /\ r.diff = "changed" => T!Content(r.was) # T!Content(r.seen)
      BY <3>a DEF DiffOf
    <3>2. {Body(e) : e \in q.snap} = T!Content(q.was)
      BY <1>6 DEF T!Fresh, Body
    <3>3. {Body(e) : e \in T!ToSet(q.list)} = T!Content(q.seen)
      BY <1>1, <1>3 DEF KeepOf
    <3>4. \A x, y \in T!Content(q.was) : x.at = y.at => x = y
      BY ContentIs
    <3>5. /\ ~T!Changes(q.snap, T!ToSet(q.list), prev) =>
                /\ {x.name : x \in T!Content(q.was)} \ {""} = {x.name : x \in T!Content(q.seen)} \ {""}
                /\ \A x \in T!Content(q.was), y \in T!Content(q.seen) : x.at = y.at => x = y
          /\ T!Changes(q.snap, T!ToSet(q.list), prev) => T!Content(q.was) # T!Content(q.seen)
      BY <3>2, <3>3, <3>4, Compare
    <3>6. r.was = q.was /\ r.seen = q.seen
      BY <1>6
    <3> QED BY <3>1, <3>5, <3>6 DEF T!Names
  <2> QED BY <1>6, <2>1, <2>2
<1>8. CallInv(r) /\ r.pc \notin {"snap", "step", "act", "encode", "keep"}
  <2>1. CallTypes(r)
    BY <1>3, <1>6 DEF CallTypes
  <2>2. StageOf(r)
    BY <1>1, <1>3, <1>5, <1>6 DEF StageOf, Batch
  <2>3. KeepOf(r)
    BY <1>6 DEF KeepOf
  <2> QED BY <1>6, <1>7, <2>1, <2>2, <2>3 DEF CallInv
<1>9. /\ told' = [d \in Clients |-> told'[d]] /\ \A d \in Clients : d # c => told'[d] = told[d]
      /\ told'[c] = [tree |-> told'[c].tree, marks |-> told'[c].marks, mine |-> told'[c].mine]
      /\ told'[c].marks = told[c].marks /\ told'[c].mine = told[c].mine
      /\ told'[c].tree = told[c].tree \/ told'[c].tree = q.list
  <2>1. /\ told = [d \in Clients |-> told[d]]
        /\ told[c] = [tree |-> told[c].tree, marks |-> told[c].marks, mine |-> told[c].mine]
    BY <1>2 DEF ToolTypes
  <2>2. CASE UNCHANGED told
    BY <2>1, <2>2
  <2>3. CASE told' = [told EXCEPT ![c].tree = q.list]
    <3>1. /\ told' = [d \in Clients |-> told'[d]] /\ \A d \in Clients : d # c => told'[d] = told[d]
          /\ told'[c] = [told[c] EXCEPT !.tree = q.list]
      BY <2>1, <2>3
    <3>2. told'[c] = [tree |-> q.list, marks |-> told[c].marks, mine |-> told[c].mine]
      BY <2>1, <3>1
    <3> QED BY <3>1, <3>2
  <2> QED BY <1>6, <2>2, <2>3
<1>10. call'[c] = r /\ call' = [d \in Clients |-> call'[d]] /\ \A d \in Clients : d # c => call'[d] = call[d]
  BY <1>2, <1>4, Puts
<1>11. ToolTypes'
  <2>1. Len(q.list) \in Nat
    BY <1>3 DEF CallTypes
  <2> SUFFICES ASSUME NEW d \in Clients
               PROVE  /\ told'[d] = [tree |-> told'[d].tree, marks |-> told'[d].marks, mine |-> told'[d].mine]
                      /\ Len(told'[d].tree) \in Nat /\ told'[d].marks \in Seq(T!Places)
    BY <1>1, <1>2, <1>9, <1>10 DEF ToolTypes
  <2>2. /\ told[d] = [tree |-> told[d].tree, marks |-> told[d].marks, mine |-> told[d].mine]
        /\ Len(told[d].tree) \in Nat /\ told[d].marks \in Seq(T!Places)
    BY <1>2 DEF ToolTypes
  <2>3. CASE d # c
    <3>1. told'[d] = told[d]
      BY <1>9, <2>3
    <3> QED BY ONLY <2>2, <3>1
  <2>4. CASE d = c
    <3>1. Len(told'[c].tree) \in Nat
      BY <1>9, <2>1, <2>2, <2>4
    <3>2. told'[c].marks \in Seq(T!Places)
      BY <1>9, <2>2, <2>4
    <3> QED BY <1>9, <2>4, <3>1, <3>2
  <2> QED BY <2>3, <2>4
<1>12. CallsInv'
  BY <1>1, <1>2, <1>4, <1>8, CallsStay DEF ToolInv
<1>13. HandsInv'
  <2>1. call[c].events = <<>> /\ r.events = <<>> /\ r.calm = call[c].calm /\ UNCHANGED <<world, T!desktop>>
    <3>1. q.events = <<>> /\ r.events = q.events /\ r.calm = q.calm /\ q = call[c]
      BY ONLY <1>2, <1>5, <1>6
    <3> QED BY ONLY <1>1, <3>1
  <2>2. ToolTypes /\ HandsInv /\ T!Put(c, r)
    BY <1>4 DEF ToolInv
  <2> QED BY ONLY <2>1, <2>2, c \in Clients, HandsStay
<1>14. MarkInv'
  <2> SUFFICES ASSUME NEW d \in Clients, told'[d].mine
               PROVE  marks' = IF call'[d].pc = "encode" THEN call'[d].found ELSE told'[d].marks
    BY DEF MarkInv
  <2>1. told[d].mine => marks = IF call[d].pc = "encode" THEN call[d].found ELSE told[d].marks
    BY DEF ToolInv, MarkInv
  <2> QED BY <1>1, <1>2, <1>8, <1>9, <1>10, <2>1
<1>15. NameInv'
  <2>1. nextId \in Nat \ {0} /\ \E f \in [1..nextId - 1 -> T!Places] : Named(f)
    BY DEF ToolInv, NameInv
  <2>2. PICK f \in [1..nextId - 1 -> T!Places] : Named(f)
    BY <2>1
  <2>3. NamedTo(c, f) /\ \A i \in DOMAIN elements : Stands(f, elements[i]) /\ elements[i].id = i
    BY <2>2 DEF Named
  <2>4. \A e \in T!ToSet(q.list) : Stands(f, e)
    <3>1. q.list = call[c].list
      BY <1>2
    <3>2. T!ToSet(q.list) = {q.list[i] : i \in DOMAIN q.list}
      BY DEF T!ToSet
    <3>3. DOMAIN q.list = 1..Len(q.list)
      BY <1>3 DEF CallTypes
    <3> QED BY <2>3, <3>1, <3>2, <3>3 DEF NamedTo
  <2>5. \A i \in DOMAIN elements' : Stands(f, elements'[i]) /\ elements'[i].id = i
    BY <1>1, <2>3, <2>4, StoredIs
  <2>6. NamedTo(c, f)'
    <3>1. r.list = call[c].list /\ r.pc \notin {"act", "step"} /\ call'[c] = r
      BY <1>2, <1>6, <1>8, <1>10
    <3>2. \A j \in 1..Len(told'[c].tree) : Stands(f, told'[c].tree[j])
      BY <1>2, <1>9, <2>3 DEF NamedTo
    <3> QED BY <2>3, <3>1, <3>2 DEF NamedTo
  <2>7. \A d \in Clients : d # c => told'[d].tree = told[d].tree /\ told'[d].marks = told[d].marks
    BY <1>9
  <2> QED BY <1>1, <1>2, <1>4, <2>1, <2>2, <2>5, <2>6, <2>7, NamesStay
<1> QED BY <1>11, <1>12, <1>13, <1>14, <1>15 DEF ToolInv

(* Marks: those of whoever marked last are the cached ones.                *)
LEMMA CandidatesAre ==
    ASSUME NEW q, CallTypes(q), q.item.how \in {"grid", "ui_tree", "contours", "hybrid"}, NEW boxes
    PROVE  T!Candidates(q, boxes) \in Seq(T!Places)
<1> DEFINE ui == T!Ui(q)
           all == CASE q.item.how = "grid" -> <<>>
                    [] q.item.how = "ui_tree" -> ui
                    [] q.item.how = "contours" -> T!Only(boxes)
                    [] q.item.how = "hybrid" -> ui \o T!Only(boxes \ T!ToSet(ui))
<1>1. Order \in Seq(T!Places) /\ <<>> \in Seq(T!Places)
  BY OrderAssumption, EmptySeq
<1>2. \A A : T!Only(A) \in Seq(T!Places)
  BY <1>1, AmongGives DEF T!Only
<1>3. ui \in Seq(T!Places)
  <2>1. ui \in [1..Len(q.list) -> T!Places] /\ Len(q.list) \in Nat
    BY DEF T!Ui, CallTypes
  <2> QED BY <2>1, SeqDef
<1>4. T!Candidates(q, boxes) = IF all = <<>> /\ q.item.how # "ui_tree" THEN Order ELSE all
  BY DEF T!Candidates
<1> HIDE DEF ui
<1>5. ui \o T!Only(boxes \ T!ToSet(ui)) \in Seq(T!Places)
  BY <1>2, <1>3, ConcatProperties
<1>6. all \in Seq(T!Places)
  BY <1>1, <1>2, <1>3, <1>5
<1> HIDE DEF all
<1> QED BY <1>1, <1>4, <1>6

(* The marks are numbered and replace the cached ones, whoever made those. *)
LEMMA MarkStep ==
    ASSUME ToolInv, NEW c \in Clients, T!Mark(c)
    PROVE  ToolInv'
<1> DEFINE q == call[c]
<1>1. /\ q.pc = "mark" /\ UNCHANGED <<world, elements, nextId, T!desktop, todo>>
      /\ told' = [d \in Clients |-> [told[d] EXCEPT !.mine = d = c]]
  BY DEF T!Mark
<1>2. ToolTypes /\ CallInv(q) /\ Shape(q) /\ q = call[c]
  BY DEF ToolInv, CallsInv, CallInv, CallTypes
<1>3. CallTypes(q) /\ StageOf(q) /\ KeepOf(q) /\ DiffOf(q)
  BY <1>2 DEF CallInv
<1>4. PICK boxes, kept, r : /\ kept = T!Among(T!Candidates(q, boxes), q.item.crop)
                            /\ marks' = kept /\ r = [q EXCEPT !.pc = "encode", !.found = kept] /\ T!Put(c, r)
  BY DEF T!Mark
<1>5. q.item.how \in {"grid", "ui_tree", "contours", "hybrid"} /\ q.events = <<>> /\ q.diff \notin {"none", "changed"}
  BY <1>1, <1>3 DEF StageOf, Called, DiffOf
<1>6. kept \in Seq(T!Places)
  <2>1. T!Candidates(q, boxes) \in Seq(T!Places)
    BY <1>3, <1>5, CandidatesAre
  <2> QED BY <1>4, <2>1, AmongGives
<1>s. Shape(q)
  BY <1>2
<1>r. r = [q EXCEPT !.pc = "encode", !.found = kept]
  BY <1>4
<1> HIDE DEF q
<1>7. r = [pc |-> "encode", item |-> q.item, steps |-> q.steps, doing |-> q.doing, target |-> q.target,
           events |-> q.events, front |-> q.front, pic |-> q.pic, list |-> q.list, snap |-> q.snap,
           was |-> q.was, seen |-> q.seen, diff |-> q.diff, found |-> kept, calm |-> q.calm, sure |-> q.sure,
           ok |-> q.ok]
  BY ONLY <1>s, <1>r, Zenon DEF Shape
<1>8. /\ Shape(r) /\ r.pc = "encode" /\ r.item = q.item /\ r.events = q.events /\ r.list = q.list
      /\ r.snap = q.snap /\ r.was = q.was /\ r.seen = q.seen /\ r.diff = q.diff /\ r.found = kept
      /\ r.calm = q.calm /\ r.ok = q.ok
  BY ONLY <1>7, Zenon DEF Shape
<1>9. CallInv(r) /\ r.pc \notin {"snap", "step", "act", "keep"}
  <2>1. CallTypes(r)
    BY <1>3, <1>6, <1>8 DEF CallTypes
  <2>2. StageOf(r)
    BY <1>1, <1>3, <1>5, <1>8 DEF StageOf, Batch
  <2>3. KeepOf(r) /\ DiffOf(r)
    BY <1>5, <1>8 DEF KeepOf, DiffOf
  <2> QED BY <1>8, <2>1, <2>2, <2>3 DEF CallInv
<1>10. /\ told' = [d \in Clients |-> told'[d]]
       /\ \A d \in Clients :
             /\ told'[d] = [tree |-> told'[d].tree, marks |-> told'[d].marks, mine |-> told'[d].mine]
             /\ told'[d].tree = told[d].tree /\ told'[d].marks = told[d].marks /\ told'[d].mine = (d = c)
  <2>1. \A d \in Clients : told[d] = [tree |-> told[d].tree, marks |-> told[d].marks, mine |-> told[d].mine]
    BY <1>2 DEF ToolTypes
  <2>2. ASSUME NEW d \in Clients
        PROVE  told'[d] = [tree |-> told[d].tree, marks |-> told[d].marks, mine |-> d = c]
    <3>1. told'[d] = [told[d] EXCEPT !.mine = d = c]
      BY <1>1
    <3>2. told[d] = [tree |-> told[d].tree, marks |-> told[d].marks, mine |-> told[d].mine]
      BY <2>1
    <3> QED BY ONLY <3>1, <3>2, Zenon
  <2> QED BY <1>1, <2>2
<1>11. call'[c] = r /\ call' = [d \in Clients |-> call'[d]] /\ \A d \in Clients : d # c => call'[d] = call[d]
  BY <1>2, <1>4, Puts
<1>12. ToolTypes'
  <2> SUFFICES ASSUME NEW d \in Clients
               PROVE  /\ told'[d] = [tree |-> told'[d].tree, marks |-> told'[d].marks, mine |-> told'[d].mine]
                      /\ Len(told'[d].tree) \in Nat /\ told'[d].marks \in Seq(T!Places)
    BY <1>4, <1>6, <1>1, <1>2, <1>10, <1>11 DEF ToolTypes
  <2>1. Len(told[d].tree) \in Nat /\ told[d].marks \in Seq(T!Places)
    BY <1>2 DEF ToolTypes
  <2> QED BY <1>10, <2>1
<1>13. CallsInv'
  BY <1>1, <1>2, <1>4, <1>9, CallsStay DEF ToolInv
<1>14. HandsInv'
  <2>1. call[c].events = <<>> /\ r.events = <<>> /\ r.calm = call[c].calm /\ UNCHANGED <<world, T!desktop>>
    BY <1>1, <1>2, <1>5, <1>8
  <2>2. ToolTypes /\ HandsInv /\ T!Put(c, r)
    BY <1>4 DEF ToolInv
  <2> QED BY ONLY <2>1, <2>2, c \in Clients, HandsStay
<1>15. NameInv'
  <2>1. nextId \in Nat \ {0} /\ \E f \in [1..nextId - 1 -> T!Places] : Named(f)
    BY DEF ToolInv, NameInv
  <2>2. PICK f \in [1..nextId - 1 -> T!Places] : Named(f)
    BY <2>1
  <2>3. NamedTo(c, f) /\ \A i \in DOMAIN elements : Stands(f, elements[i]) /\ elements[i].id = i
    BY <2>2 DEF Named
  <2>4. NamedTo(c, f)'
    <3>1. r.list = call[c].list /\ r.pc \notin {"act", "step"} /\ call'[c] = r /\ told'[c].tree = told[c].tree
      BY <1>2, <1>8, <1>9, <1>10, <1>11
    <3> QED BY <2>3, <3>1 DEF NamedTo
  <2>5. \A d \in Clients : d # c => told'[d].tree = told[d].tree /\ told'[d].marks = told[d].marks
    BY <1>10
  <2> QED BY <1>1, <1>2, <1>4, <2>1, <2>2, <2>3, <2>4, <2>5, NamesStay
<1>16. MarkInv'
  <2> SUFFICES ASSUME NEW d \in Clients, told'[d].mine
               PROVE  marks' = IF call'[d].pc = "encode" THEN call'[d].found ELSE told'[d].marks
    BY DEF MarkInv
  <2>1. d = c
    BY <1>10
  <2> QED BY <1>4, <1>8, <1>11, <2>1
<1> QED BY <1>12, <1>13, <1>14, <1>15, <1>16 DEF ToolInv

(* The caller gets the picture, and is told its marks.                     *)
LEMMA EncodeStep ==
    ASSUME ToolInv, NEW c \in Clients, T!Encode(c)
    PROVE  ToolInv'
<1> DEFINE q == call[c]
<1>1. q.pc = "encode" /\ UNCHANGED <<world, elements, nextId, marks, T!desktop, todo>>
  BY DEF T!Encode
<1>2. ToolTypes /\ CallInv(q) /\ Shape(q) /\ q = call[c]
  BY DEF ToolInv, CallsInv, CallInv, CallTypes
<1>3. CallTypes(q) /\ StageOf(q) /\ KeepOf(q) /\ DiffOf(q)
  BY <1>2 DEF CallInv
<1>4. PICK r : /\ T!Put(c, r)
               /\ \/ r = T!Succeed(q) /\ told' = [told EXCEPT ![c].marks = q.found]
                  \/ r = T!Fail(q) /\ told' = [told EXCEPT ![c].mine = FALSE]
  BY DEF T!Encode
<1>5. q.events = <<>> /\ q.diff \notin {"none", "changed"} /\ q.found \in Seq(T!Places)
  BY <1>1, <1>3 DEF StageOf, DiffOf, CallTypes
<1>s. Shape(q)
  BY <1>2
<1> HIDE DEF q
<1>8. /\ Shape(r) /\ r.pc = "review" /\ r.item = q.item /\ r.events = q.events /\ r.list = q.list
      /\ r.snap = q.snap /\ r.was = q.was /\ r.seen = q.seen /\ r.diff = q.diff /\ r.found = q.found
      /\ r.calm = q.calm
  <2>1. CASE r = T!Succeed(q)
    <3>0. r = T!Succeed(q)
      BY <2>1
    <3>1. r = [pc |-> "review", item |-> q.item, steps |-> q.steps, doing |-> q.doing, target |-> q.target,
               events |-> q.events, front |-> q.front, pic |-> q.pic, list |-> q.list, snap |-> q.snap,
               was |-> q.was, seen |-> q.seen, diff |-> q.diff, found |-> q.found, calm |-> q.calm,
               sure |-> q.sure, ok |-> TRUE]
      BY ONLY <1>s, <3>0, Zenon DEF Shape, T!Succeed
    <3>2. /\ Shape(r) /\ r.pc = "review" /\ r.item = q.item /\ r.events = q.events /\ r.list = q.list
          /\ r.snap = q.snap /\ r.was = q.was /\ r.seen = q.seen /\ r.diff = q.diff /\ r.found = q.found
          /\ r.calm = q.calm /\ r.ok = TRUE
      BY ONLY <3>1, Zenon DEF Shape
    <3> QED BY ONLY <3>2
  <2>2. CASE r = T!Fail(q)
    <3>0. r = T!Fail(q)
      BY <2>2
    <3>1. r = [pc |-> "review", item |-> q.item, steps |-> <<>>, doing |-> q.doing, target |-> q.target,
               events |-> <<>>, front |-> q.front, pic |-> q.pic, list |-> q.list, snap |-> q.snap,
               was |-> q.was, seen |-> q.seen, diff |-> q.diff, found |-> q.found, calm |-> q.calm,
               sure |-> q.sure, ok |-> FALSE]
      BY ONLY <1>s, <3>0, Zenon DEF Shape, T!Fail
    <3>2. /\ Shape(r) /\ r.pc = "review" /\ r.item = q.item /\ r.events = <<>> /\ r.list = q.list
          /\ r.snap = q.snap /\ r.was = q.was /\ r.seen = q.seen /\ r.diff = q.diff /\ r.found = q.found
          /\ r.calm = q.calm /\ r.ok = FALSE
      BY ONLY <3>1, Zenon DEF Shape
    <3> QED BY <1>5, <3>2
  <2> QED BY <1>4, <2>1, <2>2
<1>9. CallInv(r) /\ r.pc \notin {"snap", "step", "act", "keep"}
  <2>1. CallTypes(r)
    BY <1>3, <1>8 DEF CallTypes
  <2>2. StageOf(r)
    BY <1>1, <1>3, <1>5, <1>8 DEF StageOf, Batch
  <2>3. KeepOf(r) /\ DiffOf(r)
    BY <1>5, <1>8 DEF KeepOf, DiffOf
  <2> QED BY <1>8, <2>1, <2>2, <2>3 DEF CallInv
<1>10. /\ told' = [d \in Clients |-> told'[d]]
       /\ \A d \in Clients :
             /\ told'[d] = [tree |-> told'[d].tree, marks |-> told'[d].marks, mine |-> told'[d].mine]
             /\ told'[d].tree = told[d].tree /\ (d # c => told'[d] = told[d])
       /\ \/ told'[c].marks = q.found /\ told'[c].mine = told[c].mine
          \/ told'[c].marks = told[c].marks /\ told'[c].mine = FALSE
  <2>1. \A d \in Clients : told[d] = [tree |-> told[d].tree, marks |-> told[d].marks, mine |-> told[d].mine]
    BY <1>2 DEF ToolTypes
  <2>2. told = [d \in Clients |-> told[d]]
    BY <1>2 DEF ToolTypes
  <2>3. CASE told' = [told EXCEPT ![c].marks = q.found]
    <3>1. /\ told' = [d \in Clients |-> told'[d]] /\ \A d \in Clients : d # c => told'[d] = told[d]
          /\ told'[c] = [told[c] EXCEPT !.marks = q.found]
      BY <2>2, <2>3
    <3>2. told'[c] = [tree |-> told[c].tree, marks |-> q.found, mine |-> told[c].mine]
      BY <2>1, <3>1
    <3> QED BY <2>1, <3>1, <3>2
  <2>4. CASE told' = [told EXCEPT ![c].mine = FALSE]
    <3>1. /\ told' = [d \in Clients |-> told'[d]] /\ \A d \in Clients : d # c => told'[d] = told[d]
          /\ told'[c] = [told[c] EXCEPT !.mine = FALSE]
      BY <2>2, <2>4
    <3>2. told'[c] = [tree |-> told[c].tree, marks |-> told[c].marks, mine |-> FALSE]
      BY <2>1, <3>1
    <3> QED BY <2>1, <3>1, <3>2
  <2> QED BY <1>4, <2>3, <2>4
<1>11. call'[c] = r /\ call' = [d \in Clients |-> call'[d]] /\ \A d \in Clients : d # c => call'[d] = call[d]
  BY <1>2, <1>4, Puts
<1>12. ToolTypes'
  <2> SUFFICES ASSUME NEW d \in Clients
               PROVE  /\ told'[d] = [tree |-> told'[d].tree, marks |-> told'[d].marks, mine |-> told'[d].mine]
                      /\ Len(told'[d].tree) \in Nat /\ told'[d].marks \in Seq(T!Places)
    BY <1>1, <1>2, <1>10, <1>11 DEF ToolTypes
  <2>1. Len(told[d].tree) \in Nat /\ told[d].marks \in Seq(T!Places)
    BY <1>2 DEF ToolTypes
  <2> QED BY <1>5, <1>10, <2>1
<1>13. CallsInv'
  BY <1>1, <1>2, <1>4, <1>9, CallsStay DEF ToolInv
<1>14. HandsInv'
  <2>1. call[c].events = <<>> /\ r.events = <<>> /\ r.calm = call[c].calm /\ UNCHANGED <<world, T!desktop>>
    BY <1>1, <1>2, <1>5, <1>8
  <2>2. ToolTypes /\ HandsInv /\ T!Put(c, r)
    BY <1>4 DEF ToolInv
  <2> QED BY ONLY <2>1, <2>2, c \in Clients, HandsStay
<1>15. NameInv'
  <2>1. nextId \in Nat \ {0} /\ \E f \in [1..nextId - 1 -> T!Places] : Named(f)
    BY DEF ToolInv, NameInv
  <2>2. PICK f \in [1..nextId - 1 -> T!Places] : Named(f)
    BY <2>1
  <2>3. NamedTo(c, f) /\ \A i \in DOMAIN elements : Stands(f, elements[i]) /\ elements[i].id = i
    BY <2>2 DEF Named
  <2>4. NamedTo(c, f)'
    <3>1. r.list = call[c].list /\ r.pc \notin {"act", "step"} /\ call'[c] = r /\ told'[c].tree = told[c].tree
      BY <1>2, <1>8, <1>9, <1>10, <1>11
    <3> QED BY <2>3, <3>1 DEF NamedTo
  <2>5. \A d \in Clients : d # c => told'[d].tree = told[d].tree /\ told'[d].marks = told[d].marks
    BY <1>10
  <2> QED BY <1>1, <1>2, <1>4, <2>1, <2>2, <2>3, <2>4, <2>5, NamesStay
<1>16. MarkInv'
  <2> SUFFICES ASSUME NEW d \in Clients, told'[d].mine
               PROVE  marks' = IF call'[d].pc = "encode" THEN call'[d].found ELSE told'[d].marks
    BY DEF MarkInv
  <2>1. told[d].mine => marks = IF call[d].pc = "encode" THEN call[d].found ELSE told[d].marks
    BY DEF ToolInv, MarkInv
  <2>2. CASE d = c
    <3>1. told'[c].marks = q.found /\ told[c].mine /\ r.pc = "review" /\ call'[c] = r
      BY <1>8, <1>10, <1>11, <2>2
    <3>2. marks = q.found
      BY <1>1, <1>2, <2>1, <2>2, <3>1
    <3> QED BY <1>1, <2>2, <3>1, <3>2
  <2>3. CASE d # c
    BY <1>1, <1>10, <1>11, <2>1, <2>3
  <2> QED BY <2>2, <2>3
<1> QED BY <1>12, <1>13, <1>14, <1>15, <1>16 DEF ToolInv

(* Where a step acts, and what its caller meant.                           *)
LEMMA WhereIs ==
    ASSUME ToolInv, NEW c \in Clients, call[c].pc = "step", NEW f \in [1..nextId - 1 -> T!Places], Named(f),
           NEW it, Called(it), Means(c, f, it), NEW p, p = T!Where(it),
           NEW m, m = IF it.meant # None THEN it.meant ELSE it.at
    PROVE  /\ it.meant \in Spots /\ p \in Spots
           /\ T!Sure(c, it) => p = None \/ m = None \/ p = m
<1>1. \A i \in DOMAIN elements : elements[i].id = i /\ i \in DOMAIN f /\ elements[i].at = f[i]
  BY DEF Named, Stands
<1>2. DOMAIN f = 1..nextId - 1 /\ \A i \in DOMAIN f : f[i] \in T!Places
  OBVIOUS
<1>3. /\ marks \in Seq(T!Places) /\ told[c].marks \in Seq(T!Places)
      /\ told[c].mine => marks = told[c].marks
  BY DEF ToolInv, ToolTypes, MarkInv
<1>4. (\A i \in 1..Len(marks) : marks[i] \in T!Places) /\ \A i \in 1..Len(told[c].marks) : told[c].marks[i] \in T!Places
  BY <1>3, ElementOfSeq
<1>5. None \in Spots /\ it.at \in Spots /\ T!Places \subseteq Spots
  BY DEF Spots, Called
<1>6. it.meant \in Spots
  BY <1>2, <1>4, <1>5 DEF Means
<1>7. p \in Spots
  <2>1. T!InElements(it.id) => elements[it.id].at \in Spots
    BY <1>1, <1>2, <1>5 DEF T!InElements
  <2>2. T!InMarks(it.id) => marks[it.id] \in Spots
    BY <1>4, <1>5 DEF T!InMarks
  <2> QED BY <1>5, <2>1, <2>2 DEF T!Where
<1>8. ASSUME it.by = "element", T!InElements(it.id) PROVE m = None \/ p = m
  <2>1. it.tool \in {"click_element", "set_element_text"} /\ it.at = None
    BY <1>8 DEF Called
  <2>2. p = elements[it.id].at
    BY <1>8, <2>1 DEF T!Where
  <2>3. it.meant # None => it.meant = f[it.id]
    BY <1>8 DEF Means
  <2> QED BY <1>1, <1>8, <2>1, <2>2, <2>3 DEF T!InElements
<1>9. ASSUME it.by = "mark", it.tool # "click_element", told[c].mine PROVE p = None \/ m = None \/ p = m
  <2>1. it.tool \in {"click_mark", "mouse_click"} /\ it.at = None
    BY <1>9 DEF Called
  <2>2. p = IF T!InMarks(it.id) THEN marks[it.id] ELSE None
    BY <1>9, <2>1 DEF T!Where
  <2>3. it.meant # None => it.meant = told[c].marks[it.id]
    BY <1>9 DEF Means
  <2> QED BY <1>3, <1>9, <2>1, <2>2, <2>3
<1>10. ASSUME it.by = "place" PROVE p = m
  <2>1. it.tool \in {"mouse_move", "mouse_click", "mouse_drag", "mouse_scroll", "focus_window"}
    BY <1>10 DEF Called
  <2>2. p = it.at
    BY <1>10, <2>1 DEF T!Where
  <2>3. it.meant = None
    BY <1>10 DEF Means
  <2> QED BY <2>2, <2>3
<1> QED BY <1>6, <1>7, <1>8, <1>9, <1>10 DEF T!Sure

(* A step of a call looks up where it acts, and what it is to inject.      *)
LEMMA StepStep ==
    ASSUME ToolInv, NEW c \in Clients, T!Step(c)
    PROVE  ToolInv'
<1> DEFINE q == call[c]
           it == IF q.item.tool = "batch_actions" THEN T!Sent(c, Head(q.steps)) ELSE Head(q.steps)
           t == IF q.item.tool # "batch_actions" /\ T!ByElement(it) THEN T!Taken(q) ELSE q
           x == IF T!ByElement(it) THEN elements[it.id] ELSE None
           n == [t EXCEPT !.steps = Tail(@), !.pc = "act", !.doing = it, !.calm = FALSE, !.sure = T!Sure(c, it), !.target = x]
<1>1. q.pc = "step" /\ UNCHANGED <<world, elements, nextId, marks, T!desktop, todo, told>>
  BY DEF T!Step
<1>2. PICK r : /\ T!Put(c, r)
               /\ \/ T!Refused(it) /\ r = T!Fail(q)
                  \/ ~T!Refused(it) /\ r = [n EXCEPT !.events = T!Script(it)]
                  \/ T!ByElement(it) /\ r = n
  BY DEF T!Step
<1>3. ToolTypes /\ CallInv(q) /\ Shape(q) /\ q = call[c] /\ (~world.enabled => q.pc \notin {"snap", "step", "act"})
  BY DEF ToolInv, CallsInv, CallInv, CallTypes
<1>4. CallTypes(q) /\ StageOf(q) /\ KeepOf(q) /\ DiffOf(q)
  BY <1>3 DEF CallInv
<1>5. /\ q.events = <<>> /\ q.diff \notin {"none", "changed"} /\ Called(q.item)
      /\ Batch(q) => q.item.steps \in Seq(Stepped)
      /\ IF Batch(q) THEN q.steps \in Seq(Stepped) \ {<<>>} ELSE q.steps = <<q.item>>
  BY <1>1, <1>4 DEF StageOf, DiffOf
<1>it. it = IF Batch(q) THEN T!Sent(c, Head(q.steps)) ELSE Head(q.steps)
  BY DEF Batch
<1>t. t = T!Taken(q) \/ t = q
  OBVIOUS
<1>x. x = IF T!ByElement(it) THEN elements[it.id] ELSE None
  OBVIOUS
<1>n. n = [t EXCEPT !.steps = Tail(@), !.pc = "act", !.doing = it, !.calm = FALSE, !.sure = T!Sure(c, it), !.target = x]
  OBVIOUS
<1>s. Shape(q)
  BY <1>3
<1> HIDE DEF q, it, t, x, n
<1>6. Called(it) /\ \A f : Named(f) => Means(c, f, it)
  <2>1. CASE Batch(q)
    <3>1. Head(q.steps) \in Stepped
      BY <1>5, <2>1, HeadTailProperties
    <3>2. Len(told[c].tree) \in Nat /\ Len(told[c].marks) \in Nat
      BY <1>3, LenProperties DEF ToolTypes
    <3>3. it = T!Sent(c, Head(q.steps))
      BY <1>it, <2>1
    <3>4. Called(it) /\ \A f : NamedTo(c, f) => Means(c, f, it)
      BY <3>1, <3>2, <3>3, SentIs
    <3> QED BY <3>4 DEF Named
  <2>2. CASE ~Batch(q)
    <3>1. it = q.item
      BY <1>5, <1>it, <2>2
    <3> QED BY <1>1, <1>3, <1>5, <2>2, <3>1 DEF Named, NamedTo
  <2> QED BY <2>1, <2>2
<1>7. IF Batch(q) THEN Tail(q.steps) \in Seq(Stepped) ELSE Tail(q.steps) = <<>>
  <2>1. CASE Batch(q)
    BY <1>5, <2>1, HeadTailProperties
  <2>2. CASE ~Batch(q)
    <3>1. q.steps = <<q.item>>
      BY <1>5, <2>2
    <3>2. q.steps \in Seq({q.item}) /\ Len(q.steps) = 1 /\ q.steps # <<>>
      BY <3>1
    <3>3. Tail(q.steps) \in Seq({q.item}) /\ Len(Tail(q.steps)) = 0
      BY ONLY <3>2, HeadTailProperties
    <3> QED BY ONLY <2>2, <3>3, EmptySeq
  <2> QED BY <2>1, <2>2
<1>8. /\ Shape(t) /\ t.pc = q.pc /\ t.item = q.item /\ t.steps = q.steps /\ t.doing = q.doing
      /\ t.target = q.target /\ t.events = q.events /\ t.list = q.list /\ t.seen = q.seen /\ t.diff = q.diff
      /\ t.found = q.found /\ t.calm = q.calm /\ t.sure = q.sure /\ t.ok = q.ok
  <2>1. CASE t = T!Taken(q)
    BY ONLY <1>s, <2>1, TakenIs
  <2>2. CASE t = q
    BY ONLY <1>s, <2>2
  <2> QED BY <1>t, <2>1, <2>2
<1>9. Shape(t)
  BY <1>8
<1>10. n = [pc |-> "act", item |-> t.item, steps |-> Tail(t.steps), doing |-> it, target |-> x,
            events |-> t.events, front |-> t.front, pic |-> t.pic, list |-> t.list, snap |-> t.snap,
            was |-> t.was, seen |-> t.seen, diff |-> t.diff, found |-> t.found, calm |-> FALSE,
            sure |-> T!Sure(c, it), ok |-> t.ok]
  BY ONLY <1>9, <1>n, Zenon DEF Shape
<1>11. /\ Shape(n) /\ n.pc = "act" /\ n.item = t.item /\ n.steps = Tail(t.steps) /\ n.doing = it /\ n.target = x
       /\ n.events = t.events /\ n.list = t.list /\ n.seen = t.seen /\ n.diff = t.diff /\ n.found = t.found
       /\ n.calm = FALSE /\ n.sure = T!Sure(c, it) /\ n.ok = t.ok
  BY ONLY <1>10, Zenon DEF Shape
<1>12. Shape(n)
  BY <1>11
<1>13. CASE T!Refused(it) /\ r = T!Fail(q)
  <2>1. /\ Shape(r) /\ r.pc = "review" /\ r.item = q.item /\ r.events = <<>> /\ r.list = q.list
        /\ r.diff = q.diff /\ r.found = q.found /\ r.calm = q.calm /\ r.ok = FALSE
    BY <1>s, <1>13, Failed
  <2>2. CallTypes(r) /\ StageOf(r) /\ KeepOf(r) /\ DiffOf(r)
    BY <1>1, <1>4, <1>5, <2>1 DEF CallTypes, StageOf, Batch, KeepOf, DiffOf
  <2>3. CallInv(r)
    BY <2>2 DEF CallInv
  <2>4. todo' = [d \in Clients |-> todo'[d]] /\ \A d \in Clients : todo'[d] \in Seq(Asked)
    BY <1>1, <1>3 DEF ToolTypes
  <2> QED BY <1>1, <1>2, <1>3, <1>5, <2>1, <2>3, <2>4, Stays
<1>14. CASE (~T!Refused(it) /\ r = [n EXCEPT !.events = T!Script(it)]) \/ (T!ByElement(it) /\ r = n)
  <2>1. nextId \in Nat \ {0} /\ \E f \in [1..nextId - 1 -> T!Places] : Named(f)
    BY DEF ToolInv, NameInv
  <2>2. PICK f \in [1..nextId - 1 -> T!Places] : Named(f)
    BY <2>1
  <2> DEFINE p == T!Where(it)
             m == IF it.meant # None THEN it.meant ELSE it.at
             es == T!Script(it)
  <2>p. p = T!Where(it) /\ m = IF it.meant # None THEN it.meant ELSE it.at
    OBVIOUS
  <2>e. es = T!Script(it)
    OBVIOUS
  <2> HIDE DEF p, m, es
  <2>3. /\ it.meant \in Spots /\ p \in Spots
        /\ T!Sure(c, it) => p = None \/ m = None \/ p = m
    BY <1>1, <1>3, <1>6, <2>2, <2>p, WhereIs
  <2>4. /\ es \in Seq(Input) /\ Firm(es) /\ (it.tool # "key_down" => Paired(es))
        /\ p = None \/ m = None \/ p = m => Aimed(es)
    BY <1>6, <2>3, <2>p, <2>e, ScriptIs
  <2>5. \E z : /\ z \in Seq(Input) /\ Firm(z) /\ (it.tool # "key_down" => Paired(z)) /\ (T!Sure(c, it) => Aimed(z))
               /\ r = [n EXCEPT !.events = z]
    <3>1. CASE r = [n EXCEPT !.events = T!Script(it)]
      BY <2>3, <2>4, <2>e, <3>1
    <3>2. CASE r = n
      <4>1. <<>> \in Seq(Input) /\ Firm(<<>>) /\ Paired(<<>>) /\ Aimed(<<>>)
        BY NothingIs
      <4>2. n.events = <<>>
        BY <1>5, <1>8, <1>11
      <4>3. n = [n EXCEPT !.events = n.events]
        BY ONLY <1>12, Zenon DEF Shape
      <4> QED BY <3>2, <4>1, <4>2, <4>3
    <3> QED BY <1>14, <3>1, <3>2
  <2>6. PICK z : /\ z \in Seq(Input) /\ Firm(z) /\ (it.tool # "key_down" => Paired(z)) /\ (T!Sure(c, it) => Aimed(z))
                 /\ r = [n EXCEPT !.events = z]
    BY <2>5
  <2>7. r = [n EXCEPT !.events = z]
    BY <2>6
  <2>8. r = [pc |-> n.pc, item |-> n.item, steps |-> n.steps, doing |-> n.doing, target |-> n.target,
             events |-> z, front |-> n.front, pic |-> n.pic, list |-> n.list, snap |-> n.snap, was |-> n.was,
             seen |-> n.seen, diff |-> n.diff, found |-> n.found, calm |-> n.calm, sure |-> n.sure, ok |-> n.ok]
    BY ONLY <1>12, <2>7, Zenon DEF Shape
  <2>9. /\ Shape(r) /\ r.pc = n.pc /\ r.item = n.item /\ r.steps = n.steps /\ r.doing = n.doing
        /\ r.target = n.target /\ r.events = z /\ r.list = n.list /\ r.seen = n.seen /\ r.diff = n.diff
        /\ r.found = n.found /\ r.calm = n.calm /\ r.sure = n.sure /\ r.ok = n.ok
    BY ONLY <2>8, Zenon DEF Shape
  <2>10. /\ Shape(r) /\ r.pc = "act" /\ r.item = q.item /\ r.steps = Tail(q.steps) /\ r.doing = it /\ r.events = z
         /\ r.list = q.list /\ r.diff = q.diff /\ r.found = q.found /\ r.calm = FALSE /\ r.sure = T!Sure(c, it)
         /\ r.target = x
    <3>1. n.steps = Tail(q.steps)
      BY <1>8, <1>11
    <3> QED BY <1>8, <1>11, <2>9, <3>1
  <2>11. CallTypes(r)
    BY <1>4, <2>6, <2>10 DEF CallTypes
  <2>12. StageOf(r)
    BY <1>5, <1>7, <2>10 DEF StageOf, Batch
  <2>13. CallInv(r)
    BY <1>5, <2>10, <2>11, <2>12 DEF CallInv, KeepOf, DiffOf
  <2>14. Handled(r)
    BY <2>6, <2>10 DEF Handled
  <2>15. call'[c] = r /\ call' = [d \in Clients |-> call'[d]]
    BY <1>2, <1>3, Puts
  <2>16. ToolTypes'
    BY <1>1, <1>3, <2>15 DEF ToolTypes
  <2>17. CallsInv'
    BY <1>1, <1>2, <1>3, <2>13, CallsStay DEF ToolInv
  <2>18. HandsInv'
    BY <1>1, <1>2, <1>3, <1>5, <2>14, HandsTake DEF ToolInv
  <2>19. MarkInv'
    BY <1>1, <1>2, <1>3, <2>10, MarksStay DEF ToolInv
  <2>20. it.tool = "set_element_text" => Stands(f, x)
    <3> SUFFICES ASSUME it.tool = "set_element_text" PROVE Stands(f, x)
      OBVIOUS
    <3>1. T!ByElement(it)
      <4>1. CASE ~T!Refused(it)
        <5>1. it.by = "element"
          BY <1>6 DEF Called
        <5>2. T!Where(it) # None
          BY <4>1, <5>1 DEF T!Refused
        <5> QED BY <5>2 DEF T!Where, T!ByElement
      <4> QED BY <1>14, <4>1
    <3> QED BY <1>x, <2>2, <3>1 DEF Named, T!ByElement, T!InElements
  <2>21. NamedTo(c, f)'
    <3>1. NamedTo(c, f)
      BY <2>2 DEF Named
    <3>2. told' = told /\ r.list = call[c].list
      BY <1>1, <1>3, <2>10
    <3> QED BY <2>10, <2>15, <2>20, <3>1, <3>2 DEF NamedTo
  <2>22. \A i \in DOMAIN elements' : Stands(f, elements'[i]) /\ elements'[i].id = i
    BY <1>1, <2>2 DEF Named
  <2>23. NameInv'
    BY <1>1, <1>2, <1>3, <2>1, <2>2, <2>21, <2>22, NamesStay
  <2> QED BY <2>16, <2>17, <2>18, <2>19, <2>23 DEF ToolInv
<1> QED BY <1>2, <1>13, <1>14

(* The end of a step: a text is written into the cache.                    *)
LEMMA ActedStep ==
    ASSUME ToolInv, NEW c \in Clients, T!Acted(c)
    PROVE  ToolInv'
<1> DEFINE q == call[c]
           m == IF q.snap # None THEN "tree" ELSE "review"
<1>1. /\ q.pc = "act" /\ q.events = <<>> /\ UNCHANGED <<world, nextId, marks, T!desktop, todo, told>>
      /\ elements' = IF q.doing.tool = "set_element_text" THEN T!Written(q) ELSE elements
  BY DEF T!Acted
<1>2. PICK r : /\ T!Put(c, r)
               /\ \/ q.steps # <<>> /\ r = [q EXCEPT !.pc = "step"]
                  \/ q.steps = <<>> /\ r = [T!Succeed(q) EXCEPT !.pc = m]
  BY DEF T!Acted
<1>3. ToolTypes /\ CallInv(q) /\ Shape(q) /\ q = call[c] /\ (~world.enabled => q.pc \notin {"snap", "step", "act"})
  BY DEF ToolInv, CallsInv, CallInv, CallTypes
<1>4. CallTypes(q) /\ StageOf(q) /\ KeepOf(q) /\ DiffOf(q)
  BY <1>3 DEF CallInv
<1>5. /\ q.diff \notin {"none", "changed"} /\ Called(q.item)
      /\ Batch(q) => q.item.steps \in Seq(Stepped)
      /\ IF Batch(q) THEN q.steps \in Seq(Stepped) ELSE q.steps = <<>>
  BY <1>1, <1>4 DEF StageOf, DiffOf
<1>m. m \in {"tree", "review"} /\ m = IF q.snap # None THEN "tree" ELSE "review"
  OBVIOUS
<1>s. Shape(q)
  BY <1>3
<1> HIDE DEF q, m
<1>6. /\ Shape(r) /\ r.item = q.item /\ r.steps = q.steps /\ r.events = q.events /\ r.list = q.list
      /\ r.diff = q.diff /\ r.found = q.found /\ r.calm = q.calm /\ r.snap = q.snap
      /\ (r.pc = "step" /\ q.steps # <<>>) \/ r.pc = m
  <2>1. CASE q.steps # <<>> /\ r = [q EXCEPT !.pc = "step"]
    <3>0. r = [q EXCEPT !.pc = "step"]
      BY <2>1
    <3>1. r = [pc |-> "step", item |-> q.item, steps |-> q.steps, doing |-> q.doing, target |-> q.target,
               events |-> q.events, front |-> q.front, pic |-> q.pic, list |-> q.list, snap |-> q.snap,
               was |-> q.was, seen |-> q.seen, diff |-> q.diff, found |-> q.found, calm |-> q.calm,
               sure |-> q.sure, ok |-> q.ok]
      BY ONLY <1>s, <3>0, Zenon DEF Shape
    <3>2. /\ Shape(r) /\ r.pc = "step" /\ r.item = q.item /\ r.steps = q.steps /\ r.events = q.events
          /\ r.list = q.list /\ r.diff = q.diff /\ r.found = q.found /\ r.calm = q.calm /\ r.snap = q.snap
          /\ r.was = q.was /\ r.seen = q.seen /\ r.ok = q.ok
      BY ONLY <3>1, Zenon DEF Shape
    <3> QED BY <2>1, <3>2
  <2>2. CASE r = [T!Succeed(q) EXCEPT !.pc = m]
    <3>0. r = [T!Succeed(q) EXCEPT !.pc = m]
      BY <2>2
    <3>1. r = [pc |-> m, item |-> q.item, steps |-> q.steps, doing |-> q.doing, target |-> q.target,
               events |-> q.events, front |-> q.front, pic |-> q.pic, list |-> q.list, snap |-> q.snap,
               was |-> q.was, seen |-> q.seen, diff |-> q.diff, found |-> q.found, calm |-> q.calm,
               sure |-> q.sure, ok |-> TRUE]
      BY ONLY <1>s, <3>0, Zenon DEF Shape, T!Succeed
    <3>2. /\ Shape(r) /\ r.pc = m /\ r.item = q.item /\ r.steps = q.steps /\ r.events = q.events
          /\ r.list = q.list /\ r.diff = q.diff /\ r.found = q.found /\ r.calm = q.calm /\ r.snap = q.snap
          /\ r.was = q.was /\ r.seen = q.seen /\ r.ok = TRUE
      BY ONLY <3>1, Zenon DEF Shape
    <3> QED BY <3>2
  <2> QED BY <1>2, <2>1, <2>2
<1>7. DiffOf(r)
  <2>1. r.diff \notin {"none", "changed"}
    BY <1>5, <1>6
  <2> QED BY <2>1 DEF DiffOf
<1>8. CallTypes(r) /\ StageOf(r) /\ KeepOf(r)
  BY <1>1, <1>4, <1>5, <1>6, <1>m DEF CallTypes, StageOf, Batch, KeepOf
<1>9. CallInv(r) /\ r.pc # "act" /\ r.pc # "encode" /\ (~world.enabled => r.pc \notin {"snap", "step", "act"})
  BY <1>1, <1>3, <1>6, <1>7, <1>8, <1>m DEF CallInv
<1>10. call'[c] = r /\ call' = [d \in Clients |-> call'[d]]
  BY <1>2, <1>3, Puts
<1>11. ToolTypes'
  BY <1>1, <1>3, <1>10 DEF ToolTypes
<1>12. CallsInv'
  BY <1>1, <1>2, <1>3, <1>9, CallsStay DEF ToolInv
<1>13. HandsInv'
  BY <1>1, <1>2, <1>3, <1>6, HandsStay DEF ToolInv
<1>14. MarkInv'
  BY <1>1, <1>2, <1>3, <1>9, MarksStay DEF ToolInv
<1>15. NameInv'
  <2>1. nextId \in Nat \ {0} /\ \E f \in [1..nextId - 1 -> T!Places] : Named(f)
    BY DEF ToolInv, NameInv
  <2>2. PICK f \in [1..nextId - 1 -> T!Places] : Named(f)
    BY <2>1
  <2>3. NamedTo(c, f) /\ \A i \in DOMAIN elements : Stands(f, elements[i]) /\ elements[i].id = i
    BY <2>2 DEF Named
  <2>4. NamedTo(c, f)'
    <3>1. told' = told /\ r.list = call[c].list /\ (r.pc = "step" => Batch(r))
      BY <1>1, <1>3, <1>5, <1>6, <1>m DEF Batch
    <3> QED BY <1>9, <1>10, <2>3, <3>1 DEF NamedTo
  <2>5. \A i \in DOMAIN elements' : Stands(f, elements'[i]) /\ elements'[i].id = i
    <3>1. CASE q.doing.tool = "set_element_text"
      <4> DEFINE e == q.target
                 w == [e EXCEPT !.value = q.doing.text]
      <4>1. Stands(f, e)
        BY <1>1, <1>3, <2>3, <3>1 DEF NamedTo
      <4>2. w = [id |-> e.id, at |-> e.at, name |-> e.name, value |-> q.doing.text]
        BY <4>1 DEF Stands
      <4>3. elements' = [i \in DOMAIN elements \cup {e.id} |-> IF i = e.id THEN w ELSE elements[i]]
        BY <1>1, <3>1 DEF T!Written
      <4> HIDE DEF e, w
      <4>4. Stands(f, w) /\ w.id = e.id
        BY <4>1, <4>2 DEF Stands
      <4> QED BY <2>3, <4>3, <4>4
    <3>2. CASE q.doing.tool # "set_element_text"
      BY <1>1, <2>3, <3>2
    <3> QED BY <3>1, <3>2
  <2>6. \A d \in Clients : d # c => told'[d].tree = told[d].tree /\ told'[d].marks = told[d].marks
    BY <1>1
  <2> QED BY <1>1, <1>2, <1>3, <2>1, <2>2, <2>4, <2>5, <2>6, NamesStay
<1> QED BY <1>11, <1>12, <1>13, <1>14, <1>15 DEF ToolInv

(***************************************************************************)
(* What is left of a list of events when its first ones have gone.         *)
(***************************************************************************)
LEMMA SuffixIs ==
    ASSUME NEW es \in Seq(Input), NEW n \in 0..Len(es), NEW z \in Seq(Input), Len(z) = Len(es) - n,
           \A i \in 1..Len(z) : z[i] = es[n + i]
    PROVE  /\ Paired(es) => Paired(z)
           /\ Firm(es) => Firm(z)
           /\ Aimed(es) => Aimed(z)
           /\ \A k \in T!Owed(es) : k \in T!Owed(z) \/ \E i \in 1..n : es[i].do = "up" /\ es[i].key = k
<1>1. Len(es) \in Nat /\ Len(z) \in Nat
  BY LenProperties
<1>2. \A i \in 1..Len(z) : n + i \in 1..Len(es) /\ z[i] = es[n + i]
  BY <1>1
<1>3. \A i \in 1..Len(es) : i \in 1..n \/ (i - n \in 1..Len(z) /\ es[i] = z[i - n])
  BY <1>1
<1>4. ASSUME Paired(es), NEW i \in 1..Len(z), z[i].do = "down"
      PROVE  \E j \in i + 1..Len(z) : z[j].do = "up" /\ z[j].key = z[i].key
  <2>1. PICK j \in n + i + 1..Len(es) : es[j].do = "up" /\ es[j].key = es[n + i].key
    BY <1>2, <1>4 DEF Paired
  <2>2. j - n \in i + 1..Len(z) /\ j - n \in 1..Len(z) /\ z[j - n] = es[j]
    BY <1>1, <1>2, <2>1
  <2> QED BY <1>2, <2>1, <2>2
<1>5. ASSUME Firm(es), NEW i \in 1..Len(z), z[i].soft # 0 PROVE z[i].do # "move"
  BY <1>2, <1>5 DEF Firm
<1>6. ASSUME Aimed(es), NEW i \in 1..Len(z), Presses(z[i]), NEW m \in 1..i - 1, Governs(z, m, i)
      PROVE  z[m].at = z[i].at
  <2>1. n + i \in 1..Len(es) /\ n + m \in 1..(n + i) - 1 /\ z[i] = es[n + i] /\ m \in 1..Len(z)
    BY <1>1, <1>2
  <2>2. z[m] = es[n + m]
    BY <1>2, <2>1
  <2>3. Governs(es, n + m, n + i)
    <3>1. ASSUME NEW k \in (n + m) + 1..(n + i) - 1 PROVE es[k].do # "move"
      <4>1. k - n \in m + 1..i - 1 /\ k - n \in 1..Len(z) /\ n + (k - n) = k
        BY <1>1
      <4>2. z[k - n] = es[k]
        BY <1>2, <4>1
      <4> QED BY <1>6, <4>1, <4>2 DEF Governs
    <3> QED BY <1>6, <2>2, <3>1 DEF Governs
  <2> QED BY <1>6, <2>1, <2>2, <2>3 DEF Aimed
<1>7. ASSUME NEW k \in T!Owed(es), ~\E i \in 1..n : es[i].do = "up" /\ es[i].key = k
      PROVE  k \in T!Owed(z)
  <2>1. PICK i \in 1..Len(es) : es[i].do = "up" /\ k = es[i].key
    BY DEF T!Owed
  <2>2. i - n \in 1..Len(z) /\ es[i] = z[i - n]
    BY <1>3, <1>7, <2>1
  <2> QED BY <2>1, <2>2 DEF T!Owed
<1> QED BY <1>4, <1>5, <1>6, <1>7 DEF Paired, Firm, Aimed

(* The same of the first event alone.                                      *)
LEMMA TailIs ==
    ASSUME NEW es \in Seq(Input), es # <<>>, NEW z, z = Tail(es)
    PROVE  /\ Len(es) \in Nat \ {0} /\ Head(es) = es[1] /\ es[1] \in Input
           /\ z \in Seq(Input) /\ Len(z) = Len(es) - 1 /\ \A i \in 1..Len(z) : z[i] = es[1 + i]
           /\ Paired(es) => Paired(z)
           /\ Firm(es) => Firm(z)
           /\ Aimed(es) => Aimed(z)
           /\ \A k \in T!Owed(es) : k \in T!Owed(z) \/ (es[1].do = "up" /\ es[1].key = k)
<1>1. Len(es) \in Nat \ {0}
  BY EmptySeq, LenProperties
<1>2. z \in Seq(Input) /\ Len(z) = Len(es) - 1 /\ \A i \in 1..Len(z) : z[i] = es[1 + i]
  BY <1>1, HeadTailProperties
<1>3. Head(es) = es[1] /\ es[1] \in Input
  BY <1>1, HeadTailProperties, ElementOfSeq
<1>4. 1 \in 0..Len(es)
  BY <1>1
<1>5. /\ Paired(es) => Paired(z)
      /\ Firm(es) => Firm(z)
      /\ Aimed(es) => Aimed(z)
      /\ \A k \in T!Owed(es) : k \in T!Owed(z) \/ \E i \in 1..1 : es[i].do = "up" /\ es[i].key = k
  BY ONLY es \in Seq(Input), <1>2, <1>4, SuffixIs
<1> QED BY <1>1, <1>2, <1>3, <1>5

(***************************************************************************)
(* An event is injected.                                                   *)
(***************************************************************************)
LEMMA InjectedCalls ==
    ASSUME ToolTypes, CallsInv, NEW c \in Clients, T!Inject(c), NEW e, e = Head(call[c].events)
    PROVE  /\ call' = [d \in Clients |-> call'[d]]
           /\ \A d \in Clients :
                 /\ Shape(call'[d]) /\ Alike(call[d], call'[d])
                 /\ call'[d].events = IF d = c THEN Tail(call[c].events) ELSE call[d].events
                 /\ call'[d].calm = IF e.do = "move" THEN d = c ELSE call[d].calm
<1> DEFINE done == [call EXCEPT ![c].events = Tail(@)]
           moved == T!Moved(done, c)
<1>1. call = [d \in Clients |-> call[d]] /\ \A d \in Clients : Shape(call[d])
  BY DEF ToolTypes, CallsInv, CallInv, CallTypes
<1>2. /\ done = [d \in Clients |-> done[d]]
      /\ done[c] = [call[c] EXCEPT !.events = Tail(call[c].events)]
      /\ \A d \in Clients : d # c => done[d] = call[d]
  BY <1>1
<1>3. /\ moved = [d \in Clients |-> moved[d]]
      /\ \A d \in Clients : moved[d] = [done[d] EXCEPT !.calm = d = c]
  BY DEF T!Moved
<1>4. call' = IF e.do = "move" THEN moved ELSE done
  BY DEF T!Inject
<1> HIDE DEF done, moved
<1>5. ASSUME NEW d \in Clients
      PROVE  /\ Shape(done[d]) /\ Alike(call[d], done[d]) /\ done[d].calm = call[d].calm
             /\ done[d].events = IF d = c THEN Tail(call[c].events) ELSE call[d].events
  <2>1. CASE d = c
    <3> DEFINE q == call[c]
               r == done[c]
               es == Tail(call[c].events)
    <3>1. r = [q EXCEPT !.events = es]
      BY <1>2
    <3>2. Shape(q)
      BY <1>1
    <3> HIDE DEF q, r, es
    <3>3. r = [pc |-> q.pc, item |-> q.item, steps |-> q.steps, doing |-> q.doing, target |-> q.target,
               events |-> es, front |-> q.front, pic |-> q.pic, list |-> q.list, snap |-> q.snap, was |-> q.was,
               seen |-> q.seen, diff |-> q.diff, found |-> q.found, calm |-> q.calm, sure |-> q.sure,
               ok |-> q.ok]
      BY ONLY <3>1, <3>2, Zenon DEF Shape
    <3>4. /\ Shape(r) /\ r.pc = q.pc /\ r.item = q.item /\ r.steps = q.steps /\ r.doing = q.doing
          /\ r.target = q.target /\ r.events = es /\ r.list = q.list /\ r.snap = q.snap /\ r.was = q.was
          /\ r.seen = q.seen /\ r.diff = q.diff /\ r.found = q.found /\ r.calm = q.calm /\ r.sure = q.sure
          /\ r.ok = q.ok
      BY ONLY <3>3, Zenon DEF Shape
    <3> QED BY <2>1, <3>4 DEF Alike, q, r, es
  <2>2. CASE d # c
    <3>1. Shape(call[d]) /\ done[d] = call[d]
      BY <1>1, <1>2, <2>2
    <3> QED BY <2>2, <3>1 DEF Alike
  <2> QED BY <2>1, <2>2
<1>6. ASSUME NEW d \in Clients
      PROVE  /\ Shape(moved[d]) /\ Alike(done[d], moved[d]) /\ moved[d].calm = (d = c)
             /\ moved[d].events = done[d].events
  <2> DEFINE q == done[d]
             r == moved[d]
             b == d = c
  <2>1. r = [q EXCEPT !.calm = b]
    BY <1>3
  <2>2. Shape(q)
    BY <1>5
  <2> HIDE DEF q, r, b
  <2>3. r = [pc |-> q.pc, item |-> q.item, steps |-> q.steps, doing |-> q.doing, target |-> q.target,
             events |-> q.events, front |-> q.front, pic |-> q.pic, list |-> q.list, snap |-> q.snap,
             was |-> q.was, seen |-> q.seen, diff |-> q.diff, found |-> q.found, calm |-> b, sure |-> q.sure,
             ok |-> q.ok]
    BY ONLY <2>1, <2>2, Zenon DEF Shape
  <2>4. /\ Shape(r) /\ r.pc = q.pc /\ r.item = q.item /\ r.steps = q.steps /\ r.doing = q.doing
        /\ r.target = q.target /\ r.events = q.events /\ r.list = q.list /\ r.snap = q.snap /\ r.was = q.was
        /\ r.seen = q.seen /\ r.diff = q.diff /\ r.found = q.found /\ r.calm = b /\ r.sure = q.sure
        /\ r.ok = q.ok
    BY ONLY <2>3, Zenon DEF Shape
  <2> QED BY <2>4 DEF Alike, q, r, b
<1>7. CASE e.do = "move"
  <2>1. call' = moved
    BY <1>4, <1>7
  <2>2. ASSUME NEW d \in Clients
        PROVE  /\ Shape(call'[d]) /\ Alike(call[d], call'[d])
               /\ call'[d].events = IF d = c THEN Tail(call[c].events) ELSE call[d].events
               /\ call'[d].calm = (d = c)
    <3>1. /\ Alike(call[d], done[d])
          /\ done[d].events = IF d = c THEN Tail(call[c].events) ELSE call[d].events
      BY <1>5
    <3>2. /\ Shape(moved[d]) /\ Alike(done[d], moved[d]) /\ moved[d].calm = (d = c)
          /\ moved[d].events = done[d].events
      BY <1>6
    <3> QED BY <2>1, <3>1, <3>2 DEF Alike
  <2> QED BY <1>3, <1>7, <2>1, <2>2
<1>8. CASE e.do # "move"
  <2>1. call' = done
    BY <1>4, <1>8
  <2> QED BY <1>2, <1>5, <1>8, <2>1
<1> QED BY <1>7, <1>8

(* A press lands where the last move went; what goes down is owed an up,   *)
(* or is a key_down.                                                       *)
LEMMA InjectStep ==
    ASSUME ToolInv, NEW c \in Clients, T!Inject(c)
    PROVE  ToolInv'
<1> DEFINE q == call[c]
           es == q.events
           e == Head(es)
           z == Tail(es)
           at == IF e.do = "down" THEN T!PressedAt ELSE T!ReleasedAt
<1>1. q.pc = "act" /\ es # <<>> /\ UNCHANGED <<world, later, elements, nextId, marks, todo, told>>
  BY DEF T!Inject
<1>2. /\ e.do = "move" => /\ pointer' = e.at /\ last' = e.at
                          /\ UNCHANGED <<held, pressed, stuck, hit>>
      /\ e.do # "move" => UNCHANGED <<pointer, last>>
      /\ e.do \in {"down", "up"} =>
            hit' = IF e.key = "left" /\ e.at # None
                   THEN [sure |-> q.sure /\ q.calm, at |-> at, meant |-> e.at] ELSE hit
      /\ e.do = "down" => /\ held' = held \cup {e.key} /\ stuck' = stuck
                          /\ pressed' = IF q.doing.tool = "key_down" THEN pressed \cup {e.key} ELSE pressed
      /\ e.do = "up" => held' = held \ {e.key} /\ pressed' = pressed \ {e.key} /\ stuck' = stuck \ {e.key}
      /\ e.do \notin {"move", "down", "up"} => UNCHANGED <<held, pressed, stuck, hit>>
  BY DEF T!Inject, T!desktop
<1>3. ToolTypes /\ CallsInv /\ HandsInv /\ q = call[c]
  BY DEF ToolInv
<1>4. CallInv(q) /\ (~world.enabled => q.pc \notin {"snap", "step", "act"})
  BY <1>3 DEF CallsInv
<1>5. es \in Seq(Input)
  BY <1>4 DEF CallInv, CallTypes
<1>6. /\ Len(es) \in Nat \ {0} /\ e = es[1] /\ es[1] \in Input
      /\ z \in Seq(Input) /\ Len(z) = Len(es) - 1 /\ \A i \in 1..Len(z) : z[i] = es[1 + i]
      /\ Paired(es) => Paired(z)
      /\ Firm(es) => Firm(z)
      /\ Aimed(es) => Aimed(z)
      /\ \A k \in T!Owed(es) : k \in T!Owed(z) \/ (es[1].do = "up" /\ es[1].key = k)
  <2>1. es # <<>>
    BY <1>1
  <2> HIDE DEF es
  <2>2. \A t : t = Tail(es) =>
           /\ Len(es) \in Nat \ {0} /\ Head(es) = es[1] /\ es[1] \in Input
           /\ t \in Seq(Input) /\ Len(t) = Len(es) - 1 /\ \A i \in 1..Len(t) : t[i] = es[1 + i]
           /\ Paired(es) => Paired(t)
           /\ Firm(es) => Firm(t)
           /\ Aimed(es) => Aimed(t)
           /\ \A k \in T!Owed(es) : k \in T!Owed(t) \/ (es[1].do = "up" /\ es[1].key = k)
    BY ONLY <1>5, <2>1, TailIs, Zenon
  <2>3. z = Tail(es)
    OBVIOUS
  <2> HIDE DEF z
  <2> QED BY <2>2, <2>3
<1>7. /\ call' = [d \in Clients |-> call'[d]]
      /\ \A d \in Clients :
            /\ Shape(call'[d]) /\ Alike(call[d], call'[d])
            /\ call'[d].events = IF d = c THEN z ELSE call[d].events
            /\ call'[d].calm = IF e.do = "move" THEN d = c ELSE call[d].calm
  BY <1>3, InjectedCalls
<1>a. at = IF e.do = "down" THEN T!PressedAt ELSE T!ReleasedAt
  OBVIOUS
<1>e. es = call[c].events
  OBVIOUS
<1> HIDE DEF q, es, e, z, at
<1>8. ToolTypes' /\ CallsInv' /\ NameInv' /\ MarkInv'
  <2>1. ASSUME NEW d \in Clients
        PROVE  call'[d].events \in Seq(Input) /\ (call[d].pc # "act" => call'[d].events = <<>>)
    <3>1. CallInv(call[d])
      BY <1>3 DEF CallsInv
    <3> QED BY <1>1, <1>3, <1>6, <1>7, <3>1 DEF CallInv, CallTypes, StageOf
  <2> QED BY <1>1, <1>7, <2>1, AlikeStays
<1>9. Handled(q) /\ (\A d \in Clients : Handled(call[d]))
  BY <1>3 DEF HandsInv
<1>10. HeldHasCause'
  <2>1. world.enabled
    BY <1>1, <1>4
  <2>2. \A x \in held : x \in pressed \cup stuck \/ \E d \in Clients : call[d].pc = "act" /\ x \in T!Owed(call[d].events)
    BY <1>3 DEF HandsInv, HeldHasCause, T!HeldHasCause
  <2>3. \A x : (\E d \in Clients : call[d].pc = "act" /\ x \in T!Owed(call[d].events)) =>
                 \/ \E d \in Clients : call'[d].pc = "act" /\ x \in T!Owed(call'[d].events)
                 \/ e.do = "up" /\ e.key = x
    <3> SUFFICES ASSUME NEW x, NEW d \in Clients, call[d].pc = "act", x \in T!Owed(call[d].events)
                 PROVE  (call'[d].pc = "act" /\ x \in T!Owed(call'[d].events)) \/ (e.do = "up" /\ e.key = x)
      OBVIOUS
    <3>1. call'[d].pc = "act"
      BY <1>7 DEF Alike
    <3>2. CASE d = c
      <4>1. x \in T!Owed(es) /\ call'[d].events = z
        BY <1>7, <1>e, <3>2
      <4> QED BY <1>6, <3>1, <4>1
    <3>3. CASE d # c
      BY <1>7, <3>1, <3>3
    <3> QED BY <3>2, <3>3
  <2>4. e.do = "down" => \/ e.key \in pressed'
                         \/ \E d \in Clients : call'[d].pc = "act" /\ e.key \in T!Owed(call'[d].events)
    <3> SUFFICES ASSUME e.do = "down", q.doing.tool # "key_down"
                 PROVE  call'[c].pc = "act" /\ e.key \in T!Owed(call'[c].events)
      BY <1>2
    <3>1. Paired(es)
      BY <1>9, <1>3, <1>e DEF Handled
    <3>2. PICK j \in 1 + 1..Len(es) : es[j].do = "up" /\ es[j].key = es[1].key
      BY <1>6, <3>1 DEF Paired
    <3>3. j - 1 \in 1..Len(z) /\ z[j - 1] = es[j]
      BY <1>6
    <3>4. e.key \in T!Owed(z)
      BY <1>6, <3>2, <3>3 DEF T!Owed
    <3> QED BY <1>1, <1>3, <1>7, <3>4 DEF Alike
  <2>5. \A x \in held' : \/ x \in pressed' \cup stuck'
                         \/ \E d \in Clients : call'[d].pc = "act" /\ x \in T!Owed(call'[d].events)
    <3> SUFFICES ASSUME NEW x \in held', x \notin pressed' \cup stuck'
                 PROVE  \E d \in Clients : call'[d].pc = "act" /\ x \in T!Owed(call'[d].events)
      OBVIOUS
    <3>1. CASE e.do = "down"
      <4>1. x = e.key \/ (x \in held /\ x \notin pressed \cup stuck)
        BY <1>2, <3>1
      <4> QED BY <2>2, <2>3, <2>4, <3>1, <4>1
    <3>2. CASE e.do = "up"
      <4>1. x # e.key /\ x \in held /\ x \notin pressed \cup stuck
        BY <1>2, <3>2
      <4> QED BY <2>2, <2>3, <4>1
    <3>3. CASE e.do \notin {"down", "up"}
      <4>1. x \in held /\ x \notin pressed \cup stuck
        BY <1>2, <3>3
      <4> QED BY <2>2, <2>3, <3>3, <4>1
    <3> QED BY <3>1, <3>2, <3>3
  <2>6. held' \subseteq pressed' \cup stuck' \cup
                        UNION {T!Owed(call'[d].events) : d \in {f \in Clients : call'[f].pc = "act"}}
    BY <2>5
  <2> QED BY <1>1, <2>1, <2>6 DEF HeldHasCause, T!HeldHasCause
<1>11. ClicksWhatWasMeant'
  <2>1. hit # None /\ hit.sure => hit.at = hit.meant
    BY <1>3 DEF HandsInv, ClicksWhatWasMeant, T!ClicksWhatWasMeant
  <2>2. CASE e.do \in {"down", "up"} /\ e.key = "left" /\ e.at # None
    <3>1. hit' = [sure |-> q.sure /\ q.calm, at |-> at, meant |-> e.at]
      BY <1>2, <2>2
    <3>2. q.sure /\ q.calm => at = e.at
      <4> SUFFICES ASSUME q.sure, q.calm PROVE at = e.at
        OBVIOUS
      <4>1. pointer = last
        BY <1>9 DEF Handled
      <4>2. 1 \in 1..Len(es) /\ Presses(es[1]) /\ First(es, 1)
        BY <1>6, <2>2 DEF Presses, First
      <4>3. e.at = pointer
        BY <1>3, <1>6, <1>9, <1>e, <4>2 DEF Handled
      <4> QED BY <1>a, <4>1, <4>3 DEF T!PressedAt, T!ReleasedAt
    <3> QED BY <3>1, <3>2 DEF ClicksWhatWasMeant, T!ClicksWhatWasMeant
  <2>3. CASE ~(e.do \in {"down", "up"} /\ e.key = "left" /\ e.at # None)
    <3>1. hit' = hit
      BY <1>2, <2>3
    <3> QED BY <2>1, <3>1 DEF ClicksWhatWasMeant, T!ClicksWhatWasMeant
  <2> QED BY <2>2, <2>3
<1>12. ASSUME NEW d \in Clients PROVE Handled(call[d])'
  <2>1. Handled(call[d]) /\ Alike(call[d], call'[d])
    BY <1>7, <1>9
  <2>2. CASE d # c
    <3>1. call'[d].events = call[d].events /\ call'[d].doing = call[d].doing /\ call'[d].sure = call[d].sure
      BY <1>7, <2>1, <2>2 DEF Alike
    <3>2. CASE e.do = "move"
      <4>1. ~call'[d].calm
        BY <1>7, <2>2, <3>2
      <4> QED BY <2>1, <3>1, <4>1 DEF Handled
    <3>3. CASE e.do # "move"
      <4>1. call'[d].calm = call[d].calm /\ pointer' = pointer /\ last' = last
        BY <1>2, <1>7, <3>3
      <4> QED BY <2>1, <3>1, <4>1 DEF Handled
    <3> QED BY <3>2, <3>3
  <2>3. CASE d = c
    <3>1. /\ call'[c].events = z /\ call'[c].doing = call[c].doing /\ call'[c].sure = call[c].sure
          /\ Paired(es) \/ call[c].doing.tool = "key_down"
          /\ Firm(es) /\ (call[c].sure => Aimed(es))
      BY <1>7, <1>e, <2>1, <2>3 DEF Alike, Handled
    <3>2. call'[c].calm => pointer' = last'
      <4>1. CASE e.do = "move"
        BY <1>2, <4>1
      <4>2. CASE e.do # "move"
        BY <1>2, <1>7, <2>1, <2>3, <4>2 DEF Handled
      <4> QED BY <4>1, <4>2
    <3>3. ASSUME call[c].sure, NEW i \in 1..Len(z), Presses(z[i]), First(z, i), call'[c].calm
          PROVE  z[i].at = pointer'
      <4>1. 1 + i \in 1..Len(es) /\ z[i] = es[1 + i]
        BY <1>6
      <4>2. ASSUME NEW k \in 1 + 1..(1 + i) - 1 PROVE es[k].do # "move"
        <5>1. k - 1 \in 1..i - 1 /\ k - 1 \in 1..Len(z) /\ 1 + (k - 1) = k
          BY <1>6
        <5>2. z[k - 1] = es[k]
          BY <1>6, <5>1
        <5> QED BY <3>3, <5>1, <5>2 DEF First
      <4>3. CASE e.do = "move"
        <5>1. Governs(es, 1, 1 + i) /\ 1 \in 1..(1 + i) - 1
          BY <1>6, <4>2, <4>3 DEF Governs
        <5>2. es[1].at = es[1 + i].at
          BY <3>1, <3>3, <4>1, <5>1 DEF Aimed
        <5> QED BY <1>2, <1>6, <4>1, <4>3, <5>2
      <4>4. CASE e.do # "move"
        <5>1. First(es, 1 + i)
          BY <1>6, <4>2, <4>4 DEF First
        <5>2. call[c].calm /\ pointer' = pointer
          BY <1>2, <1>7, <3>3, <4>4
        <5> QED BY <1>e, <2>1, <2>3, <3>3, <4>1, <5>1, <5>2 DEF Handled
      <4> QED BY <4>3, <4>4
    <3> QED BY <1>6, <2>3, <3>1, <3>2, <3>3 DEF Handled
  <2> QED BY <2>2, <2>3
<1> QED BY <1>8, <1>10, <1>11, <1>12 DEF ToolInv, HandsInv

(* An injection fails: the keys that nothing releases any more are stuck.  *)
LEMMA InjectFailsStep ==
    ASSUME ToolInv, NEW c \in Clients, T!InjectFails(c)
    PROVE  ToolInv'
<1> DEFINE q == call[c]
           es == q.events
<1>1. /\ q.pc = "act" /\ es # <<>> /\ UNCHANGED <<world, elements, nextId, marks, todo, told, pointer, last, held, pressed, hit>>
      /\ stuck' = stuck \cup (held \cap T!Owed(es))
  BY DEF T!InjectFails
<1>2. PICK r : /\ T!Put(c, r)
               /\ \/ r = T!Fail(q)
                  \/ /\ es[1].soft # 0
                     /\ \E n \in 1..Len(es) : T!Run(es, n) /\ r = [q EXCEPT !.events = SubSeq(es, n + 1, Len(es))]
  BY DEF T!InjectFails
<1>3. ToolTypes /\ CallsInv /\ HandsInv /\ q = call[c] /\ es = q.events
  BY DEF ToolInv
<1>4. CallInv(q) /\ (~world.enabled => q.pc \notin {"snap", "step", "act"})
  BY <1>3 DEF CallsInv
<1>5. es \in Seq(Input) /\ Handled(q) /\ Shape(q)
  BY <1>3, <1>4 DEF CallInv, CallTypes, HandsInv
<1>s. Shape(q)
  BY <1>5
<1> HIDE DEF q, es
<1>6. /\ Shape(r) /\ r.item = q.item /\ r.list = q.list /\ r.diff = q.diff /\ r.found = q.found /\ r.calm = q.calm
      /\ r.doing = q.doing /\ r.target = q.target /\ r.sure = q.sure
      /\ \/ r.pc = "review" /\ r.ok = FALSE /\ r.events = <<>>
         \/ /\ r.pc = "act" /\ r.steps = q.steps /\ es[1].soft # 0
            /\ \E n \in 1..Len(es) : T!Run(es, n) /\ r.events = SubSeq(es, n + 1, Len(es))
  <2>1. CASE r = T!Fail(q)
    BY <1>s, <2>1, Failed
  <2>2. ASSUME NEW n \in 1..Len(es), NEW x, x = SubSeq(es, n + 1, Len(es)), r = [q EXCEPT !.events = x]
        PROVE  /\ Shape(r) /\ r.item = q.item /\ r.list = q.list /\ r.diff = q.diff /\ r.found = q.found
               /\ r.calm = q.calm /\ r.doing = q.doing /\ r.target = q.target /\ r.sure = q.sure
               /\ r.pc = q.pc /\ r.steps = q.steps /\ r.events = x
    <3>1. r = [pc |-> q.pc, item |-> q.item, steps |-> q.steps, doing |-> q.doing, target |-> q.target,
               events |-> x, front |-> q.front, pic |-> q.pic, list |-> q.list, snap |-> q.snap, was |-> q.was,
               seen |-> q.seen, diff |-> q.diff, found |-> q.found, calm |-> q.calm, sure |-> q.sure,
               ok |-> q.ok]
      BY ONLY <1>s, <2>2, Zenon DEF Shape
    <3>2. /\ Shape(r) /\ r.pc = q.pc /\ r.item = q.item /\ r.steps = q.steps /\ r.doing = q.doing
          /\ r.target = q.target /\ r.events = x /\ r.list = q.list /\ r.snap = q.snap /\ r.was = q.was
          /\ r.seen = q.seen /\ r.diff = q.diff /\ r.found = q.found /\ r.calm = q.calm /\ r.sure = q.sure
          /\ r.ok = q.ok
      BY ONLY <3>1, Zenon DEF Shape
    <3> QED BY ONLY <3>2
  <2>3. CASE /\ es[1].soft # 0
             /\ \E n \in 1..Len(es) : T!Run(es, n) /\ r = [q EXCEPT !.events = SubSeq(es, n + 1, Len(es))]
    BY <1>1, <2>2, <2>3
  <2> QED BY <1>2, <2>1, <2>3
<1>7. r.events \in Seq(Input) /\ Handled(r)
  <2>1. CASE r.events = <<>>
    <3>1. <<>> \in Seq(Input) /\ Len(<<>>) = 0
      BY EmptySeq
    <3> QED BY <1>5, <1>6, <2>1, <3>1 DEF Handled, Paired, Firm, Aimed
  <2>2. ASSUME NEW n \in 1..Len(es), es[1].soft # 0, T!Run(es, n), NEW z, z = r.events, z = SubSeq(es, n + 1, Len(es))
        PROVE  r.events \in Seq(Input) /\ Handled(r)
    <3>1. Len(es) \in Nat /\ \A i \in 1..Len(es) : es[i] \in Input
      BY <1>5, LenProperties, ElementOfSeq
    <3>2. z \in Seq(Input) /\ Len(z) = Len(es) - n /\ \A i \in 1..Len(z) : z[i] = es[n + i]
      <4>1. n + 1 \in Int /\ Len(es) \in Int /\ \A i \in n + 1..Len(es) : es[i] \in Input
        BY <3>1
      <4>2. /\ z \in Seq(Input) /\ Len(z) = (IF n + 1 <= Len(es) THEN Len(es) - (n + 1) + 1 ELSE 0)
            /\ \A i \in 1..Len(es) - (n + 1) + 1 : z[i] = es[(n + 1) + i - 1]
        BY <2>2, <4>1, SubSeqProperties
      <4> QED BY <3>1, <4>2
    <3>3. n \in 0..Len(es)
      BY <3>1
    <3>4. /\ Paired(es) => Paired(z)
          /\ Firm(es) => Firm(z)
          /\ Aimed(es) => Aimed(z)
      BY <1>5, <3>2, <3>3, SuffixIs
    <3>5. ASSUME NEW i \in 1..Len(z), First(z, i) PROVE First(es, n + i)
      <4> SUFFICES ASSUME NEW m \in 1..(n + i) - 1 PROVE es[m].do # "move"
        BY DEF First
      <4>1. CASE m <= n
        <5>1. m \in 1..Len(es) /\ 1 \in 1..Len(es)
          BY <3>1, <4>1
        <5>2. es[m].soft # 0
          BY <2>2, <4>1, <5>1 DEF T!Run
        <5> QED BY <1>3, <1>5, <5>1, <5>2 DEF Handled, Firm
      <4>2. CASE ~(m <= n)
        <5>1. m - n \in 1..i - 1 /\ m - n \in 1..Len(z) /\ n + (m - n) = m
          BY <3>1, <3>2, <4>2
        <5>2. z[m - n] = es[m]
          BY <3>2, <5>1
        <5> QED BY <3>5, <5>1, <5>2 DEF First
      <4> QED BY <4>1, <4>2
    <3>6. \A i \in 1..Len(z) : n + i \in 1..Len(es)
      BY <3>1, <3>2
    <3>7. /\ Paired(es) \/ q.doing.tool = "key_down"
          /\ q.calm => pointer = last
          /\ Firm(es)
          /\ q.sure => /\ Aimed(es)
                       /\ \A i \in 1..Len(es) : Presses(es[i]) /\ First(es, i) /\ q.calm => es[i].at = pointer
      BY ONLY <1>5, <1>3 DEF Handled
    <3>8. r.events = z /\ r.calm = q.calm /\ r.doing = q.doing /\ r.sure = q.sure
      BY <1>6, <2>2
    <3>9. ASSUME q.sure, q.calm, NEW i \in 1..Len(z), Presses(z[i]), First(z, i) PROVE z[i].at = pointer
      <4>1. First(es, n + i) /\ n + i \in 1..Len(es) /\ z[i] = es[n + i]
        BY <3>2, <3>5, <3>6, <3>9
      <4> HIDE DEF First, Presses
      <4> QED BY ONLY <4>1, <3>7, <3>9
    <3>10. /\ Paired(z) \/ r.doing.tool = "key_down"
           /\ r.calm => pointer = last
           /\ Firm(z)
           /\ r.sure => /\ Aimed(z)
                        /\ \A i \in 1..Len(z) : Presses(z[i]) /\ First(z, i) /\ r.calm => z[i].at = pointer
      BY ONLY <3>4, <3>7, <3>8, <3>9
    <3>11. Handled(r)
      BY ONLY <3>8, <3>10 DEF Handled
    <3> QED BY <2>2, <3>2, <3>11
  <2> QED BY <1>6, <2>1, <2>2
<1>8. CallInv(r) /\ r.pc # "encode" /\ q.pc # "encode" /\ r.pc # "step" /\ (~world.enabled => r.pc \notin {"snap", "step", "act"})
  <2>1. CallTypes(q) /\ StageOf(q) /\ KeepOf(q) /\ DiffOf(q)
    BY <1>4 DEF CallInv
  <2>2. CallTypes(r)
    BY <1>6, <1>7, <2>1 DEF CallTypes
  <2>3. StageOf(r)
    BY <1>1, <1>6, <2>1 DEF StageOf, Batch
  <2>4. KeepOf(r) /\ DiffOf(r)
    BY <1>1, <1>6, <2>1 DEF KeepOf, DiffOf
  <2> QED BY <1>1, <1>4, <1>6, <2>2, <2>3, <2>4 DEF CallInv
<1>9. call'[c] = r /\ call' = [d \in Clients |-> call'[d]] /\ \A d \in Clients : d # c => call'[d] = call[d]
  BY <1>2, <1>3, Puts
<1>10. ToolTypes'
  BY <1>1, <1>3, <1>9 DEF ToolTypes
<1>11. CallsInv'
  BY <1>1, <1>2, <1>3, <1>8, CallsStay
<1>12. MarkInv'
  BY <1>1, <1>2, <1>3, <1>8, MarksStay DEF ToolInv
<1>13. NameInv'
  <2>1. nextId \in Nat \ {0} /\ \E f \in [1..nextId - 1 -> T!Places] : Named(f)
    BY DEF ToolInv, NameInv
  <2>2. PICK f \in [1..nextId - 1 -> T!Places] : Named(f)
    BY <2>1
  <2>3. NamedTo(c, f) /\ \A i \in DOMAIN elements' : Stands(f, elements'[i]) /\ elements'[i].id = i
    BY <1>1, <2>2 DEF Named
  <2>4. NamedTo(c, f)'
    <3>1. told' = told /\ r.list = call[c].list /\ r.doing = call[c].doing /\ r.target = call[c].target
      BY <1>1, <1>3, <1>6
    <3> QED BY <1>1, <1>3, <1>8, <1>9, <2>3, <3>1 DEF NamedTo
  <2>5. \A d \in Clients : d # c => told'[d].tree = told[d].tree /\ told'[d].marks = told[d].marks
    BY <1>1
  <2> QED BY <1>1, <1>2, <1>3, <2>1, <2>2, <2>3, <2>4, <2>5, NamesStay
<1>14. HeldHasCause'
  <2>1. world.enabled
    BY <1>1, <1>4
  <2>2. \A x \in held : x \in pressed \cup stuck \/ \E d \in Clients : call[d].pc = "act" /\ x \in T!Owed(call[d].events)
    BY <1>3 DEF HandsInv, HeldHasCause, T!HeldHasCause
  <2>3. \A x \in held : \/ x \in pressed \cup stuck'
                        \/ \E d \in Clients : call'[d].pc = "act" /\ x \in T!Owed(call'[d].events)
    <3> SUFFICES ASSUME NEW x \in held, NEW d \in Clients, call[d].pc = "act", x \in T!Owed(call[d].events)
                 PROVE  x \in stuck' \/ (call'[d].pc = "act" /\ x \in T!Owed(call'[d].events))
      BY <1>1, <2>2
    <3>1. CASE d = c
      BY <1>1, <1>3, <3>1
    <3>2. CASE d # c
      BY <1>9, <3>2
    <3> QED BY <3>1, <3>2
  <2>4. held' \subseteq pressed' \cup stuck' \cup
                        UNION {T!Owed(call'[d].events) : d \in {f \in Clients : call'[f].pc = "act"}}
    BY <1>1, <2>3
  <2> QED BY <1>1, <2>1, <2>4 DEF HeldHasCause, T!HeldHasCause
<1>15. ClicksWhatWasMeant'
  BY <1>1, <1>3 DEF HandsInv, ClicksWhatWasMeant, T!ClicksWhatWasMeant
<1>16. ASSUME NEW d \in Clients PROVE Handled(call[d])'
  <2>1. Handled(call[d]) /\ pointer' = pointer /\ last' = last
    BY <1>1, <1>3 DEF HandsInv
  <2>2. CASE d = c
    BY <1>7, <1>9, <2>1, <2>2 DEF Handled
  <2>3. CASE d # c
    <3>1. call'[d] = call[d]
      BY <1>9, <2>3
    <3> QED BY <2>1, <3>1 DEF Handled
  <2> QED BY <2>2, <2>3
<1> QED BY <1>10, <1>11, <1>12, <1>13, <1>14, <1>15, <1>16 DEF ToolInv, HandsInv

(* The user moves the pointer: no call is calm any more.                   *)
LEMMA UserMovesStep ==
    ASSUME ToolInv, T!UserMoves
    PROVE  ToolInv'
<1>1. /\ call' = T!Moved(call, None)
      /\ UNCHANGED <<world, elements, nextId, marks, last, held, pressed, stuck, hit, todo, told>>
  BY DEF T!UserMoves
<1>2. ToolTypes /\ CallsInv /\ HandsInv
  BY DEF ToolInv
<1>3. call' = [d \in Clients |-> [call[d] EXCEPT !.calm = d = None]]
  BY <1>1 DEF T!Moved
<1>4. ASSUME NEW d \in Clients
      PROVE  Shape(call'[d]) /\ Alike(call[d], call'[d]) /\ call'[d].events = call[d].events /\ ~call'[d].calm
  <2> DEFINE q == call[d]
             r == call'[d]
             b == d = None
  <2>0. ~b
    BY OrderAssumption
  <2>1. r = [q EXCEPT !.calm = b]
    BY <1>3
  <2>2. Shape(q)
    BY <1>2 DEF CallsInv, CallInv, CallTypes
  <2> HIDE DEF q, r, b
  <2>3. r = [pc |-> q.pc, item |-> q.item, steps |-> q.steps, doing |-> q.doing, target |-> q.target,
             events |-> q.events, front |-> q.front, pic |-> q.pic, list |-> q.list, snap |-> q.snap,
             was |-> q.was, seen |-> q.seen, diff |-> q.diff, found |-> q.found, calm |-> b, sure |-> q.sure,
             ok |-> q.ok]
    BY ONLY <2>1, <2>2, Zenon DEF Shape
  <2>4. /\ Shape(r) /\ r.pc = q.pc /\ r.item = q.item /\ r.steps = q.steps /\ r.doing = q.doing
        /\ r.target = q.target /\ r.events = q.events /\ r.list = q.list /\ r.snap = q.snap /\ r.was = q.was
        /\ r.seen = q.seen /\ r.diff = q.diff /\ r.found = q.found /\ r.calm = b /\ r.sure = q.sure
        /\ r.ok = q.ok
    BY ONLY <2>3, Zenon DEF Shape
  <2> QED BY <2>0, <2>4 DEF Alike, q, r
<1>5. ToolTypes' /\ CallsInv' /\ NameInv' /\ MarkInv'
  <2>1. call' = [d \in Clients |-> call'[d]]
    BY <1>3
  <2>2. ASSUME NEW d \in Clients
        PROVE  call'[d].events \in Seq(Input) /\ (call[d].pc # "act" => call'[d].events = <<>>)
    <3>1. CallInv(call[d])
      BY <1>2 DEF CallsInv
    <3> QED BY <1>4, <3>1 DEF CallInv, CallTypes, StageOf
  <2> QED BY <1>1, <1>4, <2>1, <2>2, AlikeStays
<1>6. HeldHasCause'
  <2>1. {d \in Clients : call'[d].pc = "act"} = {d \in Clients : call[d].pc = "act"}
    BY <1>4 DEF Alike
  <2>2. \A d \in Clients : call'[d].events = call[d].events
    BY <1>4
  <2>3. HeldHasCause
    BY <1>2 DEF HandsInv
  <2> QED BY <1>1, <2>1, <2>2, <2>3 DEF HeldHasCause, T!HeldHasCause
<1>7. ClicksWhatWasMeant'
  BY <1>1, <1>2 DEF HandsInv, ClicksWhatWasMeant, T!ClicksWhatWasMeant
<1>8. ASSUME NEW d \in Clients PROVE Handled(call[d])'
  <2>1. Handled(call[d])
    BY <1>2 DEF HandsInv
  <2> QED BY <1>4, <2>1 DEF Handled, Alike
<1> QED BY <1>5, <1>6, <1>7, <1>8 DEF ToolInv, HandsInv

(* The screen changes, or another part of the agent takes a step.          *)
LEMMA ToolsStand ==
    ASSUME ToolInv, UNCHANGED <<world, elements, nextId, marks, T!desktop, todo, call, told>>
    PROVE  ToolInv'
<1>1. UNCHANGED <<world, elements, nextId, marks, pointer, last, held, pressed, stuck, hit, todo, call, told>>
  BY DEF T!desktop
<1>2. ToolTypes'
  BY <1>1 DEF ToolInv, ToolTypes
<1>3. CallsInv'
  BY <1>1 DEF ToolInv, CallsInv
<1>4. HandsInv'
  <2>1. ASSUME NEW d \in Clients PROVE Handled(call[d])'
    <3>1. Handled(call[d])
      BY DEF ToolInv, HandsInv
    <3> QED BY <1>1, <3>1 DEF Handled
  <2>2. HeldHasCause'
    BY <1>1 DEF ToolInv, HandsInv, HeldHasCause, T!HeldHasCause
  <2>3. ClicksWhatWasMeant'
    BY <1>1 DEF ToolInv, HandsInv, ClicksWhatWasMeant, T!ClicksWhatWasMeant
  <2> QED BY <2>1, <2>2, <2>3 DEF HandsInv
<1>5. NameInv'
  <2>1. nextId \in Nat \ {0} /\ \E f \in [1..nextId - 1 -> T!Places] : Named(f)
    BY DEF ToolInv, NameInv
  <2>2. PICK f \in [1..nextId - 1 -> T!Places] : Named(f)
    BY <2>1
  <2>3. Named(f)'
    BY <1>1, <2>2 DEF Named, NamedTo, Means
  <2> QED BY <1>1, <2>1, <2>3 DEF NameInv
<1>6. MarkInv'
  BY <1>1 DEF ToolInv, MarkInv
<1> QED BY <1>2, <1>3, <1>4, <1>5, <1>6 DEF ToolInv

(* At the beginning nobody has called, and nothing has been looked at.     *)
LEMMA ToolsInit ==
    ASSUME T!Init
    PROVE  ToolInv
<1>1. /\ world \in Worlds /\ elements = <<>> /\ nextId = 1 /\ marks = <<>> /\ last = None
      /\ held = {} /\ pressed = {} /\ stuck = {} /\ hit = None
      /\ todo = [c \in Clients |-> world.calls[c]]
      /\ call = [c \in Clients |-> T!Idle] /\ told = [c \in Clients |-> T!Told]
  BY DEF T!Init
<1>2. Len(<<>>) = 0 /\ \A R : <<>> \in Seq(R)
  BY EmptySeq
<1>3. PICK q : q = T!Idle
  OBVIOUS
<1>4. /\ Shape(q) /\ q.pc = "idle" /\ q.events = <<>> /\ q.list = <<>> /\ q.found = <<>> /\ q.calm = FALSE
      /\ q.sure = FALSE /\ q.ok = FALSE
  BY ONLY <1>3, Zenon DEF T!Idle, Shape
<1>5. \A c \in Clients : call[c] = q /\ told[c] = T!Told
  BY <1>1, <1>3
<1>6. T!Told = [tree |-> T!Told.tree, marks |-> T!Told.marks, mine |-> T!Told.mine]
      /\ T!Told.tree = <<>> /\ T!Told.marks = <<>> /\ T!Told.mine = FALSE
  BY DEF T!Told
<1>7. ToolTypes
  <2>1. call = [c \in Clients |-> call[c]] /\ told = [c \in Clients |-> told[c]] /\ todo = [c \in Clients |-> todo[c]]
    BY <1>1
  <2>2. \A c \in Clients : todo[c] \in Seq(Asked)
    BY <1>1, CallsAssumption
  <2> QED BY <1>1, <1>2, <1>5, <1>6, <2>1, <2>2 DEF ToolTypes
<1>8. CallsInv
  <2>1. CallTypes(q)
    BY <1>2, <1>4 DEF CallTypes
  <2>2. StageOf(q) /\ KeepOf(q) /\ DiffOf(q)
    BY <1>4 DEF StageOf, KeepOf, DiffOf
  <2> QED BY <1>4, <1>5, <2>1, <2>2 DEF CallsInv, CallInv
<1>9. HandsInv
  <2>1. HeldHasCause /\ ClicksWhatWasMeant
    BY <1>1 DEF HeldHasCause, T!HeldHasCause, ClicksWhatWasMeant, T!ClicksWhatWasMeant
  <2>2. Handled(q)
    BY <1>2, <1>4 DEF Handled, Paired, Firm
  <2> QED BY <1>5, <2>1, <2>2 DEF HandsInv
<1>10. NameInv
  <2> DEFINE f == [i \in 1..0 |-> None]
  <2>1. f \in [1..nextId - 1 -> T!Places] /\ nextId \in Nat \ {0}
    BY <1>1
  <2>2. DOMAIN elements = {}
    BY <1>1
  <2>3. \A c \in Clients : NamedTo(c, f)
    BY <1>2, <1>4, <1>5, <1>6 DEF NamedTo
  <2> HIDE DEF f
  <2> QED BY <2>1, <2>2, <2>3 DEF NameInv, Named
<1>11. MarkInv
  BY <1>5, <1>6 DEF MarkInv
<1> QED BY <1>7, <1>8, <1>9, <1>10, <1>11 DEF ToolInv

(* Every step of the tools keeps the invariant.                            *)
LEMMA ToolsNext ==
    ASSUME ToolInv, T!Next
    PROVE  ToolInv'
<1>1. ASSUME NEW c \in Clients, T!Begin(c) PROVE ToolInv'
  BY <1>1, BeginStep
<1>2. ASSUME NEW c \in Clients, T!ReadTree(c) PROVE ToolInv'
  BY <1>2, NoFrontStep, ReadTreeStep
<1>3. ASSUME NEW c \in Clients, T!Keep(c) PROVE ToolInv'
  BY <1>3, KeepStep
<1>4. ASSUME NEW c \in Clients, T!Capture(c) PROVE ToolInv'
  BY <1>4, CaptureStep
<1>5. ASSUME NEW c \in Clients, T!Mark(c) PROVE ToolInv'
  BY <1>5, MarkStep
<1>6. ASSUME NEW c \in Clients, T!Encode(c) PROVE ToolInv'
  BY <1>6, EncodeStep
<1>7. ASSUME NEW c \in Clients, T!Snap(c) PROVE ToolInv'
  BY <1>7, SnapStep
<1>8. ASSUME NEW c \in Clients, T!Step(c) PROVE ToolInv'
  BY <1>8, StepStep
<1>9. ASSUME NEW c \in Clients, T!Acted(c) PROVE ToolInv'
  BY <1>9, ActedStep
<1>10. ASSUME NEW c \in Clients, T!Inject(c) PROVE ToolInv'
  BY <1>10, InjectStep
<1>11. ASSUME NEW c \in Clients, T!InjectFails(c) PROVE ToolInv'
  BY <1>11, InjectFailsStep
<1>12. ASSUME NEW c \in Clients, T!Review(c) PROVE ToolInv'
  BY <1>12, ReviewStep
<1>13. CASE T!Change
  BY <1>13, ToolsStand DEF T!Change
<1>14. CASE T!UserMoves
  BY <1>14, UserMovesStep
<1> QED BY <1>1, <1>2, <1>3, <1>4, <1>5, <1>6, <1>7, <1>8, <1>9, <1>10, <1>11, <1>12, <1>13, <1>14 DEF T!Next

(* In every behaviour of the tools, of whatever callers and calls, the     *)
(* conjunction above holds.                                                *)
THEOREM ToolsInvariant == MCSpec => []ToolInv
<1>1. MCInit => ToolInv
  BY ToolsInit DEF MCInit
<1>2. ToolInv /\ [MCNext]_<<part, vars, tools, picture>> => ToolInv'
  <2> SUFFICES ASSUME ToolInv, [MCNext]_<<part, vars, tools, picture>> PROVE ToolInv'
    OBVIOUS
  <2>1. CASE T!Next
    BY <2>1, ToolsNext
  <2>2. CASE UNCHANGED tools
    BY <2>2, ToolsStand DEF tools, T!desktop
  <2> QED BY <2>1, <2>2 DEF MCNext
<1> QED BY <1>1, <1>2, PTL DEF MCSpec

(* A click lands where the thing was that its caller meant (uia.rs and     *)
(* som.rs, the two caches).                                                *)
THEOREM ClicksWhatWasMeantHolds == MCSpec => []ClicksWhatWasMeant
<1>1. ToolInv => ClicksWhatWasMeant
  BY DEF ToolInv, HandsInv
<1> QED BY <1>1, ToolsInvariant, PTL

(* A key or a button that is down has a cause, and nothing is down on an   *)
(* agent that may not act (computer_use.rs, batch.rs).                     *)
THEOREM HeldHasCauseHolds == MCSpec => []HeldHasCause
<1>1. ToolInv => HeldHasCause
  BY DEF ToolInv, HandsInv
<1> QED BY <1>1, ToolsInvariant, PTL

(* A difference that is reported is one, and none is none (uia.rs,         *)
(* compute_state_diff).                                                    *)
THEOREM DiffTellsHolds == MCSpec => []DiffTells
<1>1. ToolInv => DiffTells
  BY DEF ToolInv, CallsInv, CallInv, DiffOf, DiffTells, T!DiffTells
<1> QED BY <1>1, ToolsInvariant, PTL

-----------------------------------------------------------------------------
(***************************************************************************)
(* The connection. OneLoop alone is not inductive: what excludes a second  *)
(* loop is that the task in the loop is the one that holds the lock.       *)
(***************************************************************************)
LoopLocked == \A t \in Tasks : pc[t] \in Looping => lock = t

CInv == TypeOK /\ LoopLocked

USE ClicksAssumption DEF Tasks, Nobody

(* Waking tasks neither starts nor ends a loop, and moves no other task.   *)
LEMMA WokenLoops ==
  ASSUME TypeOK
  PROVE  /\ Woken \in [Tasks -> Looping \cup Jobs \cup {"free"}]
         /\ \A t \in Tasks : Woken[t] \in Looping => pc[t] \in Looping
         /\ \A t \in Tasks : Woken[t] = "update" => pc[t] = "update"
<1>1. \A t \in Tasks : Woken[t] \in {pc[t], "ended", "top"}
                       /\ (Woken[t] # pc[t] => pc[t] \in {"connecting", "backoff"})
  BY Zenon DEF Woken
<1>2. \A t \in Tasks : Woken[t] \in Looping \cup Jobs \cup {"free"}
  BY <1>1 DEF TypeOK, Looping
<1>3. Woken = [t \in Tasks |-> Woken[t]]
  BY Zenon DEF Woken
<1>4. Woken \in [Tasks -> Looping \cup Jobs \cup {"free"}]
  BY <1>2, <1>3, Zenon
<1> QED
  BY <1>1, <1>4 DEF Looping

(* The initial state: the first task is about to enter.                    *)
LEMMA CInit == Init => CInv
<1> SUFFICES ASSUME Init PROVE CInv
  OBVIOUS
<1>1. TypeOK
  <2>1. pc \in [Tasks -> {"enter", "free"}] /\ url \in [Tasks -> Urls \cup BadUrls]
    BY DEF Init
  <2>2. {"enter", "free"} \subseteq Looping \cup Jobs \cup {"free"}
    BY DEF Jobs
  <2>3. env \in Scenarios /\ clicks \in Tasks /\ lock = Nobody /\ target \in Urls \cup BadUrls
        /\ status = "Disconnected"
    BY DEF Init
  <2>4. {stopped, running, outbound, beating} \subseteq BOOLEAN
    BY DEF Init
  <2> QED
    BY <2>1, <2>2, <2>3, <2>4 DEF TypeOK
<1>2. LoopLocked
  BY DEF Init, LoopLocked, Looping
<1> QED
  BY <1>1, <1>2 DEF CInv

(* A click spawns a task that is not in the loop.                          *)
LEMMA ClickKeeps == ASSUME CInv, User PROVE CInv'
<1> USE DEF CInv
<1>1. ASSUME NEW e, NEW job \in Jobs, Click(e, job)
      PROVE  /\ clicks' \in Tasks /\ clicks + 1 \in Tasks
             /\ UNCHANGED <<env, target, lock, outbound, beating>>
             /\ pc' \in [Tasks -> Looping \cup Jobs \cup {"free"}]
             /\ \A t \in Tasks : pc'[t] \in Looping => pc[t] \in Looping
             /\ \A t \in Tasks : t # clicks + 1 /\ pc'[t] = "update" => pc[t] = "update"
             /\ pc'[clicks + 1] = job
  <2>1. clicks + 1 \in Tasks /\ job \notin Looping
    BY <1>1 DEF Click, TypeOK, Jobs, Looping
  <2>2. CASE job = "enter"
    <3>1. pc' = [Woken EXCEPT ![clicks + 1] = job]
      BY <1>1, <2>2 DEF Click
    <3> QED
      BY <1>1, <2>1, <3>1, WokenLoops DEF Click
  <2>3. CASE job # "enter"
    <3>1. pc' = [pc EXCEPT ![clicks + 1] = job]
      BY <1>1, <2>3 DEF Click
    <3> QED
      BY <1>1, <2>1, <3>1 DEF Click, TypeOK
  <2> QED
    BY <2>2, <2>3
<1>2. CASE ClickDisconnect
  <2>1. Click("disconnect", "disconnect") /\ "disconnect" \in Jobs
    BY <1>2 DEF ClickDisconnect, Jobs
  <2>2. stopped' \in BOOLEAN /\ UNCHANGED <<running, url>> /\ status' = "Disconnected"
    BY <1>2 DEF ClickDisconnect, TypeOK
  <2>3. TypeOK'
    BY <1>1, <2>1, <2>2 DEF TypeOK
  <2> QED
    BY <1>1, <2>1, <2>3 DEF LoopLocked
<1>3. CASE ClickReconnect
  <2>1. Click("reconnect", "enter") /\ "enter" \in Jobs
    BY <1>3 DEF ClickReconnect, Jobs
  <2>2. TypeOK'
    BY <1>1, <1>3, <2>1 DEF ClickReconnect, TypeOK
  <2> QED
    BY <1>1, <2>1, <2>2 DEF LoopLocked
<1>4. ASSUME NEW u \in Urls, ClickUpdate(u) PROVE CInv'
  <2>1. Click("update", "update") /\ "update" \in Jobs
    BY <1>4 DEF ClickUpdate, Jobs
  <2>2. url' = [url EXCEPT ![clicks + 1] = u]
    BY <1>4 DEF ClickUpdate
  <2>3. TypeOK'
    BY ZenonT(40), <1>1, <1>4, <2>1, <2>2 DEF ClickUpdate, TypeOK
  <2> QED
    BY <1>1, <2>1, <2>3 DEF LoopLocked
<1> QED
  BY <1>2, <1>3, <1>4 DEF User

(* The tasks of the clicks leave the lock alone and are not in the loop.   *)
LEMMA JobKeeps == ASSUME CInv, NEW t \in Tasks, Job(t) PROVE CInv'
<1> USE DEF CInv
<1>1. CASE StopRunning(t) \/ HangUp(t) \/ HungUp(t) \/ Reset(t)
  <2>1. TypeOK'
    BY <1>1 DEF StopRunning, HangUp, HungUp, Reset, Goto, TypeOK, Jobs, sessionVars
  <2>2. LoopLocked'
    BY <1>1 DEF StopRunning, HangUp, HungUp, Reset, Goto, TypeOK, LoopLocked, Looping
  <2> QED
    BY <2>1, <2>2
<1>2. ASSUME NEW l \in {"reset", "enter"}, pc' = [Woken EXCEPT ![t] = l],
             SetUrl(t) \/ Abort(t)
      PROVE  CInv'
  <2>1. /\ pc' \in [Tasks -> Looping \cup Jobs \cup {"free"}]
        /\ \A s \in Tasks : pc'[s] \in Looping => pc[s] \in Looping
        /\ \A s \in Tasks : pc'[s] = "update" => pc[s] = "update"
    <3>1. l \in Jobs /\ l \notin Looping /\ l # "update"
      BY DEF Jobs, Looping
    <3> QED
      BY <1>2, <3>1, WokenLoops
  <2>2. target' \in Urls \cup BadUrls
    BY <1>2 DEF SetUrl, Abort, TypeOK
  <2>3. UNCHANGED <<env, clicks, stopped, status, lock, url, sessionVars>> /\ running' \in BOOLEAN
    BY <1>2 DEF SetUrl, Abort, TypeOK
  <2>4. TypeOK'
    BY <2>1, <2>2, <2>3 DEF TypeOK, sessionVars
  <2> QED
    BY <2>1, <2>3, <2>4 DEF LoopLocked
<1>3. CASE SetUrl(t)
  BY <1>2, <1>3 DEF SetUrl
<1>4. CASE Abort(t)
  BY <1>2, <1>4 DEF Abort
<1> QED
  BY <1>1, <1>3, <1>4 DEF Job

(* The loop: a task enters it with the lock, and leaves it with the lock.  *)
LEMMA LoopKeeps == ASSUME CInv, NEW t \in Tasks, Loop(t) \/ Drop(t) PROVE CInv'
<1> USE DEF CInv
<1>1. CASE Enter(t)
  <2>1. TypeOK'
    BY <1>1 DEF Enter, Goto, TypeOK, Looping, sessionVars
  <2>2. LoopLocked'
    <3>1. CASE lock = Nobody
      BY <1>1, <3>1 DEF Enter, Goto, TypeOK, LoopLocked
    <3>2. CASE lock # Nobody
      BY <1>1, <3>2 DEF Enter, Goto, TypeOK, LoopLocked, Looping
    <3> QED
      BY <3>1, <3>2
  <2> QED
    BY <2>1, <2>2
<1>2. CASE Leave(t)
  <2>1. TypeOK'
    BY <1>2 DEF Leave, Goto, TypeOK, sessionVars
  <2>2. LoopLocked'
    BY <1>2 DEF Leave, Goto, TypeOK, LoopLocked, Looping
  <2> QED
    BY <2>1, <2>2
<1>3. CASE Beat(t)
  BY <1>3 DEF Beat, TypeOK, LoopLocked
<1>4. ASSUME NEW l \in Looping, pc[t] \in Looping, pc' = [pc EXCEPT ![t] = l], lock' = lock
      PROVE  LoopLocked' /\ pc' \in [Tasks -> Looping \cup Jobs \cup {"free"}]
             /\ \A s \in Tasks : pc'[s] = "update" => s # t /\ pc[s] = "update"
  <2>1. l # "update"
    BY DEF Looping
  <2> QED
    BY <1>4, <2>1 DEF TypeOK, LoopLocked
<1>5. CASE Top(t)
  <2>1. lock' = lock /\ \E l \in Looping : pc' = [pc EXCEPT ![t] = l]
    BY <1>5 DEF Top, Goto, Looping
  <2>2. pc[t] \in Looping /\ UNCHANGED <<env, clicks, stopped, running, target, sessionVars>>
    BY <1>5 DEF Top, Looping
  <2>3. url' \in [Tasks -> Urls \cup BadUrls] /\ (\A s \in Tasks : s # t => url'[s] = url[s])
    BY <1>5 DEF Top, TypeOK
  <2>4. status' \in {status, "Connecting"}
    BY <1>5 DEF Top
  <2>5. TypeOK'
    BY <1>4, <2>1, <2>2, <2>3, <2>4 DEF TypeOK, sessionVars
  <2> QED
    BY <1>4, <2>1, <2>2, <2>5
<1>6. CASE Connect(t) \/ HandshakeFails(t) \/ Register(t) \/ Read(t) \/ TimeOut(t) \/ Drop(t)
           \/ Ended(t) \/ Pause(t)
  <2> USE DEF Connect, HandshakeFails, Register, Read, TimeOut, Drop, Ended, Pause, Close,
              Goto, Session
  <2>1. lock' = lock /\ \E l \in Looping : pc' = [pc EXCEPT ![t] = l]
    BY <1>6 DEF Looping
  <2>2. pc[t] \in Looping /\ UNCHANGED <<env, clicks, stopped, running, target, url>>
    BY <1>6 DEF Looping
  <2>3. status' \in {status, "Connected", "Reconnecting"}
    BY <1>6
  <2>4. outbound' \in BOOLEAN /\ beating' \in BOOLEAN
    BY <1>6 DEF TypeOK, sessionVars
  <2>5. TypeOK'
    BY <1>4, <2>1, <2>2, <2>3, <2>4 DEF TypeOK
  <2> QED
    BY <1>4, <2>1, <2>2, <2>5
<1> QED
  BY <1>1, <1>2, <1>3, <1>5, <1>6 DEF Loop

(* The invariant holds throughout.                                         *)
THEOREM ClientInvariant == Spec => []CInv
<1>1. CInv /\ [Next]_vars => CInv'
  <2> SUFFICES ASSUME CInv, [Next]_vars PROVE CInv'
    OBVIOUS
  <2>1. CASE UNCHANGED vars
    BY <2>1 DEF vars, sessionVars, CInv, TypeOK, LoopLocked
  <2>2. CASE Next
    BY <2>2, ClickKeeps, JobKeeps, LoopKeeps DEF Next
  <2> QED
    BY <2>1, <2>2
<1> QED
  BY CInit, <1>1, PTL DEF Spec

(* Every variable keeps its type, and an update only ever carries a valid  *)
(* address.                                                                *)
THEOREM ClientTypes == Spec => []TypeOK
<1>1. CInv => TypeOK
  BY DEF CInv
<1> QED
  BY ClientInvariant, <1>1, PTL

(* A task that no click has spawned yet does nothing: a click does not     *)
(* overwrite a session.                                                    *)
Unspawned == \A t \in Tasks : t > clicks => pc[t] = "free"

ChanInv == ChannelLive /\ Unspawned

(* A step that leaves the channel and the heartbeats alone, and ends no    *)
(* session, keeps ChannelLive.                                             *)
LEMMA SessionFrame ==
  ASSUME ChannelLive, outbound' => outbound, beating' => beating,
         \A t \in Tasks : pc[t] = "session" => pc'[t] = "session"
  PROVE  ChannelLive'
BY DEF ChannelLive, Session

(* Only a loop in its session ends it, and takes the channel with it.      *)
LEMMA ChannelStep == CInv /\ ChanInv /\ [Next]_vars => ChanInv'
<1> SUFFICES ASSUME CInv, ChanInv, [Next]_vars PROVE ChanInv'
  OBVIOUS
<1> USE DEF CInv, TypeOK, ChanInv
<1>1. ASSUME NEW l, NEW t \in Tasks, pc[t] \notin {"session", "free"},
             pc' = [pc EXCEPT ![t] = l] \/ pc' = [Woken EXCEPT ![t] = l],
             outbound' => outbound, beating' => beating, clicks' = clicks
      PROVE  ChanInv'
  <2>1. \A s \in Tasks : pc[s] \in {"session", "free"} => Woken[s] = pc[s]
    BY DEF Woken
  <2>2. \A s \in Tasks : pc[s] \in {"session", "free"} => pc'[s] = pc[s]
    BY <1>1, <2>1 DEF Woken
  <2>3. ChannelLive'
    BY <1>1, <2>2, SessionFrame
  <2>4. Unspawned'
    BY <1>1, <2>2 DEF Unspawned
  <2> QED
    BY <2>3, <2>4
<1>2. CASE User
  <2>1. PICK e, job : Click(e, job)
    BY <1>2 DEF User, ClickDisconnect, ClickReconnect, ClickUpdate
  <2>2. clicks + 1 \in Tasks /\ pc[clicks + 1] = "free"
    BY <2>1 DEF Click, Unspawned
  <2>3. \A t \in Tasks : t # clicks + 1 /\ pc[t] \in {"session", "free"} => pc'[t] = pc[t]
    <3>1. \A t \in Tasks : pc[t] \in {"session", "free"} => Woken[t] = pc[t]
      BY DEF Woken
    <3>2. CASE job = "enter"
      BY <2>1, <3>1, <3>2 DEF Click, Woken
    <3>3. CASE job # "enter"
      BY <2>1, <3>3 DEF Click
    <3> QED
      BY <3>2, <3>3
  <2>4. ChannelLive'
    BY <2>1, <2>2, <2>3, SessionFrame DEF Click
  <2>5. Unspawned'
    BY <2>1, <2>3 DEF Click, Unspawned
  <2> QED
    BY <2>4, <2>5
<1>3. ASSUME NEW t \in Tasks, Job(t) PROVE ChanInv'
  <2>1. CASE StopRunning(t) \/ HungUp(t) \/ Reset(t)
    <3>1. /\ pc[t] \notin {"session", "free"} /\ UNCHANGED <<clicks, outbound, beating>>
          /\ \E l : pc' = [pc EXCEPT ![t] = l]
      BY <2>1 DEF StopRunning, HungUp, Reset, Goto, sessionVars
    <3> QED
      BY <1>1, <3>1
  <2>2. CASE HangUp(t)
    BY <1>1, <2>2 DEF HangUp, Goto
  <2>3. CASE SetUrl(t)
    BY <1>1, <2>3 DEF SetUrl, sessionVars
  <2>4. CASE Abort(t)
    BY <1>1, <2>4 DEF Abort, sessionVars
  <2> QED
    BY <1>3, <2>1, <2>2, <2>3, <2>4 DEF Job
<1>4. ASSUME NEW t \in Tasks, Enter(t) \/ Top(t) \/ Connect(t) \/ HandshakeFails(t) \/ Ended(t)
                               \/ Pause(t) \/ Leave(t)
      PROVE  ChanInv'
  BY <1>1, <1>4 DEF Enter, Top, Connect, HandshakeFails, Ended, Pause, Leave, Goto, sessionVars
<1>5. ASSUME NEW t \in Tasks, Close(t), clicks' = clicks, pc[t] # "free" PROVE ChanInv'
  <2>1. ~outbound' /\ ~beating'
    BY <1>5 DEF Close
  <2>2. Unspawned'
    BY <1>5 DEF Close, Goto, Unspawned
  <2> QED
    BY <2>1, <2>2 DEF ChannelLive
<1>6. ASSUME NEW t \in Tasks, Read(t) \/ TimeOut(t) \/ Drop(t) PROVE ChanInv'
  BY <1>5, <1>6 DEF Read, TimeOut, Drop, Session
<1>7. ASSUME NEW t \in Tasks, Register(t) PROVE ChanInv'
  <2>1. CASE running
    <3>1. pc' = [pc EXCEPT ![t] = "session"] /\ clicks' = clicks /\ pc[t] = "handshake"
      BY <1>7, <2>1 DEF Register, Goto
    <3>2. ChannelLive' /\ Unspawned'
      BY <3>1 DEF ChannelLive, Session, Unspawned
    <3> QED
      BY <3>2
  <2>2. CASE ~running
    BY <1>5, <1>7, <2>2 DEF Register
  <2> QED
    BY <2>1, <2>2
<1>8. ASSUME NEW t \in Tasks, Beat(t) PROVE ChanInv'
  <2>1. UNCHANGED <<pc, outbound, clicks>> /\ ~beating'
    BY <1>8 DEF Beat
  <2> QED
    BY <2>1 DEF ChannelLive, Session, Unspawned
<1>9. CASE UNCHANGED vars
  BY <1>9 DEF vars, sessionVars, ChannelLive, Session, Unspawned
<1> QED
  BY <1>2, <1>3, <1>4, <1>6, <1>7, <1>8, <1>9 DEF Next, Loop

(* The channel by which the agent sends, and the heartbeats, belong to a   *)
(* session that is up.                                                     *)
THEOREM ChannelsLive == Spec => []ChannelLive
<1>1. Init => ChanInv
  BY DEF Init, ChanInv, ChannelLive, Unspawned
<1>2. ChanInv => ChannelLive
  BY DEF ChanInv
<1> QED
  BY ClientInvariant, ChannelStep, <1>1, <1>2, PTL DEF Spec

(* However the clicks and the tasks interleave, one task at most runs the  *)
(* reconnect loop.                                                         *)
THEOREM OneLoopOnly == Spec => []OneLoop
<1>1. CInv => OneLoop
  BY DEF CInv, LoopLocked, OneLoop, InLoop
<1> QED
  BY ClientInvariant, <1>1, PTL

-----------------------------------------------------------------------------
(***************************************************************************)
(* The marked screen. Numbers are compared after multiplication by their   *)
(* denominators; x and y are near each other if they differ by e at most.  *)
(***************************************************************************)
Near(x, y, e) == x <= y + e /\ y <= x + e

(* A rounded quotient is the nearest number.                               *)
LEMMA RoundIs ==
    ASSUME NEW a \in Nat, NEW b \in Nat \ {0}
    PROVE  /\ S!Round(a, b) \in Nat
           /\ 2 * (b * S!Round(a, b)) <= 2 * a + b
           /\ 2 * a < 2 * (b * S!Round(a, b)) + b
<1> DEFINE r == (2 * a + b) \div (2 * b)
<1>1. S!Round(a, b) = r
  BY DEF S!Round
<1>2. r \in Int /\ (2 * b) * r <= 2 * a + b /\ 2 * a + b < (2 * b) * r + 2 * b
  OBVIOUS
<1>3. r \in Nat
  BY <1>2
<1> HIDE DEF r
<1> QED BY <1>1, <1>2, <1>3

(* So is that of a negative one, which is rounded away from zero.          *)
LEMMA RoundBelow ==
    ASSUME NEW a \in Int, a < 0, NEW b \in Nat \ {0}
    PROVE  /\ S!Round(a, b) \in Int /\ S!Round(a, b) <= 0
           /\ 2 * a <= 2 * (b * S!Round(a, b)) + b
<1> DEFINE r == (b - 2 * a) \div (2 * b)
<1>1. S!Round(a, b) = -r
  BY DEF S!Round
<1>2. r \in Int /\ (2 * b) * r <= b - 2 * a /\ b - 2 * a < (2 * b) * r + 2 * b
  OBVIOUS
<1>3. r \in Nat
  BY <1>2
<1> HIDE DEF r
<1> QED BY <1>1, <1>2, <1>3

(* One that is rounded down at a half is as near.                          *)
LEMMA NearestIs ==
    ASSUME NEW a \in Nat, NEW b \in Nat \ {0}
    PROVE  /\ S!Nearest(a, b) \in Nat
           /\ 2 * (b * S!Nearest(a, b)) < 2 * a + b
           /\ 2 * a <= 2 * (b * S!Nearest(a, b)) + b
<1> DEFINE r == (2 * a + b - 1) \div (2 * b)
<1>1. S!Nearest(a, b) = r
  BY DEF S!Nearest
<1>2. r \in Int /\ (2 * b) * r <= 2 * a + b - 1 /\ 2 * a + b - 1 < (2 * b) * r + 2 * b
  OBVIOUS
<1>3. r \in Nat
  BY <1>2
<1> HIDE DEF r
<1> QED BY <1>1, <1>2, <1>3

(* A factor in common is no part of a comparison.                          *)
LEMMA Cancel ==
    ASSUME NEW a \in Int, NEW b \in Int, NEW c \in Nat \ {0}, a * c <= b * c
    PROVE  a <= b
OBVIOUS
LEMMA CancelLess ==
    ASSUME NEW a \in Int, NEW b \in Int, NEW c \in Nat \ {0}, a * c < b * c
    PROVE  a < b
OBVIOUS

(* An offset B on the picture that is looked at (of M pixels), taken to the *)
(* picture (of Q) and to the screen (of H, shown at the scale P to W), is  *)
(* off by two pixels of the first at most.                                 *)
LEMMA ThereAndBack ==
    ASSUME NEW W \in Nat \ {0}, NEW P \in Nat \ {0}, NEW H \in Nat, NEW Q \in Nat, NEW M \in Nat,
           NEW B \in Nat, NEW q \in Nat, NEW u \in Nat,
           24 <= Q, Q <= H, M <= Q, B <= M,
           Near(2 * (W * Q), 2 * (H * P), W),
           Near(2 * (M * q), 2 * (B * Q), M),
           Near(2 * (P * u), 2 * (q * W), P)
    PROVE  Near(M * u, H * B, 2 * H)
<1>1. Near(2 * (P * M * u), 2 * (M * q * W), P * M)
  BY DEF Near
<1>2. Near(2 * (M * q * W), 2 * (B * Q * W), M * W)
  BY DEF Near
<1>3. Near(2 * (B * Q * W), 2 * (B * H * P), B * W)
  BY DEF Near
<1>4. B * W <= M * W /\ M * W <= Q * W /\ P * M <= P * H
  OBVIOUS
<1>5. 47 * W <= 2 * (H * P)
  BY DEF Near
<1>6. B * W + M * W + P * M <= 4 * (H * P)
  BY <1>4, <1>5 DEF Near
<1>7. Near(2 * (P * M * u), 2 * (B * H * P), 4 * (H * P))
  BY <1>1, <1>2, <1>3, <1>6 DEF Near
<1>8. Near((M * u) * P, (H * B) * P, (2 * H) * P)
  BY <1>7 DEF Near
<1>9. (M * u) * P <= (H * B + 2 * H) * P /\ (H * B) * P <= (M * u + 2 * H) * P
  BY <1>8 DEF Near
<1> QED BY <1>9, Cancel DEF Near
(* Along one axis: a thing from a to b of H pixels, of which M are looked   *)
(* at, is seen there at lo, n pixels of it; its blocks are those from B, N *)
(* pixels, which on the screen is the mark from u, v pixels.               *)
Axis(H, M, a, b, lo, n, B, N, u, v) ==
    /\ H \in Nat \ {0} /\ M \in Nat \ {0} /\ M <= H
    /\ a \in Nat /\ b \in Nat /\ lo \in Nat /\ n \in Nat /\ B \in Nat /\ N \in Nat /\ u \in Nat /\ v \in Nat
    /\ Near(2 * (M * a), 2 * (H * lo), H)
    /\ Near(2 * (M * b), 2 * (H * (lo + n)), H)
    /\ B <= lo /\ lo <= B + 17 /\ lo + n <= B + N + 5 /\ B + N <= lo + n + 16
    /\ Near(M * u, H * B, 2 * H) /\ Near(M * v, H * N, 2 * H)

(* The middle of the mark of what is at least 30 pixels is on it,           *)
LEMMA CenterHits ==
    ASSUME NEW H, NEW M, NEW a, NEW b, NEW lo, NEW n, NEW B, NEW N, NEW u, NEW v,
           Axis(H, M, a, b, lo, n, B, N, u, v), 30 <= n
    PROVE  a <= u + v \div 2 /\ u + v \div 2 < b
<1> USE DEF Axis
<1> DEFINE c == u + v \div 2
<1>1. c \in Nat /\ 2 * c <= 2 * u + v /\ 2 * u + v <= 2 * c + 1
  OBVIOUS
<1> HIDE DEF c
<1>2. 2 * (M * c) <= 2 * (M * u) + M * v /\ 2 * (M * u) + M * v <= 2 * (M * c) + M
  BY <1>1
<1>3. H * (2 * B + N) <= 2 * (M * c) + 7 * H /\ 2 * (M * c) <= H * (2 * B + N) + 6 * H
  BY <1>1, <1>2 DEF Near
<1>4. H * (2 * lo + n - 22) <= H * (2 * B + N) /\ H * (2 * B + N) <= H * (2 * lo + n + 16)
  OBVIOUS
<1>5. H * (2 * lo + n - 29) <= 2 * (M * c) /\ 2 * (M * c) <= H * (2 * lo + n + 22)
  BY <1>1, <1>3, <1>4
<1>6. 2 * (M * a) <= H * (2 * lo + 1) /\ H * (2 * lo + 2 * n - 1) <= 2 * (M * b)
  BY DEF Near
<1>7. H * (2 * lo + 1) <= H * (2 * lo + n - 29) /\ H * (2 * lo + n + 22) < H * (2 * lo + 2 * n - 1)
  OBVIOUS
<1>8. a * M <= c * M /\ c * M < b * M
  BY <1>1, <1>5, <1>6, <1>7
<1>9. a <= c /\ c < b
  BY <1>1, <1>8, Cancel, CancelLess
<1> QED BY <1>9 DEF c

(* and the mark of what is at least 50 has most of it in common with it,    *)
(* whether its blocks reach its end or fall a little short of it,          *)
Mostly(s, k, v) == (45 * k <= 51 * s /\ 45 * v <= 85 * s) \/ (40 * k <= 51 * s /\ 40 * v <= 69 * s)

LEMMA SpanCovers ==
    ASSUME NEW H, NEW M, NEW a, NEW b, NEW lo, NEW n, NEW B, NEW N, NEW u, NEW v,
           Axis(H, M, a, b, lo, n, B, N, u, v), 50 <= n,
           NEW x \in Int, NEW s, s = S!Span(x + u, v, x + a, b - a)
    PROVE  s \in Nat \ {0} /\ Mostly(s, b - a, v)
<1> USE DEF Axis
<1> DEFINE t == S!Least(u + v, b) - S!Most(u, a)
<1>1. t \in Int /\ s = S!Most(0, t)
  BY DEF S!Span, S!Least, S!Most
<1>2. t = b - a \/ t = b - u \/ t = u + v - a \/ t = v
  BY DEF S!Least, S!Most
<1>3. M * (b - a) >= H * (n - 5) /\ M * (b - u) >= H * (n - 5) /\ M * (b - a) <= H * (n + 1)
  BY DEF Near
<1> HIDE DEF t
<1>4. CASE lo + n <= B + N
  <2>1. M * (u + v - a) >= H * (n - 5) /\ M * v >= H * (n - 5) /\ M * v <= H * (n + 35)
    BY <1>4 DEF Near
  <2>2. M * t >= H * (n - 5)
    BY <1>2, <1>3, <2>1
  <2>3. 45 * (H * (n + 1)) <= 51 * (H * (n - 5)) /\ 45 * (H * (n + 35)) <= 85 * (H * (n - 5)) /\ H * (n - 5) > 0
    OBVIOUS
  <2>4. (45 * (b - a)) * M <= (51 * t) * M /\ (45 * v) * M <= (85 * t) * M /\ 0 * M < t * M
    BY <1>1, <1>3, <2>1, <2>2, <2>3
  <2>5. 45 * (b - a) <= 51 * t
    BY <1>1, <2>4, Cancel
  <2>6. 45 * v <= 85 * t
    BY <1>1, <2>4, Cancel
  <2>7. 0 < t
    BY <1>1, <2>4, CancelLess
  <2> QED BY <1>1, <2>5, <2>6, <2>7 DEF S!Most, Mostly
<1>5. CASE B + N < lo + n
  <2>1. M * (u + v - a) >= H * (n - 10) /\ M * v >= H * (n - 10) /\ M * v <= H * (n + 19)
    BY <1>5 DEF Near
  <2>2. M * t >= H * (n - 10)
    <3>1. H * (n - 5) >= H * (n - 10)
      OBVIOUS
    <3> QED BY <1>2, <1>3, <2>1, <3>1
  <2>3. 40 * (H * (n + 1)) <= 51 * (H * (n - 10)) /\ 40 * (H * (n + 19)) <= 69 * (H * (n - 10)) /\ H * (n - 10) > 0
    OBVIOUS
  <2>4. (40 * (b - a)) * M <= (51 * t) * M /\ (40 * v) * M <= (69 * t) * M /\ 0 * M < t * M
    BY <1>1, <1>3, <2>1, <2>2, <2>3
  <2>5. 40 * (b - a) <= 51 * t
    BY <1>1, <2>4, Cancel
  <2>6. 40 * v <= 69 * t
    BY <1>1, <2>4, Cancel
  <2>7. 0 < t
    BY <1>1, <2>4, CancelLess
  <2> QED BY <1>1, <2>5, <2>6, <2>7 DEF S!Most, Mostly
<1> QED BY <1>4, <1>5

(* so that the two are taken for one.                                      *)
LEMMA Products ==
    ASSUME NEW a \in Nat, NEW b \in Nat, NEW c \in Nat, NEW d \in Nat, NEW s \in Nat, NEW t \in Nat,
           NEW p \in Nat, NEW q \in Nat, NEW e \in Nat, NEW f \in Nat,
           p * a <= q * s, e * b <= f * t
    PROVE  (p * e) * (a * b) <= (q * f) * (s * t)
<1>1. (p * a) * (e * b) <= (q * s) * (f * t)
  <2> DEFINE w == p * a
             x == q * s
             y == e * b
             z == f * t
  <2>1. w \in Nat /\ x \in Nat /\ y \in Nat /\ z \in Nat /\ w <= x /\ y <= z
    OBVIOUS
  <2> HIDE DEF w, x, y, z
  <2>2. w * y <= x * z
    BY ONLY <2>1
  <2> QED BY <2>2 DEF w, x, y, z
<1>2. (p * a) * (e * b) = (p * e) * (a * b) /\ (q * s) * (f * t) = (q * f) * (s * t)
  OBVIOUS
<1> QED BY <1>1, <1>2

LEMMA SharesMuch ==
    ASSUME NEW X \in Nat, NEW Y \in Nat, NEW v \in Nat, NEW z \in Nat, NEW s \in Nat \ {0}, NEW t \in Nat \ {0},
           Mostly(s, X, v), Mostly(t, Y, z)
    PROVE  X * Y + v * z < 5 * (s * t)
<1>1. s * t > 0 /\ X * Y \in Nat /\ v * z \in Nat /\ s * t \in Nat
  OBVIOUS
<1>2. CASE 45 * X <= 51 * s /\ 45 * v <= 85 * s /\ 45 * Y <= 51 * t /\ 45 * z <= 85 * t
  <2>1. (45 * 45) * (X * Y) <= (51 * 51) * (s * t)
    BY <1>2, Products
  <2>2. (45 * 45) * (v * z) <= (85 * 85) * (s * t)
    BY <1>2, Products
  <2> QED BY ONLY <1>1, <2>1, <2>2
<1>3. CASE 45 * X <= 51 * s /\ 45 * v <= 85 * s /\ 40 * Y <= 51 * t /\ 40 * z <= 69 * t
  <2>1. (45 * 40) * (X * Y) <= (51 * 51) * (s * t)
    BY <1>3, Products
  <2>2. (45 * 40) * (v * z) <= (85 * 69) * (s * t)
    BY <1>3, Products
  <2> QED BY ONLY <1>1, <2>1, <2>2
<1>4. CASE 40 * X <= 51 * s /\ 40 * v <= 69 * s /\ 45 * Y <= 51 * t /\ 45 * z <= 85 * t
  <2>1. (40 * 45) * (X * Y) <= (51 * 51) * (s * t)
    BY <1>4, Products
  <2>2. (40 * 45) * (v * z) <= (69 * 85) * (s * t)
    BY <1>4, Products
  <2> QED BY ONLY <1>1, <2>1, <2>2
<1>5. CASE 40 * X <= 51 * s /\ 40 * v <= 69 * s /\ 40 * Y <= 51 * t /\ 40 * z <= 69 * t
  <2>1. (40 * 40) * (X * Y) <= (51 * 51) * (s * t)
    BY <1>5, Products
  <2>2. (40 * 40) * (v * z) <= (69 * 69) * (s * t)
    BY <1>5, Products
  <2> QED BY ONLY <1>1, <2>1, <2>2
<1> QED BY <1>2, <1>3, <1>4, <1>5 DEF Mostly

-----------------------------------------------------------------------------
(* Among takes its steps, whatever it is given.                            *)
LEMMA AmongSteps ==
    ASSUME NEW s, Len(s) \in Nat, NEW A
    PROVE  \E g : Picked(g, s, A, Len(s)) /\ S!Among(s, A) = g[Len(s)]
<1> DEFINE L == Len(s)
           Is(f) == f = [n \in 0..L |-> IF n = 0 THEN <<>> ELSE
                           IF s[n] \in A THEN Append(f[n - 1], s[n]) ELSE f[n - 1]]
           F == CHOOSE f : Is(f)
<1>1. PICK g : Picked(g, s, A, L)
  BY PickedExists
<1>2. Is(g)
  <2>1. g = [n \in 0..L |-> g[n]]
    BY <1>1 DEF Picked
  <2>2. ASSUME NEW n \in 0..L
        PROVE  g[n] = IF n = 0 THEN <<>> ELSE IF s[n] \in A THEN Append(g[n - 1], s[n]) ELSE g[n - 1]
    <3>1. CASE n = 0
      BY <1>1, <3>1 DEF Picked
    <3>2. CASE n # 0
      <4>1. n \in 1..L
        BY <3>2
      <4> QED BY <1>1, <3>2, <4>1 DEF Picked
    <3> QED BY <3>1, <3>2
  <2> QED BY <2>1, <2>2
<1>3. Is(F)
  <2> HIDE DEF Is
  <2> QED BY <1>2
<1>4. S!Among(s, A) = F[L]
  BY DEF S!Among
<1> HIDE DEF F
<1>5. \A n \in 0..L : F[n] = IF n = 0 THEN <<>> ELSE IF s[n] \in A THEN Append(F[n - 1], s[n]) ELSE F[n - 1]
  BY <1>3, ZenonT(20)
<1>6. 0 \in 0..L /\ \A n \in 1..L : n \in 0..L /\ n # 0
  OBVIOUS
<1>7. F[0] = <<>> /\ \A n \in 1..L : F[n] = IF s[n] \in A THEN Append(F[n - 1], s[n]) ELSE F[n - 1]
  BY ONLY <1>5, <1>6, Zenon
<1>8. F = [n \in 0..L |-> F[n]]
  <2>1. DOMAIN F = 0..L
    BY <1>3
  <2>2. F = [n \in DOMAIN F |-> F[n]]
    BY <1>3
  <2> QED BY <2>1, <2>2
<1>9. Picked(F, s, A, L)
  BY <1>7, <1>8 DEF Picked
<1> QED BY <1>4, <1>9

(* What Among leaves comes from places of s of its own, and of those all   *)
(* that have something in A are left.                                      *)
Comes(r, s, A, n, h) ==
    /\ h \in [1..Len(r) -> 1..n]
    /\ \A k \in 1..Len(r) : r[k] = s[h[k]] /\ r[k] \in A
    /\ \A k, l \in 1..Len(r) : h[k] = h[l] => k = l
    /\ \A i \in 1..n : s[i] \in A => \E k \in 1..Len(r) : h[k] = i

(* One place more.                                                         *)
LEMMA ComesMore ==
    ASSUME NEW R, NEW s, NEW A, NEW n \in Nat \ {0}, NEW z \in Seq(R), NEW h, Comes(z, s, A, n - 1, h), s[n] \in R,
           NEW y, s[n] \in A => y = Append(z, s[n]), s[n] \notin A => y = z
    PROVE  y \in Seq(R) /\ \E f : Comes(y, s, A, n, f)
<1>0. Len(z) \in Nat
  BY LenProperties
<1>1. CASE s[n] \notin A
  <2>1. y = z
    BY <1>1
  <2>2. h \in [1..Len(z) -> 1..n]
    BY DEF Comes
  <2>3. Comes(z, s, A, n, h)
    BY <1>1, <2>2 DEF Comes
  <2> QED BY <2>1, <2>3
<1>2. CASE s[n] \in A
  <2> DEFINE m == Len(z) + 1
             f == [k \in 1..m |-> IF k = m THEN n ELSE h[k]]
  <2>1. y = Append(z, s[n])
    BY <1>2
  <2>2. y \in Seq(R) /\ Len(y) = m /\ y[m] = s[n] /\ \A k \in 1..Len(z) : y[k] = z[k]
    BY <2>1, AppendProperties
  <2>3. \A k \in 1..m : k # m => k \in 1..Len(z)
    BY <1>0
  <2>4. f \in [1..m -> 1..n] /\ f[m] = n /\ \A k \in 1..Len(z) : f[k] = h[k] /\ f[k] \in 1..(n - 1)
    <3>1. \A k \in 1..Len(z) : k # m /\ k \in 1..m /\ h[k] \in 1..(n - 1) /\ h[k] \in 1..n
      BY <1>0 DEF Comes
    <3>2. n \in 1..n /\ m \in 1..m
      BY <1>0
    <3> QED BY <2>3, <3>1, <3>2
  <2> HIDE DEF f
  <2>5. \A k \in 1..m : y[k] = s[f[k]] /\ y[k] \in A
    BY <1>2, <2>2, <2>3, <2>4 DEF Comes
  <2>6. \A k, l \in 1..m : f[k] = f[l] => k = l
    <3>1. \A k \in 1..Len(z) : f[k] # n
      BY <2>4
    <3> QED BY <2>3, <2>4, <3>1 DEF Comes
  <2>7. \A i \in 1..n : s[i] \in A => \E k \in 1..m : f[k] = i
    <3> SUFFICES ASSUME NEW i \in 1..n, s[i] \in A PROVE \E k \in 1..m : f[k] = i
      OBVIOUS
    <3>1. CASE i = n
      BY <1>0, <2>4, <3>1
    <3>2. CASE i # n
      <4>1. i \in 1..(n - 1)
        BY <3>2
      <4>2. PICK k \in 1..Len(z) : h[k] = i
        BY <4>1 DEF Comes
      <4> QED BY <1>0, <2>4, <4>2
    <3> QED BY <3>1, <3>2
  <2>8. Comes(y, s, A, n, f)
    BY <2>2, <2>4, <2>5, <2>6, <2>7 DEF Comes
  <2> QED BY <2>2, <2>8
<1> QED BY <1>1, <1>2

(* And so all of them: if not, there is a least number of steps after      *)
(* which it is not so.                                                     *)
LEMMA AmongComes ==
    ASSUME NEW R, NEW s \in Seq(R), NEW A
    PROVE  S!Among(s, A) \in Seq(R) /\ \E h : Comes(S!Among(s, A), s, A, Len(s), h)
<1> DEFINE L == Len(s)
<1>0. L \in Nat
  BY LenProperties
<1>1. PICK g : Picked(g, s, A, L) /\ S!Among(s, A) = g[L]
  BY <1>0, AmongSteps
<1> DEFINE Good(n) == g[n] \in Seq(R) /\ \E h : Comes(g[n], s, A, n, h)
           N == {n \in 0..L : ~Good(n)}
<1>2. \A n \in N : \E k \in N : k < n
  <2> SUFFICES ASSUME NEW n \in N PROVE \E k \in N : k < n
    OBVIOUS
  <2>1. n # 0
    <3>1. g[0] = <<>> /\ <<>> \in Seq(R) /\ Len(<<>>) = 0
      BY <1>1, EmptySeq DEF Picked
    <3>2. Comes(<<>>, s, A, 0, <<>>)
      BY <3>1 DEF Comes
    <3>3. Good(0)
      BY <3>1, <3>2
    <3> QED BY <3>3
  <2>2. n \in 1..L /\ n - 1 \in 0..L /\ n - 1 < n /\ n \in Nat \ {0}
    BY <1>0, <2>1
  <2>3. ASSUME Good(n - 1) PROVE Good(n)
    <3>1. PICK h : Comes(g[n - 1], s, A, n - 1, h)
      BY <2>3
    <3>2. (s[n] \in A => g[n] = Append(g[n - 1], s[n])) /\ (s[n] \notin A => g[n] = g[n - 1])
      BY <1>1, <2>2 DEF Picked
    <3>3. s[n] \in R
      BY <2>2, ElementOfSeq
    <3>4. g[n - 1] \in Seq(R)
      BY <2>3
    <3>5. n \in Nat \ {0}
      BY <2>2
    <3> DEFINE z == g[n - 1]
               y == g[n]
    <3>6. Comes(z, s, A, n - 1, h) /\ z \in Seq(R) /\ (s[n] \in A => y = Append(z, s[n])) /\ (s[n] \notin A => y = z)
      BY <3>1, <3>2, <3>4
    <3> HIDE DEF z, y
    <3>7. y \in Seq(R) /\ \E f : Comes(y, s, A, n, f)
      BY ONLY <3>3, <3>5, <3>6, ComesMore
    <3> QED BY <3>7 DEF y
  <2>4. n - 1 \in N
    BY <2>2, <2>3
  <2> QED BY <2>2, <2>4
<1>3. N = {}
  <2>1. N \in SUBSET Nat
    BY <1>0
  <2> HIDE DEF N
  <2> QED BY <1>2, <2>1, NoLeast
<1>4. Good(L)
  BY <1>0, <1>3
<1> QED BY <1>1, <1>4

-----------------------------------------------------------------------------
(* The same of Joined: its steps,                                          *)
Clashes(x, z, share) == \E k \in 1..Len(z) : S!Overlaps(x, z[k], share)
Added(g, base, more, share, m) ==
    /\ g = [n \in 0..m |-> g[n]] /\ g[0] = base
    /\ \A n \in 1..m : g[n] = IF Clashes(more[n], g[n - 1], share) THEN g[n - 1] ELSE Append(g[n - 1], more[n])

(* of which there is always one more,                                      *)
LEMMA AddedMore ==
    ASSUME NEW base, NEW more, NEW share, NEW m \in Nat \ {0}, NEW g, Added(g, base, more, share, m - 1)
    PROVE  \E h : Added(h, base, more, share, m)
<1> DEFINE x == IF Clashes(more[m], g[m - 1], share) THEN g[m - 1] ELSE Append(g[m - 1], more[m])
           h == [n \in 0..m |-> IF n = m THEN x ELSE g[n]]
<1>1. h = [n \in 0..m |-> h[n]] /\ h[0] = base
  BY DEF Added
<1>2. ASSUME NEW n \in 1..m
      PROVE  h[n] = IF Clashes(more[n], h[n - 1], share) THEN h[n - 1] ELSE Append(h[n - 1], more[n])
  <2>1. n - 1 \in 0..m /\ n - 1 # m /\ n \in 0..m
    OBVIOUS
  <2>2. h[n - 1] = g[n - 1]
    BY <2>1
  <2>3. CASE n = m
    BY <2>1, <2>2, <2>3
  <2>4. CASE n # m
    <3>1. n \in 1..(m - 1) /\ h[n] = g[n]
      BY <2>1, <2>4
    <3> QED BY <2>2, <3>1 DEF Added
  <2> QED BY <2>3, <2>4
<1>3. Added(h, base, more, share, m)
  BY <1>1, <1>2 DEF Added
<1> QED BY <1>3

LEMMA AddedExists ==
    ASSUME NEW base, NEW more, NEW share, NEW m \in Nat
    PROVE  \E g : Added(g, base, more, share, m)
<1> DEFINE N == {n \in Nat : ~\E g : Added(g, base, more, share, n)}
<1>1. \A n \in N : \E k \in N : k < n
  <2> SUFFICES ASSUME NEW n \in N PROVE \E k \in N : k < n
    OBVIOUS
  <2>1. n # 0
    <3> DEFINE g == [i \in 0..0 |-> base]
    <3>1. Added(g, base, more, share, 0)
      BY DEF Added
    <3> QED BY <3>1
  <2>2. n \in Nat \ {0} /\ n - 1 \in Nat /\ n - 1 < n
    BY <2>1
  <2>3. n - 1 \in N
    BY <2>2, AddedMore
  <2> QED BY <2>2, <2>3
<1>2. N = {}
  <2>1. N \in SUBSET Nat
    OBVIOUS
  <2> HIDE DEF N
  <2> QED BY <1>1, <2>1, NoLeast
<1> QED BY <1>2

(* and that it takes them.                                                 *)
LEMMA JoinedSteps ==
    ASSUME NEW base, NEW more, Len(more) \in Nat, NEW share
    PROVE  \E g : Added(g, base, more, share, Len(more)) /\ S!Joined(base, more, share) = g[Len(more)]
<1> DEFINE L == Len(more)
           Is(f) == f = [n \in 0..L |-> IF n = 0 THEN base
                           ELSE IF \E k \in 1..Len(f[n - 1]) : S!Overlaps(more[n], f[n - 1][k], share) THEN f[n - 1]
                           ELSE Append(f[n - 1], more[n])]
           F == CHOOSE f : Is(f)
<1>1. PICK g : Added(g, base, more, share, L)
  BY AddedExists
<1>2. Is(g)
  <2>1. g = [n \in 0..L |-> g[n]]
    BY <1>1 DEF Added
  <2>2. ASSUME NEW n \in 0..L
        PROVE  g[n] = IF n = 0 THEN base
                      ELSE IF \E k \in 1..Len(g[n - 1]) : S!Overlaps(more[n], g[n - 1][k], share) THEN g[n - 1]
                      ELSE Append(g[n - 1], more[n])
    <3>1. CASE n = 0
      BY <1>1, <3>1 DEF Added
    <3>2. CASE n # 0
      <4>1. n \in 1..L
        BY <3>2
      <4> QED BY <1>1, <3>2, <4>1 DEF Added, Clashes
    <3> QED BY <3>1, <3>2
  <2> QED BY <2>1, <2>2
<1>3. Is(F)
  <2> HIDE DEF Is
  <2> QED BY <1>2
<1>4. S!Joined(base, more, share) = F[L]
  BY DEF S!Joined
<1> HIDE DEF F
<1>5. \A n \in 0..L : F[n] = IF n = 0 THEN base
                             ELSE IF Clashes(more[n], F[n - 1], share) THEN F[n - 1] ELSE Append(F[n - 1], more[n])
  BY <1>3, ZenonT(20) DEF Clashes
<1>6. 0 \in 0..L /\ \A n \in 1..L : n \in 0..L /\ n # 0
  OBVIOUS
<1>7. /\ F[0] = base
      /\ \A n \in 1..L : F[n] = IF Clashes(more[n], F[n - 1], share) THEN F[n - 1] ELSE Append(F[n - 1], more[n])
  BY ONLY <1>5, <1>6, Zenon
<1>8. F = [n \in 0..L |-> F[n]]
  <2>1. DOMAIN F = 0..L
    BY <1>3
  <2>2. F = [n \in DOMAIN F |-> F[n]]
    BY <1>3
  <2> QED BY <2>1, <2>2
<1>9. Added(F, base, more, share, L)
  BY <1>7, <1>8 DEF Added
<1> QED BY <1>4, <1>9

(* What is joined begins with base; the others come from places of their   *)
(* own of more, and none has too much in common with one before it.        *)
Joins(r, base, more, share, n, h) ==
    /\ Len(base) <= Len(r) /\ \A k \in 1..Len(base) : r[k] = base[k]
    /\ h \in [Len(base) + 1..Len(r) -> 1..n]
    /\ \A k \in Len(base) + 1..Len(r) : r[k] = more[h[k]] /\ \A j \in 1..k - 1 : ~S!Overlaps(r[k], r[j], share)
    /\ \A k, l \in Len(base) + 1..Len(r) : h[k] = h[l] => k = l

LEMMA JoinsMore ==
    ASSUME NEW R, NEW base \in Seq(R), NEW more, NEW share, NEW n \in Nat \ {0}, NEW z \in Seq(R), NEW h,
           Joins(z, base, more, share, n - 1, h), more[n] \in R,
           NEW y, Clashes(more[n], z, share) => y = z, ~Clashes(more[n], z, share) => y = Append(z, more[n])
    PROVE  y \in Seq(R) /\ \E f : Joins(y, base, more, share, n, f)
<1>0. Len(z) \in Nat /\ Len(base) \in Nat
  BY LenProperties
<1>1. CASE Clashes(more[n], z, share)
  <2>1. y = z
    BY <1>1
  <2>2. h \in [Len(base) + 1..Len(z) -> 1..n]
    BY DEF Joins
  <2>3. Joins(z, base, more, share, n, h)
    BY <2>2 DEF Joins
  <2> QED BY <2>1, <2>3
<1>2. CASE ~Clashes(more[n], z, share)
  <2> DEFINE b == Len(base)
             m == Len(z) + 1
             f == [k \in b + 1..m |-> IF k = m THEN n ELSE h[k]]
  <2>1. y = Append(z, more[n])
    BY <1>2
  <2>2. y \in Seq(R) /\ Len(y) = m /\ y[m] = more[n] /\ \A k \in 1..Len(z) : y[k] = z[k]
    BY <2>1, AppendProperties
  <2>3. b <= Len(z) /\ m \in b + 1..m /\ \A k \in b + 1..m : k # m => k \in b + 1..Len(z) /\ k \in 1..Len(z)
    BY <1>0 DEF Joins
  <2>4. f \in [b + 1..m -> 1..n] /\ f[m] = n /\ \A k \in b + 1..Len(z) : f[k] = h[k] /\ f[k] \in 1..(n - 1)
    <3>1. \A k \in b + 1..Len(z) : k # m /\ k \in b + 1..m /\ h[k] \in 1..(n - 1) /\ h[k] \in 1..n
      BY <1>0 DEF Joins
    <3>2. n \in 1..n
      OBVIOUS
    <3> QED BY <2>3, <3>1, <3>2
  <2> HIDE DEF f
  <2>5. \A k \in b + 1..m : y[k] = more[f[k]] /\ \A j \in 1..k - 1 : ~S!Overlaps(y[k], y[j], share)
    <3> SUFFICES ASSUME NEW k \in b + 1..m PROVE y[k] = more[f[k]] /\ \A j \in 1..k - 1 : ~S!Overlaps(y[k], y[j], share)
      OBVIOUS
    <3>1. \A j \in 1..k - 1 : j \in 1..Len(z) /\ y[j] = z[j]
      BY <1>0, <2>2, <2>3
    <3>2. CASE k = m
      BY <1>2, <2>2, <2>4, <3>1, <3>2 DEF Clashes
    <3>3. CASE k # m
      BY <2>2, <2>3, <2>4, <3>1, <3>3 DEF Joins
    <3> QED BY <3>2, <3>3
  <2>6. \A k, l \in b + 1..m : f[k] = f[l] => k = l
    <3>1. \A k \in b + 1..Len(z) : f[k] # n
      BY <2>4
    <3> QED BY <2>3, <2>4, <3>1 DEF Joins
  <2>7. b <= m /\ \A k \in 1..b : y[k] = base[k]
    <3>1. \A k \in 1..b : k \in 1..Len(z) /\ z[k] = base[k]
      BY <1>0, <2>3 DEF Joins
    <3> QED BY <1>0, <2>2, <2>3, <3>1
  <2>8. Joins(y, base, more, share, n, f)
    BY <2>2, <2>4, <2>5, <2>6, <2>7 DEF Joins
  <2> QED BY <2>2, <2>8
<1> QED BY <1>1, <1>2

LEMMA JoinedJoins ==
    ASSUME NEW R, NEW base \in Seq(R), NEW more \in Seq(R), NEW share
    PROVE  /\ S!Joined(base, more, share) \in Seq(R)
           /\ \E h : Joins(S!Joined(base, more, share), base, more, share, Len(more), h)
<1> DEFINE L == Len(more)
<1>0. L \in Nat /\ Len(base) \in Nat
  BY LenProperties
<1>1. PICK g : Added(g, base, more, share, L) /\ S!Joined(base, more, share) = g[L]
  BY <1>0, JoinedSteps
<1> DEFINE Good(n) == g[n] \in Seq(R) /\ \E h : Joins(g[n], base, more, share, n, h)
           N == {n \in 0..L : ~Good(n)}
<1>2. \A n \in N : \E k \in N : k < n
  <2> SUFFICES ASSUME NEW n \in N PROVE \E k \in N : k < n
    OBVIOUS
  <2>1. n # 0
    <3>1. g[0] = base
      BY <1>1 DEF Added
    <3> DEFINE e == [k \in Len(base) + 1..Len(base) |-> 0]
    <3>2. Joins(base, base, more, share, 0, e)
      BY <1>0 DEF Joins
    <3>3. Good(0)
      BY <3>1, <3>2
    <3> QED BY <3>3
  <2>2. n \in 1..L /\ n - 1 \in 0..L /\ n - 1 < n /\ n \in Nat \ {0}
    BY <1>0, <2>1
  <2>3. ASSUME Good(n - 1) PROVE Good(n)
    <3>1. PICK h : Joins(g[n - 1], base, more, share, n - 1, h)
      BY <2>3
    <3>2. g[n] = IF Clashes(more[n], g[n - 1], share) THEN g[n - 1] ELSE Append(g[n - 1], more[n])
      BY <1>1, <2>2 DEF Added
    <3>3. more[n] \in R
      BY <2>2, ElementOfSeq
    <3>4. g[n - 1] \in Seq(R)
      BY <2>3
    <3>5. n \in Nat \ {0}
      BY <2>2
    <3> DEFINE z == g[n - 1]
               y == g[n]
    <3>6. /\ Joins(z, base, more, share, n - 1, h) /\ z \in Seq(R)
          /\ (Clashes(more[n], z, share) => y = z) /\ (~Clashes(more[n], z, share) => y = Append(z, more[n]))
      BY <3>1, <3>2, <3>4
    <3> HIDE DEF z, y
    <3>7. y \in Seq(R) /\ \E f : Joins(y, base, more, share, n, f)
      BY ONLY base \in Seq(R), <3>3, <3>5, <3>6, JoinsMore
    <3> QED BY <3>7 DEF y
  <2>4. n - 1 \in N
    BY <2>2, <2>3
  <2> QED BY <2>2, <2>4
<1>3. N = {}
  <2>1. N \in SUBSET Nat
    BY <1>0
  <2> HIDE DEF N
  <2> QED BY <1>2, <2>1, NoLeast
<1>4. Good(L)
  BY <1>0, <1>3
<1> QED BY <1>1, <1>4

-----------------------------------------------------------------------------
(***************************************************************************)
(* The picture. It shows all of the screen or of the crop, at its size; or *)
(* smaller, as wide as the limit and as high as that makes it; or, if it   *)
(* is higher than wide, upended.                                           *)
(***************************************************************************)
Whole(r)  == r.x \in Int /\ r.y \in Int /\ r.w \in Int /\ r.h \in Int
Framed(r) == r.x \in Nat /\ r.y \in Nat /\ r.w \in Nat \ {0} /\ r.h \in Nat \ {0}
PicInv ==
    /\ Framed(pic.from) /\ pic.w \in Nat \ {0} /\ pic.h \in Nat \ {0}
    /\ pic.num \in Nat \ {0} /\ pic.den \in Nat \ {0}
    /\ \/ pic.w = pic.from.w /\ pic.h = pic.from.h /\ pic.num = 1 /\ pic.den = 1
       \/ /\ pic.w < pic.from.w /\ pic.num = pic.w /\ pic.den = pic.from.w
          /\ pic.h = S!Most(1, S!Round(pic.from.h * pic.w, pic.from.w))
       \/ ~S!Upright

(* A crop, and that of a window, is a part of the screen.                  *)
LEMMA CroppedIs ==
    ASSUME NEW m, Sized(m), m.w > 0, m.h > 0, S!Monitor = m, NEW c, Sized(c), c.x >= 0, c.y >= 0
    PROVE  S!Cropped(c) # None => Framed(S!Cropped(c))
<1> DEFINE r == [x |-> c.x, y |-> c.y, w |-> S!Least(c.w, m.w - c.x), h |-> S!Least(c.h, m.h - c.y)]
<1>1. SUFFICES ASSUME S!Cropped(c) # None PROVE Framed(S!Cropped(c))
  OBVIOUS
<1>2. S!Cropped(c) = r /\ c.x < m.w /\ c.y < m.h /\ c.w > 0 /\ c.h > 0
  BY <1>1 DEF S!Cropped, S!Rect
<1>3. r.x = c.x /\ r.y = c.y /\ r.w = S!Least(c.w, m.w - c.x) /\ r.h = S!Least(c.h, m.h - c.y)
  OBVIOUS
<1> HIDE DEF r
<1>4. Framed(r)
  BY <1>2, <1>3 DEF Framed, Sized, S!Least
<1> QED BY <1>2, <1>4

LEMMA WindowCropIs ==
    ASSUME NEW m, Sized(m), m.w > 0, m.h > 0, S!Monitor = m, NEW win, Sized(win), S!WindowCrop(win) # None,
           NEW c, c = S!WindowCrop(win)
    PROVE  /\ Sized(c) /\ c.x >= 0 /\ c.y >= 0 /\ c.w > 0 /\ c.h > 0
           /\ c.x = S!Most(win.x - m.x, 0) /\ c.w = S!Least(win.w, m.w - c.x) /\ c.x < m.w
           /\ c.y = S!Most(win.y - m.y, 0) /\ c.h = S!Least(win.h, m.h - c.y) /\ c.y < m.h
<1> DEFINE x == S!Most(win.x - m.x, 0)
           y == S!Most(win.y - m.y, 0)
           w == S!Least(win.w, S!Most(m.w - x, 0))
           h == S!Least(win.h, S!Most(m.h - y, 0))
<1>1. c = [x |-> x, y |-> y, w |-> w, h |-> h] /\ w > 0 /\ h > 0
  BY DEF S!WindowCrop, S!Rect
<1>2. c.x = x /\ c.y = y /\ c.w = w /\ c.h = h
  BY <1>1
<1>3. x \in Nat /\ y \in Nat
  BY DEF Sized, S!Most
<1> HIDE DEF x, y
<1>4. w \in Nat /\ h \in Nat /\ x < m.w /\ y < m.h /\ w = S!Least(win.w, m.w - x) /\ h = S!Least(win.h, m.h - y)
  BY <1>1, <1>3 DEF Sized, S!Most, S!Least
<1> HIDE DEF w, h
<1> QED BY <1>1, <1>2, <1>3, <1>4 DEF Sized, x, y

(* What is scaled down is not larger, nor is it nothing.                   *)
LEMMA ScaledIs ==
    ASSUME NEW w \in Nat \ {0}, NEW h \in Nat \ {0}, shot.max # None => shot.max \in Nat,
           NEW new, new = S!Scaled(w, h)
    PROVE  /\ new.w \in Nat \ {0} /\ new.h \in Nat \ {0}
           /\ \/ new.w = w /\ new.h = h
              \/ w >= h /\ new.w < w /\ new.h = S!Most(1, S!Round(h * new.w, w))
              \/ w < h /\ new.w * h # new.h * w
<1> DEFINE max == CASE shot.max = None -> S!Default [] shot.max # None -> shot.max
<1>1. max \in Nat
  BY DEF S!Default
<1>2. new = IF max = 0 \/ (w <= max /\ h <= max) THEN [w |-> w, h |-> h]
            ELSE IF w >= h THEN [w |-> max, h |-> S!Most(1, S!Round(h * max, w))]
            ELSE [w |-> S!Most(1, S!Round(w * max, w)), h |-> max]
  BY DEF S!Scaled
<1> HIDE DEF max
<1>3. CASE max = 0 \/ (w <= max /\ h <= max)
  BY <1>2, <1>3
<1>4. CASE max # 0 /\ ~(w <= max /\ h <= max) /\ w >= h
  <2>1. new.w = max /\ new.h = S!Most(1, S!Round(h * max, w)) /\ max < w
    BY <1>1, <1>2, <1>4
  <2> DEFINE a == h * max
  <2>2. a \in Nat
    BY <1>1
  <2> HIDE DEF a
  <2>3. S!Round(a, w) \in Nat
    BY <2>2, RoundIs
  <2>4. new.h = S!Most(1, S!Round(a, w))
    BY <2>1 DEF a
  <2>5. new.h \in Nat \ {0}
    BY <2>3, <2>4 DEF S!Most
  <2> QED BY <1>1, <1>4, <2>1, <2>5
<1>5. CASE max # 0 /\ ~(w <= max /\ h <= max) /\ w < h
  <2> DEFINE r == S!Round(w * max, w)
  <2>1. new.w = S!Most(1, r) /\ new.h = max
    BY <1>2, <1>5
  <2>2. w * max \in Nat
    BY <1>1
  <2>3. r \in Nat /\ 2 * (w * r) <= 2 * (w * max) + w /\ 2 * (w * max) < 2 * (w * r) + w
    BY <2>2, RoundIs
  <2> HIDE DEF r
  <2>4. r = max
    BY <1>1, <2>3
  <2>5. new.w = max
    BY <1>1, <1>5, <2>1, <2>4 DEF S!Most
  <2>6. max * h # max * w
    BY <1>1, <1>5
  <2> QED BY <1>1, <1>5, <2>1, <2>5, <2>6
<1> QED BY <1>1, <1>3, <1>4, <1>5

(* The window named is where the picture shows it, or is all of the screen. *)
WindowInv == shot.crop = None /\ shot.window # None =>
                 S!Shared(shot.window, S!Region) = S!Shared(shot.window, S!Monitor)

LEMMA TakesPicture ==
    ASSUME ShotsAssumption, shot \in Shots, S!ProcessImage
    PROVE  PicInv' /\ WindowInv' /\ step' = "look"
<1> DEFINE m == shot.monitor
           asked == IF shot.crop = None /\ shot.window # None THEN S!WindowCrop(shot.window) ELSE shot.crop
           crop == S!Cropped(asked)
           size == IF crop = None THEN S!Whole ELSE crop
           new == S!Scaled(size.w, size.h)
           same == new.w = size.w /\ new.h = size.h
<1>1. /\ pic' = [w |-> new.w, h |-> new.h, crop |-> crop, from |-> size,
                 num |-> IF same THEN 1 ELSE new.w, den |-> IF same THEN 1 ELSE size.w]
      /\ step' = "look" /\ shot' = shot
  BY DEF S!ProcessImage
<1>2. /\ Sized(m) /\ m.w > 0 /\ m.h > 0 /\ S!Monitor = m
      /\ shot.max # None => shot.max \in Nat
      /\ shot.crop # None => Sized(shot.crop) /\ shot.crop.x >= 0 /\ shot.crop.y >= 0
      /\ shot.window # None => Sized(shot.window)
  BY DEF ShotsAssumption, S!Monitor
<1>3. S!Whole = [x |-> 0, y |-> 0, w |-> m.w, h |-> m.h]
  BY DEF S!Whole, S!Rect, S!Monitor
<1>4. crop # None => asked # None
  BY DEF S!Cropped
<1> HIDE DEF m
<1>5. Framed(size)
  <2>1. CASE crop = None
    BY <1>2, <1>3, <2>1 DEF Framed, Sized
  <2>2. CASE crop # None
    <3>1. Sized(asked) /\ asked.x >= 0 /\ asked.y >= 0
      <4>1. CASE shot.crop = None /\ shot.window # None
        <5>1. asked = S!WindowCrop(shot.window)
          BY <4>1
        <5> HIDE DEF asked
        <5> QED BY <1>2, <1>4, <2>2, <4>1, <5>1, WindowCropIs
      <4>2. CASE ~(shot.crop = None /\ shot.window # None)
        BY <1>2, <1>4, <2>2, <4>2
      <4> QED BY <4>1, <4>2
    <3> HIDE DEF asked
    <3>2. Framed(crop)
      BY <1>2, <2>2, <3>1, CroppedIs
    <3> QED BY <2>2, <3>2
  <2> QED BY <2>1, <2>2
<1>6. WindowInv'
  <2> SUFFICES ASSUME shot.crop = None, shot.window # None
               PROVE  S!Shared(shot.window, S!Region)' = S!Shared(shot.window, S!Monitor)'
    BY <1>1 DEF WindowInv
  <2> DEFINE win == shot.window
             r == [x |-> m.x + size.x, y |-> m.y + size.y, w |-> size.w, h |-> size.h]
  <2>1. S!Region' = r /\ S!Monitor' = m
    BY <1>1 DEF S!Region, S!Rect, S!Monitor, m
  <2>2. Sized(win) /\ asked = S!WindowCrop(win)
    BY <1>2
  <2>3. /\ S!Span(win.x, win.w, r.x, r.w) = S!Span(win.x, win.w, m.x, m.w)
        /\ S!Span(win.y, win.h, r.y, r.h) = S!Span(win.y, win.h, m.y, m.h)
    <3>1. r.x = m.x + size.x /\ r.y = m.y + size.y /\ r.w = size.w /\ r.h = size.h
      OBVIOUS
    <3>2. CASE crop = None
      <4>1. r.x = m.x /\ r.y = m.y /\ r.w = m.w /\ r.h = m.h
        BY <1>2, <1>3, <3>1, <3>2 DEF Sized
      <4> QED BY <4>1
    <3>3. CASE crop # None
      <4>1. asked # None
        BY <1>4, <3>3
      <4> HIDE DEF asked, win
      <4>2. /\ Sized(asked) /\ asked.x >= 0 /\ asked.y >= 0 /\ asked.w > 0 /\ asked.h > 0
            /\ asked.x = S!Most(win.x - m.x, 0) /\ asked.w = S!Least(win.w, m.w - asked.x) /\ asked.x < m.w
            /\ asked.y = S!Most(win.y - m.y, 0) /\ asked.h = S!Least(win.h, m.h - asked.y) /\ asked.y < m.h
        BY <1>2, <2>2, <4>1, WindowCropIs
      <4>3. crop = [x |-> asked.x, y |-> asked.y, w |-> S!Least(asked.w, m.w - asked.x), h |-> S!Least(asked.h, m.h - asked.y)]
        BY <1>2, <3>3 DEF S!Cropped, S!Rect
      <4>4. /\ size.x = asked.x /\ size.y = asked.y
            /\ size.w = S!Least(asked.w, m.w - asked.x) /\ size.h = S!Least(asked.h, m.h - asked.y)
        BY <3>3, <4>3
      <4>5. S!Least(asked.w, m.w - asked.x) = asked.w /\ S!Least(asked.h, m.h - asked.y) = asked.h
        BY <1>2, <2>2, <4>2 DEF S!Least, Sized
      <4>6. /\ r.x = m.x + asked.x /\ r.w = asked.w
            /\ r.y = m.y + asked.y /\ r.h = asked.h
        BY <3>1, <4>4, <4>5
      <4> HIDE DEF r, crop
      <4>7. S!Span(win.x, win.w, m.x + asked.x, asked.w) = S!Span(win.x, win.w, m.x, m.w)
        <5>1. m.x \in Int /\ m.w \in Nat /\ m.w > 0 /\ win.x \in Int /\ win.w \in Nat
          BY <1>2, <2>2 DEF Sized
        <5>2. asked.x = S!Most(win.x - m.x, 0) /\ asked.w = S!Least(win.w, m.w - asked.x) /\ asked.x < m.w
          BY <4>2
        <5> QED BY ONLY <5>1, <5>2 DEF S!Span, S!Most, S!Least
      <4>8. S!Span(win.y, win.h, m.y + asked.y, asked.h) = S!Span(win.y, win.h, m.y, m.h)
        <5>1. m.y \in Int /\ m.h \in Nat /\ m.h > 0 /\ win.y \in Int /\ win.h \in Nat
          BY <1>2, <2>2 DEF Sized
        <5>2. asked.y = S!Most(win.y - m.y, 0) /\ asked.h = S!Least(win.h, m.h - asked.y) /\ asked.y < m.h
          BY <4>2
        <5> QED BY ONLY <5>1, <5>2 DEF S!Span, S!Most, S!Least
      <4> QED BY <4>6, <4>7, <4>8
    <3> QED BY <3>2, <3>3
  <2> HIDE DEF r
  <2>4. S!Shared(win, r) = S!Shared(win, m)
    BY <2>3 DEF S!Shared
  <2>5. S!Shared(shot.window, S!Region)' = S!Shared(win, r) /\ S!Shared(shot.window, S!Monitor)' = S!Shared(win, m)
    BY <1>1, <2>1 DEF S!Shared
  <2> QED BY <2>4, <2>5
<1>7. PicInv'
  <2> DEFINE p == pic'
  <2>1. /\ p.from = size /\ p.w = new.w /\ p.h = new.h
        /\ p.num = (IF same THEN 1 ELSE new.w) /\ p.den = (IF same THEN 1 ELSE size.w)
    BY <1>1
  <2> HIDE DEF p, size
  <2>2. size.w \in Nat \ {0} /\ size.h \in Nat \ {0}
    BY <1>5 DEF Framed
  <2>3. /\ new.w \in Nat \ {0} /\ new.h \in Nat \ {0}
        /\ \/ new.w = size.w /\ new.h = size.h
           \/ size.w >= size.h /\ new.w < size.w /\ new.h = S!Most(1, S!Round(size.h * new.w, size.w))
           \/ size.w < size.h /\ new.w * size.h # new.h * size.w
    BY <1>2, <2>2, ScaledIs
  <2> HIDE DEF new
  <2>4. /\ Framed(p.from) /\ p.w \in Nat \ {0} /\ p.h \in Nat \ {0} /\ p.num \in Nat \ {0} /\ p.den \in Nat \ {0}
    BY <1>5, <2>1, <2>2, <2>3
  <2>5. \/ p.w = p.from.w /\ p.h = p.from.h /\ p.num = 1 /\ p.den = 1
        \/ /\ p.w < p.from.w /\ p.num = p.w /\ p.den = p.from.w
           /\ p.h = S!Most(1, S!Round(p.from.h * p.w, p.from.w))
        \/ p.from.w < p.from.h /\ p.w * p.from.h # p.h * p.from.w
    BY <2>1, <2>2, <2>3
  <2>6. S!Upright' <=> p.w * p.from.h = p.h * p.from.w \/ p.from.w >= p.from.h
    BY DEF S!Upright, p
  <2>7. p.from.w \in Nat /\ p.from.h \in Nat
    BY <2>1, <2>2
  <2>8. \/ p.w = p.from.w /\ p.h = p.from.h /\ p.num = 1 /\ p.den = 1
        \/ /\ p.w < p.from.w /\ p.num = p.w /\ p.den = p.from.w
           /\ p.h = S!Most(1, S!Round(p.from.h * p.w, p.from.w))
        \/ ~S!Upright'
    BY <2>5, <2>6, <2>7
  <2> QED BY <2>4, <2>8 DEF PicInv, p
<1> QED BY <1>1, <1>6, <1>7

-----------------------------------------------------------------------------
(***************************************************************************)
(* What is looked at: where each thing is on it.                           *)
(***************************************************************************)
SpotInv == spots = [i \in 1..Len(shot.things) |-> S!OnPicture(i)]

LEMMA Looks ==
    ASSUME S!Look
    PROVE  SpotInv' /\ step' = "detect"
<1>1. shot' = shot /\ pic' = pic /\ step' = "detect" /\ spots' = [i \in 1..Len(shot.things) |-> S!OnPicture(i)]
  BY DEF S!Look
<1>2. S!LookSize' = S!LookSize /\ S!Region' = S!Region
  BY <1>1 DEF S!LookSize, S!Region, S!Monitor
<1>3. ASSUME NEW i PROVE S!OnPicture(i)' = S!OnPicture(i)
  BY <1>1, <1>2 DEF S!OnPicture, S!Thing
<1>4. [i \in 1..Len(shot.things) |-> S!OnPicture(i)]' = [i \in 1..Len(shot.things) |-> S!OnPicture(i)]
  BY <1>1, <1>3
<1> QED BY <1>1, <1>4 DEF SpotInv

(* How large that is: no larger than the picture.                          *)
LEMMA LookIs ==
    ASSUME PicInv
    PROVE  /\ S!LookSize.w \in Nat \ {0} /\ S!LookSize.h \in Nat \ {0}
           /\ S!LookSize.w <= pic.w /\ S!LookSize.h <= pic.h
           /\ pic.w <= S!Detection => S!LookSize.w = pic.w /\ S!LookSize.h = pic.h
<1> DEFINE p == pic.w
           q == pic.h
           l == S!LookSize
<1>1. p \in Nat \ {0} /\ q \in Nat \ {0}
  BY DEF PicInv
<1>2. l = IF p > 1280 THEN [w |-> 1280, h |-> S!Most(1, S!Round(q * 1280, p))] ELSE [w |-> p, h |-> q]
  BY DEF S!LookSize, S!Detection
<1> HIDE DEF l, p, q
<1>3. CASE p > 1280
  <2> DEFINE a == q * 1280
             r == S!Round(a, p)
  <2>1. a \in Nat
    BY <1>1
  <2>2. r \in Nat /\ 2 * (p * r) <= 2 * a + p
    BY <1>1, <2>1, RoundIs
  <2>3. l.w = 1280 /\ l.h = S!Most(1, r)
    BY <1>2, <1>3
  <2> HIDE DEF r
  <2>4. r <= q
    BY <1>1, <1>3, <2>2
  <2> QED BY <1>1, <1>3, <2>2, <2>3, <2>4 DEF S!Most, p, q, l, S!Detection
<1>4. CASE ~(p > 1280)
  BY <1>1, <1>2, <1>4 DEF p, q, l, S!Detection
<1> QED BY <1>3, <1>4

(* A picture that was not upended is in proportion, to half a pixel.       *)
LEMMA Proportion ==
    ASSUME PicInv, S!Upright
    PROVE  /\ pic.w <= pic.from.w
           /\ 24 <= pic.h => pic.h <= pic.from.h /\ Near(2 * (pic.from.w * pic.h), 2 * (pic.from.h * pic.w), pic.from.w)
<1> DEFINE p == pic.w
           q == pic.h
           w == pic.from.w
           h == pic.from.h
<1>1. /\ p \in Nat \ {0} /\ q \in Nat \ {0} /\ w \in Nat \ {0} /\ h \in Nat \ {0}
      /\ (p = w /\ q = h) \/ (p < w /\ q = S!Most(1, S!Round(h * p, w)))
  BY DEF PicInv, Framed
<1> HIDE DEF p, q, w, h
<1>2. CASE p = w /\ q = h
  BY <1>1, <1>2 DEF p, q, w, h, Near
<1>3. CASE p < w /\ q = S!Most(1, S!Round(h * p, w))
  <2> DEFINE a == h * p
             r == S!Round(a, w)
  <2>1. a \in Nat
    BY <1>1
  <2>2. r \in Nat /\ 2 * (w * r) <= 2 * a + w /\ 2 * a < 2 * (w * r) + w
    BY <1>1, <2>1, RoundIs
  <2> HIDE DEF r
  <2>3. 24 <= q => q = r
    BY <1>3, <2>2 DEF S!Most, r
  <2>4. r <= h
    <3>1. h * p <= h * w
      BY <1>1, <1>3
    <3> QED BY <1>1, <2>2, <3>1
  <2>5. Near(2 * (w * r), 2 * a, w)
    BY <1>1, <2>1, <2>2 DEF Near
  <2>6. 24 <= q => q <= h /\ Near(2 * (w * q), 2 * (h * p), w)
    BY <2>3, <2>4, <2>5
  <2> QED BY <1>1, <1>3, <2>6 DEF p, q, w, h
<1> QED BY <1>1, <1>2, <1>3

-----------------------------------------------------------------------------
(***************************************************************************)
(* One axis: the sizes H of the screen, Q of the picture, M of what is     *)
(* looked at, and the scale from W to P, reported as num to den.           *)
(***************************************************************************)
Sizes(H, Q, M, W, P, num, den) ==
    /\ H \in Nat /\ Q \in Nat /\ M \in Nat \ {0} /\ W \in Nat \ {0} /\ P \in Nat \ {0}
    /\ num \in Nat \ {0} /\ den \in Nat \ {0}
    /\ 24 <= Q /\ Q <= H /\ M <= Q /\ P <= W /\ Near(2 * (W * Q), 2 * (H * P), W)
    /\ P <= S!Detection => M = Q
    /\ (num = 1 /\ den = 1 /\ P = W) \/ (num = P /\ den = W)

(* From what is looked at to the picture, and from there to the screen.    *)
ToPicture(B, Q, M, P) == IF P <= S!Detection THEN B ELSE S!Round(B * Q, M)

LEMMA Carried ==
    ASSUME NEW H, NEW Q, NEW M, NEW W, NEW P, NEW num, NEW den, Sizes(H, Q, M, W, P, num, den),
           NEW B \in Nat, B <= M
    PROVE  LET u == S!Round(ToPicture(B, Q, M, P) * den, num) IN u \in Nat /\ Near(M * u, H * B, 2 * H)
<1> DEFINE q == ToPicture(B, Q, M, P)
           u == S!Round(q * den, num)
<1>1. q \in Nat /\ Near(2 * (M * q), 2 * (B * Q), M)
  <2>1. CASE P <= S!Detection
    <3>1. q = B /\ M = Q
      BY <2>1 DEF ToPicture, Sizes
    <3> QED BY <3>1 DEF Sizes, Near
  <2>2. CASE ~(P <= S!Detection)
    <3> DEFINE a == B * Q
    <3>1. a \in Nat /\ M \in Nat \ {0}
      BY DEF Sizes
    <3>2. q = S!Round(a, M)
      BY <2>2 DEF ToPicture
    <3>3. q \in Nat /\ 2 * (M * q) <= 2 * a + M /\ 2 * a < 2 * (M * q) + M
      BY <3>1, <3>2, RoundIs
    <3> QED BY <3>1, <3>3 DEF Near
  <2> QED BY <2>1, <2>2
<1> HIDE DEF q
<1>2. u \in Nat /\ Near(2 * (P * u), 2 * (q * W), P)
  <2> DEFINE a == q * den
  <2>1. a \in Nat /\ num \in Nat \ {0}
    BY <1>1 DEF Sizes
  <2>2. u = S!Round(a, num)
    OBVIOUS
  <2>3. u \in Nat /\ 2 * (num * u) <= 2 * a + num /\ 2 * a < 2 * (num * u) + num
    BY <2>1, <2>2, RoundIs
  <2> HIDE DEF u
  <2>4. CASE num = 1 /\ den = 1 /\ P = W
    <3>1. u = q
      BY <1>1, <2>3, <2>4
    <3> QED BY <1>1, <2>4, <3>1 DEF Near, Sizes
  <2>5. CASE num = P /\ den = W
    BY <1>1, <2>1, <2>3, <2>5 DEF Near, Sizes
  <2> QED BY <2>3, <2>4, <2>5 DEF Sizes
<1> HIDE DEF u
<1>3. Near(M * u, H * B, 2 * H)
  BY <1>1, <1>2, ThereAndBack DEF Sizes
<1> QED BY <1>2, <1>3 DEF u, q

(* What a thing covers of the axis, and its blocks.                        *)
Offset(l, f)       == S!Most(l, f) - f
Ending(l, k, f, H) == S!Least(l + k, f + H) - f
Shaded(H, M, l, k, f, lo, n) ==
    /\ H \in Nat \ {0} /\ M \in Nat \ {0} /\ l \in Int /\ k \in Nat /\ f \in Int /\ l < f + H /\ l + k > f
    /\ lo = S!Nearest(Offset(l, f) * M, H) /\ n = S!Nearest(Ending(l, k, f, H) * M, H) - lo /\ n > 0

LEMMA Shades ==
    ASSUME NEW H, NEW M, NEW l, NEW k, NEW f, NEW lo, NEW n, Shaded(H, M, l, k, f, lo, n),
           NEW a, a = Offset(l, f), NEW b, b = Ending(l, k, f, H)
    PROVE  /\ a \in Nat /\ b \in Nat /\ a <= b /\ b <= H /\ lo \in Nat /\ n \in Nat /\ lo + n <= M
           /\ Near(2 * (M * a), 2 * (H * lo), H) /\ Near(2 * (M * b), 2 * (H * (lo + n)), H)
<1>0. H \in Nat \ {0} /\ M \in Nat \ {0} /\ l \in Int /\ k \in Nat /\ f \in Int /\ l < f + H /\ l + k > f /\ n > 0
  BY DEF Shaded
<1> DEFINE e == S!Nearest(b * M, H)
<1>1. a \in Nat /\ b \in Nat /\ a <= b /\ b <= H
  BY <1>0 DEF S!Most, S!Least, Offset, Ending
<1> DEFINE x == a * M
           y == b * M
<1>2. x \in Nat /\ y \in Nat /\ x <= M * H /\ y <= M * H
  BY <1>0, <1>1
<1>3. lo = S!Nearest(x, H) /\ e = S!Nearest(y, H) /\ n = e - lo
  BY DEF Shaded
<1> HIDE DEF e
<1>4. /\ lo \in Nat /\ 2 * (H * lo) < 2 * x + H /\ 2 * x <= 2 * (H * lo) + H
      /\ e \in Nat /\ 2 * (H * e) < 2 * y + H /\ 2 * y <= 2 * (H * e) + H
  BY <1>0, <1>2, <1>3, NearestIs
<1>5. e <= M
  <2> HIDE DEF x, y
  <2>1. e * H < (M + 1) * H
    BY <1>0, <1>2, <1>4
  <2>2. e < M + 1
    BY <1>0, <1>4, <2>1, CancelLess
  <2> QED BY <1>0, <1>4, <2>2
<1>6. Near(2 * (M * a), 2 * (H * lo), H) /\ Near(2 * (M * b), 2 * (H * e), H)
  BY <1>0, <1>1, <1>4 DEF Near
<1>7. n \in Nat /\ e = lo + n
  BY <1>0, <1>3, <1>4
<1> QED BY <1>1, <1>4, <1>5, <1>6, <1>7

-----------------------------------------------------------------------------
(***************************************************************************)
(* The blocks. Along one axis, of M pixels, how many of block c are in the *)
(* outline of what is n pixels from lo, grown by k.                        *)
(***************************************************************************)
Across(lo, n, M, c, k) ==
    S!Span(S!From(lo) - k, S!To(lo, n, M) - S!From(lo) + 2 * k - 1, c * S!Block, S!Least(S!Block, M - c * S!Block))
Seat(lo, n, M) == lo \in Nat /\ n \in Nat \ {0} /\ M \in Nat \ {0} /\ lo + n <= M
Block(M, c)    == c \in Nat /\ c * S!Block < M

Overlap(a, b, x, y) == S!Most(0, S!Least(b, y) - S!Most(a, x))
LEMMA AcrossIs ==
    ASSUME NEW lo, NEW n, NEW M, NEW c, Seat(lo, n, M), Block(M, c), NEW k \in Int,
           NEW f, f = IF lo = 0 THEN -16 ELSE lo, NEW t, t = IF lo + n = M THEN M + 16 ELSE lo + n,
           NEW e, e = IF M - 16 * c < 16 THEN M ELSE 16 * c + 16
    PROVE  /\ f \in Int /\ t \in Int /\ e \in Int /\ 16 * c < e /\ e <= 16 * c + 16
           /\ Across(lo, n, M, c, k) = Overlap(f - k, t + k - 1, 16 * c, e)
<1>1. /\ lo \in Nat /\ n \in Nat \ {0} /\ M \in Nat \ {0} /\ lo + n <= M /\ c \in Nat /\ 16 * c < M
  BY DEF Seat, Block, S!Block
<1>2. f \in Int /\ t \in Int /\ e \in Int /\ 16 * c < e /\ e <= 16 * c + 16
  BY <1>1
<1>3. S!From(lo) = f /\ S!To(lo, n, M) = t /\ c * S!Block = 16 * c
  BY <1>1 DEF S!From, S!To, S!Block
<1>4. S!Least(S!Block, M - 16 * c) = e - 16 * c
  BY <1>1 DEF S!Least, S!Block
<1>5. Across(lo, n, M, c, k) = S!Span(f - k, t - f + 2 * k - 1, 16 * c, e - 16 * c)
  BY <1>3, <1>4 DEF Across
<1>6. (f - k) + (t - f + 2 * k - 1) = t + k - 1 /\ 16 * c + (e - 16 * c) = e
  BY <1>1, <1>2
<1> QED BY <1>2, <1>5, <1>6 DEF S!Span, Overlap

(* It is more of one that is grown more.                                   *)
LEMMA Grows ==
    ASSUME NEW lo, NEW n, NEW M, NEW c, Seat(lo, n, M), Block(M, c), NEW j \in Int, NEW k \in Int, j <= k
    PROVE  Across(lo, n, M, c, j) \in Nat /\ Across(lo, n, M, c, k) \in Nat
           /\ Across(lo, n, M, c, j) <= Across(lo, n, M, c, k)
<1> DEFINE f == IF lo = 0 THEN -16 ELSE lo
           t == IF lo + n = M THEN M + 16 ELSE lo + n
           e == IF M - 16 * c < 16 THEN M ELSE 16 * c + 16
<1>1. /\ f \in Int /\ t \in Int /\ e \in Int /\ 16 * c \in Int
      /\ Across(lo, n, M, c, j) = Overlap(f - j, t + j - 1, 16 * c, e)
      /\ Across(lo, n, M, c, k) = Overlap(f - k, t + k - 1, 16 * c, e)
  BY AcrossIs DEF Block
<1> HIDE DEF f, t, e
<1> QED BY <1>1 DEF Overlap, S!Most, S!Least

(* Where a side is, more of what is about the thing than of what is within *)
(* it, as at its corner;                                                   *)
Side(lo, n, M, c) == (lo # 0 /\ c = (lo - 1) \div 16) \/ (lo + n # M /\ c = (lo + n - 1) \div 16)
LEMMA SideIs ==
    ASSUME NEW lo, NEW n, NEW M, NEW c, Seat(lo, n, M), Side(lo, n, M, c)
    PROVE  Block(M, c) /\ Across(lo, n, M, c, 0) + 1 <= Across(lo, n, M, c, 1)
<1>1. lo \in Nat /\ n \in Nat \ {0} /\ M \in Nat \ {0} /\ lo + n <= M
  BY DEF Seat
<1>2. c \in Nat /\ ((lo # 0 /\ 16 * c <= lo - 1 /\ lo - 1 <= 16 * c + 15)
                    \/ (lo + n # M /\ 16 * c <= lo + n - 1 /\ lo + n - 1 <= 16 * c + 15))
  BY <1>1 DEF Side
<1>3. Block(M, c)
  BY <1>1, <1>2 DEF Block, S!Block
<1> DEFINE f == IF lo = 0 THEN -16 ELSE lo
           t == IF lo + n = M THEN M + 16 ELSE lo + n
           e == IF M - 16 * c < 16 THEN M ELSE 16 * c + 16
<1>4. /\ Across(lo, n, M, c, 0) = Overlap(f - 0, t + 0 - 1, 16 * c, e)
      /\ Across(lo, n, M, c, 1) = Overlap(f - 1, t + 1 - 1, 16 * c, e)
  BY <1>3, AcrossIs
<1> QED BY <1>1, <1>2, <1>3, <1>4 DEF Overlap, S!Most, S!Least

LEMMA CornerIs ==
    ASSUME NEW lo, NEW n, NEW M, NEW c, Seat(lo, n, M), Block(M, c),
           c * S!Block <= S!From(lo) - 1, S!From(lo) - 1 < c * S!Block + S!Least(S!Block, M - c * S!Block)
    PROVE  Across(lo, n, M, c, 0) + 1 <= Across(lo, n, M, c, 1)
<1>1. lo \in Nat /\ n \in Nat \ {0} /\ M \in Nat \ {0} /\ lo + n <= M /\ c \in Nat
  BY DEF Seat, Block
<1>2. lo # 0 /\ 16 * c <= lo - 1 /\ lo - 1 < 16 * c + 16
  BY <1>1 DEF S!From, S!Block, S!Least
<1>3. Block(M, c)
  OBVIOUS
<1> DEFINE f == IF lo = 0 THEN -16 ELSE lo
           t == IF lo + n = M THEN M + 16 ELSE lo + n
           e == IF M - 16 * c < 16 THEN M ELSE 16 * c + 16
<1>4. /\ Across(lo, n, M, c, 0) = Overlap(f - 0, t + 0 - 1, 16 * c, e)
      /\ Across(lo, n, M, c, 1) = Overlap(f - 1, t + 1 - 1, 16 * c, e)
  BY <1>3, AcrossIs
<1> QED BY <1>1, <1>2, <1>4 DEF Overlap, S!Most, S!Least

(* and there are blocks of which a side that is across them has six pixels. *)
Long(lo, n, M, c) == c = (lo + 12) \div 16 \/ (lo = 0 /\ c = 0) \/ (lo + n = M /\ c = (M - 6) \div 16)
LEMMA LongIs ==
    ASSUME NEW lo, NEW n, NEW M, NEW c, Seat(lo, n, M), 30 <= n, Long(lo, n, M, c)
    PROVE  Block(M, c) /\ 6 <= Across(lo, n, M, c, 1)
<1>1. lo \in Nat /\ n \in Nat \ {0} /\ M \in Nat \ {0} /\ lo + n <= M
  BY DEF Seat
<1>2. c \in Nat /\ \/ 16 * c <= lo + 12 /\ lo + 12 <= 16 * c + 15
                   \/ lo = 0 /\ c = 0
                   \/ lo + n = M /\ 16 * c <= M - 6 /\ M - 6 <= 16 * c + 15
  BY <1>1 DEF Long
<1>3. Block(M, c)
  BY <1>1, <1>2 DEF Block, S!Block
<1> DEFINE f == IF lo = 0 THEN -16 ELSE lo
           t == IF lo + n = M THEN M + 16 ELSE lo + n
           e == IF M - 16 * c < 16 THEN M ELSE 16 * c + 16
<1>4. /\ Across(lo, n, M, c, 0) = Overlap(f - 0, t + 0 - 1, 16 * c, e)
      /\ Across(lo, n, M, c, 1) = Overlap(f - 1, t + 1 - 1, 16 * c, e)
  BY <1>3, AcrossIs
<1> QED BY <1>1, <1>2, <1>3, <1>4 DEF Overlap, S!Most, S!Least

(* A block that has any of it is not far from the thing.                   *)
LEMMA Reaches ==
    ASSUME NEW lo, NEW n, NEW M, NEW c, Seat(lo, n, M), Block(M, c), NEW k \in 1..2, Across(lo, n, M, c, k) > 0
    PROVE  lo <= 16 * c + 17 /\ 16 * c + 16 <= lo + n + 16
<1>1. lo \in Nat /\ n \in Nat \ {0} /\ M \in Nat \ {0} /\ lo + n <= M /\ c \in Nat /\ 16 * c < M
  BY DEF Seat, Block, S!Block
<1> DEFINE f == IF lo = 0 THEN -16 ELSE lo
           t == IF lo + n = M THEN M + 16 ELSE lo + n
           e == IF M - 16 * c < 16 THEN M ELSE 16 * c + 16
<1>2. Across(lo, n, M, c, k) = Overlap(f - k, t + k - 1, 16 * c, e)
  <2>1. k \in Int
    OBVIOUS
  <2>2. \A i \in Int : Across(lo, n, M, c, i) = Overlap(f - i, t + i - 1, 16 * c, e)
    BY AcrossIs
  <2> QED BY <2>1, <2>2
<1>3. /\ f \in Int /\ lo <= f + 16 /\ (lo # 0 => f = lo)
      /\ t \in Int /\ lo + n <= t /\ (lo + n # M => t = lo + n)
      /\ e \in Int /\ e <= M /\ e <= 16 * c + 16 /\ k \in Int /\ 1 <= k /\ k <= 2
  BY <1>1
<1> HIDE DEF f, t, e
<1>4. f - k < e /\ 16 * c < t + k - 1
  BY <1>1, <1>2, <1>3 DEF Overlap, S!Most, S!Least
<1> QED BY <1>1, <1>3, <1>4
-----------------------------------------------------------------------------
(* A recursion that stays in V has a value after every number of steps,    *)
Ran(g, V, v, m, X) == g \in [0..m -> V] /\ g[0] = v /\ \A n \in 1..m : g[n] = X[<<g[n - 1], n>>]
LEMMA Runs ==
    ASSUME NEW V, NEW v \in V, NEW m \in Nat, NEW X, X \in [V \X Nat -> V]
    PROVE  \E g : Ran(g, V, v, m, X)
<1> DEFINE Is(g, n) == g \in [0..n -> V] /\ g[0] = v /\ \A k \in 1..n : g[k] = X[<<g[k - 1], k>>]
           N == {n \in Nat : ~\E g : Is(g, n)}
<1>1. \A n \in N : \E k \in N : k < n
  <2> SUFFICES ASSUME NEW n \in N PROVE \E k \in N : k < n
    OBVIOUS
  <2>1. n # 0
    <3> DEFINE g == [i \in 0..0 |-> v]
    <3>1. Is(g, 0)
      OBVIOUS
    <3> QED BY <3>1
  <2>2. n \in Nat \ {0} /\ n - 1 \in Nat /\ n - 1 < n
    BY <2>1
  <2>3. ASSUME NEW g, Is(g, n - 1) PROVE \E h : Is(h, n)
    <3> DEFINE x == X[<<g[n - 1], n>>]
               h == [k \in 0..n |-> IF k = n THEN x ELSE g[k]]
    <3>1. x \in V
      BY <2>2, <2>3
    <3>2. \A k \in 0..n : k # n => k \in 0..n - 1
      BY <2>2
    <3>3. h \in [0..n -> V] /\ h[0] = v /\ h[n] = x /\ \A k \in 0..n - 1 : h[k] = g[k]
      BY <2>2, <2>3, <3>1, <3>2
    <3> HIDE DEF h, x
    <3>4. ASSUME NEW k \in 1..n PROVE h[k] = X[<<h[k - 1], k>>]
      <4>1. k - 1 \in 0..n - 1 /\ h[k - 1] = g[k - 1]
        BY <2>2, <3>3
      <4>2. CASE k = n
        BY <3>3, <4>1, <4>2 DEF x
      <4>3. CASE k # n
        <5>1. k \in 1..n - 1 /\ k \in 0..n - 1
          BY <2>2, <4>3
        <5> QED BY <2>3, <3>3, <4>1, <5>1
      <4> QED BY <4>2, <4>3
    <3>5. Is(h, n)
      BY <3>3, <3>4
    <3> QED BY <3>5
  <2>4. n - 1 \in N
    BY <2>2, <2>3
  <2> QED BY <2>2, <2>4
<1>2. N = {}
  <2>1. N \in SUBSET Nat
    OBVIOUS
  <2> HIDE DEF N
  <2> QED BY <1>1, <2>1, NoLeast
<1> QED BY <1>2 DEF Ran

(* and one that a step does not leave V by is in V after all of them.      *)
LEMMA StaysGrouped ==
    ASSUME NEW V, NEW m \in Nat, NEW f, f[0] \in V, \A n \in 1..m : f[n - 1] \in V => f[n] \in V
    PROVE  \A n \in 0..m : f[n] \in V
<1> DEFINE N == {n \in 0..m : f[n] \notin V}
<1>1. \A n \in N : \E k \in N : k < n
  <2> SUFFICES ASSUME NEW n \in N PROVE \E k \in N : k < n
    OBVIOUS
  <2>1. n \in 1..m /\ n - 1 \in 0..m /\ n - 1 < n
    OBVIOUS
  <2> QED BY <2>1
<1>2. N = {}
  <2>1. N \in SUBSET Nat
    OBVIOUS
  <2> HIDE DEF N
  <2> QED BY <1>1, <2>1, NoLeast
<1> QED BY <1>2

(* The least and the greatest of some numbers.                             *)
LEMMA MinIs ==
    ASSUME NEW X \in SUBSET Nat, X # {}
    PROVE  S!Min(X) \in X /\ \A x \in X : S!Min(X) <= x
<1>1. \E x \in X : \A y \in X : x <= y
  <2> SUFFICES ASSUME \A x \in X : \E y \in X : y < x PROVE FALSE
    OBVIOUS
  <2> QED BY NoLeast
<1> QED BY <1>1 DEF S!Min

LEMMA MaxIs ==
    ASSUME NEW X \in SUBSET Nat, X # {}, NEW m \in Nat, \A x \in X : x <= m
    PROVE  S!Max(X) \in X /\ \A x \in X : x <= S!Max(X)
<1>1. \E x \in X : \A y \in X : x >= y
  <2> SUFFICES ASSUME \A x \in X : \E y \in X : y > x PROVE FALSE
    OBVIOUS
  <2> DEFINE N == {m - x : x \in X}
  <2>1. N \in SUBSET Nat /\ N # {}
    <3>1. \A x \in X : x \in Nat /\ m - x \in Nat
      OBVIOUS
    <3> QED BY <3>1
  <2>2. ASSUME NEW n \in N PROVE \E k \in N : k < n
    <3>1. PICK x \in X : n = m - x
      OBVIOUS
    <3>2. PICK y \in X : y > x
      OBVIOUS
    <3>3. m - y \in N /\ m - y < n
      BY <3>1, <3>2
    <3> QED BY <3>3
  <2> HIDE DEF N
  <2> QED BY <2>1, <2>2, NoLeast
<1> QED BY <1>1 DEF S!Max

-----------------------------------------------------------------------------
(***************************************************************************)
(* The pixels of an outline that are in a block, axis by axis.             *)
(***************************************************************************)
OnCorner(i, b) == S!Lies(S!Corner(S!Beyond(i)), S!Cell(b))

LEMMA EdgesIs ==
    ASSUME NEW i, NEW b, NEW k \in 0..1, S!Visible(i), NEW p, p = spots[i], NEW L, L = S!LookSize,
           Seat(p.x, p.w, L.w), Seat(p.y, p.h, L.h)
    PROVE  S!Edges(i, b, k) = Across(p.x, p.w, L.w, b[2], k + 1) * Across(p.y, p.h, L.h, b[1], k + 1)
               - Across(p.x, p.w, L.w, b[2], -k) * Across(p.y, p.h, L.h, b[1], -k)
               - (IF k = 0 /\ OnCorner(i, b) THEN 1 ELSE 0)
<1> DEFINE r == S!Beyond(i)
           e == S!Cell(b)
           x == S!From(p.x)
           y == S!From(p.y)
           w == S!To(p.x, p.w, L.w) - x
           h == S!To(p.y, p.h, L.h) - y
<1>0. x \in Int /\ y \in Int /\ w \in Int /\ h \in Int
  BY DEF Seat, S!From, S!To, S!Block
<1>1. r = [x |-> x, y |-> y, w |-> w, h |-> h]
  BY DEF S!Beyond, S!Rect
<1>2. e = [x |-> b[2] * S!Block, y |-> b[1] * S!Block,
           w |-> S!Least(S!Block, L.w - b[2] * S!Block), h |-> S!Least(S!Block, L.h - b[1] * S!Block)]
  BY DEF S!Cell, S!Rect
<1> HIDE DEF r, e, x, y, w, h
<1>3. ASSUME NEW n \in Int
      PROVE  S!Shared(S!Grown(r, n), e) =
                 S!Span(x - n, w + 2 * n - 1, b[2] * S!Block, S!Least(S!Block, L.w - b[2] * S!Block))
                 * S!Span(y - n, h + 2 * n - 1, b[1] * S!Block, S!Least(S!Block, L.h - b[1] * S!Block))
  <2> DEFINE g == S!Grown(r, n)
  <2>1. g = [x |-> r.x - n, y |-> r.y - n, w |-> r.w + 2 * n - 1, h |-> r.h + 2 * n - 1]
    BY DEF S!Grown, S!Rect
  <2> HIDE DEF g
  <2>2. g.x = x - n /\ g.y = y - n /\ g.w = w + 2 * n - 1 /\ g.h = h + 2 * n - 1
    BY <1>1, <2>1
  <2>3. S!Shared(g, e) = S!Span(g.x, g.w, e.x, e.w) * S!Span(g.y, g.h, e.y, e.h)
    BY DEF S!Shared
  <2> QED BY <1>2, <2>2, <2>3 DEF g
<1>4. ASSUME NEW n \in Int
      PROVE  S!Shared(S!Grown(r, n), e) = Across(p.x, p.w, L.w, b[2], n) * Across(p.y, p.h, L.h, b[1], n)
  BY <1>3 DEF Across, x, y, w, h
<1>5. S!Edges(i, b, k) = S!Shared(S!Grown(r, k + 1), e) - S!Shared(S!Grown(r, -k), e)
          - (IF k = 0 /\ OnCorner(i, b) THEN 1 ELSE 0)
  BY DEF S!Edges, OnCorner, r, e
<1>6. k + 1 \in Int /\ -k \in Int
  OBVIOUS
<1>7. /\ S!Shared(S!Grown(r, k + 1), e) = Across(p.x, p.w, L.w, b[2], k + 1) * Across(p.y, p.h, L.h, b[1], k + 1)
      /\ S!Shared(S!Grown(r, -k), e) = Across(p.x, p.w, L.w, b[2], -k) * Across(p.y, p.h, L.h, b[1], -k)
  BY <1>4, <1>6
<1> QED BY <1>5, <1>7
LEMMA Minus == \A k \in Int : -k = 0 - k
OBVIOUS

LEMMA ProductNat == \A x, y \in Nat : x * y \in Nat
OBVIOUS

LEMMA ProductsGrow ==
    ASSUME NEW x \in Nat, NEW y \in Nat, NEW v \in Nat, NEW z \in Nat, v <= x, z <= y
    PROVE  v * z <= x * y /\ (v + 1 <= x => v * z + y <= x * y)
<1>1. v * z <= v * y
  OBVIOUS
<1>2. v * y <= x * y
  OBVIOUS
<1>3. ASSUME v + 1 <= x PROVE v * z + y <= x * y
  <2>1. (v + 1) * y <= x * y
    BY <1>3
  <2>2. (v + 1) * y = v * y + y
    OBVIOUS
  <2>3. v * y \in Nat /\ v * z \in Nat /\ x * y \in Nat
    BY ProductNat
  <2> QED BY <1>1, <2>1, <2>2, <2>3
<1>4. v * y \in Nat /\ v * z \in Nat /\ x * y \in Nat
  BY ProductNat
<1> QED BY <1>1, <1>2, <1>3, <1>4

(* No thing takes pixels away from a block; one whose side goes along it   *)
(* for six pixels has five of it and more, blurred or not; and one that    *)
(* has any is near it.                                                     *)
Seats(i) == /\ Seat(spots[i].x, spots[i].w, S!LookSize.w)
            /\ Seat(spots[i].y, spots[i].h, S!LookSize.h)

LEMMA EdgesNat ==
    ASSUME NEW i, NEW b, NEW k \in 0..1, S!Visible(i) => Seats(i), Block(S!LookSize.w, b[2]), Block(S!LookSize.h, b[1])
    PROVE  S!Edges(i, b, k) \in Nat
<1>1. CASE ~S!Visible(i)
  BY <1>1 DEF S!Edges
<1>2. CASE S!Visible(i)
  <2> DEFINE p == spots[i]
             L == S!LookSize
             ox == Across(p.x, p.w, L.w, b[2], k + 1)
             oy == Across(p.y, p.h, L.h, b[1], k + 1)
             ix == Across(p.x, p.w, L.w, b[2], -k)
             iy == Across(p.y, p.h, L.h, b[1], -k)
             e == S!Cell(b)
  <2>1. Seat(p.x, p.w, L.w) /\ Seat(p.y, p.h, L.h)
    BY <1>2 DEF Seats
  <2>2. S!Edges(i, b, k) = ox * oy - ix * iy - (IF k = 0 /\ OnCorner(i, b) THEN 1 ELSE 0)
    BY <1>2, <2>1, EdgesIs
  <2>3. k + 1 \in Int /\ -k \in Int /\ -k <= k + 1
    OBVIOUS
  <2>4. ox \in Nat /\ ix \in Nat /\ ix <= ox
    BY <2>1, <2>3, Grows
  <2>5. oy \in Nat /\ iy \in Nat /\ iy <= oy
    BY <2>1, <2>3, Grows
  <2>6. ASSUME k = 0, OnCorner(i, b) PROVE ix + 1 <= ox /\ iy + 1 <= oy
    <3> DEFINE c == S!Corner(S!Beyond(i))
    <3>1. S!Beyond(i) = [x |-> S!From(p.x), y |-> S!From(p.y),
                         w |-> S!To(p.x, p.w, L.w) - S!From(p.x), h |-> S!To(p.y, p.h, L.h) - S!From(p.y)]
      BY DEF S!Beyond, S!Rect
    <3>2. c.x = S!From(p.x) - 1 /\ c.y = S!From(p.y) - 1
      BY <3>1 DEF S!Corner
    <3>3. e = [x |-> b[2] * S!Block, y |-> b[1] * S!Block,
               w |-> S!Least(S!Block, L.w - b[2] * S!Block), h |-> S!Least(S!Block, L.h - b[1] * S!Block)]
      BY DEF S!Cell, S!Rect
    <3>4. e.x <= c.x /\ c.x < e.x + e.w /\ e.y <= c.y /\ c.y < e.y + e.h
      BY ONLY <2>6, Zenon DEF OnCorner, S!Lies
    <3> HIDE DEF c, e
    <3>5. /\ b[2] * S!Block <= S!From(p.x) - 1
          /\ S!From(p.x) - 1 < b[2] * S!Block + S!Least(S!Block, L.w - b[2] * S!Block)
      BY <3>2, <3>3, <3>4
    <3>6. /\ b[1] * S!Block <= S!From(p.y) - 1
          /\ S!From(p.y) - 1 < b[1] * S!Block + S!Least(S!Block, L.h - b[1] * S!Block)
      BY <3>2, <3>3, <3>4
    <3>7. k + 1 = 1 /\ -k = 0
      <4>1. k \in Int /\ k + 1 = 1 /\ 0 - k = 0
        BY <2>6
      <4> QED BY ONLY <4>1, Minus
    <3>8. Across(p.x, p.w, L.w, b[2], 0) + 1 <= Across(p.x, p.w, L.w, b[2], 1)
      BY <2>1, <3>5, CornerIs
    <3>9. Across(p.y, p.h, L.h, b[1], 0) + 1 <= Across(p.y, p.h, L.h, b[1], 1)
      BY <2>1, <3>6, CornerIs
    <3> QED BY <3>7, <3>8, <3>9
  <2> HIDE DEF ox, oy, ix, iy
  <2>7. ox * oy \in Nat /\ ix * iy \in Nat /\ ix * iy <= ox * oy /\ (ix + 1 <= ox => ix * iy + oy <= ox * oy)
    BY <2>4, <2>5, ProductNat, ProductsGrow
  <2> QED BY <2>2, <2>5, <2>6, <2>7
<1> QED BY <1>1, <1>2

Crossed(i, b) == LET p == spots[i]  L == S!LookSize
                     x(k) == Across(p.x, p.w, L.w, b[2], k)
                     y(k) == Across(p.y, p.h, L.h, b[1], k) IN
    \/ x(0) + 1 <= x(1) /\ 6 <= y(1)
    \/ y(0) + 1 <= y(1) /\ 6 <= x(1)

LEMMA EdgesMany ==
    ASSUME NEW i, NEW b, S!Visible(i), Seats(i), Block(S!LookSize.w, b[2]), Block(S!LookSize.h, b[1]), Crossed(i, b)
    PROVE  5 <= S!Edges(i, b, 0) /\ 5 <= S!Edges(i, b, 1)
<1> DEFINE p == spots[i]
           L == S!LookSize
           x(k) == Across(p.x, p.w, L.w, b[2], k)
           y(k) == Across(p.y, p.h, L.h, b[1], k)
<1>1. Seat(p.x, p.w, L.w) /\ Seat(p.y, p.h, L.h)
  BY DEF Seats
<1>2. /\ S!Edges(i, b, 0) = x(1) * y(1) - x(0) * y(0) - (IF OnCorner(i, b) THEN 1 ELSE 0)
      /\ S!Edges(i, b, 1) = x(2) * y(2) - x(-1) * y(-1)
  <2>1. ASSUME NEW k \in 0..1
        PROVE  S!Edges(i, b, k) = x(k + 1) * y(k + 1) - x(-k) * y(-k) - (IF k = 0 /\ OnCorner(i, b) THEN 1 ELSE 0)
    BY <1>1, EdgesIs
  <2>2. ASSUME NEW k, k = 0
        PROVE  S!Edges(i, b, k) = x(1) * y(1) - x(k) * y(k) - (IF OnCorner(i, b) THEN 1 ELSE 0)
    <3>1. k \in 0..1 /\ k + 1 = 1 /\ -k = k
      <4>1. k \in Int /\ k \in 0..1 /\ k + 1 = 1 /\ 0 - k = k
        BY <2>2
      <4> QED BY ONLY <4>1, Minus
    <3> HIDE DEF x, y
    <3> QED BY <2>1, <2>2, <3>1
  <2>3. ASSUME NEW k, k = 1
        PROVE  S!Edges(i, b, k) = x(2) * y(2) - x(-1) * y(-1) - (IF k = 0 /\ OnCorner(i, b) THEN 1 ELSE 0)
    <3>1. k \in 0..1 /\ k + 1 = 2 /\ -k = -1
      BY <2>3
    <3> HIDE DEF x, y
    <3> QED BY <2>1, <3>1
  <2>4. x(1) * y(1) - x(0) * y(0) \in Int /\ x(2) * y(2) - x(-1) * y(-1) \in Int
    <3>1. x(1) \in Nat /\ x(0) \in Nat /\ x(2) \in Nat /\ x(-1) \in Nat
      BY <1>1, Grows
    <3>2. y(1) \in Nat /\ y(0) \in Nat /\ y(2) \in Nat /\ y(-1) \in Nat
      BY <1>1, Grows
    <3> HIDE DEF x, y
    <3> QED BY <3>1, <3>2
  <2> HIDE DEF x, y
  <2> QED BY <2>2, <2>3, <2>4
<1>3. x(1) \in Nat /\ x(0) \in Nat /\ x(2) \in Nat /\ x(-1) \in Nat /\ x(0) <= x(1) /\ x(1) <= x(2) /\ x(-1) <= x(0)
  BY <1>1, Grows
<1>4. y(1) \in Nat /\ y(0) \in Nat /\ y(2) \in Nat /\ y(-1) \in Nat /\ y(0) <= y(1) /\ y(1) <= y(2) /\ y(-1) <= y(0)
  BY <1>1, Grows
<1>5. (x(0) + 1 <= x(1) /\ 6 <= y(1)) \/ (y(0) + 1 <= y(1) /\ 6 <= x(1))
  BY DEF Crossed
<1> HIDE DEF x, y
<1>6. x(1) * y(1) - x(0) * y(0) >= 6
  <2>1. x(0) + 1 <= x(1) => x(0) * y(0) + y(1) <= x(1) * y(1)
    BY <1>3, <1>4, ProductsGrow
  <2>2. y(0) + 1 <= y(1) => y(0) * x(0) + x(1) <= y(1) * x(1)
    BY <1>3, <1>4, ProductsGrow
  <2>3. y(0) * x(0) = x(0) * y(0) /\ y(1) * x(1) = x(1) * y(1) /\ x(0) * y(0) \in Nat /\ x(1) * y(1) \in Nat
    BY <1>3, <1>4
  <2> QED BY <1>3, <1>4, <1>5, <2>1, <2>2, <2>3
<1>7. x(1) * y(1) <= x(2) * y(2)
  BY <1>3, <1>4, ProductsGrow
<1>8. x(-1) * y(-1) <= x(0) * y(0)
  BY <1>3, <1>4, ProductsGrow
<1>9. x(1) * y(1) \in Nat /\ x(0) * y(0) \in Nat /\ x(2) * y(2) \in Nat /\ x(-1) * y(-1) \in Nat
  BY <1>3, <1>4, ProductNat
<1> QED BY <1>2, <1>6, <1>7, <1>8, <1>9

LEMMA EdgesNear ==
    ASSUME NEW i, NEW b, NEW k \in 0..1, Seats(i), Block(S!LookSize.w, b[2]), Block(S!LookSize.h, b[1]),
           S!Edges(i, b, k) > 0
    PROVE  /\ S!Visible(i)
           /\ spots[i].x <= 16 * b[2] + 17 /\ 16 * b[2] + 16 <= spots[i].x + spots[i].w + 16
           /\ spots[i].y <= 16 * b[1] + 17 /\ 16 * b[1] + 16 <= spots[i].y + spots[i].h + 16
           /\ Across(spots[i].x, spots[i].w, S!LookSize.w, b[2], k + 1) > 0
           /\ Across(spots[i].y, spots[i].h, S!LookSize.h, b[1], k + 1) > 0
<1> DEFINE p == spots[i]
           L == S!LookSize
           ox == Across(p.x, p.w, L.w, b[2], k + 1)
           oy == Across(p.y, p.h, L.h, b[1], k + 1)
           ix == Across(p.x, p.w, L.w, b[2], -k)
           iy == Across(p.y, p.h, L.h, b[1], -k)
<1>1. Seat(p.x, p.w, L.w) /\ Seat(p.y, p.h, L.h)
  BY DEF Seats
<1>2. S!Visible(i)
  BY DEF S!Edges
<1>3. S!Edges(i, b, k) = ox * oy - ix * iy - (IF k = 0 /\ OnCorner(i, b) THEN 1 ELSE 0)
  BY <1>1, <1>2, EdgesIs
<1>4. k + 1 \in Int /\ -k \in Int /\ -k <= k + 1 /\ k + 1 \in 1..2
  OBVIOUS
<1>5. ox \in Nat /\ ix \in Nat
  BY <1>1, <1>4, Grows
<1>6. oy \in Nat /\ iy \in Nat
  BY <1>1, <1>4, Grows
<1>7. ox > 0 /\ oy > 0
  <2> HIDE DEF ox, oy, ix, iy
  <2>1. ix * iy \in Nat /\ ox * oy \in Nat
    BY <1>5, <1>6, ProductNat
  <2>2. ox * oy > 0
    BY <1>3, <2>1
  <2> QED BY <1>5, <1>6, <2>2
<1>8. p.x <= 16 * b[2] + 17 /\ 16 * b[2] + 16 <= p.x + p.w + 16
  BY <1>1, <1>4, <1>7, Reaches
<1>9. p.y <= 16 * b[1] + 17 /\ 16 * b[1] + 16 <= p.y + p.h + 16
  BY <1>1, <1>4, <1>7, Reaches
<1> QED BY <1>2, <1>7, <1>8, <1>9
-----------------------------------------------------------------------------
(* All things' pixels of a block are no fewer than those of one.           *)
LEMMA SumIs ==
    ASSUME NEW m \in Nat, NEW e \in [1..m -> Nat], NEW i \in 1..m,
           NEW f, f[0] = 0, \A n \in 1..m : f[n] = f[n - 1] + e[n]
    PROVE  f[m] \in Nat /\ e[i] <= f[m]
<1> DEFINE V == {z \in Nat \X Nat : i <= z[1] => e[i] <= z[2]}
           g == [n \in 0..m |-> <<n, f[n]>>]
<1>1. g[0] \in V
  OBVIOUS
<1>2. ASSUME NEW n \in 1..m, g[n - 1] \in V PROVE g[n] \in V
  <2>1. n - 1 \in 0..m /\ n \in 0..m /\ n \in Nat
    OBVIOUS
  <2>2. g[n - 1] = <<n - 1, f[n - 1]>> /\ g[n] = <<n, f[n]>>
    BY <2>1
  <2>3. f[n - 1] \in Nat /\ (i <= n - 1 => e[i] <= f[n - 1])
    BY <1>2, <2>2
  <2>4. e[n] \in Nat /\ e[i] \in Nat /\ f[n] = f[n - 1] + e[n]
    OBVIOUS
  <2>5. f[n] \in Nat
    BY <2>3, <2>4
  <2>6. CASE i = n
    BY <2>1, <2>2, <2>3, <2>4, <2>5, <2>6
  <2>7. CASE i # n
    <3>1. i <= n => i <= n - 1
      BY <2>7
    <3>2. i <= n => e[i] <= f[n]
      BY <2>3, <2>4, <3>1
    <3> QED BY <2>1, <2>2, <2>5, <3>2
  <2> QED BY <2>6, <2>7
<1>3. m \in 0..m /\ g[m] = <<m, f[m]>>
  OBVIOUS
<1> HIDE DEF V, g
<1>4. g[m] \in V
  BY <1>1, <1>2, <1>3, StaysGrouped
<1> QED BY <1>3, <1>4 DEF V

LEMMA CountIs ==
    ASSUME NEW b, NEW k, Len(shot.things) \in Nat, NEW i \in 1..Len(shot.things),
           \A j \in 1..Len(shot.things) : S!Edges(j, b, k) \in Nat
    PROVE  S!Edges(i, b, k) <= S!EdgeCount(b, k) /\ S!EdgeCount(b, k) \in Nat
<1> DEFINE m == Len(shot.things)
           e == [n \in 1..m |-> S!Edges(n, b, k)]
           X == [z \in Nat \X Nat |-> z[1] + (IF z[2] \in 1..m THEN e[z[2]] ELSE 0)]
           Is(f) == f = [n \in 0..m |-> IF n = 0 THEN 0 ELSE f[n - 1] + S!Edges(n, b, k)]
           F == CHOOSE f : Is(f)
<1>1. e \in [1..m -> Nat]
  OBVIOUS
<1>2. X \in [Nat \X Nat -> Nat]
  <2>1. ASSUME NEW z \in Nat \X Nat PROVE z[1] + (IF z[2] \in 1..m THEN e[z[2]] ELSE 0) \in Nat
    <3> HIDE DEF e
    <3> QED BY <1>1
  <2> QED BY <2>1
<1>3. PICK g : Ran(g, Nat, 0, m, X)
  <2>1. 0 \in Nat /\ m \in Nat
    OBVIOUS
  <2> HIDE DEF X, m
  <2> QED BY ONLY <1>2, <2>1, Runs
<1>a. g \in [0..m -> Nat] /\ g[0] = 0 /\ \A n \in 1..m : g[n] = X[<<g[n - 1], n>>]
  BY <1>3 DEF Ran
<1>4. Is(g)
  <2>1. ASSUME NEW n \in 0..m PROVE g[n] = IF n = 0 THEN 0 ELSE g[n - 1] + S!Edges(n, b, k)
    <3>1. CASE n = 0
      BY <1>a, <3>1
    <3>2. CASE n # 0
      <4>1. n \in 1..m /\ n - 1 \in 0..m /\ n \in Nat
        BY <3>2
      <4>2. <<g[n - 1], n>> \in Nat \X Nat
        BY <1>a, <4>1
      <4>3. X[<<g[n - 1], n>>] = g[n - 1] + e[n]
        BY <4>1, <4>2
      <4> QED BY <1>a, <3>2, <4>1, <4>3
    <3> QED BY <3>1, <3>2
  <2>2. g = [n \in 0..m |-> g[n]]
    BY <1>a
  <2> QED BY <2>1, <2>2
<1>5. Is(F)
  <2> HIDE DEF Is
  <2> QED BY <1>4
<1>6. S!EdgeCount(b, k) = F[m]
  BY DEF S!EdgeCount
<1> HIDE DEF F
<1>7. \A n \in 0..m : F[n] = IF n = 0 THEN 0 ELSE F[n - 1] + S!Edges(n, b, k)
  BY <1>5, ZenonT(20)
<1>8. F[0] = 0 /\ \A n \in 1..m : F[n] = F[n - 1] + e[n]
  <2>1. 0 \in 0..m /\ \A n \in 1..m : n \in 0..m /\ n # 0
    OBVIOUS
  <2>2. \A n \in 1..m : e[n] = S!Edges(n, b, k)
    OBVIOUS
  <2> HIDE DEF e
  <2> QED BY <1>7, <2>1, <2>2
<1>9. e[i] = S!Edges(i, b, k)
  OBVIOUS
<1> HIDE DEF e
<1> QED BY <1>1, <1>6, <1>8, <1>9, SumIs

(* The blocks of the picture, and those of a thing's outline.              *)
LEMMA BlockIs ==
    ASSUME NEW M \in Nat \ {0}, NEW c
    PROVE  c \in 0..((M - 1) \div S!Block) <=> Block(M, c)
<1>1. ASSUME c \in 0..((M - 1) \div 16) PROVE c \in Nat /\ c * 16 < M
  BY <1>1
<1>2. ASSUME c \in Nat /\ c * 16 < M PROVE c \in 0..((M - 1) \div 16)
  BY <1>2
<1> QED BY <1>1, <1>2 DEF Block, S!Block

AllBlocks == S!Rows \X S!Cols

LEMMA BlocksAre ==
    ASSUME PicInv, NEW b
    PROVE  b \in AllBlocks <=> /\ Block(S!LookSize.h, b[1]) /\ Block(S!LookSize.w, b[2])
                               /\ b = <<b[1], b[2]>>
<1>1. S!LookSize.w \in Nat \ {0} /\ S!LookSize.h \in Nat \ {0}
  BY LookIs
<1>2. b[1] \in S!Rows <=> Block(S!LookSize.h, b[1])
  BY <1>1, BlockIs DEF S!Rows
<1>3. b[2] \in S!Cols <=> Block(S!LookSize.w, b[2])
  BY <1>1, BlockIs DEF S!Cols
<1>4. b \in AllBlocks <=> b[1] \in S!Rows /\ b[2] \in S!Cols /\ b = <<b[1], b[2]>>
  BY DEF AllBlocks
<1> QED BY <1>2, <1>3, <1>4

LEMMA SpanGrows ==
    ASSUME NEW a \in Int, NEW n \in Int, NEW x \in Int, NEW p \in Int, NEW q \in Int, p <= q, S!Span(a, n, x, p) > 0
    PROVE  S!Span(a, n, x, q) > 0
BY DEF S!Span, S!Most, S!Least

LEMMA BlurIs == S!Blur \in 0..1
BY DEF S!Blur

LEMMA TouchedIs ==
    ASSUME PicInv, NEW i, S!Visible(i) => Seats(i), NEW b, NEW k \in 0..1
    PROVE  b \in S!Touched(i, k) <=> b \in AllBlocks /\ S!Edges(i, b, k) > 0
<1> DEFINE p == spots[i]
           L == S!LookSize
           r == S!Beyond(i)
           g == S!Grown(r, k + 1)
           x == S!From(p.x)
           y == S!From(p.y)
           w == S!To(p.x, p.w, L.w) - x
           h == S!To(p.y, p.h, L.h) - y
<1>1. b \in S!Touched(i, k) <=> /\ b \in AllBlocks /\ S!Edges(i, b, k) > 0
                                /\ S!Span(g.y, g.h, b[1] * S!Block, S!Block) > 0
                                /\ S!Span(g.x, g.w, b[2] * S!Block, S!Block) > 0
  BY DEF S!Touched, AllBlocks
<1>2. ASSUME b \in AllBlocks, S!Edges(i, b, k) > 0
      PROVE  /\ S!Span(g.y, g.h, b[1] * S!Block, S!Block) > 0
             /\ S!Span(g.x, g.w, b[2] * S!Block, S!Block) > 0
  <2>1. S!Visible(i) /\ Seat(p.x, p.w, L.w) /\ Seat(p.y, p.h, L.h)
    BY <1>2 DEF S!Edges, Seats
  <2>2. Block(L.h, b[1]) /\ Block(L.w, b[2])
    BY <1>2, BlocksAre
  <2>3. g.x = x - (k + 1) /\ g.w = w + 2 * (k + 1) - 1 /\ g.y = y - (k + 1) /\ g.h = h + 2 * (k + 1) - 1
    <3>1. r = [x |-> x, y |-> y, w |-> w, h |-> h]
      BY DEF S!Beyond, S!Rect
    <3>2. g = [x |-> r.x - (k + 1), y |-> r.y - (k + 1), w |-> r.w + 2 * (k + 1) - 1, h |-> r.h + 2 * (k + 1) - 1]
      BY DEF S!Grown, S!Rect
    <3> HIDE DEF g, r
    <3> QED BY <3>1, <3>2
  <2>4. x \in Int /\ y \in Int /\ w \in Int /\ h \in Int
    BY <2>1 DEF Seat, S!From, S!To, S!Block
  <2>5. /\ Across(p.x, p.w, L.w, b[2], k + 1) = S!Span(g.x, g.w, b[2] * S!Block, S!Least(S!Block, L.w - b[2] * S!Block))
        /\ Across(p.y, p.h, L.h, b[1], k + 1) = S!Span(g.y, g.h, b[1] * S!Block, S!Least(S!Block, L.h - b[1] * S!Block))
    BY <2>3 DEF Across
  <2>6. Across(p.x, p.w, L.w, b[2], k + 1) > 0 /\ Across(p.y, p.h, L.h, b[1], k + 1) > 0
    BY <1>2, <2>1, <2>2, EdgesNear DEF Seats
  <2>7. /\ g.x \in Int /\ g.w \in Int /\ g.y \in Int /\ g.h \in Int /\ S!Block \in Int
        /\ b[2] * S!Block \in Int /\ b[1] * S!Block \in Int
        /\ S!Least(S!Block, L.w - b[2] * S!Block) \in Int /\ S!Least(S!Block, L.w - b[2] * S!Block) <= S!Block
        /\ S!Least(S!Block, L.h - b[1] * S!Block) \in Int /\ S!Least(S!Block, L.h - b[1] * S!Block) <= S!Block
    BY <2>1, <2>2, <2>3, <2>4 DEF Seat, Block, S!Block, S!Least
  <2> HIDE DEF g
  <2>8. S!Span(g.x, g.w, b[2] * S!Block, S!Block) > 0
    BY <2>5, <2>6, <2>7, SpanGrows
  <2>9. S!Span(g.y, g.h, b[1] * S!Block, S!Block) > 0
    BY <2>5, <2>6, <2>7, SpanGrows
  <2> QED BY <2>8, <2>9
<1> QED BY <1>1, <1>2
-----------------------------------------------------------------------------
(* The blocks in which an outline is seen are some of the picture near the *)
(* thing, and all that one of its sides goes along for six pixels.         *)
Seated == /\ PicInv /\ Len(shot.things) \in Nat
          /\ \A i \in 1..Len(shot.things) : S!Visible(i) => Seats(i)

LEMMA SameCardinality == \A X : S!Cardinality(X) = Cardinality(X)
  BY DEF S!Cardinality, Cardinality

LEMMA LitIs ==
    ASSUME Seated, NEW glow, NEW i \in 1..Len(shot.things), NEW b \in S!Lit(glow)[i]
    PROVE  /\ b \in AllBlocks /\ S!Visible(i) /\ S!Edges(i, b, S!Blur) > 0
           /\ spots[i].x <= 16 * b[2] + 17 /\ 16 * b[2] + 16 <= spots[i].x + spots[i].w + 16
           /\ spots[i].y <= 16 * b[1] + 17 /\ 16 * b[1] + 16 <= spots[i].y + spots[i].h + 16
<1>1. b \in S!Touched(i, S!Blur)
  BY DEF S!Lit
<1>2. PicInv /\ (S!Visible(i) => Seats(i)) /\ S!Blur \in 0..1
  BY BlurIs DEF Seated
<1>3. b \in AllBlocks /\ S!Edges(i, b, S!Blur) > 0
  BY <1>1, <1>2, TouchedIs
<1>4. Block(S!LookSize.h, b[1]) /\ Block(S!LookSize.w, b[2])
  BY <1>2, <1>3, BlocksAre
<1>5. S!Visible(i)
  BY <1>3 DEF S!Edges
<1>6. Seats(i)
  BY <1>2, <1>5
<1> QED BY <1>2, <1>3, <1>4, <1>5, <1>6, EdgesNear

LEMMA LitHas ==
    ASSUME Seated, NEW glow, NEW i \in 1..Len(shot.things), S!Visible(i), NEW b \in AllBlocks, Crossed(i, b)
    PROVE  b \in S!Lit(glow)[i]
<1>1. PicInv /\ Seats(i) /\ S!Blur \in 0..1 /\ Len(shot.things) \in Nat
  BY BlurIs DEF Seated
<1>2. Block(S!LookSize.h, b[1]) /\ Block(S!LookSize.w, b[2])
  BY <1>1, BlocksAre
<1>3. 5 <= S!Edges(i, b, 0) /\ 5 <= S!Edges(i, b, 1)
  BY <1>1, <1>2, EdgesMany
<1>4. \A j \in 1..Len(shot.things) : S!Edges(j, b, 0) \in Nat
  <2> TAKE j \in 1..Len(shot.things)
  <2>1. S!Visible(j) => Seats(j)
    BY DEF Seated
  <2>2. 0 \in 0..1
    OBVIOUS
  <2> QED BY <1>2, <2>1, <2>2, EdgesNat
<1>5. S!Edges(i, b, 0) <= S!EdgeCount(b, 0) /\ S!EdgeCount(b, 0) \in Nat
  BY <1>1, <1>4, CountIs
<1>6. S!EdgeCount(b, 0) >= 5
  <2>1. S!Edges(i, b, 0) \in Nat
    BY <1>4
  <2> QED BY <1>3, <1>5, <2>1
<1>7. S!Active(b, glow)
  BY <1>6 DEF S!Active
<1>8. S!Edges(i, b, S!Blur) > 0
  <2>1. S!Blur = 0 \/ S!Blur = 1
    BY <1>1
  <2>2. S!Edges(i, b, 1) \in Nat /\ S!Edges(i, b, 0) \in Nat
    <3>1. 0 \in 0..1 /\ 1 \in 0..1
      OBVIOUS
    <3> QED BY <1>1, <1>2, <3>1, EdgesNat
  <2> QED BY <1>3, <2>1, <2>2
<1>9. b \in S!Touched(i, S!Blur)
  BY <1>1, <1>8, TouchedIs
<1> QED BY <1>7, <1>9 DEF S!Lit

(* There are finitely many blocks.                                         *)
LEMMA BlocksFinite ==
    ASSUME PicInv, NEW g \in SUBSET AllBlocks
    PROVE  S!Cardinality(g) \in Nat
<1>1. S!LookSize.w \in Nat \ {0} /\ S!LookSize.h \in Nat \ {0}
  BY LookIs
<1>2. \A m \in Nat \ {0} : (m - 1) \div S!Block \in Int
  BY DEF S!Block
<1>3. IsFiniteSet(S!Rows) /\ IsFiniteSet(S!Cols)
  <2>1. 0 \in Int /\ (S!LookSize.h - 1) \div S!Block \in Int /\ (S!LookSize.w - 1) \div S!Block \in Int
    BY <1>1, <1>2
  <2> QED BY <2>1, FS_Interval DEF S!Rows, S!Cols
<1>4. IsFiniteSet(AllBlocks)
  BY <1>3, FS_Product DEF AllBlocks
<1>5. IsFiniteSet(g)
  BY <1>4, FS_Subset
<1> QED BY <1>5, FS_CardinalityType, SameCardinality

(* A flood from a block of A stays in A, and has the block.                *)
LEMMA FloodIs ==
    ASSUME NEW A, S!Cardinality(A) \in Nat, NEW b \in A
    PROVE  S!Flood(A, b) \in SUBSET A /\ b \in S!Flood(A, b)
<1> DEFINE m == S!Cardinality(A)
           V == [visited : SUBSET A, queue : SUBSET A]
           Has == {s \in V : b \in s.visited}
           Maps == {h \in [V -> SUBSET A] : \A s \in Has : b \in h[s]}
           more(s) == (S!Around(s.queue) \cap A) \ s.visited
           next(s) == [visited |-> s.visited \cup more(s), queue |-> more(s)]
           go(h) == [s \in V |-> IF s.queue = {} THEN s.visited ELSE h[next(s)]]
           first == [s \in V |-> s.visited]
           X == [z \in Maps \X Nat |-> go(z[1])]
           Is(f) == f = [n \in 0..m |-> [s \in V |-> IF n = 0 \/ s.queue = {} THEN s.visited ELSE f[n - 1][next(s)]]]
           F == CHOOSE f : Is(f)
           start == [visited |-> {b}, queue |-> {b}]
<1>1. first \in Maps
  OBVIOUS
<1>2. ASSUME NEW h \in Maps PROVE go(h) \in Maps
  <2>1. ASSUME NEW s \in V PROVE next(s) \in V /\ (s \in Has => next(s) \in Has)
    OBVIOUS
  <2> HIDE DEF next
  <2>2. ASSUME NEW s \in V PROVE go(h)[s] \in SUBSET A /\ (s \in Has => b \in go(h)[s])
    <3>1. go(h)[s] = IF s.queue = {} THEN s.visited ELSE h[next(s)]
      OBVIOUS
    <3>2. CASE s.queue = {}
      BY <3>1, <3>2
    <3>3. CASE s.queue # {}
      <4>1. next(s) \in V /\ (s \in Has => next(s) \in Has)
        BY <2>1
      <4>2. h[next(s)] \in SUBSET A /\ (s \in Has => b \in h[next(s)])
        <5> HIDE DEF V, Has
        <5> QED BY <1>2, <4>1
      <4> QED BY <3>1, <3>3, <4>2
    <3> QED BY <3>2, <3>3
  <2>3. DOMAIN go(h) = V /\ go(h) = [s \in V |-> go(h)[s]]
    OBVIOUS
  <2> HIDE DEF V, go
  <2>4. go(h) \in [V -> SUBSET A]
    BY <2>2, <2>3
  <2> QED BY <2>2, <2>4
<1> HIDE DEF next
<1>3. X \in [Maps \X Nat -> Maps]
  <2> HIDE DEF Maps, go
  <2>1. ASSUME NEW z \in Maps \X Nat PROVE go(z[1]) \in Maps
    BY <1>2
  <2> QED BY <2>1
<1>4. PICK g : Ran(g, Maps, first, m, X)
  <2> HIDE DEF X, m, Maps, first
  <2>1. m \in Nat
    BY DEF m
  <2> QED BY ONLY <1>1, <1>3, <2>1, Runs
<1> DEFINE at(f, n) == [s \in V |-> IF n = 0 \/ s.queue = {} THEN s.visited ELSE f[n - 1][next(s)]]
<1>5. Is(g)
  <2>1. g \in [0..m -> Maps] /\ g[0] = first /\ \A n \in 1..m : g[n] = X[<<g[n - 1], n>>]
    BY <1>4 DEF Ran
  <2> HIDE DEF V, Maps
  <2>2. ASSUME NEW n \in 0..m PROVE g[n] = at(g, n)
    <3>1. CASE n = 0
      BY <2>1, <3>1
    <3>2. CASE n # 0
      <4>1. n \in 1..m /\ n - 1 \in 0..m /\ n \in Nat
        BY <3>2
      <4>2. <<g[n - 1], n>> \in Maps \X Nat
        BY <2>1, <4>1
      <4>3. X[<<g[n - 1], n>>] = go(g[n - 1])
        BY <4>2
      <4>4. go(g[n - 1]) = at(g, n)
        BY <3>2
      <4> QED BY <2>1, <4>1, <4>3, <4>4
    <3> QED BY <3>1, <3>2
  <2>3. g = [n \in 0..m |-> g[n]]
    BY <2>1
  <2> HIDE DEF at
  <2>4. g = [n \in 0..m |-> at(g, n)]
    BY <2>2, <2>3
  <2> QED BY <2>4 DEF at
<1>6. Is(F)
  <2> HIDE DEF Is
  <2> QED BY <1>5
<1>7. S!Flood(A, b) = F[m][start]
  BY DEF S!Flood, next
<1> HIDE DEF F
<1>8. \A n \in 0..m : F[n] = at(F, n)
  <2> HIDE DEF at
  <2>1. F = [n \in 0..m |-> at(F, n)]
    BY <1>6 DEF at
  <2> QED BY <2>1, ZenonT(20)
<1>9. F[0] = first /\ \A n \in 1..m : F[n] = go(F[n - 1])
  <2>1. 0 \in 0..m /\ \A n \in 1..m : n \in 0..m /\ n # 0
    OBVIOUS
  <2> HIDE DEF V
  <2>2. at(F, 0) = first
    OBVIOUS
  <2>3. ASSUME NEW n \in 1..m PROVE at(F, n) = go(F[n - 1])
    BY <2>1
  <2> HIDE DEF at, go, first
  <2> QED BY <1>8, <2>1, <2>2, <2>3
<1>10. F[m] \in Maps
  <2> HIDE DEF first, go
  <2>1. F[0] \in Maps /\ \A n \in 1..m : F[n - 1] \in Maps => F[n] \in Maps
    BY <1>1, <1>2, <1>9
  <2>2. m \in Nat /\ m \in 0..m
    OBVIOUS
  <2> HIDE DEF Maps, m
  <2> QED BY <2>1, <2>2, StaysGrouped
<1>11. start \in V /\ start \in Has
  OBVIOUS
<1>12. F[m][start] \in SUBSET A /\ b \in F[m][start]
  <2> HIDE DEF V, Has, start, F, m
  <2> QED BY <1>10, <1>11
<1> QED BY <1>7, <1>12

LEMMA FirstIs ==
    ASSUME NEW A, A \in SUBSET (Nat \X Nat), A # {}
    PROVE  S!First(A) \in A
<1> DEFINE ys == {b[1] : b \in A}
           y == S!Min(ys)
           xs == {b[2] : b \in {c \in A : c[1] = y}}
<1>1. ys \in SUBSET Nat /\ ys # {}
  OBVIOUS
<1>2. y \in ys
  BY <1>1, MinIs
<1>3. xs \in SUBSET Nat /\ xs # {}
  <2> HIDE DEF y
  <2> QED BY <1>2
<1>4. S!Min(xs) \in xs
  BY <1>3, MinIs
<1>5. S!First(A) = <<y, S!Min(xs)>>
  BY DEF S!First
<1> HIDE DEF y
<1>6. PICK b \in A : b[1] = y /\ b[2] = S!Min(xs)
  BY <1>4
<1>7. b = <<b[1], b[2]>>
  OBVIOUS
<1> QED BY <1>5, <1>6, <1>7

(* The groups of A are parts of it, of which none is empty.                *)
LEMMA GroupedIs ==
    ASSUME PicInv, NEW A \in SUBSET AllBlocks
    PROVE  S!Grouped(A) \in Seq((SUBSET A) \ {{}})
<1> DEFINE m == S!Cardinality(A)
           W == (SUBSET A) \ {{}}
           V == [found : Seq(SUBSET A), rest : SUBSET A]
           Has == {s \in V : s.found \in Seq(W)}
           Maps == {h \in [V -> Seq(SUBSET A)] : \A s \in Has : h[s] \in Seq(W)}
           one(r) == S!Flood(r, S!First(r))
           next(s) == [found |-> Append(s.found, one(s.rest)), rest |-> s.rest \ one(s.rest)]
           go(h) == [s \in V |-> IF s.rest = {} THEN s.found ELSE h[next(s)]]
           first == [s \in V |-> s.found]
           X == [z \in Maps \X Nat |-> go(z[1])]
           at(f, n) == [s \in V |-> IF n = 0 \/ s.rest = {} THEN s.found ELSE f[n - 1][next(s)]]
           Is(f) == f = [n \in 0..m |-> at(f, n)]
           F == CHOOSE f : Is(f)
           start == [found |-> <<>>, rest |-> A]
<1>0. m \in Nat
  BY BlocksFinite
<1>1. first \in Maps
  <2> HIDE DEF W
  <2>1. \A s \in V : s.found \in Seq(SUBSET A)
    OBVIOUS
  <2> QED BY <2>1
<1>2. ASSUME NEW h \in Maps PROVE go(h) \in Maps
  <2>1. ASSUME NEW s \in V, s.rest # {} PROVE next(s) \in V /\ (s \in Has => next(s) \in Has)
    <3>1. s.rest \in SUBSET AllBlocks /\ s.rest \in SUBSET A
      BY <2>1
    <3>2. AllBlocks \in SUBSET (Nat \X Nat)
      BY DEF AllBlocks, S!Rows, S!Cols
    <3>3. S!First(s.rest) \in s.rest
      BY <2>1, <3>1, <3>2, FirstIs
    <3>4. S!Cardinality(s.rest) \in Nat
      BY <3>1, BlocksFinite
    <3>5. one(s.rest) \in SUBSET s.rest /\ S!First(s.rest) \in one(s.rest)
      BY <3>3, <3>4, FloodIs
    <3> HIDE DEF one
    <3>6. one(s.rest) \in W /\ one(s.rest) \in SUBSET A
      BY <3>1, <3>5
    <3>7. s.found \in Seq(SUBSET A) /\ (s \in Has => s.found \in Seq(W))
      OBVIOUS
    <3> DEFINE B == SUBSET A
    <3> HIDE DEF W, B
    <3>8. Append(s.found, one(s.rest)) \in Seq(B)
      BY <3>6, <3>7, AppendProperties DEF B
    <3>9. s \in Has => Append(s.found, one(s.rest)) \in Seq(W)
      <4> HIDE DEF Has
      <4> QED BY <3>6, <3>7, AppendProperties
    <3>10. s.rest \ one(s.rest) \in SUBSET A
      BY <3>1
    <3> QED BY <3>8, <3>9, <3>10 DEF B
  <2> HIDE DEF next, W
  <2>2. ASSUME NEW s \in V PROVE go(h)[s] \in Seq(SUBSET A) /\ (s \in Has => go(h)[s] \in Seq(W))
    <3>1. go(h)[s] = IF s.rest = {} THEN s.found ELSE h[next(s)]
      OBVIOUS
    <3>2. CASE s.rest = {}
      BY <3>1, <3>2
    <3>3. CASE s.rest # {}
      <4>1. next(s) \in V /\ (s \in Has => next(s) \in Has)
        BY <2>1, <3>3
      <4>2. h[next(s)] \in Seq(SUBSET A) /\ (s \in Has => h[next(s)] \in Seq(W))
        <5> HIDE DEF V, Has
        <5> QED BY <1>2, <4>1
      <4> QED BY <3>1, <3>3, <4>2
    <3> QED BY <3>2, <3>3
  <2>3. DOMAIN go(h) = V /\ go(h) = [s \in V |-> go(h)[s]]
    OBVIOUS
  <2>4. \A s \in Has : s \in V
    OBVIOUS
  <2> HIDE DEF V, go, Has
  <2>5. go(h) \in [V -> Seq(SUBSET A)]
    BY <2>2, <2>3
  <2> QED BY <2>2, <2>4, <2>5
<1> HIDE DEF next, m
<1>3. X \in [Maps \X Nat -> Maps]
  <2> HIDE DEF Maps, go
  <2>1. ASSUME NEW z \in Maps \X Nat PROVE go(z[1]) \in Maps
    BY <1>2
  <2> QED BY <2>1
<1>4. PICK g : Ran(g, Maps, first, m, X)
  <2> HIDE DEF X, Maps, first
  <2> QED BY ONLY <1>0, <1>1, <1>3, Runs
<1>5. Is(g)
  <2>1. g \in [0..m -> Maps] /\ g[0] = first /\ \A n \in 1..m : g[n] = X[<<g[n - 1], n>>]
    BY <1>4 DEF Ran
  <2> HIDE DEF V, Maps
  <2>2. ASSUME NEW n \in 0..m PROVE g[n] = at(g, n)
    <3>1. CASE n = 0
      BY <2>1, <3>1
    <3>2. CASE n # 0
      <4>1. n \in 1..m /\ n - 1 \in 0..m /\ n \in Nat
        BY <1>0, <3>2
      <4>2. <<g[n - 1], n>> \in Maps \X Nat
        BY <2>1, <4>1
      <4>3. X[<<g[n - 1], n>>] = go(g[n - 1])
        BY <4>2
      <4>4. go(g[n - 1]) = at(g, n)
        BY <3>2
      <4> QED BY <2>1, <4>1, <4>3, <4>4
    <3> QED BY <3>1, <3>2
  <2>3. g = [n \in 0..m |-> g[n]]
    BY <2>1
  <2> HIDE DEF at
  <2> QED BY <2>2, <2>3
<1>6. Is(F)
  <2> HIDE DEF Is
  <2> QED BY <1>5
<1>7. S!Grouped(A) = F[m][start]
  BY DEF S!Grouped, next, m
<1> HIDE DEF F
<1>8. \A n \in 0..m : F[n] = at(F, n)
  <2> HIDE DEF at
  <2> QED BY <1>6, ZenonT(20)
<1>9. F[0] = first /\ \A n \in 1..m : F[n] = go(F[n - 1])
  <2>1. 0 \in 0..m /\ \A n \in 1..m : n \in 0..m /\ n # 0
    BY <1>0
  <2> HIDE DEF V
  <2>2. at(F, 0) = first
    OBVIOUS
  <2>3. ASSUME NEW n \in 1..m PROVE at(F, n) = go(F[n - 1])
    BY <2>1
  <2> HIDE DEF at, go, first
  <2> QED BY <1>8, <2>1, <2>2, <2>3
<1>10. F[m] \in Maps
  <2> HIDE DEF first, go
  <2>1. F[0] \in Maps /\ \A n \in 1..m : F[n - 1] \in Maps => F[n] \in Maps
    BY <1>1, <1>2, <1>9
  <2>2. m \in 0..m
    BY <1>0
  <2> HIDE DEF Maps
  <2> QED BY <1>0, <2>1, <2>2, StaysGrouped
<1>11. start \in V /\ start \in Has
  <2>1. <<>> \in Seq(W) /\ <<>> \in Seq(SUBSET A)
    OBVIOUS
  <2> HIDE DEF W
  <2> QED BY <2>1
<1>12. F[m][start] \in Seq(W)
  <2> HIDE DEF V, W, Has, start, F, m
  <2> QED BY <1>10, <1>11
<1> QED BY <1>7, <1>12 DEF W

-----------------------------------------------------------------------------
(***************************************************************************)
(* The box of what is the outline of one thing.                            *)
(***************************************************************************)
LEMMA RegionIs ==
    ASSUME ShotsAssumption, shot \in Shots, PicInv
    PROVE  /\ S!Region.x \in Int /\ S!Region.y \in Int
           /\ S!Region.w = pic.from.w /\ S!Region.h = pic.from.h
           /\ S!Region.w \in Nat \ {0} /\ S!Region.h \in Nat \ {0}
<1>1. Sized(shot.monitor) /\ Framed(pic.from)
  BY DEF ShotsAssumption, PicInv
<1>2. S!Region = [x |-> shot.monitor.x + pic.from.x, y |-> shot.monitor.y + pic.from.y, w |-> pic.from.w, h |-> pic.from.h]
  BY DEF S!Region, S!Rect, S!Monitor
<1>3. /\ S!Region.x = shot.monitor.x + pic.from.x /\ S!Region.y = shot.monitor.y + pic.from.y
      /\ S!Region.w = pic.from.w /\ S!Region.h = pic.from.h
  BY <1>2
<1> QED BY <1>1, <1>3 DEF Sized, Framed

LEMMA ThingIs ==
    ASSUME ShotsAssumption, shot \in Shots, NEW i \in 1..Len(shot.things)
    PROVE  Sized(S!Thing(i))
BY DEF ShotsAssumption, S!Thing

LEMMA ThingsMany ==
    ASSUME ShotsAssumption, shot \in Shots
    PROVE  Len(shot.things) \in Nat
<1>1. shot.things \in Seq(T!ToSet(shot.things))
  BY DEF ShotsAssumption
<1> QED BY <1>1, LenProperties

(* Where one that is seen is on what is looked at, axis by axis.           *)
LEMMA SpotIs ==
    ASSUME SpotInv, NEW i \in 1..Len(shot.things), NEW t, t = S!Thing(i), NEW R, R = S!Region, NEW L, L = S!LookSize
    PROVE  /\ spots[i].x = S!Nearest(Offset(t.x, R.x) * L.w, R.w)
           /\ spots[i].w = S!Nearest(Ending(t.x, t.w, R.x, R.w) * L.w, R.w) - spots[i].x
           /\ spots[i].y = S!Nearest(Offset(t.y, R.y) * L.h, R.h)
           /\ spots[i].h = S!Nearest(Ending(t.y, t.h, R.y, R.h) * L.h, R.h) - spots[i].y
<1> DEFINE x == S!Between(t.x, t.w, R.x, R.w, L.w)
           y == S!Between(t.y, t.h, R.y, R.h, L.h)
<1>1. spots[i] = [x |-> x.lo, y |-> y.lo, w |-> x.n, h |-> y.n]
  BY DEF SpotInv, S!OnPicture, S!Rect
<1>2. x.lo = S!Nearest(Offset(t.x, R.x) * L.w, R.w) /\ x.n = S!Nearest(Ending(t.x, t.w, R.x, R.w) * L.w, R.w) - x.lo
  BY DEF S!Between, Offset, Ending
<1>3. y.lo = S!Nearest(Offset(t.y, R.y) * L.h, R.h) /\ y.n = S!Nearest(Ending(t.y, t.h, R.y, R.h) * L.h, R.h) - y.lo
  BY DEF S!Between, Offset, Ending
<1> HIDE DEF x, y
<1> QED BY <1>1, <1>2, <1>3

Spotted(i) ==
    LET t == S!Thing(i)  R == S!Region  L == S!LookSize  p == spots[i] IN
    /\ Shaded(R.w, L.w, t.x, t.w, R.x, p.x, p.w)
    /\ Shaded(R.h, L.h, t.y, t.h, R.y, p.y, p.h)

LEMMA SeatIs ==
    ASSUME ShotsAssumption, shot \in Shots, PicInv, SpotInv, NEW i \in 1..Len(shot.things), S!Visible(i)
    PROVE  Spotted(i) /\ Seats(i)
<1> DEFINE t == S!Thing(i)
           R == S!Region
           L == S!LookSize
           p == spots[i]
<1>1. /\ R.x \in Int /\ R.y \in Int /\ R.w \in Nat \ {0} /\ R.h \in Nat \ {0}
  BY RegionIs
<1>2. t.x \in Int /\ t.y \in Int /\ t.w \in Nat /\ t.h \in Nat
  BY ThingIs DEF Sized
<1>3. L.w \in Nat \ {0} /\ L.h \in Nat \ {0}
  BY LookIs
<1>4. /\ p.x = S!Nearest(Offset(t.x, R.x) * L.w, R.w)
      /\ p.w = S!Nearest(Ending(t.x, t.w, R.x, R.w) * L.w, R.w) - p.x
      /\ p.y = S!Nearest(Offset(t.y, R.y) * L.h, R.h)
      /\ p.h = S!Nearest(Ending(t.y, t.h, R.y, R.h) * L.h, R.h) - p.y
  BY SpotIs
<1>5. t.x < R.x + R.w /\ t.x + t.w > R.x /\ t.y < R.y + R.h /\ t.y + t.h > R.y /\ p.w > 0 /\ p.h > 0
  BY DEF S!Visible, S!Meet
<1> HIDE DEF t, R, L, p
<1>6. Shaded(R.w, L.w, t.x, t.w, R.x, p.x, p.w)
  BY <1>1, <1>2, <1>3, <1>4, <1>5 DEF Shaded
<1>7. Shaded(R.h, L.h, t.y, t.h, R.y, p.y, p.h)
  BY <1>1, <1>2, <1>3, <1>4, <1>5 DEF Shaded
<1>8. Seat(p.x, p.w, L.w)
  <2>1. p.x \in Nat /\ p.w \in Nat /\ p.x + p.w <= L.w
    BY <1>6, Shades
  <2> QED BY <1>3, <1>5, <2>1 DEF Seat
<1>9. Seat(p.y, p.h, L.h)
  <2>1. p.y \in Nat /\ p.h \in Nat /\ p.y + p.h <= L.h
    BY <1>7, Shades
  <2> QED BY <1>3, <1>5, <2>1 DEF Seat
<1> QED BY <1>6, <1>7, <1>8, <1>9 DEF Spotted, Seats, t, R, L, p

LEMMA AllSeated ==
    ASSUME ShotsAssumption, shot \in Shots, PicInv, SpotInv
    PROVE  Seated
BY SeatIs, ThingsMany DEF Seated

(* A box reaches over the columns and rows of its blocks.                  *)
Corners(g, x1, x2, y1, y2) ==
    /\ \A b \in g : x1 <= b[2] /\ b[2] <= x2 /\ y1 <= b[1] /\ b[1] <= y2
    /\ \E b \in g : b[2] = x1
    /\ \E b \in g : b[2] = x2
    /\ \E b \in g : b[1] = y1
    /\ \E b \in g : b[1] = y2
    /\ S!Box(g) = [x |-> x1 * S!Block, y |-> y1 * S!Block,
                   w |-> S!Least((x2 - x1 + 1) * S!Block, S!LookSize.w),
                   h |-> S!Least((y2 - y1 + 1) * S!Block, S!LookSize.h)]

LEMMA BoxIs ==
    ASSUME PicInv, NEW g \in SUBSET AllBlocks, g # {}
    PROVE  \E x1, x2, y1, y2 : Corners(g, x1, x2, y1, y2)
<1> DEFINE xs == {b[2] : b \in g}
           ys == {b[1] : b \in g}
<1>1. S!LookSize.w \in Nat \ {0} /\ S!LookSize.h \in Nat \ {0}
  BY LookIs
<1>2. \A b \in g : b[2] \in Nat /\ b[2] <= S!LookSize.w /\ b[1] \in Nat /\ b[1] <= S!LookSize.h
  <2> TAKE b \in g
  <2>1. Block(S!LookSize.h, b[1]) /\ Block(S!LookSize.w, b[2])
    BY BlocksAre
  <2> QED BY <1>1, <2>1 DEF Block, S!Block
<1>3. xs \in SUBSET Nat /\ xs # {} /\ (\A x \in xs : x <= S!LookSize.w)
  BY <1>2
<1>4. ys \in SUBSET Nat /\ ys # {} /\ (\A y \in ys : y <= S!LookSize.h)
  BY <1>2
<1>5. S!Min(xs) \in xs /\ S!Max(xs) \in xs /\ \A x \in xs : S!Min(xs) <= x /\ x <= S!Max(xs)
  <2> HIDE DEF xs
  <2> QED BY <1>1, <1>3, MinIs, MaxIs
<1>6. S!Min(ys) \in ys /\ S!Max(ys) \in ys /\ \A y \in ys : S!Min(ys) <= y /\ y <= S!Max(ys)
  <2> HIDE DEF ys
  <2> QED BY <1>1, <1>4, MinIs, MaxIs
<1> DEFINE x1 == S!Min(xs)
           x2 == S!Max(xs)
           y1 == S!Min(ys)
           y2 == S!Max(ys)
<1>7. S!Box(g) = [x |-> x1 * S!Block, y |-> y1 * S!Block,
                  w |-> S!Least((x2 - x1 + 1) * S!Block, S!LookSize.w),
                  h |-> S!Least((y2 - y1 + 1) * S!Block, S!LookSize.h)]
  BY DEF S!Box, S!Rect
<1> HIDE DEF x1, x2, y1, y2
<1>8. \A b \in g : x1 <= b[2] /\ b[2] <= x2 /\ y1 <= b[1] /\ b[1] <= y2
  BY <1>5, <1>6 DEF x1, x2, y1, y2
<1>9. (\E b \in g : b[2] = x1) /\ (\E b \in g : b[2] = x2)
  <2>1. x1 \in xs /\ x2 \in xs
    BY <1>5 DEF x1, x2
  <2> QED BY <2>1
<1>10. (\E b \in g : b[1] = y1) /\ (\E b \in g : b[1] = y2)
  <2>1. y1 \in ys /\ y2 \in ys
    BY <1>6 DEF y1, y2
  <2> QED BY <2>1
<1>11. Corners(g, x1, x2, y1, y2)
  BY <1>7, <1>8, <1>9, <1>10 DEF Corners
<1> QED BY <1>11

(* Along one axis: if every block that is sure to have much of the outline *)
(* is of the box, and none of the box is far from the thing, then the box  *)
(* is where the thing is.                                                  *)
Boxed(M, lo, n, B, N) ==
    /\ B \in Nat /\ N \in Nat /\ B <= M /\ N <= M
    /\ B <= lo /\ lo <= B + 17 /\ lo + n <= B + N + 5 /\ B + N <= lo + n + 16
Ends(M, lo, n, c, d) ==
    /\ Block(M, c) /\ Block(M, d) /\ c <= d
    /\ \A e : Long(lo, n, M, e) => c <= e /\ e <= d
    /\ lo <= 16 * c + 17 /\ 16 * d + 16 <= lo + n + 16

LEMMA Covers ==
    ASSUME NEW M, NEW lo, NEW n, NEW c, NEW d, Seat(lo, n, M), Ends(M, lo, n, c, d),
           \A e : Side(lo, n, M, e) => c <= e /\ e <= d,
           NEW B, B = c * S!Block, NEW N, N = S!Least((d - c + 1) * S!Block, M),
           100 * N <= 85 * M \/ 10 * N <= 6 * M
    PROVE  Boxed(M, lo, n, B, N)
<1>1. /\ lo \in Nat /\ n \in Nat \ {0} /\ M \in Nat \ {0} /\ lo + n <= M
      /\ c \in Nat /\ 16 * c < M /\ d \in Nat /\ 16 * d < M /\ c <= d
      /\ lo <= 16 * c + 17 /\ 16 * d + 16 <= lo + n + 16
  BY DEF Seat, Ends, Block, S!Block
<1>2. \A e : Side(lo, n, M, e) \/ Long(lo, n, M, e) => c <= e /\ e <= d
  BY DEF Ends
<1>3. 16 * c <= lo
  <2>1. CASE lo = 0
    <3>1. Long(lo, n, M, 0)
      BY <2>1 DEF Long
    <3> QED BY <1>1, <1>2, <3>1
  <2>2. CASE lo # 0
    <3>1. Side(lo, n, M, (lo - 1) \div 16)
      BY <2>2 DEF Side
    <3>2. c <= (lo - 1) \div 16
      BY <1>2, <3>1
    <3> QED BY <1>1, <2>2, <3>2
  <2> QED BY <2>1, <2>2
<1>4. lo + n <= 16 * d + 21
  <2>1. CASE lo + n = M
    <3>1. Long(lo, n, M, (M - 6) \div 16)
      BY <2>1 DEF Long
    <3>2. (M - 6) \div 16 <= d
      BY <1>2, <3>1
    <3> QED BY <1>1, <2>1, <3>2
  <2>2. CASE lo + n # M
    <3>1. Side(lo, n, M, (lo + n - 1) \div 16)
      BY <2>2 DEF Side
    <3>2. (lo + n - 1) \div 16 <= d
      BY <1>2, <3>1
    <3> QED BY <1>1, <2>2, <3>2
  <2> QED BY <2>1, <2>2
<1>5. N = 16 * (d - c + 1) /\ B = 16 * c
  BY <1>1 DEF S!Least, S!Block
<1> QED BY <1>1, <1>3, <1>4, <1>5 DEF Boxed, S!Least, S!Block

(* One that goes from border to border is taken for the background.        *)
LEMMA Full ==
    ASSUME NEW M, NEW lo, NEW n, NEW c, NEW d, Seat(lo, n, M), Ends(M, lo, n, c, d), 30 <= n,
           lo = 0, lo + n = M, NEW N, N = S!Least((d - c + 1) * S!Block, M)
    PROVE  ~(100 * N <= 85 * M) /\ ~(10 * N <= 6 * M)
<1>1. M \in Nat /\ 30 <= M /\ c \in Nat /\ d \in Nat /\ 16 * d < M
  BY DEF Seat, Ends, Block, S!Block
<1>2. Long(lo, n, M, 0) /\ Long(lo, n, M, (M - 6) \div 16)
  BY DEF Long
<1>3. c <= 0 /\ (M - 6) \div 16 <= d
  BY <1>2 DEF Ends
<1>4. c = 0 /\ M - 5 <= 16 * d + 16
  BY <1>1, <1>3
<1>5. N = S!Least(16 * d + 16, M)
  BY <1>1, <1>4 DEF S!Block
<1>6. CASE 16 * d + 16 < M
  BY <1>1, <1>4, <1>5, <1>6 DEF S!Least
<1>7. CASE ~(16 * d + 16 < M)
  BY <1>1, <1>4, <1>5, <1>7 DEF S!Least
<1> QED BY <1>6, <1>7

(* and has no side at all.                                                 *)
LEMMA Sideless ==
    ASSUME NEW M, NEW lo, NEW n, NEW c, Seat(lo, n, M), lo = 0, lo + n = M, Block(M, c), NEW k \in -1..2
    PROVE  Across(lo, n, M, c, k) = Across(lo, n, M, c, 0)
<1>1. lo \in Nat /\ n \in Nat \ {0} /\ M \in Nat \ {0} /\ c \in Nat /\ 16 * c < M
  BY DEF Seat, Block, S!Block
<1> DEFINE f == IF lo = 0 THEN -16 ELSE lo
           t == IF lo + n = M THEN M + 16 ELSE lo + n
           e == IF M - 16 * c < 16 THEN M ELSE 16 * c + 16
<1>2. /\ Across(lo, n, M, c, k) = Overlap(f - k, t + k - 1, 16 * c, e)
      /\ Across(lo, n, M, c, 0) = Overlap(f - 0, t + 0 - 1, 16 * c, e)
  BY AcrossIs
<1> QED BY <1>1, <1>2 DEF Overlap, S!Most, S!Least

LEMMA Barren ==
    ASSUME NEW i, Seats(i), S!Visible(i), NEW p, p = spots[i], NEW L, L = S!LookSize,
           p.x = 0, p.x + p.w = L.w, p.y = 0, p.y + p.h = L.h,
           NEW b, Block(L.w, b[2]), Block(L.h, b[1]), NEW k \in 0..1
    PROVE  ~(S!Edges(i, b, k) > 0)
<1> DEFINE x(j) == Across(p.x, p.w, L.w, b[2], j)
           y(j) == Across(p.y, p.h, L.h, b[1], j)
<1>1. Seat(p.x, p.w, L.w) /\ Seat(p.y, p.h, L.h)
  BY DEF Seats
<1>2. S!Edges(i, b, k) = x(k + 1) * y(k + 1) - x(-k) * y(-k) - (IF k = 0 /\ OnCorner(i, b) THEN 1 ELSE 0)
  BY <1>1, EdgesIs
<1>3. k + 1 \in -1..2 /\ -k \in -1..2 /\ 0 \in Int
  OBVIOUS
<1>4. x(k + 1) = x(0) /\ x(-k) = x(0) /\ x(0) \in Nat
  BY <1>1, <1>3, Sideless, Grows
<1>5. y(k + 1) = y(0) /\ y(-k) = y(0) /\ y(0) \in Nat
  BY <1>1, <1>3, Sideless, Grows
<1> HIDE DEF x, y
<1>6. x(0) * y(0) \in Nat
  BY <1>4, <1>5, ProductNat
<1> QED BY <1>2, <1>4, <1>5, <1>6

LEMMA LitBoxed ==
    ASSUME Seated, NEW glow, NEW i \in 1..Len(shot.things), NEW p, p = spots[i], NEW L, L = S!LookSize,
           30 <= p.w, 30 <= p.h, NEW g, g = S!Lit(glow)[i], g # {}, S!Found(g)
    PROVE  Boxed(L.w, p.x, p.w, S!Box(g).x, S!Box(g).w) /\ Boxed(L.h, p.y, p.h, S!Box(g).y, S!Box(g).h)
<1>1. PicInv /\ L.w \in Nat \ {0} /\ L.h \in Nat \ {0}
  BY LookIs DEF Seated
<1>2. /\ S!Visible(i) /\ g \in SUBSET AllBlocks
      /\ \A b \in g : /\ p.x <= 16 * b[2] + 17 /\ 16 * b[2] + 16 <= p.x + p.w + 16
                      /\ p.y <= 16 * b[1] + 17 /\ 16 * b[1] + 16 <= p.y + p.h + 16
                      /\ S!Edges(i, b, S!Blur) > 0
  BY LitIs
<1>3. Seats(i) /\ Seat(p.x, p.w, L.w) /\ Seat(p.y, p.h, L.h)
  BY <1>2 DEF Seated, Seats
<1>4. PICK x1, x2, y1, y2 : Corners(g, x1, x2, y1, y2)
  BY <1>1, <1>2, BoxIs
<1>5. \A b \in g : x1 <= b[2] /\ b[2] <= x2 /\ y1 <= b[1] /\ b[1] <= y2
  BY <1>4 DEF Corners
<1>6. \A b \in g : Block(L.h, b[1]) /\ Block(L.w, b[2])
  BY <1>1, <1>2, BlocksAre
<1>7. /\ Block(L.w, x1) /\ Block(L.w, x2) /\ x1 <= x2
      /\ p.x <= 16 * x1 + 17 /\ 16 * x2 + 16 <= p.x + p.w + 16
  <2>1. PICK b \in g : b[2] = x1
    BY <1>4 DEF Corners
  <2>2. PICK c \in g : c[2] = x2
    BY <1>4 DEF Corners
  <2> QED BY <1>2, <1>5, <1>6, <2>1, <2>2
<1>8. /\ Block(L.h, y1) /\ Block(L.h, y2) /\ y1 <= y2
      /\ p.y <= 16 * y1 + 17 /\ 16 * y2 + 16 <= p.y + p.h + 16
  <2>1. PICK b \in g : b[1] = y1
    BY <1>4 DEF Corners
  <2>2. PICK c \in g : c[1] = y2
    BY <1>4 DEF Corners
  <2> QED BY <1>2, <1>5, <1>6, <2>1, <2>2
<1>9. /\ S!Box(g).x = x1 * S!Block /\ S!Box(g).w = S!Least((x2 - x1 + 1) * S!Block, L.w)
      /\ S!Box(g).y = y1 * S!Block /\ S!Box(g).h = S!Least((y2 - y1 + 1) * S!Block, L.h)
  BY <1>4 DEF Corners
<1>10. 100 * S!Box(g).w <= 85 * L.w /\ 10 * S!Box(g).h <= 6 * L.h
  BY DEF S!Found
<1>11. ASSUME NEW r, NEW c, \/ Long(p.y, p.h, L.h, r) /\ Side(p.x, p.w, L.w, c)
                            \/ Side(p.y, p.h, L.h, r) /\ Long(p.x, p.w, L.w, c)
       PROVE  x1 <= c /\ c <= x2 /\ y1 <= r /\ r <= y2
  <2> DEFINE b == <<r, c>>
  <2>0. b[1] = r /\ b[2] = c /\ b = <<b[1], b[2]>>
    OBVIOUS
  <2> HIDE DEF b
  <2>1. CASE Long(p.y, p.h, L.h, b[1]) /\ Side(p.x, p.w, L.w, b[2])
    <3>1. Block(L.h, b[1]) /\ 6 <= Across(p.y, p.h, L.h, b[1], 1)
      BY <1>3, <2>1, LongIs
    <3>2. Block(L.w, b[2]) /\ Across(p.x, p.w, L.w, b[2], 0) + 1 <= Across(p.x, p.w, L.w, b[2], 1)
      BY <1>3, <2>1, SideIs
    <3> QED BY <3>1, <3>2, <1>1, <2>0, <1>2, <1>5, BlocksAre, LitHas DEF Crossed
  <2>2. CASE Side(p.y, p.h, L.h, b[1]) /\ Long(p.x, p.w, L.w, b[2])
    <3>1. Block(L.w, b[2]) /\ 6 <= Across(p.x, p.w, L.w, b[2], 1)
      BY <1>3, <2>2, LongIs
    <3>2. Block(L.h, b[1]) /\ Across(p.y, p.h, L.h, b[1], 0) + 1 <= Across(p.y, p.h, L.h, b[1], 1)
      BY <1>3, <2>2, SideIs
    <3> QED BY <3>1, <3>2, <1>1, <2>0, <1>2, <1>5, BlocksAre, LitHas DEF Crossed
  <2> QED BY <1>11, <2>0, <2>1, <2>2
<1>12. /\ \E e : Long(p.x, p.w, L.w, e)
       /\ \E e : Long(p.y, p.h, L.h, e)
  BY DEF Long
<1>13. /\ ~(\E e : Side(p.x, p.w, L.w, e)) => p.x = 0 /\ p.x + p.w = L.w
       /\ ~(\E e : Side(p.y, p.h, L.h, e)) => p.y = 0 /\ p.y + p.h = L.h
  BY DEF Side
<1>14. (\E e : Side(p.y, p.h, L.h, e)) => Ends(L.w, p.x, p.w, x1, x2)
  BY <1>7, <1>11 DEF Ends
<1>15. (\E e : Side(p.x, p.w, L.w, e)) => Ends(L.h, p.y, p.h, y1, y2)
  BY <1>8, <1>11 DEF Ends
<1>16. CASE ~(\E e : Side(p.x, p.w, L.w, e)) /\ ~(\E e : Side(p.y, p.h, L.h, e))
  <2>1. PICK b \in g : S!Edges(i, b, S!Blur) > 0
    BY <1>2
  <2> QED BY <1>2, <1>3, <1>6, <1>13, <1>16, <2>1, BlurIs, Barren
<1>17. CASE ~(\E e : Side(p.x, p.w, L.w, e)) /\ (\E e : Side(p.y, p.h, L.h, e))
  BY <1>3, <1>9, <1>10, <1>13, <1>14, <1>17, Full
<1>18. CASE (\E e : Side(p.x, p.w, L.w, e)) /\ ~(\E e : Side(p.y, p.h, L.h, e))
  BY <1>3, <1>9, <1>10, <1>13, <1>15, <1>18, Full
<1>19. CASE (\E e : Side(p.x, p.w, L.w, e)) /\ (\E e : Side(p.y, p.h, L.h, e))
  <2>1. \A e : Side(p.x, p.w, L.w, e) => x1 <= e /\ e <= x2
    BY <1>11, <1>12
  <2>2. \A e : Side(p.y, p.h, L.h, e) => y1 <= e /\ e <= y2
    BY <1>11, <1>12
  <2>3. Boxed(L.w, p.x, p.w, S!Box(g).x, S!Box(g).w)
    BY <1>3, <1>9, <1>10, <1>14, <1>19, <2>1, Covers
  <2>4. Boxed(L.h, p.y, p.h, S!Box(g).y, S!Box(g).h)
    BY <1>3, <1>9, <1>10, <1>15, <1>19, <2>2, Covers
  <2> QED BY <2>3, <2>4
<1> QED BY <1>16, <1>17, <1>18, <1>19

-----------------------------------------------------------------------------
(***************************************************************************)
(* The mark of a box, on the screen. It is a rectangle of it,              *)
(***************************************************************************)
LEMMA AxisIs ==
    ASSUME NEW H, NEW Q, NEW M, NEW W, NEW P, NEW num, NEW den, Sizes(H, Q, M, W, P, num, den),
           NEW l, NEW k, NEW f, NEW lo, NEW n, Shaded(H, M, l, k, f, lo, n),
           NEW B, NEW N, Boxed(M, lo, n, B, N)
    PROVE  Axis(H, M, Offset(l, f), Ending(l, k, f, H), lo, n, B, N,
                S!Round(ToPicture(B, Q, M, P) * den, num), S!Round(ToPicture(N, Q, M, P) * den, num))
<1> DEFINE a == Offset(l, f)
           b == Ending(l, k, f, H)
           u == S!Round(ToPicture(B, Q, M, P) * den, num)
           v == S!Round(ToPicture(N, Q, M, P) * den, num)
<1>1. H \in Nat \ {0} /\ M \in Nat \ {0} /\ M <= H
  BY DEF Sizes, Shaded
<1>2. /\ a \in Nat /\ b \in Nat /\ lo \in Nat /\ n \in Nat
      /\ Near(2 * (M * a), 2 * (H * lo), H) /\ Near(2 * (M * b), 2 * (H * (lo + n)), H)
  BY Shades
<1>3. /\ B \in Nat /\ N \in Nat /\ B <= M /\ N <= M
      /\ B <= lo /\ lo <= B + 17 /\ lo + n <= B + N + 5 /\ B + N <= lo + n + 16
  BY DEF Boxed
<1>4. u \in Nat /\ Near(M * u, H * B, 2 * H)
  BY <1>3, Carried
<1>5. v \in Nat /\ Near(M * v, H * N, 2 * H)
  BY <1>3, Carried
<1> HIDE DEF u, v, a, b
<1>6. Axis(H, M, a, b, lo, n, B, N, u, v)
  BY <1>1, <1>2, <1>3, <1>4, <1>5 DEF Axis
<1> QED BY <1>6 DEF a, b, u, v

LEMMA MarkIs ==
    ASSUME NEW i, NEW R, R = S!Region, NEW L, L = S!LookSize, NEW b, NEW m, m = S!VisualMark(b, i),
           pic.w <= S!Detection => b = [x |-> b.x, y |-> b.y, w |-> b.w, h |-> b.h]
    PROVE  LET to(n, q, l) == S!Round(ToPicture(n, q, l, pic.w) * pic.den, pic.num) IN
           /\ m.of = i
           /\ m.rect.x = R.x + to(b.x, pic.w, L.w) /\ m.rect.w = to(b.w, pic.w, L.w)
           /\ m.rect.y = R.y + to(b.y, pic.h, L.h) /\ m.rect.h = to(b.h, pic.h, L.h)
<1> DEFINE c == S!Back(b)
           un(n) == S!Round(n * pic.den, pic.num)
<1>1. /\ c.x = ToPicture(b.x, pic.w, L.w, pic.w) /\ c.w = ToPicture(b.w, pic.w, L.w, pic.w)
      /\ c.y = ToPicture(b.y, pic.h, L.h, pic.w) /\ c.h = ToPicture(b.h, pic.h, L.h, pic.w)
  BY DEF S!Back, S!Rect, ToPicture
<1> HIDE DEF c
<1>2. m = [rect |-> [x |-> R.x + un(c.x), y |-> R.y + un(c.y), w |-> un(c.w), h |-> un(c.h)], of |-> i]
  BY DEF S!VisualMark, S!Mark, S!Rect, S!Unscaled, c
<1>3. /\ m.of = i /\ m.rect.x = R.x + un(c.x) /\ m.rect.y = R.y + un(c.y)
      /\ m.rect.w = un(c.w) /\ m.rect.h = un(c.h)
  BY <1>2
<1> QED BY <1>1, <1>3


(* whatever box it is of;                                                  *)
LEMMA ScaleIs ==
    ASSUME ShotsAssumption, shot \in Shots, PicInv, S!Upright, 24 <= pic.w, 24 <= pic.h
    PROVE  /\ Sizes(S!Region.w, pic.w, S!LookSize.w, pic.from.w, pic.w, pic.num, pic.den)
           /\ Sizes(S!Region.h, pic.h, S!LookSize.h, pic.from.w, pic.w, pic.num, pic.den)
<1> DEFINE R == S!Region
           L == S!LookSize
           W == pic.from.w
<1>1. R.w = W /\ R.h = pic.from.h /\ R.w \in Nat \ {0} /\ R.h \in Nat \ {0}
  BY RegionIs
<1>2. /\ L.w \in Nat \ {0} /\ L.h \in Nat \ {0} /\ L.w <= pic.w /\ L.h <= pic.h
      /\ pic.w <= S!Detection => L.w = pic.w /\ L.h = pic.h
  BY LookIs
<1>3. /\ pic.w \in Nat \ {0} /\ pic.h \in Nat \ {0} /\ W \in Nat \ {0} /\ pic.from.h \in Nat \ {0}
      /\ pic.num \in Nat \ {0} /\ pic.den \in Nat \ {0}
      /\ (pic.num = 1 /\ pic.den = 1 /\ pic.w = W) \/ (pic.num = pic.w /\ pic.den = W)
  BY DEF PicInv, Framed
<1>4. /\ pic.w <= W /\ pic.h <= pic.from.h
      /\ Near(2 * (W * pic.h), 2 * (pic.from.h * pic.w), W)
  BY Proportion
<1>5. Near(2 * (W * pic.w), 2 * (W * pic.w), W)
  BY <1>3 DEF Near
<1> HIDE DEF R, L, W
<1>6. Sizes(R.w, pic.w, L.w, W, pic.w, pic.num, pic.den)
  BY <1>1, <1>2, <1>3, <1>4, <1>5 DEF Sizes
<1>7. Sizes(R.h, pic.h, L.h, W, pic.w, pic.num, pic.den)
  BY <1>1, <1>2, <1>3, <1>4 DEF Sizes
<1> QED BY <1>6, <1>7 DEF R, L, W

LEMMA BlocksSpan ==
    ASSUME NEW M \in Nat \ {0}, NEW c, NEW d, Block(M, c), Block(M, d), c <= d,
           NEW B, B = c * S!Block, NEW N, N = S!Least((d - c + 1) * S!Block, M)
    PROVE  B \in Nat /\ B <= M /\ N \in Nat \ {0} /\ N <= M
<1>1. c \in Nat /\ d \in Nat /\ 16 * c < M /\ c <= d /\ B = 16 * c /\ N = S!Least(16 * (d - c + 1), M)
  BY DEF Block, S!Block
<1> QED BY <1>1 DEF S!Least

LEMMA VisualWhole ==
    ASSUME ShotsAssumption, shot \in Shots, PicInv, S!Upright, 24 <= pic.w, 24 <= pic.h,
           NEW g \in SUBSET AllBlocks, g # {}, NEW i
    PROVE  Whole(S!VisualMark(S!Box(g), i).rect) /\ S!VisualMark(S!Box(g), i).of = i
<1> DEFINE R == S!Region
           L == S!LookSize
           b == S!Box(g)
           m == S!VisualMark(b, i)
           to(n, q, l) == S!Round(ToPicture(n, q, l, pic.w) * pic.den, pic.num)
<1>1. PICK x1, x2, y1, y2 : Corners(g, x1, x2, y1, y2)
  BY BoxIs
<1>2. L.w \in Nat \ {0} /\ L.h \in Nat \ {0}
  BY LookIs
<1>3. \A c \in g : Block(L.h, c[1]) /\ Block(L.w, c[2])
  BY BlocksAre
<1>4. Block(L.w, x1) /\ Block(L.w, x2) /\ x1 <= x2 /\ Block(L.h, y1) /\ Block(L.h, y2) /\ y1 <= y2
  <2>1. (\E c \in g : c[2] = x1 /\ c[2] <= x2) /\ (\E c \in g : c[2] = x2)
    BY <1>1 DEF Corners
  <2>2. (\E c \in g : c[1] = y1 /\ c[1] <= y2) /\ (\E c \in g : c[1] = y2)
    BY <1>1 DEF Corners
  <2> QED BY <1>3, <2>1, <2>2
<1>5. b = [x |-> x1 * S!Block, y |-> y1 * S!Block,
           w |-> S!Least((x2 - x1 + 1) * S!Block, L.w), h |-> S!Least((y2 - y1 + 1) * S!Block, L.h)]
  BY <1>1 DEF Corners
<1> HIDE DEF b, L
<1>6. /\ b.x = x1 * S!Block /\ b.w = S!Least((x2 - x1 + 1) * S!Block, L.w)
      /\ b.y = y1 * S!Block /\ b.h = S!Least((y2 - y1 + 1) * S!Block, L.h)
      /\ b = [x |-> b.x, y |-> b.y, w |-> b.w, h |-> b.h]
  BY <1>5
<1>7. b.x \in Nat /\ b.x <= L.w /\ b.w \in Nat /\ b.w <= L.w
  BY <1>2, <1>4, <1>6, BlocksSpan
<1>8. b.y \in Nat /\ b.y <= L.h /\ b.h \in Nat /\ b.h <= L.h
  BY <1>2, <1>4, <1>6, BlocksSpan
<1>9. /\ Sizes(R.w, pic.w, L.w, pic.from.w, pic.w, pic.num, pic.den)
      /\ Sizes(R.h, pic.h, L.h, pic.from.w, pic.w, pic.num, pic.den)
  BY ScaleIs DEF L
<1>10. to(b.x, pic.w, L.w) \in Nat /\ to(b.w, pic.w, L.w) \in Nat
  BY <1>7, <1>9, Carried
<1>11. to(b.y, pic.h, L.h) \in Nat /\ to(b.h, pic.h, L.h) \in Nat
  BY <1>8, <1>9, Carried
<1>12. /\ m.of = i
       /\ m.rect.x = R.x + to(b.x, pic.w, L.w) /\ m.rect.w = to(b.w, pic.w, L.w)
       /\ m.rect.y = R.y + to(b.y, pic.h, L.h) /\ m.rect.h = to(b.h, pic.h, L.h)
  BY <1>6, MarkIs DEF L
<1>13. R.x \in Int /\ R.y \in Int
  BY RegionIs
<1> HIDE DEF to, m, R
<1>14. Whole(m.rect) /\ m.of = i
  BY <1>10, <1>11, <1>12, <1>13 DEF Whole
<1> QED BY <1>14 DEF m, b

(* and of one where the thing is, it is where the thing is, axis by axis.  *)
Axes(m, i) ==
    LET t == S!Thing(i)  R == S!Region  L == S!LookSize  p == spots[i] IN
    /\ \E B, N, u, v : /\ Axis(R.w, L.w, Offset(t.x, R.x), Ending(t.x, t.w, R.x, R.w), p.x, p.w, B, N, u, v)
                       /\ m.rect.x = R.x + u /\ m.rect.w = v
    /\ \E B, N, u, v : /\ Axis(R.h, L.h, Offset(t.y, R.y), Ending(t.y, t.h, R.y, R.h), p.y, p.h, B, N, u, v)
                       /\ m.rect.y = R.y + u /\ m.rect.h = v

LEMMA AxesHold ==
    ASSUME ShotsAssumption, shot \in Shots, PicInv, SpotInv, S!Upright, 24 <= pic.w, 24 <= pic.h,
           NEW i \in 1..Len(shot.things), Spotted(i), NEW g, NEW b, b = S!Box(g),
           Boxed(S!LookSize.w, spots[i].x, spots[i].w, b.x, b.w),
           Boxed(S!LookSize.h, spots[i].y, spots[i].h, b.y, b.h)
    PROVE  Axes(S!VisualMark(b, i), i)
<1> DEFINE t == S!Thing(i)
           R == S!Region
           L == S!LookSize
           p == spots[i]
           m == S!VisualMark(b, i)
           to(n, q, l) == S!Round(ToPicture(n, q, l, pic.w) * pic.den, pic.num)
<1>1. b = [x |-> b.x, y |-> b.y, w |-> b.w, h |-> b.h]
  BY DEF S!Box, S!Rect
<1>2. /\ m.rect.x = R.x + to(b.x, pic.w, L.w) /\ m.rect.w = to(b.w, pic.w, L.w)
      /\ m.rect.y = R.y + to(b.y, pic.h, L.h) /\ m.rect.h = to(b.h, pic.h, L.h)
  BY <1>1, MarkIs
<1>3. /\ Sizes(R.w, pic.w, L.w, pic.from.w, pic.w, pic.num, pic.den)
      /\ Sizes(R.h, pic.h, L.h, pic.from.w, pic.w, pic.num, pic.den)
  BY ScaleIs
<1>4. Shaded(R.w, L.w, t.x, t.w, R.x, p.x, p.w) /\ Shaded(R.h, L.h, t.y, t.h, R.y, p.y, p.h)
  BY DEF Spotted
<1>a. Boxed(L.w, p.x, p.w, b.x, b.w) /\ Boxed(L.h, p.y, p.h, b.y, b.h)
  OBVIOUS
<1> HIDE DEF t, R, L, p, m
<1>5. Axis(R.w, L.w, Offset(t.x, R.x), Ending(t.x, t.w, R.x, R.w), p.x, p.w, b.x, b.w,
           to(b.x, pic.w, L.w), to(b.w, pic.w, L.w))
  BY ONLY <1>3, <1>4, <1>a, AxisIs
<1>6. Axis(R.h, L.h, Offset(t.y, R.y), Ending(t.y, t.h, R.y, R.h), p.y, p.h, b.y, b.h,
           to(b.y, pic.h, L.h), to(b.h, pic.h, L.h))
  BY ONLY <1>3, <1>4, <1>a, AxisIs
<1> HIDE DEF to
<1> QED BY <1>2, <1>5, <1>6 DEF Axes, t, R, L, p, m

(* The center of the mark of a box is on the thing.                        *)
LEMMA AxisHit ==
    ASSUME NEW H, NEW M, NEW l \in Int, NEW k \in Nat, NEW f \in Int, NEW lo, NEW n, NEW B, NEW N, NEW u, NEW v,
           Axis(H, M, Offset(l, f), Ending(l, k, f, H), lo, n, B, N, u, v), 30 <= n
    PROVE  l <= f + u + v \div 2 /\ f + u + v \div 2 < l + k
<1> DEFINE a == Offset(l, f)
           b == Ending(l, k, f, H)
           c == v \div 2
<1>1. a <= u + c /\ u + c < b
  BY CenterHits
<1>2. H \in Nat /\ u \in Nat /\ v \in Nat /\ c \in Nat
  BY DEF Axis
<1> HIDE DEF c
<1>3. l <= f + u + c /\ f + u + c < l + k
  BY <1>1, <1>2 DEF Offset, Ending, S!Most, S!Least
<1> QED BY <1>3 DEF c

LEMMA VisualHits ==
    ASSUME ShotsAssumption, shot \in Shots, PicInv, NEW i \in 1..Len(shot.things), NEW m, Axes(m, i),
           30 <= spots[i].w, 30 <= spots[i].h
    PROVE  S!Lies(S!Center(m.rect), S!Thing(i))
<1> DEFINE t == S!Thing(i)
           R == S!Region
           r == m.rect
           c == S!Center(r)
<1>1. R.x \in Int /\ R.y \in Int
  BY RegionIs
<1>2. t.x \in Int /\ t.y \in Int /\ t.w \in Nat /\ t.h \in Nat
  BY ThingIs DEF Sized
<1>3. PICK B, N, u, v : /\ Axis(R.w, S!LookSize.w, Offset(t.x, R.x), Ending(t.x, t.w, R.x, R.w), spots[i].x, spots[i].w, B, N, u, v)
                        /\ r.x = R.x + u /\ r.w = v
  BY DEF Axes
<1>4. PICK B2, N2, u2, v2 : /\ Axis(R.h, S!LookSize.h, Offset(t.y, R.y), Ending(t.y, t.h, R.y, R.h), spots[i].y, spots[i].h, B2, N2, u2, v2)
                            /\ r.y = R.y + u2 /\ r.h = v2
  BY DEF Axes
<1>5. c.x = r.x + r.w \div 2 /\ c.y = r.y + r.h \div 2
  BY DEF S!Center
<1> HIDE DEF c, r, t, R
<1>6. t.x <= R.x + u + v \div 2 /\ R.x + u + v \div 2 < t.x + t.w
  BY <1>1, <1>2, <1>3, AxisHit
<1>7. t.y <= R.y + u2 + v2 \div 2 /\ R.y + u2 + v2 \div 2 < t.y + t.h
  BY <1>1, <1>2, <1>4, AxisHit
<1>8. S!Lies(c, t)
  BY <1>3, <1>4, <1>5, <1>6, <1>7 DEF S!Lies
<1> QED BY <1>8 DEF c, r, t
(* One that is within the region has more in common with the mark of its   *)
(* box than hybrid allows.                                                 *)
Spanned(H, M, l, k, f, lo, n, B, N, u, v, s) ==
    /\ Axis(H, M, Offset(l, f), Ending(l, k, f, H), lo, n, B, N, u, v) /\ 50 <= n
    /\ l \in Int /\ k \in Nat /\ f \in Int /\ f <= l /\ l + k <= f + H /\ s = S!Span(f + u, v, l, k)

LEMMA AxisSpan ==
    ASSUME NEW H, NEW M, NEW l, NEW k, NEW f, NEW lo, NEW n, NEW B, NEW N, NEW u, NEW v, NEW s,
           Spanned(H, M, l, k, f, lo, n, B, N, u, v, s)
    PROVE  s \in Nat \ {0} /\ v \in Nat /\ Mostly(s, k, v)
<1>0. /\ Axis(H, M, Offset(l, f), Ending(l, k, f, H), lo, n, B, N, u, v) /\ 50 <= n
      /\ l \in Int /\ k \in Nat /\ f \in Int /\ f <= l /\ l + k <= f + H /\ s = S!Span(f + u, v, l, k)
  BY DEF Spanned
<1> DEFINE a == Offset(l, f)
           b == Ending(l, k, f, H)
<1>1. H \in Nat /\ v \in Nat
  BY <1>0 DEF Axis
<1>2. f + a = l /\ b - a = k
  BY <1>0, <1>1 DEF Offset, Ending, S!Most, S!Least
<1> HIDE DEF a, b
<1>3. Axis(H, M, a, b, lo, n, B, N, u, v)
  BY <1>0 DEF a, b
<1>4. s = S!Span(f + u, v, f + a, b - a)
  BY <1>0, <1>2
<1>5. s \in Nat \ {0} /\ Mostly(s, b - a, v)
  BY <1>0, <1>3, <1>4, SpanCovers
<1> QED BY <1>1, <1>2, <1>5

LEMMA VisualOverlaps ==
    ASSUME ShotsAssumption, shot \in Shots, PicInv, NEW i \in 1..Len(shot.things), NEW z, Axes(z, i),
           50 <= spots[i].w, 50 <= spots[i].h, S!Within(S!Thing(i)),
           NEW m, m.rect = S!Thing(i)
    PROVE  S!Overlaps(z, m, 25)
<1> DEFINE t == S!Thing(i)
           R == S!Region
           r == z.rect
<1>1. R.x \in Int /\ R.y \in Int
  BY RegionIs
<1>2. t.x \in Int /\ t.y \in Int /\ t.w \in Nat /\ t.h \in Nat
  BY ThingIs DEF Sized
<1>3. PICK B, N, u, v : /\ Axis(R.w, S!LookSize.w, Offset(t.x, R.x), Ending(t.x, t.w, R.x, R.w), spots[i].x, spots[i].w, B, N, u, v)
                        /\ r.x = R.x + u /\ r.w = v
  BY DEF Axes
<1>4. PICK B2, N2, u2, v2 : /\ Axis(R.h, S!LookSize.h, Offset(t.y, R.y), Ending(t.y, t.h, R.y, R.h), spots[i].y, spots[i].h, B2, N2, u2, v2)
                            /\ r.y = R.y + u2 /\ r.h = v2
  BY DEF Axes
<1>5. R.x <= t.x /\ t.x + t.w <= R.x + R.w /\ R.y <= t.y /\ t.y + t.h <= R.y + R.h
  BY DEF S!Within
<1> DEFINE sx == S!Span(r.x, r.w, t.x, t.w)
           sy == S!Span(r.y, r.h, t.y, t.h)
<1> HIDE DEF r, t, R
<1>a. sx = S!Span(R.x + u, v, t.x, t.w) /\ sy = S!Span(R.y + u2, v2, t.y, t.h)
  BY <1>3, <1>4
<1> HIDE DEF sx, sy
<1>6. sx \in Nat \ {0} /\ r.w \in Nat /\ Mostly(sx, t.w, r.w)
  <2>1. sx \in Nat \ {0} /\ v \in Nat /\ Mostly(sx, t.w, v)
    <3>1. Spanned(R.w, S!LookSize.w, t.x, t.w, R.x, spots[i].x, spots[i].w, B, N, u, v, sx)
      BY <1>1, <1>2, <1>3, <1>5, <1>a DEF Spanned
    <3> QED BY ONLY <3>1, AxisSpan
  <2> QED BY <1>3, <2>1
<1>7. sy \in Nat \ {0} /\ r.h \in Nat /\ Mostly(sy, t.h, r.h)
  <2>1. sy \in Nat \ {0} /\ v2 \in Nat /\ Mostly(sy, t.h, v2)
    <3>1. Spanned(R.h, S!LookSize.h, t.y, t.h, R.y, spots[i].y, spots[i].h, B2, N2, u2, v2, sy)
      BY <1>1, <1>2, <1>4, <1>5, <1>a DEF Spanned
    <3> QED BY ONLY <3>1, AxisSpan
  <2> QED BY <1>4, <2>1
<1>8. S!Shared(r, t) = sx * sy /\ S!Area(r) = r.w * r.h /\ S!Area(t) = t.w * t.h
  BY DEF S!Shared, S!Area, sx, sy
<1>9. t.w * t.h + r.w * r.h < 5 * (sx * sy)
  BY <1>2, <1>6, <1>7, SharesMuch
<1>10. 100 * (sx * sy) > 25 * (r.w * r.h + t.w * t.h - sx * sy)
  <2> DEFINE x == sx * sy
             y == r.w * r.h
             j == t.w * t.h
  <2>0. ASSUME NEW p \in Nat, NEW q \in Nat PROVE p * q \in Nat
    OBVIOUS
  <2>1. x \in Nat /\ y \in Nat /\ j \in Nat
    BY ONLY <1>2, <1>6, <1>7, <2>0
  <2>a. j + y < 5 * x
    BY <1>9
  <2> HIDE DEF x, y, j
  <2>2. 100 * x > 25 * (y + j - x)
    BY ONLY <2>1, <2>a
  <2> QED BY <2>2 DEF x, y, j
<1>11. m.rect = t
  BY DEF t
<1> QED BY <1>8, <1>10, <1>11 DEF S!Overlaps, r

-----------------------------------------------------------------------------
(***************************************************************************)
(* The grid. Along one axis of W pixels in d parts, every pixel is in just *)
(* one, even where there are more parts than pixels.                       *)
(***************************************************************************)
Step(W, d)    == S!Most(W \div d, 1)
Part(W, d, c) == IF c = d - 1 THEN W - c * Step(W, d) ELSE Step(W, d)
In(W, d, x, c) == c * Step(W, d) <= x /\ x < c * Step(W, d) + Part(W, d, c)

LEMMA PartIs ==
    ASSUME NEW W \in Nat \ {0}, NEW d \in 2..8, NEW x \in 0..W - 1
    PROVE  \E c \in 0..d - 1 : In(W, d, x, c) /\ \A b \in 0..d - 1 : In(W, d, x, b) => b = c
<1> DEFINE w == Step(W, d)
           q == x \div w
           c == S!Least(q, d - 1)
<1>1. w \in Nat \ {0}
  BY DEF Step, S!Most
<1>2. \A b : In(W, d, x, b) <=> b * w <= x /\ x < b * w + (IF b = d - 1 THEN W - b * w ELSE w)
  BY DEF In, Part
<1> HIDE DEF w
<1>3. q \in Nat /\ q * w <= x /\ x < q * w + w
  <2>1. q \in Int /\ w * q <= x /\ x < w * q + w
    BY <1>1
  <2> HIDE DEF q
  <2> QED BY <1>1, <2>1
<1> HIDE DEF q
<1>4. c \in 0..d - 1 /\ c <= q /\ (c # d - 1 => c = q)
  BY <1>3 DEF S!Least
<1> HIDE DEF c
<1>5. c * w <= x /\ x < c * w + (IF c = d - 1 THEN W - c * w ELSE w)
  <2>1. c * w <= q * w
    BY <1>1, <1>3, <1>4
  <2> QED BY <1>1, <1>3, <1>4, <2>1
<1>6. ASSUME NEW a \in 0..d - 1, NEW b \in 0..d - 1, a < b, In(W, d, x, a), In(W, d, x, b) PROVE FALSE
  <2>1. x < a * w + w /\ b * w <= x
    BY <1>2, <1>6
  <2>2. (a + 1) * w <= b * w
    BY <1>1, <1>6
  <2> QED BY <1>1, <2>1, <2>2
<1>7. \A b \in 0..d - 1 : In(W, d, x, b) => b = c
  BY <1>2, <1>4, <1>5, <1>6
<1> QED BY <1>2, <1>4, <1>5, <1>7

(* The cells, row by row: the n-th is one of a row and one of a column.    *)
Cell(n, d) == [row |-> (n - 1) \div d, col |-> (n - 1) % d]

LEMMA CellIs ==
    ASSUME NEW d \in 2..8
    PROVE  /\ \A n \in 1..d * d : /\ Cell(n, d).row \in 0..d - 1 /\ Cell(n, d).col \in 0..d - 1
                                  /\ n = Cell(n, d).row * d + Cell(n, d).col + 1
           /\ \A r, c \in 0..d - 1 : \E n \in 1..d * d : Cell(n, d).row = r /\ Cell(n, d).col = c
<1>1. ASSUME NEW n \in 1..d * d
      PROVE  /\ (n - 1) \div d \in 0..d - 1 /\ (n - 1) % d \in 0..d - 1
             /\ n = ((n - 1) \div d) * d + ((n - 1) % d) + 1
  <2> DEFINE k == n - 1
             q == k \div d
             z == k % d
  <2>1. k \in Nat /\ k < d * d /\ n = k + 1
    OBVIOUS
  <2> HIDE DEF k
  <2>2. q \in Int /\ z \in 0..d - 1 /\ k = d * q + z
    BY <2>1
  <2> HIDE DEF q, z
  <2>3. 0 <= q /\ q < d
    BY <2>1, <2>2
  <2>4. q \in 0..d - 1 /\ z \in 0..d - 1 /\ n = q * d + z + 1
    BY <2>1, <2>2, <2>3
  <2> QED BY <2>4 DEF q, z, k
<1>2. ASSUME NEW r \in 0..d - 1, NEW c \in 0..d - 1
      PROVE  \E n \in 1..d * d : (n - 1) \div d = r /\ (n - 1) % d = c
  <2> DEFINE k == r * d + c
             q == k \div d
             z == k % d
  <2>1. k \in Nat /\ k < d * d /\ k = r * d + c
    <3>1. r * d <= (d - 1) * d
      OBVIOUS
    <3> QED BY <3>1
  <2> HIDE DEF k
  <2>2. q \in Int /\ z \in 0..d - 1 /\ k = d * q + z
    BY <2>1
  <2> HIDE DEF q, z
  <2>3. q = r /\ z = c
    BY <2>1, <2>2
  <2>4. k + 1 \in 1..d * d /\ (k + 1) - 1 = k
    BY <2>1
  <2>5. ((k + 1) - 1) \div d = r /\ ((k + 1) - 1) % d = c
    BY <2>3, <2>4 DEF q, z
  <2> QED BY <2>4, <2>5
<1> QED BY <1>1, <1>2 DEF Cell

LEMMA StepIs ==
    ASSUME NEW W \in Nat \ {0}, NEW d \in 2..8, NEW c \in 0..d - 1
    PROVE  Step(W, d) \in Nat \ {0} /\ c * Step(W, d) \in Nat /\ Part(W, d, c) \in Int
<1>1. Step(W, d) \in Nat \ {0}
  BY DEF Step, S!Most
<1>2. c * Step(W, d) \in Nat
  BY <1>1
<1> QED BY <1>1, <1>2 DEF Part

(* So a pixel of the region is on just one mark of the grid, which is of   *)
(* nothing.                                                                *)
Pixel(x, y) == [x |-> S!Region.x + x, y |-> S!Region.y + y]
Even(ms) ==
    /\ \A k \in 1..Len(ms) : ms[k].of = 0 /\ Whole(ms[k].rect)
    /\ \A x \in 0..S!Region.w - 1, y \in 0..S!Region.h - 1 : \E n \in 1..Len(ms) :
           \A k \in 1..Len(ms) : S!Lies(Pixel(x, y), ms[k].rect) <=> k = n

LEMMA GridIs ==
    ASSUME ShotsAssumption, shot \in Shots, PicInv, NEW divisions \in Nat, NEW s, s = S!Grid(divisions)
    PROVE  s \in Seq({s[n] : n \in 1..Len(s)}) /\ Even(s)
<1> DEFINE d == S!Least(S!Most(divisions, 2), 8)
           R == S!Region
           w == Step(R.w, d)
           h == Step(R.h, d)
           row(n) == Cell(n, d).row
           col(n) == Cell(n, d).col
           cell(n) == [x |-> R.x + col(n) * w, y |-> R.y + row(n) * h,
                       w |-> Part(R.w, d, col(n)), h |-> Part(R.h, d, row(n))]
<1>1. d \in 2..8
  BY DEF S!Least, S!Most
<1>2. R.x \in Int /\ R.y \in Int /\ R.w \in Nat \ {0} /\ R.h \in Nat \ {0}
  BY RegionIs
<1>3. s = [n \in 1..(d * d) |-> [rect |-> cell(n), of |-> 0]]
  BY DEF S!Grid, S!Mark, S!Rect, Cell, Part, Step
<1> HIDE DEF d, R
<1>4. Len(s) = d * d /\ s \in Seq({s[n] : n \in 1..Len(s)})
  <2> DEFINE m == d * d
             Z == {s[n] : n \in 1..m}
  <2>1. m \in Nat
    BY <1>1
  <2>2. s = [n \in 1..m |-> s[n]]
    BY <1>3
  <2> HIDE DEF m
  <2>3. Len(s) = m /\ \A n \in 1..m : s[n] \in Z
    BY <2>1, <2>2
  <2> HIDE DEF Z
  <2>4. s \in [1..m -> Z]
    BY <2>2, <2>3
  <2>5. s \in UNION {[1..n -> Z] : n \in Nat}
    BY <2>1, <2>4
  <2>6. s \in Seq(Z)
    BY <2>5, SeqDef, Zenon
  <2> QED BY <2>3, <2>6 DEF m, Z
<1>5. s \in Seq({s[n] : n \in 1..Len(s)})
  BY <1>4
<1>6. ASSUME NEW c \in 0..d - 1
      PROVE  c * w \in Nat /\ c * h \in Nat /\ Part(R.w, d, c) \in Int /\ Part(R.h, d, c) \in Int
  BY <1>1, <1>2, StepIs
<1>7. \A n \in 1..d * d : row(n) \in 0..d - 1 /\ col(n) \in 0..d - 1 /\ n = row(n) * d + col(n) + 1
  BY <1>1, CellIs
<1>8. \A r, c \in 0..d - 1 : \E n \in 1..d * d : row(n) = r /\ col(n) = c
  BY <1>1, CellIs
<1> HIDE DEF w, h, row, col
<1>9. \A k \in 1..Len(s) : s[k].of = 0 /\ s[k].rect = cell(k)
  <2> HIDE DEF cell
  <2>1. \A k \in 1..d * d : s[k] = [rect |-> cell(k), of |-> 0]
    BY <1>3, Zenon
  <2> QED BY <1>4, <2>1
<1>10. ASSUME NEW k \in 1..Len(s) PROVE Whole(s[k].rect)
  <2> DEFINE p == col(k) * w
             q == row(k) * h
             u == Part(R.w, d, col(k))
             v == Part(R.h, d, row(k))
  <2>1. p \in Nat /\ q \in Nat /\ u \in Int /\ v \in Int
    <3>1. k \in 1..d * d
      BY <1>4
    <3>2. row(k) \in 0..d - 1 /\ col(k) \in 0..d - 1
      BY <1>7, <3>1
    <3> QED BY <1>6, <3>2
  <2>2. s[k].rect = [x |-> R.x + p, y |-> R.y + q, w |-> u, h |-> v]
    BY <1>9
  <2> HIDE DEF p, q, u, v
  <2>3. R.x + p \in Int /\ R.y + q \in Int
    <3>1. R.x \in Int /\ R.y \in Int
      BY <1>2
    <3> QED BY ONLY <2>1, <3>1
  <2>4. /\ s[k].rect.x = R.x + p /\ s[k].rect.y = R.y + q
        /\ s[k].rect.w = u /\ s[k].rect.h = v
    BY ONLY <2>2
  <2> QED BY ONLY <2>1, <2>3, <2>4 DEF Whole
<1>11. ASSUME NEW x \in 0..R.w - 1, NEW y \in 0..R.h - 1
       PROVE  \E n \in 1..Len(s) : \A k \in 1..Len(s) : S!Lies(Pixel(x, y), s[k].rect) <=> k = n
  <2>1. PICK c \in 0..d - 1 : In(R.w, d, x, c) /\ \A b \in 0..d - 1 : In(R.w, d, x, b) => b = c
    BY <1>1, <1>2, PartIs
  <2>2. PICK r \in 0..d - 1 : In(R.h, d, y, r) /\ \A b \in 0..d - 1 : In(R.h, d, y, b) => b = r
    BY <1>1, <1>2, PartIs
  <2>3. PICK n \in 1..d * d : row(n) = r /\ col(n) = c
    BY <1>8
  <2>4. ASSUME NEW k \in 1..d * d
        PROVE  S!Lies(Pixel(x, y), s[k].rect) <=> In(R.w, d, x, col(k)) /\ In(R.h, d, y, row(k))
    <3> DEFINE p == col(k) * w
               q == row(k) * h
               u == Part(R.w, d, col(k))
               v == Part(R.h, d, row(k))
    <3>1. p \in Nat /\ q \in Nat /\ u \in Int /\ v \in Int
      <4>1. row(k) \in 0..d - 1 /\ col(k) \in 0..d - 1
        BY <1>7
      <4> QED BY <1>6, <4>1
    <3>2. s[k].rect = [x |-> R.x + p, y |-> R.y + q, w |-> u, h |-> v]
      BY <1>4, <1>9
    <3>4. In(R.w, d, x, col(k)) <=> p <= x /\ x < p + u
      BY DEF In, w
    <3>5. In(R.h, d, y, row(k)) <=> q <= y /\ y < q + v
      BY DEF In, h
    <3> HIDE DEF p, q, u, v
    <3>6. S!Lies(Pixel(x, y), s[k].rect) <=> /\ R.x + p <= R.x + x /\ R.x + x < R.x + p + u
                                            /\ R.y + q <= R.y + y /\ R.y + y < R.y + q + v
      BY <3>2 DEF Pixel, R, S!Lies
    <3>7. x \in Int /\ y \in Int
      BY <1>2
    <3>8. R.x \in Int /\ R.y \in Int
      BY <1>2
    <3>9. S!Lies(Pixel(x, y), s[k].rect) <=> /\ p <= x /\ x < p + u /\ q <= y /\ y < q + v
      BY ONLY <3>1, <3>6, <3>7, <3>8
    <3> QED BY <3>4, <3>5, <3>9
  <2>5. ASSUME NEW k \in 1..d * d PROVE S!Lies(Pixel(x, y), s[k].rect) <=> k = n
    <3>1. row(k) \in 0..d - 1 /\ col(k) \in 0..d - 1
      BY <1>7
    <3>2. CASE row(k) = r /\ col(k) = c
      <4>1. k = n
        BY <1>7, <2>3, <3>2
      <4> QED BY <2>1, <2>2, <2>4, <3>2, <4>1
    <3>3. CASE ~(row(k) = r /\ col(k) = c)
      BY <2>1, <2>2, <2>3, <2>4, <3>1, <3>3
    <3> QED BY <3>2, <3>3
  <2>6. Len(s) = d * d
    BY <1>4
  <2>7. n \in 1..Len(s)
    BY <2>6
  <2>8. \A k \in 1..Len(s) : S!Lies(Pixel(x, y), s[k].rect) <=> k = n
    BY <2>5, <2>6
  <2> QED BY <2>7, <2>8
<1>12. Even(s)
  BY <1>9, <1>10, <1>11 DEF Even, R
<1> QED BY <1>5, <1>12

(* The marks that a crop leaves: each of a place of its own, and all that  *)
(* have something in common with the region.                               *)
Left(r, s, h) ==
    /\ h \in [1..Len(r) -> 1..Len(s)]
    /\ \A k \in 1..Len(r) : r[k] = s[h[k]]
    /\ \A k, l \in 1..Len(r) : h[k] = h[l] => k = l
    /\ \A i \in 1..Len(s) : S!Meet(s[i].rect, S!Region) => \E k \in 1..Len(r) : h[k] = i

LEMMA InPictureIs ==
    ASSUME NEW V, NEW s \in Seq(V)
    PROVE  S!Shown(s) \in Seq(V) /\ \E h : Left(S!Shown(s), s, h)
<1> DEFINE A == {s[n] : n \in {k \in 1..Len(s) : S!Meet(s[k].rect, S!Region)}}
           r == S!Shown(s)
<1>1. r = S!Among(s, A)
  BY DEF S!Shown
<1>2. \A i \in 1..Len(s) : S!Meet(s[i].rect, S!Region) => s[i] \in A
  OBVIOUS
<1> HIDE DEF A, r
<1>3. r \in Seq(V) /\ \E h : Comes(r, s, A, Len(s), h)
  BY <1>1, AmongComes
<1>4. PICK h : Comes(r, s, A, Len(s), h)
  BY <1>3
<1>5. Left(r, s, h)
  BY <1>2, <1>4 DEF Comes, Left
<1> QED BY <1>3, <1>5 DEF r

LEMMA PixelMeets ==
    ASSUME NEW a \in Int, NEW n \in Int, NEW f \in Int, NEW W \in Int, NEW x \in Int,
           a <= f + x, f + x < a + n, 0 <= x, x < W
    PROVE  a < f + W /\ a + n > f
OBVIOUS

(* A grid is left even: what has a pixel of the region meets it.           *)
LEMMA EvenShown ==
    ASSUME ShotsAssumption, shot \in Shots, PicInv, NEW V, NEW s \in Seq(V), Even(s)
    PROVE  Even(S!Shown(s))
<1> DEFINE r == S!Shown(s)
           R == S!Region
<1>0. PICK h : Left(r, s, h)
  BY InPictureIs
<1>1. /\ h \in [1..Len(r) -> 1..Len(s)] /\ \A k \in 1..Len(r) : r[k] = s[h[k]]
      /\ \A k, l \in 1..Len(r) : h[k] = h[l] => k = l
      /\ \A i \in 1..Len(s) : S!Meet(s[i].rect, R) => \E k \in 1..Len(r) : h[k] = i
  BY <1>0 DEF Left
<1>2. R.x \in Int /\ R.y \in Int /\ R.w \in Nat /\ R.h \in Nat
  BY RegionIs
<1> HIDE DEF r, R
<1>3. \A k \in 1..Len(r) : r[k].of = 0 /\ Whole(r[k].rect)
  BY <1>1 DEF Even
<1>4. ASSUME NEW x \in 0..R.w - 1, NEW y \in 0..R.h - 1
      PROVE  \E n \in 1..Len(r) : \A k \in 1..Len(r) : S!Lies(Pixel(x, y), r[k].rect) <=> k = n
  <2>1. PICK i \in 1..Len(s) : \A k \in 1..Len(s) : S!Lies(Pixel(x, y), s[k].rect) <=> k = i
    BY DEF Even, R
  <2>2. S!Meet(s[i].rect, R)
    <3> DEFINE q == s[i].rect
    <3>1. q.x \in Int /\ q.y \in Int /\ q.w \in Int /\ q.h \in Int
      BY DEF Even, Whole
    <3>2. S!Lies(Pixel(x, y), q)
      BY <2>1
    <3> HIDE DEF q
    <3>3. /\ q.x <= R.x + x /\ R.x + x < q.x + q.w
          /\ q.y <= R.y + y /\ R.y + y < q.y + q.h
      BY <3>2 DEF S!Lies, Pixel, R
    <3>4. /\ 0 <= x /\ x < R.w /\ 0 <= y /\ y < R.h /\ x \in Int /\ y \in Int
      BY <1>2
    <3>5. q.x < R.x + R.w /\ q.x + q.w > R.x
      <4>1. q.x \in Int /\ q.w \in Int
        BY <3>1
      <4>2. R.x \in Int /\ R.w \in Int
        BY <1>2
      <4>3. 0 <= x /\ x < R.w /\ x \in Int
        BY <3>4
      <4>4. q.x <= R.x + x
        BY <3>3
      <4>5. R.x + x < q.x + q.w
        BY <3>3
      <4> QED BY ONLY <4>1, <4>2, <4>3, <4>4, <4>5, PixelMeets
    <3>6. q.y < R.y + R.h /\ q.y + q.h > R.y
      <4>1. q.y \in Int /\ q.h \in Int
        BY <3>1
      <4>2. R.y \in Int /\ R.h \in Int
        BY <1>2
      <4>3. 0 <= y /\ y < R.h /\ y \in Int
        BY <3>4
      <4>4. q.y <= R.y + y
        BY <3>3
      <4>5. R.y + y < q.y + q.h
        BY <3>3
      <4> QED BY ONLY <4>1, <4>2, <4>3, <4>4, <4>5, PixelMeets
    <3> QED BY <3>5, <3>6 DEF S!Meet, q
  <2>3. PICK n \in 1..Len(r) : h[n] = i
    BY <1>1, <2>2
  <2>4. \A k \in 1..Len(r) : S!Lies(Pixel(x, y), r[k].rect) <=> k = n
    <3> TAKE k \in 1..Len(r)
    <3>1. h[k] \in 1..Len(s) /\ r[k] = s[h[k]] /\ (h[k] = i <=> k = n)
      BY <1>1, <2>3
    <3> QED BY <2>1, <3>1
  <2> QED BY <2>4
<1>5. Even(r)
  BY <1>3, <1>4 DEF Even, R
<1> QED BY <1>5 DEF r

-----------------------------------------------------------------------------
(***************************************************************************)
(* The groups: parts of the picture that the outline of a thing has a      *)
(* block of. Each outline is where the thing is, if all of it is seen.     *)
(***************************************************************************)
Groups == (SUBSET AllBlocks) \ {{}}
Outlined(i) ==
    LET L == S!LookSize  p == spots[i]  b == S!Box(lit[i]) IN
    lit[i] # {} => /\ S!Visible(i)
                   /\ S!Found(lit[i]) /\ 30 <= p.w /\ 30 <= p.h => Boxed(L.w, p.x, p.w, b.x, b.w) /\ Boxed(L.h, p.y, p.h, b.y, b.h)
DetectInv ==
    /\ groups \in Seq(Groups)
    /\ \A k \in 1..Len(groups) : \E i \in 1..Len(shot.things) : lit[i] \cap groups[k] # {}
    /\ groups # <<>> => 24 <= pic.w /\ 24 <= pic.h /\ \A i \in 1..Len(shot.things) : Outlined(i)

(* A mark that is the same as one before it is not kept.                   *)
LEMMA SameOverlaps ==
    ASSUME NEW m, NEW n, NEW r, m.rect = r, n.rect = r, r.x \in Nat, r.y \in Nat, r.w \in Nat \ {0}, r.h \in Nat \ {0}
    PROVE  S!Overlaps(m, n, 40)
<1> DEFINE a == r.w * r.h
<1>1. S!Span(r.x, r.w, r.x, r.w) = r.w
  BY DEF S!Span, S!Most, S!Least
<1>2. S!Span(r.y, r.h, r.y, r.h) = r.h
  BY DEF S!Span, S!Most, S!Least
<1>3. S!Shared(r, r) = a /\ S!Area(r) = a
  BY <1>1, <1>2 DEF S!Shared, S!Area
<1>4. a \in Nat /\ a > 0
  OBVIOUS
<1> HIDE DEF a
<1>5. 100 * a > 40 * (a + a - a)
  BY <1>4
<1> QED BY <1>3, <1>5 DEF S!Overlaps

BoxMarks == {S!VisualMark(S!Box(g), i) : g \in Groups, i \in 1..Len(shot.things)}

LEMMA GroupIs ==
    ASSUME PicInv, DetectInv, NEW k \in 1..Len(groups), NEW g, g = groups[k], NEW i, i = S!Owner(g)
    PROVE  /\ g \in Groups /\ i \in 1..Len(shot.things) /\ lit[i] # {}
           /\ S!Unbroken(i) => g = lit[i]
           /\ 24 <= pic.w /\ 24 <= pic.h /\ S!Visible(i) /\ Outlined(i)
<1>1. g \in Groups
  BY ElementOfSeq DEF DetectInv
<1>2. i \in 1..Len(shot.things) /\ lit[i] \cap g # {}
  <2>1. \E j \in 1..Len(shot.things) : lit[j] \cap g # {}
    BY DEF DetectInv
  <2> QED BY <2>1 DEF S!Owner
<1>3. S!Unbroken(i) => g = lit[i]
  BY <1>2 DEF S!Unbroken
<1>4. groups # <<>>
  <2>1. Len(groups) # 0
    OBVIOUS
  <2> QED BY <2>1, EmptySeq
<1>5. 24 <= pic.w /\ 24 <= pic.h /\ Outlined(i)
  BY <1>2, <1>4 DEF DetectInv
<1>6. S!Visible(i)
  BY <1>2, <1>5 DEF Outlined
<1> QED BY <1>1, <1>2, <1>3, <1>5, <1>6

LEMMA BoxPositive ==
    ASSUME PicInv, NEW g \in Groups
    PROVE  LET b == S!Box(g) IN b.x \in Nat /\ b.y \in Nat /\ b.w \in Nat \ {0} /\ b.h \in Nat \ {0}
<1> DEFINE L == S!LookSize
           b == S!Box(g)
<1>0. g \in SUBSET AllBlocks /\ g # {}
  BY DEF Groups
<1>1. PICK x1, x2, y1, y2 : Corners(g, x1, x2, y1, y2)
  BY <1>0, BoxIs
<1>2. L.w \in Nat \ {0} /\ L.h \in Nat \ {0}
  BY LookIs
<1>3. \A c \in g : Block(L.h, c[1]) /\ Block(L.w, c[2])
  BY <1>0, BlocksAre
<1>4. Block(L.w, x1) /\ Block(L.w, x2) /\ x1 <= x2 /\ Block(L.h, y1) /\ Block(L.h, y2) /\ y1 <= y2
  <2>1. (\E c \in g : c[2] = x1 /\ c[2] <= x2) /\ (\E c \in g : c[2] = x2)
    BY <1>1 DEF Corners
  <2>2. (\E c \in g : c[1] = y1 /\ c[1] <= y2) /\ (\E c \in g : c[1] = y2)
    BY <1>1 DEF Corners
  <2> QED BY <1>3, <2>1, <2>2
<1>5. b = [x |-> x1 * S!Block, y |-> y1 * S!Block,
           w |-> S!Least((x2 - x1 + 1) * S!Block, L.w), h |-> S!Least((y2 - y1 + 1) * S!Block, L.h)]
  BY <1>1 DEF Corners
<1> HIDE DEF b, L
<1>6. /\ b.x = x1 * S!Block /\ b.w = S!Least((x2 - x1 + 1) * S!Block, L.w)
      /\ b.y = y1 * S!Block /\ b.h = S!Least((y2 - y1 + 1) * S!Block, L.h)
  BY <1>5
<1>7. b.x \in Nat /\ b.w \in Nat \ {0}
  BY <1>2, <1>4, <1>6, BlocksSpan
<1>8. b.y \in Nat /\ b.h \in Nat \ {0}
  BY <1>2, <1>4, <1>6, BlocksSpan
<1> QED BY <1>7, <1>8 DEF b

(* The marks of boxes: each is of a group that was found, and of an        *)
(* unbroken outline there is one at most.                                  *)
Kept(b) == \E k \in 1..Len(groups) : /\ S!Found(groups[k]) /\ b.rect = S!Box(groups[k]) /\ b.of = S!Owner(groups[k])
                                     /\ b = S!Mark(S!Box(groups[k]), S!Owner(groups[k]))

LEMMA BoxesAre ==
    ASSUME PicInv, DetectInv
    PROVE  \E r : /\ Len(r) \in Nat /\ \A n \in 1..Len(r) : Kept(r[n])
                  /\ \A n \in 1..Len(r) : \A j \in 1..n - 1 : ~S!Overlaps(r[n], r[j], 40)
                  /\ S!VisualMarks = [n \in 1..S!Least(Len(r), 32) |-> S!VisualMark(r[n].rect, r[n].of)]
<1> DEFINE A == {groups[k] : k \in {j \in 1..Len(groups) : S!Found(groups[j])}}
           seen == S!Among(groups, A)
           more == [n \in 1..Len(seen) |-> S!Mark(S!Box(seen[n]), S!Owner(seen[n]))]
           boxes == S!Joined(<<>>, more, 40)
           Z == {S!Mark(S!Box(groups[k]), S!Owner(groups[k])) : k \in {j \in 1..Len(groups) : S!Found(groups[j])}}
<1>1. S!VisualMarks = [n \in 1..S!Least(Len(boxes), 32) |-> S!VisualMark(boxes[n].rect, boxes[n].of)]
  BY DEF S!VisualMarks
<1>2. groups \in Seq(Groups)
  BY DEF DetectInv
<1> HIDE DEF A
<1>3. seen \in Seq(Groups) /\ \E h : Comes(seen, groups, A, Len(groups), h)
  BY <1>2, AmongComes
<1> HIDE DEF seen
<1>4. Len(seen) \in Nat /\ \A k \in 1..Len(seen) : seen[k] \in A
  BY <1>3, LenProperties DEF Comes
<1>5. \A k \in 1..Len(seen) : S!Mark(S!Box(seen[k]), S!Owner(seen[k])) \in Z
  <2> TAKE k \in 1..Len(seen)
  <2>1. PICK j \in 1..Len(groups) : S!Found(groups[j]) /\ seen[k] = groups[j]
    BY <1>4 DEF A
  <2> QED BY <2>1
<1> HIDE DEF Z
<1>6. more \in Seq(Z)
  <2>1. more \in [1..Len(seen) -> Z]
    BY <1>5
  <2>2. more \in UNION {[1..n -> Z] : n \in Nat}
    BY <1>4, <2>1
  <2> QED BY <2>2, SeqDef, Zenon
<1> HIDE DEF more
<1>7. <<>> \in Seq(Z) /\ Len(<<>>) = 0
  BY EmptySeq
<1>8. boxes \in Seq(Z) /\ \E h : Joins(boxes, <<>>, more, 40, Len(more), h)
  BY <1>6, <1>7, JoinedJoins
<1> HIDE DEF boxes
<1>9. PICK h : Joins(boxes, <<>>, more, 40, Len(more), h)
  BY <1>8
<1>10. Len(boxes) \in Nat /\ \A n \in 1..Len(boxes) : boxes[n] \in Z
  BY <1>8, LenProperties, ElementOfSeq
<1>11. ASSUME NEW n \in 1..Len(boxes) PROVE Kept(boxes[n])
  <2>1. PICK k \in 1..Len(groups) : S!Found(groups[k]) /\ boxes[n] = S!Mark(S!Box(groups[k]), S!Owner(groups[k]))
    BY <1>10 DEF Z
  <2>2. boxes[n].rect = S!Box(groups[k]) /\ boxes[n].of = S!Owner(groups[k])
    BY <2>1 DEF S!Mark
  <2> QED BY <2>1, <2>2 DEF Kept
<1>12. \A n \in 1..Len(boxes) : \A j \in 1..n - 1 : ~S!Overlaps(boxes[n], boxes[j], 40)
  BY <1>7, <1>9 DEF Joins
<1> QED BY <1>1, <1>10, <1>11, <1>12

LEMMA VisualMarksAre ==
    ASSUME ShotsAssumption, shot \in Shots, PicInv, DetectInv, S!Upright, NEW s, s = S!VisualMarks
    PROVE  /\ s \in Seq(BoxMarks)
           /\ \A k \in 1..Len(s) : LET i == s[k].of IN
                 /\ i \in 1..Len(shot.things) /\ Whole(s[k].rect) /\ S!Visible(i) /\ 24 <= pic.w /\ 24 <= pic.h
                 /\ S!Unbroken(i) => /\ s[k] = S!VisualMark(S!Box(lit[i]), i) /\ S!Found(lit[i])
                                     /\ lit[i] # {} /\ Outlined(i)
           /\ \A k, l \in 1..Len(s) : s[k].of = s[l].of /\ S!Unbroken(s[k].of) => k = l
<1>1. PICK r : /\ Len(r) \in Nat /\ \A n \in 1..Len(r) : Kept(r[n])
               /\ \A n \in 1..Len(r) : \A j \in 1..n - 1 : ~S!Overlaps(r[n], r[j], 40)
               /\ s = [n \in 1..S!Least(Len(r), 32) |-> S!VisualMark(r[n].rect, r[n].of)]
  BY BoxesAre
<1> DEFINE m == S!Least(Len(r), 32)
<1>2. m \in Nat /\ \A n \in 1..m : n \in 1..Len(r)
  BY <1>1 DEF S!Least
<1> HIDE DEF m
<1>3. Len(s) = m /\ \A k \in 1..m : s[k] = S!VisualMark(r[k].rect, r[k].of)
  BY <1>1, <1>2 DEF m
<1>4. ASSUME NEW k \in 1..m
      PROVE  LET i == s[k].of IN
             /\ i = r[k].of /\ i \in 1..Len(shot.things) /\ Whole(s[k].rect) /\ S!Visible(i) /\ 24 <= pic.w /\ 24 <= pic.h
             /\ S!Unbroken(i) => /\ r[k].rect = S!Box(lit[i]) /\ S!Found(lit[i])
                                 /\ lit[i] # {} /\ lit[i] \in Groups /\ Outlined(i)
             /\ s[k] \in BoxMarks
  <2>1. PICK j \in 1..Len(groups) : S!Found(groups[j]) /\ r[k].rect = S!Box(groups[j]) /\ r[k].of = S!Owner(groups[j])
    BY <1>1, <1>2 DEF Kept
  <2> DEFINE g == groups[j]
             i == S!Owner(g)
  <2>2. /\ g \in Groups /\ i \in 1..Len(shot.things) /\ lit[i] # {}
        /\ S!Unbroken(i) => g = lit[i]
        /\ 24 <= pic.w /\ 24 <= pic.h /\ S!Visible(i) /\ Outlined(i)
    BY GroupIs
  <2>3. s[k] = S!VisualMark(S!Box(g), i)
    BY <1>3, <2>1
  <2>4. g \in SUBSET AllBlocks /\ g # {}
    BY <2>2 DEF Groups
  <2> HIDE DEF g, i
  <2>5. Whole(s[k].rect) /\ s[k].of = i
    BY <2>2, <2>3, <2>4, VisualWhole
  <2>6. s[k] \in BoxMarks
    BY <2>2, <2>3 DEF BoxMarks
  <2>7. r[k].of = i /\ S!Found(g) /\ r[k].rect = S!Box(g)
    BY <2>1 DEF g, i
  <2> QED BY <2>2, <2>5, <2>6, <2>7
<1>5. s \in Seq(BoxMarks)
  <2>1. s \in [1..m -> BoxMarks]
    BY <1>1, <1>3, <1>4 DEF m
  <2>2. s \in UNION {[1..n -> BoxMarks] : n \in Nat}
    BY <1>2, <2>1
  <2> QED BY <2>2, SeqDef, Zenon
<1>6. ASSUME NEW k \in 1..m, NEW l \in 1..m, s[k].of = s[l].of, S!Unbroken(s[k].of), l < k PROVE FALSE
  <2>1. ~S!Overlaps(r[k], r[l], 40)
    <3>1. k \in 1..Len(r) /\ l \in 1..k - 1
      BY <1>2, <1>6
    <3> QED BY <1>1, <3>1
  <2> DEFINE b == S!Box(lit[s[k].of])
  <2>2. r[k].rect = b /\ r[l].rect = b /\ lit[s[k].of] \in Groups
    BY <1>4, <1>6
  <2>3. b.x \in Nat /\ b.y \in Nat /\ b.w \in Nat \ {0} /\ b.h \in Nat \ {0}
    BY <2>2, BoxPositive
  <2> HIDE DEF b
  <2> QED BY <2>1, <2>2, <2>3, SameOverlaps
<1>7. ASSUME NEW k \in 1..m, NEW l \in 1..m, s[k].of = s[l].of, S!Unbroken(s[k].of) PROVE k = l
  <2>1. S!Unbroken(s[l].of)
    BY <1>7
  <2>2. ~(l < k) /\ ~(k < l)
    BY <1>6, <1>7, <2>1
  <2> QED BY <1>2, <2>2
<1>8. ASSUME NEW k \in 1..m, S!Unbroken(s[k].of) PROVE s[k] = S!VisualMark(S!Box(lit[s[k].of]), s[k].of)
  <2>1. s[k] = S!VisualMark(r[k].rect, r[k].of)
    BY <1>3
  <2>2. r[k].of = s[k].of /\ r[k].rect = S!Box(lit[s[k].of])
    BY <1>4, <1>8
  <2> QED BY <2>1, <2>2
<1> QED BY <1>3, <1>4, <1>5, <1>7, <1>8

-----------------------------------------------------------------------------
(***************************************************************************)
(* Marks of things: a click on one is a click on its thing, and no large   *)
(* thing of the region whose outline is unbroken has two.                  *)
(***************************************************************************)
Sound(m) ==
    /\ m.of \in 1..Len(shot.things) /\ Whole(m.rect)
    /\ m.rect = S!Thing(m.of) \/ (S!Large(m.of, 30) /\ S!Unbroken(m.of)) => S!Lies(S!Center(m.rect), S!Thing(m.of))
Apart(i) == S!Large(i, 50) /\ S!Within(S!Thing(i)) /\ S!Unbroken(i)
Single(ms) == \A k, l \in 1..Len(ms) : ms[k].of = ms[l].of /\ Apart(ms[k].of) => k = l

TreeMarks == {S!Mark(S!Thing(i), i) : i \in 1..Len(shot.things)}

(* An element's mark is where the element is.                              *)
LEMMA UiMarksAre ==
    ASSUME ShotsAssumption, shot \in Shots, NEW s, s = S!UiMarks
    PROVE  /\ s \in Seq(TreeMarks)
           /\ \A k \in 1..Len(s) : /\ s[k].of \in 1..Len(shot.things) /\ s[k].rect = S!Thing(s[k].of)
                                   /\ S!Fits(S!Thing(s[k].of))
           /\ \A k, l \in 1..Len(s) : s[k].of = s[l].of => k = l
<1> DEFINE L == Len(shot.things)
           A == {i \in 1..L : shot.things[i].ui /\ S!Fits(S!Thing(i))}
           N == [i \in 1..L |-> i]
           ns == S!Among(N, A)
<1>1. L \in Nat
  <2>1. shot.things \in Seq(T!ToSet(shot.things))
    BY DEF ShotsAssumption
  <2> QED BY <2>1, LenProperties
<1>2. S!Numbers = N
  BY DEF S!Numbers
<1> HIDE DEF L
<1>3. N \in Seq(1..L) /\ Len(N) = L /\ \A i \in 1..L : N[i] = i
  BY <1>1
<1> HIDE DEF N, A
<1>4. ns \in Seq(1..L) /\ \E h : Comes(ns, N, A, Len(N), h)
  BY <1>3, AmongComes
<1>5. s = [n \in 1..Len(ns) |-> S!Mark(S!Thing(ns[n]), ns[n])]
  BY <1>2 DEF S!UiMarks, L, A
<1> HIDE DEF ns
<1>6. Len(ns) \in Nat /\ \A k \in 1..Len(ns) : ns[k] \in 1..L
  BY <1>4, LenProperties, ElementOfSeq
<1>7. /\ \A k \in 1..Len(ns) : ns[k] \in A
      /\ \A k, l \in 1..Len(ns) : ns[k] = ns[l] => k = l
  <2>1. PICK h : Comes(ns, N, A, L, h)
    BY <1>3, <1>4
  <2>2. \A k \in 1..Len(ns) : h[k] \in 1..L /\ ns[k] = N[h[k]] /\ ns[k] \in A
    BY <2>1 DEF Comes
  <2>3. \A k \in 1..Len(ns) : ns[k] = h[k] /\ ns[k] \in A
    BY <1>3, <2>2
  <2> QED BY <2>1, <2>3 DEF Comes
<1>8. Len(s) = Len(ns) /\ \A k \in 1..Len(ns) : s[k] = S!Mark(S!Thing(ns[k]), ns[k])
  BY <1>5, <1>6
<1>9. \A k \in 1..Len(ns) : s[k] \in TreeMarks
  BY <1>6, <1>8 DEF TreeMarks, L
<1>10. s \in Seq(TreeMarks)
  <2>1. s \in [1..Len(ns) -> TreeMarks]
    BY <1>5, <1>9
  <2>2. s \in UNION {[1..n -> TreeMarks] : n \in Nat}
    BY <1>6, <2>1
  <2> QED BY <2>2, SeqDef, Zenon
<1>11. ASSUME NEW k \in 1..Len(ns) PROVE s[k].of = ns[k] /\ s[k].rect = S!Thing(ns[k])
  <2>1. s[k] = [rect |-> S!Thing(ns[k]), of |-> ns[k]]
    BY <1>8 DEF S!Mark
  <2> QED BY <2>1
<1> QED BY <1>6, <1>7, <1>8, <1>10, <1>11 DEF L, A

(* Either kind is sound,                                                   *)
LEMMA CenterLies ==
    ASSUME NEW r, Whole(r), r.w > 0, r.h > 0
    PROVE  S!Lies(S!Center(r), r)
<1> DEFINE c == S!Center(r)
           a == r.w \div 2
           b == r.h \div 2
<1>1. c.x = r.x + a /\ c.y = r.y + b
  BY DEF S!Center
<1>2. r.x \in Int /\ r.y \in Int /\ r.w \in Int /\ r.h \in Int
  BY DEF Whole
<1>3. a \in Nat /\ a < r.w /\ b \in Nat /\ b < r.h
  BY <1>2
<1> HIDE DEF a, b, c
<1>4. S!Lies(c, r)
  BY <1>1, <1>2, <1>3 DEF S!Lies
<1> QED BY <1>4 DEF c

LEMMA UiSound ==
    ASSUME ShotsAssumption, shot \in Shots, NEW i \in 1..Len(shot.things), S!Fits(S!Thing(i)),
           NEW m, m.of = i, m.rect = S!Thing(i)
    PROVE  Sound(m)
<1> DEFINE t == S!Thing(i)
<1>1. Sized(t) /\ 12 <= t.w /\ 12 <= t.h
  BY ThingIs DEF S!Fits
<1> HIDE DEF t
<1>2. Whole(t) /\ t.w > 0 /\ t.h > 0
  BY <1>1 DEF Sized, Whole
<1>3. S!Lies(S!Center(t), t)
  BY <1>2, CenterLies
<1> QED BY <1>2, <1>3 DEF Sound, t


(* that of a box because there is something of the thing on the picture.   *)
LEMMA ThingSeen ==
    ASSUME NEW H, NEW M, NEW l, NEW k, NEW f, NEW lo, NEW n, Shaded(H, M, l, k, f, lo, n)
    PROVE  k > 0
<1>0. H \in Nat \ {0} /\ M \in Nat \ {0} /\ l \in Int /\ k \in Nat /\ f \in Int /\ l < f + H /\ l + k > f /\ n > 0
      /\ lo = S!Nearest(Offset(l, f) * M, H) /\ n = S!Nearest(Ending(l, k, f, H) * M, H) - lo
  BY DEF Shaded
<1> SUFFICES ASSUME k = 0 PROVE FALSE
  BY <1>0
<1>1. Ending(l, k, f, H) = Offset(l, f)
  BY <1>0 DEF Ending, Offset, S!Most, S!Least
<1>2. n = lo - lo /\ lo \in Int
  BY <1>0, <1>1, Shades
<1> QED BY <1>0, <1>2

LEMMA VisualSound ==
    ASSUME ShotsAssumption, shot \in Shots, PicInv, SpotInv, DetectInv, S!Upright,
           NEW s, s = S!VisualMarks, NEW k \in 1..Len(s), NEW i, i = s[k].of
    PROVE  Sound(s[k]) /\ (S!Large(i, 30) /\ S!Unbroken(i) => Axes(s[k], i))
<1> DEFINE t == S!Thing(i)
           m == s[k]
<1>1. /\ i \in 1..Len(shot.things) /\ Whole(m.rect) /\ S!Visible(i) /\ 24 <= pic.w /\ 24 <= pic.h
      /\ S!Unbroken(i) => m = S!VisualMark(S!Box(lit[i]), i) /\ S!Found(lit[i]) /\ lit[i] # {} /\ Outlined(i)
  BY VisualMarksAre
<1>2. Spotted(i)
  BY <1>1, SeatIs
<1>3. S!Lies(S!Center(t), t)
  <2>1. t.w > 0 /\ t.h > 0
    BY <1>2, ThingSeen DEF Spotted
  <2>2. Sized(t)
    BY <1>1, ThingIs
  <2> HIDE DEF t
  <2> QED BY <2>1, <2>2, CenterLies DEF Sized, Whole
<1>4. ASSUME S!Large(i, 30), S!Unbroken(i) PROVE Axes(m, i) /\ S!Lies(S!Center(m.rect), t)
  <2>1. 30 <= spots[i].w /\ 30 <= spots[i].h
    BY <1>4 DEF S!Large
  <2> DEFINE b == S!Box(lit[i])
             L == S!LookSize
             p == spots[i]
  <2>2. Boxed(L.w, p.x, p.w, b.x, b.w) /\ Boxed(L.h, p.y, p.h, b.y, b.h)
    BY <1>1, <1>4, <2>1 DEF Outlined
  <2>3. Axes(S!VisualMark(b, i), i)
    BY <1>1, <1>2, <2>2, AxesHold
  <2>4. Axes(m, i)
    BY <1>1, <1>4, <2>3
  <2> HIDE DEF m
  <2> QED BY <1>1, <2>1, <2>4, VisualHits
<1>5. m.rect = t \/ (S!Large(i, 30) /\ S!Unbroken(i)) => S!Lies(S!Center(m.rect), t)
  <2>1. CASE m.rect = t
    BY <1>3, <2>1
  <2>2. CASE m.rect # t
    BY <1>4, <2>2
  <2> QED BY <2>1, <2>2
<1> QED BY <1>1, <1>4, <1>5 DEF Sound

(* All marks of a call are those of a grid, or are sound, and single.      *)
Laid(ms) == Even(ms) \/ (Single(ms) /\ \A k \in 1..Len(ms) : Sound(ms[k]))

LEMMA LargeMore ==
    ASSUME ShotsAssumption, shot \in Shots, PicInv, SpotInv, NEW i \in 1..Len(shot.things), S!Large(i, 50)
    PROVE  S!Large(i, 30)
<1> DEFINE t == S!Thing(i)
           R == S!Region
           L == S!LookSize
           p == spots[i]
<1>1. R.x \in Int /\ R.y \in Int /\ R.w \in Nat \ {0} /\ R.h \in Nat \ {0}
  BY RegionIs
<1>2. t.x \in Int /\ t.y \in Int /\ t.w \in Nat /\ t.h \in Nat
  BY ThingIs DEF Sized
<1>3. L.w \in Nat /\ L.h \in Nat
  BY LookIs
<1>4. /\ p.x = S!Nearest(Offset(t.x, R.x) * L.w, R.w)
      /\ p.w = S!Nearest(Ending(t.x, t.w, R.x, R.w) * L.w, R.w) - p.x
      /\ p.y = S!Nearest(Offset(t.y, R.y) * L.h, R.h)
      /\ p.h = S!Nearest(Ending(t.y, t.h, R.y, R.h) * L.h, R.h) - p.y
  BY SpotIs
<1>5. p.w >= 50 /\ p.h >= 50 /\ S!Meet(t, R)
  BY DEF S!Large
<1>6. SUFFICES p.w >= 30 /\ p.h >= 30
  BY <1>5 DEF S!Large
<1> HIDE DEF t, R, L, p
<1>7. ASSUME NEW o \in Int, NEW m \in Nat, NEW q \in Nat \ {0} PROVE S!Nearest(o * m, q) \in Int
  <2>1. o * m \in Int
    OBVIOUS
  <2> QED BY <2>1 DEF S!Nearest
<1>8. ASSUME NEW l \in Int, NEW k \in Nat, NEW f \in Int, NEW H \in Nat \ {0}, NEW M \in Nat
      PROVE  S!Nearest(Offset(l, f) * M, H) \in Int /\ S!Nearest(Ending(l, k, f, H) * M, H) \in Int
  <2>1. Offset(l, f) \in Int /\ Ending(l, k, f, H) \in Int
    BY DEF Offset, Ending, S!Most, S!Least
  <2> QED BY <1>7, <2>1
<1>9. p.w \in Int /\ p.h \in Int
  <2>1. /\ S!Nearest(Offset(t.x, R.x) * L.w, R.w) \in Int
        /\ S!Nearest(Ending(t.x, t.w, R.x, R.w) * L.w, R.w) \in Int
    BY <1>1, <1>2, <1>3, <1>8
  <2>2. /\ S!Nearest(Offset(t.y, R.y) * L.h, R.h) \in Int
        /\ S!Nearest(Ending(t.y, t.h, R.y, R.h) * L.h, R.h) \in Int
    BY <1>1, <1>2, <1>3, <1>8
  <2> QED BY <1>4, <2>1, <2>2
<1> QED BY <1>5, <1>9

Marked == TreeMarks \cup BoxMarks

LEMMA VisualLaid ==
    ASSUME ShotsAssumption, shot \in Shots, PicInv, SpotInv, DetectInv, S!Upright, NEW s, s = S!VisualMarks
    PROVE  (\A k \in 1..Len(s) : Sound(s[k])) /\ Single(s)
<1>1. \A k \in 1..Len(s) : Sound(s[k])
  BY VisualSound
<1>2. \A k, l \in 1..Len(s) : s[k].of = s[l].of /\ S!Unbroken(s[k].of) => k = l
  BY VisualMarksAre
<1>3. Single(s)
  BY <1>2 DEF Single, Apart
<1> QED BY <1>1, <1>3

LEMMA UiLaid ==
    ASSUME ShotsAssumption, shot \in Shots, NEW s, s = S!UiMarks
    PROVE  (\A k \in 1..Len(s) : Sound(s[k])) /\ Single(s)
<1>1. /\ \A k \in 1..Len(s) : /\ s[k].of \in 1..Len(shot.things) /\ s[k].rect = S!Thing(s[k].of)
                              /\ S!Fits(S!Thing(s[k].of))
      /\ \A k, l \in 1..Len(s) : s[k].of = s[l].of => k = l
  BY UiMarksAre
<1>2. \A k \in 1..Len(s) : Sound(s[k])
  BY <1>1, UiSound
<1>3. Single(s)
  BY <1>1 DEF Single
<1> QED BY <1>2, <1>3

(* Hybrid leaves out the mark of a box that has an element's mark of the   *)
(* same large thing before it.                                             *)
LEMMA MergedLaid ==
    ASSUME ShotsAssumption, shot \in Shots, PicInv, SpotInv, DetectInv, S!Upright
    PROVE  Laid(S!Merged) /\ S!Merged \in Seq(Marked)
<1> DEFINE base == IF shot.tree THEN S!UiMarks ELSE <<>>
           more == S!VisualMarks
           r == S!Merged
<1>1. r = S!Joined(base, more, 25)
  BY DEF S!Merged
<1>2. more \in Seq(Marked)
  <2>1. more \in Seq(BoxMarks)
    BY VisualMarksAre
  <2> HIDE DEF more
  <2> QED BY <2>1 DEF Marked
<1>3. base \in Seq(Marked)
  <2>1. S!UiMarks \in Seq(TreeMarks)
    BY UiMarksAre
  <2>2. S!UiMarks \in Seq(Marked)
    BY <2>1 DEF Marked
  <2> QED BY <2>2, EmptySeq
<1>4. /\ \A k \in 1..Len(base) : Sound(base[k]) /\ base[k].rect = S!Thing(base[k].of)
      /\ Single(base)
  <2>1. CASE shot.tree
    BY <2>1, UiLaid, UiMarksAre
  <2>2. CASE ~shot.tree
    <3>1. base = <<>> /\ Len(<<>>) = 0
      BY <2>2, EmptySeq
    <3> HIDE DEF base
    <3> QED BY <3>1 DEF Single
  <2> QED BY <2>1, <2>2
<1>5. /\ \A k \in 1..Len(more) : /\ Sound(more[k])
                                 /\ S!Large(more[k].of, 30) /\ S!Unbroken(more[k].of) => Axes(more[k], more[k].of)
      /\ Single(more)
  BY VisualSound, VisualLaid
<1> HIDE DEF base, more, r
<1>6. r \in Seq(Marked) /\ \E h : Joins(r, base, more, 25, Len(more), h)
  BY <1>1, <1>2, <1>3, JoinedJoins
<1>7. PICK h : Joins(r, base, more, 25, Len(more), h)
  BY <1>6
<1> DEFINE b == Len(base)
           tail == b + 1..Len(r)
<1>8. b \in Nat /\ Len(r) \in Nat
  BY <1>3, <1>6, LenProperties
<1>9. /\ \A k \in 1..b : r[k] = base[k]
      /\ \A k \in tail : h[k] \in 1..Len(more) /\ r[k] = more[h[k]] /\ (\A j \in 1..k - 1 : ~S!Overlaps(r[k], r[j], 25))
      /\ \A k, l \in tail : h[k] = h[l] => k = l
  BY <1>7 DEF Joins
<1>10. \A k \in 1..Len(r) : k \in 1..b \/ k \in tail
  BY <1>8
<1> HIDE DEF b, tail
<1>11. ASSUME NEW k \in 1..Len(r) PROVE Sound(r[k])
  <2>1. CASE k \in 1..b
    BY <1>4, <1>9, <2>1 DEF b
  <2>2. CASE k \in tail
    BY <1>5, <1>9, <2>2
  <2> QED BY <1>10, <2>1, <2>2
<1>12. ASSUME NEW k \in 1..b, NEW l \in tail, r[k].of = r[l].of, Apart(r[k].of) PROVE FALSE
  <2> DEFINE i == r[l].of
  <2>1. S!Large(i, 50) /\ S!Within(S!Thing(i)) /\ S!Unbroken(i)
    BY <1>12 DEF Apart
  <2>2. 50 <= spots[i].w /\ 50 <= spots[i].h /\ i \in 1..Len(shot.things)
    BY <1>8, <1>11, <2>1 DEF S!Large, Sound, tail
  <2>3. S!Large(i, 30)
    BY <2>1, <2>2, LargeMore
  <2>4. Axes(r[l], i)
    BY <1>5, <1>9, <2>1, <2>3
  <2>5. k \in 1..Len(base) /\ r[k] = base[k] /\ base[k].rect = S!Thing(base[k].of)
    BY <1>4, <1>9 DEF b
  <2>6. r[k].rect = S!Thing(i)
    BY <1>12, <2>5
  <2>7. k \in 1..l - 1
    BY <1>8 DEF tail
  <2>8. ~S!Overlaps(r[l], r[k], 25)
    BY <1>9, <2>7
  <2> HIDE DEF i
  <2> QED BY <2>1, <2>2, <2>4, <2>6, <2>8, VisualOverlaps
<1>13. Single(r)
  <2> SUFFICES ASSUME NEW k \in 1..Len(r), NEW l \in 1..Len(r),
                      r[k].of = r[l].of, Apart(r[k].of)
               PROVE  k = l
    BY DEF Single
  <2>1. CASE k \in 1..b /\ l \in 1..b
    BY <1>4, <1>9, <2>1 DEF Single, b
  <2>2. CASE k \in 1..b /\ l \in tail
    BY <1>12, <2>2
  <2>3. CASE k \in tail /\ l \in 1..b
    <3>1. r[l].of = r[k].of /\ Apart(r[l].of)
      OBVIOUS
    <3> QED BY <1>12, <2>3, <3>1
  <2>4. CASE k \in tail /\ l \in tail
    <3>1. h[k] \in 1..Len(more) /\ h[l] \in 1..Len(more) /\ r[k] = more[h[k]] /\ r[l] = more[h[l]]
      BY <1>9, <2>4
    <3>2. h[k] = h[l]
      BY <1>5, <3>1 DEF Single
    <3> QED BY <1>9, <2>4, <3>2
  <2> QED BY <1>10, <2>1, <2>2, <2>3, <2>4
<1>14. Laid(r)
  BY <1>11, <1>13 DEF Laid
<1> QED BY <1>6, <1>14 DEF r

(* Whatever the strategy. Where a call has no element tree and asks for it  *)
(* there are no marks.                                                     *)
LEMMA CandidatesLaid ==
    ASSUME ShotsAssumption, shot \in Shots, PicInv, SpotInv, DetectInv, S!Upright
    PROVE  Laid(S!Candidates) /\ \E V : S!Candidates \in Seq(V)
<1> DEFINE c == S!Candidates
<1>1. shot.how \in {"grid", "ui_tree", "contours", "hybrid"} /\ shot.divisions \in Nat
  BY DEF ShotsAssumption
<1>2. \A g \in Nat : Even(S!Grid(g)) /\ \E V : S!Grid(g) \in Seq(V)
  <2> TAKE g \in Nat
  <2> DEFINE s == S!Grid(g)
             V == {s[n] : n \in 1..Len(s)}
  <2>1. s \in Seq(V) /\ Even(s)
    BY GridIs
  <2> HIDE DEF V
  <2> QED BY <2>1
<1>3. pic.w \in Nat /\ pic.h \in Nat
  BY DEF PicInv
<1>4. Laid(S!VisualMarks) /\ S!VisualMarks \in Seq(BoxMarks)
  BY <1>3, VisualLaid, VisualMarksAre DEF Laid
<1>5. Laid(S!UiMarks) /\ S!UiMarks \in Seq(TreeMarks)
  BY UiLaid, UiMarksAre DEF Laid
<1>6. Laid(S!Merged) /\ S!Merged \in Seq(Marked)
  BY MergedLaid
<1>7. \A ms : \A g \in Nat : Laid(ms) /\ (\E V : ms \in Seq(V)) =>
          Laid(S!OrGrid(ms, g)) /\ \E V : S!OrGrid(ms, g) \in Seq(V)
  BY <1>2 DEF S!OrGrid, Laid
<1>8. CASE shot.how = "grid"
  <2>1. c = S!Grid(shot.divisions)
    BY <1>8 DEF S!Candidates
  <2> HIDE DEF c
  <2>2. Laid(c) /\ \E V : c \in Seq(V)
    BY <1>1, <1>2, <2>1 DEF Laid
  <2> QED BY <2>2 DEF c
<1>9. CASE shot.how = "ui_tree"
  <2>1. c = S!UiMarks
    BY <1>9 DEF S!Candidates
  <2> QED BY <1>5, <2>1
<1>10. CASE shot.how = "contours"
  <2>1. c = S!OrGrid(S!VisualMarks, 4)
    BY <1>10 DEF S!Candidates
  <2>2. Laid(S!VisualMarks) /\ \E V : S!VisualMarks \in Seq(V)
    BY <1>4
  <2>3. Laid(S!OrGrid(S!VisualMarks, 4)) /\ \E V : S!OrGrid(S!VisualMarks, 4) \in Seq(V)
    BY <1>7, <2>2
  <2> QED BY <2>1, <2>3
<1>11. CASE shot.how = "hybrid"
  <2>1. c = S!OrGrid(S!Merged, shot.divisions)
    BY <1>11 DEF S!Candidates
  <2>2. Laid(S!Merged) /\ \E V : S!Merged \in Seq(V)
    BY <1>6
  <2>3. Laid(S!OrGrid(S!Merged, shot.divisions)) /\ \E V : S!OrGrid(S!Merged, shot.divisions) \in Seq(V)
    BY <1>1, <1>7, <2>2
  <2> QED BY <2>1, <2>3
<1> QED BY <1>1, <1>8, <1>9, <1>10, <1>11

LEMMA ShownLaid ==
    ASSUME ShotsAssumption, shot \in Shots, PicInv, NEW V, NEW s \in Seq(V), Laid(s)
    PROVE  Laid(S!Shown(s))
<1> DEFINE r == S!Shown(s)
<1>1. CASE Even(s)
  BY <1>1, EvenShown DEF Laid
<1>2. CASE Single(s) /\ \A k \in 1..Len(s) : Sound(s[k])
  <2>1. PICK h : Left(r, s, h)
    BY InPictureIs
  <2> HIDE DEF r
  <2>2. \A k \in 1..Len(r) : h[k] \in 1..Len(s) /\ r[k] = s[h[k]]
    BY <2>1 DEF Left
  <2>3. \A k, l \in 1..Len(r) : h[k] = h[l] => k = l
    BY <2>1 DEF Left
  <2>4. \A k \in 1..Len(r) : Sound(r[k])
    BY <1>2, <2>2
  <2>5. Single(r)
    <3> SUFFICES ASSUME NEW k \in 1..Len(r), NEW l \in 1..Len(r),
                        r[k].of = r[l].of, Apart(r[k].of)
                 PROVE  k = l
      BY DEF Single
    <3>1. h[k] = h[l]
      BY <1>2, <2>2 DEF Single
    <3> QED BY <2>3, <3>1
  <2> QED BY <2>4, <2>5 DEF Laid, r
<1> QED BY <1>1, <1>2 DEF Laid

-----------------------------------------------------------------------------
(***************************************************************************)
(* Drawing. Of what is seen of a mark along an axis there is at least a    *)
(* pixel of the picture, so that where it is drawn does not end before the *)
(* picture nor begin after it.                                             *)
(***************************************************************************)
LEMMA AxisDrawn ==
    ASSUME NEW H \in Nat \ {0}, NEW W \in Nat \ {0}, NEW P \in Nat \ {0}, NEW Q \in Nat \ {0},
           NEW a \in Int, NEW n \in Int, NEW s, s = S!Most(0, S!Least(a + n, H) - S!Most(a, 0)), s * P >= W,
           2 * (H * P) < 2 * (W * Q) + W
    PROVE  S!Round(a * P, W) < Q /\ S!Round(a * P, W) + S!Most(S!Round(n * P, W), 4) > 0
<1> DEFINE p == a * P
           q == n * P
           A == S!Round(p, W)
           N == S!Round(q, W)
<1>0. s \in Nat \ {0} /\ s <= H /\ s <= H - a /\ s <= a + n /\ s <= n
  <2>1. s \in Nat
    BY DEF S!Most, S!Least
  <2>2. s # 0
    BY <2>1
  <2> QED BY <2>1, <2>2 DEF S!Most, S!Least
<1>1. p \in Int /\ q \in Nat
  BY <1>0
<1>2. N \in Nat /\ 2 * q < 2 * (W * N) + W
  <2> HIDE DEF q
  <2> QED BY <1>1, RoundIs
<1>3. W <= (H - a) * P /\ W <= (a + n) * P
  BY <1>0
<1>4. W + p <= H * P /\ W <= p + q
  BY <1>3
<1>5. CASE a >= 0
  <2>1. p \in Nat
    BY <1>5
  <2> HIDE DEF p, q, N
  <2>2. A \in Nat /\ 2 * (W * A) <= 2 * p + W
    BY <2>1, RoundIs
  <2> HIDE DEF A
  <2>3. W * A < W * Q
    BY <1>1, <1>4, <2>2
  <2>4. A < Q
    BY <2>2, <2>3
  <2>5. A + S!Most(N, 4) > 0
    BY <1>2, <2>2 DEF S!Most
  <2> QED BY <2>4, <2>5 DEF A, N, p, q
<1>6. CASE a < 0
  <2>1. p \in Int /\ p < 0
    BY <1>6
  <2> HIDE DEF p, q, N
  <2>2. A \in Int /\ A <= 0 /\ 2 * p <= 2 * (W * A) + W
    BY <2>1, RoundBelow
  <2> HIDE DEF A
  <2>3. W * (A + N) > 0
    BY <1>1, <1>2, <1>4, <2>2
  <2>4. A + N > 0
    BY <1>2, <2>2, <2>3
  <2>5. A + S!Most(N, 4) > 0 /\ A < Q
    BY <1>2, <2>2, <2>4 DEF S!Most
  <2> QED BY <2>5 DEF A, N, p, q
<1> QED BY <1>5, <1>6

(* The picture is large enough for its region, along both.                 *)
LEMMA LargeEnough ==
    ASSUME PicInv, S!Upright
    PROVE  /\ 2 * (pic.from.w * pic.num) < 2 * (pic.den * pic.w) + pic.den
           /\ 2 * (pic.from.h * pic.num) < 2 * (pic.den * pic.h) + pic.den
<1> DEFINE p == pic.w
           q == pic.h
           w == pic.from.w
           h == pic.from.h
           k == pic.num
           e == pic.den
<1>1. /\ p \in Nat \ {0} /\ q \in Nat \ {0} /\ w \in Nat \ {0} /\ h \in Nat \ {0}
      /\ k \in Nat \ {0} /\ e \in Nat \ {0}
      /\ \/ p = w /\ q = h /\ k = 1 /\ e = 1
         \/ k = p /\ e = w /\ q = S!Most(1, S!Round(h * p, w))
  BY DEF PicInv, Framed
<1> HIDE DEF p, q, w, h, k, e
<1>2. CASE p = w /\ q = h /\ k = 1 /\ e = 1
  <2>1. 2 * (w * k) < 2 * (e * p) + e /\ 2 * (h * k) < 2 * (e * q) + e
    BY <1>1, <1>2
  <2> QED BY <2>1 DEF p, q, w, h, k, e
<1>3. CASE k = p /\ e = w /\ q = S!Most(1, S!Round(h * p, w))
  <2> DEFINE x == h * p
             r == S!Round(x, w)
  <2>1. x \in Nat
    BY <1>1
  <2>2. r \in Nat /\ 2 * x < 2 * (w * r) + w
    <3> HIDE DEF x
    <3> QED BY <1>1, <2>1, RoundIs
  <2>3. q = S!Most(1, r)
    BY <1>3
  <2> HIDE DEF r
  <2>4. r <= q
    BY <2>2, <2>3 DEF S!Most
  <2>5. w * r <= w * q
    BY <1>1, <2>2, <2>4
  <2>6. 2 * x < 2 * (w * q) + w
    BY <1>1, <2>1, <2>2, <2>5
  <2>7. 2 * (w * k) < 2 * (e * p) + e /\ 2 * (h * k) < 2 * (e * q) + e
    BY <1>1, <1>3, <2>6
  <2> QED BY <2>7 DEF p, q, w, h, k, e
<1> QED BY <1>1, <1>2, <1>3

LEMMA SpanFrom ==
    ASSUME NEW x \in Int, NEW n \in Int, NEW f \in Int, NEW H \in Nat
    PROVE  S!Span(x, n, f, H) = S!Most(0, S!Least((x - f) + n, H) - S!Most(x - f, 0))
BY DEF S!Span, S!Most, S!Least

(* So a mark of which as much as a pixel would be seen is drawn.           *)
LEMMA SeenIsDrawn ==
    ASSUME ShotsAssumption, shot \in Shots, PicInv, S!Upright, NEW m, Whole(m.rect), S!Seen(m.rect)
    PROVE  S!Meet(S!Placed(m), S!Rect(0, 0, pic.w, pic.h))
<1> DEFINE R == S!Region
           r == m.rect
           a == r.x - R.x
           b == r.y - R.y
           s == S!Span(r.x, r.w, R.x, R.w)
           t == S!Span(r.y, r.h, R.y, R.h)
           z(n) == S!Round(n * pic.num, pic.den)
           pl == S!Placed(m)
<1>1. /\ R.x \in Int /\ R.y \in Int /\ R.w = pic.from.w /\ R.h = pic.from.h
      /\ R.w \in Nat \ {0} /\ R.h \in Nat \ {0}
  BY RegionIs
<1>2. /\ pic.w \in Nat \ {0} /\ pic.h \in Nat \ {0} /\ pic.num \in Nat \ {0} /\ pic.den \in Nat \ {0}
  BY DEF PicInv
<1>3. r.x \in Int /\ r.y \in Int /\ r.w \in Int /\ r.h \in Int
  BY DEF Whole
<1>4. s * pic.num >= pic.den /\ t * pic.num >= pic.den
  BY DEF S!Seen
<1>5. pl = [x |-> z(a), y |-> z(b), w |-> S!Most(z(r.w), 4), h |-> S!Most(z(r.h), 4)]
  BY DEF S!Placed, S!Rect
<1>6. /\ 2 * (R.w * pic.num) < 2 * (pic.den * pic.w) + pic.den
      /\ 2 * (R.h * pic.num) < 2 * (pic.den * pic.h) + pic.den
  BY <1>1, LargeEnough
<1> HIDE DEF R, r
<1>7. s = S!Most(0, S!Least(a + r.w, R.w) - S!Most(a, 0)) /\ a \in Int
  <2>1. r.x \in Int /\ r.w \in Int /\ R.x \in Int /\ R.w \in Nat
    BY <1>1, <1>3
  <2>2. s = S!Most(0, S!Least((r.x - R.x) + r.w, R.w) - S!Most(r.x - R.x, 0))
    BY ONLY <2>1, SpanFrom
  <2> QED BY <2>1, <2>2
<1>8. t = S!Most(0, S!Least(b + r.h, R.h) - S!Most(b, 0)) /\ b \in Int
  <2>1. r.y \in Int /\ r.h \in Int /\ R.y \in Int /\ R.h \in Nat
    BY <1>1, <1>3
  <2>2. t = S!Most(0, S!Least((r.y - R.y) + r.h, R.h) - S!Most(r.y - R.y, 0))
    BY ONLY <2>1, SpanFrom
  <2> QED BY <2>1, <2>2
<1> HIDE DEF a, b, s, t
<1>9. z(a) < pic.w /\ z(a) + S!Most(z(r.w), 4) > 0
  BY <1>1, <1>2, <1>3, <1>4, <1>6, <1>7, AxisDrawn
<1>10. z(b) < pic.h /\ z(b) + S!Most(z(r.h), 4) > 0
  BY <1>1, <1>2, <1>3, <1>4, <1>6, <1>8, AxisDrawn
<1> HIDE DEF z
<1>11. pl.x < pic.w /\ pl.x + pl.w > 0 /\ pl.y < pic.h /\ pl.y + pl.h > 0
  BY <1>5, <1>9, <1>10
<1>12. S!Rect(0, 0, pic.w, pic.h) = [x |-> 0, y |-> 0, w |-> pic.w, h |-> pic.h]
  BY DEF S!Rect
<1> HIDE DEF pl
<1>13. S!Meet(pl, S!Rect(0, 0, pic.w, pic.h))
  BY <1>2, <1>11, <1>12 DEF S!Meet
<1> QED BY <1>13 DEF pl

-----------------------------------------------------------------------------
(***************************************************************************)
(* The inductive invariant of the marked screen: the picture shows a part  *)
(* of the screen in proportion, the things are where they are on it, the   *)
(* groups are parts of their outlines, and the marks are laid and the ones *)
(* that are seen drawn.                                                    *)
(***************************************************************************)
Shows  == step # "crop" => PicInv /\ WindowInv
Looked == step \in {"detect", "mark", "draw", "done"} => SpotInv
Seen   == (step \in {"crop", "look", "detect"} => groups = <<>>) /\ (step = "mark" => DetectInv)
Marks  == step \in {"draw", "done"} /\ S!Upright => Laid(drawing) /\ \E V : drawing \in Seq(V)
Drawn  == step = "done" /\ S!Upright =>
              \A n \in 1..Len(drawing) : S!Seen(drawing[n].rect) => n \in drawn
ScreenInv ==
    /\ shot \in Shots /\ step \in {"crop", "look", "detect", "mark", "draw", "done", "failed"}
    /\ Shows /\ Looked /\ Seen /\ Marks /\ Drawn

(* They are so of the same shot and picture only.                          *)
LEMMA PicSame ==
    ASSUME shot' = shot, pic' = pic
    PROVE  /\ PicInv' <=> PicInv
           /\ WindowInv' <=> WindowInv
           /\ S!Upright' <=> S!Upright
           /\ S!Region' = S!Region /\ S!Monitor' = S!Monitor /\ S!LookSize' = S!LookSize
<1>1. S!Region' = S!Region /\ S!Monitor' = S!Monitor /\ S!LookSize' = S!LookSize
  BY DEF S!Region, S!Monitor, S!LookSize
<1>2. S!Upright' <=> S!Upright
  BY DEF S!Upright
<1>3. PicInv' <=> PicInv
  BY <1>2 DEF PicInv
<1>4. WindowInv' <=> WindowInv
  BY <1>1 DEF WindowInv
<1> QED BY <1>1, <1>2, <1>3, <1>4

LEMMA SpotSame ==
    ASSUME shot' = shot, pic' = pic, spots' = spots
    PROVE  SpotInv' <=> SpotInv
<1>1. S!LookSize' = S!LookSize /\ S!Region' = S!Region
  BY PicSame
<1>2. ASSUME NEW i PROVE S!OnPicture(i)' = S!OnPicture(i)
  BY <1>1 DEF S!OnPicture, S!Thing
<1>3. [i \in 1..Len(shot.things) |-> S!OnPicture(i)]' = [i \in 1..Len(shot.things) |-> S!OnPicture(i)]
  BY <1>2
<1> QED BY <1>3 DEF SpotInv

(* What is known of groups is of the same outlines and places too,         *)
LEMMA BlocksSame ==
    ASSUME shot' = shot, pic' = pic, spots' = spots
    PROVE  /\ AllBlocks' = AllBlocks /\ Groups' = Groups
           /\ \A i : S!Visible(i)' <=> S!Visible(i)
           /\ \A g : S!Box(g)' = S!Box(g) /\ (S!Found(g)' <=> S!Found(g))
<1>1. S!Region' = S!Region /\ S!LookSize' = S!LookSize
  BY PicSame
<1>2. S!Rows' = S!Rows /\ S!Cols' = S!Cols
  BY <1>1 DEF S!Rows, S!Cols
<1>3. AllBlocks' = AllBlocks /\ Groups' = Groups
  BY <1>2 DEF AllBlocks, Groups
<1>4. ASSUME NEW i PROVE S!Visible(i)' <=> S!Visible(i)
  BY <1>1 DEF S!Visible, S!Meet, S!Thing
<1>5. ASSUME NEW g PROVE S!Box(g)' = S!Box(g)
  BY <1>1 DEF S!Box, S!Rect, S!Least
<1>6. ASSUME NEW g PROVE S!Found(g)' <=> S!Found(g)
  BY <1>1, <1>2, <1>5 DEF S!Found, S!Most
<1> QED BY <1>3, <1>4, <1>5, <1>6

LEMMA DetectSame ==
    ASSUME shot' = shot, pic' = pic, spots' = spots, lit' = lit, groups' = groups, DetectInv
    PROVE  DetectInv'
<1>1. S!LookSize' = S!LookSize
  BY PicSame
<1>2. ASSUME NEW i, Outlined(i) PROVE Outlined(i)'
  <2>1. S!Visible(i)' <=> S!Visible(i)
    BY BlocksSame
  <2>2. S!Box(lit[i])' = S!Box(lit[i]) /\ (S!Found(lit[i])' <=> S!Found(lit[i]))
    <3> DEFINE g == lit[i]
    <3>1. S!Box(g)' = S!Box(g) /\ (S!Found(g)' <=> S!Found(g))
      BY <1>1, BlocksSame DEF S!Box, S!Found, S!Rect, S!Least, S!Most, S!Rows, S!Cols
    <3> QED BY <3>1
  <2> QED BY <1>1, <1>2, <2>1, <2>2 DEF Outlined, Boxed
<1>3. Groups' = Groups
  BY BlocksSame
<1> QED BY <1>2, <1>3 DEF DetectInv

(* and so is whether an outline is unbroken, on which a mark's being laid  *)
(* depends.                                                                *)
LEMMA LaidSame ==
    ASSUME shot' = shot, pic' = pic, spots' = spots, lit' = lit, groups' = groups, NEW ms, Laid(ms), drawing' = ms
    PROVE  Laid(drawing)'
<1>1. S!Region' = S!Region
  BY PicSame
<1>2. ASSUME NEW i PROVE S!Thing(i)' = S!Thing(i)
  BY DEF S!Thing
<1>3. ASSUME NEW i, NEW n PROVE S!Large(i, n)' <=> S!Large(i, n)
  BY <1>1, <1>2 DEF S!Large, S!Meet
<1>4. ASSUME NEW i PROVE S!Within(S!Thing(i))' <=> S!Within(S!Thing(i))
  BY <1>1, <1>2 DEF S!Within
<1>a. ASSUME NEW i PROVE S!Unbroken(i)' <=> S!Unbroken(i)
  BY DEF S!Unbroken
<1>b. ASSUME NEW i PROVE Apart(i)' <=> Apart(i)
  BY <1>3, <1>4, <1>a DEF Apart
<1>5. CASE Even(ms)
  <2>1. Even(drawing)'
    BY <1>1, <1>5 DEF Even, Pixel
  <2> QED BY <2>1 DEF Laid
<1>6. CASE Single(ms) /\ \A k \in 1..Len(ms) : Sound(ms[k])
  <2>1. Single(drawing)'
    BY <1>b, <1>6 DEF Single
  <2>2. ASSUME NEW k \in 1..Len(ms) PROVE Sound(drawing[k])'
    BY <1>2, <1>3, <1>a, <1>6 DEF Sound
  <2> QED BY <2>1, <2>2 DEF Laid
<1> QED BY <1>5, <1>6 DEF Laid

(* The five steps of a call.                                               *)
LEMMA PictureStep ==
    ASSUME ShotsAssumption, ScreenInv, S!ProcessImage
    PROVE  ScreenInv'
<1>1. PicInv' /\ WindowInv' /\ step' = "look"
  BY TakesPicture DEF ScreenInv
<1>2. shot' = shot /\ groups' = groups /\ step = "crop"
  BY DEF S!ProcessImage
<1> QED BY <1>1, <1>2 DEF ScreenInv, Shows, Looked, Seen, Marks, Drawn

LEMMA LookStep ==
    ASSUME ScreenInv, S!Look
    PROVE  ScreenInv'
<1>1. SpotInv' /\ step' = "detect"
  BY Looks
<1>2. shot' = shot /\ pic' = pic /\ groups' = groups /\ step = "look"
  BY DEF S!Look
<1>3. PicInv' /\ WindowInv'
  BY <1>2, PicSame DEF ScreenInv, Shows
<1> QED BY <1>1, <1>2, <1>3 DEF ScreenInv, Shows, Looked, Seen, Marks, Drawn

LEMMA DetectStep ==
    ASSUME ShotsAssumption, ScreenInv, S!Detect
    PROVE  ScreenInv'
<1>1. shot' = shot /\ pic' = pic /\ spots' = spots /\ step = "detect" /\ step' = "mark"
  BY DEF S!Detect
<1>2. PicInv /\ WindowInv /\ SpotInv /\ shot \in Shots /\ groups = <<>>
  BY <1>1 DEF ScreenInv, Shows, Looked, Seen
<1>3. PicInv' /\ WindowInv' /\ SpotInv'
  BY <1>1, <1>2, PicSame, SpotSame
<1>4. Groups' = Groups /\ S!LookSize' = S!LookSize
  BY <1>1, BlocksSame, PicSame
<1>5. DetectInv'
  <2>1. CASE UNCHANGED <<lit, groups>>
    <3>1. groups' = <<>> /\ Len(<<>>) = 0
      BY <1>2, <2>1, EmptySeq
    <3>2. <<>> \in Seq(Groups')
      BY EmptySeq
    <3> QED BY <3>1, <3>2 DEF DetectInv
  <2>2. ASSUME S!Detects, NEW glow \in Glows, lit' = S!Lit(glow),
               groups' = S!Grouped(UNION {lit'[i] : i \in 1..Len(shot.things)})
        PROVE  DetectInv'
    <3> DEFINE Q == 1..Len(shot.things)
               A == UNION {lit'[i] : i \in Q}
    <3>1. Seated
      BY <1>2, AllSeated
    <3>2. ASSUME NEW i \in Q, NEW b \in lit'[i] PROVE b \in AllBlocks /\ S!Visible(i)
      BY <2>2, <3>1, LitIs
    <3>3. A \in SUBSET AllBlocks
      BY <3>2
    <3>4. groups' \in Seq((SUBSET A) \ {{}})
      <4> HIDE DEF A
      <4>1. S!Grouped(A) \in Seq((SUBSET A) \ {{}})
        BY <1>2, <3>3, GroupedIs
      <4> QED BY <2>2, <4>1 DEF A
    <3>5. \A k \in 1..Len(groups') : groups'[k] \in (SUBSET A) \ {{}}
      <4> HIDE DEF A
      <4> QED BY <3>4, ElementOfSeq
    <3>6. groups' \in Seq(Groups)
      <4>1. (SUBSET A) \ {{}} \subseteq Groups
        BY <3>3 DEF Groups
      <4> HIDE DEF A
      <4> QED BY <3>4, <4>1
    <3>7. ASSUME NEW k \in 1..Len(groups') PROVE \E i \in Q : lit'[i] \cap groups'[k] # {}
      <4>1. PICK b \in groups'[k] : b \in A
        BY <3>5
      <4>2. PICK i \in Q : b \in lit'[i]
        BY <4>1
      <4> QED BY <4>1, <4>2
    <3>8. 24 <= pic.w /\ 24 <= pic.h
      BY <1>2, <2>2 DEF S!Detects, PicInv
    <3>9. ASSUME NEW i \in Q PROVE Outlined(i)'
      <4> DEFINE g == S!Lit(glow)[i]
                 p == spots[i]
      <4>1. lit'[i] = g
        BY <2>2
      <4>2. (g # {} => S!Visible(i)) /\ (S!Visible(i)' <=> S!Visible(i))
        BY <1>1, <3>2, <4>1, BlocksSame
      <4>3. g # {} /\ S!Found(g) /\ 30 <= p.w /\ 30 <= p.h =>
                /\ Boxed(S!LookSize.w, p.x, p.w, S!Box(g).x, S!Box(g).w)
                /\ Boxed(S!LookSize.h, p.y, p.h, S!Box(g).y, S!Box(g).h)
        <5> HIDE DEF g
        <5>1. g = S!Lit(glow)[i]
          BY DEF g
        <5> QED BY <3>1, <5>1, LitBoxed
      <4> HIDE DEF g
      <4>4. (S!Found(lit[i])' <=> S!Found(g)) /\ S!Box(lit[i])' = S!Box(g)
        BY <1>4, <4>1 DEF S!Box, S!Found, S!Rect, S!Least, S!Most, S!Rows, S!Cols
      <4>5. spots[i]' = p /\ lit[i]' = g
        BY <1>1, <4>1
      <4> QED BY <1>4, <4>2, <4>3, <4>4, <4>5 DEF Outlined, Boxed
    <3> QED BY <1>1, <1>4, <3>6, <3>7, <3>8, <3>9 DEF DetectInv
  <2> QED BY <2>1, <2>2 DEF S!Detect
<1>6. shot' \in Shots
  BY <1>1, <1>2
<1> QED BY <1>1, <1>3, <1>5, <1>6 DEF ScreenInv, Shows, Looked, Seen, Marks, Drawn

LEMMA LayStep ==
    ASSUME ShotsAssumption, ScreenInv, S!GenerateMarks
    PROVE  ScreenInv'
<1>1. shot' = shot /\ pic' = pic /\ spots' = spots /\ lit' = lit /\ groups' = groups /\ step = "mark" /\ step' \in {"draw", "failed"}
  BY DEF S!GenerateMarks
<1>2. PicInv /\ WindowInv /\ SpotInv /\ DetectInv /\ shot \in Shots
  BY <1>1 DEF ScreenInv, Shows, Looked, Seen
<1>3. PicInv' /\ WindowInv' /\ SpotInv' /\ (S!Upright' <=> S!Upright)
  BY <1>1, <1>2, PicSame, SpotSame
<1>4. ASSUME step' = "draw", S!Upright PROVE (Laid(drawing) /\ \E V : drawing \in Seq(V))'
  <2> DEFINE c == S!Candidates
             ms == IF pic.crop = None THEN c ELSE S!Shown(c)
  <2>1. drawing' = ms
    BY <1>1, <1>4 DEF S!GenerateMarks
  <2>2. Laid(c) /\ \E V : c \in Seq(V)
    BY <1>2, <1>4, CandidatesLaid
  <2> HIDE DEF c
  <2>3. PICK V : c \in Seq(V)
    BY <2>2
  <2>4. Laid(S!Shown(c)) /\ S!Shown(c) \in Seq(V)
    BY <1>2, <2>2, <2>3, ShownLaid, InPictureIs
  <2>5. Laid(ms) /\ ms \in Seq(V)
    BY <2>2, <2>3, <2>4
  <2> HIDE DEF ms
  <2>6. Laid(drawing)'
    BY <1>1, <2>1, <2>5, LaidSame
  <2>7. drawing' \in Seq(V)
    BY <2>1, <2>5
  <2> QED BY <2>6, <2>7
<1>5. Marks'
  BY <1>1, <1>3, <1>4 DEF Marks
<1>6. Shows' /\ Looked' /\ Seen' /\ Drawn'
  BY <1>1, <1>3 DEF Shows, Looked, Seen, Drawn
<1>7. shot' \in Shots /\ step' \in {"crop", "look", "detect", "mark", "draw", "done", "failed"}
  BY <1>1, <1>2
<1> QED BY <1>5, <1>6, <1>7 DEF ScreenInv

LEMMA DrawStep ==
    ASSUME ShotsAssumption, ScreenInv, S!Annotate
    PROVE  ScreenInv'
<1>1. /\ shot' = shot /\ pic' = pic /\ spots' = spots /\ lit' = lit /\ groups' = groups /\ drawing' = drawing /\ step = "draw" /\ step' = "done"
      /\ drawn' = {n \in 1..Len(drawing) : S!Meet(S!Placed(drawing[n]), S!Rect(0, 0, pic.w, pic.h))}
  BY DEF S!Annotate
<1>2. PicInv /\ WindowInv /\ SpotInv /\ shot \in Shots
  BY <1>1 DEF ScreenInv, Shows, Looked
<1>3. PicInv' /\ WindowInv' /\ SpotInv' /\ (S!Upright' <=> S!Upright) /\ S!Region' = S!Region
  BY <1>1, <1>2, PicSame, SpotSame
<1>4. ASSUME S!Upright PROVE (Laid(drawing) /\ \E V : drawing \in Seq(V))'
  <2>1. Laid(drawing) /\ \E V : drawing \in Seq(V)
    BY <1>1, <1>4 DEF ScreenInv, Marks
  <2>2. Laid(drawing)'
    BY <1>1, <2>1, LaidSame
  <2> QED BY <1>1, <2>1, <2>2
<1>5. ASSUME S!Upright, NEW n \in 1..Len(drawing), S!Seen(drawing[n].rect) PROVE n \in drawn'
  <2>1. Laid(drawing)
    BY <1>1, <1>5 DEF ScreenInv, Marks
  <2>2. Whole(drawing[n].rect)
    BY <2>1 DEF Laid, Even, Sound
  <2>3. S!Meet(S!Placed(drawing[n]), S!Rect(0, 0, pic.w, pic.h))
    BY <1>2, <1>5, <2>2, SeenIsDrawn
  <2> QED BY <1>1, <2>3
<1>6. ASSUME NEW n PROVE S!Seen(drawing[n].rect)' <=> S!Seen(drawing[n].rect)
  BY <1>1, <1>3 DEF S!Seen
<1>7. Drawn'
  BY <1>1, <1>3, <1>5, <1>6 DEF Drawn
<1>8. Marks'
  BY <1>1, <1>3, <1>4 DEF Marks
<1> QED BY <1>1, <1>2, <1>3, <1>7, <1>8 DEF ScreenInv, Shows, Looked, Seen

(* A step of another part.                                                 *)
LEMMA PictureStill ==
    ASSUME ScreenInv, UNCHANGED picture
    PROVE  ScreenInv'
<1>1. /\ shot' = shot /\ pic' = pic /\ spots' = spots /\ lit' = lit /\ groups' = groups
      /\ drawing' = drawing /\ step' = step /\ drawn' = drawn
  BY DEF picture
<1>2. /\ (PicInv' <=> PicInv) /\ (WindowInv' <=> WindowInv) /\ (SpotInv' <=> SpotInv)
      /\ (S!Upright' <=> S!Upright) /\ S!Region' = S!Region
  BY <1>1, PicSame, SpotSame
<1>3. Shows' /\ Looked' /\ Seen'
  BY <1>1, <1>2, DetectSame DEF ScreenInv, Shows, Looked, Seen
<1>4. Marks'
  <2>1. ASSUME Laid(drawing) PROVE Laid(drawing)'
    BY <1>1, <2>1, LaidSame
  <2> QED BY <1>1, <1>2, <2>1 DEF ScreenInv, Marks
<1>5. ASSUME NEW n PROVE S!Seen(drawing[n].rect)' <=> S!Seen(drawing[n].rect)
  BY <1>1, <1>2 DEF S!Seen
<1>6. Drawn'
  BY <1>1, <1>2, <1>5 DEF ScreenInv, Drawn
<1> QED BY <1>1, <1>3, <1>4, <1>6 DEF ScreenInv

THEOREM ScreenInvariant == MCSpec => []ScreenInv
<1>1. MCInit => ScreenInv
  <2> SUFFICES ASSUME MCInit PROVE ScreenInv
    OBVIOUS
  <2>1. shot \in Shots /\ step = "crop" /\ groups = <<>>
    BY DEF MCInit, S!Init
  <2> QED BY <2>1 DEF ScreenInv, Shows, Looked, Seen, Marks, Drawn
<1>2. ScreenInv /\ [MCNext]_<<part, vars, tools, picture>> => ScreenInv'
  <2> SUFFICES ASSUME ScreenInv, [MCNext]_<<part, vars, tools, picture>> PROVE ScreenInv'
    OBVIOUS
  <2>1. CASE UNCHANGED picture
    BY <2>1, PictureStill
  <2>2. CASE S!ProcessImage
    BY <2>2, ShotsAssumption, PictureStep
  <2>3. CASE S!Look
    BY <2>3, LookStep
  <2>4. CASE S!Detect
    BY <2>4, ShotsAssumption, DetectStep
  <2>5. CASE S!GenerateMarks
    BY <2>5, ShotsAssumption, LayStep
  <2>6. CASE S!Annotate
    BY <2>6, ShotsAssumption, DrawStep
  <2> QED BY <2>1, <2>2, <2>3, <2>4, <2>5, <2>6 DEF MCNext, S!Next
<1> QED BY <1>1, <1>2, PTL DEF MCSpec

(* A click on a mark hits the thing that the mark is of (som.rs,           *)
(* resolve_mark_center), on any screen, whatever is on it and however it   *)
(* is cropped and scaled.                                                  *)
THEOREM MarksReachHolds == MCSpec => []MarksReach
<1>1. ScreenInv => MarksReach
  <2> SUFFICES ASSUME ScreenInv, step = "done", S!Upright, NEW n \in 1..Len(drawing), drawing[n].of # 0,
                      drawing[n].rect = S!Thing(drawing[n].of) \/ (S!Large(drawing[n].of, 30) /\ S!Unbroken(drawing[n].of))
               PROVE  S!Lies(S!Center(drawing[n].rect), S!Thing(drawing[n].of))
    BY DEF MarksReach, S!MarksReach, S!Done
  <2>1. Laid(drawing)
    BY DEF ScreenInv, Marks
  <2>2. Sound(drawing[n])
    BY <2>1 DEF Laid, Even
  <2> QED BY <2>2 DEF Sound
<1> QED BY <1>1, ScreenInvariant, PTL
(* Sets of one at most.                                                    *)
LEMMA OneAtMost ==
    ASSUME NEW X, \A a, b \in X : a = b
    PROVE  Cardinality(X) <= 1
<1>1. CASE X = {}
  BY <1>1, FS_EmptySet
<1>2. CASE X # {}
  <2>1. PICK a \in X : TRUE
    BY <1>2
  <2>2. X = {a}
    BY <2>1
  <2> QED BY <2>2, FS_Singleton
<1> QED BY <1>1, <1>2

(* Of a grid, every pixel of the region is on one mark,                    *)
EveryPixel == S!Done /\ S!Upright /\ S!IsGrid =>
    \A x \in 0..S!Region.w - 1, y \in 0..S!Region.h - 1 : Cardinality(S!Hit(x, y)) = 1

LEMMA EachHit ==
    ASSUME ScreenInv
    PROVE  EveryPixel
<1> SUFFICES ASSUME step = "done", S!Upright, S!IsGrid,
                    NEW x \in 0..S!Region.w - 1, NEW y \in 0..S!Region.h - 1
             PROVE  Cardinality(S!Hit(x, y)) = 1
  BY DEF EveryPixel, S!Done
<1>1. Laid(drawing) /\ \E V : drawing \in Seq(V)
  BY DEF ScreenInv, Marks
<1>2. 1 \in 1..Len(drawing) /\ drawing[1].of = 0
  <2>1. PICK V : drawing \in Seq(V)
    BY <1>1
  <2>2. drawing # <<>>
    BY DEF S!IsGrid
  <2>3. Len(drawing) \in Nat /\ Len(drawing) # 0
    BY <2>1, <2>2, EmptySeq, LenProperties
  <2>4. 1 \in 1..Len(drawing)
    BY <2>3
  <2> QED BY <2>4 DEF S!IsGrid
<1>3. Even(drawing)
  <2>1. ~Sound(drawing[1])
    BY <1>2 DEF Sound
  <2> QED BY <1>1, <1>2, <2>1 DEF Laid
<1>4. PICK n \in 1..Len(drawing) :
           \A k \in 1..Len(drawing) : S!Lies(Pixel(x, y), drawing[k].rect) <=> k = n
  BY <1>3 DEF Even
<1>5. S!Hit(x, y) = {k \in 1..Len(drawing) : S!Lies(Pixel(x, y), drawing[k].rect)}
  BY DEF S!Hit, Pixel
<1>6. S!Hit(x, y) = {n}
  BY <1>4, <1>5
<1> QED BY <1>6, FS_Singleton

(* and of the marks of things, a large one of the region has one at most.  *)
LEMMA NoneTwice ==
    ASSUME ScreenInv, step = "done", S!Upright, NEW i \in 1..Len(shot.things),
           Apart(i)
    PROVE  Cardinality(S!MarksOf(i)) <= 1
<1>1. Laid(drawing)
  BY DEF ScreenInv, Marks
<1>2. ASSUME NEW k \in 1..Len(drawing), NEW l \in 1..Len(drawing), drawing[k].of = i, drawing[l].of = i
      PROVE  k = l
  <2>1. i # 0
    OBVIOUS
  <2>2. ~Even(drawing)
    BY <1>2, <2>1 DEF Even
  <2>3. Single(drawing)
    BY <1>1, <2>2 DEF Laid
  <2> QED BY <1>2, <2>3 DEF Single
<1>3. \A a, b \in S!MarksOf(i) : a = b
  BY <1>2 DEF S!MarksOf
<1> QED BY <1>3, OneAtMost

(* What is on the picture is marked once, the marks of which something is  *)
(* seen are drawn, and a named window is in the picture (som.rs, screen.rs).*)
THEOREM MarksCoverHolds == MCSpec => []MarksCover
<1>1. ScreenInv /\ ShotsAssumption => S!MarksCover
  <2> SUFFICES ASSUME ScreenInv, step = "done", S!Upright PROVE S!MarksCover
    BY DEF S!MarksCover, S!Done
  <2>1. S!Region.w \in Nat \ {0} /\ S!Region.h \in Nat \ {0}
    BY ShotsAssumption, RegionIs DEF ScreenInv, Shows
  <2>2. /\ {0, S!Region.w \div 2, S!Region.w - 1} \subseteq 0..S!Region.w - 1
        /\ {0, S!Region.h \div 3, S!Region.h - 1} \subseteq 0..S!Region.h - 1
    BY <2>1
  <2>3. ASSUME S!IsGrid, NEW x \in {0, S!Region.w \div 2, S!Region.w - 1},
               NEW y \in {0, S!Region.h \div 3, S!Region.h - 1}
        PROVE  Cardinality(S!Hit(x, y)) = 1
    <3>1. x \in 0..S!Region.w - 1 /\ y \in 0..S!Region.h - 1
      BY <2>2
    <3>2. EveryPixel
      BY EachHit
    <3> QED BY <2>3, <3>1, <3>2 DEF EveryPixel, S!Done
  <2>4. S!GridCovers
    BY <2>3, SameCardinality DEF S!GridCovers
  <2>5. S!MarkedOnce
    BY NoneTwice, SameCardinality DEF S!MarkedOnce, Apart
  <2>6. S!SeenIsDrawn
    BY DEF ScreenInv, Drawn, S!SeenIsDrawn
  <2> QED BY <2>4, <2>5, <2>6 DEF S!MarksCover
<1>2. ScreenInv => S!WindowShown
  BY DEF ScreenInv, Shows, WindowInv, S!WindowShown
<1>3. ScreenInv => MarksCover
  BY <1>1, <1>2, ShotsAssumption DEF MarksCover
<1> QED BY <1>3, ScreenInvariant, PTL

(* The whole of what its first part looks at some pixels of: the cells of  *)
(* a grid are a partition of the region.                                   *)
THEOREM GridIsPartition == MCSpec => []EveryPixel
<1>1. ScreenInv => EveryPixel
  BY EachHit
<1> QED BY <1>1, ScreenInvariant, PTL
=============================================================================
