---------------------------- MODULE DispatchWorlds ----------------------------
(* The worlds in which Dispatch is checked: a world names the requests of   *)
(* a behaviour and what may happen around them.                             *)
EXTENDS Naturals, Sequences

CONSTANTS s1, s2, None

MCTerminals == <<"t1", "t2">>
MCNames     == {"Lab", "lab", "host", "t2"}
MCFold      == [x \in MCNames \cup {"t1", "zz"} |-> IF x = "Lab" THEN "lab" ELSE x]
MCHost      == [t \in {"t1", "t2"} |-> "host"]
NoNames     == [t \in {"t1", "t2"} |-> None]

Do(tool, arg, named, extra) == [tool |-> tool, arg |-> arg, named |-> named, extra |-> extra, id |-> TRUE]
Note(item)     == [item EXCEPT !.id = FALSE]
See            == Do("list_processes", None, None, None)
SeeIn(s)       == Do("list_processes", None, s, None)
SeeOn(x)       == Do("list_processes", x, None, None)
Pick(x)        == Do("select_terminal", x, None, None)
Call(x, n)     == Do("rename_terminal", x, None, n)
Mcp(role, sid, items) == [door |-> "mcp", role |-> role, sid |-> sid, items |-> items]
Console(role, item)   == [door |-> "rest", role |-> role, sid |-> None, items |-> <<item>>]
World(online, names, http, lines, events) ==
    [online |-> online, kept |-> {}, names |-> names, http |-> http, lines |-> lines, events |-> events]
Both == {"t1", "t2"}

Batch(events, online, names, https) == {World(online, names, http, <<>>, events) : http \in https}
Pairs(S) == {{a, b} : a \in S, b \in S}
Alone(S) == {{a} : a \in S}

(* Two sessions, and a selection for everybody, in one batch and apart.    *)
Selecting == Batch({}, Both, NoNames, Pairs(
    {Mcp(1, s1, <<Pick("t1"), See>>), Mcp(1, s2, <<Pick("t2"), SeeIn(s1)>>),
     Mcp(1, None, <<Pick("t2"), See>>), Mcp(1, s1, <<See>>)}))
(* Names that collide with names and with ids.                             *)
Naming == Batch({}, Both, [NoNames EXCEPT !["t2"] = "Lab"], Pairs(
    {Mcp(2, None, <<Call("t1", "t2"), SeeOn("t2")>>), Mcp(2, s1, <<Call("Lab", "lab"), SeeOn("lab")>>),
     Mcp(1, s2, <<SeeOn("host"), Pick("zz")>>), Mcp(1, s2, <<SeeOn("zz"), SeeOn("")>>)}))
(* Terminals that come, go and are deleted under a selection.              *)
Moving == UNION {Batch({t}, {"t1"}, NoNames, Pairs(
    {Mcp(1, s1, <<Pick("t1"), See>>), Mcp(1, s1, <<Do("get_active_terminal", None, None, None)>>),
     Console(3, Do("api_delete", "t1", None, None))})) : t \in Both}
(* Every operation by those who may and who may not.                       *)
Roles == Batch({}, {"t1"}, NoNames, Alone(
    {Mcp(1, None, <<Do("exec_cmd", "t1", None, None), Do("cancel_tool", None, None, None), Call("t1", "Lab"),
                    Do("no_tool", None, None, None), Do("ping", None, None, None)>>),
     Console(1, Do("api_cancel", "t1", None, None)), Console(2, Do("api_delete", "t1", None, None)),
     Console(2, Do("api_input", "t1", None, None)), Console(2, Do("exec_cmd", "t1", None, None))}))
Acting == Batch({"drop"}, {"t1"}, NoNames, Pairs(
    {Mcp(2, s1, <<Do("cancel_task", None, None, None)>>), Console(2, Do("api_cancel", "t1", None, None)),
     Mcp(3, s1, <<Do("capture_screen", None, None, "file")>>), Console(3, Do("capture_screen", "t1", None, "file")),
     Console(3, Do("api_delete", "t1", None, None)), Console(3, Do("api_move", "t1", None, None)),
     Console(3, Do("api_input", "t2", None, None)), Console(2, Do("api_meta", "t1", None, "Lab"))}))
(* Lines that overtake each other on stdio.                                *)
Piped == {World({"t1"}, NoNames, {},
    << <<Pick("t1")>>, <<>>, <<See, Note(See), Do("select_terminal", None, None, None)>>, <<Note(See)>> >>, {})}
Broken == {World({"t1"}, NoNames, {}, << <<SeeOn("t1")>>, <<>>, <<SeeOn("t1")>> >>, {"inputerror", "outputerror"})}

(* A terminal that registers while it is deleted, and one seen before.     *)
Hidden == {[World({}, NoNames, {Console(3, Do("api_delete", "t2", None, None))}, <<>>, {"t2"})
              EXCEPT !.kept = {"t1"}]}

MCWorlds == Selecting \cup Naming \cup Moving \cup Roles \cup Acting \cup Piped \cup Broken
=============================================================================
