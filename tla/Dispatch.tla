------------------------------ MODULE Dispatch ------------------------------
(***************************************************************************)
(* How a request finds its terminal: the dispatch of tool calls by name,   *)
(* role and selected terminal, behind the doors of the gateway: JSON-RPC   *)
(* over HTTP (one request or a batch), JSON-RPC over stdio, and the REST   *)
(* interface of the console.                                               *)
(*                                                                         *)
(* Sources: crates/server/src/router.rs (dispatch, resolution, selection), *)
(* mcp/mod.rs (handle_jsonrpc_request_with_context, messages_handler,      *)
(* run_stdio_server_with_streams), mcp/dashboard.rs (the REST handlers),   *)
(* config.rs (is_tool_allowed_for_role), ws/registry.rs (the two reads of  *)
(* a terminal), protocol/src/tools.rs (the tools and their roles).         *)
(*                                                                         *)
(* A step is what runs between two locks. A call under way on a terminal   *)
(* is the subject of Gateway: here it is sent, and ends well or not, or is *)
(* cancelled. Authentication is the subject of HttpAuth: a request here    *)
(* has a role. The contents of answers are left out.                       *)
(***************************************************************************)
EXTENDS Naturals, Sequences, FiniteSets

CONSTANTS
    MaxRequests,\* requests at work at one time
    Terminals,  \* terminals, in the order of the list
    Sessions,   \* MCP sessions
    Names,      \* custom names and host names
    Fold,       \* what a name is without its case
    Host,       \* the host name of each terminal
    Room,       \* answers that wait for the writer of stdio
    Worlds,     \* what may happen: a behaviour draws one of these
    None        \* no terminal, no name, no session

VARIABLES
    world,     \* the world of this behaviour
    session,   \* each terminal's session: absent, offline or online
    known,     \* terminals whose information the metadata store keeps
    name,      \* the custom name of each
    joining,   \* terminals between the two writes of a registration
    active,    \* the terminal selected for everybody
    selected,  \* the terminal selected in each session
    left,      \* the HTTP requests yet to come
    req,       \* the requests at work
    line,      \* the lines read from stdin
    reader,    \* the reader of stdin
    out,       \* the answers on their way to the writer, by line
    writer,    \* the writer of stdout
    written,   \* the answers written
    disk       \* the request whose image the file on the server holds

vars == <<world, session, known, name, joining, active, selected, left, req,
          line, reader, out, writer, written, disk>>
registry   == <<session, known, name, joining>>
selections == <<active, selected>>
stdio      == <<line, reader, out, writer, written>>

Requests == 1..MaxRequests
Seats    == 1..Len(Terminals)
Ids      == {Terminals[i] : i \in Seats}

(***************************************************************************)
(* Tools, and the roles that may use them: 1 viewer, 2 operator, 3 admin.  *)
(***************************************************************************)
ViewerTools ==
    {"get_system_overview", "list_processes", "read_text_file", "capture_screen", "list_monitors",
     "list_directory", "search_files", "list_network_connections", "test_network",
     "get_event_logs", "get_ui_tree", "list_windows", "get_marked_screen"}
OperatorTools == {"manage_service"}
AdminTools ==
    {"exec_powershell", "exec_cmd", "kill_process", "write_text_file", "mouse_click", "mouse_move",
     "mouse_drag", "mouse_scroll", "type_text", "press_key", "key_down", "key_up", "hotkey",
     "click_element", "set_element_text", "batch_actions", "focus_window", "close_window", "click_mark"}
AgentTools == ViewerTools \cup OperatorTools \cup AdminTools
ImageTools == {"capture_screen", "get_marked_screen"}

(* The tools of the server itself; cancel_task is one that is not listed.  *)
Readings == {"list_terminals", "get_active_terminal", "list_pending_calls"}
Cancels  == {"cancel_tool", "cancel_task"}

RequiredRole(tool) ==
    CASE tool \in ViewerTools \cup Readings \cup {"select_terminal"} -> 1
      [] tool \in OperatorTools \cup Cancels \cup {"rename_terminal"} -> 2
      [] tool \in AdminTools -> 3
      [] OTHER -> 4
Allowed(role, tool) == role >= RequiredRole(tool)

(* What a request brings, and each of its items.                           *)
Items  == [tool : STRING, arg : DOMAIN Fold \cup {"", None}, named : Sessions \cup {None},
           extra : DOMAIN Fold \cup {"file", None}, id : BOOLEAN]
Errand == [door : {"mcp", "rest"}, role : {1, 2, 3, None}, sid : Sessions \cup {None}, items : Seq(Items)]

Idle == [pc |-> "idle", door |-> None, role |-> None, sid |-> None, items |-> <<>>, line |-> 0,
         replies |-> 0, goal |-> None, target |-> None, on |-> None, calm |-> TRUE,
         ok |-> FALSE, rec |-> None]
Item(q) == Head(q.items)

Init ==
    /\ world \in Worlds
    /\ session = [t \in Ids |-> IF t \in world.online THEN "online" ELSE "absent"]
    /\ known = world.online \cup world.kept /\ joining = {}
    /\ name = [t \in Ids |-> world.names[t]]
    /\ active = None /\ selected = [s \in Sessions |-> None]
    /\ left = world.http
    /\ req = [r \in Requests |-> Idle]
    /\ line = 0 /\ reader = "reading" /\ out = <<>> /\ writer = "up" /\ written = <<>>
    /\ disk = None

Put(r, q) == req' = [req EXCEPT ![r] = q]
Done(q, good) == [q EXCEPT !.ok = good, !.rec = IF good THEN "SUCCESS" ELSE "FAILED", !.pc = "answer"]

(* History: a call is calm while nothing it looks at changes.              *)
Stirred(qs, S) == [r \in Requests |-> [qs[r] EXCEPT !.calm = @ /\ r \notin S]]

(***************************************************************************)
(* What a request may do, and what it does first.                          *)
(***************************************************************************)
(* Nobody's role is looked at over stdio. Each handler of the console has  *)
(* a check of its own; that of the metadata is in the authentication layer.*)
Permits_Lax(q) == \* a viewer may cancel over REST, as the path has no least role
    IF q.door = "rest" THEN Item(q).tool \in {"api_meta", "api_cancel"}
                            \/ (q.role = 3 /\ Item(q).tool \in {"api_delete", "api_input", "api_move"})
                            \/ Allowed(q.role, Item(q).tool)
    ELSE q.role = None \/ Allowed(q.role, Item(q).tool)
Permits(q) ==
    IF q.door = "rest"
    THEN CASE Item(q).tool = "api_meta" -> TRUE
           [] Item(q).tool = "api_cancel" -> q.role # 1
           [] Item(q).tool \in {"api_delete", "api_input", "api_move"} -> q.role = 3
           [] OTHER -> Allowed(q.role, Item(q).tool)
    ELSE q.role = None \/ Allowed(q.role, Item(q).tool)

Rest(q) ==
    [q EXCEPT !.on = Item(q).arg,
              !.pc = CASE Item(q).tool = "api_meta" -> "rename"
                       [] Item(q).tool = "api_cancel" -> "cancel"
                       [] Item(q).tool = "api_delete" -> "abort"
                       [] Item(q).tool \in {"api_input", "api_move"} -> "input"
                       [] OTHER -> "invoke"]

Tool(q) == LET x == Item(q).arg IN
    CASE Item(q).tool \in AgentTools ->
            [q EXCEPT !.goal = "run", !.pc = IF x \in {None, ""} THEN "session" ELSE "find"]
      [] Item(q).tool \in {"select_terminal", "rename_terminal"} /\ x # None ->
            [q EXCEPT !.goal = IF Item(q).tool = "select_terminal" THEN "select" ELSE "rename", !.pc = "find"]
      [] Item(q).tool = "get_active_terminal" -> [q EXCEPT !.goal = "active", !.pc = "session"]
      [] Item(q).tool \in Cancels -> [q EXCEPT !.pc = "cancel"]
      [] OTHER -> Done(q, Item(q).tool \in Readings)

Checked(q) == IF ~Permits(q) THEN [q EXCEPT !.rec = "DENIED", !.pc = "answer"]
              ELSE IF q.door = "rest" THEN Rest(q) ELSE Tool(q)

(***************************************************************************)
(* Where a call goes that names no terminal: the selection of its session, *)
(* else the one for everybody, else the only terminal online. Each is a    *)
(* read of its own.                                                        *)
(***************************************************************************)
SessionOf(q) == IF q.goal # "audit" /\ Item(q).named # None THEN Item(q).named ELSE q.sid
Online       == {t \in Ids : session[t] = "online"}
Only         == IF Cardinality(Online) = 1 THEN CHOOSE t \in Online : TRUE ELSE None

(* A call is dispatched twice: first for its record, then to run it.       *)
Resolved(q, t) ==
    CASE q.goal = "audit"  -> Checked([q EXCEPT !.target = t])
      [] q.goal = "active" -> Done(q, TRUE)
      [] q.goal = "run"    -> IF t = None THEN Done(q, FALSE) ELSE [q EXCEPT !.on = t, !.pc = "invoke"]

ReadSession(r) == LET q == req[r]
                      t == IF SessionOf(q) = None THEN None ELSE selected[SessionOf(q)] IN
    /\ q.pc = "session"
    /\ Put(r, IF t # None THEN Resolved(q, t) ELSE [q EXCEPT !.pc = "global"])
    /\ UNCHANGED <<world, registry, selections, left, stdio, disk>>

ReadGlobal(r) == LET q == req[r] IN
    /\ q.pc = "global"
    /\ Put(r, IF active # None \/ q.goal = "active" THEN Resolved(q, active)
              ELSE [q EXCEPT !.pc = "single"])
    /\ UNCHANGED <<world, registry, selections, left, stdio, disk>>

CountOnline(r) == LET q == req[r] IN
    /\ q.pc = "single"
    /\ Put(r, Resolved(q, Only))
    /\ UNCHANGED <<world, registry, selections, left, stdio, disk>>

(***************************************************************************)
(* Where a call goes that names one: to the terminal with this id, else to *)
(* the first of the list with this custom name, else with this host name,  *)
(* whatever the case of the letters. The list looks for terminals that     *)
(* have no session only if the store has more records than there are       *)
(* sessions; a name makes a record too.                                    *)
(***************************************************************************)
Records      == known \cup {t \in Ids : name[t] # None}
Connected    == {t \in Ids : session[t] # "absent"}
Present(t)   == session[t] # "absent" \/ t \in known
Listed(t)    == t \in Connected \/ (t \in known /\ Cardinality(Connected) < Cardinality(Records))
Same(a, b)   == a # None /\ b # None /\ Fold[a] = Fold[b]
FirstOf(S)   == Terminals[CHOOSE i \in Seats : Terminals[i] \in S /\ \A j \in 1..(i-1) : Terminals[j] \notin S]
Renamed(x)   == {t \in Ids : Listed(t) /\ Same(name[t], x)}
Hosting(x)   == {t \in Ids : Listed(t) /\ Same(Host[t], x)}
Named(x)     == IF Renamed(x) # {} THEN FirstOf(Renamed(x))
                ELSE IF Hosting(x) # {} THEN FirstOf(Hosting(x)) ELSE None

(* What matches nothing is taken for an id, except by a selection.         *)
Found(q, t) ==
    IF q.goal = "select" /\ t = None THEN Done(q, FALSE)
    ELSE [q EXCEPT !.on = IF t = None THEN Item(q).arg ELSE t,
                   !.pc = IF q.goal = "run" THEN "invoke" ELSE q.goal]

FindId_Later(r) == \* names are looked at before ids
    LET q == req[r]
        x == Item(q).arg IN
    /\ q.pc = "find"
    /\ Put(r, IF x = "" THEN Found(q, None) ELSE IF Named(x) # None THEN Found(q, Named(x))
              ELSE IF x \in Ids /\ Present(x) THEN Found(q, x) ELSE [q EXCEPT !.pc = "names"])
    /\ UNCHANGED <<world, registry, selections, left, stdio, disk>>
FindId(r) == LET q == req[r]
                 x == Item(q).arg IN
    /\ q.pc = "find"
    /\ Put(r, IF x = "" THEN Found(q, None) ELSE IF x \in Ids /\ Present(x) THEN Found(q, x)
              ELSE [q EXCEPT !.pc = "names"])
    /\ UNCHANGED <<world, registry, selections, left, stdio, disk>>

FindName(r) == LET q == req[r] IN
    /\ q.pc = "names"
    /\ Put(r, Found(q, Named(Item(q).arg)))
    /\ UNCHANGED <<world, registry, selections, left, stdio, disk>>

(***************************************************************************)
(* A request: its items one after the other. An item that is no tool call  *)
(* is answered at once. The terminal of the record is the argument as it   *)
(* was sent, or comes from a first resolution, which looks at the session  *)
(* of the request only. Which seat a request gets makes no difference.     *)
(***************************************************************************)
Started(p) == LET x == Item(p).arg
                  q == [p EXCEPT !.calm = TRUE, !.on = None, !.target = x, !.ok = FALSE, !.rec = None] IN
    IF Item(q).tool = "ping" THEN [q EXCEPT !.ok = TRUE, !.pc = "answer"]
    ELSE IF q.door = "rest" \/ x # None THEN Checked(q)
    ELSE [q EXCEPT !.goal = "audit", !.pc = "session"]

IsFree(r) == req[r].pc = "idle" /\ \A p \in 1..(r-1) : req[p].pc # "idle"

Begin(r) == \E h \in left :
    /\ IsFree(r)
    /\ Put(r, Started([Idle EXCEPT !.door = h.door, !.role = h.role, !.sid = h.sid, !.items = h.items]))
    /\ left' = left \ {h}
    /\ UNCHANGED <<world, registry, selections, stdio, disk>>

(* An item without an id gets no answer; a line of such items gets none.   *)
Answer(r) == LET q == [req[r] EXCEPT !.items = Tail(@), !.replies = IF Item(req[r]).id THEN @ + 1 ELSE @] IN
    /\ req[r].pc = "answer"
    /\ Put(r, IF q.items # <<>> THEN Started(q)
              ELSE IF q.door = "stdio" /\ q.replies > 0 THEN [q EXCEPT !.pc = "send"] ELSE Idle)
    /\ UNCHANGED <<world, registry, selections, left, stdio, disk>>

(* The selection is not changed when its terminal goes.                    *)
Select(r) == LET q == req[r]
                 s == SessionOf(q) IN
    /\ req[r].pc = "select"
    /\ IF s # None THEN selected' = [selected EXCEPT ![s] = q.on] /\ UNCHANGED active
       ELSE active' = q.on /\ UNCHANGED selected
    /\ req' = Stirred([req EXCEPT ![r] = Done(q, TRUE)],
                      {p \in Requests : s = None \/ (req[p].items # <<>> /\ s \in {req[p].sid, Item(req[p]).named})})
    /\ UNCHANGED <<world, registry, left, stdio, disk>>

(* A name may be given to what no terminal ever was; REST records nothing. *)
Rename(r) == LET q == req[r] IN
    /\ q.pc = "rename"
    /\ name' = [t \in Ids |-> IF t = q.on THEN Item(q).extra ELSE name[t]]
    /\ req' = Stirred([req EXCEPT ![r] = IF q.door = "rest" THEN [q EXCEPT !.ok = TRUE, !.pc = "answer"]
                                         ELSE Done(q, TRUE)], Requests)
    /\ UNCHANGED <<world, session, known, joining, selections, left, stdio, disk>>

(***************************************************************************)
(* A call on a terminal. Only one that is online is sent anything.         *)
(***************************************************************************)
Invoke(r) == LET q == req[r] IN
    /\ q.pc = "invoke"
    /\ Put(r, IF q.on \in Online THEN [q EXCEPT !.pc = "wait"] ELSE Done(q, FALSE))
    /\ UNCHANGED <<world, registry, selections, left, stdio, disk>>

(* The record is written; then the image goes to the file that was asked   *)
(* for, over REST only that of the two tools that take one.                *)
Finish(r) == \E good \in BOOLEAN : LET q == req[r] IN
    /\ q.pc = "wait"
    /\ Put(r, [Done(q, good) EXCEPT !.pc =
                 IF good /\ Item(q).extra = "file" /\ (q.door = "rest" => Item(q).tool \in ImageTools)
                 THEN "save" ELSE "answer"])
    /\ UNCHANGED <<world, registry, selections, left, stdio, disk>>

Save(r) == \E good \in BOOLEAN :
    /\ req[r].pc = "save"
    /\ disk' = IF good THEN r ELSE disk
    /\ Put(r, [req[r] EXCEPT !.pc = "answer"])
    /\ UNCHANGED <<world, registry, selections, left, stdio>>

(* The calls of S end without a result; nobody waits for one whose client  *)
(* has gone.                                                               *)
Ended(qs, S) == [r \in Requests |-> IF r \notin S THEN qs[r]
                                    ELSE IF qs[r].pc = "gone" THEN Idle ELSE Done(qs[r], FALSE)]
Pending(t) == {r \in Requests : req[r].pc \in {"wait", "gone"} /\ req[r].on = t}

(* A cancellation that finds no call is recorded by the tool, not by REST. *)
Cancel(r) == \E c \in Requests : LET q == req[r] IN
    /\ q.pc = "cancel"
    /\ req' = IF req[c].pc \in {"wait", "gone"} THEN Ended([req EXCEPT ![r] = Done(q, TRUE)], {c})
              ELSE [req EXCEPT ![r] = IF q.door = "rest" THEN [q EXCEPT !.pc = "answer"] ELSE Done(q, FALSE)]
    /\ UNCHANGED <<world, registry, selections, left, stdio, disk>>

(* The calls of a terminal that is deleted end first, then its session     *)
(* goes, then its metadata.                                                *)
Abort(r) == LET q == req[r] IN
    /\ q.pc = "abort"
    /\ req' = Ended([req EXCEPT ![r].pc = "unregister"], Pending(q.on))
    /\ UNCHANGED <<world, registry, selections, left, stdio, disk>>
Unregister(r) == LET q == req[r] IN
    /\ q.pc = "unregister"
    /\ session' = [t \in Ids |-> IF t = q.on THEN "absent" ELSE session[t]]
    /\ req' = Stirred([req EXCEPT ![r].pc = "forget"], Requests)
    /\ UNCHANGED <<world, known, name, joining, selections, left, stdio, disk>>
Forget(r) == LET q == req[r] IN
    /\ q.pc = "forget"
    /\ known' = known \ {q.on}
    /\ name' = [t \in Ids |-> IF t = q.on THEN None ELSE name[t]]
    /\ req' = Stirred([req EXCEPT ![r] = Done(q, TRUE)], Requests)
    /\ UNCHANGED <<world, session, joining, selections, left, stdio, disk>>

(* A movement of the mouse is not recorded.                                *)
Input(r) == LET q == req[r]
                d == Done(q, q.on \in Online) IN
    /\ q.pc = "input"
    /\ Put(r, IF Item(q).tool = "api_move" THEN [d EXCEPT !.rec = None] ELSE d)
    /\ UNCHANGED <<world, registry, selections, left, stdio, disk>>

(* The client of an HTTP request goes away: its handler stops where it is. *)
Drop(r) ==
    /\ "drop" \in world.events /\ req[r].door \in {"mcp", "rest"} /\ req[r].pc # "gone"
    /\ Put(r, IF req[r].pc = "wait" THEN [req[r] EXCEPT !.pc = "gone"] ELSE Idle)
    /\ UNCHANGED <<world, registry, selections, left, stdio, disk>>
Gone(r) ==
    /\ req[r].pc = "gone"
    /\ Put(r, Idle)
    /\ UNCHANGED <<world, registry, selections, left, stdio, disk>>

(***************************************************************************)
(* Terminals come and go.                                                  *)
(***************************************************************************)
Register(t) ==
    /\ t \in world.events /\ session[t] # "online" /\ t \notin joining
    /\ known' = known \cup {t} /\ joining' = joining \cup {t}
    /\ req' = Stirred(req, Requests)
    /\ UNCHANGED <<world, session, name, selections, left, stdio, disk>>
Join(t) ==
    /\ t \in joining
    /\ session' = [session EXCEPT ![t] = "online"] /\ joining' = joining \ {t}
    /\ req' = Stirred(req, Requests)
    /\ UNCHANGED <<world, known, name, selections, left, stdio, disk>>
Vanish(t) ==
    /\ t \in world.events /\ session[t] = "online"
    /\ session' = [session EXCEPT ![t] = "offline"]
    /\ req' = Ended(Stirred(req, Requests), Pending(t))
    /\ UNCHANGED <<world, known, name, joining, selections, left, stdio, disk>>

(***************************************************************************)
(* Stdio: a task for every line, one channel, one writer. At the end of    *)
(* the input the reader gives up its end of the channel and waits for the  *)
(* writer, which ends with the last task; an error of the input ends the   *)
(* reader at once.                                                         *)
(***************************************************************************)
Lines    == world.lines
HasRoom  == Len(out) < Room
Alive    == \E r \in Requests : req[r].door = "stdio"

ReadLine == \E r \in Requests :
    /\ reader = "reading" /\ line < Len(Lines) /\ Lines[line + 1] # <<>> /\ IsFree(r)
    /\ line' = line + 1
    /\ Put(r, Started([Idle EXCEPT !.door = "stdio", !.line = line + 1, !.items = Lines[line + 1]]))
    /\ UNCHANGED <<world, registry, selections, left, reader, out, writer, written, disk>>

(* What is not JSON is answered by the reader itself, with an error.       *)
ReadBad ==
    /\ reader = "reading" /\ line < Len(Lines) /\ Lines[line + 1] = <<>> /\ (HasRoom \/ writer = "down")
    /\ line' = line + 1
    /\ out' = IF writer = "down" THEN out ELSE Append(out, line + 1)
    /\ UNCHANGED <<world, registry, selections, left, req, reader, writer, written, disk>>

EndOfInput ==
    /\ reader = "reading" /\ line = Len(Lines)
    /\ reader' = "draining"
    /\ UNCHANGED <<world, registry, selections, left, req, line, out, writer, written, disk>>
InputError ==
    /\ reader = "reading" /\ "inputerror" \in world.events
    /\ reader' = "failed"
    /\ UNCHANGED <<world, registry, selections, left, req, line, out, writer, written, disk>>

Send(r) ==
    /\ req[r].pc = "send" /\ (HasRoom \/ writer = "down")
    /\ out' = IF writer = "down" THEN out ELSE Append(out, req[r].line)
    /\ Put(r, Idle)
    /\ UNCHANGED <<world, registry, selections, left, line, reader, writer, written, disk>>

Write ==
    /\ writer = "up" /\ out # <<>>
    /\ written' = Append(written, Head(out)) /\ out' = Tail(out)
    /\ UNCHANGED <<world, registry, selections, left, req, line, reader, writer, disk>>
WriteError ==
    /\ writer = "up" /\ out # <<>> /\ "outputerror" \in world.events
    /\ writer' = "down" /\ out' = <<>>
    /\ UNCHANGED <<world, registry, selections, left, req, line, reader, written, disk>>
WriterEnds_Held == \* the reader keeps its end of the channel while it waits
    /\ writer = "up" /\ out = <<>> /\ reader \in {"returned", "failed"} /\ ~Alive
    /\ writer' = "done"
    /\ UNCHANGED <<world, registry, selections, left, req, line, reader, out, written, disk>>
WriterEnds ==
    /\ writer = "up" /\ out = <<>> /\ reader # "reading" /\ ~Alive
    /\ writer' = "done"
    /\ UNCHANGED <<world, registry, selections, left, req, line, reader, out, written, disk>>
Return ==
    /\ reader = "draining" /\ writer # "up"
    /\ reader' = "returned"
    /\ UNCHANGED <<world, registry, selections, left, req, line, out, writer, written, disk>>

(* What the server does by itself, and a call that ends in its time.       *)
Work(r) ==
    \/ ReadSession(r) \/ ReadGlobal(r) \/ CountOnline(r) \/ FindId(r) \/ FindName(r)
    \/ Select(r) \/ Rename(r) \/ Invoke(r) \/ Finish(r) \/ Save(r) \/ Cancel(r)
    \/ Abort(r) \/ Unregister(r) \/ Forget(r) \/ Input(r) \/ Answer(r) \/ Send(r)
Stdio == ReadLine \/ ReadBad \/ EndOfInput \/ Write \/ WriterEnds \/ Return

Next ==
    \/ \E r \in Requests : Work(r) \/ Begin(r) \/ Drop(r) \/ Gone(r)
    \/ \E t \in Ids : Register(t) \/ Join(t) \/ Vanish(t)
    \/ Stdio \/ InputError \/ WriteError

Fairness == WF_vars(\E r \in Requests : Work(r)) /\ WF_vars(Stdio)
Spec == Init /\ [][Next]_vars /\ Fairness

-----------------------------------------------------------------------------
Working == {r \in Requests : req[r].pc # "idle"}

(* What each variable holds.                                               *)
TypeOK ==
    /\ session \in [Ids -> {"absent", "offline", "online"}]
    /\ known \subseteq Ids /\ joining \subseteq Ids
    /\ active \in Ids \cup {None} /\ selected \in [Sessions -> Ids \cup {None}]
    /\ \A r \in Working : req[r].items # <<>> \/ req[r].pc = "send"
    /\ \A r \in Requests : req[r].rec \in {None, "DENIED", "SUCCESS", "FAILED"}
    /\ Len(out) <= Room /\ disk \in Requests \cup {None}

(* The terminal a tool call means, were it looked at in one piece.         *)
Meant(q) == LET x == Item(q).arg
                s == IF Item(q).named # None THEN Item(q).named ELSE q.sid IN
    IF x \notin {None, ""}
    THEN IF x \in Ids /\ Present(x) THEN x ELSE IF Named(x) # None THEN Named(x) ELSE x
    ELSE IF s # None /\ selected[s] # None THEN selected[s]
    ELSE IF active # None THEN active ELSE Only

(* A call of the MCP doors runs on the terminal it means: a terminal's id  *)
(* is not taken over by another's name, a session's selection is not       *)
(* touched by others, nor by the names they give. The record of a call     *)
(* that leaves both to its session names the terminal it ran on.           *)
RunsWhereMeant == \A r \in Working : LET q == req[r] IN
    q.pc = "wait" /\ q.calm /\ q.door # "rest"
        => /\ q.on = Meant(q)
           /\ Item(q).arg = None /\ Item(q).named = None => q.target = q.on

(* Whatever door a request comes through, it is not at work on a terminal, *)
(* a selection, a name or a call of somebody else unless its role may use  *)
(* the tool that does this; only an admin deletes a terminal or acts on a  *)
(* screen.                                                                 *)
ActsByRight == \A r \in Working : LET q == req[r] IN
    /\ q.pc \in {"invoke", "wait", "gone", "select", "rename"} /\ q.role # None /\ Item(q).tool # "api_meta"
           => q.role >= RequiredRole(Item(q).tool)
    /\ q.pc = "cancel" /\ q.role # None => q.role >= RequiredRole("cancel_tool")
    /\ q.pc \in {"abort", "unregister", "forget", "input"} => q.role = 3

(* A stdio server that has come to the end of its input returns with every *)
(* answer written, once.                                                   *)
StdioDrains == reader = "returned" /\ writer # "down" =>
    \A k \in 1..Len(Lines) :
        Cardinality({i \in 1..Len(written) : written[i] = k})
            = IF Lines[k] = <<>> \/ \E i \in 1..Len(Lines[k]) : Lines[k][i].id THEN 1 ELSE 0

(* It returns, whatever its writer and its terminals do.                   *)
StdioReturns == []<>(reader # "draining")

(* The list would show every terminal the metadata store keeps. It does    *)
(* not (Hidden of DispatchWorlds): while one registers, another is hidden. *)
ListComplete == \A t \in known : Listed(t)

(* A call that has run on a terminal and is over would have its audit      *)
(* record. One whose handler was dropped has none (Acting).                *)
CallRecorded == \A r \in Working : req[r].pc = "gone" => req[r].rec # None
=============================================================================
