--------------------------- MODULE AgentExecutor ---------------------------
(***************************************************************************)
(* Tool calls inside the agent: the task that serves a call, the task that *)
(* runs its tool, the child process of a shell tool, the map of running    *)
(* calls, and the three maps of the process registry, each with a lock of  *)
(* its own, which cancellations and the kill switch go through.            *)
(*                                                                         *)
(* Sources: crates/agent/src/executor.rs, tools/process_registry.rs,       *)
(* tools/command.rs and ws_client.rs (handle_server_message).              *)
(*                                                                         *)
(* A call has one child at most, known by its call. A lock that is held    *)
(* while another is waited for, as unregister_process does, is in locked;  *)
(* every other critical section is one action.                             *)
(*                                                                         *)
(* Abstracted: what a tool does; the state review after a click; the tools *)
(* without a process are one "blocking" step, which no abort can stop.     *)
(***************************************************************************)
EXTENDS Naturals, FiniteSets

CONSTANTS
    Calls,     \* call ids
    Killers,   \* tasks that pull the kill switch, once each
    Scenarios  \* what may happen: a behaviour draws one of these

(* A call may be cancelled by the server, run out of time, or run into the *)
(* kill switch; a child may start processes of its own; there may be more  *)
(* calls than one.                                                         *)
Events == {"cancel", "timeout", "kill", "fork", "concurrent"}
ASSUME ScenariosAssumption == Scenarios \subseteq SUBSET Events

Roles == {"reader", "wrapper"}  \* who may cancel a call

VARIABLES
    env,       \* the scenario of this behaviour
    outer,     \* the task of a call: handle_server_message's, then execute_with_call_id
    report,    \* what it reports to the server
    tool,      \* the task of its tool
    verdict,   \* what that task ended with
    active,    \* AgentExecutor.active_calls
    cancelled, \* CallHandle.is_cancelled
    aborted,   \* AbortHandle::abort was called
    procs,     \* ProcessRegistry.active_processes, by the call of the process
    byCall,    \* call_processes
    mapping,   \* proc_call_map
    locked,    \* the locks held across actions
    child,     \* the child process of a call
    tree,      \* TRUE while processes it has started are alive
    canceller, \* cancel(), by who called it
    killer,    \* kill_all_active(), by task
    drained    \* the processes it took

callVars  == <<outer, report, active, cancelled>>
toolVars  == <<tool, verdict>>
mapVars   == <<procs, byCall, mapping, locked>>
procVars  == <<child, tree>>
killVars  == <<killer, drained>>
vars == <<env, callVars, aborted, toolVars, mapVars, procVars, canceller, killVars>>

Outers == {"idle", "queued", "spawned", "waiting", "joined", "cancelling", "done"}
Tools  == {"none", "ready", "blocking", "register", "byCall", "mapping", "await",
           "drop", "unmap", "unmapLost", "uncall", "dropChild", "gone"}
Cancels == {"idle", "take", "mark", "pids", "procs", "mapping", "kill", "done"}
Kills   == {"idle", "calls", "mapping", "kill", "done"}

Init ==
    /\ env \in Scenarios
    /\ outer = [k \in Calls |-> "idle"]
    /\ report = [k \in Calls |-> "none"]
    /\ tool = [k \in Calls |-> "none"]
    /\ verdict = [k \in Calls |-> "none"]
    /\ active = {} /\ cancelled = {} /\ aborted = {}
    /\ procs = {} /\ byCall = {} /\ mapping = {} /\ locked = {}
    /\ child = [k \in Calls |-> "none"]
    /\ tree = [k \in Calls |-> FALSE]
    /\ canceller = [r \in Roles |-> [k \in Calls |-> "idle"]]
    /\ killer = [u \in Killers |-> "idle"]
    /\ drained = [u \in Killers |-> {}]

Goto(k, l)      == outer' = [outer EXCEPT ![k] = l]
ToolGoto(k, l)  == tool' = [tool EXCEPT ![k] = l]
Step(r, k, a, b) ==
    /\ canceller[r][k] = a
    /\ canceller' = [canceller EXCEPT ![r][k] = b]

(* kill_process_tree                                                       *)
KillTrees(S) ==
    /\ child' = [k \in Calls |-> IF k \in S THEN "dead" ELSE child[k]]
    /\ tree' = [k \in Calls |-> k \notin S /\ tree[k]]

-----------------------------------------------------------------------------
(* The reader takes one message after the other.                           *)

Reading == \A k \in Calls : canceller["reader"][k] \in {"idle", "done"}

Invoke(k) ==
    /\ outer[k] = "idle" /\ Reading
    /\ "concurrent" \in env \/ \A j \in Calls : outer[j] = "idle"
    /\ Goto(k, "queued")
    /\ UNCHANGED <<env, report, active, cancelled, aborted, toolVars, mapVars, procVars,
                   canceller, killVars>>

CancelTool(k) ==
    /\ "cancel" \in env
    /\ outer[k] # "idle" /\ Reading
    /\ Step("reader", k, "idle", "take")
    /\ UNCHANGED <<env, callVars, aborted, toolVars, mapVars, procVars, killVars>>

-----------------------------------------------------------------------------
(* The task of a call.                                                     *)

SpawnTool(k) ==
    /\ outer[k] = "queued"
    /\ Goto(k, "spawned")
    /\ ToolGoto(k, "ready")
    /\ UNCHANGED <<env, report, active, cancelled, aborted, verdict, mapVars, procVars,
                   canceller, killVars>>

(* The tool may be running by now.                                         *)
InsertHandle(k) ==
    /\ outer[k] = "spawned"
    /\ Goto(k, "waiting")
    /\ active' = active \cup {k}
    /\ UNCHANGED <<env, report, cancelled, aborted, toolVars, mapVars, procVars, canceller,
                   killVars>>

Join(k) ==
    /\ outer[k] = "waiting" /\ tool[k] = "gone"
    /\ Goto(k, "joined")
    /\ active' = active \ {k}
    /\ UNCHANGED <<env, report, cancelled, aborted, toolVars, mapVars, procVars, canceller,
                   killVars>>

Report(k) ==
    /\ outer[k] = "joined"
    /\ Goto(k, "done")
    /\ report' = [report EXCEPT ![k] = IF k \in cancelled \/ verdict[k] # "ok"
                                       THEN "failed" ELSE "ok"]
    /\ UNCHANGED <<env, active, cancelled, aborted, toolVars, mapVars, procVars, canceller,
                   killVars>>

TimeOut_Forgets(k) == \* reports the timeout and leaves the tool to itself
    /\ "timeout" \in env
    /\ outer[k] = "waiting"
    /\ Goto(k, "done")
    /\ report' = [report EXCEPT ![k] = "failed"]
    /\ UNCHANGED <<env, active, cancelled, aborted, toolVars, mapVars, procVars, canceller,
                   killVars>>

(* The call's own timer: the handle of the tool's task is dropped, which   *)
(* leaves the task running, and the task of the call cancels the call.     *)
TimeOut(k) ==
    /\ "timeout" \in env
    /\ outer[k] = "waiting"
    /\ Goto(k, "cancelling")
    /\ Step("wrapper", k, "idle", "take")
    /\ UNCHANGED <<env, report, active, cancelled, aborted, toolVars, mapVars, procVars,
                   killVars>>

TimedOut(k) ==
    /\ outer[k] = "cancelling" /\ canceller["wrapper"][k] = "done"
    /\ Goto(k, "done")
    /\ report' = [report EXCEPT ![k] = "failed"]
    /\ UNCHANGED <<env, active, cancelled, aborted, toolVars, mapVars, procVars, canceller,
                   killVars>>

Serve(k) == SpawnTool(k) \/ InsertHandle(k) \/ Join(k) \/ Report(k) \/ TimeOut(k) \/ TimedOut(k)

-----------------------------------------------------------------------------
(* cancel(): the handle, then kill_call_processes.                         *)

TakeHandle(r, k) ==
    /\ Step(r, k, "take", IF k \in active THEN "mark" ELSE "pids")
    /\ active' = active \ {k}
    /\ UNCHANGED <<env, outer, report, cancelled, aborted, toolVars, mapVars, procVars,
                   killVars>>

Abort(r, k) ==
    /\ Step(r, k, "mark", "pids")
    /\ cancelled' = cancelled \cup {k}
    /\ aborted' = aborted \cup {k}
    /\ UNCHANGED <<env, outer, report, active, toolVars, mapVars, procVars, killVars>>

TakePids(r, k) ==
    /\ "calls" \notin locked
    /\ Step(r, k, "pids", IF k \in byCall THEN "procs" ELSE "done")
    /\ byCall' = byCall \ {k}
    /\ UNCHANGED <<env, callVars, aborted, toolVars, procs, mapping, locked, procVars, killVars>>

RetainProcs(r, k) ==
    /\ "procs" \notin locked
    /\ Step(r, k, "procs", "mapping")
    /\ procs' = procs \ {k}
    /\ UNCHANGED <<env, callVars, aborted, toolVars, byCall, mapping, locked, procVars, killVars>>

RetainMapping(r, k) ==
    /\ "mapping" \notin locked
    /\ Step(r, k, "mapping", "kill")
    /\ mapping' = mapping \ {k}
    /\ UNCHANGED <<env, callVars, aborted, toolVars, procs, byCall, locked, procVars, killVars>>

KillChild(r, k) ==
    /\ Step(r, k, "kill", "done")
    /\ KillTrees({k})
    /\ UNCHANGED <<env, callVars, aborted, toolVars, mapVars, killVars>>

KillCall(r, k) == TakePids(r, k) \/ RetainProcs(r, k) \/ RetainMapping(r, k) \/ KillChild(r, k)
CancelCall(r, k) == TakeHandle(r, k) \/ Abort(r, k) \/ KillCall(r, k)

-----------------------------------------------------------------------------
(* The task of a tool. A task that was aborted ends when it is next        *)
(* scheduled, or at the next await.                                        *)

Poll(k) ==
    /\ tool[k] = "ready"
    /\ \/ /\ k \in aborted
          /\ ToolGoto(k, "gone")
          /\ verdict' = [verdict EXCEPT ![k] = "aborted"]
          /\ UNCHANGED child
       \/ /\ k \notin aborted
          /\ \/ ToolGoto(k, "blocking") /\ UNCHANGED <<verdict, child>>
             \/ /\ ToolGoto(k, "register")
                /\ child' = [child EXCEPT ![k] = "alive"]
                /\ UNCHANGED verdict
             \/ /\ ToolGoto(k, "gone")
                /\ verdict' = [verdict EXCEPT ![k] = "failed"]
                /\ UNCHANGED child
    /\ UNCHANGED <<env, callVars, aborted, mapVars, tree, canceller, killVars>>

BlockingEnds(k) ==
    /\ tool[k] = "blocking"
    /\ ToolGoto(k, "gone")
    /\ \E v \in {"ok", "failed"} : verdict' = [verdict EXCEPT ![k] = v]
    /\ UNCHANGED <<env, callVars, aborted, mapVars, procVars, canceller, killVars>>

Register_CallOnly(k) == \* a process that has a call goes into the call's list alone
    /\ tool[k] = "register"
    /\ ToolGoto(k, "byCall")
    /\ UNCHANGED <<env, callVars, aborted, verdict, mapVars, procVars, canceller, killVars>>

Register(k) ==
    /\ tool[k] = "register" /\ "procs" \notin locked
    /\ ToolGoto(k, "byCall")
    /\ procs' = procs \cup {k}
    /\ UNCHANGED <<env, callVars, aborted, verdict, byCall, mapping, locked, procVars, canceller,
                   killVars>>

RegisterCall(k) ==
    /\ tool[k] = "byCall" /\ "calls" \notin locked
    /\ ToolGoto(k, "mapping")
    /\ byCall' = byCall \cup {k}
    /\ UNCHANGED <<env, callVars, aborted, verdict, procs, mapping, locked, procVars, canceller,
                   killVars>>

RegisterMapping(k) ==
    /\ tool[k] = "mapping" /\ "mapping" \notin locked
    /\ ToolGoto(k, "await")
    /\ mapping' = mapping \cup {k}
    /\ UNCHANGED <<env, callVars, aborted, verdict, procs, byCall, locked, procVars, canceller,
                   killVars>>

(* run_command_async: the child ends, the command's own timer fires (a     *)
(* wait that fails ends alike), or the task is aborted and its locals are  *)
(* dropped, the guard first.                                               *)
WaitEnds(k, v) ==
    /\ tool[k] = "await"
    /\ ToolGoto(k, "drop")
    /\ verdict' = [verdict EXCEPT ![k] = v]
    /\ UNCHANGED <<env, callVars, aborted, mapVars, canceller, killVars>>

ChildEnded(k)    == WaitEnds(k, "ok") /\ child[k] = "dead" /\ UNCHANGED procVars
CommandTimer(k)  == "timeout" \in env /\ WaitEnds(k, "failed") /\ KillTrees({k})
AbortedHere(k)   == k \in aborted /\ WaitEnds(k, "aborted") /\ UNCHANGED procVars

(* unregister_process holds the lock of active_processes to its end, and   *)
(* that of proc_call_map while it takes the third.                         *)
Unregister(k) ==
    /\ tool[k] = "drop" /\ "procs" \notin locked
    /\ ToolGoto(k, IF k \in procs THEN "unmap" ELSE "unmapLost")
    /\ procs' = procs \ {k}
    /\ locked' = locked \cup {"procs"}
    /\ UNCHANGED <<env, callVars, aborted, verdict, byCall, mapping, procVars, canceller,
                   killVars>>

Unmap(k) ==
    /\ tool[k] \in {"unmap", "unmapLost"} /\ "mapping" \notin locked
    /\ mapping' = mapping \ {k}
    /\ IF tool[k] = "unmap" /\ k \in mapping
       THEN ToolGoto(k, "uncall") /\ locked' = locked \cup {"mapping"}
       ELSE ToolGoto(k, "dropChild") /\ locked' = locked \ {"procs"}
    /\ UNCHANGED <<env, callVars, aborted, verdict, procs, byCall, procVars, canceller, killVars>>

Uncall_Skipped(k) == \* leaves the call's list of processes as it is
    /\ tool[k] = "uncall" /\ "calls" \notin locked
    /\ ToolGoto(k, "dropChild")
    /\ locked' = locked \ {"procs", "mapping"}
    /\ UNCHANGED <<env, callVars, aborted, verdict, procs, byCall, mapping, procVars, canceller,
                   killVars>>

Uncall(k) ==
    /\ tool[k] = "uncall" /\ "calls" \notin locked
    /\ ToolGoto(k, "dropChild")
    /\ byCall' = byCall \ {k}
    /\ locked' = locked \ {"procs", "mapping"}
    /\ UNCHANGED <<env, callVars, aborted, verdict, procs, mapping, procVars, canceller, killVars>>

(* kill_on_drop kills the child, and the child alone.                      *)
DropChild(k) ==
    /\ tool[k] = "dropChild"
    /\ ToolGoto(k, "gone")
    /\ child' = [child EXCEPT ![k] = "dead"]
    /\ UNCHANGED <<env, callVars, aborted, verdict, mapVars, tree, canceller, killVars>>

RunTool(k) ==
    \/ Poll(k) \/ BlockingEnds(k) \/ Register(k) \/ RegisterCall(k) \/ RegisterMapping(k)
    \/ ChildEnded(k) \/ CommandTimer(k) \/ AbortedHere(k)
    \/ Unregister(k) \/ Unmap(k) \/ Uncall(k) \/ DropChild(k)

-----------------------------------------------------------------------------
(* The child process.                                                      *)

Fork(k) ==
    /\ "fork" \in env
    /\ child[k] = "alive" /\ ~tree[k]
    /\ tree' = [tree EXCEPT ![k] = TRUE]
    /\ UNCHANGED <<env, callVars, aborted, toolVars, mapVars, child, canceller, killVars>>

Exit(k) ==
    /\ child[k] = "alive"
    /\ child' = [child EXCEPT ![k] = "dead"]
    /\ UNCHANGED <<env, callVars, aborted, toolVars, mapVars, tree, canceller, killVars>>

-----------------------------------------------------------------------------
(* kill_all_active(), from the emergency stop and from disconnect().       *)

KillStep(u, a, b) ==
    /\ killer[u] = a
    /\ killer' = [killer EXCEPT ![u] = b]

Drain(u) ==
    /\ "kill" \in env /\ "procs" \notin locked
    /\ KillStep(u, "idle", "calls")
    /\ drained' = [drained EXCEPT ![u] = procs]
    /\ procs' = {}
    /\ UNCHANGED <<env, callVars, aborted, toolVars, byCall, mapping, locked, procVars, canceller>>

ClearCalls(u) ==
    /\ "calls" \notin locked
    /\ KillStep(u, "calls", "mapping")
    /\ byCall' = {}
    /\ UNCHANGED <<env, callVars, aborted, toolVars, procs, mapping, locked, procVars, canceller,
                   drained>>

ClearMapping(u) ==
    /\ "mapping" \notin locked
    /\ KillStep(u, "mapping", "kill")
    /\ mapping' = {}
    /\ UNCHANGED <<env, callVars, aborted, toolVars, procs, byCall, locked, procVars, canceller,
                   drained>>

KillDrained(u) ==
    /\ KillStep(u, "kill", "done")
    /\ KillTrees(drained[u])
    /\ UNCHANGED <<env, callVars, aborted, toolVars, mapVars, canceller, drained>>

KillAll(u) == ClearCalls(u) \/ ClearMapping(u) \/ KillDrained(u)

-----------------------------------------------------------------------------
Next ==
    \/ \E k \in Calls : Invoke(k) \/ CancelTool(k) \/ Serve(k) \/ RunTool(k) \/ Fork(k) \/ Exit(k)
    \/ \E r \in Roles, k \in Calls : CancelCall(r, k)
    \/ \E u \in Killers : Drain(u) \/ KillAll(u)

(* Tasks are scheduled. A child need not end, nor a tool without one; the  *)
(* timers fire where the scenario has them.                                *)
Spec ==
    /\ Init /\ [][Next]_vars
    /\ \A k \in Calls : WF_vars(Serve(k)) /\ WF_vars(RunTool(k) /\ tool[k] # "blocking")
    /\ \A r \in Roles, k \in Calls : WF_vars(CancelCall(r, k))
    /\ \A u \in Killers : WF_vars(KillAll(u))

-----------------------------------------------------------------------------
(* The type of every variable; and what is counted as an active call is a  *)
(* call that is waited for, or is being cancelled.                         *)
TypeOK ==
    /\ env \in Scenarios
    /\ outer \in [Calls -> Outers]
    /\ report \in [Calls -> {"none", "ok", "failed"}]
    /\ tool \in [Calls -> Tools]
    /\ verdict \in [Calls -> {"none", "ok", "failed", "aborted"}]
    /\ active \subseteq {k \in Calls : outer[k] \in {"waiting", "cancelling"}}
    /\ cancelled \subseteq Calls /\ aborted \subseteq Calls
    /\ procs \subseteq Calls /\ byCall \subseteq Calls /\ mapping \subseteq Calls
    /\ locked \subseteq {"procs", "mapping", "calls"}
    /\ child \in [Calls -> {"none", "alive", "dead"}]
    /\ tree \in [Calls -> BOOLEAN]
    /\ canceller \in [Roles -> [Calls -> Cancels]]
    /\ killer \in [Killers -> Kills]
    /\ drained \in [Killers -> SUBSET Calls]

(* No child escapes the kill switch: one that is alive is among the active *)
(* processes, or about to be, or somebody who took it from there has yet   *)
(* to kill it. What a kill switch took it has killed when it returns, with *)
(* everything it had started.                                              *)
Unregistering == {"drop", "unmap", "unmapLost", "uncall", "dropChild"}
Doomed(k) ==
    \/ \E r \in Roles : canceller[r][k] \in {"mapping", "kill"}
    \/ \E u \in Killers : k \in drained[u] /\ killer[u] \in {"calls", "mapping", "kill"}
NoneEscapes ==
    /\ \A k \in Calls : child[k] = "alive" =>
          k \in procs \/ tool[k] \in {"register"} \cup Unregistering \/ Doomed(k)
    /\ \A u \in Killers : killer[u] = "done" =>
          \A k \in drained[u] : child[k] = "dead" /\ ~tree[k]

(* A tool that is over has left nothing in the maps, however it was        *)
(* cancelled or timed out, as long as nobody pulls the kill switch.        *)
NothingLeft ==
    "kill" \notin env => \A k \in Calls : tool[k] = "gone" => k \notin procs \cup byCall \cup mapping

(* Cancellations and the kill switch come back, from whatever moment on    *)
(* they were begun: no two of them, or of the tools that end, wait for     *)
(* each other's locks.                                                     *)
OperationsReturn ==
    <>[](/\ \A r \in Roles, k \in Calls : canceller[r][k] \in {"idle", "done"}
         /\ \A u \in Killers : killer[u] \in {"idle", "done"})

(* A call that may run out of time is over in the end, whatever its tool   *)
(* does: it is reported, no longer counted, and has no child.              *)
CallEnds ==
    "timeout" \in env =>
        <>[](\A k \in Calls : outer[k] # "idle" =>
                report[k] # "none" /\ k \notin active /\ child[k] # "alive")

(* Both: whatever is begun, a cancellation, a kill or a call, comes to its *)
(* end.                                                                    *)
NothingWaits == OperationsReturn /\ CallEnds
=============================================================================
