----------------------------- MODULE ToolCalls -----------------------------
(***************************************************************************)
(* What the gateway promises about tool calls, without connections,        *)
(* sessions or messages. A call is asked for once and returns at most      *)
(* once. Its tool is started at most once, only for a call that was asked  *)
(* for, and possibly after the call has returned. What a tool ended with   *)
(* is what its call may return; every other outcome is an error of the     *)
(* gateway's own, and says nothing of the tool.                            *)
(***************************************************************************)
CONSTANTS Calls, ToolOutcomes, GatewayErrors

VARIABLES
    call,    \* "idle", "open", "returned" or "abandoned" (nobody waits for it)
    tool,    \* "none", "running" or what the tool ended with
    answer   \* what the call returned

vars == <<call, tool, answer>>

Init ==
    /\ call = [k \in Calls |-> "idle"]
    /\ tool = [k \in Calls |-> "none"]
    /\ answer = [k \in Calls |-> "none"]

Ask(k) ==
    /\ call[k] = "idle"
    /\ call' = [call EXCEPT ![k] = "open"]
    /\ UNCHANGED <<tool, answer>>

Start(k) ==
    /\ call[k] # "idle" /\ tool[k] = "none"
    /\ tool' = [tool EXCEPT ![k] = "running"]
    /\ UNCHANGED <<call, answer>>

End(k, o) ==
    /\ tool[k] = "running"
    /\ tool' = [tool EXCEPT ![k] = o]
    /\ UNCHANGED <<call, answer>>

(* A call may be refused before it is under way.                           *)
Return(k, o) ==
    /\ call[k] \in {"idle", "open"}
    /\ o \in GatewayErrors \/ tool[k] = o
    /\ call' = [call EXCEPT ![k] = "returned"]
    /\ answer' = [answer EXCEPT ![k] = o]
    /\ UNCHANGED tool

Abandon(k) ==
    /\ call[k] = "open"
    /\ call' = [call EXCEPT ![k] = "abandoned"]
    /\ UNCHANGED <<tool, answer>>

Next == \E k \in Calls :
    \/ Ask(k) \/ Start(k) \/ Abandon(k)
    \/ \E o \in ToolOutcomes : End(k, o)
    \/ \E o \in ToolOutcomes \cup GatewayErrors : Return(k, o)

Spec == Init /\ [][Next]_vars
=============================================================================
