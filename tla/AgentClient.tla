---------------------------- MODULE AgentClient ----------------------------
(***************************************************************************)
(* The controlled terminal's connection: the reconnect loop, and the tasks *)
(* the user's clicks spawn, which stop it, retarget it or start it again   *)
(* through an atomic flag, a URL cell, a try-lock and a Notify.            *)
(*                                                                         *)
(* Source: crates/agent/src/ws_client.rs (AgentWsClient) and               *)
(* crates/agent/src/app/mod.rs (AgentAppState).                            *)
(*                                                                         *)
(* Every call of run() is a task; the first one is started with the agent, *)
(* the n-th click spawns task n. The tasks run on several threads, in any  *)
(* order. notify_waiters wakes the tasks that are waiting at that moment   *)
(* and leaves nothing behind for those that will wait later.               *)
(*                                                                         *)
(* Abstracted: the steps of a handshake, which ends in a session or not;   *)
(* what the messages of a session carry (see Gateway for the calls).       *)
(***************************************************************************)
EXTENDS Naturals

CONSTANTS
    Urls,       \* addresses the user can enter; all parse
    BadUrls,    \* configured addresses that do not
    Scenarios,  \* what may happen: a behaviour draws one of these
    MaxClicks   \* bound on the user's clicks

Events == {"disconnect", "reconnect", "update", "drop"}

ASSUME ScenariosAssumption == Scenarios \subseteq SUBSET Events
ASSUME ClicksAssumption == MaxClicks \in Nat
ASSUME UrlsAssumption == Urls \cap BadUrls = {}

Tasks == 0..MaxClicks
Nobody == MaxClicks + 1

Looping == {"top", "connecting", "handshake", "session", "ended", "backoff", "leaving"}
Jobs    == {"disconnect", "hangUp", "hungUp", "update", "reset", "abort", "enter"}

VARIABLES
    env,       \* the scenario of this behaviour
    clicks,    \* how many clicks there have been
    stopped,   \* AgentAppState.is_stopped: the user's last wish
    status,    \* AgentAppState.status: what the user is shown
    running,   \* is_running
    target,    \* server_url
    lock,      \* loop_lock: the task that holds it
    outbound,  \* outbound_tx is Some
    beating,   \* the session's heartbeat task is alive
    pc,        \* where each task is
    url        \* the address it read, or is to set

sessionVars == <<outbound, beating>>
vars == <<env, clicks, stopped, status, running, target, lock, pc, url, sessionVars>>

Init ==
    /\ env \in Scenarios
    /\ clicks = 0
    /\ stopped = FALSE /\ status = "Disconnected"
    /\ running = TRUE
    /\ target \in Urls \cup BadUrls
    /\ lock = Nobody
    /\ outbound = FALSE /\ beating = FALSE
    /\ pc = [t \in Tasks |-> IF t = 0 THEN "enter" ELSE "free"]
    /\ url = [t \in Tasks |-> target]

Session(t) == pc[t] = "session"
Goto(t, l) == pc' = [pc EXCEPT ![t] = l]

(* notify_waiters: a dial in progress is given up, a pause cut short.      *)
Woken == [t \in Tasks |-> CASE pc[t] = "connecting" -> "ended"
                            [] pc[t] = "backoff"    -> "top"
                            [] OTHER                -> pc[t]]

-----------------------------------------------------------------------------
(* The user. What a click does at once is one step; the rest is a task.    *)

Click(e, job) ==
    /\ e \in env /\ clicks < MaxClicks
    /\ clicks' = clicks + 1
    /\ pc' = [(IF job = "enter" THEN Woken ELSE pc) EXCEPT ![clicks + 1] = job]
    /\ UNCHANGED <<env, target, lock, outbound, beating>>

ClickDisconnect ==
    /\ Click("disconnect", "disconnect")
    /\ ~stopped
    /\ stopped' = TRUE /\ status' = "Disconnected"
    /\ UNCHANGED <<running, url>>

(* The tray offers it whenever the agent is not shown as connected.        *)
ClickReconnect ==
    /\ Click("reconnect", "enter")
    /\ stopped \/ status # "Connected"
    /\ stopped' = FALSE /\ status' = "Connecting"
    /\ running' = TRUE
    /\ UNCHANGED url

(* An address is checked before anything is changed.                       *)
ClickUpdate(u) ==
    /\ Click("update", "update")
    /\ stopped' = FALSE /\ status' = "Connecting"
    /\ url' = [url EXCEPT ![clicks + 1] = u]
    /\ UNCHANGED running

User == ClickDisconnect \/ ClickReconnect \/ \E u \in Urls : ClickUpdate(u)

-----------------------------------------------------------------------------
(* The task of a disconnect: disconnect().                                 *)

StopRunning(t) ==
    /\ pc[t] = "disconnect"
    /\ running' = FALSE
    /\ Goto(t, "hangUp")
    /\ UNCHANGED <<env, clicks, stopped, status, target, lock, url, sessionVars>>

(* The Disconnect message goes out, if there is a channel; processes and   *)
(* desktop stream are stopped; the channel is dropped, not the session.    *)
HangUp(t) ==
    /\ pc[t] = "hangUp"
    /\ outbound' = FALSE
    /\ Goto(t, "hungUp")
    /\ UNCHANGED <<env, clicks, stopped, status, running, target, lock, url, beating>>

HungUp(t) ==
    /\ pc[t] = "hungUp"
    /\ status' = "Disconnected"
    /\ Goto(t, "free")
    /\ UNCHANGED <<env, clicks, stopped, running, target, lock, url, sessionVars>>

(* The task of an update: set_server_url, reset_running, then              *)
(* abort_active_session, which sends a Disconnect and notifies; then run.  *)
SetUrl(t) ==
    /\ pc[t] = "update"
    /\ target' = url[t]
    /\ pc' = [Woken EXCEPT ![t] = "reset"]
    /\ UNCHANGED <<env, clicks, stopped, status, running, lock, url, sessionVars>>

Reset(t) ==
    /\ pc[t] = "reset"
    /\ running' = TRUE
    /\ Goto(t, "abort")
    /\ UNCHANGED <<env, clicks, stopped, status, target, lock, url, sessionVars>>

Abort(t) ==
    /\ pc[t] = "abort"
    /\ pc' = [Woken EXCEPT ![t] = "enter"]
    /\ UNCHANGED <<env, clicks, stopped, status, running, target, lock, url, sessionVars>>

Job(t) == StopRunning(t) \/ HangUp(t) \/ HungUp(t) \/ SetUrl(t) \/ Reset(t) \/ Abort(t)

-----------------------------------------------------------------------------
(* The loop: run().                                                        *)

Enter_Unlocked(t) == \* no lock
    /\ pc[t] = "enter"
    /\ lock' = t /\ Goto(t, "top")
    /\ UNCHANGED <<env, clicks, stopped, status, running, target, url, sessionVars>>

Enter(t) ==
    /\ pc[t] = "enter"
    /\ IF lock = Nobody THEN lock' = t /\ Goto(t, "top")
                        ELSE Goto(t, "free") /\ UNCHANGED lock
    /\ UNCHANGED <<env, clicks, stopped, status, running, target, url, sessionVars>>

Top(t) ==
    /\ pc[t] = "top"
    /\ \/ /\ ~running
          /\ Goto(t, "leaving")
          /\ UNCHANGED <<url, status>>
       \/ /\ running
          /\ url' = [url EXCEPT ![t] = target]
          /\ IF target \in BadUrls
             THEN Goto(t, "backoff") /\ UNCHANGED status
             ELSE Goto(t, "connecting") /\ status' = "Connecting"
    /\ UNCHANGED <<env, clicks, stopped, running, target, lock, sessionVars>>

Connect(t) ==
    /\ pc[t] = "connecting"
    /\ Goto(t, "handshake") \/ Goto(t, "ended")
    /\ UNCHANGED <<env, clicks, stopped, status, running, target, lock, url, sessionVars>>

HandshakeFails(t) ==
    /\ pc[t] = "handshake"
    /\ Goto(t, "ended")
    /\ UNCHANGED <<env, clicks, stopped, status, running, target, lock, url, sessionVars>>

Close(t) ==
    /\ Goto(t, "ended")
    /\ outbound' = FALSE /\ beating' = FALSE

(* Registered. The read loop is not entered when the agent was stopped in  *)
(* the meantime.                                                           *)
Register(t) ==
    /\ pc[t] = "handshake"
    /\ status' = "Connected"
    /\ IF running
       THEN Goto(t, "session") /\ outbound' = TRUE /\ beating' = TRUE
       ELSE Close(t)
    /\ UNCHANGED <<env, clicks, stopped, running, target, lock, url>>

(* The heartbeat task sees, at its next tick, that the agent was stopped.  *)
Beat(t) ==
    /\ Session(t) /\ beating /\ ~running
    /\ beating' = FALSE
    /\ UNCHANGED <<env, clicks, stopped, status, running, target, lock, pc, url, outbound>>

(* The reader is woken by a message and looks whether to go on. With no    *)
(* heartbeat to answer, the server may fall silent: the read times out.    *)
Read(t) ==
    /\ Session(t) /\ ~running
    /\ Close(t)
    /\ UNCHANGED <<env, clicks, stopped, status, running, target, lock, url>>

TimeOut(t) ==
    /\ Session(t) /\ ~beating
    /\ Close(t)
    /\ UNCHANGED <<env, clicks, stopped, status, running, target, lock, url>>

(* The server closes the connection, or the network does.                  *)
Drop(t) ==
    /\ "drop" \in env
    /\ Session(t)
    /\ Close(t)
    /\ UNCHANGED <<env, clicks, stopped, status, running, target, lock, url>>

Ended(t) ==
    /\ pc[t] = "ended"
    /\ IF running THEN Goto(t, "backoff") /\ status' = "Reconnecting"
                  ELSE Goto(t, "leaving") /\ UNCHANGED status
    /\ UNCHANGED <<env, clicks, stopped, running, target, lock, url, sessionVars>>

Pause(t) ==
    /\ pc[t] = "backoff"
    /\ Goto(t, "top")
    /\ UNCHANGED <<env, clicks, stopped, status, running, target, lock, url, sessionVars>>

Leave_Silent(t) == \* without the final set_status
    /\ pc[t] = "leaving"
    /\ lock' = Nobody
    /\ Goto(t, "free")
    /\ UNCHANGED <<env, clicks, stopped, status, running, target, url, sessionVars>>

Leave(t) ==
    /\ pc[t] = "leaving"
    /\ status' = "Disconnected"
    /\ lock' = Nobody
    /\ Goto(t, "free")
    /\ UNCHANGED <<env, clicks, stopped, running, target, url, sessionVars>>

Loop(t) ==
    \/ Enter(t) \/ Top(t) \/ Connect(t) \/ HandshakeFails(t) \/ Register(t) \/ Beat(t)
    \/ Read(t) \/ TimeOut(t) \/ Ended(t) \/ Pause(t) \/ Leave(t)

-----------------------------------------------------------------------------
Next == User \/ \E t \in Tasks : Job(t) \/ Loop(t) \/ Drop(t)

(* Tasks are scheduled, timers fire, and a dial ends one way or the other. *)
(* Neither the user nor the network has to do anything.                    *)
Spec == Init /\ [][Next]_vars /\ \A t \in Tasks : WF_vars(Job(t)) /\ WF_vars(Loop(t))

-----------------------------------------------------------------------------
(* The type of every variable.                                             *)
TypeOK ==
    /\ env \in Scenarios
    /\ clicks \in Tasks
    /\ {stopped, running, outbound, beating} \subseteq BOOLEAN
    /\ status \in {"Disconnected", "Connecting", "Connected", "Reconnecting"}
    /\ target \in Urls \cup BadUrls
    /\ lock \in Tasks \cup {Nobody}
    /\ pc \in [Tasks -> Looping \cup Jobs \cup {"free"}]
    /\ url \in [Tasks -> Urls \cup BadUrls]
    /\ \A t \in Tasks : pc[t] = "update" => url[t] \in Urls

InLoop == {t \in Tasks : pc[t] \in Looping}

(* However often run() is called, one task runs the loop: there are never  *)
(* two sessions of one agent.                                              *)
OneLoop == \A s, t \in InLoop : s = t

(* The channel by which the rest of the agent sends, and the heartbeat     *)
(* task, belong to a session that is up: what is sent while there is none  *)
(* is refused and not put into a channel nobody reads.                     *)
ChannelLive == outbound \/ beating => \E t \in Tasks : Session(t)

AtRest == InLoop = {} /\ status = "Disconnected"

(* Once the user's last click was a disconnect, the agent comes to rest:   *)
(* no loop, no session, and shown as disconnected, whatever earlier        *)
(* reconnects have left running.                                           *)
StopsForGood == "update" \notin env => (<>[]stopped => <>[]AtRest)

-----------------------------------------------------------------------------
(* What comments and documents of the repository say, and the code does    *)
(* not.                                                                    *)

(* README: after a stop, the user alone reconnects the agent. The task of  *)
(* an address change that began before the disconnect sets is_running      *)
(* after it, and the agent connects.                                       *)
StaysDisconnected == <>[]stopped => <>[]AtRest
=============================================================================
