------------------------------ MODULE Gateway ------------------------------
(***************************************************************************)
(* The gateway's core: the registry of terminal sessions, the WebSocket    *)
(* connections the agents open, and the router's in-flight tool calls.     *)
(*                                                                         *)
(* Sources: crates/server/src/ws/registry.rs, ws/handler.rs, router.rs     *)
(* and, for the peer, crates/agent/src/ws_client.rs.                       *)
(*                                                                         *)
(* Every await, and every lock the code releases between two steps, is a   *)
(* boundary between two actions: the registry may change between the       *)
(* router's check of a terminal and its send, between the clone of a       *)
(* sender and the push into it, and between the end of a connection and    *)
(* each step of its cleanup.                                               *)
(*                                                                         *)
(* Abstracted: metrics, names, arguments and results; acknowledgements of  *)
(* registrations and heartbeats (the agent's view of them is the phase of  *)
(* the connection); the status Busy, which nothing in the program sets;    *)
(* clocks, which become "a heartbeat has lapsed" and "a timer has fired".  *)
(***************************************************************************)
EXTENDS Naturals, Sequences

CONSTANTS
    Terminals,   \* terminal ids, one agent process each
    Conns,       \* WebSocket connections; each is opened at most once
    Calls,       \* call ids; generate_call_id never repeats one
    NoTerminal,  \* "no terminal"
    NoConn,      \* "no connection"
    Scenarios    \* what the outside world may do: a behaviour draws one of these

ASSUME NoTerminalAssumption == NoTerminal \notin Terminals
ASSUME NoConnAssumption == NoConn \notin Conns

(* What the outside world does: calls are asked for, cancelled, or dropped *)
(* by their HTTP handler; agents send heartbeats and Disconnect messages,  *)
(* heartbeats lapse, a terminal connects more than once, or is removed.    *)
(* Each behaviour draws one of Scenarios, so that TLC can explore several  *)
(* small worlds; the theorems hold for every choice of them.               *)
Events == {"call", "cancel", "abandon", "heartbeat", "disconnect", "lapse",
           "reconnect", "remove"}
ASSUME ScenariosAssumption == Scenarios \subseteq SUBSET Events

VARIABLES
    env,         \* the scenario of this behaviour
    sessions,    \* TerminalRegistry.sessions: terminal -> its current session
    sessionSeq,  \* SESSION_SEQ: the next session id
    phase,       \* how far the task serving a connection has got
    peer,        \* the terminal a connection registered for
    sid,         \* the session id its task keeps for the cleanup
    rxOpen,      \* TRUE while the receiver of its outbound channel exists
    up,          \* agent -> server messages in flight, in order
    down,        \* server -> agent messages: channel, forwarder and wire
    link,        \* the connection each agent currently uses
    jobs,        \* the connection on which a running tool will reply
    started,     \* history: how often a call has been started on an agent
    succeeded,   \* history: the calls whose tool ended well on an agent
    pending,     \* McpRouter.pending_calls: call -> its terminal
    slot,        \* the oneshot channel of a call
    caller,      \* program counter of invoke_tool
    target,      \* the terminal invoke_tool was asked for
    outcome,     \* what invoke_tool returned
    canceller,   \* program counter of cancel_tool_call
    stage,       \* send_to_terminal, on behalf of a call's two tasks
    via,         \* the sender (channel) it has cloned
    swept        \* terminals swept Offline whose calls are still to abort

registryVars == <<sessions, sessionSeq>>
connVars     == <<phase, peer, sid, rxOpen>>
agentVars    == <<link, jobs, started, succeeded>>
callVars     == <<pending, slot, caller, target, outcome, canceller>>
sendVars     == <<stage, via>>
vars == <<env, registryVars, connVars, up, down, agentVars, callVars, sendVars, swept>>

Phases == {"fresh", "handshake", "allocated", "stored", "refused", "open",
           "notifying", "ended", "marked", "aborted", "closed"}
Outcomes == {"ok", "failed", "disconnected", "cancelled", "droppedTx",
             "offline", "sendError", "timedOut"}
CallerPCs == {"idle", "checked", "sending", "waiting", "expired",
              "cancelling", "returned", "abandoned"}
Roles == {"caller", "canceller"}
Stages == {"none", "lookup", "push", "mark", "sent", "failed"}

Absent  == [id |-> 0, status |-> "Absent", conn |-> NoConn, fresh |-> FALSE]
Session == [id : Nat, status : {"Online", "Offline"}, conn : Conns, fresh : BOOLEAN]
               \cup {Absent}

(* ServerToAgentMessage and AgentToServerMessage, as far as a call or a    *)
(* session depends on them.                                                *)
Invoke(k)    == [type |-> "InvokeTool", call |-> k]
Cancel(k)    == [type |-> "CancelTool", call |-> k]
Result(k, o) == [type |-> "ToolResult", call |-> k, outcome |-> o]
Heartbeat    == [type |-> "Heartbeat"]
Disconnect   == [type |-> "Disconnect"]

ServerMsg == {Invoke(k) : k \in Calls} \cup {Cancel(k) : k \in Calls}
AgentMsg  == {Result(k, o) : k \in Calls, o \in {"ok", "failed"}}
                 \cup {Heartbeat, Disconnect}

Init ==
    /\ env \in Scenarios
    /\ sessions = [t \in Terminals |-> Absent]
    /\ sessionSeq = 1
    /\ phase = [c \in Conns |-> "fresh"]
    /\ peer = [c \in Conns |-> NoTerminal]
    /\ sid = [c \in Conns |-> 0]
    /\ rxOpen = [c \in Conns |-> FALSE]
    /\ up = [c \in Conns |-> <<>>]
    /\ down = [c \in Conns |-> <<>>]
    /\ link = [t \in Terminals |-> NoConn]
    /\ jobs = [k \in Calls |-> NoConn]
    /\ started = [k \in Calls |-> 0]
    /\ succeeded = {}
    /\ pending = [k \in Calls |-> NoTerminal]
    /\ slot = [k \in Calls |-> "empty"]
    /\ caller = [k \in Calls |-> "idle"]
    /\ target = [k \in Calls |-> NoTerminal]
    /\ outcome = [k \in Calls |-> "none"]
    /\ canceller = [k \in Calls |-> "idle"]
    /\ stage = [r \in Roles |-> [k \in Calls |-> "none"]]
    /\ via = [r \in Roles |-> [k \in Calls |-> NoConn]]
    /\ swept = {}

-----------------------------------------------------------------------------
(* Registry operations.                                                    *)

Registered(t) == sessions[t].status # "Absent"

With(s, status, fresh) ==
    [id |-> s.id, status |-> status, conn |-> s.conn, fresh |-> fresh]
Offline(s) == With(s, "Offline", s.fresh)

(* set_status and set_status_if_current, the status being Offline.         *)
SetOffline(t) ==
    IF Registered(t) THEN [sessions EXCEPT ![t] = Offline(@)] ELSE sessions

SetOfflineIfCurrent(t, id) ==
    IF sessions[t].id = id THEN SetOffline(t) ELSE sessions

(* update_heartbeat looks the session up by terminal id alone.             *)
UpdateHeartbeat(t) ==
    IF Registered(t) THEN [sessions EXCEPT ![t] = With(@, "Online", TRUE)] ELSE sessions

(* abort_pending_calls_for_terminal, by way of handle_terminal_disconnected *)
(* : fail every pending call of the terminal.                              *)
AbortPending(t) ==
    /\ pending' = [k \in Calls |-> IF pending[k] = t THEN NoTerminal ELSE pending[k]]
    /\ slot' = [k \in Calls |-> IF pending[k] = t THEN "disconnected" ELSE slot[k]]

-----------------------------------------------------------------------------
(* The agent's end of a connection.                                        *)

(* The agent has seen the RegisterAck of connection c.                     *)
Acked(c) == phase[c] \in {"open", "notifying", "ended", "marked", "aborted", "closed"}
Speaking(t) == link[t] # NoConn /\ Acked(link[t])

AgentConnect(t, c) ==
    /\ link[t] = NoConn
    /\ phase[c] = "fresh"
    /\ "reconnect" \in env \/ \A d \in Conns : peer[d] # t
    /\ link' = [link EXCEPT ![t] = c]
    /\ phase' = [phase EXCEPT ![c] = "handshake"]
    /\ peer' = [peer EXCEPT ![c] = t]
    /\ UNCHANGED <<env, registryVars, sid, rxOpen, up, down, jobs, started, succeeded,
                   callVars, sendVars, swept>>

(* A message is kept in flight only while its reader will come to it.      *)
Reading(c) == phase[c] \in {"open", "notifying"}
Say(c, m) == up' = IF Reading(c) THEN [up EXCEPT ![c] = Append(@, m)] ELSE up
Queued(c, m) == \E i \in 1..Len(up[c]) : up[c][i] = m

(* The heartbeat task; at most one unread heartbeat is kept in the model.  *)
AgentHeartbeat(t) ==
    /\ "heartbeat" \in env
    /\ Speaking(t)
    /\ ~Queued(link[t], Heartbeat)
    /\ Say(link[t], Heartbeat)
    /\ UNCHANGED <<env, registryVars, connVars, down, agentVars, callVars, sendVars, swept>>

(* abort_active_session: the Disconnect message goes out, the connection   *)
(* and its heartbeats go on.                                               *)
AgentDisconnect(t) ==
    /\ "disconnect" \in env
    /\ Speaking(t)
    /\ ~Queued(link[t], Disconnect)
    /\ Say(link[t], Disconnect)
    /\ UNCHANGED <<env, registryVars, connVars, down, agentVars, callVars, sendVars, swept>>

(* The agent leaves its connection (read error, read timeout, no ack in    *)
(* time, stop): what its writer task had not put on the wire is lost.      *)
AgentDrop(t) ==
    /\ link[t] # NoConn
    /\ \E n \in 0..Len(up[link[t]]) :
           up' = [up EXCEPT ![link[t]] = SubSeq(@, 1, n)]
    /\ down' = [down EXCEPT ![link[t]] = <<>>]
    /\ link' = [link EXCEPT ![t] = NoConn]
    /\ UNCHANGED <<env, registryVars, connVars, jobs, started, succeeded,
                   callVars, sendVars, swept>>

AgentInvoke(t, k) ==
    /\ Speaking(t)
    /\ down[link[t]] # <<>> /\ Head(down[link[t]]) = Invoke(k)
    /\ down' = [down EXCEPT ![link[t]] = Tail(@)]
    /\ jobs' = [jobs EXCEPT ![k] = link[t]]
    /\ started' = [started EXCEPT ![k] = @ + 1]
    /\ UNCHANGED <<env, registryVars, connVars, up, link, succeeded, callVars, sendVars, swept>>

(* A cancellation only brings the end of the tool forward, and may come    *)
(* too late: what it does inside the agent is the subject of the executor. *)
AgentCancel(t, k) ==
    /\ Speaking(t)
    /\ down[link[t]] # <<>> /\ Head(down[link[t]]) = Cancel(k)
    /\ down' = [down EXCEPT ![link[t]] = Tail(@)]
    /\ UNCHANGED <<env, registryVars, connVars, up, agentVars, callVars, sendVars, swept>>

(* A tool ends; the reply goes to the connection the call came from, and   *)
(* nowhere when the agent has left that connection.                        *)
AgentFinish(k, o) ==
    LET c == jobs[k] IN
    /\ c # NoConn
    /\ jobs' = [jobs EXCEPT ![k] = NoConn]
    /\ succeeded' = IF o = "ok" THEN succeeded \cup {k} ELSE succeeded
    /\ IF link[peer[c]] = c THEN Say(c, Result(k, o)) ELSE up' = up
    /\ UNCHANGED <<env, registryVars, connVars, down, link, started, callVars, sendVars, swept>>

Agent(t) ==
    \/ \E c \in Conns : AgentConnect(t, c)
    \/ AgentHeartbeat(t) \/ AgentDisconnect(t) \/ AgentDrop(t)
    \/ \E k \in Calls : AgentInvoke(t, k) \/ AgentCancel(t, k)

-----------------------------------------------------------------------------
(* The server's task for one connection: handle_stream_with_peer.          *)

Step(c, from, to) ==
    /\ phase[c] = from
    /\ phase' = [phase EXCEPT ![c] = to]

(* No Register within ten seconds, a banned peer, a read error.            *)
RefuseHandshake(c) ==
    /\ Step(c, "handshake", "refused")
    /\ UNCHANGED <<env, registryVars, peer, sid, rxOpen, up, down, agentVars, callVars,
                   sendVars, swept>>

(* register(), up to the wait for the sessions lock: the session id is     *)
(* taken, the session is not yet in the map.                               *)
AllocateSession(c) ==
    /\ Step(c, "handshake", "allocated")
    /\ sid' = [sid EXCEPT ![c] = sessionSeq]
    /\ sessionSeq' = sessionSeq + 1
    /\ rxOpen' = [rxOpen EXCEPT ![c] = TRUE]
    /\ UNCHANGED <<env, sessions, peer, up, down, agentVars, callVars, sendVars, swept>>

(* register(), under the lock: whatever session was there is replaced.     *)
StoreSession(c) ==
    /\ Step(c, "allocated", "stored")
    /\ sessions' = [sessions EXCEPT ![peer[c]] =
                       [id |-> sid[c], status |-> "Online", conn |-> c, fresh |-> TRUE]]
    /\ UNCHANGED <<env, sessionSeq, peer, sid, rxOpen, up, down, agentVars, callVars,
                   sendVars, swept>>

SendAck(c) ==
    /\ Step(c, "stored", "open")
    /\ UNCHANGED <<env, registryVars, peer, sid, rxOpen, up, down, agentVars, callVars,
                   sendVars, swept>>

(* The peer is gone: wait_for_registration fails, its caller returns and   *)
(* the receiver is dropped; the registry keeps the session.                *)
FailAck(c) ==
    /\ Step(c, "stored", "refused")
    /\ link[peer[c]] # c
    /\ rxOpen' = [rxOpen EXCEPT ![c] = FALSE]
    /\ UNCHANGED <<env, registryVars, peer, sid, up, down, agentVars, callVars, sendVars, swept>>

Read(c, m) ==
    /\ phase[c] = "open"
    /\ up[c] # <<>> /\ Head(up[c]) = m
    /\ up' = [up EXCEPT ![c] = Tail(@)]

ReadHeartbeat(c) ==
    /\ Read(c, Heartbeat)
    /\ sessions' = UpdateHeartbeat(peer[c])
    /\ UNCHANGED <<env, sessionSeq, connVars, down, agentVars, callVars, sendVars, swept>>

(* process_tool_result: the entry is found by call id, whoever sent it; a  *)
(* result nobody waits for is dropped.                                     *)
ReadResult(c, k, o) ==
    /\ Read(c, Result(k, o))
    /\ IF pending[k] # NoTerminal
       THEN /\ pending' = [pending EXCEPT ![k] = NoTerminal]
            /\ slot' = [slot EXCEPT ![k] = o]
       ELSE UNCHANGED <<pending, slot>>
    /\ UNCHANGED <<env, registryVars, connVars, down, agentVars, caller, target, outcome,
                   canceller, sendVars, swept>>

(* Disconnect: set_status, whichever session is current ...                *)
ReadDisconnect(c) ==
    /\ Read(c, Disconnect)
    /\ phase' = [phase EXCEPT ![c] = "notifying"]
    /\ sessions' = SetOffline(peer[c])
    /\ UNCHANGED <<env, sessionSeq, peer, sid, rxOpen, down, agentVars, callVars, sendVars, swept>>

(* ... then the router is told, and the read loop goes on.                 *)
NotifyDisconnect(c) ==
    /\ Step(c, "notifying", "open")
    /\ AbortPending(peer[c])
    /\ UNCHANGED <<env, registryVars, peer, sid, rxOpen, up, down, agentVars, caller, target,
                   outcome, canceller, sendVars, swept>>

(* End of stream, a read error, a Close frame or the idle timeout.         *)
EndReadLoop(c) ==
    /\ Step(c, "open", "ended")
    /\ up' = [up EXCEPT ![c] = <<>>]
    /\ UNCHANGED <<env, registryVars, peer, sid, rxOpen, down, agentVars, callVars,
                   sendVars, swept>>

CleanupStatus_Unguarded(c) == \* set_status instead of set_status_if_current
    /\ Step(c, "ended", "marked")
    /\ sessions' = SetOffline(peer[c])
    /\ UNCHANGED <<env, sessionSeq, peer, sid, rxOpen, up, down, agentVars, callVars,
                   sendVars, swept>>

CleanupStatus(c) ==
    /\ Step(c, "ended", "marked")
    /\ sessions' = SetOfflineIfCurrent(peer[c], sid[c])
    /\ UNCHANGED <<env, sessionSeq, peer, sid, rxOpen, up, down, agentVars, callVars,
                   sendVars, swept>>

CleanupCalls(c) ==
    /\ Step(c, "marked", "aborted")
    /\ AbortPending(peer[c])
    /\ UNCHANGED <<env, registryVars, peer, sid, rxOpen, up, down, agentVars, caller, target,
                   outcome, canceller, sendVars, swept>>

(* forward_task.abort(): the receiver and what it had not sent are gone.   *)
CleanupForwarder(c) ==
    /\ Step(c, "aborted", "closed")
    /\ rxOpen' = [rxOpen EXCEPT ![c] = FALSE]
    /\ \E n \in 0..Len(down[c]) : down' = [down EXCEPT ![c] = SubSeq(@, 1, n)]
    /\ UNCHANGED <<env, registryVars, peer, sid, up, agentVars, callVars, sendVars, swept>>

(* The forwarding task fails to write to a peer that is gone and exits.    *)
ForwarderFails(c) ==
    /\ phase[c] \in {"open", "notifying", "ended", "marked", "aborted"}
    /\ rxOpen[c]
    /\ link[peer[c]] # c
    /\ rxOpen' = [rxOpen EXCEPT ![c] = FALSE]
    /\ UNCHANGED <<env, registryVars, phase, peer, sid, up, down, agentVars, callVars, sendVars,
                   swept>>

Server(c) ==
    \/ RefuseHandshake(c)
    \/ AllocateSession(c) \/ StoreSession(c) \/ SendAck(c) \/ FailAck(c)
    \/ ReadHeartbeat(c) \/ ReadDisconnect(c) \/ NotifyDisconnect(c)
    \/ \E k \in Calls, o \in {"ok", "failed"} : ReadResult(c, k, o)
    \/ EndReadLoop(c) \/ CleanupStatus(c) \/ CleanupCalls(c) \/ CleanupForwarder(c)
    \/ ForwarderFails(c)

-----------------------------------------------------------------------------
(* The sweeper and the operator.                                           *)

(* More than offline_threshold has passed since the last heartbeat. Only a *)
(* heartbeat or a registration takes a session out of Offline, and both    *)
(* refresh it: the age of an Offline session is never looked at.           *)
HeartbeatLapses(t) ==
    /\ "lapse" \in env
    /\ sessions[t].status = "Online" /\ sessions[t].fresh
    /\ sessions' = [sessions EXCEPT ![t] = With(@, "Online", FALSE)]
    /\ UNCHANGED <<env, sessionSeq, connVars, up, down, agentVars, callVars, sendVars, swept>>

Expired_OpenChannels == \* leaves closed channels to the connection's task
    {t \in Terminals : sessions[t].status = "Online" /\ ~sessions[t].fresh
                       /\ rxOpen[sessions[t].conn]}

Expired == {t \in Terminals : sessions[t].status = "Online" /\ ~sessions[t].fresh}

Sweep ==
    /\ swept = {} /\ Expired # {}
    /\ sessions' = [t \in Terminals |->
           IF t \in Expired THEN Offline(sessions[t]) ELSE sessions[t]]
    /\ swept' = Expired
    /\ UNCHANGED <<env, sessionSeq, connVars, up, down, agentVars, callVars, sendVars>>

NotifySwept(t) ==
    /\ t \in swept
    /\ swept' = swept \ {t}
    /\ AbortPending(t)
    /\ UNCHANGED <<env, registryVars, connVars, up, down, agentVars, caller, target, outcome,
                   canceller, sendVars>>

(* remove_terminal, from the dashboard.                                    *)
RemoveTerminal(t) ==
    /\ "remove" \in env
    /\ Registered(t)
    /\ sessions' = [sessions EXCEPT ![t] = Absent]
    /\ UNCHANGED <<env, sessionSeq, connVars, up, down, agentVars, callVars, sendVars, swept>>

-----------------------------------------------------------------------------
(* send_to_terminal, on behalf of the task r ("caller": invoke_tool,       *)
(* "canceller": cancel_tool_call) of the call k: clone the sender under    *)
(* the lock, push without it, and on a closed channel mark the terminal    *)
(* Offline, whichever session is current by then.                          *)

Begin(r, k) == stage' = [stage EXCEPT ![r][k] = "lookup"]
Reset(r, k) ==
    /\ stage' = [stage EXCEPT ![r][k] = "none"]
    /\ via' = [via EXCEPT ![r][k] = NoConn]

Listening(c) == link[peer[c]] = c
Message(r, k) == IF r = "caller" /\ caller[k] = "sending" THEN Invoke(k) ELSE Cancel(k)

SendLookup(r, k) ==
    /\ stage[r][k] = "lookup"
    /\ IF Registered(target[k])
       THEN /\ stage' = [stage EXCEPT ![r][k] = "push"]
            /\ via' = [via EXCEPT ![r][k] = sessions[target[k]].conn]
       ELSE /\ stage' = [stage EXCEPT ![r][k] = "failed"]
            /\ UNCHANGED via
    /\ UNCHANGED <<env, registryVars, connVars, up, down, agentVars, callVars, swept>>

SendPush(r, k) ==
    /\ stage[r][k] = "push"
    /\ IF rxOpen[via[r][k]]
       THEN /\ down' = IF Listening(via[r][k])
                       THEN [down EXCEPT ![via[r][k]] = Append(@, Message(r, k))]
                       ELSE down
            /\ stage' = [stage EXCEPT ![r][k] = "sent"]
       ELSE /\ stage' = [stage EXCEPT ![r][k] = "mark"]
            /\ UNCHANGED down
    /\ UNCHANGED <<env, registryVars, connVars, up, agentVars, callVars, via, swept>>

SendMark(r, k) ==
    /\ stage[r][k] = "mark"
    /\ sessions' = SetOffline(target[k])
    /\ stage' = [stage EXCEPT ![r][k] = "failed"]
    /\ UNCHANGED <<env, sessionSeq, connVars, up, down, agentVars, callVars, via, swept>>

Send(r, k) == SendLookup(r, k) \/ SendPush(r, k) \/ SendMark(r, k)
SendOver(r, k) == stage[r][k] \in {"sent", "failed"}

-----------------------------------------------------------------------------
(* McpRouter::invoke_tool, the task of call k.                             *)

Goto(k, pc) == caller' = [caller EXCEPT ![k] = pc]
Return(k, o) ==
    /\ Goto(k, "returned")
    /\ outcome' = [outcome EXCEPT ![k] = o]

(* get_terminal                                                            *)
CheckTerminal(k, t) ==
    /\ "call" \in env
    /\ caller[k] = "idle"
    /\ target' = [target EXCEPT ![k] = t]
    /\ IF sessions[t].status = "Online"
       THEN Goto(k, "checked") /\ UNCHANGED outcome
       ELSE Return(k, "offline")
    /\ UNCHANGED <<env, registryVars, connVars, up, down, agentVars, pending, slot, canceller,
                   sendVars, swept>>

InsertPending(k) ==
    /\ caller[k] = "checked"
    /\ Goto(k, "sending")
    /\ pending' = [pending EXCEPT ![k] = target[k]]
    /\ Begin("caller", k)
    /\ UNCHANGED <<env, registryVars, connVars, up, down, agentVars, slot, target, outcome,
                   canceller, via, swept>>

SendEnds_Leaks(k) == \* the entry stays in the map when the send fails
    /\ caller[k] = "sending" /\ SendOver("caller", k)
    /\ IF stage["caller"][k] = "sent"
       THEN Goto(k, "waiting") /\ UNCHANGED outcome
       ELSE Return(k, "sendError")
    /\ Reset("caller", k)
    /\ UNCHANGED <<env, registryVars, connVars, up, down, agentVars, pending, slot, target,
                   canceller, swept>>

SendEnds(k) ==
    /\ caller[k] = "sending" /\ SendOver("caller", k)
    /\ IF stage["caller"][k] = "sent"
       THEN Goto(k, "waiting") /\ UNCHANGED <<outcome, pending>>
       ELSE /\ Return(k, "sendError")
            /\ pending' = [pending EXCEPT ![k] = NoTerminal]
    /\ Reset("caller", k)
    /\ UNCHANGED <<env, registryVars, connVars, up, down, agentVars, slot, target, canceller,
                   swept>>

(* timeout(.., rx): the receiver is polled before the timer.               *)
TakeAnswer(k) ==
    /\ caller[k] = "waiting" /\ slot[k] # "empty"
    /\ Return(k, slot[k])
    /\ UNCHANGED <<env, registryVars, connVars, up, down, agentVars, pending, slot, target,
                   canceller, sendVars, swept>>

TimerFires(k) ==
    /\ caller[k] = "waiting" /\ slot[k] = "empty"
    /\ Goto(k, "expired")
    /\ UNCHANGED <<env, registryVars, connVars, up, down, agentVars, pending, slot, target,
                   outcome, canceller, sendVars, swept>>

RemoveExpired_Retries(k) == \* invokes again instead of cancelling
    /\ caller[k] = "expired"
    /\ Goto(k, "sending")
    /\ Begin("caller", k)
    /\ UNCHANGED <<env, registryVars, connVars, up, down, agentVars, pending, slot, target,
                   outcome, canceller, via, swept>>

RemoveExpired(k) ==
    /\ caller[k] = "expired"
    /\ Goto(k, "cancelling")
    /\ pending' = [pending EXCEPT ![k] = NoTerminal]
    /\ Begin("caller", k)
    /\ UNCHANGED <<env, registryVars, connVars, up, down, agentVars, slot, target, outcome,
                   canceller, via, swept>>

CancelSent(k) ==
    /\ caller[k] = "cancelling" /\ SendOver("caller", k)
    /\ Return(k, "timedOut")
    /\ Reset("caller", k)
    /\ UNCHANGED <<env, registryVars, connVars, up, down, agentVars, pending, slot, target,
                   canceller, swept>>

(* The HTTP handler awaiting the call is dropped with its connection: the  *)
(* call's entry stays in the map.                                          *)
Abandon(k) ==
    /\ "abandon" \in env
    /\ caller[k] \in {"checked", "sending", "waiting", "cancelling"}
    /\ Goto(k, "abandoned")
    /\ Reset("caller", k)
    /\ UNCHANGED <<env, registryVars, connVars, up, down, agentVars, pending, slot, target,
                   outcome, canceller, swept>>

Progress(k) ==
    \/ Send("caller", k)
    \/ InsertPending(k) \/ SendEnds(k) \/ TakeAnswer(k) \/ TimerFires(k)
    \/ RemoveExpired(k) \/ CancelSent(k)

Caller(k) == (\E t \in Terminals : CheckTerminal(k, t)) \/ Progress(k) \/ Abandon(k)

-----------------------------------------------------------------------------
(* McpRouter::cancel_tool_call: the entry is taken out first, the waiter   *)
(* is answered only after the send.                                        *)

CancelTake(k) ==
    /\ "cancel" \in env
    /\ canceller[k] = "idle" /\ pending[k] # NoTerminal
    /\ canceller' = [canceller EXCEPT ![k] = "sending"]
    /\ pending' = [pending EXCEPT ![k] = NoTerminal]
    /\ Begin("canceller", k)
    /\ UNCHANGED <<env, registryVars, connVars, up, down, agentVars, slot, caller, target,
                   outcome, via, swept>>

CancelAnswer(k) ==
    /\ canceller[k] = "sending" /\ SendOver("canceller", k)
    /\ canceller' = [canceller EXCEPT ![k] = "done"]
    /\ slot' = [slot EXCEPT ![k] = "cancelled"]
    /\ Reset("canceller", k)
    /\ UNCHANGED <<env, registryVars, connVars, up, down, agentVars, pending, caller, target,
                   outcome, swept>>

(* The canceller's own HTTP handler is dropped between the two: the sender *)
(* of the oneshot goes with it.                                            *)
CancelAbandoned(k) ==
    /\ "abandon" \in env
    /\ canceller[k] = "sending"
    /\ canceller' = [canceller EXCEPT ![k] = "done"]
    /\ slot' = [slot EXCEPT ![k] = "droppedTx"]
    /\ Reset("canceller", k)
    /\ UNCHANGED <<env, registryVars, connVars, up, down, agentVars, pending, caller, target,
                   outcome, swept>>

Canceller(k) == CancelTake(k) \/ Send("canceller", k) \/ CancelAnswer(k) \/ CancelAbandoned(k)

-----------------------------------------------------------------------------
Next ==
    \/ \E t \in Terminals : Agent(t) \/ HeartbeatLapses(t) \/ NotifySwept(t) \/ RemoveTerminal(t)
    \/ \E c \in Conns : Server(c)
    \/ \E k \in Calls : Caller(k) \/ Canceller(k)
    \/ \E k \in Calls, o \in {"ok", "failed"} : AgentFinish(k, o)
    \/ Sweep

Spec == Init /\ [][Next]_vars

(* The code's scheduling: a task that can run does (and a timer it waits   *)
(* for fires), on the server; the sweeper ticks; a heartbeat lapses once   *)
(* nobody reads heartbeats of the terminal. Nothing is assumed of agents.  *)
Silent(t) == \A c \in Conns : peer[c] = t => ~Reading(c)
Fairness ==
    /\ \A k \in Calls : WF_vars(Progress(k)) /\ WF_vars(Send("canceller", k) \/ CancelAnswer(k))
    /\ \A c \in Conns : /\ WF_vars(StoreSession(c)) /\ WF_vars(SendAck(c) \/ FailAck(c))
                        /\ WF_vars(NotifyDisconnect(c))
                        /\ WF_vars(CleanupStatus(c) \/ CleanupCalls(c) \/ CleanupForwarder(c))
    /\ \A t \in Terminals : WF_vars(Silent(t) /\ HeartbeatLapses(t)) /\ WF_vars(NotifySwept(t))
    /\ WF_vars(Sweep)
LiveSpec == Spec /\ Fairness

-----------------------------------------------------------------------------
(* Properties.                                                             *)

(* The type of every variable.                                             *)
TypeOK ==
    /\ env \in Scenarios
    /\ sessions \in [Terminals -> Session]
    /\ sessionSeq \in Nat
    /\ phase \in [Conns -> Phases]
    /\ peer \in [Conns -> Terminals \cup {NoTerminal}]
    /\ sid \in [Conns -> Nat]
    /\ rxOpen \in [Conns -> BOOLEAN]
    /\ up \in [Conns -> Seq(AgentMsg)]
    /\ down \in [Conns -> Seq(ServerMsg)]
    /\ link \in [Terminals -> Conns \cup {NoConn}]
    /\ jobs \in [Calls -> Conns \cup {NoConn}]
    /\ started \in [Calls -> Nat]
    /\ succeeded \in SUBSET Calls
    /\ pending \in [Calls -> Terminals \cup {NoTerminal}]
    /\ slot \in [Calls -> Outcomes \cup {"empty"}]
    /\ caller \in [Calls -> CallerPCs]
    /\ target \in [Calls -> Terminals \cup {NoTerminal}]
    /\ outcome \in [Calls -> Outcomes \cup {"none"}]
    /\ canceller \in [Calls -> {"idle", "sending", "done"}]
    /\ stage \in [Roles -> [Calls -> Stages]]
    /\ via \in [Roles -> [Calls -> Conns \cup {NoConn}]]
    /\ swept \in SUBSET Terminals

(* An entry of pending_calls is never left behind: its invoke_tool is at   *)
(* it and has no answer yet, unless its HTTP handler was dropped; and no   *)
(* cancellation has begun. (router.rs, every path that removes an entry.)  *)
PendingOwned ==
    \A k \in Calls : pending[k] # NoTerminal =>
        /\ caller[k] \in {"sending", "waiting", "expired", "abandoned"}
        /\ pending[k] = target[k]
        /\ slot[k] = "empty"
        /\ canceller[k] = "idle"

(* A task that waits for an answer can still get one without its timer: it *)
(* is in the map, where a result, a disconnect or a cancellation finds it, *)
(* or a cancellation that took it out is about to answer it.               *)
WaiterReachable ==
    \A k \in Calls : caller[k] = "waiting" /\ slot[k] = "empty" =>
        pending[k] = target[k] \/ canceller[k] = "sending"

(* The current session of a terminal is taken Offline for a reason of its  *)
(* own: its connection's task has left the read loop, or its heartbeats    *)
(* lapsed. The code has two exceptions, a Disconnect message read on any   *)
(* connection of the terminal and a send that failed on any session of it; *)
(* the cleanup of a superseded connection is not one (handler.rs,          *)
(* set_status_if_current).                                                 *)
OfflineHasCause ==
    [][\A t \in Terminals :
          sessions[t].status = "Online" /\ sessions'[t].status = "Offline" =>
            \/ phase[sessions[t].conn] \notin {"stored", "open", "notifying"}
            \/ ~sessions[t].fresh
            \/ \E c \in Conns : peer[c] = t /\ phase[c] = "open" /\ phase'[c] = "notifying"
            \/ \E r \in Roles, k \in Calls :
                  target[k] = t /\ stage[r][k] = "mark" /\ ~rxOpen[via[r][k]]]_vars

(* The gateway implements ToolCalls: a tool is started at most once, only  *)
(* for a call that was asked for, and a call that returns a tool's result  *)
(* returns what its own tool ended with.                                   *)
Answered == INSTANCE ToolCalls WITH
    ToolOutcomes  <- {"ok", "failed"},
    GatewayErrors <- Outcomes \ {"ok", "failed"},
    call   <- [k \in Calls |-> IF caller[k] \in {"idle", "returned", "abandoned"}
                               THEN caller[k] ELSE "open"],
    tool   <- [k \in Calls |-> CASE started[k] = 0 -> "none"
                                 [] started[k] > 0 /\ jobs[k] # NoConn -> "running"
                                 [] started[k] > 0 /\ jobs[k] = NoConn ->
                                      IF k \in succeeded THEN "ok" ELSE "failed"],
    answer <- outcome
ImplementsToolCalls == Answered!Spec

(* Every call that is asked for returns, whatever its agent does: a timer, *)
(* a result, a disconnect or a cancellation ends the wait, and the entry   *)
(* of the call is gone by then.                                            *)
CallReturns ==
    \A k \in Calls : []<>(caller[k] \in {"idle", "abandoned"}
                            \/ (caller[k] = "returned" /\ pending[k] = NoTerminal))

(* A session that is Online over a closed channel does not stay so, unless *)
(* another connection of the terminal is being read (its heartbeats keep   *)
(* the terminal Online: update_heartbeat knows no session).                *)
DeadSessionNoticed ==
    \A t \in Terminals, c \in Conns :
        []<>~(/\ sessions[t].status = "Online" /\ sessions[t].conn = c
              /\ phase[c] \in {"closed", "refused"} /\ Silent(t))

=============================================================================
