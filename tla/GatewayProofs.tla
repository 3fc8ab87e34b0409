--------------------------- MODULE GatewayProofs ---------------------------
(***************************************************************************)
(* Proofs about Gateway, for any sets of terminals, connections and calls  *)
(* and any scenarios, and about Desktop, for any finite set of viewers and *)
(* any bounds. MCProgress puts the two side by side: it extends the one    *)
(* and gives the other its variables.                                      *)
(***************************************************************************)
EXTENDS MCProgress, TLAPS, SequenceTheorems, FiniteSetTheorems

(***************************************************************************)
(* The router's side of a call, from its insertion into the map to the     *)
(* answer: what makes PendingOwned and WaiterReachable inductive.          *)
(***************************************************************************)
CallOK(k) ==
    /\ caller[k] # "idle" => target[k] \in Terminals
    /\ caller[k] \in {"idle", "checked"} =>
          pending[k] = NoTerminal /\ slot[k] = "empty" /\ canceller[k] = "idle"
    /\ canceller[k] # "idle" => caller[k] # "idle" /\ pending[k] = NoTerminal
    /\ canceller[k] = "sending" => slot[k] = "empty"
    /\ caller[k] \in {"sending", "waiting"} /\ slot[k] = "empty" =>
          pending[k] # NoTerminal \/ canceller[k] = "sending"

SendOK(r, k) ==
    /\ stage[r][k] # "none" => IF r = "caller" THEN caller[k] \in {"sending", "cancelling"}
                                              ELSE canceller[k] = "sending"
    /\ stage[r][k] = "push" => via[r][k] \in Conns

CallInv == \A k \in Calls : CallOK(k) /\ \A r \in Roles : SendOK(r, k)

ConnInv == \A c \in Conns : phase[c] # "fresh" => peer[c] \in Terminals

IInv == TypeOK /\ ConnInv /\ CallInv /\ PendingOwned

(* The initial state has the types and the invariant.                      *)
LEMMA InitIInv == Init => IInv
<1> SUFFICES ASSUME Init PROVE IInv
    OBVIOUS
<1>1. TypeOK
    BY DEF Init, TypeOK, Session, Absent, Phases, Outcomes, CallerPCs, Roles, Stages
<1>2. CallInv
    BY DEF Init, CallInv, CallOK, SendOK, Roles
<1>3. PendingOwned /\ ConnInv
    BY DEF Init, PendingOwned, ConnInv
<1> QED BY <1>1, <1>2, <1>3 DEF IInv

-----------------------------------------------------------------------------
(* Type correctness.                                                       *)

(* The messages have their types.                                          *)
LEMMA MessageTypes ==
    /\ Heartbeat \in AgentMsg
    /\ Disconnect \in AgentMsg
    /\ \A k \in Calls : Invoke(k) \in ServerMsg /\ Cancel(k) \in ServerMsg
    /\ \A k \in Calls, o \in {"ok", "failed"} : Result(k, o) \in AgentMsg
BY DEF AgentMsg, ServerMsg

(* The update of one entry of a table by role and call (stage and via).    *)
LEMMA TableUpdate ==
    ASSUME NEW S, NEW f \in [Roles -> [Calls -> S]],
           NEW r \in Roles, NEW k \in Calls, NEW x \in S
    PROVE  /\ [f EXCEPT ![r][k] = x] \in [Roles -> [Calls -> S]]
           /\ \A q \in Roles, j \in Calls :
                 [f EXCEPT ![r][k] = x][q][j] = IF q = r /\ j = k THEN x ELSE f[q][j]
OBVIOUS

(* The operations of the registry return a registry.                       *)
LEMMA RegistryTypes ==
    ASSUME sessions \in [Terminals -> Session], NEW t \in Terminals
    PROVE  /\ \A b \in BOOLEAN : Registered(t) =>
                 /\ With(sessions[t], "Online", b) \in Session
                 /\ Offline(sessions[t]) \in Session
           /\ SetOffline(t) \in [Terminals -> Session]
           /\ \A id : SetOfflineIfCurrent(t, id) \in [Terminals -> Session]
           /\ UpdateHeartbeat(t) \in [Terminals -> Session]
           /\ Registered(t) => sessions[t].conn \in Conns
<1>1. Registered(t) => sessions[t] \in [id : Nat, status : {"Online", "Offline"},
                                       conn : Conns, fresh : BOOLEAN]
    BY DEF Session, Absent, Registered
<1>2. ASSUME NEW b \in BOOLEAN, Registered(t)
      PROVE  With(sessions[t], "Online", b) \in Session /\ Offline(sessions[t]) \in Session
    BY <1>1, <1>2 DEF Session, With, Offline
<1>3. SetOffline(t) \in [Terminals -> Session]
    BY <1>2 DEF SetOffline
<1>4. UpdateHeartbeat(t) \in [Terminals -> Session]
    BY <1>2 DEF UpdateHeartbeat
<1> QED BY <1>1, <1>2, <1>3, <1>4 DEF SetOfflineIfCurrent

USE DEF Say, Reading, Step, Read, Goto, Return, registryVars, connVars,
        agentVars, callVars, sendVars

(* Every step of an agent keeps the types.                                 *)
LEMMA AgentTypes ==
    ASSUME TypeOK, NEW t \in Terminals, Agent(t)
    PROVE  TypeOK'
<1> USE MessageTypes DEF Speaking
<1>1. ASSUME NEW c \in Conns, AgentConnect(t, c) PROVE TypeOK'
    BY <1>1 DEF TypeOK, AgentConnect, Phases
<1>2. ASSUME AgentHeartbeat(t) PROVE TypeOK'
    BY <1>2 DEF TypeOK, AgentHeartbeat
<1>3. ASSUME AgentDisconnect(t) PROVE TypeOK'
    BY <1>3 DEF TypeOK, AgentDisconnect
<1>4. ASSUME AgentDrop(t) PROVE TypeOK'
    BY <1>4 DEF TypeOK, AgentDrop
<1>5. ASSUME NEW k \in Calls, AgentInvoke(t, k) PROVE TypeOK'
    BY <1>5 DEF TypeOK, AgentInvoke
<1>6. ASSUME NEW k \in Calls, AgentCancel(t, k) PROVE TypeOK'
    BY <1>6 DEF TypeOK, AgentCancel
<1> QED BY <1>1, <1>2, <1>3, <1>4, <1>5, <1>6 DEF Agent

(* Every step of the server's task for a connection keeps the types.       *)
LEMMA ServerTypes ==
    ASSUME TypeOK, ConnInv, NEW c \in Conns, Server(c)
    PROVE  TypeOK'
<1> USE RegistryTypes DEF TypeOK, Phases, Outcomes
<1>1. CASE RefuseHandshake(c)
    BY <1>1 DEF RefuseHandshake
<1>2. CASE AllocateSession(c)
    BY <1>2 DEF AllocateSession
<1>3. CASE StoreSession(c)
    BY <1>3 DEF StoreSession, Session
<1>4. CASE SendAck(c)
    BY <1>4 DEF SendAck
<1>5. CASE FailAck(c)
    BY <1>5 DEF FailAck
<1>6. CASE ReadHeartbeat(c)
    BY <1>6 DEF ReadHeartbeat, ConnInv
<1>7. CASE ReadDisconnect(c)
    BY <1>7 DEF ReadDisconnect, ConnInv
<1>8. CASE NotifyDisconnect(c)
    BY <1>8 DEF NotifyDisconnect, AbortPending
<1>9. CASE EndReadLoop(c)
    BY <1>9 DEF EndReadLoop
<1>10. CASE CleanupStatus(c)
    BY <1>10 DEF CleanupStatus, ConnInv
<1>11. CASE CleanupCalls(c)
    BY <1>11 DEF CleanupCalls, AbortPending
<1>12. CASE CleanupForwarder(c)
    BY <1>12 DEF CleanupForwarder
<1>13. CASE ForwarderFails(c)
    BY <1>13 DEF ForwarderFails
<1>14. ASSUME NEW k \in Calls, NEW o \in {"ok", "failed"}, ReadResult(c, k, o) PROVE TypeOK'
  <2>1. up' \in [Conns -> Seq(AgentMsg)]
    BY <1>14 DEF ReadResult
  <2>2. pending' \in [Calls -> Terminals \cup {NoTerminal}]
    BY <1>14 DEF ReadResult
  <2>3. slot' \in [Calls -> Outcomes \cup {"empty"}]
    BY <1>14 DEF ReadResult
  <2> QED BY <1>14, <2>1, <2>2, <2>3 DEF ReadResult
<1> QED BY <1>1, <1>2, <1>3, <1>4, <1>5, <1>6, <1>7, <1>8, <1>9, <1>10, <1>11, <1>12, <1>13, <1>14 DEF Server

(* So do the steps of invoke_tool and cancel_tool_call.                    *)
LEMMA CallTypes ==
    ASSUME TypeOK, CallInv, NEW k \in Calls, Caller(k) \/ Canceller(k)
    PROVE  TypeOK'
<1> DEFINE Table(S) == [Roles -> [Calls -> S]]
<1> USE MessageTypes, RegistryTypes DEF TypeOK, CallerPCs, Roles, Outcomes
<1>1. ASSUME NEW t \in Terminals, CheckTerminal(k, t) PROVE TypeOK'
    BY <1>1 DEF CheckTerminal
<1>2. ASSUME NEW r \in Roles, NEW x \in Stages
      PROVE  [stage EXCEPT ![r][k] = x] \in Table(Stages)
    BY TableUpdate
<1>3. ASSUME NEW r \in Roles, NEW c \in Conns \cup {NoConn}
      PROVE  [via EXCEPT ![r][k] = c] \in Table(Conns \cup {NoConn})
    BY SMTT(30), TableUpdate
<1>4. ASSUME NEW r \in Roles, Begin(r, k) PROVE stage' \in Table(Stages)
    BY <1>2, <1>4 DEF Begin, Stages
<1>5. ASSUME NEW r \in Roles, Reset(r, k)
      PROVE  stage' \in Table(Stages) /\ via' \in Table(Conns \cup {NoConn})
    BY <1>2, <1>3, <1>5 DEF Reset, Stages
<1>6. ASSUME NEW r \in Roles, SendLookup(r, k) PROVE TypeOK'
  <2>1. caller[k] # "idle"
    BY <1>6 DEF CallInv, CallOK, SendOK, SendLookup
  <2>2. target[k] \in Terminals
    BY <2>1 DEF CallInv, CallOK, SendOK
  <2>3. CASE Registered(target[k])
    <3>1. sessions[target[k]].conn \in Conns /\ "push" \in Stages
      BY <2>2, <2>3 DEF Registered, Session, Absent, Stages
    <3>2. /\ stage' = [stage EXCEPT ![r][k] = "push"]
          /\ via' = [via EXCEPT ![r][k] = sessions[target[k]].conn]
      BY <1>6, <2>3 DEF SendLookup
    <3>3. stage' \in Table(Stages)
      BY <1>2, <3>1, <3>2
    <3>4. via' \in Table(Conns \cup {NoConn})
      BY <1>3, <3>1, <3>2
    <3> QED BY <1>6, <3>3, <3>4 DEF SendLookup
  <2>4. CASE ~Registered(target[k])
    <3>1. stage' = [stage EXCEPT ![r][k] = "failed"]
      BY <1>6, <2>4 DEF SendLookup
    <3>2. "failed" \in Stages
      BY DEF Stages
    <3>3. stage' \in Table(Stages)
      BY <1>2, <3>1, <3>2
    <3> QED BY <1>6, <2>4, <3>3 DEF SendLookup
  <2> QED BY <2>3, <2>4
<1>7. ASSUME NEW r \in Roles, SendPush(r, k) PROVE TypeOK'
  <2>1. via[r][k] \in Conns /\ Message(r, k) \in ServerMsg
    BY <1>7 DEF SendPush, CallInv, CallOK, SendOK, Message
  <2>2. stage' \in Table(Stages)
    <3>1. \/ stage' = [stage EXCEPT ![r][k] = "sent"]
          \/ stage' = [stage EXCEPT ![r][k] = "mark"]
      BY <1>7 DEF SendPush
    <3>2. "sent" \in Stages /\ "mark" \in Stages
      BY DEF Stages
    <3>3. CASE stage' = [stage EXCEPT ![r][k] = "sent"]
      BY <1>2, <3>2, <3>3
    <3>4. CASE stage' = [stage EXCEPT ![r][k] = "mark"]
      BY <1>2, <3>2, <3>4
    <3> QED BY <3>1, <3>3, <3>4
  <2>3. down' \in [Conns -> Seq(ServerMsg)]
    <3>1. CASE down' = [down EXCEPT ![via[r][k]] = Append(@, Message(r, k))]
      <4>1. Append(down[via[r][k]], Message(r, k)) \in Seq(ServerMsg)
        BY <2>1
      <4> QED BY <3>1, <4>1
    <3>2. CASE down' = down
      BY <3>2
    <3> QED BY <1>7, <3>1, <3>2 DEF SendPush
  <2> QED BY <1>7, <2>2, <2>3 DEF SendPush
<1>8. ASSUME NEW r \in Roles, SendMark(r, k) PROVE TypeOK'
  <2>1. target[k] \in Terminals
    BY <1>8 DEF SendMark, CallInv, CallOK, SendOK
  <2>2. stage' \in Table(Stages)
    BY <1>8, <1>2 DEF SendMark, Stages
  <2>3. sessions' \in [Terminals -> Session]
    BY <1>8, <2>1 DEF SendMark
  <2> QED BY <1>8, <2>2, <2>3 DEF SendMark
<1>9. CASE InsertPending(k)
    BY <1>9, <1>4 DEF InsertPending
<1>10. CASE SendEnds(k)
    BY ZenonT(40), <1>10, <1>5 DEF SendEnds
<1>11. CASE TakeAnswer(k)
    BY <1>11 DEF TakeAnswer
<1>12. CASE TimerFires(k)
    BY <1>12 DEF TimerFires
<1>13. CASE RemoveExpired(k)
    BY <1>13, <1>4 DEF RemoveExpired
<1>14. CASE CancelSent(k)
    BY <1>14, <1>5 DEF CancelSent
<1>15. CASE Abandon(k)
    BY <1>15, <1>5 DEF Abandon
<1>16. CASE CancelTake(k)
    BY <1>16, <1>4 DEF CancelTake
<1>17. CASE CancelAnswer(k)
    BY <1>17, <1>5 DEF CancelAnswer
<1>18. CASE CancelAbandoned(k)
    BY <1>18, <1>5 DEF CancelAbandoned
<1> QED BY <1>1, <1>6, <1>7, <1>8, <1>9, <1>10, <1>11, <1>12, <1>13, <1>14, <1>15,
           <1>16, <1>17, <1>18 DEF Caller, Progress, Send, Canceller

(* And the remaining ones: the sweeper, the operator, a tool that ends.    *)
LEMMA OtherTypes ==
    ASSUME TypeOK,
           \/ \E t \in Terminals : HeartbeatLapses(t) \/ NotifySwept(t) \/ RemoveTerminal(t)
           \/ \E k \in Calls, o \in {"ok", "failed"} : AgentFinish(k, o)
           \/ Sweep
    PROVE  TypeOK'
<1> USE MessageTypes, RegistryTypes DEF TypeOK, Outcomes
<1>1. ASSUME NEW t \in Terminals, HeartbeatLapses(t) PROVE TypeOK'
    BY <1>1 DEF HeartbeatLapses, Registered
<1>2. ASSUME NEW t \in Terminals, NotifySwept(t) PROVE TypeOK'
    BY <1>2 DEF NotifySwept, AbortPending
<1>3. ASSUME NEW t \in Terminals, RemoveTerminal(t) PROVE TypeOK'
    BY <1>3 DEF RemoveTerminal, Session
<1>4. ASSUME NEW k \in Calls, NEW o \in {"ok", "failed"}, AgentFinish(k, o) PROVE TypeOK'
  <2>1. succeeded' \in SUBSET Calls /\ jobs' \in [Calls -> Conns \cup {NoConn}]
    BY <1>4 DEF AgentFinish
  <2>2. CASE up' = up
    BY <1>4, <2>1, <2>2 DEF AgentFinish
  <2>3. CASE up' = [up EXCEPT ![jobs[k]] = Append(@, Result(k, o))]
    <3>1. jobs[k] \in Conns /\ Result(k, o) \in AgentMsg
      BY <1>4 DEF AgentFinish
    <3>2. up' \in [Conns -> Seq(AgentMsg)]
      BY <2>3, <3>1
    <3> QED BY <1>4, <2>1, <3>2 DEF AgentFinish
  <2> QED BY <1>4, <2>2, <2>3 DEF AgentFinish
<1>5. ASSUME Sweep PROVE TypeOK'
    BY <1>5 DEF Sweep, Expired, Registered
<1> QED BY <1>1, <1>2, <1>3, <1>4, <1>5

(* Every step keeps the types.                                             *)
LEMMA TypeStep == IInv /\ [Next]_vars => TypeOK'
<1> SUFFICES ASSUME IInv, [Next]_vars PROVE TypeOK'
    OBVIOUS
<1>1. CASE Next
    BY <1>1, AgentTypes, ServerTypes, CallTypes, OtherTypes DEF Next, IInv
<1>2. CASE UNCHANGED vars
    BY <1>2 DEF IInv, TypeOK, vars
<1> QED BY <1>1, <1>2

-----------------------------------------------------------------------------
(* The invariant of the connections and of the calls.                      *)

(* A connection has its terminal from the moment it is opened.             *)
LEMMA ConnStep == IInv /\ [Next]_vars => ConnInv'
<1> SUFFICES ASSUME IInv, [Next]_vars, NEW c \in Conns, phase'[c] # "fresh"
             PROVE  peer'[c] \in Terminals
    BY DEF ConnInv
<1> USE DEF IInv, TypeOK, ConnInv
<1>1. ASSUME NEW t \in Terminals, NEW d \in Conns, AgentConnect(t, d)
      PROVE  peer'[c] \in Terminals
    BY <1>1 DEF AgentConnect
<1>2. CASE UNCHANGED <<phase, peer>>
    BY <1>2
<1>3. ASSUME NEW d \in Conns, Server(d)
      PROVE  peer' = peer /\ phase[d] # "fresh" /\ \A e \in Conns : e # d => phase'[e] = phase[e]
    BY <1>3 DEF Server, RefuseHandshake, AllocateSession, StoreSession, SendAck, FailAck,
                ReadHeartbeat, ReadDisconnect, NotifyDisconnect, ReadResult, EndReadLoop,
                CleanupStatus, CleanupCalls, CleanupForwarder, ForwarderFails
<1>4. ASSUME NEW t \in Terminals, Agent(t), \A d \in Conns : ~AgentConnect(t, d)
      PROVE  UNCHANGED <<phase, peer>>
    BY <1>4 DEF Agent, AgentHeartbeat, AgentDisconnect, AgentDrop, AgentInvoke, AgentCancel
<1>5. ASSUME NEW k \in Calls, Caller(k) \/ Canceller(k)
      PROVE  UNCHANGED <<phase, peer>>
    BY <1>5 DEF Caller, Progress, Send, Canceller, CheckTerminal, SendLookup, SendPush, SendMark,
                InsertPending, SendEnds, TakeAnswer, TimerFires, RemoveExpired, CancelSent,
                Abandon, CancelTake, CancelAnswer, CancelAbandoned
<1>6. ASSUME NEW t \in Terminals, HeartbeatLapses(t) \/ NotifySwept(t) \/ RemoveTerminal(t)
      PROVE  UNCHANGED <<phase, peer>>
    BY <1>6 DEF HeartbeatLapses, NotifySwept, RemoveTerminal
<1>7. ASSUME NEW k \in Calls, NEW o \in {"ok", "failed"}, AgentFinish(k, o)
      PROVE  UNCHANGED <<phase, peer>>
    BY <1>7 DEF AgentFinish
<1>8. ASSUME Sweep PROVE UNCHANGED <<phase, peer>>
    BY <1>8 DEF Sweep
<1>9. ASSUME UNCHANGED vars PROVE UNCHANGED <<phase, peer>>
    BY <1>9 DEF vars
<1> QED BY <1>1, <1>2, <1>3, <1>4, <1>5, <1>6, <1>7, <1>8, <1>9 DEF Next

(* A step that leaves the router alone keeps the invariant of the calls.   *)
LEMMA CallFrame ==
    ASSUME CallInv, PendingOwned, UNCHANGED <<callVars, sendVars>>
    PROVE  CallInv' /\ PendingOwned'
BY DEF CallInv, CallOK, SendOK, PendingOwned

(* So does the abort of a terminal's calls ...                             *)
LEMMA CallAbort ==
    ASSUME TypeOK, CallInv, PendingOwned, NEW t \in Terminals, AbortPending(t),
           UNCHANGED <<caller, target, outcome, canceller, sendVars>>
    PROVE  CallInv' /\ PendingOwned'
<1> USE NoTerminalAssumption DEF AbortPending, CallInv, CallOK, SendOK, PendingOwned, TypeOK
<1>1. CallInv'
    OBVIOUS
<1>2. PendingOwned'
    OBVIOUS
<1> QED BY <1>1, <1>2

(* ... and the arrival of a result.                                        *)
LEMMA CallResult ==
    ASSUME TypeOK, CallInv, PendingOwned, NEW c \in Conns, NEW k \in Calls,
           NEW o \in {"ok", "failed"}, ReadResult(c, k, o)
    PROVE  CallInv' /\ PendingOwned'
<1> USE NoTerminalAssumption DEF ReadResult, CallInv, CallOK, SendOK, PendingOwned, TypeOK
<1>1. CASE pending[k] = NoTerminal
    BY <1>1
<1>2. CASE pending[k] # NoTerminal
    BY <1>2
<1> QED BY <1>1, <1>2

(* The steps outside the router that touch its calls are only those.       *)
LEMMA CallOutside ==
    ASSUME IInv,
           \/ \E t \in Terminals : Agent(t) \/ HeartbeatLapses(t) \/ NotifySwept(t) \/ RemoveTerminal(t)
           \/ \E c \in Conns : Server(c)
           \/ \E k \in Calls, o \in {"ok", "failed"} : AgentFinish(k, o)
           \/ Sweep
           \/ UNCHANGED vars
    PROVE  CallInv' /\ PendingOwned'
<1> USE DEF IInv
<1>1. ASSUME NEW t \in Terminals,
             Agent(t) \/ HeartbeatLapses(t) \/ NotifySwept(t) \/ RemoveTerminal(t)
      PROVE  CallInv' /\ PendingOwned'
  <2>1. CASE Agent(t)
    <3>1. UNCHANGED <<callVars, sendVars>>
      BY <2>1 DEF Agent, AgentConnect, AgentHeartbeat, AgentDisconnect, AgentDrop,
                  AgentInvoke, AgentCancel
    <3> QED BY <3>1, CallFrame
  <2>2. CASE HeartbeatLapses(t) \/ RemoveTerminal(t)
    BY <2>2, CallFrame DEF HeartbeatLapses, RemoveTerminal
  <2>3. CASE NotifySwept(t)
    BY <2>3, CallAbort DEF NotifySwept
  <2> QED BY <1>1, <2>1, <2>2, <2>3
<1>2. ASSUME NEW c \in Conns, Server(c)
      PROVE  CallInv' /\ PendingOwned'
  <2>1. CASE NotifyDisconnect(c) \/ CleanupCalls(c)
    <3>1. peer[c] \in Terminals
      BY <2>1 DEF ConnInv, NotifyDisconnect, CleanupCalls
    <3> QED BY <2>1, <3>1, CallAbort DEF NotifyDisconnect, CleanupCalls
  <2>2. CASE \E k \in Calls, o \in {"ok", "failed"} : ReadResult(c, k, o)
    BY <2>2, CallResult
  <2>3. CASE RefuseHandshake(c) \/ AllocateSession(c) \/ StoreSession(c) \/ SendAck(c)
             \/ FailAck(c) \/ ReadHeartbeat(c) \/ ReadDisconnect(c) \/ EndReadLoop(c)
             \/ CleanupStatus(c) \/ CleanupForwarder(c) \/ ForwarderFails(c)
    <3>1. UNCHANGED <<callVars, sendVars>>
      BY <2>3 DEF RefuseHandshake, AllocateSession, StoreSession, SendAck, FailAck,
                  ReadHeartbeat, ReadDisconnect, EndReadLoop, CleanupStatus,
                  CleanupForwarder, ForwarderFails
    <3> QED BY <3>1, CallFrame
  <2> QED BY <1>2, <2>1, <2>2, <2>3 DEF Server
<1>3. ASSUME NEW k \in Calls, NEW o \in {"ok", "failed"}, AgentFinish(k, o)
      PROVE  CallInv' /\ PendingOwned'
    BY <1>3, CallFrame DEF AgentFinish
<1>4. CASE Sweep \/ UNCHANGED vars
    BY <1>4, CallFrame DEF Sweep, vars
<1> QED BY <1>1, <1>2, <1>3, <1>4

(* A step of send_to_terminal is made on behalf of a task that sends.      *)
LEMMA SendStep ==
    ASSUME TypeOK, CallInv, PendingOwned, NEW r \in Roles, NEW k \in Calls, Send(r, k)
    PROVE  CallInv' /\ PendingOwned'
<1> USE DEF TypeOK
<1>1. UNCHANGED callVars /\ stage[r][k] # "none"
    BY DEF Send, SendLookup, SendPush, SendMark
<1>2. caller[k] # "idle" /\ target[k] \in Terminals
    BY <1>1 DEF CallInv, CallOK, SendOK, Roles
<1>3. \A q \in Roles, j \in Calls : q # r \/ j # k =>
          stage'[q][j] = stage[q][j] /\ via'[q][j] = via[q][j]
    BY DEF Send, SendLookup, SendPush, SendMark
<1>4. stage'[r][k] = "push" => via'[r][k] \in Conns
  <2>1. CASE SendLookup(r, k)
    <3>1. CASE Registered(target[k])
      <4>1. sessions[target[k]].conn \in Conns
        BY <1>2, <3>1, RegistryTypes
      <4>2. via'[r][k] = sessions[target[k]].conn
        BY <2>1, <3>1 DEF SendLookup
      <4> QED BY <4>1, <4>2
    <3>2. CASE ~Registered(target[k])
      BY <2>1, <3>2 DEF SendLookup
    <3> QED BY <3>1, <3>2
  <2>2. CASE SendPush(r, k) \/ SendMark(r, k)
    BY <2>2 DEF SendPush, SendMark
  <2> QED BY <2>1, <2>2 DEF Send
<1>5. CallInv'
  <2>1. ASSUME NEW j \in Calls PROVE CallOK(j)'
    BY <1>1 DEF CallInv, CallOK, SendOK, CallOK
  <2>2. ASSUME NEW j \in Calls, NEW q \in Roles PROVE SendOK(q, j)'
    <3>1. SendOK(q, j) /\ SendOK(r, k)
      BY DEF CallInv
    <3>2. CASE q = r /\ j = k
      BY <1>1, <1>4, <3>1, <3>2 DEF SendOK
    <3>3. CASE ~(q = r /\ j = k)
      BY <1>1, <1>3, <3>1, <3>3 DEF SendOK
    <3> QED BY <3>2, <3>3
  <2> QED BY <2>1, <2>2 DEF CallInv
<1> QED BY <1>1, <1>5 DEF PendingOwned

(* Every step of invoke_tool keeps the invariant of the calls.             *)
LEMMA CallerStep ==
    ASSUME TypeOK, CallInv, PendingOwned, NEW k \in Calls, Caller(k)
    PROVE  CallInv' /\ PendingOwned'
<1> USE NoTerminalAssumption DEF CallInv, CallOK, SendOK, PendingOwned, TypeOK, Roles, Outcomes
<1>1. ASSUME NEW t \in Terminals, CheckTerminal(k, t) PROVE CallInv' /\ PendingOwned'
    BY <1>1 DEF CheckTerminal
<1>2. CASE Send("caller", k)
    BY <1>2, SendStep
<1>3. CASE InsertPending(k)
    BY <1>3 DEF InsertPending, Begin
<1>4. CASE SendEnds(k)
  <2>1. CASE stage["caller"][k] = "sent"
    <3>1. \A q \in Roles, j \in Calls :
             /\ stage'[q][j] = IF q = "caller" /\ j = k THEN "none" ELSE stage[q][j]
             /\ via'[q][j] = IF q = "caller" /\ j = k THEN NoConn ELSE via[q][j]
      BY <1>4 DEF SendEnds, Reset
    <3>2. /\ caller[k] = "sending" /\ caller' = [caller EXCEPT ![k] = "waiting"]
          /\ UNCHANGED <<pending, slot, canceller, target>>
      BY <1>4, <2>1 DEF SendEnds
    <3>3. PendingOwned'
      BY <3>2
    <3>4. ASSUME NEW j \in Calls PROVE CallOK(j)'
      BY <3>2
    <3>5. ASSUME NEW j \in Calls, NEW q \in Roles PROVE SendOK(q, j)'
      BY <3>1, <3>2
    <3> QED BY <3>3, <3>4, <3>5
  <2>2. CASE stage["caller"][k] # "sent"
    BY <1>4, <2>2 DEF SendEnds, Reset, SendOver
  <2> QED BY <2>1, <2>2
<1>5. CASE TakeAnswer(k)
    BY <1>5 DEF TakeAnswer
<1>6. CASE TimerFires(k)
    BY <1>6 DEF TimerFires
<1>7. CASE RemoveExpired(k)
    BY <1>7 DEF RemoveExpired, Begin
<1>8. CASE CancelSent(k)
    BY <1>8 DEF CancelSent, Reset
<1>9. CASE Abandon(k)
    BY <1>9 DEF Abandon, Reset
<1> QED BY <1>1, <1>2, <1>3, <1>4, <1>5, <1>6, <1>7, <1>8, <1>9 DEF Caller, Progress

(* And every step of cancel_tool_call.                                     *)
LEMMA CancellerStep ==
    ASSUME TypeOK, CallInv, PendingOwned, NEW k \in Calls, Canceller(k)
    PROVE  CallInv' /\ PendingOwned'
<1> USE NoTerminalAssumption DEF CallInv, CallOK, SendOK, PendingOwned, TypeOK, Roles, Outcomes
<1>1. CASE CancelTake(k)
    BY <1>1 DEF CancelTake, Begin
<1>2. CASE Send("canceller", k)
    BY <1>2, SendStep
<1>3. CASE CancelAnswer(k)
    BY <1>3 DEF CancelAnswer, Reset
<1>4. CASE CancelAbandoned(k)
    BY <1>4 DEF CancelAbandoned, Reset
<1> QED BY <1>1, <1>2, <1>3, <1>4 DEF Canceller

-----------------------------------------------------------------------------
(* The theorems.                                                           *)

(* The invariant is inductive.                                             *)
LEMMA StepIInv == IInv /\ [Next]_vars => IInv'
<1> SUFFICES ASSUME IInv, [Next]_vars PROVE IInv'
    OBVIOUS
<1>1. TypeOK' /\ ConnInv'
    BY TypeStep, ConnStep
<1>2. CallInv' /\ PendingOwned'
    BY CallOutside, CallerStep, CancellerStep DEF Next, IInv
<1> QED BY <1>1, <1>2 DEF IInv

(* The inductive invariant holds of every behaviour.                       *)
THEOREM InductiveInvariant == Spec => []IInv
BY InitIInv, StepIInv, PTL DEF Spec

(* Every variable keeps its type.                                          *)
THEOREM TypeCorrect == Spec => []TypeOK
<1>1. IInv => TypeOK
    BY DEF IInv
<1> QED BY <1>1, InductiveInvariant, PTL

(* The map of pending calls holds only calls somebody waits for, or whose  *)
(* HTTP handler was dropped (router.rs).                                   *)
THEOREM PendingIsOwned == Spec => []PendingOwned
<1>1. IInv => PendingOwned
    BY DEF IInv
<1> QED BY <1>1, InductiveInvariant, PTL

(* A task that waits for an answer can still be given one (router.rs).     *)
THEOREM WaiterIsReachable == Spec => []WaiterReachable
<1>1. IInv => WaiterReachable
    BY DEF IInv, CallInv, CallOK, SendOK, PendingOwned, WaiterReachable
<1> QED BY <1>1, InductiveInvariant, PTL

-----------------------------------------------------------------------------
(* Why a session goes Offline.                                             *)

(* The ids of sessions, and what a task that sends has in hand: a session   *)
(* is that of the connection whose task keeps its id, and the sender a task *)
(* has cloned is one of a channel that was opened, and found closed if so. *)
Linked(c) == phase[c] \notin {"fresh", "handshake"}

SessionInv == \A t \in Terminals : Registered(t) =>
    /\ sid[sessions[t].conn] = sessions[t].id
    /\ phase[sessions[t].conn] \notin {"fresh", "handshake", "allocated"}

SidInv == \A c \in Conns :
    /\ sid[c] < sessionSeq
    /\ phase[c] \in {"fresh", "handshake"} => sid[c] = 0
    /\ phase[c] \notin {"fresh", "handshake", "refused"} => sid[c] # 0
    /\ sid[c] # 0 => \A d \in Conns : sid[d] = sid[c] => d = c

ViaInv == \A r \in Roles, k \in Calls :
    /\ stage[r][k] \in {"push", "mark"} => via[r][k] \in Conns /\ Linked(via[r][k])
    /\ stage[r][k] = "mark" => ~rxOpen[via[r][k]]

RegInv == SessionInv /\ SidInv /\ ViaInv

(* No terminal is registered and nothing is on its way at first.           *)
LEMMA InitRegInv == Init => RegInv
<1> SUFFICES ASSUME Init PROVE RegInv
    OBVIOUS
<1>1. SessionInv
    BY DEF Init, SessionInv, Registered, Absent
<1>2. SidInv
    BY DEF Init, SidInv
<1>3. ViaInv
    BY DEF Init, ViaInv, Roles
<1> QED BY <1>1, <1>2, <1>3 DEF RegInv

(* A session that stays keeps its id and its connection: what the          *)
(* operations on the map do, but for a registration.                       *)
Settled == \A t \in Terminals :
    \/ sessions'[t].status = "Absent"
    \/ /\ Registered(t)
       /\ sessions'[t].id = sessions[t].id
       /\ sessions'[t].conn = sessions[t].conn

(* Whatever the registry is asked to write, but a registration: a session  *)
(* keeps its id and its connection.                                        *)
LEMMA RegistryKeeps ==
    ASSUME TypeOK, NEW t \in Terminals,
           \/ UNCHANGED sessions
           \/ sessions' = SetOffline(t)
           \/ \E id : sessions' = SetOfflineIfCurrent(t, id)
           \/ sessions' = UpdateHeartbeat(t)
           \/ Registered(t) /\ \E b \in BOOLEAN : sessions' = [sessions EXCEPT ![t] = With(@, "Online", b)]
           \/ sessions' = [sessions EXCEPT ![t] = Absent]
    PROVE  Settled
<1> USE DEF TypeOK, Settled, Registered
<1>1. CASE UNCHANGED sessions
    BY <1>1
<1>2. CASE sessions' = SetOffline(t) \/ \E id : sessions' = SetOfflineIfCurrent(t, id)
    BY <1>2 DEF SetOffline, SetOfflineIfCurrent, Offline, With
<1>3. CASE sessions' = UpdateHeartbeat(t)
    BY <1>3 DEF UpdateHeartbeat, With
<1>4. CASE Registered(t) /\ \E b \in BOOLEAN : sessions' = [sessions EXCEPT ![t] = With(@, "Online", b)]
    BY <1>4 DEF With
<1>5. CASE sessions' = [sessions EXCEPT ![t] = Absent]
    BY <1>5 DEF Absent
<1> QED BY <1>1, <1>2, <1>3, <1>4, <1>5

(* A connection goes on from one phase to a later one.                     *)
LEMMA PhaseMoves ==
    ASSUME TypeOK, RegInv, Settled, UNCHANGED <<sid, sessionSeq, sendVars>>,
           \A d \in Conns : rxOpen'[d] => rxOpen[d],
           \/ UNCHANGED phase
           \/ \E c \in Conns, p \in Phases \ {"fresh", "handshake", "allocated"} :
                 /\ phase[c] \notin {"fresh", "handshake", "refused", "allocated"}
                 /\ phase' = [phase EXCEPT ![c] = p]
    PROVE  RegInv'
<1> USE DEF TypeOK, RegInv, Linked
<1>1. SessionInv'
  <2>1. \A t \in Terminals : Registered(t) => sessions[t].conn \in Conns
    BY RegistryTypes
  <2> SUFFICES ASSUME NEW t \in Terminals, sessions'[t].status # "Absent"
               PROVE  /\ sid[sessions'[t].conn] = sessions'[t].id
                      /\ phase'[sessions'[t].conn] \notin {"fresh", "handshake", "allocated"}
    BY DEF SessionInv, Registered
  <2>2. Registered(t) /\ sessions'[t].id = sessions[t].id /\ sessions'[t].conn = sessions[t].conn
    BY DEF Settled
  <2>3. /\ sid[sessions[t].conn] = sessions[t].id
        /\ phase[sessions[t].conn] \notin {"fresh", "handshake", "allocated"}
    BY <2>2 DEF SessionInv
  <2> QED BY <2>1, <2>2, <2>3
<1>2. SidInv'
    BY DEF SidInv
<1>3. ViaInv'
    BY DEF ViaInv
<1> QED BY <1>1, <1>2, <1>3

(* The task of a connection.                                               *)
LEMMA RegServer ==
    ASSUME IInv, RegInv, NEW c \in Conns, Server(c)
    PROVE  RegInv'
<1> USE DEF IInv, TypeOK, RegInv, Linked
<1>1. CASE RefuseHandshake(c)
    BY <1>1 DEF RefuseHandshake, SessionInv, SidInv, ViaInv, Registered
<1>2. CASE AllocateSession(c)
    BY <1>2 DEF AllocateSession, SessionInv, SidInv, ViaInv, Registered, Session
<1>3. CASE StoreSession(c)
    BY <1>3 DEF StoreSession, SessionInv, SidInv, ViaInv, Registered
<1>4. CASE SendAck(c) \/ FailAck(c) \/ CleanupCalls(c) \/ CleanupForwarder(c)
             \/ ForwarderFails(c) \/ NotifyDisconnect(c) \/ EndReadLoop(c)
             \/ ReadHeartbeat(c) \/ ReadDisconnect(c) \/ CleanupStatus(c)
  <2>1. peer[c] \in Terminals
    BY <1>4 DEF ConnInv, SendAck, FailAck, CleanupCalls, CleanupForwarder, ForwarderFails,
                NotifyDisconnect, EndReadLoop, ReadHeartbeat, ReadDisconnect, CleanupStatus
  <2>2. Settled
    BY <1>4, <2>1, RegistryKeeps
       DEF SendAck, FailAck, CleanupCalls, CleanupForwarder, ForwarderFails,
           NotifyDisconnect, EndReadLoop, ReadHeartbeat, ReadDisconnect, CleanupStatus
  <2>3. UNCHANGED <<sid, sessionSeq, sendVars>> /\ \A d \in Conns : rxOpen'[d] => rxOpen[d]
    BY <1>4 DEF SendAck, FailAck, CleanupCalls, CleanupForwarder, ForwarderFails,
                NotifyDisconnect, EndReadLoop, ReadHeartbeat, ReadDisconnect, CleanupStatus
  <2>4. \/ UNCHANGED phase
        \/ \E p \in Phases \ {"fresh", "handshake", "allocated"} :
              /\ phase[c] \notin {"fresh", "handshake", "refused", "allocated"}
              /\ phase' = [phase EXCEPT ![c] = p]
    BY <1>4 DEF SendAck, FailAck, CleanupCalls, CleanupForwarder, ForwarderFails, Phases,
                NotifyDisconnect, EndReadLoop, ReadHeartbeat, ReadDisconnect, CleanupStatus
  <2> QED BY <2>2, <2>3, <2>4, PhaseMoves
<1>5. ASSUME NEW k \in Calls, NEW o \in {"ok", "failed"}, ReadResult(c, k, o) PROVE RegInv'
    BY <1>5 DEF ReadResult, SessionInv, SidInv, ViaInv, Registered
<1> QED BY <1>1, <1>2, <1>3, <1>4, <1>5 DEF Server

(* The agents, the sweeper and the operator.                               *)
LEMMA RegOthers ==
    ASSUME IInv, RegInv,
           \/ \E t \in Terminals : Agent(t) \/ HeartbeatLapses(t) \/ NotifySwept(t) \/ RemoveTerminal(t)
           \/ \E k \in Calls, o \in {"ok", "failed"} : AgentFinish(k, o)
           \/ Sweep
           \/ UNCHANGED vars
    PROVE  RegInv'
<1> USE DEF IInv, TypeOK, RegInv, Linked
<1>1. ASSUME NEW t \in Terminals, NEW d \in Conns, AgentConnect(t, d) PROVE RegInv'
    BY <1>1 DEF AgentConnect, SessionInv, SidInv, ViaInv, Registered
<1>2. ASSUME UNCHANGED <<phase, sid, sessionSeq, rxOpen, sendVars>>, Settled PROVE RegInv'
    BY <1>2 DEF Settled, SessionInv, SidInv, ViaInv, Registered
<1>3. ASSUME NEW t \in Terminals, Agent(t), \A d \in Conns : ~AgentConnect(t, d) PROVE RegInv'
  <2>1. UNCHANGED <<phase, sid, sessions, sessionSeq, rxOpen, sendVars>>
    BY <1>3 DEF Agent, AgentHeartbeat, AgentDisconnect, AgentDrop, AgentInvoke, AgentCancel
  <2> QED BY <1>2, <2>1, RegistryKeeps
<1>4. ASSUME NEW t \in Terminals, HeartbeatLapses(t) \/ NotifySwept(t) \/ RemoveTerminal(t)
      PROVE  RegInv'
  <2>1. Settled
    BY <1>4, RegistryKeeps DEF HeartbeatLapses, NotifySwept, RemoveTerminal, Registered
  <2> QED BY <1>2, <1>4, <2>1 DEF HeartbeatLapses, NotifySwept, RemoveTerminal
<1>5. CASE Sweep
  <2>1. Settled
    BY <1>5 DEF Sweep, Expired, Offline, With, Settled, Registered
  <2> QED BY <1>2, <1>5, <2>1 DEF Sweep
<1>6. CASE UNCHANGED vars \/ \E k \in Calls, o \in {"ok", "failed"} : AgentFinish(k, o)
  <2>1. UNCHANGED <<phase, sid, sessions, sessionSeq, rxOpen, sendVars>>
    BY <1>6 DEF AgentFinish, vars
  <2>2. Settled
    BY <2>1 DEF Settled, Registered
  <2> QED BY <1>2, <2>1, <2>2
<1> QED BY <1>1, <1>3, <1>4, <1>5, <1>6

(* The tasks of a call.                                                    *)
LEMMA RegCalls ==
    ASSUME IInv, RegInv, NEW k \in Calls, Caller(k) \/ Canceller(k)
    PROVE  RegInv'
<1> USE DEF IInv, TypeOK, RegInv, Linked
<1>1. UNCHANGED <<phase, sid, sessionSeq, rxOpen>>
    BY DEF Caller, Progress, Send, Canceller, CheckTerminal, SendLookup, SendPush, SendMark,
           InsertPending, SendEnds, TakeAnswer, TimerFires, RemoveExpired, CancelSent,
           Abandon, CancelTake, CancelAnswer, CancelAbandoned
<1>2. SessionInv' /\ SidInv'
  <2>1. Settled
    <3>1. CASE UNCHANGED sessions
      BY <3>1 DEF Settled, Registered
    <3>2. ASSUME NEW r \in Roles, SendMark(r, k) PROVE Settled
      <4>1. target[k] \in Terminals
        BY <3>2 DEF SendMark, CallInv, CallOK, SendOK, Roles
      <4> QED BY <3>2, <4>1, RegistryKeeps DEF SendMark
    <3>3. UNCHANGED sessions \/ \E r \in Roles : SendMark(r, k)
      BY DEF Caller, Progress, Send, Canceller, CheckTerminal, SendLookup, SendPush, Roles,
             InsertPending, SendEnds, TakeAnswer, TimerFires, RemoveExpired, CancelSent,
             Abandon, CancelTake, CancelAnswer, CancelAbandoned
    <3> QED BY <3>1, <3>2, <3>3
  <2> QED BY <1>1, <2>1 DEF Settled, SessionInv, SidInv, Registered
<1>3. ViaInv'
  <2>1. ASSUME NEW r \in Roles, SendLookup(r, k) PROVE ViaInv'
    <3>1. target[k] \in Terminals
      BY <2>1 DEF SendLookup, CallInv, CallOK, SendOK, Roles
    <3>2. Registered(target[k]) => sessions[target[k]].conn \in Conns
      BY <3>1, RegistryTypes
    <3>3. \A q \in Roles, j \in Calls : q # r \/ j # k =>
              stage'[q][j] = stage[q][j] /\ via'[q][j] = via[q][j]
      BY <2>1 DEF SendLookup
    <3>4. stage'[r][k] # "mark"
      BY <2>1 DEF SendLookup
    <3>5. stage'[r][k] = "push" => via'[r][k] \in Conns /\ Linked(via'[r][k])
      BY <2>1, <3>1, <3>2 DEF SendLookup, SessionInv
    <3> SUFFICES ASSUME NEW q \in Roles, NEW j \in Calls
                 PROVE  /\ stage'[q][j] \in {"push", "mark"} => via'[q][j] \in Conns /\ Linked(via'[q][j])
                        /\ stage'[q][j] = "mark" => ~rxOpen[via'[q][j]]
      BY <1>1 DEF ViaInv
    <3>6. CASE q = r /\ j = k
      BY <3>4, <3>5, <3>6
    <3>7. CASE ~(q = r /\ j = k)
      BY <3>3, <3>7 DEF ViaInv
    <3> QED BY <3>6, <3>7
  <2>2. ASSUME NEW r \in Roles, SendPush(r, k) PROVE ViaInv'
    <3>1. via' = via /\ \A q \in Roles, j \in Calls : q # r \/ j # k => stage'[q][j] = stage[q][j]
      BY <2>2 DEF SendPush
    <3>2. stage[r][k] = "push" /\ (stage'[r][k] = "sent" \/ (stage'[r][k] = "mark" /\ ~rxOpen[via[r][k]]))
      BY <2>2 DEF SendPush
    <3> SUFFICES ASSUME NEW q \in Roles, NEW j \in Calls
                 PROVE  /\ stage'[q][j] \in {"push", "mark"} => via[q][j] \in Conns /\ Linked(via[q][j])
                        /\ stage'[q][j] = "mark" => ~rxOpen[via[q][j]]
      BY <1>1, <3>1 DEF ViaInv
    <3>3. CASE q = r /\ j = k
      BY <3>2, <3>3 DEF ViaInv
    <3>4. CASE ~(q = r /\ j = k)
      BY <3>1, <3>4 DEF ViaInv
    <3> QED BY <3>3, <3>4
  <2>3. ASSUME NEW r \in Roles, SendMark(r, k) PROVE ViaInv'
    BY <1>1, <2>3 DEF SendMark, ViaInv
  <2>4. ASSUME NEW r \in Roles, Begin(r, k), UNCHANGED via PROVE ViaInv'
    BY <1>1, <2>4 DEF Begin, ViaInv
  <2>5. ASSUME NEW r \in Roles, Reset(r, k) PROVE ViaInv'
    BY <1>1, <2>5 DEF Reset, ViaInv
  <2>6. ASSUME UNCHANGED sendVars PROVE ViaInv'
    BY <1>1, <2>6 DEF ViaInv
  <2>7. CASE Caller(k)
    BY <2>1, <2>2, <2>3, <2>4, <2>5, <2>6, <2>7 DEF Caller, Progress, Send, CheckTerminal, Roles,
           InsertPending, SendEnds, TakeAnswer, TimerFires, RemoveExpired, CancelSent, Abandon
  <2>8. CASE Canceller(k)
    BY <2>1, <2>2, <2>3, <2>4, <2>5, <2>6, <2>8 DEF Canceller, Send, Roles,
            CancelTake, CancelAnswer, CancelAbandoned
  <2> QED BY <2>7, <2>8
<1> QED BY <1>2, <1>3

(* RegInv is inductive, given IInv.                                        *)
LEMMA RegStep == IInv /\ RegInv /\ [Next]_vars => RegInv'
BY RegServer, RegOthers, RegCalls DEF Next

(* Both invariants hold of every behaviour.                                *)
LEMMA RegistryHolds == Spec => [](IInv /\ RegInv)
BY InitIInv, StepIInv, InitRegInv, RegStep, PTL DEF Spec

(* The action of OfflineHasCause.                                          *)
Caused(t) ==
    sessions[t].status = "Online" /\ sessions'[t].status = "Offline" =>
        \/ phase[sessions[t].conn] \notin {"stored", "open", "notifying"}
        \/ ~sessions[t].fresh
        \/ \E c \in Conns : peer[c] = t /\ phase[c] = "open" /\ phase'[c] = "notifying"
        \/ \E r \in Roles, k \in Calls :
              target[k] = t /\ stage[r][k] = "mark" /\ ~rxOpen[via[r][k]]

(* Every step that takes a terminal Offline has one of the causes.         *)
LEMMA CausedStep == IInv /\ RegInv /\ [Next]_vars => \A t \in Terminals : Caused(t)
<1> SUFFICES ASSUME IInv, RegInv, [Next]_vars, NEW t \in Terminals,
                    sessions[t].status = "Online", sessions'[t].status = "Offline"
             PROVE  \/ phase[sessions[t].conn] \notin {"stored", "open", "notifying"}
                    \/ ~sessions[t].fresh
                    \/ \E c \in Conns : peer[c] = t /\ phase[c] = "open" /\ phase'[c] = "notifying"
                    \/ \E r \in Roles, k \in Calls :
                          target[k] = t /\ stage[r][k] = "mark" /\ ~rxOpen[via[r][k]]
    BY DEF Caused
<1> USE DEF IInv, TypeOK, RegInv
<1>0. Registered(t) /\ sessions[t].conn \in Conns
    BY RegistryTypes DEF Registered
<1>1. CASE UNCHANGED sessions
    BY <1>1
<1>2. ASSUME NEW c \in Conns, Server(c), sessions' # sessions
      PROVE  \/ phase[sessions[t].conn] \notin {"stored", "open", "notifying"}
             \/ peer[c] = t /\ phase[c] = "open" /\ phase'[c] = "notifying"
  <2>1. CASE ReadDisconnect(c)
    BY <2>1 DEF ReadDisconnect, SetOffline
  <2>2. CASE CleanupStatus(c)
    <3>1. t = peer[c] /\ sessions[t].id = sid[c]
      BY <2>2 DEF CleanupStatus, SetOfflineIfCurrent, SetOffline
    <3>2. sid[sessions[t].conn] = sid[c] /\ phase[c] = "ended"
      BY <1>0, <2>2, <3>1 DEF SessionInv, CleanupStatus
    <3>3. sessions[t].conn = c
      BY <1>0, <3>2 DEF SidInv
    <3> QED BY <3>2, <3>3
  <2>3. CASE StoreSession(c) \/ ReadHeartbeat(c)
    <3>1. \/ sessions' = [sessions EXCEPT ![peer[c]] =
                            [id |-> sid[c], status |-> "Online", conn |-> c, fresh |-> TRUE]]
          \/ sessions' = [sessions EXCEPT ![peer[c]] = With(@, "Online", TRUE)]
      BY <1>2, <2>3 DEF StoreSession, ReadHeartbeat, UpdateHeartbeat
    <3>2. CASE t = peer[c]
      <4>1. sessions'[t].status = "Online"
        BY <3>1, <3>2 DEF With
      <4> QED BY <4>1
    <3>3. CASE t # peer[c]
      <4>1. sessions'[t] = sessions[t]
        BY <3>1, <3>3
      <4> QED BY <4>1
    <3> QED BY <3>2, <3>3
  <2> QED BY <1>2, <2>1, <2>2, <2>3
          DEF Server, RefuseHandshake, AllocateSession, SendAck, FailAck, NotifyDisconnect,
              ReadResult, EndReadLoop, CleanupCalls, CleanupForwarder, ForwarderFails
<1>3. ASSUME NEW u \in Terminals,
             Agent(u) \/ HeartbeatLapses(u) \/ NotifySwept(u) \/ RemoveTerminal(u)
      PROVE  UNCHANGED sessions \/ sessions'[t].status # "Offline" \/ sessions'[t] = sessions[t]
    BY <1>3 DEF Agent, AgentConnect, AgentHeartbeat, AgentDisconnect, AgentDrop, AgentInvoke,
                AgentCancel, HeartbeatLapses, NotifySwept, RemoveTerminal, With, Absent
<1>4. CASE Sweep
    BY <1>4 DEF Sweep, Expired
<1>5. ASSUME NEW k \in Calls, Caller(k) \/ Canceller(k), sessions' # sessions
      PROVE  \E r \in Roles : target[k] = t /\ stage[r][k] = "mark" /\ ~rxOpen[via[r][k]]
  <2>1. \E r \in Roles : SendMark(r, k)
    BY <1>5 DEF Caller, Progress, Send, Canceller, CheckTerminal, SendLookup, SendPush, Roles,
             InsertPending, SendEnds, TakeAnswer, TimerFires, RemoveExpired, CancelSent,
             Abandon, CancelTake, CancelAnswer, CancelAbandoned
  <2>2. PICK r \in Roles : SendMark(r, k)
    BY <2>1
  <2>3. target[k] = t
    BY <2>2 DEF SendMark, SetOffline
  <2> QED BY <2>2, <2>3 DEF SendMark, ViaInv
<1>6. CASE UNCHANGED vars \/ \E k \in Calls, o \in {"ok", "failed"} : AgentFinish(k, o)
    BY <1>6, <1>1 DEF AgentFinish, vars
<1> QED BY <1>1, <1>2, <1>3, <1>4, <1>5, <1>6 DEF Next

(* A terminal goes Offline for a reason of its current session, or for one *)
(* of the two exceptions of the code (registry.rs, set_status_if_current;  *)
(* handler.rs).                                                            *)
THEOREM OfflineIsCaused == Spec => OfflineHasCause
<1>1. IInv /\ RegInv /\ [Next]_vars => [\A t \in Terminals : Caused(t)]_vars
    BY CausedStep
<1> QED BY <1>1, RegistryHolds, PTL DEF Spec, OfflineHasCause, Caused

-----------------------------------------------------------------------------
(* A tool is started once, and its result is its own.                      *)

(* An invocation is put on a channel once, and a result is that of the      *)
(* tool that ended.                                                        *)
Unsent(k) == \/ caller[k] \in {"idle", "checked"}
             \/ caller[k] = "sending" /\ stage["caller"][k] \in {"lookup", "push"}
OnceInv == \A k \in Calls :
    /\ Unsent(k) => started[k] = 0
    /\ started[k] = 0 => jobs[k] = NoConn /\ k \notin succeeded
    /\ jobs[k] # NoConn => k \notin succeeded
    /\ \A c \in Conns : \A i \in 1..Len(down[c]) : down[c][i] = Invoke(k) =>
          /\ started[k] = 0 /\ ~Unsent(k)
          /\ \A d \in Conns : \A j \in 1..Len(down[d]) : down[d][j] = Invoke(k) => d = c /\ i = j
Ended(k, o) == /\ started[k] > 0 /\ jobs[k] = NoConn
               /\ o = IF k \in succeeded THEN "ok" ELSE "failed"
AnswerInv == \A k \in Calls, o \in {"ok", "failed"} :
    /\ slot[k] = o => Ended(k, o)
    /\ \A c \in Conns : \A i \in 1..Len(up[c]) : up[c][i] = Result(k, o) => Ended(k, o)


(* What is left of a queue: t is s without its first and its last ones.    *)
Part(t, s) == \E m \in Nat :
    /\ Len(t) + m <= Len(s)
    /\ \A i \in 1..Len(t) : t[i] = s[i + m]

(* What the steps do to a queue leaves a part of it.                       *)
LEMMA PartCases ==
    ASSUME NEW S, NEW s \in Seq(S), NEW t,
           \/ t = s \/ t = <<>> \/ (s # <<>> /\ t = Tail(s))
           \/ \E n \in 0..Len(s) : t = SubSeq(s, 1, n)
    PROVE  Part(t, s)
<1>1. CASE t = s
    <2>1. Len(t) + 0 <= Len(s) /\ \A i \in 1..Len(t) : t[i] = s[i + 0]
      BY <1>1
    <2> QED BY <2>1 DEF Part
<1>2. CASE t = <<>>
    <2>1. Len(t) + 0 <= Len(s) /\ \A i \in 1..Len(t) : t[i] = s[i + 0]
      BY <1>2
    <2> QED BY <2>1 DEF Part
<1>3. CASE s # <<>> /\ t = Tail(s)
    <2>1. Len(t) + 1 <= Len(s) /\ \A i \in 1..Len(t) : t[i] = s[i + 1]
      BY <1>3, HeadTailProperties
    <2> QED BY <2>1 DEF Part
<1>4. ASSUME NEW n \in 0..Len(s), t = SubSeq(s, 1, n) PROVE Part(t, s)
    <2>1. Len(t) = n /\ \A i \in 1..n : t[i] = s[i]
      BY <1>4, SubSeqProperties
    <2>2. Len(t) + 0 <= Len(s) /\ \A i \in 1..Len(t) : t[i] = s[i + 0]
      BY <2>1
    <2> QED BY <2>2 DEF Part
<1> QED BY <1>1, <1>2, <1>3, <1>4

Loses(next, queues) == \A c \in Conns : Part(next[c], queues[c])

(* Queues that stay as they are lose nothing.                              *)
LEMMA LosesNothing ==
    ASSUME NEW S, NEW q \in [Conns -> Seq(S)]
    PROVE  Loses(q, q)
BY PartCases DEF Loses

(* One queue that is read, cut or emptied, while the others stay.          *)
LEMMA LosesAt ==
    ASSUME NEW S, NEW q \in [Conns -> Seq(S)], NEW c \in Conns, NEW t,
           \/ t = <<>> \/ (q[c] # <<>> /\ t = Tail(q[c]))
           \/ \E n \in 0..Len(q[c]) : t = SubSeq(q[c], 1, n)
    PROVE  Loses([q EXCEPT ![c] = t], q)
<1> SUFFICES ASSUME NEW d \in Conns PROVE Part([q EXCEPT ![c] = t][d], q[d])
    BY DEF Loses
<1>1. CASE d = c
    BY <1>1, PartCases
<1>2. CASE d # c
    BY <1>2, PartCases
<1> QED BY <1>1, <1>2

(* No call is invoked twice.                                               *)
LEMMA OnceKeeps ==
    ASSUME TypeOK, OnceInv, Loses(down', down), UNCHANGED <<started, jobs, succeeded>>,
           \A k \in Calls : Unsent(k)' => Unsent(k)
    PROVE  OnceInv'
<1> SUFFICES ASSUME NEW k \in Calls
             PROVE /\ Unsent(k)' => started[k] = 0
                   /\ \A c \in Conns : \A i \in 1..Len(down'[c]) : down'[c][i] = Invoke(k) =>
                       /\ started[k] = 0 /\ ~Unsent(k)'
                       /\ \A d \in Conns : \A j \in 1..Len(down'[d]) : down'[d][j] = Invoke(k) => d = c /\ i = j
    BY DEF OnceInv, Invoke
<1>1. Unsent(k)' => started[k] = 0
    BY DEF OnceInv
<1>2. ASSUME NEW c \in Conns, NEW i \in 1..Len(down'[c]), down'[c][i] = Invoke(k)
      PROVE  /\ started[k] = 0 /\ ~Unsent(k)
             /\ \A d \in Conns : \A j \in 1..Len(down'[d]) : down'[d][j] = Invoke(k) => d = c /\ i = j
  <2>1. PICK m \in Nat : Len(down'[c]) + m <= Len(down[c])
                         /\ \A n \in 1..Len(down'[c]) : down'[c][n] = down[c][n + m]
    BY DEF Loses, Part
  <2>2. i \in Nat /\ i + m \in 1..Len(down[c]) /\ down[c][i + m] = Invoke(k)
    <3>1. Len(down[c]) \in Nat
      BY DEF TypeOK
    <3> QED BY <1>2, <2>1, <3>1
  <2>3. started[k] = 0 /\ ~Unsent(k)
    BY <2>2 DEF OnceInv
  <2>4. ASSUME NEW d \in Conns, NEW j \in 1..Len(down'[d]), down'[d][j] = Invoke(k)
        PROVE  d = c /\ i = j
    <3>1. PICK l \in Nat : Len(down'[d]) + l <= Len(down[d])
                           /\ \A n \in 1..Len(down'[d]) : down'[d][n] = down[d][n + l]
      BY DEF Loses, Part
    <3>2. Len(down[d]) \in Nat
      BY DEF TypeOK
    <3>3. j \in Nat /\ j + l \in 1..Len(down[d]) /\ down[d][j + l] = Invoke(k)
      BY <2>4, <3>1, <3>2
    <3>4. d = c
      BY <2>2, <3>3 DEF OnceInv
    <3>5. j + m \in 1..Len(down[c]) /\ down[c][j + m] = Invoke(k)
      BY <2>1, <2>4, <3>2, <3>4
    <3>6. i + m = j + m
      BY <2>2, <3>5 DEF OnceInv
    <3> QED BY <2>2, <3>3, <3>4, <3>6
  <2> QED BY <2>3, <2>4
<1> QED BY <1>1, <1>2

(* A step of an agent: it takes the invocation from its queue, once.       *)
LEMMA OnceAgent ==
    ASSUME IInv, OnceInv, NEW t \in Terminals, Agent(t)
    PROVE  OnceInv'
<1> USE DEF IInv, TypeOK
<1>1. UNCHANGED <<caller, stage>>
    BY DEF Agent, AgentConnect, AgentHeartbeat, AgentDisconnect, AgentDrop, AgentInvoke, AgentCancel
<1>2. \A k \in Calls : Unsent(k)' <=> Unsent(k)
    BY <1>1 DEF Unsent
<1>3. CASE UNCHANGED down /\ UNCHANGED <<started, jobs, succeeded>>
    BY <1>2, <1>3, OnceKeeps, LosesNothing
<1>4. ASSUME AgentDrop(t) \/ \E k \in Calls : AgentCancel(t, k)
      PROVE  OnceInv'
  <2>1. link[t] \in Conns
    BY <1>4 DEF AgentDrop, AgentCancel, Speaking
  <2>2. Loses(down', down)
    <3>1. PICK x : /\ down' = [down EXCEPT ![link[t]] = x]
                   /\ x = <<>> \/ (down[link[t]] # <<>> /\ x = Tail(down[link[t]]))
      BY <1>4 DEF AgentDrop, AgentCancel
    <3> QED BY <2>1, <3>1, LosesAt
  <2> QED BY <1>2, <1>4, <2>2, OnceKeeps DEF AgentDrop, AgentCancel
<1>5. ASSUME NEW k \in Calls, AgentInvoke(t, k) PROVE OnceInv'
  <2> DEFINE c == link[t]
  <2>1. c \in Conns /\ down[c] # <<>> /\ Len(down[c]) \in Nat \ {0} /\ down[c][1] = Invoke(k)
    BY <1>5 DEF AgentInvoke, Speaking
  <2>2. started[k] = 0 /\ ~Unsent(k) /\ k \notin succeeded
    BY <2>1 DEF OnceInv
  <2>3. /\ started' = [started EXCEPT ![k] = @ + 1] /\ jobs' = [jobs EXCEPT ![k] = c]
        /\ down' = [down EXCEPT ![c] = Tail(@)] /\ succeeded' = succeeded
    BY <1>5 DEF AgentInvoke
  <2> HIDE DEF c
  <2>4. /\ Len(down'[c]) = Len(down[c]) - 1
        /\ \A i \in 1..Len(down'[c]) : down'[c][i] = down[c][i + 1]
    BY <2>1, <2>3, HeadTailProperties
  <2>5. ASSUME NEW d \in Conns, NEW i \in 1..Len(down'[d]) PROVE down'[d][i] # Invoke(k)
    <3>1. CASE d = c
      <4>1. 1 \in 1..Len(down[c]) /\ i + 1 \in 1..Len(down[c]) /\ i + 1 # 1
        BY <2>1, <2>4, <3>1
      <4>2. down'[d][i] = down[c][i + 1]
        BY <2>4, <3>1
      <4>3. ASSUME down[c][i + 1] = Invoke(k) PROVE FALSE
        BY <2>1, <4>1, <4>3 DEF OnceInv
      <4> QED BY <4>2, <4>3
    <3>2. CASE d # c
      <4>1. down'[d] = down[d]
        BY <2>3, <3>2
      <4> QED BY <2>1, <3>2, <4>1 DEF OnceInv
    <3> QED BY <3>1, <3>2
  <2>6. ASSUME NEW j \in Calls, j # k, NEW d \in Conns, NEW i \in 1..Len(down'[d]), down'[d][i] = Invoke(j)
        PROVE  /\ started[j] = 0 /\ ~Unsent(j)
               /\ \A e \in Conns : \A h \in 1..Len(down'[e]) : down'[e][h] = Invoke(j) => e = d /\ i = h
    <3> DEFINE at(e, h) == IF e = c THEN h + 1 ELSE h
    <3>1. ASSUME NEW e \in Conns, NEW h \in 1..Len(down'[e])
          PROVE  at(e, h) \in 1..Len(down[e]) /\ down[e][at(e, h)] = down'[e][h]
      <4>1. CASE e = c
        <5>1. at(e, h) = h + 1 /\ h \in 1..(Len(down[c]) - 1)
          BY <2>4, <4>1
        <5>2. h + 1 \in 1..Len(down[c])
          BY <2>1, <5>1
        <5>3. down'[c][h] = down[c][h + 1]
          BY <2>4, <4>1
        <5> QED BY <4>1, <5>1, <5>2, <5>3
      <4>2. CASE e # c
        BY <2>3, <4>2
      <4> QED BY <4>1, <4>2
    <3>2. at(d, i) \in 1..Len(down[d]) /\ down[d][at(d, i)] = Invoke(j)
      BY <2>6, <3>1
    <3>3. started[j] = 0 /\ ~Unsent(j)
      BY <3>2 DEF OnceInv
    <3>4. ASSUME NEW e \in Conns, NEW h \in 1..Len(down'[e]), down'[e][h] = Invoke(j)
          PROVE  e = d /\ i = h
      <4>1. at(e, h) \in 1..Len(down[e]) /\ down[e][at(e, h)] = Invoke(j)
        BY <3>1, <3>4
      <4>2. e = d /\ at(d, i) = at(e, h)
        BY <3>2, <4>1 DEF OnceInv
      <4> QED BY <4>2
    <3> QED BY <3>3, <3>4
  <2>7. \A j \in Calls : /\ j # k => started'[j] = started[j] /\ jobs'[j] = jobs[j]
                         /\ started'[k] = 1 /\ jobs'[k] = c
    BY <2>2, <2>3
  <2>8. \A j \in Calls : Unsent(j)' <=> Unsent(j)
    BY <1>2
  <2> SUFFICES ASSUME NEW j \in Calls
               PROVE /\ Unsent(j)' => started'[j] = 0
                     /\ started'[j] = 0 => jobs'[j] = NoConn /\ j \notin succeeded'
                     /\ jobs'[j] # NoConn => j \notin succeeded'
                     /\ \A d \in Conns : \A i \in 1..Len(down'[d]) : down'[d][i] = Invoke(j) =>
                         /\ started'[j] = 0 /\ ~Unsent(j)'
                         /\ \A e \in Conns : \A h \in 1..Len(down'[e]) : down'[e][h] = Invoke(j) => e = d /\ i = h
    BY DEF OnceInv, Invoke
  <2>9. CASE j = k
    <3>1. started'[k] = 1 /\ k \notin succeeded' /\ ~Unsent(k)'
      BY <2>2, <2>3, <2>7, <2>8
    <3> QED BY <2>5, <2>9, <3>1
  <2>10. CASE j # k
    BY <2>3, <2>6, <2>7, <2>8, <2>10 DEF OnceInv
  <2> QED BY <2>9, <2>10
<1>6. ASSUME (\E d \in Conns : AgentConnect(t, d)) \/ AgentHeartbeat(t) \/ AgentDisconnect(t)
      PROVE  UNCHANGED down /\ UNCHANGED <<started, jobs, succeeded>>
    BY <1>6 DEF AgentConnect, AgentHeartbeat, AgentDisconnect
<1> QED BY <1>3, <1>4, <1>5, <1>6 DEF Agent

(* A call's tasks: an invocation is sent by one step of one call.          *)
LEMMA OncePush ==
    ASSUME IInv, OnceInv, RegInv, NEW r \in Roles, NEW k \in Calls, SendPush(r, k)
    PROVE  OnceInv'
<1> USE DEF IInv, TypeOK
<1>1. \A j \in Calls : Unsent(j)' => Unsent(j) /\ (r = "caller" => j # k)
  <2>1. \A q \in Roles, j \in Calls : q # r \/ j # k => stage'[q][j] = stage[q][j]
    BY DEF SendPush
  <2>2. caller' = caller /\ stage[r][k] = "push" /\ stage'[r][k] \in {"sent", "mark"}
    BY DEF SendPush
  <2>3. r = "caller" => caller[k] \in {"sending", "cancelling"}
    BY <2>2 DEF CallInv, SendOK
  <2>4. "caller" \in Roles
    BY DEF Roles
  <2>5. ASSUME NEW j \in Calls, Unsent(j)' PROVE Unsent(j) /\ (r = "caller" => j # k)
    <3>1. CASE j = k /\ r = "caller"
      BY <2>2, <2>3, <2>5, <3>1 DEF Unsent
    <3>2. CASE j # k \/ r # "caller"
      BY <2>1, <2>2, <2>4, <2>5, <3>2 DEF Unsent
    <3> QED BY <3>1, <3>2
  <2> QED BY <2>5
<1>2. UNCHANGED <<started, jobs, succeeded>>
    BY DEF SendPush
<1>3. CASE UNCHANGED down
    BY <1>1, <1>2, <1>3, OnceKeeps, LosesNothing
<1>4. CASE down' = [down EXCEPT ![via[r][k]] = Append(@, Message(r, k))]
  <2> DEFINE c == via[r][k]
             m == Message(r, k)
  <2>1. c \in Conns
    BY DEF SendPush, CallInv, SendOK
  <2>2. /\ Len(down'[c]) = Len(down[c]) + 1 /\ down'[c][Len(down[c]) + 1] = m
        /\ \A i \in 1..Len(down[c]) : down'[c][i] = down[c][i]
        /\ \A d \in Conns : d # c => down'[d] = down[d]
    BY <1>4, <2>1
  <2>3. Len(down[c]) \in Nat
    BY <2>1
  <2>4. \A j \in Calls : m = Invoke(j) => j = k /\ r = "caller" /\ Unsent(j)
    BY DEF Message, Invoke, Cancel, Unsent, SendPush
  <2> HIDE DEF c, m, IInv, TypeOK
  <2>5. ASSUME NEW j \in Calls
        PROVE  /\ Unsent(j)' => started[j] = 0
               /\ \A d \in Conns : \A i \in 1..Len(down'[d]) : down'[d][i] = Invoke(j) =>
                    /\ started[j] = 0 /\ ~Unsent(j)'
                    /\ \A e \in Conns : \A h \in 1..Len(down'[e]) : down'[e][h] = Invoke(j) => e = d /\ i = h
    <3>1. ASSUME NEW d \in Conns, NEW i \in 1..Len(down'[d])
          PROVE  \/ d = c /\ i = Len(down[c]) + 1 /\ down'[d][i] = m
                 \/ i \in 1..Len(down[d]) /\ down'[d][i] = down[d][i]
      BY SMTT(30), <2>2, <2>3
    <3>2. CASE m = Invoke(j)
      <4>1. Unsent(j) /\ ~Unsent(j)' /\ started[j] = 0
        BY <1>1, <2>4, <3>2 DEF OnceInv
      <4>2. \A d \in Conns : \A i \in 1..Len(down[d]) : down[d][i] # Invoke(j)
        BY <4>1 DEF OnceInv
      <4>3. \A d \in Conns : \A i \in 1..Len(down'[d]) :
               down'[d][i] = Invoke(j) => d = c /\ i = Len(down[c]) + 1
        BY <3>1, <4>2
      <4> QED BY <4>1, <4>3
    <3>3. CASE m # Invoke(j)
      <4>1. \A d \in Conns : \A i \in 1..Len(down'[d]) :
               down'[d][i] = Invoke(j) => i \in 1..Len(down[d]) /\ down[d][i] = Invoke(j)
        BY <3>1, <3>3
      <4>2. /\ Unsent(j) => started[j] = 0
            /\ \A d \in Conns : \A i \in 1..Len(down[d]) : down[d][i] = Invoke(j) =>
                 /\ started[j] = 0 /\ ~Unsent(j)
                 /\ \A e \in Conns : \A h \in 1..Len(down[e]) : down[e][h] = Invoke(j) => e = d /\ i = h
        BY DEF OnceInv
      <4>3. Unsent(j)' => Unsent(j)
        BY <1>1
      <4> QED BY <4>1, <4>2, <4>3
    <3> QED BY <3>2, <3>3
  <2> QED BY <1>2, <2>5 DEF OnceInv, Invoke
<1> QED BY <1>3, <1>4 DEF SendPush

(* A call and its cancellation keep OnceInv.                               *)
LEMMA OnceCalls ==
    ASSUME IInv, OnceInv, RegInv, NEW k \in Calls, Caller(k) \/ Canceller(k)
    PROVE  OnceInv'
<1> USE DEF IInv, TypeOK
<1>1. ASSUME NEW r \in Roles, SendPush(r, k) PROVE OnceInv'
    BY <1>1, OncePush
<1>2. ASSUME UNCHANGED <<down, started, jobs, succeeded>>, \A j \in Calls : Unsent(j)' => Unsent(j)
      PROVE  OnceInv'
    BY <1>2, OnceKeeps, LosesNothing
<1>3. CASE Caller(k)
  <2>1. CASE SendPush("caller", k)
    BY <1>1, <2>1 DEF Roles
  <2>2. CASE ~SendPush("caller", k)
    <3>1. UNCHANGED <<down, started, jobs, succeeded>>
      BY <1>3, <2>2 DEF Caller, Progress, Send, CheckTerminal, SendLookup, SendMark, InsertPending,
                 SendEnds, TakeAnswer, TimerFires, RemoveExpired, CancelSent, Abandon
    <3>2. Unsent(k)' => Unsent(k)
      BY <1>3, <2>2 DEF Caller, Progress, Send, CheckTerminal, SendLookup, SendMark, InsertPending,
                 SendEnds, TakeAnswer, TimerFires, RemoveExpired, CancelSent, Abandon,
                 Unsent, Begin, Reset, SendOver, Roles
    <3>3. \A j \in Calls : j # k => (Unsent(j)' <=> Unsent(j))
      BY <1>3, <2>2 DEF Caller, Progress, Send, CheckTerminal, SendLookup, SendMark, InsertPending,
                 SendEnds, TakeAnswer, TimerFires, RemoveExpired, CancelSent, Abandon,
                 Unsent, Begin, Reset, Roles
    <3> QED BY <1>2, <3>1, <3>2, <3>3
  <2> QED BY <2>1, <2>2
<1>4. CASE Canceller(k)
  <2>1. CASE SendPush("canceller", k)
    BY <1>1, <2>1 DEF Roles
  <2>2. CASE ~SendPush("canceller", k)
    <3>1. UNCHANGED <<down, started, jobs, succeeded>>
      BY <1>4, <2>2 DEF Canceller, Send, SendLookup, SendMark, CancelTake, CancelAnswer, CancelAbandoned
    <3>2. \A j \in Calls : Unsent(j)' <=> Unsent(j)
      BY <1>4, <2>2 DEF Canceller, Send, SendLookup, SendMark, CancelTake, CancelAnswer, CancelAbandoned,
                 Unsent, Begin, Reset, Roles
    <3> QED BY <1>2, <3>1, <3>2
  <2> QED BY <2>1, <2>2
<1> QED BY <1>3, <1>4

(* The other steps leave the invocations alone, or lose some of them.      *)
LEMMA OnceOthers ==
    ASSUME IInv, OnceInv,
           \/ \E t \in Terminals : HeartbeatLapses(t) \/ NotifySwept(t) \/ RemoveTerminal(t)
           \/ \E c \in Conns : Server(c)
           \/ \E k \in Calls, o \in {"ok", "failed"} : AgentFinish(k, o)
           \/ Sweep
           \/ UNCHANGED vars
    PROVE  OnceInv'
<1> USE DEF IInv, TypeOK
<1>1. UNCHANGED <<caller, stage>>
  <2>1. ASSUME NEW t \in Terminals, HeartbeatLapses(t) \/ NotifySwept(t) \/ RemoveTerminal(t)
        PROVE  UNCHANGED <<caller, stage>>
    BY <2>1 DEF HeartbeatLapses, NotifySwept, RemoveTerminal
  <2>2. ASSUME NEW c \in Conns, Server(c) PROVE UNCHANGED <<caller, stage>>
    <3>1. CASE RefuseHandshake(c) \/ AllocateSession(c) \/ StoreSession(c) \/ SendAck(c) \/ FailAck(c)
               \/ ReadHeartbeat(c) \/ ReadDisconnect(c) \/ NotifyDisconnect(c)
      BY <3>1 DEF RefuseHandshake, AllocateSession, StoreSession, SendAck, FailAck, ReadHeartbeat,
                  ReadDisconnect, NotifyDisconnect
    <3>2. CASE (\E k \in Calls, o \in {"ok", "failed"} : ReadResult(c, k, o)) \/ EndReadLoop(c)
               \/ CleanupStatus(c) \/ CleanupCalls(c) \/ CleanupForwarder(c) \/ ForwarderFails(c)
      BY <3>2 DEF ReadResult, EndReadLoop, CleanupStatus, CleanupCalls, CleanupForwarder, ForwarderFails
    <3> QED BY <2>2, <3>1, <3>2 DEF Server
  <2>3. ASSUME NEW k \in Calls, NEW o \in {"ok", "failed"}, AgentFinish(k, o)
        PROVE  UNCHANGED <<caller, stage>>
    BY <2>3 DEF AgentFinish
  <2>4. CASE Sweep \/ UNCHANGED vars
    BY <2>4 DEF Sweep, vars
  <2> QED BY <2>1, <2>2, <2>3, <2>4
<1>2. \A k \in Calls : Unsent(k)' <=> Unsent(k)
    BY <1>1 DEF Unsent
<1>3. ASSUME NEW c \in Conns, Server(c) PROVE OnceInv'
  <2>1. UNCHANGED <<started, jobs, succeeded>>
    BY <1>3 DEF Server, RefuseHandshake, AllocateSession, StoreSession, SendAck, FailAck, ReadHeartbeat,
           ReadDisconnect, NotifyDisconnect, ReadResult, EndReadLoop, CleanupStatus,
           CleanupCalls, CleanupForwarder, ForwarderFails
  <2>2. CASE CleanupForwarder(c)
    <3>1. Loses(down', down)
      <4>1. PICK n \in 0..Len(down[c]) : down' = [down EXCEPT ![c] = SubSeq(down[c], 1, n)]
        BY <2>2 DEF CleanupForwarder
      <4> QED BY <4>1, LosesAt
    <3> QED BY <1>2, <2>1, <3>1, OnceKeeps
  <2>3. CASE ~CleanupForwarder(c)
    <3>1. UNCHANGED down
      BY <1>3, <2>3 DEF Server, RefuseHandshake, AllocateSession, StoreSession, SendAck, FailAck, ReadHeartbeat,
           ReadDisconnect, NotifyDisconnect, ReadResult, EndReadLoop, CleanupStatus,
           CleanupCalls, ForwarderFails
    <3> QED BY <1>2, <2>1, <3>1, OnceKeeps, LosesNothing
  <2> QED BY <2>2, <2>3
<1>4. ASSUME NEW k \in Calls, NEW o \in {"ok", "failed"}, AgentFinish(k, o) PROVE OnceInv'
    BY <1>2, <1>4 DEF AgentFinish, OnceInv, Invoke
<1>5. ASSUME \/ \E t \in Terminals : HeartbeatLapses(t) \/ NotifySwept(t) \/ RemoveTerminal(t)
             \/ Sweep \/ UNCHANGED vars
      PROVE  OnceInv'
  <2>1. UNCHANGED <<down, started, jobs, succeeded>>
    BY <1>5 DEF HeartbeatLapses, NotifySwept, RemoveTerminal, Sweep, vars
  <2> QED BY <1>2, <2>1, OnceKeeps, LosesNothing
<1> QED BY <1>3, <1>4, <1>5

(* The two steps that a tool has, and nothing else touches it.             *)
LEMMA ToolFrame ==
    ASSUME [Next]_vars
    PROVE  \/ UNCHANGED <<started, jobs, succeeded>>
           \/ \E t \in Terminals, k \in Calls : AgentInvoke(t, k)
           \/ \E k \in Calls, o \in {"ok", "failed"} : AgentFinish(k, o)
<1>1. ASSUME NEW c \in Conns, Server(c) PROVE UNCHANGED <<started, jobs, succeeded>>
    BY <1>1 DEF Server, RefuseHandshake, AllocateSession, StoreSession, SendAck, FailAck,
           ReadHeartbeat, ReadDisconnect, NotifyDisconnect, ReadResult, EndReadLoop, CleanupStatus,
           CleanupCalls, CleanupForwarder, ForwarderFails
<1>2. ASSUME NEW k \in Calls, Caller(k) \/ Canceller(k) PROVE UNCHANGED <<started, jobs, succeeded>>
    BY <1>2 DEF Caller, Progress, Send, Canceller, CheckTerminal, SendLookup, SendPush, SendMark,
                InsertPending, SendEnds, TakeAnswer, TimerFires, RemoveExpired, CancelSent,
                Abandon, CancelTake, CancelAnswer, CancelAbandoned
<1>3. ASSUME NEW t \in Terminals, Agent(t), \A k \in Calls : ~AgentInvoke(t, k)
      PROVE  UNCHANGED <<started, jobs, succeeded>>
    BY <1>3 DEF Agent, AgentConnect, AgentHeartbeat, AgentDisconnect, AgentDrop, AgentCancel
<1>4. ASSUME \/ \E t \in Terminals : HeartbeatLapses(t) \/ NotifySwept(t) \/ RemoveTerminal(t)
             \/ Sweep \/ UNCHANGED vars
      PROVE  UNCHANGED <<started, jobs, succeeded>>
    BY <1>4 DEF HeartbeatLapses, NotifySwept, RemoveTerminal, Sweep, vars
<1> QED BY <1>1, <1>2, <1>3, <1>4 DEF Next

(* A tool is started only if it never was.                                 *)
LEMMA FirstStart ==
    ASSUME IInv, OnceInv, NEW t \in Terminals, NEW k \in Calls, AgentInvoke(t, k)
    PROVE  /\ started[k] = 0 /\ ~Unsent(k)
           /\ started' = [started EXCEPT ![k] = 1]
           /\ link[t] # NoConn /\ jobs' = [jobs EXCEPT ![k] = link[t]]
           /\ UNCHANGED <<succeeded, caller, outcome, slot, up>>
<1> USE DEF IInv, TypeOK
<1>1. link[t] \in Conns /\ down[link[t]] # <<>> /\ Head(down[link[t]]) = Invoke(k)
    BY DEF AgentInvoke, Speaking
<1>2. 1 \in 1..Len(down[link[t]]) /\ down[link[t]][1] = Invoke(k)
    BY <1>1
<1>3. started[k] = 0 /\ ~Unsent(k)
    BY <1>1, <1>2 DEF OnceInv
<1> QED BY <1>1, <1>3 DEF AgentInvoke, Speaking

(* What a tool has ended with stays.                                       *)
LEMMA EndedStays ==
    ASSUME IInv, OnceInv, [Next]_vars, NEW k \in Calls, NEW o, Ended(k, o)
    PROVE  Ended(k, o)'
<1> USE DEF IInv, TypeOK
<1>1. CASE UNCHANGED <<started, jobs, succeeded>>
    BY <1>1 DEF Ended
<1>2. ASSUME NEW t \in Terminals, NEW j \in Calls, AgentInvoke(t, j) PROVE Ended(k, o)'
  <2>1. j # k
    BY <1>2, FirstStart DEF Ended
  <2> QED BY <1>2, <2>1, FirstStart DEF Ended
<1>3. ASSUME NEW j \in Calls, NEW p \in {"ok", "failed"}, AgentFinish(j, p) PROVE Ended(k, o)'
    BY <1>3 DEF AgentFinish, Ended
<1> QED BY <1>1, <1>2, <1>3, ToolFrame

(* A result in flight was in flight before, or is that of a tool that ends.*)
LEMMA ResultsKnown ==
    ASSUME IInv, OnceInv, [Next]_vars, NEW c \in Conns, NEW i \in 1..Len(up'[c]),
           NEW k \in Calls, NEW o \in {"ok", "failed"}, up'[c][i] = Result(k, o)
    PROVE  \/ \E j \in 1..Len(up[c]) : up[c][j] = Result(k, o)
           \/ AgentFinish(k, o)
<1> USE DEF IInv, TypeOK
<1>1. ASSUME Loses(up', up) PROVE \E j \in 1..Len(up[c]) : up[c][j] = Result(k, o)
  <2>1. PICK m \in Nat : Len(up'[c]) + m <= Len(up[c]) /\ \A n \in 1..Len(up'[c]) : up'[c][n] = up[c][n + m]
    BY <1>1 DEF Loses, Part
  <2>2. Len(up[c]) \in Nat
    OBVIOUS
  <2>3. i + m \in 1..Len(up[c]) /\ up[c][i + m] = Result(k, o)
    BY <2>1, <2>2
  <2> QED BY <2>3
<1>2. ASSUME UNCHANGED up PROVE Loses(up', up)
    BY <1>2, LosesNothing
<1>3. ASSUME NEW d \in Conns, NEW m, m # Result(k, o), up' = [up EXCEPT ![d] = Append(@, m)]
      PROVE  \E j \in 1..Len(up[c]) : up[c][j] = Result(k, o)
  <2>1. Len(up[c]) \in Nat
    OBVIOUS
  <2>2. CASE d = c
    <3>1. up'[c] = Append(up[c], m)
      BY <1>3, <2>2
    <3>2. /\ Len(up'[c]) = Len(up[c]) + 1 /\ up'[c][Len(up[c]) + 1] = m
          /\ \A j \in 1..Len(up[c]) : up'[c][j] = up[c][j]
      BY <3>1
    <3>3. i \in 1..Len(up[c])
      BY <1>3, <2>1, <3>2
    <3> QED BY <3>2, <3>3
  <2>3. CASE d # c
    <3>1. up'[c] = up[c]
      BY <1>3, <2>3
    <3> QED BY <3>1
  <2> QED BY <2>2, <2>3
<1>4. ASSUME NEW t \in Terminals, Agent(t) PROVE \E j \in 1..Len(up[c]) : up[c][j] = Result(k, o)
  <2>1. CASE AgentHeartbeat(t) \/ AgentDisconnect(t)
    <3>1. Heartbeat # Result(k, o) /\ Disconnect # Result(k, o)
      BY DEF Heartbeat, Disconnect, Result
    <3>2. link[t] \in Conns
      BY <2>1 DEF AgentHeartbeat, AgentDisconnect, Speaking
    <3> QED BY <1>1, <1>2, <1>3, <2>1, <3>1, <3>2 DEF AgentHeartbeat, AgentDisconnect
  <2>2. CASE AgentDrop(t)
    <3>1. PICK n \in 0..Len(up[link[t]]) : up' = [up EXCEPT ![link[t]] = SubSeq(@, 1, n)]
      BY <2>2 DEF AgentDrop
    <3>2. link[t] \in Conns
      BY <2>2 DEF AgentDrop
    <3>3. Loses(up', up)
      BY <3>1, <3>2, LosesAt
    <3> QED BY <1>1, <3>3
  <2>3. CASE UNCHANGED up
    BY <1>1, <1>2, <2>3
  <2> QED BY <1>4, <2>1, <2>2, <2>3 DEF Agent, AgentConnect, AgentInvoke, AgentCancel
<1>5. ASSUME NEW d \in Conns, Server(d) PROVE \E j \in 1..Len(up[c]) : up[c][j] = Result(k, o)
  <2>1. CASE UNCHANGED up
    BY <1>1, <1>2, <2>1
  <2>2. ASSUME NEW x, x = <<>> \/ (up[d] # <<>> /\ x = Tail(up[d])), up' = [up EXCEPT ![d] = x]
        PROVE  \E j \in 1..Len(up[c]) : up[c][j] = Result(k, o)
    <3>1. Loses(up', up)
      BY <2>2, LosesAt
    <3> QED BY <1>1, <3>1
  <2>3. \/ UNCHANGED up \/ up' = [up EXCEPT ![d] = <<>>]
        \/ up[d] # <<>> /\ up' = [up EXCEPT ![d] = Tail(up[d])]
    BY <1>5 DEF Server, RefuseHandshake, AllocateSession, StoreSession, SendAck, FailAck,
           ReadHeartbeat, ReadDisconnect, NotifyDisconnect, ReadResult, EndReadLoop, CleanupStatus,
           CleanupCalls, CleanupForwarder, ForwarderFails
  <2> QED BY <2>1, <2>2, <2>3
<1>6. ASSUME NEW j \in Calls, NEW p \in {"ok", "failed"}, AgentFinish(j, p)
      PROVE  \/ \E n \in 1..Len(up[c]) : up[c][n] = Result(k, o)
             \/ AgentFinish(k, o)
  <2>1. CASE Result(j, p) = Result(k, o)
    <3>1. j = k /\ p = o
      BY <2>1 DEF Result
    <3> QED BY <1>6, <3>1
  <2>2. CASE Result(j, p) # Result(k, o)
    <3>1. jobs[j] \in Conns
      BY <1>6 DEF AgentFinish
    <3>2. UNCHANGED up \/ up' = [up EXCEPT ![jobs[j]] = Append(@, Result(j, p))]
      BY <1>6 DEF AgentFinish
    <3> QED BY <1>1, <1>2, <1>3, <2>2, <3>1, <3>2
  <2> QED BY <2>1, <2>2
<1>7. ASSUME NEW j \in Calls, Caller(j) \/ Canceller(j) PROVE UNCHANGED up
    BY <1>7 DEF Caller, Progress, Send, Canceller, CheckTerminal, SendLookup, SendPush, SendMark,
                InsertPending, SendEnds, TakeAnswer, TimerFires, RemoveExpired, CancelSent,
                Abandon, CancelTake, CancelAnswer, CancelAbandoned
<1>8. ASSUME \/ \E t \in Terminals : HeartbeatLapses(t) \/ NotifySwept(t) \/ RemoveTerminal(t)
             \/ Sweep \/ UNCHANGED vars
      PROVE  UNCHANGED up
    BY <1>8 DEF HeartbeatLapses, NotifySwept, RemoveTerminal, Sweep, vars
<1> QED BY <1>1, <1>2, <1>4, <1>5, <1>6, <1>7, <1>8 DEF Next

(* A channel is given a tool's result by the arrival of this result only.  *)
LEMMA SlotsKnown ==
    ASSUME IInv, [Next]_vars, NEW k \in Calls, NEW o \in {"ok", "failed"}, slot'[k] = o
    PROVE  slot[k] = o \/ \E c \in Conns : \E i \in 1..Len(up[c]) : up[c][i] = Result(k, o)
<1> USE DEF IInv, TypeOK
<1>1. ASSUME NEW c \in Conns, NEW j \in Calls, NEW p \in {"ok", "failed"}, ReadResult(c, j, p)
      PROVE  slot'[k] = slot[k] \/ \E i \in 1..Len(up[c]) : up[c][i] = Result(k, o)
  <2>1. 1 \in 1..Len(up[c]) /\ up[c][1] = Result(j, p)
    BY <1>1 DEF ReadResult
  <2>2. slot' = slot \/ slot' = [slot EXCEPT ![j] = p]
    BY <1>1 DEF ReadResult
  <2> QED BY <2>1, <2>2
<1>2. ASSUME NEW t \in Terminals, AbortPending(t) PROVE slot'[k] = slot[k]
    BY <1>2 DEF AbortPending
<1>3. ASSUME NEW c \in Conns, Server(c) PROVE
            \/ slot'[k] = slot[k]
            \/ \E j \in Calls, p \in {"ok", "failed"} : ReadResult(c, j, p)
  <2>1. CASE NotifyDisconnect(c) \/ CleanupCalls(c)
    BY <1>2, <2>1 DEF NotifyDisconnect, CleanupCalls, ConnInv
  <2> QED BY <1>3, <2>1 DEF Server, RefuseHandshake, AllocateSession, StoreSession, SendAck, FailAck,
           ReadHeartbeat, ReadDisconnect, EndReadLoop, CleanupStatus, CleanupForwarder, ForwarderFails
<1>4. ASSUME NEW j \in Calls, Caller(j) \/ Canceller(j) PROVE slot'[k] = slot[k]
    BY <1>4 DEF Caller, Progress, Send, Canceller, CheckTerminal, SendLookup, SendPush, SendMark,
                InsertPending, SendEnds, TakeAnswer, TimerFires, RemoveExpired, CancelSent,
                Abandon, CancelTake, CancelAnswer, CancelAbandoned
<1>5. ASSUME NEW t \in Terminals, Agent(t) \/ HeartbeatLapses(t) \/ NotifySwept(t) \/ RemoveTerminal(t)
      PROVE  slot'[k] = slot[k]
    BY <1>2, <1>5 DEF Agent, AgentConnect, AgentHeartbeat, AgentDisconnect, AgentDrop, AgentInvoke,
                AgentCancel, HeartbeatLapses, NotifySwept, RemoveTerminal
<1>6. ASSUME Sweep \/ UNCHANGED vars \/ \E j \in Calls, p \in {"ok", "failed"} : AgentFinish(j, p)
      PROVE  slot'[k] = slot[k]
    BY <1>6 DEF Sweep, vars, AgentFinish
<1>7. \/ slot'[k] = slot[k]
      \/ \E c \in Conns, j \in Calls, p \in {"ok", "failed"} : ReadResult(c, j, p)
    BY <1>3, <1>4, <1>5, <1>6 DEF Next
<1> QED BY <1>1, <1>7

(* So an answer is always that of the tool.                                *)
LEMMA AnswerStep == IInv /\ OnceInv /\ AnswerInv /\ [Next]_vars => AnswerInv'
<1> SUFFICES ASSUME IInv, OnceInv, AnswerInv, [Next]_vars, NEW k \in Calls, NEW o \in {"ok", "failed"}
             PROVE  /\ slot'[k] = o => Ended(k, o)'
                    /\ \A c \in Conns : \A i \in 1..Len(up'[c]) : up'[c][i] = Result(k, o) => Ended(k, o)'
    BY DEF AnswerInv, Result
<1>1. ASSUME slot'[k] = o PROVE Ended(k, o)'
    BY <1>1, SlotsKnown, EndedStays DEF AnswerInv
<1>2. ASSUME NEW c \in Conns, NEW i \in 1..Len(up'[c]), up'[c][i] = Result(k, o) PROVE Ended(k, o)'
  <2>1. CASE AgentFinish(k, o)
    <3>1. jobs[k] # NoConn /\ k \notin succeeded /\ started[k] # 0 /\ started[k] \in Nat
      BY <2>1 DEF AgentFinish, OnceInv, IInv, TypeOK
    <3> QED BY <2>1, <3>1 DEF AgentFinish, Ended, IInv, TypeOK
  <2>2. CASE \E j \in 1..Len(up[c]) : up[c][j] = Result(k, o)
    BY <2>2, EndedStays DEF AnswerInv
  <2> QED BY <1>2, <2>1, <2>2, ResultsKnown
<1> QED BY <1>1, <1>2

(* Nothing was invoked at first.                                           *)
LEMMA InitCalls == Init => OnceInv /\ AnswerInv
<1> SUFFICES ASSUME Init PROVE OnceInv /\ AnswerInv
    OBVIOUS
<1>1. OnceInv
    BY DEF Init, OnceInv, Unsent
<1>2. AnswerInv
    BY DEF Init, AnswerInv, Ended
<1> QED BY <1>1, <1>2

CallsInv == IInv /\ RegInv /\ OnceInv /\ AnswerInv

(* OnceInv is inductive, given IInv and RegInv.                            *)
LEMMA OnceStep == IInv /\ RegInv /\ OnceInv /\ [Next]_vars => OnceInv'
BY OnceAgent, OnceCalls, OnceOthers DEF Next

(* The invariants of the calls hold of every behaviour.                    *)
LEMMA CallsHold == Spec => []CallsInv
<1>1. Init => CallsInv
    BY InitIInv, InitRegInv, InitCalls DEF CallsInv
<1>2. CallsInv /\ [Next]_vars => CallsInv'
    BY StepIInv, RegStep, OnceStep, AnswerStep DEF CallsInv
<1> QED BY <1>1, <1>2, PTL DEF Spec

-----------------------------------------------------------------------------
(* The refinement of ToolCalls.                                            *)
CallOf(k) == IF caller[k] \in {"idle", "returned", "abandoned"} THEN caller[k] ELSE "open"
ToolOf(k) == IF started[k] = 0 THEN "none"
             ELSE IF jobs[k] # NoConn THEN "running"
             ELSE IF k \in succeeded THEN "ok" ELSE "failed"
callMap == [k \in Calls |-> CallOf(k)]
toolMap == [k \in Calls |-> CASE started[k] = 0 -> "none"
                              [] started[k] > 0 /\ jobs[k] # NoConn -> "running"
                              [] started[k] > 0 /\ jobs[k] = NoConn ->
                                   IF k \in succeeded THEN "ok" ELSE "failed"]

(* The value that stands for the abstract module's tools, call by call.    *)
LEMMA ToolMap ==
    /\ started \in [Calls -> Nat] => toolMap = [k \in Calls |-> ToolOf(k)]
    /\ started' \in [Calls -> Nat] => toolMap' = [k \in Calls |-> ToolOf(k)']
<1>1. ASSUME started \in [Calls -> Nat] PROVE toolMap = [k \in Calls |-> ToolOf(k)]
  <2>1. \A k \in Calls : started[k] # 0 <=> started[k] > 0
    BY <1>1
  <2> QED BY <2>1 DEF toolMap, ToolOf
<1>2. ASSUME started' \in [Calls -> Nat] PROVE toolMap' = [k \in Calls |-> ToolOf(k)']
  <2>1. \A k \in Calls : started'[k] # 0 <=> started'[k] > 0
    BY <1>2
  <2> QED BY <2>1 DEF toolMap, ToolOf
<1> QED BY <1>1, <1>2

(* The initial states are initial states of ToolCalls.                     *)
LEMMA AnsweredInit == Init => Answered!Init
BY DEF Init, Answered!Init

(* The steps of ToolCalls, in terms of the two maps.                       *)
LEMMA AnsweredActions ==
    ASSUME NEW k \in Calls
    PROVE  /\ /\ callMap[k] = "idle" /\ callMap' = [callMap EXCEPT ![k] = "open"]
              /\ UNCHANGED <<toolMap, outcome>>
              => Answered!Ask(k)
           /\ /\ callMap[k] # "idle" /\ toolMap[k] = "none"
              /\ toolMap' = [toolMap EXCEPT ![k] = "running"]
              /\ UNCHANGED <<callMap, outcome>>
              => Answered!Start(k)
           /\ \A o : /\ toolMap[k] = "running" /\ toolMap' = [toolMap EXCEPT ![k] = o]
                     /\ UNCHANGED <<callMap, outcome>>
                     => Answered!End(k, o)
           /\ \A o : /\ callMap[k] \in {"idle", "open"}
                     /\ o \in Outcomes \ {"ok", "failed"} \/ toolMap[k] = o
                     /\ callMap' = [callMap EXCEPT ![k] = "returned"]
                     /\ outcome' = [outcome EXCEPT ![k] = o]
                     /\ UNCHANGED toolMap
                     => Answered!Return(k, o)
           /\ /\ callMap[k] = "open" /\ callMap' = [callMap EXCEPT ![k] = "abandoned"]
              /\ UNCHANGED <<toolMap, outcome>>
              => Answered!Abandon(k)
<1> USE DEF callMap, toolMap, CallOf
<1>1. /\ callMap[k] = "idle" /\ callMap' = [callMap EXCEPT ![k] = "open"]
      /\ UNCHANGED <<toolMap, outcome>>
      => Answered!Ask(k)
    BY DEF Answered!Ask
<1>2. /\ callMap[k] # "idle" /\ toolMap[k] = "none"
      /\ toolMap' = [toolMap EXCEPT ![k] = "running"]
      /\ UNCHANGED <<callMap, outcome>>
      => Answered!Start(k)
    BY DEF Answered!Start
<1>3. ASSUME NEW o
      PROVE /\ toolMap[k] = "running" /\ toolMap' = [toolMap EXCEPT ![k] = o]
            /\ UNCHANGED <<callMap, outcome>>
            => Answered!End(k, o)
    BY DEF Answered!End
<1>4. ASSUME NEW o
      PROVE /\ callMap[k] \in {"idle", "open"}
            /\ o \in Outcomes \ {"ok", "failed"} \/ toolMap[k] = o
            /\ callMap' = [callMap EXCEPT ![k] = "returned"]
            /\ outcome' = [outcome EXCEPT ![k] = o]
            /\ UNCHANGED toolMap
            => Answered!Return(k, o)
    BY DEF Answered!Return
<1>5. /\ callMap[k] = "open" /\ callMap' = [callMap EXCEPT ![k] = "abandoned"]
      /\ UNCHANGED <<toolMap, outcome>>
      => Answered!Abandon(k)
    BY DEF Answered!Abandon
<1> HIDE DEF callMap, toolMap, CallOf
<1> QED BY <1>1, <1>2, <1>3, <1>4, <1>5

(* A step of the gateway is a step of ToolCalls, or none.                  *)
LEMMA AnsweredStep == CallsInv /\ [Next]_vars => [Answered!Next]_Answered!vars
<1> SUFFICES ASSUME CallsInv, [Next]_vars
             PROVE  \/ \E k \in Calls :
                         \/ Answered!Ask(k) \/ Answered!Start(k) \/ Answered!Abandon(k)
                         \/ \E o \in {"ok", "failed"} : Answered!End(k, o)
                         \/ \E o \in {"ok", "failed"} \cup (Outcomes \ {"ok", "failed"}) : Answered!Return(k, o)
                    \/ UNCHANGED <<callMap, toolMap, outcome>>
    BY DEF Answered!Next, Answered!vars, callMap, toolMap, CallOf
<1> USE DEF CallsInv, IInv, TypeOK
<1>0. TypeOK'
    BY TypeStep
<1>1. toolMap = [k \in Calls |-> ToolOf(k)] /\ toolMap' = [k \in Calls |-> ToolOf(k)']
    BY <1>0, ToolMap
<1>2. ASSUME UNCHANGED <<started, jobs, succeeded>> PROVE UNCHANGED toolMap
    BY <1>1, <1>2 DEF ToolOf
<1>3. ASSUME UNCHANGED caller PROVE UNCHANGED callMap
    BY <1>3 DEF callMap, CallOf
<1>4. ASSUME NEW t \in Terminals, NEW k \in Calls, AgentInvoke(t, k) PROVE Answered!Start(k)
  <2>1. /\ started[k] = 0 /\ ~Unsent(k) /\ link[t] # NoConn
        /\ started' = [started EXCEPT ![k] = 1] /\ jobs' = [jobs EXCEPT ![k] = link[t]]
        /\ UNCHANGED <<succeeded, caller, outcome>>
    BY <1>4, FirstStart
  <2>2. callMap[k] # "idle" /\ toolMap[k] = "none"
    BY <1>1, <2>1 DEF callMap, CallOf, ToolOf, Unsent
  <2>3. ToolOf(k)' = "running" /\ \A j \in Calls : j # k => ToolOf(j)' = ToolOf(j)
    BY <2>1 DEF ToolOf
  <2>4. toolMap' = [toolMap EXCEPT ![k] = "running"]
    BY <1>1, <2>3
  <2> QED BY <1>3, <2>1, <2>2, <2>4, AnsweredActions
<1>5. ASSUME NEW k \in Calls, NEW o \in {"ok", "failed"}, AgentFinish(k, o) PROVE Answered!End(k, o)
  <2>1. /\ jobs[k] # NoConn /\ started[k] # 0 /\ k \notin succeeded
        /\ jobs' = [jobs EXCEPT ![k] = NoConn]
        /\ succeeded' = IF o = "ok" THEN succeeded \cup {k} ELSE succeeded
        /\ UNCHANGED <<started, caller, outcome>>
    BY <1>5 DEF AgentFinish, OnceInv
  <2>2. toolMap[k] = "running"
    BY <1>1, <2>1 DEF ToolOf
  <2>3. ToolOf(k)' = o /\ \A j \in Calls : j # k => ToolOf(j)' = ToolOf(j)
    BY <2>1 DEF ToolOf
  <2>4. toolMap' = [toolMap EXCEPT ![k] = o]
    BY <1>1, <2>3
  <2> QED BY <1>3, <2>1, <2>2, <2>4, AnsweredActions
<1>6. ASSUME NEW k \in Calls, NEW pc, caller' = [caller EXCEPT ![k] = pc]
      PROVE  callMap' = [callMap EXCEPT ![k] =
                 IF pc \in {"idle", "returned", "abandoned"} THEN pc ELSE "open"]
    BY <1>6 DEF callMap, CallOf
<1>7. ASSUME NEW k \in Calls, Caller(k)
      PROVE  \/ Answered!Ask(k) \/ Answered!Abandon(k)
             \/ \E o \in {"ok", "failed"} \cup (Outcomes \ {"ok", "failed"}) : Answered!Return(k, o)
             \/ UNCHANGED <<callMap, toolMap, outcome>>
  <2>0. UNCHANGED toolMap
    <3>1. UNCHANGED <<started, jobs, succeeded>>
      BY <1>7 DEF Caller, Progress, Send, CheckTerminal, SendLookup, SendPush, SendMark,
                InsertPending, SendEnds, TakeAnswer, TimerFires, RemoveExpired, CancelSent, Abandon
    <3> QED BY <1>2, <3>1
  <2>1. ASSUME NEW o \in Outcomes \ {"ok", "failed"}, caller[k] \notin {"returned", "abandoned"},
               Return(k, o)
        PROVE  Answered!Return(k, o)
    <3>1. callMap[k] \in {"idle", "open"}
      BY <2>1 DEF callMap, CallOf
    <3>2. callMap' = [callMap EXCEPT ![k] = "returned"]
      BY <1>6, <2>1
    <3> QED BY <2>0, <2>1, <3>1, <3>2, AnsweredActions
  <2>2. ASSUME NEW pc \in {"checked", "sending", "waiting", "expired", "cancelling"},
               CallOf(k) = "open", Goto(k, pc), UNCHANGED outcome
        PROVE  UNCHANGED <<callMap, toolMap, outcome>>
    <3>1. callMap' = [callMap EXCEPT ![k] = "open"]
      BY <1>6, <2>2
    <3>2. callMap[k] = "open"
      BY <2>2 DEF callMap
    <3> QED BY <2>0, <2>2, <3>1, <3>2 DEF callMap
  <2>3. ASSUME NEW t \in Terminals, CheckTerminal(k, t)
        PROVE  Answered!Ask(k) \/ Answered!Return(k, "offline")
    <3>1. CASE sessions[t].status = "Online"
      <4>1. Goto(k, "checked") /\ UNCHANGED outcome /\ caller[k] = "idle"
        BY <2>3, <3>1 DEF CheckTerminal
      <4>2. callMap[k] = "idle"
        BY <4>1 DEF callMap, CallOf
      <4>3. caller' = [caller EXCEPT ![k] = "checked"]
        BY <4>1
      <4>4. callMap' = [callMap EXCEPT ![k] = "open"]
        BY <4>3 DEF callMap, CallOf
      <4> QED BY <2>0, <4>1, <4>2, <4>4, AnsweredActions
    <3>2. CASE sessions[t].status # "Online"
      BY <2>1, <2>3, <3>2 DEF CheckTerminal, Outcomes
    <3> QED BY <3>1, <3>2
  <2>4. CASE Send("caller", k)
    BY <1>3, <2>0, <2>4 DEF Send, SendLookup, SendPush, SendMark
  <2>5. CASE InsertPending(k)
    BY <2>2, <2>5 DEF InsertPending, CallOf
  <2>6. CASE SendEnds(k)
    <3>1. CASE stage["caller"][k] = "sent"
      BY <2>2, <2>6, <3>1 DEF SendEnds, CallOf
    <3>2. CASE stage["caller"][k] # "sent"
      BY <2>1, <2>6, <3>2 DEF SendEnds, Outcomes
    <3> QED BY <3>1, <3>2
  <2>7. CASE TakeAnswer(k)
    <3>1. slot[k] \in Outcomes /\ caller[k] = "waiting" /\ Return(k, slot[k])
      BY <2>7 DEF TakeAnswer
    <3>2. ASSUME NEW o \in {"ok", "failed"}, slot[k] = o PROVE Answered!Return(k, o)
      <4>1. toolMap[k] = o
        BY <1>1, <3>2 DEF AnswerInv, Ended, ToolOf
      <4>2. callMap[k] = "open"
        BY <3>1 DEF callMap, CallOf
      <4>3. callMap' = [callMap EXCEPT ![k] = "returned"]
        BY <1>6, <3>1
      <4>4. outcome' = [outcome EXCEPT ![k] = o]
        BY <3>1, <3>2
      <4> QED BY <2>0, <4>1, <4>2, <4>3, <4>4, AnsweredActions
    <3>3. CASE slot[k] \notin {"ok", "failed"}
      BY <2>1, <3>1, <3>3
    <3> QED BY <3>2, <3>3
  <2>8. CASE TimerFires(k) \/ RemoveExpired(k)
    BY <2>2, <2>8 DEF TimerFires, RemoveExpired, CallOf
  <2>9. CASE CancelSent(k)
    BY <2>1, <2>9 DEF CancelSent, Outcomes
  <2>10. CASE Abandon(k)
    <3>1. callMap[k] = "open"
      BY <2>10 DEF Abandon, callMap, CallOf
    <3>2. callMap' = [callMap EXCEPT ![k] = "abandoned"]
      BY <1>6, <2>10 DEF Abandon
    <3> QED BY <2>0, <2>10, <3>1, <3>2, AnsweredActions DEF Abandon
  <2>11. ASSUME NEW t \in Terminals, CheckTerminal(k, t) PROVE "offline" \in Outcomes \ {"ok", "failed"}
    BY DEF Outcomes
  <2> QED BY <1>7, <2>1, <2>3, <2>4, <2>5, <2>6, <2>7, <2>8, <2>9, <2>10, <2>11
          DEF Caller, Progress
<1>8. ASSUME UNCHANGED <<started, jobs, succeeded, caller, outcome>>
      PROVE  UNCHANGED <<callMap, toolMap, outcome>>
    BY <1>2, <1>3, <1>8
<1>9. ASSUME NEW k \in Calls, Canceller(k) PROVE UNCHANGED <<started, jobs, succeeded, caller, outcome>>
    BY <1>9 DEF Canceller, Send, SendLookup, SendPush, SendMark, CancelTake, CancelAnswer, CancelAbandoned
<1>10. ASSUME NEW c \in Conns, Server(c) PROVE UNCHANGED <<started, jobs, succeeded, caller, outcome>>
    BY <1>10 DEF Server, RefuseHandshake, AllocateSession, StoreSession, SendAck, FailAck,
           ReadHeartbeat, ReadDisconnect, NotifyDisconnect, ReadResult, EndReadLoop, CleanupStatus,
           CleanupCalls, CleanupForwarder, ForwarderFails
<1>11. ASSUME NEW t \in Terminals, \/ HeartbeatLapses(t) \/ NotifySwept(t) \/ RemoveTerminal(t)
                                   \/ Agent(t) /\ \A k \in Calls : ~AgentInvoke(t, k)
       PROVE  UNCHANGED <<started, jobs, succeeded, caller, outcome>>
    BY <1>11 DEF HeartbeatLapses, NotifySwept, RemoveTerminal,
                 Agent, AgentConnect, AgentHeartbeat, AgentDisconnect, AgentDrop, AgentCancel
<1>12. CASE Sweep \/ UNCHANGED vars
    BY <1>8, <1>12 DEF Sweep, vars
<1> HIDE DEF CallsInv, IInv, TypeOK
<1> QED BY <1>4, <1>5, <1>7, <1>8, <1>9, <1>10, <1>11, <1>12 DEF Next

(* The gateway implements ToolCalls (router.rs).                           *)
THEOREM ToolCallsRefined == Spec => ImplementsToolCalls
BY AnsweredInit, AnsweredStep, CallsHold, PTL DEF Spec, ImplementsToolCalls, Answered!Spec

-----------------------------------------------------------------------------
(***************************************************************************)
(* Desktop: a stream is told apart by its generation, and the generation   *)
(* is raised before anything that ends a stream or begins another.         *)
(***************************************************************************)
Shown == {0} \cup D!Pictures
Task(g, c) == [phase : D!Phases, gen : 0..g, conn : 0..c, last : Shown, next : Shown]

Situations  == {"away", "subscribed", "serving", "leaving", "last", "stopping", "gone"}
Demands == Seq({"start", "stop"})

ViewTypes ==
    /\ view \subseteq D!Events
    /\ asked \in 0..MaxStarts
    /\ viewer \in [Viewers -> Situations]
    /\ channels \in Nat /\ sender \in 0..channels
    /\ receiver \in [Viewers -> 0..channels]
    /\ socket \in [Viewers -> BOOLEAN] /\ due \in [Viewers -> BOOLEAN]
    /\ push \in [Viewers -> BOOLEAN] /\ input \in [Viewers -> BOOLEAN]
    /\ rest \in {"idle", "stopping", "done"}
    /\ requests \in Demands
    /\ cache \in Shown

StreamTypes ==
    /\ conn \in 1..MaxConns /\ connUp \in BOOLEAN /\ writer \in BOOLEAN
    /\ frames \in Seq(Shown) /\ Len(frames) <= 2
    /\ screen \in D!Pictures
    /\ generation \in Nat /\ streaming \in BOOLEAN
    /\ reader \in {"idle", "starting", "stopping", "ending", "closing"} /\ mine \in 0..generation
    /\ user \in {"idle", "stopping", "done"}
    /\ streams \in Nat
    /\ stream \in [D!Streams -> Task(generation, conn)]

StreamInv ==
    /\ reader # "idle" => connUp
    /\ reader = "starting" => \A t \in D!Streams : D!Live(t) => stream[t].gen # mine
    /\ reader \in {"ending", "closing"} => \A t \in D!Streams : D!Live(t) => ~D!Current(t)
    /\ \A t, u \in D!Streams : D!Live(t) /\ D!Live(u) /\ stream[t].gen = stream[u].gen => t = u
    /\ D!StreamHasConnection

(* Pictures are numbered from one.                                         *)
LEMMA ScreensAre == D!Pictures \subseteq Nat \ {0} /\ 1 \in D!Pictures
BY BoundsAssumption DEF D!Pictures

(* The initial states.                                                     *)
LEMMA DesktopInitTypes == D!Init => ViewTypes /\ StreamTypes /\ StreamInv
<1> SUFFICES ASSUME D!Init PROVE ViewTypes /\ StreamTypes /\ StreamInv
    OBVIOUS
<1> USE BoundsAssumption, ViewsAssumption, ScreensAre
<1>1. ViewTypes
    BY DEF D!Init, ViewTypes, Shown, Situations, Demands, D!Blank, D!Closed
<1>2. StreamTypes
  <2>1. [phase |-> "none", gen |-> 0, conn |-> 0, last |-> 0, next |-> 0] \in Task(0, 1)
    BY DEF Task, Shown, D!Phases
  <2>2. /\ stream = [t \in D!Streams |-> [phase |-> "none", gen |-> 0, conn |-> 0, last |-> 0, next |-> 0]]
        /\ generation = 0 /\ conn = 1
    BY DEF D!Init, D!NoStream, D!Blank, D!Keepalive
  <2>3. stream \in [D!Streams -> Task(generation, conn)]
    BY <2>1, <2>2
  <2>4. frames = <<>> /\ generation = 0 /\ conn = 1 /\ screen = 1 /\ streams = 0 /\ mine = 0
        /\ reader = "idle" /\ user = "idle"
    BY DEF D!Init
  <2>5. connUp \in BOOLEAN /\ writer \in BOOLEAN /\ streaming \in BOOLEAN
    BY DEF D!Init
  <2>6. frames \in Seq(Shown) /\ Len(frames) <= 2
    BY <2>4
  <2>7. conn \in 1..MaxConns /\ screen \in D!Pictures /\ generation \in Nat /\ mine \in 0..generation /\ streams \in Nat
    BY <2>4
  <2> QED BY <2>3, <2>4, <2>5, <2>6, <2>7 DEF StreamTypes
<1>3. StreamInv
    BY DEF D!Init, StreamInv, D!NoStream, D!StreamHasConnection, D!Live
<1> QED BY <1>1, <1>2, <1>3

(* What a step leaves of a stream's record: its generation and connection. *)
Follows(r, s, g, c) == r \in Task(g, c) /\ r.gen = s.gen /\ r.conn = s.conn

(* A record stays one when the generation or the connection goes up.       *)
LEMMA TaskGrows ==
    ASSUME NEW g \in Nat, NEW c \in Nat, NEW s \in Task(g, c)
    PROVE  s \in Task(g + 1, c) /\ s \in Task(g, c + 1)
<1>1. 0..g \subseteq 0..(g + 1) /\ 0..c \subseteq 0..(c + 1)
    OBVIOUS
<1> QED BY <1>1 DEF Task

(* What a request and a move of a session change.                          *)
LEMMA RequestTypes ==
    ASSUME requests \in Demands, NEW m \in {"start", "stop"}, D!Request(m)
    PROVE  requests' \in Demands
BY DEF D!Request, Demands

(* A move is one viewer's.                                                 *)
LEMMA MoveTypes ==
    ASSUME viewer \in [Viewers -> Situations], NEW v \in Viewers, NEW from, NEW to \in Situations, D!Moves(v, from, to)
    PROVE  /\ viewer' \in [Viewers -> Situations]
           /\ viewer[v] = from /\ viewer'[v] = to /\ \A w \in Viewers \ {v} : viewer'[w] = viewer[w]
BY DEF D!Moves

USE DEF D!Blank, D!Keepalive, D!Capacity, D!Closed, D!Reserve, D!AskStart,
        D!DropSender, D!viewing, D!server, D!link, D!control

(* The steps of the server leave the streams alone.                        *)
ServerSide ==
    \/ \E v \in Viewers : D!Connect(v) \/ D!Close(v) \/ D!Session(v)
    \/ D!RestStart \/ D!RestStop \/ D!RestSendStop

(* They change neither the agent nor its connection.                       *)
LEMMA ServerSideFrame ==
    ServerSide => UNCHANGED <<conn, connUp, writer, frames, screen, generation, streaming, reader,
                              mine, user, streams, stream>>
BY DEF ServerSide, D!Connect, D!Close, D!Session, D!Serve, D!Push, D!InputEnds, D!Leave, D!CheckLast, D!Drop,
       D!SendStop, D!RestStart, D!RestStop, D!RestSendStop

(* What the agent and its connection do not change.                        *)
LEMMA DesktopFrame ==
    ASSUME StreamTypes, StreamInv,
           UNCHANGED <<conn, connUp, writer, frames, screen, generation, streaming, reader,
                       mine, user, streams, stream>>
    PROVE  StreamTypes' /\ StreamInv'
BY DEF StreamTypes, StreamInv, D!StreamHasConnection, D!Live, D!Current

(* And they keep the types of what they do change.                         *)
LEMMA ServerSideTypes ==
    ASSUME ViewTypes, ServerSide
    PROVE  ViewTypes'
<1> USE BoundsAssumption DEF ViewTypes, Shown
<1>0. /\ 0 \in 0..channels /\ Situations # {}
      /\ {"subscribed", "serving", "leaving", "last", "stopping", "gone"} \subseteq Situations
    BY DEF Situations
<1>1. ASSUME NEW v \in Viewers, D!Connect(v) PROVE ViewTypes'
  <2>1. /\ socket' = [socket EXCEPT ![v] = TRUE]
        /\ asked' \in 0..MaxStarts
        /\ receiver' = [receiver EXCEPT ![v] = sender']
        /\ UNCHANGED <<view, due, push, input, rest, requests, cache>>
    BY <1>1 DEF D!Connect
  <2>2. channels' \in Nat /\ sender' \in 0..channels' /\ channels' >= channels
    BY <1>1 DEF D!Connect
  <2>3. receiver' \in [Viewers -> 0..channels']
    BY <2>1, <2>2
  <2>4. viewer' \in [Viewers -> Situations]
    BY <1>0, <1>1, MoveTypes DEF D!Connect
  <2> QED BY <2>1, <2>2, <2>3, <2>4
<1>2. ASSUME NEW v \in Viewers, D!Close(v) PROVE ViewTypes'
    BY <1>2 DEF D!Close
<1>3. ASSUME NEW v \in Viewers, D!Session(v) PROVE ViewTypes'
  <2>1. CASE D!Serve(v)
    <3>1. viewer' \in [Viewers -> Situations] /\ requests' \in Demands
      BY <1>0, <2>1, MoveTypes, RequestTypes DEF D!Serve
    <3>2. cache' = 0 /\ push' = [push EXCEPT ![v] = TRUE] /\ input' = [input EXCEPT ![v] = TRUE]
      BY <2>1 DEF D!Serve
    <3>3. push' \in [Viewers -> BOOLEAN] /\ input' \in [Viewers -> BOOLEAN]
      BY <3>2
    <3> QED BY <2>1, <3>1, <3>2, <3>3 DEF D!Serve
  <2>2. CASE D!Push(v)
    <3>1. receiver' = receiver \/ receiver' = [receiver EXCEPT ![v] = 0]
      BY <2>2 DEF D!Push
    <3>2. push' = push \/ push' = [push EXCEPT ![v] = FALSE]
      BY <2>2 DEF D!Push
    <3>3. due' = due \/ due' = [due EXCEPT ![v] = FALSE]
      BY <2>2 DEF D!Push
    <3>4. receiver' \in [Viewers -> 0..channels]
      BY <1>0, <3>1
    <3>5. push' \in [Viewers -> BOOLEAN]
      BY <3>2
    <3>6. due' \in [Viewers -> BOOLEAN]
      BY <3>3
    <3> QED BY <2>2, <3>4, <3>5, <3>6 DEF D!Push
  <2>3. CASE D!InputEnds(v)
    BY <2>3 DEF D!InputEnds
  <2>4. CASE D!Leave(v) \/ D!CheckLast(v)
    <3>1. viewer' \in [Viewers -> Situations]
      BY <1>0, <2>4, MoveTypes DEF D!Leave, D!CheckLast
    <3> QED BY <2>4, <3>1 DEF D!Leave, D!CheckLast
  <2>5. CASE D!Drop(v)
    <3>1. viewer' \in [Viewers -> Situations]
      BY <1>0, <2>5, MoveTypes DEF D!Drop
    <3> QED BY <1>0, <2>5, <3>1 DEF D!Drop
  <2>6. CASE D!SendStop(v)
    <3>1. viewer' \in [Viewers -> Situations] /\ requests' \in Demands
      BY <1>0, <2>6, MoveTypes, RequestTypes DEF D!SendStop
    <3> QED BY <2>6, <3>1 DEF D!SendStop
  <2> QED BY <1>3, <2>1, <2>2, <2>3, <2>4, <2>5, <2>6 DEF D!Session
<1>4. CASE D!RestStart
  <2>1. requests' \in Demands
    BY <1>4, RequestTypes DEF D!RestStart
  <2> QED BY <1>4, <2>1 DEF D!RestStart
<1>5. CASE D!RestStop
    BY <1>0, <1>5 DEF D!RestStop
<1>6. CASE D!RestSendStop
  <2>1. requests' \in Demands
    BY <1>6, RequestTypes DEF D!RestSendStop
  <2> QED BY <1>6, <2>1 DEF D!RestSendStop
<1> QED BY <1>1, <1>2, <1>3, <1>4, <1>5, <1>6 DEF ServerSide

(* A frame reaches the server.                                             *)
LEMMA DeliverStep ==
    ASSUME ViewTypes, StreamTypes, StreamInv, D!Deliver
    PROVE  ViewTypes' /\ StreamTypes' /\ StreamInv'
<1>0. frames # <<>> /\ frames' = Tail(frames)
    BY DEF D!Deliver
<1>1. Head(frames) \in Shown /\ frames' \in Seq(Shown) /\ Len(frames') <= 2
    BY <1>0 DEF StreamTypes
<1>2. due' \in [Viewers -> BOOLEAN]
    BY DEF D!Deliver
<1>3. UNCHANGED <<view, asked, sender, channels, viewer, socket, receiver, push, input, rest, requests>>
      /\ (cache' = cache \/ cache' = Head(frames))
    BY DEF D!Deliver
<1>4. ViewTypes'
    BY <1>1, <1>2, <1>3 DEF ViewTypes
<1>5. UNCHANGED <<conn, connUp, writer, screen, generation, streaming, reader, mine, user, streams, stream>>
    BY DEF D!Deliver
<1>6. StreamTypes'
    BY <1>1, <1>5 DEF StreamTypes
<1>7. StreamInv'
    BY <1>5 DEF StreamInv, D!StreamHasConnection, D!Live, D!Current
<1> QED BY <1>4, <1>6, <1>7

(* The steps of the agent, its connection and its user.                    *)
Generations ==
    /\ generation \in Nat /\ mine \in 0..generation /\ conn \in 1..MaxConns
    /\ stream \in [D!Streams -> Task(generation, conn)]

(* A generation that is raised is none of the streams'.                    *)
LEMMA BumpTypes ==
    ASSUME Generations, generation' = generation + 1, mine' = mine \/ mine' = generation',
           UNCHANGED <<conn, stream>>
    PROVE  /\ Generations'
           /\ \A t \in D!Streams : stream[t].gen # generation'
<1>0. generation' \in Nat /\ mine' \in 0..generation'
    BY DEF Generations
<1>1. \A t \in D!Streams : stream[t] \in Task(generation', conn) /\ stream[t].gen \in 0..generation
  <2>1. TAKE t \in D!Streams
  <2>2. stream[t] \in Task(generation, conn) /\ conn \in Nat
    BY DEF Generations
  <2>3. stream[t] \in Task(generation + 1, conn)
    BY <2>2, TaskGrows DEF Generations
  <2> QED BY <2>2, <2>3 DEF Task
<1>2. stream' \in [D!Streams -> Task(generation', conn')]
    BY <1>1 DEF Generations
<1>3. \A t \in D!Streams : stream[t].gen # generation'
    BY <1>1 DEF Generations
<1> QED BY <1>0, <1>2, <1>3 DEF Generations

(* The reader, the ends of a connection, the next one and the user.        *)
LEMMA DesktopAgent ==
    ASSUME ViewTypes, StreamTypes, StreamInv,
           \/ D!Agent \/ D!WriterFails \/ D!SessionEnds \/ D!Reconnect \/ D!UserStops \/ D!ScreenChanges
    PROVE  ViewTypes' /\ StreamTypes' /\ StreamInv'
<1> USE BoundsAssumption
<1>0. ViewTypes'
  <2>1. UNCHANGED <<view, asked, viewer, channels, sender, receiver, socket, due, push, input, rest, cache>>
    BY DEF D!Agent, D!Receive, D!Started, D!Stopped, D!SessionClosed, D!WriterFails, D!SessionEnds,
           D!Reconnect, D!UserStops, D!ScreenChanges
  <2>2. requests' = requests \/ (requests # <<>> /\ requests' = Tail(requests)) \/ requests' = <<>>
    BY DEF D!Agent, D!Receive, D!Started, D!Stopped, D!SessionClosed, D!WriterFails, D!SessionEnds,
           D!Reconnect, D!UserStops, D!ScreenChanges
  <2>3. requests \in Demands
    BY DEF ViewTypes
  <2>4. requests # <<>> => Tail(requests) \in Demands
    BY <2>3, HeadTailProperties DEF Demands
  <2>5. <<>> \in Demands
    BY DEF Demands
  <2>6. requests' \in Demands
    BY <2>2, <2>3, <2>4, <2>5
  <2> QED BY <2>1, <2>6 DEF ViewTypes
<1>9. Generations
    BY DEF StreamTypes, Generations
<1>1. CASE D!Receive
  <2>1. /\ reader = "idle" /\ reader' \in {"starting", "stopping"} /\ connUp = TRUE
        /\ generation' = generation + 1 /\ mine' = generation'
        /\ UNCHANGED <<conn, connUp, writer, frames, screen, streaming, user, streams, stream>>
    BY <1>1 DEF D!Receive, D!Bump, StreamTypes
  <2>2. Generations' /\ \A t \in D!Streams : stream[t].gen # generation'
    BY <1>9, <2>1, BumpTypes
  <2>3. StreamTypes'
    BY <2>1, <2>2 DEF StreamTypes, Generations
  <2>4. StreamInv'
    BY <2>1, <2>2 DEF StreamInv, D!StreamHasConnection, D!Live, D!Current
  <2> QED BY <1>0, <2>3, <2>4
<1>2. CASE D!Started
  <2> DEFINE new == [phase |-> "look", gen |-> mine, conn |-> conn, last |-> 0, next |-> 0]
  <2>1. new \in Task(generation, conn)
    BY <1>9 DEF Generations, Task, Shown, D!Phases
  <2>2. /\ stream' = [stream EXCEPT ![streams + 1] = new]
        /\ reader = "starting" /\ reader' = "idle" /\ streaming' = TRUE /\ streams' = streams + 1
        /\ UNCHANGED <<conn, connUp, writer, frames, screen, generation, mine, user>>
    BY <1>2 DEF D!Started
  <2>3. stream' \in [D!Streams -> Task(generation', conn')]
    BY <2>1, <2>2 DEF StreamTypes
  <2>4. StreamTypes'
    BY <2>2, <2>3 DEF StreamTypes
  <2>5. \A t \in D!Streams : stream'[t] = IF t = streams + 1 THEN new ELSE stream[t]
    BY <2>2 DEF StreamTypes
  <2>6. connUp
    BY <2>2 DEF StreamInv
  <2>7. \A t \in D!Streams \ {streams + 1} : D!Live(t)' => D!Live(t) /\ stream'[t].gen # mine
    BY <2>2, <2>5 DEF StreamInv, D!Live
  <2>8. new.gen = mine /\ new.conn = conn
    OBVIOUS
  <2> HIDE DEF new
  <2>9. StreamInv'
    BY <2>2, <2>5, <2>6, <2>7, <2>8 DEF StreamInv, D!StreamHasConnection, D!Live, D!Current
  <2> QED BY <1>0, <2>4, <2>9
<1>3. CASE D!Stopped \/ D!WriterFails \/ D!ScreenChanges
  <2>1. /\ UNCHANGED <<conn, connUp, generation, mine, user, streams, stream>>
        /\ frames' = frames \/ frames' = <<>>
        /\ screen' = screen \/ (screen < MaxScreens /\ screen' = screen + 1)
        /\ \/ reader' = reader
           \/ reader = "stopping" /\ reader' = "idle"
           \/ reader = "ending" /\ reader' = "closing"
    BY <1>3 DEF D!Stopped, D!WriterFails, D!ScreenChanges
  <2>2. writer' \in BOOLEAN /\ streaming' \in BOOLEAN
    <3>1. (writer' = writer \/ writer' = FALSE) /\ (streaming' = streaming \/ streaming' = FALSE)
      BY <1>3 DEF D!Stopped, D!WriterFails, D!ScreenChanges
    <3> QED BY <3>1 DEF StreamTypes
  <2>3. frames' \in Seq(Shown) /\ Len(frames') <= 2
    <3>1. <<>> \in Seq(Shown) /\ Len(<<>>) = 0 /\ frames \in Seq(Shown) /\ Len(frames) <= 2
      BY DEF StreamTypes
    <3>2. frames' = frames \/ frames' = <<>>
      BY <2>1
    <3>3. CASE frames' = frames
      BY <3>1, <3>3
    <3>4. CASE frames' = <<>>
      BY <3>1, <3>4
    <3> QED BY <3>2, <3>3, <3>4
  <2>6. screen' \in D!Pictures
    BY <2>1 DEF StreamTypes, D!Pictures
  <2>4. StreamTypes'
    BY <2>1, <2>2, <2>3, <2>6 DEF StreamTypes
  <2>5. StreamInv'
    BY <2>1 DEF StreamInv, D!StreamHasConnection, D!Live, D!Current
  <2> QED BY <1>0, <2>4, <2>5
<1>4. CASE D!SessionClosed
  <2>1. /\ UNCHANGED <<conn, screen, generation, streaming, mine, user, streams, stream>>
        /\ reader = "closing" /\ reader' = "idle" /\ frames' = <<>>
    BY <1>4 DEF D!SessionClosed
  <2>2. connUp' \in BOOLEAN /\ writer' \in BOOLEAN
    BY <1>4 DEF D!SessionClosed
  <2>3. frames' \in Seq(Shown) /\ Len(frames') <= 2
    BY <2>1
  <2>4. StreamTypes'
    BY <2>1, <2>2, <2>3 DEF StreamTypes
  <2>5. StreamInv'
    BY <2>1 DEF StreamInv, D!StreamHasConnection, D!Live, D!Current
  <2> QED BY <1>0, <2>4, <2>5
<1>5. CASE D!SessionEnds \/ (D!UserStops /\ user = "idle")
  <2>1. /\ generation' = generation + 1
        /\ UNCHANGED <<conn, connUp, writer, frames, screen, streaming, mine, streams, stream>>
        /\ reader' = reader \/ (reader = "idle" /\ reader' = "ending" /\ connUp)
        /\ user' \in {"idle", "stopping", "done"}
    BY <1>5 DEF D!SessionEnds, D!UserStops, D!Bump, StreamTypes
  <2>2. Generations' /\ \A t \in D!Streams : stream[t].gen # generation'
    BY <1>9, <2>1, BumpTypes
  <2>3. StreamTypes'
    BY <2>1, <2>2 DEF StreamTypes, Generations
  <2>4. StreamInv'
    BY <2>1, <2>2 DEF StreamInv, D!StreamHasConnection, D!Live, D!Current
  <2> QED BY <1>0, <2>3, <2>4
<1>6. CASE D!UserStops /\ user # "idle"
  <2>1. /\ user' = "done" /\ streaming' = FALSE
        /\ UNCHANGED <<conn, connUp, writer, frames, screen, generation, reader, mine, streams, stream>>
    BY <1>6 DEF D!UserStops
  <2>2. StreamTypes'
    BY <2>1 DEF StreamTypes
  <2>3. StreamInv'
    BY <2>1 DEF StreamInv, D!StreamHasConnection, D!Live, D!Current
  <2> QED BY <1>0, <2>2, <2>3
<1>7. CASE D!Reconnect
  <2>1. /\ ~connUp /\ conn < MaxConns /\ conn' = conn + 1
        /\ connUp' = TRUE /\ writer' = TRUE
        /\ UNCHANGED <<frames, screen, generation, streaming, reader, mine, user, streams, stream>>
    BY <1>7 DEF D!Reconnect
  <2>2. stream' \in [D!Streams -> Task(generation', conn')]
    <3>1. \A t \in D!Streams : stream[t] \in Task(generation, conn + 1)
      <4>1. TAKE t \in D!Streams
      <4> QED BY <1>9, TaskGrows DEF Generations
    <3> QED BY <1>9, <2>1, <3>1 DEF Generations
  <2>3. conn' \in 1..MaxConns
    BY <2>1 DEF StreamTypes
  <2>4. StreamTypes'
    BY <2>1, <2>2, <2>3 DEF StreamTypes
  <2>5. StreamInv'
    BY <2>1 DEF StreamInv, D!StreamHasConnection, D!Live, D!Current
  <2> QED BY <1>0, <2>4, <2>5
<1> QED BY <1>1, <1>2, <1>3, <1>4, <1>5, <1>6, <1>7 DEF D!Agent

(* A stream task keeps its generation and its connection.                  *)
LEMMA TaskSteps ==
    ASSUME ViewTypes, StreamTypes, StreamInv, NEW t \in D!Streams, D!Stream(t)
    PROVE  ViewTypes' /\ StreamTypes' /\ StreamInv'
<1>0. ViewTypes'
  <2>1. UNCHANGED <<view, asked, viewer, channels, sender, receiver, socket, due, push, input, rest, cache, requests>>
    BY DEF D!Stream, D!Look, D!Decide, D!Send, D!FoundClosed
  <2> QED BY <2>1 DEF ViewTypes
<1>1. /\ UNCHANGED <<conn, connUp, writer, screen, generation, reader, mine, user, streams>>
      /\ streaming' = streaming \/ streaming' = FALSE
    BY DEF D!Stream, D!Look, D!Decide, D!Send, D!FoundClosed
<1>2. stream[t] \in Task(generation, conn) /\ stream[t].next \in Shown /\ stream[t].last \in Shown /\ screen \in Shown
    BY DEF StreamTypes, Task, Shown
<1>3. frames' \in Seq(Shown) /\ Len(frames') <= 2
  <2>1. UNCHANGED frames \/ (Len(frames) < 2 /\ frames' = Append(frames, stream[t].next))
    BY DEF D!Stream, D!Look, D!Decide, D!Send, D!FoundClosed, D!Room
  <2> QED BY <1>2, <2>1 DEF StreamTypes
<1>4. /\ generation \in Nat /\ conn \in Nat /\ 0 \in Shown
      /\ {"look", "captured", "send", "closing", "ended"} \subseteq D!Phases
    BY DEF StreamTypes, D!Phases, Shown
<1>5. stream[t].phase \notin {"none", "ended"}
    BY DEF D!Stream, D!Look, D!Decide, D!Send, D!FoundClosed, D!Phase
<1>6. Follows(stream'[t], stream[t], generation, conn) /\ \A u \in D!Streams \ {t} : stream'[u] = stream[u]
  <2>1. ASSUME NEW from, NEW p \in D!Phases, NEW n \in Shown, D!Phase(t, from, p, n)
        PROVE  Follows(stream'[t], stream[t], generation, conn) /\ \A u \in D!Streams \ {t} : stream'[u] = stream[u]
    <3>1. stream'[t] = [stream[t] EXCEPT !.phase = p, !.next = n] /\ \A u \in D!Streams \ {t} : stream'[u] = stream[u]
      BY <2>1 DEF D!Phase, StreamTypes
    <3> QED BY <1>2, <1>4, <3>1 DEF Task, Follows
  <2>2. CASE D!Look(t)
    <3>1. CASE streaming /\ D!Current(t)
      <4>1. (IF screen = stream[t].last THEN 0 ELSE screen) \in Shown
        BY <1>2, <1>4
      <4> QED BY <1>4, <2>1, <2>2, <3>1, <4>1 DEF D!Look
    <3>2. CASE ~(streaming /\ D!Current(t))
      BY <1>4, <2>1, <2>2, <3>2 DEF D!Look
    <3> QED BY <3>1, <3>2
  <2>3. CASE D!Decide(t)
    <3>1. /\ (IF D!Current(t) THEN "send" ELSE "ended") \in D!Phases
          /\ (IF D!Current(t) THEN stream[t].next ELSE 0) \in Shown
      BY <1>2, <1>4
    <3> QED BY <2>1, <2>3, <3>1 DEF D!Decide
  <2>4. CASE D!FoundClosed(t)
    BY <1>4, <2>1, <2>4 DEF D!FoundClosed
  <2>5. CASE D!Send(t) /\ D!Open(t)
    <3> DEFINE m == IF D!Commits(t) THEN stream[t].next ELSE stream[t].last
    <3>1. m \in Shown
      BY <1>2
    <3>2. stream'[t] = [stream[t] EXCEPT !.phase = "look", !.next = 0, !.last = m]
          /\ \A u \in D!Streams \ {t} : stream'[u] = stream[u]
      BY <2>5 DEF D!Send, StreamTypes
    <3> HIDE DEF m
    <3> QED BY <1>2, <1>4, <3>1, <3>2 DEF Task, Follows
  <2>6. CASE D!Send(t) /\ ~D!Open(t)
    <3>1. stream'[t] = [stream[t] EXCEPT !.phase = "closing"]
          /\ \A u \in D!Streams \ {t} : stream'[u] = stream[u]
      BY <2>6 DEF D!Send, StreamTypes
    <3> QED BY <1>2, <1>4, <3>1 DEF Task, Follows
  <2> QED BY <2>2, <2>3, <2>4, <2>5, <2>6 DEF D!Stream
<1>12. \E p : stream' = [stream EXCEPT ![t] = p]
    BY DEF D!Stream, D!Look, D!Decide, D!Send, D!FoundClosed, D!Phase
<1>7. stream' \in [D!Streams -> Task(generation', conn')]
    BY <1>1, <1>6, <1>12 DEF StreamTypes, Follows
<1>8. streaming' \in BOOLEAN
    BY <1>1 DEF StreamTypes
<1>9. StreamTypes'
    BY <1>1, <1>3, <1>7, <1>8 DEF StreamTypes
<1>10. \A u \in D!Streams : /\ stream'[u].gen = stream[u].gen /\ stream'[u].conn = stream[u].conn
                            /\ D!Live(u)' => D!Live(u)
    BY <1>5, <1>6 DEF D!Live, Follows
<1>11. StreamInv'
    BY <1>1, <1>10 DEF StreamInv, D!StreamHasConnection, D!Current
<1> QED BY <1>0, <1>9, <1>11

(* Every step of Desktop keeps the types and StreamInv.                    *)
LEMMA DesktopStep ==
    ASSUME ViewTypes, StreamTypes, StreamInv, [D!Next]_D!vars
    PROVE  ViewTypes' /\ StreamTypes' /\ StreamInv'
<1>1. CASE ServerSide
    BY <1>1, ServerSideFrame, DesktopFrame, ServerSideTypes
<1>2. CASE UNCHANGED D!vars
  <2>1. ViewTypes'
    BY <1>2 DEF D!vars, ViewTypes
  <2> QED BY <1>2, <2>1, DesktopFrame DEF D!vars
<1> QED BY <1>1, <1>2, DeliverStep, DesktopAgent, TaskSteps DEF D!Next, ServerSide

-----------------------------------------------------------------------------
(* Every viewer makes one broadcast at most, and every stream, every start *)
(* on its way and every viewer about to ask for one was asked for.         *)
Came        == {v \in Viewers : viewer[v] # "away"}
Waiting     == {v \in Viewers : viewer[v] = "subscribed"}
StartsIn(s) == {i \in 1..Len(s) : s[i] = "start"}
Taken       == IF reader = "starting" THEN 1 ELSE 0

Promised(s, r, w, t) == s + r + w + t

Counts ==
    /\ channels <= Cardinality(Came)
    /\ Promised(streams, Cardinality(StartsIn(requests)), Cardinality(Waiting), Taken) <= asked

(* How the sum takes the steps that change its parts.                      *)
LEMMA PromisesKept ==
    ASSUME NEW s \in Nat, NEW r \in Nat, NEW w \in Nat, NEW t \in Nat, NEW a \in Nat,
           Promised(s, r, w, t) <= a
    PROVE  /\ s <= a
           /\ \A r2, w2 \in Nat : r2 <= r + 1 /\ w2 = w - 1 => Promised(s, r2, w2, t) <= a
           /\ \A r2 \in Nat : r2 <= r => Promised(s, r2, w, t) <= a
           /\ t = 1 => Promised(s + 1, r, w, 0) <= a
BY DEF Promised

(* A viewer that will ask for a start.                                     *)
LEMMA PromiseAwaited ==
    ASSUME NEW s \in Nat, NEW r \in Nat, NEW w \in Nat, NEW t \in Nat, NEW a \in Nat,
           Promised(s, r, w, t) <= a, NEW w2 \in Nat, w2 <= w + 1
    PROVE  Promised(s, r, w2, t) <= a + 1
BY DEF Promised

(* A start that is asked for and sent at once.                             *)
LEMMA PromiseMade ==
    ASSUME NEW s \in Nat, NEW r \in Nat, NEW w \in Nat, NEW t \in Nat, NEW a \in Nat,
           Promised(s, r, w, t) <= a, NEW r2 \in Nat, r2 <= r + 1
    PROVE  Promised(s, r2, w, t) <= a + 1
BY DEF Promised

(* A start that is read.                                                   *)
LEMMA PromiseTaken ==
    ASSUME NEW s \in Nat, NEW r \in Nat, NEW w \in Nat, NEW a \in Nat,
           Promised(s, r, w, 0) <= a, NEW r2 \in Nat, r2 + 1 <= r
    PROVE  Promised(s, r2, w, 1) <= a
BY DEF Promised

(* A broadcast for one more viewer.                                        *)
LEMMA OneMore ==
    ASSUME NEW c \in Nat, NEW d \in Nat, NEW e \in Nat, c <= d, e <= c + 1
    PROVE  e <= d + 1
OBVIOUS

(* The starts on their way are a finite number,                            *)
LEMMA StartsFinite ==
    ASSUME NEW s \in Demands
    PROVE  IsFiniteSet(StartsIn(s)) /\ Cardinality(StartsIn(s)) \in Nat
<1>1. IsFiniteSet(1..Len(s))
    BY FS_Interval DEF Demands
<1>2. StartsIn(s) \in SUBSET (1..Len(s))
    BY DEF StartsIn
<1> QED BY <1>1, <1>2, FS_Subset, FS_CardinalityType

(* which a start that is sent raises by one,                               *)
LEMMA StartsSent ==
    ASSUME NEW s \in Demands, NEW m \in {"start", "stop"}
    PROVE  /\ m = "start" => Cardinality(StartsIn(Append(s, m))) = Cardinality(StartsIn(s)) + 1
           /\ m # "start" => Cardinality(StartsIn(Append(s, m))) = Cardinality(StartsIn(s))
<1> DEFINE n == Len(s) + 1
<1>1. n \in Nat /\ n \notin StartsIn(s) /\ n \in Nat
    BY DEF StartsIn, Demands
<1>2. StartsIn(Append(s, m)) = IF m = "start" THEN StartsIn(s) \cup {n} ELSE StartsIn(s)
    BY DEF StartsIn, Demands
<1> HIDE DEF n
<1>3. IsFiniteSet(StartsIn(s)) /\ Cardinality(StartsIn(s)) \in Nat
    BY StartsFinite
<1>4. Cardinality(StartsIn(s) \cup {n}) = Cardinality(StartsIn(s)) + 1
    BY <1>1, <1>3, FS_AddElement
<1> QED BY <1>2, <1>3, <1>4

(* and a start that is read lowers.                                        *)
LEMMA StartsRead ==
    ASSUME NEW s \in Demands, s # <<>>
    PROVE  /\ Head(s) = "start" => Cardinality(StartsIn(Tail(s))) + 1 <= Cardinality(StartsIn(s))
           /\ Head(s) # "start" => Cardinality(StartsIn(Tail(s))) <= Cardinality(StartsIn(s))
<1>1. /\ Tail(s) \in Demands /\ Len(Tail(s)) = Len(s) - 1 /\ Len(s) \in Nat /\ Len(Tail(s)) \in Nat
      /\ \A i \in 1..Len(Tail(s)) : Tail(s)[i] = s[i + 1]
      /\ Head(s) = s[1] /\ 1 \in 1..Len(s)
    BY HeadTailProperties DEF Demands
<1> DEFINE others == StartsIn(s) \ {1}
           f     == [i \in StartsIn(Tail(s)) |-> i + 1]
<1>2. f \in Injection(StartsIn(Tail(s)), others)
  <2>1. \A i \in StartsIn(Tail(s)) : i \in Nat /\ i + 1 \in others
    BY <1>1 DEF StartsIn
  <2> QED BY <2>1 DEF Injection, IsInjective
<1>3. IsFiniteSet(StartsIn(s)) /\ Cardinality(StartsIn(s)) \in Nat
    BY StartsFinite
<1>4. /\ IsFiniteSet(others)
      /\ Cardinality(others) = IF 1 \in StartsIn(s) THEN Cardinality(StartsIn(s)) - 1 ELSE Cardinality(StartsIn(s))
    BY <1>3, FS_RemoveElement
<1>5. Cardinality(StartsIn(Tail(s))) <= Cardinality(others)
    BY <1>2, <1>4, FS_Injection
<1>6. 1 \in StartsIn(s) <=> Head(s) = "start"
    BY <1>1 DEF StartsIn
<1>7. Cardinality(StartsIn(Tail(s))) \in Nat
    BY <1>1, StartsFinite
<1> QED BY <1>3, <1>4, <1>5, <1>6, <1>7

(* A connection that ends has none.                                        *)
LEMMA StartsNone == Cardinality(StartsIn(<<>>)) = 0
<1>1. StartsIn(<<>>) = {}
    BY DEF StartsIn
<1> QED BY <1>1, FS_EmptySet

(* A request to an agent that is away is not sent.                         *)
LEMMA RequestCounts ==
    ASSUME requests \in Demands, NEW m \in {"start", "stop"}, D!Request(m)
    PROVE  /\ Cardinality(StartsIn(requests')) \in Nat
           /\ Cardinality(StartsIn(requests')) <= Cardinality(StartsIn(requests)) + 1
           /\ m # "start" => Cardinality(StartsIn(requests')) <= Cardinality(StartsIn(requests))
<1>1. requests' \in Demands
    BY RequestTypes
<1>2. Cardinality(StartsIn(requests)) \in Nat /\ Cardinality(StartsIn(requests')) \in Nat
    BY <1>1, StartsFinite
<1>3. requests' = Append(requests, m) \/ requests' = requests
    BY DEF D!Request
<1>4. /\ m = "start" => Cardinality(StartsIn(Append(requests, m))) = Cardinality(StartsIn(requests)) + 1
      /\ m # "start" => Cardinality(StartsIn(Append(requests, m))) = Cardinality(StartsIn(requests))
    BY StartsSent
<1>5. CASE requests' = requests
    BY <1>2, <1>5
<1>6. CASE requests' = Append(requests, m)
    BY <1>2, <1>4, <1>6
<1> QED BY <1>3, <1>5, <1>6

(* The viewers of any kind are finitely many.                              *)
LEMMA ViewersFinite ==
    ASSUME NEW S \in SUBSET Viewers
    PROVE  IsFiniteSet(S) /\ Cardinality(S) \in Nat /\ Cardinality(S) <= Cardinality(Viewers)
BY ViewersAssumption, FS_Subset, FS_CardinalityType

(* A viewer that moves on.                                                 *)
LEMMA MoveCounts ==
    ASSUME viewer \in [Viewers -> Situations], NEW v \in Viewers, NEW from, NEW to \in Situations,
           D!Moves(v, from, to), to # "away"
    PROVE  /\ Came' = Came \cup {v}
           /\ Waiting' = IF to = "subscribed" THEN Waiting \cup {v} ELSE Waiting \ {v}
           /\ from = "away" => v \notin Came
           /\ from # "away" => v \in Came
           /\ from = "subscribed" <=> v \in Waiting
BY MoveTypes DEF Came, Waiting

(* Nobody has asked for anything at first.                                 *)
LEMMA CountsInit ==
    ASSUME D!Init
    PROVE  Counts
<1>1. Waiting = {} /\ channels = 0 /\ streams = 0 /\ asked = 0 /\ Taken = 0 /\ requests = <<>>
    BY DEF D!Init, Waiting, Taken
<1>2. Came \in SUBSET Viewers
    BY DEF Came
<1>3. channels <= Cardinality(Came)
    BY <1>1, <1>2, ViewersFinite
<1>4. Promised(0, 0, 0, 0) <= 0
    BY DEF Promised
<1>5. Cardinality(Waiting) = 0 /\ Cardinality(StartsIn(requests)) = 0
    BY <1>1, StartsNone, FS_EmptySet
<1> QED BY <1>1, <1>3, <1>4, <1>5 DEF Counts

(* Every step of Desktop keeps the counts.                                 *)
LEMMA CountsStep ==
    ASSUME ViewTypes, StreamTypes, Counts, [D!Next]_D!vars
    PROVE  Counts'
<1> DEFINE C == Cardinality(Came)  W == Cardinality(Waiting)  R == Cardinality(StartsIn(requests))
<1>0. /\ C \in Nat /\ W \in Nat /\ R \in Nat /\ C' \in Nat /\ W' \in Nat
      /\ Taken \in Nat /\ streams \in Nat /\ asked \in Nat /\ channels \in Nat
  <2>1. /\ Came \in SUBSET Viewers /\ Waiting \in SUBSET Viewers
        /\ Came' \in SUBSET Viewers /\ Waiting' \in SUBSET Viewers
    BY DEF Came, Waiting
  <2>2. C \in Nat /\ W \in Nat
    BY <2>1, ViewersFinite
  <2>3. C' \in Nat /\ W' \in Nat
    BY <2>1, ViewersFinite
  <2>4. R \in Nat
    BY StartsFinite DEF ViewTypes
  <2> QED BY <2>2, <2>3, <2>4, BoundsAssumption DEF ViewTypes, StreamTypes, Taken
<1>01. IsFiniteSet(Came) /\ IsFiniteSet(Waiting)
  <2>1. Came \in SUBSET Viewers /\ Waiting \in SUBSET Viewers
    BY DEF Came, Waiting
  <2> QED BY <2>1, ViewersFinite
<1>1. channels <= C /\ Promised(streams, R, W, Taken) <= asked
    BY DEF Counts
<1>2. viewer \in [Viewers -> Situations] /\ requests \in Demands
      /\ {"subscribed", "serving", "leaving", "last", "stopping", "gone"} \subseteq Situations \ {"away"}
    BY DEF ViewTypes, Situations
<1>3. ASSUME UNCHANGED <<viewer, reader>> PROVE C' = C /\ W' = W /\ Taken' = Taken
    BY <1>3 DEF Came, Waiting, Taken
<1>4. ASSUME UNCHANGED reader PROVE Taken' = Taken
    BY <1>4 DEF Taken
<1>5. ASSUME NEW v \in Viewers, D!Connect(v) PROVE Counts'
  <2>1. /\ D!Moves(v, "away", "subscribed") /\ asked' = asked + 1 /\ channels' \in Nat /\ channels' <= channels + 1
        /\ UNCHANGED <<streams, requests, reader>>
    BY <1>0, <1>5 DEF D!Connect
  <2>2. Came' = Came \cup {v} /\ v \notin Came /\ Waiting' = Waiting \cup {v}
    BY <1>2, <2>1, MoveCounts
  <2>3. C' = C + 1 /\ W' <= W + 1
    <3>1. Cardinality(Came \cup {v}) = C + 1
      BY <1>0, <1>01, <2>2, FS_AddElement
    <3>2. Cardinality(Waiting \cup {v}) \in {W, W + 1}
      BY <1>0, <1>01, FS_AddElement
    <3> QED BY <1>0, <2>2, <3>1, <3>2
  <2> HIDE DEF C, W, R
  <2>4. channels' <= C' /\ Promised(streams, R, W', Taken) <= asked'
    <3>1. channels' <= C'
      BY <1>0, <1>1, OneMore, <2>1, <2>3
    <3>2. Promised(streams, R, W', Taken) <= asked + 1
      BY <1>0, <1>1, PromiseAwaited, <2>3
    <3> QED BY <2>1, <3>1, <3>2
  <2> QED BY <1>4, <2>1, <2>4 DEF Counts, C, W, R
<1>6. ASSUME NEW v \in Viewers, D!Serve(v) PROVE Counts'
  <2>1. D!Moves(v, "subscribed", "serving") /\ D!Request("start") /\ UNCHANGED <<streams, asked, channels, reader>>
    BY <1>6 DEF D!Serve
  <2>2. Came' = Came \cup {v} /\ v \in Came /\ Waiting' = Waiting \ {v} /\ v \in Waiting
    BY <1>2, <2>1, MoveCounts
  <2>3. C' = C /\ W' = W - 1
    BY <1>0, <1>01, <2>2, FS_AddElement, FS_RemoveElement
  <2>4. R' \in Nat /\ R' <= R + 1
    BY <1>2, <2>1, RequestCounts
  <2> HIDE DEF C, W, R
  <2>5. channels <= C' /\ Promised(streams, R', W', Taken) <= asked
    BY SMTT(30), <1>0, <1>1, PromisesKept, <2>3, <2>4
  <2> QED BY <1>4, <2>1, <2>5 DEF Counts, C, W, R
<1>7. ASSUME NEW v \in Viewers, D!Leave(v) \/ D!CheckLast(v) \/ D!Drop(v) \/ D!SendStop(v)
      PROVE  Counts'
  <2>1. PICK from \in {"serving", "leaving", "last", "stopping"}, to \in {"leaving", "last", "stopping", "gone"} :
           D!Moves(v, from, to)
    BY <1>7 DEF D!Leave, D!CheckLast, D!Drop, D!SendStop
  <2>2. UNCHANGED <<streams, asked, channels, reader>>
    BY <1>7 DEF D!Leave, D!CheckLast, D!Drop, D!SendStop
  <2>3. requests' = requests \/ D!Request("stop")
    BY <1>7 DEF D!Leave, D!CheckLast, D!Drop, D!SendStop
  <2>4. Came' = Came \cup {v} /\ v \in Came /\ Waiting' = Waiting \ {v} /\ v \notin Waiting
    BY <1>2, <2>1, MoveCounts
  <2>5. C' = C /\ W' = W
    BY <1>0, <1>01, <2>4, FS_AddElement, FS_RemoveElement
  <2>6. R' \in Nat /\ R' <= R
    BY <1>0, <1>2, <2>3, RequestCounts
  <2> HIDE DEF C, W, R
  <2>7. channels <= C' /\ Promised(streams, R', W', Taken) <= asked
    BY <1>0, <1>1, PromisesKept, <2>5, <2>6
  <2> QED BY <1>4, <2>2, <2>7 DEF Counts, C, W, R
<1>8. CASE D!RestStart
  <2>1. D!Request("start") /\ asked' = asked + 1 /\ UNCHANGED <<streams, channels, viewer, reader>>
    BY <1>8 DEF D!RestStart, D!viewing, D!server, D!control
  <2>2. R' \in Nat /\ R' <= R + 1
    BY <1>2, <2>1, RequestCounts
  <2> HIDE DEF C, W, R
  <2>3. channels <= C /\ Promised(streams, R', W, Taken) <= asked'
    <3>1. Promised(streams, R', W, Taken) <= asked + 1
      BY <1>0, <1>1, PromiseMade, <2>2
    <3> QED BY <1>1, <2>1, <3>1
  <2> QED BY <1>3, <2>1, <2>3 DEF Counts, C, W, R
<1>9. CASE D!RestSendStop
  <2>1. D!Request("stop") /\ UNCHANGED <<streams, channels, asked, viewer, reader>>
    BY <1>9 DEF D!RestSendStop
  <2>2. R' \in Nat /\ R' <= R
    BY <1>0, <1>2, <2>1, RequestCounts
  <2> HIDE DEF C, W, R
  <2>3. channels <= C /\ Promised(streams, R', W, Taken) <= asked
    BY SMTT(30), <1>0, <1>1, PromisesKept, <2>2
  <2> QED BY <1>3, <2>1, <2>3 DEF Counts, C, W, R
<1>10. CASE D!Receive
  <2>1. /\ reader = "idle" /\ requests # <<>> /\ requests' = Tail(requests)
        /\ reader' = IF Head(requests) = "start" THEN "starting" ELSE "stopping"
        /\ UNCHANGED <<streams, channels, asked, viewer>>
    BY <1>10 DEF D!Receive
  <2>2. /\ Head(requests) = "start" => R' + 1 <= R
        /\ Head(requests) # "start" => R' <= R
    BY <1>2, <2>1, StartsRead
  <2>3. C' = C /\ W' = W
    BY <2>1 DEF Came, Waiting
  <2>4. Taken = 0 /\ Taken' = IF Head(requests) = "start" THEN 1 ELSE 0
    BY <2>1 DEF Taken
  <2>5. R' \in Nat
    BY <1>2, <2>1, HeadTailProperties, StartsFinite DEF Demands
  <2> HIDE DEF C, W, R
  <2>6. channels <= C' /\ Promised(streams, R', W', Taken') <= asked
    <3>1. CASE Head(requests) = "start"
      <4>0. R' + 1 <= R /\ Promised(streams, R, W, 0) <= asked
        BY <1>1, <2>2, <2>4, <3>1
      <4>1. Promised(streams, R', W, 1) <= asked
        BY <1>0, PromiseTaken, <2>5, <4>0
      <4> QED BY <1>1, <2>3, <2>4, <3>1, <4>1
    <3>2. CASE Head(requests) # "start"
      <4>0. R' <= R
        BY <2>2, <3>2
      <4>1. Promised(streams, R', W, Taken) <= asked
        BY SMTT(30), <1>0, <1>1, PromisesKept, <2>5, <4>0
      <4> QED BY <1>1, <2>3, <2>4, <3>2, <4>1
    <3> QED BY <3>1, <3>2
  <2> QED BY <2>1, <2>6 DEF Counts, C, W, R
<1>11. CASE D!Started
  <2>1. /\ reader = "starting" /\ reader' = "idle" /\ streams' = streams + 1
        /\ UNCHANGED <<channels, asked, viewer, requests>>
    BY <1>11 DEF D!Started
  <2>2. Taken = 1 /\ Taken' = 0
    BY <2>1 DEF Taken
  <2>3. C' = C /\ W' = W /\ R' = R
    BY <2>1 DEF Came, Waiting
  <2> HIDE DEF C, W, R
  <2>4. channels <= C' /\ Promised(streams', R', W', Taken') <= asked
    BY <1>0, <1>1, PromisesKept, <2>1, <2>2, <2>3
  <2> QED BY <2>1, <2>4 DEF Counts, C, W, R
<1>12. ASSUME UNCHANGED <<channels, asked, viewer, streams>>, requests' \in {requests, <<>>},
              reader' = reader \/ (reader # "starting" /\ reader' # "starting")
       PROVE  Counts'
  <2>1. R' \in Nat /\ R' <= R
    BY <1>0, <1>12, StartsNone
  <2>2. C' = C /\ W' = W /\ Taken' = Taken
    BY <1>12 DEF Came, Waiting, Taken
  <2> HIDE DEF C, W, R
  <2>3. channels <= C' /\ Promised(streams, R', W', Taken') <= asked
    BY <1>0, <1>1, PromisesKept, <2>1, <2>2
  <2> QED BY <1>12, <2>3 DEF Counts, C, W, R
<1>13. ASSUME \/ \E v \in Viewers : D!Close(v) \/ D!Push(v) \/ D!InputEnds(v)
              \/ D!RestStop \/ D!Deliver \/ UNCHANGED D!vars \/ D!ScreenChanges
              \/ \E t \in D!Streams : D!Stream(t)
       PROVE  Counts'
  <2>1. UNCHANGED <<channels, asked, viewer, streams, requests, reader>>
    BY <1>13 DEF D!Close, D!Push, D!InputEnds, D!RestStop, D!Deliver, D!vars, D!ScreenChanges,
                D!Stream, D!Look, D!Decide, D!Send, D!FoundClosed
  <2> QED BY <1>12, <2>1
<1>14. ASSUME D!Stopped \/ D!SessionClosed \/ D!WriterFails \/ D!SessionEnds \/ D!Reconnect \/ D!UserStops
       PROVE  Counts'
  <2>1. /\ UNCHANGED <<channels, asked, viewer, streams>> /\ requests' \in {requests, <<>>}
        /\ reader' = reader \/ (reader # "starting" /\ reader' # "starting")
    BY <1>14 DEF D!Stopped, D!SessionClosed, D!WriterFails, D!SessionEnds, D!Reconnect, D!UserStops
  <2> QED BY <1>12, <2>1
<1> QED BY <1>5, <1>6, <1>7, <1>8, <1>9, <1>10, <1>11, <1>13, <1>14 DEF D!Next, D!Session, D!Agent

(* In every behaviour of the two parts, whichever goes on.                 *)
LEMMA DesktopHolds == MCSpec => [](ViewTypes /\ StreamTypes /\ StreamInv /\ Counts)
<1>1. MCInit => ViewTypes /\ StreamTypes /\ StreamInv /\ Counts
    BY DesktopInitTypes, CountsInit DEF MCInit
<1>2. ViewTypes /\ StreamTypes /\ StreamInv /\ Counts /\ [MCNext]_<<part, vars, desktop>>
        => (ViewTypes /\ StreamTypes /\ StreamInv /\ Counts)'
  <2>1. [MCNext]_<<part, vars, desktop>> => [D!Next]_D!vars
    BY DEF MCNext, desktop, D!vars
  <2> QED BY <2>1, DesktopStep, CountsStep
<1> QED BY <1>1, <1>2, PTL DEF MCSpec

(* One stream is current at most, and it writes to the connection that is  *)
(* up (stream.rs, start_binary and stop).                                  *)
THEOREM OneStreamCurrent == MCSpec => []OneStream
<1>1. ViewTypes /\ StreamTypes /\ StreamInv /\ Counts => OneStream
  <2> SUFFICES ASSUME ViewTypes, StreamTypes, StreamInv, Counts PROVE OneStream
      OBVIOUS
  <2>1. D!OneStream /\ D!StreamHasConnection
    BY DEF StreamInv, D!OneStream, D!Current
  <2>2. channels <= Cardinality(Viewers) /\ streams <= MaxStarts
    <3>1. Came \in SUBSET Viewers /\ Waiting \in SUBSET Viewers
      BY DEF Came, Waiting
    <3>2. /\ Cardinality(Came) \in Nat /\ Cardinality(Came) <= Cardinality(Viewers)
      BY <3>1, ViewersFinite
    <3>3. Cardinality(Waiting) \in Nat
      BY <3>1, ViewersFinite
    <3>4. Cardinality(StartsIn(requests)) \in Nat
      BY StartsFinite DEF ViewTypes
    <3>5. Cardinality(Viewers) \in Nat
      BY ViewersAssumption, FS_CardinalityType
    <3>6. Taken \in Nat /\ asked \in Nat /\ asked <= MaxStarts /\ streams \in Nat /\ channels \in Nat
      BY BoundsAssumption DEF Taken, ViewTypes, StreamTypes
    <3>7. /\ channels <= Cardinality(Came)
          /\ Promised(streams, Cardinality(StartsIn(requests)), Cardinality(Waiting), Taken) <= asked
      BY DEF Counts
    <3>8. streams <= asked
      BY <3>3, <3>4, <3>6, <3>7, PromisesKept
    <3> QED BY <3>2, <3>5, <3>6, <3>7, <3>8, BoundsAssumption
  <2>3. D!TypeOK
    <3>1. {socket, due, push, input} \subseteq [Viewers -> BOOLEAN]
      BY DEF ViewTypes
    <3>0. D!Cardinality(Viewers) = Cardinality(Viewers)
      BY DEF D!Cardinality, Cardinality
    <3>2. channels \in 0..D!Cardinality(Viewers) /\ streams \in 0..MaxStarts
      BY <2>2, <3>0, ViewersAssumption, FS_CardinalityType, BoundsAssumption DEF ViewTypes, StreamTypes
    <3> QED BY <3>1, <3>2 DEF D!TypeOK, ViewTypes, StreamTypes, Situations, Demands, Shown, Task
  <2> QED BY <2>1, <2>3 DEF OneStream
<1> QED BY <1>1, DesktopHolds, PTL
=============================================================================
