------------------------------ MODULE Desktop ------------------------------
(***************************************************************************)
(* Remote desktop of one terminal: the viewers' sessions in the server,    *)
(* the broadcast they share, the requests to start and to stop, and the    *)
(* agent's stream tasks, which capture the screen and send pictures back.  *)
(*                                                                         *)
(* Sources: crates/server/src/mcp/dashboard.rs (the desktop handlers),     *)
(* router.rs (frames, subscribers, start and stop), and                    *)
(* crates/agent/src/stream.rs with the messages that reach it in           *)
(* ws_client.rs. A viewer's session runs two tasks and goes on when one of *)
(* them ends; the other is not aborted. A stream task looks at a flag and  *)
(* at a generation, which a start and a stop change one after the other.   *)
(*                                                                         *)
(* Abstracted: a picture is the version of the screen it shows (versions   *)
(* that differ by less than the threshold are the same one); time, so that *)
(* an unchanged screen is skipped or answered with a keepalive at will;    *)
(* the broadcast's lag; time stamps, which one connection delivers in      *)
(* order; tickets; input events; the registry, which Gateway models: a     *)
(* request reaches the connection that is up, or nobody.                   *)
(***************************************************************************)
EXTENDS Naturals, Sequences, FiniteSets

CONSTANTS
    Viewers,      \* sessions of /desktop/ws
    MaxStarts,    \* bound on requests to start
    MaxConns,     \* bound on connections of the agent
    MaxScreens,   \* bound on the screen's versions
    Scenarios     \* what may happen: a behaviour draws one of these

(* A viewer leaves; an operator starts or stops the stream by REST; the    *)
(* agent's connection is lost and made again; the agent's user disconnects *)
(* or changes the address; the screen changes. MaxStarts is a number, the  *)
(* other bounds are at least one.                                          *)
Events == {"close", "restStart", "restStop", "reconnect", "user", "change"}

Capacity  == 2             \* of the channel of pictures
Streams   == 1..MaxStarts
Pictures  == 1..MaxScreens
Keepalive == 0             \* a frame without a picture
Blank     == 0             \* no picture yet
Closed    == 0             \* no broadcast

VARIABLES
    env,        \* the scenario of this behaviour
    sender,     \* desktop_frame_senders: the broadcast of the terminal
    channels,   \* broadcasts made so far
    asked,      \* requests to start so far
    cache,      \* desktop_frames: the latest picture
    session,    \* how far a viewer's session is
    socket,     \* the viewer is there
    receiver,   \* the broadcast its push task listens to
    due,        \* a frame is waiting for the push task
    push, input,  \* the two tasks run
    rest,       \* an operator's stop is under way
    conn, up,   \* the agent's connection
    writer,     \* its writing task, which owns the channel of pictures, runs
    requests,   \* what the server has sent over it
    frames,     \* what the agent has queued for it
    screen,
    generation, streaming,  \* of DesktopStreamController
    reader,     \* what the agent's reader is in the middle of
    mine,       \* the generation it has raised for that
    user,       \* what its user has done
    started,    \* streams so far
    stream      \* the stream tasks

viewing == <<session, socket, receiver, due, push, input>>
server  == <<sender, channels, cache>>
link    == <<conn, up, writer>>
control == <<generation, streaming, reader, mine, user, started>>
vars == <<env, asked, server, viewing, rest, link, requests, frames, screen, control, stream>>

NoStream == [phase |-> "none", gen |-> 0, conn |-> 0, last |-> Blank, next |-> Keepalive]

Init ==
    /\ env \in Scenarios
    /\ sender = Closed /\ channels = 0 /\ asked = 0 /\ cache = Blank
    /\ session = [v \in Viewers |-> "away"]
    /\ socket = [v \in Viewers |-> FALSE]
    /\ receiver = [v \in Viewers |-> Closed]
    /\ due = [v \in Viewers |-> FALSE]
    /\ push = [v \in Viewers |-> FALSE] /\ input = [v \in Viewers |-> FALSE]
    /\ rest = "idle"
    /\ conn = 1 /\ up = TRUE /\ writer = TRUE /\ requests = <<>> /\ frames = <<>>
    /\ screen = 1
    /\ generation = 0 /\ streaming = FALSE /\ reader = "idle" /\ mine = 0 /\ user = "idle"
    /\ started = 0 /\ stream = [t \in Streams |-> NoStream]

-----------------------------------------------------------------------------
(* Requests to the agent.                                                  *)

Request(m) == requests' = IF up THEN Append(requests, m) ELSE requests

(* start_desktop_stream, which is bound to happen MaxStarts times at most  *)
Reserve  == asked < MaxStarts /\ asked' = asked + 1
AskStart == cache' = Blank /\ Request("start")

(* stop_desktop_stream, as far as its lock goes: the broadcast is dropped, *)
(* and its listeners find it closed.                                       *)
DropSender == cache' = Blank /\ sender' = Closed

-----------------------------------------------------------------------------
(* A viewer's session.                                                     *)

Moves(v, from, to) == session[v] = from /\ session' = [session EXCEPT ![v] = to]

Receivers == {v \in Viewers : sender # Closed /\ receiver[v] = sender}

Connect(v) ==
    /\ Moves(v, "away", "subscribed") /\ Reserve
    /\ socket' = [socket EXCEPT ![v] = TRUE]
    /\ IF sender = Closed
       THEN sender' = channels + 1 /\ channels' = channels + 1
       ELSE UNCHANGED <<sender, channels>>
    /\ receiver' = [receiver EXCEPT ![v] = sender']
    /\ UNCHANGED <<env, cache, due, push, input, rest, link, requests, frames, screen,
                   control, stream>>

Serve(v) ==
    /\ Moves(v, "subscribed", "serving")
    /\ AskStart
    /\ push' = [push EXCEPT ![v] = TRUE] /\ input' = [input EXCEPT ![v] = TRUE]
    /\ UNCHANGED <<env, asked, sender, channels, socket, receiver, due, rest, link, frames,
                   screen, control, stream>>

Close(v) ==
    /\ "close" \in env /\ socket[v]
    /\ socket' = [socket EXCEPT ![v] = FALSE]
    /\ UNCHANGED <<env, asked, server, session, receiver, due, push, input, rest, link, requests,
                   frames, screen, control, stream>>

(* frame_push_task: a frame goes to the viewer, or the task ends, because  *)
(* the viewer is away or because the broadcast is closed and all was read. *)
Push(v) ==
    /\ push[v]
    /\ \/ due[v] /\ due' = [due EXCEPT ![v] = FALSE]
       \/ ~due[v] /\ receiver[v] # sender /\ UNCHANGED due
    /\ IF due[v] /\ socket[v]
       THEN UNCHANGED <<push, receiver>>
       ELSE /\ push' = [push EXCEPT ![v] = FALSE]
            /\ receiver' = [receiver EXCEPT ![v] = Closed]
    /\ UNCHANGED <<env, asked, server, session, socket, input, rest, link, requests, frames,
                   screen, control, stream>>

(* input_task *)
InputEnds(v) ==
    /\ input[v] /\ ~socket[v]
    /\ input' = [input EXCEPT ![v] = FALSE]
    /\ UNCHANGED <<env, asked, server, session, socket, receiver, due, push, rest, link, requests,
                   frames, screen, control, stream>>

(* The select returns with the first of the two.                           *)
OneEnded(v) == ~push[v] \/ ~input[v]

Leave(v) ==
    /\ Moves(v, "serving", "leaving") /\ OneEnded(v)
    /\ UNCHANGED <<env, asked, server, socket, receiver, due, push, input, rest, link, requests,
                   frames, screen, control, stream>>

CheckLast(v) ==
    /\ \/ Moves(v, "leaving", "last") /\ Receivers = {}
       \/ Moves(v, "leaving", "gone") /\ Receivers # {}
    /\ UNCHANGED <<env, asked, server, socket, receiver, due, push, input, rest, link, requests,
                   frames, screen, control, stream>>

Drop(v) ==
    /\ Moves(v, "last", "stopping") /\ DropSender
    /\ UNCHANGED <<env, asked, channels, socket, receiver, due, push, input, rest, link, requests,
                   frames, screen, control, stream>>

SendStop(v) ==
    /\ Moves(v, "stopping", "gone") /\ Request("stop")
    /\ UNCHANGED <<env, asked, server, socket, receiver, due, push, input, rest, link, frames,
                   screen, control, stream>>

Session(v) ==
    Serve(v) \/ Push(v) \/ InputEnds(v) \/ Leave(v) \/ CheckLast(v) \/ Drop(v) \/ SendStop(v)

(* POST /desktop/stream and /desktop/stop.                                 *)
RestStart ==
    /\ "restStart" \in env /\ Reserve /\ AskStart
    /\ UNCHANGED <<env, sender, channels, viewing, rest, link, frames, screen, control,
                   stream>>

RestStop ==
    /\ "restStop" \in env /\ rest = "idle" /\ rest' = "stopping" /\ DropSender
    /\ UNCHANGED <<env, asked, channels, viewing, link, requests, frames, screen, control, stream>>

RestSendStop ==
    /\ rest = "stopping" /\ rest' = "done" /\ Request("stop")
    /\ UNCHANGED <<env, asked, server, viewing, link, frames, screen, control, stream>>

(* handle_desktop_frame_binary: every listener gets the frame, and a       *)
(* picture is cached.                                                      *)
Deliver ==
    /\ frames # <<>> /\ frames' = Tail(frames)
    /\ due' = [v \in Viewers |-> due[v] \/ v \in Receivers]
    /\ cache' = IF Head(frames) = Keepalive THEN cache ELSE Head(frames)
    /\ UNCHANGED <<env, asked, sender, channels, session, socket, receiver, push, input, rest,
                   link, requests, screen, control, stream>>

-----------------------------------------------------------------------------
(* The agent's reader and its controller. A start and a stop first raise   *)
(* the generation, then set the flag; the task of a start is spawned last. *)

Bump_NotOnStart(doing) == \* a start reuses the generation
    generation' = IF doing = "starting" THEN generation ELSE generation + 1
Bump(doing) == generation' = generation + 1

Receive ==
    /\ up /\ reader = "idle" /\ requests # <<>>
    /\ reader' = IF Head(requests) = "start" THEN "starting" ELSE "stopping"
    /\ requests' = Tail(requests)
    /\ Bump(reader') /\ mine' = generation'
    /\ UNCHANGED <<env, asked, server, viewing, rest, link, frames, screen, streaming, user,
                   started, stream>>

Started ==
    /\ reader = "starting" /\ reader' = "idle"
    /\ streaming' = TRUE /\ started' = started + 1
    /\ stream' = [stream EXCEPT ![started'] =
           [phase |-> "look", gen |-> mine, conn |-> conn, last |-> Blank, next |-> Keepalive]]
    /\ UNCHANGED <<env, asked, server, viewing, rest, link, requests, frames, screen,
                   generation, mine, user>>

(* A write fails: the writing task ends, and the channel of pictures with  *)
(* it, long before the reader notices.                                     *)
WriterFails ==
    /\ "reconnect" \in env /\ up /\ writer /\ writer' = FALSE
    /\ frames' = <<>>
    /\ UNCHANGED <<env, asked, server, viewing, rest, conn, up, requests, screen, control,
                   stream>>

(* The end of a session stops the stream, and with the session its channel *)
(* of pictures is closed. Another session may follow.                      *)
SessionEnds ==
    /\ "reconnect" \in env /\ up /\ reader = "idle" /\ reader' = "ending"
    /\ Bump(reader')
    /\ UNCHANGED <<env, asked, server, viewing, rest, link, requests, frames, screen,
                   streaming, mine, user, started, stream>>

Stopped ==
    /\ \/ reader = "stopping" /\ reader' = "idle"
       \/ reader = "ending" /\ reader' = "closing"
    /\ streaming' = FALSE
    /\ UNCHANGED <<env, asked, server, viewing, rest, link, requests, frames, screen,
                   generation, mine, user, started, stream>>

SessionClosed ==
    /\ reader = "closing" /\ reader' = "idle"
    /\ up' = FALSE /\ writer' = FALSE /\ requests' = <<>> /\ frames' = <<>>
    /\ UNCHANGED <<env, asked, server, viewing, rest, conn, screen, generation, streaming,
                   mine, user, started, stream>>

Reconnect ==
    /\ ~up /\ conn < MaxConns
    /\ up' = TRUE /\ writer' = TRUE /\ conn' = conn + 1
    /\ UNCHANGED <<env, asked, server, viewing, rest, requests, frames, screen, control,
                   stream>>

(* disconnect and abort_active_session stop the stream from another task.  *)
UserStops ==
    /\ "user" \in env
    /\ \/ user = "idle" /\ user' = "stopping" /\ Bump(user') /\ UNCHANGED streaming
       \/ user = "stopping" /\ user' = "done" /\ streaming' = FALSE /\ UNCHANGED generation
    /\ UNCHANGED <<env, asked, server, viewing, rest, link, requests, frames, screen, reader,
                   mine, started, stream>>

-----------------------------------------------------------------------------
(* A stream task.                                                          *)

Phase(t, from, to, next) ==
    stream[t].phase = from /\ stream' = [stream EXCEPT ![t].phase = to, ![t].next = next]

Current(t) == stream[t].gen = generation

(* Checks the flag and the generation and captures the screen: a picture   *)
(* if it has changed since the last one that counts as sent, a keepalive   *)
(* if it has not and one is due. If none is, or if the capture or the      *)
(* encoding fails, the round ends here and the next one begins.            *)
Look_FlagOnly(t) == \* the generation is looked at with a picture in hand
    /\ IF streaming
       THEN Phase(t, "look", IF screen = stream[t].last THEN "look" ELSE "captured", screen)
       ELSE Phase(t, "look", "ended", Keepalive)
    /\ UNCHANGED <<env, asked, server, viewing, rest, link, requests, frames, screen,
                   control>>
Look(t) ==
    /\ IF streaming /\ Current(t)
       THEN Phase(t, "look", "captured",
                  IF screen = stream[t].last THEN Keepalive ELSE screen)
       ELSE Phase(t, "look", "ended", Keepalive)
    /\ UNCHANGED <<env, asked, server, viewing, rest, link, requests, frames, screen,
                   control>>

(* What was captured for an older generation is thrown away.               *)
Decide(t) ==
    /\ Phase(t, "captured", IF Current(t) THEN "send" ELSE "ended",
             IF Current(t) THEN stream[t].next ELSE Keepalive)
    /\ UNCHANGED <<env, asked, server, viewing, rest, link, requests, frames, screen,
                   control>>

(* try_send. A picture that finds the channel full counts as sent, unless  *)
(* none was sent before.                                                   *)
Open(t) == writer /\ conn = stream[t].conn
Room          == Len(frames) < Capacity
Commits_Full(t) == \* the first picture counts as sent too
    stream[t].next # Keepalive
Commits(t) == stream[t].next # Keepalive /\ (Room \/ stream[t].last # Blank)

Send(t) ==
    /\ stream[t].phase = "send"
    /\ IF Open(t)
       THEN /\ stream' = [stream EXCEPT ![t].phase = "look", ![t].next = Keepalive,
                    ![t].last = IF Commits(t) THEN stream[t].next ELSE @]
            /\ frames' = IF Room THEN Append(frames, stream[t].next) ELSE frames
       ELSE stream' = [stream EXCEPT ![t].phase = "closing"] /\ UNCHANGED frames
    /\ UNCHANGED <<env, asked, server, viewing, rest, link, requests, screen, control>>

(* The channel was closed: the flag goes down, whoever has raised it.      *)
FoundClosed(t) ==
    /\ Phase(t, "closing", "ended", Keepalive)
    /\ streaming' = FALSE
    /\ UNCHANGED <<env, asked, server, viewing, rest, link, requests, frames, screen,
                   generation, reader, mine, user, started>>

Stream(t) == Look(t) \/ Decide(t) \/ Send(t) \/ FoundClosed(t)

ScreenChanges ==
    /\ "change" \in env /\ screen < MaxScreens /\ screen' = screen + 1
    /\ UNCHANGED <<env, asked, server, viewing, rest, link, requests, frames, control,
                   stream>>

-----------------------------------------------------------------------------
Agent == Receive \/ Started \/ Stopped \/ SessionClosed

Next ==
    \/ \E v \in Viewers : Connect(v) \/ Close(v) \/ Session(v)
    \/ RestStart \/ RestStop \/ RestSendStop \/ Deliver
    \/ Agent \/ WriterFails \/ SessionEnds \/ Reconnect \/ UserStops
    \/ \E t \in Streams : Stream(t)
    \/ ScreenChanges

Spec == Init /\ [][Next]_vars

(* Every task that can go on does: each of the two tasks of a viewer's     *)
(* session and the handler that waits for them, the connection's reader    *)
(* and writer, the controller's callers and the stream tasks, whose        *)
(* captures do not all fail. Nobody need connect, leave or click, and a    *)
(* lost connection need not come back.                                     *)
Fairness ==
    /\ \A v \in Viewers :
          /\ WF_vars(Push(v)) /\ WF_vars(InputEnds(v))
          /\ WF_vars(Serve(v) \/ Leave(v) \/ CheckLast(v) \/ Drop(v) \/ SendStop(v))
    /\ WF_vars(RestSendStop) /\ WF_vars(Deliver) /\ WF_vars(Agent)
    /\ WF_vars(user = "stopping" /\ UserStops)
    /\ \A t \in Streams : WF_vars(Stream(t))

LiveSpec == Spec /\ Fairness

-----------------------------------------------------------------------------
Phases == {"none", "look", "captured", "send", "closing", "ended"}
Live(t) == stream[t].phase \notin {"none", "ended"}

(* Types, and the bounds of the channels.                                  *)
TypeOK ==
    /\ env \subseteq Events
    /\ sender \in 0..channels /\ channels \in 0..Cardinality(Viewers)
    /\ asked \in 0..MaxStarts /\ cache \in {Blank} \cup Pictures
    /\ session \in [Viewers -> {"away", "subscribed", "serving", "leaving", "last",
                                 "stopping", "gone"}]
    /\ {socket, due, push, input} \subseteq [Viewers -> BOOLEAN]
    /\ receiver \in [Viewers -> 0..channels]
    /\ rest \in {"idle", "stopping", "done"}
    /\ conn \in 1..MaxConns /\ up \in BOOLEAN /\ writer \in BOOLEAN
    /\ requests \in Seq({"start", "stop"})
    /\ frames \in Seq({Keepalive} \cup Pictures) /\ Len(frames) <= Capacity
    /\ screen \in Pictures
    /\ generation \in Nat /\ streaming \in BOOLEAN
    /\ reader \in {"idle", "starting", "stopping", "ending", "closing"} /\ mine \in 0..generation
    /\ user \in {"idle", "stopping", "done"}
    /\ started \in 0..MaxStarts
    /\ stream \in [Streams -> [phase : Phases, gen : 0..generation, conn : 0..conn,
                               last : {Blank} \cup Pictures, next : {Keepalive} \cup Pictures]]

(* However starts, stops and sessions follow each other, two streams are   *)
(* never both current: the one that is told apart by its generation.       *)
OneStream ==
    \A t, u \in Streams : Live(t) /\ Live(u) /\ Current(t) /\ Current(u) => t = u

(* A stream that goes on belongs to the connection that is up: the end of  *)
(* a session has stopped the streams that write to its channel.            *)
StreamHasConnection ==
    \A t \in Streams : Live(t) /\ Current(t) => up /\ conn = stream[t].conn

(* A stream that was superseded or stopped comes to its end, wherever in   *)
(* its round it was, and although the flag may have been raised again.     *)
OldStreamEnds ==
    \A t \in Streams : []<>(Live(t) => Current(t))

(* While a stream goes on for ever there is a picture in the cache, which  *)
(* its start has emptied: its first picture gets through some day, although*)
(* the channel may be full whenever it has one to send.                    *)
Runs(t) == Live(t) /\ Current(t) /\ streaming

FirstPicture == \A t \in Streams : <>[]Runs(t) => <>[](cache # Blank)

(* A session whose viewer has left comes to its end, frames or no frames.  *)
SessionReturns == \A v \in Viewers : []<>(session[v] \in {"away", "gone"} \/ socket[v])

(* "Only when the second connection is closed too is StopDesktopStream     *)
(* sent": the stream of a terminal whose viewers have all left is stopped. *)
Watched == \E v \in Viewers : socket[v]
UnwatchedStops == []<>Watched \/ []<>(\A t \in Streams : ~Runs(t))
=============================================================================
