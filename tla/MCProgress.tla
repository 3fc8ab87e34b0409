----------------------------- MODULE MCProgress -----------------------------
(***************************************************************************)
(* Model checking of what must go on: the calls and the sessions of        *)
(* Gateway, and the streams and viewers of Desktop, under the fairness     *)
(* each of them states. A behaviour is one of one of the two, drawn at its *)
(* beginning, while the other stands still: a stream is not a call, and    *)
(* neither touches the other's state.                                      *)
(***************************************************************************)
EXTENDS Gateway, FiniteSets

CONSTANTS Viewers, MaxStarts, MaxConns, MaxScreens, Views

ASSUME ViewersAssumption == IsFiniteSet(Viewers)
ASSUME BoundsAssumption  == MaxStarts \in Nat /\ MaxConns \in Nat \ {0} /\ MaxScreens \in Nat \ {0}

VARIABLES
    part,
    view, sender, channels, asked, cache, viewer, socket, receiver, due, push, input, rest,
    conn, connUp, writer, requests, frames, screen, generation, streaming, reader, mine, user,
    streams, stream

desktop == <<view, sender, channels, asked, cache, viewer, socket, receiver, due, push, input,
             rest, conn, connUp, writer, requests, frames, screen, generation, streaming,
             reader, mine, user, streams, stream>>

D == INSTANCE Desktop WITH
        Scenarios <- Views, env <- view, session <- viewer, up <- connUp, started <- streams

ASSUME ViewsAssumption == Views \subseteq SUBSET D!Events

LiveWorlds == {{"call", "cancel", "abandon", "lapse"},
               {"heartbeat", "disconnect", "lapse", "reconnect"}}

MCInit ==
    /\ part \in {"gateway", "desktop"}
    /\ IF part = "gateway" THEN TRUE ELSE env = CHOOSE s \in LiveWorlds : TRUE
    /\ IF part = "desktop" THEN TRUE ELSE view = CHOOSE s \in Views : TRUE
    /\ Init /\ D!Init

MCNext ==
    \/ part = "gateway" /\ Next   /\ UNCHANGED <<part, desktop>>
    \/ part = "desktop" /\ D!Next /\ UNCHANGED <<part, vars>>

(* The fairness of each part, as it states it.                             *)
InGateway(A) == part = "gateway" /\ A
InDesktop(A) == part = "desktop" /\ A
MCFairness ==
    /\ \A k \in Calls :
          /\ WF_vars(InGateway(Progress(k)))
          /\ WF_vars(InGateway(Send("canceller", k) \/ CancelAnswer(k)))
    /\ \A c \in Conns :
          /\ WF_vars(InGateway(StoreSession(c)))
          /\ WF_vars(InGateway(SendAck(c) \/ FailAck(c)))
          /\ WF_vars(InGateway(NotifyDisconnect(c)))
          /\ WF_vars(InGateway(CleanupStatus(c) \/ CleanupCalls(c) \/ CleanupForwarder(c)))
    /\ \A t \in Terminals :
          /\ WF_vars(InGateway(Silent(t) /\ HeartbeatLapses(t)))
          /\ WF_vars(InGateway(NotifySwept(t)))
    /\ WF_vars(InGateway(Sweep))
    /\ \A v \in Viewers :
          /\ WF_desktop(InDesktop(D!Push(v)))
          /\ WF_desktop(InDesktop(D!InputEnds(v)))
          /\ WF_desktop(InDesktop(D!Serve(v) \/ D!Leave(v) \/ D!CheckLast(v) \/ D!Drop(v) \/ D!SendStop(v)))
    /\ WF_desktop(InDesktop(D!RestSendStop))
    /\ WF_desktop(InDesktop(D!Deliver))
    /\ WF_desktop(InDesktop(D!Agent))
    /\ WF_desktop(InDesktop(user = "stopping" /\ D!UserStops))
    /\ \A t \in D!Streams : WF_desktop(InDesktop(D!Stream(t)))

MCSpec == MCInit /\ [][MCNext]_<<part, vars, desktop>> /\ MCFairness

-----------------------------------------------------------------------------
(* Nothing waits for ever: a call that was asked for returns whatever the  *)
(* agent does (router.rs, invoke_tool), and a session that is Online over a*)
(* dead connection is noticed (registry.rs, the sweep for heartbeats).     *)
NothingHangs == CallReturns /\ DeadSessionNoticed

(* One stream is current at most, on the connection that is up (stream.rs, *)
(* start_binary and stop).                                                 *)
OneStream == D!TypeOK /\ D!OneStream /\ D!StreamHasConnection

(* The first picture of a stream gets through, however full its channel is *)
(* (stream.rs, apply_send_outcome).                                        *)
FirstPicture == D!FirstPicture

(* Streams that were superseded and sessions whose viewer has left come to *)
(* their end (stream.rs, start_binary; dashboard.rs,                       *)
(* handle_desktop_ws_session).                                             *)
StreamsSettle == D!OldStreamEnds /\ D!SessionReturns
=============================================================================
