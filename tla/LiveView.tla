------------------------------ MODULE LiveView ------------------------------
(***************************************************************************)
(* The picture of one computer on its way to the pages that watch it: the  *)
(* computer-server's screencast, the client's serialized subscription      *)
(* (exec-client.ts), the daemon's sockets and frame acknowledgements       *)
(* (server.ts) and the page's live view (ui/live/session.ts).              *)
(*                                                                         *)
(* The desktop of a hold sends frames all the time; a page the agent       *)
(* drives may send none after the one that starts the stream.              *)
(***************************************************************************)
EXTENDS Naturals, Sequences, FiniteSets

CONSTANTS
    Viewer,        \* windows
    EpochBound,    \* bound: epochs of the takeover row
    ConnectBound,  \* bound: connections of all windows
    FaultBound     \* bound: wakes and subscriptions that fail

ASSUME LiveAssumption == {EpochBound, ConnectBound, FaultBound} \subseteq Nat /\ EpochBound >= 1

VARIABLES
    viewGate,      \* the computer-server's mode
    viewRow,       \* the mode and epoch of the daemon's row
    subscribed,\* screencastSubscribed
    viewStream,    \* what it is casting
    wanted,    \* liveWanted
    tail,      \* liveTail: what is queued
    liveOn,    \* liveClient is set
    viewWaking,    \* a start waits for the computer to wake, and no stop came since
    view,      \* per window: the socket and what the page knows
    inbox,     \* per window: messages on their way
    ghost,     \* windows whose former socket the daemon has not seen closed
    ack,       \* per window: liveFrameAcks
    connects, faults   \* bounded counters

liveVars == <<viewGate, viewRow, subscribed, viewStream, wanted, tail, liveOn, viewWaking, view, inbox, ghost, ack,
              connects, faults>>
clientVars == <<wanted, tail, liveOn, viewWaking>>
serverVars == <<viewGate, viewRow, subscribed, viewStream>>

NoPicture == [mode |-> "none", epoch |-> 0]
Away == [on |-> FALSE, known |-> FALSE, now |-> NoPicture, ready |-> FALSE,
         picture |-> NoPicture, painting |-> NoPicture]
Control == [t |-> "mode", of |-> viewRow]
Frame == [t |-> "frame", of |-> viewRow]
Error == [t |-> "error", of |-> NoPicture]
Sends(vs, m) == inbox' = [v \in Viewer |-> IF v \in vs THEN Append(inbox[v], m) ELSE inbox[v]]
On == {v \in Viewer : view[v].on}

LiveInit ==
    /\ viewGate = "agent" /\ viewRow = [mode |-> "agent", epoch |-> 1]
    /\ subscribed = FALSE /\ viewStream = "off" /\ wanted = FALSE /\ tail = <<>> /\ liveOn = FALSE
    /\ viewWaking = FALSE /\ view = [v \in Viewer |-> Away] /\ inbox = [v \in Viewer |-> <<>>]
    /\ ghost = {} /\ ack = [v \in Viewer |-> "off"] /\ connects = 0 /\ faults = 0

-----------------------------------------------------------------------------
(* The daemon's start and stop, and the client's queue *)

\* stopLive, then startLive: the start waits for the computer to wake.
Restarted ==
    /\ wanted' = FALSE /\ tail' = Append(tail, "stop") /\ viewWaking' = TRUE /\ UNCHANGED liveOn
ViewStopped ==
    /\ wanted' = FALSE /\ tail' = Append(tail, "stop") /\ viewWaking' = FALSE /\ UNCHANGED liveOn
Fails == faults < FaultBound /\ faults' = faults + 1 /\ Sends(On, Error)
WakeEnds ==
    /\ viewWaking /\ viewWaking' = FALSE
    /\ \/ /\ IF wanted THEN UNCHANGED <<wanted, tail>> ELSE wanted' = TRUE /\ tail' = Append(tail, "start")
          /\ UNCHANGED <<inbox, faults>>
       \/ Fails /\ UNCHANGED <<wanted, tail>>
    /\ UNCHANGED <<serverVars, liveOn, view, ghost, ack, connects>>

\* The daemon's frame handler: who gets a frame that the computer sends now.
Forwards ==
    LET to == IF wanted /\ viewRow.mode = viewGate /\ viewRow.mode # "validating"
              THEN {v \in On : ack[v] # "wait"} ELSE {}
    IN  /\ Sends(to, Frame)
        /\ ack' = [v \in Viewer |-> IF v \in to /\ ack[v] = "idle" THEN "wait" ELSE ack[v]]
Casting == IF viewGate = "human" THEN "desktop" ELSE "page"
\* screencast.subscribe: the stream is started, with a frame, unless the hold is between modes.
StartRuns ==
    /\ tail # <<>> /\ Head(tail) = "start" /\ tail' = Tail(tail)
    /\ \/ /\ ~wanted \/ liveOn
          /\ UNCHANGED <<wanted, liveOn, subscribed, viewStream, inbox, ack, faults>>
       \/ /\ wanted /\ ~liveOn /\ liveOn' = TRUE /\ subscribed' = TRUE
          /\ IF viewGate = "validating" THEN UNCHANGED <<viewStream, inbox, ack>>
             ELSE viewStream' = Casting /\ Forwards
          /\ UNCHANGED <<wanted, faults>>
       \/ wanted /\ ~liveOn /\ wanted' = FALSE /\ Fails /\ UNCHANGED <<liveOn, subscribed, viewStream, ack>>
    /\ UNCHANGED <<viewGate, viewRow, viewWaking, view, ghost, connects>>
StopRuns ==
    /\ tail # <<>> /\ Head(tail) = "stop" /\ tail' = Tail(tail)
    /\ liveOn' = FALSE /\ subscribed' = FALSE /\ viewStream' = "off"
    /\ UNCHANGED <<viewGate, viewRow, wanted, viewWaking, view, inbox, ghost, ack, connects, faults>>
\* The desktop shows another frame, or the page changes.
FrameComes ==
    /\ subscribed /\ viewStream # "off" /\ On # {} /\ \A v \in On : inbox[v] = <<>>
    /\ (viewStream = "desktop" => viewGate = "human") /\ (viewStream = "page" => viewGate = "agent")
    /\ Forwards
    /\ UNCHANGED <<serverVars, clientVars, view, ghost, connects, faults>>

-----------------------------------------------------------------------------
(* Control *)

ViewFollows(a, b) == <<a, b>> \in {<<"agent", "human">>, <<"human", "validating">>, <<"validating", "agent">>,
                               <<"validating", "human">>}
\* The computer-server goes first; a grant restarts the stream it had.
GateMoves ==
    /\ viewRow.mode = viewGate /\ viewRow.epoch < EpochBound
    /\ \E m \in {"agent", "human", "validating"} : ViewFollows(viewGate, m) /\ viewGate' = m
    /\ viewStream' = IF viewGate = "agent" /\ subscribed THEN "desktop"
                 ELSE IF viewStream = "desktop" THEN "off" ELSE viewStream
    /\ UNCHANGED <<viewRow, subscribed, clientVars, view, inbox, ghost, ack, connects, faults>>
\* ... then the row, and sendLiveControl.
RowFollows ==
    /\ viewRow.mode # viewGate /\ viewRow' = [mode |-> viewGate, epoch |-> viewRow.epoch + 1]
    /\ Sends(On, [t |-> "mode", of |-> viewRow'])
    /\ ack' = [v \in Viewer |-> IF ack[v] = "off" THEN "off" ELSE "idle"]
    /\ IF On = {} /\ ghost = {} THEN UNCHANGED clientVars ELSE Restarted
    /\ UNCHANGED <<viewGate, subscribed, viewStream, view, ghost, connects, faults>>

-----------------------------------------------------------------------------
(* A window *)

\* openSocket, and the daemon's upgrade.
ViewConnects(v) ==
    /\ ~view[v].on /\ connects < ConnectBound /\ connects' = connects + 1
    /\ view' = [view EXCEPT ![v] = [Away EXCEPT !.on = TRUE]]
    /\ inbox' = [inbox EXCEPT ![v] = <<Control>>] /\ ack' = [ack EXCEPT ![v] = "off"]
    /\ IF On \cup ghost = {} \/ viewRow.mode # "human" THEN Restarted ELSE UNCHANGED clientVars
    /\ UNCHANGED <<serverVars, ghost, faults>>
\* disconnected: on an error, or when the network goes.
Leave(v) ==
    /\ view' = [view EXCEPT ![v] = Away] /\ inbox' = [inbox EXCEPT ![v] = <<>>]
    /\ ack' = [ack EXCEPT ![v] = "off"] /\ ghost' = ghost \cup {v}
ViewDrops(v) ==
    /\ view[v].on /\ v \notin ghost /\ connects < ConnectBound /\ Leave(v)
    /\ UNCHANGED <<serverVars, clientVars, connects, faults>>
\* The daemon sees the former socket closed; the last one stops the stream.
GhostCloses(v) ==
    /\ v \in ghost /\ ghost' = ghost \ {v}
    /\ IF On = {} /\ ghost = {v} THEN ViewStopped ELSE UNCHANGED clientVars
    /\ UNCHANGED <<serverVars, view, inbox, ack, connects, faults>>

\* A frame is acknowledged: the daemon looks whether it is the one it waits for.
Acks(v, rest) ==
    ack' = [ack EXCEPT ![v] = IF @ = "off" \/ \A i \in DOMAIN rest : rest[i].t # "frame" THEN "idle" ELSE @]
Receive(v) ==
    LET m == Head(inbox[v]) rest == Tail(inbox[v]) IN
    /\ view[v].on /\ inbox[v] # <<>>
    /\ \/ /\ m.t = "mode" /\ inbox' = [inbox EXCEPT ![v] = rest]
          /\ view' = [view EXCEPT ![v].known = TRUE, ![v].now = m.of,
                        ![v].ready = @ /\ view[v].now = m.of /\ m.of.mode # "validating"]
          /\ UNCHANGED <<ack, ghost>>
       \/ /\ m.t = "frame" /\ view[v].painting = NoPicture /\ inbox' = [inbox EXCEPT ![v] = rest]
          /\ IF view[v].known /\ m.of = view[v].now /\ m.of.mode # "validating"
             THEN view' = [view EXCEPT ![v].painting = m.of] /\ UNCHANGED ack
             ELSE Acks(v, rest) /\ UNCHANGED view
          /\ UNCHANGED ghost
       \/ m.t = "error" /\ v \notin ghost /\ Leave(v)
    /\ UNCHANGED <<serverVars, clientVars, connects, faults>>
\* A bug: the picture is taken for the one of now, whatever came while it was decoded.
PaintsAnyway(v) ==
    /\ view[v].painting # NoPicture /\ Acks(v, inbox[v])
    /\ view' = [view EXCEPT ![v].painting = NoPicture, ![v].ready = TRUE, ![v].picture = view[v].painting]
    /\ UNCHANGED <<serverVars, clientVars, inbox, ghost, connects, faults>>
\* The frame is decoded: painted and acknowledged, or left unanswered when control has changed.
Painted(v) ==
    /\ view[v].painting # NoPicture
    /\ IF view[v].painting = view[v].now
       THEN /\ Acks(v, inbox[v])
            /\ view' = [view EXCEPT ![v].painting = NoPicture, ![v].ready = TRUE,
                                    ![v].picture = view[v].painting]
       ELSE view' = [view EXCEPT ![v].painting = NoPicture] /\ UNCHANGED ack
    /\ UNCHANGED <<serverVars, clientVars, inbox, ghost, connects, faults>>

LiveNext ==
    \/ WakeEnds \/ StartRuns \/ StopRuns \/ FrameComes \/ GateMoves \/ RowFollows
    \/ \E v \in Viewer : ViewConnects(v) \/ ViewDrops(v) \/ GhostCloses(v) \/ Receive(v) \/ Painted(v)
LiveSpec == LiveInit /\ [][LiveNext]_liveVars

-----------------------------------------------------------------------------
(* Properties *)

Picture == [mode : {"none", "agent", "human", "validating"}, epoch : 0..EpochBound]
\* Every variable has its type.
LiveTypeOK ==
    /\ viewGate \in {"agent", "human", "validating"} /\ viewRow \in Picture
    /\ {subscribed, wanted, liveOn, viewWaking} \subseteq BOOLEAN /\ viewStream \in {"off", "page", "desktop"}
    /\ \A i \in DOMAIN tail : tail[i] \in {"start", "stop"}
    /\ view \in [Viewer -> [on : BOOLEAN, known : BOOLEAN, ready : BOOLEAN, now : Picture,
                            picture : Picture, painting : Picture]]
    /\ ghost \subseteq Viewer /\ ack \in [Viewer -> {"off", "idle", "wait"}]
    /\ connects \in 0..ConnectBound /\ faults \in 0..FaultBound

\* Input goes out only over a picture of the control the page knows of: what was decoded
\* while control changed is not taken for the screen.
ReadyIsCurrent ==
    \A v \in Viewer : view[v].ready => view[v].known /\ view[v].picture = view[v].now

\* docs/ARCHITECTURE.md: "Live subscriptions serialize start/stop operations so an early
\* takeover cannot lose its screen subscription."
MayShow(v) == view[v].on /\ viewRow.mode = viewGate /\ viewGate # "validating"
=============================================================================
