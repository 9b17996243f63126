------------------------------ MODULE Sessions ------------------------------
(***************************************************************************)
(* Who may drive the computer from a browser: sessions and the one-use     *)
(* links they are paired with (daemon/auth.ts, store.ts, server.ts), the   *)
(* live sockets opened with them and the queue in which a socket's input   *)
(* waits to be relayed (server.ts handleUpgrade), down to what the         *)
(* computer then holds down (browser/live-key.ts, desktop.ts).             *)
(*                                                                         *)
(* One computer.  A session is named by the link it is made with; the lease *)
(* of a takeover is taken and ended as a whole, Takeover has its handshake. *)
(* The time of a lease and of a session passes at any moment.              *)
(***************************************************************************)
EXTENDS Naturals, Sequences, FiniteSets

CONSTANTS
    People,     \* the sessions there may be
    Host,       \* the issuer of the link that the command line prints
    Tabs,       \* live sockets: each is opened once
    LinkLimit,  \* links that may be unused at a time, 20 in the code
    ActBound,   \* bound: moves, presses and releases of the person
    LeaseBound  \* bound: takeovers

ASSUME SessionsAssumption ==
    Host \notin People \cup Tabs /\ {LinkLimit, ActBound, LeaseBound} \subseteq Nat

VARIABLES
    authLogin,   \* a session: none, invited, live, gone
    issuer,  \* who asked for its link
    told,    \* the devices pane has said that this device is out
    authTab,     \* a live socket: whose it is and whether it is open
    queue,   \* relayTail: the input of the socket not answered yet
    authHead,    \* the first of it: idle, waking the computer, sent
    lease,   \* the takeover row: its holder, its epoch, its state
    wire,    \* on its way to the computer
    authGate,    \* the epoch the computer takes input of, 0 for none
    held,    \* what is held down on the computer
    authSeen,    \* the last act of each socket that the computer did
    authSaid,    \* the last move of each socket that was taken
    acts     \* bounded counter

peopleVars == <<authLogin, issuer, told>>
inputVars == <<authTab, queue, authHead, wire, authSaid>>
computerVars == <<authGate, held, authSeen>>
sessionsVars == <<peopleVars, inputVars, computerVars, lease, acts>>

NoMove == [n |-> 0, epoch |-> 0]
SessionsInit ==
    /\ authLogin = [p \in People |-> "none"] /\ issuer = [p \in People |-> Host]
    /\ told = {} /\ authTab = [t \in Tabs |-> [of |-> Host, state |-> "none"]]
    /\ queue = [t \in Tabs |-> <<>>] /\ authHead = [t \in Tabs |-> "idle"]
    /\ lease = [of |-> Host, epoch |-> 0, state |-> "none"]
    /\ wire = <<>> /\ authGate = 0 /\ held = {} /\ authSeen = [t \in Tabs |-> 0]
    /\ authSaid = [t \in Tabs |-> NoMove] /\ acts = 0

Live(p) == p \in People /\ authLogin[p] = "live"
\* acceptWebSocket: readyState, and the frames read while it is open, each delivered
\* once and in the order it came.
AuthOpen == {t \in Tabs : authTab[t].state = "open"}
Delivers(t) == t \in AuthOpen /\ acts < ActBound /\ acts' = acts + 1
\* validateLiveRelayFrame
Valid(p, e) == lease.state = "held" /\ lease.of = p /\ lease.epoch = e

-----------------------------------------------------------------------------
(* Pairing and revoking *)

\* createPairing, behind requireUiSession or printed by the command line
Invites(i, p) ==
    /\ authLogin[p] = "none" /\ (i = Host \/ Live(i))
    /\ Cardinality({q \in People : authLogin[q] = "invited"}) < LinkLimit
    /\ authLogin' = [authLogin EXCEPT ![p] = "invited"] /\ issuer' = [issuer EXCEPT ![p] = i]
    /\ UNCHANGED <<told, inputVars, computerVars, lease, acts>>
\* consumeBootstrapToken: unused, in time, and its issuer still signed in
Consumes(p) == authLogin[p] = "invited" /\ (issuer[p] = Host \/ Live(issuer[p]))
\* POST /session/bootstrap: consumeBootstrapToken, createSession
Pairs(p) ==
    /\ Consumes(p)
    /\ authLogin' = [authLogin EXCEPT ![p] = "live"]
    /\ UNCHANGED <<issuer, told, inputVars, computerVars, lease, acts>>
\* The ten minutes of a link, the week of a session.
AuthTimesOut(p) ==
    /\ authLogin[p] \in {"invited", "live"} /\ authLogin' = [authLogin EXCEPT ![p] = "gone"]
    /\ UNCHANGED <<issuer, told, inputVars, computerVars, lease, acts>>

\* emitClose: a socket closes once
EmitsClose(ts) ==
    authTab' = [t \in Tabs |-> [authTab[t] EXCEPT !.state = IF t \in ts THEN "closed" ELSE @]]
\* What the closing of these sockets puts on the wire: the lease's own keys are
\* released, and the picture is no longer asked for once nobody watches.
Reset == [tab |-> Host, kind |-> "reset", n |-> 0, epoch |-> 0]
Unsubscribe == [Reset EXCEPT !.kind = "unsubscribe"]
Closing(ts) ==
    /\ EmitsClose(ts)
    /\ wire' = wire
        \o (IF \E t \in ts : Valid(authTab[t].of, lease.epoch)
            THEN <<[Reset EXCEPT !.epoch = lease.epoch]>> ELSE <<>>)
        \o (IF ts # {} /\ AuthOpen \subseteq ts THEN <<Unsubscribe>> ELSE <<>>)
\* The pane of the one who revokes, once the call has returned.
CallsOut(p) == told' = told \cup {p}
\* deleteSession, closeSessionSockets; DELETE /session/devices, /session/logout
AuthRevokes(by, p) ==
    /\ Live(by) /\ Live(p)
    /\ authLogin' = [authLogin EXCEPT ![p] = "gone"]
    /\ CallsOut(p)
    /\ Closing({t \in AuthOpen : authTab[t].of = p})
    /\ UNCHANGED <<issuer, queue, authHead, authSaid, computerVars, lease, acts>>

-----------------------------------------------------------------------------
(* A live socket *)

AuthOpens(t, p) ==
    /\ authTab[t].state = "none" /\ Live(p)
    /\ authTab' = [authTab EXCEPT ![t] = [of |-> p, state |-> "open"]]
    /\ UNCHANGED <<peopleVars, queue, authHead, wire, authSaid, computerVars, lease, acts>>
\* The browser goes away, or socketSessionTimer finds that the session has.
AuthCloses(t) ==
    /\ t \in AuthOpen /\ Closing({t})
    /\ UNCHANGED <<peopleVars, queue, authHead, authSaid, computerVars, lease, acts>>

\* A move not started is overtaken by the next one, unless something else was done since.
Overtakes(t) ==
    LET q == queue[t] IN
    /\ q # <<>> /\ (Len(q) > 1 \/ authHead[t] = "idle")
    /\ q[Len(q)].kind = "move" /\ q[Len(q)].epoch = lease.epoch
\* A bug: any move that still waits is overtaken.
OvertakesPast(t, m) ==
    LET q == queue[t]
        waiting == {i \in DOMAIN q : q[i].kind = "move" /\ (i > 1 \/ authHead[t] = "idle")}
    IN IF m.kind = "move" /\ waiting # {}
       THEN [q EXCEPT ![CHOOSE i \in waiting : TRUE] = m] ELSE Append(q, m)
\* ws.onMessage: relayTail and pendingMove
Queued(t, m) ==
    IF m.kind = "move" /\ Overtakes(t) THEN [queue[t] EXCEPT ![Len(queue[t])] = m]
    ELSE Append(queue[t], m)
\* ws.onMessage: pointer, key, text
Acts(t, kind) ==
    /\ Delivers(t) /\ Live(authTab[t].of) /\ Valid(authTab[t].of, lease.epoch)
    /\ LET m == [tab |-> t, kind |-> kind, n |-> acts + 1, epoch |-> lease.epoch] IN
       /\ queue' = [queue EXCEPT ![t] = Queued(t, m)]
       /\ authSaid' = IF kind = "move" THEN [authSaid EXCEPT ![t] = [n |-> m.n, epoch |-> m.epoch]] ELSE authSaid
    /\ UNCHANGED <<peopleVars, authTab, authHead, wire, computerVars, lease>>

Drops(t) == queue' = [queue EXCEPT ![t] = Tail(@)] /\ authHead' = [authHead EXCEPT ![t] = "idle"]
Waits(t, stage) == queue[t] # <<>> /\ authHead[t] = stage
Allowed(t) == t \in AuthOpen /\ Live(authTab[t].of)
\* authorizeSocket closes the socket of a session that is gone.
AuthRefused(t) == Drops(t) /\ Closing({t} \cap AuthOpen)
Starts(t) ==
    /\ Waits(t, "idle")
    /\ \/ /\ Allowed(t) /\ authHead' = [authHead EXCEPT ![t] = "waking"] /\ UNCHANGED <<queue, authTab, wire>>
       \/ /\ ~Allowed(t) /\ AuthRefused(t)
    /\ UNCHANGED <<peopleVars, authSaid, computerVars, lease, acts>>
Relays(t) ==
    /\ authHead' = [authHead EXCEPT ![t] = "sent"] /\ wire' = Append(wire, queue[t][1])
    /\ UNCHANGED <<queue, authTab>>
\* A bug: what was asked before the computer was woken is not asked again.
WokenAsBefore(t) ==
    /\ Waits(t, "waking") /\ Relays(t)
    /\ UNCHANGED <<peopleVars, authSaid, computerVars, lease, acts>>
\* idlePause.wake has returned: the socket, the session and the lease are asked again.
AuthWoken(t) ==
    /\ Waits(t, "waking")
    /\ \/ Allowed(t) /\ Valid(authTab[t].of, queue[t][1].epoch) /\ Relays(t)
       \/ Allowed(t) /\ ~Valid(authTab[t].of, queue[t][1].epoch) /\ Drops(t) /\ UNCHANGED <<authTab, wire>>
       \/ ~Allowed(t) /\ AuthRefused(t)
    /\ UNCHANGED <<peopleVars, authSaid, computerVars, lease, acts>>

-----------------------------------------------------------------------------
(* The lease and the computer *)

Takes(p) ==
    /\ Live(p) /\ lease.state = "none" /\ lease.epoch < LeaseBound /\ wire = <<>>
    /\ lease' = [of |-> p, epoch |-> lease.epoch + 1, state |-> "held"]
    /\ authGate' = lease.epoch + 1
    /\ UNCHANGED <<peopleVars, inputVars, held, authSeen, acts>>
\* Its time is up: input is refused before the computer is told.
AuthLapses ==
    /\ lease.state = "held" /\ lease' = [lease EXCEPT !.state = "lapsed"]
    /\ UNCHANGED <<peopleVars, inputVars, computerVars, acts>>
Release == [Reset EXCEPT !.kind = "release"]
\* releaseTakeover, expireTakeover: the row follows the computer's answer.
AuthEnds ==
    /\ lease.state # "none" /\ \A i \in DOMAIN wire : wire[i].kind # "release"
    /\ wire' = Append(wire, Release)
    /\ UNCHANGED <<peopleVars, authTab, queue, authHead, authSaid, computerVars, lease, acts>>

\* KeyboardRelay.send and reset: the keys
KeysHeld(m) == CASE m.kind = "press" -> {"key"}
                 [] m.kind \in {"let go", "reset"} -> {}
                 [] OTHER -> held \cap {"key"}
\* HostedDesktop.pointer: the buttons, of which a browser's reset lets none go
ButtonsHeld(m) == CASE m.kind = "grab" -> {"button"}
                    [] m.kind = "let go" -> {}
                    [] OTHER -> held \cap {"button"}
Does(m) == KeysHeld(m) \cup ButtonsHeld(m)
\* The computer's calls run one at a time, in the order they came.
ComputerDoes ==
    /\ wire # <<>> /\ wire' = Tail(wire)
    /\ LET m == wire[1] IN
       /\ held' = IF m.kind \in {"release", "unsubscribe"} THEN {}
                  ELSE IF m.epoch = authGate THEN Does(m) ELSE held
       /\ authGate' = IF m.kind = "release" THEN 0 ELSE authGate
       /\ lease' = IF m.kind = "release" THEN [lease EXCEPT !.state = "none"] ELSE lease
       /\ IF m.tab \in Tabs
          THEN /\ authSeen' = IF m.epoch = authGate THEN [authSeen EXCEPT ![m.tab] = m.n] ELSE authSeen
               /\ Drops(m.tab)
          ELSE UNCHANGED <<authSeen, queue, authHead>>
    /\ UNCHANGED <<peopleVars, authTab, authSaid, acts>>

-----------------------------------------------------------------------------
Relaying == ComputerDoes \/ \E t \in Tabs : Starts(t) \/ AuthWoken(t)
SessionsNext ==
    \/ \E p \in People, i \in People \cup {Host} : Invites(i, p)
    \/ \E p \in People : Pairs(p) \/ AuthTimesOut(p) \/ Takes(p)
    \/ \E p, by \in People : AuthRevokes(by, p)
    \/ \E t \in Tabs, p \in People : AuthOpens(t, p)
    \/ \E t \in Tabs, k \in {"move", "press", "grab", "let go"} : Acts(t, k)
    \/ \E t \in Tabs : AuthCloses(t) \/ Starts(t) \/ AuthWoken(t)
    \/ AuthLapses \/ AuthEnds \/ ComputerDoes
SessionsSpec == SessionsInit /\ [][SessionsNext]_sessionsVars

Kinds == {"move", "press", "grab", "let go", "reset", "unsubscribe", "release"}
Message == [tab : Tabs \cup {Host}, kind : Kinds, n : Nat, epoch : Nat]
SessionsTypeOK ==
    /\ authLogin \in [People -> {"none", "invited", "live", "gone"}]
    /\ issuer \in [People -> People \cup {Host}] /\ told \subseteq People
    /\ authTab \in [Tabs -> [of : People \cup {Host}, state : {"none", "open", "closed"}]]
    /\ queue \in [Tabs -> Seq(Message)] /\ authHead \in [Tabs -> {"idle", "waking", "sent"}]
    /\ lease \in [of : People \cup {Host}, epoch : Nat, state : {"none", "held", "lapsed"}]
    /\ wire \in Seq(Message) /\ authGate \in Nat /\ held \subseteq {"key", "button"}
    /\ authSeen \in [Tabs -> Nat] /\ acts \in Nat
    /\ authSaid \in [Tabs -> [n : Nat, epoch : Nat]]

\* A device the pane has called out is out: no session, no socket, and no link it
\* had made lets another one in.
RevokedIsOut == [][
    \A p \in told' :
       /\ authLogin'[p] # "live"
       /\ \A t \in Tabs : authTab'[t].of = p => authTab'[t].state # "open"
       /\ \A q \in People : issuer[q] = p /\ authLogin[q] = "invited" => authLogin'[q] # "live"
    ]_sessionsVars
\* server.ts, onClose: with the last socket of the person who drives, no key stays
\* down on the computer, and with the last socket of all, nothing does; whatever
\* waited in a queue or for the computer to wake.
NothingLeftHeld ==
    wire = <<>> /\ lease.state # "lapsed" =>
        /\ (\A t \in AuthOpen : authTab[t].of # lease.of) \/ lease.state = "none" => "key" \notin held
        /\ AuthOpen = {} => held = {}
\* What a person does in a browser happens on the computer in the order it was done.
InOrder == [][\A t \in Tabs : authSeen'[t] # authSeen[t] => authSeen'[t] > authSeen[t]]_sessionsVars
\* Of many moves only the last matters, and that one is made.
MoveIsDue(t) == authSaid[t].epoch = lease.epoch /\ authSeen[t] < authSaid[t].n
MoveIsPast(t) ==
    \/ authSeen[t] >= authSaid[t].n
    \/ t \notin AuthOpen \/ ~Live(authTab[t].of) \/ ~Valid(authTab[t].of, authSaid[t].epoch)
    \/ authGate # authSaid[t].epoch
=============================================================================
