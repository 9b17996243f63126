------------------------------ MODULE TaskPage ------------------------------
(***************************************************************************)
(* The page of one task (ui/task.ts) with its live panel (ui/live/panel.ts)*)
(* and its control calls (ui/takeover.ts): it reads the task and then the  *)
(* alerts, is told of changes by a socket, and goes from task to task with *)
(* calls and reads still on their way, which may be answered in any order. *)
(*                                                                         *)
(* Every task has a computer of its own; the feed, the receipt and the     *)
(* approval card are other modules' or left out.                           *)
(***************************************************************************)
EXTENDS Naturals, Sequences, FiniteSets

CONSTANTS
    PageTask,     \* the tasks a page is opened for
    MoveBound,    \* bound: changes of the tasks and of their holds
    SwitchBound,  \* bound: navigations and resumptions of the page
    LossBound     \* bound: lost sockets and reads that fail

\* A page is opened for a task.
ASSUME PageAssumption == PageTask # {} /\ {MoveBound, SwitchBound, LossBound} \subseteq Nat

VARIABLES
    pageStatus,    \* per task, the daemon's status
    hold,      \* per task, the takeover of its computer: its number, state and holder
    up, events,\* the events socket and what is on it
    rev,       \* loadRevision
    reads,     \* GETs on their way
    page,      \* what the page knows and shows
    panel,     \* the live panel: whose computer, its phase, driver, and the mode it was told
    moves, switches, losses  \* bounded counters

pageVars == <<pageStatus, hold, up, events, rev, reads, page, panel, moves, switches, losses>>
pageDaemonVars == <<pageStatus, hold, moves>>

NoHold == [id |-> 0, state |-> "agent", mine |-> FALSE, of |-> "none"]
NoPanel == [of |-> "none", phase |-> "connecting", driver |-> FALSE, mode |-> "none", closed |-> FALSE]
Finished(s) == s \in {"completed", "cancelled"}
\* isActiveTakeover
Active(h) == h.state \in {"asked", "human", "validating", "paused"}
\* buildFrame
FrameOf(t, acquired) ==
    [at |-> t, detail |-> "none", of |-> "none", takeover |-> NoHold, acquired |-> acquired,
     screen |-> "frame", busy |-> <<"no">>]
Asks(kind, r) == [kind |-> kind, rev |-> r, of |-> page.at, answered |-> FALSE, status |-> "none", hold |-> NoHold]

PageInit ==
    /\ pageStatus = [t \in PageTask |-> "running"]
    /\ hold = [t \in PageTask |-> [NoHold EXCEPT !.of = t]]
    /\ up = FALSE /\ events = <<>> /\ rev = 1
    /\ page = FrameOf(CHOOSE t \in PageTask : TRUE, 0) /\ panel = NoPanel
    /\ reads = {[kind |-> "mount", rev |-> 1, of |-> page.at, answered |-> FALSE, status |-> "none",
                 hold |-> NoHold]}
    /\ moves = 0 /\ switches = 0 /\ losses = 0

-----------------------------------------------------------------------------
(* The daemon *)

Tells(t, kind) == events' = IF up THEN Append(events, [of |-> t, kind |-> kind]) ELSE events
\* A task pauses, ends or is resumed by someone else.
TaskMoves(t) ==
    /\ moves < MoveBound /\ moves' = moves + 1 /\ ~Finished(pageStatus[t])
    /\ \E s \in {"running", "paused", "completed", "cancelled"} \ {pageStatus[t]} :
          pageStatus' = [pageStatus EXCEPT ![t] = s]
    /\ Tells(t, "task") /\ UNCHANGED <<hold, up, rev, reads, page, panel, switches, losses>>
HoldBecomes(t, h) == hold' = [hold EXCEPT ![t] = h]
\* The bot asks, another window takes, declines or hands back, the lease runs out.
HoldMoves(t) ==
    LET h == hold[t] IN
    /\ moves < MoveBound /\ moves' = moves + 1
    /\ \/ ~Active(h) /\ HoldBecomes(t, [h EXCEPT !.id = moves + 1, !.state = "asked", !.mine = FALSE])
       \/ h.state \in {"asked", "paused"} /\ HoldBecomes(t, [h EXCEPT !.state = "human", !.mine = FALSE])
       \/ Active(h) /\ HoldBecomes(t, [h EXCEPT !.state = "agent"])
       \/ h.state = "human" /\ HoldBecomes(t, [h EXCEPT !.state = "paused"])
    /\ Tells(t, "hold") /\ UNCHANGED <<pageStatus, up, rev, reads, page, panel, switches, losses>>

-----------------------------------------------------------------------------
(* What is drawn *)

\* drivingNow: where the row is not human, whether the panel's lease is open is the clock's.
Driving(p, open) ==
    \/ p.takeover.state = "human" /\ (p.takeover.mine \/ p.acquired = p.takeover.id)
    \/ open /\ Active(p.takeover) /\ p.takeover.state # "human"
       /\ (p.takeover.mine \/ p.acquired = p.takeover.id)
Observing(p, open) == p.takeover.state = "human" /\ ~Driving(p, open)
\* setDriver: a phase of control follows the driver.
WithDriver(n, d) ==
    [n EXCEPT !.driver = d, !.phase = IF n.driver # d /\ @ \in {"driving", "observing"}
                                      THEN IF d THEN "driving" ELSE "observing" ELSE @]
\* renderPanelState
PanelDrawn(p, n, open) ==
    LET m == WithDriver(n, Driving(p, open)) IN
    [m EXCEPT !.phase = IF Driving(p, open) THEN "driving" ELSE IF Observing(p, open) THEN "observing"
                        ELSE IF Active(p.takeover) THEN "paused"
                        ELSE IF @ \in {"paused", "driving", "observing"} THEN "live" ELSE @]
\* render: the outcome replaces the page's elements, and nothing but reset brings them back.
Settles(p) == (Finished(p.detail) \/ p.detail = "paused") /\ p.takeover.state \notin {"asked", "human", "paused"}
\* renderOutcome and renderReceipt
OutcomeDrawn(p) == [p EXCEPT !.screen = "outcome"]
ReceiptDrawn(n) == [n EXCEPT !.phase = "ended", !.closed = TRUE]
Renders(p, n) ==
    IF p.detail = "none" THEN page' = p /\ panel' = n
    ELSE IF Settles(p) THEN page' = OutcomeDrawn(p) /\ panel' = ReceiptDrawn(n)
    ELSE \E open \in BOOLEAN :
            /\ page' = [p EXCEPT !.screen = IF @ = "outcome" THEN @ ELSE "live"]
            /\ panel' = IF n.of = "none" THEN n ELSE PanelDrawn(p, n, open)

-----------------------------------------------------------------------------
(* Reads *)

\* The daemon answers a GET with what it holds.
Answers(r) ==
    /\ r \in reads /\ ~r.answered
    /\ reads' = (reads \ {r}) \cup {[r EXCEPT !.answered = TRUE, !.status = pageStatus[r.of], !.hold = hold[r.of]]}
    /\ UNCHANGED <<pageDaemonVars, up, events, rev, page, panel, switches, losses>>
Isload(r) == r.kind \in {"mount", "load"}
\* load: the task is here; the panel is made, the alerts are asked for.
LoadArrives(r) ==
    /\ r \in reads /\ r.answered /\ Isload(r)
    /\ IF r.rev = rev
       THEN /\ page' = [page EXCEPT !.detail = r.status, !.of = r.of]
            /\ panel' = IF panel.of = "none" THEN [NoPanel EXCEPT !.of = r.of] ELSE panel
            /\ reads' = (reads \ {r}) \cup {Asks(IF r.kind = "mount" THEN "mounted" ELSE "loaded", r.rev)}
            /\ UNCHANGED up
       ELSE /\ UNCHANGED <<page, panel>> /\ reads' = reads \ {r}
            /\ up' = IF r.kind = "mount" THEN TRUE ELSE up
    /\ UNCHANGED <<pageDaemonVars, events, rev, switches, losses>>
\* refreshAlerts: the takeover of the computer that was asked about becomes the page's.
Alerted(r) == [page EXCEPT !.takeover = IF Active(r.hold) THEN r.hold ELSE NoHold]
AlertsArrive(r) ==
    /\ r \in reads /\ r.answered /\ ~Isload(r) /\ reads' = reads \ {r}
    /\ up' = IF r.kind = "mounted" THEN TRUE ELSE up
    /\ LET p == [Alerted(r) EXCEPT !.busy = IF r.kind = "control" THEN <<"no">> ELSE @] IN
       IF r.kind \in {"mounted", "loaded"} /\ r.rev # rev THEN page' = p /\ UNCHANGED panel ELSE Renders(p, panel)
    /\ UNCHANGED <<pageDaemonVars, events, rev, switches, losses>>
\* A read fails: what is drawn stays, with a notice and a button.
ReadFails(r) ==
    /\ r \in reads /\ losses < LossBound /\ losses' = losses + 1 /\ r.kind # "control"
    /\ reads' = reads \ {r} /\ up' = IF r.kind \in {"mount", "mounted"} THEN TRUE ELSE up
    /\ UNCHANGED <<pageDaemonVars, events, rev, page, panel, switches>>
Loads(r) == rev' = r /\ reads' = reads \cup {Asks("load", r)}
TriesAgain ==
    /\ switches < SwitchBound /\ switches' = switches + 1 /\ Loads(rev + 1)
    /\ UNCHANGED <<pageDaemonVars, up, events, page, panel, losses>>

\* onEvent: a task's event is for its page, an alert also for the page of its computer.
EventArrives ==
    /\ events # <<>> /\ events' = Tail(events)
    /\ IF Head(events).of # page.at THEN UNCHANGED <<rev, reads>>
       ELSE IF Head(events).kind = "task" THEN Loads(rev + 1)
       ELSE reads' = reads \cup {Asks("alerts", 0)} /\ UNCHANGED rev
    /\ UNCHANGED <<pageDaemonVars, up, page, panel, switches, losses>>
SocketLost ==
    /\ up /\ losses < LossBound /\ losses' = losses + 1 /\ up' = FALSE /\ events' = <<>>
    /\ UNCHANGED <<pageDaemonVars, rev, reads, page, panel, switches>>
\* connectEvents, after a second: nothing is read again.
SocketBack ==
    /\ ~up /\ losses > 0 /\ (\A r \in reads : r.kind \notin {"mount", "mounted"}) /\ up' = TRUE
    /\ UNCHANGED <<pageDaemonVars, events, rev, reads, page, panel, switches, losses>>

-----------------------------------------------------------------------------
(* The person *)

PageReset(t) ==
    /\ page' = [FrameOf(t, page.acquired) EXCEPT !.busy = page.busy] /\ panel' = NoPanel
    /\ rev' = rev + 2 /\ reads' = reads \cup {[Asks("load", rev + 2) EXCEPT !.of = t]}
PageGoes(t) ==
    /\ t # page.at /\ switches < SwitchBound /\ switches' = switches + 1 /\ PageReset(t)
    /\ UNCHANGED <<pageDaemonVars, up, events, losses>>
\* resume, on the outcome of a pause.
Resumes ==
    /\ page.screen = "outcome" /\ page.detail = "paused" /\ switches < SwitchBound /\ switches' = switches + 1
    /\ pageStatus[page.at] = "paused" /\ pageStatus' = [pageStatus EXCEPT ![page.at] = "running"]
    /\ Tells(page.at, "task") /\ PageReset(page.at) /\ UNCHANGED <<hold, moves, up, losses>>
\* stop
Stops ==
    /\ page.detail \in {"running", "paused"} /\ ~Finished(pageStatus[page.at]) /\ moves < MoveBound /\ moves' = moves + 1
    /\ pageStatus' = [pageStatus EXCEPT ![page.at] = "cancelled"] /\ Tells(page.at, "task") /\ Loads(rev + 1)
    /\ UNCHANGED <<hold, up, page, panel, switches, losses>>

\* takeControl: ember at once, then the request.
TakeControl ==
    /\ page.detail = "running" /\ page.busy[1] = "no" /\ page.screen = "live" /\ switches < SwitchBound
    /\ switches' = switches + 1 /\ page' = [page EXCEPT !.busy = <<"take", page.at>>]
    /\ panel' = [panel EXCEPT !.phase = "driving"]
    /\ UNCHANGED <<pageDaemonVars, up, events, rev, reads, losses>>
\* The daemon grants or refuses; a navigation meanwhile gets the answer on the next panel.
TakeAnswered ==
    /\ page.busy[1] = "take"
    /\ LET t == page.busy[2] h == hold[t] IN
       \/ /\ h.state \in {"agent", "asked", "paused"} /\ pageStatus[t] = "running"
          /\ LET id == IF Active(h) THEN h.id ELSE MoveBound + switches IN
             /\ HoldBecomes(t, [id |-> id, state |-> "human", mine |-> TRUE, of |-> t]) /\ Tells(t, "hold")
             /\ page' = [page EXCEPT !.acquired = id, !.busy = <<"read", t>>]
          /\ panel' = IF panel.of = "none" THEN panel ELSE WithDriver(panel, TRUE)
          /\ reads' = reads \cup {Asks("control", 0)}
       \/ \* requestControl gives nothing
          /\ h.state \notin {"agent", "asked"} /\ page' = [page EXCEPT !.busy = <<"read", t>>]
          /\ reads' = reads \cup {Asks("control", 0)} /\ UNCHANGED <<hold, events, panel>>
       \/ \* it is refused
          /\ page' = [page EXCEPT !.busy = <<"no">>]
          /\ panel' = [panel EXCEPT !.phase = "live"] /\ UNCHANGED <<hold, events, reads>>
    /\ UNCHANGED <<pageStatus, moves, up, rev, switches, losses>>
\* returnControl
ReturnControl ==
    /\ Active(page.takeover) /\ page.busy[1] = "no" /\ page.detail # "none" /\ switches < SwitchBound
    /\ switches' = switches + 1 /\ page' = [page EXCEPT !.busy = <<"return", page.takeover>>]
    /\ UNCHANGED <<pageDaemonVars, up, events, rev, reads, panel, losses>>
ReturnAnswered ==
    /\ page.busy[1] = "return"
    /\ LET h == page.busy[2] IN
       \/ /\ hold[h.of].id = h.id /\ hold[h.of].state \in {"human", "paused"}
          /\ HoldBecomes(h.of, [hold[h.of] EXCEPT !.state = "agent"]) /\ Tells(h.of, "hold")
          /\ page' = [page EXCEPT !.acquired = 0, !.busy = <<"read", h>>]
          /\ panel' = [panel EXCEPT !.phase = "live"] /\ reads' = reads \cup {Asks("control", 0)}
       \/ \* the page is still private
          /\ page' = [page EXCEPT !.busy = <<"read", h>>] /\ reads' = reads \cup {Asks("control", 0)}
          /\ UNCHANGED <<hold, events, panel>>
       \/ page' = [page EXCEPT !.busy = <<"no">>] /\ UNCHANGED <<hold, events, reads, panel>>
    /\ UNCHANGED <<pageStatus, moves, up, rev, switches, losses>>
\* onMode: the live socket's word on who drives.
Mode(t) == IF hold[t].state = "human" THEN "human" ELSE IF hold[t].state \in {"validating", "paused"}
           THEN "validating" ELSE "agent"
ModeArrives ==
    /\ panel.of # "none" /\ ~panel.closed /\ panel.mode # Mode(panel.of)
    /\ LET m == Mode(panel.of) IN
       panel' = [panel EXCEPT !.mode = m,
                   !.phase = IF m = "human" THEN IF panel.driver THEN "driving" ELSE "observing"
                             ELSE IF m = "validating" THEN "paused"
                             ELSE IF @ \in {"driving", "observing", "connecting"} THEN "live" ELSE @]
    /\ UNCHANGED <<pageDaemonVars, up, events, rev, reads, page, switches, losses>>

PageNext ==
    \/ \E t \in PageTask : TaskMoves(t) \/ HoldMoves(t) \/ PageGoes(t)
    \/ \E r \in reads : Answers(r) \/ LoadArrives(r) \/ AlertsArrive(r) \/ ReadFails(r)
    \/ TriesAgain \/ EventArrives \/ SocketLost \/ SocketBack \/ Resumes \/ Stops
    \/ TakeControl \/ TakeAnswered \/ ReturnControl \/ ReturnAnswered \/ ModeArrives
PageSpec == PageInit /\ [][PageNext]_pageVars

-----------------------------------------------------------------------------
(* Properties *)

\* Every variable has its type.
PageTypeOK ==
    /\ pageStatus \in [PageTask -> {"running", "paused", "completed", "cancelled"}]
    /\ \A t \in PageTask : hold[t].state \in {"agent", "asked", "human", "validating", "paused"}
    /\ up \in BOOLEAN /\ rev \in Nat /\ page.at \in PageTask
    /\ page.screen \in {"frame", "live", "outcome"} /\ page.detail \in {"none"} \cup {pageStatus[t] : t \in PageTask}
       \cup {"running", "paused", "completed", "cancelled"}
    /\ panel.of \in PageTask \cup {"none"}
    /\ panel.phase \in {"connecting", "live", "driving", "observing", "paused", "offline", "ended"}

\* The page shows the task it is at, whatever is answered late (load, update, reset).
ShowsItsTask == page.detail # "none" => page.of = page.at /\ panel.of = page.at

-----------------------------------------------------------------------------
\* What is written of the code and is not so; no run lists these.

\* task.ts:1480, "keeps the events socket, drops everything else": the takeover the page has is its
\* own computer's, once everything has been answered. refreshAlerts does not ask where the page is.
HoldIsOfThisTask == reads = {} /\ Active(page.takeover) => page.takeover.of = page.at
=============================================================================
