----------------------------- MODULE BrowserTabs -----------------------------
(***************************************************************************)
(* The tabs of one browser (browser/session.ts, navigation-guard.ts) under *)
(* the computer-server's request loop, which handles one request at a time *)
(* while the events of pages run beside it.                                *)
(*                                                                         *)
(* A tab is numbered in the order the browser opened it, which is the      *)
(* order of context.pages().  A document of a tab has a number, 1 for      *)
(* about:blank, and                                                        *)
(* Playwright resolves a reference eN in the newest snapshot the tab's     *)
(* document has been given, whichever snapshot the caller took it from.    *)
(***************************************************************************)
EXTENDS Naturals, Sequences, FiniteSets, FiniteSetsExt

CONSTANTS
    MaxTabs,       \* MAX_TABS
    TabBound,      \* bound: tabs ever opened
    DocBound,      \* bound: documents of a tab
    SnapBound      \* bound: snapshots taken

ASSUME TabAssumption ==
    /\ {MaxTabs, TabBound, DocBound, SnapBound} \subseteq Nat /\ MaxTabs >= 1 /\ TabBound >= 1 /\ DocBound >= 2

VARIABLES
    tab,         \* the tabs ever opened; where the event that announced each one is
    actionTab,   \* page: what the tools act on (0: none)
    liveTab,     \* livePage: what the screencast shows
    relayTab,    \* relayPage: what a person's input goes to
    mode,        \* liveMode
    gate,        \* the computer-server's takeover state
    guarded,     \* a navigation policy has been set
    denied,      \* a denial waits to be told
    snaps,       \* the snapshots: their tab and its document
    req          \* the request being handled

tabVars == <<tab, actionTab, liveTab, relayTab, mode, gate, guarded, denied, snaps, req>>

NoTab == 0
TabIds == DOMAIN tab
Open(ts) == {i \in DOMAIN ts : ts[i].open}
IsOpen(i) == i \in Open(tab)
Dead(i) == i \notin {j \in Open(tab) : ~tab[j].crashed}
Newest(ts) == IF Open(ts) = {} THEN NoTab ELSE Max(Open(ts))
TabActive == guarded /\ mode # "human"                     \* NavigationGuard.active
Fresh(popup) ==
    [open |-> TRUE, crashed |-> FALSE, doc |-> 1, snapped |-> 0, refused |-> popup /\ TabActive,
     byHuman |-> mode = "human", event |-> IF TabActive THEN "opener" ELSE "attach"]
NoReq == [at |-> "none", what |-> "none", tab |-> NoTab, snap |-> 0, acts |-> 0]
ReqAt(place, what) == req' = [req EXCEPT !.at = place, !.what = what]

TabInit ==
    /\ mode = "agent" /\ gate = "agent" /\ guarded = FALSE /\ denied = FALSE
    /\ tab = <<[Fresh(FALSE) EXCEPT !.event = "over"]>>
    /\ actionTab = 1 /\ liveTab = 1 /\ relayTab = 1
    /\ snaps = <<>> /\ req = NoReq

\* followLivePage: the newest open tab, while the agent drives.
FollowIn(ts) == liveTab' = IF mode = "agent" THEN Newest(ts) ELSE liveTab
Closed(i) == [tab EXCEPT ![i].open = FALSE]
\* The close of a tab; only one that its event has wired is followed.
CloseTab(i) ==
    /\ tab' = Closed(i)
    /\ IF tab[i].event = "opener" THEN UNCHANGED liveTab ELSE FollowIn(tab')
\* The page setter.
SetPage(i) ==
    /\ actionTab' = i
    /\ relayTab' = IF mode = "agent" THEN i ELSE relayTab

-----------------------------------------------------------------------------
(* The events of pages *)

\* A page opens a popup, or a person a tab.
PageOpens ==
    /\ Len(tab) < TabBound
    /\ \E popup \in IF mode = "human" THEN BOOLEAN ELSE {TRUE} : tab' = Append(tab, Fresh(popup))
    /\ UNCHANGED <<actionTab, liveTab, relayTab, mode, gate, guarded, denied, snaps, req>>
\* A bug: the policy is asked again once the opener is known.
AsksPolicyLate(i) ==
    /\ tab[i].event = "opener"
    /\ tab' = [tab EXCEPT ![i].event = IF TabActive /\ tab[i].refused THEN "over" ELSE "attach",
                         ![i].open = @ /\ ~(TabActive /\ tab[i].refused)]
    /\ UNCHANGED <<actionTab, liveTab, relayTab, mode, gate, guarded, denied, snaps, req>>
\* onContextPage under a policy, once the opener is known: a popup is refused.
OpenerKnown(i) ==
    /\ tab[i].event = "opener"
    /\ IF tab[i].refused
       THEN /\ tab' = [tab EXCEPT ![i].open = FALSE, ![i].event = "over"] /\ denied' = TRUE
       ELSE /\ tab' = [tab EXCEPT ![i].event = "attach"] /\ UNCHANGED denied
    /\ UNCHANGED <<actionTab, liveTab, relayTab, mode, gate, guarded, snaps, req>>
\* The guard cannot be attached: a tab that is not a person's is closed.
AttachFails(i) ==
    /\ tab[i].event = "attach"
    /\ tab' = [tab EXCEPT ![i].event = "over", ![i].open = @ /\ tab[i].byHuman]
    /\ IF tab[i].byHuman \/ ~IsOpen(i) THEN UNCHANGED liveTab ELSE FollowIn(tab')
    /\ UNCHANGED <<actionTab, relayTab, mode, gate, guarded, denied, snaps, req>>
\* chooseTabCapClose: the tab to close (none, or one).
Excess(i) ==
    LET spared == {i, actionTab, relayTab, liveTab}
        blanks == {j \in Open(tab) \ spared : tab[j].doc = 1}
    IN  IF Cardinality(Open(tab)) <= MaxTabs THEN {}
        ELSE IF mode # "human" THEN {i}
        ELSE IF blanks = {} THEN {} ELSE {Min(blanks)}
Attaches(i) ==
    /\ tab[i].event = "attach" /\ IsOpen(i)
    /\ tab' = [j \in TabIds |-> [tab[j] EXCEPT !.open = @ /\ j \notin Excess(i),
                                             !.event = IF j = i THEN "follow" ELSE @,
                                             !.byHuman = @ \/ (j = i /\ mode = "human")]]
    /\ IF Excess(i) = {} THEN UNCHANGED liveTab ELSE FollowIn(tab')
    /\ UNCHANGED <<actionTab, relayTab, mode, gate, guarded, denied, snaps, req>>
\* The rest of the event, after the awaits of close and bringToFront.
Follows(i) ==
    /\ tab[i].event = "follow" /\ tab' = [tab EXCEPT ![i].event = "over"]
    /\ IF IsOpen(i) THEN FollowIn(tab) ELSE UNCHANGED liveTab
    /\ UNCHANGED <<actionTab, relayTab, mode, gate, guarded, denied, snaps, req>>
\* A page closes itself, or a person closes it.
PageCloses(i) ==
    /\ IsOpen(i) /\ CloseTab(i)
    /\ UNCHANGED <<actionTab, relayTab, mode, gate, guarded, denied, snaps, req>>
PageCrashes(i) ==
    /\ ~Dead(i) /\ tab' = [tab EXCEPT ![i].crashed = TRUE]
    /\ UNCHANGED <<actionTab, liveTab, relayTab, mode, gate, guarded, denied, snaps, req>>
TabLoads(i) == [tab EXCEPT ![i].doc = @ + 1, ![i].snapped = 0]
\* A page goes to another document, by itself or by what was done in it.
PageLoads(i) ==
    /\ ~Dead(i) /\ tab[i].doc < DocBound /\ tab' = TabLoads(i)
    /\ UNCHANGED <<actionTab, liveTab, relayTab, mode, gate, guarded, denied, snaps, req>>

-----------------------------------------------------------------------------
(* Tool calls: policy.call, then the tool *)

Clicks == {"click", "type"}                         \* withCrashedTargetRetry(.., false)
Others == {"press", "navigate", "snapshot", "new", "select", "close"}
TabCall ==
    /\ gate = "agent" /\ req = NoReq /\ guarded' = TRUE /\ denied' = FALSE
    /\ IF denied THEN UNCHANGED req
       ELSE \/ \E what \in Others : req' = [NoReq EXCEPT !.at = "acts", !.what = what]
            \/ \E what \in Clicks, s \in DOMAIN snaps :
                   req' = [NoReq EXCEPT !.at = "resolves", !.what = what, !.snap = s]
    /\ UNCHANGED <<tab, actionTab, liveTab, relayTab, mode, gate, snaps>>

Ends == ReqAt("ended", req.what)
\* The reference is in the newest snapshot of the document the tab shows.
Resolves(s) == LET i == snaps[s].tab IN ~Dead(i) /\ tab[i].snapped = tab[i].doc
Crashed(i) == IsOpen(i) /\ Dead(i)
TakeSnapshot(i) ==
    /\ tab' = [tab EXCEPT ![i].snapped = tab[i].doc]
    /\ snaps' = IF Len(snaps) < SnapBound THEN Append(snaps, [tab |-> i, doc |-> tab[i].doc]) ELSE snaps
\* staleRefError: it shows the page as it is by a snapshot of its own.
StaleRef == Ends /\ IF Dead(actionTab) THEN UNCHANGED <<tab, snaps>> ELSE TakeSnapshot(actionTab)
\* resolveRef.
ResolveRef ==
    /\ req.at = "resolves"
    /\ \/ /\ Resolves(req.snap) /\ req' = [req EXCEPT !.at = "acts", !.tab = snaps[req.snap].tab]
          /\ UNCHANGED <<tab, snaps>>
       \/ ~Resolves(req.snap) /\ ~Crashed(snaps[req.snap].tab) /\ StaleRef
       \/ Crashed(snaps[req.snap].tab) /\ ReqAt("recovers", req.what) /\ UNCHANGED <<tab, snaps>>
    /\ UNCHANGED <<actionTab, liveTab, relayTab, mode, gate, guarded, denied>>
\* click, type: the act. It may crash the tab; a tab gone since is stale or a crash.
ActOnRef ==
    /\ req.at = "acts" /\ req.what \in Clicks
    /\ \/ /\ ~Dead(req.tab) /\ UNCHANGED <<tab, snaps>>
          /\ req' = [req EXCEPT !.at = "ended", !.acts = IF Resolves(req.snap) THEN @ + 1 ELSE @]
       \/ /\ Resolves(req.snap) /\ req' = [req EXCEPT !.at = "recovers", !.acts = @ + 1]
          /\ tab' = [tab EXCEPT ![req.tab].crashed = TRUE] /\ UNCHANGED snaps
       \/ /\ Dead(req.tab) /\ (IsOpen(actionTab) => Crashed(req.tab))
          /\ ReqAt("recovers", req.what) /\ UNCHANGED <<tab, snaps>>
       \/ ~IsOpen(req.tab) /\ IsOpen(actionTab) /\ StaleRef
    /\ UNCHANGED <<actionTab, liveTab, relayTab, mode, gate, guarded, denied>>
\* The call is answered; a denial that came meanwhile is its answer.
CallEnds ==
    /\ req.at = "ended" /\ req' = NoReq /\ denied' = FALSE
    /\ UNCHANGED <<tab, actionTab, liveTab, relayTab, mode, gate, guarded, snaps>>

\* The tools on the action page. A dead page is recovered and the tool tried once more.
Works(what) == req.at \in {"acts", "again"} /\ req.what = what
FindsDead ==
    /\ req.at \in {"acts", "again"} /\ req.what \in {"press", "navigate", "snapshot"} /\ Dead(actionTab)
    /\ ReqAt(IF req.at = "again" \/ actionTab = NoTab THEN "ended" ELSE "recovers", req.what)
    /\ UNCHANGED <<tab, actionTab, liveTab, relayTab, mode, gate, guarded, denied, snaps>>
Press ==
    /\ Works("press") /\ ~Dead(actionTab) /\ Ends
    /\ UNCHANGED <<tab, actionTab, liveTab, relayTab, mode, gate, guarded, denied, snaps>>
Navigate ==
    /\ Works("navigate") /\ ~Dead(actionTab) /\ Ends
    /\ tab[actionTab].doc < DocBound /\ tab' = TabLoads(actionTab)
    /\ liveTab' = IF liveTab = NoTab THEN actionTab ELSE liveTab
    /\ UNCHANGED <<actionTab, relayTab, mode, gate, guarded, denied, snaps>>
Snapshot ==
    /\ Works("snapshot") /\ ~Dead(actionTab) /\ Ends /\ TakeSnapshot(actionTab)
    /\ UNCHANGED <<actionTab, liveTab, relayTab, mode, gate, guarded, denied>>
\* tabs new: the tab is opened, then (its event is on its way) becomes the page.
TabNew ==
    /\ \/ /\ Works("new") /\ Cardinality(Open(tab)) >= MaxTabs /\ Ends
          /\ UNCHANGED <<tab, actionTab, liveTab, relayTab>>
       \/ /\ Works("new") /\ Cardinality(Open(tab)) < MaxTabs /\ Len(tab) < TabBound
          /\ tab' = Append(tab, Fresh(FALSE)) /\ req' = [req EXCEPT !.at = "shows", !.tab = Len(tab) + 1]
          /\ UNCHANGED <<actionTab, liveTab, relayTab>>
       \/ /\ req.at = "shows" /\ req.what = "new" /\ Ends
          /\ SetPage(req.tab) /\ liveTab' = req.tab /\ UNCHANGED tab
    /\ UNCHANGED <<mode, gate, guarded, denied, snaps>>
TabSelect ==
    /\ Works("select") /\ Ends
    /\ \E i \in Open(tab) : SetPage(i) /\ liveTab' = i
    /\ UNCHANGED <<tab, mode, gate, guarded, denied, snaps>>
TabClose ==
    /\ \/ /\ Works("close") /\ \E i \in Open(tab) : CloseTab(i)
          /\ ReqAt("shows", "close") /\ UNCHANGED <<actionTab, relayTab>>
       \/ /\ req.at = "shows" /\ req.what = "close" /\ Ends /\ UNCHANGED tab
          /\ SetPage(Newest(tab)) /\ liveTab' = Newest(tab)
    /\ UNCHANGED <<mode, gate, guarded, denied, snaps>>

\* close and start: everything is gone but a new first tab; the snapshots stay.
RestartIn(ts) ==
    /\ tab' = Append([i \in DOMAIN ts |-> [ts[i] EXCEPT !.open = FALSE]],
                     [Fresh(FALSE) EXCEPT !.event = "over"])
    /\ SetPage(Len(ts) + 1) /\ liveTab' = Len(ts) + 1 /\ denied' = FALSE
\* recoverCrashedPage: a new tab in the old one's place, or another browser.
Recovered ==
    /\ tab' = Append(IF actionTab = NoTab THEN tab ELSE Closed(actionTab),
                     [Fresh(FALSE) EXCEPT !.doc = IF actionTab # NoTab /\ tab[actionTab].doc > 1 THEN 2 ELSE 1])
    /\ SetPage(Len(tab) + 1) /\ liveTab' = Len(tab) + 1
Recover ==
    /\ req.at = "recovers" /\ Len(tab) < TabBound
    /\ \/ Recovered /\ ReqAt(IF req.what \in Clicks THEN "ended" ELSE "again", req.what) /\ UNCHANGED denied
       \/ RestartIn(tab) /\ Ends
    /\ UNCHANGED <<mode, gate, guarded, snaps>>
\* browser_restart.
TabRestart ==
    /\ gate = "agent" /\ req = NoReq /\ Len(tab) < TabBound
    /\ RestartIn(tab) /\ UNCHANGED <<mode, gate, guarded, snaps, req>>

-----------------------------------------------------------------------------
(* The hold *)

Gate(from, to) == gate \in from /\ gate' = to /\ req = NoReq
\* setLiveMode.
SetMode(m) ==
    /\ mode' = m
    /\ relayTab' = IF m = "agent" THEN IF IsOpen(actionTab) THEN actionTab ELSE NoTab
                   ELSE IF m = "human" /\ relayTab # NoTab /\ ~IsOpen(relayTab) THEN NoTab ELSE relayTab
HoldRequested ==
    /\ Gate({"agent"}, "requested")
    /\ UNCHANGED <<tab, actionTab, liveTab, relayTab, mode, guarded, denied, snaps, req>>
HoldGranted ==
    /\ Gate({"requested"}, "human") /\ SetMode("human")
    /\ UNCHANGED <<tab, actionTab, liveTab, guarded, denied, snaps, req>>
HoldDeclined ==
    /\ Gate({"requested"}, "agent") /\ SetMode("agent")
    /\ UNCHANGED <<tab, actionTab, liveTab, guarded, denied, snaps, req>>
HoldReleased ==
    /\ Gate({"human", "paused"}, "validating") /\ SetMode("validating")
    /\ UNCHANGED <<tab, actionTab, liveTab, guarded, denied, snaps, req>>
HoldValidated ==
    /\ \/ Gate({"validating"}, "agent") /\ SetMode("agent")
       \/ Gate({"validating"}, "human") /\ SetMode("human")
    /\ UNCHANGED <<tab, actionTab, liveTab, guarded, denied, snaps, req>>
HoldExpires ==
    /\ Gate({"human"}, "paused")
    /\ UNCHANGED <<tab, actionTab, liveTab, relayTab, mode, guarded, denied, snaps, req>>
\* blankTab: the live tab, or any that is open.
BlankTab ==
    /\ gate \in {"human", "paused"} /\ req = NoReq
    /\ LET page == IF liveTab # NoTab THEN liveTab ELSE actionTab IN
       \E i \in {IF IsOpen(page) THEN page ELSE IF Open(tab) = {} THEN NoTab ELSE Min(Open(tab))} :
          /\ i # NoTab /\ ~Dead(i) /\ tab' = [tab EXCEPT ![i].doc = 1, ![i].snapped = 0] /\ liveTab' = i /\ SetPage(i)
    /\ UNCHANGED <<mode, gate, guarded, denied, snaps, req>>
\* takeover.goto: not recovered when the page is dead.
GotoChooser ==
    /\ gate = "human" /\ req = NoReq /\ ~Dead(actionTab)
    /\ tab[actionTab].doc < DocBound /\ tab' = TabLoads(actionTab)
    /\ liveTab' = IF liveTab = NoTab THEN actionTab ELSE liveTab
    /\ UNCHANGED <<actionTab, relayTab, mode, gate, guarded, denied, snaps, req>>

TabEvent(i) == OpenerKnown(i) \/ AttachFails(i) \/ Attaches(i) \/ Follows(i)
TabNext ==
    \/ PageOpens
    \/ \E i \in TabIds : TabEvent(i) \/ PageCloses(i) \/ PageCrashes(i) \/ PageLoads(i)
    \/ TabCall \/ ResolveRef \/ ActOnRef \/ CallEnds \/ FindsDead \/ Press \/ Navigate \/ Snapshot
    \/ TabNew \/ TabSelect \/ TabClose \/ Recover \/ TabRestart
    \/ HoldRequested \/ HoldGranted \/ HoldDeclined \/ HoldReleased \/ HoldValidated \/ HoldExpires
    \/ BlankTab \/ GotoChooser
TabSpec == TabInit /\ [][TabNext]_tabVars

-----------------------------------------------------------------------------
(* Properties *)

\* Every variable has its type.
TabTypeOK ==
    /\ \A i \in TabIds :
        /\ tab[i].event \in {"opener", "attach", "follow", "over"}
        /\ tab[i].doc \in 1..DocBound /\ tab[i].snapped \in 0..tab[i].doc
        /\ {tab[i].open, tab[i].crashed, tab[i].refused, tab[i].byHuman} \subseteq BOOLEAN
    /\ {actionTab, liveTab, relayTab} \subseteq 0..Len(tab) /\ Len(tab) <= TabBound
    /\ mode \in {"agent", "human", "validating"}
    /\ gate \in {"agent", "requested", "human", "paused", "validating"}
    /\ {guarded, denied} \subseteq BOOLEAN
    /\ \A s \in DOMAIN snaps : snaps[s].tab \in TabIds
    /\ req.at \in {"none", "acts", "again", "resolves", "shows", "recovers", "ended"} /\ req.tab \in 0..Len(tab)

\* What a person does goes to the tab that was the agent's when they took over:
\* no popup, no closing of a tab and no blanking moves their input elsewhere.
InputStays ==
    [][mode # "agent" /\ mode' # "agent" => relayTab' \in {relayTab, NoTab}]_tabVars

\* The tabs that were opened and taken in while the agent drove are within the cap.
TabsCapped ==
    Cardinality({i \in Open(tab) : ~tab[i].byHuman /\ tab[i].event \in {"follow", "over"}}) <= MaxTabs

\* A popup that the agent's page opened under a policy is closed when its event is over,
\* whoever drives by then.
NoAgentPopup == \A i \in TabIds : IsOpen(i) /\ tab[i].refused => tab[i].event = "opener"

\* A person's tab is not closed for a guard that fails, also after they handed back.
HumanTabKept ==
    [][\A i \in TabIds : tab[i].byHuman /\ IsOpen(i) /\ tab[i].event = "attach"
                       /\ tab'[i].event = "over" => tab'[i].open]_tabVars

\* A reference is acted on in the tab whose snapshot it came from.
RefOnItsTab == req.acts > 0 => req.tab = snaps[req.snap].tab

\* The tabs a person or the agent has are theirs, within the cap, and references stay on their tab.
TabSafe == TabTypeOK /\ TabsCapped /\ NoAgentPopup /\ RefOnItsTab

-----------------------------------------------------------------------------
\* What is written of the code and is not so; no run lists these.

\* session.ts:449, "a later agent/validating switch must not close this page". The cap asks
\* the mode of now: a tab beyond it, opened in a hold, is closed when the person hands back first.
HumanTabSurvives ==
    [][\A i \in TabIds : tab[i].byHuman /\ IsOpen(i) /\ tab[i].event = "attach"
                       /\ tab'[i].event # "attach" => tab'[i].open]_tabVars

\* ARCHITECTURE.md:65, "A stale reference requires a fresh snapshot." A number of the old
\* snapshot is looked up among those of the new document.
RefIsFresh ==
    [][req'.acts > req.acts => snaps[req.snap].doc = tab[req.tab].doc]_tabVars
=============================================================================
