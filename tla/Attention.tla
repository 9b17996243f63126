------------------------------ MODULE Attention ------------------------------
(***************************************************************************)
(* What waits on a person, as a window shows it (ui/native.ts, class       *)
(* Attention): the event stream that only says that something changed, the *)
(* rounds of reads behind it, the badge; the banners, of a browser         *)
(* (ui/takeover-pings.ts) or of the Mac app (AppDelegate.swift), which may *)
(* hand one back.                                                          *)
(*                                                                         *)
(* An item is an approval or a takeover. The two lists of a round are one  *)
(* read. The histories are not cut: ANNOUNCE_LIMIT and SEEN_LIMIT are 100, *)
(* UNSHOWN_LIMIT is 4, more than the items of an instance.                 *)
(***************************************************************************)
EXTENDS Naturals, Sequences, SequencesExt, FiniteSets

CONSTANTS
    Items, Takeovers, \* requests, those of a takeover
    Tasks, TaskOf(_), \* the task each is about
    Native,           \* whether the window is the Mac app's
    OutageBound,      \* bound: streams cut and daemon restarts
    ReloadBound       \* bound: reloads of the page

ASSUME AttentionAssumption ==
    /\ Takeovers \subseteq Items /\ \A i \in Items : TaskOf(i) \in Tasks
    /\ Native \in BOOLEAN /\ {OutageBound, ReloadBound} \subseteq Nat

VARIABLES
    badgeRow, past, over,  \* rows; expired requests; tasks that ended
    badgeUp, stream, news, \* daemon; this page's stream; an event on its way
    due, rounds,      \* reconcileTimer; rounds of reconcile under way
    items, announced, \* what the page shows, what it announced
    seen,             \* the tab's history of banners
    unshown, asked,   \* pings handed to the shell, those it still has
    pinged, refused,  \* pings of each item, those handed back to this page
    fallback, gone,   \* those then shown by the page; answered, seen as such
    outages, reloads  \* bounded counters

attentionWorld == <<badgeRow, past, over>>
attentionWire == <<badgeUp, stream, news, outages>>
attentionPage == <<items, announced, seen, unshown, asked, pinged, refused, fallback, gone>>
attentionVars == <<attentionWorld, attentionWire, due, rounds, attentionPage, reloads>>

AttentionInit ==
    /\ badgeRow = [i \in Items |-> "none"] /\ past = {} /\ over = {}
    /\ badgeUp = TRUE /\ stream = FALSE /\ news = FALSE /\ due = FALSE /\ rounds = {}
    /\ items = {} /\ announced = {} /\ seen = {} /\ unshown = <<>> /\ asked = {}
    /\ pinged = [i \in Items |-> 0] /\ refused = {} /\ fallback = {} /\ gone = {}
    /\ outages = 0 /\ reloads = 0

\* attentionFromApprovals, attentionFromTakeovers
Waiting == {i \in Items : badgeRow[i] = "waiting" /\ i \notin past}

-----------------------------------------------------------------------------
\* The daemon's side. A change is told, the passing of a time is not.
Told == news' = stream
BadgeRequested(i) ==
    /\ badgeRow[i] = "none" /\ TaskOf(i) \notin over /\ badgeUp
    /\ badgeRow' = [badgeRow EXCEPT ![i] = "waiting"] /\ Told
    /\ UNCHANGED <<past, over, badgeUp, stream, outages, due, rounds, attentionPage, reloads>>
BadgeAnswered(i) ==
    /\ badgeRow[i] = "waiting" /\ badgeUp
    /\ badgeRow' = [badgeRow EXCEPT ![i] = "closed"] /\ Told
    /\ UNCHANGED <<past, over, badgeUp, stream, outages, due, rounds, attentionPage, reloads>>
BadgeLapses(i) ==
    /\ i \in Waiting /\ past' = past \cup {i}
    /\ UNCHANGED <<badgeRow, over, attentionWire, due, rounds, attentionPage, reloads>>
\* setTaskStatus: the takeovers of a task end with it, its approvals may stay.
TaskIsOver(t) ==
    /\ t \notin over /\ badgeUp /\ over' = over \cup {t} /\ Told
    /\ badgeRow' = [i \in Items |-> IF i \in Takeovers /\ TaskOf(i) = t /\ badgeRow[i] = "waiting" THEN "closed" ELSE badgeRow[i]]
    /\ UNCHANGED <<past, badgeUp, stream, outages, due, rounds, attentionPage, reloads>>

-----------------------------------------------------------------------------
\* A bug: an open stream waits for the first event.
StreamOpensQuietly ==
    /\ badgeUp /\ ~stream /\ stream' = TRUE
    /\ UNCHANGED <<attentionWorld, badgeUp, news, outages, due, rounds, attentionPage, reloads>>
\* connect: open
StreamOpens ==
    /\ badgeUp /\ ~stream /\ stream' = TRUE /\ due' = TRUE
    /\ UNCHANGED <<attentionWorld, badgeUp, news, outages, rounds, attentionPage, reloads>>
\* close, alone or with the daemon; what was on its way is lost.
StreamDrops ==
    /\ stream /\ outages < OutageBound /\ outages' = outages + 1
    /\ badgeUp' \in BOOLEAN /\ stream' = FALSE /\ news' = FALSE
    /\ UNCHANGED <<attentionWorld, due, rounds, attentionPage, reloads>>
DaemonReturns ==
    /\ ~badgeUp /\ badgeUp' = TRUE
    /\ UNCHANGED <<attentionWorld, stream, news, outages, due, rounds, attentionPage, reloads>>
\* message: queueReconcile, which replaces the timer
Hears ==
    /\ stream /\ news /\ news' = FALSE /\ due' = TRUE
    /\ UNCHANGED <<attentionWorld, badgeUp, stream, outages, rounds, attentionPage, reloads>>

-----------------------------------------------------------------------------
Raised(is) == [i \in Items |-> IF i \in is THEN pinged[i] + 1 ELSE pinged[i]]
\* remember: the tab's history of banners
Remembers(keys) == seen' = seen \cup keys
\* DesktopAlerts.announce: of what waits, each that has no banner in the history
Announces(live) ==
    /\ pinged' = Raised(live \ seen) /\ Remembers(live)
    /\ UNCHANGED <<unshown, asked>>
\* modelbotNative.notify: handed to the shell, which may not show it
Notifies(fresh) ==
    /\ unshown' = unshown \o SetToSeq(fresh) /\ asked' = asked \cup fresh
    /\ pinged' = Raised(fresh) /\ UNCHANGED seen
\* sync: badge and banners
Sync(found) ==
    LET live == found \ past
        fresh == live \ announced IN
    /\ items' = live /\ announced' = announced \cup live
    /\ gone' = gone \cup {i \in items \ live : badgeRow[i] = "closed"}
    /\ IF Native THEN Notifies(fresh) ELSE Announces(live)
    /\ UNCHANGED <<refused, fallback>>

\* reconcile, up to its reads
Reconciles ==
    /\ due /\ due' = FALSE
    /\ rounds' = {[r EXCEPT !.current = FALSE] : r \in rounds} \cup {[current |-> TRUE, at |-> "rows", got |-> {}]}
    /\ UNCHANGED <<attentionWorld, attentionWire, attentionPage, reloads>>
ReadsRows(r) ==
    /\ r \in rounds /\ r.at = "rows"
    /\ rounds' = (rounds \ {r}) \cup
         (IF badgeUp /\ r.current THEN {[r EXCEPT !.at = "tasks", !.got = Waiting]} ELSE {})
    /\ UNCHANGED <<attentionWorld, attentionWire, due, attentionPage, reloads>>
\* liveAttention: the list of tasks, if there is one, has the last word.
Kept(r) == IF badgeUp THEN {i \in r.got : TaskOf(i) \notin over} ELSE r.got
ReadsTasks(r) ==
    /\ r \in rounds /\ r.at = "tasks" /\ rounds' = rounds \ {r}
    /\ IF r.current THEN Sync(Kept(r)) ELSE UNCHANGED attentionPage
    /\ UNCHANGED <<attentionWorld, attentionWire, due, reloads>>
\* expiryTimer
Expires ==
    /\ items \cap past # {} /\ Sync(items)
    /\ UNCHANGED <<attentionWorld, attentionWire, due, rounds, reloads>>

\* The shell's answer to a ping: shown, dropped past three in three seconds, or
\* handed back (bridgeNotify, notify-failed), by the key of its task.
Unshown(task) == {k \in DOMAIN unshown : TaskOf(unshown[k]) = task}
\* notify-failed: the first ping kept under the key, shown by the page unless that key was
HandsBack(task) ==
    LET k == CHOOSE k \in Unshown(task) : \A l \in Unshown(task) : k <= l IN
    /\ unshown' = RemoveAt(unshown, k) /\ refused' = refused \cup {unshown[k]}
    /\ fallback' = IF task \in seen THEN fallback ELSE fallback \cup {unshown[k]}
    /\ Remembers({task})
ShellTakes(i) ==
    /\ i \in asked /\ asked' = asked \ {i}
    /\ UNCHANGED <<attentionWorld, attentionWire, due, rounds, reloads, items, announced, seen,
                   unshown, pinged, refused, fallback, gone>>
ShellRefuses(i) ==
    /\ i \in asked /\ asked' = asked \ {i}
    /\ IF Unshown(TaskOf(i)) = {} THEN UNCHANGED <<unshown, refused, fallback, seen>> ELSE HandsBack(TaskOf(i))
    /\ UNCHANGED <<attentionWorld, attentionWire, due, rounds, reloads, items, announced, pinged, gone>>

\* What the tab keeps over a reload is the history in sessionStorage.
Reload ==
    /\ reloads < ReloadBound /\ reloads' = reloads + 1
    /\ stream' = FALSE /\ news' = FALSE /\ due' = FALSE /\ rounds' = {}
    /\ items' = {} /\ announced' = {} /\ unshown' = <<>> /\ refused' = {} /\ fallback' = {} /\ gone' = {}
    /\ UNCHANGED <<attentionWorld, badgeUp, outages, asked, seen, pinged>>

-----------------------------------------------------------------------------
AttentionNext ==
    \/ \E i \in Items : \/ BadgeRequested(i) \/ BadgeAnswered(i) \/ BadgeLapses(i)
                        \/ ShellTakes(i) \/ ShellRefuses(i)
    \/ \E t \in Tasks : TaskIsOver(t)
    \/ StreamOpens \/ StreamDrops \/ DaemonReturns \/ Hears \/ Reconciles
    \/ \E r \in rounds : ReadsRows(r) \/ ReadsTasks(r)
    \/ Expires \/ Reload
AttentionSpec == AttentionInit /\ [][AttentionNext]_attentionVars

AttentionTypeOK ==
    /\ badgeRow \in [Items -> {"none", "waiting", "closed"}] /\ past \subseteq Items /\ over \subseteq Tasks
    /\ {badgeUp, stream, news, due} \subseteq BOOLEAN
    /\ rounds \subseteq [current : BOOLEAN, at : {"rows", "tasks"}, got : SUBSET Items]
    /\ UNION {items, announced, asked, refused, fallback, gone, Range(unshown)} \subseteq Items
    /\ seen \subseteq Items \cup Tasks
    /\ pinged \in [Items -> Nat] /\ {outages, reloads} \subseteq Nat

\* takeover-pings.ts:15, "One ping per request, ever": in a browser's tab,
\* whatever the stream, the rounds and the reloads do.
OnePing == ~Native => \A i \in Items : pinged[i] <= 1
\* native.ts, reconcile: a request that was answered, and that the page has
\* taken down for it, is not put up again by a round that read it before.
AnsweredStaysDown == items \cap gone = {}
\* native.ts, "keep the set true": the page comes to show what waits, and takes
\* down what does not, over lost events, cut streams and restarts.
IsCalledFor(i) == i \in Waiting /\ TaskOf(i) \notin over
IsPast(i) == badgeRow[i] = "closed" \/ i \in past \/ TaskOf(i) \in over
=============================================================================
