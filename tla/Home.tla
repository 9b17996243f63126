-------------------------------- MODULE Home --------------------------------
(***************************************************************************)
(* Whether a task can be started, from the machine to the button: the      *)
(* readiness ladder and the image builder of the daemon (daemon/runtime.ts,*)
(* server.ts), the watcher that polls it (ui/runtime.ts) and the task box  *)
(* of the home page (ui/home.ts), where a start that is not possible yet   *)
(* is queued.  The page has two reads of the model choices that overlap:   *)
(* the watcher's own, with each poll, and the one a change of model asks.  *)
(*                                                                         *)
(* Time is left out: a cached probe may be forgotten, a timer fire, at any *)
(* moment.                                                                 *)
(***************************************************************************)
EXTENDS Naturals, FiniteSets

CONSTANTS
    WorldBound,  \* bound: changes of the machine and of the model's account
    VisitBound,  \* bound: presses, focus events, changes of model
    TroubleBound \* bound: failed reads and refused calls

ASSUME HomeAssumption == {WorldBound, VisitBound, TroubleBound} \subseteq Nat

VARIABLES
    engine, homeImage, account,  \* the container engine runs, the images are there, the provider answers
    build,     \* the preparer's state
    kept,      \* createRuntimeProbe: cached docker and images
    probing,   \* its probe in flight, with what it has read
    ui,        \* the home page and its watcher
    created,   \* ghost: tasks the daemon made
    wish,      \* ghost: a start was pressed, not cancelled, and has made no task yet
    worlds, visits, troubles \* bounded counters

homeVars == <<engine, homeImage, account, build, kept, probing, ui, created, wish, worlds, visits, troubles>>
machineVars == <<engine, homeImage, account, worlds>>
probeVars == <<kept, probing>>

NoProbe == [known |-> FALSE, engine |-> FALSE, image |-> FALSE]
NoStatus == [known |-> FALSE, engine |-> FALSE, image |-> FALSE, build |-> "idle", account |-> FALSE]

\* primaryBlocker, effectiveStatus: what stands in the way; the catalogue's word on the provider wins.
Available(s, catalog) == IF catalog = "none" THEN s.account ELSE catalog = "yes"
Blocked(s, catalog) ==
    ~s.engine \/ (~s.image /\ s.build # "running") \/ ~Available(s, catalog)
\* isSettling
Settling(s, catalog) == ~s.known \/ Blocked(s, catalog) \/ s.build = "running"
\* shouldAutoPrepare: a failed or finished run is not repeated by itself.
AutoPrepares(s) == s.known /\ s.build = "idle" /\ s.engine /\ ~s.image

-----------------------------------------------------------------------------
(* The page: what its functions do to its state *)

LoadModels(u, who) == [u EXCEPT !.reads = @ \cup {who}, !.newest = who, !.blocked = TRUE]
\* createRuntimeWatcher: poll, start, refresh
Poll(u) ==
    IF ~u.on \/ u.flight THEN u
    ELSE [LoadModels(u, "poll") EXCEPT !.flight = TRUE, !.timer = FALSE, !.asking = TRUE, !.got = NoStatus]
StartWatch(u) == IF u.on THEN u ELSE Poll([u EXCEPT !.on = TRUE])
RefreshWatch(u) == IF u.on THEN Poll([u EXCEPT !.timer = FALSE]) ELSE u
\* ready
Ready(u) == ~u.blocked /\ ~Settling(u.status, u.catalog)
\* A bug: a start does not ask whether one is on its way.
StartAnyway(u) ==
    IF ~Ready(u) THEN [u EXCEPT !.armed = TRUE] ELSE [u EXCEPT !.armed = FALSE, !.posts = @ + 1]
\* start: queued while it cannot be, refused for a provider that was chosen and does not answer.
Start(u) ==
    IF u.posts > 0 THEN u
    ELSE IF u.blocked THEN [u EXCEPT !.armed = TRUE]
    ELSE IF ~Ready(u) THEN [u EXCEPT !.armed = u.catalog # "no"]
    ELSE [u EXCEPT !.armed = FALSE, !.posts = 1]
StartQueued(u) == IF u.armed /\ ~u.blocked /\ u.posts = 0 THEN Start([u EXCEPT !.armed = FALSE]) ELSE u
\* paintRunOptions
PaintRunOptions(u) ==
    StartQueued(IF u.catalog # "none" /\ ~u.blocked /\ Settling(u.status, u.catalog) THEN StartWatch(u) ELSE u)
\* onStatus, then the watcher's own turn: again in a while, or stop.
OnStatus(u) == StartQueued([u EXCEPT !.status = u.got, !.setup = @ \/ AutoPrepares(u.got)])
PollEnds(u) == LET s == Settling(u.got, u.catalog) IN
    [OnStatus(u) EXCEPT !.flight = FALSE, !.got = NoStatus, !.on = s, !.timer = s]

Mounted == [on |-> FALSE, timer |-> FALSE, flight |-> FALSE, asking |-> FALSE, got |-> NoStatus,
            reads |-> {}, newest |-> "none", blocked |-> TRUE, catalog |-> "none", status |-> NoStatus,
            armed |-> FALSE, posts |-> 0, again |-> FALSE, setup |-> FALSE]
HomeInit ==
    /\ engine \in BOOLEAN /\ homeImage \in BOOLEAN /\ account \in BOOLEAN /\ build = "idle"
    /\ kept = NoProbe /\ probing = NoProbe /\ ui = StartWatch(Mounted)
    /\ created = 0 /\ wish = FALSE /\ worlds = 0 /\ visits = 0 /\ troubles = 0

Page(u) == ui' = u /\ UNCHANGED <<machineVars, probeVars, build, created, wish, troubles>>
Visits == visits < VisitBound /\ visits' = visits + 1
Trouble == troubles < TroubleBound /\ troubles' = troubles + 1

-----------------------------------------------------------------------------
(* The machine and the daemon *)

WorldMoves ==
    /\ worlds < WorldBound /\ worlds' = worlds + 1
    /\ \/ engine' = ~engine /\ UNCHANGED <<homeImage, account>>
       \/ account' = ~account /\ UNCHANGED <<engine, homeImage>>
       \/ homeImage /\ homeImage' = FALSE /\ UNCHANGED <<engine, account>>
    /\ UNCHANGED <<build, kept, probing, ui, created, wish, visits, troubles>>
\* run: the build of the images comes to an end.
BuildEnds ==
    /\ build = "running"
    /\ \/ engine /\ build' = "done" /\ homeImage' = TRUE /\ UNCHANGED troubles
       \/ build' = "failed" /\ UNCHANGED homeImage /\ (IF engine THEN Trouble ELSE UNCHANGED troubles)
    /\ UNCHANGED <<engine, account, kept, probing, ui, created, wish, worlds, visits>>
\* ttlMs, invalidate
ProbeForgotten ==
    kept.known /\ kept' = NoProbe /\ UNCHANGED <<machineVars, build, probing, ui, created, wish, visits, troubles>>
\* assemble: docker and images as they were probed, the preparer and the account as they are now.
Assembled(p) == [known |-> TRUE, engine |-> p.engine, image |-> p.engine /\ p.image, build |-> build, account |-> account]
Answered(u, p) == IF u.asking THEN [u EXCEPT !.asking = FALSE, !.got = Assembled(p)] ELSE u
\* snapshot, collect
ProbeStarts ==
    /\ ui.asking /\ ~kept.known /\ ~probing.known /\ probing' = [known |-> TRUE, engine |-> engine, image |-> homeImage]
    /\ UNCHANGED <<machineVars, build, kept, ui, created, wish, visits, troubles>>
ProbeEnds ==
    /\ probing.known /\ kept' = probing /\ probing' = NoProbe /\ ui' = Answered(ui, probing)
    /\ UNCHANGED <<machineVars, build, created, wish, visits, troubles>>
CacheAnswers == ui.asking /\ kept.known /\ Page(Answered(ui, kept)) /\ UNCHANGED visits
\* POST /api/v1/runtime/prepare: one run at a time and one try in a while.
SetupAnswered ==
    /\ ui.setup
    /\ \/ /\ build' = IF build = "running" THEN build ELSE "running"
          /\ kept' = NoProbe /\ ui' = RefreshWatch([ui EXCEPT !.setup = FALSE])
       \/ build # "idle" /\ build' = build /\ ui' = [ui EXCEPT !.setup = FALSE] /\ UNCHANGED kept
    /\ UNCHANGED <<machineVars, probing, created, wish, visits, troubles>>
\* POST /api/v1/tasks: made, refused, or not yet, and then asked once more.
TaskAnswered ==
    /\ ui.posts > 0
    /\ \/ /\ engine /\ account /\ created' = created + 1 /\ wish' = FALSE
          /\ ui' = PaintRunOptions([ui EXCEPT !.posts = @ - 1, !.again = FALSE]) /\ UNCHANGED troubles
       \/ ~ui.again /\ Trouble /\ ui' = [ui EXCEPT !.again = TRUE] /\ UNCHANGED <<created, wish>>
       \/ /\ (IF engine /\ account THEN Trouble ELSE UNCHANGED troubles)
          /\ ui' = PaintRunOptions([ui EXCEPT !.posts = @ - 1, !.again = FALSE])
          /\ wish' = FALSE /\ UNCHANGED created
    /\ UNCHANGED <<machineVars, probeVars, build, visits>>

-----------------------------------------------------------------------------
(* The page's events *)

TimerFires == ui.timer /\ Page(Poll(ui)) /\ UNCHANGED visits
\* load: both the status and the model choices are there.
PollAnswered == ui.flight /\ ui.got.known /\ "poll" \notin ui.reads /\ Page(PollEnds(ui)) /\ UNCHANGED visits
\* onError: the next poll is later, the read of the model choices goes on.
PollFails ==
    /\ ui.asking /\ Trouble /\ ui' = [ui EXCEPT !.asking = FALSE, !.flight = FALSE, !.timer = TRUE]
    /\ UNCHANGED <<machineVars, probeVars, build, created, wish, visits>>
\* loadModels: only the newest read says anything.
ModelsArrive(who, fails) ==
    /\ who \in ui.reads /\ (IF fails THEN Trouble ELSE UNCHANGED troubles)
    /\ LET u == [ui EXCEPT !.reads = @ \ {who}] IN
       ui' = IF who # ui.newest THEN u
             ELSE PaintRunOptions([u EXCEPT !.blocked = FALSE,
                     !.catalog = IF fails THEN @ ELSE IF account THEN "yes" ELSE "no"])
    /\ UNCHANGED <<machineVars, probeVars, build, created, wish, visits>>
HomePresses == /\ Visits /\ ui' = Start(ui) /\ wish' = TRUE
           /\ UNCHANGED <<machineVars, probeVars, build, created, troubles>>
\* Cancel, and a new draft, empty the queue; what is posted stays posted.
HomeCancels ==
    /\ ui.armed /\ ui' = [ui EXCEPT !.armed = FALSE] /\ wish' = (wish /\ ui.posts > 0)
    /\ UNCHANGED <<machineVars, probeVars, build, created, visits, troubles>>
ChangesModel == Visits /\ ~ui.blocked /\ ui.posts = 0 /\ Page(PaintRunOptions(LoadModels(ui, "user")))
\* focus, visibilitychange, hashchange: refreshReadiness
Looks == Visits /\ Page(RefreshWatch(StartWatch(ui)))
\* The failed card's button.
TriesSetup == Visits /\ ui.status.build = "failed" /\ Page([ui EXCEPT !.setup = TRUE])

HomeNext ==
    \/ WorldMoves \/ BuildEnds \/ ProbeForgotten \/ ProbeStarts \/ ProbeEnds \/ CacheAnswers \/ SetupAnswered
    \/ TaskAnswered \/ TimerFires \/ PollAnswered \/ PollFails
    \/ \E who \in {"poll", "user"}, fails \in BOOLEAN : ModelsArrive(who, fails)
    \/ HomePresses \/ HomeCancels \/ ChangesModel \/ Looks \/ TriesSetup
HomeSpec == HomeInit /\ [][HomeNext]_homeVars

-----------------------------------------------------------------------------
(* Properties *)

\* Every variable has its type.
HomeTypeOK ==
    /\ {engine, homeImage, account, wish} \subseteq BOOLEAN /\ build \in {"idle", "running", "done", "failed"}
    /\ {ui.on, ui.timer, ui.flight, ui.asking, ui.blocked, ui.armed, ui.setup} \subseteq BOOLEAN
    /\ ui.reads \subseteq {"poll", "user"} /\ ui.catalog \in {"none", "yes", "no"} /\ ui.posts \in Nat

\* "nothing fires that the person did not ask for" (start): a task is made of a press that was not
\* cancelled, and of each press one, however polls, reads and answers overlap.
OnlyWhatWasAsked == [][created' # created => wish]_homeVars

CanStart == engine /\ homeImage /\ account /\ build # "running"
\* "it starts the moment the computer is ready" (start, onStatus, paintRunOptions): a queued start
\* does not stay queued once everything is ready.

-----------------------------------------------------------------------------
\* What is written of the code and is not so; no run lists these.

\* home.ts:413, "A build in flight, or one about to start on its own." The preparer that is done
\* once starts no other build: images that go missing are shown as a build that never comes.
SetupComes == <>[]engine => [](ui.status.known /\ ui.on => <>(homeImage \/ build = "failed" \/ ~ui.on))
=============================================================================
