----------------------------- MODULE MCProgress -----------------------------
(***************************************************************************)
(* What must come to happen, of ten parts side by side: each has at most   *)
(* two kinds of waiting, or two that wait.  The parts share no variable;   *)
(* "part" says which of them a behaviour is about, the others rest.  One   *)
(* formula for all of them keeps TLC to one liveness graph.                *)
(***************************************************************************)
EXTENDS Tasks, Computers, Scheduler, Connections, LiveView, Home, SignIn, Supervisor, Attention, Sessions

VARIABLE part
progressVars == <<part, taskVars, boxVars, schedulerVars, loginVars, liveVars, homeVars, signInVars,
                  supervisorVars, attentionVars, sessionsVars>>

EveryFew == [r \in Routine |-> {n \in 1 .. MaxClock + Horizon : n % (IF r = "daily" THEN 3 ELSE 2) = 0}]
OneTask(i) == "u1"

Init ==
    /\ part \in {"tasks", "computers", "routines", "connections", "live", "home", "signin", "supervisor",
                 "attention", "sessions"}
    /\ TaskInit /\ SchedulerInit /\ LiveInit /\ SupervisorInit /\ AttentionInit /\ SessionsInit
    /\ ComputerInit /\ (part = "computers" \/ box = "running")
    /\ ConnectionInit /\ (part = "connections" \/ signedIn = {})
    /\ HomeInit /\ (part = "home" \/ (engine /\ homeImage /\ account))
    /\ SignInInit /\ (part = "signin" \/ ("signed_in" \notin {accounts[p] : p \in Providers} /\ using.p = "claude"))
Next ==
    /\ part' = part
    /\ IF part = "tasks" THEN TasksNext ELSE UNCHANGED taskVars
    /\ IF part = "computers" THEN ComputerNext ELSE UNCHANGED boxVars
    /\ IF part = "routines" THEN SchedulerNext ELSE UNCHANGED schedulerVars
    /\ IF part = "connections" THEN ConnectionNext ELSE UNCHANGED loginVars
    /\ IF part = "live" THEN LiveNext ELSE UNCHANGED liveVars
    /\ IF part = "home" THEN HomeNext ELSE UNCHANGED homeVars
    /\ IF part = "signin" THEN SignInNext ELSE UNCHANGED signInVars
    /\ IF part = "supervisor" THEN SupervisorNext ELSE UNCHANGED supervisorVars
    /\ IF part = "attention" THEN AttentionNext ELSE UNCHANGED attentionVars
    /\ IF part = "sessions" THEN SessionsNext ELSE UNCHANGED sessionsVars
-----------------------------------------------------------------------------
\* A handler, a run and its timers are promises of one process: each goes on.
\* Nobody is sure to answer a hold, and no model is sure to call a tool.
TasksGoOn ==
    /\ \A r \in Attempt : WF_taskVars(part = "tasks" /\ Alive /\ RunStep(r))
    /\ \A q \in Request : WF_taskVars(part = "tasks" /\ Alive /\ (ResumeMarks(q) \/ ResumeStarts(q)))
    /\ WF_taskVars(part = "tasks" /\ Alive /\ (StopRevokes \/ TearsDown \/ StopTells))
\* A Docker command ends, and the promise that waits for it goes on.
ComputersGoOn ==
    /\ WF_boxVars(part = "computers" /\ (SweepPauses \/ SweepEnds))
    /\ WF_boxVars(part = "computers" /\ (Unpauses \/ Woken))
    /\ \A c \in Call : WF_boxVars(part = "computers" /\ CallChecks(c))
\* The timer ticks, tasks end (max_steps, stall), the daemon is started again.
RoutinesGoOn ==
    /\ WF_schedulerVars(part = "routines" /\ Tick) /\ WF_schedulerVars(part = "routines" /\ Life)
    /\ \A x \in Run : WF_schedulerVars(part = "routines" /\ Continues(x))
\* A sign-in that was begun goes on, a CLI that was told to end ends, a request is carried through.
ConnectionsGoOn ==
    /\ \A p \in Provider : WF_loginVars(part = "connections"
          /\ (LoginPrepares(p) \/ LoginLaunches(p) \/ LoginEnds(p) \/ (p \in dying /\ CliEnds(p))))
    /\ \A a \in Ask : WF_loginVars(part = "connections" /\ AskStep(a))
\* Docker wakes the computer, the chain of subscriptions runs on, the row follows the gate, a
\* desktop repaints, sockets that are gone are found out and opened again, messages are taken.
LiveGoesOn ==
    /\ WF_liveVars(part = "live" /\ WakeEnds) /\ WF_liveVars(part = "live" /\ (StartRuns \/ StopRuns))
    /\ WF_liveVars(part = "live" /\ RowFollows)
    /\ WF_liveVars(part = "live" /\ viewStream = "desktop" /\ FrameComes)
    /\ \A v \in Viewer : /\ WF_liveVars(part = "live" /\ (Receive(v) \/ Painted(v)))
                         /\ WF_liveVars(part = "live" /\ GhostCloses(v))
                         /\ WF_liveVars(part = "live" /\ ViewConnects(v))
\* What is asked is answered, builds end, timers fire.
HomeGoesOn ==
    /\ WF_homeVars(part = "home" /\ BuildEnds) /\ WF_homeVars(part = "home" /\ ProbeForgotten)
    /\ WF_homeVars(part = "home" /\ ProbeStarts) /\ WF_homeVars(part = "home" /\ ProbeEnds)
    /\ WF_homeVars(part = "home" /\ CacheAnswers) /\ WF_homeVars(part = "home" /\ SetupAnswered)
    /\ WF_homeVars(part = "home" /\ TaskAnswered) /\ WF_homeVars(part = "home" /\ TimerFires)
    /\ WF_homeVars(part = "home" /\ PollAnswered)
    /\ WF_homeVars(part = "home" /\ \E who \in {"poll", "user"}, fails \in BOOLEAN : ModelsArrive(who, fails))
\* The daemon answers and timers fire; nobody has to finish a sign-in.
SignInGoesOn ==
    /\ WF_signInVars(part = "signin" /\ ReadTaken) /\ WF_signInVars(part = "signin" /\ ReadAnswered)
    /\ WF_signInVars(part = "signin" /\ SignTimerFires) /\ WF_signInVars(part = "signin" /\ Calling)
\* The queue is served and timers end; a daemon need not come up, nor a person press.
SupervisorGoesOn ==
    /\ WF_supervisorVars(part = "supervisor" /\ ShellStart) /\ WF_supervisorVars(part = "supervisor" /\ Restart)
    /\ WF_supervisorVars(part = "supervisor" /\ NotReadyInTime)
    /\ \A p \in Pids : /\ WF_supervisorVars(part = "supervisor" /\ ShellReady(p))
                       /\ WF_supervisorVars(part = "supervisor" /\ ShellEnded(p))
\* Timers fire, a closed stream is opened again after a second, a read is answered or fails.
AttentionGoesOn ==
    /\ WF_attentionVars(part = "attention" /\ StreamOpens) /\ WF_attentionVars(part = "attention" /\ DaemonReturns)
    /\ WF_attentionVars(part = "attention" /\ Hears) /\ WF_attentionVars(part = "attention" /\ Reconciles)
    /\ WF_attentionVars(part = "attention" /\ Expires)
    /\ WF_attentionVars(part = "attention" /\ \E r \in rounds : ReadsRows(r))
    /\ WF_attentionVars(part = "attention" /\ \E r \in rounds : ReadsTasks(r))
\* The computer takes what comes, and a queue goes on once the computer is awake.
SessionsGoOn ==
    /\ WF_sessionsVars(part = "sessions" /\ ComputerDoes)
    /\ \A t \in Tabs : /\ WF_sessionsVars(part = "sessions" /\ Starts(t))
                       /\ WF_sessionsVars(part = "sessions" /\ AuthWoken(t))
Spec ==
    /\ Init /\ [][Next]_progressVars
    /\ TasksGoOn /\ ComputersGoOn /\ RoutinesGoOn /\ ConnectionsGoOn /\ LiveGoesOn /\ HomeGoesOn
    /\ SignInGoesOn /\ SupervisorGoesOn /\ AttentionGoesOn /\ SessionsGoOn

-----------------------------------------------------------------------------
\* The k-th that waits: of a part with one, both are it.
First(k, S) == CHOOSE x \in S : k = 1 \/ S = {x} \/ x # CHOOSE y \in S : TRUE
IsWaiting(k) ==
    \/ part = "tasks" /\ (IF k = 1 THEN LoopIsStopped ELSE MessageWaits)
    \/ part = "computers" /\ CallWaits(First(k, Call))
    \/ part = "routines" /\ Overdue(First(k, Routine))
    \/ part = "connections" /\ ask[First(k, Ask)].at = "cancels"
    \/ part = "live" /\ MayShow(First(k, Viewer))
    \/ part = "home" /\ ui.armed
    \/ part = "signin" /\ IsOwed
    \/ part = "supervisor" /\ Preparing
    \/ part = "attention" /\ (IF k = 1 THEN IsCalledFor(First(1, Items)) ELSE IsPast(First(1, Items)))
    \/ part = "sessions" /\ MoveIsDue(First(k, Tabs))
IsServed(k) ==
    \/ part = "tasks" /\ (IF k = 1 THEN NothingWorks ELSE NoMessageWaits)
    \/ part = "computers" /\ ~CallWaits(First(k, Call))
    \/ part = "routines" /\ ~Overdue(First(k, Routine))
    \/ part = "connections" /\ ask[First(k, Ask)] = Nowhere
    \/ part = "live" /\ (view[First(k, Viewer)].ready \/ ~MayShow(First(k, Viewer)))
    \/ part = "home" /\ (~ui.armed \/ ~CanStart)
    \/ part = "signin" /\ ~owed
    \/ part = "supervisor" /\ (~Preparing \/ shell.quits \/ launched = LaunchBound)
    \/ part = "attention" /\ (IF k = 1 THEN First(1, Items) \in items \/ ~IsCalledFor(First(1, Items))
                             ELSE First(1, Items) \notin items)
    \/ part = "sessions" /\ MoveIsPast(First(k, Tabs))

\* Whoever waits is served: a stopped run ends, a message is read, a call is let in to its
\* computer, a routine that is due is handled, a cancellation is answered, a picture comes, a
\* queued start starts, a sign-in is connected, a daemon comes up or says why not, a request is
\* shown and taken down, a person's last move arrives.
WhoWaitsIsServed == \A k \in {1, 2} : IsWaiting(k) ~> IsServed(k)
=============================================================================
