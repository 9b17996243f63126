----------------------------- MODULE Scheduler -----------------------------
(***************************************************************************)
(* The routines of the daemon: the tick that fires them, the runs in       *)
(* progress, the switch that turns off a routine that keeps failing, and   *)
(* what is left of them after a crash or a graceful stop.                  *)
(*                                                                         *)
(* Time is a counter of minutes.  Rows of status "skipped" are read by     *)
(* nobody but a person: a skip that ends the wait for a firing is kept in  *)
(* `skipped`, the others ("already running") are left out.                 *)
(***************************************************************************)
EXTENDS Naturals, Sequences, FiniteSets, FiniteSetsExt

CONSTANTS
    Routine,        \* ids of routines
    ByCommand,      \* those that the command line may add, the API adds the others
    Removable,      \* those that a person may remove
    Run,            \* executions that may be in progress at once
    Matches,        \* Matches[r]: the minutes that the cron expression of r matches
    Horizon,        \* the minutes that nextCronRun searches for the next one
    MissedWindow,   \* MISSED_RUN_WINDOW_MS
    FatigueLimit,   \* FATIGUE_LIMIT
    MaxEnabled,     \* MAX_ENABLED_ROUTINES
    MaxClock, MaxManual, MaxStops     \* bounds: time, runs by hand, stops

ASSUME SchedulerAssumption ==
    /\ "none" \notin Routine /\ "none" \notin Run
    /\ Matches \in [Routine -> SUBSET Nat] /\ Horizon \in Nat
    /\ \A r \in Routine, t \in 0 .. MaxClock : \E n \in t + 1 .. t + Horizon : n \in Matches[r]
    /\ ByCommand \subseteq Routine /\ Removable \subseteq Routine
    /\ MissedWindow \in Nat /\ FatigueLimit \in Nat \ {0} /\ MaxEnabled \in Nat
    /\ MaxClock \in Nat /\ MaxManual \in Nat /\ MaxStops \in Nat

VARIABLES
    clock,
    daemon,      \* "down", "listening" (before recovery), "up", "closing"
    routine,     \* table routines
    history,     \* table routine_history, in the order of started_at
    tick,        \* the tick in progress: its time, its rows, the run it awaits
    routineRun,         \* executeRun, one continuation each
    inFlight,    \* routines in Scheduler.inFlight
    draining,    \* the runs that close() waits for, or NotDraining
    adding,      \* the command line between its count and its insert
    skipped,     \* history: firings given up as missed beyond the window
    manual, stops

routineRows == <<routine, history, skipped>>
process == <<tick, routineRun, inFlight, draining>>
schedulerVars == <<clock, daemon, routine, history, tick, routineRun, inFlight,
                   draining, adding, skipped, manual, stops>>

Idle == [at |-> "idle", id |-> "none", row |-> 0, auto |-> FALSE, failures |-> 0]
NoTick == [on |-> FALSE, now |-> 0, todo |-> {}, awaits |-> "none"]
NotDraining == {"not draining"}
Routines(s) == {r \in Routine : routine[r].is = s}

-----------------------------------------------------------------------------
(* The store *)

\* The first minute after t at which the expression of r matches.
NextCronRun(r, t) == Min({n \in t + 1 .. t + Horizon : n \in Matches[r]})

ShouldFireMissed(due, now) == due <= now /\ now - due < MissedWindow

CountEnabled == Cardinality({r \in Routines("live") : routine[r].enabled})

HasRunning(r) ==
    \E i \in DOMAIN history : history[i].id = r /\ history[i].status = "running"

\* Failures at the end of a history; runs still in progress do not count.
TailFailures(h, r) ==
    {i \in DOMAIN h : /\ h[i].id = r /\ h[i].status = "failed"
                      /\ \A j \in DOMAIN h : j > i /\ h[j].id = r => h[j].status # "done"}
ConsecutiveFailures(h, r) == Cardinality(TailFailures(h, r))

\* A bug: the time of the next firing is not moved.
NextRunKept(rs, r, t) == rs
\* An UPDATE of a row that was deleted changes nothing.
SetNextRun(rs, r, t) == [rs EXCEPT ![r].next = t]
SetEnabled(rs, r, b) == [rs EXCEPT ![r].enabled = b]

Inserted(r) == [is |-> "live", enabled |-> TRUE, next |-> NextCronRun(r, clock)]

-----------------------------------------------------------------------------
SchedulerInit ==
    /\ clock = 0 /\ daemon = "down"
    /\ routine = [r \in Routine |-> [is |-> "new", enabled |-> FALSE, next |-> 0]]
    /\ history = <<>> /\ skipped = {}
    /\ tick = NoTick /\ routineRun = [x \in Run |-> Idle] /\ inFlight = {}
    /\ draining = NotDraining /\ adding = "none"
    /\ manual = 0 /\ stops = 0

Passes ==
    /\ clock < MaxClock /\ clock' = clock + 1
    /\ UNCHANGED <<daemon, routineRows, process, adding, manual, stops>>

(* Requests of a person *)

Create(r) ==
    /\ daemon \in {"listening", "up"} /\ routine[r].is = "new"
    /\ CountEnabled < MaxEnabled
    /\ routine' = [routine EXCEPT ![r] = Inserted(r)]
    /\ UNCHANGED <<clock, daemon, history, skipped, process, adding, manual, stops>>

\* `modelbot routine add` opens the database itself, with or without a daemon.
CliCounts(r) ==
    /\ adding = "none" /\ routine[r].is = "new"
    /\ CountEnabled < MaxEnabled
    /\ adding' = r
    /\ UNCHANGED <<clock, daemon, routineRows, process, manual, stops>>
CliInserts ==
    /\ adding # "none"
    /\ IF routine[adding].is = "new"
       THEN routine' = [routine EXCEPT ![adding] = Inserted(adding)]
       ELSE UNCHANGED routine
    /\ adding' = "none"
    /\ UNCHANGED <<clock, daemon, history, skipped, process, manual, stops>>

RemoveRoutine(r) ==
    /\ routine[r].is = "live"
    /\ routine' = [routine EXCEPT ![r].is = "gone", ![r].enabled = FALSE]
    /\ UNCHANGED <<clock, daemon, history, skipped, process, adding, manual, stops>>

-----------------------------------------------------------------------------
(* executeRun up to its call of the runner: one synchronous stretch.  `due` *)
(* is the firing it stands for, 0 for a run by hand.                        *)

FreeRun == CHOOSE x \in Run : routineRun[x] = Idle
Execute(r, due, auto) ==
    IF r \in inFlight \/ HasRunning(r)
    THEN UNCHANGED <<routine, history, routineRun, inFlight>>
    ELSE /\ \E x \in Run : routineRun[x] = Idle
         /\ inFlight' = inFlight \cup {r}
         /\ history' = Append(history,
                [id |-> r, status |-> "running", due |-> due, ran |-> TRUE])
         /\ routine' = IF auto /\ routine[r].is = "live"
                       THEN SetNextRun(routine, r, NextCronRun(r, clock))
                       ELSE routine
         /\ routineRun' = [routineRun EXCEPT ![FreeRun] = [at |-> "runner", id |-> r,
                       row |-> Len(history) + 1, auto |-> auto, failures |-> 0]]

RunNow(r) ==
    /\ daemon \in {"listening", "up"} /\ routine[r].is = "live"
    /\ manual < MaxManual /\ manual' = manual + 1
    /\ Execute(r, 0, FALSE)
    /\ UNCHANGED <<clock, daemon, skipped, tick, draining, adding, stops>>

\* The rows are read once; of those, the ones that are not due are passed over.
TickStarts ==
    /\ daemon = "up" /\ ~tick.on
    /\ tick' = [on |-> TRUE, now |-> clock, awaits |-> "none",
                todo |-> {[id |-> r, next |-> routine[r].next] :
                    r \in {q \in Routines("live") :
                              routine[q].enabled /\ routine[q].next <= clock}}]
    /\ UNCHANGED <<clock, daemon, routineRows, routineRun, inFlight, draining, adding, manual, stops>>

TickTakes(row) ==
    /\ row \in tick.todo /\ tick.awaits = "none"
    /\ daemon \in {"up", "closing"}

TickFires(row) ==
    /\ TickTakes(row) /\ ShouldFireMissed(row.next, tick.now)
    /\ Execute(row.id, row.next, TRUE)
    /\ tick' = [tick EXCEPT !.todo = @ \ {row},
                            !.awaits = IF routineRun' = routineRun THEN "none" ELSE FreeRun]
    /\ UNCHANGED <<clock, daemon, skipped, draining, adding, manual, stops>>

MovedPast(row) ==
    IF routine[row.id].is = "live"
    THEN SetNextRun(routine, row.id, NextCronRun(row.id, tick.now)) ELSE routine
TickGivesUp(row) ==
    /\ TickTakes(row) /\ ~ShouldFireMissed(row.next, tick.now)
    /\ tick' = [tick EXCEPT !.todo = @ \ {row}]
    /\ routine' = MovedPast(row)
    /\ skipped' = skipped \cup {<<row.id, row.next>>}
    /\ UNCHANGED <<clock, daemon, history, routineRun, inFlight, draining, adding, manual, stops>>

TickEnds ==
    /\ tick.on /\ tick.todo = {} /\ tick.awaits = "none"
    /\ tick' = NoTick
    /\ UNCHANGED <<clock, daemon, routineRows, routineRun, inFlight, draining, adding, manual, stops>>

-----------------------------------------------------------------------------
(* executeRun after the runner: the record, the notifications, the switch *)

\* The runner answers, throws, or is refused or aborted by a daemon that closes.
RunnerEnds(x, status) ==
    /\ routineRun[x].at = "runner"
    /\ (daemon = "closing") => (status = "failed")
    /\ history' = [history EXCEPT ![routineRun[x].row].status = status]
    /\ routineRun' = [routineRun EXCEPT ![x].at = IF status = "failed" THEN "tired" ELSE "told",
                          ![x].failures = ConsecutiveFailures(history', routineRun[x].id)]
    /\ UNCHANGED <<clock, daemon, routine, skipped, tick, inFlight, draining,
                   adding, manual, stops>>

\* Back from the first notification, with the count of before it.
Fatigue(x) ==
    /\ routineRun[x].at = "tired"
    /\ routine' = IF routineRun[x].failures >= FatigueLimit
                  THEN SetEnabled(routine, routineRun[x].id, FALSE) ELSE routine
    /\ routineRun' = [routineRun EXCEPT ![x].at = "told"]
    /\ UNCHANGED <<clock, daemon, history, skipped, tick, inFlight, draining,
                   adding, manual, stops>>

\* The last notification is over: the promise settles, a tick goes on.
RunEnds(x) ==
    /\ routineRun[x].at = "told"
    /\ inFlight' = inFlight \ {routineRun[x].id}
    /\ routineRun' = [routineRun EXCEPT ![x] = Idle]
    /\ tick' = [tick EXCEPT !.awaits = IF @ = x THEN "none" ELSE @]
    /\ draining' = draining \ {x}
    /\ UNCHANGED <<clock, daemon, routineRows, adding, manual, stops>>

-----------------------------------------------------------------------------
(* The daemon's life *)

Listens ==
    /\ daemon = "down" /\ daemon' = "listening"
    /\ UNCHANGED <<clock, routineRows, process, adding, manual, stops>>

\* recoverInterrupted, then Scheduler.start; runs by hand may be in progress.
Recovers ==
    /\ daemon = "listening" /\ daemon' = "up"
    /\ history' = [i \in DOMAIN history |->
                      IF history[i].status = "running"
                      THEN [history[i] EXCEPT !.status = "failed"] ELSE history[i]]
    /\ UNCHANGED <<clock, routine, skipped, process, adding, manual, stops>>

Stopped ==
    /\ daemon' = "down" /\ tick' = NoTick /\ routineRun' = [x \in Run |-> Idle]
    /\ inFlight' = {} /\ draining' = NotDraining

RoutineCrashes ==
    /\ daemon # "down" /\ stops < MaxStops /\ stops' = stops + 1
    /\ Stopped
    /\ UNCHANGED <<clock, routineRows, adding, manual>>

\* A bug: the next firing is set before this one has its row.
AdvancesFirst(row) ==
    /\ TickTakes(row) /\ ShouldFireMissed(row.next, tick.now)
    /\ row.id \notin inFlight /\ ~HasRunning(row.id)
    /\ stops < MaxStops /\ stops' = stops + 1
    /\ routine' = SetNextRun(routine, row.id, NextCronRun(row.id, clock))
    /\ Stopped
    /\ UNCHANGED <<clock, history, skipped, adding, manual>>
\* A crash between the row of a firing and the time of the next one.
CrashesInExecute(row) ==
    /\ TickTakes(row) /\ ShouldFireMissed(row.next, tick.now)
    /\ row.id \notin inFlight /\ ~HasRunning(row.id)
    /\ stops < MaxStops /\ stops' = stops + 1
    /\ history' = Append(history,
           [id |-> row.id, status |-> "running", due |-> row.next, ran |-> FALSE])
    /\ Stopped
    /\ UNCHANGED <<clock, routine, skipped, adding, manual>>
\* A crash between the time of the next firing and the row of the one given up.
CrashesInGivingUp(row) ==
    /\ TickTakes(row) /\ ~ShouldFireMissed(row.next, tick.now)
    /\ stops < MaxStops /\ stops' = stops + 1
    /\ routine' = MovedPast(row)
    /\ Stopped
    /\ UNCHANGED <<clock, history, skipped, adding, manual>>

\* close(): no more ticks begin, but one in progress goes on.
Closes ==
    /\ daemon = "up" /\ stops < MaxStops /\ stops' = stops + 1
    /\ daemon' = "closing"
    /\ UNCHANGED <<clock, routineRows, process, adding, manual>>

\* drain() waits for the runs that are in progress when it is called.
Drains ==
    /\ daemon = "closing" /\ draining = NotDraining
    /\ draining' = {x \in Run : routineRun[x] # Idle}
    /\ UNCHANGED <<clock, daemon, routineRows, tick, routineRun, inFlight, adding, manual, stops>>
RoutineClosed ==
    /\ daemon = "closing" /\ draining = {}
    /\ Stopped
    /\ UNCHANGED <<clock, routineRows, adding, manual, stops>>

-----------------------------------------------------------------------------
Tick ==
    \/ TickStarts \/ TickEnds
    \/ \E row \in tick.todo :
          TickGivesUp(row) \/ TickFires(row)
Continues(x) ==
    (\E s \in {"done", "failed"} : RunnerEnds(x, s)) \/ Fatigue(x) \/ RunEnds(x)
Person ==
    \/ CliInserts
    \/ \E r \in ByCommand : CliCounts(r)
    \/ \E r \in Routine \ ByCommand : Create(r)
    \/ \E r \in Removable : RemoveRoutine(r)
    \/ \E r \in Routine : RunNow(r)
Life == Listens \/ Recovers \/ Drains \/ RoutineClosed
Accident ==
    \/ RoutineCrashes \/ Closes
    \/ \E row \in tick.todo : CrashesInExecute(row) \/ CrashesInGivingUp(row)

SchedulerNext ==
    \/ Passes \/ Tick \/ Person \/ Life \/ Accident
    \/ \E x \in Run : Continues(x)

SchedulerSpec == SchedulerInit /\ [][SchedulerNext]_schedulerVars

-----------------------------------------------------------------------------
RoutineRow == [is : {"new", "live", "gone"}, enabled : BOOLEAN, next : Nat]
HistoryRow == [id : Routine, status : {"running", "done", "failed"}, due : Nat, ran : BOOLEAN]
DueRow == [id : Routine, next : Nat]
TickState == [on : BOOLEAN, now : 0 .. MaxClock, awaits : Run \cup {"none"}, todo : SUBSET DueRow]
RunState == [at : {"idle", "runner", "tired", "told"}, id : Routine \cup {"none"}, row : Nat,
             auto : BOOLEAN, failures : Nat]

\* Every variable has its type.
SchedulerTypeOK ==
    /\ clock \in 0 .. MaxClock /\ manual \in 0 .. MaxManual /\ stops \in 0 .. MaxStops
    /\ daemon \in {"down", "listening", "up", "closing"}
    /\ routine \in [Routine -> RoutineRow] /\ history \in Seq(HistoryRow)
    /\ tick \in TickState /\ routineRun \in [Run -> RunState]
    /\ inFlight \subseteq Routine
    /\ draining \subseteq Run \cup NotDraining
    /\ adding \in Routine \cup {"none"}
    /\ skipped \subseteq Routine \X Nat

\* Single flight: a routine has one execution at most, whoever asked for it,
\* and inFlight knows it (loop.ts "Single-flight per routine").
SingleFlight ==
    \A x, y \in Run :
        routineRun[x] # Idle => /\ routineRun[x].id \in inFlight
                         /\ (routineRun[y].id = routineRun[x].id => x = y)

\* A firing runs its task once at most, across crashes, late ticks and rows
\* read before an await (executeRun moves next_run_at before it calls the runner).
FiresOnce ==
    \A i, j \in DOMAIN history :
        (/\ history[i].due # 0 /\ history[i].ran /\ history[j].ran
         /\ history[i].id = history[j].id /\ history[i].due = history[j].due) => i = j

\* Once the daemon has recovered, a row that says "running" has its run; an
\* orphan would block its routine for ever through hasRunning.
RunningRowsRun ==
    daemon = "up" =>
        \A i \in DOMAIN history : history[i].status = "running" =>
            \E x \in Run : routineRun[x].at = "runner" /\ routineRun[x].row = i

\* next_run_at moves past a firing only when the firing has its row, or when it
\* is beyond the window ("fire once if late < 1h; else skip to next", loop.ts).
\* A firing beyond it is written down as skipped, unless the daemon dies between
\* the two writes: a crash or a stop at the wrong moment loses no other.
HasRow(h, r, due) == \E i \in DOMAIN h : h[i].id = r /\ h[i].due = due
BeyondWindow(due) == due + MissedWindow <= clock
NoFiringLost ==
    [][\A r \in Routine :
          (routine[r].is = "live" /\ routine'[r].next # routine[r].next) =>
              \/ HasRow(history', r, routine[r].next)
              \/ /\ BeyondWindow(routine[r].next)
                 /\ <<r, routine[r].next>> \in skipped' \/ daemon' = "down"]_schedulerVars

\* A routine is switched off only by as many failures in a row as the limit,
\* although the count is read before a notification is awaited.
OffOnlyWhenTired ==
    [][\A r \in Routine :
          (/\ routine[r].is = "live" /\ routine[r].enabled
           /\ routine'[r].is = "live" /\ ~routine'[r].enabled) =>
              ConsecutiveFailures(history, r) >= FatigueLimit]_schedulerVars

\* A routine that is due is fired or given up, unless it is switched off or
\* removed: a tick that awaits another routine's task does not forget it.
Overdue(r) == routine[r].is = "live" /\ routine[r].enabled /\ routine[r].next <= clock

\* A routine runs once at a time and once for each firing, and its rows tell of runs there are.
RoutineSafe == SchedulerTypeOK /\ SingleFlight /\ FiresOnce /\ RunningRowsRun

\* Not so: that every firing passed by has its row.  The next time is set before
\* the row "skipped" is inserted, and a crash between them leaves neither.
SkipsAreRecorded ==
    [][\A r \in Routine :
          (routine[r].is = "live" /\ routine'[r].next # routine[r].next) =>
              \/ HasRow(history', r, routine[r].next)
              \/ <<r, routine[r].next>> \in skipped']_schedulerVars
=============================================================================
