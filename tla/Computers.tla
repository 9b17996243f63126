----------------------------- MODULE Computers -----------------------------
(***************************************************************************)
(* One computer: its containers (`box`), its row, the idle sweep that      *)
(* pauses it, the calls that wake it, and the requests that start, stop,   *)
(* delete, wipe or recreate it while tasks come and go.                    *)
(*                                                                         *)
(* A Docker command takes effect in one step and its handler goes on in a  *)
(* later one.  A takeover counts as a task here: both keep the sweep, the  *)
(* refresh and the wipe away by the same kind of check.                    *)
(***************************************************************************)
EXTENDS Naturals, FiniteSets

CONSTANTS
    Call,          \* calls to the computer that may overlap
    TaskRequest,   \* POST /tasks for this computer, native or automatic
    MaxOverlap     \* bound: requests on the computer that overlap

ASSUME ComputerAssumption == MaxOverlap \in Nat

VARIABLES
    box,           \* "running", "paused", "stopped", "absent"
    row,           \* "running", "stopped", "none"
    lapsed,        \* lastActive is longer ago than idlePauseMin
    known,         \* the id is in `paused`
    reconciled,    \* the id is in `reconciled`
    flight,        \* inFlight names the pause of the sweep
    sweep,         \* the pause of the sweep: "no", "docker", "done", "failed"
    waking,        \* the unpause that waking calls share: "no", "docker", "done"
    call,          \* where each call is
    op,            \* where each request on the computer is
    cancelling,    \* computersCancelling
    posted,        \* where each POST /tasks is; "live" while its task is
    computerRoutine,       \* a task of a routine is live
    stray          \* history: a pause that the controller forgot or saw fail

boxVars == <<box, row, lapsed, known, reconciled, flight, sweep, waking, call, op,
             cancelling, posted, computerRoutine, stray>>
idleVars == <<lapsed, known, reconciled, flight, sweep, waking, call>>
workVars == <<cancelling, posted, computerRoutine>>

Op == {"start", "stop", "delete", "forget", "refresh"}
LiveTasks == {t \in TaskRequest : posted[t] = "live"}
Step(o, place) == op' = [op EXCEPT ![o] = place]

ComputerInit ==
    /\ box \in {"running", "paused"} /\ row = "running"     \* a previous daemon may have paused it
    /\ lapsed = FALSE /\ known = FALSE /\ reconciled = FALSE
    /\ flight = FALSE /\ sweep = "no" /\ waking = "no"
    /\ call = [c \in Call |-> "no"] /\ op = [o \in Op |-> "no"]
    /\ cancelling = FALSE /\ posted = [t \in TaskRequest |-> "no"] /\ computerRoutine = FALSE
    /\ stray = FALSE

\* No container is paused any more, unless a forgotten pause is still to come.
Thawed == stray' = (stray /\ (box # "paused" \/ sweep = "docker"))

-----------------------------------------------------------------------------
(* idle-pause.ts *)

Forget ==
    /\ lapsed' = FALSE /\ known' = FALSE /\ reconciled' = FALSE /\ flight' = FALSE
    /\ stray' = (stray \/ sweep # "no")

\* Minutes pass without a call: longer than a wake takes, not longer than a call may.
Lapses ==
    /\ ~lapsed /\ lapsed' = TRUE
    /\ waking = "no" /\ \A c \in Call : call[c] \in {"no", "in"}
    /\ UNCHANGED <<box, row, known, reconciled, flight, sweep, waking, call, op, workVars, stray>>

\* wake(), from the end of the await of inFlight: known to be awake, or unpaused.
Checked(c) ==
    IF reconciled /\ ~known
    THEN call' = [call EXCEPT ![c] = "in"] /\ UNCHANGED waking
    ELSE /\ call' = [call EXCEPT ![c] = "unpauses"]
         /\ waking' = IF waking = "no" THEN "docker" ELSE waking
WakeBegins(c) ==
    /\ call[c] = "no" /\ row # "none" /\ lapsed' = FALSE
    /\ IF flight THEN call' = [call EXCEPT ![c] = "awaits"] /\ UNCHANGED waking
       ELSE Checked(c)
    /\ UNCHANGED <<box, row, known, reconciled, flight, sweep, op, workVars, stray>>
Unpauses ==
    /\ waking = "docker"
    /\ \/ /\ waking' = "done" /\ UNCHANGED call
          /\ box' = IF box = "paused" THEN "running" ELSE box
          /\ Thawed
       \/ /\ waking' = "no" /\ UNCHANGED <<box, stray>>       \* Docker fails: so do the calls
          /\ call' = [c \in Call |-> IF call[c] = "unpauses" THEN "no" ELSE call[c]]
    /\ UNCHANGED <<row, lapsed, known, reconciled, flight, sweep, op, workVars>>
Woken ==
    /\ waking = "done" /\ waking' = "no"
    /\ known' = FALSE /\ reconciled' = TRUE
    /\ call' = [c \in Call |-> IF call[c] = "unpauses" THEN "in" ELSE call[c]]
    /\ UNCHANGED <<box, row, lapsed, flight, sweep, op, workVars, stray>>
ComputerCallEnds(c) ==
    /\ call[c] = "in" /\ call' = [call EXCEPT ![c] = "no"]
    /\ UNCHANGED <<box, row, lapsed, known, reconciled, flight, sweep, waking, op, workVars, stray>>

\* tick: nothing for a computer in use, paused, or being paused.
SweepBegins ==
    /\ row = "running" /\ LiveTasks = {} /\ ~known /\ ~flight /\ sweep = "no" /\ lapsed
    /\ sweep' = "docker" /\ flight' = TRUE
    /\ UNCHANGED <<box, row, lapsed, known, reconciled, waking, call, op, workVars, stray>>
\* Two containers are paused in turn: the second may fail.
SweepPauses ==
    /\ sweep = "docker"
    /\ LET paused == IF box = "running" THEN "paused" ELSE box IN
       \/ sweep' = "done" /\ box' = paused /\ UNCHANGED stray
       \/ sweep' = "failed" /\ box' \in {box, paused} /\ stray' = (stray \/ box' # box)
    /\ UNCHANGED <<row, lapsed, known, reconciled, flight, waking, call, op, workVars>>
SweepEnds ==
    /\ sweep \in {"done", "failed"}
    /\ known' = (known \/ sweep = "done")
    /\ flight' = FALSE /\ sweep' = "no"
    /\ call' = [c \in Call |-> IF call[c] # "awaits" THEN call[c]
                               ELSE IF sweep = "done" THEN "checks" ELSE "no"]
    /\ UNCHANGED <<box, row, lapsed, reconciled, waking, op, workVars, stray>>
CallChecks(c) ==
    /\ call[c] = "checks" /\ Checked(c)
    /\ UNCHANGED <<box, row, lapsed, known, reconciled, flight, sweep, op, workVars, stray>>

-----------------------------------------------------------------------------
(* Requests on the computer *)

ComputerWaiting(t) == posted[t] \in {"starts", "marks"}
InProgress == Cardinality({o \in Op : op[o] # "no"} \cup {t \in TaskRequest : ComputerWaiting(t)})
Begins(o) == op[o] = "no" /\ row # "none" /\ InProgress < MaxOverlap

\* startComputer ignores a missing container and refuses a paused one.
DockerStarts == box' = IF box = "stopped" THEN "running" ELSE box
SetStatus(s) == row' = IF row = "none" THEN row ELSE s

ComputerStarts ==
    \/ /\ Begins("start") /\ Step("start", "docker")
       /\ UNCHANGED <<box, row, idleVars, workVars, stray>>
    \/ /\ op["start"] = "docker" /\ DockerStarts
       /\ Step("start", IF box = "paused" THEN "no" ELSE "marks")
       /\ UNCHANGED <<row, idleVars, workVars, stray>>
    \/ /\ op["start"] = "marks" /\ SetStatus("running") /\ Step("start", "no")
       /\ UNCHANGED <<box, idleVars, workVars, stray>>

\* cancelTasksOn: the tasks whose rows say running; a paused one stays.
CancelTasksOn ==
    /\ posted' = [t \in TaskRequest |-> IF posted[t] = "live" THEN "no" ELSE posted[t]]
    /\ computerRoutine' = FALSE /\ UNCHANGED cancelling
ComputerStops ==
    \/ /\ Begins("stop") /\ Step("stop", "docker") /\ CancelTasksOn
       /\ UNCHANGED <<box, row, idleVars, stray>>
    \/ /\ op["stop"] = "docker" /\ Step("stop", "marks")
       /\ box' = IF box = "absent" THEN box ELSE "stopped"
       /\ Thawed
       /\ UNCHANGED <<row, idleVars, workVars>>
    \/ /\ op["stop"] = "marks" /\ Forget /\ SetStatus("stopped") /\ Step("stop", "no")
       /\ UNCHANGED <<box, sweep, waking, call, workVars>>
ComputerDeletes ==
    \/ /\ Begins("delete") /\ Step("delete", "docker") /\ CancelTasksOn
       /\ UNCHANGED <<box, row, idleVars, stray>>
    \/ /\ op["delete"] = "docker" /\ box' = "absent" /\ Step("delete", "marks")
       /\ Thawed /\ UNCHANGED <<row, idleVars, workVars>>
    \/ /\ op["delete"] = "marks" /\ Forget /\ Step("delete", "closes")
       /\ UNCHANGED <<box, row, sweep, waking, call, workVars>>
    \/ /\ op["delete"] = "closes" /\ row' = "none" /\ Step("delete", "no")
       /\ UNCHANGED <<box, idleVars, workVars, stray>>

ForgetBegins ==
    /\ Begins("forget") /\ ~cancelling
    /\ LiveTasks = {} /\ ~computerRoutine
    /\ cancelling' = TRUE /\ Step("forget", "closes") /\ Forget
    /\ UNCHANGED <<box, row, sweep, waking, call, posted, computerRoutine>>
\* Stopped, removed with the profile, created again: or it fails on the way.
ForgetWipes ==
    \/ /\ op["forget"] = "closes" /\ Step("forget", "wipes") /\ box' = "absent"
       /\ Thawed /\ UNCHANGED <<row, idleVars, workVars>>
    \/ /\ op["forget"] = "wipes" /\ Step("forget", "marks") /\ box' = "running"
       /\ UNCHANGED <<row, idleVars, workVars, stray>>
    \/ /\ op["forget"] \in {"closes", "wipes"} /\ Step("forget", "fails")
       /\ UNCHANGED <<box, row, idleVars, workVars, stray>>
ForgetEnds ==
    /\ op["forget"] \in {"marks", "fails"} /\ Step("forget", "no")
    /\ SetStatus(IF op["forget"] = "marks" THEN "running" ELSE "stopped")
    /\ cancelling' = FALSE
    /\ UNCHANGED <<box, idleVars, posted, computerRoutine, stray>>

\* reconcileComputerImages: the check, the comparison of images, the recreation.
RefreshBlocked == LiveTasks # {} \/ computerRoutine
Refreshes ==
    \/ /\ Begins("refresh") /\ ~RefreshBlocked /\ Step("refresh", "compares")
       /\ UNCHANGED <<box, row, idleVars, workVars, stray>>
    \/ /\ op["refresh"] = "compares" /\ Step("refresh", "no")        \* nothing has drifted
       /\ UNCHANGED <<box, row, idleVars, workVars, stray>>
    \/ /\ op["refresh"] = "compares" /\ Step("refresh", "recreates")
       /\ box' = IF box = "paused" THEN "running" ELSE box
       /\ Thawed
       /\ UNCHANGED <<row, idleVars, workVars>>
    \/ /\ op["refresh"] = "recreates" /\ Step("refresh", "no") /\ box' = "running"
       /\ Thawed
       /\ UNCHANGED <<row, idleVars, workVars>>

-----------------------------------------------------------------------------
(* Tasks *)

Busy == cancelling \/ LiveTasks # {}
Post(t, place) == posted' = [posted EXCEPT ![t] = place]
\* POST /tasks: refused when busy; a stopped computer is started first.
PostBegins(t) ==
    /\ posted[t] = "no" /\ row # "none" /\ ~Busy /\ InProgress < MaxOverlap
    /\ Post(t, IF row = "running" THEN "live" ELSE "starts")
    /\ UNCHANGED <<box, row, idleVars, op, cancelling, computerRoutine, stray>>
PostStarts(t) ==
    /\ posted[t] = "starts" /\ DockerStarts
    /\ Post(t, IF box = "paused" THEN "no" ELSE "marks")
    /\ UNCHANGED <<row, idleVars, op, cancelling, computerRoutine, stray>>
\* A bug: busy is not asked again after the start.
PostInserts(t) ==
    /\ posted[t] = "marks" /\ SetStatus("running")
    /\ Post(t, "live")
    /\ UNCHANGED <<box, idleVars, op, cancelling, computerRoutine, stray>>
PostMarks(t) ==
    /\ posted[t] = "marks" /\ SetStatus("running")
    /\ Post(t, IF Busy THEN "no" ELSE "live")
    /\ UNCHANGED <<box, idleVars, op, cancelling, computerRoutine, stray>>
\* The scheduler asks for a row that says running, nothing more.
RoutineStarts ==
    /\ row = "running" /\ ~computerRoutine /\ computerRoutine' = TRUE
    /\ UNCHANGED <<box, row, idleVars, op, cancelling, posted, stray>>
TaskEnds ==
    /\ \/ \E t \in LiveTasks : Post(t, "no") /\ UNCHANGED computerRoutine
       \/ computerRoutine /\ computerRoutine' = FALSE /\ UNCHANGED posted
    /\ UNCHANGED <<box, row, idleVars, op, cancelling, stray>>

CallStep(c) == WakeBegins(c) \/ CallChecks(c) \/ ComputerCallEnds(c)
ComputerNext ==
    \/ Lapses \/ SweepBegins \/ SweepPauses \/ SweepEnds \/ Unpauses \/ Woken
    \/ \E c \in Call : CallStep(c)
    \/ ComputerStarts \/ ComputerStops \/ ComputerDeletes \/ ForgetBegins \/ ForgetWipes \/ ForgetEnds \/ Refreshes
    \/ \E t \in TaskRequest : PostBegins(t) \/ PostStarts(t) \/ PostMarks(t)
    \/ RoutineStarts \/ TaskEnds
ComputerSpec == ComputerInit /\ [][ComputerNext]_boxVars

-----------------------------------------------------------------------------
(* Properties *)

\* Every variable has its type.
ComputerTypeOK ==
    /\ box \in {"running", "paused", "stopped", "absent"} /\ row \in {"running", "stopped", "none"}
    /\ {lapsed, known, reconciled, flight, cancelling, computerRoutine, stray} \subseteq BOOLEAN
    /\ sweep \in {"no", "docker", "done", "failed"} /\ waking \in {"no", "docker", "done"}
    /\ call \in [Call -> {"no", "awaits", "checks", "unpauses", "in"}]
    /\ op \in [Op -> {"no", "docker", "marks", "closes", "wipes", "fails", "compares", "recreates"}]
    /\ posted \in [TaskRequest -> {"no", "starts", "marks", "live"}]

\* A call that is past wake() finds no paused container, however the sweep, the
\* requests and other calls interleave, unless a pause was forgotten or failed.
CallsFindItAwake ==
    [][\A c \in Call : call'[c] = "in" /\ call[c] # "in" => box # "paused" \/ stray]_boxVars

\* A paused container is one the next call will unpause: the controller knows
\* it, does not trust it yet, or is on the way to noting it.
PausedIsKnown ==
    box = "paused" /\ ~stray => known \/ ~reconciled \/ sweep # "no"

\* Two native or automatic tasks are never live on one computer, also when both
\* requests had to start it (computerBusy asked again, server.ts).
OneLiveTask == Cardinality(LiveTasks) <= 1

\* No task that a request began is live while the logins are being wiped.
WipedAlone == op["forget"] \in {"closes", "wipes"} => LiveTasks = {}

\* A call that waits for the computer to wake gets in or fails: a shared
\* unpause leaves no waiter behind.
CallWaits(c) == call[c] \in {"awaits", "checks", "unpauses"}

\* A paused container will be woken, a computer has one live task, and none while it is wiped.
ComputerSafe == ComputerTypeOK /\ PausedIsKnown /\ OneLiveTask /\ WipedAlone

-----------------------------------------------------------------------------
\* What is written of the code and is not so; no run lists these.

\* server.ts:1140, "Recreate on drift only when idle". The refresh asks once, then awaits the
\* comparison and the pull: a task begun in between runs on a computer that is recreated.
RecreatedIdle ==
    [][op["refresh"] = "recreates" /\ op'["refresh"] = "no" => ~RefreshBlocked]_boxVars
=============================================================================
