----------------------------- MODULE Supervisor -----------------------------
(***************************************************************************)
(* The macOS shell and the daemon it runs (apps/macos: DaemonSupervisor,   *)
(* the window's error page; cli/start.ts: what the child reports).  The    *)
(* supervisor's serial queue makes launch, a report, a termination and a   *)
(* timer one step each; what has been put on the queue and not run yet is  *)
(* `shellSaid`, `ended`, `delays` and `strays`.  A record on disk names    *)
(* the child, for the next start of a shell that was killed.               *)
(*                                                                         *)
(* Time is left out: backoffs and timeouts end at any moment.  A stranger  *)
(* on the preferred port is one that the record cannot name.               *)
(***************************************************************************)
EXTENDS Naturals, FiniteSets

CONSTANTS
    MaxRestarts,   \* maxRestarts
    LaunchBound,   \* bound: processes started
    CrashBound,    \* bound: crashes of a daemon, failed preparations
    PageBound,     \* bound: reloads of the page while no daemon answers
    ShellDeathBound     \* bound: kills of the shell that it cannot catch

ASSUME SupervisorAssumption ==
    {MaxRestarts, LaunchBound, CrashBound, PageBound, ShellDeathBound} \subseteq Nat

Pids == 1..LaunchBound
None == 0

VARIABLES
    daemons,   \* live children, orphans included: what each is doing and its port
    shell,     \* the supervisor's variables
    shellView,      \* the window: loading, the page, or the error state with its Try again
    shellSaid,      \* ready lines read and not handled
    ended,     \* termination handlers on the queue
    record,    \* the pid in the record on disk
    launched, crashes, pages, shellDeaths \* bounded counters

supervisorVars == <<daemons, shell, shellView, shellSaid, ended, record, launched, crashes, pages, shellDeaths>>
budgetVars == <<crashes, pages, shellDeaths>>

ShellAlive == {p \in Pids : daemons[p].phase # "gone"}
\* Ports: the one that is preferred, or the first free one.
Holds(p, port) == daemons[p] = [phase |-> "serving", port |-> port]
Gone == [phase |-> "gone", port |-> "preferred"]

NewShell == [state |-> "idle", process |-> None, restarts |-> 0, stopping |-> FALSE, sentinel |-> FALSE,
             watch |-> FALSE, strays |-> 0, delays |-> 0, loaded |-> FALSE, quits |-> FALSE, up |-> TRUE,
             since |-> launched]
SupervisorInit ==
    /\ launched = 0 /\ crashes = 0 /\ pages = 0 /\ shellDeaths = 0 /\ record = None
    /\ daemons = [p \in Pids |-> Gone] /\ shell = NewShell /\ shellView = "loading" /\ shellSaid = {} /\ ended = {}
\* terminationHandler, readabilityHandler: a shell hears only of the children that it launched itself.
ToldOf(p) == {p} \cap {q \in Pids : q > shell.since}

\* daemonStateChanged: the window follows the supervisor's state.
ViewOf(state) == CASE state = "preparing" -> "loading" [] state = "ready" -> "page" [] state = "failed" -> "error"
\* DaemonRecord.write
WritesRecord(p) == record' = p
\* parseReady: the child's ready line, read and not handled
Reports(p) == shellSaid' = shellSaid \cup ToldOf(p)
Crashes == crashes < CrashBound /\ crashes' = crashes + 1

-----------------------------------------------------------------------------
(* Launch *)

\* reclaim: our own daemon on the preferred port, if the record names it, is killed; the record is dropped.
Reclaimed == {p \in {record} \cap Pids : Holds(p, "preferred")}
\* choose
Port(left) == IF \E p \in left : Holds(p, "preferred") THEN "other" ELSE "preferred"
\* launch: nothing asks whether a child runs already; the timer of an earlier one stays.
Launch(s) ==
    IF launched = LaunchBound THEN shell' = s /\ UNCHANGED <<daemons, shellView, ended, record, launched>>
    ELSE LET p == launched + 1 IN
         /\ launched' = p /\ WritesRecord(p) /\ ended' = ended \cup UNION {ToldOf(q) : q \in Reclaimed} /\ shellView' = ViewOf("preparing")
         /\ daemons' = [q \in Pids |-> IF q = p THEN [phase |-> "booting", port |-> Port(ShellAlive \ Reclaimed)]
                                       ELSE IF q \in Reclaimed THEN Gone ELSE daemons[q]]
         /\ shell' = [s EXCEPT !.state = "preparing", !.process = p, !.stopping = FALSE, !.sentinel = FALSE,
                               !.watch = TRUE, !.strays = @ + (IF s.watch THEN 1 ELSE 0)]
\* A failed init or a missing file: launch gives up before there is a child.
LaunchFails(s) ==
    /\ Crashes /\ shell' = [s EXCEPT !.state = "failed", !.stopping = FALSE, !.sentinel = FALSE]
    /\ shellView' = ViewOf("failed") /\ UNCHANGED <<daemons, ended, record, launched>>
Launches(s) ==
    /\ \/ Launch(s) /\ UNCHANGED crashes
       \/ LaunchFails(s)
    /\ UNCHANGED <<shellSaid, pages, shellDeaths>>

ShellStart == shell.up /\ shell.state = "idle" /\ Launches(shell)
\* retry, runRecovery: the error state's buttons; the budget of restarts is new.
TryAgain ==
    /\ shell.up /\ ~shell.quits /\ shellView = "error" /\ launched < LaunchBound
    /\ Launches([shell EXCEPT !.restarts = 0])
\* handleTermination: the launch it scheduled.
Restart ==
    /\ shell.up /\ shell.delays > 0
    /\ IF shell.stopping
       THEN shell' = [shell EXCEPT !.delays = @ - 1] /\ UNCHANGED <<daemons, shellView, shellSaid, ended, record, launched, budgetVars>>
       ELSE Launches([shell EXCEPT !.delays = @ - 1])

-----------------------------------------------------------------------------
(* The child *)

\* startDaemon: it listens and reports, or it dies of a port that is taken.
Serves(p) ==
    /\ daemons[p].phase = "booting"
    /\ IF \E q \in Pids : Holds(q, daemons[p].port)
       THEN daemons' = [daemons EXCEPT ![p] = Gone] /\ ended' = ended \cup ToldOf(p) /\ UNCHANGED shellSaid
       ELSE daemons' = [daemons EXCEPT ![p].phase = "serving"] /\ Reports(p) /\ UNCHANGED ended
    /\ UNCHANGED <<shell, shellView, record, launched, budgetVars>>
Crash(p) ==
    /\ daemons[p].phase # "gone" /\ Crashes /\ daemons' = [daemons EXCEPT ![p] = Gone] /\ ended' = ended \cup ToldOf(p)
    /\ UNCHANGED <<shell, shellView, shellSaid, record, launched, pages, shellDeaths>>
\* consumeStdout: the first ready line since the last launch.
ShellReady(p) ==
    /\ shell.up /\ p \in shellSaid /\ shellSaid' = shellSaid \ {p}
    /\ IF shell.sentinel THEN UNCHANGED <<shell, shellView>>
       ELSE /\ shell' = [shell EXCEPT !.sentinel = TRUE, !.watch = FALSE, !.state = "ready", !.loaded = TRUE]
            /\ shellView' = ViewOf("ready")
    /\ UNCHANGED <<daemons, ended, record, launched, budgetVars>>
\* handleTermination; a daemon that was up for a while has its restarts back.
ShellEnded(p) ==
    /\ shell.up /\ p \in ended /\ p \notin shellSaid /\ ended' = ended \ {p}
    /\ \E fresh \in {FALSE, shell.loaded} :
         LET s == [shell EXCEPT !.process = None, !.watch = FALSE]
             n == IF fresh THEN 0 ELSE s.restarts IN
         IF s.stopping THEN shell' = s /\ UNCHANGED shellView
         ELSE IF n < MaxRestarts
         THEN shell' = [s EXCEPT !.restarts = n + 1, !.delays = @ + 1, !.state = "preparing"] /\ shellView' = ViewOf("preparing")
         ELSE shell' = [s EXCEPT !.restarts = n, !.state = "failed"] /\ shellView' = ViewOf("failed")
    /\ UNCHANGED <<daemons, shellSaid, record, launched, budgetVars>>
\* The timeout of a launch that was not cancelled, its own or that of an earlier one.
NotReadyInTime ==
    /\ shell.up /\ (shell.watch \/ shell.strays > 0)
    /\ shell' = IF shell.watch THEN [shell EXCEPT !.watch = FALSE] ELSE [shell EXCEPT !.strays = @ - 1]
    /\ IF shell.sentinel \/ shell.process \notin ShellAlive THEN UNCHANGED <<daemons, ended>>
       ELSE daemons' = [daemons EXCEPT ![shell.process] = Gone] /\ ended' = ended \cup {shell.process}
    /\ UNCHANGED <<shellView, shellSaid, record, launched, budgetVars>>

-----------------------------------------------------------------------------
(* The window and the end of the shell *)

\* Reload, in the menu, while no daemon answers.
PageFails ==
    /\ shell.up /\ shell.loaded /\ ~shell.quits /\ pages < PageBound /\ pages' = pages + 1
    /\ ~\E p \in Pids : daemons[p].phase = "serving"
    /\ shellView' = "error"
    /\ UNCHANGED <<daemons, shell, shellSaid, ended, record, launched, crashes, shellDeaths>>
\* shutdownBlocking, for Quit and for each signal that can be caught; the process exits a moment later.
ShutsDown ==
    /\ shell.up /\ ~shell.quits /\ shell.state # "idle"
    /\ shell' = [shell EXCEPT !.quits = TRUE, !.stopping = TRUE, !.watch = FALSE] /\ record' = None
    /\ IF shell.process \in ShellAlive
       THEN daemons' = [daemons EXCEPT ![shell.process] = Gone] /\ ended' = ended \cup {shell.process}
       ELSE UNCHANGED <<daemons, ended>>
    /\ UNCHANGED <<shellView, shellSaid, launched, budgetVars>>
Exits ==
    /\ shell.up /\ shell.quits /\ shell' = [NewShell EXCEPT !.up = FALSE] /\ shellSaid' = {} /\ ended' = {}
    /\ UNCHANGED <<daemons, shellView, record, launched, budgetVars>>
\* SIGKILL: the daemon is left running, and the record names it for the next shell.
ShellDies ==
    /\ shell.up /\ shellDeaths < ShellDeathBound /\ shellDeaths' = shellDeaths + 1
    /\ shell' = NewShell /\ shellView' = "loading" /\ shellSaid' = {} /\ ended' = {}
    /\ UNCHANGED <<daemons, record, launched, crashes, pages>>

SupervisorNext ==
    \/ ShellStart \/ TryAgain \/ Restart \/ NotReadyInTime \/ PageFails \/ ShutsDown \/ Exits \/ ShellDies
    \/ \E p \in Pids : Serves(p) \/ Crash(p) \/ ShellReady(p) \/ ShellEnded(p)
SupervisorSpec == SupervisorInit /\ [][SupervisorNext]_supervisorVars

-----------------------------------------------------------------------------
\* Types of the supervisor's state.
SupervisorTypeOK ==
    /\ daemons \in [Pids -> [phase : {"gone", "booting", "serving"}, port : {"preferred", "other"}]]
    /\ shell.state \in {"idle", "preparing", "ready", "failed"} /\ shell.process \in Pids \cup {None}
    /\ shell.restarts \in 0..MaxRestarts /\ shellSaid \cup ended \subseteq Pids /\ record \in Pids \cup {None}

\* "so the daemon goes down with the shell instead of being reparented to launchd and left holding the port"
\* (DaemonSupervisor.swift:131): a shell that has exited by a quit or a signal it can catch leaves no
\* daemon, whatever crash, restart, backoff or button came before, except one for every time the window was
\* reloaded to an error and one for every kill of a shell.
QuitTakesDaemonDown == ~shell.up => Cardinality(ShellAlive) <= pages + shellDeaths

\* Not so: a quit takes every daemon down.  A page reloaded while a child boots offers Try again, which
\* launches a second child and forgets the first; a killed shell's child is reclaimed only when it has the
\* preferred port.
QuitTakesAllDown == ~shell.up => ShellAlive = {}

\* A daemon that crashes, or never reports, ends in a page or in an error the person can act on.
Preparing == shell.state = "preparing"
=============================================================================
