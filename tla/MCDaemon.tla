------------------------------ MODULE MCDaemon ------------------------------
(***************************************************************************)
(* The parts of the daemon that keep tasks, side by side: the runs of a    *)
(* task, the computer under it, routines, the transcript of its model, the *)
(* budget of a harness and the gates of a call.  They share no variable;   *)
(* "part" says which of them a behaviour is about, the others rest.        *)
(***************************************************************************)
EXTENDS Tasks, Computers, Scheduler, Transcript, HarnessBudget, GatePolicy

VARIABLE part
daemonVars == <<part, taskVars, boxVars, schedulerVars, transcriptVars, harnessVars, gateVars>>

EveryFew == [r \in Routine |-> {n \in 1 .. MaxClock + Horizon : n % (IF r = "daily" THEN 3 ELSE 2) = 0}]

\* Gates: a site and its alias, a tenant beside the platform whose name it has, a bare host.
Https(host) == Origin("https", host, 0)
Shop == Https(<<"shop", "com">>)
WwwShop == Https(<<"www", "shop", "com">>)
Tenant == Https(<<"www", "github", "io">>)
Platform == Https(<<"github", "io">>)
Control(role, name, active) == [role |-> role, name |-> name, active |-> active]
Shows(o, controls, counted) ==
    [origin |-> o, checkout |-> o = Shop /\ counted = {"bare"}, controls |-> controls, counted |-> counted, marker |-> FALSE]
PagesSeen ==
    {Shows(o, {}, {}) : o \in {Shop, WwwShop, Tenant, Platform, AboutBlank, Https(<<"nas">>), Https(<<"my", "bank", "com">>)}}
    \cup {Shows(Shop, {Control("textbox", "password", TRUE)}, {}), Shows(Shop, {Control("link", "password", FALSE)}, {}),
          Shows(Shop, {Control("textbox", "card number", TRUE)}, {}), Shows(Shop, {Control("textbox", "code", TRUE)}, {}),
          Shows(Shop, {}, {"bare"}), Shows(WwwShop, {}, {"otp"}), [Shows(Shop, {}, {}) EXCEPT !.marker = TRUE]}
Tool(tool, does) == [tool |-> tool, does |-> does]
CallsMade ==
    {Tool("browser_snapshot", ""), Tool("write_file", ""), Tool("files_delete", ""), Tool("browser_upload", ""),
     Tool("browser_click", ""), Tool("browser_type", "submit"), Tool("browser_type", "newline"),
     Tool("browser_press", "enter"), Tool("computer_key", "enter"), Tool("computer_key", ""),
     Tool("computer_type", "newline"), Tool("computer_type", "")}
    \cup {Tool("shell_exec", does) : does \in {"remove", "send", "secret", ""}}
    \cup {Tool("connector_call", does) : does \in {"remove", "send", ""}}
    \cup {Tool("browser_tabs", does) : does \in {"select", "close"}}
    \cup {[tool |-> "browser_navigate", does |-> "", url |-> o] : o \in {Shop, AboutBlank}}
    \cup {[tool |-> "browser_tabs", does |-> "new", url |-> WwwShop]}
Declared == {NotDeclared, Declares({}), Declares({[Exactly(Origin(AnyScheme, <<"shop", "com">>, 0)) EXCEPT !.wild = TRUE]})}
SomeArmed == {OptionalGates, {}, {"new_domain"}}
SuffixList == {<<"com">>, <<"io">>, <<"github", "io">>}
Banks == {[Exactly(Origin(AnyScheme, <<"bank", "com">>, 0)) EXCEPT !.wild = TRUE]}
\* Settings change before anything is granted, and the kill switch with all gates on.
SettingsOrder ==
    /\ killed' => armed' = OptionalGates
    /\ (armed' # armed \/ killed' # killed) => granted = {}

Init ==
    /\ part \in {"tasks", "computers", "routines", "transcript", "budget", "gates"}
    /\ TaskInit /\ SchedulerInit /\ TranscriptInit /\ BudgetInit
    /\ GateInit /\ (part = "gates" \/ (mode = "strict" /\ declared = NotDeclared /\ armed = {}))
    /\ ComputerInit /\ (part = "computers" \/ box = "running")
Next ==
    /\ part' = part
    /\ IF part = "tasks" THEN TasksNext ELSE UNCHANGED taskVars
    /\ IF part = "computers" THEN ComputerNext ELSE UNCHANGED boxVars
    /\ IF part = "routines" THEN SchedulerNext ELSE UNCHANGED schedulerVars
    /\ IF part = "transcript" THEN TranscriptNext ELSE UNCHANGED transcriptVars
    /\ IF part = "budget" THEN BudgetNext ELSE UNCHANGED harnessVars
    /\ IF part = "gates" THEN GateNext /\ SettingsOrder ELSE UNCHANGED gateVars
Spec == Init /\ [][Next]_daemonVars

\* A task's runs do as its row says, and its calls need what a person was told they need.
TaskSafe == RunsSafe /\ GateSafe
\* What no step does: act or change an outcome after a stop, let a call in to a paused computer,
\* pass a firing within its window by without a row, switch a routine off that has not failed often enough.
DaemonSteps == NothingAfterStop /\ OutcomeStands /\ CallsFindItAwake /\ NoFiringLost /\ OffOnlyWhenTired
=============================================================================
