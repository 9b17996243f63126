------------------------------- MODULE Tasks -------------------------------
(***************************************************************************)
(* The life of one task: its row, the runs that work on it (the loop of    *)
(* the daemon with an API adapter, or the turns of a native CLI), and the  *)
(* requests of the operator that meet them: message, resume, stop.         *)
(*                                                                         *)
(* A run is a chain of awaits; `at` is the one it is in.  An event is in   *)
(* `log` once the append of the audit log that is awaited is over.         *)
(***************************************************************************)
EXTENDS Naturals, FiniteSets

CONSTANTS
    Adapter,       \* kinds of runner, among "loop" and "native"
    Attempt,       \* runs of the task that may overlap; one that ended is reused
    Request,       \* resume requests that may overlap
    StepLimit,     \* max_steps of the row
    MaxMessages, MaxEnds     \* bounds: operator messages, ends of the daemon

ASSUME TaskAssumption ==
    /\ Adapter \subseteq {"loop", "native"}
    /\ StepLimit \in Nat \ {0} /\ MaxMessages \in Nat /\ MaxEnds \in Nat

VARIABLES
    life,          \* the daemon: "up", "closing", "down"
    task,          \* the row, with the steps of its last usage record
    log,           \* outcomes the audit events of the task tell
    receipt,       \* summary_json: what the log held when it was frozen
    pending,       \* operator messages nobody has read
    attempt,       \* runStoredTask, one continuation each
    entry,         \* taskControllers and taskRuns: the run they name
    aborted,       \* runs whose signal has fired
    scope,         \* scopedMcp: the run whose scope is registered
    waiting,       \* what the task waits for a person to decide
    resume,        \* resume requests: where each is
    stop,          \* the cancel request: where it is
    turns, ends    \* history: model turns of the loop; ends of the daemon

taskVars == <<life, task, log, receipt, pending, attempt, entry, aborted,
              scope, waiting, resume, stop, turns, ends>>

Unfrozen == {"unfrozen"}
Terminal == {"completed", "failed", "cancelled"}
Off == [at |-> "none", step |-> 0, want |-> "none", late |-> FALSE, call |-> "none"]
Cancelled == task.status = "cancelled"

\* The awaits in which a run works on the task.
Working == {"start", "top", "reply", "think", "act", "held",
            "wait", "turn", "await"}
At(r, place) == attempt[r].at = place
Go(r, place) == attempt' = [attempt EXCEPT ![r].at = place]

-----------------------------------------------------------------------------
(* The store *)

FinishTask(t, s) == IF t.status \in Terminal THEN t ELSE [t EXCEPT !.status = s]
\* running -> paused; a stop wins the race.
PauseTask(t) == IF t.status \in Terminal THEN t ELSE [t EXCEPT !.status = "paused"]
Tell(event) == log \cup ({event} \cap Terminal)
FreezeTaskSummary(seen) ==
    receipt' = IF receipt = Unfrozen /\ task'.status \in Terminal
               THEN seen ELSE receipt

TaskInit ==
    /\ life = "up" /\ ends = 0 /\ turns = 0
    /\ task = [status |-> "none", adapter |-> "loop", used |-> 0]
    /\ log = {} /\ receipt = Unfrozen /\ pending = 0
    /\ attempt = [r \in Attempt |-> Off] /\ entry = "none" /\ aborted = {}
    /\ scope = "none" /\ waiting = "no"
    /\ resume = [q \in Request |-> "none"]
    /\ stop = [by |-> "nobody", told |-> FALSE, tear |-> "no", awaits |-> "none"]

\* startStoredTask
JobFree(r) == At(r, "none") /\ attempt[r].call = "none"
FreshAttempt == CHOOSE r \in Attempt : JobFree(r)
StartStoredTask(step) ==
    /\ \E r \in Attempt : JobFree(r)
    /\ attempt' = [attempt EXCEPT ![FreshAttempt] =
                      [Off EXCEPT !.at = "start", !.step = step]]
    /\ entry' = FreshAttempt /\ aborted' = aborted \ {FreshAttempt}

-----------------------------------------------------------------------------
(* Requests *)

\* POST /tasks, from the insert on: the run is started before anything is awaited.
CreateTask(kind) ==
    /\ life = "up" /\ task.status = "none"
    /\ task' = [task EXCEPT !.status = "running", !.adapter = kind]
    /\ StartStoredTask(0)
    /\ UNCHANGED <<life, log, receipt, pending, scope, waiting, resume, stop, turns, ends>>

\* POST /tasks/:id/messages
PostMessage ==
    /\ life = "up" /\ task.status = "running" /\ pending < MaxMessages
    /\ pending' = pending + 1
    /\ UNCHANGED <<life, task, log, receipt, attempt, entry, aborted, scope,
                   waiting, resume, stop, turns, ends>>

\* POST /tasks/:id/resume: the row and its budget are read, the computer is woken.
ResumeBegins(q) ==
    /\ life = "up" /\ resume[q] = "none" /\ task.status = "paused"
    /\ task.adapter = "loop" => task.used < StepLimit
    /\ resume' = [resume EXCEPT ![q] = "waking"]
    /\ UNCHANGED <<life, task, log, receipt, pending, attempt, entry, aborted,
                   scope, waiting, stop, turns, ends>>
\* Back from the wake: refused under a hold, or unless the row is still paused.
ResumeMarks(q) ==
    /\ resume[q] = "waking"
    /\ IF task.status = "paused" /\ waiting \notin {"human", "asked"}
       THEN /\ task' = [task EXCEPT !.status = "running"]
            /\ resume' = [resume EXCEPT ![q] = "telling"]
       ELSE resume' = [resume EXCEPT ![q] = "none"] /\ UNCHANGED task
    /\ UNCHANGED <<life, log, receipt, pending, attempt, entry, aborted, scope,
                   waiting, stop, turns, ends>>
\* A bug: a resume leaves a run that is still in the map to it.
ResumeTrusts(q) ==
    /\ resume[q] = "telling"
    /\ resume' = [resume EXCEPT ![q] = "none"]
    /\ IF entry = "none" THEN StartStoredTask(task.used)
       ELSE UNCHANGED <<attempt, entry, aborted>>
    /\ UNCHANGED <<life, task, log, receipt, pending, scope, waiting, stop, turns, ends>>
\* The event is appended, then the run starts, whatever the row says by now.
ResumeStarts(q) ==
    /\ resume[q] = "telling"
    /\ resume' = [resume EXCEPT ![q] = "none"]
    /\ IF life = "closing"
       THEN task' = FinishTask(task, "cancelled") /\ UNCHANGED <<attempt, entry, aborted>>
       ELSE StartStoredTask(task.used) /\ UNCHANGED task
    /\ UNCHANGED <<life, log, receipt, pending, scope, waiting, stop, turns, ends>>

\* beginCancel: row, signal and unanswered asks at once; then an await.
StopBegins(by) ==
    /\ life = "up" /\ stop.by = "nobody" /\ task.status \in {"running", "paused"}
    /\ task' = FinishTask(task, "cancelled")
    /\ aborted' = IF entry = "none" THEN aborted ELSE aborted \cup {entry}
    /\ waiting' = IF waiting = "human" THEN waiting ELSE "no"
    /\ stop' = [stop EXCEPT !.by = by]
    /\ UNCHANGED <<life, log, receipt, pending, attempt, entry, scope, resume, turns, ends>>

\* runCancelTeardown: revokes the scope and waits for the run that taskRuns
\* names.  The operator's request starts it and tells, the system's (stop or
\* removal of the computer) tells first.
StopRevokes ==
    /\ stop.by # "nobody" /\ stop.tear = "no" /\ (stop.by = "system" => stop.told)
    /\ scope' = "none"
    /\ stop' = [stop EXCEPT !.tear = "awaits",
                            !.awaits = IF task.adapter = "native" THEN entry ELSE "none"]
    /\ UNCHANGED <<life, task, log, receipt, pending, attempt, entry, aborted,
                   waiting, resume, turns, ends>>
TearsDown ==
    /\ stop.tear = "awaits" /\ stop.awaits = "none"
    /\ stop' = [stop EXCEPT !.tear = "done"]
    /\ UNCHANGED task /\ FreezeTaskSummary(log)
    /\ UNCHANGED <<life, log, pending, attempt, entry, aborted, scope, waiting,
                   resume, turns, ends>>
StopTells ==
    /\ stop.by # "nobody" /\ ~stop.told
    /\ stop' = [stop EXCEPT !.told = TRUE]
    /\ log' = Tell("cancelled")
    /\ UNCHANGED <<life, task, receipt, pending, attempt, entry, aborted, scope,
                   waiting, resume, turns, ends>>

\* A person takes control, answers, or lets an approval lapse.
Decides ==
    /\ \/ task.status = "running" /\ waiting = "no" /\ waiting' = "human"
       \/ waiting # "no" /\ waiting' = "no"
    /\ UNCHANGED <<life, task, log, receipt, pending, attempt, entry, aborted,
                   scope, resume, stop, turns, ends>>

-----------------------------------------------------------------------------
(* runAgentLoop *)

\* finish(): a stop that is known by now wins; then the event is awaited.
Finishing(r, s, step) ==
    attempt' = [attempt EXCEPT ![r] =
        [@ EXCEPT !.at = "finish", !.step = step, !.late = Cancelled,
                  !.want = IF Cancelled THEN "cancelled" ELSE s]]

\* The event is durable before the status is; a paused task asks a person.
JobSettles(r) ==
    /\ At(r, "finish")
    /\ LET want == attempt[r].want IN
       /\ log' = Tell(want)
       /\ task' = IF want = "paused" THEN PauseTask(task) ELSE FinishTask(task, want)
       /\ IF want # "paused" /\ ~attempt[r].late THEN FreezeTaskSummary(log')
          ELSE UNCHANGED receipt
       /\ Go(r, IF want = "paused" THEN "asking" ELSE "over")
    /\ UNCHANGED <<life, pending, entry, aborted, scope, waiting, resume, stop, turns, ends>>
JobAsks(r) ==
    /\ At(r, "asking") /\ Go(r, "over")
    /\ UNCHANGED <<life, task, log, receipt, pending, entry, aborted, scope,
                   waiting, resume, stop, turns, ends>>

Unchanged(r) == UNCHANGED <<life, task, log, receipt, entry, aborted, scope,
                            resume, stop, ends>>

\* closeForeignTakeover is over: the loop begins, or the scope of a native run.
RunStoredTask(r) ==
    /\ At(r, "start")
    /\ IF task.adapter = "loop" THEN Go(r, "top") /\ UNCHANGED scope
       ELSE Go(r, "wait") /\ scope' = r
    /\ UNCHANGED <<life, task, log, receipt, pending, entry, aborted, waiting,
                   resume, stop, turns, ends>>

\* The checks at the head of the loop, up to its first await.
LoopTop(r) ==
    /\ At(r, "top")
    /\ LET step == attempt[r].step IN
       \/ /\ Cancelled /\ Finishing(r, "cancelled", step) /\ UNCHANGED pending
       \/ /\ ~Cancelled /\ step >= StepLimit
          /\ Finishing(r, "paused", step) /\ UNCHANGED pending
       \/ /\ ~Cancelled /\ step < StepLimit /\ pending' = 0
          /\ Go(r, IF pending > 0 /\ waiting # "no" THEN "reply" ELSE "think")
    /\ UNCHANGED <<waiting, turns>> /\ Unchanged(r)

\* The model answers the operator while a person decides: no tools.
LoopReplies(r) ==
    /\ At(r, "reply")
    /\ IF Cancelled THEN Finishing(r, "cancelled", attempt[r].step)
       ELSE attempt' = [attempt EXCEPT ![r].at = "top", ![r].step = @ + 1]
    /\ UNCHANGED <<pending, waiting, turns>> /\ Unchanged(r)

\* observe and complete, each raced with the stall timer.
LoopStalls(r) ==
    /\ At(r, "think") \/ At(r, "act")
    /\ Finishing(r, "paused", attempt[r].step)
    /\ UNCHANGED <<pending, waiting, turns>> /\ Unchanged(r)
LoopThrows(r) ==
    /\ At(r, "think") \/ At(r, "act") \/ At(r, "reply")
    /\ Finishing(r, "failed", attempt[r].step)
    /\ UNCHANGED <<pending, waiting, turns>> /\ Unchanged(r)
LoopMeetsHuman(r) ==
    /\ At(r, "think") /\ waiting # "no"
    /\ Go(r, "held")
    /\ UNCHANGED <<pending, waiting, turns>> /\ Unchanged(r)

\* The dispatcher refuses a call while an operator message is unread.
Dispatches(r) == IF pending > 0 THEN "think" ELSE "act"
\* The answer, its usage record, and the first tool call or the lack of one.
LoopThinks(r) ==
    /\ At(r, "think") /\ waiting = "no"
    /\ LET step == attempt[r].step IN
       \/ /\ Cancelled /\ Finishing(r, "cancelled", step) /\ UNCHANGED <<task, turns>>
       \/ /\ ~Cancelled
          /\ task' = [task EXCEPT !.used = step + 1] /\ turns' = turns + 1
          /\ \/ Finishing(r, "paused", step + 1)         \* capped, loop, no call
             \/ pending = 0 /\ Go(r, "act")
             \/ pending > 0 /\ attempt' = [attempt EXCEPT ![r].at = "top", ![r].step = step + 1]
    /\ UNCHANGED <<life, log, receipt, entry, aborted, scope, resume, stop, ends,
                   pending, waiting>>

\* The call answers: another call of the same answer, the next step, or done.
LoopActs(r) ==
    /\ At(r, "act")
    /\ LET next == [attempt EXCEPT ![r].at = "top", ![r].step = @ + 1] IN
       \/ attempt' = next
       \/ Cancelled /\ Finishing(r, "cancelled", attempt[r].step)
       \/ ~Cancelled /\ pending = 0 /\ Go(r, "act")
       \/ \E s \in Terminal : Finishing(r, s, attempt[r].step + 1)
    /\ UNCHANGED <<pending, waiting, turns>> /\ Unchanged(r)
LoopNeedsPerson(r) ==
    /\ At(r, "act") /\ waiting = "no" /\ task.status = "running"
    /\ waiting' \in {"approval", "asked"} /\ Go(r, "held")
    /\ UNCHANGED <<pending, turns>> /\ Unchanged(r)

\* waitForResume: polls the signal, the row, the messages, then the wait itself.
LoopHeld(r) ==
    /\ At(r, "held")
    /\ IF r \in aborted \/ Cancelled THEN Finishing(r, "paused", attempt[r].step)
       ELSE \/ /\ pending > 0 \/ waiting = "no"
               /\ attempt' = [attempt EXCEPT ![r].at = "top", ![r].step = @ + 1]
            \/ /\ waiting = "no" /\ pending = 0 /\ Go(r, "act")     \* approved
            \/ /\ waiting = "no" /\ Finishing(r, "paused", attempt[r].step)
    /\ UNCHANGED <<pending, waiting, turns>> /\ Unchanged(r)

-----------------------------------------------------------------------------
(* runCodexTask: the turns of a native CLI, and the MCP calls they make *)

\* The head of the do-while, and the wait for a person before a turn.
NativeBegins(r) ==
    /\ At(r, "wait")
    /\ \/ r \in aborted /\ Go(r, "thrown")
       \/ r \notin aborted /\ waiting # "no" /\ task.status \in Terminal /\ Go(r, "over")
       \/ r \notin aborted /\ waiting = "no" /\ Go(r, "turn")
    /\ UNCHANGED <<pending, waiting, turns>> /\ Unchanged(r)

\* callTool refuses a scope that is inactive and a row that has ended.
MayCall(r) ==
    At(r, "turn") /\ attempt[r].call = "none" /\ scope = r /\ task.status = "running"
NativeReads(r) ==
    /\ MayCall(r) /\ pending > 0 /\ pending' = 0
    /\ UNCHANGED <<attempt, waiting, turns>> /\ Unchanged(r)
NativeNeedsPerson(r) ==
    /\ MayCall(r) /\ pending = 0 /\ waiting = "no"
    /\ waiting' \in {"approval", "asked"}
    /\ attempt' = [attempt EXCEPT ![r].want = "person"]
    /\ UNCHANGED <<pending, turns>> /\ Unchanged(r)
\* A call meets a hold somebody else began: the turn is told to wait.
NativeMeetsPerson(r) ==
    /\ MayCall(r) /\ waiting # "no" /\ attempt[r].want # "person"
    /\ attempt' = [attempt EXCEPT ![r].want = "person"]
    /\ UNCHANGED <<pending, waiting, turns>> /\ Unchanged(r)
\* done: the row first, then the event, then the receipt.
NativeDone(r) ==
    /\ MayCall(r) /\ pending = 0 /\ waiting = "no"
    /\ \E s \in Terminal :
         /\ task' = FinishTask(task, s)
         /\ attempt' = [attempt EXCEPT ![r].call = s]
    /\ UNCHANGED <<life, log, receipt, pending, entry, aborted, scope, waiting,
                   resume, stop, turns, ends>>
NativeDoneTold(r) ==
    /\ attempt[r].call \in Terminal
    /\ log' = Tell(attempt[r].call)
    /\ UNCHANGED task /\ FreezeTaskSummary(log')
    /\ attempt' = [attempt EXCEPT ![r].call = "none"]
    /\ scope' = IF scope = r THEN "none" ELSE scope
    /\ UNCHANGED <<life, pending, entry, aborted, waiting, resume, stop, turns, ends>>

\* The process exits: killed, failed, or at the end of a turn.
NativeTurnEnds(r) ==
    /\ At(r, "turn")
    /\ IF r \in aborted THEN Go(r, "thrown")
       ELSE \/ Go(r, "thrown")
            \/ attempt[r].call = "none" /\ Go(r, IF task.status \in Terminal THEN "over" ELSE "await")
    /\ UNCHANGED <<pending, waiting, turns>> /\ Unchanged(r)
\* The turn's last tool call failed: onTurnEnded pauses, unless a person is awaited.
NativeGivesUp(r) ==
    /\ At(r, "turn") /\ r \notin aborted /\ attempt[r].call = "none"
    /\ task.status \notin Terminal /\ pending = 0 /\ waiting = "no"
    /\ task' = PauseTask(task) /\ Go(r, "over")
    /\ UNCHANGED <<life, log, receipt, pending, entry, aborted, scope, waiting,
                   resume, stop, turns, ends>>
\* Between turns: the signal, a message, or the end of the hold the turn met.
\* A stop whose signal went to another run is not looked for.
NativeAwaits(r) ==
    /\ At(r, "await")
    /\ IF r \in aborted THEN Go(r, "thrown") /\ UNCHANGED pending
       ELSE IF waiting # "no"                  \* in a container the hold comes first
       THEN /\ attempt[r].want # "person" /\ UNCHANGED pending
            /\ attempt' = [attempt EXCEPT ![r].want = "person"]
       ELSE /\ pending > 0 \/ attempt[r].want = "person"
            /\ attempt' = [attempt EXCEPT ![r].want = "none",
                             ![r].at = IF task.status \in Terminal THEN "over" ELSE "wait"]
            /\ pending' = 0
    /\ UNCHANGED <<waiting, turns>> /\ Unchanged(r)

\* revokeRunner drops the scope of the task, whichever run registered it.
Revokes(r) ==
    /\ task.adapter = "native"
    /\ \/ At(r, "over") /\ Go(r, "ending")
       \/ At(r, "thrown") /\ Go(r, "judge")
    /\ scope' = "none"
    /\ UNCHANGED <<life, task, log, receipt, pending, entry, aborted, waiting,
                   resume, stop, turns, ends>>

\* A spent plan, budget or time pauses, anything else fails; an abort is neither.
Judges(r) ==
    /\ At(r, "judge")
    /\ IF r \in aborted \/ task.status \in Terminal
       THEN Go(r, "ending") /\ UNCHANGED task
       ELSE \E s \in {"paused", "failed"} :
              /\ task' = [task EXCEPT !.status = s]
              /\ attempt' = [attempt EXCEPT ![r].at = "tell", ![r].want = s]
    /\ UNCHANGED <<life, log, receipt, pending, entry, aborted, scope, waiting,
                   resume, stop, turns, ends>>
JobTells(r) ==
    /\ At(r, "tell") /\ Go(r, "ending")
    /\ log' = Tell(attempt[r].want)
    /\ UNCHANGED task
    /\ IF attempt[r].want = "failed" THEN FreezeTaskSummary(log') ELSE UNCHANGED receipt
    /\ UNCHANGED <<life, pending, entry, aborted, scope, waiting, resume, stop, turns, ends>>
\* The last finally: the maps forget the task's run, whichever it is.
JobEnds(r) ==
    /\ At(r, "ending") \/ (At(r, "over") /\ task.adapter = "loop")
    /\ attempt' = [attempt EXCEPT ![r] = [Off EXCEPT !.call = attempt[r].call]]
    /\ entry' = "none" /\ aborted' = aborted \ {r}
    /\ stop' = [stop EXCEPT !.awaits = IF @ = r THEN "none" ELSE @]
    /\ UNCHANGED <<life, task, log, receipt, pending, scope, waiting, resume, turns, ends>>

-----------------------------------------------------------------------------
(* The daemon ends and begins *)

\* close(): the tasks that taskControllers names are stopped, native ones paused.
JobCloses ==
    /\ life = "up" /\ ends < MaxEnds /\ life' = "closing"
    /\ IF entry = "none" THEN UNCHANGED <<task, aborted>>
       ELSE /\ aborted' = aborted \cup {entry}
            /\ IF task.adapter = "loop"
               THEN task' = FinishTask(task, "cancelled")
               ELSE task' = [task EXCEPT !.status = IF @ = "running" THEN "paused" ELSE @]
    /\ UNCHANGED <<log, receipt, pending, attempt, entry, scope, waiting, resume, stop, turns, ends>>
\* The process is gone: at the end of close(), or at any point.
JobDies ==
    /\ life # "down" /\ ends < MaxEnds
    /\ life' = "down" /\ ends' = ends + 1
    /\ attempt' = [r \in Attempt |-> Off]
    /\ entry' = "none" /\ aborted' = {} /\ scope' = "none"
    /\ resume' = [q \in Request |-> "none"]
    /\ stop' = [by |-> "nobody", told |-> FALSE, tear |-> "no", awaits |-> "none"]
    /\ UNCHANGED <<task, log, receipt, pending, waiting, turns>>
\* Boot: a native task that was running is paused; a task of the loop stays as it is.
Boots ==
    /\ life = "down" /\ life' = "up"
    /\ IF task.adapter = "native" /\ task.status = "running"
       THEN task' = PauseTask(task) ELSE UNCHANGED task
    /\ UNCHANGED <<log, receipt, pending, attempt, entry, aborted, scope, waiting,
                   resume, stop, turns, ends>>

-----------------------------------------------------------------------------
RunStep(r) ==
    \/ RunStoredTask(r) \/ LoopTop(r) \/ LoopReplies(r) \/ LoopMeetsHuman(r)
    \/ LoopThinks(r) \/ LoopActs(r) \/ LoopNeedsPerson(r) \/ LoopHeld(r)
    \/ JobSettles(r) \/ JobAsks(r) \/ NativeBegins(r) \/ NativeTurnEnds(r)
    \/ NativeGivesUp(r) \/ NativeAwaits(r) \/ Revokes(r) \/ Judges(r)
    \/ JobTells(r) \/ JobEnds(r) \/ NativeDoneTold(r)
Chance(r) ==
    \/ LoopStalls(r) \/ LoopThrows(r) \/ NativeReads(r) \/ NativeNeedsPerson(r)
    \/ NativeMeetsPerson(r) \/ NativeDone(r)
Alive == life \in {"up", "closing"}
TasksNext ==
    \/ \E k \in Adapter : CreateTask(k)
    \/ PostMessage \/ Decides \/ JobCloses \/ JobDies \/ Boots
    \/ \E q \in Request : ResumeBegins(q)
    \/ \E by \in {"operator", "system"} : StopBegins(by)
    \/ Alive /\ \E q \in Request : ResumeMarks(q) \/ ResumeStarts(q)
    \/ Alive /\ (StopRevokes \/ TearsDown \/ StopTells)
    \/ Alive /\ \E r \in Attempt : RunStep(r) \/ Chance(r)

TasksSpec == TaskInit /\ [][TasksNext]_taskVars

-----------------------------------------------------------------------------
(* Properties *)

Places == Working \cup {"none", "finish", "asking", "thrown", "judge", "tell",
                        "over", "ending"}
\* Every variable has its type.
TasksTypeOK ==
    /\ life \in {"up", "closing", "down"}
    /\ task \in [status : {"none", "running", "paused"} \cup Terminal,
                 adapter : {"loop", "native"}, used : 0..StepLimit]
    /\ log \subseteq Terminal /\ (receipt = Unfrozen \/ receipt \subseteq Terminal)
    /\ pending \in 0..MaxMessages /\ ends \in 0..MaxEnds
    /\ attempt \in [Attempt -> [at : Places, step : 0..StepLimit, late : BOOLEAN,
            want : {"none", "person", "paused"} \cup Terminal, call : {"none"} \cup Terminal]]
    /\ entry \in Attempt \cup {"none"} /\ scope \in Attempt \cup {"none"}
    /\ aborted \subseteq Attempt
    /\ waiting \in {"no", "approval", "asked", "human"}

\* However resumes, stops and endings of earlier runs meet, at most one run
\* works on the task (resumeTask's guard, store.ts).
OneActs == Cardinality({r \in Attempt : attempt[r].at \in Working}) <= 1

\* No tool call of the loop is dispatched unless the row says running: a stop
\* that came during the model's answer is seen first (agent-loop.ts).
NothingAfterStop ==
    [][\A r \in Attempt : attempt'[r].at = "act" /\ attempt[r].at # "act"
                          => task.status = "running"]_taskVars

\* The step limit is the task's, not the run's: the model turns of the loop,
\* of all resumes together, stay within it (agent-loop.ts, resume in server.ts).
TurnsWithinLimit == task.adapter = "loop" => turns <= StepLimit

\* A row that has ended keeps the outcome it ended with, whatever a run, a
\* stop, a close or a late tool call writes afterwards (finishTask).
OutcomeStands == [][task.status \in Terminal => task'.status = task.status]_taskVars

\* Once all is quiet, the outcome in the row is in the audit log, unless the
\* daemon ended in between.
EventOfOutcome ==
    (/\ life = "up" /\ ends = 0 /\ (stop.by = "nobody" \/ stop.told)
     /\ \A r \in Attempt : JobFree(r))
    => (task.status \in Terminal => task.status \in log)

\* A receipt of a task that was not stopped was computed from a log that holds
\* its outcome (agent-loop.ts: "computed from the complete log").
ReceiptSeesOutcome ==
    task.status \in {"completed", "failed"} /\ receipt # Unfrozen => task.status \in receipt

\* A row that says running has somebody to work on it: a run, or a resume that
\* is about to start one. A task of the loop keeps the word after a crash.
RunningHasRun ==
    (life = "up" /\ task.status = "running" /\ (task.adapter = "native" \/ ends = 0))
    => \/ \E r \in Attempt : attempt[r].at \notin {"none", "ending", "over", "asking"}
       \/ \E q \in Request : resume[q] = "telling"

\* Every stop of a task of the loop ends its runs, also a run in a wait for a
\* person, and one that a resume starts after the stop.
LoopIsStopped == Cancelled /\ task.adapter = "loop"
NothingWorks == \A r \in Attempt : attempt[r].at \notin Working

\* While the loop runs, a message the operator posts is read or the task stops
\* running, also when the model waits for a person (takeMessages).
MessageWaits == pending > 0 /\ task.adapter = "loop"
NoMessageWaits == pending = 0 \/ task.status # "running" \/ ends > 0

\* One run, one outcome, one account of it: what the runs of a task, its stops and its receipt
\* keep of each other at every moment.
RunsSafe == TasksTypeOK /\ OneActs /\ TurnsWithinLimit /\ EventOfOutcome /\ ReceiptSeesOutcome /\ RunningHasRun

-----------------------------------------------------------------------------
\* What is written of the code and is not so; no run lists these.

\* store.ts:931, freezeTaskSummary: "only once the task's own terminal event is durably in the
\* audit log". A stop's teardown may freeze the receipt before the request has written the event.
FrozenIsComplete == receipt # Unfrozen => task.status \in receipt

\* README.md:78, "Stop ends the task." A stop between a resume's mark and its start finds nothing
\* to abort: a native turn begins afterwards.
NoTurnAfterStop ==
    [][\A r \in Attempt : attempt'[r].at = "turn" /\ attempt[r].at # "turn" => ~Cancelled]_taskVars
=============================================================================
