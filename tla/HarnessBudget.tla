--------------------------- MODULE HarnessBudget ---------------------------
(***************************************************************************)
(* The budget of an external harness's task (daemon/store.ts,              *)
(* daemon/dispatcher.ts, the MCP callTool of daemon/server.ts): a binding  *)
(* ties one computer to one task; each tool call is counted against it,    *)
(* reported, refused at the cap, dispatched. A caller may give up while    *)
(* its call still acts, calls overlap at every await, and the refusal is   *)
(* to be written to the audit log once. The two caps (steps and estimated  *)
(* cost) are counted in calls alike: one cap, in calls, stands for both.   *)
(***************************************************************************)
EXTENDS Naturals, FiniteSets

CONSTANTS
    Jobs,          \* harness tasks
    Callers,       \* tool calls that overlap
    Caps,          \* budgets, in calls; 0 is no cap
    CountBound, FailBound, QuitBound  \* bounds: calls counted, failed writes, daemon restarts

ASSUME BudgetAssumption ==
    /\ IsFiniteSet(Callers) /\ "nobody" \notin Jobs
    /\ Caps \subseteq Nat /\ {CountBound, FailBound, QuitBound} \subseteq Nat

VARIABLES
    bound,      \* the task the computer is bound to
    status,     \* of each task
    cap, used,  \* its budget and the calls counted against it
    budgetDenied, reserved,  \* the sticky refusal; whether its audit is known to be written
    claimed,    \* harnessDenialAuditsInFlight (in memory)
    flights,    \* harnessCallsInFlight (in memory)
    calls,      \* of each overlapping call: where it is, the task charged, the task it acts for
    acted, audits,  \* of each task: calls dispatched, refusals in the audit log
    leaked,     \* a refused call's usage event was lost since the daemon started
    fails, quits    \* bounded counters

harnessVars == <<bound, status, cap, used, budgetDenied, reserved, claimed, flights, calls, acted, audits, leaked, fails, quits>>

Nobody == "nobody"
Rest == [at |-> "rest"]
AtCap(n, k) == k > 0 /\ n >= k   \* harnessCapReason
Counted == {j \in Jobs : used[j] >= CountBound}

BudgetInit ==
    /\ bound = Nobody /\ status = [j \in Jobs |-> "none"]
    /\ cap = [j \in Jobs |-> 0] /\ used = [j \in Jobs |-> 0]
    /\ budgetDenied = [j \in Jobs |-> FALSE] /\ reserved = [j \in Jobs |-> FALSE]
    /\ claimed = FALSE /\ flights = 0 /\ calls = [c \in Callers |-> Rest]
    /\ acted = [j \in Jobs |-> 0] /\ audits = [j \in Jobs |-> 0] /\ leaked = FALSE /\ fails = 0 /\ quits = 0
-----------------------------------------------------------------------------
\* setTaskSpendCap, setTaskMaxSteps
SetCap(j, k) == cap' = [cap EXCEPT ![j] = k]
\* insertHarnessTaskBinding: the binding before is filed with its task, this one is new.
InsertBinding(j, k) == bound' = j /\ status' = [status EXCEPT ![j] = "running"] /\ SetCap(j, k)
\* repriceHarnessBinding: a raised budget un-refuses what the old one refused.
Reprice(j, k) ==
    budgetDenied' = [budgetDenied EXCEPT ![j] = AtCap(used[j], k)] /\ reserved' = [reserved EXCEPT ![j] = FALSE]
\* getHarnessTaskBinding: the binding a call on the computer is charged to
Charged == bound # Nobody /\ status[bound] = "running"
\* POST /harness-bindings: the task before is over, no call is in flight, the name is new.
Bind(j, k) ==
    /\ bound # Nobody => status[bound] = "ended"
    /\ flights = 0 /\ status[j] = "none"
    /\ InsertBinding(j, k)
    /\ UNCHANGED <<used, budgetDenied, reserved, claimed, flights, calls, acted, audits, leaked, fails, quits>>

Pauses(j) ==
    /\ status[j] = "running" /\ status' = [status EXCEPT ![j] = "paused"]
    /\ UNCHANGED <<bound, cap, used, budgetDenied, reserved, claimed, flights, calls, acted, audits, leaked, fails, quits>>

\* finishTask: by the operator's cancel, the runner, or a call of the tool "done"
EndsJob(j) ==
    /\ status[j] \in {"running", "paused"} /\ status' = [status EXCEPT ![j] = "ended"]
    /\ UNCHANGED <<bound, cap, used, budgetDenied, reserved, claimed, flights, calls, acted, audits, leaked, fails, quits>>

\* resume with a budget that leaves something to spend; the refusal is worked out again
ResumesWith(j, k) ==
    /\ status[j] = "paused" /\ ~AtCap(used[j], k)
    /\ status' = [status EXCEPT ![j] = "running"] /\ SetCap(j, k) /\ Reprice(j, k)
    /\ UNCHANGED <<bound, used, claimed, flights, calls, acted, audits, leaked, fails, quits>>

\* callTool up to its first await. observeHarnessToolCall: a call already refused claims the
\* audit when nobody has and it is not written; one that reaches the cap claims it always.
CallCounted(c) ==
    /\ calls[c] = Rest /\ Charged /\ ~budgetDenied[bound] /\ bound \notin Counted
    /\ LET n == used[bound] + 1 over == AtCap(n, cap[bound])
       IN  /\ used' = [used EXCEPT ![bound] = n] /\ budgetDenied' = [budgetDenied EXCEPT ![bound] = over]
           /\ reserved' = [reserved EXCEPT ![bound] = FALSE] /\ claimed' = (claimed \/ over)
           /\ calls' = [calls EXCEPT ![c] = [at |-> "report", pays |-> bound, over |-> over, of |-> cap[bound]]]
    /\ flights' = flights + 1
    /\ UNCHANGED <<bound, status, cap, acted, audits, leaked, fails, quits>>
\* A bug: a refused call does not ask whether another has the claim.
RefusedUnclaimed(c) ==
    /\ calls[c] = Rest /\ Charged /\ budgetDenied[bound] /\ ~reserved[bound]
    /\ claimed' = TRUE /\ flights' = flights + 1
    /\ calls' = [calls EXCEPT ![c] = [at |-> "audit", pays |-> bound, over |-> TRUE, of |-> cap[bound]]]
    /\ UNCHANGED <<bound, status, cap, used, budgetDenied, reserved, acted, audits, leaked, fails, quits>>
CallRefused(c) ==
    /\ calls[c] = Rest /\ Charged /\ budgetDenied[bound]
    /\ IF reserved[bound] \/ claimed
       THEN UNCHANGED <<claimed, calls, flights>>
       ELSE /\ claimed' = TRUE /\ flights' = flights + 1
            /\ calls' = [calls EXCEPT ![c] = [at |-> "audit", pays |-> bound, over |-> TRUE, of |-> cap[bound]]]
    /\ UNCHANGED <<bound, status, cap, used, budgetDenied, reserved, acted, audits, leaked, fails, quits>>
CallUnbound(c) ==
    /\ calls[c] = Rest /\ bound = Nobody /\ flights' = flights + 1
    /\ calls' = [calls EXCEPT ![c] = [at |-> "acts", pays |-> Nobody, for |-> Nobody, told |-> FALSE]]
    /\ UNCHANGED <<bound, status, cap, used, budgetDenied, reserved, claimed, acted, audits, leaked, fails, quits>>

\* toolDispatcher.dispatch, under raceHarnessMcpToolCall
BudgetDispatches(c) ==
    /\ calls' = [calls EXCEPT ![c] = [at |-> "acts", pays |-> calls[c].pays, for |-> bound, told |-> FALSE]]
    /\ acted' = [acted EXCEPT ![bound] = @ + 1]
\* The usage event is written: refused on to the audit, or dispatched for the task bound now
Reported(c) ==
    /\ calls[c].at = "report"
    /\ IF calls[c].over
       THEN calls' = [calls EXCEPT ![c].at = "audit"] /\ UNCHANGED acted
       ELSE BudgetDispatches(c)
    /\ UNCHANGED <<bound, status, cap, used, budgetDenied, reserved, claimed, flights, audits, leaked, fails, quits>>
Lands(c) == calls' = [calls EXCEPT ![c] = Rest] /\ flights' = flights - 1
\* The usage event cannot be written: the call throws, before anything about the audit
ReportLost(c) ==
    /\ fails < FailBound /\ calls[c].at = "report"
    /\ Lands(c) /\ fails' = fails + 1 /\ leaked' = (leaked \/ calls[c].over)
    /\ UNCHANGED <<bound, status, cap, used, budgetDenied, reserved, claimed, acted, audits, quits>>

\* finishHarnessDenialAudit: kept only after the append, and the claim released either way
Finishes(appended) ==
    /\ reserved' = IF appended /\ bound # Nobody /\ budgetDenied[bound] THEN [reserved EXCEPT ![bound] = TRUE] ELSE reserved
    /\ claimed' = FALSE
Appends(c) ==
    /\ calls[c].at = "audit" /\ audits' = [audits EXCEPT ![calls[c].pays] = @ + 1]
    /\ calls' = [calls EXCEPT ![c].at = "written"]
    /\ UNCHANGED <<bound, status, cap, used, budgetDenied, reserved, claimed, flights, acted, leaked, fails, quits>>
Audited(c) ==
    /\ calls[c].at = "written" /\ Finishes(TRUE) /\ Lands(c)
    /\ UNCHANGED <<bound, status, cap, used, budgetDenied, acted, audits, leaked, fails, quits>>
AuditLost(c) ==
    /\ calls[c].at = "audit" /\ fails < FailBound /\ fails' = fails + 1 /\ Finishes(FALSE) /\ Lands(c)
    /\ UNCHANGED <<bound, status, cap, used, budgetDenied, acted, audits, leaked, quits>>

\* raceHarnessMcpToolCall: the caller gives up and is told; the dispatch goes on
GivesUp(c) ==
    /\ calls[c].at = "acts" /\ ~calls[c].told /\ calls' = [calls EXCEPT ![c].told = TRUE]
    /\ UNCHANGED <<bound, status, cap, used, budgetDenied, reserved, claimed, flights, acted, audits, leaked, fails, quits>>
BudgetSettles(c) ==
    /\ calls[c].at = "acts" /\ Lands(c)
    /\ UNCHANGED <<bound, status, cap, used, budgetDenied, reserved, claimed, acted, audits, leaked, fails, quits>>

DaemonQuits ==
    /\ quits < QuitBound /\ quits' = quits + 1
    /\ claimed' = FALSE /\ leaked' = FALSE /\ flights' = 0 /\ calls' = [c \in Callers |-> Rest]
    /\ UNCHANGED <<bound, status, cap, used, budgetDenied, reserved, acted, audits, fails>>

BudgetNext ==
    \/ \E j \in Jobs : Pauses(j) \/ EndsJob(j) \/ \E k \in Caps : Bind(j, k) \/ ResumesWith(j, k)
    \/ \E c \in Callers : \/ CallCounted(c) \/ CallRefused(c) \/ CallUnbound(c) \/ Reported(c) \/ ReportLost(c)
                          \/ Appends(c) \/ Audited(c) \/ AuditLost(c) \/ GivesUp(c) \/ BudgetSettles(c)
    \/ DaemonQuits
BudgetSpec == BudgetInit /\ [][BudgetNext]_harnessVars
-----------------------------------------------------------------------------
\* Types: every variable holds a value of its type (store.ts, HarnessTaskBindingRow).
BudgetTypeOK ==
    /\ bound \in Jobs \cup {Nobody} /\ status \in [Jobs -> {"none", "running", "paused", "ended"}]
    /\ cap \in [Jobs -> Caps \cup {0}] /\ {used, acted, audits} \subseteq [Jobs -> Nat]
    /\ {budgetDenied, reserved} \subseteq [Jobs -> BOOLEAN] /\ claimed \in BOOLEAN /\ flights \in Nat
    /\ DOMAIN calls = Callers /\ \A c \in Callers : calls[c].at \in {"rest", "report", "audit", "written", "acts"}
    /\ leaked \in BOOLEAN /\ {fails, quits} \subseteq Nat

\* Never more calls acted for a task than its budget allows, the one that reached the cap
\* among the refused, however calls overlap and however often the budget was raised
\* (observeHarnessToolCall counts before the first await; resume asks what is left).
BudgetHolds == \A j \in Jobs : cap[j] > 0 => acted[j] < cap[j]

\* A call acts for the task that paid for it, and that task still has the computer while it
\* acts, a caller that gave up notwithstanding (the occupancy of callTool, the 409 of a rebind).
ActsForWhoPaid ==
    \A c \in Callers : calls[c].at = "acts" => calls[c].for = calls[c].pays /\ bound = calls[c].pays

\* The claim to audit a refusal is held by a call under way, so whatever fails a later
\* refusal can try again (finishHarnessDenialAudit: "failure releases the retry claim").
RetryClaimIsReleased == claimed => \E c \in Callers : calls[c].at \in {"report", "audit", "written"} /\ calls[c].over
\* So it is unless the usage event of the call that reached the cap could not be written.
ClaimHasHolder == RetryClaimIsReleased \/ leaked

\* A refusal marked as audited is in the audit log (finishHarnessDenialAudit: "persist
\* consumption only after append success").
ReservedIsAudited == \A j \in Jobs : reserved[j] => audits[j] > 0

\* One refusal has one writer: calls refused at the same time under the same budget do not
\* both write it (harnessDenialAuditsInFlight; the overlap of daemon/harness-spend-cap.test.ts).
\* Only while no append has failed: one that fails under an older budget releases the claim.
OneWriter ==
    LET writers == {c \in Callers : calls[c].at \in {"audit", "written"}}
    IN  fails = 0 => \A c, d \in writers : calls[c].of = calls[d].of /\ calls[c].pays = calls[d].pays => c = d

\* The budget holds for the task that pays, and its refusals are written once or tried again.
BudgetSafe ==
    BudgetTypeOK /\ BudgetHolds /\ ActsForWhoPaid /\ ClaimHasHolder /\ ReservedIsAudited /\ OneWriter
=============================================================================
