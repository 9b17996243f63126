----------------------------- MODULE Approvals -----------------------------
(***************************************************************************)
(* Consent for the tool calls of one task (src/daemon/dispatcher.ts,       *)
(* store.ts, policy/approvals.ts, and the approval routes of server.ts).   *)
(* A call that a gate stops leaves a card for a person and ends; the       *)
(* harness repeats it, and the repeat finds the answer by the hash of the  *)
(* action.  Calls run concurrently: the harness may abort one and start    *)
(* another while the dispatcher still works on the first.                  *)
(*                                                                         *)
(* From the policy decision to the call that goes out, dispatch runs       *)
(* without an await: that section is one step (Decide).                    *)
(*                                                                         *)
(* Consent is bound to the control epoch: a number that the newest         *)
(* takeover row has from the browser's process, which counts it up.  Of a  *)
(* takeover only that is here: how its row is opened, heard, taken and     *)
(* closed (module Takeover has the rest).                                  *)
(***************************************************************************)
EXTENDS Naturals, FiniteSets

CONSTANTS
  Action,     \* gated tool calls, by action hash
  NewDomain,  \* those that the new_domain gate stops; the others always ask
  OriginOf,   \* the site an action is about
  Caller,     \* calls the dispatcher may be working on at once
  MaxGrants,  \* MAX_TASK_ORIGIN_GRANTS
  MaxAsk,     \* bound: cards that are ever raised
  MaxRow,     \* bound: takeovers that are ever asked for
  MaxLife,    \* bound: times the count of control starts again
  Enabled     \* the accidents that happen: a subset of Accidents

Accidents == {"crash", "lostBrowser", "timeout", "refusal"}
Ask == 1 .. MaxAsk
NoAsk == 0
Row == 0 .. MaxRow   \* takeover rows, oldest first; 0 stands for none

ASSUME ApprovalsAssumption ==
  /\ Action # {}
  /\ NewDomain \subseteq Action
  /\ DOMAIN OriginOf = Action
  /\ MaxGrants \in Nat
  /\ MaxAsk \in Nat
  /\ MaxRow \in Nat
  /\ MaxLife \in Nat
  /\ Enabled \subseteq Accidents

VARIABLES
  card,       \* durable: the approvals table, oldest first
  grants,     \* durable: task_origin_grants
  task,       \* durable: "running" or "cancelled"
  takeover,   \* durable: the state of the newest takeover row, "none" once it is closed
  rows,       \* durable: how many takeover rows there are
  rowEpoch,   \* durable: the epoch of each, 0 until the computer's answer says it
  counter,    \* the epoch of the browser's process
  call,       \* the calls in flight
  answer,     \* history: what the person said to each card
  used,       \* history: cards on whose consent a call has acted
  cut,        \* history: those whose call a crash cut off before it spent the card
  counted,    \* history: the count that the epoch of each row is of, 0 for none
  life,       \* history: how many times the count has started
  period,     \* history: how many human holds there have been
  stopped     \* history: a person has cancelled or killed the task

control == <<takeover, rows, rowEpoch, counter, counted, life, period>>
consent == <<answer, used, cut>>
vars == <<card, grants, task, control, call, consent, stopped>>

-----------------------------------------------------------------------------
(* Types.                                                                  *)

Origin == {OriginOf[a] : a \in Action}
Allow == {"allow_once", "allow_task"}
Decision == Allow \cup {"deny", "kill"}
Status == {"none", "pending", "approved", "consumed", "denied", "expired", "killed"}

\* A card is bound to its action and control epoch, and has a deadline.
Card == [action : Action, epoch : Nat, row : Row, period : Nat, status : Status,
         decision : Decision \cup {"null"}, due : BOOLEAN]

\* The epoch and the grants are read when the call starts; row and period are that moment's.
Call == [pc : {"idle", "observing", "executing", "acted"}, action : Action, epoch : Nat,
         row : Row, period : Nat, grants : SUBSET Origin, ask : Ask \cup {NoAsk},
         decided : Decision \cup {"null"}]

\* "asking": a person's request is on its way; "unanswered": the model's was given up;
\* "asked": the computer has counted it; "lost": the process that held it is gone.
TakeoverState == {"none", "asking", "unanswered", "asked", "human", "lost"}

\* Every variable has its type; what is granted is a site.
TypeOK ==
  /\ card \in [Ask -> Card]
  /\ grants \subseteq Origin
  /\ task \in {"running", "cancelled"}
  /\ takeover \in TakeoverState
  /\ rows \in Row
  /\ rowEpoch \in [Row -> Nat]
  /\ counter \in Nat
  /\ call \in [Caller -> Call]
  /\ answer \in [Ask -> Decision \cup {"none"}]
  /\ used \subseteq Ask
  /\ cut \subseteq Ask
  /\ counted \in [Row -> Nat]
  /\ life \in Nat
  /\ period \in Nat
  /\ stopped \in BOOLEAN

AnyAction == CHOOSE a \in Action : TRUE
NoCard == [action |-> AnyAction, epoch |-> 0, row |-> 0, period |-> 0, status |-> "none",
           decision |-> "null", due |-> FALSE]
NoCall == [pc |-> "idle", action |-> AnyAction, epoch |-> 0, row |-> 0, period |-> 0,
           grants |-> {}, ask |-> NoAsk, decided |-> "null"]

Init ==
  /\ card = [k \in Ask |-> NoCard]
  /\ grants = {}
  /\ task = "running"
  /\ takeover = "none"
  /\ rows = 0
  /\ rowEpoch = [r \in Row |-> 0]
  /\ counter = 1
  /\ call = [c \in Caller |-> NoCall]
  /\ answer = [k \in Ask |-> "none"]
  /\ used = {}
  /\ cut = {}
  /\ counted = [r \in Row |-> 0]
  /\ life = 1
  /\ period = 0
  /\ stopped = FALSE

-----------------------------------------------------------------------------
(* The store.                                                              *)

Raised(k) == card[k].status # "none"

\* cancelled(): the task was cancelled, or a card of it killed it.
Cancelled == task = "cancelled" \/ \E k \in Ask : card[k].status = "killed"

\* findApprovalByAction: the newest card of an action.
IsNewest(k, a) ==
  /\ Raised(k)
  /\ card[k].action = a
  /\ \A l \in Ask : l > k /\ Raised(l) => card[l].action # a

\* setApprovalStatusIf, once its expected status is known to hold.
Settle(k, status, decision) ==
  card' = [card EXCEPT ![k].status = status, ![k].decision = decision]

\* grantTaskOrigins: at most MaxGrants of them.
Granted(o) == IF Cardinality(grants) < MaxGrants THEN grants \cup {o} ELSE grants

\* A bug: the action is remembered, not its site.
RemembersAction(a, decided) == IF decided = "allow_task" THEN Granted(a) ELSE grants

\* A bug: an answer about one action is remembered as if about its site.
RemembersAny(a, decided) == IF decided = "allow_task" THEN Granted(OriginOf[a]) ELSE grants

\* Only a new_domain card offers to remember its site for the task.
Remembers(a, decided) ==
  IF decided = "allow_task" /\ a \in NewDomain THEN Granted(OriginOf[a]) ELSE grants

-----------------------------------------------------------------------------
(* A tool call.                                                            *)

Leave(c) == call' = [call EXCEPT ![c] = NoCall]

\* currentControlEpoch: of the newest takeover row.
ControlEpoch == rowEpoch[rows]

\* callTool captures the control epoch, dispatch the grants, unless a takeover is
\* open; then it observes.
Start(c, a) ==
  /\ call[c].pc = "idle"
  /\ ~Cancelled
  /\ takeover = "none"
  /\ call' = [call EXCEPT ![c] =
       [NoCall EXCEPT !.pc = "observing", !.action = a, !.epoch = ControlEpoch,
                      !.row = rows, !.period = period, !.grants = grants]]
  /\ UNCHANGED <<card, grants, task, control, consent, stopped>>

\* evaluateGate: a granted site is writable.
GateAllows(c) == call[c].action \in NewDomain /\ OriginOf[call[c].action] \in call[c].grants

\* A bug: consent is not bound to the control epoch.
AnyEpoch(k, c) ==
  IsNewest(k, call[c].action) /\ card[k].status \notin {"expired", "consumed"}

\* The answer dispatch goes by: the newest card, still standing, of this epoch.
Exact(k, c) ==
  /\ IsNewest(k, call[c].action)
  /\ card[k].status \notin {"expired", "consumed"}
  /\ card[k].epoch = call[c].epoch

\* A bug: the task is not looked at again after the observation.
GoAnyway(c, k) ==
  call' = [call EXCEPT ![c].pc = "executing", ![c].ask = k,
                       ![c].decided = IF k = NoAsk THEN "null" ELSE card[k].decision]

\* The call goes out, unless the task was cancelled meanwhile.
Go(c, k) ==
  IF Cancelled THEN Leave(c)
  ELSE call' = [call EXCEPT ![c].pc = "executing", ![c].ask = k,
                            ![c].decided = IF k = NoAsk THEN "null" ELSE card[k].decision]

\* A card past its deadline is expired, whatever was answered.
FindExpired(c) ==
  /\ \E k \in Ask : Exact(k, c) /\ card[k].due /\ Settle(k, "expired", "null")
  /\ Leave(c)
  /\ UNCHANGED grants

\* E_POLICY_PENDING once more, or the refusal.
FindUnallowed(c) ==
  /\ \E k \in Ask : /\ Exact(k, c)
                    /\ ~card[k].due
                    /\ card[k].status \in {"pending", "denied", "killed"}
  /\ Leave(c)
  /\ UNCHANGED <<card, grants>>

\* A bug: a card counts as allowed as long as it is not refused.
NotRefused(k) == card[k].status \notin {"denied", "killed"}

IsApproved(k) == card[k].status = "approved"

\* pendingOnce: the answer is remembered, and spent once the call is over.
FindApproved(c) ==
  /\ \E k \in Ask : /\ Exact(k, c)
                    /\ ~card[k].due
                    /\ IsApproved(k)
                    /\ grants' = Remembers(call[c].action, card[k].decision)
                    /\ Go(c, k)
  /\ UNCHANGED card

\* A bug: a card that nobody has answered yet is not counted.
FindNoAnswer(c) == \A k \in Ask : Exact(k, c) => card[k].status = "pending"

\* No answer to go by.
FindNone(c) == \A k \in Ask : ~Exact(k, c)

\* requestConsent: the card, and E_POLICY_PENDING to the harness.
RaiseCard(c) ==
  /\ FindNone(c)
  /\ \/ \E k \in Ask :
          /\ ~Raised(k) /\ \A l \in Ask : l < k => Raised(l)
          /\ card' = [card EXCEPT ![k] =
               [NoCard EXCEPT !.action = call[c].action, !.epoch = call[c].epoch,
                              !.row = call[c].row, !.period = call[c].period,
                              !.status = "pending"]]
     \/ (\A k \in Ask : Raised(k)) /\ UNCHANGED card
  /\ Leave(c)
  /\ UNCHANGED grants

Decide(c) ==
  /\ call[c].pc = "observing"
  /\ \/ GateAllows(c) /\ Go(c, NoAsk) /\ UNCHANGED <<card, grants>>
     \/ /\ ~GateAllows(c)
        /\ FindExpired(c) \/ FindUnallowed(c) \/ FindApproved(c) \/ RaiseCard(c)
  /\ UNCHANGED <<task, control, consent, stopped>>

\* The computer has done it, or may have (a timeout, an I/O failure); it refuses
\* while its gate knows of a takeover.
Act(c) ==
  /\ call[c].pc = "executing"
  /\ takeover \notin {"asked", "human"}
  /\ call' = [call EXCEPT ![c].pc = "acted"]
  /\ used' = used \cup ({call[c].ask} \ {NoAsk})
  /\ UNCHANGED <<card, grants, task, control, answer, cut, stopped>>

\* A failure without effect, or a throw, does not spend the consent.
Fail(c) ==
  /\ call[c].pc = "executing"
  /\ Leave(c)
  /\ UNCHANGED <<card, grants, task, control, consent, stopped>>

\* A bug: what is recorded of a spent card is always allow_once.
RecordOnce(c) == "allow_once"

\* A bug: a spent card is not marked.
NotMarked(c) == FALSE

\* The card a call ran on can still be spent.
Spends(c) == call[c].ask # NoAsk /\ card[call[c].ask].status = "approved"

\* What the record says of a spent card.
Recorded(c) == call[c].decided

\* commitOnce: consumeApprovalWithGrant, in one transaction.
Commit(c) ==
  /\ call[c].pc = "acted"
  /\ IF Spends(c)
       THEN /\ Settle(call[c].ask, "consumed", Recorded(c))
            /\ grants' = Remembers(call[c].action, call[c].decided)
       ELSE UNCHANGED <<card, grants>>
  /\ Leave(c)
  /\ UNCHANGED <<task, control, consent, stopped>>

-----------------------------------------------------------------------------
(* The person, and time.                                                   *)

StatusOf == [allow_once |-> "approved", allow_task |-> "approved",
             deny |-> "denied", kill |-> "killed"]

\* The task is over: its own takeover is settled and its gate told, a row without
\* a task stays as it is.
Cancels ==
  /\ task' = "cancelled"
  /\ stopped' = TRUE
  /\ \/ UNCHANGED control
     \/ /\ takeover # "none"
        /\ takeover' = "none"
        /\ counter' \in {counter, counter + 1}
        /\ UNCHANGED <<rows, rowEpoch, counted, life, period>>

\* POST approvals/:id on a pending card; one past its deadline is refused and expired.
Answer(k, d) ==
  /\ card[k].status = "pending"
  /\ IF card[k].due
       THEN Settle(k, "expired", "null") /\ UNCHANGED <<grants, task, control, answer, stopped>>
       ELSE /\ Settle(k, StatusOf[d], d)
            /\ grants' = Remembers(card[k].action, d)
            /\ IF d = "kill" THEN Cancels ELSE UNCHANGED <<task, control, stopped>>
            /\ answer' = [answer EXCEPT ![k] = d]
  /\ UNCHANGED <<call, used, cut>>

\* A person cancels the task.
CancelTask ==
  /\ task = "running"
  /\ Cancels
  /\ UNCHANGED <<card, grants, call, consent>>

\* 120 seconds are over; for a card that is settled for good it does not matter.
Pass(k) ==
  /\ card[k].status \in {"pending", "approved", "denied", "killed"}
  /\ ~card[k].due
  /\ card' = [card EXCEPT ![k].due = TRUE]
  /\ UNCHANGED <<grants, task, control, call, consent, stopped>>

\* expirePendingApprovals, every second.
Sweep(k) ==
  /\ card[k].status = "pending"
  /\ card[k].due
  /\ Settle(k, "expired", "null")
  /\ UNCHANGED <<grants, task, control, call, consent, stopped>>

-----------------------------------------------------------------------------
(* Control of the computer, as the newest takeover row tells it.           *)

Rest == UNCHANGED <<card, grants, task, call, consent, stopped>>

\* A bug: a request does not count the epoch up.
CountsNothing == counter
\* `request` in the gate of the browser.
CountsUp == counter + 1

\* insertTakeover, of a row whose epoch is known or not.
Opens(state, epoch, count) ==
  /\ takeover = "none" /\ rows < MaxRow
  /\ takeover' = state
  /\ rows' = rows + 1
  /\ rowEpoch' = [rowEpoch EXCEPT ![rows + 1] = epoch]
  /\ counted' = [counted EXCEPT ![rows + 1] = count]

\* The computer's answer gives the row its epoch.
Hears(epoch) ==
  /\ rowEpoch' = [rowEpoch EXCEPT ![rows] = epoch]
  /\ counted' = [counted EXCEPT ![rows] = life]

\* request_takeover of the model: recordTakeover, with the epoch of the answer.
ModelAsks ==
  /\ Opens("asked", CountsUp, life)
  /\ counter' = CountsUp
  /\ UNCHANGED <<life, period>> /\ Rest

\* No answer in time: busyAfterTakeoverFailure records a row without an epoch.
ModelAsksInVain ==
  /\ "timeout" \in Enabled
  /\ Opens("unanswered", 0, 0)
  /\ UNCHANGED <<counter, life, period>> /\ Rest

\* POST takeover/request inserts the row before it asks the computer.
PersonAsks ==
  /\ Opens("asking", 0, 0)
  /\ UNCHANGED <<counter, life, period>> /\ Rest

\* The computer's answer to a person's request, early or late (applyComputer).
Heard ==
  /\ takeover = "asking"
  /\ takeover' = "asked"
  /\ counter' = CountsUp
  /\ Hears(counter')
  /\ UNCHANGED <<rows, life, period>> /\ Rest

\* The computer refuses the person's request: the row is terminated, without an epoch.
Refused ==
  /\ "refusal" \in Enabled
  /\ takeover = "asking"
  /\ takeover' = "none"
  /\ UNCHANGED <<rows, rowEpoch, counter, counted, life, period>> /\ Rest

\* A person takes control: the grant, after the request if that was never heard
\* (syncAndGrantTakeover), and the row has the epoch granted.
Take ==
  /\ takeover \in {"asking", "unanswered", "asked"}
  /\ takeover' = "human"
  /\ counter' = IF takeover = "asked" THEN counter ELSE CountsUp
  /\ Hears(counter')
  /\ period' = period + 1
  /\ UNCHANGED <<rows, life>> /\ Rest

\* A person declines: the gate counts it if it is asked, and the row keeps its epoch.
Decline ==
  /\ takeover \in {"asking", "unanswered", "asked", "lost"}
  /\ takeover' = "none"
  /\ counter' \in CASE takeover = "asked" -> {counter + 1}
                     [] takeover = "lost" -> {counter}
                     [] OTHER -> {counter, counter + 2}
  /\ UNCHANGED <<rows, rowEpoch, counted, life, period>> /\ Rest

\* Control comes back, by a release, or by the decline that ends an expired hold.
Return ==
  /\ takeover = "human"
  /\ takeover' = "none"
  /\ counter' \in {counter, counter + 1}
  /\ UNCHANGED <<rows, rowEpoch, counted, life, period>> /\ Rest

\* A fresh process counts from 1 and knows of no takeover.
FreshProcess ==
  /\ life < MaxLife
  /\ life' = life + 1
  /\ counter' = 1
  /\ UNCHANGED <<rows, rowEpoch, counted, period>>

\* The browser's transport fails.  What its gate knew is gone; a request that was
\* never heard is asked again by the grant.
LoseBrowser ==
  /\ "lostBrowser" \in Enabled
  /\ FreshProcess
  /\ takeover' = IF takeover \in {"asked", "human"} THEN "lost" ELSE takeover
  /\ Rest

\* The daemon stops and starts: the calls in flight are gone, the rows are not.
\* Its computers' processes are fresh too; a human hold is put back with its epoch
\* (reconcileHumanHolds), and the count goes on from there.
Crash ==
  /\ "crash" \in Enabled
  /\ call' = [c \in Caller |-> NoCall]
  /\ cut' = cut \cup {k \in Ask : \E c \in Caller : call[c].pc = "acted" /\ call[c].ask = k}
  /\ \/ takeover = "human" /\ UNCHANGED control
     \/ /\ FreshProcess
        /\ takeover' = IF takeover = "none" THEN "none" ELSE "lost"
  /\ UNCHANGED <<card, grants, task, answer, used, stopped>>

-----------------------------------------------------------------------------
CallStep(c) == (\E a \in Action : Start(c, a)) \/ Decide(c) \/ Act(c) \/ Fail(c) \/ Commit(c)

Person ==
  \/ \E k \in Ask : (\E d \in Decision : Answer(k, d)) \/ Pass(k) \/ Sweep(k)
  \/ CancelTask

Control ==
  \/ ModelAsks \/ ModelAsksInVain \/ PersonAsks \/ Heard \/ Refused
  \/ Take \/ Decline \/ Return \/ LoseBrowser

Next == (\E c \in Caller : CallStep(c)) \/ Person \/ Control \/ Crash

Spec == Init /\ [][Next]_vars

-----------------------------------------------------------------------------
Running(c) == call[c].pc \in {"executing", "acted"}

\* Nothing gated runs that a person has not allowed: on a card, the card was
\* answered so; without one, its site was (dispatch and the new_domain gate).
EveryEffectWasAllowed ==
  \A c \in Caller : Running(c) =>
    \/ call[c].ask # NoAsk /\ answer[call[c].ask] \in Allow
                           /\ card[call[c].ask].action = call[c].action
    \/ call[c].ask = NoAsk /\ call[c].action \in NewDomain
                           /\ OriginOf[call[c].action] \in grants

\* A site is granted only by a person who was asked about that site and said
\* it is for the whole task (the comment above "remembered" in server.ts).
GrantsWereGiven ==
  \A o \in grants : \E k \in Ask :
    card[k].action \in NewDomain /\ OriginOf[card[k].action] = o /\ answer[k] = "allow_task"

\* What is stored of a card that was allowed is what the person answered, also
\* after a call has spent it (store.ts consumeApprovalWithGrant).
RecordIsTheAnswer ==
  \A k \in Ask : card[k].status \in {"approved", "consumed"} => card[k].decision = answer[k]

\* Why these three hold.  A card has the person's answer from the moment it is
\* answered, and only a card without one can be raised or answered; a call that
\* runs carries the answer of its own card; grants are never taken back.
Unanswered == \A k \in Ask : card[k].status \in {"none", "pending"} => answer[k] = "none"
Recording == \A k \in Ask : card[k].status \in {"approved", "consumed"} =>
               card[k].decision = answer[k] /\ answer[k] \in Allow
Carrying == \A c \in Caller : Running(c) /\ call[c].ask # NoAsk =>
              call[c].decided = answer[call[c].ask]
Remembering == \A c \in Caller : call[c].grants \subseteq grants

\* The invariant that steps of dispatch, of the approval routes and of a crash keep.
ConsentInv ==
  /\ TypeOK
  /\ Unanswered
  /\ Recording
  /\ Carrying
  /\ Remembering
  /\ GrantsWereGiven
  /\ EveryEffectWasAllowed

\* Consent asked for before a human hold is not used by a call of after it (`exact`
\* in dispatch, dispatcher.ts, compares control epochs), as far as epochs tell: a
\* takeover that ended before the computer was heard has none, and two processes of
\* the browser count from the same number.
SameCount(r, s) == r = s \/ (counted[r] = counted[s] /\ counted[r] # 0)
ConsentIsOfThisPeriod ==
  \A c \in Caller : Running(c) /\ call[c].ask # NoAsk =>
    LET k == call[c].ask IN
    SameCount(card[k].row, call[c].row) => card[k].period = call[c].period

\* Once a person has stopped the task, by cancelling it or with a kill, no further
\* call goes out, those already observing or already allowed included (cancelled()).
NothingStartsAfterStop ==
  [][\A c \in Caller : stopped /\ call'[c].pc = "executing" => call[c].pc = "executing"]_vars

\* A card on which a call has acted buys no other (pendingOnce and commitOnce in
\* dispatcher.ts): it can be gone by only until that call comes back, or if a crash
\* cut the call off before it could spend the card.
OnceBuysOneCall ==
  \A k \in used : card[k].status = "approved" =>
    k \in cut \/ \E c \in Caller : call[c].pc = "acted" /\ call[c].ask = k

\* A person is asked about an action again, with the first card still pending, only
\* if control was asked for between them: a repeat finds the pending card
\* (findApprovalByAction).
Between(k, l) == {m \in Ask : k < m /\ m < l /\ card[m].action = card[k].action}
OneCard ==
  \A k, l \in Ask :
    /\ k < l /\ Between(k, l) = {}
    /\ card[k].status = "pending" /\ card[l].status = "pending"
    /\ card[k].action = card[l].action
    => card[k].row # card[l].row

-----------------------------------------------------------------------------
\* What is written of the code and is not so; no run lists these.

\* "Allow once" buys this one call (dispatcher.ts:735): two calls of the action that
\* are in progress at once both find the card approved, and both go out.
NoSecondCall ==
  [][\A c \in Caller :
       call[c].pc = "observing" /\ call'[c].pc = "executing" /\ call'[c].ask # NoAsk =>
         /\ call'[c].ask \notin used
         /\ \A d \in Caller : Running(d) => call[d].ask # call'[c].ask]_vars

\* Approvals bind the control epoch (docs/ARCHITECTURE.md:41).  An epoch is of one
\* process: after a hold, a lost browser and another hold the numbers agree again.
ConsentIsOfOneHold ==
  \A c \in Caller : Running(c) /\ call[c].ask # NoAsk =>
    card[call[c].ask].period = call[c].period
=============================================================================
