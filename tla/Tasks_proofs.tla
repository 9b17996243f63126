---------------------------- MODULE Tasks_proofs ----------------------------
(***************************************************************************)
(* What the daemon promises of a task, proved for any number of runs, of   *)
(* resumes, of messages and of restarts: RunsSafe, NothingAfterStop and    *)
(* OutcomeStands (module Tasks); of a routine, for any routines,           *)
(* expressions and bounds: RoutineSafe, NoFiringLost and OffOnlyWhenTired  *)
(* (module Scheduler); and of a task that an external harness works on:    *)
(* BudgetSafe (module HarnessBudget).                                      *)
(*                                                                         *)
(* Tasks. What makes it inductive: one run at most can still write the row *)
(* (OneEngaged), a paused task has none, and a resume that is about to     *)
(* start one is alone (ResumedAlone); a run of the loop counts a step no   *)
(* earlier run counted (TurnsCounted); what a run is about to tell is what *)
(* the row says (TellsTheRow); and an outcome the log does not tell yet is *)
(* owed by somebody who will (OutcomeIsOwed).                              *)
(*                                                                         *)
(* Scheduler. A row of the tick in progress is of the firing its routine   *)
(* still waits for, one row to a routine, so a firing whose row is written *)
(* lies behind the routine's next one; a run has a row of its own routine; *)
(* and the failures that a run has counted are still in the history, for   *)
(* nothing else of that routine can end meanwhile.                         *)
(*                                                                         *)
(* HarnessBudget. A computer is bound anew only while no call is under     *)
(* way, so every call under way paid for the task that is bound; calls     *)
(* counted and not yet dispatched are within what was counted; the refusal *)
(* stands exactly while the count has reached the budget; and the writers  *)
(* of a refusal under the present budget hold the claim, or have marked it *)
(* as written.                                                             *)
(***************************************************************************)
EXTENDS Tasks, Scheduler, HarnessBudget, SequenceTheorems, FiniteSetTheorems, WellFoundedInduction, TLAPS

USE TaskAssumption


-----------------------------------------------------------------------------
(* The inductive invariant *)

\* Where a run may still write the row.
EngagedPlaces == Working \cup {"finish", "thrown", "judge"}
Engaged(r) == attempt[r].at \in EngagedPlaces
NoneEngaged == \A r \in Attempt : ~Engaged(r)
IsTelling(q) == resume[q] = "telling"

LoopPlaces == {"none", "start", "top", "reply", "think", "act", "held", "finish", "asking", "over"}
NativePlaces == {"none", "start", "wait", "turn", "await", "over", "thrown", "judge", "tell", "ending"}
AttemptRecord ==
    [at : Places, step : 0..StepLimit, late : BOOLEAN,
     want : {"none", "person", "paused"} \cup Terminal, call : {"none"} \cup Terminal]
StopRecord ==
    [by : {"nobody", "operator", "system"}, told : BOOLEAN, tear : {"no", "awaits", "done"},
     awaits : Attempt \cup {"none"}]
TaskTypes ==
    /\ TasksTypeOK /\ turns \in Nat
    /\ resume \in [Request -> {"none", "waking", "telling"}] /\ stop \in StopRecord

\* A run takes the places of its adapter.
InPlace == \A r \in Attempt : attempt[r].at \in (IF task.adapter = "loop" THEN LoopPlaces ELSE NativePlaces)
\* One run at most may still write the row.
OneEngaged == \A r, s \in Attempt : Engaged(r) /\ Engaged(s) => r = s
\* A paused task has no such run, nor one that a resume is about to start; a close may pause a
\* native task under its run, and starts none.
ResumedAlone ==
    life = "up" \/ task.adapter = "loop" =>
        /\ task.status = "paused" => NoneEngaged
        /\ \A q \in Request : IsTelling(q) =>
              NoneEngaged /\ task.status # "paused" /\ \A p \in Request : IsTelling(p) => p = q
NothingBefore ==
    task.status = "none" =>
        /\ (\A r \in Attempt : At(r, "none")) /\ (\A q \in Request : ~IsTelling(q))
        /\ task.used = 0 /\ turns = 0 /\ receipt = Unfrozen /\ stop.by = "nobody"
\* While a run of the loop may write it, the row says running or was stopped.
LoopRow ==
    task.adapter = "loop" /\ (~NoneEngaged \/ \E q \in Request : IsTelling(q)) =>
        task.status \in {"running", "cancelled"}
\* What a step of the loop is about to count was not counted by an earlier run.
StepFits(a, n) ==
    /\ a.at \in {"start", "top", "reply", "think"} => n <= a.step
    /\ a.at \in {"act", "held"} => n <= a.step + 1
    /\ a.at \in {"reply", "think", "act", "held"} => a.step < StepLimit
TurnsCounted ==
    /\ task.adapter = "loop" => turns <= task.used /\ \A r \in Attempt : StepFits(attempt[r], task.used)
    /\ task.adapter = "native" => task.used = 0
StopHolds ==
    /\ stop.by # "nobody" => Cancelled
    /\ stop.tear # "no" \/ stop.told => stop.by # "nobody"
    /\ life = "up" /\ aborted # {} => Cancelled
DownIsEmpty ==
    life = "down" =>
        /\ ends > 0 /\ aborted = {} /\ stop.by = "nobody"
        /\ \A r \in Attempt : attempt[r] = Off
        /\ \A q \in Request : resume[q] = "none"
\* What a run is about to tell is what it wrote.
TellsTheRow ==
    \A r \in Attempt :
        /\ attempt[r].call # "none" => task.status = attempt[r].call
        /\ attempt[r].at = "tell" =>
              attempt[r].want \in {"paused", "failed"} /\ (attempt[r].want = "failed" => task.status = "failed")
        /\ attempt[r].at = "finish" => attempt[r].want \in {"paused"} \cup Terminal
FrozenIsOver == receipt # Unfrozen => task.status \in Terminal
\* An outcome is in the log, or somebody is about to tell it.
Owes(r) == attempt[r].call = task.status \/ (attempt[r].at = "tell" /\ attempt[r].want = task.status)
OutcomeIsOwed ==
    life = "up" /\ ends = 0 /\ task.status \in Terminal =>
        \/ task.status \in log
        \/ task.status = "cancelled" /\ stop.by # "nobody" /\ ~stop.told
        \/ \E r \in Attempt : Owes(r)
Manned ==
    life = "up" /\ task.status = "running" /\ (task.adapter = "native" \/ ends = 0) =>
        ~NoneEngaged \/ \E q \in Request : IsTelling(q)

RowInv == OneEngaged /\ ResumedAlone /\ NothingBefore /\ LoopRow /\ DownIsEmpty /\ StopHolds /\ Manned
TellInv == TellsTheRow /\ FrozenIsOver /\ OutcomeIsOwed /\ ReceiptSeesOutcome
TaskIInv == TaskTypes /\ InPlace /\ RowInv /\ TurnsCounted /\ TellInv

-----------------------------------------------------------------------------
(* A run that goes on *)

FinishesWith(a) == a.at = "finish" => a.want \in {"paused"} \cup Terminal
OthersRest(r) ==
    attempt' \in [Attempt -> AttemptRecord] /\ \A s \in Attempt \ {r} : attempt'[s] = attempt[s]
\* A run that may write the row goes on, and writes nothing of it but the steps it used.
Moves(r) ==
    /\ Engaged(r) /\ OthersRest(r)
    /\ attempt'[r].at \in (IF task.adapter = "loop" THEN LoopPlaces ELSE NativePlaces)
    /\ attempt'[r].at \in EngagedPlaces \/ (attempt'[r].at = "over" /\ task.status \in Terminal)
    /\ attempt'[r].call = attempt[r].call /\ FinishesWith(attempt'[r])
    /\ task'.status = task.status /\ task'.adapter = task.adapter
    /\ task' \in [status : {"none", "running", "paused"} \cup Terminal,
                  adapter : {"loop", "native"}, used : 0..StepLimit]
    /\ turns' \in Nat
    /\ IF task.adapter = "loop"
       THEN turns' <= task'.used /\ StepFits(attempt'[r], task'.used)
       ELSE task'.used = task.used
    /\ pending' \in 0..MaxMessages /\ waiting' \in {"no", "approval", "asked", "human"}
    /\ scope' \in Attempt \cup {"none"}
    /\ UNCHANGED <<life, log, receipt, entry, aborted, resume, stop, ends>>

LEMMA MovesKeeps ==
  ASSUME TaskIInv, NEW r \in Attempt, Moves(r)
  PROVE  TaskIInv'
<1>1. TaskTypes' /\ InPlace'
  BY DEF TaskIInv, TaskTypes, TasksTypeOK, InPlace, Moves, OthersRest, AttemptRecord
<1>2. \A s \in Attempt : (Engaged(s))' => Engaged(s)
  BY DEF Moves, OthersRest, Engaged
<1>3. task.status \notin Terminal => (Engaged(r))'
  BY DEF Moves, Engaged, EngagedPlaces, Working
<1>4. RowInv'
  BY <1>2, <1>3 DEF TaskIInv, RowInv, OneEngaged, ResumedAlone, NothingBefore, LoopRow, DownIsEmpty,
       StopHolds, Manned,
     NoneEngaged, At, IsTelling, Cancelled, Moves, Off, Terminal, Engaged, EngagedPlaces, Working
<1>5. TurnsCounted'
  <2>1. CASE task.adapter = "loop"
    <3>1. ASSUME NEW s \in Attempt \ {r} PROVE StepFits(attempt'[s], task'.used)
      BY <2>1, <3>1 DEF TaskIInv, RowInv, OneEngaged, Engaged, EngagedPlaces, Working, Moves,
           OthersRest, StepFits, TurnsCounted
    <3>. QED BY <2>1, <3>1 DEF TurnsCounted, Moves
  <2>2. CASE task.adapter # "loop"
    BY <2>2 DEF TaskIInv, TurnsCounted, Moves
  <2>. QED BY <2>1, <2>2
<1>6. TellInv'
  <2>1. \A s \in Attempt : attempt'[s].call = attempt[s].call
    BY DEF Moves, OthersRest
  <2>2. \A s \in Attempt : attempt'[s].at = "tell" <=> attempt[s].at = "tell"
    BY DEF Moves, OthersRest, Engaged, EngagedPlaces, Working
  <2>3. \A s \in Attempt : attempt'[s].at = "tell" => attempt'[s] = attempt[s]
    BY DEF Moves, OthersRest, Engaged, EngagedPlaces, Working
  <2>4. TellsTheRow'
    BY <2>1, <2>3 DEF TaskIInv, TellInv, TellsTheRow, Moves, OthersRest, FinishesWith
  <2>5. OutcomeIsOwed'
    BY <2>1, <2>2, <2>3 DEF TaskIInv, TellInv, OutcomeIsOwed, Owes, Moves
  <2>. QED BY <2>4, <2>5 DEF TaskIInv, TellInv, FrozenIsOver, ReceiptSeesOutcome, Moves
<1>. QED BY <1>1, <1>4, <1>5, <1>6 DEF TaskIInv


\* What the three ways to write a run's record leave in it.
LEMMA GoIs ==
  ASSUME TaskTypes, NEW r \in Attempt, NEW place \in Places, Go(r, place)
  PROVE  /\ OthersRest(r) /\ attempt'[r].at = place
         /\ attempt'[r].step = attempt[r].step /\ attempt'[r].call = attempt[r].call
         /\ attempt'[r].want = attempt[r].want /\ attempt'[r].late = attempt[r].late
BY DEF TaskTypes, TasksTypeOK, Go, OthersRest, AttemptRecord

LEMMA FinishingIs ==
  ASSUME TaskTypes, NEW r \in Attempt, NEW s \in {"paused"} \cup Terminal, NEW step \in 0..StepLimit, Finishing(r, s, step)
  PROVE  /\ OthersRest(r) /\ attempt'[r].at = "finish"
         /\ attempt'[r].step = step /\ attempt'[r].call = attempt[r].call
         /\ attempt'[r].want \in {"paused"} \cup Terminal
<1>1. "finish" \in Places /\ Cancelled \in BOOLEAN /\ "cancelled" \in Terminal
  BY DEF Places, Cancelled, Terminal
<1>. DEFINE a == [attempt[r] EXCEPT !.at = "finish", !.step = step, !.late = Cancelled,
                                  !.want = IF Cancelled THEN "cancelled" ELSE s]
<1>2. attempt' = [attempt EXCEPT ![r] = a] /\ attempt \in [Attempt -> AttemptRecord]
  BY DEF Finishing, TaskTypes, TasksTypeOK, AttemptRecord
<1>3. a \in AttemptRecord /\ a.at = "finish" /\ a.step = step /\ a.call = attempt[r].call
      /\ a.want \in {"paused"} \cup Terminal
  BY <1>1, <1>2 DEF AttemptRecord
<1>. HIDE DEF a
<1>. QED BY <1>2, <1>3 DEF OthersRest

\* The next step of a run.
LEMMA NextStepIs ==
  ASSUME TaskTypes, NEW r \in Attempt, attempt[r].step < StepLimit,
         attempt' = [attempt EXCEPT ![r].at = "top", ![r].step = attempt[r].step + 1]
  PROVE  /\ OthersRest(r) /\ attempt'[r].at = "top"
         /\ attempt'[r].step = attempt[r].step + 1 /\ attempt'[r].call = attempt[r].call
<1>1. attempt[r].step + 1 \in 0..StepLimit /\ "top" \in Places
  BY DEF TaskTypes, TasksTypeOK, Places, Working
<1>. QED
  BY <1>1 DEF TaskTypes, TasksTypeOK, OthersRest, AttemptRecord

\* A step of the loop leaves the run at another place of the loop, where the step fits.
LEMMA LoopPlaceMoves ==
  ASSUME TaskIInv, NEW r \in Attempt, task.adapter = "loop", Engaged(r), OthersRest(r),
         attempt'[r].at \in {"top", "reply", "think", "act", "held", "finish"},
         attempt'[r].call = attempt[r].call, FinishesWith(attempt'[r]),
         task' = task /\ turns' = turns, StepFits(attempt'[r], task.used),
         pending' \in 0..MaxMessages, waiting' \in {"no", "approval", "asked", "human"},
         UNCHANGED <<life, log, receipt, entry, aborted, scope, resume, stop, ends>>
  PROVE  Moves(r)
BY DEF TaskIInv, TaskTypes, TasksTypeOK, TurnsCounted, Moves, LoopPlaces, EngagedPlaces, Working

\* Every step of the loop, and of a native turn that stays with its task, is such a move.
LEMMA LoopMoves ==
  ASSUME TaskIInv, NEW r \in Attempt,
         \/ LoopTop(r) \/ LoopReplies(r) \/ LoopStalls(r) \/ LoopThrows(r) \/ LoopMeetsHuman(r)
         \/ LoopThinks(r) \/ LoopActs(r) \/ LoopNeedsPerson(r) \/ LoopHeld(r)
  PROVE  Moves(r)
<1>. DEFINE step == attempt[r].step
<1>1. /\ TaskTypes /\ step \in 0..StepLimit /\ StepLimit \in Nat
      /\ pending \in 0..MaxMessages /\ 0 \in 0..MaxMessages
      /\ waiting \in {"no", "approval", "asked", "human"}
      /\ {"top", "reply", "think", "act", "held"} \subseteq Places
      /\ {"cancelled", "paused", "failed"} \subseteq {"paused"} \cup Terminal
  BY DEF TaskIInv, TaskTypes, TasksTypeOK, Places, Working, Terminal
<1>2. attempt[r].at \in {"top", "reply", "think", "act", "held"}
  BY DEF LoopTop, LoopReplies, LoopStalls, LoopThrows, LoopMeetsHuman, LoopThinks, LoopActs,
       LoopNeedsPerson, LoopHeld, At
<1>3. task.adapter = "loop" /\ Engaged(r)
  BY <1>2 DEF TaskIInv, InPlace, NativePlaces, Engaged, EngagedPlaces, Working
<1>4. StepFits(attempt[r], task.used) /\ turns <= task.used
  BY <1>3 DEF TaskIInv, TurnsCounted
<1>5. ASSUME NEW s \in {"paused"} \cup Terminal, NEW n \in 0..StepLimit, Finishing(r, s, n)
      PROVE  OthersRest(r) /\ attempt'[r].at = "finish" /\ attempt'[r].call = attempt[r].call
             /\ FinishesWith(attempt'[r]) /\ StepFits(attempt'[r], task.used)
  BY <1>1, <1>5, FinishingIs DEF FinishesWith, StepFits
<1>6. ASSUME NEW place \in {"top", "reply", "think", "act", "held"}, Go(r, place)
      PROVE  OthersRest(r) /\ attempt'[r].at = place /\ attempt'[r].call = attempt[r].call
             /\ FinishesWith(attempt'[r]) /\ attempt'[r].step = step
  BY <1>1, <1>6, GoIs DEF FinishesWith
<1>7. ASSUME attempt' = [attempt EXCEPT ![r].at = "top", ![r].step = step + 1], attempt[r].at # "top"
      PROVE  OthersRest(r) /\ attempt'[r].at = "top" /\ attempt'[r].call = attempt[r].call
             /\ FinishesWith(attempt'[r]) /\ StepFits(attempt'[r], task.used) /\ attempt'[r].step = step + 1
  <2>1. step < StepLimit
    BY <1>2, <1>4, <1>7 DEF StepFits
  <2>2. task.used \in 0..StepLimit
    BY DEF TaskIInv, TaskTypes, TasksTypeOK
  <2>3. OthersRest(r) /\ attempt'[r].at = "top" /\ attempt'[r].step = step + 1 /\ attempt'[r].call = attempt[r].call
    BY <1>1, <1>7, <2>1, NextStepIs
  <2>4. task.used <= step + 1
    BY <1>1, <1>2, <1>4, <1>7, <2>2 DEF StepFits
  <2>. HIDE DEF step
  <2>. QED
    BY <2>3, <2>4 DEF FinishesWith, StepFits
<1>. HIDE DEF step
<1>8. CASE LoopTop(r)
  <2>1. attempt[r].at = "top"
    BY <1>8 DEF LoopTop, At
  <2>2. attempt'[r].at \in {"reply", "think", "finish"} /\ OthersRest(r) /\ attempt'[r].call = attempt[r].call
        /\ FinishesWith(attempt'[r]) /\ StepFits(attempt'[r], task.used)
    BY <1>1, <1>4, <1>5, <1>6, <1>8, <2>1 DEF LoopTop, StepFits, step
  <2>. QED BY <1>1, <1>3, <1>8, <2>2, LoopPlaceMoves DEF LoopTop, Unchanged
<1>9. CASE LoopReplies(r)
  <2>1. attempt[r].at = "reply"
    BY <1>9 DEF LoopReplies, At
  <2>2. attempt'[r].at \in {"top", "finish"} /\ OthersRest(r) /\ attempt'[r].call = attempt[r].call
        /\ FinishesWith(attempt'[r]) /\ StepFits(attempt'[r], task.used)
    BY <1>1, <1>5, <1>7, <1>9, <2>1 DEF LoopReplies, step
  <2>. QED BY <1>1, <1>3, <1>9, <2>2, LoopPlaceMoves DEF LoopReplies, Unchanged
<1>10. CASE LoopStalls(r)
  BY <1>1, <1>3, <1>5, <1>10, LoopPlaceMoves DEF LoopStalls, Unchanged, step
<1>11. CASE LoopThrows(r)
  BY <1>1, <1>3, <1>5, <1>11, LoopPlaceMoves DEF LoopThrows, Unchanged, step
<1>12. CASE LoopMeetsHuman(r)
  <2>1. StepFits(attempt'[r], task.used)
    BY <1>1, <1>4, <1>6, <1>12 DEF LoopMeetsHuman, StepFits, At, step, TaskTypes, TasksTypeOK
  <2>. QED BY <1>1, <1>3, <1>6, <1>12, <2>1, LoopPlaceMoves DEF LoopMeetsHuman, Unchanged
<1>13. CASE LoopThinks(r)
  <2>1. attempt[r].at = "think" /\ step < StepLimit /\ task.used <= step
    BY <1>4, <1>13 DEF LoopThinks, At, StepFits, step
  <2>2. CASE Cancelled /\ Finishing(r, "cancelled", step) /\ UNCHANGED <<task, turns>>
    BY <1>1, <1>3, <1>5, <1>13, <2>2, LoopPlaceMoves DEF LoopThinks
  <2>3. CASE ~Cancelled
    <3>1. task' = [task EXCEPT !.used = step + 1] /\ turns' = turns + 1
      BY <1>13, <2>3 DEF LoopThinks, step
    <3>2. /\ task'.status = task.status /\ task'.adapter = task.adapter /\ task'.used = step + 1
          /\ task' \in [status : {"none", "running", "paused"} \cup Terminal, adapter : {"loop", "native"}, used : 0..StepLimit]
          /\ turns' \in Nat /\ turns' <= task'.used
      BY <1>1, <1>4, <2>1, <3>1 DEF TaskIInv, TaskTypes, TasksTypeOK
    <3>3. step + 1 \in 0..StepLimit
      BY <1>1, <2>1
    <3>4. /\ attempt'[r].at \in {"finish", "act", "top"} /\ OthersRest(r) /\ attempt'[r].call = attempt[r].call
          /\ FinishesWith(attempt'[r]) /\ StepFits(attempt'[r], step + 1)
      <4>1. CASE Finishing(r, "paused", step + 1)
        BY <1>1, <1>5, <3>3, <4>1 DEF StepFits
      <4>2. CASE Go(r, "act")
        BY <1>1, <1>6, <2>1, <4>2 DEF StepFits
      <4>3. CASE attempt' = [attempt EXCEPT ![r].at = "top", ![r].step = step + 1]
        BY <1>1, <1>7, <2>1, <4>3 DEF StepFits
      <4>. QED BY <1>13, <2>3, <4>1, <4>2, <4>3 DEF LoopThinks, step
    <3>. QED BY <1>1, <1>3, <1>13, <3>2, <3>4 DEF LoopThinks, Moves, LoopPlaces, EngagedPlaces,
                  Working, TaskTypes, TasksTypeOK
  <2>. QED BY <1>13, <2>2, <2>3 DEF LoopThinks, step
<1>14. CASE LoopActs(r)
  <2>1. attempt[r].at = "act" /\ step < StepLimit /\ task.used <= step + 1 /\ step + 1 \in 0..StepLimit
    BY <1>1, <1>4, <1>14 DEF LoopActs, At, StepFits, step
  <2>2. attempt'[r].at \in {"top", "act", "finish"} /\ OthersRest(r) /\ attempt'[r].call = attempt[r].call
        /\ FinishesWith(attempt'[r]) /\ StepFits(attempt'[r], task.used)
    <3>1. CASE attempt' = [attempt EXCEPT ![r].at = "top", ![r].step = step + 1]
      BY <1>7, <2>1, <3>1
    <3>2. CASE Go(r, "act")
      BY <1>6, <2>1, <3>2 DEF StepFits
    <3>3. CASE \E s \in {"paused"} \cup Terminal, n \in 0..StepLimit : Finishing(r, s, n)
      BY <1>5, <3>3
    <3>. QED BY <1>1, <1>14, <2>1, <3>1, <3>2, <3>3 DEF LoopActs, step
  <2>. QED BY <1>1, <1>3, <1>14, <2>2, LoopPlaceMoves DEF LoopActs, Unchanged
<1>15. CASE LoopNeedsPerson(r)
  <2>1. StepFits(attempt'[r], task.used)
    BY <1>1, <1>4, <1>6, <1>15 DEF LoopNeedsPerson, StepFits, At, step
  <2>. QED BY <1>1, <1>3, <1>6, <1>15, <2>1, LoopPlaceMoves DEF LoopNeedsPerson, Unchanged
<1>16. CASE LoopHeld(r)
  <2>1. attempt[r].at = "held" /\ step < StepLimit /\ task.used <= step + 1
    BY <1>4, <1>16 DEF LoopHeld, At, StepFits, step
  <2>2. attempt'[r].at \in {"top", "act", "finish"} /\ OthersRest(r) /\ attempt'[r].call = attempt[r].call
        /\ FinishesWith(attempt'[r]) /\ StepFits(attempt'[r], task.used)
    <3>1. CASE attempt' = [attempt EXCEPT ![r].at = "top", ![r].step = step + 1]
      BY <1>7, <2>1, <3>1
    <3>2. CASE Go(r, "act")
      BY <1>6, <2>1, <3>2 DEF StepFits
    <3>3. CASE Finishing(r, "paused", step)
      BY <1>1, <1>5, <3>3
    <3>. QED BY <1>16, <3>1, <3>2, <3>3 DEF LoopHeld, step
  <2>. QED BY <1>1, <1>3, <1>16, <2>2, LoopPlaceMoves DEF LoopHeld, Unchanged
<1>. QED BY <1>8, <1>9, <1>10, <1>11, <1>12, <1>13, <1>14, <1>15, <1>16

LEMMA NativeMoves ==
  ASSUME TaskIInv, NEW r \in Attempt,
         \/ RunStoredTask(r) \/ NativeBegins(r) \/ NativeReads(r) \/ NativeNeedsPerson(r)
         \/ NativeMeetsPerson(r) \/ NativeTurnEnds(r) \/ NativeAwaits(r)
  PROVE  Moves(r)
<1>. USE DEF TaskIInv, TaskTypes, TasksTypeOK, InPlace, TurnsCounted, StepFits, Moves, OthersRest, AttemptRecord, Places,
        LoopPlaces, NativePlaces, EngagedPlaces, Working, Engaged, FinishesWith, Terminal, At, Go, MayCall, Unchanged
<1>1. CASE RunStoredTask(r)
  BY <1>1 DEF RunStoredTask
<1>2. CASE NativeBegins(r)
  BY <1>2 DEF NativeBegins
<1>3. CASE NativeReads(r)
  BY <1>3 DEF NativeReads
<1>4. CASE NativeNeedsPerson(r)
  BY <1>4 DEF NativeNeedsPerson
<1>5. CASE NativeMeetsPerson(r)
  BY <1>5 DEF NativeMeetsPerson
<1>6. CASE NativeTurnEnds(r)
  BY <1>6 DEF NativeTurnEnds
<1>7. CASE NativeAwaits(r)
  BY <1>7 DEF NativeAwaits
<1>. QED BY <1>1, <1>2, <1>3, <1>4, <1>5, <1>6, <1>7

-----------------------------------------------------------------------------
(* A run that writes the row, and ends *)

\* JobSettles: the event and the row, at once; then the run may write no more.
LEMMA SettlesKeeps ==
  ASSUME TaskIInv, NEW r \in Attempt, JobSettles(r)
  PROVE  TaskIInv'
<1>. DEFINE want == attempt[r].want
<1>1. /\ attempt[r].at = "finish" /\ want \in {"paused"} \cup Terminal /\ task.adapter = "loop" /\ Engaged(r)
      /\ task.status \in {"running", "cancelled"}
  BY DEF JobSettles, At, TaskIInv, RowInv, TellInv, TellsTheRow, InPlace, NativePlaces, LoopRow,
       NoneEngaged, Engaged,
         EngagedPlaces
<1>2. /\ OthersRest(r) /\ attempt'[r].at \in {"asking", "over"} /\ attempt'[r].call = attempt[r].call
  BY GoIs DEF JobSettles, TaskIInv, Places
<1>3. /\ task'.adapter = task.adapter /\ task'.used = task.used /\ task'.status = IF Cancelled THEN "cancelled" ELSE want
      /\ task' \in [status : {"none", "running", "paused"} \cup Terminal, adapter : {"loop", "native"}, used : 0..StepLimit]
  BY <1>1 DEF JobSettles, TaskIInv, TaskTypes, TasksTypeOK, PauseTask, FinishTask, Cancelled, Terminal
<1>4. log' = log \cup ({want} \cap Terminal)
  BY DEF JobSettles, Tell
<1>5. \/ receipt' = receipt
      \/ want # "paused" /\ receipt' = IF receipt = Unfrozen /\ task'.status \in Terminal THEN log' ELSE receipt
  BY DEF JobSettles, FreezeTaskSummary
<1>6. UNCHANGED <<life, pending, entry, aborted, scope, waiting, resume, stop, turns, ends>>
  BY DEF JobSettles
<1>. HIDE DEF want
<1>7. TaskTypes' /\ InPlace'
  BY <1>1, <1>2, <1>3, <1>4, <1>5, <1>6, ZenonT(30) DEF TaskIInv, TaskTypes, TasksTypeOK, InPlace, OthersRest,
       AttemptRecord, LoopPlaces, Terminal
<1>8. NoneEngaged'
  BY <1>1, <1>2 DEF TaskIInv, RowInv, OneEngaged, NoneEngaged, Engaged, EngagedPlaces, Working,
       OthersRest
<1>9. RowInv'
  BY <1>1, <1>2, <1>3, <1>6, <1>8 DEF TaskIInv, RowInv, OneEngaged, ResumedAlone, NothingBefore,
       LoopRow, DownIsEmpty, StopHolds,
     Manned, NoneEngaged, At, IsTelling, Cancelled, Terminal, Off
<1>10. TurnsCounted'
  BY <1>1, <1>2, <1>3, <1>6 DEF TaskIInv, TurnsCounted, StepFits, OthersRest
<1>11. TellInv'
  <2>1. task.status \in Terminal => task.status = "cancelled" /\ task'.status = "cancelled"
    BY <1>1, <1>3 DEF Terminal, Cancelled
  <2>2. \A s \in Attempt : attempt'[s].call = attempt[s].call /\ (attempt'[s].at \in {"tell", "finish"} => attempt'[s] = attempt[s])
    BY <1>2 DEF OthersRest
  <2>3. \A s \in Attempt : attempt[s].at # "tell"
    BY <1>1 DEF TaskIInv, InPlace, LoopPlaces
  <2>4. TellsTheRow'
    BY <1>1, <2>1, <2>2, <2>3 DEF TaskIInv, TaskTypes, TasksTypeOK, TellInv, TellsTheRow, Terminal
  <2>5. FrozenIsOver' /\ ReceiptSeesOutcome'
    BY <1>1, <1>3, <1>4, <1>5, <2>1 DEF TaskIInv, TellInv, FrozenIsOver, ReceiptSeesOutcome, Terminal,
         Unfrozen
  <2>6. OutcomeIsOwed'
    BY <1>1, <1>3, <1>4, <1>6, <2>1, <2>2, <2>3, ZenonT(30) DEF TaskIInv, TellInv, OutcomeIsOwed, Owes, Cancelled,
         Terminal
  <2>. QED BY <2>4, <2>5, <2>6 DEF TellInv
<1>. QED BY <1>7, <1>9, <1>10, <1>11 DEF TaskIInv

-----------------------------------------------------------------------------
(* Requests, and the daemon *)

\* What only moves messages and holds.
LEMMA PostKeeps ==
  ASSUME TaskIInv, PostMessage \/ Decides \/ UNCHANGED taskVars
  PROVE  TaskIInv'
<1>1. pending' \in 0..MaxMessages /\ waiting' \in {"no", "approval", "asked", "human"}
  BY DEF PostMessage, Decides, taskVars, TaskIInv, TaskTypes, TasksTypeOK
<1>2. UNCHANGED <<life, task, log, receipt, attempt, entry, aborted, scope, resume, stop, turns, ends>>
  BY DEF PostMessage, Decides, taskVars
<1>3. TaskTypes' /\ InPlace' /\ TurnsCounted'
  BY <1>1, <1>2 DEF TaskIInv, TaskTypes, TasksTypeOK, InPlace, TurnsCounted
<1>4. RowInv'
  BY <1>2 DEF TaskIInv, RowInv, OneEngaged, ResumedAlone, NothingBefore, LoopRow, DownIsEmpty,
       StopHolds, Manned,
     NoneEngaged, At, IsTelling, Engaged, Cancelled
<1>5. TellInv'
  BY <1>2 DEF TaskIInv, TellInv, TellsTheRow, OutcomeIsOwed, Owes, FrozenIsOver, ReceiptSeesOutcome
<1>. QED BY <1>3, <1>4, <1>5 DEF TaskIInv

LEMMA ResumeBeginsKeeps ==
  ASSUME TaskIInv, NEW q \in Request, ResumeBegins(q)
  PROVE  TaskIInv'
<1>1. \A p \in Request : (IsTelling(p))' <=> IsTelling(p)
  BY DEF ResumeBegins, IsTelling, TaskIInv, TaskTypes
<1>2. UNCHANGED <<life, task, log, receipt, pending, attempt, entry, aborted, scope, waiting, stop, turns, ends>>
      /\ life = "up"
  BY DEF ResumeBegins
<1>3. TaskTypes' /\ InPlace' /\ TurnsCounted'
  BY <1>2 DEF ResumeBegins, TaskIInv, TaskTypes, TasksTypeOK, InPlace, TurnsCounted
<1>4. RowInv'
  BY <1>1, <1>2 DEF TaskIInv, RowInv, OneEngaged, ResumedAlone, NothingBefore, LoopRow, DownIsEmpty,
       StopHolds, Manned,
     NoneEngaged, At, Engaged, Cancelled
<1>5. TellInv'
  BY <1>2 DEF TaskIInv, TellInv, TellsTheRow, OutcomeIsOwed, Owes, FrozenIsOver, ReceiptSeesOutcome
<1>. QED BY <1>3, <1>4, <1>5 DEF TaskIInv

LEMMA ResumeMarksKeeps ==
  ASSUME TaskIInv, life # "down", NEW q \in Request, ResumeMarks(q)
  PROVE  TaskIInv'
<1>1. UNCHANGED <<life, log, receipt, pending, attempt, entry, aborted, scope, waiting, stop, turns, ends>>
  BY DEF ResumeMarks
<1>2. CASE task' = task
  <2>1. resume' = [resume EXCEPT ![q] = "none"]
    BY <1>2 DEF ResumeMarks, TaskIInv, TaskTypes, TasksTypeOK
  <2>2. \A p \in Request : (IsTelling(p))' <=> IsTelling(p)
    BY <2>1 DEF ResumeMarks, IsTelling, TaskIInv, TaskTypes
  <2>3. TaskTypes' /\ InPlace' /\ TurnsCounted'
    BY <1>1, <1>2, <2>1 DEF TaskIInv, TaskTypes, TasksTypeOK, InPlace, TurnsCounted
  <2>4. RowInv'
    BY <1>1, <1>2, <2>2 DEF TaskIInv, RowInv, OneEngaged, ResumedAlone, NothingBefore, LoopRow,
         DownIsEmpty, StopHolds, Manned,
       NoneEngaged, At, Engaged, Cancelled
  <2>5. TellInv'
    BY <1>1, <1>2 DEF TaskIInv, TellInv, TellsTheRow, OutcomeIsOwed, Owes, FrozenIsOver,
         ReceiptSeesOutcome
  <2>. QED BY <2>3, <2>4, <2>5 DEF TaskIInv
<1>3. CASE task' # task
  <2>1. task.status = "paused" /\ task' = [task EXCEPT !.status = "running"] /\ resume' = [resume EXCEPT ![q] = "telling"]
    BY <1>3 DEF ResumeMarks
  <2>2. task'.status = "running" /\ task'.adapter = task.adapter /\ task'.used = task.used
        /\ task' \in [status : {"none", "running", "paused"} \cup Terminal, adapter : {"loop", "native"}, used : 0..StepLimit]
    BY <2>1 DEF TaskIInv, TaskTypes, TasksTypeOK
  <2>3. \A p \in Request : (IsTelling(p))' <=> (IsTelling(p) \/ p = q)
    BY <2>1 DEF IsTelling, TaskIInv, TaskTypes
  <2>4. TaskTypes' /\ InPlace' /\ TurnsCounted'
    BY <1>1, <2>1, <2>2 DEF TaskIInv, TaskTypes, TasksTypeOK, InPlace, TurnsCounted
  <2>5. RowInv'
    BY <1>1, <2>1, <2>2, <2>3 DEF TaskIInv, RowInv, OneEngaged, ResumedAlone, NothingBefore, LoopRow,
         DownIsEmpty, StopHolds, Manned,
       NoneEngaged, At, Engaged, Cancelled
  <2>6. TellInv'
    BY <1>1, <2>1, <2>2 DEF TaskIInv, TellInv, TellsTheRow, OutcomeIsOwed, Owes, FrozenIsOver,
         ReceiptSeesOutcome, TaskTypes, TasksTypeOK, Terminal
  <2>. QED BY <2>4, <2>5, <2>6 DEF TaskIInv
<1>. QED BY <1>2, <1>3

LEMMA StopBeginsKeeps ==
  ASSUME TaskIInv, NEW by \in {"operator", "system"}, StopBegins(by)
  PROVE  TaskIInv'
<1>1. UNCHANGED <<life, log, receipt, pending, attempt, entry, scope, resume, turns, ends>> /\ life = "up"
      /\ stop.by = "nobody" /\ task.status \in {"running", "paused"}
  BY DEF StopBegins
<1>2. task'.status = "cancelled" /\ task'.adapter = task.adapter /\ task'.used = task.used
      /\ task' \in [status : {"none", "running", "paused"} \cup Terminal, adapter : {"loop", "native"}, used : 0..StepLimit]
  BY DEF StopBegins, FinishTask, TaskIInv, TaskTypes, TasksTypeOK, Terminal
<1>3. stop' \in StopRecord /\ stop'.by = by /\ stop'.told = stop.told /\ stop'.tear = stop.tear /\ ~stop.told
  BY <1>1 DEF StopBegins, StopRecord, TaskIInv, TaskTypes, RowInv, StopHolds
<1>4. TaskTypes' /\ InPlace' /\ TurnsCounted'
  BY <1>1, <1>2, <1>3 DEF StopBegins, TaskIInv, TaskTypes, TasksTypeOK, InPlace, TurnsCounted
<1>5. RowInv'
  BY <1>1, <1>2, <1>3 DEF TaskIInv, RowInv, OneEngaged, ResumedAlone, NothingBefore, LoopRow,
       DownIsEmpty, StopHolds, Manned,
     NoneEngaged, At, IsTelling, Engaged, Cancelled
<1>6. TellInv'
  BY <1>1, <1>2, <1>3 DEF TaskIInv, TellInv, TellsTheRow, OutcomeIsOwed, Owes, FrozenIsOver,
       ReceiptSeesOutcome, Terminal, TaskTypes, TasksTypeOK
<1>. QED BY <1>4, <1>5, <1>6 DEF TaskIInv

\* The teardown of a stop, and its event.
LEMMA TeardownKeeps ==
  ASSUME TaskIInv, StopRevokes \/ TearsDown \/ StopTells
  PROVE  TaskIInv'
<1>1. UNCHANGED <<life, task, pending, attempt, entry, aborted, waiting, resume, turns, ends>> /\ stop.by # "nobody"
  BY DEF StopRevokes, TearsDown, StopTells, TaskIInv, RowInv, StopHolds
<1>2. Cancelled
  BY <1>1 DEF TaskIInv, RowInv, StopHolds
<1>3. stop' \in StopRecord /\ stop'.by = stop.by /\ (stop.told => stop'.told) /\ scope' \in Attempt \cup {"none"}
  BY ZenonT(30) DEF StopRevokes, TearsDown, StopTells, TaskIInv, TaskTypes, TasksTypeOK, StopRecord
<1>4. /\ log' \subseteq Terminal /\ log \subseteq log'
      /\ (stop'.told /\ ~stop.told => "cancelled" \in log')
  BY ZenonT(30) DEF StopRevokes, TearsDown, StopTells, Tell, TaskIInv, TaskTypes, TasksTypeOK, StopRecord, Terminal
<1>5. receipt' = receipt \/ receipt' = log
  BY DEF StopRevokes, TearsDown, StopTells, FreezeTaskSummary
<1>6. TaskTypes' /\ InPlace' /\ TurnsCounted'
  BY <1>1, <1>3, <1>4, <1>5 DEF TaskIInv, TaskTypes, TasksTypeOK, InPlace, TurnsCounted
<1>7. RowInv'
  BY <1>1, <1>2, <1>3 DEF TaskIInv, RowInv, OneEngaged, ResumedAlone, NothingBefore, LoopRow,
       DownIsEmpty, StopHolds, Manned,
     NoneEngaged, At, IsTelling, Engaged, Cancelled
<1>8. TellInv'
  BY <1>1, <1>2, <1>3, <1>4 DEF TaskIInv, TellInv, TellsTheRow, OutcomeIsOwed, Owes, FrozenIsOver,
       ReceiptSeesOutcome, Cancelled, Terminal
<1>. QED BY <1>6, <1>7, <1>8 DEF TaskIInv

LEMMA ClosesKeeps ==
  ASSUME TaskIInv, JobCloses
  PROVE  TaskIInv'
<1>1. UNCHANGED <<log, receipt, pending, attempt, entry, scope, waiting, resume, stop, turns, ends>> /\ life' = "closing"
  BY DEF JobCloses
<1>2. /\ task' \in [status : {"none", "running", "paused"} \cup Terminal, adapter : {"loop", "native"}, used : 0..StepLimit]
      /\ task'.adapter = task.adapter /\ task'.used = task.used
      /\ task.status \in Terminal => task'.status = task.status
      /\ task.adapter = "loop" => task'.status \in {task.status, "cancelled"}
      /\ task.adapter = "native" => task'.status = task.status \/ (task.status = "running" /\ task'.status = "paused")
      /\ aborted' \subseteq Attempt
  BY DEF JobCloses, FinishTask, TaskIInv, TaskTypes, TasksTypeOK, Terminal
<1>3. TaskTypes' /\ InPlace' /\ TurnsCounted'
  BY <1>1, <1>2 DEF TaskIInv, TaskTypes, TasksTypeOK, InPlace, TurnsCounted
<1>4. RowInv'
  BY <1>1, <1>2 DEF TaskIInv, RowInv, OneEngaged, ResumedAlone, NothingBefore, LoopRow, DownIsEmpty,
       StopHolds, Manned,
     NoneEngaged, At, IsTelling, Engaged, Cancelled, Terminal
<1>5. TellInv'
  BY <1>1, <1>2 DEF TaskIInv, TellInv, TellsTheRow, OutcomeIsOwed, Owes, FrozenIsOver,
       ReceiptSeesOutcome, Terminal, TaskTypes, TasksTypeOK
<1>. QED BY <1>3, <1>4, <1>5 DEF TaskIInv

\* The process is gone, and begins again with what is stored.
LEMMA DiesKeeps ==
  ASSUME TaskIInv, JobDies
  PROVE  TaskIInv'
<1>1. UNCHANGED <<task, log, receipt, pending, waiting, turns>> /\ life' = "down" /\ ends' = ends + 1 /\ ends' \in 0..MaxEnds
      /\ ends' > 0 /\ entry' = "none" /\ aborted' = {} /\ scope' = "none"
  BY DEF JobDies, TaskIInv, TaskTypes, TasksTypeOK
<1>2. \A r \in Attempt : attempt'[r] = Off
  BY DEF JobDies
<1>3. attempt' \in [Attempt -> AttemptRecord]
  BY DEF JobDies, Off, AttemptRecord, Places
<1>4. /\ resume' \in [Request -> {"none", "waking", "telling"}] /\ \A q \in Request : resume'[q] = "none"
      /\ stop' \in StopRecord /\ stop'.by = "nobody" /\ stop'.tear = "no" /\ ~stop'.told
  BY DEF JobDies, StopRecord
<1>5. NoneEngaged'
  BY <1>2 DEF NoneEngaged, Engaged, EngagedPlaces, Working, Off
<1>6. TaskTypes' /\ InPlace'
  BY <1>1, <1>2, <1>3, <1>4 DEF TaskIInv, TaskTypes, TasksTypeOK, InPlace, AttemptRecord, Off,
       LoopPlaces, NativePlaces
<1>7. TurnsCounted'
  BY <1>1, <1>2 DEF TaskIInv, TurnsCounted, StepFits, Off
<1>8. RowInv'
  BY <1>1, <1>2, <1>4, <1>5 DEF TaskIInv, RowInv, OneEngaged, ResumedAlone, NothingBefore, LoopRow,
       DownIsEmpty, StopHolds, Manned,
     NoneEngaged, At, IsTelling, Off
<1>9. TellInv'
  BY <1>1, <1>2 DEF TaskIInv, TellInv, TellsTheRow, OutcomeIsOwed, FrozenIsOver, ReceiptSeesOutcome, Off
<1>. QED BY <1>6, <1>7, <1>8, <1>9 DEF TaskIInv

LEMMA BootsKeeps ==
  ASSUME TaskIInv, Boots
  PROVE  TaskIInv'
<1>1. /\ UNCHANGED <<log, receipt, pending, attempt, entry, aborted, scope, waiting, resume, stop, turns, ends>>
      /\ life' = "up" /\ ends > 0 /\ (\A r \in Attempt : attempt[r] = Off) /\ aborted = {} /\ stop.by = "nobody"
      /\ \A q \in Request : resume[q] = "none"
  BY DEF Boots, TaskIInv, RowInv, DownIsEmpty
<1>2. /\ task' \in [status : {"none", "running", "paused"} \cup Terminal, adapter : {"loop", "native"}, used : 0..StepLimit]
      /\ task'.adapter = task.adapter /\ task'.used = task.used
      /\ task'.status = task.status \/ (task.status = "running" /\ task'.status = "paused")
      /\ ~(task.adapter = "native" /\ task'.status = "running")
  BY DEF Boots, PauseTask, TaskIInv, TaskTypes, TasksTypeOK, Terminal
<1>3. NoneEngaged /\ NoneEngaged'
  BY <1>1 DEF NoneEngaged, Engaged, EngagedPlaces, Working, Off
<1>4. TaskTypes' /\ InPlace' /\ TurnsCounted'
  BY <1>1, <1>2 DEF TaskIInv, TaskTypes, TasksTypeOK, InPlace, TurnsCounted
<1>5. RowInv'
  BY <1>1, <1>2, <1>3 DEF TaskIInv, TaskTypes, TasksTypeOK, RowInv, OneEngaged, ResumedAlone,
       NothingBefore, LoopRow, DownIsEmpty, StopHolds, Manned,
     NoneEngaged, At, IsTelling, Terminal, Cancelled
<1>6. TellInv'
  BY <1>1, <1>2 DEF TaskIInv, TaskTypes, TasksTypeOK, TellInv, TellsTheRow, OutcomeIsOwed, Owes,
       FrozenIsOver, ReceiptSeesOutcome, Terminal, Off
<1>. QED BY <1>4, <1>5, <1>6 DEF TaskIInv

-----------------------------------------------------------------------------
(* A run that is started *)

LEMMA FreshIsFree ==
  ASSUME \E r \in Attempt : JobFree(r)
  PROVE  FreshAttempt \in Attempt /\ JobFree(FreshAttempt)
BY DEF FreshAttempt

\* A run is started where none may write the row and nobody else is about to.
LEMMA StartKeeps ==
  ASSUME TaskIInv, life = "up", NoneEngaged, NEW n \in 0..StepLimit, StartStoredTask(n), task.used <= n,
         \A q \in Request : resume'[q] # "telling", resume' \in [Request -> {"none", "waking", "telling"}],
         task' \in [status : {"none", "running", "paused"} \cup Terminal, adapter : {"loop", "native"}, used : 0..StepLimit],
         task'.used = task.used, task'.status \notin {"none", "paused"},
         task'.adapter = "loop" => task'.status \in {"running", "cancelled"},
         task' = task \/ (task.status = "none" /\ task'.status = "running" /\ \A r \in Attempt : attempt[r].at = "none"),
         UNCHANGED <<life, log, receipt, pending, scope, waiting, stop, turns, ends>>
  PROVE  TaskIInv'
<1>. DEFINE f == FreshAttempt
<1>1. f \in Attempt /\ attempt[f].at = "none" /\ attempt[f].call = "none"
  BY FreshIsFree DEF StartStoredTask, JobFree, At
<1>2. attempt' = [attempt EXCEPT ![f] = [Off EXCEPT !.at = "start", !.step = n]] /\ entry' = f /\ aborted' = aborted \ {f}
  BY DEF StartStoredTask
<1>. HIDE DEF f
<1>3. attempt \in [Attempt -> AttemptRecord] /\ 0 \in 0..StepLimit
  BY DEF TaskIInv, TaskTypes, TasksTypeOK, AttemptRecord
<1>4. [Off EXCEPT !.at = "start", !.step = n] \in AttemptRecord
  BY DEF Off, AttemptRecord, Places, Working
<1>5. OthersRest(f) /\ attempt'[f].at = "start" /\ attempt'[f].step = n /\ attempt'[f].call = "none"
  BY <1>1, <1>2, <1>3, <1>4 DEF OthersRest, Off
<1>6. TaskTypes'
  BY <1>1, <1>2, <1>5 DEF TaskIInv, TaskTypes, TasksTypeOK, OthersRest, AttemptRecord
<1>7. InPlace'
  BY <1>1, <1>5 DEF TaskIInv, InPlace, OthersRest, LoopPlaces, NativePlaces
<1>8. \A r \in Attempt : (Engaged(r))' <=> r = f
  BY <1>1, <1>5 DEF NoneEngaged, Engaged, OthersRest, EngagedPlaces, Working
<1>9. RowInv'
  <2>1. OneEngaged' /\ ResumedAlone' /\ NothingBefore' /\ LoopRow' /\ DownIsEmpty'
    BY <1>8 DEF OneEngaged, ResumedAlone, NothingBefore, LoopRow, DownIsEmpty, IsTelling
  <2>2. StopHolds' /\ Manned'
    BY <1>1, <1>2, <1>8 DEF TaskIInv, RowInv, NothingBefore, StopHolds, Manned, NoneEngaged, Cancelled
  <2>. QED BY <2>1, <2>2 DEF RowInv
<1>10. TurnsCounted'
  BY <1>1, <1>5, <1>7 DEF TaskIInv, TaskTypes, TasksTypeOK, TurnsCounted, StepFits, OthersRest, RowInv,
       NothingBefore, At
<1>11. TellInv'
  BY <1>1, <1>5 DEF TaskIInv, TellInv, TellsTheRow, OutcomeIsOwed, Owes, FrozenIsOver,
       ReceiptSeesOutcome, OthersRest, Terminal
<1>. QED BY <1>6, <1>7, <1>9, <1>10, <1>11 DEF TaskIInv

LEMMA CreateKeeps ==
  ASSUME TaskIInv, NEW kind \in Adapter, CreateTask(kind)
  PROVE  TaskIInv'
<1>1. /\ life = "up" /\ task.status = "none" /\ task' = [task EXCEPT !.status = "running", !.adapter = kind]
      /\ StartStoredTask(0) /\ UNCHANGED <<life, log, receipt, pending, scope, waiting, resume, stop, turns, ends>>
  BY DEF CreateTask
<1>2. (\A r \in Attempt : attempt[r].at = "none") /\ (\A q \in Request : resume[q] # "telling") /\ task.used = 0
      /\ resume \in [Request -> {"none", "waking", "telling"}]
  BY <1>1 DEF TaskIInv, TaskTypes, RowInv, NothingBefore, At, IsTelling
<1>3. NoneEngaged
  BY <1>2 DEF NoneEngaged, Engaged, EngagedPlaces, Working
<1>4. /\ task' \in [status : {"none", "running", "paused"} \cup Terminal, adapter : {"loop", "native"}, used : 0..StepLimit]
      /\ task'.status = "running" /\ task'.used = task.used
  BY <1>1 DEF TaskIInv, TaskTypes, TasksTypeOK
<1>5. 0 \in 0..StepLimit
  OBVIOUS
<1>. QED
  BY <1>1, <1>2, <1>3, <1>4, <1>5, StartKeeps

LEMMA ResumeStartsKeeps ==
  ASSUME TaskIInv, life # "down", NEW q \in Request, ResumeStarts(q)
  PROVE  TaskIInv'
<1>1. /\ IsTelling(q) /\ resume' = [resume EXCEPT ![q] = "none"]
      /\ UNCHANGED <<life, log, receipt, pending, scope, waiting, stop, turns, ends>>
  BY DEF ResumeStarts, IsTelling
<1>2. resume' \in [Request -> {"none", "waking", "telling"}]
  BY <1>1 DEF TaskIInv, TaskTypes
<1>3. CASE life = "closing"
  <2>1. /\ UNCHANGED <<attempt, entry, aborted>>
        /\ task' \in [status : {"none", "running", "paused"} \cup Terminal, adapter : {"loop", "native"}, used : 0..StepLimit]
        /\ task'.adapter = task.adapter /\ task'.used = task.used
        /\ task'.status = IF task.status \in Terminal THEN task.status ELSE "cancelled"
    BY <1>3 DEF ResumeStarts, FinishTask, TaskIInv, TaskTypes, TasksTypeOK, Terminal
  <2>2. \A p \in Request : (IsTelling(p))' => IsTelling(p)
    BY <1>1 DEF IsTelling, TaskIInv, TaskTypes
  <2>3. TaskTypes' /\ InPlace' /\ TurnsCounted'
    BY <1>1, <1>2, <2>1 DEF TaskIInv, TaskTypes, TasksTypeOK, InPlace, TurnsCounted
  <2>4. RowInv'
    BY <1>1, <1>3, <2>1, <2>2 DEF TaskIInv, RowInv, OneEngaged, ResumedAlone, NothingBefore, LoopRow,
         DownIsEmpty, StopHolds, Manned,
       NoneEngaged, At, Engaged, Cancelled, Terminal
  <2>5. TellInv'
    <3>1. \A r \in Attempt : attempt[r].call # "none" => attempt[r].call \in Terminal
      BY DEF TaskIInv, TaskTypes, TasksTypeOK
    <3>. QED
      BY <1>1, <1>3, <2>1, <3>1 DEF TaskIInv, TellInv, TellsTheRow, OutcomeIsOwed, FrozenIsOver,
           ReceiptSeesOutcome, Terminal
  <2>. QED BY <2>3, <2>4, <2>5 DEF TaskIInv
<1>4. CASE life # "closing"
  <2>1. life = "up" /\ StartStoredTask(task.used) /\ task' = task
    BY <1>4 DEF ResumeStarts, TaskIInv, TaskTypes, TasksTypeOK
  <2>2. NoneEngaged /\ task.status # "paused" /\ \A p \in Request : IsTelling(p) => p = q
    BY <1>1, <2>1 DEF TaskIInv, RowInv, ResumedAlone
  <2>3. \A p \in Request : resume'[p] # "telling"
    BY <1>1, <2>2 DEF IsTelling, TaskIInv, TaskTypes
  <2>4. task.status # "none" /\ (task.adapter = "loop" => task.status \in {"running", "cancelled"})
    BY <1>1 DEF TaskIInv, RowInv, NothingBefore, LoopRow
  <2>5. task.used \in 0..StepLimit
        /\ task \in [status : {"none", "running", "paused"} \cup Terminal, adapter : {"loop", "native"}, used : 0..StepLimit]
    BY DEF TaskIInv, TaskTypes, TasksTypeOK
  <2>. QED
    BY <1>1, <1>2, <2>1, <2>2, <2>3, <2>4, <2>5, StartKeeps
<1>. QED BY <1>3, <1>4

-----------------------------------------------------------------------------
(* A run that ends *)

\* What a run that writes no more still does: it asks, tells what it wrote, and leaves.
LEMMA GiveUpKeeps ==
  ASSUME TaskIInv, NEW r \in Attempt, NativeGivesUp(r)
  PROVE  TaskIInv'
<1>1. /\ attempt[r].at = "turn" /\ task.status \notin Terminal
      /\ UNCHANGED <<life, log, receipt, pending, entry, aborted, scope, waiting, resume, stop, turns, ends>>
  BY DEF NativeGivesUp, At
<1>2. OthersRest(r) /\ attempt'[r].at = "over" /\ attempt'[r].call = attempt[r].call
  BY GoIs DEF NativeGivesUp, TaskIInv, Places
<1>3. /\ task' \in [status : {"none", "running", "paused"} \cup Terminal, adapter : {"loop", "native"}, used : 0..StepLimit]
      /\ task'.adapter = task.adapter /\ task'.used = task.used /\ task'.status = "paused"
  BY <1>1 DEF NativeGivesUp, PauseTask, TaskIInv, TaskTypes, TasksTypeOK
<1>4. task.adapter = "native" /\ Engaged(r) /\ task.status # "none"
  BY <1>1 DEF TaskIInv, TaskTypes, TasksTypeOK, RowInv, NothingBefore, InPlace, At, Engaged,
       EngagedPlaces, Working, LoopPlaces
<1>5. NoneEngaged' /\ \A q \in Request : IsTelling(q) => life # "up"
  BY <1>2, <1>4 DEF TaskIInv, RowInv, OneEngaged, ResumedAlone, NoneEngaged, Engaged, EngagedPlaces,
       Working, OthersRest
<1>6. TaskTypes' /\ InPlace' /\ TurnsCounted'
  BY <1>1, <1>2, <1>3, <1>4 DEF TaskIInv, TaskTypes, TasksTypeOK, InPlace, TurnsCounted, OthersRest,
       AttemptRecord, NativePlaces
<1>7. RowInv'
  BY <1>1, <1>2, <1>3, <1>4, <1>5 DEF TaskIInv, RowInv, OneEngaged, ResumedAlone, NothingBefore,
       LoopRow, DownIsEmpty, StopHolds, Manned,
     NoneEngaged, IsTelling, Cancelled, Terminal, Off
<1>8. TellInv'
  BY <1>1, <1>2, <1>3 DEF TaskIInv, TaskTypes, TasksTypeOK, TellInv, TellsTheRow, OutcomeIsOwed,
       FrozenIsOver, ReceiptSeesOutcome, OthersRest, Terminal
<1>. QED BY <1>6, <1>7, <1>8 DEF TaskIInv

\* A place behind the row: a run that is there writes it no more, but for thrown and judge.
LEMMA LeavesKeeps ==
  ASSUME TaskIInv, NEW r \in Attempt, JobAsks(r) \/ Revokes(r)
  PROVE  TaskIInv'
<1>1. /\ attempt[r].at \in {"asking", "over", "thrown"} /\ scope' \in Attempt \cup {"none"}
      /\ UNCHANGED <<life, task, log, receipt, pending, entry, aborted, waiting, resume, stop, turns, ends>>
  BY DEF JobAsks, Revokes, At, TaskIInv, TaskTypes, TasksTypeOK
<1>2. /\ OthersRest(r) /\ attempt'[r].call = attempt[r].call /\ attempt'[r].at \in {"over", "ending", "judge"}
      /\ attempt'[r].at = "judge" <=> attempt[r].at = "thrown"
  BY GoIs DEF JobAsks, Revokes, At, TaskIInv, Places
<1>3. attempt'[r].at \in (IF task.adapter = "loop" THEN LoopPlaces ELSE NativePlaces)
  <2>1. CASE JobAsks(r)
    <3>1. attempt[r].at = "asking" /\ attempt'[r].at = "over"
      BY <2>1, GoIs DEF JobAsks, At, TaskIInv, Places
    <3>. QED BY <3>1 DEF TaskIInv, InPlace, LoopPlaces, NativePlaces
  <2>2. CASE Revokes(r)
    BY <1>1, <1>2, <2>2, GoIs DEF Revokes, At, TaskIInv, Places, NativePlaces
  <2>. QED BY <2>1, <2>2
<1>4. \A s \in Attempt : (Engaged(s))' <=> Engaged(s)
  BY <1>1, <1>2 DEF Engaged, EngagedPlaces, Working, OthersRest
<1>5. TaskTypes' /\ InPlace' /\ TurnsCounted'
  BY <1>1, <1>2, <1>3 DEF TaskIInv, TaskTypes, TasksTypeOK, InPlace, TurnsCounted, StepFits,
       OthersRest, AttemptRecord, NativePlaces, LoopPlaces
<1>6. RowInv'
  BY <1>1, <1>2, <1>4 DEF TaskIInv, RowInv, OneEngaged, ResumedAlone, NothingBefore, LoopRow,
       DownIsEmpty, StopHolds, Manned,
     NoneEngaged, At, IsTelling, Cancelled, Off
<1>7. TellInv'
  BY <1>1, <1>2 DEF TaskIInv, TellInv, TellsTheRow, OutcomeIsOwed, Owes, FrozenIsOver,
       ReceiptSeesOutcome, OthersRest, Terminal
<1>. QED BY <1>5, <1>6, <1>7 DEF TaskIInv

LEMMA JudgesKeeps ==
  ASSUME TaskIInv, NEW r \in Attempt, Judges(r)
  PROVE  TaskIInv'
<1>1. /\ attempt[r].at = "judge" /\ UNCHANGED <<life, log, receipt, pending, entry, aborted, scope, waiting, resume, stop, turns, ends>>
  BY DEF Judges, At
<1>2. task.adapter = "native" /\ Engaged(r) /\ task.status # "none"
  BY <1>1 DEF TaskIInv, TaskTypes, TasksTypeOK, RowInv, NothingBefore, InPlace, At, Engaged,
       EngagedPlaces, Working, LoopPlaces
<1>3. CASE r \in aborted \/ task.status \in Terminal
  <2>1. OthersRest(r) /\ attempt'[r].at = "ending" /\ attempt'[r].call = attempt[r].call /\ task' = task
    BY <1>3, GoIs DEF Judges, TaskIInv, Places
  <2>2. life = "up" => task.status \in Terminal
    BY <1>3 DEF TaskIInv, RowInv, StopHolds, Cancelled, Terminal
  <2>3. \A s \in Attempt : ~(Engaged(s))'
    BY <1>2, <2>1 DEF TaskIInv, RowInv, OneEngaged, Engaged, EngagedPlaces, Working, OthersRest
  <2>4. TaskTypes' /\ InPlace' /\ TurnsCounted'
    BY <1>1, <1>2, <2>1 DEF TaskIInv, TaskTypes, TasksTypeOK, InPlace, TurnsCounted, OthersRest,
         AttemptRecord, NativePlaces
  <2>5. RowInv'
    BY <1>1, <1>2, <2>1, <2>2, <2>3 DEF TaskIInv, RowInv, OneEngaged, ResumedAlone, NothingBefore,
         LoopRow, DownIsEmpty, StopHolds, Manned,
       NoneEngaged, IsTelling, Cancelled, Terminal, Off
  <2>6. TellInv'
    BY <1>1, <2>1 DEF TaskIInv, TellInv, TellsTheRow, OutcomeIsOwed, Owes, FrozenIsOver,
         ReceiptSeesOutcome, OthersRest
  <2>. QED BY <2>4, <2>5, <2>6 DEF TaskIInv
<1>4. CASE ~(r \in aborted \/ task.status \in Terminal)
  <2>1. PICK s \in {"paused", "failed"} :
          task' = [task EXCEPT !.status = s] /\ attempt' = [attempt EXCEPT ![r].at = "tell", ![r].want = s]
    BY <1>4 DEF Judges
  <2>2. OthersRest(r) /\ attempt'[r].at = "tell" /\ attempt'[r].want = s /\ attempt'[r].call = attempt[r].call
    <3>1. attempt \in [Attempt -> AttemptRecord]
      BY DEF TaskIInv, TaskTypes, TasksTypeOK, AttemptRecord
    <3>2. PICK a : a = [attempt[r] EXCEPT !.at = "tell", !.want = s]
      OBVIOUS
    <3>3. attempt' = [attempt EXCEPT ![r] = a]
      BY <2>1, <3>1, <3>2
    <3>4. a \in AttemptRecord /\ a.at = "tell" /\ a.want = s /\ a.call = attempt[r].call
      BY <3>1, <3>2 DEF AttemptRecord, Places, Terminal
    <3>. QED BY <3>1, <3>3, <3>4 DEF OthersRest
  <2>3. /\ task' \in [status : {"none", "running", "paused"} \cup Terminal, adapter : {"loop", "native"}, used : 0..StepLimit]
        /\ task'.adapter = task.adapter /\ task'.used = task.used /\ task'.status = s
    BY <2>1 DEF TaskIInv, TaskTypes, TasksTypeOK, Terminal
  <2>4. \A t \in Attempt : ~(Engaged(t))'
    BY <1>2, <2>2 DEF TaskIInv, RowInv, OneEngaged, Engaged, EngagedPlaces, Working, OthersRest
  <2>5. TaskTypes' /\ InPlace' /\ TurnsCounted'
    BY <1>1, <1>2, <2>2, <2>3 DEF TaskIInv, TaskTypes, TasksTypeOK, InPlace, TurnsCounted, OthersRest,
         AttemptRecord, NativePlaces
  <2>6. \A q \in Request : IsTelling(q) => life # "up"
    BY <1>2 DEF TaskIInv, RowInv, ResumedAlone, NoneEngaged
  <2>7. stop.by = "nobody" /\ (life = "up" => aborted = {})
    BY <1>4 DEF TaskIInv, RowInv, StopHolds, Cancelled, Terminal
  <2>8. RowInv'
    BY <1>1, <1>2, <2>2, <2>3, <2>4, <2>6, <2>7 DEF TaskIInv, RowInv, OneEngaged, ResumedAlone,
         NothingBefore, LoopRow, DownIsEmpty, StopHolds, Manned,
       NoneEngaged, IsTelling, Cancelled, Terminal, Off
  <2>9. \A t \in Attempt : attempt[t].call = "none"
    BY <1>4 DEF TaskIInv, TaskTypes, TasksTypeOK, TellInv, TellsTheRow
  <2>10. receipt = Unfrozen
    BY <1>4 DEF TaskIInv, TellInv, FrozenIsOver
  <2>11. TellsTheRow'
    BY <1>4, <2>2, <2>3, <2>9 DEF TaskIInv, TellInv, TellsTheRow, OthersRest, Terminal
  <2>12. OutcomeIsOwed'
    BY <2>2, <2>3 DEF OutcomeIsOwed, Owes, Terminal
  <2>13. TellInv'
    BY <1>1, <2>10, <2>11, <2>12 DEF TellInv, FrozenIsOver, ReceiptSeesOutcome
  <2>. QED BY <2>5, <2>8, <2>13 DEF TaskIInv
<1>. QED BY <1>3, <1>4

LEMMA TellsKeeps ==
  ASSUME TaskIInv, NEW r \in Attempt, JobTells(r)
  PROVE  TaskIInv'
<1>1. /\ attempt[r].at = "tell" /\ attempt[r].want \in {"paused", "failed"} /\ (attempt[r].want = "failed" => task.status = "failed")
      /\ log' = log \cup ({attempt[r].want} \cap Terminal)
      /\ UNCHANGED <<life, task, pending, entry, aborted, scope, waiting, resume, stop, turns, ends>>
  BY DEF JobTells, At, Tell, TaskIInv, TellInv, TellsTheRow
<1>2. OthersRest(r) /\ attempt'[r].at = "ending" /\ attempt'[r].call = attempt[r].call
  BY GoIs DEF JobTells, TaskIInv, Places
<1>3. receipt' = receipt \/ (attempt[r].want = "failed" /\ receipt' = log')
  BY DEF JobTells, FreezeTaskSummary
<1>4. \A s \in Attempt : (Engaged(s))' <=> Engaged(s)
  BY <1>1, <1>2 DEF Engaged, EngagedPlaces, Working, OthersRest
<1>5. task.adapter = "native" /\ task.status # "none"
  BY <1>1 DEF TaskIInv, TaskTypes, TasksTypeOK, RowInv, NothingBefore, InPlace, At, LoopPlaces
<1>6. TaskTypes' /\ InPlace' /\ TurnsCounted'
  BY <1>1, <1>2, <1>3, <1>5 DEF TaskIInv, TaskTypes, TasksTypeOK, InPlace, TurnsCounted, OthersRest,
       AttemptRecord, NativePlaces
<1>7. RowInv'
  BY <1>1, <1>2, <1>4, <1>5 DEF TaskIInv, RowInv, OneEngaged, ResumedAlone, NothingBefore, LoopRow,
       DownIsEmpty, StopHolds, Manned,
     NoneEngaged, IsTelling, Cancelled, Off
<1>8. FrozenIsOver' /\ ReceiptSeesOutcome' /\ TellsTheRow'
  BY <1>1, <1>2, <1>3, ZenonT(30) DEF TaskIInv, TellInv, TellsTheRow, FrozenIsOver, ReceiptSeesOutcome, OthersRest,
       Terminal
<1>9. OutcomeIsOwed'
  BY <1>1, <1>2 DEF TaskIInv, TellInv, OutcomeIsOwed, Owes, OthersRest, Terminal
<1>. QED BY <1>6, <1>7, <1>8, <1>9 DEF TaskIInv, TellInv

\* done: the row, then the event and the receipt.
LEMMA DoneKeeps ==
  ASSUME TaskIInv, NEW r \in Attempt, NativeDone(r)
  PROVE  TaskIInv'
<1>1. PICK s \in Terminal : task' = FinishTask(task, s) /\ attempt' = [attempt EXCEPT ![r].call = s]
  BY DEF NativeDone
<1>2. /\ attempt[r].at = "turn" /\ attempt[r].call = "none" /\ task.status = "running"
      /\ UNCHANGED <<life, log, receipt, pending, entry, aborted, scope, waiting, resume, stop, turns, ends>>
  BY DEF NativeDone, MayCall, At
<1>3. OthersRest(r) /\ attempt'[r].at = attempt[r].at /\ attempt'[r].call = s /\ attempt'[r].want = attempt[r].want
  BY <1>1 DEF TaskIInv, TaskTypes, TasksTypeOK, OthersRest, AttemptRecord
<1>4. /\ task' \in [status : {"none", "running", "paused"} \cup Terminal, adapter : {"loop", "native"}, used : 0..StepLimit]
      /\ task'.adapter = task.adapter /\ task'.used = task.used /\ task'.status = s
  BY <1>1, <1>2 DEF FinishTask, TaskIInv, TaskTypes, TasksTypeOK, Terminal
<1>5. \A t \in Attempt : attempt'[t].at = attempt[t].at
  BY <1>3 DEF OthersRest
<1>6. \A t \in Attempt : (Engaged(t))' <=> Engaged(t)
  BY <1>5 DEF Engaged
<1>7. task.adapter = "native" /\ Engaged(r)
  BY <1>2 DEF TaskIInv, TaskTypes, TasksTypeOK, InPlace, LoopPlaces, Engaged, EngagedPlaces, Working
<1>8. TaskTypes' /\ InPlace' /\ TurnsCounted'
  BY <1>2, <1>3, <1>4, <1>5, <1>7 DEF TaskIInv, TaskTypes, TasksTypeOK, InPlace, TurnsCounted,
       OthersRest, AttemptRecord
<1>9. stop.by = "nobody" /\ (life = "up" => aborted = {}) /\ (life = "up" => \A q \in Request : ~IsTelling(q))
  BY <1>2, <1>7 DEF TaskIInv, RowInv, StopHolds, Cancelled, ResumedAlone, NoneEngaged
<1>10. RowInv'
  BY <1>2, <1>4, <1>6, <1>7, <1>9, <1>5 DEF TaskIInv, RowInv, OneEngaged, ResumedAlone, NothingBefore,
       LoopRow, DownIsEmpty, StopHolds, Manned,
     NoneEngaged, IsTelling, Cancelled, Off, Terminal, Engaged, EngagedPlaces, Working
<1>11. (\A t \in Attempt : attempt[t].call = "none") /\ receipt = Unfrozen
  BY <1>2 DEF TaskIInv, TaskTypes, TasksTypeOK, TellInv, TellsTheRow, FrozenIsOver, Terminal
<1>12. \A t \in Attempt : attempt'[t].want = attempt[t].want
  BY <1>3 DEF OthersRest
<1>13. \A t \in Attempt : ~(attempt[t].at = "tell" /\ attempt[t].want = "failed")
  BY <1>2 DEF TaskIInv, TellInv, TellsTheRow
<1>14. TellsTheRow'
  BY <1>3, <1>4, <1>5, <1>11, <1>12, <1>13 DEF TaskIInv, TellInv, TellsTheRow, OthersRest
<1>15. OutcomeIsOwed'
  BY <1>3, <1>4 DEF OutcomeIsOwed, Owes
<1>. QED BY <1>2, <1>8, <1>10, <1>11, <1>14, <1>15 DEF TaskIInv, TellInv, FrozenIsOver,
              ReceiptSeesOutcome

LEMMA DoneToldKeeps ==
  ASSUME TaskIInv, NEW r \in Attempt, NativeDoneTold(r)
  PROVE  TaskIInv'
<1>1. /\ attempt[r].call \in Terminal /\ task.status = attempt[r].call
      /\ log' = log \cup {attempt[r].call}
      /\ scope' \in Attempt \cup {"none"} /\ attempt' = [attempt EXCEPT ![r].call = "none"]
      /\ UNCHANGED <<life, task, pending, entry, aborted, waiting, resume, stop, turns, ends>>
  BY DEF NativeDoneTold, Tell, TaskIInv, TaskTypes, TasksTypeOK, TellInv, TellsTheRow, Terminal
<1>2. OthersRest(r) /\ attempt'[r].at = attempt[r].at /\ attempt'[r].call = "none" /\ attempt'[r].want = attempt[r].want
      /\ attempt'[r].step = attempt[r].step
  BY <1>1 DEF TaskIInv, TaskTypes, TasksTypeOK, OthersRest, AttemptRecord
<1>3. receipt' = receipt \/ receipt' = log'
  BY DEF NativeDoneTold, FreezeTaskSummary
<1>4. \A t \in Attempt : attempt'[t].at = attempt[t].at /\ attempt'[t].want = attempt[t].want /\ attempt'[t].step = attempt[t].step
  BY <1>2 DEF OthersRest
<1>5. \A t \in Attempt : (Engaged(t))' <=> Engaged(t)
  BY <1>4 DEF Engaged
<1>6. TaskTypes' /\ InPlace' /\ TurnsCounted'
  BY <1>1, <1>2, <1>3, <1>4 DEF TaskIInv, TaskTypes, TasksTypeOK, InPlace, TurnsCounted, StepFits,
       OthersRest, AttemptRecord
<1>7. RowInv'
  BY <1>1, <1>4, <1>5 DEF TaskIInv, RowInv, OneEngaged, ResumedAlone, NothingBefore, LoopRow,
       DownIsEmpty, StopHolds, Manned,
     NoneEngaged, At, IsTelling, Cancelled, Off, Terminal
<1>8. TellsTheRow'
  BY <1>1, <1>2, <1>4 DEF TaskIInv, TellInv, TellsTheRow, OthersRest
<1>. QED BY <1>1, <1>3, <1>6, <1>7, <1>8 DEF TaskIInv, TellInv, OutcomeIsOwed, FrozenIsOver,
              ReceiptSeesOutcome

\* The last finally: the run is forgotten, what it has still to tell is not.
LEMMA EndsKeeps ==
  ASSUME TaskIInv, NEW r \in Attempt, JobEnds(r)
  PROVE  TaskIInv'
<1>1. /\ attempt[r].at \in {"ending", "over"} /\ aborted' = aborted \ {r} /\ entry' = "none"
      /\ UNCHANGED <<life, task, log, receipt, pending, scope, waiting, resume, turns, ends>>
  BY DEF JobEnds, At
<1>2. attempt' = [attempt EXCEPT ![r] = [Off EXCEPT !.call = attempt[r].call]] /\ attempt \in [Attempt -> AttemptRecord]
      /\ 0 \in 0..StepLimit
  BY DEF JobEnds, TaskIInv, TaskTypes, TasksTypeOK, AttemptRecord
<1>3. [Off EXCEPT !.call = attempt[r].call] \in AttemptRecord
  BY <1>2 DEF Off, AttemptRecord, Places
<1>4. OthersRest(r) /\ attempt'[r].at = "none" /\ attempt'[r].call = attempt[r].call
  BY <1>2, <1>3 DEF OthersRest, Off
<1>5. stop' \in StopRecord /\ stop'.by = stop.by /\ stop'.told = stop.told /\ stop'.tear = stop.tear
  BY DEF JobEnds, TaskIInv, TaskTypes, StopRecord
<1>6. \A t \in Attempt : (Engaged(t))' <=> Engaged(t)
  BY <1>1, <1>4 DEF Engaged, EngagedPlaces, Working, OthersRest
<1>7. TaskTypes' /\ InPlace' /\ TurnsCounted'
  BY <1>1, <1>4, <1>5 DEF TaskIInv, TaskTypes, TasksTypeOK, InPlace, TurnsCounted, StepFits,
       OthersRest, AttemptRecord, NativePlaces, LoopPlaces
<1>8. life # "down"
  BY <1>1 DEF TaskIInv, RowInv, DownIsEmpty, Off
<1>9. RowInv'
  BY <1>1, <1>4, <1>5, <1>6, <1>8 DEF TaskIInv, RowInv, OneEngaged, ResumedAlone, NothingBefore,
       LoopRow, DownIsEmpty, StopHolds, Manned,
     NoneEngaged, At, IsTelling, Cancelled, OthersRest
<1>10. TellInv'
  BY <1>1, <1>4, <1>5 DEF TaskIInv, TellInv, TellsTheRow, OutcomeIsOwed, Owes, FrozenIsOver,
       ReceiptSeesOutcome, OthersRest
<1>. QED BY <1>7, <1>9, <1>10 DEF TaskIInv

-----------------------------------------------------------------------------
(* The theorems *)

LEMMA TasksStart == TaskInit => TaskIInv
<1>. SUFFICES ASSUME TaskInit PROVE TaskIInv
  OBVIOUS
<1>1. TaskTypes /\ InPlace
  BY DEF TaskInit, TaskTypes, TasksTypeOK, InPlace, Off, Places, LoopPlaces, StopRecord, Unfrozen
<1>2. \A r \in Attempt : attempt[r] = Off /\ ~Engaged(r)
  BY DEF TaskInit, Off, Engaged, EngagedPlaces, Working
<1>3. RowInv
  BY <1>2 DEF TaskInit, RowInv, OneEngaged, ResumedAlone, NothingBefore, LoopRow, DownIsEmpty,
       StopHolds, Manned,
     NoneEngaged, At, IsTelling, Cancelled, Off
<1>4. TurnsCounted /\ TellInv
  BY <1>2 DEF TaskInit, TurnsCounted, StepFits, TellInv, TellsTheRow, OutcomeIsOwed, FrozenIsOver,
       ReceiptSeesOutcome, Off, Terminal
<1>. QED BY <1>1, <1>3, <1>4 DEF TaskIInv

LEMMA TasksStep == TaskIInv /\ [TasksNext]_taskVars => TaskIInv'
<1>. SUFFICES ASSUME TaskIInv, [TasksNext]_taskVars PROVE TaskIInv'
  OBVIOUS
<1>1. ASSUME NEW k \in Adapter, CreateTask(k) PROVE TaskIInv'
  BY <1>1, CreateKeeps
<1>2. CASE PostMessage \/ Decides \/ UNCHANGED taskVars
  BY <1>2, PostKeeps
<1>3. CASE JobCloses \/ JobDies \/ Boots
  BY <1>3, ClosesKeeps, DiesKeeps, BootsKeeps
<1>4. ASSUME NEW q \in Request, ResumeBegins(q) PROVE TaskIInv'
  BY <1>4, ResumeBeginsKeeps
<1>5. ASSUME NEW by \in {"operator", "system"}, StopBegins(by) PROVE TaskIInv'
  BY <1>5, StopBeginsKeeps
<1>6. ASSUME Alive, NEW q \in Request, ResumeMarks(q) \/ ResumeStarts(q) PROVE TaskIInv'
  BY <1>6, ResumeMarksKeeps, ResumeStartsKeeps DEF Alive
<1>7. CASE StopRevokes \/ TearsDown \/ StopTells
  BY <1>7, TeardownKeeps
<1>8. ASSUME NEW r \in Attempt, RunStep(r) \/ Chance(r) PROVE TaskIInv'
  BY <1>8, LoopMoves, NativeMoves, MovesKeeps, SettlesKeeps, GiveUpKeeps, LeavesKeeps, JudgesKeeps,
       TellsKeeps, DoneKeeps,
     DoneToldKeeps, EndsKeeps DEF RunStep, Chance
<1>. QED BY <1>1, <1>2, <1>3, <1>4, <1>5, <1>6, <1>7, <1>8 DEF TasksNext

LEMMA TasksInductive == TasksSpec => []TaskIInv
BY TasksStart, TasksStep, PTL DEF TasksSpec

LEMMA IsRunsSafe == TaskIInv => RunsSafe
<1>. SUFFICES ASSUME TaskIInv PROVE RunsSafe
  OBVIOUS
<1>1. OneActs
  <2>. DEFINE W == {r \in Attempt : attempt[r].at \in Working}
  <2>1. \A r, s \in W : r = s
    BY DEF TaskIInv, RowInv, OneEngaged, Engaged, EngagedPlaces
  <2>2. CASE W = {}
    BY <2>2, FS_EmptySet DEF OneActs
  <2>3. ASSUME NEW r \in W PROVE OneActs
    <3>1. W = {r}
      BY <2>1
    <3>2. Cardinality(W) = 1
      BY <3>1, FS_Singleton
    <3>. QED BY <3>2 DEF OneActs
  <2>. QED BY <2>2, <2>3
<1>2. TurnsWithinLimit
  BY DEF TaskIInv, TaskTypes, TasksTypeOK, TurnsCounted, TurnsWithinLimit
<1>3. EventOfOutcome
  <2>. SUFFICES ASSUME life = "up", ends = 0, stop.by = "nobody" \/ stop.told, \A r \in Attempt : JobFree(r),
                       task.status \in Terminal
                PROVE  task.status \in log
    BY DEF EventOfOutcome
  <2>1. \A r \in Attempt : ~Owes(r)
    BY DEF JobFree, At, Owes, Terminal
  <2>. QED BY <2>1 DEF TaskIInv, TellInv, OutcomeIsOwed
<1>4. RunningHasRun
  BY DEF TaskIInv, RowInv, Manned, NoneEngaged, Engaged, EngagedPlaces, Working, IsTelling,
       RunningHasRun
<1>. QED BY <1>1, <1>2, <1>3, <1>4 DEF RunsSafe, TaskIInv, TaskTypes, TellInv

\* However runs, resumes, messages, stops and ends of the daemon interleave: one run works on the
\* task, its model turns stay within the task's limit over all resumes, a row that says running has
\* somebody to work on it, an outcome is in the audit log once all is quiet, and a receipt was
\* computed from a log that holds the outcome (server.ts, startStoredTask to finishTask).
THEOREM RunsAreSafe == TasksSpec => []RunsSafe
BY TasksInductive, IsRunsSafe, PTL

\* A run comes to act from a model's answer or from a hold, and not when it knows of a stop.
LEMMA ComesToAct ==
  ASSUME TaskIInv, TasksNext, NEW s \in Attempt, attempt'[s].at = "act", attempt[s].at # "act"
  PROVE  task.status = "running"
<1>. USE DEF TaskIInv
<1>1. ASSUME NEW r \in Attempt, RunStep(r) \/ Chance(r) PROVE task.status = "running"
  <2>1. ASSUME OthersRest(r) PROVE s = r
    BY <2>1 DEF OthersRest
  <2>2. ASSUME NEW place \in Places, Go(r, place) PROVE s = r /\ place = "act"
    BY <2>1, <2>2, GoIs
  <2>3. CASE LoopThinks(r) \/ LoopHeld(r)
    <3>1. task.adapter = "loop" /\ Engaged(r) /\ OthersRest(r)
      <4>1. attempt[r].at \in {"think", "held"}
        BY <2>3 DEF LoopThinks, LoopHeld, At
      <4>2. Moves(r)
        BY <2>3, LoopMoves
      <4>. QED BY <4>1, <4>2 DEF TaskTypes, TasksTypeOK, InPlace, NativePlaces, Moves
    <3>2. s = r
      BY <2>1, <3>1
    <3>3. ~Cancelled
      <4>. SUFFICES ASSUME Cancelled PROVE FALSE
        OBVIOUS
      <4>1. \E want \in {"paused"} \cup Terminal : Finishing(r, want, attempt[r].step)
        BY <2>3 DEF LoopThinks, LoopHeld, Terminal
      <4>2. attempt[r].step \in 0..StepLimit
        BY DEF TaskTypes, TasksTypeOK
      <4>. QED BY <3>2, <4>1, <4>2, FinishingIs
    <3>. QED BY <3>1, <3>3 DEF RowInv, LoopRow, NoneEngaged, Cancelled
  <2>4. CASE LoopTop(r) \/ LoopReplies(r) \/ LoopStalls(r) \/ LoopThrows(r) \/ LoopMeetsHuman(r) \/ LoopActs(r)
             \/ LoopNeedsPerson(r)
    <3>1. OthersRest(r)
      BY <2>4, LoopMoves DEF Moves
    <3>2. s = r
      BY <2>1, <3>1
    <3>3. ASSUME NEW want \in {"paused"} \cup Terminal, NEW n, Finishing(r, want, n) PROVE FALSE
      BY <3>2, <3>3 DEF Finishing, TaskTypes, TasksTypeOK
    <3>4. "cancelled" \in Terminal /\ "failed" \in Terminal
      BY DEF Terminal
    <3>5. CASE LoopTop(r)
      BY <2>2, <3>2, <3>3, <3>4, <3>5 DEF LoopTop, Places, Working
    <3>6. CASE LoopReplies(r)
      BY <3>2, <3>3, <3>4, <3>6 DEF LoopReplies, TaskTypes, TasksTypeOK
    <3>7. CASE LoopStalls(r) \/ LoopThrows(r)
      BY <3>3, <3>4, <3>7 DEF LoopStalls, LoopThrows
    <3>8. CASE LoopMeetsHuman(r) \/ LoopNeedsPerson(r)
      BY <2>2, <3>8 DEF LoopMeetsHuman, LoopNeedsPerson, Places, Working
    <3>9. CASE LoopActs(r)
      BY <3>2, <3>9 DEF LoopActs, At
    <3>. QED BY <2>4, <3>5, <3>6, <3>7, <3>8, <3>9
  <2>5. CASE RunStoredTask(r) \/ NativeBegins(r) \/ NativeReads(r) \/ NativeNeedsPerson(r)
             \/ NativeMeetsPerson(r) \/ NativeTurnEnds(r) \/ NativeAwaits(r)
    <3>1. OthersRest(r)
      BY <2>5, NativeMoves DEF Moves
    <3>2. s = r
      BY <2>1, <3>1
    <3>3. CASE RunStoredTask(r) \/ NativeBegins(r) \/ NativeTurnEnds(r)
      BY <2>2, <3>3 DEF RunStoredTask, NativeBegins, NativeTurnEnds, Places, Working
    <3>4. CASE NativeReads(r) \/ NativeNeedsPerson(r) \/ NativeMeetsPerson(r)
      BY <3>2, <3>4 DEF NativeReads, NativeNeedsPerson, NativeMeetsPerson, MayCall, At, TaskTypes,
           TasksTypeOK
    <3>5. CASE NativeAwaits(r)
      BY <2>2, <3>2, <3>5 DEF NativeAwaits, At, TaskTypes, TasksTypeOK, Places, Working
    <3>. QED BY <2>5, <3>3, <3>4, <3>5
  <2>6. CASE JobSettles(r) \/ JobAsks(r) \/ NativeGivesUp(r) \/ Revokes(r) \/ JobTells(r)
    BY <2>2, <2>6 DEF JobSettles, JobAsks, NativeGivesUp, Revokes, JobTells, Places, Working
  <2>7. CASE Judges(r)
    BY <2>2, <2>7 DEF Judges, TaskTypes, TasksTypeOK, Places, Working
  <2>8. CASE NativeDone(r) \/ NativeDoneTold(r)
    BY <2>8 DEF NativeDone, NativeDoneTold, TaskTypes, TasksTypeOK
  <2>9. CASE JobEnds(r)
    BY <2>9 DEF JobEnds, Off, TaskTypes, TasksTypeOK
  <2>. QED BY <1>1, <2>3, <2>4, <2>5, <2>6, <2>7, <2>8, <2>9 DEF RunStep, Chance
<1>2. ASSUME NEW n, StartStoredTask(n) PROVE FALSE
  BY <1>2, FreshIsFree DEF StartStoredTask, Off, TaskTypes, TasksTypeOK
<1>3. ASSUME NEW k \in Adapter, CreateTask(k) PROVE FALSE
  BY <1>2, <1>3 DEF CreateTask
<1>4. ASSUME NEW q \in Request, ResumeBegins(q) \/ ResumeMarks(q) \/ ResumeStarts(q) PROVE FALSE
  BY <1>2, <1>4 DEF ResumeBegins, ResumeMarks, ResumeStarts
<1>5. CASE JobDies
  BY <1>5 DEF JobDies, Off
<1>. QED BY <1>1, <1>3, <1>4, <1>5 DEF TasksNext, PostMessage, Decides, JobCloses, Boots, StopBegins,
              StopRevokes, TearsDown, StopTells

\* No tool call of the loop goes out unless the row says running at that moment: a stop that came
\* during the model's answer or a hold is seen first, in whichever run (agent-loop.ts).
THEOREM NothingActsAfterStop == TasksSpec => NothingAfterStop
<1>1. TaskIInv /\ [TasksNext]_taskVars =>
        [\A r \in Attempt : attempt'[r].at = "act" /\ attempt[r].at # "act" => task.status = "running"]_taskVars
  BY ComesToAct
<1>. QED BY <1>1, TasksInductive, PTL DEF TasksSpec, NothingAfterStop

\* A row that has ended keeps its outcome, whatever a run, a stop, a close, a start of the daemon or
\* a late tool call writes afterwards (store.ts, finishTask and pauseTask).
THEOREM OutcomeIsKept == TasksSpec => OutcomeStands
<1>1. ASSUME TaskIInv, TasksNext, task.status \in Terminal PROVE task'.status = task.status
  <2>. USE DEF TaskIInv, TaskTypes, TasksTypeOK, Terminal
  <2>1. ASSUME NEW r \in Attempt, RunStep(r) \/ Chance(r) PROVE task'.status = task.status
    <3>1. CASE Moves(r)
      BY <3>1 DEF Moves
    <3>2. CASE JobSettles(r)
      BY <1>1, <3>2 DEF JobSettles, PauseTask, FinishTask
    <3>3. CASE NativeGivesUp(r) \/ Judges(r) \/ NativeDone(r)
      BY <1>1, <3>3 DEF NativeGivesUp, Judges, NativeDone, MayCall
    <3>4. CASE JobAsks(r) \/ Revokes(r) \/ JobTells(r) \/ JobEnds(r) \/ NativeDoneTold(r)
      BY <3>4 DEF JobAsks, Revokes, JobTells, JobEnds, NativeDoneTold
    <3>. QED BY <1>1, <2>1, <3>1, <3>2, <3>3, <3>4, LoopMoves, NativeMoves DEF RunStep, Chance
  <2>2. ASSUME NEW k \in Adapter, CreateTask(k) PROVE FALSE
    BY <1>1, <2>2 DEF CreateTask
  <2>3. ASSUME NEW q \in Request, ResumeBegins(q) \/ ResumeMarks(q) \/ ResumeStarts(q) PROVE task'.status = task.status
    BY <1>1, <2>3 DEF ResumeBegins, ResumeMarks, ResumeStarts, FinishTask
  <2>4. CASE JobCloses \/ JobDies \/ Boots
    BY <1>1, <2>4 DEF JobCloses, JobDies, Boots, FinishTask, PauseTask
  <2>. QED BY <1>1, <2>1, <2>2, <2>3, <2>4 DEF TasksNext, PostMessage, Decides, StopBegins,
                StopRevokes, TearsDown, StopTells
<1>2. TaskIInv /\ [TasksNext]_taskVars => [task.status \in Terminal => task'.status = task.status]_taskVars
  BY <1>1
<1>. QED BY <1>2, TasksInductive, PTL DEF TasksSpec, OutcomeStands

-----------------------------------------------------------------------------
(* Routines *)

USE SchedulerAssumption

\* A run that is under way is of a routine, and its row is of that routine.
RunsHaveRows ==
    \A x \in Run : routineRun[x] # Idle =>
        /\ routineRun[x].at # "idle" /\ routineRun[x].id \in Routine
        /\ routineRun[x].row \in DOMAIN history
        /\ history[routineRun[x].row].id = routineRun[x].id
\* Nothing ran for a routine that was not there.
NewHasNoRow == \A i \in DOMAIN history : routine[history[i].id].is # "new"
\* A firing that ran lies behind the next one of its routine.
FiredIsBehind ==
    \A i \in DOMAIN history :
        LET h == history[i] IN
        h.ran /\ routine[h.id].is = "live" => h.due < routine[h.id].next \/ h.due = 0
\* The tick's rows: one to a routine, of the past, and of the firing the routine waits for.
TodoIsNext ==
    /\ tick.now <= clock
    /\ \A a \in tick.todo :
         /\ a.next <= tick.now
         /\ \A b \in tick.todo : a.id = b.id => a = b
         /\ routine[a.id].is # "new" /\ (routine[a.id].is = "live" => routine[a.id].next = a.next)
\* A firing the tick is still to take has not run.
TodoHasNotRun ==
    \A a \in tick.todo : \A i \in DOMAIN history :
        history[i].ran /\ history[i].id = a.id => history[i].due # a.next \/ history[i].due = 0
\* What a run has counted is still so.
CountedFailures ==
    \A x \in Run : routineRun[x].at = "tired" =>
        routineRun[x].failures <= ConsecutiveFailures(history, routineRun[x].id)

SchedulerIInv ==
    /\ RoutineSafe
    /\ RunsHaveRows /\ NewHasNoRow /\ FiredIsBehind /\ TodoIsNext /\ TodoHasNotRun /\ CountedFailures

-----------------------------------------------------------------------------
\* A set of numbers has a least one: the segments below its members are well founded.
LEMMA LeastOfNat ==
  ASSUME NEW S, S \subseteq Nat, S # {}
  PROVE  \E x \in S : \A y \in S : x <= y
<1>. DEFINE T == {0 .. n : n \in S}
<1>1. IsWellFoundedOn(StrictSubsetOrdering(Nat), FiniteSubsetsOf(Nat))
  BY FS_StrictSubsetOrderingWellFounded
<1>2. T # {} /\ T \subseteq FiniteSubsetsOf(Nat)
  <2>1. ASSUME NEW n \in S PROVE IsFiniteSet(0 .. n) /\ 0 .. n \subseteq Nat
    <3>1. 0 \in Int /\ n \in Int
      OBVIOUS
    <3>2. IsFiniteSet(0 .. n)
      BY <3>1, FS_Interval, Zenon
    <3>. QED
      BY <3>1, <3>2
  <2>2. \A n \in S : 0 .. n \in FiniteSubsetsOf(Nat)
    BY <2>1 DEF FiniteSubsetsOf
  <2>3. ASSUME NEW U \in T PROVE U \in FiniteSubsetsOf(Nat)
    <3>1. PICK n \in S : U = 0 .. n
      OBVIOUS
    <3>. QED
      BY <2>2, <3>1
  <2>4. T # {}
    <3>1. PICK n : n \in S
      OBVIOUS
    <3>2. 0 .. n \in T
      BY <3>1
    <3>. QED
      BY <3>2
  <2>. QED
    BY <2>3, <2>4
<1>. HIDE DEF T
<1>3. \E U \in T : \A V \in T : ~ (<<V, U>> \in StrictSubsetOrdering(Nat))
  BY <1>1, <1>2, WFMin, Zenon
<1>4. PICK x \in S : \A y \in S : ~ (<<0 .. y, 0 .. x>> \in StrictSubsetOrdering(Nat))
  BY <1>3 DEF T
<1>5. ASSUME NEW y \in S, ~ (x <= y) PROVE FALSE
  <2>1. 0 .. y \subseteq 0 .. x /\ x \in 0 .. x /\ x \notin 0 .. y
    BY <1>5
  <2>2. 0 .. y \in SUBSET Nat /\ 0 .. x \in SUBSET Nat
    OBVIOUS
  <2>. QED
    BY <1>4, <2>1, <2>2 DEF StrictSubsetOrdering
<1>. QED
  BY <1>5

\* nextCronRun returns a minute that matches, after the one it was given.
LEMMA NextCronRunIsLater ==
  ASSUME NEW r \in Routine, NEW t \in 0 .. MaxClock
  PROVE  NextCronRun(r, t) \in Matches[r] /\ NextCronRun(r, t) \in Nat /\ NextCronRun(r, t) > t
<1>. DEFINE S == {n \in t + 1 .. t + Horizon : n \in Matches[r]}
<1>1. S \subseteq Nat /\ S # {}
  OBVIOUS
<1>2. \E x \in S : \A y \in S : x <= y
  BY <1>1, LeastOfNat
<1>3. NextCronRun(r, t) \in S
  BY <1>2 DEF NextCronRun, Min
<1>. QED
  BY <1>1, <1>3

\* The failures at the end of a history are finitely many.
LEMMA FailuresFinite ==
  ASSUME NEW h \in Seq(HistoryRow), NEW r
  PROVE  IsFiniteSet(TailFailures(h, r)) /\ ConsecutiveFailures(h, r) \in Nat
<1>1. DOMAIN h = 1 .. Len(h) /\ Len(h) \in Nat
  OBVIOUS
<1>2. IsFiniteSet(DOMAIN h)
  BY <1>1, FS_Interval
<1>3. TailFailures(h, r) \subseteq DOMAIN h
  BY DEF TailFailures
<1>. QED
  BY <1>2, <1>3, FS_Subset, FS_CardinalityType DEF ConsecutiveFailures

\* More of them: more failures in a row.
LEMMA FailuresGrow ==
  ASSUME NEW g \in Seq(HistoryRow), NEW h \in Seq(HistoryRow), NEW r,
         TailFailures(g, r) \subseteq TailFailures(h, r)
  PROVE  ConsecutiveFailures(g, r) <= ConsecutiveFailures(h, r)
BY FailuresFinite, FS_Subset DEF ConsecutiveFailures

\* Nothing runs: that has its types.
LEMMA RestIsTyped ==
  NoTick \in TickState /\ Idle \in RunState /\ [x \in Run |-> Idle] \in [Run -> RunState]
BY DEF NoTick, Idle, TickState, RunState

\* What the types say of each field
LEMMA Fields ==
  ASSUME SchedulerTypeOK
  PROVE  /\ \A r \in Routine : routine[r].is \in {"new", "live", "gone"} /\ routine[r].next \in Nat
         /\ DOMAIN history = 1 .. Len(history) /\ Len(history) \in Nat
         /\ \A i \in DOMAIN history : /\ history[i] \in HistoryRow /\ history[i].id \in Routine
                                      /\ history[i].due \in Nat
         /\ tick.now \in 0 .. MaxClock /\ clock \in 0 .. MaxClock /\ tick.todo \subseteq DueRow
         /\ \A a \in tick.todo : a.id \in Routine /\ a.next \in Nat
         /\ DOMAIN routineRun = Run
         /\ \A x \in Run : routineRun[x] \in RunState /\ routineRun[x].failures \in Nat /\ routineRun[x].row \in Nat
<1>. USE DEF SchedulerTypeOK
<1>1. \A r \in Routine : routine[r].is \in {"new", "live", "gone"} /\ routine[r].next \in Nat
  BY DEF RoutineRow
<1>2. /\ DOMAIN history = 1 .. Len(history) /\ Len(history) \in Nat
      /\ \A i \in DOMAIN history : history[i] \in HistoryRow
  OBVIOUS
<1>3. \A i \in DOMAIN history : history[i].id \in Routine /\ history[i].due \in Nat
  BY <1>2 DEF HistoryRow
<1>4. tick.now \in 0 .. MaxClock /\ tick.todo \subseteq DueRow
  BY DEF TickState
<1>5. \A a \in tick.todo : a.id \in Routine /\ a.next \in Nat
  BY <1>4 DEF DueRow
<1>6. \A x \in Run : routineRun[x] \in RunState /\ routineRun[x].failures \in Nat /\ routineRun[x].row \in Nat
  BY DEF RunState
<1>. QED
  BY <1>1, <1>2, <1>3, <1>4, <1>5, <1>6

\* The first states
LEMMA SchedulerStarts == SchedulerInit => SchedulerIInv
<1>. SUFFICES ASSUME SchedulerInit PROVE SchedulerIInv
  OBVIOUS
<1>. USE DEF SchedulerInit
<1>1. SchedulerTypeOK
  <2>1. routine \in [Routine -> RoutineRow] /\ history \in Seq(HistoryRow)
    BY DEF RoutineRow
  <2>. QED
    BY <2>1, RestIsTyped DEF SchedulerTypeOK
<1>2. SingleFlight /\ FiresOnce /\ RunningRowsRun
  BY DEF SingleFlight, FiresOnce, RunningRowsRun
<1>3. RunsHaveRows /\ NewHasNoRow /\ FiredIsBehind
  BY DEF RunsHaveRows, NewHasNoRow, FiredIsBehind
<1>4. TodoIsNext /\ TodoHasNotRun /\ CountedFailures
  BY DEF TodoIsNext, TodoHasNotRun, CountedFailures, Idle, NoTick
<1>. QED
  BY <1>1, <1>2, <1>3, <1>4 DEF SchedulerIInv, RoutineSafe

-----------------------------------------------------------------------------
(* Steps that leave runs and rows alone *)

LEMMA QuietKeeps ==
  ASSUME SchedulerIInv, SchedulerTypeOK', daemon' = "up" => daemon = "up",
         UNCHANGED <<routine, history, tick, routineRun, inFlight>>, clock' >= clock
  PROVE  SchedulerIInv'
<1>. USE DEF SchedulerIInv, RoutineSafe
<1>1. SingleFlight' /\ FiresOnce' /\ RunningRowsRun'
  BY DEF SingleFlight, FiresOnce, RunningRowsRun
<1>2. RunsHaveRows' /\ NewHasNoRow' /\ FiredIsBehind' /\ TodoHasNotRun' /\ CountedFailures'
  BY DEF RunsHaveRows, NewHasNoRow, FiredIsBehind, TodoHasNotRun, CountedFailures
<1>3. TodoIsNext'
  <2>1. clock \in Nat /\ clock' \in Nat /\ tick.now \in Nat
    BY Fields, SMTT(30) DEF SchedulerTypeOK
  <2>. QED
    BY <2>1 DEF TodoIsNext
<1>. QED
  BY <1>1, <1>2, <1>3

LEMMA QuietSteps ==
  ASSUME SchedulerIInv,
         Passes \/ Listens \/ Closes \/ Drains \/ \E r \in ByCommand : CliCounts(r)
  PROVE  SchedulerIInv'
<1>1. SchedulerTypeOK /\ UNCHANGED <<routine, history, tick, routineRun, inFlight, skipped>>
  BY DEF SchedulerIInv, RoutineSafe, Passes, Listens, Closes, Drains, CliCounts, routineRows, process
<1>2. clock' \in 0 .. MaxClock /\ clock' >= clock /\ manual' \in 0 .. MaxManual
  BY <1>1 DEF SchedulerTypeOK, Passes, Listens, Closes, Drains, CliCounts
<1>3. stops' \in 0 .. MaxStops
  BY <1>1 DEF SchedulerTypeOK, Passes, Listens, Closes, Drains, CliCounts
<1>4. daemon' \in {"down", "listening", "up", "closing"} /\ (daemon' = "up" => daemon = "up")
  BY <1>1 DEF SchedulerTypeOK, Passes, Listens, Closes, Drains, CliCounts
<1>5. draining' \subseteq Run \cup NotDraining /\ adding' \in Routine \cup {"none"}
  BY <1>1 DEF SchedulerTypeOK, Passes, Listens, Closes, Drains, CliCounts, process
<1>6. SchedulerTypeOK'
  BY <1>1, <1>2, <1>3, <1>4, <1>5 DEF SchedulerTypeOK
<1>. QED
  BY <1>1, <1>2, <1>4, <1>6, QuietKeeps

\* The daemon is gone: no run, no tick, and rows that say nothing more of what ran.
LEMMA StoppedKeeps ==
  ASSUME SchedulerIInv, Stopped, UNCHANGED <<clock, routine>>, SchedulerTypeOK',
         \/ UNCHANGED history
         \/ \E a \in tick.todo : history' = Append(history,
               [id |-> a.id, status |-> "running", due |-> a.next, ran |-> FALSE])
  PROVE  SchedulerIInv'
<1>. USE DEF SchedulerIInv, RoutineSafe, Stopped
<1>1. /\ SingleFlight' /\ RunningRowsRun' /\ RunsHaveRows' /\ CountedFailures'
  BY DEF SingleFlight, RunningRowsRun, RunsHaveRows, CountedFailures, Idle
<1>2. TodoIsNext' /\ TodoHasNotRun'
  BY DEF TodoIsNext, TodoHasNotRun, NoTick, SchedulerTypeOK
<1>3. CASE UNCHANGED history
  BY <1>1, <1>2, <1>3 DEF FiresOnce, NewHasNoRow, FiredIsBehind
<1>4. ASSUME NEW a \in tick.todo, history' = Append(history,
               [id |-> a.id, status |-> "running", due |-> a.next, ran |-> FALSE])
      PROVE  FiresOnce' /\ NewHasNoRow' /\ FiredIsBehind'
  <2>1. /\ Len(history) \in Nat /\ DOMAIN history = 1 .. Len(history) /\ DOMAIN history' = 1 .. Len(history) + 1
        /\ \A i \in 1 .. Len(history) : history'[i] = history[i]
        /\ history'[Len(history) + 1] = [id |-> a.id, status |-> "running", due |-> a.next, ran |-> FALSE]
    BY <1>4 DEF SchedulerTypeOK
  <2>2. FiresOnce'
    BY <2>1 DEF FiresOnce
  <2>3. NewHasNoRow'
    BY <2>1 DEF NewHasNoRow, TodoIsNext
  <2>4. FiredIsBehind'
    BY <2>1 DEF FiredIsBehind
  <2>. QED
    BY <2>2, <2>3, <2>4
<1>. QED
  BY <1>1, <1>2, <1>3, <1>4

LEMMA StopSteps ==
  ASSUME SchedulerIInv,
         RoutineCrashes \/ RoutineClosed \/ \E a \in tick.todo : CrashesInExecute(a)
  PROVE  SchedulerIInv'
<1>1. ASSUME RoutineCrashes \/ RoutineClosed PROVE SchedulerIInv'
  <2>1. SchedulerTypeOK'
    BY <1>1, RestIsTyped DEF SchedulerIInv, RoutineSafe, SchedulerTypeOK, RoutineCrashes, RoutineClosed, Stopped, routineRows
  <2>. QED
    BY <1>1, <2>1, StoppedKeeps DEF RoutineCrashes, RoutineClosed, routineRows
<1>2. ASSUME NEW a \in tick.todo, CrashesInExecute(a) PROVE SchedulerIInv'
  <2>1. history' \in Seq(HistoryRow)
    <3>1. [id |-> a.id, status |-> "running", due |-> a.next, ran |-> FALSE] \in HistoryRow
      BY DEF SchedulerIInv, RoutineSafe, SchedulerTypeOK, TickState, DueRow, HistoryRow
    <3>. QED
      BY <1>2, <3>1 DEF SchedulerIInv, RoutineSafe, SchedulerTypeOK, CrashesInExecute
  <2>2. SchedulerTypeOK'
    BY <1>2, <2>1, RestIsTyped DEF SchedulerIInv, RoutineSafe, SchedulerTypeOK, CrashesInExecute, Stopped
  <2>. QED
    BY <1>2, <2>2, StoppedKeeps DEF CrashesInExecute
<1>. QED
  BY <1>1, <1>2

-----------------------------------------------------------------------------
(* Steps on the routines *)

\* A routine that was not there, with a firing to come.
LEMMA InsertKeeps ==
  ASSUME SchedulerIInv, NEW r \in Routine, routine[r].is = "new",
         routine' = [routine EXCEPT ![r] = Inserted(r)],
         adding' \in Routine \cup {"none"},
         UNCHANGED <<clock, daemon, history, skipped, tick, routineRun, inFlight, draining, manual, stops>>
  PROVE  SchedulerIInv'
<1>. USE DEF SchedulerIInv, RoutineSafe
<1>1. Inserted(r) \in RoutineRow /\ Inserted(r).is = "live"
  BY NextCronRunIsLater DEF Inserted, RoutineRow, SchedulerTypeOK
<1>2. SchedulerTypeOK'
  BY <1>1 DEF SchedulerTypeOK
<1>3. SingleFlight' /\ FiresOnce' /\ RunningRowsRun' /\ RunsHaveRows' /\ TodoHasNotRun' /\ CountedFailures'
  BY DEF SingleFlight, FiresOnce, RunningRowsRun, RunsHaveRows, TodoHasNotRun, CountedFailures
<1>4. NewHasNoRow' /\ FiredIsBehind'
  BY <1>1, SMTT(60) DEF NewHasNoRow, FiredIsBehind, SchedulerTypeOK
<1>5. TodoIsNext'
  BY <1>1 DEF TodoIsNext, SchedulerTypeOK
<1>. QED
  BY <1>2, <1>3, <1>4, <1>5

LEMMA InsertSteps ==
  ASSUME SchedulerIInv, CliInserts \/ \E r \in Routine : Create(r)
  PROVE  SchedulerIInv'
<1>1. ASSUME NEW r \in Routine, Create(r) PROVE SchedulerIInv'
  BY <1>1, InsertKeeps DEF Create, process, SchedulerIInv, RoutineSafe, SchedulerTypeOK
<1>2. CASE CliInserts /\ routine[adding].is = "new"
  <2>1. adding \in Routine
    BY <1>2 DEF CliInserts, SchedulerIInv, RoutineSafe, SchedulerTypeOK
  <2>. QED
    BY <1>2, <2>1, InsertKeeps DEF CliInserts, process
<1>3. CASE CliInserts /\ routine[adding].is # "new"
  <2>1. SchedulerTypeOK' /\ UNCHANGED <<clock, daemon, routine, history, tick, routineRun, inFlight>>
    BY <1>3 DEF CliInserts, process, SchedulerIInv, RoutineSafe, SchedulerTypeOK
  <2>. QED
    BY <2>1, QuietKeeps DEF SchedulerIInv, RoutineSafe, SchedulerTypeOK
<1>. QED
  BY <1>1, <1>2, <1>3

\* A routine that goes, or is switched off or on: its next firing stays.
LEMMA SwitchKeeps ==
  ASSUME SchedulerIInv, SchedulerTypeOK',
         \A r \in Routine : /\ routine'[r].next = routine[r].next
                            /\ routine'[r].is = routine[r].is \/ (routine[r].is = "live" /\ routine'[r].is = "gone"),
         UNCHANGED <<clock, daemon, history, tick, inFlight>>,
         \/ UNCHANGED routineRun
         \/ \E x \in Run : routineRun[x].at = "tired" /\ routineRun' = [routineRun EXCEPT ![x].at = "told"]
  PROVE  SchedulerIInv'
<1>. USE DEF SchedulerIInv, RoutineSafe
<1>1. FiresOnce' /\ TodoHasNotRun'
  BY DEF FiresOnce, TodoHasNotRun
<1>2. NewHasNoRow' /\ FiredIsBehind'
  BY Fields, ZenonT(30) DEF NewHasNoRow, FiredIsBehind
<1>3. TodoIsNext'
  BY Fields DEF TodoIsNext
<1>4. \A x \in Run : /\ routineRun'[x].id = routineRun[x].id /\ routineRun'[x].row = routineRun[x].row
                     /\ routineRun'[x].failures = routineRun[x].failures
                     /\ \/ routineRun'[x] = routineRun[x]
                        \/ routineRun[x].at = "tired" /\ routineRun'[x].at = "told"
  <2>1. DOMAIN routineRun = Run /\ \A x \in Run : routineRun[x] \in RunState
    BY Fields
  <2>2. ASSUME NEW y \in Run, routineRun[y].at = "tired", routineRun' = [routineRun EXCEPT ![y].at = "told"],
               NEW x \in Run
        PROVE  /\ routineRun'[x].id = routineRun[x].id /\ routineRun'[x].row = routineRun[x].row
               /\ routineRun'[x].failures = routineRun[x].failures
               /\ \/ routineRun'[x] = routineRun[x]
                  \/ routineRun[x].at = "tired" /\ routineRun'[x].at = "told"
    <3>1. routineRun'[x] = IF x = y THEN [routineRun[x] EXCEPT !.at = "told"] ELSE routineRun[x]
      BY <2>1, <2>2, Zenon
    <3>2. routineRun[x] \in RunState
      BY <2>1
    <3>. HIDE DEF SchedulerIInv, RoutineSafe
    <3>. QED
      BY <2>2, <3>1, <3>2, SMT DEF RunState
  <2>. QED
    BY <2>2
<1>5. SingleFlight' /\ RunningRowsRun' /\ RunsHaveRows' /\ CountedFailures'
  BY <1>4 DEF SingleFlight, RunningRowsRun, RunsHaveRows, CountedFailures, Idle
<1>. QED
  BY <1>1, <1>2, <1>3, <1>5

LEMMA SwitchSteps ==
  ASSUME SchedulerIInv, (\E r \in Routine : RemoveRoutine(r)) \/ (\E x \in Run : Fatigue(x))
  PROVE  SchedulerIInv'
<1>. USE DEF SchedulerIInv, RoutineSafe
<1>1. ASSUME NEW r \in Routine, RemoveRoutine(r) PROVE SchedulerIInv'
  <2>1. /\ SchedulerTypeOK' /\ UNCHANGED <<clock, daemon, history, tick, inFlight, routineRun>>
        /\ \A q \in Routine : /\ routine'[q].next = routine[q].next
                              /\ routine'[q].is = routine[q].is \/ (routine[q].is = "live" /\ routine'[q].is = "gone")
    BY <1>1, ZenonT(30) DEF RemoveRoutine, process, RoutineRow, SchedulerTypeOK
  <2>. QED
    BY <2>1, SwitchKeeps
<1>2. ASSUME NEW x \in Run, Fatigue(x) PROVE SchedulerIInv'
  <2>1. /\ routine' \in [Routine -> RoutineRow]
        /\ \A q \in Routine : routine'[q].next = routine[q].next /\ routine'[q].is = routine[q].is
    <3>1. routineRun[x].id \in Routine
      BY <1>2 DEF Fatigue, RunsHaveRows, Idle
    <3>2. CASE routine' = routine
      BY <3>2 DEF SchedulerTypeOK
    <3>3. CASE routine' = [routine EXCEPT ![routineRun[x].id].enabled = FALSE]
      <4>0. ASSUME NEW e \in RoutineRow PROVE [e EXCEPT !.enabled = FALSE] \in RoutineRow
        BY DEF RoutineRow
      <4>1. [routine[routineRun[x].id] EXCEPT !.enabled = FALSE] \in RoutineRow
        BY <3>1, <4>0 DEF SchedulerTypeOK
      <4>2. routine' = [routine EXCEPT ![routineRun[x].id] = [routine[routineRun[x].id] EXCEPT !.enabled = FALSE]]
        BY <3>3
      <4>3. routine' \in [Routine -> RoutineRow]
        BY <3>1, <4>1, <4>2 DEF SchedulerTypeOK
      <4>4. \A q \in Routine : routine[q] \in RoutineRow /\ (q # routineRun[x].id => routine'[q] = routine[q])
        BY <3>1, <4>2 DEF SchedulerTypeOK
      <4>5. routine'[routineRun[x].id] = [routine[routineRun[x].id] EXCEPT !.enabled = FALSE]
        BY <3>1, <4>2 DEF SchedulerTypeOK
      <4>6. /\ routine'[routineRun[x].id].next = routine[routineRun[x].id].next
            /\ routine'[routineRun[x].id].is = routine[routineRun[x].id].is
        BY <3>1, <4>4, <4>5 DEF RoutineRow
      <4>. QED
        BY <4>3, <4>4, <4>6
    <3>. QED
      BY <1>2, <3>2, <3>3 DEF Fatigue, SetEnabled
  <2>2. routineRun' \in [Run -> RunState]
    <3>1. routineRun' = [routineRun EXCEPT ![x] = [routineRun[x] EXCEPT !.at = "told"]]
      BY <1>2 DEF Fatigue
    <3>2. [routineRun[x] EXCEPT !.at = "told"] \in RunState
      BY Fields DEF RunState
    <3>. QED
      BY <3>1, <3>2 DEF SchedulerTypeOK
  <2>3. SchedulerTypeOK' /\ UNCHANGED <<clock, daemon, history, tick, inFlight>>
    BY <1>2, <2>1, <2>2 DEF Fatigue, SchedulerTypeOK
  <2>. QED
    BY <1>2, <2>1, <2>3, SwitchKeeps DEF Fatigue
<1>. QED
  BY <1>1, <1>2

\* A firing of the tick given up: its routine's next one is later than the tick.
LEMMA PassedOver ==
  ASSUME SchedulerIInv, NEW a \in tick.todo, routine' = MovedPast(a),
         UNCHANGED <<clock, history>>, tick' \in TickState,
         \/ tick'.todo = {} /\ tick'.now = 0
         \/ tick'.todo = tick.todo \ {a} /\ tick'.now = tick.now
  PROVE  /\ routine' \in [Routine -> RoutineRow]
         /\ NewHasNoRow' /\ FiredIsBehind' /\ TodoIsNext'
<1>. USE DEF SchedulerIInv, RoutineSafe
<1>. DEFINE n == NextCronRun(a.id, tick.now)
<1>1. a.id \in Routine /\ a.next \in Nat /\ n \in Nat /\ n > tick.now /\ a.next <= tick.now
  <2>1. a \in DueRow /\ tick.now \in 0 .. MaxClock
    BY DEF SchedulerTypeOK, TickState
  <2>. QED
    BY <2>1, NextCronRunIsLater DEF DueRow, TodoIsNext
<1>2. routine' = IF routine[a.id].is = "live" THEN [routine EXCEPT ![a.id].next = n] ELSE routine
  BY DEF MovedPast, SetNextRun
<1>. HIDE DEF n
<1>3. /\ routine' \in [Routine -> RoutineRow]
      /\ \A r \in Routine : routine'[r].is = routine[r].is
      /\ \A r \in Routine : r # a.id => routine'[r] = routine[r]
      /\ routine[a.id].is = "live" => routine'[a.id].next = n
  <2>1. \A e \in RoutineRow : [e EXCEPT !.next = n] \in RoutineRow /\ [e EXCEPT !.next = n].is = e.is
                              /\ [e EXCEPT !.next = n].next = n
    BY <1>1 DEF RoutineRow
  <2>2. routine \in [Routine -> RoutineRow]
    BY DEF SchedulerTypeOK
  <2>3. CASE routine[a.id].is = "live"
    <3>1. /\ routine' = [routine EXCEPT ![a.id] = [routine[a.id] EXCEPT !.next = n]]
          /\ [routine[a.id] EXCEPT !.next = n] \in RoutineRow
      BY <1>1, <1>2, <2>1, <2>2, <2>3
    <3>. QED
      BY <1>1, <2>1, <2>2, <3>1
  <2>4. CASE routine[a.id].is # "live"
    BY <1>2, <2>2, <2>4
  <2>. QED
    BY <2>3, <2>4
<1>7. NewHasNoRow'
  BY <1>3, Fields DEF NewHasNoRow
<1>8. FiredIsBehind'
  <2>. SUFFICES ASSUME NEW i \in DOMAIN history, history[i].ran, routine[history[i].id].is = "live", history[i].due # 0
                PROVE  history[i].due < routine'[history[i].id].next
    BY <1>3, Fields DEF FiredIsBehind
  <2>1. history[i].due < routine[history[i].id].next /\ history[i].id \in Routine
    BY Fields DEF FiredIsBehind
  <2>2. CASE history[i].id = a.id
    <3>1. routine[a.id].next = a.next /\ history[i].due \in Nat /\ tick.now \in Nat
      BY <2>2, Fields DEF TodoIsNext
    <3>. QED
      BY <1>1, <1>3, <2>1, <2>2, <3>1
  <2>3. CASE history[i].id # a.id
    BY <1>3, <2>1, <2>3
  <2>. QED
    BY <2>2, <2>3
<1>9. TodoIsNext'
  <2>1. CASE tick'.todo = {} /\ tick'.now = 0
    BY <2>1, Fields DEF TodoIsNext
  <2>2. CASE tick'.todo = tick.todo \ {a} /\ tick'.now = tick.now
    BY <1>3, <2>2, Fields DEF TodoIsNext
  <2>. QED
    BY <2>1, <2>2
<1>. QED
  BY <1>3, <1>7, <1>8, <1>9

\* TickGivesUp: the firing is passed over, and has its row.
LEMMA TickGivesUpKeeps ==
  ASSUME SchedulerIInv, NEW a \in tick.todo, TickGivesUp(a)
  PROVE  SchedulerIInv'
<1>. USE DEF SchedulerIInv, RoutineSafe
<1>1. a.id \in Routine /\ a.next \in Nat
  BY Fields
<1>2. /\ tick'.todo = tick.todo \ {a} /\ tick'.now = tick.now
      /\ tick' \in TickState /\ routine' = MovedPast(a)
  BY DEF TickGivesUp, TickState, SchedulerTypeOK
<1>3. UNCHANGED <<clock, daemon, history, routineRun, inFlight, draining, adding, manual, stops>> /\ skipped' = skipped \cup {<<a.id, a.next>>}
  BY DEF TickGivesUp
<1>4. routine' \in [Routine -> RoutineRow] /\ NewHasNoRow' /\ FiredIsBehind' /\ TodoIsNext'
  BY <1>2, <1>3, PassedOver
<1>5. SchedulerTypeOK'
  BY <1>1, <1>2, <1>3, <1>4 DEF SchedulerTypeOK
<1>6. SingleFlight' /\ FiresOnce' /\ RunningRowsRun' /\ RunsHaveRows' /\ CountedFailures' /\ TodoHasNotRun'
  BY <1>2, <1>3 DEF SingleFlight, FiresOnce, RunningRowsRun, RunsHaveRows, CountedFailures, TodoHasNotRun
<1>. QED
  BY <1>4, <1>5, <1>6

\* CrashesInGivingUp: the firing is passed over and the daemon is gone.
LEMMA CrashesInGivingUpKeeps ==
  ASSUME SchedulerIInv, NEW a \in tick.todo, CrashesInGivingUp(a)
  PROVE  SchedulerIInv'
<1>. USE DEF SchedulerIInv, RoutineSafe
<1>1. /\ tick' = NoTick /\ routine' = MovedPast(a) /\ daemon' = "down" /\ inFlight' = {}
      /\ routineRun' = [x \in Run |-> Idle] /\ draining' = NotDraining
      /\ UNCHANGED <<clock, history, skipped, adding, manual>> /\ stops' \in 0 .. MaxStops
  BY DEF CrashesInGivingUp, Stopped, SchedulerTypeOK
<1>2. NoTick \in TickState /\ NoTick.todo = {} /\ NoTick.now = 0
  BY RestIsTyped DEF NoTick, TickState
<1>3. routine' \in [Routine -> RoutineRow] /\ NewHasNoRow' /\ FiredIsBehind' /\ TodoIsNext'
  BY <1>1, <1>2, PassedOver
<1>4. SchedulerTypeOK'
  BY <1>1, <1>3, RestIsTyped DEF SchedulerTypeOK
<1>5. SingleFlight' /\ FiresOnce' /\ RunningRowsRun' /\ RunsHaveRows' /\ CountedFailures' /\ TodoHasNotRun'
  BY <1>1, <1>2 DEF SingleFlight, FiresOnce, RunningRowsRun, RunsHaveRows, CountedFailures, TodoHasNotRun, Idle
<1>. QED
  BY <1>3, <1>4, <1>5

-----------------------------------------------------------------------------
(* The tick and the runs *)

LEMMA TickStepsKeep ==
  ASSUME SchedulerIInv, TickStarts \/ TickEnds
  PROVE  SchedulerIInv'
<1>. USE DEF SchedulerIInv, RoutineSafe
<1>1. UNCHANGED <<clock, daemon, routine, history, skipped, routineRun, inFlight, draining, adding, manual, stops>>
  BY DEF TickStarts, TickEnds, routineRows
<1>2. CASE TickStarts
  <2>1. /\ tick'.now = clock /\ tick'.on = TRUE /\ tick'.awaits = "none"
        /\ \A a \in tick'.todo : \E r \in Routine : a = [id |-> r, next |-> routine[r].next] /\ routine[r].is = "live"
                                                    /\ routine[r].next <= clock
    BY <1>2 DEF TickStarts, Routines
  <2>2. tick'.todo \subseteq DueRow
    BY <2>1, Fields DEF DueRow
  <2>3. tick' \in TickState
    BY <1>2, <2>1, <2>2, Fields DEF TickStarts, TickState
  <2>4. TodoIsNext'
    BY <1>1, <2>1, Fields DEF TodoIsNext
  <2>5. TodoHasNotRun'
    BY <1>1, <2>1, Fields DEF TodoHasNotRun, FiredIsBehind
  <2>. QED
    BY <1>1, <2>3, <2>4, <2>5 DEF SchedulerTypeOK, SingleFlight, FiresOnce, RunningRowsRun, RunsHaveRows,
       NewHasNoRow, FiredIsBehind, CountedFailures
<1>3. CASE TickEnds
  <2>1. TodoIsNext' /\ TodoHasNotRun' /\ tick' \in TickState
    BY <1>1, <1>3, Fields, RestIsTyped DEF TickEnds, TodoIsNext, TodoHasNotRun, NoTick
  <2>. QED
    BY <1>1, <2>1 DEF SchedulerTypeOK, SingleFlight, FiresOnce, RunningRowsRun, RunsHaveRows,
       NewHasNoRow, FiredIsBehind, CountedFailures
<1>. QED
  BY <1>2, <1>3

LEMMA RunEndsKeeps ==
  ASSUME SchedulerIInv, NEW x \in Run, RunEnds(x)
  PROVE  SchedulerIInv'
<1>. USE DEF SchedulerIInv, RoutineSafe
<1>1. /\ UNCHANGED <<clock, daemon, routine, history, skipped, adding, manual, stops>>
      /\ inFlight' = inFlight \ {routineRun[x].id} /\ draining' = draining \ {x}
      /\ routineRun' = [routineRun EXCEPT ![x] = Idle] /\ routineRun[x].at = "told"
      /\ tick'.todo = tick.todo /\ tick'.now = tick.now /\ tick' \in TickState
  BY DEF RunEnds, routineRows, TickState, SchedulerTypeOK
<1>2. routineRun[x] # Idle
  BY <1>1 DEF Idle
<1>3. SchedulerTypeOK'
  BY <1>1, RestIsTyped DEF SchedulerTypeOK
<1>4. \A y \in Run : routineRun'[y] = IF y = x THEN Idle ELSE routineRun[y]
  BY <1>1, Fields
<1>5. SingleFlight'
  BY <1>1, <1>2, <1>4 DEF SingleFlight, RunsHaveRows, Idle
<1>6. RunningRowsRun' /\ RunsHaveRows' /\ CountedFailures'
  BY <1>1, <1>4 DEF RunningRowsRun, RunsHaveRows, CountedFailures, Idle
<1>7. FiresOnce' /\ NewHasNoRow' /\ FiredIsBehind' /\ TodoIsNext' /\ TodoHasNotRun'
  BY <1>1 DEF FiresOnce, NewHasNoRow, FiredIsBehind, TodoIsNext, TodoHasNotRun
<1>. QED
  BY <1>3, <1>5, <1>6, <1>7

\* recoverInterrupted: what said "running" failed.
LEMMA RecoversKeeps ==
  ASSUME SchedulerIInv, Recovers
  PROVE  SchedulerIInv'
<1>. USE DEF SchedulerIInv, RoutineSafe
<1>1. /\ UNCHANGED <<clock, routine, skipped, tick, routineRun, inFlight, draining, adding, manual, stops>>
      /\ daemon' = "up"
  BY DEF Recovers, process
<1>2. /\ DOMAIN history' = DOMAIN history
      /\ \A i \in DOMAIN history : /\ history'[i].id = history[i].id /\ history'[i].due = history[i].due
                                   /\ history'[i].ran = history[i].ran
                                   /\ history'[i].status = IF history[i].status = "running" THEN "failed"
                                                           ELSE history[i].status
                                   /\ history'[i] \in HistoryRow
  BY Fields DEF Recovers, HistoryRow
<1>3. history' \in Seq(HistoryRow)
  BY <1>2, Fields DEF Recovers
<1>4. SchedulerTypeOK'
  BY <1>1, <1>3 DEF SchedulerTypeOK
<1>5. SingleFlight' /\ FiresOnce' /\ RunningRowsRun'
  BY <1>1, <1>2 DEF SingleFlight, FiresOnce, RunningRowsRun
<1>6. RunsHaveRows' /\ NewHasNoRow' /\ FiredIsBehind' /\ TodoIsNext' /\ TodoHasNotRun'
  BY <1>1, <1>2 DEF RunsHaveRows, NewHasNoRow, FiredIsBehind, TodoIsNext, TodoHasNotRun
<1>7. CountedFailures'
  <2>1. ASSUME NEW r PROVE ConsecutiveFailures(history, r) <= ConsecutiveFailures(history', r)
    <3>1. TailFailures(history, r) \subseteq TailFailures(history', r)
      BY <1>2 DEF TailFailures
    <3>. QED
      BY <1>3, <3>1, FailuresGrow DEF SchedulerTypeOK
  <2>2. \A r : ConsecutiveFailures(history, r) \in Nat /\ ConsecutiveFailures(history', r) \in Nat
    BY <1>3, FailuresFinite DEF SchedulerTypeOK
  <2>. QED
    BY <1>1, <2>1, <2>2, Fields DEF CountedFailures
<1>. QED
  BY <1>4, <1>5, <1>6, <1>7

\* The runner's answer is written to the row of its run.
LEMMA RunnerEndsKeeps ==
  ASSUME SchedulerIInv, NEW x \in Run, NEW s \in {"done", "failed"}, RunnerEnds(x, s)
  PROVE  SchedulerIInv'
<1>. USE DEF SchedulerIInv, RoutineSafe
<1>. DEFINE k == routineRun[x].row
            r == routineRun[x].id
<1>1. UNCHANGED <<clock, daemon, routine, skipped, tick, inFlight, draining, adding, manual, stops>>
  BY DEF RunnerEnds
<1>2. k \in DOMAIN history /\ history[k].id = r /\ r \in Routine /\ routineRun[x] # Idle
  BY DEF RunnerEnds, RunsHaveRows, Idle
<1>3. /\ DOMAIN history' = DOMAIN history /\ history' \in Seq(HistoryRow)
      /\ \A i \in DOMAIN history : /\ history'[i].id = history[i].id /\ history'[i].due = history[i].due
                                   /\ history'[i].ran = history[i].ran
                                   /\ history'[i].status = IF i = k THEN s ELSE history[i].status
  <2>1. history' = [history EXCEPT ![k] = [history[k] EXCEPT !.status = s]]
    BY DEF RunnerEnds
  <2>2. [history[k] EXCEPT !.status = s] \in HistoryRow
    BY <1>2, Fields, ZenonT(30) DEF HistoryRow
  <2>3. history' \in Seq(HistoryRow) /\ DOMAIN history' = DOMAIN history
    <3>1. k \in 1 .. Len(history) /\ history \in Seq(HistoryRow)
      BY <1>2, Fields DEF SchedulerTypeOK
    <3>. QED
      BY <2>1, <2>2, <3>1
  <2>4. \A i \in DOMAIN history : history'[i] = IF i = k THEN [history[k] EXCEPT !.status = s] ELSE history[i]
    BY <1>2, <2>1, Fields DEF SchedulerTypeOK
  <2>5. /\ [history[k] EXCEPT !.status = s].id = history[k].id /\ [history[k] EXCEPT !.status = s].due = history[k].due
        /\ [history[k] EXCEPT !.status = s].ran = history[k].ran /\ [history[k] EXCEPT !.status = s].status = s
    BY <1>2, Fields DEF HistoryRow
  <2>. QED
    BY <2>3, <2>4, <2>5
<1>4. ConsecutiveFailures(history', r) \in Nat
  BY <1>3, FailuresFinite
<1>5. /\ routineRun' \in [Run -> RunState]
      /\ \A y \in Run : /\ y # x => routineRun'[y] = routineRun[y]
                        /\ routineRun'[y].id = routineRun[y].id /\ routineRun'[y].row = routineRun[y].row
      /\ routineRun'[x].at \in {"tired", "told"} /\ routineRun'[x].failures = ConsecutiveFailures(history', r)
  <2>1. PICK a \in {"tired", "told"} :
            routineRun' = [routineRun EXCEPT ![x] = [routineRun[x] EXCEPT !.at = a, !.failures = ConsecutiveFailures(history', r)]]
    BY DEF RunnerEnds
  <2>2. [routineRun[x] EXCEPT !.at = a, !.failures = ConsecutiveFailures(history', r)] \in RunState
    BY <1>4, Fields DEF RunState
  <2>. QED
    BY <2>1, <2>2, Fields DEF SchedulerTypeOK, RunState
<1>6. SchedulerTypeOK'
  BY <1>1, <1>3, <1>5 DEF SchedulerTypeOK
<1>7. SingleFlight'
  <2>1. \A y \in Run : (routineRun'[y] # Idle => routineRun[y] # Idle) /\ routineRun'[y].id = routineRun[y].id
    BY <1>2, <1>5
  <2>. QED
    BY <1>1, <2>1 DEF SingleFlight
<1>8. FiresOnce' /\ NewHasNoRow' /\ FiredIsBehind' /\ TodoIsNext' /\ TodoHasNotRun'
  <2>1. FiresOnce'
    BY <1>3 DEF FiresOnce
  <2>2. NewHasNoRow' /\ FiredIsBehind'
    BY <1>1, <1>3 DEF NewHasNoRow, FiredIsBehind
  <2>3. TodoIsNext' /\ TodoHasNotRun'
    BY <1>1, <1>3 DEF TodoIsNext, TodoHasNotRun
  <2>. QED
    BY <2>1, <2>2, <2>3
<1>9. RunningRowsRun'
  BY <1>1, <1>3, <1>5 DEF RunningRowsRun
<1>10. RunsHaveRows'
  BY <1>2, <1>3, <1>5 DEF RunsHaveRows, Idle
<1>11. CountedFailures'
  <2>. SUFFICES ASSUME NEW y \in Run, routineRun'[y].at = "tired"
                PROVE  routineRun'[y].failures <= ConsecutiveFailures(history', routineRun'[y].id)
    BY DEF CountedFailures
  <2>1. CASE y = x
    BY <1>4, <1>5, <2>1
  <2>2. CASE y # x
    <3>1. routineRun'[y] = routineRun[y] /\ routineRun[y] # Idle /\ routineRun[y].id # r
      BY <1>2, <1>5, <2>2 DEF SingleFlight, Idle
    <3>2. TailFailures(history', routineRun[y].id) = TailFailures(history, routineRun[y].id)
      BY <1>2, <1>3, <3>1, SMTT(30) DEF TailFailures
    <3>. QED
      BY <3>1, <3>2 DEF CountedFailures, ConsecutiveFailures
  <2>. QED
    BY <2>1, <2>2
<1>. QED
  BY <1>6, <1>7, <1>8, <1>9, <1>10, <1>11

\* executeRun when nothing stands in its way: a row, a run of its own, and by the tick a later firing.
LEMMA ExecuteKeeps ==
  ASSUME SchedulerIInv, NEW r \in Routine, NEW due \in Nat, NEW auto \in BOOLEAN, Execute(r, due, auto),
         ~ (r \in inFlight \/ HasRunning(r)), routine[r].is # "new",
         tick'.now = tick.now, tick' \in TickState,
         \/ ~auto /\ due = 0 /\ tick'.todo = tick.todo
         \/ auto /\ \E a \in tick.todo : a = [id |-> r, next |-> due] /\ tick'.todo = tick.todo \ {a},
         manual' \in 0 .. MaxManual, UNCHANGED <<clock, daemon, skipped, draining, adding, stops>>
  PROVE  SchedulerIInv'
<1>. USE DEF SchedulerIInv, RoutineSafe
<1>. DEFINE n == Len(history) + 1
            h == [id |-> r, status |-> "running", due |-> due, ran |-> TRUE]
            x == FreeRun
            run == [at |-> "runner", id |-> r, row |-> n, auto |-> auto, failures |-> 0]
            later == NextCronRun(r, clock)
<1>1. x \in Run /\ routineRun[x] = Idle
  BY DEF Execute, FreeRun
<1>2. h \in HistoryRow /\ run \in RunState /\ run # Idle /\ n \in Nat \ {0}
  BY Fields DEF HistoryRow, RunState, Idle
<1>3. /\ history' \in Seq(HistoryRow) /\ DOMAIN history = 1 .. n - 1 /\ DOMAIN history' = 1 .. n
      /\ \A i \in DOMAIN history : history'[i] = history[i]
      /\ history'[n] = h
  <2>1. history' = Append(history, h)
    BY DEF Execute
  <2>. QED
    BY <1>2, <2>1, Fields, AppendProperties DEF SchedulerTypeOK
<1>4. /\ routineRun' \in [Run -> RunState] /\ inFlight' = inFlight \cup {r}
      /\ \A y \in Run : routineRun'[y] = IF y = x THEN run ELSE routineRun[y]
  <2>1. routineRun' = [routineRun EXCEPT ![x] = run] /\ inFlight' = inFlight \cup {r}
    BY DEF Execute
  <2>. QED
    BY <1>1, <1>2, <2>1 DEF SchedulerTypeOK
<1>5. later \in Nat /\ later > clock
  BY NextCronRunIsLater, Fields
<1>6. /\ routine' \in [Routine -> RoutineRow]
      /\ \A q \in Routine : routine'[q].is = routine[q].is
      /\ \A q \in Routine : q # r \/ ~auto => routine'[q] = routine[q]
      /\ auto /\ routine[r].is = "live" => routine'[r].next = later
  <2>1. CASE routine' = routine /\ ~ (auto /\ routine[r].is = "live")
    BY <2>1 DEF SchedulerTypeOK
  <2>2. CASE routine' = SetNextRun(routine, r, later) /\ auto /\ routine[r].is = "live"
    <3>1. routine' = [routine EXCEPT ![r] = [routine[r] EXCEPT !.next = later]] /\ routine[r] \in RoutineRow
      BY <2>2 DEF SetNextRun, SchedulerTypeOK
    <3>2. /\ [routine[r] EXCEPT !.next = later] \in RoutineRow /\ [routine[r] EXCEPT !.next = later].is = routine[r].is
          /\ [routine[r] EXCEPT !.next = later].next = later
      BY <1>5, <3>1 DEF RoutineRow
    <3>3. /\ routine' \in [Routine -> RoutineRow] /\ routine'[r] = [routine[r] EXCEPT !.next = later]
          /\ \A q \in Routine : q # r => routine'[q] = routine[q]
      BY <3>1, <3>2 DEF SchedulerTypeOK
    <3>. QED
      BY <2>2, <3>2, <3>3
  <2>. QED
    BY <2>1, <2>2 DEF Execute
<1>7. tick'.todo \subseteq tick.todo
  OBVIOUS
<1>. HIDE DEF n, h, x, run, later
<1>8. SchedulerTypeOK'
  BY <1>3, <1>4, <1>6 DEF SchedulerTypeOK
<1>9. /\ run.id = r /\ run.row = n /\ run.at = "runner"
      /\ h.id = r /\ h.status = "running" /\ h.due = due /\ h.ran = TRUE
  BY DEF run, h
<1>10. SingleFlight'
  BY <1>1, <1>4, <1>9 DEF SingleFlight, RunsHaveRows, Idle
<1>11. RunningRowsRun'
  <2>. SUFFICES ASSUME daemon = "up", NEW i \in DOMAIN history', history'[i].status = "running"
                PROVE  \E y \in Run : routineRun'[y].at = "runner" /\ routineRun'[y].row = i
    BY DEF RunningRowsRun
  <2>1. CASE i = n
    BY <1>1, <1>4, <1>9, <2>1
  <2>2. CASE i # n
    <3>1. i \in DOMAIN history /\ history'[i] = history[i]
      BY <1>2, <1>3, <2>2
    <3>2. PICK y \in Run : routineRun[y].at = "runner" /\ routineRun[y].row = i
      BY <3>1 DEF RunningRowsRun
    <3>. QED
      BY <1>1, <1>4, <3>2 DEF Idle
  <2>. QED
    BY <2>1, <2>2
<1>12. RunsHaveRows'
  <2>1. n \in DOMAIN history' /\ \A i \in DOMAIN history : i \in DOMAIN history'
    BY <1>2, <1>3
  <2>. QED
    BY <1>3, <1>4, <1>9, <2>1 DEF RunsHaveRows
<1>13. NewHasNoRow'
  <2>. SUFFICES ASSUME NEW i \in DOMAIN history' PROVE routine'[history'[i].id].is # "new"
    BY DEF NewHasNoRow
  <2>1. CASE i = n
    BY <1>3, <1>6, <1>9, <2>1
  <2>2. CASE i # n
    <3>1. i \in DOMAIN history /\ history'[i] = history[i]
      BY <1>2, <1>3, <2>2
    <3>. QED
      BY <1>6, <3>1, Fields DEF NewHasNoRow
  <2>. QED
    BY <2>1, <2>2
<1>14. TodoIsNext'
  <2>1. CASE ~auto
    BY <1>6, <2>1, Fields DEF TodoIsNext
  <2>2. CASE auto
    <3>1. \A b \in tick'.todo : b.id # r /\ b \in tick.todo
      BY <2>2 DEF TodoIsNext
    <3>. QED
      BY <1>6, <1>7, <3>1, Fields DEF TodoIsNext
  <2>. QED
    BY <2>1, <2>2
<1>15. FiresOnce' /\ TodoHasNotRun' /\ FiredIsBehind'
  <2>1. \A i \in DOMAIN history : history[i].ran /\ history[i].id = r => history[i].due # due \/ due = 0
    BY DEF TodoHasNotRun
  <2>2. FiresOnce'
    BY <1>2, <1>3, <1>9, <2>1 DEF FiresOnce
  <2>3. TodoHasNotRun'
    <3>1. \A b \in tick'.todo : b.id = r => due = 0
      BY DEF TodoIsNext
    <3>. QED
      BY <1>2, <1>3, <1>7, <1>9, <3>1 DEF TodoHasNotRun
  <2>4. FiredIsBehind'
    <3>. SUFFICES ASSUME NEW i \in DOMAIN history', history'[i].ran, routine'[history'[i].id].is = "live", history'[i].due # 0
                  PROVE  history'[i].due < routine'[history'[i].id].next
      BY DEF FiredIsBehind
    <3>1. CASE auto /\ history'[i].id = r
      <4>1. due = routine[r].next /\ routine[r].is = "live" /\ due <= clock /\ routine'[r].next = later
        BY <1>6, <3>1, Fields DEF TodoIsNext
      <4>2. history'[i].due <= due
        <5>1. CASE i = n
          BY <1>3, <1>9, <5>1
        <5>2. CASE i # n
          <6>1. i \in DOMAIN history /\ history'[i] = history[i]
            BY <1>2, <1>3, <5>2
          <6>2. history[i].due < routine[r].next
            BY <3>1, <4>1, <6>1 DEF FiredIsBehind
          <6>. QED
            BY <4>1, <6>1, <6>2, Fields
        <5>. QED
          BY <5>1, <5>2
      <4>3. history'[i].due \in Nat
        BY <1>2, <1>3, <1>9, Fields
      <4>. QED
        BY <1>5, <3>1, <4>1, <4>2, <4>3, Fields
    <3>2. CASE ~auto \/ history'[i].id # r
      <4>1. i \in DOMAIN history /\ history'[i] = history[i]
        BY <1>2, <1>3, <1>9, <3>2
      <4>. QED
        BY <1>6, <3>2, <4>1, Fields DEF FiredIsBehind
    <3>. QED
      BY <3>1, <3>2
  <2>. QED
    BY <2>2, <2>3, <2>4
<1>16. CountedFailures'
  <2>1. \A q : TailFailures(history', q) = TailFailures(history, q)
    BY <1>2, <1>3, <1>9 DEF TailFailures
  <2>. QED
    BY <1>1, <1>4, <1>9, <2>1 DEF CountedFailures, ConsecutiveFailures
<1>. QED
  BY <1>8, <1>10, <1>11, <1>12, <1>13, <1>14, <1>15, <1>16

LEMMA FireSteps ==
  ASSUME SchedulerIInv, (\E r \in Routine : RunNow(r)) \/ (\E a \in tick.todo : TickFires(a))
  PROVE  SchedulerIInv'
<1>. USE DEF SchedulerIInv, RoutineSafe
<1>1. ASSUME NEW r \in Routine, RunNow(r) PROVE SchedulerIInv'
  <2>1. /\ manual' \in 0 .. MaxManual /\ UNCHANGED <<clock, daemon, skipped, tick, draining, adding, stops>>
        /\ Execute(r, 0, FALSE) /\ routine[r].is # "new" /\ tick \in TickState
    <3>1. manual \in 0 .. MaxManual /\ manual < MaxManual /\ manual' = manual + 1
      BY <1>1 DEF RunNow, SchedulerTypeOK
    <3>2. manual' \in 0 .. MaxManual
      BY <3>1
    <3>. QED
      BY <1>1, <3>2 DEF RunNow, SchedulerTypeOK
  <2>2. CASE r \in inFlight \/ HasRunning(r)
    <3>1. SchedulerTypeOK' /\ UNCHANGED <<routine, history, routineRun, inFlight>>
      BY <2>1, <2>2 DEF Execute, SchedulerTypeOK
    <3>. QED
      BY <2>1, <3>1, QuietKeeps, Fields
  <2>3. CASE ~ (r \in inFlight \/ HasRunning(r))
    BY <2>1, <2>3, ExecuteKeeps
  <2>. QED
    BY <2>2, <2>3
<1>2. ASSUME NEW a \in tick.todo, TickFires(a) PROVE SchedulerIInv'
  <2>1. /\ UNCHANGED <<clock, daemon, skipped, draining, adding, manual, stops>>
        /\ Execute(a.id, a.next, TRUE) /\ tick'.todo = tick.todo \ {a} /\ tick'.now = tick.now
    BY <1>2 DEF TickFires, TickState, SchedulerTypeOK
  <2>2. a = [id |-> a.id, next |-> a.next] /\ a.id \in Routine /\ a.next \in Nat /\ routine[a.id].is # "new"
    BY Fields DEF DueRow, TodoIsNext
  <2>3. CASE a.id \in inFlight \/ HasRunning(a.id)
    <3>1. UNCHANGED <<routine, history, routineRun, inFlight>>
      BY <2>1, <2>3 DEF Execute
    <3>2. tick' \in TickState
      BY <1>2, <2>1, <3>1 DEF TickFires, TickState, SchedulerTypeOK
    <3>3. SchedulerTypeOK'
      BY <2>1, <3>1, <3>2 DEF SchedulerTypeOK
    <3>4. TodoIsNext' /\ TodoHasNotRun'
      BY <2>1, <3>1 DEF TodoIsNext, TodoHasNotRun
    <3>. QED
      BY <2>1, <3>1, <3>3, <3>4 DEF SingleFlight, FiresOnce, RunningRowsRun, RunsHaveRows, NewHasNoRow,
         FiredIsBehind, CountedFailures
  <2>4. CASE ~ (a.id \in inFlight \/ HasRunning(a.id))
    <3>1. FreeRun \in Run
      BY <2>1, <2>4 DEF Execute, FreeRun
    <3>2. tick' \in TickState
      BY <1>2, <2>1, <3>1 DEF TickFires, TickState, SchedulerTypeOK
    <3>3. manual' \in 0 .. MaxManual
      BY <2>1 DEF SchedulerTypeOK
    <3>. QED
      BY <2>1, <2>2, <2>4, <3>2, <3>3, ExecuteKeeps
  <2>. QED
    BY <2>3, <2>4
<1>. QED
  BY <1>1, <1>2

-----------------------------------------------------------------------------
\* Every step keeps the inductive invariant.
LEMMA SchedulerSteps == SchedulerIInv /\ [SchedulerNext]_schedulerVars => SchedulerIInv'
<1>. SUFFICES ASSUME SchedulerIInv, [SchedulerNext]_schedulerVars PROVE SchedulerIInv'
  OBVIOUS
<1>1. CASE Passes \/ Life \/ Accident
  BY <1>1, QuietSteps, StopSteps, CrashesInGivingUpKeeps, RecoversKeeps DEF Life, Accident
<1>2. CASE Tick
  BY <1>2, TickStepsKeep, TickGivesUpKeeps, FireSteps DEF Tick
<1>3. CASE Person
  BY <1>3, QuietSteps, InsertSteps, SwitchSteps, FireSteps DEF Person
<1>4. ASSUME NEW x \in Run, Continues(x) PROVE SchedulerIInv'
  BY <1>4, RunnerEndsKeeps, SwitchSteps, RunEndsKeeps DEF Continues
<1>5. CASE UNCHANGED schedulerVars
  <2>1. SchedulerTypeOK' /\ UNCHANGED <<clock, daemon, routine, history, tick, routineRun, inFlight>>
    BY <1>5 DEF schedulerVars, SchedulerIInv, RoutineSafe, SchedulerTypeOK
  <2>. QED
    BY <2>1, QuietKeeps, Fields DEF SchedulerIInv, RoutineSafe
<1>. QED
  BY <1>1, <1>2, <1>3, <1>4, <1>5 DEF SchedulerNext

\* A routine runs once at a time, a firing runs its task once at most across crashes and late ticks,
\* and once the daemon has recovered a row that says "running" has its run (scheduler/loop.ts).
THEOREM RoutinesAreSafe == SchedulerSpec => []RoutineSafe
<1>1. SchedulerIInv => RoutineSafe
  BY DEF SchedulerIInv
<1>. QED
  BY SchedulerStarts, SchedulerSteps, <1>1, PTL DEF SchedulerSpec

-----------------------------------------------------------------------------
(* What no step does *)

\* A step passes a firing by only with a record of it.
LEMMA FiringStep ==
  ASSUME SchedulerIInv, [SchedulerNext]_schedulerVars, NEW r \in Routine,
         routine[r].is = "live", routine'[r].next # routine[r].next
  PROVE  \/ HasRow(history', r, routine[r].next)
         \/ /\ BeyondWindow(routine[r].next)
            /\ <<r, routine[r].next>> \in skipped' \/ daemon' = "down"
<1>. USE DEF SchedulerIInv, RoutineSafe, HasRow
<1>1. ASSUME NEW q \in Routine, NEW due \in Nat, NEW auto \in BOOLEAN, Execute(q, due, auto)
      PROVE  /\ auto /\ q = r
             /\ \E i \in DOMAIN history' : history'[i].id = r /\ history'[i].due = due
  <2>1. /\ auto /\ routine' = SetNextRun(routine, q, NextCronRun(q, clock))
        /\ history' = Append(history, [id |-> q, status |-> "running", due |-> due, ran |-> TRUE])
    BY <1>1 DEF Execute
  <2>2. q = r
    BY <2>1 DEF SetNextRun, SchedulerTypeOK
  <2>3. [id |-> q, status |-> "running", due |-> due, ran |-> TRUE] \in HistoryRow
    BY DEF HistoryRow
  <2>4. /\ Len(history) + 1 \in DOMAIN history' /\ history'[Len(history) + 1].id = q
        /\ history'[Len(history) + 1].due = due
    BY <2>1, <2>3, AppendProperties, Fields DEF SchedulerTypeOK
  <2>. QED
    BY <2>1, <2>2, <2>4
<1>2. ASSUME NEW a \in tick.todo, TickFires(a)
      PROVE  \E i \in DOMAIN history' : history'[i].id = r /\ history'[i].due = routine[r].next
  <2>1. a.id = r /\ \E i \in DOMAIN history' : history'[i].id = r /\ history'[i].due = a.next
    BY <1>1, <1>2, Fields DEF TickFires
  <2>. QED
    BY <2>1 DEF TodoIsNext
<1>3. ASSUME NEW a \in tick.todo, TickGivesUp(a) \/ CrashesInGivingUp(a)
      PROVE  /\ BeyondWindow(routine[r].next)
             /\ <<r, routine[r].next>> \in skipped' \/ daemon' = "down"
  <2>1. routine' = MovedPast(a) /\ ~ShouldFireMissed(a.next, tick.now)
    BY <1>3 DEF TickGivesUp, CrashesInGivingUp
  <2>2. a.id = r /\ a.next = routine[r].next /\ a.next \in Nat
    BY <2>1, Fields DEF MovedPast, SetNextRun, SchedulerTypeOK, TodoIsNext
  <2>3. a.next <= tick.now /\ tick.now <= clock /\ tick.now \in Nat /\ clock \in Nat /\ MissedWindow \in Nat
    BY Fields, SchedulerAssumption DEF TodoIsNext
  <2>4. BeyondWindow(a.next)
    BY <2>1, <2>2, <2>3 DEF ShouldFireMissed, BeyondWindow
  <2>. QED
    BY <1>3, <2>2, <2>4 DEF TickGivesUp, CrashesInGivingUp, Stopped
<1>4. ASSUME NEW q \in Routine, RunNow(q) PROVE FALSE
  BY <1>1, <1>4 DEF RunNow
<1>5. ASSUME NEW q \in Routine, Create(q) \/ RemoveRoutine(q) PROVE FALSE
  <2>1. CASE Create(q)
    BY <2>1 DEF Create, SchedulerTypeOK
  <2>2. CASE RemoveRoutine(q)
    <3>1. routine'[r] = IF r = q THEN [routine[q] EXCEPT !.is = "gone", !.enabled = FALSE] ELSE routine[r]
      BY <2>2 DEF RemoveRoutine, SchedulerTypeOK
    <3>2. \A e \in RoutineRow : [e EXCEPT !.is = "gone", !.enabled = FALSE].next = e.next
      BY DEF RoutineRow
    <3>. QED
      BY <3>1, <3>2 DEF SchedulerTypeOK
  <2>. QED
    BY <1>5, <2>1, <2>2
<1>6. CASE CliInserts
  BY <1>6 DEF CliInserts, SchedulerTypeOK
<1>7. ASSUME NEW x \in Run, Continues(x) PROVE FALSE
  <2>1. Fatigue(x)
    BY <1>7 DEF Continues, RunnerEnds, RunEnds, routineRows
  <2>2. /\ routineRun[x].id \in Routine
        /\ routine' = [routine EXCEPT ![routineRun[x].id].enabled = FALSE] \/ routine' = routine
    BY <2>1 DEF Fatigue, SetEnabled, RunsHaveRows, Idle
  <2>3. \A q \in Routine : routine[q] \in RoutineRow
    BY DEF SchedulerTypeOK
  <2>4. ASSUME NEW e \in RoutineRow PROVE [e EXCEPT !.enabled = FALSE].next = e.next
    BY DEF RoutineRow
  <2>5. CASE routine' = [routine EXCEPT ![routineRun[x].id].enabled = FALSE]
    <3>1. routine'[r] = IF r = routineRun[x].id THEN [routine[r] EXCEPT !.enabled = FALSE] ELSE routine[r]
      BY <2>5 DEF SchedulerTypeOK
    <3>. QED
      BY <2>3, <2>4, <3>1
  <2>. QED
    BY <2>2, <2>5
<1>8. ~ (UNCHANGED routine)
  OBVIOUS
<1>9. CASE Tick
  BY <1>2, <1>3, <1>8, <1>9 DEF Tick, TickStarts, TickEnds, routineRows
<1>10. CASE Person
  BY <1>4, <1>5, <1>6, <1>8, <1>10 DEF Person, CliCounts, routineRows
<1>11. CASE Passes \/ Life \/ Accident \/ UNCHANGED schedulerVars
  BY <1>3, <1>8, <1>11 DEF Passes, Life, Accident, Listens, Recovers, Drains, RoutineClosed, RoutineCrashes, Closes, CrashesInExecute,
     routineRows, schedulerVars
<1>. QED
  BY <1>7, <1>9, <1>10, <1>11 DEF SchedulerNext

\* A step switches a routine off only if it has failed as often as the limit.
LEMMA SwitchStep ==
  ASSUME SchedulerIInv, [SchedulerNext]_schedulerVars, NEW r \in Routine,
         routine[r].is = "live", routine[r].enabled, routine'[r].is = "live", ~routine'[r].enabled
  PROVE  ConsecutiveFailures(history, r) >= FatigueLimit
<1>. USE DEF SchedulerIInv, RoutineSafe
<1>1. ~ (UNCHANGED routine)
  OBVIOUS
<1>2. ASSUME NEW q \in Routine, NEW t PROVE SetNextRun(routine, q, t)[r].enabled = routine[r].enabled
  BY DEF SetNextRun, SchedulerTypeOK, RoutineRow
<1>3. ASSUME NEW q \in Routine, NEW due, NEW auto, Execute(q, due, auto) PROVE FALSE
  BY <1>2, <1>3 DEF Execute
<1>4. ~ Tick
  BY <1>1, <1>2, <1>3, Fields, ZenonT(30) DEF Tick, TickStarts, TickEnds, TickFires, TickGivesUp, MovedPast, routineRows
<1>5. ASSUME NEW q \in Routine, Create(q) PROVE FALSE
  BY <1>5 DEF Create, Inserted, SchedulerTypeOK
<1>6. ASSUME NEW q \in Routine, RemoveRoutine(q) PROVE FALSE
  BY <1>6 DEF RemoveRoutine, SchedulerTypeOK, RoutineRow
<1>7. ~ CliInserts
  BY DEF CliInserts, Inserted, SchedulerTypeOK
<1>8. ~ Person
  BY <1>1, <1>3, <1>5, <1>6, <1>7 DEF Person, CliCounts, RunNow, routineRows
<1>9. ~ (Passes \/ Life \/ Accident \/ UNCHANGED schedulerVars)
  BY <1>1, <1>2, Fields DEF Passes, Life, Accident, Listens, Recovers, Drains, RoutineClosed, RoutineCrashes, Closes, CrashesInExecute,
     CrashesInGivingUp, MovedPast, routineRows, schedulerVars
<1>10. PICK x \in Run : Continues(x)
  BY <1>4, <1>8, <1>9 DEF SchedulerNext
<1>11. Fatigue(x)
  BY <1>1, <1>10 DEF Continues, RunnerEnds, RunEnds, routineRows
<1>12. routineRun[x].id = r /\ routineRun[x].failures >= FatigueLimit
  BY <1>1, <1>11 DEF Fatigue, SetEnabled, SchedulerTypeOK
<1>13. ConsecutiveFailures(history, r) \in Nat /\ routineRun[x].failures \in Nat
  BY Fields, FailuresFinite DEF SchedulerTypeOK
<1>. QED
  BY <1>11, <1>12, <1>13 DEF Fatigue, CountedFailures

\* next_run_at moves past a firing only when the firing has its row or is beyond the window, whatever
\* crashes or stops come between; one beyond it lacks its row only if the daemon died in the very
\* step (executeRun, tickBody).
THEOREM NoFiringIsLost == SchedulerSpec => NoFiringLost
<1>1. SchedulerIInv /\ [SchedulerNext]_schedulerVars =>
        [\A r \in Routine :
            (routine[r].is = "live" /\ routine'[r].next # routine[r].next) =>
              \/ HasRow(history', r, routine[r].next)
              \/ /\ BeyondWindow(routine[r].next)
                 /\ <<r, routine[r].next>> \in skipped' \/ daemon' = "down"]_schedulerVars
  BY FiringStep
<1>. QED
  BY SchedulerStarts, SchedulerSteps, <1>1, PTL DEF SchedulerSpec, NoFiringLost

\* A routine is switched off only by as many failures in a row as the limit, although they are
\* counted before a notification is awaited and judged after it (applyFatigue).
THEOREM OffIsTired == SchedulerSpec => OffOnlyWhenTired
<1>1. SchedulerIInv /\ [SchedulerNext]_schedulerVars =>
        [\A r \in Routine :
            (/\ routine[r].is = "live" /\ routine[r].enabled
             /\ routine'[r].is = "live" /\ ~routine'[r].enabled) =>
              ConsecutiveFailures(history, r) >= FatigueLimit]_schedulerVars
  BY SwitchStep
<1>. QED
  BY SchedulerStarts, SchedulerSteps, <1>1, PTL DEF SchedulerSpec, OffOnlyWhenTired

-----------------------------------------------------------------------------
(* The budget of a harness *)

USE BudgetAssumption DEF Nobody

-----------------------------------------------------------------------------
\* A call by where it is
Counting == [at : {"report", "audit", "written"}, pays : Jobs, over : BOOLEAN, of : Nat]
Acting == [at : {"acts"}, pays : Jobs \cup {Nobody}, for : Jobs \cup {Nobody}, told : BOOLEAN]
CallOk(x) ==
    \/ x = Rest
    \/ x \in Counting /\ (x.at # "report" => x.over)
    \/ x \in Acting /\ x.for = x.pays
IsWriter(x) == x.at \in {"report", "audit", "written"} /\ x.over
IsPending(x) == x.at = "report" /\ ~x.over

Flying == {c \in Callers : calls[c] # Rest}
Undispatched == {c \in Callers : IsPending(calls[c])}

BudgetTypes ==
    /\ bound \in Jobs \cup {Nobody} /\ status \in [Jobs -> {"none", "running", "paused", "ended"}]
    /\ cap \in [Jobs -> Nat] /\ used \in [Jobs -> Nat] /\ acted \in [Jobs -> Nat] /\ audits \in [Jobs -> Nat]
    /\ budgetDenied \in [Jobs -> BOOLEAN] /\ reserved \in [Jobs -> BOOLEAN]
    /\ claimed \in BOOLEAN /\ flights \in Nat
    /\ DOMAIN calls = Callers /\ \A c \in Callers : CallOk(calls[c])
    /\ leaked \in BOOLEAN /\ fails \in Nat /\ quits \in Nat
CapsInCaps == cap \in [Jobs -> Caps \cup {0}]
\* A call under way is counted in flight, and paid for the task that is bound.
FlightsCount == flights = Cardinality(Flying)
PaysTheBound == \A c \in Callers : calls[c] # Rest => calls[c].pays = bound
\* A task nobody was bound to has spent nothing.
FreshIsEmpty == \A j \in Jobs : status[j] = "none" => used[j] = 0 /\ acted[j] = 0 /\ ~budgetDenied[j]
\* The refusal stands exactly while the count has reached the budget.
DeniedAtCap == \A j \in Jobs : budgetDenied[j] <=> AtCap(used[j], cap[j])
\* What acted, and what is still to act, was counted; the count that reached the budget acts not.
Spent(j) == acted[j] + (IF j = bound THEN Cardinality(Undispatched) ELSE 0)
CountedFirst ==
    \A j \in Jobs : Spent(j) <= used[j] /\ (cap[j] > 0 => Spent(j) < cap[j])
\* The writers of a refusal: their budget was reached; under the present one they are one, which has
\* the claim or has had it marked. One that has written has its entry.
WritersHold ==
    fails = 0 => \A c \in Callers : IsWriter(calls[c]) /\ calls[c].of = cap[bound] => claimed \/ reserved[bound]
WritersReached == \A c \in Callers : IsWriter(calls[c]) => AtCap(used[bound], calls[c].of)
OneOfABudget ==
    fails = 0 => \A c, d \in Callers : IsWriter(calls[c]) /\ IsWriter(calls[d]) /\ calls[c].of = calls[d].of => c = d
WrittenIsThere == \A c \in Callers : calls[c].at = "written" => audits[calls[c].pays] > 0

BudgetIInv ==
    /\ BudgetTypes /\ CapsInCaps /\ FlightsCount /\ PaysTheBound /\ FreshIsEmpty /\ DeniedAtCap /\ CountedFirst
    /\ ClaimHasHolder /\ ReservedIsAudited /\ WritersHold /\ WritersReached /\ OneOfABudget /\ WrittenIsThere

-----------------------------------------------------------------------------
\* The inductive invariant is enough.
LEMMA BudgetEnough == BudgetIInv => BudgetSafe
<1>. SUFFICES ASSUME BudgetIInv PROVE BudgetSafe
  OBVIOUS
<1>. USE DEF BudgetIInv
<1>1. BudgetTypeOK
  BY DEF BudgetTypes, CapsInCaps, BudgetTypeOK, CallOk, Counting, Acting, Rest
<1>2. BudgetHolds
  <2>1. IsFiniteSet(Undispatched)
    BY FS_Subset DEF Undispatched
  <2>2. Cardinality(Undispatched) \in Nat
    BY <2>1, FS_CardinalityType
  <2>. QED
    BY <2>2 DEF BudgetTypes, CountedFirst, Spent, BudgetHolds
<1>3. ActsForWhoPaid
  BY DEF BudgetTypes, PaysTheBound, ActsForWhoPaid, CallOk, Counting, Acting, Rest
<1>4. OneWriter
  BY DEF BudgetTypes, OneOfABudget, OneWriter, IsWriter, CallOk, Counting, Acting, Rest
<1>. QED
  BY <1>1, <1>2, <1>3, <1>4 DEF BudgetSafe

\* The first states
LEMMA BudgetStarts == BudgetInit => BudgetIInv
<1>. SUFFICES ASSUME BudgetInit PROVE BudgetIInv
  OBVIOUS
<1>1. Flying = {} /\ Undispatched = {}
  BY DEF BudgetInit, Flying, Undispatched, IsPending, Rest
<1>2. Cardinality(Flying) = 0 /\ Cardinality(Undispatched) = 0
  BY <1>1, FS_EmptySet
<1>3. BudgetTypes /\ CapsInCaps
  BY DEF BudgetInit, BudgetTypes, CapsInCaps, CallOk
<1>4. FlightsCount /\ FreshIsEmpty /\ DeniedAtCap /\ CountedFirst
  BY <1>2 DEF BudgetInit, FlightsCount, FreshIsEmpty, DeniedAtCap, CountedFirst, Spent, AtCap
<1>5. PaysTheBound /\ ClaimHasHolder /\ ReservedIsAudited /\ WritersHold /\ WritersReached /\ OneOfABudget /\ WrittenIsThere
  BY DEF BudgetInit, PaysTheBound, ClaimHasHolder, RetryClaimIsReleased, ReservedIsAudited,
       WritersHold, WritersReached,
     OneOfABudget, WrittenIsThere, IsWriter, Rest
<1>. QED
  BY <1>3, <1>4, <1>5 DEF BudgetIInv

\* Calls under way and calls still to act are finitely many.
LEMMA CallsFinite == IsFiniteSet(Flying) /\ IsFiniteSet(Undispatched) /\ Cardinality(Flying) \in Nat /\ Cardinality(Undispatched) \in Nat
<1>1. IsFiniteSet(Flying) /\ IsFiniteSet(Undispatched)
  BY FS_Subset DEF Flying, Undispatched
<1>. QED
  BY <1>1, FS_CardinalityType

\* The counts follow a change of one call.
LEMMA CallsCount ==
  ASSUME DOMAIN calls = Callers, NEW c \in Callers, NEW x, calls' = [calls EXCEPT ![c] = x]
  PROVE  /\ Cardinality(Flying') = Cardinality(Flying) + (IF x # Rest THEN 1 ELSE 0) - (IF calls[c] # Rest THEN 1 ELSE 0)
         /\ Cardinality(Undispatched') = Cardinality(Undispatched) + (IF IsPending(x) THEN 1 ELSE 0)
                                                         - (IF IsPending(calls[c]) THEN 1 ELSE 0)
<1>1. /\ Flying' = (IF x # Rest THEN Flying \cup {c} ELSE Flying \ {c})
      /\ c \in Flying <=> calls[c] # Rest
  BY DEF Flying
<1>2. /\ Undispatched' = (IF IsPending(x) THEN Undispatched \cup {c} ELSE Undispatched \ {c})
      /\ c \in Undispatched <=> IsPending(calls[c])
  BY DEF Undispatched
<1>3. ASSUME NEW S, IsFiniteSet(S)
      PROVE  /\ Cardinality(S) \in Nat
             /\ Cardinality(S \cup {c}) = IF c \in S THEN Cardinality(S) ELSE Cardinality(S) + 1
             /\ Cardinality(S \ {c}) = IF c \in S THEN Cardinality(S) - 1 ELSE Cardinality(S)
  BY <1>3, FS_AddElement, FS_RemoveElement, FS_CardinalityType
<1>4. IsFiniteSet(Flying) /\ IsFiniteSet(Undispatched)
  BY CallsFinite
<1>5. /\ Cardinality(Flying) \in Nat
      /\ Cardinality(Flying \cup {c}) = IF c \in Flying THEN Cardinality(Flying) ELSE Cardinality(Flying) + 1
      /\ Cardinality(Flying \ {c}) = IF c \in Flying THEN Cardinality(Flying) - 1 ELSE Cardinality(Flying)
  BY <1>3, <1>4
<1>6. /\ Cardinality(Undispatched) \in Nat
      /\ Cardinality(Undispatched \cup {c}) = IF c \in Undispatched THEN Cardinality(Undispatched) ELSE Cardinality(Undispatched) + 1
      /\ Cardinality(Undispatched \ {c}) = IF c \in Undispatched THEN Cardinality(Undispatched) - 1 ELSE Cardinality(Undispatched)
  BY <1>3, <1>4
<1>7. Cardinality(Flying') = Cardinality(Flying) + (IF x # Rest THEN 1 ELSE 0) - (IF calls[c] # Rest THEN 1 ELSE 0)
  BY <1>1, <1>5
<1>8. Cardinality(Undispatched') = Cardinality(Undispatched) + (IF IsPending(x) THEN 1 ELSE 0) - (IF IsPending(calls[c]) THEN 1 ELSE 0)
  BY <1>2, <1>6
<1>. QED
  BY <1>7, <1>8

\* A call is one that waits to be counted, that is counted, or that acts, and a writer's task is the bound one.
LEMMA CallShapes ==
  ASSUME BudgetIInv, NEW c \in Callers
  PROVE  /\ calls[c].at = "rest" <=> calls[c] = Rest
         /\ calls[c].at \in {"report", "audit", "written"} => calls[c] \in Counting /\ bound = calls[c].pays /\ bound \in Jobs
         /\ calls[c].at \in {"audit", "written"} => calls[c].over
         /\ calls[c].at = "acts" => calls[c] \in Acting /\ bound = calls[c].pays /\ calls[c].for = calls[c].pays
  BY DEF BudgetIInv, BudgetTypes, CallOk, Counting, Acting, Rest, PaysTheBound

\* No call is under way while none is in flight.
LEMMA NoneInFlight ==
  ASSUME BudgetIInv, flights = 0
  PROVE  /\ \A c \in Callers : calls[c] = Rest
         /\ Cardinality(Undispatched) = 0
<1>1. Flying = {}
  BY CallsFinite, FS_EmptySet DEF BudgetIInv, FlightsCount
<1>2. Undispatched = {}
  BY <1>1 DEF Undispatched, Flying, IsPending, Rest
<1>. QED
  BY <1>1, <1>2, FS_EmptySet DEF Flying

\* A computer is bound anew.
LEMMA BindKeeps == ASSUME BudgetIInv, NEW j \in Jobs, NEW k \in Caps, Bind(j, k) PROVE BudgetIInv'
<1>. USE DEF BudgetIInv, Bind, InsertBinding, SetCap
<1>1. /\ \A c \in Callers : calls[c] = Rest
      /\ Cardinality(Undispatched) = 0
  BY NoneInFlight
<1>2. used[j] = 0 /\ acted[j] = 0 /\ ~budgetDenied[j] /\ k \in Nat
  BY DEF FreshIsEmpty, BudgetTypes
<1>3. Flying' = Flying /\ Undispatched' = Undispatched
  BY DEF Flying, Undispatched
<1>4. BudgetTypes' /\ CapsInCaps' /\ FlightsCount'
  BY <1>2, <1>3 DEF BudgetTypes, CapsInCaps, FlightsCount
<1>5. FreshIsEmpty' /\ DeniedAtCap'
  BY <1>2 DEF BudgetTypes, FreshIsEmpty, DeniedAtCap, AtCap
<1>6. CountedFirst'
  BY <1>1, <1>2, <1>3 DEF BudgetTypes, CountedFirst, Spent
<1>7. PaysTheBound' /\ WritersHold' /\ WritersReached' /\ OneOfABudget' /\ WrittenIsThere'
  BY <1>1 DEF PaysTheBound, WritersHold, WritersReached, OneOfABudget, WrittenIsThere, IsWriter, Rest
<1>8. ClaimHasHolder' /\ ReservedIsAudited'
  BY DEF ClaimHasHolder, RetryClaimIsReleased, ReservedIsAudited
<1>. QED
  BY <1>4, <1>5, <1>6, <1>7, <1>8

\* A task is paused or ends.
LEMMA StatusKeeps == ASSUME BudgetIInv, NEW j \in Jobs, Pauses(j) \/ EndsJob(j) PROVE BudgetIInv'
<1>. USE DEF BudgetIInv
<1>1. /\ UNCHANGED <<bound, cap, used, budgetDenied, reserved, claimed, flights, calls, acted, audits, leaked, fails, quits>>
      /\ \E s \in {"paused", "ended"} : status' = [status EXCEPT ![j] = s]
  BY DEF Pauses, EndsJob
<1>2. Flying' = Flying /\ Undispatched' = Undispatched
  BY <1>1 DEF Flying, Undispatched
<1>3. BudgetTypes' /\ CapsInCaps' /\ FlightsCount' /\ FreshIsEmpty'
  BY <1>1, <1>2 DEF BudgetTypes, CapsInCaps, FlightsCount, FreshIsEmpty
<1>4. PaysTheBound' /\ DeniedAtCap' /\ ClaimHasHolder' /\ ReservedIsAudited'
  BY <1>1 DEF PaysTheBound, DeniedAtCap, ClaimHasHolder, RetryClaimIsReleased, ReservedIsAudited
<1>5. CountedFirst'
  BY <1>1, <1>2 DEF CountedFirst, Spent
<1>6. WritersHold' /\ WritersReached' /\ OneOfABudget' /\ WrittenIsThere'
  BY <1>1 DEF WritersHold, WritersReached, OneOfABudget, WrittenIsThere
<1>. QED
  BY <1>3, <1>4, <1>5, <1>6

\* A budget is raised: no writer's budget is the new one, which is not yet reached.
LEMMA ResumeKeeps == ASSUME BudgetIInv, NEW j \in Jobs, NEW k \in Caps, ResumesWith(j, k) PROVE BudgetIInv'
<1>. USE DEF BudgetIInv, ResumesWith, SetCap, Reprice
<1>1. k \in Nat /\ ~AtCap(used[j], k)
  OBVIOUS
<1>2. Flying' = Flying /\ Undispatched' = Undispatched
  BY DEF Flying, Undispatched
<1>3. BudgetTypes' /\ CapsInCaps' /\ FlightsCount' /\ PaysTheBound'
  BY <1>1, <1>2 DEF BudgetTypes, CapsInCaps, FlightsCount, PaysTheBound, AtCap
<1>4. FreshIsEmpty' /\ DeniedAtCap'
  BY <1>1 DEF BudgetTypes, FreshIsEmpty, DeniedAtCap
<1>5. CountedFirst'
  <2>. SUFFICES ASSUME NEW i \in Jobs
                PROVE  Spent(i)' <= used'[i] /\ (cap'[i] > 0 => Spent(i)' < cap'[i])
    BY DEF CountedFirst
  <2>1. Spent(i)' = Spent(i) /\ Spent(i) <= used[i] /\ used'[i] = used[i] /\ Spent(i) \in Nat
    BY <1>2, CallsFinite DEF Spent, CountedFirst, BudgetTypes
  <2>. QED
    BY <1>1, <2>1 DEF CountedFirst, BudgetTypes, AtCap
<1>6. WritersHold' /\ WritersReached'
  BY <1>1, CallShapes DEF BudgetTypes, WritersHold, WritersReached, IsWriter
<1>7. ClaimHasHolder' /\ ReservedIsAudited' /\ OneOfABudget' /\ WrittenIsThere'
  BY DEF BudgetTypes, ClaimHasHolder, RetryClaimIsReleased, ReservedIsAudited, OneOfABudget,
       WrittenIsThere
<1>. QED
  BY <1>3, <1>4, <1>5, <1>6, <1>7

\* A call is counted: if it reaches the budget no writer of that budget was there.
LEMMA CountKeeps == ASSUME BudgetIInv, NEW c \in Callers, CallCounted(c) PROVE BudgetIInv'
<1>. DEFINE over == AtCap(used[bound] + 1, cap[bound])
            x == [at |-> "report", pays |-> bound, over |-> over, of |-> cap[bound]]
<1>1. /\ calls[c] = Rest /\ bound \in Jobs /\ ~budgetDenied[bound] /\ status[bound] = "running"
      /\ used' = [used EXCEPT ![bound] = used[bound] + 1] /\ budgetDenied' = [budgetDenied EXCEPT ![bound] = over]
      /\ reserved' = [reserved EXCEPT ![bound] = FALSE] /\ claimed' = (claimed \/ over)
      /\ calls' = [calls EXCEPT ![c] = x] /\ flights' = flights + 1
      /\ UNCHANGED <<bound, status, cap, acted, audits, leaked, fails, quits>>
  BY DEF BudgetIInv, BudgetTypes, CallCounted, Charged
<1>2. over \in BOOLEAN /\ x # Rest /\ x \in Counting /\ x.at = "report" /\ x.pays = bound /\ x.of = cap[bound] /\ x.over = over
  BY <1>1 DEF BudgetIInv, BudgetTypes, AtCap, Counting, Rest
<1>. HIDE DEF x
<1>3. /\ Cardinality(Flying') = Cardinality(Flying) + 1
      /\ Cardinality(Undispatched') = Cardinality(Undispatched) + (IF over THEN 0 ELSE 1)
  <2>1. ~IsPending(calls[c]) /\ (IsPending(x) <=> ~over)
    BY <1>1, <1>2 DEF IsPending, Rest
  <2>2. DOMAIN calls = Callers
    BY DEF BudgetIInv, BudgetTypes
  <2>3. /\ Cardinality(Flying') = Cardinality(Flying) + (IF x # Rest THEN 1 ELSE 0) - (IF calls[c] # Rest THEN 1 ELSE 0)
        /\ Cardinality(Undispatched') = Cardinality(Undispatched) + (IF IsPending(x) THEN 1 ELSE 0)
                                                        - (IF IsPending(calls[c]) THEN 1 ELSE 0)
    BY <1>1, <2>2, CallsCount
  <2>. QED
    BY <1>1, <1>2, <2>1, <2>3, CallsFinite
<1>. USE DEF BudgetIInv
<1>4. BudgetTypes' /\ CapsInCaps' /\ FlightsCount' /\ PaysTheBound'
  BY <1>1, <1>2, <1>3 DEF BudgetTypes, CapsInCaps, FlightsCount, PaysTheBound, CallOk
<1>5. FreshIsEmpty' /\ DeniedAtCap'
  BY <1>1 DEF BudgetTypes, FreshIsEmpty, DeniedAtCap
<1>6. CountedFirst'
  <2>. SUFFICES ASSUME NEW i \in Jobs
                PROVE  Spent(i)' <= used'[i] /\ (cap'[i] > 0 => Spent(i)' < cap'[i])
    BY DEF CountedFirst
  <2>1. Cardinality(Undispatched) \in Nat
    BY CallsFinite
  <2>2. CASE i # bound
    BY <1>1, <2>2 DEF CountedFirst, Spent, BudgetTypes
  <2>3. CASE i = bound
    <3>1. Spent(i)' = Spent(i) + (IF over THEN 0 ELSE 1) /\ Spent(i) \in Nat
      BY <1>1, <1>3, <2>1, <2>3 DEF Spent, BudgetTypes
    <3>2. Spent(i) <= used[i] /\ (cap[i] > 0 => Spent(i) < cap[i])
      BY DEF CountedFirst
    <3>. QED
      BY <1>1, <2>3, <3>1, <3>2 DEF BudgetTypes, AtCap
  <2>. QED
    BY <2>2, <2>3
<1>7. ASSUME NEW d \in Callers, IsWriter(calls[d]) PROVE d # c /\ calls[d].of # cap[bound]
  BY <1>1, <1>7, CallShapes DEF WritersReached, DeniedAtCap, IsWriter, Rest
<1>8. \A d \in Callers : calls'[d] = IF d = c THEN x ELSE calls[d]
  BY <1>1 DEF BudgetTypes
<1>9. WritersHold' /\ OneOfABudget'
  BY <1>1, <1>2, <1>7, <1>8 DEF WritersHold, OneOfABudget, IsWriter
<1>10. WritersReached'
  BY <1>1, <1>2, <1>8 DEF WritersReached, IsWriter, AtCap, BudgetTypes, CallOk, Counting, Acting, Rest
<1>11. ClaimHasHolder' /\ ReservedIsAudited' /\ WrittenIsThere'
  BY <1>1, <1>2, <1>8 DEF ClaimHasHolder, RetryClaimIsReleased, ReservedIsAudited, WrittenIsThere,
       BudgetTypes, Rest
<1>. QED
  BY <1>4, <1>5, <1>6, <1>9, <1>10, <1>11

\* Nothing changes.
LEMMA StutterKeeps == ASSUME BudgetIInv, UNCHANGED harnessVars PROVE BudgetIInv'
<1>. USE DEF BudgetIInv, harnessVars
<1>1. Flying' = Flying /\ Undispatched' = Undispatched
  BY DEF Flying, Undispatched
<1>2. BudgetTypes' /\ CapsInCaps' /\ FlightsCount' /\ PaysTheBound' /\ FreshIsEmpty'
  BY <1>1 DEF BudgetTypes, CapsInCaps, FlightsCount, PaysTheBound, FreshIsEmpty
<1>3. DeniedAtCap' /\ CountedFirst' /\ ClaimHasHolder' /\ ReservedIsAudited'
  BY <1>1 DEF DeniedAtCap, CountedFirst, Spent, ClaimHasHolder, RetryClaimIsReleased, ReservedIsAudited
<1>4. WritersHold' /\ WritersReached' /\ OneOfABudget' /\ WrittenIsThere'
  BY DEF WritersHold, WritersReached, OneOfABudget, WrittenIsThere
<1>. QED
  BY <1>2, <1>3, <1>4

\* A call that begins to act, acts on or comes to rest, and was neither a writer nor to be counted: the rest
\* is as it was.
LEMMA ActsOrRests ==
  ASSUME BudgetIInv, NEW c \in Callers, NEW x, calls' = [calls EXCEPT ![c] = x],
         calls[c].at \in {"rest", "acts"}, x = Rest \/ (x \in Acting /\ x.for = x.pays /\ x.pays = bound),
         flights' = flights + (IF x # Rest THEN 1 ELSE 0) - (IF calls[c] # Rest THEN 1 ELSE 0),
         UNCHANGED <<bound, status, cap, used, budgetDenied, reserved, claimed, acted, audits, leaked, fails, quits>>
  PROVE  BudgetIInv'
<1>. USE DEF BudgetIInv
<1>1. x.at \in {"rest", "acts"} /\ CallOk(x)
  BY DEF Acting, Rest, CallOk
<1>2. /\ Cardinality(Flying') = Cardinality(Flying) + (IF x # Rest THEN 1 ELSE 0) - (IF calls[c] # Rest THEN 1 ELSE 0)
      /\ Cardinality(Undispatched') = Cardinality(Undispatched)
  <2>1. ~IsPending(calls[c]) /\ ~IsPending(x)
    BY <1>1 DEF IsPending
  <2>2. DOMAIN calls = Callers
    BY DEF BudgetIInv, BudgetTypes
  <2>3. /\ Cardinality(Flying') = Cardinality(Flying) + (IF x # Rest THEN 1 ELSE 0) - (IF calls[c] # Rest THEN 1 ELSE 0)
        /\ Cardinality(Undispatched') = Cardinality(Undispatched) + (IF IsPending(x) THEN 1 ELSE 0)
                                                        - (IF IsPending(calls[c]) THEN 1 ELSE 0)
    BY <2>2, CallsCount
  <2>. QED
    BY <2>1, <2>3, CallsFinite
<1>3. flights' = Cardinality(Flying') /\ flights' \in Nat
  <2>1. IsFiniteSet(Flying')
    BY FS_Subset DEF Flying
  <2>2. Cardinality(Flying') \in Nat
    BY <2>1, FS_CardinalityType
  <2>. QED
    BY <1>2, <2>2, CallsFinite DEF FlightsCount
<1>4. \A d \in Callers : calls'[d] = IF d = c THEN x ELSE calls[d]
  BY DEF BudgetTypes
<1>5. BudgetTypes' /\ CapsInCaps' /\ FlightsCount' /\ FreshIsEmpty'
  BY <1>1, <1>3, <1>4 DEF BudgetTypes, CapsInCaps, FlightsCount, FreshIsEmpty
<1>6. PaysTheBound'
  BY <1>4 DEF PaysTheBound
<1>7. DeniedAtCap' /\ CountedFirst' /\ ReservedIsAudited'
  BY <1>2 DEF DeniedAtCap, CountedFirst, Spent, ReservedIsAudited
<1>8. ClaimHasHolder' /\ WritersHold' /\ WritersReached' /\ OneOfABudget' /\ WrittenIsThere'
  BY <1>1, <1>4 DEF ClaimHasHolder, RetryClaimIsReleased, WritersHold, WritersReached, OneOfABudget,
       WrittenIsThere, IsWriter
<1>. QED
  BY <1>5, <1>6, <1>7, <1>8

\* A refused call writes the refusal if nobody has: no writer of this budget was there.
LEMMA RefuseKeeps == ASSUME BudgetIInv, NEW c \in Callers, CallRefused(c) PROVE BudgetIInv'
<1>. DEFINE x == [at |-> "audit", pays |-> bound, over |-> TRUE, of |-> cap[bound]]
<1>1. /\ calls[c] = Rest /\ bound \in Jobs /\ budgetDenied[bound] /\ status[bound] = "running"
      /\ UNCHANGED <<bound, status, cap, used, budgetDenied, reserved, acted, audits, leaked, fails, quits>>
  BY DEF BudgetIInv, BudgetTypes, CallRefused, Charged
<1>2. CASE reserved[bound] \/ claimed
  <2>1. UNCHANGED harnessVars
    BY <1>1, <1>2 DEF CallRefused, Charged, harnessVars
  <2>. QED
    BY <2>1, StutterKeeps
<1>3. CASE ~reserved[bound] /\ ~claimed
  <2>1. claimed' = TRUE /\ flights' = flights + 1 /\ calls' = [calls EXCEPT ![c] = x]
    BY <1>3 DEF CallRefused, Charged
  <2>2. x # Rest /\ x \in Counting /\ x.at = "audit" /\ x.pays = bound /\ x.of = cap[bound] /\ x.over
    BY <1>1 DEF BudgetIInv, BudgetTypes, Counting, Rest
  <2>. HIDE DEF x
  <2>3. Cardinality(Flying') = Cardinality(Flying) + 1 /\ Cardinality(Undispatched') = Cardinality(Undispatched)
    <3>1. ~IsPending(calls[c]) /\ ~IsPending(x)
      BY <1>1, <2>2 DEF IsPending, Rest
    <3>2. DOMAIN calls = Callers
      BY DEF BudgetIInv, BudgetTypes
    <3>3. /\ Cardinality(Flying') = Cardinality(Flying) + (IF x # Rest THEN 1 ELSE 0) - (IF calls[c] # Rest THEN 1 ELSE 0)
          /\ Cardinality(Undispatched') = Cardinality(Undispatched) + (IF IsPending(x) THEN 1 ELSE 0)
                                                          - (IF IsPending(calls[c]) THEN 1 ELSE 0)
      BY <2>1, <3>2, CallsCount
    <3>. QED
      BY <1>1, <2>2, <3>1, <3>3, CallsFinite
  <2>. USE DEF BudgetIInv
  <2>4. BudgetTypes' /\ CapsInCaps' /\ FlightsCount' /\ PaysTheBound'
    BY <1>1, <2>1, <2>2, <2>3 DEF BudgetTypes, CapsInCaps, FlightsCount, PaysTheBound, CallOk
  <2>5. FreshIsEmpty' /\ DeniedAtCap' /\ CountedFirst'
    BY <1>1, <2>3 DEF FreshIsEmpty, DeniedAtCap, CountedFirst, Spent
  <2>6. \A d \in Callers : calls'[d] = IF d = c THEN x ELSE calls[d]
    BY <2>1 DEF BudgetTypes
  <2>7. WritersHold' /\ OneOfABudget' /\ WritersReached'
    BY <1>1, <1>3, <2>1, <2>2, <2>6 DEF WritersHold, OneOfABudget, WritersReached, DeniedAtCap, IsWriter
  <2>8. ClaimHasHolder' /\ ReservedIsAudited' /\ WrittenIsThere'
    BY <1>1, <2>1, <2>2, <2>6 DEF ClaimHasHolder, RetryClaimIsReleased, ReservedIsAudited,
         WrittenIsThere
  <2>. QED
    BY <2>4, <2>5, <2>7, <2>8
<1>. QED
  BY <1>2, <1>3

\* A call of a computer that is bound to no task
LEMMA UnboundKeeps == ASSUME BudgetIInv, NEW c \in Callers, CallUnbound(c) PROVE BudgetIInv'
<1>. DEFINE x == [at |-> "acts", pays |-> Nobody, for |-> Nobody, told |-> FALSE]
<1>1. /\ calls[c] = Rest /\ bound = Nobody /\ flights' = flights + 1 /\ calls' = [calls EXCEPT ![c] = x]
      /\ UNCHANGED <<bound, status, cap, used, budgetDenied, reserved, claimed, acted, audits, leaked, fails, quits>>
  BY DEF CallUnbound
<1>2. x # Rest /\ x \in Acting /\ x.for = x.pays /\ x.pays = bound /\ x.at = "acts"
  BY <1>1 DEF Acting, Rest
<1>. HIDE DEF x
<1>3. calls[c].at = "rest" /\ flights' = flights + (IF x # Rest THEN 1 ELSE 0) - (IF calls[c] # Rest THEN 1 ELSE 0)
  BY <1>1, <1>2 DEF Rest, BudgetIInv, BudgetTypes
<1>. QED
  BY <1>1, <1>2, <1>3, ActsOrRests

\* A caller gives up, or an act ends.
LEMMA ActKeeps == ASSUME BudgetIInv, NEW c \in Callers, GivesUp(c) \/ BudgetSettles(c) PROVE BudgetIInv'
<1>1. calls[c].at = "acts" /\ calls[c] \in Acting /\ calls[c] # Rest /\ calls[c].for = calls[c].pays /\ calls[c].pays = bound
  BY CallShapes DEF GivesUp, BudgetSettles, Rest, Acting
<1>2. CASE GivesUp(c)
  <2>. DEFINE x == [calls[c] EXCEPT !.told = TRUE]
  <2>1. x \in Acting /\ x.for = x.pays /\ x.pays = bound /\ x # Rest
    BY <1>1 DEF Acting, Rest
  <2>2. calls' = [calls EXCEPT ![c] = x]
    BY <1>2, <1>1 DEF GivesUp, BudgetIInv, BudgetTypes
  <2>3. flights' = flights + 1 - 1
    BY <1>2 DEF GivesUp, BudgetIInv, BudgetTypes
  <2>. HIDE DEF x
  <2>. QED
    BY <1>1, <1>2, <2>1, <2>2, <2>3, ActsOrRests DEF GivesUp
<1>3. CASE BudgetSettles(c)
  <2>1. flights' = flights + 0 - 1 /\ calls' = [calls EXCEPT ![c] = Rest]
    BY <1>3 DEF BudgetSettles, Lands, BudgetIInv, BudgetTypes
  <2>. QED
    BY <1>1, <1>3, <2>1, ActsOrRests DEF BudgetSettles
<1>. QED
  BY <1>2, <1>3

\* A call that was counted moves on, or its count is lost: the number of calls under way and of those
\* still to act, and what is kept whatever it moves on to.
LEMMA CountedMoves ==
  ASSUME BudgetIInv, NEW c \in Callers, calls[c] \in Counting, NEW x, calls' = [calls EXCEPT ![c] = x],
         CallOk(x), ~IsPending(x), x = Rest \/ x.pays = bound,
         flights' = flights - (IF x = Rest THEN 1 ELSE 0),
         UNCHANGED <<bound, status, cap, used, budgetDenied>>,
         acted' \in [Jobs -> Nat], audits' \in [Jobs -> Nat], reserved' \in [Jobs -> BOOLEAN],
         claimed' \in BOOLEAN, leaked' \in BOOLEAN, fails' \in Nat, quits' \in Nat
  PROVE  /\ BudgetTypes' /\ CapsInCaps' /\ FlightsCount' /\ PaysTheBound' /\ DeniedAtCap'
         /\ Cardinality(Undispatched') \in Nat
         /\ Cardinality(Undispatched') = Cardinality(Undispatched) - (IF IsPending(calls[c]) THEN 1 ELSE 0)
         /\ \A d \in Callers : calls'[d] = IF d = c THEN x ELSE calls[d]
<1>. USE DEF BudgetIInv
<1>1. calls[c] # Rest /\ DOMAIN calls = Callers
  BY DEF Counting, Rest, BudgetTypes
<1>2. /\ Cardinality(Flying') = Cardinality(Flying) + (IF x # Rest THEN 1 ELSE 0) - (IF calls[c] # Rest THEN 1 ELSE 0)
      /\ Cardinality(Undispatched') = Cardinality(Undispatched) + (IF IsPending(x) THEN 1 ELSE 0)
                                                      - (IF IsPending(calls[c]) THEN 1 ELSE 0)
  BY <1>1, CallsCount
<1>3. IsFiniteSet(Flying') /\ IsFiniteSet(Undispatched')
  BY FS_Subset DEF Flying, Undispatched
<1>4. Cardinality(Flying') \in Nat /\ Cardinality(Undispatched') \in Nat
  BY <1>3, FS_CardinalityType
<1>5. flights' = Cardinality(Flying') /\ flights' \in Nat
  BY <1>1, <1>2, <1>4, CallsFinite DEF FlightsCount
<1>6. \A d \in Callers : calls'[d] = IF d = c THEN x ELSE calls[d]
  BY <1>1
<1>7. BudgetTypes' /\ CapsInCaps' /\ FlightsCount'
  BY <1>5, <1>6 DEF BudgetTypes, CapsInCaps, FlightsCount
<1>8. PaysTheBound' /\ DeniedAtCap'
  BY <1>6 DEF PaysTheBound, DeniedAtCap
<1>9. Cardinality(Undispatched') = Cardinality(Undispatched) - (IF IsPending(calls[c]) THEN 1 ELSE 0)
  BY <1>2, CallsFinite
<1>. QED
  BY <1>4, <1>6, <1>7, <1>8, <1>9

\* The usage event of a call is written: a refused one goes on to its audit, another one acts.
LEMMA ReportKeeps == ASSUME BudgetIInv, NEW c \in Callers, Reported(c) PROVE BudgetIInv'
<1>1. /\ calls[c].at = "report" /\ calls[c] \in Counting /\ calls[c].pays = bound /\ bound \in Jobs
      /\ UNCHANGED <<bound, status, cap, used, budgetDenied, reserved, claimed, flights, audits, leaked, fails, quits>>
  BY CallShapes DEF Reported, BudgetDispatches
<1>2. CASE calls[c].over
  <2>. DEFINE x == [calls[c] EXCEPT !.at = "audit"]
  <2>1. /\ x \in Counting /\ x.over /\ x.at = "audit" /\ x.pays = bound /\ x.of = calls[c].of /\ x # Rest
        /\ CallOk(x) /\ ~IsPending(x) /\ ~IsPending(calls[c]) /\ IsWriter(x) /\ IsWriter(calls[c])
    BY <1>1, <1>2 DEF Counting, Rest, CallOk, IsPending, IsWriter
  <2>2. calls' = [calls EXCEPT ![c] = x] /\ acted' = acted
    BY <1>1, <1>2 DEF Reported, BudgetDispatches, BudgetIInv, BudgetTypes
  <2>. HIDE DEF x
  <2>3. flights' = flights - 0
    BY <1>1 DEF BudgetIInv, BudgetTypes
  <2>4. /\ BudgetTypes' /\ CapsInCaps' /\ FlightsCount' /\ PaysTheBound' /\ DeniedAtCap'
        /\ Cardinality(Undispatched') = Cardinality(Undispatched) - 0
        /\ \A d \in Callers : calls'[d] = IF d = c THEN x ELSE calls[d]
    BY <1>1, <2>1, <2>2, <2>3, CountedMoves DEF BudgetIInv, BudgetTypes
  <2>5. FreshIsEmpty' /\ CountedFirst' /\ ReservedIsAudited'
    BY <1>1, <2>2, <2>4, CallsFinite DEF BudgetIInv, FreshIsEmpty, CountedFirst, Spent,
         ReservedIsAudited
  <2>6. WritersHold' /\ WritersReached' /\ OneOfABudget'
    BY <1>1, <2>1, <2>4 DEF BudgetIInv, WritersHold, WritersReached, OneOfABudget
  <2>7. ClaimHasHolder' /\ WrittenIsThere'
    BY <1>1, <2>1, <2>4 DEF BudgetIInv, ClaimHasHolder, RetryClaimIsReleased, WrittenIsThere
  <2>. QED
    BY <2>4, <2>5, <2>6, <2>7 DEF BudgetIInv
<1>3. CASE ~calls[c].over
  <2>. DEFINE x == [at |-> "acts", pays |-> calls[c].pays, for |-> bound, told |-> FALSE]
  <2>1. /\ x \in Acting /\ x.for = x.pays /\ x.pays = bound /\ x.at = "acts" /\ x # Rest
        /\ CallOk(x) /\ ~IsPending(x) /\ IsPending(calls[c]) /\ ~IsWriter(x) /\ ~IsWriter(calls[c])
    BY <1>1, <1>3 DEF Acting, Rest, CallOk, IsPending, IsWriter
  <2>2. calls' = [calls EXCEPT ![c] = x] /\ acted' = [acted EXCEPT ![bound] = acted[bound] + 1]
    BY <1>3 DEF Reported, BudgetDispatches
  <2>. HIDE DEF x
  <2>3. flights' = flights - 0 /\ acted' \in [Jobs -> Nat]
    BY <1>1, <2>2 DEF BudgetIInv, BudgetTypes
  <2>4. /\ BudgetTypes' /\ CapsInCaps' /\ FlightsCount' /\ PaysTheBound' /\ DeniedAtCap'
        /\ Cardinality(Undispatched') = Cardinality(Undispatched) - 1
        /\ \A d \in Callers : calls'[d] = IF d = c THEN x ELSE calls[d]
    BY <1>1, <2>1, <2>2, <2>3, CountedMoves DEF BudgetIInv, BudgetTypes
  <2>5. \A j \in Jobs : Spent(j)' = Spent(j)
    BY <1>1, <2>2, <2>4, CallsFinite DEF Spent, BudgetIInv, BudgetTypes
  <2>6. CountedFirst' /\ ReservedIsAudited'
    BY <1>1, <2>5 DEF BudgetIInv, CountedFirst, ReservedIsAudited
  <2>7. status[bound] # "none"
    <3>1. acted[bound] + Cardinality(Undispatched) <= used[bound] /\ Cardinality(Undispatched) # 0
      BY <1>1, <2>1, CallsFinite, FS_EmptySet DEF BudgetIInv, CountedFirst, Spent, Undispatched
    <3>. QED
      BY <1>1, <3>1, CallsFinite DEF BudgetIInv, FreshIsEmpty, BudgetTypes
  <2>8. FreshIsEmpty'
    BY <1>1, <2>2, <2>7 DEF BudgetIInv, FreshIsEmpty, BudgetTypes
  <2>9. WritersHold' /\ WritersReached' /\ OneOfABudget'
    BY <1>1, <2>1, <2>4 DEF BudgetIInv, WritersHold, WritersReached, OneOfABudget
  <2>10. ClaimHasHolder' /\ WrittenIsThere'
    BY <1>1, <2>1, <2>4 DEF BudgetIInv, ClaimHasHolder, RetryClaimIsReleased, WrittenIsThere, IsWriter
  <2>. QED
    BY <2>4, <2>6, <2>8, <2>9, <2>10 DEF BudgetIInv
<1>. QED
  BY <1>2, <1>3

\* The usage event of a call cannot be written: a refused one leaves its claim behind, which is known.
LEMMA ReportLostKeeps == ASSUME BudgetIInv, NEW c \in Callers, ReportLost(c) PROVE BudgetIInv'
<1>1. /\ calls[c].at = "report" /\ calls[c] \in Counting /\ calls[c].pays = bound
      /\ calls' = [calls EXCEPT ![c] = Rest] /\ flights' = flights - 1 /\ fails' = fails + 1
      /\ leaked' = (leaked \/ calls[c].over)
      /\ UNCHANGED <<bound, status, cap, used, budgetDenied, reserved, claimed, acted, audits, quits>>
  BY CallShapes DEF ReportLost, Lands
<1>2. CallOk(Rest) /\ ~IsPending(Rest) /\ ~IsWriter(Rest) /\ Rest.at = "rest"
  BY DEF CallOk, IsPending, IsWriter, Rest
<1>3. calls[c].over \in BOOLEAN /\ leaked' \in BOOLEAN /\ fails' \in Nat /\ fails' # 0
  BY <1>1 DEF Counting, BudgetIInv, BudgetTypes
<1>4. /\ BudgetTypes' /\ CapsInCaps' /\ FlightsCount' /\ PaysTheBound' /\ DeniedAtCap'
      /\ Cardinality(Undispatched') \in Nat
      /\ Cardinality(Undispatched') = Cardinality(Undispatched) - (IF IsPending(calls[c]) THEN 1 ELSE 0)
      /\ \A d \in Callers : calls'[d] = IF d = c THEN Rest ELSE calls[d]
  BY <1>1, <1>2, <1>3, CountedMoves DEF BudgetIInv, BudgetTypes
<1>5. FreshIsEmpty' /\ ReservedIsAudited'
  BY <1>1 DEF BudgetIInv, FreshIsEmpty, ReservedIsAudited
<1>6. CountedFirst'
  <2>. SUFFICES ASSUME NEW j \in Jobs
                PROVE  Spent(j)' <= used'[j] /\ (cap'[j] > 0 => Spent(j)' < cap'[j])
    BY DEF CountedFirst
  <2>1. Spent(j) \in Nat /\ Spent(j)' \in Nat /\ Spent(j)' <= Spent(j)
    BY <1>1, <1>4, CallsFinite DEF Spent, BudgetIInv, BudgetTypes
  <2>. QED
    BY <1>1, <2>1 DEF BudgetIInv, BudgetTypes, CountedFirst
<1>7. WritersHold' /\ WritersReached' /\ OneOfABudget' /\ WrittenIsThere'
  BY <1>1, <1>2, <1>3, <1>4 DEF BudgetIInv, WritersHold, WritersReached, OneOfABudget, WrittenIsThere
<1>8. ClaimHasHolder'
  BY <1>1, <1>4 DEF BudgetIInv, ClaimHasHolder, RetryClaimIsReleased
<1>. QED
  BY <1>4, <1>5, <1>6, <1>7, <1>8 DEF BudgetIInv

\* A refusal is written.
LEMMA AppendKeeps == ASSUME BudgetIInv, NEW c \in Callers, Appends(c) PROVE BudgetIInv'
<1>. DEFINE x == [calls[c] EXCEPT !.at = "written"]
<1>1. /\ calls[c].at = "audit" /\ calls[c] \in Counting /\ calls[c].pays = bound /\ calls[c].over /\ bound \in Jobs
      /\ UNCHANGED <<bound, status, cap, used, budgetDenied, reserved, claimed, flights, acted, leaked, fails, quits>>
  BY CallShapes DEF Appends
<1>2. /\ x \in Counting /\ x.over /\ x.at = "written" /\ x.pays = bound /\ x.of = calls[c].of /\ x # Rest
      /\ CallOk(x) /\ ~IsPending(x) /\ ~IsPending(calls[c]) /\ IsWriter(x) /\ IsWriter(calls[c])
  BY <1>1 DEF Counting, Rest, CallOk, IsPending, IsWriter
<1>3. calls' = [calls EXCEPT ![c] = x] /\ audits' = [audits EXCEPT ![bound] = audits[bound] + 1] /\ flights' = flights - 0
  BY <1>1 DEF Appends, BudgetIInv, BudgetTypes
<1>. HIDE DEF x
<1>4. audits' \in [Jobs -> Nat] /\ audits'[bound] > 0 /\ \A j \in Jobs : audits'[j] >= audits[j]
  BY <1>1, <1>3 DEF BudgetIInv, BudgetTypes
<1>5. /\ BudgetTypes' /\ CapsInCaps' /\ FlightsCount' /\ PaysTheBound' /\ DeniedAtCap'
      /\ Cardinality(Undispatched') = Cardinality(Undispatched) - 0
      /\ \A d \in Callers : calls'[d] = IF d = c THEN x ELSE calls[d]
  BY <1>1, <1>2, <1>3, <1>4, CountedMoves DEF BudgetIInv, BudgetTypes
<1>6. FreshIsEmpty' /\ CountedFirst'
  BY <1>1, <1>5, CallsFinite DEF BudgetIInv, FreshIsEmpty, CountedFirst, Spent
<1>7. ReservedIsAudited'
  BY <1>1, <1>4 DEF BudgetIInv, BudgetTypes, ReservedIsAudited
<1>8. WritersHold' /\ WritersReached' /\ OneOfABudget'
  BY <1>1, <1>2, <1>5 DEF BudgetIInv, WritersHold, WritersReached, OneOfABudget
<1>9. ClaimHasHolder'
  BY <1>1, <1>2, <1>5 DEF BudgetIInv, ClaimHasHolder, RetryClaimIsReleased
<1>10. WrittenIsThere'
  <2>. SUFFICES ASSUME NEW d \in Callers, calls'[d].at = "written" PROVE audits'[calls'[d].pays] > 0
    BY DEF WrittenIsThere
  <2>1. CASE d = c
    BY <1>2, <1>4, <1>5, <2>1
  <2>2. CASE d # c
    <3>1. calls'[d] = calls[d] /\ audits[calls[d].pays] > 0 /\ calls[d].pays \in Jobs
      BY <1>5, <2>2, CallShapes DEF BudgetIInv, WrittenIsThere, Counting
    <3>. QED
      BY <1>4, <3>1 DEF BudgetIInv, BudgetTypes
  <2>. QED
    BY <2>1, <2>2
<1>. QED
  BY <1>5, <1>6, <1>7, <1>8, <1>9, <1>10 DEF BudgetIInv

\* A writer is done: what it wrote is marked where the refusal still stands, and the claim is given up.
LEMMA AuditKeeps == ASSUME BudgetIInv, NEW c \in Callers, Audited(c) \/ AuditLost(c) PROVE BudgetIInv'
<1>1. /\ calls[c].at \in {"audit", "written"} /\ calls[c] \in Counting /\ calls[c].pays = bound /\ calls[c].over /\ bound \in Jobs
      /\ calls' = [calls EXCEPT ![c] = Rest] /\ flights' = flights - 1 /\ claimed' = FALSE
      /\ UNCHANGED <<bound, status, cap, used, budgetDenied, acted, audits, leaked, quits>>
  BY CallShapes DEF Audited, AuditLost, Lands, Finishes
<1>2. \/ /\ fails' = fails /\ calls[c].at = "written"
         /\ reserved' = IF budgetDenied[bound] THEN [reserved EXCEPT ![bound] = TRUE] ELSE reserved
      \/ fails' = fails + 1 /\ reserved' = reserved
  BY <1>1 DEF Audited, AuditLost, Finishes
<1>3. CallOk(Rest) /\ ~IsPending(Rest) /\ ~IsWriter(Rest) /\ Rest.at = "rest" /\ ~IsPending(calls[c])
  BY <1>1 DEF CallOk, IsPending, IsWriter, Rest
<1>4. reserved' \in [Jobs -> BOOLEAN] /\ fails' \in Nat
  <2>1. /\ reserved \in [Jobs -> BOOLEAN] /\ [reserved EXCEPT ![bound] = TRUE] \in [Jobs -> BOOLEAN]
        /\ fails \in Nat /\ fails + 1 \in Nat
    BY <1>1 DEF BudgetIInv, BudgetTypes
  <2>2. reserved' = reserved \/ reserved' = [reserved EXCEPT ![bound] = TRUE]
    BY <1>2
  <2>3. fails' = fails \/ fails' = fails + 1
    BY <1>2
  <2>. QED
    BY <2>1, <2>2, <2>3
<1>5. /\ BudgetTypes' /\ CapsInCaps' /\ FlightsCount' /\ PaysTheBound' /\ DeniedAtCap'
      /\ Cardinality(Undispatched') = Cardinality(Undispatched) - 0
      /\ \A d \in Callers : calls'[d] = IF d = c THEN Rest ELSE calls[d]
  BY <1>1, <1>3, <1>4, CountedMoves DEF BudgetIInv, BudgetTypes
<1>6. FreshIsEmpty' /\ CountedFirst'
  BY <1>1, <1>5, CallsFinite DEF BudgetIInv, FreshIsEmpty, CountedFirst, Spent
<1>7. ReservedIsAudited'
  BY <1>1, <1>2 DEF BudgetIInv, BudgetTypes, ReservedIsAudited, WrittenIsThere
<1>8. WritersHold'
  <2>. SUFFICES ASSUME fails' = 0, NEW d \in Callers, IsWriter(calls'[d]), calls'[d].of = cap'[bound']
                PROVE  reserved'[bound']
    BY DEF WritersHold
  <2>1. calls'[d] = calls[d] /\ IsWriter(calls[d]) /\ calls[d].of = cap[bound]
    BY <1>1, <1>3, <1>5
  <2>2. budgetDenied[bound]
    BY <1>1, <2>1 DEF BudgetIInv, WritersReached, DeniedAtCap
  <2>3. fails' # fails + 1
    BY DEF BudgetIInv, BudgetTypes
  <2>. QED
    BY <1>1, <1>2, <2>2, <2>3 DEF BudgetIInv, BudgetTypes
<1>9. OneOfABudget'
  <2>1. fails' = 0 => fails = 0
    BY <1>2 DEF BudgetIInv, BudgetTypes
  <2>. QED
    BY <1>3, <1>5, <2>1 DEF BudgetIInv, OneOfABudget
<1>10. WritersReached' /\ WrittenIsThere' /\ ClaimHasHolder'
  BY <1>1, <1>3, <1>5 DEF BudgetIInv, WritersReached, WrittenIsThere, ClaimHasHolder,
       RetryClaimIsReleased
<1>. QED
  BY <1>5, <1>6, <1>7, <1>8, <1>9, <1>10 DEF BudgetIInv

\* The daemon ends: what is under way ends with it.
LEMMA QuitKeeps == ASSUME BudgetIInv, DaemonQuits PROVE BudgetIInv'
<1>. USE DEF BudgetIInv, DaemonQuits
<1>1. \A c \in Callers : calls'[c] = Rest
  OBVIOUS
<1>2. Flying' = {} /\ Undispatched' = {}
  BY <1>1 DEF Flying, Undispatched, IsPending, Rest
<1>3. Cardinality(Flying') = 0 /\ Cardinality(Undispatched') = 0
  BY <1>2, FS_EmptySet
<1>4. BudgetTypes' /\ CapsInCaps' /\ FlightsCount' /\ FreshIsEmpty' /\ DeniedAtCap'
  <2>1. DOMAIN calls' = Callers /\ flights' = 0 /\ CallOk(Rest)
    BY DEF CallOk
  <2>2. BudgetTypes'
    <3>1. \A c \in Callers : CallOk(calls'[c])
      BY <1>1, <2>1
    <3>2. /\ bound' = bound /\ status' = status /\ cap' = cap /\ used' = used /\ acted' = acted /\ audits' = audits
          /\ budgetDenied' = budgetDenied /\ reserved' = reserved /\ fails' = fails
          /\ claimed' = FALSE /\ leaked' = FALSE /\ quits' = quits + 1
      OBVIOUS
    <3>3. quits' \in Nat
      BY <3>2 DEF BudgetTypes
    <3>. HIDE DEF BudgetIInv, DaemonQuits
    <3>4. BudgetTypes
      BY DEF BudgetIInv
    <3>. QED
      BY <2>1, <3>1, <3>2, <3>3, <3>4 DEF BudgetTypes
  <2>3. FlightsCount'
    BY <1>3, <2>1 DEF FlightsCount
  <2>4. CapsInCaps' /\ FreshIsEmpty' /\ DeniedAtCap'
    BY DEF CapsInCaps, FreshIsEmpty, DeniedAtCap, BudgetTypes
  <2>. QED
    BY <2>2, <2>3, <2>4
<1>5. CountedFirst'
  <2>. SUFFICES ASSUME NEW j \in Jobs
                PROVE  Spent(j)' <= used'[j] /\ (cap'[j] > 0 => Spent(j)' < cap'[j])
    BY DEF CountedFirst
  <2>1. Spent(j) \in Nat /\ Spent(j)' \in Nat /\ Spent(j)' <= Spent(j)
    BY <1>3, CallsFinite DEF Spent, BudgetTypes
  <2>. QED
    BY <2>1 DEF BudgetTypes, CountedFirst
<1>6. PaysTheBound' /\ WritersHold' /\ WritersReached' /\ OneOfABudget' /\ WrittenIsThere'
  BY <1>1 DEF PaysTheBound, WritersHold, WritersReached, OneOfABudget, WrittenIsThere, IsWriter, Rest
<1>7. ClaimHasHolder' /\ ReservedIsAudited'
  BY DEF ClaimHasHolder, RetryClaimIsReleased, ReservedIsAudited
<1>. QED
  BY <1>4, <1>5, <1>6, <1>7

-----------------------------------------------------------------------------
\* However calls overlap, are given up or cannot be written down, budgets are raised and the daemon ends: no
\* more calls act for a task than its budget allows, each for the task that paid, and a refusal is written
\* once or tried again (observeHarnessToolCall, finishHarnessDenialAudit, callTool).
THEOREM BudgetIsKept == BudgetSpec => []BudgetSafe
<1>1. BudgetIInv /\ [BudgetNext]_harnessVars => BudgetIInv'
  BY BindKeeps, StatusKeeps, ResumeKeeps, CountKeeps, RefuseKeeps, UnboundKeeps, ReportKeeps,
       ReportLostKeeps,
     AppendKeeps, AuditKeeps, ActKeeps, QuitKeeps, StutterKeeps DEF BudgetNext
<1>. QED
  BY <1>1, BudgetStarts, BudgetEnough, PTL DEF BudgetSpec
=============================================================================
