--------------------------- MODULE Capture_proofs ---------------------------
(***************************************************************************)
(* The capture barrier and what rests on it.  No action of the model is in *)
(* flight while a person has the browser: CaptureInv is the inductive      *)
(* invariant, and what disturbs it is the loss of the shell's process      *)
(* alone, for a fresh process starts in agent while the browser may be     *)
(* human and the daemon does not reconcile the two.  On the same queue of  *)
(* control changes rest: the guest is frozen while a person drives (when   *)
(* no task is cancelled), a validated page is clean (with every accident), *)
(* only the holder types (when the browser is not lost), and every step is *)
(* one of CaptureBarrier or a stutter (when the shell is not lost).  Then  *)
(* the rows: RowsIInv says which handler answers for each row, gate or     *)
(* frozen guest that lags behind, and so that none does at rest (when      *)
(* callers may give up but nothing is cancelled, lost or failing); on it   *)
(* rests that a closed row stays closed (ClosedInv).                       *)
(***************************************************************************)
EXTENDS Takeover_proofs

\* Handlers other than h keep their slot, and keep the computer if they have it.
Undisturbed(h) == \A g \in Handler \ {h} : op'[g] = op[g] /\ (InHand(g) => Holds(g)')

\* Only one handler has the computer.
LEMMA OneHolder ==
  ASSUME CaptureInv, NEW g \in Handler, NEW h \in Handler, InHand(g), Holds(h)
  PROVE  g = h
BY DEF CaptureInv, Holds

\* The queue is left alone, joined at its end, or left by its head.
LEMMA QueueKeeps ==
  ASSUME TypeOK, CaptureInv, NEW h \in Handler, NEW g \in Handler, InHand(g),
         UNCHANGED control \/ Queue(h) \/ (g # h /\ Holds(h) /\ Unlock)
  PROVE  Holds(g)'
<1>1. Holds(g) /\ control \in Seq(Handler) /\ control # <<>>
  BY DEF CaptureInv, TypeOK, Holds
<1>2. CASE UNCHANGED control
  BY <1>1, <1>2 DEF Holds
<1>3. CASE Queue(h)
  BY <1>1, <1>3 DEF Holds, Queue
<1>4. CASE g # h /\ Holds(h) /\ Unlock
  BY <1>1, <1>4 DEF Holds
<1> QED
  BY <1>2, <1>3, <1>4

\* What a handler's step does to the slots of the others and to its own.
LEMMA SlotSteps ==
  ASSUME TypeOK, NEW h \in Handler
  PROVE  /\ \A pc : Goto(h, pc) =>
              /\ \A g \in Handler \ {h} : op'[g] = op[g]
              /\ op'[h].pc = pc /\ op'[h].call = op[h].call
         /\ \A kind, pc, e, i, d : Begin(h, kind, pc, e, i, d) =>
              /\ \A g \in Handler \ {h} : op'[g] = op[g]
              /\ op'[h].pc = pc /\ op'[h].call = e
         /\ \A outcome : Answer(h, outcome) =>
              /\ \A g \in Handler \ {h} : op'[g] = op[g]
              /\ op'[h].pc \in {"idle", "entry"}
         /\ op' = [op EXCEPT ![h] = NoOp] =>
              /\ \A g \in Handler \ {h} : op'[g] = op[g]
              /\ op'[h].pc = "idle"
<1>0. op \in [Handler -> Op] /\ op[h] \in Op
  BY DEF TypeOK
<1>1. ASSUME NEW pc, Goto(h, pc)
      PROVE  /\ \A g \in Handler \ {h} : op'[g] = op[g]
             /\ op'[h].pc = pc /\ op'[h].call = op[h].call
  BY <1>0, <1>1 DEF Goto, Op
<1>2. ASSUME NEW kind, NEW pc, NEW e, NEW i, NEW d, Begin(h, kind, pc, e, i, d)
      PROVE  /\ \A g \in Handler \ {h} : op'[g] = op[g]
             /\ op'[h].pc = pc /\ op'[h].call = e
  BY <1>0, <1>2 DEF Begin, NoOp
<1>3. ASSUME NEW outcome, Answer(h, outcome)
      PROVE  /\ \A g \in Handler \ {h} : op'[g] = op[g]
             /\ op'[h].pc \in {"idle", "entry"}
  BY <1>0, <1>3 DEF Answer, NoOp
<1>4. ASSUME op' = [op EXCEPT ![h] = NoOp]
      PROVE  /\ \A g \in Handler \ {h} : op'[g] = op[g]
             /\ op'[h].pc = "idle"
  BY <1>0, <1>4 DEF NoOp
<1> QED
  BY <1>1, <1>2, <1>3, <1>4

\* The last steps of a handler.
LEMMA Closing ==
  ASSUME TypeOK, NEW h \in Handler, Thaw(h) \/ Undo(h) \/ Refused(h) \/ Commit(h)
  PROVE  op'[h].pc \in {"commit", "thaw", "idle", "entry"} 
         /\ (op'[h].pc = "commit" => Thaw(h)) /\ (op'[h].pc = "thaw" => Refused(h))
<1>1. \/ Goto(h, "commit") /\ Thaw(h)
      \/ Goto(h, "thaw") /\ Refused(h)
      \/ \E outcome \in {"ok", "refused"} : Answer(h, outcome)
  <2>1. CASE Thaw(h)
    BY <2>1 DEF Thaw
  <2>2. CASE Undo(h)
    BY <2>2 DEF Undo
  <2>3. CASE Refused(h)
    BY <2>3 DEF Refused
  <2>4. CASE Commit(h)
    BY <2>4 DEF Commit
  <2> QED
    BY <2>1, <2>2, <2>3, <2>4
<1> QED
  BY <1>1, SlotSteps

\* A step that moves no gate and starts no act, after which its handler is not
\* between two gates, keeps the invariant.
LEMMA QuietStep ==
  ASSUME TypeOK, CaptureInv, NEW h \in Handler, UNCHANGED <<gate, acting>>,
         \A g \in Handler \ {h} : op'[g] = op[g],
         op'[h].pc \notin {"sync", "shell"},
         op'[h].pc = "browser" => op'[h].call = "ttl",
         UNCHANGED control \/ Queue(h) \/ (Holds(h) /\ Unlock)
  PROVE  CaptureInv'
<1>1. ~InHand(h)' /\ ~Granting(h)' /\ ~Returning(h)'
  BY DEF InHand, Granting, Returning
<1>2. ASSUME NEW g \in Handler \ {h}
      PROVE  /\ InHand(g)' => Holds(g)'
             /\ Granting(g)' = Granting(g)
             /\ Returning(g)' = Returning(g)
  <2>1. InHand(g)' = InHand(g)
    BY DEF InHand
  <2>2. InHand(g) => Holds(g)'
    BY QueueKeeps
  <2> QED
    BY <2>1, <2>2 DEF Granting, Returning
<1>3. (Driven' = Driven) /\ \A r : IsTakeoverBusy(gate[r].state)' = IsTakeoverBusy(gate[r].state)
  BY DEF Driven, IsTakeoverBusy
<1> QED
  BY <1>1, <1>2, <1>3 DEF CaptureInv

\* A step of the model, the lease or the input that touches none of it.
LEMMA Frame ==
  ASSUME CaptureInv, UNCHANGED <<gate, acting, op, control>>
  PROVE  CaptureInv'
BY DEF CaptureInv, Driven, InHand, Granting, Returning, Holds, IsTakeoverBusy

\* A handler that starts holds nothing yet and touches no gate.
LEMMA StartKeeps ==
  ASSUME TypeOK, CaptureInv, NEW h \in Web,
         \E i \in Id : (\E d \in Device : Acquire(h, d, i)) \/ Decline(h, i) \/ Release(h, i)
  PROVE  CaptureInv'
<1>0. h \in Handler
  BY DEF Handler
<1>1. PICK i \in Id : (\E d \in Device : Acquire(h, d, i)) \/ Decline(h, i) \/ Release(h, i)
  OBVIOUS
<1>2. PICK kind, pc, e, d : Begin(h, kind, pc, e, i, d) /\ pc \notin {"sync", "shell", "browser"}
  BY <1>1 DEF Acquire, Decline, Release
<1>3. UNCHANGED <<gate, acting>> /\ (UNCHANGED control \/ Queue(h))
  BY <1>1 DEF Acquire, Decline, Release, computer
<1> QED
  BY <1>0, <1>2, <1>3, SlotSteps, QuietStep

\* POST takeover/request touches no gate: its message is served later.
LEMMA RequestKeeps ==
  ASSUME TypeOK, CaptureInv, NEW h \in Web,
         Request(h) \/ RequestReply(h) \/ RequestTimeout(h)
  PROVE  CaptureInv'
<1>0. h \in Handler
  BY DEF Handler
<1>1. UNCHANGED <<gate, acting>>
  BY DEF Request, RequestReply, RequestTimeout, computer
<1>2. /\ \A g \in Handler \ {h} : op'[g] = op[g]
      /\ op'[h].pc \in {"idle", "asked"} \/ (op'[h].pc = "browser" /\ op'[h].call = "ttl")
      /\ UNCHANGED control \/ Queue(h)
  <2>1. CASE op' = [op EXCEPT ![h] = NoOp] /\ UNCHANGED control
    BY <1>0, <2>1, SlotSteps
  <2>2. ASSUME NEW p, Begin(h, "request", "browser", "ttl", p, NoDevice), Queue(h)
        PROVE  <1>2!1 /\ <1>2!2 /\ <1>2!3
    BY <1>0, <2>2, SlotSteps
  <2>3. ASSUME NEW p, op' = [op EXCEPT ![h] = [NoOp EXCEPT !.kind = "request", !.pc = "asked",
                                                      !.id = nextId, !.prior = p]],
               UNCHANGED control
        PROVE  <1>2!1 /\ <1>2!2 /\ <1>2!3
    BY <1>0, <2>3 DEF TypeOK, NoOp
  <2> QED
    BY <2>1, <2>2, <2>3 DEF Request, RequestExpires, RequestJoins, RequestInserts,
       RequestOutOfIds, RequestReply, RequestTimeout
<1> QED
  BY <1>0, <1>1, <1>2, QuietStep

\* The steps before the computer is held, and those that leave it.
LEMMA OutsideKeeps ==
  ASSUME TypeOK, CaptureInv, NEW h \in Handler,
         Observe(h) \/ Recheck(h) \/ Blank(h) \/ Freeze(h)
  PROVE  CaptureInv'
<1>1. UNCHANGED <<gate, acting>> /\ (UNCHANGED control \/ Queue(h))
  BY DEF Observe, Recheck, Blank, Freeze, computer
<1>2. \/ \E pc \in {"status", "blank", "recheck", "observe", "undo"} : Goto(h, pc)
      \/ Answer(h, "refused")
  BY DEF Observe, Recheck, Blank, Freeze
<1> QED
  BY <1>1, <1>2, SlotSteps, QuietStep

\* A step after which the handler is no longer between two gates.
LEMMA LeavingKeeps ==
  ASSUME TypeOK, CaptureInv, NEW h \in Handler,
         Thaw(h) \/ Undo(h) \/ Refused(h) \/ Commit(h) \/ StillSensitive(h)
  PROVE  CaptureInv'
<1>1. UNCHANGED <<gate, acting>>
  BY DEF Thaw, Undo, Refused, Commit, StillSensitive, computer
<1>2. Holds(h) /\ (UNCHANGED control \/ Unlock)
  BY DEF Thaw, Undo, Refused, Commit, StillSensitive
<1>3. \/ \E pc \in {"commit", "thaw"} : Goto(h, pc)
      \/ \E outcome \in {"ok", "refused"} : Answer(h, outcome)
      \/ op' = [op EXCEPT ![h].pc = "blank", ![h].call = "release", ![h].res = "again"]
  BY DEF Thaw, Undo, Refused, Commit, StillSensitive
<1>4. /\ \A g \in Handler \ {h} : op'[g] = op[g]
      /\ op'[h].pc \in {"commit", "thaw", "idle", "entry", "blank"}
  BY <1>3, SlotSteps DEF TypeOK, Op
<1> QED
  BY <1>1, <1>2, <1>4, QuietStep

\* An expiry that starts is exempt from InHand until it has moved the browser.
LEMMA FireKeeps ==
  ASSUME TypeOK, CaptureInv, NEW i \in Id, Fire(i)
  PROVE  CaptureInv'
<1>0. Timer \in Handler /\ UNCHANGED <<gate, acting>>
  BY DEF Fire, Handler, computer
<1>1. CASE UNCHANGED <<op, control>>
  BY <1>0, <1>1, Frame
<1>2. CASE Begin(Timer, "expire", "browser", "ttl", i, NoDevice) /\ Queue(Timer)
  BY <1>0, <1>2, SlotSteps, QuietStep
<1> QED
  BY <1>1, <1>2 DEF Fire

\* The steps between the gates.
LEMMA StatusKeeps ==
  ASSUME TypeOK, CaptureInv, NEW h \in Handler, Status(h)
  PROVE  CaptureInv'
<1>1. Holds(h) /\ UNCHANGED <<gate, acting, control>>
  BY DEF Status, computer
<1>2. PICK pc : /\ Goto(h, pc)
                /\ pc \in {"refused", "ask", "undo", "sync", "browser"}
                /\ pc = "browser" => op[h].call # "grant"
  BY RefusalPc DEF Status
<1>3. /\ \A g \in Handler \ {h} : op'[g] = op[g]
      /\ op'[h].pc \in {"refused", "ask", "undo", "sync", "browser"}
      /\ op'[h].pc = "browser" => op'[h].call # "grant"
  BY <1>2, SlotSteps
<1> QED
  BY <1>1, <1>3 DEF CaptureInv, Driven, InHand, Granting, Returning, Holds, IsTakeoverBusy

\* Sync shuts the shell, and its handler goes on to grant.
LEMMA SyncKeeps ==
  ASSUME TypeOK, CaptureInv, NEW h \in Handler, Sync(h)
  PROVE  CaptureInv'
<1>1. Holds(h) /\ UNCHANGED <<acting, control>> /\ "shell" \notin acting
  BY DEF Sync, Free
<1>2. /\ gate'["browser"] = gate["browser"]
      /\ gate'["shell"].state = "takeover_requested"
      /\ \A r \in acting : gate'[r] = gate[r]
  BY <1>1 DEF Sync, TypeOK, Role
<1>3. /\ \A g \in Handler \ {h} : op'[g] = op[g]
      /\ op'[h].pc = "browser"
  BY SlotSteps DEF Sync
<1> QED
  BY <1>1, <1>2, <1>3 DEF CaptureInv, Driven, InHand, Granting, Returning, Holds,
     IsTakeoverBusy, BusyStates

\* Browser: a grant finds the shell shut; a handback leaves nobody driving.
LEMMA BrowserKeeps ==
  ASSUME TypeOK, CaptureInv, NEW h \in Handler, Browser(h)
  PROVE  CaptureInv'
<1> DEFINE e == op[h].call
           s == gate["browser"]
<1>1. Holds(h) /\ UNCHANGED <<acting, control>> /\ "browser" \notin acting
  BY DEF Browser, Free
<1>2. CASE Accepts(s, e, op[h].id)
  <2>1. e \in TakeoverEvent /\ s \in Session
    BY SlotType DEF Browser, TypeOK, Role
  <2>2. gate' = [gate EXCEPT !["browser"] = Answered(s, e)]
    BY <1>2 DEF Browser
  <2>3. gate'["browser"] = Answered(s, e) /\ \A r \in Role \ {"browser"} : gate'[r] = gate[r]
    BY <2>2 DEF TypeOK, Role
  <2>4. /\ \A g \in Handler \ {h} : op'[g] = op[g]
        /\ op'[h].pc = "shell" /\ op'[h].call = e
    BY <1>2 DEF Browser, TypeOK, Op
  <2>5. Driven' => IsTakeoverBusy(gate'["shell"].state)
    <3>1. Driven' => e = "grant" \/ Driven
      BY <1>2, <2>1, <2>3, EventNames
         DEF Driven, Accepts, Answered, After, Legal, SourceOf, TargetOf, Session, TakeoverState
    <3>2. e = "grant" => Granting(h)
      BY DEF Browser, Granting
    <3> QED
      BY <2>3, <3>1, <3>2 DEF CaptureInv, Role
  <2>6. e \in {"decline", "validated", "stop"} => ~Driven'
    BY <1>2, <2>1, <2>3
       DEF Driven, Accepts, Answered, After, Legal, SourceOf, TargetOf, Session, TakeoverState
  <2>7. ASSUME NEW g \in Handler \ {h}
        PROVE  ~InHand(g)' /\ ~Granting(g)' /\ ~Returning(g)'
    <3>1. ~InHand(g)
      BY <1>1, <2>7, OneHolder
    <3> QED
      BY <2>4, <3>1 DEF InHand, Granting, Returning
  <2>8. \A r \in acting' : ~IsTakeoverBusy(gate'[r].state)
    BY <1>1, <2>3 DEF CaptureInv, TypeOK
  <2>9. Holds(h)' /\ ~Granting(h)'
    BY <1>1, <2>4 DEF Holds, Granting
  <2> QED
    BY <2>4, <2>5, <2>6, <2>7, <2>8, <2>9 DEF CaptureInv, Returning
<1>3. CASE ~Accepts(s, e, op[h].id)
  <2>1. Goto(h, AfterRefusal(h)) /\ UNCHANGED gate
    BY <1>3 DEF Browser
  <2>2. /\ \A g \in Handler \ {h} : op'[g] = op[g]
        /\ op'[h].pc \in {"refused", "ask", "undo"}
    BY <2>1, SlotSteps, RefusalPc
  <2> QED
    BY <1>1, <2>1, <2>2, QuietStep
<1> QED
  BY <1>2, <1>3

\* Shell: the shell is opened only when nobody drives.
LEMMA ShellKeeps ==
  ASSUME TypeOK, CaptureInv, NEW h \in Handler, Shell(h)
  PROVE  CaptureInv'
<1> DEFINE e == op[h].call
           s == gate["shell"]
<1>1. Holds(h) /\ UNCHANGED <<acting, control>> /\ "shell" \notin acting
  BY DEF Shell, Free
<1>2. CASE Accepts(s, e, op[h].id)
  <2>1. e \in TakeoverEvent /\ s \in Session
    BY SlotType DEF Shell, TypeOK, Role
  <2>2. gate' = [gate EXCEPT !["shell"] = Answered(s, e)]
    BY <1>2 DEF Shell
  <2>3. gate'["shell"] = Answered(s, e) /\ \A r \in Role \ {"shell"} : gate'[r] = gate[r]
    BY <2>2 DEF TypeOK, Role
  <2>4. /\ \A g \in Handler \ {h} : op'[g] = op[g]
        /\ op'[h].pc \in {"inspect", "sensitive", "thaw", "commit"}
    <3>1. Goto(h, AfterAcceptance(h))
      BY <1>2 DEF Shell
    <3> QED
      BY <3>1, SlotSteps, RefusalPc
  <2>5. Driven' = Driven
    BY <2>3 DEF Driven, Role
  <2>6. Driven => IsTakeoverBusy(gate'["shell"].state)
    <3>1. Driven => ~Returning(h)
      BY DEF CaptureInv
    <3>2. Driven => e \notin {"decline", "validated", "stop"}
      BY <3>1 DEF Shell, Returning
    <3> QED
      BY <1>2, <2>1, <2>3, <3>2, EventNames
         DEF Accepts, Answered, After, Legal, SourceOf, TargetOf, IsTakeoverBusy, BusyStates
  <2>7. ASSUME NEW g \in Handler \ {h}
        PROVE  ~InHand(g)' /\ ~Granting(g)' /\ ~Returning(g)'
    <3>1. ~InHand(g)
      BY <1>1, <2>7, OneHolder
    <3> QED
      BY <2>4, <3>1 DEF InHand, Granting, Returning
  <2>8. \A r \in acting' : ~IsTakeoverBusy(gate'[r].state)
    BY <1>1, <2>3 DEF CaptureInv, TypeOK
  <2>9. ~InHand(h)' /\ ~Granting(h)' /\ ~Returning(h)'
    BY <2>4 DEF InHand, Granting, Returning
  <2> QED
    BY <2>5, <2>6, <2>7, <2>8, <2>9 DEF CaptureInv
<1>3. CASE ~Accepts(s, e, op[h].id)
  <2>1. Goto(h, AfterRefusal(h)) /\ UNCHANGED gate
    BY <1>3 DEF Shell
  <2>2. /\ \A g \in Handler \ {h} : op'[g] = op[g]
        /\ op'[h].pc \in {"refused", "ask", "undo"}
    BY <2>1, SlotSteps, RefusalPc
  <2> QED
    BY <1>1, <2>1, <2>2, QuietStep
<1> QED
  BY <1>2, <1>3

\* Inspect leaves the gates alone and goes on to validate.
LEMMA InspectKeeps ==
  ASSUME TypeOK, CaptureInv, NEW h \in Handler, Inspect(h)
  PROVE  CaptureInv'
<1>1. Holds(h) /\ UNCHANGED <<gate, acting, control>>
  BY DEF Inspect, computer
<1>2. /\ \A g \in Handler \ {h} : op'[g] = op[g]
      /\ op'[h].pc = "browser" /\ op'[h].call \in {"still_sensitive", "validated"}
  BY DEF Inspect, Verdict, TypeOK, Op
<1> QED
  BY <1>1, <1>2 DEF CaptureInv, Driven, InHand, Granting, Returning, Holds, IsTakeoverBusy

\* A request moves the browser's gate alone, from a state in which no act and no
\* person has it.
LEMMA RequestedKeeps ==
  ASSUME TypeOK, CaptureInv, NEW i, "browser" \notin acting, UNCHANGED <<acting, control>>,
         gate' = [gate EXCEPT !["browser"] = [state |-> "takeover_requested", id |-> i]],
         \A g \in Handler : \/ op'[g].pc = op[g].pc /\ op'[g].call = op[g].call
                            \/ op'[g].pc \notin {"sync", "browser", "shell"}
  PROVE  CaptureInv'
<1>1. /\ gate'["browser"].state = "takeover_requested"
      /\ \A r \in Role \ {"browser"} : gate'[r] = gate[r]
  BY DEF TypeOK, Role
<1>2. ~Driven'
  BY <1>1 DEF Driven
<1>3. \A g \in Handler : (InHand(g)' => InHand(g)) /\ (Granting(g)' => Granting(g))
  BY DEF InHand, Granting
<1>4. \A g \in Handler : Holds(g)' = Holds(g)
  BY DEF Holds
<1>5. \A r \in acting' : ~IsTakeoverBusy(gate'[r].state)
  BY <1>1 DEF CaptureInv, TypeOK
<1>6. gate'["shell"] = gate["shell"]
  BY <1>1 DEF Role
<1> QED
  BY <1>2, <1>3, <1>4, <1>5, <1>6 DEF CaptureInv

\* Ask puts the browser in a state in which nobody drives.
LEMMA AskKeeps ==
  ASSUME TypeOK, CaptureInv, NEW h \in Handler, Ask(h)
  PROVE  CaptureInv'
<1>1. CASE ModelMayAsk
  <2>1. \A g \in Handler : op'[g].pc = "status" \/ op'[g] = op[g]
    BY <1>1 DEF Ask, TypeOK, Op
  <2> QED
    BY <1>1, <2>1, RequestedKeeps DEF Ask, Free
<1>2. CASE ~ModelMayAsk
  <2>1. UNCHANGED <<gate, acting, control>> /\ \E pc \in {"undo", "refused"} : Goto(h, pc)
    BY <1>2 DEF Ask
  <2> QED
    BY <2>1, SlotSteps, QuietStep
<1> QED
  BY <1>1, <1>2

\* A request the browser serves shuts it to the model, and nobody drives yet.
LEMMA ServeRequestKeeps ==
  ASSUME TypeOK, CaptureInv, ServeRequest
  PROVE  CaptureInv'
<1>1. \A g \in Handler : op'[g].pc = op[g].pc /\ op'[g].call = op[g].call
  BY DEF ServeRequest, TypeOK, Op
<1>2. UNCHANGED <<acting, control>> /\ "browser" \notin acting
  BY DEF ServeRequest
<1>3. CASE \E i : gate' = [gate EXCEPT !["browser"] = [state |-> "takeover_requested", id |-> i]]
  BY <1>1, <1>2, <1>3, RequestedKeeps
<1>4. CASE UNCHANGED gate
  BY <1>1, <1>2, <1>4 DEF CaptureInv, Driven, InHand, Granting, Returning, Holds, IsTakeoverBusy
<1> QED
  BY <1>3, <1>4 DEF ServeRequest

\* The model starts an act only behind an open gate.
LEMMA ModelKeeps ==
  ASSUME TypeOK, CaptureInv, Model
  PROVE  CaptureInv'
<1>1. UNCHANGED <<gate, op, control>>
  BY DEF Model, ModelCall, ModelSend, ModelServe, ModelTimeout, ModelAsked, ModelAskTimeout,
     ActDone, computer
<1>2. \A r \in acting' : ~IsTakeoverBusy(gate[r].state)
  BY DEF Model, ModelCall, ModelSend, ModelServe, ModelTimeout, ModelAsked, ModelAskTimeout,
     ActDone, computer, CaptureInv
<1> QED
  BY <1>1, <1>2 DEF CaptureInv, Driven, InHand, Granting, Returning, Holds, IsTakeoverBusy

\* Only the shell's process holds the shell shut: losing the browser's is harmless.
LEMMA LoseSessionKeeps ==
  ASSUME TypeOK, CaptureInv, "lostShell" \notin Enabled, NEW r \in Role, LoseSession(r)
  PROVE  CaptureInv'
<1>1. r = "browser" /\ FreshProcesses({"browser"}) /\ UNCHANGED control
  BY DEF LoseSession
<1>2. gate'["browser"].state = "agent" /\ gate'["shell"] = gate["shell"]
  BY <1>1 DEF FreshProcesses, FreshSession, Role
<1>3. acting' = acting \ {"browser"} /\ \A q \in Role \ {"browser"} : gate'[q] = gate[q]
  BY <1>1 DEF FreshProcesses
<1>4. ASSUME NEW g \in Handler
      PROVE  /\ op'[g].call = op[g].call
             /\ op'[g].pc = op[g].pc \/ op'[g].pc = "refused"
  <2>1. op'[g] = Interrupted({"browser"}, g) /\ op[g] \in Op
    BY <1>1 DEF LoseSession, TypeOK
  <2> QED
    BY <2>1 DEF Interrupted, Op
<1>5. ~Driven'
  BY <1>2 DEF Driven
<1>6. \A q \in acting' : ~IsTakeoverBusy(gate'[q].state)
  BY <1>3 DEF CaptureInv, TypeOK
<1>7. \A g \in Handler : (InHand(g)' => InHand(g)) /\ (Granting(g)' => Granting(g))
  BY <1>4 DEF InHand, Granting
<1>8. \A g \in Handler : Holds(g)' = Holds(g)
  BY <1>1 DEF Holds
<1> QED
  BY <1>2, <1>5, <1>6, <1>7, <1>8 DEF CaptureInv

\* A cancellation replaces the processes only when nobody drives.
LEMMA CancellationKeeps ==
  ASSUME TypeOK, CaptureInv, Cancellation
  PROVE  CaptureInv'
<1>0. Stop \in Handler
  BY DEF Handler
<1>1. CASE CancelTask \/ CancelThaw
  BY <1>1, Frame DEF CancelTask, CancelThaw, computer
<1>2. ASSUME NEW e, NEW i, StopCall(e, i), UNCHANGED <<gate, acting>>
      PROVE  CaptureInv'
  BY <1>0, <1>2, SlotSteps, QuietStep DEF StopCall
<1>3. CASE CancelGate
  <2>1. UNCHANGED <<gate, acting>>
    BY <1>3 DEF CancelGate, computer
  <2>2. UNCHANGED <<op, control>> \/ \E i \in Id : StopCall("decline", i)
    BY <1>3 DEF CancelGate
  <2> QED
    BY <2>1, <2>2, <1>2, Frame
<1>4. CASE CancelBlank
  BY <1>4, <1>2 DEF CancelBlank
<1>5. CASE CancelWait
  <2>1. UNCHANGED <<gate, acting, control>>
    BY <1>5 DEF CancelWait, computer
  <2>2. UNCHANGED op \/ op' = [op EXCEPT ![Stop] = NoOp]
    BY <1>5 DEF CancelWait
  <2> QED
    BY <1>0, <2>1, <2>2, Frame, SlotSteps, QuietStep
<1>6. CASE CancelTeardown
  <2>1. UNCHANGED <<gate, acting>> /\ Begin(Stop, "teardown", "close", "none", NoId, NoDevice)
        /\ Queue(Stop)
    BY <1>6 DEF CancelTeardown, computer
  <2> QED
    BY <1>0, <2>1, SlotSteps, QuietStep
<1>7. CASE CancelClose
  <2>1. Holds(Stop) /\ Unlock
    BY <1>7 DEF CancelClose
  <2>2. CASE /\ FreshProcesses(Role)
             /\ op' = [h \in Handler |-> IF h = Stop THEN NoOp ELSE Interrupted(Role, h)]
    <3>1. \A r \in Role : gate'[r].state = "agent"
      BY <2>2 DEF FreshProcesses, FreshSession
    <3>2. acting' = {}
      BY <2>2 DEF FreshProcesses, TypeOK
    <3>3. ~Driven'
      BY <3>1 DEF Driven, Role
    <3>4. ASSUME NEW g \in Handler
          PROVE  ~InHand(g)' /\ ~Granting(g)'
      <4>1. CASE g = Stop
        BY <2>2, <4>1 DEF InHand, Granting, NoOp
      <4>2. CASE g # Stop
        <5>1. ~InHand(g)
          BY <1>0, <2>1, <4>2, OneHolder
        <5>2. op'[g] = Interrupted(Role, g) /\ op[g] \in Op
          BY <2>2, <4>2 DEF TypeOK
        <5>3. op'[g].call = op[g].call /\ (op'[g].pc = op[g].pc \/ op'[g].pc \in {"refused", "ask", "undo"})
          BY <5>2, RefusalPc DEF Interrupted, Op
        <5> QED
          BY <5>1, <5>3 DEF InHand, Granting
      <4> QED
        BY <4>1, <4>2
    <3> QED
      BY <3>2, <3>3, <3>4 DEF CaptureInv
  <2>3. CASE op' = [op EXCEPT ![Stop] = NoOp] /\ UNCHANGED <<gate, acting>>
    BY <1>0, <2>1, <2>3, SlotSteps, QuietStep
  <2> QED
    BY <1>7, <2>2, <2>3 DEF CancelClose
<1> QED
  BY <1>1, <1>3, <1>4, <1>5, <1>6, <1>7 DEF Cancellation

\* Nothing is in flight and nobody drives at the start.
LEMMA CaptureInit == Init => CaptureInv
BY DEF Init, CaptureInv, Driven, InHand, Granting, Returning, NoOp, FreshSession, Role

\* Every step keeps the capture invariant: one case per disjunct of Next.
LEMMA CaptureNext ==
  ASSUME TypeOK, CaptureInv, "lostShell" \notin Enabled, [Next]_vars
  PROVE  CaptureInv'
<1>1. ASSUME NEW h \in Handler, HandlerStep(h)
      PROVE  CaptureInv'
  BY <1>1, OutsideKeeps, LeavingKeeps, StatusKeeps, SyncKeeps, BrowserKeeps, ShellKeeps,
     InspectKeeps, AskKeeps DEF HandlerStep
<1>2. ASSUME NEW h \in Web, Operator(h)
      PROVE  CaptureInv'
  BY <1>2, StartKeeps, RequestKeeps DEF Operator
<1>3. ASSUME NEW i \in Id, Lapse(i)
      PROVE  CaptureInv'
  BY <1>3, Frame DEF Lapse, daemon, computer
<1>4. CASE Live
  BY <1>4, Frame DEF Live, SendInput, RelayInput, DeliverInput, computer
<1>5. CASE UNCHANGED vars
  BY <1>5, Frame DEF vars, daemon, computer
<1> QED
  BY <1>1, <1>2, <1>3, <1>4, <1>5, FireKeeps, ServeRequestKeeps, ModelKeeps, CancellationKeeps,
     LoseSessionKeeps DEF Next

\* CaptureInv holds for ever: the gates, and the handlers between them, keep the
\* order of grantTakeover, releaseTakeover and declineTakeover (exec-client.ts).
THEOREM CaptureCorrect ==
  ASSUME "lostShell" \notin Enabled
  PROVE  Spec => []CaptureInv
<1>1. TypeOK /\ CaptureInv /\ [Next]_vars => CaptureInv'
  BY CaptureNext
<1> QED
  BY <1>1, TypeCorrect, CaptureInit, PTL DEF Spec

\* No action of the model is in flight while a person has the browser, whatever
\* the interleaving of operators, timers, cancellations and the model.
THEOREM NoModelActWhileHumanCorrect ==
  ASSUME "lostShell" \notin Enabled
  PROVE  Spec => []NoModelActWhileHuman
<1>1. TypeOK /\ CaptureInv => NoModelActWhileHuman
  BY DEF TypeOK, CaptureInv, Driven, NoModelActWhileHuman, IsTakeoverBusy, BusyStates, Role
<1> QED
  BY <1>1, TypeCorrect, CaptureCorrect, PTL

-----------------------------------------------------------------------------
(* What one step does to one handler's slot, and to the queue.             *)

Same(g) ==
  /\ op'[g].pc = op[g].pc /\ op'[g].call = op[g].call /\ op'[g].kind = op[g].kind /\ op'[g].dev = op[g].dev
  /\ op[g].pc # "asked" => op'[g].seen = op[g].seen
\* It has answered, or waits for a request to be served.
Away(g) == op'[g].pc \in {"idle", "entry", "asked"} /\ op'[g].kind # "acquire" /\ op'[g].call = "none"
\* It begins, and has yet to be first in the queue.
Starts(g) ==
  /\ op'[g].pc \in {"freeze", "status", "observe", "blank", "browser", "close"}
  /\ op'[g].call \in {"grant", "decline", "release", "ttl", "none"}
  /\ op'[g].pc = "browser" <=> op'[g].call = "ttl"
  /\ op'[g].kind = "acquire" <=> op'[g].call = "grant"
  /\ op'[g].call = "grant" => op'[g].dev \in Device /\ op'[g].pc = IF Native THEN "freeze" ELSE "status"
\* The process it waits for is gone.
Broken(g) ==
  /\ op'[g].call = op[g].call /\ op'[g].kind = op[g].kind /\ op'[g].dev = op[g].dev
  /\ \/ op[g].pc = "shell" /\ op'[g].pc \in {"refused", "ask", "undo"} /\ (op'[g].pc # "refused" => op[g].kind = "acquire")
     \/ op[g].pc = "inspect" /\ op'[g].pc = "refused"

LEMMA BeginStarts ==
  ASSUME TypeOK, NEW h \in Handler, NEW kind, NEW pc, NEW e, NEW i, NEW d, Begin(h, kind, pc, e, i, d),
         NEW g \in Handler
  PROVE  /\ g # h => op'[g] = op[g]
         /\ g = h => op'[g].kind = kind /\ op'[g].pc = pc /\ op'[g].call = e /\ op'[g].dev = d
BY DEF TypeOK, Begin, NoOp

LEMMA BreakKeeps ==
  ASSUME TypeOK, NEW R, NEW g \in Handler, op'[g] = Interrupted(R, g)
  PROVE  Same(g) \/ Broken(g)
<1>1. op[g] \in Op
  BY DEF TypeOK
<1>2. AfterRefusal(g) # "refused" => op[g].kind = "acquire"
  BY DEF AfterRefusal
<1> QED
  BY <1>1, <1>2, RefusalPc DEF Interrupted, Op, Same, Broken

LEMMA Moves ==
  ASSUME TypeOK, [Next]_vars, NEW g \in Handler
  PROVE  Same(g) \/ Away(g) \/ Starts(g) \/ Broken(g) \/ HandlerStep(g)
<1>0. op \in [Handler -> Op]
  BY DEF TypeOK
<1>1. ASSUME op'[g] = op[g] PROVE Same(g)
  BY <1>1 DEF Same
<1>2. ASSUME NEW h \in Handler, op' = [op EXCEPT ![h] = NoOp]
      PROVE  Same(g) \/ Away(g)
  BY <1>0, <1>1, <1>2 DEF NoOp, Away
<1>3. ASSUME NEW h \in Handler, HandlerStep(h)
      PROVE  Same(g) \/ HandlerStep(g)
  <2>1. CASE g # h
    <3>1. ASSUME NEW o, op' = [op EXCEPT ![h] = o] PROVE op'[g] = op[g]
      BY <1>0, <2>1, <3>1
    <3>2. \/ \E pc : Goto(h, pc)
          \/ \E outcome : Answer(h, outcome)
          \/ op'[g] = op[g]
      BY <1>0, <1>3, <2>1 DEF HandlerStep, Observe, Recheck, Blank, Freeze, Status, Sync, Browser,
           Shell, Inspect,
         StillSensitive, Thaw, Ask, Undo, Refused, Commit
    <3> QED
      BY <1>1, <2>1, <3>2, SlotSteps
  <2>2. CASE g = h
    BY <1>3, <2>2
  <2> QED
    BY <2>1, <2>2
<1>4. ASSUME NEW h \in Web, Operator(h)
      PROVE  Same(g) \/ Away(g) \/ Starts(g)
  <2>0. h \in Handler
    BY DEF Handler
  <2>1. ASSUME NEW i \in Id, NEW d \in Device, Acquire(h, d, i)
        PROVE  Same(g) \/ Starts(g)
    BY <1>1, <2>0, <2>1, BeginStarts DEF Acquire, Starts
  <2>2. ASSUME NEW i \in Id, Decline(h, i)
        PROVE  Same(g) \/ Starts(g)
    BY <1>1, <2>0, <2>2, BeginStarts DEF Decline, Starts
  <2>3. ASSUME NEW i \in Id, Release(h, i)
        PROVE  Same(g) \/ Starts(g)
    <3>1. PICK first \in {"observe", "blank"} : \/ Begin(h, "release", first, "release", i, NoDevice)
                                                \/ Begin(h, "return", first, "decline", i, NoDevice)
      BY <2>3 DEF Release
    <3> QED
      BY <1>1, <2>0, <3>1, BeginStarts DEF Starts
  <2>4. CASE Request(h)
    <3>1. CASE op' = [op EXCEPT ![h] = NoOp]
      BY <1>2, <2>0, <3>1
    <3>2. ASSUME NEW i, Begin(h, "request", "browser", "ttl", i, NoDevice) PROVE Same(g) \/ Starts(g)
      BY <1>1, <2>0, <3>2, BeginStarts DEF Starts
    <3>3. ASSUME NEW i, op' = [op EXCEPT ![h] = [NoOp EXCEPT !.kind = "request", !.pc = "asked",
                                                             !.id = nextId, !.prior = i]]
          PROVE  Same(g) \/ Away(g)
      BY <1>0, <1>1, <2>0, <3>3 DEF NoOp, Away
    <3> QED
      BY <2>4, <3>1, <3>2, <3>3 DEF Request, RequestExpires, RequestJoins, RequestInserts,
           RequestOutOfIds
  <2>5. CASE RequestReply(h) \/ RequestTimeout(h)
    BY <1>2, <2>0, <2>5 DEF RequestReply, RequestTimeout
  <2> QED
    BY <1>4, <2>1, <2>2, <2>3, <2>4, <2>5 DEF Operator
<1>5. ASSUME NEW i \in Id, Fire(i) \/ Lapse(i)
      PROVE  Same(g) \/ Starts(g)
  <2>1. Timer \in Handler
    BY DEF Handler
  <2> QED
    BY <1>1, <1>5, <2>1, BeginStarts DEF Fire, Lapse, Starts, daemon
<1>6. CASE ServeRequest
  <2>1. \/ op' = op
        \/ \E b, r, e : op[b].pc = "asked" /\ op' = [op EXCEPT ![b].res = r, ![b].seen = e]
    BY <1>6 DEF ServeRequest
  <2>2. CASE op' = op
    BY <2>2 DEF Same
  <2>3. ASSUME NEW b, NEW r, NEW e, op[b].pc = "asked", op' = [op EXCEPT ![b].res = r, ![b].seen = e]
        PROVE  Same(g)
    <3>1. CASE g = b
      <4>1. op'[g] = [op[g] EXCEPT !.res = r, !.seen = e]
        BY <1>0, <2>3, <3>1
      <4> QED
        BY <1>0, <2>3, <3>1, <4>1 DEF Same, Op
    <3>2. CASE g # b
      BY <1>0, <2>3, <3>2 DEF Same
    <3> QED
      BY <3>1, <3>2
  <2> QED
    BY <2>1, <2>2, <2>3
<1>7. CASE Model \/ Live \/ UNCHANGED vars
  BY <1>1, <1>7 DEF Model, ModelCall, ModelSend, ModelServe, ModelTimeout, ModelAsked, ModelAskTimeout,
       ActDone,
     Live, SendInput, RelayInput, DeliverInput, vars, daemon
<1>8. CASE Cancellation
  <2>0. Stop \in Handler
    BY DEF Handler
  <2>1. ASSUME NEW e \in {"decline", "release"}, NEW i, StopCall(e, i) PROVE Same(g) \/ Starts(g)
    BY <1>1, <2>0, <2>1, BeginStarts DEF StopCall, Starts
  <2>2. CASE CancelGate \/ CancelBlank
    BY <1>1, <2>1, <2>2 DEF CancelGate, CancelBlank
  <2>3. CASE CancelTeardown
    BY <1>1, <2>0, <2>3, BeginStarts DEF CancelTeardown, Starts
  <2>4. CASE CancelClose
    <3>1. CASE op' = [h \in Handler |-> IF h = Stop THEN NoOp ELSE Interrupted(Role, h)]
      BY <3>1, BreakKeeps DEF NoOp, Away
    <3> QED
      BY <1>2, <2>0, <2>4, <3>1 DEF CancelClose
  <2>5. CASE CancelTask \/ CancelWait \/ CancelThaw
    BY <1>1, <1>2, <2>0, <2>5 DEF CancelTask, CancelWait, CancelThaw
  <2> QED
    BY <1>8, <2>2, <2>3, <2>4, <2>5 DEF Cancellation
<1>9. ASSUME NEW r \in Role, LoseSession(r)
      PROVE  Same(g) \/ Broken(g)
  BY <1>9, BreakKeeps DEF LoseSession
<1> QED
  BY <1>3, <1>4, <1>5, <1>6, <1>7, <1>8, <1>9 DEF Next

\* The queue is left alone, joined at its end, or left by its head, which answers or begins anew.
LEMMA QueueMoves ==
  ASSUME TypeOK, [Next]_vars
  PROVE  \/ UNCHANGED control
         \/ \E h \in Handler : Queue(h)
         \/ \E h \in Handler : Holds(h) /\ Unlock /\ op'[h].pc \in {"idle", "entry", "blank"}
<1>0. {Timer, Stop} \cup Web \subseteq Handler /\ op \in [Handler -> Op]
  BY DEF Handler, TypeOK
<1>1. ASSUME NEW h \in Handler, HandlerStep(h)
      PROVE  UNCHANGED control \/ Queue(h) \/ (Holds(h) /\ Unlock /\ op'[h].pc \in {"idle", "entry", "blank"})
  <2>1. CASE Thaw(h) \/ Undo(h) \/ Refused(h) \/ Commit(h)
    BY <2>1, SlotSteps DEF Thaw, Undo, Refused, Commit
  <2>2. CASE StillSensitive(h)
    <3>1. ASSUME op' = [op EXCEPT ![h].pc = "blank", ![h].call = "release", ![h].res = "again"]
          PROVE  op'[h].pc = "blank"
      BY <1>0, <3>1 DEF Op
    <3> QED
      BY <2>2, <3>1, SlotSteps DEF StillSensitive
  <2> QED
    BY <1>1, <2>1, <2>2 DEF HandlerStep, Observe, Recheck, Blank, Freeze, Status, Sync, Browser, Shell,
         Inspect, Ask
<1>2. ASSUME NEW h \in Web, Operator(h)
      PROVE  UNCHANGED control \/ Queue(h)
  BY <1>2 DEF Operator, Acquire, Decline, Release, Request, RequestExpires, RequestJoins,
       RequestInserts, RequestOutOfIds,
     RequestReply, RequestTimeout
<1>3. ASSUME NEW i \in Id, Fire(i) \/ Lapse(i)
      PROVE  UNCHANGED control \/ Queue(Timer)
  BY <1>3 DEF Fire, Lapse, daemon
<1>4. CASE ServeRequest \/ Model \/ Live \/ UNCHANGED vars \/ \E r \in Role : LoseSession(r)
  BY <1>4 DEF ServeRequest, Model, ModelCall, ModelSend, ModelServe, ModelTimeout, ModelAsked,
       ModelAskTimeout, ActDone,
     Live, SendInput, RelayInput, DeliverInput, LoseSession, vars, daemon
<1>5. CASE CancelClose
  <2>1. op'[Stop].pc = "idle"
    <3>1. CASE op' = [h \in Handler |-> IF h = Stop THEN NoOp ELSE Interrupted(Role, h)]
      BY <1>0, <3>1 DEF NoOp
    <3>2. CASE op' = [op EXCEPT ![Stop] = NoOp]
      BY <1>0, <3>2 DEF NoOp
    <3> QED
      BY <1>5, <3>1, <3>2 DEF CancelClose
  <2> QED
    BY <1>0, <1>5, <2>1 DEF CancelClose
<1>6. CASE CancelTask \/ CancelGate \/ CancelBlank \/ CancelWait \/ CancelThaw \/ CancelTeardown
  BY <1>0, <1>6 DEF CancelTask, CancelGate, CancelBlank, CancelWait, CancelThaw, CancelTeardown,
       StopCall
<1> QED
  BY <1>0, <1>1, <1>2, <1>3, <1>4, <1>5, <1>6 DEF Next, Cancellation

LEMMA HoldsOn ==
  ASSUME TypeOK, [Next]_vars, NEW g \in Handler, Holds(g), op'[g].pc \notin {"idle", "entry", "blank"}
  PROVE  Holds(g)'
<1>1. control \in Seq(Handler) /\ control # <<>>
  BY DEF TypeOK, Holds
<1>2. ASSUME NEW h \in Handler, Queue(h) PROVE Holds(g)'
  BY <1>1, <1>2 DEF Holds, Queue
<1>3. ASSUME NEW h \in Handler, Holds(h), op'[h].pc \in {"idle", "entry", "blank"} PROVE FALSE
  BY <1>3 DEF Holds
<1>4. CASE UNCHANGED control
  BY <1>4 DEF Holds
<1> QED
  BY <1>2, <1>3, <1>4, QueueMoves

-----------------------------------------------------------------------------
(* Who has the computer to itself.                                         *)

\* A handler past its first answer of the computer, or that has frozen it.
InCharge(h) ==
  \/ op[h].pc \in {"sync", "shell", "inspect", "sensitive", "thaw", "commit", "undo", "refused", "ask"}
  \/ op[h].pc = "browser" /\ op[h].call # "ttl"
  \/ Native /\ op[h].pc = "status" /\ op[h].call = "grant"

\* A grant is an acquire's, in the name of a device; a handler in charge is the first
\* of the queue; the two events no handler sends.
SlotInv == \A h \in Handler :
  /\ op[h].call \notin {"stop", "request"}
  /\ op[h].kind = "acquire" <=> op[h].call = "grant"
  /\ op[h].call = "grant" => op[h].dev \in Device /\ op[h].pc \notin {"observe", "recheck", "blank", "inspect", "sensitive", "thaw"}
  /\ InCharge(h) => Holds(h)

LEMMA OneInCharge ==
  ASSUME SlotInv, NEW g \in Handler, NEW h \in Handler, InCharge(g), Holds(h)
  PROVE  g = h
BY DEF SlotInv, Holds

\* What a handler's own step does to its slot.
LEMMA OwnStep ==
  ASSUME TypeOK, NEW h \in Handler, HandlerStep(h), SlotInv
  PROVE  /\ op'[h].pc \notin {"idle", "entry"} => op'[h].kind = op[h].kind /\ op'[h].dev = op[h].dev
         /\ op'[h].pc \in {"idle", "entry"} => op'[h].kind # "acquire" /\ op'[h].call # "grant"
         /\ \/ op'[h].call = op[h].call
            \/ op'[h].pc \in {"idle", "entry"} /\ op'[h].call = "none"
            \/ op[h].pc = "inspect" /\ op'[h].pc = "browser" /\ op'[h].call = Verdict
            \/ op[h].pc = "sensitive" /\ op[h].kind = "release" /\ op'[h].pc = "blank" /\ op'[h].call = "release"
         /\ InCharge(h)' => Holds(h)
<1>1. op \in [Handler -> Op] /\ op[h] \in Op
  BY DEF TypeOK
<1>2. ASSUME NEW pc, Goto(h, pc)
      PROVE  op'[h].pc = pc /\ op'[h].call = op[h].call /\ op'[h].kind = op[h].kind /\ op'[h].dev = op[h].dev
  BY <1>1, <1>2 DEF Goto, Op
<1>3. ASSUME NEW outcome, Answer(h, outcome)
      PROVE  op'[h].pc \in {"idle", "entry"} /\ op'[h].kind # "acquire" /\ op'[h].call # "grant"
             /\ op'[h].call \in {op[h].call, "none"}
  <2>1. op[h].kind = "stop" => op[h].call # "grant"
    BY DEF SlotInv
  <2>2. op'[h].call = (IF op[h].kind = "stop" THEN op[h].call ELSE "none") /\ op'[h].pc \in {"idle", "entry"}
        /\ op'[h].kind \in {"request", "stop", "none"}
    BY <1>1, <1>3 DEF Answer, NoOp
  <2> QED
    BY <2>1, <2>2
<1>4. CASE Observe(h) \/ Recheck(h) \/ Blank(h)
  <2>1. op[h].call # "grant" /\ ~InCharge(h)
    BY <1>4 DEF Observe, Recheck, Blank, SlotInv, InCharge
  <2>2. (\E pc \in {"status", "blank", "recheck", "observe"} : Goto(h, pc)) \/ Answer(h, "refused")
    BY <1>4 DEF Observe, Recheck, Blank
  <2> QED
    BY <1>2, <1>3, <2>1, <2>2 DEF InCharge
<1>5. CASE Freeze(h) \/ Status(h) \/ Sync(h) \/ Shell(h) \/ Thaw(h) \/ Undo(h) \/ Refused(h) \/ Commit(h)
  <2>1. (\E pc \in Pc \ {"idle", "entry"} : Goto(h, pc)) \/ (\E outcome : Answer(h, outcome))
    BY <1>5, RefusalPc DEF Freeze, Status, Sync, Shell, Thaw, Undo, Refused, Commit, Pc
  <2>2. Holds(h)
    BY <1>5 DEF Freeze, Status, Sync, Shell, Thaw, Undo, Refused, Commit
  <2> QED
    BY <1>2, <1>3, <2>1, <2>2
<1>6. CASE Browser(h)
  <2>1. Holds(h) /\ \/ Goto(h, AfterRefusal(h))
                    \/ op' = [op EXCEPT ![h].pc = "shell", ![h].seen = epoch]
    BY <1>6 DEF Browser
  <2>2. CASE op' = [op EXCEPT ![h].pc = "shell", ![h].seen = epoch]
    BY <1>1, <2>1, <2>2 DEF Op
  <2> QED
    BY <1>2, <2>1, <2>2, RefusalPc
<1>7. CASE Inspect(h)
  BY <1>1, <1>7 DEF Inspect, Op
<1>8. CASE StillSensitive(h)
  <2>1. CASE op' = [op EXCEPT ![h].pc = "blank", ![h].call = "release", ![h].res = "again"]
             /\ op[h].kind = "release"
    BY <1>1, <1>8, <2>1 DEF Op, InCharge, StillSensitive
  <2> QED
    BY <1>3, <1>8, <2>1 DEF StillSensitive
<1>9. CASE Ask(h)
  <2>1. CASE op' = [op EXCEPT ![h].pc = "status", ![h].res = "again"]
    BY <1>1, <1>9, <2>1 DEF Op, Ask
  <2> QED
    BY <1>2, <1>9, <2>1 DEF Ask
<1> QED
  BY <1>4, <1>5, <1>6, <1>7, <1>8, <1>9 DEF HandlerStep

LEMMA SlotNext ==
  ASSUME TypeOK, SlotInv, [Next]_vars
  PROVE  SlotInv'
<1> SUFFICES ASSUME NEW g \in Handler
             PROVE  /\ op'[g].call \notin {"stop", "request"}
                    /\ op'[g].kind = "acquire" <=> op'[g].call = "grant"
                    /\ op'[g].call = "grant" => op'[g].dev \in Device /\ op'[g].pc \notin {"observe", "recheck", "blank", "inspect", "sensitive", "thaw"}
                    /\ InCharge(g)' => Holds(g)'
  BY DEF SlotInv
<1>1. InCharge(g)' => Holds(g)
  BY Moves, OwnStep DEF Same, Away, Starts, Broken, InCharge, SlotInv
<1>2. InCharge(g)' => Holds(g)'
  BY <1>1, HoldsOn DEF InCharge
<1>3. CASE HandlerStep(g)
  <2>1. op'[g].pc \in {"observe", "recheck", "blank", "inspect", "sensitive", "thaw"} => op'[g].call # "grant"
    <3>1. op \in [Handler -> Op]
      BY DEF TypeOK
    <3>2. CASE Observe(g) \/ Recheck(g) \/ Blank(g)
      <4>1. op[g].call # "grant"
        BY <3>2 DEF Observe, Recheck, Blank, SlotInv
      <4> QED
        BY <1>3, <4>1, OwnStep DEF Verdict
    <3>3. CASE StillSensitive(g)
      <4>1. CASE op' = [op EXCEPT ![g].pc = "blank", ![g].call = "release", ![g].res = "again"]
        BY <3>1, <4>1 DEF Op
      <4> QED
        BY <3>3, <4>1, SlotSteps DEF StillSensitive
    <3>4. CASE Shell(g)
      <4>1. op[g].call = "grant" => AfterAcceptance(g) = "commit"
        BY DEF AfterAcceptance
      <4> QED
        BY <3>4, <4>1, SlotSteps, RefusalPc DEF Shell
    <3>6. CASE Refused(g)
      <4>1. op'[g].pc = "thaw" => op[g].kind # "acquire"
        BY <3>6, SlotSteps DEF Refused
      <4> QED
        BY <1>3, <3>1, <3>6, <4>1, SlotSteps, OwnStep DEF Refused, SlotInv
    <3>5. ASSUME ~(Observe(g) \/ Recheck(g) \/ Blank(g) \/ StillSensitive(g) \/ Shell(g) \/ Refused(g))
          PROVE  op'[g].pc \notin {"observe", "recheck", "blank", "inspect", "sensitive", "thaw"}
      <4>1. CASE Thaw(g) \/ Undo(g) \/ Commit(g)
        <5>1. ~Refused(g)
          BY <4>1 DEF Thaw, Undo, Commit, Refused
        <5> QED
          BY <4>1, <5>1, Closing
      <4>2. CASE Freeze(g) \/ Status(g) \/ Sync(g)
        BY <4>2, SlotSteps, RefusalPc DEF Freeze, Status, Sync
      <4>3. CASE Browser(g) \/ Inspect(g) \/ Ask(g)
        BY <3>1, <4>3, SlotSteps, RefusalPc DEF Browser, Inspect, Ask, Op
      <4> QED
        BY <1>3, <3>5, <4>1, <4>2, <4>3 DEF HandlerStep
    <3> QED
      BY <3>2, <3>3, <3>4, <3>5, <3>6
  <2>2. op[g].call \notin {"stop", "request"} /\ (op[g].kind = "acquire" <=> op[g].call = "grant")
        /\ (op[g].call = "grant" => op[g].dev \in Device)
    BY DEF SlotInv
  <2>3. Verdict \in {"still_sensitive", "validated"}
    BY DEF Verdict
  <2>4. op[g].pc \in {"inspect", "sensitive"} => op[g].call # "grant"
    BY DEF SlotInv
  <2>5. CASE op'[g].pc \in {"idle", "entry"}
    BY <1>2, <1>3, <2>2, <2>5, OwnStep
  <2>6. CASE op'[g].pc \notin {"idle", "entry"}
    <3>1. op'[g].kind = op[g].kind /\ op'[g].dev = op[g].dev
      BY <1>3, <2>6, OwnStep
    <3>2. \/ op'[g].call = op[g].call
          \/ op[g].call # "grant" /\ op'[g].call \in {"still_sensitive", "validated", "release"}
      BY <1>3, <2>3, <2>4, <2>6, OwnStep
    <3> QED
      BY <1>2, <2>1, <2>2, <3>1, <3>2
  <2> QED
    BY <2>5, <2>6
<1>4. CASE Same(g) \/ Broken(g) \/ Starts(g) \/ Away(g)
  BY <1>2, <1>4 DEF Same, Away, Starts, Broken, SlotInv
<1> QED
  BY <1>3, <1>4, Moves

LEMMA SlotsHold == Spec => []SlotInv
<1>1. Init => SlotInv
  BY DEF Init, SlotInv, InCharge, NoOp
<1>2. TypeOK /\ SlotInv /\ [Next]_vars => SlotInv'
  BY SlotNext
<1> QED
  BY <1>1, <1>2, TypeCorrect, PTL DEF Spec

-----------------------------------------------------------------------------
(* What one step does to the computer.                                     *)

\* The steps that reach it; the others leave it as it is.
LEMMA Reaches ==
  ASSUME [Next]_vars
  PROVE  \/ UNCHANGED <<gate, epoch, acting, frozen, page, driver>>
         \/ \E h \in Handler : Freeze(h) \/ Sync(h) \/ Browser(h) \/ Shell(h) \/ Thaw(h) \/ Ask(h) \/ Undo(h) \/ Blank(h)
         \/ ServeRequest \/ ModelServe \/ (\E r \in Role : ActDone(r)) \/ DeliverInput
         \/ \E r \in Role : LoseSession(r)
         \/ CancelBlank \/ CancelThaw \/ CancelClose
<1>1. ASSUME NEW h \in Handler, HandlerStep(h)
      PROVE  \/ UNCHANGED <<gate, epoch, acting, frozen, page, driver>>
             \/ Freeze(h) \/ Sync(h) \/ Browser(h) \/ Shell(h) \/ Thaw(h) \/ Ask(h) \/ Undo(h) \/ Blank(h)
  BY <1>1 DEF HandlerStep, Observe, Recheck, Status, Inspect, StillSensitive, Refused, Commit, computer
<1>2. ASSUME NEW h \in Web, Operator(h)
      PROVE  UNCHANGED <<gate, epoch, acting, frozen, page, driver>>
  BY <1>2 DEF Operator, Acquire, Decline, Release, Request, RequestReply, RequestTimeout, computer
<1>3. ASSUME NEW i \in Id, Fire(i) \/ Lapse(i)
      PROVE  UNCHANGED <<gate, epoch, acting, frozen, page, driver>>
  BY <1>3 DEF Fire, Lapse, computer
<1>4. CASE Model
  BY <1>4 DEF Model, ModelCall, ModelSend, ModelTimeout, ModelAsked, ModelAskTimeout, computer
<1>5. CASE Live
  BY <1>5 DEF Live, SendInput, RelayInput, computer
<1>6. CASE Cancellation
  BY <1>6 DEF Cancellation, CancelTask, CancelGate, CancelWait, CancelTeardown, computer
<1>7. CASE UNCHANGED vars
  BY <1>7 DEF vars, computer
<1> QED
  BY <1>1, <1>2, <1>3, <1>4, <1>5, <1>6, <1>7 DEF Next

\* The browser's gate stays, is replaced by a fresh one, is asked for, or takes an event
\* of the handler that has the computer.
Renewal ==
  /\ CancelClose /\ NoneActive /\ FreshProcesses(Role)
  /\ op' = [h \in Handler |-> IF h = Stop THEN NoOp ELSE Interrupted(Role, h)]
Anew ==
  /\ Renewal \/ LoseSession("browser")
  /\ gate'["browser"] = FreshSession /\ page' = "clean" /\ epoch' = 1 /\ UNCHANGED driver
Asked ==
  /\ gate["browser"].state \in {"agent", "paused"} /\ gate'["browser"].state = "takeover_requested"
  /\ epoch' = epoch + 1 /\ UNCHANGED <<page, driver, frozen>>
Moved(h) ==
  /\ Browser(h) /\ Accepts(gate["browser"], op[h].call, op[h].id)
  /\ gate'["browser"] = Answered(gate["browser"], op[h].call) /\ UNCHANGED <<page, frozen>>
  /\ op'[h].pc = "shell" /\ op'[h].call = op[h].call

LEMMA GateMoves ==
  ASSUME TypeOK, [Next]_vars
  PROVE  \/ gate'["browser"] = gate["browser"] /\ UNCHANGED <<epoch, driver>>
         \/ Anew \/ Asked \/ \E h \in Handler : Moved(h)
<1>0. gate \in [Role -> Session] /\ "browser" \in Role /\ op \in [Handler -> Op]
  BY DEF TypeOK, Role
<1>1. ASSUME NEW h \in Handler, Browser(h)
      PROVE  (gate'["browser"] = gate["browser"] /\ UNCHANGED <<epoch, driver>>) \/ Moved(h)
  <2>1. CASE Accepts(gate["browser"], op[h].call, op[h].id)
    <3>1. gate' = [gate EXCEPT !["browser"] = Answered(gate["browser"], op[h].call)] /\ UNCHANGED <<page, frozen>>
          /\ op' = [op EXCEPT ![h].pc = "shell", ![h].seen = epoch]
      BY <1>1, <2>1 DEF Browser
    <3>2. op'[h].pc = "shell" /\ op'[h].call = op[h].call
      BY <1>0, <3>1 DEF Op
    <3> QED
      BY <1>0, <1>1, <2>1, <3>1, <3>2 DEF Moved
  <2> QED
    BY <1>1, <2>1 DEF Browser
<1>2. ASSUME NEW i, gate' = [gate EXCEPT !["browser"] = [state |-> "takeover_requested", id |-> i]]
      PROVE  gate'["browser"].state = "takeover_requested"
  BY <1>0, <1>2
<1>3. ASSUME NEW h \in Handler, Ask(h)
      PROVE  (gate'["browser"] = gate["browser"] /\ UNCHANGED <<epoch, driver>>) \/ Asked
  BY <1>2, <1>3 DEF Ask, Asked, ModelMayAsk, IsTakeoverBusy, BusyStates, Legal, SourceOf
<1>4. CASE ServeRequest
  <2>1. CASE gate' = gate /\ epoch' = epoch
    BY <1>4, <2>1 DEF ServeRequest
  <2>2. CASE gate' # gate \/ epoch' # epoch
    <3>1. /\ gate' = [gate EXCEPT !["browser"] = [state |-> "takeover_requested", id |-> Head(wire).id]]
          /\ epoch' = epoch + 1 /\ gate["browser"].state \in {"agent", "paused"}
      BY <1>4, <2>2 DEF ServeRequest, ModelMayAsk, Legal, SourceOf
    <3> QED
      BY <1>2, <1>4, <3>1 DEF ServeRequest, Asked
  <2> QED
    BY <2>1, <2>2
<1>5. CASE Renewal
  BY <1>0, <1>5 DEF Renewal, CancelClose, FreshProcesses, Anew
<1>6. CASE CancelClose
  BY <1>5, <1>6 DEF CancelClose, Renewal
<1>9. ASSUME NEW r \in Role, LoseSession(r)
      PROVE  (gate'["browser"] = gate["browser"] /\ UNCHANGED <<epoch, driver>>) \/ Anew
  <2>1. CASE r = "browser"
    BY <1>0, <1>9, <2>1 DEF LoseSession, FreshProcesses, Anew
  <2>2. CASE r # "browser"
    BY <1>0, <1>9, <2>2 DEF LoseSession, FreshProcesses
  <2> QED
    BY <2>1, <2>2
<1>7. ASSUME NEW h \in Handler, Sync(h) \/ Shell(h)
      PROVE  gate'["browser"] = gate["browser"] /\ UNCHANGED <<epoch, driver>>
  BY <1>0, <1>7 DEF Sync, Shell
<1>8. CASE UNCHANGED <<gate, epoch, driver>>
  BY <1>8
<1> QED
  BY <1>1, <1>3, <1>4, <1>6, <1>7, <1>8, <1>9, Reaches
     DEF Freeze, Thaw, Undo, Blank, ModelServe, ActDone, DeliverInput, CancelBlank, CancelThaw

\* The page is cleaned, or typed upon through the browser's gate.
LEMMA PageMoves ==
  ASSUME [Next]_vars, page' # page
  PROVE  page' = "clean" \/ (DeliverInput /\ TakesInput)
<1>1. ASSUME NEW R, FreshProcesses(R)
      PROVE  page' = "clean"
  BY <1>1 DEF FreshProcesses
<1> QED
  BY <1>1, Reaches DEF Freeze, Sync, Browser, Shell, Thaw, Ask, Undo, Blank, ServeRequest, ModelServe,
       ActDone, DeliverInput,
     LoseSession, CancelBlank, CancelThaw, CancelClose

\* The native processes are thawed by the handler that has the computer, or by a cancellation.
LEMMA FrozenMoves ==
  ASSUME TypeOK, [Next]_vars
  PROVE  \/ frozen' = frozen \/ frozen' = TRUE
         \/ \E h \in Handler : Thaw(h) \/ (Undo(h) /\ gate["browser"].state = "agent")
         \/ CancelThaw \/ CancelClose
<1>1. ASSUME NEW h \in Handler, Undo(h), gate["browser"].state # "agent"
      PROVE  frozen' = frozen
  BY <1>1 DEF Undo, ThawsAgent, TypeOK
<1>2. ASSUME NEW h \in Handler, Freeze(h)
      PROVE  frozen' = TRUE \/ frozen' = frozen
  BY <1>2 DEF Freeze
<1>3. ASSUME NEW h \in Handler, Sync(h) \/ Browser(h) \/ Shell(h) \/ Ask(h) \/ Blank(h)
      PROVE  frozen' = frozen
  BY <1>3 DEF Sync, Browser, Shell, Ask, Blank
<1>4. CASE ServeRequest \/ ModelServe \/ (\E r \in Role : ActDone(r)) \/ DeliverInput \/ (\E r \in Role : LoseSession(r))
           \/ CancelBlank
  BY <1>4 DEF ServeRequest, ModelServe, ActDone, DeliverInput, LoseSession, CancelBlank
<1> QED
  BY <1>1, <1>2, <1>3, <1>4, Reaches

\* Nobody drives until a grant reaches the browser.
LEMMA DrivenMoves ==
  ASSUME TypeOK, SlotInv, [Next]_vars, Driven', ~Driven
  PROVE  \E h \in Handler : Moved(h) /\ op[h].call = "grant"
<1>1. PICK h \in Handler : Moved(h)
  BY GateMoves DEF Driven, Anew, Asked, FreshSession
<1>2. op[h].call \in TakeoverEvent \cup {"none"} /\ op[h].call \notin {"stop", "request"}
  BY DEF TypeOK, Op, SlotInv
<1>3. op[h].call # "none"
  <2>1. op[h] \in Op /\ op[h].pc = "browser"
    BY <1>1 DEF TypeOK, Moved, Browser
  <2> QED
    BY <2>1 DEF Op
<1>4. op[h].call \in {"grant", "decline", "release", "validated", "still_sensitive", "ttl"}
  BY <1>2, <1>3 DEF TakeoverEvent, TargetOf
<1>5. gate'["browser"] = Answered(gate["browser"], op[h].call) /\ Accepts(gate["browser"], op[h].call, op[h].id)
  BY <1>1 DEF Moved
<1> QED
  BY <1>1, <1>4, <1>5 DEF Driven, Answered, After, Accepts, Legal, SourceOf, TargetOf

-----------------------------------------------------------------------------
(* The native processes while a person drives.                             *)

\* A grant that has frozen them is on its way to the gates.
Frozen(h) == op[h].call = "grant" /\ op[h].pc \in {"status", "sync", "browser", "shell", "ask"}
\* A handback the browser has taken.
Returned(h) == op[h].pc = "thaw" \/ (op[h].pc = "shell" /\ op[h].call \in {"decline", "validated"})

FrozenInv ==
  /\ cancel.pc = "none" /\ op[Stop].pc = "idle"
  /\ Native =>
       /\ Driven => frozen
       /\ \A h \in Handler : Frozen(h) => frozen
       /\ \A h \in Handler : Returned(h) => ~Driven

\* Nothing of a cancellation happens while there is none.
LEMMA NoCancellation ==
  ASSUME TypeOK, [Next]_vars, "cancel" \notin Enabled, cancel.pc = "none", op[Stop].pc = "idle"
  PROVE  UNCHANGED cancel /\ op'[Stop].pc = "idle" /\ ~CancelThaw /\ ~CancelClose
<1>0. /\ {Timer, Stop} \cup Web \subseteq Handler /\ Timer # Stop /\ Stop \notin Web
      /\ op \in [Handler -> Op]
  BY TakeoverAssumption DEF Handler, TypeOK, Timer, Stop
<1>1. ~Cancellation /\ ~CancelThaw /\ ~CancelClose
  BY DEF Cancellation, CancelClose, CancelThaw, CancelTask, CancelGate, CancelBlank, CancelWait,
       CancelTeardown
<1>2. ASSUME NEW h \in Handler \ {Stop}, NEW o, op' = [op EXCEPT ![h] = o] PROVE op'[Stop] = op[Stop]
  BY <1>0, <1>2
<1>3. ASSUME NEW h \in Handler, HandlerStep(h)
      PROVE  UNCHANGED cancel /\ op'[Stop] = op[Stop]
  <2>1. h # Stop
    BY <1>3 DEF HandlerStep, Observe, Recheck, Blank, Freeze, Status, Sync, Browser, Shell, Inspect,
       StillSensitive, Thaw, Ask, Undo, Refused, Commit
  <2>2. \/ \E pc : Goto(h, pc)
        \/ \E outcome : Answer(h, outcome)
        \/ op'[Stop] = op[Stop]
    BY <1>0, <1>3, <2>1 DEF HandlerStep, Observe, Recheck, Blank, Freeze, Status, Sync, Browser, Shell,
         Inspect,
       StillSensitive, Thaw, Ask, Undo, Refused, Commit
  <2>3. op'[Stop] = op[Stop]
    BY <1>0, <2>1, <2>2, SlotSteps
  <2> QED
    BY <1>3, <2>3 DEF HandlerStep, Observe, Recheck, Blank, Freeze, Status, Sync, Browser, Shell,
         Inspect,
       StillSensitive, Thaw, Ask, Undo, Refused, Commit
<1>4. ASSUME NEW h \in Web, Operator(h)
      PROVE  UNCHANGED cancel /\ op'[Stop] = op[Stop]
  BY <1>0, <1>2, <1>4 DEF Operator, Acquire, Decline, Release, Begin, Request, RequestExpires,
       RequestJoins,
     RequestInserts, RequestOutOfIds, RequestReply, RequestTimeout
<1>5. ASSUME NEW i \in Id, Fire(i) \/ Lapse(i)
      PROVE  UNCHANGED cancel /\ op'[Stop] = op[Stop]
  BY <1>0, <1>2, <1>5 DEF Fire, Lapse, Begin, daemon
<1>6. ASSUME ServeRequest
      PROVE  UNCHANGED cancel /\ op'[Stop].pc = op[Stop].pc
  BY <1>0, <1>6 DEF ServeRequest, Op
<1>7. ASSUME Model \/ Live \/ UNCHANGED vars
      PROVE  UNCHANGED cancel /\ op'[Stop].pc = op[Stop].pc
  BY <1>7 DEF Model, ModelCall, ModelSend, ModelServe, ModelTimeout, ModelAsked, ModelAskTimeout,
       ActDone,
     Live, SendInput, RelayInput, DeliverInput, vars, daemon
<1>8. ASSUME NEW r \in Role, LoseSession(r)
      PROVE  UNCHANGED cancel /\ op'[Stop] = op[Stop]
  BY <1>0, <1>8 DEF LoseSession, Interrupted
<1> QED
  BY <1>1, <1>3, <1>4, <1>5, <1>6, <1>7, <1>8 DEF Next, Cancellation

\* The steps that leave a handler with its grant on the way, or with its handback taken.
LEMMA FrozenSlot ==
  ASSUME TypeOK, SlotInv, Native, [Next]_vars, NEW g \in Handler, Frozen(g)'
  PROVE  Frozen(g) \/ Freeze(g)
<1>1. op \in [Handler -> Op] /\ op[g] \in Op
  BY DEF TypeOK
<1>2. CASE Same(g) \/ Away(g) \/ Starts(g) \/ Broken(g)
  BY <1>2 DEF Same, Away, Starts, Broken, Frozen
<1>3. CASE HandlerStep(g)
  <2>1. op[g].call = "grant" \/ op[g].pc \in {"inspect", "sensitive"}
    BY <1>3, OwnStep DEF Frozen
  <2>2. op[g].pc # "sensitive"
    BY <1>3, <2>1, OwnStep DEF Frozen, SlotInv
  <2>3. op[g].pc # "inspect"
    BY <1>3, OwnStep DEF Frozen, Verdict, SlotInv
  <2>4. op[g].call = "grant" /\ op[g].pc \notin {"observe", "recheck", "blank", "inspect", "sensitive"}
    BY <2>1, <2>2, <2>3 DEF SlotInv
  <2>5. CASE Thaw(g) \/ Undo(g) \/ Refused(g) \/ Commit(g)
    BY <2>5, Closing DEF Frozen
  <2> QED
    BY <1>3, <2>4, <2>5 DEF Frozen, HandlerStep, Observe, Recheck, Blank, Freeze, Status, Sync,
         Browser, Shell,
       Inspect, StillSensitive, Ask
<1> QED
  BY <1>2, <1>3, Moves

LEMMA ReturnedSlot ==
  ASSUME TypeOK, SlotInv, [Next]_vars, NEW g \in Handler, Returned(g)'
  PROVE  \/ Returned(g)
         \/ Moved(g) /\ op[g].call \in {"decline", "validated"}
         \/ Refused(g) /\ gate["browser"].state = "agent"
<1>1. op \in [Handler -> Op] /\ op[g] \in Op
  BY DEF TypeOK
<1>2. CASE Same(g) \/ Away(g) \/ Starts(g) \/ Broken(g)
  BY <1>2 DEF Same, Away, Starts, Broken, Returned
<1>3. CASE HandlerStep(g)
  <2>1. CASE Browser(g)
    <3>1. CASE Accepts(gate["browser"], op[g].call, op[g].id)
      <4>1. op' = [op EXCEPT ![g].pc = "shell", ![g].seen = epoch]
            /\ gate' = [gate EXCEPT !["browser"] = Answered(gate["browser"], op[g].call)]
            /\ UNCHANGED <<page, frozen>>
        BY <2>1, <3>1 DEF Browser
      <4>2. op'[g].pc = "shell" /\ op'[g].call = op[g].call
        BY <1>1, <4>1 DEF Op
      <4>3. gate'["browser"] = Answered(gate["browser"], op[g].call)
        BY <4>1 DEF TypeOK, Role
      <4> QED
        BY <2>1, <3>1, <4>1, <4>2, <4>3 DEF Returned, Moved
    <3> QED
      BY <2>1, <3>1, SlotSteps, RefusalPc DEF Browser, Returned
  <2>2. CASE Shell(g)
    <3>1. op'[g].pc = "thaw" /\ op'[g].call = op[g].call /\ op[g].pc = "shell"
      BY <2>2, SlotSteps, RefusalPc DEF Shell, Returned, AfterAcceptance
    <3>2. Goto(g, AfterAcceptance(g)) \/ Goto(g, AfterRefusal(g))
      BY <2>2 DEF Shell
    <3>3. AfterAcceptance(g) = "thaw"
      BY <3>1, <3>2, SlotSteps, RefusalPc
    <3> QED
      BY <3>1, <3>3 DEF AfterAcceptance, Returned
  <2>3. CASE Refused(g)
    BY <2>3, SlotSteps DEF Refused, Returned
  <2>4. CASE Thaw(g) \/ Undo(g) \/ Commit(g)
    BY <2>4, SlotSteps DEF Thaw, Undo, Commit, Returned
  <2>5. CASE StillSensitive(g)
    <3>1. CASE op' = [op EXCEPT ![g].pc = "blank", ![g].call = "release", ![g].res = "again"]
      BY <1>1, <3>1 DEF Op, Returned
    <3> QED
      BY <2>5, <3>1, SlotSteps DEF StillSensitive, Returned
  <2>6. CASE Inspect(g) \/ Ask(g)
    <3>1. CASE op' = [op EXCEPT ![g].pc = "status", ![g].res = "again"]
      BY <1>1, <3>1 DEF Op, Returned
    <3>2. CASE op' = [op EXCEPT ![g].pc = "browser", ![g].call = Verdict]
      BY <1>1, <3>2 DEF Op, Returned
    <3> QED
      BY <2>6, <3>1, <3>2, SlotSteps DEF Inspect, Ask, Returned
  <2>7. CASE Freeze(g) \/ Status(g) \/ Sync(g) \/ Observe(g) \/ Recheck(g) \/ Blank(g)
    BY <2>7, SlotSteps, RefusalPc DEF Freeze, Status, Sync, Observe, Recheck, Blank, Returned
  <2> QED
    BY <1>3, <2>1, <2>2, <2>3, <2>4, <2>5, <2>6, <2>7 DEF HandlerStep
<1> QED
  BY <1>2, <1>3, Moves

LEMMA FrozenNext ==
  ASSUME TypeOK, SlotInv, FrozenInv, [Next]_vars, "cancel" \notin Enabled
  PROVE  FrozenInv'
<1>0. op \in [Handler -> Op] /\ (\A h \in Handler : InCharge(h) => Holds(h)) /\ frozen \in BOOLEAN
  BY DEF TypeOK, SlotInv
<1>1. cancel'.pc = "none" /\ op'[Stop].pc = "idle" /\ ~CancelThaw /\ ~CancelClose
  BY NoCancellation DEF FrozenInv
<1> SUFFICES ASSUME Native
             PROVE  /\ Driven' => frozen'
                    /\ \A h \in Handler : Frozen(h)' => frozen'
                    /\ \A h \in Handler : Returned(h)' => ~Driven'
  BY <1>1 DEF FrozenInv
<1>2. ASSUME frozen, ~frozen'
      PROVE  ~Driven /\ ~Driven' /\ \A h \in Handler : ~Frozen(h)'
  <2>1. PICK h \in Handler : Thaw(h) \/ (Undo(h) /\ gate["browser"].state = "agent")
    BY <1>1, <1>2, FrozenMoves
  <2>2. Holds(h) /\ op[h].pc \in {"thaw", "undo"} /\ UNCHANGED gate
    BY <2>1 DEF Thaw, Undo
  <2>3. ~Driven
    BY <2>1, <2>2 DEF FrozenInv, Returned, Driven, Thaw
  <2>4. ASSUME NEW g \in Handler, Frozen(g)' PROVE FALSE
    <3>1. CASE Frozen(g)
      <4>1. InCharge(g)
        BY <3>1 DEF Frozen, InCharge
      <4>2. g = h
        BY <2>2, <4>1, OneInCharge
      <4> QED
        BY <2>2, <3>1, <4>2 DEF Frozen
    <3>2. CASE Freeze(g)
      BY <2>1, <3>2, <1>2 DEF Freeze, Thaw, Undo, Holds
    <3> QED
      BY <2>4, <3>1, <3>2, FrozenSlot
  <2> QED
    BY <2>2, <2>3, <2>4 DEF Driven
<1>3. Driven' => frozen'
  <2>1. CASE Driven
    BY <1>0, <1>2, <2>1 DEF FrozenInv
  <2>2. CASE ~Driven /\ Driven'
    <3>1. PICK h \in Handler : Moved(h) /\ op[h].call = "grant"
      BY <2>2, DrivenMoves
    <3> QED
      BY <1>2, <2>2, <3>1 DEF Moved, Browser, FrozenInv, Frozen
  <2> QED
    BY <2>1, <2>2
<1>4. ASSUME NEW g \in Handler, Frozen(g)'
      PROVE  frozen'
  <2>1. CASE Frozen(g)
    BY <1>0, <1>2, <1>4, <2>1 DEF FrozenInv
  <2>2. CASE Freeze(g)
    <3>1. CASE Goto(g, "undo")
      BY <1>4, <3>1, SlotSteps DEF Frozen
    <3> QED
      BY <2>2, <3>1 DEF Freeze
  <2> QED
    BY <1>4, <2>1, <2>2, FrozenSlot
<1>5. ASSUME NEW g \in Handler, Returned(g)'
      PROVE  ~Driven'
  <2>1. CASE Returned(g)
    <3>1. ~Driven /\ InCharge(g)
      BY <2>1 DEF FrozenInv, Returned, InCharge
    <3>2. ASSUME NEW h \in Handler, Moved(h), op[h].call = "grant" PROVE FALSE
      <4>1. op[h].pc = "browser" /\ Holds(h)
        BY <3>2 DEF Moved, Browser
      <4> QED
        BY <2>1, <3>1, <4>1, OneInCharge DEF Returned
    <3> QED
      BY <3>1, <3>2, DrivenMoves
  <2>2. CASE Moved(g) /\ op[g].call \in {"decline", "validated"}
    BY <2>2 DEF Moved, Driven, Answered, After, Accepts, Legal, SourceOf, TargetOf
  <2>3. CASE Refused(g) /\ gate["browser"].state = "agent"
    BY <2>3 DEF Refused, Driven, computer
  <2> QED
    BY <1>5, <2>1, <2>2, <2>3, ReturnedSlot
<1> QED
  BY <1>3, <1>4, <1>5

\* While a person drives the guest's native processes are stopped, whichever refusals,
\* late answers, failing thaws and lost processes there are: acquire freezes before the gates
\* are asked (server.ts), and only a handler that knows the person gone thaws.
THEOREM FrozenWhileHumanCorrect ==
  ASSUME "cancel" \notin Enabled
  PROVE  Spec => []FrozenWhileHuman
<1>1. Init => FrozenInv
  BY DEF Init, FrozenInv, Driven, Frozen, Returned, NoOp, FreshSession, Role, Handler
<1>2. TypeOK /\ SlotInv /\ FrozenInv /\ [Next]_vars => FrozenInv'
  BY FrozenNext
<1>3. FrozenInv => FrozenWhileHuman
  BY DEF FrozenInv, FrozenWhileHuman, Driven
<1> QED
  BY <1>1, <1>2, <1>3, TypeCorrect, SlotsHold, PTL DEF Spec

-----------------------------------------------------------------------------
(* A handback that is validated.                                           *)

Human == gate["browser"].state = "human"

\* A release the browser has taken, then the verdict on the page.
Validating(h) ==
  \/ op[h].pc = "shell" /\ op[h].call = "release"
  \/ op[h].pc = "inspect"
  \/ op[h].pc = "browser" /\ op[h].call = "validated"

\* Where no verdict has been given.
Early == {"observe", "recheck", "blank", "freeze", "status", "sync", "ask"}

\* The person's input is refused from the release on, so what was clean stays so.
CleanInv == \A h \in Handler :
  /\ Validating(h) => ~Human
  /\ op[h].pc = "browser" /\ op[h].call = "validated" => page = "clean"
  /\ op[h].call \in {"validated", "still_sensitive"} => op[h].pc \notin Early

LEMMA CallKnown ==
  ASSUME TypeOK, SlotInv, NEW h \in Handler, Moved(h)
  PROVE  /\ op[h].call \in {"grant", "decline", "release", "validated", "still_sensitive", "ttl"}
         /\ Holds(h) /\ op[h].pc = "browser"
<1>1. op[h] \in Op /\ op[h].pc = "browser" /\ Holds(h)
  BY DEF TypeOK, Moved, Browser
<1>2. op[h].call \in TakeoverEvent \cup {"none"} /\ op[h].call \notin {"stop", "request"}
  BY DEF TypeOK, Op, SlotInv
<1>3. op[h].call # "none"
  BY <1>1 DEF Op
<1> QED
  BY <1>1, <1>2, <1>3 DEF TakeoverEvent, TargetOf

\* The browser comes into a person's hands through a handler that has the computer.
LEMMA HumanMoves ==
  ASSUME TypeOK, SlotInv, [Next]_vars, Human', ~Human
  PROVE  \E h \in Handler : Moved(h) /\ InCharge(h) /\ op[h].call \in {"grant", "still_sensitive"}
<1>1. PICK h \in Handler : Moved(h)
  BY GateMoves DEF Human, Anew, Asked, FreshSession
<1>2. gate'["browser"] = Answered(gate["browser"], op[h].call) /\ Accepts(gate["browser"], op[h].call, op[h].id)
  BY <1>1 DEF Moved
<1>3. op[h].call \in {"grant", "still_sensitive"}
  BY <1>1, <1>2, CallKnown DEF Human, Answered, After, Accepts, Legal, SourceOf, TargetOf
<1> QED
  BY <1>1, <1>3, CallKnown DEF InCharge

LEMMA ValidatingSlot ==
  ASSUME TypeOK, SlotInv, CleanInv, [Next]_vars, NEW g \in Handler, Validating(g)'
  PROVE  \/ Validating(g)
         \/ Moved(g) /\ op[g].call = "release"
<1>1. op \in [Handler -> Op] /\ op[g] \in Op
  BY DEF TypeOK
<1>2. CASE Same(g) \/ Away(g) \/ Starts(g) \/ Broken(g)
  BY <1>2 DEF Same, Away, Starts, Broken, Validating
<1>3. CASE HandlerStep(g)
  <2>1. CASE Browser(g)
    <3>1. CASE Accepts(gate["browser"], op[g].call, op[g].id)
      <4>1. op' = [op EXCEPT ![g].pc = "shell", ![g].seen = epoch]
            /\ gate' = [gate EXCEPT !["browser"] = Answered(gate["browser"], op[g].call)]
            /\ UNCHANGED <<page, frozen>>
        BY <2>1, <3>1 DEF Browser
      <4>2. op'[g].pc = "shell" /\ op'[g].call = op[g].call
        BY <1>1, <4>1 DEF Op
      <4>3. gate'["browser"] = Answered(gate["browser"], op[g].call)
        BY <4>1 DEF TypeOK, Role
      <4> QED
        BY <1>3, <2>1, <3>1, <4>1, <4>2, <4>3 DEF Validating, Moved
    <3> QED
      BY <1>3, <2>1, <3>1, SlotSteps, RefusalPc DEF Browser, Validating
  <2>2. CASE Shell(g)
    <3>1. op'[g].pc \in {"inspect"} /\ op[g].pc = "shell"
      BY <2>2, SlotSteps, RefusalPc DEF Shell, Validating, AfterAcceptance
    <3>2. AfterAcceptance(g) = "inspect"
      BY <2>2, <3>1, SlotSteps, RefusalPc DEF Shell
    <3> QED
      BY <3>1, <3>2 DEF AfterAcceptance, Validating
  <2>3. CASE Refused(g) \/ Thaw(g) \/ Undo(g) \/ Commit(g)
    BY <2>3, Closing DEF Validating
  <2>4. CASE StillSensitive(g)
    <3>1. CASE op' = [op EXCEPT ![g].pc = "blank", ![g].call = "release", ![g].res = "again"]
      BY <1>1, <3>1 DEF Op, Validating
    <3> QED
      BY <2>4, <3>1, SlotSteps DEF StillSensitive, Validating
  <2>5. CASE Inspect(g)
    BY <2>5 DEF Inspect, Validating
  <2>6. CASE Ask(g)
    <3>1. CASE op' = [op EXCEPT ![g].pc = "status", ![g].res = "again"]
      BY <1>1, <3>1 DEF Op, Validating
    <3> QED
      BY <2>6, <3>1, SlotSteps DEF Ask, Validating
  <2>7. CASE Sync(g) \/ Status(g)
    <3>1. op[g].call # "validated"
      BY <2>7 DEF Sync, Status, CleanInv, Early
    <3> QED
      BY <1>3, <2>7, <3>1, SlotSteps, RefusalPc DEF Sync, Status, Validating
  <2>8. CASE Freeze(g) \/ Observe(g) \/ Recheck(g) \/ Blank(g)
    BY <2>8, SlotSteps, RefusalPc DEF Freeze, Observe, Recheck, Blank, Validating
  <2> QED
    BY <1>3, <2>1, <2>2, <2>3, <2>4, <2>5, <2>6, <2>7, <2>8 DEF HandlerStep
<1> QED
  BY <1>2, <1>3, Moves

\* A verdict is not carried back to where none has been given.
LEMMA EarlySlot ==
  ASSUME TypeOK, SlotInv, CleanInv, [Next]_vars, NEW g \in Handler, op'[g].call \in {"validated", "still_sensitive"}
  PROVE  op'[g].pc \notin Early
<1>1. op \in [Handler -> Op] /\ op[g] \in Op /\ (op[g].kind = "acquire" <=> op[g].call = "grant")
  BY DEF TypeOK, SlotInv
<1>2. CASE Same(g) \/ Away(g) \/ Starts(g) \/ Broken(g)
  BY <1>1, <1>2 DEF Same, Away, Starts, Broken, CleanInv, Early
<1>3. CASE HandlerStep(g)
  <2>1. CASE Inspect(g)
    <3>1. op'[g].pc = "browser"
      BY <1>1, <2>1 DEF Inspect, Op
    <3> QED
      BY <3>1 DEF Early
  <2>2. CASE StillSensitive(g)
    <3>1. CASE op' = [op EXCEPT ![g].pc = "blank", ![g].call = "release", ![g].res = "again"]
      BY <1>1, <3>1 DEF Op
    <3> QED
      BY <2>2, <3>1, SlotSteps DEF StillSensitive, Early
  <2>3. CASE Thaw(g) \/ Undo(g) \/ Refused(g) \/ Commit(g)
    BY <2>3, Closing DEF Early
  <2>4. CASE op[g].pc \in Early
    <3>1. op[g].call \notin {"validated", "still_sensitive"}
      BY <2>4 DEF CleanInv
    <3>2. op[g].pc \notin {"inspect", "sensitive"}
      BY <2>4 DEF Early
    <3> QED
      BY <1>3, <3>1, <3>2, OwnStep
  <2>5. CASE Browser(g) \/ Shell(g)
    <3>1. op'[g].call = op[g].call
      BY <1>3, <2>5, OwnStep DEF Browser, Shell
    <3>2. AfterRefusal(g) = "refused"
      BY <1>1, <3>1 DEF AfterRefusal
    <3>3. AfterAcceptance(g) \notin Early
      BY DEF AfterAcceptance, Early
    <3>4. CASE op' = [op EXCEPT ![g].pc = "shell", ![g].seen = epoch]
      BY <1>1, <3>4 DEF Op, Early
    <3> QED
      BY <2>5, <3>2, <3>3, <3>4, SlotSteps DEF Browser, Shell, Early
  <2> QED
    BY <1>3, <2>1, <2>2, <2>3, <2>4, <2>5 DEF HandlerStep, Observe, Recheck, Blank, Freeze, Status,
         Sync, Ask, Early
<1> QED
  BY <1>2, <1>3, Moves

LEMMA CleanNext ==
  ASSUME TypeOK, SlotInv, CleanInv, [Next]_vars
  PROVE  CleanInv'
<1>1. ASSUME NEW g \in Handler, Validating(g)'
      PROVE  ~Human'
  <2>1. CASE Validating(g)
    <3>1. ~Human /\ InCharge(g)
      BY <2>1 DEF CleanInv, Validating, InCharge
    <3>2. ASSUME NEW h \in Handler, Moved(h), op[h].call \in {"grant", "still_sensitive"} PROVE FALSE
      <4>1. op[h].pc = "browser" /\ Holds(h)
        BY <3>2, CallKnown
      <4> QED
        BY <2>1, <3>1, <3>2, <4>1, OneInCharge DEF Validating
    <3> QED
      BY <3>1, <3>2, HumanMoves
  <2>2. CASE Moved(g) /\ op[g].call = "release"
    BY <2>2 DEF Moved, Human, Answered, After, Accepts, Legal, SourceOf, TargetOf
  <2> QED
    BY <1>1, <2>1, <2>2, ValidatingSlot
<1>2. ASSUME NEW g \in Handler, op'[g].pc = "browser", op'[g].call = "validated"
      PROVE  page' = "clean"
  <2>1. Validating(g)
    BY <1>2, ValidatingSlot DEF Validating, Moved
  <2>2. ~Human
    BY <2>1 DEF CleanInv
  <2>3. CASE op[g].pc = "browser" /\ op[g].call = "validated"
    BY <2>2, <2>3, PageMoves DEF CleanInv, Human, TakesInput
  <2>4. CASE Inspect(g)
    <3>1. op'[g].call = Verdict /\ UNCHANGED page
      <4>1. op \in [Handler -> Op]
        BY DEF TypeOK
      <4> QED
        BY <2>4, <4>1 DEF Inspect, Op, computer
    <3>2. page \in {"clean", "private"}
      BY DEF TypeOK
    <3> QED
      BY <1>2, <3>1, <3>2 DEF Verdict
  <2>5. op[g].pc = "shell" /\ op[g].call = "release" => ~(op'[g].pc = "browser" /\ op'[g].call = "validated")
    BY Moves, OwnStep DEF Same, Away, Starts, Broken
  <2>6. op[g].pc = "inspect" => Inspect(g)
    BY <1>2, Moves DEF Same, Away, Starts, Broken, HandlerStep, Observe, Recheck, Blank, Freeze,
         Status, Sync, Browser, Shell,
       StillSensitive, Thaw, Ask, Undo, Refused, Commit
  <2> QED
    BY <1>2, <2>1, <2>3, <2>4, <2>5, <2>6 DEF Validating
<1> QED
  BY <1>1, <1>2, EarlySlot DEF CleanInv

\* A handback that goes through takeover.validate never shows the model a private page:
\* releaseTakeover (exec-client.ts) takes the person's input away before it looks.
THEOREM ValidatedIsCleanCorrect == Spec => ValidatedIsClean
<1>1. Init => CleanInv
  BY DEF Init, CleanInv, Validating, NoOp
<1>2. TypeOK /\ SlotInv /\ CleanInv /\ [Next]_vars => CleanInv'
  BY CleanNext
<1>3. ASSUME TypeOK, SlotInv, CleanInv, [Next]_vars, gate["browser"].state = "resume_validating",
             gate'["browser"].state = "agent"
      PROVE  page' = "clean"
  <2>1. CASE Anew
    BY <2>1 DEF Anew
  <2>2. ASSUME NEW h \in Handler, Moved(h) PROVE page' = "clean"
    <3>1. gate'["browser"] = Answered(gate["browser"], op[h].call) /\ Accepts(gate["browser"], op[h].call, op[h].id)
          /\ UNCHANGED page
      BY <2>2 DEF Moved
    <3>2. op[h].call = "validated"
      BY <1>3, <2>2, <3>1, CallKnown DEF Answered, After, Accepts, Legal, SourceOf, TargetOf
    <3> QED
      BY <1>3, <2>2, <3>1, <3>2, CallKnown DEF CleanInv
  <2> QED
    BY <1>3, <2>1, <2>2, GateMoves DEF Asked
<1>4. TypeOK /\ SlotInv /\ CleanInv /\ [Next]_vars
      => [gate["browser"].state = "resume_validating" /\ gate'["browser"].state = "agent" => page' = "clean"]_vars
  BY <1>3
<1> QED
  BY <1>1, <1>2, <1>4, TypeCorrect, SlotsHold, PTL DEF Spec, ValidatedIsClean

-----------------------------------------------------------------------------
(* Whose input reaches the page.                                           *)

\* An epoch somebody may type under: passed, or that of the hold there is.
Current(d, e) == e < epoch \/ (e = epoch /\ d = driver /\ gate["browser"].state # "takeover_requested")

\* A grant the browser has taken, on its way to the row.
Granted(h) == op[h].call = "grant" /\ op[h].pc \in {"shell", "commit"}

\* A device and an epoch are kept in a row, in a handler about to write it, and in a frame.
TokenInv ==
  /\ \A i \in Id : row[i].state = "human" => Current(row[i].owner, row[i].epoch)
  /\ \A h \in Handler : Granted(h) => Current(op[h].dev, op[h].seen)
  /\ input.pc = "sent" => Current(input.dev, input.epoch)

\* A row becomes a person's only by the handler that has the grant in hand.
LEMMA HumanRow ==
  ASSUME TypeOK, SlotInv, [Next]_vars, NEW i \in Id, row'[i].state = "human"
  PROVE  \/ row[i].state = "human" /\ row'[i].owner = row[i].owner /\ row'[i].epoch = row[i].epoch
         \/ \E h \in Handler : Granted(h) /\ Commit(h) /\ row'[i].owner = op[h].dev /\ row'[i].epoch = op[h].seen
<1> DEFINE Kept == row[i].state = "human" /\ row'[i].owner = row[i].owner /\ row'[i].epoch = row[i].epoch
<1>0. row \in [Id -> Row]
  BY DEF TypeOK
<1>1. ASSUME row' = row PROVE Kept
  BY <1>1
<1>2. ASSUME NEW j, NEW s \in {"agent", "paused", "terminated"}, row' = [row EXCEPT ![j].state = s] PROVE Kept
  BY <1>0, <1>2 DEF Row
<1>3. ASSUME NEW j, NEW o, NEW e, NEW t, Insert(j, o, e, t) PROVE Kept
  BY <1>0, <1>3 DEF Insert
<1>4. ASSUME NEW j, NEW e, row[j].state = "takeover_requested", row' = [row EXCEPT ![j].epoch = e] PROVE Kept
  BY <1>0, <1>4 DEF Row
<1>5. ASSUME NEW h \in Handler, Commit(h)
      PROVE  Kept \/ (Granted(h) /\ row'[i].owner = op[h].dev /\ row'[i].epoch = op[h].seen)
  <2>1. CASE op[h].kind = "acquire"
    <3>1. row' = [row EXCEPT ![op[h].id].state = "human", ![op[h].id].owner = op[h].dev,
                             ![op[h].id].lease = "running", ![op[h].id].epoch = op[h].seen]
          /\ op[h].pc = "commit" /\ op[h].call = "grant"
      BY <1>5, <2>1 DEF Commit, SlotInv
    <3>2. CASE i = op[h].id
      <4>1. row'[i].owner = op[h].dev /\ row'[i].epoch = op[h].seen
        BY <1>0, <3>1, <3>2 DEF Row
      <4> QED
        BY <3>1, <4>1 DEF Granted
    <3>3. CASE i # op[h].id
      BY <1>0, <3>1, <3>3 DEF Row
    <3> QED
      BY <3>2, <3>3
  <2> QED
    BY <1>1, <1>2, <1>5, <2>1 DEF Commit
<1>6. ASSUME NEW h \in Handler, HandlerStep(h)
      PROVE  Kept \/ Commit(h)
  BY <1>1, <1>6 DEF HandlerStep, Observe, Recheck, Blank, Freeze, Status, Sync, Browser, Shell, Inspect,
     StillSensitive, Thaw, Ask, Undo, Refused, store
<1>7. ASSUME NEW h \in Web, Operator(h)
      PROVE  Kept
  <2>1. CASE RequestReply(h)
    <3>1. ASSUME NEW rows, row' = ClosePrior(h, rows)
          PROVE  row' = rows \/ row' = [rows EXCEPT ![op[h].prior].state = "terminated"]
      BY <3>1 DEF ClosePrior
    <3>2. CASE op[h].res # "refused" /\ row[op[h].id].state = "takeover_requested"
      <4>1. row' = [row EXCEPT ![op[h].id].epoch = op[h].seen]
            \/ row' = [[row EXCEPT ![op[h].id].epoch = op[h].seen] EXCEPT ![op[h].prior].state = "terminated"]
        BY <2>1, <3>1, <3>2 DEF RequestReply
      <4>2. ASSUME NEW rows \in [Id -> Row], row' = [rows EXCEPT ![op[h].prior].state = "terminated"]
            PROVE  rows[i].state = "human" /\ row'[i].owner = rows[i].owner /\ row'[i].epoch = rows[i].epoch
        BY <4>2 DEF Row
      <4>3. op[h].seen \in Nat
        BY DEF TypeOK, Op, Handler
      <4>4. [row EXCEPT ![op[h].id].epoch = op[h].seen] \in [Id -> Row]
        BY <1>0, <4>3 DEF Row
      <4>5. i # op[h].id
        BY <1>0, <3>2, <4>1, <4>2, <4>4 DEF Row
      <4> QED
        BY <1>0, <4>1, <4>2, <4>4, <4>5
    <3> QED
      BY <1>1, <1>2, <2>1, <3>1, <3>2 DEF RequestReply
  <2>2. CASE RequestTimeout(h)
    BY <1>1, <1>2, <2>2 DEF RequestTimeout, ClosePrior
  <2>3. CASE Request(h)
    BY <1>1, <1>3, <2>3 DEF Request, RequestExpires, RequestJoins, RequestInserts, RequestOutOfIds
  <2> QED
    BY <1>1, <1>7, <2>1, <2>2, <2>3 DEF Operator, Acquire, Decline, Release, store
<1>8. ASSUME NEW j \in Id, Fire(j) \/ Lapse(j)
      PROVE  Kept
  BY <1>0, <1>1, <1>8 DEF Fire, Lapse, Row, store
<1>9. CASE ServeRequest
  BY <1>1, <1>4, <1>9 DEF ServeRequest
<1>10. CASE Model
  BY <1>1, <1>3, <1>10 DEF Model, ModelCall, ModelSend, ModelServe, ModelTimeout, ModelAsked,
       ModelAskTimeout, ActDone, store
<1>11. CASE Live \/ UNCHANGED vars \/ \E r \in Role : LoseSession(r)
  BY <1>1, <1>11 DEF Live, SendInput, RelayInput, DeliverInput, LoseSession, vars, store
<1>12. CASE CancelTask
  BY <1>0, <1>12 DEF CancelTask, Row
<1>13. CASE CancelGate \/ CancelBlank \/ CancelWait \/ CancelThaw \/ CancelTeardown \/ CancelClose
  BY <1>1, <1>13 DEF CancelGate, CancelBlank, CancelWait, CancelThaw, CancelTeardown, CancelClose, store
<1> QED
  BY <1>5, <1>6, <1>7, <1>8, <1>9, <1>10, <1>11, <1>12, <1>13 DEF Next, Cancellation

\* A grant in hand was in hand, or has just been taken by the browser.
LEMMA GrantedSlot ==
  ASSUME TypeOK, SlotInv, [Next]_vars, NEW g \in Handler, Granted(g)'
  PROVE  /\ op[g].call = "grant" /\ op'[g].dev = op[g].dev
         /\ \/ Granted(g) /\ op'[g].seen = op[g].seen
            \/ Moved(g) /\ op'[g].seen = epoch
<1>1. op \in [Handler -> Op] /\ op[g] \in Op
  BY DEF TypeOK
<1>2. CASE Same(g) \/ Away(g) \/ Starts(g) \/ Broken(g)
  BY <1>2 DEF Same, Away, Starts, Broken, Granted
<1>3. ASSUME NEW pc, Goto(g, pc) PROVE op'[g].seen = op[g].seen
  BY <1>1, <1>3 DEF Goto, Op
<1>4. ASSUME HandlerStep(g)
      PROVE  op[g].call = "grant" /\ op'[g].dev = op[g].dev
  BY <1>4, OwnStep DEF Granted, Verdict, SlotInv
<1>5. CASE HandlerStep(g)
  <2>1. CASE Browser(g)
    <3>1. CASE Accepts(gate["browser"], op[g].call, op[g].id)
      <4>1. op' = [op EXCEPT ![g].pc = "shell", ![g].seen = epoch]
            /\ gate' = [gate EXCEPT !["browser"] = Answered(gate["browser"], op[g].call)]
            /\ UNCHANGED <<page, frozen>>
        BY <2>1, <3>1 DEF Browser
      <4>2. op'[g].pc = "shell" /\ op'[g].call = op[g].call /\ op'[g].seen = epoch
        BY <1>1, <4>1 DEF Op
      <4>3. gate'["browser"] = Answered(gate["browser"], op[g].call)
        BY <4>1 DEF TypeOK, Role
      <4> QED
        BY <1>4, <1>5, <2>1, <3>1, <4>1, <4>2, <4>3 DEF Moved
    <3> QED
      BY <2>1, <3>1, SlotSteps, RefusalPc DEF Browser, Granted
  <2>2. CASE Shell(g)
    <3>1. op[g].pc = "shell" /\ op'[g].seen = op[g].seen
      BY <1>3, <2>2 DEF Shell
    <3> QED
      BY <1>4, <1>5, <3>1 DEF Granted
  <2>3. CASE Refused(g) \/ Thaw(g) \/ Undo(g) \/ Commit(g) \/ StillSensitive(g) \/ Inspect(g)
    <3>1. ~Thaw(g) /\ ~StillSensitive(g) /\ ~Inspect(g)
      BY <1>4, <1>5 DEF StillSensitive, Inspect, Thaw, SlotInv
    <3> QED
      BY <2>3, <3>1, Closing DEF Granted
  <2>4. CASE Ask(g)
    <3>1. CASE op' = [op EXCEPT ![g].pc = "status", ![g].res = "again"]
      BY <1>1, <3>1 DEF Op, Granted
    <3> QED
      BY <2>4, <3>1, SlotSteps DEF Ask, Granted
  <2>5. CASE Freeze(g) \/ Status(g) \/ Sync(g) \/ Observe(g) \/ Recheck(g) \/ Blank(g)
    BY <2>5, SlotSteps, RefusalPc DEF Freeze, Status, Sync, Observe, Recheck, Blank, Granted
  <2> QED
    BY <1>5, <2>1, <2>2, <2>3, <2>4, <2>5 DEF HandlerStep
<1> QED
  BY <1>2, <1>5, Moves

\* The epoch, the driver and the browser's gate move so that whoever may type still may,
\* or has been left behind; the processes are new only when nobody may.
StillCurrent(d, e) == e < epoch' \/ (e = epoch' /\ d = driver' /\ gate'["browser"].state # "takeover_requested")

LEMMA CurrentNext ==
  ASSUME TypeOK, SlotInv, [Next]_vars, ~Renewal, "lostBrowser" \notin Enabled, NEW d, NEW e \in Nat, Current(d, e)
  PROVE  StillCurrent(d, e)
<1>0. epoch \in Nat
  BY DEF TypeOK
<1>1. CASE gate'["browser"] = gate["browser"] /\ UNCHANGED <<epoch, driver>>
  BY <1>1 DEF Current, StillCurrent
<1>2. CASE Asked
  BY <1>0, <1>2 DEF Asked, Current, StillCurrent
<1>3. ASSUME NEW h \in Handler, Moved(h)
      PROVE  StillCurrent(d, e)
  <2>1. /\ gate'["browser"] = Answered(gate["browser"], op[h].call) /\ Accepts(gate["browser"], op[h].call, op[h].id)
        /\ epoch' = IF op[h].call = "decline" /\ gate["browser"].state # "agent" THEN epoch + 1 ELSE epoch
        /\ driver' = IF op[h].call = "grant" THEN op[h].dev ELSE driver
    BY <1>3 DEF Moved, Browser
  <2>2. CASE op[h].call = "grant"
    <3>1. gate["browser"].state = "takeover_requested" /\ epoch' = epoch
      BY <2>1, <2>2 DEF Accepts, Legal, SourceOf
    <3> QED
      BY <3>1 DEF Current, StillCurrent
  <2>3. CASE op[h].call = "decline" /\ gate["browser"].state # "agent"
    BY <1>0, <2>1, <2>3 DEF Current, StillCurrent
  <2>4. CASE op[h].call \notin {"grant", "decline"}
    <3>1. gate'["browser"].state # "takeover_requested"
      BY <1>3, <2>1, <2>4, CallKnown DEF Answered, After, Accepts, Legal, SourceOf, TargetOf
    <3> QED
      BY <2>1, <2>4, <3>1 DEF Current, StillCurrent
  <2>5. CASE op[h].call = "decline" /\ gate["browser"].state = "agent"
    <3>1. gate'["browser"] = gate["browser"]
      BY <2>1, <2>5 DEF Answered, Legal, SourceOf
    <3> QED
      BY <2>1, <2>5, <3>1 DEF Current, StillCurrent
  <2> QED
    BY <2>2, <2>3, <2>4, <2>5
<1>4. ~Anew
  BY DEF Anew, LoseSession
<1> QED
  BY <1>1, <1>2, <1>3, <1>4, GateMoves

\* A frame is sent only as the hold's row has it.
LEMMA SentInput ==
  ASSUME [Next]_vars, input'.pc = "sent"
  PROVE  \/ input.pc = "sent" /\ input' = input
         \/ MayType(input'.dev, input'.epoch) /\ UNCHANGED row
<1>1. CASE Live
  <2>1. CASE RelayInput
    <3>1. input' = [input EXCEPT !.pc = "sent"] /\ MayType(input.dev, input.epoch) /\ UNCHANGED row
      BY <1>1, <2>1 DEF RelayInput, NoInput, store
    <3> QED
      BY <3>1
  <2> QED
    BY <1>1, <2>1 DEF Live, SendInput, DeliverInput, NoInput
<1>2. ASSUME NEW R, FreshProcesses(R)
      PROVE  input' = input \/ input' = NoInput
  BY <1>2 DEF FreshProcesses
<1>3. ASSUME CancelClose \/ \E r \in Role : LoseSession(r)
      PROVE  input' = input
  <2>1. input' = input \/ input' = NoInput
    BY <1>2, <1>3 DEF CancelClose, LoseSession
  <2> QED
    BY <2>1 DEF NoInput
<1>4. ASSUME NEW h \in Handler, HandlerStep(h)
      PROVE  UNCHANGED input
  BY <1>4 DEF HandlerStep, Observe, Recheck, Blank, Freeze, Status, Sync, Browser, Shell, Inspect,
     StillSensitive, Thaw, Ask, Undo, Refused, Commit
<1>5. ASSUME NEW h \in Web, Operator(h)
      PROVE  UNCHANGED input
  BY <1>5 DEF Operator, Acquire, Decline, Release, Request, RequestReply, RequestTimeout
<1>6. CASE ServeRequest \/ Model \/ UNCHANGED vars \/ \E i \in Id : Fire(i) \/ Lapse(i)
  BY <1>6 DEF ServeRequest, Model, ModelCall, ModelSend, ModelServe, ModelTimeout, ModelAsked,
       ModelAskTimeout, ActDone,
     Fire, Lapse, vars, daemon
<1>7. CASE CancelTask \/ CancelGate \/ CancelBlank \/ CancelWait \/ CancelThaw \/ CancelTeardown
  BY <1>7 DEF CancelTask, CancelGate, CancelBlank, CancelWait, CancelThaw, CancelTeardown
<1> QED
  BY <1>1, <1>3, <1>4, <1>5, <1>6, <1>7 DEF Next, Cancellation

LEMMA TokenNext ==
  ASSUME TypeOK, SlotInv, TokenInv, [Next]_vars, "lostBrowser" \notin Enabled
  PROVE  TokenInv'
<1>0. row \in [Id -> Row] /\ op \in [Handler -> Op] /\ input \in Input /\ epoch \in Nat
  BY DEF TypeOK
<1> SUFFICES /\ \A i \in Id : row'[i].state = "human" => StillCurrent(row'[i].owner, row'[i].epoch)
             /\ \A h \in Handler : Granted(h)' => StillCurrent(op'[h].dev, op'[h].seen)
             /\ input'.pc = "sent" => StillCurrent(input'.dev, input'.epoch)
  BY DEF TokenInv, StillCurrent, Current
<1>1. ASSUME NEW i \in Id, row[i].state = "human"
      PROVE  Current(row[i].owner, row[i].epoch) /\ row[i].epoch \in Nat
  BY <1>0, <1>1 DEF TokenInv, Row
<1>2. ASSUME NEW h \in Handler, Granted(h)
      PROVE  Current(op[h].dev, op[h].seen) /\ op[h].seen \in Nat
  BY <1>0, <1>2 DEF TokenInv, Op
<1>3. CASE ~Renewal
  <2>1. ASSUME NEW i \in Id, row'[i].state = "human"
        PROVE  StillCurrent(row'[i].owner, row'[i].epoch)
    <3>1. CASE row[i].state = "human" /\ row'[i].owner = row[i].owner /\ row'[i].epoch = row[i].epoch
      BY <1>1, <1>3, <3>1, CurrentNext
    <3>2. ASSUME NEW h \in Handler, Granted(h), row'[i].owner = op[h].dev, row'[i].epoch = op[h].seen
          PROVE  StillCurrent(row'[i].owner, row'[i].epoch)
      BY <1>2, <1>3, <3>2, CurrentNext
    <3> QED
      BY <2>1, <3>1, <3>2, HumanRow
  <2>2. ASSUME NEW h \in Handler, Granted(h)'
        PROVE  StillCurrent(op'[h].dev, op'[h].seen)
    <3>1. CASE Granted(h) /\ op'[h].seen = op[h].seen
      BY <1>2, <1>3, <2>2, <3>1, GrantedSlot, CurrentNext
    <3>2. CASE Moved(h) /\ op'[h].seen = epoch
      <4>1. op[h].call = "grant" /\ op'[h].dev = op[h].dev
        BY <2>2, GrantedSlot
      <4>2. driver' = op[h].dev /\ epoch' = epoch
        BY <3>2, <4>1 DEF Moved, Browser
      <4>3. gate'["browser"].state = "human"
        BY <3>2, <4>1 DEF Moved, Answered, After, Accepts, Legal, SourceOf, TargetOf
      <4> QED
        BY <3>2, <4>1, <4>2, <4>3 DEF StillCurrent
    <3> QED
      BY <2>2, <3>1, <3>2, GrantedSlot
  <2>3. ASSUME input'.pc = "sent"
        PROVE  StillCurrent(input'.dev, input'.epoch)
    <3>1. CASE input.pc = "sent" /\ input' = input
      BY <1>0, <1>3, <3>1, CurrentNext DEF TokenInv, Input
    <3>2. CASE MayType(input'.dev, input'.epoch) /\ UNCHANGED row
      BY <2>1, <3>2 DEF MayType
    <3> QED
      BY <2>3, <3>1, <3>2, SentInput
  <2> QED
    BY <2>1, <2>2, <2>3
<1>4. CASE Renewal
  <2>1. ASSUME NEW i \in Id, row'[i].state = "human"
        PROVE  FALSE
    BY <1>4, <2>1 DEF Renewal, CancelClose, NoneActive, Open, Held, IsTakeoverBusy, BusyStates, store
  <2>2. ASSUME NEW h \in Handler, Granted(h)'
        PROVE  FALSE
    <3>1. h # Stop
      BY <1>4, <2>2 DEF Renewal, NoOp, Granted
    <3>2. Holds(h)
      BY <2>2, GrantedSlot DEF SlotInv, InCharge, Granted, Moved, Browser
    <3> QED
      BY <1>4, <3>1, <3>2 DEF Renewal, CancelClose, Holds
  <2>3. input'.pc # "sent"
    BY <1>4 DEF Renewal, FreshProcesses, NoInput, Role
  <2> QED
    BY <2>1, <2>2, <2>3
<1> QED
  BY <1>3, <1>4

\* What appears on the page was typed by the device that took the hold: a frame queued under
\* an earlier hold has an epoch the browser has left behind, whichever requests, grants,
\* handbacks, expiries and cancellations came between (validateLiveRelayFrame, gateMethod).
THEOREM OnlyHolderTypesCorrect ==
  ASSUME "lostBrowser" \notin Enabled
  PROVE  Spec => OnlyHolderTypes
<1>1. Init => TokenInv
  BY DEF Init, TokenInv, Granted, NoRow, NoOp, NoInput
<1>2. TypeOK /\ SlotInv /\ TokenInv /\ [Next]_vars => TokenInv'
  BY TokenNext
<1>3. ASSUME TypeOK, TokenInv, [Next]_vars, page' = "private", page = "clean"
      PROVE  input.dev = driver
  <2>1. DeliverInput /\ TakesInput
    BY <1>3, PageMoves
  <2> QED
    BY <1>3, <2>1 DEF DeliverInput, TakesInput, TokenInv, Current, TypeOK
<1>4. TypeOK /\ TokenInv /\ [Next]_vars
      => [page' = "private" /\ page = "clean" => input.dev = driver]_vars
  BY <1>3
<1> QED
  BY <1>1, <1>2, <1>4, TypeCorrect, SlotsHold, PTL DEF Spec, OnlyHolderTypes

-----------------------------------------------------------------------------
(* The capture barrier is implemented.                                     *)

\* The barrier's driver and its shut doors, as the gates of the two processes have them.
Driving == IF Human THEN driver ELSE NoDevice
Doors == {r \in Role : IsTakeoverBusy(gate[r].state)}

\* Whoever drives is somebody.
DriverInv == Driven => driver \in Device

LEMMA DriverNext ==
  ASSUME TypeOK, SlotInv, DriverInv, [Next]_vars
  PROVE  DriverInv'
<1>1. ASSUME NEW h \in Handler, Moved(h), Driven
      PROVE  driver' \in Device
  BY <1>1 DEF Moved, Browser, SlotInv, DriverInv
<1>2. ASSUME NEW h \in Handler, Moved(h), op[h].call = "grant"
      PROVE  driver' \in Device
  BY <1>2 DEF Moved, Browser, SlotInv
<1>3. CASE Driven
  BY <1>1, <1>3, GateMoves DEF DriverInv, Anew, Asked
<1> QED
  BY <1>2, <1>3, DrivenMoves DEF DriverInv

\* One gate moves: its door shuts, opens or stays as it is.
LEMMA DoorMoves ==
  ASSUME gate \in [Role -> Session], NEW r \in Role, NEW s, gate' = [gate EXCEPT ![r] = s]
  PROVE  /\ IsTakeoverBusy(s.state) => Doors' = Doors \cup {r}
         /\ ~IsTakeoverBusy(s.state) => Doors' = Doors \ {r}
         /\ IsTakeoverBusy(s.state) <=> r \in Doors'
         /\ r # "browser" => (Human' <=> Human)
         /\ r = "browser" => gate'["browser"] = s
BY DEF Doors, Human, Role

LEMMA StutterMaps ==
  ASSUME UNCHANGED <<Driving, Doors, acting, page>>
  PROVE  [Barrier!BarrierNext]_(Barrier!barrierVars)
BY DEF Driving, Doors, Human, Barrier!barrierVars

LEMMA TakeMaps ==
  ASSUME NEW p \in Device, Driving = NoDevice, Doors = Role, acting = {}, Driving' = p,
         UNCHANGED <<Doors, acting, page>>
  PROVE  [Barrier!BarrierNext]_(Barrier!barrierVars)
<1>1. Barrier!Take(p)
  BY DEF Driving, Doors, Human, Barrier!Take
<1> QED
  BY <1>1 DEF Barrier!BarrierNext

LEMMA YieldMaps ==
  ASSUME Driving' = NoDevice, UNCHANGED <<Doors, acting, page>>
  PROVE  [Barrier!BarrierNext]_(Barrier!barrierVars)
<1>1. Barrier!Yield
  BY DEF Driving, Doors, Human, Barrier!Yield
<1> QED
  BY <1>1 DEF Barrier!BarrierNext

LEMMA DoorMaps ==
  ASSUME NEW r \in Role, UNCHANGED <<Driving, acting, page>>,
         Doors' = Doors \cup {r} \/ (Driving = NoDevice /\ Doors' = Doors \ {r})
  PROVE  [Barrier!BarrierNext]_(Barrier!barrierVars)
<1>1. Barrier!Shut(r) \/ Barrier!Open(r)
  BY DEF Driving, Doors, Human, Barrier!Shut, Barrier!Open
<1> QED
  BY <1>1 DEF Barrier!BarrierNext

LEMMA BlankMaps ==
  ASSUME Doors # {}, page' = "clean", UNCHANGED <<Driving, Doors, acting>>
  PROVE  [Barrier!BarrierNext]_(Barrier!barrierVars)
<1>1. Barrier!Blank
  BY DEF Driving, Doors, Human, Barrier!Blank
<1> QED
  BY <1>1 DEF Barrier!BarrierNext

LEMMA ReplaceMaps ==
  ASSUME NEW R \in SUBSET Role, "browser" \in R, Driving' = NoDevice, Doors' = Doors \ R, acting' = acting \ R,
         page' = "clean"
  PROVE  [Barrier!BarrierNext]_(Barrier!barrierVars)
<1>1. Barrier!Replace(R)
  BY DEF Driving, Doors, Human, Barrier!Replace
<1> QED
  BY <1>1 DEF Barrier!BarrierNext

\* The browser decides: a person takes or yields the desktop, or its door opens.
LEMMA BrowserMaps ==
  ASSUME TypeOK, SlotInv, CaptureInv, DriverInv, [Next]_vars, NEW h \in Handler, Moved(h)
  PROVE  [Barrier!BarrierNext]_(Barrier!barrierVars)
<1>1. /\ gate' = [gate EXCEPT !["browser"] = Answered(gate["browser"], op[h].call)]
      /\ Accepts(gate["browser"], op[h].call, op[h].id)
      /\ UNCHANGED <<acting, page>>
      /\ driver' = IF op[h].call = "grant" THEN op[h].dev ELSE driver
  BY DEF Moved, Browser
<1>2. gate \in [Role -> Session] /\ "browser" \in Role
  BY DEF TypeOK, Role
<1> DEFINE s == Answered(gate["browser"], op[h].call)
<1>3. /\ IsTakeoverBusy(s.state) => Doors' = Doors \cup {"browser"}
      /\ ~IsTakeoverBusy(s.state) => Doors' = Doors \ {"browser"}
      /\ gate'["browser"] = s
  BY <1>1, <1>2, DoorMoves
<1>4. ASSUME IsTakeoverBusy(gate["shell"].state), IsTakeoverBusy(gate["browser"].state)
      PROVE  Doors = Role /\ acting = {}
  BY <1>2, <1>4 DEF Doors, Role, CaptureInv, TypeOK
<1>5. CASE op[h].call = "grant"
  <2>1. gate["browser"].state = "takeover_requested" /\ s.state = "human" /\ op[h].dev \in Device
    BY <1>1, <1>5 DEF Accepts, Answered, After, Legal, SourceOf, TargetOf, SlotInv
  <2>2. IsTakeoverBusy(gate["shell"].state)
    BY <1>5, CallKnown DEF CaptureInv, Granting
  <2>3. Doors = Role /\ acting = {} /\ Doors' = Doors
    BY <1>2, <1>3, <1>4, <2>1, <2>2 DEF IsTakeoverBusy, BusyStates
  <2>4. Driving = NoDevice /\ Driving' = op[h].dev
    BY <1>1, <1>3, <1>5, <2>1 DEF Driving, Human
  <2> QED
    BY <1>1, <2>1, <2>3, <2>4, TakeMaps
<1>6. CASE op[h].call = "still_sensitive"
  <2>1. gate["browser"].state = "resume_validating" /\ s.state = "human"
    BY <1>1, <1>6 DEF Accepts, Answered, After, Legal, SourceOf, TargetOf
  <2>2. IsTakeoverBusy(gate["shell"].state) /\ driver \in Device
    BY <2>1 DEF CaptureInv, Driven, DriverInv
  <2>3. Doors = Role /\ acting = {} /\ Doors' = Doors
    BY <1>2, <1>3, <1>4, <2>1, <2>2 DEF IsTakeoverBusy, BusyStates
  <2>4. Driving = NoDevice /\ Driving' = driver
    BY <1>1, <1>3, <1>6, <2>1 DEF Driving, Human
  <2> QED
    BY <1>1, <2>2, <2>3, <2>4, TakeMaps
<1>7. CASE op[h].call \in {"release", "ttl"}
  <2>1. IsTakeoverBusy(gate["browser"].state) /\ IsTakeoverBusy(s.state) /\ s.state # "human"
    BY <1>1, <1>7 DEF Accepts, Answered, After, Legal, SourceOf, TargetOf, IsTakeoverBusy, BusyStates
  <2>2. Doors' = Doors
    BY <1>2, <1>3, <2>1 DEF Doors
  <2>3. Driving' = NoDevice
    BY <1>3, <2>1 DEF Driving, Human
  <2> QED
    BY <1>1, <2>2, <2>3, YieldMaps
<1>8. CASE op[h].call \in {"decline", "validated"}
  <2>1. gate["browser"].state # "human" /\ s.state = "agent"
    BY <1>1, <1>8 DEF Accepts, Answered, After, Legal, SourceOf, TargetOf
  <2>2. Driving = NoDevice /\ Driving' = NoDevice
    BY <1>3, <2>1 DEF Driving, Human
  <2>3. Doors' = Doors \ {"browser"}
    BY <1>3, <2>1 DEF IsTakeoverBusy, BusyStates
  <2> QED
    BY <1>1, <1>2, <2>2, <2>3, DoorMaps
<1> QED
  BY <1>5, <1>6, <1>7, <1>8, CallKnown

\* The shell follows: its door opens only when nobody drives.
LEMMA ShellMaps ==
  ASSUME TypeOK, SlotInv, CaptureInv, NEW h \in Handler, Shell(h)
  PROVE  [Barrier!BarrierNext]_(Barrier!barrierVars)
<1>1. op[h].pc = "shell" /\ UNCHANGED <<acting, page, driver>> /\ gate \in [Role -> Session] /\ "shell" \in Role
      /\ op[h] \in Op
  BY DEF Shell, TypeOK, Role
<1>2. op[h].call \in {"grant", "decline", "release", "validated", "still_sensitive", "ttl"}
  <2>1. op[h].call \in TakeoverEvent /\ op[h].call \notin {"stop", "request"}
    BY <1>1 DEF Op, SlotInv
  <2> QED
    BY <2>1 DEF TakeoverEvent, TargetOf
<1>3. CASE Accepts(gate["shell"], op[h].call, op[h].id)
  <2> DEFINE s == Answered(gate["shell"], op[h].call)
  <2>1. gate' = [gate EXCEPT !["shell"] = s]
    BY <1>3 DEF Shell
  <2>2. /\ IsTakeoverBusy(s.state) => Doors' = Doors \cup {"shell"}
        /\ ~IsTakeoverBusy(s.state) => Doors' = Doors \ {"shell"}
        /\ Human' <=> Human
    BY <1>1, <2>1, DoorMoves
  <2>3. Driving' = Driving
    BY <1>1, <2>2 DEF Driving
  <2>4. CASE op[h].call \in {"decline", "validated"}
    <3>1. s.state = "agent"
      BY <1>3, <2>4 DEF Accepts, Answered, After, Legal, SourceOf, TargetOf
    <3>2. Driving = NoDevice
      BY <1>1, <2>4 DEF CaptureInv, Returning, Driven, Driving, Human
    <3> QED
      BY <1>1, <2>2, <2>3, <3>1, <3>2, DoorMaps DEF IsTakeoverBusy, BusyStates
  <2>5. CASE op[h].call \in {"grant", "release", "still_sensitive", "ttl"}
    <3>1. IsTakeoverBusy(s.state)
      BY <1>3, <2>5 DEF Accepts, Answered, After, Legal, SourceOf, TargetOf, IsTakeoverBusy, BusyStates
    <3> QED
      BY <1>1, <2>2, <2>3, <3>1, DoorMaps
  <2> QED
    BY <1>2, <2>4, <2>5
<1>4. CASE ~Accepts(gate["shell"], op[h].call, op[h].id)
  BY <1>1, <1>4, StutterMaps DEF Shell, Driving, Doors, Human
<1> QED
  BY <1>3, <1>4

\* A request shuts the browser's door, and nobody drives yet.
LEMMA RequestMaps ==
  ASSUME TypeOK, NEW i, gate' = [gate EXCEPT !["browser"] = [state |-> "takeover_requested", id |-> i]],
         ~Human, UNCHANGED <<acting, page, driver>>
  PROVE  [Barrier!BarrierNext]_(Barrier!barrierVars)
<1>1. gate \in [Role -> Session] /\ "browser" \in Role
  BY DEF TypeOK, Role
<1>2. gate'["browser"].state = "takeover_requested" /\ Doors' = Doors \cup {"browser"}
  BY <1>1, DoorMoves DEF IsTakeoverBusy, BusyStates
<1>3. Driving = NoDevice /\ Driving' = NoDevice
  BY <1>2 DEF Driving, Human
<1> QED
  BY <1>1, <1>2, <1>3, DoorMaps

\* A page is blanked behind the browser's shut door.
LEMMA CleanMaps ==
  ASSUME TypeOK, gate["browser"].state \in {"human", "paused"}, page' = "clean", UNCHANGED <<gate, driver, acting>>
  PROVE  [Barrier!BarrierNext]_(Barrier!barrierVars)
<1>1. "browser" \in Doors
  BY DEF Doors, Role, IsTakeoverBusy, BusyStates
<1> QED
  BY <1>1, BlankMaps DEF Doors, Driving, Human

LEMMA UntouchedMaps ==
  ASSUME UNCHANGED <<gate, acting, page, driver>>
  PROVE  [Barrier!BarrierNext]_(Barrier!barrierVars)
BY StutterMaps DEF Driving, Doors, Human

\* Fresh processes, the browser's among them: the hold and the page end with it.
LEMMA FreshMaps ==
  ASSUME NEW R \in SUBSET Role, "browser" \in R, FreshProcesses(R)
  PROVE  [Barrier!BarrierNext]_(Barrier!barrierVars)
<1>1. \A r \in Role : gate'[r] = IF r \in R THEN FreshSession ELSE gate[r]
  BY DEF FreshProcesses
<1>2. Doors' = Doors \ R
  BY <1>1 DEF Doors, FreshSession, IsTakeoverBusy, BusyStates
<1>3. Driving' = NoDevice
  BY <1>1 DEF Driving, Human, FreshSession, Role
<1> QED
  BY <1>2, <1>3, ReplaceMaps DEF FreshProcesses

\* Every step of the daemon and of the computer-server is a step of the barrier.
LEMMA BarrierNext ==
  ASSUME TypeOK, SlotInv, CaptureInv, DriverInv, [Next]_vars, "lostShell" \notin Enabled
  PROVE  [Barrier!BarrierNext]_(Barrier!barrierVars)
<1>1. ASSUME NEW h \in Handler, Freeze(h) \/ Thaw(h) \/ Undo(h)
      PROVE  [Barrier!BarrierNext]_(Barrier!barrierVars)
  BY <1>1, UntouchedMaps DEF Freeze, Thaw, Undo
<1>2. ASSUME NEW h \in Handler, Sync(h)
      PROVE  [Barrier!BarrierNext]_(Barrier!barrierVars)
  <2>1. gate' = [gate EXCEPT !["shell"] = [state |-> "takeover_requested", id |-> op[h].id]]
        /\ UNCHANGED <<acting, page, driver>> /\ gate \in [Role -> Session] /\ "shell" \in Role
    BY <1>2 DEF Sync, TypeOK, Role
  <2> DEFINE s == [state |-> "takeover_requested", id |-> op[h].id]
  <2>2. IsTakeoverBusy(s.state)
    BY DEF IsTakeoverBusy, BusyStates
  <2>3. Doors' = Doors \cup {"shell"} /\ (Human' <=> Human)
    <3>1. gate' = [gate EXCEPT !["shell"] = s]
      BY <2>1
    <3> HIDE DEF s
    <3> QED
      BY <2>1, <2>2, <3>1, DoorMoves
  <2> QED
    BY <2>1, <2>3, DoorMaps DEF Driving
<1>3. ASSUME NEW h \in Handler, Browser(h)
      PROVE  [Barrier!BarrierNext]_(Barrier!barrierVars)
  <2>1. CASE Accepts(gate["browser"], op[h].call, op[h].id)
    <3>1. gate' = [gate EXCEPT !["browser"] = Answered(gate["browser"], op[h].call)] /\ UNCHANGED <<page, frozen>>
          /\ op' = [op EXCEPT ![h].pc = "shell", ![h].seen = epoch]
      BY <1>3, <2>1 DEF Browser
    <3>2. op'[h].pc = "shell" /\ op'[h].call = op[h].call
      BY <3>1 DEF TypeOK, Op
    <3>3. gate'["browser"] = Answered(gate["browser"], op[h].call)
      BY <3>1 DEF TypeOK, Role
    <3> QED
      BY <1>3, <2>1, <3>1, <3>2, <3>3, BrowserMaps DEF Moved
  <2>2. CASE ~Accepts(gate["browser"], op[h].call, op[h].id)
    BY <1>3, <2>2, UntouchedMaps DEF Browser
  <2> QED
    BY <2>1, <2>2
<1>4. ASSUME NEW h \in Handler, Ask(h)
      PROVE  [Barrier!BarrierNext]_(Barrier!barrierVars)
  <2>1. CASE ModelMayAsk
    <3>1. ~Human
      BY <2>1 DEF ModelMayAsk, Legal, SourceOf, Human
    <3> QED
      BY <1>4, <2>1, <3>1, RequestMaps DEF Ask
  <2>2. CASE ~ModelMayAsk
    BY <1>4, <2>2, UntouchedMaps DEF Ask
  <2> QED
    BY <2>1, <2>2
<1>5. ASSUME NEW h \in Handler, Blank(h)
      PROVE  [Barrier!BarrierNext]_(Barrier!barrierVars)
  BY <1>5, CleanMaps, UntouchedMaps DEF Blank
<1>6. CASE ServeRequest
  <2>1. CASE gate' = gate
    BY <1>6, <2>1, UntouchedMaps DEF ServeRequest
  <2>2. CASE gate' # gate
    <3>1. /\ gate' = [gate EXCEPT !["browser"] = [state |-> "takeover_requested", id |-> Head(wire).id]]
          /\ gate["browser"].state \in {"agent", "paused"}
      BY <1>6, <2>2 DEF ServeRequest, ModelMayAsk, Legal, SourceOf
    <3> QED
      BY <1>6, <3>1, RequestMaps DEF ServeRequest, Human
  <2> QED
    BY <2>1, <2>2
<1>7. CASE ModelServe
  <2>1. CASE IsTakeoverBusy(gate[call.tool].state)
    BY <1>7, <2>1, UntouchedMaps DEF ModelServe
  <2>2. CASE ~IsTakeoverBusy(gate[call.tool].state)
    <3>1. acting' = acting \cup {call.tool} /\ UNCHANGED <<gate, page, driver>> /\ call.tool \in Role
      BY <1>7, <2>2 DEF ModelServe, TypeOK, Call
    <3>2. Barrier!ModelActs(call.tool)
      BY <2>2, <3>1 DEF Barrier!ModelActs
    <3> QED
      BY <3>1, <3>2 DEF Barrier!BarrierNext
  <2> QED
    BY <2>1, <2>2
<1>8. ASSUME NEW r \in Role, ActDone(r)
      PROVE  [Barrier!BarrierNext]_(Barrier!barrierVars)
  <2>1. Barrier!ActDrains(r)
    BY <1>8 DEF ActDone, Barrier!ActDrains
  <2> QED
    BY <2>1 DEF Barrier!BarrierNext
<1>9. CASE DeliverInput
  <2>1. CASE TakesInput
    <3>1. Human /\ driver \in Device
      BY <2>1 DEF TakesInput, Human, DriverInv, Driven
    <3>2. Barrier!Type(driver)
      BY <1>9, <2>1, <3>1 DEF DeliverInput, Human, Barrier!Type
    <3> QED
      BY <3>1, <3>2 DEF Barrier!BarrierNext
  <2>2. CASE ~TakesInput
    BY <1>9, <2>2, UntouchedMaps DEF DeliverInput
  <2> QED
    BY <2>1, <2>2
<1>10. ASSUME NEW r \in Role, LoseSession(r)
       PROVE  [Barrier!BarrierNext]_(Barrier!barrierVars)
  BY <1>10, FreshMaps DEF LoseSession
<1>11. CASE CancelBlank
  <2>1. page' = page \/ (gate["browser"].state \in {"human", "paused"} /\ page' = "clean")
    BY <1>11 DEF CancelBlank
  <2> QED
    BY <1>11, <2>1, CleanMaps, UntouchedMaps DEF CancelBlank
<1>12. CASE CancelThaw
  BY <1>12, UntouchedMaps DEF CancelThaw
<1>13. CASE CancelClose
  <2>1. CASE FreshProcesses(Role)
    BY <2>1, FreshMaps DEF Role
  <2>2. CASE ~FreshProcesses(Role)
    BY <1>13, <2>2, UntouchedMaps DEF CancelClose
  <2> QED
    BY <2>1, <2>2
<1>14. ASSUME NEW h \in Handler, Shell(h)
       PROVE  [Barrier!BarrierNext]_(Barrier!barrierVars)
  BY <1>14, ShellMaps
<1> QED
  BY <1>1, <1>2, <1>3, <1>4, <1>5, <1>6, <1>7, <1>8, <1>9, <1>10, <1>11, <1>12, <1>13, <1>14, Reaches,
       UntouchedMaps

\* The rows, leases, messages, handlers and processes implement the capture barrier: the
\* computer is the model's or one person's, never both's, a door opens only when nobody
\* drives, and a person drives only once every door is shut and every act has drained.
THEOREM BarrierCorrect ==
  ASSUME "lostShell" \notin Enabled
  PROVE  Spec => ImplementsBarrier
<1>1. Init => DriverInv /\ Barrier!BarrierInit
  BY DEF Init, DriverInv, Driven, FreshSession, Role, Barrier!BarrierInit, IsTakeoverBusy, BusyStates
<1>2. TypeOK /\ SlotInv /\ DriverInv /\ [Next]_vars => DriverInv'
  BY DriverNext
<1>3. TypeOK /\ SlotInv /\ CaptureInv /\ DriverInv /\ [Next]_vars => [Barrier!BarrierNext]_(Barrier!barrierVars)
  BY BarrierNext
<1> QED
  BY <1>1, <1>2, <1>3, TypeCorrect, SlotsHold, CaptureCorrect, PTL
       DEF Spec, ImplementsBarrier, Barrier!BarrierSpec
-----------------------------------------------------------------------------
(* The rows and the gates, when nothing is lost, cancelled or failing.     *)

\* The process of a role has this session.
At(r, s, i) == gate[r].state = s /\ gate[r].id = i
\* A person has had this hold.
Spent(i) == row[i].lease # "none"
\* A request for it is on its way to the browser.
OnWire(i) == \E k \in DOMAIN wire : wire[k].id = i
\* An acquire at one of these steps; a request that the browser has not taken.
Acquires(h, pcs) == op[h].call = "grant" /\ op[h].pc \in pcs
Untaken(h) == op[h].pc = "asked" /\ op[h].res # "ok"

\* Nothing is cancelled, and only a task of the guest is frozen.
Calm == cancel.pc = "none" /\ op[Stop].pc = "idle" /\ (frozen => Native)

\* What a handler is for, and the steps of its kind.
KindOk(h) ==
  /\ op[h].kind \notin {"stop", "teardown"}
  /\ op[h].call = "none" <=> op[h].pc \in {"idle", "entry", "asked"}
  /\ op[h].pc = "asked" => op[h].kind = "request"
  /\ op[h].pc = "freeze" => Native
  /\ op[h].call \in {"release", "validated", "still_sensitive"} => op[h].kind = "release"
  /\ op[h].call = "decline" => op[h].kind \in {"return", "decline"}
  /\ op[h].call = "ttl" => op[h].kind \in {"expire", "request"}
  /\ op[h].call = "release" =>
       op[h].pc \in {"observe", "blank", "status", "browser", "shell", "inspect", "refused"}
  /\ op[h].call = "decline" =>
       op[h].pc \in {"observe", "recheck", "blank", "status", "browser", "shell", "thaw", "commit", "refused"}
  /\ op[h].call = "validated" => op[h].pc \in {"browser", "shell", "thaw", "commit", "refused"}
  /\ op[h].call = "still_sensitive" => op[h].pc \in {"browser", "shell", "sensitive", "refused"}
  /\ op[h].call = "ttl" => op[h].pc \in {"browser", "shell", "commit", "refused"}
  /\ op[h].call = "grant" =>
       op[h].pc \in {"freeze", "status", "sync", "browser", "shell", "ask", "commit", "undo", "refused"}

\* An id is minted once, is sent once, and is known from its row on.
MintedInv ==
  /\ \A i \in Id : i >= nextId => ~Known(i) /\ ~OnWire(i) /\ gate["browser"].id # i
  /\ \A i \in Id : ~Known(i) => row[i].state = "terminated" /\ ~Spent(i) /\ i \notin needsSync
  /\ call.pc = "asked" => call.id < nextId /\ ~Known(call.id)
  /\ \A k, l \in DOMAIN wire : wire[k].id = wire[l].id => k = l
  /\ \A i \in Id : OnWire(i) => gate["browser"].id # i
  /\ gate["browser"].state = "agent" <=> gate["browser"].id = NoId

\* A hold that a person has had is asked for no more.
SpentInv ==
  /\ \A i \in Id : row[i].state \in {"human", "paused"} => Spent(i)
  /\ \A i \in Id : Spent(i) =>
       i \notin needsSync /\ ~OnWire(i) /\ ~At("browser", "takeover_requested", i)

\* What a handler works on: known, and not yet granted by an acquire, or to be expired.
WorkOk(h) ==
  /\ op[h].id \in Id => Known(op[h].id)
  /\ op[h].call = "ttl" => Spent(op[h].id)
  /\ Acquires(h, {"ask", "shell", "commit"}) => ~Spent(op[h].id)
  /\ op[h].pc = "asked" /\ op[h].prior # NoId =>
       Spent(op[h].prior) /\ row[op[h].prior].state # "human"
  /\ op[h].pc = "asked" /\ OnWire(op[h].id) => op[h].res = "none"

\* What the browser has not taken nobody is granted.
UntakenOk(h) == Untaken(h) =>
  /\ ~Spent(op[h].id) /\ gate["browser"].id # op[h].id /\ op[h].id \notin needsSync
  /\ \A k \in DOMAIN wire : wire[k].id = op[h].id => wire[k].by = h /\ op[h].res = "none"
  /\ \A g \in Handler : op[g].pc = "asked" /\ op[g].id = op[h].id => g = h
  /\ \A g \in Handler : Acquires(g, {"ask"}) => op[g].id # op[h].id

\* What the two gates say at each step of a handler in charge.
GatesOk(h) ==
  /\ Acquires(h, {"sync", "browser"}) => At("browser", "takeover_requested", op[h].id)
  /\ Acquires(h, {"browser", "shell"}) => At("shell", "takeover_requested", op[h].id)
  /\ Acquires(h, {"shell", "commit"}) =>
       At("browser", "human", op[h].id) /\ driver = op[h].dev /\ op[h].seen = epoch
  /\ Acquires(h, {"commit"}) => At("shell", "human", op[h].id)
  /\ op[h].call = "release" /\ op[h].pc = "shell" =>
       At("browser", "resume_validating", op[h].id) /\ At("shell", "human", op[h].id)
  /\ op[h].pc = "inspect" \/ (op[h].call \in {"validated", "still_sensitive"} /\ op[h].pc = "browser") =>
       At("browser", "resume_validating", op[h].id) /\ At("shell", "resume_validating", op[h].id)
  /\ op[h].call \in {"validated", "still_sensitive"} /\ op[h].pc = "shell" =>
       At("shell", "resume_validating", op[h].id)
  /\ op[h].call = "still_sensitive" /\ op[h].pc = "shell" => At("browser", "human", op[h].id)
  /\ op[h].call = "ttl" /\ op[h].pc = "shell" => At("shell", "human", op[h].id)
  /\ op[h].call = "decline" /\ op[h].pc \in {"browser", "shell"} =>
       ~Mismatch(gate["shell"], op[h].id) /\ CanDecline(gate["shell"].state)
  /\ op[h].call \in {"validated", "ttl", "decline"} /\ op[h].pc \in {"shell", "thaw", "commit"} => ~Driven

\* Whose the hold is; and the handlers that explain why a row, a gate or the guest lags behind.
Mine(i) == row[i].state = "human" /\ row[i].owner = driver /\ row[i].epoch = epoch
Lets(h) == Acquires(h, {"shell", "commit"})
Checks(h) == \/ op[h].call = "release" /\ op[h].pc \in {"shell", "inspect"}
             \/ op[h].call \in {"validated", "still_sensitive"} /\ op[h].pc = "browser"
Reverts(h) == op[h].call = "still_sensitive" /\ op[h].pc = "shell"
Ends(h) == op[h].call \in {"validated", "ttl"} /\ op[h].pc \in {"shell", "thaw", "commit"}
Thaws(h) == \/ Acquires(h, {"status", "ask", "undo"})
            \/ op[h].call \in {"decline", "validated"} /\ op[h].pc \in {"shell", "thaw"}

\* A driven gate has its row and its shell, a human row its gate, and a frozen agent its thaw.
HoldInv ==
  /\ Driven => (Mine(gate["browser"].id) \/ \E h \in Handler : Lets(h))
  /\ gate["browser"].state = "human" =>
       \/ At("shell", "human", gate["browser"].id)
       \/ \E h \in Handler : Lets(h) \/ Reverts(h)
  /\ gate["browser"].state = "resume_validating" => \E h \in Handler : Checks(h)
  /\ \A i \in Id : row[i].state = "human" =>
       \/ Driven /\ gate["browser"].id = i /\ Mine(i)
       \/ \E h \in Handler : op[h].id = i /\ Ends(h)
  /\ frozen /\ gate["browser"].state = "agent" => \E h \in Handler : Thaws(h)

RowsIInv ==
  /\ Calm /\ MintedInv /\ SpentInv /\ HoldInv
  /\ \A h \in Handler : KindOk(h) /\ WorkOk(h) /\ UntakenOk(h) /\ GatesOk(h)

-----------------------------------------------------------------------------
\* A slot after its handler has moved on, has answered, or has begun.
Left(h) == /\ op'[h].pc \in {"idle", "entry"} /\ op'[h].call = "none"
           /\ op'[h].id = NoId /\ op'[h].kind \in {"none", "request"}
Others(h) == \A g \in Handler \ {h} : op'[g] = op[g]

\* The fields of the slots after the forms of step that handlers are made of.
LEMMA SlotFields ==
  ASSUME TypeOK, NEW h \in Handler
  PROVE  /\ \A pc : Goto(h, pc) =>
              /\ Others(h) /\ op'[h].pc = pc
              /\ op'[h].call = op[h].call /\ op'[h].kind = op[h].kind /\ op'[h].id = op[h].id
              /\ op'[h].dev = op[h].dev /\ op'[h].seen = op[h].seen /\ op'[h].prior = op[h].prior
         /\ \A outcome : Answer(h, outcome) /\ op[h].kind # "stop" => Others(h) /\ Left(h)
         /\ \A kind, pc, e, i, d : Begin(h, kind, pc, e, i, d) =>
              /\ Others(h) /\ op'[h].kind = kind /\ op'[h].pc = pc /\ op'[h].call = e /\ op'[h].id = i
              /\ op'[h].prior = NoId /\ op'[h].dev = d
         /\ op' = [op EXCEPT ![h] = NoOp] => Others(h) /\ Left(h)
<1>0. op \in [Handler -> Op] /\ op[h] \in Op
  BY DEF TypeOK
<1>1. ASSUME NEW pc, Goto(h, pc)
      PROVE  /\ Others(h) /\ op'[h].pc = pc
             /\ op'[h].call = op[h].call /\ op'[h].kind = op[h].kind /\ op'[h].id = op[h].id
             /\ op'[h].dev = op[h].dev /\ op'[h].seen = op[h].seen /\ op'[h].prior = op[h].prior
  BY <1>0, <1>1 DEF Goto, Op, Others
<1>2. ASSUME NEW outcome, Answer(h, outcome), op[h].kind # "stop"
      PROVE  Others(h) /\ Left(h)
  BY <1>0, <1>2 DEF Answer, NoOp, Others, Left
<1>3. ASSUME NEW kind, NEW pc, NEW e, NEW i, NEW d, Begin(h, kind, pc, e, i, d)
      PROVE  /\ Others(h) /\ op'[h].kind = kind /\ op'[h].pc = pc /\ op'[h].call = e /\ op'[h].id = i
             /\ op'[h].prior = NoId /\ op'[h].dev = d
  BY <1>0, <1>3 DEF Begin, NoOp, Others
<1>4. ASSUME op' = [op EXCEPT ![h] = NoOp]
      PROVE  Others(h) /\ Left(h)
  BY <1>0, <1>4 DEF NoOp, Others, Left
<1> QED
  BY <1>1, <1>2, <1>3, <1>4

\* The types that the arguments below need.
LEMMA RowFacts ==
  ASSUME TypeOK
  PROVE  /\ NoId \notin Id /\ Id \subseteq Nat /\ nextId \in Nat /\ epoch \in Nat
         /\ \A i \in Id : /\ row[i] \in Row /\ row[i].born \in Nat
                          /\ row[i].state \in {"agent", "takeover_requested", "human", "paused", "terminated"}
         /\ \A r \in Role : /\ gate[r] \in Session /\ gate[r].id \in Id \cup {NoId}
                            /\ gate[r].state \in TakeoverState
         /\ DOMAIN wire = 1 .. Len(wire) /\ Len(wire) \in Nat
         /\ \A k \in DOMAIN wire : wire[k].id \in Id /\ wire[k].by \in Web \cup {"model"}
<1>1. NoId \notin Id /\ Id \subseteq Nat /\ nextId \in Nat /\ epoch \in Nat
  <2>1. NoId \notin Id /\ Id \subseteq Nat
    BY TakeoverAssumption DEF Id, NoId
  <2>2. nextId \in Nat
    BY DEF TypeOK
  <2>3. epoch \in Nat
    BY DEF TypeOK
  <2> QED
    BY <2>1, <2>2, <2>3
<1>2. ASSUME NEW i \in Id
      PROVE  /\ row[i] \in Row /\ row[i].born \in Nat
             /\ row[i].state \in {"agent", "takeover_requested", "human", "paused", "terminated"}
  <2>1. row[i] \in Row
    BY DEF TypeOK
  <2> QED
    BY <2>1, RowStateNames, TakeoverAssumption DEF Row
<1>3. ASSUME NEW r \in Role
      PROVE  gate[r] \in Session /\ gate[r].id \in Id \cup {NoId} /\ gate[r].state \in TakeoverState
  BY DEF TypeOK, Session
<1>4. /\ DOMAIN wire = 1 .. Len(wire) /\ Len(wire) \in Nat
      /\ \A k \in DOMAIN wire : wire[k].id \in Id /\ wire[k].by \in Web \cup {"model"}
  <2> DEFINE Asking == [id : Id, by : Web \cup {"model"}]
  <2>1. wire \in Seq(Asking)
    BY DEF TypeOK
  <2>2. DOMAIN wire = 1 .. Len(wire) /\ Len(wire) \in Nat /\ \A k \in DOMAIN wire : wire[k] \in Asking
    <3> HIDE DEF Asking
    <3> QED
      BY <2>1
  <2> QED
    BY <2>2
<1> QED
  BY <1>1, <1>2, <1>3, <1>4

\* Only a handler in charge relies on what the gates say.
LEMMA GatesIdle ==
  ASSUME NEW g \in Handler, op'[g] = op[g], ~InCharge(g)
  PROVE  GatesOk(g)'
BY DEF InCharge, GatesOk, Acquires

\* The rows, the wire and the ids stay; so do the other handlers' parts of the invariant.
LEMMA OthersKeep ==
  ASSUME TypeOK, RowsIInv, NEW h \in Handler, Others(h), UNCHANGED <<row, needsSync, wire>>,
         \A i \in Id : gate'["browser"].id = i =>
            gate["browser"].id = i \/ \A g \in Handler \ {h} : ~(Untaken(g) /\ op[g].id = i),
         op'[h].pc # "asked", Acquires(h, {"ask"})' => op'[h].id \in needsSync,
         NEW g \in Handler \ {h}
  PROVE  KindOk(g)' /\ WorkOk(g)' /\ UntakenOk(g)'
<1>1. op'[g] = op[g] /\ KindOk(g) /\ WorkOk(g) /\ UntakenOk(g)
  BY DEF Others, RowsIInv
<1>2. KindOk(g)'
  BY <1>1 DEF KindOk
<1>3. WorkOk(g)'
  BY <1>1 DEF WorkOk, Known, Spent, OnWire, Acquires
<1>4. UntakenOk(g)'
  <2> SUFFICES ASSUME Untaken(g)
               PROVE  /\ ~Spent(op[g].id) /\ gate'["browser"].id # op[g].id /\ op[g].id \notin needsSync
                      /\ \A k \in DOMAIN wire : wire[k].id = op[g].id => wire[k].by = g /\ op[g].res = "none"
                      /\ \A f \in Handler : op'[f].pc = "asked" /\ op'[f].id = op[g].id => f = g
                      /\ \A f \in Handler : Acquires(f, {"ask"})' => op'[f].id # op[g].id
    BY <1>1 DEF UntakenOk, Untaken, Spent
  <2>0. op[g].id \in Id
    BY SlotType DEF Untaken
  <2>1. /\ ~Spent(op[g].id) /\ gate["browser"].id # op[g].id /\ op[g].id \notin needsSync
        /\ \A k \in DOMAIN wire : wire[k].id = op[g].id => wire[k].by = g /\ op[g].res = "none"
        /\ \A f \in Handler : op[f].pc = "asked" /\ op[f].id = op[g].id => f = g
        /\ \A f \in Handler : Acquires(f, {"ask"}) => op[f].id # op[g].id
    BY <1>1 DEF UntakenOk
  <2>2. gate'["browser"].id # op[g].id
    BY <2>0, <2>1
  <2>3. \A f \in Handler : op'[f].pc = "asked" /\ op'[f].id = op[g].id => f = g
    BY <2>1 DEF Others
  <2>4. \A f \in Handler : Acquires(f, {"ask"})' => op'[f].id # op[g].id
    BY <2>1 DEF Others, Acquires
  <2> QED
    BY <2>1, <2>2, <2>3, <2>4
<1> QED
  BY <1>2, <1>3, <1>4

\* A step of one handler that leaves the gates and the rows alone.
LEMMA SlotStep ==
  ASSUME TypeOK, SlotInv, RowsIInv, NEW h \in Handler, Others(h),
         UNCHANGED <<row, nextId, needsSync, call, gate, epoch, wire, driver>>,
         Calm', KindOk(h)', GatesOk(h)', op'[h].pc # "asked",
         op'[h].id \in Id => Known(op'[h].id),
         op'[h].call = "ttl" => Spent(op'[h].id),
         Acquires(h, {"ask", "shell", "commit"})' => ~Spent(op'[h].id),
         Acquires(h, {"ask"})' => op'[h].id \in needsSync,
         Lets(h) => Lets(h)', Checks(h) => Checks(h)', Reverts(h) => Reverts(h)',
         Ends(h) => Ends(h)' /\ op'[h].id = op[h].id,
         frozen' /\ gate["browser"].state = "agent" => Thaws(h)' \/ (frozen /\ ~Thaws(h))
  PROVE  RowsIInv'
<1>1. MintedInv'
  BY DEF RowsIInv, MintedInv, Known, OnWire, Spent
<1>2. SpentInv'
  BY DEF RowsIInv, SpentInv, OnWire, Spent, At
<1>3. ASSUME NEW g \in Handler \ {h}
      PROVE  /\ KindOk(g)' /\ WorkOk(g)' /\ UntakenOk(g)' /\ GatesOk(g)'
             /\ Lets(g)' = Lets(g) /\ Checks(g)' = Checks(g) /\ Reverts(g)' = Reverts(g)
             /\ Ends(g)' = Ends(g) /\ op'[g].id = op[g].id /\ Thaws(g)' = Thaws(g)
  <2>1. op'[g] = op[g] /\ GatesOk(g)
    BY DEF Others, RowsIInv
  <2>2. GatesOk(g)'
    BY <2>1 DEF GatesOk, Acquires, At, Driven
  <2>3. KindOk(g)' /\ WorkOk(g)' /\ UntakenOk(g)'
    BY OthersKeep
  <2> QED
    BY <2>1, <2>2, <2>3 DEF Lets, Acquires, Checks, Reverts, Ends, Thaws
<1>4. WorkOk(h)' /\ UntakenOk(h)'
  BY DEF WorkOk, UntakenOk, Untaken, Known, Spent
<1>5. HoldInv'
  <2>1. HoldInv /\ (Driven' <=> Driven) /\ (\A i : Mine(i)' <=> Mine(i))
    BY DEF RowsIInv, Driven, Mine
  <2>2. /\ (\E g \in Handler : Lets(g)) => \E g \in Handler : Lets(g)'
        /\ (\E g \in Handler : Lets(g) \/ Reverts(g)) => \E g \in Handler : Lets(g)' \/ Reverts(g)'
        /\ (\E g \in Handler : Checks(g)) => \E g \in Handler : Checks(g)'
        /\ \A i : (\E g \in Handler : op[g].id = i /\ Ends(g)) => \E g \in Handler : op'[g].id = i /\ Ends(g)'
    BY <1>3
  <2>3. frozen' /\ gate["browser"].state = "agent" => \E g \in Handler : Thaws(g)'
    BY <1>3, <2>1 DEF HoldInv
  <2> QED
    BY <2>1, <2>2, <2>3 DEF HoldInv, At
<1> QED
  BY <1>1, <1>2, <1>3, <1>4, <1>5 DEF RowsIInv

\* A step that touches none of it.
LEMMA QuietRows ==
  ASSUME RowsIInv, UNCHANGED <<row, nextId, needsSync, op, cancel, gate, epoch, wire, frozen, driver>>,
         call'.pc = "asked" => call' = call
  PROVE  RowsIInv'
<1>1. Calm' /\ MintedInv' /\ SpentInv'
  BY DEF RowsIInv, Calm, MintedInv, Known, OnWire, Spent, SpentInv, At
<1>2. HoldInv'
  BY DEF RowsIInv, HoldInv, Driven, Mine, At, Lets, Reverts, Checks, Ends, Thaws, Acquires
<1>3. ASSUME NEW h \in Handler
      PROVE  KindOk(h)' /\ WorkOk(h)' /\ UntakenOk(h)' /\ GatesOk(h)'
  <2>1. KindOk(h) /\ WorkOk(h) /\ UntakenOk(h) /\ GatesOk(h)
    BY DEF RowsIInv
  <2>2. KindOk(h)' /\ WorkOk(h)'
    BY <2>1 DEF KindOk, WorkOk, Known, Spent, OnWire, Acquires
  <2>3. UntakenOk(h)'
    BY <2>1 DEF UntakenOk, Untaken, Spent, Acquires
  <2>4. GatesOk(h)'
    BY <2>1 DEF GatesOk, At, Acquires, Driven
  <2> QED
    BY <2>2, <2>3, <2>4
<1> QED
  BY <1>1, <1>2, <1>3 DEF RowsIInv

-----------------------------------------------------------------------------
(* The steps of a handler that leave the gates and the rows alone.         *)

\* Every handler that the invariant leans on is the one that has the computer.
LEMMA Roles ==
  ASSUME TypeOK, SlotInv, RowsIInv, NEW h \in Handler, Holds(h), NEW g \in Handler,
         Lets(g) \/ Checks(g) \/ Reverts(g) \/ Ends(g) \/ (frozen /\ Thaws(g))
  PROVE  g = h
<1>1. frozen => Native
  BY DEF RowsIInv, Calm
<1>2. InCharge(g)
  BY <1>1 DEF Lets, Checks, Reverts, Ends, Thaws, Acquires, InCharge
<1> QED
  BY <1>2, OneInCharge

\* A handler's slot at a step other than the first and the last.
LEMMA BusySlot ==
  ASSUME TypeOK, SlotInv, RowsIInv, NEW h \in Handler, op[h].pc \notin {"idle", "entry", "asked"}
  PROVE  /\ h # Stop /\ op[h].id \in Id /\ Known(op[h].id) /\ op[h].kind # "stop"
         /\ op[h].call \in {"grant", "decline", "release", "validated", "still_sensitive", "ttl"}
         /\ op[h].kind = "acquire" <=> op[h].call = "grant"
<1>1. h # Stop
  BY DEF RowsIInv, Calm
<1>2. KindOk(h) /\ WorkOk(h)
  BY DEF RowsIInv
<1>3. op[h].call \in TakeoverEvent \cup {"none"} /\ op[h].call # "none" /\ op[h].kind # "stop" /\ op[h].kind # "teardown"
  BY <1>2, SlotType DEF KindOk
<1>4. op[h].call \notin {"stop", "request"} /\ (op[h].kind = "acquire" <=> op[h].call = "grant")
  BY DEF SlotInv
<1>5. op[h].pc # "close"
  BY <1>2, <1>3, <1>4, EventNames DEF KindOk
<1>6. op[h].id \in Id
  BY <1>5, SlotType
<1> QED
  BY <1>1, <1>2, <1>3, <1>4, <1>6, EventNames DEF WorkOk

\* A handler that nobody leans on answers.
LEMMA LeaveRows ==
  ASSUME TypeOK, SlotInv, RowsIInv, NEW h \in Handler, Others(h), Left(h), Calm',
         UNCHANGED <<row, nextId, needsSync, call, gate, epoch, wire, driver>>,
         ~Lets(h), ~Checks(h), ~Reverts(h), ~Ends(h),
         frozen' /\ gate["browser"].state = "agent" => frozen /\ ~Thaws(h)
  PROVE  RowsIInv'
<1>1. op'[h].id \notin Id
  BY RowFacts DEF Left
<1>2. KindOk(h)' /\ GatesOk(h)' /\ ~Acquires(h, {"ask", "shell", "commit"})' /\ ~Acquires(h, {"ask"})'
      /\ op'[h].pc # "asked" /\ op'[h].call # "ttl"
  BY DEF Left, KindOk, GatesOk, Acquires
<1> QED
  BY <1>1, <1>2, SlotStep

\* A handler begins.
LEMMA BeginRows ==
  ASSUME TypeOK, SlotInv, RowsIInv, NEW h \in Handler \ {Stop}, op[h].pc \in {"idle", "entry"},
         NEW kind, NEW pc, NEW e, NEW i \in Id, NEW d, Begin(h, kind, pc, e, i, d), Known(i),
         \/ kind = "acquire" /\ pc \in {"freeze", "status"} /\ e = "grant" /\ (pc = "freeze" => Native)
         \/ kind = "decline" /\ pc = "status" /\ e = "decline"
         \/ kind = "release" /\ pc \in {"observe", "blank"} /\ e = "release"
         \/ kind = "return" /\ pc \in {"observe", "blank"} /\ e = "decline"
         \/ kind \in {"expire", "request"} /\ pc = "browser" /\ e = "ttl" /\ Spent(i),
         UNCHANGED <<row, nextId, needsSync, cancel, call, gate, epoch, wire, frozen, driver>>
  PROVE  RowsIInv'
<1>1. /\ Others(h) /\ op'[h].kind = kind /\ op'[h].pc = pc /\ op'[h].call = e /\ op'[h].id = i
  BY SlotFields
<1>2. Calm'
  <2>1. op'[Stop] = op[Stop]
    BY <1>1 DEF Others, Handler
  <2> QED
    BY <2>1 DEF RowsIInv, Calm
<1>3. ~Lets(h) /\ ~Checks(h) /\ ~Reverts(h) /\ ~Ends(h) /\ ~Thaws(h)
  BY DEF Lets, Checks, Reverts, Ends, Thaws, Acquires, RowsIInv, KindOk
<1>4. KindOk(h)'
  BY <1>1 DEF KindOk
<1>5. GatesOk(h)'
  BY <1>1 DEF GatesOk, Acquires
<1>6. Known(op'[h].id) /\ op'[h].pc # "asked" /\ (op'[h].call = "ttl" => Spent(op'[h].id))
      /\ ~Acquires(h, {"ask", "shell", "commit"})' /\ ~Acquires(h, {"ask"})'
  BY <1>1 DEF Acquires
<1> QED
  BY <1>1, <1>2, <1>3, <1>4, <1>5, <1>6, SlotStep

\* An acquire, a decline and a handback begin.
LEMMA StartRows ==
  ASSUME TypeOK, SlotInv, RowsIInv, NEW h \in Web, NEW i \in Id,
         (\E d \in Device : Acquire(h, d, i)) \/ Decline(h, i) \/ Release(h, i)
  PROVE  RowsIInv'
<1>0. h \in Handler \ {Stop}
  BY TakeoverAssumption DEF Handler, Stop
<1>1. ASSUME NEW d \in Device, Acquire(h, d, i) PROVE RowsIInv'
  <2>1. PICK pc \in {"freeze", "status"} : Begin(h, "acquire", pc, "grant", i, d) /\ (pc = "freeze" => Native)
    BY <1>1 DEF Acquire
  <2>2. UNCHANGED <<row, nextId, needsSync, cancel, call, gate, epoch, wire, frozen, driver>> /\ op[h].pc = "idle" /\ Known(i)
    BY <1>1 DEF Acquire, store, computer
  <2> QED
    BY <1>0, <2>1, <2>2, BeginRows
<1>2. CASE Decline(h, i)
  <2>1. Begin(h, "decline", "status", "decline", i, NoDevice)
    BY <1>2 DEF Decline
  <2>2. UNCHANGED <<row, nextId, needsSync, cancel, call, gate, epoch, wire, frozen, driver>> /\ op[h].pc = "idle" /\ Known(i)
    BY <1>2 DEF Decline, store, computer
  <2> QED
    BY <1>0, <2>1, <2>2, BeginRows
<1>3. CASE Release(h, i)
  <2>1. PICK first \in {"observe", "blank"} : \/ Begin(h, "release", first, "release", i, NoDevice)
                                              \/ Begin(h, "return", first, "decline", i, NoDevice)
    BY <1>3 DEF Release
  <2>2. UNCHANGED <<row, nextId, needsSync, cancel, call, gate, epoch, wire, frozen, driver>> /\ op[h].pc = "idle" /\ Known(i)
    BY <1>3 DEF Release, store, computer
  <2>3. CASE Begin(h, "release", first, "release", i, NoDevice)
    BY <1>0, <2>2, <2>3, BeginRows
  <2>4. CASE Begin(h, "return", first, "decline", i, NoDevice)
    BY <1>0, <2>2, <2>4, BeginRows
  <2> QED
    BY <2>1, <2>3, <2>4
<1> QED
  BY <1>1, <1>2, <1>3

\* The lease timer begins an expiry, of a hold that a person has had.
LEMMA FireRows ==
  ASSUME TypeOK, SlotInv, RowsIInv, NEW i \in Id, Fire(i)
  PROVE  RowsIInv'
<1>1. UNCHANGED <<row, nextId, needsSync, cancel, call, gate, epoch, wire, frozen, driver>>
      /\ op[Timer].pc = "idle" /\ row[i].lease = "lapsed"
  BY DEF Fire, store, computer
<1>2. CASE Begin(Timer, "expire", "browser", "ttl", i, NoDevice)
  <2>1. Timer \in Handler \ {Stop} /\ Spent(i)
    BY <1>1 DEF Handler, Timer, Stop, Spent
  <2>2. Known(i)
    BY <2>1 DEF RowsIInv, MintedInv
  <2> QED
    BY <1>1, <1>2, <2>1, <2>2, BeginRows
<1>3. CASE UNCHANGED op
  BY <1>1, <1>3, QuietRows
<1> QED
  BY <1>2, <1>3 DEF Fire

\* The steps of a handler that leave the gates and the rows alone.
LEMMA EarlyRows ==
  ASSUME TypeOK, SlotInv, RowsIInv, NEW h \in Handler, Observe(h) \/ Recheck(h) \/ Blank(h)
  PROVE  RowsIInv'
<1>1. UNCHANGED <<row, nextId, needsSync, cancel, call, gate, epoch, wire, frozen, driver>>
      /\ op[h].pc \in {"observe", "recheck", "blank"}
  BY DEF Observe, Recheck, Blank, store, computer
<1>2. /\ h # Stop /\ op[h].id \in Id /\ Known(op[h].id) /\ op[h].kind # "stop"
      /\ op[h].kind = "acquire" <=> op[h].call = "grant"
  BY <1>1, BusySlot
<1>3. KindOk(h) /\ op[h].call \in {"release", "decline"}
  <2>1. KindOk(h)
    BY DEF RowsIInv
  <2> QED
    BY <1>1, <2>1, BusySlot DEF KindOk
<1>4. ~Lets(h) /\ ~Checks(h) /\ ~Reverts(h) /\ ~Ends(h) /\ ~Thaws(h)
  BY <1>1 DEF Lets, Checks, Reverts, Ends, Thaws, Acquires
<1>5. ASSUME Others(h) PROVE Calm'
  <2>1. op'[Stop] = op[Stop]
    BY <1>2, <1>5 DEF Others, Handler
  <2> QED
    BY <1>1, <2>1 DEF RowsIInv, Calm
<1>6. CASE Answer(h, "refused")
  <2>1. Others(h) /\ Left(h)
    BY <1>2, <1>6, SlotFields
  <2> QED
    BY <1>1, <1>4, <1>5, <2>1, LeaveRows
<1>7. ASSUME NEW pc, Goto(h, pc), pc \in {"status", "blank", "recheck", "observe"},
             pc \in {"recheck"} => op[h].kind = "return"
      PROVE  RowsIInv'
  <2>1. /\ Others(h) /\ op'[h].pc = pc
        /\ op'[h].call = op[h].call /\ op'[h].kind = op[h].kind /\ op'[h].id = op[h].id
    BY <1>7, SlotFields
  <2>2. KindOk(h)'
    BY <1>2, <1>3, <1>7, <2>1 DEF KindOk
  <2>3. GatesOk(h)'
    BY <1>3, <1>7, <2>1 DEF GatesOk, Acquires
  <2>4. Known(op'[h].id) /\ op'[h].pc # "asked" /\ op'[h].call # "ttl"
        /\ ~Acquires(h, {"ask", "shell", "commit"})' /\ ~Acquires(h, {"ask"})'
    BY <1>2, <1>3, <1>7, <2>1 DEF Acquires
  <2>5. Calm'
    BY <1>5, <2>1
  <2> QED
    BY <1>1, <1>4, <2>1, <2>2, <2>3, <2>4, <2>5, SlotStep
<1>8. Answer(h, "refused") \/ \E pc \in {"status", "blank", "recheck", "observe"} :
                                Goto(h, pc) /\ (pc \in {"recheck"} => op[h].kind = "return")
  BY DEF Observe, Recheck, Blank
<1> QED
  BY <1>6, <1>7, <1>8

\* The fields after a refusal.
LEMMA RefusedRows ==
  ASSUME TypeOK, SlotInv, RowsIInv, NEW h \in Handler, Holds(h), Goto(h, AfterRefusal(h)),
         UNCHANGED <<row, nextId, needsSync, cancel, call, gate, epoch, wire, frozen, driver>>,
         \/ op[h].pc = "status"
         \/ op[h].pc = "browser" /\ op[h].call \in {"decline", "release", "ttl"}
  PROVE  RowsIInv'
<1>1. /\ h # Stop /\ op[h].id \in Id /\ Known(op[h].id) /\ op[h].kind # "stop"
      /\ op[h].call \in {"grant", "decline", "release", "validated", "still_sensitive", "ttl"}
      /\ op[h].kind = "acquire" <=> op[h].call = "grant"
  BY BusySlot
<1>2. /\ Others(h) /\ op'[h].pc = AfterRefusal(h)
      /\ op'[h].call = op[h].call /\ op'[h].kind = op[h].kind /\ op'[h].id = op[h].id
  BY SlotFields
<1>3. /\ AfterRefusal(h) \in {"refused", "ask", "undo"}
      /\ AfterRefusal(h) # "refused" => op[h].call = "grant"
      /\ AfterRefusal(h) = "ask" => op[h].id \in needsSync
      /\ op[h].call = "grant" /\ Native => AfterRefusal(h) # "refused"
  BY <1>1 DEF AfterRefusal
<1>4. Calm' /\ KindOk(h) /\ (frozen => Native) /\ WorkOk(h)
  <2>1. op'[Stop] = op[Stop]
    BY <1>1, <1>2 DEF Others, Handler
  <2> QED
    BY <2>1 DEF RowsIInv, Calm
<1>5. KindOk(h)'
  BY <1>1, <1>2, <1>3, <1>4 DEF KindOk
<1>6. GatesOk(h)'
  BY <1>2, <1>3 DEF GatesOk, Acquires
<1>7. ~Lets(h) /\ ~Checks(h) /\ ~Reverts(h) /\ ~Ends(h)
  BY DEF Lets, Checks, Reverts, Ends, Acquires
<1>8. frozen' /\ gate["browser"].state = "agent" => Thaws(h)' \/ (frozen /\ ~Thaws(h))
  BY <1>1, <1>2, <1>3, <1>4 DEF Thaws, Acquires
<1>9. /\ Known(op'[h].id) /\ op'[h].pc # "asked" /\ (op'[h].call = "ttl" => Spent(op'[h].id))
      /\ Acquires(h, {"ask", "shell", "commit"})' => ~Spent(op'[h].id)
      /\ Acquires(h, {"ask"})' => op'[h].id \in needsSync
  BY <1>1, <1>2, <1>3, <1>4 DEF Acquires, WorkOk, RowsIInv, SpentInv
<1> QED
  BY <1>2, <1>4, <1>5, <1>6, <1>7, <1>8, <1>9, SlotStep

\* The status a grant finds is the request it was made for.
LEMMA StatusRows ==
  ASSUME TypeOK, SlotInv, RowsIInv, NEW h \in Handler, Status(h)
  PROVE  RowsIInv'
<1>1. UNCHANGED <<row, nextId, needsSync, cancel, call, gate, epoch, wire, frozen, driver>>
      /\ op[h].pc = "status" /\ Holds(h)
  BY DEF Status, store, computer
<1>2. CASE ~StatusAgrees(h)
  BY <1>1, <1>2, RefusedRows DEF Status
<1>3. CASE StatusAgrees(h)
  <2>1. /\ h # Stop /\ op[h].id \in Id /\ Known(op[h].id) /\ op[h].kind # "stop"
        /\ op[h].call \in {"grant", "decline", "release"}
        /\ op[h].kind = "acquire" <=> op[h].call = "grant"
    <3>1. KindOk(h)
      BY DEF RowsIInv
    <3> QED
      BY <1>1, <3>1, BusySlot DEF KindOk
  <2> DEFINE pc == IF op[h].call = "grant" THEN "sync" ELSE "browser"
  <2>2. /\ Others(h) /\ op'[h].pc = pc
        /\ op'[h].call = op[h].call /\ op'[h].kind = op[h].kind /\ op'[h].id = op[h].id
    BY <1>3, SlotFields DEF Status
  <2>3. Calm' /\ KindOk(h)
    <3>1. op'[Stop] = op[Stop]
      BY <2>1, <2>2 DEF Others, Handler
    <3> QED
      BY <1>1, <3>1 DEF RowsIInv, Calm
  <2>4. KindOk(h)'
    BY <1>1, <2>1, <2>2, <2>3 DEF KindOk
  <2>5. GatesOk(h)'
    <3>1. CASE op[h].call = "grant"
      BY <1>1, <1>3, <2>2, <3>1 DEF StatusAgrees, Legal, SourceOf, GatesOk, Acquires, At
    <3>2. CASE op[h].call = "decline"
      BY <1>1, <1>3, <2>2, <3>2 DEF StatusAgrees, GatesOk, Acquires, Role
    <3>3. CASE op[h].call = "release"
      BY <1>1, <2>2, <3>3 DEF GatesOk, Acquires
    <3> QED
      BY <2>1, <3>1, <3>2, <3>3
  <2>6. ~Lets(h) /\ ~Checks(h) /\ ~Reverts(h) /\ ~Ends(h)
    BY <1>1 DEF Lets, Checks, Reverts, Ends, Acquires
  <2>7. frozen' /\ gate["browser"].state = "agent" => Thaws(h)' \/ (frozen /\ ~Thaws(h))
    <3>1. op[h].call = "grant" => gate["browser"].state # "agent"
      BY <1>3 DEF StatusAgrees, Legal, SourceOf
    <3> QED
      BY <1>1, <3>1 DEF Thaws, Acquires
  <2>8. /\ Known(op'[h].id) /\ op'[h].pc # "asked" /\ op'[h].call # "ttl"
        /\ ~Acquires(h, {"ask", "shell", "commit"})' /\ ~Acquires(h, {"ask"})'
    BY <2>1, <2>2 DEF Acquires
  <2> QED
    BY <1>1, <2>2, <2>3, <2>4, <2>5, <2>6, <2>7, <2>8, SlotStep
<1> QED
  BY <1>2, <1>3

\* Calm lasts when a handler other than a cancellation moves.
LEMMA CalmSlot ==
  ASSUME RowsIInv, NEW h \in Handler \ {Stop}, Others(h), UNCHANGED cancel, frozen' => frozen \/ Native
  PROVE  Calm'
<1>1. op'[Stop] = op[Stop]
  BY DEF Others, Handler
<1> QED
  BY <1>1 DEF RowsIInv, Calm

\* The freeze is owed a thaw from here on.
LEMMA FreezeRows ==
  ASSUME TypeOK, SlotInv, RowsIInv, "nativeFails" \notin Enabled, NEW h \in Handler, Freeze(h)
  PROVE  RowsIInv'
<1>1. UNCHANGED <<row, nextId, needsSync, cancel, call, gate, epoch, wire, driver>>
      /\ op[h].pc = "freeze" /\ Goto(h, "status")
  BY DEF Freeze, store
<1>2. h # Stop /\ op[h].id \in Id /\ Known(op[h].id)
  BY <1>1, BusySlot
<1>3. KindOk(h) /\ Native /\ op[h].call = "grant"
  <2>1. KindOk(h)
    BY DEF RowsIInv
  <2> QED
    BY <1>1, <2>1, BusySlot DEF KindOk
<1>4. /\ Others(h) /\ op'[h].pc = "status"
      /\ op'[h].call = op[h].call /\ op'[h].kind = op[h].kind /\ op'[h].id = op[h].id
  BY <1>1, SlotFields
<1>5. KindOk(h)' /\ GatesOk(h)' /\ Thaws(h)' /\ Calm'
  BY <1>2, <1>3, <1>4, <1>1, CalmSlot DEF KindOk, GatesOk, Thaws, Acquires
<1>6. ~Lets(h) /\ ~Checks(h) /\ ~Reverts(h) /\ ~Ends(h)
  BY <1>1 DEF Lets, Checks, Reverts, Ends, Acquires
<1>7. /\ Known(op'[h].id) /\ op'[h].pc # "asked" /\ op'[h].call # "ttl"
      /\ ~Acquires(h, {"ask", "shell", "commit"})' /\ ~Acquires(h, {"ask"})'
  BY <1>2, <1>3, <1>4 DEF Acquires
<1> QED
  BY <1>1, <1>4, <1>5, <1>6, <1>7, SlotStep

\* The verdict of the page is sent to the gate that still validates.
LEMMA InspectRows ==
  ASSUME TypeOK, SlotInv, RowsIInv, NEW h \in Handler, Inspect(h)
  PROVE  RowsIInv'
<1>1. UNCHANGED <<row, nextId, needsSync, cancel, call, gate, epoch, wire, frozen, driver>>
      /\ op[h].pc = "inspect" /\ op' = [op EXCEPT ![h].pc = "browser", ![h].call = Verdict]
  BY DEF Inspect, store, computer
<1>2. h # Stop /\ op[h].id \in Id /\ Known(op[h].id)
  BY <1>1, BusySlot
<1>3. KindOk(h) /\ GatesOk(h) /\ op[h].kind = "release"
  <2>1. KindOk(h) /\ GatesOk(h)
    BY DEF RowsIInv
  <2>2. op[h].call = "release"
    BY <1>1, <2>1, BusySlot DEF KindOk
  <2> QED
    BY <2>1, <2>2 DEF KindOk
<1>4. /\ Others(h) /\ op'[h].pc = "browser" /\ op'[h].call = Verdict
      /\ op'[h].kind = op[h].kind /\ op'[h].id = op[h].id
  <2>1. op \in [Handler -> Op] /\ op[h] \in Op
    BY DEF TypeOK
  <2> QED
    BY <1>1, <2>1 DEF Others, Op
<1>5. Verdict \in {"validated", "still_sensitive"}
  BY DEF Verdict
<1>6. KindOk(h)'
  BY <1>3, <1>4, <1>5 DEF KindOk
<1>7. GatesOk(h)'
  BY <1>1, <1>3, <1>4, <1>5 DEF GatesOk, Acquires, At
<1>8. Calm' /\ Checks(h)' /\ ~Lets(h) /\ ~Reverts(h) /\ ~Ends(h) /\ ~Thaws(h)
  BY <1>1, <1>2, <1>4, <1>5, CalmSlot DEF Checks, Lets, Reverts, Ends, Thaws, Acquires
<1>9. /\ Known(op'[h].id) /\ op'[h].pc # "asked" /\ op'[h].call # "ttl"
      /\ ~Acquires(h, {"ask", "shell", "commit"})' /\ ~Acquires(h, {"ask"})'
  BY <1>2, <1>4, <1>5 DEF Acquires
<1> QED
  BY <1>1, <1>4, <1>6, <1>7, <1>8, <1>9, SlotStep

\* A private page: the gates are human again, and so the row is right as it stands.
LEMMA StillSensitiveRows ==
  ASSUME TypeOK, SlotInv, RowsIInv, NEW h \in Handler, StillSensitive(h)
  PROVE  RowsIInv'
<1>1. UNCHANGED <<row, nextId, needsSync, cancel, call, gate, epoch, wire, frozen, driver>>
      /\ op[h].pc = "sensitive"
  BY DEF StillSensitive, store, computer
<1>2. h # Stop /\ op[h].id \in Id /\ Known(op[h].id) /\ op[h].kind # "stop"
  BY <1>1, BusySlot
<1>3. ~Checks(h) /\ ~Lets(h) /\ ~Reverts(h) /\ ~Ends(h) /\ ~Thaws(h)
  BY <1>1 DEF Checks, Lets, Reverts, Ends, Thaws, Acquires
<1>4. CASE Answer(h, "ok")
  <2>1. Others(h) /\ Left(h)
    BY <1>2, <1>4, SlotFields
  <2>2. Calm'
    BY <1>1, <1>2, <2>1, CalmSlot
  <2> QED
    BY <1>1, <1>3, <2>1, <2>2, LeaveRows
<1>5. CASE /\ op[h].kind = "release"
           /\ op' = [op EXCEPT ![h].pc = "blank", ![h].call = "release", ![h].res = "again"]
  <2>1. /\ Others(h) /\ op'[h].pc = "blank" /\ op'[h].call = "release"
        /\ op'[h].kind = "release" /\ op'[h].id = op[h].id
    <3>1. op \in [Handler -> Op] /\ op[h] \in Op
      BY DEF TypeOK
    <3> QED
      BY <1>5, <3>1 DEF Others, Op
  <2>2. Calm' /\ KindOk(h)' /\ GatesOk(h)'
    BY <1>1, <1>2, <2>1, CalmSlot DEF KindOk, GatesOk, Acquires
  <2>3. /\ Known(op'[h].id) /\ op'[h].pc # "asked" /\ op'[h].call # "ttl"
        /\ ~Acquires(h, {"ask", "shell", "commit"})' /\ ~Acquires(h, {"ask"})'
    BY <1>2, <2>1 DEF Acquires
  <2> QED
    BY <1>1, <1>3, <2>1, <2>2, <2>3, SlotStep
<1> QED
  BY <1>4, <1>5 DEF StillSensitive

\* The thaw comes after the gates, before the row.
LEMMA ThawRows ==
  ASSUME TypeOK, SlotInv, RowsIInv, "nativeFails" \notin Enabled, NEW h \in Handler, Thaw(h)
  PROVE  RowsIInv'
<1>1. UNCHANGED <<row, nextId, needsSync, cancel, call, gate, epoch, wire, driver>>
      /\ op[h].pc = "thaw" /\ Goto(h, "commit") /\ frozen' = FALSE
  BY DEF Thaw, store
<1>2. h # Stop /\ op[h].id \in Id /\ Known(op[h].id)
  BY <1>1, BusySlot
<1>3. KindOk(h) /\ GatesOk(h) /\ op[h].call \in {"decline", "validated"}
  <2>1. KindOk(h) /\ GatesOk(h)
    BY DEF RowsIInv
  <2> QED
    BY <1>1, <2>1, BusySlot DEF KindOk
<1>4. /\ Others(h) /\ op'[h].pc = "commit"
      /\ op'[h].call = op[h].call /\ op'[h].kind = op[h].kind /\ op'[h].id = op[h].id
  BY <1>1, SlotFields
<1>5. KindOk(h)'
  BY <1>3, <1>4 DEF KindOk
<1>6. GatesOk(h)'
  BY <1>1, <1>3, <1>4 DEF GatesOk, Acquires, Driven
<1>7. Calm' /\ ~Lets(h) /\ ~Checks(h) /\ ~Reverts(h) /\ (Ends(h) => Ends(h)')
  BY <1>1, <1>2, <1>3, <1>4, CalmSlot DEF Checks, Lets, Reverts, Ends, Acquires
<1>8. /\ Known(op'[h].id) /\ op'[h].pc # "asked" /\ op'[h].call # "ttl"
      /\ ~Acquires(h, {"ask", "shell", "commit"})' /\ ~Acquires(h, {"ask"})'
  BY <1>2, <1>3, <1>4 DEF Acquires
<1> QED
  BY <1>1, <1>4, <1>5, <1>6, <1>7, <1>8, SlotStep

\* A refusal leaves nothing frozen that the model needs.
LEMMA UndoRows ==
  ASSUME TypeOK, SlotInv, RowsIInv, NEW h \in Handler, Undo(h) \/ Refused(h)
  PROVE  RowsIInv'
<1>1. UNCHANGED <<row, nextId, needsSync, cancel, call, gate, epoch, wire, driver>>
      /\ op[h].pc \in {"undo", "refused"}
  BY DEF Undo, Refused, store, computer
<1>2. h # Stop /\ op[h].id \in Id /\ op[h].kind # "stop"
  BY <1>1, BusySlot
<1>3. ~Checks(h) /\ ~Lets(h) /\ ~Reverts(h) /\ ~Ends(h)
  BY <1>1 DEF Checks, Lets, Reverts, Ends, Acquires
<1>4. Answer(h, "refused") /\ (frozen' => frozen)
  <2>1. CASE Undo(h)
    BY <2>1 DEF Undo, TypeOK
  <2>2. CASE Refused(h)
    <3>1. gate["browser"] # [state |-> "agent", id |-> op[h].id]
      BY <1>2, RowFacts DEF RowsIInv, MintedInv
    <3> QED
      BY <2>2, <3>1 DEF Refused, computer
  <2> QED
    BY <2>1, <2>2
<1>5. frozen' /\ gate["browser"].state = "agent" => frozen /\ ~Thaws(h)
  <2>1. CASE Undo(h)
    BY <2>1 DEF Undo, ThawsAgent
  <2>2. CASE Refused(h)
    BY <1>4, <2>2 DEF Refused, Thaws, Acquires
  <2> QED
    BY <2>1, <2>2
<1>6. Others(h) /\ Left(h) /\ Calm'
  BY <1>1, <1>2, <1>4, SlotFields, CalmSlot
<1> QED
  BY <1>1, <1>3, <1>5, <1>6, LeaveRows

-----------------------------------------------------------------------------
(* The steps that move the gates.                                          *)

\* A step of the handler that has the computer, when the gates move.
LEMMA HolderStep ==
  ASSUME TypeOK, SlotInv, RowsIInv, NEW h \in Handler \ {Stop}, Holds(h), Others(h),
         UNCHANGED <<row, nextId, needsSync, cancel, call, wire, frozen>>,
         KindOk(h)', GatesOk(h)', op'[h].pc # "asked", op'[h].id = op[h].id, op[h].id \in Id,
         op'[h].call = op[h].call, Known(op[h].id),
         Acquires(h, {"shell", "commit"})' => ~Spent(op[h].id), ~Acquires(h, {"ask"})',
         gate["browser"] # gate'["browser"] =>
           \/ gate'["browser"] = FreshSession
           \/ /\ gate'["browser"].state # "agent" /\ gate'["browser"].id = gate["browser"].id
              /\ gate'["browser"].state # "takeover_requested" /\ gate["browser"].state # "agent"
           \/ /\ gate'["browser"].state # "agent" /\ gate'["browser"].id = op[h].id
              /\ ~OnWire(op[h].id) /\ ~Spent(op[h].id)
              /\ \A g \in Handler \ {h} : ~(Untaken(g) /\ op[g].id = op[h].id),
         HoldInv'
  PROVE  RowsIInv'
<1>0. RowsIInv /\ NoId \notin Id
  BY RowFacts
<1>1. MintedInv'
  <2>1. /\ \A i \in Id : i >= nextId => ~Known(i) /\ ~OnWire(i)
        /\ \A i \in Id : ~Known(i) => row[i].state = "terminated" /\ ~Spent(i) /\ i \notin needsSync
        /\ call.pc = "asked" => call.id < nextId /\ ~Known(call.id)
        /\ \A k, l \in DOMAIN wire : wire[k].id = wire[l].id => k = l
    BY DEF RowsIInv, MintedInv
  <2>2. \A i \in Id : Known(i)' = Known(i) /\ OnWire(i)' = OnWire(i) /\ Spent(i)' = Spent(i)
    BY DEF Known, OnWire, Spent
  <2>3. \A i \in Id : i >= nextId => gate'["browser"].id # i
    BY <1>0, <2>1 DEF RowsIInv, MintedInv, FreshSession
  <2>4. \A i \in Id : OnWire(i) => gate'["browser"].id # i
    BY <1>0 DEF RowsIInv, MintedInv, FreshSession
  <2>5. gate'["browser"].state = "agent" <=> gate'["browser"].id = NoId
    BY <1>0 DEF RowsIInv, MintedInv, FreshSession
  <2>6. call.pc = "asked" => call.id < nextId /\ ~(row'[call.id].born > 0)
    BY <2>1 DEF Known
  <2> QED
    BY <2>1, <2>2, <2>3, <2>4, <2>5, <2>6 DEF MintedInv, Known
<1>2. SpentInv'
  <2>1. \A i \in Id : Spent(i)' = Spent(i) /\ OnWire(i)' = OnWire(i)
    BY DEF Spent, OnWire
  <2>2. ASSUME NEW i \in Id, Spent(i) PROVE ~At("browser", "takeover_requested", i)'
    BY <1>0, <2>2 DEF RowsIInv, SpentInv, At, FreshSession
  <2> QED
    BY <2>1, <2>2 DEF RowsIInv, SpentInv
<1>3. ASSUME NEW g \in Handler \ {h}
      PROVE  KindOk(g)' /\ WorkOk(g)' /\ UntakenOk(g)' /\ GatesOk(g)'
  <2>1. ~InCharge(g) /\ op'[g] = op[g]
    BY OneInCharge DEF Others
  <2>2. \A i \in Id : gate'["browser"].id = i =>
           gate["browser"].id = i \/ \A f \in Handler \ {h} : ~(Untaken(f) /\ op[f].id = i)
    BY <1>0 DEF FreshSession
  <2>3. Acquires(h, {"ask"})' => op'[h].id \in needsSync
    OBVIOUS
  <2>4. KindOk(g)' /\ WorkOk(g)' /\ UntakenOk(g)'
    BY <2>2, <2>3, OthersKeep
  <2> QED
    BY <2>1, <2>4, GatesIdle
<1>4. WorkOk(h)'
  <2>1. op[h].call = "ttl" => Spent(op[h].id)
    BY DEF RowsIInv, WorkOk
  <2>2. ~Acquires(h, {"ask", "shell", "commit"})' \/ Acquires(h, {"shell", "commit"})'
    BY DEF Acquires
  <2> QED
    BY <2>1, <2>2 DEF WorkOk, Known, Spent
<1>5. UntakenOk(h)' /\ Calm'
  BY CalmSlot DEF UntakenOk, Untaken
<1> QED
  BY <1>1, <1>2, <1>3, <1>4, <1>5 DEF RowsIInv

\* What holds of the handler at one of these steps.
LEMMA HolderFacts ==
  ASSUME TypeOK, SlotInv, RowsIInv, NEW h \in Handler, Holds(h),
         op[h].pc \in {"sync", "browser", "shell", "ask", "commit"}
  PROVE  /\ h \in Handler \ {Stop} /\ op[h].id \in Id /\ op[h].id # NoId /\ Known(op[h].id)
         /\ KindOk(h) /\ WorkOk(h) /\ GatesOk(h) /\ HoldInv /\ (frozen => Native)
         /\ op[h].call \in {"grant", "decline", "release", "validated", "still_sensitive", "ttl"}
         /\ op[h].kind = "acquire" <=> op[h].call = "grant"
         /\ \A g \in Handler : Lets(g) \/ Checks(g) \/ Reverts(g) \/ Ends(g) \/ (frozen /\ Thaws(g)) => g = h
BY BusySlot, Roles, RowFacts DEF RowsIInv, Calm

\* The shell is told before it is asked.
LEMMA SyncRows ==
  ASSUME TypeOK, SlotInv, RowsIInv, NEW h \in Handler, Sync(h)
  PROVE  RowsIInv'
<1>1. UNCHANGED <<row, nextId, needsSync, cancel, call, wire, frozen, epoch, driver>> /\ op[h].pc = "sync" /\ Holds(h)
  BY DEF Sync, store
<1>2. /\ gate'["browser"] = gate["browser"]
      /\ gate'["shell"] = [state |-> "takeover_requested", id |-> op[h].id]
  BY DEF Sync, TypeOK, Role
<1>3. /\ h \in Handler \ {Stop} /\ op[h].id \in Id /\ Known(op[h].id)
      /\ KindOk(h) /\ GatesOk(h) /\ HoldInv
      /\ op[h].kind = "acquire" <=> op[h].call = "grant"
      /\ \A g \in Handler : Lets(g) \/ Checks(g) \/ Reverts(g) \/ Ends(g) \/ (frozen /\ Thaws(g)) => g = h
  BY <1>1, HolderFacts
<1>4. op[h].call = "grant"
  BY <1>1, <1>3, HolderFacts DEF KindOk
<1>5. /\ Others(h) /\ op'[h].pc = "browser"
      /\ op'[h].call = op[h].call /\ op'[h].kind = op[h].kind /\ op'[h].id = op[h].id
  BY SlotFields DEF Sync
<1>6. KindOk(h)'
  BY <1>3, <1>4, <1>5 DEF KindOk
<1>7. At("browser", "takeover_requested", op[h].id)
  BY <1>1, <1>3, <1>4 DEF GatesOk, Acquires
<1>8. GatesOk(h)'
  BY <1>2, <1>4, <1>5, <1>7 DEF GatesOk, Acquires, At
<1>9. ~Lets(h) /\ ~Checks(h) /\ ~Reverts(h) /\ ~Ends(h)
  BY <1>1, <1>4 DEF Lets, Checks, Reverts, Ends, Acquires
<1>10. HoldInv'
  <2>1. gate["browser"].state = "takeover_requested" /\ ~Driven
    BY <1>7 DEF At, Driven
  <2>2. \A i \in Id : row[i].state # "human"
    BY <1>3, <1>9, <2>1 DEF HoldInv
  <2> QED
    BY <1>1, <1>2, <2>1, <2>2 DEF HoldInv, Driven
<1>11. ~Acquires(h, {"ask", "shell", "commit"})'
  BY <1>5 DEF Acquires
<1> QED
  BY <1>1, <1>2, <1>3, <1>5, <1>6, <1>8, <1>10, <1>11, HolderStep DEF Acquires

\* The browser is told of a request that it has not heard of.
LEMMA AskRows ==
  ASSUME TypeOK, SlotInv, RowsIInv, NEW h \in Handler, Ask(h)
  PROVE  RowsIInv'
<1>1. UNCHANGED <<row, nextId, needsSync, cancel, call, wire, frozen, driver>> /\ op[h].pc = "ask" /\ Holds(h)
      /\ wire = <<>>
  BY DEF Ask, store, Free
<1>3. /\ h \in Handler \ {Stop} /\ op[h].id \in Id /\ op[h].id # NoId /\ Known(op[h].id)
      /\ KindOk(h) /\ WorkOk(h) /\ HoldInv /\ (frozen => Native)
      /\ op[h].kind = "acquire" <=> op[h].call = "grant"
      /\ \A g \in Handler : Lets(g) \/ Checks(g) \/ Reverts(g) \/ Ends(g) \/ (frozen /\ Thaws(g)) => g = h
  BY <1>1, HolderFacts
<1>4. op[h].call = "grant"
  BY <1>1, <1>3, HolderFacts DEF KindOk
<1>5. ~Lets(h) /\ ~Checks(h) /\ ~Reverts(h) /\ ~Ends(h)
  BY <1>1, <1>4 DEF Lets, Checks, Reverts, Ends, Acquires
<1>6. CASE ModelMayAsk
  <2>1. /\ gate'["browser"] = [state |-> "takeover_requested", id |-> op[h].id]
        /\ op' = [op EXCEPT ![h].pc = "status", ![h].res = "again"]
    BY <1>6 DEF Ask, TypeOK, Role
  <2>2. /\ Others(h) /\ op'[h].pc = "status"
        /\ op'[h].call = op[h].call /\ op'[h].kind = op[h].kind /\ op'[h].id = op[h].id
    <3>1. op \in [Handler -> Op] /\ op[h] \in Op
      BY DEF TypeOK
    <3> QED
      BY <2>1, <3>1 DEF Others, Op
  <2>3. KindOk(h)' /\ GatesOk(h)' /\ ~Acquires(h, {"shell", "commit"})' /\ ~Acquires(h, {"ask"})'
    BY <1>3, <1>4, <2>2 DEF KindOk, GatesOk, Acquires
  <2>4. gate["browser"].state \notin {"human", "resume_validating"}
    BY <1>6 DEF ModelMayAsk, IsTakeoverBusy, BusyStates
  <2>5. HoldInv'
    <3>1. \A i \in Id : row[i].state # "human"
      BY <1>3, <1>5, <2>4 DEF HoldInv, Driven
    <3> QED
      BY <1>1, <2>1, <3>1 DEF HoldInv, Driven
  <2>6. ~OnWire(op[h].id) /\ ~Spent(op[h].id)
    BY <1>1, <1>3, <1>4 DEF OnWire, WorkOk, Acquires
  <2>7. ASSUME NEW g \in Handler \ {h}, Untaken(g) PROVE op[g].id # op[h].id
    <3>1. UntakenOk(g) /\ Acquires(h, {"ask"})
      BY <1>1, <1>4 DEF RowsIInv, Acquires
    <3> QED
      BY <2>7, <3>1 DEF UntakenOk
  <2>8. /\ gate'["browser"].state # "agent" /\ gate'["browser"].id = op[h].id
        /\ ~OnWire(op[h].id) /\ ~Spent(op[h].id)
        /\ \A g \in Handler \ {h} : ~(Untaken(g) /\ op[g].id = op[h].id)
    BY <2>1, <2>6, <2>7
  <2>9. op'[h].pc # "asked"
    BY <2>2
  <2> QED
    BY <1>1, <1>3, <2>2, <2>3, <2>5, <2>8, <2>9, HolderStep
<1>7. CASE ~ModelMayAsk
  <2>1. Goto(h, IF Native THEN "undo" ELSE "refused") /\ UNCHANGED <<gate, epoch>>
    BY <1>7 DEF Ask
  <2>2. /\ Others(h) /\ op'[h].pc = IF Native THEN "undo" ELSE "refused"
        /\ op'[h].call = op[h].call /\ op'[h].kind = op[h].kind /\ op'[h].id = op[h].id
    BY <2>1, SlotFields
  <2>3. KindOk(h)' /\ GatesOk(h)' /\ Calm'
    BY <1>1, <1>3, <1>4, <2>2, CalmSlot DEF KindOk, GatesOk, Acquires
  <2>4. frozen' => Thaws(h)'
    BY <1>1, <1>3, <1>4, <2>2 DEF Thaws, Acquires
  <2>5. Known(op'[h].id) /\ op'[h].pc # "asked" /\ op'[h].call # "ttl"
        /\ ~Acquires(h, {"ask", "shell", "commit"})' /\ ~Acquires(h, {"ask"})'
    BY <1>3, <1>4, <2>2 DEF Acquires
  <2> QED
    BY <1>1, <1>3, <1>5, <2>1, <2>2, <2>3, <2>4, <2>5, SlotStep
<1> QED
  BY <1>6, <1>7

\* The session after each event that is not refused.
LEMMA SessionAfter ==
  ASSUME NEW s, NEW e
  PROVE  /\ e = "grant" => Answered(s, e) = IF s.state = "takeover_requested" THEN [state |-> "human", id |-> s.id] ELSE s
         /\ e = "release" => Answered(s, e) = IF s.state = "human" THEN [state |-> "resume_validating", id |-> s.id] ELSE s
         /\ e = "still_sensitive" =>
              Answered(s, e) = IF s.state = "resume_validating" THEN [state |-> "human", id |-> s.id] ELSE s
         /\ e = "validated" => Answered(s, e) = IF s.state = "resume_validating" THEN FreshSession ELSE s
         /\ e = "decline" => Answered(s, e) = IF s.state \in {"takeover_requested", "paused"} THEN FreshSession ELSE s
         /\ e = "ttl" => Answered(s, e) =
              IF s.state \in {"takeover_requested", "human", "resume_validating"}
                THEN [state |-> "paused", id |-> s.id] ELSE s
BY DEF Answered, After, Legal, SourceOf, TargetOf, FreshSession

\* The browser's gate moves, and the handler answers for what now lags behind.
LEMMA BrowserRows ==
  ASSUME TypeOK, SlotInv, RowsIInv, NEW h \in Handler, Browser(h)
  PROVE  RowsIInv'
<1> DEFINE s == gate["browser"]  e == op[h].call  i == op[h].id  t == gate["shell"]
<1>1. UNCHANGED <<row, nextId, needsSync, cancel, call, wire, frozen>> /\ op[h].pc = "browser" /\ Holds(h)
  BY DEF Browser, store
<1>2. /\ h \in Handler \ {Stop} /\ i \in Id /\ i # NoId /\ Known(i)
      /\ KindOk(h) /\ WorkOk(h) /\ GatesOk(h) /\ HoldInv
      /\ e \in {"grant", "decline", "release", "validated", "still_sensitive", "ttl"}
      /\ \A g \in Handler : Lets(g) \/ Checks(g) \/ Reverts(g) \/ Ends(g) \/ (frozen /\ Thaws(g)) => g = h
  BY <1>1, HolderFacts
<1>3. ~Lets(h) /\ ~Reverts(h) /\ ~Ends(h) /\ (Checks(h) => e \in {"validated", "still_sensitive"})
  BY <1>1 DEF Lets, Reverts, Ends, Checks, Acquires
<1>4. s.state = "agent" <=> s.id = NoId
  BY DEF RowsIInv, MintedInv
<1>5. CASE ~Accepts(s, e, i)
  <2>1. Goto(h, AfterRefusal(h)) /\ UNCHANGED <<gate, epoch, driver>>
    BY <1>5 DEF Browser
  <2>2. e \in {"decline", "release", "ttl"}
    BY <1>1, <1>2, <1>5 DEF Accepts, Legal, SourceOf, Mismatch, GatesOk, Acquires, At
  <2> QED
    BY <1>1, <2>1, <2>2, RefusedRows
<1>6. CASE Accepts(s, e, i)
  <2>1. /\ gate'["browser"] = Answered(s, e) /\ gate'["shell"] = t
        /\ epoch' = (IF e = "decline" /\ s.state # "agent" THEN epoch + 1 ELSE epoch)
        /\ driver' = IF e = "grant" THEN op[h].dev ELSE driver
    BY <1>6 DEF Browser, TypeOK, Role
  <2>2. /\ Others(h) /\ op'[h].pc = "shell" /\ op'[h].seen = epoch /\ op'[h].dev = op[h].dev
        /\ op'[h].call = e /\ op'[h].kind = op[h].kind /\ op'[h].id = i
    <3>1. op \in [Handler -> Op] /\ op[h] \in Op /\ op' = [op EXCEPT ![h].pc = "shell", ![h].seen = epoch]
      BY <1>6 DEF TypeOK, Browser
    <3> QED
      BY <3>1 DEF Others, Op
  <2>3. KindOk(h)'
    BY <1>1, <1>2, <2>2 DEF KindOk
  <2>4. \A j \in Id : row[j].state = "human" => Driven /\ s.id = j /\ Mine(j)
    BY <1>2, <1>3 DEF HoldInv
  <2>5. CASE e = "grant"
    <3>1. s.state = "takeover_requested" /\ s.id = i /\ At("shell", "takeover_requested", i) /\ ~Spent(i)
      <4>1. At("browser", "takeover_requested", i) /\ At("shell", "takeover_requested", i)
        BY <1>1, <1>2, <2>5 DEF GatesOk, Acquires
      <4> QED
        BY <1>2, <4>1 DEF At, RowsIInv, SpentInv
    <3>2. gate'["browser"] = [state |-> "human", id |-> i] /\ UNCHANGED epoch /\ driver' = op[h].dev
      BY <2>1, <2>5, <3>1, SessionAfter
    <3>3. GatesOk(h)'
      BY <2>1, <2>2, <2>5, <3>1, <3>2 DEF GatesOk, Acquires, At
    <3>4. HoldInv'
      <4>1. \A j \in Id : row[j].state # "human"
        BY <2>4, <3>1 DEF Driven
      <4>2. Lets(h)'
        BY <2>2, <2>5 DEF Lets, Acquires
      <4> QED
        BY <1>1, <3>2, <4>1, <4>2 DEF HoldInv
    <3> QED
      BY <1>1, <1>2, <2>2, <2>3, <2>5, <3>1, <3>2, <3>3, <3>4, HolderStep DEF Acquires
  <2>6. CASE e = "decline"
    <3>1. s.state \in {"takeover_requested", "paused", "agent"} /\ ~Mismatch(t, i) /\ CanDecline(t.state)
      BY <1>1, <1>2, <1>6, <2>6 DEF Accepts, Legal, SourceOf, GatesOk
    <3>2. gate'["browser"].state = "agent" /\ (gate'["browser"] = FreshSession \/ gate'["browser"] = s)
      BY <2>1, <2>6, <3>1, SessionAfter DEF FreshSession
    <3>3. GatesOk(h)'
      BY <2>1, <2>2, <2>6, <3>1, <3>2 DEF GatesOk, Acquires, Driven
    <3>4. HoldInv'
      <4>1. \A j \in Id : row[j].state # "human"
        BY <2>4, <3>1 DEF Driven
      <4>2. Thaws(h)'
        BY <2>2, <2>6 DEF Thaws
      <4> QED
        BY <1>1, <3>2, <4>1, <4>2 DEF HoldInv, Driven
    <3> QED
      BY <1>1, <1>2, <2>2, <2>3, <2>6, <3>2, <3>3, <3>4, HolderStep DEF Acquires
  <2>7. CASE e = "release"
    <3>1. s.state = "human" /\ s.id = i
      BY <1>2, <1>4, <1>6, <2>7 DEF Accepts, Legal, SourceOf, Mismatch
    <3>2. At("shell", "human", i) /\ Mine(i)
      BY <1>2, <1>3, <3>1 DEF HoldInv, Driven
    <3>3. gate'["browser"] = [state |-> "resume_validating", id |-> i] /\ UNCHANGED <<epoch, driver>>
      BY <2>1, <2>7, <3>1, SessionAfter
    <3>4. GatesOk(h)'
      BY <2>1, <2>2, <2>7, <3>2, <3>3 DEF GatesOk, Acquires, At
    <3>5. HoldInv'
      <4>1. Checks(h)'
        BY <2>2, <2>7 DEF Checks
      <4>2. \A j : Mine(j)' <=> Mine(j)
        BY <1>1, <3>3 DEF Mine
      <4> QED
        BY <1>1, <2>4, <3>1, <3>2, <3>3, <4>1, <4>2 DEF HoldInv, Driven
    <3> QED
      BY <1>1, <1>2, <2>2, <2>3, <2>7, <3>1, <3>3, <3>4, <3>5, HolderStep DEF Acquires
  <2>8. CASE e = "validated"
    <3>1. s.state = "resume_validating" /\ s.id = i /\ At("shell", "resume_validating", i)
      BY <1>1, <1>2, <2>8 DEF GatesOk, At
    <3>2. gate'["browser"] = FreshSession /\ gate'["browser"].state = "agent" /\ UNCHANGED <<epoch, driver>>
      BY <2>1, <2>8, <3>1, SessionAfter DEF FreshSession
    <3>3. GatesOk(h)'
      BY <2>1, <2>2, <2>8, <3>1, <3>2 DEF GatesOk, Acquires, At, Driven
    <3>4. HoldInv'
      <4>1. Ends(h)' /\ Thaws(h)'
        BY <2>2, <2>8 DEF Ends, Thaws
      <4> QED
        BY <1>1, <2>2, <2>4, <3>1, <3>2, <4>1 DEF HoldInv, Driven
    <3> QED
      BY <1>1, <1>2, <2>2, <2>3, <2>8, <3>2, <3>3, <3>4, HolderStep DEF Acquires
  <2>9. CASE e = "still_sensitive"
    <3>1. s.state = "resume_validating" /\ s.id = i /\ At("shell", "resume_validating", i)
      BY <1>1, <1>2, <2>9 DEF GatesOk, At
    <3>2. gate'["browser"] = [state |-> "human", id |-> i] /\ UNCHANGED <<epoch, driver>>
      BY <2>1, <2>9, <3>1, SessionAfter
    <3>3. GatesOk(h)'
      BY <2>1, <2>2, <2>9, <3>1, <3>2 DEF GatesOk, Acquires, At
    <3>4. HoldInv'
      <4>1. Reverts(h)' /\ Mine(i)
        BY <1>2, <1>3, <2>2, <2>9, <3>1 DEF Reverts, HoldInv, Driven
      <4>2. \A j : Mine(j)' <=> Mine(j)
        BY <1>1, <3>2 DEF Mine
      <4> QED
        BY <1>1, <2>4, <3>1, <3>2, <4>1, <4>2 DEF HoldInv, Driven
    <3> QED
      BY <1>1, <1>2, <2>2, <2>3, <2>9, <3>1, <3>2, <3>3, <3>4, HolderStep DEF Acquires
  <2>10. CASE e = "ttl"
    <3>1. s.state \in {"takeover_requested", "human", "resume_validating"} /\ s.id = i
      BY <1>2, <1>4, <1>6, <2>10 DEF Accepts, Legal, SourceOf, Mismatch
    <3>2. s.state # "takeover_requested"
      BY <1>2, <2>10, <3>1 DEF WorkOk, RowsIInv, SpentInv, At
    <3>3. s.state # "resume_validating"
      BY <1>2, <1>3, <2>10 DEF HoldInv
    <3>4. At("shell", "human", i)
      BY <1>2, <1>3, <3>1, <3>2, <3>3 DEF HoldInv
    <3>5. gate'["browser"] = [state |-> "paused", id |-> i] /\ UNCHANGED <<epoch, driver>>
      BY <2>1, <2>10, <3>1, SessionAfter
    <3>6. GatesOk(h)'
      BY <2>1, <2>2, <2>10, <3>4, <3>5 DEF GatesOk, Acquires, At, Driven
    <3>7. HoldInv'
      <4>1. Ends(h)'
        BY <2>2, <2>10 DEF Ends
      <4> QED
        BY <1>1, <2>2, <2>4, <3>1, <3>5, <4>1 DEF HoldInv, Driven
    <3> QED
      BY <1>1, <1>2, <2>2, <2>3, <2>10, <3>1, <3>2, <3>5, <3>6, <3>7, HolderStep DEF Acquires
  <2> QED
    BY <1>2, <2>5, <2>6, <2>7, <2>8, <2>9, <2>10
<1> QED
  BY <1>5, <1>6

\* What the browser has accepted the shell accepts.
LEMMA ShellRows ==
  ASSUME TypeOK, SlotInv, RowsIInv, NEW h \in Handler, Shell(h)
  PROVE  RowsIInv'
<1> DEFINE s == gate["browser"]  e == op[h].call  i == op[h].id  t == gate["shell"]
<1>1. UNCHANGED <<row, nextId, needsSync, cancel, call, wire, frozen, epoch, driver>> /\ op[h].pc = "shell" /\ Holds(h)
  BY DEF Shell, store
<1>2. /\ h \in Handler \ {Stop} /\ i \in Id /\ i # NoId /\ Known(i)
      /\ KindOk(h) /\ WorkOk(h) /\ GatesOk(h) /\ HoldInv /\ (frozen => Native)
      /\ e \in {"grant", "decline", "release", "validated", "still_sensitive", "ttl"}
      /\ \A g \in Handler : Lets(g) \/ Checks(g) \/ Reverts(g) \/ Ends(g) \/ (frozen /\ Thaws(g)) => g = h
  BY <1>1, HolderFacts
<1>3. /\ e = "grant" => t.state = "takeover_requested" /\ t.id = i /\ s.state = "human" /\ s.id = i
                        /\ driver = op[h].dev /\ op[h].seen = epoch
      /\ e = "release" => t.state = "human" /\ t.id = i /\ s.state = "resume_validating" /\ s.id = i
      /\ e = "still_sensitive" => t.state = "resume_validating" /\ t.id = i /\ s.state = "human" /\ s.id = i
      /\ e = "validated" => t.state = "resume_validating" /\ ~Driven
      /\ e = "ttl" => t.state = "human" /\ t.id = i /\ ~Driven
      /\ e = "decline" => ~Mismatch(t, i) /\ CanDecline(t.state) /\ ~Driven
  BY <1>1, <1>2 DEF GatesOk, Acquires, At
<1>4. Accepts(t, e, i)
  BY <1>2, <1>3 DEF Accepts, CanDecline, Legal, SourceOf, Mismatch
<1>5. gate'["browser"] = s /\ gate'["shell"] = Answered(t, e) /\ Goto(h, AfterAcceptance(h))
  BY <1>4 DEF Shell, TypeOK, Role
<1>6. /\ Others(h) /\ op'[h].pc = AfterAcceptance(h) /\ op'[h].seen = op[h].seen /\ op'[h].dev = op[h].dev
      /\ op'[h].call = e /\ op'[h].kind = op[h].kind /\ op'[h].id = i
  BY <1>5, SlotFields
<1>7. /\ e = "release" => AfterAcceptance(h) = "inspect"
      /\ e = "still_sensitive" => AfterAcceptance(h) = "sensitive"
      /\ e \in {"decline", "validated"} => AfterAcceptance(h) = IF Native THEN "thaw" ELSE "commit"
      /\ e \in {"grant", "ttl"} => AfterAcceptance(h) = "commit"
  BY DEF AfterAcceptance
<1>8. KindOk(h)' /\ op'[h].pc # "asked" /\ ~Acquires(h, {"ask"})'
  BY <1>2, <1>6, <1>7 DEF KindOk, Acquires
<1>9. \A j : Mine(j)' <=> Mine(j)
  BY <1>1 DEF Mine
<1>10. Acquires(h, {"shell", "commit"})' => ~Spent(i)
  BY <1>1, <1>2, <1>6 DEF WorkOk, Acquires
<1>11. Driven' <=> Driven
  BY <1>5 DEF Driven
<1>12. GatesOk(h)'
  <2>1. CASE e \in {"grant", "release", "still_sensitive"}
    BY <1>1, <1>3, <1>5, <1>6, <1>7, <2>1, SessionAfter DEF GatesOk, Acquires, At
  <2>2. CASE e \in {"decline", "validated", "ttl"}
    BY <1>3, <1>6, <1>7, <1>11, <2>2 DEF GatesOk, Acquires
  <2> QED
    BY <1>2, <2>1, <2>2
<1>13. HoldInv'
  <2>1. CASE e = "grant"
    <3>1. Lets(h)' /\ ~Ends(h)
      BY <1>6, <1>7, <2>1 DEF Lets, Ends, Acquires
    <3>2. \A j \in Id : row[j].state = "human" => Driven /\ s.id = j /\ Mine(j)
      BY <1>2, <3>1 DEF HoldInv
    <3> QED
      BY <1>1, <1>3, <1>5, <1>9, <1>11, <2>1, <3>1, <3>2 DEF HoldInv
  <2>2. CASE e = "release"
    <3>1. Checks(h)' /\ ~Ends(h) /\ ~Lets(h)
      BY <1>6, <1>7, <2>2 DEF Checks, Lets, Ends, Acquires
    <3>2. Driven => Mine(s.id)
      BY <1>2, <3>1 DEF HoldInv
    <3>3. \A j \in Id : row[j].state = "human" => Driven /\ s.id = j /\ Mine(j)
      BY <1>2, <3>1 DEF HoldInv
    <3> QED
      BY <1>1, <1>3, <1>5, <1>9, <1>11, <2>2, <3>1, <3>2, <3>3 DEF HoldInv
  <2>3. CASE e = "still_sensitive"
    <3>1. ~Ends(h) /\ ~Lets(h)
      BY <2>3 DEF Lets, Ends, Acquires
    <3>2. Driven => Mine(s.id)
      BY <1>2, <3>1 DEF HoldInv
    <3>3. \A j \in Id : row[j].state = "human" => Driven /\ s.id = j /\ Mine(j)
      BY <1>2, <3>1 DEF HoldInv
    <3>4. At("shell", "human", s.id)'
      BY <1>3, <1>5, <2>3, SessionAfter DEF At
    <3> QED
      BY <1>1, <1>3, <1>5, <1>9, <1>11, <2>3, <3>2, <3>3, <3>4 DEF HoldInv
  <2>4. CASE e \in {"decline", "validated", "ttl"}
    <3>1. ~Driven
      BY <1>3, <2>4
    <3>2. \A j \in Id : row[j].state = "human" => j = i /\ Ends(h)'
      <4>1. Ends(h) => Ends(h)'
        BY <1>6, <1>7 DEF Ends
      <4> QED
        BY <1>2, <3>1, <4>1 DEF HoldInv
    <3>3. frozen /\ s.state = "agent" => Thaws(h)'
      <4>1. frozen /\ s.state = "agent" => Thaws(h) /\ Native
        BY <1>2 DEF HoldInv
      <4> QED
        BY <1>1, <1>6, <1>7, <2>4, <4>1 DEF Thaws, Acquires
    <3> QED
      BY <1>1, <1>5, <1>6, <1>11, <3>1, <3>2, <3>3 DEF HoldInv, Driven
  <2> QED
    BY <1>2, <2>1, <2>2, <2>3, <2>4
<1> QED
  BY <1>1, <1>2, <1>5, <1>6, <1>8, <1>10, <1>12, <1>13, HolderStep

-----------------------------------------------------------------------------
(* The steps that write the rows.                                          *)

\* What a handler that has answered owes: nothing.
LEMMA LeftOk ==
  ASSUME NEW h \in Handler, Left(h), TypeOK
  PROVE  KindOk(h)' /\ WorkOk(h)' /\ UntakenOk(h)' /\ GatesOk(h)'
<1>1. op'[h].id \notin Id
  BY RowFacts DEF Left
<1> QED
  BY <1>1 DEF Left, KindOk, WorkOk, UntakenOk, Untaken, GatesOk, Acquires

\* A handler in another's computer keeps what it relies on while the gates stay.
LEMMA GatesStay ==
  ASSUME RowsIInv, NEW g \in Handler, op'[g] = op[g], UNCHANGED <<gate, epoch, driver>>
  PROVE  /\ KindOk(g)' /\ GatesOk(g)'
         /\ Lets(g)' = Lets(g) /\ Checks(g)' = Checks(g) /\ Reverts(g)' = Reverts(g)
         /\ Ends(g)' = Ends(g) /\ op'[g].id = op[g].id /\ Thaws(g)' = Thaws(g)
<1>1. KindOk(g) /\ GatesOk(g)
  BY DEF RowsIInv
<1> QED
  BY <1>1 DEF KindOk, GatesOk, Acquires, At, Driven, Lets, Checks, Reverts, Ends, Thaws

\* What the row of a handler is when it has answered.
LEMMA CommitMoves ==
  ASSUME TypeOK, NEW h \in Handler, Commit(h), KindOk(h), op[h].id \in Id,
         op[h].kind = "acquire" <=> op[h].call = "grant",
         op[h].call \in {"grant", "decline", "validated", "ttl"}
  PROVE  LET e == op[h].call  i == op[h].id IN
         /\ \A j \in Id \ {i} : row'[j] = row[j] /\ (j \in needsSync' <=> j \in needsSync)
         /\ row'[i].born = row[i].born /\ needsSync' \subseteq needsSync
         /\ e = "grant" => /\ row'[i].state = "human" /\ row'[i].owner = op[h].dev /\ row'[i].epoch = op[h].seen
                           /\ row'[i].lease = "running" /\ i \notin needsSync'
         /\ e \in {"decline", "validated"} =>
              row'[i].state = "agent" /\ row'[i].lease = row[i].lease /\ UNCHANGED needsSync
         /\ e = "ttl" => row'[i].state = "paused" /\ row'[i].lease = row[i].lease
<1> DEFINE e == op[h].call  i == op[h].id
<1>0. row \in [Id -> Row]
  BY DEF TypeOK
<1>1. CASE e = "grant"
  <2>1. /\ row' = [row EXCEPT ![i].state = "human", ![i].owner = op[h].dev,
                              ![i].lease = "running", ![i].epoch = op[h].seen]
        /\ needsSync' = needsSync \ {i}
    BY <1>1 DEF Commit
  <2> QED
    BY <1>0, <1>1, <2>1 DEF Row
<1>2. CASE e \in {"decline", "validated"}
  <2>1. op[h].kind \in {"release", "return", "decline"}
    BY <1>2 DEF KindOk
  <2>2. row' = [row EXCEPT ![i].state = "agent"] /\ UNCHANGED needsSync
    BY <2>1 DEF Commit
  <2> QED
    BY <1>0, <1>2, <2>2 DEF Row
<1>3. CASE e = "ttl"
  <2>1. op[h].kind \in {"expire", "request"}
    BY <1>3 DEF KindOk
  <2>2. row' = [row EXCEPT ![i].state = "paused"] /\ UNCHANGED needsSync
    BY <2>1 DEF Commit
  <2> QED
    BY <1>0, <1>3, <2>2 DEF Row
<1> QED
  BY <1>1, <1>2, <1>3

\* The row is written: from here on nobody has to answer for it.
LEMMA CommitRows ==
  ASSUME TypeOK, SlotInv, RowsIInv, NEW h \in Handler, Commit(h)
  PROVE  RowsIInv'
<1> DEFINE s == gate["browser"]  e == op[h].call  i == op[h].id
<1>1. UNCHANGED <<nextId, cancel, call, wire, frozen, gate, epoch, driver>> /\ op[h].pc = "commit" /\ Holds(h)
      /\ Answer(h, "ok")
  BY DEF Commit, computer
<1>2. /\ h \in Handler \ {Stop} /\ i \in Id /\ i # NoId /\ Known(i)
      /\ KindOk(h) /\ WorkOk(h) /\ GatesOk(h) /\ HoldInv /\ (frozen => Native)
      /\ e \in {"grant", "decline", "release", "validated", "still_sensitive", "ttl"}
      /\ op[h].kind = "acquire" <=> op[h].call = "grant"
      /\ \A g \in Handler : Lets(g) \/ Checks(g) \/ Reverts(g) \/ Ends(g) \/ (frozen /\ Thaws(g)) => g = h
  BY <1>1, HolderFacts
<1>3. Others(h) /\ Left(h)
  BY <1>1, <1>2, SlotFields DEF KindOk
<1>4. e \in {"grant", "decline", "validated", "ttl"}
  BY <1>1, <1>2 DEF KindOk
<1>5. row \in [Id -> Row]
  BY DEF TypeOK
<1>6. /\ \A j \in Id \ {i} : row'[j] = row[j]
      /\ row'[i].born = row[i].born /\ needsSync' \subseteq needsSync
      /\ e = "grant" => /\ row'[i].state = "human" /\ row'[i].owner = op[h].dev /\ row'[i].epoch = op[h].seen
                        /\ row'[i].lease = "running" /\ i \notin needsSync'
      /\ e \in {"decline", "validated"} => row'[i].state = "agent" /\ row'[i].lease = row[i].lease
      /\ e = "ttl" => row'[i].state = "paused" /\ row'[i].lease = row[i].lease
  BY <1>1, <1>2, <1>4, CommitMoves
<1>7. /\ \A j \in Id : Known(j)' = Known(j) /\ OnWire(j)' = OnWire(j)
      /\ \A j \in Id : Spent(j) => Spent(j)'
      /\ \A j \in Id : Spent(j)' /\ ~Spent(j) => j = i /\ e = "grant"
  <2>1. \A j \in Id : row'[j].born = row[j].born
    BY <1>6
  <2>2. \A j \in Id : row'[j].lease # row[j].lease => j = i /\ e = "grant" /\ row'[j].lease = "running"
    BY <1>4, <1>6
  <2> QED
    BY <1>1, <2>1, <2>2 DEF Known, OnWire, Spent
<1>8. /\ e = "grant" => s.state = "human" /\ s.id = i /\ driver = op[h].dev /\ op[h].seen = epoch
                        /\ At("shell", "human", i) /\ ~Spent(i)
      /\ e \in {"decline", "validated", "ttl"} => ~Driven
      /\ e = "ttl" => Spent(i)
  BY <1>1, <1>2 DEF GatesOk, WorkOk, Acquires, At
<1>9. MintedInv'
  <2>1. MintedInv
    BY DEF RowsIInv
  <2>2. \A j \in Id : ~Known(j) => row'[j].state = "terminated" /\ ~Spent(j)' /\ j \notin needsSync'
    BY <1>2, <1>6, <1>7, <2>1 DEF MintedInv
  <2>3. call.pc = "asked" => ~(row'[call.id].born > 0)
    <3>1. call.pc = "asked" => call.id \in Id
      BY DEF TypeOK, Call
    <3>2. \A j \in Id : row'[j].born = row[j].born
      BY <1>6
    <3> QED
      BY <2>1, <3>1, <3>2 DEF MintedInv, Known
  <2> QED
    BY <1>1, <1>7, <2>1, <2>2, <2>3 DEF MintedInv, Known
<1>10. SpentInv'
  <2>1. SpentInv /\ (\A j \in Id : OnWire(j) => s.id # j)
    BY DEF RowsIInv, MintedInv
  <2>2. ASSUME NEW j \in Id, row'[j].state \in {"human", "paused"} PROVE Spent(j)'
    BY <1>4, <1>6, <1>7, <1>8, <2>1, <2>2 DEF SpentInv, Spent
  <2>3. ASSUME NEW j \in Id, Spent(j)'
        PROVE  j \notin needsSync' /\ ~OnWire(j)' /\ ~At("browser", "takeover_requested", j)'
    BY <1>1, <1>6, <1>7, <1>8, <2>1, <2>3 DEF SpentInv, At
  <2> QED
    BY <2>2, <2>3 DEF SpentInv
<1>11. ASSUME NEW g \in Handler \ {h}
       PROVE  KindOk(g)' /\ WorkOk(g)' /\ UntakenOk(g)' /\ GatesOk(g)'
  <2>1. op'[g] = op[g] /\ KindOk(g) /\ WorkOk(g) /\ UntakenOk(g) /\ ~InCharge(g)
    BY <1>1, <1>3, OneInCharge DEF Others, RowsIInv
  <2>2. WorkOk(g)'
    <3>1. ~Acquires(g, {"ask", "shell", "commit"})
      BY <2>1 DEF InCharge, Acquires
    <3>2. op[g].id \in Id => Known(op[g].id)'
      BY <1>7, <2>1 DEF WorkOk
    <3>3. op[g].call = "ttl" => Spent(op[g].id)'
      <4>1. op[g].call = "ttl" => op[g].id \in Id
        <5>1. op[g].call = "ttl" => op[g].pc \notin {"idle", "entry", "close"}
          BY <2>1 DEF KindOk
        <5> QED
          BY <5>1, SlotType
      <4> QED
        BY <1>7, <2>1, <4>1 DEF WorkOk
    <3>4. op[g].pc = "asked" /\ op[g].prior # NoId => Spent(op[g].prior)' /\ row'[op[g].prior].state # "human"
      <4> SUFFICES ASSUME op[g].pc = "asked", op[g].prior # NoId
                   PROVE  Spent(op[g].prior)' /\ row'[op[g].prior].state # "human"
        OBVIOUS
      <4>1. op[g].prior \in Id /\ Spent(op[g].prior) /\ row[op[g].prior].state # "human"
        BY <2>1, SlotType DEF WorkOk
      <4>2. CASE op[g].prior = i
        BY <1>4, <1>6, <1>8, <2>1, <4>1, <4>2, <1>7 DEF Spent
      <4>3. CASE op[g].prior # i
        BY <1>6, <2>1, <4>1, <4>3 DEF Spent
      <4> QED
        BY <4>2, <4>3
    <3> QED
      BY <1>1, <2>1, <3>1, <3>2, <3>3, <3>4 DEF WorkOk, Acquires, OnWire
  <2>3. UntakenOk(g)'
    <3> SUFFICES ASSUME Untaken(g)
                 PROVE  UntakenOk(g)'
      BY <2>1 DEF UntakenOk, Untaken
    <3>1. op[g].id \in Id
      BY SlotType DEF Untaken
    <3>2. ~Spent(op[g].id)'
      BY <1>7, <1>8, <2>1, <3>1 DEF UntakenOk
    <3>3. \A f \in Handler : op'[f].pc = "asked" /\ op'[f].id = op[g].id => f = g
      BY <1>3, <2>1 DEF UntakenOk, Others, Left
    <3>4. \A f \in Handler : Acquires(f, {"ask"})' => op'[f].id # op[g].id
      BY <1>3, <2>1 DEF UntakenOk, Others, Left, Acquires
    <3> QED
      BY <1>1, <1>6, <2>1, <3>2, <3>3, <3>4 DEF UntakenOk
  <2> QED
    BY <1>1, <2>1, <2>2, <2>3, GatesStay
<1>12. HoldInv'
  <2>1. CASE e = "grant"
    <3>1. ~Ends(h)
      BY <2>1 DEF Ends
    <3>2. \A j \in Id \ {i} : row[j].state # "human"
      BY <1>2, <1>8, <2>1, <3>1 DEF HoldInv
    <3>3. row'[i].state = "human" /\ row'[i].owner = driver /\ row'[i].epoch = epoch
      BY <1>6, <1>8, <2>1
    <3> QED
      BY <1>1, <1>6, <1>8, <2>1, <3>2, <3>3 DEF HoldInv, Driven, At, Mine
  <2>2. CASE e \in {"decline", "validated", "ttl"}
    <3>1. ~Driven /\ ~Thaws(h)
      BY <1>1, <1>8, <2>2 DEF Thaws, Acquires
    <3>2. \A j \in Id : row'[j].state # "human"
      <4>1. \A j \in Id \ {i} : row[j].state # "human"
        BY <1>2, <3>1 DEF HoldInv
      <4> QED
        BY <1>6, <2>2, <4>1
    <3>3. ~(frozen /\ s.state = "agent")
      BY <1>2, <3>1 DEF HoldInv
    <3> QED
      BY <1>1, <3>1, <3>2, <3>3 DEF HoldInv, Driven
  <2> QED
    BY <1>4, <2>1, <2>2
<1>13. Calm' /\ KindOk(h)' /\ WorkOk(h)' /\ UntakenOk(h)' /\ GatesOk(h)'
  BY <1>1, <1>2, <1>3, CalmSlot, LeftOk
<1> QED
  BY <1>9, <1>10, <1>11, <1>12, <1>13 DEF RowsIInv

\* Rows move while the gates stay: no hold begins or ends, and none is forgotten.
LEMMA RowsMove ==
  ASSUME TypeOK, SlotInv, RowsIInv, UNCHANGED <<nextId, cancel, wire, frozen, gate, epoch, driver>>,
         \A g \in Handler : op'[g] = op[g] \/ (Left(g) /\ op[g].pc = "asked"),
         \A i \in Id :
           /\ Known(i) => row'[i].born > 0
           /\ Spent(i) <=> row'[i].lease # "none"
           /\ ~(row'[i].born > 0) => row'[i].state = "terminated"
           /\ row'[i].born > 0 /\ ~Known(i) => i < nextId
           /\ row'[i].state \in {"human", "paused"} => row'[i].state = row[i].state
           /\ row[i].state = "human" =>
                row'[i].state = "human" /\ row'[i].owner = row[i].owner /\ row'[i].epoch = row[i].epoch,
         \A i \in Id : i \in needsSync' /\ i \notin needsSync =>
           /\ row'[i].born > 0 /\ ~Spent(i)
           /\ \A g \in Handler : Untaken(g) /\ op[g].id = i => Left(g),
         call'.pc = "asked" => call' = call /\ ~(row'[call.id].born > 0)
  PROVE  RowsIInv'
<1>0. \A i \in Id : Spent(i)' = Spent(i) /\ OnWire(i)' = OnWire(i)
  BY DEF Spent, OnWire
<1>1. MintedInv'
  <2>1. MintedInv
    BY DEF RowsIInv
  <2>2. \A i \in Id : i >= nextId => ~(row'[i].born > 0)
    <3> SUFFICES ASSUME NEW i \in Id, i >= nextId PROVE ~(row'[i].born > 0)
      OBVIOUS
    <3>1. ~Known(i) /\ ~(i < nextId)
      BY <2>1, RowFacts DEF MintedInv
    <3> QED
      BY <3>1
  <2>3. \A i \in Id : ~(row'[i].born > 0) => row'[i].state = "terminated" /\ ~Spent(i) /\ i \notin needsSync'
    BY <2>1 DEF MintedInv
  <2> QED
    BY <1>0, <2>1, <2>2, <2>3 DEF MintedInv, Known
<1>2. SpentInv'
  BY <1>0 DEF RowsIInv, SpentInv, At
<1>3. ASSUME NEW g \in Handler
      PROVE  KindOk(g)' /\ WorkOk(g)' /\ UntakenOk(g)' /\ GatesOk(g)'
  <2>1. KindOk(g) /\ WorkOk(g) /\ UntakenOk(g) /\ GatesOk(g)
    BY DEF RowsIInv
  <2>2. CASE Left(g)
    BY <2>2, LeftOk
  <2>3. CASE op'[g] = op[g] /\ ~Left(g)
    <3>1. WorkOk(g)'
      <4>1. op[g].id \in Id => row'[op[g].id].born > 0
        BY <2>1 DEF WorkOk
      <4>2. op[g].call = "ttl" \/ Acquires(g, {"ask", "shell", "commit"}) => op[g].id \in Id
        <5>1. op[g].call = "ttl" \/ Acquires(g, {"ask", "shell", "commit"}) => op[g].pc \notin {"idle", "entry", "close"}
          BY <2>1, BusySlot DEF KindOk, Acquires
        <5> QED
          BY <5>1, SlotType
      <4>3. op[g].pc = "asked" /\ op[g].prior # NoId =>
               row'[op[g].prior].lease # "none" /\ row'[op[g].prior].state # "human"
        <5>1. op[g].prior # NoId => op[g].prior \in Id
          BY SlotType
        <5> QED
          BY <2>1, <5>1 DEF WorkOk
      <4> QED
        BY <2>1, <2>3, <4>1, <4>2, <4>3 DEF WorkOk, Known, Spent, OnWire, Acquires
    <3>2. UntakenOk(g)'
      <4> SUFFICES ASSUME Untaken(g)
                   PROVE  UntakenOk(g)'
        BY <2>3 DEF UntakenOk, Untaken
      <4>1. op[g].id \in Id
        BY SlotType DEF Untaken
      <4>2. ~(row'[op[g].id].lease # "none") /\ op[g].id \notin needsSync'
        BY <2>1, <2>3, <4>1 DEF UntakenOk
      <4>3. \A f \in Handler : op'[f].pc = "asked" /\ op'[f].id = op[g].id => f = g
        BY <2>1 DEF UntakenOk, Left
      <4>4. \A f \in Handler : Acquires(f, {"ask"})' => op'[f].id # op[g].id
        BY <2>1 DEF UntakenOk, Left, Acquires
      <4> QED
        BY <2>1, <2>3, <4>2, <4>3, <4>4 DEF UntakenOk, Spent
    <3> QED
      BY <2>3, <3>1, <3>2, GatesStay
  <2> QED
    BY <2>2, <2>3
<1>4. HoldInv'
  <2>1. HoldInv /\ (Driven' <=> Driven)
    BY DEF RowsIInv, Driven
  <2>2. ASSUME NEW g \in Handler
        PROVE  /\ Lets(g) => Lets(g)'
               /\ Checks(g) => Checks(g)'
               /\ Reverts(g) => Reverts(g)'
               /\ Ends(g) => Ends(g)' /\ op'[g].id = op[g].id
               /\ Thaws(g) => Thaws(g)'
    <3>1. CASE op'[g] = op[g]
      BY <3>1, GatesStay
    <3>2. CASE op[g].pc = "asked"
      <4>1. op[g].call = "none"
        BY <3>2 DEF RowsIInv, KindOk
      <4> QED
        BY <3>2, <4>1 DEF Lets, Checks, Reverts, Ends, Thaws, Acquires
    <3> QED
      BY <3>1, <3>2
  <2>3. Driven => (Mine(gate["browser"].id)' \/ \E g \in Handler : Lets(g)')
    <3>1. CASE Mine(gate["browser"].id) /\ gate["browser"].id \in Id
      BY <3>1 DEF Mine
    <3>2. gate["browser"].id \in Id \/ gate["browser"].state = "agent"
      BY RowFacts DEF RowsIInv, MintedInv, Role
    <3> QED
      BY <2>1, <2>2, <3>1, <3>2 DEF HoldInv, Driven
  <2>4. \A i \in Id : row'[i].state = "human" =>
          \/ Driven /\ gate["browser"].id = i /\ row'[i].owner = driver /\ row'[i].epoch = epoch
          \/ \E g \in Handler : op'[g].id = i /\ Ends(g)'
    BY <2>1, <2>2 DEF HoldInv, Mine
  <2>5. /\ gate["browser"].state = "human" =>
             At("shell", "human", gate["browser"].id) \/ \E g \in Handler : Lets(g)' \/ Reverts(g)'
        /\ gate["browser"].state = "resume_validating" => \E g \in Handler : Checks(g)'
        /\ frozen /\ gate["browser"].state = "agent" => \E g \in Handler : Thaws(g)'
    BY <2>1, <2>2 DEF HoldInv
  <2> QED
    BY <2>1, <2>3, <2>4, <2>5 DEF HoldInv, Mine, At
<1>5. Calm'
  <2>1. op'[Stop] = op[Stop]
    BY DEF RowsIInv, Calm, Handler
  <2> QED
    BY <2>1 DEF RowsIInv, Calm
<1> QED
  BY <1>1, <1>2, <1>3, <1>4, <1>5 DEF RowsIInv

\* The fields of a row that has just been inserted.
LEMMA Inserted ==
  ASSUME TypeOK, NEW i \in Id, NEW owner, NEW e, NEW t, Insert(i, owner, e, t)
  PROVE  /\ \A j \in Id \ {i} : row'[j] = row[j]
         /\ row'[i].state = "takeover_requested" /\ row'[i].lease = "none" /\ row'[i].born > 0
<1>1. PICK b \in 1 .. MaxId :
        row' = [row EXCEPT ![i] = [state |-> "takeover_requested", owner |-> owner, epoch |-> e,
                                   lease |-> "none", ofTask |-> t, born |-> b]]
  BY DEF Insert
<1>2. b > 0 /\ row \in [Id -> Row]
  BY TakeoverAssumption DEF TypeOK
<1> QED
  BY <1>1, <1>2

\* A lease runs out; the hold stands until its expiry.
LEMMA LapseRows ==
  ASSUME TypeOK, SlotInv, RowsIInv, NEW i \in Id, Lapse(i)
  PROVE  RowsIInv'
<1>1. /\ UNCHANGED <<nextId, cancel, wire, frozen, gate, epoch, driver, needsSync, call, op>>
      /\ row[i].lease = "running" /\ row' = [row EXCEPT ![i].lease = "lapsed"]
  BY DEF Lapse, daemon, computer
<1>2. \A j \in Id : /\ row'[j].born = row[j].born /\ row'[j].state = row[j].state
                    /\ row'[j].owner = row[j].owner /\ row'[j].epoch = row[j].epoch
                    /\ Spent(j) <=> row'[j].lease # "none"
  BY <1>1 DEF TypeOK, Row, Spent
<1>3. call.pc = "asked" => call.id \in Id
  BY DEF TypeOK, Call
<1>4. /\ \A j \in Id : ~Known(j) => row[j].state = "terminated"
      /\ call.pc = "asked" => ~Known(call.id)
  BY DEF RowsIInv, MintedInv
<1>5. call'.pc = "asked" => call' = call /\ ~(row'[call.id].born > 0)
  BY <1>1, <1>2, <1>3, <1>4 DEF Known
<1>6. \A j \in Id :
           /\ Known(j) => row'[j].born > 0
           /\ Spent(j) <=> row'[j].lease # "none"
           /\ ~(row'[j].born > 0) => row'[j].state = "terminated"
           /\ row'[j].born > 0 /\ ~Known(j) => j < nextId
           /\ row'[j].state \in {"human", "paused"} => row'[j].state = row[j].state
           /\ row[j].state = "human" =>
                row'[j].state = "human" /\ row'[j].owner = row[j].owner /\ row'[j].epoch = row[j].epoch
  BY <1>2, <1>4 DEF Known
<1>7. /\ UNCHANGED <<nextId, cancel, wire, frozen, gate, epoch, driver>>
      /\ needsSync' = needsSync /\ \A g \in Handler : op'[g] = op[g]
  BY <1>1
<1> QED
  BY <1>5, <1>6, <1>7, RowsMove

\* The row of a request of the model, answered or not.
LEMMA ModelAskedRows ==
  ASSUME TypeOK, SlotInv, RowsIInv, ModelAsked \/ ModelAskTimeout
  PROVE  RowsIInv'
<1>1. /\ UNCHANGED <<nextId, cancel, wire, frozen, gate, epoch, driver, op>>
      /\ call.pc = "asked" /\ call'.pc # "asked" /\ needsSync' \subseteq needsSync \cup {call.id}
  <2>1. CASE ModelAsked
    BY <2>1 DEF ModelAsked, computer, NoCall
  <2>2. CASE ModelAskTimeout
    BY <2>2 DEF ModelAskTimeout, computer, NoCall
  <2> QED
    BY <2>1, <2>2
<1>2. call.id \in Id /\ call.id < nextId /\ ~Known(call.id) /\ MintedInv
  BY <1>1 DEF TypeOK, Call, RowsIInv, MintedInv
<1>3. CASE UNCHANGED row
  <2>1. UNCHANGED needsSync
    <3>1. ASSUME ModelAskTimeout PROVE FALSE
      BY <1>2, <1>3, <3>1, Inserted DEF ModelAskTimeout, Known
    <3> QED
      BY <3>1 DEF ModelAsked
  <2> QED
    BY <1>1, <1>3, <2>1, QuietRows
<1>4. CASE \E n : Insert(call.id, NoDevice, n, TRUE)
  <2>1. /\ \A j \in Id \ {call.id} : row'[j] = row[j]
        /\ row'[call.id].state = "takeover_requested" /\ row'[call.id].lease = "none" /\ row'[call.id].born > 0
    BY <1>2, <1>4, Inserted
  <2>2. ~Spent(call.id) /\ row[call.id].state = "terminated"
    BY <1>2 DEF MintedInv
  <2>3. \A i \in Id :
           /\ Known(i) => row'[i].born > 0
           /\ Spent(i) <=> row'[i].lease # "none"
           /\ ~(row'[i].born > 0) => row'[i].state = "terminated"
           /\ row'[i].born > 0 /\ ~Known(i) => i < nextId
           /\ row'[i].state \in {"human", "paused"} => row'[i].state = row[i].state
           /\ row[i].state = "human" =>
                row'[i].state = "human" /\ row'[i].owner = row[i].owner /\ row'[i].epoch = row[i].epoch
    <3> SUFFICES ASSUME NEW i \in Id
                 PROVE  /\ Known(i) => row'[i].born > 0
                        /\ Spent(i) <=> row'[i].lease # "none"
                        /\ ~(row'[i].born > 0) => row'[i].state = "terminated"
                        /\ row'[i].born > 0 /\ ~Known(i) => i < nextId
                        /\ row'[i].state \in {"human", "paused"} => row'[i].state = row[i].state
                        /\ row[i].state = "human" =>
                             row'[i].state = "human" /\ row'[i].owner = row[i].owner /\ row'[i].epoch = row[i].epoch
      OBVIOUS
    <3>1. CASE i = call.id
      BY <1>2, <2>1, <2>2, <3>1 DEF Spent
    <3>2. CASE i # call.id
      <4>1. row'[i] = row[i]
        BY <2>1, <3>2
      <4>2. ~Known(i) => row[i].state = "terminated"
        BY <1>2 DEF MintedInv
      <4> QED
        BY <4>1, <4>2 DEF Spent, Known
    <3> QED
      BY <3>1, <3>2
  <2>4. ASSUME NEW i \in Id, i \in needsSync', i \notin needsSync
        PROVE  /\ row'[i].born > 0 /\ ~Spent(i)
               /\ \A g \in Handler : Untaken(g) /\ op[g].id = i => Left(g)
    <3>1. i = call.id
      BY <1>1, <2>4
    <3>2. \A g \in Handler : Untaken(g) => op[g].id # i
      BY <1>2, <3>1, SlotType DEF RowsIInv, WorkOk, Untaken
    <3> QED
      BY <2>1, <2>2, <3>1, <3>2
  <2> QED
    BY <1>1, <2>3, <2>4, RowsMove
<1> QED
  BY <1>3, <1>4 DEF ModelAsked, ModelAskTimeout

\* An answer, or the end of the wait for one.
LEMMA AnsweredRows ==
  ASSUME TypeOK, SlotInv, RowsIInv, NEW h \in Web, RequestReply(h) \/ RequestTimeout(h)
  PROVE  RowsIInv'
<1> DEFINE i == op[h].id  p == op[h].prior
<1>0. h \in Handler
  BY DEF Handler
<1>1. /\ UNCHANGED <<nextId, cancel, wire, frozen, gate, epoch, driver, call>>
      /\ op[h].pc = "asked" /\ op' = [op EXCEPT ![h] = NoOp]
  BY DEF RequestReply, RequestTimeout, computer
<1>2. Others(h) /\ Left(h)
  BY <1>0, <1>1, SlotFields
<1>3. /\ i \in Id /\ Known(i) /\ p \in Id \cup {NoId} /\ NoId \notin Id /\ MintedInv
      /\ p # NoId => Spent(p) /\ row[p].state # "human"
      /\ WorkOk(h) /\ UntakenOk(h) /\ SpentInv
  <2>1. i \in Id /\ p \in Id \cup {NoId}
    BY <1>0, <1>1, SlotType
  <2>2. WorkOk(h) /\ UntakenOk(h) /\ MintedInv /\ SpentInv
    BY <1>0 DEF RowsIInv
  <2> QED
    BY <1>1, <2>1, <2>2, RowFacts DEF WorkOk
<1>4. Untaken(h) => row[i].state # "human"
  BY <1>3 DEF UntakenOk, SpentInv
<1>5. row \in [Id -> Row]
  BY DEF TypeOK
<1>6. /\ needsSync' \subseteq needsSync \cup {i}
      /\ i \in needsSync' /\ i \notin needsSync => Untaken(h)
  BY <1>1 DEF RequestReply, RequestTimeout, Untaken
<1>7. \A j \in Id :
        /\ row'[j].born = row[j].born /\ row'[j].lease = row[j].lease /\ row'[j].owner = row[j].owner
        /\ row'[j].state = row[j].state \/ (row'[j].state = "terminated" /\ row[j].state # "human")
        /\ row[j].state = "human" => row'[j].epoch = row[j].epoch
  <2> DEFINE mid == IF row[i].state = "takeover_requested" THEN [row EXCEPT ![i].epoch = op[h].seen] ELSE row
  <2>1. \/ row' = [row EXCEPT ![i].state = "terminated"] /\ Untaken(h)
        \/ row' = ClosePrior(h, mid)
        \/ row' = ClosePrior(h, row)
    BY <1>1 DEF RequestReply, RequestTimeout, Untaken
  <2>2. CASE row' = [row EXCEPT ![i].state = "terminated"] /\ Untaken(h)
    BY <1>3, <1>4, <1>5, <2>2 DEF Row
  <2>3. mid \in [Id -> Row] /\ \A j \in Id :
          /\ mid[j].born = row[j].born /\ mid[j].lease = row[j].lease /\ mid[j].owner = row[j].owner
          /\ mid[j].state = row[j].state /\ (row[j].state = "human" => mid[j].epoch = row[j].epoch)
    <3>1. op[h].seen \in Nat
      BY <1>0, SlotType
    <3> QED
      BY <1>3, <1>5, <3>1 DEF Row
  <2>4. ASSUME NEW r \in [Id -> Row], row' = ClosePrior(h, r)
        PROVE  \A j \in Id :
          /\ row'[j].born = r[j].born /\ row'[j].lease = r[j].lease /\ row'[j].owner = r[j].owner
          /\ row'[j].epoch = r[j].epoch
          /\ row'[j].state = IF j = p THEN "terminated" ELSE r[j].state
    BY <1>3, <2>4 DEF ClosePrior, Row
  <2>5. CASE row' = ClosePrior(h, mid)
    <3> HIDE DEF mid
    <3> QED
      BY <1>3, <2>3, <2>4, <2>5
  <2>6. CASE row' = ClosePrior(h, row)
    BY <1>3, <1>5, <2>4, <2>6
  <2> QED
    BY <2>1, <2>2, <2>5, <2>6
<1>8. \A j \in Id :
           /\ Known(j) => row'[j].born > 0
           /\ Spent(j) <=> row'[j].lease # "none"
           /\ ~(row'[j].born > 0) => row'[j].state = "terminated"
           /\ row'[j].born > 0 /\ ~Known(j) => j < nextId
           /\ row'[j].state \in {"human", "paused"} => row'[j].state = row[j].state
           /\ row[j].state = "human" =>
                row'[j].state = "human" /\ row'[j].owner = row[j].owner /\ row'[j].epoch = row[j].epoch
  <2>1. \A j \in Id : ~Known(j) => row[j].state = "terminated"
    BY <1>3 DEF MintedInv
  <2> QED
    BY <1>7, <2>1 DEF Spent, Known
<1>9. ASSUME NEW j \in Id, j \in needsSync', j \notin needsSync
      PROVE  /\ row'[j].born > 0 /\ ~Spent(j)
             /\ \A g \in Handler : Untaken(g) /\ op[g].id = j => Left(g)
  <2>1. j = i /\ Untaken(h)
    BY <1>6, <1>9
  <2>2. \A g \in Handler : Untaken(g) /\ op[g].id = j => g = h
    BY <1>3, <2>1 DEF UntakenOk, Untaken
  <2> QED
    BY <1>2, <1>3, <1>8, <2>1, <2>2 DEF UntakenOk
<1>10. call'.pc = "asked" => call' = call /\ ~(row'[call.id].born > 0)
  <2>1. call.pc = "asked" => call.id \in Id /\ ~Known(call.id)
    BY <1>3 DEF TypeOK, Call, MintedInv
  <2> QED
    BY <1>1, <1>7, <2>1 DEF Known
<1>11. \A g \in Handler : op'[g] = op[g] \/ (Left(g) /\ op[g].pc = "asked")
  BY <1>1, <1>2 DEF Others
<1> QED
  BY <1>1, <1>8, <1>9, <1>10, <1>11, RowsMove

\* A request of an operator is inserted and sent.
LEMMA InsertRows ==
  ASSUME TypeOK, SlotInv, RowsIInv, NEW h \in Web, NEW prior \in Id \cup {NoId}, NEW t \in BOOLEAN,
         op[h].pc \in {"idle", "entry"}, RequestInserts(h, prior, t),
         UNCHANGED <<needsSync, cancel, call, gate, epoch, frozen, driver>>
  PROVE  RowsIInv'
<1> DEFINE i == nextId
<1>0. h \in Handler \ {Stop} /\ i \in Id /\ NoId \notin Id
  BY RowFacts, TakeoverAssumption DEF Handler, Stop, RequestInserts, Id, TypeOK
<1>1. /\ wire' = Append(wire, [id |-> i, by |-> h]) /\ nextId' = nextId + 1
      /\ prior # NoId => row[prior].state = "paused"
  BY DEF RequestInserts
<1>2. /\ \A j \in Id \ {i} : row'[j] = row[j]
      /\ row'[i].state = "takeover_requested" /\ row'[i].lease = "none" /\ row'[i].born > 0
  BY <1>0, Inserted DEF RequestInserts
<1>3. /\ Others(h) /\ op'[h].pc = "asked" /\ op'[h].call = "none" /\ op'[h].kind = "request"
      /\ op'[h].id = i /\ op'[h].prior = prior /\ op'[h].res = "none"
  <2>1. op \in [Handler -> Op]
    BY DEF TypeOK
  <2> QED
    BY <1>0, <2>1 DEF RequestInserts, NoOp, Others
<1>4. MintedInv /\ SpentInv /\ HoldInv /\ ~Known(i) /\ ~OnWire(i) /\ gate["browser"].id # i
      /\ row[i].state = "terminated" /\ ~Spent(i) /\ i \notin needsSync
  <2>1. i >= nextId
    BY RowFacts
  <2> QED
    BY <1>0, <2>1 DEF RowsIInv, MintedInv
<1>5. /\ DOMAIN wire' = 1 .. Len(wire) + 1 /\ DOMAIN wire = 1 .. Len(wire) /\ Len(wire) \in Nat
      /\ \A k \in DOMAIN wire : wire'[k] = wire[k]
      /\ wire'[Len(wire) + 1] = [id |-> i, by |-> h]
  <2>1. wire \in Seq([id : Id, by : Web \cup {"model"}])
    BY DEF TypeOK
  <2> QED
    BY <1>1, <2>1
<1>6. /\ \A j \in Id : OnWire(j)' <=> OnWire(j) \/ j = i
      /\ \A j \in Id : Known(j)' <=> Known(j) \/ j = i
      /\ \A j \in Id : Spent(j)' <=> Spent(j)
      /\ \A j \in Id : row'[j].state = row[j].state \/ (j = i /\ row'[j].state = "takeover_requested")
  <2>1. ASSUME NEW j \in Id PROVE OnWire(j)' <=> OnWire(j) \/ j = i
    <3>1. OnWire(j) => OnWire(j)'
      BY <1>5 DEF OnWire
    <3>3. OnWire(j)' => OnWire(j) \/ j = i
      BY <1>5 DEF OnWire
    <3>4. j = i => OnWire(j)'
      BY <1>5 DEF OnWire
    <3> QED
      BY <3>1, <3>3, <3>4
  <2>2. ASSUME NEW j \in Id PROVE (Known(j)' <=> Known(j) \/ j = i) /\ (Spent(j)' <=> Spent(j))
    BY <1>2, <1>4 DEF Known, Spent
  <2> QED
    BY <1>2, <2>1, <2>2
<1>7. MintedInv'
  <2>1. \A j \in Id : j >= nextId' => j >= nextId /\ j # i
    BY <1>1, RowFacts
  <2>2. \A j \in Id : j >= nextId' => ~Known(j)' /\ ~OnWire(j)' /\ gate["browser"].id # j
    BY <1>4, <1>6, <2>1 DEF MintedInv
  <2>3. \A j \in Id : ~Known(j)' => row'[j].state = "terminated" /\ ~Spent(j)' /\ j \notin needsSync
    BY <1>4, <1>6 DEF MintedInv
  <2>4. call.pc = "asked" => call.id < nextId' /\ ~(row'[call.id].born > 0)
    <3>1. call.pc = "asked" => call.id \in Id /\ call.id < nextId /\ ~Known(call.id)
      BY <1>4 DEF TypeOK, Call, MintedInv
    <3>2. call.pc = "asked" => call.id # i /\ call.id < nextId'
      BY <1>1, <3>1, RowFacts
    <3> QED
      BY <1>2, <3>1, <3>2 DEF Known
  <2>5. \A k, l \in DOMAIN wire' : wire'[k].id = wire'[l].id => k = l
    <3>1. \A k \in DOMAIN wire : wire[k].id # i
      BY <1>4 DEF OnWire
    <3>2. \A k, l \in DOMAIN wire : wire[k].id = wire[l].id => k = l
      BY <1>4 DEF MintedInv
    <3> QED
      BY <1>5, <3>1, <3>2
  <2>6. \A j \in Id : OnWire(j)' => gate["browser"].id # j
    BY <1>4, <1>6 DEF MintedInv
  <2> QED
    BY <1>4, <2>2, <2>3, <2>4, <2>5, <2>6 DEF MintedInv, Known
<1>8. SpentInv'
  BY <1>0, <1>4, <1>6 DEF SpentInv, At
<1>9. ASSUME NEW g \in Handler \ {h}
      PROVE  KindOk(g)' /\ WorkOk(g)' /\ UntakenOk(g)' /\ GatesOk(g)'
  <2>1. op'[g] = op[g] /\ WorkOk(g) /\ UntakenOk(g)
    BY <1>3 DEF Others, RowsIInv
  <2>2. op[g].id \in Id => op[g].id # i
    BY <1>4, <2>1 DEF WorkOk
  <2>3. WorkOk(g)'
    <3>1. op[g].id \in Id => row'[op[g].id] = row[op[g].id]
      BY <1>2, <2>2
    <3>2. op[g].call = "ttl" \/ Acquires(g, {"ask", "shell", "commit"}) => op[g].id \in Id
      <4>1. op[g].call = "ttl" \/ Acquires(g, {"ask", "shell", "commit"}) => op[g].pc \notin {"idle", "entry", "close"}
        BY BusySlot DEF KindOk, Acquires, RowsIInv
      <4> QED
        BY <4>1, SlotType
    <3>3. op[g].pc = "asked" /\ op[g].prior # NoId =>
             row'[op[g].prior].lease # "none" /\ row'[op[g].prior].state # "human"
      <4>1. op[g].prior # NoId => op[g].prior \in Id
        BY SlotType
      <4> QED
        BY <1>2, <1>4, <2>1, <4>1 DEF WorkOk, Spent
    <3>4. op[g].pc = "asked" /\ OnWire(op[g].id)' => op[g].res = "none"
      <4> SUFFICES ASSUME op[g].pc = "asked", OnWire(op[g].id)'
                   PROVE  op[g].res = "none"
        OBVIOUS
      <4>1. op'[g].id = op[g].id /\ op[g].id \in Id /\ op[g].id # i
        BY <2>1, <2>2, SlotType
      <4>2. OnWire(op[g].id)
        BY <1>5, <4>1 DEF OnWire
      <4> QED
        BY <2>1, <4>2 DEF WorkOk
    <3> QED
      BY <2>1, <3>1, <3>2, <3>3, <3>4 DEF WorkOk, Known, Spent, Acquires
  <2>4. UntakenOk(g)'
    <3> SUFFICES ASSUME Untaken(g)
                 PROVE  UntakenOk(g)'
      BY <2>1 DEF UntakenOk, Untaken
    <3>1. op[g].id \in Id
      BY SlotType DEF Untaken
    <3>2. ~(row'[op[g].id].lease # "none")
      BY <1>2, <2>1, <2>2, <3>1 DEF UntakenOk, Spent
    <3>3. \A k \in DOMAIN wire' : wire'[k].id = op[g].id => wire'[k].by = g /\ op[g].res = "none"
      BY <1>5, <2>1, <2>2, <3>1 DEF UntakenOk
    <3>4. \A f \in Handler : op'[f].pc = "asked" /\ op'[f].id = op[g].id => f = g
      BY <1>3, <2>1, <2>2, <3>1 DEF UntakenOk, Others
    <3>5. \A f \in Handler : Acquires(f, {"ask"})' => op'[f].id # op[g].id
      BY <1>3, <2>1 DEF UntakenOk, Others, Acquires
    <3> QED
      BY <2>1, <3>2, <3>3, <3>4, <3>5 DEF UntakenOk, Spent
  <2> QED
    BY <2>1, <2>3, <2>4, GatesStay
<1>10. KindOk(h)' /\ GatesOk(h)'
  BY <1>3 DEF KindOk, GatesOk, Acquires
<1>11. WorkOk(h)'
  <2>1. prior # NoId => row'[prior].lease # "none" /\ row'[prior].state # "human"
    <3>1. prior # NoId => prior \in Id /\ Spent(prior) /\ prior # i
      BY <1>1, <1>4 DEF SpentInv
    <3> QED
      BY <1>1, <1>2, <3>1 DEF Spent
  <2> QED
    BY <1>2, <1>3, <2>1 DEF WorkOk, Known, Spent, Acquires
<1>12. UntakenOk(h)'
  <2>1. \A g \in Handler \ {h} : op[g].id # i
    <3>1. \A g \in Handler : op[g].id \in Id => Known(op[g].id)
      BY DEF RowsIInv, WorkOk
    <3> QED
      BY <1>0, <1>4, <3>1
  <2>2. \A k \in DOMAIN wire' : wire'[k].id = i => wire'[k].by = h
    <3>1. \A k \in DOMAIN wire : wire[k].id # i
      BY <1>4 DEF OnWire
    <3> QED
      BY <1>5, <3>1
  <2>3. \A g \in Handler : op'[g].pc = "asked" /\ op'[g].id = i => g = h
    BY <1>3, <2>1 DEF Others
  <2>4. \A g \in Handler : Acquires(g, {"ask"})' => op'[g].id # i
    BY <1>3, <2>1 DEF Others, Acquires
  <2> QED
    BY <1>2, <1>3, <1>4, <2>2, <2>3, <2>4 DEF UntakenOk, Spent
<1>13. HoldInv'
  <2>1. ~Lets(h) /\ ~Checks(h) /\ ~Reverts(h) /\ ~Ends(h) /\ ~Thaws(h)
    BY DEF Lets, Checks, Reverts, Ends, Thaws, Acquires, RowsIInv, KindOk
  <2>2. ASSUME NEW g \in Handler
        PROVE  /\ Lets(g) => Lets(g)'
               /\ Checks(g) => Checks(g)'
               /\ Reverts(g) => Reverts(g)'
               /\ Ends(g) => Ends(g)' /\ op'[g].id = op[g].id
               /\ Thaws(g) => Thaws(g)'
    BY <1>3, <2>1, GatesStay DEF Others
  <2>3. Driven => (Mine(gate["browser"].id)' \/ \E g \in Handler : Lets(g)')
    <3>1. CASE Mine(gate["browser"].id) /\ gate["browser"].id \in Id
      BY <1>2, <1>4, <3>1 DEF Mine
    <3>2. gate["browser"].id \in Id \/ gate["browser"].state = "agent"
      BY RowFacts DEF RowsIInv, MintedInv, Role
    <3> QED
      BY <1>4, <2>2, <3>1, <3>2 DEF HoldInv, Driven
  <2>4. \A j \in Id : row'[j].state = "human" =>
          \/ Driven /\ gate["browser"].id = j /\ row'[j].owner = driver /\ row'[j].epoch = epoch
          \/ \E g \in Handler : op'[g].id = j /\ Ends(g)'
    BY <1>2, <1>4, <2>2 DEF HoldInv, Mine
  <2>5. /\ gate["browser"].state = "human" =>
             At("shell", "human", gate["browser"].id) \/ \E g \in Handler : Lets(g)' \/ Reverts(g)'
        /\ gate["browser"].state = "resume_validating" => \E g \in Handler : Checks(g)'
        /\ frozen /\ gate["browser"].state = "agent" => \E g \in Handler : Thaws(g)'
    BY <1>4, <2>2 DEF HoldInv
  <2> QED
    BY <2>3, <2>4, <2>5 DEF HoldInv, Mine, At, Driven
<1>14. Calm'
  BY <1>0, <1>3, CalmSlot
<1> QED
  BY <1>7, <1>8, <1>9, <1>10, <1>11, <1>12, <1>13, <1>14 DEF RowsIInv

\* An operator's request expires a hold, joins it, or is inserted and sent.
LEMMA RequestRows ==
  ASSUME TypeOK, SlotInv, RowsIInv, NEW h \in Web, Request(h)
  PROVE  RowsIInv'
<1>0. h \in Handler \ {Stop} /\ op[h].pc \in {"idle", "entry"}
      /\ UNCHANGED <<needsSync, cancel, call, gate, epoch, frozen, driver>>
  BY TakeoverAssumption DEF Handler, Stop, Request
<1>1. ASSUME op' = [op EXCEPT ![h] = NoOp], UNCHANGED <<row, nextId, wire>>
      PROVE  RowsIInv'
  <2>1. Others(h) /\ Left(h)
    BY <1>0, <1>1, SlotFields
  <2>2. Calm'
    BY <1>0, <2>1, CalmSlot
  <2>3. ~Lets(h) /\ ~Checks(h) /\ ~Reverts(h) /\ ~Ends(h) /\ ~Thaws(h)
    BY <1>0 DEF Lets, Checks, Reverts, Ends, Thaws, Acquires, RowsIInv, KindOk
  <2> QED
    BY <1>0, <1>1, <2>1, <2>2, <2>3, LeaveRows
<1>2. ASSUME NEW prior \in Id, RequestExpires(h, prior)
      PROVE  RowsIInv'
  <2>1. UNCHANGED <<row, nextId, wire>> /\ Spent(prior)
    BY <1>2 DEF RequestExpires, Spent
  <2>2. Known(prior)
    BY <2>1 DEF RowsIInv, MintedInv
  <2>3. CASE Begin(h, "request", "browser", "ttl", prior, NoDevice)
    BY <1>0, <2>1, <2>2, <2>3, BeginRows
  <2> QED
    BY <1>1, <1>2, <2>1, <2>3 DEF RequestExpires
<1>3. ASSUME NEW prior \in Id, RequestJoins(h, prior)
      PROVE  RowsIInv'
  BY <1>1, <1>3 DEF RequestJoins
<1>4. ASSUME RequestOutOfIds(h)
      PROVE  RowsIInv'
  BY <1>1, <1>4 DEF RequestOutOfIds
<1>5. ASSUME NEW prior \in Id \cup {NoId}, NEW t \in BOOLEAN, RequestInserts(h, prior, t)
      PROVE  RowsIInv'
  BY <1>0, <1>5, InsertRows
<1> QED
  BY <1>2, <1>3, <1>4, <1>5 DEF Request

-----------------------------------------------------------------------------
(* The requests of the model, and their answers.                           *)

\* The model asks: an id is minted and sent.
LEMMA ModelSendRows ==
  ASSUME TypeOK, SlotInv, RowsIInv, ModelSend
  PROVE  RowsIInv'
<1> DEFINE i == nextId
<1>1. UNCHANGED <<row, needsSync, op, cancel, gate, epoch, frozen, driver>>
  BY DEF ModelSend, store
<1>2. CASE UNCHANGED <<nextId, wire>> /\ call'.pc # "asked"
  BY <1>1, <1>2, QuietRows
<1>3. CASE /\ i <= MaxId /\ call' = [call EXCEPT !.pc = "asked", !.id = i]
           /\ wire' = Append(wire, [id |-> i, by |-> "model"]) /\ nextId' = nextId + 1
  <2>0. i \in Id /\ NoId \notin Id /\ nextId \in Nat
    BY <1>3, RowFacts DEF Id, TypeOK
  <2>1. /\ DOMAIN wire' = 1 .. Len(wire) + 1 /\ DOMAIN wire = 1 .. Len(wire) /\ Len(wire) \in Nat
        /\ \A k \in DOMAIN wire : wire'[k] = wire[k]
        /\ wire'[Len(wire) + 1] = [id |-> i, by |-> "model"]
    <3>1. wire \in Seq([id : Id, by : Web \cup {"model"}])
      BY DEF TypeOK
    <3> QED
      BY <1>3, <3>1
  <2>2. MintedInv /\ SpentInv /\ ~Known(i) /\ ~OnWire(i) /\ gate["browser"].id # i /\ ~Spent(i)
    <3>1. i >= nextId
      BY <2>0
    <3> QED
      BY <2>0, <3>1 DEF RowsIInv, MintedInv
  <2>3. /\ \A j \in Id : OnWire(j)' <=> OnWire(j) \/ j = i
        /\ \A j \in Id : Known(j)' = Known(j) /\ Spent(j)' = Spent(j)
    <3>1. ASSUME NEW j \in Id PROVE OnWire(j)' <=> OnWire(j) \/ j = i
      <4>1. OnWire(j) => OnWire(j)'
        BY <2>1 DEF OnWire
      <4>2. OnWire(j)' => OnWire(j) \/ j = i
        BY <2>1 DEF OnWire
      <4>3. j = i => OnWire(j)'
        BY <2>1 DEF OnWire
      <4> QED
        BY <4>1, <4>2, <4>3
    <3> QED
      BY <1>1, <3>1 DEF Known, Spent
  <2>4. MintedInv'
    <3>1. \A j \in Id : j >= nextId' => j >= nextId /\ j # i
      BY <1>3, <2>0 DEF Id
    <3>2. \A j \in Id : j >= nextId' => ~Known(j)' /\ ~OnWire(j)' /\ gate["browser"].id # j
      BY <2>2, <2>3, <3>1 DEF MintedInv
    <3>3. call'.id = i /\ call'.id < nextId' /\ ~(row[call'.id].born > 0)
      <4>1. call'.id = i
        BY <1>3 DEF TypeOK, Call
      <4> QED
        BY <1>3, <2>0, <2>2, <4>1 DEF Known
    <3>4. \A k, l \in DOMAIN wire' : wire'[k].id = wire'[l].id => k = l
      <4>1. \A k \in DOMAIN wire : wire[k].id # i
        BY <2>2 DEF OnWire
      <4>2. \A k, l \in DOMAIN wire : wire[k].id = wire[l].id => k = l
        BY <2>2 DEF MintedInv
      <4> QED
        BY <2>1, <4>1, <4>2
    <3>5. \A j \in Id : OnWire(j)' => gate["browser"].id # j
      BY <2>2, <2>3 DEF MintedInv
    <3> QED
      BY <1>1, <2>2, <2>3, <3>2, <3>3, <3>4, <3>5 DEF MintedInv, Known
  <2>5. SpentInv'
    BY <1>1, <2>2, <2>3 DEF SpentInv, At
  <2>6. ASSUME NEW g \in Handler
        PROVE  KindOk(g)' /\ WorkOk(g)' /\ UntakenOk(g)' /\ GatesOk(g)'
    <3>1. WorkOk(g) /\ UntakenOk(g)
      BY DEF RowsIInv
    <3>2. WorkOk(g)'
      <4>1. op[g].pc = "asked" /\ OnWire(op[g].id)' => op[g].res = "none"
        <5> SUFFICES ASSUME op[g].pc = "asked", OnWire(op[g].id)'
                     PROVE  op[g].res = "none"
          OBVIOUS
        <5>1. op'[g].id = op[g].id /\ op[g].id \in Id /\ op[g].id # i
          BY <1>1, <2>2, <3>1, SlotType DEF WorkOk
        <5>2. OnWire(op[g].id)
          BY <2>1, <5>1 DEF OnWire
        <5> QED
          BY <3>1, <5>2 DEF WorkOk
      <4> QED
        BY <1>1, <3>1, <4>1 DEF WorkOk, Known, Spent, Acquires
    <3>3. UntakenOk(g)'
      <4> SUFFICES ASSUME Untaken(g)
                   PROVE  UntakenOk(g)'
        BY <1>1 DEF UntakenOk, Untaken
      <4>1. op[g].id \in Id /\ op[g].id # i
        BY <2>2, <3>1, SlotType DEF Untaken, WorkOk
      <4>2. \A k \in DOMAIN wire' : wire'[k].id = op[g].id => wire'[k].by = g /\ op[g].res = "none"
        BY <2>1, <3>1, <4>1 DEF UntakenOk
      <4> QED
        BY <1>1, <3>1, <4>2 DEF UntakenOk, Spent, Acquires
    <3> QED
      BY <1>1, <3>2, <3>3, GatesStay
  <2>7. HoldInv' /\ Calm'
    BY <1>1 DEF RowsIInv, HoldInv, Calm, Driven, Mine, At, Lets, Reverts, Checks, Ends, Thaws, Acquires
  <2> QED
    BY <2>4, <2>5, <2>6, <2>7 DEF RowsIInv
<1>4. CASE call' = NoCall /\ UNCHANGED <<nextId, wire>>
  BY <1>2, <1>4 DEF NoCall
<1>5. CASE call' = [call EXCEPT !.pc = "sent"] /\ UNCHANGED <<nextId, wire>>
  <2>1. call'.pc = "sent"
    BY <1>5 DEF TypeOK, Call
  <2> QED
    BY <1>2, <1>5, <2>1
<1>6. nextId \in Nat /\ MaxId \in Nat
  BY RowFacts, TakeoverAssumption
<1> QED
  BY <1>3, <1>4, <1>5, <1>6 DEF ModelSend

\* The browser serves a request.
LEMMA ServeRows ==
  ASSUME TypeOK, SlotInv, RowsIInv, ServeRequest
  PROVE  RowsIInv'
<1> DEFINE q == Head(wire)  i == q.id  s == gate["browser"]
           taken == IF q.by = "model" THEN ModelMayAsk ELSE Legal(s.state, "request")
           waits == q.by # "model" /\ op[q.by].pc = "asked" /\ op[q.by].id = i
<1>0. /\ UNCHANGED <<nextId, cancel, frozen, driver>> /\ wire # <<>> /\ wire' = Tail(wire)
      /\ gate' = IF taken THEN [gate EXCEPT !["browser"] = [state |-> "takeover_requested", id |-> i]] ELSE gate
      /\ epoch' = IF taken THEN epoch + 1 ELSE epoch
      /\ op' = IF waits THEN [op EXCEPT ![q.by].res = (IF taken THEN "ok" ELSE "refused"), ![q.by].seen = epoch'] ELSE op
      /\ call' = IF q.by = "model" /\ call.pc = "asked" /\ call.id = i
                   THEN [call EXCEPT !.res = (IF taken THEN "ok" ELSE "refused"), !.seen = epoch'] ELSE call
      /\ IF q.by # "model" /\ ~waits /\ taken /\ row[i].state = "takeover_requested"
           THEN row' = [row EXCEPT ![i].epoch = epoch'] /\ needsSync' = needsSync \ {i}
           ELSE UNCHANGED <<row, needsSync>>
  BY DEF ServeRequest
<1> HIDE DEF taken
<1>1. /\ MintedInv /\ SpentInv /\ HoldInv /\ NoId \notin Id /\ nextId \in Nat
      /\ \A g \in Handler : KindOk(g) /\ WorkOk(g) /\ UntakenOk(g) /\ GatesOk(g)
  BY RowFacts DEF RowsIInv
<1>2. /\ 1 \in DOMAIN wire /\ q = wire[1] /\ i \in Id /\ q.by \in Web \cup {"model"}
      /\ Len(wire) \in Nat /\ DOMAIN wire = 1 .. Len(wire)
      /\ DOMAIN wire' = 1 .. Len(wire) - 1 /\ \A k \in DOMAIN wire' : k + 1 \in DOMAIN wire /\ wire'[k] = wire[k + 1]
  <2> DEFINE A == [id : Id, by : Web \cup {"model"}]
  <2>1. wire \in Seq(A) /\ wire # <<>>
    BY <1>0 DEF TypeOK
  <2>2. /\ 1 \in DOMAIN wire /\ q = wire[1] /\ q \in A /\ Len(wire) \in Nat /\ DOMAIN wire = 1 .. Len(wire)
        /\ DOMAIN Tail(wire) = 1 .. Len(wire) - 1
        /\ \A k \in DOMAIN Tail(wire) : k + 1 \in DOMAIN wire /\ Tail(wire)[k] = wire[k + 1]
    <3> HIDE DEF A
    <3> QED
      BY <2>1
  <2> QED
    BY <1>0, <2>2
<1>3. OnWire(i) /\ s.id # i /\ i < nextId /\ ~Spent(i) /\ row[i].state \notin {"human", "paused"}
  <2>1. OnWire(i)
    BY <1>2 DEF OnWire
  <2>2. i \in Nat
    BY <1>2, RowFacts
  <2> QED
    BY <1>1, <1>2, <2>1, <2>2 DEF MintedInv, SpentInv
<1>4. \A j \in Id : OnWire(j)' => OnWire(j) /\ j # i
  <2> SUFFICES ASSUME NEW j \in Id, NEW k \in DOMAIN wire', wire'[k].id = j
               PROVE  OnWire(j) /\ j # i
    BY DEF OnWire
  <2>1. k + 1 \in DOMAIN wire /\ wire[k + 1].id = j /\ k + 1 # 1
    BY <1>2
  <2> QED
    BY <1>1, <1>2, <2>1 DEF OnWire, MintedInv
<1>5. taken => /\ s.state \in {"agent", "paused"} /\ ~Driven
               /\ gate'["browser"].state = "takeover_requested" /\ gate'["browser"].id = i
               /\ gate'["shell"] = gate["shell"]
  <2>1. taken => s.state \in {"agent", "paused"}
    BY DEF taken, ModelMayAsk, Legal, SourceOf
  <2>2. taken => /\ gate'["browser"].state = "takeover_requested" /\ gate'["browser"].id = i
                 /\ gate'["shell"] = gate["shell"]
    BY <1>0 DEF TypeOK, Role
  <2> QED
    BY <2>1, <2>2 DEF Driven
<1>6. ~taken => UNCHANGED <<gate, epoch, row, needsSync>>
  BY <1>0
<1>7. /\ \A j \in Id : /\ row'[j].born = row[j].born /\ row'[j].lease = row[j].lease /\ row'[j].state = row[j].state
                       /\ row'[j].owner = row[j].owner /\ (row[j].state = "human" => row'[j].epoch = row[j].epoch)
      /\ needsSync' \subseteq needsSync
  <2>1. row \in [Id -> Row]
    BY DEF TypeOK
  <2>2. CASE UNCHANGED <<row, needsSync>>
    BY <2>2
  <2>3. CASE row' = [row EXCEPT ![i].epoch = epoch'] /\ needsSync' = needsSync \ {i}
    BY <1>2, <1>3, <2>1, <2>3 DEF Row
  <2> QED
    BY <1>0, <2>2, <2>3
<1>8. ASSUME NEW g \in Handler
      PROVE  /\ op'[g].pc = op[g].pc /\ op'[g].call = op[g].call /\ op'[g].kind = op[g].kind /\ op'[g].id = op[g].id
             /\ op'[g].dev = op[g].dev /\ op'[g].prior = op[g].prior
             /\ op[g].pc # "asked" => op'[g].seen = op[g].seen
             /\ op'[g].res = IF waits /\ q.by = g THEN (IF taken THEN "ok" ELSE "refused") ELSE op[g].res
  <2>1. op \in [Handler -> Op] /\ op[g] \in Op
    BY DEF TypeOK
  <2> QED
    BY <1>0, <2>1 DEF Op
<1>9. /\ call'.pc = call.pc /\ call'.id = call.id
  BY <1>0 DEF TypeOK, Call
<1>10. MintedInv'
  <2>1. \A j \in Id : Known(j)' = Known(j) /\ Spent(j)' = Spent(j)
    BY <1>7 DEF Known, Spent
  <2>2. \A j \in Id : j >= nextId => ~Known(j) /\ ~OnWire(j)' /\ gate'["browser"].id # j
    <3>1. \A j \in Id : j >= nextId => j # i
      BY <1>1, <1>2, <1>3 DEF Id
    <3> QED
      BY <1>1, <1>4, <1>5, <1>6, <3>1 DEF MintedInv
  <2>3. \A j \in Id : ~Known(j) => row'[j].state = "terminated" /\ ~Spent(j) /\ j \notin needsSync'
    BY <1>1, <1>7 DEF MintedInv
  <2>4. call'.pc = "asked" => call'.id < nextId /\ ~(row'[call'.id].born > 0)
    <3>1. call.pc = "asked" => call.id \in Id
      BY DEF TypeOK, Call
    <3> QED
      BY <1>1, <1>7, <1>9, <3>1 DEF MintedInv, Known
  <2>5. \A k, l \in DOMAIN wire' : wire'[k].id = wire'[l].id => k = l
    <3> SUFFICES ASSUME NEW k \in DOMAIN wire', NEW l \in DOMAIN wire', wire'[k].id = wire'[l].id
                 PROVE  k = l
      OBVIOUS
    <3>1. k + 1 \in DOMAIN wire /\ l + 1 \in DOMAIN wire /\ wire[k + 1].id = wire[l + 1].id
      BY <1>2
    <3>2. k + 1 = l + 1
      BY <1>1, <3>1 DEF MintedInv
    <3> QED
      BY <1>2, <3>2
  <2>6. \A j \in Id : OnWire(j)' => gate'["browser"].id # j
    BY <1>1, <1>4, <1>5, <1>6 DEF MintedInv
  <2>7. gate'["browser"].state = "agent" <=> gate'["browser"].id = NoId
    BY <1>1, <1>2, <1>5, <1>6 DEF MintedInv
  <2> QED
    BY <1>0, <2>1, <2>2, <2>3, <2>4, <2>5, <2>6, <2>7 DEF MintedInv, Known
<1>11. SpentInv'
  <2>1. \A j \in Id : Spent(j)' = Spent(j)
    BY <1>7 DEF Spent
  <2>2. \A j \in Id : Spent(j) => ~At("browser", "takeover_requested", j)'
    BY <1>1, <1>3, <1>5, <1>6 DEF SpentInv, At
  <2> QED
    BY <1>1, <1>4, <1>7, <2>1, <2>2 DEF SpentInv
<1>12. ASSUME NEW g \in Handler
       PROVE  KindOk(g)' /\ WorkOk(g)' /\ GatesOk(g)'
  <2>1. KindOk(g)'
    BY <1>1, <1>8 DEF KindOk
  <2>2. WorkOk(g)'
    <3>1. op[g].id \in Id => row'[op[g].id].born = row[op[g].id].born /\ row'[op[g].id].lease = row[op[g].id].lease
      BY <1>7
    <3>2. op[g].call = "ttl" \/ Acquires(g, {"ask", "shell", "commit"}) => op[g].id \in Id
      <4>1. op[g].call = "ttl" \/ Acquires(g, {"ask", "shell", "commit"}) => op[g].pc \notin {"idle", "entry", "close"}
        BY <1>1, BusySlot DEF KindOk, Acquires
      <4> QED
        BY <4>1, SlotType
    <3>3. op[g].pc = "asked" /\ op[g].prior # NoId =>
             row'[op[g].prior].lease # "none" /\ row'[op[g].prior].state # "human"
      <4>1. op[g].prior # NoId => op[g].prior \in Id
        BY SlotType
      <4> QED
        BY <1>1, <1>7, <4>1 DEF WorkOk, Spent
    <3>4. op[g].pc = "asked" /\ OnWire(op[g].id)' => op'[g].res = "none"
      <4> SUFFICES ASSUME op[g].pc = "asked", OnWire(op[g].id)'
                   PROVE  op'[g].res = "none"
        OBVIOUS
      <4>1. op'[g].id = op[g].id /\ op[g].id \in Id
        BY <1>8, SlotType
      <4>2. OnWire(op[g].id) /\ op[g].id # i
        BY <1>4, <4>1 DEF OnWire
      <4> QED
        BY <1>1, <1>8, <4>2 DEF WorkOk
    <3> QED
      BY <1>1, <1>8, <3>1, <3>2, <3>3, <3>4 DEF WorkOk, Known, Spent, Acquires
  <2>3. GatesOk(g)'
    <3>1. CASE taken
      <4>1. /\ \A j : ~At("browser", "takeover_requested", j) /\ ~At("browser", "human", j)
                     /\ ~At("browser", "resume_validating", j)
            /\ \A st, j : At("shell", st, j)' <=> At("shell", st, j)
            /\ gate'["shell"] = gate["shell"] /\ ~Driven'
        BY <1>5, <3>1 DEF At, Driven
      <4>2. GatesOk(g)
        BY <1>1
      <4> QED
        BY <1>8, <4>1, <4>2 DEF GatesOk, Acquires
    <3>2. CASE ~taken
      <4>1. /\ \A r, st, j : At(r, st, j)' <=> At(r, st, j)
            /\ gate' = gate /\ epoch' = epoch /\ driver' = driver /\ (Driven' <=> Driven)
        BY <1>0, <1>6, <3>2 DEF At, Driven
      <4>2. GatesOk(g)
        BY <1>1
      <4>3. op[g].pc # "asked" => op'[g].seen = op[g].seen
        BY <1>8
      <4> QED
        BY <1>8, <4>1, <4>2, <4>3 DEF GatesOk, Acquires
    <3> QED
      BY <3>1, <3>2
  <2> QED
    BY <2>1, <2>2, <2>3
<1>13. ASSUME NEW g \in Handler
       PROVE  UntakenOk(g)'
  <2> SUFFICES ASSUME Untaken(g)'
               PROVE  UntakenOk(g)'
    BY DEF UntakenOk
  <2>1. op[g].pc = "asked" /\ op[g].id \in Id
    BY <1>8, SlotType DEF Untaken
  <2>2. CASE op[g].id = i
    <3>1. CASE Untaken(g)
      <4>1. q.by = g
        BY <1>1, <1>2, <2>2, <3>1 DEF UntakenOk
      <4>2. g # "model"
        BY TakeoverAssumption
      <4>3. waits
        BY <2>1, <2>2, <4>1, <4>2
      <4>4. ~taken
        BY <1>8, <4>1, <4>3 DEF Untaken
      <4>5. \A k \in DOMAIN wire' : wire'[k].id # i
        BY <1>2, <1>4 DEF OnWire
      <4> QED
        BY <1>1, <1>6, <1>8, <2>2, <3>1, <4>4, <4>5 DEF UntakenOk, Untaken, Spent, Acquires
    <3>2. CASE ~Untaken(g)
      <4>1. op[g].res = "ok"
        BY <2>1, <3>2 DEF Untaken
      <4> QED
        BY <1>1, <1>3, <2>1, <2>2, <4>1 DEF WorkOk
    <3> QED
      BY <3>1, <3>2
  <2>3. CASE op[g].id # i
    <3>1. Untaken(g) /\ op'[g].res = op[g].res
      BY <1>8, <2>1, <2>3 DEF Untaken
    <3>2. gate'["browser"].id # op[g].id
      BY <1>1, <1>5, <1>6, <2>3, <3>1 DEF UntakenOk
    <3>3. \A k \in DOMAIN wire' : wire'[k].id = op[g].id => wire'[k].by = g /\ op[g].res = "none"
      BY <1>1, <1>2, <3>1 DEF UntakenOk
    <3>4. ~(row'[op[g].id].lease # "none") /\ op[g].id \notin needsSync'
      BY <1>1, <1>7, <2>1, <3>1 DEF UntakenOk, Spent
    <3>5. /\ \A f \in Handler : op'[f].pc = "asked" /\ op'[f].id = op[g].id => f = g
          /\ \A f \in Handler : Acquires(f, {"ask"})' => op'[f].id # op[g].id
      BY <1>1, <1>8, <3>1 DEF UntakenOk, Acquires
    <3> QED
      BY <1>8, <3>1, <3>2, <3>3, <3>4, <3>5 DEF UntakenOk, Spent
  <2> QED
    BY <2>2, <2>3
<1>14. HoldInv'
  <2>1. ASSUME NEW g \in Handler
        PROVE  /\ Lets(g)' = Lets(g) /\ Checks(g)' = Checks(g) /\ Reverts(g)' = Reverts(g)
               /\ Ends(g)' = Ends(g) /\ op'[g].id = op[g].id /\ Thaws(g)' = Thaws(g)
    BY <1>8 DEF Lets, Checks, Reverts, Ends, Thaws, Acquires
  <2>2. CASE taken
    <3>1. \A j \in Id : row'[j].state = "human" => \E g \in Handler : op'[g].id = j /\ Ends(g)'
      BY <1>1, <1>5, <1>7, <2>1, <2>2 DEF HoldInv
    <3> QED
      BY <1>5, <2>2, <3>1 DEF HoldInv, Driven
  <2>3. CASE ~taken
    <3>1. gate' = gate /\ epoch' = epoch /\ row' = row /\ frozen' = frozen /\ driver' = driver
      BY <1>0, <1>6, <2>3
    <3>2. HoldInv
      BY <1>1
    <3> QED
      BY <2>1, <3>1, <3>2 DEF HoldInv, Driven, Mine, At
  <2> QED
    BY <2>2, <2>3
<1>15. Calm'
  <2>1. op'[Stop].pc = op[Stop].pc
    BY <1>8 DEF Handler
  <2> QED
    BY <1>0, <2>1 DEF RowsIInv, Calm
<1> QED
  BY <1>10, <1>11, <1>12, <1>13, <1>14, <1>15 DEF RowsIInv

\* Every step keeps the invariant.
LEMMA RowsNext ==
  ASSUME TypeOK, SlotInv, RowsIInv, [Next]_vars, Enabled \subseteq {"timeout"}
  PROVE  RowsIInv'
<1>0. "nativeFails" \notin Enabled /\ "cancel" \notin Enabled /\ "lostBrowser" \notin Enabled /\ "lostShell" \notin Enabled
  OBVIOUS
<1>1. ASSUME NEW h \in Handler, HandlerStep(h) PROVE RowsIInv'
  <2>1. CASE Observe(h) \/ Recheck(h) \/ Blank(h)
    BY <2>1, EarlyRows
  <2>2. CASE Freeze(h) \/ Status(h) \/ Sync(h) \/ Browser(h) \/ Shell(h) \/ Inspect(h)
    BY <1>0, <2>2, FreezeRows, StatusRows, SyncRows, BrowserRows, ShellRows, InspectRows
  <2>3. CASE StillSensitive(h) \/ Thaw(h) \/ Ask(h) \/ Undo(h) \/ Refused(h) \/ Commit(h)
    BY <1>0, <2>3, StillSensitiveRows, ThawRows, AskRows, UndoRows, CommitRows
  <2> QED
    BY <1>1, <2>1, <2>2, <2>3 DEF HandlerStep
<1>2. ASSUME NEW h \in Web, Operator(h) PROVE RowsIInv'
  BY <1>2, StartRows, RequestRows, AnsweredRows DEF Operator
<1>3. ASSUME NEW i \in Id, Fire(i) \/ Lapse(i) PROVE RowsIInv'
  BY <1>3, FireRows, LapseRows
<1>4. CASE Model
  <2>1. CASE \E tool \in Role \cup {"ask"} : ModelCall(tool)
    BY <2>1, QuietRows DEF ModelCall, store, computer, NoCall
  <2>2. CASE ModelServe
    <3>1. call'.pc # "asked"
      BY <2>2 DEF ModelServe, NoCall, TypeOK, Call
    <3> QED
      BY <2>2, <3>1, QuietRows DEF ModelServe, store
  <2>3. CASE ModelTimeout
    BY <2>3, QuietRows DEF ModelTimeout, store, computer, NoCall
  <2>4. CASE \E r \in Role : ActDone(r)
    BY <2>4, QuietRows DEF ActDone, store, NoCall
  <2> QED
    BY <1>4, <2>1, <2>2, <2>3, <2>4, ModelSendRows, ModelAskedRows DEF Model
<1>5. CASE Live
  <2>1. UNCHANGED <<row, nextId, needsSync, op, cancel, gate, epoch, wire, frozen, driver, call>>
    BY <1>5 DEF Live, SendInput, RelayInput, DeliverInput, store, computer
  <2> QED
    BY <2>1, QuietRows
<1>6. CASE Cancellation
  BY <1>0, <1>6, NoCancellation DEF Cancellation, CancelTask, CancelGate, CancelBlank, CancelWait,
       CancelThaw,
     CancelTeardown, CancelClose, RowsIInv, Calm
<1>7. ASSUME NEW r \in Role, LoseSession(r) PROVE FALSE
  BY <1>0, <1>7 DEF LoseSession
<1>8. CASE UNCHANGED vars
  <2>1. UNCHANGED <<row, nextId, needsSync, op, cancel, gate, epoch, wire, frozen, driver, call>>
    BY <1>8 DEF vars, store, daemon, computer
  <2> QED
    BY <2>1, QuietRows
<1> QED
  BY <1>1, <1>2, <1>3, <1>4, <1>5, <1>6, <1>7, <1>8, ServeRows DEF Next

\* It holds at first.
LEMMA RowsInit == Init => RowsIInv
<1> SUFFICES ASSUME Init PROVE RowsIInv
  OBVIOUS
<1>1. /\ \A h \in Handler : op[h] = NoOp
      /\ \A i \in Id : row[i] = NoRow
      /\ \A r \in Role : gate[r] = FreshSession
      /\ wire = <<>> /\ nextId = 1 /\ needsSync = {} /\ call = NoCall /\ cancel.pc = "none" /\ frozen = FALSE
      /\ NoId \notin Id
  BY TakeoverAssumption DEF Init, Id, NoId
<1>2. Calm
  BY <1>1 DEF Calm, Handler, NoOp
<1>3. MintedInv
  BY <1>1 DEF MintedInv, Known, OnWire, Spent, NoRow, NoCall, FreshSession, Role, NoId
<1>4. SpentInv
  BY <1>1 DEF SpentInv, Spent, NoRow
<1>5. HoldInv
  BY <1>1 DEF HoldInv, Driven, NoRow, FreshSession, Role
<1>6. ASSUME NEW h \in Handler PROVE KindOk(h) /\ WorkOk(h) /\ UntakenOk(h) /\ GatesOk(h)
  BY <1>1 DEF KindOk, WorkOk, UntakenOk, Untaken, GatesOk, Acquires, NoOp
<1> QED
  BY <1>2, <1>3, <1>4, <1>5, <1>6 DEF RowsIInv

\* And so always, when callers may give up but nothing is cancelled, lost or failing.
LEMMA RowsHold ==
  ASSUME Enabled \subseteq {"timeout"}
  PROVE  Spec => []RowsIInv
<1>1. TypeOK /\ SlotInv /\ RowsIInv /\ [Next]_vars => RowsIInv'
  BY RowsNext
<1> QED
  BY <1>1, RowsInit, TypeCorrect, SlotsHold, PTL DEF Spec

\* Nobody is at work when the computer is at rest, and so nothing lags behind.
LEMMA AtRestIdle ==
  ASSUME RowsIInv, AtRest
  PROVE  \A h \in Handler : ~Lets(h) /\ ~Checks(h) /\ ~Reverts(h) /\ ~Ends(h) /\ ~Thaws(h)
BY DEF AtRest, Lets, Checks, Reverts, Ends, Thaws, Acquires

\* When everything has answered the rows of store.ts and the gates of the computer-server
\* agree on who drives, with which device and at which epoch, whatever requests, grants,
\* handbacks, expiries and late answers have raced (server.ts, exec-client.ts).
THEOREM RowsMatchGateCorrect ==
  ASSUME Enabled \subseteq {"timeout"}
  PROVE  Spec => []RowsMatchGate
<1>1. TypeOK /\ RowsIInv => RowsMatchGate
  <2> SUFFICES ASSUME TypeOK, RowsIInv, AtRest
               PROVE  /\ gate["browser"].state = "human" =>
                           \E i \in Id : gate["browser"].id = i /\ row[i].state = "human"
                      /\ \A i \in Id : row[i].state = "human" =>
                           /\ gate["browser"] = [state |-> "human", id |-> i]
                           /\ gate["shell"] = gate["browser"]
                           /\ row[i].owner = driver /\ row[i].epoch = epoch
    BY DEF RowsMatchGate, GateHasRow, RowHasGate
  <2>1. \A h \in Handler : ~Lets(h) /\ ~Checks(h) /\ ~Reverts(h) /\ ~Ends(h)
    BY AtRestIdle
  <2>2. HoldInv /\ MintedInv
    BY DEF RowsIInv
  <2>3. gate["browser"] \in Session /\ gate["shell"] \in Session
    BY DEF TypeOK, Role
  <2>4. gate["browser"].state = "human" =>
          \E i \in Id : gate["browser"].id = i /\ row[i].state = "human"
    <3> SUFFICES ASSUME gate["browser"].state = "human"
                 PROVE  gate["browser"].id \in Id /\ row[gate["browser"].id].state = "human"
      OBVIOUS
    <3>1. gate["browser"].id \in Id
      BY <2>2, <2>3 DEF MintedInv, Session
    <3>2. Mine(gate["browser"].id)
      BY <2>1, <2>2 DEF HoldInv, Driven
    <3> QED
      BY <3>1, <3>2 DEF Mine
  <2>5. ASSUME NEW i \in Id, row[i].state = "human"
        PROVE  /\ gate["browser"] = [state |-> "human", id |-> i] /\ gate["shell"] = gate["browser"]
               /\ row[i].owner = driver /\ row[i].epoch = epoch
    <3>1. Driven /\ gate["browser"].id = i /\ Mine(i)
      BY <2>1, <2>2, <2>5 DEF HoldInv
    <3>2. gate["browser"].state = "human"
      BY <2>1, <2>2, <3>1 DEF HoldInv, Driven
    <3>3. gate["shell"].state = "human" /\ gate["shell"].id = i
      BY <2>1, <2>2, <3>1, <3>2 DEF HoldInv, At
    <3> QED
      BY <2>3, <3>1, <3>2, <3>3 DEF Mine, Session
  <2> QED
    BY <2>4, <2>5
<1> QED
  BY <1>1, RowsHold, TypeCorrect, PTL

\* A computer that is back with the model and at rest is not frozen: a grant that is refused,
\* a handback and a decline each reach returnNativeControl or thawIfAgent (server.ts).
THEOREM ThawedAtRestCorrect ==
  ASSUME Enabled \subseteq {"timeout"}
  PROVE  Spec => []ThawedAtRest
<1>1. RowsIInv => ThawedAtRest
  <2> SUFFICES ASSUME RowsIInv, AtRest, gate["browser"].state = "agent"
               PROVE  ~frozen
    BY DEF ThawedAtRest
  <2>1. \A h \in Handler : ~Thaws(h)
    BY AtRestIdle
  <2> QED
    BY <2>1 DEF RowsIInv, HoldInv
<1> QED
  BY <1>1, RowsHold, PTL

-----------------------------------------------------------------------------
(* What closed stays closed.                                               *)

Closed(i) == row[i].state \in {"agent", "terminated"}
\* What a handler is about to do to its row: open one that is open or unheard of, pause a
\* person's, close one that is asked for no more.
EndOk(h) ==
  /\ Acquires(h, {"ask", "shell", "commit"}) => ~Closed(op[h].id) \/ op[h].id \in needsSync
  /\ op[h].call = "ttl" /\ op[h].pc \in {"shell", "commit"} => row[op[h].id].state = "human"
  /\ op[h].call \in {"decline", "validated"} /\ op[h].pc \in {"shell", "thaw", "commit"} =>
       ~OnWire(op[h].id) /\ ~At("browser", "takeover_requested", op[h].id)
ClosedInv ==
  /\ \A i \in Id : Known(i) /\ Closed(i) =>
       ~OnWire(i) /\ (At("browser", "takeover_requested", i) => i \in needsSync)
  /\ \A h \in Handler : EndOk(h)
\* A step of ClosedRowsStayClosed
StaysClosed == \A i \in Id : Known(i) /\ i \notin needsSync /\ Closed(i) => Closed(i)'

\* A step that leaves the rows, the browser and its queue alone.
LEMMA ClosedQuiet ==
  ASSUME ClosedInv, UNCHANGED <<row, needsSync, wire>>, gate'["browser"] = gate["browser"],
         \A g \in Handler : op'[g] = op[g] \/ EndOk(g)'
  PROVE  ClosedInv' /\ StaysClosed
<1>1. ASSUME NEW g \in Handler PROVE EndOk(g)'
  <2>1. CASE op'[g] = op[g]
    BY <2>1 DEF ClosedInv, EndOk, Acquires, Closed, OnWire, At
  <2> QED
    BY <1>1, <2>1
<1>2. StaysClosed
  BY DEF StaysClosed, Closed
<1> QED
  BY <1>1, <1>2 DEF ClosedInv, Known, Closed, OnWire, At

\* Most places of a handler are before or after what the invariant is about.
LEMMA AwayOk ==
  ASSUME NEW h, op'[h].pc \notin {"ask", "shell", "thaw", "commit"}
  PROVE  EndOk(h)'
BY DEF EndOk, Acquires

\* Only the handler that has the computer is about to touch its row.
LEMMA WaitsOk ==
  ASSUME SlotInv, NEW h \in Handler, Holds(h), NEW g \in Handler \ {h}, op'[g] = op[g]
  PROVE  EndOk(g)'
<1>1. ~InCharge(g)
  BY OneInCharge
<1>2. op'[g].pc \notin {"ask", "shell", "thaw", "commit"}
  BY <1>1 DEF InCharge
<1> QED
  BY <1>2, AwayOk

\* One slot changes and nothing else that the invariant reads.
LEMMA ClosedSlot ==
  ASSUME ClosedInv, NEW h \in Handler, Others(h), EndOk(h)',
         UNCHANGED <<row, needsSync, wire>>, gate'["browser"] = gate["browser"]
  PROVE  ClosedInv' /\ StaysClosed
BY ClosedQuiet DEF Others

\* A handler begins, or answers.
LEMMA ClosedBegin ==
  ASSUME TypeOK, ClosedInv, NEW h \in Handler, UNCHANGED <<row, needsSync, wire>>, gate'["browser"] = gate["browser"],
         \/ \E kind, pc, e, i, d : Begin(h, kind, pc, e, i, d) /\ pc \notin {"ask", "shell", "thaw", "commit"}
         \/ \E outcome : Answer(h, outcome) /\ op[h].kind # "stop"
         \/ op' = [op EXCEPT ![h] = NoOp]
         \/ \E pc : Goto(h, pc) /\ pc \notin {"ask", "shell", "thaw", "commit"}
  PROVE  ClosedInv' /\ StaysClosed
<1>1. Others(h) /\ op'[h].pc \notin {"ask", "shell", "thaw", "commit"}
  BY SlotFields DEF Left
<1> QED
  BY <1>1, AwayOk, ClosedSlot

\* The steps of a handler up to the computer's answer.
LEMMA ClosedEarly ==
  ASSUME TypeOK, SlotInv, RowsIInv, ClosedInv, NEW h \in Handler,
         Observe(h) \/ Recheck(h) \/ Blank(h) \/ Freeze(h) \/ Status(h) \/ Sync(h) \/ Inspect(h)
  PROVE  ClosedInv' /\ StaysClosed
<1>1. UNCHANGED <<row, needsSync, wire>> /\ gate'["browser"] = gate["browser"]
      /\ op[h].pc \in {"observe", "recheck", "blank", "freeze", "status", "sync", "inspect"}
  BY DEF Observe, Recheck, Blank, Freeze, Status, Sync, Inspect, store, computer, TypeOK, Role
<1>2. op[h].kind # "stop" /\ (op[h].kind = "acquire" <=> op[h].call = "grant") /\ KindOk(h)
  BY <1>1, BusySlot DEF RowsIInv
<1>3. CASE Observe(h) \/ Recheck(h) \/ Blank(h) \/ Freeze(h) \/ Sync(h)
  BY <1>1, <1>2, <1>3, ClosedBegin DEF Observe, Recheck, Blank, Freeze, Sync
<1>4. CASE Inspect(h)
  <2>1. Others(h) /\ op'[h].pc = "browser"
    <3>1. op \in [Handler -> Op] /\ op[h] \in Op /\ op' = [op EXCEPT ![h].pc = "browser", ![h].call = Verdict]
      BY <1>4 DEF TypeOK, Inspect
    <3> QED
      BY <3>1 DEF Others, Op
  <2> QED
    BY <1>1, <2>1, AwayOk, ClosedSlot
<1>5. CASE Status(h)
  <2>1. PICK pc : Goto(h, pc) /\ pc \in {AfterRefusal(h), "sync", "browser"}
    BY <1>5 DEF Status
  <2>2. /\ Others(h) /\ op'[h].pc = pc /\ op'[h].call = op[h].call /\ op'[h].id = op[h].id
    BY <2>1, SlotFields
  <2>3. pc = "ask" => op[h].call = "grant" /\ op[h].id \in needsSync
    BY <1>2, <2>1 DEF AfterRefusal
  <2>4. pc \in {"ask", "undo", "refused", "sync", "browser"}
    BY <2>1 DEF AfterRefusal
  <2>5. EndOk(h)'
    BY <1>1, <2>2, <2>3, <2>4 DEF EndOk, Acquires
  <2> QED
    BY <1>1, <2>2, <2>5, ClosedSlot
<1> QED
  BY <1>3, <1>4, <1>5

\* The steps of a handler after it.
LEMMA ClosedLate ==
  ASSUME TypeOK, SlotInv, RowsIInv, ClosedInv, NEW h \in Handler,
         StillSensitive(h) \/ Thaw(h) \/ Undo(h) \/ Refused(h) \/ Shell(h)
  PROVE  ClosedInv' /\ StaysClosed
<1>1. UNCHANGED <<row, needsSync, wire>> /\ gate'["browser"] = gate["browser"] /\ Holds(h)
      /\ op[h].pc \in {"sensitive", "thaw", "undo", "refused", "shell"}
  BY DEF StillSensitive, Thaw, Undo, Refused, Shell, store, computer, TypeOK, Role
<1>2. op[h].kind # "stop" /\ op[h].id \in Id /\ (op[h].kind = "acquire" <=> op[h].call = "grant")
      /\ KindOk(h) /\ EndOk(h) /\ NoId \notin Id
      /\ op[h].call \in {"grant", "decline", "release", "validated", "still_sensitive", "ttl"}
  BY <1>1, BusySlot, RowFacts DEF RowsIInv, ClosedInv
<1>3. CASE StillSensitive(h)
  <2>1. CASE op' = [op EXCEPT ![h].pc = "blank", ![h].call = "release", ![h].res = "again"]
    <3>1. op \in [Handler -> Op] /\ op[h] \in Op
      BY DEF TypeOK
    <3>2. Others(h) /\ op'[h].pc = "blank"
      BY <2>1, <3>1 DEF Others, Op
    <3> QED
      BY <1>1, <3>2, AwayOk, ClosedSlot
  <2> QED
    BY <1>1, <1>2, <1>3, <2>1, ClosedBegin DEF StillSensitive
<1>4. CASE Thaw(h)
  <2>1. CASE Goto(h, "commit")
    <3>1. Others(h) /\ op'[h].pc = "commit" /\ op'[h].call = op[h].call /\ op'[h].id = op[h].id
      BY <2>1, SlotFields
    <3>2. op[h].call \in {"decline", "validated"} /\ op[h].pc = "thaw"
      BY <1>2, <1>4 DEF Thaw, KindOk
    <3>3. EndOk(h)'
      BY <1>1, <1>2, <3>1, <3>2 DEF EndOk, Acquires, OnWire, At
    <3> QED
      BY <1>1, <3>1, <3>3, ClosedSlot
  <2> QED
    BY <1>1, <1>2, <1>4, <2>1, ClosedBegin DEF Thaw
<1>5. CASE Undo(h)
  BY <1>1, <1>2, <1>5, ClosedBegin DEF Undo
<1>6. CASE Refused(h)
  <2>1. gate["browser"] # [state |-> "agent", id |-> op[h].id]
    BY <1>2 DEF RowsIInv, MintedInv
  <2>2. Answer(h, "refused")
    BY <1>6, <2>1 DEF Refused
  <2> QED
    BY <1>1, <1>2, <2>2, ClosedBegin
<1>7. CASE Shell(h)
  <2>1. PICK pc : Goto(h, pc) /\ pc \in {AfterRefusal(h), AfterAcceptance(h)}
    BY <1>7 DEF Shell
  <2>2. /\ Others(h) /\ op'[h].pc = pc /\ op'[h].call = op[h].call /\ op'[h].id = op[h].id
    BY <2>1, SlotFields
  <2>3. pc = "ask" => op[h].call = "grant"
    BY <1>2, <2>1 DEF AfterRefusal, AfterAcceptance
  <2>4. op[h].pc = "shell"
    BY <1>7 DEF Shell
  <2>5. EndOk(h)'
    <3>1. Acquires(h, {"ask", "shell", "commit"})' => Acquires(h, {"shell"})
      BY <2>2, <2>4 DEF Acquires
    <3>2. op[h].call = "release" => pc \notin {"ask", "shell", "thaw", "commit"}
      BY <1>2, <2>1 DEF AfterRefusal, AfterAcceptance
    <3> QED
      BY <1>1, <1>2, <2>2, <2>3, <2>4, <3>1, <3>2 DEF EndOk, Acquires, OnWire, At, Closed
  <2> QED
    BY <1>1, <2>2, <2>5, ClosedSlot
<1> QED
  BY <1>3, <1>4, <1>5, <1>6, <1>7

\* A handler moves the browser's gate.
LEMMA ClosedGate ==
  ASSUME TypeOK, SlotInv, ClosedInv, NEW h \in Handler, Holds(h), Others(h), UNCHANGED <<row, needsSync, wire>>,
         EndOk(h)',
         \A i \in Id : At("browser", "takeover_requested", i)' /\ Closed(i) /\ Known(i) =>
           At("browser", "takeover_requested", i) \/ i \in needsSync
  PROVE  ClosedInv' /\ StaysClosed
<1>1. ASSUME NEW g \in Handler PROVE EndOk(g)'
  BY WaitsOk DEF Others
<1>2. StaysClosed
  BY DEF StaysClosed, Closed
<1>3. \A i \in Id : (Known(i)' <=> Known(i)) /\ (Closed(i)' <=> Closed(i)) /\ (OnWire(i)' <=> OnWire(i))
  BY DEF Known, Closed, OnWire
<1>4. ASSUME NEW i \in Id, Known(i), Closed(i)
      PROVE  ~OnWire(i) /\ (At("browser", "takeover_requested", i)' => i \in needsSync)
  BY <1>4 DEF ClosedInv
<1> QED
  BY <1>1, <1>2, <1>3, <1>4 DEF ClosedInv

LEMMA ClosedBrowser ==
  ASSUME TypeOK, SlotInv, RowsIInv, ClosedInv, NEW h \in Handler, Browser(h)
  PROVE  ClosedInv' /\ StaysClosed
<1> DEFINE s == gate["browser"]  e == op[h].call  i == op[h].id
<1>1. UNCHANGED <<row, needsSync, wire>> /\ op[h].pc = "browser" /\ Holds(h) /\ wire = <<>>
  BY DEF Browser, store, Free
<1>2. /\ i \in Id /\ i # NoId /\ Known(i) /\ KindOk(h) /\ WorkOk(h) /\ GatesOk(h) /\ HoldInv
      /\ e \in {"grant", "decline", "release", "validated", "still_sensitive", "ttl"}
      /\ op[h].kind = "acquire" <=> e = "grant"
      /\ \A g \in Handler : Ends(g) => g = h
  BY <1>1, HolderFacts
<1>3. CASE ~Accepts(s, e, i)
  <2>1. Goto(h, AfterRefusal(h)) /\ UNCHANGED gate
    BY <1>3 DEF Browser
  <2>2. /\ Others(h) /\ op'[h].pc = AfterRefusal(h) /\ op'[h].call = e /\ op'[h].id = i
    BY <2>1, SlotFields
  <2>3. AfterRefusal(h) \in {"refused", "undo"} \/ (AfterRefusal(h) = "ask" /\ i \in needsSync /\ e = "grant")
    BY <1>2 DEF AfterRefusal
  <2>4. EndOk(h)'
    BY <1>1, <2>2, <2>3 DEF EndOk, Acquires
  <2> QED
    BY <1>1, <2>1, <2>2, <2>4, ClosedSlot
<1>4. CASE Accepts(s, e, i)
  <2>1. gate'["browser"] = Answered(s, e)
    BY <1>4 DEF Browser, TypeOK, Role
  <2>2. /\ Others(h) /\ op'[h].pc = "shell" /\ op'[h].call = e /\ op'[h].id = i
    <3>1. op \in [Handler -> Op] /\ op[h] \in Op /\ op' = [op EXCEPT ![h].pc = "shell", ![h].seen = epoch]
      BY <1>4 DEF TypeOK, Browser
    <3> QED
      BY <3>1 DEF Others, Op
  <2>3. gate'["browser"].state # "takeover_requested" \/ (e # "decline" /\ gate'["browser"] = s)
    BY <1>2, <2>1, SessionAfter DEF FreshSession
  <2>4. e = "grant" => ~Closed(i) \/ i \in needsSync
    <3>1. e = "grant" => At("browser", "takeover_requested", i)
      BY <1>1, <1>2 DEF GatesOk, Acquires
    <3> QED
      BY <1>2, <3>1 DEF ClosedInv
  <2>5. e = "ttl" => row[i].state = "human"
    <3> SUFFICES ASSUME e = "ttl" PROVE row[i].state = "human"
      OBVIOUS
    <3>1. s.state \in {"takeover_requested", "human", "resume_validating"} /\ s.id = i
      <4>1. s.state = "agent" <=> s.id = NoId
        BY DEF RowsIInv, MintedInv
      <4> QED
        BY <1>2, <1>4, <4>1 DEF Accepts, Legal, SourceOf, Mismatch
    <3>2. Spent(i)
      BY <1>2 DEF WorkOk
    <3>3. s.state # "takeover_requested"
      BY <1>2, <3>1, <3>2 DEF RowsIInv, SpentInv, At
    <3>4. Mine(i)
      <4>1. ~\E g \in Handler : Lets(g)
        BY <1>1, HolderFacts DEF Lets, Acquires
      <4>2. Driven
        BY <3>1, <3>3 DEF Driven
      <4> QED
        BY <1>2, <3>1, <4>1, <4>2 DEF HoldInv
    <3> QED
      BY <3>4 DEF Mine
  <2>6. e \in {"decline", "validated"} => gate'["browser"].state # "takeover_requested"
    <3>1. e = "validated" => s.state = "resume_validating"
      BY <1>1, <1>2 DEF GatesOk, At
    <3> QED
      BY <2>3, <3>1
  <2>7. ~OnWire(i)
    BY <1>1 DEF OnWire
  <2>8. EndOk(h)'
    BY <1>1, <1>2, <2>2, <2>4, <2>5, <2>6, <2>7 DEF EndOk, Acquires, OnWire, At, Closed
  <2>9. \A j \in Id : At("browser", "takeover_requested", j)' => At("browser", "takeover_requested", j)
    BY <2>3 DEF At
  <2> QED
    BY <1>1, <2>2, <2>8, <2>9, ClosedGate
<1> QED
  BY <1>3, <1>4

LEMMA ClosedAsk ==
  ASSUME TypeOK, SlotInv, RowsIInv, ClosedInv, NEW h \in Handler, Ask(h)
  PROVE  ClosedInv' /\ StaysClosed
<1>1. UNCHANGED <<row, needsSync, wire>> /\ op[h].pc = "ask" /\ Holds(h)
  BY DEF Ask, store
<1>2. op[h].call = "grant" /\ EndOk(h)
  BY <1>1, HolderFacts DEF KindOk, ClosedInv
<1>3. CASE ModelMayAsk
  <2>1. /\ gate'["browser"] = [state |-> "takeover_requested", id |-> op[h].id]
        /\ op' = [op EXCEPT ![h].pc = "status", ![h].res = "again"]
    BY <1>3 DEF Ask, TypeOK, Role
  <2>2. Others(h) /\ op'[h].pc = "status"
    <3>1. op \in [Handler -> Op] /\ op[h] \in Op
      BY DEF TypeOK
    <3> QED
      BY <2>1, <3>1 DEF Others, Op
  <2>3. \A i \in Id : At("browser", "takeover_requested", i)' /\ Closed(i) => i \in needsSync
    BY <1>1, <1>2, <2>1 DEF At, EndOk, Acquires
  <2> QED
    BY <1>1, <2>2, <2>3, AwayOk, ClosedGate
<1>4. CASE ~ModelMayAsk
  BY <1>1, <1>4, ClosedBegin DEF Ask
<1> QED
  BY <1>3, <1>4

\* A handler writes its row.
LEMMA ClosedCommit ==
  ASSUME TypeOK, SlotInv, RowsIInv, ClosedInv, NEW h \in Handler, Commit(h)
  PROVE  ClosedInv' /\ StaysClosed
<1> DEFINE e == op[h].call  i == op[h].id
<1>1. UNCHANGED <<wire, gate>> /\ op[h].pc = "commit" /\ Holds(h) /\ Answer(h, "ok")
  BY DEF Commit, computer
<1>2. /\ i \in Id /\ Known(i) /\ KindOk(h) /\ EndOk(h) /\ op[h].kind # "stop"
      /\ op[h].kind = "acquire" <=> op[h].call = "grant"
  BY <1>1, HolderFacts, BusySlot DEF ClosedInv
<1>3. Others(h) /\ Left(h)
  BY <1>1, <1>2, SlotFields
<1>4. e \in {"grant", "decline", "validated", "ttl"}
  BY <1>1, <1>2, HolderFacts DEF KindOk
<1>5. /\ \A j \in Id \ {i} : row'[j] = row[j] /\ (j \in needsSync' <=> j \in needsSync)
      /\ row'[i].born = row[i].born
      /\ e = "grant" => row'[i].state = "human"
      /\ e \in {"decline", "validated"} => row'[i].state = "agent" /\ UNCHANGED needsSync
      /\ e = "ttl" => row'[i].state = "paused"
  BY <1>1, <1>2, <1>4, CommitMoves
<1>6. ASSUME NEW g \in Handler PROVE EndOk(g)'
  BY <1>1, <1>3, WaitsOk, AwayOk DEF Others, Left
<1>7. ASSUME NEW j \in Id, Known(j)', Closed(j)'
      PROVE  ~OnWire(j)' /\ (At("browser", "takeover_requested", j)' => j \in needsSync')
  <2>1. CASE j = i
    <3>1. e \in {"decline", "validated"}
      BY <1>4, <1>5, <1>7, <2>1 DEF Closed
    <3> QED
      BY <1>1, <1>2, <2>1, <3>1 DEF EndOk, OnWire, At
  <2>2. CASE j # i
    <3>1. Known(j) /\ Closed(j)
      BY <1>5, <1>7, <2>2 DEF Known, Closed
    <3> QED
      BY <1>1, <1>5, <2>2, <3>1 DEF ClosedInv, OnWire, At
  <2> QED
    BY <2>1, <2>2
<1>8. StaysClosed
  <2> SUFFICES ASSUME NEW j \in Id, j \notin needsSync, Closed(j) PROVE Closed(j)'
    BY DEF StaysClosed
  <2>1. CASE j = i
    <3>1. e \in {"decline", "validated"}
      BY <1>1, <1>2, <1>4, <2>1 DEF EndOk, Acquires, Closed
    <3> QED
      BY <1>5, <2>1, <3>1 DEF Closed
  <2> QED
    BY <1>5, <2>1 DEF Closed
<1> QED
  BY <1>6, <1>7, <1>8 DEF ClosedInv

\* Some rows move and the gates stay: nothing that is closed is opened, and what is closed was
\* neither on its way nor asked for, and is not what a handler is about to open or to pause.
LEMMA ClosedMoves ==
  ASSUME ClosedInv, UNCHANGED <<gate, wire>>,
         \A g \in Handler : op'[g] = op[g] \/ EndOk(g)',
         \A i \in Id : /\ Known(i) /\ Closed(i) => Closed(i)' /\ (i \in needsSync => i \in needsSync')
                       /\ Known(i)' /\ Closed(i)' => Known(i),
         \A i \in Id : Known(i) /\ Closed(i)' /\ ~Closed(i) =>
           /\ ~OnWire(i) /\ ~At("browser", "takeover_requested", i)
           /\ \A g \in Handler : op[g].id = i => ~Acquires(g, {"ask", "shell", "commit"}),
         \A i \in Id : row[i].state = "human" => row'[i].state = "human",
         \A g \in Handler : op[g].pc \notin {"idle", "entry"} => op[g].id \in Id /\ Known(op[g].id),
         \A i \in Id : i \in needsSync /\ i \notin needsSync' => ~Closed(i)'
  PROVE  ClosedInv' /\ StaysClosed
<1>1. ASSUME NEW g \in Handler, op'[g] = op[g], ~EndOk(g)' PROVE FALSE
  <2>0. op[g].pc \notin {"idle", "entry"}
    BY <1>1 DEF EndOk, Acquires
  <2>1. op[g].id \in Id /\ Known(op[g].id) /\ EndOk(g)
    BY <2>0 DEF ClosedInv
  <2>2. op[g].call \in {"decline", "validated"} /\ op[g].pc \in {"shell", "thaw", "commit"} =>
          ~OnWire(op[g].id) /\ ~At("browser", "takeover_requested", op[g].id)
    BY <2>1 DEF EndOk
  <2>3. op[g].call = "ttl" /\ op[g].pc \in {"shell", "commit"} => row'[op[g].id].state = "human"
    BY <2>1 DEF EndOk
  <2>4. ASSUME Acquires(g, {"ask", "shell", "commit"})
        PROVE  row'[op[g].id].state \notin {"agent", "terminated"} \/ op[g].id \in needsSync'
    <3> DEFINE j == op[g].id
    <3>1. \A i \in Id : (Closed(i)' <=> row'[i].state \in {"agent", "terminated"})
      BY DEF Closed
    <3>2. ~Closed(j) \/ j \in needsSync
      BY <2>1, <2>4 DEF EndOk
    <3>3. j \in Id /\ Known(j)
      BY <2>1
    <3>4. Closed(j) => j \in needsSync'
      BY <3>2, <3>3
    <3>5. ~Closed(j) => row'[j].state \notin {"agent", "terminated"}
      BY <2>4, <3>1, <3>3
    <3> QED
      BY <3>4, <3>5
  <2> QED
    BY <1>1, <2>2, <2>3, <2>4 DEF EndOk, Acquires, Closed, OnWire, At
<1>2. ASSUME NEW i \in Id, Known(i)', Closed(i)'
      PROVE  ~OnWire(i)' /\ (At("browser", "takeover_requested", i)' => i \in needsSync')
  <2>1. Known(i)
    BY <1>2
  <2>2. CASE Closed(i)
    BY <2>1, <2>2 DEF ClosedInv, OnWire, At
  <2>3. CASE ~Closed(i)
    BY <1>2, <2>1, <2>3 DEF OnWire, At
  <2> QED
    BY <2>2, <2>3
<1>3. StaysClosed
  BY DEF StaysClosed
<1> QED
  BY <1>1, <1>2, <1>3 DEF ClosedInv

\* A handler that is not at rest works on a row that there is.
LEMMA WorksOnKnown ==
  ASSUME TypeOK, SlotInv, RowsIInv, NEW g \in Handler, op[g].pc \notin {"idle", "entry"}
  PROVE  op[g].id \in Id /\ Known(op[g].id)
<1>1. CASE op[g].pc = "asked"
  BY <1>1, SlotType DEF RowsIInv, WorkOk
<1>2. CASE op[g].pc # "asked"
  BY <1>2, BusySlot
<1> QED
  BY <1>1, <1>2

\* The answer to an operator's request, or the end of the wait for it.
LEMMA ClosedAnswered ==
  ASSUME TypeOK, SlotInv, RowsIInv, ClosedInv, NEW h \in Web, RequestReply(h) \/ RequestTimeout(h)
  PROVE  ClosedInv' /\ StaysClosed
<1> DEFINE i == op[h].id  p == op[h].prior
<1>0. h \in Handler
  BY DEF Handler
<1>1. /\ UNCHANGED <<gate, wire>> /\ op[h].pc = "asked" /\ op' = [op EXCEPT ![h] = NoOp]
  BY DEF RequestReply, RequestTimeout, computer
<1>2. Others(h) /\ Left(h)
  BY <1>0, <1>1, SlotFields
<1>3. /\ i \in Id /\ Known(i) /\ p \in Id \cup {NoId} /\ NoId \notin Id
      /\ p # NoId => Spent(p) /\ row[p].state # "human"
      /\ WorkOk(h) /\ UntakenOk(h) /\ SpentInv
  <2>1. i \in Id /\ p \in Id \cup {NoId}
    BY <1>0, <1>1, SlotType
  <2>2. WorkOk(h) /\ UntakenOk(h) /\ SpentInv
    BY <1>0 DEF RowsIInv
  <2> QED
    BY <1>1, <2>1, <2>2, RowFacts, WorksOnKnown, <1>0 DEF WorkOk
<1>4. row \in [Id -> Row]
  BY DEF TypeOK
<1>5. \A j \in Id :
        /\ row'[j].born = row[j].born
        /\ \/ row'[j].state = row[j].state
           \/ row'[j].state = "terminated" /\ (j = p \/ (j = i /\ op[h].res = "refused"))
  <2> DEFINE mid == IF row[i].state = "takeover_requested" THEN [row EXCEPT ![i].epoch = op[h].seen] ELSE row
  <2>1. \/ row' = [row EXCEPT ![i].state = "terminated"] /\ op[h].res = "refused"
        \/ row' = ClosePrior(h, mid)
        \/ row' = ClosePrior(h, row)
    BY DEF RequestReply, RequestTimeout
  <2>2. CASE row' = [row EXCEPT ![i].state = "terminated"] /\ op[h].res = "refused"
    BY <1>3, <1>4, <2>2 DEF Row
  <2>3. mid \in [Id -> Row] /\ \A j \in Id : mid[j].born = row[j].born /\ mid[j].state = row[j].state
    <3>1. op[h].seen \in Nat
      BY <1>0, SlotType
    <3> QED
      BY <1>3, <1>4, <3>1 DEF Row
  <2>4. ASSUME NEW r \in [Id -> Row], row' = ClosePrior(h, r)
        PROVE  \A j \in Id : /\ row'[j].born = r[j].born
                             /\ row'[j].state = IF j = p THEN "terminated" ELSE r[j].state
    BY <1>3, <2>4 DEF ClosePrior, Row
  <2>5. CASE row' = ClosePrior(h, mid)
    <3> HIDE DEF mid
    <3> QED
      BY <1>3, <2>3, <2>4, <2>5
  <2>6. CASE row' = ClosePrior(h, row)
    BY <1>3, <1>4, <2>4, <2>6
  <2> QED
    BY <2>1, <2>2, <2>5, <2>6
<1>6. \A j \in Id : (Known(j)' <=> Known(j)) /\ (Closed(j) => Closed(j)')
  BY <1>5 DEF Known, Closed
<1>7. \A j \in needsSync : j \in needsSync' \/ (j = i /\ row[i].state = "takeover_requested" /\ op[h].res # "refused")
  BY DEF RequestReply, RequestTimeout
<1>8. ASSUME NEW j \in Id, Closed(j)', ~Closed(j)
      PROVE  /\ ~OnWire(j) /\ ~At("browser", "takeover_requested", j)
             /\ \A g \in Handler : op[g].id = j => ~Acquires(g, {"ask", "shell", "commit"})
  <2>1. j = p \/ (j = i /\ op[h].res = "refused")
    BY <1>5, <1>8 DEF Closed
  <2>2. CASE j = p
    <3>1. Spent(j) /\ ~OnWire(j) /\ ~At("browser", "takeover_requested", j) /\ row[j].state # "human"
      BY <1>3, <2>2 DEF SpentInv
    <3>2. ASSUME NEW g \in Handler, op[g].id = j
          PROVE  ~Acquires(g, {"ask", "shell", "commit"})
      BY <3>1, <3>2 DEF RowsIInv, WorkOk
    <3> QED
      BY <3>1, <3>2
  <2>3. CASE j = i /\ op[h].res = "refused"
    <3>1. Untaken(h)
      BY <1>1, <2>3 DEF Untaken
    <3>2. ~Spent(i) /\ gate["browser"].id # i /\ ~OnWire(i)
      BY <1>1, <1>3, <2>3, <3>1 DEF UntakenOk, WorkOk
    <3>3. ASSUME NEW g \in Handler, op[g].id = i
          PROVE  ~Acquires(g, {"ask", "shell", "commit"})
      <4>1. ~Acquires(g, {"ask"}) /\ ~Acquires(g, {"shell", "commit"})
        BY <1>3, <3>1, <3>2, <3>3 DEF UntakenOk, RowsIInv, GatesOk, At
      <4> QED
        BY <4>1 DEF Acquires
    <3> QED
      BY <2>3, <3>2, <3>3 DEF At
  <2> QED
    BY <2>1, <2>2, <2>3
<1>9. \A g \in Handler : op'[g] = op[g] \/ EndOk(g)'
  BY <1>2, AwayOk DEF Others, Left
<1>10. ASSUME NEW j \in Id, j \in needsSync, j \notin needsSync' PROVE ~Closed(j)'
  <2>1. j = i /\ row[i].state = "takeover_requested" /\ op[h].res # "refused"
    BY <1>7, <1>10
  <2>2. i # p
    BY <1>1, <1>3, <1>10, <2>1 DEF SpentInv
  <2> QED
    BY <1>5, <2>1, <2>2 DEF Closed
<1>11. \A j \in Id : Known(j) /\ Closed(j) /\ j \in needsSync => j \in needsSync'
  BY <1>7 DEF Closed
<1>12. \A j \in Id : row[j].state = "human" => row'[j].state = "human"
  <2>1. op[h].res = "refused" => row[i].state # "human"
    BY <1>1, <1>3 DEF Untaken, UntakenOk, SpentInv
  <2> QED
    BY <1>3, <1>5, <2>1
<1> QED
  BY <1>1, <1>12, <1>6, <1>8, <1>9, <1>10, <1>11, WorksOnKnown, ClosedMoves

\* A request joins the browser's queue.
LEMMA Appended ==
  ASSUME TypeOK, NEW i, NEW by, wire' = Append(wire, [id |-> i, by |-> by])
  PROVE  \A j \in Id : OnWire(j)' => OnWire(j) \/ j = i
<1>1. wire \in Seq([id : Id, by : Web \cup {"model"}])
  BY DEF TypeOK
<1>2. /\ DOMAIN wire' = 1 .. Len(wire) + 1 /\ DOMAIN wire = 1 .. Len(wire) /\ Len(wire) \in Nat
      /\ \A k \in DOMAIN wire : wire'[k] = wire[k]
      /\ wire'[Len(wire) + 1] = [id |-> i, by |-> by]
  BY <1>1
<1> QED
  BY <1>2 DEF OnWire

\* A new row is open, and nobody has worked on it.
LEMMA ClosedInsert ==
  ASSUME TypeOK, SlotInv, RowsIInv, ClosedInv, NEW i \in Id, ~Known(i),
         NEW owner, NEW ep, NEW t, Insert(i, owner, ep, t),
         needsSync' \in {needsSync, needsSync \cup {i}}, gate' = gate,
         \A j \in Id : OnWire(j)' => OnWire(j) \/ j = i,
         \A g \in Handler : op'[g] = op[g] \/ EndOk(g)'
  PROVE  ClosedInv' /\ StaysClosed
<1>1. /\ \A j \in Id \ {i} : row'[j] = row[j]
      /\ row'[i].state = "takeover_requested"
  BY Inserted
<1>2. ASSUME NEW j \in Id, Known(j)', Closed(j)'
      PROVE  ~OnWire(j)' /\ (At("browser", "takeover_requested", j)' => j \in needsSync')
  <2>1. j # i
    BY <1>1, <1>2 DEF Closed
  <2>2. Known(j) /\ Closed(j)
    BY <1>1, <1>2, <2>1 DEF Known, Closed
  <2> QED
    BY <2>1, <2>2 DEF ClosedInv, At
<1>3. ASSUME NEW g \in Handler, op'[g] = op[g], ~EndOk(g)' PROVE FALSE
  <2>1. op[g].pc \notin {"idle", "entry"}
    BY <1>3 DEF EndOk, Acquires
  <2>2. op[g].id \in Id /\ op[g].id # i /\ EndOk(g)
    BY <2>1, WorksOnKnown DEF ClosedInv
  <2>3. row'[op[g].id] = row[op[g].id] /\ (op[g].id \in needsSync => op[g].id \in needsSync')
    BY <1>1, <2>2
  <2>4. op[g].call \in {"decline", "validated"} /\ op[g].pc \in {"shell", "thaw", "commit"} => ~OnWire(op[g].id)'
    <3> DEFINE j == op[g].id
    <3>1. op[g].call \in {"decline", "validated"} /\ op[g].pc \in {"shell", "thaw", "commit"} => ~OnWire(j)
      BY <2>2 DEF EndOk
    <3>2. (\E k \in DOMAIN wire' : wire'[k].id = j) => OnWire(j)
      BY <2>2 DEF OnWire
    <3> QED
      BY <1>3, <3>1, <3>2 DEF OnWire
  <2> QED
    BY <1>3, <2>2, <2>3, <2>4 DEF EndOk, Acquires, Closed, At
<1>4. StaysClosed
  BY <1>1 DEF StaysClosed, Closed
<1> QED
  BY <1>2, <1>3, <1>4 DEF ClosedInv

\* An operator asks.
LEMMA ClosedRequest ==
  ASSUME TypeOK, SlotInv, RowsIInv, ClosedInv, NEW h \in Web, Request(h)
  PROVE  ClosedInv' /\ StaysClosed
<1>0. h \in Handler /\ UNCHANGED <<needsSync, gate>>
  BY DEF Handler, Request
<1>1. ASSUME NEW prior \in Id, RequestExpires(h, prior) \/ RequestJoins(h, prior)
      PROVE  ClosedInv' /\ StaysClosed
  BY <1>0, <1>1, ClosedBegin DEF RequestExpires, RequestJoins
<1>2. CASE RequestOutOfIds(h)
  BY <1>0, <1>2, ClosedBegin DEF RequestOutOfIds
<1>3. ASSUME NEW prior \in Id \cup {NoId}, NEW t \in BOOLEAN, RequestInserts(h, prior, t)
      PROVE  ClosedInv' /\ StaysClosed
  <2>1. nextId \in Id /\ ~Known(nextId)
    <3>1. nextId \in Id
      BY <1>3, RowFacts, TakeoverAssumption DEF RequestInserts, Id, TypeOK
    <3> QED
      BY <3>1, RowFacts DEF RowsIInv, MintedInv
  <2>2. Others(h) /\ op'[h].pc = "asked"
    <3>1. op \in [Handler -> Op]
      BY DEF TypeOK
    <3> QED
      BY <1>0, <1>3, <3>1 DEF RequestInserts, NoOp, Others
  <2>3. wire' = Append(wire, [id |-> nextId, by |-> h])
    BY <1>3 DEF RequestInserts
  <2>4. \A j \in Id : OnWire(j)' => OnWire(j) \/ j = nextId
    BY <2>3, Appended
  <2>5. \A g \in Handler : op'[g] = op[g] \/ EndOk(g)'
    BY <2>2, AwayOk DEF Others
  <2> QED
    BY <1>0, <1>3, <2>1, <2>4, <2>5, ClosedInsert DEF RequestInserts
<1> QED
  BY <1>1, <1>2, <1>3 DEF Request

\* The model's request leaves, is answered, or is given up.
LEMMA ClosedModel ==
  ASSUME TypeOK, SlotInv, RowsIInv, ClosedInv, ModelSend \/ ModelAsked \/ ModelAskTimeout
  PROVE  ClosedInv' /\ StaysClosed
<1>1. CASE ModelSend
  <2>1. UNCHANGED <<row, needsSync, op, gate>>
    BY <1>1 DEF ModelSend, store
  <2>2. CASE UNCHANGED wire
    BY <2>1, <2>2, ClosedQuiet
  <2>3. CASE wire' = Append(wire, [id |-> nextId, by |-> "model"]) /\ nextId <= MaxId
    <3>1. nextId \in Id /\ ~Known(nextId)
      <4>1. nextId \in Id
        BY <2>3, RowFacts, TakeoverAssumption DEF Id, TypeOK
      <4> QED
        BY <4>1, RowFacts DEF RowsIInv, MintedInv
    <3>2. \A j \in Id : OnWire(j)' => OnWire(j) \/ j = nextId
      BY <2>3, Appended
    <3>3. ASSUME NEW g \in Handler, ~EndOk(g)' PROVE FALSE
      <4>1. op[g].pc \notin {"idle", "entry"}
        BY <2>1, <3>3 DEF EndOk, Acquires
      <4>2. op[g].id \in Id /\ op[g].id # nextId /\ EndOk(g)
        BY <3>1, <4>1, WorksOnKnown DEF ClosedInv
      <4>3. (\E k \in DOMAIN wire' : wire'[k].id = op[g].id) => OnWire(op[g].id)
        BY <3>2, <4>2 DEF OnWire
      <4> QED
        BY <2>1, <3>3, <4>2, <4>3 DEF EndOk, Acquires, Closed, At, OnWire
    <3>4. StaysClosed /\ \A j \in Id : (Known(j)' <=> Known(j)) /\ (Closed(j)' <=> Closed(j))
      BY <2>1 DEF StaysClosed, Closed, Known
    <3>5. ASSUME NEW j \in Id, Known(j), Closed(j)
          PROVE  ~OnWire(j)' /\ (At("browser", "takeover_requested", j)' => j \in needsSync')
      <4>1. j # nextId /\ ~OnWire(j) /\ (At("browser", "takeover_requested", j) => j \in needsSync)
        BY <3>1, <3>5 DEF ClosedInv
      <4> QED
        BY <2>1, <3>2, <4>1 DEF At
    <3> QED
      BY <3>3, <3>4, <3>5 DEF ClosedInv
  <2>4. UNCHANGED wire \/ (wire' = Append(wire, [id |-> nextId, by |-> "model"]) /\ nextId <= MaxId)
    <3>1. nextId \in Nat /\ MaxId \in Nat
      BY RowFacts, TakeoverAssumption
    <3> QED
      BY <1>1, <3>1 DEF ModelSend
  <2> QED
    BY <2>2, <2>3, <2>4
<1>2. CASE ModelAsked \/ ModelAskTimeout
  <2>1. /\ UNCHANGED <<op, gate, wire>> /\ call.pc = "asked"
        /\ \/ UNCHANGED <<row, needsSync>>
           \/ /\ \E n : Insert(call.id, NoDevice, n, TRUE)
              /\ needsSync' \in {needsSync, needsSync \cup {call.id}}
    BY <1>2 DEF ModelAsked, ModelAskTimeout, computer
  <2>2. call.id \in Id /\ ~Known(call.id)
    BY <2>1 DEF TypeOK, Call, RowsIInv, MintedInv
  <2>3. CASE UNCHANGED <<row, needsSync>>
    BY <2>1, <2>3, ClosedQuiet
  <2>4. ASSUME NEW n, Insert(call.id, NoDevice, n, TRUE), needsSync' \in {needsSync, needsSync \cup {call.id}}
        PROVE  ClosedInv' /\ StaysClosed
    <3>1. \A j \in Id : OnWire(j)' => OnWire(j) \/ j = call.id
      BY <2>1 DEF OnWire
    <3> QED
      BY <2>1, <2>2, <2>4, <3>1, ClosedInsert
  <2> QED
    BY <2>1, <2>3, <2>4
<1> QED
  BY <1>1, <1>2

\* A lease fires, or runs out.
LEMMA ClosedTimers ==
  ASSUME TypeOK, SlotInv, RowsIInv, ClosedInv, NEW i \in Id, Fire(i) \/ Lapse(i)
  PROVE  ClosedInv' /\ StaysClosed
<1>1. CASE Fire(i)
  <2>1. UNCHANGED <<row, needsSync, wire, gate>> /\ Timer \in Handler
    BY <1>1 DEF Fire, store, computer, Handler
  <2> QED
    BY <1>1, <2>1, ClosedBegin, ClosedQuiet DEF Fire
<1>2. CASE Lapse(i)
  <2>1. UNCHANGED <<needsSync, wire, gate, op>> /\ row' = [row EXCEPT ![i].lease = "lapsed"]
    BY <1>2 DEF Lapse, daemon, computer
  <2>2. \A j \in Id : row'[j].state = row[j].state /\ row'[j].born = row[j].born
    BY <2>1 DEF TypeOK, Row
  <2>3. \A g \in Handler : op[g].pc \notin {"idle", "entry"} => op[g].id \in Id /\ Known(op[g].id)
    BY WorksOnKnown
  <2> QED
    BY <2>1, <2>2, <2>3, ClosedMoves DEF Closed, Known
<1> QED
  BY <1>1, <1>2

\* The browser takes a request from its queue: none is there for a closed row.
LEMMA ClosedServe ==
  ASSUME TypeOK, SlotInv, RowsIInv, ClosedInv, ServeRequest
  PROVE  ClosedInv' /\ StaysClosed
<1> DEFINE q == Head(wire)  i == q.id
<1>1. /\ wire # <<>> /\ wire' = Tail(wire)
      /\ gate' = gate \/ gate' = [gate EXCEPT !["browser"] = [state |-> "takeover_requested", id |-> i]]
      /\ op' = op \/ \E a, e : op' = [op EXCEPT ![q.by].res = a, ![q.by].seen = e]
      /\ \/ UNCHANGED <<row, needsSync>>
         \/ /\ row[i].state = "takeover_requested" /\ needsSync' = needsSync \ {i}
            /\ \E e : row' = [row EXCEPT ![i].epoch = e]
  BY DEF ServeRequest
<1>2. /\ 1 \in DOMAIN wire /\ q = wire[1] /\ i \in Id
      /\ \A k \in DOMAIN wire' : k + 1 \in DOMAIN wire /\ wire'[k] = wire[k + 1]
  <2> DEFINE A == [id : Id, by : Web \cup {"model"}]
  <2>1. wire \in Seq(A) /\ wire # <<>>
    BY <1>1 DEF TypeOK
  <2>2. /\ 1 \in DOMAIN wire /\ q = wire[1] /\ q \in A
        /\ \A k \in DOMAIN Tail(wire) : k + 1 \in DOMAIN wire /\ Tail(wire)[k] = wire[k + 1]
    <3> HIDE DEF A
    <3> QED
      BY <2>1
  <2> QED
    BY <1>1, <2>2
<1>3. OnWire(i) /\ \A j \in Id : (\E k \in DOMAIN wire' : wire'[k].id = j) => OnWire(j)
  BY <1>2 DEF OnWire
<1>4. \A j \in Id : row'[j].state = row[j].state /\ row'[j].born = row[j].born
  <2>1. row \in [Id -> Row]
    BY DEF TypeOK
  <2>2. ASSUME NEW e, row' = [row EXCEPT ![i].epoch = e], NEW j \in Id
        PROVE  row'[j].state = row[j].state /\ row'[j].born = row[j].born
    BY <1>2, <2>1, <2>2 DEF Row
  <2> QED
    BY <1>1, <2>2
<1>5. ASSUME NEW j \in Id, j # i, gate'["browser"].state = "takeover_requested", gate'["browser"].id = j
      PROVE  At("browser", "takeover_requested", j)
  BY <1>1, <1>5 DEF At, TypeOK, Role
<1>6. \A j \in needsSync : j \notin needsSync' => row[j].state = "takeover_requested"
  BY <1>1
<1>7. ASSUME NEW j \in Id, Known(j)', Closed(j)'
      PROVE  ~OnWire(j)' /\ (At("browser", "takeover_requested", j)' => j \in needsSync')
  <2>1. Known(j) /\ Closed(j)
    BY <1>4, <1>7 DEF Known, Closed
  <2>2. ~OnWire(j) /\ (At("browser", "takeover_requested", j) => j \in needsSync) /\ j # i
    BY <1>3, <2>1 DEF ClosedInv
  <2>3. j \in needsSync => j \in needsSync'
    BY <1>6, <2>1 DEF Closed
  <2> QED
    BY <1>3, <1>5, <2>2, <2>3 DEF At, OnWire
<1>8. ASSUME NEW g \in Handler PROVE EndOk(g)'
  <2>1. op'[g].pc = op[g].pc /\ op'[g].call = op[g].call /\ op'[g].id = op[g].id
    <3>1. op \in [Handler -> Op] /\ op[g] \in Op
      BY DEF TypeOK
    <3>2. ASSUME NEW a, NEW e, op' = [op EXCEPT ![q.by].res = a, ![q.by].seen = e]
          PROVE  op'[g].pc = op[g].pc /\ op'[g].call = op[g].call /\ op'[g].id = op[g].id
      BY <3>1, <3>2 DEF Op
    <3> QED
      BY <1>1, <3>2
  <2>2. SUFFICES ASSUME op[g].pc \in {"ask", "shell", "thaw", "commit"} PROVE EndOk(g)'
    BY <2>1, AwayOk
  <2>3. op[g].id \in Id /\ EndOk(g)
    BY <2>2, WorksOnKnown DEF ClosedInv
  <2> DEFINE j == op[g].id
  <2>4. Acquires(g, {"ask", "shell", "commit"}) => row'[j].state \notin {"agent", "terminated"} \/ j \in needsSync'
    BY <1>4, <1>6, <2>3 DEF EndOk, Closed
  <2>5. op[g].call \in {"decline", "validated"} /\ op[g].pc \in {"shell", "thaw", "commit"} =>
          /\ ~\E k \in DOMAIN wire' : wire'[k].id = j
          /\ ~(gate'["browser"].state = "takeover_requested" /\ gate'["browser"].id = j)
    BY <1>3, <1>5, <2>3 DEF EndOk
  <2>6. op[g].call = "ttl" /\ op[g].pc \in {"shell", "commit"} => row'[j].state = "human"
    BY <1>4, <2>3 DEF EndOk
  <2> QED
    BY <2>1, <2>4, <2>5, <2>6 DEF EndOk, Acquires, Closed, OnWire, At
<1>9. StaysClosed
  BY <1>4 DEF StaysClosed, Closed
<1> QED
  BY <1>7, <1>8, <1>9 DEF ClosedInv

\* Every step keeps what is closed closed.
LEMMA ClosedNext ==
  ASSUME TypeOK, SlotInv, RowsIInv, ClosedInv, [Next]_vars, Enabled \subseteq {"timeout"}
  PROVE  ClosedInv' /\ StaysClosed
<1>0. "cancel" \notin Enabled /\ "lostBrowser" \notin Enabled /\ "lostShell" \notin Enabled /\ Calm
  BY DEF RowsIInv
<1>1. ASSUME NEW h \in Handler, HandlerStep(h) PROVE ClosedInv' /\ StaysClosed
  BY <1>1, ClosedEarly, ClosedLate, ClosedBrowser, ClosedAsk, ClosedCommit DEF HandlerStep
<1>2. ASSUME NEW h \in Web, Operator(h) PROVE ClosedInv' /\ StaysClosed
  <2>1. h \in Handler
    BY DEF Handler
  <2>2. ASSUME NEW i \in Id, (\E d \in Device : Acquire(h, d, i)) \/ Decline(h, i) \/ Release(h, i)
        PROVE  ClosedInv' /\ StaysClosed
    <3>1. UNCHANGED <<row, needsSync, wire, gate>>
      BY <2>2 DEF Acquire, Decline, Release, store, computer
    <3>2. \E kind, pc, e, d : Begin(h, kind, pc, e, i, d) /\ pc \notin {"ask", "shell", "thaw", "commit"}
      BY <2>2 DEF Acquire, Decline, Release
    <3> QED
      BY <2>1, <3>1, <3>2, ClosedBegin
  <2> QED
    BY <1>2, <2>2, ClosedRequest, ClosedAnswered DEF Operator
<1>3. CASE Model
  <2>1. ASSUME (\E tool \in Role \cup {"ask"} : ModelCall(tool)) \/ ModelServe \/ ModelTimeout \/ (\E r \in Role : ActDone(r))
        PROVE  UNCHANGED <<row, needsSync, wire, gate, op>>
    BY <2>1 DEF ModelCall, ModelServe, ModelTimeout, ActDone, store, computer
  <2> QED
    BY <1>3, <2>1, ClosedModel, ClosedQuiet DEF Model
<1>4. CASE Live \/ UNCHANGED vars
  <2>1. UNCHANGED <<row, needsSync, wire, gate, op>>
    BY <1>4 DEF Live, SendInput, RelayInput, DeliverInput, vars, store, daemon, computer
  <2> QED
    BY <2>1, ClosedQuiet
<1>5. CASE Cancellation
  BY <1>0, <1>5 DEF Cancellation, CancelTask, CancelGate, CancelBlank, CancelWait, CancelThaw,
     CancelTeardown, CancelClose, Calm
<1>6. ASSUME NEW r \in Role, LoseSession(r) PROVE FALSE
  BY <1>0, <1>6 DEF LoseSession
<1> QED
  BY <1>1, <1>2, <1>3, <1>4, <1>5, <1>6, ClosedTimers, ClosedServe DEF Next

\* At first nothing has been asked.
LEMMA ClosedInit == Init => ClosedInv
<1> SUFFICES ASSUME Init PROVE ClosedInv
  OBVIOUS
<1>1. (\A h \in Handler : op[h] = NoOp) /\ (\A i \in Id : row[i] = NoRow)
  BY DEF Init
<1> QED
  BY <1>1 DEF ClosedInv, EndOk, Acquires, Known, NoOp, NoRow

\* A row that was handed back, declined or expired for good is not opened again by a grant,
\* a handback or a request's answer that was already on its way: the computer's queue and the
\* hold's id tell them (runControl and settleHumanTakeover, server.ts; gate.ts).
THEOREM ClosedRowsStayClosedCorrect ==
  ASSUME Enabled \subseteq {"timeout"}
  PROVE  Spec => ClosedRowsStayClosed
<1>1. TypeOK /\ SlotInv /\ RowsIInv /\ ClosedInv /\ [Next]_vars => ClosedInv' /\ StaysClosed
  BY ClosedNext
<1>2. StaysClosed => [\A i \in Id : Known(i) /\ i \notin needsSync /\ row[i].state \in {"agent", "terminated"}
                        => row'[i].state \in {"agent", "terminated"}]_vars
  BY DEF StaysClosed, Closed
<1> QED
  BY <1>1, <1>2, ClosedInit, RowsHold, TypeCorrect, SlotsHold, PTL DEF Spec, ClosedRowsStayClosed
=============================================================================
