------------------------------ MODULE Takeover ------------------------------
(***************************************************************************)
(* Human takeover of one computer.  The daemon (src/daemon/server.ts,      *)
(* store.ts, dispatcher.ts) keeps durable takeover rows; the browser and   *)
(* the shell process of the computer-server each keep a gate; the daemon   *)
(* drives both gates, and the freeze of the guest's native model           *)
(* processes, from HTTP handlers, a lease timer and a task cancellation    *)
(* that interleave at every await.                                         *)
(*                                                                         *)
(* A computer-server process serves one request at a time in order         *)
(* (rpc-loop.ts), so an exchange with it is one step, taken when the       *)
(* process is free: no action of the model in flight and no earlier        *)
(* request waiting on the wire.  The daemon is single-threaded: what runs  *)
(* between two awaits is one step.                                         *)
(***************************************************************************)
EXTENDS Naturals, Sequences, TakeoverProtocol

CONSTANTS
  Device,    \* authenticated operator devices
  NoDevice,
  Web,       \* slots in which an operator's HTTP request may be in progress
  MaxId,     \* bound: takeover ids that are ever minted
  Native,    \* the task runs inside the guest, beside the browser
  Enabled    \* the accidents that happen: a subset of Accidents

\* A caller of the computer stops waiting, or a cancellation does; the task is
\* cancelled; a freeze or a thaw fails; a role's transport fails.
Accidents == {"timeout", "slowCancel", "cancel", "nativeFails", "lostBrowser", "lostShell"}

Timer == "timer"   \* the slot of the lease timer
Stop  == "stop"    \* the slot in which a task cancellation calls the computer
Handler == Web \cup {Timer, Stop}
Role == {"browser", "shell"}
Id == 1 .. MaxId
NoId == 0

ASSUME TakeoverAssumption ==
  /\ NoDevice \notin Device
  /\ {Timer, Stop} \cap Web = {}
  /\ "model" \notin Handler
  /\ MaxId \in Nat
  /\ Native \in BOOLEAN
  /\ Enabled \subseteq Accidents

VARIABLES
  row,        \* durable: the takeovers table, by id
  task,       \* durable: "running" or "cancelled"
  nextId,     \* the next id to mint
  timers,     \* ids whose lease timer is armed
  needsSync,  \* pendingTakeoverComputerSync: ids the computer may not know
  control,    \* changeControl: the handlers waiting for, or holding, the computer
  op,         \* what each handler is doing
  cancel,     \* where the task's cancellation stands
  call,       \* the tool call of the model in progress
  input,      \* an operator's live input on its way
  gate,       \* per role: the TakeoverSession of the computer-server process
  epoch,      \* the browser gate's control epoch
  wire,       \* takeover requests the browser has received and not yet served
  acting,     \* the roles on which an action of the model is in flight
  frozen,     \* the native processes are stopped and new ones blocked
  page,       \* "private" while the page shows what a person typed
  driver      \* history: the device that took the current hold

store == <<row, task>>
daemon == <<nextId, timers, needsSync, control, op, cancel, call, input>>
computer == <<gate, epoch, wire, acting, frozen, page, driver>>
vars == <<store, daemon, computer>>

-----------------------------------------------------------------------------
(* Types.                                                                  *)

RowState == TakeoverState \ {"resume_validating"}
Row == [state : RowState, owner : Device \cup {NoDevice}, epoch : Nat,
        lease : {"none", "running", "lapsed"}, ofTask : BOOLEAN, born : 0 .. MaxId]
NoRow == [state |-> "terminated", owner |-> NoDevice, epoch |-> 0,
          lease |-> "none", ofTask |-> FALSE, born |-> 0]

Kind == {"none", "acquire", "release", "return", "decline", "expire",
         "request", "stop", "teardown"}
Pc == {"idle", "entry", "asked", "observe", "recheck", "blank", "freeze", "status",
       "ask", "sync", "browser", "shell", "inspect", "sensitive", "thaw",
       "commit", "undo", "refused", "close"}
\* A handler in a step of its own works on a takeover, toward an event of it
\* (a request is on the wire by itself).
Op == {o \in [kind : Kind, pc : Pc, call : TakeoverEvent \cup {"none"}, id : Id \cup {NoId},
              dev : Device \cup {NoDevice}, res : {"none", "ok", "refused", "again"},
              prior : Id \cup {NoId}, seen : Nat] :
         \/ o.pc \in {"idle", "entry", "close"}
         \/ o.id \in Id /\ (o.call # "none" \/ o.pc = "asked")}
NoOp == [kind |-> "none", pc |-> "idle", call |-> "none", id |-> NoId,
         dev |-> NoDevice, res |-> "none", prior |-> NoId, seen |-> 0]

\* The tool is known until the call is over, the id from the moment it is sent.
Call == {c \in [pc : {"idle", "checked", "sent", "acting", "asked"},
                tool : Role \cup {"ask", "none"}, id : Id \cup {NoId},
                res : {"none", "ok", "refused"}, seen : Nat] :
           /\ c.pc = "checked" => c.tool # "none"
           /\ c.pc \in {"sent", "acting"} => c.tool \in Role
           /\ c.pc = "asked" => c.id \in Id}
NoCall == [pc |-> "idle", tool |-> "none", id |-> NoId, res |-> "none", seen |-> 0]

Input == [pc : {"none", "queued", "sent"}, dev : Device \cup {NoDevice}, epoch : Nat]
NoInput == [pc |-> "none", dev |-> NoDevice, epoch |-> 0]

Session == [state : TakeoverState, id : Id \cup {NoId}]
FreshSession == [state |-> "agent", id |-> NoId]

Cancel == [pc : {"none", "gate", "blank", "wait", "thaw", "teardown", "done"}, pass : 0 .. 3]

\* Every variable has its type; a handler in a step of its own has a takeover and
\* an event to work toward, and a call that waits has the id it minted (Op, Call).
TypeOK ==
  /\ row \in [Id -> Row]
  /\ task \in {"running", "cancelled"}
  /\ nextId \in Nat \ {0}
  /\ timers \subseteq Id
  /\ needsSync \subseteq Id
  /\ control \in Seq(Handler)
  /\ op \in [Handler -> Op]
  /\ cancel \in Cancel
  /\ call \in Call
  /\ input \in Input
  /\ gate \in [Role -> Session]
  /\ epoch \in Nat
  /\ wire \in Seq([id : Id, by : Web \cup {"model"}])
  /\ acting \subseteq Role
  /\ frozen \in BOOLEAN
  /\ page \in {"clean", "private"}
  /\ driver \in Device \cup {NoDevice}

Init ==
  /\ row = [i \in Id |-> NoRow]
  /\ task = "running"
  /\ nextId = 1
  /\ timers = {}
  /\ needsSync = {}
  /\ control = <<>>
  /\ op = [h \in Handler |-> NoOp]
  /\ cancel = [pc |-> "none", pass |-> 0]
  /\ call = NoCall
  /\ input = NoInput
  /\ gate = [r \in Role |-> FreshSession]
  /\ epoch = 1
  /\ wire = <<>>
  /\ acting = {}
  /\ frozen = FALSE
  /\ page = "clean"
  /\ driver = NoDevice

-----------------------------------------------------------------------------
(* The durable rows (src/daemon/store.ts).                                 *)

Known(i) == row[i].born > 0

\* HUMAN_TAKEOVER_HELD: a person had, or still has, this hold.
Held(i) == \/ row[i].state = "human"
           \/ row[i].state \in {"paused", "takeover_requested"} /\ row[i].owner # NoDevice

\* An open row whose task, if it is an unanswered request, is still alive.
Open(i) == /\ IsTakeoverBusy(row[i].state)
           /\ Held(i) \/ ~row[i].ofTask \/ task = "running"

\* activeTakeoverForComputer returns the newest open row.
IsActive(i) == Open(i) /\ \A j \in Id : Open(j) => row[j].born <= row[i].born
NoneActive == \A i \in Id : ~Open(i)

\* latestTakeoverForComputer returns the newest row, open or not.
IsLatest(i) == Known(i) /\ \A j \in Id : row[j].born <= row[i].born

\* insertTakeover: the new row is newer than every other.
Insert(i, owner, ep, ofTask) ==
  \E b \in 1 .. MaxId :
    /\ \A j \in Id : row[j].born < b
    /\ b = 1 \/ \E j \in Id : row[j].born = b - 1
    /\ row' = [row EXCEPT ![i] =
                 [state |-> "takeover_requested", owner |-> owner, epoch |-> ep,
                  lease |-> "none", ofTask |-> ofTask, born |-> b]]

-----------------------------------------------------------------------------
(* The computer-server (takeover-gate.ts, dispatch.ts, rpc-loop.ts).       *)

\* A bug: requests are served while an act is in flight.
FreeWhileActing(r) == r = "browser" => wire = <<>>

\* The process can serve the next request: nothing is before it in its queue.
Free(r) == r \notin acting /\ (r = "browser" => wire = <<>>)

\* A bug: the event's name is kept for the state it leads to.
AfterNamed(s, e) == [state |-> e, id |-> s.id]

\* A session moved by an event; control given back forgets the takeover.
After(s, e) == [state |-> TargetOf[e], id |-> IF TargetOf[e] = "agent" THEN NoId ELSE s.id]

\* takeoverIdMismatch and idMismatch: a named takeover other than the session's.
Mismatch(s, i) == s.id # NoId /\ s.id # i

\* takeover.grant, .release, .decline, .ttl name the takeover; .validate does not.
Accepts(s, e, i) ==
  /\ e \in {"validated", "still_sensitive"} \/ ~Mismatch(s, i)
  /\ Legal(s.state, e) \/ (e = "decline" /\ s.state = "agent")

\* The session after an accepted request; declining in agent changes nothing.
Answered(s, e) == IF Legal(s.state, e) THEN After(s, e) ELSE s

-----------------------------------------------------------------------------
(* A handler's own control flow.                                           *)

Goto(h, pc) == op' = [op EXCEPT ![h].pc = pc]

\* A bug: changeControl runs every handler as soon as one is there.
HoldsTogether(h) == control # <<>>

\* A bug: a handler that ends does not let the next one go.
UnlockForgotten == UNCHANGED control

\* changeControl: handlers hold the computer one at a time, first come first served.
Holds(h) == control # <<>> /\ Head(control) = h
Queue(h) == control' = Append(control, h)
Unlock == control' = Tail(control)

Begin(h, kind, pc, event, i, d) ==
  op' = [op EXCEPT ![h] = [NoOp EXCEPT !.kind = kind, !.pc = pc, !.call = event,
                                       !.id = i, !.dev = d]]

\* A bug: an expiry that the computer refuses pauses the row all the same.
RefusalIgnored(h) == IF op[h].kind = "acquire" THEN "refused" ELSE "commit"

\* Where a handler goes when the computer refuses a step of it.
AfterRefusal(h) ==
  IF op[h].kind # "acquire" THEN "refused"
  ELSE IF op[h].id \in needsSync /\ op[h].res # "again" THEN "ask"
  ELSE IF Native THEN "undo" ELSE "refused"

\* A bug: only a decline thaws the native processes.
ReleaseForgetsThaw(h) ==
  CASE op[h].call = "release"             -> "inspect"
    [] op[h].call = "still_sensitive"     -> "sensitive"
    [] op[h].call = "decline" /\ Native   -> "thaw"
    [] OTHER                              -> "commit"

\* Where a handler goes when both sides have taken its call.
AfterAcceptance(h) ==
  CASE op[h].call = "release"                              -> "inspect"
    [] op[h].call = "still_sensitive"                      -> "sensitive"
    [] op[h].call \in {"decline", "validated"} /\ Native   -> "thaw"
    [] OTHER                                               -> "commit"

\* What is left in the slot of a handler that answers: a cancellation reads
\* the outcome of the calls it made, a request goes on after its expiry.
Answer(h, outcome) ==
  op' = [op EXCEPT ![h] =
           CASE op[h].kind = "request" ->
                  [NoOp EXCEPT !.kind = "request", !.pc = "entry", !.res = "again"]
             [] op[h].kind = "stop" ->
                  [NoOp EXCEPT !.kind = "stop", !.call = op[h].call, !.res = outcome]
             [] OTHER -> NoOp]

-----------------------------------------------------------------------------
(* The HTTP handlers start.                                                *)

\* POST takeover/:id/acquire.  Nothing is asked of the row.
Acquire(h, d, i) ==
  /\ op[h].pc = "idle"
  /\ Known(i)
  /\ Begin(h, "acquire", IF Native THEN "freeze" ELSE "status", "grant", i, d)
  /\ Queue(h)
  /\ UNCHANGED <<store, nextId, timers, needsSync, cancel, call, input, computer>>

\* POST takeover/:id/decline, from any device, refused while the row is human.
Decline(h, i) ==
  /\ op[h].pc = "idle"
  /\ Known(i)
  /\ row[i].state # "human"
  /\ Begin(h, "decline", "status", "decline", i, NoDevice)
  /\ Queue(h)
  /\ UNCHANGED <<store, nextId, timers, needsSync, cancel, call, input, computer>>

\* POST takeover/:id/release, or /clear, which blanks the page first; from any
\* device.  A paused hold is returned by a decline once the page is observed clean.
Release(h, i) ==
  /\ op[h].pc = "idle"
  /\ Known(i)
  /\ row[i].state \in {"human", "paused"}
  /\ \E first \in {"observe", "blank"} :
       IF row[i].state = "human"
         THEN Begin(h, "release", first, "release", i, NoDevice)
         ELSE Begin(h, "return", first, "decline", i, NoDevice)
  /\ UNCHANGED <<store, nextId, timers, needsSync, control, cancel, call, input, computer>>

\* takeover.masked-observation before the handback.
Observe(h) ==
  /\ op[h].pc = "observe"
  /\ Free("browser")
  /\ CASE op[h].kind = "release" /\ page = "clean"   -> Goto(h, "status") /\ Queue(h)
       [] op[h].kind = "release" /\ page = "private" -> Goto(h, "blank") /\ UNCHANGED control
       [] op[h].kind = "return" /\ page = "clean"    -> Goto(h, "recheck") /\ UNCHANGED control
       [] OTHER                                      -> Answer(h, "refused") /\ UNCHANGED control
  /\ UNCHANGED <<store, nextId, timers, needsSync, cancel, call, input, computer>>

\* The page was clean; the row must still be paused.
Recheck(h) ==
  /\ op[h].pc = "recheck"
  /\ IF row[op[h].id].state = "paused"
       THEN Goto(h, "status") /\ Queue(h)
       ELSE Answer(h, "refused") /\ UNCHANGED control
  /\ UNCHANGED <<store, nextId, timers, needsSync, cancel, call, input, computer>>

\* takeover.blank is refused unless the gate is human or paused.
Blank(h) ==
  /\ op[h].pc = "blank"
  /\ Free("browser")
  /\ IF gate["browser"].state \in {"human", "paused"}
       THEN /\ page' = "clean"
            /\ IF op[h].kind = "return" THEN Goto(h, "observe") /\ UNCHANGED control
                                        ELSE Goto(h, "status") /\ Queue(h)
       ELSE Answer(h, "refused") /\ UNCHANGED <<page, control>>
  /\ UNCHANGED <<store, nextId, timers, needsSync, cancel, call, input,
                 gate, epoch, wire, acting, frozen, driver>>

\* A bug: only an unanswered request expires.
ExpiresUnanswered(i) == row[i].state = "takeover_requested"

\* expireTakeover has nothing to do for a row that is closed or paused.
Expires(i) == row[i].state \notin {"agent", "terminated", "paused"}

\* The lease timer fires: expireTakeover.
Fire(i) ==
  /\ i \in timers
  /\ row[i].lease = "lapsed"
  /\ op[Timer].pc = "idle"
  /\ timers' = timers \ {i}
  /\ IF Expires(i)
       THEN Begin(Timer, "expire", "browser", "ttl", i, NoDevice) /\ Queue(Timer)
       ELSE UNCHANGED <<op, control>>
  /\ UNCHANGED <<store, nextId, needsSync, cancel, call, input, computer>>

-----------------------------------------------------------------------------
(* The steps of a handler that holds the computer.                         *)

\* setGuestComputerPaused(true), before anything is asked of the gates.
Freeze(h) ==
  /\ Holds(h)
  /\ op[h].pc = "freeze"
  /\ \/ frozen' = TRUE /\ Goto(h, "status")
     \/ "nativeFails" \in Enabled /\ Goto(h, "undo") /\ UNCHANGED frozen
  /\ UNCHANGED <<store, nextId, timers, needsSync, control, cancel, call, input,
                 gate, epoch, wire, acting, page, driver>>

\* The statuses a grant, a decline or a release is bound to before it starts.
\* The shell is asked in parallel; only the holder of the computer moves its
\* gate, so its answer does not depend on when an act of the model lets it answer.
StatusAgrees(h) ==
  CASE op[h].call = "grant"   -> /\ gate["browser"].id = op[h].id
                                 /\ Legal(gate["browser"].state, "grant")
    [] op[h].call = "decline" -> \A r \in Role : /\ ~Mismatch(gate[r], op[h].id)
                                                 /\ CanDecline(gate[r].state)
    [] OTHER                  -> \A r \in Role : ~Mismatch(gate[r], op[h].id)

Status(h) ==
  /\ Holds(h)
  /\ op[h].pc = "status"
  /\ Free("browser")
  /\ Goto(h, IF ~StatusAgrees(h) THEN AfterRefusal(h)
             ELSE IF op[h].call = "grant" THEN "sync" ELSE "browser")
  /\ UNCHANGED <<store, nextId, timers, needsSync, control, cancel, call, input, computer>>

\* The shell never sees request_takeover: takeover.sync makes it requested.
Sync(h) ==
  /\ Holds(h)
  /\ op[h].pc = "sync"
  /\ Free("shell")
  /\ gate' = [gate EXCEPT !["shell"] = [state |-> "takeover_requested", id |-> op[h].id]]
  /\ Goto(h, "browser")
  /\ UNCHANGED <<store, nextId, timers, needsSync, control, cancel, call, input,
                 epoch, wire, acting, frozen, page, driver>>

\* both(): the browser decides.
Browser(h) ==
  LET e == op[h].call  s == gate["browser"] IN
  /\ Holds(h)
  /\ op[h].pc = "browser"
  /\ Free("browser")
  /\ IF Accepts(s, e, op[h].id)
       THEN /\ gate' = [gate EXCEPT !["browser"] = Answered(s, e)]
            /\ epoch' = IF e = "decline" /\ s.state # "agent" THEN epoch + 1 ELSE epoch
            /\ driver' = IF e = "grant" THEN op[h].dev ELSE driver
            /\ op' = [op EXCEPT ![h].pc = "shell", ![h].seen = epoch]
       ELSE Goto(h, AfterRefusal(h)) /\ UNCHANGED <<gate, epoch, driver>>
  /\ UNCHANGED <<store, nextId, timers, needsSync, control, cancel, call, input,
                 wire, acting, frozen, page>>

\* both(): the shell is only touched once the browser has accepted.
Shell(h) ==
  LET e == op[h].call  s == gate["shell"] IN
  /\ Holds(h)
  /\ op[h].pc = "shell"
  /\ Free("shell")
  /\ IF Accepts(s, e, op[h].id)
       THEN gate' = [gate EXCEPT !["shell"] = Answered(s, e)] /\ Goto(h, AfterAcceptance(h))
       ELSE Goto(h, AfterRefusal(h)) /\ UNCHANGED gate
  /\ UNCHANGED <<store, nextId, timers, needsSync, control, cancel, call, input,
                 epoch, wire, acting, frozen, page, driver>>

\* A bug: the handback believes the observation made before it.
VerdictAssumed == "validated"

\* takeover.validate says what the page shows now.
Verdict == IF page = "private" THEN "still_sensitive" ELSE "validated"

\* releaseTakeover looks at the page between release and validate.
Inspect(h) ==
  /\ Holds(h)
  /\ op[h].pc = "inspect"
  /\ Free("browser")
  /\ op' = [op EXCEPT ![h].pc = "browser", ![h].call = Verdict]
  /\ UNCHANGED <<store, nextId, timers, needsSync, control, cancel, call, input, computer>>

\* The page is still private: control stays with the person.  The handler
\* blanks the page and tries once more; a cancellation takes it as done.
StillSensitive(h) ==
  /\ Holds(h)
  /\ op[h].pc = "sensitive"
  /\ Unlock
  /\ IF op[h].kind = "release" /\ op[h].res # "again"
       THEN op' = [op EXCEPT ![h].pc = "blank", ![h].call = "release", ![h].res = "again"]
       ELSE Answer(h, "ok")
  /\ UNCHANGED <<store, nextId, timers, needsSync, cancel, call, input, computer>>

\* returnNativeControl: the native processes run again, or the call throws.
Thaw(h) ==
  /\ Holds(h)
  /\ op[h].pc = "thaw"
  /\ \/ frozen' = FALSE /\ Goto(h, "commit") /\ UNCHANGED control
     \/ "nativeFails" \in Enabled /\ Answer(h, "refused") /\ Unlock /\ UNCHANGED frozen
  /\ UNCHANGED <<store, nextId, timers, needsSync, cancel, call, input,
                 gate, epoch, wire, acting, page, driver>>

\* request_takeover is a tool: unlike takeover.request, a busy gate refuses it.
ModelMayAsk == /\ ~IsTakeoverBusy(gate["browser"].state)
               /\ Legal(gate["browser"].state, "request")

\* syncAndGrantTakeover: the computer may never have heard of this id, and is
\* told in the model's name.
Ask(h) ==
  /\ Holds(h)
  /\ op[h].pc = "ask"
  /\ Free("browser")
  /\ IF ModelMayAsk
       THEN /\ gate' = [gate EXCEPT !["browser"] =
                          [state |-> "takeover_requested", id |-> op[h].id]]
            /\ epoch' = epoch + 1
            /\ op' = [op EXCEPT ![h].pc = "status", ![h].res = "again"]
       ELSE Goto(h, IF Native THEN "undo" ELSE "refused") /\ UNCHANGED <<gate, epoch>>
  /\ UNCHANGED <<store, nextId, timers, needsSync, control, cancel, call, input,
                 wire, acting, frozen, page, driver>>

\* A bug: a refused grant thaws whoever has the browser.
ThawsAnyway == TRUE

\* thawIfAgent after a refused grant: only if the model may act anyway.
ThawsAgent == gate["browser"].state = "agent"

Undo(h) ==
  /\ Holds(h)
  /\ op[h].pc = "undo"
  /\ Free("browser")
  /\ frozen' = (frozen /\ ~ThawsAgent)
  /\ Unlock
  /\ Answer(h, "refused")
  /\ UNCHANGED <<store, nextId, timers, needsSync, cancel, call, input,
                 gate, epoch, wire, acting, page, driver>>

\* A refused handback may be one whose thaw failed after the browser had
\* returned: it goes on if the browser is in agent under this very id.
Refused(h) ==
  /\ Holds(h)
  /\ op[h].pc = "refused"
  /\ Free("browser")
  /\ IF /\ Native
        /\ op[h].kind \in {"release", "return", "decline", "stop"}
        /\ gate["browser"] = [state |-> "agent", id |-> op[h].id]
       THEN Goto(h, "thaw") /\ UNCHANGED control
       ELSE Answer(h, "refused") /\ Unlock
  /\ UNCHANGED <<store, nextId, timers, needsSync, cancel, call, input, computer>>

\* The computer has answered: the handler lets go of it and writes the row.
Commit(h) ==
  LET i == op[h].id IN
  /\ Holds(h)
  /\ op[h].pc = "commit"
  /\ Unlock
  /\ Answer(h, "ok")
  /\ CASE op[h].kind = "acquire" ->
            /\ row' = [row EXCEPT ![i].state = "human", ![i].owner = op[h].dev,
                                  ![i].lease = "running", ![i].epoch = op[h].seen]
            /\ timers' = timers \cup {i}
            /\ needsSync' = needsSync \ {i}
       [] op[h].kind \in {"release", "return", "decline"} ->
            /\ row' = [row EXCEPT ![i].state = "agent"]
            /\ timers' = timers \ {i}
            /\ UNCHANGED needsSync
       [] op[h].kind \in {"expire", "request"} ->
            /\ row' = [row EXCEPT ![i].state = "paused"]
            /\ UNCHANGED <<timers, needsSync>>
       [] OTHER -> UNCHANGED <<row, timers, needsSync>>
  /\ UNCHANGED <<task, nextId, cancel, call, input, computer>>

-----------------------------------------------------------------------------
(* An operator asks for control: POST takeover/request.                    *)

\* A lapsed hold is expired first, once; an open one is answered with itself.
RequestExpires(h, prior) ==
  /\ row[prior].lease = "lapsed"
  /\ row[prior].state # "paused"
  /\ IF op[h].res = "again"
       THEN op' = [op EXCEPT ![h] = NoOp] /\ UNCHANGED <<control, timers>>
       ELSE /\ Begin(h, "request", "browser", "ttl", prior, NoDevice)
            /\ Queue(h)
            /\ timers' = timers \ {prior}
  /\ UNCHANGED <<row, nextId, wire>>

RequestJoins(h, prior) ==
  /\ row[prior].lease # "lapsed"
  /\ row[prior].state \in {"takeover_requested", "human"}
  /\ op' = [op EXCEPT ![h] = NoOp]
  /\ UNCHANGED <<row, timers, control, nextId, wire>>

\* A new row; over a paused hold it keeps whose private desktop it is.
RequestInserts(h, prior, ofTask) ==
  /\ prior # NoId => row[prior].state = "paused"
  /\ nextId <= MaxId
  /\ Insert(nextId, IF prior = NoId THEN NoDevice ELSE row[prior].owner, 0,
            ofTask \/ (prior # NoId /\ row[prior].ofTask))
  /\ wire' = Append(wire, [id |-> nextId, by |-> h])
  /\ op' = [op EXCEPT ![h] = [NoOp EXCEPT !.kind = "request", !.pc = "asked",
                                          !.id = nextId, !.prior = prior]]
  /\ nextId' = nextId + 1
  /\ UNCHANGED <<timers, control>>

\* The bound on ids: a request that went on after an expiry gives up.
RequestOutOfIds(h) ==
  /\ nextId > MaxId
  /\ op' = [op EXCEPT ![h] = NoOp]
  /\ UNCHANGED <<row, timers, control, nextId, wire>>

Request(h) ==
  /\ op[h].pc \in {"idle", "entry"}
  /\ \/ \E prior \in Id : /\ IsActive(prior)
                          /\ \/ RequestExpires(h, prior)
                             \/ RequestJoins(h, prior)
                             \/ \E t \in BOOLEAN : RequestInserts(h, prior, t)
     \/ NoneActive /\ \E t \in BOOLEAN : RequestInserts(h, NoId, t)
     \/ op[h].pc = "entry" /\ RequestOutOfIds(h)
  /\ UNCHANGED <<task, needsSync, cancel, call, input,
                 gate, epoch, acting, frozen, page, driver>>

\* The prior hold is closed once the computer has taken the new request.
ClosePrior(h, rows) ==
  IF op[h].prior = NoId THEN rows ELSE [rows EXCEPT ![op[h].prior].state = "terminated"]

RequestReply(h) ==
  LET i == op[h].id IN
  /\ op[h].pc = "asked"
  /\ op[h].res # "none"
  /\ IF op[h].res = "refused"
       THEN row' = [row EXCEPT ![i].state = "terminated"] /\ UNCHANGED <<timers, needsSync>>
       ELSE /\ row' = ClosePrior(h, IF row[i].state = "takeover_requested"
                                      THEN [row EXCEPT ![i].epoch = op[h].seen] ELSE row)
            /\ timers' = timers \ {op[h].prior}
            /\ needsSync' = IF row[i].state = "takeover_requested"
                              THEN needsSync \ {i} ELSE needsSync
  /\ op' = [op EXCEPT ![h] = NoOp]
  /\ UNCHANGED <<task, nextId, control, cancel, call, input, computer>>

\* Two seconds without an answer: the row stands and the computer is told later.
RequestTimeout(h) ==
  /\ "timeout" \in Enabled
  /\ op[h].pc = "asked"
  /\ op[h].res = "none"
  /\ row' = ClosePrior(h, row)
  /\ timers' = timers \ {op[h].prior}
  /\ needsSync' = needsSync \cup {op[h].id}
  /\ op' = [op EXCEPT ![h] = NoOp]
  /\ UNCHANGED <<task, nextId, control, cancel, call, input, computer>>

\* The browser serves the oldest takeover request, of an operator or the model,
\* whether or not anyone still waits for the answer.
ServeRequest ==
  LET q == Head(wire)
      ok == IF q.by = "model" THEN ModelMayAsk ELSE Legal(gate["browser"].state, "request")
      answer == IF ok THEN "ok" ELSE "refused"
      waits == q.by # "model" /\ op[q.by].pc = "asked" /\ op[q.by].id = q.id IN
  /\ wire # <<>>
  /\ "browser" \notin acting
  /\ wire' = Tail(wire)
  /\ gate' = IF ok THEN [gate EXCEPT !["browser"] = [state |-> "takeover_requested", id |-> q.id]]
                   ELSE gate
  /\ epoch' = IF ok THEN epoch + 1 ELSE epoch
  /\ op' = IF waits THEN [op EXCEPT ![q.by].res = answer, ![q.by].seen = epoch'] ELSE op
  /\ call' = IF q.by = "model" /\ call.pc = "asked" /\ call.id = q.id
               THEN [call EXCEPT !.res = answer, !.seen = epoch'] ELSE call
  /\ IF q.by # "model" /\ ~waits /\ ok /\ row[q.id].state = "takeover_requested"
       THEN /\ row' = [row EXCEPT ![q.id].epoch = epoch']
            /\ needsSync' = needsSync \ {q.id}
       ELSE UNCHANGED <<row, needsSync>>
  /\ UNCHANGED <<task, nextId, timers, control, cancel, input, acting, frozen, page, driver>>

-----------------------------------------------------------------------------
(* The model's tool calls (dispatcher.ts).                                 *)

\* The durable gate is read before the awaits of observation and approval.
ModelCall(tool) ==
  /\ call.pc = "idle"
  /\ task = "running"
  /\ NoneActive
  /\ call' = [NoCall EXCEPT !.pc = "checked", !.tool = tool]
  /\ UNCHANGED <<store, nextId, timers, needsSync, control, op, cancel, input, computer>>

\* The call goes to the computer.  An id is minted for a request_takeover.
ModelSend ==
  /\ call.pc = "checked"
  /\ IF task # "running" \/ (call.tool = "ask" /\ nextId > MaxId)
       THEN call' = NoCall /\ UNCHANGED <<nextId, wire>>
       ELSE IF call.tool = "ask"
       THEN /\ call' = [call EXCEPT !.pc = "asked", !.id = nextId]
            /\ wire' = Append(wire, [id |-> nextId, by |-> "model"])
            /\ nextId' = nextId + 1
       ELSE call' = [call EXCEPT !.pc = "sent"] /\ UNCHANGED <<nextId, wire>>
  /\ UNCHANGED <<store, timers, needsSync, control, op, cancel, input,
                 gate, epoch, acting, frozen, page, driver>>

\* gateMethod: a busy session refuses the call, an idle one starts to act.
ModelServe ==
  LET r == call.tool IN
  /\ call.pc = "sent"
  /\ Free(r)
  /\ IF IsTakeoverBusy(gate[r].state)
       THEN call' = NoCall /\ UNCHANGED acting
       ELSE acting' = acting \cup {r} /\ call' = [call EXCEPT !.pc = "acting"]
  /\ UNCHANGED <<store, nextId, timers, needsSync, control, op, cancel, input,
                 gate, epoch, wire, frozen, page, driver>>

ActDone(r) ==
  /\ r \in acting
  /\ acting' = acting \ {r}
  /\ call' = IF call.pc = "acting" /\ call.tool = r THEN NoCall ELSE call
  /\ UNCHANGED <<store, nextId, timers, needsSync, control, op, cancel, input,
                 gate, epoch, wire, frozen, page, driver>>

\* The dispatcher gives up on a slow act; the computer does not.
ModelTimeout ==
  /\ "timeout" \in Enabled
  /\ call.pc = "acting"
  /\ call' = NoCall
  /\ UNCHANGED <<store, nextId, timers, needsSync, control, op, cancel, input, computer>>

\* recordTakeover: the row of a request the computer has taken.
ModelAsked ==
  /\ call.pc = "asked"
  /\ call.res # "none"
  /\ IF call.res = "ok" THEN Insert(call.id, NoDevice, call.seen, TRUE) ELSE UNCHANGED row
  /\ call' = NoCall
  /\ UNCHANGED <<task, nextId, timers, needsSync, control, op, cancel, input, computer>>

\* busyAfterTakeoverFailure: the row is written though the computer never answered.
ModelAskTimeout ==
  /\ "timeout" \in Enabled
  /\ call.pc = "asked"
  /\ call.res = "none"
  /\ Insert(call.id, NoDevice, 0, TRUE)
  /\ needsSync' = needsSync \cup {call.id}
  /\ call' = NoCall
  /\ UNCHANGED <<task, nextId, timers, control, op, cancel, input, computer>>

-----------------------------------------------------------------------------
(* The lease and the live input of the person who drives.                  *)

Lapse(i) ==
  /\ row[i].lease = "running"
  /\ row[i].state = "human"
  /\ row' = [row EXCEPT ![i].lease = "lapsed"]
  /\ UNCHANGED <<task, daemon, computer>>

\* validateLiveRelayFrame: the active hold is human, in time, and this device's.
MayType(d, ep) ==
  \E i \in Id : /\ IsActive(i)
                /\ row[i].state = "human"
                /\ row[i].lease = "running"
                /\ row[i].owner = d
                /\ row[i].epoch = ep
                /\ ep > 0

SendInput(d, ep) ==
  /\ input.pc = "none"
  /\ MayType(d, ep)
  /\ input' = [pc |-> "queued", dev |-> d, epoch |-> ep]
  /\ UNCHANGED <<store, nextId, timers, needsSync, control, op, cancel, call, computer>>

\* The frame was queued behind others: it is validated again.
RelayInput ==
  /\ input.pc = "queued"
  /\ input' = IF MayType(input.dev, input.epoch) THEN [input EXCEPT !.pc = "sent"] ELSE NoInput
  /\ UNCHANGED <<store, nextId, timers, needsSync, control, op, cancel, call, computer>>

\* A bug: the frame is only checked for a person being in control.
TakesAnyInput == gate["browser"].state = "human"

\* gateMethod of live.*: the gate is human and the frame of its epoch.
TakesInput == gate["browser"].state = "human" /\ input.epoch = epoch

DeliverInput ==
  /\ input.pc = "sent"
  /\ Free("browser")
  /\ IF TakesInput
       THEN page' \in {"clean", "private"} ELSE UNCHANGED page
  /\ input' = NoInput
  /\ UNCHANGED <<store, nextId, timers, needsSync, control, op, cancel, call,
                 gate, epoch, wire, acting, frozen, driver>>

-----------------------------------------------------------------------------
(* The computer-server of a role is gone; the next request starts another. *)

\* A handler between the two halves of both() fails with the process, and so
\* does one that waits for the browser's answer.
Interrupted(R, h) ==
  CASE op[h].pc = "shell" /\ "shell" \in R                             -> [op[h] EXCEPT !.pc = AfterRefusal(h)]
    [] op[h].pc = "inspect" /\ "browser" \in R                         -> [op[h] EXCEPT !.pc = "refused"]
    [] op[h].pc = "asked" /\ op[h].res = "none" /\ "browser" \in R     -> [op[h] EXCEPT !.res = "refused"]
    [] OTHER                                                           -> op[h]

CallInterrupted(R) ==
  CASE call.pc = "asked" /\ call.res = "none" /\ "browser" \in R       -> [call EXCEPT !.res = "refused"]
    [] call.pc \in {"sent", "acting"} /\ call.tool \in R               -> NoCall
    [] OTHER                                                           -> call

\* A fresh process starts in agent, at epoch 1, with an empty page.
FreshProcesses(R) ==
  /\ gate' = [r \in Role |-> IF r \in R THEN FreshSession ELSE gate[r]]
  /\ acting' = acting \ R
  /\ call' = CallInterrupted(R)
  /\ IF "browser" \in R
       THEN /\ epoch' = 1
            /\ wire' = <<>>
            /\ page' = "clean"
            /\ input' = IF input.pc = "sent" THEN NoInput ELSE input
       ELSE UNCHANGED <<epoch, wire, page, input>>

\* The transport of one role fails (exec-client.ts reconnects on the next call).
LoseSession(r) ==
  /\ (r = "browser" /\ "lostBrowser" \in Enabled) \/ (r = "shell" /\ "lostShell" \in Enabled)
  /\ gate[r] # FreshSession \/ r \in acting
  /\ FreshProcesses({r})
  /\ op' = [h \in Handler |-> Interrupted({r}, h)]
  /\ UNCHANGED <<store, nextId, timers, needsSync, control, cancel, frozen, driver>>

-----------------------------------------------------------------------------
(* Cancelling the task: beginCancel and runCancelTeardown.                 *)

\* store.cancelTask ends unanswered requests, settleTaskHolds hands back the rest.
CancelTask ==
  /\ "cancel" \in Enabled
  /\ task = "running"
  /\ task' = "cancelled"
  /\ row' = [i \in Id |-> IF row[i].ofTask /\ IsTakeoverBusy(row[i].state)
                            THEN [row[i] EXCEPT !.state = IF Held(i) THEN "agent" ELSE "terminated"]
                            ELSE row[i]]
  /\ timers' = {i \in timers : ~(row[i].ofTask /\ Held(i))}
  /\ cancel' = [pc |-> "gate", pass |-> 1]
  /\ UNCHANGED <<nextId, needsSync, control, op, call, input, computer>>

\* The first two passes clear an unanswered freeze, the teardown follows, and
\* the last pass also takes a human hold back.
NextPass ==
  cancel' = CASE cancel.pass = 1           -> [pc |-> "gate", pass |-> 2]
              [] cancel.pass = 2           -> [pc |-> "teardown", pass |-> 2]
              [] OTHER                     -> [pc |-> "done", pass |-> 3]

StopCall(event, i) ==
  /\ op[Stop].pc = "idle"
  /\ Begin(Stop, "stop", "status", event, i, NoDevice)
  /\ Queue(Stop)
  /\ cancel' = [cancel EXCEPT !.pc = "wait"]

\* returnTaskTakeoverGate looks at the gate of the computer's latest takeover; a
\* gate that does not answer in three seconds is declined.
CancelGate ==
  /\ cancel.pc = "gate"
  /\ LET s == gate["browser"].state IN
     \/ /\ ~\E i \in Id : IsLatest(i) /\ row[i].ofTask
        /\ NextPass
        /\ UNCHANGED <<op, control>>
     \/ \E i \in Id :
          /\ IsLatest(i)
          /\ row[i].ofTask
          /\ "slowCancel" \in Enabled
          /\ StopCall("decline", i)
     \/ \E i \in Id :
          /\ IsLatest(i)
          /\ row[i].ofTask
          /\ Free("browser")
          /\ CASE s \in {"agent", "terminated"} -> NextPass /\ UNCHANGED <<op, control>>
               [] s \in {"human", "resume_validating"} /\ cancel.pass < 3 ->
                    NextPass /\ UNCHANGED <<op, control>>
               [] s \in {"human", "resume_validating"} /\ cancel.pass = 3 ->
                    cancel' = [cancel EXCEPT !.pc = "blank"] /\ UNCHANGED <<op, control>>
               [] OTHER -> StopCall("decline", i)
  /\ UNCHANGED <<store, nextId, timers, needsSync, call, input, computer>>

CancelBlank ==
  /\ cancel.pc = "blank"
  /\ Free("browser")
  /\ page' = IF gate["browser"].state \in {"human", "paused"} THEN "clean" ELSE page
  /\ \E i \in Id : IsLatest(i) /\ StopCall("release", i)
  /\ UNCHANGED <<store, nextId, timers, needsSync, call, input,
                 gate, epoch, wire, acting, frozen, driver>>

\* The call has answered, or three seconds are over and it goes on behind the
\* cancellation's back.  A decline that did not succeed leads to a thaw.
CancelWait ==
  /\ cancel.pc = "wait"
  /\ op[Stop].pc = "idle" \/ "slowCancel" \in Enabled
  /\ IF op[Stop].call = "decline" /\ ~(op[Stop].pc = "idle" /\ op[Stop].res = "ok") /\ Native
       THEN cancel' = [cancel EXCEPT !.pc = "thaw"]
       ELSE NextPass
  /\ op' = IF op[Stop].pc = "idle" THEN [op EXCEPT ![Stop] = NoOp] ELSE op
  /\ UNCHANGED <<store, nextId, timers, needsSync, control, call, input, computer>>

\* This thaw does not hold the computer.
CancelThaw ==
  /\ cancel.pc = "thaw"
  /\ \/ frozen' = FALSE
     \/ "nativeFails" \in Enabled /\ UNCHANGED frozen
  /\ NextPass
  /\ UNCHANGED <<store, nextId, timers, needsSync, control, op, call, input,
                 gate, epoch, wire, acting, page, driver>>

\* The teardown waits its turn for the computer.
CancelTeardown ==
  /\ cancel.pc = "teardown"
  /\ op[Stop].pc = "idle"
  /\ Begin(Stop, "teardown", "close", "none", NoId, NoDevice)
  /\ Queue(Stop)
  /\ cancel' = [pc |-> "wait", pass |-> 3]
  /\ UNCHANGED <<store, nextId, timers, needsSync, call, input, computer>>

\* With no active hold and no person in control, as far as the gate answers in
\* time, both processes are replaced and the native processes thawed, unless the
\* fresh browser does not answer; a thaw that fails ends the cancellation here.
CancelClose ==
  /\ Holds(Stop)
  /\ op[Stop].pc = "close"
  /\ Unlock
  /\ \E answers \in BOOLEAN :
     /\ IF answers THEN Free("browser") ELSE "slowCancel" \in Enabled
     /\ IF /\ NoneActive
           /\ answers => gate["browser"].state \in {"agent", "takeover_requested", "terminated"}
       THEN /\ FreshProcesses(Role)
            /\ op' = [h \in Handler |-> IF h = Stop THEN NoOp ELSE Interrupted(Role, h)]
            /\ \/ frozen' = FALSE /\ cancel' = [cancel EXCEPT !.pc = "gate"]
               \/ /\ "slowCancel" \in Enabled
                  /\ cancel' = [cancel EXCEPT !.pc = "gate"] /\ UNCHANGED frozen
               \/ /\ "nativeFails" \in Enabled /\ Native
                  /\ cancel' = [cancel EXCEPT !.pc = "done"] /\ UNCHANGED frozen
       ELSE /\ op' = [op EXCEPT ![Stop] = NoOp]
            /\ cancel' = [cancel EXCEPT !.pc = "gate"]
            /\ UNCHANGED <<gate, epoch, wire, acting, call, input, page, frozen>>
  /\ UNCHANGED <<store, nextId, timers, needsSync, driver>>

-----------------------------------------------------------------------------
HandlerStep(h) ==
  \/ Observe(h) \/ Recheck(h) \/ Blank(h)
  \/ Freeze(h) \/ Status(h) \/ Sync(h) \/ Browser(h) \/ Shell(h) \/ Inspect(h)
  \/ StillSensitive(h) \/ Thaw(h) \/ Ask(h) \/ Undo(h) \/ Refused(h) \/ Commit(h)

Operator(h) ==
  \/ \E i \in Id : (\E d \in Device : Acquire(h, d, i)) \/ Decline(h, i) \/ Release(h, i)
  \/ Request(h) \/ RequestReply(h) \/ RequestTimeout(h)

Model ==
  \/ \E tool \in Role \cup {"ask"} : ModelCall(tool)
  \/ ModelSend \/ ModelServe \/ ModelTimeout \/ ModelAsked \/ ModelAskTimeout
  \/ \E r \in Role : ActDone(r)

Live ==
  \/ \E d \in Device, i \in Id : SendInput(d, row[i].epoch)
  \/ RelayInput \/ DeliverInput

Cancellation ==
  CancelTask \/ CancelGate \/ CancelBlank \/ CancelWait \/ CancelThaw
  \/ CancelTeardown \/ CancelClose

Next ==
  \/ \E h \in Handler : HandlerStep(h)
  \/ \E h \in Web : Operator(h)
  \/ \E i \in Id : Fire(i) \/ Lapse(i)
  \/ ServeRequest
  \/ Model
  \/ Live
  \/ Cancellation
  \/ \E r \in Role : LoseSession(r)

Spec == Init /\ [][Next]_vars

\* A process serves what it has received in order, so a handler that waits for
\* it is not overtaken for ever (strong fairness); acts end, timers fire, and
\* the daemon's loop runs every continuation (weak fairness).  What a person
\* or the model does is not assumed.
Fairness ==
  /\ \A h \in Handler : SF_vars(HandlerStep(h))
  /\ \A h \in Web : WF_vars(op[h].pc = "entry" /\ Request(h)) /\ WF_vars(RequestReply(h))
  /\ WF_vars(ServeRequest)
  /\ \A r \in Role : WF_vars(ActDone(r))
  /\ \A i \in Id : SF_vars(Fire(i))

LiveSpec == Spec /\ Fairness

-----------------------------------------------------------------------------
\* No action of the model is in flight, on either process, while a person
\* holds the browser gate: the capture barrier of dispatch.ts takeover.grant
\* and the order of grantTakeover in exec-client.ts.
NoModelActWhileHuman == gate["browser"].state = "human" => acting = {}

\* Why it holds.  An act in flight is behind an open gate; while a person has the
\* browser the shell is shut; a handler between a gate and the next one has the
\* computer to itself, so a grant finds the shell it has synced still shut, and
\* nobody has been let in again when a handback reaches the shell.
Driven == gate["browser"].state \in {"human", "resume_validating"}
InHand(h) == \/ op[h].pc \in {"sync", "shell"}
             \/ op[h].pc = "browser" /\ op[h].call # "ttl"
Granting(h) == op[h].pc = "browser" /\ op[h].call = "grant"
Returning(h) == op[h].pc = "shell" /\ op[h].call \in {"decline", "validated", "stop"}

\* The five facts, as changeControl, both() and the gates of the two processes keep them.
CaptureInv ==
  /\ \A r \in acting : ~IsTakeoverBusy(gate[r].state)
  /\ Driven => IsTakeoverBusy(gate["shell"].state)
  /\ \A h \in Handler : InHand(h) => Holds(h)
  /\ \A h \in Handler : Granting(h) => IsTakeoverBusy(gate["shell"].state)
  /\ \A h \in Handler : Returning(h) => ~Driven

\* While a person drives, the guest's native processes are stopped: the grant
\* wrapper of server.ts freezes them before it asks the gates, and no late or
\* refused handler thaws them under the person (thawIfAgent).
FrozenWhileHuman == Native /\ gate["browser"].state = "human" => frozen

AtRest == /\ control = <<>>
          /\ wire = <<>>
          /\ cancel.pc \in {"none", "done"}
          /\ \A h \in Handler : op[h].pc = "idle"

\* A computer that is back with the model does not stay frozen: every way to end
\* a hold, or to fail to begin one, reaches returnNativeControl or thawIfAgent.
ThawedAtRest == AtRest /\ gate["browser"].state = "agent" => ~frozen

\* Once every handler has answered, the gate and the durable rows tell the
\* same story: a held gate has its human row, a human row its held gate, with
\* the device that took it and the epoch its input is checked against.
GateHasRow ==
  AtRest /\ gate["browser"].state = "human" =>
    \E i \in Id : gate["browser"].id = i /\ row[i].state = "human"

RowHasGate ==
  AtRest => \A i \in Id : row[i].state = "human" =>
    /\ gate["browser"] = [state |-> "human", id |-> i]
    /\ gate["shell"] = gate["browser"]
    /\ row[i].owner = driver
    /\ row[i].epoch = epoch

\* Both: no acquire, handback or expiry of server.ts leaves one side behind.
RowsMatchGate == GateHasRow /\ RowHasGate

\* What appears on the page was typed by the device that took the hold: a frame
\* queued by an earlier holder never reaches a later one's desktop
\* (validateLiveRelayFrame in the daemon, gateMethod in the browser).
OnlyHolderTypes == [][page' = "private" /\ page = "clean" => input.dev = driver]_vars

\* A handback that goes through takeover.validate never shows the model a private
\* page, whatever was typed between the observation and the release.
ValidatedIsClean ==
  [][gate["browser"].state = "resume_validating" /\ gate'["browser"].state = "agent"
       => page' = "clean"]_vars

\* A closed row is never reopened by a handler that was already on its way, nor
\* by a late grant, unless the computer has yet to be told of its takeover.
ClosedRowsStayClosed ==
  [][\A i \in Id : Known(i) /\ i \notin needsSync /\ row[i].state \in {"agent", "terminated"}
       => row'[i].state \in {"agent", "terminated"}]_vars

\* Every handler answers: changeControl lets nobody wait for the computer for ever.
HandlersAnswer == \A h \in Handler : op[h].pc # "idle" ~> op[h].pc = "idle"

\* A hold whose lease has run out ends, paused by expireTakeover or already handed back.
LapsedHoldEnds ==
  \A i \in Id : row[i].state = "human" /\ row[i].lease = "lapsed" ~> row[i].state # "human"

\* The rows, leases, messages and processes implement the capture barrier.
Barrier == INSTANCE CaptureBarrier WITH
  Person <- Device,
  Nobody <- NoDevice,
  Desktop <- "browser",
  driver <- IF gate["browser"].state = "human" THEN driver ELSE NoDevice,
  shut <- {r \in Role : IsTakeoverBusy(gate[r].state)}
\* Every step of the daemon and of the computer-server is a step of the barrier,
\* or leaves the driver, the doors, the acts in flight and the page as they are.
ImplementsBarrier == Barrier!BarrierSpec

-----------------------------------------------------------------------------
\* What is written of the code and is not so; no run lists these.

\* A release of a hold that the browser has already returned, but whose thaw
\* failed, goes on to thaw instead of being refused (server.ts:1368). The gate
\* has dropped the id by then, and the retry is not recognised.
ReleaseRetriesThaw ==
  [][\A h \in Handler :
       /\ op[h].kind = "release" /\ op[h].pc = "refused"
       /\ frozen /\ gate["browser"].state = "agent" /\ row[op[h].id].state = "human"
       => op'[h].pc \in {"refused", "thaw"}]_vars

\* A hold with a private page comes back to the model only through validation:
\* the decline of a paused hold included (ARCHITECTURE.md:43). The decline does
\* not look at the page.
HandbackIsValidated ==
  [][gate["browser"].state = "paused" /\ gate'["browser"].state = "agent"
       => page' = "clean"]_vars

\* An unanswered request that the browser knows by this id can be declined
\* (server.ts:4054). After an expired hold the shell is paused under the old id.
RequestCanBeDeclined ==
  [][\A h \in Handler :
       /\ op[h].kind = "decline" /\ op[h].pc = "status"
       /\ gate["browser"] = [state |-> "takeover_requested", id |-> op[h].id]
       => op'[h].pc # "refused"]_vars
=============================================================================
