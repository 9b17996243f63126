-------------------------- MODULE Takeover_proofs --------------------------
(***************************************************************************)
(* Theorems of Takeover for every set of devices and slots, every bound on *)
(* ids and every choice of accidents.                                      *)
(***************************************************************************)
EXTENDS Takeover, SequenceTheorems, TLAPS

\* The names of the events and of the durable states.
LEMMA EventNames ==
  TakeoverEvent = {"request", "grant", "decline", "release", "validated",
                   "still_sensitive", "ttl", "stop"}
BY DEF TakeoverEvent, TargetOf

\* The states a durable row can have.
LEMMA RowStateNames ==
  RowState = {"agent", "takeover_requested", "human", "paused", "terminated"}
BY DEF RowState, TakeoverState

\* Fields read from a handler's slot.
LEMMA SlotType ==
  ASSUME TypeOK, NEW h \in Handler
  PROVE  /\ op[h] \in Op
         /\ op[h].kind \in Kind /\ op[h].pc \in Pc
         /\ op[h].call \in TakeoverEvent \cup {"none"}
         /\ op[h].id \in Id \cup {NoId} /\ op[h].prior \in Id \cup {NoId}
         /\ \/ op[h].pc \in {"idle", "entry", "close"}
            \/ op[h].id \in Id /\ (op[h].call \in TakeoverEvent \/ op[h].pc = "asked")
         /\ op[h].dev \in Device \cup {NoDevice} /\ op[h].seen \in Nat
         /\ op[h].res \in {"none", "ok", "refused", "again"}
<1>1. op[h] \in Op
  BY DEF TypeOK
<1>2. \/ op[h].pc \in {"idle", "entry", "close"}
      \/ op[h].id \in Id /\ (op[h].call # "none" \/ op[h].pc = "asked")
  BY <1>1 DEF Op
<1> QED
  BY <1>1, <1>2 DEF Op

\* The empty slot is a slot.
LEMMA NoOpType == NoOp \in Op
BY DEF NoOp, Op, Kind, Pc

\* What a handler's slot may become.
LEMMA OpValueType ==
  ASSUME TypeOK, NEW h \in Handler, NEW o \in Op, op' = [op EXCEPT ![h] = o]
  PROVE  op' \in [Handler -> Op]
BY DEF TypeOK

\* A handler that ends leaves a slot.
LEMMA IdleType ==
  ASSUME TypeOK, NEW h \in Handler, op' = [op EXCEPT ![h] = NoOp]
  PROVE  op' \in [Handler -> Op]
BY OpValueType, NoOpType

\* A slot at work on a takeover moves on within its own call.
LEMMA SlotMoves ==
  ASSUME TypeOK, NEW h \in Handler, op[h].id \in Id, NEW pc \in Pc,
         NEW e \in TakeoverEvent \cup {"none"}, e # "none" \/ pc = "asked",
         NEW res \in {"none", "ok", "refused", "again"}, NEW n \in Nat
  PROVE  [op[h] EXCEPT !.pc = pc, !.call = e, !.res = res, !.seen = n] \in Op
<1>1. op[h] \in [kind : Kind, pc : Pc, call : TakeoverEvent \cup {"none"}, id : Id \cup {NoId},
                 dev : Device \cup {NoDevice}, res : {"none", "ok", "refused", "again"},
                 prior : Id \cup {NoId}, seen : Nat]
  BY DEF TypeOK, Op
<1> DEFINE o == [op[h] EXCEPT !.pc = pc, !.call = e, !.res = res, !.seen = n]
<1>2. o \in [kind : Kind, pc : Pc, call : TakeoverEvent \cup {"none"}, id : Id \cup {NoId},
              dev : Device \cup {NoDevice}, res : {"none", "ok", "refused", "again"},
              prior : Id \cup {NoId}, seen : Nat]
  BY <1>1
<1>3. o.pc = pc /\ o.id = op[h].id /\ o.call = e
  BY <1>1
<1> QED
  BY <1>2, <1>3 DEF Op

\* A handler that answers leaves a slot, whatever its kind reads of it later.
LEMMA AnswerType ==
  ASSUME TypeOK, NEW h \in Handler, NEW outcome \in {"ok", "refused"}, Answer(h, outcome)
  PROVE  op' \in [Handler -> Op]
<1> DEFINE again == [NoOp EXCEPT !.kind = "request", !.pc = "entry", !.res = "again"]
           stopped == [NoOp EXCEPT !.kind = "stop", !.call = op[h].call, !.res = outcome]
<1>1. again \in Op
  BY DEF NoOp, Op, Kind, Pc
<1>2. stopped \in Op
  BY SlotType DEF NoOp, Op, Kind, Pc
<1>3. \E o \in {again, stopped, NoOp} : op' = [op EXCEPT ![h] = o]
  BY DEF Answer
<1> QED
  BY <1>1, <1>2, <1>3, NoOpType, OpValueType

\* A handler at work goes from one step of its own to the next.
LEMMA GotoType ==
  ASSUME TypeOK, NEW h \in Handler, op[h].pc \notin {"idle", "entry", "close", "asked"},
         NEW pc \in Pc, Goto(h, pc)
  PROVE  op' \in [Handler -> Op]
<1>1. op[h].id \in Id /\ op[h].call # "none"
  BY DEF Op, TypeOK
<1>2. [op[h] EXCEPT !.pc = pc] \in Op
  BY <1>1, SlotType DEF Op
<1>3. op' = [op EXCEPT ![h] = [op[h] EXCEPT !.pc = pc]]
  BY DEF Goto
<1> QED
  BY <1>2, <1>3, OpValueType

\* A handler that starts on a takeover fills its slot.
LEMMA BeginType ==
  ASSUME TypeOK, NEW h \in Handler, NEW kind \in Kind, NEW pc \in Pc,
         NEW e \in TakeoverEvent \cup {"none"}, NEW i \in Id \cup {NoId},
         NEW d \in Device \cup {NoDevice}, pc = "close" \/ (i \in Id /\ e # "none"),
         Begin(h, kind, pc, e, i, d)
  PROVE  op' \in [Handler -> Op]
<1>1. [NoOp EXCEPT !.kind = kind, !.pc = pc, !.call = e, !.id = i, !.dev = d] \in Op
  BY DEF NoOp, Op
<1> QED
  BY <1>1, OpValueType DEF Begin

\* What TakeoverSession makes of an event it accepts is a session.
LEMMA AnsweredType ==
  ASSUME NEW s \in Session, NEW e \in TakeoverEvent
  PROVE  Answered(s, e) \in Session
BY DEF Answered, After, Legal, Session, TakeoverState, TakeoverEvent, TargetOf, SourceOf, NoId

\* A refused handler has somewhere to go.
LEMMA RefusalPc ==
  ASSUME NEW h \in Handler
  PROVE  /\ AfterRefusal(h) \in {"refused", "ask", "undo"}
         /\ AfterAcceptance(h) \in {"inspect", "sensitive", "thaw", "commit"}
BY DEF AfterRefusal, AfterAcceptance

\* changeControl appends a handler to its queue.
LEMMA QueueType ==
  ASSUME TypeOK, NEW h \in Handler, Queue(h)
  PROVE  control' \in Seq(Handler)
BY DEF TypeOK, Queue

\* changeControl lets the head of its queue go.
LEMMA UnlockType ==
  ASSUME TypeOK, NEW h \in Handler, Holds(h), Unlock
  PROVE  control' \in Seq(Handler)
BY DEF TypeOK, Holds, Unlock

\* One row changed in one field.
LEMMA RowStateType ==
  ASSUME NEW rows \in [Id -> Row], NEW i, NEW st \in RowState
  PROVE  [rows EXCEPT ![i].state = st] \in [Id -> Row]
<1>1. i \in Id => [rows[i] EXCEPT !.state = st] \in Row
  BY DEF Row
<1>2. [rows EXCEPT ![i].state = st] = [rows EXCEPT ![i] = [rows[i] EXCEPT !.state = st]]
  OBVIOUS
<1> QED
  BY <1>1, <1>2

\* insertTakeover writes a row.
LEMMA InsertType ==
  ASSUME TypeOK, NEW i, NEW owner \in Device \cup {NoDevice}, NEW ep \in Nat,
         NEW ofTask \in BOOLEAN, Insert(i, owner, ep, ofTask)
  PROVE  row' \in [Id -> Row]
<1>1. PICK b \in 1 .. MaxId :
        row' = [row EXCEPT ![i] =
                 [state |-> "takeover_requested", owner |-> owner, epoch |-> ep,
                  lease |-> "none", ofTask |-> ofTask, born |-> b]]
  BY DEF Insert
<1>2. [state |-> "takeover_requested", owner |-> owner, epoch |-> ep,
       lease |-> "none", ofTask |-> ofTask, born |-> b] \in Row
  BY TakeoverAssumption DEF Row, RowState, TakeoverState
<1> QED
  BY <1>1, <1>2 DEF TypeOK

\* A handler that starts, or looks at the page before it queues, keeps the types.
LEMMA AcquireType ==
  ASSUME TypeOK, NEW h \in Web, NEW d \in Device, NEW i \in Id, Acquire(h, d, i)
  PROVE  TypeOK'
BY BeginType, QueueType, EventNames DEF Acquire, Kind, Pc, Handler, TypeOK, store, daemon, computer

\* Decline keeps the types.
LEMMA DeclineType ==
  ASSUME TypeOK, NEW h \in Web, NEW i \in Id, Decline(h, i)
  PROVE  TypeOK'
BY BeginType, QueueType, EventNames DEF Decline, Kind, Pc, Handler, TypeOK, store, daemon, computer

\* Release keeps the types.
LEMMA ReleaseType ==
  ASSUME TypeOK, NEW h \in Web, NEW i \in Id, Release(h, i)
  PROVE  TypeOK'
<1>1. op' \in [Handler -> Op]
  <2>1. PICK first \in {"observe", "blank"} :
          IF row[i].state = "human" THEN Begin(h, "release", first, "release", i, NoDevice)
                                    ELSE Begin(h, "return", first, "decline", i, NoDevice)
    BY DEF Release
  <2> QED
    <3>1. h \in Handler /\ first \in Pc /\ i \in Id \cup {NoId} /\ NoDevice \in Device \cup {NoDevice}
      BY <2>1 DEF Handler, Pc
    <3>2. {"release", "return"} \subseteq Kind /\ {"release", "decline"} \subseteq TakeoverEvent
      BY EventNames DEF Kind
    <3>3. CASE row[i].state = "human"
      BY <2>1, <3>1, <3>2, <3>3, BeginType
    <3>4. CASE row[i].state # "human"
      BY <2>1, <3>1, <3>2, <3>4, BeginType
    <3> QED
      BY <3>3, <3>4
<1> QED
  BY <1>1 DEF Release, TypeOK, store, computer

\* Observe keeps the types.
LEMMA ObserveType ==
  ASSUME TypeOK, NEW h \in Handler, Observe(h)
  PROVE  TypeOK'
BY GotoType, AnswerType, QueueType DEF Observe, Pc, TypeOK, store, daemon, computer

\* Recheck keeps the types.
LEMMA RecheckType ==
  ASSUME TypeOK, NEW h \in Handler, Recheck(h)
  PROVE  TypeOK'
BY GotoType, AnswerType, QueueType DEF Recheck, Pc, TypeOK, store, daemon, computer

\* Blank keeps the types.
LEMMA BlankType ==
  ASSUME TypeOK, NEW h \in Handler, Blank(h)
  PROVE  TypeOK'
BY GotoType, AnswerType, QueueType DEF Blank, Pc, TypeOK, store, daemon, computer

\* The lease timer keeps the types.
LEMMA FireType ==
  ASSUME TypeOK, NEW i \in Id, Fire(i)
  PROVE  TypeOK'
BY BeginType, QueueType, EventNames DEF Fire, Kind, Pc, Handler, TypeOK, store, daemon, computer

\* The freeze of the guest keeps the types.
LEMMA FreezeType ==
  ASSUME TypeOK, NEW h \in Handler, Freeze(h)
  PROVE  TypeOK'
BY GotoType DEF Freeze, Pc, TypeOK, store, daemon, computer

\* Status keeps the types.
LEMMA StatusType ==
  ASSUME TypeOK, NEW h \in Handler, Status(h)
  PROVE  TypeOK'
BY GotoType, RefusalPc DEF Status, Pc, TypeOK, store, daemon, computer

\* Sync, which moves the shell gate, keeps the types.
LEMMA SyncType ==
  ASSUME TypeOK, NEW h \in Handler, Sync(h)
  PROVE  TypeOK'
BY GotoType, SlotType DEF Sync, Pc, Session, Role, TakeoverState, TypeOK, store, daemon, computer

\* Inspect, which turns a release into its verdict, keeps the types.
LEMMA InspectType ==
  ASSUME TypeOK, NEW h \in Handler, Inspect(h)
  PROVE  TypeOK'
<1> DEFINE o == [op[h] EXCEPT !.pc = "browser", !.call = Verdict,
                              !.res = op[h].res, !.seen = op[h].seen]
<1>1. op[h].id \in Id /\ Verdict \in TakeoverEvent /\ Verdict # "none" /\ "browser" \in Pc
  BY SlotType, EventNames DEF Inspect, Verdict, Pc
<1>2. o \in Op
  BY <1>1, SlotMoves, SlotType
<1>3. op' = [op EXCEPT ![h] = o]
  BY SlotType DEF Inspect, Op
<1>4. op' \in [Handler -> Op]
  BY <1>2, <1>3, OpValueType
<1> QED
  BY <1>4 DEF Inspect, TypeOK, store, computer

\* StillSensitive, which may start the release over, keeps the types.
LEMMA StillSensitiveType ==
  ASSUME TypeOK, NEW h \in Handler, StillSensitive(h)
  PROVE  TypeOK'
<1> DEFINE o == [op[h] EXCEPT !.pc = "blank", !.call = "release",
                              !.res = "again", !.seen = op[h].seen]
<1>1. op[h].id \in Id /\ "release" \in TakeoverEvent /\ "blank" \in Pc
  BY SlotType, EventNames DEF StillSensitive, Pc
<1>2. o \in Op
  BY <1>1, SlotMoves, SlotType
<1>3. op' = [op EXCEPT ![h] = o] \/ Answer(h, "ok")
  BY SlotType DEF StillSensitive, Op
<1>4. op' \in [Handler -> Op]
  BY <1>2, <1>3, OpValueType, AnswerType
<1> QED
  BY <1>4, UnlockType DEF StillSensitive, TypeOK, store, computer

\* Thaw keeps the types.
LEMMA ThawType ==
  ASSUME TypeOK, NEW h \in Handler, Thaw(h)
  PROVE  TypeOK'
BY GotoType, AnswerType, UnlockType DEF Thaw, Pc, TypeOK, store, daemon, computer

\* Undo keeps the types.
LEMMA UndoType ==
  ASSUME TypeOK, NEW h \in Handler, Undo(h)
  PROVE  TypeOK'
BY AnswerType, UnlockType DEF Undo, TypeOK, store, daemon, computer

\* Refused keeps the types.
LEMMA RefusedType ==
  ASSUME TypeOK, NEW h \in Handler, Refused(h)
  PROVE  TypeOK'
BY GotoType, AnswerType, UnlockType DEF Refused, Pc, TypeOK, store, daemon, computer

\* The model's own steps keep the types.
LEMMA ModelCallType ==
  ASSUME TypeOK, NEW tool \in Role \cup {"ask"}, ModelCall(tool)
  PROVE  TypeOK'
<1>1. [NoCall EXCEPT !.pc = "checked", !.tool = tool] \in Call
  BY DEF NoCall, Call, Role
<1> QED
  BY <1>1 DEF ModelCall, TypeOK, store, computer

\* The empty call is a call.
LEMMA NoCallType == NoCall \in Call
BY DEF NoCall, Call

\* ModelSend, which may mint an id, keeps the types.
LEMMA ModelSendType ==
  ASSUME TypeOK, ModelSend
  PROVE  TypeOK'
<1>0. call \in Call /\ nextId \in Nat \ {0}
  BY DEF TypeOK
<1>1. CASE task # "running" \/ (call.tool = "ask" /\ nextId > MaxId)
  BY <1>1, NoCallType DEF ModelSend, TypeOK, store
<1>2. CASE task = "running" /\ call.tool = "ask" /\ ~(nextId > MaxId)
  <2>1. nextId \in Id
    BY <1>0, <1>2, TakeoverAssumption DEF Id
  <2>2. [call EXCEPT !.pc = "asked", !.id = nextId] \in Call
    BY <1>0, <2>1 DEF Call
  <2>3. Append(wire, [id |-> nextId, by |-> "model"]) \in Seq([id : Id, by : Web \cup {"model"}])
    BY <2>1 DEF TypeOK
  <2>4. nextId + 1 \in Nat \ {0}
    BY <1>0
  <2> QED
    BY <1>2, <2>2, <2>3, <2>4 DEF ModelSend, TypeOK, store
<1>3. CASE task = "running" /\ call.tool # "ask"
  <2>1. call.tool \in Role
    BY <1>0, <1>3 DEF ModelSend, Call
  <2>2. [call EXCEPT !.pc = "sent"] \in Call
    BY <1>0, <2>1 DEF Call
  <2> QED
    BY <1>3, <2>2 DEF ModelSend, TypeOK, store
<1> QED
  BY <1>1, <1>2, <1>3, <1>0 DEF ModelSend, TypeOK

\* ModelServe keeps the types.
LEMMA ModelServeType ==
  ASSUME TypeOK, ModelServe
  PROVE  TypeOK'
<1>1. call \in Call /\ call.tool \in Role
  BY DEF TypeOK, ModelServe, Call
<1>2. [call EXCEPT !.pc = "acting"] \in Call
  BY <1>1 DEF Call
<1> QED
  BY <1>1, <1>2, NoCallType DEF ModelServe, TypeOK, store

\* ActDone keeps the types.
LEMMA ActDoneType ==
  ASSUME TypeOK, NEW r \in Role, ActDone(r)
  PROVE  TypeOK'
BY DEF ActDone, NoCall, Call, TypeOK, store, daemon, computer

\* ModelTimeout keeps the types.
LEMMA ModelTimeoutType ==
  ASSUME TypeOK, ModelTimeout
  PROVE  TypeOK'
BY DEF ModelTimeout, NoCall, Call, TypeOK, store, daemon, computer

\* ModelAsked, which may write a row, keeps the types.
LEMMA ModelAskedType ==
  ASSUME TypeOK, ModelAsked
  PROVE  TypeOK'
BY InsertType DEF ModelAsked, NoCall, Call, TypeOK, store, daemon, computer

\* ModelAskTimeout, which writes a row all the same, keeps the types.
LEMMA ModelAskTimeoutType ==
  ASSUME TypeOK, ModelAskTimeout
  PROVE  TypeOK'
<1>1. call.id \in Id
  BY DEF ModelAskTimeout, TypeOK, Call
<1>2. row' \in [Id -> Row]
  BY InsertType DEF ModelAskTimeout
<1> QED
  BY <1>1, <1>2, NoCallType DEF ModelAskTimeout, TypeOK, computer

\* The end of a lease keeps the types.
LEMMA LapseType ==
  ASSUME TypeOK, NEW i \in Id, Lapse(i)
  PROVE  TypeOK'
BY DEF Lapse, Row, TypeOK, store, daemon, computer

\* SendInput keeps the types.
LEMMA SendInputType ==
  ASSUME TypeOK, NEW d \in Device, NEW i \in Id, SendInput(d, row[i].epoch)
  PROVE  TypeOK'
BY DEF SendInput, Input, Row, TypeOK, store, daemon, computer

\* RelayInput keeps the types.
LEMMA RelayInputType ==
  ASSUME TypeOK, RelayInput
  PROVE  TypeOK'
BY DEF RelayInput, NoInput, Input, TypeOK, store, daemon, computer

\* DeliverInput keeps the types.
LEMMA DeliverInputType ==
  ASSUME TypeOK, DeliverInput
  PROVE  TypeOK'
BY DEF DeliverInput, NoInput, Input, TypeOK, store, daemon, computer

\* Browser, the half of both() that decides, keeps the types.
LEMMA BrowserType ==
  ASSUME TypeOK, NEW h \in Handler, Browser(h)
  PROVE  TypeOK'
<1> DEFINE e == op[h].call
           s == gate["browser"]
<1>0. op[h].id \in Id /\ epoch \in Nat
  BY SlotType DEF Browser, TypeOK
<1>1. CASE Accepts(s, e, op[h].id)
  <2>1. e \in TakeoverEvent
    BY <1>1, SlotType DEF Browser, Shell
  <2>2. gate' \in [Role -> Session]
    BY <1>1, <2>1, AnsweredType, SMTT(30) DEF Browser, TypeOK, Role
  <2> DEFINE o == [op[h] EXCEPT !.pc = "shell", !.call = op[h].call,
                                !.res = op[h].res, !.seen = epoch]
  <2>3. o \in Op
    <3>1. op[h].call \in TakeoverEvent \cup {"none"} /\ op[h].call # "none" /\ "shell" \in Pc
      BY <2>1, EventNames DEF Pc
    <3> QED
      BY <1>0, <3>1, SlotMoves, SlotType
  <2>4. op' = [op EXCEPT ![h] = o]
    BY <1>1, SlotType DEF Browser, Op
  <2>5. op' \in [Handler -> Op]
    BY <2>3, <2>4, OpValueType
  <2>6. epoch' \in Nat /\ driver' \in Device \cup {NoDevice}
    BY <1>0, <1>1, SlotType DEF Browser, TypeOK
  <2> QED
    BY <2>2, <2>5, <2>6 DEF Browser, TypeOK, store
<1>2. CASE ~Accepts(s, e, op[h].id)
  BY <1>2, GotoType, RefusalPc DEF Browser, Pc, TypeOK, store
<1> QED
  BY <1>1, <1>2

\* Shell, the half of both() that follows, keeps the types.
LEMMA ShellType ==
  ASSUME TypeOK, NEW h \in Handler, Shell(h)
  PROVE  TypeOK'
<1> DEFINE e == op[h].call
           s == gate["shell"]
<1>1. CASE Accepts(s, e, op[h].id)
  <2>1. e \in TakeoverEvent
    BY <1>1, SlotType DEF Browser, Shell
  <2>2. gate' \in [Role -> Session]
    BY <1>1, <2>1, AnsweredType DEF Shell, TypeOK, Role
  <2>3. op' \in [Handler -> Op]
    BY <1>1, GotoType, RefusalPc DEF Shell, Pc
  <2> QED
    BY <2>2, <2>3 DEF Shell, TypeOK, store
<1>2. CASE ~Accepts(s, e, op[h].id)
  BY <1>2, GotoType, RefusalPc DEF Shell, Pc, TypeOK, store
<1> QED
  BY <1>1, <1>2

\* Ask keeps the types.
LEMMA AskType ==
  ASSUME TypeOK, NEW h \in Handler, Ask(h)
  PROVE  TypeOK'
<1>0. op[h].id \in Id
  BY SlotType DEF Ask
<1>1. CASE ModelMayAsk
  <2> DEFINE o == [op[h] EXCEPT !.pc = "status", !.call = op[h].call,
                                !.res = "again", !.seen = op[h].seen]
  <2>1. o \in Op
    <3>1. op[h].call \in TakeoverEvent \cup {"none"} /\ op[h].call # "none" /\ "status" \in Pc
      BY SlotType, EventNames DEF Pc, Ask
    <3> QED
      BY <1>0, <3>1, SlotMoves, SlotType
  <2>2. op' = [op EXCEPT ![h] = o]
    BY <1>1, SlotType DEF Ask, Op
  <2>3. op' \in [Handler -> Op]
    BY <2>1, <2>2, OpValueType
  <2>4. [state |-> "takeover_requested", id |-> op[h].id] \in Session
    BY <1>0 DEF Session, TakeoverState
  <2>5. epoch' \in Nat
    BY <1>1 DEF Ask, TypeOK
  <2> QED
    BY <1>1, <2>3, <2>4, <2>5 DEF Ask, TypeOK, store
<1>2. CASE ~ModelMayAsk
  BY <1>2, GotoType DEF Ask, Pc, TypeOK, store
<1> QED
  BY <1>1, <1>2

\* Commit, which writes the row, keeps the types.
LEMMA CommitType ==
  ASSUME TypeOK, NEW h \in Handler, Commit(h)
  PROVE  TypeOK'
<1> DEFINE i == op[h].id
<1>0. i \in Id /\ op[h].dev \in Device \cup {NoDevice} /\ op[h].seen \in Nat
  BY SlotType DEF Commit
<1>1. op' \in [Handler -> Op] /\ control' \in Seq(Handler)
  BY AnswerType, UnlockType DEF Commit
<1>2. row' \in [Id -> Row] /\ timers' \subseteq Id /\ needsSync' \subseteq Id
  <2>1. CASE op[h].kind = "acquire"
    <3> DEFINE q == [row[i] EXCEPT !.state = "human", !.owner = op[h].dev,
                                   !.lease = "running", !.epoch = op[h].seen]
    <3>1. row' = [row EXCEPT ![i] = q]
      BY <2>1, <1>0 DEF Commit, TypeOK
    <3>2. row[i] \in Row
      BY <1>0 DEF TypeOK
    <3>3. q \in Row
      BY <1>0, <3>2, RowStateNames DEF Row
    <3>4. row' \in [Id -> Row]
      BY <3>1, <3>3 DEF TypeOK
    <3> QED
      BY <2>1, <3>4, <1>0 DEF Commit, TypeOK
  <2>2. CASE op[h].kind \in {"release", "return", "decline"}
    <3>1. row' = [row EXCEPT ![i].state = "agent"] /\ timers' \subseteq Id /\ needsSync' \subseteq Id
      BY <2>2 DEF Commit, TypeOK
    <3> QED
      BY <3>1, RowStateType, RowStateNames DEF TypeOK
  <2>3. CASE op[h].kind \in {"expire", "request"}
    <3>1. row' = [row EXCEPT ![i].state = "paused"] /\ timers' \subseteq Id /\ needsSync' \subseteq Id
      BY <2>3 DEF Commit, TypeOK
    <3> QED
      BY <3>1, RowStateType, RowStateNames DEF TypeOK
  <2>4. CASE op[h].kind \notin {"acquire", "release", "return", "decline", "expire", "request"}
    BY <2>4 DEF Commit, TypeOK
  <2> QED
    BY <2>1, <2>2, <2>3, <2>4
<1> QED
  BY <1>1, <1>2 DEF Commit, TypeOK, computer

\* POST takeover/request keeps the types in each of its outcomes.
LEMMA RequestType ==
  ASSUME TypeOK, NEW h \in Web, Request(h)
  PROVE  TypeOK'
<1>0. h \in Handler
  BY DEF Handler
<1>1. ASSUME NEW prior \in Id, RequestExpires(h, prior)
      PROVE  TypeOK'
  <2>1. op' \in [Handler -> Op]
    BY <1>0, <1>1, IdleType, BeginType, EventNames DEF RequestExpires, Kind, Pc
  <2> QED
    BY <1>0, <1>1, <2>1, QueueType DEF RequestExpires, Request, TypeOK
<1>2. ASSUME NEW prior \in Id, RequestJoins(h, prior)
      PROVE  TypeOK'
  BY <1>0, <1>2, IdleType DEF RequestJoins, Request, TypeOK
<1>3. ASSUME NEW prior \in Id \cup {NoId}, NEW t \in BOOLEAN, RequestInserts(h, prior, t)
      PROVE  TypeOK'
  <2>0. nextId \in Id
    BY <1>3, TakeoverAssumption DEF RequestInserts, TypeOK, Id
  <2>1. row' \in [Id -> Row]
    <3>1. CASE prior = NoId
      BY <1>3, <3>1, InsertType DEF RequestInserts
    <3>2. CASE prior # NoId
      <4>1. row[prior].owner \in Device \cup {NoDevice} /\ row[prior].ofTask \in BOOLEAN
        BY <3>2 DEF TypeOK, Row
      <4> QED
        BY <1>3, <3>2, <4>1, InsertType DEF RequestInserts
    <3> QED
      BY <3>1, <3>2
  <2>2. wire' \in Seq([id : Id, by : Web \cup {"model"}])
    BY <1>3, <2>0 DEF RequestInserts, TypeOK
  <2> DEFINE o == [NoOp EXCEPT !.kind = "request", !.pc = "asked", !.id = nextId, !.prior = prior]
  <2>3. o \in Op
    BY <2>0 DEF NoOp, Op, Kind, Pc
  <2>4. op' \in [Handler -> Op]
    BY <1>0, <1>3, <2>3, OpValueType DEF RequestInserts
  <2>5. nextId' \in Nat \ {0}
    BY <1>3 DEF RequestInserts, TypeOK
  <2> QED
    BY <1>3, <2>1, <2>2, <2>4, <2>5 DEF RequestInserts, Request, TypeOK
<1>4. CASE RequestOutOfIds(h)
  BY <1>0, <1>4, IdleType DEF RequestOutOfIds, Request, TypeOK
<1> QED
  BY <1>1, <1>2, <1>3, <1>4 DEF Request

\* Closing the prior hold writes a table of rows.
LEMMA ClosePriorType ==
  ASSUME NEW h, NEW rows \in [Id -> Row]
  PROVE  ClosePrior(h, rows) \in [Id -> Row]
BY RowStateType, RowStateNames DEF ClosePrior

\* RequestReply keeps the types.
LEMMA RequestReplyType ==
  ASSUME TypeOK, NEW h \in Web, RequestReply(h)
  PROVE  TypeOK'
<1> DEFINE i == op[h].id
<1>0. h \in Handler /\ i \in Id /\ op[h].seen \in Nat
  BY SlotType DEF Handler, RequestReply
<1>1. row' \in [Id -> Row] /\ timers' \subseteq Id /\ needsSync' \subseteq Id
  <2>1. CASE op[h].res = "refused"
    <3>1. row' = [row EXCEPT ![i].state = "terminated"]
      BY <2>1 DEF RequestReply
    <3> QED
      BY <2>1, <3>1, RowStateType, RowStateNames DEF RequestReply, TypeOK
  <2>2. CASE op[h].res # "refused"
    <3> DEFINE rows == IF row[i].state = "takeover_requested"
                         THEN [row EXCEPT ![i].epoch = op[h].seen] ELSE row
    <3>1. rows \in [Id -> Row]
      <4>1. [row[i] EXCEPT !.epoch = op[h].seen] \in Row
        BY <1>0, ZenonT(30) DEF TypeOK, Row
      <4>2. [row EXCEPT ![i].epoch = op[h].seen] = [row EXCEPT ![i] = [row[i] EXCEPT !.epoch = op[h].seen]]
        OBVIOUS
      <4> QED
        BY <4>1, <4>2 DEF TypeOK
    <3>2. row' = ClosePrior(h, rows)
      BY <2>2 DEF RequestReply
    <3>3. row' \in [Id -> Row]
      BY <3>1, <3>2, ClosePriorType
    <3> QED
      BY <2>2, <3>3 DEF RequestReply, TypeOK
  <2> QED
    BY <2>1, <2>2
<1> QED
  BY <1>0, <1>1, IdleType DEF RequestReply, TypeOK, computer

\* RequestTimeout keeps the types.
LEMMA RequestTimeoutType ==
  ASSUME TypeOK, NEW h \in Web, RequestTimeout(h)
  PROVE  TypeOK'
<1>0. h \in Handler /\ op[h].id \in Id
  BY SlotType DEF Handler, RequestTimeout
<1>1. row' \in [Id -> Row]
  BY ClosePriorType DEF RequestTimeout, TypeOK
<1> QED
  BY <1>0, <1>1, IdleType DEF RequestTimeout, TypeOK, computer

\* ServeRequest keeps the types, whether or not anyone waits for the answer.
LEMMA ServeRequestType ==
  ASSUME TypeOK, ServeRequest
  PROVE  TypeOK'
<1> DEFINE q == Head(wire)
           ok == IF q.by = "model" THEN ModelMayAsk ELSE Legal(gate["browser"].state, "request")
           answer == IF ok THEN "ok" ELSE "refused"
           waits == q.by # "model" /\ op[q.by].pc = "asked" /\ op[q.by].id = q.id
<1>1. q \in [id : Id, by : Web \cup {"model"}]
  <2>1. wire # <<>> /\ wire \in Seq([id : Id, by : Web \cup {"model"}])
    BY DEF ServeRequest, TypeOK
  <2> HIDE DEF q
  <2>2. Head(wire) \in [id : Id, by : Web \cup {"model"}]
    BY <2>1, HeadTailProperties
  <2> QED
    BY <2>2 DEF q
<1>2. wire' \in Seq([id : Id, by : Web \cup {"model"}])
  <2>1. wire # <<>> /\ wire' = Tail(wire)
    BY DEF ServeRequest
  <2> QED
    BY <2>1 DEF TypeOK
<1>3. epoch' \in Nat
  <2>1. epoch' = IF ok THEN epoch + 1 ELSE epoch
    BY DEF ServeRequest
  <2> QED
    BY <2>1 DEF TypeOK
<1>4. gate' \in [Role -> Session]
  <2>1. [state |-> "takeover_requested", id |-> q.id] \in Session
    BY <1>1 DEF Session, TakeoverState
  <2> QED
    BY <2>1 DEF ServeRequest, TypeOK
<1>5. op' \in [Handler -> Op]
  <2>1. CASE waits
    <3>1. q.by \in Handler /\ op[q.by].id \in Id
      BY <1>1, <2>1 DEF Handler
    <3> DEFINE o == [op[q.by] EXCEPT !.pc = op[q.by].pc, !.call = op[q.by].call,
                                     !.res = answer, !.seen = epoch']
    <3>2. op[q.by].pc = "asked" /\ answer \in {"none", "ok", "refused", "again"}
      BY <2>1
    <3>3. o \in Op
      BY <1>3, <3>1, <3>2, SlotMoves, SlotType
    <3>4. op' = [op EXCEPT ![q.by] = o]
      BY <2>1, <3>1, SlotType DEF ServeRequest, Op
    <3> QED
      BY <3>1, <3>3, <3>4, OpValueType
  <2>2. CASE ~waits
    BY <2>2 DEF ServeRequest, TypeOK
  <2> QED
    BY <2>1, <2>2
<1>6. call' \in Call
  BY <1>3 DEF ServeRequest, TypeOK, Call
<1>7. row' \in [Id -> Row] /\ needsSync' \subseteq Id
  <2>0. row[q.id] \in Row
    BY <1>1 DEF TypeOK
  <2>1. [row[q.id] EXCEPT !.epoch = epoch'] \in Row
    BY <1>3, <2>0 DEF Row
  <2>2. row' \in {[row EXCEPT ![q.id] = [row[q.id] EXCEPT !.epoch = epoch']], row}
    BY DEF ServeRequest
  <2> QED
    BY <2>1, <2>2 DEF ServeRequest, TypeOK
<1> QED
  BY <1>2, <1>3, <1>4, <1>5, <1>6, <1>7 DEF ServeRequest, TypeOK

\* What is left of a handler and of the model's call when processes are lost.
LEMMA InterruptedType ==
  ASSUME TypeOK, NEW h \in Handler, NEW R
  PROVE  Interrupted(R, h) \in Op
<1>1. CASE op[h].pc = "shell" /\ "shell" \in R
  <2>1. op[h].id \in Id /\ op[h].call \in TakeoverEvent /\ op[h].call # "none"
    BY <1>1, SlotType, EventNames
  <2> DEFINE o == [op[h] EXCEPT !.pc = AfterRefusal(h), !.call = op[h].call,
                                !.res = op[h].res, !.seen = op[h].seen]
  <2>2. o \in Op
    <3>1. AfterRefusal(h) \in Pc /\ op[h].call \in TakeoverEvent \cup {"none"}
      BY <2>1, RefusalPc DEF Pc
    <3> QED
      BY <2>1, <3>1, SlotMoves, SlotType
  <2>3. Interrupted(R, h) = o
    BY <1>1, SlotType DEF Interrupted, Op
  <2> QED
    BY <2>2, <2>3
<1>2. CASE op[h].pc = "inspect" /\ "browser" \in R
  <2>1. op[h].id \in Id /\ op[h].call \in TakeoverEvent /\ op[h].call # "none"
    BY <1>2, SlotType, EventNames
  <2> DEFINE o == [op[h] EXCEPT !.pc = "refused", !.call = op[h].call,
                                !.res = op[h].res, !.seen = op[h].seen]
  <2>2. o \in Op
    <3>1. "refused" \in Pc /\ op[h].call \in TakeoverEvent \cup {"none"}
      BY <2>1 DEF Pc
    <3> QED
      BY <2>1, <3>1, SlotMoves, SlotType
  <2>3. Interrupted(R, h) = o
    BY <1>2, SlotType DEF Interrupted, Op
  <2> QED
    BY <2>2, <2>3
<1>3. CASE op[h].pc = "asked" /\ op[h].res = "none" /\ "browser" \in R
  <2>1. op[h].id \in Id
    BY <1>3, SlotType
  <2> DEFINE o == [op[h] EXCEPT !.pc = op[h].pc, !.call = op[h].call,
                                !.res = "refused", !.seen = op[h].seen]
  <2>2. o \in Op
    BY <1>3, <2>1, SlotMoves, SlotType
  <2>3. Interrupted(R, h) = o
    BY <1>3, SlotType DEF Interrupted, Op
  <2> QED
    BY <2>2, <2>3
<1>4. CASE ~(op[h].pc = "shell" /\ "shell" \in R) /\ ~(op[h].pc = "inspect" /\ "browser" \in R)
           /\ ~(op[h].pc = "asked" /\ op[h].res = "none" /\ "browser" \in R)
  BY <1>4, SlotType DEF Interrupted
<1> QED
  BY <1>1, <1>2, <1>3, <1>4

\* A model call that loses its process is still a call.
LEMMA CallInterruptedType ==
  ASSUME TypeOK, NEW R
  PROVE  CallInterrupted(R) \in Call
<1>1. call \in Call
  BY DEF TypeOK
<1>2. CASE call.pc = "asked" /\ call.res = "none" /\ "browser" \in R
  <2>1. [call EXCEPT !.res = "refused"] \in Call
    BY <1>1 DEF Call
  <2> QED
    BY <1>2, <2>1 DEF CallInterrupted
<1>3. CASE ~(call.pc = "asked" /\ call.res = "none" /\ "browser" \in R)
  BY <1>1, <1>3, NoCallType DEF CallInterrupted
<1> QED
  BY <1>2, <1>3

\* Fresh processes are well typed.
LEMMA FreshProcessesType ==
  ASSUME TypeOK, NEW R, FreshProcesses(R)
  PROVE  /\ gate' \in [Role -> Session]
         /\ acting' \subseteq Role
         /\ call' \in Call
         /\ epoch' \in Nat
         /\ wire' \in Seq([id : Id, by : Web \cup {"model"}])
         /\ page' \in {"clean", "private"}
         /\ input' \in Input
<1>1. FreshSession \in Session
  BY DEF FreshSession, Session, TakeoverState
<1>2. gate' \in [Role -> Session]
  BY <1>1 DEF FreshProcesses, TypeOK
<1>3. call' \in Call
  BY CallInterruptedType DEF FreshProcesses
<1>4. input' \in Input
  BY DEF FreshProcesses, TypeOK, NoInput, Input
<1>5. epoch' \in Nat /\ page' \in {"clean", "private"} /\ acting' \subseteq Role
  BY DEF FreshProcesses, TypeOK
<1>6. wire' \in Seq([id : Id, by : Web \cup {"model"}])
  <2>1. wire' = <<>> \/ wire' = wire
    BY DEF FreshProcesses
  <2>2. wire \in Seq([id : Id, by : Web \cup {"model"}])
    BY DEF TypeOK
  <2>3. <<>> \in Seq([id : Id, by : Web \cup {"model"}])
    OBVIOUS
  <2> QED
    BY <2>1, <2>2, <2>3
<1> QED
  BY <1>2, <1>3, <1>4, <1>5, <1>6

\* LoseSession keeps the types.
LEMMA LoseSessionType ==
  ASSUME TypeOK, NEW r \in Role, LoseSession(r)
  PROVE  TypeOK'
<1>1. op' \in [Handler -> Op]
  BY InterruptedType DEF LoseSession
<1>2. FreshProcesses({r})
  BY DEF LoseSession
<1> QED
  BY <1>1, <1>2, FreshProcessesType DEF LoseSession, TypeOK, store

\* CancelTask, which settles every row of the task, keeps the types.
LEMMA CancelTaskType ==
  ASSUME TypeOK, CancelTask
  PROVE  TypeOK'
<1>1. \A i \in Id, st \in RowState : [row[i] EXCEPT !.state = st] \in Row
  BY DEF TypeOK, Row
<1>2. row' \in [Id -> Row]
  BY <1>1, RowStateNames DEF CancelTask, TypeOK
<1>3. cancel' \in Cancel
  BY DEF CancelTask, Cancel
<1> QED
  BY <1>2, <1>3 DEF CancelTask, TypeOK, computer

\* A cancellation has a pass to go to.
LEMMA NextPassType ==
  ASSUME NextPass
  PROVE  cancel' \in Cancel
BY DEF NextPass, Cancel

\* A cancellation that calls the computer fills its slot.
LEMMA StopCallType ==
  ASSUME TypeOK, NEW e \in {"decline", "release"}, NEW i \in Id, StopCall(e, i)
  PROVE  op' \in [Handler -> Op] /\ control' \in Seq(Handler) /\ cancel' \in Cancel
<1>1. Stop \in Handler /\ e \in TakeoverEvent /\ e # "none"
  BY EventNames DEF Handler
<1>2. op' \in [Handler -> Op]
  BY <1>1, BeginType DEF StopCall, Kind, Pc
<1>3. cancel' \in Cancel
  BY DEF StopCall, TypeOK, Cancel
<1> QED
  BY <1>1, <1>2, <1>3, QueueType DEF StopCall

\* CancelGate keeps the types.
LEMMA CancelGateType ==
  ASSUME TypeOK, CancelGate
  PROVE  TypeOK'
<1>1. op' \in [Handler -> Op] /\ control' \in Seq(Handler) /\ cancel' \in Cancel
  <2>1. CASE NextPass /\ UNCHANGED <<op, control>>
    BY <2>1, NextPassType DEF TypeOK
  <2>2. CASE cancel' = [cancel EXCEPT !.pc = "blank"] /\ UNCHANGED <<op, control>>
    BY <2>2 DEF TypeOK, Cancel
  <2>3. CASE \E i \in Id : StopCall("decline", i)
    BY <2>3, StopCallType
  <2> QED
    BY <2>1, <2>2, <2>3 DEF CancelGate
<1> QED
  BY <1>1 DEF CancelGate, TypeOK, store, computer

\* CancelBlank keeps the types.
LEMMA CancelBlankType ==
  ASSUME TypeOK, CancelBlank
  PROVE  TypeOK'
<1>1. PICK i \in Id : StopCall("release", i)
  BY DEF CancelBlank
<1> QED
  BY <1>1, StopCallType DEF CancelBlank, TypeOK, store

\* CancelWait keeps the types.
LEMMA CancelWaitType ==
  ASSUME TypeOK, CancelWait
  PROVE  TypeOK'
<1>1. op' \in [Handler -> Op]
  BY IdleType DEF CancelWait, TypeOK, Handler
<1>2. cancel' \in Cancel
  <2>1. cancel' = [cancel EXCEPT !.pc = "thaw"] \/ NextPass
    BY DEF CancelWait
  <2> QED
    BY <2>1, NextPassType DEF TypeOK, Cancel
<1> QED
  BY <1>1, <1>2 DEF CancelWait, TypeOK, store, computer

\* CancelThaw keeps the types.
LEMMA CancelThawType ==
  ASSUME TypeOK, CancelThaw
  PROVE  TypeOK'
BY NextPassType DEF CancelThaw, TypeOK, store

\* CancelTeardown keeps the types.
LEMMA CancelTeardownType ==
  ASSUME TypeOK, CancelTeardown
  PROVE  TypeOK'
<1>1. Stop \in Handler
  BY DEF Handler
<1>2. op' \in [Handler -> Op]
  BY <1>1, BeginType DEF CancelTeardown, Kind, Pc
<1>3. cancel' \in Cancel
  <2>1. [pc |-> "wait", pass |-> 3] \in Cancel
    BY DEF Cancel
  <2> QED
    BY <2>1 DEF CancelTeardown
<1> QED
  BY <1>1, <1>2, <1>3, QueueType DEF CancelTeardown, TypeOK, store, computer

\* CancelClose keeps the types.
LEMMA CancelCloseType ==
  ASSUME TypeOK, CancelClose
  PROVE  TypeOK'
<1>1. Stop \in Handler
  BY DEF Handler
<1>2. cancel' \in Cancel
  BY DEF CancelClose, TypeOK, Cancel
<1>3. control' \in Seq(Handler)
  BY <1>1, UnlockType DEF CancelClose
<1>4. CASE FreshProcesses(Role) /\ frozen' \in BOOLEAN
           /\ op' = [h \in Handler |-> IF h = Stop THEN NoOp ELSE Interrupted(Role, h)]
  <2>1. op' \in [Handler -> Op]
    BY <1>4, NoOpType, InterruptedType
  <2> QED
    BY <1>2, <1>3, <1>4, <2>1, FreshProcessesType DEF CancelClose, TypeOK, store
<1>5. CASE op' = [op EXCEPT ![Stop] = NoOp]
           /\ UNCHANGED <<gate, epoch, wire, acting, call, input, page, frozen>>
  BY <1>1, <1>2, <1>3, <1>5, IdleType DEF CancelClose, TypeOK, store
<1> QED
  BY <1>4, <1>5 DEF CancelClose, TypeOK

\* The program starts well typed.
LEMMA InitType == Init => TypeOK
<1> SUFFICES ASSUME Init PROVE TypeOK
  OBVIOUS
<1>1. NoRow \in Row
  BY TakeoverAssumption, RowStateNames DEF NoRow, Row
<1>2. FreshSession \in Session /\ NoInput \in Input
  BY DEF FreshSession, Session, TakeoverState, NoInput, Input
<1>3. [pc |-> "none", pass |-> 0] \in Cancel
  BY DEF Cancel
<1>4. control \in Seq(Handler) /\ wire \in Seq([id : Id, by : Web \cup {"model"}])
  BY DEF Init
<1>5. row \in [Id -> Row] /\ op \in [Handler -> Op] /\ gate \in [Role -> Session]
  BY <1>1, <1>2, NoOpType DEF Init
<1>6. call \in Call /\ input \in Input /\ cancel \in Cancel
  BY <1>2, <1>3, NoCallType DEF Init
<1>7. /\ task = "running" /\ nextId \in Nat \ {0} /\ epoch \in Nat /\ timers = {} /\ needsSync = {}
      /\ acting = {} /\ frozen = FALSE /\ page = "clean" /\ driver = NoDevice
  BY DEF Init
<1> QED
  BY <1>4, <1>5, <1>6, <1>7 DEF TypeOK

\* Every step keeps the types: one case per disjunct of Next.
LEMMA NextType ==
  ASSUME TypeOK, [Next]_vars
  PROVE  TypeOK'
<1>1. ASSUME NEW h \in Handler, HandlerStep(h)
      PROVE  TypeOK'
  BY <1>1, ObserveType, RecheckType, BlankType, FreezeType, StatusType, SyncType, BrowserType,
     ShellType, InspectType, StillSensitiveType, ThawType, AskType, UndoType, RefusedType,
     CommitType DEF HandlerStep
<1>2. ASSUME NEW h \in Web, Operator(h)
      PROVE  TypeOK'
  BY <1>2, AcquireType, DeclineType, ReleaseType, RequestType, RequestReplyType,
     RequestTimeoutType DEF Operator
<1>3. ASSUME NEW i \in Id, Fire(i) \/ Lapse(i)
      PROVE  TypeOK'
  BY <1>3, FireType, LapseType
<1>4. CASE Model
  BY <1>4, ModelCallType, ModelSendType, ModelServeType, ModelTimeoutType, ModelAskedType,
     ModelAskTimeoutType, ActDoneType DEF Model
<1>5. CASE Live
  BY <1>5, SendInputType, RelayInputType, DeliverInputType DEF Live
<1>6. CASE Cancellation
  BY <1>6, CancelTaskType, CancelGateType, CancelBlankType, CancelWaitType, CancelThawType,
     CancelTeardownType, CancelCloseType DEF Cancellation
<1>7. ASSUME NEW r \in Role, LoseSession(r)
      PROVE  TypeOK'
  BY <1>7, LoseSessionType
<1>8. CASE UNCHANGED vars
  BY <1>8 DEF vars, store, daemon, computer, TypeOK
<1> QED
  BY <1>1, <1>2, <1>3, <1>4, <1>5, <1>6, <1>7, <1>8, ServeRequestType DEF Next

\* The variables of the daemon and of the computer keep their types for ever: TypeOK
\* is inductive by itself.
THEOREM TypeCorrect == Spec => []TypeOK
<1>1. TypeOK /\ [Next]_vars => TypeOK'
  BY NextType
<1> QED
  BY <1>1, InitType, PTL DEF Spec

=============================================================================
