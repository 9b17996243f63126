------------------------- MODULE Approvals_proofs -------------------------
(***************************************************************************)
(* Theorems of Approvals, for every set of actions, sites and callers,     *)
(* every bound and every choice of accidents.  The consent invariant is    *)
(* inductive, and the safety properties about consent follow from it.      *)
(* What a consent is worth after control has changed hands rests on two    *)
(* more: the epochs of one count grow with the rows (Counting), and all    *)
(* that carries the number of a row has its epoch and period (Stamping).   *)
(***************************************************************************)
EXTENDS Approvals, TLAPS

\* The values the history and the fresh records start from.
LEMMA Fresh ==
  /\ AnyAction \in Action
  /\ NoCall \in Call
  /\ NoCard \in Card
<1>1. AnyAction \in Action
  BY ApprovalsAssumption DEF AnyAction
<1>2. 0 \in Row
  BY ApprovalsAssumption DEF Row
<1> QED
  BY <1>1, <1>2 DEF NoCall, NoCard, Call, Card, Status

\* A call that leaves runs no more: what holds of the calls goes on holding
\* when the cards and the grants it rests on are kept.
LEMMA LeaveKeeps ==
  ASSUME ConsentInv, NEW c \in Caller, Leave(c), grants \subseteq grants',
         \A k \in Ask : card'[k].action = card[k].action \/ answer[k] = "none",
         UNCHANGED answer
  PROVE  /\ call' \in [Caller -> Call]
         /\ Carrying'
         /\ Remembering'
         /\ EveryEffectWasAllowed'
<1>1. call' = [call EXCEPT ![c] = NoCall] /\ call' \in [Caller -> Call]
  BY Fresh DEF Leave, ConsentInv, TypeOK
<1>2. /\ \A d \in Caller \ {c} : call'[d] = call[d]
      /\ call'[c] = NoCall
  BY <1>1 DEF ConsentInv, TypeOK
<1>3. ~Running(c)' /\ NoCall.grants = {}
  BY <1>2 DEF Running, NoCall
<1>4. \A d \in Caller : Running(d)' => d # c /\ Running(d) /\ call'[d] = call[d]
  BY <1>2, <1>3 DEF Running
<1>5. \A d \in Caller : call[d] \in Call
  BY DEF ConsentInv, TypeOK
<1>6. \A d \in Caller : Running(d) /\ call[d].ask # NoAsk =>
        card'[call[d].ask].action = card[call[d].ask].action
  BY <1>5 DEF ConsentInv, EveryEffectWasAllowed, Call, Allow
<1>7. Carrying'
  BY <1>4 DEF ConsentInv, Carrying
<1>8. Remembering'
  BY <1>2, <1>3 DEF ConsentInv, Remembering
<1>9. EveryEffectWasAllowed'
  BY <1>4, <1>6 DEF ConsentInv, EveryEffectWasAllowed
<1> QED
  BY <1>1, <1>7, <1>8, <1>9

\* A step that leaves the calls alone, keeps the grants and every card's action,
\* and answers only a card that had no answer.
LEMMA CallsStay ==
  ASSUME ConsentInv, UNCHANGED call, grants \subseteq grants',
         \A k \in Ask : answer[k] = "none" \/ answer'[k] = answer[k],
         \A k \in Ask : card'[k].action = card[k].action
  PROVE  /\ call' \in [Caller -> Call]
         /\ Carrying'
         /\ Remembering'
         /\ EveryEffectWasAllowed'
<1>1. \A c \in Caller : call[c] \in Call
  BY DEF ConsentInv, TypeOK
<1>2. \A c \in Caller : Running(c)' => Running(c)
  BY DEF Running
<1>3. \A c \in Caller : Running(c) /\ call[c].ask # NoAsk =>
        /\ answer'[call[c].ask] = answer[call[c].ask]
        /\ card'[call[c].ask].action = card[call[c].ask].action
  BY <1>1 DEF ConsentInv, EveryEffectWasAllowed, Call, Allow
<1>4. Carrying'
  BY <1>2, <1>3 DEF ConsentInv, Carrying
<1>5. Remembering'
  BY DEF ConsentInv, Remembering
<1>6. EveryEffectWasAllowed'
  BY <1>2, <1>3 DEF ConsentInv, EveryEffectWasAllowed
<1> QED
  BY <1>4, <1>5, <1>6 DEF ConsentInv, TypeOK

\* setApprovalStatusIf writes one card and its status and decision alone.
LEMMA Settled ==
  ASSUME ConsentInv, NEW k \in Ask, NEW st \in Status, NEW d \in Decision \cup {"null"},
         Settle(k, st, d)
  PROVE  /\ card' \in [Ask -> Card]
         /\ card'[k].status = st /\ card'[k].decision = d
         /\ \A j \in Ask \ {k} : card'[j] = card[j]
         /\ \A j \in Ask : card'[j].action = card[j].action
         /\ \A j \in Ask : /\ card'[j].epoch = card[j].epoch /\ card'[j].row = card[j].row
                           /\ card'[j].period = card[j].period
<1>1. card \in [Ask -> Card] /\ card[k] \in Card
  BY DEF ConsentInv, TypeOK
<1>2. card' = [card EXCEPT ![k] = [card[k] EXCEPT !.status = st, !.decision = d]]
  BY <1>1 DEF Settle
<1>3. [card[k] EXCEPT !.status = st, !.decision = d] \in Card
  BY <1>1 DEF Card
<1> QED
  BY <1>1, <1>2, <1>3 DEF Card

\* An expired card is one that no consent is read from.
LEMMA ExpireKeeps ==
  ASSUME ConsentInv, NEW k \in Ask, Settle(k, "expired", "null"), UNCHANGED <<answer, grants>>
  PROVE  /\ card' \in [Ask -> Card]
         /\ Unanswered' /\ Recording' /\ GrantsWereGiven'
         /\ \A j \in Ask : card'[j].action = card[j].action
<1>1. /\ card' \in [Ask -> Card]
      /\ card'[k].status = "expired"
      /\ \A j \in Ask \ {k} : card'[j] = card[j]
      /\ \A j \in Ask : card'[j].action = card[j].action
  BY Settled DEF Status
<1>2. Unanswered' /\ Recording'
  BY <1>1 DEF ConsentInv, Unanswered, Recording
<1>3. GrantsWereGiven'
  BY <1>1 DEF ConsentInv, GrantsWereGiven
<1> QED
  BY <1>1, <1>2, <1>3

\* grantTaskOrigins takes no grant back, and adds a site only for an answer
\* "allow_task" to a card about it.
LEMMA RememberKeeps ==
  ASSUME ConsentInv, NEW k \in Ask, NEW d, grants' = Remembers(card[k].action, d),
         answer'[k] = d,
         \A j \in Ask : answer[j] = "none" \/ answer'[j] = answer[j],
         \A j \in Ask : card'[j].action = card[j].action
  PROVE  grants \subseteq grants' /\ grants' \subseteq Origin /\ GrantsWereGiven'
<1> DEFINE a == card[k].action
<1>1. a \in Action /\ grants \subseteq Origin
  BY DEF ConsentInv, TypeOK, Card
<1>2. \/ grants' = grants
      \/ grants' = grants \cup {OriginOf[a]} /\ d = "allow_task" /\ a \in NewDomain
  BY DEF Remembers, Granted
<1>3. OriginOf[a] \in Origin
  BY <1>1 DEF Origin
<1>4. ASSUME NEW o \in grants'
      PROVE  \E j \in Ask : /\ card'[j].action \in NewDomain
                            /\ OriginOf[card'[j].action] = o
                            /\ answer'[j] = "allow_task"
  <2>1. CASE o \in grants
    BY <2>1 DEF ConsentInv, GrantsWereGiven
  <2>2. CASE o \notin grants
    BY <1>2, <1>4, <2>2
  <2> QED
    BY <2>1, <2>2
<1> QED
  BY <1>1, <1>2, <1>3, <1>4 DEF GrantsWereGiven

\* The last step of each action's proof: the parts make the whole.
LEMMA Whole ==
  ASSUME TypeOK', Unanswered', Recording', Carrying', Remembering', GrantsWereGiven',
         EveryEffectWasAllowed'
  PROVE  ConsentInv'
BY DEF ConsentInv

\* Whoever has control of the computer, its count and its rows have their types.
ControlTyped ==
  /\ takeover \in TakeoverState /\ rows \in Row
  /\ rowEpoch \in [Row -> Nat] /\ counted \in [Row -> Nat]
  /\ counter \in Nat /\ life \in Nat /\ period \in Nat

LEMMA ControlTypes ==
  ASSUME ControlTyped, Control \/ Crash \/ Cancels \/ UNCHANGED control
  PROVE  ControlTyped'
<1>1. MaxRow \in Nat
  BY ApprovalsAssumption
<1>2. ASSUME NEW state \in TakeoverState, NEW epoch \in Nat, NEW count \in Nat,
             Opens(state, epoch, count)
      PROVE  /\ takeover' \in TakeoverState /\ rows' \in Row
             /\ rowEpoch' \in [Row -> Nat] /\ counted' \in [Row -> Nat]
  BY <1>1, <1>2 DEF Opens, ControlTyped, Row
<1>3. ASSUME NEW epoch \in Nat, Hears(epoch)
      PROVE  rowEpoch' \in [Row -> Nat] /\ counted' \in [Row -> Nat]
  BY <1>3 DEF Hears, ControlTyped
<1>4. CASE ModelAsks
  BY <1>2, <1>4 DEF ModelAsks, CountsUp, ControlTyped, TakeoverState
<1>5. CASE ModelAsksInVain \/ PersonAsks
  BY <1>2, <1>5 DEF ModelAsksInVain, PersonAsks, ControlTyped, TakeoverState
<1>6. CASE Heard \/ Take
  BY <1>3, <1>6 DEF Heard, Take, CountsUp, ControlTyped, TakeoverState
<1>7. CASE Refused \/ Decline \/ Return \/ Cancels
  BY <1>7 DEF Refused, Decline, Return, Cancels, control, ControlTyped, TakeoverState
<1>8. CASE LoseBrowser \/ Crash
  BY <1>8 DEF LoseBrowser, Crash, FreshProcess, control, ControlTyped, TakeoverState
<1>9. CASE UNCHANGED control
  BY <1>9 DEF control, ControlTyped
<1> QED
  BY <1>4, <1>5, <1>6, <1>7, <1>8, <1>9 DEF Control

\* The type invariant is that of consent and that of control.
LEMMA Types ==
  /\ TypeOK => ControlTyped
  /\ (/\ card' \in [Ask -> Card] /\ grants' \subseteq Origin
      /\ task' \in {"running", "cancelled"} /\ call' \in [Caller -> Call]
      /\ answer' \in [Ask -> Decision \cup {"none"}] /\ stopped' \in BOOLEAN
      /\ used' \subseteq Ask /\ cut' \subseteq Ask
      /\ ControlTyped') => TypeOK'
BY DEF TypeOK, ControlTyped

-----------------------------------------------------------------------------
\* A call that starts carries the grants of that moment, and nothing of a card.
LEMMA StartKeeps ==
  ASSUME ConsentInv, NEW c \in Caller, NEW a \in Action, Start(c, a)
  PROVE  ConsentInv'
<1> DEFINE n == [NoCall EXCEPT !.pc = "observing", !.action = a, !.epoch = ControlEpoch,
                               !.row = rows, !.period = period, !.grants = grants]
<1>1. n \in Call
  BY Fresh DEF NoCall, Call, ControlEpoch, ConsentInv, TypeOK
<1>2. call' = [call EXCEPT ![c] = n]
      /\ UNCHANGED <<card, grants, task, control, answer, used, cut, stopped>>
  BY DEF Start, consent
<1>3. /\ call' \in [Caller -> Call]
      /\ call'[c] = n
      /\ \A d \in Caller \ {c} : call'[d] = call[d]
  BY <1>1, <1>2 DEF ConsentInv, TypeOK
<1>4. \A d \in Caller : Running(d)' => Running(d) /\ call'[d] = call[d]
  BY <1>3 DEF Running, NoCall
<1>5. TypeOK'
  BY <1>2, <1>3, ControlTypes, Types DEF ConsentInv, TypeOK, control
<1>6. Unanswered' /\ Recording' /\ GrantsWereGiven'
  BY <1>2 DEF ConsentInv, Unanswered, Recording, GrantsWereGiven
<1>7. Carrying' /\ EveryEffectWasAllowed'
  BY <1>2, <1>4 DEF ConsentInv, Carrying, EveryEffectWasAllowed, Running
<1>8. Remembering'
  BY <1>2, <1>3 DEF ConsentInv, Remembering, NoCall
<1> QED
  BY <1>5, <1>6, <1>7, <1>8, Whole

\* A call goes out on the consent of a card, or on a granted site.
LEMMA GoKeeps ==
  ASSUME ConsentInv, NEW c \in Caller, NEW k \in Ask \cup {NoAsk}, Go(c, k),
         UNCHANGED <<card, answer>>, grants \subseteq grants',
         k # NoAsk => /\ card[k].status = "approved"
                      /\ card[k].action = call[c].action,
         k = NoAsk => GateAllows(c)
  PROVE  /\ call' \in [Caller -> Call]
         /\ Carrying'
         /\ Remembering'
         /\ EveryEffectWasAllowed'
<1> DEFINE d == IF k = NoAsk THEN "null" ELSE card[k].decision
           n == [call[c] EXCEPT !.pc = "executing", !.ask = k, !.decided = d]
<1>1. CASE Leave(c)
  BY <1>1, LeaveKeeps
<1>2. CASE ~Leave(c)
  <2>1. call[c] \in Call /\ (k # NoAsk => card[k] \in Card)
    BY DEF ConsentInv, TypeOK
  <2>2. n \in Call
    BY <2>1 DEF Call, Card
  <2>3. call' = [call EXCEPT ![c] = n]
    BY <1>2, <2>1 DEF Go, Call
  <2>4. /\ call' \in [Caller -> Call]
        /\ call'[c] = n
        /\ \A e \in Caller \ {c} : call'[e] = call[e]
    BY <2>2, <2>3 DEF ConsentInv, TypeOK
  <2>5. /\ call'[c].ask = k /\ call'[c].decided = d
        /\ call'[c].action = call[c].action /\ call'[c].grants = call[c].grants
    BY <2>1, <2>4 DEF Call
  <2>6. k # NoAsk => d = answer[k] /\ answer[k] \in Allow
    BY DEF ConsentInv, Recording
  <2>7. k = NoAsk => /\ call[c].action \in NewDomain
                     /\ OriginOf[call[c].action] \in grants
    BY DEF GateAllows, ConsentInv, Remembering
  <2>8. \A e \in Caller \ {c} : Running(e)' => Running(e)
    BY <2>4 DEF Running
  <2>9. Carrying'
    <3>1. ASSUME NEW e \in Caller, Running(e)', call'[e].ask # NoAsk
          PROVE  call'[e].decided = answer'[call'[e].ask]
      <4>1. CASE e = c
        BY <2>5, <2>6, <3>1, <4>1
      <4>2. CASE e # c
        BY <2>4, <2>8, <3>1, <4>2 DEF ConsentInv, Carrying
      <4> QED
        BY <4>1, <4>2
    <3> QED
      BY <3>1 DEF Carrying
  <2>10. Remembering'
    BY <2>4, <2>5 DEF ConsentInv, Remembering
  <2>11. EveryEffectWasAllowed'
    <3>1. ASSUME NEW e \in Caller, Running(e)'
          PROVE  \/ /\ call'[e].ask # NoAsk /\ answer'[call'[e].ask] \in Allow
                    /\ card'[call'[e].ask].action = call'[e].action
                 \/ /\ call'[e].ask = NoAsk /\ call'[e].action \in NewDomain
                    /\ OriginOf[call'[e].action] \in grants'
      <4>1. CASE e = c
        BY <2>5, <2>6, <2>7, <3>1, <4>1
      <4>2. CASE e # c
        BY <2>4, <2>8, <3>1, <4>2 DEF ConsentInv, EveryEffectWasAllowed
      <4> QED
        BY <4>1, <4>2
    <3> QED
      BY <3>1 DEF EveryEffectWasAllowed
  <2> QED
    BY <2>4, <2>9, <2>10, <2>11
<1> QED
  BY <1>1, <1>2

\* A new card takes the place of one that was never raised, so that no history
\* is attached to it.
LEMMA RaiseCardKeeps ==
  ASSUME ConsentInv, NEW c \in Caller, RaiseCard(c),
         UNCHANGED <<task, control, consent, stopped>>
  PROVE  ConsentInv'
<1>1. UNCHANGED <<grants, task, control, answer, used, cut, stopped>> /\ Leave(c)
  BY DEF RaiseCard, consent
<1>2. /\ card' \in [Ask -> Card]
      /\ Unanswered' /\ Recording'
      /\ \A j \in Ask : card'[j].action = card[j].action \/ answer[j] = "none"
  <2>1. CASE UNCHANGED card
    BY <1>1, <2>1 DEF ConsentInv, TypeOK, Unanswered, Recording
  <2>2. ASSUME NEW k \in Ask, ~Raised(k),
               card' = [card EXCEPT ![k] =
                 [NoCard EXCEPT !.action = call[c].action, !.epoch = call[c].epoch,
                                !.row = call[c].row, !.period = call[c].period,
                                !.status = "pending"]]
        PROVE  /\ card' \in [Ask -> Card]
               /\ Unanswered' /\ Recording'
               /\ \A j \in Ask : card'[j].action = card[j].action \/ answer[j] = "none"
    <3> DEFINE n == [NoCard EXCEPT !.action = call[c].action, !.epoch = call[c].epoch,
                                   !.row = call[c].row, !.period = call[c].period,
                                   !.status = "pending"]
    <3>1. n \in Card /\ n.status = "pending"
      BY Fresh DEF NoCard, Card, Status, Call, ConsentInv, TypeOK
    <3>2. /\ card' \in [Ask -> Card]
          /\ card'[k] = n
          /\ \A j \in Ask \ {k} : card'[j] = card[j]
      BY <2>2, <3>1 DEF ConsentInv, TypeOK
    <3>3. answer[k] = "none"
      BY <2>2 DEF Raised, ConsentInv, Unanswered
    <3> QED
      BY <1>1, <3>1, <3>2, <3>3 DEF ConsentInv, Unanswered, Recording
  <2> QED
    BY <2>1, <2>2 DEF RaiseCard
<1>3. call' \in [Caller -> Call] /\ Carrying' /\ Remembering' /\ EveryEffectWasAllowed'
  BY <1>1, <1>2, LeaveKeeps
<1>4. GrantsWereGiven'
  BY <1>1, <1>2 DEF ConsentInv, GrantsWereGiven
<1>5. TypeOK'
  BY <1>1, <1>2, <1>3, ControlTypes, Types DEF ConsentInv, TypeOK
<1> QED
  BY <1>2, <1>3, <1>4, <1>5, Whole

\* A call that finds the answer to its card, or a granted site, goes by it.
LEMMA DecideKeeps ==
  ASSUME ConsentInv, NEW c \in Caller, Decide(c)
  PROVE  ConsentInv'
<1>1. UNCHANGED <<task, control, consent, stopped>>
      /\ UNCHANGED <<answer, used, cut>>
      /\ ControlTyped'
  BY ControlTypes, Types DEF Decide, consent, ConsentInv
<1>2. CASE GateAllows(c) /\ Go(c, NoAsk) /\ UNCHANGED <<card, grants>>
  <2>1. call' \in [Caller -> Call] /\ Carrying' /\ Remembering' /\ EveryEffectWasAllowed'
    BY <1>1, <1>2, GoKeeps
  <2> QED
    BY <1>1, <1>2, <2>1, Types
       DEF ConsentInv, TypeOK, Unanswered, Recording, GrantsWereGiven
<1>3. CASE FindExpired(c)
  <2>1. PICK k \in Ask : Settle(k, "expired", "null")
    BY <1>3 DEF FindExpired
  <2>2. Leave(c) /\ UNCHANGED grants
    BY <1>3 DEF FindExpired
  <2>3. /\ card' \in [Ask -> Card]
        /\ Unanswered' /\ Recording' /\ GrantsWereGiven'
        /\ \A j \in Ask : card'[j].action = card[j].action
    BY <1>1, <2>1, <2>2, ExpireKeeps
  <2>4. call' \in [Caller -> Call] /\ Carrying' /\ Remembering' /\ EveryEffectWasAllowed'
    BY <1>1, <2>2, <2>3, LeaveKeeps
  <2>5. TypeOK'
    BY <1>1, <2>2, <2>3, <2>4, Types DEF ConsentInv, TypeOK
  <2> QED
    BY <2>3, <2>4, <2>5, Whole
<1>4. CASE FindUnallowed(c)
  <2>1. Leave(c) /\ UNCHANGED <<card, grants>>
    BY <1>4 DEF FindUnallowed
  <2>2. call' \in [Caller -> Call] /\ Carrying' /\ Remembering' /\ EveryEffectWasAllowed'
    BY <1>1, <2>1, LeaveKeeps
  <2> QED
    BY <1>1, <2>1, <2>2, Types DEF ConsentInv, TypeOK, Unanswered, Recording, GrantsWereGiven
<1>5. CASE FindApproved(c)
  <2>1. PICK k \in Ask : /\ card[k].action = call[c].action
                         /\ card[k].status = "approved"
                         /\ grants' = Remembers(call[c].action, card[k].decision)
                         /\ Go(c, k)
    BY <1>5 DEF FindApproved, Exact, IsNewest, IsApproved
  <2>2. UNCHANGED card
    BY <1>5 DEF FindApproved
  <2>3. card[k].decision = answer[k]
    BY <2>1 DEF ConsentInv, Recording
  <2>4. grants \subseteq grants' /\ grants' \subseteq Origin /\ GrantsWereGiven'
    BY <1>1, <2>1, <2>2, <2>3, RememberKeeps
  <2>5. call' \in [Caller -> Call] /\ Carrying' /\ Remembering' /\ EveryEffectWasAllowed'
    BY <1>1, <2>1, <2>2, <2>4, GoKeeps DEF NoAsk, Ask
  <2>6. TypeOK'
    BY <1>1, <2>2, <2>4, <2>5, Types DEF ConsentInv, TypeOK
  <2>7. Unanswered' /\ Recording'
    BY <1>1, <2>2 DEF ConsentInv, Unanswered, Recording
  <2> QED
    BY <2>4, <2>5, <2>6, <2>7, Whole
<1>6. CASE RaiseCard(c)
  BY <1>1, <1>6, RaiseCardKeeps
<1> QED
  BY <1>2, <1>3, <1>4, <1>5, <1>6 DEF Decide

\* A call that runs goes on running, on the same consent.
LEMMA ActKeeps ==
  ASSUME ConsentInv, NEW c \in Caller, Act(c)
  PROVE  ConsentInv'
<1>1. UNCHANGED <<card, grants, task, control, answer, cut, stopped>> /\ ControlTyped'
  BY ControlTypes, Types DEF Act, ConsentInv
<1>2. call[c] \in Call /\ call[c].pc = "executing"
  BY DEF Act, ConsentInv, TypeOK
<1>3. /\ call' \in [Caller -> Call]
      /\ \A d \in Caller : /\ Running(d)' => Running(d)
                           /\ call'[d].ask = call[d].ask /\ call'[d].decided = call[d].decided
                           /\ call'[d].action = call[d].action
                           /\ call'[d].grants = call[d].grants
  BY <1>2 DEF Act, ConsentInv, TypeOK, Call, Running
<1>4. used' \subseteq Ask
  BY <1>2 DEF Act, Call, ConsentInv, TypeOK
<1>5. TypeOK'
  BY <1>1, <1>3, <1>4, Types DEF ConsentInv, TypeOK
<1>6. Carrying' /\ Remembering' /\ EveryEffectWasAllowed'
  BY <1>1, <1>3 DEF ConsentInv, Carrying, Remembering, EveryEffectWasAllowed
<1>7. Unanswered' /\ Recording' /\ GrantsWereGiven'
  BY <1>1 DEF ConsentInv, Unanswered, Recording, GrantsWereGiven
<1> QED
  BY <1>5, <1>6, <1>7, Whole

\* A call that failed without effect leaves its card as it is.
LEMMA FailKeeps ==
  ASSUME ConsentInv, NEW c \in Caller, Fail(c)
  PROVE  ConsentInv'
<1>1. Leave(c) /\ UNCHANGED <<card, grants, task, control, answer, used, cut, stopped>>
      /\ ControlTyped'
  BY ControlTypes, Types DEF Fail, consent, ConsentInv
<1>2. call' \in [Caller -> Call] /\ Carrying' /\ Remembering' /\ EveryEffectWasAllowed'
  BY <1>1, LeaveKeeps
<1> QED
  BY <1>1, <1>2, Types DEF ConsentInv, TypeOK, Unanswered, Recording, GrantsWereGiven

\* A call that has acted spends its card, and records the answer it carried.
LEMMA CommitKeeps ==
  ASSUME ConsentInv, NEW c \in Caller, Commit(c)
  PROVE  ConsentInv'
<1>1. Leave(c) /\ UNCHANGED <<task, control, answer, used, cut, stopped>> /\ ControlTyped'
  BY ControlTypes, Types DEF Commit, consent, ConsentInv
<1>2. CASE ~Spends(c)
  <2>1. UNCHANGED <<card, grants>>
    BY <1>2 DEF Commit
  <2>2. call' \in [Caller -> Call] /\ Carrying' /\ Remembering' /\ EveryEffectWasAllowed'
    BY <1>1, <2>1, LeaveKeeps
  <2> QED
    BY <1>1, <2>1, <2>2, Types DEF ConsentInv, TypeOK, Unanswered, Recording, GrantsWereGiven
<1>3. CASE Spends(c)
  <2> DEFINE k == call[c].ask
             d == call[c].decided
  <2>1. call[c] \in Call /\ Running(c)
    BY DEF Commit, Running, ConsentInv, TypeOK
  <2>2. k \in Ask /\ d \in Decision \cup {"null"} /\ card[k].status = "approved"
    BY <1>3, <2>1 DEF Spends, Call
  <2>3. /\ d = answer[k] /\ answer[k] \in Allow
        /\ card[k].action = call[c].action
    BY <1>3, <2>1 DEF Spends, ConsentInv, Carrying, EveryEffectWasAllowed
  <2>4. Settle(k, "consumed", d) /\ grants' = Remembers(card[k].action, d)
    BY <1>3, <2>3 DEF Commit, Recorded
  <2>5. /\ card' \in [Ask -> Card]
        /\ card'[k].status = "consumed" /\ card'[k].decision = d
        /\ \A j \in Ask \ {k} : card'[j] = card[j]
        /\ \A j \in Ask : card'[j].action = card[j].action
    BY <2>2, <2>4, Settled DEF Status
  <2>6. grants \subseteq grants' /\ grants' \subseteq Origin /\ GrantsWereGiven'
    BY <1>1, <2>2, <2>3, <2>4, <2>5, RememberKeeps
  <2>7. call' \in [Caller -> Call] /\ Carrying' /\ Remembering' /\ EveryEffectWasAllowed'
    BY <1>1, <2>5, <2>6, LeaveKeeps
  <2>8. Unanswered' /\ Recording'
    BY <1>1, <2>3, <2>5 DEF ConsentInv, Unanswered, Recording
  <2>9. TypeOK'
    BY <1>1, <2>5, <2>6, <2>7, Types DEF ConsentInv, TypeOK
  <2> QED
    BY <2>6, <2>7, <2>8, <2>9, Whole
<1> QED
  BY <1>2, <1>3

\* An answer is written to a card that had none, in the card and in the history.
LEMMA AnswerKeeps ==
  ASSUME ConsentInv, NEW k \in Ask, NEW d \in Decision, Answer(k, d)
  PROVE  ConsentInv'
<1>1. UNCHANGED <<call, used, cut>> /\ answer[k] = "none" /\ ControlTyped'
  BY ControlTypes, Types DEF Answer, ConsentInv, Unanswered
<1>2. CASE card[k].due
  <2>1. Settle(k, "expired", "null") /\ UNCHANGED <<grants, task, answer, stopped>>
    BY <1>2 DEF Answer
  <2>2. /\ card' \in [Ask -> Card]
        /\ Unanswered' /\ Recording' /\ GrantsWereGiven'
        /\ \A j \in Ask : card'[j].action = card[j].action
    BY <2>1, ExpireKeeps
  <2>3. call' \in [Caller -> Call] /\ Carrying' /\ Remembering' /\ EveryEffectWasAllowed'
    BY <1>1, <2>1, <2>2, CallsStay
  <2>4. TypeOK'
    BY <1>1, <2>1, <2>2, <2>3, Types DEF ConsentInv, TypeOK
  <2> QED
    BY <2>2, <2>3, <2>4, Whole
<1>3. CASE ~card[k].due
  <2>1. /\ Settle(k, StatusOf[d], d)
        /\ grants' = Remembers(card[k].action, d)
        /\ task' \in {task, "cancelled"}
        /\ answer' = [answer EXCEPT ![k] = d]
        /\ stopped' \in {stopped, TRUE}
    BY <1>3 DEF Answer, Cancels
  <2>2. /\ StatusOf[d] \in {"approved", "denied", "killed"}
        /\ StatusOf[d] = "approved" => d \in Allow
    BY DEF StatusOf, Decision, Allow
  <2>3. /\ card' \in [Ask -> Card]
        /\ card'[k].status = StatusOf[d] /\ card'[k].decision = d
        /\ \A j \in Ask \ {k} : card'[j] = card[j]
        /\ \A j \in Ask : card'[j].action = card[j].action
    BY <2>1, <2>2, Settled DEF Status
  <2>4. /\ answer' \in [Ask -> Decision \cup {"none"}]
        /\ answer'[k] = d
        /\ \A j \in Ask \ {k} : answer'[j] = answer[j]
    BY <2>1 DEF ConsentInv, TypeOK
  <2>5. grants \subseteq grants' /\ grants' \subseteq Origin /\ GrantsWereGiven'
    BY <1>1, <2>1, <2>3, <2>4, RememberKeeps
  <2>6. call' \in [Caller -> Call] /\ Carrying' /\ Remembering' /\ EveryEffectWasAllowed'
    BY <1>1, <2>3, <2>4, <2>5, CallsStay
  <2>7. Unanswered' /\ Recording'
    BY <2>2, <2>3, <2>4 DEF ConsentInv, Unanswered, Recording
  <2>8. task' \in {"running", "cancelled"} /\ stopped' \in BOOLEAN
    BY <2>1 DEF ConsentInv, TypeOK
  <2>9. TypeOK'
    BY <1>1, <2>3, <2>4, <2>5, <2>6, <2>8, Types DEF ConsentInv, TypeOK
  <2> QED
    BY <2>5, <2>6, <2>7, <2>9, Whole
<1> QED
  BY <1>2, <1>3

\* A deadline that passes changes nothing that was said.
LEMMA PassKeeps ==
  ASSUME ConsentInv, NEW k \in Ask, Pass(k)
  PROVE  ConsentInv'
<1>1. UNCHANGED <<grants, task, control, call, answer, used, cut, stopped>> /\ ControlTyped'
  BY ControlTypes, Types DEF Pass, consent, ConsentInv
<1>2. card' = [card EXCEPT ![k] = [card[k] EXCEPT !.due = TRUE]] /\ card[k] \in Card
  BY DEF Pass, ConsentInv, TypeOK
<1>3. [card[k] EXCEPT !.due = TRUE] \in Card
  BY <1>2 DEF Card
<1>4. /\ card' \in [Ask -> Card]
      /\ \A j \in Ask : /\ card'[j].action = card[j].action
                        /\ card'[j].status = card[j].status
                        /\ card'[j].decision = card[j].decision
  BY <1>2, <1>3 DEF ConsentInv, TypeOK, Card
<1>5. call' \in [Caller -> Call] /\ Carrying' /\ Remembering' /\ EveryEffectWasAllowed'
  BY <1>1, <1>4, CallsStay
<1>6. Unanswered' /\ Recording' /\ GrantsWereGiven'
  BY <1>1, <1>4 DEF ConsentInv, Unanswered, Recording, GrantsWereGiven
<1>7. TypeOK'
  BY <1>1, <1>4, <1>5, Types DEF ConsentInv, TypeOK
<1> QED
  BY <1>5, <1>6, <1>7, Whole

\* The sweeper expires a card nobody answered.
LEMMA SweepKeeps ==
  ASSUME ConsentInv, NEW k \in Ask, Sweep(k)
  PROVE  ConsentInv'
<1>1. Settle(k, "expired", "null")
      /\ UNCHANGED <<grants, task, control, call, answer, used, cut, stopped>> /\ ControlTyped'
  BY ControlTypes, Types DEF Sweep, consent, ConsentInv
<1>2. /\ card' \in [Ask -> Card]
      /\ Unanswered' /\ Recording' /\ GrantsWereGiven'
      /\ \A j \in Ask : card'[j].action = card[j].action
  BY <1>1, ExpireKeeps
<1>3. call' \in [Caller -> Call] /\ Carrying' /\ Remembering' /\ EveryEffectWasAllowed'
  BY <1>1, <1>2, CallsStay
<1>4. TypeOK'
  BY <1>1, <1>2, <1>3, Types DEF ConsentInv, TypeOK
<1> QED
  BY <1>2, <1>3, <1>4, Whole

\* Nothing said or running changes when the task is cancelled or control changes hands.
LEMMA OutsideKeeps ==
  ASSUME ConsentInv, CancelTask \/ Control
  PROVE  ConsentInv'
<1>1. UNCHANGED <<card, grants, call, answer, used, cut>>
  BY DEF CancelTask, Control, ModelAsks, ModelAsksInVain, PersonAsks, Heard, Refused, Take, Decline,
     Return, LoseBrowser, Rest, consent
<1>2. task' \in {task, "cancelled"} /\ stopped' \in {stopped, TRUE}
  BY DEF CancelTask, Cancels, Control, ModelAsks, ModelAsksInVain, PersonAsks, Heard, Refused, Take,
     Decline, Return, LoseBrowser, Rest
<1>3. ControlTyped'
  BY ControlTypes, Types DEF CancelTask, ConsentInv
<1>4. Carrying' /\ Remembering' /\ EveryEffectWasAllowed'
  BY <1>1, CallsStay
<1>5. TypeOK'
  BY <1>1, <1>2, <1>3, Types DEF ConsentInv, TypeOK
<1>6. Unanswered' /\ Recording' /\ GrantsWereGiven'
  BY <1>1 DEF ConsentInv, Unanswered, Recording, GrantsWereGiven
<1> QED
  BY <1>4, <1>5, <1>6, Whole

\* After a crash no call runs; the rows of cards and grants are as they were.
LEMMA CrashKeeps ==
  ASSUME ConsentInv, Crash
  PROVE  ConsentInv'
<1>1. /\ UNCHANGED <<card, grants, task, answer, used, stopped>>
      /\ call' = [c \in Caller |-> NoCall] /\ cut' \subseteq Ask
      /\ ControlTyped'
  BY ControlTypes, Types DEF Crash, ConsentInv, TypeOK
<1>2. /\ call' \in [Caller -> Call]
      /\ \A c \in Caller : ~Running(c)' /\ call'[c].grants = {}
  BY <1>1, Fresh DEF NoCall, Running
<1>3. Carrying' /\ Remembering' /\ EveryEffectWasAllowed'
  BY <1>2 DEF Carrying, Remembering, EveryEffectWasAllowed
<1>4. TypeOK'
  BY <1>1, <1>2, Types DEF ConsentInv, TypeOK
<1>5. Unanswered' /\ Recording' /\ GrantsWereGiven'
  BY <1>1 DEF ConsentInv, Unanswered, Recording, GrantsWereGiven
<1> QED
  BY <1>3, <1>4, <1>5, Whole

\* Nothing has been asked, granted or started yet.
LEMMA ConsentInit == Init => ConsentInv
<1> SUFFICES ASSUME Init PROVE ConsentInv
  OBVIOUS
<1>1. TypeOK
  <2>1. /\ card \in [Ask -> Card] /\ call \in [Caller -> Call]
        /\ answer \in [Ask -> Decision \cup {"none"}]
    BY Fresh DEF Init
  <2>2. ControlTyped
    BY ApprovalsAssumption DEF Init, ControlTyped, TakeoverState, Row
  <2>3. grants = {} /\ task = "running" /\ stopped = FALSE /\ used = {} /\ cut = {}
    BY DEF Init
  <2> QED
    BY <2>1, <2>2, <2>3 DEF TypeOK, ControlTyped
<1>2. Unanswered /\ Recording /\ GrantsWereGiven
  BY DEF Init, NoCard, Unanswered, Recording, GrantsWereGiven
<1>3. Carrying /\ Remembering /\ EveryEffectWasAllowed
  BY DEF Init, NoCall, Running, Carrying, Remembering, EveryEffectWasAllowed
<1> QED
  BY <1>1, <1>2, <1>3 DEF ConsentInv

\* Every step keeps the consent invariant: one case per action of Next.
LEMMA ConsentNext ==
  ASSUME ConsentInv, [Next]_vars
  PROVE  ConsentInv'
<1>1. ASSUME NEW c \in Caller, CallStep(c)
      PROVE  ConsentInv'
  BY <1>1, StartKeeps, DecideKeeps, ActKeeps, FailKeeps, CommitKeeps DEF CallStep
<1>2. CASE Person
  BY <1>2, AnswerKeeps, PassKeeps, SweepKeeps, OutsideKeeps DEF Person
<1>3. CASE Control \/ Crash
  BY <1>3, OutsideKeeps, CrashKeeps
<1>4. CASE UNCHANGED vars
  BY <1>4 DEF vars, control, consent, ConsentInv, TypeOK, Unanswered, Recording, Carrying,
     Remembering, GrantsWereGiven, EveryEffectWasAllowed, Running
<1> QED
  BY <1>1, <1>2, <1>3, <1>4 DEF Next

-----------------------------------------------------------------------------
\* The consent invariant holds for ever: cards, answers, grants and the calls in
\* flight of dispatch (dispatcher.ts) always agree on what a person has allowed.
THEOREM ConsentCorrect == Spec => []ConsentInv
<1>1. ConsentInv /\ [Next]_vars => ConsentInv'
  BY ConsentNext
<1> QED
  BY <1>1, ConsentInit, PTL DEF Spec

\* No gated call ever runs that a person has not allowed, on its own card or by
\* granting its site, however calls, answers, deadlines and crashes interleave.
THEOREM EveryEffectWasAllowedCorrect == Spec => []EveryEffectWasAllowed
<1>1. ConsentInv => EveryEffectWasAllowed
  BY DEF ConsentInv
<1> QED
  BY <1>1, ConsentCorrect, PTL

\* Every remembered site was granted by a person, on a card that asked about it.
THEOREM GrantsWereGivenCorrect == Spec => []GrantsWereGiven
<1>1. ConsentInv => GrantsWereGiven
  BY DEF ConsentInv
<1> QED
  BY <1>1, ConsentCorrect, PTL

\* The stored decision of an allowed or spent card is what the person answered.
THEOREM RecordIsTheAnswerCorrect == Spec => []RecordIsTheAnswer
<1>1. ConsentInv => RecordIsTheAnswer
  BY DEF ConsentInv, Recording, RecordIsTheAnswer
<1> QED
  BY <1>1, ConsentCorrect, PTL

-----------------------------------------------------------------------------
\* A stop is durable: nothing takes its status back.
StopIsKept == stopped => task = "cancelled"

\* Every step keeps a stop that has been written.
LEMMA StopNext ==
  ASSUME ConsentInv, StopIsKept, [Next]_vars
  PROVE  StopIsKept'
<1>1. ASSUME NEW c \in Caller, CallStep(c)
      PROVE  UNCHANGED <<task, stopped>>
  BY <1>1 DEF CallStep, Start, Decide, Act, Fail, Commit
<1>2. ASSUME NEW k \in Ask, NEW d \in Decision, Answer(k, d)
      PROVE  StopIsKept'
  BY <1>2 DEF Answer, Cancels, StopIsKept
<1>3. ASSUME NEW k \in Ask, Pass(k) \/ Sweep(k)
      PROVE  UNCHANGED <<task, stopped>>
  BY <1>3 DEF Pass, Sweep
<1>4. CASE CancelTask
  BY <1>4 DEF CancelTask, Cancels, StopIsKept
<1>5. CASE Control \/ Crash
  BY <1>5 DEF Control, ModelAsks, ModelAsksInVain, PersonAsks, Heard, Refused, Take, Decline,
     Return, LoseBrowser, Rest, Crash, StopIsKept
<1>6. CASE UNCHANGED vars
  BY <1>6 DEF vars, StopIsKept
<1> QED
  BY <1>1, <1>2, <1>3, <1>4, <1>5, <1>6 DEF Next, Person, StopIsKept

\* Persons and control work on no call.
LEMMA CallsAreLeftAlone ==
  ASSUME Person \/ Control
  PROVE  UNCHANGED <<call, used, cut>>
BY DEF Person, Answer, Pass, Sweep, CancelTask, Control, ModelAsks, ModelAsksInVain, PersonAsks,
   Heard, Refused, Take, Decline, Return, LoseBrowser, Rest, consent

\* Only Decide sends a call out, and not that of a cancelled task.
LEMMA GoesOut ==
  ASSUME ConsentInv, [Next]_vars, NEW c \in Caller, call'[c].pc = "executing",
         task = "cancelled"
  PROVE  call[c].pc = "executing"
<1>1. ASSUME NEW d \in Caller, Leave(d)
      PROVE  call[c].pc = "executing"
  BY <1>1 DEF Leave, NoCall, ConsentInv, TypeOK
<1>2. ASSUME NEW d \in Caller, NEW a \in Action, Start(d, a)
      PROVE  FALSE
  BY <1>2 DEF Start, Cancelled
<1>3. ASSUME NEW d \in Caller, Decide(d)
      PROVE  Leave(d)
  BY <1>3 DEF Decide, FindExpired, FindUnallowed, FindApproved, RaiseCard, Go, Cancelled
<1>4. ASSUME NEW d \in Caller, Act(d)
      PROVE  call[c].pc = "executing"
  <2>1. call[d] \in Call /\ call' = [call EXCEPT ![d] = [call[d] EXCEPT !.pc = "acted"]]
    BY <1>4 DEF Act, ConsentInv, TypeOK
  <2>2. CASE c = d
    BY <2>1, <2>2 DEF Call, ConsentInv, TypeOK
  <2>3. CASE c # d
    BY <2>1, <2>3 DEF ConsentInv, TypeOK
  <2> QED
    BY <2>2, <2>3
<1>5. ASSUME NEW d \in Caller, Fail(d) \/ Commit(d)
      PROVE  Leave(d)
  BY <1>5 DEF Fail, Commit
<1>6. CASE Crash
  BY <1>6 DEF Crash, NoCall
<1>7. CASE Person \/ Control \/ UNCHANGED vars
  <2>1. UNCHANGED call
    BY <1>7, CallsAreLeftAlone DEF vars
  <2> QED
    BY <2>1
<1> QED
  BY <1>1, <1>2, <1>3, <1>4, <1>5, <1>6, <1>7 DEF Next, CallStep

\* Once a person has cancelled or killed a task, no further call of it goes out, also
\* not one that had already begun to observe.
THEOREM NothingStartsAfterStopCorrect == Spec => NothingStartsAfterStop
<1>1. Init => StopIsKept
  BY DEF Init, StopIsKept
<1>2. ConsentInv /\ StopIsKept /\ [Next]_vars => StopIsKept'
  BY StopNext
<1>3. ConsentInv /\ StopIsKept /\ [Next]_vars =>
        [\A c \in Caller : stopped /\ call'[c].pc = "executing" => call[c].pc = "executing"]_vars
  BY GoesOut DEF StopIsKept
<1> QED
  BY <1>1, <1>2, <1>3, ConsentCorrect, PTL DEF Spec, NothingStartsAfterStop

\* Every variable has its type: a card, a call and an answer are what the rows and
\* records of the code can hold.
THEOREM TypeCorrect == Spec => []TypeOK
<1>1. ConsentInv => TypeOK
  BY DEF ConsentInv
<1> QED
  BY <1>1, ConsentCorrect, PTL

-----------------------------------------------------------------------------
(* What one step does to one card, and to one call.                        *)

\* A card keeps its action, epoch, row and period, and is pending only if it was,
\* unless this step raises it for a call that found none.
Untouched(k) ==
  /\ card'[k].action = card[k].action /\ card'[k].epoch = card[k].epoch
  /\ card'[k].row = card[k].row /\ card'[k].period = card[k].period
  /\ card'[k].status = "pending" => card[k].status = "pending"
  /\ Raised(k)' <=> Raised(k)
RaisedBy(c, k) ==
  /\ call[c].pc = "observing" /\ FindNone(c)
  /\ ~Raised(k) /\ \A l \in Ask : l < k => Raised(l)
  /\ card'[k] = [NoCard EXCEPT !.action = call[c].action, !.epoch = call[c].epoch,
                               !.row = call[c].row, !.period = call[c].period,
                               !.status = "pending"]
  /\ \A l \in Ask : l # k => card'[l] = card[l]

LEMMA SettledUntouched ==
  ASSUME ConsentInv, NEW j \in Ask, NEW st \in Status \ {"none", "pending"}, NEW d \in Decision \cup {"null"},
         Settle(j, st, d), Raised(j), NEW k \in Ask
  PROVE  Untouched(k)
BY Settled DEF Untouched, Raised

LEMMA CardStep ==
  ASSUME ConsentInv, [Next]_vars, NEW k \in Ask
  PROVE  Untouched(k) \/ \E c \in Caller : RaisedBy(c, k)
<1>1. ASSUME UNCHANGED card PROVE Untouched(k)
  BY <1>1 DEF Untouched, Raised
<1>2. ASSUME NEW j \in Ask, Settle(j, "expired", "null"), Raised(j)
      PROVE  Untouched(k)
  BY <1>2, SettledUntouched DEF Status
<1>3. ASSUME NEW c \in Caller, Decide(c)
      PROVE  Untouched(k) \/ RaisedBy(c, k)
  <2>1. CASE FindExpired(c)
    BY <1>2, <2>1 DEF FindExpired, Exact, IsNewest
  <2>2. CASE UNCHANGED card
    BY <1>1, <2>2
  <2>3. ASSUME NEW j \in Ask, ~Raised(j), \A l \in Ask : l < j => Raised(l), FindNone(c),
               card' = [card EXCEPT ![j] =
                 [NoCard EXCEPT !.action = call[c].action, !.epoch = call[c].epoch,
                                !.row = call[c].row, !.period = call[c].period,
                                !.status = "pending"]]
        PROVE  Untouched(k) \/ RaisedBy(c, k)
    <3>1. card \in [Ask -> Card]
      BY DEF ConsentInv, TypeOK
    <3>2. CASE k = j
      BY <1>3, <2>3, <3>1, <3>2 DEF RaisedBy, Decide
    <3>3. CASE k # j
      BY <2>3, <3>1, <3>3 DEF Untouched, Raised
    <3> QED
      BY <3>2, <3>3
  <2>4. CASE RaiseCard(c)
    BY <2>2, <2>3, <2>4 DEF RaiseCard
  <2>5. CASE FindUnallowed(c) \/ FindApproved(c)
    BY <2>2, <2>5 DEF FindUnallowed, FindApproved
  <2> QED
    BY <1>3, <2>1, <2>2, <2>4, <2>5 DEF Decide
<1>4. ASSUME NEW c \in Caller, Commit(c)
      PROVE  Untouched(k)
  <2>1. CASE ~Spends(c)
    BY <1>1, <1>4, <2>1 DEF Commit
  <2>2. CASE Spends(c)
    <3>1. call[c] \in Call
      BY DEF ConsentInv, TypeOK
    <3>2. call[c].ask \in Ask /\ Raised(call[c].ask) /\ call[c].decided \in Decision \cup {"null"}
      BY <2>2, <3>1 DEF Spends, Call, Raised
    <3> QED
      BY <1>4, <2>2, <3>2, SettledUntouched DEF Commit, Recorded, Status
  <2> QED
    BY <2>1, <2>2
<1>5. ASSUME NEW c \in Caller, (\E a \in Action : Start(c, a)) \/ Act(c) \/ Fail(c)
      PROVE  UNCHANGED card
  BY <1>5 DEF Start, Act, Fail
<1>6. ASSUME NEW j \in Ask, NEW d \in Decision, Answer(j, d)
      PROVE  Untouched(k)
  <2>1. CASE card[j].due
    BY <1>2, <1>6, <2>1 DEF Answer, Raised
  <2>2. CASE ~card[j].due
    <3>1. StatusOf[d] \in Status \ {"none", "pending"}
      BY DEF StatusOf, Decision, Allow, Status
    <3> QED
      BY <1>6, <2>2, <3>1, SettledUntouched DEF Answer, Raised
  <2> QED
    BY <2>1, <2>2
<1>7. ASSUME NEW j \in Ask, Pass(j)
      PROVE  Untouched(k)
  <2>1. card' = [card EXCEPT ![j] = [card[j] EXCEPT !.due = TRUE]] /\ card \in [Ask -> Card]
    BY <1>7 DEF Pass, ConsentInv, TypeOK
  <2>2. /\ card'[k].action = card[k].action /\ card'[k].epoch = card[k].epoch
        /\ card'[k].row = card[k].row /\ card'[k].period = card[k].period
        /\ card'[k].status = card[k].status
    BY <2>1 DEF Card
  <2> QED
    BY <2>2 DEF Untouched, Raised
<1>8. ASSUME NEW j \in Ask, Sweep(j)
      PROVE  Untouched(k)
  BY <1>2, <1>8 DEF Sweep, Raised
<1>9. CASE CancelTask \/ Control \/ Crash \/ UNCHANGED vars
  BY <1>1, <1>9 DEF CancelTask, Control, ModelAsks, ModelAsksInVain, PersonAsks, Heard, Refused, Take,
     Decline, Return, LoseBrowser, Rest, Crash, vars
<1> QED
  BY <1>1, <1>3, <1>4, <1>5, <1>6, <1>7, <1>8, <1>9 DEF Next, CallStep, Person

\* A call is gone, has begun, goes out on a card that was allowed or on a grant, has
\* acted, or is where it was.
Begun(c) ==
  /\ takeover = "none" /\ UNCHANGED <<card, control>>
  /\ call'[c].pc = "observing" /\ call'[c].ask = NoAsk
  /\ call'[c].row = rows /\ call'[c].epoch = ControlEpoch /\ call'[c].period = period
Onward(c) ==
  /\ call[c].pc # "idle"
  /\ call'[c].action = call[c].action /\ call'[c].epoch = call[c].epoch
  /\ call'[c].row = call[c].row /\ call'[c].period = call[c].period
Out(c) ==
  /\ call[c].pc = "observing" /\ call'[c].pc = "executing" /\ UNCHANGED <<card, used, answer>>
  /\ call'[c].ask = NoAsk \/ (/\ call'[c].ask \in Ask /\ Exact(call'[c].ask, c)
                               /\ card[call'[c].ask].status = "approved")
Acted(c) == call[c].pc = "executing" /\ call'[c].pc = "acted" /\ call'[c].ask = call[c].ask /\ UNCHANGED card

LEMMA CallMoves ==
  ASSUME ConsentInv, [Next]_vars, NEW c \in Caller
  PROVE  \/ call'[c] = NoCall \/ Begun(c)
         \/ Onward(c) /\ (Out(c) \/ Acted(c))
         \/ call'[c] = call[c]
<1>0. call \in [Caller -> Call] /\ card \in [Ask -> Card]
  BY DEF ConsentInv, TypeOK
<1>2. ASSUME NEW d \in Caller, Leave(d)
      PROVE  call'[c] = NoCall \/ call'[c] = call[c]
  BY <1>0, <1>2 DEF Leave
<1>3. ASSUME NEW d \in Caller, NEW a \in Action, Start(d, a)
      PROVE  Begun(c) \/ call'[c] = call[c]
  <2>1. call' = [call EXCEPT ![d] = [NoCall EXCEPT !.pc = "observing", !.action = a,
                                       !.epoch = ControlEpoch, !.row = rows, !.period = period,
                                       !.grants = grants]]
        /\ takeover = "none" /\ UNCHANGED <<card, control>>
    BY <1>3 DEF Start
  <2> QED
    BY <1>0, <2>1 DEF Begun, NoCall
<1>4. ASSUME NEW d \in Caller, NEW k \in Ask \cup {NoAsk}, Go(d, k), call[d].pc = "observing",
             UNCHANGED <<card, used, answer>>,
             k # NoAsk => Exact(k, d) /\ card[k].status = "approved"
      PROVE  call'[c] = NoCall \/ call'[c] = call[c] \/ (Onward(c) /\ Out(c))
  <2>1. CASE Leave(d)
    BY <1>2, <2>1
  <2>2. CASE ~Leave(d)
    <3> DEFINE dec == IF k = NoAsk THEN "null" ELSE card[k].decision
    <3>1. call' = [call EXCEPT ![d] = [call[d] EXCEPT !.pc = "executing", !.ask = k, !.decided = dec]]
      BY <1>0, <2>2, <1>4 DEF Go, Call
    <3>2. CASE c = d
      <4>1. call'[c] = [call[c] EXCEPT !.pc = "executing", !.ask = k, !.decided = dec] /\ call[c] \in Call
        BY <1>0, <3>1, <3>2
      <4> HIDE DEF dec
      <4>2. /\ call'[c].pc = "executing" /\ call'[c].ask = k /\ call'[c].action = call[c].action
            /\ call'[c].epoch = call[c].epoch /\ call'[c].row = call[c].row
            /\ call'[c].period = call[c].period
        BY <4>1 DEF Call
      <4> QED
        BY <1>4, <3>2, <4>2 DEF Onward, Out
    <3>3. CASE c # d
      BY <1>0, <3>1, <3>3
    <3> QED
      BY <3>2, <3>3
  <2> QED
    BY <2>1, <2>2
<1>5. ASSUME NEW d \in Caller, Decide(d)
      PROVE  call'[c] = NoCall \/ call'[c] = call[c] \/ (Onward(c) /\ Out(c))
  <2>1. CASE FindExpired(d) \/ FindUnallowed(d) \/ RaiseCard(d)
    BY <1>2, <2>1 DEF FindExpired, FindUnallowed, RaiseCard
  <2>2. CASE FindApproved(d)
    <3>1. PICK k \in Ask : Exact(k, d) /\ IsApproved(k) /\ Go(d, k)
      BY <2>2 DEF FindApproved
    <3> QED
      BY <1>4, <1>5, <2>2, <3>1 DEF Decide, FindApproved, IsApproved, consent
  <2>3. CASE Go(d, NoAsk) /\ UNCHANGED card
    BY <1>4, <1>5, <2>3 DEF Decide, consent
  <2> QED
    BY <1>5, <2>1, <2>2, <2>3 DEF Decide
<1>6. ASSUME NEW d \in Caller, Act(d)
      PROVE  call'[c] = call[c] \/ (Onward(c) /\ Acted(c))
  <2>1. call' = [call EXCEPT ![d] = [call[d] EXCEPT !.pc = "acted"]] /\ call[d].pc = "executing" /\ UNCHANGED card
    BY <1>6 DEF Act
  <2>2. CASE c = d
    <3>1. call'[c] = [call[c] EXCEPT !.pc = "acted"] /\ call[c] \in Call
      BY <1>0, <2>1, <2>2
    <3>2. /\ call'[c].pc = "acted" /\ call'[c].ask = call[c].ask /\ call'[c].action = call[c].action
          /\ call'[c].epoch = call[c].epoch /\ call'[c].row = call[c].row
          /\ call'[c].period = call[c].period
      BY <3>1 DEF Call
    <3> QED
      BY <2>1, <2>2, <3>2 DEF Onward, Acted
  <2>3. CASE c # d
    BY <1>0, <2>1, <2>3
  <2> QED
    BY <2>2, <2>3
<1>7. ASSUME NEW d \in Caller, Fail(d) \/ Commit(d)
      PROVE  call'[c] = NoCall \/ call'[c] = call[c]
  BY <1>2, <1>7 DEF Fail, Commit
<1>8. CASE Crash
  BY <1>8 DEF Crash
<1>9. CASE Person \/ Control \/ UNCHANGED vars
  BY <1>9, CallsAreLeftAlone DEF vars
<1> QED
  BY <1>3, <1>5, <1>6, <1>7, <1>8, <1>9 DEF Next, CallStep

-----------------------------------------------------------------------------
(* The epochs of the takeover rows.                                        *)

\* The rows of one count have growing epochs, and none is past the count of today's
\* process; a row that the computer has counted and nobody has taken has the newest.
Counting ==
  /\ \A r \in Row : r <= rows =>
       counted[r] <= life /\ (counted[r] = life => rowEpoch[r] <= counter)
  /\ \A r, s \in Row : r < s /\ s <= rows /\ counted[r] = counted[s] /\ counted[r] # 0 =>
       rowEpoch[r] < rowEpoch[s]
  /\ takeover = "asked" => counted[rows] = life /\ rowEpoch[rows] = counter

\* A step on the count alone: it goes on, or starts again.
LEMMA CountGoesOn ==
  ASSUME ControlTyped, Counting, UNCHANGED <<rows, rowEpoch, counted>>, takeover' # "asked",
         counter' \in Nat, life' \in Nat,
         (life' = life /\ counter <= counter') \/ life' = life + 1
  PROVE  Counting'
<1>1. ASSUME NEW r \in Row, r <= rows
      PROVE  counted[r] <= life' /\ (counted[r] = life' => rowEpoch[r] <= counter')
  <2>1. /\ counted[r] \in Nat /\ rowEpoch[r] \in Nat /\ life \in Nat /\ counter \in Nat
        /\ counted[r] <= life /\ (counted[r] = life => rowEpoch[r] <= counter)
    BY <1>1 DEF ControlTyped, Counting
  <2> QED
    BY <2>1
<1> QED
  BY <1>1 DEF Counting

\* A row that has been counted on from the one before it.
LEMMA CountsRow ==
  ASSUME ControlTyped, Counting, NEW n \in Row, n = rows', rows' \in {rows, rows + 1},
         rowEpoch' = [rowEpoch EXCEPT ![n] = counter'], counted' = [counted EXCEPT ![n] = life],
         counter' = counter + 1, UNCHANGED life
  PROVE  Counting'
<1>0. /\ rows \in Nat /\ counter \in Nat /\ life \in Nat /\ Row \subseteq Nat
      /\ \A r \in Row : counted[r] \in Nat /\ rowEpoch[r] \in Nat
  BY ApprovalsAssumption DEF ControlTyped, Row
<1>1. /\ rowEpoch'[n] = counter' /\ counted'[n] = life
      /\ \A r \in Row : r # n => rowEpoch'[r] = rowEpoch[r] /\ counted'[r] = counted[r]
  BY DEF ControlTyped
<1>2. \A r \in Row : r <= rows' /\ r # n => r <= rows
  BY <1>0
<1>3. \A r \in Row : r <= rows' =>
        counted'[r] <= life' /\ (counted'[r] = life' => rowEpoch'[r] <= counter')
  BY <1>0, <1>1, <1>2 DEF Counting
<1>4. ASSUME NEW r \in Row, NEW s \in Row, r < s, s <= rows', counted'[r] = counted'[s], counted'[r] # 0
      PROVE  rowEpoch'[r] < rowEpoch'[s]
  <2>1. r # n /\ r <= rows
    BY <1>0, <1>4
  <2>2. CASE s = n
    <3>1. counted[r] = life /\ rowEpoch'[r] = rowEpoch[r]
      BY <1>1, <1>4, <2>1, <2>2
    <3>2. rowEpoch[r] <= counter
      BY <2>1, <3>1 DEF Counting
    <3> QED
      BY <1>0, <1>1, <2>2, <3>1, <3>2
  <2>3. CASE s # n
    BY <1>0, <1>1, <1>2, <1>4, <2>1, <2>3 DEF Counting
  <2> QED
    BY <2>2, <2>3
<1> QED
  BY <1>0, <1>1, <1>3, <1>4 DEF Counting

LEMMA CountingNext ==
  ASSUME ConsentInv, Counting, [Next]_vars
  PROVE  Counting'
<1>0. ControlTyped /\ ControlTyped'
  BY ConsentNext DEF ConsentInv, TypeOK, ControlTyped
<1>1. /\ rows \in Nat /\ counter \in Nat /\ life \in Nat /\ Row \subseteq Nat /\ rows \in Row
      /\ counter' \in Nat /\ life' \in Nat
      /\ \A r \in Row : counted[r] \in Nat /\ rowEpoch[r] \in Nat
  BY <1>0, ApprovalsAssumption DEF ControlTyped, Row
<1>2. CASE UNCHANGED control
  BY <1>2 DEF control, Counting
<1>3. CASE Cancels \/ Refused \/ Decline \/ Return
  <2>1. /\ UNCHANGED <<rows, rowEpoch, counted, life>>
        /\ counter' \in {counter, counter + 1, counter + 2}
        /\ takeover' = "none" \/ UNCHANGED control
    BY <1>3 DEF Cancels, Refused, Decline, Return, control
  <2>2. CASE takeover' = "none"
    BY <1>0, <1>1, <2>1, <2>2, CountGoesOn
  <2> QED
    BY <1>2, <2>1, <2>2
<1>4. CASE LoseBrowser \/ Crash
  <2>1. \/ UNCHANGED control
        \/ /\ UNCHANGED <<rows, rowEpoch, counted>> /\ life' = life + 1
           /\ takeover' # "asked"
    BY <1>4 DEF LoseBrowser, Crash, FreshProcess
  <2> QED
    BY <1>0, <1>1, <1>2, <2>1, CountGoesOn
<1>5. ASSUME NEW state, NEW epoch \in Nat, NEW count \in Nat, Opens(state, epoch, count)
      PROVE  /\ rows + 1 \in Row /\ rows' = rows + 1
             /\ rowEpoch' = [rowEpoch EXCEPT ![rows'] = epoch]
             /\ counted' = [counted EXCEPT ![rows'] = count]
  BY <1>1, <1>5, ApprovalsAssumption DEF Opens, Row
<1>6. CASE ModelAsks
  BY <1>0, <1>1, <1>5, <1>6, CountsRow DEF ModelAsks, CountsUp
<1>7. CASE ModelAsksInVain \/ PersonAsks
  <2>1. /\ UNCHANGED <<counter, life>> /\ takeover' # "asked"
        /\ rows' \in Row /\ rows' = rows + 1
        /\ rowEpoch' = [rowEpoch EXCEPT ![rows'] = 0]
        /\ counted' = [counted EXCEPT ![rows'] = 0]
    BY <1>5, <1>7 DEF ModelAsksInVain, PersonAsks, Opens
  <2>2. /\ rowEpoch'[rows'] = 0 /\ counted'[rows'] = 0
        /\ \A r \in Row : r <= rows => rowEpoch'[r] = rowEpoch[r] /\ counted'[r] = counted[r]
    BY <1>0, <1>1, <2>1 DEF ControlTyped
  <2>3. \A r \in Row : r <= rows' => r <= rows \/ r = rows'
    BY <1>1, <2>1
  <2>4. \A r, s \in Row : r < s /\ s <= rows' => r <= rows
    BY <1>1, <2>1
  <2> QED
    BY <1>1, <2>1, <2>2, <2>3, <2>4 DEF Counting
<1>8. CASE Heard \/ (Take /\ takeover # "asked")
  BY <1>0, <1>1, <1>8, CountsRow DEF Heard, Take, Hears, CountsUp
<1>9. CASE Take /\ takeover = "asked"
  <2>1. /\ takeover' = "human" /\ UNCHANGED <<rows, counter, life>>
        /\ rowEpoch' = [rowEpoch EXCEPT ![rows] = counter]
        /\ counted' = [counted EXCEPT ![rows] = life]
        /\ counted[rows] = life /\ rowEpoch[rows] = counter
    BY <1>9 DEF Take, Hears, Counting
  <2>2. UNCHANGED <<rowEpoch, counted>>
    BY <1>0, <2>1 DEF ControlTyped
  <2> QED
    BY <2>1, <2>2 DEF Counting
<1>10. UNCHANGED control \/ Cancels \/ Control \/ Crash
  BY DEF Next, CallStep, Person, Start, Decide, Act, Fail, Commit, Answer, Pass, Sweep, CancelTask,
     vars
<1> QED
  BY <1>2, <1>3, <1>4, <1>6, <1>7, <1>8, <1>9, <1>10 DEF Control

-----------------------------------------------------------------------------
(* What carries the number of a row.                                       *)

\* The row, epoch and period that a card or a call was stamped with.
Stamp(x) == <<x.row, x.epoch, x.period>>
Now == <<rows, ControlEpoch, period>>
Stamps ==
  {Stamp(card[k]) : k \in {j \in Ask : Raised(j)}} \cup
  {Stamp(call[c]) : c \in {d \in Caller : call[d].pc # "idle"}}

\* What is stamped with a row has its epoch for good, for the row is closed by then,
\* and one period with all that has the same stamp of a row.
Stamping ==
  /\ \A t \in Stamps :
       /\ t[1] \in Row /\ t[3] \in Nat
       /\ t[1] <= rows /\ t[2] = rowEpoch[t[1]]
       /\ takeover # "none" => t[1] < rows
       /\ t[1] = rows => t[3] = period
  /\ \A t, u \in Stamps : t[1] = u[1] => t[3] = u[3]

\* A call that starts has today's stamp, and a card has the stamp of its call.
LEMMA StampsNext ==
  ASSUME ConsentInv, [Next]_vars
  PROVE  \/ Stamps' \subseteq Stamps
         \/ takeover = "none" /\ UNCHANGED control /\ Stamps' \subseteq Stamps \cup {Now}
<1>1. ASSUME NEW k \in Ask, Raised(k)'
      PROVE  Stamp(card'[k]) \in Stamps
  <2>1. CASE Untouched(k)
    BY <1>1, <2>1 DEF Untouched, Stamp, Stamps
  <2>2. ASSUME NEW c \in Caller, RaisedBy(c, k)
        PROVE  Stamp(card'[k]) = Stamp(call[c]) /\ call[c].pc # "idle"
    BY <2>2 DEF RaisedBy, NoCard, Stamp
  <2> QED
    BY <2>1, <2>2, CardStep DEF Stamps
<1>2. ASSUME NEW c \in Caller, call'[c].pc # "idle"
      PROVE  \/ Stamp(call'[c]) \in Stamps
             \/ takeover = "none" /\ UNCHANGED control /\ Stamp(call'[c]) = Now
  <2>1. CASE Begun(c)
    BY <2>1 DEF Begun, Stamp, Now
  <2>2. CASE Onward(c)
    BY <2>2 DEF Onward, Stamp, Stamps
  <2>3. CASE call'[c] = call[c]
    BY <1>2, <2>3 DEF Stamps
  <2> QED
    BY <1>2, <2>1, <2>2, <2>3, CallMoves DEF NoCall
<1>3. \A t \in Stamps' : \/ \E k \in Ask : Raised(k)' /\ t = Stamp(card'[k])
                         \/ \E c \in Caller : call'[c].pc # "idle" /\ t = Stamp(call'[c])
  BY DEF Stamps, Stamp
<1> QED
  BY <1>1, <1>2, <1>3

\* An epoch is written to the newest row while its takeover is open, and a new row is
\* opened only when none is.
LEMMA RowsAreClosed ==
  ASSUME ConsentInv, [Next]_vars
  PROVE  \/ UNCHANGED <<rows, rowEpoch>> /\ takeover' = "none" /\ UNCHANGED period
         \/ UNCHANGED <<rows, rowEpoch, period>> /\ takeover # "none"
         \/ UNCHANGED <<rows, rowEpoch, period>> /\ takeover' = takeover
         \/ /\ takeover # "none" /\ rows' = rows
            /\ \A r \in Row : r < rows => rowEpoch'[r] = rowEpoch[r]
         \/ /\ rows' = rows + 1
            /\ \A r \in Row : r <= rows => rowEpoch'[r] = rowEpoch[r]
<1>0. ControlTyped /\ rows \in Nat /\ Row \subseteq Nat /\ rows \in Row
  BY Types, ApprovalsAssumption DEF ConsentInv, ControlTyped, Row
<1>1. CASE UNCHANGED control
  BY <1>1 DEF control
<1>2. CASE Cancels \/ Refused \/ Decline \/ Return
  BY <1>2 DEF Cancels, Refused, Decline, Return, control
<1>3. CASE LoseBrowser \/ Crash
  BY <1>3 DEF LoseBrowser, Crash, FreshProcess, control
<1>4. CASE ModelAsks \/ ModelAsksInVain \/ PersonAsks
  BY <1>0, <1>4 DEF ModelAsks, ModelAsksInVain, PersonAsks, Opens, ControlTyped
<1>5. CASE Heard \/ Take
  BY <1>0, <1>5 DEF Heard, Take, Hears, ControlTyped
<1>6. UNCHANGED control \/ Cancels \/ Control \/ Crash
  BY DEF Next, CallStep, Person, Start, Decide, Act, Fail, Commit, Answer, Pass, Sweep, CancelTask,
     vars
<1> QED
  BY <1>1, <1>2, <1>3, <1>4, <1>5, <1>6 DEF Control

LEMMA StampingNext ==
  ASSUME ConsentInv, Stamping, [Next]_vars
  PROVE  Stamping'
<1>0. ControlTyped /\ rows \in Nat /\ Row \subseteq Nat /\ rows \in Row
  BY Types, ApprovalsAssumption DEF ConsentInv, ControlTyped, Row
<1>1. ASSUME NEW t \in Stamps
      PROVE  /\ t[1] \in Row /\ t[3] \in Nat
             /\ t[1] <= rows' /\ t[2] = rowEpoch'[t[1]]
             /\ takeover' # "none" => t[1] < rows'
             /\ t[1] = rows' => t[3] = period'
  <2>1. /\ t[1] \in Row /\ t[3] \in Nat /\ t[1] <= rows /\ t[2] = rowEpoch[t[1]]
        /\ takeover # "none" => t[1] < rows
        /\ t[1] = rows => t[3] = period
    BY <1>1 DEF Stamping
  <2> DEFINE r == t[1]
  <2>2. r \in Nat
    BY <1>0, <2>1
  <2> HIDE DEF r
  <2>3. r <= rows' /\ t[2] = rowEpoch'[r] /\ (takeover' # "none" => r < rows')
        /\ (r = rows' => t[3] = period')
    BY <1>0, <2>1, <2>2, RowsAreClosed DEF r
  <2> QED
    BY <2>1, <2>3 DEF r
<1>2. CASE Stamps' \subseteq Stamps
  BY <1>1, <1>2 DEF Stamping
<1>3. CASE takeover = "none" /\ UNCHANGED control /\ Stamps' \subseteq Stamps \cup {Now}
  <2>1. UNCHANGED <<takeover, rows, rowEpoch, period>>
    BY <1>3 DEF control
  <2>2. /\ Now[1] = rows /\ Now[2] = rowEpoch[rows] /\ Now[3] = period /\ period \in Nat
    BY <1>0 DEF Now, ControlEpoch, ControlTyped
  <2>3. \A t \in Stamps : t[1] = rows => t[3] = period
    BY DEF Stamping
  <2>4. \A t \in Stamps' : t \in Stamps \/ t = Now
    BY <1>3
  <2>5. \A t \in Stamps' :
          /\ t[1] \in Row /\ t[3] \in Nat
          /\ t[1] <= rows' /\ t[2] = rowEpoch'[t[1]]
          /\ takeover' # "none" => t[1] < rows'
          /\ t[1] = rows' => t[3] = period'
    BY <1>0, <1>1, <1>3, <2>1, <2>2, <2>4
  <2>6. \A t, u \in Stamps' : t[1] = u[1] => t[3] = u[3]
    BY <2>2, <2>3, <2>4 DEF Stamping
  <2> QED
    BY <2>5, <2>6 DEF Stamping
<1> QED
  BY <1>2, <1>3, StampsNext

\* A call that runs on a card has the epoch of the card.
Matching ==
  \A c \in Caller : Running(c) /\ call[c].ask # NoAsk =>
    /\ call[c].ask \in Ask /\ Raised(call[c].ask)
    /\ card[call[c].ask].epoch = call[c].epoch

LEMMA MatchingNext ==
  ASSUME ConsentInv, Matching, [Next]_vars
  PROVE  Matching'
<1> SUFFICES ASSUME NEW c \in Caller, Running(c)', call'[c].ask # NoAsk
             PROVE  /\ call'[c].ask \in Ask /\ card'[call'[c].ask].status # "none"
                    /\ card'[call'[c].ask].epoch = call'[c].epoch
  BY DEF Matching, Raised, Running
<1>1. CASE Onward(c) /\ Out(c)
  BY <1>1 DEF Onward, Out, Exact, IsNewest, Raised
<1>2. ASSUME Running(c), call'[c].ask = call[c].ask, call'[c].epoch = call[c].epoch
      PROVE  /\ call'[c].ask \in Ask /\ card'[call'[c].ask].status # "none"
             /\ card'[call'[c].ask].epoch = call'[c].epoch
  <2>1. /\ call[c].ask \in Ask /\ Raised(call[c].ask)
        /\ card[call[c].ask].epoch = call[c].epoch
    BY <1>2 DEF Matching
  <2>2. Untouched(call[c].ask)
    BY <2>1, CardStep DEF RaisedBy
  <2> QED
    BY <1>2, <2>1, <2>2 DEF Untouched, Raised
<1> QED
  BY <1>1, <1>2, CallMoves DEF Begun, Onward, Acted, Running, NoCall

\* The three together are what epochs tell: from Init by every step.
EpochInv == Counting /\ Stamping /\ Matching

LEMMA EpochsHold == Spec => []EpochInv
<1>1. Init => EpochInv
  <2> SUFFICES ASSUME Init PROVE EpochInv
    OBVIOUS
  <2>1. Row \subseteq Nat /\ Stamps = {}
    BY ApprovalsAssumption DEF Init, Row, Stamps, Raised, NoCard, NoCall
  <2>2. Counting
    BY <2>1 DEF Init, Counting
  <2>3. Matching
    BY DEF Init, Matching, Running, NoCall
  <2> QED
    BY <2>1, <2>2, <2>3 DEF EpochInv, Stamping
<1>2. ConsentInv /\ EpochInv /\ [Next]_vars => EpochInv'
  BY CountingNext, StampingNext, MatchingNext DEF EpochInv
<1> QED
  BY <1>1, <1>2, ConsentCorrect, PTL DEF Spec

\* Two rows of one count that have one epoch are one row.
LEMMA EpochsTellRows ==
  ASSUME TypeOK, Counting, NEW r \in Row, NEW s \in Row, r <= rows, s <= rows,
         rowEpoch[r] = rowEpoch[s], SameCount(r, s)
  PROVE  r = s
<1>1. Row \subseteq Nat /\ rowEpoch[r] \in Nat
  BY ApprovalsAssumption DEF Row, TypeOK
<1>2. CASE counted[r] = counted[s] /\ counted[r] # 0
  <2>1. ~(r < s)
    BY <1>1, <1>2 DEF Counting
  <2>2. ~(s < r)
    BY <1>1, <1>2 DEF Counting
  <2> QED
    BY <1>1, <2>1, <2>2
<1> QED
  BY <1>2 DEF SameCount

\* Consent that was asked for before a human hold is not used by a call of after it, as
\* far as epochs can tell two rows apart: those that one process of the browser has
\* counted, and a row and itself.  However requests, refusals, answers that come late
\* or never, holds, lost processes and crashes interleave, for any number of calls.
THEOREM ConsentIsOfThisPeriodCorrect == Spec => []ConsentIsOfThisPeriod
<1>1. ConsentInv /\ EpochInv => ConsentIsOfThisPeriod
  <2> SUFFICES ASSUME ConsentInv, EpochInv, NEW c \in Caller, Running(c), call[c].ask # NoAsk,
                      SameCount(card[call[c].ask].row, call[c].row)
               PROVE  card[call[c].ask].period = call[c].period
    BY DEF ConsentIsOfThisPeriod
  <2> DEFINE k == call[c].ask
             t == Stamp(card[k])
             u == Stamp(call[c])
  <2>1. k \in Ask /\ Raised(k) /\ card[k].epoch = call[c].epoch /\ call[c].pc # "idle"
    BY DEF EpochInv, Matching, Running
  <2>2. t \in Stamps /\ u \in Stamps
    BY <2>1 DEF Stamps
  <2>3. /\ t[1] = card[k].row /\ t[2] = card[k].epoch /\ t[3] = card[k].period
        /\ u[1] = call[c].row /\ u[2] = call[c].epoch /\ u[3] = call[c].period
    BY DEF Stamp
  <2>4. /\ t[1] \in Row /\ u[1] \in Row /\ t[1] <= rows /\ u[1] <= rows
        /\ rowEpoch[t[1]] = rowEpoch[u[1]]
    BY <2>1, <2>2, <2>3 DEF EpochInv, Stamping
  <2>5. t[1] = u[1]
    BY <2>3, <2>4, EpochsTellRows DEF EpochInv, ConsentInv
  <2> QED
    BY <2>2, <2>3, <2>5 DEF EpochInv, Stamping
<1> QED
  BY <1>1, ConsentCorrect, EpochsHold, PTL

-----------------------------------------------------------------------------
(* One card, and one call on it.                                           *)

\* Cards are raised in their order; a card of an action is raised beside a pending one
\* only under the number of another row.
CardsInv ==
  /\ \A k, l \in Ask : k < l /\ Raised(l) => Raised(k)
  /\ OneCard

LEMMA CardsNext ==
  ASSUME ConsentInv, Stamping, CardsInv, [Next]_vars
  PROVE  CardsInv'
<1>0. Ask \subseteq Nat
  BY DEF Ask
<1>1. ASSUME NEW k \in Ask, NEW l \in Ask, k < l, Raised(l)'
      PROVE  Raised(k)'
  <2>1. CASE Raised(k)
    <3>1. Untouched(k)
      BY <2>1, CardStep DEF RaisedBy
    <3> QED
      BY <2>1, <3>1 DEF Untouched
  <2>2. CASE Raised(l)
    BY <1>1, <2>1, <2>2 DEF CardsInv
  <2>3. ASSUME NEW c \in Caller, RaisedBy(c, l) PROVE Raised(k)'
    BY <1>1, <2>1, <2>3 DEF RaisedBy
  <2> QED
    BY <1>1, <2>2, <2>3, CardStep DEF Untouched
<1>2. ASSUME NEW k \in Ask, NEW l \in Ask, k < l, Between(k, l)' = {},
             card'[k].status = "pending", card'[l].status = "pending",
             card'[k].action = card'[l].action
      PROVE  card'[k].row # card'[l].row
  <2>1. ASSUME NEW m \in Ask, m < l, NEW c \in Caller, RaisedBy(c, m)
        PROVE  FALSE
    <3>1. ~Raised(m) /\ card'[l] = card[l]
      BY <1>0, <2>1 DEF RaisedBy
    <3>2. Raised(l)
      BY <1>2, <3>1 DEF Raised
    <3> QED
      BY <2>1, <3>1, <3>2 DEF CardsInv
  <2>2. \A m \in Ask : m < l => Untouched(m)
    BY <2>1, CardStep
  <2>3. /\ card[k].status = "pending" /\ card'[k].action = card[k].action
        /\ card'[k].row = card[k].row
    BY <1>2, <2>2 DEF Untouched
  <2>4. \A m \in Ask : k < m /\ m < l => card[m].action # card[k].action
    BY <1>2, <2>2, <2>3 DEF Between, Untouched
  <2>5. CASE Untouched(l)
    <3>1. Between(k, l) = {}
      BY <2>4 DEF Between
    <3> QED
      BY <1>2, <2>3, <2>5, <3>1 DEF Untouched, CardsInv, OneCard
  <2>6. ASSUME NEW c \in Caller, RaisedBy(c, l)
        PROVE  card'[k].row # card'[l].row
    <3>1. /\ card'[l].row = call[c].row /\ card'[l].action = call[c].action
          /\ call[c].pc # "idle" /\ ~Raised(l) /\ FindNone(c)
      BY <2>6 DEF RaisedBy, NoCard
    <3>2. \A m \in Ask : Raised(m) => m < l
      BY <1>0, <3>1 DEF CardsInv
    <3>3. IsNewest(k, call[c].action)
      BY <1>0, <1>2, <2>3, <2>4, <3>1, <3>2 DEF IsNewest, Raised
    <3>4. card[k].epoch # call[c].epoch
      BY <2>3, <3>1, <3>3 DEF FindNone, Exact
    <3>5. Stamp(card[k]) \in Stamps /\ Stamp(call[c]) \in Stamps
      BY <2>3, <3>1 DEF Stamps, Raised
    <3>6. card[k].epoch = rowEpoch[card[k].row] /\ call[c].epoch = rowEpoch[call[c].row]
      BY <3>5 DEF Stamping, Stamp
    <3> QED
      BY <2>3, <3>1, <3>4, <3>6
  <2> QED
    BY <2>5, <2>6, CardStep
<1> QED
  BY <1>1, <1>2 DEF CardsInv, OneCard

\* While a card of an action is pending a person is not asked about it again, however
\* many calls repeat it at once, unless control was asked for meanwhile.
THEOREM OneCardCorrect == Spec => []OneCard
<1>1. Init => CardsInv
  BY DEF Init, CardsInv, OneCard, NoCard, Raised
<1>2. ConsentInv /\ EpochInv /\ CardsInv /\ [Next]_vars => CardsInv'
  BY CardsNext DEF EpochInv
<1>3. CardsInv => OneCard
  BY DEF CardsInv
<1> QED
  BY <1>1, <1>2, <1>3, ConsentCorrect, EpochsHold, PTL DEF Spec

\* A card on which a call has acted was answered with a consent, and no answer comes twice.
Spending ==
  /\ OnceBuysOneCall
  /\ \A k \in used : answer[k] \in Allow

\* Only an answer allows a card.
LEMMA Allowed ==
  ASSUME ConsentInv, [Next]_vars, NEW k \in Ask, card'[k].status = "approved",
         card[k].status # "approved"
  PROVE  answer[k] = "none"
<1>0. card \in [Ask -> Card]
  BY DEF ConsentInv, TypeOK
<1>1. ASSUME NEW j \in Ask, NEW st \in Status, NEW d \in Decision \cup {"null"}, Settle(j, st, d)
      PROVE  st = "approved" /\ j = k
  BY <1>1, Settled
<1>2. ASSUME NEW c \in Caller, Decide(c)
      PROVE  FALSE
  <2>1. CASE FindExpired(c)
    BY <1>1, <2>1 DEF FindExpired, Status
  <2>2. CASE RaiseCard(c)
    BY <1>0, <2>2 DEF RaiseCard, NoCard
  <2> QED
    BY <1>2, <2>1, <2>2 DEF Decide, FindUnallowed, FindApproved
<1>3. ASSUME NEW c \in Caller, Commit(c)
      PROVE  FALSE
  <2>1. call[c] \in Call
    BY DEF ConsentInv, TypeOK
  <2>2. CASE Spends(c)
    BY <1>1, <1>3, <2>1, <2>2 DEF Commit, Spends, Recorded, Call, Status
  <2> QED
    BY <1>3, <2>2 DEF Commit
<1>4. ASSUME NEW j \in Ask, NEW d \in Decision, Answer(j, d)
      PROVE  answer[k] = "none"
  <2>1. StatusOf[d] \in Status /\ d \in Decision \cup {"null"} /\ "expired" \in Status
    BY DEF StatusOf, Decision, Allow, Status
  <2>2. j = k /\ card[j].status = "pending"
    BY <1>1, <1>4, <2>1 DEF Answer
  <2> QED
    BY <2>2 DEF ConsentInv, Unanswered
<1>5. ASSUME NEW j \in Ask, Pass(j) \/ Sweep(j)
      PROVE  FALSE
  BY <1>0, <1>1, <1>5 DEF Pass, Sweep, Status, Card
<1>6. CASE CancelTask \/ Control \/ UNCHANGED vars
  BY <1>6 DEF CancelTask, Control, ModelAsks, ModelAsksInVain, PersonAsks, Heard, Refused, Take,
     Decline, Return, LoseBrowser, Rest, vars
<1> QED
  BY <1>2, <1>3, <1>4, <1>5, <1>6 DEF Next, CallStep, Person, Start, Act, Fail, Crash

\* An answer once given stays.
LEMMA AnswersStay ==
  ASSUME ConsentInv, [Next]_vars, NEW k \in Ask, answer[k] # "none"
  PROVE  answer'[k] = answer[k]
<1>1. ASSUME NEW j \in Ask, NEW d \in Decision, Answer(j, d)
      PROVE  answer'[k] = answer[k]
  <2>1. answer[j] = "none" /\ answer \in [Ask -> Decision \cup {"none"}]
    BY <1>1 DEF Answer, ConsentInv, TypeOK, Unanswered
  <2> QED
    BY <1>1, <2>1 DEF Answer
<1> QED
  BY <1>1 DEF Next, CallStep, Person, Start, Decide, Act, Fail, Commit, Pass, Sweep, CancelTask, Crash,
     Control, ModelAsks, ModelAsksInVain, PersonAsks, Heard, Refused, Take, Decline, Return,
     LoseBrowser, Rest, vars, consent

\* A call that has acted goes on to spend its card, unless a crash cuts it off.
LEMMA ActedStays ==
  ASSUME ConsentInv, [Next]_vars, NEW c \in Caller, call[c].pc = "acted", call[c].ask \in Ask
  PROVE  \/ call'[c] = call[c] /\ cut \subseteq cut'
         \/ call[c].ask \in cut'
         \/ Commit(c)
<1>1. call \in [Caller -> Call]
  BY DEF ConsentInv, TypeOK
<1>2. ASSUME NEW d \in Caller, d # c, CallStep(d)
      PROVE  call'[c] = call[c] /\ cut' = cut
  BY <1>1, <1>2 DEF CallStep, Start, Decide, Act, Fail, Commit, Leave, FindExpired, FindUnallowed,
     FindApproved, RaiseCard, Go, consent
<1>3. CASE CallStep(c)
  BY <1>3 DEF CallStep, Start, Decide, Act, Fail
<1>4. CASE Crash
  BY <1>4 DEF Crash
<1>5. CASE Person \/ Control \/ UNCHANGED vars
  BY <1>5, CallsAreLeftAlone DEF vars, consent
<1> QED
  BY <1>2, <1>3, <1>4, <1>5 DEF Next

LEMMA SpendingNext ==
  ASSUME ConsentInv, Spending, [Next]_vars
  PROVE  Spending'
<1>1. ASSUME NEW k \in used'
      PROVE  k \in used \/ \E c \in Caller : /\ Act(c) /\ call[c].ask = k /\ k # NoAsk
  BY DEF Next, CallStep, Person, Start, Decide, Act, Fail, Commit, Answer, Pass, Sweep, CancelTask, Crash,
     Control, ModelAsks, ModelAsksInVain, PersonAsks, Heard, Refused, Take, Decline, Return,
     LoseBrowser, Rest, vars, consent
<1>2. \A k \in used' : k \in Ask
  BY ConsentNext DEF ConsentInv, TypeOK
<1>3. cut \subseteq cut'
  BY CallsAreLeftAlone DEF Next, CallStep, Start, Decide, Act, Fail, Commit, Crash, vars, consent
<1>4. ASSUME NEW k \in used', NEW c \in Caller, Act(c), call[c].ask = k, k # NoAsk
      PROVE  /\ call'[c].pc = "acted" /\ call'[c].ask = k
             /\ answer'[k] \in Allow
  <2>1. call[c] \in Call /\ call \in [Caller -> Call]
    BY DEF ConsentInv, TypeOK
  <2>2. call'[c] = [call[c] EXCEPT !.pc = "acted"] /\ Running(c) /\ UNCHANGED answer
    BY <1>4, <2>1 DEF Act, Running
  <2>3. call'[c].pc = "acted" /\ call'[c].ask = call[c].ask
    BY <2>1, <2>2 DEF Call
  <2> QED
    BY <1>4, <2>2, <2>3 DEF ConsentInv, EveryEffectWasAllowed
<1>5. ASSUME NEW k \in used
      PROVE  /\ answer'[k] \in Allow
             /\ card'[k].status = "approved" =>
                  k \in cut' \/ \E c \in Caller : call'[c].pc = "acted" /\ call'[c].ask = k
  <2>1. k \in Ask /\ answer[k] \in Allow
    BY DEF ConsentInv, TypeOK, Spending
  <2>2. answer'[k] = answer[k] /\ answer[k] # "none"
    BY <2>1, AnswersStay DEF Allow
  <2>3. ASSUME card'[k].status = "approved"
        PROVE  k \in cut' \/ \E c \in Caller : call'[c].pc = "acted" /\ call'[c].ask = k
    <3>1. card[k].status = "approved"
      BY <2>1, <2>2, <2>3, Allowed
    <3>2. CASE k \in cut
      BY <1>3, <3>2
    <3>3. ASSUME NEW c \in Caller, call[c].pc = "acted", call[c].ask = k
          PROVE  k \in cut' \/ \E d \in Caller : call'[d].pc = "acted" /\ call'[d].ask = k
      <4>1. ~Commit(c)
        <5> SUFFICES ASSUME Commit(c) PROVE FALSE
          OBVIOUS
        <5>1. Spends(c) /\ call[c] \in Call
          BY <2>1, <3>1, <3>3 DEF Spends, ConsentInv, TypeOK, Ask, NoAsk
        <5>2. Settle(k, "consumed", call[c].decided) /\ call[c].decided \in Decision \cup {"null"}
          BY <3>3, <5>1 DEF Commit, Recorded, Call
        <5>3. card'[k].status = "consumed"
          BY <2>1, <5>2, Settled DEF Status
        <5> QED
          BY <2>3, <5>3
      <4> QED
        BY <2>1, <3>3, <4>1, ActedStays
    <3> QED
      BY <3>1, <3>2, <3>3 DEF Spending, OnceBuysOneCall
  <2> QED
    BY <2>1, <2>2, <2>3
<1> QED
  BY <1>1, <1>4, <1>5 DEF Spending, OnceBuysOneCall

\* A card on which a call has acted buys no other call once that one has come back: it
\* is spent, for any number of calls at once; a crash may cut off the call that would
\* spend it.
THEOREM OnceBuysOneCallCorrect == Spec => []OnceBuysOneCall
<1>1. Init => Spending
  BY DEF Init, Spending, OnceBuysOneCall
<1>2. ConsentInv /\ Spending /\ [Next]_vars => Spending'
  BY SpendingNext
<1>3. Spending => OnceBuysOneCall
  BY DEF Spending
<1> QED
  BY <1>1, <1>2, <1>3, ConsentCorrect, PTL DEF Spec
=============================================================================
