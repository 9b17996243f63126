----------------------------- MODULE Pages_proofs -----------------------------
(***************************************************************************)
(* Proofs about the parts of MCPages. Sessions: of what a person holds     *)
(* down over the authorised relay nothing stays held when nobody drives,   *)
(* input reaches a tab in the order in which it was made, and a browser    *)
(* that was revoked is out. What makes it inductive: the computer takes    *)
(* input of the lease there is only; a tab's input has numbers that grow,  *)
(* above what was done of it; what is on its way is the first of a tab and *)
(* there once; and what is held down is known to who will let it go.       *)
(* The live view: a window knows who controls before it decodes a frame.   *)
(* The page: the newest load is of the task the page is at, and a panel of *)
(* another task was taken off. Home: at most one start is posted, and what *)
(* is queued or posted was asked for. Sign-in: a pane that wants to        *)
(* connect is owed a sign-in. Attention: one round is current, what was    *)
(* taken down is closed, and whoever was pinged is in the history.         *)
(***************************************************************************)
EXTENDS MCPages, FiniteSetTheorems, SequenceTheorems, WellFoundedInduction, TLAPS

-----------------------------------------------------------------------------
(* Who drives, and what stays held down *)

\* The computer takes input of the lease there is, and holds nothing down without one.
GateHolds ==
    /\ lease.state = "none" => authGate = 0 /\ held = {}
    /\ lease.state # "none" => authGate = lease.epoch /\ lease.epoch >= 1
Data == {"move", "press", "grab", "let go"}
MessagesHold ==
    /\ \A i \in DOMAIN wire :
        /\ wire[i].kind \in Data \cup {"reset"} => wire[i].epoch >= 1
        /\ wire[i].tab \in Tabs <=> wire[i].kind \in Data
    /\ \A t \in Tabs : \A i \in DOMAIN queue[t] :
           queue[t][i].tab = t /\ queue[t][i].kind \in Data /\ queue[t][i].epoch >= 1
\* A tab's input has numbers that grow, above what the computer has done of it; what
\* is on its way is the first of it, and there once.
Ordered ==
    \A t \in Tabs :
        /\ authSeen[t] <= acts
        /\ \A i \in DOMAIN queue[t] : authSeen[t] < queue[t][i].n /\ queue[t][i].n <= acts
        /\ \A i, j \in DOMAIN queue[t] : i < j => queue[t][i].n < queue[t][j].n
SentOnce ==
    /\ \A i \in DOMAIN wire : wire[i].tab \in Tabs =>
           LET t == wire[i].tab IN authHead[t] = "sent" /\ queue[t] # <<>> /\ wire[i] = queue[t][1]
    /\ \A i, j \in DOMAIN wire : wire[i].tab \in Tabs /\ wire[i].tab = wire[j].tab => i = j
\* It will be up once the computer has done what is on its way: it is up and nothing presses it,
\* or something lets it go after which nothing does.
LetsGo(m, clearing) == m.kind \in clearing /\ (m.kind = "reset" => m.epoch = lease.epoch)
GoesUp(what, pressing, clearing) ==
    \/ what \cap held = {} /\ \A i \in DOMAIN wire : wire[i].kind \notin pressing
    \/ \E i \in DOMAIN wire :
           LetsGo(wire[i], clearing) /\ \A j \in DOMAIN wire : j > i => wire[j].kind \notin pressing
KeysGoUp == GoesUp({"key"}, {"press"}, {"release", "unsubscribe", "reset"})
AllGoesUp == GoesUp({"key", "button"}, {"press", "grab"}, {"release", "unsubscribe"})
HeldByWhoIsThere ==
    lease.state = "held" =>
        /\ (\A t \in AuthOpen : authTab[t].of # lease.of) => KeysGoUp
        /\ AuthOpen = {} => AllGoesUp
ToldAreOut ==
    \A p \in told : authLogin[p] = "gone" /\ \A t \in Tabs : authTab[t].of = p => authTab[t].state # "open"
SessionsInv ==
    /\ SessionsTypeOK /\ GateHolds /\ MessagesHold /\ Ordered /\ SentOnce /\ HeldByWhoIsThere /\ ToldAreOut

LEMMA SessionFacts ==
  ASSUME SessionsTypeOK
  PROVE  /\ Len(wire) \in Nat /\ DOMAIN wire = 1..Len(wire) /\ \A i \in DOMAIN wire : wire[i] \in Message
         /\ \A t \in Tabs : /\ queue[t] \in Seq(Message) /\ Len(queue[t]) \in Nat /\ DOMAIN queue[t] = 1..Len(queue[t])
                            /\ authHead[t] \in {"idle", "waking", "sent"}
                            /\ authTab[t] \in [of : People \cup {Host}, state : {"none", "open", "closed"}]
         /\ acts \in Nat /\ lease.epoch \in Nat /\ lease \in [of : People \cup {Host}, epoch : Nat, state : {"none", "held", "lapsed"}]
BY DEF SessionsTypeOK

\* The wire has become longer at its end.
Grows ==
    /\ wire' \in Seq(Message) /\ Len(wire') >= Len(wire) /\ Len(wire') \in Nat
    /\ \A i \in DOMAIN wire : i \in DOMAIN wire' /\ wire'[i] = wire[i]
    /\ \A i \in DOMAIN wire' : i \in DOMAIN wire \/ i > Len(wire)
New == {i \in DOMAIN wire' : i > Len(wire)}

LEMMA AppendStep ==
  ASSUME SessionsTypeOK, NEW m \in Message, wire' = Append(wire, m)
  PROVE  Grows /\ New = {Len(wire) + 1} /\ wire'[Len(wire) + 1] = m
BY SessionFacts DEF SessionsTypeOK, Grows, New

\* Sockets that close: the keys of the one who drives are let go, and everything with the last.
LEMMA ClosingStep ==
  ASSUME SessionsTypeOK, GateHolds, NEW ts \in SUBSET AuthOpen, Closing(ts)
  PROVE  /\ Grows
         /\ \A i \in New : wire'[i].tab = Host /\
              \/ wire'[i].kind = "unsubscribe"
              \/ wire'[i].kind = "reset" /\ wire'[i].epoch = lease.epoch /\ lease.epoch >= 1
         /\ lease.state = "held" /\ (\E t \in ts : authTab[t].of = lease.of) => \E i \in New : wire'[i].kind = "reset"
         /\ ts # {} /\ AuthOpen \subseteq ts => \E i \in New : wire'[i].kind = "unsubscribe"
         /\ authTab' \in [Tabs -> [of : People \cup {Host}, state : {"none", "open", "closed"}]]
         /\ AuthOpen' = AuthOpen \ ts /\ \A t \in Tabs : authTab'[t].of = authTab[t].of
<1> DEFINE reset == [Reset EXCEPT !.epoch = lease.epoch]
           driven == \E t \in ts : Valid(authTab[t].of, lease.epoch)
           last == ts # {} /\ AuthOpen \subseteq ts
<1>1. /\ reset \in Message /\ reset.tab = Host /\ reset.kind = "reset" /\ reset.epoch = lease.epoch
      /\ Unsubscribe \in Message /\ Unsubscribe.tab = Host /\ Unsubscribe.kind = "unsubscribe"
  BY SessionFacts DEF Message, Reset, Unsubscribe, Kinds
<1>2. driven => lease.epoch >= 1
  BY DEF GateHolds, Valid
<1>3. lease.state = "held" /\ (\E t \in ts : authTab[t].of = lease.of) => driven
  BY DEF Valid
<1>4. wire' = wire \o (IF driven THEN <<reset>> ELSE <<>>) \o (IF last THEN <<Unsubscribe>> ELSE <<>>)
  BY DEF Closing
<1>5. authTab' = [t \in Tabs |-> [authTab[t] EXCEPT !.state = IF t \in ts THEN "closed" ELSE @]]
  BY DEF Closing, EmitsClose
<1>6. wire \in Seq(Message) /\ Len(wire) \in Nat /\ DOMAIN wire = 1..Len(wire)
  BY DEF SessionsTypeOK
<1> HIDE DEF reset, driven, last
<1>7. /\ authTab' \in [Tabs -> [of : People \cup {Host}, state : {"none", "open", "closed"}]]
      /\ AuthOpen' = AuthOpen \ ts /\ \A t \in Tabs : authTab'[t].of = authTab[t].of
  BY <1>5, SessionFacts DEF AuthOpen
<1>8. CASE driven /\ last
  <2>1. wire' = Append(Append(wire, reset), Unsubscribe)
    BY <1>1, <1>4, <1>6, <1>8
  <2>2. /\ wire' \in Seq(Message) /\ Len(wire') = Len(wire) + 2 /\ DOMAIN wire' = 1..(Len(wire) + 2)
        /\ wire'[Len(wire) + 1] = reset /\ wire'[Len(wire) + 2] = Unsubscribe
        /\ \A i \in DOMAIN wire : wire'[i] = wire[i]
    BY <2>1, <1>1, <1>6
  <2>3. Grows /\ New = {Len(wire) + 1, Len(wire) + 2}
    BY <2>2, <1>6 DEF Grows, New
  <2> QED BY <1>1, <1>2, <1>7, <1>8, <2>2, <2>3
<1>9. CASE driven /\ ~last
  <2>1. wire' = Append(wire, reset)
    BY <1>1, <1>4, <1>6, <1>9
  <2> QED BY <1>1, <1>2, <1>7, <1>9, <2>1, AppendStep DEF last
<1>10. CASE ~driven /\ last
  <2>1. wire' = Append(wire, Unsubscribe)
    BY <1>1, <1>4, <1>6, <1>10
  <2> QED BY <1>1, <1>3, <1>7, <1>10, <2>1, AppendStep
<1>11. CASE ~driven /\ ~last
  <2>1. wire' = wire
    BY <1>4, <1>6, <1>11
  <2>2. Grows /\ New = {}
    BY <1>6, <2>1 DEF Grows, New
  <2> QED BY <1>3, <1>7, <1>11, <2>2 DEF last
<1> QED
  BY <1>8, <1>9, <1>10, <1>11


\* What an act of the person does to the input that waits: the last of it is overtaken, or it is the last.
LEMMA QueuedStep ==
  ASSUME SessionsTypeOK, NEW t \in Tabs, NEW m \in Message
  PROVE  LET q == queue[t]
             r == Queued(t, m)
         IN  /\ r \in Seq(Message)
             /\ \/ r = Append(q, m)
                \/ /\ q # <<>> /\ (Len(q) > 1 \/ authHead[t] = "idle")
                   /\ Len(r) = Len(q) /\ r[Len(q)] = m /\ \A i \in DOMAIN q : i # Len(q) => r[i] = q[i]
<1>1. queue[t] \in Seq(Message) /\ Len(queue[t]) \in Nat /\ DOMAIN queue[t] = 1..Len(queue[t])
  BY SessionFacts
<1>2. CASE m.kind = "move" /\ Overtakes(t)
  <2>1. Queued(t, m) = [queue[t] EXCEPT ![Len(queue[t])] = m]
    BY <1>2 DEF Queued
  <2>2. queue[t] # <<>> /\ (Len(queue[t]) > 1 \/ authHead[t] = "idle")
    BY <1>2 DEF Overtakes
  <2> QED BY <1>1, <2>1, <2>2
<1>3. CASE ~(m.kind = "move" /\ Overtakes(t))
  <2>1. Queued(t, m) = Append(queue[t], m)
    BY <1>3 DEF Queued
  <2> QED BY <1>1, <2>1
<1> QED BY <1>2, <1>3

LEMMA ActMessage ==
  ASSUME SessionsTypeOK, NEW t \in Tabs, NEW kind \in Data
  PROVE  LET m == [tab |-> t, kind |-> kind, n |-> acts + 1, epoch |-> lease.epoch]
         IN  m \in Message /\ m.tab = t /\ m.kind = kind /\ m.n = acts + 1 /\ m.epoch = lease.epoch
<1>1. acts + 1 \in Nat /\ lease.epoch \in Nat
  BY SessionFacts
<1>4. kind \in Kinds
  BY DEF Kinds, Data
<1> DEFINE n == acts + 1
           e == lease.epoch
<1>2. n \in Nat /\ e \in Nat
  BY <1>1
<1> HIDE DEF n, e
<1>3. [tab |-> t, kind |-> kind, n |-> n, epoch |-> e] \in Message
  BY <1>2, <1>4 DEF Message
<1> QED BY <1>3 DEF n, e

\* The first of a tab's input is done with.
LEMMA DropsStep ==
  ASSUME SessionsTypeOK, NEW t \in Tabs, queue[t] # <<>>, Drops(t)
  PROVE  /\ queue' \in [Tabs -> Seq(Message)] /\ authHead' \in [Tabs -> {"idle", "waking", "sent"}]
         /\ authHead'[t] = "idle" /\ queue'[t] = Tail(queue[t])
         /\ Len(queue'[t]) = Len(queue[t]) - 1 /\ \A i \in DOMAIN queue'[t] : i + 1 \in DOMAIN queue[t] /\ queue'[t][i] = queue[t][i + 1]
         /\ \A u \in Tabs : u # t => queue'[u] = queue[u] /\ authHead'[u] = authHead[u]
<1>1. /\ queue \in [Tabs -> Seq(Message)] /\ authHead \in [Tabs -> {"idle", "waking", "sent"}]
      /\ queue[t] \in Seq(Message) /\ Len(queue[t]) \in Nat
  BY DEF SessionsTypeOK
<1>2. /\ Tail(queue[t]) \in Seq(Message) /\ Len(Tail(queue[t])) = Len(queue[t]) - 1
      /\ \A i \in DOMAIN Tail(queue[t]) : i + 1 \in DOMAIN queue[t] /\ Tail(queue[t])[i] = queue[t][i + 1]
  BY <1>1
<1> QED BY <1>1, <1>2 DEF Drops

LEMMA ActsTyped == ASSUME SessionsTypeOK, NEW t \in Tabs, NEW kind \in Data, Acts(t, kind) PROVE SessionsTypeOK'
<1> DEFINE m == [tab |-> t, kind |-> kind, n |-> acts + 1, epoch |-> lease.epoch]
<1>1. m \in Message /\ m.n \in Nat /\ m.epoch \in Nat /\ acts + 1 \in Nat
  BY ActMessage, SessionFacts
<1>2. /\ queue' = [queue EXCEPT ![t] = Queued(t, m)] /\ acts' = acts + 1
      /\ authSaid' = IF kind = "move" THEN [authSaid EXCEPT ![t] = [n |-> m.n, epoch |-> m.epoch]] ELSE authSaid
      /\ UNCHANGED <<peopleVars, authTab, authHead, wire, computerVars, lease>>
  BY DEF Acts, Delivers
<1> HIDE DEF m
<1>3. Queued(t, m) \in Seq(Message)
  BY <1>1, QueuedStep
<1>4. [n |-> m.n, epoch |-> m.epoch] \in [n : Nat, epoch : Nat]
  BY <1>1
<1>5. authSaid' \in [Tabs -> [n : Nat, epoch : Nat]]
  BY <1>2, <1>4 DEF SessionsTypeOK
<1> QED
  BY <1>1, <1>2, <1>3, <1>5 DEF SessionsTypeOK, peopleVars, computerVars

LEMMA ClosingTyped ==
  ASSUME SessionsTypeOK, GateHolds, NEW ts \in SUBSET AuthOpen, Closing(ts)
  PROVE  /\ authTab' \in [Tabs -> [of : People \cup {Host}, state : {"none", "open", "closed"}]]
         /\ wire' \in Seq(Message)
BY ClosingStep DEF Grows

LEMMA RelaysTyped ==
  ASSUME SessionsTypeOK, GateHolds, NEW t \in Tabs, Starts(t) \/ AuthWoken(t)
  PROVE  SessionsTypeOK'
<1>1. queue[t] # <<>> /\ UNCHANGED <<peopleVars, authSaid, computerVars, lease, acts>>
  BY DEF Starts, AuthWoken, Waits
<1>2. {t} \cap AuthOpen \in SUBSET AuthOpen
  OBVIOUS
<1>3. CASE Drops(t) /\ (UNCHANGED <<authTab, wire>> \/ Closing({t} \cap AuthOpen))
  <2>1. queue' \in [Tabs -> Seq(Message)] /\ authHead' \in [Tabs -> {"idle", "waking", "sent"}]
    BY <1>1, <1>3, DropsStep
  <2>2. /\ authTab' \in [Tabs -> [of : People \cup {Host}, state : {"none", "open", "closed"}]]
        /\ wire' \in Seq(Message)
    BY <1>2, <1>3, ClosingTyped DEF SessionsTypeOK
  <2> QED BY <1>1, <2>1, <2>2 DEF SessionsTypeOK, peopleVars, computerVars
<1>4. CASE authHead' = [authHead EXCEPT ![t] = "waking"] /\ UNCHANGED <<queue, authTab, wire>>
  BY <1>1, <1>4 DEF SessionsTypeOK, peopleVars, computerVars
<1>5. CASE Relays(t)
  <2>1. queue[t][1] \in Message
    BY <1>1, SessionFacts
  <2>2. wire' \in Seq(Message)
    BY <1>5, <2>1 DEF Relays, SessionsTypeOK
  <2> QED BY <1>1, <1>5, <2>2 DEF Relays, SessionsTypeOK, peopleVars, computerVars
<1> QED
  BY <1>3, <1>4, <1>5 DEF Starts, AuthWoken, AuthRefused

LEMMA ComputerTyped ==
  ASSUME SessionsTypeOK, SentOnce, ComputerDoes
  PROVE  SessionsTypeOK'
<1> DEFINE m == wire[1]
<1>1. m \in Message /\ wire' \in Seq(Message) /\ 1 \in DOMAIN wire
  BY SessionFacts DEF ComputerDoes, SessionsTypeOK
<1>2. held' \subseteq {"key", "button"}
  BY DEF ComputerDoes, Does, KeysHeld, ButtonsHeld, SessionsTypeOK
<1>3. authGate' \in Nat /\ lease' \in [of : People \cup {Host}, epoch : Nat, state : {"none", "held", "lapsed"}]
  BY SessionFacts DEF ComputerDoes, SessionsTypeOK
<1>4. UNCHANGED <<peopleVars, authTab, authSaid, acts>>
  BY DEF ComputerDoes
<1>5. authSeen' \in [Tabs -> Nat] /\ queue' \in [Tabs -> Seq(Message)] /\ authHead' \in [Tabs -> {"idle", "waking", "sent"}]
  <2>1. CASE m.tab \in Tabs
    <3>1. queue[m.tab] # <<>>
      BY <1>1, <2>1 DEF SentOnce
    <3>2. Drops(m.tab) /\ (authSeen' = [authSeen EXCEPT ![m.tab] = m.n] \/ authSeen' = authSeen)
      BY <2>1 DEF ComputerDoes
    <3>3. m.n \in Nat /\ authSeen \in [Tabs -> Nat]
      BY <1>1 DEF Message, SessionsTypeOK
    <3>4. authSeen' \in [Tabs -> Nat]
      BY <2>1, <3>2, <3>3
    <3> QED BY <2>1, <3>1, <3>2, <3>4, DropsStep
  <2>2. CASE m.tab \notin Tabs
    BY <2>2 DEF ComputerDoes, SessionsTypeOK
  <2> QED BY <2>1, <2>2
<1>6. /\ authLogin' \in [People -> {"none", "invited", "live", "gone"}]
      /\ issuer' \in [People -> People \cup {Host}] /\ told' \subseteq People
      /\ authTab' \in [Tabs -> [of : People \cup {Host}, state : {"none", "open", "closed"}]]
      /\ acts' \in Nat /\ authSaid' \in [Tabs -> [n : Nat, epoch : Nat]]
  BY <1>4 DEF SessionsTypeOK, peopleVars
<1> HIDE DEF m
<1> QED
  BY <1>1, <1>2, <1>3, <1>5, <1>6 DEF SessionsTypeOK

LEMMA LoginsTyped ==
  ASSUME SessionsTypeOK, NEW p \in People, NEW i \in People \cup {Host},
         Invites(i, p) \/ Pairs(p) \/ AuthTimesOut(p) \/ Takes(p)
  PROVE  SessionsTypeOK'
<1>1. CASE Invites(i, p) \/ Pairs(p) \/ AuthTimesOut(p)
  <2>1. UNCHANGED <<told, inputVars, computerVars, lease, acts>>
    BY <1>1 DEF Invites, Pairs, AuthTimesOut
  <2>2. authLogin' \in [People -> {"none", "invited", "live", "gone"}] /\ issuer' \in [People -> People \cup {Host}]
    <3>1. \E s \in {"invited", "live", "gone"} : authLogin' = [authLogin EXCEPT ![p] = s]
      BY <1>1 DEF Invites, Pairs, AuthTimesOut
    <3>2. issuer' = issuer \/ issuer' = [issuer EXCEPT ![p] = i]
      BY <1>1 DEF Invites, Pairs, AuthTimesOut
    <3>3. /\ authLogin \in [People -> {"none", "invited", "live", "gone"}]
          /\ issuer \in [People -> People \cup {Host}]
      BY DEF SessionsTypeOK
    <3>4. authLogin' \in [People -> {"none", "invited", "live", "gone"}]
      BY <3>1, <3>3
    <3>5. issuer' \in [People -> People \cup {Host}]
      BY <3>2, <3>3
    <3> QED BY <3>4, <3>5
  <2> QED BY <2>1, <2>2 DEF SessionsTypeOK, inputVars, computerVars
<1>2. CASE Takes(p)
  <2>1. lease.epoch + 1 \in Nat
    BY SessionFacts
  <2>2. lease' \in [of : People \cup {Host}, epoch : Nat, state : {"none", "held", "lapsed"}] /\ authGate' \in Nat
    BY <1>2, <2>1 DEF Takes
  <2> QED BY <1>2, <2>2 DEF Takes, SessionsTypeOK, inputVars, peopleVars
<1> QED BY <1>1, <1>2

LEMMA SocketsTyped ==
  ASSUME SessionsTypeOK, GateHolds,
         \/ \E p, by \in People : AuthRevokes(by, p)
         \/ \E t \in Tabs, p \in People : AuthOpens(t, p)
         \/ \E t \in Tabs : AuthCloses(t)
         \/ AuthLapses \/ AuthEnds
  PROVE  SessionsTypeOK'
<1>1. ASSUME NEW p \in People, NEW by \in People, AuthRevokes(by, p) PROVE SessionsTypeOK'
  <2>1. {u \in AuthOpen : authTab[u].of = p} \in SUBSET AuthOpen
    OBVIOUS
  <2>2. wire' \in Seq(Message) /\ authTab' \in [Tabs -> [of : People \cup {Host}, state : {"none", "open", "closed"}]]
    BY <1>1, <2>1, ClosingTyped DEF AuthRevokes
  <2> QED BY <1>1, <2>2 DEF AuthRevokes, CallsOut, SessionsTypeOK, computerVars
<1>2. ASSUME NEW t \in Tabs, NEW p \in People, AuthOpens(t, p) PROVE SessionsTypeOK'
  BY <1>2 DEF AuthOpens, SessionsTypeOK, computerVars, peopleVars
<1>3. ASSUME NEW t \in Tabs, AuthCloses(t) PROVE SessionsTypeOK'
  <2>1. {t} \in SUBSET AuthOpen
    BY <1>3 DEF AuthCloses
  <2>2. wire' \in Seq(Message) /\ authTab' \in [Tabs -> [of : People \cup {Host}, state : {"none", "open", "closed"}]]
    BY <1>3, <2>1, ClosingTyped DEF AuthCloses
  <2> QED BY <1>3, <2>2 DEF AuthCloses, SessionsTypeOK, computerVars, peopleVars
<1>4. CASE AuthLapses
  BY <1>4 DEF AuthLapses, SessionsTypeOK, computerVars, peopleVars, inputVars
<1>5. CASE AuthEnds
  <2>1. Release \in Message
    BY DEF Release, Reset, Message, Kinds
  <2>2. wire' \in Seq(Message)
    BY <1>5, <2>1 DEF AuthEnds, SessionsTypeOK
  <2> QED BY <1>5, <2>2 DEF AuthEnds, SessionsTypeOK, computerVars, peopleVars
<1> QED BY <1>1, <1>2, <1>3, <1>4, <1>5


\* What the server says of itself: it comes from no tab, and a reset is of the lease there is.
OwnMessage(m) == m.tab = Host /\ m.kind \in {"reset", "unsubscribe", "release"} /\ (m.kind = "reset" => m.epoch >= 1)
InputHolds == MessagesHold /\ Ordered /\ SentOnce

LEMMA HostIsNoTab == Host \notin Tabs /\ Host \notin People
BY SessionsAssumption

LEMMA OwnGrows ==
  ASSUME SessionsTypeOK, InputHolds, Grows, \A i \in New : OwnMessage(wire'[i]), UNCHANGED queue
  PROVE  MessagesHold' /\ \A i \in DOMAIN wire' : wire'[i].tab \in Tabs => i \in DOMAIN wire /\ wire'[i] = wire[i]
<1>1. \A i \in DOMAIN wire' : i \in New \/ (i \in DOMAIN wire /\ wire'[i] = wire[i])
  BY DEF Grows, New
<1>2. \A i \in New : wire'[i].tab \notin Tabs
  BY HostIsNoTab DEF OwnMessage
<1>3. \A i \in DOMAIN wire' :
        /\ wire'[i].kind \in Data \cup {"reset"} => wire'[i].epoch >= 1
        /\ wire'[i].tab \in Tabs <=> wire'[i].kind \in Data
  BY <1>1, <1>2 DEF OwnMessage, Data, InputHolds, MessagesHold
<1>4. MessagesHold'
  BY <1>3 DEF InputHolds, MessagesHold
<1> QED BY <1>1, <1>2, <1>4

\* The server says something of its own, or nothing, and a call may begin to wake the computer.
LEMMA OwnStep ==
  ASSUME SessionsTypeOK, InputHolds, Grows, \A i \in New : OwnMessage(wire'[i]), UNCHANGED <<queue, authSeen, acts>>,
         authHead' = authHead \/ \E t \in Tabs : authHead[t] = "idle" /\ authHead' = [authHead EXCEPT ![t] = "waking"]
  PROVE  InputHolds'
<1>1. MessagesHold' /\ \A i \in DOMAIN wire' : wire'[i].tab \in Tabs => i \in DOMAIN wire /\ wire'[i] = wire[i]
  BY OwnGrows
<1>2. Ordered'
  BY DEF InputHolds, Ordered
<1>3. \A u \in Tabs : authHead[u] = "sent" => authHead'[u] = "sent"
  BY DEF SessionsTypeOK
<1>4. SentOnce'
  BY <1>1, <1>3 DEF InputHolds, SentOnce
<1> QED BY <1>1, <1>2, <1>4 DEF InputHolds

\* The first of a tab's input is done with, and was never sent.
LEMMA DroppedStep ==
  ASSUME SessionsTypeOK, InputHolds, Grows, \A i \in New : OwnMessage(wire'[i]), UNCHANGED <<authSeen, acts>>,
         NEW t \in Tabs, queue[t] # <<>>, Drops(t), authHead[t] # "sent"
  PROVE  InputHolds'
<1>1. \A i \in DOMAIN wire' : i \in New \/ (i \in DOMAIN wire /\ wire'[i] = wire[i])
  BY DEF Grows, New
<1>2. \A i \in New : wire'[i].tab \notin Tabs
  BY HostIsNoTab DEF OwnMessage
<1>3. /\ authHead'[t] = "idle" /\ queue'[t] = Tail(queue[t]) /\ Len(queue'[t]) = Len(queue[t]) - 1
      /\ \A i \in DOMAIN queue'[t] : i + 1 \in DOMAIN queue[t] /\ queue'[t][i] = queue[t][i + 1]
      /\ \A u \in Tabs : u # t => queue'[u] = queue[u] /\ authHead'[u] = authHead[u]
      /\ queue'[t] \in Seq(Message) /\ Len(queue[t]) \in Nat
  BY DropsStep, SessionFacts
<1>4. \A u \in Tabs : \A i \in DOMAIN queue'[u] :
          \E j \in DOMAIN queue[u] : queue'[u][i] = queue[u][j]
  BY <1>3, ZenonT(30)
<1>5. MessagesHold'
  <2>1. \A i \in DOMAIN wire' :
          /\ wire'[i].kind \in Data \cup {"reset"} => wire'[i].epoch >= 1
          /\ wire'[i].tab \in Tabs <=> wire'[i].kind \in Data
    BY <1>1, <1>2 DEF OwnMessage, Data, InputHolds, MessagesHold
  <2>2. \A u \in Tabs : \A i \in DOMAIN queue'[u] :
           queue'[u][i].tab = u /\ queue'[u][i].kind \in Data /\ queue'[u][i].epoch >= 1
    BY <1>4 DEF InputHolds, MessagesHold
  <2> QED BY <2>1, <2>2 DEF MessagesHold
<1>6. Ordered'
  <2>1. \A u \in Tabs : authSeen'[u] <= acts' /\ \A i \in DOMAIN queue'[u] : authSeen'[u] < queue'[u][i].n /\ queue'[u][i].n <= acts'
    BY <1>4 DEF InputHolds, Ordered
  <2>2. \A u \in Tabs : \A i, j \in DOMAIN queue'[u] : i < j => queue'[u][i].n < queue'[u][j].n
    <3> SUFFICES ASSUME NEW u \in Tabs, NEW i \in DOMAIN queue'[u], NEW j \in DOMAIN queue'[u], i < j
                 PROVE  queue'[u][i].n < queue'[u][j].n
      OBVIOUS
    <3>1. CASE u = t
      <4>3. DOMAIN queue'[t] = 1..Len(queue'[t]) /\ Len(queue'[t]) \in Nat
        BY <1>3
      <4>4. i \in Nat /\ j \in Nat /\ i \in DOMAIN queue'[t] /\ j \in DOMAIN queue'[t]
        BY <3>1, <4>3
      <4>5. i + 1 \in DOMAIN queue[t] /\ j + 1 \in DOMAIN queue[t]
        BY <1>3, <4>4
      <4>1. i + 1 \in DOMAIN queue[t] /\ j + 1 \in DOMAIN queue[t] /\ i + 1 < j + 1
        BY <4>4, <4>5
      <4>2. queue[t][i + 1].n < queue[t][j + 1].n
        BY <4>1 DEF InputHolds, Ordered
      <4> QED BY <1>3, <3>1, <4>2
    <3>2. CASE u # t
      BY <1>3, <3>2 DEF InputHolds, Ordered
    <3> QED BY <3>1, <3>2
  <2> QED BY <2>1, <2>2 DEF Ordered
<1>7. SentOnce'
  <2>1. \A i \in DOMAIN wire' : wire'[i].tab \in Tabs => wire'[i].tab # t /\ i \in DOMAIN wire /\ wire'[i] = wire[i]
    BY <1>1, <1>2 DEF InputHolds, SentOnce
  <2> QED BY <2>1, <1>3 DEF InputHolds, SentOnce
<1> QED BY <1>5, <1>6, <1>7 DEF InputHolds

\* What was first is on its way.
LEMMA RelaysStep ==
  ASSUME SessionsTypeOK, InputHolds, NEW t \in Tabs, Waits(t, "waking"), Relays(t), UNCHANGED <<authSeen, acts>>
  PROVE  InputHolds' /\ Grows /\ New = {Len(wire) + 1} /\ wire'[Len(wire) + 1] = queue[t][1]
<1>1. queue[t] # <<>> /\ authHead[t] = "waking" /\ 1 \in DOMAIN queue[t] /\ queue[t][1] \in Message
  BY SessionFacts DEF Waits
<1>2. wire' = Append(wire, queue[t][1]) /\ authHead' = [authHead EXCEPT ![t] = "sent"] /\ queue' = queue
  BY DEF Relays
<1>3. Grows /\ New = {Len(wire) + 1} /\ wire'[Len(wire) + 1] = queue[t][1]
  BY <1>1, <1>2, AppendStep
<1>4. \A i \in DOMAIN wire' : i = Len(wire) + 1 \/ (i \in DOMAIN wire /\ wire'[i] = wire[i])
  BY <1>3 DEF Grows, New
<1>5. queue[t][1].tab = t /\ queue[t][1].kind \in Data /\ queue[t][1].epoch >= 1
  BY <1>1 DEF InputHolds, MessagesHold
<1>6. MessagesHold'
  <2>1. \A i \in DOMAIN wire' :
          /\ wire'[i].kind \in Data \cup {"reset"} => wire'[i].epoch >= 1
          /\ wire'[i].tab \in Tabs <=> wire'[i].kind \in Data
    BY <1>3, <1>4, <1>5 DEF InputHolds, MessagesHold
  <2> QED BY <1>2, <2>1 DEF InputHolds, MessagesHold
<1>7. Ordered'
  BY <1>2 DEF InputHolds, Ordered
<1>8. \A i \in DOMAIN wire : wire[i].tab \in Tabs => wire[i].tab # t
  BY <1>1 DEF InputHolds, SentOnce
<1>9. \A u \in Tabs : authHead'[u] = IF u = t THEN "sent" ELSE authHead[u]
  BY <1>2 DEF SessionsTypeOK
<1>10. SentOnce'
  BY <1>1, <1>2, <1>3, <1>4, <1>5, <1>8, <1>9 DEF InputHolds, SentOnce
<1> QED BY <1>3, <1>6, <1>7, <1>10 DEF InputHolds


\* A person does something: it goes to the end of their tab's input, or in the place of a move there.
LEMMA ActsStep == ASSUME SessionsTypeOK, GateHolds, InputHolds, NEW t \in Tabs, NEW kind \in Data, Acts(t, kind) PROVE InputHolds'
<1> DEFINE m == [tab |-> t, kind |-> kind, n |-> acts + 1, epoch |-> lease.epoch]
           q == queue[t]
           r == Queued(t, m)
<1>1. m \in Message /\ m.tab = t /\ m.kind = kind /\ m.n = acts + 1 /\ m.epoch = lease.epoch /\ acts \in Nat
  BY ActMessage, SessionFacts
<1>2. queue' = [queue EXCEPT ![t] = r] /\ acts' = acts + 1 /\ UNCHANGED <<authTab, authHead, wire, computerVars, lease>>
  BY DEF Acts, Delivers
<1>3. lease.epoch >= 1
  BY DEF Acts, Valid, GateHolds
<1> HIDE DEF m
<1>4. /\ r \in Seq(Message) /\ q \in Seq(Message) /\ Len(q) \in Nat /\ DOMAIN q = 1..Len(q)
      /\ \/ r = Append(q, m)
         \/ /\ q # <<>> /\ (Len(q) > 1 \/ authHead[t] = "idle")
            /\ Len(r) = Len(q) /\ r[Len(q)] = m /\ \A i \in DOMAIN q : i # Len(q) => r[i] = q[i]
  BY <1>1, QueuedStep, SessionFacts
<1> HIDE DEF r
<1>5. /\ DOMAIN r = 1..Len(r) /\ Len(r) \in Nat /\ Len(r) >= 1 /\ r[Len(r)] = m
      /\ \A i \in DOMAIN r : i # Len(r) => i \in DOMAIN q /\ r[i] = q[i]
      /\ authHead[t] = "sent" /\ q # <<>> => Len(r) > 1
  BY <1>4
<1>6. queue'[t] = r /\ \A u \in Tabs : u # t => queue'[u] = queue[u]
  BY <1>2 DEF SessionsTypeOK
<1>7. MessagesHold'
  <2>1. \A u \in Tabs : \A i \in DOMAIN queue'[u] :
           queue'[u][i].tab = u /\ queue'[u][i].kind \in Data /\ queue'[u][i].epoch >= 1
    <3> SUFFICES ASSUME NEW u \in Tabs, NEW i \in DOMAIN queue'[u]
                 PROVE  queue'[u][i].tab = u /\ queue'[u][i].kind \in Data /\ queue'[u][i].epoch >= 1
      OBVIOUS
    <3>1. CASE u = t
      BY <1>1, <1>3, <1>5, <1>6, <3>1 DEF InputHolds, MessagesHold
    <3>2. CASE u # t
      BY <1>6, <3>2 DEF InputHolds, MessagesHold
    <3> QED BY <3>1, <3>2
  <2> QED BY <1>2, <2>1 DEF InputHolds, MessagesHold
<1>8. Ordered'
  <2>1. \A u \in Tabs : authSeen[u] \in Nat /\ authSeen[u] <= acts
    BY DEF SessionsTypeOK, InputHolds, Ordered
  <2>2. \A i \in DOMAIN q : q[i].n \in Nat /\ q[i].n <= acts /\ authSeen[t] < q[i].n
    <3>1. \A i \in DOMAIN q : q[i] \in Message
      BY <1>4
    <3>2. \A i \in DOMAIN q : q[i].n \in Nat
      BY <3>1 DEF Message
    <3> QED BY <3>2 DEF InputHolds, Ordered
  <2>3. \A i \in DOMAIN r : authSeen[t] < r[i].n /\ r[i].n <= acts + 1
    BY <1>1, <1>5, <2>1, <2>2
  <2>4. \A i, j \in DOMAIN r : i < j => r[i].n < r[j].n
    <3> SUFFICES ASSUME NEW i \in DOMAIN r, NEW j \in DOMAIN r, i < j PROVE r[i].n < r[j].n
      OBVIOUS
    <3>1. i # Len(r) /\ i \in DOMAIN q /\ r[i] = q[i]
      BY <1>5
    <3>2. CASE j = Len(r)
      BY <1>1, <1>5, <2>2, <3>1, <3>2
    <3>3. CASE j # Len(r)
      BY <1>5, <3>1, <3>3 DEF InputHolds, Ordered
    <3> QED BY <3>2, <3>3
  <2>5. \A u \in Tabs : u # t => \A i \in DOMAIN queue[u] : queue[u][i].n \in Nat /\ queue[u][i].n <= acts + 1
    <3> SUFFICES ASSUME NEW u \in Tabs, NEW i \in DOMAIN queue[u] PROVE queue[u][i].n \in Nat /\ queue[u][i].n <= acts + 1
      OBVIOUS
    <3>1. queue[u][i] \in Message /\ queue[u][i].n <= acts
      BY SessionFacts DEF InputHolds, Ordered
    <3> QED BY <1>1, <3>1 DEF Message
  <2> QED
    <3> SUFFICES ASSUME NEW u \in Tabs
                 PROVE  /\ authSeen'[u] <= acts'
                        /\ \A i \in DOMAIN queue'[u] : authSeen'[u] < queue'[u][i].n /\ queue'[u][i].n <= acts'
                        /\ \A i, j \in DOMAIN queue'[u] : i < j => queue'[u][i].n < queue'[u][j].n
      BY DEF Ordered
    <3>1. authSeen' = authSeen /\ authSeen'[u] <= acts'
      BY <1>1, <1>2, <2>1 DEF computerVars
    <3>2. CASE u = t
      BY <1>2, <1>6, <2>3, <2>4, <3>1, <3>2
    <3>3. CASE u # t
      BY <1>2, <1>6, <2>5, <3>1, <3>3 DEF InputHolds, Ordered
    <3> QED BY <3>2, <3>3
<1>9. SentOnce'
  <2>1. ASSUME NEW i \in DOMAIN wire, wire[i].tab = t
        PROVE  r # <<>> /\ wire[i] = r[1]
    <3>1. authHead[t] = "sent" /\ q # <<>> /\ wire[i] = q[1]
      BY <2>1 DEF InputHolds, SentOnce
    <3> QED BY <1>5, <3>1
  <2> QED BY <1>2, <1>6, <2>1 DEF InputHolds, SentOnce
<1> QED BY <1>7, <1>8, <1>9 DEF InputHolds

\* The computer does what came first, which is the first of some tab's input, or the server's own.
LEMMA ComputerStep == ASSUME SessionsTypeOK, GateHolds, InputHolds, ComputerDoes PROVE
    /\ InputHolds'
    /\ \A t \in Tabs : authSeen'[t] # authSeen[t] => authSeen'[t] > authSeen[t]
<1> DEFINE m == wire[1]
<1>1. /\ wire # <<>> /\ wire' = Tail(wire) /\ 1 \in DOMAIN wire /\ m \in Message
      /\ wire' \in Seq(Message) /\ DOMAIN wire' = 1..Len(wire') /\ Len(wire') = Len(wire) - 1 /\ Len(wire) \in Nat
      /\ \A i \in DOMAIN wire' : i \in Nat /\ i + 1 \in DOMAIN wire /\ i + 1 # 1 /\ wire'[i] = wire[i + 1]
  BY SessionFacts DEF ComputerDoes, SessionsTypeOK
<1>2. acts' = acts
  BY DEF ComputerDoes
<1>3. CASE m.tab \in Tabs
  <2> DEFINE t == m.tab
  <2>1. authHead[t] = "sent" /\ queue[t] # <<>> /\ m = queue[t][1]
    BY <1>1, <1>3 DEF InputHolds, SentOnce
  <2>2. /\ authHead'[t] = "idle" /\ queue'[t] = Tail(queue[t]) /\ Len(queue'[t]) = Len(queue[t]) - 1
        /\ \A i \in DOMAIN queue'[t] : i + 1 \in DOMAIN queue[t] /\ queue'[t][i] = queue[t][i + 1]
        /\ \A u \in Tabs : u # t => queue'[u] = queue[u] /\ authHead'[u] = authHead[u]
        /\ queue'[t] \in Seq(Message) /\ Len(queue[t]) \in Nat
    BY <1>3, <2>1, DropsStep, SessionFacts DEF ComputerDoes
  <2>3. authSeen' = authSeen \/ authSeen' = [authSeen EXCEPT ![t] = m.n]
    BY <1>3 DEF ComputerDoes
  <2>4. 1 \in DOMAIN queue[t] /\ authSeen[t] < m.n /\ m.n \in Nat /\ authSeen[t] \in Nat
    BY <1>1, <1>3, <2>1, SessionFacts, SMTT(30) DEF InputHolds, Ordered, Message, SessionsTypeOK
  <2>5. \A i \in DOMAIN wire' : wire'[i].tab # t
    BY <1>1, <1>3 DEF InputHolds, SentOnce
  <2> HIDE DEF m, t
  <2>6. \A u \in Tabs : authSeen'[u] = authSeen[u] \/ (u = t /\ authSeen'[u] = m.n)
    BY <2>3 DEF SessionsTypeOK
  <2>7. \A u \in Tabs : \A i \in DOMAIN queue'[u] : \E j \in DOMAIN queue[u] : queue'[u][i] = queue[u][j]
    BY <2>2
  <2>8. MessagesHold'
    <3>1. \A i \in DOMAIN wire' :
            /\ wire'[i].kind \in Data \cup {"reset"} => wire'[i].epoch >= 1
            /\ wire'[i].tab \in Tabs <=> wire'[i].kind \in Data
      BY <1>1 DEF InputHolds, MessagesHold
    <3>2. \A u \in Tabs : \A i \in DOMAIN queue'[u] :
             queue'[u][i].tab = u /\ queue'[u][i].kind \in Data /\ queue'[u][i].epoch >= 1
      BY <2>7 DEF InputHolds, MessagesHold
    <3> QED BY <3>1, <3>2 DEF MessagesHold
  <2>9. \A i \in DOMAIN queue'[t] : i \in Nat /\ 1 < i + 1 /\ m.n < queue'[t][i].n
    <3> SUFFICES ASSUME NEW i \in DOMAIN queue'[t] PROVE i \in Nat /\ 1 < i + 1 /\ m.n < queue'[t][i].n
      OBVIOUS
    <3>1. i \in 1..Len(queue'[t]) /\ Len(queue'[t]) \in Nat
      BY <2>2
    <3>2. i \in Nat /\ 1 < i + 1
      BY <3>1
    <3>3. queue[t][1].n < queue[t][i + 1].n
      BY <1>3, <2>2, <2>4, <3>2 DEF InputHolds, Ordered, t
    <3> QED BY <2>1, <2>2, <3>2, <3>3
  <2>10. Ordered'
    <3> SUFFICES ASSUME NEW u \in Tabs
                 PROVE  /\ authSeen'[u] <= acts'
                        /\ \A i \in DOMAIN queue'[u] : authSeen'[u] < queue'[u][i].n /\ queue'[u][i].n <= acts'
                        /\ \A i, j \in DOMAIN queue'[u] : i < j => queue'[u][i].n < queue'[u][j].n
      BY DEF Ordered
    <3>1. CASE u # t
      BY <1>2, <2>2, <2>6, <3>1 DEF InputHolds, Ordered
    <3>2. CASE u = t
      <4>1. authSeen'[u] <= acts'
        BY <1>2, <2>1, <2>4, <2>6, <3>2 DEF InputHolds, Ordered
      <4>2. \A i \in DOMAIN queue'[u] : authSeen'[u] < queue'[u][i].n /\ queue'[u][i].n <= acts'
        <5> SUFFICES ASSUME NEW i \in DOMAIN queue'[u] PROVE authSeen'[u] < queue'[u][i].n /\ queue'[u][i].n <= acts'
          OBVIOUS
        <5>1. PICK j \in DOMAIN queue[u] : queue'[u][i] = queue[u][j]
          BY <2>7
        <5>2. authSeen[u] < queue[u][j].n /\ queue[u][j].n <= acts
          BY DEF InputHolds, Ordered
        <5> QED BY <1>2, <2>6, <2>9, <3>2, <5>1, <5>2
      <4>3. \A i, j \in DOMAIN queue'[u] : i < j => queue'[u][i].n < queue'[u][j].n
        <5> SUFFICES ASSUME NEW i \in DOMAIN queue'[t], NEW j \in DOMAIN queue'[t], i < j
                     PROVE  queue'[t][i].n < queue'[t][j].n
          BY <3>2
        <5>1. i + 1 \in DOMAIN queue[t] /\ j + 1 \in DOMAIN queue[t] /\ i + 1 < j + 1
          BY <2>2, <2>9
        <5>2. queue[t][i + 1].n < queue[t][j + 1].n
          BY <5>1, <3>2 DEF InputHolds, Ordered
        <5> QED BY <2>2, <5>2
      <4> QED BY <4>1, <4>2, <4>3
    <3> QED BY <3>1, <3>2
  <2>11. SentOnce'
    <3>1. \A i \in DOMAIN wire' : wire'[i].tab \in Tabs =>
            LET u == wire'[i].tab IN authHead'[u] = "sent" /\ queue'[u] # <<>> /\ wire'[i] = queue'[u][1]
      BY <1>1, <2>2, <2>5 DEF InputHolds, SentOnce
    <3>2. \A i, j \in DOMAIN wire' : wire'[i].tab \in Tabs /\ wire'[i].tab = wire'[j].tab => i = j
      <4> SUFFICES ASSUME NEW i \in DOMAIN wire', NEW j \in DOMAIN wire', wire'[i].tab \in Tabs, wire'[i].tab = wire'[j].tab
                   PROVE  i = j
        OBVIOUS
      <4>1. i + 1 = j + 1
        BY <1>1 DEF InputHolds, SentOnce
      <4> QED BY <1>1, <4>1
    <3> QED BY <3>1, <3>2 DEF SentOnce
  <2> QED BY <2>4, <2>6, <2>8, <2>10, <2>11 DEF InputHolds
<1>4. CASE m.tab \notin Tabs
  <2>1. UNCHANGED <<authSeen, queue, authHead>>
    BY <1>4 DEF ComputerDoes
  <2>2. MessagesHold'
    BY <1>1, <2>1 DEF InputHolds, MessagesHold
  <2>3. Ordered'
    BY <1>2, <2>1 DEF InputHolds, Ordered
  <2>4. SentOnce'
    <3>1. \A i \in DOMAIN wire' : wire'[i].tab \in Tabs =>
            LET u == wire'[i].tab IN authHead'[u] = "sent" /\ queue'[u] # <<>> /\ wire'[i] = queue'[u][1]
      BY <1>1, <2>1 DEF InputHolds, SentOnce
    <3>2. \A i, j \in DOMAIN wire' : wire'[i].tab \in Tabs /\ wire'[i].tab = wire'[j].tab => i = j
      <4> SUFFICES ASSUME NEW i \in DOMAIN wire', NEW j \in DOMAIN wire', wire'[i].tab \in Tabs, wire'[i].tab = wire'[j].tab
                   PROVE  i = j
        OBVIOUS
      <4>1. i + 1 = j + 1
        BY <1>1 DEF InputHolds, SentOnce
      <4> QED BY <1>1, <4>1
    <3> QED BY <3>1, <3>2 DEF SentOnce
  <2> QED BY <2>1, <2>2, <2>3, <2>4 DEF InputHolds
<1> QED BY <1>3, <1>4


\* What goes up still does when nothing that presses it comes after, and does when something that lets go comes.
LEMMA GoesUpGrows ==
  ASSUME SessionsTypeOK, Grows, UNCHANGED <<held, lease>>, NEW what, NEW pressing, NEW clearing,
         \A i \in New : wire'[i].kind \notin pressing,
         GoesUp(what, pressing, clearing) \/ \E i \in New : LetsGo(wire'[i], clearing)
  PROVE  GoesUp(what, pressing, clearing)'
<1>1. \A i \in DOMAIN wire' : i \in New \/ (i \in DOMAIN wire /\ wire'[i] = wire[i] /\ i <= Len(wire))
  BY SessionFacts DEF Grows, New
<1>2. \A i \in DOMAIN wire : i \in DOMAIN wire' /\ wire'[i] = wire[i] /\ i <= Len(wire)
  BY SessionFacts DEF Grows
<1>3. CASE what \cap held = {} /\ \A i \in DOMAIN wire : wire[i].kind \notin pressing
  <2>1. \A i \in DOMAIN wire' : wire'[i].kind \notin pressing
    BY <1>1, <1>3
  <2> QED BY <1>3, <2>1 DEF GoesUp
<1>4. ASSUME NEW i \in DOMAIN wire, LetsGo(wire[i], clearing), \A j \in DOMAIN wire : j > i => wire[j].kind \notin pressing
      PROVE  GoesUp(what, pressing, clearing)'
  <2>1. LetsGo(wire[i], clearing)'
    BY <1>2, <1>4 DEF LetsGo
  <2>2. \A j \in DOMAIN wire' : j > i => wire'[j].kind \notin pressing
    BY <1>1, <1>4
  <2> QED BY <1>2, <2>1, <2>2 DEF GoesUp
<1>5. ASSUME NEW i \in New, LetsGo(wire'[i], clearing)
      PROVE  GoesUp(what, pressing, clearing)'
  <2>1. LetsGo(wire[i], clearing)' /\ i \in DOMAIN wire' /\ i > Len(wire)
    BY <1>5 DEF LetsGo, New
  <2>2. \A j \in DOMAIN wire' : j > i => j \in New
    BY <2>1, SessionFacts DEF Grows, New
  <2> QED BY <2>1, <2>2 DEF GoesUp
<1> QED BY <1>3, <1>4, <1>5 DEF GoesUp

LEMMA GoesUpDone ==
  ASSUME SessionsTypeOK, wire # <<>>, wire' = Tail(wire), lease'.epoch = lease.epoch,
         NEW what, NEW pressing, NEW clearing, GoesUp(what, pressing, clearing),
         wire[1].kind \notin pressing => what \cap held' \subseteq what \cap held,
         LetsGo(wire[1], clearing) => what \cap held' = {}
  PROVE  GoesUp(what, pressing, clearing)'
<1>1. /\ 1 \in DOMAIN wire /\ DOMAIN wire' = 1..Len(wire') /\ Len(wire') = Len(wire) - 1 /\ Len(wire) \in Nat
      /\ \A i \in DOMAIN wire' : i \in Nat /\ i + 1 \in DOMAIN wire /\ i + 1 > 1 /\ wire'[i] = wire[i + 1]
  BY DEF SessionsTypeOK
<1>2. CASE what \cap held = {} /\ \A i \in DOMAIN wire : wire[i].kind \notin pressing
  <2>1. what \cap held' = {} /\ \A i \in DOMAIN wire' : wire'[i].kind \notin pressing
    BY <1>1, <1>2
  <2> QED BY <2>1 DEF GoesUp
<1>3. ASSUME NEW i \in DOMAIN wire, LetsGo(wire[i], clearing), \A j \in DOMAIN wire : j > i => wire[j].kind \notin pressing
      PROVE  GoesUp(what, pressing, clearing)'
  <2>1. CASE i = 1
    <3>1. what \cap held' = {} /\ \A j \in DOMAIN wire' : wire'[j].kind \notin pressing
      BY <1>1, <1>3, <2>1
    <3> QED BY <3>1 DEF GoesUp
  <2>2. CASE i # 1
    <3> DEFINE k == i - 1
    <3>1. k \in DOMAIN wire' /\ wire'[k] = wire[i] /\ k \in Nat /\ i = k + 1
      BY <1>1, <2>2, SessionFacts
    <3> HIDE DEF k
    <3>2. LetsGo(wire[k], clearing)'
      BY <1>3, <3>1 DEF LetsGo
    <3>3. \A j \in DOMAIN wire' : j > k => wire'[j].kind \notin pressing
      <4> SUFFICES ASSUME NEW j \in DOMAIN wire', j > k PROVE wire'[j].kind \notin pressing
        OBVIOUS
      <4>1. j + 1 \in DOMAIN wire /\ wire'[j] = wire[j + 1] /\ j \in Nat
        BY <1>1
      <4>2. j + 1 > i
        BY <3>1, <4>1
      <4> QED BY <1>3, <4>1, <4>2
    <3> QED BY <3>1, <3>2, <3>3 DEF GoesUp
  <2> QED BY <2>1, <2>2
<1> QED BY <1>2, <1>3 DEF GoesUp

\* Nothing on the way or held, and no socket that opened or closed, moved.
LEMMA HeldUnmoved ==
  ASSUME HeldByWhoIsThere, UNCHANGED <<authTab, wire, held, lease>>
  PROVE  HeldByWhoIsThere'
BY DEF HeldByWhoIsThere, KeysGoUp, AllGoesUp, GoesUp, LetsGo, AuthOpen

LEMMA HeldClosing ==
  ASSUME SessionsTypeOK, GateHolds, HeldByWhoIsThere, NEW ts \in SUBSET AuthOpen, Closing(ts), UNCHANGED <<held, lease>>
  PROVE  HeldByWhoIsThere' /\ Grows /\ \A i \in New : OwnMessage(wire'[i])
<1>1. /\ Grows /\ AuthOpen' = AuthOpen \ ts /\ \A t \in Tabs : authTab'[t].of = authTab[t].of
      /\ \A i \in New : wire'[i].tab = Host /\
           \/ wire'[i].kind = "unsubscribe"
           \/ wire'[i].kind = "reset" /\ wire'[i].epoch = lease.epoch /\ lease.epoch >= 1
      /\ lease.state = "held" /\ (\E t \in ts : authTab[t].of = lease.of) => \E i \in New : wire'[i].kind = "reset"
      /\ ts # {} /\ AuthOpen \subseteq ts => \E i \in New : wire'[i].kind = "unsubscribe"
  BY ClosingStep
<1>2. \A i \in New : OwnMessage(wire'[i]) /\ wire'[i].kind \notin {"press", "grab"}
  BY <1>1 DEF OwnMessage
<1>3. ASSUME lease'.state = "held", \A t \in AuthOpen' : authTab'[t].of # lease'.of
      PROVE  KeysGoUp'
  <2>1. CASE \E t \in ts : authTab[t].of = lease.of
    <3>1. PICK i \in New : wire'[i].kind = "reset" /\ wire'[i].epoch = lease.epoch
      BY <1>1, <1>3, <2>1
    <3>2. LetsGo(wire'[i], {"release", "unsubscribe", "reset"})
      BY <3>1 DEF LetsGo
    <3> QED BY <1>1, <1>2, <3>2, GoesUpGrows DEF KeysGoUp
  <2>2. CASE \A t \in ts : authTab[t].of # lease.of
    <3>1. \A t \in AuthOpen : authTab[t].of # lease.of
      BY <1>1, <1>3, <2>2 DEF AuthOpen
    <3>2. KeysGoUp
      BY <1>3, <3>1 DEF HeldByWhoIsThere
    <3> QED BY <1>1, <1>2, <3>2, GoesUpGrows DEF KeysGoUp
  <2> QED BY <2>1, <2>2
<1>4. ASSUME lease'.state = "held", AuthOpen' = {}
      PROVE  AllGoesUp'
  <2>1. CASE ts # {}
    <3>1. PICK i \in New : wire'[i].kind = "unsubscribe"
      BY <1>1, <1>4, <2>1
    <3>2. LetsGo(wire'[i], {"release", "unsubscribe"})
      BY <3>1 DEF LetsGo
    <3> QED BY <1>1, <1>2, <3>2, GoesUpGrows DEF AllGoesUp
  <2>2. CASE ts = {}
    <3>1. AllGoesUp
      BY <1>1, <1>4, <2>2 DEF HeldByWhoIsThere
    <3> QED BY <1>1, <1>2, <3>1, GoesUpGrows DEF AllGoesUp
  <2> QED BY <2>1, <2>2
<1> QED BY <1>1, <1>2, <1>3, <1>4 DEF HeldByWhoIsThere

LEMMA HeldComputer ==
  ASSUME SessionsTypeOK, GateHolds, HeldByWhoIsThere, ComputerDoes
  PROVE  HeldByWhoIsThere'
<1> DEFINE m == wire[1]
<1>1. wire # <<>> /\ wire' = Tail(wire) /\ authTab' = authTab
  BY DEF ComputerDoes
<1>2. CASE m.kind = "release"
  <2>1. lease' = [lease EXCEPT !.state = "none"]
    BY <1>2 DEF ComputerDoes
  <2>2. lease'.state # "held"
    BY <2>1, SessionFacts
  <2> QED BY <2>2 DEF HeldByWhoIsThere
<1>3. CASE m.kind # "release"
  <2>1. lease' = lease
    BY <1>3 DEF ComputerDoes
  <2>2. held' = IF m.kind = "unsubscribe" THEN {} ELSE IF m.epoch = authGate THEN Does(m) ELSE held
    BY <1>3 DEF ComputerDoes
  <2>3. ASSUME lease.state = "held", KeysGoUp PROVE KeysGoUp'
    <3>1. authGate = lease.epoch
      BY <2>3 DEF GateHolds
    <3>2. m.kind \notin {"press"} => {"key"} \cap held' \subseteq {"key"} \cap held
      BY <2>2 DEF Does, KeysHeld, ButtonsHeld
    <3>3. LetsGo(m, {"release", "unsubscribe", "reset"}) => {"key"} \cap held' = {}
      BY <1>3, <2>2, <3>1 DEF LetsGo, Does, KeysHeld, ButtonsHeld
    <3> HIDE DEF m
    <3> QED BY <1>1, <2>1, <2>3, <3>2, <3>3, GoesUpDone DEF KeysGoUp, m
  <2>4. ASSUME lease.state = "held", AllGoesUp PROVE AllGoesUp'
    <3>1. m.kind \notin {"press", "grab"} => {"key", "button"} \cap held' \subseteq {"key", "button"} \cap held
      BY <2>2 DEF Does, KeysHeld, ButtonsHeld
    <3>2. LetsGo(m, {"release", "unsubscribe"}) => {"key", "button"} \cap held' = {}
      BY <1>3, <2>2 DEF LetsGo
    <3> HIDE DEF m
    <3> QED BY <1>1, <2>1, <2>4, <3>1, <3>2, GoesUpDone DEF AllGoesUp, m
  <2> QED BY <1>1, <2>1, <2>3, <2>4 DEF HeldByWhoIsThere, AuthOpen
<1> QED BY <1>2, <1>3


\* The input of the person who drives is relayed: a socket of theirs is open.
LEMMA HeldRelays ==
  ASSUME SessionsTypeOK, HeldByWhoIsThere, NEW t \in Tabs, Allowed(t), Valid(authTab[t].of, queue[t][1].epoch),
         UNCHANGED <<authTab, lease>>
  PROVE  HeldByWhoIsThere'
<1>1. t \in AuthOpen' /\ authTab'[t].of = lease'.of
  BY DEF Allowed, AuthOpen, Valid
<1> QED BY <1>1 DEF HeldByWhoIsThere

LEMMA GrowsNone == ASSUME SessionsTypeOK, UNCHANGED wire PROVE Grows /\ New = {}
BY SessionFacts DEF Grows, New, SessionsTypeOK

\* All but the types, of which the lemmas above speak
LoginsHold == InputHolds /\ GateHolds /\ HeldByWhoIsThere /\ ToldAreOut
SessionsHold == SessionsTypeOK /\ LoginsHold
LEMMA SessionsInvIs == SessionsInv <=> SessionsHold
BY DEF SessionsInv, SessionsHold, LoginsHold, InputHolds

LEMMA InvitesKeep ==
  ASSUME SessionsHold, NEW p \in People, NEW i \in People \cup {Host}, Invites(i, p) \/ Pairs(p) \/ AuthTimesOut(p)
  PROVE  SessionsHold'
<1>1. SessionsTypeOK'
  BY LoginsTyped DEF SessionsHold
<1>2. UNCHANGED <<told, authTab, queue, authHead, lease, wire, authGate, held, authSeen, acts>>
  BY DEF Invites, Pairs, AuthTimesOut, inputVars, computerVars
<1>3. InputHolds'
  BY <1>2 DEF SessionsHold, LoginsHold, InputHolds, MessagesHold, Ordered, SentOnce
<1>4. GateHolds' /\ HeldByWhoIsThere'
  BY <1>2, HeldUnmoved DEF SessionsHold, LoginsHold, GateHolds
<1>5. ToldAreOut'
  <2>1. told \subseteq People /\ authLogin[p] # "gone"
    BY DEF SessionsHold, SessionsTypeOK, Invites, Pairs, Consumes, AuthTimesOut
  <2>2. \A q \in People : q # p => authLogin'[q] = authLogin[q]
    BY DEF SessionsHold, SessionsTypeOK, Invites, Pairs, AuthTimesOut
  <2>3. p \notin told
    BY <2>1 DEF SessionsHold, LoginsHold, ToldAreOut
  <2> QED BY <1>2, <2>1, <2>2, <2>3 DEF SessionsHold, LoginsHold, ToldAreOut
<1> QED BY <1>1, <1>3, <1>4, <1>5 DEF SessionsHold, LoginsHold

LEMMA TakesKeeps == ASSUME SessionsHold, NEW p \in People, Takes(p) PROVE SessionsHold'
<1>1. SessionsTypeOK'
  BY LoginsTyped DEF SessionsHold
<1>2. /\ UNCHANGED <<authLogin, issuer, told, authTab, queue, authHead, wire, authSaid, held, authSeen, acts>>
      /\ lease' = [of |-> p, epoch |-> lease.epoch + 1, state |-> "held"] /\ authGate' = lease.epoch + 1
      /\ wire = <<>> /\ lease.state = "none"
  BY DEF Takes, peopleVars, inputVars
<1>3. lease.epoch \in Nat /\ held = {} /\ DOMAIN wire = {}
  BY <1>2, SessionFacts DEF SessionsHold, LoginsHold, GateHolds
<1>4. GateHolds'
  BY <1>2, <1>3 DEF GateHolds
<1>5. InputHolds'
  BY <1>2 DEF SessionsHold, LoginsHold, InputHolds, MessagesHold, Ordered, SentOnce
<1>6. HeldByWhoIsThere'
  BY <1>2, <1>3 DEF HeldByWhoIsThere, KeysGoUp, AllGoesUp, GoesUp
<1>7. ToldAreOut'
  BY <1>2 DEF SessionsHold, LoginsHold, ToldAreOut
<1> QED BY <1>1, <1>4, <1>5, <1>6, <1>7 DEF SessionsHold, LoginsHold

LEMMA RevokesKeep ==
  ASSUME SessionsHold, NEW p \in People, NEW by \in People, AuthRevokes(by, p)
  PROVE  SessionsHold'
<1> DEFINE ts == {t \in AuthOpen : authTab[t].of = p}
<1>0. SessionsTypeOK /\ InputHolds /\ GateHolds /\ HeldByWhoIsThere /\ ToldAreOut
  BY DEF SessionsHold, LoginsHold
<1>1. SessionsTypeOK'
  BY <1>0, SocketsTyped
<1>2. /\ Closing(ts) /\ ts \in SUBSET AuthOpen
      /\ UNCHANGED <<queue, authHead, lease, authGate, held, authSeen, acts>>
      /\ authLogin' = [authLogin EXCEPT ![p] = "gone"] /\ told' = told \cup {p}
  BY DEF AuthRevokes, CallsOut, computerVars
<1>3. HeldByWhoIsThere' /\ Grows /\ \A i \in New : OwnMessage(wire'[i])
  BY <1>0, <1>2, HeldClosing
<1>4. InputHolds'
  BY <1>0, <1>2, <1>3, OwnStep
<1>5. GateHolds'
  BY <1>0, <1>2 DEF GateHolds
<1>6. ToldAreOut'
  <2>1. AuthOpen' = AuthOpen \ ts /\ \A t \in Tabs : authTab'[t].of = authTab[t].of
    BY <1>0, <1>2, ClosingStep
  <2>2. \A t \in Tabs : authTab'[t].state = "open" => authTab[t].state = "open" /\ authTab[t].of # p
    BY <2>1 DEF AuthOpen
  <2>3. told \subseteq People /\ \A q \in People : authLogin'[q] = IF q = p THEN "gone" ELSE authLogin[q]
    BY <1>0, <1>2 DEF SessionsTypeOK
  <2> QED BY <1>0, <1>2, <2>1, <2>2, <2>3 DEF ToldAreOut
<1> QED BY <1>1, <1>3, <1>4, <1>5, <1>6 DEF SessionsHold, LoginsHold

LEMMA SocketsKeep ==
  ASSUME SessionsHold, NEW t \in Tabs, NEW p \in People, AuthOpens(t, p)
  PROVE  SessionsHold'
<1>0. SessionsTypeOK /\ InputHolds /\ GateHolds /\ HeldByWhoIsThere /\ ToldAreOut
  BY DEF SessionsHold, LoginsHold
<1>1. SessionsTypeOK'
  BY <1>0, SocketsTyped
<1>2. /\ UNCHANGED <<authLogin, told, queue, authHead, wire, lease, authGate, held, authSeen, acts>>
      /\ authTab[t].state = "none" /\ Live(p) /\ authTab' = [authTab EXCEPT ![t] = [of |-> p, state |-> "open"]]
  BY DEF AuthOpens, peopleVars, computerVars
<1>3. \A u \in Tabs : u # t => authTab'[u] = authTab[u]
  BY <1>2 DEF SessionsHold, SessionsTypeOK
<1>4. authTab'[t] = [of |-> p, state |-> "open"]
  BY <1>0, <1>2 DEF SessionsTypeOK
<1>5. t \in AuthOpen' /\ t \notin AuthOpen /\ AuthOpen \subseteq AuthOpen' /\ \A u \in AuthOpen : authTab'[u] = authTab[u]
  BY <1>2, <1>3, <1>4 DEF AuthOpen
<1>6. HeldByWhoIsThere'
  BY <1>0, <1>2, <1>5 DEF HeldByWhoIsThere, KeysGoUp, AllGoesUp, GoesUp, LetsGo
<1>7. InputHolds' /\ GateHolds'
  BY <1>0, <1>2 DEF InputHolds, MessagesHold, Ordered, SentOnce, GateHolds
<1>8. ToldAreOut'
  BY <1>0, <1>2, <1>3, <1>4 DEF ToldAreOut, Live
<1> QED BY <1>1, <1>6, <1>7, <1>8 DEF SessionsHold, LoginsHold

LEMMA ClosesKeeps == ASSUME SessionsHold, NEW t \in Tabs, AuthCloses(t) PROVE SessionsHold'
<1>0. SessionsTypeOK /\ InputHolds /\ GateHolds /\ HeldByWhoIsThere /\ ToldAreOut
  BY DEF SessionsHold, LoginsHold
<1>1. SessionsTypeOK'
  BY <1>0, SocketsTyped
<1>2. /\ Closing({t}) /\ {t} \in SUBSET AuthOpen
      /\ UNCHANGED <<authLogin, told, queue, authHead, lease, authGate, held, authSeen, acts>>
  BY DEF AuthCloses, peopleVars, computerVars
<1>3. HeldByWhoIsThere' /\ Grows /\ \A i \in New : OwnMessage(wire'[i])
  BY <1>0, <1>2, HeldClosing
<1>4. InputHolds' /\ GateHolds'
  BY <1>0, <1>2, <1>3, OwnStep DEF GateHolds
<1>5. ToldAreOut'
  <2>1. AuthOpen' = AuthOpen \ {t} /\ \A u \in Tabs : authTab'[u].of = authTab[u].of
    BY <1>0, <1>2, ClosingStep
  <2>2. \A u \in Tabs : authTab'[u].state = "open" => authTab[u].state = "open"
    BY <2>1 DEF AuthOpen
  <2> QED BY <1>0, <1>2, <2>1, <2>2 DEF ToldAreOut
<1> QED BY <1>1, <1>3, <1>4, <1>5 DEF SessionsHold, LoginsHold

LEMMA RelaysKeep == ASSUME SessionsHold, NEW t \in Tabs, Starts(t) \/ AuthWoken(t) PROVE SessionsHold'
<1>0. SessionsTypeOK /\ InputHolds /\ GateHolds /\ HeldByWhoIsThere /\ ToldAreOut
  BY DEF SessionsHold, LoginsHold
<1>1. SessionsTypeOK'
  BY <1>0, RelaysTyped
<1>2. /\ UNCHANGED <<authLogin, told, lease, authGate, held, authSeen, acts>> /\ queue[t] # <<>>
      /\ authHead[t] \in {"idle", "waking"}
  BY DEF Starts, AuthWoken, Waits, peopleVars, computerVars
<1>3. GateHolds'
  BY <1>0, <1>2 DEF GateHolds
<1>4. CASE Relays(t) /\ Waits(t, "waking") /\ Allowed(t) /\ Valid(authTab[t].of, queue[t][1].epoch)
  <2>1. InputHolds' /\ authTab' = authTab
    BY <1>0, <1>2, <1>4, RelaysStep DEF Relays
  <2>2. HeldByWhoIsThere' /\ ToldAreOut'
    BY <1>0, <1>2, <1>4, <2>1, HeldRelays DEF ToldAreOut
  <2> QED BY <1>1, <1>3, <2>1, <2>2 DEF SessionsHold, LoginsHold
<1>5. CASE authHead[t] = "idle" /\ authHead' = [authHead EXCEPT ![t] = "waking"] /\ UNCHANGED <<queue, authTab, wire>>
  <2>1. Grows /\ New = {}
    BY <1>0, <1>5, GrowsNone
  <2>2. InputHolds'
    BY <1>0, <1>2, <1>5, <2>1, OwnStep
  <2>3. HeldByWhoIsThere' /\ ToldAreOut'
    BY <1>0, <1>2, <1>5, HeldUnmoved DEF ToldAreOut
  <2> QED BY <1>1, <1>3, <2>2, <2>3 DEF SessionsHold, LoginsHold
<1>6. CASE Drops(t) /\ UNCHANGED <<authTab, wire>>
  <2>1. Grows /\ New = {}
    BY <1>0, <1>6, GrowsNone
  <2>2. InputHolds'
    BY <1>0, <1>2, <1>6, <2>1, DroppedStep
  <2>3. HeldByWhoIsThere' /\ ToldAreOut'
    BY <1>0, <1>2, <1>6, HeldUnmoved DEF ToldAreOut
  <2> QED BY <1>1, <1>3, <2>2, <2>3 DEF SessionsHold, LoginsHold
<1>7. CASE AuthRefused(t)
  <2> DEFINE ts == {t} \cap AuthOpen
  <2>1. Drops(t) /\ Closing(ts) /\ ts \in SUBSET AuthOpen
    BY <1>7 DEF AuthRefused
  <2>2. HeldByWhoIsThere' /\ Grows /\ \A i \in New : OwnMessage(wire'[i])
    BY <1>0, <1>2, <2>1, HeldClosing
  <2>3. InputHolds'
    BY <1>0, <1>2, <2>1, <2>2, DroppedStep
  <2>4. AuthOpen' = AuthOpen \ ts /\ \A u \in Tabs : authTab'[u].of = authTab[u].of
    BY <1>0, <2>1, ClosingStep
  <2>5. \A u \in Tabs : authTab'[u].state = "open" => authTab[u].state = "open"
    BY <2>4 DEF AuthOpen
  <2>6. ToldAreOut'
    BY <1>0, <1>2, <2>4, <2>5 DEF ToldAreOut
  <2> QED BY <1>1, <1>3, <2>2, <2>3, <2>6 DEF SessionsHold, LoginsHold
<1> QED
  BY <1>4, <1>5, <1>6, <1>7 DEF Starts, AuthWoken, Waits

LEMMA LeaseKeeps ==
  ASSUME SessionsHold, AuthLapses \/ AuthEnds
  PROVE  SessionsHold'
<1>0. SessionsTypeOK /\ InputHolds /\ GateHolds /\ HeldByWhoIsThere /\ ToldAreOut
  BY DEF SessionsHold, LoginsHold
<1>1. SessionsTypeOK'
  BY <1>0, SocketsTyped
<1>2. UNCHANGED <<authLogin, told, authTab, queue, authHead, authGate, held, authSeen, acts>>
  BY DEF AuthLapses, AuthEnds, peopleVars, inputVars, computerVars
<1>3. ToldAreOut'
  BY <1>0, <1>2 DEF ToldAreOut
<1>4. CASE AuthLapses
  <2>1. lease' = [lease EXCEPT !.state = "lapsed"] /\ wire' = wire /\ lease.state = "held"
    BY <1>4 DEF AuthLapses, inputVars
  <2>2. lease'.state = "lapsed" /\ lease'.epoch = lease.epoch
    BY <1>0, <2>1, SessionFacts
  <2>3. GateHolds' /\ HeldByWhoIsThere' /\ InputHolds'
    BY <1>0, <1>2, <2>1, <2>2 DEF GateHolds, HeldByWhoIsThere, InputHolds, MessagesHold, Ordered,
         SentOnce
  <2> QED BY <1>1, <1>3, <2>3 DEF SessionsHold, LoginsHold
<1>5. CASE AuthEnds
  <2>1. wire' = Append(wire, Release) /\ lease' = lease
    BY <1>5 DEF AuthEnds
  <2>2. Release \in Message /\ Release.kind = "release" /\ Release.tab = Host
    BY DEF Release, Reset, Message, Kinds
  <2>3. Grows /\ New = {Len(wire) + 1} /\ wire'[Len(wire) + 1] = Release
    BY <1>0, <2>1, <2>2, AppendStep
  <2>4. \A i \in New : OwnMessage(wire'[i]) /\ wire'[i].kind \notin {"press", "grab"}
    BY <2>2, <2>3 DEF OwnMessage
  <2>5. InputHolds'
    BY <1>0, <1>2, <2>3, <2>4, OwnStep
  <2>6. /\ \E i \in New : LetsGo(wire'[i], {"release", "unsubscribe", "reset"})
        /\ \E i \in New : LetsGo(wire'[i], {"release", "unsubscribe"})
    BY <2>2, <2>3 DEF LetsGo
  <2>7. KeysGoUp' /\ AllGoesUp'
    BY <1>0, <1>2, <2>1, <2>3, <2>4, <2>6, GoesUpGrows DEF KeysGoUp, AllGoesUp
  <2>8. GateHolds'
    BY <1>0, <1>2, <2>1 DEF GateHolds
  <2>9. HeldByWhoIsThere'
    BY <2>7 DEF HeldByWhoIsThere
  <2> QED BY <1>1, <1>3, <2>5, <2>8, <2>9 DEF SessionsHold, LoginsHold
<1> QED BY <1>4, <1>5

LEMMA ActsKeep == ASSUME SessionsHold, NEW t \in Tabs, NEW kind \in Data, Acts(t, kind) PROVE SessionsHold'
<1>0. SessionsTypeOK /\ InputHolds /\ GateHolds /\ HeldByWhoIsThere /\ ToldAreOut
  BY DEF SessionsHold, LoginsHold
<1>1. SessionsTypeOK' /\ InputHolds'
  BY <1>0, ActsTyped, ActsStep
<1>2. UNCHANGED <<authLogin, told, authTab, wire, lease, authGate, held>>
  BY DEF Acts, peopleVars, computerVars
<1>3. GateHolds' /\ ToldAreOut'
  BY <1>0, <1>2 DEF GateHolds, ToldAreOut
<1>4. HeldByWhoIsThere'
  BY <1>0, <1>2, HeldUnmoved
<1> QED BY <1>1, <1>3, <1>4 DEF SessionsHold, LoginsHold

LEMMA ComputerKeeps == ASSUME SessionsHold, ComputerDoes PROVE SessionsHold'
<1>0. SessionsTypeOK /\ InputHolds /\ GateHolds /\ HeldByWhoIsThere /\ ToldAreOut
  BY DEF SessionsHold, LoginsHold
<1>1. SessionsTypeOK'
  BY <1>0, ComputerTyped DEF InputHolds
<1>2. InputHolds' /\ HeldByWhoIsThere'
  BY <1>0, ComputerStep, HeldComputer
<1>3. ToldAreOut'
  BY <1>0 DEF ToldAreOut, ComputerDoes, peopleVars
<1>4. GateHolds'
  <2> DEFINE m == wire[1]
  <2>1. m \in Message /\ 1 \in DOMAIN wire
    BY <1>0, SessionFacts DEF ComputerDoes
  <2>2. m.kind \in Kinds /\ (m.kind \in Data \cup {"reset"} => m.epoch >= 1)
    BY <1>0, <2>1 DEF Message, InputHolds, MessagesHold
  <2>3. CASE m.kind = "release"
    <3>1. authGate' = 0 /\ held' = {} /\ lease' = [lease EXCEPT !.state = "none"]
      BY <2>3 DEF ComputerDoes
    <3>2. lease'.state = "none"
      BY <1>0, <3>1, SessionFacts
    <3> QED BY <3>1, <3>2 DEF GateHolds
  <2>4. CASE m.kind # "release"
    <3>1. authGate' = authGate /\ lease' = lease
      BY <2>4 DEF ComputerDoes
    <3>2. held' = IF m.kind = "unsubscribe" THEN {} ELSE IF m.epoch = authGate THEN Does(m) ELSE held
      BY <2>4 DEF ComputerDoes
    <3>3. lease.state = "none" => held' = {}
      <4>1. m.kind # "unsubscribe" => m.kind \in Data \cup {"reset"}
        BY <2>2, <2>4 DEF Kinds, Data
      <4>2. m.kind # "unsubscribe" => m.epoch # 0
        BY <2>2, <4>1
      <4> QED BY <1>0, <3>2, <4>2 DEF GateHolds
    <3> QED BY <1>0, <3>1, <3>3 DEF GateHolds
  <2> QED BY <2>3, <2>4
<1> QED BY <1>1, <1>2, <1>3, <1>4 DEF SessionsHold, LoginsHold


LEMMA SessionsBegin == ASSUME SessionsInit PROVE SessionsHold
<1>1. /\ wire = <<>> /\ DOMAIN wire = {} /\ held = {} /\ authGate = 0 /\ acts = 0 /\ told = {}
      /\ lease = [of |-> Host, epoch |-> 0, state |-> "none"] /\ authSeen = [t \in Tabs |-> 0]
      /\ queue = [t \in Tabs |-> <<>>]
  BY DEF SessionsInit
<1>2. \A t \in Tabs : queue[t] = <<>> /\ DOMAIN queue[t] = {} /\ authSeen[t] = 0
  BY <1>1
<1>3. SessionsTypeOK
  <2>1. <<>> \in Seq(Message)
    OBVIOUS
  <2>2. authSaid \in [Tabs -> [n : Nat, epoch : Nat]]
    BY DEF SessionsInit, NoMove
  <2> QED BY <1>1, <2>1, <2>2 DEF SessionsInit, SessionsTypeOK
<1>4. InputHolds
  BY <1>1, <1>2 DEF InputHolds, MessagesHold, Ordered, SentOnce
<1>5. GateHolds /\ HeldByWhoIsThere /\ ToldAreOut
  BY <1>1 DEF GateHolds, HeldByWhoIsThere, ToldAreOut
<1> QED BY <1>3, <1>4, <1>5 DEF SessionsHold, LoginsHold

LEMMA SessionsStutter == ASSUME SessionsHold, UNCHANGED sessionsVars PROVE SessionsHold'
<1>1. UNCHANGED <<authLogin, issuer, told, authTab, queue, authHead, wire, authSaid, authGate, held, authSeen, lease, acts>>
  BY DEF sessionsVars, peopleVars, inputVars, computerVars
<1>2. SessionsTypeOK' /\ GateHolds' /\ ToldAreOut' /\ HeldByWhoIsThere'
  BY <1>1, HeldUnmoved DEF SessionsHold, LoginsHold, SessionsTypeOK, GateHolds, ToldAreOut
<1>3. InputHolds'
  BY <1>1 DEF SessionsHold, LoginsHold, InputHolds, MessagesHold, Ordered, SentOnce
<1> QED BY <1>2, <1>3 DEF SessionsHold, LoginsHold

LEMMA SessionsKept == ASSUME SessionsHold, [SessionsNext]_sessionsVars PROVE SessionsHold'
<1>1. ASSUME NEW p \in People, NEW i \in People \cup {Host}, Invites(i, p) PROVE SessionsHold'
  BY <1>1, InvitesKeep
<1>2. ASSUME NEW p \in People, Pairs(p) \/ AuthTimesOut(p) \/ Takes(p) PROVE SessionsHold'
  BY <1>2, InvitesKeep, TakesKeeps
<1>3. ASSUME NEW p \in People, NEW by \in People, AuthRevokes(by, p) PROVE SessionsHold'
  BY <1>3, RevokesKeep
<1>4. ASSUME NEW t \in Tabs, NEW p \in People, AuthOpens(t, p) PROVE SessionsHold'
  BY <1>4, SocketsKeep
<1>5. ASSUME NEW t \in Tabs, NEW k \in {"move", "press", "grab", "let go"}, Acts(t, k) PROVE SessionsHold'
  BY <1>5, ActsKeep DEF Data
<1>6. ASSUME NEW t \in Tabs, AuthCloses(t) \/ Starts(t) \/ AuthWoken(t) PROVE SessionsHold'
  BY <1>6, ClosesKeeps, RelaysKeep
<1>7. CASE AuthLapses \/ AuthEnds \/ ComputerDoes \/ UNCHANGED sessionsVars
  BY <1>7, LeaseKeeps, ComputerKeeps, SessionsStutter
<1> QED
  BY <1>1, <1>2, <1>3, <1>4, <1>5, <1>6, <1>7 DEF SessionsNext

LEMMA SessionsAlways == SessionsSpec => []SessionsHold
<1>1. SessionsInit => SessionsHold
  BY SessionsBegin
<1>2. SessionsHold /\ [SessionsNext]_sessionsVars => SessionsHold'
  BY SessionsKept
<1> QED BY <1>1, <1>2, PTL DEF SessionsSpec

LEMMA HeldIsSafe == ASSUME SessionsHold PROVE NothingLeftHeld
<1> SUFFICES ASSUME wire = <<>>, lease.state # "lapsed"
             PROVE  /\ (\A t \in AuthOpen : authTab[t].of # lease.of) \/ lease.state = "none" => "key" \notin held
                    /\ AuthOpen = {} => held = {}
  BY DEF NothingLeftHeld
<1>1. SessionsTypeOK /\ GateHolds /\ HeldByWhoIsThere /\ DOMAIN wire = {}
  BY DEF SessionsHold, LoginsHold
<1>2. CASE lease.state = "none"
  BY <1>1, <1>2 DEF GateHolds
<1>3. CASE lease.state = "held"
  <2>1. KeysGoUp => "key" \notin held
    BY <1>1 DEF KeysGoUp, GoesUp
  <2>2. AllGoesUp => held = {}
    BY <1>1 DEF AllGoesUp, GoesUp, SessionsTypeOK
  <2> QED BY <1>1, <1>3, <2>1, <2>2 DEF HeldByWhoIsThere
<1>4. lease.state \in {"none", "held", "lapsed"}
  BY <1>1, SessionFacts
<1> QED BY <1>2, <1>3, <1>4

\* Whatever waited in queues or for the computer to wake: with the last socket of the person who
\* drives no key stays down on the computer, and with the last socket of all, nothing does.
THEOREM HeldCorrect == SessionsSpec => []NothingLeftHeld
<1>1. SessionsHold => NothingLeftHeld
  BY HeldIsSafe
<1> QED BY <1>1, SessionsAlways, PTL

\* What a person does in a browser happens on the computer in the order it was done.
THEOREM OrderCorrect == SessionsSpec => InOrder
<1> DEFINE Later == \A t \in Tabs : authSeen'[t] # authSeen[t] => authSeen'[t] > authSeen[t]
<1>1. ASSUME SessionsHold, [SessionsNext]_sessionsVars PROVE Later
  <2>1. CASE ComputerDoes
    BY <1>1, <2>1, ComputerStep DEF SessionsHold, LoginsHold
  <2>2. CASE ~ComputerDoes
    <3>1. authSeen' = authSeen
      BY <1>1, <2>2 DEF SessionsNext, Invites, Pairs, AuthTimesOut, Takes, AuthRevokes, AuthOpens,
           Acts, AuthCloses,
            Starts, AuthWoken, AuthLapses, AuthEnds, sessionsVars, computerVars
    <3> QED BY <3>1
  <2> QED BY <2>1, <2>2
<1>2. SessionsHold /\ [SessionsNext]_sessionsVars => [Later]_sessionsVars
  BY <1>1
<1> QED
  BY <1>2, SessionsAlways, PTL DEF SessionsSpec, InOrder

\* A device the pane has called out stays out, with its sockets, and a link it made lets no one in.
THEOREM RevokedIsOutCorrect == SessionsSpec => RevokedIsOut
<1> DEFINE Out == \A p \in told' :
             /\ authLogin'[p] # "live"
             /\ \A t \in Tabs : authTab'[t].of = p => authTab'[t].state # "open"
             /\ \A q \in People : issuer[q] = p /\ authLogin[q] = "invited" => authLogin'[q] # "live"
<1>1. ASSUME SessionsHold, SessionsHold', [SessionsNext]_sessionsVars PROVE Out
  <2>1. \A p \in told' : authLogin'[p] = "gone" /\ \A t \in Tabs : authTab'[t].of = p => authTab'[t].state # "open"
    BY <1>1 DEF SessionsHold, LoginsHold, ToldAreOut
  <2>2. told \subseteq People /\ \A p \in told : authLogin[p] = "gone"
    BY <1>1 DEF SessionsHold, SessionsTypeOK, LoginsHold, ToldAreOut
  <2>3. ASSUME NEW p \in told', NEW q \in People, issuer[q] = p, authLogin[q] = "invited"
        PROVE  authLogin'[q] # "live"
    <3>0. authLogin \in [People -> {"none", "invited", "live", "gone"}]
      BY <1>1 DEF SessionsHold, SessionsTypeOK
    <3>1. CASE Pairs(q)
      <4>1. told' = told /\ (issuer[q] = Host \/ Live(issuer[q]))
        BY <3>1 DEF Pairs, Consumes
      <4> QED BY <2>2, <2>3, <4>1, HostIsNoTab DEF Live
    <3>2. ASSUME NEW r \in People, r # q, Pairs(r) PROVE authLogin'[q] # "live"
      BY <2>3, <3>0, <3>2 DEF Pairs
    <3>3. ASSUME NEW r \in People, NEW i, Invites(i, r) PROVE authLogin'[q] # "live"
      BY <2>3, <3>0, <3>3 DEF Invites
    <3>4. ASSUME NEW r \in People, AuthTimesOut(r) PROVE authLogin'[q] # "live"
      BY <2>3, <3>0, <3>4 DEF AuthTimesOut
    <3>5. ASSUME NEW r \in People, NEW by \in People, AuthRevokes(by, r) PROVE authLogin'[q] # "live"
      BY <2>3, <3>0, <3>5 DEF AuthRevokes
    <3>6. ASSUME UNCHANGED authLogin PROVE authLogin'[q] # "live"
      BY <2>3, <3>6
    <3>7. \/ UNCHANGED authLogin
          \/ \E r \in People, i \in People \cup {Host} : Invites(i, r)
          \/ \E r \in People : Pairs(r) \/ AuthTimesOut(r)
          \/ \E r, by \in People : AuthRevokes(by, r)
      BY <1>1 DEF SessionsNext, Takes, AuthOpens, Acts, AuthCloses, Starts, AuthWoken, AuthLapses,
           AuthEnds,
            ComputerDoes, sessionsVars, peopleVars
    <3> QED BY <3>1, <3>2, <3>3, <3>4, <3>5, <3>6, <3>7
  <2> QED BY <2>1, <2>3
<1>2. SessionsHold /\ SessionsHold' /\ [SessionsNext]_sessionsVars => [Out]_sessionsVars
  BY <1>1
<1> QED
  BY <1>2, SessionsAlways, PTL DEF SessionsSpec, RevokedIsOut

-----------------------------------------------------------------------------
(* The picture a window shows *)

WindowState == [on : BOOLEAN, known : BOOLEAN, now : Picture, ready : BOOLEAN, picture : Picture, painting : Picture]
LiveMessage == [t : {"mode", "frame", "error"}, of : Picture]
\* A window knows of a control before it decodes a frame of it.
LiveHolds ==
    /\ viewGate \in {"agent", "human", "validating"} /\ viewRow \in Picture
    /\ subscribed \in BOOLEAN /\ wanted \in BOOLEAN /\ liveOn \in BOOLEAN /\ viewWaking \in BOOLEAN
    /\ viewStream \in {"off", "page", "desktop"} /\ tail \in Seq({"start", "stop"})
    /\ view \in [Viewer -> WindowState] /\ inbox \in [Viewer -> Seq(LiveMessage)]
    /\ ghost \subseteq Viewer /\ ack \in [Viewer -> {"off", "idle", "wait"}]
    /\ connects \in 0..ConnectBound /\ faults \in 0..FaultBound
    /\ viewRow.mode # viewGate => viewRow.epoch < EpochBound
    /\ ReadyIsCurrent /\ \A v \in Viewer : view[v].painting # NoPicture => view[v].known

LEMMA LiveFacts ==
  ASSUME LiveHolds
  PROVE  /\ NoPicture \in Picture /\ Control \in LiveMessage /\ Frame \in LiveMessage /\ Error \in LiveMessage
         /\ Away \in WindowState /\ On \subseteq Viewer
         /\ EpochBound \in Nat /\ ConnectBound \in Nat /\ FaultBound \in Nat
<1>1. EpochBound \in Nat /\ ConnectBound \in Nat /\ FaultBound \in Nat
  BY LiveAssumption
<1>2. NoPicture \in Picture
  BY <1>1 DEF NoPicture, Picture
<1> QED
  BY <1>1, <1>2 DEF LiveHolds, Control, Frame, Error, Away, On, LiveMessage, WindowState

LEMMA SendsTyped ==
  ASSUME LiveHolds, NEW vs, NEW m \in LiveMessage, Sends(vs, m)
  PROVE  inbox' \in [Viewer -> Seq(LiveMessage)]
<1>1. \A v \in Viewer : inbox[v] \in Seq(LiveMessage) /\ Append(inbox[v], m) \in Seq(LiveMessage)
  BY DEF LiveHolds
<1> HIDE DEF LiveMessage
<1> QED
  BY <1>1 DEF Sends

LEMMA ForwardsTyped ==
  ASSUME LiveHolds, Forwards
  PROVE  inbox' \in [Viewer -> Seq(LiveMessage)] /\ ack' \in [Viewer -> {"off", "idle", "wait"}]
<1>1. \E to : Sends(to, Frame) /\ ack' = [v \in Viewer |-> IF v \in to /\ ack[v] = "idle" THEN "wait" ELSE ack[v]]
  BY DEF Forwards
<1>2. \A v \in Viewer : ack[v] \in {"off", "idle", "wait"}
  BY DEF LiveHolds
<1> QED
  BY <1>1, <1>2, LiveFacts, SendsTyped

\* The client's queue gets another entry, or keeps what it has.
LEMMA ClientTyped ==
  ASSUME LiveHolds, Restarted \/ ViewStopped \/ UNCHANGED clientVars
  PROVE  /\ wanted' \in BOOLEAN /\ tail' \in Seq({"start", "stop"}) /\ liveOn' \in BOOLEAN
         /\ viewWaking' \in BOOLEAN
<1>1. /\ wanted \in BOOLEAN /\ liveOn \in BOOLEAN /\ viewWaking \in BOOLEAN
      /\ tail \in Seq({"start", "stop"}) /\ Append(tail, "stop") \in Seq({"start", "stop"})
  BY DEF LiveHolds
<1>2. CASE Restarted \/ ViewStopped
  BY <1>1, <1>2 DEF Restarted, ViewStopped
<1>3. CASE UNCHANGED clientVars
  BY <1>1, <1>3 DEF clientVars
<1> QED
  BY <1>2, <1>3

\* The daemon's and the computer's steps: no window learns of anything.
LEMMA LiveServes ==
  ASSUME LiveHolds, WakeEnds \/ StartRuns \/ StopRuns \/ FrameComes \/ GateMoves \/ RowFollows
  PROVE  LiveHolds'
<1>1. view' = view /\ ghost' = ghost /\ connects' = connects
  BY DEF WakeEnds, StartRuns, StopRuns, FrameComes, GateMoves, RowFollows
<1>2. CASE WakeEnds
  <2>1. inbox' \in [Viewer -> Seq(LiveMessage)] /\ faults' \in 0..FaultBound
    <3>1. CASE Fails
      <4>1. inbox' \in [Viewer -> Seq(LiveMessage)]
        BY <3>1, LiveFacts, SendsTyped DEF Fails
      <4> QED
        BY <3>1, <4>1, LiveFacts DEF Fails, LiveHolds
    <3>2. CASE UNCHANGED <<inbox, faults>>
      BY <3>2 DEF LiveHolds
    <3> QED
      BY <1>2, <3>1, <3>2 DEF WakeEnds
  <2>2. wanted' \in BOOLEAN /\ tail' \in Seq({"start", "stop"}) /\ viewWaking' \in BOOLEAN
    <3>1. wanted \in BOOLEAN /\ tail \in Seq({"start", "stop"}) /\ Append(tail, "start") \in Seq({"start", "stop"})
      BY DEF LiveHolds
    <3>2. (wanted' = wanted \/ wanted' = TRUE) /\ (tail' = tail \/ tail' = Append(tail, "start")) /\ viewWaking' = FALSE
      BY <1>2 DEF WakeEnds
    <3> QED
      BY <3>1, <3>2
  <2>3. UNCHANGED <<viewGate, viewRow, subscribed, viewStream, liveOn, ack>>
    BY <1>2 DEF WakeEnds, serverVars
  <2> QED
    BY <1>1, <2>1, <2>2, <2>3 DEF LiveHolds, ReadyIsCurrent
<1>3. CASE StartRuns
  <2>1. inbox' \in [Viewer -> Seq(LiveMessage)] /\ ack' \in [Viewer -> {"off", "idle", "wait"}] /\ faults' \in 0..FaultBound
    BY <1>3, LiveFacts, SendsTyped, ForwardsTyped DEF StartRuns, Fails, LiveHolds
  <2>2. tail' \in Seq({"start", "stop"})
    BY <1>3 DEF StartRuns, LiveHolds
  <2>3. wanted' \in BOOLEAN /\ liveOn' \in BOOLEAN /\ subscribed' \in BOOLEAN /\ viewStream' \in {"off", "page", "desktop"}
        /\ UNCHANGED <<viewGate, viewRow, viewWaking>>
    BY <1>3 DEF StartRuns, LiveHolds, Casting
  <2> QED
    BY <1>1, <2>1, <2>2, <2>3 DEF LiveHolds, ReadyIsCurrent
<1>4. CASE StopRuns
  <2>1. tail' \in Seq({"start", "stop"})
    BY <1>4 DEF StopRuns, LiveHolds
  <2> QED
    BY <1>1, <1>4, <2>1 DEF StopRuns, LiveHolds, ReadyIsCurrent
<1>5. CASE FrameComes
  BY <1>1, <1>5, ForwardsTyped DEF FrameComes, serverVars, clientVars, LiveHolds, ReadyIsCurrent
<1>6. CASE GateMoves
  <2>1. viewGate' \in {"agent", "human", "validating"} /\ viewStream' \in {"off", "page", "desktop"} /\ viewRow.epoch < EpochBound
    BY <1>6 DEF GateMoves, LiveHolds
  <2>2. UNCHANGED <<viewRow, subscribed, wanted, tail, liveOn, viewWaking, inbox, ack, faults>>
    BY <1>6 DEF GateMoves, clientVars
  <2> QED
    BY <1>1, <2>1, <2>2 DEF LiveHolds, ReadyIsCurrent
<1>7. CASE RowFollows
  <2>1. viewRow' = [mode |-> viewGate, epoch |-> viewRow.epoch + 1] /\ viewRow.epoch < EpochBound
        /\ UNCHANGED <<viewGate, subscribed, viewStream, faults>>
    BY <1>7 DEF RowFollows, LiveHolds
  <2>2. viewRow' \in Picture
    BY <2>1, LiveFacts DEF LiveHolds, Picture
  <2>3. inbox' \in [Viewer -> Seq(LiveMessage)]
    <3>1. [t |-> "mode", of |-> viewRow'] \in LiveMessage
      BY <2>2 DEF LiveMessage
    <3> QED
      BY <1>7, <3>1, SendsTyped DEF RowFollows
  <2>4. ack' \in [Viewer -> {"off", "idle", "wait"}]
    BY <1>7 DEF RowFollows
  <2>5. /\ wanted' \in BOOLEAN /\ tail' \in Seq({"start", "stop"}) /\ liveOn' \in BOOLEAN
        /\ viewWaking' \in BOOLEAN
    BY <1>7, ClientTyped DEF RowFollows
  <2> QED
    BY <1>1, <2>1, <2>2, <2>3, <2>4, <2>5 DEF LiveHolds, ReadyIsCurrent
<1> QED
  BY <1>2, <1>3, <1>4, <1>5, <1>6, <1>7

\* One window learns something.
LEMMA OneWindow ==
  ASSUME LiveHolds, NEW v \in Viewer, NEW w \in WindowState, view' = [view EXCEPT ![v] = w],
         w.ready => w.known /\ w.picture = w.now, w.painting # NoPicture => w.known
  PROVE  /\ view' \in [Viewer -> WindowState] /\ ReadyIsCurrent'
         /\ \A u \in Viewer : view'[u].painting # NoPicture => view'[u].known
<1>1. view \in [Viewer -> WindowState]
  BY DEF LiveHolds
<1>2. \A u \in Viewer : view'[u] = IF u = v THEN w ELSE view[u]
  BY <1>1
<1> HIDE DEF WindowState
<1> QED
  BY <1>1, <1>2 DEF LiveHolds, ReadyIsCurrent

LEMMA AcksTyped ==
  ASSUME LiveHolds, NEW v \in Viewer, NEW unread, Acks(v, unread)
  PROVE  ack' \in [Viewer -> {"off", "idle", "wait"}]
BY DEF LiveHolds, Acks

\* A window loses its socket.
LEMMA LiveLeaves ==
  ASSUME LiveHolds, NEW v \in Viewer, Leave(v), UNCHANGED <<serverVars, clientVars, connects, faults>>
  PROVE  LiveHolds'
<1>1. /\ view' \in [Viewer -> WindowState] /\ ReadyIsCurrent'
      /\ \A u \in Viewer : view'[u].painting # NoPicture => view'[u].known
  <2>1. Away \in WindowState /\ Away.ready = FALSE /\ Away.painting = NoPicture
    BY LiveFacts DEF Away
  <2> QED
    BY <2>1, OneWindow DEF Leave
<1>2. inbox' \in [Viewer -> Seq(LiveMessage)] /\ ack' \in [Viewer -> {"off", "idle", "wait"}] /\ ghost' \subseteq Viewer
  <2> HIDE DEF LiveMessage
  <2> QED
    BY DEF Leave, LiveHolds
<1> QED
  BY <1>1, <1>2 DEF serverVars, clientVars, LiveHolds

\* A window comes or goes.
LEMMA LiveWindows ==
  ASSUME LiveHolds, NEW v \in Viewer, ViewConnects(v) \/ ViewDrops(v) \/ GhostCloses(v)
  PROVE  LiveHolds'
<1>1. CASE ViewConnects(v)
  <2>1. [Away EXCEPT !.on = TRUE] \in WindowState
        /\ [Away EXCEPT !.on = TRUE].ready = FALSE /\ [Away EXCEPT !.on = TRUE].painting = NoPicture
    BY LiveFacts DEF Away, WindowState
  <2>2. /\ view' \in [Viewer -> WindowState] /\ ReadyIsCurrent'
        /\ \A u \in Viewer : view'[u].painting # NoPicture => view'[u].known
    BY <1>1, <2>1, OneWindow DEF ViewConnects
  <2>3. inbox' \in [Viewer -> Seq(LiveMessage)]
    <3>1. <<Control>> \in Seq(LiveMessage)
      BY LiveFacts
    <3> HIDE DEF LiveMessage
    <3> QED
      BY <1>1, <3>1 DEF ViewConnects, LiveHolds
  <2>4. ack' \in [Viewer -> {"off", "idle", "wait"}] /\ connects' \in 0..ConnectBound
    BY <1>1, LiveFacts DEF ViewConnects, LiveHolds
  <2>5. /\ wanted' \in BOOLEAN /\ tail' \in Seq({"start", "stop"}) /\ liveOn' \in BOOLEAN
        /\ viewWaking' \in BOOLEAN
    BY <1>1, ClientTyped DEF ViewConnects
  <2> QED
    BY <1>1, <2>2, <2>3, <2>4, <2>5 DEF ViewConnects, serverVars, LiveHolds
<1>2. CASE ViewDrops(v)
  <2>1. Leave(v) /\ UNCHANGED <<serverVars, clientVars, connects, faults>>
    BY <1>2 DEF ViewDrops
  <2> QED
    BY <2>1, LiveLeaves
<1>3. CASE GhostCloses(v)
  <2>1. /\ wanted' \in BOOLEAN /\ tail' \in Seq({"start", "stop"}) /\ liveOn' \in BOOLEAN
        /\ viewWaking' \in BOOLEAN
    BY <1>3, ClientTyped DEF GhostCloses
  <2> QED
    BY <1>3, <2>1 DEF GhostCloses, serverVars, LiveHolds, ReadyIsCurrent
<1> QED
  BY <1>1, <1>2, <1>3

\* A window takes what came, or finishes a frame.
LEMMA LiveReceives ==
  ASSUME LiveHolds, NEW v \in Viewer, Receive(v) \/ Painted(v)
  PROVE  LiveHolds'
<1>0. view[v] \in WindowState /\ inbox[v] \in Seq(LiveMessage)
      /\ (view[v].ready => view[v].known /\ view[v].picture = view[v].now)
      /\ (view[v].painting # NoPicture => view[v].known) /\ view \in [Viewer -> WindowState]
  BY DEF LiveHolds, ReadyIsCurrent
<1>1. CASE Receive(v)
  <2> DEFINE m == Head(inbox[v])  unread == Tail(inbox[v])
  <2>1. m \in LiveMessage /\ unread \in Seq(LiveMessage)
    <3>1. inbox[v] # <<>>
      BY <1>1 DEF Receive
    <3> HIDE DEF LiveMessage
    <3> QED
      BY <1>0, <3>1
  <2>2. UNCHANGED <<serverVars, clientVars, connects, faults>>
    BY <1>1 DEF Receive
  <2>3. [inbox EXCEPT ![v] = unread] \in [Viewer -> Seq(LiveMessage)]
    <3> HIDE DEF LiveMessage, unread
    <3> QED
      BY <2>1 DEF LiveHolds
  <2>4. CASE /\ m.t = "mode" /\ inbox' = [inbox EXCEPT ![v] = unread]
             /\ view' = [view EXCEPT ![v].known = TRUE, ![v].now = m.of,
                           ![v].ready = @ /\ view[v].now = m.of /\ m.of.mode # "validating"]
             /\ UNCHANGED <<ack, ghost>>
    <3> DEFINE w == [view[v] EXCEPT !.known = TRUE, !.now = m.of,
                                    !.ready = @ /\ view[v].now = m.of /\ m.of.mode # "validating"]
    <3>1. view' = [view EXCEPT ![v] = w]
      BY <2>4
    <3>2. w \in WindowState /\ (w.ready => w.known /\ w.picture = w.now) /\ (w.painting # NoPicture => w.known)
      BY <1>0, <2>1 DEF WindowState, LiveMessage
    <3>3. /\ view' \in [Viewer -> WindowState] /\ ReadyIsCurrent'
          /\ \A u \in Viewer : view'[u].painting # NoPicture => view'[u].known
      <4> HIDE DEF w
      <4> QED
        BY <3>1, <3>2, OneWindow
    <3> QED
      BY <2>2, <2>3, <2>4, <3>3 DEF serverVars, clientVars, LiveHolds
  <2>5. CASE /\ m.t = "frame" /\ view[v].painting = NoPicture /\ inbox' = [inbox EXCEPT ![v] = unread]
             /\ IF view[v].known /\ m.of = view[v].now /\ m.of.mode # "validating"
                THEN view' = [view EXCEPT ![v].painting = m.of] /\ UNCHANGED ack
                ELSE Acks(v, unread) /\ UNCHANGED view
             /\ UNCHANGED ghost
    <3>1. CASE view[v].known /\ view' = [view EXCEPT ![v].painting = m.of] /\ UNCHANGED ack
      <4> DEFINE w == [view[v] EXCEPT !.painting = m.of]
      <4>1. view' = [view EXCEPT ![v] = w]
        BY <3>1
      <4>2. w \in WindowState /\ (w.ready => w.known /\ w.picture = w.now) /\ (w.painting # NoPicture => w.known)
        BY <1>0, <2>1, <3>1 DEF WindowState, LiveMessage
      <4>3. /\ view' \in [Viewer -> WindowState] /\ ReadyIsCurrent'
            /\ \A u \in Viewer : view'[u].painting # NoPicture => view'[u].known
        <5> HIDE DEF w
        <5> QED
          BY <4>1, <4>2, OneWindow
      <4> QED
        BY <2>2, <2>3, <2>5, <3>1, <4>3 DEF serverVars, clientVars, LiveHolds
    <3>2. CASE Acks(v, unread) /\ UNCHANGED view
      BY <2>2, <2>3, <2>5, <3>2, AcksTyped DEF serverVars, clientVars, LiveHolds, ReadyIsCurrent
    <3> QED
      BY <2>5, <3>1, <3>2
  <2>6. CASE Leave(v)
    BY <2>2, <2>6, LiveLeaves
  <2> QED
    BY <1>1, <2>4, <2>5, <2>6 DEF Receive
<1>2. CASE Painted(v)
  <2>1. UNCHANGED <<serverVars, clientVars, inbox, ghost, connects, faults>> /\ view[v].known
    BY <1>0, <1>2 DEF Painted
  <2>2. ack' \in [Viewer -> {"off", "idle", "wait"}]
    BY <1>2, AcksTyped DEF Painted, LiveHolds
  <2>3. \E w \in WindowState : /\ view' = [view EXCEPT ![v] = w]
                               /\ (w.ready => w.known /\ w.picture = w.now) /\ (w.painting # NoPicture => w.known)
    <3>1. CASE view[v].painting = view[v].now
      <4> DEFINE w == [view[v] EXCEPT !.painting = NoPicture, !.ready = TRUE, !.picture = view[v].painting]
      <4>1. view' = [view EXCEPT ![v] = w]
        BY <1>2, <3>1 DEF Painted
      <4>2. w \in WindowState /\ (w.ready => w.known /\ w.picture = w.now) /\ (w.painting # NoPicture => w.known)
        BY <1>0, <2>1, <3>1, LiveFacts DEF WindowState
      <4> HIDE DEF w
      <4> QED
        BY <4>1, <4>2
    <3>2. CASE view[v].painting # view[v].now
      <4> DEFINE w == [view[v] EXCEPT !.painting = NoPicture]
      <4>1. view' = [view EXCEPT ![v] = w]
        BY <1>2, <3>2 DEF Painted
      <4>2. w \in WindowState /\ (w.ready => w.known /\ w.picture = w.now) /\ (w.painting # NoPicture => w.known)
        BY <1>0, LiveFacts DEF WindowState
      <4> HIDE DEF w
      <4> QED
        BY <4>1, <4>2
    <3> QED
      BY <3>1, <3>2
  <2>4. /\ view' \in [Viewer -> WindowState] /\ ReadyIsCurrent'
        /\ \A u \in Viewer : view'[u].painting # NoPicture => view'[u].known
    BY <2>3, OneWindow
  <2> QED
    BY <2>1, <2>2, <2>4 DEF serverVars, clientVars, LiveHolds
<1> QED
  BY <1>1, <1>2

LEMMA LiveBegins == LiveInit => LiveHolds
<1> SUFFICES ASSUME LiveInit PROVE LiveHolds
  OBVIOUS
<1>1. EpochBound \in Nat /\ ConnectBound \in Nat /\ FaultBound \in Nat /\ EpochBound >= 1
  BY LiveAssumption
<1>2. NoPicture \in Picture /\ viewRow \in Picture
  BY <1>1 DEF LiveInit, NoPicture, Picture
<1>3. Away \in WindowState /\ Away.ready = FALSE /\ Away.painting = NoPicture
  BY <1>2 DEF Away, WindowState
<1>4. inbox \in [Viewer -> Seq(LiveMessage)] /\ tail \in Seq({"start", "stop"})
  BY DEF LiveInit
<1>5. view \in [Viewer -> WindowState] /\ ReadyIsCurrent /\ \A v \in Viewer : view[v].painting = NoPicture
  <2>1. view = [v \in Viewer |-> Away]
    BY DEF LiveInit
  <2> HIDE DEF WindowState
  <2> QED
    BY <1>3, <2>1 DEF ReadyIsCurrent
<1>6. /\ ghost \subseteq Viewer /\ ack \in [Viewer -> {"off", "idle", "wait"}]
      /\ connects \in 0..ConnectBound /\ faults \in 0..FaultBound
  BY <1>1 DEF LiveInit
<1>7. viewRow.mode = viewGate /\ viewGate \in {"agent", "human", "validating"}
  BY DEF LiveInit
<1> QED
  BY <1>2, <1>4, <1>5, <1>6, <1>7 DEF LiveInit, LiveHolds

LEMMA LiveAlways == LiveSpec => []LiveHolds
<1>1. LiveHolds /\ [LiveNext]_liveVars => LiveHolds'
  <2> SUFFICES ASSUME LiveHolds, [LiveNext]_liveVars PROVE LiveHolds'
    OBVIOUS
  <2>1. CASE UNCHANGED liveVars
    BY <2>1 DEF liveVars, LiveHolds, ReadyIsCurrent
  <2> QED
    BY <2>1, LiveServes, LiveWindows, LiveReceives DEF LiveNext
<1> QED
  BY <1>1, LiveBegins, PTL DEF LiveSpec

LEMMA LiveIsSafe == ASSUME LiveHolds PROVE LiveTypeOK /\ ReadyIsCurrent
<1>1. \A i \in DOMAIN tail : tail[i] \in {"start", "stop"}
  BY DEF LiveHolds
<1> QED
  BY <1>1 DEF LiveHolds, LiveTypeOK, WindowState

-----------------------------------------------------------------------------
(* The task a page shows *)

TaskStatus == {"running", "paused", "completed", "cancelled"}
HoldOf == [id : Nat, state : {"agent", "asked", "human", "validating", "paused"}, mine : BOOLEAN, of : PageTask]
Busy == {<<"no">>} \cup ({"take", "read"} \X PageTask) \cup ({"return", "read"} \X HoldOf)
PageState == [at : PageTask, detail : {"none"} \cup TaskStatus, of : PageTask \cup {"none"},
              takeover : HoldOf \cup {NoHold}, acquired : Nat, screen : {"frame", "live", "outcome"}, busy : Busy]
PanelState == [of : PageTask \cup {"none"}, driver : BOOLEAN, mode : {"none", "human", "validating", "agent"},
               closed : BOOLEAN,
               phase : {"connecting", "live", "driving", "observing", "paused", "offline", "ended"}]
PageRead == [kind : {"mount", "load", "mounted", "loaded", "alerts", "control"}, rev : Nat, of : PageTask,
             answered : BOOLEAN, status : {"none"} \cup TaskStatus, hold : HoldOf \cup {NoHold}]
PageEvent == [of : PageTask, kind : {"task", "hold"}]

WorldTyped ==
    /\ pageStatus \in [PageTask -> TaskStatus] /\ hold \in [PageTask -> HoldOf]
    /\ up \in BOOLEAN /\ events \in Seq(PageEvent) /\ moves \in Nat /\ switches \in Nat /\ losses \in Nat
ReadsTyped == reads \subseteq PageRead /\ rev \in Nat
ScreenTyped == page \in PageState /\ panel \in PanelState
\* The newest load is of the task the page is at.
NewestIsHere == \A r \in reads : Isload(r) => r.rev <= rev /\ (r.rev = rev => r.of = page.at)
PanelIsHere == panel.of \in {"none", page.at} /\ ShowsItsTask
PageHolds == WorldTyped /\ ReadsTyped /\ ScreenTyped /\ NewestIsHere /\ PanelIsHere

LEMMA PageFacts ==
         /\ PageTask # {} /\ MoveBound \in Nat /\ SwitchBound \in Nat /\ LossBound \in Nat
         /\ NoPanel \in PanelState /\ \A h \in HoldOf \cup {NoHold} : Active(h) => h \in HoldOf
<1>1. NoPanel \in PanelState
  BY DEF NoPanel, PanelState
<1>2. ~Active(NoHold)
  BY DEF NoHold, Active
<1> QED
  BY <1>1, <1>2, PageAssumption

LEMMA AsksTyped ==
  ASSUME page \in PageState, NEW kind \in {"mount", "load", "mounted", "loaded", "alerts", "control"}, NEW r \in Nat
  PROVE  /\ Asks(kind, r) \in PageRead /\ Asks(kind, r).kind = kind /\ Asks(kind, r).rev = r
         /\ Asks(kind, r).of = page.at
BY DEF Asks, PageRead, PageState

LEMMA TellsTyped ==
  ASSUME WorldTyped, NEW t \in PageTask, NEW kind \in {"task", "hold"}, Tells(t, kind)
  PROVE  events' \in Seq(PageEvent)
<1>1. [of |-> t, kind |-> kind] \in PageEvent
  BY DEF PageEvent
<1> HIDE DEF PageEvent
<1> QED
  BY <1>1 DEF Tells, WorldTyped

LEMMA BecomesTyped ==
  ASSUME WorldTyped, NEW t \in PageTask, NEW h \in HoldOf, HoldBecomes(t, h)
  PROVE  hold' \in [PageTask -> HoldOf]
<1> HIDE DEF HoldOf
<1> QED
  BY DEF WorldTyped, HoldBecomes

\* The daemon's side of it.
LEMMA PageWorld ==
  ASSUME PageHolds, PageNext
  PROVE  WorldTyped'
<1>0. WorldTyped /\ page \in PageState /\ page.at \in PageTask /\ page.busy \in Busy
      /\ page.takeover \in HoldOf \cup {NoHold} /\ MoveBound \in Nat /\ moves \in Nat /\ switches \in Nat /\ losses \in Nat
  BY PageFacts DEF PageHolds, ScreenTyped, PageState, WorldTyped
<1>1. ASSUME NEW t \in PageTask, TaskMoves(t) PROVE WorldTyped'
  <2>1. events' \in Seq(PageEvent)
    BY <1>0, <1>1, TellsTyped DEF TaskMoves
  <2> QED
    BY <1>0, <1>1, <2>1 DEF TaskMoves, WorldTyped, TaskStatus
<1>2. ASSUME NEW t \in PageTask, HoldMoves(t) PROVE WorldTyped'
  <2>1. events' \in Seq(PageEvent)
    BY <1>0, <1>2, TellsTyped DEF HoldMoves
  <2>2. \E h \in HoldOf : HoldBecomes(t, h)
    <3> DEFINE h == hold[t]
    <3>1. h \in HoldOf
      BY <1>0 DEF WorldTyped
    <3>2. /\ [h EXCEPT !.id = moves + 1, !.state = "asked", !.mine = FALSE] \in HoldOf
          /\ [h EXCEPT !.state = "human", !.mine = FALSE] \in HoldOf
          /\ [h EXCEPT !.state = "agent"] \in HoldOf /\ [h EXCEPT !.state = "paused"] \in HoldOf
      <4>1. moves + 1 \in Nat
        BY <1>0
      <4> HIDE DEF h
      <4> QED
        BY <3>1, <4>1 DEF HoldOf
    <3>3. \/ HoldBecomes(t, [h EXCEPT !.id = moves + 1, !.state = "asked", !.mine = FALSE])
          \/ HoldBecomes(t, [h EXCEPT !.state = "human", !.mine = FALSE])
          \/ HoldBecomes(t, [h EXCEPT !.state = "agent"]) \/ HoldBecomes(t, [h EXCEPT !.state = "paused"])
      BY <1>2 DEF HoldMoves
    <3> HIDE DEF HoldOf, h
    <3> QED
      BY <3>2, <3>3
  <2> QED
    BY <1>0, <1>2, <2>1, <2>2, BecomesTyped DEF HoldMoves, WorldTyped
<1>3. CASE TakeAnswered
  <2> DEFINE t == page.busy[2]
  <2>1. t \in PageTask
    BY <1>0, <1>3 DEF TakeAnswered, Busy
  <2>2. hold[t] \in HoldOf
    BY <1>0, <2>1 DEF WorldTyped
  <2>3. CASE \E id : /\ id = (IF Active(hold[t]) THEN hold[t].id ELSE MoveBound + switches)
                     /\ HoldBecomes(t, [id |-> id, state |-> "human", mine |-> TRUE, of |-> t]) /\ Tells(t, "hold")
    <3>1. \E h \in HoldOf : HoldBecomes(t, h)
      <4>1. \A id \in Nat : [id |-> id, state |-> "human", mine |-> TRUE, of |-> t] \in HoldOf
        BY <2>1 DEF HoldOf
      <4>2. (IF Active(hold[t]) THEN hold[t].id ELSE MoveBound + switches) \in Nat
        BY <1>0, <2>2 DEF HoldOf
      <4> HIDE DEF HoldOf, t
      <4> QED
        BY <2>3, <4>1, <4>2
    <3>2. hold' \in [PageTask -> HoldOf] /\ events' \in Seq(PageEvent)
      <4> HIDE DEF t
      <4> QED
        BY <1>0, <2>1, <2>3, <3>1, BecomesTyped, TellsTyped
    <3> QED
      BY <1>0, <1>3, <3>2 DEF TakeAnswered, WorldTyped
  <2>4. CASE UNCHANGED <<hold, events>>
    BY <1>0, <1>3, <2>4 DEF TakeAnswered, WorldTyped
  <2> QED
    BY <1>3, <2>3, <2>4 DEF TakeAnswered
<1>4. CASE ReturnAnswered
  <2> DEFINE t == page.busy[2].of
  <2>1. t \in PageTask
    BY <1>0, <1>4 DEF ReturnAnswered, Busy, HoldOf
  <2>2. hold[t] \in HoldOf
    BY <1>0, <2>1 DEF WorldTyped
  <2>3. CASE HoldBecomes(t, [hold[t] EXCEPT !.state = "agent"]) /\ Tells(t, "hold")
    <3>1. \E h \in HoldOf : HoldBecomes(t, h)
      BY <2>2, <2>3 DEF HoldOf
    <3>2. hold' \in [PageTask -> HoldOf] /\ events' \in Seq(PageEvent)
      <4> HIDE DEF t
      <4> QED
        BY <1>0, <2>1, <2>3, <3>1, BecomesTyped, TellsTyped
    <3> QED
      BY <1>0, <1>4, <3>2 DEF ReturnAnswered, WorldTyped
  <2>4. CASE UNCHANGED <<hold, events>>
    BY <1>0, <1>4, <2>4 DEF ReturnAnswered, WorldTyped
  <2> QED
    BY <1>4, <2>3, <2>4 DEF ReturnAnswered
<1>5. CASE Resumes \/ Stops
  <2>1. events' \in Seq(PageEvent)
    BY <1>0, <1>5, TellsTyped DEF Resumes, Stops
  <2> QED
    BY <1>0, <1>5, <2>1 DEF Resumes, Stops, WorldTyped, TaskStatus
<1>6. CASE EventArrives
  <2>1. events' \in Seq(PageEvent)
    <3>1. events # <<>> /\ events' = Tail(events) /\ events \in Seq(PageEvent)
      BY <1>0, <1>6 DEF EventArrives, WorldTyped
    <3> HIDE DEF PageEvent
    <3> QED
      BY <3>1
  <2> QED
    BY <1>0, <1>6, <2>1 DEF EventArrives, pageDaemonVars, WorldTyped
<1>7. CASE SocketLost \/ SocketBack \/ TriesAgain \/ TakeControl \/ ReturnControl \/ ModeArrives
           \/ \E t \in PageTask : PageGoes(t)
  <2>1. UNCHANGED pageDaemonVars
    BY <1>7 DEF SocketLost, SocketBack, TriesAgain, TakeControl, ReturnControl, ModeArrives, PageGoes
  <2>2. up' \in BOOLEAN /\ (events' = events \/ events' = <<>>)
    BY <1>0, <1>7 DEF SocketLost, SocketBack, TriesAgain, TakeControl, ReturnControl, ModeArrives,
         PageGoes, WorldTyped
  <2>3. switches' \in {switches, switches + 1} /\ losses' \in {losses, losses + 1}
    BY <1>7 DEF SocketLost, SocketBack, TriesAgain, TakeControl, ReturnControl, ModeArrives, PageGoes
  <2>4. events \in Seq(PageEvent) /\ <<>> \in Seq(PageEvent)
    BY <1>0 DEF WorldTyped
  <2>5. switches' \in Nat /\ losses' \in Nat
    BY <1>0, <2>3
  <2>6. events' \in Seq(PageEvent)
    BY <2>2, <2>4
  <2> HIDE DEF PageEvent, HoldOf
  <2> QED
    BY <1>0, <2>1, <2>2, <2>5, <2>6 DEF pageDaemonVars, WorldTyped
<1>8. ASSUME NEW r \in reads, Answers(r) \/ LoadArrives(r) \/ AlertsArrive(r) \/ ReadFails(r) PROVE WorldTyped'
  <2>1. up' \in BOOLEAN /\ losses' \in Nat /\ UNCHANGED <<pageStatus, hold, events, moves, switches>>
    <3>1. up \in BOOLEAN
      BY <1>0 DEF WorldTyped
    <3>2. up' \in BOOLEAN
      BY <1>8, <3>1 DEF Answers, LoadArrives, AlertsArrive, ReadFails
    <3>3. losses' \in {losses, losses + 1}
      BY <1>8 DEF Answers, LoadArrives, AlertsArrive, ReadFails
    <3>4. UNCHANGED <<pageDaemonVars, events, switches>>
      BY <1>8 DEF Answers, LoadArrives, AlertsArrive, ReadFails
    <3> QED
      BY <1>0, <3>2, <3>3, <3>4 DEF pageDaemonVars
  <2> QED
    BY <1>0, <2>1 DEF WorldTyped
<1> QED
  BY <1>1, <1>2, <1>3, <1>4, <1>5, <1>6, <1>7, <1>8 DEF PageNext

\* What is drawn is the same task's.
Stays == /\ page' \in PageState /\ panel' \in PanelState /\ panel'.of = panel.of
         /\ page'.at = page.at /\ page'.of = page.of /\ page'.detail = page.detail

LEMMA DrawnTyped ==
  ASSUME NEW p \in PageState, NEW n \in PanelState, NEW open \in BOOLEAN
  PROVE  PanelDrawn(p, n, open) \in PanelState /\ PanelDrawn(p, n, open).of = n.of
<1>1. Driving(p, open) \in BOOLEAN
  BY DEF Driving
<1>2. ASSUME NEW d \in BOOLEAN PROVE WithDriver(n, d) \in PanelState /\ WithDriver(n, d).of = n.of
  BY DEF WithDriver, PanelState
<1> DEFINE m == WithDriver(n, Driving(p, open))
<1>3. m \in PanelState /\ m.of = n.of
  BY <1>1, <1>2
<1> HIDE DEF m
<1>4. \E ph \in {"connecting", "live", "driving", "observing", "paused", "offline", "ended"} :
        [m EXCEPT !.phase = IF Driving(p, open) THEN "driving" ELSE IF Observing(p, open) THEN "observing"
                            ELSE IF Active(p.takeover) THEN "paused"
                            ELSE IF @ \in {"paused", "driving", "observing"} THEN "live" ELSE @] = [m EXCEPT !.phase = ph]
  BY <1>3 DEF PanelState
<1>5. \A ph \in {"connecting", "live", "driving", "observing", "paused", "offline", "ended"} :
        [m EXCEPT !.phase = ph] \in PanelState /\ [m EXCEPT !.phase = ph].of = n.of
  BY <1>3 DEF PanelState
<1> QED
  BY <1>4, <1>5 DEF PanelDrawn, m

LEMMA RendersTyped ==
  ASSUME NEW p \in PageState, NEW n \in PanelState, Renders(p, n)
  PROVE  /\ page' \in PageState /\ panel' \in PanelState /\ panel'.of = n.of
         /\ page'.at = p.at /\ page'.of = p.of /\ page'.detail = p.detail
<1>1. CASE page' = p /\ panel' = n
  BY <1>1
<1>2. CASE page' = OutcomeDrawn(p) /\ panel' = ReceiptDrawn(n)
  BY <1>2 DEF OutcomeDrawn, ReceiptDrawn, PageState, PanelState
<1>3. ASSUME NEW open \in BOOLEAN, page' = [p EXCEPT !.screen = IF @ = "outcome" THEN @ ELSE "live"],
             panel' = IF n.of = "none" THEN n ELSE PanelDrawn(p, n, open)
      PROVE  /\ page' \in PageState /\ panel' \in PanelState /\ panel'.of = n.of
             /\ page'.at = p.at /\ page'.of = p.of /\ page'.detail = p.detail
  <2>1. page' \in PageState /\ page'.at = p.at /\ page'.of = p.of /\ page'.detail = p.detail
    BY <1>3 DEF PageState
  <2> QED
    BY <1>3, <2>1, DrawnTyped
<1> QED
  BY <1>1, <1>2, <1>3 DEF Renders

LEMMA StaysHere ==
  ASSUME PageHolds, Stays
  PROVE  ScreenTyped' /\ PanelIsHere'
BY DEF PageHolds, Stays, ScreenTyped, PanelIsHere, ShowsItsTask

\* More may be asked, and the page stays where it is.
LEMMA ReadsStay ==
  ASSUME PageHolds, page'.at = page.at, rev' \in Nat, rev' >= rev,
         \A r \in reads' : \/ r \in reads
                           \/ r \in PageRead /\ (Isload(r) => r.rev <= rev' /\ r.of = page.at)
  PROVE  ReadsTyped' /\ NewestIsHere'
<1>1. reads' \subseteq PageRead
  BY DEF PageHolds, ReadsTyped
<1>2. ASSUME NEW r \in reads', Isload(r) PROVE r.rev <= rev' /\ (r.rev = rev' => r.of = page.at)
  <2>1. r.rev \in Nat /\ rev \in Nat
    BY <1>1 DEF PageRead, PageHolds, ReadsTyped
  <2>2. CASE r \in reads
    BY <1>2, <2>1, <2>2 DEF PageHolds, NewestIsHere
  <2> QED
    BY <1>2, <2>2
<1> QED
  BY <1>1, <1>2 DEF ReadsTyped, NewestIsHere, Isload

\* The task's, the daemon's and the wire's steps.
LEMMA PageListens ==
  ASSUME PageHolds,
         \/ \E t \in PageTask : TaskMoves(t) \/ HoldMoves(t)
         \/ \E r \in reads : Answers(r) \/ ReadFails(r)
         \/ TriesAgain \/ EventArrives \/ SocketLost \/ SocketBack \/ Stops
  PROVE  ScreenTyped' /\ PanelIsHere' /\ ReadsTyped' /\ NewestIsHere'
<1>1. UNCHANGED <<page, panel>>
  BY DEF TaskMoves, HoldMoves, Answers, ReadFails, TriesAgain, EventArrives, SocketLost, SocketBack,
       Stops
<1>2. ScreenTyped' /\ PanelIsHere'
  BY <1>1 DEF PageHolds, ScreenTyped, PanelIsHere, ShowsItsTask
<1>3. rev \in Nat /\ page \in PageState /\ reads \subseteq PageRead /\ page.at \in PageTask
  BY DEF PageHolds, ReadsTyped, ScreenTyped, PageState
<1>4. CASE UNCHANGED <<reads, rev>>
  <2>1. page'.at = page.at /\ rev' \in Nat /\ rev' >= rev
    BY <1>1, <1>3, <1>4
  <2>2. \A r \in reads' : \/ r \in reads
                          \/ r \in PageRead /\ (Isload(r) => r.rev <= rev' /\ r.of = page.at)
    BY <1>4
  <2> QED
    BY <1>2, <2>1, <2>2, ReadsStay
<1>5. CASE Loads(rev + 1)
  <2>1. rev' = rev + 1 /\ reads' = reads \cup {Asks("load", rev + 1)}
    BY <1>5 DEF Loads
  <2>2. page'.at = page.at /\ rev' \in Nat /\ rev' >= rev
    BY <1>1, <1>3, <2>1
  <2>3. /\ Asks("load", rev + 1) \in PageRead /\ Asks("load", rev + 1).rev = rev + 1
        /\ Asks("load", rev + 1).of = page.at
    <3>1. rev + 1 \in Nat
      BY <1>3
    <3> QED
      BY <1>3, <3>1, AsksTyped
  <2>4. \A r \in reads' : \/ r \in reads
                          \/ r \in PageRead /\ (Isload(r) => r.rev <= rev' /\ r.of = page.at)
    BY <1>3, <2>1, <2>3
  <2> QED
    BY <1>2, <2>2, <2>4, ReadsStay
<1>6. CASE UNCHANGED rev /\ reads' = reads \cup {Asks("alerts", 0)}
  <2>1. ~Isload(Asks("alerts", 0)) /\ Asks("alerts", 0) \in PageRead
    BY <1>3, AsksTyped DEF Isload
  <2>2. page'.at = page.at /\ rev' \in Nat /\ rev' >= rev
    BY <1>1, <1>3, <1>6
  <2>3. \A r \in reads' : \/ r \in reads
                          \/ r \in PageRead /\ (Isload(r) => r.rev <= rev' /\ r.of = page.at)
    BY <1>6, <2>1
  <2> QED
    BY <1>2, <2>2, <2>3, ReadsStay
<1>7. ASSUME NEW r \in reads, Answers(r) PROVE ReadsTyped' /\ NewestIsHere'
  <2> DEFINE q == [r EXCEPT !.answered = TRUE, !.status = pageStatus[r.of], !.hold = hold[r.of]]
  <2>1. r \in PageRead /\ r.of \in PageTask /\ pageStatus[r.of] \in TaskStatus /\ hold[r.of] \in HoldOf
    BY <1>3 DEF PageRead, PageHolds, WorldTyped
  <2>2. q \in PageRead /\ q.kind = r.kind /\ q.rev = r.rev /\ q.of = r.of
    <3> HIDE DEF HoldOf, TaskStatus
    <3> QED
      BY <2>1 DEF PageRead
  <2>3. rev' = rev /\ reads' = (reads \ {r}) \cup {q}
    BY <1>7 DEF Answers
  <2>4. Isload(r) => r.rev <= rev /\ (r.rev = rev => r.of = page.at)
    BY DEF PageHolds, NewestIsHere
  <2> HIDE DEF q
  <2>5. ReadsTyped'
    BY <1>3, <2>2, <2>3 DEF ReadsTyped
  <2>6. NewestIsHere'
    BY <1>1, <2>2, <2>3, <2>4 DEF PageHolds, NewestIsHere, Isload
  <2> QED
    BY <2>5, <2>6
<1>8. ASSUME NEW r \in reads, ReadFails(r) PROVE ReadsTyped' /\ NewestIsHere'
  BY <1>1, <1>3, <1>8, ReadsStay DEF ReadFails
<1> QED
  BY <1>2, <1>4, <1>5, <1>6, <1>7, <1>8 DEF TaskMoves, HoldMoves, TriesAgain, EventArrives, SocketLost,
       SocketBack, Stops

\* A load of the task the page is at makes it the page's; a late one is dropped.
LEMMA PageLoads ==
  ASSUME PageHolds, NEW r \in reads, LoadArrives(r)
  PROVE  ScreenTyped' /\ PanelIsHere' /\ ReadsTyped' /\ NewestIsHere'
<1>1. rev \in Nat /\ page \in PageState /\ panel \in PanelState /\ r \in PageRead /\ r.rev \in Nat
      /\ r.status \in {"none"} \cup TaskStatus /\ r.of \in PageTask /\ page.at \in PageTask
  BY DEF PageHolds, ReadsTyped, ScreenTyped, PageState, PageRead
<1>2. Isload(r) /\ (r.rev = rev => r.of = page.at) /\ rev' = rev
  BY DEF PageHolds, NewestIsHere, LoadArrives
<1>3. CASE r.rev = rev
  <2> DEFINE k == IF r.kind = "mount" THEN "mounted" ELSE "loaded"
  <2>1. /\ page' = [page EXCEPT !.detail = r.status, !.of = r.of]
        /\ panel' = IF panel.of = "none" THEN [NoPanel EXCEPT !.of = r.of] ELSE panel
        /\ reads' = (reads \ {r}) \cup {Asks(k, r.rev)}
    BY <1>3 DEF LoadArrives
  <2>2. page' \in PageState /\ page'.at = page.at /\ page'.of = page.at
    <3> HIDE DEF HoldOf, TaskStatus, Busy
    <3> QED
      BY <1>1, <1>2, <1>3, <2>1 DEF PageState
  <2>3. panel' \in PanelState /\ panel'.of = page.at
    <3>1. [NoPanel EXCEPT !.of = r.of] \in PanelState /\ [NoPanel EXCEPT !.of = r.of].of = r.of
      BY <1>1 DEF NoPanel, PanelState
    <3>2. panel.of \in {"none", page.at}
      BY DEF PageHolds, PanelIsHere
    <3> QED
      BY <1>1, <1>2, <1>3, <2>1, <3>1, <3>2
  <2>4. Asks(k, r.rev) \in PageRead /\ ~Isload(Asks(k, r.rev))
    BY <1>1, AsksTyped DEF Isload
  <2>5. ReadsTyped' /\ NewestIsHere'
    <3> HIDE DEF k
    <3> QED
      BY <1>1, <1>2, <2>1, <2>2, <2>4, ReadsStay
  <2> QED
    BY <2>2, <2>3, <2>5 DEF ScreenTyped, PanelIsHere, ShowsItsTask
<1>4. CASE r.rev # rev
  <2>1. UNCHANGED <<page, panel>> /\ reads' = reads \ {r}
    BY <1>4 DEF LoadArrives
  <2>2. ScreenTyped' /\ PanelIsHere'
    BY <2>1 DEF PageHolds, ScreenTyped, PanelIsHere, ShowsItsTask
  <2> QED
    BY <1>1, <1>2, <2>1, <2>2, ReadsStay
<1> QED
  BY <1>3, <1>4

\* Alerts change the hold the page knows of, and nothing about where it is.
LEMMA PageAlerts ==
  ASSUME PageHolds, NEW r \in reads, AlertsArrive(r)
  PROVE  ScreenTyped' /\ PanelIsHere' /\ ReadsTyped' /\ NewestIsHere'
<1>1. rev \in Nat /\ page \in PageState /\ panel \in PanelState /\ r \in PageRead
      /\ r.hold \in HoldOf \cup {NoHold}
  BY DEF PageHolds, ReadsTyped, ScreenTyped, PageState, PageRead
<1>2. rev' = rev /\ reads' = reads \ {r}
  BY DEF AlertsArrive
<1> DEFINE p == [Alerted(r) EXCEPT !.busy = IF r.kind = "control" THEN <<"no">> ELSE @]
<1>3. p \in PageState /\ p.at = page.at /\ p.of = page.of /\ p.detail = page.detail
  <2>1. Alerted(r) \in PageState /\ Alerted(r).at = page.at /\ Alerted(r).of = page.of /\ Alerted(r).detail = page.detail
    <3> HIDE DEF HoldOf, TaskStatus, Busy, NoHold
    <3> QED
      BY <1>1 DEF Alerted, PageState
  <2>2. <<"no">> \in Busy
    BY DEF Busy
  <2> HIDE DEF HoldOf, TaskStatus, Busy, NoHold, Alerted
  <2> QED
    BY <2>1, <2>2 DEF PageState
<1>4. Stays
  <2> HIDE DEF p
  <2>1. CASE page' = p /\ UNCHANGED panel
    BY <1>1, <1>3, <2>1 DEF Stays
  <2>2. CASE Renders(p, panel)
    BY <1>1, <1>3, <2>2, RendersTyped DEF Stays
  <2> QED
    BY <2>1, <2>2 DEF AlertsArrive, p
<1> QED
  BY <1>1, <1>2, <1>4, StaysHere, ReadsStay DEF Stays

\* The page goes elsewhere: it knows of nothing, and what it asks for is newer than all it asked before.
LEMMA PageResets ==
  ASSUME PageHolds, NEW t \in PageTask, PageReset(t)
  PROVE  ScreenTyped' /\ PanelIsHere' /\ ReadsTyped' /\ NewestIsHere'
<1>1. rev \in Nat /\ page \in PageState /\ page.acquired \in Nat /\ page.busy \in Busy /\ reads \subseteq PageRead
  BY DEF PageHolds, ReadsTyped, ScreenTyped, PageState
<1>2. page' = [FrameOf(t, page.acquired) EXCEPT !.busy = page.busy] /\ panel' = NoPanel /\ rev' = rev + 2
      /\ reads' = reads \cup {[Asks("load", rev + 2) EXCEPT !.of = t]}
  BY DEF PageReset
<1>3. page' \in PageState /\ page'.at = t /\ page'.detail = "none"
  <2> HIDE DEF HoldOf, TaskStatus, Busy, NoHold
  <2> QED
    BY <1>1, <1>2 DEF FrameOf, PageState
<1>4. panel' \in PanelState /\ panel'.of = "none"
  BY <1>2, PageFacts DEF NoPanel
<1>5. [Asks("load", rev + 2) EXCEPT !.of = t] \in PageRead /\ [Asks("load", rev + 2) EXCEPT !.of = t].of = t
      /\ [Asks("load", rev + 2) EXCEPT !.of = t].rev = rev + 2
  <2>1. Asks("load", rev + 2) \in PageRead /\ Asks("load", rev + 2).rev = rev + 2
    BY <1>1, AsksTyped
  <2> HIDE DEF HoldOf, TaskStatus, NoHold, Asks
  <2> QED
    BY <2>1 DEF PageRead
<1>6. ReadsTyped'
  BY <1>1, <1>2, <1>5 DEF ReadsTyped
<1>7. NewestIsHere'
  <2> SUFFICES ASSUME NEW r \in reads', Isload(r) PROVE r.rev <= rev' /\ (r.rev = rev' => r.of = page'.at)
    BY DEF NewestIsHere, Isload
  <2>1. CASE r \in reads
    <3>1. r.rev \in Nat /\ r.rev <= rev
      BY <1>1, <2>1 DEF PageHolds, NewestIsHere, PageRead
    <3> QED
      BY <1>1, <1>2, <3>1
  <2>2. CASE r = [Asks("load", rev + 2) EXCEPT !.of = t]
    BY <1>1, <1>2, <1>3, <1>5, <2>2
  <2> QED
    BY <1>2, <2>1, <2>2
<1> QED
  BY <1>3, <1>4, <1>6, <1>7 DEF ScreenTyped, PanelIsHere, ShowsItsTask

\* The person drives, hands back, or is told who does.
LEMMA PagePerson ==
  ASSUME PageHolds, TakeControl \/ TakeAnswered \/ ReturnControl \/ ReturnAnswered \/ ModeArrives
  PROVE  ScreenTyped' /\ PanelIsHere' /\ ReadsTyped' /\ NewestIsHere'
<1>1. rev \in Nat /\ page \in PageState /\ panel \in PanelState /\ page.at \in PageTask /\ page.busy \in Busy
      /\ page.takeover \in HoldOf \cup {NoHold} /\ MoveBound \in Nat /\ switches \in Nat
      /\ hold \in [PageTask -> HoldOf]
  BY PageFacts DEF PageHolds, ReadsTyped, ScreenTyped, PageState, WorldTyped
<1>2. rev' = rev /\ (reads' = reads \/ reads' = reads \cup {Asks("control", 0)})
  BY DEF TakeControl, TakeAnswered, ReturnControl, ReturnAnswered, ModeArrives
<1>3. ASSUME NEW b \in Busy
      PROVE  /\ [page EXCEPT !.busy = b] \in PageState /\ [page EXCEPT !.busy = b].at = page.at
             /\ [page EXCEPT !.busy = b].of = page.of /\ [page EXCEPT !.busy = b].detail = page.detail
  <2> HIDE DEF HoldOf, TaskStatus, Busy, NoHold
  <2> QED
    BY <1>1 DEF PageState
<1>4. \A ph \in {"live", "driving"} : [panel EXCEPT !.phase = ph] \in PanelState /\ [panel EXCEPT !.phase = ph].of = panel.of
  BY <1>1 DEF PanelState
<1>5. Stays
  <2>1. CASE TakeControl
    <3>1. <<"take", page.at>> \in Busy
      BY <1>1 DEF Busy
    <3> QED
      BY <1>3, <1>4, <2>1, <3>1 DEF TakeControl, Stays
  <2>2. CASE ReturnControl
    <3>1. <<"return", page.takeover>> \in Busy
      BY <1>1, <2>2, PageFacts DEF ReturnControl, Busy
    <3> QED
      BY <1>1, <1>3, <2>2, <3>1 DEF ReturnControl, Stays
  <2>3. CASE TakeAnswered
    <3> DEFINE t == page.busy[2]
    <3>1. t \in PageTask /\ <<"read", t>> \in Busy /\ <<"no">> \in Busy
      BY <1>1, <2>3 DEF TakeAnswered, Busy
    <3>2. (IF Active(hold[t]) THEN hold[t].id ELSE MoveBound + switches) \in Nat
      BY <1>1, <3>1 DEF HoldOf
    <3>3. WithDriver(panel, TRUE) \in PanelState /\ WithDriver(panel, TRUE).of = panel.of
      BY <1>1 DEF WithDriver, PanelState
    <3> DEFINE id == IF Active(hold[t]) THEN hold[t].id ELSE MoveBound + switches
    <3>4. \/ /\ page' = [page EXCEPT !.acquired = id, !.busy = <<"read", t>>]
             /\ panel' = IF panel.of = "none" THEN panel ELSE WithDriver(panel, TRUE)
          \/ page' = [page EXCEPT !.busy = <<"read", t>>] /\ UNCHANGED panel
          \/ page' = [page EXCEPT !.busy = <<"no">>] /\ panel' = [panel EXCEPT !.phase = "live"]
      BY <2>3 DEF TakeAnswered
    <3>5. panel' \in PanelState /\ panel'.of = panel.of
      <4> HIDE DEF PanelState, id, t, WithDriver
      <4> QED
        BY <1>1, <1>4, <3>3, <3>4
    <3>6. page' \in PageState /\ page'.at = page.at /\ page'.of = page.of /\ page'.detail = page.detail
      <4>1. id \in Nat
        BY <3>2
      <4> HIDE DEF HoldOf, TaskStatus, Busy, NoHold, t, id
      <4>2. CASE page' = [page EXCEPT !.acquired = id, !.busy = <<"read", t>>]
        BY <1>1, <3>1, <4>1, <4>2 DEF PageState
      <4>3. ASSUME NEW b \in Busy, page' = [page EXCEPT !.busy = b]
            PROVE  page' \in PageState /\ page'.at = page.at /\ page'.of = page.of /\ page'.detail = page.detail
        BY <1>3, <4>3
      <4> QED
        BY <3>1, <3>4, <4>2, <4>3
    <3> QED
      BY <3>5, <3>6 DEF Stays
  <2>4. CASE ReturnAnswered
    <3> DEFINE h == page.busy[2]
    <3>1. <<"read", h>> \in Busy /\ <<"no">> \in Busy
      BY <1>1, <2>4 DEF ReturnAnswered, Busy
    <3>2. \/ /\ page' = [page EXCEPT !.acquired = 0, !.busy = <<"read", h>>]
             /\ panel' = [panel EXCEPT !.phase = "live"]
          \/ page' = [page EXCEPT !.busy = <<"read", h>>] /\ UNCHANGED panel
          \/ page' = [page EXCEPT !.busy = <<"no">>] /\ UNCHANGED panel
      BY <2>4 DEF ReturnAnswered
    <3>3. panel' \in PanelState /\ panel'.of = panel.of
      <4> HIDE DEF PanelState, h
      <4> QED
        BY <1>1, <1>4, <3>2
    <3>4. page' \in PageState /\ page'.at = page.at /\ page'.of = page.of /\ page'.detail = page.detail
      <4> HIDE DEF HoldOf, TaskStatus, Busy, NoHold, h
      <4>1. CASE page' = [page EXCEPT !.acquired = 0, !.busy = <<"read", h>>]
        BY <1>1, <3>1, <4>1 DEF PageState
      <4>2. ASSUME NEW b \in Busy, page' = [page EXCEPT !.busy = b]
            PROVE  page' \in PageState /\ page'.at = page.at /\ page'.of = page.of /\ page'.detail = page.detail
        BY <1>3, <4>2
      <4> QED
        BY <3>1, <3>2, <4>1, <4>2
    <3> QED
      BY <3>3, <3>4 DEF Stays
  <2>5. CASE ModeArrives
    <3>1. UNCHANGED page
      BY <2>5 DEF ModeArrives
    <3>2. Mode(panel.of) \in {"none", "human", "validating", "agent"}
      BY DEF Mode
    <3>3. panel' \in PanelState /\ panel'.of = panel.of
      BY <1>1, <2>5, <3>2 DEF ModeArrives, PanelState
    <3> QED
      BY <1>1, <3>1, <3>3 DEF Stays
  <2> QED
    BY <2>1, <2>2, <2>3, <2>4, <2>5
<1>6. ReadsTyped' /\ NewestIsHere'
  <2>1. ~Isload(Asks("control", 0)) /\ Asks("control", 0) \in PageRead
    BY <1>1, AsksTyped DEF Isload
  <2> QED
    BY <1>1, <1>2, <1>5, <2>1, ReadsStay DEF Stays
<1> QED
  BY <1>5, <1>6, StaysHere

LEMMA PageBegins == PageInit => PageHolds
<1> SUFFICES ASSUME PageInit PROVE PageHolds
  OBVIOUS
<1>1. page.at \in PageTask /\ page = FrameOf(page.at, 0)
  BY PageFacts DEF PageInit, FrameOf
<1>2. page \in PageState /\ page.detail = "none"
  <2>1. <<"no">> \in Busy
    BY DEF Busy
  <2> HIDE DEF HoldOf, TaskStatus, Busy, NoHold
  <2> QED
    BY <1>1, <2>1 DEF FrameOf, PageState
<1>3. [kind |-> "mount", rev |-> 1, of |-> page.at, answered |-> FALSE, status |-> "none", hold |-> NoHold] \in PageRead
  BY <1>1 DEF PageRead
<1>4. hold \in [PageTask -> HoldOf]
  BY DEF PageInit, NoHold, HoldOf
<1>5. pageStatus \in [PageTask -> TaskStatus] /\ events \in Seq(PageEvent)
  BY DEF PageInit, TaskStatus
<1>6. panel \in PanelState /\ panel.of = "none"
  BY PageFacts DEF PageInit, NoPanel
<1> HIDE DEF HoldOf, TaskStatus, Busy, NoHold, PageRead, PageState, PanelState
<1>7. NewestIsHere
  BY DEF PageInit, NewestIsHere
<1> QED
  BY <1>2, <1>3, <1>4, <1>5, <1>6, <1>7 DEF PageInit, PageHolds, WorldTyped, ReadsTyped, ScreenTyped,
       PanelIsHere,
     ShowsItsTask

LEMMA PageAlways == PageSpec => []PageHolds
<1>1. PageHolds /\ [PageNext]_pageVars => PageHolds'
  <2> SUFFICES ASSUME PageHolds, [PageNext]_pageVars PROVE PageHolds'
    OBVIOUS
  <2>1. CASE UNCHANGED pageVars
    BY <2>1 DEF pageVars, PageHolds, WorldTyped, ReadsTyped, ScreenTyped, NewestIsHere, PanelIsHere,
         ShowsItsTask, Isload
  <2>2. CASE PageNext
    <3>1. ScreenTyped' /\ PanelIsHere' /\ ReadsTyped' /\ NewestIsHere'
      <4>1. ASSUME NEW t \in PageTask, PageReset(t) PROVE ScreenTyped' /\ PanelIsHere' /\ ReadsTyped' /\ NewestIsHere'
        BY <4>1, PageResets
      <4>2. CASE (\E t \in PageTask : PageGoes(t)) \/ Resumes
        <5>1. page.at \in PageTask
          BY DEF PageHolds, ScreenTyped, PageState
        <5> QED
          BY <4>1, <4>2, <5>1 DEF PageGoes, Resumes
      <4> QED
        BY <2>2, <4>2, PageListens, PageLoads, PageAlerts, PagePerson DEF PageNext
    <3> QED
      BY <2>2, <3>1, PageWorld DEF PageHolds
  <2> QED
    BY <2>1, <2>2
<1> QED
  BY <1>1, PageBegins, PTL DEF PageSpec

LEMMA PageIsSafe == ASSUME PageHolds PROVE PageTypeOK /\ ShowsItsTask
<1>1. \A t \in PageTask : hold[t].state \in {"agent", "asked", "human", "validating", "paused"}
  BY DEF PageHolds, WorldTyped, HoldOf
<1> QED
  BY <1>1 DEF PageHolds, WorldTyped, ReadsTyped, ScreenTyped, PanelIsHere, PageTypeOK, PageState,
       PanelState, TaskStatus

-----------------------------------------------------------------------------
(* The task box *)

Builds == {"idle", "running", "done", "failed"}
HomeProbe == [known : BOOLEAN, engine : BOOLEAN, image : BOOLEAN]
HomeStatus == [known : BOOLEAN, engine : BOOLEAN, image : BOOLEAN, build : Builds, account : BOOLEAN]
UiState == [on : BOOLEAN, timer : BOOLEAN, flight : BOOLEAN, asking : BOOLEAN, got : HomeStatus,
            reads : SUBSET {"poll", "user"}, newest : {"none", "poll", "user"}, blocked : BOOLEAN,
            catalog : {"none", "yes", "no"}, status : HomeStatus, armed : BOOLEAN, posts : {0, 1},
            again : BOOLEAN, setup : BOOLEAN]
\* One start at a time is posted, and none is queued beside it.
OneStart(u) == u \in UiState /\ (u.posts = 1 => ~u.armed)
Wanted(u) == u.armed \/ u.posts > 0
\* What the page does to its state without the person: it comes to want no start.
Follows(v, u) == OneStart(v) /\ (Wanted(v) => Wanted(u))
HomeHolds ==
    /\ engine \in BOOLEAN /\ homeImage \in BOOLEAN /\ account \in BOOLEAN /\ wish \in BOOLEAN
    /\ build \in Builds /\ kept \in HomeProbe /\ probing \in HomeProbe
    /\ OneStart(ui) /\ (Wanted(ui) => wish)

LEMMA StatusTyped ==
  /\ NoStatus \in HomeStatus /\ NoProbe \in HomeProbe
  /\ \A s \in HomeStatus, c \in {"none", "yes", "no"} : Settling(s, c) \in BOOLEAN /\ AutoPrepares(s) \in BOOLEAN
BY DEF NoStatus, NoProbe, HomeStatus, HomeProbe, Builds, Settling, AutoPrepares, Blocked, Available

LEMMA ModelsFollow ==
  ASSUME NEW u, OneStart(u), NEW who \in {"poll", "user"}
  PROVE  Follows(LoadModels(u, who), u)
<1> DEFINE v == LoadModels(u, who)
<1>1. v \in UiState
  <2> HIDE DEF HomeStatus
  <2> QED
    BY DEF OneStart, LoadModels, UiState
<1>2. v.armed = u.armed /\ v.posts = u.posts
  <2> HIDE DEF HomeStatus
  <2> QED
    BY DEF OneStart, LoadModels, UiState
<1> QED
  BY <1>1, <1>2 DEF Follows, OneStart, Wanted

\* What the watcher does is nothing to a start.
LEMMA WatcherFollows ==
  ASSUME NEW u \in UiState, NEW v \in UiState, OneStart(u), v.armed = u.armed, v.posts = u.posts
  PROVE  Follows(v, u)
BY DEF Follows, OneStart, Wanted

LEMMA PollFollows ==
  ASSUME NEW u, OneStart(u)
  PROVE  Follows(Poll(u), u)
<1>1. u \in UiState /\ Follows(LoadModels(u, "poll"), u)
  BY ModelsFollow DEF OneStart
<1> DEFINE m == LoadModels(u, "poll")
           v == [m EXCEPT !.flight = TRUE, !.timer = FALSE, !.asking = TRUE, !.got = NoStatus]
<1>2. v \in UiState /\ v.armed = m.armed /\ v.posts = m.posts
  <2>1. m \in UiState
    BY <1>1 DEF Follows, OneStart
  <2> HIDE DEF m, HomeStatus, NoStatus
  <2> QED
    BY <2>1, StatusTyped DEF UiState
<1>3. Follows(v, u)
  <2> HIDE DEF m, v
  <2> QED
    BY <1>1, <1>2 DEF Follows, OneStart, Wanted, m
<1>4. Poll(u) = u \/ Poll(u) = v
  BY DEF Poll
<1> HIDE DEF v
<1> QED
  BY <1>3, <1>4 DEF Follows

LEMMA StartWatchFollows ==
  ASSUME NEW u, OneStart(u)
  PROVE  Follows(StartWatch(u), u)
<1> DEFINE v == [u EXCEPT !.on = TRUE]
<1>1. u \in UiState /\ v \in UiState /\ v.armed = u.armed /\ v.posts = u.posts
  BY DEF OneStart, UiState
<1> HIDE DEF v
<1>2. Follows(v, u)
  BY <1>1, WatcherFollows
<1>3. Follows(Poll(v), u)
  BY <1>2, PollFollows DEF Follows
<1> QED
  BY <1>3 DEF StartWatch, Follows, v

LEMMA RefreshWatchFollows ==
  ASSUME NEW u, OneStart(u)
  PROVE  Follows(RefreshWatch(u), u)
<1> DEFINE v == [u EXCEPT !.timer = FALSE]
<1>1. u \in UiState /\ v \in UiState /\ v.armed = u.armed /\ v.posts = u.posts
  BY DEF OneStart, UiState
<1> HIDE DEF v
<1>2. Follows(v, u)
  BY <1>1, WatcherFollows
<1>3. Follows(Poll(v), u)
  BY <1>2, PollFollows DEF Follows
<1> QED
  BY <1>3 DEF RefreshWatch, Follows, v

\* A start is posted at once, or queued.
LEMMA StartIsOne ==
  ASSUME NEW u, OneStart(u)
  PROVE  OneStart(Start(u))
<1>1. u \in UiState /\ u.posts \in {0, 1} /\ (u.catalog # "no") \in BOOLEAN
  BY DEF OneStart, UiState
<1>2. CASE u.posts > 0
  BY <1>2 DEF Start
<1>3. ASSUME NEW b \in BOOLEAN, u.posts = 0 PROVE OneStart([u EXCEPT !.armed = b])
  BY <1>1, <1>3 DEF OneStart, UiState
<1>4. OneStart([u EXCEPT !.armed = FALSE, !.posts = 1])
  BY <1>1 DEF OneStart, UiState
<1>5. CASE u.posts = 0
  BY <1>1, <1>3, <1>4, <1>5 DEF Start
<1> QED
  BY <1>1, <1>2, <1>5

LEMMA QueuedFollows ==
  ASSUME NEW u, OneStart(u)
  PROVE  Follows(StartQueued(u), u)
<1>1. CASE u.armed /\ ~u.blocked /\ u.posts = 0
  <2> DEFINE v == [u EXCEPT !.armed = FALSE]
  <2>1. OneStart(v)
    BY <1>1 DEF OneStart, UiState
  <2>2. StartQueued(u) = Start(v)
    BY <1>1 DEF StartQueued
  <2> HIDE DEF v
  <2> QED
    BY <1>1, <2>1, <2>2, StartIsOne DEF Follows, Wanted
<1>2. CASE ~(u.armed /\ ~u.blocked /\ u.posts = 0)
  <2>1. StartQueued(u) = u
    BY <1>2 DEF StartQueued
  <2> QED
    BY <2>1 DEF Follows
<1> QED
  BY <1>1, <1>2

LEMMA OptionsFollow ==
  ASSUME NEW u, OneStart(u)
  PROVE  Follows(PaintRunOptions(u), u)
<1> DEFINE v == IF u.catalog # "none" /\ ~u.blocked /\ Settling(u.status, u.catalog) THEN StartWatch(u) ELSE u
<1>1. Follows(v, u)
  BY StartWatchFollows DEF Follows
<1>2. PaintRunOptions(u) = StartQueued(v)
  BY DEF PaintRunOptions
<1> HIDE DEF v
<1> QED
  BY <1>1, <1>2, QueuedFollows DEF Follows

LEMMA PollEndsFollows ==
  ASSUME NEW u, OneStart(u)
  PROVE  Follows(PollEnds(u), u)
<1> DEFINE s == Settling(u.got, u.catalog)
           w == [u EXCEPT !.status = u.got, !.setup = @ \/ AutoPrepares(u.got)]
           o == StartQueued(w)
           v == [o EXCEPT !.flight = FALSE, !.got = NoStatus, !.on = s, !.timer = s]
<1>1. u \in UiState /\ s \in BOOLEAN /\ AutoPrepares(u.got) \in BOOLEAN /\ u.got \in HomeStatus /\ NoStatus \in HomeStatus
  BY StatusTyped DEF OneStart, UiState
<1>2. w \in UiState /\ w.armed = u.armed /\ w.posts = u.posts
  <2>1. (u.setup \/ AutoPrepares(u.got)) \in BOOLEAN
    BY <1>1
  <2> HIDE DEF HomeStatus, AutoPrepares
  <2> QED
    BY <1>1, <2>1 DEF UiState
<1>3. Follows(w, u)
  <2> HIDE DEF w
  <2> QED
    BY <1>1, <1>2, WatcherFollows
<1>4. Follows(o, u)
  <2> HIDE DEF w
  <2> QED
    BY <1>3, QueuedFollows DEF Follows
<1>5. v \in UiState /\ v.armed = o.armed /\ v.posts = o.posts
  <2>1. o \in UiState
    BY <1>4 DEF Follows, OneStart
  <2> HIDE DEF o, s, HomeStatus, NoStatus
  <2> QED
    BY <1>1, <2>1 DEF UiState
<1>6. PollEnds(u) = v
  BY DEF PollEnds, OnStatus
<1> HIDE DEF v, o
<1> QED
  BY <1>4, <1>5, <1>6 DEF Follows, OneStart, Wanted

LEMMA AnsweredFollows ==
  ASSUME HomeHolds, NEW u, OneStart(u), NEW p \in HomeProbe
  PROVE  Follows(Answered(u, p), u)
<1> DEFINE v == [u EXCEPT !.asking = FALSE, !.got = Assembled(p)]
<1>1. Assembled(p) \in HomeStatus
  <2>1. p.engine \in BOOLEAN /\ (p.engine /\ p.image) \in BOOLEAN
    BY DEF HomeProbe
  <2> QED
    BY <2>1 DEF HomeHolds, Assembled, HomeStatus
<1>2. u \in UiState /\ v \in UiState /\ v.armed = u.armed /\ v.posts = u.posts
  <2> HIDE DEF HomeStatus, Assembled
  <2> QED
    BY <1>1 DEF OneStart, UiState
<1> HIDE DEF v
<1>3. Follows(v, u)
  BY <1>2, WatcherFollows
<1> QED
  BY <1>3 DEF Answered, Follows, v

\* The page follows: the person's wish is as it was.
LEMMA PageFollows ==
  ASSUME HomeHolds, Follows(ui', ui), wish' = wish,
         engine' \in BOOLEAN, homeImage' \in BOOLEAN, account' \in BOOLEAN, build' \in Builds,
         kept' \in HomeProbe, probing' \in HomeProbe
  PROVE  HomeHolds'
BY DEF HomeHolds, Follows, OneStart, Wanted

\* The machine's and the daemon's steps.
LEMMA HomeDaemon ==
  ASSUME HomeHolds,
         WorldMoves \/ BuildEnds \/ ProbeForgotten \/ ProbeStarts \/ ProbeEnds \/ CacheAnswers \/ SetupAnswered
  PROVE  HomeHolds'
<1>0. /\ OneStart(ui) /\ Follows(ui, ui) /\ kept \in HomeProbe /\ probing \in HomeProbe /\ NoProbe \in HomeProbe
      /\ build \in Builds /\ engine \in BOOLEAN /\ homeImage \in BOOLEAN /\ account \in BOOLEAN
  BY StatusTyped DEF HomeHolds, Follows
<1>1. CASE WorldMoves \/ BuildEnds
  <2>1. /\ ui' = ui /\ wish' = wish /\ kept' = kept /\ probing' = probing /\ build' \in Builds
        /\ engine' \in BOOLEAN /\ homeImage' \in BOOLEAN /\ account' \in BOOLEAN
    BY <1>0, <1>1 DEF WorldMoves, BuildEnds, Builds
  <2> QED
    BY <1>0, <2>1, PageFollows
<1>2. CASE ProbeForgotten \/ ProbeStarts
  <2>1. [known |-> TRUE, engine |-> engine, image |-> homeImage] \in HomeProbe
    BY <1>0 DEF HomeProbe
  <2>2. ui' = ui /\ wish' = wish /\ kept' \in HomeProbe /\ probing' \in HomeProbe /\ UNCHANGED <<machineVars, build>>
    BY <1>0, <1>2, <2>1 DEF ProbeForgotten, ProbeStarts
  <2> QED
    BY <1>0, <2>2, PageFollows DEF machineVars
<1>3. CASE ProbeEnds
  <2>1. Follows(Answered(ui, probing), ui)
    BY <1>0, AnsweredFollows
  <2> QED
    BY <1>0, <1>3, <2>1, PageFollows DEF ProbeEnds, machineVars
<1>4. CASE CacheAnswers
  <2>1. Follows(Answered(ui, kept), ui)
    BY <1>0, AnsweredFollows
  <2> QED
    BY <1>0, <1>4, <2>1, PageFollows DEF CacheAnswers, Page, machineVars, probeVars
<1>5. CASE SetupAnswered
  <2> DEFINE v == [ui EXCEPT !.setup = FALSE]
  <2>1. ui \in UiState /\ v \in UiState /\ v.armed = ui.armed /\ v.posts = ui.posts
    BY <1>0 DEF OneStart, UiState
  <2>2. Follows(v, ui)
    <3> HIDE DEF v
    <3> QED
      BY <1>0, <2>1, WatcherFollows
  <2>3. Follows(RefreshWatch(v), ui)
    <3> HIDE DEF v
    <3> QED
      BY <2>2, RefreshWatchFollows DEF Follows
  <2>4. ui' = v \/ ui' = RefreshWatch(v)
    BY <1>5 DEF SetupAnswered
  <2>5. Follows(ui', ui)
    <3> HIDE DEF v
    <3> QED
      BY <2>2, <2>3, <2>4
  <2>6. build' \in Builds /\ kept' \in HomeProbe /\ UNCHANGED <<machineVars, probing, wish>>
    BY <1>0, <1>5 DEF SetupAnswered, Builds
  <2> QED
    BY <1>0, <2>5, <2>6, PageFollows DEF machineVars
<1> QED
  BY <1>1, <1>2, <1>3, <1>4, <1>5

\* An answer to a start: nothing is left of it, or it is asked once more.
LEMMA HomeAnswered ==
  ASSUME HomeHolds, TaskAnswered
  PROVE  HomeHolds' /\ wish
<1>0. /\ OneStart(ui) /\ ui \in UiState /\ ui.posts = 1 /\ ~ui.armed /\ wish
  BY DEF HomeHolds, TaskAnswered, OneStart, UiState, Wanted
<1>1. UNCHANGED <<machineVars, probeVars, build>>
  BY DEF TaskAnswered
<1> DEFINE v == [ui EXCEPT !.posts = @ - 1, !.again = FALSE]
           w == [ui EXCEPT !.again = TRUE]
<1>2. OneStart(v) /\ ~Wanted(v)
  <2>1. v \in UiState
    <3>1. ui.posts - 1 \in {0, 1}
      BY <1>0
    <3> HIDE DEF HomeStatus
    <3> QED
      BY <1>0, <3>1 DEF UiState
  <2>2. v.posts = 0 /\ v.armed = ui.armed
    <3> HIDE DEF HomeStatus
    <3> QED
      BY <1>0 DEF UiState
  <2> HIDE DEF v
  <2> QED
    BY <1>0, <2>1, <2>2 DEF OneStart, Wanted
<1>3. Follows(w, ui)
  <2>1. w \in UiState /\ w.armed = ui.armed /\ w.posts = ui.posts
    BY <1>0 DEF UiState
  <2> HIDE DEF w
  <2> QED
    BY <1>0, <2>1, WatcherFollows
<1>4. OneStart(PaintRunOptions(v)) /\ ~Wanted(PaintRunOptions(v))
  <2> HIDE DEF v
  <2> QED
    BY <1>2, OptionsFollow DEF Follows
<1>5. CASE ui' = PaintRunOptions(v) /\ wish' = FALSE
  <2>1. OneStart(ui') /\ ~Wanted(ui')
    <3> HIDE DEF v
    <3> QED
      BY <1>4, <1>5
  <2> QED
    BY <1>0, <1>1, <1>5, <2>1 DEF HomeHolds, machineVars, probeVars
<1>6. CASE ui' = w /\ wish' = wish
  <2>1. Follows(ui', ui)
    <3> HIDE DEF w
    <3> QED
      BY <1>3, <1>6
  <2>2. /\ engine' \in BOOLEAN /\ homeImage' \in BOOLEAN /\ account' \in BOOLEAN /\ build' \in Builds
        /\ kept' \in HomeProbe /\ probing' \in HomeProbe
    BY <1>1 DEF HomeHolds, machineVars, probeVars
  <2> QED
    BY <1>0, <1>6, <2>1, <2>2, PageFollows
<1> QED
  BY <1>0, <1>5, <1>6 DEF TaskAnswered

\* The person's steps, and what the page hears.
LEMMA HomePage ==
  ASSUME HomeHolds,
         \/ TimerFires \/ PollAnswered \/ PollFails \/ ChangesModel \/ Looks \/ TriesSetup
         \/ \E who \in {"poll", "user"}, fails \in BOOLEAN : ModelsArrive(who, fails)
  PROVE  HomeHolds'
<1>0. OneStart(ui) /\ ui \in UiState /\ UNCHANGED <<machineVars, probeVars, build, wish>>
  BY DEF HomeHolds, OneStart, TimerFires, PollAnswered, PollFails, ChangesModel, Looks, TriesSetup,
       ModelsArrive, Page
<1>1. Follows(ui', ui)
  <2>1. CASE TimerFires
    BY <1>0, <2>1, PollFollows DEF TimerFires, Page
  <2>2. CASE PollAnswered
    BY <1>0, <2>2, PollEndsFollows DEF PollAnswered, Page
  <2>3. CASE PollFails
    <3>1. ui' \in UiState /\ ui'.armed = ui.armed /\ ui'.posts = ui.posts
      BY <1>0, <2>3 DEF PollFails, UiState
    <3> QED
      BY <1>0, <3>1, WatcherFollows
  <2>4. CASE ChangesModel
    <3>1. Follows(LoadModels(ui, "user"), ui)
      BY <1>0, ModelsFollow
    <3>2. Follows(PaintRunOptions(LoadModels(ui, "user")), ui)
      BY <3>1, OptionsFollow DEF Follows
    <3> QED
      BY <2>4, <3>2 DEF ChangesModel, Page
  <2>5. CASE Looks
    <3>1. Follows(StartWatch(ui), ui)
      BY <1>0, StartWatchFollows
    <3>2. Follows(RefreshWatch(StartWatch(ui)), ui)
      BY <3>1, RefreshWatchFollows DEF Follows
    <3> QED
      BY <2>5, <3>2 DEF Looks, Page
  <2>6. CASE TriesSetup
    <3>1. ui' \in UiState /\ ui'.armed = ui.armed /\ ui'.posts = ui.posts
      BY <1>0, <2>6 DEF TriesSetup, Page, UiState
    <3> QED
      BY <1>0, <3>1, WatcherFollows
  <2>7. ASSUME NEW who \in {"poll", "user"}, NEW fails \in BOOLEAN, ModelsArrive(who, fails)
        PROVE  Follows(ui', ui)
    <3> DEFINE u == [ui EXCEPT !.reads = @ \ {who}]
               v == [u EXCEPT !.blocked = FALSE, !.catalog = IF fails THEN @ ELSE IF account THEN "yes" ELSE "no"]
    <3>1. u \in UiState /\ u.armed = ui.armed /\ u.posts = ui.posts
      BY <1>0 DEF UiState
    <3>2. Follows(u, ui)
      <4> HIDE DEF u
      <4> QED
        BY <1>0, <3>1, WatcherFollows
    <3>3. v \in UiState /\ v.armed = u.armed /\ v.posts = u.posts
      <4> HIDE DEF u
      <4> QED
        BY <3>1 DEF UiState
    <3>4. Follows(v, ui)
      <4> HIDE DEF u, v
      <4> QED
        BY <1>0, <3>1, <3>3, WatcherFollows
    <3>5. Follows(PaintRunOptions(v), ui)
      <4> HIDE DEF v
      <4> QED
        BY <3>4, OptionsFollow DEF Follows
    <3>6. ui' = u \/ ui' = PaintRunOptions(v)
      BY <2>7 DEF ModelsArrive
    <3> HIDE DEF u, v
    <3> QED
      BY <3>2, <3>5, <3>6
  <2> QED
    BY <2>1, <2>2, <2>3, <2>4, <2>5, <2>6, <2>7
<1> QED
  BY <1>0, <1>1, PageFollows DEF HomeHolds, machineVars, probeVars

LEMMA HomePerson ==
  ASSUME HomeHolds, HomePresses \/ HomeCancels
  PROVE  HomeHolds'
<1>1. CASE HomePresses
  <2>1. OneStart(ui') /\ wish' = TRUE
    BY <1>1, StartIsOne DEF HomePresses, HomeHolds
  <2> QED
    BY <1>1, <2>1 DEF HomePresses, HomeHolds, machineVars, probeVars
<1>2. CASE HomeCancels
  <2>1. ui \in UiState /\ ui.armed /\ ui.posts = 0
    BY <1>2 DEF HomeCancels, HomeHolds, OneStart, UiState
  <2>2. OneStart(ui') /\ ~Wanted(ui')
    <3>1. ui' = [ui EXCEPT !.armed = FALSE]
      BY <1>2 DEF HomeCancels
    <3>2. ui' \in UiState /\ ui'.armed = FALSE /\ ui'.posts = 0
      <4> HIDE DEF HomeStatus
      <4> QED
        BY <2>1, <3>1 DEF UiState
    <3> QED
      BY <3>2 DEF OneStart, Wanted
  <2>3. wish' \in BOOLEAN
    BY <1>2 DEF HomeCancels, HomeHolds
  <2> QED
    BY <1>2, <2>2, <2>3 DEF HomeCancels, HomeHolds, machineVars, probeVars
<1> QED
  BY <1>1, <1>2

LEMMA HomeBegins == HomeInit => HomeHolds
<1> SUFFICES ASSUME HomeInit PROVE HomeHolds
  OBVIOUS
<1>1. OneStart(Mounted) /\ ~Wanted(Mounted)
  BY StatusTyped DEF Mounted, OneStart, UiState, Wanted
<1>2. OneStart(ui) /\ ~Wanted(ui)
  BY <1>1, StartWatchFollows DEF HomeInit, Follows
<1> QED
  BY <1>2, StatusTyped DEF HomeInit, HomeHolds, Builds

LEMMA HomeSteps ==
  ASSUME HomeHolds, [HomeNext]_homeVars
  PROVE  HomeHolds' /\ (created' # created => wish)
<1>1. CASE UNCHANGED homeVars
  BY <1>1 DEF homeVars, HomeHolds, OneStart, Wanted
<1>2. CASE TaskAnswered
  BY <1>2, HomeAnswered
<1>3. CASE WorldMoves \/ BuildEnds \/ ProbeForgotten \/ ProbeStarts \/ ProbeEnds \/ CacheAnswers \/ SetupAnswered
  <2>1. UNCHANGED created
    BY <1>3 DEF WorldMoves, BuildEnds, ProbeForgotten, ProbeStarts, ProbeEnds, CacheAnswers,
         SetupAnswered, Page
  <2> QED
    BY <1>3, <2>1, HomeDaemon
<1>4. CASE \/ TimerFires \/ PollAnswered \/ PollFails \/ ChangesModel \/ Looks \/ TriesSetup
           \/ \E who \in {"poll", "user"}, fails \in BOOLEAN : ModelsArrive(who, fails)
  <2>1. UNCHANGED created
    BY <1>4 DEF TimerFires, PollAnswered, PollFails, ChangesModel, Looks, TriesSetup, ModelsArrive, Page
  <2> QED
    BY <1>4, <2>1, HomePage
<1>5. CASE HomePresses \/ HomeCancels
  <2>1. UNCHANGED created
    BY <1>5 DEF HomePresses, HomeCancels
  <2> QED
    BY <1>5, <2>1, HomePerson
<1> QED
  BY <1>1, <1>2, <1>3, <1>4, <1>5 DEF HomeNext

LEMMA HomeAlways == HomeSpec => []HomeHolds /\ OnlyWhatWasAsked
<1>1. HomeHolds /\ [HomeNext]_homeVars => HomeHolds'
  BY HomeSteps
<1>2. HomeHolds /\ [HomeNext]_homeVars => [created' # created => wish]_homeVars
  BY HomeSteps
<1> QED
  BY <1>1, <1>2, HomeBegins, PTL DEF HomeSpec, OnlyWhatWasAsked

LEMMA HomeIsSafe == ASSUME HomeHolds PROVE HomeTypeOK
BY DEF HomeHolds, HomeTypeOK, OneStart, UiState, Builds

-----------------------------------------------------------------------------
(* The sign-in pane *)

AccountState == {"signed_out", "signing_in", "signed_in"}
PaneState == [live : BOOLEAN, selected : Providers, edited : BOOLEAN, shown : Statuses, other : Statuses,
              busy : BOOLEAN, wants : BOOLEAN, timer : BOOLEAN]
SignRead == [on : BOOLEAN, ask : Providers \cup {"any"}, taken : BOOLEAN, p : Providers, status : Statuses]
SignPost == [kind : {"signin", "connect", "cancel"}, p : Providers, n : Nat, pressed : BOOLEAN, status : Statuses]
\* A pane that will connect by itself does it for a sign-in that is owed.
WantsWhatIsOwed == pane.live /\ pane.wants => owed
SignInHolds ==
    /\ accounts \in [Providers -> AccountState] /\ using \in [p : Providers, on : BOOLEAN]
    /\ pane \in PaneState /\ read \in SignRead /\ signCalls \subseteq SignPost
    /\ owed \in BOOLEAN /\ presses \in Nat /\ WantsWhatIsOwed
\* No connection of its own is asked for in the step, unless it is owed.
NewCallsAreOwed ==
    \A c \in signCalls' \ signCalls : c.kind = "connect" /\ c.status = "none" => pane.live /\ (c.pressed \/ owed)

LEMMA SignFacts ==
  /\ NoRead \in SignRead /\ \A p \in Providers : Other(p) \in Providers
  /\ AccountState \subseteq Statuses /\ "none" \notin AccountState /\ "claude" \in Providers
<1>1. \A p \in Providers : \E q \in Providers : q # p
  BY DEF Providers
<1> QED
  BY <1>1 DEF NoRead, SignRead, Providers, Statuses, Other, AccountState

LEMMA RefreshTyped ==
  ASSUME NEW s \in PaneState, read \in SignRead, Refresh(s)
  PROVE  pane' \in PaneState /\ read' \in SignRead /\ pane'.live = s.live /\ pane'.wants = s.wants
<1>1. Asked(s) \in Providers \cup {"any"}
  BY DEF Asked, PaneState
<1> HIDE DEF Statuses, Providers
<1>2. [NoRead EXCEPT !.on = TRUE, !.ask = Asked(s)] \in SignRead
  <2> HIDE DEF NoRead, Asked
  <2> QED
    BY <1>1, SignFacts DEF SignRead
<1> QED
  BY <1>2 DEF Refresh, PaneState

LEMMA PostTyped ==
  ASSUME presses \in Nat, NEW kind \in {"signin", "connect", "cancel"}, NEW p \in Providers, NEW pressed \in BOOLEAN
  PROVE  /\ SignCall(kind, p, pressed) \in SignPost
         /\ SignCall(kind, p, pressed).kind = kind /\ SignCall(kind, p, pressed).pressed = pressed
BY DEF SignCall, SignPost, Statuses

LEMMA ConnectTyped ==
  ASSUME SignInHolds, NEW s \in PaneState, NEW pressed \in BOOLEAN, Connect(s, pressed)
  PROVE  /\ pane' \in PaneState /\ pane'.wants = FALSE /\ signCalls' \subseteq SignPost
         /\ \A c \in signCalls' \ signCalls : c.pressed = pressed
<1>1. s.selected \in Providers
  BY DEF PaneState
<1>2. SignCall("connect", s.selected, pressed) \in SignPost /\ SignCall("connect", s.selected, pressed).pressed = pressed
  BY <1>1, PostTyped DEF SignInHolds
<1>3. pane' \in PaneState /\ pane'.wants = FALSE
  <2> HIDE DEF Statuses, Providers
  <2> QED
    BY DEF Connect, PaneState
<1> QED
  BY <1>2, <1>3 DEF Connect, SignInHolds

LEMMA FailedTyped ==
  ASSUME SignInHolds, Failed
  PROVE  pane' \in PaneState /\ owed' \in BOOLEAN /\ WantsWhatIsOwed'
<1>1. "error" \in Statuses
  BY DEF Statuses
<1> HIDE DEF Statuses, Providers
<1> QED
  BY <1>1 DEF SignInHolds, Failed, PaneState, WantsWhatIsOwed

\* Providers and the daemon.
LEMMA SignDaemon ==
  ASSUME SignInHolds, ReadTaken \/ PersonAtProvider \/ \E c \in signCalls : CallTaken(c)
  PROVE  SignInHolds' /\ NewCallsAreOwed
<1>0. UNCHANGED <<pane, owed, presses>>
  BY DEF ReadTaken, PersonAtProvider, CallTaken
<1>1. CASE ReadTaken
  <2> DEFINE p == IF read.ask = "any" THEN using.p ELSE read.ask
  <2>1. p \in Providers
    BY DEF SignInHolds, SignRead
  <2>2. Status(p) \in Statuses
    BY <2>1 DEF SignInHolds, Status, AccountState, Statuses
  <2>3. read' \in SignRead
    <3> HIDE DEF Statuses, Providers, p, Status
    <3> QED
      BY <1>1, <2>1, <2>2 DEF ReadTaken, SignInHolds, SignRead, p
  <2> QED
    BY <1>0, <1>1, <2>3 DEF ReadTaken, daemonVars, SignInHolds, WantsWhatIsOwed, NewCallsAreOwed
<1>2. CASE PersonAtProvider
  <2>1. accounts' \in [Providers -> AccountState]
    BY <1>2 DEF PersonAtProvider, SignedIn, GivenUp, SignInHolds, AccountState
  <2> QED
    BY <1>0, <1>2, <2>1 DEF PersonAtProvider, SignInHolds, WantsWhatIsOwed, NewCallsAreOwed
<1>3. ASSUME NEW c \in signCalls, CallTaken(c) PROVE SignInHolds' /\ NewCallsAreOwed
  <2>1. c \in SignPost /\ c.p \in Providers
    BY DEF SignInHolds, SignPost
  <2>2. accounts' \in [Providers -> AccountState] /\ using' \in [p : Providers, on : BOOLEAN]
    <3>1. /\ accounts \in [Providers -> AccountState] /\ using \in [p : Providers, on : BOOLEAN]
          /\ [p |-> c.p, on |-> TRUE] \in [p : Providers, on : BOOLEAN]
      BY <2>1 DEF SignInHolds
    <3>2. CASE accounts' = [accounts EXCEPT ![c.p] = IF @ = "signed_out" THEN "signing_in" ELSE @] /\ UNCHANGED using
      BY <2>1, <3>1, <3>2 DEF AccountState
    <3>3. CASE accounts' = [accounts EXCEPT ![c.p] = IF @ = "signing_in" THEN "signed_out" ELSE @] /\ UNCHANGED using
      BY <2>1, <3>1, <3>3 DEF AccountState
    <3>4. CASE using' = (IF accounts[c.p] = "signed_in" THEN [p |-> c.p, on |-> TRUE] ELSE using) /\ UNCHANGED accounts
      BY <3>1, <3>4
    <3> QED
      BY <1>3, <3>2, <3>3, <3>4 DEF CallTaken
  <2> DEFINE st == IF c.kind = "connect" /\ accounts[c.p] = "signed_in" THEN "connected" ELSE accounts'[c.p]
             d == [c EXCEPT !.status = st]
  <2>3. st \in Statuses /\ st # "none"
    <3>1. accounts'[c.p] \in AccountState
      BY <2>1, <2>2
    <3> QED
      BY <3>1 DEF AccountState, Statuses
  <2>4. d \in SignPost /\ d.status # "none"
    <3> HIDE DEF st, Statuses, Providers
    <3> QED
      BY <2>1, <2>3 DEF SignPost
  <2>5. signCalls' = (signCalls \ {c}) \cup {d}
    BY <1>3 DEF CallTaken
  <2>6. UNCHANGED read
    BY <1>3 DEF CallTaken
  <2> HIDE DEF d
  <2> QED
    BY <1>0, <2>2, <2>4, <2>5, <2>6 DEF SignInHolds, WantsWhatIsOwed, NewCallsAreOwed
<1> QED
  BY <1>1, <1>2, <1>3

\* An answer to a read.
LEMMA SignAnswered ==
  ASSUME SignInHolds, ReadAnswered
  PROVE  SignInHolds' /\ NewCallsAreOwed
<1>0. read \in SignRead /\ pane \in PaneState /\ pane.live /\ read' = NoRead /\ NoRead \in SignRead
      /\ UNCHANGED <<accounts, using, presses>>
  BY SignFacts DEF SignInHolds, ReadAnswered, daemonVars
<1>1. Shown(pane) \in PaneState /\ (Shown(pane).wants => pane.wants /\ read.status # "connected")
  <2>1. (pane.wants /\ read.status # "connected") \in BOOLEAN /\ (read.status = "signing_in") \in BOOLEAN
    OBVIOUS
  <2> HIDE DEF Statuses, Providers
  <2> QED
    BY <1>0, <2>1 DEF Shown, PaneState, SignRead
<1>2. CASE read.status = "signed_in" /\ pane.wants
  <2>1. Connect(Shown(pane), FALSE) /\ owed' = FALSE
    BY <1>2 DEF ReadAnswered
  <2>2. owed
    BY <1>0, <1>2 DEF SignInHolds, WantsWhatIsOwed
  <2>3. pane' \in PaneState /\ pane'.wants = FALSE /\ signCalls' \subseteq SignPost
    BY <1>1, <2>1, ConnectTyped
  <2> QED
    BY <1>0, <2>1, <2>2, <2>3 DEF SignInHolds, WantsWhatIsOwed, NewCallsAreOwed
<1>3. CASE ~(read.status = "signed_in" /\ pane.wants)
  <2>1. pane' = Shown(pane) /\ owed' = (owed /\ read.status # "connected") /\ UNCHANGED signCalls
    BY <1>3 DEF ReadAnswered
  <2>2. owed' \in BOOLEAN /\ WantsWhatIsOwed'
    <3> HIDE DEF Shown
    <3> QED
      BY <1>0, <1>1, <2>1 DEF SignInHolds, WantsWhatIsOwed
  <2> QED
    BY <1>0, <1>1, <2>1, <2>2 DEF SignInHolds, NewCallsAreOwed
<1> QED
  BY <1>2, <1>3

LEMMA SignWaits ==
  ASSUME SignInHolds, \/ SignReadFails \/ SignTimerFires \/ Rechecks \/ Leaves
                      \/ \E c \in signCalls : CallAnswered(c) \/ CallFails(c)
  PROVE  SignInHolds' /\ NewCallsAreOwed
<1>0. pane \in PaneState /\ read \in SignRead /\ NoRead \in SignRead /\ presses \in Nat /\ signCalls \subseteq SignPost
  BY SignFacts DEF SignInHolds
<1>1. UNCHANGED <<accounts, using>> /\ signCalls' \subseteq signCalls /\ presses' \in Nat
  BY <1>0 DEF SignReadFails, SignTimerFires, Rechecks, Leaves, CallAnswered, CallFails, daemonVars,
       Presses
<1>2. pane' \in PaneState /\ read' \in SignRead /\ owed' \in BOOLEAN /\ WantsWhatIsOwed'
  <2>1. CASE SignReadFails
    BY <1>0, <2>1, FailedTyped DEF SignReadFails
  <2>2. CASE SignTimerFires \/ Rechecks
    <3>1. Refresh(pane) /\ UNCHANGED owed
      BY <2>2 DEF SignTimerFires, Rechecks
    <3> QED
      BY <1>0, <3>1, RefreshTyped DEF SignInHolds, WantsWhatIsOwed
  <2>3. CASE Leaves
    BY <1>0, <2>3 DEF Leaves, PaneState, WantsWhatIsOwed
  <2>4. ASSUME NEW c \in signCalls, CallAnswered(c)
        PROVE  pane' \in PaneState /\ read' \in SignRead /\ owed' \in BOOLEAN /\ WantsWhatIsOwed'
    <3> DEFINE s == [pane EXCEPT !.busy = FALSE]
               t == [pane EXCEPT !.busy = FALSE, !.shown = "connected"]
    <3>1. /\ s \in PaneState /\ s.live = pane.live /\ s.wants = pane.wants
          /\ t \in PaneState /\ t.live = pane.live /\ t.wants = pane.wants
      BY <1>0 DEF PaneState, Statuses
    <3>2. \/ UNCHANGED <<pane, read>> \/ (pane' = t /\ UNCHANGED read) \/ Refresh(s)
      BY <2>4 DEF CallAnswered
    <3>3. pane' \in PaneState /\ read' \in SignRead /\ pane'.live = pane.live /\ pane'.wants = pane.wants
      <4> HIDE DEF s, t
      <4> QED
        BY <1>0, <3>1, <3>2, RefreshTyped
    <3>4. UNCHANGED owed
      BY <2>4 DEF CallAnswered
    <3> QED
      BY <3>3, <3>4 DEF SignInHolds, WantsWhatIsOwed
  <2>5. ASSUME NEW c \in signCalls, CallFails(c)
        PROVE  pane' \in PaneState /\ read' \in SignRead /\ owed' \in BOOLEAN /\ WantsWhatIsOwed'
    BY <1>0, <2>5, FailedTyped DEF CallFails
  <2> QED
    BY <2>1, <2>2, <2>3, <2>4, <2>5
<1> QED
  BY <1>0, <1>1, <1>2 DEF SignInHolds, NewCallsAreOwed

LEMMA SignPerson ==
  ASSUME SignInHolds, Chooses \/ PressesAction \/ SignCancels
  PROVE  SignInHolds' /\ NewCallsAreOwed
<1>0. pane \in PaneState /\ pane.selected \in Providers /\ read \in SignRead /\ NoRead \in SignRead /\ presses \in Nat
      /\ signCalls \subseteq SignPost /\ pane.live
  BY SignFacts DEF SignInHolds, PaneState, Chooses, PressesAction, SignCancels
<1>1. UNCHANGED <<accounts, using>> /\ presses' \in Nat
  <2>1. UNCHANGED daemonVars /\ Presses
    BY DEF Chooses, PressesAction, SignCancels
  <2> QED
    BY <1>0, <2>1 DEF daemonVars, Presses
<1>2. CASE Chooses
  <2> DEFINE s == [pane EXCEPT !.edited = TRUE, !.wants = FALSE, !.selected = Other(@), !.shown = pane.other,
                               !.other = pane.shown]
  <2>1. s \in PaneState /\ s.wants = FALSE
    <3>1. Other(pane.selected) \in Providers
      BY <1>0, SignFacts
    <3> HIDE DEF Other, Statuses, Providers
    <3> QED
      BY <1>0, <3>1 DEF PaneState
  <2>2. Refresh(s) /\ owed' = FALSE /\ UNCHANGED signCalls
    BY <1>2 DEF Chooses
  <2>3. pane' \in PaneState /\ read' \in SignRead /\ pane'.wants = FALSE
    <3> HIDE DEF s
    <3> QED
      BY <1>0, <2>1, <2>2, RefreshTyped
  <2> QED
    BY <1>1, <2>2, <2>3 DEF SignInHolds, WantsWhatIsOwed, NewCallsAreOwed
<1>3. CASE PressesAction
  <2>1. CASE Connect(pane, TRUE) /\ owed' = FALSE /\ UNCHANGED read
    <3>1. /\ pane' \in PaneState /\ pane'.wants = FALSE /\ signCalls' \subseteq SignPost
          /\ \A c \in signCalls' \ signCalls : c.pressed = TRUE
      BY <1>0, <2>1, ConnectTyped
    <3> QED
      BY <1>0, <1>1, <2>1, <3>1 DEF SignInHolds, WantsWhatIsOwed, NewCallsAreOwed
  <2>2. CASE /\ pane' = [pane EXCEPT !.busy = TRUE, !.wants = TRUE] /\ owed' = TRUE
             /\ signCalls' = signCalls \cup {SignCall("signin", pane.selected, TRUE)} /\ UNCHANGED read
    <3>1. SignCall("signin", pane.selected, TRUE) \in SignPost /\ SignCall("signin", pane.selected, TRUE).kind = "signin"
      BY <1>0, PostTyped
    <3>2. pane' \in PaneState
      <4> HIDE DEF Statuses, Providers
      <4> QED
        BY <1>0, <2>2 DEF PaneState
    <3> QED
      BY <1>0, <1>1, <2>2, <3>1, <3>2 DEF SignInHolds, WantsWhatIsOwed, NewCallsAreOwed
  <2>3. CASE Refresh(pane) /\ UNCHANGED <<signCalls, owed>>
    BY <1>0, <1>1, <2>3, RefreshTyped DEF SignInHolds, WantsWhatIsOwed, NewCallsAreOwed
  <2> QED
    BY <1>3, <2>1, <2>2, <2>3 DEF PressesAction
<1>4. CASE SignCancels
  <2>1. SignCall("cancel", pane.selected, TRUE) \in SignPost /\ SignCall("cancel", pane.selected, TRUE).kind = "cancel"
    BY <1>0, PostTyped
  <2>2. pane' \in PaneState /\ pane'.wants = FALSE
    <3> HIDE DEF Statuses, Providers
    <3> QED
      BY <1>0, <1>4 DEF SignCancels, PaneState
  <2>3. read' = NoRead /\ owed' = FALSE /\ signCalls' = signCalls \cup {SignCall("cancel", pane.selected, TRUE)}
    BY <1>4 DEF SignCancels
  <2> QED
    BY <1>0, <1>1, <2>1, <2>2, <2>3 DEF SignInHolds, WantsWhatIsOwed, NewCallsAreOwed
<1> QED
  BY <1>2, <1>3, <1>4

LEMMA SignBegins == SignInInit => SignInHolds
<1> SUFFICES ASSUME SignInInit PROVE SignInHolds
  OBVIOUS
<1>1. pane \in PaneState /\ pane.wants = FALSE
  BY DEF SignInInit, PaneState, Providers, Statuses
<1>2. read \in SignRead
  BY DEF SignInInit, NoRead, SignRead, Providers, Statuses
<1>3. accounts \in [Providers -> AccountState] /\ using \in [p : Providers, on : BOOLEAN]
  BY DEF SignInInit, AccountState
<1> QED
  BY <1>1, <1>2, <1>3 DEF SignInInit, SignInHolds, WantsWhatIsOwed

LEMMA SignSteps ==
  ASSUME SignInHolds, [SignInNext]_signInVars
  PROVE  SignInHolds' /\ NewCallsAreOwed
<1>1. CASE UNCHANGED signInVars
  BY <1>1 DEF signInVars, SignInHolds, WantsWhatIsOwed, NewCallsAreOwed
<1> QED
  BY <1>1, SignDaemon, SignAnswered, SignWaits, SignPerson DEF SignInNext

LEMMA SignAlways == SignInSpec => []SignInHolds /\ ConnectsOnlyForASignIn
<1>1. SignInHolds /\ [SignInNext]_signInVars => SignInHolds'
  BY SignSteps
<1>2. SignInHolds /\ [SignInNext]_signInVars
        => [\A c \in signCalls' \ signCalls :
              c.kind = "connect" /\ c.status = "none" => pane.live /\ (c.pressed \/ owed)]_signInVars
  BY SignSteps DEF NewCallsAreOwed
<1> QED
  BY <1>1, <1>2, SignBegins, PTL DEF SignInSpec, ConnectsOnlyForASignIn

LEMMA SignIsSafe == ASSUME SignInHolds PROVE SignInTypeOK
BY DEF SignInHolds, SignInTypeOK, AccountState, PaneState, SignRead

-----------------------------------------------------------------------------
(* What asks for the person *)

\* The requests that were ever made.
Requested == {i \in Items : badgeRow[i] # "none"}
Round == [current : BOOLEAN, at : {"rows", "tasks"}, got : SUBSET Items]
BadgeWorldHolds ==
    /\ badgeRow \in [Items -> {"none", "waiting", "closed"}] /\ past \subseteq Items /\ over \subseteq Tasks
    /\ badgeUp \in BOOLEAN /\ stream \in BOOLEAN /\ news \in BOOLEAN /\ due \in BOOLEAN
    /\ outages \in Nat /\ reloads \in Nat /\ IsFiniteSet(Requested)
\* One round is current; what it has read and was taken down since is past its time.
RoundsHold ==
    /\ rounds \subseteq Round
    /\ \A r \in rounds : r.got \subseteq Requested /\ (r.current /\ r.at = "tasks" => r.got \cap gone \subseteq past)
    /\ \A r, s \in rounds : r.current /\ s.current => r = s
ShownHolds ==
    /\ items \subseteq Requested /\ gone \subseteq Items /\ AnsweredStaysDown
    /\ \A i \in gone : badgeRow[i] = "closed"
\* What was pinged in a browser is in the tab's history.
BannersHold ==
    /\ announced \subseteq Items /\ asked \subseteq Items /\ refused \subseteq Items /\ fallback \subseteq Items
    /\ unshown \in Seq(Items) /\ seen \subseteq Items \cup Tasks /\ pinged \in [Items -> Nat]
    /\ ~Native => \A i \in Items : pinged[i] <= 1 /\ (i \notin seen => pinged[i] = 0)
AttentionHolds == BadgeWorldHolds /\ RoundsHold /\ ShownHolds /\ BannersHold

-----------------------------------------------------------------------------
(* Sequences of requests *)

\* A set of numbers has a least one: the segments below its members are well founded.
LEMMA LeastIndex ==
  ASSUME NEW S, S \subseteq Nat, S # {}
  PROVE  \E x \in S : \A y \in S : x <= y
<1>. DEFINE T == {0 .. n : n \in S}
<1>1. IsWellFoundedOn(StrictSubsetOrdering(Nat), FiniteSubsetsOf(Nat))
  BY FS_StrictSubsetOrderingWellFounded
<1>2. T # {} /\ T \subseteq FiniteSubsetsOf(Nat)
  <2>1. \A n \in S : 0 .. n \in FiniteSubsetsOf(Nat)
    <3> SUFFICES ASSUME NEW n \in S PROVE 0 .. n \in FiniteSubsetsOf(Nat)
      OBVIOUS
    <3>1. 0 \in Int /\ n \in Int
      OBVIOUS
    <3>2. IsFiniteSet(0 .. n)
      BY <3>1, FS_Interval, Zenon
    <3>3. 0 .. n \subseteq Nat
      OBVIOUS
    <3>. QED
      BY <3>2, <3>3 DEF FiniteSubsetsOf
  <2>. QED
    BY <2>1, Zenon
<1>. HIDE DEF T
<1>3. \E U \in T : \A V \in T : ~ (<<V, U>> \in StrictSubsetOrdering(Nat))
  BY <1>1, <1>2, WFMin, Zenon
<1>4. PICK x \in S : \A y \in S : ~ (<<0 .. y, 0 .. x>> \in StrictSubsetOrdering(Nat))
  BY <1>3 DEF T
<1>5. ASSUME NEW y \in S, ~ (x <= y) PROVE FALSE
  <2>1. 0 .. y \subseteq 0 .. x /\ x \in 0 .. x /\ x \notin 0 .. y
    BY <1>5
  <2>2. 0 .. y \in SUBSET Nat /\ 0 .. x \in SUBSET Nat
    OBVIOUS
  <2>. QED
    BY <1>4, <2>1, <2>2 DEF StrictSubsetOrdering
<1>. QED
  BY <1>5

\* SetToSeq of a finite set is a sequence of its members.
LEMMA ListsMembers ==
  ASSUME NEW S, IsFiniteSet(S)
  PROVE  SetToSeq(S) \in Seq(S)
<1>1. PICK n \in Nat : ExistsBijection(1..n, S)
  BY FS_NatBijection
<1>2. Cardinality(S) = n
  BY <1>1, FS_CountingElements
<1>3. \E f \in [1..Cardinality(S) -> S] : IsInjective(f)
  BY <1>1, <1>2 DEF ExistsBijection, Bijection, Injection
<1>4. SetToSeq(S) \in [1..Cardinality(S) -> S]
  BY <1>3, Zenon DEF SetToSeq
<1> QED
  BY <1>2, <1>4

LEMMA RemovesOne ==
  ASSUME NEW S, NEW s \in Seq(S), NEW k \in DOMAIN s
  PROVE  RemoveAt(s, k) \in Seq(S)
<1>1. DOMAIN s = 1..Len(s) /\ Len(s) \in Nat /\ k \in 1..Len(s) /\ \A i \in 1..Len(s) : s[i] \in S
  OBVIOUS
<1>2. SubSeq(s, 1, k - 1) \in Seq(S)
  BY <1>1, SubSeqProperties
<1>3. SubSeq(s, k + 1, Len(s)) \in Seq(S)
  BY <1>1, SubSeqProperties
<1> QED
  BY <1>2, <1>3, ConcatProperties DEF RemoveAt

-----------------------------------------------------------------------------

\* The daemon's side goes on, and the page has not heard of it: no request is unmade or opened again.
LEMMA AttentionGoesOn ==
  ASSUME AttentionHolds, UNCHANGED attentionPage,
         Requested \subseteq Requested', past \subseteq past',
         \A i \in Items : badgeRow[i] = "closed" => badgeRow'[i] = "closed"
  PROVE  ShownHolds' /\ BannersHold' /\ (UNCHANGED rounds => RoundsHold')
<1>1. UNCHANGED <<items, announced, seen, unshown, asked, pinged, refused, fallback, gone>>
  BY DEF attentionPage
<1>2. ShownHolds' /\ BannersHold'
  BY <1>1 DEF AttentionHolds, ShownHolds, BannersHold, AnsweredStaysDown
<1>3. ASSUME UNCHANGED rounds PROVE RoundsHold'
  BY <1>1, <1>3 DEF AttentionHolds, RoundsHold, Round
<1> QED
  BY <1>2, <1>3

LEMMA RequestsAreMade ==
  ASSUME AttentionHolds, NEW i \in Items, BadgeRequested(i) \/ BadgeAnswered(i) \/ BadgeLapses(i)
  PROVE  AttentionHolds'
<1>1. /\ badgeRow' \in [Items -> {"none", "waiting", "closed"}] /\ past' \subseteq Items /\ past \subseteq past'
      /\ \A j \in Items : badgeRow[j] = "closed" => badgeRow'[j] = "closed"
      /\ Requested' \in {Requested, Requested \cup {i}}
  BY DEF AttentionHolds, BadgeWorldHolds, Requested, Waiting, BadgeRequested, BadgeAnswered, BadgeLapses
<1>2. IsFiniteSet(Requested')
  BY <1>1, FS_AddElement DEF AttentionHolds, BadgeWorldHolds
<1>3. UNCHANGED <<over, badgeUp, stream, outages, due, rounds, attentionPage, reloads>> /\ news' \in BOOLEAN
  BY DEF AttentionHolds, BadgeWorldHolds, BadgeRequested, BadgeAnswered, BadgeLapses, Told,
       attentionWire
<1>4. BadgeWorldHolds'
  BY <1>1, <1>2, <1>3 DEF AttentionHolds, BadgeWorldHolds
<1>5. ShownHolds' /\ BannersHold' /\ RoundsHold'
  BY <1>1, <1>3, AttentionGoesOn
<1> QED
  BY <1>4, <1>5 DEF AttentionHolds

LEMMA TasksEnd ==
  ASSUME AttentionHolds, NEW t \in Tasks, TaskIsOver(t)
  PROVE  AttentionHolds'
<1>1. /\ badgeRow' \in [Items -> {"none", "waiting", "closed"}]
      /\ \A j \in Items : badgeRow[j] = "closed" => badgeRow'[j] = "closed"
      /\ \A j \in Items : badgeRow[j] # "none" <=> badgeRow'[j] # "none"
  BY DEF AttentionHolds, BadgeWorldHolds, TaskIsOver
<1>2. Requested' = Requested
  BY <1>1 DEF Requested
<1>3. UNCHANGED <<past, badgeUp, stream, outages, due, rounds, attentionPage, reloads>> /\ news' \in BOOLEAN
      /\ over' \subseteq Tasks
  BY DEF AttentionHolds, BadgeWorldHolds, TaskIsOver, Told
<1>4. BadgeWorldHolds'
  BY <1>1, <1>2, <1>3 DEF AttentionHolds, BadgeWorldHolds
<1>5. ShownHolds' /\ BannersHold' /\ RoundsHold'
  BY <1>1, <1>2, <1>3, AttentionGoesOn
<1> QED
  BY <1>4, <1>5 DEF AttentionHolds

\* The stream comes and goes, and a round of reads begins.
LEMMA StreamGoesOn ==
  ASSUME AttentionHolds, StreamOpens \/ StreamDrops \/ DaemonReturns \/ Hears \/ Reconciles
  PROVE  AttentionHolds'
<1>1. UNCHANGED <<attentionWorld, attentionPage, reloads>>
  BY DEF StreamOpens, StreamDrops, DaemonReturns, Hears, Reconciles
<1>2. Requested' = Requested
  BY <1>1 DEF attentionWorld, Requested
<1>3. badgeUp' \in BOOLEAN /\ stream' \in BOOLEAN /\ news' \in BOOLEAN /\ due' \in BOOLEAN /\ outages' \in Nat
  <2>1. badgeUp \in BOOLEAN /\ stream \in BOOLEAN /\ news \in BOOLEAN /\ due \in BOOLEAN /\ outages \in Nat
    BY DEF AttentionHolds, BadgeWorldHolds
  <2>2. CASE StreamOpens \/ Hears
    BY <2>1, <2>2 DEF StreamOpens, Hears
  <2>3. CASE StreamDrops
    <3>1. badgeUp' \in BOOLEAN
      BY <2>3 DEF StreamDrops
    <3>2. stream' = FALSE /\ news' = FALSE /\ due' = due /\ outages' = outages + 1
      BY <2>3 DEF StreamDrops
    <3>3. outages' \in Nat
      BY <2>1, <3>2
    <3>4. stream' \in BOOLEAN /\ news' \in BOOLEAN /\ due' \in BOOLEAN
      BY <2>1, <3>2
    <3> QED
      BY <3>1, <3>3, <3>4
  <2>4. CASE DaemonReturns
    BY <2>1, <2>4 DEF DaemonReturns
  <2>5. CASE Reconciles
    BY <2>1, <2>5 DEF Reconciles, attentionWire
  <2> QED
    BY <2>2, <2>3, <2>4, <2>5
<1>4. BadgeWorldHolds'
  BY <1>1, <1>2, <1>3 DEF AttentionHolds, BadgeWorldHolds, attentionWorld
<1>5. ShownHolds' /\ BannersHold' /\ (UNCHANGED rounds => RoundsHold')
  BY <1>1, <1>2, AttentionGoesOn DEF attentionWorld
<1>6. CASE Reconciles
  <2> DEFINE new == [current |-> TRUE, at |-> "rows", got |-> {}]
             old(r) == [r EXCEPT !.current = FALSE]
  <2>1. rounds' = {old(r) : r \in rounds} \cup {new}
    BY <1>6 DEF Reconciles
  <2>2. new \in Round /\ new.got = {} /\ new.at = "rows"
    BY DEF Round
  <2>3. ASSUME NEW r \in rounds
        PROVE  old(r) \in Round /\ old(r).current = FALSE /\ old(r).got \subseteq Requested
    BY DEF AttentionHolds, RoundsHold, Round
  <2>4. \A q \in rounds' : q = new \/ (q \in Round /\ q.current = FALSE /\ q.got \subseteq Requested)
    <3> HIDE DEF new, old
    <3> QED
      BY <2>1, <2>3
  <2>5. rounds' \subseteq Round
    BY <2>2, <2>4
  <2>6. \A q \in rounds' : q.got \subseteq Requested /\ ~(q.current /\ q.at = "tasks")
    BY <2>2, <2>4
  <2>7. \A q, p \in rounds' : q.current /\ p.current => q = p
    BY <2>4
  <2>8. RoundsHold'
    BY <1>2, <2>5, <2>6, <2>7 DEF RoundsHold
  <2> QED
    BY <1>4, <1>5, <2>8 DEF AttentionHolds
<1>7. CASE ~Reconciles
  <2>1. UNCHANGED rounds
    BY <1>7 DEF StreamOpens, StreamDrops, DaemonReturns, Hears
  <2> QED
    BY <1>4, <1>5, <2>1 DEF AttentionHolds
<1> QED
  BY <1>6, <1>7

LEMMA RowsAreRead ==
  ASSUME AttentionHolds, NEW r \in rounds, ReadsRows(r)
  PROVE  AttentionHolds'
<1>1. UNCHANGED <<attentionWorld, attentionWire, due, attentionPage, reloads>>
  BY DEF ReadsRows
<1>2. Requested' = Requested
  BY <1>1 DEF attentionWorld, Requested
<1>3. BadgeWorldHolds'
  BY <1>1, <1>2 DEF AttentionHolds, BadgeWorldHolds, attentionWorld, attentionWire
<1>4. ShownHolds' /\ BannersHold'
  BY <1>1, <1>2, AttentionGoesOn DEF attentionWorld
<1> DEFINE q == [r EXCEPT !.at = "tasks", !.got = Waiting]
<1>5. r \in Round /\ q \in Round /\ q.got = Waiting /\ q.current = r.current
  BY DEF AttentionHolds, RoundsHold, Round, Waiting
<1>6. Waiting \subseteq Requested /\ Waiting \cap gone = {}
  BY DEF AttentionHolds, ShownHolds, BadgeWorldHolds, Waiting, Requested
<1>7. rounds' \subseteq (rounds \ {r}) \cup {q}
  BY DEF ReadsRows
<1>8. UNCHANGED <<gone, past>>
  BY <1>1 DEF attentionPage, attentionWorld
<1>9. RoundsHold'
  <2> HIDE DEF q, Waiting, Round
  <2>1. rounds' \subseteq Round
    BY <1>5, <1>7 DEF AttentionHolds, RoundsHold
  <2>2. \A s \in rounds' : s.got \subseteq Requested /\ (s.current /\ s.at = "tasks" => s.got \cap gone \subseteq past)
    BY <1>5, <1>6, <1>7 DEF AttentionHolds, RoundsHold
  <2>3. \A s, p \in rounds' : s.current /\ p.current => s = p
    BY <1>5, <1>7 DEF AttentionHolds, RoundsHold
  <2> QED
    BY <1>2, <1>8, <2>1, <2>2, <2>3 DEF RoundsHold
<1> QED
  BY <1>3, <1>4, <1>9 DEF AttentionHolds

\* The page is brought up to what was found: what it took down before stays down, and what is new is pinged.
LEMMA Synced ==
  ASSUME AttentionHolds, NEW found, found \subseteq Requested, found \cap gone \subseteq past,
         UNCHANGED attentionWorld, Sync(found)
  PROVE  /\ ShownHolds' /\ BannersHold'
         /\ \A i \in gone' \ gone : i \in items /\ i \notin found \ past
<1> DEFINE live == found \ past
           fresh == live \ announced
<1>1. /\ items' = live /\ announced' = announced \cup live
      /\ gone' = gone \cup {i \in items \ live : badgeRow[i] = "closed"}
      /\ IF Native THEN Notifies(fresh) ELSE Announces(live)
      /\ UNCHANGED <<refused, fallback, badgeRow, past>>
  BY DEF Sync, attentionWorld
<1>2. Requested' = Requested /\ Requested \subseteq Items /\ live \subseteq Items /\ fresh \subseteq Requested
  BY <1>1 DEF Requested
<1>3. ShownHolds'
  <2>1. items' \cap gone' = {}
    BY <1>1
  <2>2. items' \subseteq Requested' /\ gone' \subseteq Items
    BY <1>1, <1>2 DEF AttentionHolds, ShownHolds
  <2>3. \A i \in gone' : badgeRow'[i] = "closed"
    BY <1>1 DEF AttentionHolds, ShownHolds
  <2> QED
    BY <2>1, <2>2, <2>3 DEF ShownHolds, AnsweredStaysDown
<1>4. BannersHold'
  <2> HIDE DEF live, fresh
  <2>1. CASE Native
    <3>1. unshown' \in Seq(Items)
      <4>1. IsFiniteSet(fresh)
        BY <1>2, FS_Subset DEF AttentionHolds, BadgeWorldHolds
      <4>2. SetToSeq(fresh) \in Seq(fresh)
        BY <4>1, ListsMembers
      <4>3. fresh \subseteq Items
        BY <1>2
      <4>4. SetToSeq(fresh) \in Seq(Items)
        BY <4>2, <4>3, SeqMonotonic
      <4>5. unshown' = unshown \o SetToSeq(fresh) /\ unshown \in Seq(Items)
        BY <1>1, <2>1 DEF Notifies, AttentionHolds, BannersHold
      <4> HIDE DEF SetToSeq
      <4> QED
        BY <4>4, <4>5, ConcatProperties
    <3>2. asked' \subseteq Items /\ announced' \subseteq Items /\ UNCHANGED <<refused, fallback, seen>>
      BY <1>1, <1>2, <2>1 DEF Notifies, AttentionHolds, BannersHold
    <3>3. pinged' \in [Items -> Nat]
      BY <1>1, <2>1 DEF Notifies, Raised, AttentionHolds, BannersHold
    <3> QED
      BY <2>1, <3>1, <3>2, <3>3 DEF AttentionHolds, BannersHold
  <2>2. CASE ~Native
    <3>1. pinged' = Raised(live \ seen) /\ seen' = seen \cup live /\ UNCHANGED <<unshown, asked, refused, fallback>>
      BY <1>1, <2>2 DEF Announces, Remembers
    <3>2. pinged' \in [Items -> Nat] /\ \A i \in Items : pinged'[i] <= 1 /\ (i \notin seen' => pinged'[i] = 0)
      BY <2>2, <3>1 DEF Raised, AttentionHolds, BannersHold
    <3> QED
      BY <1>1, <1>2, <3>1, <3>2 DEF AttentionHolds, BannersHold
  <2> QED
    BY <2>1, <2>2
<1> QED
  BY <1>1, <1>3, <1>4

LEMMA TasksAreRead ==
  ASSUME AttentionHolds, NEW r \in rounds, ReadsTasks(r)
  PROVE  AttentionHolds'
<1>1. UNCHANGED <<attentionWorld, attentionWire, due, reloads>> /\ rounds' = rounds \ {r} /\ r.at = "tasks"
  BY DEF ReadsTasks
<1>2. Requested' = Requested
  BY <1>1 DEF attentionWorld, Requested
<1>3. BadgeWorldHolds'
  BY <1>1, <1>2 DEF AttentionHolds, BadgeWorldHolds, attentionWorld, attentionWire
<1>4. CASE r.current
  <2>1. Sync(Kept(r)) /\ Kept(r) \subseteq Requested /\ Kept(r) \cap gone \subseteq past
    BY <1>1, <1>4 DEF ReadsTasks, Kept, AttentionHolds, RoundsHold
  <2>2. ShownHolds' /\ BannersHold'
    BY <1>1, <2>1, Synced
  <2>3. \A s \in rounds' : ~s.current
    BY <1>1, <1>4 DEF AttentionHolds, RoundsHold
  <2>4. RoundsHold'
    BY <1>1, <1>2, <2>3 DEF AttentionHolds, RoundsHold, Round
  <2> QED
    BY <1>3, <2>2, <2>4 DEF AttentionHolds
<1>5. CASE ~r.current
  <2>1. UNCHANGED attentionPage
    BY <1>5 DEF ReadsTasks
  <2>2. ShownHolds' /\ BannersHold'
    BY <1>1, <1>2, <2>1, AttentionGoesOn DEF attentionWorld
  <2>3. RoundsHold'
    BY <1>1, <1>2, <2>1 DEF AttentionHolds, RoundsHold, Round, attentionPage, attentionWorld
  <2> QED
    BY <1>3, <2>2, <2>3 DEF AttentionHolds
<1> QED
  BY <1>4, <1>5

LEMMA TimesRunOut ==
  ASSUME AttentionHolds, Expires
  PROVE  AttentionHolds'
<1>1. UNCHANGED <<attentionWorld, attentionWire, due, rounds, reloads>> /\ Sync(items)
  BY DEF Expires
<1>2. Requested' = Requested /\ UNCHANGED past
  BY <1>1 DEF attentionWorld, Requested
<1>3. BadgeWorldHolds'
  BY <1>1, <1>2 DEF AttentionHolds, BadgeWorldHolds, attentionWorld, attentionWire
<1>4. items \subseteq Requested /\ items \cap gone \subseteq past
  BY DEF AttentionHolds, ShownHolds, AnsweredStaysDown
<1>5. ShownHolds' /\ BannersHold' /\ \A i \in gone' \ gone : i \in past
  BY <1>1, <1>4, Synced
<1>6. RoundsHold'
  BY <1>1, <1>2, <1>5 DEF AttentionHolds, RoundsHold, Round
<1> QED
  BY <1>3, <1>5, <1>6 DEF AttentionHolds

\* The shell's answer, and the page that is loaded again.
LEMMA ShellAnswers ==
  ASSUME AttentionHolds, NEW i \in Items, ShellTakes(i) \/ ShellRefuses(i)
  PROVE  AttentionHolds'
<1>1. UNCHANGED <<attentionWorld, attentionWire, due, rounds, reloads, items, announced, pinged, gone>>
      /\ asked' = asked \ {i}
  BY DEF ShellTakes, ShellRefuses
<1>2. Requested' = Requested
  BY <1>1 DEF attentionWorld, Requested
<1>3. BadgeWorldHolds' /\ RoundsHold' /\ ShownHolds'
  <2>1. BadgeWorldHolds'
    BY <1>1, <1>2 DEF AttentionHolds, BadgeWorldHolds, attentionWorld, attentionWire
  <2>2. RoundsHold' /\ ShownHolds'
    BY <1>1, <1>2 DEF AttentionHolds, RoundsHold, ShownHolds, Round, attentionWorld, AnsweredStaysDown
  <2> QED
    BY <2>1, <2>2
<1>4. BannersHold'
  <2>1. CASE UNCHANGED <<unshown, refused, fallback, seen>>
    BY <1>1, <2>1 DEF AttentionHolds, BannersHold
  <2>2. CASE Unshown(TaskOf(i)) # {} /\ HandsBack(TaskOf(i))
    <3> DEFINE S == Unshown(TaskOf(i))
               k == CHOOSE n \in S : \A l \in S : n <= l
    <3>1. unshown \in Seq(Items) /\ DOMAIN unshown = 1..Len(unshown) /\ Len(unshown) \in Nat
      BY DEF AttentionHolds, BannersHold
    <3>2. S \subseteq Nat /\ S \subseteq DOMAIN unshown
      BY <3>1 DEF Unshown
    <3>3. k \in DOMAIN unshown
      <4>1. \E n \in S : \A l \in S : n <= l
        BY <2>2, <3>2, LeastIndex
      <4>2. k \in S
        <5> HIDE DEF S
        <5> QED
          BY <4>1, Zenon
      <4> QED
        BY <3>2, <4>2
    <3>4. unshown[k] \in Items /\ RemoveAt(unshown, k) \in Seq(Items)
      <4> HIDE DEF k
      <4> QED
        BY <3>1, <3>3, RemovesOne
    <3>5. /\ unshown' = RemoveAt(unshown, k) /\ refused' = refused \cup {unshown[k]}
          /\ fallback' \subseteq fallback \cup {unshown[k]} /\ seen' = seen \cup {TaskOf(i)}
      BY <2>2 DEF HandsBack, Remembers
    <3>6. TaskOf(i) \in Tasks
      BY AttentionAssumption
    <3> HIDE DEF k, S
    <3>7. unshown' \in Seq(Items) /\ refused' \subseteq Items /\ fallback' \subseteq Items
          /\ seen' \subseteq Items \cup Tasks /\ seen \subseteq seen'
      BY <3>4, <3>5, <3>6 DEF AttentionHolds, BannersHold
    <3> QED
      BY <1>1, <3>7 DEF AttentionHolds, BannersHold
  <2> QED
    BY <2>1, <2>2 DEF ShellTakes, ShellRefuses
<1> QED
  BY <1>3, <1>4 DEF AttentionHolds

LEMMA Reloaded ==
  ASSUME AttentionHolds, Reload
  PROVE  AttentionHolds'
<1>1. Requested' = Requested
  BY DEF Reload, attentionWorld, Requested
<1>2. BadgeWorldHolds'
  <2>1. /\ UNCHANGED <<badgeRow, past, over, badgeUp, outages>> /\ reloads' = reloads + 1
        /\ stream' = FALSE /\ news' = FALSE /\ due' = FALSE
    BY DEF Reload, attentionWorld
  <2>2. reloads' \in Nat
    BY <2>1 DEF AttentionHolds, BadgeWorldHolds
  <2> QED
    BY <1>1, <2>1, <2>2 DEF AttentionHolds, BadgeWorldHolds
<1>3. RoundsHold' /\ ShownHolds'
  BY DEF Reload, RoundsHold, ShownHolds, AnsweredStaysDown
<1>4. BannersHold'
  <2>1. unshown' \in Seq(Items)
    BY DEF Reload
  <2> QED
    BY <2>1 DEF Reload, AttentionHolds, BannersHold
<1> QED
  BY <1>2, <1>3, <1>4 DEF AttentionHolds

LEMMA AttentionBegins == AttentionInit => AttentionHolds
<1> SUFFICES ASSUME AttentionInit PROVE AttentionHolds
  OBVIOUS
<1>1. Requested = {}
  BY DEF AttentionInit, Requested
<1>2. BadgeWorldHolds
  BY <1>1, FS_EmptySet DEF AttentionInit, BadgeWorldHolds
<1>3. RoundsHold /\ ShownHolds
  BY DEF AttentionInit, RoundsHold, ShownHolds, AnsweredStaysDown
<1>4. BannersHold
  <2>1. unshown \in Seq(Items)
    BY DEF AttentionInit
  <2> QED
    BY <2>1 DEF AttentionInit, BannersHold
<1> QED
  BY <1>2, <1>3, <1>4 DEF AttentionHolds

LEMMA AttentionAlways == AttentionSpec => []AttentionHolds
<1>1. AttentionHolds /\ [AttentionNext]_attentionVars => AttentionHolds'
  <2> SUFFICES ASSUME AttentionHolds, [AttentionNext]_attentionVars PROVE AttentionHolds'
    OBVIOUS
  <2>1. CASE UNCHANGED attentionVars
    <3>1. UNCHANGED <<attentionWorld, attentionWire, due, rounds, attentionPage, reloads>>
      BY <2>1 DEF attentionVars
    <3>2. Requested' = Requested
      BY <3>1 DEF attentionWorld, Requested
    <3>3. BadgeWorldHolds'
      BY <3>1, <3>2 DEF AttentionHolds, BadgeWorldHolds, attentionWorld, attentionWire
    <3>4. ShownHolds' /\ BannersHold' /\ RoundsHold'
      BY <3>1, <3>2, AttentionGoesOn DEF attentionWorld
    <3> QED
      BY <3>3, <3>4 DEF AttentionHolds
  <2> QED
    BY <2>1, RequestsAreMade, TasksEnd, StreamGoesOn, RowsAreRead, TasksAreRead, TimesRunOut,
         ShellAnswers, Reloaded
       DEF AttentionNext
<1> QED
  BY <1>1, AttentionBegins, PTL DEF AttentionSpec

LEMMA AttentionIsSafe == ASSUME AttentionHolds PROVE AttentionTypeOK /\ OnePing /\ AnsweredStaysDown
<1>1. Range(unshown) \subseteq Items
  BY DEF AttentionHolds, BannersHold, Range
<1>2. items \subseteq Items
  BY DEF AttentionHolds, ShownHolds, Requested
<1> QED
  BY <1>1, <1>2 DEF AttentionHolds, BadgeWorldHolds, RoundsHold, ShownHolds, BannersHold,
       AttentionTypeOK, OnePing, Round

-----------------------------------------------------------------------------
(* The pages together *)

\* A task is made of a press that was not cancelled, and of each press one (ui/home.ts: start, startQueued).
THEOREM OnlyWhatWasAskedCorrect == HomeSpec => OnlyWhatWasAsked
BY HomeAlways, PTL

\* The pane connects by itself only for a sign-in that is still owed (ui/connection.ts: refresh, connect).
THEOREM ConnectsOnlyForASignInCorrect == SignInSpec => ConnectsOnlyForASignIn
BY SignAlways, PTL

LEMMA PagesHaveParts == Spec => LiveSpec /\ PageSpec /\ HomeSpec /\ SignInSpec /\ AttentionSpec /\ SessionsSpec
<1>1. Init => LiveInit /\ PageInit /\ HomeInit /\ SignInInit /\ AttentionInit /\ SessionsInit
  BY DEF Init
<1>2. [Next]_allPageVars => /\ [LiveNext]_liveVars /\ [PageNext]_pageVars /\ [HomeNext]_homeVars
                            /\ [SignInNext]_signInVars /\ [AttentionNext]_attentionVars
                            /\ [SessionsNext]_sessionsVars
  BY DEF Next, allPageVars
<1> QED
  BY <1>1, <1>2, PTL DEF Spec, LiveSpec, PageSpec, HomeSpec, SignInSpec, AttentionSpec, SessionsSpec

\* What is on the screen is so, whatever answers late: the picture is of the control the page knows of
\* (ui/live/session.ts), the page shows the task it is at (ui/task.ts: load, reset), a browser pings once
\* for a request (ui/takeover-pings.ts) and what was answered and taken down stays down (ui/native.ts).
THEOREM PagesAreSafe == Spec => []PagesSafe
<1>1. LiveHolds /\ PageHolds /\ HomeHolds /\ SignInHolds /\ AttentionHolds /\ SessionsHold => PagesSafe
  <2> SUFFICES ASSUME LiveHolds, PageHolds, HomeHolds, SignInHolds, AttentionHolds, SessionsHold
               PROVE  PagesSafe
    OBVIOUS
  <2>1. LiveTypeOK /\ ReadyIsCurrent
    BY LiveIsSafe
  <2>2. PageTypeOK /\ ShowsItsTask
    BY PageIsSafe
  <2>3. HomeTypeOK /\ SignInTypeOK
    BY HomeIsSafe, SignIsSafe
  <2>4. AttentionTypeOK /\ OnePing /\ AnsweredStaysDown
    BY AttentionIsSafe
  <2>5. SessionsTypeOK
    BY DEF SessionsHold
  <2> QED
    BY <2>1, <2>2, <2>3, <2>4, <2>5 DEF PagesSafe
<1> QED
  BY <1>1, PagesHaveParts, LiveAlways, PageAlways, HomeAlways, SignAlways, AttentionAlways,
       SessionsAlways, PTL

===============================================================================
