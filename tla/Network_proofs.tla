---------------------------- MODULE Network_proofs ---------------------------
(***************************************************************************)
(* Proofs about what a computer shows and reaches: the tabs of its         *)
(* browser, the proxy, destinations, and how computers and their networks  *)
(* are built.  MCHost puts them beside what the host keeps (module         *)
(* Host_proofs).                                                           *)
(*                                                                         *)
(* Each part has an inductive invariant: its types, and what the steps on  *)
(* the way to a property hold to (which tab a reference was made for, the  *)
(* address a request was vetted for, the octet a role was planned with).   *)
(* It is kept by a lemma per action or per kind of step. A decision about  *)
(* a destination is a pure operator: that two spellings of one host get    *)
(* one answer is a lemma about it.                                         *)
(***************************************************************************)
EXTENDS BrowserTabs, Egress, Destinations, Provision, FiniteSetTheorems, SequenceTheorems, WellFoundedInduction, TLAPS

-----------------------------------------------------------------------------
(* Tabs *)

TabRow == [open : BOOLEAN, crashed : BOOLEAN, doc : 1..DocBound, snapped : Nat, refused : BOOLEAN,
           byHuman : BOOLEAN, event : {"opener", "attach", "follow", "over"}]
\* A request: its place, and that a reference is acted on where its snapshot says.
RequestRow == [at : {"none", "acts", "again", "resolves", "shows", "recovers", "ended"},
               what : Clicks \cup Others \cup {"none"}, tab : Nat, snap : Nat, acts : Nat]
OnItsTab == req.snap \in DOMAIN snaps /\ req.tab = snaps[req.snap].tab
RequestsHold ==
    /\ req \in RequestRow /\ req.tab \in 0..Len(tab)
    /\ req.at = "resolves" => req.what \in Clicks /\ req.snap \in DOMAIN snaps
    /\ req.at = "acts" /\ req.what \in Clicks => OnItsTab
    /\ req.acts > 0 => OnItsTab /\ req.what \in Clicks /\ req.at \in {"recovers", "ended"}
\* The tabs, what points at them, and the snapshots
TabsHold ==
    /\ tab \in Seq(TabRow) /\ Len(tab) <= TabBound
    /\ \A i \in DOMAIN tab : tab[i].snapped <= tab[i].doc
    /\ TabsCapped /\ NoAgentPopup
PointersHold ==
    /\ actionTab \in 0..Len(tab) /\ liveTab \in 0..Len(tab) /\ relayTab \in 0..Len(tab)
    /\ mode \in {"agent", "human", "validating"}
    /\ gate \in {"agent", "requested", "human", "paused", "validating"}
    /\ guarded \in BOOLEAN /\ denied \in BOOLEAN
SnapsHold == snaps \in Seq([tab : Nat, doc : Nat]) /\ \A s \in DOMAIN snaps : snaps[s].tab \in DOMAIN tab
TabInv == TabsHold /\ PointersHold /\ SnapsHold /\ RequestsHold

LEMMA TabInvIsSafe == TabInv => TabSafe
<1> SUFFICES ASSUME TabInv PROVE TabSafe
  OBVIOUS
<1>1. \A i \in DOMAIN tab : tab[i] \in TabRow
  BY DEF TabInv, TabsHold
<1>2. TabTypeOK
  BY <1>1 DEF TabInv, TabsHold, PointersHold, SnapsHold, TabRow, RequestsHold, RequestRow, TabTypeOK,
       TabIds
<1> QED
  BY <1>2 DEF TabInv, TabsHold, RequestsHold, OnItsTab, TabSafe, RefOnItsTab

\* Some natural numbers have a least one, and some tabs a newest and an oldest.
LEMMA LeastNatural ==
  ASSUME NEW S \in SUBSET Nat, S # {}
  PROVE  \E n \in S : \A m \in S : n <= m
<1>1. PICK n \in S : \A m \in S : ~(<<m, n>> \in OpToRel(<, Nat))
  BY NatLessThanWellFounded, WFMin, Zenon
<1>2. \A m \in S : ~(m < n)
  BY <1>1 DEF OpToRel
<1> QED
  BY <1>2
LEMMA MaxOfTabs ==
  ASSUME NEW n \in Nat, NEW S \in SUBSET (1..n), S # {}
  PROVE  Max(S) \in S
<1> DEFINE Below == {m \in Nat : \E i \in S : m = n - i}
<1>1. Below \in SUBSET Nat /\ Below # {}
  <2>1. PICK i \in S : TRUE
    OBVIOUS
  <2>2. n - i \in Nat
    BY <2>1
  <2> QED
    BY <2>1, <2>2
<1>2. PICK m \in Below : \A k \in Below : m <= k
  <2> HIDE DEF Below
  <2> QED BY <1>1, LeastNatural
<1>3. PICK i \in S : m = n - i
  OBVIOUS
<1>4. \A j \in S : i >= j
  <2> SUFFICES ASSUME NEW j \in S PROVE i >= j
    OBVIOUS
  <2>1. n - j \in Below
    OBVIOUS
  <2>2. m <= n - j
    BY <1>2, <2>1
  <2> QED
    BY <2>2, <1>3
<1> QED
  BY <1>4 DEF Max
LEMMA MinOfTabs ==
  ASSUME NEW n \in Nat, NEW S \in SUBSET (1..n), S # {}
  PROVE  Min(S) \in S
<1>1. S \in SUBSET Nat
  OBVIOUS
<1>2. PICK i \in S : \A j \in S : i <= j
  BY <1>1, LeastNatural
<1> QED
  BY <1>2 DEF Min

LEMMA NewestIsTab ==
  ASSUME NEW ts \in Seq(TabRow)
  PROVE  Newest(ts) \in 0..Len(ts)
<1>1. Open(ts) \in SUBSET (1..Len(ts)) /\ Len(ts) \in Nat
  BY DEF Open
<1> QED
  BY <1>1, MaxOfTabs DEF Newest, NoTab

\* The tabs that the cap counts
Counted(r) == r.open /\ ~r.byHuman /\ r.event \in {"follow", "over"}
\* A row that may stand in the list: one that the cap does not count, unless it stood there before,
\* and no popup that was refused.
MayStand(r) == r.snapped <= r.doc /\ (r.open /\ r.refused => r.event = "opener")

LEMMA CountedAreFinite ==
  ASSUME NEW ts \in Seq(TabRow)
  PROVE  LET S == {i \in Open(ts) : ~ts[i].byHuman /\ ts[i].event \in {"follow", "over"}}
         IN  /\ S = {i \in DOMAIN ts : Counted(ts[i])}
             /\ IsFiniteSet(S) /\ IsFiniteSet(Open(ts)) /\ Cardinality(Open(ts)) \in Nat
<1> DEFINE S == {i \in Open(ts) : ~ts[i].byHuman /\ ts[i].event \in {"follow", "over"}}
<1>1. IsFiniteSet(1..Len(ts))
  BY FS_Interval
<1>2. Open(ts) \subseteq 1..Len(ts) /\ S \subseteq 1..Len(ts)
  BY DEF Open
<1>3. IsFiniteSet(S) /\ IsFiniteSet(Open(ts))
  BY <1>1, <1>2, FS_Subset
<1>4. S = {i \in DOMAIN ts : Counted(ts[i])}
  BY DEF Open, Counted
<1> QED
  BY <1>3, <1>4, FS_CardinalityType

\* Tabs whose rows may stand hold their part of the invariant if what the cap counts was counted before.
LEMMA TabsStep ==
  ASSUME TabInv, tab' \in Seq(TabRow), Len(tab') <= TabBound,
         \A i \in DOMAIN tab' : MayStand(tab'[i]),
         \A i \in DOMAIN tab' : Counted(tab'[i]) => i \in DOMAIN tab /\ Counted(tab[i])
  PROVE  TabsHold'
<1> DEFINE Now == {i \in Open(tab) : ~tab[i].byHuman /\ tab[i].event \in {"follow", "over"}}
           Then == {i \in Open(tab') : ~tab'[i].byHuman /\ tab'[i].event \in {"follow", "over"}}
<1>1. IsFiniteSet(Now) /\ Now = {i \in DOMAIN tab : Counted(tab[i])}
  BY CountedAreFinite DEF TabInv, TabsHold
<1>2. Then = {i \in DOMAIN tab' : Counted(tab'[i])}
  BY CountedAreFinite
<1>3. Then \subseteq Now
  BY <1>1, <1>2
<1>4. Cardinality(Then) <= Cardinality(Now) /\ Cardinality(Now) \in Nat /\ Cardinality(Then) \in Nat
  BY <1>1, <1>3, FS_Subset, FS_CardinalityType
<1>5. TabsCapped'
  <2>1. Cardinality(Now) <= MaxTabs
    BY DEF TabInv, TabsHold, TabsCapped
  <2> QED
    BY <1>4, <2>1, TabAssumption DEF TabsCapped
<1>6. NoAgentPopup'
  BY DEF NoAgentPopup, TabIds, IsOpen, Open, MayStand
<1> QED
  BY <1>5, <1>6 DEF TabsHold, MayStand

\* One row is written over.
LEMMA RowStep ==
  ASSUME TabInv, NEW i \in DOMAIN tab, NEW r \in TabRow, tab' = [tab EXCEPT ![i] = r],
         MayStand(r), Counted(r) => Counted(tab[i])
  PROVE  TabsHold' /\ Len(tab') = Len(tab) /\ DOMAIN tab' = DOMAIN tab /\ tab' \in Seq(TabRow)
<1>1. tab \in Seq(TabRow) /\ Len(tab) <= TabBound /\ \A j \in DOMAIN tab : MayStand(tab[j])
  BY DEF TabInv, TabsHold, NoAgentPopup, TabIds, IsOpen, Open, MayStand
<1>2. tab' \in Seq(TabRow) /\ Len(tab') = Len(tab) /\ DOMAIN tab' = DOMAIN tab
  BY <1>1
<1>3. \A j \in DOMAIN tab' : MayStand(tab'[j]) /\ (Counted(tab'[j]) => j \in DOMAIN tab /\ Counted(tab[j]))
  <2> SUFFICES ASSUME NEW j \in DOMAIN tab
               PROVE  MayStand(tab'[j]) /\ (Counted(tab'[j]) => Counted(tab[j]))
    BY <1>2
  <2>1. CASE i = j
    BY <2>1, <1>1
  <2>2. CASE i # j
    BY <2>2, <1>1
  <2> QED BY <2>1, <2>2
<1> QED
  BY <1>1, <1>2, <1>3, TabsStep

\* A tab is opened whose event is still to come.
LEMMA OpenStep ==
  ASSUME TabInv, Len(tab) < TabBound, NEW ts \in Seq(TabRow), Len(ts) = Len(tab),
         \A i \in DOMAIN ts : MayStand(ts[i]) /\ (Counted(ts[i]) => Counted(tab[i])),
         NEW r \in TabRow, MayStand(r), ~Counted(r), tab' = Append(ts, r)
  PROVE  TabsHold' /\ Len(tab') = Len(tab) + 1
<1>1. tab \in Seq(TabRow) /\ Len(tab) \in Nat /\ DOMAIN ts = DOMAIN tab
  BY DEF TabInv, TabsHold
<1>2. tab' \in Seq(TabRow) /\ Len(tab') = Len(tab) + 1
  BY <1>1
<1>3. Len(tab') <= TabBound
  BY <1>1, <1>2, TabAssumption
<1>4. \A j \in DOMAIN tab' : MayStand(tab'[j]) /\ (Counted(tab'[j]) => j \in DOMAIN tab /\ Counted(tab[j]))
  <2> SUFFICES ASSUME NEW j \in DOMAIN tab'
               PROVE  MayStand(tab'[j]) /\ (Counted(tab'[j]) => j \in DOMAIN tab /\ Counted(tab[j]))
    OBVIOUS
  <2>1. CASE j = Len(ts) + 1
    BY <2>1, <1>1
  <2>2. CASE j # Len(ts) + 1
    <3>1. j \in DOMAIN ts /\ tab'[j] = ts[j]
      BY <2>2, <1>1
    <3> QED BY <3>1, <1>1
  <2> QED BY <2>1, <2>2
<1> QED
  BY <1>2, <1>3, <1>4, TabsStep

\* What points at tabs still does when the list has not become shorter.
LEMMA OthersStay ==
  ASSUME TabInv, tab' \in Seq(TabRow), Len(tab') >= Len(tab)
  PROVE  /\ UNCHANGED <<actionTab, liveTab, relayTab, mode, gate, guarded, denied>> => PointersHold'
         /\ UNCHANGED snaps => SnapsHold'
         /\ UNCHANGED <<snaps, req>> => RequestsHold'
<1>1. tab \in Seq(TabRow) /\ Len(tab) \in Nat /\ Len(tab') \in Nat
  BY DEF TabInv, TabsHold
<1>2. UNCHANGED <<actionTab, liveTab, relayTab, mode, gate, guarded, denied>> => PointersHold'
  BY <1>1 DEF TabInv, PointersHold
<1>3. UNCHANGED snaps => SnapsHold'
  BY <1>1 DEF TabInv, SnapsHold
<1>4. UNCHANGED <<snaps, req>> => RequestsHold'
  BY <1>1 DEF TabInv, RequestsHold, OnItsTab
<1> QED
  BY <1>2, <1>3, <1>4

LEMMA BoundsAreNumbers == DocBound \in Nat /\ DocBound >= 2 /\ TabBound \in Nat /\ TabBound >= 1
                           /\ MaxTabs \in Nat /\ MaxTabs >= 1
BY TabAssumption
LEMMA TabFacts ==
  ASSUME TabInv
  PROVE  /\ tab \in Seq(TabRow) /\ Len(tab) \in Nat /\ DOMAIN tab = 1..Len(tab)
         /\ \A i \in DOMAIN tab : tab[i] \in TabRow /\ MayStand(tab[i])
BY DEF TabInv, TabsHold, NoAgentPopup, TabIds, IsOpen, Open, MayStand

\* followLivePage and a close leave the screencast on a tab, or on none.
LEMMA FollowStays ==
  ASSUME TabInv, NEW ts \in Seq(TabRow), Len(ts) = Len(tab), FollowIn(ts) \/ UNCHANGED liveTab
  PROVE  liveTab' \in 0..Len(tab)
<1>1. Newest(ts) \in 0..Len(tab)
  BY NewestIsTab
<1> QED
  BY <1>1 DEF FollowIn, TabInv, PointersHold

\* A step that writes one row over, moves at most the screencast and may leave a denial.
LEMMA EventStep ==
  ASSUME TabInv, NEW i \in DOMAIN tab, NEW r \in TabRow, tab' = [tab EXCEPT ![i] = r],
         MayStand(r), Counted(r) => Counted(tab[i]),
         FollowIn(tab) \/ FollowIn(tab') \/ UNCHANGED liveTab, denied' \in BOOLEAN,
         UNCHANGED <<actionTab, relayTab, mode, gate, guarded, snaps, req>>
  PROVE  TabInv'
<1>1. TabsHold' /\ Len(tab') = Len(tab) /\ tab' \in Seq(TabRow) /\ tab \in Seq(TabRow) /\ Len(tab) \in Nat
  BY RowStep, TabFacts
<1>2. liveTab' \in 0..Len(tab)
  BY <1>1, FollowStays
<1>3. SnapsHold' /\ RequestsHold'
  BY <1>1, OthersStay
<1>4. PointersHold'
  BY <1>1, <1>2 DEF TabInv, PointersHold
<1> QED
  BY <1>1, <1>3, <1>4 DEF TabInv

LEMMA FreshIsTab ==
  ASSUME NEW popup \in BOOLEAN
  PROVE  Fresh(popup) \in TabRow /\ MayStand(Fresh(popup)) /\ ~Counted(Fresh(popup))
<1>1. (popup /\ TabActive) \in BOOLEAN /\ (mode = "human") \in BOOLEAN
  OBVIOUS
<1>2. (IF TabActive THEN "opener" ELSE "attach") \in {"opener", "attach"}
  OBVIOUS
<1>3. 1 \in 1..DocBound
  BY BoundsAreNumbers
<1>4. Fresh(popup) \in TabRow /\ MayStand(Fresh(popup)) /\ ~Counted(Fresh(popup))
  <2> DEFINE refused == popup /\ TabActive
             event == IF TabActive THEN "opener" ELSE "attach"
             human == mode = "human"
  <2>1. refused \in BOOLEAN /\ event \in {"opener", "attach"} /\ human \in BOOLEAN
    BY <1>1, <1>2
  <2>3. refused => event = "opener"
    OBVIOUS
  <2>2. Fresh(popup) = [open |-> TRUE, crashed |-> FALSE, doc |-> 1, snapped |-> 0, refused |-> refused,
                        byHuman |-> human, event |-> event]
    BY Zenon DEF Fresh
  <2> HIDE DEF refused, event, human
  <2> QED
    BY <2>1, <2>2, <2>3, <1>3 DEF TabRow, MayStand, Counted
<1> QED
  BY <1>4

LEMMA FirstIsTab == LET r == [Fresh(FALSE) EXCEPT !.event = "over"] IN r \in TabRow /\ MayStand(r)
<1> DEFINE r == [Fresh(FALSE) EXCEPT !.event = "over"]
<1>1. Fresh(FALSE) \in TabRow /\ MayStand(Fresh(FALSE))
  BY FreshIsTab
<1>2. Fresh(FALSE).refused = FALSE
  BY DEF Fresh
<1> HIDE DEF r
<1>3. r = [Fresh(FALSE) EXCEPT !.event = "over"]
  BY DEF r
<1>4. r \in TabRow /\ MayStand(r)
  BY <1>1, <1>2, <1>3 DEF TabRow, MayStand
<1> QED
  BY <1>4 DEF r

LEMMA PageOpensKeeps == ASSUME TabInv, PageOpens PROVE TabInv'
<1>1. PICK popup \in BOOLEAN : tab' = Append(tab, Fresh(popup))
  BY DEF PageOpens
<1>2. TabsHold' /\ Len(tab') = Len(tab) + 1
  BY <1>1, TabFacts, FreshIsTab, OpenStep DEF PageOpens
<1>3. tab' \in Seq(TabRow) /\ Len(tab') >= Len(tab)
  BY <1>2, TabFacts DEF TabsHold
<1> QED
  BY <1>2, <1>3, OthersStay DEF PageOpens, TabInv

LEMMA EventsKeep ==
  ASSUME TabInv, NEW i \in TabIds,
         OpenerKnown(i) \/ AttachFails(i) \/ Follows(i) \/ PageCloses(i) \/ PageCrashes(i) \/ PageLoads(i)
  PROVE  TabInv'
<1>1. i \in DOMAIN tab /\ tab[i] \in TabRow /\ MayStand(tab[i]) /\ denied \in BOOLEAN /\ tab \in Seq(TabRow)
  BY TabFacts DEF TabIds, TabInv, PointersHold
<1>2. CASE OpenerKnown(i)
  <2>1. CASE tab[i].refused
    <3> DEFINE r == [tab[i] EXCEPT !.open = FALSE, !.event = "over"]
    <3>1. r \in TabRow /\ MayStand(r) /\ ~Counted(r)
      BY <1>1 DEF TabRow, MayStand, Counted
    <3>2. tab' = [tab EXCEPT ![i] = r] /\ denied' \in BOOLEAN
      BY <1>1, <1>2, <2>1 DEF OpenerKnown, TabRow
    <3> QED
      BY <1>1, <1>2, <3>1, <3>2, EventStep DEF OpenerKnown
  <2>2. CASE ~tab[i].refused
    <3> DEFINE r == [tab[i] EXCEPT !.event = "attach"]
    <3>1. r \in TabRow /\ MayStand(r) /\ ~Counted(r)
      BY <1>1, <2>2 DEF TabRow, MayStand, Counted
    <3>2. tab' = [tab EXCEPT ![i] = r] /\ denied' \in BOOLEAN
      BY <1>1, <1>2, <2>2 DEF OpenerKnown, TabRow
    <3> QED
      BY <1>1, <1>2, <3>1, <3>2, EventStep DEF OpenerKnown
  <2> QED BY <2>1, <2>2
<1>3. CASE AttachFails(i)
  <2> DEFINE r == [tab[i] EXCEPT !.event = "over", !.open = @ /\ tab[i].byHuman]
  <2>1. r \in TabRow /\ MayStand(r) /\ ~Counted(r)
    BY <1>1, <1>3 DEF TabRow, MayStand, Counted, AttachFails
  <2>2. tab' = [tab EXCEPT ![i] = r]
    BY <1>1, <1>3 DEF AttachFails, TabRow
  <2> QED
    BY <1>1, <1>3, <2>1, <2>2, EventStep DEF AttachFails
<1>4. CASE Follows(i)
  <2> DEFINE r == [tab[i] EXCEPT !.event = "over"]
  <2>1. r \in TabRow /\ MayStand(r) /\ (Counted(r) => Counted(tab[i]))
    BY <1>1, <1>4 DEF TabRow, MayStand, Counted, Follows
  <2>2. tab' = [tab EXCEPT ![i] = r]
    BY <1>1, <1>4 DEF Follows, TabRow
  <2> QED
    BY <1>1, <1>4, <2>1, <2>2, EventStep DEF Follows
<1>5. CASE PageCloses(i)
  <2> DEFINE r == [tab[i] EXCEPT !.open = FALSE]
  <2>1. r \in TabRow /\ MayStand(r) /\ ~Counted(r)
    BY <1>1 DEF TabRow, MayStand, Counted
  <2>2. tab' = [tab EXCEPT ![i] = r]
    BY <1>1, <1>5 DEF PageCloses, CloseTab, Closed, TabRow
  <2> QED
    BY <1>1, <1>5, <2>1, <2>2, EventStep DEF PageCloses, CloseTab
<1>6. CASE PageCrashes(i)
  <2> DEFINE r == [tab[i] EXCEPT !.crashed = TRUE]
  <2>1. r \in TabRow /\ MayStand(r) /\ (Counted(r) => Counted(tab[i]))
    BY <1>1 DEF TabRow, MayStand, Counted
  <2>2. tab' = [tab EXCEPT ![i] = r]
    BY <1>1, <1>6 DEF PageCrashes, TabRow
  <2> QED
    BY <1>1, <1>6, <2>1, <2>2, EventStep DEF PageCrashes
<1>7. CASE PageLoads(i)
  <2> DEFINE r == [tab[i] EXCEPT !.doc = @ + 1, !.snapped = 0]
  <2>1. r \in TabRow /\ MayStand(r) /\ (Counted(r) => Counted(tab[i]))
    <3>1. tab[i].doc \in 1..DocBound /\ tab[i].doc < DocBound
      BY <1>1, <1>7 DEF TabRow, PageLoads
    <3> DEFINE d == tab[i].doc + 1
    <3>2. d \in 1..DocBound /\ 0 <= d
      BY <3>1, BoundsAreNumbers
    <3>3. r = [tab[i] EXCEPT !.doc = d, !.snapped = 0]
      OBVIOUS
    <3> HIDE DEF d, r
    <3> QED
      BY <1>1, <3>2, <3>3 DEF TabRow, MayStand, Counted
  <2>2. tab' = [tab EXCEPT ![i] = r]
    BY <1>1, <1>7 DEF PageLoads, TabLoads, TabRow
  <2> QED
    BY <1>1, <1>7, <2>1, <2>2, EventStep DEF PageLoads
<1> QED
  BY <1>2, <1>3, <1>4, <1>5, <1>6, <1>7

\* A page that the cap takes in: what is counted may grow only within the cap.
LEMMA AttachesKeeps == ASSUME TabInv, NEW i \in TabIds, Attaches(i) PROVE TabInv'
<1>1. tab \in Seq(TabRow) /\ Len(tab) \in Nat /\ i \in DOMAIN tab /\ tab[i].event = "attach"
  BY TabFacts DEF Attaches, TabIds
<1>2. \A j \in DOMAIN tab : tab[j] \in TabRow /\ MayStand(tab[j])
  BY TabFacts
<1> DEFINE closed(j) == tab[j].open /\ j \notin Excess(i)
           theirs(j) == tab[j].byHuman \/ (j = i /\ mode = "human")
<1>3. tab' = [j \in DOMAIN tab |-> [tab[j] EXCEPT !.open = closed(j), !.event = IF j = i THEN "follow" ELSE tab[j].event,
                                               !.byHuman = theirs(j)]]
  BY Zenon DEF Attaches, TabIds
<1>4. \A j \in DOMAIN tab :
        /\ closed(j) \in BOOLEAN /\ theirs(j) \in BOOLEAN /\ (closed(j) => tab[j].open) /\ (tab[j].byHuman => theirs(j))
        /\ i # j => theirs(j) = tab[j].byHuman
  BY <1>2 DEF TabRow
<1>a. mode = "human" => theirs(i)
  OBVIOUS
<1>b. i \in Excess(i) => ~closed(i)
  OBVIOUS
<1>c. \A j \in DOMAIN tab : closed(j) => j \in Open(tab)
  BY DEF Open
<1> HIDE DEF closed, theirs
<1>5. \A j \in DOMAIN tab : tab'[j] \in TabRow /\ MayStand(tab'[j])
  <2> SUFFICES ASSUME NEW j \in DOMAIN tab PROVE tab'[j] \in TabRow /\ MayStand(tab'[j])
    OBVIOUS
  <2>1. CASE i = j
    <3>1. tab'[j] = [tab[j] EXCEPT !.open = closed(j), !.event = "follow", !.byHuman = theirs(j)]
      BY <1>3, <2>1
    <3>2. closed(j) => tab[j].refused = FALSE
      BY <1>1, <1>2, <1>4, <2>1 DEF MayStand, TabRow
    <3> QED BY <3>1, <3>2, <1>2, <1>4 DEF TabRow, MayStand
  <2>2. CASE i # j
    <3>1. tab'[j] = [tab[j] EXCEPT !.open = closed(j), !.event = tab[j].event, !.byHuman = theirs(j)]
      BY <1>3, <2>2
    <3> QED BY <3>1, <1>2, <1>4 DEF TabRow, MayStand
  <2> QED BY <2>1, <2>2
<1>6. DOMAIN tab' = 1..Len(tab) /\ tab' \in Seq(TabRow) /\ Len(tab') = Len(tab)
  <2>1. tab' \in [1..Len(tab) -> TabRow]
    <3> DEFINE row(j) == [tab[j] EXCEPT !.open = closed(j), !.event = IF j = i THEN "follow" ELSE tab[j].event,
                                        !.byHuman = theirs(j)]
    <3>1. DOMAIN tab = 1..Len(tab)
      BY <1>1
    <3>2. tab' = [j \in 1..Len(tab) |-> row(j)]
      BY <1>3, <3>1, Zenon
    <3>3. \A j \in 1..Len(tab) : row(j) = tab'[j]
      BY <3>2, Zenon
    <3> HIDE DEF row
    <3> QED BY <3>1, <3>2, <3>3, <1>5
  <2> QED BY <2>1, <1>1
<1>7. TabsHold'
  <2>1. CASE mode # "human" /\ Cardinality(Open(tab)) <= MaxTabs
    <3> DEFINE Then == {j \in Open(tab') : ~tab'[j].byHuman /\ tab'[j].event \in {"follow", "over"}}
    <3>1. Then = {j \in DOMAIN tab' : Counted(tab'[j])} /\ IsFiniteSet(Open(tab)) /\ Cardinality(Open(tab)) \in Nat
      BY <1>1, <1>6, CountedAreFinite
    <3>2. \A j \in DOMAIN tab : tab'[j].open => closed(j)
      BY <1>3, <1>2 DEF TabRow
    <3>3. Then \subseteq Open(tab)
      BY <3>1, <3>2, <1>6, <1>1, <1>c DEF Counted
    <3>4. Cardinality(Then) <= Cardinality(Open(tab)) /\ Cardinality(Then) \in Nat
      BY <3>1, <3>3, FS_Subset, FS_CardinalityType
    <3>5. TabsCapped'
      BY <2>1, <3>1, <3>4, BoundsAreNumbers DEF TabsCapped
    <3>6. NoAgentPopup'
      BY <1>5, <1>6, <1>1 DEF NoAgentPopup, TabIds, IsOpen, Open, MayStand
    <3> QED
      BY <3>5, <3>6, <1>1, <1>5, <1>6 DEF TabsHold, TabInv, MayStand
  <2>2. CASE mode = "human" \/ ~(Cardinality(Open(tab)) <= MaxTabs)
    <3>1. mode # "human" => i \in Excess(i)
      BY <2>2 DEF Excess
    <3>2. \A j \in DOMAIN tab' : Counted(tab'[j]) => j \in DOMAIN tab /\ Counted(tab[j])
      <4> SUFFICES ASSUME NEW j \in DOMAIN tab, Counted(tab'[j]) PROVE Counted(tab[j])
        BY <1>1, <1>6
      <4>1. CASE i = j
        <5>1. tab'[j] = [tab[j] EXCEPT !.open = closed(j), !.event = "follow", !.byHuman = theirs(j)]
          BY <1>3, <4>1
        <5> QED BY <5>1, <3>1, <4>1, <1>2, <1>4, <1>a, <1>b DEF Counted, TabRow
      <4>2. CASE i # j
        <5>1. tab'[j] = [tab[j] EXCEPT !.open = closed(j), !.event = tab[j].event, !.byHuman = theirs(j)]
          BY <1>3, <4>2
        <5> QED BY <5>1, <4>2, <1>2, <1>4 DEF Counted, TabRow
      <4> QED BY <4>1, <4>2
    <3>3. Len(tab') <= TabBound
      BY <1>6 DEF TabInv, TabsHold
    <3> QED
      BY <3>2, <3>3, <1>1, <1>5, <1>6, TabsStep
  <2> QED BY <2>1, <2>2
<1>8. liveTab' \in 0..Len(tab)
  BY <1>6, FollowStays DEF Attaches
<1>9. PointersHold'
  BY <1>6, <1>8 DEF Attaches, TabInv, PointersHold
<1>10. Len(tab') >= Len(tab)
  BY <1>1, <1>6
<1>11. SnapsHold' /\ RequestsHold'
  BY <1>6, <1>10, OthersStay DEF Attaches
<1> QED
  BY <1>7, <1>9, <1>11 DEF TabInv

\* A request that goes on, fails or ends keeps its reference, if it ever was acted on.
LEMMA RequestMoves ==
  ASSUME TabInv, NEW place \in {"again", "shows", "recovers", "ended"},
         place \in {"again", "shows"} => req.what \notin Clicks,
         ReqAt(place, req.what), NEW n \in Nat, Len(tab') = n, n >= Len(tab),
         \A s \in DOMAIN snaps : s \in DOMAIN snaps' /\ snaps'[s] = snaps[s]
  PROVE  RequestsHold'
<1>1. /\ req \in RequestRow /\ req.tab \in 0..Len(tab)
      /\ req.acts > 0 => OnItsTab /\ req.what \in Clicks
  BY DEF TabInv, RequestsHold
<1>2. req' = [req EXCEPT !.at = place, !.what = req.what]
  BY DEF ReqAt
<1>3. /\ req' \in RequestRow /\ req'.at = place /\ req'.what = req.what /\ req'.tab = req.tab
      /\ req'.snap = req.snap /\ req'.acts = req.acts
  BY <1>1, <1>2 DEF RequestRow
<1>4. Len(tab) \in Nat
  BY TabFacts
<1>5. req'.tab \in 0..Len(tab')
  BY <1>1, <1>3, <1>4
<1>6. OnItsTab => OnItsTab'
  BY <1>3 DEF OnItsTab
<1> QED
  BY <1>1, <1>3, <1>5, <1>6 DEF RequestsHold

LEMMA SnapshotStep ==
  ASSUME TabInv, NEW i \in DOMAIN tab, TakeSnapshot(i)
  PROVE  /\ TabsHold' /\ SnapsHold' /\ Len(tab') = Len(tab) /\ tab' \in Seq(TabRow)
         /\ \A s \in DOMAIN snaps : s \in DOMAIN snaps' /\ snaps'[s] = snaps[s]
<1>1. tab[i] \in TabRow /\ MayStand(tab[i]) /\ tab \in Seq(TabRow)
  BY TabFacts
<1> DEFINE r == [tab[i] EXCEPT !.snapped = tab[i].doc]
<1>2. r \in TabRow /\ MayStand(r) /\ (Counted(r) => Counted(tab[i]))
  <2>1. tab[i].doc \in Nat /\ tab[i].doc <= tab[i].doc
    BY <1>1, BoundsAreNumbers DEF TabRow
  <2> QED BY <1>1, <2>1 DEF TabRow, MayStand, Counted
<1>3. tab' = [tab EXCEPT ![i] = r]
  BY <1>1 DEF TakeSnapshot, TabRow
<1>4. TabsHold' /\ Len(tab') = Len(tab) /\ DOMAIN tab' = DOMAIN tab /\ tab' \in Seq(TabRow)
  <2> HIDE DEF r
  <2> QED BY <1>2, <1>3, RowStep
<1>5. snaps \in Seq([tab : Nat, doc : Nat]) /\ \A s \in DOMAIN snaps : snaps[s].tab \in DOMAIN tab
  BY DEF TabInv, SnapsHold
<1>6. CASE snaps' = snaps
  BY <1>4, <1>5, <1>6 DEF SnapsHold
<1>7. CASE snaps' = Append(snaps, [tab |-> i, doc |-> tab[i].doc])
  <2>1. i \in Nat /\ tab[i].doc \in Nat
    BY <1>1, BoundsAreNumbers DEF TabRow
  <2> DEFINE s == [tab |-> i, doc |-> tab[i].doc]
  <2>2. s \in [tab : Nat, doc : Nat] /\ s.tab = i
    BY <2>1
  <2> HIDE DEF s
  <2>3. snaps' = Append(snaps, s)
    BY <1>7 DEF s
  <2>4. /\ snaps' \in Seq([tab : Nat, doc : Nat]) /\ Len(snaps') = Len(snaps) + 1
        /\ snaps'[Len(snaps) + 1] = s /\ \A k \in DOMAIN snaps : k \in DOMAIN snaps' /\ snaps'[k] = snaps[k]
    BY <1>5, <2>2, <2>3
  <2>5. \A k \in DOMAIN snaps' : k \in DOMAIN snaps \/ k = Len(snaps) + 1
    BY <1>5, <2>4
  <2>6. \A k \in DOMAIN snaps' : snaps'[k].tab \in DOMAIN tab'
    BY <1>4, <1>5, <2>2, <2>4, <2>5
  <2> QED BY <1>4, <2>4, <2>6 DEF SnapsHold
<1> QED
  BY <1>4, <1>6, <1>7 DEF TakeSnapshot

LEMMA LiveIsTab == ASSUME NEW i, ~Dead(i) PROVE i \in DOMAIN tab /\ i \in Open(tab)
BY DEF Dead, Open
\* The rest of a state in which only a request has moved
LEMMA TabsUnmoved ==
  ASSUME TabInv, UNCHANGED <<tab, actionTab, liveTab, relayTab, mode, gate, snaps>>,
         guarded' \in BOOLEAN, denied' \in BOOLEAN
  PROVE  TabsHold' /\ PointersHold' /\ SnapsHold'
<1>1. TabsHold'
  BY DEF TabInv, TabsHold, TabsCapped, NoAgentPopup, TabIds, IsOpen, Open
<1>2. PointersHold' /\ SnapsHold'
  BY DEF TabInv, PointersHold, SnapsHold
<1> QED BY <1>1, <1>2

LEMMA CallsKeep ==
  ASSUME TabInv, TabCall \/ CallEnds \/ FindsDead \/ Press
  PROVE  TabInv'
<1>1. tab' = tab /\ guarded' \in BOOLEAN /\ denied' \in BOOLEAN /\ snaps' = snaps
  BY DEF TabCall, CallEnds, FindsDead, Press, TabInv, PointersHold
<1>2. TabsHold' /\ PointersHold' /\ SnapsHold'
  BY <1>1, TabsUnmoved DEF TabCall, CallEnds, FindsDead, Press
<1>3. Len(tab) \in Nat
  BY TabFacts
<1>4. NoReq \in RequestRow /\ NoReq.tab = 0 /\ NoReq.acts = 0
  BY DEF NoReq, NoTab, RequestRow
<1>5. CASE CallEnds
  <2>1. req' = NoReq
    BY <1>5 DEF CallEnds
  <2> QED BY <1>1, <1>2, <1>3, <1>4, <2>1 DEF TabInv, RequestsHold, NoReq
<1>6. CASE FindsDead
  <2>1. PICK place \in {"ended", "recovers"} : ReqAt(place, req.what)
    BY <1>6 DEF FindsDead
  <2> QED BY <1>1, <1>2, <1>3, <2>1, RequestMoves DEF TabInv
<1>7. CASE Press
  <2>1. ReqAt("ended", req.what)
    BY <1>7 DEF Press, Ends
  <2> QED BY <1>1, <1>2, <1>3, <2>1, RequestMoves DEF TabInv
<1>8. CASE TabCall
  <2>1. CASE req' = req
    BY <1>1, <1>2, <2>1 DEF TabInv, RequestsHold, OnItsTab
  <2>2. ASSUME NEW what \in Others, req' = [NoReq EXCEPT !.at = "acts", !.what = what]
        PROVE  TabInv'
    <3>1. req' = [at |-> "acts", what |-> what, tab |-> 0, snap |-> 0, acts |-> 0]
      BY <2>2 DEF NoReq, NoTab
    <3>2. what \notin Clicks
      BY DEF Clicks, Others
    <3> QED BY <1>1, <1>2, <1>3, <3>1, <3>2 DEF TabInv, RequestsHold, RequestRow
  <2>3. ASSUME NEW what \in Clicks, NEW s \in DOMAIN snaps,
               req' = [NoReq EXCEPT !.at = "resolves", !.what = what, !.snap = s]
        PROVE  TabInv'
    <3>1. req' = [at |-> "resolves", what |-> what, tab |-> 0, snap |-> s, acts |-> 0]
      BY <2>3 DEF NoReq, NoTab
    <3>2. s \in Nat
      BY DEF TabInv, SnapsHold
    <3> QED BY <1>1, <1>2, <1>3, <3>1, <3>2 DEF TabInv, RequestsHold, RequestRow
  <2> QED BY <1>8, <2>1, <2>2, <2>3 DEF TabCall
<1> QED
  BY <1>5, <1>6, <1>7, <1>8

LEMMA StaleRefKeeps ==
  ASSUME TabInv, StaleRef, UNCHANGED <<actionTab, liveTab, relayTab, mode, gate, guarded, denied>>
  PROVE  TabInv'
<1>1. ReqAt("ended", req.what) /\ Len(tab) \in Nat /\ tab \in Seq(TabRow)
  BY TabFacts DEF StaleRef, Ends
<1>2. CASE UNCHANGED <<tab, snaps>>
  <2>1. TabsHold' /\ PointersHold' /\ SnapsHold'
    BY <1>2, TabsUnmoved DEF TabInv, PointersHold
  <2> QED BY <1>1, <1>2, <2>1, RequestMoves DEF TabInv
<1>3. CASE ~Dead(actionTab) /\ TakeSnapshot(actionTab)
  <2>1. actionTab \in DOMAIN tab
    BY <1>3, LiveIsTab
  <2>2. /\ TabsHold' /\ SnapsHold' /\ Len(tab') = Len(tab) /\ tab' \in Seq(TabRow)
        /\ \A s \in DOMAIN snaps : s \in DOMAIN snaps' /\ snaps'[s] = snaps[s]
    BY <1>3, <2>1, SnapshotStep
  <2>3. Len(tab') >= Len(tab)
    BY <2>2, <1>1
  <2>4. PointersHold'
    BY <2>2, <2>3, OthersStay
  <2>5. RequestsHold'
    BY <1>1, <2>2, <2>3, RequestMoves
  <2> QED BY <2>2, <2>4, <2>5 DEF TabInv
<1> QED
  BY <1>2, <1>3 DEF StaleRef

LEMMA SnapshotKeeps == ASSUME TabInv, Snapshot PROVE TabInv'
<1>1. StaleRef
  BY DEF Snapshot, StaleRef
<1> QED
  BY <1>1, StaleRefKeeps DEF Snapshot

LEMMA ResolveRefKeeps == ASSUME TabInv, ResolveRef PROVE TabInv'
<1>1. /\ req.at = "resolves" /\ req.what \in Clicks /\ req.snap \in DOMAIN snaps
      /\ req \in RequestRow /\ req.acts = 0 /\ Len(tab) \in Nat
  BY TabFacts DEF ResolveRef, TabInv, RequestsHold, RequestRow
<1>2. CASE /\ Resolves(req.snap) /\ req' = [req EXCEPT !.at = "acts", !.tab = snaps[req.snap].tab]
           /\ UNCHANGED <<tab, snaps>>
  <2>1. TabsHold' /\ PointersHold' /\ SnapsHold'
    BY <1>2, TabsUnmoved DEF ResolveRef, TabInv, PointersHold
  <2>2. snaps[req.snap].tab \in DOMAIN tab /\ DOMAIN tab = 1..Len(tab)
    BY <1>1, TabFacts DEF TabInv, SnapsHold
  <2> DEFINE t == snaps[req.snap].tab
  <2>3. t \in 0..Len(tab) /\ t \in Nat
    BY <1>1, <2>2
  <2>4. /\ req' \in RequestRow /\ req'.at = "acts" /\ req'.tab = t /\ req'.snap = req.snap
        /\ req'.acts = 0 /\ req'.what = req.what
    BY <1>1, <1>2, <2>3 DEF RequestRow
  <2>5. OnItsTab'
    BY <1>1, <1>2, <2>4 DEF OnItsTab
  <2>6. RequestsHold'
    BY <1>1, <1>2, <2>3, <2>4, <2>5 DEF RequestsHold
  <2> QED BY <2>1, <2>6 DEF TabInv
<1>3. CASE StaleRef
  BY <1>3, StaleRefKeeps DEF ResolveRef
<1>4. CASE ReqAt("recovers", req.what) /\ UNCHANGED <<tab, snaps>>
  <2>1. TabsHold' /\ PointersHold' /\ SnapsHold'
    BY <1>4, TabsUnmoved DEF ResolveRef, TabInv, PointersHold
  <2> QED BY <1>1, <1>4, <2>1, RequestMoves DEF TabInv
<1> QED
  BY <1>2, <1>3, <1>4 DEF ResolveRef

LEMMA ActOnRefKeeps == ASSUME TabInv, ActOnRef PROVE TabInv'
<1>1. req.what \in Clicks /\ OnItsTab /\ req \in RequestRow /\ req.tab \in 0..Len(tab) /\ Len(tab) \in Nat
  BY TabFacts DEF ActOnRef, TabInv, RequestsHold
<1>2. CASE /\ UNCHANGED <<tab, snaps>>
           /\ req' = [req EXCEPT !.at = "ended", !.acts = IF Resolves(req.snap) THEN @ + 1 ELSE @]
  <2>1. TabsHold' /\ PointersHold' /\ SnapsHold'
    BY <1>2, TabsUnmoved DEF ActOnRef, TabInv, PointersHold
  <2> DEFINE n == IF Resolves(req.snap) THEN req.acts + 1 ELSE req.acts
  <2>2. n \in Nat /\ req' = [req EXCEPT !.at = "ended", !.acts = n]
    BY <1>1, <1>2 DEF RequestRow
  <2> HIDE DEF n
  <2>3. /\ req' \in RequestRow /\ req'.at = "ended" /\ req'.tab = req.tab /\ req'.snap = req.snap
        /\ req'.what = req.what
    BY <1>1, <2>2 DEF RequestRow
  <2>4. RequestsHold'
    BY <1>1, <1>2, <2>3 DEF RequestsHold, OnItsTab
  <2> QED BY <2>1, <2>4 DEF TabInv
<1>3. CASE /\ Resolves(req.snap) /\ req' = [req EXCEPT !.at = "recovers", !.acts = @ + 1]
           /\ tab' = [tab EXCEPT ![req.tab].crashed = TRUE] /\ UNCHANGED snaps
  <2>1. req.tab \in DOMAIN tab
    BY <1>1, <1>3, LiveIsTab DEF Resolves, OnItsTab
  <2> DEFINE i == req.tab
             r == [tab[i] EXCEPT !.crashed = TRUE]
  <2>2. r \in TabRow /\ MayStand(r) /\ (Counted(r) => Counted(tab[i]))
    BY <2>1, TabFacts DEF TabRow, MayStand, Counted
  <2>3. tab' = [tab EXCEPT ![i] = r]
    BY <2>1, <1>3, TabFacts DEF TabRow
  <2> HIDE DEF r
  <2>4. TabsHold' /\ Len(tab') = Len(tab) /\ tab' \in Seq(TabRow)
    BY <2>1, <2>2, <2>3, RowStep
  <2>5. Len(tab') >= Len(tab)
    BY <2>4, <1>1
  <2>6. PointersHold' /\ SnapsHold'
    BY <1>3, <2>4, <2>5, OthersStay DEF ActOnRef
  <2> DEFINE n == req.acts + 1
  <2>7. n \in Nat /\ req' = [req EXCEPT !.at = "recovers", !.acts = n]
    BY <1>1, <1>3 DEF RequestRow
  <2> HIDE DEF n
  <2>8. /\ req' \in RequestRow /\ req'.at = "recovers" /\ req'.tab = req.tab /\ req'.snap = req.snap
        /\ req'.what = req.what
    BY <1>1, <2>7 DEF RequestRow
  <2>9. RequestsHold'
    BY <1>1, <1>3, <2>4, <2>8 DEF RequestsHold, OnItsTab
  <2> QED BY <2>4, <2>6, <2>9 DEF TabInv
<1>4. CASE ReqAt("recovers", req.what) /\ UNCHANGED <<tab, snaps>>
  <2>1. TabsHold' /\ PointersHold' /\ SnapsHold'
    BY <1>4, TabsUnmoved DEF ActOnRef, TabInv, PointersHold
  <2> QED BY <1>1, <1>4, <2>1, RequestMoves DEF TabInv
<1>5. CASE StaleRef
  BY <1>5, StaleRefKeeps DEF ActOnRef
<1> QED
  BY <1>2, <1>3, <1>4, <1>5 DEF ActOnRef

\* A step that takes a page to a document of its own, of which no snapshot has been taken.
LEMMA LoadStep ==
  ASSUME TabInv, NEW i \in DOMAIN tab, NEW d \in 1..DocBound, tab' = [tab EXCEPT ![i].doc = d, ![i].snapped = 0]
  PROVE  TabsHold' /\ Len(tab') = Len(tab) /\ tab' \in Seq(TabRow)
<1>1. tab[i] \in TabRow /\ MayStand(tab[i]) /\ tab \in Seq(TabRow)
  BY TabFacts
<1> DEFINE r == [tab[i] EXCEPT !.doc = d, !.snapped = 0]
<1>2. 0 <= d
  BY BoundsAreNumbers
<1>3. r \in TabRow /\ MayStand(r) /\ (Counted(r) => Counted(tab[i]))
  BY <1>1, <1>2 DEF TabRow, MayStand, Counted
<1>4. tab' = [tab EXCEPT ![i] = r]
  BY <1>1 DEF TabRow
<1> HIDE DEF r
<1> QED BY <1>3, <1>4, RowStep

LEMMA NavigatesKeep == ASSUME TabInv, Navigate \/ GotoChooser PROVE TabInv'
<1>1. actionTab \in DOMAIN tab /\ tab[actionTab].doc \in 1..DocBound /\ tab[actionTab].doc < DocBound
  BY LiveIsTab, TabFacts DEF Navigate, GotoChooser, TabRow
<1> DEFINE d == tab[actionTab].doc + 1
<1>2. d \in 1..DocBound
  BY <1>1, BoundsAreNumbers
<1>3. tab' = [tab EXCEPT ![actionTab].doc = d, ![actionTab].snapped = 0]
  BY <1>1, TabFacts DEF Navigate, GotoChooser, TabLoads
<1>4. TabsHold' /\ Len(tab') = Len(tab) /\ tab' \in Seq(TabRow) /\ Len(tab) \in Nat
  <2> HIDE DEF d
  <2> QED BY <1>1, <1>2, <1>3, LoadStep, TabFacts
<1>5. Len(tab') >= Len(tab)
  BY <1>4
<1>6. PointersHold'
  BY <1>4 DEF Navigate, GotoChooser, TabInv, PointersHold
<1>7. SnapsHold'
  BY <1>4, <1>5, OthersStay DEF Navigate, GotoChooser
<1>8. RequestsHold'
  BY <1>4, <1>5, OthersStay, RequestMoves DEF Navigate, GotoChooser, Ends
<1> QED
  BY <1>4, <1>6, <1>7, <1>8 DEF TabInv

\* The page that the tools act on is another tab that there is, or none.
LEMMA SetPageStep ==
  ASSUME TabInv, NEW i \in 0..Len(tab'), SetPage(i), Len(tab') \in Nat, Len(tab') >= Len(tab),
         liveTab' \in 0..Len(tab'), UNCHANGED <<mode, gate, guarded>>, denied' \in BOOLEAN
  PROVE  PointersHold'
<1>1. Len(tab) \in Nat
  BY TabFacts
<1> QED
  BY <1>1 DEF TabInv, PointersHold, SetPage

LEMMA TabNewKeeps == ASSUME TabInv, TabNew PROVE TabInv'
<1>1. /\ UNCHANGED <<mode, gate, guarded, denied, snaps>> /\ denied \in BOOLEAN /\ Len(tab) \in Nat
      /\ req \in RequestRow /\ req.what = "new" /\ req.what \notin Clicks /\ req.acts = 0 /\ tab \in Seq(TabRow)
      /\ req.tab \in 0..Len(tab)
  <2>1. req.what = "new" /\ UNCHANGED <<mode, gate, guarded, denied, snaps>>
    BY DEF TabNew, Works
  <2>2. req \in RequestRow /\ req.tab \in 0..Len(tab) /\ (req.acts > 0 => req.what \in Clicks) /\ denied \in BOOLEAN
    BY DEF TabInv, PointersHold, RequestsHold
  <2>3. req.what \notin Clicks /\ req.acts \in Nat
    BY <2>1, <2>2 DEF Clicks, RequestRow
  <2> QED BY <2>1, <2>2, <2>3, TabFacts
<1>2. CASE Ends /\ UNCHANGED <<tab, actionTab, liveTab, relayTab>>
  <2>1. TabsHold' /\ PointersHold' /\ SnapsHold'
    BY <1>1, <1>2, TabsUnmoved DEF TabInv, PointersHold
  <2>2. RequestsHold'
    BY <1>1, <1>2, RequestMoves DEF Ends
  <2> QED BY <2>1, <2>2 DEF TabInv
<1>3. CASE /\ Len(tab) < TabBound /\ tab' = Append(tab, Fresh(FALSE))
           /\ req' = [req EXCEPT !.at = "shows", !.tab = Len(tab) + 1] /\ UNCHANGED <<actionTab, liveTab, relayTab>>
  <2>1. TabsHold' /\ Len(tab') = Len(tab) + 1
    BY <1>3, TabFacts, FreshIsTab, OpenStep
  <2>2. tab' \in Seq(TabRow) /\ Len(tab') >= Len(tab)
    BY <1>1, <2>1 DEF TabsHold
  <2>3. PointersHold' /\ SnapsHold'
    BY <1>1, <1>3, <2>2, OthersStay
  <2> DEFINE n == Len(tab) + 1
  <2>4. n \in Nat /\ n \in 0..Len(tab') /\ req' = [req EXCEPT !.at = "shows", !.tab = n]
    BY <1>1, <1>3, <2>1
  <2> HIDE DEF n
  <2>5. /\ req' \in RequestRow /\ req'.tab = n /\ req'.at = "shows" /\ req'.what = req.what /\ req'.acts = 0
    BY <1>1, <2>4 DEF RequestRow
  <2>6. RequestsHold'
    BY <1>1, <2>4, <2>5 DEF RequestsHold
  <2> QED BY <2>1, <2>3, <2>6 DEF TabInv
<1>4. CASE Ends /\ SetPage(req.tab) /\ liveTab' = req.tab /\ UNCHANGED tab
  <2>1. PointersHold'
    BY <1>1, <1>4, SetPageStep
  <2>2. TabsHold' /\ SnapsHold'
    BY <1>1, <1>4 DEF TabInv, TabsHold, SnapsHold, TabsCapped, NoAgentPopup, TabIds, IsOpen, Open
  <2>3. RequestsHold'
    BY <1>1, <1>4, RequestMoves DEF Ends
  <2> QED BY <2>1, <2>2, <2>3 DEF TabInv
<1> QED
  BY <1>2, <1>3, <1>4 DEF TabNew

LEMMA TabSelectKeeps == ASSUME TabInv, TabSelect PROVE TabInv'
<1>1. PICK i \in Open(tab) : SetPage(i) /\ liveTab' = i
  BY DEF TabSelect
<1>2. /\ UNCHANGED <<tab, mode, gate, guarded, denied, snaps>> /\ denied \in BOOLEAN /\ Len(tab) \in Nat
      /\ ReqAt("ended", req.what)
  BY TabFacts DEF TabSelect, TabInv, PointersHold, Ends
<1>3. i \in 0..Len(tab')
  BY <1>2, TabFacts DEF Open
<1>4. PointersHold'
  BY <1>1, <1>2, <1>3, SetPageStep
<1>5. TabsHold' /\ SnapsHold'
  BY <1>2 DEF TabInv, TabsHold, SnapsHold, TabsCapped, NoAgentPopup, TabIds, IsOpen, Open
<1>6. RequestsHold'
  BY <1>2, RequestMoves
<1> QED BY <1>4, <1>5, <1>6 DEF TabInv

LEMMA CloseStep ==
  ASSUME TabInv, NEW i \in DOMAIN tab
  PROVE  LET r == [tab[i] EXCEPT !.open = FALSE]
         IN  r \in TabRow /\ MayStand(r) /\ ~Counted(r) /\ Closed(i) = [tab EXCEPT ![i] = r]
BY TabFacts DEF TabRow, MayStand, Counted, Closed

LEMMA TabCloseKeeps == ASSUME TabInv, TabClose PROVE TabInv'
<1>1. /\ UNCHANGED <<mode, gate, guarded, denied, snaps>> /\ denied \in BOOLEAN /\ Len(tab) \in Nat
      /\ req.what = "close" /\ req.what \notin Clicks /\ tab \in Seq(TabRow)
  BY TabFacts DEF TabClose, TabInv, PointersHold, Clicks, Works
<1>2. ASSUME NEW i \in Open(tab), CloseTab(i), ReqAt("shows", "close"), UNCHANGED <<actionTab, relayTab>>
      PROVE  TabInv'
  <2>1. i \in DOMAIN tab
    BY DEF Open
  <2> DEFINE r == [tab[i] EXCEPT !.open = FALSE]
  <2>2. r \in TabRow /\ MayStand(r) /\ ~Counted(r) /\ tab' = [tab EXCEPT ![i] = r]
    BY <1>2, <2>1, CloseStep DEF CloseTab
  <2> HIDE DEF r
  <2>3. TabsHold' /\ Len(tab') = Len(tab) /\ tab' \in Seq(TabRow)
    BY <2>1, <2>2, RowStep
  <2>4. liveTab' \in 0..Len(tab)
    BY <1>2, <2>3, FollowStays DEF CloseTab
  <2>5. PointersHold'
    BY <1>1, <1>2, <2>3, <2>4 DEF TabInv, PointersHold
  <2>6. SnapsHold' /\ Len(tab') >= Len(tab)
    BY <1>1, <2>3, OthersStay
  <2>7. RequestsHold'
    BY <1>1, <1>2, <2>3, <2>6, RequestMoves
  <2> QED BY <2>3, <2>5, <2>6, <2>7 DEF TabInv
<1>3. CASE Ends /\ UNCHANGED tab /\ SetPage(Newest(tab)) /\ liveTab' = Newest(tab)
  <2>1. Newest(tab) \in 0..Len(tab')
    BY <1>1, <1>3, NewestIsTab
  <2>2. PointersHold'
    BY <1>1, <1>3, <2>1, SetPageStep
  <2>3. TabsHold' /\ SnapsHold'
    BY <1>1, <1>3 DEF TabInv, TabsHold, SnapsHold, TabsCapped, NoAgentPopup, TabIds, IsOpen, Open
  <2>4. RequestsHold'
    BY <1>1, <1>3, RequestMoves DEF Ends
  <2> QED BY <2>2, <2>3, <2>4 DEF TabInv
<1> QED
  BY <1>2, <1>3 DEF TabClose

\* Everything is gone but a first tab: of what the cap counts there is one.
LEMMA RestartStep ==
  ASSUME TabInv, RestartIn(tab), Len(tab) < TabBound, UNCHANGED <<mode, gate, guarded, snaps>>
  PROVE  TabsHold' /\ PointersHold' /\ SnapsHold' /\ Len(tab') = Len(tab) + 1 /\ Len(tab) \in Nat
<1>1. tab \in Seq(TabRow) /\ Len(tab) \in Nat /\ DOMAIN tab = 1..Len(tab)
  BY TabFacts
<1> DEFINE ts == [i \in DOMAIN tab |-> [tab[i] EXCEPT !.open = FALSE]]
           r == [Fresh(FALSE) EXCEPT !.event = "over"]
<1>2. ts \in Seq(TabRow) /\ Len(ts) = Len(tab) /\ \A i \in DOMAIN tab : MayStand(ts[i]) /\ ts[i].open = FALSE
  <2>1. \A i \in DOMAIN tab : LET g == [tab[i] EXCEPT !.open = FALSE] IN g \in TabRow /\ MayStand(g) /\ g.open = FALSE
    BY TabFacts DEF TabRow, MayStand
  <2>2. ts \in [1..Len(tab) -> TabRow]
    BY <2>1, <1>1
  <2>3. ts \in Seq(TabRow) /\ Len(ts) = Len(tab)
    <3> HIDE DEF ts
    <3> QED BY <2>2, <1>1
  <2>4. \A i \in DOMAIN tab : ts[i] = [tab[i] EXCEPT !.open = FALSE]
    BY Zenon
  <2> HIDE DEF ts
  <2> QED BY <2>1, <2>3, <2>4
<1>3. r \in TabRow /\ MayStand(r)
  BY FirstIsTab
<1>4. tab' = Append(ts, r)
  BY DEF RestartIn
<1> HIDE DEF ts, r
<1>5. /\ tab' \in Seq(TabRow) /\ Len(tab') = Len(tab) + 1 /\ DOMAIN tab' = 1..(Len(tab) + 1)
      /\ tab'[Len(tab) + 1] = r /\ \A i \in DOMAIN tab : tab'[i] = ts[i]
  BY <1>1, <1>2, <1>3, <1>4
<1>6. \A i \in DOMAIN tab' : MayStand(tab'[i]) /\ (tab'[i].open => i = Len(tab) + 1)
  BY <1>1, <1>2, <1>3, <1>5
<1>7. TabsHold'
  <2> DEFINE Then == {i \in Open(tab') : ~tab'[i].byHuman /\ tab'[i].event \in {"follow", "over"}}
  <2>1. IsFiniteSet({Len(tab) + 1}) /\ Cardinality({Len(tab) + 1}) = 1
    BY FS_Singleton
  <2>2. Then \subseteq {Len(tab) + 1}
    BY <1>6 DEF Open
  <2>3. Cardinality(Then) <= 1 /\ Cardinality(Then) \in Nat
    BY <2>1, <2>2, FS_Subset, FS_CardinalityType
  <2>4. TabsCapped'
    BY <2>3, BoundsAreNumbers DEF TabsCapped
  <2>5. NoAgentPopup'
    BY <1>6 DEF NoAgentPopup, TabIds, IsOpen, Open, MayStand
  <2>6. Len(tab') <= TabBound
    BY <1>1, <1>5, BoundsAreNumbers
  <2> QED
    BY <1>5, <1>6, <2>4, <2>5, <2>6 DEF TabsHold, MayStand
<1>8. PointersHold'
  <2>1. /\ Len(tab) + 1 \in 0..Len(tab') /\ Len(tab') \in Nat /\ Len(tab') >= Len(tab)
        /\ SetPage(Len(tab) + 1) /\ liveTab' = Len(tab) + 1 /\ denied' = FALSE
    BY <1>1, <1>5 DEF RestartIn
  <2> QED BY <2>1, SetPageStep
<1>9. SnapsHold'
  BY <1>1, <1>5 DEF TabInv, SnapsHold
<1> QED BY <1>1, <1>5, <1>7, <1>8, <1>9

LEMMA RecoversKeep == ASSUME TabInv, Recover \/ TabRestart PROVE TabInv'
<1>1. Len(tab) < TabBound /\ UNCHANGED <<mode, gate, guarded, snaps>> /\ Len(tab) \in Nat /\ tab \in Seq(TabRow)
  BY TabFacts DEF Recover, TabRestart
<1>2. CASE RestartIn(tab) /\ (Ends \/ UNCHANGED req)
  <2>1. TabsHold' /\ PointersHold' /\ SnapsHold' /\ Len(tab') = Len(tab) + 1
    BY <1>1, <1>2, RestartStep
  <2>2. Len(tab') >= Len(tab) /\ Len(tab') \in Nat /\ tab' \in Seq(TabRow)
    BY <1>1, <2>1 DEF TabsHold
  <2>3. RequestsHold'
    BY <1>1, <1>2, <2>2, OthersStay, RequestMoves DEF Ends
  <2> QED BY <2>1, <2>3 DEF TabInv
<1>3. CASE Recovered /\ ReqAt(IF req.what \in Clicks THEN "ended" ELSE "again", req.what) /\ UNCHANGED denied
  <2> DEFINE ts == IF actionTab = NoTab THEN tab ELSE Closed(actionTab)
             d == IF actionTab # NoTab /\ tab[actionTab].doc > 1 THEN 2 ELSE 1
             r == [Fresh(FALSE) EXCEPT !.doc = d]
  <2>1. /\ ts \in Seq(TabRow) /\ Len(ts) = Len(tab)
        /\ \A i \in DOMAIN ts : MayStand(ts[i]) /\ (Counted(ts[i]) => Counted(tab[i]))
    <3>1. CASE actionTab = NoTab
      BY <3>1, TabFacts
    <3>2. CASE actionTab # NoTab
      <4>1. actionTab \in DOMAIN tab
        BY <3>2, TabFacts DEF TabInv, PointersHold, NoTab
      <4> DEFINE g == [tab[actionTab] EXCEPT !.open = FALSE]
      <4>2. g \in TabRow /\ MayStand(g) /\ ~Counted(g) /\ ts = [tab EXCEPT ![actionTab] = g]
        BY <3>2, <4>1, CloseStep
      <4> HIDE DEF g, ts
      <4> QED BY <4>1, <4>2, TabFacts
    <3> QED BY <3>1, <3>2
  <2>2. d \in 1..DocBound /\ 0 <= d
    BY BoundsAreNumbers
  <2> HIDE DEF d
  <2>3. r \in TabRow /\ MayStand(r) /\ ~Counted(r)
    <3>1. Fresh(FALSE) \in TabRow /\ MayStand(Fresh(FALSE)) /\ ~Counted(Fresh(FALSE))
      BY FreshIsTab
    <3>2. Fresh(FALSE).snapped = 0
      BY DEF Fresh
    <3> QED BY <2>2, <3>1, <3>2 DEF TabRow, MayStand, Counted
  <2>4. tab' = Append(ts, r) /\ SetPage(Len(tab) + 1) /\ liveTab' = Len(tab) + 1
    BY <1>3 DEF Recovered, d
  <2> HIDE DEF ts, r
  <2>5. TabsHold' /\ Len(tab') = Len(tab) + 1
    BY <1>1, <2>1, <2>3, <2>4, OpenStep
  <2>6. Len(tab') >= Len(tab) /\ Len(tab') \in Nat /\ tab' \in Seq(TabRow) /\ Len(tab) + 1 \in 0..Len(tab')
    BY <1>1, <2>5 DEF TabsHold
  <2>7. denied' \in BOOLEAN
    BY <1>3 DEF TabInv, PointersHold
  <2>8. PointersHold'
    BY <1>1, <2>4, <2>5, <2>6, <2>7, SetPageStep
  <2>9. SnapsHold'
    BY <1>1, <2>6, OthersStay
  <2>10. PICK place \in {"ended", "again"} : ReqAt(place, req.what) /\ (place = "again" => req.what \notin Clicks)
    BY <1>3
  <2>11. RequestsHold'
    BY <1>1, <2>6, <2>10, RequestMoves
  <2> QED BY <2>5, <2>8, <2>9, <2>11 DEF TabInv
<1> QED
  BY <1>2, <1>3 DEF Recover, TabRestart

LEMMA HoldsKeep ==
  ASSUME TabInv, HoldRequested \/ HoldGranted \/ HoldDeclined \/ HoldReleased \/ HoldValidated \/ HoldExpires
  PROVE  TabInv'
<1>1. UNCHANGED <<tab, actionTab, liveTab, guarded, denied, snaps, req>>
  BY DEF HoldRequested, HoldGranted, HoldDeclined, HoldReleased, HoldValidated, HoldExpires
<1>2. TabsHold' /\ SnapsHold' /\ RequestsHold'
  BY <1>1 DEF TabInv, TabsHold, SnapsHold, RequestsHold, OnItsTab, TabsCapped, NoAgentPopup, TabIds,
       IsOpen, Open
<1>3. gate' \in {"agent", "requested", "human", "paused", "validating"}
  BY DEF HoldRequested, HoldGranted, HoldDeclined, HoldReleased, HoldValidated, HoldExpires, Gate
<1>4. UNCHANGED <<relayTab, mode>> \/ \E m \in {"agent", "human", "validating"} : SetMode(m)
  BY DEF HoldRequested, HoldGranted, HoldDeclined, HoldReleased, HoldValidated, HoldExpires
<1>5. PointersHold'
  BY <1>1, <1>3, <1>4, TabFacts DEF TabInv, PointersHold, SetMode, NoTab
<1> QED BY <1>2, <1>5 DEF TabInv

LEMMA BlankTabKeeps == ASSUME TabInv, BlankTab PROVE TabInv'
<1>1. PICK i : /\ ~Dead(i) /\ tab' = [tab EXCEPT ![i].doc = 1, ![i].snapped = 0] /\ liveTab' = i /\ SetPage(i)
  BY DEF BlankTab
<1>2. i \in DOMAIN tab /\ 1 \in 1..DocBound
  BY <1>1, LiveIsTab, BoundsAreNumbers
<1>3. TabsHold' /\ Len(tab') = Len(tab) /\ tab' \in Seq(TabRow) /\ Len(tab) \in Nat
  BY <1>1, <1>2, LoadStep, TabFacts
<1>4. /\ UNCHANGED <<mode, gate, guarded, denied, snaps, req>> /\ denied' \in BOOLEAN /\ Len(tab') >= Len(tab)
      /\ i \in 0..Len(tab')
  BY <1>2, <1>3, TabFacts DEF BlankTab, TabInv, PointersHold
<1>5. PointersHold'
  BY <1>1, <1>3, <1>4, SetPageStep
<1>6. SnapsHold' /\ RequestsHold'
  BY <1>3, <1>4, OthersStay
<1> QED BY <1>3, <1>5, <1>6 DEF TabInv

LEMMA TabStutters == ASSUME TabInv, UNCHANGED tabVars PROVE TabInv'
BY DEF TabInv, tabVars, TabsHold, PointersHold, SnapsHold, RequestsHold, OnItsTab, TabsCapped,
     NoAgentPopup,
       TabIds, IsOpen, Open

LEMMA TabsBegin == ASSUME TabInit PROVE TabInv
<1> DEFINE r == [Fresh(FALSE) EXCEPT !.event = "over"]
<1>1. tab = <<r>>
  BY DEF TabInit
<1>2. r \in TabRow /\ MayStand(r)
  BY FirstIsTab
<1> HIDE DEF r
<1>3. tab \in Seq(TabRow) /\ Len(tab) = 1 /\ DOMAIN tab = {1} /\ tab[1] = r
  BY <1>1, <1>2
<1>4. TabsCapped
  <2> DEFINE Then == {i \in Open(tab) : ~tab[i].byHuman /\ tab[i].event \in {"follow", "over"}}
  <2>1. IsFiniteSet({1}) /\ Cardinality({1}) = 1 /\ Then \subseteq {1}
    BY <1>3, FS_Singleton DEF Open
  <2>2. Cardinality(Then) <= 1 /\ Cardinality(Then) \in Nat
    BY <2>1, FS_Subset, FS_CardinalityType
  <2> QED
    BY <2>2, BoundsAreNumbers DEF TabsCapped
<1>5. TabsHold
  BY <1>2, <1>3, <1>4, BoundsAreNumbers DEF TabsHold, NoAgentPopup, TabIds, IsOpen, Open, MayStand
<1>6. PointersHold
  <2>1. /\ mode = "agent" /\ gate = "agent" /\ guarded = FALSE /\ denied = FALSE
        /\ actionTab = 1 /\ liveTab = 1 /\ relayTab = 1
    BY DEF TabInit
  <2>2. 1 \in 0..Len(tab)
    BY <1>3
  <2>3. guarded \in BOOLEAN /\ denied \in BOOLEAN
    BY <2>1, Zenon
  <2> QED BY <2>1, <2>2, <2>3, Zenon DEF PointersHold
<1>8. SnapsHold
  <2>1. snaps = <<>> /\ DOMAIN snaps = {}
    BY DEF TabInit
  <2> QED BY <2>1 DEF SnapsHold
<1>7. RequestsHold
  BY <1>3 DEF TabInit, RequestsHold, RequestRow, NoReq, NoTab
<1> QED BY <1>5, <1>6, <1>7, <1>8 DEF TabInv

LEMMA TabInvKept == ASSUME TabInv, [TabNext]_tabVars PROVE TabInv'
<1>1. ASSUME NEW i \in TabIds, TabEvent(i) \/ PageCloses(i) \/ PageCrashes(i) \/ PageLoads(i)
      PROVE  TabInv'
  BY <1>1, EventsKeep, AttachesKeeps DEF TabEvent
<1>2. CASE PageOpens \/ BlankTab \/ UNCHANGED tabVars
  BY <1>2, PageOpensKeeps, BlankTabKeeps, TabStutters
<1>3. CASE TabCall \/ CallEnds \/ FindsDead \/ Press
  BY <1>3, CallsKeep
<1>4. CASE ResolveRef \/ ActOnRef \/ Snapshot
  BY <1>4, ResolveRefKeeps, ActOnRefKeeps, SnapshotKeeps
<1>5. CASE Navigate \/ GotoChooser
  BY <1>5, NavigatesKeep
<1>6. CASE TabNew \/ TabSelect \/ TabClose
  BY <1>6, TabNewKeeps, TabSelectKeeps, TabCloseKeeps
<1>7. CASE Recover \/ TabRestart
  BY <1>7, RecoversKeep
<1>8. CASE HoldRequested \/ HoldGranted \/ HoldDeclined \/ HoldReleased \/ HoldValidated \/ HoldExpires
  BY <1>8, HoldsKeep
<1> QED
  BY <1>1, <1>2, <1>3, <1>4, <1>5, <1>6, <1>7, <1>8 DEF TabNext

\* However many tabs are opened, by whomever: those the agent may have are within the cap, none of
\* its popups stays open, and a reference is acted on in the tab whose snapshot it came from.
THEOREM TabsAreSafe == TabSpec => []TabSafe
<1>1. TabInit => TabInv
  BY TabsBegin
<1>2. TabInv /\ [TabNext]_tabVars => TabInv'
  BY TabInvKept
<1>3. TabInv => TabSafe
  BY TabInvIsSafe
<1> QED
  BY <1>1, <1>2, <1>3, PTL DEF TabSpec

\* A person's input stays on the tab that was the agent's when they took over, or goes nowhere.
THEOREM InputStaysCorrect == TabSpec => InputStays
<1> DEFINE Step == mode # "agent" /\ mode' # "agent" => relayTab' \in {relayTab, NoTab}
<1>1. ASSUME [TabNext]_tabVars PROVE [Step]_tabVars
  <2>1. CASE UNCHANGED <<relayTab>> \/ UNCHANGED tabVars
    BY <2>1 DEF tabVars
  <2>2. ASSUME NEW i, SetPage(i), UNCHANGED mode PROVE Step
    BY <2>2 DEF SetPage
  <2>3. ASSUME NEW m, SetMode(m), m \in {"agent", "human", "validating"} PROVE Step
    BY <2>3 DEF SetMode
  <2>4. CASE TabNew \/ TabSelect \/ TabClose \/ BlankTab
    <3>1. UNCHANGED mode /\ (UNCHANGED relayTab \/ \E i : SetPage(i))
      BY <2>4 DEF TabNew, TabSelect, TabClose, BlankTab
    <3> HIDE DEF Step
    <3>2. CASE UNCHANGED relayTab
      BY <2>1, <3>2
    <3>3. CASE \E i : SetPage(i)
      BY <2>2, <3>1, <3>3
    <3> QED BY <3>1, <3>2, <3>3
  <2>5. CASE Recover \/ TabRestart
    BY <2>2, <2>5 DEF Recover, TabRestart, RestartIn, Recovered
  <2>6. CASE HoldGranted \/ HoldDeclined \/ HoldReleased \/ HoldValidated
    BY <2>3, <2>6 DEF HoldGranted, HoldDeclined, HoldReleased, HoldValidated
  <2>7. CASE PageOpens \/ TabCall \/ ResolveRef \/ ActOnRef \/ CallEnds \/ FindsDead \/ Press \/ Navigate
             \/ Snapshot \/ HoldRequested \/ HoldExpires \/ GotoChooser
    BY <2>1, <2>7 DEF PageOpens, TabCall, ResolveRef, ActOnRef, CallEnds, FindsDead, Press, Navigate,
                      Snapshot, HoldRequested, HoldExpires, GotoChooser
  <2>8. ASSUME NEW i \in TabIds, TabEvent(i) \/ PageCloses(i) \/ PageCrashes(i) \/ PageLoads(i)
        PROVE  [Step]_tabVars
    BY <2>1, <2>8 DEF TabEvent, OpenerKnown, AttachFails, Attaches, Follows, PageCloses, PageCrashes,
         PageLoads
  <2>9. CASE UNCHANGED tabVars
    BY <2>1, <2>9
  <2> HIDE DEF Step
  <2> QED
    BY <1>1, <2>9, <2>4, <2>5, <2>6, <2>7, <2>8 DEF TabNext
<1> QED
  BY <1>1, PTL DEF TabSpec, InputStays

\* A step that leaves the events of the tabs there were as they are.
EventsStay == \A j \in TabIds : j \in DOMAIN tab' /\ tab'[j].event = tab[j].event

LEMMA RowKeepsEvents ==
  ASSUME TabInv, NEW j \in TabIds, NEW r, r.event = tab[j].event, tab' = [tab EXCEPT ![j] = r]
  PROVE  EventsStay
BY TabFacts DEF EventsStay, TabIds

LEMMA AppendKeepsEvents ==
  ASSUME TabInv, NEW ts \in Seq(TabRow), Len(ts) = Len(tab), \A j \in TabIds : ts[j].event = tab[j].event,
         NEW row, tab' = Append(ts, row)
  PROVE  EventsStay
<1>1. DOMAIN ts = DOMAIN tab /\ Len(tab) \in Nat
  BY TabFacts
<1>2. \A j \in DOMAIN ts : j \in DOMAIN tab' /\ tab'[j] = ts[j]
  BY <1>1
<1>. QED BY <1>1, <1>2 DEF EventsStay, TabIds

\* A closed tab is a row of its kind.
LEMMA ClosedIsTabs ==
  ASSUME TabInv, NEW j \in TabIds
  PROVE  /\ Closed(j) \in Seq(TabRow) /\ Len(Closed(j)) = Len(tab)
         /\ \A k \in TabIds : Closed(j)[k].event = tab[k].event
<1>1. tab \in Seq(TabRow) /\ tab[j] \in TabRow /\ j \in DOMAIN tab
  BY TabFacts DEF TabIds
<1> DEFINE r == [tab[j] EXCEPT !.open = FALSE]
<1>2. r \in TabRow /\ r.event = tab[j].event
  BY <1>1 DEF TabRow
<1>3. Closed(j) = [tab EXCEPT ![j] = r]
  BY DEF Closed
<1> HIDE DEF r
<1>. QED BY <1>1, <1>2, <1>3 DEF TabIds

\* Nothing but the events of a tab moves its event on.
LEMMA OnlyEventsMove ==
  ASSUME TabInv, [TabNext]_tabVars
  PROVE  EventsStay \/ \E j \in TabIds : TabEvent(j)
<1>1. ASSUME tab' = tab PROVE EventsStay
  BY <1>1 DEF EventsStay, TabIds
<1>2. ASSUME NEW j \in TabIds, TakeSnapshot(j) \/ tab' = TabLoads(j) \/ tab' = Closed(j)
             \/ tab' = [tab EXCEPT ![j].crashed = TRUE] \/ tab' = [tab EXCEPT ![j].doc = 1, ![j].snapped = 0]
      PROVE  EventsStay
  <2>1. tab \in Seq(TabRow) /\ tab[j] \in TabRow /\ j \in DOMAIN tab
    BY TabFacts DEF TabIds
  <2>2. CASE TakeSnapshot(j)
    <3> DEFINE r == [tab[j] EXCEPT !.snapped = tab[j].doc]
    <3>1. tab' = [tab EXCEPT ![j] = r] /\ r.event = tab[j].event
      BY <2>1, <2>2 DEF TakeSnapshot, TabRow
    <3>. QED BY <3>1, RowKeepsEvents
  <2>3. CASE tab' = TabLoads(j)
    <3> DEFINE r == [tab[j] EXCEPT !.doc = tab[j].doc + 1, !.snapped = 0]
    <3>1. tab' = [tab EXCEPT ![j] = r] /\ r.event = tab[j].event
      BY <2>1, <2>3 DEF TabLoads, TabRow
    <3>. QED BY <3>1, RowKeepsEvents
  <2>4. CASE tab' = Closed(j)
    BY <2>1, <2>4, ClosedIsTabs DEF EventsStay, TabIds
  <2>5. CASE tab' = [tab EXCEPT ![j].crashed = TRUE]
    <3> DEFINE r == [tab[j] EXCEPT !.crashed = TRUE]
    <3>1. tab' = [tab EXCEPT ![j] = r] /\ r.event = tab[j].event
      BY <2>1, <2>5 DEF TabRow
    <3>. QED BY <3>1, RowKeepsEvents
  <2>6. CASE tab' = [tab EXCEPT ![j].doc = 1, ![j].snapped = 0]
    <3> DEFINE r == [tab[j] EXCEPT !.doc = 1, !.snapped = 0]
    <3>1. tab' = [tab EXCEPT ![j] = r] /\ r.event = tab[j].event
      BY <2>1, <2>6 DEF TabRow
    <3>. QED BY <3>1, RowKeepsEvents
  <2>. QED BY <1>2, <2>2, <2>3, <2>4, <2>5, <2>6
<1>3. ASSUME NEW row, tab' = Append(tab, row) PROVE EventsStay
  BY <1>3, AppendKeepsEvents, TabFacts
<1>4. ASSUME RestartIn(tab) PROVE EventsStay
  <2> DEFINE ts == [j \in DOMAIN tab |-> [tab[j] EXCEPT !.open = FALSE]]
  <2>1. ts \in Seq(TabRow) /\ Len(ts) = Len(tab) /\ \A j \in TabIds : ts[j].event = tab[j].event
    <3>1. \A j \in DOMAIN tab : [tab[j] EXCEPT !.open = FALSE] \in TabRow
                                /\ [tab[j] EXCEPT !.open = FALSE].event = tab[j].event
      BY TabFacts DEF TabRow
    <3>2. ts \in [1..Len(tab) -> TabRow] /\ Len(tab) \in Nat
      BY <3>1, TabFacts
    <3>3. \A j \in DOMAIN tab : ts[j] = [tab[j] EXCEPT !.open = FALSE]
      BY Zenon
    <3> HIDE DEF ts
    <3>4. ts \in Seq(TabRow) /\ Len(ts) = Len(tab)
      BY <3>2
    <3>. QED BY <3>1, <3>3, <3>4 DEF TabIds
  <2>2. \E row : tab' = Append(ts, row)
    BY <1>4 DEF RestartIn
  <2> HIDE DEF ts
  <2>. QED BY <2>1, <2>2, AppendKeepsEvents
<1>5. ASSUME Recovered PROVE EventsStay
  <2>1. CASE actionTab = NoTab
    BY <1>3, <1>5, <2>1 DEF Recovered
  <2>2. CASE actionTab # NoTab
    <3>1. actionTab \in TabIds
      BY <2>2, TabFacts DEF TabInv, PointersHold, NoTab, TabIds
    <3>2. \E row : tab' = Append(Closed(actionTab), row)
      BY <1>5, <2>2 DEF Recovered
    <3>. QED BY <3>1, <3>2, ClosedIsTabs, AppendKeepsEvents
  <2>. QED BY <2>1, <2>2
<1>6. \A j : ~Dead(j) \/ j \in Open(tab) => j \in TabIds
  BY DEF Dead, Open, TabIds
<1>7. ASSUME NEW j \in TabIds, PageCloses(j) \/ PageCrashes(j) \/ PageLoads(j) PROVE EventsStay
  BY <1>2, <1>7 DEF PageCloses, CloseTab, PageCrashes, PageLoads
<1>8. CASE PageOpens
  BY <1>3, <1>8 DEF PageOpens
<1>9. CASE TabCall \/ CallEnds \/ FindsDead \/ Press \/ TabSelect \/ UNCHANGED tabVars
           \/ HoldRequested \/ HoldGranted \/ HoldDeclined \/ HoldReleased \/ HoldValidated \/ HoldExpires
  BY <1>1, <1>9 DEF TabCall, CallEnds, FindsDead, Press, TabSelect, HoldRequested, HoldGranted,
       HoldDeclined,
     HoldReleased, HoldValidated, HoldExpires, tabVars
<1>10. ASSUME StaleRef PROVE EventsStay
  <2>1. CASE Dead(actionTab)
    <3>1. UNCHANGED <<tab, snaps>>
      BY <1>10, <2>1 DEF StaleRef
    <3>2. tab' = tab
      BY <3>1
    <3>. QED BY <1>1, <3>2
  <2>2. CASE ~Dead(actionTab)
    <3>1. actionTab \in TabIds /\ TakeSnapshot(actionTab)
      BY <1>6, <1>10, <2>2 DEF StaleRef
    <3>. QED BY <1>2, <3>1
  <2>. QED BY <2>1, <2>2
<1>11. CASE ResolveRef \/ Navigate \/ Snapshot \/ GotoChooser
  BY <1>1, <1>2, <1>6, <1>10, <1>11 DEF ResolveRef, Navigate, Snapshot, GotoChooser
<1>12. CASE ActOnRef
  <2>1. ASSUME Resolves(req.snap), tab' = [tab EXCEPT ![req.tab].crashed = TRUE] PROVE EventsStay
    <3>1. req.tab \in TabIds
      BY <1>6, <1>12, <2>1 DEF ActOnRef, Resolves, TabInv, RequestsHold, OnItsTab
    <3>. QED BY <1>2, <2>1, <3>1
  <2>. QED BY <1>1, <1>10, <1>12, <2>1 DEF ActOnRef
<1>13. CASE TabNew \/ TabClose
  BY <1>1, <1>2, <1>3, <1>6, <1>13 DEF TabNew, TabClose, CloseTab
<1>14. CASE Recover \/ TabRestart
  BY <1>4, <1>5, <1>14 DEF Recover, TabRestart
<1>15. CASE BlankTab
  BY <1>2, <1>6, <1>15 DEF BlankTab
<1>. QED
  BY <1>7, <1>8, <1>9, <1>11, <1>12, <1>13, <1>14, <1>15 DEF TabNext

\* Only its event ends the event of a tab, and that does not close a person's tab.
LEMMA EventStays ==
  ASSUME TabInv, NEW i \in TabIds, tab[i].event = "attach", tab[i].byHuman, IsOpen(i),
         [TabNext]_tabVars, tab'[i].event = "over"
  PROVE  tab'[i].open
<1>1. PICK j \in TabIds : TabEvent(j)
  BY OnlyEventsMove DEF EventsStay
<1>2. /\ tab \in Seq(TabRow) /\ tab[i] \in TabRow /\ tab[j] \in TabRow /\ i \in DOMAIN tab /\ j \in DOMAIN tab
      /\ tab[i].open
  BY TabFacts DEF TabIds, IsOpen, Open
<1>3. CASE Attaches(j)
  BY <1>2, <1>3 DEF Attaches, TabIds, TabRow
<1>4. CASE AttachFails(j)
  <2> DEFINE r == [tab[j] EXCEPT !.event = "over", !.open = tab[j].open /\ tab[j].byHuman]
  <2>1. tab' = [tab EXCEPT ![j] = r]
    BY <1>2, <1>4 DEF AttachFails
  <2>2. CASE i = j
    BY <1>2, <2>1, <2>2 DEF TabRow
  <2>3. CASE i # j
    BY <1>2, <2>1, <2>3 DEF TabRow
  <2>. QED BY <2>2, <2>3
<1>5. CASE OpenerKnown(j) \/ Follows(j)
  <2>1. i # j
    BY <1>5 DEF OpenerKnown, Follows
  <2>2. tab'[i] = tab[i]
    BY <1>2, <1>5, <2>1 DEF OpenerKnown, Follows
  <2>. QED BY <1>2, <2>2
<1>. QED
  BY <1>1, <1>3, <1>4, <1>5 DEF TabEvent

\* A person's tab is not closed for a guard that fails, also after they handed back
\* (navigation-guard.ts, onContextPage).
THEOREM HumanTabKeptCorrect == TabSpec => HumanTabKept
<1> DEFINE Kept1 == \A i \in TabIds : tab[i].byHuman /\ IsOpen(i) /\ tab[i].event = "attach"
                                     /\ tab'[i].event = "over" => tab'[i].open
<1>1. TabInv /\ [TabNext]_tabVars => [Kept1]_tabVars
  BY EventStays
<1>2. TabInit => TabInv
  BY TabsBegin
<1>3. TabInv /\ [TabNext]_tabVars => TabInv'
  BY TabInvKept
<1>. QED
  BY <1>1, <1>2, <1>3, PTL DEF TabSpec, HumanTabKept

-----------------------------------------------------------------------------
(* The proxy *)

USE EgressAssumption

\* The requests that hold a slot
Slots == {r \in Requests : proxyReq[r].at \in {"connecting", "open", "leaked"}}
\* What was vetted holds no refused address, and nothing is connected to before it was vetted.
VettedFirst ==
    \A r \in Requests : /\ proxyReq[r].vetted \cap Refused = {}
                        /\ proxyReq[r].at \in {"none", "first", "second"} => proxyReq[r].peer = {}
EgressIInv == EgressSafe /\ VettedFirst

\* Slots are finitely many.
LEMMA SlotsFinite == IsFiniteSet(Slots)
  BY FS_Subset DEF Slots

\* A request that is written over outside the slots, before and after, leaves their number as it is;
\* one that comes in makes it one more, one that goes out one less.
LEMMA SlotsChange ==
  ASSUME EgressTypeOK, NEW r \in Requests, NEW q \in ProxyRequest,
         proxyReq' = [proxyReq EXCEPT ![r] = q]
  PROVE  /\ (r \in Slots <=> q.at \in {"connecting", "open", "leaked"}) => Slots' = Slots
         /\ (r \notin Slots /\ q.at \in {"connecting", "open", "leaked"}) => Slots' = Slots \cup {r}
         /\ (r \in Slots /\ q.at \notin {"connecting", "open", "leaked"}) => Slots' = Slots \ {r}
  BY DEF EgressTypeOK, Slots

\* The count follows the slots through any change of one request.
LEMMA CountFollows ==
  ASSUME EgressTypeOK, active = Cardinality(Slots), NEW r \in Requests, NEW q \in ProxyRequest,
         proxyReq' = [proxyReq EXCEPT ![r] = q],
         active' = IF r \in Slots /\ q.at \notin {"connecting", "open", "leaked"} THEN active - 1
                   ELSE IF r \notin Slots /\ q.at \in {"connecting", "open", "leaked"} THEN active + 1 ELSE active
  PROVE  active' \in Nat /\ active' = Cardinality(Slots')
<1>1. CASE r \in Slots <=> q.at \in {"connecting", "open", "leaked"}
  BY <1>1, SlotsChange DEF EgressTypeOK
<1>2. CASE r \notin Slots /\ q.at \in {"connecting", "open", "leaked"}
  <2>1. Slots' = Slots \cup {r}
    BY <1>2, SlotsChange
  <2>2. Cardinality(Slots') = Cardinality(Slots) + 1
    BY <1>2, <2>1, SlotsFinite, FS_AddElement
  <2>. QED
    BY <1>2, <2>2 DEF EgressTypeOK
<1>3. CASE r \in Slots /\ q.at \notin {"connecting", "open", "leaked"}
  <2>1. Slots' = Slots \ {r}
    BY <1>3, SlotsChange
  <2>2. Cardinality(Slots') = Cardinality(Slots) - 1
    BY <1>3, <2>1, SlotsFinite, FS_RemoveElement
  <2>3. Cardinality(Slots) # 0
    BY <1>3, SlotsFinite, FS_EmptySet
  <2>. QED
    BY <1>3, <2>2, <2>3 DEF EgressTypeOK
<1>. QED
  BY <1>1, <1>2, <1>3

\* What a request is replaced by: it keeps the line count, and its peer was vetted.
Fair(q) ==
    /\ q \in ProxyRequest
    /\ q.lines = (IF q.at = "done" THEN 1 ELSE 0)
    /\ q.peer \subseteq q.vetted /\ q.vetted \cap Refused = {}
    /\ q.at \in {"none", "first", "second"} => q.peer = {}
    /\ q.at = "leaked" => ~q.heard

\* A request that ends with its line written is fair.
LEMMA LineIsWritten ==
  ASSUME NEW q, Fair(q), q.at # "done"
  PROVE  Fair(Denied(q)) /\ Denied(q).at = "done"
<1>. DEFINE d == [q EXCEPT !.at = "done"]
<1>1. d \in ProxyRequest /\ d.at = "done" /\ d.lines = 0 /\ d.peer = q.peer /\ d.vetted = q.vetted
  BY DEF Fair, ProxyRequest
<1>. HIDE DEF d
<1>2. Fair(Logged(d)) /\ Logged(d).at = "done"
  BY <1>1 DEF Fair, ProxyRequest, Logged
<1>. QED
  BY <1>2 DEF d, Denied

\* A step that replaces one request by a fair one, and counts it, keeps the invariant.
LEMMA OneRequest ==
  ASSUME EgressIInv, NEW r \in Requests, NEW q, Fair(q),
         proxyReq' = [proxyReq EXCEPT ![r] = q], UNCHANGED <<answer, answers>>,
         active' = IF r \in Slots /\ q.at \notin {"connecting", "open", "leaked"} THEN active - 1
                   ELSE IF r \notin Slots /\ q.at \in {"connecting", "open", "leaked"} THEN active + 1 ELSE active
  PROVE  EgressIInv'
<1>. USE DEF EgressIInv, EgressSafe
<1>1. active = Cardinality(Slots)
  BY DEF SlotsAddUp, Slots
<1>2. active' \in Nat /\ active' = Cardinality(Slots')
  BY <1>1, CountFollows DEF Fair
<1>3. EgressTypeOK'
  BY <1>2 DEF EgressTypeOK, Fair
<1>4. \A s \in Requests : proxyReq'[s] = IF s = r THEN q ELSE proxyReq[s]
  BY DEF EgressTypeOK
<1>5. SlotsAddUp'
  BY <1>2, <1>4 DEF SlotsAddUp, Slots, Fair
<1>6. OnlyWhatWasVetted'
  BY <1>4 DEF OnlyWhatWasVetted, Fair, VettedFirst
<1>7. VettedFirst'
  BY <1>4 DEF VettedFirst, Fair
<1>. QED
  BY <1>3, <1>5, <1>6, <1>7

\* A request that is fair already
LEMMA FairAlready ==
  ASSUME EgressIInv, NEW r \in Requests
  PROVE  Fair(proxyReq[r])
  BY DEF EgressIInv, EgressSafe, EgressTypeOK, SlotsAddUp, OnlyWhatWasVetted, VettedFirst, Fair

\* However a request ends (onDone), it ends once: q is proxyReq[r] but for its client and its quiet.
LEMMA EndsOnce ==
  ASSUME EgressIInv, NEW r \in Requests, NEW q, Fair(q), q.at = proxyReq[r].at,
         proxyReq[r].at \in {"connecting", "open", "done"}, Done(r, q), UNCHANGED <<answer, answers>>
  PROVE  EgressIInv'
<1>1. CASE proxyReq[r].at = "done"
  <2>1. [q EXCEPT !.at = "done"] = q
    BY <1>1 DEF Fair, ProxyRequest
  <2>. QED
    BY <1>1, <2>1, OneRequest DEF Done, Slots
<1>2. CASE proxyReq[r].at # "done"
  <2>. DEFINE p == Logged([q EXCEPT !.at = "done"])
  <2>1. Fair(p) /\ p.at = "done"
    BY <1>2, LineIsWritten DEF Denied
  <2>2. r \in Slots
    BY <1>2 DEF Slots
  <2>3. active = Cardinality(Slots) /\ active \in Nat
    BY DEF EgressIInv, EgressSafe, EgressTypeOK, SlotsAddUp, Slots
  <2>4. active # 0
    BY <2>2, <2>3, SlotsFinite, FS_EmptySet
  <2>5. active' = active - 1 /\ proxyReq' = [proxyReq EXCEPT ![r] = p]
    BY <1>2, <2>3, <2>4 DEF Done
  <2>. HIDE DEF p
  <2>. QED
    BY <2>1, <2>2, <2>5, OneRequest
<1>. QED
  BY <1>1, <1>2

\* The first states
LEMMA EgressStarts == EgressInit => EgressIInv
<1>. SUFFICES ASSUME EgressInit PROVE EgressIInv
  OBVIOUS
<1>1. {r \in Requests : proxyReq[r].at \in {"connecting", "open", "leaked"}} = {}
  BY DEF EgressInit, ProxyNoRequest
<1>2. active = Cardinality({r \in Requests : proxyReq[r].at \in {"connecting", "open", "leaked"}})
  BY <1>1, FS_EmptySet DEF EgressInit
<1>. QED
  BY <1>2 DEF EgressInit, ProxyNoRequest, EgressIInv, EgressSafe, EgressTypeOK, ProxyRequest,
       SlotsAddUp,
     OnlyWhatWasVetted, VettedFirst

\* Every step keeps the invariant.
LEMMA EgressKept == EgressIInv /\ [EgressNext]_egressVars => EgressIInv'
<1>. SUFFICES ASSUME EgressIInv, [EgressNext]_egressVars PROVE EgressIInv'
  OBVIOUS
<1>1. ASSUME NEW r \in Requests, NEW by \in {"http", "connect"}, ProxyAsks(r, by) PROVE EgressIInv'
  <2>. DEFINE none == [proxyReq[r] EXCEPT !.by = by]
  <2>1. Fair(proxyReq[r]) /\ proxyReq[r].at = "none"
    BY <1>1, FairAlready DEF ProxyAsks
  <2>2. PICK ok \in BOOLEAN : proxyReq' = [proxyReq EXCEPT ![r] =
            IF ok /\ active < MaxConcurrent THEN [none EXCEPT !.at = "first"] ELSE Denied(none)]
    BY <1>1 DEF ProxyAsks, Admits, EgressIInv, EgressSafe, EgressTypeOK
  <2>3. Fair(none) /\ none.at = "none"
    BY <2>1 DEF Fair, ProxyRequest
  <2>4. /\ Fair([none EXCEPT !.at = "first"]) /\ [none EXCEPT !.at = "first"].at = "first"
        /\ Fair(Denied(none)) /\ Denied(none).at = "done"
    <3>. HIDE DEF none
    <3>1. Fair([none EXCEPT !.at = "first"]) /\ [none EXCEPT !.at = "first"].at = "first"
      BY <2>3 DEF Fair, ProxyRequest
    <3>. QED
      BY <2>3, <3>1, LineIsWritten
  <2>5. r \notin Slots
    BY <2>1 DEF Slots
  <2>. HIDE DEF none
  <2>. QED
    BY <1>1, <2>2, <2>4, <2>5, OneRequest DEF ProxyAsks
<1>2. ASSUME NEW r \in Requests, LooksUp(r) PROVE EgressIInv'
  <2>1. Fair(proxyReq[r]) /\ proxyReq[r].at \in {"first", "second"} /\ r \notin Slots
    BY <1>2, FairAlready DEF LooksUp, Slots
  <2>2. answer \subseteq Addresses
    BY DEF EgressIInv, EgressSafe, EgressTypeOK
  <2>3. CASE ~ProxyAllowed
    <3>1. Fair(Denied(proxyReq[r])) /\ Denied(proxyReq[r]).at = "done"
      BY <2>1, LineIsWritten
    <3>. QED
      BY <1>2, <2>1, <2>3, <3>1, OneRequest DEF LooksUp, EgressIInv, EgressSafe, EgressTypeOK
  <2>4. CASE ProxyAllowed /\ proxyReq[r].at = "first"
    <3>. DEFINE q == [proxyReq[r] EXCEPT !.at = "second"]
    <3>1. Fair(q) /\ q.at = "second"
      BY <2>1, <2>4 DEF Fair, ProxyRequest
    <3>2. proxyReq' = [proxyReq EXCEPT ![r] = q] /\ active' = active /\ UNCHANGED <<answer, answers>>
      BY <1>2, <2>4 DEF LooksUp, EgressIInv, EgressSafe, EgressTypeOK
    <3>. HIDE DEF q
    <3>. QED
      BY <2>1, <3>1, <3>2, OneRequest
  <2>5. CASE ProxyAllowed /\ proxyReq[r].at # "first"
    <3>. DEFINE q == [proxyReq[r] EXCEPT !.at = "connecting", !.vetted = answer, !.heard = proxyReq[r].client]
    <3>1. proxyReq[r].peer = {}
      BY <2>1 DEF Fair
    <3>2. Fair(q) /\ q.at = "connecting"
      BY <2>1, <2>2, <2>5, <3>1 DEF Fair, ProxyRequest, ProxyAllowed
    <3>3. proxyReq' = [proxyReq EXCEPT ![r] = q] /\ active' = active + 1 /\ UNCHANGED <<answer, answers>>
      BY <1>2, <2>5 DEF LooksUp, TakesSlot, EgressIInv, EgressSafe, EgressTypeOK
    <3>. HIDE DEF q
    <3>. QED
      BY <2>1, <3>2, <3>3, OneRequest
  <2>. QED
    BY <2>3, <2>4, <2>5
<1>3. ASSUME NEW r \in Requests, ProxyConnects(r) PROVE EgressIInv'
  <2>1. Fair(proxyReq[r]) /\ proxyReq[r].at = "connecting" /\ r \in Slots
    BY <1>3, FairAlready DEF ProxyConnects, Slots
  <2>2. PICK a \in proxyReq[r].vetted : proxyReq' = [proxyReq EXCEPT ![r].at = "open", ![r].peer = {a}]
    BY <1>3 DEF ProxyConnects
  <2>. DEFINE q == [proxyReq[r] EXCEPT !.at = "open", !.peer = {a}]
  <2>3. Fair(q) /\ q.at = "open"
    BY <2>1 DEF Fair, ProxyRequest
  <2>4. proxyReq' = [proxyReq EXCEPT ![r] = q]
    BY <2>2 DEF EgressIInv, EgressSafe, EgressTypeOK
  <2>. HIDE DEF q
  <2>. QED
    BY <1>3, <2>1, <2>3, <2>4, OneRequest DEF ProxyConnects
<1>4. ASSUME NEW r \in Requests, UpstreamFails(r) PROVE EgressIInv'
  BY <1>4, FairAlready, EndsOnce DEF UpstreamFails
<1>5. ASSUME NEW r \in Requests, UpstreamEnds(r) PROVE EgressIInv'
  <2>. DEFINE q == [proxyReq[r] EXCEPT !.client = FALSE]
  <2>1. Fair(q) /\ q.at = proxyReq[r].at
    BY FairAlready DEF Fair, ProxyRequest
  <2>. QED
    BY <1>5, <2>1, EndsOnce DEF UpstreamEnds
<1>6. ASSUME NEW r \in Requests, TimesOut(r) PROVE EgressIInv'
  <2>. DEFINE q == [proxyReq[r] EXCEPT !.client = proxyReq[r].client /\ ~proxyReq[r].heard,
                                      !.quiet = (proxyReq[r].at = "open")]
  <2>1. Fair(q) /\ q.at = proxyReq[r].at
    BY FairAlready DEF Fair, ProxyRequest
  <2>. QED
    BY <1>6, <2>1, EndsOnce DEF TimesOut
<1>7. ASSUME NEW r \in Requests, ClientLeaves(r) PROVE EgressIInv'
  <2>. DEFINE q == [proxyReq[r] EXCEPT !.client = FALSE]
  <2>1. Fair(q) /\ q.at = proxyReq[r].at
    BY FairAlready DEF Fair, ProxyRequest
  <2>2. CASE proxyReq[r].heard /\ proxyReq[r].at \in {"connecting", "open", "done"}
    BY <1>7, <2>1, <2>2, EndsOnce DEF ClientLeaves
  <2>3. CASE ~(proxyReq[r].heard /\ proxyReq[r].at \in {"connecting", "open", "done"})
    <3>1. proxyReq' = [proxyReq EXCEPT ![r] = q] /\ active' = active /\ UNCHANGED <<answer, answers>>
      BY <1>7, <2>3 DEF ClientLeaves, EgressIInv, EgressSafe, EgressTypeOK
    <3>2. r \in Slots <=> q.at \in {"connecting", "open", "leaked"}
      BY <2>1 DEF Slots
    <3>. HIDE DEF q
    <3>. QED
      BY <2>1, <3>1, <3>2, OneRequest
  <2>. QED
    BY <2>2, <2>3
<1>10. ASSUME NEW r \in Requests, Leaks(r) PROVE EgressIInv'
  <2>. DEFINE q == [proxyReq[r] EXCEPT !.at = "leaked"]
  <2>1. /\ Fair(q) /\ q.at = "leaked" /\ r \in Slots
        /\ proxyReq' = [proxyReq EXCEPT ![r] = q] /\ UNCHANGED <<active, answer, answers>>
    BY <1>10, FairAlready DEF Leaks, Fair, ProxyRequest, Slots, EgressIInv, EgressSafe, EgressTypeOK
  <2>. HIDE DEF q
  <2>. QED
    BY <2>1, OneRequest
<1>8. CASE NameChanges
  BY <1>8 DEF NameChanges, EgressIInv, EgressSafe, EgressTypeOK, SlotsAddUp, OnlyWhatWasVetted,
       VettedFirst
<1>9. CASE UNCHANGED egressVars
  BY <1>9 DEF egressVars, EgressIInv, EgressSafe, EgressTypeOK, SlotsAddUp, OnlyWhatWasVetted,
       VettedFirst
<1>. QED
  BY <1>1, <1>2, <1>3, <1>4, <1>5, <1>6, <1>7, <1>8, <1>9, <1>10 DEF EgressNext

\* However requests overlap, end, time out and lose their clients while names change: a connection
\* goes to an address that was vetted and is not refused; a slot is given back once and one line is
\* written, but for a request whose client left unheard (proxy.ts, onDone; policy.ts,
\* evaluateDestination).
THEOREM EgressHolds == EgressSpec => []EgressSafe
<1>1. EgressIInv => EgressSafe
  BY DEF EgressIInv
<1>. QED
  BY <1>1, EgressStarts, EgressKept, PTL DEF EgressSpec

-----------------------------------------------------------------------------
(* Destinations *)

\* A number is its half and its last bit.
LEMMA Halves == ASSUME NEW x \in Nat, NEW y \in Nat PROVE x = y <=> x \div 2 = y \div 2 /\ x % 2 = y % 2
<1>1. ASSUME NEW z \in Nat PROVE z \div 2 \in Nat /\ z % 2 \in {0, 1} /\ z % 2 = z - 2 * (z \div 2)
  BY Z3
<1>. DEFINE h(z) == z \div 2
            r(z) == z % 2
<1>2. h(x) \in Nat /\ h(y) \in Nat /\ r(x) \in {0, 1} /\ r(y) \in {0, 1} /\ r(x) = x - 2 * h(x) /\ r(y) = y - 2 * h(y)
  BY <1>1
<1>. HIDE DEF h, r
<1>3. x = y <=> h(x) = h(y) /\ r(x) = r(y)
  BY <1>2
<1>. QED
  BY <1>3 DEF h, r
\* Two bytes have the same first m bits, or the same value without the others.
LEMMA SameBits ==
  ASSUME NEW a \in 0..255, NEW b \in 0..255, NEW m \in 0..8
  PROVE  a \div Power(8 - m) = b \div Power(8 - m)
         <=> \A j \in 1..m : (a \div Power(8 - j)) % 2 = (b \div Power(8 - j)) % 2
<1>1. Power(0) = 1 /\ Power(1) = 2 /\ Power(2) = 4 /\ Power(3) = 8 /\ Power(4) = 16 /\ Power(5) = 32
      /\ Power(6) = 64 /\ Power(7) = 128 /\ Power(8) = 256
  BY DEF Power, PowersOfTwo
<1>2. \A x \in 0..255 : /\ x \div 256 = 0 /\ x \div 128 \in Nat /\ x \div 64 \in Nat /\ x \div 32 \in Nat
                         /\ x \div 16 \in Nat /\ x \div 8 \in Nat /\ x \div 4 \in Nat /\ x \div 2 \in Nat
                         /\ x \div 1 \in Nat
  OBVIOUS
<1>3. \A x \in 0..255 : /\ (x \div 128) \div 2 = 0 /\ (x \div 64) \div 2 = x \div 128
                         /\ (x \div 32) \div 2 = x \div 64 /\ (x \div 16) \div 2 = x \div 32
  OBVIOUS
<1>4. \A x \in 0..255 : /\ (x \div 8) \div 2 = x \div 16 /\ (x \div 4) \div 2 = x \div 8
                         /\ (x \div 2) \div 2 = x \div 4 /\ (x \div 1) \div 2 = x \div 2
  OBVIOUS
<1>. DEFINE V(x, n) == x \div Power(8 - n)
<1>5. \A x \in 0..255, n \in 0..8 : V(x, n) \in Nat
  <2>1. \A n \in 0..8 : n \in {0, 1, 2, 3, 4, 5, 6, 7, 8}
    OBVIOUS
  <2>. QED
    BY <1>1, <1>2, <2>1
<1>6. \A x \in 0..255 : \A n \in 1..8 : V(x, n) \div 2 = V(x, n - 1)
  <2>1. \A n \in 1..8 : n \in {1, 2, 3, 4, 5, 6, 7, 8}
    OBVIOUS
  <2>. TAKE x \in 0..255
  <2>2. V(x, 1) \div 2 = V(x, 0) /\ V(x, 2) \div 2 = V(x, 1) /\ V(x, 3) \div 2 = V(x, 2) /\ V(x, 4) \div 2 = V(x, 3)
    BY <1>1, <1>2, <1>3
  <2>3. V(x, 5) \div 2 = V(x, 4) /\ V(x, 6) \div 2 = V(x, 5) /\ V(x, 7) \div 2 = V(x, 6) /\ V(x, 8) \div 2 = V(x, 7)
    BY <1>1, <1>3, <1>4
  <2>. HIDE DEF V
  <2>. TAKE n \in 1..8
  <2>4. CASE n \in {1, 2, 3, 4}
    BY <2>2, <2>4
  <2>5. CASE n \in {5, 6, 7, 8}
    BY <2>3, <2>5
  <2>. QED
    BY <2>1, <2>4, <2>5
<1>7. V(a, 0) = 0 /\ V(b, 0) = 0
  BY <1>1, <1>2
<1>. HIDE DEF V
<1>8. \A n \in 1..8 : V(a, n) = V(b, n) <=> V(a, n - 1) = V(b, n - 1) /\ V(a, n) % 2 = V(b, n) % 2
  <2>. TAKE n \in 1..8
  <2>1. V(a, n) \in Nat /\ V(b, n) \in Nat
    BY <1>5
  <2>2. V(a, n) \div 2 = V(a, n - 1) /\ V(b, n) \div 2 = V(b, n - 1)
    BY <1>6
  <2>. QED
    BY <2>1, <2>2, Halves, Zenon
<1>9. V(a, m) = V(b, m) <=> \A j \in 1..m : V(a, j) % 2 = V(b, j) % 2
  <2>1. m \in {0, 1, 2, 3, 4, 5, 6, 7, 8}
    OBVIOUS
  <2>2. \A j \in 1..8 : j \in {1, 2, 3, 4, 5, 6, 7, 8}
    OBVIOUS
  <2>. DEFINE B(n) == V(a, n) % 2 = V(b, n) % 2
              S(n) == V(a, n) = V(b, n)
  <2>3. S(0) /\ \A n \in 1..8 : S(n) <=> S(n - 1) /\ B(n)
    BY <1>7, <1>8
  <2>. HIDE DEF B, S
  <2>4. /\ S(1) <=> B(1)
        /\ S(2) <=> S(1) /\ B(2)
        /\ S(3) <=> S(2) /\ B(3)
        /\ S(4) <=> S(3) /\ B(4)
        /\ S(5) <=> S(4) /\ B(5)
        /\ S(6) <=> S(5) /\ B(6)
        /\ S(7) <=> S(6) /\ B(7)
        /\ S(8) <=> S(7) /\ B(8)
    BY <2>3
  <2>5. S(m) <=> \A j \in 1..m : B(j)
    BY <2>1, <2>2, <2>3, <2>4
  <2>. QED
    BY <2>5 DEF B, S
<1>. QED
  BY <1>9 DEF V
\* The bits of an address, counted through and by byte
LEMMA BitPlace ==
  ASSUME NEW i \in Nat, NEW j \in 1..8, NEW k, k = 8 * i + j
  PROVE  k \in Nat /\ (k - 1) \div 8 = i /\ (k - 1) % 8 = j - 1
OBVIOUS
LEMMA BitHasPlace ==
  ASSUME NEW k \in Nat \ {0}, NEW l \in Nat, k <= 8 * l
  PROVE  \E i \in 1..l, j \in 1..8 : k = 8 * (i - 1) + j
<1>. DEFINE q == (k - 1) \div 8
            r == (k - 1) % 8
<1>1. q \in Nat /\ r \in 0..7 /\ k - 1 = 8 * q + r
  BY Z3
<1>. HIDE DEF q, r
<1>2. q + 1 \in 1..l /\ r + 1 \in 1..8 /\ k = 8 * ((q + 1) - 1) + (r + 1)
  BY <1>1
<1>. QED
  BY <1>2
\* The bits a range fixes of a byte
LEMMA BitsOfByte ==
  ASSUME NEW range, NEW n \in Nat, range.bits = n, NEW i \in Nat \ {0}
  PROVE  BitsIn(range, i) \in 0..8 /\ \A j \in 1..8 : j <= BitsIn(range, i) <=> 8 * (i - 1) + j <= n
<1>1. CASE n >= 8 * i
  BY <1>1 DEF BitsIn
<1>2. CASE n <= 8 * (i - 1)
  BY <1>2 DEF BitsIn
<1>3. CASE n > 8 * (i - 1) /\ n < 8 * i
  <2>1. n % 8 = n - 8 * (i - 1)
    <3>. DEFINE r == n - 8 * (i - 1)
    <3>1. r \in 0..7 /\ n = 8 * (i - 1) + r
      BY <1>3
    <3>. HIDE DEF r
    <3>2. n % 8 = r
      BY <3>1
    <3>. QED
      BY <3>2 DEF r
  <2>2. BitsIn(range, i) = n - 8 * (i - 1)
    BY <1>3, <2>1 DEF BitsIn
  <2>. QED
    BY <1>3, <2>2
<1>. QED
  BY <1>1, <1>2, <1>3
LEMMA RangeIsBeginning ==
  ASSUME NEW a, NEW range, IsAddress(a), IsAddress(range.base), range.bits \in 0..8 * Len(range.base)
  PROVE  InRange(a, range) <=> BeginsAs(a, range)
<1>. SUFFICES ASSUME Len(a) = Len(range.base) PROVE InRange(a, range) <=> BeginsAs(a, range)
  BY DEF InRange, BeginsAs
<1>. DEFINE b == range.base
            n == range.bits
            l == Len(a)
<1>0. /\ a \in Seq(0..255) /\ b \in Seq(0..255) /\ Len(a) = l /\ Len(b) = l /\ l \in Nat /\ DOMAIN a = 1..l
      /\ n \in Nat /\ n <= 8 * l
  BY DEF IsAddress
<1>a. InRange(a, range) <=> \A i \in 1..l : a[i] \div Power(8 - BitsIn(range, i)) = b[i] \div Power(8 - BitsIn(range, i))
  BY <1>0 DEF InRange
<1>b. range.bits = n /\ \A k : BitOf(range.base, k) = BitOf(b, k)
  OBVIOUS
<1>5. BeginsAs(a, range) <=> \A k \in 1..n : BitOf(a, k) = BitOf(b, k)
  BY DEF BeginsAs
<1>. HIDE DEF b, n, l
<1>1. \A i \in 1..l : a[i] \in 0..255 /\ b[i] \in 0..255
  BY <1>0, ElementOfSeq
<1>2. \A i \in 1..l : /\ BitsIn(range, i) \in 0..8
                        /\ \A j \in 1..8 : j <= BitsIn(range, i) <=> 8 * (i - 1) + j <= n
  <2>. TAKE i \in 1..l
  <2>1. i \in Nat \ {0}
    BY <1>0
  <2>. QED
    BY <1>0, <1>b, <2>1, BitsOfByte, Zenon
<1>3. \A i \in 1..l : a[i] \div Power(8 - BitsIn(range, i)) = b[i] \div Power(8 - BitsIn(range, i)) <=>
        \A j \in 1..BitsIn(range, i) : (a[i] \div Power(8 - j)) % 2 = (b[i] \div Power(8 - j)) % 2
  BY <1>1, <1>2, SameBits, Zenon
<1>4. InRange(a, range) <=> \A i \in 1..l : \A j \in 1..BitsIn(range, i) :
        (a[i] \div Power(8 - j)) % 2 = (b[i] \div Power(8 - j)) % 2
  BY <1>3, <1>a, Zenon
<1>6. ASSUME NEW i \in 1..l, NEW j \in 1..8, NEW k, k = 8 * (i - 1) + j
      PROVE  BitOf(a, k) = (a[i] \div Power(8 - j)) % 2 /\ BitOf(b, k) = (b[i] \div Power(8 - j)) % 2
  <2>. DEFINE h == i - 1
  <2>1. h \in Nat /\ h + 1 = i /\ k = 8 * h + j
    BY <1>0, <1>6
  <2>. HIDE DEF h
  <2>2. (k - 1) \div 8 = h /\ (k - 1) % 8 = j - 1
    BY <2>1, BitPlace
  <2>3. ((k - 1) \div 8) + 1 = i /\ 7 - ((k - 1) % 8) = 8 - j
    BY <2>1, <2>2
  <2>. QED
    BY <2>3 DEF BitOf
<1>7. ASSUME InRange(a, range), NEW k \in 1..n PROVE BitOf(a, k) = BitOf(b, k)
  <2>0. k \in Nat \ {0} /\ k <= n /\ k <= 8 * l
    BY <1>0
  <2>1. PICK i \in 1..l, j \in 1..8 : k = 8 * (i - 1) + j
    BY <1>0, <2>0, BitHasPlace, Zenon
  <2>2. j <= BitsIn(range, i) /\ BitsIn(range, i) \in 0..8
    BY <1>2, <2>0, <2>1, Zenon
  <2>3. j \in 1..BitsIn(range, i)
    BY <2>2
  <2>4. (a[i] \div Power(8 - j)) % 2 = (b[i] \div Power(8 - j)) % 2
    BY <1>4, <1>7, <2>3
  <2>. QED
    BY <1>6, <2>1, <2>4
<1>8. ASSUME \A k \in 1..n : BitOf(a, k) = BitOf(b, k), NEW i \in 1..l, NEW j \in 1..BitsIn(range, i)
      PROVE  (a[i] \div Power(8 - j)) % 2 = (b[i] \div Power(8 - j)) % 2
  <2>0. BitsIn(range, i) \in 0..8 /\ \A h \in 1..8 : h <= BitsIn(range, i) => 8 * (i - 1) + h <= n
    BY <1>2
  <2>1. j \in 1..8 /\ 8 * (i - 1) + j \in 1..n
    BY <1>0, <2>0
  <2>. QED
    BY <1>6, <1>8, <2>1
<1>. QED
  BY <1>4, <1>5, <1>7, <1>8

\* An address of 4 bytes is itself, and one of 16 that holds one of 4 is that one.
LEMMA AsFourIs ==
  ASSUME NEW a, IsAddress(a)
  PROVE  /\ IsAddress(AsFour(a)) /\ AsFour(AsFour(a)) = AsFour(a)
         /\ Len(AsFour(a)) # 4 => AsFour(a) = a
<1>1. CASE MappedIpv4(a) # NoAddress
  <2>1. AsFour(a) = SubSeq(a, 13, 16) /\ Len(a) = 16 /\ a \in Seq(0..255)
    BY <1>1 DEF AsFour, MappedIpv4, IsAddress
  <2>a. \A i \in 1..Len(a) : a[i] \in 0..255
    BY <2>1, ElementOfSeq
  <2>b. \A i \in 1..16 : a[i] \in 0..255
    BY <2>1, <2>a, Zenon
  <2>c. \A i \in 13..16 : i \in 1..16
    OBVIOUS
  <2>0. \A i \in 13..16 : a[i] \in 0..255
    BY <2>b, <2>c, Zenon
  <2>2. SubSeq(a, 13, 16) \in Seq(0..255) /\ Len(SubSeq(a, 13, 16)) = 4
    BY <2>0, SubSeqProperties
  <2>3. MappedIpv4(SubSeq(a, 13, 16)) = NoAddress
    BY <2>2 DEF MappedIpv4
  <2>. QED
    BY <2>1, <2>2, <2>3 DEF AsFour, IsAddress
<1>2. CASE MappedIpv4(a) = NoAddress
  BY <1>2 DEF AsFour
<1>. QED
  BY <1>1, <1>2
LEMMA DeniedIsInside ==
  ASSUME NEW a, IsAddress(a)
  PROVE  /\ IsDenied(a) <=> Inside(a)
         /\ IsDenied(AsFour(a)) <=> Inside(a)
<1>1. IsAddress(AsFour(a)) /\ AsFour(AsFour(a)) = AsFour(a)
  BY AsFourIs
<1>2. \A range \in DeniedRanges : InRange(AsFour(a), range) <=> BeginsAs(AsFour(a), range)
  <2>. TAKE range \in DeniedRanges
  <2>1. IsAddress(range.base) /\ range.bits \in 0..8 * Len(range.base)
    BY RangeAssumption
  <2>. QED
    BY <1>1, <2>1, RangeIsBeginning, Zenon
<1>. QED
  BY <1>1, <1>2 DEF IsDenied, Inside

LEMMA ZeroIsWord == 0 \in Word16
BY SMTT(30) DEF Word16
LEMMA WordHasBytes == ASSUME NEW w \in Word16 PROVE w \div 256 \in 0..255 /\ w % 256 \in 0..255
<1>1. w \div 256 \in Nat
  BY Z3 DEF Word16
<1>2. w \div 256 <= 255
  BY Z3 DEF Word16
<1>3. w % 256 \in 0..255
  BY SMT DEF Word16
<1>. QED
  BY <1>1, <1>2, <1>3
LEMMA BytesAre ==
  ASSUME NEW n \in Nat, NEW words \in Seq(Word16), Len(words) = n
  PROVE  BytesOf(words) \in Seq(0..255) /\ Len(BytesOf(words)) = 2 * n
<1>1. ASSUME NEW i \in 1..2 * n
      PROVE  (IF i % 2 = 1 THEN words[(i + 1) \div 2] \div 256 ELSE words[i \div 2] % 256) \in 0..255
  <2>1. \A w \in Word16 : w \div 256 \in 0..255 /\ w % 256 \in 0..255
    BY WordHasBytes
  <2>2. i % 2 = 1 => (i + 1) \div 2 \in 1..n
    OBVIOUS
  <2>3. i % 2 # 1 => i \div 2 \in 1..n
    OBVIOUS
  <2>4. \A k \in 1..n : words[k] \in Word16
    BY ElementOfSeq
  <2>. QED
    BY <2>1, <2>2, <2>3, <2>4, SMT
<1>2. BytesOf(words) \in [1..2 * n -> 0..255]
  BY <1>1 DEF BytesOf
<1>3. 2 * n \in Nat
  OBVIOUS
<1>. QED
  BY <1>2, <1>3
LEMMA Ipv6Is ==
  ASSUME NEW h \in [is : {"words"}, left : Seq(Word16), gap : BOOLEAN, right : Seq(Word16)],
         Ipv6Bytes(h) # NoAddress
  PROVE  /\ Ipv6Bytes(h) \in Seq(0..255) /\ Len(Ipv6Bytes(h)) = 16
         /\ Len(h.left) + Len(h.right) <= 8 /\ (~h.gap => Len(h.left) + Len(h.right) = 8)
         /\ Len(h.left) + Len(h.right) = 8 => Ipv6Bytes(h) = BytesOf(h.left \o h.right)
<1>. DEFINE missing == 8 - Len(h.left) - Len(h.right)
            zeros == [i \in 1..missing |-> 0]
<1>1. h.left \in Seq(Word16) /\ h.right \in Seq(Word16) /\ Len(h.left) \in Nat /\ Len(h.right) \in Nat
  BY LenProperties
<1>2. missing \in Nat /\ (~h.gap => missing = 0) /\ Ipv6Bytes(h) = BytesOf(h.left \o zeros \o h.right)
  BY <1>1 DEF Ipv6Bytes
<1>3. zeros \in Seq(Word16) /\ Len(zeros) = missing
  <2>1. 0 \in Word16
    BY ZeroIsWord
  <2>2. zeros \in [1..missing -> Word16]
    BY <2>1
  <2>3. missing \in Nat
    BY <1>2
  <2>. HIDE DEF zeros, missing
  <2>. QED
    BY <2>2, <2>3
<1>4. missing = 0 => zeros = <<>>
  BY <1>3
<1>. HIDE DEF zeros
<1>5. h.left \o zeros \o h.right \in Seq(Word16) /\ Len(h.left \o zeros \o h.right) = 8
  BY <1>1, <1>2, <1>3, ConcatProperties
<1>6. missing = 0 => h.left \o zeros = h.left
  BY <1>1, <1>4, ConcatEmptySeq
<1>7. BytesOf(h.left \o zeros \o h.right) \in Seq(0..255) /\ Len(BytesOf(h.left \o zeros \o h.right)) = 16
  <2>. DEFINE words == h.left \o zeros \o h.right
  <2>1. words \in Seq(Word16) /\ Len(words) = 8
    BY <1>5
  <2>. HIDE DEF words
  <2>2. BytesOf(words) \in Seq(0..255) /\ Len(BytesOf(words)) = 2 * 8
    BY <2>1, BytesAre
  <2>. QED
    BY <2>2 DEF words
<1>8. missing = 8 - Len(h.left) - Len(h.right)
  OBVIOUS
<1>. HIDE DEF missing
<1>9. Len(h.left) + Len(h.right) = 8 => missing = 0
  BY <1>1, <1>8
<1>10. Len(h.left) + Len(h.right) <= 8 /\ (~h.gap => Len(h.left) + Len(h.right) = 8)
  BY <1>1, <1>2, <1>8
<1>. QED
  BY <1>2, <1>6, <1>7, <1>9, <1>10

\* What an address is written as when it is read, and what it stands for
LEMMA DottedIs ==
  ASSUME NEW p, p \in Seq(0..255), Len(p) = 4
  PROVE  Canonical(Dotted(p)) = {Dotted(p)} /\ StandsFor(Dotted(p)) = p /\ AddressOf(Dotted(p)) = p /\ IsAddress(p)
<1>0. \A i \in 1..Len(p) : p[i] \in 0..255
  BY ElementOfSeq
<1>1. \A i \in 1..4 : p[i] \in 0..255
  BY <1>0
<1>. QED
  BY <1>1 DEF Dotted, Canonical, StandsFor, AddressOf, IsAddress
LEMMA WordsAre ==
  ASSUME NEW h \in [is : {"words"}, left : Seq(Word16), gap : BOOLEAN, right : Seq(Word16)], IsIpv6(h)
  PROVE  LET b == Ipv6Bytes(h) IN
         /\ Canonical(h) = (IF Len(AsFour(b)) = 4 THEN {Dotted(AsFour(b))} ELSE {h})
         /\ StandsFor(h) = AsFour(b) /\ AddressOf(h) = b /\ IsAddress(b)
BY Ipv6Is DEF Canonical, StandsFor, AddressOf, IsAddress, IsIpv6
LEMMA WordsJoined ==
  ASSUME NEW h \in [is : {"words"}, left : Seq(Word16), gap : BOOLEAN, right : Seq(Word16)],
         Ipv6Bytes(h) # NoAddress, ~IsIpv6(h)
  PROVE  LET f == AddressWords(h.left \o h.right, FALSE, <<>>) IN
         /\ f \in [is : {"words"}, left : Seq(Word16), gap : BOOLEAN, right : Seq(Word16)]
         /\ Ipv6Bytes(f) = Ipv6Bytes(h) /\ IsIpv6(f)
<1>. DEFINE w == h.left \o h.right
            f == AddressWords(w, FALSE, <<>>)
<1>0. h.left \in Seq(Word16) /\ h.right \in Seq(Word16) /\ Len(h.left) \in Nat /\ Len(h.right) \in Nat
  BY LenProperties
<1>1. Len(h.left) + Len(h.right) = 8 /\ Ipv6Bytes(h) = BytesOf(w)
  <2>1. /\ Len(h.left) + Len(h.right) <= 8 /\ (~h.gap => Len(h.left) + Len(h.right) = 8)
        /\ Len(h.left) + Len(h.right) = 8 => Ipv6Bytes(h) = BytesOf(w)
    BY Ipv6Is
  <2>2. h.gap => ~(Len(h.left) + Len(h.right) < 8)
    BY DEF IsIpv6
  <2>3. h.gap \in BOOLEAN
    OBVIOUS
  <2>. HIDE DEF w
  <2>. QED
    BY <1>0, <2>1, <2>2, <2>3
<1>2. w \in Seq(Word16) /\ Len(w) = 8
  BY <1>0, <1>1, ConcatProperties
<1>3. <<>> \in Seq(Word16) /\ Len(<<>>) = 0
  BY EmptySeq
<1>. HIDE DEF w
<1>4. f \in [is : {"words"}, left : Seq(Word16), gap : BOOLEAN, right : Seq(Word16)]
      /\ f.left = w /\ f.gap = FALSE /\ f.right = <<>>
  BY <1>2, <1>3 DEF AddressWords
<1>. HIDE DEF f
<1>a. 8 - Len(f.left) - Len(f.right) = 0
  BY <1>2, <1>3, <1>4
<1>5. Ipv6Bytes(f) = BytesOf(w \o [i \in 1..0 |-> 0] \o <<>>)
  <2>1. ~(0 < 0) /\ ~(f.gap = FALSE /\ f.gap)
    BY <1>4
  <2>2. Ipv6Bytes(f) = BytesOf(f.left \o [i \in 1..0 |-> 0] \o f.right)
    BY <1>4, <1>a, <2>1 DEF Ipv6Bytes
  <2>. QED
    BY <1>4, <2>2, Zenon
<1>6. [i \in 1..0 |-> 0] = <<>>
  OBVIOUS
<1>7. w \o [i \in 1..0 |-> 0] \o <<>> = w
  BY <1>2, <1>6, ConcatEmptySeq
<1>. QED
  BY <1>1, <1>4, <1>5, <1>7 DEF IsIpv6, w, f

\* A literal is read as one spelling of the address it stands for.
LEMMA LiteralIs ==
  ASSUME NEW h \in Spelling, Spells(h)
  PROVE  \E l : /\ Canonical(h) = {l} /\ AddressOf(l) = StandsFor(h) /\ IsAddress(StandsFor(h)) /\ h.is # "name"
                /\ Spells(l) /\ StandsFor(l) = StandsFor(h)
<1>1. CASE h \in [is : {"dotted"}, parts : Seq(Nat)]
  <2>1. h = Dotted(h.parts) /\ h.parts \in Seq(Nat) /\ h.is = "dotted"
    BY <1>1 DEF Dotted
  <2>2. Canonical(h) = {h} /\ Len(h.parts) = 4 /\ \A i \in 1..4 : h.parts[i] \in 0..255
    BY <2>1 DEF Spells, Canonical
  <2>3. h.parts \in Seq(0..255)
    <3>. DEFINE p == h.parts
    <3>1. p \in [1..4 -> Nat] /\ \A i \in 1..4 : p[i] \in 0..255
      BY <2>1, <2>2, LenProperties
    <3>. HIDE DEF p
    <3>2. p \in [1..4 -> 0..255]
      BY <3>1
    <3>3. p \in Seq(0..255)
      <4>1. PICK n \in Nat : n = 4
        OBVIOUS
      <4>2. p \in [1..n -> 0..255]
        BY <3>2, <4>1
      <4>. QED
        BY <4>2, SeqDef
    <3>. QED
      BY <3>3 DEF p
  <2>4. StandsFor(h) = h.parts /\ AddressOf(h) = h.parts /\ IsAddress(h.parts)
    BY <2>1, <2>2, <2>3, DottedIs
  <2>. QED
    BY <2>1, <2>2, <2>4 DEF Spells
<1>2. CASE h \in [is : {"number"}, hi : Word16, lo : Word16]
  <2>1. Canonical(h) = {Dotted(Ipv4(h))} /\ StandsFor(h) = Ipv4(h) /\ h.is = "number"
    BY <1>2 DEF Canonical, StandsFor
  <2>2. <<h.hi, h.lo>> \in Seq(Word16) /\ Len(<<h.hi, h.lo>>) = 2
    BY <1>2
  <2>3. Ipv4(h) \in Seq(0..255) /\ Len(Ipv4(h)) = 2 * 2
    BY <2>2, BytesAre DEF Ipv4
  <2>4. Ipv4(h) \in Seq(0..255) /\ Len(Ipv4(h)) = 4
    BY <2>3
  <2>5. LET l == Dotted(Ipv4(h)) IN
        Canonical(l) = {l} /\ StandsFor(l) = Ipv4(h) /\ AddressOf(l) = Ipv4(h) /\ IsAddress(Ipv4(h))
    BY <2>4, DottedIs
  <2>. QED
    BY <2>1, <2>5 DEF Spells
<1>3. CASE h \in [is : {"words"}, left : Seq(Word16), gap : BOOLEAN, right : Seq(Word16)]
  <2>. DEFINE b == Ipv6Bytes(h)
  <2>1. h.is = "words" /\ b # NoAddress /\ StandsFor(h) = AsFour(b)
    BY <1>3 DEF Spells, Canonical, StandsFor
  <2>2. IsAddress(b)
    BY <1>3, <2>1, Ipv6Is DEF IsAddress
  <2>3. IsAddress(AsFour(b)) /\ (Len(AsFour(b)) # 4 => AsFour(b) = b)
    BY <2>2, AsFourIs
  <2>4. CASE Len(AsFour(b)) = 4
    <3>1. Canonical(h) = {Dotted(AsFour(b))}
      BY <2>1, <2>4 DEF Canonical
    <3>2. LET l == Dotted(AsFour(b)) IN
          Canonical(l) = {l} /\ StandsFor(l) = AsFour(b) /\ AddressOf(l) = AsFour(b)
      BY <2>3, <2>4, DottedIs DEF IsAddress
    <3>. QED
      BY <2>1, <2>3, <3>1, <3>2 DEF Spells
  <2>5. CASE Len(AsFour(b)) # 4 /\ IsIpv6(h)
    <3>1. Canonical(h) = {h} /\ AddressOf(h) = b
      BY <2>1, <2>5 DEF Canonical, AddressOf
    <3>. QED
      BY <2>1, <2>3, <2>5, <3>1 DEF Spells
  <2>6. CASE Len(AsFour(b)) # 4 /\ ~IsIpv6(h)
    <3>. DEFINE f == AddressWords(h.left \o h.right, FALSE, <<>>)
    <3>1. Canonical(h) = {f}
      BY <2>1, <2>6 DEF Canonical
    <3>2. /\ f \in [is : {"words"}, left : Seq(Word16), gap : BOOLEAN, right : Seq(Word16)]
          /\ Ipv6Bytes(f) = b /\ IsIpv6(f)
      BY <1>3, <2>1, <2>6, WordsJoined
    <3>. HIDE DEF f
    <3>3. Canonical(f) # {} /\ StandsFor(f) = AsFour(b) /\ AddressOf(f) = b
      BY <3>2, WordsAre
    <3>. QED
      BY <2>1, <2>3, <2>6, <3>1, <3>3 DEF Spells
  <2>. QED
    BY <2>4, <2>5, <2>6
<1>4. CASE h \in [is : {"name"}, labels : Seq(STRING)]
  BY <1>4 DEF Spells, Canonical
<1>. QED
  BY <1>1, <1>2, <1>3, <1>4 DEF Spelling

\* A literal is allowed where the text does not count when its port is allowed and its address is outside
\* what is refused: the addresses that are never allowed are inside.
LEMMA LiteralVerdict ==
  ASSUME NEW h \in Hosts, Spells(h), NEW port, NEW found
  PROVE  EvaluateDestination(h, port, "open", found) = "allowed" <=> port \in AllowedPorts /\ ~Inside(StandsFor(h))
<1>0. h \in Spelling /\ NeverHosts \subseteq Spelling
  BY HostAssumption
<1>1. PICK l : /\ Canonical(h) = {l} /\ AddressOf(l) = StandsFor(h) /\ IsAddress(StandsFor(h)) /\ h.is # "name"
               /\ Spells(l) /\ StandsFor(l) = StandsFor(h)
  BY <1>0, LiteralIs
<1>2. Vetted(h, found) = {StandsFor(h)} /\ ~IsReserved(h)
  BY <1>1 DEF Vetted, IsReserved
<1>3. IsDenied(StandsFor(h)) <=> Inside(StandsFor(h))
  BY <1>1, DeniedIsInside
<1>4. ASSUME IsNever(h) PROVE Inside(StandsFor(h))
  <2>1. CASE h \in NeverHosts
    BY <2>1, NeverIsInside
  <2>2. CASE \E n \in NeverHosts : l = n \/ l \in Canonical(n)
    <3>1. PICK n \in NeverHosts : l = n \/ l \in Canonical(n)
      BY <2>2
    <3>2. CASE l = n
      BY <1>1, <3>1, <3>2, NeverIsInside
    <3>3. CASE l \in Canonical(n)
      <4>1. Spells(n) /\ n \in Spelling
        BY <1>0, <3>1, <3>3 DEF Spells
      <4>2. StandsFor(l) = StandsFor(n)
        BY <3>3, <4>1, LiteralIs
      <4>. QED
        BY <1>1, <3>1, <4>1, <4>2, NeverIsInside
    <3>. QED
      BY <3>1, <3>2, <3>3
  <2>. QED
    BY <1>1, <1>4, <2>1, <2>2 DEF IsNever
<1>5. Asked(h, port, "open") = "ok" <=> port \in AllowedPorts /\ ~IsNever(h)
  BY <1>2 DEF Asked
<1>. QED
  BY <1>2, <1>3, <1>4, <1>5 DEF EvaluateDestination, Asked

\* The last decision is the one the code makes of what was asked.
Decided ==
    \/ sought = NothingSought
    \/ /\ sought.host \in Hosts /\ sought.says = EvaluateDestination(sought.host, sought.port, sought.mode, sought.found)
       /\ sought.mode \in {"open", "strict"}
       /\ IF Spells(sought.host) THEN sought.found = {} ELSE \A a \in sought.found : IsAddress(a)
LEMMA DecisionsKept == Decided /\ [DestinationNext]_destinationVars => Decided'
<1>. SUFFICES ASSUME Decided, [DestinationNext]_destinationVars PROVE Decided'
  OBVIOUS
<1>1. CASE DestinationNext
  <2>1. PICK h \in Hosts, port \in Ports, how \in {"open", "strict"} :
             \E found \in IF Canonical(h) = {} THEN Answers ELSE {{}} : Seeks(h, port, how, found)
    BY <1>1 DEF DestinationNext
  <2>2. PICK found \in IF Canonical(h) = {} THEN Answers ELSE {{}} : Seeks(h, port, how, found)
    BY <2>1
  <2>3. IF Spells(h) THEN found = {} ELSE \A a \in found : IsAddress(a)
    BY <2>2, AnswerAssumption DEF Spells
  <2>4. /\ sought'.host = h /\ sought'.port = port /\ sought'.mode = how /\ sought'.found = found
        /\ sought'.says = EvaluateDestination(h, port, how, found)
    BY <2>2 DEF Seeks
  <2>. QED
    BY <2>3, <2>4 DEF Decided
<1>2. CASE UNCHANGED destinationVars
  BY <1>2 DEF destinationVars, Decided
<1>. QED
  BY <1>1, <1>2

LEMMA VerdictsAreSafe == Decided => DestinationSafe
<1>. SUFFICES ASSUME Decided PROVE DestinationSafe
  OBVIOUS
<1>1. CASE sought = NothingSought
  <2>1. sought.says = "denied-port" /\ ~Spells(sought.host)
    BY <1>1 DEF NothingSought, Spells, Canonical, Name
  <2>. QED
    BY <2>1 DEF DestinationSafe, AllowedIsOutside, OneVerdict, StrictIsNarrower
<1>2. CASE sought # NothingSought
  <2>. DEFINE h == sought.host
              port == sought.port
              how == sought.mode
              found == sought.found
  <2>0. /\ h \in Hosts /\ h \in Spelling /\ sought.says = EvaluateDestination(h, port, how, found)
        /\ how \in {"open", "strict"}
        /\ IF Spells(h) THEN found = {} ELSE \A a \in found : IsAddress(a)
    BY <1>2, HostAssumption DEF Decided
  <2>1. StrictIsNarrower
    <3>1. Asked(h, port, how) = "ok" => Asked(h, port, "open") = "ok"
      BY <2>0 DEF Asked
    <3>. QED
      BY <2>0, <3>1 DEF StrictIsNarrower, EvaluateDestination, Asked
  <2>2. OneVerdict
    BY <2>0, LiteralVerdict DEF OneVerdict
  <2>3. \A a \in Sought : IsAddress(a) /\ (IsDenied(AsFour(a)) <=> Inside(a)) /\ (IsDenied(a) <=> Inside(a))
    <3>1. \A a \in Sought : IsAddress(a)
      BY <2>0, LiteralIs DEF Sought
    <3>. QED
      BY <3>1, DeniedIsInside
  <2>4. Vetted(h, found) = IF Spells(h) THEN Sought ELSE {AsFour(a) : a \in Sought}
    <3>1. CASE Spells(h)
      <4>1. PICK l : Canonical(h) = {l} /\ AddressOf(l) = StandsFor(h)
        BY <2>0, <3>1, LiteralIs
      <4>. QED
        BY <3>1, <4>1 DEF Vetted, Sought, Spells
    <3>2. CASE ~Spells(h)
      BY <3>2 DEF Vetted, Sought, Spells
    <3>. QED
      BY <3>1, <3>2
  <2>5. /\ Vetted(h, found) = {} <=> Sought = {}
        /\ (\E a \in Vetted(h, found) : IsDenied(a)) <=> \E a \in Sought : Inside(a)
    BY <2>3, <2>4
  <2>6. Asked(h, port, how) = "ok" => port \in AllowedPorts
    BY DEF Asked
  <2>7. AllowedIsOutside
    <3>1. sought.says = "allowed" => Asked(h, port, how) = "ok" /\ Sought # {} /\ ~\E a \in Sought : Inside(a)
      BY <2>0, <2>5 DEF EvaluateDestination, Asked
    <3>2. sought.says = "denied-ip" => \E a \in Sought : Inside(a)
      BY <2>0, <2>5 DEF EvaluateDestination, Asked
    <3>. QED
      BY <2>6, <3>1, <3>2 DEF AllowedIsOutside
  <2>. QED
    BY <2>1, <2>2, <2>7 DEF DestinationSafe
<1>. QED
  BY <1>1, <1>2

\* An allowed destination has an allowed port and addresses, each outside every range that is refused
\* however it was spelled; all spellings of an address have one answer, and strict mode allows nothing
\* that open mode does not (evaluateDestination, inCidrV4, inCidrV6, canonicalizeIpLiteral).
THEOREM DestinationsAreSafe == DestinationSpec => []DestinationSafe
<1>1. DestinationInit => Decided
  BY DEF DestinationInit, Decided
<1>. QED
  BY <1>1, DecisionsKept, VerdictsAreSafe, PTL DEF DestinationSpec

-----------------------------------------------------------------------------
(* Building a computer *)

BuildPlaces == Role \cup {"none", "remove", "probe", "plan", "network", "again", "start", "ready"}
JobRow == [kind : Planning \cup Removing \cup {"none"}, used : SUBSET (0..Octets), dns : 0..Octets,
           saw : Nat, at : BuildPlaces]
BoxRow == [built : Nat, up : BOOLEAN]
ProvisionTyped ==
    /\ plan \in [Names -> 0..Octets] /\ net \in [Names -> 0..Octets] /\ taken \subseteq 1..Octets
    /\ boxes \in [Names -> [Role -> BoxRow]] /\ profile \in [Names -> Nat] /\ composed \subseteq Names
    /\ image \in Nat \ {0} /\ overlaps \in Nat /\ jobs \in Nat /\ job \in [Names -> JobRow]
\* A build goes on with the subnet that is written down; the containers it has made are of the image
\* it began with, or of a later one.
IsNew(c, r) == boxes[c][r].built # 0 /\ boxes[c][r].built >= job[c].saw
BuildHolds(c) ==
    /\ job[c].at \in {"network", "again"} => job[c].dns = plan[c]
    /\ net[c] # 0 => plan[c] = net[c]
    /\ job[c].saw <= image
    /\ job[c].at \in {"browser", "shell", "start"} => IsNew(c, "proxy")
    /\ job[c].at \in {"shell", "start"} => IsNew(c, "browser")
    /\ job[c].at = "start" => IsNew(c, "shell")
    /\ job[c].at = "ready" => \A r \in Role : IsNew(c, r) /\ boxes[c][r].up
ProvisionIInv == ProvisionTyped /\ \A c \in Names : BuildHolds(c)

\* A free octet is found whenever there is one.
LEMMA FreeIsFound ==
  ASSUME NEW c \in Names, NEW used, Free(used) # {}
  PROVE  FirstFree(c, used) \in 1..Octets
<1>. USE ProvisionAssumption
<1>. DEFINE S == {After(c, o) : o \in Free(used)}
<1>0. \A o \in 1..Octets : After(c, o) \in Nat
  BY DEF After
<1>1. S \in SUBSET Nat /\ S # {}
  BY <1>0 DEF Free
<1>2. PICK m \in S : \A k \in S : m <= k
  <2>. HIDE DEF S
  <2>. QED
    BY <1>1, LeastNatural
<1>3. PICK o \in Free(used) : m = After(c, o)
  OBVIOUS
<1>4. \A p \in Free(used) : After(c, o) <= After(c, p)
  BY <1>2, <1>3
<1>5. FirstFree(c, used) \in Free(used)
  BY <1>3, <1>4 DEF FirstFree
<1>. QED
  BY <1>5 DEF Free

LEMMA NoJobIsRow == NoJob \in JobRow /\ NoJob.at = "none" /\ NoJob.saw = 0
BY ProvisionAssumption DEF NoJob, JobRow, BuildPlaces
\* What a step does to a job: it begins, moves, has probed, has a plan, is over.
JobBecomes(c, at, saw) ==
    /\ job' \in [Names -> JobRow] /\ job'[c].at = at /\ job'[c].saw = saw
    /\ \A d \in Names \ {c} : job'[d] = job[d]
LEMMA JobBegins ==
  ASSUME ProvisionTyped, NEW c \in Names, NEW k \in Planning \cup Removing, NEW a \in {"remove", "probe"},
         job' = [job EXCEPT ![c] = [NoJob EXCEPT !.kind = k, !.saw = image, !.at = a]]
  PROVE  JobBecomes(c, a, image)
<1>. DEFINE row == [NoJob EXCEPT !.kind = k, !.saw = image, !.at = a]
<1>1. \A j \in JobRow, i \in Nat : LET q == [j EXCEPT !.kind = k, !.saw = i, !.at = a] IN
        q \in JobRow /\ q.at = a /\ q.saw = i
  BY DEF JobRow, BuildPlaces
<1>2. row \in JobRow /\ row.at = a /\ row.saw = image
  BY <1>1, NoJobIsRow DEF ProvisionTyped
<1>. HIDE DEF row
<1>. QED
  BY <1>2 DEF ProvisionTyped, JobBecomes, row
LEMMA JobMoves ==
  ASSUME ProvisionTyped, NEW c \in Names, NEW a \in BuildPlaces, NetGoes(c, a)
  PROVE  JobBecomes(c, a, job[c].saw)
BY DEF ProvisionTyped, NetGoes, JobRow, JobBecomes
LEMMA JobProbes ==
  ASSUME ProvisionTyped, NEW c \in Names, NEW used \in SUBSET (0..Octets),
         job' = [job EXCEPT ![c].at = "plan", ![c].used = used]
  PROVE  JobBecomes(c, "plan", job[c].saw)
BY DEF ProvisionTyped, JobRow, BuildPlaces, JobBecomes
LEMMA JobIsSet ==
  ASSUME ProvisionTyped, NEW c \in Names, NEW row \in JobRow, job' = [job EXCEPT ![c] = row]
  PROVE  JobBecomes(c, row.at, row.saw) /\ job'[c].dns = row.dns
BY DEF ProvisionTyped, JobBecomes
LEMMA JobPlans ==
  ASSUME ProvisionTyped, NEW c \in Names, NEW a \in {"network", "again"}, NEW used \in SUBSET (0..Octets),
         NEW o \in 0..Octets, job' = [job EXCEPT ![c].at = a, ![c].used = used, ![c].dns = o]
  PROVE  JobBecomes(c, a, job[c].saw) /\ job'[c].dns = o
<1>. DEFINE row == [job[c] EXCEPT !.at = a, !.used = used, !.dns = o]
<1>1. \A j \in JobRow : LET q == [j EXCEPT !.at = a, !.used = used, !.dns = o] IN
        q \in JobRow /\ q.at = a /\ q.saw = j.saw /\ q.dns = o
  BY DEF JobRow, BuildPlaces
<1>2. job[c] \in JobRow
  BY DEF ProvisionTyped
<1>3. row \in JobRow /\ row.at = a /\ row.saw = job[c].saw /\ row.dns = o
  BY <1>1, <1>2, Zenon
<1>4. job' = [job EXCEPT ![c] = row]
  OBVIOUS
<1>. HIDE DEF row
<1>5. JobBecomes(c, row.at, row.saw) /\ job'[c].dns = row.dns
  BY <1>3, <1>4, JobIsSet, Zenon
<1>. QED
  BY <1>3, <1>5
LEMMA JobIsOver ==
  ASSUME ProvisionTyped, NEW c \in Names, Over(c)
  PROVE  JobBecomes(c, "none", 0)
BY NoJobIsRow DEF ProvisionTyped, Over, JobBecomes
LEMMA BoxBecomes ==
  ASSUME ProvisionTyped, NEW c \in Names, NEW r \in Role, NEW b \in BoxRow, boxes' = [boxes EXCEPT ![c][r] = b]
  PROVE  /\ boxes' \in [Names -> [Role -> BoxRow]] /\ boxes'[c][r] = b
         /\ \A d \in Names, q \in Role : d # c \/ q # r => boxes'[d][q] = boxes[d][q]
<1>1. boxes' = [boxes EXCEPT ![c] = [boxes[c] EXCEPT ![r] = b]]
  OBVIOUS
<1>. QED
  BY <1>1 DEF ProvisionTyped
LEMMA BoxesStart ==
  ASSUME ProvisionTyped, NEW c \in Names, NetStarts(c)
  PROVE  /\ boxes' \in [Names -> [Role -> BoxRow]] /\ \A d \in Names \ {c} : boxes'[d] = boxes[d]
         /\ \A r \in Role : boxes'[c][r].built = boxes[c][r].built /\ (boxes[c][r].built # 0 => boxes'[c][r].up)
<1>. DEFINE row == [r \in Role |-> IF boxes[c][r].built = 0 THEN boxes[c][r] ELSE [boxes[c][r] EXCEPT !.up = TRUE]]
<1>1. \A b \in BoxRow : LET s == [b EXCEPT !.up = TRUE] IN s \in BoxRow /\ s.built = b.built /\ s.up
  BY DEF BoxRow
<1>2. \A r \in Role : boxes[c][r] \in BoxRow
  BY DEF ProvisionTyped
<1>3. row \in [Role -> BoxRow] /\ \A r \in Role : row[r].built = boxes[c][r].built /\ (boxes[c][r].built # 0 => row[r].up)
  BY <1>1, <1>2
<1>4. boxes' = [boxes EXCEPT ![c] = row]
  BY DEF NetStarts
<1>. HIDE DEF row
<1>. QED
  BY <1>3, <1>4 DEF ProvisionTyped

LEMMA ProvisionStarts == ProvisionInit => ProvisionIInv
<1>1. NoBox \in BoxRow /\ 0 \in 0..Octets
  BY ProvisionAssumption DEF NoBox, BoxRow
<1>. QED
  BY <1>1, NoJobIsRow DEF ProvisionInit, ProvisionIInv, ProvisionTyped, BuildHolds, Bare

\* The computers a step is not about are as they were.
LEMMA OthersBuild ==
  ASSUME ProvisionIInv, ProvisionTyped', image' >= image, NEW c \in Names, BuildHolds(c)',
         \A d \in Names \ {c} : /\ job'[d] = job[d] /\ plan'[d] = plan[d] /\ net'[d] = net[d]
                                /\ \A r \in Role : boxes'[d][r] = boxes[d][r]
  PROVE  ProvisionIInv'
<1>1. ASSUME NEW d \in Names \ {c} PROVE BuildHolds(d)'
  <2>1. job[d].saw \in Nat /\ image \in Nat /\ image' \in Nat
    BY DEF ProvisionTyped, ProvisionIInv, JobRow
  <2>. QED
    BY <2>1 DEF ProvisionIInv, BuildHolds, IsNew, Role
<1>. QED
  BY <1>1 DEF ProvisionIInv

LEMMA SomethingElse ==
  ASSUME ProvisionIInv, ProvisionTyped', image' >= image, UNCHANGED <<job, plan, net, boxes>>
  PROVE  ProvisionIInv'
<1>1. ASSUME NEW d \in Names PROVE BuildHolds(d)'
  <2>1. job[d].saw \in Nat /\ image \in Nat /\ image' \in Nat
    BY DEF ProvisionTyped, ProvisionIInv, JobRow
  <2>. QED
    BY <2>1 DEF ProvisionIInv, BuildHolds, IsNew
<1>. QED
  BY <1>1 DEF ProvisionIInv
\* A job that ends or stands elsewhere than where something is established about it
LEMMA JobElsewhere ==
  ASSUME ProvisionIInv, NEW c \in Names, NEW a \in {"none", "remove", "probe", "plan", "proxy"}, NEW n \in {0, image, job[c].saw},
         JobBecomes(c, a, n), overlaps' \in Nat, jobs' \in Nat, UNCHANGED <<plan, net, taken, boxes, profile, composed, image>>
  PROVE  ProvisionIInv'
<1>1. ProvisionTyped'
  BY DEF ProvisionIInv, ProvisionTyped, JobBecomes
<1>2. n <= image
  BY DEF ProvisionIInv, ProvisionTyped, BuildHolds
<1>3. BuildHolds(c)'
  BY <1>2 DEF ProvisionIInv, BuildHolds, JobBecomes, Role
<1>4. image' >= image
  BY DEF ProvisionIInv, ProvisionTyped
<1>. QED
  BY <1>1, <1>3, <1>4, OthersBuild DEF JobBecomes
\* A subnet chosen and written down, or none left
LEMMA PlanIsWritten ==
  ASSUME ProvisionIInv, NEW c \in Names, NEW a \in {"network", "again"}, NEW used \in SUBSET (0..Octets), net[c] = 0,
         IF Free(used) = {} THEN Over(c) /\ UNCHANGED plan
         ELSE /\ plan' = [plan EXCEPT ![c] = FirstFree(c, used)]
              /\ job' = [job EXCEPT ![c].at = a, ![c].used = used, ![c].dns = plan'[c]],
         UNCHANGED <<composed, net, taken, boxes, profile, image, overlaps, jobs>>
  PROVE  ProvisionIInv'
<1>0. ProvisionTyped
  BY DEF ProvisionIInv
<1>1. CASE Free(used) = {}
  BY <1>0, <1>1, JobIsOver, JobElsewhere DEF ProvisionTyped
<1>2. CASE Free(used) # {}
  <2>1. FirstFree(c, used) \in 0..Octets
    BY <1>2, FreeIsFound, ProvisionAssumption
  <2>2. plan' \in [Names -> 0..Octets] /\ plan'[c] \in 0..Octets /\ \A d \in Names \ {c} : plan'[d] = plan[d]
    BY <1>0, <1>2, <2>1 DEF ProvisionTyped
  <2>3. job' = [job EXCEPT ![c].at = a, ![c].used = used, ![c].dns = plan'[c]]
    BY <1>2
  <2>4. JobBecomes(c, a, job[c].saw) /\ job'[c].dns = plan'[c]
    BY <1>0, <2>2, <2>3, JobPlans, Zenon
  <2>5. ProvisionTyped'
    BY <1>0, <2>2, <2>4 DEF ProvisionTyped, JobBecomes
  <2>6. BuildHolds(c)'
    BY <2>4 DEF ProvisionIInv, BuildHolds, JobBecomes, Role
  <2>7. image' >= image
    BY <1>0 DEF ProvisionTyped
  <2>. QED
    BY <2>2, <2>4, <2>5, <2>6, <2>7, OthersBuild DEF JobBecomes
<1>. QED
  BY <1>1, <1>2

LEMMA ProvisionKept == ProvisionIInv /\ [ProvisionNext]_provisionVars => ProvisionIInv'
<1>. SUFFICES ASSUME ProvisionIInv, [ProvisionNext]_provisionVars PROVE ProvisionIInv'
  OBVIOUS
<1>0. ProvisionTyped /\ image >= image /\ image \in Nat
  BY DEF ProvisionIInv, ProvisionTyped
<1>1. ASSUME NEW c \in Names, NEW k \in Planning \cup Removing, NetBegins(c, k) PROVE ProvisionIInv'
  <2>1. PICK a \in {"remove", "probe"} : job' = [job EXCEPT ![c] = [NoJob EXCEPT !.kind = k, !.saw = image, !.at = a]]
    BY <1>1 DEF NetBegins
  <2>2. JobBecomes(c, a, image)
    BY <1>0, <2>1, JobBegins
  <2>. QED
    BY <1>0, <1>1, <2>2, JobElsewhere DEF NetBegins, ProvisionTyped
<1>2. ASSUME NEW c \in Names, Removes(c) PROVE ProvisionIInv'
  <2>1. CASE /\ UNCHANGED <<net, profile, composed, job>>
             /\ \E r \in Role : boxes[c][r] # NoBox /\ boxes' = [boxes EXCEPT ![c][r] = NoBox]
    <3>1. PICK r \in Role : boxes' = [boxes EXCEPT ![c][r] = NoBox]
      BY <2>1
    <3>2. NoBox \in BoxRow
      BY DEF NoBox, BoxRow
    <3>3. /\ boxes' \in [Names -> [Role -> BoxRow]]
          /\ \A d \in Names, q \in Role : d # c => boxes'[d][q] = boxes[d][q]
      BY <1>0, <3>1, <3>2, BoxBecomes
    <3>4. ProvisionTyped'
      BY <1>0, <1>2, <2>1, <3>3 DEF Removes, ProvisionTyped
    <3>5. BuildHolds(c)'
      BY <1>2, <2>1 DEF Removes, NetAt, ProvisionIInv, BuildHolds, Role
    <3>. QED
      BY <1>0, <1>2, <2>1, <3>3, <3>4, <3>5, OthersBuild DEF Removes
  <2>2. CASE /\ net' = [net EXCEPT ![c] = 0] /\ composed' = composed \ {c} /\ UNCHANGED boxes
             /\ IF job[c].kind = "forget" THEN NetGoes(c, "probe") ELSE Over(c)
    <3>1. PICK a \in {"none", "probe"}, n \in {0, job[c].saw} : JobBecomes(c, a, n)
      BY <1>0, <2>2, JobMoves, JobIsOver DEF BuildPlaces
    <3>2. profile' \in [Names -> Nat]
      BY <1>0, <1>2, <2>2 DEF Removes, NoBox, Bare, ProvisionTyped
    <3>3. net' \in [Names -> 0..Octets] /\ net'[c] = 0 /\ \A d \in Names \ {c} : net'[d] = net[d]
      BY <1>0, <2>2, ProvisionAssumption DEF ProvisionTyped
    <3>4. ProvisionTyped'
      BY <1>0, <1>2, <2>2, <3>1, <3>2, <3>3 DEF Removes, ProvisionTyped, JobBecomes
    <3>5. job[c].saw <= image /\ 0 <= image
      BY <1>0 DEF ProvisionIInv, BuildHolds
    <3>6. BuildHolds(c)'
      BY <1>2, <3>1, <3>3, <3>5 DEF Removes, BuildHolds, JobBecomes, Role
    <3>. QED
      BY <1>0, <1>2, <2>2, <3>1, <3>3, <3>4, <3>6, OthersBuild DEF Removes, JobBecomes
  <2>. QED
    BY <1>2, <2>1, <2>2 DEF Removes
<1>3. ASSUME NEW c \in Names, Probes(c) PROVE ProvisionIInv'
  <2>. DEFINE used == taken \cup {net[d] : d \in Names}
  <2>1. used \in SUBSET (0..Octets)
    <3>1. (\A d \in Names : net[d] \in 0..Octets) /\ taken \subseteq 0..Octets
      BY <1>0 DEF ProvisionTyped
    <3>. QED
      BY <3>1
  <2>2. job' = [job EXCEPT ![c].at = "plan", ![c].used = used]
    BY <1>3 DEF Probes
  <2>3. JobBecomes(c, "plan", job[c].saw)
    <3>. HIDE DEF used
    <3>. QED
      BY <1>0, <2>1, <2>2, JobProbes, Zenon
  <2>. QED
    BY <1>0, <1>3, <2>3, JobElsewhere DEF Probes, ProvisionTyped
<1>4. ASSUME NEW c \in Names, Plans(c) PROVE ProvisionIInv'
  <2>. DEFINE used == (job[c].used \cup {plan[d] : d \in Names}) \ {plan[c]}
  <2>1. used \in SUBSET (0..Octets)
    <3>1. (\A d \in Names : plan[d] \in 0..Octets) /\ job[c].used \subseteq 0..Octets
      BY <1>0 DEF ProvisionTyped, JobRow
    <3>. QED
      BY <3>1
  <2>2. UNCHANGED <<composed, net, taken, boxes, profile, image, overlaps, jobs>>
    BY <1>4 DEF Plans
  <2>3. CASE plan[c] # 0
    <3>1. job' = [job EXCEPT ![c].at = "network", ![c].used = used, ![c].dns = plan[c]] /\ UNCHANGED plan
      BY <1>4, <2>3 DEF Plans
    <3>2. plan[c] \in 0..Octets
      BY <1>0 DEF ProvisionTyped
    <3>3. JobBecomes(c, "network", job[c].saw) /\ job'[c].dns = plan[c]
      <4>. HIDE DEF used
      <4>. QED
        BY <1>0, <2>1, <3>1, <3>2, JobPlans, Zenon
    <3>4. ProvisionTyped'
      BY <1>0, <2>2, <3>1, <3>3 DEF ProvisionTyped, JobBecomes
    <3>5. BuildHolds(c)'
      BY <2>2, <3>1, <3>3 DEF ProvisionIInv, BuildHolds, JobBecomes, Role
    <3>. QED
      BY <1>0, <2>2, <3>1, <3>3, <3>4, <3>5, OthersBuild DEF JobBecomes
  <2>4. CASE plan[c] = 0
    <3>1. net[c] = 0
      BY <2>4 DEF ProvisionIInv, BuildHolds
    <3>2. IF Free(used) = {} THEN Over(c) /\ UNCHANGED plan
          ELSE /\ plan' = [plan EXCEPT ![c] = FirstFree(c, used)]
               /\ job' = [job EXCEPT ![c].at = "network", ![c].used = used, ![c].dns = plan'[c]]
      BY <1>4, <2>4 DEF Plans
    <3>. HIDE DEF used
    <3>. QED
      BY <2>1, <2>2, <3>1, <3>2, PlanIsWritten, Zenon
  <2>. QED
    BY <2>3, <2>4
\* What docker refuses: once more with another subnet, or the end
<1>5. ASSUME NEW c \in Names, Forced(c), net[c] = 0,
             UNCHANGED <<composed, net, taken, boxes, profile, image, overlaps, jobs>>
      PROVE  ProvisionIInv'
  <2>. DEFINE used == job[c].used \cup {job[c].dns}
  <2>1. used \in SUBSET (0..Octets)
    BY <1>0 DEF ProvisionTyped, JobRow
  <2>2. IF Free(used) = {} THEN Over(c) /\ UNCHANGED plan
        ELSE /\ plan' = [plan EXCEPT ![c] = FirstFree(c, used)]
             /\ job' = [job EXCEPT ![c].at = "again", ![c].used = used, ![c].dns = plan'[c]]
    BY <1>5 DEF Forced
  <2>. HIDE DEF used
  <2>. QED
    BY <1>5, <2>1, <2>2, PlanIsWritten, Zenon
<1>6. ASSUME NEW c \in Names, Over(c), UNCHANGED <<composed, plan, net, taken, boxes, profile, image, jobs>>,
             overlaps' \in Nat
      PROVE  ProvisionIInv'
  BY <1>0, <1>6, JobIsOver, JobElsewhere DEF ProvisionTyped
<1>7. ASSUME NEW c \in Names, MakesNetwork(c) PROVE ProvisionIInv'
  <2>0. /\ UNCHANGED <<composed, taken, boxes, image, overlaps, jobs>> /\ job[c].at \in {"network", "again"}
        /\ job[c].dns \in 0..Octets /\ job[c].dns = plan[c]
    BY <1>0, <1>7 DEF MakesNetwork, NetAt, ProvisionTyped, JobRow, ProvisionIInv, BuildHolds
  <2>1. CASE net[c] # 0 \/ ~Overlaps(job[c].dns)
    <3>1. /\ net' = [net EXCEPT ![c] = IF @ = 0 THEN job[c].dns ELSE @]
          /\ profile' = [profile EXCEPT ![c] = IF @ = 0 THEN 1 ELSE @]
          /\ NetGoes(c, "proxy") /\ UNCHANGED plan
      BY <1>7, <2>1 DEF MakesNetwork
    <3>2. JobBecomes(c, "proxy", job[c].saw)
      BY <1>0, <3>1, JobMoves DEF BuildPlaces, Role
    <3>3. /\ net' \in [Names -> 0..Octets] /\ net'[c] = IF net[c] = 0 THEN job[c].dns ELSE net[c]
          /\ \A d \in Names \ {c} : net'[d] = net[d]
      BY <1>0, <2>0, <3>1 DEF ProvisionTyped
    <3>4. profile' \in [Names -> Nat]
      BY <1>0, <3>1 DEF ProvisionTyped
    <3>5. ProvisionTyped'
      BY <1>0, <2>0, <3>1, <3>2, <3>3, <3>4 DEF ProvisionTyped, JobBecomes
    <3>6. BuildHolds(c)'
      BY <2>0, <3>1, <3>2, <3>3 DEF ProvisionIInv, BuildHolds, JobBecomes, Role
    <3>. QED
      BY <1>0, <2>0, <3>1, <3>2, <3>3, <3>5, <3>6, OthersBuild DEF JobBecomes
  <2>2. CASE net[c] = 0 /\ Overlaps(job[c].dns)
    <3>1. UNCHANGED <<net, profile>> /\ (Forced(c) \/ (Over(c) /\ UNCHANGED plan))
      BY <1>7, <2>2 DEF MakesNetwork
    <3>2. CASE Forced(c)
      BY <1>5, <2>0, <2>2, <3>1, <3>2
    <3>3. CASE Over(c) /\ UNCHANGED plan
      BY <1>0, <1>6, <2>0, <3>1, <3>3 DEF ProvisionTyped
    <3>. QED
      BY <3>1, <3>2, <3>3
  <2>. QED
    BY <2>1, <2>2
<1>8. ASSUME NEW c \in Names, ComposeUp(c) PROVE ProvisionIInv'
  <2>0. /\ UNCHANGED <<taken, image, overlaps, jobs>> /\ job[c].at \in {"network", "again"}
        /\ job[c].dns \in 0..Octets /\ job[c].dns = plan[c] /\ (net[c] # 0 => net[c] = plan[c])
    BY <1>0, <1>8 DEF ComposeUp, NetAt, ProvisionTyped, JobRow, ProvisionIInv, BuildHolds
  <2>1. CASE net[c] = job[c].dns \/ (net[c] = 0 /\ ~Overlaps(job[c].dns))
    <3>1. /\ net' = [net EXCEPT ![c] = job[c].dns] /\ composed' = composed \cup {c}
          /\ profile' = [profile EXCEPT ![c] = IF @ = 0 THEN 1 ELSE @]
          /\ boxes' = [boxes EXCEPT ![c] = Composed] /\ NetGoes(c, "ready") /\ UNCHANGED plan
      BY <1>8, <2>1 DEF ComposeUp
    <3>2. JobBecomes(c, "ready", job[c].saw)
      BY <1>0, <3>1, JobMoves DEF BuildPlaces
    <3>3. /\ net' \in [Names -> 0..Octets] /\ net'[c] = job[c].dns
          /\ \A d \in Names \ {c} : net'[d] = net[d]
      BY <1>0, <2>0, <3>1 DEF ProvisionTyped
    <3>4. profile' \in [Names -> Nat] /\ composed' \subseteq Names
      BY <1>0, <3>1 DEF ProvisionTyped
    <3>5. Composed \in [Role -> BoxRow] /\ \A r \in Role : Composed[r].built = image /\ Composed[r].up
      BY <1>0 DEF Composed, BoxRow
    <3>6. boxes' \in [Names -> [Role -> BoxRow]] /\ boxes'[c] = Composed /\ \A d \in Names \ {c} : boxes'[d] = boxes[d]
      BY <1>0, <3>1, <3>5 DEF ProvisionTyped
    <3>7. ProvisionTyped'
      BY <1>0, <2>0, <3>1, <3>2, <3>3, <3>4, <3>6 DEF ProvisionTyped, JobBecomes
    <3>8. image # 0 /\ image >= job[c].saw
      BY <1>0 DEF ProvisionIInv, ProvisionTyped, BuildHolds, JobRow
    <3>9. BuildHolds(c)'
      BY <2>0, <3>1, <3>2, <3>3, <3>5, <3>6, <3>8 DEF ProvisionIInv, BuildHolds, IsNew, JobBecomes, Role
    <3>. QED
      BY <1>0, <2>0, <3>1, <3>2, <3>3, <3>6, <3>7, <3>9, OthersBuild DEF JobBecomes
  <2>2. CASE net[c] = 0 /\ Overlaps(job[c].dns) /\ net[c] # job[c].dns
    <3>1. UNCHANGED <<net, profile, composed, boxes>> /\ (Forced(c) \/ (Over(c) /\ UNCHANGED plan))
      BY <1>8, <2>2 DEF ComposeUp
    <3>2. CASE Forced(c)
      BY <1>5, <2>0, <2>2, <3>1, <3>2
    <3>3. CASE Over(c) /\ UNCHANGED plan
      BY <1>0, <1>6, <2>0, <3>1, <3>3 DEF ProvisionTyped
    <3>. QED
      BY <3>1, <3>2, <3>3
  <2>. QED
    BY <2>0, <2>1, <2>2
<1>9. ASSUME NEW c \in Names, NEW r \in Role, Makes(c, r) PROVE ProvisionIInv'
  <2>0. UNCHANGED <<composed, plan, net, taken, profile, image, overlaps, jobs>> /\ job[c].at = r
    BY <1>9 DEF Makes, NetAt
  <2>1. CASE boxes' = [boxes EXCEPT ![c][r] = NoBox] /\ UNCHANGED job
    <3>1. NoBox \in BoxRow
      BY DEF NoBox, BoxRow
    <3>2. /\ boxes' \in [Names -> [Role -> BoxRow]]
          /\ \A d \in Names, q \in Role : d # c \/ q # r => boxes'[d][q] = boxes[d][q]
      BY <1>0, <2>1, <3>1, BoxBecomes
    <3>3. ProvisionTyped'
      BY <1>0, <2>0, <2>1, <3>2 DEF ProvisionTyped
    <3>4. BuildHolds(c)'
      BY <2>0, <2>1, <3>2 DEF ProvisionIInv, BuildHolds, IsNew, Role
    <3>. QED
      BY <1>0, <2>0, <2>1, <3>2, <3>3, <3>4, OthersBuild
  <2>2. CASE /\ boxes' = [boxes EXCEPT ![c][r] = [built |-> image, up |-> FALSE]]
             /\ IF r = "proxy" /\ job[c].dns # net[c] THEN Over(c) ELSE NetGoes(c, NextRole(r))
    <3>. DEFINE b == [built |-> image, up |-> FALSE]
    <3>1. b \in BoxRow /\ b.built = image
      BY <1>0 DEF BoxRow
    <3>2. /\ boxes' \in [Names -> [Role -> BoxRow]] /\ boxes'[c][r].built = image
          /\ \A d \in Names, q \in Role : d # c \/ q # r => boxes'[d][q] = boxes[d][q]
      <4>1. boxes' = [boxes EXCEPT ![c][r] = b]
        BY <2>2
      <4>. HIDE DEF b
      <4>. QED
        BY <1>0, <3>1, <4>1, BoxBecomes
    <3>3. NextRole(r) \in BuildPlaces
      BY DEF NextRole, Role, BuildPlaces
    <3>4. JobBecomes(c, "none", 0) \/ JobBecomes(c, NextRole(r), job[c].saw)
      BY <1>0, <2>2, <3>3, JobMoves, JobIsOver
    <3>5. ProvisionTyped'
      BY <1>0, <2>0, <3>2, <3>4 DEF ProvisionTyped, JobBecomes
    <3>6. image # 0 /\ image >= job[c].saw /\ 0 <= image
      BY <1>0 DEF ProvisionIInv, ProvisionTyped, BuildHolds, JobRow
    <3>7. BuildHolds(c)'
      BY <2>0, <3>2, <3>4, <3>6 DEF ProvisionIInv, BuildHolds, IsNew, JobBecomes, NextRole, Role
    <3>. QED
      BY <1>0, <2>0, <3>2, <3>4, <3>5, <3>7, OthersBuild DEF JobBecomes
  <2>. QED
    BY <1>9, <2>1, <2>2 DEF Makes
<1>10. ASSUME NEW c \in Names, NetStarts(c) PROVE ProvisionIInv'
  <2>1. UNCHANGED <<composed, plan, net, taken, profile, image, overlaps, jobs>> /\ job[c].at = "start"
    BY <1>10 DEF NetStarts, NetAt
  <2>2. JobBecomes(c, "ready", job[c].saw)
    BY <1>0, <1>10, JobMoves DEF NetStarts, BuildPlaces
  <2>3. /\ boxes' \in [Names -> [Role -> BoxRow]] /\ \A d \in Names \ {c} : boxes'[d] = boxes[d]
        /\ \A r \in Role : boxes'[c][r].built = boxes[c][r].built /\ (boxes[c][r].built # 0 => boxes'[c][r].up)
    BY <1>0, <1>10, BoxesStart
  <2>4. ProvisionTyped'
    BY <1>0, <2>1, <2>2, <2>3 DEF ProvisionTyped, JobBecomes
  <2>5. BuildHolds(c)'
    BY <2>1, <2>2, <2>3 DEF ProvisionIInv, BuildHolds, IsNew, JobBecomes, Role
  <2>. QED
    BY <1>0, <2>1, <2>2, <2>3, <2>4, <2>5, OthersBuild DEF JobBecomes
<1>11. ASSUME NEW c \in Names, NetAnswers(c) \/ NetDies(c) PROVE ProvisionIInv'
  BY <1>0, <1>6, <1>11 DEF ProvisionTyped, NetAnswers, NetDies
<1>12. ASSUME NEW o \in 1..Octets, OthersTake(o) PROVE ProvisionIInv'
  <2>1. ProvisionTyped'
    BY <1>0, <1>12 DEF OthersTake, ProvisionTyped
  <2>. QED
    BY <1>0, <1>12, <2>1, SomethingElse DEF OthersTake
<1>13. CASE Rebuilt
  <2>1. ProvisionTyped' /\ image' >= image
    BY <1>0, <1>13 DEF Rebuilt, ProvisionTyped
  <2>. QED
    BY <1>13, <2>1, SomethingElse DEF Rebuilt
<1>14. CASE UNCHANGED provisionVars
  <2>1. ProvisionTyped' /\ image' >= image
    BY <1>0, <1>14 DEF provisionVars, ProvisionTyped
  <2>. QED
    BY <1>14, <2>1, SomethingElse DEF provisionVars
<1>. QED
  BY <1>1, <1>2, <1>3, <1>4, <1>7, <1>8, <1>9, <1>10, <1>11, <1>12, <1>13, <1>14 DEF ProvisionNext

\* What is written down of a computer's subnet is the one its network has, whoever took which octet
\* meanwhile and wherever a build was cut off; and a build that answers has left no container of an
\* older image (resolveInternalDnsPlan, forceAllocateInternalDnsPlan, refreshComputerImage).
THEOREM BuildsHold == ProvisionSpec => [](ProvisionTypeOK /\ PlanIsTheNetwork /\ BuiltIsNew)
<1>1. ProvisionIInv => ProvisionTypeOK /\ PlanIsTheNetwork /\ BuiltIsNew
  BY DEF ProvisionIInv, ProvisionTyped, BuildHolds, IsNew, PlanIsTheNetwork, BuiltIsNew, ProvisionTypeOK, JobRow, BoxRow, BuildPlaces
<1>. QED
  BY <1>1, ProvisionStarts, ProvisionKept, PTL DEF ProvisionSpec
=============================================================================
