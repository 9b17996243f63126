---------------------------- MODULE Daemon_proofs ----------------------------
(***************************************************************************)
(* The daemon that keeps tasks, as MCDaemon composes it: what no step of   *)
(* it does (DaemonSteps) and what tasks and their calls are held to        *)
(* (TaskSafe), from the theorems of its parts.                             *)
(*                                                                         *)
(* Gates: a call is asked about, refused, allowed and recorded as a person *)
(* was told (GateSafe), for any calls, pages and grants. A grant is of a   *)
(* site that was said yes to, and while there is room all there is of that *)
(* site is granted; the rest is about the decision, case by case.          *)
(*                                                                         *)
(* Computers: one that is paused is one that the next call will unpause,   *)
(* it has one live task that a request began, and none while its logins    *)
(* are wiped: ComputerSafe, for any calls and requests that overlap.  What *)
(* makes it inductive: while anybody waits for the computer to wake it is  *)
(* not idle, so no pause begins; a pause that is on its way has its entry  *)
(* in inFlight, or was forgotten (`stray`); and what an unpause has thawed *)
(* stays so until it is noted.                                             *)
(***************************************************************************)
EXTENDS MCDaemon, Tasks_proofs

-----------------------------------------------------------------------------
(* What a tool call needs *)


LEMMA LeastOf ==
  ASSUME NEW S \in SUBSET Nat, S # {}
  PROVE  LET m == CHOOSE i \in S : \A j \in S : i <= j IN m \in S /\ \A j \in S : m <= j
BY LeastOfNat, Zenon

-----------------------------------------------------------------------------
(* Sites *)

\* (The provers do not know that a literal is a string.)
Label == STRING \cup {"www"}
Host == Seq(Label) \ {<<>>}
SiteRow == [scheme : STRING, host : Host, port : Nat]
Ends(host) == {i \in 1..Len(host) : SubSeq(host, i, Len(host)) \in PublicSuffixes}
With(host) == <<"www">> \o host
\* No public suffix is "www" before a name that someone may own.
SuffixesHaveNoWww == \A host \in Host : IsRegistrable(host) => With(host) \notin PublicSuffixes

LEMMA OneOf == ASSUME NEW S, NEW e \in S PROVE <<e>> \in Seq(S) /\ Len(<<e>>) = 1
OBVIOUS
LEMMA HostHas ==
  ASSUME NEW h \in Host
  PROVE  /\ h \in Seq(Label) /\ Len(h) \in Nat \ {0} /\ SubSeq(h, 1, Len(h)) = h
         /\ With(h) \in Host /\ Len(With(h)) = Len(h) + 1 /\ With(h)[1] = "www" /\ Tail(With(h)) = h
         /\ h[1] = "www" => h = With(Tail(h))
<1>1. h \in Seq(Label) /\ Len(h) \in Nat \ {0} /\ SubSeq(h, 1, Len(h)) = h
  BY EmptySeq, SubSeqFull DEF Host
<1>2. <<"www">> \in Seq(Label) /\ Len(<<"www">>) = 1
  <2>1. "www" \in Label
    BY DEF Label
  <2>. QED
    BY <2>1, OneOf
<1>3. With(h) \in Seq(Label) /\ Len(With(h)) = Len(h) + 1 /\ With(h)[1] = "www"
  BY <1>1, <1>2, ConcatProperties DEF With
<1>4. With(h) # <<>>
  BY <1>1, <1>3
<1>5. Tail(With(h)) = h
  BY <1>1 DEF With
<1>6. h[1] = "www" => h = With(Tail(h))
  BY <1>1 DEF With
<1>. QED
  BY <1>1, <1>3, <1>4, <1>5, <1>6 DEF Host
LEMMA EndsMove ==
  ASSUME NEW h \in Host, NEW i \in 1..Len(h)
  PROVE  SubSeq(With(h), i + 1, Len(With(h))) = SubSeq(h, i, Len(h))
<1>1. h \in Seq(Label) /\ Len(h) \in Nat \ {0} /\ Len(With(h)) = Len(h) + 1
  BY HostHas
<1>2. <<"www">> \in Seq(Label) /\ Len(<<"www">>) = 1
  <2>1. "www" \in Label
    BY DEF Label
  <2>. QED
    BY <2>1, OneOf
<1>3. i + 1 \in Len(<<"www">>) + 1..Len(<<"www">>) + Len(h) /\ Len(h) + 1 \in Len(<<"www">>) + 1..Len(<<"www">>) + Len(h)
  BY <1>1, <1>2
<1>4. SubSeq(<<"www">> \o h, i + 1, Len(h) + 1) = SubSeq(h, i + 1 - Len(<<"www">>), Len(h) + 1 - Len(<<"www">>))
  BY <1>1, <1>2, <1>3, SubSeqOfConcat2
<1>5. i + 1 - Len(<<"www">>) = i /\ Len(h) + 1 - Len(<<"www">>) = Len(h)
  BY <1>1, <1>2
<1>. QED
  BY <1>1, <1>4, <1>5 DEF With
LEMMA OwnerIs ==
  ASSUME NEW h \in Host
  PROVE  /\ Ends(h) \in SUBSET Nat /\ (1 \in Ends(h) <=> h \in PublicSuffixes)
         /\ IsRegistrable(h) <=> 1 \notin Ends(h) /\ Ends(h) # {}
         /\ Owner(h) = IF IsRegistrable(h) THEN SubSeq(h, (CHOOSE i \in Ends(h) : \A j \in Ends(h) : i <= j) - 1, Len(h)) ELSE h
<1>1. h \in Seq(Label) /\ Len(h) \in Nat \ {0} /\ SubSeq(h, 1, Len(h)) = h
  BY HostHas
<1>2. Ends(h) \in SUBSET Nat /\ (1 \in Ends(h) <=> h \in PublicSuffixes)
  <2>1. 1 \in 1..Len(h) /\ 1..Len(h) \subseteq Nat
    BY <1>1
  <2>2. 1 \in Ends(h) <=> SubSeq(h, 1, Len(h)) \in PublicSuffixes
    BY <2>1, Zenon DEF Ends
  <2>3. Ends(h) \in SUBSET Nat
    BY <2>1 DEF Ends
  <2>. QED
    BY <1>1, <2>2, <2>3
<1>3. IsRegistrable(h) <=> 1 \notin Ends(h) /\ Ends(h) # {}
  <2>1. 1 \notin Ends(h) => ((\E i \in 2..Len(h) : SubSeq(h, i, Len(h)) \in PublicSuffixes) <=> Ends(h) # {})
    BY <1>1 DEF Ends
  <2>. QED
    BY <1>2, <2>1 DEF IsRegistrable
<1>4. Owner(h) = IF Ends(h) = {} \/ 1 \in Ends(h) THEN h
                 ELSE SubSeq(h, (CHOOSE i \in Ends(h) : \A j \in Ends(h) : i <= j) - 1, Len(h))
  BY Zenon DEF Owner, Ends
<1>. QED
  BY <1>2, <1>3, <1>4
\* A name and the one with "www" before it are one owner's when the name is one that someone may own.
LEMMA OwnerOfWww ==
  ASSUME NEW h \in Host
  PROVE  Owner(With(h)) = Owner(h) <=> IsRegistrable(h) /\ With(h) \notin PublicSuffixes
<1>. DEFINE w == With(h)
            n == Len(h)
            Low(S) == CHOOSE i \in S : \A j \in S : i <= j
<1>1. h \in Host /\ w \in Host /\ n \in Nat \ {0} /\ Len(w) = n + 1 /\ h \in Seq(Label) /\ w \in Seq(Label)
  BY HostHas
<1>2. Ends(w) \in SUBSET Nat /\ Ends(h) \in SUBSET Nat
  BY <1>1, OwnerIs
<1>3. \A i \in 1..n : i + 1 \in Ends(w) <=> i \in Ends(h)
  <2>. TAKE i \in 1..n
  <2>1. SubSeq(w, i + 1, Len(w)) = SubSeq(h, i, Len(h))
    BY <1>1, EndsMove
  <2>2. i + 1 \in 1..Len(w)
    BY <1>1
  <2>. QED
    BY <2>1, <2>2 DEF Ends
<1>4. Ends(w) \subseteq 1..n + 1 /\ Ends(h) \subseteq 1..n
  BY <1>1 DEF Ends
<1>5. /\ IsRegistrable(h) <=> 1 \notin Ends(h) /\ Ends(h) # {}
      /\ IsRegistrable(w) <=> 1 \notin Ends(w) /\ Ends(w) # {}
      /\ 1 \in Ends(w) <=> w \in PublicSuffixes
      /\ Owner(h) = IF IsRegistrable(h) THEN SubSeq(h, Low(Ends(h)) - 1, n) ELSE h
      /\ Owner(w) = IF IsRegistrable(w) THEN SubSeq(w, Low(Ends(w)) - 1, n + 1) ELSE w
  BY <1>1, OwnerIs
<1>6. \A S \in SUBSET Nat : S # {} => Low(S) \in S /\ \A j \in S : Low(S) <= j
  BY LeastOf, Zenon
<1>7. \A i \in 1..n : SubSeq(w, i + 1, n + 1) = SubSeq(h, i, n)
  BY <1>1, EndsMove
<1>. HIDE DEF w, n, Low
<1>8. ASSUME IsRegistrable(h), w \notin PublicSuffixes PROVE Owner(w) = Owner(h)
  <2>1. Ends(h) # {} /\ 1 \notin Ends(h) /\ 1 \notin Ends(w)
    BY <1>5, <1>8
  <2>2. PICK a \in Ends(h) : a = Low(Ends(h)) /\ \A j \in Ends(h) : a <= j
    BY <1>2, <1>6, <2>1
  <2>3. a \in 2..n
    BY <1>1, <1>4, <2>1, <2>2
  <2>4. a + 1 \in Ends(w)
    BY <1>3, <2>2, <2>3
  <2>5. PICK b \in Ends(w) : b = Low(Ends(w)) /\ \A j \in Ends(w) : b <= j
    BY <1>2, <1>6, <2>4
  <2>6. b \in 2..n + 1 /\ b <= a + 1
    BY <1>1, <1>4, <2>1, <2>4, <2>5
  <2>7. b - 1 \in 1..n /\ (b - 1) + 1 = b
    BY <1>1, <2>6
  <2>8. b - 1 \in Ends(h)
    BY <1>3, <2>5, <2>7
  <2>9. b = a + 1
    BY <2>2, <2>3, <2>6, <2>7, <2>8
  <2>10. IsRegistrable(w)
    BY <1>5, <2>1, <2>4
  <2>a. b - 1 = a
    BY <2>3, <2>9
  <2>11. Owner(w) = SubSeq(w, a, n + 1) /\ Owner(h) = SubSeq(h, a - 1, n)
    <3>1. Owner(w) = SubSeq(w, b - 1, n + 1)
      BY <1>5, <2>5, <2>10, Zenon
    <3>2. Owner(h) = SubSeq(h, a - 1, n)
      BY <1>5, <1>8, <2>2, Zenon
    <3>. QED
      BY <2>a, <3>1, <3>2
  <2>12. a - 1 \in 1..n /\ (a - 1) + 1 = a
    BY <1>1, <2>3
  <2>. QED
    BY <1>7, <2>11, <2>12
<1>9. ASSUME Owner(w) = Owner(h) PROVE IsRegistrable(h) /\ w \notin PublicSuffixes
  <2>1. Len(Owner(h)) <= n
    <3>1. CASE ~IsRegistrable(h)
      BY <1>1, <1>5, <3>1 DEF n
    <3>2. CASE IsRegistrable(h)
      <4>1. Low(Ends(h)) \in 2..n
        BY <1>1, <1>2, <1>4, <1>5, <1>6, <3>2
      <4>2. PICK a \in 1..n : a = Low(Ends(h)) - 1
        BY <1>1, <4>1
      <4>3. Len(SubSeq(h, a, n)) = n - a + 1
        <5>1. \A i \in a..n : h[i] \in Label
          BY <1>1, <4>2 DEF n
        <5>. QED
          BY <1>1, <4>2, <5>1, SubSeqProperties
      <4>. QED
        BY <1>1, <1>5, <3>2, <4>2, <4>3
    <3>. QED
      BY <3>1, <3>2
  <2>2. IsRegistrable(w)
    <3>1. SUFFICES ASSUME ~IsRegistrable(w) PROVE FALSE
      OBVIOUS
    <3>2. Len(w) <= n
      BY <1>5, <1>9, <2>1, <3>1
    <3>. QED
      BY <1>1, <3>2
  <2>3. PICK b \in Ends(w) : b = Low(Ends(w)) /\ \A j \in Ends(w) : b <= j
    BY <1>2, <1>5, <1>6, <2>2
  <2>4. b \in 2..n + 1
    BY <1>1, <1>4, <1>5, <2>2, <2>3
  <2>5. b - 1 \in 1..n /\ (b - 1) + 1 = b
    BY <1>1, <2>4
  <2>6. b - 1 \in Ends(h)
    BY <1>3, <2>3, <2>5
  <2>7. 1 \notin Ends(h)
    <3>1. SUFFICES ASSUME 1 \in Ends(h) PROVE FALSE
      OBVIOUS
    <3>2. 2 \in Ends(w)
      BY <1>1, <1>3, <3>1
    <3>3. b = 2
      BY <2>3, <2>4, <3>2
    <3>4. SubSeq(w, 1, n + 1) = w
      BY <1>1, HostHas
    <3>5. Owner(w) = w
      BY <1>5, <2>2, <2>3, <3>3, <3>4
    <3>. QED
      BY <1>1, <1>9, <2>1, <3>5
  <2>. QED
    BY <1>5, <2>2, <2>6, <2>7
<1>. QED
  BY <1>8, <1>9 DEF w
LEMMA WithoutIsHost ==
  ASSUME NEW h \in Host, Len(h) > 1
  PROVE  Tail(h) \in Host
<1>1. h \in Seq(Label) /\ h # <<>>
  BY DEF Host
<1>2. Tail(h) \in Seq(Label) /\ Len(Tail(h)) = Len(h) - 1 /\ Len(h) \in Nat
  BY <1>1, HeadTailProperties, LenProperties
<1>3. Tail(h) # <<>>
  <2>1. Len(Tail(h)) # 0
    BY <1>2
  <2>2. Len(<<>>) = 0
    BY EmptySeq
  <2>. QED
    BY <2>1, <2>2
<1>. QED
  BY <1>2, <1>3 DEF Host
\* The origins one answer is for are the same site, and all there are of it.
LEMMA GrantsAreOfSite ==
  ASSUME NEW o \in SiteRow, SuffixesHaveNoWww, NEW i \in DOMAIN GrantedOriginsFor(o)
  PROVE  SameSite(GrantedOriginsFor(o)[i], o) /\ GrantedOriginsFor(o)[i] \in SiteRow
<1>. DEFINE bare == IF o.host[1] = "www" THEN Tail(o.host) ELSE o.host
            sibling == IF o.host[1] = "www" THEN bare ELSE <<"www">> \o o.host
            q == Origin(o.scheme, sibling, o.port)
<1>1. o.host \in Host /\ o.scheme \in STRING /\ o.port \in Nat
  BY DEF SiteRow
<1>2. GrantedOriginsFor(o) \in {<<>>, <<o>>, <<o, q>>}
      /\ (GrantedOriginsFor(o) = <<o, q>> => Len(o.host) > 1 /\ IsRegistrable(bare))
  BY DEF GrantedOriginsFor
<1>3. GrantedOriginsFor(o)[i] \in {o, q} /\ (GrantedOriginsFor(o)[i] # o => Len(o.host) > 1 /\ IsRegistrable(bare))
  BY <1>2
<1>4. SameSite(o, o)
  BY DEF SameSite
<1>5. ASSUME Len(o.host) > 1, IsRegistrable(bare) PROVE SameSite(q, o) /\ q \in SiteRow
  <2>1. bare \in Host
    BY <1>1, <1>5, WithoutIsHost
  <2>2. With(bare) \in Host /\ Owner(With(bare)) = Owner(bare)
    BY <1>5, <2>1, HostHas, OwnerOfWww DEF SuffixesHaveNoWww
  <2>3. sibling = Alias(o.host)
    BY DEF Alias
  <2>4. IF o.host[1] = "www" THEN o.host = With(bare) /\ sibling = bare ELSE o.host = bare /\ sibling = With(bare)
    BY <1>1, HostHas DEF With
  <2>. HIDE DEF bare, sibling
  <2>5. q.scheme = o.scheme /\ q.port = o.port /\ q.host = sibling /\ q = [scheme |-> o.scheme, host |-> sibling, port |-> o.port]
    BY DEF Origin
  <2>6. Owner(sibling) = Owner(o.host) /\ sibling \in Host
    BY <2>1, <2>2, <2>4
  <2>. QED
    BY <1>1, <2>3, <2>5, <2>6 DEF SameSite, SiteRow
<1>. QED
  BY <1>3, <1>4, <1>5
LEMMA SiteIsGranted ==
  ASSUME NEW o \in SiteRow, NEW p \in SiteRow, SameSite(p, o), GrantedOriginsFor(o) # <<>>
  PROVE  \E i \in DOMAIN GrantedOriginsFor(o) : p = GrantedOriginsFor(o)[i]
<1>. DEFINE bare == IF o.host[1] = "www" THEN Tail(o.host) ELSE o.host
            sibling == IF o.host[1] = "www" THEN bare ELSE <<"www">> \o o.host
            q == Origin(o.scheme, sibling, o.port)
<1>1. /\ o.host \in Host /\ p.host \in Host
      /\ o = [scheme |-> o.scheme, host |-> o.host, port |-> o.port]
      /\ p = [scheme |-> p.scheme, host |-> p.host, port |-> p.port]
  BY DEF SiteRow
<1>2. GrantedOriginsFor(o) \in {<<o>>, <<o, q>>}
      /\ (Len(o.host) > 1 /\ IsRegistrable(bare) => GrantedOriginsFor(o) = <<o, q>>)
  BY DEF GrantedOriginsFor
<1>3. CASE p.host = o.host
  <2>1. p = o
    BY <1>1, <1>3 DEF SameSite
  <2>. QED
    BY <1>2, <2>1
<1>4. CASE p.host # o.host
  <2>1. p.host = sibling /\ Owner(p.host) = Owner(o.host) /\ p.scheme = o.scheme /\ p.port = o.port
    BY <1>4 DEF SameSite, Alias
  <2>2. bare \in Host
    BY <1>1, <2>1
  <2>3. IF o.host[1] = "www" THEN o.host = With(bare) /\ sibling = bare ELSE o.host = bare /\ sibling = With(bare)
    BY <1>1, HostHas DEF With
  <2>4. Owner(With(bare)) = Owner(bare)
    BY <2>1, <2>3
  <2>5. IsRegistrable(bare)
    BY <2>2, <2>4, OwnerOfWww
  <2>6. Len(o.host) > 1
    <3>1. Len(bare) \in Nat \ {0} /\ Len(With(bare)) = Len(bare) + 1
      BY <2>2, HostHas
    <3>. HIDE DEF bare
    <3>a. Len(With(bare)) > 1
      BY <3>1
    <3>2. CASE o.host = With(bare)
      BY <3>a, <3>2, Zenon
    <3>3. CASE o.host = bare
      <4>1. PICK i \in 2..Len(bare) : TRUE
        BY <2>5 DEF IsRegistrable
      <4>. QED
        BY <3>1, <3>3, <4>1
    <3>. QED
      BY <2>3, <3>2, <3>3
  <2>7. p = q
    BY <1>1, <2>1 DEF Origin
  <2>. QED
    BY <1>2, <2>5, <2>6, <2>7
<1>. QED
  BY <1>3, <1>4

\* What is granted is what was granted and as much of the rest as there was room for.
LEMMA GrantingIs ==
  ASSUME NEW held, IsFiniteSet(held), NEW os, Len(os) \in Nat, DOMAIN os = 1..Len(os)
  PROVE  /\ held \subseteq Granting(held, os)
         /\ Granting(held, os) \subseteq held \cup {os[i] : i \in 1..Len(os)}
         /\ IsFiniteSet(Granting(held, os))
         /\ Cardinality(held) <= Cardinality(Granting(held, os))
         /\ Cardinality(Granting(held, os)) < GrantLimit => \A i \in 1..Len(os) : os[i] \in Granting(held, os)
<1>. DEFINE n == Len(os)
            before(i) == held \cup {os[j] : j \in 1..i - 1}
            HasRoom(i) == Cardinality(before(i)) < GrantLimit
            G == Granting(held, os)
<1>1. G = held \cup {os[i] : i \in {k \in 1..n : HasRoom(k)}}
  BY Zenon DEF Granting
<1>2. n \in Nat /\ IsFiniteSet(1..n)
  BY FS_Interval
<1>3. \A T : T \subseteq 1..n => IsFiniteSet(held \cup {os[i] : i \in T})
  <2>. TAKE T
  <2>. HAVE T \subseteq 1..n
  <2>1. IsFiniteSet(T)
    BY <1>2, FS_Subset
  <2>2. IsFiniteSet({os[i] : i \in T})
    <3>. DEFINE f == [i \in T |-> os[i]]
    <3>1. f \in [T -> {os[i] : i \in T}] /\ {f[i] : i \in T} = {os[i] : i \in T}
      OBVIOUS
    <3>2. f \in Surjection(T, {os[i] : i \in T})
      BY <3>1 DEF Surjection
    <3>. HIDE DEF f
    <3>. QED
      BY <2>1, <3>2, FS_Surjection
  <2>. QED
    BY <2>2, FS_Union
<1>. HIDE DEF n, G, HasRoom
<1>4. IsFiniteSet(G)
  <2>1. {k \in 1..n : HasRoom(k)} \subseteq 1..n
    OBVIOUS
  <2>. QED
    BY <1>1, <1>3, <2>1
<1>5. \A T : T \subseteq G => Cardinality(T) <= Cardinality(G) /\ Cardinality(T) \in Nat
  BY <1>4, FS_Subset, FS_CardinalityType
<1>6. Cardinality(G) \in Nat
  BY <1>4, FS_CardinalityType
<1>7. ASSUME Cardinality(G) < GrantLimit, NEW i \in 1..n PROVE os[i] \in G
  <2>. DEFINE Full == {k \in 1..n : ~HasRoom(k)}
  <2>1. CASE Full = {}
    BY <1>1, <2>1
  <2>2. CASE Full # {}
    <3>1. Full \in SUBSET Nat
      OBVIOUS
    <3>2. PICK k \in Full : \A j \in Full : k <= j
      <4>. HIDE DEF Full
      <4>. QED
        BY <2>2, <3>1, LeastOf, Zenon
    <3>3. \A j \in 1..k - 1 : j \in 1..n /\ HasRoom(j)
      BY <1>2, <3>2
    <3>4. before(k) \subseteq G
      BY <1>1, <3>3
    <3>5. Cardinality(before(k)) <= Cardinality(G) /\ Cardinality(before(k)) \in Nat
      BY <1>5, <3>4
    <3>6. ~(Cardinality(before(k)) < GrantLimit)
      BY <3>2 DEF HasRoom
    <3>. HIDE DEF before
    <3>. QED
      BY <1>6, <1>7, <3>5, <3>6, GateAssumption
  <2>. QED
    BY <2>1, <2>2
<1>8. held \subseteq G /\ G \subseteq held \cup {os[i] : i \in 1..n}
  BY <1>1
<1>9. Cardinality(held) <= Cardinality(G)
  BY <1>5, <1>8
<1>. QED
  BY <1>4, <1>7, <1>8, <1>9 DEF G, n

-----------------------------------------------------------------------------
(* Gates *)

\* The first of the gates that are hit is the one that answers.
LEMMA FirstAnswerIs ==
  ASSUME NEW order \in {Early, Late}, NEW gates, NEW how, NEW on, NEW page
  PROVE  LET Hit(i) == order[i] \in gates /\ (order[i] \in on \/ (how = "strict" /\ order[i] = "new_domain"))
             answer == FirstAnswer(order, gates, how, on, page)
         IN  /\ answer = GateAllow <=> \A i \in DOMAIN order : ~Hit(i)
             /\ answer # GateAllow => \E i \in DOMAIN order :
                  /\ Hit(i) /\ \A j \in DOMAIN order : Hit(j) => i <= j
                  /\ answer = IF how = "strict" /\ order[i] = "new_domain" THEN GateDeny ELSE GateAsks(order[i], page.origin)
<1>. DEFINE Hit(i) == order[i] \in gates /\ (order[i] \in on \/ (how = "strict" /\ order[i] = "new_domain"))
            hits == {i \in DOMAIN order : Hit(i)}
            k == CHOOSE i \in hits : \A j \in hits : i <= j
            answer == FirstAnswer(order, gates, how, on, page)
<1>1. answer = IF hits = {} THEN GateAllow
               ELSE IF how = "strict" /\ order[k] = "new_domain" THEN GateDeny ELSE GateAsks(order[k], page.origin)
  BY Zenon DEF FirstAnswer
<1>2. DOMAIN order \in SUBSET Nat
  BY DEF Early, Late
<1>3. hits # {} => k \in hits /\ \A j \in hits : k <= j
  <2>1. hits \in SUBSET Nat
    BY <1>2
  <2>. HIDE DEF hits
  <2>. QED
    BY <2>1, LeastOf, Zenon
<1>4. GateDeny # GateAllow /\ \A g, o : GateAsks(g, o) # GateAllow
  BY DEF GateDeny, GateAllow, GateAsks
<1>. HIDE DEF answer, k
<1>. QED
  BY <1>1, <1>3, <1>4, Zenon DEF answer
LEMMA AnswersDiffer ==
  /\ GateDeny # GateAllow /\ GateAllow.is = "allow" /\ GateDeny.is = "deny"
  /\ \A g, o : GateAsks(g, o).is = "ask" /\ GateAsks(g, o).gate = g /\ GateAsks(g, o).origin = o
BY DEF GateDeny, GateAllow, GateAsks
\* Of the gates that come late none is the one that strict mode refuses.
LEMMA LateAnswers ==
  ASSUME NEW made, NEW how, NEW on, NEW page
  PROVE  /\ FirstAnswer(Late, LateGates(made), how, on, page) = GateAllow
            <=> \A i \in DOMAIN Late : ~(Late[i] \in LateGates(made) /\ Late[i] \in on)
         /\ \/ FirstAnswer(Late, LateGates(made), how, on, page) = GateAllow
            \/ \E g \in {"secret_entry", "external_send"} :
                  FirstAnswer(Late, LateGates(made), how, on, page) = GateAsks(g, page.origin)
<1>1. \A i \in DOMAIN Late : Late[i] \in {"secret_entry", "external_send"} /\ Late[i] # "new_domain"
  BY DEF Late
<1>. QED
  BY <1>1, FirstAnswerIs
LEMMA EarlyAnswers ==
  ASSUME NEW made, NEW page, NEW writable, NEW how, NEW on
  PROVE  LET answer == FirstAnswer(Early, EarlyGates(made, page, writable), how, on, page)
             Asked(g) == g \in EarlyGates(made, page, writable)
             Others == {"delete", "upload", "external_send", "payment"}
         IN  /\ answer = GateAllow <=>
                  /\ \A g \in Others : ~(Asked(g) /\ g \in on)
                  /\ ~(Asked("new_domain") /\ ("new_domain" \in on \/ how = "strict"))
             /\ answer = GateDeny <=>
                  /\ \A g \in Others : ~(Asked(g) /\ g \in on)
                  /\ Asked("new_domain") /\ how = "strict"
             /\ answer # GateAllow /\ answer # GateDeny =>
                  \E g \in Others \cup {"new_domain"} :
                      answer = GateAsks(g, page.origin) /\ Asked(g) /\ g \in on /\ ~(g = "new_domain" /\ how = "strict")
<1>. DEFINE answer == FirstAnswer(Early, EarlyGates(made, page, writable), how, on, page)
            Asked(g) == g \in EarlyGates(made, page, writable)
            Hit(i) == Asked(Early[i]) /\ (Early[i] \in on \/ (how = "strict" /\ Early[i] = "new_domain"))
<1>1. /\ answer = GateAllow <=> \A i \in DOMAIN Early : ~Hit(i)
      /\ answer # GateAllow => \E i \in DOMAIN Early :
           /\ Hit(i) /\ \A j \in DOMAIN Early : Hit(j) => i <= j
           /\ answer = IF how = "strict" /\ Early[i] = "new_domain" THEN GateDeny ELSE GateAsks(Early[i], page.origin)
  BY FirstAnswerIs
<1>2. /\ DOMAIN Early = {1, 2, 3, 4, 5} /\ Early[1] = "delete" /\ Early[2] = "upload" /\ Early[3] = "external_send"
      /\ Early[4] = "payment" /\ Early[5] = "new_domain"
  BY DEF Early
<1>. HIDE DEF answer, Asked
<1>3. answer = GateAllow <=>
        /\ \A g \in {"delete", "upload", "external_send", "payment"} : ~(Asked(g) /\ g \in on)
        /\ ~(Asked("new_domain") /\ ("new_domain" \in on \/ how = "strict"))
  BY <1>1, <1>2
<1>4. ASSUME answer # GateAllow
      PROVE  /\ answer = GateDeny <=>
                  /\ \A g \in {"delete", "upload", "external_send", "payment"} : ~(Asked(g) /\ g \in on)
                  /\ Asked("new_domain") /\ how = "strict"
             /\ answer # GateDeny => \E g \in {"delete", "upload", "external_send", "payment", "new_domain"} :
                  answer = GateAsks(g, page.origin) /\ Asked(g) /\ g \in on /\ ~(g = "new_domain" /\ how = "strict")
  <2>1. PICK i \in DOMAIN Early :
           /\ Hit(i) /\ \A j \in DOMAIN Early : Hit(j) => i <= j
           /\ answer = IF how = "strict" /\ Early[i] = "new_domain" THEN GateDeny ELSE GateAsks(Early[i], page.origin)
    BY <1>1, <1>4
  <2>2. \A g, o : GateAsks(g, o) # GateDeny
    BY AnswersDiffer
  <2>3. CASE i = 5
    BY <1>2, <2>1, <2>2, <2>3
  <2>4. CASE i \in {1, 2, 3, 4}
    <3>1. Early[i] # "new_domain" /\ Early[i] \in {"delete", "upload", "external_send", "payment"}
      BY <1>2, <2>4
    <3>2. answer = GateAsks(Early[i], page.origin) /\ Asked(Early[i]) /\ Early[i] \in on
      BY <2>1, <3>1
    <3>. QED
      BY <2>2, <3>1, <3>2
  <2>. QED
    BY <1>2, <2>3, <2>4
<1>5. answer = GateAllow => answer # GateDeny
  BY AnswersDiffer
<1>. QED
  BY <1>3, <1>4, <1>5 DEF answer, Asked

\* A question about a new domain is about the page's, which no origin in the set matches.
LEMMA NewDomainIs ==
  ASSUME NEW made, NEW page, NEW how, NEW what, NEW grants, NEW on, NEW kill,
         LET answer == EvaluateGate(made, page, how, what, grants, on, kill) IN
             answer.is = "ask" /\ answer.gate = "new_domain"
  PROVE  /\ EvaluateGate(made, page, how, what, grants, on, kill).origin = page.origin
         /\ how # "strict" /\ ~InSet(page.origin, Writable(page, what, grants))
<1>. DEFINE answer == EvaluateGate(made, page, how, what, grants, on, kill)
            writable == Writable(page, what, grants)
            early == FirstAnswer(Early, EarlyGates(made, page, writable), how, on, page)
            late == FirstAnswer(Late, LateGates(made), how, on, page)
<1>1. answer \in {GateAllow, GateDeny, early, late}
  BY Zenon DEF EvaluateGate
<1>2. answer # GateAllow /\ answer # GateDeny
  BY AnswersDiffer
<1>3. answer # late
  BY <1>2, LateAnswers, AnswersDiffer
<1>4. answer = early
  BY <1>1, <1>2, <1>3
<1>5. \E g : answer = GateAsks(g, page.origin) /\ g \in EarlyGates(made, page, writable) /\ ~(g = "new_domain" /\ how = "strict")
  BY <1>2, <1>4, EarlyAnswers
<1>6. "new_domain" \in EarlyGates(made, page, writable) => ~InSet(page.origin, writable)
  BY DEF EarlyGates
<1>. QED
  BY <1>5, <1>6, AnswersDiffer

\* A grant is of the task's origins, so it is written to without a question.
LEMMA GrantMatches ==
  ASSUME NEW page, NEW what, NEW grants, NEW o \in grants
  PROVE  InSet(o, Writable(page, what, grants))
<1>1. OriginMatches(o, Exactly(o))
  BY DEF OriginMatches, Exactly
<1>2. Exactly(o) \in Writable(page, what, grants)
  BY DEF Writable
<1>. QED
  BY <1>1, <1>2 DEF InSet

-----------------------------------------------------------------------------
(* A task's calls *)

OriginsOf(o) == {GrantedOriginsFor(o)[i] : i \in DOMAIN GrantedOriginsFor(o)}
\* A grant is of a site that was said yes to; as long as there is room, of all there is of it. What was
\* told is what is still so.
GrantsHold ==
    /\ mode \in {"supervised", "strict"} /\ IsFiniteSet(granted) /\ always \subseteq SiteRow /\ granted \subseteq SiteRow
    /\ mode = "strict" => granted = {}
    /\ \A g \in granted : \E a \in always : SameSite(g, a)
    /\ \A a \in always : /\ GrantedOriginsFor(a) # <<>>
                         /\ Cardinality(granted) < GrantLimit => OriginsOf(a) \subseteq granted
ToldHolds ==
    \/ told = NothingTold
    \/ /\ told.is = "told" /\ told.call \in ToolCalls /\ told.page \in Pages
       /\ told.masked = AuditMasks(told.call, told.page)
       /\ told.says = EvaluateGate(told.call, told.page, mode, declared, granted, armed, killed)
GateIInv == GrantsHold /\ ToldHolds

LEMMA GatesStart == GateInit => GateIInv
BY FS_EmptySet DEF GateInit, GateIInv, GrantsHold, ToldHolds

LEMMA PageOriginIs == ASSUME NEW page \in Pages PROVE page.origin \in SiteRow
<1>1. page.origin \in [scheme : STRING, host : Seq(STRING) \ {<<>>}, port : Nat]
  BY PageAssumption
<1>2. \A h \in Seq(STRING) : h \in Seq(Label)
  BY SeqMonotonic DEF Label
<1>. QED
  BY <1>1, <1>2 DEF SiteRow, Host
LEMMA GrantIsAdded ==
  ASSUME GateIInv, SuffixesHaveNoWww, AllowsForTask
  PROVE  GateIInv'
<1>. DEFINE o == told.says.origin
            os == GrantedOriginsFor(o)
<1>1. /\ told.is = "told" /\ told.says.is = "ask" /\ told.says.gate = "new_domain" /\ os # <<>>
      /\ granted' = Granting(granted, os) /\ always' = always \cup {o} /\ told' = NothingTold
      /\ UNCHANGED <<mode, declared, armed, killed>>
  BY DEF AllowsForTask
<1>2. told # NothingTold
  BY <1>1 DEF NothingTold
<1>3. told.page \in Pages /\ told.says = EvaluateGate(told.call, told.page, mode, declared, granted, armed, killed)
  BY <1>2 DEF GateIInv, ToldHolds
<1>4. o = told.page.origin /\ mode # "strict"
  BY <1>1, <1>3, NewDomainIs
<1>5. o \in SiteRow
  BY <1>3, <1>4, PageOriginIs
<1>6. Len(os) \in Nat /\ DOMAIN os = 1..Len(os)
  <2>1. PICK q : os \in {<<>>, <<o>>, <<o, q>>}
    BY DEF GrantedOriginsFor
  <2>. HIDE DEF o, os
  <2>. QED
    BY <2>1
<1>. HIDE DEF o, os
<1>7. /\ granted \subseteq granted' /\ granted' \subseteq granted \cup {os[i] : i \in 1..Len(os)}
      /\ IsFiniteSet(granted') /\ Cardinality(granted) <= Cardinality(granted')
      /\ Cardinality(granted') < GrantLimit => \A i \in 1..Len(os) : os[i] \in granted'
  BY <1>1, <1>6, GrantingIs DEF GateIInv, GrantsHold
<1>8. \A i \in 1..Len(os) : SameSite(os[i], o) /\ os[i] \in SiteRow
  BY <1>5, <1>6, GrantsAreOfSite DEF os
<1>9. granted' \subseteq SiteRow /\ always' \subseteq SiteRow
  BY <1>1, <1>5, <1>7, <1>8 DEF GateIInv, GrantsHold
<1>10. \A g \in granted' : \E a \in always' : SameSite(g, a)
  BY <1>1, <1>7, <1>8 DEF GateIInv, GrantsHold
<1>11. Cardinality(granted') < GrantLimit => Cardinality(granted) < GrantLimit
  <2>1. Cardinality(granted) \in Nat /\ Cardinality(granted') \in Nat
    BY <1>7, FS_CardinalityType DEF GateIInv, GrantsHold
  <2>. QED
    BY <1>7, <2>1, GateAssumption
<1>12. ASSUME NEW a \in always'
       PROVE  GrantedOriginsFor(a) # <<>> /\ (Cardinality(granted') < GrantLimit => OriginsOf(a) \subseteq granted')
  <2>1. CASE a \in always
    BY <1>7, <1>11, <2>1 DEF GateIInv, GrantsHold
  <2>2. CASE a = o
    BY <1>1, <1>6, <1>7, <2>2 DEF OriginsOf, os
  <2>. QED
    BY <1>1, <2>1, <2>2
<1>. QED
  BY <1>1, <1>4, <1>7, <1>9, <1>10, <1>12 DEF GateIInv, GrantsHold, ToldHolds, OriginsOf

LEMMA GatesKept ==
  ASSUME SuffixesHaveNoWww
  PROVE  GateIInv /\ [GateNext]_gateVars => GateIInv'
<1>. SUFFICES ASSUME GateIInv, [GateNext]_gateVars PROVE GateIInv'
  OBVIOUS
<1>1. ASSUME NEW made \in ToolCalls, NEW page \in Pages, GateDecides(made, page) PROVE GateIInv'
  BY <1>1 DEF GateIInv, GateDecides, GrantsHold, ToldHolds, OriginsOf
<1>2. CASE AllowsForTask
  BY <1>2, GrantIsAdded
<1>3. ASSUME NEW on \in ArmedSets, NEW kill \in BOOLEAN, SetsPolicy(on, kill) PROVE GateIInv'
  BY <1>3 DEF GateIInv, SetsPolicy, GrantsHold, ToldHolds, OriginsOf
<1>4. CASE UNCHANGED gateVars
  BY <1>4 DEF gateVars, GateIInv, GrantsHold, ToldHolds, OriginsOf
<1>. QED
  BY <1>1, <1>2, <1>3, <1>4 DEF GateNext

-----------------------------------------------------------------------------
(* What a person is told of them *)

LEMMA GrantsAreHome == GateIInv => GrantsStayHome
BY DEF GateIInv, GrantsHold, GrantsStayHome
LEMMA QuestionsAreNew == GateIInv => AskedOnce
<1>. SUFFICES ASSUME GateIInv, told.is = "told", told.says.is = "ask", told.says.gate = "new_domain",
                     Cardinality(granted) < GrantLimit, NEW a \in always, SameSite(told.says.origin, a)
              PROVE  FALSE
  BY DEF AskedOnce
<1>1. told.page \in Pages /\ told.says = EvaluateGate(told.call, told.page, mode, declared, granted, armed, killed)
  BY DEF GateIInv, ToldHolds, NothingTold
<1>2. told.says.origin = told.page.origin /\ ~InSet(told.page.origin, Writable(told.page, declared, granted))
  BY <1>1, NewDomainIs
<1>3. told.page.origin \in SiteRow
  BY <1>1, PageOriginIs
<1>4. a \in SiteRow /\ GrantedOriginsFor(a) # <<>> /\ OriginsOf(a) \subseteq granted
  BY DEF GateIInv, GrantsHold
<1>5. told.page.origin \in OriginsOf(a)
  BY <1>2, <1>3, <1>4, SiteIsGranted DEF OriginsOf
<1>. QED
  BY <1>2, <1>4, <1>5, GrantMatches

-----------------------------------------------------------------------------
(* The decision, by the cases of its call *)

EarlyAnswer(made, page, how, writable, on) == FirstAnswer(Early, EarlyGates(made, page, writable), how, on, page)
LateAnswer(made, page, how, on) == FirstAnswer(Late, LateGates(made), how, on, page)
\* Free whatever the page shows; refused whatever the task may write to
Free(made) == (made.tool = "browser_tabs" /\ made.does \in {"list", "select"}) \/ made.tool \in ReadTools \cup {"write_file"}
Barred(made, page) == InSet(page.origin, TosBlocked) /\ IsActLike(made.tool)
\* What strict mode refuses: to open what it may not write to, and to act on it
Away(made, how, writable) == how = "strict" /\ made.url # AboutBlank /\ ~InSet(made.url, writable)
Outside(made, page, how, writable) == how = "strict" /\ IsActLike(made.tool) /\ ~InSet(page.origin, writable)

LEMMA DecisionIs ==
  ASSUME NEW made, NEW page, NEW how, NEW what, NEW grants, NEW on, NEW kill \in BOOLEAN
  PROVE  LET writable == Writable(page, what, grants)
             answer == EvaluateGate(made, page, how, what, grants, on, kill)
         IN  /\ kill => answer = GateDeny
             /\ ~kill /\ Free(made) => answer = GateAllow
             /\ ~kill /\ ~Free(made) /\ Barred(made, page) => answer = GateDeny
             /\ ~kill /\ ~Free(made) /\ ~Barred(made, page) /\ Opens(made) =>
                  answer = IF Away(made, how, writable) THEN GateDeny ELSE GateAllow
             /\ ~kill /\ ~Free(made) /\ ~Barred(made, page) /\ ~Opens(made) =>
                  answer = IF EarlyAnswer(made, page, how, writable, on) # GateAllow
                           THEN EarlyAnswer(made, page, how, writable, on)
                           ELSE IF Outside(made, page, how, writable) THEN GateDeny
                           ELSE LateAnswer(made, page, how, on)
<1>1. made.tool \in ReadTools \cup {"write_file"} => ~IsActLike(made.tool)
  BY DEF ReadTools, IsActLike, ActTools
<1>2. made.tool = "browser_tabs" => ~IsActLike(made.tool)
  BY DEF IsActLike, ActTools
<1>. QED
  BY <1>1, <1>2, Zenon DEF EvaluateGate, EarlyAnswer, LateAnswer, Free, Barred, Away, Outside

\* Which gates ask and refuse depends on the mode and on those that are on in one direction.
LEMMA EarlierFirst ==
  ASSUME NEW made, NEW page, NEW writable, NEW how, NEW on, NEW fewer \in SUBSET on
  PROVE  /\ EarlyAnswer(made, page, "strict", writable, on) = GateAllow
              => EarlyAnswer(made, page, how, writable, on) = GateAllow
         /\ EarlyAnswer(made, page, how, writable, on) = GateAllow
              => EarlyAnswer(made, page, how, writable, fewer) = GateAllow
         /\ EarlyAnswer(made, page, how, writable, on) = GateDeny
              => EarlyAnswer(made, page, how, writable, fewer) = GateDeny
         /\ EarlyAnswer(made, page, how, writable, on) = GateDeny => how = "strict" /\ ~InSet(page.origin, writable)
<1>1. "new_domain" \in EarlyGates(made, page, writable) => ~InSet(page.origin, writable)
  BY DEF EarlyGates
<1>. QED
  BY <1>1, EarlyAnswers DEF EarlyAnswer

\* The later gates never refuse, and with fewer on they ask less.
LEMMA LaterAfter ==
  ASSUME NEW made, NEW page, NEW how, NEW on, NEW fewer \in SUBSET on
  PROVE  /\ LateAnswer(made, page, how, on) # GateDeny
         /\ LateAnswer(made, page, how, on) = GateAllow => LateAnswer(made, page, "supervised", fewer) = GateAllow
         /\ LateAnswer(made, page, how, on) = GateAllow => LateAnswer(made, page, how, fewer) = GateAllow
BY LateAnswers, AnswersDiffer DEF LateAnswer

LEMMA FewerGatesAllow ==
  ASSUME NEW made, NEW page, NEW what, NEW grants, NEW on, NEW kill \in BOOLEAN,
         EvaluateGate(made, page, "strict", what, grants, on, kill) = GateAllow
  PROVE  EvaluateGate(made, page, "supervised", what, grants, on, kill) = GateAllow
<1>. DEFINE writable == Writable(page, what, grants)
<1>. HIDE DEF writable
<1>1. ~kill /\ (Free(made) \/ ~Barred(made, page))
  BY DecisionIs, AnswersDiffer
<1>2. CASE Free(made)
  BY <1>1, <1>2, DecisionIs
<1>3. CASE ~Free(made) /\ Opens(made)
  <2>1. ~Away(made, "supervised", writable)
    BY DEF Away
  <2>. QED
    BY <1>1, <1>3, <2>1, DecisionIs DEF writable
<1>4. CASE ~Free(made) /\ ~Opens(made)
  <2>1. EarlyAnswer(made, page, "strict", writable, on) = GateAllow /\ LateAnswer(made, page, "strict", on) = GateAllow
    BY <1>1, <1>4, DecisionIs, AnswersDiffer DEF writable
  <2>2. EarlyAnswer(made, page, "supervised", writable, on) = GateAllow
    BY <2>1, EarlierFirst
  <2>3. LateAnswer(made, page, "supervised", on) = GateAllow
    BY <2>1, LaterAfter
  <2>4. ~Outside(made, page, "supervised", writable)
    BY DEF Outside
  <2>. QED
    BY <1>1, <1>4, <2>2, <2>3, <2>4, DecisionIs DEF writable
<1>. QED
  BY <1>2, <1>3, <1>4

\* With nothing granted to it, strict mode acts and opens only where the task was told to.
LEMMA StrictActsAtHome ==
  ASSUME NEW made, NEW page, NEW what, what.given, NEW on, NEW kill \in BOOLEAN,
         EvaluateGate(made, page, "strict", what, {}, on, kill) = GateAllow
  PROVE  /\ made.tool \in ActTools => InSet(page.origin, what.origins)
         /\ Opens(made) => made.url = AboutBlank \/ InSet(made.url, what.origins)
<1>. DEFINE writable == Writable(page, what, {})
<1>1. writable = what.origins
  BY DEF Writable
<1>. HIDE DEF writable
<1>2. ~kill /\ (Free(made) \/ ~Barred(made, page))
  BY DecisionIs, AnswersDiffer
<1>3. made.tool \in ActTools => ~Free(made) /\ ~Opens(made) /\ IsActLike(made.tool)
  BY DEF ActTools, Free, Opens, IsActLike, ReadTools
<1>4. Opens(made) => ~Free(made)
  BY DEF Opens, Free, ReadTools
<1>5. ASSUME made.tool \in ActTools PROVE InSet(page.origin, writable)
  <2>1. ~Outside(made, page, "strict", writable)
    BY <1>2, <1>3, <1>5, DecisionIs, AnswersDiffer DEF writable
  <2>. QED
    BY <1>3, <1>5, <2>1 DEF Outside
<1>6. ASSUME Opens(made) PROVE made.url = AboutBlank \/ InSet(made.url, writable)
  <2>1. ~Away(made, "strict", writable)
    BY <1>2, <1>4, <1>6, DecisionIs, AnswersDiffer DEF writable
  <2>. QED
    BY <2>1 DEF Away
<1>. QED
  BY <1>1, <1>5, <1>6

\* Strict mode allows no more than supervised mode, and acts at home.
LEMMA StrictIsStricter == GateIInv /\ killed \in BOOLEAN => StrictAllowsLess
<1>. SUFFICES ASSUME GateIInv, killed \in BOOLEAN PROVE StrictAllowsLess
  OBVIOUS
<1>1. told.is = "told" /\ Verdict("strict", armed) = GateAllow => Verdict("supervised", armed) = GateAllow
  BY FewerGatesAllow DEF Verdict
<1>2. mode = "strict" => granted = {}
  BY DEF GateIInv, GrantsHold
<1>3. ASSUME mode = "strict", declared.given, told.is = "told", told.says = GateAllow
      PROVE  /\ told.call.tool \in ActTools => InSet(told.page.origin, declared.origins)
             /\ Opens(told.call) => told.call.url = AboutBlank \/ InSet(told.call.url, declared.origins)
  <2>1. EvaluateGate(told.call, told.page, "strict", declared, {}, armed, killed) = GateAllow
    BY <1>2, <1>3 DEF GateIInv, ToldHolds, NothingTold
  <2>. QED
    BY <1>3, <2>1, StrictActsAtHome
<1>. QED
  BY <1>1, <1>2, <1>3 DEF StrictAllowsLess

LEMMA FewerGatesSame ==
  ASSUME NEW made, NEW page, NEW how, NEW what, NEW grants, NEW on, NEW fewer \in SUBSET on, NEW kill \in BOOLEAN
  PROVE  /\ EvaluateGate(made, page, how, what, grants, on, kill) = GateDeny
              => EvaluateGate(made, page, how, what, grants, fewer, kill) = GateDeny
         /\ EvaluateGate(made, page, how, what, grants, on, kill) = GateAllow
              => EvaluateGate(made, page, how, what, grants, fewer, kill) = GateAllow
<1>. DEFINE writable == Writable(page, what, grants)
            A(s) == EvaluateGate(made, page, how, what, grants, s, kill)
<1>1. CASE kill \/ Free(made) \/ Barred(made, page) \/ Opens(made)
  BY <1>1, DecisionIs
<1>2. CASE ~kill /\ ~Free(made) /\ ~Barred(made, page) /\ ~Opens(made)
  <2>. HIDE DEF writable, A
  <2>1. \A s : A(s) = IF EarlyAnswer(made, page, how, writable, s) # GateAllow
                      THEN EarlyAnswer(made, page, how, writable, s)
                      ELSE IF Outside(made, page, how, writable) THEN GateDeny ELSE LateAnswer(made, page, how, s)
    BY <1>2, DecisionIs DEF writable, A
  <2>2. /\ EarlyAnswer(made, page, how, writable, on) = GateAllow => EarlyAnswer(made, page, how, writable, fewer) = GateAllow
        /\ EarlyAnswer(made, page, how, writable, on) = GateDeny => EarlyAnswer(made, page, how, writable, fewer) = GateDeny
    BY EarlierFirst
  <2>3. /\ LateAnswer(made, page, how, on) # GateDeny
        /\ LateAnswer(made, page, how, on) = GateAllow => LateAnswer(made, page, how, fewer) = GateAllow
    BY LaterAfter
  <2>4. (A(on) = GateDeny => A(fewer) = GateDeny) /\ (A(on) = GateAllow => A(fewer) = GateAllow)
    BY <2>1, <2>2, <2>3, AnswersDiffer
  <2>. QED
    BY <2>4 DEF A
<1>. QED
  BY <1>1, <1>2

\* A gate that is on asks; the switch that stops everything denies.
LEMMA SwitchesOnlyAsk == GateIInv /\ killed \in BOOLEAN => ArmingOnlyAsks
<1>. SUFFICES ASSUME GateIInv, killed \in BOOLEAN, told.is = "told"
              PROVE  /\ killed => told.says = GateDeny
                     /\ \A on \in ArmedSets : on \subseteq armed =>
                         /\ told.says = GateDeny => Verdict(mode, on) = GateDeny
                         /\ told.says = GateAllow => Verdict(mode, on) = GateAllow
  BY DEF ArmingOnlyAsks
<1>1. told.says = EvaluateGate(told.call, told.page, mode, declared, granted, armed, killed)
  BY DEF GateIInv, ToldHolds, NothingTold
<1>2. killed => told.says = GateDeny
  BY <1>1, Zenon DEF EvaluateGate
<1>3. \A on : on \subseteq armed => /\ told.says = GateDeny => Verdict(mode, on) = GateDeny
                                    /\ told.says = GateAllow => Verdict(mode, on) = GateAllow
  BY <1>1, FewerGatesSame DEF Verdict
<1>. QED
  BY <1>2, <1>3

\* Whichever tool presses Enter, the same gates are asked, and nothing else of the call is.
EnterGates(page, writable) ==
  {g \in {"payment", "new_domain"} : /\ g = "payment" => page.checkout
                                     /\ g = "new_domain" => ~InSet(page.origin, writable)}
LEMMA EntersAreAlike ==
  ASSUME NEW made \in Enters
  PROVE  /\ ~Free(made) /\ ~Opens(made) /\ IsActLike(made.tool) /\ LateGates(made) = {}
         /\ \A page, writable : EarlyGates(made, page, writable) = EnterGates(page, writable)
<1>1. /\ made \in ToolCalls
      /\ \/ made.does = "submit" /\ made.tool = "browser_type"
         \/ made.does = "enter" /\ made.tool \in {"browser_press", "computer_key"}
         \/ made.does = "newline" /\ made.tool = "computer_type"
  BY CallAssumption DEF Enters
<1>2. made.tool \in {"browser_type", "browser_press", "computer_key", "computer_type"} /\ PressesEnter(made)
  BY <1>1 DEF PressesEnter
<1>3. ~Free(made) /\ ~Opens(made) /\ IsActLike(made.tool) /\ ~Deletes(made) /\ ~Sends(made) /\ made.tool # "browser_upload"
  BY <1>2 DEF Free, ReadTools, Opens, IsActLike, ActTools, Deletes, Sends
<1>4. LateGates(made) = {}
  BY <1>2 DEF LateGates
<1>5. \A g : g \in {Early[i] : i \in DOMAIN Early} <=> g \in {"delete", "upload", "external_send", "payment", "new_domain"}
  BY DEF Early
<1>6. ASSUME NEW page, NEW writable
      PROVE  EarlyGates(made, page, writable) = EnterGates(page, writable)
  <2>1. \A g : g \in EarlyGates(made, page, writable) <=>
                g \in {"payment", "new_domain"} /\ (g = "payment" => page.checkout)
                /\ (g = "new_domain" => ~InSet(page.origin, writable))
    BY <1>2, <1>3, <1>5 DEF EarlyGates
  <2>. QED
    BY <2>1 DEF EnterGates
<1>. QED
  BY <1>3, <1>4, <1>6

\* Whichever tool presses Enter, the decision is one.
LEMMA EntersAsk == GateIInv /\ killed \in BOOLEAN => EntersAgree
<1>. SUFFICES ASSUME GateIInv, killed \in BOOLEAN, told.is = "told", told.call \in Enters, NEW other \in Enters
              PROVE  EvaluateGate(other, told.page, mode, declared, granted, armed, killed) = told.says
  BY DEF EntersAgree
<1>1. told.says = EvaluateGate(told.call, told.page, mode, declared, granted, armed, killed)
  BY DEF GateIInv, ToldHolds, NothingTold
<1>. DEFINE one == told.call
            page == told.page
            writable == Writable(page, declared, granted)
<1>2. \A made \in {one, other} : ~Free(made) /\ ~Opens(made) /\ IsActLike(made.tool)
  BY EntersAreAlike
<1>3. EarlyGates(one, page, writable) = EarlyGates(other, page, writable) /\ LateGates(one) = LateGates(other)
  <2>1. one \in Enters /\ other \in Enters
    OBVIOUS
  <2>. HIDE DEF one, page, writable
  <2>2. \A made \in Enters : EarlyGates(made, page, writable) = EnterGates(page, writable) /\ LateGates(made) = {}
    BY EntersAreAlike
  <2>. QED
    BY <2>1, <2>2
<1>. HIDE DEF one, page, writable
<1>4. /\ EarlyAnswer(one, page, mode, writable, armed) = EarlyAnswer(other, page, mode, writable, armed)
      /\ LateAnswer(one, page, mode, armed) = LateAnswer(other, page, mode, armed)
  BY <1>3, Zenon DEF EarlyAnswer, LateAnswer
<1>5. /\ Barred(one, page) <=> Barred(other, page)
      /\ Outside(one, page, mode, writable) <=> Outside(other, page, mode, writable)
  BY <1>2, Zenon DEF Barred, Outside
<1>6. EvaluateGate(one, page, mode, declared, granted, armed, killed) = EvaluateGate(other, page, mode, declared, granted, armed, killed)
  BY <1>2, <1>4, <1>5, DecisionIs DEF writable
<1>. QED
  BY <1>1, <1>6 DEF one, page

\* What a computer counted as a secret's field, or a person is typing into, is seen.
LEMMA SecretsAreSeen ==
  ASSUME NEW page \in Pages, Marked(page) \/ \E c \in Entries(page) : c.active /\ c.name \in {"password", "code", "card number"}
  PROVE  Sensitive(page)
<1>1. page.counted \subseteq {"bare", "password", "otp"}
  BY PageAssumption
<1>2. Kinds(page) = {} \/ "password" \in Kinds(page) \/ "otp" \in Kinds(page)
  BY <1>1 DEF Kinds
<1>3. CASE Marked(page)
  BY <1>2, <1>3 DEF Sensitive, PasswordField, OtpField
<1>4. ASSUME NEW c \in Entries(page), c.active, c.name \in {"password", "code", "card number"} PROVE Sensitive(page)
  <2>1. c \in page.controls /\ c.role = "textbox"
    BY <1>4 DEF Entries
  <2>. QED
    BY <1>4, <2>1 DEF Sensitive, PasswordField, OtpField, PaymentField
<1>. QED
  BY <1>3, <1>4

\* What is typed where a secret is asked for is not recorded.
LEMMA TypedIsMasked == GateIInv => SecretsAreMasked
<1>. SUFFICES ASSUME GateIInv, told.is = "told",
                     told.call.tool \in {"browser_type", "computer_type", "browser_press", "computer_key"},
                     Marked(told.page) \/ \E c \in Entries(told.page) : c.active /\ c.name \in {"password", "code", "card number"}
              PROVE  told.masked
  BY DEF SecretsAreMasked
<1>1. told.page \in Pages /\ told.masked = AuditMasks(told.call, told.page)
  <2>1. NothingTold.is # "told"
    BY DEF NothingTold
  <2>. QED
    BY <2>1, Zenon DEF GateIInv, ToldHolds
<1>2. Sensitive(told.page)
  BY <1>1, SecretsAreSeen
<1>. QED
  BY <1>1, <1>2 DEF AuditMasks

THEOREM GatesAreSafe ==
  ASSUME SuffixesHaveNoWww
  PROVE  GateSpec => []GateSafe
<1>. DEFINE Inv == GateIInv /\ killed \in BOOLEAN
<1>1. GateInit => Inv
  BY GatesStart DEF GateInit
<1>2. Inv /\ [GateNext]_gateVars => Inv'
  <2>. SUFFICES ASSUME Inv, [GateNext]_gateVars PROVE killed' \in BOOLEAN
    BY GatesKept
  <2>. QED
    BY DEF GateNext, GateDecides, AllowsForTask, SetsPolicy, gateVars
<1>3. Inv => GateSafe
  BY GrantsAreHome, QuestionsAreNew, StrictIsStricter, SwitchesOnlyAsk, EntersAsk, TypedIsMasked DEF GateSafe
<1>. QED
  BY <1>1, <1>2, <1>3, PTL DEF GateSpec

-----------------------------------------------------------------------------
(* Computers *)

USE ComputerAssumption

Waits == waking # "no" \/ \E c \in Call : call[c] \in {"awaits", "checks", "unpauses"}
\* Nobody waits for a computer that has been idle for long.
NotIdle == Waits => ~lapsed
\* A call that is to check again finds no pause on its way.
ChecksAfter == \A c \in Call : call[c] = "checks" => sweep = "no"
\* A pause on its way is in inFlight, and nothing is being woken under it.
PauseInFlight == ~stray /\ (sweep = "docker" \/ (sweep # "no" /\ box = "paused")) => flight
PauseAlone == ~stray /\ sweep = "docker" => waking = "no"
\* What was thawed is not paused before that is noted.
StaysThawed == waking = "done" => box # "paused" \/ stray
\* A pause that failed, or is still to come, leaves what was known of one before it.
FailedChangesNothing == box = "paused" /\ ~stray /\ sweep \in {"docker", "failed"} => known \/ ~reconciled
\* A wipe holds the computer from its first step to its last.
WipeHolds == op["forget"] # "no" => cancelling
OnlyOne == \A t, u \in LiveTasks : t = u

\* The part about pauses, the part about tasks.
PauseInv ==
    /\ PausedIsKnown /\ NotIdle /\ ChecksAfter /\ PauseInFlight /\ PauseAlone /\ StaysThawed /\ FailedChangesNothing
TaskInv == OnlyOne /\ WipeHolds /\ WipedAlone
ComputerIInv == ComputerTypeOK /\ PauseInv /\ TaskInv

pauseVars == <<box, lapsed, known, reconciled, flight, sweep, waking, call, stray>>

\* The inductive invariant is enough.
LEMMA ComputerEnough == ComputerIInv => ComputerSafe
<1>. SUFFICES ASSUME ComputerIInv PROVE OneLiveTask
  BY DEF ComputerIInv, PauseInv, TaskInv, ComputerSafe
<1>1. CASE LiveTasks = {}
  BY <1>1, FS_EmptySet DEF OneLiveTask
<1>2. CASE LiveTasks # {}
  <2>1. PICK t \in LiveTasks : LiveTasks = {t}
    BY <1>2 DEF ComputerIInv, TaskInv, OnlyOne
  <2>. QED
    BY <2>1, FS_Singleton DEF OneLiveTask
<1>. QED
  BY <1>1, <1>2

LEMMA ComputerBegins == ComputerInit => ComputerIInv
<1>. SUFFICES ASSUME ComputerInit PROVE ComputerIInv
  OBVIOUS
<1>1. ComputerTypeOK
  BY DEF ComputerInit, ComputerTypeOK
<1>2. PauseInv
  BY DEF ComputerInit, PauseInv, PausedIsKnown, NotIdle, Waits, ChecksAfter, PauseInFlight, PauseAlone, StaysThawed, FailedChangesNothing
<1>3. TaskInv
  BY DEF ComputerInit, TaskInv, OnlyOne, LiveTasks, WipeHolds, WipedAlone, Op
<1>. QED
  BY <1>1, <1>2, <1>3 DEF ComputerIInv

-----------------------------------------------------------------------------
(* The sweep and the calls *)

LEMMA PauseQuiet == PauseInv /\ UNCHANGED pauseVars => PauseInv'
BY DEF PauseInv, pauseVars, PausedIsKnown, NotIdle, Waits, ChecksAfter, PauseInFlight, PauseAlone, StaysThawed, FailedChangesNothing

LEMMA TaskQuiet == TaskInv /\ UNCHANGED <<op, posted, cancelling>> => TaskInv'
BY DEF TaskInv, OnlyOne, LiveTasks, WipeHolds, WipedAlone

\* What a call changes on its way in: its place, and whether somebody wakes the computer.
LEMMA CallTypes ==
  ASSUME ComputerTypeOK, NEW c \in Call, CallStep(c)
  PROVE  /\ ComputerTypeOK' /\ UNCHANGED <<box, row, known, reconciled, flight, sweep, op, cancelling, posted, computerRoutine, stray>>
         /\ \A d \in Call : d # c => call'[d] = call[d]
<1>1. ASSUME Checked(c)
      PROVE  /\ call' \in [Call -> {"no", "awaits", "checks", "unpauses", "in"}] /\ waking' \in {"no", "docker", "done"}
             /\ \A d \in Call : d # c => call'[d] = call[d]
  BY <1>1 DEF Checked, ComputerTypeOK
<1>2. CASE WakeBegins(c)
  BY <1>1, <1>2 DEF WakeBegins, ComputerTypeOK, workVars
<1>3. CASE CallChecks(c)
  BY <1>1, <1>3 DEF CallChecks, ComputerTypeOK, workVars
<1>4. CASE ComputerCallEnds(c)
  BY <1>4 DEF ComputerCallEnds, ComputerTypeOK, workVars
<1>. QED
  BY <1>2, <1>3, <1>4 DEF CallStep

LEMMA CallKeeps ==
  ASSUME ComputerIInv, NEW c \in Call, CallStep(c)
  PROVE  ComputerIInv'
<1>. USE DEF ComputerIInv
<1>1. /\ ComputerTypeOK' /\ UNCHANGED <<box, row, known, reconciled, flight, sweep, op, cancelling, posted, computerRoutine, stray>>
      /\ \A d \in Call : d # c => call'[d] = call[d]
  BY CallTypes
<1>2. TaskInv'
  BY <1>1, TaskQuiet
<1>3. PausedIsKnown' /\ PauseInFlight' /\ FailedChangesNothing'
  BY <1>1 DEF PauseInv, PausedIsKnown, PauseInFlight, FailedChangesNothing
<1>4. ASSUME Checked(c), ~lapsed', sweep = "docker" => stray, c \in Call
      PROVE  NotIdle' /\ ChecksAfter' /\ PauseAlone' /\ StaysThawed'
  <2>1. call'[c] \in {"in", "unpauses"} /\ waking' \in {waking, "docker"}
    BY <1>4 DEF Checked, ComputerTypeOK
  <2>2. NotIdle' /\ StaysThawed' /\ PauseAlone'
    BY <1>1, <1>4, <2>1 DEF PauseInv, NotIdle, StaysThawed, PauseAlone
  <2>3. ChecksAfter'
    BY <1>1, <2>1 DEF PauseInv, ChecksAfter
  <2>. QED
    BY <2>2, <2>3
<1>5. CASE WakeBegins(c) /\ ~flight
  <2>1. Checked(c) /\ ~lapsed' /\ (sweep = "docker" => stray)
    BY <1>5 DEF WakeBegins, PauseInv, PauseInFlight
  <2>. QED
    BY <1>1, <1>2, <1>3, <1>4, <2>1 DEF PauseInv
<1>6. CASE WakeBegins(c) /\ flight
  <2>1. call'[c] = "awaits" /\ waking' = waking /\ ~lapsed'
    BY <1>6 DEF WakeBegins, ComputerTypeOK
  <2>. QED
    BY <1>1, <1>2, <1>3, <2>1 DEF PauseInv, NotIdle, Waits, ChecksAfter, PauseAlone, StaysThawed
<1>7. CASE CallChecks(c)
  <2>1. ~lapsed' /\ sweep = "no"
    BY <1>7 DEF CallChecks, PauseInv, NotIdle, Waits, ChecksAfter
  <2>. QED
    BY <1>1, <1>2, <1>3, <1>4, <1>7, <2>1 DEF CallChecks, PauseInv
<1>8. CASE ComputerCallEnds(c)
  <2>1. call'[c] = "no" /\ waking' = waking /\ lapsed' = lapsed
    BY <1>8 DEF ComputerCallEnds, ComputerTypeOK
  <2>. QED
    BY <1>1, <1>2, <1>3, <2>1 DEF PauseInv, NotIdle, Waits, ChecksAfter, PauseAlone, StaysThawed
<1>9. CASE WakeBegins(c)
  BY <1>1, <1>2, <1>3, <1>5, <1>6, <1>9 DEF PauseInv
<1>. QED
  BY <1>7, <1>8, <1>9 DEF CallStep

LEMMA SweepKeeps ==
  ASSUME ComputerIInv, Lapses \/ SweepBegins \/ SweepPauses \/ SweepEnds
  PROVE  ComputerIInv'
<1>. USE DEF ComputerIInv
<1>1. UNCHANGED <<op, posted, cancelling>>
  BY DEF Lapses, SweepBegins, SweepPauses, SweepEnds, workVars
<1>2. TaskInv'
  BY <1>1, TaskQuiet
<1>3. CASE Lapses
  <2>1. ComputerTypeOK'
    BY <1>3 DEF Lapses, ComputerTypeOK, workVars
  <2>. QED
    BY <1>2, <1>3, <2>1 DEF Lapses, PauseInv, PausedIsKnown, NotIdle, Waits, ChecksAfter, PauseInFlight, PauseAlone,
       StaysThawed, FailedChangesNothing
<1>4. CASE SweepBegins
  <2>1. ComputerTypeOK'
    BY <1>4 DEF SweepBegins, ComputerTypeOK, workVars
  <2>. QED
    BY <1>2, <1>4, <2>1 DEF SweepBegins, PauseInv, PausedIsKnown, NotIdle, Waits, ChecksAfter, PauseInFlight, PauseAlone,
       StaysThawed, FailedChangesNothing
<1>5. CASE SweepPauses
  <2>1. ComputerTypeOK'
    BY <1>5 DEF SweepPauses, ComputerTypeOK, workVars
  <2>2. /\ sweep = "docker" /\ sweep' \in {"done", "failed"} /\ box' \in {box, "paused"}
        /\ sweep' = "failed" /\ box' # box => stray'
        /\ stray => stray'
        /\ UNCHANGED <<lapsed, known, reconciled, flight, waking, call>>
    <3>1. stray \in BOOLEAN
      BY DEF ComputerTypeOK
    <3>2. UNCHANGED <<lapsed, known, reconciled, flight, waking, call>> /\ sweep = "docker"
      BY <1>5 DEF SweepPauses
    <3>. DEFINE paused == IF box = "running" THEN "paused" ELSE box
    <3>3. CASE sweep' = "done" /\ box' = paused /\ UNCHANGED stray
      BY <3>2, <3>3
    <3>4. CASE sweep' = "failed" /\ box' \in {box, paused} /\ stray' = (stray \/ box' # box)
      BY <3>1, <3>2, <3>4
    <3>. QED
      BY <1>5, <3>3, <3>4 DEF SweepPauses
  <2>. QED
    BY <1>2, <2>1, <2>2 DEF PauseInv, PausedIsKnown, NotIdle, Waits, ChecksAfter, PauseInFlight, PauseAlone,
       StaysThawed, FailedChangesNothing
<1>6. CASE SweepEnds
  <2>1. ComputerTypeOK'
    BY <1>6 DEF SweepEnds, ComputerTypeOK, workVars
  <2>2. /\ sweep \in {"done", "failed"} /\ known' = (known \/ sweep = "done") /\ sweep' = "no"
        /\ UNCHANGED <<box, lapsed, reconciled, waking, stray>>
        /\ \A c \in Call : call'[c] \in {"awaits", "checks", "unpauses"} => call[c] \in {"awaits", "checks", "unpauses"}
    BY <1>6 DEF SweepEnds, ComputerTypeOK
  <2>. QED
    BY <1>2, <2>1, <2>2 DEF PauseInv, PausedIsKnown, NotIdle, Waits, ChecksAfter, PauseInFlight, PauseAlone,
       StaysThawed, FailedChangesNothing
<1>. QED
  BY <1>3, <1>4, <1>5, <1>6

\* Whatever thaws the computer leaves nothing paused that a pause on its way does not pause again.
LEMMA ThawKeeps ==
  ASSUME ComputerTypeOK, PauseInv, Thawed, box' # "paused",
         UNCHANGED <<lapsed, known, reconciled, flight, sweep, call>>,
         waking' = waking \/ (waking' = "done" /\ waking # "no")
  PROVE  PauseInv'
<1>1. (~stray' => ~stray \/ (sweep # "docker" /\ box = "paused")) /\ (stray' => stray)
  BY DEF Thawed, ComputerTypeOK
<1>2. PausedIsKnown' /\ PauseInFlight' /\ FailedChangesNothing'
  BY <1>1 DEF PauseInv, PausedIsKnown, PauseInFlight, FailedChangesNothing
<1>3. NotIdle' /\ ChecksAfter' /\ PauseAlone' /\ StaysThawed'
  BY <1>1 DEF PauseInv, NotIdle, Waits, ChecksAfter, PauseAlone, StaysThawed
<1>. QED
  BY <1>2, <1>3 DEF PauseInv

LEMMA WakeKeeps ==
  ASSUME ComputerIInv, Unpauses \/ Woken
  PROVE  ComputerIInv'
<1>. USE DEF ComputerIInv
<1>1. TaskInv'
  <2>1. UNCHANGED <<op, posted, cancelling>>
    BY DEF Unpauses, Woken, workVars
  <2>. QED
    BY <2>1, TaskQuiet
<1>2. CASE Unpauses /\ waking' = "done"
  <2>1. /\ Thawed /\ box' # "paused" /\ waking = "docker" /\ UNCHANGED <<lapsed, known, reconciled, flight, sweep, call>>
        /\ UNCHANGED <<row, op, workVars>> /\ box' \in {box, "running"}
    BY <1>2 DEF Unpauses, ComputerTypeOK
  <2>2. ComputerTypeOK'
    BY <1>2, <2>1 DEF Thawed, ComputerTypeOK, workVars
  <2>3. PauseInv'
    BY <1>2, <2>1, ThawKeeps
  <2>. QED
    BY <1>1, <2>2, <2>3
<1>3. CASE Unpauses /\ waking' # "done"
  <2>1. /\ waking' = "no" /\ UNCHANGED <<box, stray, row, lapsed, known, reconciled, flight, sweep, op, workVars>>
        /\ call' = [c \in Call |-> IF call[c] = "unpauses" THEN "no" ELSE call[c]]
    BY <1>3 DEF Unpauses
  <2>2. ComputerTypeOK'
    BY <2>1 DEF ComputerTypeOK, workVars
  <2>3. \A c \in Call : call'[c] = "no" \/ call'[c] = call[c]
    BY <2>1
  <2>. QED
    BY <1>1, <2>1, <2>2, <2>3 DEF PauseInv, PausedIsKnown, NotIdle, Waits, ChecksAfter, PauseInFlight, PauseAlone,
       StaysThawed, FailedChangesNothing
<1>4. CASE Woken
  <2>1. /\ waking = "done" /\ waking' = "no" /\ known' = FALSE /\ reconciled' = TRUE
        /\ UNCHANGED <<box, row, lapsed, flight, sweep, op, workVars, stray>>
        /\ call' = [c \in Call |-> IF call[c] = "unpauses" THEN "in" ELSE call[c]]
    BY <1>4 DEF Woken
  <2>2. ComputerTypeOK'
    BY <2>1 DEF ComputerTypeOK, workVars
  <2>3. \A c \in Call : call'[c] = "in" \/ call'[c] = call[c]
    BY <2>1
  <2>. QED
    BY <1>1, <2>1, <2>2, <2>3 DEF PauseInv, PausedIsKnown, NotIdle, Waits, ChecksAfter, PauseInFlight, PauseAlone,
       StaysThawed, FailedChangesNothing
<1>. QED
  BY <1>2, <1>3, <1>4

-----------------------------------------------------------------------------
(* The requests on the computer *)

\* The controller forgets the computer: what was on its way is stray.
LEMMA ForgetKeeps ==
  ASSUME ComputerTypeOK, PauseInv, Forget, UNCHANGED <<box, sweep, waking, call>>
  PROVE  PauseInv' /\ {lapsed', known', reconciled', flight', stray'} \subseteq BOOLEAN
<1>1. /\ ~lapsed' /\ ~known' /\ ~reconciled' /\ ~flight' /\ stray' \in BOOLEAN
      /\ (~stray' => ~stray /\ sweep = "no")
  BY DEF Forget, ComputerTypeOK
<1>2. PausedIsKnown' /\ PauseInFlight' /\ FailedChangesNothing' /\ PauseAlone'
  BY <1>1 DEF PausedIsKnown, PauseInFlight, FailedChangesNothing, PauseAlone
<1>3. NotIdle' /\ ChecksAfter' /\ StaysThawed'
  BY <1>1 DEF PauseInv, NotIdle, ChecksAfter, StaysThawed
<1>. QED
  BY <1>1, <1>2, <1>3 DEF PauseInv, Forget

\* A container that starts, or is created, was not paused.
LEMMA OpStartKeeps ==
  ASSUME PauseInv, box' = box \/ box' = "running", UNCHANGED <<idleVars, stray>>
  PROVE  PauseInv'
BY DEF PauseInv, idleVars, PausedIsKnown, NotIdle, Waits, ChecksAfter, PauseInFlight, PauseAlone, StaysThawed, FailedChangesNothing

\* Tasks that end, and steps of the requests other than the wipe, leave the tasks' part as it is.
LEMMA TaskEndKeeps ==
  ASSUME TaskInv, UNCHANGED cancelling, \A t \in TaskRequest : posted'[t] = "live" => posted[t] = "live", op'["forget"] = op["forget"]
  PROVE  TaskInv'
BY DEF TaskInv, OnlyOne, LiveTasks, WipeHolds, WipedAlone

OpPlaces == {"no", "docker", "marks", "closes", "wipes", "fails", "compares", "recreates"}
LEMMA StepIsTyped ==
  ASSUME ComputerTypeOK, NEW o \in Op, NEW p \in OpPlaces, Step(o, p)
  PROVE  op' \in [Op -> OpPlaces] /\ op'[o] = p /\ \A q \in Op : q # o => op'[q] = op[q]
BY DEF ComputerTypeOK, Step, OpPlaces

LEMMA StopsKeep ==
  ASSUME ComputerIInv, ComputerStarts \/ ComputerStops \/ ComputerDeletes
  PROVE  ComputerIInv'
<1>. USE DEF ComputerIInv
<1>. USE StepIsTyped DEF Op, OpPlaces
<1>1. CASE ComputerStarts
  <2>1. /\ box' = box \/ box' = "running"
        /\ row' \in {"running", "stopped", "none"} /\ UNCHANGED <<idleVars, workVars, stray>>
    BY <1>1 DEF ComputerStarts, DockerStarts, SetStatus, ComputerTypeOK
  <2>2. op' \in [Op -> OpPlaces] /\ op'["forget"] = op["forget"]
    BY <1>1 DEF ComputerStarts
  <2>3. PauseInv' /\ TaskInv'
    BY <2>1, <2>2, OpStartKeeps, TaskEndKeeps DEF workVars
  <2>. QED
    BY <2>1, <2>2, <2>3 DEF ComputerTypeOK, idleVars, workVars
<1>2. CASE ComputerStops \/ ComputerDeletes
  <2>1. op' \in [Op -> OpPlaces] /\ op'["forget"] = op["forget"]
    BY <1>2 DEF ComputerStops, ComputerDeletes
  <2>2. /\ UNCHANGED cancelling /\ posted' \in [TaskRequest -> {"no", "starts", "marks", "live"}] /\ computerRoutine' \in BOOLEAN
        /\ \A t \in TaskRequest : posted'[t] = "live" => posted[t] = "live"
    BY <1>2, ZenonT(30) DEF ComputerStops, ComputerDeletes, CancelTasksOn, workVars, ComputerTypeOK
  <2>3. TaskInv'
    BY <2>1, <2>2, TaskEndKeeps
  <2>4. row' \in {"running", "stopped", "none"} /\ UNCHANGED <<sweep, waking, call>>
    BY <1>2 DEF ComputerStops, ComputerDeletes, SetStatus, ComputerTypeOK, idleVars
  <2>5. CASE UNCHANGED <<box, idleVars, stray>>
    BY <2>1, <2>2, <2>3, <2>4, <2>5, OpStartKeeps DEF ComputerTypeOK, idleVars
  <2>6. CASE Thawed /\ box' \in {"stopped", "absent"} /\ UNCHANGED idleVars
    <3>1. stray' \in BOOLEAN
      BY <2>6 DEF Thawed
    <3>2. PauseInv'
      BY <2>6, ThawKeeps DEF idleVars
    <3>. QED
      BY <2>1, <2>2, <2>3, <2>4, <2>6, <3>1, <3>2 DEF ComputerTypeOK, idleVars
  <2>7. CASE Forget /\ UNCHANGED box
    <3>1. PauseInv' /\ {lapsed', known', reconciled', flight', stray'} \subseteq BOOLEAN
      BY <2>4, <2>7, ForgetKeeps
    <3>. QED
      BY <2>1, <2>2, <2>3, <2>4, <2>7, <3>1 DEF ComputerTypeOK
  <2>. QED
    BY <1>2, <2>5, <2>6, <2>7 DEF ComputerStops, ComputerDeletes
<1>. QED
  BY <1>1, <1>2

LEMMA WipeKeeps ==
  ASSUME ComputerIInv, ForgetBegins \/ ForgetWipes \/ ForgetEnds
  PROVE  ComputerIInv'
<1>. USE StepIsTyped DEF ComputerIInv, Op, OpPlaces
<1>1. CASE ForgetBegins
  <2>1. op' \in [Op -> OpPlaces] /\ cancelling' = TRUE /\ LiveTasks = {}
        /\ UNCHANGED <<box, row, sweep, waking, call, posted, computerRoutine>>
    BY <1>1 DEF ForgetBegins
  <2>2. PauseInv' /\ {lapsed', known', reconciled', flight', stray'} \subseteq BOOLEAN
    BY <1>1, <2>1, ForgetKeeps DEF ForgetBegins
  <2>3. TaskInv'
    BY <2>1 DEF TaskInv, OnlyOne, LiveTasks, WipeHolds, WipedAlone
  <2>. QED
    BY <2>1, <2>2, <2>3 DEF ComputerTypeOK
<1>2. CASE ForgetWipes
  <2>1. op' \in [Op -> OpPlaces] /\ op["forget"] \in {"closes", "wipes"} /\ UNCHANGED <<row, idleVars, workVars>>
    BY <1>2 DEF ForgetWipes
  <2>2. LiveTasks = {} /\ cancelling
    BY <2>1 DEF TaskInv, WipeHolds, WipedAlone
  <2>3. TaskInv'
    BY <2>1, <2>2 DEF TaskInv, OnlyOne, LiveTasks, WipeHolds, WipedAlone, workVars
  <2>4. CASE Thawed /\ box' = "absent"
    <3>1. stray' \in BOOLEAN
      BY <2>4 DEF Thawed
    <3>2. PauseInv'
      BY <2>1, <2>4, ThawKeeps DEF idleVars
    <3>. QED
      BY <2>1, <2>3, <2>4, <3>1, <3>2 DEF ComputerTypeOK, idleVars, workVars
  <2>5. CASE (box' = box \/ box' = "running") /\ UNCHANGED stray
    <3>1. PauseInv'
      BY <2>1, <2>5, OpStartKeeps
    <3>. QED
      BY <2>1, <2>3, <2>5, <3>1 DEF ComputerTypeOK, idleVars, workVars
  <2>. QED
    BY <1>2, <2>4, <2>5 DEF ForgetWipes
<1>3. CASE ForgetEnds
  <2>1. /\ op' \in [Op -> OpPlaces] /\ op'["forget"] = "no" /\ cancelling' = FALSE
        /\ row' \in {"running", "stopped", "none"}
        /\ UNCHANGED <<box, idleVars, posted, computerRoutine, stray>>
    BY <1>3 DEF ForgetEnds, SetStatus, ComputerTypeOK
  <2>2. PauseInv'
    BY <2>1, OpStartKeeps
  <2>3. TaskInv'
    BY <2>1 DEF TaskInv, OnlyOne, LiveTasks, WipeHolds, WipedAlone
  <2>. QED
    BY <2>1, <2>2, <2>3 DEF ComputerTypeOK, idleVars
<1>. QED
  BY <1>1, <1>2, <1>3

LEMMA RefreshKeeps ==
  ASSUME ComputerIInv, Refreshes
  PROVE  ComputerIInv'
<1>. USE StepIsTyped DEF ComputerIInv, Op, OpPlaces
<1>1. op' \in [Op -> OpPlaces] /\ op'["forget"] = op["forget"] /\ UNCHANGED <<row, idleVars, workVars>>
  BY DEF Refreshes
<1>2. TaskInv'
  BY <1>1, TaskEndKeeps DEF workVars
<1>3. CASE UNCHANGED <<box, stray>>
  <2>1. PauseInv'
    BY <1>1, <1>3, OpStartKeeps
  <2>. QED
    BY <1>1, <1>2, <1>3, <2>1 DEF ComputerTypeOK, idleVars, workVars
<1>4. CASE Thawed /\ box' \in {box, "running"} /\ box' # "paused"
  <2>1. stray' \in BOOLEAN
    BY <1>4 DEF Thawed
  <2>2. PauseInv'
    BY <1>1, <1>4, ThawKeeps DEF idleVars
  <2>. QED
    BY <1>1, <1>2, <1>4, <2>1, <2>2 DEF ComputerTypeOK, idleVars, workVars
<1>. QED
  BY <1>3, <1>4 DEF Refreshes

-----------------------------------------------------------------------------
(* Tasks *)

\* A request begins a task only on a computer that has none and is not wiped.
LEMMA MarkKeeps ==
  ASSUME ComputerIInv, NEW t \in TaskRequest, PostBegins(t) \/ PostStarts(t) \/ PostMarks(t)
  PROVE  ComputerIInv'
<1>. USE DEF ComputerIInv
<1>1. PICK p \in {"no", "starts", "marks", "live"} : Post(t, p) /\ (p = "live" => ~Busy)
  BY DEF PostBegins, PostStarts, PostMarks
<1>2. /\ posted' \in [TaskRequest -> {"no", "starts", "marks", "live"}]
      /\ posted'[t] = p /\ \A u \in TaskRequest : u # t => posted'[u] = posted[u]
  BY <1>1 DEF Post, ComputerTypeOK
<1>3. /\ UNCHANGED <<idleVars, op, cancelling, computerRoutine, stray>>
      /\ box' = box \/ box' = "running"
      /\ row' \in {"running", "stopped", "none"}
  BY DEF PostBegins, PostStarts, PostMarks, DockerStarts, SetStatus, ComputerTypeOK
<1>4. TaskInv'
  <2>1. CASE p = "live"
    <3>1. ~cancelling /\ \A u \in TaskRequest : posted[u] # "live"
      BY <1>1, <2>1 DEF Busy, LiveTasks
    <3>2. op["forget"] = "no"
      BY <3>1 DEF TaskInv, WipeHolds
    <3>. QED
      BY <1>2, <1>3, <3>1, <3>2 DEF TaskInv, OnlyOne, LiveTasks, WipeHolds, WipedAlone
  <2>2. CASE p # "live"
    BY <1>2, <1>3, <2>2, TaskEndKeeps
  <2>. QED
    BY <2>1, <2>2
<1>5. PauseInv'
  BY <1>3, OpStartKeeps
<1>. QED
  BY <1>2, <1>3, <1>4, <1>5 DEF ComputerTypeOK, idleVars

LEMMA WorkKeeps ==
  ASSUME ComputerIInv, RoutineStarts \/ TaskEnds
  PROVE  ComputerIInv'
<1>. USE DEF ComputerIInv
<1>1. UNCHANGED <<box, row, idleVars, op, cancelling, stray>> /\ computerRoutine' \in BOOLEAN
  BY DEF RoutineStarts, TaskEnds, ComputerTypeOK
<1>2. /\ posted' \in [TaskRequest -> {"no", "starts", "marks", "live"}]
      /\ \A t \in TaskRequest : posted'[t] = "live" => posted[t] = "live"
  <2>1. ASSUME NEW t \in LiveTasks, Post(t, "no")
        PROVE  /\ posted' \in [TaskRequest -> {"no", "starts", "marks", "live"}]
               /\ \A u \in TaskRequest : posted'[u] = "live" => posted[u] = "live"
    BY <2>1 DEF Post, LiveTasks, ComputerTypeOK
  <2>2. CASE UNCHANGED posted
    BY <2>2 DEF ComputerTypeOK
  <2>. QED
    BY <2>1, <2>2 DEF RoutineStarts, TaskEnds
<1>3. TaskInv' /\ PauseInv'
  BY <1>1, <1>2, TaskEndKeeps, OpStartKeeps
<1>. QED
  BY <1>1, <1>2, <1>3 DEF ComputerTypeOK, idleVars

-----------------------------------------------------------------------------
LEMMA ComputerKept == ComputerIInv /\ [ComputerNext]_boxVars => ComputerIInv'
<1>. SUFFICES ASSUME ComputerIInv, [ComputerNext]_boxVars PROVE ComputerIInv'
  OBVIOUS
<1>1. CASE Lapses \/ SweepBegins \/ SweepPauses \/ SweepEnds
  BY <1>1, SweepKeeps
<1>2. CASE Unpauses \/ Woken
  BY <1>2, WakeKeeps
<1>3. CASE \E c \in Call : CallStep(c)
  BY <1>3, CallKeeps
<1>4. CASE ComputerStarts \/ ComputerStops \/ ComputerDeletes
  BY <1>4, StopsKeep
<1>5. CASE ForgetBegins \/ ForgetWipes \/ ForgetEnds
  BY <1>5, WipeKeeps
<1>6. CASE Refreshes
  BY <1>6, RefreshKeeps
<1>7. CASE \E t \in TaskRequest : PostBegins(t) \/ PostStarts(t) \/ PostMarks(t)
  BY <1>7, MarkKeeps
<1>8. CASE RoutineStarts \/ TaskEnds
  BY <1>8, WorkKeeps
<1>9. CASE UNCHANGED boxVars
  <2>1. PauseInv' /\ TaskInv'
    BY <1>9, PauseQuiet, TaskQuiet DEF ComputerIInv, boxVars, pauseVars
  <2>2. ComputerTypeOK'
    BY <1>9 DEF ComputerIInv, ComputerTypeOK, boxVars
  <2>. QED
    BY <2>1, <2>2 DEF ComputerIInv
<1>. QED
  BY <1>1, <1>2, <1>3, <1>4, <1>5, <1>6, <1>7, <1>8, <1>9 DEF ComputerNext

LEMMA ComputerInvariant == ComputerSpec => []ComputerIInv
BY ComputerBegins, ComputerKept, PTL DEF ComputerSpec

\* A paused container is one the next call will unpause; a computer has one live task that a
\* request began (computerBusy asked again after the start), and none while its logins are
\* wiped: for any number of calls, requests and tasks that overlap.
THEOREM ComputersAreSafe == ComputerSpec => []ComputerSafe
BY ComputerInvariant, ComputerEnough, PTL

\* wake(): a call that gets in finds no paused container, unless a pause was forgotten or failed.
LEMMA InIsAwake ==
  ASSUME ComputerIInv, ComputerNext, NEW c \in Call, call'[c] = "in", call[c] # "in"
  PROVE  box # "paused" \/ stray
<1>. USE DEF ComputerIInv
<1>1. CASE Woken
  BY <1>1 DEF Woken, PauseInv, StaysThawed
<1>2. ASSUME NEW d \in Call, CallStep(d) PROVE box # "paused" \/ stray
  <2>1. c = d
    BY <1>2, CallTypes
  <2>2. Checked(c) /\ call[c] # "in" => reconciled /\ ~known
    BY DEF Checked, ComputerTypeOK
  <2>3. (~flight \/ sweep = "no") /\ reconciled /\ ~known
    BY <1>2, <2>1, <2>2 DEF CallStep, WakeBegins, CallChecks, ComputerCallEnds, ComputerTypeOK, PauseInv, ChecksAfter
  <2>. QED
    BY <2>3 DEF PauseInv, PausedIsKnown, PauseInFlight
<1>3. CASE UNCHANGED call
  BY <1>3
<1>4. ASSUME \A d \in Call : call'[d] = "in" => call[d] = "in" PROVE FALSE
  BY <1>4
<1>5. CASE Unpauses \/ SweepEnds
  BY <1>4, <1>5 DEF Unpauses, SweepEnds
<1>6. CASE \/ Lapses \/ SweepBegins \/ SweepPauses \/ ComputerStarts \/ ComputerStops \/ ComputerDeletes
           \/ ForgetBegins \/ ForgetWipes \/ ForgetEnds \/ Refreshes \/ RoutineStarts \/ TaskEnds
  BY <1>3, <1>6 DEF Lapses, SweepBegins, SweepPauses, ComputerStarts, ComputerStops, ComputerDeletes,
     ForgetBegins, ForgetWipes, ForgetEnds, Refreshes, RoutineStarts, TaskEnds, idleVars
<1>7. ASSUME NEW t \in TaskRequest, PostBegins(t) \/ PostStarts(t) \/ PostMarks(t) PROVE UNCHANGED call
  BY <1>7 DEF PostBegins, PostStarts, PostMarks, idleVars
<1>. QED
  BY <1>1, <1>2, <1>3, <1>5, <1>6, <1>7 DEF ComputerNext

\* The action property of the daemon's run, for any number of calls and requests.
THEOREM CallsAreAwake == ComputerSpec => CallsFindItAwake
<1>1. ComputerIInv /\ [ComputerNext]_boxVars
      => [\A c \in Call : call'[c] = "in" /\ call[c] # "in" => box # "paused" \/ stray]_boxVars
  BY InIsAwake
<1>. QED
  BY <1>1, ComputerInvariant, PTL DEF ComputerSpec, CallsFindItAwake

-----------------------------------------------------------------------------
(* The daemon *)

\* The parts share no variable: a behaviour of the daemon is one of each part, which rests while
\* the others are looked at.
LEMMA DaemonHasParts == Spec => TasksSpec /\ ComputerSpec /\ SchedulerSpec /\ BudgetSpec /\ GateSpec
<1>1. Init => TaskInit /\ ComputerInit /\ SchedulerInit /\ BudgetInit /\ GateInit
  BY DEF Init
<1>2. [Next]_daemonVars => /\ [TasksNext]_taskVars /\ [ComputerNext]_boxVars /\ [SchedulerNext]_schedulerVars
                           /\ [BudgetNext]_harnessVars /\ [GateNext]_gateVars
  BY DEF Next, daemonVars
<1>. QED
  BY <1>1, <1>2, PTL DEF Spec, TasksSpec, ComputerSpec, SchedulerSpec, BudgetSpec, GateSpec

\* What no step of the daemon does: let a call out after a stop or change an outcome (agent-loop.ts,
\* store.ts), let a call in to a paused computer (idle-pause), pass a firing that is within its window by
\* without a row (loop.ts), or switch a routine off that has not failed often enough (routines.ts).
THEOREM DaemonStepsHold == Spec => DaemonSteps
BY DaemonHasParts, NothingActsAfterStop, OutcomeIsKept, CallsAreAwake, NoFiringIsLost, OffIsTired,
   PTL DEF DaemonSteps

\* A task's runs do as its row says, and its calls are allowed, asked about, refused and recorded as a
\* person was told. The hypothesis is that of GatesAreSafe.
THEOREM TaskIsSafe ==
  ASSUME SuffixesHaveNoWww
  PROVE  Spec => []TaskSafe
<1>1. RunsSafe /\ GateSafe => TaskSafe
  BY DEF TaskSafe
<1>2. GateSpec => []GateSafe
  BY GatesAreSafe
<1>. QED
  BY <1>1, <1>2, DaemonHasParts, RunsAreSafe, PTL
=============================================================================
