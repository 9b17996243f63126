------------------------------ MODULE TaskFeed ------------------------------
(***************************************************************************)
(* The feed of a task's page (ui/task.ts: putFeed, findToolRow, noteFacts) *)
(* and the two ways its lines come: live from the events socket, and from  *)
(* the durable history of each read (daemon/task-view.ts), which may be    *)
(* older than what the socket brought.  One call of a tool is told three   *)
(* times: the program that runs the task says it started and finished      *)
(* (server.ts: onActivity), the dispatcher says it was called (emit).      *)
(*                                                                         *)
(* All calls are of one tool, the hardest case for their matching.         *)
(***************************************************************************)
EXTENDS Naturals, Sequences, FiniteSets, SequencesExt

CONSTANTS
    Calls,       \* bound: how many calls the run makes
    Parallel,    \* bound: how many of them at a time
    UsageBound,  \* bound: usage events
    LoadBound,   \* bound: reads of the task
    GapBound     \* bound: losses of the socket

ASSUME FeedAssumption == {Calls, Parallel, UsageBound, LoadBound, GapBound} \subseteq Nat

VARIABLES
    begun, called, done, \* how many calls were reported started, made, reported finished
    stack,     \* nativeCallIds of the tool
    feedHistory,   \* steps and audit rows, in the order of their times
    sealed,    \* how far the audit has come: later rows are not read yet
    feedWire,      \* what is on the events socket
    spent,     \* the run's spend
    feedAnswer,    \* the read on its way: none, or what it was answered
    feed,      \* the page's rows, in the order they came
    alias,     \* items: which row a key is
    meter,     \* facts.usedUsd
    loads, gaps\* bounded counters

feedVars == <<begun, called, done, stack, feedHistory, sealed, feedWire, spent, feedAnswer, feed, alias, meter, loads, gaps>>
feedDaemonVars == <<begun, called, done, stack, feedHistory, sealed, feedWire, spent>>
pageOnlyVars == <<feedAnswer, feed, alias, meter, loads>>

NoAnswer == [spend |-> 0, steps |-> <<>>, of |-> "none"]
FeedInit ==
    /\ begun = 0 /\ called = 0 /\ done = 0 /\ stack = <<>> /\ feedHistory = <<>> /\ sealed = 0 /\ feedWire = <<>>
    /\ spent = 0 /\ feedAnswer = NoAnswer /\ feed = <<>> /\ alias = <<>> /\ meter = 0 /\ loads = 0 /\ gaps = 0

Now == Len(feedHistory) + 1
\* emit and insertStep: a step is dated twice, an audit row keeps the time of its event.
Record(e) == feedHistory' = Append(feedHistory, [e EXCEPT !.at = Now]) /\ feedWire' = Append(feedWire, [e EXCEPT !.at = Now, !.live = TRUE])
Event(kind, id) == [kind |-> kind, id |-> id, at |-> 0, live |-> FALSE, usd |-> 0]

-----------------------------------------------------------------------------
(* The daemon *)

\* onActivity: ids are given at a start and taken back, last first, at a finish.
FeedStarts ==
    /\ begun < Calls /\ begun < done + Parallel /\ begun' = begun + 1 /\ stack' = Append(stack, begun + 1)
    /\ Record(Event("started", begun + 1))
    /\ UNCHANGED <<called, done, sealed, spent, gaps, pageOnlyVars>>
FeedFinishes ==
    /\ done < begun /\ done < called /\ done' = done + 1 /\ stack' = Front(stack)
    /\ Record(Event("finished", Last(stack)))
    /\ UNCHANGED <<begun, called, sealed, spent, gaps, pageOnlyVars>>
\* emit of tool.call: the last id in the tool's stack, or none when its start is not reported yet.
IsCalled ==
    /\ called < Calls /\ called < done + Parallel /\ called' = called + 1
    /\ Record(Event("call", IF stack = <<>> THEN 0 ELSE Last(stack)))
    /\ UNCHANGED <<begun, done, stack, sealed, spent, gaps, pageOnlyVars>>
Spends ==
    /\ spent < UsageBound /\ spent' = spent + 1 /\ Record([Event("usage", 0) EXCEPT !.usd = spent + 1])
    /\ UNCHANGED <<begun, called, done, stack, sealed, gaps, pageOnlyVars>>
\* auditTail: rows are sealed one after the other, some time after their events.
Seals ==
    /\ sealed < Len(feedHistory) /\ sealed' = sealed + 1
    /\ UNCHANGED <<begun, called, done, stack, feedHistory, feedWire, spent, gaps, pageOnlyVars>>
Gap ==
    /\ feedWire # <<>> /\ gaps < GapBound /\ gaps' = gaps + 1 /\ feedWire' = <<>>
    /\ UNCHANGED <<begun, called, done, stack, feedHistory, sealed, spent, pageOnlyVars>>

\* taskActivity: steps at once, audit rows once they are sealed.
IsStep(e) == e.kind \in {"started", "finished"}
Activity == SelectSeq(feedHistory, LAMBDA e : IsStep(e) \/ e.at <= sealed)

-----------------------------------------------------------------------------
(* The page *)

\* feedItemKey: the call's id, or else the kind and the time (the same live and durable).
FeedItemKey(e) == IF e.id # 0 THEN <<"tool", e.id>> ELSE <<e.kind, e.at>>

RowsWith(rows, P(_)) == {i \in DOMAIN rows : P(rows[i])}
Latest(S) == CHOOSE i \in S : \A j \in S : j <= i
\* findToolRow: a finish goes with a row that is pending, a call with one that has had none.
FindToolRow(rows, e) ==
    RowsWith(rows, LAMBDA r : IF e.kind = "finished" THEN r.pending = "yes"
                              ELSE e.kind = "call" /\ ~r.hasCall /\ (r.pending = "yes" \/ r.hasNative))
Existing(f, e) ==
    LET k == FeedItemKey(e) IN
    IF k \in DOMAIN f.alias THEN f.alias[k]
    ELSE LET S == FindToolRow(f.feed, e) IN IF S = {} THEN 0 ELSE Latest(S)
NewRow(e) == [pending |-> IF e.kind = "started" THEN "yes" ELSE "unset", hasCall |-> e.kind = "call",
              hasNative |-> IsStep(e)]
\* A bug: a start that is replayed makes the row pending again.
MergesAgain(r, e) ==
    [pending |-> IF e.kind = "finished" THEN "no" ELSE IF e.kind = "started" THEN "yes" ELSE r.pending,
     hasCall |-> r.hasCall \/ e.kind = "call", hasNative |-> r.hasNative \/ IsStep(e)]
Merges(r, e) ==
    [pending |-> IF e.kind = "finished" THEN "no"
                 ELSE IF e.kind = "started" /\ r.pending # "no" THEN "yes" ELSE r.pending,
     hasCall |-> r.hasCall \/ e.kind = "call", hasNative |-> r.hasNative \/ IsStep(e)]
\* putFeed: the key that came becomes another name of the row.
PutFeed(f, e) ==
    LET i == Existing(f, e)
        n == IF i = 0 THEN Len(f.feed) + 1 ELSE i
        k == FeedItemKey(e)
    IN [f EXCEPT !.feed = IF i = 0 THEN Append(@, NewRow(e)) ELSE [@ EXCEPT ![i] = Merges(@, e)],
                 !.alias = [x \in DOMAIN @ \cup {k} |-> IF x = k THEN n ELSE @[x]]]
\* noteFacts, and feedLine, which has no line for usage.
Notes(f, e) == IF e.kind = "usage" THEN [f EXCEPT !.meter = e.usd] ELSE PutFeed(f, e)
\* noteRecordSpend: it seeds the meter and does not lower it.
RecordSpend(a) == IF a.spend > meter THEN a.spend ELSE meter
\* seed
Seeded(a) == FoldLeft(Notes, [feed |-> feed, alias |-> alias, meter |-> RecordSpend(a)], a.steps)
Shows(f) == feed' = f.feed /\ alias' = f.alias /\ meter' = f.meter

\* onEvent
FeedTold ==
    /\ feedWire # <<>> /\ feedWire' = Tail(feedWire)
    /\ Shows(Notes([feed |-> feed, alias |-> alias, meter |-> meter], Head(feedWire)))
    /\ UNCHANGED <<begun, called, done, stack, feedHistory, sealed, spent, feedAnswer, loads, gaps>>
\* load, and the daemon's answer; a second read replaces the one before it (loadRevision).
AsksHistory ==
    /\ loads < LoadBound /\ loads' = loads + 1 /\ feedAnswer' = [spend |-> spent, steps |-> Activity, of |-> "task"]
    /\ UNCHANGED <<feedDaemonVars, feed, alias, meter, gaps>>
HistoryComes ==
    /\ feedAnswer.of = "task" /\ Shows(Seeded(feedAnswer)) /\ feedAnswer' = NoAnswer
    /\ UNCHANGED <<feedDaemonVars, loads, gaps>>

FeedNext == FeedStarts \/ FeedFinishes \/ IsCalled \/ Spends \/ Seals \/ Gap \/ FeedTold \/ AsksHistory \/ HistoryComes
FeedSpec == FeedInit /\ [][FeedNext]_feedVars

-----------------------------------------------------------------------------
(* Properties *)

\* Every variable has its type.
FeedTypeOK ==
    /\ {begun, called, done} \subseteq 0..Calls /\ Len(stack) <= Parallel /\ sealed \in 0..Len(feedHistory)
    /\ \A r \in Range(feed) : r.pending \in {"unset", "yes", "no"} /\ {r.hasCall, r.hasNative} \subseteq BOOLEAN
    /\ \A k \in DOMAIN alias : alias[k] \in DOMAIN feed
    /\ {meter, spent} \subseteq 0..UsageBound /\ feedAnswer.of \in {"none", "task"}

\* "a durable replay of any of the three hits the live row" (putFeed): a read that tells only what
\* the page was told already adds no row.
ReplayAddsNothing ==
    [][HistoryComes /\ gaps = 0 /\ feedWire = <<>> => Len(feed') = Len(feed)]_feedVars

\* The page has heard or read of everything.
HeardAll == feedWire = <<>> /\ (gaps = 0 \/ (\A i \in DOMAIN feedHistory : <<"tool", feedHistory[i].id>> \in DOMAIN alias))
\* Two calls never share a row: as many rows as calls were reported, in whatever order the reports,
\* the calls and the reads came.
NoCallIsHidden == HeardAll /\ gaps = 0 => Len(feed) >= begun
\* A call that finished is not shown as going on, nor made so again by a replay.
FinishedIsSettled == feedWire = <<>> /\ gaps = 0 /\ done = begun => \A r \in Range(feed) : r.pending # "yes"

\* The feed shows every call, and none that finished as going on.
FeedSafe == FeedTypeOK /\ NoCallIsHidden /\ FinishedIsSettled

-----------------------------------------------------------------------------
\* What is written of the code and is not so; no run lists these.

\* "One native invocation is three events ... updates one row" (task.ts:1863).
\* A start that comes after its call finds no row, and gets one of its own.
OneRowPerCall == HeardAll /\ gaps = 0 => Len(feed) <= IF begun > called THEN begun ELSE called
=============================================================================
