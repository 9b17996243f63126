------------------------------- MODULE Egress -------------------------------
(***************************************************************************)
(* The proxy every request of a computer leaves by (proxy/proxy.ts): its   *)
(* two handlers, for plain requests and for CONNECT, from the request to   *)
(* the line in the access log; the decision on a destination               *)
(* (proxy/policy.ts), asked twice because what a name stands for changes.  *)
(*                                                                         *)
(* A destination is a name; which addresses are refused is a constant.     *)
(* Literals, ports, the allowlist and the never-allowed names are one      *)
(* verdict, fixed for a name.                                              *)
(***************************************************************************)
EXTENDS Naturals, FiniteSets

CONSTANTS
    Requests,
    Addresses, Refused, \* all addresses, those evaluateDestination denies
    MaxConcurrent,      \* maxConcurrent
    AnswerBound         \* bound: changes of what the name resolves to

ASSUME EgressAssumption ==
    IsFiniteSet(Requests) /\ Refused \subseteq Addresses /\ {MaxConcurrent, AnswerBound} \subseteq Nat

VARIABLES
    proxyReq,     \* each request and its two sockets
    active,  \* the proxy's count of those under way
    answer,  \* what the name resolves to, {} for not at all
    answers  \* bounded counter

egressVars == <<proxyReq, active, answer, answers>>

ProxyNoRequest == [by |-> "none", at |-> "none", vetted |-> {}, peer |-> {}, client |-> TRUE,
              heard |-> FALSE, lines |-> 0, quiet |-> FALSE]
EgressInit ==
    /\ proxyReq = [r \in Requests |-> ProxyNoRequest] /\ active = 0
    /\ answer \in SUBSET Addresses /\ answers = 0

\* access.write
Logged(q) == [q EXCEPT !.lines = @ + 1]
Denied(q) == Logged([q EXCEPT !.at = "done"])
\* onDone: the first of the ways a request ends is the one that counts.
Done(r, q) ==
    IF proxyReq[r].at = "done" THEN proxyReq' = [proxyReq EXCEPT ![r] = [q EXCEPT !.at = "done"]] /\ UNCHANGED active
    ELSE /\ proxyReq' = [proxyReq EXCEPT ![r] = Logged([q EXCEPT !.at = "done"])]
         /\ active' = IF active > 0 THEN active - 1 ELSE 0

\* evaluateDestination
ProxyAllowed == answer # {} /\ answer \cap Refused = {}

-----------------------------------------------------------------------------
\* An address that can be read, and room: the same in both handlers.
Admits(q, ok) == IF ok /\ active < MaxConcurrent THEN [q EXCEPT !.at = "first"] ELSE Denied(q)
\* handleHttp: the slot, after the second look and before http.request
TakesSlot(q) == [q EXCEPT !.at = "connecting", !.vetted = answer, !.heard = q.client]
\* handleHttp, handleConnect: up to the first wait
ProxyAsks(r, by) ==
    /\ proxyReq[r].at = "none"
    /\ \E ok \in BOOLEAN :
         proxyReq' = [proxyReq EXCEPT ![r] = Admits([@ EXCEPT !.by = by], ok)]
    /\ UNCHANGED <<active, answer, answers>>
\* The first look at the destination, and the one right before connecting.
LooksUp(r) ==
    /\ proxyReq[r].at \in {"first", "second"}
    /\ IF ~ProxyAllowed THEN proxyReq' = [proxyReq EXCEPT ![r] = Denied(@)] /\ UNCHANGED active
       ELSE IF proxyReq[r].at = "first" THEN proxyReq' = [proxyReq EXCEPT ![r].at = "second"] /\ UNCHANGED active
       ELSE /\ proxyReq' = [proxyReq EXCEPT ![r] = TakesSlot(@)]
            /\ active' = active + 1
    /\ UNCHANGED <<answer, answers>>
\* A bug: the connection is made to the name.
ConnectsByName(r) ==
    /\ proxyReq[r].at = "connecting" /\ answer # {}
    /\ \E a \in answer : proxyReq' = [proxyReq EXCEPT ![r].at = "open", ![r].peer = {a}]
    /\ UNCHANGED <<active, answer, answers>>
\* upstream connects, to an address that was vetted
ProxyConnects(r) ==
    /\ proxyReq[r].at = "connecting"
    /\ \E a \in proxyReq[r].vetted : proxyReq' = [proxyReq EXCEPT ![r].at = "open", ![r].peer = {a}]
    /\ UNCHANGED <<active, answer, answers>>
\* The upstream fails, and then its socket and the client's still close.
UpstreamFails(r) ==
    /\ proxyReq[r].at \in {"connecting", "open"} /\ Done(r, proxyReq[r])
    /\ UNCHANGED <<answer, answers>>
\* The reply is over: res, or the client's half of the tunnel, closes.
UpstreamEnds(r) ==
    /\ proxyReq[r].at = "open" /\ proxyReq[r].heard /\ Done(r, [proxyReq[r] EXCEPT !.client = FALSE])
    /\ UNCHANGED <<answer, answers>>
\* connectTimeoutMs: a timer that the connection clears for CONNECT, the idle
\* time of the upstream socket for a plain request, which nothing clears.  The
\* timer of a CONNECT closes the client, and that the client's close is heard.
TimesOut(r) ==
    /\ \/ proxyReq[r].at = "connecting" /\ (proxyReq[r].by = "http" \/ proxyReq[r].heard)
       \/ proxyReq[r].at = "open" /\ proxyReq[r].by = "http"
    /\ Done(r, [proxyReq[r] EXCEPT !.client = proxyReq[r].client /\ ~proxyReq[r].heard, !.quiet = (proxyReq[r].at = "open")])
    /\ UNCHANGED <<answer, answers>>
\* A client that left unheard has no close left to hear: a tunnel that times out or
\* ends, or a reply without a body that ends, calls no onDone.
Leaks(r) ==
    /\ ~proxyReq[r].heard
    /\ \/ proxyReq[r].at = "connecting" /\ proxyReq[r].by = "connect"
       \/ proxyReq[r].at = "open"
    /\ proxyReq' = [proxyReq EXCEPT ![r].at = "leaked"]
    /\ UNCHANGED <<active, answer, answers>>
\* The client goes away: unheard while the proxy still looks the name up, and
\* heard once more after a request that is over.
ClientLeaves(r) ==
    /\ proxyReq[r].at # "none" /\ proxyReq[r].client
    /\ IF proxyReq[r].heard /\ proxyReq[r].at \in {"connecting", "open", "done"}
       THEN Done(r, [proxyReq[r] EXCEPT !.client = FALSE])
       ELSE proxyReq' = [proxyReq EXCEPT ![r].client = FALSE] /\ UNCHANGED active
    /\ UNCHANGED <<answer, answers>>
\* The name comes to stand for something else.
NameChanges ==
    /\ answers < AnswerBound /\ answers' = answers + 1
    /\ answer' \in SUBSET Addresses \ {answer} /\ UNCHANGED <<proxyReq, active>>

-----------------------------------------------------------------------------
EgressNext ==
    \/ \E r \in Requests, by \in {"http", "connect"} : ProxyAsks(r, by)
    \/ \E r \in Requests : \/ LooksUp(r) \/ ProxyConnects(r) \/ UpstreamFails(r) \/ UpstreamEnds(r)
                           \/ TimesOut(r) \/ Leaks(r) \/ ClientLeaves(r)
    \/ NameChanges
EgressSpec == EgressInit /\ [][EgressNext]_egressVars

ProxyRequest == [by : {"none", "http", "connect"},
            at : {"none", "first", "second", "connecting", "open", "done", "leaked"}, vetted : SUBSET Addresses, peer : SUBSET Addresses, client : BOOLEAN, heard : BOOLEAN,
            lines : Nat, quiet : BOOLEAN]
EgressTypeOK ==
    /\ proxyReq \in [Requests -> ProxyRequest] /\ active \in Nat
    /\ answer \subseteq Addresses /\ answers \in Nat

\* proxy.ts, onDone: however the ends of a request follow on each other, its slot is
\* given back once and its line is written once, a refused one's too; but for one
\* whose client left while its name was looked up, which may end with neither.
SlotsAddUp ==
    /\ active = Cardinality({r \in Requests : proxyReq[r].at \in {"connecting", "open", "leaked"}})
    /\ \A r \in Requests : proxyReq[r].lines = (IF proxyReq[r].at = "done" THEN 1 ELSE 0)
    /\ \A r \in Requests : proxyReq[r].at = "leaked" => ~proxyReq[r].heard
\* policy.ts, evaluateDestination, asked before each connect: what a name comes to stand for after it was looked up is
\* never connected to.
OnlyWhatWasVetted ==
    \A r \in Requests : proxyReq[r].peer \subseteq proxyReq[r].vetted /\ proxyReq[r].peer \cap Refused = {}

\* The proxy connects to what it vetted and gives every slot back once.
EgressSafe == EgressTypeOK /\ SlotsAddUp /\ OnlyWhatWasVetted

-----------------------------------------------------------------------------
\* What is written of the code and is not so; no run lists these.

\* proxy.ts:109, "quiet model reasoning can legitimately outlast a generic socket timeout". The
\* connection timeout of a plain request stays on after the connection.
QuietIsNotCut == \A r \in Requests : ~proxyReq[r].quiet

\* That every slot comes back: the one of a request that leaks never does, and as many
\* as maxConcurrent of them leave no room (proxy.ts:406-409 and 461).
SlotsComeBack == \A r \in Requests : proxyReq[r].at # "leaked"
=============================================================================
