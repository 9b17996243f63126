----------------------------- MODULE Connections -----------------------------
(***************************************************************************)
(* The connections to the model providers (codex-connection.ts): sign-ins  *)
(* that run the provider's own CLI, the requests that begin, join or       *)
(* cancel them, the adoption of a CLI that is signed in already, and the   *)
(* operator's session that a sign-in belongs to.                           *)
(*                                                                         *)
(* A probe of the CLI reads whether it is signed in when the probe ends.   *)
(***************************************************************************)
EXTENDS Naturals

CONSTANTS
    Provider,        \* codex, claude
    Ask,             \* requests on a connection that may overlap
    MaxGeneration    \* bound: generations of a connection

NoProvider == "none"
ASSUME ConnectionAssumption == MaxGeneration \in Nat /\ NoProvider \notin Provider

VARIABLES
    generation,  \* per provider: the attempts begun and cancelled
    login,       \* per provider: where the sign-in is, and its generation
    dying,       \* the providers whose CLI was told to end
    signedIn,    \* the providers whose CLI is signed in
    configured,  \* opts.codexRunner's provider
    ask,         \* per request: where it is, its provider, and the generation it knows
    adopt,       \* adoptSignedInProvider, likewise
    session,     \* the operator's session is valid
    shut         \* the daemon has closed the connections

loginVars == <<generation, login, dying, signedIn, configured, ask, adopt, session, shut>>

Nowhere == [at |-> "no", p |-> NoProvider, id |-> 0]
ConnectionInit ==
    /\ generation = [p \in Provider |-> 0]
    /\ login = [p \in Provider |-> [at |-> "no", id |-> 0]]
    /\ dying = {} /\ signedIn \in SUBSET Provider /\ configured = NoProvider
    /\ ask = [a \in Ask |-> Nowhere] /\ adopt = Nowhere
    /\ session = TRUE /\ shut = FALSE

LoggingIn(p) == login[p].at # "no"
Moves(p, place) == login' = [login EXCEPT ![p].at = place]
LoginGoes(a, place) == ask' = [ask EXCEPT ![a] = place]
LoginAt(place, p, id) == [at |-> place, p |-> p, id |-> id]

\* What a probe of the CLI answers when it ends.
Probed(p) == p \in signedIn
\* The sign-in was neither cancelled nor left by its owner.
Wanted(p) == login[p].id = generation[p] /\ session

\* The CLIs that run, told to end.
LoginTold(ps) == {p \in ps : login[p].at = "runs"}
\* cancel, up to its awaits.
CancelOf(ps) ==
    /\ \A p \in ps : generation[p] < MaxGeneration
    /\ generation' = [p \in Provider |-> generation[p] + IF p \in ps THEN 1 ELSE 0]
    /\ dying' = dying \cup LoginTold(ps)
\* ... and the end of its wait for the sign-in that was pending.
PendingOver(p, id) == ~LoggingIn(p) \/ login[p].id # id

-----------------------------------------------------------------------------
(* A sign-in *)

\* The folder is made.
LoginPrepares(p) ==
    /\ login[p].at = "mkdir" /\ Moves(p, IF Wanted(p) THEN "launch" ELSE "no")
    /\ UNCHANGED <<generation, dying, signedIn, configured, ask, adopt, session, shut>>
\* A bug: a cancellation during the launch is not noticed.
LaunchesAnyway(p) ==
    /\ login[p].at = "launch" /\ Moves(p, "runs")
    /\ UNCHANGED <<generation, dying, signedIn, configured, ask, adopt, session, shut>>
\* The CLI is launched, or killed at once, or does not start.
LoginLaunches(p) ==
    /\ login[p].at = "launch"
    /\ \E place \in {"no"} \cup (IF Wanted(p) THEN {"runs"} ELSE {}) : Moves(p, place)
    /\ UNCHANGED <<generation, dying, signedIn, configured, ask, adopt, session, shut>>
\* The CLI ends: by itself, by its deadline, or because it was told to.
CliEnds(p) ==
    /\ login[p].at = "runs" /\ Moves(p, IF Wanted(p) THEN "probe" ELSE "no")
    /\ dying' = dying \ {p} /\ signedIn' \in {signedIn, signedIn \cup {p}}
    /\ UNCHANGED <<generation, configured, ask, adopt, session, shut>>
Connected(p) == configured' = IF shut THEN configured ELSE p
LoginEnds(p) ==
    /\ login[p].at = "probe" /\ Moves(p, "no")
    /\ IF Wanted(p) /\ Probed(p) THEN Connected(p) ELSE UNCHANGED configured
    /\ UNCHANGED <<generation, dying, signedIn, ask, adopt, session, shut>>

-----------------------------------------------------------------------------
(* POST /connection/sign-in, connect, cancel *)

\* Both cancel what the other provider is doing, first.
LoginRequests(a) ==
    /\ session /\ ask[a] = Nowhere
    /\ \E p \in Provider, place \in {"clearsSignIn", "clearsConnect"} :
        \E other \in Provider \ {p} :
            CancelOf({other}) /\ LoginGoes(a, LoginAt(place, p, login[other].id))
    /\ UNCHANGED <<login, signedIn, configured, adopt, session, shut>>
AsksCli(a) ==
    LET p == ask[a].p IN
    /\ ask[a].at \in {"clearsSignIn", "clearsConnect"}
    /\ \A other \in Provider \ {p} : PendingOver(other, ask[a].id)
    /\ LoginGoes(a, IF LoggingIn(p) THEN Nowhere
               ELSE LoginAt(IF ask[a].at = "clearsSignIn" THEN "signIn" ELSE "connect", p, generation[p]))
    /\ UNCHANGED <<generation, login, dying, signedIn, configured, adopt, session, shut>>
Current(a) == ~shut /\ ask[a].id = generation[ask[a].p] /\ session
SignIn(a) ==
    LET p == ask[a].p IN
    /\ ask[a].at = "signIn"
    /\ \/ /\ LoggingIn(p) \/ ~Current(a)
          /\ LoginGoes(a, Nowhere) /\ UNCHANGED <<generation, login>>
       \/ /\ ~LoggingIn(p) /\ Current(a) /\ Probed(p)
          /\ LoginGoes(a, LoginAt("connect", p, generation[p])) /\ UNCHANGED <<generation, login>>
       \/ /\ ~LoggingIn(p) /\ Current(a) /\ ~Probed(p) /\ generation[p] < MaxGeneration
          /\ generation' = [generation EXCEPT ![p] = @ + 1]
          /\ login' = [login EXCEPT ![p] = [at |-> "mkdir", id |-> generation[p] + 1]]
          /\ LoginGoes(a, Nowhere)
    /\ UNCHANGED <<dying, signedIn, configured, adopt, session, shut>>
LoginConnects(a) ==
    /\ ask[a].at = "connect" /\ LoginGoes(a, Nowhere)
    /\ IF Current(a) /\ Probed(ask[a].p) THEN Connected(ask[a].p) ELSE UNCHANGED configured
    /\ UNCHANGED <<generation, login, dying, signedIn, adopt, session, shut>>
Cancels(a) ==
    /\ \/ /\ session /\ ask[a] = Nowhere
          /\ \E p \in Provider : CancelOf({p}) /\ LoginGoes(a, LoginAt("cancels", p, login[p].id))
       \/ /\ ask[a].at = "cancels" /\ PendingOver(ask[a].p, ask[a].id) /\ LoginGoes(a, Nowhere)
          /\ UNCHANGED <<generation, dying>>
    /\ UNCHANGED <<login, signedIn, configured, adopt, session, shut>>

-----------------------------------------------------------------------------
(* The daemon *)

\* adoptSignedInProvider: tries the providers in turn while none is configured.
AdoptBegins ==
    /\ adopt = Nowhere /\ configured = NoProvider
    /\ \E p \in Provider : ~LoggingIn(p) /\ adopt' = LoginAt("connect", p, generation[p])
    /\ UNCHANGED <<generation, login, dying, signedIn, configured, ask, session, shut>>
AdoptEnds ==
    /\ adopt.at = "connect" /\ adopt' = Nowhere
    /\ IF ~shut /\ adopt.id = generation[adopt.p] /\ Probed(adopt.p)
       THEN Connected(adopt.p) ELSE UNCHANGED configured
    /\ UNCHANGED <<generation, login, dying, signedIn, ask, session, shut>>
\* The session is revoked, or expires and is found out by the timer.
SessionEnds ==
    /\ session /\ session' = FALSE
    /\ UNCHANGED <<generation, login, dying, signedIn, configured, ask, adopt, shut>>
SessionFoundEnded ==
    /\ ~session
    /\ \E p \in Provider : LoggingIn(p) /\ login[p].id = generation[p] /\ CancelOf({p})
    /\ UNCHANGED <<login, signedIn, configured, ask, adopt, session, shut>>
Shuts ==
    /\ ~shut /\ shut' = TRUE /\ CancelOf(Provider)
    /\ UNCHANGED <<login, signedIn, configured, ask, adopt, session>>

LoginStep(p) == LoginPrepares(p) \/ LoginLaunches(p) \/ CliEnds(p) \/ LoginEnds(p)
AskStep(a) == AsksCli(a) \/ SignIn(a) \/ LoginConnects(a) \/ (ask[a] # Nowhere /\ Cancels(a))
ConnectionNext ==
    \/ \E p \in Provider : LoginStep(p)
    \/ \E a \in Ask : AskStep(a) \/ LoginRequests(a) \/ Cancels(a)
    \/ AdoptBegins \/ AdoptEnds \/ SessionEnds \/ SessionFoundEnded \/ Shuts
ConnectionSpec == ConnectionInit /\ [][ConnectionNext]_loginVars

-----------------------------------------------------------------------------
(* Properties *)

\* Every variable has its type.
ConnectionTypeOK ==
    /\ generation \in [Provider -> 0..MaxGeneration]
    /\ login \in [Provider -> [at : {"no", "mkdir", "launch", "runs", "probe"}, id : 0..MaxGeneration]]
    /\ dying \subseteq Provider /\ signedIn \subseteq Provider
    /\ configured \in Provider \cup {NoProvider} /\ {session, shut} \subseteq BOOLEAN
    /\ adopt \in [at : {"no", "connect"}, p : Provider \cup {NoProvider}, id : 0..MaxGeneration]
    /\ ask \in [Ask -> [at : {"no", "clearsSignIn", "clearsConnect", "signIn", "connect", "cancels"},
                        p : Provider \cup {NoProvider}, id : 0..MaxGeneration]]

\* A CLI that signs in for an attempt that was cancelled has been told to end,
\* also when the cancellation met the attempt before there was a CLI to tell.
CancelledIsTold ==
    \A p \in Provider : login[p].at = "runs" /\ login[p].id # generation[p] => p \in dying

\* What finishes after a cancellation, or after its operator has gone, connects nothing.
NothingConnectsLate ==
    [][\A p \in Provider : login[p].at = "probe" /\ configured' # configured
                           /\ login'[p].at = "no" => Wanted(p)]_loginVars

-----------------------------------------------------------------------------
\* What is written of the code and is not so; no run lists these.

\* server.ts:863, "Never overrides a configured provider". The adoption asks, then awaits a
\* probe: a provider connected meanwhile is overridden.
NeverOverrides ==
    [][adopt # Nowhere /\ adopt' = Nowhere /\ configured # NoProvider => configured' = configured]_loginVars
=============================================================================
