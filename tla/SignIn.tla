------------------------------- MODULE SignIn -------------------------------
(***************************************************************************)
(* Settings, Model connection (ui/connection.ts): two providers to choose  *)
(* from, one button whose meaning is the status that was read last, a poll *)
(* while a sign-in runs, and a connection that follows a sign-in by        *)
(* itself.  `revision` lets only the newest read be applied: `read` is     *)
(* that one, and the earlier ones are as good as lost.  Calls that change  *)
(* something have no revision: their answers are always taken.             *)
(*                                                                         *)
(* The daemon is what the pane's calls do to it.  Time is left out: the    *)
(* poll's timer fires at any moment.                                       *)
(***************************************************************************)
EXTENDS Naturals, FiniteSets

CONSTANTS
    PressBound,  \* bound: presses of the person
    MishapBound  \* bound: sign-ins given up, failed reads and calls

ASSUME SignInAssumption == {PressBound, MishapBound} \subseteq Nat

Providers == {"claude", "codex"}
Other(p) == CHOOSE q \in Providers : q # p

VARIABLES
    accounts, \* the CLIs: signed_out, signing_in or signed_in
    using,    \* the daemon's provider, and whether it is connected
    pane,     \* the section's variables
    read,     \* the newest refresh: what it asks for, and what the daemon answered
    signCalls,    \* POSTs on their way: sign-in, connect, cancel
    owed,     \* ghost: a sign-in was pressed and not yet connected, given up, or failed
    presses, mishaps

signInVars == <<accounts, using, pane, read, signCalls, owed, presses, mishaps>>
daemonVars == <<accounts, using>>

NoRead == [on |-> FALSE, ask |-> "any", taken |-> FALSE, p |-> "claude", status |-> "none"]
Statuses == {"none", "signed_out", "signing_in", "signed_in", "connected", "error"}
Status(p) == IF using = [p |-> p, on |-> TRUE] /\ accounts[p] = "signed_in" THEN "connected" ELSE accounts[p]

SignInInit ==
    /\ accounts \in [Providers -> {"signed_out", "signed_in"}]
    /\ using \in [p : Providers, on : {FALSE}] /\ owed = FALSE /\ signCalls = {}
    /\ pane = [live |-> TRUE, selected |-> "claude", edited |-> FALSE, shown |-> "none", other |-> "none",
               busy |-> FALSE, wants |-> FALSE, timer |-> FALSE]
    /\ read = [NoRead EXCEPT !.on = TRUE] /\ presses = 0 /\ mishaps = 0

-----------------------------------------------------------------------------
(* What the handlers do *)

Asked(s) == IF s.edited \/ s.shown = "signing_in" THEN s.selected ELSE "any"
\* refresh: the timer is dropped, and no earlier read is applied any more.
Refresh(s) ==
    IF s.live THEN pane' = [s EXCEPT !.timer = FALSE] /\ read' = [NoRead EXCEPT !.on = TRUE, !.ask = Asked(s)]
    ELSE pane' = s /\ UNCHANGED read
SignCall(kind, p, pressed) == [kind |-> kind, p |-> p, n |-> presses, pressed |-> pressed, status |-> "none"]
\* connect: once, whatever is read after it.
Connect(s, pressed) ==
    /\ pane' = [s EXCEPT !.busy = TRUE, !.wants = FALSE]
    /\ signCalls' = signCalls \cup {SignCall("connect", s.selected, pressed)}
\* failed
Failed ==
    /\ pane' = IF pane.live THEN [pane EXCEPT !.busy = FALSE, !.wants = FALSE, !.shown = "error"] ELSE pane
    /\ owed' = FALSE
Presses == presses < PressBound /\ presses' = presses + 1
Mishap == mishaps < MishapBound /\ mishaps' = mishaps + 1

-----------------------------------------------------------------------------
(* The daemon and the person at the provider's page *)

ReadTaken ==
    /\ read.on /\ ~read.taken
    /\ LET p == IF read.ask = "any" THEN using.p ELSE read.ask IN
       read' = [read EXCEPT !.taken = TRUE, !.p = p, !.status = Status(p)]
    /\ UNCHANGED <<daemonVars, pane, signCalls, owed, presses, mishaps>>
SignedIn(p) == accounts[p] = "signing_in" /\ accounts' = [accounts EXCEPT ![p] = "signed_in"] /\ UNCHANGED mishaps
GivenUp(p) == accounts[p] = "signing_in" /\ Mishap /\ accounts' = [accounts EXCEPT ![p] = "signed_out"]
PersonAtProvider ==
    /\ \E p \in Providers : SignedIn(p) \/ GivenUp(p)
    /\ UNCHANGED <<using, pane, read, signCalls, owed, presses>>
CallTaken(c) ==
    /\ c.status = "none"
    /\ \/ c.kind = "signin" /\ accounts' = [accounts EXCEPT ![c.p] = IF @ = "signed_out" THEN "signing_in" ELSE @]
          /\ UNCHANGED using
       \/ c.kind = "cancel" /\ accounts' = [accounts EXCEPT ![c.p] = IF @ = "signing_in" THEN "signed_out" ELSE @]
          /\ UNCHANGED using
       \/ c.kind = "connect" /\ using' = (IF accounts[c.p] = "signed_in" THEN [p |-> c.p, on |-> TRUE] ELSE using)
          /\ UNCHANGED accounts
    /\ signCalls' = (signCalls \ {c}) \cup {[c EXCEPT !.status =
                    IF c.kind = "connect" /\ accounts[c.p] = "signed_in" THEN "connected" ELSE accounts'[c.p]]}
    /\ UNCHANGED <<pane, read, owed, presses, mishaps>>

-----------------------------------------------------------------------------
(* The pane *)

\* refresh, its answer: shown; the poll goes on while a sign-in does.
Shown(s) ==
    [s EXCEPT !.selected = IF s.edited THEN @ ELSE read.p, !.shown = read.status, !.timer = read.status = "signing_in",
              !.wants = @ /\ read.status # "connected"]
ReadAnswered ==
    /\ read.taken /\ pane.live /\ read' = NoRead
    /\ IF read.status = "signed_in" /\ pane.wants
       THEN Connect(Shown(pane), FALSE) /\ owed' = FALSE
       ELSE pane' = Shown(pane) /\ owed' = (owed /\ read.status # "connected") /\ UNCHANGED signCalls
    /\ UNCHANGED <<daemonVars, presses, mishaps>>
SignReadFails ==
    /\ read.on /\ Mishap /\ Failed /\ read' = NoRead /\ UNCHANGED <<daemonVars, signCalls, presses>>
SignTimerFires ==
    /\ pane.timer /\ Refresh(pane) /\ UNCHANGED <<daemonVars, signCalls, owed, presses, mishaps>>

\* The other row, probed once and when it is left.
Chooses ==
    /\ pane.live /\ ~pane.busy /\ Presses
    /\ Refresh([pane EXCEPT !.edited = TRUE, !.wants = FALSE, !.selected = Other(@), !.shown = pane.other,
                            !.other = pane.shown])
    /\ owed' = FALSE /\ UNCHANGED <<daemonVars, signCalls, mishaps>>
\* The button: what it does is what is shown.
PressesAction ==
    /\ pane.live /\ ~pane.busy /\ Presses
    /\ \/ pane.shown \in {"signed_in", "connected"} /\ Connect(pane, TRUE) /\ owed' = FALSE /\ UNCHANGED read
       \/ /\ pane.shown = "signed_out" /\ pane' = [pane EXCEPT !.busy = TRUE, !.wants = TRUE] /\ owed' = TRUE
          /\ signCalls' = signCalls \cup {SignCall("signin", pane.selected, TRUE)} /\ UNCHANGED read
       \/ pane.shown = "error" /\ Refresh(pane) /\ UNCHANGED <<signCalls, owed>>
    /\ UNCHANGED <<daemonVars, mishaps>>
Rechecks ==
    /\ pane.live /\ Presses /\ Refresh(pane) /\ UNCHANGED <<daemonVars, signCalls, owed, mishaps>>
SignCancels ==
    /\ pane.live /\ pane.shown = "signing_in" /\ ~\E c \in signCalls : c.kind = "cancel"
    /\ Presses /\ read' = NoRead /\ pane' = [pane EXCEPT !.timer = FALSE, !.wants = FALSE] /\ owed' = FALSE
    /\ signCalls' = signCalls \cup {SignCall("cancel", pane.selected, TRUE)} /\ UNCHANGED <<daemonVars, mishaps>>
\* The disposer.
Leaves ==
    /\ pane.live /\ pane' = [pane EXCEPT !.live = FALSE, !.timer = FALSE] /\ read' = NoRead /\ owed' = FALSE
    /\ UNCHANGED <<daemonVars, signCalls, presses, mishaps>>

CallAnswered(c) ==
    /\ c.status # "none" /\ signCalls' = signCalls \ {c} /\ UNCHANGED <<daemonVars, owed, presses, mishaps>>
    /\ IF ~pane.live THEN UNCHANGED <<pane, read>>
       ELSE IF c.kind = "connect" /\ c.status = "connected"
       THEN pane' = [pane EXCEPT !.busy = FALSE, !.shown = "connected"] /\ UNCHANGED read
       ELSE Refresh([pane EXCEPT !.busy = FALSE])
CallFails(c) ==
    /\ Mishap /\ Failed /\ signCalls' = signCalls \ {c} /\ UNCHANGED <<daemonVars, read, presses>>

Calling == \E c \in signCalls : CallTaken(c) \/ CallAnswered(c)
SignInNext ==
    \/ ReadTaken \/ PersonAtProvider \/ ReadAnswered \/ SignReadFails \/ SignTimerFires
    \/ Chooses \/ PressesAction \/ Rechecks \/ SignCancels \/ Leaves
    \/ \E c \in signCalls : CallTaken(c) \/ CallAnswered(c) \/ CallFails(c)
SignInSpec == SignInInit /\ [][SignInNext]_signInVars

-----------------------------------------------------------------------------
\* Types of the pane's state.
SignInTypeOK ==
    /\ accounts \in [Providers -> {"signed_out", "signing_in", "signed_in"}] /\ using \in [p : Providers, on : BOOLEAN]
    /\ pane \in [live : BOOLEAN, selected : Providers, edited : BOOLEAN, shown : Statuses, other : Statuses,
                 busy : BOOLEAN, wants : BOOLEAN, timer : BOOLEAN]
    /\ read.ask \in Providers \cup {"any"} /\ read.status \in Statuses /\ owed \in BOOLEAN

\* "An explicit sign-in ... connects exactly once" (connection.ts:12): the pane connects by itself only for a
\* sign-in that was pressed and neither connected, cancelled, left for the other provider nor failed since, however
\* polls, checks and late answers overlap, and never after it was left.
ConnectsOnlyForASignIn ==
    [][\A c \in signCalls' \ signCalls : c.kind = "connect" /\ c.status = "none" => pane.live /\ (c.pressed \/ owed)]_signInVars

\* A sign-in that was pressed and is finished at the provider is connected, without another press.
IsOwed == owed /\ accounts[pane.selected] = "signed_in"
=============================================================================
