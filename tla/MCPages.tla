------------------------------ MODULE MCPages ------------------------------
(***************************************************************************)
(* The pages and what talks to them, side by side: the live view, the page *)
(* of a task and its feed, home, the sign-in pane, what asks for the       *)
(* person's attention, the devices and their input, and the code by which  *)
(* a phone is brought in.  They share no variable; "part" says which of    *)
(* them a behaviour is about, the others rest in one first state.          *)
(***************************************************************************)
EXTENDS LiveView, TaskPage, TaskFeed, Home, SignIn, Attention, Sessions, QrCode

VARIABLE part
allPageVars == <<part, liveVars, pageVars, feedVars, homeVars, signInVars, attentionVars, sessionsVars, qrVars>>

OneTask(i) == "u2"
\* For every version the longest link it holds, and one that none holds
QrLengths == {(dataCodewords(v) * 8 - 4 - charCountBits(v)) \div 8 : v \in 1..20} \cup {1000}
QrDegrees == {10, 16, 18, 22, 24, 26, 28, 30}
QrBytes == {{}, {0}, {7, 6, 5, 3, 2}, {4, 0}}

\* The meter is read while the history is short, the socket lost before it is long.
FeedOrder == (spent' # spent => Len(feedHistory) <= 1) /\ (gaps' # gaps => Len(feedHistory) <= 1)

\* A stream that is cut or a page that is reloaded, not both.
OneTrouble == outages' + reloads' <= 1

Init ==
    /\ part \in {"live", "page", "feed", "home", "signin", "attention", "sessions", "qr"}
    /\ LiveInit /\ PageInit /\ FeedInit /\ AttentionInit /\ SessionsInit
    /\ HomeInit /\ (part = "home" \/ (engine /\ homeImage /\ account))
    /\ SignInInit /\ (part = "signin" \/ (accounts["codex"] = "signed_out" /\ accounts["claude"] = "signed_out" /\ using.p = "claude"))
    /\ QrInit /\ (part = "qr" \/ (degree = 0 /\ version = 0))
Next ==
    /\ part' = part
    /\ IF part = "live" THEN LiveNext ELSE UNCHANGED liveVars
    /\ IF part = "page" THEN PageNext ELSE UNCHANGED pageVars
    /\ IF part = "feed" THEN FeedNext /\ FeedOrder ELSE UNCHANGED feedVars
    /\ IF part = "home" THEN HomeNext ELSE UNCHANGED homeVars
    /\ IF part = "signin" THEN SignInNext ELSE UNCHANGED signInVars
    /\ IF part = "attention" THEN AttentionNext /\ OneTrouble ELSE UNCHANGED attentionVars
    /\ IF part = "sessions" THEN SessionsNext ELSE UNCHANGED sessionsVars
    /\ IF part = "qr" THEN QrNext ELSE UNCHANGED qrVars
Spec == Init /\ [][Next]_allPageVars

\* What is on the screen is so: the picture of the control the page knows of, the task it is at,
\* one ping for a request, and no request that was answered.
PagesSafe ==
    /\ LiveTypeOK /\ PageTypeOK /\ HomeTypeOK /\ SignInTypeOK /\ AttentionTypeOK /\ SessionsTypeOK
    /\ ReadyIsCurrent /\ ShowsItsTask /\ OnePing /\ AnsweredStaysDown
\* What no step does: start what nobody asked for, connect without a sign-in, add a row for a
\* replay, let a device that was called out act.
PagesSteps == OnlyWhatWasAsked /\ ConnectsOnlyForASignIn /\ ReplayAddsNothing /\ RevokedIsOut
=============================================================================
