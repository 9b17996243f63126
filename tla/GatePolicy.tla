----------------------------- MODULE GatePolicy -----------------------------
(***************************************************************************)
(* What a tool call needs (policy/gate.ts, policy/signals.ts,              *)
(* policy/approvals.ts, protocol/origin.ts; dispatcher.ts asks): nothing,  *)
(* a person's consent, or it is refused. The decision is about the call,   *)
(* what the page shows, and the origins the task may write to, which grow  *)
(* when a person allows a site for the task.                               *)
(*                                                                         *)
(* A host is its labels. Words of controls, commands and tools are the     *)
(* class their pattern puts them in. Asking, answering and spending one    *)
(* consent are those of Approvals; here every call is decided afresh.      *)
(***************************************************************************)
EXTENDS Integers, FiniteSets, SequencesExt

CONSTANTS
    Pages,          \* [origin, checkout, controls, counted, marker]
    ToolCalls,      \* [tool, does] and, for those that open a page, [tool, does, url]
    Declarations,   \* what tasks declare: NotDeclared, or origins
    ArmedSets,      \* sets of gates that a person leaves on
    PublicSuffixes, \* public suffixes
    TosBlocked,     \* patterns of tos-risk.json with risk "block"
    GrantLimit      \* MAX_TASK_ORIGIN_GRANTS

OptionalGates == {"external_send", "payment", "upload", "delete", "secret_entry", "new_domain"}
ASSUME GateAssumption == (\A s \in ArmedSets : s \subseteq OptionalGates) /\ GrantLimit \in Nat
\* An origin has a host; a computer counts the fields of a page by these kinds.
ASSUME PageAssumption == \A page \in Pages :
    /\ page.origin \in [scheme : STRING, host : Seq(STRING) \ {<<>>}, port : Nat]
    /\ page.counted \subseteq {"bare", "password", "otp"}
\* The tools that can submit with what they type, and those that press a key
ASSUME CallAssumption == \A call \in ToolCalls :
    /\ call.does = "submit" => call.tool = "browser_type"
    /\ call.does = "enter" => call.tool \in {"browser_press", "computer_key"}

VARIABLES
    mode, declared, \* of the task
    armed, killed,  \* enabledGates, killSwitch: settings of the daemon
    granted,        \* task_origin_grants
    told,           \* the last decision: the call, the page, the verdict, the audit's arguments
    always          \* history: what a person said "always for this task" to
gateVars == <<mode, declared, armed, killed, granted, told, always>>

-----------------------------------------------------------------------------
(* Origins *)

NotDeclared == [given |-> FALSE, origins |-> {}]
Declares(patterns) == [given |-> TRUE, origins |-> patterns]
Origin(scheme, host, port) == [scheme |-> scheme, host |-> host, port |-> port]
AboutBlank == Origin("about", <<"blank">>, 0)
\* A pattern names a host, perhaps with all its subdomains, and perhaps scheme, port and path.
AnyScheme == "any"
Exactly(o) == [origin |-> o, wild |-> FALSE, path |-> FALSE]

\* originMatchesPattern: an origin has no path, so a pattern with one is not its.
OriginMatches(o, pattern) ==
    LET p == pattern.origin IN
    /\ ~pattern.path
    /\ o.host = p.host \/ (pattern.wild /\ IsSuffix(p.host, o.host))
    /\ p.scheme = AnyScheme \/ (o.scheme = p.scheme /\ o.port = p.port)
InSet(o, patterns) == \E p \in patterns : OriginMatches(o, p)

\* isRegistrableDomain: someone may own it.
IsRegistrable(host) ==
    host \notin PublicSuffixes /\ \E i \in 2..Len(host) : SubSeq(host, i, Len(host)) \in PublicSuffixes
\* grantedOriginsFor: the origin, and the one with or without "www" where it is an alias.
GrantedOriginsFor(o) ==
    LET bare == IF o.host[1] = "www" THEN Tail(o.host) ELSE o.host
        sibling == IF o.host[1] = "www" THEN bare ELSE <<"www">> \o o.host
    IN  IF o.scheme \notin {"http", "https"} THEN <<>>
        ELSE IF Len(o.host) > 1 /\ IsRegistrable(bare) THEN <<o, Origin(o.scheme, sibling, o.port)>>
        ELSE <<o>>
\* store.grantTaskOrigins: each for which there is room after those before it
Granting(held, origins) ==
    LET HasRoom(i) == Cardinality(held \cup {origins[j] : j \in 1..i - 1}) < GrantLimit
    IN  held \cup {origins[i] : i \in {k \in DOMAIN origins : HasRoom(k)}}

-----------------------------------------------------------------------------
(* What is observed, and what the call does *)

\* signalsFromObservation. The header's count alone, of an older computer, means a password.
Entries(page) == {c \in page.controls : c.role = "textbox"}
Marked(page) == page.counted # {} \/ page.marker
Kinds(page) == page.counted \ {"bare"}
PasswordField(page) ==
    \/ Marked(page) /\ (Kinds(page) = {} \/ "password" \in Kinds(page))
    \/ \E c \in Entries(page) : c.name = "password" /\ (c.active \/ Marked(page))
OtpField(page) == "otp" \in Kinds(page) \/ \E c \in Entries(page) : c.name = "code"
PaymentField(page) == \E c \in page.controls :
    c.name = "confirm payment" \/ (c.name = "card number" /\ c.role \notin {"button", "link"})
Sensitive(page) == PasswordField(page) \/ OtpField(page) \/ PaymentField(page)

\* inferSignalsFromCall, isEnterKey
PressesEnter(call) ==
    \/ call.tool = "browser_type" /\ call.does = "submit"
    \/ call.tool \in {"browser_press", "computer_key"} /\ call.does = "enter"
    \/ call.tool = "computer_type" /\ call.does = "newline"
Deletes(call) == \/ call.tool = "files_delete"
                 \/ call.tool \in {"shell_exec", "connector_call"} /\ call.does = "remove"
                 \/ call.tool = "browser_tabs" /\ call.does = "close"
Sends(call) == call.tool \in {"shell_exec", "connector_call"} /\ call.does = "send"

\* auditArguments: what is typed, by its length
AuditMasks(call, page) ==
    \/ call.tool = "browser_type"
    \/ call.tool \in {"computer_type", "browser_press", "computer_key"} /\ Sensitive(page)

-----------------------------------------------------------------------------
(* The decision *)

ReadTools == {"browser_snapshot", "browser_screenshot", "browser_wait", "files_list", "files_read",
              "takeover_status", "done", "request_takeover"}
ActTools == {"browser_click", "browser_type", "browser_press", "browser_select", "computer_mouse",
             "computer_key", "computer_type"}
IsActLike(tool) == tool \in ActTools \cup {"browser_upload", "browser_navigate"}
Opens(call) == call.tool = "browser_navigate" \/ (call.tool = "browser_tabs" /\ call.does = "new")

GateAllow == [is |-> "allow"]
GateDeny == [is |-> "deny"]
GateAsks(gate, o) == [is |-> "ask", gate |-> gate, origin |-> o]

\* What a task may write to: what it declares, or else the page it is on; and what was granted.
Writable(page, what, grants) ==
    {Exactly(o) : o \in grants} \cup
    (IF what.given THEN what.origins ELSE IF page.origin = AboutBlank THEN {} ELSE {Exactly(page.origin)})

\* The gates a call is for, in their order; those of a shell and a connector come after the
\* refusal of strict mode.
Early == <<"delete", "upload", "external_send", "payment", "new_domain">>
Late == <<"secret_entry", "external_send">>
EarlyGates(call, page, writable) ==
    {g \in {Early[i] : i \in DOMAIN Early} :
        \/ g = "delete" /\ Deletes(call)
        \/ g = "upload" /\ call.tool = "browser_upload"
        \/ g = "external_send" /\ Sends(call)
        \/ g = "payment" /\ page.checkout
        \/ g = "new_domain" /\ PressesEnter(call) /\ ~InSet(page.origin, writable)}
LateGates(call) ==
    {g \in {Late[i] : i \in DOMAIN Late} :
        \/ g = "secret_entry" /\ call.tool = "shell_exec" /\ call.does = "secret"
        \/ g = "external_send" /\ call.tool \in {"shell_exec", "connector_call"}}

\* approveOrDeny on each in turn: the first that is armed asks, and in strict mode a new
\* domain is refused, armed or not.
FirstAnswer(order, gates, how, on, page) ==
    LET hits == {i \in DOMAIN order : order[i] \in gates /\ (order[i] \in on \/ (how = "strict" /\ order[i] = "new_domain"))}
        first == order[CHOOSE i \in hits : \A j \in hits : i <= j]
    IN  IF hits = {} THEN GateAllow
        ELSE IF how = "strict" /\ first = "new_domain" THEN GateDeny ELSE GateAsks(first, page.origin)

EvaluateGate(call, page, how, what, grants, on, kill) ==
    LET writable == Writable(page, what, grants)
        early == FirstAnswer(Early, EarlyGates(call, page, writable), how, on, page)
        outside == how = "strict" /\ IsActLike(call.tool) /\ ~InSet(page.origin, writable)
    IN  IF kill THEN GateDeny
        ELSE IF call.tool = "browser_tabs" /\ call.does \in {"list", "select"} THEN GateAllow
        ELSE IF InSet(page.origin, TosBlocked) /\ IsActLike(call.tool) THEN GateDeny
        ELSE IF call.tool \in ReadTools \cup {"write_file"} THEN GateAllow
        ELSE IF Opens(call) THEN
            IF how = "strict" /\ call.url # AboutBlank /\ ~InSet(call.url, writable) THEN GateDeny ELSE GateAllow
        ELSE IF early # GateAllow THEN early
        ELSE IF outside THEN GateDeny ELSE FirstAnswer(Late, LateGates(call), how, on, page)

-----------------------------------------------------------------------------
(* A task's calls, a person's answers and settings *)

NothingTold == [is |-> "none"]
GateInit ==
    /\ mode \in {"supervised", "strict"} /\ declared \in Declarations
    /\ armed \in ArmedSets /\ killed = FALSE
    /\ granted = {} /\ always = {} /\ told = NothingTold

\* dispatch, and the call's record in the audit. A decision changes nothing: one is looked at.
GateDecides(call, page) ==
    /\ told = NothingTold
    /\ told' = [is |-> "told", call |-> call, page |-> page, masked |-> AuditMasks(call, page),
                says |-> EvaluateGate(call, page, mode, declared, granted, armed, killed)]
    /\ UNCHANGED <<mode, declared, armed, killed, granted, always>>
\* "Always for this task", on a card that offers it
AllowsForTask ==
    /\ told.is = "told" /\ told.says.is = "ask" /\ told.says.gate = "new_domain"
    /\ GrantedOriginsFor(told.says.origin) # <<>>
    /\ granted' = Granting(granted, GrantedOriginsFor(told.says.origin))
    /\ always' = always \cup {told.says.origin} /\ told' = NothingTold
    /\ UNCHANGED <<mode, declared, armed, killed>>
\* POST /api/v1/session: the gates that are on, the kill switch
SetsPolicy(on, kill) ==
    /\ armed' = on /\ killed' = kill /\ told' = NothingTold
    /\ UNCHANGED <<mode, declared, granted, always>>

GateNext ==
    \/ \E call \in ToolCalls, page \in Pages : GateDecides(call, page)
    \/ AllowsForTask
    \/ \E on \in ArmedSets, kill \in BOOLEAN : SetsPolicy(on, kill)
GateSpec == GateInit /\ [][GateNext]_gateVars

-----------------------------------------------------------------------------
(* Properties *)

Verdict(how, on) == EvaluateGate(told.call, told.page, how, declared, granted, on, killed)

\* The registrable domain: one label more than the longest public suffix
Owner(host) ==
    LET ends == {i \in 1..Len(host) : SubSeq(host, i, Len(host)) \in PublicSuffixes}
    IN  IF ends = {} \/ 1 \in ends THEN host
        ELSE SubSeq(host, (CHOOSE i \in ends : \A j \in ends : i <= j) - 1, Len(host))
\* The host without its "www", or with one where it has none
Alias(host) == IF host[1] = "www" THEN Tail(host) ELSE <<"www">> \o host
SameSite(o, p) ==
    /\ o.scheme = p.scheme /\ o.port = p.port
    /\ o.host = p.host \/ (o.host = Alias(p.host) /\ Owner(o.host) = Owner(p.host))

\* grantedOriginsFor, "Nothing wider is implied": whatever was allowed in whatever order, a
\* grant is of a site that a person said yes to, and never of another owner's.
GrantsStayHome == \A g \in granted : \E a \in always : SameSite(g, a)
\* "The next keystroke there is not a fresh question", nor is the redirect to the alias, as
\* long as grants have room.
AskedOnce ==
    told.is = "told" /\ told.says.is = "ask" /\ told.says.gate = "new_domain" /\ Cardinality(granted) < GrantLimit
        => ~\E a \in always : SameSite(told.says.origin, a)
\* Strict mode allows nothing that supervised mode would not, and acts only where it was told to
\* from the start, whatever is asked, answered and switched meanwhile.
StrictAllowsLess ==
    /\ told.is = "told" /\ Verdict("strict", armed) = GateAllow => Verdict("supervised", armed) = GateAllow
    /\ mode = "strict" => granted = {}
    /\ (mode = "strict" /\ declared.given /\ told.is = "told" /\ told.says = GateAllow)
         => /\ told.call.tool \in ActTools => InSet(told.page.origin, declared.origins)
            /\ Opens(told.call) => told.call.url = AboutBlank \/ InSet(told.call.url, declared.origins)
\* gate.ts: switched-off gates do not ask; "kill_switch / ToS deny are not in this list and
\* always evaluate". Fewer gates refuse what more of them refuse, and allow what they allow.
ArmingOnlyAsks == told.is = "told" =>
    /\ killed => told.says = GateDeny
    /\ \A on \in ArmedSets : on \subseteq armed =>
        /\ told.says = GateDeny => Verdict(mode, on) = GateDeny
        /\ told.says = GateAllow => Verdict(mode, on) = GateAllow
\* "Form submit / Enter - shared across equivalent primitives": whichever tool presses it
Enters == {c \in ToolCalls : c.does \in {"submit", "enter"} \/ (c.tool = "computer_type" /\ c.does = "newline")}
EntersAgree == told.is = "told" /\ told.call \in Enters =>
    \A other \in Enters :
        EvaluateGate(other, told.page, mode, declared, granted, armed, killed) = told.says
\* auditArguments: no event has what was typed where a secret is asked for.
SecretsAreMasked ==
    told.is = "told" /\ told.call.tool \in {"browser_type", "computer_type", "browser_press", "computer_key"}
    /\ (Marked(told.page) \/ \E c \in Entries(told.page) : c.active /\ c.name \in {"password", "code", "card number"})
        => told.masked
\* Asking, refusing and recording are as a person was told they are.
GateSafe == GrantsStayHome /\ AskedOnce /\ StrictAllowsLess /\ ArmingOnlyAsks /\ EntersAgree /\ SecretsAreMasked

-----------------------------------------------------------------------------
\* What is written of the code and is not so; no run lists these.

\* gate.ts, evaluateGate: "Equivalent primitives share this gate (click / press / coords / type)". Text
\* of browser_type that ends with a newline is typed key by key when slow, and is no Enter to it.
NewlineIsEnter == told.is = "told" /\ told.call.tool = "browser_type" /\ told.call.does = "newline" =>
    \A other \in {c \in ToolCalls : c.tool = "computer_type" /\ c.does = "newline"} :
        EvaluateGate(other, told.page, mode, declared, granted, armed, killed) = told.says
=============================================================================
