----------------------------- MODULE Connectors -----------------------------
(***************************************************************************)
(* The broker of one MCP connector (daemon/connectors.ts) and its client   *)
(* (mcp/client.ts): the session, what was discovered, which tools the      *)
(* operator approved of which manifest, the file that keeps it, and        *)
(* requests that overlap at every await. The server may change its tools   *)
(* whenever it likes.                                                      *)
(***************************************************************************)
EXTENDS Naturals, FiniteSets

CONSTANTS
    Manifests, ToolsOf,  \* lists of tools a server may offer; the tools of each
    BrokerRequests,            \* requests that overlap
    ChangeBound, AskBound, RestartBound  \* bounds

ASSUME ConnectorAssumption == {ChangeBound, AskBound, RestartBound} \subseteq Nat

VARIABLES
    server,      \* what the server offers
    brokerSession,     \* whether the broker keeps a client
    clients,     \* clients that are open
    discovered,  \* the manifest of the last answer that was read
    approvals, disk,  \* approved tools, with the manifest's digest; in memory, in the file
    request,     \* of each request: what it is for, where it is, what it read
    dropped,     \* the approval was taken back and not given again
    changes, asks, restarts  \* bounded counters

connectorVars == <<server, brokerSession, clients, discovered, approvals, disk, request, dropped, changes, asks, restarts>>

Unknown == "unknown"
NoApproval == [digest |-> Unknown, tools |-> {}]
NoRequest == [for |-> "none", at |-> "none"]
AllTools == UNION {ToolsOf[m] : m \in Manifests}
ConnectorInit ==
    /\ server \in Manifests /\ brokerSession = FALSE /\ clients = 0 /\ discovered = Unknown
    /\ approvals = NoApproval /\ disk = NoApproval /\ request = [r \in BrokerRequests |-> NoRequest]
    /\ dropped = FALSE /\ changes = 0 /\ asks = 0 /\ restarts = 0

RequestAt(r, step) == request[r].at = step
To(r, step) == [request EXCEPT ![r].at = step]
Ended(r) == [request EXCEPT ![r] = NoRequest]
\* What is to be done once the tools are known
Known(r) == IF request[r].for = "discover" THEN Ended(r) ELSE To(r, request[r].for)
\* handleApi: a request of the settings page or of a task
Arrives(r) == RequestAt(r, "none") /\ asks < AskBound /\ asks' = asks + 1
BrokerAsks(r, req) ==
    /\ Arrives(r) /\ request' = [request EXCEPT ![r] = req]
    /\ UNCHANGED <<server, brokerSession, clients, discovered, approvals, disk, dropped, changes, restarts>>
-----------------------------------------------------------------------------
\* discover, approve, call: the last two discover first when nothing is known.
Discover(r) == BrokerAsks(r, [for |-> "discover", at |-> "session"])
Approve(r, tools) ==
    BrokerAsks(r, [for |-> "approve", at |-> IF discovered = Unknown THEN "session" ELSE "approve", tools |-> tools])
BrokerCall(r, tool) ==
    BrokerAsks(r, [for |-> "call", at |-> IF discovered = Unknown THEN "session" ELSE "call", tools |-> {tool}])
\* ensureSession. Two that find none both connect; the later one is kept.
HasSession(r) ==
    /\ RequestAt(r, "session") /\ request' = To(r, IF brokerSession THEN "list" ELSE "connect")
    /\ UNCHANGED <<server, brokerSession, clients, discovered, approvals, disk, dropped, changes, asks, restarts>>
\* ConnectorMcpClient.connectStdio, connectHttp
OpensClient == clients' = clients + 1
Connects(r) ==
    /\ RequestAt(r, "connect") /\ OpensClient /\ brokerSession' = TRUE /\ request' = To(r, "list")
    /\ UNCHANGED <<server, discovered, approvals, disk, dropped, changes, asks, restarts>>
\* The server answers, with what it offers then.
Lists(r) ==
    /\ RequestAt(r, "list")
    /\ request' = [request EXCEPT ![r] = [for |-> @.for, at |-> "listed", manifest |-> server,
                                          tools |-> IF @.for = "discover" THEN {} ELSE @.tools]]
    /\ UNCHANGED <<server, brokerSession, clients, discovered, approvals, disk, dropped, changes, asks, restarts>>
\* A timeout, a connection that fails
BrokerFails(r) ==
    /\ request[r].at \in {"connect", "list", "sent"} /\ request' = Ended(r)
    /\ UNCHANGED <<server, brokerSession, clients, discovered, approvals, disk, dropped, changes, asks, restarts>>
Changed(r) == approvals # NoApproval /\ approvals.digest # request[r].manifest
\* discover: the answer is read; an approval of another manifest is taken back.
Discovers(r) ==
    /\ RequestAt(r, "listed") /\ discovered' = request[r].manifest
    /\ IF Changed(r)
       THEN approvals' = NoApproval /\ dropped' = TRUE /\ request' = To(r, "save")
       ELSE request' = Known(r) /\ UNCHANGED <<approvals, dropped>>
    /\ UNCHANGED <<server, brokerSession, clients, disk, changes, asks, restarts>>
\* approve: names the manifest does not have are left out.
Approves(r) ==
    /\ RequestAt(r, "approve")
    /\ approvals' = [digest |-> discovered, tools |-> request[r].tools \cap ToolsOf[discovered]]
    /\ dropped' = FALSE /\ request' = [request EXCEPT ![r].for = "discover", ![r].at = "save"]
    /\ UNCHANGED <<server, brokerSession, clients, discovered, disk, changes, asks, restarts>>
\* saveApprovals: what is written is what memory holds when the directory is
\* there; two writes end in either order.
Saves(r) ==
    /\ RequestAt(r, "save") /\ request' = [request EXCEPT ![r] = [for |-> @.for, at |-> "write", tools |-> @.tools, snapshot |-> approvals]]
    /\ UNCHANGED <<server, brokerSession, clients, discovered, approvals, disk, dropped, changes, asks, restarts>>
Written(r) ==
    /\ RequestAt(r, "write") /\ disk' = request[r].snapshot /\ request' = Known(r)
    /\ UNCHANGED <<server, brokerSession, clients, discovered, approvals, dropped, changes, asks, restarts>>
\* viewOf: the status is approved
Matched == approvals # NoApproval /\ approvals.digest = discovered
Approved(r) == Matched /\ request[r].tools \subseteq approvals.tools
\* call
BrokerSends(r) ==
    /\ RequestAt(r, "call") /\ request' = IF Approved(r) THEN To(r, "sent") ELSE Ended(r)
    /\ UNCHANGED <<server, brokerSession, clients, discovered, approvals, disk, dropped, changes, asks, restarts>>
Returns(r) ==
    /\ RequestAt(r, "sent") /\ request' = Ended(r)
    /\ UNCHANGED <<server, brokerSession, clients, discovered, approvals, disk, dropped, changes, asks, restarts>>
-----------------------------------------------------------------------------
ServerChanges ==
    /\ changes < ChangeBound /\ changes' = changes + 1 /\ server' \in Manifests \ {server}
    /\ UNCHANGED <<brokerSession, clients, discovered, approvals, disk, request, dropped, asks, restarts>>
\* loadApprovals: a file that was cut while it was written counts as none.
Loaded == {disk} \cup (IF \E r \in BrokerRequests : RequestAt(r, "write") THEN {NoApproval} ELSE {})
\* close, then init: only the file is left. Clients nobody keeps end with the process.
Restarts ==
    /\ restarts < RestartBound /\ restarts' = restarts + 1
    /\ brokerSession' = FALSE /\ clients' = 0 /\ discovered' = Unknown /\ approvals' \in Loaded /\ disk' = approvals'
    /\ request' = [r \in BrokerRequests |-> NoRequest] /\ dropped' = FALSE
    /\ UNCHANGED <<server, changes, asks>>

ConnectorNext ==
    \/ \E r \in BrokerRequests :
         \/ Discover(r) \/ (\E tools \in SUBSET AllTools : Approve(r, tools)) \/ (\E t \in AllTools : BrokerCall(r, t))
         \/ HasSession(r) \/ Connects(r) \/ Lists(r) \/ BrokerFails(r) \/ Discovers(r) \/ Approves(r)
         \/ Saves(r) \/ Written(r) \/ BrokerSends(r) \/ Returns(r)
    \/ ServerChanges \/ Restarts
ConnectorSpec == ConnectorInit /\ [][ConnectorNext]_connectorVars

ConnectorTypeOK ==
    /\ server \in Manifests /\ {brokerSession, dropped} \subseteq BOOLEAN /\ clients \in Nat
    /\ discovered \in Manifests \cup {Unknown}
    /\ {approvals.digest, disk.digest} \subseteq Manifests \cup {Unknown}
    /\ {approvals.tools, disk.tools} \subseteq SUBSET AllTools

\* connectors.ts, discover; EXTENDING.md:77: while a daemon runs, a manifest that
\* was seen to change is called only after a new approval, even when the server
\* goes back to the tools that were approved before, and whatever overlaps.
ReconsentAfterChange == [][\A r \in BrokerRequests : (RequestAt(r, "call") /\ request'[r].at = "sent") => ~dropped]_connectorVars

-----------------------------------------------------------------------------
\* What is written of the code and is not so; no run lists these.

\* SECURITY.md:38, "re-consent on any byte change": a tool runs only while the server offers what
\* was approved. Nothing asks the server again after the first answer.
PinHolds == [][\A r \in BrokerRequests : (RequestAt(r, "call") /\ request'[r].at = "sent") => approvals.digest = server]_connectorVars

\* saveApprovals: once no request is under way, the file holds what memory holds. Two saves may
\* end in either order.
FileIsMemory == (\A r \in BrokerRequests : RequestAt(r, "none")) => disk = approvals

\* ensureSession: one client of a connector at a time. Two requests that find none both connect.
OneClient == clients <= 1
=============================================================================
