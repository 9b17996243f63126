------------------------------- MODULE Remotes -------------------------------
(***************************************************************************)
(* Remote deployments (src/deploy, cli/deploy.ts): one deployment name,    *)
(* its record on this machine, the SSH hosts it may be put on, the cloud's *)
(* servers and firewalls. A command does one step after the other; every   *)
(* step may fail, and the command may die between two.                     *)
(*                                                                         *)
(* The cloud is external: what it does is what the client's requests and   *)
(* the answers the code handles say of it. One command at a time.          *)
(***************************************************************************)
EXTENDS Naturals, FiniteSets

CONSTANTS
    SshHosts,  \* prepared hosts
    DeployBound, ServerBound, RebootBound  \* bounds: commands; servers made; reboots of a server

ASSUME RemotesAssumption == {DeployBound, ServerBound, RebootBound} \subseteq Nat

VARIABLES
    remote,    \* the record in ~/.modelbot/remotes
    hosts,     \* of each SSH host: package in the cache, installed, serving; the unit
    servers,   \* of each server made: its status; the firewall it was made with
    firewalls, \* firewalls that exist
    command,   \* the command under way
    deploys, reboots  \* bounded counters

remoteVars == <<remote, hosts, servers, firewalls, command, deploys, reboots>>

NoRemote == [provider |-> "none"]
NoCommand == [at |-> "none"]
HostBare == [cached |-> 0, installed |-> 0, serving |-> 0, unit |-> FALSE]
RemotesInit ==
    /\ remote = NoRemote /\ hosts = [h \in SshHosts |-> HostBare] /\ servers = <<>> /\ firewalls = {}
    /\ command = NoCommand /\ deploys = 0 /\ reboots = 0

HostAt(step) == command.at = step
Exists(s) == s \in DOMAIN servers /\ servers[s].status # "gone"
Keep == UNCHANGED <<deploys, reboots>>
\* HetznerClient.request: done, and answered or not
Request(next) == command' \in {next, NoCommand}
\* saveRemoteState, the last step of a deployment
SaveRemoteState(r) == remote' = r /\ command' = NoCommand
-----------------------------------------------------------------------------
\* runDeploy: one command after the other, each to its end
RunDeploy == HostAt("none") /\ deploys < DeployBound /\ deploys' = deploys + 1
\* runDeploy, SshProvider.deploy: a name that belongs to another target is refused.
DeploysToHost(h) ==
    /\ RunDeploy
    /\ remote = NoRemote \/ (remote.provider = "ssh" /\ remote.host = h)
    /\ command' = [at |-> "preflight", host |-> h, package |-> deploys + 1]
    /\ UNCHANGED <<remote, hosts, servers, firewalls, reboots>>
\* HetznerProvider.deploy: a server on record is asked about first.
DeploysToCloud ==
    /\ RunDeploy
    /\ command' = [at |-> IF remote.provider = "hetzner" THEN "look" ELSE "firewall"]
    /\ UNCHANGED <<remote, hosts, servers, firewalls, reboots>>
\* destroyRemote
Destroys ==
    /\ HostAt("none") /\ remote # NoRemote
    /\ command' = [at |-> IF remote.provider = "ssh" THEN "stop unit" ELSE "delete server"]
    /\ UNCHANGED <<remote, hosts, servers, firewalls>> /\ Keep
\* A step fails before it did anything, or the process dies.
HostFails ==
    /\ ~HostAt("none") /\ command' = NoCommand
    /\ UNCHANGED <<remote, hosts, servers, firewalls>> /\ Keep

-----------------------------------------------------------------------------
\* planSshSteps. Step by step: what each does to the host and which comes next.
HostAfter == [preflight |-> "copy", copy |-> "install", install |-> "unit", unit |-> "restart", restart |-> "save"]
HostStep(step, state) ==
    /\ HostAt(step) /\ hosts' = [hosts EXCEPT ![command.host] = state]
    /\ command' = [command EXCEPT !.at = HostAfter[step]]
    /\ UNCHANGED <<remote, servers, firewalls>> /\ Keep
Preflight == HostAt("preflight") /\ HostStep("preflight", hosts[command.host])
Copies == HostAt("copy") /\ HostStep("copy", [hosts[command.host] EXCEPT !.cached = command.package])
Installs == HostAt("install") /\ HostStep("install", [hosts[command.host] EXCEPT !.installed = hosts[command.host].cached])
\* init-config and configure-origin, which keep what is there; the unit
WritesUnit == HostAt("unit") /\ HostStep("unit", [hosts[command.host] EXCEPT !.unit = TRUE])
\* Restart, then healthz
HostRestarts == HostAt("restart") /\ HostStep("restart", [hosts[command.host] EXCEPT !.serving = hosts[command.host].installed])
\* The service was restarted and does not answer within thirty seconds.
RestartFails ==
    /\ HostAt("restart") /\ hosts' = [hosts EXCEPT ![command.host].serving = 0] /\ command' = NoCommand
    /\ UNCHANGED <<remote, servers, firewalls>> /\ Keep
\* saveRemoteState, after the steps that serve it on the tailnet
SavesHost ==
    /\ HostAt("save") /\ SaveRemoteState([provider |-> "ssh", host |-> command.host])
    /\ UNCHANGED <<hosts, servers, firewalls>> /\ Keep
\* SshProvider.destroy: disable --now fails for a unit that is not there.
StopsUnit ==
    /\ HostAt("stop unit") /\ hosts[remote.host].unit
    /\ hosts' = [hosts EXCEPT ![remote.host].serving = 0] /\ command' = [at |-> "remove unit"]
    /\ UNCHANGED <<remote, servers, firewalls>> /\ Keep
RemovesUnit ==
    /\ HostAt("remove unit") /\ hosts' = [hosts EXCEPT ![remote.host].unit = FALSE] /\ command' = [at |-> "forget"]
    /\ UNCHANGED <<remote, servers, firewalls>> /\ Keep

-----------------------------------------------------------------------------
\* A server on record that runs or is off is left as it is; of one that is gone
\* the record is stale. So it is, to the code, of one in any other status.
HostLooksUp ==
    /\ HostAt("look")
    /\ command' = IF servers[remote.server].status \in {"running", "off"} THEN NoCommand ELSE [at |-> "firewall"]
    /\ UNCHANGED <<remote, hosts, servers, firewalls>> /\ Keep
\* The id that the cloud answers createFirewall with: no other's.
FreshFirewall ==
    CHOOSE f \in 1..(2 * ServerBound) : f \notin firewalls \cup {servers[s].firewall : s \in DOMAIN servers}
\* createFirewall, after the key. The answer may be lost: then the command fails.
MakesFirewall ==
    /\ HostAt("firewall") /\ Cardinality(firewalls) < ServerBound
    /\ firewalls' = firewalls \cup {FreshFirewall}
    /\ Request([at |-> "server", firewall |-> FreshFirewall])
    /\ UNCHANGED <<remote, hosts, servers>> /\ Keep
\* createServer: behind the firewall it names, not running yet
CreateServer(s) ==
    [t \in DOMAIN servers \cup {s} |->
        IF t = s THEN [status |-> "initializing", firewall |-> command.firewall] ELSE servers[t]]
MakesServer ==
    /\ HostAt("server") /\ Cardinality(DOMAIN servers) < ServerBound
    /\ LET s == Cardinality(DOMAIN servers) + 1 IN
       /\ servers' = CreateServer(s)
       /\ Request([at |-> "wait", firewall |-> command.firewall, server |-> s])
    /\ UNCHANGED <<remote, hosts, firewalls>> /\ Keep
WaitUntilRunning == HostAt("wait") /\ servers[command.server].status = "running"
\* waitUntilRunning; the record of the server. From the command line the SSH
\* steps of a cloud deployment are printed and not run (runner).
SavesServer ==
    /\ WaitUntilRunning
    /\ SaveRemoteState([provider |-> "hetzner", server |-> command.server, firewall |-> command.firewall])
    /\ UNCHANGED <<hosts, servers, firewalls>> /\ Keep
\* HetznerProvider.destroy: a server that is not there counts as deleted. The
\* answer to a deletion may be lost too: then the command fails.
DeletesServer ==
    /\ HostAt("delete server") /\ Request([at |-> "delete firewall"])
    /\ servers' = [s \in DOMAIN servers |->
                     IF s = remote.server /\ Exists(s) THEN [servers[s] EXCEPT !.status = "deleting"] ELSE servers[s]]
    /\ UNCHANGED <<remote, hosts, firewalls>> /\ Keep
\* A bug: a firewall that cannot be deleted is left behind.
LeavesFirewall ==
    /\ HostAt("delete firewall") /\ command' = [at |-> "forget"]
    /\ firewalls' = IF \E s \in DOMAIN servers : Exists(s) /\ servers[s].firewall = remote.firewall
                    THEN firewalls ELSE firewalls \ {remote.firewall}
    /\ UNCHANGED <<remote, hosts, servers>> /\ Keep
\* A firewall is in use until the server it was made with is gone.
DeletesFirewall ==
    /\ HostAt("delete firewall") /\ ~\E s \in DOMAIN servers : Exists(s) /\ servers[s].firewall = remote.firewall
    /\ firewalls' = firewalls \ {remote.firewall} /\ Request([at |-> "forget"])
    /\ UNCHANGED <<remote, hosts, servers>> /\ Keep
\* deleteRemoteState
Forgets ==
    /\ HostAt("forget") /\ remote' = NoRemote /\ command' = NoCommand
    /\ UNCHANGED <<hosts, servers, firewalls>> /\ Keep

-----------------------------------------------------------------------------
\* The cloud: a server starts, is turned off, starts again, is deleted in its console.
HostMoves == [initializing |-> {"running"}, running |-> {"stopping", "deleting"}, stopping |-> {"off"},
          off |-> {"starting"}, starting |-> {"running"}, deleting |-> {"gone"}, gone |-> {}]
CloudMoves(s) ==
    /\ s \in DOMAIN servers /\ \E to \in HostMoves[servers[s].status] :
         /\ servers' = [servers EXCEPT ![s].status = to]
         /\ IF servers[s].status = "running" THEN reboots < RebootBound /\ reboots' = reboots + 1 ELSE UNCHANGED reboots
    /\ UNCHANGED <<remote, hosts, firewalls, command, deploys>>

RemotesNext ==
    \/ \E h \in SshHosts : DeploysToHost(h)
    \/ DeploysToCloud \/ Destroys \/ HostFails
    \/ Preflight \/ Copies \/ Installs \/ WritesUnit \/ HostRestarts \/ RestartFails \/ SavesHost
    \/ StopsUnit \/ RemovesUnit
    \/ HostLooksUp \/ MakesFirewall \/ MakesServer \/ SavesServer \/ DeletesServer \/ DeletesFirewall \/ Forgets
    \/ \E s \in 1..ServerBound : CloudMoves(s)
RemotesSpec == RemotesInit /\ [][RemotesNext]_remoteVars

RemotesTypeOK ==
    /\ remote.provider \in {"none", "ssh", "hetzner"} /\ firewalls \subseteq Nat
    /\ hosts \in [SshHosts -> [cached : Nat, installed : Nat, serving : Nat, unit : BOOLEAN]]
    /\ \A s \in DOMAIN servers : servers[s].status \in DOMAIN HostMoves /\ servers[s].firewall \in Nat

\* hetzner.ts, destroy; cli/deploy.ts, "deleted": over failures, lost answers
\* and repeated commands, a cloud deployment is forgotten only once its server
\* is on its way out and its firewall is gone, so that nothing goes on being paid for.
DestroyedIsGone ==
    [][(remote.provider = "hetzner" /\ remote' = NoRemote) =>
         /\ servers'[remote.server].status \in {"deleting", "gone"}
         /\ remote.firewall \notin firewalls']_remoteVars
\* ssh.ts, planSshSteps; docs/REMOTE-DEPLOY.md:47, 49: a deployment to a host
\* that is recorded serves the package it brought, whatever failed there before.
UpdateTakesEffect ==
    [][\A h \in SshHosts : (remote' = [provider |-> "ssh", host |-> h] /\ HostAt("save")) =>
         hosts'[h].serving = command.package]_remoteVars

-----------------------------------------------------------------------------
\* What is written of the code and is not so; no run lists these.

\* hetzner.ts:326, "stale state"; cli/deploy.ts:112, "idempotent skip create":
\* a server that was put on record is not forgotten while it exists.
NothingForgotten ==
    [][\A s \in DOMAIN servers : (remote.provider = "hetzner" /\ remote.server = s /\ Exists(s)
                                  /\ servers[s].status # "deleting")
         => (remote'.provider = "hetzner" /\ remote'.server = s)]_remoteVars
=============================================================================
