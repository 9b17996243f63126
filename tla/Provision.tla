------------------------------ MODULE Provision ------------------------------
(***************************************************************************)
(* Building a computer out of Docker's parts: its subnet, its network, its *)
(* containers and volumes (sandbox/lifecycle.ts, flags.ts), or by one      *)
(* command of Docker's compose (compose.ts), for computers built at the    *)
(* same time by the daemon and the command line, which may die between any *)
(* two commands.                                                           *)
(*                                                                         *)
(* A subnet is the one octet of it that varies.  The commands' flags are   *)
(* fixed; Computers has what wakes, pauses and forbids these jobs.         *)
(***************************************************************************)
EXTENDS Naturals, FiniteSets

CONSTANTS
    Names,         \* the computers
    Octets,        \* OCTET_COUNT: the subnets are 1..Octets
    Hashed,        \* hashPreferredOctet
    BuildBound,    \* bound: rebuilds of the images
    OverlapBound,  \* bound: networks of others, and daemons that die
    JobBound       \* bound: jobs

ASSUME ProvisionAssumption ==
    /\ {Octets, BuildBound, OverlapBound, JobBound} \subseteq Nat
    /\ Hashed \in [Names -> 1..Octets]

Role == {"proxy", "browser", "shell"}

VARIABLES
    plan,     \* internal-dns.json of each computer, 0 for none
    net,      \* the subnet of its network in Docker, 0 for none
    taken,    \* subnets of networks that are not ours
    boxes,    \* its containers: the build they are of, 0 for none, and whether they run
    profile,  \* the generation of its profile volume, 0 for none
    composed, \* the computers whose network compose has made: no other's are its
    image,    \* the build the tags name
    job,      \* what is being done with it
    overlaps, jobs \* bounded counters

provisionVars == <<plan, net, taken, boxes, profile, composed, image, job, overlaps, jobs>>

NoBox == [built |-> 0, up |-> FALSE]
Bare == [r \in Role |-> NoBox]
NoJob == [kind |-> "none", at |-> "none", used |-> {}, dns |-> 0, saw |-> 0]
ProvisionInit ==
    /\ plan = [c \in Names |-> 0] /\ net = [c \in Names |-> 0] /\ taken = {}
    /\ boxes = [c \in Names |-> Bare] /\ profile = [c \in Names |-> 0] /\ composed = {} /\ image = 1
    /\ job = [c \in Names |-> NoJob] /\ overlaps = 0 /\ jobs = 0

\* internalDnsPlan: the hash's octet, else the next one round that is free
Free(used) == (1..Octets) \ used
After(c, o) == (o + Octets - Hashed[c]) % Octets
FirstFree(c, used) == CHOOSE o \in Free(used) : \A p \in Free(used) : After(c, o) <= After(c, p)
\* Docker refuses a subnet some network has.
Overlaps(o) == o \in taken \/ \E c \in Names : net[c] = o
NetAt(c, kinds, step) == job[c].kind \in kinds /\ job[c].at = step
NetGoes(c, step) == job' = [job EXCEPT ![c].at = step]
Building == {"create", "refresh", "forget"}
Planning == Building \cup {"compose"}
Removing == {"forget", "destroy", "down"}
Over(c) == job' = [job EXCEPT ![c] = NoJob]

-----------------------------------------------------------------------------
\* computerImageDrifted
Drifted(c) == \E r \in Role : boxes[c][r].built \notin {0, image}
\* createComputer, refreshComputerImage, forgetComputerLogins, destroyComputer;
\* createComputerCompose, destroyComputerCompose. The two ways of building are not
\* mixed on one computer: what compose says of parts it did not make is not in this code.
NetBegins(c, kind) ==
    /\ job[c] = NoJob /\ jobs < JobBound /\ jobs' = jobs + 1
    /\ kind = "refresh" => Drifted(c)
    /\ kind = "compose" => c \in composed \/ (net[c] = 0 /\ boxes[c] = Bare)
    /\ kind = "down" => c \in composed
    /\ kind \in Building => c \notin composed
    /\ job' = [job EXCEPT ![c] = [NoJob EXCEPT !.kind = kind, !.saw = image,
                 !.at = IF kind \in Removing THEN "remove" ELSE "probe"]]
    /\ UNCHANGED <<composed, plan, net, taken, boxes, profile, image, overlaps>>
\* keepProfile: a wipe does not, destroyComputer does, compose down is told
Keeps(kind) == CASE kind = "forget" -> {FALSE} [] kind = "destroy" -> {TRUE} [] kind = "down" -> BOOLEAN
\* destroyComputer, compose down: containers, networks, and for a wipe the profile
Removes(c) ==
    /\ NetAt(c, Removing, "remove")
    /\ \/ /\ \E r \in Role : boxes[c][r] # NoBox /\ boxes' = [boxes EXCEPT ![c][r] = NoBox]
          /\ UNCHANGED <<net, profile, composed, job>>
       \/ /\ boxes[c] = Bare /\ net' = [net EXCEPT ![c] = 0] /\ composed' = composed \ {c}
          /\ IF job[c].kind = "forget" THEN NetGoes(c, "probe") ELSE Over(c)
          /\ profile' \in {IF k THEN profile ELSE [profile EXCEPT ![c] = 0] : k \in Keeps(job[c].kind)}
          /\ UNCHANGED boxes
    /\ UNCHANGED <<plan, taken, image, overlaps, jobs>>
\* probeUsedInternalSubnets: what Docker's networks have
Probes(c) ==
    /\ NetAt(c, Planning, "probe")
    /\ job' = [job EXCEPT ![c].at = "plan", ![c].used = taken \cup {net[d] : d \in Names}]
    /\ UNCHANGED <<composed, plan, net, taken, boxes, profile, image, overlaps, jobs>>
\* collectPersistedInternalSubnets, resolveInternalDnsPlan: its own file is kept
\* unless the subnet is another's, and else a new one is written.
Plans(c) ==
    /\ NetAt(c, Planning, "plan")
    /\ LET used == (job[c].used \cup {plan[d] : d \in Names}) \ {plan[c]} IN
       IF plan[c] # 0
       THEN job' = [job EXCEPT ![c].at = "network", ![c].used = used, ![c].dns = plan[c]] /\ UNCHANGED plan
       ELSE IF Free(used) = {} THEN Over(c) /\ UNCHANGED plan
       ELSE /\ plan' = [plan EXCEPT ![c] = FirstFree(c, used)]
            /\ job' = [job EXCEPT ![c].at = "network", ![c].used = used, ![c].dns = plan'[c]]
    /\ UNCHANGED <<composed, net, taken, boxes, profile, image, overlaps, jobs>>
\* forceAllocateInternalDnsPlan, when Docker says that pools overlap
Forced(c) ==
    LET used == job[c].used \cup {job[c].dns} IN
    IF Free(used) = {} THEN Over(c) /\ UNCHANGED plan
    ELSE /\ plan' = [plan EXCEPT ![c] = FirstFree(c, used)]
         /\ job' = [job EXCEPT ![c].at = "again", ![c].used = used, ![c].dns = plan'[c]]
\* networkCreateArgs: a network of that name is as good as a new one.
MakesNetwork(c) ==
    /\ \/ NetAt(c, Building, "network") \/ NetAt(c, Building, "again")
    /\ IF net[c] # 0 \/ ~Overlaps(job[c].dns)
       THEN /\ net' = [net EXCEPT ![c] = IF @ = 0 THEN job[c].dns ELSE @]
            /\ profile' = [profile EXCEPT ![c] = IF @ = 0 THEN 1 ELSE @]
            /\ NetGoes(c, "proxy") /\ UNCHANGED plan
       ELSE /\ IF job[c].at = "network" THEN Forced(c) ELSE Over(c) /\ UNCHANGED plan
            /\ UNCHANGED <<net, profile>>
    /\ UNCHANGED <<composed, taken, boxes, image, overlaps, jobs>>
\* buildComposeSpec: every container of the image the tags name now, running
Composed == [r \in Role |-> [built |-> image, up |-> TRUE]]
\* runCompose, up: all of it, unless pools overlap; once more with another subnet
ComposeUp(c) ==
    /\ \/ NetAt(c, {"compose"}, "network") \/ NetAt(c, {"compose"}, "again")
    /\ IF net[c] = job[c].dns \/ (net[c] = 0 /\ ~Overlaps(job[c].dns))
       THEN /\ net' = [net EXCEPT ![c] = job[c].dns] /\ composed' = composed \cup {c}
            /\ profile' = [profile EXCEPT ![c] = IF @ = 0 THEN 1 ELSE @]
            /\ boxes' = [boxes EXCEPT ![c] = Composed] /\ NetGoes(c, "ready") /\ UNCHANGED plan
       ELSE /\ IF job[c].at = "network" THEN Forced(c) ELSE Over(c) /\ UNCHANGED plan
            /\ UNCHANGED <<net, profile, composed, boxes>>
    /\ UNCHANGED <<taken, image, overlaps, jobs>>
NextRole(r) == CASE r = "proxy" -> "browser" [] r = "browser" -> "shell" [] r = "shell" -> "start"
\* rm -f, then create; the proxy is connected at its address of the plan.
Makes(c, r) ==
    /\ NetAt(c, Building, r)
    /\ \/ /\ boxes[c][r] # NoBox /\ boxes' = [boxes EXCEPT ![c][r] = NoBox] /\ UNCHANGED job
       \/ /\ boxes[c][r] = NoBox
          /\ boxes' = [boxes EXCEPT ![c][r] = [built |-> image, up |-> FALSE]]
          /\ IF r = "proxy" /\ job[c].dns # net[c] THEN Over(c) ELSE NetGoes(c, NextRole(r))
    /\ UNCHANGED <<composed, plan, net, taken, profile, image, overlaps, jobs>>
\* startComputer: a container that is not there is passed over.
NetStarts(c) ==
    /\ NetAt(c, Building, "start") /\ NetGoes(c, "ready")
    /\ boxes' = [boxes EXCEPT ![c] = [r \in Role |-> IF @[r].built = 0 THEN @[r] ELSE [@[r] EXCEPT !.up = TRUE]]]
    /\ UNCHANGED <<composed, plan, net, taken, profile, image, overlaps, jobs>>
NetAnswers(c) ==
    /\ NetAt(c, Planning, "ready") /\ Over(c)
    /\ UNCHANGED <<composed, plan, net, taken, boxes, profile, image, overlaps, jobs>>

\* The process that builds it dies between two commands, or a command fails.
NetDies(c) ==
    /\ job[c] # NoJob /\ overlaps < OverlapBound /\ overlaps' = overlaps + 1 /\ Over(c)
    /\ UNCHANGED <<composed, plan, net, taken, boxes, profile, image, jobs>>
OthersTake(o) ==
    /\ ~Overlaps(o) /\ overlaps < OverlapBound /\ overlaps' = overlaps + 1
    /\ taken' = taken \cup {o}
    /\ UNCHANGED <<composed, plan, net, boxes, profile, image, job, jobs>>
Rebuilt ==
    /\ image < BuildBound /\ image' = image + 1
    /\ UNCHANGED <<composed, plan, net, taken, boxes, profile, job, overlaps, jobs>>

-----------------------------------------------------------------------------
ProvisionNext ==
    \/ \E c \in Names, k \in Planning \cup Removing : NetBegins(c, k)
    \/ \E c \in Names : \/ Removes(c) \/ Probes(c) \/ Plans(c) \/ MakesNetwork(c) \/ ComposeUp(c)
                        \/ NetStarts(c) \/ NetAnswers(c) \/ NetDies(c)
    \/ \E c \in Names, r \in Role : Makes(c, r)
    \/ \E o \in 1..Octets : OthersTake(o)
    \/ Rebuilt
ProvisionSpec == ProvisionInit /\ [][ProvisionNext]_provisionVars

ProvisionTypeOK ==
    /\ plan \in [Names -> 0..Octets] /\ net \in [Names -> 0..Octets] /\ taken \subseteq 1..Octets
    /\ boxes \in [Names -> [Role -> [built : Nat, up : BOOLEAN]]] /\ profile \in [Names -> Nat] /\ composed \subseteq Names
    /\ image \in Nat /\ overlaps \in Nat /\ jobs \in Nat
    /\ job \in [Names -> [kind : Planning \cup Removing \cup {"none"}, used : SUBSET (0..Octets), dns : 0..Octets,
                          saw : Nat, at : Role \cup {"none", "remove", "probe", "plan", "network", "again",
                                                    "start", "ready"}]]

\* flags.ts, lifecycle.ts: what is written down of a computer is what Docker has of
\* it, whoever took the subnet meanwhile and wherever a build was cut off: else its
\* proxy is asked for at an address its network has not got, at every rebuild.
PlanIsTheNetwork == \A c \in Names : net[c] # 0 => plan[c] = net[c]
\* lifecycle.ts, refreshComputerImage: a build that answers has left no container of
\* an image older than the one it began with, and all of them running.
BuiltIsNew == \A c \in Names : job[c].at = "ready" =>
    \A r \in Role : boxes[c][r].built >= job[c].saw /\ boxes[c][r].up
=============================================================================
