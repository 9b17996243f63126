------------------------------- MODULE MCHost -------------------------------
(***************************************************************************)
(* What the program keeps of the machine and its accounts, side by side:   *)
(* the tabs of the browser, the proxy, the building of computers, vaults   *)
(* and the audit log, remote deployments, the sign-ins of providers,       *)
(* connectors, and the shell over the daemon.  They share no variable;     *)
(* "part" says which of them a behaviour is about, the others rest in one  *)
(* first state.                                                            *)
(***************************************************************************)
EXTENDS BrowserTabs, Egress, Destinations, Provision, Vault, AuditLog, Remotes, Connections, Connectors,
        Supervisor, Files

VARIABLE part
hostVars == <<part, tabVars, egressVars, destinationVars, provisionVars, vaultVars, auditVars, remoteVars,
              loginVars, connectorVars, supervisorVars, filesVars>>

OutAndTop == {<<"f">>, <<"out", "f">>, <<"out", "d", "f">>}
SameHash == [c \in Names |-> 1]
TwoManifests == {"m1", "m2"}
Offered == [m1 |-> {"t1"}, m2 |-> {"t1", "t2"}]

\* V4_DENY and V6_DENY of policy.ts.
Range4(a, b, c, bits) == [base |-> <<a, b, c, 0>>, bits |-> bits]
Range6(left, bits) == [base |-> Ipv6Bytes(AddressWords(left, TRUE, <<>>)), bits |-> bits]
DefaultDeny ==
    {Range4(0, 0, 0, 8), Range4(10, 0, 0, 8), Range4(100, 64, 0, 10), Range4(127, 0, 0, 8), Range4(169, 254, 0, 16),
     Range4(172, 16, 0, 12), Range4(192, 168, 0, 16), Range4(192, 0, 0, 24), Range4(192, 0, 2, 24),
     Range4(192, 88, 99, 24), Range4(198, 18, 0, 15), Range4(198, 51, 100, 24), Range4(203, 0, 113, 24),
     Range4(224, 0, 0, 4), Range4(240, 0, 0, 4),
     Range6(<<>>, 128), [base |-> Ipv6Bytes(AddressWords(<<>>, TRUE, <<1>>)), bits |-> 128], Range6(<<64512>>, 7),
     Range6(<<65152>>, 10), Range6(<<65216>>, 10), Range6(<<100, 65435>>, 96), Range6(<<8193, 3512>>, 32),
     Range6(<<8194>>, 16), Range6(<<65280>>, 8)}
\* The ends of every range and addresses next to them, each in all its spellings; names.
OpenBits(range, i) == Cardinality(8 * i - 7..8 * i \ 1..range.bits)
Filled(range, bit) == [i \in DOMAIN range.base |-> range.base[i] + bit * (2^OpenBits(range, i) - 1)]
Tried4 == {Filled(r, bit) : r \in {s \in DefaultDeny : Len(s.base) = 4}, bit \in {0, 1}} \cup
    {<<9, 255, 255, 255>>, <<11, 0, 0, 0>>, <<172, 15, 255, 255>>, <<172, 32, 0, 0>>, <<100, 63, 255, 255>>,
     <<100, 128, 0, 0>>, <<198, 17, 255, 255>>, <<198, 20, 0, 0>>, <<223, 255, 255, 255>>, <<169, 254, 169, 254>>}
Word(bytes, i) == bytes[2 * i - 1] * 256 + bytes[2 * i]
Tried6 == {[i \in 1..8 |-> Word(Filled(r, bit), i)] : r \in {s \in DefaultDeny : Len(s.base) = 16}, bit \in {0, 1}} \cup
    {<<9734, 18176, 0, 0, 0, 0, 0, 4369>>, <<8193, 3513, 0, 0, 0, 0, 0, 0>>, <<65024, 0, 0, 0, 0, 0, 0, 1>>,
     <<64768, 3778, 0, 0, 0, 0, 0, 596>>, <<9734, 0, 0, 0, 0, 0, 0, 65535>>}
Metadata == Name(<<"metadata", "goog">>)
HostsToTry ==
    UNION {{Dotted(a), Number(Word(a, 1), Word(a, 2)), AddressWords(<<>>, TRUE, <<65535, Word(a, 1), Word(a, 2)>>),
            AddressWords(<<0, 0, 0, 0, 0, 65535>>, FALSE, <<Word(a, 1), Word(a, 2)>>)} : a \in Tried4} \cup
    UNION {{AddressWords(w, FALSE, <<>>), AddressWords(SubSeq(w, 1, 3), TRUE, SubSeq(w, 4, 8))} : w \in Tried6} \cup
    {AddressWords(SubSeq(w, 1, 2), TRUE, SubSeq(w, 8, 8)) : w \in Tried6} \cup
    {Dotted(<<1, 2, 3, 256>>), Dotted(<<127, 1>>), AddressWords(<<1, 2>>, FALSE, <<>>), Metadata,
     Name(<<"app", "test">>), Name(<<"www", "app", "test">>), Name(<<"printer", "local">>)}
LookupsGive == {{}, {<<8, 8, 8, 8>>}, {<<8, 8, 8, 8>>, <<10, 0, 0, 1>>}, {Ipv6Bytes(AddressWords(<<>>, TRUE, <<65535, 2560, 1>>))}}
Listed == {[wild |-> <<"app", "test">>], Dotted(<<11, 0, 0, 0>>), AddressWords(<<9734, 18176>>, TRUE, <<4369>>)}
NeverListed == {Metadata, Dotted(<<169, 254, 169, 254>>), AddressWords(<<64768, 3778>>, TRUE, <<596>>)}

\* Popups: many tabs, one document each, no snapshot. References: two tabs that the agent has.
Popups ==
    /\ \A i \in DOMAIN tab' : tab'[i].doc = 1 /\ (tab'[i].crashed => i = actionTab)
    /\ snaps' = snaps
References == Len(tab') <= 2 /\ gate' = "agent"
\* Commands are begun in their order: two in one home, the second after the first, and one in the
\* other home that may overlap with both.
VaultOrder ==
    /\ \A c, d \in Commands : (d < c /\ run'[c].at # "new") => run'[d].at # "new"
    /\ run'[1].home = "h1" /\ (run'[2].at # "new" => run'[2].home = "h2")
    /\ run'[3].at # "new" => run'[3].home = "h1" /\ run'[1].at = "over"
\* Downloads and what the tools write lie apart: a behaviour has the one or the other.
FilesOrder == asked' = {} \/ \A d \in Download : copying'[d] = "no"

Init ==
    /\ part \in {"popups", "references", "egress", "destinations", "provision", "vault", "audit", "remotes",
                 "connections", "connectors", "supervisor", "files"}
    /\ TabInit /\ DestinationInit /\ ProvisionInit /\ AuditInit /\ RemotesInit /\ SupervisorInit
    /\ EgressInit /\ (part = "egress" \/ answer = {})
    /\ VaultInit /\ (part = "vault" \/ (machine = 0 /\ \A h \in Homes : file[h] = NoFile))
    /\ ConnectionInit /\ (part = "connections" \/ signedIn = {})
    /\ ConnectorInit /\ (part = "connectors" \/ server = "m1")
    /\ FilesInit /\ (part = "files" \/ receipt.runs)
Next ==
    /\ part' = part
    /\ IF part \in {"popups", "references"} THEN TabNext ELSE UNCHANGED tabVars
    /\ part = "popups" => Popups
    /\ part = "references" => References
    /\ IF part = "egress" THEN EgressNext ELSE UNCHANGED egressVars
    /\ IF part = "destinations" THEN DestinationNext ELSE UNCHANGED destinationVars
    /\ IF part = "provision" THEN ProvisionNext ELSE UNCHANGED provisionVars
    /\ IF part = "vault" THEN VaultNext /\ VaultOrder ELSE UNCHANGED vaultVars
    /\ IF part = "audit" THEN AuditNext ELSE UNCHANGED auditVars
    /\ IF part = "remotes" THEN RemotesNext ELSE UNCHANGED remoteVars
    /\ IF part = "connections" THEN ConnectionNext ELSE UNCHANGED loginVars
    /\ IF part = "connectors" THEN ConnectorNext ELSE UNCHANGED connectorVars
    /\ IF part = "supervisor" THEN SupervisorNext ELSE UNCHANGED supervisorVars
    /\ IF part = "files" THEN FilesNext /\ FilesOrder ELSE UNCHANGED filesVars
Spec == Init /\ [][Next]_hostVars

\* The network: the proxy connects to what it vetted and gives every slot back once, and an address
\* has one answer in all its spellings; what is
\* written down of a computer's network is what Docker has, and a build leaves nothing old.
NetworkSafe == EgressSafe /\ DestinationSafe /\ ProvisionTypeOK /\ PlanIsTheNetwork /\ BuiltIsNew
\* What is kept: vaults open at their home and keep what a command said it has set; the records of
\* the audit log link up, and an anchor names the record before it; a download is whole somewhere, a
\* receipt names what was written, and what opens is offered.
KeepsSafe ==
    /\ VaultTypeOK /\ AuditTypeOK /\ RemotesTypeOK /\ ConnectorTypeOK /\ FilesTypeOK
    /\ OpensAtHome /\ SetIsKept /\ ChainHolds /\ AnchorNamesPrevious
    /\ DownloadIsKept /\ ReceiptIsOutcome /\ WhatOpensIsOffered
\* What ends takes with it what it held: a cancelled sign-in its CLI, a shell that quits its daemon, save
\* what a reload to an error or a kill of the shell had it lose sight of.
NothingLeftBehind ==
    ConnectionTypeOK /\ SupervisorTypeOK /\ CancelledIsTold /\ QuitTakesDaemonDown
\* What no step does: move a person's input to another tab or close theirs, forget a deployment
\* that is still there or record one that does not serve, connect a provider late, call a changed
\* manifest without a new approval, take a true entry from a receipt.
HostSteps ==
    /\ InputStays /\ HumanTabKept /\ DestroyedIsGone /\ UpdateTakesEffect
    /\ NothingConnectsLate /\ ReconsentAfterChange /\ SweepSparesTheTrue
=============================================================================
