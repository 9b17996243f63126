------------------------------- MODULE MCVault -------------------------------
EXTENDS Vault
\* Commands are begun in their order, the third after the first; the two homes
\* are alike, the first command runs in h1.
VaultOrder ==
    /\ \A c, d \in Commands : (d < c /\ run'[c].at # "new") => run'[d].at # "new"
    /\ run'[1].home = "h1"
    /\ run'[3].at # "new" => run'[1].at = "over"
Spec == VaultInit /\ [][VaultNext /\ VaultOrder]_vaultVars
=============================================================================
