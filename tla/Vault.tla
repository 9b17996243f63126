-------------------------------- MODULE Vault --------------------------------
(***************************************************************************)
(* The encrypted files of secrets and the keys that open them (src/vault,  *)
(* cli/vault.ts, cli/init.ts): every home has a file and an item of the    *)
(* system's key store, and one older item was shared by the machine. A     *)
(* process reads the file, finds its key, then does what it was run for,   *)
(* and may die between any two of these steps.                             *)
(*                                                                         *)
(* Encryption is what a key opens. Envelopes are the current one or an old *)
(* one; a payload is the set of its names. The key store is the system's,  *)
(* or a credential that cannot be written.                                 *)
(***************************************************************************)
EXTENDS Naturals, FiniteSets

CONSTANTS
    Homes, Fixed,  \* homes, those whose key is a systemd credential
    VaultNames,         \* entries
    Commands,      \* processes run in a session of the model
    Alone,         \* whether at most one runs in a home at a time
    DeathBound     \* bound: processes that die

ASSUME VaultAssumption == Fixed \subseteq Homes /\ Alone \in BOOLEAN /\ DeathBound \in Nat

VARIABLES
    file,      \* of each home: no file, or an envelope
    store,     \* the key each home's item holds, 0 for none
    machine,   \* the key of the machine's item
    minted,    \* last key made
    run,       \* the processes
    midway,    \* homes a reset or a rotation is under way or was cut in
    confirmed, \* of each home: the entries a command said it has set
    deaths     \* bounded counter

vaultVars == <<file, store, machine, minted, run, midway, confirmed, deaths>>

Envelope == [key : Nat, old : BOOLEAN, entries : SUBSET VaultNames]
NoFile == [key |-> 0, old |-> FALSE, entries |-> {}]
VaultIdle == [at |-> "new", home |-> CHOOSE h \in Homes : TRUE, op |-> "open", name |-> CHOOSE n \in VaultNames : TRUE,
         snap |-> NoFile, key |-> 0, shared |-> FALSE, payload |-> {}]
\* encryptPayload and decryptPayload, of the current envelope and of the older one
EncryptPayload(key, entries) == [key |-> key, old |-> FALSE, entries |-> entries]
WrapPayload(r, entries) == EncryptPayload(r.key, entries)
Decrypts(key, f) == f.key = key
EnvelopeNeedsReWrap(f) == f.old
\* keyFromStoredValue: what an item holds is a key, or there is none.
IsKey(k) == k # 0
\* The machine's item is looked for by a vault that exists only.
LegacyKey(f) == IF f = NoFile THEN 0 ELSE machine
\* A credential of systemd is read and never written.
IsWritable(h) == h \notin Fixed
\* createVault writes an entry and removes it again, where openVault writes nothing.
IsCreating(op) == op \in {"init", "reset"}
\* runInit, resetVaultKeyOnly: where a command begins
FirstStep(op) == IF op = "reset" THEN "delete" ELSE "read"
\* Key 1 is the machine's, of a time when every home had it.
VaultInit ==
    /\ machine \in {0, 1} /\ minted = 1
    /\ file \in [Homes -> {NoFile} \cup {[key |-> 1, old |-> TRUE, entries |-> s] : s \in SUBSET VaultNames}]
    /\ \A h \in Homes \ Fixed : file[h].key \in {0, machine}
    /\ store = [h \in Homes |-> IF h \in Fixed THEN 1 ELSE 0]
    /\ run = [c \in Commands |-> VaultIdle] /\ midway = {}
    /\ confirmed = [h \in Homes |-> file[h].entries] /\ deaths = 0

Goes(c, at) ==
    run' = [run EXCEPT ![c] = IF at # "over" THEN [@ EXCEPT !.at = at]
                              ELSE [VaultIdle EXCEPT !.at = "over", !.home = run[c].home, !.op = run[c].op]]
Mints(c, at) ==
    /\ minted' = minted + 1 /\ store' = [store EXCEPT ![run[c].home] = minted + 1]
    /\ run' = [run EXCEPT ![c].at = at, ![c].key = minted + 1]

-----------------------------------------------------------------------------
VaultBegins(c, h, op, n) ==
    /\ run[c].at = "new"
    /\ ~Alone \/ \A d \in Commands : run[d].at \notin {"new", "over"} => run[d].home # h
    /\ run' = [run EXCEPT ![c] = [VaultIdle EXCEPT !.at = FirstStep(op), !.home = h, !.op = op, !.name = n]]
    /\ UNCHANGED <<file, store, machine, minted, midway, confirmed, deaths>>
\* deleteStoredOsKey, of this vault only
Deletes(c) ==
    /\ run[c].at = "delete"
    /\ store' = [h \in Homes |-> IF h = run[c].home /\ IsWritable(h) THEN 0 ELSE store[h]]
    /\ midway' = midway \cup {run[c].home} /\ Goes(c, "aside")
    /\ UNCHANGED <<file, machine, minted, confirmed, deaths>>
\* resetVaultKeyMaterial: what no key opens any more is moved away.
MovesAside(c) ==
    /\ run[c].at = "aside" /\ Goes(c, "read")
    /\ file' = [file EXCEPT ![run[c].home] = NoFile]
    /\ confirmed' = [confirmed EXCEPT ![run[c].home] = {}]
    /\ UNCHANGED <<store, machine, minted, midway, deaths>>
\* openVault, createVault: readEnvelope
Reads(c) ==
    /\ run[c].at = "read"
    /\ run' = [run EXCEPT ![c].at = "resolve", ![c].snap = file[run[c].home]]
    /\ UNCHANGED <<file, store, machine, minted, midway, confirmed, deaths>>
\* selectKeyProvider, resolve: the home's item, for a vault that exists the
\* machine's, a new key for one that does not or that is being made.
VaultResolves(c) ==
    /\ run[c].at = "resolve"
    /\ LET r == run[c] IN
       IF IsKey(store[r.home])
       THEN /\ run' = [run EXCEPT ![c].at = "open", ![c].key = store[r.home]]
            /\ UNCHANGED <<store, minted>>
       ELSE IF IsKey(LegacyKey(r.snap))
       THEN /\ run' = [run EXCEPT ![c].at = "open", ![c].key = machine, ![c].shared = TRUE]
            /\ UNCHANGED <<store, minted>>
       ELSE IF r.snap = NoFile \/ IsCreating(r.op) THEN Mints(c, "back")
       ELSE Goes(c, "over") /\ UNCHANGED <<store, minted>>
    /\ UNCHANGED <<file, machine, midway, confirmed, deaths>>
\* storeMacosKeychain, storeLinuxSecret: what was written is read back.
ReadsBack(c) ==
    /\ run[c].at \in {"back", "adopted", "rotated"}
    /\ LET r == run[c] IN
       Goes(c, IF store[r.home] # r.key THEN "over"
               ELSE IF r.at = "back" THEN "open" ELSE IF r.at = "adopted" THEN "rewrap" ELSE "write")
    /\ UNCHANGED <<file, store, machine, minted, midway, confirmed, deaths>>
\* openVault: a key that does not open the file ends it here; adoptOwnAccount
Opens(c) ==
    /\ run[c].at = "open"
    /\ LET r == run[c] IN
       IF IsCreating(r.op) \/ r.snap = NoFile THEN Goes(c, "load") /\ UNCHANGED store
       ELSE IF ~Decrypts(r.key, r.snap) THEN Goes(c, "over") /\ UNCHANGED store
       ELSE IF r.shared THEN Goes(c, "adopted") /\ store' = [store EXCEPT ![r.home] = r.key]
       ELSE Goes(c, "rewrap") /\ UNCHANGED store
    /\ UNCHANGED <<file, machine, minted, midway, confirmed, deaths>>
\* envelopeNeedsReWrap: the payload read at the start is written as it was.
Rewraps(c) ==
    /\ run[c].at = "rewrap"
    /\ LET r == run[c] IN
       /\ file' = IF EnvelopeNeedsReWrap(r.snap) THEN [file EXCEPT ![r.home] = WrapPayload(r, r.snap.entries)] ELSE file
       /\ Goes(c, IF r.op = "open" THEN "over" ELSE "load")
    /\ UNCHANGED <<store, machine, minted, midway, confirmed, deaths>>
\* loadPayload
VaultLoads(c) ==
    /\ run[c].at = "load"
    /\ LET r == run[c] f == file[r.home] IN
       IF r.op = "open" \/ (f # NoFile /\ ~Decrypts(r.key, f)) THEN Goes(c, "over")
       ELSE run' = [run EXCEPT ![c].at = IF r.op = "rotate" THEN "newkey" ELSE "write", ![c].payload = f.entries]
    /\ UNCHANGED <<file, store, machine, minted, midway, confirmed, deaths>>
\* rotate: the store first; a credential refuses, and nothing has changed.
NewKey(c) ==
    /\ run[c].at = "newkey"
    /\ IF ~IsWritable(run[c].home) THEN Goes(c, "over") /\ UNCHANGED <<store, minted, midway>>
       ELSE Mints(c, "rotated") /\ midway' = midway \cup {run[c].home}
    /\ UNCHANGED <<file, machine, confirmed, deaths>>
\* persist: set, delete, rotate, and the entry init writes and removes again
Writes(c) ==
    /\ run[c].at = "write"
    /\ LET r == run[c]
           added == IF r.op = "set" THEN {r.name} ELSE {}
           removed == IF r.op = "rm" THEN {r.name} ELSE {} IN
       /\ file' = [file EXCEPT ![r.home] = WrapPayload(r, (r.payload \cup added) \ removed)]
       /\ confirmed' = [confirmed EXCEPT ![r.home] = (@ \cup added) \ removed]
       /\ midway' = midway \ {r.home}
       /\ store' = IF r.shared /\ IsCreating(r.op) THEN [store EXCEPT ![r.home] = r.key] ELSE store
    /\ Goes(c, "over") /\ UNCHANGED <<machine, minted, deaths>>
Dies(c) ==
    /\ run[c].at \notin {"new", "over"} /\ deaths < DeathBound
    /\ deaths' = deaths + 1 /\ Goes(c, "over")
    /\ UNCHANGED <<file, store, machine, minted, midway, confirmed>>

-----------------------------------------------------------------------------
VaultNext ==
    \/ \E c \in Commands, h \in Homes, op \in {"open", "set", "rm", "rotate", "init", "reset"}, n \in VaultNames :
          VaultBegins(c, h, op, n)
    \/ \E c \in Commands :
          \/ Deletes(c) \/ MovesAside(c) \/ Reads(c) \/ VaultResolves(c) \/ ReadsBack(c) \/ Opens(c)
          \/ Rewraps(c) \/ VaultLoads(c) \/ NewKey(c) \/ Writes(c) \/ Dies(c)
VaultSpec == VaultInit /\ [][VaultNext]_vaultVars

VaultTypeOK ==
    /\ file \in [Homes -> Envelope] /\ store \in [Homes -> Nat] /\ {machine, minted, deaths} \subseteq Nat
    /\ midway \subseteq Homes /\ confirmed \in [Homes -> SUBSET VaultNames]
    /\ \A c \in Commands : run[c].home \in Homes /\ run[c].snap \in Envelope /\ run[c].payload \subseteq VaultNames

\* The key a next process will find for a home's file.
KeyFor(h) == IF store[h] # 0 THEN store[h] ELSE machine
\* KEYCHAIN.md, "One item per vault file": whatever is done in other homes, and
\* wherever a process dies, a file is opened by the key its home finds; between
\* a reset's or a rotation's two halves it is not.
OpensAtHome == \A h \in Homes \ midway : file[h] # NoFile => file[h].key = KeyFor(h)
\* cli/vault.ts, "Never createVault on decrypt failure — that would overwrite
\* an existing vault": what a command set is in the file until one removes it.
SetIsKept == \A h \in Homes : confirmed[h] \subseteq file[h].entries

-----------------------------------------------------------------------------
\* What is written of the code and is not so: rotate_cut shows how.

\* file.ts, writeEnvelopeAtomic, "Original stays readable if the process dies
\* before rename": of every home in which nothing runs and none was reset.
OriginalStaysReadable ==
    \A h \in Homes : (\A c \in Commands : run[c].home # h \/ (run[c].at \in {"new", "over"} /\ run[c].op # "reset"))
                       => (file[h] # NoFile => file[h].key = KeyFor(h))
=============================================================================
