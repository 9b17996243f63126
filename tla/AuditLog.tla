------------------------------- MODULE AuditLog -------------------------------
(***************************************************************************)
(* The audit log (src/audit): records chained by their hashes, anchors,    *)
(* and the head beside the log; the daemon that appends one event after    *)
(* the other (daemon/server.ts, emit), stops between any two writes and    *)
(* starts again, and the command that verifies.                            *)
(*                                                                         *)
(* A hash is a number of its own. Who can forge what is no question here:  *)
(* the verifier has the key.                                               *)
(***************************************************************************)
EXTENDS Naturals, Sequences, SequencesExt

CONSTANTS
    AnchorEvery,  \* anchorEvery
    EventBound, StopBound  \* bounds: events; daemons that stop

ASSUME AuditAssumption == AnchorEvery \in Nat \ {0} /\ {EventBound, StopBound} \subseteq Nat

VARIABLES
    chainLog, head,  \* the file, its head
    torn,       \* whether the last line of the file is cut
    made,       \* the file is there
    mem,        \* the daemon's position: last hash, sequence number, records since an anchor
    logTail,       \* events that wait for auditTail
    append,     \* the append under way
    refs,       \* hashes in the store
    hashes,     \* the last hash
    check,      \* the verifier: what it read of the log, and its verdict
    logEvents, logStops  \* bounded counters

auditVars == <<chainLog, head, torn, made, mem, logTail, append, refs, hashes, check, logEvents, logStops>>

Genesis == [seq |-> 0, hash |-> 0]
Down == [up |-> FALSE, seq |-> 0, prev |-> 0, since |-> 0]
NoAppend == [at |-> "none", anchor |-> FALSE, body |-> Genesis, outer |-> FALSE]
AuditInit ==
    /\ chainLog = <<>> /\ head = Genesis /\ torn = FALSE /\ made = FALSE /\ mem = Down /\ logTail = 0
    /\ append = NoAppend /\ refs = {} /\ hashes = 0 /\ check = [at |-> "none", read |-> <<>>]
    /\ logEvents = 0 /\ logStops = 0

-----------------------------------------------------------------------------
LastIn(s) == IF s = <<>> THEN Genesis ELSE [seq |-> Last(s).seq, hash |-> Last(s).hash]
SinceAnchor(s) ==
    LET anchors == {k \in DOMAIN s : s[k].anchor} IN
    IF anchors = {} THEN Len(s) ELSE Len(s) - (CHOOSE k \in anchors : \A l \in anchors : l <= k)
\* AuditLog, replayHead, which a cut line ends; the anchor of a fresh install
\* (cli/start.ts).
LogStarts ==
    /\ ~mem.up /\ ~torn
    /\ mem' = [up |-> TRUE, seq |-> LastIn(chainLog).seq, prev |-> LastIn(chainLog).hash, since |-> SinceAnchor(chainLog)]
    /\ made' = TRUE
    /\ append' = IF ~made /\ head = Genesis THEN [NoAppend EXCEPT !.at = "key", !.anchor = TRUE] ELSE NoAppend
    /\ UNCHANGED <<chainLog, head, torn, logTail, refs, hashes, check, logEvents, logStops>>
\* The daemon serves once the anchor of a fresh install is written.
LogFresh == append.anchor /\ ~append.outer
\* emit: the event is out, its record waits for those before it.
Emits ==
    /\ mem.up /\ ~LogFresh /\ logEvents < EventBound /\ logEvents' = logEvents + 1 /\ logTail' = logTail + 1
    /\ UNCHANGED <<chainLog, head, torn, made, mem, append, refs, hashes, check, logStops>>
\* append, appendAnchor: up to the wait for the key
LogBegins ==
    /\ mem.up /\ logTail > 0 /\ append.at = "none" /\ logTail' = logTail - 1
    /\ append' = [NoAppend EXCEPT !.at = "key"]
    /\ UNCHANGED <<chainLog, head, torn, made, mem, refs, hashes, check, logEvents, logStops>>
\* vaultAuditKeyProvider: the append waits for the key
AwaitsAuditKey == append.at = "key"
\* The key cannot be had: the event has no record, the next one goes on; a
\* fresh install does not start.
KeyFails ==
    /\ AwaitsAuditKey /\ append' = NoAppend
    /\ mem' = IF LogFresh THEN Down ELSE mem
    /\ UNCHANGED <<chainLog, head, torn, made, logTail, refs, hashes, check, logEvents, logStops>>
\* sealAuditRecord: the hash of the canonical text of a record, new with each record
SealAuditRecord(rec) ==
    [seq |-> rec.seq, prev |-> rec.prev, hash |-> hashes + 1, anchor |-> rec.anchor, body |-> rec.body]
\* appendFileSync
LogAppends ==
    /\ AwaitsAuditKey /\ hashes' = hashes + 1
    /\ chainLog' = Append(chainLog, SealAuditRecord([seq |-> mem.seq + 1, prev |-> mem.prev,
                                                   anchor |-> append.anchor, body |-> append.body]))
    /\ mem' = [mem EXCEPT !.seq = @ + 1, !.prev = hashes + 1]
    /\ append' = [append EXCEPT !.at = "head"]
    /\ UNCHANGED <<head, torn, made, logTail, refs, check, logEvents, logStops>>
\* A bug: the anchor's body is what it was when the record before the last was written.
WritesHeadStale ==
    /\ append.at = "head" /\ head' = [seq |-> mem.seq, hash |-> mem.prev]
    /\ IF ~append.anchor /\ mem.since + 1 >= AnchorEvery
       THEN /\ append' = [at |-> "key", anchor |-> TRUE, body |-> head, outer |-> TRUE]
            /\ mem' = [mem EXCEPT !.since = 0]
       ELSE append' = [append EXCEPT !.at = "ref"] /\ mem' = [mem EXCEPT !.since = @ + 1]
    /\ UNCHANGED <<chainLog, torn, made, logTail, refs, hashes, check, logEvents, logStops>>
\* The head beside the log, and the anchor that is due
WritesHead ==
    /\ append.at = "head" /\ head' = [seq |-> mem.seq, hash |-> mem.prev]
    /\ IF ~append.anchor /\ mem.since + 1 >= AnchorEvery
       THEN /\ append' = [at |-> "key", anchor |-> TRUE, body |-> head', outer |-> TRUE]
            /\ mem' = [mem EXCEPT !.since = 0]
       ELSE append' = [append EXCEPT !.at = "ref"] /\ mem' = [mem EXCEPT !.since = @ + 1]
    /\ UNCHANGED <<chainLog, torn, made, logTail, refs, hashes, check, logEvents, logStops>>
AppendAuditRef(hash) == refs' = refs \cup {hash}
\* appendAuditRef of the sealed event, once the anchor after it is written too
Refers ==
    /\ append.at = "ref" /\ append' = NoAppend
    /\ IF LogFresh THEN UNCHANGED refs
       ELSE AppendAuditRef(IF append.anchor THEN chainLog[Len(chainLog) - 1].hash ELSE mem.prev)
    /\ UNCHANGED <<chainLog, head, torn, made, mem, logTail, hashes, check, logEvents, logStops>>
\* The process dies, in the middle of a line too.
LogStops ==
    /\ mem.up /\ logStops < StopBound /\ logStops' = logStops + 1
    /\ mem' = Down /\ logTail' = 0 /\ append' = NoAppend
    /\ torn' \in (IF append.at = "key" THEN BOOLEAN ELSE {torn})
    /\ UNCHANGED <<chainLog, head, made, refs, hashes, check, logEvents>>

-----------------------------------------------------------------------------
Linked(s) ==
    \A k \in DOMAIN s : s[k].seq = k /\ s[k].prev = (IF k = 1 THEN 0 ELSE s[k - 1].hash)
\* verifyAuditFile: the records, then the head
ReadsLog ==
    /\ check.at = "none" /\ made /\ check' = [at |-> IF torn THEN "failed" ELSE "head", read |-> chainLog]
    /\ UNCHANGED <<chainLog, head, torn, made, mem, logTail, append, refs, hashes, logEvents, logStops>>
ReadsHead ==
    /\ check.at = "head"
    /\ check' = [check EXCEPT !.at = IF Linked(check.read) /\ head # Genesis /\ head = LastIn(check.read)
                                     THEN "none" ELSE "failed", !.read = <<>>]
    /\ UNCHANGED <<chainLog, head, torn, made, mem, logTail, append, refs, hashes, logEvents, logStops>>

AuditNext ==
    \/ LogStarts \/ Emits \/ LogBegins \/ KeyFails \/ LogAppends \/ WritesHead \/ Refers \/ LogStops
    \/ ReadsLog \/ ReadsHead
AuditSpec == AuditInit /\ [][AuditNext]_auditVars

AuditTypeOK ==
    /\ \A k \in DOMAIN chainLog : {chainLog[k].seq, chainLog[k].prev, chainLog[k].hash} \subseteq Nat /\ chainLog[k].anchor \in BOOLEAN
    /\ {torn, made, mem.up} \subseteq BOOLEAN /\ refs \subseteq Nat
    /\ {head.seq, head.hash, mem.seq, mem.prev, mem.since, logTail, hashes, logEvents, logStops} \subseteq Nat
    /\ append.at \in {"none", "key", "head", "ref"} /\ check.at \in {"none", "head", "failed"}

\* log.ts, append: over lost keys, anchors and daemons that stop anywhere, the
\* records number and link up from the first.
ChainHolds == Linked(chainLog)
\* log.ts, appendAnchor: an anchor that is due names the record right before it.
AnchorNamesPrevious ==
    \A k \in DOMAIN chainLog : (chainLog[k].anchor /\ k > 1) => chainLog[k].body = [seq |-> k - 1, hash |-> chainLog[k - 1].hash]

-----------------------------------------------------------------------------
\* What is written of the code and is not so; no run lists these.

\* TROUBLESHOOTING.md:174: of a log nobody touched, verification does not fail.
HonestLogVerifies == check.at # "failed"
\* cli/start.ts:99, "A fresh install needs a signed head before its first task."
FreshHasHead == logTail > 0 => head # Genesis
=============================================================================
