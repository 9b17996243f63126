------------------------------- MODULE Files -------------------------------
(***************************************************************************)
(* The files of a task: downloads in the quarantine of the browser and     *)
(* their promotion into the workspace (computer-server browser/session.ts),*)
(* the files the tools write (out-files.ts, jail.ts, shell/tools.ts), and  *)
(* what the daemon says of them: the list in a receipt, its one-time       *)
(* repair, what it offers, opens and packs (daemon/store.ts, server.ts).   *)
(*                                                                         *)
(* The computer-server runs one such call at a time and to its end; a      *)
(* crash may cut it anywhere, and the copy of a download goes on beside it *)
(* on another thread.  The quarantine is a tmpfs, the workspace a          *)
(* directory of the host.  A path is the sequence of its names under the   *)
(* workspace, a file is whole or a part of what it should be.              *)
(***************************************************************************)
EXTENDS Naturals, FiniteSets, Sequences

CONSTANTS
    Download,    \* downloads, by their id
    Large,       \* those over DOWNLOAD_MAX_BYTES
    Path,        \* the paths a tool may write (over a promoted file, with a random id: see HandChanges)
    MaxFiles,    \* MODELBOT_WRITE_FILE_MAX_FILES
    CutBound,    \* bound: crashes and restarts
    HandBound,   \* bound: what the shell or the person does to the workspace behind the tools
    WriteBound   \* bound: files written

ASSUME FilesAssumption ==
    /\ Large \subseteq Download /\ Path \subseteq Seq(STRING) /\ \A d \in Download : <<d>> \notin Path
    /\ {MaxFiles, CutBound, HandBound, WriteBound} \subseteq Nat

VARIABLES
    copying,   \* per download: "no", "copying", "copied", "kept", "failed"
    shelf,     \* the quarantine, per download: "none", "part", "whole"
    workspace, \* the workspace, per path: the same
    mounted,   \* the workspace of the computer is there
    call,      \* the call the computer-server is in
    promoted,  \* promotions the audit log has
    asked,     \* paths of write calls in the task's log
    landed,    \* paths of its tool.result and download.promoted rows
    receipt,   \* summary_json: frozen, its files_saved, whether the task still runs
    version,   \* PRAGMA user_version
    wiped,     \* ghost: downloads that a restart of the container or the shell took
    cuts, hands, writes \* bounded counters

filesVars == <<copying, shelf, workspace, mounted, call, promoted, asked, landed, receipt, version, wiped, cuts,
               hands, writes>>

\* promoteQuarantine: `${id}-${name}` at the top of the workspace.
Kept(d) == <<d>>
Place == Path \cup {Kept(d) : d \in Download}
NoCall == [tool |-> "none", at |-> "idle", path |-> <<>>]
InOut(p) == Len(p) > 1 /\ p[1] = "out"
There(p) == p \in Place /\ workspace[p] # "none"

\* openWorkspaceFile: a bare name that is not there is looked for in out/.
FileOpens(p) == mounted /\ (There(p) \/ (Len(p) = 1 /\ There(<<"out">> \o p)))
\* artifactOnDisk: at its path or in out/; a workspace that is not there cannot tell.
OnDisk(p) == ~mounted \/ There(p) \/ There(<<"out", p[Len(p)]>>)
\* taskSummaryFromEvents: files of outcomes, not of requests.
FilesOf(log) == log
FilesAnnounced == IF receipt.frozen THEN receipt.files ELSE FilesOf(landed)
\* verifiedArtifacts, and the zip, which leaves out what does not open.
FilesOffered == {p \in FilesAnnounced : OnDisk(p)}
FilesPacked == {p \in FilesOffered : FileOpens(p)}
\* repairFrozenFileLists: kept by name if an outcome names it and it is there.
Repaired(files) ==
    {p \in files : OnDisk(p) /\ \E q \in FilesOf(landed) : q[Len(q)] = p[Len(p)]}

\* A row of an older daemon may be frozen with files that were only asked for.
FilesInit ==
    /\ copying = [d \in Download |-> "no"] /\ shelf = [d \in Download |-> "none"]
    /\ call = NoCall /\ promoted = {} /\ mounted = TRUE /\ wiped = {}
    /\ version = 0 /\ cuts = 0 /\ hands = 0 /\ writes = 0
    /\ \/ /\ workspace = [p \in Place |-> "none"] /\ asked = {} /\ landed = {}
          /\ receipt = [frozen |-> FALSE, files |-> {}, runs |-> TRUE]
       \/ /\ asked \in SUBSET Path /\ landed \in SUBSET asked
          /\ workspace \in [Place -> {"none", "whole"}] /\ \A d \in Download : workspace[Kept(d)] = "none"
          /\ receipt = [frozen |-> TRUE, files |-> asked, runs |-> FALSE]

daemonSide == <<promoted, asked, landed, receipt, version>>

-----------------------------------------------------------------------------
(* Downloads *)

\* wireDownloads, quarantineDownloadOnce: the page and the click that waits share one.
DownloadStarts(d) ==
    /\ copying[d] = "no" /\ mounted
    /\ copying' = [copying EXCEPT ![d] = "copying"] /\ shelf' = [shelf EXCEPT ![d] = "part"]
    /\ UNCHANGED <<workspace, mounted, call, daemonSide, wiped, cuts, hands, writes>>
\* saveAs: the copy ends or breaks off, whatever the server is doing; one whose name is gone ends unseen.
CopyEnds(d) ==
    /\ copying[d] = "copying"
    /\ \/ /\ copying' = [copying EXCEPT ![d] = "copied"]
          /\ shelf' = [shelf EXCEPT ![d] = IF @ = "part" THEN "whole" ELSE @]
       \/ copying' = [copying EXCEPT ![d] = "failed"] /\ shelf' = shelf
    /\ UNCHANGED <<workspace, mounted, call, daemonSide, wiped, cuts, hands, writes>>
\* quarantineDownload after saveAs: too large is deleted, else the tool is told of it.
DownloadEnds(d) ==
    /\ copying[d] = "copied" /\ call = NoCall
    /\ IF shelf[d] = "none" \/ d \in Large
       THEN /\ copying' = [copying EXCEPT ![d] = "failed"] /\ shelf' = [shelf EXCEPT ![d] = "none"]
       ELSE copying' = [copying EXCEPT ![d] = "kept"] /\ shelf' = shelf
    /\ UNCHANGED <<workspace, mounted, call, daemonSide, wiped, cuts, hands, writes>>

-----------------------------------------------------------------------------
(* Promotion *)

promoteRest == <<copying, mounted, daemonSide, wiped, cuts, hands, writes>>
\* POST .../promote, promoteQuarantine: the source is opened; one that is too large is refused.
PromoteStarts(d) ==
    /\ call = NoCall /\ mounted /\ shelf[d] # "none" /\ ~(d \in Large /\ shelf[d] = "whole")
    /\ call' = [tool |-> "promote", at |-> "source", path |-> Kept(d)]
    /\ UNCHANGED <<shelf, workspace, promoteRest>>
\* O_EXCL: what is at its place already is left alone, and the call fails.
PromoteCreates ==
    /\ call.tool = "promote" /\ call.at = "source"
    /\ IF There(call.path) THEN call' = NoCall /\ workspace' = workspace
       ELSE call' = [call EXCEPT !.at = "created"] /\ workspace' = [workspace EXCEPT ![call.path] = "part"]
    /\ UNCHANGED <<shelf, promoteRest>>
\* writeFileSync of what readFileSync finds, fsync
PromoteWrites(d) ==
    /\ call.tool = "promote" /\ call.at = "created" /\ call.path = Kept(d)
    /\ call' = [call EXCEPT !.at = "written"]
    /\ workspace' = [workspace EXCEPT ![call.path] = IF @ = "none" THEN @ ELSE shelf[d]]
    /\ UNCHANGED <<shelf, promoteRest>>
PromoteUnlinks(d) ==
    /\ call.tool = "promote" /\ call.at = "written" /\ call.path = Kept(d)
    /\ call' = [call EXCEPT !.at = "answered"] /\ shelf' = [shelf EXCEPT ![d] = "none"]
    /\ UNCHANGED <<workspace, promoteRest>>
\* Any of its calls may fail: what it created is taken back, the source stays.
PromoteFails ==
    /\ call.tool = "promote" /\ call.at \in {"source", "created", "written"}
    /\ call' = NoCall
    /\ workspace' = [workspace EXCEPT ![call.path] = IF call.at = "source" THEN @ ELSE "none"]
    /\ UNCHANGED <<shelf, promoteRest>>
\* download.promoted of a person names the computer and no task; an answer that is lost leaves no row.
PromoteAnswered(d) ==
    /\ call.tool = "promote" /\ call.at = "answered" /\ call.path = Kept(d)
    /\ promoted' \in {promoted, promoted \cup {d}} /\ call' = NoCall
    /\ UNCHANGED <<copying, shelf, workspace, mounted, asked, landed, receipt, version, wiped, cuts, hands, writes>>

-----------------------------------------------------------------------------
(* The tools that write *)

writeRest == <<copying, shelf, mounted, promoted, receipt, version, wiped, cuts, hands>>
FilesUnder == {p \in Place : InOut(p) /\ There(p)}
\* The call is in the log before its outcome.  write_file goes into out/; the shell's files_write anywhere.
WriteCalled(tool, p) ==
    /\ call = NoCall /\ mounted /\ receipt.runs /\ writes < WriteBound
    /\ tool \in {"write_file", "files_write"} /\ p \in Path /\ (tool = "write_file" => InOut(p))
    /\ writes' = writes + 1 /\ asked' = asked \cup {p}
    /\ call' = [tool |-> tool, at |-> "called", path |-> p]
    /\ UNCHANGED <<workspace, landed, writeRest>>
\* writeFile: refused before anything is touched, for its path, its size, mode create, or one file too many.
WriteRefused ==
    /\ call.at = "called" /\ call' = NoCall
    /\ UNCHANGED <<workspace, asked, landed, writes, writeRest>>
\* openSync: created, emptied, or for an append left as it is.
WriteOpens ==
    /\ call.at = "called"
    /\ (call.tool = "write_file" /\ ~There(call.path)) => Cardinality(FilesUnder) < MaxFiles
    /\ \/ call' = [call EXCEPT !.at = "open"] /\ workspace' = [workspace EXCEPT ![call.path] = "part"]
       \/ /\ call.tool = "write_file" /\ There(call.path)
          /\ call' = [call EXCEPT !.at = "appending"] /\ workspace' = workspace
    /\ UNCHANGED <<asked, landed, writes, writeRest>>
\* writeSync may write less than it was given, and the answer is ok all the same.
WriteEnds ==
    /\ call.tool \in {"write_file", "files_write"} /\ call.at \in {"open", "appending"}
    /\ call' = [call EXCEPT !.at = "answered"]
    /\ \E left \in {"whole"} \cup (IF call.tool = "write_file" THEN {"part"} ELSE {}) :
            workspace' = [workspace EXCEPT ![call.path] =
                        IF @ = "none" \/ (@ = "part" /\ call.at = "appending") THEN @ ELSE left]
    /\ UNCHANGED <<asked, landed, writes, writeRest>>
\* E_IO, or an append over the cap: an answer that is not ok.
WriteFails ==
    /\ call.tool \in {"write_file", "files_write"} /\ call.at \in {"open", "appending"}
    /\ call' = NoCall
    /\ UNCHANGED <<workspace, asked, landed, writes, writeRest>>
\* download.promoted of write_file, tool.result of files_write; or the answer is lost.
WriteAnswered ==
    /\ call.tool \in {"write_file", "files_write"} /\ call.at = "answered"
    /\ landed' \in {landed, landed \cup (IF receipt.runs THEN {call.path} ELSE {})} /\ call' = NoCall
    /\ UNCHANGED <<workspace, asked, writes, writeRest>>

-----------------------------------------------------------------------------
(* The task and its receipt *)

receiptRest == <<copying, shelf, workspace, mounted, call, promoted, asked, landed, wiped, hands, writes>>
\* deriveTaskReceipt, freezeTaskSummary: the end of a task is in its log, which is never empty then.
Freezes ==
    /\ ~receipt.frozen /\ call.tool \notin {"write_file", "files_write"}
    /\ receipt' = [frozen |-> TRUE, files |-> FilesOf(landed), runs |-> FALSE]
    /\ UNCHANGED <<receiptRest, version, cuts>>
\* The start of a daemon: the sweep of the frozen lists, once per database; a crash may come before the mark.
DaemonStarts ==
    /\ cuts < CutBound /\ cuts' = cuts + 1
    /\ receipt' = IF version = 0 /\ receipt.frozen THEN [receipt EXCEPT !.files = Repaired(@)] ELSE receipt
    /\ version' \in {version, 1}
    /\ UNCHANGED receiptRest

-----------------------------------------------------------------------------
(* What the others do *)

\* The server goes down: its call is cut, copies break off; the container keeps the quarantine or is new.
ServerDies ==
    /\ cuts < CutBound /\ cuts' = cuts + 1 /\ call' = NoCall
    /\ copying' = [d \in Download |-> IF copying[d] \in {"copying", "copied"} THEN "failed" ELSE copying[d]]
    /\ \/ shelf' = shelf /\ wiped' = wiped
       \/ shelf' = [d \in Download |-> "none"] /\ wiped' = wiped \cup {d \in Download : shelf[d] # "none"}
    /\ UNCHANGED <<workspace, mounted, daemonSide, hands, writes>>
\* The shell of the computer, or the person in Finder, puts, moves or removes a file.
HandChanges(p) ==
    /\ hands < HandBound /\ hands' = hands + 1 /\ mounted
    /\ workspace' = [workspace EXCEPT ![p] = IF @ = "none" THEN "whole" ELSE "none"]
    /\ wiped' = wiped \cup {d \in Download : Kept(d) = p}
    /\ UNCHANGED <<copying, shelf, mounted, call, daemonSide, cuts, writes>>
\* The disk the workspaces are on is taken away, or comes back.
WorkspaceMoves ==
    /\ hands < HandBound /\ hands' = hands + 1 /\ call = NoCall
    /\ mounted' = ~mounted
    /\ UNCHANGED <<copying, shelf, workspace, call, daemonSide, wiped, cuts, writes>>

FilesNext ==
    \/ \E d \in Download : DownloadStarts(d) \/ CopyEnds(d) \/ DownloadEnds(d)
    \/ \E d \in Download : PromoteStarts(d) \/ PromoteWrites(d) \/ PromoteUnlinks(d) \/ PromoteAnswered(d)
    \/ PromoteCreates \/ PromoteFails
    \/ \E tool \in {"write_file", "files_write"}, p \in Path : WriteCalled(tool, p)
    \/ WriteRefused \/ WriteOpens \/ WriteEnds \/ WriteFails \/ WriteAnswered
    \/ Freezes \/ DaemonStarts \/ ServerDies \/ WorkspaceMoves
    \/ \E p \in Place : HandChanges(p)
FilesSpec == FilesInit /\ [][FilesNext]_filesVars

-----------------------------------------------------------------------------
(* Properties *)

FilesTypeOK ==
    /\ copying \in [Download -> {"no", "copying", "copied", "kept", "failed"}]
    /\ shelf \in [Download -> {"none", "part", "whole"}] /\ workspace \in [Place -> {"none", "part", "whole"}]
    /\ call \in [tool : {"none", "promote", "write_file", "files_write"}, path : Place \cup {<<>>},
                 at : {"idle", "source", "created", "written", "called", "open", "appending", "answered"}]
    /\ promoted \in SUBSET Download /\ wiped \in SUBSET Download
    /\ landed \subseteq asked /\ asked \subseteq Path
    /\ receipt \in [frozen : BOOLEAN, files : SUBSET Path, runs : BOOLEAN]
    /\ version \in 0..1 /\ mounted \in BOOLEAN
    /\ cuts \in 0..CutBound /\ hands \in 0..HandBound /\ writes \in 0..WriteBound

\* A download a tool was told of is whole somewhere, in the quarantine or in the workspace, wherever
\* a promotion was cut and whichever of its calls failed (promoteQuarantine).
DownloadIsKept ==
    \A d \in Download \ wiped : copying[d] = "kept" => "whole" \in {shelf[d], workspace[Kept(d)]}
\* A receipt that this version froze or has swept names only what an outcome names
\* (taskSummaryFromEvents, repairFrozenFileLists).
ReceiptIsOutcome ==
    (receipt.frozen /\ version = 1) => \A p \in receipt.files : \E q \in landed : q[Len(q)] = p[Len(p)]
\* Two routes look for a file in their own way: what opens is never struck from the list
\* (openWorkspaceFile, artifactOnDisk).
WhatOpensIsOffered == \A p \in FilesAnnounced : FileOpens(p) => p \in FilesOffered
\* The sweep takes nothing from a receipt that was written and can be opened (repairFrozenFileLists).
SweepSparesTheTrue ==
    [][receipt.frozen => \A p \in receipt.files : (p \in landed /\ FileOpens(p)) => p \in receipt'.files]_filesVars

(* Not so: *)
\* What is offered opens (not for d/f when only out/f is there).
OfferedOpens == mounted => \A p \in FilesOffered : FileOpens(p)
\* A promoted file is whole (not when its download was still being copied, or its copy broke off).
PromotedIsWhole == \A d \in promoted \ wiped : workspace[Kept(d)] = "whole"
\* A promotion that was cut can be asked for again (not when its part of a file is in the way).
CutIsForgotten == \A d \in Download : (call = NoCall /\ shelf[d] # "none") => workspace[Kept(d)] = "none"
\* What an outcome names is whole while nobody else touches it (not after a write cut short by a full
\* disk, which is answered ok, nor after a later overwrite that failed once the file was emptied).
LandedIsWhole == (hands = 0 /\ call = NoCall) => \A p \in landed : workspace[p] # "part"
=============================================================================
