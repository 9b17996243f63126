----------------------------- MODULE Host_proofs -----------------------------
(***************************************************************************)
(* Proofs about what the host keeps, the other parts of MCHost: files,     *)
(* sign-ins, connectors, the shell over the daemon, remote deployments,    *)
(* vaults, the audit log; then of all its parts side by side.              *)
(*                                                                         *)
(* Each part has an inductive invariant: its types, and what the steps on  *)
(* the way to a property hold to (what a deployment has done so far, which *)
(* key a process goes on with). It is kept by a lemma per action or per    *)
(* kind of step.                                                           *)
(***************************************************************************)
EXTENDS MCHost, Network_proofs

-----------------------------------------------------------------------------
(* Downloads, and what a receipt says of files *)

\* The call the server is in writes under a path of the tools, or at the place of a download.
CallHolds ==
    /\ call \in [tool : {"none", "promote", "write_file", "files_write"}, path : Place \cup {<<>>},
                 at : {"idle", "source", "created", "written", "called", "open", "appending", "answered"}]
    /\ call.tool = "promote" => call.at \in {"source", "created", "written", "answered"}
    /\ call.tool \in {"write_file", "files_write"} => call.at \in {"called", "open", "appending", "answered"} /\ call.path \in asked
    /\ call.tool = "none" => call = NoCall
\* Where a download is that the tool was told of, at each point of its promotion.
Promotes(d) == call.tool = "promote" /\ call.path = Kept(d)
KeptAt(d) ==
    /\ Promotes(d) /\ call.at = "source" => shelf[d] = "whole"
    /\ Promotes(d) /\ call.at = "created" => shelf[d] = "whole" /\ workspace[Kept(d)] # "none"
    /\ Promotes(d) /\ call.at = "written" => shelf[d] = "whole" /\ workspace[Kept(d)] = "whole"
    /\ "whole" \in {shelf[d], workspace[Kept(d)]}
ShelfHolds == \A d \in Download : copying[d] \in {"copied", "kept"} => shelf[d] # "part"
KeptHolds == \A d \in Download \ wiped : copying[d] = "kept" => KeptAt(d)
FilesHold == FilesTypeOK /\ CallHolds /\ ShelfHolds /\ KeptHolds /\ ReceiptIsOutcome

LEMMA PlacesApart ==
  /\ \A d \in Download : Kept(d) \in Place /\ Kept(d) \notin Path
  /\ \A d, e \in Download : Kept(d) = Kept(e) => d = e
  /\ Path \subseteq Place /\ Path \subseteq Seq(STRING)
<1>1. \A d, e \in Download : Kept(d) = Kept(e) => d = e
  BY DEF Kept
<1> QED BY <1>1, FilesAssumption DEF Kept, Place

LEMMA DownloadsKeep ==
  ASSUME FilesHold, NEW d \in Download, DownloadStarts(d) \/ CopyEnds(d) \/ DownloadEnds(d)
  PROVE  FilesHold'
<1>1. UNCHANGED <<workspace, mounted, call, promoted, asked, landed, receipt, version, wiped, cuts, hands, writes>>
  BY DEF DownloadStarts, CopyEnds, DownloadEnds, daemonSide
<1>2. /\ copying \in [Download -> {"no", "copying", "copied", "kept", "failed"}]
      /\ shelf \in [Download -> {"none", "part", "whole"}]
  BY DEF FilesHold, FilesTypeOK
<1>3. /\ copying' \in [Download -> {"no", "copying", "copied", "kept", "failed"}]
      /\ shelf' \in [Download -> {"none", "part", "whole"}]
      /\ \A e \in Download : e # d => copying'[e] = copying[e] /\ shelf'[e] = shelf[e]
  BY <1>2 DEF DownloadStarts, CopyEnds, DownloadEnds
<1>4. /\ copying'[d] \in {"copied", "kept"} => shelf'[d] # "part"
      /\ copying'[d] = "kept" => shelf'[d] = "whole" /\ call = NoCall
  BY <1>2 DEF DownloadStarts, CopyEnds, DownloadEnds, FilesHold, ShelfHolds
<1>5. FilesTypeOK' /\ CallHolds' /\ ReceiptIsOutcome'
  BY <1>1, <1>3 DEF FilesHold, FilesTypeOK, CallHolds, ReceiptIsOutcome
<1>6. ShelfHolds'
  BY <1>3, <1>4 DEF FilesHold, ShelfHolds
<1>7. KeptHolds'
  <2> SUFFICES ASSUME NEW e \in Download \ wiped, copying'[e] = "kept" PROVE KeptAt(e)'
    BY <1>1 DEF KeptHolds
  <2>1. CASE e = d
    BY <1>1, <1>4, <2>1 DEF KeptAt, Promotes, NoCall
  <2>2. CASE e # d
    BY <1>1, <1>3, <2>2 DEF KeptAt, Promotes, FilesHold, KeptHolds
  <2> QED BY <2>1, <2>2
<1> QED BY <1>5, <1>6, <1>7 DEF FilesHold

\* A step of a promotion, or of a write, changes one place at most, and of the quarantine one download.
LEMMA PromotesKeep ==
  ASSUME FilesHold, NEW d \in Download, PromoteStarts(d) \/ PromoteWrites(d) \/ PromoteUnlinks(d) \/ PromoteAnswered(d)
  PROVE  FilesHold'
<1>0. /\ FilesTypeOK /\ CallHolds /\ ShelfHolds /\ KeptHolds /\ ReceiptIsOutcome /\ Kept(d) \in Place
      /\ \A e \in Download : Kept(e) = Kept(d) => e = d
  BY PlacesApart DEF FilesHold
<1>1. UNCHANGED <<copying, mounted, asked, landed, receipt, version, wiped, cuts, hands, writes>>
  BY DEF PromoteStarts, PromoteWrites, PromoteUnlinks, PromoteAnswered, promoteRest, daemonSide
<1>2. shelf \in [Download -> {"none", "part", "whole"}] /\ workspace \in [Place -> {"none", "part", "whole"}]
  BY <1>0 DEF FilesTypeOK
<1>3. /\ shelf' \in [Download -> {"none", "part", "whole"}] /\ workspace' \in [Place -> {"none", "part", "whole"}]
      /\ promoted' \in SUBSET Download
  BY <1>0, <1>2 DEF PromoteStarts, PromoteWrites, PromoteUnlinks, PromoteAnswered, promoteRest,
       daemonSide, FilesTypeOK
<1>4. CallHolds'
  BY <1>0 DEF PromoteStarts, PromoteWrites, PromoteUnlinks, PromoteAnswered, CallHolds, NoCall
<1>5. FilesTypeOK' /\ ReceiptIsOutcome'
  BY <1>0, <1>1, <1>3, <1>4 DEF FilesTypeOK, CallHolds, ReceiptIsOutcome
<1>6. ShelfHolds'
  BY <1>0, <1>1, <1>2 DEF PromoteStarts, PromoteWrites, PromoteUnlinks, PromoteAnswered, ShelfHolds
<1>7. KeptHolds'
  <2> SUFFICES ASSUME NEW e \in Download \ wiped, copying[e] = "kept" PROVE KeptAt(e)'
    BY <1>1 DEF KeptHolds
  <2>1. KeptAt(e) /\ Kept(e) \in Place /\ shelf[e] # "part"
    BY <1>0, PlacesApart DEF KeptHolds, ShelfHolds
  <2>2. CASE PromoteStarts(d)
    BY <1>2, <1>0, <2>1, <2>2 DEF PromoteStarts, KeptAt, Promotes
  <2>3. CASE PromoteWrites(d)
    BY <1>2, <1>0, <2>1, <2>3 DEF PromoteWrites, KeptAt, Promotes, CallHolds
  <2>4. CASE PromoteUnlinks(d)
    BY <1>2, <1>0, <2>1, <2>4 DEF PromoteUnlinks, KeptAt, Promotes, CallHolds
  <2>5. CASE PromoteAnswered(d)
    BY <2>1, <2>5 DEF PromoteAnswered, KeptAt, Promotes, NoCall
  <2> QED BY <2>2, <2>3, <2>4, <2>5
<1> QED BY <1>4, <1>5, <1>6, <1>7 DEF FilesHold

LEMMA PromotionMoves == ASSUME FilesHold, PromoteCreates \/ PromoteFails PROVE FilesHold'
<1>0. FilesTypeOK /\ CallHolds /\ ShelfHolds /\ KeptHolds /\ ReceiptIsOutcome /\ call.tool = "promote"
  BY DEF FilesHold, PromoteCreates, PromoteFails
<1>1. UNCHANGED <<shelf, copying, mounted, promoted, asked, landed, receipt, version, wiped, cuts, hands, writes>>
  BY DEF PromoteCreates, PromoteFails, promoteRest, daemonSide
<1>2. shelf \in [Download -> {"none", "part", "whole"}] /\ workspace \in [Place -> {"none", "part", "whole"}]
  BY <1>0 DEF FilesTypeOK
<1>3. workspace' \in [Place -> {"none", "part", "whole"}]
  BY <1>2 DEF PromoteCreates, PromoteFails
<1>4. CallHolds'
  BY <1>0 DEF PromoteCreates, PromoteFails, CallHolds, NoCall
<1>5. FilesTypeOK' /\ ReceiptIsOutcome' /\ ShelfHolds'
  BY <1>0, <1>1, <1>3, <1>4 DEF FilesTypeOK, CallHolds, ReceiptIsOutcome, ShelfHolds
<1>6. KeptHolds'
  <2> SUFFICES ASSUME NEW e \in Download \ wiped, copying[e] = "kept" PROVE KeptAt(e)'
    BY <1>1 DEF KeptHolds
  <2>1. KeptAt(e) /\ Kept(e) \in Place /\ (call.path # Kept(e) => workspace'[Kept(e)] = workspace[Kept(e)])
    BY <1>0, <1>2, PlacesApart DEF KeptHolds, PromoteCreates, PromoteFails
  <2>2. CASE PromoteCreates
    <3>1. CASE There(call.path)
      BY <1>1, <2>1, <2>2, <3>1 DEF PromoteCreates, KeptAt, Promotes, NoCall
    <3>2. CASE ~There(call.path)
      <4>1. call' = [call EXCEPT !.at = "created"] /\ workspace' = [workspace EXCEPT ![call.path] = "part"]
        BY <2>2, <3>2 DEF PromoteCreates
      <4>2. call'.tool = call.tool /\ call'.path = call.path /\ call'.at = "created"
        BY <1>0, <4>1 DEF CallHolds
      <4>3. CASE Promotes(e)
        <5>1. shelf[e] = "whole" /\ workspace'[Kept(e)] = "part"
          BY <1>2, <2>1, <2>2, <4>1, <4>3 DEF PromoteCreates, KeptAt, Promotes
        <5> QED BY <1>1, <4>2, <5>1 DEF KeptAt, Promotes
      <4>4. CASE ~Promotes(e)
        BY <1>0, <1>1, <2>1, <4>2, <4>4 DEF KeptAt, Promotes
      <4> QED BY <4>3, <4>4
    <3> QED BY <3>1, <3>2
  <2>3. CASE PromoteFails
    <3>1. call'.tool # "promote" /\ (Promotes(e) => shelf[e] = "whole")
      BY <1>0, <2>1, <2>3 DEF PromoteFails, KeptAt, Promotes, NoCall
    <3>2. ~Promotes(e) => workspace'[Kept(e)] = workspace[Kept(e)]
      BY <1>0, <2>1 DEF Promotes
    <3> QED BY <1>1, <2>1, <3>1, <3>2 DEF KeptAt, Promotes
  <2> QED BY <2>2, <2>3
<1> QED BY <1>4, <1>5, <1>6 DEF FilesHold

LEMMA WritesKeep ==
  ASSUME FilesHold,
         \/ \E tool \in {"write_file", "files_write"}, p \in Path : WriteCalled(tool, p)
         \/ WriteRefused \/ WriteOpens \/ WriteEnds \/ WriteFails \/ WriteAnswered
  PROVE  FilesHold'
<1>0. /\ FilesTypeOK /\ CallHolds /\ ShelfHolds /\ KeptHolds /\ ReceiptIsOutcome /\ Path \subseteq Place
      /\ \A d \in Download : Kept(d) \in Place /\ Kept(d) \notin Path
  BY PlacesApart DEF FilesHold
<1>1. UNCHANGED <<copying, shelf, mounted, promoted, receipt, version, wiped, cuts, hands>>
  BY DEF WriteCalled, WriteRefused, WriteOpens, WriteEnds, WriteFails, WriteAnswered, writeRest
<1>2. workspace \in [Place -> {"none", "part", "whole"}] /\ landed \subseteq asked /\ asked \subseteq Path
      /\ writes \in 0..WriteBound /\ WriteBound \in Nat
  BY <1>0, FilesAssumption DEF FilesTypeOK
<1>3. CallHolds' /\ ~(call'.tool = "promote") /\ (call.tool # "none" => call.path \in Path)
  BY <1>0, <1>2 DEF WriteCalled, WriteRefused, WriteOpens, WriteEnds, WriteFails, WriteAnswered,
       CallHolds, NoCall
<1>4. \/ UNCHANGED workspace
      \/ \E v \in {"none", "part", "whole"} : call.tool # "none" /\ workspace' = [workspace EXCEPT ![call.path] = v]
  BY <1>0, <1>2, <1>3 DEF WriteCalled, WriteRefused, WriteOpens, WriteEnds, WriteFails, WriteAnswered,
       CallHolds
<1>5. workspace' \in [Place -> {"none", "part", "whole"}] /\ \A d \in Download : workspace'[Kept(d)] = workspace[Kept(d)]
  BY <1>0, <1>2, <1>3, <1>4
<1>6. landed' \subseteq asked' /\ asked' \subseteq Path /\ landed \subseteq landed' /\ writes' \in 0..WriteBound
  <2>1. CASE \E tool \in {"write_file", "files_write"}, p \in Path : WriteCalled(tool, p)
    <3>1. PICK p \in Path : asked' = asked \cup {p} /\ landed' = landed /\ writes < WriteBound /\ writes' = writes + 1
      BY <2>1 DEF WriteCalled
    <3> QED BY <1>2, <3>1
  <2>2. CASE WriteRefused \/ WriteOpens \/ WriteEnds \/ WriteFails
    BY <1>2, <2>2 DEF WriteRefused, WriteOpens, WriteEnds, WriteFails
  <2>3. CASE WriteAnswered
    BY <1>0, <1>2, <2>3 DEF WriteAnswered, CallHolds
  <2> QED BY <2>1, <2>2, <2>3
<1>7. FilesTypeOK' /\ ShelfHolds'
  BY <1>0, <1>1, <1>3, <1>5, <1>6 DEF FilesTypeOK, CallHolds, ShelfHolds
<1>8. ReceiptIsOutcome'
  BY <1>0, <1>1, <1>6 DEF ReceiptIsOutcome
<1>9. KeptHolds'
  BY <1>0, <1>1, <1>3, <1>5 DEF KeptHolds, KeptAt, Promotes
<1> QED BY <1>3, <1>7, <1>8, <1>9 DEF FilesHold

\* The end of a task, and the start of a daemon: a list that is new names outcomes, one that is swept too.
LEMMA ReceiptKeeps == ASSUME FilesHold, Freezes \/ DaemonStarts PROVE FilesHold'
<1>0. FilesTypeOK /\ CallHolds /\ ShelfHolds /\ KeptHolds /\ ReceiptIsOutcome
  BY DEF FilesHold
<1>1. UNCHANGED <<copying, shelf, workspace, mounted, call, promoted, asked, landed, wiped, hands, writes>>
  BY DEF Freezes, DaemonStarts, receiptRest
<1>2. CallHolds' /\ ShelfHolds' /\ KeptHolds'
  BY <1>0, <1>1 DEF CallHolds, ShelfHolds, KeptHolds, KeptAt, Promotes
<1>3. /\ receipt \in [frozen : BOOLEAN, files : SUBSET Path, runs : BOOLEAN] /\ landed \subseteq Path
      /\ version \in 0..1 /\ cuts \in 0..CutBound /\ CutBound \in Nat
  BY <1>0, FilesAssumption DEF FilesTypeOK
<1>4. /\ receipt' \in [frozen : BOOLEAN, files : SUBSET Path, runs : BOOLEAN]
      /\ version' \in 0..1 /\ cuts' \in 0..CutBound
  <2>1. CASE Freezes
    BY <1>3, <2>1 DEF Freezes, FilesOf
  <2>2. CASE DaemonStarts
    <3>1. Repaired(receipt.files) \subseteq receipt.files /\ receipt.files \subseteq Path
      BY <1>3 DEF Repaired
    <3>2. receipt' \in [frozen : BOOLEAN, files : SUBSET Path, runs : BOOLEAN]
      BY <1>3, <2>2, <3>1 DEF DaemonStarts
    <3>3. version' \in 0..1
      BY <1>3, <2>2 DEF DaemonStarts
    <3>4. cuts' \in 0..CutBound
      BY <1>3, <2>2 DEF DaemonStarts
    <3> QED BY <3>2, <3>3, <3>4
  <2> QED BY <2>1, <2>2
<1>5. FilesTypeOK'
  BY <1>0, <1>1, <1>4 DEF FilesTypeOK
<1>6. ReceiptIsOutcome'
  <2>1. CASE Freezes
    <3>1. receipt'.files = landed
      BY <2>1 DEF Freezes, FilesOf
    <3> QED BY <1>1, <3>1 DEF ReceiptIsOutcome
  <2>2. CASE DaemonStarts /\ version = 0 /\ receipt.frozen
    <3>1. receipt'.files = Repaired(receipt.files)
      BY <1>3, <2>2 DEF DaemonStarts
    <3> QED BY <1>1, <3>1 DEF ReceiptIsOutcome, Repaired, FilesOf
  <2>3. CASE DaemonStarts /\ ~(version = 0 /\ receipt.frozen)
    <3>1. receipt' = receipt
      BY <2>3 DEF DaemonStarts
    <3> QED BY <1>0, <1>1, <1>3, <2>3, <3>1 DEF ReceiptIsOutcome
  <2> QED BY <2>1, <2>2, <2>3
<1> QED BY <1>2, <1>5, <1>6 DEF FilesHold

\* A crash of the server, a hand in the workspace, a disk that is taken away.
LEMMA OthersKeepFiles ==
  ASSUME FilesHold, ServerDies \/ WorkspaceMoves \/ \E p \in Place : HandChanges(p)
  PROVE  FilesHold'
<1>0. /\ FilesTypeOK /\ CallHolds /\ ShelfHolds /\ KeptHolds /\ ReceiptIsOutcome
      /\ CutBound \in Nat /\ HandBound \in Nat
  BY FilesAssumption DEF FilesHold
<1>1. UNCHANGED <<promoted, asked, landed, receipt, version, writes>>
  BY DEF ServerDies, WorkspaceMoves, HandChanges, daemonSide
<1>2. ReceiptIsOutcome'
  BY <1>0, <1>1 DEF ReceiptIsOutcome
<1>3. /\ copying \in [Download -> {"no", "copying", "copied", "kept", "failed"}]
      /\ shelf \in [Download -> {"none", "part", "whole"}] /\ workspace \in [Place -> {"none", "part", "whole"}]
      /\ wiped \in SUBSET Download /\ mounted \in BOOLEAN
      /\ cuts \in 0..CutBound /\ hands \in 0..HandBound
  BY <1>0 DEF FilesTypeOK
<1>4. CASE ServerDies
  <2>1. /\ UNCHANGED <<workspace, mounted, hands>> /\ call' = NoCall /\ cuts' \in 0..CutBound
        /\ copying' = [d \in Download |-> IF copying[d] \in {"copying", "copied"} THEN "failed" ELSE copying[d]]
    BY <1>0, <1>3, <1>4 DEF ServerDies
  <2>2. \/ shelf' = shelf /\ wiped' = wiped
        \/ shelf' = [d \in Download |-> "none"] /\ wiped' = wiped \cup {d \in Download : shelf[d] # "none"}
    BY <1>4 DEF ServerDies
  <2>3. shelf' \in [Download -> {"none", "part", "whole"}] /\ wiped' \in SUBSET Download
    BY <1>3, <2>2
  <2>4. copying' \in [Download -> {"no", "copying", "copied", "kept", "failed"}]
    BY <1>3, <2>1
  <2>5. CallHolds'
    BY <2>1 DEF CallHolds, NoCall
  <2>6. FilesTypeOK'
    BY <1>0, <1>1, <2>1, <2>3, <2>4, <2>5 DEF FilesTypeOK, CallHolds
  <2>7. ShelfHolds'
    BY <1>0, <2>1, <2>2 DEF ShelfHolds
  <2>8. KeptHolds'
    <3> SUFFICES ASSUME NEW e \in Download \ wiped', copying'[e] = "kept" PROVE KeptAt(e)'
      BY DEF KeptHolds
    <3>1. copying[e] = "kept" /\ e \notin wiped
      BY <2>1, <2>2
    <3>2. "whole" \in {shelf[e], workspace[Kept(e)]}
      BY <1>0, <3>1 DEF KeptHolds, KeptAt
    <3>3. "whole" \in {shelf'[e], workspace'[Kept(e)]}
      BY <2>1, <2>2, <3>2
    <3> QED BY <2>1, <3>3 DEF KeptAt, Promotes, NoCall
  <2> QED BY <1>2, <2>5, <2>6, <2>7, <2>8 DEF FilesHold
<1>5. CASE WorkspaceMoves
  <2>1. /\ UNCHANGED <<copying, shelf, workspace, call, wiped, cuts>>
        /\ mounted' \in BOOLEAN /\ hands' \in 0..HandBound
    BY <1>0, <1>3, <1>5 DEF WorkspaceMoves
  <2>2. FilesTypeOK' /\ CallHolds' /\ ShelfHolds'
    BY <1>0, <1>1, <2>1 DEF FilesTypeOK, CallHolds, ShelfHolds
  <2>3. KeptHolds'
    BY <1>0, <2>1 DEF KeptHolds, KeptAt, Promotes
  <2> QED BY <1>2, <2>2, <2>3 DEF FilesHold
<1>6. ASSUME NEW p \in Place, HandChanges(p) PROVE FilesHold'
  <2>1. /\ UNCHANGED <<copying, shelf, mounted, call, cuts>> /\ hands' \in 0..HandBound
        /\ wiped' = wiped \cup {d \in Download : Kept(d) = p}
        /\ workspace' = [workspace EXCEPT ![p] = IF @ = "none" THEN "whole" ELSE "none"]
    BY <1>0, <1>3, <1>6 DEF HandChanges
  <2>2. workspace' \in [Place -> {"none", "part", "whole"}] /\ wiped' \in SUBSET Download
    BY <1>3, <2>1
  <2>3. FilesTypeOK' /\ CallHolds' /\ ShelfHolds'
    BY <1>0, <1>1, <2>1, <2>2 DEF FilesTypeOK, CallHolds, ShelfHolds
  <2>4. KeptHolds'
    <3> SUFFICES ASSUME NEW e \in Download \ wiped', copying'[e] = "kept" PROVE KeptAt(e)'
      BY DEF KeptHolds
    <3>1. e \in Download \ wiped /\ copying[e] = "kept" /\ Kept(e) # p /\ Kept(e) \in Place
      BY <2>1, PlacesApart
    <3>2. KeptAt(e) /\ workspace'[Kept(e)] = workspace[Kept(e)]
      BY <1>0, <1>3, <2>1, <3>1 DEF KeptHolds
    <3> QED BY <2>1, <3>2 DEF KeptAt, Promotes
  <2> QED BY <1>2, <2>3, <2>4 DEF FilesHold
<1> QED BY <1>4, <1>5, <1>6

LEMMA FilesBegin == ASSUME FilesInit PROVE FilesHold
<1>1. /\ copying = [d \in Download |-> "no"] /\ shelf = [d \in Download |-> "none"]
      /\ call = NoCall /\ promoted = {} /\ mounted = TRUE /\ wiped = {}
      /\ version = 0 /\ cuts = 0 /\ hands = 0 /\ writes = 0
  BY DEF FilesInit
<1>2. /\ workspace \in [Place -> {"none", "part", "whole"}] /\ landed \subseteq asked /\ asked \subseteq Path
      /\ receipt \in [frozen : BOOLEAN, files : SUBSET Path, runs : BOOLEAN]
  <2>1. CASE /\ workspace = [p \in Place |-> "none"] /\ asked = {} /\ landed = {}
             /\ receipt = [frozen |-> FALSE, files |-> {}, runs |-> TRUE]
    BY <2>1
  <2>2. CASE /\ asked \in SUBSET Path /\ landed \in SUBSET asked
             /\ workspace \in [Place -> {"none", "whole"}]
             /\ receipt = [frozen |-> TRUE, files |-> asked, runs |-> FALSE]
    BY <2>2
  <2> QED BY <2>1, <2>2 DEF FilesInit
<1>3. CutBound \in Nat /\ HandBound \in Nat /\ WriteBound \in Nat
  BY FilesAssumption
<1>4. CallHolds
  BY <1>1 DEF CallHolds, NoCall
<1>5. FilesTypeOK
  BY <1>1, <1>2, <1>3, <1>4 DEF FilesTypeOK, CallHolds
<1>6. ShelfHolds /\ KeptHolds /\ ReceiptIsOutcome
  BY <1>1 DEF ShelfHolds, KeptHolds, ReceiptIsOutcome
<1> QED BY <1>4, <1>5, <1>6 DEF FilesHold

LEMMA FilesStutter == ASSUME FilesHold, UNCHANGED filesVars PROVE FilesHold'
<1>1. UNCHANGED <<copying, shelf, workspace, mounted, call, promoted, asked, landed, receipt, version, wiped, cuts,
                  hands, writes>>
  BY DEF filesVars
<1>2. FilesTypeOK' /\ CallHolds' /\ ShelfHolds'
  BY <1>1 DEF FilesHold, FilesTypeOK, CallHolds, ShelfHolds
<1>3. KeptHolds' /\ ReceiptIsOutcome'
  BY <1>1 DEF FilesHold, KeptHolds, KeptAt, Promotes, ReceiptIsOutcome
<1> QED BY <1>2, <1>3 DEF FilesHold

LEMMA FilesKept == ASSUME FilesHold, [FilesNext]_filesVars PROVE FilesHold'
<1>1. ASSUME NEW d \in Download, DownloadStarts(d) \/ CopyEnds(d) \/ DownloadEnds(d) PROVE FilesHold'
  BY <1>1, DownloadsKeep
<1>2. ASSUME NEW d \in Download, PromoteStarts(d) \/ PromoteWrites(d) \/ PromoteUnlinks(d) \/ PromoteAnswered(d)
      PROVE  FilesHold'
  BY <1>2, PromotesKeep
<1>3. CASE PromoteCreates \/ PromoteFails
  BY <1>3, PromotionMoves
<1>4. CASE \/ \E tool \in {"write_file", "files_write"}, p \in Path : WriteCalled(tool, p)
           \/ WriteRefused \/ WriteOpens \/ WriteEnds \/ WriteFails \/ WriteAnswered
  BY <1>4, WritesKeep
<1>5. CASE Freezes \/ DaemonStarts
  BY <1>5, ReceiptKeeps
<1>6. CASE ServerDies \/ WorkspaceMoves \/ \E p \in Place : HandChanges(p)
  BY <1>6, OthersKeepFiles
<1>7. CASE UNCHANGED filesVars
  BY <1>7, FilesStutter
<1> QED BY <1>1, <1>2, <1>3, <1>4, <1>5, <1>6, <1>7 DEF FilesNext

LEMMA FilesAlways == FilesSpec => []FilesHold
<1>1. FilesInit => FilesHold
  BY FilesBegin
<1>2. FilesHold /\ [FilesNext]_filesVars => FilesHold'
  BY FilesKept
<1> QED BY <1>1, <1>2, PTL DEF FilesSpec

\* A download a tool was told of is whole in the quarantine or in the workspace at every moment of its
\* promotion, whichever call of it fails and wherever a crash cuts it (promoteQuarantine).
THEOREM DownloadIsKeptCorrect == FilesSpec => []DownloadIsKept
<1>1. FilesHold => DownloadIsKept
  BY DEF FilesHold, KeptHolds, KeptAt, DownloadIsKept
<1> QED BY <1>1, FilesAlways, PTL

\* A receipt this version froze, or has swept, names only files that the outcome of a call names.
THEOREM ReceiptIsOutcomeCorrect == FilesSpec => []ReceiptIsOutcome
<1>1. FilesHold => ReceiptIsOutcome
  BY DEF FilesHold
<1> QED BY <1>1, FilesAlways, PTL

\* Two sequences of two that agree at both places are one.
LEMMA PairsAgree ==
  ASSUME NEW S, NEW s \in Seq(S), NEW t \in Seq(S), Len(s) = 2, Len(t) = 2, s[1] = t[1], s[2] = t[2]
  PROVE  s = t
<1>1. \A i \in 1 .. Len(s) : s[i] = t[i]
  OBVIOUS
<1> QED BY <1>1, SeqEqual

LEMMA OneBefore ==
  ASSUME NEW S, NEW o \in S, NEW p \in Seq(S), Len(p) = 1
  PROVE  <<o>> \o p = <<o, p[1]>>
<1> DEFINE q == <<o>>
<1>1. <<>> \in Seq(S) /\ <<o>> = Append(<<>>, o)
  OBVIOUS
<1>2. q \in Seq(S) /\ Len(q) = 1 /\ q[1] = o /\ p[1] \in S
  BY <1>1, AppendProperties
<1>3. <<o, p[1]>> \in Seq(S) /\ Len(<<o, p[1]>>) = 2 /\ <<o, p[1]>>[1] = o /\ <<o, p[1]>>[2] = p[1]
  BY <1>2
<1> HIDE DEF q
<1>4. /\ q \o p \in Seq(S) /\ Len(q \o p) = Len(q) + Len(p)
      /\ \A i \in 1 .. Len(q) + Len(p) : (q \o p)[i] = IF i <= Len(q) THEN q[i] ELSE p[i - Len(q)]
  BY <1>2, ConcatProperties
<1>5. Len(q \o p) = 2 /\ (q \o p)[1] = o /\ (q \o p)[2] = p[1]
  BY <1>2, <1>4
<1> QED BY <1>3, <1>4, <1>5, PairsAgree DEF q

\* What opens at its own path or in out/ is on disk as the sweep sees it.
LEMMA OpensIsOnDisk == ASSUME NEW p \in Path, FileOpens(p) PROVE OnDisk(p)
<1>1. ASSUME Len(p) = 1, There(<<"out">> \o p) PROVE There(<<"out", p[Len(p)]>>)
  <2> DEFINE S == STRING \cup {"out"}
  <2>1. p \in Seq(STRING)
    BY FilesAssumption
  <2>2. p \in Seq(S) /\ "out" \in S
    BY <1>1, <2>1
  <2> HIDE DEF S
  <2>3. <<"out">> \o p = <<"out", p[1]>>
    BY <1>1, <2>2, OneBefore
  <2> QED BY <1>1, <2>3
<1> QED BY <1>1 DEF FileOpens, OnDisk

\* The two ways of looking for a file agree: what opens is never struck from the list.
THEOREM OffersWhatOpens == FilesSpec => []WhatOpensIsOffered
<1>1. ASSUME FilesHold PROVE WhatOpensIsOffered
  <2>1. FilesAnnounced \subseteq Path
    BY <1>1 DEF FilesHold, FilesTypeOK, FilesAnnounced, FilesOf
  <2> QED BY <2>1, OpensIsOnDisk DEF WhatOpensIsOffered, FilesOffered
<1> QED BY <1>1, FilesAlways, PTL

\* The sweep at the start of a daemon takes nothing from a receipt that was written and can be opened.
THEOREM SweepIsSparing == FilesSpec => SweepSparesTheTrue
<1> DEFINE Spares == receipt.frozen => \A p \in receipt.files : (p \in landed /\ FileOpens(p)) => p \in receipt'.files
<1>1. ASSUME FilesHold, [FilesNext]_filesVars PROVE Spares
  <2> SUFFICES ASSUME receipt.frozen, NEW p \in receipt.files, p \in landed, FileOpens(p) PROVE p \in receipt'.files
    OBVIOUS
  <2>1. receipt \in [frozen : BOOLEAN, files : SUBSET Path, runs : BOOLEAN] /\ p \in Path
    BY <1>1 DEF FilesHold, FilesTypeOK
  <2>2. p \in Repaired(receipt.files)
    BY <2>1, OpensIsOnDisk DEF Repaired, FilesOf
  <2>3. receipt' = receipt \/ receipt'.files = Repaired(receipt.files)
    <3>1. CASE DaemonStarts
      BY <2>1, <3>1 DEF DaemonStarts
    <3>2. CASE Freezes
      BY <3>2 DEF Freezes
    <3>3. CASE ~DaemonStarts /\ ~Freezes
      BY <1>1, <3>3 DEF FilesNext, DownloadStarts, CopyEnds, DownloadEnds, PromoteStarts, PromoteWrites,
            PromoteUnlinks, PromoteAnswered, PromoteCreates, PromoteFails, promoteRest, WriteCalled, WriteRefused,
            WriteOpens, WriteEnds, WriteFails, WriteAnswered, writeRest, ServerDies, WorkspaceMoves, HandChanges,
            daemonSide, filesVars
    <3> QED BY <3>1, <3>2, <3>3
  <2> QED BY <2>2, <2>3
<1>2. FilesHold /\ [FilesNext]_filesVars => [Spares]_filesVars
  BY <1>1
<1> QED BY <1>2, FilesAlways, PTL DEF FilesSpec, SweepSparesTheTrue
-----------------------------------------------------------------------------
(* Sign-ins of the model providers *)

LoginRow == [at : {"no", "mkdir", "launch", "runs", "probe"}, id : 0..MaxGeneration]
AskRow == [at : {"no", "clearsSignIn", "clearsConnect", "signIn", "connect", "cancels"},
           p : Provider \cup {NoProvider}, id : 0..MaxGeneration]
\* A request that is under way is about a provider.
AskNames ==
    /\ \A a \in Ask : ask[a].at # "no" => ask[a].p \in Provider
    /\ adopt.at # "no" => adopt.p \in Provider
ConnectionIInv == ConnectionTypeOK /\ AskNames /\ CancelledIsTold

LEMMA ConnectionStarts == ConnectionInit => ConnectionIInv
<1> SUFFICES ASSUME ConnectionInit PROVE ConnectionIInv
  OBVIOUS
<1>1. 0 \in 0..MaxGeneration
  BY ConnectionAssumption
<1>2. Nowhere \in AskRow /\ Nowhere.at = "no" /\ [at |-> "no", id |-> 0] \in LoginRow
  BY <1>1 DEF Nowhere, AskRow, LoginRow
<1>3. /\ generation \in [Provider -> 0..MaxGeneration] /\ login \in [Provider -> LoginRow]
      /\ ask \in [Ask -> AskRow]
  BY <1>1, <1>2 DEF ConnectionInit
<1>4. adopt \in [at : {"no", "connect"}, p : Provider \cup {NoProvider}, id : 0..MaxGeneration]
  BY <1>1 DEF ConnectionInit, Nowhere
<1>5. CancelledIsTold
  BY DEF ConnectionInit, CancelledIsTold
<1>6. AskNames
  BY <1>2 DEF ConnectionInit, AskNames
<1>. QED
  BY <1>3, <1>4, <1>5, <1>6 DEF ConnectionInit, ConnectionIInv, ConnectionTypeOK, LoginRow, AskRow

\* A cancellation tells every CLI that runs for those it cancels.
LEMMA CancelTells ==
  ASSUME ConnectionIInv, NEW ps \in SUBSET Provider, CancelOf(ps), UNCHANGED login
  PROVE  /\ generation' \in [Provider -> 0..MaxGeneration] /\ dying' \subseteq Provider
         /\ CancelledIsTold'
<1>1. \A p \in Provider : generation[p] \in 0..MaxGeneration
  BY DEF ConnectionIInv, ConnectionTypeOK
<1>2. \A p \in Provider : generation'[p] = generation[p] + (IF p \in ps THEN 1 ELSE 0)
                          /\ generation'[p] \in 0..MaxGeneration
  BY <1>1, ConnectionAssumption DEF CancelOf
<1>3. generation' \in [Provider -> 0..MaxGeneration]
  BY <1>2 DEF CancelOf
<1>4. dying' = dying \cup LoginTold(ps) /\ dying' \subseteq Provider
  BY DEF CancelOf, LoginTold, ConnectionIInv, ConnectionTypeOK
<1>5. ASSUME NEW p \in Provider, login'[p].at = "runs", login'[p].id # generation'[p] PROVE p \in dying'
  <2>1. CASE p \in ps
    BY <1>4, <1>5, <2>1 DEF LoginTold
  <2>2. CASE p \notin ps
    BY <1>1, <1>2, <1>4, <1>5, <2>2 DEF ConnectionIInv, CancelledIsTold
  <2>. QED BY <2>1, <2>2
<1>. QED BY <1>3, <1>4, <1>5 DEF CancelledIsTold

\* A request goes to a place of its own, about a provider or nowhere.
LEMMA AskGoes ==
  ASSUME ConnectionIInv, NEW a \in Ask, NEW row \in AskRow, LoginGoes(a, row),
         row.at # "no" => row.p \in Provider, UNCHANGED adopt
  PROVE  AskNames' /\ ask' \in [Ask -> AskRow]
BY DEF ConnectionIInv, ConnectionTypeOK, AskNames, LoginGoes, AskRow

LEMMA NowhereIsRow == Nowhere \in AskRow /\ Nowhere.at = "no"
BY ConnectionAssumption DEF Nowhere, AskRow
LEMMA LoginAtIsRow ==
  ASSUME NEW place \in {"clearsSignIn", "clearsConnect", "signIn", "connect", "cancels"}, NEW p \in Provider,
         NEW id \in 0..MaxGeneration
  PROVE  LoginAt(place, p, id) \in AskRow /\ LoginAt(place, p, id).p \in Provider
BY DEF LoginAt, AskRow

LEMMA ConnectionKept == ConnectionIInv /\ [ConnectionNext]_loginVars => ConnectionIInv'
<1> SUFFICES ASSUME ConnectionIInv, [ConnectionNext]_loginVars PROVE ConnectionIInv'
  OBVIOUS
<1> USE DEF ConnectionIInv
<1>1. ASSUME NEW p \in Provider, LoginPrepares(p) \/ LoginLaunches(p) PROVE ConnectionIInv'
  BY <1>1 DEF LoginPrepares, LoginLaunches, Moves, Wanted, CancelledIsTold, ConnectionTypeOK, AskNames
<1>2. ASSUME NEW p \in Provider, CliEnds(p) \/ LoginEnds(p) PROVE ConnectionIInv'
  BY <1>2 DEF CliEnds, LoginEnds, Connected, Moves, Wanted, CancelledIsTold, ConnectionTypeOK, AskNames
<1>3. ASSUME NEW a \in Ask, AsksCli(a) PROVE ConnectionIInv'
  <2>1. ask[a].p \in Provider /\ generation[ask[a].p] \in 0..MaxGeneration
    BY <1>3 DEF AsksCli, AskNames, ConnectionTypeOK
  <2>2. AskNames' /\ ask' \in [Ask -> AskRow]
    BY <1>3, <2>1, AskGoes, NowhereIsRow, LoginAtIsRow DEF AsksCli
  <2>. QED BY <1>3, <2>2 DEF AsksCli, CancelledIsTold, ConnectionTypeOK, AskRow
<1>4. ASSUME NEW a \in Ask, SignIn(a) PROVE ConnectionIInv'
  <2>1. ask[a].p \in Provider /\ generation[ask[a].p] \in 0..MaxGeneration
    BY <1>4 DEF SignIn, AskNames, ConnectionTypeOK
  <2>2. AskNames' /\ ask' \in [Ask -> AskRow]
    BY <1>4, <2>1, AskGoes, NowhereIsRow, LoginAtIsRow DEF SignIn
  <2>3. CASE UNCHANGED <<generation, login>>
    BY <1>4, <2>2, <2>3 DEF SignIn, CancelledIsTold, ConnectionTypeOK, AskRow
  <2>4. CASE /\ generation[ask[a].p] < MaxGeneration
             /\ generation' = [generation EXCEPT ![ask[a].p] = generation[ask[a].p] + 1]
             /\ login' = [login EXCEPT ![ask[a].p] = [at |-> "mkdir", id |-> generation[ask[a].p] + 1]]
    <3>1. generation[ask[a].p] + 1 \in 0..MaxGeneration
      BY <2>1, <2>4, ConnectionAssumption
    <3>2. generation' \in [Provider -> 0..MaxGeneration] /\ login' \in [Provider -> LoginRow]
      BY <2>1, <2>4, <3>1 DEF ConnectionTypeOK, LoginRow
    <3>3. CancelledIsTold'
      BY <1>4, <2>1, <2>4 DEF SignIn, CancelledIsTold, ConnectionTypeOK
    <3>. QED BY <1>4, <2>2, <3>2, <3>3 DEF SignIn, ConnectionTypeOK, LoginRow, AskRow
  <2>. QED BY <1>4, <2>3, <2>4 DEF SignIn
<1>5. ASSUME NEW a \in Ask, LoginConnects(a) PROVE ConnectionIInv'
  <2>1. ask[a].p \in Provider
    BY <1>5 DEF LoginConnects, AskNames
  <2>2. AskNames' /\ ask' \in [Ask -> AskRow]
    BY <1>5, AskGoes, NowhereIsRow DEF LoginConnects
  <2>. QED BY <1>5, <2>1, <2>2 DEF LoginConnects, Connected, CancelledIsTold, ConnectionTypeOK, AskRow
<1>6. ASSUME NEW a \in Ask, LoginRequests(a) PROVE ConnectionIInv'
  <2>1. PICK p \in Provider, place \in {"clearsSignIn", "clearsConnect"}, other \in Provider :
          CancelOf({other}) /\ LoginGoes(a, LoginAt(place, p, login[other].id))
    BY <1>6 DEF LoginRequests
  <2>2. login[other].id \in 0..MaxGeneration
    BY DEF ConnectionTypeOK
  <2>3. AskNames' /\ ask' \in [Ask -> AskRow]
    BY <1>6, <2>1, <2>2, AskGoes, LoginAtIsRow DEF LoginRequests
  <2>4. generation' \in [Provider -> 0..MaxGeneration] /\ dying' \subseteq Provider /\ CancelledIsTold'
    BY <1>6, <2>1, CancelTells DEF LoginRequests
  <2>. QED BY <1>6, <2>3, <2>4 DEF LoginRequests, ConnectionTypeOK, AskRow
<1>7. ASSUME NEW a \in Ask, Cancels(a) PROVE ConnectionIInv'
  <2>1. CASE \E p \in Provider : CancelOf({p}) /\ LoginGoes(a, LoginAt("cancels", p, login[p].id))
    <3>1. PICK p \in Provider : CancelOf({p}) /\ LoginGoes(a, LoginAt("cancels", p, login[p].id))
      BY <2>1
    <3>2. login[p].id \in 0..MaxGeneration
      BY DEF ConnectionTypeOK
    <3>3. AskNames' /\ ask' \in [Ask -> AskRow]
      BY <1>7, <3>1, <3>2, AskGoes, LoginAtIsRow DEF Cancels
    <3>4. generation' \in [Provider -> 0..MaxGeneration] /\ dying' \subseteq Provider /\ CancelledIsTold'
      BY <1>7, <3>1, CancelTells DEF Cancels
    <3>. QED BY <1>7, <3>3, <3>4 DEF Cancels, ConnectionTypeOK, AskRow
  <2>2. CASE LoginGoes(a, Nowhere) /\ UNCHANGED <<generation, dying>>
    <3>1. AskNames' /\ ask' \in [Ask -> AskRow]
      BY <1>7, <2>2, AskGoes, NowhereIsRow DEF Cancels
    <3>. QED BY <1>7, <2>2, <3>1 DEF Cancels, CancelledIsTold, ConnectionTypeOK, AskRow
  <2>. QED BY <1>7, <2>1, <2>2 DEF Cancels
<1>8. CASE AdoptBegins \/ AdoptEnds
  <2>1. /\ adopt' \in [at : {"no", "connect"}, p : Provider \cup {NoProvider}, id : 0..MaxGeneration]
        /\ adopt'.at # "no" => adopt'.p \in Provider
    BY <1>8, ConnectionAssumption DEF AdoptBegins, AdoptEnds, LoginAt, Nowhere, ConnectionTypeOK
  <2>2. configured' \in Provider \cup {NoProvider}
    BY <1>8 DEF AdoptBegins, AdoptEnds, Connected, ConnectionTypeOK, AskNames
  <2>. QED BY <1>8, <2>1, <2>2 DEF AdoptBegins, AdoptEnds, ConnectionTypeOK, AskNames, CancelledIsTold
<1>9. CASE SessionEnds
  BY <1>9 DEF SessionEnds, ConnectionTypeOK, AskNames, CancelledIsTold
<1>10. CASE SessionFoundEnded \/ Shuts
  <2>1. \E ps \in SUBSET Provider : CancelOf(ps) /\ UNCHANGED login
    BY <1>10 DEF SessionFoundEnded, Shuts
  <2>2. generation' \in [Provider -> 0..MaxGeneration] /\ dying' \subseteq Provider /\ CancelledIsTold'
    BY <2>1, CancelTells
  <2>. QED BY <1>10, <2>2 DEF SessionFoundEnded, Shuts, ConnectionTypeOK, AskNames
<1>11. CASE UNCHANGED loginVars
  BY <1>11 DEF loginVars, ConnectionTypeOK, AskNames, CancelledIsTold
<1>. QED
  BY <1>1, <1>2, <1>3, <1>4, <1>5, <1>6, <1>7, <1>8, <1>9, <1>10, <1>11
     DEF ConnectionNext, LoginStep, AskStep

\* A sign-in that was cancelled has had its CLI told to end, also when the cancellation met it before
\* there was a CLI to tell (codex-connection.ts, cancel).
THEOREM CancelledCliIsTold == ConnectionSpec => [](ConnectionTypeOK /\ CancelledIsTold)
<1>1. ConnectionIInv => ConnectionTypeOK /\ CancelledIsTold
  BY DEF ConnectionIInv
<1>. QED BY <1>1, ConnectionStarts, ConnectionKept, PTL DEF ConnectionSpec

\* A sign-in that ends its probe connects its provider only if it was not cancelled and its operator
\* is still signed in (codex-connection.ts).
THEOREM NothingConnectsLateCorrect == ConnectionSpec => NothingConnectsLate
<1> DEFINE Step == \A p \in Provider : login[p].at = "probe" /\ configured' # configured
                                       /\ login'[p].at = "no" => Wanted(p)
<1>1. ConnectionIInv /\ [ConnectionNext]_loginVars => [Step]_loginVars
  <2> SUFFICES ASSUME ConnectionIInv, ConnectionNext, NEW p \in Provider, login[p].at = "probe",
                      configured' # configured, login'[p].at = "no"
               PROVE  Wanted(p)
    OBVIOUS
  <2>1. login' # login
    OBVIOUS
  <2>2. \E q \in Provider : LoginEnds(q)
    BY <2>1 DEF ConnectionNext, LoginStep, AskStep, LoginPrepares, LoginLaunches, CliEnds,
         LoginRequests, AsksCli,
       SignIn, LoginConnects, Cancels, AdoptBegins, AdoptEnds, SessionEnds, SessionFoundEnded, Shuts
  <2>3. LoginEnds(p)
    BY <2>2 DEF LoginEnds, Moves, ConnectionIInv, ConnectionTypeOK
  <2>. QED BY <2>3 DEF LoginEnds
<1>. QED
  BY <1>1, ConnectionStarts, ConnectionKept, PTL DEF ConnectionSpec, NothingConnectsLate

-----------------------------------------------------------------------------
(* Connectors *)

\* A request by what it has read: nothing yet, the tools it is for, a manifest, what it is to write.
For == {"discover", "approve", "call"}
OnItsWay == {"session", "connect", "list"}
Settled == {"approve", "call", "sent", "save"}
ApprovalRow == [digest : Manifests \cup {Unknown}, tools : SUBSET AllTools]
Asking == [for : {"discover"}, at : OnItsWay]
Naming == [for : For, at : OnItsWay \cup Settled, tools : SUBSET AllTools]
Reading == [for : For, at : {"listed"} \cup Settled, manifest : Manifests, tools : SUBSET AllTools]
Writing == [for : For, at : {"write"} \cup Settled, tools : SUBSET AllTools, snapshot : ApprovalRow]
RequestIs(q) == q = NoRequest \/ q \in Asking \/ q \in Naming \/ q \in Reading \/ q \in Writing
\* What a request settles is about a manifest that is known.
KnownFirst == \A r \in BrokerRequests : request[r].at \in Settled \cup {"write"} => discovered \in Manifests
RequestsTyped == DOMAIN request = BrokerRequests /\ \A r \in BrokerRequests : RequestIs(request[r])
\* What was taken back is gone.
DroppedIsGone == dropped => approvals = NoApproval
ConnectorIInv ==
    /\ ConnectorTypeOK /\ approvals \in ApprovalRow /\ disk \in ApprovalRow
    /\ RequestsTyped /\ KnownFirst /\ DroppedIsGone

LEMMA ConnectorStarts == ConnectorInit => ConnectorIInv
<1> SUFFICES ASSUME ConnectorInit PROVE ConnectorIInv
  OBVIOUS
<1>1. NoApproval \in ApprovalRow
  BY DEF NoApproval, ApprovalRow
<1>2. RequestsTyped /\ KnownFirst
  BY DEF ConnectorInit, RequestsTyped, RequestIs, KnownFirst, NoRequest, Settled
<1>. QED
  BY <1>1, <1>2 DEF ConnectorInit, ConnectorIInv, ConnectorTypeOK, DroppedIsGone, ApprovalRow,
       NoApproval

\* One request moves.
LEMMA RequestMove ==
  ASSUME RequestsTyped, KnownFirst, NEW r \in BrokerRequests, NEW q, RequestIs(q),
         request' = [request EXCEPT ![r] = q], q.at \in Settled \cup {"write"} => discovered' \in Manifests,
         discovered \in Manifests => discovered' \in Manifests
  PROVE  RequestsTyped' /\ KnownFirst'
BY DEF RequestsTyped, KnownFirst

\* A request that goes on to another step is one still.
LEMMA GoesOn ==
  ASSUME NEW q, RequestIs(q), NEW step, q \notin {NoRequest}
  PROVE  LET p == [q EXCEPT !.at = step] IN
         /\ p.at = step /\ p.for = q.for
         /\ q.at \in OnItsWay /\ step \in OnItsWay => RequestIs(p)
         /\ q \notin Asking /\ step \in Settled => RequestIs(p)
BY DEF RequestIs, Asking, Naming, Reading, Writing, OnItsWay, Settled

LEMMA FromPlace ==
  ASSUME NEW q, RequestIs(q)
  PROVE  /\ q.at # "none" => q # NoRequest /\ q.for \in For
         /\ q.at \in Settled \cup {"listed", "write"} => q \notin Asking /\ q.tools \in SUBSET AllTools
         /\ q.at = "listed" => q \in Reading
         /\ q.at = "write" => q \in Writing
         /\ q.at \in OnItsWay => q \in Asking \/ (q \in Naming)
BY DEF RequestIs, Asking, Naming, Reading, Writing, OnItsWay, Settled, NoRequest, For

\* What a request does once the tools are known.
LEMMA KnownIs ==
  ASSUME RequestsTyped, NEW r \in BrokerRequests, request[r].at \in {"listed", "write"}
  PROVE  \E q : /\ RequestIs(q) /\ Known(r) = [request EXCEPT ![r] = q]
                /\ q.at \in Settled \cup {"none"}
<1>1. RequestIs(request[r]) /\ request[r] # NoRequest /\ request[r].for \in For /\ request[r] \notin Asking
  BY FromPlace DEF RequestsTyped
<1>2. CASE request[r].for = "discover"
  <2>1. Known(r) = [request EXCEPT ![r] = NoRequest]
    BY <1>2 DEF Known, Ended
  <2>2. RequestIs(NoRequest) /\ NoRequest.at = "none"
    BY DEF RequestIs, NoRequest
  <2>. QED BY <2>1, <2>2
<1>3. CASE request[r].for # "discover"
  <2> DEFINE q == [request[r] EXCEPT !.at = request[r].for]
  <2>1. request[r].for \in Settled
    BY <1>1, <1>3 DEF For, Settled
  <2>2. RequestIs(q) /\ q.at \in Settled
    BY <1>1, <2>1, GoesOn
  <2>3. Known(r) = [request EXCEPT ![r] = q]
    BY <1>3 DEF Known, To
  <2>. QED BY <2>2, <2>3
<1>. QED BY <1>2, <1>3

LEMMA ApprovalsAreTyped ==
  ASSUME approvals \in ApprovalRow, disk \in ApprovalRow, server \in Manifests, {brokerSession, dropped} \subseteq BOOLEAN,
         clients \in Nat, discovered \in Manifests \cup {Unknown}
  PROVE  ConnectorTypeOK
BY DEF ApprovalRow, ConnectorTypeOK

LEMMA ConnectorKept == ConnectorIInv /\ [ConnectorNext]_connectorVars => ConnectorIInv'
<1> SUFFICES ASSUME ConnectorIInv, [ConnectorNext]_connectorVars PROVE ConnectorIInv'
  OBVIOUS
<1>. USE DEF ConnectorIInv, ConnectorTypeOK, DroppedIsGone
<1>1. RequestsTyped /\ KnownFirst /\ NoRequest.at = "none" /\ RequestIs(NoRequest)
  BY DEF RequestIs, NoRequest
<1>2. ASSUME NEW r \in BrokerRequests, NEW q, RequestIs(q), RequestAt(r, "none"), BrokerAsks(r, q),
             q.at \in Settled \cup {"write"} => discovered \in Manifests
      PROVE  ConnectorIInv'
  <2>1. RequestsTyped' /\ KnownFirst'
    BY <1>1, <1>2, RequestMove DEF BrokerAsks
  <2>. QED BY <1>2, <2>1 DEF BrokerAsks
<1>3. ASSUME NEW r \in BrokerRequests, Discover(r) \/ (\E t \in AllTools : BrokerCall(r, t))
                                       \/ (\E tools \in SUBSET AllTools : Approve(r, tools))
      PROVE  ConnectorIInv'
  <2>1. CASE Discover(r)
    BY <1>2, <1>3, <2>1 DEF Discover, RequestIs, Asking, OnItsWay, Settled, BrokerAsks, Arrives
  <2>2. ASSUME NEW tools \in SUBSET AllTools, NEW what \in {"approve", "call"}
        PROVE  LET q == [for |-> what, at |-> IF discovered = Unknown THEN "session" ELSE what, tools |-> tools]
               IN  RequestIs(q) /\ (q.at \in Settled \cup {"write"} => discovered \in Manifests)
    BY <2>2 DEF RequestIs, Naming, For, OnItsWay, Settled
  <2>3. CASE \E tools \in SUBSET AllTools : Approve(r, tools)
    BY <1>2, <2>2, <2>3 DEF Approve, BrokerAsks, Arrives
  <2>4. CASE \E t \in AllTools : BrokerCall(r, t)
    <3>1. PICK t \in AllTools : BrokerCall(r, t)
      BY <2>4
    <3>2. {t} \in SUBSET AllTools
      OBVIOUS
    <3>. QED BY <1>2, <2>2, <3>1, <3>2 DEF BrokerCall, BrokerAsks, Arrives
  <2>. QED BY <1>3, <2>1, <2>3, <2>4
<1>4. ASSUME NEW r \in BrokerRequests, HasSession(r) \/ Connects(r) PROVE ConnectorIInv'
  <2>1. RequestIs(request[r]) /\ request[r].at \in OnItsWay
    BY <1>1, <1>4 DEF RequestsTyped, HasSession, Connects, RequestAt, OnItsWay
  <2>2. \E step \in OnItsWay : request' = To(r, step)
    BY <1>4 DEF HasSession, Connects, OnItsWay
  <2>3. PICK step \in OnItsWay : request' = [request EXCEPT ![r] = [request[r] EXCEPT !.at = step]]
    BY <2>2 DEF To
  <2> DEFINE q == [request[r] EXCEPT !.at = step]
  <2>4. RequestIs(q) /\ q.at = step
    BY <2>1, GoesOn, FromPlace DEF OnItsWay
  <2>5. RequestsTyped' /\ KnownFirst'
    BY <1>1, <1>4, <2>3, <2>4, RequestMove DEF HasSession, Connects, OnItsWay, Settled
  <2>6. CASE HasSession(r)
    BY <2>5, <2>6 DEF HasSession
  <2>7. CASE Connects(r)
    <3>1. clients' \in Nat /\ {brokerSession', dropped'} \subseteq BOOLEAN
      BY <2>7 DEF Connects, OpensClient
    <3>2. UNCHANGED <<server, discovered, approvals, disk, dropped>>
      BY <2>7 DEF Connects
    <3>. QED BY <2>5, <3>1, <3>2
  <2>. QED BY <1>4, <2>6, <2>7
<1>5. ASSUME NEW r \in BrokerRequests, Lists(r) PROVE ConnectorIInv'
  <2>1. RequestIs(request[r]) /\ request[r].at = "list"
    BY <1>1, <1>5 DEF RequestsTyped, Lists, RequestAt
  <2> DEFINE q == [for |-> request[r].for, at |-> "listed", manifest |-> server,
                   tools |-> IF request[r].for = "discover" THEN {} ELSE request[r].tools]
  <2>2. RequestIs(q)
    BY <2>1 DEF RequestIs, NoRequest, Asking, Naming, Reading, Writing, OnItsWay, Settled, For
  <2>3. RequestsTyped' /\ KnownFirst'
    BY <1>1, <1>5, <2>2, RequestMove DEF Lists, Settled
  <2>. QED BY <1>5, <2>3 DEF Lists
<1>6. ASSUME NEW r \in BrokerRequests, BrokerFails(r) \/ Returns(r) \/ BrokerSends(r) PROVE ConnectorIInv'
  <2>1. CASE request' = Ended(r)
    <3>1. RequestsTyped' /\ KnownFirst'
      BY <1>1, <1>6, <2>1, RequestMove DEF Ended, BrokerFails, Returns, BrokerSends, Settled
    <3>. QED BY <1>6, <3>1 DEF BrokerFails, Returns, BrokerSends
  <2>2. CASE BrokerSends(r) /\ request' = To(r, "sent")
    <3>1. RequestIs(request[r]) /\ request[r].at = "call"
      BY <1>1, <2>2 DEF RequestsTyped, BrokerSends, RequestAt
    <3> DEFINE q == [request[r] EXCEPT !.at = "sent"]
    <3>2. RequestIs(q) /\ discovered \in Manifests
      BY <1>1, <3>1, GoesOn, FromPlace DEF Settled, KnownFirst
    <3>3. RequestsTyped' /\ KnownFirst'
      BY <1>1, <2>2, <3>2, RequestMove DEF To, BrokerSends
    <3>. QED BY <2>2, <3>3 DEF BrokerSends
  <2>. QED BY <1>6, <2>1, <2>2 DEF BrokerFails, Returns, BrokerSends
<1>7. ASSUME NEW r \in BrokerRequests, Discovers(r) PROVE ConnectorIInv'
  <2>1. RequestIs(request[r]) /\ request[r].at = "listed" /\ request[r] \in Reading
    BY <1>1, <1>7, FromPlace DEF RequestsTyped, Discovers, RequestAt
  <2>2. discovered' \in Manifests
    BY <1>7, <2>1 DEF Discovers, Reading
  <2>3. CASE Changed(r)
    <3> DEFINE q == [request[r] EXCEPT !.at = "save"]
    <3>1. RequestIs(q)
      BY <2>1, GoesOn, FromPlace DEF Settled
    <3>2. request' = [request EXCEPT ![r] = q]
      BY <1>7, <2>3 DEF Discovers, To
    <3>3. RequestsTyped' /\ KnownFirst'
      BY <1>1, <2>2, <3>1, <3>2, RequestMove
    <3>. QED BY <1>7, <2>2, <2>3, <3>3 DEF Discovers, NoApproval, ApprovalRow
  <2>4. CASE ~Changed(r)
    <3>1. PICK q : RequestIs(q) /\ Known(r) = [request EXCEPT ![r] = q]
      BY <1>1, <2>1, KnownIs
    <3>2. RequestsTyped' /\ KnownFirst'
      BY <1>1, <1>7, <2>2, <2>4, <3>1, RequestMove DEF Discovers
    <3>. QED BY <1>7, <2>2, <2>4, <3>2 DEF Discovers
  <2>. QED BY <2>3, <2>4
<1>8. ASSUME NEW r \in BrokerRequests, Approves(r) PROVE ConnectorIInv'
  <2>1. RequestIs(request[r]) /\ request[r].at = "approve" /\ discovered \in Manifests
    BY <1>1, <1>8 DEF RequestsTyped, KnownFirst, Approves, RequestAt, Settled
  <2> DEFINE q == [request[r] EXCEPT !.for = "discover", !.at = "save"]
  <2>2. RequestIs(q)
    <3>1. request[r] \in Naming \/ request[r] \in Reading \/ request[r] \in Writing
      BY <2>1, FromPlace DEF RequestIs, NoRequest, Settled
    <3>2. CASE request[r] \in Naming
      BY <3>2 DEF RequestIs, Naming, Settled, For
    <3>3. CASE request[r] \in Reading
      BY <3>3 DEF RequestIs, Reading, Settled, For
    <3>4. CASE request[r] \in Writing
      BY <3>4 DEF RequestIs, Writing, Settled, For
    <3>. QED BY <3>1, <3>2, <3>3, <3>4
  <2>3. request' = [request EXCEPT ![r] = q]
    BY <1>8 DEF Approves
  <2>4. RequestsTyped' /\ KnownFirst'
    BY <1>1, <1>8, <2>1, <2>2, <2>3, RequestMove DEF Approves
  <2>5. request[r].tools \cap ToolsOf[discovered] \subseteq AllTools
    BY <2>1, FromPlace DEF Settled
  <2>6. approvals' \in ApprovalRow
    BY <1>8, <2>1, <2>5 DEF Approves, ApprovalRow
  <2>. QED BY <1>8, <2>4, <2>6 DEF Approves, ApprovalRow
<1>9. ASSUME NEW r \in BrokerRequests, Saves(r) PROVE ConnectorIInv'
  <2>1. RequestIs(request[r]) /\ request[r].at = "save" /\ discovered \in Manifests
    BY <1>1, <1>9 DEF RequestsTyped, KnownFirst, Saves, RequestAt, Settled
  <2> DEFINE q == [for |-> request[r].for, at |-> "write", tools |-> request[r].tools, snapshot |-> approvals]
  <2>2. RequestIs(q)
    BY <2>1, FromPlace DEF RequestIs, Writing, Settled
  <2>3. RequestsTyped' /\ KnownFirst'
    BY <1>1, <1>9, <2>1, <2>2, RequestMove DEF Saves
  <2>. QED BY <1>9, <2>3 DEF Saves
<1>10. ASSUME NEW r \in BrokerRequests, Written(r) PROVE ConnectorIInv'
  <2>1. RequestIs(request[r]) /\ request[r].at = "write" /\ request[r] \in Writing /\ discovered \in Manifests
    BY <1>1, <1>10, FromPlace DEF RequestsTyped, KnownFirst, Written, RequestAt
  <2>2. PICK q : RequestIs(q) /\ Known(r) = [request EXCEPT ![r] = q]
    BY <1>1, <2>1, KnownIs
  <2>3. RequestsTyped' /\ KnownFirst'
    BY <1>1, <1>10, <2>1, <2>2, RequestMove DEF Written
  <2>4. disk' \in ApprovalRow
    BY <1>10, <2>1 DEF Written, Writing
  <2>. QED BY <1>10, <2>3, <2>4 DEF Written, ApprovalRow
<1>11. CASE ServerChanges
  BY <1>1, <1>11 DEF ServerChanges, RequestsTyped, KnownFirst
<1>12. CASE Restarts
  <2>1. RequestsTyped' /\ KnownFirst'
    BY <1>1, <1>12 DEF Restarts, RequestsTyped, KnownFirst, Settled
  <2>2. approvals' \in ApprovalRow
    BY <1>12 DEF Restarts, Loaded, NoApproval, ApprovalRow
  <2>. QED BY <1>12, <2>1, <2>2 DEF Restarts, ApprovalRow
<1>13. CASE UNCHANGED connectorVars
  BY <1>1, <1>13 DEF connectorVars, RequestsTyped, KnownFirst
<1>. QED
  BY <1>3, <1>4, <1>5, <1>6, <1>7, <1>8, <1>9, <1>10, <1>11, <1>12, <1>13 DEF ConnectorNext

\* A call goes out only as the broker sends it, under an approval.
LEMMA SentIsApproved ==
  ASSUME ConnectorIInv, ConnectorNext, NEW r \in BrokerRequests, RequestAt(r, "call"), request'[r].at = "sent"
  PROVE  ~dropped
<1>1. RequestsTyped /\ request[r].at = "call"
  BY DEF ConnectorIInv, RequestAt
<1>2. ASSUME NEW s \in BrokerRequests, NEW q, request' = [request EXCEPT ![s] = q] PROVE s = r /\ q.at = "sent"
  BY <1>1, <1>2 DEF RequestsTyped
<1>3. ASSUME BrokerSends(r) PROVE ~dropped
  <2>1. CASE Approved(r)
    BY <2>1 DEF Approved, Matched, ConnectorIInv, DroppedIsGone
  <2>2. CASE ~Approved(r)
    <3>1. request' = [request EXCEPT ![r] = NoRequest] /\ NoRequest.at = "none"
      BY <1>3, <2>2 DEF BrokerSends, Ended, NoRequest
    <3>. QED BY <1>2, <3>1
  <2>. QED BY <2>1, <2>2
<1>4. ASSUME NEW s \in BrokerRequests, Discover(s) \/ (\E tools \in SUBSET AllTools : Approve(s, tools))
                                      \/ (\E t \in AllTools : BrokerCall(s, t)) PROVE FALSE
  BY <1>1, <1>2, <1>4 DEF Discover, Approve, BrokerCall, BrokerAsks, Arrives, RequestAt
<1>5. ASSUME NEW s \in BrokerRequests, HasSession(s) \/ Connects(s) \/ Lists(s) \/ BrokerFails(s) \/ Returns(s)
      PROVE  FALSE
  BY <1>1, <1>2, <1>5 DEF HasSession, Connects, Lists, BrokerFails, Returns, To, Ended, RequestAt
<1>6. ASSUME NEW s \in BrokerRequests, Discovers(s) \/ Written(s) PROVE FALSE
  <2>1. request[s].at \in {"listed", "write"} /\ s # r
    BY <1>1, <1>6 DEF Discovers, Written, RequestAt
  <2>2. request' = To(s, "save") \/ request' = Known(s)
    BY <1>6 DEF Discovers, Written
  <2>. QED BY <1>2, <2>1, <2>2 DEF To, Known, Ended
<1>7. ASSUME NEW s \in BrokerRequests, Approves(s) \/ Saves(s) PROVE FALSE
  BY <1>1, <1>2, <1>7 DEF Approves, Saves, RequestAt
<1>8. CASE ServerChanges \/ Restarts
  BY <1>1, <1>8 DEF ServerChanges, Restarts, NoRequest
<1>9. ASSUME NEW s \in BrokerRequests, BrokerSends(s) PROVE s = r
  BY <1>2, <1>9 DEF BrokerSends, To, Ended
<1>. QED
  BY <1>3, <1>4, <1>5, <1>6, <1>7, <1>8, <1>9 DEF ConnectorNext

\* While a daemon runs, a manifest that was seen to change is called only after a new approval, also
\* when the server goes back to the tools approved before (connectors.ts, discover).
THEOREM ReconsentIsAsked == ConnectorSpec => ReconsentAfterChange
<1>1. ConnectorIInv /\ [ConnectorNext]_connectorVars =>
        [\A r \in BrokerRequests : (RequestAt(r, "call") /\ request'[r].at = "sent") => ~dropped]_connectorVars
  BY SentIsApproved
<1>. QED
  BY <1>1, ConnectorStarts, ConnectorKept, PTL DEF ConnectorSpec, ReconsentAfterChange

-----------------------------------------------------------------------------
(* The shell over the daemon *)

ShellRow ==
    [state : {"idle", "preparing", "ready", "failed"}, process : Pids \cup {None}, restarts : 0..MaxRestarts,
     stopping : BOOLEAN, sentinel : BOOLEAN, watch : BOOLEAN, strays : Nat, delays : Nat, loaded : BOOLEAN,
     quits : BOOLEAN, up : BOOLEAN, since : Nat]
ShellTyped ==
    /\ SupervisorTypeOK /\ shell \in ShellRow
    /\ launched \in 0..LaunchBound /\ pages \in Nat /\ shellDeaths \in Nat
\* A child that has ended is not alive, and its end is handled once.
EndedOnce == ended \cap ShellAlive = {} /\ ShellAlive \cup ended \subseteq 1..launched
\* What went wrong: reloads to an error, and kills of the shell.
Lent == pages + shellDeaths
\* A launch that nothing but a button, or the start, waits for.
LaunchWaits == IF shellView = "error" \/ shell.state = "idle" THEN 1 ELSE 0
\* One launch at a time: a child, the handling of its end, the restart that is due and the button that is
\* shown are one turn, handed on; only what went wrong makes another.
OneTurn == Cardinality(ShellAlive \cup ended) + shell.delays + LaunchWaits <= 1 + Lent
\* When the supervisor holds no live child, those that live are lent.
HoldsTheRest == shell.process \notin ShellAlive => Cardinality(ShellAlive) <= Lent
QuitIsFinal ==
    /\ shell.quits => shell.stopping /\ shell.process \notin ShellAlive /\ shell.state # "idle"
    /\ ~shell.up => shell.state = "idle"
ShellIInv == ShellTyped /\ EndedOnce /\ OneTurn /\ HoldsTheRest /\ QuitIsFinal

\* Counting sets of children.
LEMMA PidsCounted ==
  ASSUME NEW S, S \subseteq Pids
  PROVE  IsFiniteSet(S) /\ Cardinality(S) \in Nat
<1>1. IsFiniteSet(Pids)
  BY FS_Interval, SupervisorAssumption DEF Pids
<1>. QED BY <1>1, FS_Subset, FS_CardinalityType

LEMMA FewerPids ==
  ASSUME NEW S, NEW T, S \subseteq T, T \subseteq Pids
  PROVE  Cardinality(S) <= Cardinality(T)
BY PidsCounted, FS_Subset

LEMMA OneFewer ==
  ASSUME NEW S, NEW T, T \subseteq Pids, NEW p \in T, S \subseteq T \ {p}
  PROVE  Cardinality(S) + 1 <= Cardinality(T)
<1>1. IsFiniteSet(T) /\ Cardinality(T \ {p}) = Cardinality(T) - 1 /\ Cardinality(T) \in Nat
  BY PidsCounted, FS_RemoveElement
<1>2. Cardinality(S) <= Cardinality(T \ {p}) /\ Cardinality(S) \in Nat /\ Cardinality(T \ {p}) \in Nat
  BY FewerPids, PidsCounted
<1>. QED BY <1>1, <1>2

LEMMA OneMore ==
  ASSUME NEW S, NEW T, T \subseteq Pids, NEW p \in Pids, S \subseteq T \cup {p}
  PROVE  Cardinality(S) <= Cardinality(T) + 1
<1>1. CASE p \in S
  <2>1. Cardinality(S \ {p}) + 1 = Cardinality(S)
    <3>1. IsFiniteSet(S) /\ Cardinality(S) \in Nat
      BY PidsCounted
    <3>2. Cardinality(S \ {p}) = Cardinality(S) - 1
      BY <1>1, <3>1, FS_RemoveElement
    <3>. QED BY <3>1, <3>2
  <2>2. Cardinality(S \ {p}) <= Cardinality(T) /\ Cardinality(S \ {p}) \in Nat /\ Cardinality(T) \in Nat
    BY FewerPids, PidsCounted
  <2>. QED BY <2>1, <2>2
<1>2. CASE p \notin S
  <2>1. Cardinality(S) <= Cardinality(T) /\ Cardinality(S) \in Nat /\ Cardinality(T) \in Nat
    BY <1>2, FewerPids, PidsCounted
  <2>. QED BY <2>1
<1>. QED BY <1>1, <1>2

\* The numbers of the invariant are numbers.
LEMMA ShellNumbers ==
  ASSUME ShellTyped
  PROVE  /\ ShellAlive \subseteq Pids /\ ended \subseteq Pids /\ ShellAlive \cup ended \subseteq Pids
         /\ Cardinality(ShellAlive) \in Nat /\ Cardinality(ShellAlive \cup ended) \in Nat
         /\ Cardinality(ShellAlive) <= Cardinality(ShellAlive \cup ended)
         /\ Lent \in Nat /\ LaunchWaits \in {0, 1} /\ shell.delays \in Nat
<1>1. ShellAlive \subseteq Pids /\ ended \subseteq Pids /\ ShellAlive \cup ended \subseteq Pids
  BY DEF ShellAlive, ShellTyped, SupervisorTypeOK
<1>2. Lent \in Nat /\ LaunchWaits \in {0, 1} /\ shell.delays \in Nat
  BY DEF ShellTyped, ShellRow, Lent, LaunchWaits
<1>. QED BY <1>1, <1>2, PidsCounted, FewerPids

LEMMA ShellNumbersNext ==
  (ShellTyped => /\ Cardinality(ShellAlive) \in Nat /\ Cardinality(ShellAlive \cup ended) \in Nat
                 /\ LaunchWaits \in {0, 1} /\ shell.delays \in Nat)'
<1>1. ShellTyped => /\ Cardinality(ShellAlive) \in Nat /\ Cardinality(ShellAlive \cup ended) \in Nat
                    /\ LaunchWaits \in {0, 1} /\ shell.delays \in Nat
  BY ShellNumbers
<1>. QED BY <1>1, PTL

LEMMA ShellStarts == SupervisorInit => ShellIInv
<1> SUFFICES ASSUME SupervisorInit PROVE ShellIInv
  OBVIOUS
<1>1. ShellTyped
  BY SupervisorAssumption
     DEF SupervisorInit, ShellTyped, SupervisorTypeOK, ShellRow, NewShell, Gone, None, Pids
<1>2. ShellAlive = {} /\ ended = {} /\ Cardinality({}) = 0
  BY FS_EmptySet DEF SupervisorInit, ShellAlive, Gone
<1>3. shell.delays = 0 /\ LaunchWaits = 1 /\ Lent = 0 /\ ~shell.quits /\ shell.up
  BY DEF SupervisorInit, NewShell, LaunchWaits, Lent
<1>4. EndedOnce /\ HoldsTheRest /\ QuitIsFinal
  BY <1>2, <1>3 DEF EndedOnce, HoldsTheRest, QuitIsFinal
<1>5. OneTurn
  <2>1. ShellAlive \cup ended = {}
    BY <1>2
  <2>. QED BY <1>2, <1>3, <2>1 DEF OneTurn
<1>. QED BY <1>1, <1>4, <1>5 DEF ShellIInv

\* A daemon that ends, by itself or because it is killed, is no longer alive.
LEMMA EndsAlive ==
  ASSUME ShellTyped, NEW p \in Pids, daemons' = [daemons EXCEPT ![p] = Gone]
  PROVE  /\ ShellAlive' = ShellAlive \ {p}
         /\ daemons' \in [Pids -> [phase : {"gone", "booting", "serving"}, port : {"preferred", "other"}]]
BY DEF ShellTyped, SupervisorTypeOK, ShellAlive, Gone

\* The shell changes and no daemon does.
LEMMA ShellOnly ==
  ASSUME ShellTyped, shell' \in ShellRow, UNCHANGED <<daemons, record, launched>>,
         shellSaid' \cup ended' \subseteq Pids, pages' \in Nat, shellDeaths' \in Nat
  PROVE  ShellTyped' /\ ShellAlive' = ShellAlive
BY DEF ShellTyped, SupervisorTypeOK, ShellRow, ShellAlive

\* Children end, or nothing happens to them, and no new turn is made.
LEMMA TurnKept ==
  ASSUME ShellIInv, ShellTyped', ShellAlive' \subseteq ShellAlive,
         ShellAlive' \cup ended' \subseteq ShellAlive \cup ended, ended' \cap ShellAlive' = {},
         UNCHANGED <<launched, pages, shellDeaths>>, shell'.process = shell.process,
         shell'.delays <= shell.delays, LaunchWaits' <= LaunchWaits, QuitIsFinal'
  PROVE  ShellIInv'
<1>1. /\ Cardinality(ShellAlive) \in Nat /\ Cardinality(ShellAlive \cup ended) \in Nat
      /\ Cardinality(ShellAlive) <= Cardinality(ShellAlive \cup ended)
      /\ Lent \in Nat /\ LaunchWaits \in {0, 1} /\ shell.delays \in Nat /\ ShellAlive \cup ended \subseteq Pids
      /\ ShellAlive \subseteq Pids
  BY ShellNumbers DEF ShellIInv
<1>2. /\ Cardinality(ShellAlive') \in Nat /\ Cardinality(ShellAlive' \cup ended') \in Nat
      /\ LaunchWaits' \in {0, 1} /\ shell'.delays \in Nat /\ Lent' = Lent
  BY ShellNumbersNext DEF Lent
<1>3. EndedOnce'
  BY DEF EndedOnce, ShellIInv
<1>4. OneTurn'
  <2>1. Cardinality(ShellAlive' \cup ended') <= Cardinality(ShellAlive \cup ended)
    BY <1>1, FewerPids
  <2>2. Cardinality(ShellAlive' \cup ended') + shell'.delays + LaunchWaits' <= 1 + Lent
    BY <1>1, <1>2, <2>1 DEF OneTurn, ShellIInv
  <2>. QED BY <1>2, <2>2 DEF OneTurn
<1>5. HoldsTheRest'
  <2> SUFFICES ASSUME shell'.process \notin ShellAlive' PROVE Cardinality(ShellAlive') <= Lent
    BY <1>2 DEF HoldsTheRest
  <2>1. CASE shell.process \in ShellAlive
    <3>1. Cardinality(ShellAlive') + 1 <= Cardinality(ShellAlive)
      BY <1>1, <2>1, OneFewer
    <3>. QED BY <1>1, <1>2, <3>1 DEF OneTurn, ShellIInv
  <2>2. CASE shell.process \notin ShellAlive
    <3>1. Cardinality(ShellAlive') <= Cardinality(ShellAlive) /\ Cardinality(ShellAlive) <= Lent
      BY <1>1, <2>2, FewerPids DEF HoldsTheRest, ShellIInv
    <3>. QED BY <1>1, <1>2, <3>1
  <2>. QED BY <2>1, <2>2
<1>. QED BY <1>3, <1>4, <1>5 DEF ShellIInv

\* A child ends, of itself or by a signal: its shell has its end to handle, another shell's is forgotten.
LEMMA ChildEnds ==
  ASSUME ShellIInv, NEW p \in ShellAlive, daemons' = [daemons EXCEPT ![p] = Gone],
         NEW heard \in SUBSET {p}, ended' = ended \cup heard,
         shell' \in ShellRow, shell'.process = shell.process, shell'.delays = shell.delays,
         shell'.state = shell.state, shell'.up = shell.up,
         shell'.quits => shell'.stopping /\ shell.state # "idle" /\ shell.process \notin ShellAlive \ {p},
         record' \in Pids \cup {None}, UNCHANGED <<shellView, shellSaid, launched, pages, shellDeaths>>
  PROVE  ShellIInv'
<1>1. p \in Pids /\ ShellTyped
  BY DEF ShellAlive, ShellIInv
<1>2. /\ ShellAlive' = ShellAlive \ {p}
      /\ daemons' \in [Pids -> [phase : {"gone", "booting", "serving"}, port : {"preferred", "other"}]]
  BY <1>1, EndsAlive
<1>3. ShellTyped'
  BY <1>1, <1>2 DEF ShellTyped, SupervisorTypeOK, ShellRow
<1>4. ShellAlive' \cup ended' \subseteq ShellAlive \cup ended /\ ended' \cap ShellAlive' = {}
  BY <1>2 DEF ShellIInv, EndedOnce
<1>5. QuitIsFinal'
  BY <1>2 DEF ShellIInv, QuitIsFinal
<1>6. shell'.delays <= shell.delays /\ LaunchWaits' <= LaunchWaits
  <2>1. LaunchWaits' = LaunchWaits
    BY DEF LaunchWaits
  <2>. QED BY <1>1, <2>1, ShellNumbers
<1>. QED BY <1>2, <1>3, <1>4, <1>5, <1>6, TurnKept

\* The shell alone steps, and makes no turn.
LEMMA ShellSteps ==
  ASSUME ShellIInv, shell' \in ShellRow, UNCHANGED <<daemons, ended, record, launched, pages, shellDeaths>>,
         shellSaid' \subseteq Pids, shell'.process = shell.process, shell'.delays <= shell.delays,
         shellView' = "error" => shellView = "error", shell'.state = "idle" => shell.state = "idle",
         QuitIsFinal'
  PROVE  ShellIInv'
<1>1. ShellTyped' /\ ShellAlive' = ShellAlive
  BY ShellOnly DEF ShellIInv, ShellTyped, SupervisorTypeOK
<1>2. LaunchWaits' <= LaunchWaits
  BY DEF LaunchWaits
<1>. QED BY <1>1, <1>2, TurnKept DEF ShellIInv, EndedOnce

\* A launch takes the turn that was due: `turn` is the restart whose delay is over, or 0 for a button.
LEMMA LaunchKept ==
  ASSUME ShellIInv, NEW s \in ShellRow, s.process = shell.process, s.up = shell.up, s.up, s.quits = shell.quits,
         ~s.quits, s.state = shell.state, NEW turn \in {0, 1}, s.delays + turn = shell.delays,
         LaunchWaits + turn > 0, Launches(s)
  PROVE  ShellIInv'
<1>0. /\ Cardinality(ShellAlive) \in Nat /\ Cardinality(ShellAlive \cup ended) \in Nat
      /\ Cardinality(ShellAlive) <= Cardinality(ShellAlive \cup ended)
      /\ Lent \in Nat /\ LaunchWaits \in {0, 1} /\ shell.delays \in Nat /\ ShellAlive \cup ended \subseteq Pids
      /\ ShellAlive \subseteq Pids /\ ShellTyped /\ ended \subseteq Pids
  BY ShellNumbers DEF ShellIInv
<1>1. UNCHANGED <<shellSaid, pages, shellDeaths>> /\ shellSaid \cup ended \subseteq Pids /\ s.delays \in Nat
  BY <1>0 DEF Launches, ShellTyped, SupervisorTypeOK, ShellRow
<1>2. Lent' = Lent /\ pages' \in Nat /\ shellDeaths' \in Nat
  BY <1>0, <1>1 DEF Lent, ShellTyped
<1>3. CASE Launch(s) /\ launched = LaunchBound
  <2>1. shell' = s /\ UNCHANGED <<daemons, shellView, ended, record, launched>>
    BY <1>3 DEF Launch
  <2>2. QuitIsFinal'
    BY <2>1 DEF QuitIsFinal
  <2>. QED BY <1>0, <1>1, <2>1, <2>2, ShellSteps
<1>4. CASE Launch(s) /\ launched # LaunchBound
  <2> DEFINE p == launched + 1
             port == Port(ShellAlive \ Reclaimed)
             heard == UNION {ToldOf(q) : q \in Reclaimed}
  <2>1. p \in Pids /\ launched' \in 0..LaunchBound /\ launched' = p /\ launched \in Nat
    BY <1>0, <1>4, SupervisorAssumption DEF Launch, ShellTyped, Pids
  <2>2. port \in {"preferred", "other"}
    BY DEF Port
  <2>3. Reclaimed \subseteq ShellAlive /\ heard \subseteq Reclaimed
    BY DEF Reclaimed, ShellAlive, Holds, ToldOf
  <2>4. daemons' = [q \in Pids |-> IF q = p THEN [phase |-> "booting", port |-> port]
                                  ELSE IF q \in Reclaimed THEN Gone ELSE daemons[q]]
    BY <1>4 DEF Launch
  <2>5. /\ daemons' \in [Pids -> [phase : {"gone", "booting", "serving"}, port : {"preferred", "other"}]]
        /\ ShellAlive' = (ShellAlive \ Reclaimed) \cup {p}
    <3>1. daemons \in [Pids -> [phase : {"gone", "booting", "serving"}, port : {"preferred", "other"}]]
      BY <1>0 DEF ShellTyped, SupervisorTypeOK
    <3>2. p \notin ShellAlive
      BY <2>1 DEF ShellIInv, EndedOnce
    <3>. QED BY <2>1, <2>2, <2>3, <2>4, <3>1, <3>2 DEF ShellAlive, Gone
  <2>6. ended' = ended \cup heard /\ shellView' = "loading" /\ record' = p
    BY <1>4 DEF Launch, ViewOf, WritesRecord
  <2>7. shell' = [s EXCEPT !.state = "preparing", !.process = p, !.stopping = FALSE, !.sentinel = FALSE,
                           !.watch = TRUE, !.strays = @ + (IF s.watch THEN 1 ELSE 0)]
    BY <1>4 DEF Launch
  <2>8. /\ shell' \in ShellRow /\ shell'.process = p /\ shell'.delays = s.delays /\ shell'.state = "preparing"
        /\ ~shell'.quits /\ shell'.up
    <3>1. s.strays + (IF s.watch THEN 1 ELSE 0) \in Nat
      BY DEF ShellRow
    <3>. QED BY <2>1, <2>7, <3>1 DEF ShellRow
  <2>9. heard \subseteq Pids /\ ended' \subseteq Pids
    BY <1>0, <2>3, <2>6
  <2>10. ShellTyped'
    BY <1>1, <1>2, <2>1, <2>5, <2>6, <2>8, <2>9 DEF ShellTyped, SupervisorTypeOK, ShellRow
  <2>11. EndedOnce'
    <3>1. ShellAlive \cup ended \subseteq 1..launched /\ ended \cap ShellAlive = {}
      BY DEF ShellIInv, EndedOnce
    <3>2. p \notin ended /\ 1..launched \subseteq 1..p /\ p \in 1..p /\ p \notin ShellAlive
      BY <2>1, <3>1
    <3>3. ended' \cap ShellAlive' = {}
      BY <2>3, <2>5, <2>6, <3>1, <3>2
    <3>4. ShellAlive' \cup ended' \subseteq 1..p
      BY <2>3, <2>5, <2>6, <3>1, <3>2
    <3>. QED BY <2>1, <3>3, <3>4 DEF EndedOnce
  <2>12. OneTurn'
    <3>1. ShellAlive' \cup ended' \subseteq (ShellAlive \cup ended) \cup {p}
      BY <2>3, <2>5, <2>6
    <3>2. Cardinality(ShellAlive' \cup ended') <= Cardinality(ShellAlive \cup ended) + 1
      BY <1>0, <2>1, <3>1, OneMore
    <3>3. Cardinality(ShellAlive' \cup ended') \in Nat /\ LaunchWaits' = 0
      BY <2>6, <2>8, <2>10, ShellNumbersNext DEF LaunchWaits
    <3>4. Cardinality(ShellAlive' \cup ended') + s.delays <= 1 + Lent
      BY <1>0, <1>1, <3>2, <3>3 DEF OneTurn, ShellIInv
    <3>. QED BY <1>1, <1>2, <2>8, <3>3, <3>4 DEF OneTurn
  <2>. QED BY <2>5, <2>8, <2>10, <2>11, <2>12 DEF HoldsTheRest, QuitIsFinal, ShellIInv
<1>5. CASE LaunchFails(s)
  <2>1. /\ shell' \in ShellRow /\ shell'.process = shell.process /\ shell'.delays = s.delays /\ shell'.state = "failed"
        /\ ~shell'.quits /\ shell'.up
    BY <1>5 DEF LaunchFails, ShellRow
  <2>2. UNCHANGED <<daemons, ended, record, launched>>
    BY <1>5 DEF LaunchFails
  <2>3. ShellTyped' /\ ShellAlive' = ShellAlive
    BY <1>0, <1>1, <1>2, <2>1, <2>2, ShellOnly
  <2>4. EndedOnce' /\ HoldsTheRest' /\ QuitIsFinal'
    BY <1>2, <2>1, <2>2, <2>3 DEF EndedOnce, HoldsTheRest, QuitIsFinal, ShellIInv
  <2>5. OneTurn'
    <3>1. LaunchWaits' \in {0, 1}
      BY DEF LaunchWaits
    <3>2. Cardinality(ShellAlive \cup ended) + s.delays + LaunchWaits' <= 1 + Lent
      BY <1>0, <1>1, <3>1 DEF OneTurn, ShellIInv
    <3>. QED BY <1>2, <2>1, <2>2, <2>3, <3>2 DEF OneTurn
  <2>. QED BY <2>3, <2>4, <2>5 DEF ShellIInv
<1>. QED BY <1>3, <1>4, <1>5 DEF Launches

LEMMA ShellKept ==
  ASSUME ShellIInv, [SupervisorNext]_supervisorVars
  PROVE  ShellIInv'
<1>0. /\ shell \in ShellRow /\ shellSaid \subseteq Pids /\ ended \subseteq Pids /\ ShellTyped /\ QuitIsFinal
      /\ record \in Pids \cup {None} /\ shell.delays \in Nat
  BY DEF ShellTyped, SupervisorTypeOK, ShellIInv, ShellRow
<1>1. CASE ShellStart
  <2>1. LaunchWaits + 0 > 0 /\ ~shell.quits /\ shell.delays + 0 = shell.delays
    BY <1>0, <1>1 DEF ShellStart, QuitIsFinal, LaunchWaits
  <2>. QED BY <1>0, <1>1, <2>1, LaunchKept DEF ShellStart
<1>2. CASE TryAgain
  <2> DEFINE s == [shell EXCEPT !.restarts = 0]
  <2>1. /\ s \in ShellRow /\ s.delays = shell.delays /\ s.quits = shell.quits /\ s.up = shell.up
        /\ s.state = shell.state /\ s.process = shell.process
    BY <1>0, SupervisorAssumption DEF ShellRow
  <2>2. LaunchWaits + 0 > 0 /\ ~shell.quits /\ shell.up /\ Launches(s) /\ s.delays + 0 = shell.delays
    BY <1>0, <1>2, <2>1 DEF TryAgain, LaunchWaits
  <2>. QED BY <2>1, <2>2, LaunchKept
<1>3. CASE Restart
  <2> DEFINE s == [shell EXCEPT !.delays = @ - 1]
  <2>1. /\ s \in ShellRow /\ shell.delays > 0 /\ s.delays = shell.delays - 1 /\ s.quits = shell.quits
        /\ s.up = shell.up /\ s.state = shell.state /\ s.process = shell.process /\ s.stopping = shell.stopping
    <3>1. shell.delays > 0 /\ shell.delays - 1 \in Nat
      BY <1>0, <1>3 DEF Restart
    <3>. QED BY <1>0, <3>1 DEF ShellRow
  <2>2. CASE shell.stopping
    <3>1. shell' = s /\ UNCHANGED <<daemons, shellView, shellSaid, ended, record, launched, budgetVars>>
      BY <1>3, <2>2 DEF Restart
    <3>2. shell'.delays <= shell.delays
      BY <1>0, <2>1, <3>1
    <3>3. QuitIsFinal'
      BY <1>0, <2>1, <3>1 DEF QuitIsFinal, ShellAlive
    <3>. QED BY <1>0, <2>1, <3>1, <3>2, <3>3, ShellSteps DEF budgetVars
  <2>3. CASE ~shell.stopping
    <3>1. ~shell.quits /\ shell.up /\ Launches(s) /\ s.delays + 1 = shell.delays /\ LaunchWaits + 1 > 0
      BY <1>0, <1>3, <2>1, <2>3 DEF Restart, QuitIsFinal, LaunchWaits
    <3>. QED BY <2>1, <3>1, LaunchKept
  <2>. QED BY <2>2, <2>3
<1>4. CASE NotReadyInTime
  <2>1. /\ shell' \in ShellRow /\ shell'.process = shell.process /\ shell'.delays = shell.delays
        /\ shell'.state = shell.state /\ shell'.up = shell.up /\ shell'.quits = shell.quits
        /\ shell'.stopping = shell.stopping
    <3>1. CASE shell.watch
      <4>1. shell' = [shell EXCEPT !.watch = FALSE]
        BY <1>4, <3>1 DEF NotReadyInTime
      <4>. QED BY <1>0, <4>1 DEF ShellRow
    <3>2. CASE ~shell.watch
      <4>1. shell' = [shell EXCEPT !.strays = shell.strays - 1] /\ shell.strays > 0
        BY <1>4, <3>2 DEF NotReadyInTime
      <4>2. shell.strays - 1 \in Nat
        BY <1>0, <4>1 DEF ShellRow
      <4>. QED BY <1>0, <4>1, <4>2 DEF ShellRow
    <3>. QED BY <3>1, <3>2
  <2>2. CASE shell.sentinel \/ shell.process \notin ShellAlive
    <3>1. UNCHANGED <<daemons, ended, shellView, shellSaid, record, launched, budgetVars>>
      BY <1>4, <2>2 DEF NotReadyInTime
    <3>2. QuitIsFinal' /\ shell'.delays <= shell.delays
      BY <1>0, <2>1, <3>1 DEF QuitIsFinal, ShellAlive
    <3>. QED BY <1>0, <2>1, <3>1, <3>2, ShellSteps DEF budgetVars
  <2>3. CASE ~(shell.sentinel \/ shell.process \notin ShellAlive)
    <3>1. /\ daemons' = [daemons EXCEPT ![shell.process] = Gone] /\ ended' = ended \cup {shell.process}
          /\ UNCHANGED <<shellView, shellSaid, record, launched, budgetVars>>
      BY <1>4, <2>3 DEF NotReadyInTime
    <3>2. shell'.quits => FALSE
      BY <1>0, <2>1, <2>3 DEF QuitIsFinal
    <3>. QED BY <1>0, <2>1, <2>3, <3>1, <3>2, ChildEnds DEF budgetVars
  <2>. QED BY <2>2, <2>3
<1>5. CASE PageFails
  <2>1. /\ pages' = pages + 1 /\ shellView' = "error"
        /\ UNCHANGED <<daemons, shell, shellSaid, ended, record, launched, crashes, shellDeaths>>
    BY <1>5 DEF PageFails
  <2>2. pages \in Nat /\ shellDeaths \in Nat
    BY <1>0 DEF ShellTyped
  <2>3. ShellTyped' /\ ShellAlive' = ShellAlive
    BY <1>0, <2>1, <2>2, ShellOnly
  <2>4. Lent' = Lent + 1 /\ Lent \in Nat
    BY <2>1, <2>2 DEF Lent
  <2>5. /\ Cardinality(ShellAlive) \in Nat /\ Cardinality(ShellAlive \cup ended) \in Nat
        /\ LaunchWaits \in {0, 1} /\ LaunchWaits' \in {0, 1}
    BY <1>0, ShellNumbers DEF LaunchWaits
  <2>6. OneTurn'
    <3>1. Cardinality(ShellAlive \cup ended) + shell.delays + LaunchWaits' <= 1 + (Lent + 1)
      BY <1>0, <2>4, <2>5 DEF OneTurn, ShellIInv
    <3>. QED BY <2>1, <2>3, <2>4, <3>1 DEF OneTurn
  <2>7. HoldsTheRest'
    BY <2>1, <2>3, <2>4, <2>5 DEF HoldsTheRest, ShellIInv
  <2>8. EndedOnce' /\ QuitIsFinal'
    BY <2>1, <2>3 DEF EndedOnce, QuitIsFinal, ShellIInv
  <2>. QED BY <2>3, <2>6, <2>7, <2>8 DEF ShellIInv
<1>6. CASE ShutsDown
  <2>1. /\ shell' \in ShellRow /\ shell'.quits /\ shell'.stopping
        /\ shell'.process = shell.process /\ shell'.delays = shell.delays
        /\ shell'.state = shell.state /\ shell'.up = shell.up /\ shell.up /\ shell.state # "idle"
    BY <1>0, <1>6 DEF ShutsDown, ShellRow
  <2>2. record' \in Pids \cup {None}
    BY <1>6 DEF ShutsDown
  <2>3. CASE shell.process \in ShellAlive
    BY <1>0, <1>6, <2>1, <2>2, <2>3, ChildEnds DEF ShutsDown, budgetVars
  <2>4. CASE shell.process \notin ShellAlive
    <3>1. UNCHANGED <<daemons, ended, shellView, shellSaid, launched, budgetVars>>
      BY <1>6, <2>4 DEF ShutsDown
    <3>2. ShellTyped' /\ ShellAlive' = ShellAlive
      BY <1>0, <2>1, <2>2, <3>1 DEF ShellTyped, SupervisorTypeOK, ShellRow, budgetVars, ShellAlive
    <3>3. QuitIsFinal'
      BY <2>1, <2>4, <3>2 DEF QuitIsFinal
    <3>4. shell'.delays <= shell.delays /\ LaunchWaits' <= LaunchWaits
      BY <1>0, <2>1, <3>1 DEF LaunchWaits
    <3>. QED BY <2>1, <3>1, <3>2, <3>3, <3>4, TurnKept DEF ShellIInv, EndedOnce, budgetVars
  <2>. QED BY <2>3, <2>4
<1>7. CASE Exits
  <2>1. /\ shell' = [NewShell EXCEPT !.up = FALSE] /\ shellSaid' = {} /\ ended' = {}
        /\ UNCHANGED <<daemons, shellView, record, launched, budgetVars>> /\ shell.process \notin ShellAlive
    BY <1>0, <1>7 DEF Exits, QuitIsFinal
  <2>2. /\ shell' \in ShellRow /\ shell'.state = "idle" /\ shell'.delays = 0 /\ ~shell'.quits /\ ~shell'.up
        /\ shell'.process = None
    <3>1. 0 \in 0..MaxRestarts /\ 0 \in Nat /\ launched \in Nat
      BY <1>0, SupervisorAssumption DEF ShellTyped
    <3>. QED BY <2>1, <3>1 DEF NewShell, ShellRow, None
  <2>3. pages' \in Nat /\ shellDeaths' \in Nat /\ Lent' = Lent
    BY <1>0, <2>1 DEF ShellTyped, budgetVars, Lent
  <2>4. ShellTyped' /\ ShellAlive' = ShellAlive
    BY <1>0, <2>1, <2>2, <2>3, ShellOnly
  <2>5. Cardinality(ShellAlive) <= Lent /\ Cardinality(ShellAlive) \in Nat /\ Lent \in Nat
    BY <1>0, <2>1, ShellNumbers DEF ShellIInv, HoldsTheRest
  <2>6. OneTurn'
    <3>1. ShellAlive' \cup ended' = ShellAlive /\ LaunchWaits' = 1
      BY <2>1, <2>2, <2>4 DEF LaunchWaits
    <3>. QED BY <2>2, <2>3, <2>5, <3>1 DEF OneTurn
  <2>7. EndedOnce' /\ HoldsTheRest' /\ QuitIsFinal'
    BY <2>1, <2>2, <2>3, <2>4, <2>5 DEF EndedOnce, HoldsTheRest, QuitIsFinal, ShellIInv
  <2>. QED BY <2>4, <2>6, <2>7 DEF ShellIInv
<1>8. CASE ShellDies
  <2>1. /\ shell' = NewShell /\ shellView' = "loading" /\ shellSaid' = {} /\ ended' = {}
        /\ shellDeaths' = shellDeaths + 1 /\ UNCHANGED <<daemons, record, launched, crashes, pages>>
    BY <1>8 DEF ShellDies
  <2>2. /\ shell' \in ShellRow /\ shell'.state = "idle" /\ shell'.delays = 0 /\ ~shell'.quits /\ shell'.up
        /\ shell'.process = None
    <3>1. 0 \in 0..MaxRestarts /\ 0 \in Nat /\ launched \in Nat
      BY <1>0, SupervisorAssumption DEF ShellTyped
    <3>. QED BY <2>1, <3>1 DEF NewShell, ShellRow, None
  <2>3. pages' \in Nat /\ shellDeaths' \in Nat /\ Lent' = Lent + 1 /\ Lent \in Nat
    BY <1>0, <2>1 DEF ShellTyped, Lent
  <2>4. ShellTyped' /\ ShellAlive' = ShellAlive
    BY <1>0, <2>1, <2>2, <2>3, ShellOnly
  <2>5. Cardinality(ShellAlive) <= Lent + 1 /\ Cardinality(ShellAlive) \in Nat
    <3>1. /\ Cardinality(ShellAlive) <= Cardinality(ShellAlive \cup ended) /\ LaunchWaits \in {0, 1}
          /\ Cardinality(ShellAlive) \in Nat /\ Cardinality(ShellAlive \cup ended) \in Nat
      BY <1>0, ShellNumbers
    <3>. QED BY <1>0, <2>3, <3>1 DEF ShellIInv, OneTurn
  <2>6. OneTurn'
    <3>1. ShellAlive' \cup ended' = ShellAlive /\ LaunchWaits' = 1
      BY <2>1, <2>2, <2>4 DEF LaunchWaits
    <3>2. Cardinality(ShellAlive) + 0 + 1 <= 1 + (Lent + 1)
      BY <2>3, <2>5
    <3>. QED BY <2>2, <2>3, <3>1, <3>2 DEF OneTurn
  <2>7. EndedOnce' /\ HoldsTheRest' /\ QuitIsFinal'
    BY <2>1, <2>2, <2>3, <2>4, <2>5 DEF EndedOnce, HoldsTheRest, QuitIsFinal, ShellIInv
  <2>. QED BY <2>4, <2>6, <2>7 DEF ShellIInv
<1>9. ASSUME NEW p \in Pids, Serves(p) PROVE ShellIInv'
  <2>1. p \in ShellAlive /\ ToldOf(p) \in SUBSET {p}
    BY <1>9 DEF Serves, ShellAlive, ToldOf
  <2>2. CASE \E q \in Pids : Holds(q, daemons[p].port)
    <3>1. /\ daemons' = [daemons EXCEPT ![p] = Gone] /\ ended' = ended \cup ToldOf(p) /\ UNCHANGED shellSaid
          /\ UNCHANGED <<shell, shellView, record, launched, budgetVars>>
      BY <1>9, <2>2 DEF Serves
    <3>. QED BY <1>0, <2>1, <3>1, ChildEnds DEF budgetVars, QuitIsFinal
  <2>3. CASE ~\E q \in Pids : Holds(q, daemons[p].port)
    <3>1. /\ daemons' = [daemons EXCEPT ![p].phase = "serving"] /\ shellSaid' = shellSaid \cup ToldOf(p)
          /\ UNCHANGED <<ended, shell, shellView, record, launched, budgetVars>>
      BY <1>9, <2>3 DEF Serves, Reports
    <3>2. /\ daemons' \in [Pids -> [phase : {"gone", "booting", "serving"}, port : {"preferred", "other"}]]
          /\ ShellAlive' = ShellAlive
      BY <1>0, <2>1, <3>1 DEF ShellAlive, ShellTyped, SupervisorTypeOK
    <3>3. ShellTyped'
      BY <1>0, <2>1, <3>1, <3>2 DEF ShellTyped, SupervisorTypeOK, budgetVars
    <3>4. QuitIsFinal' /\ LaunchWaits' <= LaunchWaits /\ shell'.delays <= shell.delays
      BY <1>0, <3>1, <3>2 DEF QuitIsFinal, LaunchWaits
    <3>. QED BY <3>1, <3>2, <3>3, <3>4, TurnKept DEF ShellIInv, EndedOnce, budgetVars
  <2>. QED BY <2>2, <2>3
<1>10. ASSUME NEW p \in Pids, Crash(p) PROVE ShellIInv'
  <2>1. p \in ShellAlive /\ ToldOf(p) \in SUBSET {p}
    BY <1>10 DEF Crash, ShellAlive, ToldOf
  <2>2. /\ daemons' = [daemons EXCEPT ![p] = Gone] /\ ended' = ended \cup ToldOf(p)
        /\ UNCHANGED <<shell, shellView, shellSaid, record, launched, pages, shellDeaths>>
    BY <1>10 DEF Crash
  <2>. QED BY <1>0, <2>1, <2>2, ChildEnds DEF QuitIsFinal
<1>11. ASSUME NEW p \in Pids, ShellReady(p) PROVE ShellIInv'
  <2>1. UNCHANGED <<daemons, ended, record, launched, budgetVars>> /\ shellSaid' \subseteq Pids /\ shell.up
    BY <1>0, <1>11 DEF ShellReady
  <2>2. CASE shell.sentinel
    <3>1. shell' = shell /\ shellView' = shellView
      BY <1>11, <2>2 DEF ShellReady
    <3>2. QuitIsFinal' /\ shell'.delays <= shell.delays
      BY <1>0, <2>1, <3>1 DEF QuitIsFinal, ShellAlive
    <3>. QED BY <1>0, <2>1, <3>1, <3>2, ShellSteps DEF budgetVars
  <2>3. CASE ~shell.sentinel
    <3>1. /\ shell' \in ShellRow /\ shellView' = "page" /\ shell'.state = "ready"
          /\ shell'.process = shell.process /\ shell'.delays = shell.delays /\ shell'.up = shell.up
          /\ shell'.quits = shell.quits /\ shell'.stopping = shell.stopping
      BY <1>0, <1>11, <2>3, ZenonT(30) DEF ShellReady, ShellRow, ViewOf
    <3>2. QuitIsFinal' /\ shell'.delays <= shell.delays
      BY <1>0, <2>1, <3>1 DEF QuitIsFinal, ShellAlive
    <3>. QED BY <1>0, <2>1, <3>1, <3>2, ShellSteps DEF budgetVars
  <2>. QED BY <2>2, <2>3
<1>12. ASSUME NEW p \in Pids, ShellEnded(p) PROVE ShellIInv'
  <2>1. /\ p \in ended /\ ended' = ended \ {p} /\ shell.up
        /\ UNCHANGED <<daemons, shellSaid, record, launched, budgetVars>>
    BY <1>12 DEF ShellEnded
  <2>2. PICK fresh \in {FALSE, shell.loaded} :
         LET s == [shell EXCEPT !.process = None, !.watch = FALSE]
             n == IF fresh THEN 0 ELSE s.restarts IN
         IF s.stopping THEN shell' = s /\ UNCHANGED shellView
         ELSE IF n < MaxRestarts
         THEN shell' = [s EXCEPT !.restarts = n + 1, !.delays = @ + 1, !.state = "preparing"] /\ shellView' = ViewOf("preparing")
         ELSE shell' = [s EXCEPT !.restarts = n, !.state = "failed"] /\ shellView' = ViewOf("failed")
    BY <1>12 DEF ShellEnded
  <2> DEFINE s == [shell EXCEPT !.process = None, !.watch = FALSE]
             n == IF fresh THEN 0 ELSE s.restarts
  <2>3. /\ s \in ShellRow /\ n \in 0..MaxRestarts /\ s.delays = shell.delays /\ s.up = shell.up
        /\ s.quits = shell.quits /\ s.stopping = shell.stopping /\ s.state = shell.state /\ s.process = None
    <3>1. 0 \in 0..MaxRestarts
      BY SupervisorAssumption
    <3>. QED BY <1>0, <3>1 DEF ShellRow, None
  <2>4. /\ shell' \in ShellRow /\ shell'.process = None /\ shell'.up = shell.up /\ shell'.quits = shell.quits
        /\ shell'.stopping = shell.stopping /\ (shell'.state = "idle" => shell.state = "idle")
        /\ shell'.delays + LaunchWaits' <= shell.delays + LaunchWaits + 1
    <3>1. CASE s.stopping
      <4>1. shell' = s /\ shellView' = shellView
        BY <2>2, <3>1
      <4>2. LaunchWaits' = LaunchWaits /\ LaunchWaits \in {0, 1}
        BY <2>3, <4>1 DEF LaunchWaits
      <4>. QED BY <1>0, <2>3, <4>1, <4>2
    <3>2. CASE ~s.stopping /\ n < MaxRestarts
      <4>1. shell' = [s EXCEPT !.restarts = n + 1, !.delays = @ + 1, !.state = "preparing"] /\ shellView' = "loading"
        BY <2>2, <3>2 DEF ViewOf
      <4>2. n + 1 \in 0..MaxRestarts /\ s.delays + 1 \in Nat
        BY <1>0, <2>3, <3>2, SupervisorAssumption
      <4>3. /\ shell' \in ShellRow /\ shell'.state = "preparing" /\ shell'.up = s.up /\ shell'.quits = s.quits
            /\ shell'.process = None /\ shell'.stopping = s.stopping /\ shell'.delays = s.delays + 1
        BY <2>3, <4>1, <4>2, ZenonT(30) DEF ShellRow
      <4>4. LaunchWaits' = 0 /\ LaunchWaits \in {0, 1}
        BY <4>1, <4>3 DEF LaunchWaits
      <4>. QED BY <1>0, <2>3, <4>3, <4>4
    <3>3. CASE ~s.stopping /\ ~(n < MaxRestarts)
      <4>1. shell' = [s EXCEPT !.restarts = n, !.state = "failed"]
        BY <2>2, <3>3
      <4>2. /\ shell' \in ShellRow /\ shell'.state = "failed" /\ shell'.up = s.up /\ shell'.quits = s.quits
            /\ shell'.process = None /\ shell'.stopping = s.stopping /\ shell'.delays = s.delays
        BY <2>3, <4>1, ZenonT(30) DEF ShellRow
      <4>3. LaunchWaits' \in {0, 1} /\ LaunchWaits \in {0, 1}
        BY DEF LaunchWaits
      <4>. QED BY <1>0, <2>3, <4>2, <4>3
    <3>. QED BY <3>1, <3>2, <3>3
  <2>5. pages' \in Nat /\ shellDeaths' \in Nat /\ Lent' = Lent
    BY <1>0, <2>1 DEF ShellTyped, budgetVars, Lent
  <2>6. ShellTyped' /\ ShellAlive' = ShellAlive
    BY <1>0, <2>1, <2>4, <2>5, ShellOnly
  <2>7. /\ Cardinality(ShellAlive \cup ended) \in Nat /\ Cardinality(ShellAlive) \in Nat /\ Lent \in Nat
        /\ LaunchWaits \in {0, 1} /\ ShellAlive \cup ended \subseteq Pids
    BY <1>0, ShellNumbers
  <2>8. /\ Cardinality(ShellAlive' \cup ended') \in Nat /\ LaunchWaits' \in {0, 1} /\ shell'.delays \in Nat
    BY <2>6, ShellNumbersNext
  <2>9. EndedOnce' /\ p \notin ShellAlive
    BY <2>1, <2>6 DEF EndedOnce, ShellIInv
  <2>10. OneTurn'
    <3>1. Cardinality(ShellAlive' \cup ended') + 1 <= Cardinality(ShellAlive \cup ended)
      BY <2>1, <2>6, <2>7, <2>9, OneFewer
    <3>2. Cardinality(ShellAlive' \cup ended') + shell'.delays + LaunchWaits' <= 1 + Lent
      BY <1>0, <2>4, <2>7, <2>8, <3>1 DEF OneTurn, ShellIInv
    <3>. QED BY <2>5, <3>2 DEF OneTurn
  <2>11. HoldsTheRest'
    <3>1. Cardinality(ShellAlive) + 1 <= Cardinality(ShellAlive \cup ended)
      BY <2>1, <2>7, <2>9, OneFewer
    <3>2. Cardinality(ShellAlive) <= Lent
      BY <1>0, <2>7, <3>1 DEF OneTurn, ShellIInv
    <3>. QED BY <2>5, <2>6, <3>2 DEF HoldsTheRest
  <2>12. QuitIsFinal'
    <3>1. None \notin ShellAlive'
      BY SupervisorAssumption DEF ShellAlive, Pids, None
    <3>. QED BY <1>0, <2>1, <2>4, <3>1 DEF QuitIsFinal
  <2>. QED BY <2>6, <2>9, <2>10, <2>11, <2>12 DEF ShellIInv
<1>13. CASE UNCHANGED supervisorVars
  BY <1>13 DEF supervisorVars, ShellIInv, ShellTyped, SupervisorTypeOK, EndedOnce, OneTurn, HoldsTheRest,
       QuitIsFinal, ShellAlive, Lent, LaunchWaits
<1>. QED
  BY <1>1, <1>2, <1>3, <1>4, <1>5, <1>6, <1>7, <1>8, <1>9, <1>10, <1>11, <1>12, <1>13 DEF SupervisorNext

\* A shell that has exited by a quit or a signal it can catch leaves no daemon, whatever crash, restart,
\* backoff or button came before, except one for every time the window was reloaded to an error and one
\* for every kill of a shell (DaemonSupervisor.swift, shutdownBlocking).
THEOREM QuitTakesItAlong == SupervisorSpec => [](SupervisorTypeOK /\ QuitTakesDaemonDown)
<1>1. ShellIInv => SupervisorTypeOK /\ QuitTakesDaemonDown
  <2> SUFFICES ASSUME ShellIInv PROVE SupervisorTypeOK /\ QuitTakesDaemonDown
    OBVIOUS
  <2>1. ShellTyped
    BY DEF ShellIInv
  <2>2. ASSUME ~shell.up PROVE Cardinality(ShellAlive) <= Lent
    <3>1. LaunchWaits = 1
      BY <2>2 DEF ShellIInv, QuitIsFinal, LaunchWaits
    <3>. QED BY <2>1, <3>1, ShellNumbers DEF ShellIInv, OneTurn
  <2>. QED BY <2>1, <2>2 DEF ShellTyped, QuitTakesDaemonDown, Lent
<1>2. ShellIInv /\ [SupervisorNext]_supervisorVars => ShellIInv'
  BY ShellKept
<1>. QED
  BY <1>1, <1>2, ShellStarts, PTL DEF SupervisorSpec

-----------------------------------------------------------------------------
(* Remote deployments *)

SshSteps == {"preflight", "copy", "install", "unit", "restart", "save"}
HostRow == [cached : Nat, installed : Nat, serving : Nat, unit : BOOLEAN]
SshRemote(h) == [provider |-> "ssh", host |-> h]
RemoteIs ==
    \/ remote = NoRemote
    \/ \E h \in SshHosts : remote = SshRemote(h)
    \/ remote.provider = "hetzner" /\ remote.server \in DOMAIN servers
ServerIs == \A s \in DOMAIN servers : servers[s] = [status |-> servers[s].status, firewall |-> servers[s].firewall]
                                      /\ servers[s].status \in DOMAIN HostMoves
RemoteTyped ==
    /\ hosts \in [SshHosts -> HostRow] /\ servers = [s \in DOMAIN servers |-> servers[s]] /\ ServerIs /\ RemoteIs
    /\ deploys \in Nat
\* What a deployment to a host has done so far; no other host is on record meanwhile.
SshChain ==
    command.at \in SshSteps =>
        /\ command \in [at : SshSteps, host : SshHosts, package : Nat]
        /\ remote = NoRemote \/ remote = SshRemote(command.host)
        /\ command.at = "install" => hosts[command.host].cached = command.package
        /\ command.at \in {"unit", "restart"} => hosts[command.host].installed = command.package
        /\ command.at = "save" => hosts[command.host].serving = command.package
\* What a command about the cloud has done so far.
OnItsWayOut(s) == servers[s].status \in {"deleting", "gone"}
CloudChain ==
    /\ command.at = "wait" => command.server \in DOMAIN servers
    /\ command.at \in {"stop unit", "remove unit"} => remote.provider = "ssh"
    /\ command.at \in {"delete server", "delete firewall"} => remote.provider = "hetzner"
    /\ command.at = "delete firewall" => OnItsWayOut(remote.server)
    /\ command.at = "forget" /\ remote.provider = "hetzner" =>
         OnItsWayOut(remote.server) /\ remote.firewall \notin firewalls
RemoteIInv == RemoteTyped /\ SshChain /\ CloudChain

\* The place of a command that is only that.
LEMMA OnlyAt ==
  ASSUME NEW step
  PROVE  [at |-> step].at = step
OBVIOUS

LEMMA RemotesStart == RemotesInit => RemoteIInv
<1> SUFFICES ASSUME RemotesInit PROVE RemoteIInv
  OBVIOUS
<1>1. RemoteTyped
  BY DEF RemotesInit, RemoteTyped, HostRow, HostBare, RemoteIs, ServerIs
<1>. QED
  BY <1>1 DEF RemotesInit, RemoteIInv, SshChain, CloudChain, NoCommand, SshSteps

\* What the record says of itself.
LEMMA RemoteKinds ==
  ASSUME RemoteIs
  PROVE  /\ remote # NoRemote => remote.provider \in {"ssh", "hetzner"}
         /\ remote.provider = "ssh" => remote.host \in SshHosts
         /\ remote.provider = "hetzner" => remote.server \in DOMAIN servers
BY DEF RemoteIs, SshRemote, NoRemote

\* A command that is over, or that is about to make something, holds to nothing yet.
LEMMA NoChain ==
  ASSUME command'.at \in {"none", "look", "firewall", "server"}
  PROVE  SshChain' /\ CloudChain'
BY DEF SshChain, CloudChain, SshSteps

LEMMA SshStepKept ==
  ASSUME RemoteIInv, NEW step \in SshSteps \ {"save"}, NEW state \in HostRow, HostStep(step, state),
         step = "copy" => state.cached = command.package,
         step = "install" => state.installed = hosts[command.host].cached,
         step = "unit" => state.installed = hosts[command.host].installed,
         step = "restart" => state.serving = hosts[command.host].installed
  PROVE  RemoteIInv'
<1>. USE DEF RemoteIInv
<1>1. /\ command \in [at : SshSteps, host : SshHosts, package : Nat] /\ command.at = step
      /\ remote = NoRemote \/ remote = SshRemote(command.host)
  BY DEF HostStep, HostAt, SshChain
<1>2. /\ hosts' = [hosts EXCEPT ![command.host] = state] /\ UNCHANGED <<remote, servers, firewalls, deploys>>
      /\ command' = [command EXCEPT !.at = HostAfter[step]]
  BY DEF HostStep, Keep
<1>3. RemoteTyped'
  BY <1>1, <1>2 DEF RemoteTyped, RemoteIs, ServerIs
<1>4. HostAfter[step] \in SshSteps
  BY DEF HostAfter, SshSteps
<1>5. /\ command' \in [at : SshSteps, host : SshHosts, package : Nat] /\ command'.at = HostAfter[step]
      /\ command'.host = command.host /\ command'.package = command.package
      /\ hosts'[command'.host] = state
  BY <1>1, <1>2, <1>4 DEF RemoteTyped
<1>6. SshChain'
  <2>1. CASE step = "preflight"
    BY <1>1, <1>2, <1>5, <2>1 DEF SshChain, HostAfter
  <2>2. CASE step = "copy"
    BY <1>1, <1>2, <1>5, <2>2 DEF SshChain, HostAfter
  <2>3. CASE step = "install"
    BY <1>1, <1>2, <1>5, <2>3 DEF SshChain, HostAfter
  <2>4. CASE step = "unit"
    BY <1>1, <1>2, <1>5, <2>4 DEF SshChain, HostAfter
  <2>5. CASE step = "restart"
    BY <1>1, <1>2, <1>5, <2>5 DEF SshChain, HostAfter
  <2>. QED BY <2>1, <2>2, <2>3, <2>4, <2>5 DEF SshSteps
<1>7. CloudChain'
  BY <1>4, <1>5 DEF CloudChain, SshSteps
<1>. QED BY <1>3, <1>6, <1>7

LEMMA SshKept ==
  ASSUME RemoteIInv,
         Preflight \/ Copies \/ Installs \/ WritesUnit \/ HostRestarts
  PROVE  RemoteIInv'
<1>1. command.at \in SshSteps
  BY DEF Preflight, Copies, Installs, WritesUnit, HostRestarts, HostAt, SshSteps
<1>2. command.host \in SshHosts /\ command.package \in Nat /\ hosts[command.host] \in HostRow
  BY <1>1 DEF RemoteIInv, SshChain, RemoteTyped
<1> DEFINE row == hosts[command.host]
<1>3. CASE Preflight
  BY <1>2, <1>3, SshStepKept DEF Preflight, SshSteps
<1>4. CASE Copies
  <2>1. [row EXCEPT !.cached = command.package] \in HostRow /\ [row EXCEPT !.cached = command.package].cached = command.package
    BY <1>2 DEF HostRow
  <2>. QED BY <1>4, <2>1, SshStepKept DEF Copies, SshSteps
<1>5. CASE Installs
  <2>1. [row EXCEPT !.installed = row.cached] \in HostRow /\ [row EXCEPT !.installed = row.cached].installed = row.cached
    BY <1>2 DEF HostRow
  <2>. QED BY <1>5, <2>1, SshStepKept DEF Installs, SshSteps
<1>6. CASE WritesUnit
  <2>1. [row EXCEPT !.unit = TRUE] \in HostRow /\ [row EXCEPT !.unit = TRUE].installed = row.installed
    BY <1>2 DEF HostRow
  <2>. QED BY <1>6, <2>1, SshStepKept DEF WritesUnit, SshSteps
<1>7. CASE HostRestarts
  <2>1. [row EXCEPT !.serving = row.installed] \in HostRow /\ [row EXCEPT !.serving = row.installed].serving = row.installed
    BY <1>2 DEF HostRow
  <2>. QED BY <1>7, <2>1, SshStepKept DEF HostRestarts, SshSteps
<1>. QED BY <1>3, <1>4, <1>5, <1>6, <1>7

LEMMA RemoteKept == RemoteIInv /\ [RemotesNext]_remoteVars => RemoteIInv'
<1> SUFFICES ASSUME RemoteIInv, [RemotesNext]_remoteVars PROVE RemoteIInv'
  OBVIOUS
<1>. USE DEF RemoteIInv
<1>0. NoCommand.at = "none"
  BY DEF NoCommand
<1>1. ASSUME NEW h \in SshHosts, DeploysToHost(h) PROVE RemoteIInv'
  <2>1. remote = NoRemote \/ remote = SshRemote(h)
    BY <1>1 DEF DeploysToHost, RemoteTyped, RemoteIs, SshRemote, NoRemote
  <2>2. UNCHANGED <<remote, hosts, servers>> /\ command' = [at |-> "preflight", host |-> h, package |-> deploys + 1]
        /\ deploys' = deploys + 1
    BY <1>1 DEF DeploysToHost, RunDeploy
  <2>3. RemoteTyped'
    BY <2>2 DEF RemoteTyped, RemoteIs, ServerIs
  <2>4. command' \in [at : SshSteps, host : SshHosts, package : Nat] /\ command'.at = "preflight" /\ command'.host = h
    BY <2>2 DEF SshSteps, RemoteTyped
  <2>. QED BY <2>1, <2>2, <2>3, <2>4 DEF SshChain, CloudChain, SshRemote
<1>2. CASE DeploysToCloud
  <2>1. UNCHANGED <<remote, hosts, servers>> /\ deploys' = deploys + 1 /\ command'.at \in {"look", "firewall"}
    BY <1>2 DEF DeploysToCloud, RunDeploy
  <2>2. RemoteTyped'
    BY <2>1 DEF RemoteTyped, RemoteIs, ServerIs
  <2>. QED BY <2>1, <2>2, NoChain
<1>3. CASE Destroys
  <2>1. UNCHANGED <<remote, hosts, servers, deploys>>
        /\ command' = [at |-> IF remote.provider = "ssh" THEN "stop unit" ELSE "delete server"] /\ remote # NoRemote
    BY <1>3 DEF Destroys, Keep
  <2>2. RemoteTyped'
    BY <2>1 DEF RemoteTyped, RemoteIs, ServerIs
  <2>3. remote.provider # "ssh" => remote.provider = "hetzner"
    BY <2>1, RemoteKinds DEF RemoteTyped
  <2>4. command'.at \in {"stop unit", "delete server"} /\ (command'.at = "stop unit" <=> remote.provider = "ssh")
    BY <2>1
  <2>. QED BY <2>1, <2>2, <2>3, <2>4 DEF SshChain, CloudChain, SshSteps
<1>4. CASE HostFails \/ HostLooksUp
  <2>1. UNCHANGED <<remote, hosts, servers, deploys>> /\ command'.at \in {"none", "firewall"}
    BY <1>0, <1>4 DEF HostFails, HostLooksUp, Keep
  <2>2. RemoteTyped'
    BY <2>1 DEF RemoteTyped, RemoteIs, ServerIs
  <2>. QED BY <2>1, <2>2, NoChain
<1>5. CASE Preflight \/ Copies \/ Installs \/ WritesUnit \/ HostRestarts
  BY <1>5, SshKept
<1>6. CASE RestartFails
  <2>1. hosts' = [hosts EXCEPT ![command.host].serving = 0] /\ UNCHANGED <<remote, servers, deploys>>
        /\ command'.at = "none"
    BY <1>0, <1>6 DEF RestartFails, Keep
  <2>2. hosts' \in [SshHosts -> HostRow]
    BY <2>1 DEF RemoteTyped, HostRow
  <2>3. RemoteTyped'
    BY <2>1, <2>2 DEF RemoteTyped, RemoteIs, ServerIs
  <2>. QED BY <2>1, <2>3, NoChain
<1>7. CASE SavesHost
  <2>1. UNCHANGED <<hosts, servers, deploys>> /\ remote' = SshRemote(command.host) /\ command'.at = "none"
    BY <1>0, <1>7 DEF SavesHost, SaveRemoteState, SshRemote, Keep
  <2>2. command.host \in SshHosts
    BY <1>7 DEF SavesHost, HostAt, SshChain, SshSteps
  <2>3. RemoteTyped'
    BY <2>1, <2>2 DEF RemoteTyped, RemoteIs, ServerIs, SshRemote
  <2>. QED BY <2>1, <2>3, NoChain
<1>8. CASE StopsUnit \/ RemovesUnit
  <2>1. UNCHANGED <<remote, servers, firewalls, deploys>> /\ command'.at \in {"remove unit", "forget"}
    <3>1. command' = [at |-> "remove unit"] \/ command' = [at |-> "forget"]
      BY <1>8 DEF StopsUnit, RemovesUnit
    <3>2. UNCHANGED <<remote, servers, firewalls, deploys>>
      BY <1>8 DEF StopsUnit, RemovesUnit, Keep
    <3>3. command'.at \in {"remove unit", "forget"}
      BY <3>1, OnlyAt
    <3>. QED BY <3>2, <3>3
  <2>5. remote.provider = "ssh"
    BY <1>8 DEF StopsUnit, RemovesUnit, HostAt, CloudChain
  <2>6. remote.host \in SshHosts
    BY <2>5, RemoteKinds DEF RemoteTyped
  <2>2. hosts' = [hosts EXCEPT ![remote.host].serving = 0] \/ hosts' = [hosts EXCEPT ![remote.host].unit = FALSE]
    BY <1>8 DEF StopsUnit, RemovesUnit
  <2>3. hosts' \in [SshHosts -> HostRow]
    <3>1. hosts[remote.host] \in HostRow
      BY <2>6 DEF RemoteTyped
    <3>2. [hosts[remote.host] EXCEPT !.serving = 0] \in HostRow /\ [hosts[remote.host] EXCEPT !.unit = FALSE] \in HostRow
      BY <3>1 DEF HostRow
    <3>3. \E row \in HostRow : hosts' = [hosts EXCEPT ![remote.host] = row]
      BY <2>2, <3>2
    <3>. QED BY <2>6, <3>3 DEF RemoteTyped
  <2>4. RemoteTyped'
    BY <2>1, <2>3 DEF RemoteTyped, RemoteIs, ServerIs
  <2>. QED BY <2>1, <2>4, <2>5 DEF SshChain, CloudChain, SshSteps
<1>9. CASE MakesFirewall
  <2>1. UNCHANGED <<remote, hosts, servers, deploys>> /\ command'.at \in {"none", "server"}
    BY <1>0, <1>9 DEF MakesFirewall, Request, Keep
  <2>2. RemoteTyped'
    BY <2>1 DEF RemoteTyped, RemoteIs, ServerIs
  <2>. QED BY <2>1, <2>2, NoChain
<1>10. CASE MakesServer
  <2> DEFINE s == Cardinality(DOMAIN servers) + 1
  <2>1. /\ UNCHANGED <<remote, hosts, deploys>> /\ servers' = CreateServer(s)
        /\ command' = NoCommand \/ command' = [at |-> "wait", firewall |-> command.firewall, server |-> s]
    BY <1>10 DEF MakesServer, Request, Keep
  <2>2. /\ DOMAIN servers' = DOMAIN servers \cup {s} /\ servers' = [t \in DOMAIN servers' |-> servers'[t]]
        /\ \A t \in DOMAIN servers' :
             servers'[t] = IF t = s THEN [status |-> "initializing", firewall |-> command.firewall] ELSE servers[t]
    BY <2>1 DEF CreateServer
  <2>3. ServerIs'
    BY <2>2 DEF RemoteTyped, ServerIs, HostMoves
  <2>4. RemoteTyped'
    BY <2>1, <2>2, <2>3 DEF RemoteTyped, RemoteIs
  <2>5. command'.at = "none" \/ (command'.at = "wait" /\ command'.server = s)
    BY <1>0, <2>1
  <2>. QED BY <2>2, <2>4, <2>5 DEF SshChain, CloudChain, SshSteps
<1>11. CASE SavesServer
  <2>1. /\ UNCHANGED <<hosts, servers, deploys>> /\ command'.at = "none"
        /\ remote' = [provider |-> "hetzner", server |-> command.server, firewall |-> command.firewall]
    BY <1>0, <1>11 DEF SavesServer, SaveRemoteState, Keep
  <2>2. command.server \in DOMAIN servers
    BY <1>11 DEF SavesServer, WaitUntilRunning, HostAt, CloudChain
  <2>3. RemoteTyped'
    BY <2>1, <2>2 DEF RemoteTyped, RemoteIs, ServerIs
  <2>. QED BY <2>1, <2>3, NoChain
<1>12. CASE DeletesServer
  <2>7. remote.provider = "hetzner"
    BY <1>12 DEF DeletesServer, HostAt, CloudChain
  <2>1. /\ UNCHANGED <<remote, hosts, deploys>> /\ command'.at \in {"none", "delete firewall"}
        /\ servers' = [s \in DOMAIN servers |->
                     IF s = remote.server /\ Exists(s) THEN [servers[s] EXCEPT !.status = "deleting"] ELSE servers[s]]
    <3>1. command' = [at |-> "delete firewall"] \/ command' = NoCommand
      BY <1>12 DEF DeletesServer, Request
    <3>2. command'.at \in {"none", "delete firewall"}
      BY <1>0, <3>1, OnlyAt
    <3>. QED BY <1>12, <3>2 DEF DeletesServer, Keep
  <2>2. remote.server \in DOMAIN servers
    BY <2>7, RemoteKinds DEF RemoteTyped
  <2>3. DOMAIN servers' = DOMAIN servers /\ servers' = [s \in DOMAIN servers' |-> servers'[s]]
    BY <2>1
  <2>4. ServerIs'
    <3>1. SUFFICES ASSUME NEW s \in DOMAIN servers
                   PROVE  /\ servers'[s] = [status |-> servers'[s].status, firewall |-> servers'[s].firewall]
                          /\ servers'[s].status \in DOMAIN HostMoves
      BY <2>3 DEF ServerIs
    <3>2. servers[s] = [status |-> servers[s].status, firewall |-> servers[s].firewall]
          /\ servers[s].status \in DOMAIN HostMoves
      BY DEF RemoteTyped, ServerIs
    <3>3. servers'[s] = servers[s] \/ servers'[s] = [servers[s] EXCEPT !.status = "deleting"]
      BY <2>1
    <3>4. "deleting" \in DOMAIN HostMoves
      BY DEF HostMoves
    <3>5. [servers[s] EXCEPT !.status = "deleting"] = [status |-> "deleting", firewall |-> servers[s].firewall]
      BY <3>2
    <3>. QED BY <3>2, <3>3, <3>4, <3>5
  <2>5. RemoteTyped'
    BY <2>1, <2>3, <2>4 DEF RemoteTyped, RemoteIs
  <2>6. (OnItsWayOut(remote.server))'
    <3>1. servers[remote.server] = [status |-> servers[remote.server].status, firewall |-> servers[remote.server].firewall]
      BY <2>2 DEF RemoteTyped, ServerIs
    <3>2. CASE servers[remote.server].status = "gone"
      <4>1. servers'[remote.server] = servers[remote.server]
        BY <2>1, <2>2, <3>2 DEF Exists
      <4>. QED BY <2>1, <3>2, <4>1 DEF OnItsWayOut
    <3>3. CASE servers[remote.server].status # "gone"
      <4>1. servers'[remote.server] = [servers[remote.server] EXCEPT !.status = "deleting"]
        BY <2>1, <2>2, <3>3 DEF Exists
      <4>2. servers'[remote.server].status = "deleting"
        BY <3>1, <4>1
      <4>. QED BY <2>1, <4>2 DEF OnItsWayOut
    <3>. QED BY <3>2, <3>3
  <2>. QED BY <2>1, <2>5, <2>6, <2>7 DEF SshChain, CloudChain, SshSteps
<1>13. CASE DeletesFirewall
  <2>1. /\ UNCHANGED <<remote, hosts, servers, deploys>> /\ command'.at \in {"none", "forget"}
        /\ firewalls' = firewalls \ {remote.firewall}
    <3>1. command' = [at |-> "forget"] \/ command' = NoCommand
      BY <1>13 DEF DeletesFirewall, Request
    <3>2. command'.at \in {"none", "forget"}
      BY <1>0, <3>1, OnlyAt
    <3>. QED BY <1>13, <3>2 DEF DeletesFirewall, Keep
  <2>3. OnItsWayOut(remote.server)
    BY <1>13 DEF DeletesFirewall, HostAt, CloudChain
  <2>2. RemoteTyped' /\ (OnItsWayOut(remote.server))'
    BY <2>1, <2>3 DEF RemoteTyped, RemoteIs, ServerIs, OnItsWayOut
  <2>. QED BY <2>1, <2>2, <2>3 DEF SshChain, CloudChain, SshSteps
<1>14. CASE Forgets
  <2>1. UNCHANGED <<hosts, servers, deploys>> /\ command'.at = "none" /\ remote' = NoRemote
    BY <1>0, <1>14 DEF Forgets, Keep
  <2>2. RemoteTyped'
    BY <2>1 DEF RemoteTyped, RemoteIs, ServerIs
  <2>. QED BY <2>1, <2>2, NoChain
<1>15. ASSUME NEW s \in 1..ServerBound, CloudMoves(s) PROVE RemoteIInv'
  <2>1. /\ UNCHANGED <<remote, hosts, firewalls, command, deploys>> /\ s \in DOMAIN servers
        /\ \E to \in HostMoves[servers[s].status] : servers' = [servers EXCEPT ![s].status = to]
    BY <1>15 DEF CloudMoves
  <2>2. PICK to \in HostMoves[servers[s].status] : servers' = [servers EXCEPT ![s].status = to]
    BY <2>1
  <2>3. /\ to \in DOMAIN HostMoves
        /\ servers[s].status \in {"deleting", "gone"} => to = "gone"
    BY <2>1, <2>2 DEF RemoteTyped, ServerIs, HostMoves
  <2>4. /\ DOMAIN servers' = DOMAIN servers /\ servers' = [t \in DOMAIN servers' |-> servers'[t]]
        /\ \A t \in DOMAIN servers : t # s => servers'[t] = servers[t]
        /\ servers'[s] = [status |-> to, firewall |-> servers[s].firewall]
    <3>1. servers[s] = [status |-> servers[s].status, firewall |-> servers[s].firewall]
      BY <2>1 DEF RemoteTyped, ServerIs
    <3>2. [servers[s] EXCEPT !.status = to] = [status |-> to, firewall |-> servers[s].firewall]
      BY <3>1
    <3>3. servers' = [t \in DOMAIN servers |-> IF t = s THEN [servers[s] EXCEPT !.status = to] ELSE servers[t]]
      BY <2>2
    <3>. QED BY <2>1, <3>2, <3>3
  <2>5. ServerIs'
    BY <2>3, <2>4 DEF RemoteTyped, ServerIs
  <2>6. RemoteTyped'
    BY <2>1, <2>4, <2>5 DEF RemoteTyped, RemoteIs
  <2>7. \A t \in DOMAIN servers : OnItsWayOut(t) => servers'[t].status \in {"deleting", "gone"}
    BY <2>3, <2>4 DEF OnItsWayOut
  <2>8. remote.provider = "hetzner" => remote.server \in DOMAIN servers
    BY DEF RemoteTyped, RemoteIs, NoRemote, SshRemote
  <2>9. CloudChain'
    BY <2>1, <2>4, <2>7, <2>8 DEF CloudChain, OnItsWayOut
  <2>10. SshChain'
    BY <2>1 DEF SshChain
  <2>. QED BY <2>6, <2>9, <2>10
<1>16. CASE UNCHANGED remoteVars
  BY <1>16 DEF remoteVars, RemoteTyped, RemoteIs, ServerIs, SshChain, CloudChain, OnItsWayOut
<1>. QED
  BY <1>1, <1>2, <1>3, <1>4, <1>5, <1>6, <1>7, <1>8, <1>9, <1>10, <1>11, <1>12, <1>13, <1>14, <1>15,
       <1>16
     DEF RemotesNext

\* A cloud deployment is forgotten only once its server is on its way out and its firewall is gone, over
\* failures, lost answers and repeated commands (hetzner.ts, destroy).
THEOREM DestroyedIsGoneCorrect == RemotesSpec => DestroyedIsGone
<1> DEFINE Step == (remote.provider = "hetzner" /\ remote' = NoRemote) =>
                     /\ servers'[remote.server].status \in {"deleting", "gone"}
                     /\ remote.firewall \notin firewalls'
<1>1. RemoteIInv /\ [RemotesNext]_remoteVars => [Step]_remoteVars
  <2> SUFFICES ASSUME RemoteIInv, RemotesNext, remote.provider = "hetzner", remote' = NoRemote
               PROVE  Step
    OBVIOUS
  <2>1. remote # NoRemote
    BY DEF NoRemote
  <2>2. CASE Forgets
    BY <2>2 DEF Forgets, HostAt, RemoteIInv, CloudChain, OnItsWayOut
  <2>3. CASE remote' = remote
    BY <2>1, <2>3
  <2>4. CASE SavesHost \/ SavesServer
    BY <2>4 DEF SavesHost, SavesServer, SaveRemoteState, NoRemote
  <2>. QED
    BY <2>2, <2>3, <2>4
       DEF RemotesNext, DeploysToHost, DeploysToCloud, Destroys, HostFails, Preflight, Copies, Installs, WritesUnit,
           HostRestarts, HostStep, RestartFails, StopsUnit, RemovesUnit, HostLooksUp, MakesFirewall, MakesServer,
           DeletesServer, DeletesFirewall, CloudMoves
<1>2. Step <=> ((remote.provider = "hetzner" /\ remote' = NoRemote) =>
                     /\ servers'[remote.server].status \in {"deleting", "gone"}
                     /\ remote.firewall \notin firewalls')
  OBVIOUS
<1>. QED
  BY <1>1, RemotesStart, RemoteKept, PTL DEF RemotesSpec, DestroyedIsGone

\* A deployment to a host that is put on record serves the package it brought, whatever failed there
\* before (ssh.ts, planSshSteps).
THEOREM UpdateTakesEffectCorrect == RemotesSpec => UpdateTakesEffect
<1>1. RemoteIInv /\ [RemotesNext]_remoteVars =>
        [\A h \in SshHosts : (remote' = [provider |-> "ssh", host |-> h] /\ HostAt("save")) =>
           hosts'[h].serving = command.package]_remoteVars
  <2> SUFFICES ASSUME RemoteIInv, RemotesNext, NEW h \in SshHosts, remote' = SshRemote(h), HostAt("save")
               PROVE  hosts'[h].serving = command.package
    BY DEF SshRemote
  <2>1. /\ command.host \in SshHosts /\ hosts[command.host].serving = command.package
        /\ remote = NoRemote \/ remote = SshRemote(command.host)
    BY DEF RemoteIInv, SshChain, HostAt, SshSteps
  <2>2. hosts' = hosts /\ (remote' = remote \/ remote' = SshRemote(command.host))
    BY DEF RemotesNext, DeploysToHost, DeploysToCloud, RunDeploy, Destroys, HostFails, Preflight,
         Copies, Installs,
           WritesUnit, HostRestarts, HostStep, RestartFails, StopsUnit, RemovesUnit, HostLooksUp, MakesFirewall,
           MakesServer, WaitUntilRunning, SavesServer, SavesHost, SaveRemoteState, DeletesServer, DeletesFirewall,
           Forgets, CloudMoves, HostAt, SshRemote
  <2>3. SshRemote(h) # NoRemote
    BY DEF SshRemote, NoRemote
  <2>4. SshRemote(h) = SshRemote(command.host) => h = command.host
    BY DEF SshRemote
  <2>. QED BY <2>1, <2>2, <2>3, <2>4
<1>. QED
  BY <1>1, RemotesStart, RemoteKept, PTL DEF RemotesSpec, UpdateTakesEffect

\* Servers and firewalls are finitely many, and the cloud's numbers are numbers.
CloudTyped ==
    /\ IsFiniteSet(firewalls) /\ firewalls \subseteq Nat
    /\ IsFiniteSet(DOMAIN servers) /\ Cardinality(DOMAIN servers) <= ServerBound
    /\ \A s \in DOMAIN servers : servers[s].firewall \in Nat
    /\ command.at = "server" => command.firewall \in Nat

\* The cloud has a number left for a new firewall: fewer are taken than there are.
LEMMA FirewallIsFresh ==
  ASSUME CloudTyped, Cardinality(firewalls) < ServerBound, ServerBound \in Nat
  PROVE  FreshFirewall \in Nat
<1>. DEFINE T == {servers[s].firewall : s \in DOMAIN servers}
            f == [s \in DOMAIN servers |-> servers[s].firewall]
            Taken == firewalls \cup T
            All == 1 .. (2 * ServerBound)
<1>1. f \in Surjection(DOMAIN servers, T)
  <2>1. f \in [DOMAIN servers -> T]
    OBVIOUS
  <2>2. \A t \in T : \E s \in DOMAIN servers : f[s] = t
    OBVIOUS
  <2>. HIDE DEF T, f
  <2>. QED
    BY <2>1, <2>2 DEF Surjection
<1>2. IsFiniteSet(T) /\ Cardinality(T) <= Cardinality(DOMAIN servers)
  <2>. HIDE DEF T, f
  <2>. QED
    BY <1>1, FS_Surjection DEF CloudTyped
<1>. HIDE DEF T
<1>3. /\ Cardinality(firewalls) \in Nat /\ Cardinality(T) \in Nat /\ Cardinality(firewalls \cap T) \in Nat
      /\ Cardinality(DOMAIN servers) \in Nat
  <2>1. IsFiniteSet(firewalls \cap T)
    BY FS_Subset DEF CloudTyped
  <2>. QED
    BY <1>2, <2>1, FS_CardinalityType DEF CloudTyped
<1>4. IsFiniteSet(Taken) /\ Cardinality(Taken) < 2 * ServerBound
  <2>1. IsFiniteSet(Taken) /\ Cardinality(Taken) = Cardinality(firewalls) + Cardinality(T) - Cardinality(firewalls \cap T)
    BY <1>2, FS_Union DEF CloudTyped
  <2>2. Cardinality(T) <= ServerBound
    BY <1>2, <1>3 DEF CloudTyped
  <2>. QED
    BY <1>3, <2>1, <2>2
<1>5. Cardinality(All) = 2 * ServerBound
  <2>1. 1 \in Int /\ 2 * ServerBound \in Int /\ 2 * ServerBound \in Nat
    OBVIOUS
  <2>2. Cardinality(All) = IF 1 > 2 * ServerBound THEN 0 ELSE 2 * ServerBound - 1 + 1
    BY <2>1, FS_Interval
  <2>. QED
    BY <2>1, <2>2
<1>6. ~(All \subseteq Taken)
  <2>. HIDE DEF Taken, All
  <2>1. ASSUME All \subseteq Taken PROVE FALSE
    <3>1. Cardinality(All) <= Cardinality(Taken)
      BY <1>4, <2>1, FS_Subset
    <3>2. Cardinality(Taken) \in Nat
      BY <1>4, FS_CardinalityType
    <3>. QED
      BY <1>4, <1>5, <3>1, <3>2
  <2>. QED
    BY <2>1
<1>7. \E g \in All : g \notin Taken
  BY <1>6
<1>8. FreshFirewall \in All
  BY <1>7 DEF FreshFirewall, T
<1>. QED
  BY <1>8

LEMMA CloudKept ==
  ASSUME RemotesAssumption, RemoteIInv, CloudTyped, [RemotesNext]_remoteVars
  PROVE  CloudTyped'
<1>0. ServerBound \in Nat /\ NoCommand.at = "none"
  BY DEF RemotesAssumption, NoCommand
\* A step that makes and deletes nothing, and is not about to.
<1>1. ASSUME UNCHANGED <<servers, firewalls>>, command'.at # "server" \/ UNCHANGED command
      PROVE  CloudTyped'
  BY <1>1 DEF CloudTyped
<1>2. ASSUME NEW h \in SshHosts, DeploysToHost(h) PROVE CloudTyped'
  BY <1>1, <1>2 DEF DeploysToHost
<1>3. CASE DeploysToCloud \/ Destroys \/ HostLooksUp
  <2>1. UNCHANGED <<servers, firewalls>>
        /\ (command' = NoCommand \/ \E step \in {"look", "firewall", "stop unit", "delete server"} : command' = [at |-> step])
    BY <1>3 DEF DeploysToCloud, Destroys, HostLooksUp
  <2>. QED
    BY <1>0, <1>1, <2>1, OnlyAt
<1>4. CASE HostFails \/ RestartFails \/ SavesHost \/ StopsUnit \/ RemovesUnit \/ SavesServer \/ Forgets
  <2>1. UNCHANGED <<servers, firewalls>> /\ command'.at \in {"none", "remove unit", "forget"}
    BY <1>0, <1>4, OnlyAt DEF HostFails, RestartFails, SavesHost, StopsUnit, RemovesUnit, SavesServer, Forgets, SaveRemoteState
  <2>. QED
    BY <1>1, <2>1
<1>5. ASSUME NEW step \in SshSteps \ {"save"}, NEW state, HostStep(step, state) PROVE CloudTyped'
  <2>1. /\ command \in [at : SshSteps, host : SshHosts, package : Nat]
        /\ command' = [command EXCEPT !.at = HostAfter[step]] /\ UNCHANGED <<servers, firewalls>>
    BY <1>5 DEF HostStep, HostAt, RemoteIInv, SshChain
  <2>2. command'.at = HostAfter[step] /\ HostAfter[step] # "server"
    BY <2>1 DEF HostAfter, SshSteps
  <2>. QED
    BY <1>1, <2>1, <2>2
<1>6. CASE Preflight \/ Copies \/ Installs \/ WritesUnit \/ HostRestarts
  BY <1>5, <1>6 DEF Preflight, Copies, Installs, WritesUnit, HostRestarts, SshSteps
<1>7. CASE MakesFirewall
  <2>1. FreshFirewall \in Nat
    BY <1>0, <1>7, FirewallIsFresh DEF MakesFirewall
  <2>2. firewalls' = firewalls \cup {FreshFirewall} /\ UNCHANGED servers
        /\ (command' = NoCommand \/ command' = [at |-> "server", firewall |-> FreshFirewall])
    BY <1>7 DEF MakesFirewall, Request
  <2>3. IsFiniteSet(firewalls') /\ firewalls' \subseteq Nat
    BY <2>1, <2>2, FS_AddElement DEF CloudTyped
  <2>4. command'.at = "server" => command'.firewall \in Nat
    BY <1>0, <2>1, <2>2
  <2>. QED
    BY <2>2, <2>3, <2>4 DEF CloudTyped
<1>8. CASE MakesServer
  <2>. DEFINE s == Cardinality(DOMAIN servers) + 1
  <2>1. /\ Cardinality(DOMAIN servers) < ServerBound /\ servers' = CreateServer(s) /\ UNCHANGED firewalls
        /\ command.firewall \in Nat
        /\ (command' = NoCommand \/ command' = [at |-> "wait", firewall |-> command.firewall, server |-> s])
    BY <1>8 DEF MakesServer, Request, HostAt, CloudTyped
  <2>2. /\ DOMAIN servers' = DOMAIN servers \cup {s}
        /\ \A t \in DOMAIN servers' :
             servers'[t] = IF t = s THEN [status |-> "initializing", firewall |-> command.firewall] ELSE servers[t]
    BY <2>1 DEF CreateServer
  <2>3. IsFiniteSet(DOMAIN servers') /\ Cardinality(DOMAIN servers') <= ServerBound
    <3>1. Cardinality(DOMAIN servers) \in Nat
      BY FS_CardinalityType DEF CloudTyped
    <3>2. IsFiniteSet(DOMAIN servers') /\ Cardinality(DOMAIN servers') \in {Cardinality(DOMAIN servers), Cardinality(DOMAIN servers) + 1}
      <4>. HIDE DEF s
      <4>. QED
        BY <2>2, FS_AddElement DEF CloudTyped
    <3>. QED
      BY <1>0, <2>1, <3>1, <3>2
  <2>4. \A t \in DOMAIN servers' : servers'[t].firewall \in Nat
    BY <2>1, <2>2 DEF CloudTyped
  <2>5. command'.at # "server"
    BY <1>0, <2>1
  <2>. QED
    BY <2>1, <2>3, <2>4, <2>5 DEF CloudTyped
<1>9. CASE DeletesServer
  <2>1. /\ UNCHANGED firewalls /\ DOMAIN servers' = DOMAIN servers
        /\ \A s \in DOMAIN servers : servers'[s] = servers[s] \/ servers'[s] = [servers[s] EXCEPT !.status = "deleting"]
        /\ (command' = [at |-> "delete firewall"] \/ command' = NoCommand)
    BY <1>9 DEF DeletesServer, Request
  <2>2. \A s \in DOMAIN servers : servers'[s].firewall = servers[s].firewall
    <3>1. \A s \in DOMAIN servers : servers[s] = [status |-> servers[s].status, firewall |-> servers[s].firewall]
      BY DEF RemoteIInv, RemoteTyped, ServerIs
    <3>. QED
      BY <2>1, <3>1
  <2>3. command'.at # "server"
    BY <1>0, <2>1, OnlyAt
  <2>. QED
    BY <2>1, <2>2, <2>3 DEF CloudTyped
<1>10. CASE DeletesFirewall
  <2>1. firewalls' \in SUBSET firewalls /\ UNCHANGED servers /\ (command' = [at |-> "forget"] \/ command' = NoCommand)
    BY <1>10 DEF DeletesFirewall, Request
  <2>2. IsFiniteSet(firewalls')
    BY <2>1, FS_Subset DEF CloudTyped
  <2>3. command'.at # "server"
    BY <1>0, <2>1, OnlyAt
  <2>. QED
    BY <2>1, <2>2, <2>3 DEF CloudTyped
<1>11. ASSUME NEW s \in 1..ServerBound, CloudMoves(s) PROVE CloudTyped'
  <2>1. /\ s \in DOMAIN servers /\ \E to : servers' = [servers EXCEPT ![s].status = to] /\ UNCHANGED <<firewalls, command>>
    BY <1>11 DEF CloudMoves
  <2>2. PICK to : servers' = [servers EXCEPT ![s].status = to]
    BY <2>1
  <2>3. DOMAIN servers' = DOMAIN servers /\ \A t \in DOMAIN servers : servers'[t].firewall = servers[t].firewall
    <3>1. servers[s] = [status |-> servers[s].status, firewall |-> servers[s].firewall]
      BY <2>1 DEF RemoteIInv, RemoteTyped, ServerIs
    <3>2. [servers[s] EXCEPT !.status = to] = [status |-> to, firewall |-> servers[s].firewall]
      BY <3>1
    <3>3. servers' = [t \in DOMAIN servers |-> IF t = s THEN [servers[s] EXCEPT !.status = to] ELSE servers[t]]
      BY <2>2 DEF RemoteIInv, RemoteTyped
    <3>. QED
      BY <2>1, <3>2, <3>3
  <2>. QED
    BY <2>1, <2>3 DEF CloudTyped
<1>12. CASE UNCHANGED remoteVars
  BY <1>1, <1>12 DEF remoteVars
<1>. QED
  BY <1>2, <1>3, <1>4, <1>6, <1>7, <1>8, <1>9, <1>10, <1>11, <1>12 DEF RemotesNext

\* What is on record of a deployment, of its hosts and of the cloud is what it can be.
THEOREM RemotesAreTyped == RemotesSpec => []RemotesTypeOK
<1>1. RemoteIInv /\ CloudTyped => RemotesTypeOK
  BY DEF RemoteIInv, RemoteTyped, RemoteIs, ServerIs, CloudTyped, RemotesTypeOK, HostRow, NoRemote, SshRemote
<1>2. RemotesInit => CloudTyped
  <2>. SUFFICES ASSUME RemotesInit PROVE CloudTyped
    OBVIOUS
  <2>1. ServerBound \in Nat /\ firewalls = {} /\ DOMAIN servers = {} /\ command.at = "none"
    BY RemotesAssumption DEF RemotesAssumption, RemotesInit, NoCommand
  <2>. QED
    BY <2>1, FS_EmptySet DEF CloudTyped
<1>3. RemoteIInv /\ CloudTyped /\ [RemotesNext]_remoteVars => CloudTyped'
  BY RemotesAssumption, CloudKept
<1>. QED
  BY <1>1, <1>2, <1>3, RemotesStart, RemoteKept, PTL DEF RemotesSpec

-----------------------------------------------------------------------------
(* Vaults *)

VaultOps == {"open", "set", "rm", "rotate", "init", "reset"}
VaultPlaces == {"new", "over", "delete", "aside", "read", "resolve", "back", "adopted", "rotated", "open",
                "rewrap", "load", "newkey", "write"}
VaultRow == [at : VaultPlaces, home : Homes, op : VaultOps, name : VaultNames \cup {VaultIdle.name},
             snap : Envelope, key : Nat, shared : BOOLEAN, payload : SUBSET VaultNames]
VaultWorks(c) == run[c].at \notin {"new", "over"}
VaultTyped ==
    /\ file \in [Homes -> Envelope] /\ store \in [Homes -> Nat]
    /\ {machine, minted, deaths} \subseteq Nat /\ minted # 0
    /\ midway \subseteq Homes /\ confirmed \in [Homes -> SUBSET VaultNames]
    /\ run \in [Commands -> VaultRow] /\ \A c \in Commands : VaultWorks(c) => run[c].name \in VaultNames
FilesHaveKeys == \A h \in Homes : file[h].key = 0 => file[h] = NoFile
OneInHome == \A c, d \in Commands : VaultWorks(c) /\ VaultWorks(d) /\ run[c].home = run[d].home => c = d
\* What a process has read is still so; the key it goes on with is the one its home has, or the
\* machine's, which the home is about to adopt.
Adopts(r) == r.shared /\ IsCreating(r.op) /\ r.key = machine
RunHolds(c) ==
    LET r == run[c] h == run[c].home IN
    /\ r.at \in {"resolve", "back", "open", "adopted", "rewrap"} => r.snap = file[h]
    /\ r.at \in {"back", "open", "adopted", "rotated", "rewrap", "load", "newkey", "write"} => r.key # 0
    /\ r.at = "open" => r.key = store[h] \/ (r.shared /\ r.key = machine /\ r.snap # NoFile)
    /\ r.at = "adopted" => r.snap.key = r.key
    /\ r.at = "rewrap" => r.snap.key = r.key /\ r.key = store[h]
    /\ r.at \in {"load", "write"} => r.key = store[h] \/ Adopts(r)
    /\ r.at \in {"newkey", "rotated", "write"} => r.payload = file[h].entries
    /\ r.at = "aside" => h \in midway
VaultIInv ==
    /\ VaultTyped /\ FilesHaveKeys /\ OneInHome /\ (\A c \in Commands : RunHolds(c))
    /\ OpensAtHome /\ SetIsKept

LEMMA VaultIdleIs ==
  ASSUME Homes # {}
  PROVE  VaultIdle \in VaultRow /\ NoFile \in Envelope
<1>1. NoFile \in Envelope
  BY DEF NoFile, Envelope
<1>2. (CHOOSE h \in Homes : TRUE) \in Homes
  OBVIOUS
<1>. QED
  BY <1>1, <1>2 DEF VaultIdle, VaultRow, VaultPlaces, VaultOps

\* A process that is given a key, and nothing else.
Keyed(r, s, at, k) ==
    /\ s \in VaultRow /\ s.home = r.home /\ s.at = at /\ s.key = k
    /\ s.snap = r.snap /\ s.payload = r.payload /\ s.name = r.name
LEMMA WithKey ==
  \A r \in VaultRow, at \in VaultPlaces, k \in Nat : Keyed(r, [r EXCEPT !.at = at, !.key = k], at, k)
BY DEF VaultRow, Keyed

LEMMA VaultStarts ==
  ASSUME Homes # {}, VaultInit
  PROVE  VaultIInv
<1>1. /\ file \in [Homes -> Envelope] /\ FilesHaveKeys /\ \A h \in Homes : file[h].key \in {0, 1}
  <2>1. \A h \in Homes : file[h] \in Envelope /\ (file[h].key = 0 => file[h] = NoFile) /\ file[h].key \in {0, 1}
    <3>1. ASSUME NEW h \in Homes
          PROVE  file[h] \in Envelope /\ (file[h].key = 0 => file[h] = NoFile) /\ file[h].key \in {0, 1}
      <4>1. file[h] = NoFile \/ \E t \in SUBSET VaultNames : file[h] = [key |-> 1, old |-> TRUE, entries |-> t]
        BY DEF VaultInit
      <4>2. CASE file[h] = NoFile
        BY <4>2, VaultIdleIs DEF NoFile
      <4>3. ASSUME NEW t \in SUBSET VaultNames, file[h] = [key |-> 1, old |-> TRUE, entries |-> t]
            PROVE  file[h] \in Envelope /\ (file[h].key = 0 => file[h] = NoFile) /\ file[h].key \in {0, 1}
        BY <4>3 DEF Envelope
      <4>. QED
        BY <4>1, <4>2, <4>3
    <3>. QED
      BY <3>1
  <2>2. file = [h \in Homes |-> file[h]]
    BY DEF VaultInit
  <2>. QED
    BY <2>1, <2>2 DEF FilesHaveKeys
<1>2. VaultTyped
  <2>1. /\ store \in [Homes -> Nat] /\ {machine, minted, deaths} \subseteq Nat /\ minted # 0 /\ midway \subseteq Homes
    BY DEF VaultInit
  <2>2. confirmed \in [Homes -> SUBSET VaultNames]
    BY <1>1 DEF VaultInit, Envelope
  <2>3. run \in [Commands -> VaultRow] /\ \A c \in Commands : ~VaultWorks(c)
    BY VaultIdleIs DEF VaultInit, VaultWorks, VaultIdle
  <2>. QED
    BY <1>1, <2>1, <2>2, <2>3 DEF VaultTyped
<1>3. OpensAtHome
  BY <1>1, VaultAssumption DEF VaultInit, OpensAtHome, KeyFor, FilesHaveKeys
<1>. QED
  BY <1>1, <1>2, <1>3 DEF VaultIInv, OneInHome, RunHolds, VaultWorks, VaultInit, VaultIdle, SetIsKept

\* What one process does at its home leaves the others what they know.
LEMMA OneHome ==
  ASSUME VaultIInv, NEW c \in Commands, VaultWorks(c), run'[c] \in VaultRow,
         run' = [run EXCEPT ![c] = run'[c]], run'[c].home = run[c].home,
         VaultWorks(c)' => run'[c].name \in VaultNames,
         \A h \in Homes \ {run[c].home} : file'[h] = file[h] /\ store'[h] = store[h] /\ (h \in midway' <=> h \in midway),
         machine' = machine, RunHolds(c)'
  PROVE  /\ run' \in [Commands -> VaultRow] /\ \A d \in Commands : VaultWorks(d)' => run'[d].name \in VaultNames
         /\ OneInHome' /\ \A d \in Commands : RunHolds(d)'
<1>1. run \in [Commands -> VaultRow] /\ \A d \in Commands \ {c} : run'[d] = run[d] /\ run[d] \in VaultRow
  BY DEF VaultIInv, VaultTyped
<1>2. run' \in [Commands -> VaultRow]
  BY <1>1
<1>3. \A d \in Commands \ {c} : VaultWorks(d)' <=> VaultWorks(d)
  BY <1>1 DEF VaultWorks
<1>4. \A d \in Commands : VaultWorks(d)' => run'[d].name \in VaultNames
  BY <1>1, <1>3 DEF VaultIInv, VaultTyped
<1>5. OneInHome'
  BY <1>1, <1>3 DEF VaultIInv, OneInHome
<1>6. ASSUME NEW d \in Commands \ {c}
      PROVE  RunHolds(d)'
  <2>1. run'[d] = run[d] /\ run[d].home \in Homes /\ RunHolds(d)
    BY <1>1 DEF VaultIInv, VaultRow
  <2>2. CASE ~VaultWorks(d)
    BY <2>1, <2>2 DEF RunHolds, VaultWorks
  <2>3. CASE VaultWorks(d)
    <3>1. run[d].home # run[c].home
      BY <2>3 DEF VaultIInv, OneInHome
    <3>. QED
      BY <2>1, <3>1 DEF RunHolds, Adopts
  <2>. QED
    BY <2>2, <2>3
<1>. QED
  BY <1>2, <1>4, <1>5, <1>6

\* A process that is over knows nothing.
LEMMA OverIs ==
  ASSUME VaultIInv, Homes # {}, NEW c \in Commands, NEW at \in VaultPlaces, Goes(c, at)
  PROVE  /\ run'[c] \in VaultRow /\ run' = [run EXCEPT ![c] = run'[c]]
         /\ run'[c].home = run[c].home /\ run'[c].at = at
         /\ at # "over" => run'[c] = [run[c] EXCEPT !.at = at]
<1>1. run \in [Commands -> VaultRow] /\ run[c] \in VaultRow
  BY DEF VaultIInv, VaultTyped
<1>2. run'[c] = IF at # "over" THEN [run[c] EXCEPT !.at = at]
                ELSE [VaultIdle EXCEPT !.at = "over", !.home = run[c].home, !.op = run[c].op]
  BY <1>1 DEF Goes
<1>3. run' = [run EXCEPT ![c] = run'[c]]
  BY <1>1, <1>2 DEF Goes
<1>4. CASE at # "over"
  BY <1>1, <1>2, <1>3, <1>4 DEF VaultRow
<1>5. CASE at = "over"
  BY <1>1, <1>2, <1>3, <1>5, VaultIdleIs DEF VaultRow
<1>. QED
  BY <1>4, <1>5

LEMMA VaultKept ==
  ASSUME Homes # {}, Alone, VaultIInv, [VaultNext]_vaultVars
  PROVE  VaultIInv'
<1>. USE DEF VaultWorks
<1>0. /\ file \in [Homes -> Envelope] /\ store \in [Homes -> Nat] /\ minted \in Nat \ {0}
      /\ {machine, deaths} \subseteq Nat /\ midway \subseteq Homes /\ confirmed \in [Homes -> SUBSET VaultNames]
      /\ run \in [Commands -> VaultRow]
  BY DEF VaultIInv, VaultTyped
<1>a. \A c \in Commands : run[c] \in VaultRow /\ run[c].home \in Homes /\ run[c].snap \in Envelope /\ run[c].key \in Nat
                          /\ run[c].payload \subseteq VaultNames /\ RunHolds(c)
                          /\ (VaultWorks(c) => run[c].name \in VaultNames)
  BY <1>0 DEF VaultIInv, VaultRow, VaultTyped
<1>b. \A h \in Homes : file[h] \in Envelope /\ store[h] \in Nat /\ file[h].key \in Nat /\ file[h].entries \subseteq VaultNames
  BY <1>0 DEF Envelope
<1>1. ASSUME NEW c \in Commands, NEW h \in Homes, NEW op \in VaultOps, NEW n \in VaultNames, VaultBegins(c, h, op, n)
      PROVE  VaultIInv'
  <2>. DEFINE r == [VaultIdle EXCEPT !.at = FirstStep(op), !.home = h, !.op = op, !.name = n]
  <2>1. r \in VaultRow /\ r.at \in {"delete", "read"} /\ r.home = h /\ r.name = n
    BY VaultIdleIs DEF VaultRow, FirstStep, VaultPlaces
  <2>2. run' = [run EXCEPT ![c] = r] /\ UNCHANGED <<file, store, machine, minted, midway, confirmed, deaths>>
    BY <1>1 DEF VaultBegins
  <2>. HIDE DEF r
  <2>3. run' \in [Commands -> VaultRow] /\ run'[c] = r /\ \A d \in Commands \ {c} : run'[d] = run[d]
    BY <2>1, <2>2, <1>0
  <2>4. VaultTyped'
    BY <2>1, <2>2, <2>3 DEF VaultIInv, VaultTyped
  <2>5. OneInHome'
    BY <1>1, <2>1, <2>3 DEF VaultIInv, OneInHome, VaultBegins
  <2>6. \A d \in Commands : RunHolds(d)'
    BY <1>a, <2>1, <2>2, <2>3 DEF RunHolds, Adopts
  <2>. QED
    BY <2>2, <2>4, <2>5, <2>6 DEF VaultIInv, FilesHaveKeys, OpensAtHome, KeyFor, SetIsKept
<1>2. ASSUME NEW c \in Commands, Deletes(c)
      PROVE  VaultIInv'
  <2>1. /\ Goes(c, "aside") /\ midway' = midway \cup {run[c].home}
        /\ \A h \in Homes \ {run[c].home} : store'[h] = store[h]
        /\ store' \in [Homes -> Nat] /\ UNCHANGED <<file, machine, minted, confirmed, deaths>>
    BY <1>2, <1>0 DEF Deletes
  <2>2. /\ run'[c] \in VaultRow /\ run' = [run EXCEPT ![c] = run'[c]]
        /\ run'[c].home = run[c].home /\ run'[c] = [run[c] EXCEPT !.at = "aside"] /\ run'[c].at = "aside"
    BY <2>1, OverIs DEF VaultPlaces
  <2>3. run'[c].name = run[c].name /\ VaultWorks(c) /\ RunHolds(c)'
    BY <1>2, <1>a, <2>1, <2>2 DEF RunHolds, VaultRow, Deletes
  <2>4. /\ run' \in [Commands -> VaultRow] /\ \A d \in Commands : VaultWorks(d)' => run'[d].name \in VaultNames
        /\ OneInHome' /\ \A d \in Commands : RunHolds(d)'
    BY <1>a, <2>1, <2>2, <2>3, OneHome
  <2>5. VaultTyped'
    BY <1>0, <1>a, <2>1, <2>4 DEF VaultTyped
  <2>. QED
    BY <2>1, <2>4, <2>5 DEF VaultIInv, FilesHaveKeys, OpensAtHome, KeyFor, SetIsKept
<1>3. ASSUME NEW c \in Commands, MovesAside(c)
      PROVE  VaultIInv'
  <2>1. /\ Goes(c, "read") /\ file' = [file EXCEPT ![run[c].home] = NoFile]
        /\ confirmed' = [confirmed EXCEPT ![run[c].home] = {}] /\ UNCHANGED <<store, machine, minted, midway, deaths>>
    BY <1>3 DEF MovesAside
  <2>2. /\ run'[c] \in VaultRow /\ run' = [run EXCEPT ![c] = run'[c]]
        /\ run'[c].home = run[c].home /\ run'[c] = [run[c] EXCEPT !.at = "read"] /\ run'[c].at = "read"
    BY <2>1, OverIs DEF VaultPlaces
  <2>3. run'[c].name = run[c].name /\ VaultWorks(c) /\ RunHolds(c)'
    BY <1>3, <1>a, <2>2 DEF RunHolds, VaultRow, MovesAside
  <2>4. /\ run' \in [Commands -> VaultRow] /\ \A d \in Commands : VaultWorks(d)' => run'[d].name \in VaultNames
        /\ OneInHome' /\ \A d \in Commands : RunHolds(d)'
    BY <1>0, <1>a, <2>1, <2>2, <2>3, OneHome
  <2>5. VaultTyped'
    BY <1>0, <1>a, <2>1, <2>4, VaultIdleIs DEF VaultTyped
  <2>6. \A h \in Homes : /\ h = run[c].home => file'[h] = NoFile /\ confirmed'[h] = {}
                         /\ h # run[c].home => file'[h] = file[h] /\ confirmed'[h] = confirmed[h]
    BY <1>0, <1>a, <2>1
  <2>. QED
    BY <2>1, <2>4, <2>5, <2>6 DEF VaultIInv, FilesHaveKeys, OpensAtHome, KeyFor, SetIsKept
\* A step that only the process takes.
<1>4. ASSUME NEW c \in Commands, VaultWorks(c), run' = [run EXCEPT ![c] = run'[c]], run'[c] \in VaultRow,
             run'[c].home = run[c].home, VaultWorks(c)' => run'[c].name \in VaultNames, RunHolds(c)',
             UNCHANGED <<file, store, machine, minted, midway, confirmed>>, deaths' \in Nat
      PROVE  VaultIInv'
  <2>1. /\ run' \in [Commands -> VaultRow] /\ \A d \in Commands : VaultWorks(d)' => run'[d].name \in VaultNames
        /\ OneInHome' /\ \A d \in Commands : RunHolds(d)'
    BY <1>4, OneHome
  <2>. QED
    BY <1>4, <2>1 DEF VaultIInv, VaultTyped, FilesHaveKeys, OpensAtHome, KeyFor, SetIsKept
<1>5. ASSUME NEW c \in Commands, Reads(c)
      PROVE  VaultIInv'
  <2>1. run'[c] = [run[c] EXCEPT !.at = "resolve", !.snap = file[run[c].home]] /\ VaultWorks(c)
        /\ run' = [run EXCEPT ![c] = run'[c]] /\ UNCHANGED <<file, store, machine, minted, midway, confirmed, deaths>>
    BY <1>0, <1>5 DEF Reads
  <2>2. /\ run'[c] \in VaultRow /\ run'[c].home = run[c].home /\ run'[c].at = "resolve"
        /\ run'[c].snap = file[run[c].home] /\ run'[c].name = run[c].name
    BY <1>a, <1>b, <2>1 DEF VaultRow, VaultPlaces
  <2>3. RunHolds(c)'
    BY <2>1, <2>2 DEF RunHolds
  <2>. QED
    BY <1>0, <1>4, <1>a, <2>1, <2>2, <2>3
\* A process that ends.
<1>6. ASSUME NEW c \in Commands, VaultWorks(c), Goes(c, "over"),
             UNCHANGED <<file, store, machine, minted, midway, confirmed>>, deaths' \in Nat
      PROVE  VaultIInv'
  <2>1. /\ run'[c] \in VaultRow /\ run' = [run EXCEPT ![c] = run'[c]]
        /\ run'[c].home = run[c].home /\ run'[c].at = "over"
    BY <1>6, OverIs DEF VaultPlaces
  <2>2. RunHolds(c)'
    BY <2>1 DEF RunHolds
  <2>. QED
    BY <1>4, <1>6, <2>1, <2>2
\* A process that goes on with what it knows.
<1>7. ASSUME NEW c \in Commands, NEW at \in VaultPlaces \ {"over"}, VaultWorks(c), Goes(c, at),
             UNCHANGED <<file, store, machine, minted, midway, confirmed, deaths>>,
             LET r == run[c] h == run[c].home IN
             /\ at \in {"resolve", "back", "open", "adopted", "rewrap"} => r.snap = file[h]
             /\ at \in {"back", "open", "adopted", "rotated", "rewrap", "load", "newkey", "write"} => r.key # 0
             /\ at = "open" => r.key = store[h] \/ (r.shared /\ r.key = machine /\ r.snap # NoFile)
             /\ at = "adopted" => r.snap.key = r.key
             /\ at = "rewrap" => r.snap.key = r.key /\ r.key = store[h]
             /\ at \in {"load", "write"} => r.key = store[h] \/ Adopts(r)
             /\ at \in {"newkey", "rotated", "write"} => r.payload = file[h].entries
             /\ at = "aside" => h \in midway
      PROVE  VaultIInv'
  <2>1. /\ run'[c] \in VaultRow /\ run' = [run EXCEPT ![c] = run'[c]]
        /\ run'[c].home = run[c].home /\ run'[c].at = at /\ run'[c] = [run[c] EXCEPT !.at = at]
    BY <1>7, OverIs
  <2>2. run'[c].name = run[c].name /\ RunHolds(c)'
    BY <1>7, <1>a, <2>1 DEF RunHolds, VaultRow, Adopts
  <2>. QED
    BY <1>0, <1>4, <1>7, <1>a, <2>1, <2>2
\* A key that is made: the home's, and the process's.
<1>8. ASSUME NEW c \in Commands, NEW at \in {"back", "rotated"}, VaultWorks(c), Mints(c, at),
             at = "back" => run[c].snap = file[run[c].home], at = "rotated" => run[c].payload = file[run[c].home].entries,
             UNCHANGED <<file, machine, confirmed, deaths>>, midway' \in {midway, midway \cup {run[c].home}},
             run[c].home \in midway' \/ file[run[c].home] = NoFile
      PROVE  VaultIInv'
  <2>1. /\ run'[c] = [run[c] EXCEPT !.at = at, !.key = minted + 1] /\ run' = [run EXCEPT ![c] = run'[c]]
        /\ minted' = minted + 1 /\ store' = [store EXCEPT ![run[c].home] = minted + 1]
    <3>1. run' = [run EXCEPT ![c].at = at, ![c].key = minted + 1]
      BY <1>8 DEF Mints
    <3>2. run'[c] = [run[c] EXCEPT !.at = at, !.key = minted + 1]
      BY <1>0, <3>1
    <3>3. run' = [run EXCEPT ![c] = run'[c]]
      BY <1>0, <3>1
    <3>. QED
      BY <1>8, <3>2, <3>3 DEF Mints
  <2>2. /\ run'[c] \in VaultRow /\ run'[c].home = run[c].home /\ run'[c].at = at /\ run'[c].key = minted + 1
        /\ run'[c].snap = run[c].snap /\ run'[c].payload = run[c].payload /\ run'[c].name = run[c].name
    <3>1. at \in VaultPlaces /\ minted + 1 \in Nat /\ run[c] \in VaultRow
      BY <1>0, <1>8, <1>a DEF VaultPlaces
    <3>2. Keyed(run[c], [run[c] EXCEPT !.at = at, !.key = minted + 1], at, minted + 1)
      BY <3>1, WithKey
    <3>3. run'[c] = [run[c] EXCEPT !.at = at, !.key = minted + 1]
      BY <2>1
    <3>4. Keyed(run[c], run'[c], at, minted + 1)
      BY <3>2, <3>3
    <3>. QED
      BY <3>4 DEF Keyed
  <2>3. /\ store' \in [Homes -> Nat] /\ \A h \in Homes \ {run[c].home} : store'[h] = store[h]
    <3>1. minted + 1 \in Nat
      BY <1>0
    <3>. QED
      BY <1>0, <2>1, <3>1
  <2>4. RunHolds(c)'
    BY <1>0, <1>8, <2>2 DEF RunHolds
  <2>5. /\ run' \in [Commands -> VaultRow] /\ \A d \in Commands : VaultWorks(d)' => run'[d].name \in VaultNames
        /\ OneInHome' /\ \A d \in Commands : RunHolds(d)'
    <3>1. \A h \in Homes \ {run[c].home} : file'[h] = file[h] /\ store'[h] = store[h] /\ (h \in midway' <=> h \in midway)
      BY <1>8, <2>3
    <3>2. VaultWorks(c)' => run'[c].name \in VaultNames
      BY <1>8, <1>a, <2>2
    <3>. QED
      BY <1>8, <2>1, <2>2, <2>4, <3>1, <3>2, OneHome
  <2>6. VaultTyped'
    BY <1>0, <1>8, <1>a, <2>1, <2>3, <2>5 DEF VaultTyped
  <2>. QED
    BY <1>8, <2>3, <2>5, <2>6 DEF VaultIInv, FilesHaveKeys, OpensAtHome, KeyFor, SetIsKept
<1>9. ASSUME NEW c \in Commands, VaultResolves(c)
      PROVE  VaultIInv'
  <2>. DEFINE r == run[c]
  <2>1. /\ r.at = "resolve" /\ r.snap = file[r.home] /\ VaultWorks(c)
        /\ UNCHANGED <<file, machine, midway, confirmed, deaths>>
    BY <1>9, <1>a DEF VaultResolves, RunHolds
  <2>2. CASE IsKey(store[r.home])
    <3>1. /\ run'[c] = [run[c] EXCEPT !.at = "open", !.key = store[r.home]] /\ run' = [run EXCEPT ![c] = run'[c]]
          /\ UNCHANGED <<store, minted>>
      BY <1>0, <1>9, <2>2 DEF VaultResolves
    <3>2. /\ run'[c] \in VaultRow /\ run'[c].home = r.home /\ run'[c].at = "open" /\ run'[c].key = store[r.home]
          /\ run'[c].snap = r.snap /\ run'[c].name = r.name
      BY <1>a, <1>b, <3>1 DEF VaultRow, VaultPlaces
    <3>3. RunHolds(c)'
      BY <2>1, <2>2, <3>1, <3>2 DEF RunHolds, IsKey
    <3>. QED
      BY <1>0, <1>4, <1>a, <2>1, <3>1, <3>2, <3>3
  <2>3. CASE ~IsKey(store[r.home]) /\ IsKey(LegacyKey(r.snap))
    <3>1. /\ run'[c] = [run[c] EXCEPT !.at = "open", !.key = machine, !.shared = TRUE]
          /\ run' = [run EXCEPT ![c] = run'[c]] /\ UNCHANGED <<store, minted>> /\ machine # 0 /\ r.snap # NoFile
      BY <1>0, <1>9, <2>3 DEF VaultResolves, LegacyKey, IsKey
    <3>2. /\ run'[c] \in VaultRow /\ run'[c].home = r.home /\ run'[c].at = "open" /\ run'[c].key = machine
          /\ run'[c].shared /\ run'[c].snap = r.snap /\ run'[c].name = r.name
      BY <1>0, <1>a, <3>1 DEF VaultRow, VaultPlaces
    <3>3. RunHolds(c)'
      BY <2>1, <3>1, <3>2 DEF RunHolds
    <3>. QED
      BY <1>0, <1>4, <1>a, <2>1, <3>1, <3>2, <3>3
  <2>4. CASE ~IsKey(store[r.home]) /\ ~IsKey(LegacyKey(r.snap)) /\ (r.snap = NoFile \/ IsCreating(r.op))
    <3>1. Mints(c, "back")
      BY <1>9, <2>4 DEF VaultResolves
    <3>2. r.home \in midway \/ file[r.home] = NoFile
      <4>. SUFFICES ASSUME r.home \notin midway, file[r.home] # NoFile
                    PROVE  FALSE
        OBVIOUS
      <4>1. file[r.home].key = KeyFor(r.home) /\ file[r.home].key # 0
        BY <1>a DEF VaultIInv, OpensAtHome, FilesHaveKeys
      <4>2. KeyFor(r.home) = 0
        BY <2>1, <2>4 DEF KeyFor, LegacyKey, IsKey
      <4>. QED
        BY <4>1, <4>2
    <3>. QED
      BY <1>8, <2>1, <3>1, <3>2
  <2>5. CASE ~IsKey(store[r.home]) /\ ~IsKey(LegacyKey(r.snap)) /\ ~(r.snap = NoFile \/ IsCreating(r.op))
    <3>1. Goes(c, "over") /\ UNCHANGED <<store, minted>>
      BY <1>9, <2>5 DEF VaultResolves
    <3>. QED
      BY <1>0, <1>6, <2>1, <3>1
  <2>. QED
    BY <2>2, <2>3, <2>4, <2>5
<1>10. ASSUME NEW c \in Commands, ReadsBack(c)
       PROVE  VaultIInv'
  <2>. DEFINE r == run[c]
              at == IF store[r.home] # r.key THEN "over"
                    ELSE IF r.at = "back" THEN "open" ELSE IF r.at = "adopted" THEN "rewrap" ELSE "write"
  <2>1. /\ r.at \in {"back", "adopted", "rotated"} /\ Goes(c, at) /\ VaultWorks(c)
        /\ UNCHANGED <<file, store, machine, minted, midway, confirmed, deaths>>
    BY <1>10 DEF ReadsBack
  <2>2. CASE at = "over"
    BY <1>0, <1>6, <2>1, <2>2
  <2>3. CASE at # "over"
    <3>1. store[r.home] = r.key /\ at \in {"open", "rewrap", "write"} /\ at \in VaultPlaces \ {"over"}
      BY <2>3 DEF VaultPlaces
    <3>2. RunHolds(c)
      BY <1>a
    <3>3. /\ at = "open" => r.at = "back"
          /\ at = "rewrap" => r.at = "adopted"
          /\ at = "write" => r.at = "rotated"
      BY <2>1, <2>3
    <3>. HIDE DEF at
    <3>. QED
      BY <1>7, <2>1, <3>1, <3>2, <3>3 DEF RunHolds
  <2>. QED
    BY <2>2, <2>3
<1>11. ASSUME NEW c \in Commands, Opens(c)
       PROVE  VaultIInv'
  <2>. DEFINE r == run[c]
  <2>1. /\ r.at = "open" /\ r.snap = file[r.home] /\ r.key # 0 /\ VaultWorks(c)
        /\ (r.key = store[r.home] \/ (r.shared /\ r.key = machine /\ r.snap # NoFile))
        /\ UNCHANGED <<file, machine, minted, midway, confirmed, deaths>>
    BY <1>11, <1>a DEF Opens, RunHolds
  <2>2. CASE IsCreating(r.op) \/ r.snap = NoFile
    <3>1. IsCreating(run[c].op) \/ run[c].snap = NoFile
      BY <2>2
    <3>a. Goes(c, "load") /\ UNCHANGED store
      BY <1>11, <3>1 DEF Opens
    <3>2. r.key = store[r.home] \/ Adopts(r)
      BY <2>1, <2>2 DEF Adopts
    <3>. QED
      BY <1>7, <2>1, <3>a, <3>2 DEF VaultPlaces
  <2>3. CASE ~(IsCreating(r.op) \/ r.snap = NoFile) /\ ~Decrypts(r.key, r.snap)
    <3>1. Goes(c, "over") /\ UNCHANGED store
      BY <1>11, <2>3 DEF Opens
    <3>. QED
      BY <1>0, <1>6, <2>1, <3>1
  <2>4. CASE ~(IsCreating(r.op) \/ r.snap = NoFile) /\ Decrypts(r.key, r.snap) /\ r.shared
    <3>1. Goes(c, "adopted") /\ store' = [store EXCEPT ![r.home] = r.key] /\ r.snap.key = r.key
      BY <1>11, <2>4 DEF Opens, Decrypts
    <3>2. /\ run'[c] \in VaultRow /\ run' = [run EXCEPT ![c] = run'[c]] /\ run'[c].home = r.home
          /\ run'[c].at = "adopted" /\ run'[c] = [run[c] EXCEPT !.at = "adopted"]
      BY <3>1, OverIs DEF VaultPlaces
    <3>3. /\ run'[c].name = r.name /\ run'[c].snap = r.snap /\ run'[c].key = r.key
      BY <1>a, <3>2 DEF VaultRow
    <3>4. RunHolds(c)'
      BY <2>1, <3>1, <3>2, <3>3 DEF RunHolds
    <3>5. store' \in [Homes -> Nat] /\ store'[r.home] = r.key /\ \A h \in Homes \ {r.home} : store'[h] = store[h]
      BY <1>0, <1>a, <3>1
    <3>6. /\ run' \in [Commands -> VaultRow] /\ \A d \in Commands : VaultWorks(d)' => run'[d].name \in VaultNames
          /\ OneInHome' /\ \A d \in Commands : RunHolds(d)'
      BY <1>a, <2>1, <3>2, <3>3, <3>4, <3>5, OneHome
    <3>7. VaultTyped'
      BY <1>0, <2>1, <3>5, <3>6 DEF VaultTyped
    <3>8. OpensAtHome'
      BY <2>1, <3>1, <3>5 DEF VaultIInv, OpensAtHome, KeyFor
    <3>. QED
      BY <2>1, <3>6, <3>7, <3>8 DEF VaultIInv, FilesHaveKeys, SetIsKept
  <2>5. CASE ~(IsCreating(r.op) \/ r.snap = NoFile) /\ Decrypts(r.key, r.snap) /\ ~r.shared
    <3>1. Goes(c, "rewrap") /\ UNCHANGED store /\ r.snap.key = r.key
      BY <1>11, <2>5 DEF Opens, Decrypts
    <3>. QED
      BY <1>7, <2>1, <2>5, <3>1 DEF VaultPlaces
  <2>. QED
    BY <2>2, <2>3, <2>4, <2>5
\* A file that is written under the key its home has.
<1>12. ASSUME NEW c \in Commands, NEW at \in {"over", "load"}, NEW s \in SUBSET VaultNames,
              VaultWorks(c), Goes(c, at), at = "load" => run[c].key = store'[run[c].home],
              run[c].key # 0, run[c].key = store'[run[c].home],
              file' = [file EXCEPT ![run[c].home] = EncryptPayload(run[c].key, s)],
              confirmed' \in [Homes -> SUBSET VaultNames], confirmed'[run[c].home] \subseteq s,
              \A h \in Homes \ {run[c].home} : confirmed'[h] = confirmed[h] /\ store'[h] = store[h],
              store' \in [Homes -> Nat], midway' \in {midway, midway \ {run[c].home}},
              UNCHANGED <<machine, minted, deaths>>
       PROVE  VaultIInv'
  <2>1. /\ run'[c] \in VaultRow /\ run' = [run EXCEPT ![c] = run'[c]]
        /\ run'[c].home = run[c].home /\ run'[c].at = at /\ (at # "over" => run'[c] = [run[c] EXCEPT !.at = at])
    BY <1>12, OverIs, ZenonT(30) DEF VaultPlaces
  <2>2. RunHolds(c)' /\ (VaultWorks(c)' => run'[c].name \in VaultNames)
    BY <1>12, <1>a, <2>1 DEF RunHolds, VaultRow
  <2>3. /\ file' \in [Homes -> Envelope] /\ file'[run[c].home] = EncryptPayload(run[c].key, s)
        /\ \A h \in Homes \ {run[c].home} : file'[h] = file[h]
    BY <1>0, <1>12, <1>a DEF Envelope, EncryptPayload
  <2>4. /\ run' \in [Commands -> VaultRow] /\ \A d \in Commands : VaultWorks(d)' => run'[d].name \in VaultNames
        /\ OneInHome' /\ \A d \in Commands : RunHolds(d)'
    <3>1. \A h \in Homes \ {run[c].home} : file'[h] = file[h] /\ store'[h] = store[h] /\ (h \in midway' <=> h \in midway)
      BY <1>12, <2>3
    <3>. QED
      BY <1>12, <2>1, <2>2, <3>1, OneHome
  <2>5. VaultTyped'
    BY <1>0, <1>12, <2>3, <2>4 DEF VaultTyped
  <2>6. FilesHaveKeys' /\ OpensAtHome' /\ SetIsKept'
    BY <1>12, <2>3 DEF VaultIInv, FilesHaveKeys, OpensAtHome, SetIsKept, KeyFor, EncryptPayload
  <2>. QED
    BY <2>4, <2>5, <2>6 DEF VaultIInv
<1>13. ASSUME NEW c \in Commands, Rewraps(c)
       PROVE  VaultIInv'
  <2>. DEFINE r == run[c]
              at == IF r.op = "open" THEN "over" ELSE "load"
  <2>1. /\ r.at = "rewrap" /\ r.snap = file[r.home] /\ r.key # 0 /\ r.key = store[r.home] /\ VaultWorks(c)
        /\ Goes(c, at) /\ UNCHANGED <<store, machine, minted, midway, confirmed, deaths>>
    BY <1>13, <1>a DEF Rewraps, RunHolds
  <2>2. CASE ~EnvelopeNeedsReWrap(r.snap)
    <3>1. file' = file
      BY <1>13, <2>2 DEF Rewraps
    <3>2. CASE r.op = "open"
      BY <1>0, <1>6, <2>1, <3>1, <3>2
    <3>3. CASE r.op # "open"
      BY <1>7, <2>1, <3>1, <3>3 DEF VaultPlaces
    <3>. QED
      BY <3>2, <3>3
  <2>3. CASE EnvelopeNeedsReWrap(r.snap)
    <3>1. file' = [file EXCEPT ![r.home] = EncryptPayload(r.key, r.snap.entries)]
      BY <1>13, <2>3 DEF Rewraps, WrapPayload
    <3>2. r.snap.entries \in SUBSET VaultNames /\ confirmed[r.home] \subseteq r.snap.entries /\ at \in {"over", "load"}
      BY <1>a, <1>b, <2>1 DEF VaultIInv, SetIsKept
    <3>. HIDE DEF at
    <3>. QED
      BY <1>0, <1>12, <2>1, <3>1, <3>2
  <2>. QED
    BY <2>2, <2>3
<1>14. ASSUME NEW c \in Commands, VaultLoads(c)
       PROVE  VaultIInv'
  <2>. DEFINE r == run[c]
              f == file[r.home]
              at == IF r.op = "rotate" THEN "newkey" ELSE "write"
  <2>1. /\ r.at = "load" /\ r.key # 0 /\ (r.key = store[r.home] \/ Adopts(r))
        /\ VaultWorks(c) /\ UNCHANGED <<file, store, machine, minted, midway, confirmed, deaths>>
    BY <1>14, <1>a DEF VaultLoads, RunHolds
  <2>2. CASE r.op = "open" \/ (f # NoFile /\ ~Decrypts(r.key, f))
    <3>1. Goes(c, "over")
      BY <1>14, <2>2 DEF VaultLoads
    <3>. QED
      BY <1>0, <1>6, <2>1, <3>1
  <2>3. CASE ~(r.op = "open" \/ (f # NoFile /\ ~Decrypts(r.key, f)))
    <3>1. run'[c] = [run[c] EXCEPT !.at = at, !.payload = f.entries] /\ run' = [run EXCEPT ![c] = run'[c]]
      BY <1>0, <1>14, <2>3 DEF VaultLoads
    <3>2. /\ run'[c] \in VaultRow /\ run'[c].home = r.home /\ run'[c].at = at /\ run'[c].payload = f.entries
          /\ run'[c].key = r.key /\ run'[c].shared = r.shared /\ run'[c].op = r.op /\ run'[c].name = r.name
      BY <1>a, <1>b, <3>1 DEF VaultRow, VaultPlaces
    <3>3. RunHolds(c)'
      BY <2>1, <3>2 DEF RunHolds, Adopts
    <3>. QED
      BY <1>0, <1>4, <1>a, <2>1, <3>1, <3>2, <3>3
  <2>. QED
    BY <2>2, <2>3
<1>15. ASSUME NEW c \in Commands, NewKey(c)
       PROVE  VaultIInv'
  <2>1. /\ run[c].at = "newkey" /\ run[c].payload = file[run[c].home].entries /\ VaultWorks(c)
        /\ UNCHANGED <<file, machine, confirmed, deaths>>
    BY <1>15, <1>a DEF NewKey, RunHolds
  <2>2. CASE ~IsWritable(run[c].home)
    <3>1. Goes(c, "over") /\ UNCHANGED <<store, minted, midway>>
      BY <1>15, <2>2 DEF NewKey
    <3>. QED
      BY <1>0, <1>6, <2>1, <3>1
  <2>3. CASE IsWritable(run[c].home)
    <3>1. Mints(c, "rotated") /\ midway' = midway \cup {run[c].home}
      BY <1>15, <2>3 DEF NewKey
    <3>. QED
      BY <1>8, <2>1, <3>1
  <2>. QED
    BY <2>2, <2>3
<1>16. ASSUME NEW c \in Commands, Writes(c)
       PROVE  VaultIInv'
  <2>. DEFINE r == run[c]
              added == IF r.op = "set" THEN {r.name} ELSE {}
              removed == IF r.op = "rm" THEN {r.name} ELSE {}
              s == (r.payload \cup added) \ removed
  <2>1. /\ r.at = "write" /\ r.key # 0 /\ (r.key = store[r.home] \/ Adopts(r)) /\ VaultWorks(c)
        /\ r.payload = file[r.home].entries
    BY <1>16, <1>a DEF Writes, RunHolds
  <2>2. /\ file' = [file EXCEPT ![r.home] = EncryptPayload(r.key, s)]
        /\ confirmed' = [confirmed EXCEPT ![r.home] = (confirmed[r.home] \cup added) \ removed]
        /\ midway' = midway \ {r.home}
        /\ store' = IF r.shared /\ IsCreating(r.op) THEN [store EXCEPT ![r.home] = r.key] ELSE store
        /\ Goes(c, "over") /\ UNCHANGED <<machine, minted, deaths>>
    BY <1>16 DEF Writes, WrapPayload
  <2>3. s \in SUBSET VaultNames /\ confirmed[r.home] \subseteq r.payload
    BY <1>a, <2>1 DEF VaultIInv, SetIsKept
  <2>4. /\ store' \in [Homes -> Nat] /\ store'[r.home] = r.key /\ \A h \in Homes \ {r.home} : store'[h] = store[h]
    BY <1>0, <1>a, <2>1, <2>2 DEF Adopts
  <2>5. /\ confirmed' \in [Homes -> SUBSET VaultNames] /\ confirmed'[r.home] \subseteq s
        /\ \A h \in Homes \ {r.home} : confirmed'[h] = confirmed[h]
    BY <1>0, <1>a, <2>1, <2>2, <2>3
  <2>. HIDE DEF s
  <2>. QED
    BY <1>12, <2>1, <2>2, <2>3, <2>4, <2>5
<1>17. ASSUME NEW c \in Commands, Dies(c)
       PROVE  VaultIInv'
  BY <1>0, <1>6, <1>17 DEF Dies
<1>18. ASSUME UNCHANGED vaultVars
       PROVE  VaultIInv'
  BY <1>18 DEF vaultVars, VaultIInv, VaultTyped, FilesHaveKeys, OneInHome, RunHolds, Adopts, OpensAtHome, SetIsKept, KeyFor
<1>. QED
  BY <1>1, <1>2, <1>3, <1>5, <1>9, <1>10, <1>11, <1>13, <1>14, <1>15, <1>16, <1>17, <1>18
     DEF VaultNext, VaultOps

\* A vault opens with the key its home finds, and keeps what a command said it has set, wherever a
\* process dies but between the halves of a rotation or a reset, as long as one command runs in a home
\* at a time (createVault, openVault, persist).
THEOREM VaultsOpen ==
  ASSUME Homes # {}, Alone
  PROVE  VaultSpec => [](VaultTypeOK /\ OpensAtHome /\ SetIsKept)
<1>1. VaultIInv => VaultTypeOK /\ OpensAtHome /\ SetIsKept
  BY DEF VaultIInv, VaultTyped, VaultTypeOK, VaultRow
<1>2. VaultInit => VaultIInv
  BY VaultStarts
<1>3. VaultIInv /\ [VaultNext]_vaultVars => VaultIInv'
  BY VaultKept
<1>. QED
  BY <1>1, <1>2, <1>3, PTL DEF VaultSpec

-----------------------------------------------------------------------------
(* The audit log *)

AuditHash == [seq : Nat, hash : Nat]
AuditRow == [seq : Nat, prev : Nat, hash : Nat, anchor : BOOLEAN, body : AuditHash]
MemRow == [up : BOOLEAN, seq : Nat, prev : Nat, since : Nat]
AppendRow == [at : {"none", "key", "head", "ref"}, anchor : BOOLEAN, body : AuditHash, outer : BOOLEAN]
AuditTyped ==
    /\ chainLog \in Seq(AuditRow) /\ head \in AuditHash /\ {torn, made} \subseteq BOOLEAN
    /\ mem \in MemRow /\ append \in AppendRow
    /\ check \in [at : {"none", "head", "failed"}, read : Seq(AuditRow)]
    /\ refs \subseteq Nat /\ {logTail, hashes, logEvents, logStops} \subseteq Nat
LastHash == IF chainLog = <<>> THEN 0 ELSE chainLog[Len(chainLog)].hash
\* A daemon that runs stands at the end of the file; what it is about to write names that end.
AtTheEnd ==
    /\ ~made => chainLog = <<>>
    /\ mem.up => made /\ mem.seq = Len(chainLog) /\ mem.prev = LastHash
    /\ append.at # "none" => mem.up
    /\ append.at \in {"head", "ref"} => chainLog # <<>>
    /\ append.anchor /\ append.outer =>
          /\ append.at = "key" => chainLog # <<>> /\ append.body = [seq |-> Len(chainLog), hash |-> LastHash]
          /\ append.at \in {"head", "ref"} => Len(chainLog) >= 2
    /\ append.anchor /\ ~append.outer /\ append.at = "key" => chainLog = <<>>
AuditIInv == AuditTyped /\ AtTheEnd /\ ChainHolds /\ AnchorNamesPrevious

LEMMA AnchorsAgo ==
  ASSUME NEW s \in Seq(AuditRow)
  PROVE  SinceAnchor(s) \in Nat
<1>. DEFINE A == {k \in DOMAIN s : s[k].anchor}
<1>0. Len(s) \in Nat /\ DOMAIN s = 1 .. Len(s)
  OBVIOUS
<1>1. CASE A = {}
  BY <1>0, <1>1 DEF SinceAnchor
<1>2. CASE A # {}
  <2>. DEFINE Below == {m \in Nat : \E i \in A : m = Len(s) - i}
  <2>1. Below \in SUBSET Nat /\ Below # {}
    <3>1. PICK i \in A : TRUE
      BY <1>2
    <3>2. Len(s) - i \in Nat
      BY <1>0, <3>1
    <3>. QED
      BY <3>1, <3>2
  <2>2. PICK m \in Below : \A k \in Below : m <= k
    <3>. HIDE DEF Below
    <3>. QED
      BY <2>1, LeastNatural
  <2>3. PICK i \in A : m = Len(s) - i
    OBVIOUS
  <2>4. \A j \in A : j <= i
    <3>1. ASSUME NEW j \in A PROVE j <= i
      <4>1. Len(s) - j \in Below
        BY <1>0
      <4>2. m <= Len(s) - j
        BY <2>2, <4>1
      <4>. QED
        BY <1>0, <2>3, <4>2
    <3>. QED
      BY <3>1
  <2>. DEFINE last == CHOOSE k \in A : \A l \in A : l <= k
  <2>5. last \in A
    BY <2>4
  <2>6. Len(s) - last \in Nat
    <3>. HIDE DEF last
    <3>. QED
      BY <1>0, <2>5
  <2>7. SinceAnchor(s) = Len(s) - last
    BY <1>2 DEF SinceAnchor
  <2>. QED
    BY <2>6, <2>7
<1>. QED
  BY <1>1, <1>2

LEMMA AuditStarts == ASSUME AuditAssumption, AuditInit PROVE AuditIInv
<1>1. AuditTyped
  <2>1. Genesis \in AuditHash /\ <<>> \in Seq(AuditRow)
    BY DEF Genesis, AuditHash
  <2>. QED
    <3>1. Down \in MemRow /\ NoAppend \in AppendRow
      BY <2>1 DEF Down, NoAppend, MemRow, AppendRow
    <3>2. check \in [at : {"none", "head", "failed"}, read : Seq(AuditRow)]
      BY <2>1 DEF AuditInit
    <3>. QED
      <4>1. chainLog \in Seq(AuditRow) /\ head \in AuditHash /\ mem \in MemRow /\ append \in AppendRow
        BY <2>1, <3>1 DEF AuditInit
      <4>2. torn = FALSE /\ made = FALSE /\ refs = {} /\ logTail = 0 /\ hashes = 0 /\ logEvents = 0 /\ logStops = 0
        BY DEF AuditInit
      <4>. QED
        <5>1. {torn, made} \subseteq BOOLEAN
          BY <4>2, Zenon
        <5>2. refs \subseteq Nat /\ {logTail, hashes, logEvents, logStops} \subseteq Nat
          BY <4>2
        <5>. QED
          BY <3>2, <4>1, <5>1, <5>2 DEF AuditTyped
<1>2. AtTheEnd
  BY DEF AuditInit, AtTheEnd, Down, NoAppend
<1>3. ChainHolds /\ AnchorNamesPrevious
  BY DEF AuditInit, ChainHolds, Linked, AnchorNamesPrevious
<1>. QED
  BY <1>1, <1>2, <1>3 DEF AuditIInv

LEMMA AuditKept ==
  ASSUME AuditIInv, [AuditNext]_auditVars
  PROVE  AuditIInv'
<1>0. /\ chainLog \in Seq(AuditRow) /\ Len(chainLog) \in Nat /\ DOMAIN chainLog = 1 .. Len(chainLog)
      /\ \A k \in DOMAIN chainLog : chainLog[k] \in AuditRow
      /\ hashes \in Nat /\ LastHash \in Nat
  <2>1. chainLog \in Seq(AuditRow) /\ hashes \in Nat
    BY DEF AuditIInv, AuditTyped
  <2>2. Len(chainLog) \in Nat /\ DOMAIN chainLog = 1 .. Len(chainLog) /\ \A k \in DOMAIN chainLog : chainLog[k] \in AuditRow
    BY <2>1
  <2>3. LastHash \in Nat
    <3>1. CASE chainLog = <<>>
      BY <3>1 DEF LastHash
    <3>2. CASE chainLog # <<>>
      <4>1. Len(chainLog) \in DOMAIN chainLog
        BY <2>1, <2>2, <3>2
      <4>2. chainLog[Len(chainLog)] \in AuditRow
        BY <2>2, <4>1
      <4>. QED
        BY <3>2, <4>2 DEF LastHash, AuditRow
    <3>. QED
      BY <3>1, <3>2
  <2>. QED
    BY <2>1, <2>2, <2>3
<1>a. /\ LastIn(chainLog) = [seq |-> Len(chainLog), hash |-> LastHash]
      /\ LastIn(chainLog).seq = Len(chainLog) /\ LastIn(chainLog).hash = LastHash
  <2>1. CASE chainLog = <<>>
    BY <2>1 DEF LastIn, LastHash, Genesis
  <2>2. CASE chainLog # <<>>
    <3>1. Len(chainLog) \in DOMAIN chainLog /\ Last(chainLog) = chainLog[Len(chainLog)]
      BY <1>0, <2>2 DEF Last
    <3>2. chainLog[Len(chainLog)].seq = Len(chainLog)
      BY <3>1 DEF AuditIInv, ChainHolds, Linked
    <3>. QED
      BY <2>2, <3>1, <3>2 DEF LastIn, LastHash
  <2>. QED
    BY <2>1, <2>2
\* A step that leaves the file alone.
<1>1. ASSUME UNCHANGED chainLog, AuditTyped', AtTheEnd'
      PROVE  AuditIInv'
  BY <1>1 DEF AuditIInv, ChainHolds, AnchorNamesPrevious
<1>b. NoAppend = [at |-> "none", anchor |-> FALSE, body |-> Genesis, outer |-> FALSE] /\ Genesis \in AuditHash
      /\ NoAppend \in AppendRow /\ Down \in MemRow /\ ~Down.up /\ NoAppend.at = "none" /\ ~NoAppend.anchor
      /\ Down \in [up : {FALSE}, seq : Nat, prev : Nat, since : Nat]
  BY DEF NoAppend, Genesis, AuditHash, Down, MemRow, AppendRow
<1>2. CASE LogStarts
  <2>1. /\ mem' = [up |-> TRUE, seq |-> Len(chainLog), prev |-> LastHash, since |-> SinceAnchor(chainLog)]
        /\ made' = TRUE /\ UNCHANGED <<chainLog, head, torn, logTail, refs, hashes, check, logEvents, logStops>>
        /\ append' \in {NoAppend, [NoAppend EXCEPT !.at = "key", !.anchor = TRUE]}
        /\ append' # NoAppend => ~made
    BY <1>2, <1>a DEF LogStarts
  <2>2. SinceAnchor(chainLog) \in Nat
    BY <1>0, AnchorsAgo
  <2>3. append' \in [at : {"none", "key"}, anchor : BOOLEAN, body : AuditHash, outer : {FALSE}]
        /\ (append'.at # "none" \/ append'.anchor => ~made)
    <3>1. CASE append' = NoAppend
      BY <1>b, <3>1
    <3>2. CASE append' # NoAppend
      <4>1. append' = [at |-> "key", anchor |-> TRUE, body |-> Genesis, outer |-> FALSE]
        BY <1>b, <2>1, <3>2
      <4>. QED
        BY <1>b, <2>1, <3>2, <4>1
    <3>. QED
      BY <3>1, <3>2
  <2>4. AuditTyped'
    <3>1. append' \in AppendRow /\ mem' \in MemRow
      BY <1>0, <2>1, <2>2, <2>3 DEF AppendRow, MemRow
    <3>. QED
      BY <2>1, <3>1 DEF AuditIInv, AuditTyped
  <2>5. AtTheEnd'
    <3>1. append'.at \in {"none", "key"} /\ ~append'.outer /\ mem'.up /\ mem'.seq = Len(chainLog) /\ mem'.prev = LastHash
      BY <2>1, <2>3
    <3>2. LastHash' = LastHash /\ made'
      BY <2>1 DEF LastHash
    <3>3. append'.anchor => chainLog = <<>>
      BY <2>3 DEF AuditIInv, AtTheEnd
    <3>. QED
      BY <2>1, <3>1, <3>2, <3>3 DEF AtTheEnd
  <2>. QED
    BY <1>1, <2>1, <2>4, <2>5
<1>3. CASE Emits \/ ReadsLog \/ ReadsHead
  <2>1. UNCHANGED <<chainLog, head, torn, made, mem, append, refs, hashes, logStops>>
    BY <1>3 DEF Emits, ReadsLog, ReadsHead
  <2>2. check' \in [at : {"none", "head", "failed"}, read : Seq(AuditRow)] /\ {logTail', logEvents'} \subseteq Nat
    <3>1. CASE Emits
      BY <3>1 DEF Emits, AuditIInv, AuditTyped
    <3>2. CASE ReadsLog
      BY <1>0, <3>2 DEF ReadsLog, AuditIInv, AuditTyped
    <3>3. CASE ReadsHead
      <4>1. check' = [check EXCEPT !.at = check'.at, !.read = <<>>] /\ check'.at \in {"none", "failed"}
            /\ UNCHANGED <<logTail, logEvents>>
        <5>1. \E v \in {"none", "failed"} : check' = [check EXCEPT !.at = v, !.read = <<>>]
          BY <3>3 DEF ReadsHead
        <5>. QED
          BY <3>3, <5>1 DEF ReadsHead, AuditIInv, AuditTyped
      <4>2. <<>> \in Seq(AuditRow)
        OBVIOUS
      <4>. QED
        BY <4>1, <4>2 DEF AuditIInv, AuditTyped
    <3>. QED
      BY <1>3, <3>1, <3>2, <3>3
  <2>3. AuditTyped' /\ AtTheEnd'
    BY <2>1, <2>2 DEF AuditIInv, AuditTyped, AtTheEnd, LastHash
  <2>. QED
    BY <1>1, <2>1, <2>3
<1>4. CASE LogBegins
  <2>1. /\ mem.up /\ append.at = "none" /\ logTail' = logTail - 1 /\ logTail > 0 /\ append' = [NoAppend EXCEPT !.at = "key"]
        /\ UNCHANGED <<chainLog, head, torn, made, mem, refs, hashes, check, logEvents, logStops>>
    BY <1>4 DEF LogBegins
  <2>2. append' = [at |-> "key", anchor |-> FALSE, body |-> Genesis, outer |-> FALSE] /\ Genesis \in AuditHash
    BY <2>1 DEF NoAppend, Genesis, AuditHash
  <2>3. AuditTyped'
    <3>1. append' \in AppendRow /\ logTail' \in Nat
      <4>1. logTail \in Nat /\ logTail > 0 /\ logTail' = logTail - 1
        BY <2>1 DEF AuditIInv, AuditTyped
      <4>. QED
        BY <2>2, <4>1 DEF AppendRow
    <3>. QED
      BY <2>1, <3>1 DEF AuditIInv, AuditTyped
  <2>4. AtTheEnd'
    BY <2>1, <2>2 DEF AuditIInv, AtTheEnd, LastHash
  <2>. QED
    BY <1>1, <2>1, <2>3, <2>4
<1>5. CASE KeyFails
  <2>1. /\ append' = NoAppend /\ mem' \in {mem, Down}
        /\ UNCHANGED <<chainLog, head, torn, made, logTail, refs, hashes, check, logEvents, logStops>>
    BY <1>5 DEF KeyFails
  <2>2. AuditTyped' /\ AtTheEnd'
    BY <2>1, <1>b DEF AuditIInv, AuditTyped, AtTheEnd, LastHash
  <2>. QED
    BY <1>1, <2>1, <2>2
<1>6. CASE LogStops
  <2>1. /\ append' = NoAppend /\ mem' = Down /\ logTail' = 0 /\ logStops' = logStops + 1 /\ torn' \in BOOLEAN
        /\ UNCHANGED <<chainLog, head, made, refs, hashes, check, logEvents>>
    BY <1>6 DEF LogStops, AuditIInv, AuditTyped
  <2>2. AuditTyped'
    <3>1. append' \in AppendRow /\ mem' \in MemRow /\ {logTail', logStops'} \subseteq Nat
      BY <1>b, <2>1 DEF AuditIInv, AuditTyped
    <3>. QED
      BY <2>1, <3>1 DEF AuditIInv, AuditTyped
  <2>3. AtTheEnd'
    <3>1. ~mem'.up /\ append'.at = "none" /\ ~append'.anchor
      BY <2>1, <1>b
    <3>. QED
      BY <2>1, <3>1 DEF AuditIInv, AtTheEnd
  <2>. QED
    BY <1>1, <2>1, <2>2, <2>3
<1>7. CASE Refers
  <2>1. /\ append.at = "ref" /\ append' = NoAppend
        /\ UNCHANGED <<chainLog, head, torn, made, mem, logTail, hashes, check, logEvents, logStops>>
    BY <1>7 DEF Refers
  <2>2. refs' \subseteq Nat
    <3>1. CASE append.anchor /\ append.outer
      <4>1. Len(chainLog) - 1 \in DOMAIN chainLog
        BY <1>0, <2>1, <3>1 DEF AuditIInv, AtTheEnd
      <4>2. chainLog[Len(chainLog) - 1].hash \in Nat
        BY <1>0, <4>1 DEF AuditRow
      <4>. QED
        BY <1>7, <3>1, <4>2 DEF Refers, LogFresh, AppendAuditRef, AuditIInv, AuditTyped
    <3>2. CASE ~(append.anchor /\ append.outer)
      <4>1. mem.prev \in Nat /\ append.anchor \in BOOLEAN /\ append.outer \in BOOLEAN /\ refs \subseteq Nat
        BY DEF AuditIInv, AuditTyped, MemRow, AppendRow
      <4>2. refs' = refs \/ refs' = refs \cup {mem.prev}
        BY <1>7, <3>2, <4>1 DEF Refers, LogFresh, AppendAuditRef
      <4>. QED
        BY <4>1, <4>2
    <3>. QED
      BY <3>1, <3>2
  <2>3. AuditTyped' /\ AtTheEnd'
    BY <2>1, <2>2, <1>b DEF AuditIInv, AuditTyped, AtTheEnd, LastHash
  <2>. QED
    BY <1>1, <2>1, <2>3
<1>8. CASE WritesHead
  <2>1. /\ append.at = "head" /\ head' = [seq |-> mem.seq, hash |-> mem.prev] /\ mem.up
        /\ mem.seq = Len(chainLog) /\ mem.prev = LastHash /\ chainLog # <<>>
        /\ UNCHANGED <<chainLog, torn, made, logTail, refs, hashes, check, logEvents, logStops>>
    BY <1>8 DEF WritesHead, AuditIInv, AtTheEnd
  <2>2. head' \in AuditHash
    BY <2>1, <1>0 DEF AuditHash
  <2>3. mem' \in MemRow
        /\ mem'.up = mem.up /\ mem'.seq = mem.seq /\ mem'.prev = mem.prev
    <3>1. mem \in MemRow /\ \E m \in Nat : mem' = [mem EXCEPT !.since = m]
      BY <1>8 DEF WritesHead, AuditIInv, AuditTyped, MemRow
    <3>. QED
      BY <3>1 DEF MemRow
  <2>4. CASE ~append.anchor /\ mem.since + 1 >= AnchorEvery
    <3>1. append' = [at |-> "key", anchor |-> TRUE, body |-> head', outer |-> TRUE]
      BY <1>8, <2>4 DEF WritesHead
    <3>2. append' \in AppendRow /\ append'.at = "key" /\ append'.anchor /\ append'.outer /\ append'.body = head'
      BY <2>2, <3>1 DEF AppendRow
    <3>3. AuditTyped'
      BY <2>1, <2>2, <2>3, <3>2 DEF AuditIInv, AuditTyped
    <3>4. AtTheEnd'
      BY <2>1, <2>3, <3>2 DEF AuditIInv, AtTheEnd, LastHash
    <3>. QED
      BY <1>1, <2>1, <3>3, <3>4
  <2>5. CASE ~(~append.anchor /\ mem.since + 1 >= AnchorEvery)
    <3>1. append' = [append EXCEPT !.at = "ref"]
      BY <1>8, <2>5 DEF WritesHead
    <3>2. append' \in AppendRow /\ append'.at = "ref" /\ append'.anchor = append.anchor /\ append'.outer = append.outer
      BY <3>1 DEF AuditIInv, AuditTyped, AppendRow
    <3>3. AuditTyped'
      BY <2>1, <2>2, <2>3, <3>2 DEF AuditIInv, AuditTyped
    <3>4. AtTheEnd'
      BY <2>1, <2>3, <3>2 DEF AuditIInv, AtTheEnd, LastHash
    <3>. QED
      BY <1>1, <2>1, <3>3, <3>4
  <2>. QED
    BY <2>4, <2>5
<1>9. CASE LogAppends
  <2>. DEFINE new == [seq |-> mem.seq + 1, prev |-> mem.prev, hash |-> hashes + 1, anchor |-> append.anchor,
                      body |-> append.body]
              n == Len(chainLog) + 1
  <2>1. /\ append.at = "key" /\ mem.up /\ mem.seq = Len(chainLog) /\ mem.prev = LastHash /\ hashes' = hashes + 1
        /\ chainLog' = Append(chainLog, new) /\ mem' = [mem EXCEPT !.seq = @ + 1, !.prev = hashes + 1]
        /\ append' = [append EXCEPT !.at = "head"]
        /\ UNCHANGED <<head, torn, made, logTail, refs, check, logEvents, logStops>>
    BY <1>9 DEF LogAppends, AwaitsAuditKey, SealAuditRecord, AuditIInv, AtTheEnd
  <2>2. new \in AuditRow /\ new.seq = n /\ new.prev = LastHash /\ new.hash = hashes + 1 /\ new.body = append.body
        /\ new.anchor = append.anchor
    <3>1. append.anchor \in BOOLEAN /\ append.body \in AuditHash /\ hashes + 1 \in Nat
      BY <1>0 DEF AuditIInv, AuditTyped, AppendRow
    <3>. QED
      BY <1>0, <2>1, <3>1 DEF AuditRow
  <2>. HIDE DEF new
  <2>3. /\ chainLog' \in Seq(AuditRow) /\ Len(chainLog') = n /\ chainLog'[n] = new /\ n \in Nat /\ n # 0
        /\ DOMAIN chainLog' = 1 .. n /\ \A k \in DOMAIN chainLog : chainLog'[k] = chainLog[k]
    BY <1>0, <2>1, <2>2
  <2>4. mem' \in MemRow /\ mem'.up /\ mem'.seq = n /\ mem'.prev = hashes + 1
    <3>1. mem \in MemRow /\ mem' = [mem EXCEPT !.seq = mem.seq + 1, !.prev = hashes + 1]
      BY <2>1 DEF AuditIInv, AuditTyped
    <3>2. mem.up /\ mem.seq + 1 = n /\ n \in Nat /\ hashes + 1 \in Nat
      BY <1>0, <2>1
    <3>. QED
      BY <3>1, <3>2 DEF MemRow
  <2>5. append' \in AppendRow /\ append'.at = "head" /\ append'.anchor = append.anchor /\ append'.outer = append.outer
    BY <2>1 DEF AuditIInv, AuditTyped, AppendRow
  <2>6. AuditTyped'
    <3>1. hashes' \in Nat
      BY <1>0, <2>1
    <3>. QED
      BY <2>1, <2>3, <2>4, <2>5, <3>1 DEF AuditIInv, AuditTyped
  <2>7. LastHash' = hashes + 1 /\ chainLog' # <<>>
    <3>1. chainLog' # <<>>
      BY <2>3
    <3>. QED
      BY <2>2, <2>3, <3>1 DEF LastHash
  <2>8. made
    BY <2>1 DEF AuditIInv, AtTheEnd
  <2>9. append.anchor /\ append.outer => n >= 2
    <3>1. chainLog # <<>> => Len(chainLog) >= 1
      BY <1>0
    <3>. QED
      BY <1>0, <2>1, <3>1 DEF AuditIInv, AtTheEnd
  <2>10. AtTheEnd'
    BY <2>1, <2>3, <2>4, <2>5, <2>7, <2>8, <2>9 DEF AtTheEnd
  <2>11. ChainHolds'
    <3>1. ASSUME NEW k \in 1 .. n
          PROVE  chainLog'[k].seq = k /\ chainLog'[k].prev = (IF k = 1 THEN 0 ELSE chainLog'[k - 1].hash)
      <4>1. CASE k = n
        <5>1. k # 1 => chainLog # <<>> /\ chainLog'[k - 1] = chainLog[Len(chainLog)]
          BY <1>0, <2>3, <4>1
        <5>2. k = 1 => chainLog = <<>>
          BY <1>0, <4>1
        <5>. QED
          BY <2>2, <2>3, <4>1, <5>1, <5>2 DEF LastHash
      <4>2. CASE k # n
        <5>1. k \in DOMAIN chainLog /\ (k # 1 => k - 1 \in DOMAIN chainLog)
          BY <1>0, <4>2
        <5>. QED
          BY <2>3, <5>1 DEF AuditIInv, ChainHolds, Linked
      <4>. QED
        BY <4>1, <4>2
    <3>. QED
      BY <2>3, <3>1 DEF ChainHolds, Linked
  <2>12. AnchorNamesPrevious'
    <3>1. ASSUME NEW k \in 1 .. n, chainLog'[k].anchor, k > 1
          PROVE  chainLog'[k].body = [seq |-> k - 1, hash |-> chainLog'[k - 1].hash]
      <4>1. CASE k = n
        <5>1. chainLog # <<>> /\ chainLog'[k - 1] = chainLog[Len(chainLog)] /\ k - 1 = Len(chainLog)
          BY <1>0, <2>3, <3>1, <4>1
        <5>2. append.anchor /\ append.outer
          BY <2>1, <2>2, <2>3, <3>1, <4>1, <5>1 DEF AuditIInv, AtTheEnd, AuditTyped
        <5>3. append.body = [seq |-> Len(chainLog), hash |-> LastHash]
          BY <2>1, <5>2 DEF AuditIInv, AtTheEnd
        <5>. QED
          BY <2>2, <2>3, <4>1, <5>1, <5>3 DEF LastHash
      <4>2. CASE k # n
        <5>1. k \in DOMAIN chainLog /\ k - 1 \in DOMAIN chainLog
          BY <1>0, <3>1, <4>2
        <5>. QED
          BY <2>3, <3>1, <5>1 DEF AuditIInv, AnchorNamesPrevious
      <4>. QED
        BY <4>1, <4>2
    <3>. QED
      BY <2>3, <3>1 DEF AnchorNamesPrevious
  <2>. QED
    BY <2>6, <2>10, <2>11, <2>12 DEF AuditIInv
<1>10. CASE UNCHANGED auditVars
  BY <1>10 DEF auditVars, AuditIInv, AuditTyped, AtTheEnd, LastHash, ChainHolds, AnchorNamesPrevious
<1>. QED
  BY <1>2, <1>3, <1>4, <1>5, <1>6, <1>7, <1>8, <1>9, <1>10 DEF AuditNext

\* The records number and link up from the first, and an anchor names the record before it,
\* whichever keys were missing and wherever daemons stopped (AuditLog, append, appendAnchor).
THEOREM LogLinksUp == AuditSpec => [](AuditTypeOK /\ ChainHolds /\ AnchorNamesPrevious)
<1>1. AuditIInv => AuditTypeOK /\ ChainHolds /\ AnchorNamesPrevious
  <2>. SUFFICES ASSUME AuditIInv PROVE AuditTypeOK
    BY DEF AuditIInv
  <2>1. \A k \in DOMAIN chainLog : chainLog[k] \in AuditRow
    BY DEF AuditIInv, AuditTyped
  <2>. QED
    BY <2>1 DEF AuditIInv, AuditTyped, AuditTypeOK, AuditRow, AuditHash, MemRow, AppendRow
<1>2. AuditInit => AuditIInv
  BY AuditAssumption, AuditStarts
<1>3. AuditIInv /\ [AuditNext]_auditVars => AuditIInv'
  BY AuditKept
<1>. QED
  BY <1>1, <1>2, <1>3, PTL DEF AuditSpec

-----------------------------------------------------------------------------
(* Side by side *)

\* What every behaviour of the parts side by side is for each of them: a behaviour of its own.
LEMMA HostHasParts ==
  Spec => /\ TabSpec /\ FilesSpec /\ ConnectionSpec /\ ConnectorSpec /\ SupervisorSpec /\ RemotesSpec /\ EgressSpec
          /\ VaultSpec /\ AuditSpec /\ DestinationSpec /\ ProvisionSpec
<1>1. Init => /\ TabInit /\ FilesInit /\ ConnectionInit /\ ConnectorInit /\ SupervisorInit /\ RemotesInit /\ EgressInit
              /\ VaultInit /\ AuditInit /\ DestinationInit /\ ProvisionInit
  BY DEF Init
<1>2. [Next]_hostVars =>
        /\ [TabNext]_tabVars /\ [FilesNext]_filesVars /\ [ConnectionNext]_loginVars /\ [ConnectorNext]_connectorVars
        /\ [SupervisorNext]_supervisorVars /\ [RemotesNext]_remoteVars /\ [EgressNext]_egressVars
        /\ [VaultNext]_vaultVars /\ [AuditNext]_auditVars
        /\ [DestinationNext]_destinationVars /\ [ProvisionNext]_provisionVars
  BY DEF Next, hostVars
<1>. QED
  BY <1>1, <1>2, PTL
     DEF Spec, TabSpec, FilesSpec, ConnectionSpec, ConnectorSpec, SupervisorSpec, RemotesSpec, EgressSpec,
         VaultSpec, AuditSpec, DestinationSpec, ProvisionSpec

\* What no step of the parts does: moves a person's input to another tab or closes theirs, forgets a
\* deployment that is still there or records one that does not serve, connects a provider late, calls a
\* changed manifest without a new approval, takes a true entry from a receipt.
THEOREM HostStepsHold == Spec => HostSteps
BY HostHasParts, InputStaysCorrect, HumanTabKeptCorrect, DestroyedIsGoneCorrect,
     UpdateTakesEffectCorrect,
   NothingConnectsLateCorrect, ReconsentIsAsked, SweepIsSparing, PTL DEF HostSteps

\* What ends takes with it what it held: a cancelled sign-in its CLI, a shell that quits its daemon, save
\* what a reload to an error or a kill of the shell had it lose sight of.
THEOREM NothingIsLeftBehind == Spec => []NothingLeftBehind
<1>1. ConnectionTypeOK /\ CancelledIsTold /\ SupervisorTypeOK /\ QuitTakesDaemonDown => NothingLeftBehind
  BY DEF NothingLeftBehind
<1>2. SupervisorSpec => [](SupervisorTypeOK /\ QuitTakesDaemonDown)
  BY QuitTakesItAlong
<1>. QED
  BY <1>1, <1>2, HostHasParts, CancelledCliIsTold, PTL

\* What is kept stays as it was promised: vaults, the audit log, deployments, approvals, files. The
\* hypotheses are those of VaultsOpen.
THEOREM KeptIsSafe ==
  ASSUME Homes # {}, Alone
  PROVE  Spec => []KeepsSafe
<1>1. ConnectorSpec => []ConnectorTypeOK
  <2>1. ConnectorIInv => ConnectorTypeOK
    BY DEF ConnectorIInv
  <2>. QED
    BY <2>1, ConnectorStarts, ConnectorKept, PTL DEF ConnectorSpec
<1>2. FilesSpec => []FilesTypeOK
  <2>1. FilesHold => FilesTypeOK
    BY DEF FilesHold
  <2>. QED
    BY <2>1, FilesAlways, PTL
<1>3. VaultSpec => [](VaultTypeOK /\ OpensAtHome /\ SetIsKept)
  BY VaultsOpen
<1>4. VaultTypeOK /\ OpensAtHome /\ SetIsKept /\ AuditTypeOK /\ ChainHolds /\ AnchorNamesPrevious /\ RemotesTypeOK
      /\ ConnectorTypeOK /\ FilesTypeOK /\ DownloadIsKept /\ ReceiptIsOutcome /\ WhatOpensIsOffered => KeepsSafe
  BY DEF KeepsSafe
<1>. QED
  BY <1>1, <1>2, <1>3, <1>4, HostHasParts, LogLinksUp, RemotesAreTyped, DownloadIsKeptCorrect, ReceiptIsOutcomeCorrect,
     OffersWhatOpens, PTL

\* The proxy connects to what it vetted and gives every slot back once; a destination has one answer in
\* all its spellings, outside what is refused; what is written down of a computer's network is what
\* Docker has, and a build leaves nothing old.
THEOREM NetworkIsSafe == Spec => []NetworkSafe
<1>1. EgressSafe /\ DestinationSafe /\ ProvisionTypeOK /\ PlanIsTheNetwork /\ BuiltIsNew => NetworkSafe
  BY DEF NetworkSafe
<1>. QED
  BY <1>1, HostHasParts, EgressHolds, DestinationsAreSafe, BuildsHold, PTL
=============================================================================
