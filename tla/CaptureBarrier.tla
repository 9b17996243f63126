--------------------------- MODULE CaptureBarrier ---------------------------
(***************************************************************************)
(* What the takeover machinery promises, with no process, row, lease or    *)
(* message in it: the computer is driven by the model or by one person,    *)
(* never by both.  Each computer-server process (a Role) shuts its own     *)
(* door and drains the model's action in flight behind it; a person may    *)
(* take the desktop only when every door is shut and every action is       *)
(* drained; a door opens again only when nobody drives.  What is on the    *)
(* page becomes private only by the hand of the person who drives.         *)
(* Takeover implements this module.                                        *)
(***************************************************************************)
CONSTANTS Role, Person, Nobody,
  Desktop   \* the role whose process owns the page a person drives

VARIABLES driver,   \* the person who drives, or Nobody
          shut,     \* the roles whose door is shut to the model
          acting,   \* the roles on which an action of the model is in flight
          page      \* "clean" or "private": what the model would see

barrierVars == <<driver, shut, acting, page>>

BarrierInit ==
  /\ driver = Nobody
  /\ shut = {}
  /\ acting = {}
  /\ page = "clean"

ModelActs(r) ==
  /\ r \notin shut
  /\ acting' = acting \cup {r}
  /\ UNCHANGED <<driver, shut, page>>

ActDrains(r) ==
  /\ acting' = acting \ {r}
  /\ UNCHANGED <<driver, shut, page>>

Shut(r) ==
  /\ shut' = shut \cup {r}
  /\ UNCHANGED <<driver, acting, page>>

Open(r) ==
  /\ driver = Nobody
  /\ shut' = shut \ {r}
  /\ UNCHANGED <<driver, acting, page>>

\* Processes are replaced by fresh ones, whose doors are open.  While a person
\* drives, only together with the desktop: the hold and the page end with it.
Replace(R) ==
  /\ driver = Nobody \/ Desktop \in R
  /\ driver' = Nobody
  /\ shut' = shut \ R
  /\ acting' = acting \ R
  /\ page' = IF Desktop \in R THEN "clean" ELSE page

Take(p) ==
  /\ driver = Nobody
  /\ shut = Role
  /\ acting = {}
  /\ driver' = p
  /\ UNCHANGED <<shut, acting, page>>

Yield ==
  /\ driver' = Nobody
  /\ UNCHANGED <<shut, acting, page>>

Type(p) ==
  /\ driver = p
  /\ page' \in {"clean", "private"}
  /\ UNCHANGED <<driver, shut, acting>>

\* takeover.blank: the page is navigated away while the browser's door is shut.
Blank ==
  /\ shut # {}
  /\ page' = "clean"
  /\ UNCHANGED <<driver, shut, acting>>

BarrierNext ==
  \/ \E r \in Role : ModelActs(r) \/ ActDrains(r) \/ Shut(r) \/ Open(r)
  \/ \E p \in Person : Take(p) \/ Type(p)
  \/ \E R \in SUBSET Role : Replace(R)
  \/ Yield
  \/ Blank

BarrierSpec == BarrierInit /\ [][BarrierNext]_barrierVars
=============================================================================
