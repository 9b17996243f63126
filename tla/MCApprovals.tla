---------------------------- MODULE MCApprovals ----------------------------
(* Small instances of Approvals for TLC. *)
EXTENDS Approvals, TLC

CONSTANTS submit, delete, here, there, c1, c2, c3

\* A submit that the new_domain gate stops, and a deletion, on two sites.
TwoActions == {submit, delete}
OneSite == {submit}
TwoSites == (submit :> here) @@ (delete :> there)
OneAction == {delete}
NoSite == {}
There == delete :> there
TwoCallers == {c1, c2}
ThreeCallers == {c1, c2, c3}
Symmetry == Permutations(Caller)
CrashAlone == {"crash"}
NoCrash == Accidents \ {"crash"}

\* Once the task is stopped no call starts or goes out (NothingStartsAfterStop, checked
\* by the other run to the end), so there is no new consent to look at.
BeforeStop == ~stopped
=============================================================================
