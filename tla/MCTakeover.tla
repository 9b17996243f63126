----------------------------- MODULE MCTakeover -----------------------------
(* Small instances of Takeover for TLC. *)
EXTENDS Takeover, TLC

CONSTANTS d1, d2, w1, w2

OneDevice == {d1}
TwoDevices == {d1, d2}
OneSlot == {w1}
TwoSlots == {w1, w2}
Symmetry == Permutations({d1, d2}) \cup Permutations({w1, w2})
NoAccident == {}
Slow == {"timeout"}
Cancels == {"cancel"}
ThawFails == {"nativeFails"}
CancelAndLoss == {"cancel", "slowCancel", "nativeFails", "lostBrowser"}
=============================================================================
