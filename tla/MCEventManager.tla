--------------------------- MODULE MCEventManager ---------------------------
(* Small instances of EventManager.                                         *)
EXTENDS EventManager

CONSTANTS a1, a2, k1, k2

TwoApps == {a1, a2}
OneApp == {a1}
TwoDevices == {k1, k2}
OneDevice == {k1}
=============================================================================
