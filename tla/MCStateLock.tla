---------------------------- MODULE MCStateLock ----------------------------
(* Instances of StateLock for TLC. *)
EXTENDS StateLock, TLC

CONSTANTS p1, p2, p3, p4, bare, absent

ThreeProcs == {p1, p2, p3}
FourProcs  == {p1, p2, p3, p4}
OnePid     == {p1}
AnyPid     == Permutations(Procs)

AllSteps  == Steps
Unlocking == {"unlink", "rmdir"}
Nowhere   == {}
=============================================================================
