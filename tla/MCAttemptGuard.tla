--------------------------- MODULE MCAttemptGuard ---------------------------
(* Instances of AttemptGuard for TLC: the delays of the code scaled down, in
   the same order (curve < breaker < window). *)
EXTENDS AttemptGuard, TLC

CONSTANTS s1, s2, i1, i2, v1, none, gone

NoProcess   == {}
OneService  == {s1}
TwoServices == {s1, s2}
OneTerminal == {i1}
TwoTerminals == {i1, i2}
OneViewer   == {v1}

ShortCurve    == [n \in 0..1 |-> n]             \* 0 1
SteepCurve    == [n \in 0..2 |-> n]             \* 0 1 2

Nowhere       == {}
Everywhere    == Steps
BeforeTunnel  == {"prep", "reserve", "code", "dispatch"}
InPreparation == {"prep", "reserve", "code"}

AnyOutcome    == {"rejected", "unverified", "verified", "unknown"}
Sessions      == {"verified", "unverified"}
Rejected      == {"rejected"}
Unverified    == {"unverified"}
NoTelemetry   == {"rejected", "unknown"}
=============================================================================
