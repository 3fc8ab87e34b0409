---------------------------- MODULE MCEnrollment ----------------------------
(***************************************************************************)
(* Model checking of the doors of the server and its keys (Doors).         *)
(* Enrollment meets three identities that fit together and one that        *)
(* conflicts with two of them, by its device and by its key. Its sessions  *)
(* and the API keys are interchangeable, and no property is about          *)
(* liveness; a behaviour is never of both, so that the same values stand   *)
(* for both.                                                               *)
(***************************************************************************)
EXTENDS Doors, TLC

CONSTANTS d1, d2, d3, k1, k2, k3, k4, i1, i2, token, a, b

Pair(d, k) == [device |-> d, key |-> k]
MCClaims   == {Pair(d1, k1), Pair(d2, k2), Pair(d3, k3), Pair(d1, k2)}

HW == INSTANCE HttpWorlds WITH s1 <- token
MCCallers == HW!MCWorlds
MCKeyKind == HW!MCKeyKind

Symmetry == Permutations(Sessions)
=============================================================================
