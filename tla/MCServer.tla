------------------------------ MODULE MCServer ------------------------------
(* Model checking of Server: the worlds of its parts.                      *)
EXTENDS Server

CONSTANTS s1, s2

LW == INSTANCE LifecycleWorlds
PW == INSTANCE DispatchWorlds

MCLives     == LW!MCWorlds
MCErrands   == PW!MCWorlds
MCTerminals == PW!MCTerminals
MCSessions  == {s1, s2}
MCNames     == PW!MCNames
MCFold      == PW!MCFold
MCHost      == PW!MCHost
=============================================================================
