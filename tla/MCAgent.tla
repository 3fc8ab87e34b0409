------------------------------ MODULE MCAgent ------------------------------
(* Model checking of three parts of the agent (Agent), with the worlds of  *)
(* the desktop tools and the shots of the marked screen.                   *)
EXTENDS Agent

CONSTANTS c1, c2

TW == INSTANCE ToolWorlds
SS == INSTANCE ScreenShots

MCOrder  == TW!MCOrder
MCWorlds == TW!MCWorlds
MCShots  == SS!MCShots
MCGlows  == SS!MCGlows
=============================================================================
