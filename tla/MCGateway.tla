----------------------------- MODULE MCGateway -----------------------------
(* Instances of Gateway for TLC. Connections and calls are interchangeable *)
(* here, where no property is about liveness. One world has a single       *)
(* connection and every other event, the other has connections that        *)
(* supersede each other; both at once are beyond TLC's reach.              *)
EXTENDS Gateway, TLC

Symmetry == Permutations(Conns) \cup Permutations(Calls)

Worlds == {Events \ {"reconnect"}, {"call", "heartbeat", "lapse", "reconnect"}}
=============================================================================
