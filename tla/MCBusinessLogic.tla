-------------------------- MODULE MCBusinessLogic --------------------------
(* An instance of BusinessLogic: two drones, one of them over both limits,  *)
(* over one, and at both.                                                   *)
EXTENDS BusinessLogic

Sample(id, altitude, speed) == [drone_id |-> id, altitude |-> altitude, speed |-> speed]

MCSamples == {Sample("d1", 121, 51), Sample("d1", 120, 51), Sample("d1", 120, 50), Sample("d2", 0, 0)}
=============================================================================
