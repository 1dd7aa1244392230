----------------------------- MODULE MCListener -----------------------------
(* Instances of Listener.  A drone is told by its bytes.                    *)
EXTENDS Listener, TLC

Drone(stream) == [stream |-> stream, packets |-> << >>]

OneDrone == {Drone(<<1, 2>>)}
NoDrones == {}
FdSymmetry == Permutations(Fd)
=============================================================================
