------------------------------ MODULE MCEmergency ------------------------------
(* Instances of Emergency for TLC. *)
EXTENDS Emergency, TLC

CONSTANTS u2

\* The second user has a device.
OneDevice == [d \in Devices |-> u2]

Symmetry == Permutations(Workers)
===============================================================================
