---- MODULE MCGeofences ----
\* Geofences for TLC: its instance is given in MCGeofences_shared.cfg.
EXTENDS Geofences, TLC

Symmetry == Permutations(Users) \cup Permutations(Handlers)
====
