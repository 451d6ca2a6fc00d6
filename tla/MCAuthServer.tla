----------------------------- MODULE MCAuthServer -----------------------------
(* Instances of AuthServer for TLC. *)
EXTENDS AuthServer, TLC

\* Codes and handlers are interchangeable, and so are devices (used by the
\* safety runs only).
Symmetry == Permutations(Codes) \cup Permutations(Handlers) \cup Permutations(Devices)
===============================================================================
