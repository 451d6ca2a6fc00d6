------------------------------ MODULE MCCommands ------------------------------
(* Instances of Commands for TLC. *)
EXTENDS Commands
===============================================================================
