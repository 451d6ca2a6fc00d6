------------------------------- MODULE MCAlerts -------------------------------
(* Instances of Alerts for TLC. *)
EXTENDS Alerts

CONSTANTS u1, u2

OneFriend == [d \in Devices |-> u2]

\* Everybody is friends, and one device at most is still to come.
ReadyInit ==
    /\ AlertsInit
    /\ friends = {<<u, v>> \in Users \X Users : u # v}
    /\ token \in [Devices -> {"none", "set"}]
    /\ \A d \in Devices : token[d] = "none" => d = CHOOSE e \in Devices : TRUE

ReadySpec == ReadyInit /\ [][Next]_vars /\ Server!Fairness
===============================================================================
