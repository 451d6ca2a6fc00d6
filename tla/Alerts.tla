-------------------------------- MODULE Alerts --------------------------------
(***************************************************************************)
(* The emergency service (Emergency) publishes to the notification server  *)
(* (Notifications).  They share the queue and the devices; the             *)
(* authentication server, which deletes and adds devices, also publishes   *)
(* verification codes to that queue.                                       *)
(***************************************************************************)
EXTENDS Emergency

CONSTANTS MaxMessages, MaxMoves, MaxCrashes, MaxFaults

ASSUME ServerBoundsAreNat ==
    MaxMessages \in Nat /\ MaxMoves \in Nat /\ MaxCrashes \in Nat /\ MaxFaults \in Nat

VARIABLES task, moves, crashes, faults, tried, mailed, texted, copies, failed, expired, rowless, tokenless

Server == INSTANCE Notifications

serverOnly == <<task, moves, crashes, faults, tried, mailed, texted, copies, failed, expired, rowless, tokenless>>
vars == <<published, token, stateVars, serverOnly>>

AlertsInit == Init /\ Server!Init

\* sendVerificationCode of the authentication server: one e-mail or one text message.
SendCode(sms) ==
    /\ Len(published) + MaxRequests < MaxMessages    \* room for the alerts
    /\ published' = Append(published,
           [pushes |-> {}, mails |-> ~sms, sms |-> sms, perishable |-> TRUE,
            about |-> NoUser, state |-> "Normal", change |-> 0])
    /\ UNCHANGED <<token, stateVars, serverOnly>>

Next ==
    \/ EmergencyNext /\ UNCHANGED serverOnly
    \/ \E sms \in BOOLEAN : SendCode(sms)
    \/ Server!Serve /\ UNCHANGED stateVars

Spec == AlertsInit /\ [][Next]_vars

FairSpec == Spec /\ Server!Fairness

TypeOK == EmergencyTypeOK /\ Server!ServerTypeOK

NothingSkipped == Server!NothingSkipped
RepeatedOnlyByCrash == Server!RepeatedOnlyByCrash
Delivered == Server!Delivered

\* From the change of a state to the phone of a friend: a device that an alert
\* names is pushed to in the end, unless its owner's devices, or those of other
\* friends, went or had no token, or a look-up failed.
Asked(i, d) == i <= Len(published) /\ d \in published[i].pushes
AlertReaches ==
    \A i \in 1..MaxMessages, d \in Devices :
        Asked(i, d) ~> (d \in tried[i] \/ d \in tokenless \/ i \in failed
                                       \/ \E e \in rowless : Asked(i, e))

===============================================================================
