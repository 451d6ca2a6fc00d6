------------------------------- MODULE Accounts -------------------------------
(***************************************************************************)
(* What the authentication server promises its users, with every request   *)
(* taking effect at one instant, and a login, registration or verification *)
(* that is answered 200 at the same one: a user registers once, a code     *)
(* verifies once and for its user only, and verification makes a device    *)
(* the active one of its user and of nobody else, with the key that the    *)
(* other services check.  AuthServer implements it as long as nothing else *)
(* runs in a request's transaction.                                        *)
(***************************************************************************)
CONSTANTS
    Users,      \* usernames
    Devices,    \* device ids, each with its public key
    Codes,      \* verification codes
    Members,    \* users with an account, and no device, at first
    None        \* SQL NULL

VARIABLES
    accounts,   \* the users with an account
    code,       \* of each code, whose it is and whether it was used
    active,     \* the users with an active device: it is the one of their key
    key,        \* the device whose key is registered for each user
    promised,   \* the codes whose login or registration was answered 200
    redeemed    \* the codes whose verification was answered 200

vars == <<accounts, code, active, key, promised, redeemed>>

Init ==
    /\ accounts = Members
    /\ code = [c \in Codes |-> [of |-> None, used |-> FALSE]]
    /\ active = {}
    /\ key = [u \in Users |-> None]
    /\ promised = {} /\ redeemed = {}

\* A code nobody had is sent to u.
Send(u, c) ==
    /\ code[c].of = None
    /\ code' = [code EXCEPT ![c] = [of |-> u, used |-> FALSE]]

Register(u, c) ==
    /\ u \notin accounts
    /\ accounts' = accounts \cup {u}
    /\ Send(u, c)
    /\ promised' = promised \cup {c}
    /\ UNCHANGED <<active, key, redeemed>>

\* Whoever logs in by phone need not have an account.  The code of a login that
\* is answered with an error may be there.
Login(u, c) ==
    /\ Send(u, c)
    /\ promised' \in {promised, promised \cup {c}}
    /\ UNCHANGED <<accounts, active, key, redeemed>>

\* d becomes the active device of u: of nobody else, and the only one of u.  Unless
\* he asks to wipe it, the device he has, or whoever has d, must not be another.
Verify(u, d, c, wipe) ==
    /\ u \in accounts
    /\ code[c] = [of |-> u, used |-> FALSE]
    /\ ~wipe => \A v \in active : v = u <=> key[v] = d
    /\ code' = [code EXCEPT ![c].used = TRUE]
    /\ active' = {v \in active : key[v] # d} \cup {u}
    /\ key' = [key EXCEPT ![u] = d]
    /\ redeemed' = redeemed \cup {c}
    /\ UNCHANGED <<accounts, promised>>

\* The key stays.
Delete(u, d) ==
    /\ u \in active /\ key[u] = d
    /\ active' = active \ {u}
    /\ UNCHANGED <<accounts, code, key, promised, redeemed>>

Next ==
    \E u \in Users :
        \/ \E c \in Codes : Register(u, c) \/ Login(u, c)
        \/ \E d \in Devices, c \in Codes, wipe \in BOOLEAN : Verify(u, d, c, wipe)
        \/ \E d \in Devices : Delete(u, d)

Spec == Init /\ [][Next]_vars
===============================================================================
