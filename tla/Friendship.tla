------------------------------ MODULE Friendship ------------------------------
(***************************************************************************)
(* What the invitations service promises its users, with every request     *)
(* taking effect at one instant: a link offers its creator's friendship,   *)
(* somebody else takes the offer, and a friendship is mutual and ends for  *)
(* both sides at once.  Invitations implements it.                         *)
(*                                                                         *)
(* Befriend does not ask for the link to be open: validators/              *)
(* invitations.rs reads the state long before controllers/invitations.rs   *)
(* writes it, so the service does not keep that promise (see               *)
(* AcceptedIsFinal in Invitations).                                        *)
(***************************************************************************)
CONSTANTS
    Users,      \* usernames
    Links,      \* ids of link_invitations
    Nobody      \* SQL NULL: no username

VARIABLES
    link,       \* row of each link: state, creator, recipient
    friends     \* the set of befriended pairs {u, v}

vars == <<link, friends>>

LinkStates == {"NONE", "CREATED", "REJECTED", "ACCEPTED", "EXPIRED"}

LinkRow == [state: LinkStates, creator: Users \cup {Nobody}, recipient: Users \cup {Nobody}]

\* Before the INSERT of create_invitation: no row.
NoRow == [state |-> "NONE", creator |-> Nobody, recipient |-> Nobody]

Init == link = [l \in Links |-> NoRow] /\ friends = {}

Issue(l, u) ==
    /\ link[l].state = "NONE"
    /\ link' = [link EXCEPT ![l] = [state |-> "CREATED", creator |-> u, recipient |-> Nobody]]
    /\ UNCHANGED friends

Befriend(l, u) ==
    /\ link[l].state # "NONE"
    /\ link[l].creator # u
    /\ {link[l].creator, u} \notin friends
    /\ link' = [link EXCEPT ![l].state = "ACCEPTED", ![l].recipient = u]
    /\ friends' = friends \cup {{link[l].creator, u}}

Turn(l, u) ==
    /\ link[l].state # "NONE"
    /\ link[l].creator # u
    /\ link' = [link EXCEPT ![l].state = "REJECTED", ![l].recipient = u]
    /\ UNCHANGED friends

Lapse(l) ==
    /\ link[l].state # "NONE"
    /\ link' = [link EXCEPT ![l].state = "EXPIRED"]
    /\ UNCHANGED friends

Unfriend(u, v) ==
    /\ {u, v} \in friends
    /\ friends' = friends \ {{u, v}}
    /\ UNCHANGED link

Next ==
    \/ \E l \in Links : Lapse(l)
    \/ \E l \in Links, u \in Users : Issue(l, u) \/ Befriend(l, u) \/ Turn(l, u)
    \/ \E u, v \in Users : Unfriend(u, v)

Spec == Init /\ [][Next]_vars
===============================================================================
