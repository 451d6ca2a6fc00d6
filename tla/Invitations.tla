------------------------------ MODULE Invitations ------------------------------
(***************************************************************************)
(* The Rust invitations service: the handlers create, reject, accept and   *)
(* remove_friend of server/invitations.rs, run by several Rocket workers,  *)
(* each with its own pooled Postgres connection.                           *)
(*                                                                         *)
(* One action is one SQL statement (or several that nothing can come       *)
(* between).  reject, the expiry and create are single autocommitted       *)
(* statements; accept_invitation is a SERIALIZABLE transaction; CALL       *)
(* remove_friend is two statements of a READ COMMITTED transaction, each   *)
(* with a snapshot of its own.  What Postgres adds is modelled as it is    *)
(* documented: a row lock is held to the end of its transaction, an INSERT *)
(* waits for an uncommitted INSERT or DELETE of the same key, a            *)
(* serializable UPDATE that waited for a row which then changed fails      *)
(* (40001), and a cycle of waiting transactions loses one of them.         *)
(*                                                                         *)
(* Requests that the checks turn away change nothing and are not modelled. *)
(***************************************************************************)
EXTENDS FiniteSets

CONSTANTS
    Users,      \* usernames
    Links,      \* ids of link_invitations: bounds the invitations created
    Workers,    \* request handlers that run at the same time
    Keyed,      \* users with a row in users_identity
    Nobody,     \* SQL NULL: no username
    NoLink      \* the link of a worker that serves none

ASSUME NobodyIsNoUser == Nobody \notin Users
ASSUME NoLinkIsNoLink == NoLink \notin Links

VARIABLES
    link,       \* link_invitations, committed
    late,       \* the links whose expiration_timestamp has passed
    followers,  \* users_followers, committed: <<username, username_follower>>
    perception, \* users_followers_state, committed: the keys
    worker,     \* the request each worker serves and where it is in it
    row,        \* the link row each transaction has updated and so locked
    gained,     \* the users_followers rows each transaction has inserted
    dropped,    \* the users_followers rows each transaction has deleted
    granted,    \* history: <<l, u>> when an accept of l by u has committed
    straddled,  \* history: the followers whose accept committed during a removal of theirs
    sent        \* history: what accept handlers have published

vars == <<link, late, followers, perception, worker, row, gained, dropped, granted, straddled, sent>>
tables == <<link, late, followers, perception>>
transactions == <<row, gained, dropped>>
history == <<granted, straddled, sent>>

-------------------------------------------------------------------------------
\* Data.

LinkStates == {"NONE", "CREATED", "REJECTED", "ACCEPTED", "EXPIRED"}
LinkRow == [state: LinkStates, creator: Users \cup {Nobody}, recipient: Users \cup {Nobody}]
NoRow == [state |-> "NONE", creator |-> Nobody, recipient |-> Nobody]

Pairs == Users \X Users

\* username IN (u, v) AND username_follower IN (u, v)
Between(u, v) == {u, v} \X {u, v}

Steps == {"idle", "reject", "expire", "accept", "queued", "befriend", "commit",
          "notify", "refresh", "remove", "purge"}
Request == [step: Steps, user: Users \cup {Nobody}, link: Links \cup {NoLink},
            peer: Users \cup {Nobody}]
Idle == [step |-> "idle", user |-> Nobody, link |-> NoLink, peer |-> Nobody]

Message == [kind: {"accepted", "refresh"}, to: Users \cup {Nobody}, about: Users \cup {Nobody}]

Creator(w) == link[worker[w].link].creator
Me(w) == worker[w].user

\* The users_followers rows a removal that w has begun is about.
Removal(w) == IF worker[w].step \in {"remove", "purge"} THEN Between(Me(w), worker[w].peer) ELSE {}

-------------------------------------------------------------------------------
\* Locks.

RowFree(w) == \A k \in Workers \ {w} : row[k] # worker[w].link

\* The users_followers row CALL add_friend inserts next: the creator's, then the accepter's.
NextPair(w) == IF gained[w] = {} THEN <<Creator(w), Me(w)>> ELSE <<Me(w), Creator(w)>>

\* The users_followers rows the statement of w needs no other transaction to have touched.
Needs(w) == CASE worker[w].step = "befriend" -> {NextPair(w)}
              [] worker[w].step = "remove"   -> followers \cap Between(Me(w), worker[w].peer)
              [] worker[w].step = "purge"    -> Between(Me(w), worker[w].peer)
              [] OTHER -> {}

\* A DELETE does not see, and so does not wait for, an uncommitted INSERT.
Holds(k, w) == dropped[k] \cup (IF worker[w].step = "befriend" THEN gained[k] ELSE {})

WaitsFor(w, k) == k # w /\ Needs(w) \cap Holds(k, w) # {}

Unblocked(w) == \A k \in Workers : ~WaitsFor(w, k)

\* w is in a cycle of transactions that wait for each other's users_followers rows.
Deadlocked(w) ==
    \E S \in SUBSET Workers :
        /\ w \in S
        /\ \A k \in S : \E j \in S : WaitsFor(k, j)
        /\ \A k \in S : \E j \in S : WaitsFor(j, k)

-------------------------------------------------------------------------------
Init ==
    /\ link = [l \in Links |-> NoRow]
    /\ late = {}
    /\ followers = {}
    /\ perception = {}
    /\ worker = [w \in Workers |-> Idle]
    /\ row = [w \in Workers |-> NoLink]
    /\ gained = [w \in Workers |-> {}]
    /\ dropped = [w \in Workers |-> {}]
    /\ granted = {}
    /\ straddled = {}
    /\ sent = {}

Goto(w, s) == worker' = [worker EXCEPT ![w].step = s]
Finish(w) == worker' = [worker EXCEPT ![w] = Idle]

\* The transaction of w is over: its locks and its uncommitted rows are gone.
EndTx(w) ==
    /\ row' = [row EXCEPT ![w] = NoLink]
    /\ gained' = [gained EXCEPT ![w] = {}]
    /\ dropped' = [dropped EXCEPT ![w] = {}]

\* w changes the row of link l for good and goes on with request r.  Serializable
\* transactions queued for the row fail: their snapshot is older than the row.
Overwrite(w, l, r) ==
    worker' = [k \in Workers |->
        IF k = w THEN r
        ELSE IF worker[k].step = "queued" /\ worker[k].link = l THEN Idle
        ELSE worker[k]]

-------------------------------------------------------------------------------
\* create: LinkCreationData::new wants a date in the future, then one INSERT.
Create(l, u) ==
    /\ link[l].state = "NONE"
    /\ link' = [link EXCEPT ![l] = [state |-> "CREATED", creator |-> u, recipient |-> Nobody]]
    /\ UNCHANGED <<late, followers, perception, worker, transactions, history>>

\* The clock passes the expiration_timestamp of l.
Elapse(l) ==
    /\ link[l].state # "NONE"
    /\ l \notin late
    /\ late' = late \cup {l}
    /\ UNCHANGED <<link, followers, perception, worker, transactions, history>>

\* assert_valid_invitation up to its verdict: one SELECT of the row, not the
\* user's own, still CREATED; a late one is next marked EXPIRED.
Check(w, op, l, u) ==
    /\ worker[w] = Idle
    /\ link[l].state = "CREATED"
    /\ link[l].creator # u
    /\ worker' = [worker EXCEPT ![w] =
           [step |-> IF l \in late THEN "expire" ELSE op, user |-> u, link |-> l, peer |-> Nobody]]
    /\ UNCHANGED <<tables, transactions, history>>

\* set_invitation_expired: an UPDATE by id, then the error reply.
Expire(w) ==
    /\ worker[w].step = "expire"
    /\ RowFree(w)
    /\ link' = [link EXCEPT ![worker[w].link].state = "EXPIRED"]
    /\ Overwrite(w, worker[w].link, Idle)
    /\ UNCHANGED <<late, followers, perception, transactions, history>>

\* reject_invitation: an UPDATE by id, whatever the state has become.
Reject(w) ==
    /\ worker[w].step = "reject"
    /\ RowFree(w)
    /\ link' = [link EXCEPT ![worker[w].link].state = "REJECTED",
                            ![worker[w].link].recipient = Me(w)]
    /\ Overwrite(w, worker[w].link, Idle)
    /\ UNCHANGED <<late, followers, perception, transactions, history>>

\* accept_invitation begins while another transaction holds the row: its
\* snapshot is taken, its UPDATE waits.
Queue(w) ==
    /\ worker[w].step = "accept"
    /\ ~RowFree(w)
    /\ Goto(w, "queued")
    /\ UNCHANGED <<tables, transactions, history>>

\* The UPDATE to ACCEPTED, by id only, and the two SELECTs.  Without a public
\* key of the creator query_one fails and the transaction is rolled back.
Claim(w) ==
    /\ worker[w].step \in {"accept", "queued"}
    /\ RowFree(w)
    /\ \/ /\ Creator(w) \in Keyed
          /\ row' = [row EXCEPT ![w] = worker[w].link]
          /\ Goto(w, "befriend")
          /\ UNCHANGED <<gained, dropped>>
       \/ /\ Creator(w) \notin Keyed
          /\ Finish(w)
          /\ UNCHANGED transactions
    /\ UNCHANGED <<tables, history>>

\* Mutant of AddFriend: CALL follow_user, which inserts one direction only.
AddFollowerOnly(w) ==
    /\ worker[w].step = "befriend"
    /\ Unblocked(w)
    /\ NextPair(w) \notin followers
    /\ gained' = [gained EXCEPT ![w] = {NextPair(w)}]
    /\ Goto(w, "commit")
    /\ UNCHANGED <<tables, row, dropped, history>>

\* Mutant of AddFriend: CALL add_friend on a connection of its own.
AddFriendOutside(w) ==
    /\ worker[w].step = "befriend"
    /\ Unblocked(w)
    /\ NextPair(w) \notin followers
    /\ followers' = followers \cup Between(Me(w), Creator(w))
    /\ perception' = perception \cup Between(Me(w), Creator(w))
    /\ Goto(w, "commit")
    /\ UNCHANGED <<link, late, transactions, history>>

\* CALL add_friend: the two keys of users_followers, one after the other, each
\* with its users_followers_state row.
AddFriend(w) ==
    /\ worker[w].step = "befriend"
    /\ Unblocked(w)
    /\ NextPair(w) \notin followers
    /\ gained' = [gained EXCEPT ![w] = @ \cup {NextPair(w)}]
    /\ IF gained[w] = {} THEN UNCHANGED worker ELSE Goto(w, "commit")
    /\ UNCHANGED <<tables, row, dropped, history>>

\* Mutant of AlreadyFriends: the error is dropped like that of notify_accepted.
AlreadyFriendsIgnored(w) ==
    /\ worker[w].step = "befriend"
    /\ Unblocked(w)
    /\ NextPair(w) \in followers
    /\ Goto(w, "notify")
    /\ EndTx(w)
    /\ UNCHANGED <<tables, history>>

\* Mutant of AlreadyFriends: the connection goes back to the pool inside its transaction.
AlreadyFriendsLeaksTx(w) ==
    /\ worker[w].step = "befriend"
    /\ Unblocked(w)
    /\ NextPair(w) \in followers
    /\ Finish(w)
    /\ UNCHANGED <<tables, transactions, history>>

\* UNIQUE_VIOLATION: InvitationsAlreadyFriends, and nothing of the transaction remains.
AlreadyFriends(w) ==
    /\ worker[w].step = "befriend"
    /\ Unblocked(w)
    /\ NextPair(w) \in followers
    /\ Finish(w)
    /\ EndTx(w)
    /\ UNCHANGED <<tables, history>>

\* Mutant of Commit: the UPDATE of the link is not part of what commits.
CommitFriendsOnly(w) ==
    /\ worker[w].step = "commit"
    /\ followers' = followers \cup gained[w]
    /\ perception' = perception \cup gained[w]
    /\ granted' = granted \cup {<<row[w], Me(w)>>}
    /\ straddled' = straddled \cup {p \in gained[w] : \E k \in Workers : p \in Removal(k)}
    /\ EndTx(w)
    /\ Goto(w, "notify")
    /\ UNCHANGED <<link, late, sent>>

\* Mutant of Commit: add_friend inserts the users_followers_state row of one side only.
CommitOnePerception(w) ==
    /\ worker[w].step = "commit"
    /\ link' = [link EXCEPT ![row[w]].state = "ACCEPTED", ![row[w]].recipient = Me(w)]
    /\ followers' = followers \cup gained[w]
    /\ perception' = perception \cup {<<Creator(w), Me(w)>>}
    /\ granted' = granted \cup {<<row[w], Me(w)>>}
    /\ straddled' = straddled \cup {p \in gained[w] : \E k \in Workers : p \in Removal(k)}
    /\ EndTx(w)
    /\ Overwrite(w, row[w], [worker[w] EXCEPT !.step = "notify"])
    /\ UNCHANGED <<late, sent>>

\* COMMIT of accept_invitation.
Commit(w) ==
    /\ worker[w].step = "commit"
    /\ link' = [link EXCEPT ![row[w]].state = "ACCEPTED", ![row[w]].recipient = Me(w)]
    /\ followers' = followers \cup gained[w]
    /\ perception' = perception \cup gained[w]
    /\ granted' = granted \cup {<<row[w], Me(w)>>}
    /\ straddled' = straddled \cup {p \in gained[w] : \E k \in Workers : p \in Removal(k)}
    /\ EndTx(w)
    /\ Overwrite(w, row[w], [worker[w] EXCEPT !.step = "notify"])
    /\ UNCHANGED <<late, sent>>

\* notify_accepted, outside the transaction: it reads the recipient again and
\* tells the creator; a failure to publish is logged and forgotten.
Notify(w) ==
    /\ worker[w].step = "notify"
    /\ Goto(w, "refresh")
    /\ \/ sent' = sent \cup {[kind |-> "accepted", to |-> Creator(w),
                              about |-> link[worker[w].link].recipient]}
       \/ UNCHANGED sent
    /\ UNCHANGED <<tables, transactions, granted, straddled>>

\* get_invitation_creator, force_refresh_telemetry_internal(accepter, creator), 200:
\* the accepter's phone is asked for its location in the creator's name.
Refresh(w) ==
    /\ worker[w].step = "refresh"
    /\ Finish(w)
    /\ \/ sent' = sent \cup {[kind |-> "refresh", to |-> Me(w), about |-> Creator(w)]}
       \/ UNCHANGED sent
    /\ UNCHANGED <<tables, transactions, granted, straddled>>

\* assert_not_friends, which asserts that there is some row between the two.
CheckFriends(w, u, v) ==
    /\ worker[w] = Idle
    /\ followers \cap Between(u, v) # {}
    /\ worker' = [worker EXCEPT ![w] =
           [step |-> "remove", user |-> u, link |-> NoLink, peer |-> v]]
    /\ UNCHANGED <<tables, transactions, history>>

\* The first DELETE of CALL remove_friend; its users_followers_state rows go by cascade.
RemoveFriend(w) ==
    /\ worker[w].step = "remove"
    /\ Unblocked(w)
    /\ dropped' = [dropped EXCEPT ![w] = Needs(w)]
    /\ Goto(w, "purge")
    /\ UNCHANGED <<tables, row, gained, history>>

\* The second DELETE, of the users_followers_state rows there are by now, and the commit.
PurgeState(w) ==
    /\ worker[w].step = "purge"
    /\ Unblocked(w)
    /\ followers' = followers \ dropped[w]
    /\ perception' = perception \ Between(Me(w), worker[w].peer)
    /\ straddled' = straddled \ dropped[w]
    /\ Finish(w)
    /\ EndTx(w)
    /\ UNCHANGED <<link, late, granted, sent>>

\* Postgres cancels a transaction of a deadlock; the handler replies with the error.
DeadlockVictim(w) ==
    /\ Deadlocked(w)
    /\ Finish(w)
    /\ EndTx(w)
    /\ UNCHANGED <<tables, history>>

\* Any `?' that returns early: the connection or the process dies, or COMMIT
\* fails to serialize.  The transaction, if there is one, is rolled back.
Fail(w) ==
    /\ worker[w].step # "idle"
    /\ Finish(w)
    /\ EndTx(w)
    /\ UNCHANGED <<tables, history>>

-------------------------------------------------------------------------------
\* What w does by itself, in the order it was asked to.
Proceed(w) ==
    \/ Expire(w) \/ Reject(w)
    \/ Queue(w) \/ Claim(w) \/ AddFriend(w) \/ AlreadyFriends(w) \/ Commit(w)
    \/ Notify(w) \/ Refresh(w)
    \/ RemoveFriend(w) \/ PurgeState(w)
    \/ DeadlockVictim(w)

Next ==
    \/ \E l \in Links : Elapse(l) \/ \E u \in Users : Create(l, u)
    \/ \E w \in Workers :
        \/ \E l \in Links, u \in Users, op \in {"accept", "reject"} : Check(w, op, l, u)
        \/ \E u, v \in Users : CheckFriends(w, u, v)
        \/ Proceed(w)
        \/ Fail(w)

Spec == Init /\ [][Next]_vars

\* A handler thread runs on, and Postgres serves the waiters of a lock in turn.
FairSpec == Spec /\ \A w \in Workers : SF_vars(Proceed(w))

-------------------------------------------------------------------------------
\* Properties.

\* The state of the service is well formed at every statement of every handler.
TypeOK ==
    /\ link \in [Links -> LinkRow]
    /\ late \subseteq Links
    /\ followers \subseteq Pairs
    /\ perception \subseteq Pairs
    /\ worker \in [Workers -> Request]
    /\ row \in [Workers -> Links \cup {NoLink}]
    /\ gained \in [Workers -> SUBSET Pairs]
    /\ dropped \in [Workers -> SUBSET Pairs]
    /\ granted \subseteq Links \X Users
    /\ straddled \subseteq Pairs
    /\ sent \subseteq Message

\* Friendship is mutual in every committed state: add_friend and remove_friend
\* handle both directions, whatever accepts and removals interleave with them.
MutualFriends == \A p \in followers : <<p[2], p[1]>> \in followers

\* Nobody becomes a friend unasked: behind every friendship there is a link of
\* the one that the other has accepted, and the accept has committed.
FriendsConsented ==
    \A p \in followers : \E g \in granted : {link[g[1]].creator, g[2]} = {p[1], p[2]}

\* accept publishes only after its commit: whoever is told of an acceptance has
\* a link that was accepted, and a location is asked only of one who accepted a
\* link of the asker.  (AuthServer publishes inside its transaction instead.)
NoPhantomMessage ==
    \A m \in sent : \E g \in granted :
        CASE m.kind = "accepted" -> link[g[1]].creator = m.to
          [] m.kind = "refresh"  -> g[2] = m.to /\ link[g[1]].creator = m.about

\* The users_followers_state rows that getUserDetails reads go with the friendship,
\* both or neither, and every friendship has them that was made while nobody was
\* removing friends between the two, whatever accepts and removals come and fail
\* after that.  (A removal that began before the friendship was made may take its
\* rows away: when another removal gets there first, the second DELETE, with a
\* snapshot of its own, hits the rows of the friendship made since.)
FriendsHavePerception ==
    /\ \A p \in perception : p \in followers /\ <<p[2], p[1]>> \in perception
    /\ followers \ straddled \subseteq perception

\* Every request is answered: no worker waits for a lock forever, whatever
\* cycles the two insertion orders of add_friend make.
Answered == \A w \in Workers : worker[w].step # "idle" ~> worker[w].step = "idle"

\* The handlers together behave like the atomic operations of Friendship.
F == INSTANCE Friendship WITH friends <- {{p[1], p[2]} : p \in followers}
Implements == F!Spec

\* tests/invitations_tests.rs, test_accept_accepted_invitation: an invitation
\* that somebody has accepted is no longer valid, so it stays accepted, and by
\* that user.  (The handlers break it: assert_link_state reads the state long
\* before an accept or a reject overwrites it by id.)
AcceptedIsFinal ==
    \A g \in granted : link[g[1]].state = "ACCEPTED" /\ link[g[1]].recipient = g[2]

===============================================================================
