------------------------------- MODULE Telemetry -------------------------------
(***************************************************************************)
(* Locations: POST /telemetry of the Rust HTTP gateway                     *)
(* (server/http_gateway.rs, controllers/telemetry.rs).                     *)
(*                                                                         *)
(* A phone posts its location, encrypted for each recipient.  The gateway  *)
(* stores it in Postgres (device_telemetry) and in Redis, recipient by     *)
(* recipient and without a transaction, reads who follows the user, whom   *)
(* the user follows and in which state he is, pushes the location to those *)
(* who may see it now and answers with the last locations the user may see.*)
(*                                                                         *)
(* One action is one statement, Redis command or publication of a request. *)
(* Friendships, access types and states are changed by other services:     *)
(* those are single actions here.  What order the recipients of a request  *)
(* come in is left open.  Posts are numbered as they arrive; the number    *)
(* stands for the location.  The command a post may answer, and the set    *)
(* telemetry.last.seen, are in module Commands.                            *)
(***************************************************************************)
EXTENDS Naturals

CONSTANTS
    Users,      \* with a complete account
    Workers,    \* Rocket's workers
    MaxPosts,   \* bounds how many locations are ever posted
    MaxChanges, \* bounds how often friendships, access types and states change
    NoUser      \* nobody

ASSUME BoundsAreNat == MaxPosts \in Nat /\ MaxChanges \in Nat
ASSUME NoUserIsNoUser == NoUser \notin Users

VARIABLES
    access,     \* users_followers: access[u][v] is the access_type of v to u
    state,      \* users_state.self_perception
    changes,    \* how often the two have changed
    rows,       \* device_telemetry: the locations of u for v
    last,       \* Redis: telemetry.<v>, field u
    process,    \* the request of each worker
    posts,      \* how many posts have arrived
    due,        \* history: what was true at some time since a worker's request arrived
    torn        \* history: users of whom two posts overlapped or one failed between its stores

tables == <<access, state, changes>>
store == <<rows, last>>
history == <<due, torn>>
vars == <<tables, store, process, posts, history>>

Locations == 1..MaxPosts
Access == {"none", "EmergencyOnly", "Permanent"}
States == {"Normal", "Emergency"}

Steps == {"idle", "insert", "hset", "followers", "following", "look",
          "state", "push", "reply"}

Request == [
    step: Steps,
    user: Users \cup {NoUser},          \* who sent it
    to: Users \cup {NoUser},            \* the recipient in turn
    todo: SUBSET Users,                 \* those whose turn is still to come
    named: SUBSET Users,                \* the recipients a location is encrypted for
    loc: 0..MaxPosts,
    friends: [Users -> Access],         \* what was read of users_followers
    mode: States,                       \* and of users_state
    views: [Users -> 0..MaxPosts],      \* the last locations of friends to be answered
    sent: SUBSET Users]                 \* whom the location was pushed to

None == [v \in Users |-> "none"]
Blank == [step |-> "idle", user |-> NoUser, to |-> NoUser, todo |-> {}, named |-> {}, loc |-> 0,
          friends |-> None, mode |-> "Normal",
          views |-> [v \in Users |-> 0], sent |-> {}]

Due == [met: SUBSET Users, open: SUBSET Users, sees: SUBSET Users]
Nothing == [met |-> {}, open |-> {}, sees |-> {}]

Init ==
    /\ access = [u \in Users |-> None]
    /\ state = [u \in Users |-> "Normal"]
    /\ changes = 0
    /\ rows = [u \in Users |-> [v \in Users |-> {}]]
    /\ last = [u \in Users |-> [v \in Users |-> 0]]
    /\ process = [w \in Workers |-> Blank]
    /\ posts = 0
    /\ due = [w \in Workers |-> Nothing]
    /\ torn = {}

-------------------------------------------------------------------------------
\* What the other services change.

\* What a post of u would be entitled to in these tables: whom it may reach as
\* a friend (met) and at this access and state (open), whose location u may see.
Sees(acc, st, u, v) ==
    acc[v][u] # "none" /\ ~(acc[v][u] = "EmergencyOnly" /\ st[v] = "Normal")
Entitled(acc, st, u) == [
    met |-> {v \in Users : acc[u][v] # "none"},
    open |-> {v \in Users : acc[u][v] = "Permanent" \/ st[u] = "Emergency"},
    sees |-> {v \in Users : Sees(acc, st, u, v)}]

Posting(w) == process[w].loc # 0

\* The tables become acc and st; every post in progress takes note.
Become(acc, st) ==
    /\ changes < MaxChanges
    /\ changes' = changes + 1
    /\ access' = acc
    /\ state' = st
    /\ due' = [w \in Workers |->
           IF Posting(w)
           THEN LET e == Entitled(acc, st, process[w].user)
                IN  [met |-> due[w].met \cup e.met, open |-> due[w].open \cup e.open,
                     sees |-> due[w].sees \cup e.sees]
           ELSE due[w]]
    /\ UNCHANGED <<store, process, posts, torn>>

\* add_friend: both directions, with permanent access.
Befriend(u, v) ==
    /\ u # v
    /\ access[u][v] = "none"
    /\ Become([access EXCEPT ![u][v] = "Permanent", ![v][u] = "Permanent"], state)

\* remove_friend: nothing of it reaches device_telemetry or Redis.
Unfriend(u, v) ==
    /\ access[u][v] # "none"
    /\ Become([access EXCEPT ![u][v] = "none", ![v][u] = "none"], state)

ChangeAccess(u, v, a) ==
    /\ access[u][v] \notin {"none", a}
    /\ Become([access EXCEPT ![u][v] = a], state)

ChangeState(u) ==
    Become(access, [state EXCEPT ![u] = IF @ = "Normal" THEN "Emergency" ELSE "Normal"])

-------------------------------------------------------------------------------
\* post_telemetry.

Goto(w, r) == process' = [process EXCEPT ![w] = r]
At(w, s) == process[w].step = s

\* After a recipient is done with.
Stored(r) == IF r.todo = {} THEN "followers" ELSE "insert"

\* A phone names recipients, friends or not any more.
Post(w, u, named) ==
    /\ At(w, "idle")
    /\ posts < MaxPosts
    /\ u \notin named
    /\ posts' = posts + 1
    /\ LET r == [Blank EXCEPT !.user = u, !.named = named, !.todo = named, !.loc = posts + 1]
       IN  Goto(w, [r EXCEPT !.step = Stored(r)])
    /\ due' = [due EXCEPT ![w] = Entitled(access, state, u)]
    /\ torn' = IF \E x \in Workers : Posting(x) /\ process[x].user = u THEN torn \cup {u} ELSE torn
    /\ UNCHANGED <<tables, store>>

\* Mutant of Insert: the result of the INSERT is dropped, not tested.
InsertUnchecked(w) ==
    /\ At(w, "insert")
    /\ LET r == process[w]
       IN  \E v \in r.todo :
               /\ rows' \in {rows, [rows EXCEPT ![r.user][v] = @ \cup {r.loc}]}
               /\ Goto(w, [r EXCEPT !.step = "hset", !.to = v, !.todo = @ \ {v}])
    /\ UNCHANGED <<tables, last, posts, history>>

\* store_telemetry, one recipient: INSERT and HSET.  ZADD and HDEL follow, of keys
\* that no post reads: they may only fail.
Insert(w) ==
    /\ At(w, "insert")
    /\ LET r == process[w]
       IN  \E v \in r.todo :
               /\ rows' = [rows EXCEPT ![r.user][v] = @ \cup {r.loc}]
               /\ Goto(w, [r EXCEPT !.step = "hset", !.to = v, !.todo = @ \ {v}])
    /\ UNCHANGED <<tables, last, posts, history>>

\* Mutant of Hset: HSETNX.
HsetOnce(w) ==
    /\ At(w, "hset")
    /\ LET r == process[w]
       IN  /\ last' = [last EXCEPT ![r.user][r.to] = IF @ = 0 THEN r.loc ELSE @]
           /\ Goto(w, [r EXCEPT !.step = Stored(r), !.to = NoUser])
    /\ UNCHANGED <<tables, rows, posts, history>>

Hset(w) ==
    /\ At(w, "hset")
    /\ LET r == process[w]
       IN  /\ last' = [last EXCEPT ![r.user][r.to] = r.loc]
           /\ Goto(w, [r EXCEPT !.step = Stored(r), !.to = NoUser])
    /\ UNCHANGED <<tables, rows, posts, history>>

\* get_followers.
Followers(w) ==
    /\ At(w, "followers")
    /\ Goto(w, [process[w] EXCEPT !.step = "following", !.friends = access[process[w].user]])
    /\ UNCHANGED <<tables, store, posts, history>>

\* Mutant of Following: the location of every friend is fetched.
FollowingAll(w) ==
    /\ At(w, "following")
    /\ LET visible == {v \in Users : access[v][process[w].user] # "none"}
       IN  Goto(w, [process[w] EXCEPT !.todo = visible,
                                      !.step = IF visible = {} THEN "state" ELSE "look"])
    /\ UNCHANGED <<tables, store, posts, history>>

\* getFollowingLastLocation: one SELECT of friends, access types and states ...
Following(w) ==
    /\ At(w, "following")
    /\ LET visible == {v \in Users : Sees(access, state, process[w].user, v)}
       IN  Goto(w, [process[w] EXCEPT !.todo = visible,
                                      !.step = IF visible = {} THEN "state" ELSE "look"])
    /\ UNCHANGED <<tables, store, posts, history>>

\* ... and get_last_user_location of each one that may be seen; an error is no location.
Look(w) ==
    /\ At(w, "look")
    /\ LET r == process[w]
       IN  \E v \in r.todo : \E l \in {0, last[v][r.user]} :
               Goto(w, [r EXCEPT !.views[v] = l, !.todo = r.todo \ {v},
                                 !.step = IF r.todo = {v} THEN "state" ELSE "look"])
    /\ UNCHANGED <<tables, store, posts, history>>

\* get_user_state.
ReadState(w) ==
    /\ At(w, "state")
    /\ Goto(w, [process[w] EXCEPT !.step = "push", !.mode = state[process[w].user]])
    /\ UNCHANGED <<tables, store, posts, history>>

\* Mutant of Push: in an emergency, to every recipient named.
PushToNamed(w) ==
    /\ At(w, "push")
    /\ LET r == process[w]
           addressed == {v \in r.named : r.friends[v] = "Permanent" \/ r.mode = "Emergency"}
       IN  \E s \in SUBSET addressed : Goto(w, [r EXCEPT !.step = "reply", !.sent = s])
    /\ UNCHANGED <<tables, store, posts, history>>

\* send_ws_message to the recipients who may see the location; a message that
\* cannot be sent, or no connection to RabbitMQ, is not an error.
Push(w) ==
    /\ At(w, "push")
    /\ LET r == process[w]
           addressed == {v \in r.named : /\ r.friends[v] # "none"
                                         /\ r.friends[v] = "Permanent" \/ r.mode = "Emergency"}
       IN  \E s \in SUBSET addressed : Goto(w, [r EXCEPT !.step = "reply", !.sent = s])
    /\ UNCHANGED <<tables, store, posts, history>>

Leave(w) == Goto(w, Blank) /\ due' = [due EXCEPT ![w] = Nothing]

Reply(w) ==
    /\ At(w, "reply")
    /\ Leave(w)
    /\ UNCHANGED <<tables, store, posts, torn>>

\* A statement or a Redis command fails: an error is answered at once.
Fail(w) ==
    /\ \E s \in {"insert", "hset", "followers", "following", "state"} : At(w, s)
    /\ torn' = IF At(w, "hset") THEN torn \cup {process[w].user} ELSE torn
    /\ Leave(w)
    /\ UNCHANGED <<tables, store, posts>>

-------------------------------------------------------------------------------
World ==
    \/ \E u, v \in Users : Befriend(u, v) \/ Unfriend(u, v)
    \/ \E u, v \in Users, a \in Access \ {"none"} : ChangeAccess(u, v, a)
    \/ \E u \in Users : ChangeState(u)

Serve(w) ==
    \/ \E u \in Users, named \in SUBSET Users : Post(w, u, named)
    \/ Insert(w) \/ Hset(w) \/ Followers(w) \/ Following(w) \/ Look(w)
    \/ ReadState(w) \/ Push(w) \/ Reply(w) \/ Fail(w)

Next == World \/ \E w \in Workers : Serve(w)

Spec == Init /\ [][Next]_vars

-------------------------------------------------------------------------------
TypeOK ==
    /\ access \in [Users -> [Users -> Access]]
    /\ state \in [Users -> States]
    /\ changes \in 0..MaxChanges
    /\ rows \in [Users -> [Users -> SUBSET Locations]]
    /\ last \in [Users -> [Users -> 0..MaxPosts]]
    /\ process \in [Workers -> Request]
    /\ posts \in 0..MaxPosts
    /\ due \in [Workers -> Due]
    /\ torn \subseteq Users

\* store_telemetry writes two stores without a transaction and may stop in
\* between: what Redis shows a friend is always in the history Postgres keeps
\* for that friend.
LastWasStored == \A u, v \in Users : last[u][v] # 0 => last[u][v] \in rows[u][v]

\* The last location in Redis is the newest of the history, except while a post
\* is between the two, or after posts of the user overlapped or one failed there.
LastIsNewest ==
    \A u, v \in Users :
        (u \notin torn /\ \A w \in Workers : ~(At(w, "hset") /\ process[w].user = u /\ process[w].to = v))
        => \A l \in rows[u][v] : l <= last[u][v]

\* Followers and state are read at different times, and pushed to later: whom a
\* location is pushed to has been a friend since it was posted, and has had
\* permanent access, or the user was in an emergency, since then.
PushedToFriends ==
    \A w \in Workers : process[w].sent \subseteq due[w].met \cap due[w].open

\* Whose location a post answers with has let the user see it since the post
\* arrived, whatever friendships, access types and states have changed to since.
ShownByFriends ==
    \A w \in Workers : \A v \in Users : process[w].views[v] # 0 => v \in due[w].sees

===============================================================================
