------------------------------- MODULE Geofences -------------------------------
(***************************************************************************)
(* The Node HTTP gateway: geofences, the subscriptions of the owner's      *)
(* followers to them, and the access type of a follower.  As in AuthServer *)
(* the handlers share one Postgres connection, so that a statement of any  *)
(* of them runs in the serializable transaction that a change of an access *)
(* type has open; that one also fixes the snapshot its statements read.    *)
(* One action is one statement.  Friendships come and go by the            *)
(* invitations service, on a connection of its own.                        *)
(*                                                                         *)
(* Requests that validation turns away, and the read-only GET /geofences,  *)
(* are left out; of a geofence only its id and its owner are kept.         *)
(***************************************************************************)
EXTENDS Sequences, FiniteSets, Integers

CONSTANTS
    Users,
    Fences,     \* the ids the sequence of geofences yields: bounds the geofences ever made
    Handlers,   \* requests that can be in progress at the same time
    MaxChanges, \* bounds the friendships made and ended
    None        \* no row

ASSUME NoneIsNoUser == None \notin Users
ASSUME MaxChangesIsNat == MaxChanges \in Nat

VARIABLES
    db,         \* the committed tables
    tmp,        \* the tables as the shared session sees them
    session,    \* its transaction: none, without a snapshot yet, with one, aborted
    changed,    \* the friendships its transaction has updated, and holds the row locks of
    stale,      \* the friendships others have changed since its snapshot
    queue,      \* the pg client's queue: the handlers whose statement is pending
    at,         \* the request of each handler and the statement it issued
    drawn,      \* the ids the sequence has yielded: a rollback gives none back
    changes,    \* friendships made and ended
    met,        \* history: who has ever been whose follower
    maker,      \* history: who made each geofence
    meant       \* history: the tables as all statements left them; None once a
                \* statement has failed, a transaction was rolled back, the process died

vars == <<db, tmp, session, changed, stale, queue, at, drawn, changes, met, maker, meant>>
store == <<db, tmp, session, changed, stale, meant>>
others == <<drawn, changes, met, maker>>

-------------------------------------------------------------------------------
\* Data.

\* The type of users_followers.access_type.
AccessType == {"Permanent", "EmergencyOnly"}

Pairs == {p \in Users \X Users : p[1] # p[2]}

Tables == [
    fence: [Fences -> Users \cup {None}],               \* geofences: the owner
    subs: SUBSET (Fences \X Users),                     \* users_geofences
    access: [Pairs -> AccessType \cup {None}]]          \* users_followers

\* No geofences yet, the friends that the pairs of ps name.
Initial(ps) == [fence |-> [g \in Fences |-> None], subs |-> {},
                access |-> [p \in Pairs |-> IF p \in ps THEN "Permanent" ELSE None]]

Mutual(ps) == \A p \in ps : <<p[2], p[1]>> \in ps

Follows(t, f, u) == <<u, f>> \in Pairs /\ t.access[<<u, f>>] # None

Steps == {"idle", "auth", "begin", "update", "commit", "rollback",
          "followers", "create", "delete", "owner", "subscribe", "unsubscribe"}

\* who is the follower, or the owner, that the request names.
Request == [step: Steps, op: Steps, user: Users \cup {None}, who: Users \cup {None},
            fence: Fences \cup {None}, access: AccessType \cup {"unknown", "none"}]
Fresh == [step |-> "idle", op |-> "idle", user |-> None, who |-> None, fence |-> None,
          access |-> "none"]

Init ==
    /\ met \in SUBSET Pairs /\ Mutual(met)
    /\ db = Initial(met) /\ tmp = db /\ meant = db
    /\ session = "idle" /\ changed = {} /\ stale = {}
    /\ queue = <<>>
    /\ at = [h \in Handlers |-> Fresh]
    /\ drawn = {} /\ changes = 0
    /\ maker = [g \in Fences |-> None]

-------------------------------------------------------------------------------
\* The connection.

Turn(h, s) == queue # <<>> /\ Head(queue) = h /\ at[h].step = s

Runs(h, s) == Turn(h, s) /\ session # "aborted"

\* The first statement of a transaction takes its snapshot.
Snapshot == session' = IF session = "begun" THEN "open" ELSE session

\* The statement changes the tables by F; outside a transaction that is final.
Write(F(_)) ==
    /\ tmp' = F(tmp)
    /\ db' = IF session = "idle" THEN F(db) ELSE db
    /\ meant' = IF meant = None THEN None ELSE F(meant)
    /\ Snapshot
    /\ UNCHANGED stale

ReadOnly == Snapshot /\ UNCHANGED <<db, tmp, changed, stale, meant>>

\* The statement has failed.
Broken ==
    /\ session' = IF session = "idle" THEN "idle" ELSE "aborted"
    /\ meant' = None
    /\ UNCHANGED <<db, tmp, changed, stale>>

Goto(h, s) == /\ at' = [at EXCEPT ![h].step = s]
              /\ queue' = Append(Tail(queue), h)

Finish(h) == /\ at' = [at EXCEPT ![h] = Fresh]
             /\ queue' = Tail(queue)

\* The handler throws: withSerializableTransaction rolls back first.
Throw(h) == IF at[h].op = "update" /\ at[h].step # "auth" THEN Goto(h, "rollback") ELSE Finish(h)

\* What is committed: what the transaction changed, in what the others did.
Merged == [tmp EXCEPT !.access = [p \in Pairs |-> IF p \in changed THEN @[p] ELSE db.access[p]]]

\* The transaction is over and t is what is committed.
EndTx(t) == db' = t /\ tmp' = t /\ session' = "idle" /\ changed' = {} /\ stale' = {}

-------------------------------------------------------------------------------
\* Requests, and the friendships.

\* Every request that makes a geofence finds an id.
IdsLeft == Cardinality({h \in Handlers : at[h].op = "create"}) < Cardinality(Fences \ drawn)

Receive(h, r) ==
    /\ at[h].step = "idle"
    /\ at' = [at EXCEPT ![h] = [r EXCEPT !.step = "auth"]]
    /\ queue' = Append(queue, h)
    /\ UNCHANGED <<store, others>>

Arrive(h) == \E u \in Users :
    \/ \E f \in Users, a \in AccessType \cup {"unknown"} :
           Receive(h, [Fresh EXCEPT !.op = "update", !.user = u, !.who = f, !.access = a])
    \/ \E o \in Users : IdsLeft /\ Receive(h, [Fresh EXCEPT !.op = "create", !.user = u, !.who = o])
    \/ \E op \in {"delete", "subscribe", "unsubscribe"}, g \in Fences :
           Receive(h, [Fresh EXCEPT !.op = op, !.user = u, !.fence = g])

\* The invitations service makes, or ends, the friendship of u and f.
SetFriends(u, f, a) ==
    LET ps == {<<u, f>>, <<f, u>>}
        Change(t) == [t EXCEPT !.access = [p \in Pairs |-> IF p \in ps THEN a ELSE @[p]]]
    IN /\ changes < MaxChanges /\ changes' = changes + 1
       /\ ps \cap changed = {}
       /\ db' = Change(db)
       /\ meant' = IF meant = None THEN None ELSE Change(meant)
       /\ IF session \in {"idle", "begun"}
          THEN tmp' = Change(tmp) /\ UNCHANGED stale
          ELSE stale' = stale \cup ps /\ UNCHANGED tmp
       /\ met' = IF a = None THEN met ELSE met \cup ps
       /\ UNCHANGED <<session, changed, queue, at, drawn, maker>>

Befriend(u, f) == u # f /\ ~Follows(db, f, u) /\ SetFriends(u, f, "Permanent")

Unfriend(u, f) == Follows(db, f, u) /\ SetFriends(u, f, None)

-------------------------------------------------------------------------------
\* auth, in common/authentication.ts.

AfterAuth(r) == CASE r.op = "update" -> "begin"
                  [] r.op = "create" /\ r.user # r.who -> "followers"
                  [] r.op = "subscribe" -> "owner"
                  [] OTHER -> r.op

Authenticate(h) ==
    /\ Runs(h, "auth")
    /\ ReadOnly
    /\ Goto(h, AfterAuth(at[h])) \/ Finish(h)
    /\ UNCHANGED others

\* Any statement but COMMIT and ROLLBACK in an aborted transaction.
Refused(h) ==
    /\ session = "aborted"
    /\ \E s \in Steps \ {"idle", "commit", "rollback"} : Turn(h, s)
    /\ Throw(h)
    /\ UNCHANGED <<store, others>>

-------------------------------------------------------------------------------
\* changeAccessType, in withSerializableTransaction.

\* Mutant of Begin: the pool gives the transaction a connection in another one's transaction.
BeginAnew(h) ==
    /\ Runs(h, "begin")
    /\ session' = "begun" /\ tmp' = db
    /\ Goto(h, "update")
    /\ UNCHANGED <<db, changed, stale, meant, others>>

\* Inside a transaction BEGIN only warns.
Begin(h) ==
    /\ Runs(h, "begin")
    /\ session' = IF session = "idle" THEN "begun" ELSE session
    /\ Goto(h, "update")
    /\ UNCHANGED <<db, tmp, changed, stale, meant, others>>

Update(h) ==
    LET p == <<at[h].user, at[h].who>>
        Set(t) == [t EXCEPT !.access[p] = at[h].access]
    IN /\ Runs(h, "update")
       /\ UNCHANGED others
       /\ \/ /\ \/ at[h].access \notin AccessType             \* not of the enum
                \/ p \in stale /\ Follows(tmp, at[h].who, at[h].user)  \* 40001
             /\ Broken /\ Throw(h)
          \/ /\ at[h].access \in AccessType
             /\ ~Follows(tmp, at[h].who, at[h].user)           \* rowCount 0
             /\ ReadOnly /\ Throw(h)
          \/ /\ at[h].access \in AccessType /\ p \notin stale
             /\ Follows(tmp, at[h].who, at[h].user)
             /\ Write(Set) /\ Goto(h, "commit")
             /\ changed' = IF session = "idle" THEN {} ELSE changed \cup {p}

\* COMMIT of an aborted transaction rolls it back, and 200 is answered all the same.
Commit(h) ==
    /\ Turn(h, "commit")
    /\ EndTx(CASE session = "aborted" -> db
               [] session = "idle" -> db
               [] OTHER -> Merged)
    /\ Finish(h)
    /\ UNCHANGED <<meant, others>>

\* COMMIT loses to a serializable transaction of the invitations service.
CommitFails(h) ==
    /\ Turn(h, "commit")
    /\ session = "open" /\ changed # {}
    /\ EndTx(db)
    /\ Goto(h, "rollback")
    /\ meant' = None
    /\ UNCHANGED others

\* Mutant of Rollback: the handler throws on without a ROLLBACK.
RollbackMissing(h) ==
    /\ Turn(h, "rollback")
    /\ Finish(h)
    /\ meant' = None
    /\ UNCHANGED <<db, tmp, session, changed, stale, others>>

Rollback(h) ==
    /\ Turn(h, "rollback")
    /\ EndTx(db)
    /\ Finish(h)
    /\ meant' = None
    /\ UNCHANGED others

-------------------------------------------------------------------------------
\* createGeofence and deleteGeofence.

\* A geofence can be made for oneself or for a follower.
Followers(h) ==
    /\ Runs(h, "followers")
    /\ ReadOnly
    /\ IF Follows(tmp, at[h].who, at[h].user) THEN Goto(h, "create") ELSE Finish(h)
    /\ UNCHANGED others

CreateGeofence(h) == \E g \in Fences \ drawn :
    LET Add(t) == [t EXCEPT !.fence[g] = at[h].who]
    IN /\ Runs(h, "create")
       /\ Write(Add)
       /\ Finish(h)
       /\ drawn' = drawn \cup {g}
       /\ maker' = [maker EXCEPT ![g] = at[h].user]
       /\ UNCHANGED <<changed, changes, met>>

\* No request body is validated: a column left out is NULL where it may not be, and an
\* id need not be a number.  The statement fails.
Misfit(h) ==
    /\ \E s \in {"create", "delete", "owner", "unsubscribe"} : Runs(h, s)
    /\ Broken
    /\ Finish(h)
    /\ UNCHANGED others

\* Mutant of Remove: the subscriptions do not go with the geofence.
RemoveAlone(t, g) == [t EXCEPT !.fence[g] = None]

\* The subscriptions go by cascade.
Remove(t, g) == [t EXCEPT !.fence[g] = None, !.subs = {s \in @ : s[1] # g}]

\* Of the owner alone; without a row the answer is 403.
DeleteGeofence(h) ==
    LET mine == tmp.fence[at[h].fence] = at[h].user
        Delete(t) == Remove(t, at[h].fence)
    IN /\ Runs(h, "delete")
       /\ IF mine THEN Write(Delete) /\ UNCHANGED changed ELSE ReadOnly
       /\ Finish(h)
       /\ UNCHANGED others

-------------------------------------------------------------------------------
\* subscribeToGeofence and unsubscribeFromGeofence.

\* Mutant of OwnerFollowed: whoever knows the id subscribes.
OwnerIgnored(h) ==
    /\ Runs(h, "owner")
    /\ ReadOnly
    /\ Goto(h, "subscribe")
    /\ UNCHANGED others

\* The SELECT of the followers of the geofence's owner.
OwnerFollowed(h) ==
    /\ Runs(h, "owner")
    /\ ReadOnly
    /\ IF \E o \in Users : tmp.fence[at[h].fence] = o /\ Follows(tmp, at[h].user, o)
       THEN Goto(h, "subscribe")
       ELSE Finish(h)
    /\ UNCHANGED others

\* The foreign key wants the geofence, the primary key a new subscription.
Subscribe(h) ==
    LET s == <<at[h].fence, at[h].user>>
        Add(t) == [t EXCEPT !.subs = @ \cup {s}]
    IN /\ Runs(h, "subscribe")
       /\ IF tmp.fence[s[1]] = None \/ s \in tmp.subs
          THEN Broken ELSE Write(Add) /\ UNCHANGED changed
       /\ Finish(h)
       /\ UNCHANGED others

Unsubscribe(h) ==
    LET s == <<at[h].fence, at[h].user>>
        Delete(t) == [t EXCEPT !.subs = @ \ {s}]
    IN /\ Runs(h, "unsubscribe")
       /\ IF s \in tmp.subs THEN Write(Delete) /\ UNCHANGED changed ELSE ReadOnly
       /\ Finish(h)
       /\ UNCHANGED others

-------------------------------------------------------------------------------
\* The process dies; Postgres rolls back what its connection had open.
Crash ==
    /\ \E h \in Handlers : at[h].step # "idle"
    /\ EndTx(db)
    /\ queue' = <<>>
    /\ at' = [h \in Handlers |-> Fresh]
    /\ meant' = None
    /\ UNCHANGED others

Statement(h) ==
    \/ Authenticate(h) \/ Refused(h)
    \/ Begin(h) \/ Update(h) \/ Commit(h) \/ CommitFails(h) \/ Rollback(h)
    \/ Followers(h) \/ CreateGeofence(h) \/ Misfit(h) \/ DeleteGeofence(h)
    \/ OwnerFollowed(h) \/ Subscribe(h) \/ Unsubscribe(h)

Next ==
    \/ \E h \in Handlers : Arrive(h) \/ Statement(h)
    \/ \E u, f \in Users : Befriend(u, f) \/ Unfriend(u, f)
    \/ Crash

Spec == Init /\ [][Next]_vars

-------------------------------------------------------------------------------
\* Properties.

\* Tables, requests and the connection are well formed.
TypeOK ==
    /\ {db, tmp} \subseteq Tables /\ meant \in Tables \cup {None}
    /\ session \in {"idle", "begun", "open", "aborted"}
    /\ changed \subseteq Pairs /\ stale \subseteq Pairs
    /\ queue \in Seq(Handlers)
    /\ at \in [Handlers -> Request]
    /\ drawn \subseteq Fences /\ changes \in 0..MaxChanges
    /\ met \subseteq Pairs /\ maker \in [Fences -> Users \cup {None}]

\* The shared connection is in a transaction only while a request is going to
\* end it, so that a quiet gateway has committed what it answered.
SessionOwned ==
    session # "idle" => \E h \in Handlers : at[h].step \in {"update", "commit", "rollback"}

\* geofences.ts, createGeofence and subscribeToGeofence: only somebody who has
\* been the owner's follower has a subscription or made the owner a geofence,
\* though the followers were read earlier, and from the snapshot of another
\* request's transaction.
OnlyFriends ==
    /\ \A s \in db.subs : <<db.fence[s[1]], s[2]>> \in met
    /\ \A g \in Fences : db.fence[g] \in {None, maker[g]} \/ <<maker[g], db.fence[g]>> \in met

\* What a client was told is what the database holds once the gateway is quiet,
\* however the transactions of the requests run into each other, unless a
\* statement failed, an access type could not be changed or the process died:
\* only a ROLLBACK loses the answered effects of other requests.
KeptUnlessFailed ==
    (\A h \in Handlers : at[h].step = "idle") /\ meant # None => db = meant

===============================================================================
