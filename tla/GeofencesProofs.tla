---------------------------- MODULE GeofencesProofs ----------------------------
(***************************************************************************)
(* Proofs about the requests that share one connection (Geofences).  Types *)
(* and the ownership of the transaction come first: they follow from what  *)
(* a statement does to the request and to the queue.  Then who may have    *)
(* geofences and subscriptions: what a request has read of the friendships *)
(* and of the owner of a geofence stays a fact of the history, whichever   *)
(* transactions begin and end before the request writes.                   *)
(***************************************************************************)
EXTENDS Geofences, SequenceTheorems, TLAPS

-------------------------------------------------------------------------------
\* What statements do to the requests.

Transaction == {"update", "commit", "rollback"}
Ops == {"update", "create", "delete", "subscribe", "unsubscribe"}

\* Only a change of an access type brackets its statements with BEGIN and COMMIT.
RequestOK(r) ==
    /\ r.step # "idle" => r.op \in Ops
    /\ r.step \in Transaction \cup {"begin"} => r.op = "update"
    /\ r.step = "owner" => r.op = "subscribe"
    /\ r.op = "subscribe" => r.fence \in Fences

SInv ==
    /\ at \in [Handlers -> Request]
    /\ queue \in Seq(Handlers)
    /\ \A h \in Handlers : RequestOK(at[h])
    /\ SessionOwned

LEMMA FreshOK == Fresh \in Request /\ Fresh.step = "idle" /\ RequestOK(Fresh)
BY DEF Fresh, Request, Steps, RequestOK, Transaction

LEMMA InitSInv == Init => SInv
<1> SUFFICES ASSUME Init PROVE SInv
  OBVIOUS
<1>1. at \in [Handlers -> Request] /\ \A h \in Handlers : at[h] = Fresh
  BY FreshOK DEF Init
<1>2. queue \in Seq(Handlers)
  BY DEF Init
<1> QED BY <1>1, <1>2, FreshOK DEF Init, SInv, SessionOwned

\* A statement of h moves its request on, and the queue with it.
Moves(h, s) == /\ at' = [at EXCEPT ![h] = at'[h]]
               /\ at'[h] \in Request
               /\ RequestOK(at'[h])
               /\ at'[h].step = s
               /\ queue' \in Seq(Handlers)

LEMMA GotoMoves ==
  ASSUME SInv, NEW h \in Handlers, queue # <<>>, NEW s \in Steps \ {"idle"}, Goto(h, s),
         at[h].step # "idle", s \in Transaction \cup {"begin"} => at[h].op = "update",
         s = "owner" => at[h].op = "subscribe"
  PROVE  /\ Moves(h, s) /\ at'[h] = [at[h] EXCEPT !.step = s]
         /\ at'[h].user = at[h].user /\ at'[h].who = at[h].who /\ at'[h].fence = at[h].fence
<1> DEFINE r == [at[h] EXCEPT !.step = s]
<1>1. at[h] \in Request /\ at \in [Handlers -> Request] /\ RequestOK(at[h])
  BY DEF SInv
<1>2. /\ r \in Request /\ r.step = s /\ r.op = at[h].op
      /\ r.user = at[h].user /\ r.who = at[h].who /\ r.fence = at[h].fence
  BY <1>1 DEF Request
<1>3. RequestOK(r)
  BY <1>1, <1>2 DEF RequestOK
<1>4. at' = [at EXCEPT ![h] = r]
  BY <1>1 DEF Goto
<1> HIDE DEF r
<1>5. at'[h] = r
  BY <1>1, <1>4
<1>6. Tail(queue) \in Seq(Handlers)
  BY HeadTailProperties DEF SInv
<1>7. queue' \in Seq(Handlers)
  BY <1>6, AppendProperties DEF Goto
<1> QED BY <1>2, <1>3, <1>4, <1>5, <1>7 DEF Moves, r

LEMMA FinishMoves ==
  ASSUME SInv, NEW h \in Handlers, queue # <<>>, Finish(h)
  PROVE  Moves(h, "idle") /\ at'[h] = Fresh
<1>1. Tail(queue) \in Seq(Handlers)
  BY HeadTailProperties DEF SInv
<1>2. at' = [at EXCEPT ![h] = Fresh] /\ at'[h] = Fresh
  BY DEF Finish, SInv
<1> QED BY <1>1, <1>2, FreshOK DEF Moves, Finish

LEMMA ThrowMoves ==
  ASSUME SInv, NEW h \in Handlers, queue # <<>>, Throw(h), at[h].step # "idle"
  PROVE  \/ Moves(h, "rollback") /\ at[h].op = "update" /\ at[h].step # "auth"
         \/ Moves(h, "idle") /\ ~(at[h].op = "update" /\ at[h].step # "auth")
BY GotoMoves, FinishMoves DEF Throw, Steps

\* The handlers that hold the transaction still do, or it has ended.
Holds(h, s) == \/ s \in Transaction
               \/ session' = "idle"
               \/ at[h].step \notin Transaction /\ (session = "idle" => session' = "idle")

LEMMA MovesKeep ==
  ASSUME SInv, NEW h \in Handlers, NEW s, Moves(h, s), Holds(h, s)
  PROVE  SInv'
<1>1. \A k \in Handlers \ {h} : at'[k] = at[k]
  BY DEF Moves, SInv
<1>2. at' \in [Handlers -> Request]
  BY DEF Moves, SInv
<1>3. \A k \in Handlers : RequestOK(at'[k])
  BY <1>1 DEF Moves, SInv
<1>4. session' # "idle" => \E k \in Handlers : at'[k].step \in Transaction
  <2> SUFFICES ASSUME session' # "idle" PROVE \E k \in Handlers : at'[k].step \in Transaction
    OBVIOUS
  <2>1. CASE s \in Transaction
    BY <2>1 DEF Moves
  <2>2. CASE s \notin Transaction
    <3>1. at[h].step \notin Transaction /\ session # "idle"
      BY <2>2 DEF Holds
    <3>2. PICK k \in Handlers : at[k].step \in Transaction
      BY <3>1 DEF SInv, SessionOwned, Transaction
    <3> QED BY <1>1, <3>1, <3>2
  <2> QED BY <2>1, <2>2
<1> QED BY <1>2, <1>3, <1>4 DEF SInv, SessionOwned, Transaction, Moves, RequestOK

LEMMA StatementKeeps == ASSUME SInv, NEW h \in Handlers, Statement(h) PROVE SInv'
<1>1. at[h] \in Request /\ RequestOK(at[h])
  BY DEF SInv
<1>2. queue # <<>> /\ at[h].step # "idle"
  BY DEF Statement, Authenticate, Refused, Begin, Update, Commit, CommitFails, Rollback, Followers,
     CreateGeofence, Misfit, DeleteGeofence, OwnerFollowed, Subscribe, Unsubscribe, Runs, Turn
<1> USE DEF Holds, Transaction, Steps
\* A statement outside of a transaction's own that leaves the session as it was.
<1>3. ASSUME at[h].step \notin Transaction, session' = "idle" <=> session = "idle",
             NEW s \in Steps \ Transaction, Moves(h, s)
      PROVE  SInv'
  BY <1>3, MovesKeep
<1>4. CASE Authenticate(h)
  <2>1. at[h].step = "auth" /\ (session' = "idle" <=> session = "idle")
    BY <1>4 DEF Authenticate, Runs, Turn, ReadOnly, Snapshot
  <2>2. CASE Finish(h)
    BY <1>2, <1>3, <2>1, <2>2, FinishMoves
  <2>3. CASE Goto(h, AfterAuth(at[h]))
    <3>1. /\ AfterAuth(at[h]) \in Steps \ (Transaction \cup {"idle"})
          /\ AfterAuth(at[h]) = "begin" => at[h].op = "update"
          /\ AfterAuth(at[h]) = "owner" => at[h].op = "subscribe"
      BY <1>1, <1>2 DEF AfterAuth, RequestOK, Ops
    <3> QED BY <1>2, <1>3, <2>1, <2>3, <3>1, GotoMoves
  <2> QED BY <1>4, <2>2, <2>3 DEF Authenticate
<1>5. CASE Refused(h)
  <2>1. /\ session' = session /\ Throw(h) /\ at[h].step \notin {"commit", "rollback"}
    BY <1>5 DEF Refused, store, Turn
  <2>2. at[h].step = "update" => at[h].op = "update"
    BY <1>1 DEF RequestOK
  <2> QED BY <1>2, <2>1, <2>2, ThrowMoves, MovesKeep
<1>6. CASE Begin(h)
  <2>1. at[h].op = "update" /\ Goto(h, "update")
    BY <1>1, <1>6 DEF Begin, Runs, Turn, RequestOK
  <2> QED BY <1>2, <2>1, GotoMoves, MovesKeep
<1>7. CASE Update(h)
  <2>1. at[h].op = "update" /\ at[h].step = "update"
    BY <1>1, <1>7 DEF Update, Runs, Turn, RequestOK
  <2>2. Throw(h) \/ Goto(h, "commit")
    BY <1>7 DEF Update
  <2> QED BY <1>2, <2>1, <2>2, ThrowMoves, GotoMoves, MovesKeep
<1>8. CASE Commit(h) \/ Rollback(h)
  <2>1. Finish(h) /\ session' = "idle"
    BY <1>8 DEF Commit, Rollback, EndTx
  <2> QED BY <1>2, <2>1, FinishMoves, MovesKeep
<1>9. CASE CommitFails(h)
  <2>1. Goto(h, "rollback") /\ at[h].op = "update"
    BY <1>1, <1>9 DEF CommitFails, Turn, RequestOK
  <2> QED BY <1>2, <2>1, GotoMoves, MovesKeep
<1>10. CASE Followers(h) \/ OwnerFollowed(h)
  <2>1. at[h].step \notin Transaction /\ (session' = "idle" <=> session = "idle")
    BY <1>10 DEF Followers, OwnerFollowed, Runs, Turn, ReadOnly, Snapshot
  <2>2. Finish(h) \/ Goto(h, "create") \/ Goto(h, "subscribe")
    BY <1>10 DEF Followers, OwnerFollowed
  <2> QED BY <1>2, <1>3, <2>1, <2>2, GotoMoves, FinishMoves
<1>11. CASE CreateGeofence(h) \/ Misfit(h) \/ DeleteGeofence(h) \/ Subscribe(h) \/ Unsubscribe(h)
  <2>1. at[h].step \notin Transaction /\ Finish(h)
    BY <1>11 DEF CreateGeofence, Misfit, DeleteGeofence, Subscribe, Unsubscribe, Runs, Turn
  <2>2. session' = "idle" <=> session = "idle"
    BY <1>11 DEF CreateGeofence, Misfit, DeleteGeofence, Subscribe, Unsubscribe, Write, ReadOnly, Broken, Snapshot
  <2> QED BY <1>2, <1>3, <2>1, <2>2, FinishMoves
<1> QED BY <1>4, <1>5, <1>6, <1>7, <1>8, <1>9, <1>10, <1>11 DEF Statement

LEMMA ReceiveKeeps ==
  ASSUME SInv, NEW h \in Handlers, NEW r \in Request, r.op \in Ops, Receive(h, r),
         r.op = "subscribe" => r.fence \in Fences
  PROVE  SInv' /\ at'[h] = [r EXCEPT !.step = "auth"] /\ \A k \in Handlers \ {h} : at'[k] = at[k]
<1> DEFINE n == [r EXCEPT !.step = "auth"]
<1>1. n \in Request /\ n.step = "auth" /\ n.op = r.op /\ n.fence = r.fence
  BY DEF Request, Steps
<1>2. RequestOK(n)
  BY <1>1 DEF RequestOK, Transaction
<1>3. at' = [at EXCEPT ![h] = n] /\ session' = session
  BY DEF Receive, store
<1> HIDE DEF n
<1>4. at'[h] = n /\ \A k \in Handlers \ {h} : at'[k] = at[k]
  BY <1>3 DEF SInv
<1>5. queue' \in Seq(Handlers)
  BY AppendProperties DEF Receive, SInv
<1>6. Moves(h, "auth")
  BY <1>1, <1>2, <1>3, <1>4, <1>5 DEF Moves
<1>7. Holds(h, "auth")
  BY <1>3 DEF Holds, Receive, Transaction
<1> QED BY <1>4, <1>6, <1>7, MovesKeep DEF n

LEMMA ArriveKeeps ==
  ASSUME SInv, NEW h \in Handlers, Arrive(h)
  PROVE  /\ SInv' /\ at'[h].step = "auth" /\ \A k \in Handlers \ {h} : at'[k] = at[k]
         /\ UNCHANGED <<store, others>>
<1>1. PICK r \in Request : /\ r.op \in Ops /\ Receive(h, r)
                           /\ r.op = "subscribe" => r.fence \in Fences
  <2>1. Fresh \in Request
    BY FreshOK
  <2>2. ASSUME NEW u \in Users, NEW f \in Users, NEW a \in AccessType \cup {"unknown"},
               Receive(h, [Fresh EXCEPT !.op = "update", !.user = u, !.who = f, !.access = a])
        PROVE  \E r \in Request : /\ r.op \in Ops /\ Receive(h, r)
                                  /\ r.op = "subscribe" => r.fence \in Fences
    <3>1. [Fresh EXCEPT !.op = "update", !.user = u, !.who = f, !.access = a] \in Request
      BY <2>1 DEF Request, Steps
    <3> QED BY <2>2, <3>1 DEF Ops, Fresh
  <2>3. ASSUME NEW u \in Users, NEW o \in Users,
               Receive(h, [Fresh EXCEPT !.op = "create", !.user = u, !.who = o])
        PROVE  \E r \in Request : /\ r.op \in Ops /\ Receive(h, r)
                                  /\ r.op = "subscribe" => r.fence \in Fences
    <3>1. [Fresh EXCEPT !.op = "create", !.user = u, !.who = o] \in Request
      BY <2>1 DEF Request, Steps
    <3> QED BY <2>3, <3>1 DEF Ops, Fresh
  <2>4. ASSUME NEW u \in Users, NEW op \in {"delete", "subscribe", "unsubscribe"}, NEW g \in Fences,
               Receive(h, [Fresh EXCEPT !.op = op, !.user = u, !.fence = g])
        PROVE  \E r \in Request : /\ r.op \in Ops /\ Receive(h, r)
                                  /\ r.op = "subscribe" => r.fence \in Fences
    <3>1. [Fresh EXCEPT !.op = op, !.user = u, !.fence = g] \in Request
      BY <2>1 DEF Request, Steps
    <3> QED BY <2>4, <3>1 DEF Ops, Fresh
  <2> QED BY <2>2, <2>3, <2>4 DEF Arrive
<1>2. SInv' /\ at'[h] = [r EXCEPT !.step = "auth"] /\ \A k \in Handlers \ {h} : at'[k] = at[k]
  BY <1>1, ReceiveKeeps
<1>3. at'[h].step = "auth"
  BY <1>2 DEF Request
<1> QED BY <1>1, <1>2, <1>3 DEF Receive

LEMMA NextKeeps == SInv /\ [Next]_vars => SInv'
<1> SUFFICES ASSUME SInv, [Next]_vars PROVE SInv'
  OBVIOUS
<1>1. ASSUME UNCHANGED <<at, queue, session>> PROVE SInv'
  BY <1>1 DEF SInv, SessionOwned
<1>2. CASE UNCHANGED vars
  BY <1>1, <1>2 DEF vars
<1>3. ASSUME NEW u \in Users, NEW f \in Users, Befriend(u, f) \/ Unfriend(u, f) PROVE SInv'
  BY <1>1, <1>3 DEF Befriend, Unfriend, SetFriends
<1>4. CASE Crash
  <2>1. \A h \in Handlers : at'[h] = Fresh
    BY <1>4 DEF Crash
  <2>2. session' = "idle" /\ at' \in [Handlers -> Request] /\ queue' \in Seq(Handlers)
    BY <1>4, FreshOK DEF Crash, EndTx
  <2> QED BY <2>1, <2>2, FreshOK DEF SInv, SessionOwned
<1> QED BY <1>2, <1>3, <1>4, ArriveKeeps, StatementKeeps DEF Next

LEMMA AlwaysSInv == Spec => []SInv
BY InitSInv, NextKeeps, PTL DEF Spec

\* changeAccessType, withSerializableTransaction: whoever is in the shared
\* transaction, a request is there that will end it.
THEOREM TransactionOwned == Spec => []SessionOwned
<1>1. SInv => SessionOwned
  BY DEF SInv
<1> QED BY <1>1, AlwaysSInv, PTL

-------------------------------------------------------------------------------
\* The tables.

StoreOK ==
    /\ db \in Tables /\ tmp \in Tables /\ meant \in Tables \cup {None}
    /\ session \in {"idle", "begun", "open", "aborted"}
    /\ changed \subseteq Pairs /\ stale \subseteq Pairs
    /\ drawn \subseteq Fences /\ changes \in 0..MaxChanges
    /\ met \subseteq Pairs /\ maker \in [Fences -> Users \cup {None}]

\* Tables that give and show nothing to strangers: m are the friends there have
\* been, k made the geofences, and d have been drawn.
Sound(t, m, k, d) ==
    /\ \A p \in Pairs : t.access[p] # None => p \in m
    /\ \A g \in Fences : t.fence[g] # None => g \in d
    /\ \A s \in t.subs : <<t.fence[s[1]], s[2]>> \in m
    /\ \A g \in Fences : t.fence[g] \in {None, k[g]} \/ <<k[g], t.fence[g]>> \in m

\* What a request has read and will act on, of both tables: an owner does not
\* change, and the id of a geofence that is gone does not come back.
Granted(r, a, b, m, d) ==
    /\ r.step = "create" => r.who = r.user \/ <<r.user, r.who>> \in m
    /\ r.step = "subscribe" =>
           r.fence \in d /\ \A o \in {a.fence[r.fence], b.fence[r.fence]} : o = None \/ <<o, r.user>> \in m

FInv ==
    /\ StoreOK
    /\ session = "idle" => db = tmp
    /\ Sound(db, met, maker, drawn) /\ Sound(tmp, met, maker, drawn)
    /\ \A g \in Fences : None \in {db.fence[g], tmp.fence[g]} \/ db.fence[g] = tmp.fence[g]
    /\ \A h \in Handlers : Granted(at[h], db, tmp, met, drawn)

LEMMA InitFInv == Init => FInv
<1> SUFFICES ASSUME Init PROVE FInv
  OBVIOUS
<1>1. met \subseteq Pairs /\ db = Initial(met) /\ tmp = db /\ meant = db
  BY DEF Init
<1>2. Initial(met) \in Tables
  BY DEF Initial, Tables, AccessType
<1>3. Sound(Initial(met), met, maker, drawn)
  BY DEF Initial, Sound
<1>4. StoreOK
  BY <1>1, <1>2, MaxChangesIsNat DEF Init, StoreOK
<1>5. \A h \in Handlers : at[h].step = "idle"
  BY DEF Init, Fresh
<1> QED BY <1>1, <1>3, <1>4, <1>5 DEF FInv, Granted

\* A step leaves every geofence that has ever been drawn as one of the tables had it, or gone.
LEMMA TablesKeep ==
  ASSUME FInv, SInv, StoreOK', session' = "idle" => db' = tmp', met \subseteq met', drawn \subseteq drawn',
         Sound(db', met', maker', drawn'), Sound(tmp', met', maker', drawn'),
         \A g \in drawn : \A o \in {db'.fence[g], tmp'.fence[g]} : o \in {None, db.fence[g], tmp.fence[g]},
         \A g \in Fences \ drawn : None \in {db'.fence[g], tmp'.fence[g]} \/ db'.fence[g] = tmp'.fence[g],
         \A h \in Handlers : \/ at'[h] = at[h]
                             \/ at'[h].step \notin {"create", "subscribe"}
                             \/ Granted(at'[h], db, tmp, met, drawn)
  PROVE  FInv'
<1>1. \A g \in Fences : None \in {db'.fence[g], tmp'.fence[g]} \/ db'.fence[g] = tmp'.fence[g]
  <2>1. ASSUME NEW g \in drawn PROVE None \in {db'.fence[g], tmp'.fence[g]} \/ db'.fence[g] = tmp'.fence[g]
    BY DEF FInv, StoreOK
  <2> QED BY <2>1
<1>2. ASSUME NEW h \in Handlers PROVE Granted(at'[h], db', tmp', met', drawn')
  <2>1. CASE at'[h].step \notin {"create", "subscribe"}
    BY <2>1 DEF Granted
  <2>2. CASE Granted(at'[h], db, tmp, met, drawn)
    BY <2>2 DEF Granted
  <2> QED BY <2>1, <2>2 DEF FInv
<1> QED BY <1>1, <1>2 DEF FInv

\* No statement, or one that only reads, fails, or opens the transaction.
LEMMA ReadKeeps ==
  ASSUME FInv, SInv, UNCHANGED <<db, tmp, changed, stale, others>>, meant' \in {meant, None},
         session' \in {"idle", "begun", "open", "aborted"}, session' = "idle" => session = "idle",
         \A h \in Handlers : \/ at'[h] = at[h]
                             \/ at'[h].step \notin {"create", "subscribe"}
                             \/ Granted(at'[h], db, tmp, met, drawn)
  PROVE  FInv'
<1>1. StoreOK'
  BY DEF FInv, StoreOK, others
<1> QED BY <1>1, TablesKeep DEF FInv, others

\* The transaction is over.
LEMMA MergedSound == ASSUME FInv PROVE Merged \in Tables /\ Sound(Merged, met, maker, drawn)
                                       /\ Merged.fence = tmp.fence
<1> DEFINE a == [p \in Pairs |-> IF p \in changed THEN tmp.access[p] ELSE db.access[p]]
<1>1. db \in Tables /\ tmp \in Tables
  BY DEF FInv, StoreOK
<1>2. Merged = [tmp EXCEPT !.access = a]
  BY <1>1 DEF Merged, Tables
<1>3. a \in [Pairs -> AccessType \cup {None}]
  BY <1>1 DEF Tables
<1>4. \A p \in Pairs : a[p] \in {tmp.access[p], db.access[p]}
  OBVIOUS
<1> HIDE DEF a
<1>5. Merged \in Tables /\ Merged.access = a /\ Merged.fence = tmp.fence /\ Merged.subs = tmp.subs
  BY <1>1, <1>2, <1>3 DEF Tables
<1> QED BY <1>4, <1>5 DEF FInv, Sound

LEMMA EndKeeps ==
  ASSUME FInv, SInv, NEW t \in {db, Merged}, EndTx(t), UNCHANGED others, meant' \in {meant, None},
         \A h \in Handlers : at'[h] = at[h] \/ at'[h].step \notin {"create", "subscribe"}
  PROVE  FInv'
<1>1. t \in Tables /\ Sound(t, met, maker, drawn) /\ t.fence \in {db.fence, tmp.fence}
  BY MergedSound DEF FInv, StoreOK
<1>2. db' = t /\ tmp' = t
  BY DEF EndTx
<1>3. StoreOK'
  BY <1>1, <1>2 DEF FInv, StoreOK, EndTx, others
<1> QED BY <1>1, <1>2, <1>3, TablesKeep DEF others

-------------------------------------------------------------------------------
\* What the writes make of sound tables.

LEMMA SetSound ==
  ASSUME NEW t \in Tables, NEW m, NEW k, NEW d, Sound(t, m, k, d), NEW q \in m, q \in Pairs,
         NEW x \in AccessType, NEW n, n = [t EXCEPT !.access[q] = x]
  PROVE  n \in Tables /\ Sound(n, m, k, d) /\ n.fence = t.fence
<1>1. /\ n \in Tables /\ n.fence = t.fence /\ n.subs = t.subs
      /\ \A p \in Pairs \ {q} : n.access[p] = t.access[p]
  BY DEF Tables
<1> QED BY <1>1 DEF Sound

LEMMA AddFenceSound ==
  ASSUME StoreOK, NEW t \in Tables, Sound(t, met, maker, drawn), NEW g \in Fences \ drawn,
         NEW u \in Users \cup {None}, NEW w \in Users \cup {None}, w = u \/ <<u, w>> \in met,
         maker'[g] = u, \A f \in Fences \ {g} : maker'[f] = maker[f], drawn' = drawn \cup {g},
         NEW n \in Tables, n.access = t.access, n.subs = t.subs,
         n.fence[g] = w, \A f \in Fences \ {g} : n.fence[f] = t.fence[f]
  PROVE  Sound(n, met, maker', drawn')
\* Nobody had subscribed to what there was not.
<1>1. ASSUME NEW s \in t.subs PROVE s[1] \in Fences \ {g}
  <2>1. <<t.fence[s[1]], s[2]>> \in Pairs /\ s \in Fences \X Users
    BY DEF Sound, Tables, StoreOK
  <2>2. t.fence[s[1]] \in Users
    BY <2>1 DEF Pairs
  <2> QED BY <2>1, <2>2, NoneIsNoUser DEF Sound
<1>2. \A s \in n.subs : <<n.fence[s[1]], s[2]>> \in met
  BY <1>1 DEF Sound
<1> QED BY <1>2 DEF Sound

\* Tables that keep a geofence g that others have not made are sound all the same.
LEMMA MakerSound ==
  ASSUME NEW t \in Tables, NEW m, NEW k \in [Fences -> Users \cup {None}], NEW d,
         Sound(t, m, k, d), NEW g \in Fences, g \notin d, NEW u,
         NEW j, j = [k EXCEPT ![g] = u], NEW e, e = d \cup {g}
  PROVE  Sound(t, m, j, e)
BY DEF Sound

LEMMA RemoveSound ==
  ASSUME NEW t \in Tables, NEW m, NEW k, NEW d, Sound(t, m, k, d), NEW g
  PROVE  /\ Remove(t, g) \in Tables /\ Sound(Remove(t, g), m, k, d)
         /\ \A e \in Fences : Remove(t, g).fence[e] \in {None, t.fence[e]}
<1> PICK n : n = Remove(t, g)
  OBVIOUS
<1>1. /\ n \in Tables /\ n.access = t.access /\ n.subs = {s \in t.subs : s[1] # g}
      /\ \A e \in Fences : n.fence[e] = IF e = g THEN None ELSE t.fence[e]
  BY DEF Tables, Remove
<1>2. \A s \in n.subs : s[1] \in Fences /\ s \in t.subs /\ s[1] # g
  BY <1>1 DEF Tables
<1> QED BY <1>1, <1>2 DEF Sound

LEMMA SubsSound ==
  ASSUME NEW t \in Tables, NEW m, NEW k, NEW d, Sound(t, m, k, d), NEW n \in Tables,
         n.access = t.access, n.fence = t.fence, \A s \in n.subs : <<t.fence[s[1]], s[2]>> \in m
  PROVE  Sound(n, m, k, d)
BY DEF Sound

-------------------------------------------------------------------------------
\* The statements.

\* A statement that writes n to the shared session's tables, and c, which is n if no
\* transaction is open, to the committed ones, and ends its request or its transaction's part.
LEMMA WriteKeeps ==
  ASSUME FInv, SInv, NEW h \in Handlers, Moves(h, at'[h].step),
         at'[h].step \notin {"create", "subscribe"},
         db' \in Tables, tmp' \in Tables, meant' \in Tables \cup {None}, Snapshot,
         session = "idle" => db' = tmp', changed' \subseteq Pairs,
         Sound(db', met, maker, drawn), Sound(tmp', met, maker, drawn),
         \A g \in Fences : db'.fence[g] \in {None, db.fence[g]} /\ tmp'.fence[g] \in {None, tmp.fence[g]},
         UNCHANGED <<stale, others>>
  PROVE  FInv'
<1>1. StoreOK'
  BY DEF FInv, StoreOK, others, Snapshot
<1>2. \A k \in Handlers : at'[k] = at[k] \/ at'[k].step \notin {"create", "subscribe"}
  BY DEF Moves, SInv
<1>3. /\ \A g \in drawn : \A o \in {db'.fence[g], tmp'.fence[g]} : o \in {None, db.fence[g], tmp.fence[g]}
      /\ \A g \in Fences \ drawn : None \in {db'.fence[g], tmp'.fence[g]}
  <2>1. drawn \subseteq Fences /\ \A g \in Fences \ drawn : db.fence[g] = None
    BY DEF FInv, StoreOK, Sound
  <2> QED BY <2>1
<1>4. session' = "idle" => db' = tmp'
  BY DEF Snapshot
<1> QED BY <1>1, <1>2, <1>3, <1>4, TablesKeep DEF others

\* What all statements that move only their own request have in common.
LEMMA OthersStay ==
  ASSUME SInv, NEW h \in Handlers, NEW s, Moves(h, s)
  PROVE  at'[h].step = s /\ \A k \in Handlers : k # h => at'[k] = at[k]
BY DEF Moves, SInv

LEMMA UpdateKeeps == ASSUME FInv, SInv, NEW h \in Handlers, Update(h) PROVE FInv'
<1> DEFINE p == <<at[h].user, at[h].who>>
           x == at[h].access
<1>1. at[h].step = "update" /\ at[h].op = "update" /\ queue # <<>> /\ session # "aborted" /\ UNCHANGED others
  BY DEF Update, Runs, Turn, SInv, RequestOK, Transaction
<1>2. CASE Throw(h)
  <2>1. CASE Broken \/ ReadOnly
    <3>1. Moves(h, "rollback")
      BY <1>1, <1>2, ThrowMoves
    <3>2. /\ UNCHANGED <<db, tmp, changed, stale>> /\ meant' \in {meant, None}
          /\ session' \in {"idle", "begun", "open", "aborted"} /\ (session' = "idle" => session = "idle")
      BY <2>1 DEF Broken, ReadOnly, Snapshot, FInv, StoreOK
    <3> QED BY <1>1, <3>1, <3>2, OthersStay, ReadKeeps
  <2>2. CASE ~(Broken \/ ReadOnly)
    <3>1. Goto(h, "commit")
      BY <2>2 DEF Update
    <3>2. Moves(h, "commit") /\ Moves(h, "rollback")
      BY <1>1, <1>2, <3>1, GotoMoves, ThrowMoves DEF Steps
    <3> QED BY <3>2 DEF Moves
  <2> QED BY <2>1, <2>2
<1>3. CASE ~Throw(h)
  <2>1. /\ x \in AccessType /\ Follows(tmp, at[h].who, at[h].user) /\ Goto(h, "commit")
        /\ changed' = IF session = "idle" THEN {} ELSE changed \cup {p}
        /\ tmp' = [tmp EXCEPT !.access[p] = x]
        /\ db' = IF session = "idle" THEN [db EXCEPT !.access[p] = x] ELSE db
        /\ meant' = IF meant = None THEN None ELSE [meant EXCEPT !.access[p] = x]
        /\ Snapshot /\ stale' = stale
    BY <1>3 DEF Update, Write
  <2>2. p \in Pairs /\ p \in met /\ changed' \subseteq Pairs
    BY <2>1 DEF Follows, FInv, Sound, StoreOK
  <2> HIDE DEF p, x
  <2>3. tmp' \in Tables /\ Sound(tmp', met, maker, drawn) /\ tmp'.fence = tmp.fence
    BY <2>1, <2>2, SetSound DEF FInv, StoreOK
  <2>4. db' \in Tables /\ Sound(db', met, maker, drawn) /\ db'.fence = db.fence
    BY <2>1, <2>2, SetSound DEF FInv, StoreOK
  <2>5. meant' \in Tables \cup {None}
    <3>1. ASSUME meant \in Tables PROVE [meant EXCEPT !.access[p] = x] \in Tables
      BY <2>1, <2>2, <3>1 DEF Tables
    <3> QED BY <2>1, <3>1 DEF FInv, StoreOK
  <2>6. Moves(h, "commit")
    BY <1>1, <2>1, GotoMoves DEF Steps
  <2>7. session = "idle" => db' = tmp'
    BY <2>1 DEF FInv
  <2> QED BY <1>1, <2>1, <2>2, <2>3, <2>4, <2>5, <2>6, <2>7, OthersStay, WriteKeeps
<1> QED BY <1>2, <1>3

LEMMA CreateKeeps == ASSUME FInv, SInv, NEW h \in Handlers, CreateGeofence(h) PROVE FInv'
<1>1. PICK g \in Fences \ drawn :
          /\ tmp' = [tmp EXCEPT !.fence[g] = at[h].who]
          /\ db' = IF session = "idle" THEN [db EXCEPT !.fence[g] = at[h].who] ELSE db
          /\ meant' = IF meant = None THEN None ELSE [meant EXCEPT !.fence[g] = at[h].who]
          /\ Finish(h) /\ drawn' = drawn \cup {g} /\ maker' = [maker EXCEPT ![g] = at[h].user]
          /\ Snapshot /\ UNCHANGED <<stale, changed, changes, met>>
  BY DEF CreateGeofence, Write
<1>2. at[h].step = "create" /\ queue # <<>>
  BY DEF CreateGeofence, Runs, Turn
<1>3. PICK u \in Users \cup {None} : u = at[h].user
  BY DEF SInv, Request
<1>4. PICK w \in Users \cup {None} : w = at[h].who
  BY DEF SInv, Request
<1>5. w = u \/ <<u, w>> \in met
  BY <1>2, <1>3, <1>4 DEF FInv, Granted
<1>6. /\ met \in SUBSET Pairs /\ maker \in [Fences -> Users \cup {None}]
      /\ StoreOK /\ db \in Tables /\ tmp \in Tables /\ g \in Fences /\ g \notin drawn /\ drawn \subseteq Fences
      /\ Sound(db, met, maker, drawn) /\ Sound(tmp, met, maker, drawn)
  BY DEF FInv, StoreOK
<1>7. /\ maker' = [maker EXCEPT ![g] = u] /\ maker'[g] = u /\ drawn' = drawn \cup {g}
      /\ \A f \in Fences \ {g} : maker'[f] = maker[f]
      /\ tmp' \in Tables /\ tmp'.access = tmp.access /\ tmp'.subs = tmp.subs
      /\ tmp'.fence[g] = w /\ \A f \in Fences \ {g} : tmp'.fence[f] = tmp.fence[f]
  BY <1>1, <1>3, <1>4, <1>6 DEF Tables
<1>8. Sound(tmp', met, maker', drawn')
  BY <1>5, <1>6, <1>7, AddFenceSound
<1>9. /\ db' \in Tables /\ Sound(db', met, maker', drawn') /\ db'.fence[g] \in {None, w}
      /\ \A f \in Fences \ {g} : db'.fence[f] = db.fence[f]
  <2>1. CASE session = "idle"
    <3>1. /\ db' \in Tables /\ db'.access = db.access /\ db'.subs = db.subs
          /\ db'.fence[g] = w /\ \A f \in Fences \ {g} : db'.fence[f] = db.fence[f]
      BY <1>1, <1>4, <1>6, <2>1 DEF Tables
    <3> QED BY <1>5, <1>6, <1>7, <3>1, AddFenceSound, ZenonT(40)
  <2>2. CASE session # "idle"
    <3>1. db.fence[g] = None /\ db' = db
      BY <1>1, <1>6, <2>2 DEF Sound
    <3> QED BY <1>6, <1>7, <3>1, MakerSound
  <2> QED BY <2>1, <2>2
<1>10. meant' \in Tables \cup {None}
  <2>1. ASSUME meant \in Tables PROVE [meant EXCEPT !.fence[g] = w] \in Tables
    BY <2>1 DEF Tables
  <2> QED BY <1>1, <1>4, <2>1 DEF FInv, StoreOK
<1>11. maker' \in [Fences -> Users \cup {None}]
  BY <1>1, <1>3, <1>6
<1>12. StoreOK'
  BY <1>1, <1>6, <1>7, <1>8, <1>9, <1>10, <1>11 DEF FInv, StoreOK, Snapshot
<1>13. Moves(h, "idle")
  BY <1>1, <1>2, FinishMoves
<1>14. session' = "idle" => db' = tmp'
  BY <1>1 DEF FInv, Snapshot
<1>15. /\ \A e \in drawn : \A o \in {db'.fence[e], tmp'.fence[e]} : o \in {None, db.fence[e], tmp.fence[e]}
       /\ \A e \in Fences \ drawn : None \in {db'.fence[e], tmp'.fence[e]} \/ db'.fence[e] = tmp'.fence[e]
  <2>1. \A e \in Fences \ drawn : db.fence[e] = None /\ tmp.fence[e] = None
    BY <1>6 DEF Sound
  <2> QED BY <1>6, <1>7, <1>8, <1>9, <2>1
<1> QED BY <1>1, <1>7, <1>8, <1>9, <1>12, <1>13, <1>14, <1>15, OthersStay, TablesKeep

LEMMA DeleteKeeps == ASSUME FInv, SInv, NEW h \in Handlers, DeleteGeofence(h) PROVE FInv'
<1> DEFINE g == at[h].fence
<1>1. Moves(h, "idle") /\ UNCHANGED <<others, changed, stale>> /\ Snapshot
  BY FinishMoves DEF DeleteGeofence, Runs, Turn, Write, ReadOnly
<1>2. CASE tmp.fence[g] = at[h].user
  <2>1. /\ tmp' = Remove(tmp, g) /\ db' = IF session = "idle" THEN Remove(db, g) ELSE db
        /\ meant' = IF meant = None THEN None ELSE Remove(meant, g)
    BY <1>2 DEF DeleteGeofence, Write
  <2> HIDE DEF g
  <2>2. /\ tmp' \in Tables /\ Sound(tmp', met, maker, drawn)
        /\ \A e \in Fences : tmp'.fence[e] \in {None, tmp.fence[e]}
    BY <2>1, RemoveSound DEF FInv, StoreOK
  <2>3. /\ db' \in Tables /\ Sound(db', met, maker, drawn)
        /\ \A e \in Fences : db'.fence[e] \in {None, db.fence[e]}
    BY <2>1, RemoveSound DEF FInv, StoreOK
  <2>4. meant' \in Tables \cup {None}
    <3>1. ASSUME meant \in Tables PROVE Remove(meant, g) \in Tables
      BY <3>1 DEF Tables, Remove
    <3> QED BY <2>1, <3>1 DEF FInv, StoreOK
  <2>5. session = "idle" => db' = tmp'
    BY <2>1 DEF FInv
  <2> QED BY <1>1, <2>2, <2>3, <2>4, <2>5, OthersStay, WriteKeeps DEF FInv, StoreOK
<1>3. CASE tmp.fence[g] # at[h].user
  <2>1. ReadOnly
    BY <1>3 DEF DeleteGeofence
  <2> QED BY <1>1, <2>1, OthersStay, ReadKeeps DEF ReadOnly, Snapshot, FInv, StoreOK
<1> QED BY <1>2, <1>3

LEMMA SubscriptionsKeep == ASSUME FInv, SInv, NEW h \in Handlers, Subscribe(h) \/ Unsubscribe(h) PROVE FInv'
<1>1. PICK s : s = <<at[h].fence, at[h].user>>
  OBVIOUS
<1>2. Moves(h, "idle") /\ UNCHANGED <<others, changed, stale>>
  BY FinishMoves DEF Subscribe, Unsubscribe, Runs, Turn, Write, ReadOnly, Broken
<1>3. CASE ReadOnly \/ Broken
  BY <1>2, <1>3, OthersStay, ReadKeeps DEF ReadOnly, Broken, Snapshot, FInv, StoreOK
<1>4. CASE Subscribe(h) /\ ~Broken
  <2>1. /\ tmp.fence[s[1]] # None /\ Snapshot
        /\ tmp' = [tmp EXCEPT !.subs = @ \cup {s}]
        /\ db' = IF session = "idle" THEN [db EXCEPT !.subs = @ \cup {s}] ELSE db
        /\ meant' = IF meant = None THEN None ELSE [meant EXCEPT !.subs = @ \cup {s}]
    BY <1>1, <1>4 DEF Subscribe, Write
  <2>2. s[1] \in drawn /\ <<tmp.fence[s[1]], s[2]>> \in met
    BY <1>1, <1>4, <2>1 DEF Subscribe, Runs, Turn, FInv, Granted
  <2>3. s \in Fences \X Users
    <3>1. <<tmp.fence[s[1]], s[2]>> \in Pairs /\ s[1] \in Fences
      BY <2>2 DEF FInv, StoreOK
    <3>2. s[2] \in Users
      BY <3>1 DEF Pairs
    <3> QED BY <1>1, <3>1, <3>2
  <2>4. ASSUME NEW t \in {db, tmp}, t = tmp \/ session = "idle", NEW n, n = [t EXCEPT !.subs = @ \cup {s}]
        PROVE  n \in Tables /\ Sound(n, met, maker, drawn) /\ n.fence = t.fence
    <3>1. t \in Tables /\ Sound(t, met, maker, drawn) /\ t.fence[s[1]] = tmp.fence[s[1]]
      BY <2>4 DEF FInv, StoreOK
    <3>2. /\ n \in Tables /\ n.access = t.access /\ n.fence = t.fence
          /\ n.subs = t.subs \cup {s}
      BY <2>3, <2>4, <3>1 DEF Tables
    <3>3. \A r \in n.subs : <<t.fence[r[1]], r[2]>> \in met
      BY <2>2, <3>1, <3>2 DEF Sound
    <3> QED BY <3>1, <3>2, <3>3, SubsSound
  <2>5. tmp' \in Tables /\ Sound(tmp', met, maker, drawn) /\ tmp'.fence = tmp.fence
    BY <2>1, <2>4
  <2>6. db' \in Tables /\ Sound(db', met, maker, drawn) /\ db'.fence = db.fence
    BY <2>1, <2>4 DEF FInv, StoreOK
  <2>7. meant' \in Tables \cup {None}
    <3>1. ASSUME meant \in Tables PROVE [meant EXCEPT !.subs = @ \cup {s}] \in Tables
      BY <2>3, <3>1 DEF Tables
    <3> QED BY <2>1, <3>1 DEF FInv, StoreOK
  <2>8. session = "idle" => db' = tmp'
    BY <2>1 DEF FInv
  <2>9. changed' \subseteq Pairs /\ at'[h].step = "idle"
    BY <1>2 DEF FInv, StoreOK, Moves
  <2> QED BY <1>2, <2>1, <2>5, <2>6, <2>7, <2>8, <2>9, WriteKeeps
<1>5. CASE Unsubscribe(h) /\ ~ReadOnly
  <2>1. /\ Snapshot
        /\ tmp' = [tmp EXCEPT !.subs = @ \ {s}]
        /\ db' = IF session = "idle" THEN [db EXCEPT !.subs = @ \ {s}] ELSE db
        /\ meant' = IF meant = None THEN None ELSE [meant EXCEPT !.subs = @ \ {s}]
    BY <1>1, <1>5 DEF Unsubscribe, Write
  <2>2. ASSUME NEW t \in {db, tmp}, NEW n, n = [t EXCEPT !.subs = @ \ {s}]
        PROVE  n \in Tables /\ Sound(n, met, maker, drawn) /\ n.fence = t.fence
    <3>1. t \in Tables /\ Sound(t, met, maker, drawn)
      BY DEF FInv, StoreOK
    <3>2. /\ n \in Tables /\ n.access = t.access /\ n.fence = t.fence
          /\ n.subs = t.subs \ {s}
      BY <2>2, <3>1 DEF Tables
    <3>3. \A r \in n.subs : <<t.fence[r[1]], r[2]>> \in met
      BY <3>1, <3>2 DEF Sound
    <3> QED BY <3>1, <3>2, <3>3, SubsSound
  <2>3. tmp' \in Tables /\ Sound(tmp', met, maker, drawn) /\ tmp'.fence = tmp.fence
    BY <2>1, <2>2
  <2>4. db' \in Tables /\ Sound(db', met, maker, drawn) /\ db'.fence = db.fence
    BY <2>1, <2>2 DEF FInv, StoreOK
  <2>5. meant' \in Tables \cup {None}
    <3>1. ASSUME meant \in Tables PROVE [meant EXCEPT !.subs = @ \ {s}] \in Tables
      BY <3>1 DEF Tables
    <3> QED BY <2>1, <3>1 DEF FInv, StoreOK
  <2>6. session = "idle" => db' = tmp'
    BY <2>1 DEF FInv
  <2>7. changed' \subseteq Pairs /\ at'[h].step = "idle"
    BY <1>2 DEF FInv, StoreOK, Moves
  <2> QED BY <1>2, <2>1, <2>3, <2>4, <2>5, <2>6, <2>7, WriteKeeps
<1> QED BY <1>3, <1>4, <1>5

\* The statements that read, or end the transaction.
LEMMA OtherStatementsKeep ==
  ASSUME FInv, SInv, NEW h \in Handlers,
         \/ Authenticate(h) \/ Refused(h) \/ Begin(h) \/ Commit(h) \/ CommitFails(h) \/ Rollback(h)
         \/ Followers(h) \/ OwnerFollowed(h) \/ Misfit(h)
  PROVE  FInv'
<1>1. queue # <<>> /\ at[h].step # "idle" /\ at[h] \in Request /\ RequestOK(at[h])
  BY DEF SInv, Authenticate, Refused, Begin, Commit, CommitFails, Rollback, Followers, OwnerFollowed,
     Misfit, Runs, Turn
\* A reading statement after which h goes on to s.
<1>2. ASSUME ReadOnly, UNCHANGED others, NEW s \in Steps, Moves(h, s),
             s \in {"create", "subscribe"} => Granted(at'[h], db, tmp, met, drawn)
      PROVE  FInv'
  <2>1. session' \in {"idle", "begun", "open", "aborted"} /\ (session' = "idle" => session = "idle")
    BY <1>2 DEF ReadOnly, Snapshot, FInv, StoreOK
  <2> QED BY <1>2, <2>1, OthersStay, ReadKeeps DEF ReadOnly
<1>3. CASE Authenticate(h)
  <2>1. CASE Finish(h)
    BY <1>1, <1>2, <1>3, <2>1, FinishMoves DEF Authenticate, Steps
  <2>2. CASE Goto(h, AfterAuth(at[h]))
    <3>1. /\ AfterAuth(at[h]) \in Steps \ (Transaction \cup {"idle", "subscribe"})
          /\ AfterAuth(at[h]) = "begin" => at[h].op = "update"
          /\ AfterAuth(at[h]) = "owner" => at[h].op = "subscribe"
          /\ AfterAuth(at[h]) = "create" => at[h].who = at[h].user
      BY <1>1 DEF AfterAuth, RequestOK, Ops, Steps, Transaction
    <3>2. /\ Moves(h, AfterAuth(at[h])) /\ at'[h].user = at[h].user /\ at'[h].who = at[h].who
      BY <1>1, <2>2, <3>1, GotoMoves
    <3>3. AfterAuth(at[h]) \in {"create", "subscribe"} => Granted(at'[h], db, tmp, met, drawn)
      BY <3>1, <3>2 DEF Granted, Moves
    <3> QED BY <1>2, <1>3, <3>1, <3>2, <3>3 DEF Authenticate
  <2> QED BY <1>3, <2>1, <2>2 DEF Authenticate
<1>4. CASE Refused(h)
  <2>1. Moves(h, "rollback") \/ Moves(h, "idle")
    BY <1>1, <1>4, ThrowMoves DEF Refused
  <2> QED BY <1>4, <2>1, OthersStay, ReadKeeps DEF Refused, store, FInv, StoreOK
<1>5. CASE Begin(h)
  <2>1. Moves(h, "update")
    BY <1>1, <1>5, GotoMoves DEF Begin, Runs, Turn, RequestOK, Steps
  <2> QED BY <1>5, <2>1, OthersStay, ReadKeeps DEF Begin, FInv, StoreOK
<1>6. CASE Commit(h) \/ CommitFails(h) \/ Rollback(h)
  <2>1. at[h].op = "update"
    BY <1>1, <1>6 DEF Commit, CommitFails, Rollback, Turn, RequestOK, Transaction
  <2>2. Moves(h, "rollback") \/ Moves(h, "idle")
    BY <1>1, <1>6, <2>1, GotoMoves, FinishMoves DEF Commit, CommitFails, Rollback, Steps
  <2>3. (EndTx(db) \/ EndTx(Merged)) /\ UNCHANGED others /\ meant' \in {meant, None}
    BY <1>6 DEF Commit, CommitFails, Rollback
  <2> QED BY <2>2, <2>3, OthersStay, EndKeeps
<1>7. CASE Followers(h)
  <2>1. CASE Finish(h)
    BY <1>1, <1>2, <1>7, <2>1, FinishMoves DEF Followers, Steps
  <2>2. CASE ~Finish(h)
    <3>1. Follows(tmp, at[h].who, at[h].user) /\ Goto(h, "create")
      BY <1>7, <2>2 DEF Followers
    <3>2. /\ Moves(h, "create") /\ at'[h].user = at[h].user /\ at'[h].who = at[h].who
      BY <1>1, <3>1, GotoMoves DEF Steps, Transaction
    <3>3. <<at[h].user, at[h].who>> \in met
      BY <3>1 DEF Follows, FInv, Sound
    <3>4. Granted(at'[h], db, tmp, met, drawn)
      BY <3>2, <3>3 DEF Granted, Moves
    <3> QED BY <1>2, <1>7, <3>2, <3>4 DEF Followers, Steps
  <2> QED BY <2>1, <2>2
<1>8. CASE OwnerFollowed(h)
  <2>1. CASE Finish(h)
    BY <1>1, <1>2, <1>8, <2>1, FinishMoves DEF OwnerFollowed, Steps
  <2>2. CASE ~Finish(h)
    <3>1. Goto(h, "subscribe") /\ ReadOnly /\ UNCHANGED others
      BY <1>8, <2>2 DEF OwnerFollowed
    <3>2. /\ Moves(h, "subscribe") /\ at'[h].user = at[h].user /\ at'[h].fence = at[h].fence
      BY <1>1, <3>1, GotoMoves DEF Steps, Transaction
    <3>3. PICK o \in Users : tmp.fence[at[h].fence] = o /\ Follows(tmp, at[h].user, o)
      BY <1>8, <2>2 DEF OwnerFollowed
    <3>4. <<o, at[h].user>> \in met
      BY <3>3 DEF Follows, FInv, Sound
    <3>5. at[h].fence \in Fences
      BY <1>1, <1>8 DEF OwnerFollowed, Runs, Turn, RequestOK
    <3>6. at[h].fence \in drawn /\ db.fence[at[h].fence] \in {None, o}
      BY <3>3, <3>5, NoneIsNoUser DEF FInv, Sound
    <3>7. Granted(at'[h], db, tmp, met, drawn)
      BY <3>2, <3>3, <3>4, <3>6 DEF Granted, Moves
    <3> QED BY <1>2, <3>1, <3>2, <3>7 DEF Steps
  <2> QED BY <2>1, <2>2
<1>9. CASE Misfit(h)
  <2>1. Moves(h, "idle") /\ UNCHANGED others
    BY <1>1, <1>9, FinishMoves DEF Misfit
  <2>2. /\ UNCHANGED <<db, tmp, changed, stale>> /\ meant' = None
        /\ session' \in {"idle", "begun", "open", "aborted"} /\ (session' = "idle" => session = "idle")
    BY <1>9 DEF Misfit, Broken
  <2> QED BY <2>1, <2>2, OthersStay, ReadKeeps
<1> QED BY <1>3, <1>4, <1>5, <1>6, <1>7, <1>8, <1>9

LEMMA FriendshipsKeep ==
  ASSUME FInv, SInv, NEW u \in Users, NEW f \in Users, Befriend(u, f) \/ Unfriend(u, f)
  PROVE  FInv'
<1>1. PICK a \in {"Permanent", None} : SetFriends(u, f, a) /\ (a # None => u # f)
  BY DEF Befriend, Unfriend
<1>2. PICK ps : ps = {<<u, f>>, <<f, u>>}
  OBVIOUS
<1>3. /\ db' = [db EXCEPT !.access = [p \in Pairs |-> IF p \in ps THEN a ELSE @[p]]]
      /\ meant' = IF meant = None THEN None
                  ELSE [meant EXCEPT !.access = [p \in Pairs |-> IF p \in ps THEN a ELSE @[p]]]
      /\ IF session \in {"idle", "begun"}
         THEN /\ tmp' = [tmp EXCEPT !.access = [p \in Pairs |-> IF p \in ps THEN a ELSE @[p]]]
              /\ stale' = stale
         ELSE stale' = stale \cup ps /\ tmp' = tmp
      /\ met' = IF a = None THEN met ELSE met \cup ps
      /\ changes < MaxChanges /\ changes' = changes + 1
      /\ UNCHANGED <<session, changed, queue, at, drawn, maker>>
  BY <1>1, <1>2 DEF SetFriends
<1>4. u # f
  <2>1. Unfriend(u, f) => u # f
    BY DEF Unfriend, Follows, Pairs
  <2> QED BY <2>1 DEF Befriend
<1>5. ps \subseteq Pairs /\ a \in AccessType \cup {None}
  BY <1>2, <1>4 DEF Pairs, AccessType
<1>6. ASSUME NEW t \in Tables, Sound(t, met, maker, drawn), NEW n,
             n = [t EXCEPT !.access = [p \in Pairs |-> IF p \in ps THEN a ELSE @[p]]]
      PROVE  n \in Tables /\ Sound(n, met', maker, drawn) /\ n.fence = t.fence
  <2>1. /\ n \in Tables /\ n.subs = t.subs /\ n.fence = t.fence
        /\ \A p \in Pairs : n.access[p] = IF p \in ps THEN a ELSE t.access[p]
    BY <1>5, <1>6 DEF Tables
  <2>2. met \subseteq met' /\ (a # None => ps \subseteq met')
    BY <1>3
  <2> QED BY <1>6, <2>1, <2>2 DEF Sound
<1>7. db' \in Tables /\ Sound(db', met', maker, drawn) /\ db'.fence = db.fence
  BY <1>3, <1>6 DEF FInv, StoreOK
<1>8. tmp' \in Tables /\ Sound(tmp', met', maker, drawn) /\ tmp'.fence = tmp.fence
  <2>1. CASE session \in {"idle", "begun"}
    BY <1>3, <1>6, <2>1 DEF FInv, StoreOK
  <2>2. CASE session \notin {"idle", "begun"}
    BY <1>3, <2>2 DEF FInv, StoreOK, Sound
  <2> QED BY <2>1, <2>2
<1>9. meant' \in Tables \cup {None}
  <2>1. ASSUME meant \in Tables
        PROVE  [meant EXCEPT !.access = [p \in Pairs |-> IF p \in ps THEN a ELSE @[p]]] \in Tables
    BY <1>5, <2>1 DEF Tables
  <2> QED BY <1>3, <2>1 DEF FInv, StoreOK
<1>10. StoreOK'
  <2>1. stale' \subseteq Pairs /\ met' \subseteq Pairs /\ changes' \in 0..MaxChanges
    BY <1>3, <1>5, MaxChangesIsNat DEF FInv, StoreOK
  <2> QED BY <1>3, <1>7, <1>8, <1>9, <2>1 DEF FInv, StoreOK
<1>11. session' = "idle" => db' = tmp'
  BY <1>3 DEF FInv
<1> QED BY <1>3, <1>7, <1>8, <1>10, <1>11, TablesKeep DEF FInv, StoreOK

-------------------------------------------------------------------------------
LEMMA FStep == FInv /\ SInv /\ [Next]_vars => FInv'
<1> SUFFICES ASSUME FInv, SInv, [Next]_vars PROVE FInv'
  OBVIOUS
<1>1. CASE UNCHANGED vars
  BY <1>1, ReadKeeps DEF vars, others, FInv, StoreOK
<1>2. ASSUME NEW h \in Handlers, Arrive(h) PROVE FInv'
  <2>1. at'[h].step = "auth" /\ UNCHANGED <<store, others>> /\ \A k \in Handlers \ {h} : at'[k] = at[k]
    BY <1>2, ArriveKeeps
  <2> QED BY <2>1, ReadKeeps DEF store, FInv, StoreOK
<1>3. ASSUME NEW h \in Handlers, Statement(h) PROVE FInv'
  BY <1>3, OtherStatementsKeep, UpdateKeeps, CreateKeeps, DeleteKeeps, SubscriptionsKeep DEF Statement
<1>4. CASE Crash
  <2>1. \A h \in Handlers : at'[h].step = "idle"
    BY <1>4 DEF Crash, Fresh
  <2> QED BY <1>4, <2>1, EndKeeps DEF Crash
<1> QED BY <1>1, <1>2, <1>3, <1>4, FriendshipsKeep DEF Next

LEMMA AlwaysFInv == Spec => []FInv
BY InitFInv, FStep, AlwaysSInv, PTL DEF Spec

\* Tables, requests and the connection are well formed.
THEOREM TypeCorrect == Spec => []TypeOK
<1>1. SInv /\ FInv => TypeOK
  BY DEF SInv, FInv, StoreOK, TypeOK
<1> QED BY <1>1, AlwaysSInv, AlwaysFInv, PTL

\* createGeofence and subscribeToGeofence: a geofence was made, and is subscribed to, by the
\* owner's friends only, in and out of the transactions of other requests.
THEOREM FriendsOnly == Spec => []OnlyFriends
<1>1. FInv => OnlyFriends
  BY DEF FInv, Sound, OnlyFriends
<1> QED BY <1>1, AlwaysFInv, PTL

-------------------------------------------------------------------------------
\* What was answered.  As long as nothing has failed, the tables as all statements left
\* them are what a COMMIT would make of the session's: the transaction's own changes of
\* access types, everything else of the session, and the friendships of the others.

Whole ==
    meant # None =>
        /\ session # "aborted"
        /\ meant.fence = tmp.fence /\ meant.subs = tmp.subs
        /\ \A p \in Pairs : meant.access[p] = IF p \in changed THEN tmp.access[p] ELSE db.access[p]

LEMMA WholeRead ==
  ASSUME Whole, UNCHANGED <<db, tmp, changed>>, meant' \in {meant, None},
         session' = "aborted" => session = "aborted" \/ meant' = None
  PROVE  Whole'
BY DEF Whole

LEMMA WholeEnd ==
  ASSUME Whole, FInv, NEW t \in {db, Merged}, EndTx(t), meant' \in {meant, None},
         meant' = None \/ t = Merged \/ session = "idle"
  PROVE  Whole'
<1> SUFFICES ASSUME meant' # None PROVE Whole'
  BY DEF Whole
<1>1. meant' = meant /\ meant # None /\ db' = t /\ tmp' = t /\ session' = "idle" /\ changed' = {}
  BY DEF EndTx
<1>2. tmp \in Tables /\ db \in Tables
  BY DEF FInv, StoreOK
<1>3. CASE t = Merged
  <2>1. /\ t.fence = tmp.fence /\ t.subs = tmp.subs
        /\ \A p \in Pairs : t.access[p] = IF p \in changed THEN tmp.access[p] ELSE db.access[p]
    BY <1>2, <1>3 DEF Merged, Tables
  <2> QED BY <1>1, <2>1 DEF Whole
<1>4. CASE t = db /\ session = "idle"
  BY <1>1, <1>4 DEF Whole, FInv
<1> QED BY <1>1, <1>3, <1>4

LEMMA WholeUpdate == ASSUME Whole, FInv, NEW h \in Handlers, Update(h) PROVE Whole'
<1>1. CASE Broken \/ ReadOnly
  <2>1. session # "aborted"
    BY DEF Update, Runs
  <2> QED BY <1>1, <2>1, WholeRead DEF Broken, ReadOnly, Snapshot
<1>2. CASE ~(Broken \/ ReadOnly)
  <2>1. PICK q, x :
          /\ q \in Pairs
          /\ changed' = IF session = "idle" THEN {} ELSE changed \cup {q}
          /\ tmp' = [tmp EXCEPT !.access[q] = x]
          /\ db' = IF session = "idle" THEN [db EXCEPT !.access[q] = x] ELSE db
          /\ meant' = IF meant = None THEN None ELSE [meant EXCEPT !.access[q] = x]
          /\ Snapshot /\ session # "aborted"
    BY <1>2 DEF Update, Write, Follows, Runs
  <2>2. tmp \in Tables /\ db \in Tables /\ meant \in Tables \cup {None}
    BY DEF FInv, StoreOK
  <2> SUFFICES ASSUME meant' # None PROVE Whole'
    BY DEF Whole
  <2>3. meant \in Tables /\ meant # None /\ meant' = [meant EXCEPT !.access[q] = x]
    BY <2>1, <2>2
  <2>4. /\ meant'.fence = tmp'.fence /\ meant'.subs = tmp'.subs
        /\ tmp'.access[q] = x /\ meant'.access[q] = x
        /\ \A p \in Pairs \ {q} : tmp'.access[p] = tmp.access[p] /\ meant'.access[p] = meant.access[p]
    BY <2>1, <2>2, <2>3 DEF Tables, Whole
  <2>5. CASE session = "idle"
    <3>1. db' = tmp' /\ db = tmp
      BY <2>1, <2>5 DEF FInv
    <3>2. \A p \in Pairs : meant'.access[p] = tmp'.access[p]
      BY <2>3, <2>4, <3>1 DEF Whole
    <3> QED BY <2>1, <2>4, <2>5, <3>1, <3>2 DEF Whole, Snapshot
  <2>6. CASE session # "idle"
    BY <2>1, <2>3, <2>4, <2>6 DEF Whole, Snapshot
  <2> QED BY <2>5, <2>6
<1> QED BY <1>1, <1>2

\* A write to the geofences or to the subscriptions.
LEMMA WholeWrite ==
  ASSUME Whole, FInv, session # "aborted", Snapshot, changed' = changed,
         tmp'.access = tmp.access, db'.access = db.access,
         meant' # None => /\ meant # None /\ meant'.access = meant.access
                          /\ meant'.fence = tmp'.fence /\ meant'.subs = tmp'.subs
  PROVE  Whole'
BY DEF Whole, Snapshot

LEMMA WholeFences ==
  ASSUME Whole, FInv, NEW h \in Handlers, CreateGeofence(h) \/ DeleteGeofence(h)
  PROVE  Whole'
<1>1. tmp \in Tables /\ db \in Tables /\ meant \in Tables \cup {None} /\ session # "aborted"
  BY DEF FInv, StoreOK, CreateGeofence, DeleteGeofence, Runs
<1>2. CASE ReadOnly
  BY <1>1, <1>2, WholeRead DEF ReadOnly, Snapshot
<1>3. CASE CreateGeofence(h)
  <2>1. PICK g, w :
          /\ g \in Fences
          /\ tmp' = [tmp EXCEPT !.fence[g] = w]
          /\ db' = IF session = "idle" THEN [db EXCEPT !.fence[g] = w] ELSE db
          /\ meant' = IF meant = None THEN None ELSE [meant EXCEPT !.fence[g] = w]
          /\ Snapshot /\ changed' = changed
    BY <1>3 DEF CreateGeofence, Write
  <2>2. tmp'.access = tmp.access /\ db'.access = db.access /\ tmp'.subs = tmp.subs
    BY <1>1, <2>1 DEF Tables
  <2>3. ASSUME meant' # None
        PROVE  /\ meant # None /\ meant'.access = meant.access
               /\ meant'.fence = tmp'.fence /\ meant'.subs = tmp'.subs
    <3>1. meant # None /\ meant \in Tables /\ meant.fence = tmp.fence /\ meant.subs = tmp.subs
      BY <1>1, <2>1, <2>3 DEF Whole
    <3> QED BY <1>1, <2>1, <3>1 DEF Tables
  <2> QED BY <1>1, <2>1, <2>2, <2>3, WholeWrite
<1>4. CASE DeleteGeofence(h) /\ ~ReadOnly
  <2>1. PICK g : /\ tmp' = Remove(tmp, g) /\ db' = IF session = "idle" THEN Remove(db, g) ELSE db
                 /\ meant' = IF meant = None THEN None ELSE Remove(meant, g)
                 /\ Snapshot /\ changed' = changed
    BY <1>4 DEF DeleteGeofence, Write
  <2>2. ASSUME NEW t \in Tables
        PROVE  /\ Remove(t, g).access = t.access
               /\ Remove(t, g).fence = [t.fence EXCEPT ![g] = None]
               /\ Remove(t, g).subs = {s \in t.subs : s[1] # g}
    BY DEF Tables, Remove
  <2>3. tmp'.access = tmp.access /\ db'.access = db.access
    BY <1>1, <2>1, <2>2
  <2>4. ASSUME meant' # None
        PROVE  /\ meant # None /\ meant'.access = meant.access
               /\ meant'.fence = tmp'.fence /\ meant'.subs = tmp'.subs
    <3>1. meant # None /\ meant \in Tables /\ meant.fence = tmp.fence /\ meant.subs = tmp.subs
      BY <1>1, <2>1, <2>4 DEF Whole
    <3> QED BY <1>1, <2>1, <2>2, <3>1, ZenonT(40)
  <2> QED BY <1>1, <2>1, <2>3, <2>4, WholeWrite
<1> QED BY <1>2, <1>3, <1>4

LEMMA WholeSubscriptions ==
  ASSUME Whole, FInv, NEW h \in Handlers, Subscribe(h) \/ Unsubscribe(h)
  PROVE  Whole'
<1>1. tmp \in Tables /\ db \in Tables /\ meant \in Tables \cup {None} /\ session # "aborted"
  BY DEF FInv, StoreOK, Subscribe, Unsubscribe, Runs
<1>2. CASE ReadOnly \/ Broken
  BY <1>1, <1>2, WholeRead DEF ReadOnly, Broken, Snapshot
<1>3. CASE ~(ReadOnly \/ Broken)
  <2>1. PICK a, b : /\ tmp' = [tmp EXCEPT !.subs = (@ \cup a) \ b]
                    /\ db' = IF session = "idle" THEN [db EXCEPT !.subs = (@ \cup a) \ b] ELSE db
                    /\ meant' = IF meant = None THEN None ELSE [meant EXCEPT !.subs = (@ \cup a) \ b]
                    /\ Snapshot /\ changed' = changed
    <3>1. PICK s : s = <<at[h].fence, at[h].user>>
      OBVIOUS
    <3>2. \A t \in Tables : /\ [t EXCEPT !.subs = @ \cup {s}] = [t EXCEPT !.subs = (@ \cup {s}) \ {}]
                            /\ [t EXCEPT !.subs = @ \ {s}] = [t EXCEPT !.subs = (@ \cup {}) \ {s}]
      BY DEF Tables
    <3>3. CASE Subscribe(h)
      <4>1. /\ tmp' = [tmp EXCEPT !.subs = @ \cup {s}]
            /\ db' = IF session = "idle" THEN [db EXCEPT !.subs = @ \cup {s}] ELSE db
            /\ meant' = IF meant = None THEN None ELSE [meant EXCEPT !.subs = @ \cup {s}]
            /\ Snapshot /\ changed' = changed
        BY <1>3, <3>1, <3>3 DEF Subscribe, Write
      <4> QED BY <1>1, <3>2, <4>1
    <3>4. CASE Unsubscribe(h)
      <4>1. /\ tmp' = [tmp EXCEPT !.subs = @ \ {s}]
            /\ db' = IF session = "idle" THEN [db EXCEPT !.subs = @ \ {s}] ELSE db
            /\ meant' = IF meant = None THEN None ELSE [meant EXCEPT !.subs = @ \ {s}]
            /\ Snapshot /\ changed' = changed
        BY <1>3, <3>1, <3>4 DEF Unsubscribe, Write
      <4> QED BY <1>1, <3>2, <4>1
    <3> QED BY <3>3, <3>4
  <2>2. ASSUME NEW t \in Tables, NEW n, n = [t EXCEPT !.subs = (@ \cup a) \ b]
        PROVE  n.access = t.access /\ n.fence = t.fence /\ n.subs = (t.subs \cup a) \ b
    BY <2>2 DEF Tables
  <2>3. tmp'.access = tmp.access /\ db'.access = db.access
    BY <1>1, <2>1, <2>2
  <2>4. ASSUME meant' # None
        PROVE  /\ meant # None /\ meant'.access = meant.access
               /\ meant'.fence = tmp'.fence /\ meant'.subs = tmp'.subs
    <3>1. meant # None /\ meant \in Tables /\ meant.fence = tmp.fence /\ meant.subs = tmp.subs
      BY <1>1, <2>1, <2>4 DEF Whole
    <3> QED BY <1>1, <2>1, <2>2, <3>1
  <2> QED BY <1>1, <2>1, <2>3, <2>4, WholeWrite
<1> QED BY <1>2, <1>3

LEMMA WholeFriendships ==
  ASSUME Whole, FInv, NEW u \in Users, NEW f \in Users, Befriend(u, f) \/ Unfriend(u, f)
  PROVE  Whole'
<1>1. PICK a : SetFriends(u, f, a)
  BY DEF Befriend, Unfriend
<1>2. PICK ps : ps = {<<u, f>>, <<f, u>>}
  OBVIOUS
<1>3. /\ db' = [db EXCEPT !.access = [p \in Pairs |-> IF p \in ps THEN a ELSE @[p]]]
      /\ meant' = IF meant = None THEN None
                  ELSE [meant EXCEPT !.access = [p \in Pairs |-> IF p \in ps THEN a ELSE @[p]]]
      /\ IF session \in {"idle", "begun"}
         THEN tmp' = [tmp EXCEPT !.access = [p \in Pairs |-> IF p \in ps THEN a ELSE @[p]]]
         ELSE tmp' = tmp
      /\ ps \cap changed = {} /\ changed' = changed /\ session' = session
  BY <1>1, <1>2 DEF SetFriends
<1>4. ASSUME NEW t \in Tables, NEW n,
             n = [t EXCEPT !.access = [p \in Pairs |-> IF p \in ps THEN a ELSE @[p]]]
      PROVE  /\ n.fence = t.fence /\ n.subs = t.subs
             /\ \A p \in Pairs : n.access[p] = IF p \in ps THEN a ELSE t.access[p]
  BY <1>4 DEF Tables
<1>5. tmp \in Tables /\ db \in Tables /\ meant \in Tables \cup {None}
  BY DEF FInv, StoreOK
<1> SUFFICES ASSUME meant' # None PROVE Whole'
  BY DEF Whole
<1>6. /\ meant # None /\ meant'.fence = meant.fence /\ meant'.subs = meant.subs
      /\ \A p \in Pairs : meant'.access[p] = IF p \in ps THEN a ELSE meant.access[p]
  BY <1>3, <1>4, <1>5
<1>7. \A p \in Pairs : db'.access[p] = IF p \in ps THEN a ELSE db.access[p]
  BY <1>3, <1>4, <1>5
<1>8. /\ tmp'.fence = tmp.fence /\ tmp'.subs = tmp.subs
      /\ \A p \in Pairs \cap changed : tmp'.access[p] = tmp.access[p]
  BY <1>3, <1>4, <1>5
<1> QED BY <1>3, <1>6, <1>7, <1>8 DEF Whole

LEMMA WholeStep == Whole /\ SInv /\ FInv /\ [Next]_vars => Whole'
<1> SUFFICES ASSUME Whole, SInv, FInv, [Next]_vars PROVE Whole'
  OBVIOUS
<1>1. CASE UNCHANGED vars
  BY <1>1, WholeRead DEF vars
<1>2. ASSUME NEW h \in Handlers, Arrive(h) PROVE Whole'
  BY <1>2, ArriveKeeps, WholeRead DEF store
<1>3. ASSUME NEW h \in Handlers, Statement(h) PROVE Whole'
  <2>1. CASE Authenticate(h) \/ Followers(h) \/ OwnerFollowed(h)
    BY <2>1, WholeRead DEF Authenticate, Followers, OwnerFollowed, Runs, ReadOnly, Snapshot
  <2>2. CASE Refused(h) \/ Begin(h)
    BY <2>2, WholeRead DEF Refused, Begin, store
  <2>3. CASE Commit(h)
    <3>1. meant' = meant /\ (EndTx(db) \/ EndTx(Merged))
      BY <2>3 DEF Commit
    <3>2. session \in {"aborted", "idle"} \/ EndTx(Merged)
      BY <2>3 DEF Commit
    <3>3. session = "aborted" => meant = None
      BY DEF Whole
    <3> QED BY <3>1, <3>2, <3>3, WholeEnd
  <2>4. CASE CommitFails(h) \/ Rollback(h)
    BY <2>4, WholeEnd DEF CommitFails, Rollback
  <2>5. CASE Misfit(h)
    BY <2>5 DEF Misfit, Broken, Whole
  <2> QED BY <1>3, <2>1, <2>2, <2>3, <2>4, <2>5, WholeUpdate, WholeFences, WholeSubscriptions DEF Statement
<1>4. CASE Crash
  BY <1>4, WholeEnd DEF Crash
<1> QED BY <1>1, <1>2, <1>3, <1>4, WholeFriendships DEF Next

LEMMA InitWhole == Init => Whole
BY DEF Init, Whole

\* A quiet gateway is in no transaction, so that the session's tables are the committed ones.
LEMMA QuietIsKept == SInv /\ FInv /\ Whole => KeptUnlessFailed
<1> SUFFICES ASSUME SInv, FInv, Whole, \A h \in Handlers : at[h].step = "idle", meant # None
             PROVE  db = meant
  BY DEF KeptUnlessFailed
<1>1. session = "idle" /\ db = tmp
  BY DEF SInv, SessionOwned, FInv
<1>2. db \in Tables /\ meant \in Tables
  BY DEF FInv, StoreOK
<1>3. /\ db.fence = meant.fence /\ db.subs = meant.subs
      /\ \A p \in Pairs : meant.access[p] = db.access[p]
  BY <1>1 DEF Whole
<1>4. db.access = meant.access
  BY <1>2, <1>3 DEF Tables
<1> QED BY <1>2, <1>3, <1>4 DEF Tables

\* withSerializableTransaction on a shared connection: what was answered is kept, whoever's
\* transaction it was done in, unless a statement failed, a transaction was rolled back, or
\* the process died.
THEOREM AnswersKept == Spec => []KeptUnlessFailed
<1>1. Spec => []Whole
  BY InitWhole, WholeStep, AlwaysSInv, AlwaysFInv, PTL DEF Spec
<1> QED BY <1>1, QuietIsKept, AlwaysSInv, AlwaysFInv, PTL

===============================================================================
