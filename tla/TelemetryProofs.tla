---------------------------- MODULE TelemetryProofs ----------------------------
(***************************************************************************)
(* Proofs about Telemetry, for any users, workers and numbers of posts and *)
(* of changes of friendships, access types and states.                     *)
(***************************************************************************)
EXTENDS Telemetry, TLAPS

\* A worker without a post is blank; with one, it knows whose and which; on the
\* way from Postgres to Redis the location is in the history.
RequestOK(r) ==
    /\ r.step = "idle" => r = Blank
    /\ r.step # "idle" => r.user \in Users /\ r.loc \in 1..posts
    /\ r.step = "hset" => r.to \in Users /\ r.loc \in rows[r.user][r.to]

TInv ==
    /\ TypeOK
    /\ \A w \in Workers : RequestOK(process[w])
    /\ LastWasStored

LEMMA BlankType == Blank \in Request /\ Blank.step = "idle" /\ Blank.loc = 0
BY BoundsAreNat DEF Blank, Request, Steps, None, Access, States

LEMMA InitTInv == Init => TInv
<1> SUFFICES ASSUME Init PROVE TInv
  OBVIOUS
<1>1. access \in [Users -> [Users -> Access]]
  BY DEF Init, None, Access
<1>2. state \in [Users -> States] /\ changes \in 0..MaxChanges /\ posts \in 0..MaxPosts
  BY BoundsAreNat DEF Init, States
<1>3. rows \in [Users -> [Users -> SUBSET Locations]] /\ last \in [Users -> [Users -> 0..MaxPosts]]
  BY BoundsAreNat DEF Init
<1>4. process \in [Workers -> Request]
  BY BlankType DEF Init
<1>5. due \in [Workers -> Due] /\ torn \subseteq Users
  BY DEF Init, Due, Nothing
<1>6. \A w \in Workers : RequestOK(process[w])
  BY BlankType DEF Init, RequestOK
<1>7. LastWasStored
  BY DEF Init, LastWasStored
<1> QED BY <1>1, <1>2, <1>3, <1>4, <1>5, <1>6, <1>7 DEF TInv, TypeOK

LEMMA EntitledType ==
  ASSUME NEW acc, NEW st, NEW u PROVE Entitled(acc, st, u) \in Due
BY DEF Entitled, Due

\* What a worker's step does to the requests.
LEMMA GotoType ==
  ASSUME process \in [Workers -> Request], NEW w \in Workers, NEW r \in Request, Goto(w, r)
  PROVE  /\ process' \in [Workers -> Request]
         /\ process'[w] = r
         /\ \A x \in Workers \ {w} : process'[x] = process[x]
BY DEF Goto

\* A request with one step more, if it stays well formed, keeps the others so.
LEMMA GotoOK ==
  ASSUME TInv, NEW w \in Workers, NEW r \in Request, Goto(w, r),
         RequestOK(r)', posts' \in 0..MaxPosts, posts <= posts',
         \A u, v \in Users : rows[u][v] \subseteq rows'[u][v]
  PROVE  process' \in [Workers -> Request] /\ \A x \in Workers : RequestOK(process[x])'
<1>1. /\ process' \in [Workers -> Request]
      /\ process'[w] = r
      /\ \A x \in Workers \ {w} : process'[x] = process[x]
  BY GotoType DEF TInv, TypeOK
<1>2. posts \in Nat /\ posts' \in Nat
  BY BoundsAreNat DEF TInv, TypeOK
<1>3. ASSUME NEW x \in Workers PROVE RequestOK(process[x])'
  <2>1. CASE x = w
    BY <2>1, <1>1 DEF RequestOK
  <2>2. CASE x # w
    <3>1. process'[x] = process[x] /\ RequestOK(process[x]) /\ process[x] \in Request
      BY <2>2, <1>1 DEF TInv, TypeOK
    <3> QED BY <3>1, <1>2 DEF RequestOK
  <2> QED BY <2>1, <2>2
<1> QED BY <1>1, <1>3

LEMMA BecomeStep ==
  ASSUME TInv, NEW acc \in [Users -> [Users -> Access]], NEW st \in [Users -> States],
         Become(acc, st)
  PROVE  TInv'
<1>1. changes' \in 0..MaxChanges
  BY BoundsAreNat DEF TInv, TypeOK, Become
<1>2. due' \in [Workers -> Due]
  BY DEF TInv, TypeOK, Become, Due, Entitled
<1>3. TypeOK'
  BY <1>1, <1>2 DEF TInv, TypeOK, Become, store
<1>4. \A w \in Workers : RequestOK(process[w])'
  BY DEF TInv, RequestOK, Become, store
<1>5. LastWasStored'
  BY DEF TInv, LastWasStored, Become, store
<1> QED BY <1>3, <1>4, <1>5 DEF TInv

LEMMA WorldStep == ASSUME TInv, World PROVE TInv'
<1> USE DEF TInv, TypeOK
<1>1. ASSUME NEW u \in Users, NEW v \in Users, Befriend(u, v) PROVE TInv'
  <2>1. [access EXCEPT ![u][v] = "Permanent", ![v][u] = "Permanent"] \in [Users -> [Users -> Access]]
    BY DEF Access
  <2> QED BY <1>1, <2>1, BecomeStep DEF Befriend
<1>2. ASSUME NEW u \in Users, NEW v \in Users, Unfriend(u, v) PROVE TInv'
  <2>1. [access EXCEPT ![u][v] = "none", ![v][u] = "none"] \in [Users -> [Users -> Access]]
    BY DEF Access
  <2> QED BY <1>2, <2>1, BecomeStep DEF Unfriend
<1>3. ASSUME NEW u \in Users, NEW v \in Users, NEW a \in Access, ChangeAccess(u, v, a) PROVE TInv'
  <2>1. [access EXCEPT ![u][v] = a] \in [Users -> [Users -> Access]]
    OBVIOUS
  <2> QED BY <1>3, <2>1, BecomeStep DEF ChangeAccess
<1>4. ASSUME NEW u \in Users, ChangeState(u) PROVE TInv'
  <2>1. [state EXCEPT ![u] = IF @ = "Normal" THEN "Emergency" ELSE "Normal"] \in [Users -> States]
    BY DEF States
  <2> QED BY <1>4, <2>1, BecomeStep DEF ChangeState
<1> QED BY <1>1, <1>2, <1>3, <1>4 DEF World

\* A step that stores nothing and neither begins nor ends a request.
LEMMA QuietStep ==
  ASSUME TInv, NEW w \in Workers, process[w].step # "idle",
         NEW r \in Request, Goto(w, r),
         r.user = process[w].user, r.loc = process[w].loc, r.step \notin {"idle", "hset"},
         UNCHANGED <<tables, store, posts, history>>
  PROVE  TInv'
<1>1. RequestOK(process[w])
  BY DEF TInv
<1>2. RequestOK(r)'
  BY <1>1 DEF RequestOK, store
<1>3. process' \in [Workers -> Request] /\ \A x \in Workers : RequestOK(process[x])'
  BY <1>2, GotoOK, BoundsAreNat DEF TInv, TypeOK, store
<1>4. TypeOK'
  BY <1>3 DEF TInv, TypeOK, tables, store, history
<1>5. LastWasStored'
  BY DEF TInv, LastWasStored, store
<1> QED BY <1>3, <1>4, <1>5 DEF TInv

\* The end of a request.
LEMMA LeaveStep ==
  ASSUME TInv, NEW w \in Workers, Leave(w), torn' \subseteq Users,
         UNCHANGED <<tables, store, posts>>
  PROVE  TInv'
<1>1. RequestOK(Blank)'
  BY BlankType DEF RequestOK
<1>2. process' \in [Workers -> Request] /\ \A x \in Workers : RequestOK(process[x])'
  BY <1>1, BlankType, GotoOK, BoundsAreNat DEF Leave, TInv, TypeOK, store
<1>3. due' \in [Workers -> Due]
  BY DEF Leave, TInv, TypeOK, Due, Nothing
<1>4. TypeOK'
  BY <1>2, <1>3 DEF TInv, TypeOK, tables, store
<1>5. LastWasStored'
  BY DEF TInv, LastWasStored, store
<1> QED BY <1>2, <1>4, <1>5 DEF TInv

LEMMA TStep == ASSUME TInv, [Next]_vars PROVE TInv'
<1>0. process \in [Workers -> Request] /\ posts \in Nat /\ MaxPosts \in Nat
  BY BoundsAreNat DEF TInv, TypeOK
<1>1. CASE UNCHANGED vars
  BY <1>1 DEF vars, tables, store, history, TInv, TypeOK, RequestOK, LastWasStored
<1>2. CASE World
  BY <1>2, WorldStep
<1>3. ASSUME NEW w \in Workers, NEW u \in Users, NEW named \in SUBSET Users, Post(w, u, named)
      PROVE  TInv'
  <2> DEFINE s == IF named = {} THEN "followers" ELSE "insert"
  <2>0. PICK r : r = [Blank EXCEPT !.user = u, !.named = named, !.todo = named, !.loc = posts + 1,
                                   !.step = s]
    OBVIOUS
  <2>1. posts' = posts + 1 /\ posts' \in 0..MaxPosts /\ posts + 1 \in 0..MaxPosts
    BY <1>0, <1>3 DEF Post
  <2>2. r \in Request /\ r.user = u /\ r.loc = posts + 1 /\ r.step = s
    BY <2>0, <2>1, BlankType DEF Request, Steps
  <2>3. Goto(w, r)
    BY <1>3, <2>0, BlankType DEF Post, Stored, Request, Goto, Blank
  <2>4. RequestOK(r)'
    BY <1>0, <2>1, <2>2 DEF RequestOK
  <2>5. process' \in [Workers -> Request] /\ \A x \in Workers : RequestOK(process[x])'
    BY <1>0, <1>3, <2>1, <2>2, <2>3, <2>4, GotoOK DEF Post, store
  <2>6. due' \in [Workers -> Due] /\ torn' \subseteq Users
    BY <1>3, EntitledType DEF Post, TInv, TypeOK
  <2>7. TypeOK'
    BY <1>3, <2>1, <2>5, <2>6 DEF Post, TInv, TypeOK, tables, store
  <2>8. LastWasStored'
    BY <1>3 DEF Post, TInv, LastWasStored, store
  <2> QED BY <2>5, <2>7, <2>8 DEF TInv
<1>4. ASSUME NEW w \in Workers, Insert(w) PROVE TInv'
  <2> DEFINE p == process[w]
  <2>1. PICK v \in p.todo : /\ rows' = [rows EXCEPT ![p.user][v] = @ \cup {p.loc}]
                            /\ Goto(w, [p EXCEPT !.step = "hset", !.to = v, !.todo = @ \ {v}])
    BY <1>4 DEF Insert
  <2>0. PICK r : r = [p EXCEPT !.step = "hset", !.to = v, !.todo = @ \ {v}]
    OBVIOUS
  <2>2. p \in Request /\ p.user \in Users /\ p.loc \in 1..posts /\ v \in Users /\ p.loc \in Locations
    BY <1>0, <1>4, <2>1 DEF Insert, At, TInv, TypeOK, RequestOK, Request, Locations
  <2>3. r \in Request /\ r.user = p.user /\ r.loc = p.loc /\ r.step = "hset" /\ r.to = v
    BY <2>0, <2>2 DEF Request, Steps
  <2>4. Goto(w, r)
    BY <2>0, <2>1
  <2>5. rows' \in [Users -> [Users -> SUBSET Locations]] /\ p.loc \in rows'[p.user][v]
        /\ \A a, b \in Users : rows[a][b] \subseteq rows'[a][b]
    BY <2>1, <2>2 DEF TInv, TypeOK
  <2>6. RequestOK(r)'
    BY <1>4, <2>2, <2>3, <2>5 DEF RequestOK, Insert
  <2>7. process' \in [Workers -> Request] /\ \A x \in Workers : RequestOK(process[x])'
    <3>1. posts' \in 0..MaxPosts /\ posts <= posts'
      BY <1>0, <1>4 DEF Insert, TInv, TypeOK
    <3> QED BY <2>3, <2>4, <2>5, <2>6, <3>1, GotoOK
  <2>8. TypeOK'
    BY <1>4, <2>5, <2>7 DEF Insert, TInv, TypeOK, tables, history
  <2>9. LastWasStored'
    BY <1>4, <2>5 DEF Insert, TInv, LastWasStored
  <2> QED BY <2>7, <2>8, <2>9 DEF TInv
<1>5. ASSUME NEW w \in Workers, Hset(w) PROVE TInv'
  <2> DEFINE p == process[w]
  <2>0. PICK r : r = [p EXCEPT !.step = Stored(p), !.to = NoUser]
    OBVIOUS
  <2>1. /\ p \in Request /\ p.user \in Users /\ p.to \in Users
        /\ p.loc \in 1..posts /\ p.loc \in rows[p.user][p.to] /\ p.loc \in 0..MaxPosts
    BY <1>0, <1>5 DEF Hset, At, TInv, TypeOK, RequestOK, Request
  <2>2. r \in Request /\ r.user = p.user /\ r.loc = p.loc /\ r.step \in {"followers", "insert"}
    BY <2>0, <2>1 DEF Request, Steps, Stored
  <2>3. Goto(w, r) /\ last' = [last EXCEPT ![p.user][p.to] = p.loc]
    BY <1>5, <2>0 DEF Hset
  <2>4. RequestOK(r)'
    BY <1>5, <2>1, <2>2 DEF RequestOK, Hset
  <2>5. process' \in [Workers -> Request] /\ \A x \in Workers : RequestOK(process[x])'
    <3>1. posts' \in 0..MaxPosts /\ posts <= posts' /\ rows' = rows
      BY <1>0, <1>5 DEF Hset, TInv, TypeOK
    <3> QED BY <2>2, <2>3, <2>4, <3>1, GotoOK
  <2>6. TypeOK'
    BY <1>5, <2>1, <2>3, <2>5 DEF Hset, TInv, TypeOK, tables, history
  <2>7. LastWasStored'
    BY <1>5, <2>1, <2>3 DEF Hset, TInv, TypeOK, LastWasStored
  <2> QED BY <2>5, <2>6, <2>7 DEF TInv
<1>6. ASSUME NEW w \in Workers, Followers(w) PROVE TInv'
  <2>1. process[w] \in Request /\ process[w].user \in Users
    BY <1>0, <1>6 DEF Followers, At, TInv, RequestOK
  <2>2. [process[w] EXCEPT !.step = "following", !.friends = access[process[w].user]] \in Request
    BY <2>1 DEF Request, Steps, TInv, TypeOK
  <2> QED BY <1>6, <2>1, <2>2, QuietStep DEF Followers, At, Request
<1>7. ASSUME NEW w \in Workers, Following(w) PROVE TInv'
  <2> DEFINE visible == {v \in Users : Sees(access, state, process[w].user, v)}
             s == IF visible = {} THEN "state" ELSE "look"
             r == [process[w] EXCEPT !.todo = visible, !.step = s]
  <2>1. process[w] \in Request
    BY <1>0
  <2>2. r \in Request /\ r.user = process[w].user /\ r.loc = process[w].loc /\ r.step = s
    BY <2>1 DEF Request, Steps
  <2>3. Goto(w, r)
    BY <1>7 DEF Following
  <2> HIDE DEF r
  <2> QED BY <1>7, <2>2, <2>3, QuietStep DEF Following, At
<1>8. ASSUME NEW w \in Workers, Look(w) PROVE TInv'
  <2> DEFINE p == process[w]
  <2>1. PICK v \in p.todo : \E l \in {0, last[v][p.user]} :
            Goto(w, [p EXCEPT !.views[v] = l, !.todo = p.todo \ {v},
                              !.step = IF p.todo = {v} THEN "state" ELSE "look"])
    BY <1>8 DEF Look
  <2>2. PICK l \in {0, last[v][p.user]} :
            Goto(w, [p EXCEPT !.views[v] = l, !.todo = p.todo \ {v},
                              !.step = IF p.todo = {v} THEN "state" ELSE "look"])
    BY <2>1
  <2> DEFINE s == IF p.todo = {v} THEN "state" ELSE "look"
             r == [p EXCEPT !.views[v] = l, !.todo = p.todo \ {v}, !.step = s]
  <2>3. p \in Request /\ p.user \in Users /\ v \in Users
    BY <1>0, <1>8, <2>1 DEF Look, At, TInv, RequestOK, Request
  <2>4. l \in 0..MaxPosts
    BY <1>0, <2>2, <2>3 DEF TInv, TypeOK
  <2>5. r \in Request /\ r.user = p.user /\ r.loc = p.loc /\ r.step = s
    BY <2>3, <2>4 DEF Request, Steps
  <2>6. Goto(w, r)
    BY <2>2
  <2> HIDE DEF r
  <2> QED BY <1>8, <2>5, <2>6, QuietStep DEF Look, At
<1>9. ASSUME NEW w \in Workers, ReadState(w) PROVE TInv'
  <2>1. process[w] \in Request /\ process[w].user \in Users
    BY <1>0, <1>9 DEF ReadState, At, TInv, RequestOK
  <2>2. [process[w] EXCEPT !.step = "push", !.mode = state[process[w].user]] \in Request
    BY <2>1 DEF Request, Steps, TInv, TypeOK
  <2> QED BY <1>9, <2>1, <2>2, QuietStep DEF ReadState, At, Request
<1>10. ASSUME NEW w \in Workers, Push(w) PROVE TInv'
  <2> DEFINE p == process[w]
  <2>1. PICK s \in SUBSET p.named : Goto(w, [p EXCEPT !.step = "reply", !.sent = s])
    BY <1>10 DEF Push
  <2>2. p \in Request
    BY <1>0
  <2>3. [p EXCEPT !.step = "reply", !.sent = s] \in Request
    BY <2>1, <2>2 DEF Request, Steps
  <2> QED BY <1>10, <2>1, <2>2, <2>3, QuietStep DEF Push, At, Request
<1>11. ASSUME NEW w \in Workers, Reply(w) PROVE TInv'
  BY <1>11, LeaveStep DEF Reply, TInv, TypeOK
<1>12. ASSUME NEW w \in Workers, Fail(w) PROVE TInv'
  <2>1. torn' \subseteq Users
    BY <1>12 DEF Fail, At, TInv, TypeOK, RequestOK
  <2> QED BY <1>12, <2>1, LeaveStep DEF Fail
<1> QED
  BY <1>1, <1>2, <1>3, <1>4, <1>5, <1>6, <1>7, <1>8, <1>9, <1>10, <1>11, <1>12 DEF Next, Serve

LEMMA AlwaysTInv == Spec => []TInv
<1>1. Init => TInv
  BY InitTInv
<1>2. TInv /\ [Next]_vars => TInv'
  BY TStep
<1> QED BY <1>1, <1>2, PTL DEF Spec

\* Every reachable state is well formed.
THEOREM TypeCorrect == Spec => []TypeOK
<1>1. TInv => TypeOK
  BY DEF TInv
<1> QED BY <1>1, AlwaysTInv, PTL

\* store_telemetry: what Redis shows a friend is in the history Postgres keeps.
THEOREM StoresAgree == Spec => []LastWasStored
<1>1. TInv => LastWasStored
  BY DEF TInv
<1> QED BY <1>1, AlwaysTInv, PTL

-------------------------------------------------------------------------------
\* Who is shown what.  What is true of the tables now, what the post read of
\* them and what it has sent and shown, is all among what was true since it arrived.
Covers(d, e) == e.met \subseteq d.met /\ e.open \subseteq d.open /\ e.sees \subseteq d.sees
Read(r, d) ==
    /\ \A v \in Users : r.friends[v] # "none" => v \in d.met
    /\ \A v \in Users : r.friends[v] = "Permanent" => v \in d.open
    /\ r.mode = "Emergency" => Users \subseteq d.open
    /\ r.step = "look" => r.todo \subseteq d.sees
    /\ \A v \in Users : r.views[v] # 0 => v \in d.sees
    /\ r.sent \subseteq d.met \cap d.open
SharesOK(w) ==
    /\ Posting(w) => Covers(due[w], Entitled(access, state, process[w].user))
    /\ Read(process[w], due[w])

SInv == \A w \in Workers : SharesOK(w)

LEMMA InitSInv == Init => SInv
BY DEF Init, SInv, SharesOK, Posting, Read, Blank, None, Nothing

LEMMA ReadMore ==
  ASSUME NEW r, NEW d, NEW e, Read(r, d), Covers(e, d) PROVE Read(r, e)
BY DEF Read, Covers

LEMMA BecomeShares ==
  ASSUME TInv, SInv, NEW acc, NEW st, Become(acc, st)
  PROVE  SInv'
<1> SUFFICES ASSUME NEW w \in Workers PROVE SharesOK(w)'
  BY DEF SInv
<1>1. process' = process /\ access' = acc /\ state' = st
  BY DEF Become
<1>2. CASE Posting(w)
  <2> DEFINE e == Entitled(acc, st, process[w].user)
  <2>1. due'[w] = [met |-> due[w].met \cup e.met, open |-> due[w].open \cup e.open,
                   sees |-> due[w].sees \cup e.sees]
    BY <1>2 DEF Become
  <2> HIDE DEF e
  <2>2. Covers(due'[w], due[w]) /\ Covers(due'[w], e)
    BY <2>1 DEF Covers
  <2>3. Read(process[w], due'[w])
    BY <2>2, ReadMore DEF SInv, SharesOK
  <2> QED BY <1>1, <2>2, <2>3 DEF SharesOK, e
<1>3. CASE ~Posting(w)
  <2>1. due'[w] = due[w]
    BY <1>3 DEF Become
  <2> QED BY <1>1, <1>3, <2>1 DEF SInv, SharesOK, Posting
<1> QED BY <1>2, <1>3

LEMMA WorldShares == ASSUME TInv, SInv, World PROVE SInv'
BY BecomeShares DEF World, Befriend, Unfriend, ChangeAccess, ChangeState

\* A step of w that leaves the tables alone: it is enough to look at its request.
LEMMA OwnShares ==
  ASSUME TInv, SInv, NEW w \in Workers, NEW r \in Request, Goto(w, r),
         UNCHANGED <<tables, due>>, Posting(w), r.user = process[w].user, Read(r, due[w])
  PROVE  SInv'
<1>1. /\ process'[w] = r
      /\ \A x \in Workers \ {w} : process'[x] = process[x]
  BY GotoType DEF TInv, TypeOK
<1> SUFFICES ASSUME NEW x \in Workers PROVE SharesOK(x)'
  BY DEF SInv
<1>2. CASE x = w
  BY <1>1, <1>2 DEF SInv, SharesOK, Posting, tables
<1>3. CASE x # w
  BY <1>1, <1>3 DEF SInv, SharesOK, Posting, tables
<1> QED BY <1>2, <1>3

LEMMA LeaveShares ==
  ASSUME TInv, SInv, NEW w \in Workers, Leave(w), UNCHANGED tables
  PROVE  SInv'
<1>1. /\ process'[w] = Blank /\ due'[w] = Nothing
      /\ \A x \in Workers \ {w} : process'[x] = process[x] /\ due'[x] = due[x]
  BY DEF Leave, Goto, TInv, TypeOK
<1> SUFFICES ASSUME NEW x \in Workers PROVE SharesOK(x)'
  BY DEF SInv
<1>2. CASE x = w
  BY <1>1, <1>2 DEF SharesOK, Posting, Read, Blank, None
<1>3. CASE x # w
  BY <1>1, <1>3 DEF SInv, SharesOK, Posting, tables
<1> QED BY <1>2, <1>3

LEMMA SStep == ASSUME TInv, SInv, [Next]_vars PROVE SInv'
<1>0. process \in [Workers -> Request] /\ due \in [Workers -> Due]
  BY DEF TInv, TypeOK
<1>a. ASSUME NEW w \in Workers, process[w].step # "idle"
      PROVE  /\ Posting(w) /\ process[w] \in Request /\ process[w].user \in Users
             /\ Covers(due[w], Entitled(access, state, process[w].user))
             /\ Read(process[w], due[w])
  BY <1>a, <1>0, BoundsAreNat DEF TInv, TypeOK, RequestOK, Posting, SInv, SharesOK
<1>1. CASE UNCHANGED vars
  BY <1>1 DEF vars, tables, history, SInv, SharesOK, Posting
<1>2. CASE World
  BY <1>2, WorldShares
<1>3. ASSUME NEW w \in Workers, NEW u \in Users, NEW named \in SUBSET Users, Post(w, u, named)
      PROVE  SInv'
  <2> DEFINE s == IF named = {} THEN "followers" ELSE "insert"
  <2>0. PICK r : r = [Blank EXCEPT !.user = u, !.named = named, !.todo = named, !.loc = posts + 1,
                                   !.step = s]
    OBVIOUS
  <2>1. /\ r.user = u /\ r.friends = None /\ r.mode = "Normal" /\ r.step # "look"
        /\ r.views = [v \in Users |-> 0] /\ r.sent = {}
    BY <2>0 DEF Blank
  <2>2. Goto(w, r)
    BY <1>3, <2>0 DEF Post, Stored, Goto, Blank
  <2>3. /\ process'[w] = r /\ due'[w] = Entitled(access, state, u)
        /\ \A x \in Workers \ {w} : process'[x] = process[x] /\ due'[x] = due[x]
    BY <1>0, <1>3, <2>2 DEF Post, Goto
  <2>4. SharesOK(w)'
    BY <1>3, <2>1, <2>3 DEF Post, SharesOK, Posting, Covers, Read, None, tables
  <2>5. \A x \in Workers \ {w} : SharesOK(x)'
    BY <1>3, <2>3 DEF Post, SInv, SharesOK, Posting, tables
  <2> QED BY <2>4, <2>5 DEF SInv
<1>4. ASSUME NEW w \in Workers, Insert(w) PROVE SInv'
  <2>1. PICK v \in process[w].todo :
            Goto(w, [process[w] EXCEPT !.step = "hset", !.to = v, !.todo = @ \ {v}])
    BY <1>4 DEF Insert
  <2>2. PICK r : r = [process[w] EXCEPT !.step = "hset", !.to = v, !.todo = @ \ {v}]
    OBVIOUS
  <2>3. Posting(w) /\ process[w] \in Request /\ Read(process[w], due[w])
    BY <1>4, <1>a DEF Insert, At
  <2>4. r \in Request /\ r.user = process[w].user /\ Read(r, due[w])
    BY <2>1, <2>2, <2>3 DEF Request, Steps, Read
  <2> QED BY <1>4, <2>1, <2>2, <2>3, <2>4, OwnShares DEF Insert, history
<1>5. ASSUME NEW w \in Workers, Hset(w) PROVE SInv'
  <2>1. PICK r : r = [process[w] EXCEPT !.step = Stored(process[w]), !.to = NoUser]
    OBVIOUS
  <2>2. Posting(w) /\ process[w] \in Request /\ Read(process[w], due[w])
    BY <1>5, <1>a DEF Hset, At
  <2>3. r \in Request /\ r.user = process[w].user /\ Read(r, due[w])
    BY <2>1, <2>2 DEF Request, Steps, Read, Stored
  <2> QED BY <1>5, <2>1, <2>2, <2>3, OwnShares DEF Hset, history
<1>6. ASSUME NEW w \in Workers, Followers(w) PROVE SInv'
  <2> DEFINE u == process[w].user
  <2>1. PICK r : r = [process[w] EXCEPT !.step = "following", !.friends = access[u]]
    OBVIOUS
  <2>2. /\ Posting(w) /\ process[w] \in Request /\ Read(process[w], due[w]) /\ u \in Users
        /\ Covers(due[w], Entitled(access, state, u))
    BY <1>6, <1>a DEF Followers, At
  <2>3. r \in Request /\ r.user = u
    BY <2>1, <2>2 DEF Request, Steps, TInv, TypeOK
  <2>4. Read(r, due[w])
    <3>1. /\ r.friends = access[u] /\ r.mode = process[w].mode /\ r.step # "look"
          /\ r.views = process[w].views /\ r.sent = process[w].sent
      BY <2>1, <2>2 DEF Request
    <3>2. /\ \A v \in Users : access[u][v] # "none" => v \in due[w].met
          /\ \A v \in Users : access[u][v] = "Permanent" => v \in due[w].open
      BY <2>2 DEF Covers, Entitled
    <3> QED BY <2>2, <3>1, <3>2 DEF Read
  <2> QED BY <1>6, <2>1, <2>2, <2>3, <2>4, OwnShares DEF Followers, history
<1>7. ASSUME NEW w \in Workers, Following(w) PROVE SInv'
  <2> DEFINE u == process[w].user
             visible == {v \in Users : Sees(access, state, u, v)}
             s == IF visible = {} THEN "state" ELSE "look"
  <2>1. PICK r : r = [process[w] EXCEPT !.todo = visible, !.step = s]
    OBVIOUS
  <2>2. /\ Posting(w) /\ process[w] \in Request /\ Read(process[w], due[w])
        /\ Covers(due[w], Entitled(access, state, u))
    BY <1>7, <1>a DEF Following, At
  <2>3. visible \subseteq due[w].sees
    BY <2>2 DEF Covers, Entitled
  <2>4. r \in Request /\ r.user = u /\ Read(r, due[w])
    BY <2>1, <2>2, <2>3 DEF Request, Steps, Read
  <2>5. Goto(w, r)
    BY <1>7, <2>1 DEF Following
  <2> QED BY <1>7, <2>2, <2>4, <2>5, OwnShares DEF Following, history
<1>8. ASSUME NEW w \in Workers, Look(w) PROVE SInv'
  <2> DEFINE p == process[w]
  <2>0. PICK v \in p.todo : \E l \in {0, last[v][p.user]} :
            Goto(w, [p EXCEPT !.views[v] = l, !.todo = p.todo \ {v},
                              !.step = IF p.todo = {v} THEN "state" ELSE "look"])
    BY <1>8 DEF Look
  <2>1. PICK l \in {0, last[v][p.user]} :
            Goto(w, [p EXCEPT !.views[v] = l, !.todo = p.todo \ {v},
                              !.step = IF p.todo = {v} THEN "state" ELSE "look"])
    BY <2>0
  <2>2. PICK r : r = [p EXCEPT !.views[v] = l, !.todo = p.todo \ {v},
                               !.step = IF p.todo = {v} THEN "state" ELSE "look"]
    OBVIOUS
  <2>3. Posting(w) /\ p \in Request /\ Read(p, due[w]) /\ p.user \in Users /\ p.step = "look"
    BY <1>8, <1>a DEF Look, At
  <2>4. v \in Users /\ v \in due[w].sees /\ l \in 0..MaxPosts
    BY <2>1, <2>3, BoundsAreNat DEF Read, Request, TInv, TypeOK
  <2>5. r \in Request /\ r.user = p.user
    BY <2>2, <2>3, <2>4 DEF Request, Steps
  <2>6. Read(r, due[w])
    <3>1. /\ r.friends = p.friends /\ r.mode = p.mode /\ r.sent = p.sent
          /\ r.todo \subseteq p.todo /\ r.views = [p.views EXCEPT ![v] = l]
      BY <2>2, <2>3 DEF Request
    <3>2. p.views \in [Users -> 0..MaxPosts]
      BY <2>3 DEF Request
    <3>3. \A x \in Users : r.views[x] # 0 => x \in due[w].sees
      BY <2>3, <2>4, <3>1, <3>2 DEF Read
    <3> QED BY <2>3, <3>1, <3>3 DEF Read
  <2> QED BY <1>8, <2>1, <2>2, <2>3, <2>5, <2>6, OwnShares DEF Look, history
<1>9. ASSUME NEW w \in Workers, ReadState(w) PROVE SInv'
  <2> DEFINE u == process[w].user
  <2>1. PICK r : r = [process[w] EXCEPT !.step = "push", !.mode = state[u]]
    OBVIOUS
  <2>2. /\ Posting(w) /\ process[w] \in Request /\ Read(process[w], due[w]) /\ u \in Users
        /\ Covers(due[w], Entitled(access, state, u))
    BY <1>9, <1>a DEF ReadState, At
  <2>3. r \in Request /\ r.user = u
    BY <2>1, <2>2 DEF Request, Steps, TInv, TypeOK
  <2>4. state[u] = "Emergency" => Users \subseteq due[w].open
    BY <2>2 DEF Covers, Entitled
  <2>5. Read(r, due[w])
    BY <2>1, <2>2, <2>4 DEF Request, Read
  <2> QED BY <1>9, <2>1, <2>2, <2>3, <2>5, OwnShares DEF ReadState, history
<1>10. ASSUME NEW w \in Workers, Push(w) PROVE SInv'
  <2> DEFINE p == process[w]
             addressed == {v \in p.named : /\ p.friends[v] # "none"
                                           /\ p.friends[v] = "Permanent" \/ p.mode = "Emergency"}
  <2>1. PICK s \in SUBSET addressed : Goto(w, [p EXCEPT !.step = "reply", !.sent = s])
    BY <1>10 DEF Push
  <2>2. PICK r : r = [p EXCEPT !.step = "reply", !.sent = s]
    OBVIOUS
  <2>3. Posting(w) /\ p \in Request /\ Read(p, due[w])
    BY <1>10, <1>a DEF Push, At
  <2>4. p.named \subseteq Users
    BY <2>3 DEF Request
  <2>5. addressed \subseteq due[w].met \cap due[w].open
    BY <2>3, <2>4 DEF Read
  <2>6. r \in Request /\ r.user = p.user
    BY <2>1, <2>2, <2>3, <2>4 DEF Request, Steps
  <2>7. Read(r, due[w])
    BY <2>1, <2>2, <2>3, <2>5 DEF Request, Read
  <2> QED BY <1>10, <2>1, <2>2, <2>3, <2>6, <2>7, OwnShares DEF Push, history
<1>11. ASSUME NEW w \in Workers, Reply(w) \/ Fail(w) PROVE SInv'
  BY <1>11, LeaveShares DEF Reply, Fail
<1> QED
  BY <1>1, <1>2, <1>3, <1>4, <1>5, <1>6, <1>7, <1>8, <1>9, <1>10, <1>11 DEF Next, Serve

LEMMA AlwaysSInv == Spec => []SInv
<1>1. Init => SInv
  BY InitSInv
<1>2. TInv /\ SInv /\ [Next]_vars => SInv'
  BY SStep
<1> QED BY <1>1, <1>2, AlwaysTInv, PTL DEF Spec

\* post_telemetry: a location is pushed to nobody who was not a friend, and allowed to
\* see it, at some time while the post was served.
THEOREM OnlyFriendsGetPushes == Spec => []PushedToFriends
<1>1. SInv => PushedToFriends
  BY DEF SInv, SharesOK, Read, PushedToFriends
<1> QED BY <1>1, AlwaysSInv, PTL

\* getFollowingLastLocation: no location is answered that the user was not allowed
\* to see at some time while the post was served.
THEOREM OnlyFriendsAreShown == Spec => []ShownByFriends
<1>1. SInv => ShownByFriends
  BY DEF SInv, SharesOK, Read, ShownByFriends
<1> QED BY <1>1, AlwaysSInv, PTL

-------------------------------------------------------------------------------
\* Which location is last.  While the posts of a user do not overlap there is one
\* post of his at most, and it is ahead of all that is stored.
PostOf(w, u) == Posting(w) /\ process[w].user = u
Storing(w, u, v) == At(w, "hset") /\ process[w].user = u /\ process[w].to = v
OneByOne(u) ==
    /\ \A w, x \in Workers : PostOf(w, u) /\ PostOf(x, u) => w = x
    /\ \A w \in Workers : PostOf(w, u) =>
           \A v \in Users : \A l \in rows[u][v] : l <= process[w].loc
    /\ \A v \in Users : (\A w \in Workers : ~Storing(w, u, v)) =>
           \A l \in rows[u][v] : l <= last[u][v]

NInv ==
    /\ \A u, v \in Users : rows[u][v] \subseteq 1..posts
    /\ \A u \in Users \ torn : OneByOne(u)

LEMMA InitNInv == Init => NInv
BY DEF Init, NInv, OneByOne, PostOf, Posting, Storing, At, Blank

\* A step of w outside the stores, that keeps its post or ends it.
LEMMA OutsideStores ==
  ASSUME NInv, NEW w \in Workers, ~At(w, "hset"), ~At(w, "hset")',
         \A x \in Workers \ {w} : process'[x] = process[x],
         UNCHANGED <<store, posts>>, torn \subseteq torn',
         Posting(w)' => /\ Posting(w)
                        /\ process'[w].user = process[w].user
                        /\ process'[w].loc = process[w].loc
  PROVE  NInv'
<1>1. ASSUME NEW u \in Users \ torn' PROVE OneByOne(u)'
  <2>1. OneByOne(u)
    BY DEF NInv
  <2>2. \A x \in Workers : PostOf(x, u)' => PostOf(x, u) /\ process'[x].loc = process[x].loc
    BY DEF PostOf, Posting
  <2>3. \A x \in Workers, v \in Users : Storing(x, u, v) => Storing(x, u, v)'
    BY DEF Storing, At
  <2> QED BY <2>1, <2>2, <2>3 DEF OneByOne, store
<1> QED BY <1>1 DEF NInv, store

LEMMA NStep == ASSUME TInv, NInv, [Next]_vars PROVE NInv'
<1>0. process \in [Workers -> Request] /\ posts \in Nat
  BY BoundsAreNat DEF TInv, TypeOK
<1>a. ASSUME NEW w \in Workers, process[w].step # "idle"
      PROVE  /\ Posting(w) /\ process[w] \in Request
             /\ process[w].user \in Users /\ process[w].loc \in 1..posts
  BY <1>a, <1>0 DEF TInv, RequestOK, Posting
<1>1. CASE UNCHANGED vars
  BY <1>1 DEF vars, store, history, NInv, OneByOne, PostOf, Posting, Storing, At
<1>2. CASE World
  <2>1. UNCHANGED <<store, process, posts, torn>>
    BY <1>2, ZenonT(40) DEF World, Befriend, Unfriend, ChangeAccess, ChangeState, Become
  <2> QED BY <2>1 DEF store, NInv, OneByOne, PostOf, Posting, Storing, At
<1>3. ASSUME NEW w \in Workers, NEW u \in Users, NEW named \in SUBSET Users, Post(w, u, named)
      PROVE  NInv'
  <2>1. /\ process'[w].user = u /\ process'[w].loc = posts + 1 /\ process'[w].step # "hset"
        /\ \A x \in Workers \ {w} : process'[x] = process[x]
        /\ posts' = posts + 1 /\ rows' = rows /\ last' = last /\ torn \subseteq torn'
    BY <1>0, <1>3 DEF Post, Goto, Stored, Blank, store
  <2>2. ~Posting(w) /\ ~At(w, "hset")
    BY <1>3 DEF Post, At, Posting, TInv, RequestOK, Blank
  <2>3. ASSUME NEW a \in Users \ torn' PROVE OneByOne(a)'
    <3>1. OneByOne(a) /\ rows'[a] = rows[a] /\ last'[a] = last[a]
      BY <2>1 DEF NInv
    <3>2. \A x \in Workers, v \in Users : Storing(x, a, v) => Storing(x, a, v)'
      BY <2>1, <2>2 DEF Storing, At
    <3>3. CASE a # u
      <4>1. \A x \in Workers : PostOf(x, a)' => PostOf(x, a) /\ process'[x] = process[x]
        BY <2>1, <3>3 DEF PostOf, Posting
      <4> QED BY <3>1, <3>2, <4>1 DEF OneByOne
    <3>4. CASE a = u
      <4>1. \A x \in Workers : PostOf(x, a)' => x = w
        BY <1>3, <2>1, <3>4 DEF Post, PostOf, Posting
      <4>2. \A v \in Users : \A l \in rows'[a][v] : l <= process'[w].loc
        BY <1>0, <2>1 DEF NInv
      <4> QED BY <3>1, <3>2, <4>1, <4>2 DEF OneByOne
    <3> QED BY <3>3, <3>4
  <2>4. \A a, v \in Users : rows'[a][v] \subseteq 1..posts'
    BY <1>0, <2>1 DEF NInv
  <2> QED BY <2>3, <2>4 DEF NInv
<1>4. ASSUME NEW w \in Workers, Insert(w) PROVE NInv'
  <2> DEFINE p == process[w]
  <2>1. PICK v \in p.todo : /\ rows' = [rows EXCEPT ![p.user][v] = @ \cup {p.loc}]
                            /\ Goto(w, [p EXCEPT !.step = "hset", !.to = v, !.todo = @ \ {v}])
    BY <1>4 DEF Insert
  <2>2. Posting(w) /\ p \in Request /\ p.user \in Users /\ p.loc \in 1..posts /\ v \in Users
    BY <1>4, <1>a, <2>1 DEF Insert, At, Request
  <2>3. /\ process'[w].user = p.user /\ process'[w].loc = p.loc
        /\ process'[w].step = "hset" /\ process'[w].to = v
        /\ \A x \in Workers \ {w} : process'[x] = process[x]
    BY <1>0, <2>1, <2>2 DEF Goto, Request
  <2>4. last' = last /\ posts' = posts /\ torn' = torn /\ ~At(w, "hset")
    BY <1>4 DEF Insert, history, At
  <2>5. \A x \in Workers, a \in Users :
           PostOf(x, a)' => PostOf(x, a) /\ process'[x].loc = process[x].loc
    BY <2>2, <2>3 DEF PostOf, Posting
  <2>6. \A x \in Workers, a, b \in Users : Storing(x, a, b) => Storing(x, a, b)'
    BY <2>3, <2>4 DEF Storing, At
  <2>7. /\ \A a, b \in Users : a # p.user \/ b # v => rows'[a][b] = rows[a][b]
        /\ rows'[p.user][v] = rows[p.user][v] \cup {p.loc}
    BY <2>1, <2>2 DEF TInv, TypeOK
  <2>8. ASSUME NEW a \in Users \ torn' PROVE OneByOne(a)'
    <3>1. OneByOne(a)
      BY <2>4 DEF NInv
    <3>2. CASE a # p.user
      BY <2>4, <2>5, <2>6, <2>7, <3>1, <3>2 DEF OneByOne
    <3>3. CASE a = p.user
      <4>1. PostOf(w, a) /\ \A x \in Workers : PostOf(x, a)' => x = w
        BY <2>2, <2>5, <3>1, <3>3 DEF OneByOne, PostOf
      <4>2. \A b \in Users : \A l \in rows'[a][b] : l <= process'[w].loc
        BY <1>0, <2>2, <2>3, <2>7, <3>1, <3>3, <4>1 DEF OneByOne
      <4>3. Storing(w, a, v)'
        BY <2>3, <3>3 DEF Storing, At
      <4>4. \A b \in Users \ {v} : (\A x \in Workers : ~Storing(x, a, b)') =>
               \A l \in rows'[a][b] : l <= last'[a][b]
        BY <2>4, <2>6, <2>7, <3>1 DEF OneByOne
      <4> QED BY <4>1, <4>2, <4>3, <4>4 DEF OneByOne
    <3> QED BY <3>2, <3>3
  <2>9. \A a, b \in Users : rows'[a][b] \subseteq 1..posts'
    BY <2>2, <2>4, <2>7 DEF NInv
  <2> QED BY <2>8, <2>9 DEF NInv
<1>5. ASSUME NEW w \in Workers, Hset(w) PROVE NInv'
  <2> DEFINE p == process[w]
  <2>1. Posting(w) /\ p \in Request /\ p.user \in Users /\ p.to \in Users /\ p.loc \in 1..posts
    BY <1>5, <1>a DEF Hset, At, TInv, RequestOK
  <2>2. /\ last' = [last EXCEPT ![p.user][p.to] = p.loc]
        /\ rows' = rows /\ posts' = posts /\ torn' = torn
    BY <1>5 DEF Hset, history
  <2>3. /\ process'[w].user = p.user /\ process'[w].loc = p.loc /\ process'[w].step # "hset"
        /\ \A x \in Workers \ {w} : process'[x] = process[x]
    BY <1>0, <1>5, <2>1 DEF Hset, Goto, Request, Stored
  <2>4. \A x \in Workers, a \in Users :
           PostOf(x, a)' => PostOf(x, a) /\ process'[x].loc = process[x].loc
    BY <2>1, <2>3 DEF PostOf, Posting
  <2>5. \A x \in Workers, a, b \in Users :
           Storing(x, a, b) => Storing(x, a, b)' \/ (a = p.user /\ b = p.to)
    BY <2>3 DEF Storing, At
  <2>6. /\ \A a, b \in Users : a # p.user \/ b # p.to => last'[a][b] = last[a][b]
        /\ last'[p.user][p.to] = p.loc
    BY <2>1, <2>2 DEF TInv, TypeOK
  <2>7. ASSUME NEW a \in Users \ torn' PROVE OneByOne(a)'
    <3>1. OneByOne(a) /\ rows'[a] = rows[a]
      BY <2>2 DEF NInv
    <3>2. ASSUME NEW b \in Users, \A x \in Workers : ~Storing(x, a, b)', NEW l \in rows'[a][b]
          PROVE  l <= last'[a][b]
      <4>1. CASE a = p.user /\ b = p.to
        BY <2>1, <2>6, <3>1, <4>1 DEF OneByOne, PostOf
      <4>2. CASE ~(a = p.user /\ b = p.to)
        BY <2>5, <2>6, <3>1, <3>2, <4>2 DEF OneByOne
      <4> QED BY <4>1, <4>2
    <3> QED BY <2>4, <3>1, <3>2 DEF OneByOne
  <2> QED BY <2>2, <2>7 DEF NInv
<1>6. ASSUME NEW w \in Workers, NEW r, Goto(w, r), r.step # "hset", ~At(w, "hset"),
             process[w].step # "idle", r.user = process[w].user, r.loc = process[w].loc,
             UNCHANGED <<store, posts, torn>>
      PROVE  NInv'
  <2>1. process'[w] = r /\ \A x \in Workers \ {w} : process'[x] = process[x]
    BY <1>0, <1>6 DEF Goto
  <2>2. Posting(w)
    BY <1>6, <1>a
  <2> QED BY <1>6, <2>1, <2>2, OutsideStores DEF At
<1>7. ASSUME NEW w \in Workers, Followers(w) PROVE NInv'
  <2>1. PICK r : r = [process[w] EXCEPT !.step = "following", !.friends = access[process[w].user]]
    OBVIOUS
  <2>2. r.step # "hset" /\ r.user = process[w].user /\ r.loc = process[w].loc
    BY <1>0, <2>1 DEF Request
  <2> QED BY <1>6, <1>7, <2>1, <2>2 DEF Followers, At, history
<1>8. ASSUME NEW w \in Workers, Following(w) PROVE NInv'
  <2> DEFINE visible == {v \in Users : Sees(access, state, process[w].user, v)}
             s == IF visible = {} THEN "state" ELSE "look"
  <2>1. PICK r : r = [process[w] EXCEPT !.todo = visible, !.step = s]
    OBVIOUS
  <2>2. r.step # "hset" /\ r.user = process[w].user /\ r.loc = process[w].loc
    BY <1>0, <2>1 DEF Request
  <2>3. Goto(w, r)
    BY <1>8, <2>1 DEF Following
  <2> QED BY <1>6, <1>8, <2>2, <2>3 DEF Following, At, history
<1>9. ASSUME NEW w \in Workers, Look(w) PROVE NInv'
  <2> DEFINE p == process[w]
  <2>1. PICK v \in p.todo : \E l \in {0, last[v][p.user]} :
            Goto(w, [p EXCEPT !.views[v] = l, !.todo = p.todo \ {v},
                              !.step = IF p.todo = {v} THEN "state" ELSE "look"])
    BY <1>9 DEF Look
  <2>2. PICK l \in {0, last[v][p.user]} :
            Goto(w, [p EXCEPT !.views[v] = l, !.todo = p.todo \ {v},
                              !.step = IF p.todo = {v} THEN "state" ELSE "look"])
    BY <2>1
  <2>3. PICK r : r = [p EXCEPT !.views[v] = l, !.todo = p.todo \ {v},
                               !.step = IF p.todo = {v} THEN "state" ELSE "look"]
    OBVIOUS
  <2>4. r.step # "hset" /\ r.user = p.user /\ r.loc = p.loc
    BY <1>0, <2>3 DEF Request
  <2> QED BY <1>6, <1>9, <2>2, <2>3, <2>4 DEF Look, At, history
<1>10. ASSUME NEW w \in Workers, ReadState(w) PROVE NInv'
  <2>1. PICK r : r = [process[w] EXCEPT !.step = "push", !.mode = state[process[w].user]]
    OBVIOUS
  <2>2. r.step # "hset" /\ r.user = process[w].user /\ r.loc = process[w].loc
    BY <1>0, <2>1 DEF Request
  <2> QED BY <1>6, <1>10, <2>1, <2>2 DEF ReadState, At, history
<1>11. ASSUME NEW w \in Workers, Push(w) PROVE NInv'
  <2>1. PICK s \in SUBSET process[w].named :
            Goto(w, [process[w] EXCEPT !.step = "reply", !.sent = s])
    BY <1>11 DEF Push
  <2>2. PICK r : r = [process[w] EXCEPT !.step = "reply", !.sent = s]
    OBVIOUS
  <2>3. r.step # "hset" /\ r.user = process[w].user /\ r.loc = process[w].loc
    BY <1>0, <2>2 DEF Request
  <2> QED BY <1>6, <1>11, <2>1, <2>2, <2>3 DEF Push, At, history
<1>12. ASSUME NEW w \in Workers, Reply(w) \/ Fail(w) PROVE NInv'
  <2>1. /\ process'[w] = Blank /\ \A x \in Workers \ {w} : process'[x] = process[x]
        /\ UNCHANGED <<store, posts>>
    BY <1>0, <1>12 DEF Reply, Fail, Leave, Goto
  <2>2. torn' = IF At(w, "hset") THEN torn \cup {process[w].user} ELSE torn
    BY <1>12 DEF Reply, Fail, At
  <2>3. CASE ~At(w, "hset")
    BY <2>1, <2>2, <2>3, OutsideStores DEF At, Posting, Blank
  <2>4. CASE At(w, "hset")
    <3>1. ASSUME NEW u \in Users \ torn' PROVE OneByOne(u)'
      <4>1. OneByOne(u) /\ u # process[w].user
        BY <2>2, <2>4 DEF NInv
      <4>2. \A x \in Workers : PostOf(x, u)' => PostOf(x, u) /\ process'[x] = process[x]
        BY <2>1 DEF PostOf, Posting, Blank
      <4>3. \A x \in Workers, v \in Users : Storing(x, u, v) => Storing(x, u, v)'
        BY <2>1, <4>1 DEF Storing, At
      <4> QED BY <2>1, <4>1, <4>2, <4>3 DEF OneByOne, store
    <3> QED BY <2>1, <3>1 DEF NInv, store
  <2> QED BY <2>3, <2>4
<1> QED
  BY <1>1, <1>2, <1>3, <1>4, <1>5, <1>7, <1>8, <1>9, <1>10, <1>11, <1>12 DEF Next, Serve

\* Two stores without a transaction: the last location is the newest of the history
\* where no two posts of the user overlap and none failed between the stores.
THEOREM RedisIsNewest == Spec => []LastIsNewest
<1>1. Init => NInv
  BY InitNInv
<1>2. TInv /\ NInv /\ [Next]_vars => NInv'
  BY NStep
<1>3. NInv => LastIsNewest
  BY DEF NInv, OneByOne, Storing, LastIsNewest
<1> QED BY <1>1, <1>2, <1>3, AlwaysTInv, PTL DEF Spec

===============================================================================
