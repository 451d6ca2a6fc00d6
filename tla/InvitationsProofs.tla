--------------------------- MODULE InvitationsProofs ---------------------------
(***************************************************************************)
(* Proofs about Invitations, for any users, links and workers.             *)
(***************************************************************************)
EXTENDS Invitations, TLAPS

OnLink == {"reject", "expire", "accept", "queued", "befriend", "commit", "notify", "refresh"}

\* A request on a link: the link exists and its creator is somebody else.
RequestOK(w) ==
    worker[w].step \in OnLink =>
        /\ worker[w].link \in Links
        /\ Me(w) \in Users
        /\ link[worker[w].link].state # "NONE"
        /\ Creator(w) \in Users
        /\ Creator(w) # Me(w)

\* Uncommitted rows: both directions of one friendship, or none yet.
TxOK(w) ==
    /\ worker[w].step = "befriend" => gained[w] \in {{}, {<<Creator(w), Me(w)>>}}
    /\ worker[w].step = "commit" =>
           gained[w] = {<<Creator(w), Me(w)>>, <<Me(w), Creator(w)>>}
    /\ worker[w].step \notin {"befriend", "commit"} => gained[w] = {}
    /\ worker[w].step \in {"befriend", "commit"} => row[w] = worker[w].link
    /\ \A p \in dropped[w] : <<p[2], p[1]>> \in dropped[w]

\* Links that exist have a creator, and so do accepted ones.
LinksOK ==
    /\ \A l \in Links : link[l].state # "NONE" => link[l].creator \in Users
    /\ \A g \in granted : link[g[1]].state # "NONE"

\* The inductive invariant.
IInv ==
    /\ TypeOK
    /\ \A w \in Workers : RequestOK(w) /\ TxOK(w)
    /\ LinksOK
    /\ MutualFriends
    /\ FriendsConsented

\* A link, once created, stays and keeps its creator.
LinksKept ==
    \A l \in Links : link[l].state # "NONE" =>
        link'[l].state # "NONE" /\ link'[l].creator = link[l].creator

-------------------------------------------------------------------------------
LEMMA InitIInv == Init => IInv
  BY NobodyIsNoUser, NoLinkIsNoLink
  DEF Init, IInv, TypeOK, RequestOK, TxOK, LinksOK, MutualFriends, FriendsConsented,
      NoRow, LinkRow, LinkStates, Idle, Request, Steps, OnLink, Me, Creator, Message, Pairs

LEMMA KeepLinks ==
  ASSUME IInv, [Next]_vars
  PROVE  LinksKept /\ link' \in [Links -> LinkRow]
<1> USE DEF IInv, TypeOK, LinksKept, LinkRow, LinkStates
<1>1. CASE UNCHANGED link
  BY <1>1
<1>2. ASSUME NEW l \in Links, NEW u \in Users, Create(l, u)
      PROVE  LinksKept /\ link' \in [Links -> LinkRow]
  BY <1>2 DEF Create
<1>3. ASSUME NEW w \in Workers, Expire(w) \/ Reject(w)
      PROVE  LinksKept /\ link' \in [Links -> LinkRow]
  <2>1. worker[w].link \in Links /\ Me(w) \in Users
    BY <1>3 DEF Expire, Reject, RequestOK, OnLink
  <2> QED BY <1>3, <2>1, SMTT(30) DEF Expire, Reject
<1>4. ASSUME NEW w \in Workers, Commit(w)
      PROVE  LinksKept /\ link' \in [Links -> LinkRow]
  <2>1. row[w] \in Links /\ Me(w) \in Users
    BY <1>4 DEF Commit, RequestOK, TxOK, OnLink
  <2> QED BY <1>4, <2>1, ZenonT(40) DEF Commit
<1> QED
  BY <1>1, <1>2, <1>3, <1>4
  DEF Next, Proceed, vars, tables, Elapse, Check, CheckFriends, Queue, Claim, AddFriend,
      AlreadyFriends, Notify, Refresh, RemoveFriend, PurgeState, DeadlockVictim, Fail

\* A worker that moves on, or is done, still has a well-formed request.
LEMMA WorkerType ==
  ASSUME worker \in [Workers -> Request], NEW w \in Workers,
         (\E s \in Steps : Goto(w, s)) \/ Finish(w)
  PROVE  worker' \in [Workers -> Request]
BY DEF Goto, Finish, Idle, Request, Steps

LEMMA EndTxType ==
  ASSUME TypeOK, NEW w \in Workers, EndTx(w)
  PROVE  /\ row' \in [Workers -> Links \cup {NoLink}]
         /\ gained' \in [Workers -> SUBSET Pairs]
         /\ dropped' \in [Workers -> SUBSET Pairs]
BY DEF TypeOK, EndTx

LEMMA TypeStep ==
  ASSUME IInv, [Next]_vars
  PROVE  TypeOK'
<1>0. link' \in [Links -> LinkRow]
  BY KeepLinks
<1> USE DEF IInv, TypeOK
<1>1. CASE UNCHANGED vars
  BY <1>1 DEF vars
<1>2. ASSUME NEW l \in Links, Elapse(l) PROVE TypeOK'
  BY <1>2 DEF Elapse, transactions, history
<1>3. ASSUME NEW l \in Links, NEW u \in Users, Create(l, u) PROVE TypeOK'
  BY <1>0, <1>3 DEF Create, transactions, history
<1>4. ASSUME NEW w \in Workers, NEW l \in Links, NEW u \in Users,
             NEW op \in {"accept", "reject"}, Check(w, op, l, u)
      PROVE  TypeOK'
  BY <1>4 DEF Check, tables, transactions, history, Request, Steps
<1>5. ASSUME NEW w \in Workers, NEW u \in Users, NEW v \in Users, CheckFriends(w, u, v)
      PROVE  TypeOK'
  BY <1>5 DEF CheckFriends, tables, transactions, history, Request, Steps
<1>6. ASSUME NEW w \in Workers, Expire(w) \/ Reject(w) PROVE TypeOK'
  BY <1>0, <1>6 DEF Expire, Reject, Overwrite, Idle, Request, Steps, transactions, history
<1>7. ASSUME NEW w \in Workers, Queue(w) PROVE TypeOK'
  BY <1>7 DEF Queue, Goto, tables, transactions, history, Request, Steps
<1>8. ASSUME NEW w \in Workers, Claim(w) PROVE TypeOK'
  <2>1. worker[w].link \in Links
    BY <1>8 DEF Claim, RequestOK, OnLink
  <2>2. worker' \in [Workers -> Request]
    BY <1>8, WorkerType DEF Claim, Steps
  <2>3. row' \in [Workers -> Links \cup {NoLink}]
    BY <1>8, <2>1 DEF Claim, transactions
  <2> QED
    BY <1>8, <2>2, <2>3 DEF Claim, tables, transactions, history
<1>9. ASSUME NEW w \in Workers, AddFriend(w) PROVE TypeOK'
  <2>1. NextPair(w) \in Pairs
    BY <1>9 DEF AddFriend, RequestOK, OnLink, NextPair, Pairs
  <2>2. worker' \in [Workers -> Request]
    BY <1>9, WorkerType DEF AddFriend, Steps
  <2>3. gained' \in [Workers -> SUBSET Pairs]
    BY <1>9, <2>1 DEF AddFriend
  <2> QED
    BY <1>9, <2>2, <2>3 DEF AddFriend, tables, history
<1>10. ASSUME NEW w \in Workers, AlreadyFriends(w) \/ DeadlockVictim(w) \/ Fail(w) PROVE TypeOK'
  <2>1. worker' \in [Workers -> Request]
    BY <1>10, WorkerType DEF AlreadyFriends, DeadlockVictim, Fail
  <2> QED
    BY <1>10, <2>1, EndTxType DEF AlreadyFriends, DeadlockVictim, Fail, tables, history
<1>11. ASSUME NEW w \in Workers, Commit(w) PROVE TypeOK'
  <2>1. row[w] \in Links /\ Me(w) \in Users
    BY <1>11 DEF Commit, RequestOK, TxOK, OnLink
  <2>2. worker' \in [Workers -> Request]
    BY <1>11 DEF Commit, Overwrite, Idle, Request, Steps
  <2>3. followers' \subseteq Pairs /\ perception' \subseteq Pairs
    BY <1>11 DEF Commit
  <2>4. granted' \subseteq Links \X Users /\ straddled' \subseteq Pairs
    BY <1>11, <2>1 DEF Commit
  <2> QED
    BY <1>0, <1>11, <2>2, <2>3, <2>4, EndTxType DEF Commit
<1>12. ASSUME NEW w \in Workers, Notify(w) \/ Refresh(w) PROVE TypeOK'
  <2>1. Me(w) \in Users /\ Creator(w) \in Users /\ worker[w].link \in Links
    BY <1>12 DEF Notify, Refresh, RequestOK, OnLink
  <2>2. link[worker[w].link].recipient \in Users \cup {Nobody}
    BY <2>1 DEF LinkRow
  <2>3. worker' \in [Workers -> Request]
    <3>1. CASE Notify(w)
      BY <3>1, WorkerType DEF Notify, Steps
    <3>2. CASE Refresh(w)
      BY <3>2, WorkerType DEF Refresh
    <3> QED BY <1>12, <3>1, <3>2
  <2>4. sent' \subseteq Message
    BY <1>12, <2>1, <2>2 DEF Notify, Refresh, Message
  <2> QED BY <1>12, <2>3, <2>4 DEF Notify, Refresh, tables, transactions
<1>13. ASSUME NEW w \in Workers, RemoveFriend(w) PROVE TypeOK'
  <2>1. Needs(w) \subseteq Pairs
    BY <1>13 DEF RemoveFriend, Needs
  <2> QED
    BY <1>13, <2>1, SMTT(30) DEF RemoveFriend, Goto, tables, history, Request, Steps
<1>14. ASSUME NEW w \in Workers, PurgeState(w) PROVE TypeOK'
  BY <1>14 DEF PurgeState, Finish, EndTx, Idle, history, Request, Steps
<1> QED
  BY <1>1, <1>2, <1>3, <1>4, <1>5, <1>6, <1>7, <1>8, <1>9, <1>10, <1>11, <1>12, <1>13, <1>14
  DEF Next, Proceed

-------------------------------------------------------------------------------
\* A request on a link is a new one, or the one the worker was serving.
LEMMA SameRequest ==
  ASSUME IInv, [Next]_vars, NEW k \in Workers, worker'[k].step \in OnLink
  PROVE  \/ /\ worker[k].step \in OnLink
            /\ worker'[k].link = worker[k].link
            /\ worker'[k].user = worker[k].user
         \/ \E l \in Links, u \in Users, op \in {"accept", "reject"} : Check(k, op, l, u)
<1> DEFINE Same == /\ worker[k].step \in OnLink
                   /\ worker'[k].link = worker[k].link
                   /\ worker'[k].user = worker[k].user
<1> USE DEF IInv, TypeOK
<1>1. CASE UNCHANGED worker
  BY <1>1
<1>2. ASSUME NEW w \in Workers, NEW l \in Links, NEW u \in Users,
             NEW op \in {"accept", "reject"}, Check(w, op, l, u), w # k
      PROVE  Same
  BY <1>2 DEF Check
<1>3. ASSUME NEW w \in Workers, NEW u \in Users, NEW v \in Users, CheckFriends(w, u, v)
      PROVE  Same
  BY <1>3 DEF CheckFriends, OnLink
<1>4. ASSUME NEW w \in Workers, Expire(w) \/ Reject(w) \/ Commit(w) PROVE Same
  BY <1>4 DEF Expire, Reject, Commit, Overwrite, Idle, OnLink, Request
<1>5. ASSUME NEW w \in Workers,
             \/ Queue(w) \/ Claim(w) \/ AddFriend(w) \/ AlreadyFriends(w) \/ Notify(w)
             \/ Refresh(w) \/ RemoveFriend(w) \/ PurgeState(w) \/ DeadlockVictim(w) \/ Fail(w)
      PROVE  Same
  <2>1. \/ Finish(w) \/ UNCHANGED worker
        \/ worker[w].step \in OnLink /\ \E s \in Steps : Goto(w, s)
        \/ Goto(w, "purge")
    BY <1>5 DEF Queue, Claim, AddFriend, AlreadyFriends, Notify, Refresh, RemoveFriend,
                PurgeState, DeadlockVictim, Fail, OnLink, Steps
  <2> QED BY <2>1 DEF Finish, Goto, Idle, OnLink, Request
<1> QED
  BY <1>1, <1>2, <1>3, <1>4, <1>5 DEF Next, Proceed, vars, Elapse, Create

LEMMA RequestStep ==
  ASSUME IInv, [Next]_vars, NEW k \in Workers
  PROVE  RequestOK(k)'
<1> SUFFICES ASSUME worker'[k].step \in OnLink
             PROVE  /\ worker'[k].link \in Links
                    /\ worker'[k].user \in Users
                    /\ link'[worker'[k].link].state # "NONE"
                    /\ link'[worker'[k].link].creator \in Users
                    /\ link'[worker'[k].link].creator # worker'[k].user
  BY DEF RequestOK, Creator, Me
<1>1. CASE /\ worker[k].step \in OnLink
           /\ worker'[k].link = worker[k].link
           /\ worker'[k].user = worker[k].user
  BY <1>1, KeepLinks DEF IInv, RequestOK, LinksKept, Creator, Me
<1>2. ASSUME NEW l \in Links, NEW u \in Users, NEW op \in {"accept", "reject"},
             Check(k, op, l, u)
      PROVE  /\ worker'[k].link \in Links
             /\ worker'[k].user \in Users
             /\ link'[worker'[k].link].state # "NONE"
             /\ link'[worker'[k].link].creator \in Users
             /\ link'[worker'[k].link].creator # worker'[k].user
  BY <1>2 DEF Check, tables, IInv, TypeOK, LinksOK
<1> QED BY <1>1, <1>2, SameRequest

\* The uncommitted rows of a worker that does nothing, or whose queued
\* transaction fails.
LEMMA TxOther ==
  ASSUME IInv, [Next]_vars, NEW k \in Workers,
         worker'[k] = worker[k] \/ (worker[k].step = "queued" /\ worker'[k] = Idle),
         row'[k] = row[k], gained'[k] = gained[k], dropped'[k] = dropped[k]
  PROVE  TxOK(k)'
<1>1. TxOK(k) /\ RequestOK(k) /\ LinksKept
  BY KeepLinks DEF IInv
<1>2. CASE worker[k].step = "queued" /\ worker'[k] = Idle
  BY <1>1, <1>2 DEF TxOK, Idle
<1>3. CASE worker'[k] = worker[k]
  <2>1. worker[k].step \in {"befriend", "commit"} =>
            link'[worker[k].link].creator = link[worker[k].link].creator
    BY <1>1 DEF RequestOK, LinksKept, OnLink
  <2> QED BY <1>1, <1>3, <2>1 DEF TxOK, Creator, Me
<1> QED BY <1>2, <1>3

LEMMA TxStep ==
  ASSUME IInv, [Next]_vars, NEW k \in Workers
  PROVE  TxOK(k)'
<1>0. TxOK(k) /\ RequestOK(k) /\ LinksKept
  BY KeepLinks DEF IInv
<1>1. CASE worker' = worker /\ UNCHANGED transactions
  <2>1. worker'[k] = worker[k] /\ row'[k] = row[k] /\ gained'[k] = gained[k] /\ dropped'[k] = dropped[k]
    BY <1>1 DEF transactions
  <2> QED BY <2>1, TxOther
<1>2. ASSUME NEW w \in Workers, NEW l \in Links, NEW u \in Users,
             NEW op \in {"accept", "reject"}, Check(w, op, l, u)
      PROVE  TxOK(k)'
  <2>1. CASE w # k
    <3>1. worker'[k] = worker[k] /\ row'[k] = row[k] /\ gained'[k] = gained[k] /\ dropped'[k] = dropped[k]
      BY <1>2, <2>1 DEF Check, transactions, IInv, TypeOK
    <3> QED BY <3>1, TxOther
  <2>2. CASE w = k
    BY <1>0, <1>2, <2>2 DEF Check, transactions, TxOK, Idle, IInv, TypeOK
  <2> QED BY <2>1, <2>2
<1>3. ASSUME NEW w \in Workers, NEW u \in Users, NEW v \in Users, CheckFriends(w, u, v)
      PROVE  TxOK(k)'
  <2>1. CASE w # k
    <3>1. worker'[k] = worker[k] /\ row'[k] = row[k] /\ gained'[k] = gained[k] /\ dropped'[k] = dropped[k]
      BY <1>3, <2>1 DEF CheckFriends, transactions, IInv, TypeOK
    <3> QED BY <3>1, TxOther
  <2>2. CASE w = k
    BY <1>0, <1>3, <2>2 DEF CheckFriends, transactions, TxOK, Idle, IInv, TypeOK
  <2> QED BY <2>1, <2>2
<1>4. ASSUME NEW w \in Workers, Proceed(w) \/ Fail(w), w # k
      PROVE  TxOK(k)'
  <2>1. row'[k] = row[k] /\ gained'[k] = gained[k] /\ dropped'[k] = dropped[k]
    BY <1>4 DEF Proceed, Expire, Reject, Queue, Claim, AddFriend, AlreadyFriends, Commit,
                Notify, Refresh, RemoveFriend, PurgeState, DeadlockVictim, Fail, EndTx,
                transactions, IInv, TypeOK
  <2>2. worker'[k] = worker[k] \/ (worker[k].step = "queued" /\ worker'[k] = Idle)
    BY <1>4 DEF Proceed, Expire, Reject, Queue, Claim, AddFriend, AlreadyFriends, Commit,
                Notify, Refresh, RemoveFriend, PurgeState, DeadlockVictim, Fail, Goto,
                Finish, Overwrite, IInv, TypeOK
  <2> QED BY <2>1, <2>2, TxOther
<1>5. CASE Expire(k) \/ Reject(k)
  BY <1>0, <1>5 DEF Expire, Reject, Overwrite, Idle, TxOK, transactions, IInv, TypeOK
<1>6. CASE Queue(k) \/ Notify(k) \/ Refresh(k)
  BY <1>0, <1>6
  DEF Queue, Notify, Refresh, Goto, Finish, Idle, TxOK, transactions, IInv, TypeOK, Request
<1>7. CASE Claim(k)
  BY <1>0, <1>7 DEF Claim, Goto, Finish, Idle, TxOK, transactions, IInv, TypeOK, Request
<1>8. CASE AddFriend(k)
  <2>1. /\ link' = link
        /\ worker'[k].link = worker[k].link
        /\ worker'[k].user = worker[k].user
        /\ worker'[k].step = IF gained[k] = {} THEN "befriend" ELSE "commit"
    BY <1>8 DEF AddFriend, Goto, tables, IInv, TypeOK, Request
  <2>2. Creator(k)' = Creator(k) /\ Me(k)' = Me(k)
    BY <2>1 DEF Creator, Me
  <2>3. /\ gained'[k] = gained[k] \cup {NextPair(k)}
        /\ row'[k] = row[k] /\ dropped'[k] = dropped[k]
    BY <1>8 DEF AddFriend, IInv, TypeOK
  <2>4. gained[k] = {} \/ gained[k] = {<<Creator(k), Me(k)>>}
    BY <1>0, <1>8 DEF AddFriend, TxOK
  <2>5. row[k] = worker[k].link
    BY <1>0, <1>8 DEF AddFriend, TxOK
  <2> QED BY <1>0, <2>1, <2>2, <2>3, <2>4, <2>5 DEF TxOK, NextPair
<1>9. CASE AlreadyFriends(k) \/ DeadlockVictim(k) \/ Fail(k) \/ PurgeState(k)
  BY <1>9 DEF AlreadyFriends, DeadlockVictim, Fail, PurgeState, Finish, EndTx, Idle, TxOK,
              IInv, TypeOK
<1>10. CASE Commit(k)
  <2>1. worker'[k].step = "notify"
    BY <1>10 DEF Commit, Overwrite, IInv, TypeOK, Request
  <2>2. gained'[k] = {} /\ dropped'[k] = {}
    BY <1>10 DEF Commit, EndTx, IInv, TypeOK
  <2> QED BY <2>1, <2>2 DEF TxOK
<1>11. CASE RemoveFriend(k)
  <2>1. worker'[k].step = "purge" /\ gained'[k] = gained[k]
    BY <1>11 DEF RemoveFriend, Goto, IInv, TypeOK, Request
  <2>2. dropped'[k] = followers \cap Between(Me(k), worker[k].peer)
    BY <1>11 DEF RemoveFriend, Needs, IInv, TypeOK
  <2>3. \A p \in dropped'[k] : <<p[2], p[1]>> \in dropped'[k]
    BY <2>2 DEF Between, MutualFriends, IInv
  <2>4. gained[k] = {}
    BY <1>0, <1>11 DEF RemoveFriend, TxOK
  <2> QED BY <2>1, <2>3, <2>4 DEF TxOK
<1> QED
  BY <1>1, <1>2, <1>3, <1>4, <1>5, <1>6, <1>7, <1>8, <1>9, <1>10, <1>11
  DEF Next, Proceed, vars, transactions, Elapse, Create

-------------------------------------------------------------------------------
LEMMA LinksStep ==
  ASSUME IInv, [Next]_vars
  PROVE  LinksOK'
<1>1. \A l \in Links : link'[l].state # "NONE" => link'[l].creator \in Users
  <2>1. ASSUME NEW l \in Links, link[l].state # "NONE"
        PROVE  link'[l].creator \in Users
    BY <2>1, KeepLinks DEF IInv, LinksOK, LinksKept
  <2>2. ASSUME NEW l \in Links, link[l].state = "NONE", link'[l].state # "NONE"
        PROVE  link'[l].creator \in Users
    <3>1. ASSUME NEW m \in Links, NEW u \in Users, Create(m, u)
          PROVE  link'[l].creator \in Users
      BY <2>2, <3>1 DEF Create, IInv, TypeOK
    <3>2. ASSUME NEW w \in Workers, Expire(w) \/ Reject(w) \/ Commit(w)
          PROVE  FALSE
      <4>1. \/ worker[w].link # l /\ link'[l] = link[l]
            \/ worker[w].link = l
        BY <3>2 DEF Expire, Reject, Commit, IInv, TypeOK, TxOK
      <4>2. link[worker[w].link].state # "NONE"
        BY <3>2 DEF Expire, Reject, Commit, IInv, RequestOK, OnLink
      <4> QED BY <2>2, <4>1, <4>2
    <3> QED
      BY <2>2, <3>1, <3>2
      DEF Next, Proceed, vars, tables, Elapse, Check, CheckFriends, Queue, Claim, AddFriend,
          AlreadyFriends, Notify, Refresh, RemoveFriend, PurgeState, DeadlockVictim, Fail
  <2> QED BY <2>1, <2>2
<1>2. \A g \in granted' : link'[g[1]].state # "NONE"
  <2>1. \A g \in granted : link'[g[1]].state # "NONE"
    BY KeepLinks DEF IInv, TypeOK, LinksOK, LinksKept
  <2>2. granted' = granted \/ \E w \in Workers : Commit(w)
    BY DEF Next, Proceed, vars, history, Elapse, Create, Check, CheckFriends, Expire, Reject,
           Queue, Claim, AddFriend, AlreadyFriends, Notify, Refresh, RemoveFriend, PurgeState,
           DeadlockVictim, Fail
  <2>3. ASSUME NEW w \in Workers, Commit(w)
        PROVE  \A g \in granted' : link'[g[1]].state # "NONE"
    <3>1. row[w] \in Links /\ link[row[w]].state # "NONE"
      BY <2>3 DEF Commit, IInv, RequestOK, TxOK, OnLink
    <3>2. granted' = granted \cup {<<row[w], Me(w)>>}
      BY <2>3 DEF Commit
    <3> QED BY <2>1, <3>1, <3>2, KeepLinks DEF LinksKept
  <2> QED BY <2>1, <2>2, <2>3
<1> QED BY <1>1, <1>2 DEF LinksOK

\* The committed friendships change by a COMMIT, of an accept or of a removal.
LEMMA FollowersStep ==
  ASSUME IInv, [Next]_vars
  PROVE  \/ followers' = followers /\ granted' = granted
         \/ \E w \in Workers : Commit(w)
         \/ \E w \in Workers : PurgeState(w)
BY ZenonT(40) DEF Next, Proceed, vars, tables, history, Elapse, Create, Check, CheckFriends, Expire,
       Reject, Queue, Claim, AddFriend, AlreadyFriends, Notify, Refresh, RemoveFriend,
       DeadlockVictim, Fail

LEMMA MutualStep ==
  ASSUME IInv, [Next]_vars
  PROVE  MutualFriends'
<1>1. CASE followers' = followers
  BY <1>1 DEF IInv, MutualFriends
<1>2. ASSUME NEW w \in Workers, Commit(w) PROVE MutualFriends'
  <2>1. gained[w] = {<<Creator(w), Me(w)>>, <<Me(w), Creator(w)>>}
    BY <1>2 DEF Commit, IInv, TxOK
  <2>2. followers' = followers \cup gained[w]
    BY <1>2 DEF Commit
  <2>3. \A p \in gained[w] : <<p[2], p[1]>> \in gained[w]
    BY <2>1
  <2>4. \A p \in followers : <<p[2], p[1]>> \in followers
    BY DEF IInv, MutualFriends
  <2> QED BY <2>2, <2>3, <2>4 DEF MutualFriends
<1>3. ASSUME NEW w \in Workers, PurgeState(w) PROVE MutualFriends'
  <2>1. \A p \in dropped[w] : <<p[2], p[1]>> \in dropped[w]
    BY DEF IInv, TxOK
  <2>2. followers' = followers \ dropped[w]
    BY <1>3 DEF PurgeState
  <2>3. ASSUME NEW p \in followers'
        PROVE  <<p[2], p[1]>> \in followers'
    <3>1. p \in followers /\ p \notin dropped[w] /\ p = <<p[1], p[2]>>
      BY <2>2 DEF IInv, TypeOK, Pairs
    <3>2. <<p[2], p[1]>> \in followers
      BY <3>1 DEF IInv, MutualFriends
    <3>3. <<p[2], p[1]>> \notin dropped[w]
      <4>1. SUFFICES ASSUME <<p[2], p[1]>> \in dropped[w] PROVE FALSE
        OBVIOUS
      <4>2. <<p[1], p[2]>> \in dropped[w]
        BY <2>1, <4>1
      <4> QED BY <3>1, <4>2
    <3> QED BY <2>2, <3>2, <3>3
  <2> QED BY <2>3 DEF MutualFriends
<1> QED BY <1>1, <1>2, <1>3, FollowersStep

LEMMA ConsentedStep ==
  ASSUME IInv, [Next]_vars
  PROVE  FriendsConsented'
<1>0. \A g \in granted : link'[g[1]].creator = link[g[1]].creator
  BY KeepLinks DEF IInv, TypeOK, LinksOK, LinksKept
<1>1. CASE granted' = granted /\ followers' \subseteq followers
  BY <1>0, <1>1 DEF IInv, FriendsConsented
<1>2. ASSUME NEW w \in Workers, Commit(w) PROVE FriendsConsented'
  <2>1. gained[w] = {<<Creator(w), Me(w)>>, <<Me(w), Creator(w)>>}
    BY <1>2 DEF Commit, IInv, TxOK
  <2>2. followers' = followers \cup gained[w] /\ granted' = granted \cup {<<row[w], Me(w)>>}
    BY <1>2 DEF Commit
  <2>3. link'[row[w]].creator = Creator(w)
    BY <1>2, KeepLinks DEF Commit, IInv, RequestOK, TxOK, OnLink, LinksKept, Creator
  <2>4. ASSUME NEW p \in followers
        PROVE  \E g \in granted' : {link'[g[1]].creator, g[2]} = {p[1], p[2]}
    BY <1>0, <2>2 DEF IInv, FriendsConsented
  <2>5. ASSUME NEW p \in gained[w]
        PROVE  \E g \in granted' : {link'[g[1]].creator, g[2]} = {p[1], p[2]}
    <3>1. <<row[w], Me(w)>> \in granted'
      BY <2>2
    <3>2. {p[1], p[2]} = {Creator(w), Me(w)}
      BY <2>1
    <3> QED BY <2>3, <3>1, <3>2
  <2> QED BY <2>2, <2>4, <2>5 DEF FriendsConsented
<1>3. ASSUME NEW w \in Workers, PurgeState(w)
      PROVE  granted' = granted /\ followers' \subseteq followers
  BY <1>3 DEF PurgeState, history
<1> QED BY <1>1, <1>2, <1>3, FollowersStep

-------------------------------------------------------------------------------
THEOREM Invariance == Spec => []IInv
<1>1. IInv /\ [Next]_vars => IInv'
  <2> SUFFICES ASSUME IInv, [Next]_vars PROVE IInv'
    OBVIOUS
  <2>1. \A w \in Workers : (RequestOK(w) /\ TxOK(w))'
    BY RequestStep, TxStep
  <2> QED BY <2>1, TypeStep, LinksStep, MutualStep, ConsentedStep DEF IInv
<1> QED BY <1>1, InitIInv, PTL DEF Spec

\* Every state of the service is well formed.
THEOREM TypeCorrect == Spec => []TypeOK
<1>1. IInv => TypeOK
  BY DEF IInv
<1> QED BY <1>1, Invariance, PTL

\* Friendship is mutual in every committed state, whatever accepts, removals,
\* failures and deadlocks interleave: add_friend and remove_friend always take
\* effect for both users.
THEOREM Mutuality == Spec => []MutualFriends
<1>1. IInv => MutualFriends
  BY DEF IInv
<1> QED BY <1>1, Invariance, PTL

\* Behind every friendship there is a committed accept, by one of the two, of a
\* link of the other.
THEOREM Consent == Spec => []FriendsConsented
<1>1. IInv => FriendsConsented
  BY DEF IInv
<1> QED BY <1>1, Invariance, PTL

-------------------------------------------------------------------------------
\* What is told was granted before.
ToldOK ==
    /\ \A w \in Workers :
           worker[w].step \in {"notify", "refresh"} => <<worker[w].link, Me(w)>> \in granted
    /\ NoPhantomMessage

LEMMA ToldStep ==
  ASSUME IInv, ToldOK, [Next]_vars
  PROVE  ToldOK'
<1>1. \A g \in granted : g \in granted' /\ link'[g[1]].creator = link[g[1]].creator
  <2>1. granted \subseteq granted'
    BY DEF Next, Proceed, vars, history, Elapse, Create, Check, CheckFriends, Expire, Reject,
           Queue, Claim, AddFriend, AlreadyFriends, Commit, Notify, Refresh, RemoveFriend, PurgeState,
           DeadlockVictim, Fail
  <2> QED BY <2>1, KeepLinks DEF IInv, TypeOK, LinksOK, LinksKept
<1>2. ASSUME NEW k \in Workers, worker'[k].step \in {"notify", "refresh"}
      PROVE  <<worker'[k].link, worker'[k].user>> \in granted'
  <2>1. CASE Commit(k)
    <3>1. worker'[k].link = worker[k].link /\ worker'[k].user = worker[k].user
      BY <2>1 DEF Commit, Overwrite, IInv, TypeOK, Request
    <3>2. row[k] = worker[k].link
      BY <2>1 DEF Commit, IInv, TxOK
    <3> QED BY <2>1, <3>1, <3>2 DEF Commit, Me
  <2>2. CASE ~Commit(k)
    <3>1. worker[k].step \in {"notify", "refresh"} /\ worker'[k].link = worker[k].link
          /\ worker'[k].user = worker[k].user
      <4>1. CASE UNCHANGED worker
        BY <1>2, <4>1
      <4>2. ASSUME NEW w \in Workers, NEW l \in Links, NEW u \in Users,
                   NEW op \in {"accept", "reject"}, Check(w, op, l, u)
            PROVE  worker'[k] = worker[k]
        BY <1>2, <4>2 DEF Check, IInv, TypeOK
      <4>3. ASSUME NEW w \in Workers, NEW u \in Users, NEW v \in Users, CheckFriends(w, u, v)
            PROVE  worker'[k] = worker[k]
        BY <1>2, <4>3 DEF CheckFriends, IInv, TypeOK
      <4>4. ASSUME NEW w \in Workers, Expire(w) \/ Reject(w) \/ (Commit(w) /\ w # k)
            PROVE  worker'[k] = worker[k]
        BY <1>2, <4>4 DEF Expire, Reject, Commit, Overwrite, Idle, IInv, TypeOK
      <4>5. ASSUME NEW w \in Workers,
                   \/ Queue(w) \/ Claim(w) \/ AddFriend(w) \/ AlreadyFriends(w) \/ Refresh(w)
                   \/ RemoveFriend(w) \/ PurgeState(w) \/ DeadlockVictim(w) \/ Fail(w)
            PROVE  worker'[k] = worker[k]
        <5>1. \/ Finish(w) \/ UNCHANGED worker
              \/ \E s \in {"queued", "befriend", "commit", "purge"} : Goto(w, s)
          BY <4>5 DEF Queue, Claim, AddFriend, AlreadyFriends, Refresh, RemoveFriend,
                      PurgeState, DeadlockVictim, Fail
        <5> QED BY <1>2, <5>1 DEF Finish, Goto, Idle, IInv, TypeOK, Request
      <4>6. ASSUME NEW w \in Workers, Notify(w)
            PROVE  /\ worker[k].step \in {"notify", "refresh"} /\ worker'[k].link = worker[k].link
                   /\ worker'[k].user = worker[k].user
        BY <1>2, <4>6 DEF Notify, Goto, IInv, TypeOK, Request
      <4> QED BY <1>2, <2>2, <4>1, <4>2, <4>3, <4>4, <4>5, <4>6 DEF Next, Proceed, vars, Elapse, Create
    <3> QED BY <1>1, <3>1 DEF ToldOK, Me
  <2> QED BY <2>1, <2>2
<1>3. NoPhantomMessage'
  <2>1. ASSUME NEW m \in sent
        PROVE  \E g \in granted' :
                  CASE m.kind = "accepted" -> link'[g[1]].creator = m.to
                    [] m.kind = "refresh"  -> g[2] = m.to /\ link'[g[1]].creator = m.about
    <3>1. PICK g \in granted :
                  CASE m.kind = "accepted" -> link[g[1]].creator = m.to
                    [] m.kind = "refresh"  -> g[2] = m.to /\ link[g[1]].creator = m.about
      BY DEF ToldOK, NoPhantomMessage
    <3>2. m.kind \in {"accepted", "refresh"}
      BY DEF IInv, TypeOK, Message
    <3> QED BY <1>1, <3>1, <3>2
  <2>2. ASSUME NEW w \in Workers, Notify(w) \/ Refresh(w), NEW m \in sent', m \notin sent
        PROVE  \E g \in granted' :
                  CASE m.kind = "accepted" -> link'[g[1]].creator = m.to
                    [] m.kind = "refresh"  -> g[2] = m.to /\ link'[g[1]].creator = m.about
    <3> DEFINE g == <<worker[w].link, Me(w)>>
    <3>1. g \in granted /\ g[1] = worker[w].link /\ g[2] = Me(w)
      BY <2>2 DEF Notify, Refresh, ToldOK
    <3>2. \/ m.kind = "accepted" /\ m.to = Creator(w)
          \/ m.kind = "refresh" /\ m.to = Me(w) /\ m.about = Creator(w)
      BY <2>2 DEF Notify, Refresh
    <3> HIDE DEF g
    <3> QED BY <1>1, <3>1, <3>2 DEF Creator
  <2>3. (\E w \in Workers : Notify(w) \/ Refresh(w)) \/ sent' = sent
    BY DEF Next, Proceed, vars, history, Elapse, Create, Check, CheckFriends, Expire, Reject,
           Queue, Claim, AddFriend, AlreadyFriends, Commit, RemoveFriend, PurgeState,
           DeadlockVictim, Fail
  <2> QED BY <2>1, <2>2, <2>3 DEF NoPhantomMessage
<1> QED BY <1>2, <1>3 DEF ToldOK, Me

\* Nobody is told of an acceptance, or asked for a location, before a commit that
\* made it so.
THEOREM ToldTruly == Spec => []NoPhantomMessage
<1>1. Init => ToldOK
  BY DEF Init, ToldOK, NoPhantomMessage, Idle
<1>2. IInv /\ ToldOK /\ [Next]_vars => ToldOK'
  BY ToldStep
<1>3. ToldOK => NoPhantomMessage
  BY DEF ToldOK
<1> QED BY <1>1, <1>2, <1>3, Invariance, PTL DEF Spec

-------------------------------------------------------------------------------
\* Transactions do not touch the same friendship.

\* Both rows of the friendship that w is asked to remove.
Both(w) == {<<Me(w), worker[w].peer>>, <<worker[w].peer, Me(w)>>}

\* What w has inserted is not there yet, what it has deleted still is, and no other
\* transaction has inserted or deleted it as well.
Apart(w) ==
    /\ gained[w] \cap followers = {}
    /\ dropped[w] \subseteq followers
    /\ worker[w].step # "purge" => dropped[w] = {}
    /\ worker[w].step = "purge" => dropped[w] = {} \/ dropped[w] = Both(w)
    /\ \A k \in Workers \ {w} : gained[k] \cap gained[w] = {} /\ dropped[k] \cap dropped[w] = {}

RInv ==
    /\ \A p \in followers : p[1] # p[2]
    /\ \A w \in Workers : Apart(w)

LEMMA InitRInv == Init => RInv
BY DEF Init, RInv, Apart, Idle

\* The two rows there are between two friends.
LEMMA BothRows ==
  ASSUME IInv, RInv, NEW u, NEW v
  PROVE  \/ followers \cap Between(u, v) = {}
         \/ followers \cap Between(u, v) = {<<u, v>>, <<v, u>>}
<1> SUFFICES ASSUME NEW p \in followers \cap Between(u, v)
             PROVE  followers \cap Between(u, v) = {<<u, v>>, <<v, u>>}
  OBVIOUS
<1>1. p = <<p[1], p[2]>> /\ p[1] \in {u, v} /\ p[2] \in {u, v} /\ p[1] # p[2]
  BY DEF Between, RInv
<1>2. <<p[2], p[1]>> \in followers
  BY DEF IInv, MutualFriends
<1>3. u # v /\ <<u, v>> \in followers /\ <<v, u>> \in followers
  BY <1>1, <1>2
<1>4. \A q \in followers : q[1] # q[2]
  BY DEF RInv
<1>5. <<u, v>> \in Between(u, v) /\ <<v, u>> \in Between(u, v)
  BY DEF Between
<1>6. ASSUME NEW q \in followers \cap Between(u, v) PROVE q = <<u, v>> \/ q = <<v, u>>
  <2>1. q = <<q[1], q[2]>> /\ q[1] \in {u, v} /\ q[2] \in {u, v} /\ q[1] # q[2]
    BY <1>4, <1>6 DEF Between
  <2> QED BY <2>1
<1> QED BY <1>3, <1>5, <1>6

\* A step that inserts and deletes nothing.
LEMMA RInvIdle ==
  ASSUME RInv, UNCHANGED <<followers, gained, dropped>>,
         \A k \in Workers : /\ worker'[k].step = "purge" <=> worker[k].step = "purge"
                            /\ worker[k].step = "purge" => worker'[k] = worker[k]
  PROVE  RInv'
BY DEF RInv, Apart, Both, Me

LEMMA RInvEnd ==
  ASSUME IInv, RInv, NEW w \in Workers, EndTx(w), Finish(w), UNCHANGED followers
  PROVE  RInv'
<1>1. /\ \A k \in Workers \ {w} : /\ worker'[k] = worker[k] /\ gained'[k] = gained[k]
                                  /\ dropped'[k] = dropped[k]
      /\ worker'[w].step = "idle" /\ gained'[w] = {} /\ dropped'[w] = {}
  BY DEF EndTx, Finish, Idle, IInv, TypeOK
<1> QED BY <1>1 DEF RInv, Apart, Both, Me

LEMMA RInvAddFriend ==
  ASSUME IInv, RInv, NEW w \in Workers, AddFriend(w)
  PROVE  RInv'
<1>1. /\ \A k \in Workers \ {w} : worker'[k] = worker[k] /\ gained'[k] = gained[k]
      /\ worker'[w].step \in {"befriend", "commit"} /\ worker[w].step = "befriend"
      /\ gained'[w] = gained[w] \cup {NextPair(w)}
      /\ UNCHANGED <<followers, dropped>>
  BY DEF AddFriend, Goto, tables, IInv, TypeOK, Request
<1>2. NextPair(w) \notin followers /\ \A k \in Workers \ {w} : NextPair(w) \notin gained[k]
  BY <1>1 DEF AddFriend, Unblocked, WaitsFor, Needs, Holds
<1> QED BY <1>1, <1>2 DEF RInv, Apart, Both, Me

LEMMA RInvRemove ==
  ASSUME IInv, RInv, NEW w \in Workers, RemoveFriend(w)
  PROVE  RInv'
<1>1. /\ \A k \in Workers \ {w} : worker'[k] = worker[k] /\ dropped'[k] = dropped[k]
      /\ worker'[w] = [worker[w] EXCEPT !.step = "purge"]
      /\ dropped'[w] = followers \cap Between(Me(w), worker[w].peer)
      /\ UNCHANGED <<followers, gained>>
  BY DEF RemoveFriend, Needs, Goto, tables, IInv, TypeOK
<1>2. worker'[w].step = "purge" /\ worker'[w].user = Me(w) /\ worker'[w].peer = worker[w].peer
  BY <1>1 DEF Me, IInv, TypeOK, Request
<1>3. dropped'[w] = {} \/ dropped'[w] = Both(w)
  BY <1>1, BothRows DEF Both
<1>4. \A k \in Workers \ {w} : dropped[k] \cap dropped'[w] = {}
  BY <1>1 DEF RemoveFriend, Unblocked, WaitsFor, Needs, Holds
<1>5. Apart(w)'
  <2>1. Both(w)' = Both(w)
    BY <1>2 DEF Both, Me
  <2> QED BY <1>1, <1>2, <1>3, <1>4, <2>1 DEF RInv, Apart
<1>6. ASSUME NEW k \in Workers \ {w} PROVE Apart(k)'
  BY <1>1, <1>4, <1>6 DEF RInv, Apart, Both, Me
<1> QED BY <1>1, <1>5, <1>6 DEF RInv

LEMMA RInvCommit ==
  ASSUME IInv, RInv, NEW w \in Workers, Commit(w)
  PROVE  RInv'
<1>1. /\ \A k \in Workers \ {w} : /\ gained'[k] = gained[k] /\ dropped'[k] = dropped[k]
                                  /\ worker'[k] = worker[k] \/ (worker[k].step = "queued" /\ worker'[k] = Idle)
      /\ worker'[w].step = "notify" /\ gained'[w] = {} /\ dropped'[w] = {}
      /\ followers' = followers \cup gained[w]
  BY DEF Commit, EndTx, Overwrite, IInv, TypeOK, Request
<1>2. gained[w] = {<<Creator(w), Me(w)>>, <<Me(w), Creator(w)>>} /\ Creator(w) # Me(w)
  BY DEF Commit, IInv, TxOK, RequestOK, OnLink
<1>3. \A p \in followers' : p[1] # p[2]
  BY <1>1, <1>2 DEF RInv
<1>4. \A k \in Workers \ {w} : worker'[k].step = "purge" <=> worker[k].step = "purge"
  BY <1>1 DEF Idle
<1>5. \A k \in Workers \ {w} : worker[k].step = "purge" => worker'[k] = worker[k]
  BY <1>1
<1> QED BY <1>1, <1>3, <1>4, <1>5 DEF RInv, Apart, Both, Me

LEMMA RInvPurge ==
  ASSUME IInv, RInv, NEW w \in Workers, PurgeState(w)
  PROVE  RInv'
<1>1. /\ \A k \in Workers \ {w} : /\ worker'[k] = worker[k] /\ gained'[k] = gained[k]
                                  /\ dropped'[k] = dropped[k]
      /\ worker'[w].step = "idle" /\ gained'[w] = {} /\ dropped'[w] = {}
      /\ followers' = followers \ dropped[w]
  BY DEF PurgeState, EndTx, Finish, Idle, IInv, TypeOK
<1> QED BY <1>1 DEF RInv, Apart, Both, Me

LEMMA RInvStep ==
  ASSUME IInv, RInv, [Next]_vars
  PROVE  RInv'
<1>1. CASE UNCHANGED <<worker, followers, gained, dropped>>
  BY <1>1, RInvIdle
<1>2. ASSUME NEW w \in Workers, NEW l \in Links, NEW u \in Users,
             NEW op \in {"accept", "reject"}, Check(w, op, l, u)
      PROVE  RInv'
  <2>1. \A k \in Workers \ {w} : worker'[k] = worker[k]
    BY <1>2 DEF Check, IInv, TypeOK
  <2>2. worker[w].step # "purge" /\ worker'[w].step # "purge"
    BY <1>2 DEF Check, Idle, IInv, TypeOK
  <2>3. UNCHANGED <<followers, gained, dropped>>
    BY <1>2 DEF Check, tables, transactions
  <2> QED BY <2>1, <2>2, <2>3, RInvIdle
<1>3. ASSUME NEW w \in Workers, NEW u \in Users, NEW v \in Users, CheckFriends(w, u, v)
      PROVE  RInv'
  <2>1. \A k \in Workers \ {w} : worker'[k] = worker[k]
    BY <1>3 DEF CheckFriends, IInv, TypeOK
  <2>2. worker[w].step # "purge" /\ worker'[w].step # "purge"
    BY <1>3 DEF CheckFriends, Idle, IInv, TypeOK
  <2>3. UNCHANGED <<followers, gained, dropped>>
    BY <1>3 DEF CheckFriends, tables, transactions
  <2> QED BY <2>1, <2>2, <2>3, RInvIdle
<1>4. ASSUME NEW w \in Workers, Expire(w) \/ Reject(w) PROVE RInv'
  <2>1. \A k \in Workers : \/ worker'[k] = worker[k]
                           \/ worker[k].step # "purge" /\ worker'[k].step = "idle"
    BY <1>4 DEF Expire, Reject, Overwrite, Idle, IInv, TypeOK
  <2>2. UNCHANGED <<followers, gained, dropped>>
    BY <1>4 DEF Expire, Reject, transactions
  <2> QED BY <2>1, <2>2, RInvIdle
<1>5. ASSUME NEW w \in Workers, Queue(w) \/ Claim(w) \/ Notify(w) \/ Refresh(w) PROVE RInv'
  <2>1. /\ worker[w].step # "purge"
        /\ Finish(w) \/ \E s \in Steps \ {"purge"} : Goto(w, s)
        /\ UNCHANGED <<followers, gained, dropped>>
    BY <1>5 DEF Queue, Claim, Notify, Refresh, Steps, tables, transactions
  <2>2. \A k \in Workers : \/ worker'[k] = worker[k]
                           \/ worker[k].step # "purge" /\ worker'[k].step # "purge"
    BY <2>1 DEF Finish, Goto, Idle, IInv, TypeOK, Request
  <2> QED BY <2>1, <2>2, RInvIdle
<1>6. ASSUME NEW w \in Workers, AlreadyFriends(w) \/ DeadlockVictim(w) \/ Fail(w) PROVE RInv'
  BY <1>6, RInvEnd DEF AlreadyFriends, DeadlockVictim, Fail, tables
<1> QED
  BY <1>1, <1>2, <1>3, <1>4, <1>5, <1>6, RInvAddFriend, RInvRemove, RInvCommit, RInvPurge
  DEF Next, Proceed, vars, tables, transactions, Elapse, Create

LEMMA AlwaysRInv == Spec => []RInv
<1>1. IInv /\ RInv /\ [Next]_vars => RInv'
  BY RInvStep
<1> QED BY <1>1, InitRInv, Invariance, PTL DEF Spec

-------------------------------------------------------------------------------
\* The refinement.

Friends == {{p[1], p[2]} : p \in followers}

LEMMA CommitBefriends ==
  ASSUME IInv, RInv, NEW w \in Workers, Commit(w)
  PROVE  \E l \in Links, u \in Users : F!Befriend(l, u)
<1>1. /\ gained[w] = {<<Creator(w), Me(w)>>, <<Me(w), Creator(w)>>} /\ Creator(w) # Me(w)
      /\ row[w] = worker[w].link /\ link[row[w]].state # "NONE"
      /\ link[row[w]].creator = Creator(w) /\ row[w] \in Links /\ Me(w) \in Users
  BY DEF Commit, IInv, TxOK, RequestOK, OnLink, Creator
<1>2. <<Creator(w), Me(w)>> \notin followers /\ <<Me(w), Creator(w)>> \notin followers
  BY <1>1 DEF RInv, Apart
<1>3. {Creator(w), Me(w)} \notin Friends
  <2> SUFFICES ASSUME NEW p \in followers, {p[1], p[2]} = {Creator(w), Me(w)} PROVE FALSE
    BY DEF Friends
  <2>1. p = <<p[1], p[2]>>
    BY DEF IInv, TypeOK, Pairs
  <2> QED BY <1>1, <1>2, <2>1
<1>4. Friends' = Friends \cup {{Creator(w), Me(w)}}
  <2>1. followers' = followers \cup {<<Creator(w), Me(w)>>, <<Me(w), Creator(w)>>}
    BY <1>1 DEF Commit
  <2>2. {Me(w), Creator(w)} = {Creator(w), Me(w)}
    OBVIOUS
  <2>3. Friends \cup {{Creator(w), Me(w)}} \subseteq Friends'
    <3>1. \A p \in followers' : {p[1], p[2]} \in Friends'
      BY DEF Friends
    <3>2. {<<Creator(w), Me(w)>>[1], <<Creator(w), Me(w)>>[2]} = {Creator(w), Me(w)}
      OBVIOUS
    <3>3. {Creator(w), Me(w)} \in Friends'
      BY <2>1, <3>1, <3>2
    <3>4. Friends \subseteq Friends'
      BY <2>1, <3>1 DEF Friends
    <3> QED BY <3>3, <3>4
  <2>4. ASSUME NEW p \in followers' PROVE {p[1], p[2]} \in Friends \cup {{Creator(w), Me(w)}}
    BY <2>1, <2>2, <2>4 DEF Friends
  <2> QED BY <2>3, <2>4 DEF Friends
<1>5. link' = [link EXCEPT ![row[w]].state = "ACCEPTED", ![row[w]].recipient = Me(w)]
  BY DEF Commit
<1> DEFINE l == row[w]
           u == Me(w)
<1>6. /\ link[l].state # "NONE" /\ link[l].creator # u
      /\ {link[l].creator, u} \notin Friends
      /\ link' = [link EXCEPT ![l].state = "ACCEPTED", ![l].recipient = u]
      /\ Friends' = Friends \cup {{link[l].creator, u}}
      /\ l \in Links /\ u \in Users
  BY <1>1, <1>3, <1>4, <1>5
<1> HIDE DEF l, u
<1> QED BY <1>6 DEF F!Befriend, Friends

LEMMA PurgeUnfriends ==
  ASSUME IInv, RInv, NEW w \in Workers, PurgeState(w)
  PROVE  UNCHANGED <<link, Friends>> \/ \E u, v \in Users : F!Unfriend(u, v)
<1> DEFINE u == Me(w)
           v == worker[w].peer
<1>1. followers' = followers \ dropped[w] /\ UNCHANGED link
  BY DEF PurgeState
<1>2. CASE dropped[w] = {}
  BY <1>1, <1>2 DEF Friends
<1>3. CASE dropped[w] = {<<u, v>>, <<v, u>>}
  <2> HIDE DEF u, v
  <2>1. <<u, v>> \in followers /\ u # v /\ u \in Users /\ v \in Users
    BY <1>3 DEF RInv, Apart, IInv, TypeOK, Pairs
  <2>2. {u, v} \in Friends
    BY <2>1 DEF Friends
  <2>3. Friends' = Friends \ {{u, v}}
    <3>1. ASSUME NEW p \in followers, p \notin dropped[w] PROVE {p[1], p[2]} # {u, v}
      <4>1. p = <<p[1], p[2]>>
        BY DEF IInv, TypeOK, Pairs
      <4> QED BY <1>3, <2>1, <3>1, <4>1
    <3>2. ASSUME NEW p \in followers, {p[1], p[2]} # {u, v} PROVE p \notin dropped[w]
      BY <1>3, <3>2
    <3> QED BY <1>1, <3>1, <3>2 DEF Friends
  <2> QED BY <1>1, <2>1, <2>2, <2>3 DEF F!Unfriend, Friends
<1>4. worker[w].step = "purge"
  BY DEF PurgeState
<1> QED BY <1>2, <1>3, <1>4 DEF RInv, Apart, Both

LEMMA RefinementStep ==
  ASSUME IInv, RInv, [Next]_vars
  PROVE  F!Next \/ UNCHANGED <<link, Friends>>
<1>1. CASE UNCHANGED <<link, followers>>
  BY <1>1 DEF Friends
<1>2. ASSUME NEW l \in Links, NEW u \in Users, Create(l, u) PROVE F!Next
  BY <1>2 DEF Create, F!Issue, F!Next
<1>3. ASSUME NEW w \in Workers, Expire(w) PROVE F!Next
  <2>1. PICK l \in Links : l = worker[w].link /\ link[l].state # "NONE"
    BY <1>3 DEF Expire, IInv, RequestOK, OnLink
  <2> QED BY <1>3, <2>1 DEF Expire, F!Lapse, F!Next
<1>4. ASSUME NEW w \in Workers, Reject(w) PROVE F!Next
  <2>1. PICK l \in Links, u \in Users :
            l = worker[w].link /\ u = Me(w) /\ link[l].state # "NONE" /\ link[l].creator # u
    BY <1>4 DEF Reject, IInv, RequestOK, OnLink, Creator
  <2> QED BY <1>4, <2>1 DEF Reject, F!Turn, F!Next
<1>5. ASSUME NEW w \in Workers, Commit(w) PROVE F!Next
  BY <1>5, CommitBefriends DEF F!Next
<1>6. ASSUME NEW w \in Workers, PurgeState(w)
      PROVE  F!Next \/ UNCHANGED <<link, Friends>>
  BY <1>6, PurgeUnfriends DEF F!Next
<1> QED
  BY <1>1, <1>2, <1>3, <1>4, <1>5, <1>6
  DEF Next, Proceed, vars, tables, Elapse, Check, CheckFriends, Queue, Claim, AddFriend,
      AlreadyFriends, Notify, Refresh, RemoveFriend, DeadlockVictim, Fail

\* The handlers of any number of workers, statement by statement, with their
\* locks, deadlocks and failures, do what Friendship does in one step each: the
\* commits of accepts and removals are its actions, in one order for everybody.
THEOREM Refinement == Spec => Implements
<1>1. Init => F!Init
  BY DEF Init, F!Init, NoRow, F!NoRow
<1>2. IInv /\ RInv /\ [Next]_vars => [F!Next]_F!vars
  BY RefinementStep DEF F!vars, Friends
<1> QED BY <1>1, <1>2, Invariance, AlwaysRInv, PTL DEF Spec, Implements, F!Spec

-------------------------------------------------------------------------------
\* The rows of users_followers_state.

\* What w is going to purge and will not have deleted from users_followers is of a
\* friendship made since w began.
Removing(w) ==
    worker[w].step = "purge" =>
        followers \cap Between(Me(w), worker[w].peer) \subseteq dropped[w] \cup straddled

VInv == (\A w \in Workers : Removing(w)) /\ FriendsHavePerception

LEMMA VInvCommit ==
  ASSUME IInv, VInv, NEW w \in Workers, Commit(w)
  PROVE  VInv'
<1>1. /\ \A k \in Workers \ {w} : /\ dropped'[k] = dropped[k]
                                  /\ worker'[k] = worker[k] \/ worker'[k] = Idle
      /\ worker'[w].step = "notify"
      /\ followers' = followers \cup gained[w]
      /\ perception' = perception \cup gained[w]
      /\ straddled' = straddled \cup {p \in gained[w] : \E k \in Workers : p \in Removal(k)}
  BY DEF Commit, EndTx, Overwrite, IInv, TypeOK, Request
<1>2. gained[w] = {<<Creator(w), Me(w)>>, <<Me(w), Creator(w)>>}
  BY DEF Commit, IInv, TxOK
<1>3. ASSUME NEW k \in Workers PROVE Removing(k)'
  <2> SUFFICES ASSUME worker'[k].step = "purge" PROVE Removing(k)'
    BY DEF Removing
  <2>1. k # w /\ worker'[k] = worker[k] /\ dropped'[k] = dropped[k]
    BY <1>1 DEF Idle
  <2>2. Removal(k) = Between(Me(k), worker[k].peer)
    BY <2>1 DEF Removal
  <2>3. gained[w] \cap Between(Me(k), worker[k].peer) \subseteq straddled'
    BY <1>1, <2>2
  <2> QED BY <1>1, <2>1, <2>3 DEF VInv, Removing, Me
<1>4. FriendsHavePerception'
  <2>1. ASSUME NEW p \in perception' PROVE p \in followers' /\ <<p[2], p[1]>> \in perception'
    <3>1. CASE p \in perception
      BY <1>1, <3>1 DEF VInv, FriendsHavePerception
    <3>2. CASE p \in gained[w]
      <4>1. <<p[2], p[1]>> \in gained[w]
        BY <1>2, <3>2
      <4> QED BY <1>1, <3>2, <4>1
    <3> QED BY <1>1, <2>1, <3>1, <3>2
  <2>2. followers' \ straddled' \subseteq perception'
    BY <1>1 DEF VInv, FriendsHavePerception
  <2> QED BY <2>1, <2>2 DEF FriendsHavePerception
<1> QED BY <1>3, <1>4 DEF VInv

LEMMA VInvPurge ==
  ASSUME IInv, RInv, VInv, NEW w \in Workers, PurgeState(w)
  PROVE  VInv'
<1> DEFINE B == Between(Me(w), worker[w].peer)
<1>1. /\ \A k \in Workers \ {w} : worker'[k] = worker[k] /\ dropped'[k] = dropped[k]
      /\ worker'[w].step = "idle" /\ worker[w].step = "purge"
      /\ followers' = followers \ dropped[w]
      /\ perception' = perception \ B
      /\ straddled' = straddled \ dropped[w]
  BY DEF PurgeState, Finish, EndTx, Idle, IInv, TypeOK
<1>2. ASSUME NEW k \in Workers PROVE Removing(k)'
  BY <1>1 DEF VInv, Removing, Me
<1>3. ASSUME NEW p \in perception' PROVE p \in followers' /\ <<p[2], p[1]>> \in perception'
  <2>1. p \in perception /\ p \notin B /\ p \in followers /\ <<p[2], p[1]>> \in perception
    BY <1>1, <1>3 DEF VInv, FriendsHavePerception
  <2>2. dropped[w] \subseteq B
    BY <1>1 DEF RInv, Apart, Both, Between
  <2>3. p = <<p[1], p[2]>>
    BY <2>1 DEF IInv, TypeOK, Pairs
  <2>4. <<p[2], p[1]>> \notin B
    BY <2>1, <2>3 DEF Between
  <2> HIDE DEF B
  <2> QED BY <1>1, <2>1, <2>2, <2>4
<1>4. followers' \ straddled' \subseteq perception'
  <2>1. followers \cap B \subseteq dropped[w] \cup straddled
    BY <1>1 DEF VInv, Removing
  <2> HIDE DEF B
  <2> QED BY <1>1, <2>1 DEF VInv, FriendsHavePerception
<1> QED BY <1>2, <1>3, <1>4 DEF VInv, FriendsHavePerception

LEMMA VInvStep ==
  ASSUME IInv, RInv, VInv, [Next]_vars
  PROVE  VInv'
<1>1. ASSUME UNCHANGED <<followers, perception, straddled>>,
             \A k \in Workers : \/ worker'[k] = worker[k] /\ dropped'[k] = dropped[k]
                                \/ worker'[k].step # "purge"
      PROVE  VInv'
  BY <1>1 DEF VInv, Removing, FriendsHavePerception, Me
<1>2. CASE UNCHANGED <<worker, dropped, followers, perception, straddled>>
  BY <1>1, <1>2
<1>3. ASSUME NEW w \in Workers, NEW l \in Links, NEW u \in Users,
             NEW op \in {"accept", "reject"}, Check(w, op, l, u)
      PROVE  VInv'
  BY <1>1, <1>3 DEF Check, tables, transactions, history, IInv, TypeOK
<1>4. ASSUME NEW w \in Workers, NEW u \in Users, NEW v \in Users, CheckFriends(w, u, v)
      PROVE  VInv'
  BY <1>1, <1>4 DEF CheckFriends, tables, transactions, history, IInv, TypeOK
<1>5. ASSUME NEW w \in Workers, RemoveFriend(w) PROVE VInv'
  <2>1. /\ \A k \in Workers \ {w} : worker'[k] = worker[k] /\ dropped'[k] = dropped[k]
        /\ worker'[w].user = Me(w) /\ worker'[w].peer = worker[w].peer
        /\ dropped'[w] = followers \cap Between(Me(w), worker[w].peer)
        /\ UNCHANGED <<followers, perception, straddled>>
    BY <1>5 DEF RemoveFriend, Needs, Goto, Me, tables, history, IInv, TypeOK, Request
  <2> QED BY <2>1 DEF VInv, Removing, FriendsHavePerception, Me
<1>6. ASSUME NEW w \in Workers, Expire(w) \/ Reject(w) PROVE VInv'
  BY <1>1, <1>6 DEF Expire, Reject, Overwrite, Idle, transactions, history, IInv, TypeOK
<1>7. ASSUME NEW w \in Workers,
             \/ Queue(w) \/ Claim(w) \/ AddFriend(w) \/ AlreadyFriends(w) \/ Notify(w)
             \/ Refresh(w) \/ DeadlockVictim(w) \/ Fail(w)
      PROVE  VInv'
  <2>1. /\ \/ Finish(w)
           \/ worker[w].step = "befriend" /\ UNCHANGED worker
           \/ \E s \in {"queued", "befriend", "commit", "refresh"} : Goto(w, s)
        /\ UNCHANGED <<followers, perception, straddled>>
    BY <1>7 DEF Queue, Claim, AddFriend, AlreadyFriends, Notify, Refresh, DeadlockVictim, Fail, tables,
                history
  <2>2. \A k \in Workers \ {w} : worker'[k] = worker[k] /\ dropped'[k] = dropped[k]
    BY <1>7, <2>1 DEF Queue, Claim, AddFriend, AlreadyFriends, Notify, Refresh, DeadlockVictim, Fail,
                      EndTx, Finish, Goto, transactions, IInv, TypeOK
  <2>3. worker'[w].step # "purge"
    BY <2>1 DEF Finish, Goto, Idle, IInv, TypeOK, Request
  <2> QED BY <1>1, <2>1, <2>2, <2>3
<1> QED
  BY <1>2, <1>3, <1>4, <1>5, <1>6, <1>7, VInvCommit, VInvPurge
  DEF Next, Proceed, vars, tables, transactions, history, Elapse, Create

\* However many workers accept and remove, in whatever order and wherever they fail,
\* friends have both of the rows that the details of a user are read from, or neither,
\* and both if no removal between the two was in progress when they became friends.
THEOREM BothPerceive == Spec => []FriendsHavePerception
<1>1. Init => VInv
  BY DEF Init, VInv, Removing, FriendsHavePerception, Idle
<1>2. IInv /\ RInv /\ VInv /\ [Next]_vars => VInv'
  BY VInvStep
<1>3. VInv => FriendsHavePerception
  BY DEF VInv
<1> QED BY <1>1, <1>2, <1>3, Invariance, AlwaysRInv, PTL DEF Spec
===============================================================================
