--------------------------- MODULE AuthServerProofs ---------------------------
(***************************************************************************)
(* Proofs about AuthServer, for any users, devices and codes.  For any     *)
(* number of requests in progress: who ends a transaction, types, and what *)
(* a request that ran beside no other has done when it is answered.  For   *)
(* requests apart from each other's transactions: accounts, codes and      *)
(* devices, and that requests are atomic.                                  *)
(***************************************************************************)
EXTENDS AuthServer, SequenceTheorems, TLAPS

\* The part of the type invariant the transaction status depends on.
ShapeOK == at \in [Handlers -> Request] /\ queue \in Seq(Handlers)

\* BEGIN, COMMIT and ROLLBACK are statements of withSerializableTransaction only,
\* and deleteDevice runs in one.
BracketSteps == {"begin", "commit", "rollback", "auth", "exists", "drop"}
BracketsOK == \A h \in Handlers : at[h].step \in BracketSteps => at[h].op \in Transactional

SInv == ShapeOK /\ BracketsOK /\ SessionOwned

LEMMA InitSInv == Init => SInv
<1> SUFFICES ASSUME Init PROVE SInv
  OBVIOUS
<1>1. at \in [Handlers -> Request]
  BY DEF Init, Fresh, Request, Steps
<1>2. queue \in Seq(Handlers)
  BY DEF Init
<1> QED BY <1>1, <1>2 DEF Init, SInv, ShapeOK, BracketsOK, BracketSteps, SessionOwned, Fresh

-------------------------------------------------------------------------------
\* What a statement of h leaves of the request of h and of the queue.
Served(h) ==
    /\ at' = [at EXCEPT ![h] = at'[h]]
    /\ at'[h] \in Request
    /\ at'[h].op = at[h].op
    /\ queue' \in {Tail(queue), Append(Tail(queue), h)}

LEMMA ServeType ==
  ASSUME ShapeOK, NEW h \in Handlers, queue # <<>>, Served(h)
  PROVE  ShapeOK'
<1>1. Tail(queue) \in Seq(Handlers)
  BY HeadTailProperties DEF ShapeOK
<1>2. queue' \in Seq(Handlers)
  BY <1>1, AppendProperties DEF Served
<1> QED BY <1>2 DEF ShapeOK, Served

LEMMA IssueServes ==
  ASSUME ShapeOK, NEW h \in Handlers, NEW r \in Request, r.op = at[h].op, Issue(h, r)
  PROVE  Served(h) /\ at'[h] = r
<1>1. at' = [at EXCEPT ![h] = r] /\ at'[h] = r
  BY DEF Issue, ShapeOK
<1> QED BY <1>1 DEF Issue, Served

LEMMA GotoServes ==
  ASSUME ShapeOK, NEW h \in Handlers, NEW s \in Steps, Goto(h, s)
  PROVE  Served(h) /\ at'[h].step = s
<1>1. at[h] \in Request
  BY DEF ShapeOK
<1> DEFINE r == [at[h] EXCEPT !.step = s]
<1>2. r \in Request /\ r.op = at[h].op /\ r.step = s
  BY <1>1 DEF Request
<1>3. Issue(h, r)
  BY DEF Goto
<1> HIDE DEF r
<1> QED BY <1>2, <1>3, IssueServes

LEMMA FinishServes ==
  ASSUME ShapeOK, NEW h \in Handlers, NEW a \in {"ok", "error"}, Finish(h, a)
  PROVE  Served(h) /\ at'[h].step = "idle"
<1>1. at[h] \in Request
  BY DEF ShapeOK
<1> DEFINE r == [at[h] EXCEPT !.step = "idle", !.reply = First(at[h], a)]
<1>2. r \in Request /\ r.op = at[h].op /\ r.step = "idle"
  BY <1>1, ZenonT(40) DEF Request, Steps, First
<1>3. at' = [at EXCEPT ![h] = r] /\ at'[h] = r
  BY DEF Finish, ShapeOK
<1>4. queue' = Tail(queue)
  BY DEF Finish
<1> HIDE DEF r
<1> QED BY <1>2, <1>3, <1>4 DEF Served

LEMMA ThrowServes ==
  ASSUME ShapeOK, NEW h \in Handlers, Throw(h)
  PROVE  /\ Served(h)
         /\ \/ at'[h].step = "rollback" /\ at[h].op \in Transactional /\ at[h].step # "auth"
            \/ at'[h].step = "idle" /\ ~(at[h].op \in Transactional /\ at[h].step # "auth")
<1>1. CASE at[h].op \in Transactional /\ at[h].step # "auth"
  BY <1>1, GotoServes DEF Throw, Steps
<1>2. CASE ~(at[h].op \in Transactional /\ at[h].step # "auth")
  BY <1>2, FinishServes DEF Throw
<1> QED BY <1>1, <1>2

-------------------------------------------------------------------------------
\* A statement that keeps its handler within what withSerializableTransaction
\* opened, and leaves the session in or out of a transaction, as it was.
Within(h) ==
    /\ Served(h)
    /\ session' = "idle" <=> session = "idle"
    /\ at'[h].step \in BracketSteps => at[h].op \in Transactional
    /\ InTransaction(h) => InTransaction(h)'

LEMMA WithinKeeps ==
  ASSUME SInv, NEW h \in Handlers, queue # <<>>, Within(h)
  PROVE  SInv'
<1>1. ShapeOK'
  BY ServeType DEF SInv, Within
<1>2. \A k \in Handlers \ {h} : at'[k] = at[k]
  BY DEF Within, Served, SInv, ShapeOK
<1>3. BracketsOK'
  <2> SUFFICES ASSUME NEW k \in Handlers, at'[k].step \in BracketSteps
               PROVE  at'[k].op \in Transactional
    BY DEF BracketsOK, BracketSteps, Transactional
  <2>1. CASE k = h
    BY <2>1 DEF Within, Served
  <2>2. CASE k # h
    BY <2>2, <1>2 DEF SInv, BracketsOK
  <2> QED BY <2>1, <2>2
<1>4. SessionOwned'
  <2> SUFFICES ASSUME session' # "idle" PROVE \E k \in Handlers : InTransaction(k)'
    BY DEF SessionOwned
  <2>1. PICK k \in Handlers : InTransaction(k)
    BY DEF Within, SInv, SessionOwned
  <2>2. CASE k = h
    BY <2>1, <2>2 DEF Within
  <2>3. CASE k # h
    BY <2>1, <2>3, <1>2 DEF InTransaction
  <2> QED BY <2>2, <2>3
<1> QED BY <1>1, <1>3, <1>4 DEF SInv

\* The four ways on that most statements choose from.
LEMMA GotoWithin ==
  ASSUME SInv, NEW h \in Handlers, NEW s \in Steps, Goto(h, s),
         session' = "idle" <=> session = "idle",
         s \notin {"idle", "begin", "auth"},
         s \in BracketSteps => at[h].op \in Transactional
  PROVE  Within(h)
<1>1. Served(h) /\ at'[h].step = s
  BY GotoServes DEF SInv
<1>2. InTransaction(h) => InTransaction(h)'
  BY <1>1 DEF InTransaction, Served, Transactional
<1> QED BY <1>1, <1>2 DEF Within

LEMMA ThrowWithin ==
  ASSUME SInv, NEW h \in Handlers, Throw(h), session' = "idle" <=> session = "idle"
  PROVE  Within(h)
<1>1. Served(h)
  BY ThrowServes DEF SInv
<1>2. at'[h].step \in BracketSteps => at[h].op \in Transactional
  BY ThrowServes DEF SInv, BracketSteps
<1>3. InTransaction(h) => InTransaction(h)'
  BY <1>1, ThrowServes DEF SInv, InTransaction, Served, Transactional
<1> QED BY <1>1, <1>2, <1>3 DEF Within

\* A handler answers outside of withSerializableTransaction.
LEMMA FinishWithin ==
  ASSUME SInv, NEW h \in Handlers, NEW a \in {"ok", "error"}, Finish(h, a),
         session' = "idle" <=> session = "idle", ~InTransaction(h)
  PROVE  Within(h)
<1>1. Served(h) /\ at'[h].step = "idle"
  BY FinishServes DEF SInv
<1> QED BY <1>1 DEF Within, BracketSteps

\* What Write, ReadOnly and Broken do to the status of the session.
LEMMA StatusKept ==
  ASSUME (\E t : Write(t)) \/ ReadOnly \/ Broken
  PROVE  session' = "idle" <=> session = "idle"
BY DEF Write, ReadOnly, Broken, store

-------------------------------------------------------------------------------
\* Every statement but BEGIN, COMMIT and ROLLBACK stays within.

\* Those that only choose the next step, or throw.
Plain(h) ==
    \/ AddUser(h) \/ Details(h) \/ Perceptions(h) \/ NoDetails(h)
    \/ Validate(h) \/ PeekOwn(h) \/ DropOwn(h) \/ PeekDevice(h) \/ DropDevice(h)
    \/ OwnerOf(h) \/ DevicesOf(h) \/ Bind(h) \/ Describe(h) \/ RegisterPublicKey(h)

LEMMA PlainWithin ==
  ASSUME SInv, NEW h \in Handlers, Plain(h)
  PROVE  Within(h)
<1> USE DEF BracketSteps, Steps
<1>1. CASE AddUser(h)
  <2>1. session' = "idle" <=> session = "idle"
    BY <1>1, StatusKept DEF AddUser, Insert
  <2> QED BY <1>1, <2>1, ThrowWithin, GotoWithin DEF AddUser, Insert
<1>2. CASE Details(h)
  <2>1. session' = "idle" <=> session = "idle"
    BY <1>2, StatusKept DEF Details
  <2> QED BY <1>2, <2>1, GotoWithin DEF Details
<1>3. CASE Perceptions(h)
  <2>1. session' = "idle" <=> session = "idle"
    BY <1>3, StatusKept DEF Perceptions
  <2> QED BY <1>3, <2>1, GotoWithin DEF Perceptions, Transactional
<1>4. CASE NoDetails(h)
  <2>1. session' = "idle" <=> session = "idle"
    BY <1>4, StatusKept DEF NoDetails
  <2> QED BY <1>4, <2>1, ThrowWithin DEF NoDetails
<1>5. CASE Validate(h)
  <2>1. session' = "idle" <=> session = "idle"
    BY <1>5, StatusKept DEF Validate
  <2> QED BY <1>5, <2>1, ThrowWithin, GotoWithin DEF Validate
<1>6. CASE PeekOwn(h)
  <2>1. session' = "idle" <=> session = "idle"
    BY <1>6, StatusKept DEF PeekOwn
  <2> QED BY <1>6, <2>1, GotoWithin DEF PeekOwn
<1>7. CASE DropOwn(h)
  <2>1. session' = "idle" <=> session = "idle"
    BY <1>7, StatusKept DEF DropOwn
  <2> QED BY <1>7, <2>1, GotoWithin DEF DropOwn
<1>8. CASE PeekDevice(h)
  <2>1. session' = "idle" <=> session = "idle"
    BY <1>8, StatusKept DEF PeekDevice
  <2> QED BY <1>8, <2>1, GotoWithin DEF PeekDevice
<1>9. CASE DropDevice(h)
  <2>1. session' = "idle" <=> session = "idle"
    BY <1>9, StatusKept DEF DropDevice
  <2> QED BY <1>9, <2>1, GotoWithin DEF DropDevice
<1>10. CASE OwnerOf(h)
  <2>1. session' = "idle" <=> session = "idle"
    BY <1>10, StatusKept DEF OwnerOf
  <2> QED BY <1>10, <2>1, ThrowWithin, GotoWithin DEF OwnerOf
<1>11. CASE DevicesOf(h)
  <2>1. session' = "idle" <=> session = "idle"
    BY <1>11, StatusKept DEF DevicesOf
  <2> QED BY <1>11, <2>1, ThrowWithin, GotoWithin DEF DevicesOf
<1>12. CASE Bind(h)
  <2>1. session' = "idle" <=> session = "idle"
    BY <1>12, StatusKept DEF Bind
  <2> QED BY <1>12, <2>1, ThrowWithin, GotoWithin DEF Bind
<1>13. CASE Describe(h)
  <2>1. session' = "idle" <=> session = "idle"
    BY <1>13, StatusKept DEF Describe
  <2> QED BY <1>13, <2>1, ThrowWithin, GotoWithin DEF Describe
<1>14. CASE RegisterPublicKey(h)
  <2>1. session' = "idle" <=> session = "idle"
    BY <1>14, StatusKept DEF RegisterPublicKey
  <2> QED BY <1>14, <2>1, ThrowWithin, GotoWithin DEF RegisterPublicKey
<1> QED BY <1>1, <1>2, <1>3, <1>4, <1>5, <1>6, <1>7, <1>8, <1>9, <1>10, <1>11, <1>12, <1>13, <1>14 DEF Plain

LEMMA AddProfileRowWithin ==
  ASSUME SInv, NEW h \in Handlers, NEW r, NEW next \in Steps \ BracketSteps, next # "idle",
         AddProfileRow(h, r, next)
  PROVE  Within(h)
<1>1. session' = "idle" <=> session = "idle"
  BY StatusKept DEF AddProfileRow, Insert
<1>2. Throw(h) \/ Goto(h, next)
  BY DEF AddProfileRow, Insert
<1> QED BY <1>1, <1>2, ThrowWithin, GotoWithin DEF BracketSteps

LEMMA WhoIsWithin ==
  ASSUME SInv, NEW h \in Handlers, WhoIs(h)
  PROVE  Within(h)
<1>1. session' = "idle" <=> session = "idle"
  BY StatusKept DEF WhoIs
<1>2. at[h] \in Request
  BY DEF SInv, ShapeOK
<1> DEFINE r == [at[h] EXCEPT
           !.user = IF Registered(tmp, @) THEN @ ELSE None,
           !.step = CASE at[h].op # "verify" -> "details"
                      [] at[h].op = "verify" /\ at[h].wipe -> "peekOwn"
                      [] at[h].op = "verify" /\ ~at[h].wipe -> "ownerOf"]
<1>3. r \in Request /\ r.op = at[h].op /\ r.step \in {"details", "peekOwn", "ownerOf"}
  BY <1>2, ZenonT(40) DEF Request, Steps
<1>4. Issue(h, r)
  BY DEF WhoIs
<1> HIDE DEF r
<1>5. Served(h) /\ at'[h] = r
  BY <1>3, <1>4, IssueServes DEF SInv
<1> QED BY <1>1, <1>3, <1>5 DEF Within, InTransaction, BracketSteps

LEMMA AddCodeWithin ==
  ASSUME SInv, NEW h \in Handlers, AddCode(h)
  PROVE  Within(h)
<1>1. session' = "idle" <=> session = "idle"
  BY StatusKept DEF AddCode
<1>2. CASE at[h].op \in Transactional /\ Goto(h, "commit")
  BY <1>1, <1>2, GotoWithin DEF BracketSteps, Steps
<1>3. CASE at[h].op \notin Transactional /\ Finish(h, "ok")
  BY <1>1, <1>3, FinishWithin DEF InTransaction
<1>4. CASE Throw(h)
  BY <1>1, <1>4, ThrowWithin
<1> QED BY <1>2, <1>3, <1>4 DEF AddCode

LEMMA AddCodeFailsWithin ==
  ASSUME SInv, NEW h \in Handlers, AddCodeFails(h)
  PROVE  Within(h)
<1>1. session' = "idle" <=> session = "idle"
  BY StatusKept DEF AddCodeFails
<1> QED BY <1>1, ThrowWithin DEF AddCodeFails

LEMMA RefusedWithin ==
  ASSUME SInv, NEW h \in Handlers, Refused(h)
  PROVE  Within(h)
<1>1. session' = "idle" <=> session = "idle"
  BY DEF Refused, store
<1> QED BY <1>1, ThrowWithin DEF Refused

LEMMA AuthenticateWithin ==
  ASSUME SInv, NEW h \in Handlers, Authenticate(h)
  PROVE  Within(h)
<1>1. session' = "idle" <=> session = "idle"
  BY StatusKept DEF Authenticate
<1>2. at[h].step = "auth" /\ at[h].op \in Transactional
  BY DEF Authenticate, Runs, Turn, SInv, BracketsOK, BracketSteps
<1>3. CASE Goto(h, "begin")
  <2>1. Served(h) /\ at'[h].step = "begin"
    BY <1>3, GotoServes DEF SInv, Steps
  <2> QED BY <1>1, <1>2, <2>1 DEF Within, InTransaction
<1>4. CASE Finish(h, "error")
  BY <1>1, <1>2, <1>4, FinishWithin DEF InTransaction
<1> QED BY <1>3, <1>4 DEF Authenticate

\* deleteDevice answers before its COMMIT.
LEMMA CommitNextWithin ==
  ASSUME SInv, NEW h \in Handlers, at[h].op \in Transactional,
         Issue(h, [at[h] EXCEPT !.step = "commit", !.reply = "ok"]),
         session' = "idle" <=> session = "idle"
  PROVE  Within(h)
<1>1. at[h] \in Request
  BY DEF SInv, ShapeOK
<1> DEFINE r == [at[h] EXCEPT !.step = "commit", !.reply = "ok"]
<1>2. r \in Request /\ r.op = at[h].op /\ r.step = "commit"
  BY <1>1 DEF Request, Steps
<1>3. Issue(h, r)
  OBVIOUS
<1> HIDE DEF r
<1>4. Served(h) /\ at'[h] = r
  BY <1>2, <1>3, IssueServes DEF SInv
<1> QED BY <1>2, <1>4 DEF Within, InTransaction

LEMMA ExistsWithin ==
  ASSUME SInv, NEW h \in Handlers, Exists(h)
  PROVE  Within(h)
<1>1. session' = "idle" <=> session = "idle"
  BY StatusKept DEF Exists
<1>2. at[h].op \in Transactional
  BY DEF Exists, Runs, Turn, SInv, BracketsOK, BracketSteps
<1>3. CASE Goto(h, "drop")
  BY <1>1, <1>2, <1>3, GotoWithin DEF Steps
<1>4. CASE ~Goto(h, "drop")
  BY <1>1, <1>2, <1>4, CommitNextWithin DEF Exists
<1> QED BY <1>3, <1>4

LEMMA DeleteDeviceWithin ==
  ASSUME SInv, NEW h \in Handlers, DeleteDevice(h)
  PROVE  Within(h)
<1>1. session' = "idle" <=> session = "idle"
  BY StatusKept DEF DeleteDevice
<1>2. at[h].op \in Transactional
  BY DEF DeleteDevice, Runs, Turn, SInv, BracketsOK, BracketSteps
<1> QED BY <1>1, <1>2, ThrowWithin, CommitNextWithin DEF DeleteDevice

-------------------------------------------------------------------------------
\* BEGIN, and what ends a transaction.

LEMMA BeginKeeps ==
  ASSUME SInv, NEW h \in Handlers, Begin(h)
  PROVE  SInv'
<1>1. queue # <<>> /\ at[h].step = "begin" /\ at[h].op \in Transactional
  BY DEF Begin, Runs, Turn, SInv, BracketsOK, BracketSteps
<1> DEFINE s == AfterBegin(at[h].op)
<1>2. s \in {"users", "validate", "exists"} /\ Goto(h, s)
  BY <1>1 DEF AfterBegin, Begin
<1> HIDE DEF s
<1>3. Served(h) /\ at'[h].step = s
  BY <1>2, GotoServes DEF SInv, Steps
<1>4. ShapeOK'
  BY <1>1, <1>3, ServeType DEF SInv
<1>5. \A k \in Handlers \ {h} : at'[k] = at[k]
  BY <1>3 DEF Served, SInv, ShapeOK
<1>6. BracketsOK'
  BY <1>1, <1>3, <1>5 DEF BracketsOK, SInv, Served, Transactional, BracketSteps
<1>7. InTransaction(h)'
  BY <1>1, <1>2, <1>3 DEF InTransaction, Served, Transactional
<1> QED BY <1>4, <1>6, <1>7 DEF SInv, SessionOwned

\* COMMIT and ROLLBACK leave no transaction, so nobody needs to own one.
LEMMA EndKeeps ==
  ASSUME SInv, NEW h \in Handlers, queue # <<>>, Served(h), session' = "idle",
         at'[h].step \in BracketSteps => at[h].op \in Transactional
  PROVE  SInv'
<1>1. ShapeOK'
  BY ServeType DEF SInv
<1>2. \A k \in Handlers \ {h} : at'[k] = at[k]
  BY DEF Served, SInv, ShapeOK
<1>3. BracketsOK'
  <2> SUFFICES ASSUME NEW k \in Handlers, at'[k].step \in BracketSteps
               PROVE  at'[k].op \in Transactional
    BY DEF BracketsOK, BracketSteps, Transactional
  <2>1. CASE k = h
    BY <2>1 DEF Served
  <2>2. CASE k # h
    BY <2>2, <1>2 DEF SInv, BracketsOK
  <2> QED BY <2>1, <2>2
<1> QED BY <1>1, <1>3 DEF SInv, SessionOwned

LEMMA CommitKeeps ==
  ASSUME SInv, NEW h \in Handlers, Commit(h)
  PROVE  SInv'
<1>1. Served(h) /\ at'[h].step = "idle"
  BY FinishServes DEF Commit, SInv
<1> QED BY <1>1, EndKeeps DEF Commit, Turn, BracketSteps

LEMMA CommitFailsKeeps ==
  ASSUME SInv, NEW h \in Handlers, CommitFails(h)
  PROVE  SInv'
<1>1. Served(h) /\ at'[h].step = "rollback"
  BY GotoServes DEF CommitFails, SInv, Steps
<1> QED BY <1>1, EndKeeps DEF CommitFails, Turn, Transactional

LEMMA RollbackKeeps ==
  ASSUME SInv, NEW h \in Handlers, Rollback(h)
  PROVE  SInv'
<1>1. Served(h) /\ at'[h].step = "idle"
  BY FinishServes DEF Rollback, SInv
<1> QED BY <1>1, EndKeeps DEF Rollback, Turn, BracketSteps

-------------------------------------------------------------------------------
\* What is not a statement.

LEMMA ReceiveKeeps ==
  ASSUME SInv, NEW h \in Handlers, NEW op \in Ops, NEW u \in Users, NEW d \in Devices \cup {None},
         NEW c \in Codes \cup {None}, NEW wipe \in BOOLEAN, Receive(h, op, u, d, c, wipe)
  PROVE  SInv'
<1> DEFINE r == [op |-> op, step |-> Start(op), user |-> u, device |-> d,
                 code |-> c, wipe |-> wipe, reply |-> "none"]
<1>1. Start(op) \in Steps /\ (Start(op) \in BracketSteps => op \in Transactional)
  BY DEF Start, Steps, BracketSteps, Transactional, Ops
<1>2. r \in Request
  BY <1>1 DEF Request
<1>3. at' = [at EXCEPT ![h] = r] /\ at[h].step = "idle" /\ queue' = Append(queue, h)
      /\ session' = session
  BY DEF Receive, store
<1>4. r.op = op /\ r.step = Start(op)
  OBVIOUS
<1> HIDE DEF r
<1>5. ShapeOK'
  BY <1>2, <1>3, AppendProperties DEF SInv, ShapeOK
<1>6. BracketsOK'
  BY <1>1, <1>3, <1>4 DEF SInv, ShapeOK, BracketsOK, BracketSteps
<1>7. SessionOwned'
  BY <1>3 DEF SInv, ShapeOK, SessionOwned, InTransaction
<1> QED BY <1>5, <1>6, <1>7 DEF SInv

LEMMA ArriveKeeps ==
  ASSUME SInv, NEW h \in Handlers, Arrive(h)
  PROVE  SInv'
<1> USE DEF Ops
<1>1. CASE \E u \in Users, c \in Codes, op \in {"login", "loginSms", "register", "registerSms"} :
               NewCode(c) /\ Receive(h, op, u, None, c, FALSE)
  BY <1>1, ReceiveKeeps
<1>2. CASE \E u \in Users, d \in Devices : Receive(h, "delete", u, d, None, FALSE)
  BY <1>2, ReceiveKeeps
<1>3. CASE \E u \in Users, d \in Devices, c \in Codes, wipe \in BOOLEAN :
               Receive(h, "verify", u, d, c, wipe)
  BY <1>3, ReceiveKeeps
<1> QED BY <1>1, <1>2, <1>3 DEF Arrive

LEMMA CrashKeeps == SInv /\ Crash => SInv'
<1> SUFFICES ASSUME SInv, Crash PROVE SInv'
  OBVIOUS
<1>1. Fresh \in Request
  BY DEF Fresh, Request, Steps
<1>2. ShapeOK'
  BY <1>1 DEF Crash, ShapeOK
<1> QED BY <1>2 DEF SInv, Crash, BracketsOK, BracketSteps, SessionOwned, Fresh

LEMMA UnchangedKeeps ==
  ASSUME SInv, UNCHANGED <<at, queue, session>>
  PROVE  SInv'
BY DEF SInv, ShapeOK, BracketsOK, SessionOwned, InTransaction

-------------------------------------------------------------------------------
LEMMA StatementKeeps ==
  ASSUME SInv, NEW h \in Handlers, Statement(h)
  PROVE  SInv'
<1>1. CASE Begin(h) \/ Commit(h) \/ CommitFails(h) \/ Rollback(h)
  BY <1>1, BeginKeeps, CommitKeeps, CommitFailsKeeps, RollbackKeeps
<1>2. CASE Plain(h)
  <2>1. queue # <<>>
    BY <1>2 DEF Plain, Runs, Turn, AddUser, Details, Perceptions, NoDetails, Validate, PeekOwn,
       DropOwn, PeekDevice, DropDevice, OwnerOf, DevicesOf, Bind, Describe, RegisterPublicKey
  <2> QED BY <1>2, <2>1, PlainWithin, WithinKeeps
<1>3. CASE \/ AddProfileRow(h, "user_details", "users_state")
           \/ AddProfileRow(h, "users_state", "users_settings")
           \/ AddProfileRow(h, "users_settings", AfterSettings(at[h].op))
  <2>1. queue # <<>>
    BY <1>3 DEF AddProfileRow, Runs, Turn
  <2>2. AfterSettings(at[h].op) \in {"whois", "addCode"}
    BY DEF AfterSettings
  <2>3. Within(h)
    BY <1>3, <2>2, AddProfileRowWithin DEF Steps, BracketSteps
  <2> QED BY <2>1, <2>3, WithinKeeps
<1>4. CASE WhoIs(h) \/ AddCode(h) \/ AddCodeFails(h)
  <2>1. queue # <<>>
    BY <1>4 DEF WhoIs, AddCode, AddCodeFails, Runs, Turn
  <2> QED BY <1>4, <2>1, WhoIsWithin, AddCodeWithin, AddCodeFailsWithin, WithinKeeps
<1>5. CASE Refused(h) \/ Authenticate(h) \/ Exists(h) \/ DeleteDevice(h)
  <2>1. queue # <<>>
    BY <1>5 DEF Refused, Authenticate, Exists, DeleteDevice, Runs, Turn
  <2> QED BY <1>5, <2>1, RefusedWithin, AuthenticateWithin, ExistsWithin, DeleteDeviceWithin,
             WithinKeeps
<1> QED BY <1>1, <1>2, <1>3, <1>4, <1>5 DEF Statement, Plain

LEMMA NextKeeps == SInv /\ [Next]_vars => SInv'
<1> SUFFICES ASSUME SInv, [Next]_vars PROVE SInv'
  OBVIOUS
<1>1. CASE UNCHANGED vars
  BY <1>1, UnchangedKeeps DEF vars
<1>2. ASSUME NEW h \in Handlers, Arrive(h) PROVE SInv'
  BY <1>2, ArriveKeeps
<1>3. ASSUME NEW h \in Handlers, Statement(h) PROVE SInv'
  BY <1>3, StatementKeeps
<1>4. ASSUME NEW c \in Codes, Elapse(c) PROVE SInv'
  BY <1>4, UnchangedKeeps DEF Elapse, store
<1>5. CASE Crash
  BY <1>5, CrashKeeps
<1> QED BY <1>1, <1>2, <1>3, <1>4, <1>5 DEF Next

\* Whatever requests are in progress together, the shared connection is never
\* left in a transaction that no handler is going to end: the next registration
\* does not find itself inside one that is already aborted.
THEOREM SessionIsOwned == Spec => []SessionOwned
<1>1. SInv => SessionOwned
  BY DEF SInv
<1> QED BY <1>1, InitSInv, NextKeeps, PTL DEF Spec

-------------------------------------------------------------------------------
\* Transactions that nothing else runs in.  What requests do to each other in one
\* transaction TLC shows; as long as no other request is in progress while one is
\* in its transaction, every request leaves accounts, codes and devices consistent,
\* wherever it fails and whenever the process dies.
NewCodeOps == {"login", "loginSms", "register", "registerSms"}
ProfileSteps == {"users", "user_details", "users_state", "users_settings"}
PartialSteps == {"user_details", "users_state", "users_settings"}

\* The statements each request may come to.
Path(op) ==
    CASE op = "login" -> {"whois", "details", "perceptions", "noDetails", "addCode"}
      [] op = "loginSms" -> {"addCode"}
      [] op = "register" -> {"begin", "whois", "details", "perceptions", "noDetails", "addCode",
                             "commit", "rollback"} \cup ProfileSteps
      [] op = "registerSms" -> {"begin", "addCode", "commit", "rollback"} \cup ProfileSteps
      [] op = "verify" -> {"begin", "validate", "whois", "peekOwn", "dropOwn", "peekDevice",
                           "dropDevice", "ownerOf", "devicesOf", "bind", "describe", "key",
                           "details", "perceptions", "noDetails", "commit", "rollback"}
      [] op = "delete" -> {"auth", "begin", "exists", "drop", "commit", "rollback"}
      [] OTHER -> {}

\* What a request brought, and what it has come to know.
Fits(r) ==
    /\ r.step # "idle" => r.step \in Path(r.op)
    /\ r.op \in NewCodeOps \cup {"verify"} => r.code \in Codes
    /\ r.op \in NewCodeOps /\ r.step \notin {"idle", "commit", "rollback"} => r.code \notin issued
    /\ r.op \in {"verify", "delete"} => r.device \in Devices
    /\ r.op \in {"loginSms", "registerSms", "delete"} => r.user \in Users
    /\ r.step \in {"begin", "validate", "whois"} \cup ProfileSteps => r.user \in Users
    /\ r.op = "delete" /\ r.step \notin {"idle", "commit"} => r.reply = "none"

\* The tables.
SingleOwned(t) == \A d, e \in Devices : t.owner[d] # None /\ t.owner[d] = t.owner[e] => d = e
KeyHeld(t, d) == t.owner[d] # None => t.key[t.owner[d]] = d
Whole(t, u) == Registered(t, u) => Complete(t, u)
CodesOK(t) ==
    /\ \A c \in Codes : t.code[c].of # None => c \in issued
    /\ \A c \in redeemed : c \in Codes /\ t.code[c].used /\ t.code[c].of # None
    /\ \A c \in promised : c \in Codes /\ t.code[c].of # None

Sound(t) ==
    /\ t \in Tables
    /\ SingleOwned(t) /\ CodesOK(t)
    /\ \A d \in Devices : KeyHeld(t, d)
    /\ \A u \in Users : Whole(t, u)

\* The tables inside the transaction of r: sound, but for what r has still to do.
RowsSoFar(r, t) ==
    /\ \A u \in Users : Whole(t, u) \/ (u = r.user /\ r.step \in PartialSteps)
    /\ r.step \in PartialSteps => Registered(t, r.user)
    /\ r.step \in {"users_state", "users_settings"} => <<r.user, "user_details">> \in t.rows
    /\ r.step = "users_settings" => <<r.user, "users_state">> \in t.rows

DevicesSoFar(r, t) ==
    /\ SingleOwned(t)
    /\ \A d \in Devices : KeyHeld(t, d) \/ (d = r.device /\ r.step \in {"describe", "key"})
    /\ r.step \in {"describe", "key"} => t.owner[r.device] = r.user /\ r.user # None
    /\ r.step \in {"devicesOf", "bind"} => t.owner[r.device] = None
    /\ r.step = "bind" => OwnedBy(t, r.user) = {}
    /\ r.op = "delete" /\ r.step = "commit" => t.owner[r.device] = None

CodeSoFar(r, t) ==
    /\ CodesOK(t)
    /\ r.op = "verify" /\ r.step # "validate" => t.code[r.code].used /\ t.code[r.code].of # None
    /\ r.op \in NewCodeOps /\ r.step = "commit" => t.code[r.code].of # None

SoFar(r, t) == t \in Tables /\ RowsSoFar(r, t) /\ DevicesSoFar(r, t) /\ CodeSoFar(r, t)

Transacts(r) == r.op \in Transactional /\ r.step \notin {"idle", "begin", "auth"}

\* The session is in a transaction while the request is, unless it rolls back.
Follows(r) == Transacts(r) /\ r.step # "rollback" => session = "open" /\ SoFar(r, tmp)

\* A request that has come up with a code.
Mints(r) == r.op \in NewCodeOps /\ r.step # "idle"

AInv ==
    /\ Sound(db)
    /\ session = "idle" => tmp = db
    /\ \A h \in Handlers : Fits(at[h]) /\ Follows(at[h])
    /\ \A g, h \in Handlers : g # h /\ Mints(at[g]) /\ Mints(at[h]) => at[g].code # at[h].code

LEMMA FreshFits == Fits(Fresh) /\ ~Transacts(Fresh)
BY DEF Fits, Fresh, Transacts, NewCodeOps, ProfileSteps, Transactional

LEMMA InitAInv == Init => AInv
<1> SUFFICES ASSUME Init PROVE AInv
  OBVIOUS
<1>1. Initial \in Tables
  BY MembersAreUsers DEF Initial, Tables
<1>2. \A u \in Users : Whole(Initial, u)
  BY DEF Whole, Registered, Complete, Initial, ProfileTables
<1>3. Sound(Initial)
  BY <1>1, <1>2 DEF Sound, SingleOwned, KeyHeld, CodesOK, Initial, Init
<1>4. \A h \in Handlers : Fits(at[h]) /\ Follows(at[h])
  BY FreshFits DEF Init, Follows
<1> QED BY <1>3, <1>4 DEF Init, AInv, Mints, Fresh

\* A sound store is sound so far for any request that is done with its own part.
LEMMA SoundSoFar ==
  ASSUME NEW r, NEW t, Sound(t),
         r.step \notin PartialSteps \cup {"describe", "key", "devicesOf", "bind"},
         r.op = "verify" => r.step = "validate",
         r.step # "commit"
  PROVE  SoFar(r, t)
BY DEF Sound, SoFar, RowsSoFar, DevicesSoFar, CodeSoFar, PartialSteps

-------------------------------------------------------------------------------
\* How the request goes on.

\* h continues as r, or has answered: no other is in a transaction, and the code
\* that h may have issued is no other's.
LEMMA ApartKeeps ==
  ASSUME Apart, SInv, AInv, NEW h \in Handlers, Served(h), at[h].step # "idle",
         NEW r, at'[h] = r, r.code = at[h].code, Fits(r)', Follows(r)',
         issued' = issued \/ (at[h].op \in NewCodeOps /\ issued' = issued \cup {at[h].code}),
         Sound(db)', (session = "idle" => tmp = db)'
  PROVE  AInv'
<1>1. /\ \A k \in Handlers \ {h} : at'[k] = at[k]
      /\ r.op = at[h].op
  BY DEF Served, SInv, ShapeOK
<1>2. ASSUME NEW k \in Handlers \ {h} PROVE Fits(at[k])' /\ Follows(at[k])'
  <2>1. Fits(at[k]) /\ ~Transacts(at[k])
    BY DEF AInv, Apart, InTransaction, Transacts
  <2>2. PICK x : x = at[k]
    OBVIOUS
  <2>3. issued' # issued /\ x.op \in NewCodeOps /\ x.step # "idle" => x.code # at[h].code
    BY <2>2 DEF AInv, Mints
  <2>4. Fits(x)'
    BY <2>1, <2>2, <2>3 DEF Fits
  <2>5. Follows(x)'
    BY <2>1, <2>2 DEF Follows
  <2> QED BY <1>1, <2>2, <2>4, <2>5
<1>3. ASSUME NEW g \in Handlers, NEW k \in Handlers, g # k, Mints(at'[g]), Mints(at'[k])
      PROVE  at'[g].code # at'[k].code
  BY <1>1, <1>3 DEF AInv, Mints
<1>4. \A k \in Handlers : Fits(at[k])' /\ Follows(at[k])'
  BY <1>2
<1>5. (\A g, k \in Handlers : g # k /\ Mints(at[g]) /\ Mints(at[k]) => at[g].code # at[k].code)'
  BY <1>3 DEF Mints
<1> QED BY <1>4, <1>5 DEF AInv

\* h goes on with r, having read.
LEMMA ReadOn ==
  ASSUME Apart, SInv, AInv, NEW h \in Handlers, NEW r \in Request, Issue(h, r), ReadOnly,
         r.op = at[h].op, r.code = at[h].code, at[h].step # "idle",
         UNCHANGED history, Fits(r), Follows(r)
  PROVE  AInv'
<1>1. Served(h) /\ at'[h] = r
  BY IssueServes DEF SInv
<1>2. (session = "idle" => tmp = db)' /\ Sound(db)'
  BY DEF AInv, ReadOnly, store, history, Sound, CodesOK
<1>3. Fits(r)'
  BY DEF Fits, history
<1>4. Follows(r)'
  BY DEF Follows, ReadOnly, store, history, SoFar, CodeSoFar, CodesOK
<1> QED BY <1>1, <1>2, <1>3, <1>4, ApartKeeps DEF history

\* h goes on with r, having written in its transaction.
LEMMA WriteOn ==
  ASSUME Apart, SInv, AInv, NEW h \in Handlers, NEW r \in Request, Issue(h, r), NEW t, Write(t),
         r.op = at[h].op, r.code = at[h].code, at[h].step # "idle", UNCHANGED history, Fits(r),
         session = "open", Transacts(r), SoFar(r, t)
  PROVE  AInv'
<1>1. Served(h) /\ at'[h] = r
  BY IssueServes DEF SInv
<1>2. tmp' = t /\ UNCHANGED <<db, session>>
  BY DEF Write
<1>3. (session = "idle" => tmp = db)' /\ Sound(db)'
  BY <1>2 DEF AInv, history, Sound, CodesOK
<1>4. Fits(r)'
  BY DEF Fits, history
<1>5. Follows(r)'
  BY <1>2 DEF Follows, history, SoFar, CodeSoFar, CodesOK, Transacts
<1> QED BY <1>1, <1>3, <1>4, <1>5, ApartKeeps DEF history

\* h throws: a transaction, whatever it did, is going to be rolled back.
LEMMA ThrowOn ==
  ASSUME Apart, SInv, AInv, NEW h \in Handlers, Throw(h), Broken \/ ReadOnly, UNCHANGED history,
         at[h].step \notin {"idle", "auth", "begin", "commit"}
  PROVE  AInv'
<1>0. PICK r : r = at'[h]
  OBVIOUS
<1>1. at[h] \in Request /\ Fits(at[h]) /\ Follows(at[h])
  BY DEF SInv, ShapeOK, AInv
<1>2. /\ Served(h)
      /\ \/ r.step = "rollback" /\ at[h].op \in Transactional
         \/ r.step = "idle" /\ ~(at[h].op \in Transactional)
  BY <1>0, ThrowServes DEF SInv
<1>3. /\ r.op = at[h].op /\ r.user = at[h].user /\ r.code = at[h].code
      /\ r.device = at[h].device
      /\ r.step = "rollback" => r.reply = at[h].reply
  BY <1>0, <1>1 DEF Throw, Goto, Issue, Finish, SInv, ShapeOK, Request, First
<1>4. Fits(r)'
  <2>1. CASE r.step = "rollback"
    <3>1. "rollback" \in Path(at[h].op)
      BY <1>2, <2>1 DEF Path, Transactional
    <3> QED BY <1>1, <1>3, <2>1, <3>1 DEF Fits, history, ProfileSteps
  <2>2. CASE r.step = "idle"
    BY <1>1, <1>3, <2>2 DEF Fits, history, ProfileSteps
  <2> QED BY <1>2, <2>1, <2>2
<1>5. UNCHANGED <<db, tmp>> /\ (session' = session \/ (session = "open" /\ session' = "aborted"))
  BY DEF Broken, ReadOnly, store
<1>6. Follows(r)'
  BY <1>1, <1>2, <1>3, <1>5 DEF Follows, Transacts
<1>7. (session = "idle" => tmp = db)' /\ Sound(db)'
  BY <1>5 DEF AInv, history, Sound, CodesOK
<1> QED BY <1>0, <1>2, <1>3, <1>4, <1>6, <1>7, ApartKeeps DEF history

\* The request of h, at a statement.
LEMMA AtStatement ==
  ASSUME Apart, SInv, AInv, NEW h \in Handlers, NEW s \in Steps \ {"idle"}, Turn(h, s)
  PROVE  /\ at[h] \in Request /\ at[h].step = s /\ s \in Path(at[h].op) /\ Fits(at[h])
         /\ Transacts(at[h]) /\ s # "rollback" => session = "open" /\ SoFar(at[h], tmp)
         /\ ~Transacts(at[h]) => session = "idle" /\ Sound(tmp) /\ tmp = db
<1>1. at[h] \in Request /\ at[h].step = s /\ Fits(at[h]) /\ Follows(at[h])
  BY DEF SInv, ShapeOK, AInv, Turn
<1>2. ASSUME ~Transacts(at[h]) PROVE session = "idle"
  BY <1>1, <1>2 DEF Apart, SInv, SessionOwned, InTransaction, Transacts
<1> QED BY <1>1, <1>2 DEF AInv, Fits, Follows

\* It goes on to s.
LEMMA Onward ==
  ASSUME NEW r0 \in Request, Fits(r0), NEW s \in Path(r0.op), s \in Steps,
         r0.step \notin {"idle", "commit", "rollback"},
         s \in {"begin", "validate", "whois"} \cup ProfileSteps => r0.user \in Users,
         NEW r, r = [r0 EXCEPT !.step = s]
  PROVE  /\ r \in Request /\ Fits(r) /\ r.step = s /\ r.op = r0.op /\ r.user = r0.user
         /\ r.device = r0.device /\ r.code = r0.code /\ r.wipe = r0.wipe
<1>1. /\ r \in Request /\ r.step = s /\ r.op = r0.op /\ r.user = r0.user
      /\ r.device = r0.device /\ r.code = r0.code /\ r.wipe = r0.wipe /\ r.reply = r0.reply
  BY DEF Request
<1>2. Fits(r)
  BY <1>1 DEF Fits
<1> QED BY <1>1, <1>2

LEMMA GotoReadOn ==
  ASSUME Apart, SInv, AInv, NEW h \in Handlers, at[h] \in Request, Fits(at[h]),
         NEW s \in Path(at[h].op), s \in Steps,
         at[h].step \notin {"idle", "commit", "rollback", "begin", "auth"},
         s \notin {"idle", "rollback", "begin", "auth"},
         s \in {"begin", "validate", "whois"} \cup ProfileSteps => at[h].user \in Users,
         Goto(h, s), ReadOnly, UNCHANGED history,
         Transacts(at[h]) => SoFar([at[h] EXCEPT !.step = s], tmp)
  PROVE  AInv'
<1>1. PICK r : r = [at[h] EXCEPT !.step = s]
  OBVIOUS
<1>2. r \in Request /\ Fits(r) /\ r.step = s /\ r.op = at[h].op /\ r.code = at[h].code
  BY <1>1, Onward
<1>3. Follows(r)
  BY <1>1, <1>2 DEF AInv, Follows, Transacts
<1> QED BY <1>1, <1>2, <1>3, ReadOn DEF Goto

LEMMA GotoWriteOn ==
  ASSUME Apart, SInv, AInv, NEW h \in Handlers, at[h] \in Request, Fits(at[h]),
         NEW s \in Path(at[h].op), s \in Steps,
         at[h].step \notin {"idle", "commit", "rollback", "begin", "auth"},
         s \notin {"idle", "rollback", "begin", "auth"},
         s \in {"begin", "validate", "whois"} \cup ProfileSteps => at[h].user \in Users,
         Goto(h, s), NEW t, Write(t), UNCHANGED history,
         Transacts(at[h]), session = "open", SoFar([at[h] EXCEPT !.step = s], t)
  PROVE  AInv'
<1>1. PICK r : r = [at[h] EXCEPT !.step = s]
  OBVIOUS
<1>2. r \in Request /\ Fits(r) /\ r.step = s /\ r.op = at[h].op /\ r.code = at[h].code
  BY <1>1, Onward
<1>3. Transacts(r)
  BY <1>1, <1>2 DEF Transacts
<1> QED BY <1>1, <1>2, <1>3, WriteOn DEF Goto

\* The request at its next step, for SoFar.
LEMMA AtStep ==
  ASSUME NEW r0 \in Request, NEW s
  PROVE  LET r == [r0 EXCEPT !.step = s]
         IN  /\ r.step = s /\ r.op = r0.op /\ r.user = r0.user /\ r.device = r0.device
             /\ r.code = r0.code
BY DEF Request

-------------------------------------------------------------------------------
\* What the statements do to the tables.

LEMMA RowAdded ==
  ASSUME NEW t \in Tables, NEW u \in Users, NEW x \in ProfileTables
  PROVE  LET n == [t EXCEPT !.rows = @ \cup {<<u, x>>}]
         IN  /\ n \in Tables /\ n.rows = t.rows \cup {<<u, x>>}
             /\ n.code = t.code /\ n.owner = t.owner /\ n.known = t.known /\ n.key = t.key
BY DEF Tables

LEMMA CodeAdded ==
  ASSUME NEW t \in Tables, NEW c \in Codes, NEW u \in Users
  PROVE  LET n == [t EXCEPT !.code[c] = [of |-> u, used |-> FALSE]]
         IN  /\ n \in Tables /\ n.code[c].of = u /\ \A x \in Codes \ {c} : n.code[x] = t.code[x]
             /\ n.rows = t.rows /\ n.owner = t.owner /\ n.known = t.known /\ n.key = t.key
BY DEF Tables

LEMMA CodeUsed ==
  ASSUME NEW t \in Tables, NEW c \in Codes
  PROVE  LET n == [t EXCEPT !.code[c].used = TRUE]
         IN  /\ n \in Tables /\ n.code[c].used /\ n.code[c].of = t.code[c].of
             /\ \A x \in Codes \ {c} : n.code[x] = t.code[x]
             /\ n.rows = t.rows /\ n.owner = t.owner /\ n.known = t.known /\ n.key = t.key
BY DEF Tables

LEMMA Dropped ==
  ASSUME NEW t \in Tables, NEW ds \in SUBSET Devices
  PROVE  LET n == Drop(t, ds)
         IN  /\ n \in Tables
             /\ \A d \in Devices : n.owner[d] = IF d \in ds THEN None ELSE t.owner[d]
             /\ n.rows = t.rows /\ n.code = t.code /\ n.key = t.key
<1> DEFINE o == [d \in Devices |-> IF d \in ds THEN None ELSE t.owner[d]]
<1>1. o \in [Devices -> Users \cup {None}] /\ t.known \ ds \in SUBSET Devices
  BY DEF Tables
<1>2. Drop(t, ds) = [t EXCEPT !.owner = o, !.known = t.known \ ds]
  BY DEF Drop
<1>3. \A d \in Devices : o[d] = IF d \in ds THEN None ELSE t.owner[d]
  OBVIOUS
<1> HIDE DEF o
<1>4. /\ [t EXCEPT !.owner = o, !.known = t.known \ ds] \in Tables
      /\ [t EXCEPT !.owner = o, !.known = t.known \ ds].owner = o
      /\ [t EXCEPT !.owner = o, !.known = t.known \ ds].rows = t.rows
      /\ [t EXCEPT !.owner = o, !.known = t.known \ ds].code = t.code
      /\ [t EXCEPT !.owner = o, !.known = t.known \ ds].key = t.key
  BY <1>1 DEF Tables
<1> QED BY <1>2, <1>3, <1>4

LEMMA Bound ==
  ASSUME NEW t \in Tables, NEW d \in Devices, NEW u \in Users
  PROVE  LET n == [t EXCEPT !.owner[d] = u]
         IN  /\ n \in Tables
             /\ \A e \in Devices : n.owner[e] = IF e = d THEN u ELSE t.owner[e]
             /\ n.rows = t.rows /\ n.code = t.code /\ n.key = t.key
BY DEF Tables

LEMMA Described ==
  ASSUME NEW t \in Tables, NEW d \in Devices
  PROVE  LET n == [t EXCEPT !.known = @ \cup {d}]
         IN  n \in Tables /\ n.rows = t.rows /\ n.code = t.code /\ n.owner = t.owner /\ n.key = t.key
BY DEF Tables

LEMMA KeySet ==
  ASSUME NEW t \in Tables, NEW u \in Users, NEW d \in Devices
  PROVE  LET n == [t EXCEPT !.key[u] = d]
         IN  /\ n \in Tables
             /\ \A v \in Users : n.key[v] = IF v = u THEN d ELSE t.key[v]
             /\ n.rows = t.rows /\ n.code = t.code /\ n.owner = t.owner
BY DEF Tables

\* Devices that lose their owner break nothing.
LEMMA DropSound ==
  ASSUME NEW t \in Tables, NEW ds \in SUBSET Devices, SingleOwned(t),
         \A d \in Devices : KeyHeld(t, d)
  PROVE  SingleOwned(Drop(t, ds)) /\ \A d \in Devices : KeyHeld(Drop(t, ds), d)
<1>1. PICK n : n = Drop(t, ds)
  OBVIOUS
<1>2. /\ \A d \in Devices : n.owner[d] = IF d \in ds THEN None ELSE t.owner[d]
      /\ n.key = t.key
  BY <1>1, Dropped
<1>3. SingleOwned(n) /\ \A d \in Devices : KeyHeld(n, d)
  BY <1>2 DEF SingleOwned, KeyHeld
<1> QED BY <1>1, <1>3

\* Only a registered user has rows.
LEMMA RegisteredUsers ==
  ASSUME NEW t \in Tables, NEW u, Registered(t, u)
  PROVE  u \in Users
BY DEF Tables, Registered

-------------------------------------------------------------------------------
\* What a statement that is not about them leaves of rows, devices and codes.

Same(r0, r) == r.op = r0.op /\ r.user = r0.user /\ r.device = r0.device /\ r.code = r0.code

LEMMA FinishForm ==
  ASSUME ShapeOK, NEW h \in Handlers, NEW a \in {"ok", "error"}, Finish(h, a)
  PROVE  /\ at'[h].step = "idle" /\ Same(at[h], at'[h]) /\ Served(h)
         /\ at'[h].reply = First(at[h], a)
<1>1. Served(h)
  BY FinishServes
<1>2. at[h] \in Request
  BY DEF ShapeOK
<1> DEFINE r == [at[h] EXCEPT !.step = "idle", !.reply = First(at[h], a)]
<1>3. r.step = "idle" /\ Same(at[h], r) /\ r.reply = First(at[h], a)
  BY <1>2 DEF Request, Same
<1>4. at'[h] = r
  BY DEF Finish, ShapeOK
<1> HIDE DEF r
<1> QED BY <1>1, <1>3, <1>4

LEMMA SameRows ==
  ASSUME NEW r0, NEW r, NEW t, NEW n, RowsSoFar(r0, t), n.rows = t.rows,
         r0.step \notin PartialSteps, r.step \notin PartialSteps
  PROVE  RowsSoFar(r, n)
BY DEF RowsSoFar, Whole, Registered, Complete, PartialSteps

LEMMA SameDevices ==
  ASSUME NEW r0, NEW r, NEW t, NEW n, DevicesSoFar(r0, t), n.owner = t.owner, n.key = t.key,
         Same(r0, r), r0.step \notin {"describe", "key"},
         r.step \notin {"describe", "key", "devicesOf", "bind"},
         r.op = "delete" => r.step # "commit"
  PROVE  DevicesSoFar(r, n)
BY DEF DevicesSoFar, SingleOwned, KeyHeld, Same

LEMMA SameCode ==
  ASSUME NEW r0, NEW r, NEW t, NEW n, CodeSoFar(r0, t), n.code = t.code,
         Same(r0, r), r0.op = "verify" => r0.step # "validate",
         r.op \in NewCodeOps => r.step # "commit"
  PROVE  CodeSoFar(r, n)
BY DEF CodeSoFar, CodesOK, Same

\* A request that goes on, having read, with nothing new to tell.
LEMMA QuietGoto ==
  ASSUME Apart, SInv, AInv, NEW h \in Handlers, NEW s0 \in Steps, Turn(h, s0),
         s0 \notin {"idle", "commit", "rollback", "begin", "auth", "validate", "describe", "key"},
         s0 \notin PartialSteps,
         NEW s \in Path(at[h].op), s \in Steps,
         s \notin {"idle", "rollback", "begin", "auth", "validate", "whois", "describe", "key",
                   "devicesOf", "bind"},
         s \notin ProfileSteps,
         s = "commit" => at[h].op = "verify",
         Goto(h, s), ReadOnly, UNCHANGED history
  PROVE  AInv'
<1>1. at[h] \in Request /\ Fits(at[h]) /\ at[h].step = s0
      /\ (Transacts(at[h]) => SoFar(at[h], tmp))
  BY AtStatement
<1>2. PICK r : r = [at[h] EXCEPT !.step = s]
  OBVIOUS
<1>3. r.step = s /\ Same(at[h], r)
  BY <1>1, <1>2, AtStep DEF Same
<1>4. Transacts(at[h]) => SoFar(r, tmp)
  <2> SUFFICES ASSUME Transacts(at[h]) PROVE SoFar(r, tmp)
    OBVIOUS
  <2>1. tmp \in Tables /\ RowsSoFar(at[h], tmp) /\ DevicesSoFar(at[h], tmp) /\ CodeSoFar(at[h], tmp)
    BY <1>1 DEF SoFar
  <2>2. RowsSoFar(r, tmp)
    BY <1>1, <1>3, <2>1, SameRows DEF PartialSteps, ProfileSteps
  <2>3. DevicesSoFar(r, tmp)
    BY <1>1, <1>3, <2>1, SameDevices DEF Same
  <2>4. CodeSoFar(r, tmp)
    BY <1>1, <1>3, <2>1, SameCode DEF Same, NewCodeOps
  <2> QED BY <2>1, <2>2, <2>3, <2>4 DEF SoFar
<1> QED BY <1>1, <1>2, <1>4, GotoReadOn

-------------------------------------------------------------------------------
\* The statements of a registration.

LEMMA AddUserApart ==
  ASSUME Apart, SInv, AInv, NEW h \in Handlers, AddUser(h)
  PROVE  AInv'
<1>1. Turn(h, "users") /\ UNCHANGED history
  BY DEF AddUser, Runs
<1>2. /\ at[h] \in Request /\ Fits(at[h]) /\ at[h].step = "users" /\ "users" \in Path(at[h].op)
      /\ Transacts(at[h]) => session = "open" /\ SoFar(at[h], tmp)
  BY <1>1, AtStatement DEF Steps
<1>3. at[h].op \in {"register", "registerSms"} /\ Transacts(at[h])
  BY <1>2 DEF Path, Transacts, Transactional
<1>4. at[h].user \in Users
  BY <1>2 DEF Fits, ProfileSteps
<1>5. CASE Registered(tmp, at[h].user)
  BY <1>1, <1>2, <1>5, ThrowOn DEF AddUser
<1>6. CASE ~Registered(tmp, at[h].user)
  <2>1. PICK n : n = [tmp EXCEPT !.rows = @ \cup {<<at[h].user, "users">>}]
    OBVIOUS
  <2>2. PICK r : r = [at[h] EXCEPT !.step = "user_details"]
    OBVIOUS
  <2>3. Write(n) /\ Goto(h, "user_details")
    BY <1>6, <2>1 DEF AddUser, Insert
  <2>4. /\ n \in Tables /\ n.rows = tmp.rows \cup {<<at[h].user, "users">>}
        /\ n.code = tmp.code /\ n.owner = tmp.owner /\ n.key = tmp.key
    BY <1>2, <1>3, <1>4, <2>1, RowAdded DEF SoFar, ProfileTables
  <2>5. r.step = "user_details" /\ Same(at[h], r)
    BY <1>2, <2>2, AtStep DEF Same
  <2>6. RowsSoFar(r, n)
    BY <1>2, <1>3, <2>4, <2>5
    DEF SoFar, RowsSoFar, Whole, Registered, Complete, PartialSteps, Same, ProfileTables
  <2>7. DevicesSoFar(r, n)
    BY <1>2, <1>3, <2>4, <2>5, SameDevices DEF SoFar
  <2>8. CodeSoFar(r, n)
    BY <1>2, <1>3, <2>4, <2>5, SameCode DEF SoFar
  <2>9. SoFar(r, n)
    BY <2>4, <2>6, <2>7, <2>8 DEF SoFar
  <2>10. "user_details" \in Path(at[h].op)
    BY <1>3 DEF Path, ProfileSteps
  <2> QED BY <1>1, <1>2, <1>3, <1>4, <2>2, <2>3, <2>9, <2>10, GotoWriteOn DEF Steps
<1> QED BY <1>5, <1>6

LEMMA AddProfileRowApart ==
  ASSUME Apart, SInv, AInv, NEW h \in Handlers, NEW x, NEW next, AddProfileRow(h, x, next),
         \/ x = "user_details" /\ next = "users_state"
         \/ x = "users_state" /\ next = "users_settings"
         \/ x = "users_settings" /\ next = AfterSettings(at[h].op)
  PROVE  AInv'
<1>1. Turn(h, x) /\ UNCHANGED history /\ x \in PartialSteps
  BY DEF AddProfileRow, Runs, PartialSteps
<1>2. /\ at[h] \in Request /\ Fits(at[h]) /\ at[h].step = x /\ x \in Path(at[h].op)
      /\ Transacts(at[h]) => session = "open" /\ SoFar(at[h], tmp)
  BY <1>1, AtStatement DEF Steps, PartialSteps
<1>3. at[h].op \in {"register", "registerSms"} /\ Transacts(at[h])
  BY <1>1, <1>2 DEF Path, Transacts, Transactional, PartialSteps
<1>4. at[h].user \in Users
  BY <1>1, <1>2 DEF Fits, ProfileSteps, PartialSteps
<1>5. CASE ~Registered(tmp, at[h].user) \/ <<at[h].user, x>> \in tmp.rows
  BY <1>1, <1>2, <1>5, ThrowOn DEF AddProfileRow, PartialSteps
<1>6. CASE ~(~Registered(tmp, at[h].user) \/ <<at[h].user, x>> \in tmp.rows)
  <2>1. PICK n : n = [tmp EXCEPT !.rows = @ \cup {<<at[h].user, x>>}]
    OBVIOUS
  <2>2. PICK r : r = [at[h] EXCEPT !.step = next]
    OBVIOUS
  <2>3. Write(n) /\ Goto(h, next)
    BY <1>6, <2>1 DEF AddProfileRow, Insert
  <2>4. /\ n \in Tables /\ n.rows = tmp.rows \cup {<<at[h].user, x>>}
        /\ n.code = tmp.code /\ n.owner = tmp.owner /\ n.key = tmp.key
    <3>1. tmp \in Tables /\ x \in ProfileTables
      BY <1>1, <1>2, <1>3 DEF SoFar, ProfileTables, PartialSteps
    <3> QED BY <1>4, <2>1, <3>1, RowAdded
  <2>5. r.step = next /\ Same(at[h], r)
    BY <1>2, <2>2, AtStep DEF Same
  <2>6. next \in {"users_state", "users_settings", "whois", "addCode"}
    BY DEF AfterSettings
  <2>7. RowsSoFar(r, n)
    <3>1. ASSUME NEW u \in Users, u # at[h].user PROVE Whole(n, u)
      BY <1>2, <1>3, <2>4, <3>1 DEF SoFar, RowsSoFar, Whole, Registered, Complete
    <3>2. CASE x = "users_settings"
      <4>1. Whole(n, at[h].user)
        BY <1>2, <1>3, <2>4, <3>2
        DEF SoFar, RowsSoFar, Whole, Registered, Complete, PartialSteps, ProfileTables
      <4>2. next \in {"whois", "addCode"}
        BY <3>2 DEF AfterSettings
      <4> QED BY <2>5, <3>1, <4>1, <4>2 DEF RowsSoFar, PartialSteps, Same
    <3>3. CASE x # "users_settings"
      <4>1. Registered(n, at[h].user) /\ <<at[h].user, "user_details">> \in n.rows
            /\ (x = "users_state" => <<at[h].user, "users_state">> \in n.rows)
        BY <1>2, <1>3, <2>4, <3>3 DEF SoFar, RowsSoFar, Registered, PartialSteps
      <4> QED BY <2>5, <2>6, <3>1, <3>3, <4>1 DEF RowsSoFar, PartialSteps, Same
    <3> QED BY <3>2, <3>3
  <2>8. DevicesSoFar(r, n)
    BY <1>1, <1>2, <1>3, <2>4, <2>5, <2>6, SameDevices DEF SoFar, PartialSteps
  <2>9. CodeSoFar(r, n)
    BY <1>2, <1>3, <2>4, <2>5, <2>6, SameCode DEF SoFar
  <2>10. SoFar(r, n)
    BY <2>4, <2>7, <2>8, <2>9 DEF SoFar
  <2>11. next \in Path(at[h].op)
    BY <1>3 DEF Path, ProfileSteps, AfterSettings
  <2> QED BY <1>1, <1>2, <1>3, <1>4, <2>2, <2>3, <2>6, <2>10, <2>11, GotoWriteOn DEF Steps, PartialSteps
<1> QED BY <1>5, <1>6

LEMMA WhoIsApart ==
  ASSUME Apart, SInv, AInv, NEW h \in Handlers, WhoIs(h)
  PROVE  AInv'
<1>1. Turn(h, "whois") /\ UNCHANGED history /\ ReadOnly
  BY DEF WhoIs, Runs
<1>2. /\ at[h] \in Request /\ Fits(at[h]) /\ at[h].step = "whois" /\ "whois" \in Path(at[h].op)
      /\ Transacts(at[h]) => session = "open" /\ SoFar(at[h], tmp)
      /\ ~Transacts(at[h]) => session = "idle"
  BY <1>1, AtStatement DEF Steps
<1>3. at[h].op \in {"login", "register", "verify"}
  BY <1>2 DEF Path, ProfileSteps
<1>4. PICK r : r = [at[h] EXCEPT
           !.user = IF Registered(tmp, @) THEN @ ELSE None,
           !.step = CASE at[h].op # "verify" -> "details"
                      [] at[h].op = "verify" /\ at[h].wipe -> "peekOwn"
                      [] at[h].op = "verify" /\ ~at[h].wipe -> "ownerOf"]
  OBVIOUS
<1>5. Issue(h, r)
  BY <1>4 DEF WhoIs
<1>6. /\ r \in Request /\ r.op = at[h].op /\ r.device = at[h].device /\ r.code = at[h].code
      /\ r.step \in {"details", "peekOwn", "ownerOf"}
      /\ r.op # "verify" => r.step = "details"
      /\ r.op = "verify" => r.step \in {"peekOwn", "ownerOf"}
  BY <1>2, <1>4 DEF Request, Steps
<1>7. Fits(r)
  BY <1>2, <1>3, <1>6 DEF Fits, Path, ProfileSteps, NewCodeOps
<1>8. Transacts(at[h]) => SoFar(r, tmp)
  <2> SUFFICES ASSUME Transacts(at[h]) PROVE SoFar(r, tmp)
    OBVIOUS
  <2>1. RowsSoFar(r, tmp)
    BY <1>2, <1>6, SameRows DEF SoFar, PartialSteps
  <2>2. DevicesSoFar(r, tmp)
    BY <1>2, <1>3, <1>6 DEF SoFar, DevicesSoFar
  <2>3. CodeSoFar(r, tmp)
    BY <1>2, <1>3, <1>6 DEF SoFar, CodeSoFar
  <2> QED BY <1>2, <2>1, <2>2, <2>3 DEF SoFar
<1>9. Follows(r)
  BY <1>2, <1>6, <1>8 DEF Follows, Transacts
<1> QED BY <1>1, <1>2, <1>5, <1>6, <1>7, <1>9, ReadOn

LEMMA DetailsApart ==
  ASSUME Apart, SInv, AInv, NEW h \in Handlers, Details(h) \/ Perceptions(h) \/ NoDetails(h)
  PROVE  AInv'
<1>1. PICK s0 \in {"details", "perceptions", "noDetails"} : Turn(h, s0)
  BY DEF Details, Perceptions, NoDetails, Runs
<1>2. UNCHANGED history /\ ReadOnly
  BY DEF Details, Perceptions, NoDetails
<1>3. at[h].step = s0 /\ s0 \in Path(at[h].op)
  BY <1>1, AtStatement DEF Steps
<1>4. at[h].op \in {"login", "register", "verify"}
  BY <1>3 DEF Path, ProfileSteps
<1>5. CASE NoDetails(h)
  BY <1>2, <1>3, <1>5, ThrowOn DEF NoDetails
<1>6. CASE Details(h) \/ Perceptions(h)
  <2>1. PICK s \in {"perceptions", "noDetails", "commit", "addCode"} : Goto(h, s) /\
            (s = "commit" => at[h].op = "verify") /\ (s = "addCode" => at[h].op # "verify")
    BY <1>6 DEF Details, Perceptions
  <2>2. s \in Path(at[h].op)
    BY <1>4, <2>1 DEF Path
  <2> QED BY <1>1, <1>2, <2>1, <2>2, QuietGoto DEF Steps, PartialSteps, ProfileSteps
<1> QED BY <1>5, <1>6

-------------------------------------------------------------------------------
\* The code of a login or registration.

LEMMA AddCodeApart ==
  ASSUME Apart, SInv, AInv, NEW h \in Handlers, AddCode(h)
  PROVE  AInv'
<1>1. Turn(h, "addCode") /\ session # "aborted" /\ Addressed(h)
      /\ UNCHANGED <<late, redeemed>>
  BY DEF AddCode, Runs
<1>2. /\ at[h] \in Request /\ Fits(at[h]) /\ at[h].step = "addCode" /\ "addCode" \in Path(at[h].op)
      /\ Transacts(at[h]) => session = "open" /\ SoFar(at[h], tmp)
      /\ ~Transacts(at[h]) => session = "idle" /\ Sound(tmp) /\ tmp = db
  BY <1>1, AtStatement DEF Steps
<1>3. at[h].op \in NewCodeOps /\ at[h].code \in Codes /\ at[h].code \notin issued
  BY <1>2 DEF Path, ProfileSteps, NewCodeOps, Fits
<1>4. tmp \in Tables /\ CodesOK(tmp)
  BY <1>2 DEF SoFar, CodeSoFar, Sound
<1>5. at[h].user \in Users
  <2>1. CASE at[h].op \in {"login", "register"}
    BY <1>1, <1>4, <2>1, RegisteredUsers DEF Addressed
  <2>2. CASE at[h].op \in {"loginSms", "registerSms"}
    BY <1>2, <2>2 DEF Fits
  <2> QED BY <1>3, <2>1, <2>2 DEF NewCodeOps
<1>6. PICK n : n = [tmp EXCEPT !.code[at[h].code] = [of |-> at[h].user, used |-> FALSE]]
  OBVIOUS
<1>7. Write(n) /\ issued' = issued \cup {at[h].code}
  BY <1>6 DEF AddCode
<1>8. /\ n \in Tables /\ n.code[at[h].code].of = at[h].user
      /\ \A x \in Codes \ {at[h].code} : n.code[x] = tmp.code[x]
      /\ n.rows = tmp.rows /\ n.owner = tmp.owner /\ n.key = tmp.key
  BY <1>3, <1>4, <1>5, <1>6, CodeAdded
<1>9. promised' \subseteq promised \cup {at[h].code} /\ redeemed' = redeemed
  BY <1>1 DEF AddCode
<1>10. CodesOK(n)'
  BY <1>3, <1>4, <1>5, <1>7, <1>8, <1>9, NoneIsNoUser DEF CodesOK
<1>11. at' = [at EXCEPT ![h] = at'[h]] /\ Served(h)
  <2>1. CASE Goto(h, "commit")
    BY <2>1, GotoServes DEF SInv, Steps, Served
  <2>2. CASE Finish(h, "ok")
    BY <2>2, FinishServes DEF SInv, Served
  <2>3. CASE Throw(h)
    BY <2>3, ThrowServes DEF SInv, Served
  <2> QED BY <2>1, <2>2, <2>3 DEF AddCode
<1>12. CASE at[h].op \in Transactional /\ Goto(h, "commit") /\ UNCHANGED promised
  <2>1. Goto(h, "commit") /\ UNCHANGED promised
    BY <1>12
  <2>2. PICK r : r = [at[h] EXCEPT !.step = "commit"]
    OBVIOUS
  <2>3. r \in Request /\ r.step = "commit" /\ Same(at[h], r) /\ at'[h] = r
    BY <1>2, <2>1, <2>2, AtStep DEF Same, Goto, Issue, SInv, ShapeOK, Request, Steps
  <2>4. Transacts(at[h]) /\ session = "open"
    BY <1>2, <1>12 DEF Transacts
  <2>5. UNCHANGED <<db, session>> /\ tmp' = n
    BY <1>7, <2>4 DEF Write
  <2>6. RowsSoFar(r, n) /\ DevicesSoFar(r, n)
    BY <1>2, <1>3, <1>8, <2>3, <2>4, SameRows, SameDevices DEF SoFar, PartialSteps, Same, NewCodeOps
  <2>7. CodeSoFar(r, n)'
    BY <1>3, <1>5, <1>8, <1>10, <2>3, NoneIsNoUser DEF CodeSoFar, Same, NewCodeOps
  <2>8. Follows(r)'
    BY <1>8, <2>3, <2>4, <2>5, <2>6, <2>7 DEF Follows, SoFar, CodeSoFar, CodesOK, Transacts, Same
  <2>9. "commit" \in Path(at[h].op)
    BY <1>3, <1>12 DEF Path, NewCodeOps, Transactional
  <2>10. Fits(r)'
    BY <1>2, <1>3, <2>3, <2>9 DEF Fits, Same, ProfileSteps, NewCodeOps
  <2>11. Sound(db)'
    BY <1>7, <1>9, <2>1, <2>5 DEF AInv, Sound, CodesOK
  <2> QED BY <1>2, <1>3, <1>7, <1>11, <2>3, <2>4, <2>5, <2>8, <2>10, <2>11, ApartKeeps DEF Same
<1>13. CASE at[h].op \notin Transactional /\ (Finish(h, "ok") \/ Finish(h, "error"))
  <2>1. Finish(h, "ok") \/ Finish(h, "error")
    BY <1>13
  <2>2. PICK r : r = at'[h]
    OBVIOUS
  <2>3. r.step = "idle" /\ Same(at[h], r)
    BY <1>2, <2>1, <2>2 DEF Same, Finish, SInv, ShapeOK, Request
  <2>4. session = "idle" /\ Sound(tmp)
    BY <1>2, <1>13 DEF Transacts
  <2>5. db' = n /\ tmp' = n /\ session' = "idle"
    BY <1>7, <2>4 DEF Write
  <2>6. Sound(n)'
    BY <1>8, <1>10, <2>4 DEF Sound, SingleOwned, KeyHeld, Whole, Registered, Complete
  <2>7. Fits(r)' /\ Follows(r)'
    BY <1>2, <1>3, <2>3, <2>5 DEF Fits, Same, Follows, Transacts, ProfileSteps, NewCodeOps
  <2>8. Sound(db)'
    BY <2>5, <2>6 DEF Sound, SingleOwned, KeyHeld, CodesOK, Whole, Registered, Complete
  <2> QED BY <1>2, <1>3, <1>7, <1>11, <2>2, <2>3, <2>5, <2>7, <2>8, ApartKeeps DEF Same
<1>14. CASE at[h].op \in Transactional /\ Goto(h, "rollback") /\ UNCHANGED promised
  <2>1. PICK r : r = [at[h] EXCEPT !.step = "rollback"]
    OBVIOUS
  <2>2. r.step = "rollback" /\ Same(at[h], r) /\ at'[h] = r /\ r.reply = at[h].reply
    BY <1>2, <1>14, <2>1 DEF Same, Goto, Issue, SInv, ShapeOK, Request, Steps
  <2>3. session = "open"
    BY <1>2, <1>14 DEF Transacts
  <2>4. UNCHANGED <<db, session>>
    BY <1>7, <2>3 DEF Write
  <2>5. "rollback" \in Path(at[h].op)
    BY <1>3, <1>14 DEF Path, NewCodeOps, Transactional
  <2>6. Fits(r)' /\ Follows(r)'
    BY <1>2, <1>3, <2>2, <2>5 DEF Fits, Follows, Same, ProfileSteps, NewCodeOps
  <2>7. Sound(db)'
    BY <1>7, <1>9, <1>14, <2>4 DEF AInv, Sound, CodesOK
  <2> QED BY <1>2, <1>3, <1>7, <1>11, <2>2, <2>3, <2>4, <2>6, <2>7, ApartKeeps DEF Same
<1>15. Throw(h) => \/ at[h].op \in Transactional /\ Goto(h, "rollback")
                   \/ at[h].op \notin Transactional /\ Finish(h, "error")
  BY <1>2 DEF Throw
<1> QED BY <1>12, <1>13, <1>14, <1>15 DEF AddCode

LEMMA AddCodeFailsApart ==
  ASSUME Apart, SInv, AInv, NEW h \in Handlers, AddCodeFails(h)
  PROVE  AInv'
BY ThrowOn DEF AddCodeFails, Runs, Turn

-------------------------------------------------------------------------------
\* A verification.

\* A statement of a verification, in its transaction.
LEMMA AtVerify ==
  ASSUME Apart, SInv, AInv, NEW h \in Handlers,
         NEW s \in {"validate", "peekOwn", "dropOwn", "peekDevice", "dropDevice", "ownerOf",
                    "devicesOf", "bind", "describe", "key"}, Turn(h, s)
  PROVE  /\ at[h] \in Request /\ Fits(at[h]) /\ at[h].step = s /\ at[h].op = "verify"
         /\ Transacts(at[h]) /\ session = "open"
         /\ tmp \in Tables /\ RowsSoFar(at[h], tmp) /\ DevicesSoFar(at[h], tmp)
         /\ CodeSoFar(at[h], tmp)
         /\ at[h].device \in Devices /\ at[h].code \in Codes
<1>1. /\ at[h] \in Request /\ Fits(at[h]) /\ at[h].step = s /\ s \in Path(at[h].op)
      /\ Transacts(at[h]) => session = "open" /\ SoFar(at[h], tmp)
  BY AtStatement DEF Steps
<1>2. at[h].op = "verify"
  BY <1>1 DEF Path, ProfileSteps
<1>3. Transacts(at[h])
  BY <1>1, <1>2 DEF Transacts, Transactional
<1> QED BY <1>1, <1>2, <1>3 DEF SoFar, Fits

LEMMA ValidateApart ==
  ASSUME Apart, SInv, AInv, NEW h \in Handlers, Validate(h)
  PROVE  AInv'
<1>1. Turn(h, "validate") /\ UNCHANGED history
  BY DEF Validate, Runs
<1>2. /\ at[h] \in Request /\ Fits(at[h]) /\ at[h].step = "validate" /\ at[h].op = "verify"
      /\ Transacts(at[h]) /\ session = "open" /\ tmp \in Tables /\ RowsSoFar(at[h], tmp)
      /\ DevicesSoFar(at[h], tmp) /\ CodeSoFar(at[h], tmp) /\ at[h].code \in Codes
  BY <1>1, AtVerify
<1>3. at[h].user \in Users
  BY <1>2 DEF Fits
<1>4. CASE tmp.code[at[h].code] = [of |-> at[h].user, used |-> FALSE] /\ at[h].code \notin late
  <2>1. PICK n : n = [tmp EXCEPT !.code[at[h].code].used = TRUE]
    OBVIOUS
  <2>2. PICK r : r = [at[h] EXCEPT !.step = "whois"]
    OBVIOUS
  <2>3. Write(n) /\ Goto(h, "whois")
    BY <1>4, <2>1 DEF Validate
  <2>4. /\ n \in Tables /\ n.code[at[h].code].used
        /\ n.code[at[h].code].of = tmp.code[at[h].code].of
        /\ \A x \in Codes \ {at[h].code} : n.code[x] = tmp.code[x]
        /\ n.rows = tmp.rows /\ n.owner = tmp.owner /\ n.key = tmp.key
    BY <1>2, <2>1, CodeUsed
  <2>5. r.step = "whois" /\ Same(at[h], r)
    BY <1>2, <2>2, AtStep DEF Same
  <2>6. RowsSoFar(r, n) /\ DevicesSoFar(r, n)
    BY <1>2, <2>4, <2>5, SameRows, SameDevices DEF PartialSteps
  <2>7. CodeSoFar(r, n)
    BY <1>2, <1>3, <1>4, <2>4, <2>5, NoneIsNoUser DEF CodeSoFar, CodesOK, Same, NewCodeOps
  <2>8. "whois" \in Path(at[h].op)
    BY <1>2 DEF Path
  <2> QED BY <1>1, <1>2, <1>3, <2>2, <2>3, <2>4, <2>6, <2>7, <2>8, GotoWriteOn DEF Steps, SoFar
<1>5. CASE ~(tmp.code[at[h].code] = [of |-> at[h].user, used |-> FALSE] /\ at[h].code \notin late)
  BY <1>1, <1>2, <1>5, ThrowOn DEF Validate
<1> QED BY <1>4, <1>5

LEMMA PeekOwnApart ==
  ASSUME Apart, SInv, AInv, NEW h \in Handlers, PeekOwn(h) \/ PeekDevice(h)
  PROVE  AInv'
<1>1. PICK s0 \in {"peekOwn", "peekDevice"} : Turn(h, s0)
  BY DEF PeekOwn, PeekDevice, Runs
<1>2. PICK s \in {"dropOwn", "peekDevice", "dropDevice", "ownerOf"} : Goto(h, s)
  BY DEF PeekOwn, PeekDevice
<1>3. UNCHANGED history /\ ReadOnly
  BY DEF PeekOwn, PeekDevice
<1>4. at[h].op = "verify"
  BY <1>1, AtVerify
<1>5. s \in Path(at[h].op)
  BY <1>4 DEF Path
<1> QED BY <1>1, <1>2, <1>3, <1>4, <1>5, QuietGoto DEF Steps, PartialSteps, ProfileSteps

LEMMA DropApart ==
  ASSUME Apart, SInv, AInv, NEW h \in Handlers, DropOwn(h) \/ DropDevice(h)
  PROVE  AInv'
<1>1. PICK s0 \in {"dropOwn", "dropDevice"} : Turn(h, s0)
  BY DEF DropOwn, DropDevice, Runs
<1>2. /\ at[h] \in Request /\ Fits(at[h]) /\ at[h].step = s0 /\ at[h].op = "verify"
      /\ Transacts(at[h]) /\ session = "open" /\ tmp \in Tables /\ RowsSoFar(at[h], tmp)
      /\ DevicesSoFar(at[h], tmp) /\ CodeSoFar(at[h], tmp) /\ at[h].device \in Devices
  BY <1>1, AtVerify
<1>3. PICK ds \in SUBSET Devices : Write(Drop(tmp, ds))
  BY <1>2 DEF DropOwn, DropDevice, OwnedBy
<1>4. PICK s \in {"peekDevice", "ownerOf"} : Goto(h, s)
  BY DEF DropOwn, DropDevice
<1>5. UNCHANGED history
  BY DEF DropOwn, DropDevice
<1>6. PICK n : n = Drop(tmp, ds)
  OBVIOUS
<1>7. PICK r : r = [at[h] EXCEPT !.step = s]
  OBVIOUS
<1>8. r.step = s /\ Same(at[h], r)
  BY <1>2, <1>7, AtStep DEF Same
<1>9. n \in Tables /\ n.rows = tmp.rows /\ n.code = tmp.code
  BY <1>2, <1>6, Dropped
<1>10. SingleOwned(n) /\ \A d \in Devices : KeyHeld(n, d)
  <2>1. SingleOwned(tmp) /\ \A d \in Devices : KeyHeld(tmp, d)
    BY <1>2 DEF DevicesSoFar
  <2> QED BY <1>2, <1>6, <2>1, DropSound
<1>11. DevicesSoFar(r, n)
  BY <1>2, <1>8, <1>10 DEF DevicesSoFar, Same
<1>12. RowsSoFar(r, n) /\ CodeSoFar(r, n)
  BY <1>2, <1>8, <1>9, SameRows, SameCode DEF PartialSteps, Same, NewCodeOps
<1>13. s \in Path(at[h].op)
  BY <1>2 DEF Path
<1> QED BY <1>2, <1>3, <1>4, <1>5, <1>6, <1>7, <1>9, <1>11, <1>12, <1>13, GotoWriteOn
        DEF Steps, SoFar, ProfileSteps

LEMMA OwnerOfApart ==
  ASSUME Apart, SInv, AInv, NEW h \in Handlers, OwnerOf(h) \/ DevicesOf(h)
  PROVE  AInv'
<1>1. PICK s0 \in {"ownerOf", "devicesOf"} : Turn(h, s0) /\ (s0 = "ownerOf" <=> OwnerOf(h))
  BY DEF OwnerOf, DevicesOf, Runs, Turn
<1>2. UNCHANGED history /\ ReadOnly
  BY DEF OwnerOf, DevicesOf
<1>3. /\ at[h] \in Request /\ Fits(at[h]) /\ at[h].step = s0 /\ at[h].op = "verify"
      /\ Transacts(at[h]) /\ session = "open" /\ tmp \in Tables /\ RowsSoFar(at[h], tmp)
      /\ DevicesSoFar(at[h], tmp) /\ CodeSoFar(at[h], tmp)
  BY <1>1, AtVerify
<1>4. CASE Throw(h)
  BY <1>2, <1>3, <1>4, ThrowOn
<1>5. ASSUME NEW s \in {"devicesOf", "key", "bind"}, Goto(h, s),
             s = "key" => tmp.owner[at[h].device] # None /\ tmp.owner[at[h].device] = at[h].user,
             s \in {"devicesOf", "bind"} => tmp.owner[at[h].device] = None,
             s = "bind" => OwnedBy(tmp, at[h].user) = {}
      PROVE  AInv'
  <2>1. PICK r : r = [at[h] EXCEPT !.step = s]
    OBVIOUS
  <2>2. r.step = s /\ Same(at[h], r)
    BY <1>3, <2>1, AtStep DEF Same
  <2>3. RowsSoFar(r, tmp) /\ CodeSoFar(r, tmp)
    BY <1>3, <2>2, SameRows, SameCode DEF PartialSteps, Same, NewCodeOps
  <2>4. DevicesSoFar(r, tmp)
    BY <1>3, <1>5, <2>2 DEF DevicesSoFar, Same
  <2>5. s \in Path(at[h].op)
    BY <1>3 DEF Path
  <2> QED BY <1>2, <1>3, <1>5, <2>1, <2>3, <2>4, <2>5, GotoReadOn DEF Steps, SoFar, ProfileSteps
<1>6. CASE OwnerOf(h) /\ ~Throw(h)
  BY <1>5, <1>6 DEF OwnerOf
<1>7. CASE DevicesOf(h) /\ ~Throw(h)
  <2>1. tmp.owner[at[h].device] = None
    BY <1>3, <1>7 DEF DevicesSoFar, DevicesOf, Runs, Turn
  <2> QED BY <1>5, <1>7, <2>1 DEF DevicesOf
<1> QED BY <1>4, <1>6, <1>7

LEMMA BindApart ==
  ASSUME Apart, SInv, AInv, NEW h \in Handlers, Bind(h)
  PROVE  AInv'
<1>1. Turn(h, "bind") /\ UNCHANGED history
  BY DEF Bind, Runs
<1>2. /\ at[h] \in Request /\ Fits(at[h]) /\ at[h].step = "bind" /\ at[h].op = "verify"
      /\ Transacts(at[h]) /\ session = "open" /\ tmp \in Tables /\ RowsSoFar(at[h], tmp)
      /\ DevicesSoFar(at[h], tmp) /\ CodeSoFar(at[h], tmp) /\ at[h].device \in Devices
  BY <1>1, AtVerify
<1>3. CASE Registered(tmp, at[h].user) /\ tmp.owner[at[h].device] = None
  <2>1. at[h].user \in Users
    BY <1>2, <1>3, RegisteredUsers
  <2>2. PICK n : n = [tmp EXCEPT !.owner[at[h].device] = at[h].user]
    OBVIOUS
  <2>3. PICK r : r = [at[h] EXCEPT !.step = "describe"]
    OBVIOUS
  <2>4. Write(n) /\ Goto(h, "describe")
    BY <1>3, <2>2 DEF Bind
  <2>5. /\ n \in Tables
        /\ \A e \in Devices : n.owner[e] = IF e = at[h].device THEN at[h].user ELSE tmp.owner[e]
        /\ n.rows = tmp.rows /\ n.code = tmp.code /\ n.key = tmp.key
    BY <1>2, <2>1, <2>2, Bound
  <2>6. r.step = "describe" /\ Same(at[h], r)
    BY <1>2, <2>3, AtStep DEF Same
  <2>7. at[h].user # None
    BY <2>1, NoneIsNoUser
  <2>8. \A e \in Devices : tmp.owner[e] # at[h].user
    BY <1>2, <2>7 DEF DevicesSoFar, OwnedBy
  <2>9. SingleOwned(n)
    BY <1>2, <2>5, <2>8 DEF SingleOwned, DevicesSoFar
  <2>10. \A d \in Devices : KeyHeld(n, d) \/ d = at[h].device
    BY <1>2, <2>5 DEF KeyHeld, DevicesSoFar
  <2>11. DevicesSoFar(r, n)
    BY <1>2, <2>5, <2>6, <2>7, <2>9, <2>10 DEF DevicesSoFar, Same
  <2>12. RowsSoFar(r, n) /\ CodeSoFar(r, n)
    BY <1>2, <2>5, <2>6, SameRows, SameCode DEF PartialSteps, Same, NewCodeOps
  <2>13. "describe" \in Path(at[h].op)
    BY <1>2 DEF Path
  <2> QED BY <1>1, <1>2, <2>3, <2>4, <2>5, <2>11, <2>12, <2>13, GotoWriteOn
          DEF Steps, SoFar, ProfileSteps
<1>4. CASE ~(Registered(tmp, at[h].user) /\ tmp.owner[at[h].device] = None)
  BY <1>1, <1>2, <1>4, ThrowOn DEF Bind
<1> QED BY <1>3, <1>4

LEMMA DescribeApart ==
  ASSUME Apart, SInv, AInv, NEW h \in Handlers, Describe(h)
  PROVE  AInv'
<1>1. Turn(h, "describe") /\ UNCHANGED history
  BY DEF Describe, Runs
<1>2. /\ at[h] \in Request /\ Fits(at[h]) /\ at[h].step = "describe" /\ at[h].op = "verify"
      /\ Transacts(at[h]) /\ session = "open" /\ tmp \in Tables /\ RowsSoFar(at[h], tmp)
      /\ DevicesSoFar(at[h], tmp) /\ CodeSoFar(at[h], tmp) /\ at[h].device \in Devices
  BY <1>1, AtVerify
<1>3. CASE tmp.owner[at[h].device] # None /\ at[h].device \notin tmp.known
  <2>1. PICK n : n = [tmp EXCEPT !.known = @ \cup {at[h].device}]
    OBVIOUS
  <2>2. PICK r : r = [at[h] EXCEPT !.step = "key"]
    OBVIOUS
  <2>3. Write(n) /\ Goto(h, "key")
    BY <1>3, <2>1 DEF Describe
  <2>4. n \in Tables /\ n.rows = tmp.rows /\ n.code = tmp.code /\ n.owner = tmp.owner /\ n.key = tmp.key
    BY <1>2, <2>1, Described
  <2>5. r.step = "key" /\ Same(at[h], r)
    BY <1>2, <2>2, AtStep DEF Same
  <2>6. DevicesSoFar(r, n)
    BY <1>2, <2>4, <2>5 DEF DevicesSoFar, SingleOwned, KeyHeld, Same
  <2>7. RowsSoFar(r, n) /\ CodeSoFar(r, n)
    BY <1>2, <2>4, <2>5, SameRows, SameCode DEF PartialSteps, Same, NewCodeOps
  <2>8. "key" \in Path(at[h].op)
    BY <1>2 DEF Path
  <2> QED BY <1>1, <1>2, <2>2, <2>3, <2>4, <2>6, <2>7, <2>8, GotoWriteOn
          DEF Steps, SoFar, ProfileSteps
<1>4. CASE ~(tmp.owner[at[h].device] # None /\ at[h].device \notin tmp.known)
  BY <1>1, <1>2, <1>4, ThrowOn DEF Describe
<1> QED BY <1>3, <1>4

LEMMA KeyApart ==
  ASSUME Apart, SInv, AInv, NEW h \in Handlers, RegisterPublicKey(h)
  PROVE  AInv'
<1>1. Turn(h, "key") /\ UNCHANGED history
  BY DEF RegisterPublicKey, Runs
<1>2. /\ at[h] \in Request /\ Fits(at[h]) /\ at[h].step = "key" /\ at[h].op = "verify"
      /\ Transacts(at[h]) /\ session = "open" /\ tmp \in Tables /\ RowsSoFar(at[h], tmp)
      /\ DevicesSoFar(at[h], tmp) /\ CodeSoFar(at[h], tmp) /\ at[h].device \in Devices
  BY <1>1, AtVerify
<1>3. CASE Registered(tmp, at[h].user)
  <2>1. at[h].user \in Users
    BY <1>2, <1>3, RegisteredUsers
  <2>2. PICK n : n = [tmp EXCEPT !.key[at[h].user] = at[h].device]
    OBVIOUS
  <2>3. PICK r : r = [at[h] EXCEPT !.step = "details"]
    OBVIOUS
  <2>4. Write(n) /\ Goto(h, "details")
    BY <1>3, <2>2 DEF RegisterPublicKey
  <2>5. /\ n \in Tables
        /\ \A v \in Users : n.key[v] = IF v = at[h].user THEN at[h].device ELSE tmp.key[v]
        /\ n.rows = tmp.rows /\ n.code = tmp.code /\ n.owner = tmp.owner
    BY <1>2, <2>1, <2>2, KeySet
  <2>6. r.step = "details" /\ Same(at[h], r)
    BY <1>2, <2>3, AtStep DEF Same
  <2>7. \A d \in Devices : KeyHeld(n, d)
    <3>1. SUFFICES ASSUME NEW d \in Devices, tmp.owner[d] # None PROVE n.key[tmp.owner[d]] = d
      BY <2>5 DEF KeyHeld
    <3>2. tmp.owner[d] \in Users
      BY <1>2, <3>1 DEF Tables
    <3>3. CASE d = at[h].device
      BY <1>2, <2>5, <3>2, <3>3 DEF DevicesSoFar
    <3>4. CASE d # at[h].device
      <4>1. tmp.owner[d] # at[h].user
        BY <1>2, <3>1, <3>4 DEF DevicesSoFar, SingleOwned
      <4>2. tmp.key[tmp.owner[d]] = d
        BY <1>2, <3>1, <3>4 DEF DevicesSoFar, KeyHeld
      <4> QED BY <2>5, <3>2, <4>1, <4>2
    <3> QED BY <3>3, <3>4
  <2>8. DevicesSoFar(r, n)
    BY <1>2, <2>5, <2>6, <2>7 DEF DevicesSoFar, SingleOwned, Same
  <2>9. RowsSoFar(r, n) /\ CodeSoFar(r, n)
    BY <1>2, <2>5, <2>6, SameRows, SameCode DEF PartialSteps, Same, NewCodeOps
  <2>10. "details" \in Path(at[h].op)
    BY <1>2 DEF Path
  <2> QED BY <1>1, <1>2, <2>3, <2>4, <2>5, <2>8, <2>9, <2>10, GotoWriteOn
          DEF Steps, SoFar, ProfileSteps
<1>4. CASE ~Registered(tmp, at[h].user)
  BY <1>1, <1>2, <1>4, ThrowOn DEF RegisterPublicKey
<1> QED BY <1>3, <1>4

-------------------------------------------------------------------------------
\* A deletion.

LEMMA AtDelete ==
  ASSUME Apart, SInv, AInv, NEW h \in Handlers, NEW s \in {"auth", "exists", "drop"}, Turn(h, s)
  PROVE  /\ at[h] \in Request /\ Fits(at[h]) /\ at[h].step = s /\ at[h].op = "delete"
         /\ at[h].user \in Users /\ at[h].device \in Devices /\ at[h].reply = "none"
         /\ s # "auth" => /\ Transacts(at[h]) /\ session = "open" /\ tmp \in Tables
                          /\ RowsSoFar(at[h], tmp) /\ DevicesSoFar(at[h], tmp)
                          /\ CodeSoFar(at[h], tmp)
         /\ s = "auth" => session = "idle" /\ ~Transacts(at[h])
<1>1. /\ at[h] \in Request /\ Fits(at[h]) /\ at[h].step = s /\ s \in Path(at[h].op)
      /\ Transacts(at[h]) => session = "open" /\ SoFar(at[h], tmp)
      /\ ~Transacts(at[h]) => session = "idle"
  BY AtStatement DEF Steps
<1>2. at[h].op = "delete"
  BY <1>1 DEF Path, ProfileSteps
<1>3. Transacts(at[h]) <=> s # "auth"
  BY <1>1, <1>2 DEF Transacts, Transactional
<1> QED BY <1>1, <1>2, <1>3 DEF SoFar, Fits

LEMMA AuthenticateApart ==
  ASSUME Apart, SInv, AInv, NEW h \in Handlers, Authenticate(h)
  PROVE  AInv'
<1>1. Turn(h, "auth") /\ UNCHANGED history /\ ReadOnly
  BY DEF Authenticate, Runs
<1>2. /\ at[h] \in Request /\ Fits(at[h]) /\ at[h].step = "auth" /\ at[h].op = "delete"
      /\ at[h].user \in Users /\ session = "idle"
  BY <1>1, AtDelete
<1>3. CASE Goto(h, "begin")
  <2>1. PICK r : r = [at[h] EXCEPT !.step = "begin"]
    OBVIOUS
  <2>2. "begin" \in Path(at[h].op)
    BY <1>2 DEF Path
  <2>3. r \in Request /\ Fits(r) /\ r.step = "begin" /\ r.op = at[h].op /\ r.code = at[h].code
    BY <1>2, <2>1, <2>2, Onward DEF Steps
  <2>4. Follows(r)
    BY <1>2, <2>3 DEF Follows, Transacts
  <2> QED BY <1>1, <1>2, <1>3, <2>1, <2>3, <2>4, ReadOn DEF Goto
<1>4. CASE Finish(h, "error")
  <2>1. PICK r : r = at'[h]
    OBVIOUS
  <2>2. r.step = "idle" /\ Same(at[h], r) /\ Served(h)
    BY <1>4, <2>1, FinishForm DEF SInv
  <2>3. Fits(r)' /\ Follows(r)'
    BY <1>1, <1>2, <2>2 DEF Fits, Same, Follows, Transacts, ProfileSteps, ReadOnly, store
  <2>4. Sound(db)' /\ (session = "idle" => tmp = db)'
    BY <1>1 DEF AInv, Sound, CodesOK, ReadOnly, store, history
  <2> QED BY <1>1, <1>2, <2>1, <2>2, <2>3, <2>4, ApartKeeps DEF Same, history
<1> QED BY <1>3, <1>4 DEF Authenticate

\* The answer 200, and COMMIT.
LEMMA DeletedForm ==
  ASSUME NEW r0 \in Request, Fits(r0), r0.op = "delete", NEW r,
         r = [r0 EXCEPT !.step = "commit", !.reply = "ok"]
  PROVE  r \in Request /\ Fits(r) /\ r.step = "commit" /\ Same(r0, r)
<1>1. r \in Request /\ r.step = "commit" /\ Same(r0, r)
  BY DEF Request, Steps, Same
<1> QED BY <1>1 DEF Fits, Path, Same, ProfileSteps, NewCodeOps

LEMMA ExistsApart ==
  ASSUME Apart, SInv, AInv, NEW h \in Handlers, Exists(h)
  PROVE  AInv'
<1>1. Turn(h, "exists") /\ UNCHANGED history /\ ReadOnly
  BY DEF Exists, Runs
<1>2. /\ at[h] \in Request /\ Fits(at[h]) /\ at[h].step = "exists" /\ at[h].op = "delete"
      /\ Transacts(at[h]) /\ session = "open" /\ tmp \in Tables /\ RowsSoFar(at[h], tmp)
      /\ DevicesSoFar(at[h], tmp) /\ CodeSoFar(at[h], tmp)
  BY <1>1, AtDelete
<1>3. CASE tmp.owner[at[h].device] = None
  <2>1. PICK r : r = [at[h] EXCEPT !.step = "commit", !.reply = "ok"]
    OBVIOUS
  <2>2. r \in Request /\ Fits(r) /\ r.step = "commit" /\ Same(at[h], r)
    BY <1>2, <2>1, DeletedForm, Zenon
  <2>3. RowsSoFar(r, tmp)
    BY <1>2, <2>2, SameRows DEF PartialSteps
  <2>4. CodeSoFar(r, tmp)
    BY <1>2, <2>2, SameCode DEF Same, NewCodeOps
  <2>5. DevicesSoFar(r, tmp)
    BY <1>2, <1>3, <2>2 DEF DevicesSoFar, Same
  <2>6. Follows(r)
    BY <1>2, <2>2, <2>3, <2>4, <2>5 DEF Follows, SoFar, Transacts, Same
  <2> QED BY <1>1, <1>2, <1>3, <2>1, <2>2, <2>6, ReadOn DEF Exists, Same
<1>4. CASE tmp.owner[at[h].device] # None
  <2>1. "drop" \in Path(at[h].op)
    BY <1>2 DEF Path
  <2> QED BY <1>1, <1>4, <2>1, QuietGoto DEF Exists, Steps, PartialSteps, ProfileSteps
<1> QED BY <1>3, <1>4

LEMMA DeleteDeviceApart ==
  ASSUME Apart, SInv, AInv, NEW h \in Handlers, DeleteDevice(h)
  PROVE  AInv'
<1>1. Turn(h, "drop") /\ UNCHANGED history
  BY DEF DeleteDevice, Runs
<1>2. /\ at[h] \in Request /\ Fits(at[h]) /\ at[h].step = "drop" /\ at[h].op = "delete"
      /\ Transacts(at[h]) /\ session = "open" /\ tmp \in Tables /\ RowsSoFar(at[h], tmp)
      /\ DevicesSoFar(at[h], tmp) /\ CodeSoFar(at[h], tmp) /\ at[h].device \in Devices
  BY <1>1, AtDelete
<1>3. CASE tmp.owner[at[h].device] = at[h].user
  <2>1. PICK n : n = Drop(tmp, {at[h].device})
    OBVIOUS
  <2>2. PICK r : r = [at[h] EXCEPT !.step = "commit", !.reply = "ok"]
    OBVIOUS
  <2>3. Write(n) /\ Issue(h, r)
    BY <1>3, <2>1, <2>2 DEF DeleteDevice
  <2>4. r \in Request /\ Fits(r) /\ r.step = "commit" /\ Same(at[h], r)
    BY <1>2, <2>2, DeletedForm, Zenon
  <2>5. /\ n \in Tables /\ n.owner[at[h].device] = None /\ n.rows = tmp.rows /\ n.code = tmp.code
    <3>1. {at[h].device} \in SUBSET Devices
      BY <1>2
    <3> QED BY <1>2, <2>1, <3>1, Dropped
  <2>6. SingleOwned(n) /\ \A d \in Devices : KeyHeld(n, d)
    <3>1. SingleOwned(tmp) /\ \A d \in Devices : KeyHeld(tmp, d)
      BY <1>2 DEF DevicesSoFar
    <3> QED BY <1>2, <2>1, <3>1, DropSound
  <2>7. DevicesSoFar(r, n)
    BY <2>4, <2>5, <2>6 DEF DevicesSoFar, Same
  <2>8. RowsSoFar(r, n) /\ CodeSoFar(r, n)
    BY <1>2, <2>4, <2>5, SameRows, SameCode DEF PartialSteps, Same, NewCodeOps
  <2>9. Transacts(r) /\ SoFar(r, n)
    BY <1>2, <2>4, <2>5, <2>7, <2>8 DEF Transacts, SoFar, Same
  <2> QED BY <1>1, <1>2, <2>3, <2>4, <2>9, WriteOn DEF Same
<1>4. CASE tmp.owner[at[h].device] # at[h].user
  BY <1>1, <1>2, <1>4, ThrowOn DEF DeleteDevice
<1> QED BY <1>3, <1>4

-------------------------------------------------------------------------------
\* BEGIN, COMMIT and ROLLBACK.

LEMMA BeginApart ==
  ASSUME Apart, SInv, AInv, NEW h \in Handlers, Begin(h)
  PROVE  AInv'
<1>1. Turn(h, "begin") /\ UNCHANGED <<db, tmp, issued, promised, redeemed>> /\ session' = "open"
  BY DEF Begin, Runs
<1>2. /\ at[h] \in Request /\ Fits(at[h]) /\ at[h].step = "begin" /\ "begin" \in Path(at[h].op)
      /\ ~Transacts(at[h]) => Sound(tmp)
  BY <1>1, AtStatement DEF Steps
<1>3. /\ at[h].op \in Transactional /\ Sound(tmp) /\ at[h].user \in Users
  BY <1>2 DEF Path, Transactional, Transacts, Fits
<1>4. PICK s : s = AfterBegin(at[h].op)
  OBVIOUS
<1>5. /\ s \in {"users", "validate", "exists"} /\ s \in Path(at[h].op)
      /\ (at[h].op = "verify" => s = "validate")
  BY <1>3, <1>4 DEF AfterBegin, Path, Transactional, ProfileSteps
<1>6. PICK r : r = [at[h] EXCEPT !.step = s]
  OBVIOUS
<1>7. r \in Request /\ Fits(r) /\ r.step = s /\ r.op = at[h].op /\ r.code = at[h].code
  BY <1>2, <1>3, <1>5, <1>6, Onward DEF Steps
<1>8. Served(h) /\ at'[h] = r
  BY <1>4, <1>6, <1>7, IssueServes DEF Begin, Goto, SInv
<1>9. SoFar(r, tmp)
  BY <1>3, <1>5, <1>7, SoundSoFar DEF PartialSteps
<1>10. Follows(r)'
  BY <1>1, <1>3, <1>5, <1>7, <1>9
  DEF Follows, Transacts, SoFar, CodeSoFar, CodesOK
<1>11. Fits(r)' /\ Sound(db)'
  BY <1>1, <1>7 DEF Fits, AInv, Sound, CodesOK
<1> QED BY <1>1, <1>2, <1>7, <1>8, <1>10, <1>11, ApartKeeps

LEMMA CommitApart ==
  ASSUME Apart, SInv, AInv, NEW h \in Handlers, Commit(h)
  PROVE  AInv'
<1>1. Turn(h, "commit") /\ UNCHANGED issued /\ session' = "idle" /\ Finish(h, "ok")
  BY DEF Commit
<1>2. /\ at[h] \in Request /\ Fits(at[h]) /\ at[h].step = "commit" /\ "commit" \in Path(at[h].op)
      /\ Transacts(at[h]) => session = "open" /\ SoFar(at[h], tmp)
  BY <1>1, AtStatement DEF Steps
<1>3. at[h].op \in {"register", "registerSms", "verify", "delete"} /\ Transacts(at[h])
  BY <1>2 DEF Path, Transacts, Transactional
<1>4. tmp' = tmp /\ db' = tmp
  BY <1>2, <1>3 DEF Commit
<1>5. /\ promised' = promised \cup IF at[h].op \in {"register", "registerSms"} THEN {at[h].code} ELSE {}
      /\ redeemed' = redeemed \cup IF at[h].op = "verify" THEN {at[h].code} ELSE {}
  BY DEF Commit
<1>6. at[h].op # "delete" => at[h].code \in Codes
  BY <1>2, <1>3 DEF Fits, NewCodeOps
<1>7. CodesOK(tmp)'
  BY <1>1, <1>2, <1>3, <1>4, <1>5, <1>6 DEF SoFar, CodeSoFar, CodesOK, NewCodeOps
<1>8. SingleOwned(tmp) /\ (\A d \in Devices : KeyHeld(tmp, d)) /\ (\A u \in Users : Whole(tmp, u))
      /\ tmp \in Tables
  BY <1>2, <1>3 DEF SoFar, DevicesSoFar, RowsSoFar, PartialSteps
<1>9. Sound(db)'
  BY <1>4, <1>7, <1>8 DEF Sound, SingleOwned, KeyHeld, Whole, Registered, Complete, CodesOK
<1>10. PICK r : r = at'[h]
  OBVIOUS
<1>11. r.step = "idle" /\ Same(at[h], r) /\ Served(h)
  BY <1>1, <1>10, FinishForm DEF SInv
<1>12. Fits(r)' /\ Follows(r)'
  BY <1>1, <1>2, <1>11 DEF Fits, Same, Follows, Transacts, ProfileSteps, NewCodeOps
<1> QED BY <1>1, <1>2, <1>4, <1>9, <1>10, <1>11, <1>12, ApartKeeps DEF Same

LEMMA RollbackApart ==
  ASSUME Apart, SInv, AInv, NEW h \in Handlers, Rollback(h) \/ CommitFails(h)
  PROVE  AInv'
<1>1. PICK s0 \in {"rollback", "commit"} : Turn(h, s0)
  BY DEF Rollback, CommitFails
<1>2. UNCHANGED <<db, history>> /\ session' = "idle" /\ tmp' = db
  BY DEF Rollback, CommitFails
<1>3. at[h] \in Request /\ Fits(at[h]) /\ at[h].step = s0
  BY <1>1, AtStatement DEF Steps
<1>4. PICK r : r = at'[h]
  OBVIOUS
<1>5. Sound(db)'
  BY <1>2 DEF AInv, Sound, CodesOK, history
<1>6. CASE Rollback(h)
  <2>1. r.step = "idle" /\ Same(at[h], r) /\ Served(h)
    BY <1>4, <1>6, FinishForm DEF Rollback, SInv
  <2>2. Fits(r)' /\ Follows(r)'
    BY <1>2, <1>3, <2>1 DEF Fits, Same, Follows, Transacts, ProfileSteps, NewCodeOps, history
  <2> QED BY <1>2, <1>3, <1>4, <1>5, <2>1, <2>2, ApartKeeps DEF Same, history
<1>7. CASE CommitFails(h)
  <2>1. r = [at[h] EXCEPT !.step = "rollback"]
    BY <1>4, <1>7 DEF CommitFails, Goto, Issue, SInv, ShapeOK
  <2>2. r.step = "rollback" /\ Same(at[h], r) /\ Served(h)
    BY <1>3, <1>7, <2>1, AtStep, GotoServes DEF Same, CommitFails, SInv, Steps
  <2>3. at[h].op = "verify"
    BY <1>7 DEF CommitFails
  <2>4. Fits(r)' /\ Follows(r)'
    BY <1>2, <1>3, <2>2, <2>3
    DEF Fits, Path, Same, Follows, Transacts, Transactional, ProfileSteps, NewCodeOps, history
  <2> QED BY <1>2, <1>3, <1>4, <1>5, <2>2, <2>4, ApartKeeps DEF Same, history
<1> QED BY <1>6, <1>7

\* In an aborted transaction its only request has nothing but ROLLBACK to come.
LEMMA RefusedApart ==
  ASSUME Apart, SInv, AInv, NEW h \in Handlers, Refused(h)
  PROVE  FALSE
<1>1. PICK s \in Steps \ {"idle", "commit", "rollback"} : Turn(h, s)
  BY DEF Refused
<1>2. session = "aborted"
  BY DEF Refused
<1> QED BY <1>1, <1>2, AtStatement

-------------------------------------------------------------------------------
\* What is not a statement.

LEMMA ReceiveApart ==
  ASSUME SInv, AInv, NEW h \in Handlers, NEW op \in Ops, NEW u \in Users,
         NEW d \in Devices \cup {None}, NEW c \in Codes \cup {None}, NEW wipe \in BOOLEAN,
         Receive(h, op, u, d, c, wipe),
         op \in NewCodeOps => c \in Codes /\ NewCode(c),
         op \in {"verify", "delete"} => d \in Devices,
         op = "verify" => c \in Codes
  PROVE  AInv'
<1>1. PICK r : r = [op |-> op, step |-> Start(op), user |-> u, device |-> d, code |-> c,
                    wipe |-> wipe, reply |-> "none"]
  OBVIOUS
<1>2. /\ at' = [at EXCEPT ![h] = r] /\ at[h].step = "idle" 
      /\ UNCHANGED <<db, tmp, session, issued, promised, redeemed>>
  BY <1>1 DEF Receive, store
<1>3. at'[h] = r /\ \A k \in Handlers \ {h} : at'[k] = at[k]
  BY <1>2 DEF SInv, ShapeOK
<1>4. r.op = op /\ r.step = Start(op) /\ r.user = u /\ r.device = d /\ r.code = c /\ r.reply = "none"
  BY <1>1
<1>5. Start(op) \in Path(op)
  BY DEF Start, Path, Ops
<1>6. Fits(r)'
  BY <1>2, <1>4, <1>5 DEF Fits, NewCode
<1>7. ~Transacts(r)
  BY <1>4 DEF Transacts, Start, Transactional
<1>8. Follows(r)'
  BY <1>7 DEF Follows, Transacts
<1>9. ASSUME NEW k \in Handlers \ {h} PROVE Fits(at[k])' /\ Follows(at[k])'
  <2>1. PICK x : x = at[k]
    OBVIOUS
  <2>2. Fits(x) /\ Follows(x)
    BY <2>1 DEF AInv
  <2>3. Fits(x)' /\ Follows(x)'
    BY <1>2, <2>2 DEF Fits, Follows, SoFar, CodeSoFar, CodesOK
  <2> QED BY <1>3, <2>1, <2>3
<1>10. ASSUME NEW k \in Handlers \ {h}, Mints(at[k]), Mints(r) PROVE at[k].code # r.code
  BY <1>4, <1>10 DEF Mints, NewCode
<1>11. (\A g, k \in Handlers : g # k /\ Mints(at[g]) /\ Mints(at[k]) => at[g].code # at[k].code)'
  BY <1>3, <1>10 DEF AInv, Mints
<1>12. \A k \in Handlers : Fits(at[k])' /\ Follows(at[k])'
  BY <1>3, <1>6, <1>8, <1>9
<1> QED BY <1>2, <1>11, <1>12 DEF AInv, Sound, CodesOK

LEMMA ArriveApart ==
  ASSUME SInv, AInv, NEW h \in Handlers, Arrive(h)
  PROVE  AInv'
<1> USE DEF Ops, NewCodeOps
<1>1. CASE \E u \in Users, c \in Codes, op \in {"login", "loginSms", "register", "registerSms"} :
               NewCode(c) /\ Receive(h, op, u, None, c, FALSE)
  BY <1>1, ReceiveApart
<1>2. CASE \E u \in Users, d \in Devices : Receive(h, "delete", u, d, None, FALSE)
  BY <1>2, ReceiveApart
<1>3. CASE \E u \in Users, d \in Devices, c \in Codes, wipe \in BOOLEAN :
               Receive(h, "verify", u, d, c, wipe)
  BY <1>3, ReceiveApart
<1> QED BY <1>1, <1>2, <1>3 DEF Arrive

LEMMA QuietApart == AInv /\ UNCHANGED <<store, at, history>> => AInv'
BY DEF AInv, Sound, CodesOK, Fits, Follows, Mints, SoFar, CodeSoFar, store, history

LEMMA CrashApart == AInv /\ Crash => AInv'
<1> SUFFICES ASSUME AInv, Crash PROVE AInv'
  OBVIOUS
<1>1. UNCHANGED <<db, history>> /\ session' = "idle" /\ tmp' = db
      /\ at' = [h \in Handlers |-> Fresh]
  BY DEF Crash
<1>2. PICK r : r = Fresh
  OBVIOUS
<1>3. Fits(r)' /\ Follows(r)'
  BY <1>1, <1>2, FreshFits DEF Fits, Follows, Transacts, history
<1>4. (\A g, k \in Handlers : g # k /\ Mints(at[g]) /\ Mints(at[k]) => at[g].code # at[k].code)'
  BY <1>1 DEF Mints, Fresh
<1> QED BY <1>1, <1>2, <1>3, <1>4 DEF AInv, Sound, CodesOK, history

LEMMA StatementApart ==
  ASSUME Apart, SInv, AInv, NEW h \in Handlers, Statement(h)
  PROVE  AInv'
<1>1. CASE Begin(h) \/ Commit(h) \/ CommitFails(h) \/ Rollback(h) \/ Refused(h)
  BY <1>1, BeginApart, CommitApart, RollbackApart, RefusedApart
<1>2. CASE \/ AddUser(h) \/ AddProfileRow(h, "user_details", "users_state")
           \/ AddProfileRow(h, "users_state", "users_settings")
           \/ AddProfileRow(h, "users_settings", AfterSettings(at[h].op))
  BY <1>2, AddUserApart, AddProfileRowApart
<1>3. CASE \/ WhoIs(h) \/ Details(h) \/ Perceptions(h) \/ NoDetails(h)
           \/ AddCode(h) \/ AddCodeFails(h)
  BY <1>3, WhoIsApart, DetailsApart, AddCodeApart, AddCodeFailsApart
<1>4. CASE \/ Validate(h) \/ PeekOwn(h) \/ DropOwn(h) \/ PeekDevice(h) \/ DropDevice(h)
  BY <1>4, ValidateApart, PeekOwnApart, DropApart
<1>5. CASE OwnerOf(h) \/ DevicesOf(h) \/ Bind(h) \/ Describe(h) \/ RegisterPublicKey(h)
  BY <1>5, OwnerOfApart, BindApart, DescribeApart, KeyApart
<1>6. CASE Authenticate(h) \/ Exists(h) \/ DeleteDevice(h)
  BY <1>6, AuthenticateApart, ExistsApart, DeleteDeviceApart
<1> QED BY <1>1, <1>2, <1>3, <1>4, <1>5, <1>6 DEF Statement

LEMMA NextApart == ASSUME Apart, SInv, AInv, [Next]_vars PROVE SInv' /\ AInv'
<1>1. SInv'
  BY NextKeeps
<1>2. CASE UNCHANGED vars
  <2>1. UNCHANGED <<store, at, history>>
    BY <1>2 DEF vars, store, history
  <2> QED BY <1>1, <2>1, QuietApart
<1>3. ASSUME NEW h \in Handlers, Arrive(h) \/ Statement(h) PROVE AInv'
  BY <1>3, ArriveApart, StatementApart
<1>4. ASSUME NEW c \in Codes, Elapse(c) PROVE AInv'
  <2>1. UNCHANGED <<store, at, history>>
    BY <1>4 DEF Elapse
  <2> QED BY <2>1, QuietApart
<1>5. CASE Crash
  BY <1>1, <1>5, CrashApart
<1> QED BY <1>1, <1>2, <1>3, <1>4, <1>5 DEF Next

LEMMA AlwaysApart == Spec /\ []Apart => [](SInv /\ AInv)
<1>1. Init => SInv /\ AInv
  BY InitSInv, InitAInv
<1>2. Apart /\ (SInv /\ AInv) /\ [Next]_vars => (SInv /\ AInv)'
  BY NextApart
<1> QED BY <1>1, <1>2, PTL DEF Spec

\* Over any sequence of requests that keep out of each other's transactions, their
\* failures and crashes: no user has two active devices.
THEOREM OneDeviceApart == Spec /\ []Apart => []OneActiveDevice
<1>1. AInv => OneActiveDevice
  BY DEF AInv, Sound, SingleOwned, OneActiveDevice
<1> QED BY <1>1, AlwaysApart, PTL

\* The key that the other services check is the one of the active device.
THEOREM KeyFollowsDeviceApart == Spec /\ []Apart => []ActiveDeviceHoldsKey
<1>1. AInv => ActiveDeviceHoldsKey
  BY DEF AInv, Sound, KeyHeld, ActiveDeviceHoldsKey
<1> QED BY <1>1, AlwaysApart, PTL

\* A registration that fails, or dies, leaves nothing of an account.
THEOREM AccountsAreWholeApart == Spec /\ []Apart => []WholeAccounts
<1>1. AInv => WholeAccounts
  BY DEF AInv, Sound, Whole, WholeAccounts
<1> QED BY <1>1, AlwaysApart, PTL

\* A code answered 200 is used up in the database, or, of a login or registration, in it.
THEOREM AnswersHoldApart == Spec /\ []Apart => []AnswersHold
<1>1. AInv => AnswersHold
  BY DEF AInv, Sound, CodesOK, AnswersHold
<1> QED BY <1>1, AlwaysApart, PTL

-------------------------------------------------------------------------------
\* Requests apart from each other's transactions are atomic.  What a transaction has
\* changed so far, compared with what is committed.

Registers(r) == r.op \in {"register", "registerSms"}

\* A registration adds its user, if he was not there.
RowsChange(r, t) ==
    IF Registers(r) /\ r.step # "users"
    THEN /\ r.user \in Users /\ ~Registered(db, r.user) /\ Registered(t, r.user)
         /\ \A v \in Users \ {r.user} : Registered(t, v) <=> Registered(db, v)
    ELSE t.rows = db.rows

\* A code that nobody had becomes the user's; the user's own, unused, is used.
CodeChange(r, t) ==
    CASE Registers(r) /\ r.step = "commit" ->
             /\ db.code[r.code].of = None
             /\ t.code = [db.code EXCEPT ![r.code] = [of |-> r.user, used |-> FALSE]]
      [] r.op = "verify" /\ r.step # "validate" ->
             /\ db.code[r.code].of \in Users /\ ~db.code[r.code].used
             /\ r.user \in {None, db.code[r.code].of}
             /\ t.code = [db.code EXCEPT ![r.code].used = TRUE]
      [] OTHER -> t.code = db.code

\* The user's devices other than the one he verifies are gone, the rest is as it was.
Cleared(r, t) ==
    \A e \in Devices \ {r.device} :
        t.owner[e] = IF db.owner[e] = r.user THEN None ELSE db.owner[e]

Finding == {"ownerOf", "devicesOf", "bind"}
Bonding == {"describe", "key"}
Bonded == {"details", "perceptions", "noDetails", "commit"}

DeviceChange(r, t) ==
    /\ r.op # "verify" \/ r.step \notin Bonded => t.key = db.key
    /\ r.op # "verify" /\ r.step # "commit" => t.owner = db.owner
    /\ Registers(r) => t.owner = db.owner
    /\ r.op = "delete" /\ r.step = "commit" =>
           \/ t.owner = db.owner
           \/ r.user \in Users /\ db.owner[r.device] = r.user
              /\ t.owner = [db.owner EXCEPT ![r.device] = None]
    /\ r.op = "verify" =>
           /\ r.step \in {"peekOwn", "dropOwn", "peekDevice", "dropDevice"} => r.wipe
           /\ \/ r.step \in {"validate", "whois", "peekOwn", "dropOwn"}
              \/ r.step \in Finding /\ ~r.wipe
              => t.owner = db.owner
           /\ r.step \in {"peekDevice", "dropDevice"} =>
                  Cleared(r, t) /\ t.owner[r.device] \in {None, db.owner[r.device]}
           /\ r.step \in Finding /\ r.wipe => Cleared(r, t) /\ t.owner[r.device] = None
           /\ r.step \in Bonding \cup Bonded =>
                  /\ Cleared(r, t) /\ r.user \in Users /\ t.owner[r.device] = r.user
                  /\ ~r.wipe => /\ db.owner[r.device] \in {None, r.user}
                                /\ \A e \in Devices \ {r.device} : db.owner[e] # r.user
           /\ r.step \in Bonded => /\ Registered(db, r.user)
                                   /\ t.key = [db.key EXCEPT ![r.user] = r.device]

Change(r, t) == RowsChange(r, t) /\ CodeChange(r, t) /\ DeviceChange(r, t)

CInv == \A h \in Handlers : Transacts(at[h]) /\ at[h].step # "rollback" => Change(at[h], tmp)

\* Only h was at it: no other is in a transaction.
LEMMA ChangedBy ==
  ASSUME Apart, SInv, NEW h \in Handlers, at[h].step # "idle", Served(h), NEW r, at'[h] = r,
         NEW n, UNCHANGED db, tmp' = n, Transacts(r) /\ r.step # "rollback" => Change(r, n)
  PROVE  CInv'
<1>1. ASSUME NEW k \in Handlers \ {h} PROVE ~Transacts(at'[k])
  BY DEF Served, SInv, ShapeOK, Apart, InTransaction, Transacts
<1>2. ASSUME Change(r, n) PROVE Change(r, tmp)'
  BY <1>2 DEF Change, RowsChange, CodeChange, DeviceChange, Cleared, Registered
<1>3. ASSUME NEW k \in Handlers, Transacts(at'[k]), at'[k].step # "rollback" PROVE Change(at[k], tmp)'
  BY <1>1, <1>2, <1>3
<1> QED BY <1>3 DEF CInv, Transacts

LEMMA Outside ==
  ASSUME Apart, SInv, NEW h \in Handlers, at[h].step # "idle", Served(h),
         ~Transacts(at'[h]) \/ at'[h].step = "rollback"
  PROVE  CInv'
<1>1. ASSUME NEW k \in Handlers \ {h} PROVE ~Transacts(at'[k])
  BY DEF Served, SInv, ShapeOK, Apart, InTransaction, Transacts
<1>2. \A k \in Handlers : ~(Transacts(at'[k]) /\ at'[k].step # "rollback")
  BY <1>1
<1> QED BY <1>2 DEF CInv, Transacts

LEMMA ThrowChange ==
  ASSUME Apart, SInv, NEW h \in Handlers, at[h].step # "idle", Throw(h)
  PROVE  CInv'
<1>1. Served(h) /\ (at'[h].step = "rollback" \/ at'[h].step = "idle")
  BY ThrowServes DEF SInv
<1> QED BY <1>1, Outside DEF Transacts

LEMMA ReadChange ==
  ASSUME Apart, SInv, NEW h \in Handlers, at[h].step # "idle", NEW r \in Request,
         r.op = at[h].op, Issue(h, r), ReadOnly, Change(r, tmp)
  PROVE  CInv'
<1>1. Served(h) /\ at'[h] = r
  BY IssueServes DEF SInv
<1>2. UNCHANGED <<db, tmp>>
  BY DEF ReadOnly, store
<1> QED BY <1>1, <1>2, ChangedBy

LEMMA WriteChange ==
  ASSUME Apart, SInv, NEW h \in Handlers, at[h].step # "idle", NEW r \in Request,
         r.op = at[h].op, Issue(h, r), session = "open", NEW n, Write(n), Change(r, n)
  PROVE  CInv'
<1>1. Served(h) /\ at'[h] = r
  BY IssueServes DEF SInv
<1>2. UNCHANGED db /\ tmp' = n
  BY DEF Write
<1> QED BY <1>1, <1>2, ChangedBy

\* The request of h, at a statement of its transaction.
LEMMA AtChange ==
  ASSUME Apart, SInv, AInv, CInv, NEW h \in Handlers, NEW s \in Steps \ {"idle", "rollback"},
         Turn(h, s), Transacts(at[h])
  PROVE  /\ at[h] \in Request /\ at[h].step = s /\ s \in Path(at[h].op) /\ Fits(at[h])
         /\ session = "open" /\ tmp \in Tables /\ SoFar(at[h], tmp)
         /\ RowsChange(at[h], tmp) /\ CodeChange(at[h], tmp) /\ DeviceChange(at[h], tmp)
<1>1. /\ at[h] \in Request /\ at[h].step = s /\ s \in Path(at[h].op) /\ Fits(at[h])
      /\ session = "open" /\ SoFar(at[h], tmp)
  BY AtStatement
<1> QED BY <1>1 DEF SoFar, CInv, Change

LEMMA NextForm ==
  ASSUME NEW r0 \in Request, NEW s \in Steps, NEW r, r = [r0 EXCEPT !.step = s]
  PROVE  r \in Request /\ r.step = s /\ Same(r0, r) /\ r.wipe = r0.wipe
BY DEF Request, Same

-------------------------------------------------------------------------------
\* A registration.

LEMMA AddUserChange ==
  ASSUME Apart, SInv, AInv, CInv, NEW h \in Handlers, Transacts(at[h]), AddUser(h)
  PROVE  CInv'
<1>1. Turn(h, "users")
  BY DEF AddUser, Runs
<1>2. /\ at[h] \in Request /\ at[h].step = "users" /\ "users" \in Path(at[h].op) /\ Fits(at[h])
      /\ session = "open" /\ tmp \in Tables
      /\ RowsChange(at[h], tmp) /\ CodeChange(at[h], tmp) /\ DeviceChange(at[h], tmp)
  BY <1>1, AtChange DEF Steps
<1>3. Registers(at[h]) /\ at[h].user \in Users
  BY <1>2 DEF Path, Registers, Fits, ProfileSteps
<1>4. CASE Throw(h)
  BY <1>2, <1>4, ThrowChange
<1>5. CASE ~Registered(tmp, at[h].user)
  <2>1. PICK n : n = [tmp EXCEPT !.rows = @ \cup {<<at[h].user, "users">>}]
    OBVIOUS
  <2>2. PICK r : r = [at[h] EXCEPT !.step = "user_details"]
    OBVIOUS
  <2>3. Write(n) /\ Issue(h, r)
    BY <1>5, <2>1, <2>2 DEF AddUser, Insert, Goto
  <2>4. /\ n.rows = tmp.rows \cup {<<at[h].user, "users">>}
        /\ n.code = tmp.code /\ n.owner = tmp.owner /\ n.key = tmp.key
    BY <1>2, <1>3, <2>1, RowAdded DEF ProfileTables
  <2>5. r \in Request /\ r.step = "user_details" /\ Same(at[h], r)
    BY <1>2, <2>2, NextForm DEF Steps
  <2>6. RowsChange(r, n)
    BY <1>2, <1>3, <1>5, <2>4, <2>5 DEF RowsChange, Registers, Same, Registered
  <2>7. CodeChange(r, n) /\ DeviceChange(r, n)
    BY <1>2, <1>3, <2>4, <2>5 DEF CodeChange, DeviceChange, Registers, Same
  <2> QED BY <1>2, <2>3, <2>5, <2>6, <2>7, WriteChange DEF Change, Same
<1> QED BY <1>4, <1>5 DEF AddUser

LEMMA AddProfileRowChange ==
  ASSUME Apart, SInv, AInv, CInv, NEW h \in Handlers, Transacts(at[h]), NEW x, NEW next,
         AddProfileRow(h, x, next),
         \/ x = "user_details" /\ next = "users_state"
         \/ x = "users_state" /\ next = "users_settings"
         \/ x = "users_settings" /\ next = AfterSettings(at[h].op)
  PROVE  CInv'
<1>1. Turn(h, x) /\ x \in PartialSteps
  BY DEF AddProfileRow, Runs, PartialSteps
<1>2. /\ at[h] \in Request /\ at[h].step = x /\ x \in Path(at[h].op) /\ Fits(at[h])
      /\ session = "open" /\ tmp \in Tables
      /\ RowsChange(at[h], tmp) /\ CodeChange(at[h], tmp) /\ DeviceChange(at[h], tmp)
  BY <1>1, AtChange DEF Steps, PartialSteps
<1>3. Registers(at[h]) /\ at[h].user \in Users
  BY <1>1, <1>2 DEF Path, Registers, Fits, ProfileSteps, PartialSteps
<1>4. CASE Throw(h)
  BY <1>1, <1>2, <1>4, ThrowChange DEF PartialSteps
<1>5. CASE Insert(h, x, next)
  <2>1. PICK n : n = [tmp EXCEPT !.rows = @ \cup {<<at[h].user, x>>}]
    OBVIOUS
  <2>2. PICK r : r = [at[h] EXCEPT !.step = next]
    OBVIOUS
  <2>3. Write(n) /\ Issue(h, r)
    BY <1>5, <2>1, <2>2 DEF Insert, Goto
  <2>4. /\ n.rows = tmp.rows \cup {<<at[h].user, x>>}
        /\ n.code = tmp.code /\ n.owner = tmp.owner /\ n.key = tmp.key
    <3>1. x \in ProfileTables
      BY <1>1 DEF ProfileTables, PartialSteps
    <3> QED BY <1>2, <1>3, <2>1, <3>1, RowAdded
  <2>5. next \in {"users_state", "users_settings", "whois", "addCode"}
    BY DEF AfterSettings
  <2>6. r \in Request /\ r.step = next /\ Same(at[h], r)
    BY <1>2, <2>2, <2>5, NextForm DEF Steps
  <2>7. RowsChange(r, n)
    BY <1>1, <1>2, <1>3, <2>4, <2>5, <2>6 DEF RowsChange, Registers, Same, Registered, PartialSteps
  <2>8. CodeChange(r, n) /\ DeviceChange(r, n)
    BY <1>1, <1>2, <1>3, <2>4, <2>5, <2>6, SMTT(30) DEF CodeChange, DeviceChange, Registers, Same, PartialSteps
  <2> QED BY <1>1, <1>2, <2>3, <2>6, <2>7, <2>8, WriteChange DEF Change, Same, PartialSteps
<1> QED BY <1>4, <1>5 DEF AddProfileRow

\* The code of a registration.
LEMMA AddCodeChange ==
  ASSUME Apart, SInv, AInv, CInv, NEW h \in Handlers, Transacts(at[h]), AddCode(h)
  PROVE  CInv'
<1>1. Turn(h, "addCode")
  BY DEF AddCode, Runs
<1>2. /\ at[h] \in Request /\ at[h].step = "addCode" /\ "addCode" \in Path(at[h].op)
      /\ Fits(at[h]) /\ session = "open" /\ tmp \in Tables /\ SoFar(at[h], tmp)
      /\ RowsChange(at[h], tmp) /\ CodeChange(at[h], tmp) /\ DeviceChange(at[h], tmp)
  BY <1>1, AtChange DEF Steps
<1>3. Registers(at[h]) /\ at[h].code \in Codes /\ at[h].code \notin issued /\ at[h].user \in Users
  BY <1>2 DEF Path, Registers, Transacts, Transactional, Fits, ProfileSteps, NewCodeOps, RowsChange
<1>4. PICK n : n = [tmp EXCEPT !.code[at[h].code] = [of |-> at[h].user, used |-> FALSE]]
  OBVIOUS
<1>5. PICK r : r = [at[h] EXCEPT !.step = "commit"]
  OBVIOUS
<1>6. CASE Throw(h)
  BY <1>2, <1>6, ThrowChange
<1>7. n.rows = tmp.rows /\ n.owner = tmp.owner /\ n.key = tmp.key
  BY <1>2, <1>3, <1>4, CodeAdded
<1>8. /\ tmp.code = db.code /\ db.code[at[h].code].of = None
      /\ n.code = [db.code EXCEPT ![at[h].code] = [of |-> at[h].user, used |-> FALSE]]
  BY <1>2, <1>3, <1>4 DEF CodeChange, SoFar, CodeSoFar, CodesOK, Registers, Tables
<1>9. r \in Request /\ r.step = "commit" /\ Same(at[h], r)
  BY <1>2, <1>5, NextForm DEF Steps
<1>10. RowsChange(r, n) /\ CodeChange(r, n) /\ DeviceChange(r, n)
  BY <1>2, <1>3, <1>7, <1>8, <1>9 DEF RowsChange, CodeChange, DeviceChange, Registers, Same, Registered
<1>11. CASE ~Throw(h)
  <2>1. Write(n) /\ Issue(h, r)
    BY <1>3, <1>4, <1>5, <1>11 DEF AddCode, Goto, Registers, Transactional
  <2> QED BY <1>2, <1>9, <1>10, <2>1, WriteChange DEF Change, Same
<1> QED BY <1>6, <1>11

\* Who the user is, and his details.
LEMMA WhoIsChange ==
  ASSUME Apart, SInv, AInv, CInv, NEW h \in Handlers, Transacts(at[h]), WhoIs(h)
  PROVE  CInv'
<1>1. Turn(h, "whois") /\ ReadOnly
  BY DEF WhoIs, Runs
<1>2. /\ at[h] \in Request /\ at[h].step = "whois" /\ "whois" \in Path(at[h].op) /\ Fits(at[h])
      /\ RowsChange(at[h], tmp) /\ CodeChange(at[h], tmp) /\ DeviceChange(at[h], tmp)
  BY <1>1, AtChange DEF Steps
<1>3. at[h].op = "register" \/ at[h].op = "verify"
  BY <1>2 DEF Path, ProfileSteps, Transacts, Transactional
<1>4. PICK r : r = [at[h] EXCEPT
           !.user = IF Registered(tmp, @) THEN @ ELSE None,
           !.step = CASE at[h].op # "verify" -> "details"
                      [] at[h].op = "verify" /\ at[h].wipe -> "peekOwn"
                      [] at[h].op = "verify" /\ ~at[h].wipe -> "ownerOf"]
  OBVIOUS
<1>5. Issue(h, r)
  BY <1>4 DEF WhoIs
<1>6. /\ r \in Request /\ r.op = at[h].op /\ r.device = at[h].device /\ r.code = at[h].code
      /\ r.wipe = at[h].wipe /\ r.user = IF Registered(tmp, at[h].user) THEN at[h].user ELSE None
      /\ r.op = "register" => r.step = "details"
      /\ r.op = "verify" => r.step = IF r.wipe THEN "peekOwn" ELSE "ownerOf"
  BY <1>2, <1>4 DEF Request, Steps
<1>7. RowsChange(r, tmp)
  BY <1>2, <1>3, <1>6 DEF RowsChange, Registers
<1>8. CodeChange(r, tmp)
  BY <1>2, <1>3, <1>6 DEF CodeChange, Registers
<1>9. DeviceChange(r, tmp)
  BY <1>2, <1>3, <1>6 DEF DeviceChange, Registers, Finding, Bonding, Bonded
<1> QED BY <1>1, <1>2, <1>5, <1>6, <1>7, <1>8, <1>9, ReadChange DEF Change

LEMMA DetailsChange ==
  ASSUME Apart, SInv, AInv, CInv, NEW h \in Handlers, Transacts(at[h]),
         Details(h) \/ Perceptions(h) \/ NoDetails(h)
  PROVE  CInv'
<1>1. PICK s0 \in {"details", "perceptions", "noDetails"} : Turn(h, s0)
  BY DEF Details, Perceptions, NoDetails, Runs
<1>2. /\ at[h] \in Request /\ at[h].step = s0 /\ s0 \in Path(at[h].op)
      /\ RowsChange(at[h], tmp) /\ CodeChange(at[h], tmp) /\ DeviceChange(at[h], tmp)
  BY <1>1, AtChange DEF Steps
<1>3. at[h].op = "register" \/ at[h].op = "verify"
  BY <1>2 DEF Path, ProfileSteps, Transacts, Transactional
<1>4. CASE NoDetails(h)
  BY <1>2, <1>4, ThrowChange DEF NoDetails
<1>5. CASE Details(h) \/ Perceptions(h)
  <2>1. ReadOnly
    BY <1>5 DEF Details, Perceptions
  <2>2. PICK s \in {"perceptions", "noDetails", "commit", "addCode"} : Goto(h, s) /\
            (s = "commit" => at[h].op = "verify") /\ (s = "addCode" => at[h].op # "verify")
    BY <1>5 DEF Details, Perceptions
  <2>3. PICK r : r = [at[h] EXCEPT !.step = s]
    OBVIOUS
  <2>4. r \in Request /\ r.step = s /\ Same(at[h], r) /\ r.wipe = at[h].wipe
    BY <1>2, <2>3, NextForm DEF Steps
  <2>5. RowsChange(r, tmp) /\ CodeChange(r, tmp)
    BY <1>2, <1>3, <2>2, <2>4 DEF RowsChange, CodeChange, Registers, Same
  <2>6. DeviceChange(r, tmp)
    BY <1>2, <1>3, <2>2, <2>4 DEF DeviceChange, Cleared, Registers, Same, Finding, Bonding, Bonded
  <2> QED BY <1>2, <2>1, <2>2, <2>3, <2>4, <2>5, <2>6, ReadChange DEF Change, Same, Goto
<1> QED BY <1>4, <1>5

-------------------------------------------------------------------------------
\* A verification.

LEMMA AtVerifyChange ==
  ASSUME Apart, SInv, AInv, CInv, NEW h \in Handlers,
         NEW s \in {"validate", "peekOwn", "dropOwn", "peekDevice", "dropDevice", "ownerOf",
                    "devicesOf", "bind", "describe", "key"}, Turn(h, s)
  PROVE  /\ at[h] \in Request /\ Fits(at[h]) /\ at[h].step = s /\ at[h].op = "verify"
         /\ session = "open" /\ tmp \in Tables /\ db \in Tables /\ DevicesSoFar(at[h], tmp)
         /\ at[h].device \in Devices /\ at[h].code \in Codes
         /\ tmp.rows = db.rows /\ CodeChange(at[h], tmp) /\ DeviceChange(at[h], tmp)
<1>1. /\ at[h] \in Request /\ Fits(at[h]) /\ at[h].step = s /\ at[h].op = "verify"
      /\ Transacts(at[h]) /\ session = "open" /\ tmp \in Tables /\ DevicesSoFar(at[h], tmp)
      /\ at[h].device \in Devices /\ at[h].code \in Codes
  BY AtVerify
<1>2. RowsChange(at[h], tmp) /\ CodeChange(at[h], tmp) /\ DeviceChange(at[h], tmp)
  BY <1>1, AtChange DEF Steps
<1> QED BY <1>1, <1>2 DEF RowsChange, Registers, AInv, Sound

\* It goes on to s with tables that differ in no rows, and in no codes.
LEMMA VerifyOn ==
  ASSUME NEW h \in Handlers, at[h] \in Request, at[h].op = "verify", at[h].step # "validate",
         NEW s \in Steps \ {"validate"}, NEW r, r = [at[h] EXCEPT !.step = s], NEW n,
         tmp.rows = db.rows, CodeChange(at[h], tmp), n.rows = tmp.rows, n.code = tmp.code
  PROVE  /\ r \in Request /\ r.step = s /\ Same(at[h], r) /\ r.wipe = at[h].wipe
         /\ RowsChange(r, n) /\ CodeChange(r, n)
<1>1. r \in Request /\ r.step = s /\ Same(at[h], r) /\ r.wipe = at[h].wipe
  BY NextForm
<1>2. RowsChange(r, n)
  BY <1>1 DEF RowsChange, Registers, Same
<1>3. CodeChange(r, n)
  BY <1>1 DEF CodeChange, Registers, Same
<1> QED BY <1>1, <1>2, <1>3

LEMMA ValidateChange ==
  ASSUME Apart, SInv, AInv, CInv, NEW h \in Handlers, Validate(h)
  PROVE  CInv'
<1>1. Turn(h, "validate")
  BY DEF Validate, Runs
<1>2. /\ at[h] \in Request /\ at[h].step = "validate" /\ at[h].op = "verify" /\ Fits(at[h])
      /\ session = "open" /\ tmp \in Tables /\ at[h].code \in Codes
      /\ tmp.rows = db.rows /\ CodeChange(at[h], tmp) /\ DeviceChange(at[h], tmp)
  BY <1>1, AtVerifyChange
<1>3. CASE Throw(h)
  BY <1>2, <1>3, ThrowChange
<1>4. CASE ~Throw(h)
  <2>1. PICK n : n = [tmp EXCEPT !.code[at[h].code].used = TRUE]
    OBVIOUS
  <2>2. PICK r : r = [at[h] EXCEPT !.step = "whois"]
    OBVIOUS
  <2>3. /\ Write(n) /\ Issue(h, r)
        /\ tmp.code[at[h].code] = [of |-> at[h].user, used |-> FALSE]
    BY <1>4, <2>1, <2>2 DEF Validate, Goto
  <2>4. n.rows = tmp.rows /\ n.owner = tmp.owner /\ n.key = tmp.key
    BY <1>2, <2>1, CodeUsed
  <2>5. n.code = [tmp.code EXCEPT ![at[h].code].used = TRUE]
    BY <1>2, <2>1 DEF Tables
  <2>6. r \in Request /\ r.step = "whois" /\ Same(at[h], r)
    BY <1>2, <2>2, NextForm DEF Steps
  <2>7. tmp.code = db.code /\ at[h].user \in Users
    BY <1>2 DEF CodeChange, Registers, Fits
  <2>8. CodeChange(r, n)
    <3>1. db.code[at[h].code].of = at[h].user /\ ~db.code[at[h].code].used
      BY <2>3, <2>7
    <3>2. n.code = [db.code EXCEPT ![at[h].code].used = TRUE]
      BY <2>5, <2>7
    <3> QED BY <1>2, <2>6, <2>7, <3>1, <3>2 DEF CodeChange, Registers, Same
  <2>9. RowsChange(r, n) /\ DeviceChange(r, n)
    BY <1>2, <2>4, <2>6
    DEF RowsChange, DeviceChange, Registers, Same, Finding, Bonding, Bonded
  <2> QED BY <1>2, <2>3, <2>6, <2>8, <2>9, WriteChange DEF Change, Same
<1> QED BY <1>3, <1>4

LEMMA PeekChange ==
  ASSUME Apart, SInv, AInv, CInv, NEW h \in Handlers, PeekOwn(h) \/ PeekDevice(h)
  PROVE  CInv'
<1>1. PICK s0 \in {"peekOwn", "peekDevice"} :
          Turn(h, s0) /\ (PeekOwn(h) <=> s0 = "peekOwn") /\ (PeekDevice(h) <=> s0 = "peekDevice")
  BY DEF PeekOwn, PeekDevice, Runs, Turn
<1>2. /\ at[h] \in Request /\ at[h].step = s0 /\ at[h].op = "verify"
      /\ tmp \in Tables /\ at[h].device \in Devices
      /\ tmp.rows = db.rows /\ CodeChange(at[h], tmp) /\ DeviceChange(at[h], tmp)
  BY <1>1, AtVerifyChange
<1>3. PICK s \in {"dropOwn", "peekDevice", "dropDevice", "ownerOf"} : Goto(h, s) /\ ReadOnly
          /\ (s = "peekDevice" => OwnedBy(tmp, at[h].user) = {})
          /\ (s = "ownerOf" => tmp.owner[at[h].device] = None)
          /\ (s0 = "peekOwn" <=> s \in {"dropOwn", "peekDevice"})
  BY <1>1 DEF PeekOwn, PeekDevice
<1>4. PICK r : r = [at[h] EXCEPT !.step = s]
  OBVIOUS
<1>5. /\ r \in Request /\ r.step = s /\ Same(at[h], r) /\ r.wipe = at[h].wipe
      /\ RowsChange(r, tmp) /\ CodeChange(r, tmp)
  BY <1>2, <1>4, VerifyOn DEF Steps
<1>6. at[h].wipe /\ tmp.key = db.key
  BY <1>2 DEF DeviceChange, Bonded
<1>7. CASE s0 = "peekOwn"
  <2>1. tmp.owner = db.owner
    BY <1>2, <1>7 DEF DeviceChange
  <2>2. s = "peekDevice" => Cleared(r, tmp)
    BY <1>3, <1>5, <2>1 DEF Cleared, OwnedBy, Same
  <2> QED BY <1>2, <1>3, <1>4, <1>5, <1>6, <1>7, <2>1, <2>2, ReadChange
          DEF Change, DeviceChange, Same, Registers, Finding, Bonding, Bonded, Goto
<1>8. CASE s0 = "peekDevice"
  <2>1. Cleared(r, tmp) /\ tmp.owner[r.device] \in {None, db.owner[r.device]}
    BY <1>2, <1>5, <1>8 DEF Cleared, DeviceChange, Same
  <2> QED BY <1>2, <1>3, <1>4, <1>5, <1>6, <1>8, <2>1, ReadChange, ZenonT(40)
          DEF Change, DeviceChange, Same, Registers, Finding, Bonding, Bonded, Goto
<1> QED BY <1>7, <1>8

LEMMA DropChange ==
  ASSUME Apart, SInv, AInv, CInv, NEW h \in Handlers, DropOwn(h) \/ DropDevice(h)
  PROVE  CInv'
<1>1. PICK s0 \in {"dropOwn", "dropDevice"} :
          Turn(h, s0) /\ (DropOwn(h) <=> s0 = "dropOwn") /\ (DropDevice(h) <=> s0 = "dropDevice")
  BY DEF DropOwn, DropDevice, Runs, Turn
<1>2. /\ at[h] \in Request /\ at[h].step = s0 /\ at[h].op = "verify" /\ session = "open"
      /\ tmp \in Tables /\ at[h].device \in Devices
      /\ tmp.rows = db.rows /\ CodeChange(at[h], tmp) /\ DeviceChange(at[h], tmp)
  BY <1>1, AtVerifyChange
<1>3. PICK ds \in SUBSET Devices : Write(Drop(tmp, ds))
          /\ ds = IF s0 = "dropOwn" THEN OwnedBy(tmp, at[h].user) ELSE {at[h].device}
  BY <1>1, <1>2 DEF DropOwn, DropDevice, OwnedBy
<1>4. PICK s : Goto(h, s) /\ s = IF s0 = "dropOwn" THEN "peekDevice" ELSE "ownerOf"
  BY <1>1 DEF DropOwn, DropDevice
<1>5. PICK n : n = Drop(tmp, ds)
  OBVIOUS
<1>6. PICK r : r = [at[h] EXCEPT !.step = s]
  OBVIOUS
<1>7. /\ \A d \in Devices : n.owner[d] = IF d \in ds THEN None ELSE tmp.owner[d]
      /\ n.rows = tmp.rows /\ n.code = tmp.code /\ n.key = tmp.key
  BY <1>2, <1>5, Dropped
<1>8. /\ r \in Request /\ r.step = s /\ Same(at[h], r) /\ r.wipe = at[h].wipe
      /\ RowsChange(r, n) /\ CodeChange(r, n)
  BY <1>2, <1>4, <1>6, <1>7, VerifyOn DEF Steps
<1>9. at[h].wipe /\ tmp.key = db.key
  BY <1>2 DEF DeviceChange, Bonded
<1>10. CASE s0 = "dropOwn"
  <2>1. tmp.owner = db.owner
    BY <1>2, <1>10 DEF DeviceChange
  <2>2. Cleared(r, n) /\ n.owner[r.device] \in {None, db.owner[r.device]}
    BY <1>2, <1>3, <1>7, <1>8, <1>10, <2>1 DEF Cleared, OwnedBy, Same
  <2>3. DeviceChange(r, n)
    BY <1>2, <1>4, <1>7, <1>8, <1>9, <1>10, <2>2
    DEF DeviceChange, Same, Registers, Finding, Bonding, Bonded
  <2> QED BY <1>2, <1>3, <1>4, <1>5, <1>6, <1>8, <2>3, WriteChange DEF Change, Same, Goto
<1>11. CASE s0 = "dropDevice"
  <2>1. Cleared(r, n) /\ n.owner[r.device] = None
    BY <1>2, <1>3, <1>7, <1>8, <1>11 DEF Cleared, DeviceChange, Same
  <2>2. DeviceChange(r, n)
    BY <1>2, <1>4, <1>7, <1>8, <1>9, <1>11, <2>1
    DEF DeviceChange, Same, Registers, Finding, Bonding, Bonded
  <2> QED BY <1>2, <1>3, <1>4, <1>5, <1>6, <1>8, <2>2, WriteChange DEF Change, Same, Goto
<1> QED BY <1>10, <1>11

LEMMA OwnerOfChange ==
  ASSUME Apart, SInv, AInv, CInv, NEW h \in Handlers, OwnerOf(h) \/ DevicesOf(h)
  PROVE  CInv'
<1>1. PICK s0 \in {"ownerOf", "devicesOf"} : Turn(h, s0)
  BY DEF OwnerOf, DevicesOf, Runs
<1>2. /\ at[h] \in Request /\ at[h].step = s0 /\ at[h].op = "verify"
      /\ tmp \in Tables /\ db \in Tables /\ at[h].device \in Devices /\ DevicesSoFar(at[h], tmp)
      /\ tmp.rows = db.rows /\ CodeChange(at[h], tmp) /\ DeviceChange(at[h], tmp)
  BY <1>1, AtVerifyChange
<1>3. CASE Throw(h)
  BY <1>1, <1>2, <1>3, ThrowChange
<1>4. CASE ~Throw(h)
  <2>1. PICK s \in {"devicesOf", "key", "bind"} : Goto(h, s) /\ ReadOnly
            /\ (s = "key" => tmp.owner[at[h].device] # None /\ tmp.owner[at[h].device] = at[h].user)
    BY <1>4 DEF OwnerOf, DevicesOf
  <2>2. PICK r : r = [at[h] EXCEPT !.step = s]
    OBVIOUS
  <2>3. /\ r \in Request /\ r.step = s /\ Same(at[h], r) /\ r.wipe = at[h].wipe
        /\ RowsChange(r, tmp) /\ CodeChange(r, tmp)
    BY <1>2, <2>1, <2>2, VerifyOn DEF Steps
  <2>4. CASE s # "key"
    <3>1. Cleared(at[h], tmp) => Cleared(r, tmp)
      BY <2>3 DEF Cleared, Same
    <3>2. DeviceChange(r, tmp)
      BY <1>2, <2>1, <2>3, <2>4, <3>1
      DEF DeviceChange, Same, Registers, Finding, Bonding, Bonded
    <3> QED BY <1>2, <2>1, <2>2, <2>3, <3>2, ReadChange DEF Change, Same, Goto
  <2>5. CASE s = "key"
    <3>1. ~at[h].wipe /\ tmp.owner = db.owner /\ tmp.key = db.key
      BY <1>2, <2>1, <2>5 DEF DeviceChange, Finding, Bonded, Request
    <3>2. at[h].user \in Users
      BY <1>2, <2>1, <2>5 DEF Tables
    <3>3. \A e \in Devices \ {at[h].device} : db.owner[e] # at[h].user
      BY <1>2, <2>1, <2>5, <3>1 DEF DevicesSoFar, SingleOwned
    <3>4. DeviceChange(r, tmp)
      BY <1>2, <2>1, <2>3, <2>5, <3>1, <3>2, <3>3
      DEF DeviceChange, Cleared, Same, Registers, Finding, Bonding, Bonded
    <3> QED BY <1>2, <2>1, <2>2, <2>3, <3>4, ReadChange DEF Change, Same, Goto
  <2> QED BY <2>4, <2>5
<1> QED BY <1>3, <1>4

LEMMA BindChange ==
  ASSUME Apart, SInv, AInv, CInv, NEW h \in Handlers, Bind(h)
  PROVE  CInv'
<1>1. Turn(h, "bind")
  BY DEF Bind, Runs
<1>2. /\ at[h] \in Request /\ at[h].step = "bind" /\ at[h].op = "verify" /\ session = "open"
      /\ tmp \in Tables /\ at[h].device \in Devices /\ DevicesSoFar(at[h], tmp)
      /\ tmp.rows = db.rows /\ CodeChange(at[h], tmp) /\ DeviceChange(at[h], tmp)
  BY <1>1, AtVerifyChange
<1>3. CASE Throw(h)
  BY <1>2, <1>3, ThrowChange
<1>4. CASE ~Throw(h)
  <2>1. PICK n : n = [tmp EXCEPT !.owner[at[h].device] = at[h].user]
    OBVIOUS
  <2>2. PICK r : r = [at[h] EXCEPT !.step = "describe"]
    OBVIOUS
  <2>3. Registered(tmp, at[h].user) /\ Write(n) /\ Goto(h, "describe")
    BY <1>4, <2>1 DEF Bind
  <2>4. at[h].user \in Users /\ at[h].user # None
    BY <1>2, <2>3, RegisteredUsers, NoneIsNoUser
  <2>5. /\ \A e \in Devices : n.owner[e] = IF e = at[h].device THEN at[h].user ELSE tmp.owner[e]
        /\ n.rows = tmp.rows /\ n.code = tmp.code /\ n.key = tmp.key
    BY <1>2, <2>1, <2>4, Bound
  <2>6. /\ r \in Request /\ r.step = "describe" /\ Same(at[h], r) /\ r.wipe = at[h].wipe
        /\ RowsChange(r, n) /\ CodeChange(r, n)
    BY <1>2, <2>2, <2>5, VerifyOn DEF Steps
  <2>7. tmp.key = db.key /\ tmp.owner[at[h].device] = None
        /\ \A e \in Devices : tmp.owner[e] # at[h].user
    BY <1>2, <2>4 DEF DeviceChange, Bonded, DevicesSoFar, OwnedBy
  <2>8. at[h].wipe => Cleared(at[h], tmp)
    BY <1>2 DEF DeviceChange, Finding
  <2>9. ~at[h].wipe => tmp.owner = db.owner
    BY <1>2 DEF DeviceChange, Finding
  <2>10. Cleared(r, n)
    BY <2>5, <2>6, <2>7, <2>8, <2>9 DEF Cleared, Same
  <2>11. DeviceChange(r, n)
    BY <1>2, <2>4, <2>5, <2>6, <2>7, <2>9, <2>10
    DEF DeviceChange, Same, Registers, Finding, Bonding, Bonded
  <2> QED BY <1>2, <2>2, <2>3, <2>6, <2>11, WriteChange DEF Change, Same, Goto
<1> QED BY <1>3, <1>4

LEMMA DescribeChange ==
  ASSUME Apart, SInv, AInv, CInv, NEW h \in Handlers, Describe(h)
  PROVE  CInv'
<1>1. Turn(h, "describe")
  BY DEF Describe, Runs
<1>2. /\ at[h] \in Request /\ at[h].step = "describe" /\ at[h].op = "verify" /\ session = "open"
      /\ tmp \in Tables /\ at[h].device \in Devices
      /\ tmp.rows = db.rows /\ CodeChange(at[h], tmp) /\ DeviceChange(at[h], tmp)
  BY <1>1, AtVerifyChange
<1>3. CASE Throw(h)
  BY <1>2, <1>3, ThrowChange
<1>4. CASE ~Throw(h)
  <2>1. PICK n : n = [tmp EXCEPT !.known = @ \cup {at[h].device}]
    OBVIOUS
  <2>2. PICK r : r = [at[h] EXCEPT !.step = "key"]
    OBVIOUS
  <2>3. Write(n) /\ Goto(h, "key")
    BY <1>4, <2>1 DEF Describe
  <2>4. n.rows = tmp.rows /\ n.code = tmp.code /\ n.owner = tmp.owner /\ n.key = tmp.key
    BY <1>2, <2>1, Described
  <2>5. /\ r \in Request /\ r.step = "key" /\ Same(at[h], r) /\ r.wipe = at[h].wipe
        /\ RowsChange(r, n) /\ CodeChange(r, n)
    BY <1>2, <2>2, <2>4, VerifyOn DEF Steps
  <2>6. Cleared(at[h], tmp) => Cleared(r, n)
    BY <2>4, <2>5 DEF Cleared, Same
  <2>7. DeviceChange(r, n)
    BY <1>2, <2>4, <2>5, <2>6
    DEF DeviceChange, Same, Registers, Finding, Bonding, Bonded
  <2> QED BY <1>2, <2>2, <2>3, <2>5, <2>7, WriteChange DEF Change, Same, Goto
<1> QED BY <1>3, <1>4

LEMMA KeyChange ==
  ASSUME Apart, SInv, AInv, CInv, NEW h \in Handlers, RegisterPublicKey(h)
  PROVE  CInv'
<1>1. Turn(h, "key")
  BY DEF RegisterPublicKey, Runs
<1>2. /\ at[h] \in Request /\ at[h].step = "key" /\ at[h].op = "verify" /\ session = "open"
      /\ tmp \in Tables /\ at[h].device \in Devices
      /\ tmp.rows = db.rows /\ CodeChange(at[h], tmp) /\ DeviceChange(at[h], tmp)
  BY <1>1, AtVerifyChange
<1>3. CASE Throw(h)
  BY <1>2, <1>3, ThrowChange
<1>4. CASE ~Throw(h)
  <2>1. PICK n : n = [tmp EXCEPT !.key[at[h].user] = at[h].device]
    OBVIOUS
  <2>2. PICK r : r = [at[h] EXCEPT !.step = "details"]
    OBVIOUS
  <2>3. Registered(tmp, at[h].user) /\ Write(n) /\ Goto(h, "details")
    BY <1>4, <2>1 DEF RegisterPublicKey
  <2>4. n.rows = tmp.rows /\ n.code = tmp.code /\ n.owner = tmp.owner
        /\ n.key = [tmp.key EXCEPT ![at[h].user] = at[h].device]
    BY <1>2, <2>1 DEF Tables
  <2>5. /\ r \in Request /\ r.step = "details" /\ Same(at[h], r) /\ r.wipe = at[h].wipe
        /\ RowsChange(r, n) /\ CodeChange(r, n)
    BY <1>2, <2>2, <2>4, VerifyOn DEF Steps
  <2>6. Registered(db, at[h].user) /\ tmp.key = db.key
    BY <1>2, <2>3 DEF Registered, DeviceChange, Bonded
  <2>7. Cleared(at[h], tmp) => Cleared(r, n)
    BY <2>4, <2>5 DEF Cleared, Same
  <2>8. DeviceChange(r, n)
    BY <1>2, <2>4, <2>5, <2>6, <2>7
    DEF DeviceChange, Same, Registers, Finding, Bonding, Bonded
  <2> QED BY <1>2, <2>2, <2>3, <2>5, <2>8, WriteChange DEF Change, Same, Goto
<1> QED BY <1>3, <1>4

-------------------------------------------------------------------------------
\* A deletion.

LEMMA DeletionChange ==
  ASSUME Apart, SInv, AInv, CInv, NEW h \in Handlers, Exists(h) \/ DeleteDevice(h)
  PROVE  CInv'
<1>1. PICK s0 \in {"exists", "drop"} : Turn(h, s0)
  BY DEF Exists, DeleteDevice, Runs
<1>2. /\ at[h] \in Request /\ Fits(at[h]) /\ at[h].step = s0 /\ at[h].op = "delete"
      /\ at[h].user \in Users /\ at[h].device \in Devices /\ Transacts(at[h])
      /\ session = "open" /\ tmp \in Tables
  BY <1>1, AtDelete
<1>3. /\ tmp.rows = db.rows /\ tmp.code = db.code /\ tmp.owner = db.owner /\ tmp.key = db.key
  <2>1. RowsChange(at[h], tmp) /\ CodeChange(at[h], tmp) /\ DeviceChange(at[h], tmp)
    BY <1>1, <1>2, AtChange DEF Steps
  <2> QED BY <1>2, <2>1 DEF RowsChange, CodeChange, DeviceChange, Registers
<1>4. CASE Throw(h)
  BY <1>2, <1>4, ThrowChange
<1>5. CASE Goto(h, "drop") /\ ReadOnly
  <2>1. PICK r : r = [at[h] EXCEPT !.step = "drop"]
    OBVIOUS
  <2>2. r \in Request /\ r.step = "drop" /\ Same(at[h], r)
    BY <1>2, <2>1, NextForm DEF Steps
  <2>3. Change(r, tmp)
    BY <1>2, <1>3, <2>2
    DEF Change, RowsChange, CodeChange, DeviceChange, Same, Registers
  <2> QED BY <1>2, <1>5, <2>1, <2>2, <2>3, ReadChange DEF Same, Goto
<1>6. PICK r : r = [at[h] EXCEPT !.step = "commit", !.reply = "ok"]
  OBVIOUS
<1>7. r \in Request /\ r.step = "commit" /\ Same(at[h], r)
  BY <1>2, <1>6, DeletedForm
<1>8. CASE Issue(h, r) /\ ReadOnly
  <2>1. Change(r, tmp)
    BY <1>2, <1>3, <1>7
    DEF Change, RowsChange, CodeChange, DeviceChange, Same, Registers
  <2> QED BY <1>2, <1>7, <1>8, <2>1, ReadChange DEF Same
<1>9. PICK n : n = Drop(tmp, {at[h].device})
  OBVIOUS
<1>10. CASE Issue(h, r) /\ Write(n) /\ tmp.owner[at[h].device] = at[h].user
  <2>1. /\ n \in Tables
        /\ \A d \in Devices : n.owner[d] = IF d = at[h].device THEN None ELSE tmp.owner[d]
        /\ n.rows = tmp.rows /\ n.code = tmp.code /\ n.key = tmp.key
    <3>1. {at[h].device} \in SUBSET Devices
      BY <1>2
    <3> QED BY <1>2, <1>9, <3>1, Dropped
  <2>2. n.owner = [db.owner EXCEPT ![at[h].device] = None]
    BY <1>2, <1>3, <2>1 DEF Tables
  <2>3. Change(r, n)
    BY <1>2, <1>3, <1>7, <1>10, <2>1, <2>2
    DEF Change, RowsChange, CodeChange, DeviceChange, Same, Registers
  <2> QED BY <1>2, <1>7, <1>10, <2>3, WriteChange DEF Same
<1> QED BY <1>4, <1>5, <1>6, <1>8, <1>9, <1>10 DEF Exists, DeleteDevice

-------------------------------------------------------------------------------
\* What begins a transaction, ends it, or keeps out of it.

LEMMA BeginChange ==
  ASSUME Apart, SInv, AInv, NEW h \in Handlers, Begin(h)
  PROVE  CInv'
<1>1. Turn(h, "begin") /\ UNCHANGED <<db, tmp>>
  BY DEF Begin, Runs
<1>2. /\ at[h] \in Request /\ at[h].step = "begin" /\ "begin" \in Path(at[h].op) /\ tmp = db
  BY <1>1, AtStatement DEF Steps, Transacts
<1>3. at[h].op \in Transactional
  BY <1>2 DEF Path, Transactional
<1>4. PICK s \in {"users", "validate", "exists"} :
          s = AfterBegin(at[h].op) /\ (at[h].op = "verify" => s = "validate")
  BY <1>3 DEF AfterBegin, Transactional
<1>5. PICK r : r = [at[h] EXCEPT !.step = s]
  OBVIOUS
<1>6. r \in Request /\ r.step = s /\ Same(at[h], r)
  BY <1>2, <1>5, NextForm DEF Steps
<1>7. Served(h) /\ at'[h] = r
  BY <1>4, <1>5, <1>6, IssueServes DEF Begin, Goto, SInv, Same
<1>8. s = "users" => Registers(at[h])
  BY <1>3, <1>4 DEF AfterBegin, Transactional, Registers
<1>9. Registers(at[h]) => s = "users"
  BY <1>4 DEF AfterBegin, Registers
<1>10. Change(r, tmp)
  BY <1>2, <1>4, <1>6, <1>8, <1>9
  DEF Change, RowsChange, CodeChange, DeviceChange, Same, Registers, Finding, Bonding, Bonded
<1> QED BY <1>1, <1>2, <1>7, <1>10, ChangedBy

LEMMA EndChange ==
  ASSUME Apart, SInv, NEW h \in Handlers, Commit(h) \/ Rollback(h) \/ CommitFails(h)
  PROVE  CInv'
<1>1. Served(h) /\ at'[h].step \in {"idle", "rollback"}
  BY FinishForm, GotoServes DEF Commit, Rollback, CommitFails, SInv, Steps
<1>2. at[h].step # "idle"
  BY DEF Commit, Rollback, CommitFails, Turn
<1> QED BY <1>1, <1>2, Outside DEF Transacts

\* A login has no transaction, a deletion none before BEGIN.
LEMMA LoginChange ==
  ASSUME Apart, SInv, NEW h \in Handlers, at[h].step # "idle", Within(h), at[h].op \notin Transactional
  PROVE  CInv'
BY Outside DEF Within, Served, Transacts

LEMMA AuthenticateChange ==
  ASSUME Apart, SInv, NEW h \in Handlers, Authenticate(h)
  PROVE  CInv'
<1>1. at[h].step # "idle"
  BY DEF Authenticate, Runs, Turn
<1>2. Served(h) /\ at'[h].step \in {"begin", "idle"}
  BY FinishForm, GotoServes DEF Authenticate, SInv, Steps
<1> QED BY <1>1, <1>2, Outside DEF Transacts

\* Nothing happens to the tables, and to no request in a transaction.
LEMMA QuietChange ==
  ASSUME CInv, UNCHANGED <<db, tmp>>, \A h \in Handlers : at'[h] = at[h] \/ ~Transacts(at'[h])
  PROVE  CInv'
<1>1. ASSUME NEW h \in Handlers, Transacts(at'[h]), at'[h].step # "rollback"
      PROVE  Change(at[h], tmp)'
  <2>1. PICK r : r = at[h]
    OBVIOUS
  <2>2. at'[h] = r /\ Change(r, tmp)
    BY <1>1, <2>1 DEF CInv
  <2>3. Change(r, tmp)'
    BY <2>2 DEF Change, RowsChange, CodeChange, DeviceChange, Cleared, Registers
  <2> QED BY <2>2, <2>3
<1> QED BY <1>1 DEF CInv, Transacts

LEMMA ArriveChange ==
  ASSUME SInv, CInv, NEW h \in Handlers, Arrive(h)
  PROVE  CInv'
<1>1. PICK r : at' = [at EXCEPT ![h] = r] /\ r.step = Start(r.op) /\ UNCHANGED <<db, tmp>>
  BY DEF Arrive, Receive, store
<1>2. ~Transacts(r)
  BY <1>1 DEF Transacts, Start, Transactional
<1> QED BY <1>1, <1>2, QuietChange DEF SInv, ShapeOK

LEMMA StatementChange ==
  ASSUME Apart, SInv, AInv, CInv, NEW h \in Handlers, Statement(h)
  PROVE  CInv'
<1>1. CASE Begin(h) \/ Commit(h) \/ CommitFails(h) \/ Rollback(h) \/ Refused(h)
  BY <1>1, BeginChange, EndChange, RefusedApart
<1>2. CASE \/ Validate(h) \/ PeekOwn(h) \/ DropOwn(h) \/ PeekDevice(h) \/ DropDevice(h)
           \/ OwnerOf(h) \/ DevicesOf(h) \/ Bind(h) \/ Describe(h) \/ RegisterPublicKey(h)
  BY <1>2, ValidateChange, PeekChange, DropChange, OwnerOfChange, BindChange, DescribeChange,
     KeyChange
<1>3. CASE Authenticate(h) \/ Exists(h) \/ DeleteDevice(h)
  BY <1>3, AuthenticateChange, DeletionChange
<1>4. CASE AddUser(h) \/ WhoIs(h) \/ Details(h) \/ Perceptions(h) \/ NoDetails(h) \/ AddCode(h)
  <2>1. at[h].step \notin {"idle", "begin", "auth"}
    BY <1>4 DEF AddUser, WhoIs, Details, Perceptions, NoDetails, AddCode, Runs, Turn
  <2>2. CASE at[h].op \notin Transactional
    BY <1>4, <2>1, <2>2, PlainWithin, WhoIsWithin, AddCodeWithin, LoginChange DEF Plain
  <2>3. CASE Transacts(at[h])
    BY <1>4, <2>3, AddUserChange, WhoIsChange, DetailsChange, AddCodeChange
  <2> QED BY <2>1, <2>2, <2>3 DEF Transacts
<1>5. CASE \/ AddProfileRow(h, "user_details", "users_state")
           \/ AddProfileRow(h, "users_state", "users_settings")
           \/ AddProfileRow(h, "users_settings", AfterSettings(at[h].op))
  <2>1. PICK x \in PartialSteps : Turn(h, x)
    BY <1>5 DEF AddProfileRow, Runs, PartialSteps
  <2>2. Transacts(at[h])
    <3>1. at[h].step = x /\ x \in Path(at[h].op)
      BY <2>1, AtStatement DEF Steps, PartialSteps
    <3> QED BY <3>1 DEF Path, PartialSteps, ProfileSteps, Transacts, Transactional
  <2> QED BY <1>5, <2>2, AddProfileRowChange
<1>6. CASE AddCodeFails(h)
  BY <1>6, ThrowChange DEF AddCodeFails, Runs, Turn
<1> QED BY <1>1, <1>2, <1>3, <1>4, <1>5, <1>6 DEF Statement

LEMMA NextChange == ASSUME Apart, SInv, AInv, CInv, [Next]_vars PROVE CInv'
<1>1. CASE UNCHANGED vars \/ \E c \in Codes : Elapse(c)
  <2>1. UNCHANGED <<db, tmp, at>>
    BY <1>1 DEF vars, Elapse, store
  <2> QED BY <2>1, QuietChange
<1>2. ASSUME NEW h \in Handlers, Arrive(h) \/ Statement(h) PROVE CInv'
  BY <1>2, ArriveChange, StatementChange
<1>3. CASE Crash
  <2>1. \A h \in Handlers : ~Transacts(at'[h])
    BY <1>3, FreshFits DEF Crash, Transacts
  <2> QED BY <2>1 DEF CInv, Transacts
<1> QED BY <1>1, <1>2, <1>3 DEF Next

LEMMA AlwaysChange == Spec /\ []Apart => [](SInv /\ AInv /\ CInv)
<1>1. Init => CInv
  BY FreshFits DEF Init, CInv
<1>2. Apart /\ (SInv /\ AInv) /\ CInv /\ [Next]_vars => CInv'
  BY NextChange
<1> QED BY <1>1, <1>2, AlwaysApart, PTL DEF Spec

-------------------------------------------------------------------------------
\* What of this the users see.  The statements of a transaction do not show.
Shown == <<db, promised, redeemed>>
ActiveIn(t) == {u \in Users : OwnedBy(t, u) # {}}

LEMMA ShownKept == Shown' = Shown => UNCHANGED Acc!vars
BY DEF Shown, Acc!vars

LEMMA WritesUnseen ==
  ASSUME Apart, SInv, AInv, NEW h \in Handlers,
         NEW s \in Steps \ {"idle", "begin", "auth", "rollback"},
         Turn(h, s), at[h].op \in Transactional, NEW n, Write(n)
  PROVE  UNCHANGED db
<1>1. session = "open"
  BY AtStatement DEF Transacts, Turn
<1> QED BY <1>1 DEF Write

LEMMA UnseenStatement ==
  ASSUME Apart, SInv, AInv, NEW h \in Handlers, Statement(h), ~Commit(h), ~AddCode(h)
  PROVE  Shown' = Shown
<1> SUFFICES UNCHANGED <<db, promised, redeemed>>
  BY DEF Shown
<1>1. CASE Begin(h) \/ CommitFails(h) \/ Rollback(h) \/ Refused(h) \/ WhoIs(h) \/ Details(h)
           \/ Perceptions(h) \/ NoDetails(h) \/ AddCodeFails(h) \/ PeekOwn(h) \/ PeekDevice(h)
           \/ OwnerOf(h) \/ DevicesOf(h) \/ Authenticate(h) \/ Exists(h)
  BY <1>1 DEF Begin, CommitFails, Rollback, Refused, WhoIs, Details, Perceptions, NoDetails,
     AddCodeFails, PeekOwn, PeekDevice, OwnerOf, DevicesOf, Authenticate, Exists, Broken, ReadOnly,
     store, history
<1>2. ASSUME NEW s \in ProfileSteps \cup {"validate", "dropOwn", "dropDevice", "bind", "describe",
                                          "key", "drop"},
             Turn(h, s), \/ \E n : Write(n)
                         \/ Broken
                         \/ ReadOnly
      PROVE  UNCHANGED db
  <2>1. at[h].step = s /\ s \in Path(at[h].op)
    BY <1>2, AtStatement DEF Steps, ProfileSteps
  <2>2. at[h].op \in Transactional
    BY <1>2, <2>1 DEF Path, ProfileSteps, Transactional
  <2> QED BY <1>2, <2>2, WritesUnseen DEF Steps, ProfileSteps, Broken, ReadOnly, store
<1>3. CASE \/ AddUser(h) \/ AddProfileRow(h, "user_details", "users_state")
           \/ AddProfileRow(h, "users_state", "users_settings")
           \/ AddProfileRow(h, "users_settings", AfterSettings(at[h].op))
  <2>1. \E s \in ProfileSteps : Turn(h, s) /\ (Broken \/ \E n : Write(n))
    BY <1>3 DEF AddUser, AddProfileRow, Insert, Runs, ProfileSteps
  <2>2. UNCHANGED history
    BY <1>3 DEF AddUser, AddProfileRow
  <2> QED BY <1>2, <2>1, <2>2 DEF history
<1>4. CASE Validate(h) \/ DropOwn(h) \/ DropDevice(h)
  BY <1>2, <1>4 DEF Validate, DropOwn, DropDevice, Runs, history
<1>5. CASE Bind(h) \/ Describe(h) \/ RegisterPublicKey(h) \/ DeleteDevice(h)
  BY <1>2, <1>5 DEF Bind, Describe, RegisterPublicKey, DeleteDevice, Runs, history
<1> QED BY <1>1, <1>3, <1>4, <1>5 DEF Statement

\* The one statement of a login that shows.
LEMMA LoginAtomic ==
  ASSUME Apart, SInv, AInv, NEW h \in Handlers, AddCode(h)
  PROVE  Acc!Next \/ Shown' = Shown
<1>1. Turn(h, "addCode") /\ Addressed(h)
  BY DEF AddCode, Runs
<1>2. /\ at[h] \in Request /\ at[h].step = "addCode" /\ "addCode" \in Path(at[h].op) /\ Fits(at[h])
      /\ ~Transacts(at[h]) => session = "idle" /\ Sound(tmp) /\ tmp = db
  BY <1>1, AtStatement DEF Steps
<1>3. CASE at[h].op \in Transactional
  <2>1. UNCHANGED db
    BY <1>1, <1>3, WritesUnseen DEF AddCode, Steps
  <2> QED BY <1>3, <2>1 DEF AddCode, Shown
<1>4. CASE at[h].op \notin Transactional
  <2>1. session = "idle" /\ db \in Tables /\ CodesOK(db) /\ tmp = db
    BY <1>2, <1>4 DEF Transacts, Sound
  <2>2. at[h].code \in Codes /\ at[h].code \notin issued
    BY <1>2 DEF Path, ProfileSteps, NewCodeOps, Fits
  <2>3. at[h].user \in Users
    <3>1. at[h].op \in {"login", "loginSms"}
      BY <1>2, <1>4 DEF Path, Transactional
    <3> QED BY <1>1, <1>2, <2>1, <3>1, RegisteredUsers DEF Addressed, Fits
  <2>4. db' = [db EXCEPT !.code[at[h].code] = [of |-> at[h].user, used |-> FALSE]]
    BY <2>1 DEF AddCode, Write
  <2>5. /\ db'.code = [db.code EXCEPT ![at[h].code] = [of |-> at[h].user, used |-> FALSE]]
        /\ db'.rows = db.rows /\ db'.owner = db.owner /\ db'.key = db.key
    BY <2>1, <2>2, <2>4 DEF Tables
  <2>6. db.code[at[h].code].of = None
    BY <2>1, <2>2 DEF CodesOK
  <2>7. promised' \in {promised, promised \cup {at[h].code}} /\ redeemed' = redeemed
    BY <1>4 DEF AddCode
  <2>8. Acc!Login(at[h].user, at[h].code)
    BY <2>5, <2>6, <2>7 DEF Acc!Login, Acc!Send, Registered, OwnedBy
  <2> QED BY <2>2, <2>3, <2>8 DEF Acc!Next
<1> QED BY <1>3, <1>4

-------------------------------------------------------------------------------
\* COMMIT is where a registration, a verification and a deletion take effect.

LEMMA RegistrationAtomic ==
  ASSUME NEW r, NEW t, Registers(r), r.step = "commit", Change(r, t), r.code \in Codes,
         db' = t, promised' = promised \cup {r.code}, redeemed' = redeemed
  PROVE  Acc!Next
<1>1. /\ r.user \in Users /\ ~Registered(db, r.user) /\ Registered(t, r.user)
      /\ \A v \in Users \ {r.user} : Registered(t, v) <=> Registered(db, v)
  BY DEF Change, RowsChange
<1>2. /\ db.code[r.code].of = None
      /\ t.code = [db.code EXCEPT ![r.code] = [of |-> r.user, used |-> FALSE]]
  BY DEF Change, CodeChange, Registers
<1>3. t.owner = db.owner /\ t.key = db.key
  BY DEF Change, DeviceChange, Registers
<1>4. {u \in Users : Registered(t, u)} = {u \in Users : Registered(db, u)} \cup {r.user}
  BY <1>1
<1>5. Acc!Register(r.user, r.code)
  BY <1>1, <1>2, <1>3, <1>4 DEF Acc!Register, Acc!Send, OwnedBy
<1> QED BY <1>1, <1>5 DEF Acc!Next

LEMMA ActiveKeys ==
  ASSUME Sound(db), NEW u \in Users
  PROVE  /\ u \in ActiveIn(db) => db.key[u] \in Devices /\ db.owner[db.key[u]] = u
         /\ \A e \in Devices : db.owner[e] = u => u \in ActiveIn(db) /\ db.key[u] = e
<1>1. u # None
  BY NoneIsNoUser
<1>2. ASSUME NEW e \in Devices, db.owner[e] = u PROVE u \in ActiveIn(db) /\ db.key[u] = e
  BY <1>1, <1>2 DEF ActiveIn, OwnedBy, Sound, KeyHeld
<1>3. ASSUME u \in ActiveIn(db) PROVE db.key[u] \in Devices /\ db.owner[db.key[u]] = u
  <2>1. PICK e \in Devices : db.owner[e] = u
    BY <1>3 DEF ActiveIn, OwnedBy
  <2> QED BY <1>2, <2>1
<1> QED BY <1>2, <1>3

LEMMA VerificationAtomic ==
  ASSUME Sound(db), NEW r \in Request, NEW t, r.op = "verify", r.step = "commit", Change(r, t),
         r.code \in Codes, r.device \in Devices,
         db' = t, promised' = promised, redeemed' = redeemed \cup {r.code}
  PROVE  Acc!Next
<1>1. /\ Cleared(r, t) /\ r.user \in Users /\ t.owner[r.device] = r.user
      /\ ~r.wipe => /\ db.owner[r.device] \in {None, r.user}
                    /\ \A e \in Devices \ {r.device} : db.owner[e] # r.user
      /\ Registered(db, r.user) /\ t.key = [db.key EXCEPT ![r.user] = r.device]
  BY DEF Change, DeviceChange, Bonded
<1>2. /\ db.code[r.code].of = r.user /\ ~db.code[r.code].used
      /\ t.code = [db.code EXCEPT ![r.code].used = TRUE]
  BY <1>1, NoneIsNoUser DEF Change, CodeChange, Registers
<1>3. t.rows = db.rows
  BY DEF Change, RowsChange, Registers
<1>4. db.code[r.code] = [of |-> r.user, used |-> FALSE]
  <2>1. db.code[r.code] \in [of: Users \cup {None}, used: BOOLEAN]
    BY DEF Sound, Tables
  <2> QED BY <1>2, <2>1
<1>5. ~r.wipe => \A v \in ActiveIn(db) : v = r.user <=> db.key[v] = r.device
  <2>1. SUFFICES ASSUME ~r.wipe, NEW v \in Users, v \in ActiveIn(db)
                 PROVE  v = r.user <=> db.key[v] = r.device
    BY DEF ActiveIn
  <2>2. db.key[v] \in Devices /\ db.owner[db.key[v]] = v /\ v # None
    BY <2>1, ActiveKeys, NoneIsNoUser
  <2> QED BY <1>1, <2>1, <2>2
<1>6. ActiveIn(t) = {v \in ActiveIn(db) : db.key[v] # r.device} \cup {r.user}
  <2>1. ASSUME NEW v \in Users, v \in ActiveIn(t), v # r.user
        PROVE  v \in ActiveIn(db) /\ db.key[v] # r.device
    <3>1. PICK e \in Devices : t.owner[e] = v
      BY <2>1 DEF ActiveIn, OwnedBy
    <3>2. v # None
      BY NoneIsNoUser
    <3>3. e # r.device /\ db.owner[e] = v
      BY <1>1, <2>1, <3>1, <3>2 DEF Cleared
    <3> QED BY <3>3, ActiveKeys
  <2>2. ASSUME NEW v \in Users, v \in ActiveIn(db), db.key[v] # r.device, v # r.user
        PROVE  v \in ActiveIn(t)
    <3>1. db.key[v] \in Devices /\ db.owner[db.key[v]] = v
      BY <2>2, ActiveKeys
    <3>2. t.owner[db.key[v]] = v /\ v # None
      BY <1>1, <2>2, <3>1, NoneIsNoUser DEF Cleared
    <3> QED BY <3>1, <3>2 DEF ActiveIn, OwnedBy
  <2>3. r.user \in ActiveIn(t)
    BY <1>1, NoneIsNoUser DEF ActiveIn, OwnedBy
  <2>4. ActiveIn(t) \subseteq Users /\ ActiveIn(db) \subseteq Users
    BY DEF ActiveIn
  <2> QED BY <1>1, <2>1, <2>2, <2>3, <2>4
<1>7. Acc!Verify(r.user, r.device, r.code, r.wipe)
  BY <1>1, <1>2, <1>3, <1>4, <1>5, <1>6 DEF Acc!Verify, ActiveIn, Registered
<1> QED BY <1>1, <1>7 DEF Acc!Next, Request

LEMMA DeletionAtomic ==
  ASSUME Sound(db), NEW r, NEW t, r.op = "delete", r.step = "commit", Change(r, t),
         r.device \in Devices, db' = t, promised' = promised, redeemed' = redeemed
  PROVE  Acc!Next \/ UNCHANGED Acc!vars
<1>1. t.rows = db.rows /\ t.code = db.code /\ t.key = db.key
  BY DEF Change, RowsChange, CodeChange, DeviceChange, Registers
<1>2. CASE t.owner = db.owner
  BY <1>1, <1>2 DEF Acc!vars, Registered, OwnedBy
<1>3. CASE t.owner # db.owner
  <2>1. r.user \in Users /\ db.owner[r.device] = r.user /\ t.owner = [db.owner EXCEPT ![r.device] = None]
    BY <1>3 DEF Change, DeviceChange
  <2>2. \A e \in Devices : t.owner[e] = IF e = r.device THEN None ELSE db.owner[e]
    BY <2>1 DEF Sound, Tables
  <2>3. r.user \in ActiveIn(db) /\ db.key[r.user] = r.device
    BY <2>1, ActiveKeys
  <2>4. ASSUME NEW v \in Users PROVE v \in ActiveIn(t) <=> v \in ActiveIn(db) /\ v # r.user
    <3>1. v # None
      BY NoneIsNoUser
    <3>2. ASSUME v \in ActiveIn(t) PROVE v \in ActiveIn(db) /\ v # r.user
      <4>1. PICK e \in Devices : t.owner[e] = v
        BY <3>2 DEF ActiveIn, OwnedBy
      <4>2. e # r.device /\ db.owner[e] = v
        BY <2>2, <3>1, <4>1
      <4> QED BY <2>3, <4>2, ActiveKeys
    <3>3. ASSUME v \in ActiveIn(db), v # r.user PROVE v \in ActiveIn(t)
      <4>1. db.key[v] \in Devices /\ db.owner[db.key[v]] = v
        BY <3>3, ActiveKeys
      <4>2. t.owner[db.key[v]] = v
        BY <2>1, <2>2, <3>3, <4>1
      <4> QED BY <3>1, <4>1, <4>2 DEF ActiveIn, OwnedBy
    <3> QED BY <3>2, <3>3
  <2>5. ActiveIn(t) = ActiveIn(db) \ {r.user}
    BY <2>4 DEF ActiveIn
  <2>6. Acc!Delete(r.user, r.device)
    BY <1>1, <2>3, <2>5 DEF Acc!Delete, ActiveIn, Registered
  <2> QED BY <2>1, <2>6 DEF Acc!Next
<1> QED BY <1>2, <1>3

LEMMA CommitAtomic ==
  ASSUME Apart, SInv, AInv, CInv, NEW h \in Handlers, Commit(h)
  PROVE  Acc!Next \/ UNCHANGED Acc!vars
<1>1. Turn(h, "commit")
  BY DEF Commit
<1>2. /\ at[h] \in Request /\ Fits(at[h]) /\ at[h].step = "commit" /\ "commit" \in Path(at[h].op)
  BY <1>1, AtStatement DEF Steps
<1>3. at[h].op \in {"register", "registerSms", "verify", "delete"} /\ Transacts(at[h])
  BY <1>2 DEF Path, Transacts, Transactional
<1>4. session = "open" /\ Change(at[h], tmp)
  BY <1>1, <1>3, AtChange DEF Steps, Change
<1>5. db' = tmp /\ Sound(db)
  BY <1>4 DEF Commit, AInv
<1>6. /\ at[h].op # "delete" => at[h].code \in Codes
      /\ at[h].op \in {"verify", "delete"} => at[h].device \in Devices
  BY <1>2, <1>3 DEF Fits, NewCodeOps
<1>7. /\ promised' = promised \cup IF at[h].op \in {"register", "registerSms"} THEN {at[h].code} ELSE {}
      /\ redeemed' = redeemed \cup IF at[h].op = "verify" THEN {at[h].code} ELSE {}
  BY DEF Commit
<1>8. CASE Registers(at[h])
  BY <1>2, <1>4, <1>5, <1>6, <1>7, <1>8, RegistrationAtomic DEF Registers
<1>9. CASE at[h].op = "verify"
  BY <1>2, <1>4, <1>5, <1>6, <1>7, <1>9, VerificationAtomic
<1>10. CASE at[h].op = "delete"
  BY <1>2, <1>4, <1>5, <1>6, <1>7, <1>10, DeletionAtomic
<1> QED BY <1>3, <1>8, <1>9, <1>10 DEF Registers

LEMMA AtomicStep ==
  ASSUME Apart, SInv, AInv, CInv, [Next]_vars
  PROVE  Acc!Next \/ UNCHANGED Acc!vars
<1>1. ASSUME NEW h \in Handlers, Statement(h) PROVE Acc!Next \/ UNCHANGED Acc!vars
  BY <1>1, CommitAtomic, LoginAtomic, UnseenStatement, ShownKept
<1>2. ASSUME NEW h \in Handlers, Arrive(h) PROVE Shown' = Shown
  BY <1>2 DEF Arrive, Receive, store, history, Shown
<1>3. ASSUME UNCHANGED vars PROVE Shown' = Shown
  BY <1>3 DEF vars, Shown
<1>4. ASSUME Crash \/ \E c \in Codes : Elapse(c) PROVE Shown' = Shown
  BY <1>4 DEF Elapse, Crash, store, history, Shown
<1> QED BY <1>1, <1>2, <1>3, <1>4, ShownKept DEF Next

LEMMA InitAtomic == Init => Acc!Init
<1> SUFFICES ASSUME Init PROVE Acc!Init
  OBVIOUS
<1>1. {u \in Users : Registered(db, u)} = Members
  BY MembersAreUsers DEF Init, Initial, Registered, ProfileTables
<1>2. {u \in Users : OwnedBy(db, u) # {}} = {}
  BY DEF Init, Initial, OwnedBy
<1> QED BY <1>1, <1>2 DEF Init, Initial, Acc!Init

\* Apart from the others, a request of many statements that may fail, or die, at each
\* of them takes effect as a whole, at the statement whose success its 200 reports.
THEOREM RequestsApartAreAtomic == Spec /\ []Apart => RequestsAreAtomic
<1>1. Init => Acc!Init
  BY InitAtomic
<1>2. Apart /\ (SInv /\ AInv /\ CInv) /\ [Next]_vars => [Acc!Next]_Acc!vars
  BY AtomicStep
<1> QED BY <1>1, <1>2, AlwaysChange, PTL DEF Spec, RequestsAreAtomic, Acc!Spec

-------------------------------------------------------------------------------
\* Type correctness, for any number of requests in progress: each is at a
\* statement of its own handler, so that it brought what the statement writes.
Routed(r) ==
    /\ r.step # "idle" => r.step \in Path(r.op)
    /\ r.op \in NewCodeOps \cup {"verify"} => r.code \in Codes
    /\ r.op \in {"verify", "delete"} => r.device \in Devices
    /\ r.step \in {"auth", "begin", "users"} => r.user \in Users

DataOK ==
    /\ db \in Tables /\ tmp \in Tables
    /\ session \in {"idle", "open", "aborted"}
    /\ late \subseteq Codes /\ issued \subseteq Codes /\ crowded \subseteq Handlers
    /\ promised \subseteq Codes /\ redeemed \subseteq Codes

TInv == SInv /\ DataOK /\ \A h \in Handlers : Routed(at[h])

LEMMA InitTInv == Init => TInv
<1> SUFFICES ASSUME Init PROVE TInv
  OBVIOUS
<1>1. Initial \in Tables
  BY MembersAreUsers DEF Initial, Tables
<1>2. Routed(Fresh)
  BY DEF Routed, Fresh, NewCodeOps
<1> QED BY <1>1, <1>2, InitSInv DEF Init, TInv, DataOK

\* The statement after each statement is one of the same handler.
LEMMA Routes ==
  ASSUME NEW op
  PROVE  /\ op \in Transactional => {"commit", "rollback"} \subseteq Path(op)
         /\ op \in Transactional => AfterBegin(op) \in Path(op)
         /\ "users" \in Path(op) => {"user_details", "users_state", "users_settings"} \subseteq Path(op)
         /\ "user_details" \in Path(op) => "users_state" \in Path(op)
         /\ "users_state" \in Path(op) => "users_settings" \in Path(op)
         /\ "users_settings" \in Path(op) => AfterSettings(op) \in Path(op)
         /\ "whois" \in Path(op) /\ op # "verify" => "details" \in Path(op)
         /\ "whois" \in Path(op) /\ op = "verify" => {"peekOwn", "ownerOf"} \subseteq Path(op)
         /\ "details" \in Path(op) => {"perceptions", "noDetails"} \subseteq Path(op)
         /\ "perceptions" \in Path(op) /\ op # "verify" => "addCode" \in Path(op)
         /\ "perceptions" \in Path(op) /\ op = "verify" => "commit" \in Path(op)
         /\ "addCode" \in Path(op) => op \in NewCodeOps
         /\ "validate" \in Path(op) => "whois" \in Path(op) /\ op = "verify"
         /\ "peekOwn" \in Path(op) =>
                {"dropOwn", "peekDevice", "dropDevice", "ownerOf", "devicesOf", "bind", "describe",
                 "key", "details"} \subseteq Path(op) /\ op = "verify"
         /\ \A t \in {"dropOwn", "peekDevice", "dropDevice", "ownerOf", "devicesOf", "bind",
                       "describe", "key"} : t \in Path(op) => "peekOwn" \in Path(op)
         /\ "auth" \in Path(op) => op = "delete"
         /\ op = "delete" => Path(op) = {"auth", "begin", "exists", "drop", "commit", "rollback"}
         /\ "exists" \in Path(op) \/ "drop" \in Path(op) => op = "delete"
         /\ "begin" \in Path(op) \/ "commit" \in Path(op) => op \in Transactional
<1>1. CASE op = "login"
  BY <1>1 DEF Path, Transactional, NewCodeOps, ProfileSteps, AfterBegin, AfterSettings
<1>2. CASE op = "loginSms"
  BY <1>2 DEF Path, Transactional, NewCodeOps, ProfileSteps, AfterBegin, AfterSettings
<1>3. CASE op = "register"
  BY <1>3 DEF Path, Transactional, NewCodeOps, ProfileSteps, AfterBegin, AfterSettings
<1>4. CASE op = "registerSms"
  BY <1>4 DEF Path, Transactional, NewCodeOps, ProfileSteps, AfterBegin, AfterSettings
<1>5. CASE op = "verify"
  BY <1>5 DEF Path, Transactional, NewCodeOps, ProfileSteps, AfterBegin, AfterSettings
<1>6. CASE op = "delete"
  BY <1>6 DEF Path, Transactional, NewCodeOps, ProfileSteps, AfterBegin, AfterSettings
<1>7. CASE op \notin Ops
  BY <1>7 DEF Path, Transactional, Ops
<1> QED BY <1>1, <1>2, <1>3, <1>4, <1>5, <1>6, <1>7 DEF Ops

\* The request of h is over, or at a later statement that is its own.
Continues(h) ==
    /\ \A k \in Handlers \ {h} : at'[k] = at[k]
    /\ at'[h].op = at[h].op /\ at'[h].code = at[h].code /\ at'[h].device = at[h].device
    /\ at'[h].step # "idle" => at'[h].step \in Path(at[h].op)
    /\ at'[h].step \in {"auth", "begin", "users"} =>
           at[h].step \in {"auth", "begin"} /\ at'[h].user = at[h].user

LEMMA ContinuesRouted ==
  ASSUME TInv, NEW h \in Handlers, Continues(h)
  PROVE  \A k \in Handlers : Routed(at'[k])
BY DEF TInv, Continues, Routed

LEMMA IssueContinues ==
  ASSUME TInv, NEW h \in Handlers, NEW r \in Request, Issue(h, r),
         r.op = at[h].op, r.code = at[h].code, r.device = at[h].device, r.step \in Path(at[h].op),
         r.step \in {"auth", "begin", "users"} => at[h].step \in {"auth", "begin"} /\ r.user = at[h].user
  PROVE  Continues(h)
BY DEF TInv, SInv, ShapeOK, Issue, Continues

LEMMA GotoContinues ==
  ASSUME TInv, NEW h \in Handlers, NEW s \in Steps, Goto(h, s), s \in Path(at[h].op),
         s \in {"auth", "begin", "users"} => at[h].step \in {"auth", "begin"}
  PROVE  Continues(h)
<1>1. PICK r : r = [at[h] EXCEPT !.step = s]
  OBVIOUS
<1>2. r \in Request /\ r.op = at[h].op /\ r.code = at[h].code /\ r.device = at[h].device
      /\ r.step = s /\ r.user = at[h].user
  BY <1>1 DEF TInv, SInv, ShapeOK, Request
<1> QED BY <1>1, <1>2, IssueContinues DEF Goto

LEMMA FinishContinues ==
  ASSUME TInv, NEW h \in Handlers, NEW a \in {"ok", "error"}, Finish(h, a)
  PROVE  Continues(h)
<1>1. at[h] \in Request /\ at \in [Handlers -> Request]
  BY DEF TInv, SInv, ShapeOK
<1>2. /\ \A k \in Handlers \ {h} : at'[k] = at[k]
      /\ at'[h].op = at[h].op /\ at'[h].code = at[h].code /\ at'[h].device = at[h].device /\ at'[h].step = "idle"
  BY <1>1 DEF Finish, Request
<1> QED BY <1>2 DEF Continues

LEMMA ThrowContinues ==
  ASSUME TInv, NEW h \in Handlers, Throw(h)
  PROVE  Continues(h)
<1>1. CASE at[h].op \in Transactional /\ at[h].step # "auth"
  <2>1. Goto(h, "rollback") /\ "rollback" \in Path(at[h].op)
    BY <1>1, Routes DEF Throw
  <2> QED BY <2>1, GotoContinues DEF Steps
<1>2. CASE ~(at[h].op \in Transactional /\ at[h].step # "auth")
  BY <1>2, FinishContinues DEF Throw
<1> QED BY <1>1, <1>2

LEMMA AtOnRoute ==
  ASSUME TInv, NEW h \in Handlers, NEW s \in Steps \ {"idle"}, Turn(h, s)
  PROVE  /\ at[h] \in Request /\ at[h].step = s /\ s \in Path(at[h].op) /\ Routed(at[h])
         /\ db \in Tables /\ tmp \in Tables
BY DEF TInv, SInv, ShapeOK, DataOK, Routed, Turn

LEMMA TransactionRouted ==
  ASSUME TInv, NEW h \in Handlers,
         Begin(h) \/ Commit(h) \/ CommitFails(h) \/ Rollback(h) \/ Refused(h)
  PROVE  Continues(h)
<1> USE DEF Runs, Steps
<1>1. CASE Begin(h)
  <2>1. Turn(h, "begin") /\ Goto(h, AfterBegin(at[h].op))
    BY <1>1 DEF Begin
  <2>2. at[h].step = "begin" /\ AfterBegin(at[h].op) \in Path(at[h].op)
    BY <2>1, AtOnRoute, Routes
  <2>3. AfterBegin(at[h].op) \in {"users", "validate", "exists"}
    BY DEF AfterBegin
  <2> QED BY <2>1, <2>2, <2>3, GotoContinues
<1>2. CASE CommitFails(h)
  <2>1. Turn(h, "commit") /\ Goto(h, "rollback")
    BY <1>2 DEF CommitFails
  <2>2. "rollback" \in Path(at[h].op)
    BY <2>1, AtOnRoute, Routes
  <2> QED BY <2>1, <2>2, GotoContinues
<1> QED BY <1>1, <1>2, FinishContinues, ThrowContinues DEF Commit, Rollback, Refused

LEMMA AccountRouted ==
  ASSUME TInv, NEW h \in Handlers,
         \/ AddUser(h)
         \/ AddProfileRow(h, "user_details", "users_state")
         \/ AddProfileRow(h, "users_state", "users_settings")
         \/ AddProfileRow(h, "users_settings", AfterSettings(at[h].op))
  PROVE  Continues(h)
<1> USE DEF Runs, Steps
<1>1. PICK s \in {"user_details", "users_state", "users_settings", "whois", "addCode"} :
          Throw(h) \/ (Goto(h, s) /\ s \in Path(at[h].op))
  <2>1. CASE AddUser(h)
    BY <2>1, AtOnRoute, Routes DEF AddUser, Insert
  <2>2. CASE AddProfileRow(h, "user_details", "users_state")
    BY <2>2, AtOnRoute, Routes DEF AddProfileRow, Insert
  <2>3. CASE AddProfileRow(h, "users_state", "users_settings")
    BY <2>3, AtOnRoute, Routes DEF AddProfileRow, Insert
  <2>4. CASE AddProfileRow(h, "users_settings", AfterSettings(at[h].op))
    <3>1. AfterSettings(at[h].op) \in {"whois", "addCode"}
      BY DEF AfterSettings
    <3> QED BY <2>4, <3>1, AtOnRoute, Routes DEF AddProfileRow, Insert
  <2> QED BY <2>1, <2>2, <2>3, <2>4
<1> QED BY <1>1, GotoContinues, ThrowContinues

LEMMA CodeRouted ==
  ASSUME TInv, NEW h \in Handlers,
         WhoIs(h) \/ Details(h) \/ Perceptions(h) \/ NoDetails(h) \/ AddCode(h) \/ AddCodeFails(h)
  PROVE  Continues(h)
<1> USE DEF Runs, Steps
<1>1. CASE WhoIs(h)
  <2>1. Turn(h, "whois")
    BY <1>1 DEF WhoIs
  <2>2. PICK r : /\ Issue(h, r)
                 /\ r = [at[h] EXCEPT
                           !.user = IF Registered(tmp, @) THEN @ ELSE None,
                           !.step = CASE at[h].op # "verify" -> "details"
                                      [] at[h].op = "verify" /\ at[h].wipe -> "peekOwn"
                                      [] at[h].op = "verify" /\ ~at[h].wipe -> "ownerOf"]
    BY <1>1 DEF WhoIs
  <2>3. at[h] \in Request /\ "whois" \in Path(at[h].op)
    BY <2>1, AtOnRoute
  <2>4. PICK s \in {"details", "peekOwn", "ownerOf"}, u \in {at[h].user, None} :
            /\ r = [at[h] EXCEPT !.user = u, !.step = s]
            /\ IF at[h].op = "verify" THEN s # "details" ELSE s = "details"
    <3>1. at[h].wipe \in BOOLEAN
      BY <2>3 DEF Request
    <3>2. CASE at[h].op # "verify"
      BY <2>2, <3>2
    <3>3. CASE at[h].op = "verify"
      BY <2>2, <3>1, <3>3
    <3> QED BY <3>2, <3>3
  <2>5. /\ r \in Request /\ r.op = at[h].op /\ r.code = at[h].code /\ r.device = at[h].device
        /\ r.step = s
    BY <2>3, <2>4 DEF Request
  <2>6. s \in Path(at[h].op)
    BY <2>3, <2>4, Routes
  <2> QED BY <2>2, <2>5, <2>6, IssueContinues
<1>2. CASE Details(h) \/ Perceptions(h)
  <2>1. PICK s \in {"perceptions", "noDetails", "commit", "addCode"} :
            Goto(h, s) /\ s \in Path(at[h].op)
    BY <1>2, AtOnRoute, Routes DEF Details, Perceptions
  <2> QED BY <2>1, GotoContinues
<1>3. CASE AddCode(h)
  <2>1. at[h].op \in Transactional => "commit" \in Path(at[h].op)
    BY Routes
  <2> QED BY <1>3, <2>1, GotoContinues, FinishContinues, ThrowContinues DEF AddCode
<1> QED BY <1>1, <1>2, <1>3, ThrowContinues DEF NoDetails, AddCodeFails

LEMMA DeviceRouted ==
  ASSUME TInv, NEW h \in Handlers,
         \/ Validate(h) \/ PeekOwn(h) \/ DropOwn(h) \/ PeekDevice(h) \/ DropDevice(h)
         \/ OwnerOf(h) \/ DevicesOf(h) \/ Bind(h) \/ Describe(h) \/ RegisterPublicKey(h)
  PROVE  Continues(h)
<1> USE DEF Runs, Steps
<1> DEFINE Later == {"whois", "dropOwn", "peekDevice", "dropDevice", "ownerOf", "devicesOf",
                     "bind", "describe", "key", "details"}
<1>1. PICK s \in Later : Throw(h) \/ (Goto(h, s) /\ s \in Path(at[h].op))
  <2>1. CASE Validate(h)
    BY <2>1, AtOnRoute, Routes DEF Validate
  <2>2. CASE PeekOwn(h) \/ DropOwn(h) \/ PeekDevice(h) \/ DropDevice(h)
    <3>1. PICK t \in {"peekOwn", "dropOwn", "peekDevice", "dropDevice"} :
              Turn(h, t) /\ \E s \in Later : Goto(h, s) /\ s \notin {"whois"}
      BY <2>2 DEF PeekOwn, DropOwn, PeekDevice, DropDevice
    <3>2. "peekOwn" \in Path(at[h].op)
      BY <3>1, AtOnRoute, Routes
    <3> QED BY <3>1, <3>2, Routes
  <2>3. CASE OwnerOf(h) \/ DevicesOf(h) \/ Bind(h) \/ Describe(h) \/ RegisterPublicKey(h)
    <3>1. PICK t \in {"ownerOf", "devicesOf", "bind", "describe", "key"} :
              Turn(h, t) /\ (Throw(h) \/ \E s \in Later : Goto(h, s) /\ s \notin {"whois"})
      BY <2>3 DEF OwnerOf, DevicesOf, Bind, Describe, RegisterPublicKey
    <3>2. "peekOwn" \in Path(at[h].op)
      BY <3>1, AtOnRoute, Routes
    <3> QED BY <3>1, <3>2, Routes
  <2> QED BY <2>1, <2>2, <2>3
<1> QED BY <1>1, GotoContinues, ThrowContinues

LEMMA DeletionRouted ==
  ASSUME TInv, NEW h \in Handlers, Authenticate(h) \/ Exists(h) \/ DeleteDevice(h)
  PROVE  Continues(h)
<1> USE DEF Runs, Steps
<1>1. at[h].op = "delete" /\ Path(at[h].op) = {"auth", "begin", "exists", "drop", "commit", "rollback"}
  <2>1. PICK t \in {"auth", "exists", "drop"} : Turn(h, t)
    BY DEF Authenticate, Exists, DeleteDevice
  <2> QED BY <2>1, AtOnRoute, Routes
<1>2. ASSUME Issue(h, [at[h] EXCEPT !.step = "commit", !.reply = "ok"]) PROVE Continues(h)
  <2>1. PICK r : r = [at[h] EXCEPT !.step = "commit", !.reply = "ok"]
    OBVIOUS
  <2>2. r \in Request /\ r.op = at[h].op /\ r.code = at[h].code /\ r.device = at[h].device
        /\ r.step = "commit"
    <3>1. at[h] \in Request
      BY DEF TInv, SInv, ShapeOK
    <3> QED BY <2>1, <3>1 DEF Request
  <2> QED BY <1>1, <1>2, <2>1, <2>2, IssueContinues
<1>3. CASE Authenticate(h)
  <2>1. at[h].step = "auth"
    BY <1>3 DEF Authenticate, Turn
  <2> QED BY <1>1, <1>3, <2>1, GotoContinues, FinishContinues DEF Authenticate
<1>4. CASE Exists(h)
  BY <1>1, <1>2, <1>4, GotoContinues DEF Exists
<1>5. CASE DeleteDevice(h)
  BY <1>2, <1>5, ThrowContinues DEF DeleteDevice
<1> QED BY <1>3, <1>4, <1>5

\* A statement leaves the tables well formed.
StoreOK == db \in Tables /\ tmp \in Tables /\ session \in {"idle", "open", "aborted"}

LEMMA WriteStore == ASSUME DataOK, NEW t \in Tables, Write(t) PROVE StoreOK'
BY DEF DataOK, Write, StoreOK

LEMMA QuietStore == ASSUME DataOK, Broken \/ ReadOnly PROVE StoreOK'
BY DEF DataOK, Broken, ReadOnly, store, StoreOK

LEMMA RowTables ==
  ASSUME NEW t \in Tables, NEW u \in Users, NEW r \in ProfileTables
  PROVE  [t EXCEPT !.rows = @ \cup {<<u, r>>}] \in Tables
BY DEF Tables

LEMMA CodeTables ==
  ASSUME NEW t \in Tables, NEW c \in Codes, NEW u \in Users \cup {None}
  PROVE  /\ [t EXCEPT !.code[c] = [of |-> u, used |-> FALSE]] \in Tables
         /\ [t EXCEPT !.code[c].used = TRUE] \in Tables
<1>1. ASSUME NEW x \in [of: Users \cup {None}, used: BOOLEAN]
      PROVE  [t EXCEPT !.code[c] = x] \in Tables
  BY DEF Tables
<1>2. [of |-> u, used |-> FALSE] \in [of: Users \cup {None}, used: BOOLEAN]
  OBVIOUS
<1>3. t.code \in [Codes -> [of: Users \cup {None}, used: BOOLEAN]]
  BY DEF Tables
<1>4. [t.code[c] EXCEPT !.used = TRUE] \in [of: Users \cup {None}, used: BOOLEAN]
  BY <1>3
<1>5. [t EXCEPT !.code[c].used = TRUE] = [t EXCEPT !.code[c] = [t.code[c] EXCEPT !.used = TRUE]]
  OBVIOUS
<1> QED BY <1>1, <1>2, <1>4, <1>5

LEMMA DeviceTables ==
  ASSUME NEW t \in Tables, NEW d \in Devices, NEW u \in Users
  PROVE  /\ [t EXCEPT !.owner[d] = u] \in Tables
         /\ [t EXCEPT !.key[u] = d] \in Tables
<1>1. [t EXCEPT !.owner[d] = u] \in Tables
  BY DEF Tables
<1>2. [t EXCEPT !.key[u] = d] \in Tables
  BY DEF Tables
<1> QED BY <1>1, <1>2

LEMMA DropTables == ASSUME NEW t \in Tables, NEW ds PROVE Drop(t, ds) \in Tables
<1> DEFINE owner == [d \in Devices |-> IF d \in ds THEN None ELSE t.owner[d]]
<1>1. owner \in [Devices -> Users \cup {None}]
  BY DEF Tables
<1>2. Drop(t, ds) = [t EXCEPT !.owner = owner, !.known = t.known \ ds]
  BY DEF Drop
<1> HIDE DEF owner
<1> QED BY <1>1, <1>2 DEF Tables

LEMMA TransactionStore ==
  ASSUME TInv, NEW h \in Handlers,
         Begin(h) \/ Commit(h) \/ CommitFails(h) \/ Rollback(h) \/ Refused(h)
  PROVE  StoreOK'
BY DEF TInv, DataOK, StoreOK, Begin, Commit, CommitFails, Rollback, Refused, store

LEMMA AccountStore ==
  ASSUME TInv, NEW h \in Handlers,
         \/ AddUser(h)
         \/ AddProfileRow(h, "user_details", "users_state")
         \/ AddProfileRow(h, "users_state", "users_settings")
         \/ AddProfileRow(h, "users_settings", AfterSettings(at[h].op))
  PROVE  StoreOK'
<1>1. tmp \in Tables /\ DataOK
  BY DEF TInv, DataOK
<1>2. ASSUME NEW r \in ProfileTables, at[h].user \in Users, NEW s, Insert(h, r, s) PROVE StoreOK'
  BY <1>1, <1>2, RowTables, WriteStore DEF Insert
<1>3. CASE AddUser(h)
  <2>1. at[h].user \in Users
    BY <1>3 DEF AddUser, Runs, Turn, TInv, Routed
  <2> QED BY <1>1, <1>2, <1>3, <2>1, QuietStore DEF AddUser, ProfileTables
<1>4. ASSUME NEW r \in ProfileTables, NEW s, AddProfileRow(h, r, s) PROVE StoreOK'
  <2>1. Registered(tmp, at[h].user) => at[h].user \in Users
    BY <1>1 DEF Registered, Tables
  <2> QED BY <1>1, <1>2, <1>4, <2>1, QuietStore DEF AddProfileRow
<1> QED BY <1>3, <1>4 DEF ProfileTables

LEMMA CodeStore ==
  ASSUME TInv, NEW h \in Handlers,
         WhoIs(h) \/ Details(h) \/ Perceptions(h) \/ NoDetails(h) \/ AddCode(h) \/ AddCodeFails(h)
  PROVE  StoreOK'
<1>1. tmp \in Tables /\ DataOK /\ at[h] \in Request
  BY DEF TInv, DataOK, SInv, ShapeOK
<1>2. CASE AddCode(h)
  <2>1. Turn(h, "addCode")
    BY <1>2 DEF AddCode, Runs
  <2>2. at[h].op \in NewCodeOps /\ Routed(at[h])
    BY <2>1, AtOnRoute, Routes DEF Steps
  <2>3. at[h].code \in Codes /\ at[h].user \in Users \cup {None}
    BY <1>1, <2>2 DEF Routed, Request
  <2> QED BY <1>1, <1>2, <2>3, CodeTables, WriteStore DEF AddCode
<1> QED BY <1>1, <1>2, QuietStore DEF WhoIs, Details, Perceptions, NoDetails, AddCodeFails

LEMMA DeviceStore ==
  ASSUME TInv, NEW h \in Handlers,
         \/ Validate(h) \/ PeekOwn(h) \/ DropOwn(h) \/ PeekDevice(h) \/ DropDevice(h)
         \/ OwnerOf(h) \/ DevicesOf(h) \/ Bind(h) \/ Describe(h) \/ RegisterPublicKey(h)
         \/ Authenticate(h) \/ Exists(h) \/ DeleteDevice(h)
  PROVE  StoreOK'
<1>1. /\ tmp \in Tables /\ DataOK /\ at[h].user \in Users \cup {None}
  BY DEF TInv, DataOK, SInv, ShapeOK, Request
<1>2. Registered(tmp, at[h].user) => at[h].user \in Users
  BY <1>1 DEF Registered, Tables
<1>3. CASE Validate(h)
  <2>1. Turn(h, "validate")
    BY <1>3 DEF Validate, Runs
  <2>2. at[h].code \in Codes
    BY <2>1, AtOnRoute, Routes DEF Steps, Routed
  <2> QED BY <1>1, <1>3, <2>2, CodeTables, WriteStore, QuietStore DEF Validate
<1>4. ASSUME NEW ds, Write(Drop(tmp, ds)) PROVE StoreOK'
  BY <1>1, <1>4, DropTables, WriteStore
<1>5. CASE DropOwn(h)
  BY <1>4, <1>5 DEF DropOwn
<1>6. CASE DropDevice(h) \/ DeleteDevice(h)
  BY <1>1, <1>4, <1>6, QuietStore DEF DropDevice, DeleteDevice
<1>7. CASE Bind(h) \/ Describe(h) \/ RegisterPublicKey(h)
  <2>1. at[h].device \in Devices
    <3>1. PICK s \in {"bind", "describe", "key"} : Turn(h, s)
      BY <1>7 DEF Bind, Describe, RegisterPublicKey, Runs
    <3> QED BY <3>1, AtOnRoute, Routes DEF Steps, Routed
  <2>2. CASE Bind(h)
    BY <1>1, <1>2, <2>1, <2>2, DeviceTables, WriteStore, QuietStore DEF Bind
  <2>3. CASE Describe(h)
    <3>1. [tmp EXCEPT !.known = @ \cup {at[h].device}] \in Tables
      BY <1>1, <2>1 DEF Tables
    <3> QED BY <1>1, <2>3, <3>1, WriteStore, QuietStore DEF Describe
  <2>4. CASE RegisterPublicKey(h)
    BY <1>1, <1>2, <2>1, <2>4, DeviceTables, WriteStore, QuietStore DEF RegisterPublicKey
  <2> QED BY <1>7, <2>2, <2>3, <2>4
<1> QED
  BY <1>1, <1>3, <1>5, <1>6, <1>7, QuietStore
  DEF PeekOwn, PeekDevice, OwnerOf, DevicesOf, Authenticate, Exists

\* What the histories record are codes.
LEMMA HistoryKept ==
  ASSUME TInv, NEW h \in Handlers, Statement(h)
  PROVE  /\ late' \subseteq Codes /\ issued' \subseteq Codes /\ crowded' \subseteq Handlers
         /\ promised' \subseteq Codes /\ redeemed' \subseteq Codes
<1>1. CASE AddCode(h)
  <2>1. Turn(h, "addCode")
    BY <1>1 DEF AddCode, Runs
  <2>2. at[h].code \in Codes
    BY <2>1, AtOnRoute, Routes DEF Steps, Routed
  <2> QED BY <1>1, <2>2 DEF AddCode, TInv, DataOK
<1>2. CASE Commit(h)
  <2>1. at[h].op \in NewCodeOps \cup {"verify"} => at[h].code \in Codes
    BY DEF TInv, Routed
  <2> QED BY <1>2, <2>1 DEF Commit, TInv, DataOK, NewCodeOps
<1>3. CASE Begin(h)
  BY <1>3 DEF Begin, TInv, DataOK
<1>4. CASE UNCHANGED <<late, history>>
  BY <1>4 DEF TInv, DataOK, history
<1> QED
  BY <1>1, <1>2, <1>3, <1>4
  DEF Statement, CommitFails, Rollback, Refused, AddUser, AddProfileRow, WhoIs, Details,
      Perceptions, NoDetails, AddCodeFails, Validate, PeekOwn, DropOwn, PeekDevice, DropDevice,
      OwnerOf, DevicesOf, Bind, Describe, RegisterPublicKey, Authenticate, Exists, DeleteDevice

LEMMA ArriveRouted ==
  ASSUME TInv, NEW h \in Handlers, Arrive(h)
  PROVE  \A k \in Handlers : Routed(at'[k])
<1>1. ASSUME NEW op \in Ops, NEW u \in Users, NEW d \in Devices \cup {None},
             NEW c \in Codes \cup {None}, NEW wipe \in BOOLEAN, Receive(h, op, u, d, c, wipe),
             op \in NewCodeOps \cup {"verify"} => c \in Codes,
             op \in {"verify", "delete"} => d \in Devices
      PROVE  \A k \in Handlers : Routed(at'[k])
  <2>1. PICK r : r = [op |-> op, step |-> Start(op), user |-> u, device |-> d, code |-> c,
                      wipe |-> wipe, reply |-> "none"]
    OBVIOUS
  <2>2. at' = [at EXCEPT ![h] = r]
    BY <1>1, <2>1 DEF Receive
  <2>3. Start(op) \in Path(op)
    BY DEF Start, Path, Ops
  <2>4. Routed(r)
    BY <1>1, <2>1, <2>3 DEF Routed
  <2> QED BY <2>2, <2>4 DEF TInv, SInv, ShapeOK
<1> USE DEF Ops, NewCodeOps
<1>2. CASE \E u \in Users, c \in Codes, op \in {"login", "loginSms", "register", "registerSms"} :
               NewCode(c) /\ Receive(h, op, u, None, c, FALSE)
  BY <1>1, <1>2
<1>3. CASE \E u \in Users, d \in Devices : Receive(h, "delete", u, d, None, FALSE)
  BY <1>1, <1>3
<1>4. CASE \E u \in Users, d \in Devices, c \in Codes, wipe \in BOOLEAN :
               Receive(h, "verify", u, d, c, wipe)
  BY <1>1, <1>4
<1> QED BY <1>2, <1>3, <1>4 DEF Arrive

LEMMA TInvKept == TInv /\ [Next]_vars => TInv'
<1> SUFFICES ASSUME TInv, [Next]_vars PROVE TInv'
  OBVIOUS
<1>1. SInv'
  BY NextKeeps DEF TInv
<1>2. CASE UNCHANGED vars
  BY <1>1, <1>2 DEF vars, TInv, DataOK
<1>3. ASSUME NEW h \in Handlers, Arrive(h) PROVE TInv'
  <2>1. DataOK'
    BY <1>3 DEF Arrive, Receive, TInv, DataOK, store, history
  <2> QED BY <1>1, <1>3, <2>1, ArriveRouted DEF TInv
<1>4. ASSUME NEW h \in Handlers, Statement(h) PROVE TInv'
  <2>1. Continues(h)
    BY <1>4, TransactionRouted, AccountRouted, CodeRouted, DeviceRouted, DeletionRouted DEF Statement
  <2>2. StoreOK'
    BY <1>4, TransactionStore, AccountStore, CodeStore, DeviceStore DEF Statement
  <2> QED BY <1>1, <1>4, <2>1, <2>2, ContinuesRouted, HistoryKept DEF TInv, DataOK, StoreOK
<1>5. ASSUME NEW c \in Codes, Elapse(c) PROVE TInv'
  BY <1>1, <1>5 DEF Elapse, TInv, DataOK, store, history
<1>6. CASE Crash
  <2>1. Routed(Fresh)
    BY DEF Routed, Fresh, NewCodeOps
  <2> QED BY <1>1, <1>6, <2>1 DEF Crash, TInv, DataOK, history
<1> QED BY <1>2, <1>3, <1>4, <1>5, <1>6 DEF Next

\* Requests and tables are well formed after every statement, for any users,
\* devices, codes and number of requests in progress.
THEOREM TypeCorrect == Spec => []TypeOK
<1>1. TInv => TypeOK
  BY DEF TInv, SInv, ShapeOK, DataOK, TypeOK
<1> QED BY <1>1, InitTInv, TInvKept, PTL DEF Spec

-------------------------------------------------------------------------------
\* A request that no other runs beside, after whatever others have done.  Until it
\* ends or ends badly, its transaction is open and holds what its statements wrote.

\* The rows a registration has inserted when it comes to a statement.
Gained(s) ==
    CASE s = "users" -> {}
      [] s = "user_details" -> {"users"}
      [] s = "users_state" -> {"users", "user_details"}
      [] s = "users_settings" -> {"users", "user_details", "users_state"}
      [] OTHER -> ProfileTables

\* What the request r has done to the tables t when it comes to its statement.
Earned(r, t) ==
    /\ Registers(r) => /\ \A x \in Gained(r.step) : <<r.user, x>> \in t.rows
                       /\ r.step = "commit" => t.code[r.code].of = r.user
    /\ r.op = "verify" =>
           /\ r.step # "validate" => t.code[r.code].used
           /\ r.step \in Bonding \cup Bonded => r.user # None /\ t.owner[r.device] = r.user
           /\ r.step \in Bonded => t.key[r.user] = r.device
    /\ r.op = "delete" => r.user \in Users /\ (r.step = "commit" => t.owner[r.device] = None)

\* No other request was in progress since h began its transaction, and h goes on with it.
Undisturbed(h) == InTransaction(h) /\ h \notin crowded /\ at[h].step # "rollback"

\* Only a deletion answers before it has ended its transaction.
Silent(r) == r.step = "idle" \/ (r.op = "delete" /\ r.step = "commit") \/ r.reply = "none"

UInv ==
    /\ \A h \in Handlers : Silent(at[h])
    /\ \A h \in Handlers : Undisturbed(h) =>
           /\ \A k \in Handlers \ {h} : at[k].step = "idle"
           /\ session = "open" /\ Earned(at[h], tmp)

\* What a statement of h has to keep for it.
Earns(h) == session' = "open" /\ Earned(at'[h], tmp')

-------------------------------------------------------------------------------
\* The statements of a request that goes on with its transaction.

LEMMA GotoForm ==
  ASSUME TInv, NEW h \in Handlers, NEW s \in Steps, Goto(h, s)
  PROVE  at'[h].step = s /\ Same(at[h], at'[h]) /\ at'[h].reply = at[h].reply
BY DEF Goto, Issue, TInv, SInv, ShapeOK, Request, Same

LEMMA ThrowForm ==
  ASSUME TInv, NEW h \in Handlers, Throw(h)
  PROVE  at'[h].step \in {"idle", "rollback"}
BY ThrowServes DEF TInv, SInv

\* A statement that only reads.
LEMMA ReadEarns ==
  ASSUME TInv, NEW h \in Handlers, session = "open", Earned(at[h], tmp), ReadOnly,
         NEW s \in Steps, Goto(h, s),
         Registers(at[h]) => Gained(s) = Gained(at[h].step) /\ s # "commit",
         at[h].op = "verify" => /\ at[h].step # "validate"
                                /\ s \in Bonding \cup Bonded => at[h].step \in Bonding \cup Bonded
                                /\ s \in Bonded => at[h].step \in Bonded,
         at[h].op = "delete" => s # "commit"
  PROVE  Earns(h)
<1>1. at'[h].step = s /\ Same(at[h], at'[h])
  BY GotoForm
<1>2. tmp' = tmp /\ session' = session
  BY DEF ReadOnly, store
<1> QED BY <1>1, <1>2 DEF Earns, Earned, Same, Registers

LEMMA AddUserEarns ==
  ASSUME TInv, NEW h \in Handlers, AddUser(h), session = "open", Earned(at[h], tmp),
         at'[h].step \notin {"idle", "rollback"}
  PROVE  Earns(h)
<1>1. Turn(h, "users") /\ ~Throw(h)
  BY ThrowForm DEF AddUser, Runs
<1>2. /\ at[h].step = "users" /\ "users" \in Path(at[h].op) /\ Routed(at[h]) /\ tmp \in Tables
  BY <1>1, AtOnRoute DEF Steps
<1>3. Registers(at[h]) /\ at[h].user \in Users
  BY <1>2 DEF Path, Registers, Routed, ProfileSteps
<1>4. PICK n : n = [tmp EXCEPT !.rows = @ \cup {<<at[h].user, "users">>}]
  OBVIOUS
<1>5. Write(n) /\ Goto(h, "user_details")
  BY <1>1, <1>4 DEF AddUser, Insert
<1>6. n.rows = tmp.rows \cup {<<at[h].user, "users">>} /\ session' = session /\ tmp' = n
  BY <1>2, <1>3, <1>4, <1>5, RowAdded DEF ProfileTables, Write
<1>7. at'[h].step = "user_details" /\ Same(at[h], at'[h])
  BY <1>5, GotoForm DEF Steps
<1> QED BY <1>3, <1>6, <1>7 DEF Earns, Earned, Same, Registers, Gained

LEMMA AddProfileRowEarns ==
  ASSUME TInv, NEW h \in Handlers, NEW x, NEW next, AddProfileRow(h, x, next),
         session = "open", Earned(at[h], tmp), at'[h].step \notin {"idle", "rollback"},
         \/ x = "user_details" /\ next = "users_state"
         \/ x = "users_state" /\ next = "users_settings"
         \/ x = "users_settings" /\ next = AfterSettings(at[h].op)
  PROVE  Earns(h)
<1>1. Turn(h, x) /\ ~Throw(h) /\ x \in PartialSteps
  BY ThrowForm DEF AddProfileRow, Runs, PartialSteps
<1>2. /\ at[h].step = x /\ x \in Path(at[h].op) /\ tmp \in Tables
  BY <1>1, AtOnRoute DEF Steps, PartialSteps
<1>3. Registers(at[h])
  BY <1>1, <1>2 DEF Path, Registers, PartialSteps
<1>4. PICK n : n = [tmp EXCEPT !.rows = @ \cup {<<at[h].user, x>>}]
  OBVIOUS
<1>5. Write(n) /\ Goto(h, next) /\ Registered(tmp, at[h].user)
  BY <1>1, <1>4 DEF AddProfileRow, Insert
<1>6. n.rows = tmp.rows \cup {<<at[h].user, x>>} /\ session' = session /\ tmp' = n
  <2>1. at[h].user \in Users /\ x \in ProfileTables
    BY <1>1, <1>2, <1>5, RegisteredUsers DEF PartialSteps, ProfileTables
  <2> QED BY <1>2, <1>4, <1>5, <2>1, RowAdded DEF Write
<1>7. next \in {"users_state", "users_settings", "whois", "addCode"}
  BY DEF AfterSettings
<1>8. at'[h].step = next /\ Same(at[h], at'[h])
  BY <1>5, <1>7, GotoForm DEF Steps
<1>9. Gained(next) = Gained(x) \cup {x}
  BY <1>7 DEF Gained, ProfileTables, AfterSettings
<1> QED BY <1>2, <1>3, <1>6, <1>7, <1>8, <1>9 DEF Earns, Earned, Same, Registers

LEMMA WhoIsEarns ==
  ASSUME TInv, NEW h \in Handlers, WhoIs(h), session = "open", Earned(at[h], tmp), InTransaction(h)
  PROVE  Earns(h)
<1>1. Turn(h, "whois") /\ tmp' = tmp /\ session' = session
  BY DEF WhoIs, Runs, ReadOnly, store
<1>2. at[h] \in Request /\ at[h].step = "whois" /\ "whois" \in Path(at[h].op)
  BY <1>1, AtOnRoute DEF Steps
<1>3. at[h].op \in {"register", "verify"}
  BY <1>2 DEF Path, ProfileSteps, InTransaction, Transactional
<1>4. PICK r : r = [at[h] EXCEPT
           !.user = IF Registered(tmp, @) THEN @ ELSE None,
           !.step = CASE at[h].op # "verify" -> "details"
                      [] at[h].op = "verify" /\ at[h].wipe -> "peekOwn"
                      [] at[h].op = "verify" /\ ~at[h].wipe -> "ownerOf"]
  OBVIOUS
<1>5. at'[h] = r
  BY <1>4 DEF WhoIs, Issue, TInv, SInv, ShapeOK
<1>6. /\ r.op = at[h].op /\ r.device = at[h].device /\ r.code = at[h].code
      /\ r.op = "register" => r.step = "details"
      /\ r.op = "verify" => r.step \in {"peekOwn", "ownerOf"}
      /\ r.user = IF Registered(tmp, at[h].user) THEN at[h].user ELSE None
  BY <1>2, <1>4 DEF Request
<1>7. CASE at[h].op = "register"
  <2>1. \A x \in ProfileTables : <<at[h].user, x>> \in tmp.rows
    BY <1>2, <1>7 DEF Earned, Registers, Gained
  <2>2. r.user = at[h].user
    BY <1>6, <2>1 DEF Registered, ProfileTables
  <2> QED BY <1>1, <1>5, <1>6, <1>7, <2>1, <2>2 DEF Earns, Earned, Registers, Gained
<1>8. CASE at[h].op = "verify"
  BY <1>1, <1>2, <1>5, <1>6, <1>8 DEF Earns, Earned, Registers, Bonding, Bonded
<1> QED BY <1>3, <1>7, <1>8

LEMMA DetailsEarns ==
  ASSUME TInv, NEW h \in Handlers, Details(h) \/ Perceptions(h) \/ NoDetails(h),
         session = "open", Earned(at[h], tmp), at'[h].step \notin {"idle", "rollback"}, InTransaction(h)
  PROVE  Earns(h)
<1>1. ~Throw(h) /\ ReadOnly
  BY ThrowForm DEF NoDetails, Details, Perceptions
<1>2. PICK s0 \in {"details", "perceptions"}, s \in {"perceptions", "noDetails", "commit", "addCode"} :
          /\ Turn(h, s0) /\ Goto(h, s)
          /\ s = "commit" => at[h].op = "verify"
  BY <1>1 DEF NoDetails, Details, Perceptions, Runs
<1>3. at[h].step = s0 /\ s0 \in Path(at[h].op)
  BY <1>2, AtOnRoute DEF Steps
<1>4. at[h].op \in {"register", "verify"}
  BY <1>3 DEF Path, ProfileSteps, InTransaction, Transactional
<1>5. Gained(s) = Gained(at[h].step)
  BY <1>2, <1>3 DEF Gained
<1>6. s0 \in Bonded /\ s0 # "validate"
  BY DEF Bonded
<1> QED BY <1>1, <1>2, <1>3, <1>4, <1>5, <1>6, ReadEarns DEF Registers, Steps

LEMMA AddCodeEarns ==
  ASSUME TInv, NEW h \in Handlers, AddCode(h), session = "open", Earned(at[h], tmp),
         at'[h].step \notin {"idle", "rollback"}, InTransaction(h)
  PROVE  Earns(h)
<1>1. Turn(h, "addCode") /\ ~Throw(h)
  BY ThrowForm DEF AddCode, Runs
<1>2. /\ at[h] \in Request /\ at[h].step = "addCode" /\ "addCode" \in Path(at[h].op)
      /\ Routed(at[h]) /\ tmp \in Tables
  BY <1>1, AtOnRoute DEF Steps
<1>3. Registers(at[h]) /\ at[h].code \in Codes
  BY <1>2 DEF Path, Registers, Routed, NewCodeOps, ProfileSteps, InTransaction, Transactional
<1>4. \A x \in ProfileTables : <<at[h].user, x>> \in tmp.rows
  BY <1>2, <1>3 DEF Earned, Gained
<1>5. at[h].user \in Users
  BY <1>2, <1>4, RegisteredUsers DEF Registered, ProfileTables
<1>6. PICK n : n = [tmp EXCEPT !.code[at[h].code] = [of |-> at[h].user, used |-> FALSE]]
  OBVIOUS
<1>7. Write(n) /\ Goto(h, "commit")
  BY <1>1, <1>3, <1>6 DEF AddCode, Registers, Transactional
<1>8. n.code[at[h].code].of = at[h].user /\ n.rows = tmp.rows
  BY <1>2, <1>3, <1>5, <1>6, CodeAdded
<1>9. at'[h].step = "commit" /\ Same(at[h], at'[h])
  BY <1>7, GotoForm DEF Steps
<1> QED BY <1>3, <1>4, <1>7, <1>8, <1>9 DEF Earns, Earned, Same, Registers, Gained, Write

\* A statement of a verification.
LEMMA AtVerification ==
  ASSUME TInv, NEW h \in Handlers,
         NEW s \in {"validate", "peekOwn", "dropOwn", "peekDevice", "dropDevice", "ownerOf",
                    "devicesOf", "bind", "describe", "key"}, Turn(h, s)
  PROVE  /\ at[h] \in Request /\ at[h].step = s /\ at[h].op = "verify" /\ tmp \in Tables
         /\ at[h].device \in Devices /\ at[h].code \in Codes
<1>1. /\ at[h] \in Request /\ at[h].step = s /\ s \in Path(at[h].op) /\ Routed(at[h]) /\ tmp \in Tables
  BY AtOnRoute DEF Steps
<1>2. at[h].op = "verify"
  BY <1>1 DEF Path, ProfileSteps
<1> QED BY <1>1, <1>2 DEF Routed

LEMMA ValidateEarns ==
  ASSUME TInv, NEW h \in Handlers, Validate(h), session = "open",
         at'[h].step \notin {"idle", "rollback"}
  PROVE  Earns(h)
<1>1. Turn(h, "validate") /\ ~Throw(h)
  BY ThrowForm DEF Validate, Runs
<1>2. at[h].op = "verify" /\ tmp \in Tables /\ at[h].code \in Codes
  BY <1>1, AtVerification
<1>3. PICK n : n = [tmp EXCEPT !.code[at[h].code].used = TRUE]
  OBVIOUS
<1>4. Write(n) /\ Goto(h, "whois")
  BY <1>1, <1>3 DEF Validate
<1>5. n.code[at[h].code].used
  BY <1>2, <1>3, CodeUsed
<1>6. at'[h].step = "whois" /\ Same(at[h], at'[h])
  BY <1>4, GotoForm DEF Steps
<1> QED BY <1>2, <1>4, <1>5, <1>6 DEF Earns, Earned, Same, Registers, Bonding, Bonded, Write

\* Up to the device, all there is to keep is the code.
LEMMA SearchEarns ==
  ASSUME TInv, NEW h \in Handlers,
         PeekOwn(h) \/ DropOwn(h) \/ PeekDevice(h) \/ DropDevice(h) \/ DevicesOf(h),
         session = "open", Earned(at[h], tmp), at'[h].step \notin {"idle", "rollback"}
  PROVE  Earns(h)
<1>1. ~Throw(h)
  BY ThrowForm
<1>2. PICK s0 \in {"peekOwn", "dropOwn", "peekDevice", "dropDevice", "devicesOf"},
           s \in {"dropOwn", "peekDevice", "dropDevice", "ownerOf", "bind"} : Turn(h, s0) /\ Goto(h, s)
  BY <1>1 DEF PeekOwn, DropOwn, PeekDevice, DropDevice, DevicesOf, Runs
<1>3. at[h].op = "verify" /\ at[h].step = s0 /\ tmp \in Tables /\ at[h].device \in Devices
  BY <1>2, AtVerification
<1>4. session' = session /\ tmp'.code = tmp.code
  <2>1. CASE ReadOnly
    BY <2>1 DEF ReadOnly, store
  <2>2. ASSUME NEW ds \in SUBSET Devices, Write(Drop(tmp, ds))
        PROVE  session' = session /\ tmp'.code = tmp.code
    BY <1>3, <2>2, Dropped DEF Write
  <2>3. CASE DropOwn(h)
    BY <2>2, <2>3 DEF DropOwn, OwnedBy
  <2>4. CASE DropDevice(h)
    BY <1>3, <2>2, <2>4 DEF DropDevice
  <2> QED BY <2>1, <2>3, <2>4 DEF PeekOwn, PeekDevice, DevicesOf
<1>5. at'[h].step = s /\ Same(at[h], at'[h])
  BY <1>2, GotoForm DEF Steps
<1> QED BY <1>3, <1>4, <1>5 DEF Earns, Earned, Same, Registers, Bonding, Bonded

LEMMA OwnerOfEarns ==
  ASSUME TInv, NEW h \in Handlers, OwnerOf(h), session = "open", Earned(at[h], tmp),
         at'[h].step \notin {"idle", "rollback"}
  PROVE  Earns(h)
<1>1. Turn(h, "ownerOf") /\ ~Throw(h) /\ tmp' = tmp /\ session' = session
  BY ThrowForm DEF OwnerOf, Runs, ReadOnly, store
<1>2. at[h].op = "verify" /\ at[h].step = "ownerOf"
  BY <1>1, AtVerification
<1>3. PICK s \in {"devicesOf", "key"} :
          Goto(h, s) /\ (s = "key" => at[h].user # None /\ tmp.owner[at[h].device] = at[h].user)
  BY <1>1 DEF OwnerOf
<1>4. at'[h].step = s /\ Same(at[h], at'[h])
  BY <1>3, GotoForm DEF Steps
<1> QED BY <1>1, <1>2, <1>3, <1>4 DEF Earns, Earned, Same, Registers, Bonding, Bonded

LEMMA BindEarns ==
  ASSUME TInv, NEW h \in Handlers, Bind(h) \/ Describe(h) \/ RegisterPublicKey(h),
         session = "open", Earned(at[h], tmp), at'[h].step \notin {"idle", "rollback"}
  PROVE  Earns(h)
<1>1. ~Throw(h)
  BY ThrowForm
<1>2. PICK s0 \in {"bind", "describe", "key"} : Turn(h, s0)
  BY DEF Bind, Describe, RegisterPublicKey, Runs
<1>3. /\ at[h].op = "verify" /\ at[h].step = s0 /\ tmp \in Tables /\ at[h].device \in Devices
      /\ Registered(tmp, at[h].user) => at[h].user \in Users /\ at[h].user # None
  BY <1>2, AtVerification, RegisteredUsers, NoneIsNoUser
<1>4. CASE Bind(h)
  <2>1. PICK n : n = [tmp EXCEPT !.owner[at[h].device] = at[h].user]
    OBVIOUS
  <2>2. Write(n) /\ Goto(h, "describe") /\ Registered(tmp, at[h].user) /\ at[h].step = "bind"
    BY <1>1, <1>4, <2>1 DEF Bind, Runs, Turn
  <2>3. n.owner[at[h].device] = at[h].user /\ n.code = tmp.code
    BY <1>3, <2>1, <2>2, Bound
  <2>4. at'[h].step = "describe" /\ Same(at[h], at'[h])
    BY <2>2, GotoForm DEF Steps
  <2> QED BY <1>3, <2>2, <2>3, <2>4 DEF Earns, Earned, Same, Registers, Bonding, Bonded, Write
<1>5. CASE Describe(h)
  <2>1. PICK n : n = [tmp EXCEPT !.known = @ \cup {at[h].device}]
    OBVIOUS
  <2>2. Write(n) /\ Goto(h, "key") /\ at[h].step = "describe"
    BY <1>1, <1>5, <2>1 DEF Describe, Runs, Turn
  <2>3. n.owner = tmp.owner /\ n.code = tmp.code
    BY <1>3, <2>1, Described
  <2>4. at'[h].step = "key" /\ Same(at[h], at'[h])
    BY <2>2, GotoForm DEF Steps
  <2> QED BY <1>3, <2>2, <2>3, <2>4 DEF Earns, Earned, Same, Registers, Bonding, Bonded, Write
<1>6. CASE RegisterPublicKey(h)
  <2>1. PICK n : n = [tmp EXCEPT !.key[at[h].user] = at[h].device]
    OBVIOUS
  <2>2. Write(n) /\ Goto(h, "details") /\ Registered(tmp, at[h].user) /\ at[h].step = "key"
    BY <1>1, <1>6, <2>1 DEF RegisterPublicKey, Runs, Turn
  <2>3. n.key[at[h].user] = at[h].device /\ n.owner = tmp.owner /\ n.code = tmp.code
    BY <1>3, <2>1, <2>2 DEF Tables
  <2>4. at'[h].step = "details" /\ Same(at[h], at'[h])
    BY <2>2, GotoForm DEF Steps
  <2> QED BY <1>3, <2>2, <2>3, <2>4 DEF Earns, Earned, Same, Registers, Bonding, Bonded, Write
<1> QED BY <1>4, <1>5, <1>6

LEMMA DeletionEarns ==
  ASSUME TInv, NEW h \in Handlers, Exists(h) \/ DeleteDevice(h), session = "open",
         Earned(at[h], tmp), at'[h].step \notin {"idle", "rollback"}
  PROVE  Earns(h)
<1>1. ~Throw(h)
  BY ThrowForm
<1>2. PICK s0 \in {"exists", "drop"} : Turn(h, s0)
  BY DEF Exists, DeleteDevice, Runs
<1>3. /\ at[h] \in Request /\ at[h].op = "delete" /\ tmp \in Tables /\ at[h].device \in Devices
      /\ at[h].step = s0
  BY <1>2, AtOnRoute, Routes DEF Routed, Steps
<1>4. at[h].user \in Users
  BY <1>3 DEF Earned
<1>5. CASE Goto(h, "drop") /\ ReadOnly
  BY <1>3, <1>5, ReadEarns DEF Registers, Steps
<1>6. CASE Issue(h, [at[h] EXCEPT !.step = "commit", !.reply = "ok"])
           /\ session' = session /\ tmp'.owner[at[h].device] = None
  <2>1. at'[h].step = "commit" /\ Same(at[h], at'[h])
    BY <1>3, <1>6 DEF Issue, TInv, SInv, ShapeOK, Request, Same
  <2> QED BY <1>3, <1>4, <1>6, <2>1 DEF Earns, Earned, Same, Registers
<1>7. CASE Exists(h)
  BY <1>5, <1>6, <1>7 DEF Exists, ReadOnly, store
<1>8. CASE DeleteDevice(h)
  <2>1. PICK n : n = Drop(tmp, {at[h].device})
    OBVIOUS
  <2>2. n.owner[at[h].device] = None
    <3>1. {at[h].device} \in SUBSET Devices
      BY <1>3
    <3> QED BY <1>3, <2>1, <3>1, Dropped
  <2> QED BY <1>1, <1>6, <1>8, <2>1, <2>2 DEF DeleteDevice, Write
<1> QED BY <1>7, <1>8

LEMMA BeginEarns ==
  ASSUME TInv, NEW h \in Handlers, Begin(h)
  PROVE  Earns(h)
<1>1. Turn(h, "begin") /\ session' = "open" /\ tmp' = tmp
  BY DEF Begin, Runs
<1>2. at[h].step = "begin" /\ "begin" \in Path(at[h].op) /\ Routed(at[h])
  BY <1>1, AtOnRoute DEF Steps
<1>3. at[h].op \in Transactional /\ at[h].user \in Users
  BY <1>2, Routes DEF Routed
<1>4. AfterBegin(at[h].op) \in Steps
  BY DEF AfterBegin, Steps
<1>5. at'[h].step = AfterBegin(at[h].op) /\ Same(at[h], at'[h])
  BY <1>4, GotoForm DEF Begin
<1> QED
  BY <1>1, <1>3, <1>5
  DEF Earns, Earned, Same, Registers, Gained, AfterBegin, Transactional, Bonding, Bonded

-------------------------------------------------------------------------------
\* That a request stays undisturbed is that it was, or that it begins alone.

\* All but BEGIN, COMMIT, ROLLBACK keep a request in its transaction, or out of it.
LEMMA StatementWithin ==
  ASSUME SInv, NEW h \in Handlers, Statement(h), ~Begin(h), ~Commit(h), ~CommitFails(h), ~Rollback(h)
  PROVE  Within(h)
<1>1. CASE Plain(h)
  BY <1>1, PlainWithin
<1>2. CASE \/ AddProfileRow(h, "user_details", "users_state")
           \/ AddProfileRow(h, "users_state", "users_settings")
           \/ AddProfileRow(h, "users_settings", AfterSettings(at[h].op))
  BY <1>2, AddProfileRowWithin DEF AfterSettings, Steps, BracketSteps
<1> QED
  BY <1>1, <1>2, WhoIsWithin, AddCodeWithin, AddCodeFailsWithin, RefusedWithin, AuthenticateWithin,
     ExistsWithin, DeleteDeviceWithin
  DEF Statement, Plain

LEMMA StatementEarns ==
  ASSUME TInv, UInv, NEW h \in Handlers, Statement(h), Undisturbed(h)', Undisturbed(h)
  PROVE  Earns(h)
<1>1. session = "open" /\ Earned(at[h], tmp) /\ InTransaction(h)
  BY DEF UInv, Undisturbed
<1>2. at'[h].step \notin {"idle", "rollback"}
  BY DEF Undisturbed, InTransaction
<1>3. ~(Begin(h) \/ Commit(h) \/ CommitFails(h) \/ Rollback(h) \/ Refused(h) \/ Authenticate(h))
  <2>1. ~(Begin(h) \/ Authenticate(h) \/ Refused(h))
    BY <1>1 DEF Begin, Authenticate, Refused, Runs, Turn, InTransaction
  <2>2. ~(Commit(h) \/ Rollback(h))
    BY <1>2, FinishServes DEF Commit, Rollback, TInv, SInv
  <2>3. ~CommitFails(h)
    BY <1>2, GotoForm DEF CommitFails, Steps
  <2> QED BY <2>1, <2>2, <2>3
<1>4. ~AddCodeFails(h)
  BY <1>2, ThrowForm DEF AddCodeFails
<1>5. CASE AddUser(h) \/ WhoIs(h) \/ Details(h) \/ Perceptions(h) \/ NoDetails(h) \/ AddCode(h)
  BY <1>1, <1>2, <1>5, AddUserEarns, WhoIsEarns, DetailsEarns, AddCodeEarns
<1>6. CASE \/ AddProfileRow(h, "user_details", "users_state")
           \/ AddProfileRow(h, "users_state", "users_settings")
           \/ AddProfileRow(h, "users_settings", AfterSettings(at[h].op))
  BY <1>1, <1>2, <1>6, AddProfileRowEarns
<1>7. CASE \/ Validate(h) \/ PeekOwn(h) \/ DropOwn(h) \/ PeekDevice(h) \/ DropDevice(h)
           \/ OwnerOf(h) \/ DevicesOf(h) \/ Bind(h) \/ Describe(h) \/ RegisterPublicKey(h)
           \/ Exists(h) \/ DeleteDevice(h)
  BY <1>1, <1>2, <1>7, ValidateEarns, SearchEarns, OwnerOfEarns, BindEarns, DeletionEarns
<1> QED BY <1>3, <1>4, <1>5, <1>6, <1>7 DEF Statement

\* A statement is at a step of its own.
LEMMA StatementTurn ==
  ASSUME NEW h \in Handlers, Statement(h)
  PROVE  \E s \in Steps \ {"idle"} : Turn(h, s)
<1>1. \A s : Runs(h, s) => Turn(h, s)
  BY DEF Runs
<1>2. CASE Begin(h) \/ Commit(h) \/ CommitFails(h) \/ Rollback(h) \/ Refused(h)
  BY <1>1, <1>2 DEF Begin, Commit, CommitFails, Rollback, Refused, Steps
<1>3. CASE \/ AddUser(h) \/ WhoIs(h) \/ Details(h) \/ Perceptions(h) \/ NoDetails(h)
           \/ AddCode(h) \/ AddCodeFails(h)
  BY <1>1, <1>3 DEF AddUser, WhoIs, Details, Perceptions, NoDetails, AddCode, AddCodeFails, Steps
<1>4. CASE \/ AddProfileRow(h, "user_details", "users_state")
           \/ AddProfileRow(h, "users_state", "users_settings")
           \/ AddProfileRow(h, "users_settings", AfterSettings(at[h].op))
  BY <1>1, <1>4 DEF AddProfileRow, Steps
<1>5. CASE Validate(h) \/ PeekOwn(h) \/ DropOwn(h) \/ PeekDevice(h) \/ DropDevice(h)
  BY <1>1, <1>5 DEF Validate, PeekOwn, DropOwn, PeekDevice, DropDevice, Steps
<1>6. CASE OwnerOf(h) \/ DevicesOf(h) \/ Bind(h) \/ Describe(h) \/ RegisterPublicKey(h)
  BY <1>1, <1>6 DEF OwnerOf, DevicesOf, Bind, Describe, RegisterPublicKey, Steps
<1>7. CASE Authenticate(h) \/ Exists(h) \/ DeleteDevice(h)
  BY <1>1, <1>7 DEF Authenticate, Exists, DeleteDevice, Steps
<1> QED BY <1>2, <1>3, <1>4, <1>5, <1>6, <1>7 DEF Statement

LEMMA StatementCrowds ==
  ASSUME NEW h \in Handlers, Statement(h)
  PROVE  crowded \subseteq crowded'
<1>1. CASE Begin(h)
  BY <1>1 DEF Begin
<1>2. CASE crowded' = crowded
  BY <1>2
<1> QED
  BY <1>1, <1>2
  DEF Statement, Commit, CommitFails, Rollback, Refused, AddUser, AddProfileRow, WhoIs, Details,
      Perceptions, NoDetails, AddCode, AddCodeFails, Validate, PeekOwn, DropOwn, PeekDevice,
      DropDevice, OwnerOf, DevicesOf, Bind, Describe, RegisterPublicKey, Authenticate, Exists,
      DeleteDevice, history

\* At these steps a request that goes on begins its transaction.
LEMMA EarlyStatement ==
  ASSUME NEW h \in Handlers, Statement(h), at[h].step \in {"begin", "auth", "rollback"},
         ~Throw(h), ~Finish(h, "error"), ~Goto(h, "begin")
  PROVE  Begin(h)
<1> USE DEF Runs, Turn
<1>1. ~(Commit(h) \/ CommitFails(h) \/ Rollback(h) \/ Refused(h) \/ Authenticate(h))
  BY DEF Commit, CommitFails, Rollback, Refused, Authenticate
<1>2. ~(\/ AddUser(h) \/ WhoIs(h) \/ Details(h) \/ Perceptions(h) \/ NoDetails(h)
        \/ AddCode(h) \/ AddCodeFails(h))
  BY DEF AddUser, WhoIs, Details, Perceptions, NoDetails, AddCode, AddCodeFails
<1>3. ~(\/ AddProfileRow(h, "user_details", "users_state")
        \/ AddProfileRow(h, "users_state", "users_settings")
        \/ AddProfileRow(h, "users_settings", AfterSettings(at[h].op)))
  BY DEF AddProfileRow
<1>4. ~(Validate(h) \/ PeekOwn(h) \/ DropOwn(h) \/ PeekDevice(h) \/ DropDevice(h))
  BY DEF Validate, PeekOwn, DropOwn, PeekDevice, DropDevice
<1>5. ~(\/ OwnerOf(h) \/ DevicesOf(h) \/ Bind(h) \/ Describe(h) \/ RegisterPublicKey(h)
        \/ Exists(h) \/ DeleteDevice(h))
  BY DEF OwnerOf, DevicesOf, Bind, Describe, RegisterPublicKey, Exists, DeleteDevice
<1> QED BY <1>1, <1>2, <1>3, <1>4, <1>5 DEF Statement

LEMMA StatementUndisturbed ==
  ASSUME TInv, UInv, NEW h \in Handlers, Statement(h), NEW g \in Handlers, Undisturbed(g)'
  PROVE  (\A k \in Handlers \ {g} : at'[k].step = "idle") /\ session' = "open" /\ Earned(at'[g], tmp')
<1>1. at[h].step # "idle" /\ \A k \in Handlers \ {h} : at'[k] = at[k]
  <2>1. Continues(h)
    BY TransactionRouted, AccountRouted, CodeRouted, DeviceRouted, DeletionRouted DEF Statement
  <2>2. \E s \in Steps \ {"idle"} : Turn(h, s)
    BY StatementTurn
  <2> QED BY <2>1, <2>2 DEF Continues, Turn
<1>2. crowded \subseteq crowded'
  BY StatementCrowds
<1>3. CASE g # h
  <2>1. Undisturbed(g)
    BY <1>1, <1>2, <1>3 DEF Undisturbed, InTransaction
  <2> QED BY <1>1, <1>3, <2>1 DEF UInv
<1>4. CASE g = h /\ Undisturbed(h)
  <2>1. Earns(h)
    BY <1>4, StatementEarns
  <2> QED BY <1>1, <1>4, <2>1 DEF UInv, Earns
<1>5. CASE g = h /\ ~Undisturbed(h)
  <2>1. h \notin crowded /\ h \notin crowded' /\ InTransaction(h)' /\ at'[h].step # "rollback"
    BY <1>2, <1>5 DEF Undisturbed
  <2>2. Begin(h)
    <3>1. at'[h].op = at[h].op
      BY TransactionRouted, AccountRouted, CodeRouted, DeviceRouted, DeletionRouted
      DEF Statement, Continues
    <3>2. at[h].step \in {"begin", "auth", "rollback"}
      BY <1>1, <2>1, <1>5, <3>1 DEF Undisturbed, InTransaction
    <3>3. ~Throw(h) /\ ~Finish(h, "ok") /\ ~Finish(h, "error")
      BY <2>1, ThrowForm, FinishServes DEF InTransaction, TInv, SInv
    <3>4. ~Goto(h, "begin")
      BY <2>1, GotoForm DEF InTransaction, Steps
    <3> QED BY <3>2, <3>3, <3>4, EarlyStatement
  <2>3. Earns(h)
    BY <2>2, BeginEarns
  <2>4. \A k \in Handlers \ {h} : at[k].step = "idle"
    BY <2>1, <2>2 DEF Begin
  <2> QED BY <1>1, <1>5, <2>3, <2>4 DEF Earns
<1> QED BY <1>3, <1>4, <1>5

\* A deletion answers before COMMIT, which is then all that is left of it.
LEMMA DeletionCommits ==
  ASSUME NEW h \in Handlers, Statement(h), at[h].op = "delete", at[h].step = "commit"
  PROVE  Commit(h)
<1> USE DEF Runs, Turn
<1>1. ~(Begin(h) \/ CommitFails(h) \/ Rollback(h) \/ Refused(h) \/ Authenticate(h))
  BY DEF Begin, CommitFails, Rollback, Refused, Authenticate
<1>2. ~(\/ AddUser(h) \/ WhoIs(h) \/ Details(h) \/ Perceptions(h) \/ NoDetails(h)
        \/ AddCode(h) \/ AddCodeFails(h))
  BY DEF AddUser, WhoIs, Details, Perceptions, NoDetails, AddCode, AddCodeFails
<1>3. ~(\/ AddProfileRow(h, "user_details", "users_state")
        \/ AddProfileRow(h, "users_state", "users_settings")
        \/ AddProfileRow(h, "users_settings", AfterSettings(at[h].op)))
  BY DEF AddProfileRow
<1>4. ~(Validate(h) \/ PeekOwn(h) \/ DropOwn(h) \/ PeekDevice(h) \/ DropDevice(h))
  BY DEF Validate, PeekOwn, DropOwn, PeekDevice, DropDevice
<1>5. ~(\/ OwnerOf(h) \/ DevicesOf(h) \/ Bind(h) \/ Describe(h) \/ RegisterPublicKey(h)
        \/ Exists(h) \/ DeleteDevice(h))
  BY DEF OwnerOf, DevicesOf, Bind, Describe, RegisterPublicKey, Exists, DeleteDevice
<1> QED BY <1>1, <1>2, <1>3, <1>4, <1>5 DEF Statement

\* Who answers before he ends.
LEMMA StatementSilent ==
  ASSUME TInv, UInv, NEW h \in Handlers, Statement(h)
  PROVE  \A k \in Handlers : Silent(at'[k])
<1>1. at[h].step # "idle" /\ Silent(at[h]) /\ ((at[h].op = "delete" /\ at[h].step = "commit") \/ at[h].reply = "none")
  BY StatementTurn DEF UInv, Silent, Turn
<1>2. \A k \in Handlers \ {h} : at'[k] = at[k]
  BY TransactionRouted, AccountRouted, CodeRouted, DeviceRouted, DeletionRouted DEF Statement, Continues
<1>3. SUFFICES Silent(at'[h])
  BY <1>2 DEF UInv
<1>4. CASE at[h].op = "delete" /\ at[h].step = "commit"
  <2>1. Commit(h)
    BY <1>4, DeletionCommits
  <2> QED BY <2>1, FinishServes DEF Commit, Silent, TInv, SInv
<1>5. CASE at[h].reply = "none"
  <2>1. CASE Finish(h, "ok") \/ Finish(h, "error")
    BY <2>1, FinishServes DEF Silent, TInv, SInv
  <2>2. ASSUME NEW s \in Steps, Goto(h, s) PROVE Silent(at'[h])
    BY <1>5, <2>2, GotoForm DEF Silent
  <2>3. CASE Throw(h)
    BY <2>1, <2>2, <2>3 DEF Throw, Steps
  <2>4. CASE WhoIs(h)
    <3>1. at'[h].reply = at[h].reply
      BY <2>4 DEF WhoIs, Issue, TInv, SInv, ShapeOK, Request
    <3> QED BY <1>5, <3>1 DEF Silent
  <2>5. CASE Exists(h) \/ DeleteDevice(h)
    <3>1. at[h].op = "delete"
      BY <2>5, AtOnRoute, Routes DEF Exists, DeleteDevice, Runs, Steps
    <3>2. CASE Issue(h, [at[h] EXCEPT !.step = "commit", !.reply = "ok"])
      BY <3>1, <3>2 DEF Issue, TInv, SInv, ShapeOK, Request, Silent
    <3> QED BY <2>2, <2>3, <2>5, <3>2 DEF Exists, DeleteDevice, Steps
  <2>6. CASE Begin(h) \/ Commit(h) \/ CommitFails(h) \/ Rollback(h) \/ Refused(h)
    <3>1. AfterBegin(at[h].op) \in Steps
      BY DEF AfterBegin, Steps
    <3> QED BY <2>1, <2>2, <2>3, <2>6, <3>1 DEF Begin, Commit, CommitFails, Rollback, Refused, Steps
  <2>7. CASE \/ AddUser(h) \/ Details(h) \/ Perceptions(h) \/ NoDetails(h) \/ AddCode(h)
             \/ AddCodeFails(h)
             \/ AddProfileRow(h, "user_details", "users_state")
             \/ AddProfileRow(h, "users_state", "users_settings")
             \/ AddProfileRow(h, "users_settings", AfterSettings(at[h].op))
    <3>1. AfterSettings(at[h].op) \in Steps
      BY DEF AfterSettings, Steps
    <3> QED
      BY <2>1, <2>2, <2>3, <2>7, <3>1
      DEF AddUser, Details, Perceptions, NoDetails, AddCode, AddCodeFails, AddProfileRow, Insert, Steps
  <2>8. CASE \/ Validate(h) \/ PeekOwn(h) \/ DropOwn(h) \/ PeekDevice(h) \/ DropDevice(h)
             \/ OwnerOf(h) \/ DevicesOf(h) \/ Bind(h) \/ Describe(h) \/ RegisterPublicKey(h)
             \/ Authenticate(h)
    BY <2>1, <2>2, <2>3, <2>8
    DEF Validate, PeekOwn, DropOwn, PeekDevice, DropDevice, OwnerOf, DevicesOf, Bind, Describe,
        RegisterPublicKey, Authenticate, Steps
  <2> QED BY <2>4, <2>5, <2>6, <2>7, <2>8 DEF Statement
<1> QED BY <1>1, <1>4, <1>5

LEMMA UInvKept ==
  ASSUME TInv, UInv, [Next]_vars
  PROVE  UInv'
<1>1. ASSUME UNCHANGED <<at, session, tmp, crowded>> PROVE UInv'
  BY <1>1 DEF UInv, Undisturbed, InTransaction
<1>2. CASE UNCHANGED vars \/ \E c \in Codes : Elapse(c)
  BY <1>1, <1>2 DEF vars, Elapse, store, history
<1>3. ASSUME NEW h \in Handlers, Arrive(h) PROVE UInv'
  <2>1. PICK r : /\ at' = [at EXCEPT ![h] = r] /\ at[h].step = "idle"
                 /\ r.step = Start(r.op) /\ r.reply = "none"
                 /\ crowded' = (crowded \ {h}) \cup {g \in Handlers : InTransaction(g)}
                 /\ UNCHANGED <<db, tmp, session>>
    BY <1>3 DEF Arrive, Receive, store
  <2>2. at'[h] = r /\ \A k \in Handlers \ {h} : at'[k] = at[k]
    BY <2>1 DEF TInv, SInv, ShapeOK
  <2>3. \A g \in Handlers : ~Undisturbed(g)'
    <3>1. ASSUME NEW g \in Handlers \ {h} PROVE ~Undisturbed(g)'
      BY <2>1, <2>2, <3>1 DEF Undisturbed, InTransaction
    <3>2. ~Undisturbed(h)'
      BY <2>1, <2>2 DEF Undisturbed, InTransaction, Start, Transactional
    <3> QED BY <3>1, <3>2
  <2>4. \A k \in Handlers : Silent(at'[k])
    BY <2>1, <2>2 DEF UInv, Silent
  <2> QED BY <2>3, <2>4 DEF UInv
<1>4. ASSUME NEW h \in Handlers, Statement(h) PROVE UInv'
  BY <1>4, StatementUndisturbed, StatementSilent DEF UInv
<1>5. CASE Crash
  <2>1. \A k \in Handlers : at'[k] = Fresh
    BY <1>5 DEF Crash
  <2> QED BY <2>1 DEF UInv, Silent, Undisturbed, InTransaction, Fresh
<1> QED BY <1>2, <1>3, <1>4, <1>5 DEF Next

LEMMA DoneAlone ==
  ASSUME TInv, UInv, [Next]_vars, NEW h \in Handlers, InTransaction(h), h \notin crowded,
         at'[h].op = at[h].op, at'[h].step = "idle", at'[h].reply = "ok"
  PROVE  Effect(at[h], db')
<1>1. at[h].step # "idle" /\ at[h].op # "none"
  BY DEF InTransaction, Transactional
<1>2. ~(UNCHANGED vars \/ (\E c \in Codes : Elapse(c)) \/ Crash)
  BY <1>1 DEF vars, Elapse, Crash, Fresh
<1>3. ASSUME NEW k \in Handlers, Arrive(k) PROVE FALSE
  BY <1>1, <1>3 DEF Arrive, Receive, TInv, SInv, ShapeOK
<1>4. PICK k \in Handlers : Statement(k)
  BY <1>2, <1>3 DEF Next
<1>5. k = h
  <2>1. Continues(k)
    BY <1>4, TransactionRouted, AccountRouted, CodeRouted, DeviceRouted, DeletionRouted DEF Statement
  <2> QED BY <1>1, <2>1 DEF Continues
<1>6. Commit(h)
  <2>1. ~Within(h)
    BY DEF Within, InTransaction
  <2>2. ~CommitFails(h)
    BY GotoForm DEF CommitFails, Steps
  <2>3. ~Rollback(h)
    <3>1. ASSUME Rollback(h) PROVE FALSE
      <4>1. at[h].step = "rollback" /\ Finish(h, "error")
        BY <3>1 DEF Rollback, Turn
      <4>2. at[h].reply = "none"
        BY <4>1 DEF UInv, Silent
      <4> QED BY <4>1, <4>2 DEF Finish, First, TInv, SInv, ShapeOK, Request
    <3> QED BY <3>1
  <2>4. ~Begin(h)
    BY DEF Begin, Runs, Turn, InTransaction
  <2> QED BY <1>4, <1>5, <2>1, <2>2, <2>3, <2>4, StatementWithin DEF TInv
<1>7. at[h].step = "commit"
  BY <1>6 DEF Commit, Turn
<1>8. session = "open" /\ Earned(at[h], tmp)
  BY <1>7 DEF UInv, Undisturbed
<1>9. db' = tmp
  BY <1>6, <1>8 DEF Commit
<1>10. at[h].op \in Transactional
  BY DEF InTransaction
<1>11. CASE Registers(at[h])
  BY <1>7, <1>8, <1>9, <1>11 DEF Earned, Effect, Registers, Gained, Complete
<1>12. CASE at[h].op = "verify"
  BY <1>7, <1>8, <1>9, <1>12 DEF Earned, Effect, Bonded
<1>13. CASE at[h].op = "delete"
  BY <1>7, <1>8, <1>9, <1>13, NoneIsNoUser DEF Earned, Effect
<1> QED BY <1>10, <1>11, <1>12, <1>13 DEF Registers, Transactional

\* A request that ran beside no other and was answered 200 is done, whatever requests
\* ran together before it and however they failed: for any number of requests in
\* progress, with no assumption of how they come.
THEOREM AloneRequestsAreDone == Spec => AloneIsDone
<1>1. Init => UInv
  BY DEF Init, UInv, Silent, Undisturbed, InTransaction, Fresh
<1>2. TInv /\ UInv /\ [Next]_vars => UInv'
  BY UInvKept
<1>3. TInv /\ UInv /\ [Next]_vars =>
        [\A h \in Handlers :
           (/\ InTransaction(h) /\ h \notin crowded
            /\ at'[h].op = at[h].op /\ at'[h].step = "idle" /\ at'[h].reply = "ok")
           => Effect(at[h], db')]_vars
  BY DoneAlone
<1> QED BY <1>1, <1>2, <1>3, InitTInv, TInvKept, PTL DEF Spec, AloneIsDone
===============================================================================
