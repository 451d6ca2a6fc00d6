------------------------------- MODULE AuthServer -------------------------------
(***************************************************************************)
(* The Node service that registers users and binds their devices.  Its     *)
(* handlers are asynchronous and share ONE Postgres connection             *)
(* (common/db/db.ts): the pg client sends their statements one at a time,  *)
(* in the order they were issued, and a handler issues its next statement  *)
(* when the previous one has answered.  BEGIN, COMMIT and ROLLBACK are     *)
(* statements like any other, so what withSerializableTransaction opens    *)
(* for one handler is also what the statements of the others run in.       *)
(*                                                                         *)
(* One action is one statement.  In an open transaction a failing          *)
(* statement aborts it; in an aborted one every statement fails but COMMIT *)
(* and ROLLBACK, and COMMIT then rolls back without an error; BEGIN inside *)
(* a transaction, and COMMIT or ROLLBACK outside one, only warn.           *)
(*                                                                         *)
(* A user stands for a username with its e-mail address and phone number,  *)
(* a device for the key pair it generated: its public key is the device.   *)
(* Requests that validation turns away before any statement are left out.  *)
(***************************************************************************)
EXTENDS Sequences

CONSTANTS
    Users,      \* usernames, each with one e-mail address and one phone number
    Devices,    \* device ids, each with its public key
    Codes,      \* verification codes: bounds the codes ever sent
    Members,    \* users with a complete account, and no device, when the service starts
    Handlers,   \* requests that can be in progress at the same time
    None        \* SQL NULL

ASSUME NoneIsNoUser == None \notin Users
ASSUME NoneIsNoDevice == None \notin Devices
ASSUME NoneIsNoCode == None \notin Codes
ASSUME MembersAreUsers == Members \subseteq Users

VARIABLES
    db,         \* the committed tables
    tmp,        \* the tables as the shared session sees them
    session,    \* the transaction status of the shared connection
    queue,      \* the pg client's queue: the handlers whose statement is pending
    at,         \* the request of each handler and the statement it issued
    late,       \* the codes whose expiration_timestamp has passed
    issued,     \* history: the codes made and handed to the notifications exchange
    crowded,    \* history: the handlers whose transaction another request ran beside
    promised,   \* history: the codes whose login or registration was answered 200
    redeemed    \* history: the codes whose verification was answered 200

vars == <<db, tmp, session, queue, at, late, issued, crowded, promised, redeemed>>
store == <<db, tmp, session>>
history == <<issued, crowded, promised, redeemed>>

-------------------------------------------------------------------------------
\* Data.

\* The rows a complete account consists of.
ProfileTables == {"users", "user_details", "users_state", "users_settings"}

Tables == [
    rows: SUBSET (Users \X ProfileTables),
    code: [Codes -> [of: Users \cup {None}, used: BOOLEAN]],  \* users_verification
    owner: [Devices -> Users \cup {None}],                    \* users_devices, owner = true
    known: SUBSET Devices,                                    \* devices
    key: [Users -> Devices \cup {None}]]                      \* users_identity

Initial == [rows |-> Members \X ProfileTables, code |-> [c \in Codes |-> [of |-> None, used |-> FALSE]],
            owner |-> [d \in Devices |-> None], known |-> {}, key |-> [u \in Users |-> None]]

Registered(t, u) == <<u, "users">> \in t.rows
Complete(t, u) == \A r \in ProfileTables : <<u, r>> \in t.rows
OwnedBy(t, u) == {d \in Devices : u # None /\ t.owner[d] = u}

\* DELETE FROM users_devices; the rows of devices go by cascade.
Drop(t, ds) == [t EXCEPT !.owner = [d \in Devices |-> IF d \in ds THEN None ELSE @[d]],
                         !.known = @ \ ds]

Ops == {"login", "loginSms", "register", "registerSms", "verify", "delete"}
Transactional == {"register", "registerSms", "verify", "delete"}

\* The statements, by what they do.
Steps == {"idle", "begin", "commit", "rollback", "auth",
    "user_details", "users_state", "users_settings", "users",
    "whois", "details", "perceptions", "noDetails", "addCode",
    "validate", "peekOwn", "dropOwn", "peekDevice", "dropDevice",
    "ownerOf", "devicesOf", "bind", "describe", "key", "exists", "drop"}

Request == [op: Ops \cup {"none"}, step: Steps, user: Users \cup {None},
            device: Devices \cup {None}, code: Codes \cup {None}, wipe: BOOLEAN,
            reply: {"none", "ok", "error"}]
Fresh == [op |-> "none", step |-> "idle", user |-> None, device |-> None,
          code |-> None, wipe |-> FALSE, reply |-> "none"]

Init ==
    /\ db = Initial
    /\ tmp = Initial
    /\ session = "idle"
    /\ queue = <<>>
    /\ at = [h \in Handlers |-> Fresh]
    /\ late = {}
    /\ issued = {} /\ crowded = {} /\ promised = {} /\ redeemed = {}

-------------------------------------------------------------------------------
\* The connection.

\* The statement of h is the one the connection executes now.
Turn(h, s) == queue # <<>> /\ Head(queue) = h /\ at[h].step = s

\* A statement of h that the session's transaction lets run.
Runs(h, s) == Turn(h, s) /\ session # "aborted"

\* The statement has changed the tables to t; outside a transaction that is final.
Write(t) == /\ tmp' = t
            /\ db' = IF session = "idle" THEN t ELSE db
            /\ UNCHANGED session

ReadOnly == UNCHANGED store

\* The statement has failed.
Broken == /\ session' = IF session = "open" THEN "aborted" ELSE session
          /\ UNCHANGED <<db, tmp>>

\* h issues its next statement, in what has become of its request.
Issue(h, r) == /\ at' = [at EXCEPT ![h] = r]
               /\ queue' = Append(Tail(queue), h)

Goto(h, s) == Issue(h, [at[h] EXCEPT !.step = s])

\* The answer a client has got is final: send after send is an error nobody sees.
First(r, answer) == IF r.reply = "none" THEN answer ELSE r.reply

\* h answers and issues nothing more.
Finish(h, answer) ==
    /\ at' = [at EXCEPT ![h].step = "idle", ![h].reply = First(at[h], answer)]
    /\ queue' = Tail(queue)

\* The handler throws: withSerializableTransaction rolls back first,
\* withErrorBoundary answers.
Throw(h) == IF at[h].op \in Transactional /\ at[h].step # "auth"
            THEN Goto(h, "rollback")
            ELSE Finish(h, "error")

-------------------------------------------------------------------------------
\* Requests.

\* The request of h has begun its transaction, and not ended it.
InTransaction(h) ==
    at[h].op \in Transactional /\ at[h].step \notin {"idle", "begin", "auth"}

\* The first statement of each handler.
Start(op) == CASE op = "login" -> "whois"
               [] op = "loginSms" -> "addCode"
               [] op = "delete" -> "auth"
               [] OTHER -> "begin"

Receive(h, op, u, d, c, wipe) ==
    /\ at[h].step = "idle"
    /\ at' = [at EXCEPT ![h] = [op |-> op, step |-> Start(op), user |-> u, device |-> d,
                                code |-> c, wipe |-> wipe, reply |-> "none"]]
    /\ queue' = Append(queue, h)
    /\ crowded' = (crowded \ {h}) \cup {g \in Handlers : InTransaction(g)}
    /\ UNCHANGED <<store, late, issued, promised, redeemed>>

\* A code that createVerificationCode has not come up with yet.
NewCode(c) == c \notin issued /\ \A h \in Handlers : at[h].step = "idle" \/ at[h].code # c

\* POST /login, POST /register, DELETE /me/devices/:deviceId with some token,
\* POST /user/verify/:emailOrPhone with some code.
Arrive(h) ==
    \/ \E u \in Users, c \in Codes, op \in {"login", "loginSms", "register", "registerSms"} :
           NewCode(c) /\ Receive(h, op, u, None, c, FALSE)
    \/ \E u \in Users, d \in Devices : Receive(h, "delete", u, d, None, FALSE)
    \/ \E u \in Users, d \in Devices, c \in Codes, wipe \in BOOLEAN :
           Receive(h, "verify", u, d, c, wipe)

\* 60 minutes after it was made a code no longer verifies.
Elapse(c) ==
    /\ c \in issued \ late
    /\ late' = late \cup {c}
    /\ UNCHANGED <<store, queue, at, history>>

-------------------------------------------------------------------------------
\* withSerializableTransaction.

AfterBegin(op) == CASE op \in {"register", "registerSms"} -> "users"
                    [] op = "verify" -> "validate"
                    [] OTHER -> "exists"

\* Mutant of Begin: the statements of the body run without a transaction.
BeginMissing(h) ==
    /\ Runs(h, "begin")
    /\ Goto(h, AfterBegin(at[h].op))
    /\ UNCHANGED <<store, late, history>>

Begin(h) ==
    /\ Runs(h, "begin")
    /\ session' = "open"
    /\ Goto(h, AfterBegin(at[h].op))
    /\ crowded' = IF \E g \in Handlers \ {h} : at[g].step # "idle" THEN crowded \cup {h} ELSE crowded
    /\ UNCHANGED <<db, tmp, late, issued, promised, redeemed>>

\* COMMIT, and the answer 200 of the handlers that have not sent it yet.
Commit(h) ==
    /\ Turn(h, "commit")
    /\ session' = "idle"
    /\ IF session = "aborted" THEN tmp' = db /\ UNCHANGED db
                              ELSE db' = tmp /\ UNCHANGED tmp
    /\ Finish(h, "ok")
    /\ promised' = promised \cup IF at[h].op \in {"register", "registerSms"} THEN {at[h].code} ELSE {}
    /\ redeemed' = redeemed \cup IF at[h].op = "verify" THEN {at[h].code} ELSE {}
    /\ UNCHANGED <<late, issued, crowded>>

\* Mutant of CommitFails: COMMIT is not awaited, so its error reaches nobody.
CommitFailsUnawaited(h) ==
    /\ Turn(h, "commit")
    /\ session = "open"
    /\ at[h].op = "verify"
    /\ session' = "idle"
    /\ tmp' = db
    /\ Finish(h, "ok")
    /\ UNCHANGED <<db, late, history>>

\* COMMIT of a verification loses to a serializable accept of the invitations
\* service, which reads users_identity and writes users_followers_state.
CommitFails(h) ==
    /\ Turn(h, "commit")
    /\ session = "open"
    /\ at[h].op = "verify"
    /\ session' = "idle"
    /\ tmp' = db
    /\ Goto(h, "rollback")
    /\ UNCHANGED <<db, late, history>>

\* Mutant of Rollback: the catch block answers and leaves the transaction as it is.
RollbackMissing(h) ==
    /\ Turn(h, "rollback")
    /\ Finish(h, "error")
    /\ UNCHANGED <<store, late, history>>

\* Mutant of Rollback: the error is thrown past withErrorBoundary, and Express never answers.
RollbackUnanswered(h) ==
    /\ Turn(h, "rollback")
    /\ session' = "idle"
    /\ tmp' = db
    /\ queue' = Tail(queue)
    /\ UNCHANGED <<db, at, late, history>>

Rollback(h) ==
    /\ Turn(h, "rollback")
    /\ session' = "idle"
    /\ tmp' = db
    /\ Finish(h, "error")
    /\ UNCHANGED <<db, late, history>>

\* Any other statement in an aborted transaction.
Refused(h) ==
    /\ session = "aborted"
    /\ \E s \in Steps \ {"idle", "commit", "rollback"} : Turn(h, s)
    /\ Throw(h)
    /\ UNCHANGED <<store, late, history>>

-------------------------------------------------------------------------------
\* registerWithEmail, registerWithPhone.

\* A statement that inserts row r of the user, and the statement after it.
Insert(h, r, next) ==
    /\ Write([tmp EXCEPT !.rows = @ \cup {<<at[h].user, r>>}])
    /\ Goto(h, next)

\* The first INSERT of a registration: the username or the address may be taken.
AddUser(h) ==
    /\ Runs(h, "users")
    /\ IF Registered(tmp, at[h].user)
       THEN Broken /\ Throw(h)
       ELSE Insert(h, "users", "user_details")
    /\ UNCHANGED <<late, history>>

AfterSettings(op) == IF op = "register" THEN "whois" ELSE "addCode"

\* The other rows, each with a foreign key to users.
AddProfileRow(h, r, next) ==
    /\ Runs(h, r)
    /\ IF ~Registered(tmp, at[h].user) \/ <<at[h].user, r>> \in tmp.rows
       THEN Broken /\ Throw(h)
       ELSE Insert(h, r, next)
    /\ UNCHANGED <<late, history>>

-------------------------------------------------------------------------------
\* createAndSendVerificationEmail, createAndSendVerificationSms.

\* getUsername.  An unknown address yields undefined for a username, which no
\* caller notices before a later statement fails.
WhoIs(h) ==
    /\ Runs(h, "whois")
    /\ Issue(h, [at[h] EXCEPT
           !.user = IF Registered(tmp, @) THEN @ ELSE None,
           !.step = CASE at[h].op # "verify" -> "details"
                      [] at[h].op = "verify" /\ at[h].wipe -> "peekOwn"
                      [] at[h].op = "verify" /\ ~at[h].wipe -> "ownerOf"])
    /\ ReadOnly
    /\ UNCHANGED <<late, history>>

\* getUserDetails: two SELECTs, and an error when the first found no complete account.
Details(h) ==
    /\ Runs(h, "details")
    /\ Goto(h, IF Complete(tmp, at[h].user) THEN "perceptions" ELSE "noDetails")
    /\ ReadOnly
    /\ UNCHANGED <<late, history>>

Perceptions(h) ==
    /\ Runs(h, "perceptions")
    /\ Goto(h, IF at[h].op = "verify" THEN "commit" ELSE "addCode")
    /\ ReadOnly
    /\ UNCHANGED <<late, history>>

NoDetails(h) ==
    /\ Runs(h, "noDetails")
    /\ Throw(h)
    /\ ReadOnly
    /\ UNCHANGED <<late, history>>

\* users_verification.email refers to users, its phone_number to nothing.
Addressed(h) == at[h].op \in {"login", "register"} => Registered(tmp, at[h].user)

\* Mutant of AddCode: the registration is answered inside its transaction, as deleteDevice is.
AddCodeAnswersEarly(h) ==
    /\ Runs(h, "addCode")
    /\ Addressed(h)
    /\ Write([tmp EXCEPT !.code[at[h].code] = [of |-> at[h].user, used |-> FALSE]])
    /\ issued' = issued \cup {at[h].code}
    /\ promised' = promised \cup {at[h].code}
    /\ IF at[h].op \in Transactional THEN Goto(h, "commit") ELSE Finish(h, "ok")
    /\ UNCHANGED <<late, crowded, redeemed>>

\* createEmailVerificationRequest or createSmsVerificationRequest, and the message
\* to the notifications exchange; a login then answers 200, a registration has
\* its COMMIT still to come.  Without an open channel sendMessage throws.
AddCode(h) ==
    /\ Runs(h, "addCode")
    /\ Addressed(h)
    /\ Write([tmp EXCEPT !.code[at[h].code] = [of |-> at[h].user, used |-> FALSE]])
    /\ issued' = issued \cup {at[h].code}
    /\ \/ at[h].op \in Transactional /\ Goto(h, "commit") /\ UNCHANGED promised
       \/ at[h].op \notin Transactional /\ Finish(h, "ok") /\ promised' = promised \cup {at[h].code}
       \/ Throw(h) /\ UNCHANGED promised
    /\ UNCHANGED <<late, crowded, redeemed>>

\* The foreign key is violated.
AddCodeFails(h) ==
    /\ Runs(h, "addCode")
    /\ ~Addressed(h)
    /\ Broken
    /\ Throw(h)
    /\ UNCHANGED <<late, history>>

-------------------------------------------------------------------------------
\* verifyCode.

\* Mutant of Validate: a SELECT of the code where the UPDATE was.
ValidateUnspent(h) ==
    /\ Runs(h, "validate")
    /\ LET c == at[h].code
       IN  IF tmp.code[c] = [of |-> at[h].user, used |-> FALSE] /\ c \notin late
           THEN Goto(h, "whois")
           ELSE Throw(h)
    /\ ReadOnly
    /\ UNCHANGED <<late, history>>

\* validateVerificationRequest: one UPDATE of the unused, unexpired code.
Validate(h) ==
    /\ Runs(h, "validate")
    /\ LET c == at[h].code
       IN  IF tmp.code[c] = [of |-> at[h].user, used |-> FALSE] /\ c \notin late
           THEN Write([tmp EXCEPT !.code[c].used = TRUE]) /\ Goto(h, "whois")
           ELSE ReadOnly /\ Throw(h)
    /\ UNCHANGED <<late, history>>

\* deletePreviousDevices: a SELECT, then a DELETE if it found any.
PeekOwn(h) ==
    /\ Runs(h, "peekOwn")
    /\ Goto(h, IF OwnedBy(tmp, at[h].user) # {} THEN "dropOwn" ELSE "peekDevice")
    /\ ReadOnly
    /\ UNCHANGED <<late, history>>

DropOwn(h) ==
    /\ Runs(h, "dropOwn")
    /\ Write(Drop(tmp, OwnedBy(tmp, at[h].user)))
    /\ Goto(h, "peekDevice")
    /\ UNCHANGED <<late, history>>

\* unassociateDeviceFromOtherUsers, likewise.
PeekDevice(h) ==
    /\ Runs(h, "peekDevice")
    /\ Goto(h, IF tmp.owner[at[h].device] # None THEN "dropDevice" ELSE "ownerOf")
    /\ ReadOnly
    /\ UNCHANGED <<late, history>>

DropDevice(h) ==
    /\ Runs(h, "dropDevice")
    /\ Write(Drop(tmp, {at[h].device}))
    /\ Goto(h, "ownerOf")
    /\ UNCHANGED <<late, history>>

\* registerDevice: who owns the device?
OwnerOf(h) ==
    /\ Runs(h, "ownerOf")
    /\ LET o == tmp.owner[at[h].device]
       IN  \/ o = None /\ Goto(h, "devicesOf")
           \/ o # None /\ o = at[h].user /\ Goto(h, "key")
           \/ o # None /\ o # at[h].user /\ Throw(h)
    /\ ReadOnly
    /\ UNCHANGED <<late, history>>

\* Mutant of DevicesOf: ThereIsAnotherDeviceRegistered is not raised.
DevicesOfIgnored(h) ==
    /\ Runs(h, "devicesOf")
    /\ Goto(h, "bind")
    /\ ReadOnly
    /\ UNCHANGED <<late, history>>

\* Does the user own another?
DevicesOf(h) ==
    /\ Runs(h, "devicesOf")
    /\ IF OwnedBy(tmp, at[h].user) # {} THEN Throw(h) ELSE Goto(h, "bind")
    /\ ReadOnly
    /\ UNCHANGED <<late, history>>

\* INSERT INTO users_devices: the user must exist, the device must be nobody's.
Bind(h) ==
    /\ Runs(h, "bind")
    /\ IF Registered(tmp, at[h].user) /\ tmp.owner[at[h].device] = None
       THEN /\ Write([tmp EXCEPT !.owner[at[h].device] = at[h].user])
            /\ Goto(h, "describe")
       ELSE Broken /\ Throw(h)
    /\ UNCHANGED <<late, history>>

\* INSERT INTO devices, with its foreign key to users_devices.
Describe(h) ==
    /\ Runs(h, "describe")
    /\ IF tmp.owner[at[h].device] # None /\ at[h].device \notin tmp.known
       THEN /\ Write([tmp EXCEPT !.known = @ \cup {at[h].device}])
            /\ Goto(h, "key")
       ELSE Broken /\ Throw(h)
    /\ UNCHANGED <<late, history>>

\* Mutant of RegisterPublicKey: ON CONFLICT DO NOTHING.
RegisterFirstKey(h) ==
    /\ Runs(h, "key")
    /\ IF tmp.key[at[h].user] = None
       THEN Write([tmp EXCEPT !.key[at[h].user] = at[h].device])
       ELSE ReadOnly
    /\ Goto(h, "details")
    /\ UNCHANGED <<late, history>>

\* registerPublicKey: an upsert.
RegisterPublicKey(h) ==
    /\ Runs(h, "key")
    /\ IF Registered(tmp, at[h].user)
       THEN /\ Write([tmp EXCEPT !.key[at[h].user] = at[h].device])
            /\ Goto(h, "details")
       ELSE Broken /\ Throw(h)
    /\ UNCHANGED <<late, history>>

-------------------------------------------------------------------------------
\* deleteDevice.

\* decodeJwtToken: the token verifies with the key registered for the user, or
\* it does not (another device signed it, or there is no key).
Authenticate(h) ==
    /\ Runs(h, "auth")
    /\ \/ tmp.key[at[h].user] # None /\ Goto(h, "begin")
       \/ Finish(h, "error")
    /\ ReadOnly
    /\ UNCHANGED <<late, history>>

\* A device that no longer exists counts as deleted.  The 200 is sent here,
\* before COMMIT.
Exists(h) ==
    /\ Runs(h, "exists")
    /\ IF tmp.owner[at[h].device] = None
       THEN Issue(h, [at[h] EXCEPT !.step = "commit", !.reply = "ok"])
       ELSE Goto(h, "drop")
    /\ ReadOnly
    /\ UNCHANGED <<late, history>>

DeleteDevice(h) ==
    /\ Runs(h, "drop")
    /\ IF tmp.owner[at[h].device] = at[h].user
       THEN /\ Write(Drop(tmp, {at[h].device}))
            /\ Issue(h, [at[h] EXCEPT !.step = "commit", !.reply = "ok"])
       ELSE ReadOnly /\ Throw(h)
    /\ UNCHANGED <<late, history>>

-------------------------------------------------------------------------------
\* The process dies: Postgres rolls back, the clients get no answer.
Crash ==
    /\ queue # <<>>
    /\ session' = "idle"
    /\ tmp' = db
    /\ queue' = <<>>
    /\ at' = [h \in Handlers |-> Fresh]
    /\ UNCHANGED <<db, late, history>>

Statement(h) ==
    \/ Begin(h) \/ Commit(h) \/ CommitFails(h) \/ Rollback(h) \/ Refused(h)
    \/ AddUser(h)
    \/ AddProfileRow(h, "user_details", "users_state")
    \/ AddProfileRow(h, "users_state", "users_settings")
    \/ AddProfileRow(h, "users_settings", AfterSettings(at[h].op))
    \/ WhoIs(h) \/ Details(h) \/ Perceptions(h) \/ NoDetails(h)
    \/ AddCode(h) \/ AddCodeFails(h)
    \/ Validate(h) \/ PeekOwn(h) \/ DropOwn(h) \/ PeekDevice(h) \/ DropDevice(h)
    \/ OwnerOf(h) \/ DevicesOf(h) \/ Bind(h) \/ Describe(h) \/ RegisterPublicKey(h)
    \/ Authenticate(h) \/ Exists(h) \/ DeleteDevice(h)

Next ==
    \/ \E h \in Handlers : Arrive(h) \/ Statement(h)
    \/ \E c \in Codes : Elapse(c)
    \/ Crash

Spec == Init /\ [][Next]_vars

\* The pg client goes on with its queue.
FairSpec == Spec /\ \A h \in Handlers : WF_vars(Statement(h))

-------------------------------------------------------------------------------
\* Properties.

\* Requests and tables are well formed after every statement.
TypeOK ==
    /\ db \in Tables
    /\ tmp \in Tables
    /\ session \in {"idle", "open", "aborted"}
    /\ queue \in Seq(Handlers)
    /\ at \in [Handlers -> Request]
    /\ late \subseteq Codes
    /\ issued \subseteq Codes
    /\ crowded \subseteq Handlers
    /\ promised \subseteq Codes
    /\ redeemed \subseteq Codes

\* The shared connection is never left in a transaction: while one is open or
\* aborted, some handler has still to end it, however the handlers' BEGINs and
\* ROLLBACKs interleave.
SessionOwned == session # "idle" => \E h \in Handlers : InTransaction(h)

\* Every request is answered, unless the process dies: no handler waits for
\* another, and no aborted transaction keeps the connection from serving.
Answered == \A h \in Handlers : at[h].step # "idle" ~> at[h].step = "idle"

\* docs/e2e-encryption/README.md: "A given user should be able to only have 1
\* active device at any time."
OneActiveDevice ==
    \A d, e \in Devices : db.owner[d] # None /\ db.owner[d] = db.owner[e] => d = e

\* Requests to the other services are signed by the phone and checked against
\* users_identity: the device a user owns is the one whose key is registered.
ActiveDeviceHoldsKey ==
    \A d \in Devices : db.owner[d] # None => db.key[db.owner[d]] = d

\* db.ts, withSerializableTransaction: a registration is committed as a whole.
\* An account without its details can neither log in nor register again.
WholeAccounts == \A u \in Users : Registered(db, u) => Complete(db, u)

\* What a client was answered 200 has happened: a verified code is used up, so it does
\* not verify again, and a login or registration has its code in the database.
AnswersHold ==
    session = "idle" =>
        /\ \A c \in redeemed : db.code[c].used
        /\ \A c \in promised : db.code[c].of # None

\* What the request r is for, in the tables t.
Effect(r, t) ==
    CASE r.op = "verify" -> t.code[r.code].used /\ t.owner[r.device] = r.user /\ t.key[r.user] = r.device
      [] r.op = "delete" -> t.owner[r.device] # r.user
      [] OTHER -> Complete(t, r.user) /\ t.code[r.code].of = r.user

\* db.ts, withSerializableTransaction, and the 200 that deleteDevice sends before
\* COMMIT: when a handler ends its transaction and its client has been answered 200,
\* what the request is for has been committed, provided that no other request was in
\* progress during the transaction: whatever requests ran together before it, and
\* however they failed, nothing of theirs is left that could undo it.  (A request
\* beside another may be answered 200 for what a foreign ROLLBACK undoes.)
AloneIsDone ==
    [][\A h \in Handlers :
         (/\ InTransaction(h) /\ h \notin crowded
          /\ at'[h].op = at[h].op /\ at'[h].step = "idle" /\ at'[h].reply = "ok")
         => Effect(at[h], db')]_vars

\* No other request is in progress while one is in its transaction.
Apart == \A g, h \in Handlers : g # h /\ InTransaction(g) => at[h].step = "idle"

\* Apart, statement by statement requests do what Accounts does in one step each.
Acc == INSTANCE Accounts WITH
    accounts <- {u \in Users : Registered(db, u)},
    code <- db.code,
    active <- {u \in Users : OwnedBy(db, u) # {}},
    key <- db.key

RequestsAreAtomic == Acc!Spec

===============================================================================
