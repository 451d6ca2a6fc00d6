------------------------------- MODULE Emergency -------------------------------
(***************************************************************************)
(* The emergency service (rust/src/server/emergency.rs and                 *)
(* controllers/emergency.rs): a user declares or ends an emergency, a      *)
(* friend reports one, and friends read where a user in an emergency was.  *)
(*                                                                         *)
(* No request has a transaction: its checks, its UPDATE, the look-ups of   *)
(* whom to alert and the publication are steps of their own, and what they *)
(* saw may have changed by the next.  A trigger logs every change of a     *)
(* state.  The alert is a message to the notification server; that it      *)
(* could not be looked up or published is logged and answered with Ok.     *)
(*                                                                         *)
(* One action is one statement or publication of a worker.  Friendships    *)
(* are made and ended by the invitations service, devices by others.       *)
(***************************************************************************)
EXTENDS Naturals, Sequences

CONSTANTS
    Users,
    Devices,
    Owner,          \* users_devices: whose each device is
    Workers,        \* Rocket's workers
    Subjects,       \* bounds whose state and telemetry the requests are about
    NoUser,         \* nobody
    MaxRequests     \* bounds how many requests ever arrive

ASSUME OwnersAreUsers == Owner \in [Devices -> Users]
ASSUME SubjectsAreUsers == Subjects \subseteq Users
ASSUME NobodyIsNoUser == NoUser \notin Users
ASSUME MaxRequestsIsNat == MaxRequests \in Nat

VARIABLES
    published,  \* the messages published to the notification server
    token,      \* devices: "none" is no row
    friends,    \* users_followers: both directions of a friendship
    state,      \* users_state.self_perception
    log,        \* users_state_history: the states each user has had
    request,    \* the request of each worker
    requests,   \* how many have arrived
    met,        \* history: who was a friend of the user of a request since it arrived
    fired,      \* history: workers whose request's user was in an emergency since
    jumbled     \* history: users two of whose changes were alerted at the same time

history == <<met, fired, jumbled>>
stateVars == <<friends, state, log, request, requests, history>>

States == {"Normal", "Emergency"}

Request == [
    step: {"idle", "friend", "emergency", "telemetry", "shown", "update", "details",
           "contacts", "gather", "publish", "reply"},
    kind: {"own", "report", "history"},
    by: Users \cup {NoUser},            \* who asks
    user: Users \cup {NoUser},          \* whose state or telemetry it is about
    to: States,
    todo: SUBSET Users,                 \* recipients still to look up
    pushes: SUBSET Devices,
    mails: BOOLEAN,
    change: Nat]                        \* history: the place of the change in the log

Blank == [step |-> "idle", kind |-> "own", by |-> NoUser, user |-> NoUser, to |-> "Normal",
          todo |-> {}, pushes |-> {}, mails |-> FALSE, change |-> 0]

Init ==
    /\ friends \in SUBSET (Users \X Users)
    /\ \A u, v \in Users : <<u, v>> \in friends => u # v /\ <<v, u>> \in friends
    /\ state = [u \in Users |-> "Normal"]
    /\ log = [u \in Users |-> <<"Normal">>]     \* INSERT fires the trigger too
    /\ request = [w \in Workers |-> Blank]
    /\ requests = 0
    /\ met = [w \in Workers |-> {}]
    /\ fired = {}
    /\ jumbled = {}

Friends(u) == {v \in Users : <<u, v>> \in friends}

-------------------------------------------------------------------------------
\* The invitations service.
Befriend(u, v) ==
    /\ u # v
    /\ <<u, v>> \notin friends
    /\ friends' = friends \cup {<<u, v>>, <<v, u>>}
    /\ met' = [w \in Workers |-> CASE request[w].user = u -> met[w] \cup {v}
                                   [] request[w].user = v -> met[w] \cup {u}
                                   [] OTHER -> met[w]]
    /\ UNCHANGED <<published, token, state, log, request, requests, fired, jumbled>>

Unfriend(u, v) ==
    /\ <<u, v>> \in friends
    /\ friends' = friends \ {<<u, v>>, <<v, u>>}
    /\ UNCHANGED <<published, token, state, log, request, requests, history>>

-------------------------------------------------------------------------------
At(w, s) == request[w].step = s
Goto(w, s) == request' = [request EXCEPT ![w].step = s]

\* A request arrives that is about user u.
Arrive(w, kind, by, u, to, step) ==
    /\ At(w, "idle")
    /\ requests < MaxRequests
    /\ requests' = requests + 1
    /\ request' = [request EXCEPT ![w] = [Blank EXCEPT !.step = step, !.kind = kind, !.by = by,
                                                       !.user = u, !.to = to]]
    /\ met' = [met EXCEPT ![w] = Friends(u)]
    /\ fired' = IF state[u] = "Emergency" THEN fired \cup {w} ELSE fired
    /\ UNCHANGED <<published, token, friends, state, log, jumbled>>

UpdateState(w, u, s) == Arrive(w, "own", u, u, s, "update")

UpdateFriendState(w, u, v) == Arrive(w, "report", u, v, "Emergency", "friend")

GetHistoricalLocation(w, u, v) == Arrive(w, "history", u, v, "Emergency", "friend")

\* The answer, whether Ok or an error.
Leave(w) ==
    /\ request' = [request EXCEPT ![w] = Blank]
    /\ met' = [met EXCEPT ![w] = {}]
    /\ fired' = fired \ {w}

\* Mutant of AssertFriends: anybody may report and read.
AssertKnown(w) ==
    /\ At(w, "friend")
    /\ Goto(w, IF request[w].kind = "report" THEN "update" ELSE "emergency")
    /\ UNCHANGED <<published, token, friends, state, log, requests, history>>

\* assert_not_friends, which asserts that the two are friends.
AssertFriends(w) ==
    /\ At(w, "friend")
    /\ IF request[w].by \in Friends(request[w].user)
       THEN /\ Goto(w, IF request[w].kind = "report" THEN "update" ELSE "emergency")
            /\ UNCHANGED <<met, fired>>
       ELSE Leave(w)
    /\ UNCHANGED <<published, token, friends, state, log, requests, jumbled>>

\* Mutant of AssertEmergency: telemetry is shown of a user in any state.
AssertNothing(w) ==
    /\ At(w, "emergency")
    /\ Goto(w, "telemetry")
    /\ UNCHANGED <<published, token, friends, state, log, requests, history>>

\* assert_emergency_user.
AssertEmergency(w) ==
    /\ At(w, "emergency")
    /\ IF state[request[w].user] = "Emergency"
       THEN Goto(w, "telemetry") /\ UNCHANGED <<met, fired>>
       ELSE Leave(w)
    /\ UNCHANGED <<published, token, friends, state, log, requests, jumbled>>

\* get_historical_telemetry.
GetTelemetry(w) ==
    /\ At(w, "telemetry")
    /\ Goto(w, "shown")
    /\ UNCHANGED <<published, token, friends, state, log, requests, history>>

Alerting(w) == \E s \in {"details", "contacts", "gather", "publish"} : At(w, s)

\* Mutant of Update: the UPDATE has no condition on the state.
UpdateAlways(w) ==
    /\ At(w, "update")
    /\ LET u == request[w].user
       IN  /\ state' = [state EXCEPT ![u] = request[w].to]
           /\ log' = [log EXCEPT ![u] = Append(@, request[w].to)]
           /\ request' = [request EXCEPT ![w].step = "details", ![w].change = Len(log[u]) + 1]
    /\ UNCHANGED <<published, token, friends, requests, history>>

\* Mutant of Update: that there was no row to change goes unnoticed.
UpdateUnchecked(w) ==
    /\ At(w, "update")
    /\ LET u == request[w].user
           s == request[w].to
       IN  /\ state' = [state EXCEPT ![u] = s]
           /\ log' = [log EXCEPT ![u] = IF state[u] = s THEN @ ELSE Append(@, s)]
           /\ request' = [request EXCEPT ![w].step = "details", ![w].change = Len(log'[u])]
    /\ UNCHANGED <<published, token, friends, requests, history>>

\* update_state: UPDATE ... WHERE self_perception != $1, whose trigger logs the
\* change; no row is an error.  log is in the order of the commits.  (The rows carry
\* CURRENT_TIMESTAMP, the start of their transactions, so that two changes that
\* overlap may be timed the other way round.)
Update(w) ==
    /\ At(w, "update")
    /\ LET u == request[w].user
           s == request[w].to
       IN  IF state[u] = s
           THEN Leave(w) /\ UNCHANGED <<state, log, jumbled>>
           ELSE /\ state' = [state EXCEPT ![u] = s]
                /\ log' = [log EXCEPT ![u] = Append(@, s)]
                /\ fired' = IF s = "Emergency"
                            THEN fired \cup {x \in Workers : request[x].user = u} ELSE fired
                /\ jumbled' = IF \E x \in Workers : Alerting(x) /\ request[x].user = u
                              THEN jumbled \cup {u} ELSE jumbled
                /\ request' = [request EXCEPT ![w].step = "details", ![w].change = Len(log[u]) + 1]
                /\ UNCHANGED met
    /\ UNCHANGED <<published, token, friends, requests>>

\* send_emergency_notifications: who the user is ...
GetDetails(w) ==
    /\ At(w, "details")
    /\ \E s \in {"contacts", "reply"} : Goto(w, s)
    /\ UNCHANGED <<published, token, friends, state, log, requests, history>>

\* ... get_emergency_connections; every follower is an emergency contact ...
GetContacts(w) ==
    /\ At(w, "contacts")
    /\ LET contacts == Friends(request[w].user)
       IN  \/ request' = [request EXCEPT ![w].step = IF contacts = {} THEN "publish" ELSE "gather",
                                         ![w].todo = contacts]
           \/ Goto(w, "reply")
    /\ UNCHANGED <<published, token, friends, state, log, requests, history>>

\* ... build_emergency_notifications, one recipient: his details, then his
\* devices; an error of either is no notification, and goes on.  Not everybody
\* has an e-mail address ...
Gather(w) ==
    /\ At(w, "gather")
    /\ \E v \in request[w].todo :
           LET rest == request[w].todo \ {v}
               own == {d \in Devices : Owner[d] = v /\ token[d] # "none"}
               found(pushes, mails) ==
                   request' = [request EXCEPT ![w].step = IF rest = {} THEN "publish" ELSE "gather",
                                              ![w].todo = rest,
                                              ![w].pushes = @ \cup pushes,
                                              ![w].mails = @ \/ mails]
           IN  \E pushes \in {own, {}}, mails \in BOOLEAN : found(pushes, mails)
    /\ UNCHANGED <<published, token, friends, state, log, requests, history>>

\* Mutant of Publish: an emergency has priority over what waits in the queue.
PublishUrgently(w) ==
    /\ At(w, "publish")
    /\ LET alert == <<[pushes |-> request[w].pushes, mails |-> request[w].mails, sms |-> FALSE,
                       perishable |-> FALSE, about |-> request[w].user, state |-> request[w].to,
                       change |-> request[w].change]>>
       IN  published' = IF request[w].to = "Emergency" THEN alert \o published
                                                       ELSE published \o alert
    /\ Goto(w, "reply")
    /\ UNCHANGED <<token, friends, state, log, requests, history>>

\* ... and one message with all of it.
Publish(w) ==
    /\ At(w, "publish")
    /\ published' = Append(published,
           [pushes |-> request[w].pushes, mails |-> request[w].mails, sms |-> FALSE,
            perishable |-> FALSE, about |-> request[w].user, state |-> request[w].to,
            change |-> request[w].change])
    /\ Goto(w, "reply")
    /\ UNCHANGED <<token, friends, state, log, requests, history>>

\* No connection to RabbitMQ, or it fails.
NotPublished(w) ==
    /\ At(w, "publish")
    /\ Goto(w, "reply")
    /\ UNCHANGED <<published, token, friends, state, log, requests, history>>

Reply(w) ==
    /\ At(w, "reply") \/ At(w, "shown")
    /\ Leave(w)
    /\ UNCHANGED <<published, token, friends, state, log, requests, jumbled>>

\* A check or the UPDATE fails: an error is answered at once.
Fail(w) ==
    /\ \E s \in {"friend", "emergency", "telemetry", "update"} : At(w, s)
    /\ Leave(w)
    /\ UNCHANGED <<published, token, friends, state, log, requests, jumbled>>

-------------------------------------------------------------------------------
Work(w) ==
    \/ \E u \in Subjects, s \in States : UpdateState(w, u, s)
    \/ \E u \in Users, v \in Subjects : UpdateFriendState(w, u, v) \/ GetHistoricalLocation(w, u, v)
    \/ AssertFriends(w) \/ AssertEmergency(w) \/ GetTelemetry(w)
    \/ Update(w) \/ GetDetails(w) \/ GetContacts(w) \/ Gather(w) \/ Publish(w) \/ NotPublished(w)
    \/ Reply(w) \/ Fail(w)

World == \E u, v \in Users : Befriend(u, v) \/ Unfriend(u, v)

EmergencyNext == World \/ \E w \in Workers : Work(w)

\* Alone: nobody else publishes, and devices come and go.
SomeDevice == \E d \in Devices :
    /\ token' = [token EXCEPT ![d] = IF @ = "none" THEN "null" ELSE "none"]
    /\ UNCHANGED <<published, stateVars>>

AloneInit == Init /\ published = <<>> /\ token = [d \in Devices |-> "null"]

EmergencySpec == AloneInit /\ [][EmergencyNext \/ SomeDevice]_<<published, token, stateVars>>

-------------------------------------------------------------------------------
EmergencyTypeOK ==
    /\ friends \subseteq Users \X Users
    /\ state \in [Users -> States]
    /\ log \in [Users -> Seq(States)]
    /\ request \in [Workers -> Request]
    /\ requests \in 0..MaxRequests
    /\ met \in [Workers -> SUBSET Users]
    /\ fired \subseteq Workers
    /\ jumbled \subseteq Users

\* Two requests that change one state, of the user himself and of his friends,
\* are one change: the history alternates and ends in the state.
HistoryAlternates ==
    \A u \in Users :
        /\ log[u][Len(log[u])] = state[u]
        /\ \A i \in 1..Len(log[u]) - 1 : log[u][i] # log[u][i + 1]

\* The alerts of one user, published or on the way there.
Published(u) == {i \in 1..Len(published) : published[i].about = u}
OnTheWay(u) == {w \in Workers : Alerting(w) /\ request[w].user = u}

\* A change is alerted once, whoever else asked for it, and as what it was: no
\* two alerts, published or not, are about one entry of the history.
OneAlertPerChange ==
    \A u \in Users :
        /\ \A i \in Published(u) : log[u][published[i].change] = published[i].state
        /\ \A i, j \in Published(u) : published[i].change = published[j].change => i = j
        /\ \A w \in OnTheWay(u), i \in Published(u) : published[i].change # request[w].change
        /\ \A w, x \in OnTheWay(u) : request[w].change = request[x].change => w = x

\* The alerts of a user are published in the order of his changes, unless he, or
\* a friend for him, made one while another was still being alerted.
AlertsInOrder ==
    \A u \in Users \ jumbled : \A i, j \in Published(u) :
        i < j => published[i].change < published[j].change

\* The friendship may end between any two steps: who reports a user or reads his
\* telemetry, and who is alerted, has been his friend since the request arrived.
ActsForFriends ==
    \A w \in Workers :
        /\ request[w].kind # "own" /\ ~At(w, "friend") => request[w].by \in met[w]
        /\ request[w].todo \subseteq met[w]
        /\ \A d \in request[w].pushes : Owner[d] \in met[w]

\* The emergency, too, may end between any two steps: telemetry is shown only if
\* there was one since the request arrived.
HistoryNeedsEmergency ==
    \A w \in Workers : At(w, "telemetry") \/ At(w, "shown") => w \in fired

===============================================================================
