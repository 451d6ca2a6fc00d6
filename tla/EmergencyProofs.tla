---------------------------- MODULE EmergencyProofs ----------------------------
(***************************************************************************)
(* Proofs about Emergency, for any users, devices, workers and number of   *)
(* requests.                                                               *)
(***************************************************************************)
EXTENDS Emergency, SequenceTheorems, TLAPS

\* What the steps of a request leave alone, for the definitions that follow.
allVars == <<published, token, stateVars>>

\* A worker without a request is blank; with one it knows whom it is about.
RequestOK(r) ==
    /\ r.step = "idle" => r = Blank
    /\ r.step # "idle" => r.user \in Users

EInv == EmergencyTypeOK /\ \A w \in Workers : RequestOK(request[w])

LEMMA BlankType == Blank \in Request /\ Blank.step = "idle" /\ Blank.user = NoUser
BY DEF Blank, Request, States

LEMMA InitEInv == AloneInit => EInv
<1> SUFFICES ASSUME AloneInit PROVE EInv
  OBVIOUS
<1>1. state \in [Users -> States] /\ log \in [Users -> Seq(States)]
  BY DEF AloneInit, Init, States
<1>2. request \in [Workers -> Request] /\ \A w \in Workers : RequestOK(request[w])
  BY BlankType DEF AloneInit, Init, RequestOK
<1> QED BY <1>1, <1>2, MaxRequestsIsNat DEF AloneInit, Init, EInv, EmergencyTypeOK

\* A step of w to r, that is well formed.
LEMMA MoveOK ==
  ASSUME EInv, NEW w \in Workers, NEW r \in Request, RequestOK(r),
         request' = [request EXCEPT ![w] = r]
  PROVE  /\ request' \in [Workers -> Request]
         /\ request'[w] = r
         /\ \A x \in Workers \ {w} : request'[x] = request[x]
         /\ \A x \in Workers : RequestOK(request'[x])
<1>1. /\ request' \in [Workers -> Request] /\ request'[w] = r
      /\ \A x \in Workers \ {w} : request'[x] = request[x]
  BY DEF EInv, EmergencyTypeOK
<1>2. \A x \in Workers : RequestOK(request'[x])
  BY <1>1 DEF EInv
<1> QED BY <1>1, <1>2

LEMMA GotoOK ==
  ASSUME EInv, NEW w \in Workers, NEW s, [request[w] EXCEPT !.step = s] \in Request,
         s # "idle", request[w].step # "idle", Goto(w, s)
  PROVE  /\ request' \in [Workers -> Request]
         /\ request'[w] = [request[w] EXCEPT !.step = s]
         /\ \A x \in Workers \ {w} : request'[x] = request[x]
         /\ \A x \in Workers : RequestOK(request'[x])
<1>1. PICK r : r = [request[w] EXCEPT !.step = s]
  OBVIOUS
<1>2. r \in Request /\ r.step = s /\ r.user = request[w].user
  BY <1>1 DEF Request, EInv, EmergencyTypeOK
<1>3. RequestOK(r)
  BY <1>2 DEF RequestOK, EInv
<1>4. request' = [request EXCEPT ![w] = r]
  BY <1>1 DEF Goto
<1> QED BY <1>1, <1>2, <1>3, <1>4, MoveOK

LEMMA LeaveOK ==
  ASSUME EInv, NEW w \in Workers, Leave(w)
  PROVE  /\ request' \in [Workers -> Request]
         /\ request'[w] = Blank
         /\ \A x \in Workers \ {w} : request'[x] = request[x]
         /\ \A x \in Workers : RequestOK(request'[x])
         /\ met' = [met EXCEPT ![w] = {}] /\ fired' = fired \ {w}
         /\ met' \in [Workers -> SUBSET Users] /\ fired' \subseteq Workers
<1>1. RequestOK(Blank)
  BY BlankType DEF RequestOK
<1> QED BY <1>1, BlankType, MoveOK DEF Leave, EInv, EmergencyTypeOK

\* Where a step of w can take it, short of publication and arrival.
Moves(w) ==
    \/ \E s \in {"update", "emergency", "telemetry", "shown", "contacts", "reply"} :
           Goto(w, s) /\ UNCHANGED <<met, fired>>
    \/ Leave(w)

LEMMA MovesOK ==
  ASSUME EInv, NEW w \in Workers, request[w].step # "idle", Moves(w)
  PROVE  /\ request' \in [Workers -> Request]
         /\ \A x \in Workers : RequestOK(request'[x])
         /\ met' \in [Workers -> SUBSET Users] /\ fired' \subseteq Workers
<1>1. CASE Leave(w)
  BY <1>1, LeaveOK
<1>2. ASSUME NEW s \in {"update", "emergency", "telemetry", "shown", "contacts", "reply"},
             Goto(w, s), UNCHANGED <<met, fired>>
      PROVE  /\ request' \in [Workers -> Request] /\ \A x \in Workers : RequestOK(request'[x])
             /\ met' \in [Workers -> SUBSET Users] /\ fired' \subseteq Workers
  <2>1. request[w] \in Request
    BY DEF EInv, EmergencyTypeOK
  <2>2. [request[w] EXCEPT !.step = s] \in Request
    BY <2>1 DEF Request
  <2> QED BY <1>2, <2>2, GotoOK DEF EInv, EmergencyTypeOK
<1> QED BY <1>1, <1>2 DEF Moves

\* Most steps only move on.
LEMMA MovingSteps ==
  ASSUME EInv, NEW w \in Workers,
         \/ AssertFriends(w) \/ AssertEmergency(w) \/ GetTelemetry(w)
         \/ GetDetails(w) \/ NotPublished(w) \/ Reply(w) \/ Fail(w)
  PROVE  Moves(w) /\ request[w].step # "idle"
         /\ UNCHANGED <<published, token, friends, state, log, requests, jumbled>>
BY DEF AssertFriends, AssertEmergency, GetTelemetry, GetDetails, NotPublished, Reply, Fail,
       Moves, At, history

LEMMA EStep == ASSUME EInv, [EmergencyNext \/ SomeDevice]_allVars PROVE EInv'
<1>0. request \in [Workers -> Request] /\ \A w \in Workers : RequestOK(request[w])
  BY DEF EInv, EmergencyTypeOK
<1>1. CASE UNCHANGED allVars \/ SomeDevice
  BY <1>1 DEF allVars, SomeDevice, stateVars, history, EInv, EmergencyTypeOK, RequestOK
<1>2. ASSUME NEW u \in Users, NEW v \in Users, Befriend(u, v) PROVE EInv'
  <2>1. met' \in [Workers -> SUBSET Users]
    BY <1>2 DEF Befriend, EInv, EmergencyTypeOK
  <2>2. friends' \subseteq Users \X Users
    BY <1>2 DEF Befriend, EInv, EmergencyTypeOK
  <2> QED BY <1>2, <2>1, <2>2 DEF Befriend, EInv, EmergencyTypeOK, RequestOK
<1>3. ASSUME NEW u \in Users, NEW v \in Users, Unfriend(u, v) PROVE EInv'
  BY <1>3 DEF Unfriend, history, EInv, EmergencyTypeOK, RequestOK
<1>4. ASSUME NEW w \in Workers, NEW kind \in {"own", "report", "history"}, NEW by \in Users,
             NEW u \in Users, NEW to \in States, NEW step \in {"update", "friend"},
             Arrive(w, kind, by, u, to, step)
      PROVE  EInv'
  <2>1. PICK r : r = [Blank EXCEPT !.step = step, !.kind = kind, !.by = by, !.user = u, !.to = to]
    OBVIOUS
  <2>2. r \in Request /\ RequestOK(r)
    BY <2>1 DEF Request, RequestOK, Blank
  <2>3. request' \in [Workers -> Request] /\ \A x \in Workers : RequestOK(request'[x])
    BY <1>4, <2>1, <2>2, MoveOK DEF Arrive
  <2>4. requests' \in 0..MaxRequests
    BY <1>4, MaxRequestsIsNat DEF Arrive, EInv, EmergencyTypeOK
  <2>5. met' \in [Workers -> SUBSET Users] /\ fired' \subseteq Workers
    BY <1>4 DEF Arrive, Friends, EInv, EmergencyTypeOK
  <2> QED BY <1>4, <2>3, <2>4, <2>5 DEF Arrive, EInv, EmergencyTypeOK
<1>5. ASSUME NEW w \in Workers,
             \/ AssertFriends(w) \/ AssertEmergency(w) \/ GetTelemetry(w)
             \/ GetDetails(w) \/ NotPublished(w) \/ Reply(w) \/ Fail(w)
      PROVE  EInv'
  <2>1. /\ Moves(w) /\ request[w].step # "idle"
        /\ UNCHANGED <<published, token, friends, state, log, requests, jumbled>>
    BY <1>5, MovingSteps
  <2> QED BY <2>1, MovesOK DEF EInv, EmergencyTypeOK
<1>6. ASSUME NEW w \in Workers, Update(w) PROVE EInv'
  <2> DEFINE u == request[w].user
             s == request[w].to
  <2>1. u \in Users /\ s \in States
    BY <1>0, <1>6 DEF Update, At, Request, RequestOK
  <2>2. CASE state[u] = s
    BY <1>6, <2>2, LeaveOK DEF Update, EInv, EmergencyTypeOK
  <2>3. CASE state[u] # s
    <3>2. log[u] \in Seq(States) /\ Len(log[u]) \in Nat
      BY <2>1, LenProperties DEF EInv, EmergencyTypeOK
    <3>n. PICK n \in Nat : n = Len(log[u]) + 1
      BY <3>2
    <3>1. PICK r : r = [request[w] EXCEPT !.step = "details", !.change = n]
      OBVIOUS
    <3>3. r \in Request /\ RequestOK(r)
      <4>2. request[w] \in Request
        BY <1>0
      <4>3. r \in Request /\ r.step = "details" /\ r.user = u
        BY <3>1, <4>2 DEF Request
      <4> QED BY <2>1, <4>3 DEF RequestOK
    <3>4. request' = [request EXCEPT ![w] = r]
      BY <1>0, <1>6, <2>3, <3>n, <3>1 DEF Update
    <3>5. request' \in [Workers -> Request] /\ \A x \in Workers : RequestOK(request'[x])
      BY <3>3, <3>4, MoveOK
    <3>6. Append(log[u], s) \in Seq(States)
      BY <2>1, <3>2, AppendProperties
    <3>7. state' \in [Users -> States] /\ log' \in [Users -> Seq(States)]
      BY <1>6, <2>1, <2>3, <3>6 DEF Update, EInv, EmergencyTypeOK
    <3>8. fired' \subseteq Workers /\ jumbled' \subseteq Users
      BY <1>6, <2>1, <2>3 DEF Update, EInv, EmergencyTypeOK
    <3> QED BY <1>6, <2>3, <3>5, <3>7, <3>8 DEF Update, EInv, EmergencyTypeOK
  <2> QED BY <2>2, <2>3
<1>7. ASSUME NEW w \in Workers, GetContacts(w) PROVE EInv'
  <2> DEFINE contacts == Friends(request[w].user)
             s == IF contacts = {} THEN "publish" ELSE "gather"
  <2>1. UNCHANGED <<published, token, friends, state, log, requests, history>>
    BY <1>7 DEF GetContacts
  <2>2. CASE Goto(w, "reply")
    BY <1>7, <2>1, <2>2, MovesOK DEF Moves, GetContacts, At, EInv, EmergencyTypeOK, history
  <2>3. CASE ~Goto(w, "reply")
    <3>1. PICK r : r = [request[w] EXCEPT !.step = s, !.todo = contacts]
      OBVIOUS
    <3>a. contacts \in SUBSET Users /\ s \in {"publish", "gather"}
      BY DEF Friends
    <3>b. request[w] \in Request /\ request[w].user \in Users
      BY <1>0, <1>7 DEF GetContacts, At, RequestOK
    <3> HIDE DEF contacts, s
    <3>2. r \in Request /\ RequestOK(r)
      BY <3>a, <3>b, <3>1 DEF Request, RequestOK
    <3>3. request' = [request EXCEPT ![w] = r]
      BY <1>0, <1>7, <2>3, <3>1 DEF GetContacts, contacts, s
    <3>4. request' \in [Workers -> Request] /\ \A x \in Workers : RequestOK(request'[x])
      BY <3>2, <3>3, MoveOK
    <3> QED BY <2>1, <3>4 DEF EInv, EmergencyTypeOK, history
  <2> QED BY <2>2, <2>3
<1>8. ASSUME NEW w \in Workers, Gather(w) PROVE EInv'
  <2>1. PICK rest \in SUBSET Users, pushes \in SUBSET Devices, mails \in BOOLEAN :
            request' = [request EXCEPT ![w].step = IF rest = {} THEN "publish" ELSE "gather",
                                       ![w].todo = rest,
                                       ![w].pushes = @ \cup pushes,
                                       ![w].mails = @ \/ mails]
    <3>1. PICK v \in request[w].todo : \E pushes \in {{d \in Devices : Owner[d] = v /\ token[d] # "none"}, {}},
                                          mails \in BOOLEAN :
            LET rest == request[w].todo \ {v}
            IN  request' = [request EXCEPT ![w].step = IF rest = {} THEN "publish" ELSE "gather",
                                           ![w].todo = rest,
                                           ![w].pushes = @ \cup pushes,
                                           ![w].mails = @ \/ mails]
      BY <1>8 DEF Gather
    <3>2. request[w].todo \ {v} \in SUBSET Users
      BY <1>0 DEF Request
    <3> QED BY <3>1, <3>2
  <2>2. PICK r : r = [request[w] EXCEPT !.step = IF rest = {} THEN "publish" ELSE "gather",
                                        !.todo = rest, !.pushes = @ \cup pushes,
                                        !.mails = @ \/ mails]
    OBVIOUS
  <2>3. r.user = request[w].user /\ r.step # "idle"
    BY <1>0, <2>2 DEF Request
  <2>4. r \in Request
    <3>1. request[w] \in Request /\ (request[w].mails \/ mails) \in BOOLEAN
      BY <1>0
    <3> QED BY <2>1, <2>2, <3>1 DEF Request
  <2>5. RequestOK(r)
    BY <1>0, <1>8, <2>3 DEF RequestOK, Gather, At
  <2>6. request' = [request EXCEPT ![w] = r]
    BY <1>0, <2>1, <2>2
  <2>7. request' \in [Workers -> Request] /\ \A x \in Workers : RequestOK(request'[x])
    BY <2>4, <2>5, <2>6, MoveOK
  <2> QED BY <1>8, <2>7 DEF Gather, EInv, EmergencyTypeOK, history
<1>9. ASSUME NEW w \in Workers, Publish(w) PROVE EInv'
  <2>1. Moves(w) /\ request[w].step # "idle"
    BY <1>9 DEF Publish, Moves, At, history
  <2> QED BY <1>9, <2>1, MovesOK DEF Publish, EInv, EmergencyTypeOK, history
<1>10. ASSUME NEW w \in Workers, Work(w) PROVE EInv'
  <2>1. ASSUME NEW u \in Subjects, NEW s \in States, UpdateState(w, u, s) PROVE EInv'
    BY <1>4, <2>1, SubjectsAreUsers DEF UpdateState
  <2>2. ASSUME NEW u \in Users, NEW v \in Subjects,
               UpdateFriendState(w, u, v) \/ GetHistoricalLocation(w, u, v)
        PROVE  EInv'
    BY <1>4, <2>2, SubjectsAreUsers DEF UpdateFriendState, GetHistoricalLocation, States
  <2> QED BY <1>5, <1>6, <1>7, <1>8, <1>9, <1>10, <2>1, <2>2 DEF Work
<1> QED BY <1>1, <1>2, <1>3, <1>10 DEF EmergencyNext, World

LEMMA AlwaysEInv == EmergencySpec => []EInv
<1>1. AloneInit => EInv
  BY InitEInv
<1>2. EInv /\ [EmergencyNext \/ SomeDevice]_allVars => EInv'
  BY EStep
<1> QED BY <1>1, <1>2, PTL DEF EmergencySpec, allVars

\* Every reachable state is well formed.
THEOREM TypeCorrect == EmergencySpec => []EmergencyTypeOK
<1>1. EInv => EmergencyTypeOK
  BY DEF EInv
<1> QED BY <1>1, AlwaysEInv, PTL

-------------------------------------------------------------------------------
\* Friends and emergencies.  Whoever is a friend now was one since the request
\* arrived, and what a request has read of friends is among them; the same for the emergency.
AmongFriends(r, m) ==
    /\ r.step # "idle" => Friends(r.user) \subseteq m
    /\ r.kind # "own" /\ r.step # "friend" => r.by \in m
    /\ r.todo \subseteq m
    /\ \A d \in r.pushes : Owner[d] \in m
InEmergency(w) ==
    /\ ~At(w, "idle") /\ state[request[w].user] = "Emergency" => w \in fired
    /\ At(w, "telemetry") \/ At(w, "shown") => w \in fired

MInv == \A w \in Workers : AmongFriends(request[w], met[w]) /\ InEmergency(w)

LEMMA InitMInv == Init => MInv
BY DEF Init, MInv, AmongFriends, InEmergency, At, Blank

LEMMA BlankAmong == AmongFriends(Blank, {})
BY DEF AmongFriends, Blank

\* A step of w alone.
LEMMA OwnMInv ==
  ASSUME MInv, NEW w \in Workers, UNCHANGED <<friends, state>>,
         \A x \in Workers \ {w} : /\ request'[x] = request[x] /\ met'[x] = met[x]
                                  /\ (x \in fired' <=> x \in fired),
         AmongFriends(request[w], met[w])', InEmergency(w)'
  PROVE  MInv'
<1> SUFFICES ASSUME NEW x \in Workers PROVE AmongFriends(request[x], met[x])' /\ InEmergency(x)'
  BY DEF MInv
<1>1. CASE x # w
  BY <1>1 DEF MInv, AmongFriends, InEmergency, At, Friends
<1> QED BY <1>1

LEMMA LeaveMInv ==
  ASSUME EInv, MInv, NEW w \in Workers, Leave(w), UNCHANGED <<friends, state>>
  PROVE  MInv'
<1>1. /\ request'[w] = Blank /\ met'[w] = {}
      /\ \A x \in Workers \ {w} : /\ request'[x] = request[x] /\ met'[x] = met[x]
                                /\ (x \in fired' <=> x \in fired)
  BY LeaveOK DEF EInv, EmergencyTypeOK
<1>2. AmongFriends(request[w], met[w])' /\ InEmergency(w)'
  BY <1>1 DEF AmongFriends, InEmergency, At, Blank
<1> QED BY <1>1, <1>2, OwnMInv

\* A step of w that reads no more of friends and emergencies.
LEMMA GotoMInv ==
  ASSUME EInv, MInv, NEW w \in Workers, NEW s, Goto(w, s), ~At(w, "idle"),
         s \in {"telemetry", "shown"} => w \in fired,
         At(w, "friend") => request[w].by \in met[w],
         UNCHANGED <<friends, state, met, fired>>
  PROVE  MInv'
<1>1. /\ request'[w] = [request[w] EXCEPT !.step = s]
      /\ \A x \in Workers \ {w} : request'[x] = request[x]
      /\ request[w] \in Request
  BY DEF Goto, EInv, EmergencyTypeOK
<1>2. /\ request'[w].step = s /\ request'[w].user = request[w].user
      /\ request'[w].kind = request[w].kind /\ request'[w].by = request[w].by
      /\ request'[w].todo = request[w].todo /\ request'[w].pushes = request[w].pushes
  BY <1>1 DEF Request
<1>3. AmongFriends(request[w], met[w])'
  BY <1>2 DEF MInv, AmongFriends, Friends, At
<1>4. InEmergency(w)'
  BY <1>2 DEF MInv, InEmergency, At
<1> QED BY <1>1, <1>3, <1>4, OwnMInv

LEMMA MStep == ASSUME EInv, MInv, [EmergencyNext \/ SomeDevice]_allVars PROVE MInv'
<1>0. request \in [Workers -> Request] /\ \A w \in Workers : RequestOK(request[w])
  BY DEF EInv, EmergencyTypeOK
<1>1. CASE UNCHANGED allVars \/ SomeDevice
  BY <1>1 DEF allVars, SomeDevice, stateVars, history, MInv, AmongFriends, InEmergency, At, Friends
<1>2. ASSUME NEW u \in Users, NEW v \in Users, Befriend(u, v) PROVE MInv'
  <2>1. \A w \in Workers : met[w] \subseteq met'[w]
    BY <1>2 DEF Befriend, EInv, EmergencyTypeOK
  <2>2. ASSUME NEW w \in Workers, request[w].step # "idle" PROVE Friends(request[w].user)' \subseteq met'[w]
    <3>1. request[w].user \in Users /\ Friends(request[w].user) \subseteq met[w]
      BY <1>0, <2>2 DEF RequestOK, MInv, AmongFriends
    <3> QED BY <1>2, <3>1 DEF Befriend, Friends, EInv, EmergencyTypeOK
  <2>3. UNCHANGED <<state, request, fired>>
    BY <1>2 DEF Befriend
  <2>4. ASSUME NEW w \in Workers PROVE AmongFriends(request[w], met[w])'
    <3>1. AmongFriends(request[w], met[w])
      BY DEF MInv
    <3>2. request'[w].step # "idle" => Friends(request[w].user)' \subseteq met'[w]
      BY <2>2, <2>3
    <3> QED BY <2>1, <2>3, <3>1, <3>2 DEF AmongFriends
  <2>5. ASSUME NEW w \in Workers PROVE InEmergency(w)'
    BY <2>3 DEF MInv, InEmergency, At
  <2> QED BY <2>4, <2>5 DEF MInv
<1>3. ASSUME NEW u \in Users, NEW v \in Users, Unfriend(u, v) PROVE MInv'
  <2>1. friends' \subseteq friends /\ UNCHANGED <<state, request, met, fired>>
    BY <1>3 DEF Unfriend, history
  <2> QED BY <2>1 DEF MInv, AmongFriends, InEmergency, At, Friends
<1>4. ASSUME NEW w \in Workers, NEW kind \in {"own", "report", "history"}, NEW by \in Users,
             NEW u \in Users, NEW to \in States, NEW step \in {"update", "friend"},
             kind # "own" => step = "friend",
             Arrive(w, kind, by, u, to, step)
      PROVE  MInv'
  <2>1. /\ request'[w] = [Blank EXCEPT !.step = step, !.kind = kind, !.by = by, !.user = u, !.to = to]
        /\ \A x \in Workers \ {w} : request'[x] = request[x] /\ met'[x] = met[x]
        /\ met'[w] = Friends(u)
        /\ fired' = IF state[u] = "Emergency" THEN fired \cup {w} ELSE fired
        /\ UNCHANGED <<friends, state>>
    BY <1>0, <1>4 DEF Arrive, EInv, EmergencyTypeOK
  <2>2. /\ request'[w].step = step /\ request'[w].kind = kind /\ request'[w].user = u
        /\ request'[w].todo = {} /\ request'[w].pushes = {}
    BY <2>1 DEF Blank
  <2>3. AmongFriends(request[w], met[w])'
    BY <1>4, <2>1, <2>2 DEF AmongFriends, Friends
  <2>4. InEmergency(w)'
    BY <2>1, <2>2 DEF InEmergency, At
  <2> QED BY <2>1, <2>3, <2>4, OwnMInv
<1>5. ASSUME NEW w \in Workers, AssertFriends(w) \/ AssertEmergency(w) \/ GetTelemetry(w) PROVE MInv'
  <2>1. CASE Leave(w)
    BY <1>5, <2>1, LeaveMInv DEF AssertFriends, AssertEmergency, GetTelemetry, history
  <2>2. CASE ~Leave(w)
    <3>1. PICK s \in {"update", "emergency", "telemetry", "shown"} :
             /\ Goto(w, s) /\ ~At(w, "idle")
             /\ s \in {"telemetry", "shown"} => w \in fired
             /\ At(w, "friend") => request[w].by \in met[w]
             /\ UNCHANGED <<friends, state, met, fired>>
      <4>1. CASE AssertFriends(w)
        <5>1. request[w].by \in met[w]
          BY <2>2, <4>1 DEF AssertFriends, At, MInv, AmongFriends
        <5>2. PICK s \in {"update", "emergency"} : Goto(w, s)
          BY <2>2, <4>1 DEF AssertFriends
        <5> QED BY <2>2, <4>1, <5>1, <5>2 DEF AssertFriends, At
      <4>2. CASE AssertEmergency(w)
        BY <2>2, <4>2 DEF AssertEmergency, At, MInv, InEmergency
      <4>3. CASE GetTelemetry(w)
        BY <4>3 DEF GetTelemetry, At, MInv, InEmergency, history
      <4> QED BY <1>5, <4>1, <4>2, <4>3
    <3> QED BY <3>1, GotoMInv
  <2> QED BY <2>1, <2>2
<1>6. ASSUME NEW w \in Workers, Update(w) PROVE MInv'
  <2> DEFINE u == request[w].user
  <2>1. CASE state[u] = request[w].to
    BY <1>6, <2>1, LeaveMInv DEF Update
  <2>2. CASE state[u] # request[w].to
    <3>1. PICK r : r = [request[w] EXCEPT !.step = "details", !.change = Len(log[u]) + 1]
      OBVIOUS
    <3>2. /\ r.step = "details" /\ r.user = u /\ r.kind = request[w].kind
          /\ r.by = request[w].by /\ r.todo = request[w].todo /\ r.pushes = request[w].pushes
      BY <1>0, <3>1 DEF Request
    <3>3. /\ request'[w] = r /\ \A x \in Workers \ {w} : request'[x] = request[x]
      BY <1>0, <1>6, <2>2, <3>1 DEF Update
    <3>4. /\ state' = [state EXCEPT ![u] = request[w].to]
          /\ fired' = IF request[w].to = "Emergency"
                      THEN fired \cup {x \in Workers : request[x].user = u} ELSE fired
          /\ UNCHANGED <<friends, met>>
      BY <1>6, <2>2 DEF Update
    <3>5. \A x \in Workers : request'[x].user = request[x].user
      BY <3>2, <3>3
    <3>6. ~At(w, "friend") /\ ~At(w, "idle")
      BY <1>6 DEF Update, At
    <3>7. ASSUME NEW x \in Workers PROVE AmongFriends(request[x], met[x])'
      <4>1. CASE x = w
        BY <3>2, <3>3, <3>4, <3>6, <4>1 DEF MInv, AmongFriends, Friends, At
      <4>2. CASE x # w
        BY <3>3, <3>4, <4>2 DEF MInv, AmongFriends, Friends
      <4> QED BY <4>1, <4>2
    <3>8. ASSUME NEW x \in Workers PROVE InEmergency(x)'
      <4>1. fired \subseteq fired'
        BY <3>4
      <4>2. state \in [Users -> States] /\ u \in Users
        BY <1>0, <3>6 DEF EInv, EmergencyTypeOK, At, RequestOK
      <4>3. request[x].user = u \/ state'[request[x].user] = state[request[x].user]
        BY <3>4, <4>2
      <4>4. request[x].user = u /\ state'[u] = "Emergency" => x \in fired'
        BY <3>4, <4>2
      <4>5. CASE x = w
        BY <3>2, <3>3, <3>6, <4>1, <4>3, <4>4, <4>5 DEF MInv, InEmergency, At
      <4>6. CASE x # w
        BY <3>3, <4>1, <4>3, <4>4, <4>6 DEF MInv, InEmergency, At
      <4> QED BY <4>5, <4>6
    <3> QED BY <3>7, <3>8 DEF MInv
  <2> QED BY <2>1, <2>2
<1>7. ASSUME NEW w \in Workers, GetDetails(w) \/ Publish(w) \/ NotPublished(w) PROVE MInv'
  <2>1. PICK s \in {"contacts", "reply"} : Goto(w, s)
    BY <1>7 DEF GetDetails, Publish, NotPublished
  <2>2. UNCHANGED <<friends, state, met, fired>> /\ ~At(w, "idle") /\ ~At(w, "friend")
    BY <1>7 DEF GetDetails, Publish, NotPublished, history, At
  <2> QED BY <2>1, <2>2, GotoMInv
<1>8. ASSUME NEW w \in Workers, GetContacts(w) \/ Gather(w) PROVE MInv'
  <2>0. UNCHANGED <<friends, state, met, fired>>
    BY <1>8 DEF GetContacts, Gather, history
  <2>1. CASE GetContacts(w) /\ Goto(w, "reply")
    BY <2>0, <2>1, GotoMInv DEF GetContacts, At
  <2>2. CASE ~(GetContacts(w) /\ Goto(w, "reply"))
    <3>1. /\ request'[w].step \in {"publish", "gather"} /\ request'[w].user = request[w].user
          /\ request'[w].kind = request[w].kind /\ request'[w].by = request[w].by
          /\ request'[w].todo \subseteq met[w]
          /\ \A d \in request'[w].pushes : Owner[d] \in met[w]
          /\ \A x \in Workers \ {w} : request'[x] = request[x]
      <4>1. CASE GetContacts(w)
        <5> DEFINE contacts == Friends(request[w].user)
                   s == IF contacts = {} THEN "publish" ELSE "gather"
        <5>1. request' = [request EXCEPT ![w].step = s, ![w].todo = contacts]
          BY <2>2, <4>1 DEF GetContacts
        <5>2. contacts \subseteq met[w] /\ \A d \in request[w].pushes : Owner[d] \in met[w]
          BY <4>1 DEF GetContacts, At, MInv, AmongFriends
        <5>3. s \in {"publish", "gather"}
          OBVIOUS
        <5> HIDE DEF contacts, s
        <5>4. /\ request'[w] = [request[w] EXCEPT !.step = s, !.todo = contacts]
              /\ \A x \in Workers \ {w} : request'[x] = request[x]
          BY <1>0, <5>1
        <5>5. request[w] \in Request
          BY <1>0
        <5>6. /\ request'[w].step = s /\ request'[w].user = request[w].user
              /\ request'[w].kind = request[w].kind /\ request'[w].by = request[w].by
              /\ request'[w].todo = contacts /\ request'[w].pushes = request[w].pushes
          BY <5>4, <5>5 DEF Request
        <5> QED BY <5>2, <5>3, <5>4, <5>6
      <4>2. CASE Gather(w)
        <5>0. PICK v \in request[w].todo :
                 \E pushes \in SUBSET {d \in Devices : Owner[d] = v}, mails \in BOOLEAN :
                     LET rest == request[w].todo \ {v}
                     IN  request' = [request EXCEPT ![w].step = IF rest = {} THEN "publish" ELSE "gather",
                                                    ![w].todo = rest,
                                                    ![w].pushes = @ \cup pushes,
                                                    ![w].mails = @ \/ mails]
          BY <4>2 DEF Gather
        <5>1. PICK pushes \in SUBSET {d \in Devices : Owner[d] = v}, mails \in BOOLEAN :
                 LET rest == request[w].todo \ {v}
                 IN  request' = [request EXCEPT ![w].step = IF rest = {} THEN "publish" ELSE "gather",
                                                ![w].todo = rest,
                                                ![w].pushes = @ \cup pushes,
                                                ![w].mails = @ \/ mails]
          BY <5>0
        <5> DEFINE rest == request[w].todo \ {v}
                   s == IF rest = {} THEN "publish" ELSE "gather"
                   m == request[w].mails \/ mails
                   ps == request[w].pushes \cup pushes
        <5>2. request' = [request EXCEPT ![w].step = s, ![w].todo = rest, ![w].pushes = ps, ![w].mails = m]
          BY <1>0, <5>1
        <5>3. request[w].todo \subseteq met[w] /\ \A d \in request[w].pushes : Owner[d] \in met[w]
          BY DEF MInv, AmongFriends
        <5>4. rest \subseteq met[w] /\ (\A d \in ps : Owner[d] \in met[w]) /\ s \in {"publish", "gather"}
          BY <5>3
        <5> HIDE DEF rest, s, m, ps
        <5>5. /\ request'[w] = [request[w] EXCEPT !.step = s, !.todo = rest, !.pushes = ps, !.mails = m]
              /\ \A x \in Workers \ {w} : request'[x] = request[x]
          BY <1>0, <5>2
        <5>6. /\ request'[w].step = s /\ request'[w].user = request[w].user
              /\ request'[w].kind = request[w].kind /\ request'[w].by = request[w].by
              /\ request'[w].todo = rest /\ request'[w].pushes = ps
          BY <1>0, <5>5 DEF Request
        <5> QED BY <5>4, <5>5, <5>6
      <4> QED BY <1>8, <4>1, <4>2
    <3>2. ~At(w, "friend") /\ ~At(w, "idle")
      BY <1>8 DEF GetContacts, Gather, At
    <3>3. AmongFriends(request[w], met[w])'
      BY <2>0, <3>1, <3>2 DEF MInv, AmongFriends, Friends, At
    <3>4. InEmergency(w)'
      BY <2>0, <3>1, <3>2 DEF MInv, InEmergency, At
    <3> QED BY <2>0, <3>1, <3>3, <3>4, OwnMInv
  <2> QED BY <2>1, <2>2
<1>9. ASSUME NEW w \in Workers, Reply(w) \/ Fail(w) PROVE MInv'
  BY <1>9, LeaveMInv DEF Reply, Fail
<1>10. ASSUME NEW w \in Workers, Work(w) PROVE MInv'
  <2>1. ASSUME NEW u \in Subjects, NEW s \in States, UpdateState(w, u, s) PROVE MInv'
    BY <1>4, <2>1, SubjectsAreUsers DEF UpdateState
  <2>2. ASSUME NEW u \in Users, NEW v \in Subjects,
               UpdateFriendState(w, u, v) \/ GetHistoricalLocation(w, u, v)
        PROVE  MInv'
    BY <1>4, <2>2, SubjectsAreUsers DEF UpdateFriendState, GetHistoricalLocation, States
  <2> QED BY <1>5, <1>6, <1>7, <1>8, <1>9, <1>10, <2>1, <2>2 DEF Work
<1> QED BY <1>1, <1>2, <1>3, <1>10 DEF EmergencyNext, World

LEMMA AlwaysMInv == EmergencySpec => []MInv
<1>1. AloneInit => MInv
  BY InitMInv DEF AloneInit
<1>2. EInv /\ MInv /\ [EmergencyNext \/ SomeDevice]_allVars => MInv'
  BY MStep
<1> QED BY <1>1, <1>2, AlwaysEInv, PTL DEF EmergencySpec, allVars

\* update_friend_state and get_user_historical_location: who reports or reads, and whom an
\* alert names, was a friend at some time since the request arrived.
THEOREM FriendsOnly == EmergencySpec => []ActsForFriends
<1>1. MInv => ActsForFriends
  BY DEF MInv, AmongFriends, ActsForFriends, At
<1> QED BY <1>1, AlwaysMInv, PTL

\* get_user_historical_location: no telemetry without an emergency since the request arrived.
THEOREM EmergenciesOnly == EmergencySpec => []HistoryNeedsEmergency
<1>1. MInv => HistoryNeedsEmergency
  BY DEF MInv, InEmergency, HistoryNeedsEmergency
<1> QED BY <1>1, AlwaysMInv, PTL

-------------------------------------------------------------------------------
\* Changes and alerts.  An alert, published or on the way, is of an entry of the
\* history; while the changes of a user are alerted one by one there is one alert of his
\* on the way, of a change later than all that were published.
Entry(u, c, s) == c \in 1..Len(log[u]) /\ log[u][c] = s
Alert == [pushes: SUBSET Devices, mails: BOOLEAN, sms: BOOLEAN, perishable: BOOLEAN,
          about: Users \cup {NoUser}, state: States, change: Nat]

AlertsOfEntries ==
    /\ published \in Seq(Alert)
    /\ \A i \in 1..Len(published) : published[i].about \in Users =>
           Entry(published[i].about, published[i].change, published[i].state)
    /\ \A w \in Workers : Alerting(w) => Entry(request[w].user, request[w].change, request[w].to)

InTurn(u) ==
    /\ \A w, x \in OnTheWay(u) : w = x
    /\ \A w \in OnTheWay(u), i \in Published(u) : published[i].change < request[w].change
    /\ \A i, j \in Published(u) : i < j => published[i].change < published[j].change

LInv ==
    /\ \A u \in Users : Len(log[u]) \in Nat \ {0}
    /\ HistoryAlternates
    /\ AlertsOfEntries
    /\ OneAlertPerChange
    /\ \A u \in Users \ jumbled : InTurn(u)

LEMMA InitLInv == Init /\ published = <<>> => LInv
<1> SUFFICES ASSUME Init, published = <<>> PROVE LInv
  OBVIOUS
<1>1. \A u \in Users : log[u] = <<"Normal">> /\ Len(log[u]) = 1 /\ log[u][1] = "Normal"
  BY DEF Init
<1>2. HistoryAlternates
  <2>1. \A u \in Users : state[u] = "Normal"
    BY DEF Init
  <2>2. 1..1 - 1 = {}
    OBVIOUS
  <2> QED BY <1>1, <2>1, <2>2 DEF HistoryAlternates
<1>3. published = <<>> /\ published \in Seq(Alert) /\ Len(published) = 0
  OBVIOUS
<1>4. \A w \in Workers : ~Alerting(w)
  BY DEF Init, Alerting, At, Blank
<1>5. \A u \in Users : Published(u) = {} /\ OnTheWay(u) = {}
  BY <1>3, <1>4 DEF Published, OnTheWay
<1> QED BY <1>1, <1>2, <1>3, <1>4, <1>5 DEF LInv, AlertsOfEntries, OneAlertPerChange, InTurn

\* A step that publishes and changes nothing, and sets out to alert nothing.
LEMMA QuietLInv ==
  ASSUME LInv, UNCHANGED <<published, state, log, jumbled>>,
         \A w \in Workers : Alerting(w)' =>
             /\ Alerting(w) /\ request'[w].user = request[w].user
             /\ request'[w].change = request[w].change /\ request'[w].to = request[w].to
  PROVE  LInv'
<1>1. HistoryAlternates'
  BY DEF LInv, HistoryAlternates
<1>2. AlertsOfEntries'
  BY DEF LInv, AlertsOfEntries, Entry
<1>3. \A u \in Users : /\ Published(u)' = Published(u)
                       /\ OnTheWay(u)' \subseteq OnTheWay(u)
                       /\ \A w \in OnTheWay(u)' : request'[w].change = request[w].change
  BY DEF Published, OnTheWay
<1>4. OneAlertPerChange'
  BY <1>3 DEF LInv, OneAlertPerChange
<1>5. \A u \in Users \ jumbled' : InTurn(u)'
  BY <1>3 DEF LInv, InTurn
<1> QED BY <1>1, <1>2, <1>4, <1>5 DEF LInv

\* Publication: the alert of w is not on the way any more but the last of the published.
LEMMA PublishLInv == ASSUME EInv, LInv, NEW w \in Workers, Publish(w) PROVE LInv'
<1> DEFINE r == request[w]
<1>0. PICK a : a = [pushes |-> r.pushes, mails |-> r.mails, sms |-> FALSE, perishable |-> FALSE,
                    about |-> r.user, state |-> r.to, change |-> r.change]
  OBVIOUS
<1>1. r \in Request /\ r.user \in Users /\ Alerting(w)
  BY DEF EInv, EmergencyTypeOK, Publish, At, RequestOK, Alerting
<1>2. /\ a \in Alert /\ a.about = r.user /\ a.change = r.change /\ a.state = r.to
      /\ Entry(r.user, r.change, r.to)
  BY <1>0, <1>1 DEF Alert, Request, LInv, AlertsOfEntries
<1>3. published \in Seq(Alert) /\ published' = Append(published, a)
  BY <1>0 DEF Publish, LInv, AlertsOfEntries
<1> DEFINE n == Len(published)
<1>4. /\ n \in Nat /\ published' \in Seq(Alert) /\ Len(published') = n + 1
      /\ published'[n + 1] = a /\ \A i \in 1..n : published'[i] = published[i]
  BY <1>2, <1>3, LenProperties, AppendProperties
<1>5. UNCHANGED <<state, log, jumbled>>
  BY DEF Publish, history
<1>6. /\ ~Alerting(w)' /\ \A x \in Workers \ {w} : request'[x] = request[x]
  BY DEF Publish, Goto, Alerting, At, EInv, EmergencyTypeOK
<1>7. \A x \in Workers : Alerting(x)' => x # w /\ Alerting(x) /\ request'[x] = request[x]
  BY <1>6 DEF Alerting, At
<1> HIDE DEF n, r
<1>8. AlertsOfEntries'
  <2>1. ASSUME NEW i \in 1..Len(published')
        PROVE  (published[i].about \in Users =>
                   Entry(published[i].about, published[i].change, published[i].state))'
    <3>1. CASE i = n + 1
      BY <1>2, <1>4, <1>5, <3>1 DEF Entry
    <3>2. CASE i # n + 1
      BY <1>4, <1>5, <2>1, <3>2 DEF Entry, LInv, AlertsOfEntries, n
    <3> QED BY <3>1, <3>2
  <2> QED BY <1>4, <1>5, <1>7, <2>1 DEF AlertsOfEntries, Entry, LInv
<1>9. ASSUME NEW u \in Users
      PROVE  /\ Published(u) \subseteq 1..n
             /\ u # r.user => Published(u)' = Published(u)
             /\ u = r.user => Published(u)' = Published(u) \cup {n + 1} /\ w \in OnTheWay(u)
             /\ OnTheWay(u)' \subseteq OnTheWay(u) \ {w}
             /\ \A x \in OnTheWay(u)' : request'[x] = request[x]
             /\ \A i \in Published(u) : published'[i] = published[i]
  <2>1. Published(u) \subseteq 1..n /\ \A i \in Published(u) : published'[i] = published[i]
    BY <1>4 DEF Published, n
  <2>2. u # r.user => Published(u)' = Published(u)
    BY <1>2, <1>4 DEF Published, n
  <2>3. u = r.user => Published(u)' = Published(u) \cup {n + 1} /\ w \in OnTheWay(u)
    BY <1>1, <1>2, <1>4 DEF Published, OnTheWay, n, r
  <2>4. OnTheWay(u)' \subseteq OnTheWay(u) \ {w} /\ \A x \in OnTheWay(u)' : request'[x] = request[x]
    BY <1>7 DEF OnTheWay
  <2> QED BY <2>1, <2>2, <2>3, <2>4
<1>10. ASSUME NEW u \in Users
       PROVE  /\ \A i \in Published(u)' : log'[u][published'[i].change] = published'[i].state
              /\ \A i, j \in Published(u)' : published'[i].change = published'[j].change => i = j
              /\ \A x \in OnTheWay(u)', i \in Published(u)' : published'[i].change # request'[x].change
              /\ \A x, y \in OnTheWay(u)' : request'[x].change = request'[y].change => x = y
  <2>1. CASE u # r.user
    BY <1>5, <1>9, <2>1 DEF LInv, OneAlertPerChange
  <2>2. CASE u = r.user
    <3>1. \A i \in Published(u)' : i = n + 1 \/ (i \in Published(u) /\ published'[i] = published[i])
      BY <1>9, <2>2
    <3>2. w \in OnTheWay(u) /\ \A i \in Published(u) : published[i].change # r.change
      BY <1>9, <2>2 DEF LInv, OneAlertPerChange, r
    <3>3. \A x \in OnTheWay(u)' : x \in OnTheWay(u) /\ request'[x] = request[x] /\ request[x].change # r.change
      BY <1>9, <3>2 DEF LInv, OneAlertPerChange, r
    <3>4. log'[u][r.change] = r.to
      BY <1>2, <1>5, <2>2 DEF Entry
    <3> QED BY <1>2, <1>4, <1>5, <3>1, <3>2, <3>3, <3>4, SMTT(30) DEF LInv, OneAlertPerChange
  <2> QED BY <2>1, <2>2
<1>11. ASSUME NEW u \in Users \ jumbled' PROVE InTurn(u)'
  <2>0. InTurn(u)
    BY <1>5 DEF LInv
  <2>1. CASE u # r.user
    BY <1>9, <2>0, <2>1 DEF InTurn
  <2>2. CASE u = r.user
    <3>1. w \in OnTheWay(u) /\ OnTheWay(u)' = {}
      BY <1>9, <2>0, <2>2 DEF InTurn
    <3>2. \A i \in Published(u) : published[i].change < r.change /\ i \in 1..n
      BY <1>9, <2>0, <3>1 DEF InTurn, r
    <3>3. \A i \in Published(u)' : i = n + 1 \/ (i \in Published(u) /\ published'[i] = published[i])
      BY <1>9, <2>2
    <3>4. \A i, j \in Published(u)' : i < j => published'[i].change < published'[j].change
      BY <1>2, <1>4, <2>0, <3>2, <3>3 DEF InTurn
    <3> QED BY <3>1, <3>4 DEF InTurn
  <2> QED BY <2>1, <2>2
<1>12. HistoryAlternates' /\ \A u \in Users : Len(log'[u]) \in Nat \ {0}
  BY <1>5 DEF LInv, HistoryAlternates
<1>13. OneAlertPerChange'
  BY <1>10 DEF OneAlertPerChange
<1> QED BY <1>8, <1>11, <1>12, <1>13 DEF LInv

\* A change: its entry is new, and so is what sets out to alert it.
LEMMA UpdateLInv ==
  ASSUME EInv, LInv, NEW w \in Workers, Update(w), state[request[w].user] # request[w].to
  PROVE  LInv'
<1> DEFINE u == request[w].user
           s == request[w].to
<1>0. request[w] \in Request /\ u \in Users /\ s \in States /\ request \in [Workers -> Request]
  BY DEF EInv, EmergencyTypeOK, Update, At, RequestOK, Request
<1>1. /\ state' = [state EXCEPT ![u] = s] /\ log' = [log EXCEPT ![u] = Append(@, s)]
      /\ jumbled' = IF \E x \in Workers : Alerting(x) /\ request[x].user = u
                    THEN jumbled \cup {u} ELSE jumbled
      /\ request' = [request EXCEPT ![w].step = "details", ![w].change = Len(log[u]) + 1]
      /\ published' = published
  BY DEF Update
<1>2. /\ state \in [Users -> States] /\ log \in [Users -> Seq(States)]
      /\ log[u] \in Seq(States) /\ Len(log[u]) \in Nat \ {0}
  BY <1>0 DEF EInv, EmergencyTypeOK, LInv
<1>n. PICK n \in Nat : n = Len(log[u])
  BY <1>2
<1>3. /\ \A v \in Users \ {u} : log'[v] = log[v] /\ state'[v] = state[v]
      /\ log'[u] = Append(log[u], s) /\ state'[u] = s
  BY <1>0, <1>1, <1>2
<1>4. /\ Len(log'[u]) = n + 1 /\ log'[u][n + 1] = s /\ \A i \in 1..n : log'[u][i] = log[u][i]
  BY <1>0, <1>2, <1>n, <1>3, AppendProperties
<1>5. /\ request'[w] = [request[w] EXCEPT !.step = "details", !.change = n + 1]
      /\ \A x \in Workers \ {w} : request'[x] = request[x]
  BY <1>0, <1>1, <1>n
<1>6. /\ request'[w].user = u /\ request'[w].to = s /\ request'[w].change = n + 1
      /\ ~Alerting(w) /\ Alerting(w)'
  <2>1. ~Alerting(w)
    BY DEF Update, Alerting, At
  <2> QED BY <1>0, <1>5, <2>1 DEF Alerting, At, Request
<1> HIDE DEF u, s
<1>7. HistoryAlternates'
  <2> SUFFICES ASSUME NEW v \in Users
               PROVE  /\ log'[v][Len(log'[v])] = state'[v]
                      /\ \A i \in 1..Len(log'[v]) - 1 : log'[v][i] # log'[v][i + 1]
    BY DEF HistoryAlternates
  <2>1. CASE v # u
    BY <1>3, <2>1 DEF LInv, HistoryAlternates
  <2>2. CASE v = u
    <3>0. n \in 1..n
      BY <1>2, <1>n
    <3>1. log[u][n] = state[u] /\ n \in 1..n /\ \A i \in 1..n - 1 : log[u][i] # log[u][i + 1]
      BY <1>0, <1>n, <3>0 DEF LInv, HistoryAlternates
    <3>2. state[u] # s
      BY DEF u, s
    <3>3. ASSUME NEW i \in 1..n PROVE log'[u][i] # log'[u][i + 1]
      <4>1. CASE i = n
        BY <1>4, <3>1, <3>2, <4>1
      <4>2. CASE i # n
        <5>1. i \in 1..n - 1 /\ i + 1 \in 1..n
          BY <4>2
        <5> QED BY <1>4, <3>1, <5>1
      <4> QED BY <4>1, <4>2
    <3>4. log'[u][Len(log'[u])] = state'[u]
      BY <1>3, <1>4
    <3>5. 1..Len(log'[u]) - 1 = 1..n
      BY <1>4
    <3> QED BY <2>2, <3>3, <3>4, <3>5
  <2> QED BY <2>1, <2>2
<1>8. \A v \in Users : Len(log'[v]) \in Nat \ {0}
  BY <1>3, <1>4 DEF LInv
<1>9. \A v \in Users : \A c, t : Entry(v, c, t) => Entry(v, c, t)'
  <2> SUFFICES ASSUME NEW v \in Users, NEW c, NEW t, Entry(v, c, t) PROVE Entry(v, c, t)'
    OBVIOUS
  <2>1. CASE v # u
    BY <1>3, <2>1 DEF Entry
  <2>2. CASE v = u
    BY <1>n, <1>4, <2>2 DEF Entry
  <2> QED BY <2>1, <2>2
<1>10. AlertsOfEntries'
  <2>1. \A i \in 1..Len(published) : published[i].about \in Users =>
            Entry(published[i].about, published[i].change, published[i].state)'
    BY <1>1, <1>9 DEF LInv, AlertsOfEntries
  <2>2. ASSUME NEW x \in Workers, Alerting(x)'
        PROVE  Entry(request[x].user, request[x].change, request[x].to)'
    <3>1. CASE x = w
      BY <1>4, <1>6, <3>1 DEF Entry
    <3>2. CASE x # w
      <4>1. Alerting(x) /\ request[x].user \in Users /\ request'[x] = request[x]
        BY <1>5, <2>2, <3>2 DEF Alerting, At, EInv, RequestOK
      <4> QED BY <1>9, <4>1 DEF LInv, AlertsOfEntries
    <3> QED BY <3>1, <3>2
  <2> QED BY <1>1, <2>1, <2>2 DEF LInv, AlertsOfEntries
<1>11. ASSUME NEW v \in Users
       PROVE  /\ Published(v)' = Published(v)
              /\ v # u => OnTheWay(v)' = OnTheWay(v)
              /\ v = u => OnTheWay(v)' = OnTheWay(v) \cup {w}
              /\ w \notin OnTheWay(v)
              /\ \A x \in OnTheWay(v) : request'[x] = request[x]
  <2>1. \A x \in Workers \ {w} : Alerting(x)' <=> Alerting(x)
    BY <1>5 DEF Alerting, At
  <2>2. Published(v)' = Published(v)
    BY <1>1 DEF Published
  <2>3. w \notin OnTheWay(v)
    BY <1>6 DEF OnTheWay
  <2>4. \A x \in OnTheWay(v) : request'[x] = request[x]
    BY <1>5, <2>3 DEF OnTheWay
  <2>5. \A x \in Workers \ {w} : x \in OnTheWay(v)' <=> x \in OnTheWay(v)
    <3>1. \A x \in Workers \ {w} : request'[x] = request[x]
      BY <1>5
    <3> QED BY <2>1, <3>1 DEF OnTheWay
  <2>6. w \in OnTheWay(v)' <=> v = u
    BY <1>6 DEF OnTheWay
  <2>7. OnTheWay(v) \subseteq Workers /\ OnTheWay(v)' \subseteq Workers
    BY DEF OnTheWay
  <2>8. v # u => OnTheWay(v)' = OnTheWay(v)
    BY <2>3, <2>5, <2>6, <2>7
  <2>9. v = u => OnTheWay(v)' = OnTheWay(v) \cup {w}
    BY <2>3, <2>5, <2>6, <2>7
  <2> QED BY <2>2, <2>3, <2>4, <2>8, <2>9
\* All alerts of the user are of entries before the new one.
<1>12. /\ \A i \in Published(u) : published[i].change \in 1..n
       /\ \A x \in OnTheWay(u) : request[x].change \in 1..n
  BY <1>n, <1>0 DEF LInv, AlertsOfEntries, Entry, Published, OnTheWay
<1>13. ASSUME NEW v \in Users
       PROVE  /\ \A i \in Published(v)' : log'[v][published'[i].change] = published'[i].state
              /\ \A i, j \in Published(v)' : published'[i].change = published'[j].change => i = j
              /\ \A x \in OnTheWay(v)', i \in Published(v)' : published'[i].change # request'[x].change
              /\ \A x, y \in OnTheWay(v)' : request'[x].change = request'[y].change => x = y
  <2>0. published' = published /\ Published(v)' = Published(v)
    BY <1>1, <1>11
  <2>1. CASE v # u
    <3>1. /\ log'[v] = log[v] /\ OnTheWay(v)' = OnTheWay(v)
          /\ \A x \in OnTheWay(v) : request'[x] = request[x]
      BY <1>3, <1>11, <2>1
    <3> QED BY <2>0, <3>1 DEF LInv, OneAlertPerChange
  <2>2. CASE v = u
    <3>1. \A i \in Published(v) : log'[v][published[i].change] = published[i].state
      BY <1>4, <1>12, <2>2 DEF LInv, OneAlertPerChange
    <3>2. \A x \in OnTheWay(v)' : \/ x = w /\ request'[x].change = n + 1
                                  \/ /\ x \in OnTheWay(v) /\ request'[x].change = request[x].change
                                     /\ request[x].change \in 1..n
      BY <1>6, <1>11, <1>12, <2>2
    <3>3. \A x \in OnTheWay(v)', i \in Published(v) : published[i].change # request'[x].change
      BY <1>12, <2>2, <3>2 DEF LInv, OneAlertPerChange
    <3>4. \A x, y \in OnTheWay(v)' : request'[x].change = request'[y].change => x = y
      BY <3>2 DEF LInv, OneAlertPerChange
    <3>5. \A i, j \in Published(v) : published[i].change = published[j].change => i = j
      BY DEF LInv, OneAlertPerChange
    <3> QED BY <2>0, <3>1, <3>3, <3>4, <3>5
  <2> QED BY <2>1, <2>2
<1>14. ASSUME NEW v \in Users \ jumbled' PROVE InTurn(v)'
  <2>0. InTurn(v)
    BY <1>1 DEF LInv
  <2>1. CASE v # u
    <3>1. /\ OnTheWay(v)' = OnTheWay(v) /\ Published(v)' = Published(v)
          /\ \A x \in OnTheWay(v) : request'[x].change = request[x].change
      BY <1>11, <2>1
    <3> QED BY <1>1, <2>0, <3>1 DEF InTurn
  <2>2. CASE v = u
    <3>1. OnTheWay(v) = {}
      BY <1>1, <2>2 DEF OnTheWay
    <3>2. OnTheWay(v)' = {w} /\ Published(v)' = Published(v)
      BY <1>11, <2>2, <3>1
    <3>3. \A i \in Published(v) : published[i].change < request'[w].change
      BY <1>6, <1>12, <2>2
    <3> QED BY <1>1, <2>0, <3>2, <3>3 DEF InTurn
  <2> QED BY <2>1, <2>2
<1>15. OneAlertPerChange'
  BY <1>13 DEF OneAlertPerChange
<1> QED BY <1>7, <1>8, <1>10, <1>14, <1>15 DEF LInv

LEMMA GotoStep == ASSUME EInv, NEW w \in Workers, NEW s, Goto(w, s) PROVE request'[w].step = s
  BY DEF EInv, EmergencyTypeOK, Request, Goto

LEMMA LStep == ASSUME EInv, LInv, [EmergencyNext \/ SomeDevice]_allVars PROVE LInv'
<1>0. request \in [Workers -> Request]
  BY DEF EInv, EmergencyTypeOK
<1>1. CASE UNCHANGED allVars \/ SomeDevice
  BY <1>1, QuietLInv DEF allVars, SomeDevice, stateVars, history, Alerting, At
<1>2. CASE World
  <2>1. UNCHANGED <<published, state, log, jumbled, request>>
    BY <1>2 DEF World, Befriend, Unfriend, history
  <2> QED BY <2>1, QuietLInv DEF Alerting, At
\* A step of w that sets out to alert nothing.
<1>3. ASSUME NEW w \in Workers, UNCHANGED <<published, state, log, jumbled>>,
             \A x \in Workers \ {w} : request'[x] = request[x],
             Alerting(w)' => /\ Alerting(w) /\ request'[w].user = request[w].user
                             /\ request'[w].change = request[w].change
                             /\ request'[w].to = request[w].to
      PROVE  LInv'
  <2>1. \A x \in Workers \ {w} : Alerting(x)' <=> Alerting(x)
    BY <1>3 DEF Alerting, At
  <2> QED BY <1>3, <2>1, QuietLInv
<1>4. ASSUME NEW w \in Workers, NEW kind, NEW by, NEW u, NEW to, NEW step \in {"update", "friend"},
             Arrive(w, kind, by, u, to, step)
      PROVE  LInv'
  <2>1. request'[w].step = step /\ \A x \in Workers \ {w} : request'[x] = request[x]
    BY <1>0, <1>4 DEF Arrive, Blank
  <2> QED BY <1>3, <1>4, <2>1 DEF Arrive, Alerting, At
<1>5. ASSUME NEW w \in Workers,
             \/ AssertFriends(w) \/ AssertEmergency(w) \/ GetTelemetry(w)
             \/ GetDetails(w) \/ NotPublished(w) \/ Reply(w) \/ Fail(w)
      PROVE  LInv'
  <2>1. UNCHANGED <<published, state, log, jumbled>>
    BY <1>5, MovingSteps
  <2>2. CASE Leave(w)
    <3>1. request'[w] = Blank /\ \A x \in Workers \ {w} : request'[x] = request[x]
      BY <2>2, LeaveOK
    <3> QED BY <1>3, <2>1, <3>1 DEF Alerting, At, Blank
  <2>3. CASE ~Leave(w)
    <3>1. PICK s \in {"update", "emergency", "telemetry", "shown", "contacts", "reply"} : Goto(w, s)
      BY <1>5, <2>3, MovingSteps DEF Moves
    <3>2. /\ request'[w] = [request[w] EXCEPT !.step = s]
          /\ \A x \in Workers \ {w} : request'[x] = request[x]
      BY <1>0, <3>1 DEF Goto
    <3>3. /\ request'[w].step = s /\ request'[w].user = request[w].user
          /\ request'[w].change = request[w].change /\ request'[w].to = request[w].to
      BY <1>0, <3>2 DEF Request
    <3>4. s = "contacts" => Alerting(w)
      <4>1. CASE GetDetails(w)
        BY <4>1 DEF GetDetails, Alerting, At
      <4>2. CASE AssertFriends(w)
        BY <2>3, <3>3, <4>2, GotoStep DEF AssertFriends
      <4>3. CASE AssertEmergency(w)
        BY <2>3, <3>3, <4>3, GotoStep DEF AssertEmergency
      <4>4. CASE GetTelemetry(w) \/ NotPublished(w)
        BY <3>3, <4>4, GotoStep DEF GetTelemetry, NotPublished
      <4> QED BY <1>5, <2>3, <4>1, <4>2, <4>3, <4>4 DEF Reply, Fail
    <3> QED BY <1>3, <2>1, <3>2, <3>3, <3>4 DEF Alerting, At
  <2> QED BY <2>2, <2>3
<1>6. ASSUME NEW w \in Workers, Update(w) PROVE LInv'
  <2>1. CASE state[request[w].user] # request[w].to
    BY <1>6, <2>1, UpdateLInv
  <2>2. CASE state[request[w].user] = request[w].to
    <3>1. Leave(w) /\ UNCHANGED <<published, state, log, jumbled>>
      BY <1>6, <2>2 DEF Update
    <3>2. request'[w] = Blank /\ \A x \in Workers \ {w} : request'[x] = request[x]
      BY <3>1, LeaveOK
    <3> QED BY <1>3, <3>1, <3>2 DEF Alerting, At, Blank
  <2> QED BY <2>1, <2>2
<1>7. ASSUME NEW w \in Workers, GetContacts(w) \/ Gather(w) PROVE LInv'
  <2>1. /\ Alerting(w) /\ UNCHANGED <<published, state, log, jumbled>>
    BY <1>7 DEF GetContacts, Gather, Alerting, At, history
  <2>2. /\ request'[w].user = request[w].user /\ request'[w].change = request[w].change
        /\ request'[w].to = request[w].to /\ \A x \in Workers \ {w} : request'[x] = request[x]
    <3>0. request[w] \in Request
      BY <1>0
    <3>1. ASSUME NEW s, NEW todo, NEW pushes, NEW mails,
                 request' = [request EXCEPT ![w].step = s, ![w].todo = todo, ![w].pushes = pushes,
                                            ![w].mails = mails]
          PROVE  /\ request'[w].user = request[w].user /\ request'[w].change = request[w].change
                 /\ request'[w].to = request[w].to /\ \A x \in Workers \ {w} : request'[x] = request[x]
      BY <1>0, <3>0, <3>1 DEF Request
    <3>2. CASE GetContacts(w)
      <4>1. ASSUME NEW s, NEW todo,
                   request' = [request EXCEPT ![w].step = s, ![w].todo = todo]
            PROVE  /\ request'[w].user = request[w].user /\ request'[w].change = request[w].change
                   /\ request'[w].to = request[w].to /\ \A x \in Workers \ {w} : request'[x] = request[x]
        BY <1>0, <3>0, <4>1 DEF Request
      <4>2. ASSUME Goto(w, "reply")
            PROVE  /\ request'[w].user = request[w].user /\ request'[w].change = request[w].change
                   /\ request'[w].to = request[w].to /\ \A x \in Workers \ {w} : request'[x] = request[x]
        BY <1>0, <3>0, <4>2 DEF Request, Goto
      <4> QED BY <3>2, <4>1, <4>2 DEF GetContacts
    <3>3. CASE Gather(w)
      <4>1. PICK v \in request[w].todo : \E pushes \in SUBSET Devices, mails \in BOOLEAN :
                 LET rest == request[w].todo \ {v}
                 IN  request' = [request EXCEPT ![w].step = IF rest = {} THEN "publish" ELSE "gather",
                                                ![w].todo = rest,
                                                ![w].pushes = @ \cup pushes,
                                                ![w].mails = @ \/ mails]
        BY <3>3 DEF Gather
      <4> DEFINE rest == request[w].todo \ {v}
                 s == IF rest = {} THEN "publish" ELSE "gather"
      <4>2. PICK pushes, mails : request' = [request EXCEPT ![w].step = s, ![w].todo = rest,
                                                            ![w].pushes = pushes, ![w].mails = mails]
        BY <1>0, <4>1
      <4> HIDE DEF rest, s
      <4> QED BY <3>1, <4>2
    <3> QED BY <1>7, <3>2, <3>3
  <2> QED BY <1>3, <2>1, <2>2
<1>8. ASSUME NEW w \in Workers, Work(w) PROVE LInv'
  <2>1. ASSUME NEW u, NEW s, UpdateState(w, u, s) PROVE LInv'
    BY <1>4, <2>1 DEF UpdateState
  <2>2. ASSUME NEW u, NEW v, UpdateFriendState(w, u, v) \/ GetHistoricalLocation(w, u, v) PROVE LInv'
    BY <1>4, <2>2 DEF UpdateFriendState, GetHistoricalLocation
  <2> QED BY <1>5, <1>6, <1>7, <1>8, <2>1, <2>2, PublishLInv DEF Work
<1> QED BY <1>1, <1>2, <1>8 DEF EmergencyNext

LEMMA AlwaysLInv == EmergencySpec => []LInv
<1>1. AloneInit => LInv
  BY InitLInv DEF AloneInit
<1>2. EInv /\ LInv /\ [EmergencyNext \/ SomeDevice]_allVars => LInv'
  BY LStep
<1> QED BY <1>1, <1>2, AlwaysEInv, PTL DEF EmergencySpec, allVars

\* update_state: requests that race to change one state are one change.
THEOREM OneChangeEach == EmergencySpec => []HistoryAlternates
<1>1. LInv => HistoryAlternates
  BY DEF LInv
<1> QED BY <1>1, AlwaysLInv, PTL

\* update_user_state: each change is alerted at most once, as what it was.
THEOREM OneAlertEach == EmergencySpec => []OneAlertPerChange
<1>1. LInv => OneAlertPerChange
  BY DEF LInv
<1> QED BY <1>1, AlwaysLInv, PTL

\* send_emergency_notifications: alerts are in order for whoever's changes do not overlap
\* their alerts.
THEOREM InOrder == EmergencySpec => []AlertsInOrder
<1>1. LInv => AlertsInOrder
  BY DEF LInv, InTurn, AlertsInOrder
<1> QED BY <1>1, AlwaysLInv, PTL

===============================================================================
