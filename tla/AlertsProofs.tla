------------------------------ MODULE AlertsProofs ------------------------------
(***************************************************************************)
(* Proofs about the notification server (Notifications) as the emergency   *)
(* service and the authentication server feed it (Alerts), for any users,  *)
(* devices and workers and any number of messages, crashes and faults.     *)
(***************************************************************************)
EXTENDS Alerts, EmergencyProofs

Ids == Server!Ids
Message == Server!Message

-------------------------------------------------------------------------------
\* What is published.

QueueOK == published \in Seq(Message)

\* A message takes the next place; those that are published stay as they are.
Appended ==
    /\ Len(published') = Len(published) + 1
    /\ \A i \in 1..Len(published) : published'[i] = published[i]

LEMMA AppendOK ==
  ASSUME QueueOK, NEW m \in Message, published' = Append(published, m)
  PROVE  QueueOK' /\ Appended
BY AppendProperties DEF QueueOK, Appended

LEMMA PublishOK ==
  ASSUME EInv, QueueOK, NEW w \in Workers, Publish(w)
  PROVE  QueueOK' /\ Appended
<1>1. request[w] \in Request
  BY DEF EInv, EmergencyTypeOK
<1> DEFINE m == [pushes |-> request[w].pushes, mails |-> request[w].mails, sms |-> FALSE,
                 perishable |-> FALSE, about |-> request[w].user, state |-> request[w].to,
                 change |-> request[w].change]
<1>2. m \in Message
  BY <1>1 DEF Request, States, Message, Server!Message, Server!States
<1>3. published' = Append(published, m)
  BY DEF Publish
<1> HIDE DEF m
<1> QED BY <1>2, <1>3, AppendOK

LEMMA SendCodeOK ==
  ASSUME QueueOK, NEW sms \in BOOLEAN, SendCode(sms)
  PROVE  QueueOK' /\ Appended
<1> DEFINE m == [pushes |-> {}, mails |-> ~sms, sms |-> sms, perishable |-> TRUE,
                 about |-> NoUser, state |-> "Normal", change |-> 0]
<1>1. m \in Message
  BY DEF Message, Server!Message, Server!States
<1>2. published' = Append(published, m)
  BY DEF SendCode
<1> HIDE DEF m
<1> QED BY <1>1, <1>2, AppendOK

\* The emergency service publishes or leaves the queue as it is; devices it only reads.
LEMMA EmergencySteps ==
  ASSUME EInv, QueueOK, EmergencyNext
  PROVE  /\ (QueueOK' /\ Appended) \/ UNCHANGED published
         /\ UNCHANGED token
<1>1. ASSUME NEW u \in Users, NEW v \in Users, Befriend(u, v) \/ Unfriend(u, v)
      PROVE  UNCHANGED <<published, token>>
  BY <1>1 DEF Befriend, Unfriend
<1>2. ASSUME NEW w \in Workers, Work(w)
      PROVE  (Publish(w) \/ UNCHANGED published) /\ UNCHANGED token
  BY <1>2 DEF Work, UpdateState, UpdateFriendState, GetHistoricalLocation, Arrive, AssertFriends,
     AssertEmergency, GetTelemetry, Update, GetDetails, GetContacts, Gather, Publish, NotPublished,
     Reply, Fail
<1>3. ASSUME NEW w \in Workers, Publish(w) PROVE QueueOK' /\ Appended
  BY <1>3, PublishOK
<1> QED BY <1>1, <1>2, <1>3 DEF EmergencyNext, World

-------------------------------------------------------------------------------
\* How far a message has come tells what was sent of it.

ServerOK ==
    /\ task \in [Ids -> Server!Steps]
    /\ token \in [Devices -> Server!Tokens]
    /\ tried \in [Ids -> SUBSET Devices]
    /\ copies \in [Ids -> Nat]
    /\ crashes \in Nat

\* What a device once was is on record.
DevicesOK ==
    \A d \in Devices :
        /\ token[d] = "none" => d \in rowless
        /\ token[d] = "null" => d \in tokenless

Mailed(i) == published[i].mails => i \in mailed
Pushed(i) == published[i].pushes \ tokenless \subseteq tried[i]
Texted(i) == published[i].sms => i \in texted
AllKnown(i) == published[i].pushes \cap rowless = {}
Excused(i) == i \in failed \cup expired

Progress(i) ==
    /\ task[i] # "queued" => i <= Len(published)
    /\ task[i] \in {"pushes", "sms"} => Mailed(i)
    /\ task[i] = "sms" => Pushed(i)
    /\ task[i] \in {"ack", "gone"} /\ ~Excused(i) =>
           Mailed(i) /\ (AllKnown(i) => Pushed(i) /\ Texted(i))

\* A message that may still be pushed has been as often as the server crashed, at most.
Copies(i) ==
    /\ copies[i] <= crashes + 1
    /\ task[i] \in {"queued", "pushes"} => copies[i] <= crashes

NInv ==
    /\ QueueOK /\ ServerOK /\ DevicesOK
    /\ \A i \in Ids : Progress(i) /\ Copies(i)

LEMMA IdsAreNat == Ids \subseteq Nat \ {0}
BY ServerBoundsAreNat DEF Ids, Server!Ids

LEMMA InitNInv == AlertsInit => EInv /\ NInv
<1> SUFFICES ASSUME AlertsInit PROVE EInv /\ NInv
  OBVIOUS
<1>1. EInv
  <2>1. state \in [Users -> States] /\ log \in [Users -> Seq(States)]
    BY DEF AlertsInit, Init, States
  <2>2. request \in [Workers -> Request] /\ \A w \in Workers : RequestOK(request[w])
    BY BlankType DEF AlertsInit, Init, RequestOK
  <2> QED BY <2>1, <2>2, MaxRequestsIsNat DEF AlertsInit, Init, EInv, EmergencyTypeOK
<1>2. QueueOK /\ ServerOK /\ DevicesOK
  BY DEF AlertsInit, Server!Init, QueueOK, ServerOK, DevicesOK, Server!Steps, Ids
<1>3. \A i \in Ids : Progress(i) /\ Copies(i)
  BY DEF AlertsInit, Server!Init, Progress, Copies, Ids
<1> QED BY <1>1, <1>2, <1>3 DEF NInv

\* Publishing touches no message that is there.
LEMMA GrowKeeps ==
  ASSUME NInv, (QueueOK' /\ Appended) \/ UNCHANGED published, UNCHANGED <<token, serverOnly>>
  PROVE  NInv'
<1>1. QueueOK'
  BY DEF NInv, QueueOK
<1>2. ServerOK' /\ DevicesOK'
  BY DEF NInv, ServerOK, DevicesOK, serverOnly
<1>3. ASSUME NEW i \in Ids PROVE (Progress(i) /\ Copies(i))'
  <2>1. Progress(i) /\ Copies(i)
    BY DEF NInv
  <2>2. Copies(i)'
    BY <2>1 DEF Copies, serverOnly
  <2>3. task[i] # "queued" => published'[i] = published[i] /\ i <= Len(published')
    <3>1. Len(published) \in Nat
      BY DEF NInv, QueueOK
    <3> QED BY <2>1, <3>1, IdsAreNat DEF Progress, Appended
  <2>4. Progress(i)'
    BY <2>1, <2>3 DEF Progress, Mailed, Pushed, Texted, AllKnown, Excused, serverOnly
  <2> QED BY <2>2, <2>4
<1> QED BY <1>1, <1>2, <1>3 DEF NInv

-------------------------------------------------------------------------------
\* The server.

\* Devices come and go: what they are now goes on record.
LEMMA MoveKeeps ==
  ASSUME NInv, NEW d \in Devices, NEW t \in Server!Tokens, Server!Move(d, t)
  PROVE  NInv'
<1>1. UNCHANGED <<published, task, crashes, tried, mailed, texted, copies, failed, expired>>
      /\ rowless \subseteq rowless' /\ tokenless \subseteq tokenless'
  BY DEF Server!Move, Server!sent
<1>2. QueueOK' /\ ServerOK'
  BY <1>1 DEF NInv, QueueOK, ServerOK, Server!Move
<1>3. DevicesOK'
  BY <1>1 DEF NInv, ServerOK, DevicesOK, Server!Move
<1>4. ASSUME NEW i \in Ids PROVE (Progress(i) /\ Copies(i))'
  <2>1. Progress(i) /\ Copies(i)
    BY DEF NInv
  <2>2. Copies(i)'
    BY <1>1, <2>1 DEF Copies
  <2>3. (Mailed(i) => Mailed(i)') /\ (Pushed(i) => Pushed(i)') /\ (Texted(i) => Texted(i)')
        /\ (AllKnown(i)' => AllKnown(i)) /\ (Excused(i) => Excused(i)')
    BY <1>1 DEF Mailed, Pushed, Texted, AllKnown, Excused
  <2>4. Progress(i)'
    BY <1>1, <2>1, <2>3 DEF Progress, Excused
  <2> QED BY <2>2, <2>4
<1> QED BY <1>2, <1>3, <1>4 DEF NInv

\* A step of message i from step "from" to step "to": the other messages do not notice.
Moved(i, from, to) ==
    /\ i <= Len(published) /\ task[i] = from
    /\ task' = [task EXCEPT ![i] = to]
    /\ UNCHANGED <<published, token, rowless, tokenless, crashes>>
    /\ \A k \in Ids \ {i} : tried'[k] = tried[k] /\ copies'[k] = copies[k]
    /\ mailed \subseteq mailed' /\ texted \subseteq texted'
    /\ failed \subseteq failed' /\ expired \subseteq expired'
    /\ \A k \in Ids \ {i} : k \in failed' \cup expired' => k \in failed \cup expired
    /\ tried' \in [Ids -> SUBSET Devices] /\ copies' \in [Ids -> Nat]

LEMMA MovedKeeps ==
  ASSUME NInv, NEW i \in Ids, NEW from, NEW to \in Server!Steps, Moved(i, from, to),
         Progress(i)', Copies(i)'
  PROVE  NInv'
<1>1. QueueOK' /\ ServerOK' /\ DevicesOK'
  BY DEF NInv, QueueOK, ServerOK, DevicesOK, Moved
<1>2. ASSUME NEW k \in Ids \ {i} PROVE (Progress(k) /\ Copies(k))'
  <2>1. Progress(k) /\ Copies(k) /\ task'[k] = task[k]
    BY DEF NInv, Moved, ServerOK
  <2>2. Copies(k)'
    BY <2>1 DEF Copies, Moved
  <2>3. Progress(k)'
    BY <2>1 DEF Progress, Mailed, Pushed, Texted, AllKnown, Excused, Moved
  <2> QED BY <2>2, <2>3
<1> QED BY <1>1, <1>2 DEF NInv

LEMMA MailsKeeps ==
  ASSUME NInv, NEW i \in Ids, Server!SendMails(i)
  PROVE  NInv'
<1> USE DEF Server!Goto, Server!At, Server!devices
<1>1. Moved(i, "queued", "pushes")
  BY DEF Server!SendMails, Moved, NInv, ServerOK
<1>2. task'[i] = "pushes"
  BY <1>1 DEF Moved, NInv, ServerOK
<1>3. Progress(i)'
  BY <1>1, <1>2 DEF Server!SendMails, Progress, Mailed, Moved
<1>4. Copies(i)'
  BY <1>1, <1>2 DEF Server!SendMails, Copies, NInv, Moved
<1> QED BY <1>1, <1>3, <1>4, MovedKeeps DEF Server!Steps

LEMMA PushesKeeps ==
  ASSUME NInv, NEW i \in Ids, Server!SendPushes(i)
  PROVE  NInv'
<1> USE DEF Server!Goto, Server!At, Server!devices
<1>1. /\ task[i] = "pushes" /\ i <= Len(published)
      /\ copies' = [copies EXCEPT ![i] = @ + 1]
      /\ UNCHANGED <<published, token, rowless, tokenless, crashes, mailed, texted, failed, expired>>
  BY DEF Server!SendPushes
<1>2. published[i] \in Message /\ published[i].pushes \subseteq Devices
  <2>1. published \in Seq(Message) /\ i \in Nat \ {0}
    BY IdsAreNat DEF NInv, QueueOK
  <2>2. published[i] \in Message
    BY <1>1, <2>1, ElementOfSeq
  <2> QED BY <2>2 DEF Message, Server!Message
<1>3. Mailed(i) /\ copies[i] \in Nat /\ copies[i] <= crashes /\ crashes \in Nat
  BY <1>1 DEF NInv, Progress, Copies, ServerOK
<1>4. copies' \in [Ids -> Nat] /\ copies'[i] = copies[i] + 1
      /\ \A k \in Ids \ {i} : copies'[k] = copies[k]
  BY <1>1, <1>3 DEF NInv, ServerOK
<1>5. CASE Server!Known(i) = published[i].pushes
  <2>1. /\ tried' = [tried EXCEPT ![i] = @ \cup Server!Reachable(i)]
        /\ task' = [task EXCEPT ![i] = "sms"]
    BY <1>5 DEF Server!SendPushes
  <2>2. Server!Reachable(i) \subseteq Devices
    BY <1>2 DEF Server!Reachable
  <2>3. Moved(i, "pushes", "sms")
    BY <1>1, <1>4, <2>1, <2>2 DEF Moved, NInv, ServerOK
  <2>4. task'[i] = "sms" /\ tried'[i] = tried[i] \cup Server!Reachable(i)
    BY <2>1 DEF NInv, ServerOK
  <2>5. published[i].pushes \ tokenless \subseteq Server!Reachable(i)
    BY <1>2, <1>5 DEF Server!Known, Server!Reachable, NInv, ServerOK, DevicesOK, Server!Tokens
  <2>6. Progress(i)'
    BY <1>1, <1>3, <2>4, <2>5 DEF Progress, Mailed, Pushed
  <2>7. Copies(i)'
    BY <1>1, <1>3, <1>4, <2>4 DEF Copies
  <2> QED BY <2>3, <2>6, <2>7, MovedKeeps DEF Server!Steps
<1>6. CASE Server!Known(i) # published[i].pushes
  <2>1. PICK some \in SUBSET Server!Reachable(i) : tried' = [tried EXCEPT ![i] = @ \cup some]
    BY <1>6 DEF Server!SendPushes
  <2>2. task' = [task EXCEPT ![i] = "ack"]
    BY <1>6 DEF Server!SendPushes
  <2>3. some \subseteq Devices
    BY <1>2 DEF Server!Reachable
  <2>4. Moved(i, "pushes", "ack")
    BY <1>1, <1>4, <2>1, <2>2, <2>3 DEF Moved, NInv, ServerOK
  <2>5. task'[i] = "ack"
    BY <2>2 DEF NInv, ServerOK
  <2>6. ~AllKnown(i)
    BY <1>2, <1>6 DEF Server!Known, AllKnown, NInv, DevicesOK
  <2>7. Progress(i)'
    BY <1>1, <1>3, <2>5, <2>6 DEF Progress, Mailed, AllKnown
  <2>8. Copies(i)'
    BY <1>1, <1>3, <1>4, <2>5 DEF Copies
  <2> QED BY <2>4, <2>7, <2>8, MovedKeeps DEF Server!Steps
<1> QED BY <1>5, <1>6

LEMMA FailKeeps ==
  ASSUME NInv, NEW i \in Ids, Server!FailLookup(i)
  PROVE  NInv'
<1> USE DEF Server!Goto, Server!At, Server!devices
<1>1. Moved(i, task[i], "ack")
  BY DEF Server!FailLookup, Moved, NInv, ServerOK
<1>2. task'[i] = "ack" /\ i \in failed'
  BY <1>1 DEF Moved, NInv, ServerOK, Server!FailLookup
<1>3. Progress(i)'
  BY <1>1, <1>2 DEF Progress, Excused, Moved
<1>4. Copies(i)'
  BY <1>1, <1>2 DEF Server!FailLookup, Copies, NInv, Moved
<1> QED BY <1>1, <1>3, <1>4, MovedKeeps DEF Server!Steps

LEMMA SmsKeeps ==
  ASSUME NInv, NEW i \in Ids, Server!SendSms(i)
  PROVE  NInv'
<1> USE DEF Server!Goto, Server!At, Server!devices
<1>1. Moved(i, "sms", "ack")
  BY DEF Server!SendSms, Moved, NInv, ServerOK
<1>2. task'[i] = "ack"
  BY <1>1 DEF Moved, NInv, ServerOK
<1>3. Mailed(i) /\ Pushed(i)
  BY DEF NInv, Progress, Server!SendSms
<1>4. Mailed(i)' /\ Pushed(i)' /\ Texted(i)'
  BY <1>3 DEF Mailed, Pushed, Texted, Server!SendSms
<1>5. Progress(i)'
  BY <1>1, <1>2, <1>4 DEF Progress, Moved
<1>6. Copies(i)'
  BY <1>1, <1>2 DEF Server!SendSms, Copies, NInv, Moved
<1> QED BY <1>1, <1>5, <1>6, MovedKeeps DEF Server!Steps

LEMMA AckKeeps ==
  ASSUME NInv, NEW i \in Ids, Server!Ack(i)
  PROVE  NInv'
<1> USE DEF Server!Goto, Server!At, Server!devices, Server!sent
<1>1. Moved(i, "ack", "gone")
  BY DEF Server!Ack, Moved, NInv, ServerOK
<1>2. task'[i] = "gone"
  BY <1>1 DEF Moved, NInv, ServerOK
<1>3. Progress(i) /\ Copies(i)
  BY DEF NInv
<1>4. Progress(i)'
  BY <1>1, <1>2, <1>3 DEF Progress, Excused, Mailed, Pushed, Texted, AllKnown, Moved, Server!Ack
<1>5. Copies(i)'
  BY <1>1, <1>2, <1>3 DEF Server!Ack, Copies, Moved
<1> QED BY <1>1, <1>4, <1>5, MovedKeeps DEF Server!Steps

LEMMA ExpireKeeps ==
  ASSUME NInv, NEW i \in Ids, Server!Expire(i)
  PROVE  NInv'
<1> USE DEF Server!Goto, Server!At, Server!devices
<1>1. Moved(i, "queued", "gone")
  BY DEF Server!Expire, Moved, NInv, ServerOK
<1>2. task'[i] = "gone" /\ i \in expired'
  BY <1>1 DEF Moved, NInv, ServerOK, Server!Expire
<1>3. Progress(i)'
  BY <1>1, <1>2 DEF Progress, Excused, Moved
<1>4. Copies(i)'
  BY <1>1, <1>2 DEF Server!Expire, Copies, NInv, Moved
<1> QED BY <1>1, <1>3, <1>4, MovedKeeps DEF Server!Steps

\* What was not acknowledged starts again, and may be pushed once more.
LEMMA CrashKeeps ==
  ASSUME NInv, Server!Crash
  PROVE  NInv'
<1>1. /\ task' = [i \in Ids |-> IF task[i] = "gone" THEN "gone" ELSE "queued"]
      /\ crashes' = crashes + 1
      /\ UNCHANGED <<published, token, rowless, tokenless, tried, mailed, texted, copies, failed, expired>>
  BY DEF Server!Crash, Server!devices, Server!sent, Ids
<1>2. QueueOK' /\ ServerOK' /\ DevicesOK'
  BY <1>1 DEF NInv, QueueOK, ServerOK, DevicesOK, Server!Steps
<1>3. ASSUME NEW i \in Ids PROVE (Progress(i) /\ Copies(i))'
  <2>1. Progress(i) /\ Copies(i) /\ copies[i] \in Nat /\ crashes \in Nat
    BY DEF NInv, ServerOK
  <2>2. task'[i] = IF task[i] = "gone" THEN "gone" ELSE "queued"
    BY <1>1
  <2>3. Copies(i)'
    BY <1>1, <2>1, <2>2 DEF Copies
  <2>4. Progress(i)'
    BY <1>1, <2>1, <2>2 DEF Progress, Excused, Mailed, Pushed, Texted, AllKnown
  <2> QED BY <2>3, <2>4
<1> QED BY <1>2, <1>3 DEF NInv

LEMMA ServeKeeps == ASSUME NInv, Server!Serve PROVE NInv'
<1>1. ASSUME NEW d \in Devices,
             Server!AddDevice(d) \/ Server!DeleteDevice(d) \/ Server!RegisterToken(d)
      PROVE  NInv'
  BY <1>1, MoveKeeps DEF Server!AddDevice, Server!DeleteDevice, Server!RegisterToken, Server!Tokens
<1>2. ASSUME NEW i \in Ids, Server!Handle(i) \/ Server!FailLookup(i) \/ Server!Expire(i)
      PROVE  NInv'
  BY <1>2, MailsKeeps, PushesKeeps, SmsKeeps, AckKeeps, FailKeeps, ExpireKeeps DEF Server!Handle
<1> QED BY <1>1, <1>2, CrashKeeps DEF Server!Serve, Ids

-------------------------------------------------------------------------------
LEMMA NextKeeps == EInv /\ NInv /\ [Next]_vars => EInv' /\ NInv'
<1> SUFFICES ASSUME EInv, NInv, [Next]_vars PROVE EInv' /\ NInv'
  OBVIOUS
<1>1. UNCHANGED stateVars => EInv'
  BY DEF stateVars, history, EInv, EmergencyTypeOK, RequestOK
<1>2. CASE UNCHANGED vars
  BY <1>1, <1>2, GrowKeeps DEF vars
<1>3. CASE EmergencyNext /\ UNCHANGED serverOnly
  <2>1. EInv'
    BY <1>3, EStep
  <2>2. NInv'
    BY <1>3, EmergencySteps, GrowKeeps DEF NInv
  <2> QED BY <2>1, <2>2
<1>4. ASSUME NEW sms \in BOOLEAN, SendCode(sms) PROVE EInv' /\ NInv'
  <2>1. QueueOK' /\ Appended
    BY <1>4, SendCodeOK DEF NInv
  <2> QED BY <1>1, <1>4, <2>1, GrowKeeps DEF SendCode
<1>5. CASE Server!Serve /\ UNCHANGED stateVars
  BY <1>1, <1>5, ServeKeeps
<1> QED BY <1>2, <1>3, <1>4, <1>5 DEF Next

LEMMA AlwaysNInv == Spec => []NInv
<1>1. AlertsInit => EInv /\ NInv
  BY InitNInv
<1> QED BY <1>1, NextKeeps, PTL DEF Spec

-------------------------------------------------------------------------------
\* What the bounds bound, and what is on record.
BoundsOK ==
    /\ moves \in 0..MaxMoves /\ crashes \in 0..MaxCrashes /\ faults \in 0..MaxFaults
    /\ mailed \subseteq Ids /\ texted \subseteq Ids
    /\ failed \subseteq Ids /\ expired \subseteq Ids
    /\ rowless \subseteq Devices /\ tokenless \subseteq Devices

LEMMA BoundsKept == BoundsOK /\ [Next]_vars => BoundsOK'
<1> SUFFICES ASSUME BoundsOK, [Next]_vars PROVE BoundsOK'
  OBVIOUS
<1> USE DEF Server!sent, Server!devices
<1>1. CASE UNCHANGED serverOnly
  BY <1>1 DEF serverOnly, BoundsOK
<1>2. ASSUME NEW d \in Devices, NEW t, Server!Move(d, t) PROVE BoundsOK'
  BY <1>2, ServerBoundsAreNat DEF Server!Move, BoundsOK
<1>3. ASSUME NEW i \in Ids, Server!Handle(i) \/ Server!FailLookup(i) \/ Server!Expire(i)
      PROVE  BoundsOK'
  BY <1>3, ServerBoundsAreNat
  DEF Server!Handle, Server!SendMails, Server!SendPushes, Server!SendSms, Server!Ack,
      Server!FailLookup, Server!Expire, BoundsOK
<1>4. CASE Server!Crash
  BY <1>4, ServerBoundsAreNat DEF Server!Crash, BoundsOK
<1> QED
  BY <1>1, <1>2, <1>3, <1>4
  DEF Next, SendCode, vars, Server!Serve, Server!AddDevice, Server!DeleteDevice,
      Server!RegisterToken, Ids

\* The two services and what they share are well formed in every reachable state.
THEOREM AlertsTypeCorrect == Spec => []TypeOK
<1>1. AlertsInit => BoundsOK
  <2> SUFFICES ASSUME Server!Init PROVE BoundsOK
    BY DEF AlertsInit
  <2>1. rowless \subseteq Devices /\ tokenless \subseteq Devices
    BY DEF Server!Init
  <2>2. moves = 0 /\ crashes = 0 /\ faults = 0 /\ mailed = {} /\ texted = {} /\ failed = {} /\ expired = {}
    BY DEF Server!Init
  <2> QED BY <2>1, <2>2, ServerBoundsAreNat DEF BoundsOK
<1>2. EInv /\ NInv /\ BoundsOK => TypeOK
  <2> SUFFICES ASSUME EInv, NInv, BoundsOK PROVE TypeOK
    OBVIOUS
  <2>1. copies \in [Ids -> 0..MaxCrashes + 1]
    BY ServerBoundsAreNat DEF NInv, ServerOK, Copies, BoundsOK
  <2> QED BY <2>1 DEF TypeOK, EInv, NInv, QueueOK, ServerOK, BoundsOK, Message, Ids, Server!ServerTypeOK
<1>3. AlertsInit => EInv /\ NInv
  BY InitNInv
<1> QED BY <1>1, <1>2, <1>3, NextKeeps, BoundsKept, PTL DEF Spec

\* No crash, no look-up of another message and no device that comes or goes
\* makes the server acknowledge a message before what it asks for was sent, but
\* for a failed look-up, an expiry, or a device without a row.
THEOREM AcknowledgedWasSent == Spec => []NothingSkipped
<1>1. NInv => NothingSkipped
  BY DEF NInv, Progress, Mailed, Pushed, Texted, AllKnown, Excused,
     NothingSkipped, Server!NothingSkipped, Server!Gone, Server!At, Server!AllKnown, Ids
<1> QED BY <1>1, AlwaysNInv, PTL

\* A friend is alerted twice of one change only if the server crashed in between.
THEOREM RepeatsNeedCrashes == Spec => []RepeatedOnlyByCrash
<1>1. NInv => RepeatedOnlyByCrash
  BY DEF NInv, Copies, RepeatedOnlyByCrash, Server!RepeatedOnlyByCrash, Ids
<1> QED BY <1>1, AlwaysNInv, PTL

-------------------------------------------------------------------------------
\* What Emergency promises, where others publish to the same queue and devices come
\* and go: its invariants survive their steps.

\* A verification code is about nobody: no alert, and no change of a state.
LEMMA SendCodeLInv ==
  ASSUME LInv, NEW sms \in BOOLEAN, SendCode(sms)
  PROVE  LInv'
<1>1. PICK m : m = [pushes |-> {}, mails |-> ~sms, sms |-> sms, perishable |-> TRUE,
                    about |-> NoUser, state |-> "Normal", change |-> 0]
  OBVIOUS
<1>2. m \in Alert /\ m.about = NoUser
  BY <1>1 DEF Alert, States
<1>3. PICK n : n = Len(published)
  OBVIOUS
<1>4. /\ n \in Nat /\ published' \in Seq(Alert) /\ Len(published') = n + 1
      /\ published'[n + 1] = m /\ \A i \in 1..n : published'[i] = published[i]
  BY <1>1, <1>2, <1>3, AppendProperties DEF SendCode, LInv, AlertsOfEntries
<1>5. UNCHANGED <<state, log, jumbled, request>>
  BY DEF SendCode, stateVars, history
<1>6. HistoryAlternates' /\ \A u \in Users : Len(log'[u]) \in Nat \ {0}
  BY <1>5 DEF LInv, HistoryAlternates
<1>7. AlertsOfEntries'
  <2>1. ASSUME NEW i \in 1..Len(published'), published'[i].about \in Users
        PROVE  Entry(published[i].about, published[i].change, published[i].state)'
    <3>1. i \in 1..n
      BY <1>2, <1>4, <2>1, NobodyIsNoUser
    <3> QED BY <1>3, <1>4, <1>5, <2>1, <3>1 DEF LInv, AlertsOfEntries, Entry
  <2> QED BY <1>4, <1>5, <2>1 DEF LInv, AlertsOfEntries, Entry, Alerting, At
<1>8. \A u \in Users : /\ Published(u)' = Published(u) /\ OnTheWay(u)' = OnTheWay(u)
                       /\ \A i \in Published(u) : published'[i] = published[i]
  BY <1>2, <1>3, <1>4, <1>5, NobodyIsNoUser DEF Published, OnTheWay, Alerting, At
<1>9. OneAlertPerChange'
  BY <1>5, <1>8 DEF LInv, OneAlertPerChange
<1>10. \A u \in Users \ jumbled' : InTurn(u)'
  BY <1>5, <1>8 DEF LInv, InTurn
<1> QED BY <1>6, <1>7, <1>9, <1>10 DEF LInv

LEMMA EmergencyKept == EInv /\ MInv /\ LInv /\ [Next]_vars => MInv' /\ LInv'
<1> SUFFICES ASSUME EInv, MInv, LInv, [Next]_vars PROVE MInv' /\ LInv'
  OBVIOUS
<1>1. UNCHANGED stateVars => MInv'
  BY DEF stateVars, history, MInv, AmongFriends, InEmergency, At, Friends
<1>2. UNCHANGED <<published, stateVars>> => LInv'
  BY QuietLInv DEF stateVars, history, Alerting, At
<1>3. CASE UNCHANGED vars
  BY <1>1, <1>2, <1>3 DEF vars
<1>4. CASE EmergencyNext
  BY <1>4, MStep, LStep
<1>5. ASSUME NEW sms \in BOOLEAN, SendCode(sms) PROVE MInv' /\ LInv'
  BY <1>1, <1>5, SendCodeLInv DEF SendCode
<1>6. CASE Server!Serve /\ UNCHANGED stateVars
  <2>1. UNCHANGED published
    BY <1>6
    DEF Server!Serve, Server!AddDevice, Server!DeleteDevice, Server!RegisterToken, Server!Move,
        Server!Handle, Server!SendMails, Server!SendPushes, Server!SendSms, Server!Ack,
        Server!FailLookup, Server!Expire, Server!Crash, Server!sent, Server!devices
  <2> QED BY <1>1, <1>2, <1>6, <2>1
<1> QED BY <1>3, <1>4, <1>5, <1>6 DEF Next

LEMMA EmergencyAlways == Spec => [](MInv /\ LInv)
<1>1. AlertsInit => EInv /\ NInv /\ MInv /\ LInv
  BY InitNInv, InitMInv, InitLInv DEF AlertsInit, Server!Init
<1>2. EInv /\ NInv /\ MInv /\ LInv /\ [Next]_vars => EInv' /\ NInv' /\ MInv' /\ LInv'
  BY NextKeeps, EmergencyKept
<1> QED BY <1>1, <1>2, PTL DEF Spec

\* Codes in the queue, crashes of the server and devices that come and go do not
\* change whom the emergency service acts for, nor when it shows telemetry.
THEOREM FriendsOnlyInAlerts == Spec => [](ActsForFriends /\ HistoryNeedsEmergency)
<1>1. MInv => ActsForFriends /\ HistoryNeedsEmergency
  BY DEF MInv, AmongFriends, InEmergency, ActsForFriends, HistoryNeedsEmergency, At
<1> QED BY <1>1, EmergencyAlways, PTL

\* In the queue that the two services share, every change of a state still has one alert
\* at most, which says what the change was, and the alerts are in order.
THEOREM OneAlertInAlerts == Spec => [](HistoryAlternates /\ OneAlertPerChange /\ AlertsInOrder)
<1>1. LInv => HistoryAlternates /\ OneAlertPerChange /\ AlertsInOrder
  BY DEF LInv, InTurn, AlertsInOrder
<1> QED BY <1>1, EmergencyAlways, PTL
===============================================================================
