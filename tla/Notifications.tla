----------------------------- MODULE Notifications -----------------------------
(***************************************************************************)
(* The notification server (nodejs/src/notification_server).  Every other  *)
(* service publishes messages to its queue; a message asks for pushes to   *)
(* devices, e-mails and text messages.                                     *)
(*                                                                         *)
(* Every message is handled as it is delivered, several at a time: its     *)
(* handler reads e-mail addresses and sends the e-mails, reads push tokens *)
(* and pushes, sends the text messages and acknowledges, whatever went     *)
(* wrong on the way.  A crash has the broker deliver again what was not    *)
(* acknowledged.  Devices come, go and get their tokens in the meantime.   *)
(*                                                                         *)
(* One action is a look-up and what the handler sends as it is answered,   *)
(* with nothing awaited in between.  A message that was delivered and not  *)
(* looked at is as good as queued.  Its number is its place in published.  *)
(***************************************************************************)
EXTENDS Naturals, Sequences

CONSTANTS
    Users,
    Devices,
    NoUser,         \* a message about nobody
    MaxMessages,    \* bounds how many messages are ever published
    MaxMoves,       \* bounds how often devices come, go or get a token
    MaxCrashes,     \* bounds how often the server crashes
    MaxFaults       \* bounds how often a look-up fails

VARIABLES
    published,  \* the messages published to the exchange
    task,       \* how far each message has come
    token,      \* devices: "none" is no row, "null" no push_token
    moves,
    crashes,
    faults,
    tried,      \* history: the devices a message was pushed to
    mailed,     \* history: messages whose e-mails were sent
    texted,     \* history: messages whose text messages were sent
    copies,     \* history: how often the pushes of a message were sent
    failed,     \* history: messages a look-up failed for
    expired,    \* history: messages that expired
    rowless,    \* history: devices that had no row at some time
    tokenless   \* history: devices that had a row without a token

sent == <<tried, mailed, texted, copies, failed, expired>>
devices == <<token, rowless, tokenless, moves>>
serverVars == <<task, devices, crashes, faults, sent>>

Ids == 1..MaxMessages
Tokens == {"none", "null", "set"}
States == {"Normal", "Emergency"}

\* about, state and change are what an emergency alert tells; change is history.
Message == [pushes: SUBSET Devices, mails: BOOLEAN, sms: BOOLEAN, perishable: BOOLEAN,
            about: Users \cup {NoUser}, state: States, change: Nat]

Steps == {"queued", "pushes", "sms", "ack", "gone"}

Init ==
    /\ published = <<>>
    /\ task = [i \in Ids |-> "queued"]
    /\ token \in [Devices -> Tokens]
    /\ moves = 0
    /\ crashes = 0
    /\ faults = 0
    /\ tried = [i \in Ids |-> {}]
    /\ mailed = {}
    /\ texted = {}
    /\ copies = [i \in Ids |-> 0]
    /\ failed = {}
    /\ expired = {}
    /\ rowless = {d \in Devices : token[d] = "none"}
    /\ tokenless = {d \in Devices : token[d] = "null"}

-------------------------------------------------------------------------------
\* Devices.

Move(d, t) ==
    /\ moves < MaxMoves
    /\ moves' = moves + 1
    /\ token' = [token EXCEPT ![d] = t]
    /\ rowless' = IF t = "none" THEN rowless \cup {d} ELSE rowless
    /\ tokenless' = IF t = "null" THEN tokenless \cup {d} ELSE tokenless
    /\ UNCHANGED <<published, task, crashes, faults, sent>>

\* registerDevice of the authentication server inserts without a push token.
AddDevice(d) == token[d] = "none" /\ Move(d, "null")

\* deleteDevice of the authentication server.
DeleteDevice(d) == token[d] # "none" /\ Move(d, "none")

\* /register; without a row it answers an error.
RegisterToken(d) == token[d] # "none" /\ Move(d, "set")

-------------------------------------------------------------------------------
\* The handler of a message.

At(i, s) == i <= Len(published) /\ task[i] = s
Goto(i, s) == task' = [task EXCEPT ![i] = s]

\* Mutant of SendMails: a message whose e-mails went out is not looked at again.
SendMailsOnce(i) ==
    /\ At(i, "queued")
    /\ i \notin mailed
    /\ mailed' = IF published[i].mails THEN mailed \cup {i} ELSE mailed
    /\ Goto(i, "pushes")
    /\ UNCHANGED <<published, devices, crashes, faults, tried, texted, copies, failed, expired>>

\* sendEmails, after getEmailAndFullName; an e-mail that is rejected is only logged.
SendMails(i) ==
    /\ At(i, "queued")
    /\ mailed' = IF published[i].mails THEN mailed \cup {i} ELSE mailed
    /\ Goto(i, "pushes")
    /\ UNCHANGED <<published, devices, crashes, faults, tried, texted, copies, failed, expired>>

Known(i) == {d \in published[i].pushes : token[d] # "none"}
Reachable(i) == {d \in published[i].pushes : token[d] = "set"}

\* sendNotifications, after getPushNotificationTokensForDevices: the pushes in
\* the order of the message, which is left open.  Taking the token of a device
\* without a row throws: what comes after it is not sent.  A device without a
\* token, and a push that is rejected, is only logged.
SendPushes(i) ==
    /\ At(i, "pushes")
    /\ IF Known(i) = published[i].pushes
       THEN tried' = [tried EXCEPT ![i] = @ \cup Reachable(i)] /\ Goto(i, "sms")
       ELSE /\ \E some \in SUBSET Reachable(i) : tried' = [tried EXCEPT ![i] = @ \cup some]
            /\ Goto(i, "ack")
    /\ copies' = [copies EXCEPT ![i] = @ + 1]
    /\ UNCHANGED <<published, devices, crashes, faults, mailed, texted, failed, expired>>

\* A look-up fails: the handler logs it, skips the rest and acknowledges.
FailLookup(i) ==
    /\ At(i, "queued") \/ At(i, "pushes")
    /\ faults < MaxFaults
    /\ faults' = faults + 1
    /\ failed' = failed \cup {i}
    /\ Goto(i, "ack")
    /\ UNCHANGED <<published, devices, crashes, tried, mailed, texted, copies, expired>>

SendSms(i) ==
    /\ At(i, "sms")
    /\ texted' = IF published[i].sms THEN texted \cup {i} ELSE texted
    /\ Goto(i, "ack")
    /\ UNCHANGED <<published, devices, crashes, faults, tried, mailed, copies, failed, expired>>

\* Mutant of Ack: a message goes back to the queue until all its pushes were sent.
AckOrRequeue(i) ==
    /\ At(i, "ack")
    /\ Goto(i, IF published[i].pushes \subseteq tried[i] THEN "gone" ELSE "queued")
    /\ UNCHANGED <<published, devices, crashes, faults, sent>>

\* Mutant of Ack: the error goes past the catch, and nothing is acknowledged.
AckUnlessFailed(i) ==
    /\ At(i, "ack")
    /\ i \notin failed
    /\ Goto(i, "gone")
    /\ UNCHANGED <<published, devices, crashes, faults, sent>>

Ack(i) ==
    /\ At(i, "ack")
    /\ Goto(i, "gone")
    /\ UNCHANGED <<published, devices, crashes, faults, sent>>

\* Mutant of Crash: the consumer has no acknowledgements, deliveries are lost.
CrashLoses ==
    /\ crashes < MaxCrashes
    /\ crashes' = crashes + 1
    /\ \E i \in Ids : task[i] \notin {"queued", "gone"}
    /\ task' = [i \in Ids |-> IF task[i] = "queued" THEN "queued" ELSE "gone"]
    /\ UNCHANGED <<published, devices, faults, sent>>

\* What the broker has not seen acknowledged it delivers again.
Crash ==
    /\ crashes < MaxCrashes
    /\ crashes' = crashes + 1
    /\ \E i \in Ids : task[i] \notin {"queued", "gone"}
    /\ task' = [i \in Ids |-> IF task[i] = "gone" THEN "gone" ELSE "queued"]
    /\ UNCHANGED <<published, devices, faults, sent>>

\* A verification code expires in the queue.
Expire(i) ==
    /\ At(i, "queued")
    /\ published[i].perishable
    /\ Goto(i, "gone")
    /\ expired' = expired \cup {i}
    /\ UNCHANGED <<published, devices, crashes, faults, tried, mailed, texted, copies, failed>>

-------------------------------------------------------------------------------
Handle(i) ==
    \/ SendMails(i) \/ SendPushes(i) \/ SendSms(i) \/ Ack(i)

Serve ==
    \/ \E d \in Devices : AddDevice(d) \/ DeleteDevice(d) \/ RegisterToken(d)
    \/ \E i \in Ids : Handle(i) \/ FailLookup(i) \/ Expire(i)
    \/ Crash

\* Node's event loop gets to every handler, and the broker delivers what is queued.
Fairness == \A i \in Ids : WF_<<published, serverVars>>(Handle(i))

-------------------------------------------------------------------------------
ServerTypeOK ==
    /\ published \in Seq(Message)
    /\ task \in [Ids -> Steps]
    /\ token \in [Devices -> Tokens]
    /\ moves \in 0..MaxMoves
    /\ crashes \in 0..MaxCrashes
    /\ faults \in 0..MaxFaults
    /\ tried \in [Ids -> SUBSET Devices]
    /\ mailed \subseteq Ids
    /\ texted \subseteq Ids
    /\ copies \in [Ids -> 0..MaxCrashes + 1]
    /\ failed \subseteq Ids
    /\ expired \subseteq Ids
    /\ rowless \subseteq Devices
    /\ tokenless \subseteq Devices

Gone(i) == At(i, "gone")
AllKnown(i) == published[i].pushes \cap rowless = {}

\* A message is acknowledged only when what it asks for was sent, however often
\* the server crashed in between and whatever else was handled: unless a look-up
\* failed, it expired, or a device it names was deleted, and that is the one
\* device of many whose absence costs the others their push.
NothingSkipped ==
    \A i \in Ids : (Gone(i) /\ i \notin failed \cup expired) =>
        /\ published[i].mails => i \in mailed
        /\ AllKnown(i) => published[i].pushes \ tokenless \subseteq tried[i]
        /\ AllKnown(i) /\ published[i].sms => i \in texted

\* The acknowledgement is lost with a crash: then, and only then, is a message
\* handled again, and each crash may repeat its pushes once.
RepeatedOnlyByCrash == \A i \in Ids : copies[i] <= crashes + 1

\* The handler is alone responsible for the acknowledgement and its catch goes on
\* to it: every message is in the end handled and acknowledged, or expires.
Delivered == \A i \in Ids : i <= Len(published) ~> Gone(i)

===============================================================================
