------------------------------- MODULE WSGateway -------------------------------
(***************************************************************************)
(* The WebSocket gateway, ws_gateway/index.ts.  A phone is a username with *)
(* a deviceId: it has one entry in socketConnections and one exclusive     *)
(* queue, location.<username>.<deviceId>, whose messages the gateway       *)
(* forwards to the socket of the entry.                                    *)
(*                                                                         *)
(* The process has one thread and one AMQP channel.  An action is what it  *)
(* does from one await to the next.  The channel has one operation under   *)
(* way and keeps the others in the order in which they were called: rpcs.  *)
(* An action that ends an await takes the first of them, does to the       *)
(* broker what it asks for, and runs its caller on.                        *)
(*                                                                         *)
(* RabbitMQ answers the bind or the consume of a queue that does not exist *)
(* with 404 and closes the channel; nothing opens another one, and every   *)
(* operation on it is rejected from then on.  Deletes and unbinds always   *)
(* succeed.  The loss of the connection ends the process, and with it      *)
(* everything here: it is not modelled.                                    *)
(***************************************************************************)
EXTENDS Naturals, Sequences

CONSTANTS
    Phones,     \* username and deviceId
    MaxConns,   \* bounds how many WebSocket connections are ever made
    Hasty,      \* phones that may be hasty
    Followers,  \* phones for which messages are published
    NoPhone     \* not connected yet

ASSUME MaxConnsIsNat == MaxConns \in Nat
ASSUME NoPhoneIsNoPhone == NoPhone \notin Phones
ASSUME HastyPhones == Hasty \subseteq Phones
ASSUME FollowerPhones == Followers \subseteq Phones

VARIABLES
    phone,      \* whose connection it is
    socket,     \* readyState of each connection
    handler,    \* onWSConnection of each connection
    listening,  \* connections whose "pong" and "close" have a listener
    sockets,    \* socketConnections
    alive,      \* phones whose entry has isAlive
    channel,    \* of the RabbitClient
    rpcs,       \* operations on the channel, not answered yet
    queue,      \* what the broker has of the queue of each phone
    inbox,      \* a message in that queue
    hasty       \* phones that come, go and time out while the gateway is busy with them

vars == <<phone, socket, handler, listening, sockets, alive,
          channel, rpcs, queue, inbox>>
broker == <<channel, queue, inbox>>

\* Connections in the order they were made; no entry in socketConnections.
Conns == 1..MaxConns
NoConn == 0

\* The operations of a connection's handler, and those of its "close" listener.
HandlerOps == {"drop", "assert", "exchange", "bind", "consume"}
CloseOps == {"unbind", "delete"}
Rpc == [op: HandlerOps \cup CloseOps, conn: Conns]

-------------------------------------------------------------------------------
Init ==
    /\ phone = [c \in Conns |-> NoPhone]
    /\ socket = [c \in Conns |-> "none"]
    /\ handler = [c \in Conns |-> "none"]
    /\ listening = {}
    /\ sockets = [p \in Phones |-> NoConn]
    /\ alive = {}
    /\ channel = "open"
    /\ rpcs = <<>>
    /\ queue = [p \in Phones |-> {}]
    /\ inbox = [p \in Phones |-> "none"]
    /\ hasty \in SUBSET Hasty

\* The gateway has nothing under way for p.
Quiet(p) ==
    /\ \A i \in DOMAIN rpcs : phone[rpcs[i].conn] # p
    /\ \A c \in Conns : phone[c] = p =>
           /\ handler[c] \notin {"decode", "waiting"}
           /\ ~(socket[c] = "closing" /\ c \in listening)

\* What a phone, or the lack of it, may do to the gateway at this time.
MayAct(p) == p \in hasty \/ Quiet(p)

\* connection.close(), on the connections in C; closing twice does nothing.
Closing(C) == [c \in Conns |-> IF c \in C /\ socket[c] = "open" THEN "closing" ELSE socket[c]]

-------------------------------------------------------------------------------
\* The phones.

\* "connection": the handler starts by looking up the public key of the token.
Connect(c, p) ==
    /\ socket[c] = "none"
    /\ \A d \in 1..(c - 1) : socket[d] # "none"
    /\ MayAct(p)
    /\ phone' = [phone EXCEPT ![c] = p]
    /\ socket' = [socket EXCEPT ![c] = "open"]
    /\ handler' = [handler EXCEPT ![c] = "decode"]
    /\ UNCHANGED <<listening, sockets, alive, rpcs, broker>>

\* A close frame.
HangUp(c) ==
    /\ socket[c] = "open"
    /\ MayAct(phone[c])
    /\ socket' = Closing({c})
    /\ UNCHANGED <<phone, handler, listening, sockets, alive, rpcs, broker>>

\* The "pong" listener marks whatever entry the name has by now.  A phone that
\* has vanished without a close frame is one that does not answer any more.
Pong(c) ==
    /\ socket[c] = "open"
    /\ c \in listening
    /\ sockets[phone[c]] # NoConn
    /\ alive' = alive \cup {phone[c]}
    /\ UNCHANGED <<phone, socket, handler, listening, sockets, rpcs, broker>>

-------------------------------------------------------------------------------
\* Callbacks of the gateway.

Await(c, op, rest) ==
    /\ rpcs' = Append(rest, [op |-> op, conn |-> c])
    /\ handler' = [handler EXCEPT ![c] = "waiting"]

\* socketConnections.delete, and the WebSocketRef is gone.
Forget(p) ==
    /\ sockets' = [sockets EXCEPT ![p] = NoConn]
    /\ alive' = alive \ {p}

\* The token is not that of a user.
Refuse(c) ==
    /\ handler[c] = "decode"
    /\ handler' = [handler EXCEPT ![c] = "failed"]
    /\ socket' = Closing({c})
    /\ UNCHANGED <<phone, listening, sockets, alive, rpcs, broker>>

\* The query for the key is rejected, and with it the handler: nobody knows the connection.
DecodeFails(c) ==
    /\ handler[c] = "decode"
    /\ handler' = [handler EXCEPT ![c] = "failed"]
    /\ UNCHANGED <<phone, socket, listening, sockets, alive, rpcs, broker>>

\* Mutant of Replace: the old connection keeps its listeners.
ReplaceKeepsListeners(c, old) ==
    /\ socket' = Closing({old})
    /\ Forget(phone[c])
    /\ Await(c, "drop", rpcs)
    /\ UNCHANGED listening

\* Mutant of Replace: the old connection stays open.
ReplaceLeavesOpen(c, old) ==
    /\ listening' = listening \ {old}
    /\ Forget(phone[c])
    /\ Await(c, "drop", rpcs)
    /\ UNCHANGED socket

\* The phone has another connection: it is closed and its queue dropped first.
Replace(c, old) ==
    /\ socket' = Closing({old})
    /\ listening' = listening \ {old}
    /\ Forget(phone[c])
    /\ Await(c, "drop", rpcs)

\* socketConnections.set, the listeners, and the first operation of the try block.
Register(c, rest) ==
    /\ sockets' = [sockets EXCEPT ![phone[c]] = c]
    /\ listening' = listening \cup {c}
    /\ alive' = alive \cup {phone[c]}
    /\ Await(c, "assert", rest)

\* The token is valid.  The database answers in the order of the connections.
\* Whether the socket is still open is not asked.
Accept(c) ==
    /\ handler[c] = "decode"
    /\ \A d \in 1..(c - 1) : handler[d] # "decode"
    /\ \/ /\ sockets[phone[c]] = NoConn
          /\ Register(c, rpcs)
          /\ UNCHANGED socket
       \/ \E old \in Conns : sockets[phone[c]] = old /\ Replace(c, old)
    /\ UNCHANGED <<phone, broker>>

\* Mutant of Closed: the entry of the phone stays.
ClosedKeepsEntry(c) ==
    /\ socket[c] = "closing"
    /\ socket' = [socket EXCEPT ![c] = "closed"]
    /\ IF c \in listening /\ sockets[phone[c]] # NoConn
       THEN rpcs' = Append(rpcs, [op |-> "unbind", conn |-> c])
       ELSE UNCHANGED rpcs
    /\ listening' = listening \ {c}
    /\ UNCHANGED <<phone, handler, sockets, alive, broker>>

\* "close", the last event of c: if the name has an entry, be it another
\* connection's, it goes.
Closed(c) ==
    /\ socket[c] = "closing"
    /\ socket' = [socket EXCEPT ![c] = "closed"]
    /\ IF c \in listening /\ sockets[phone[c]] # NoConn
       THEN /\ Forget(phone[c])
            /\ rpcs' = Append(rpcs, [op |-> "unbind", conn |-> c])
       ELSE UNCHANGED <<sockets, alive, rpcs>>
    /\ listening' = listening \ {c}
    /\ UNCHANGED <<phone, handler, broker>>

Named == {p \in Phones : sockets[p] # NoConn}
Silent == Named \ alive

\* Mutant of Tick: who does not answer is pinged again.
TickPatiently ==
    /\ Named # {}
    /\ \A p \in Silent : MayAct(p)
    /\ alive' = {}
    /\ UNCHANGED <<phone, socket, handler, listening, sockets, rpcs, broker>>

\* The ping interval, every 20 s: an entry that has not answered the ping of the
\* last time is terminated, the others are pinged.
Tick ==
    /\ Named # {}
    /\ \A p \in Silent : MayAct(p)
    /\ socket' = Closing({sockets[p] : p \in Silent})
    /\ alive' = {}
    /\ UNCHANGED <<phone, handler, listening, sockets, rpcs, broker>>

-------------------------------------------------------------------------------
\* The channel.

\* A message is published for p; one at a time.
Publish(p) ==
    /\ p \in Followers
    /\ "bound" \in queue[p]
    /\ inbox[p] = "none"
    /\ inbox' = [inbox EXCEPT ![p] = "ready"]
    /\ UNCHANGED <<phone, socket, handler, listening, sockets, alive, channel, rpcs, queue>>

\* Mutant of Forward: no acknowledgement.
ForwardUnacknowledged(p) ==
    /\ "consumed" \in queue[p]
    /\ inbox[p] = "ready"
    /\ inbox' = [inbox EXCEPT ![p] = "stuck"]
    /\ UNCHANGED <<phone, socket, handler, listening, sockets, alive, channel, rpcs, queue>>

\* The consumer: without an entry the message is acknowledged only, and ws.send
\* throws, before the acknowledgement, if the socket of the entry is not open.
Forward(p) ==
    /\ "consumed" \in queue[p]
    /\ inbox[p] = "ready"
    /\ inbox' = [inbox EXCEPT ![p] =
           IF sockets[p] # NoConn /\ socket[sockets[p]] # "open" THEN "stuck" ELSE "none"]
    /\ UNCHANGED <<phone, socket, handler, listening, sockets, alive, channel, rpcs, queue>>

\* The broker is asked for op by the caller c, and can do it.
Asked(c, op) == Len(rpcs) > 0 /\ Head(rpcs) = [op |-> op, conn |-> c]
Possible(c, op) ==
    /\ channel = "open"
    /\ op \in {"bind", "consume"} => "declared" \in queue[phone[c]]

\* deleteQueue, of a queue that may not exist: its message goes with it.
DeleteQueue(p) ==
    IF channel = "open"
    THEN /\ queue' = [queue EXCEPT ![p] = {}]
         /\ inbox' = [inbox EXCEPT ![p] = "none"]
    ELSE UNCHANGED <<queue, inbox>>

\* The queue of a replaced connection is gone; an error is ignored.
Dropped(c) ==
    /\ Asked(c, "drop")
    /\ DeleteQueue(phone[c])
    /\ Register(c, Tail(rpcs))
    /\ UNCHANGED <<phone, socket, channel>>

\* assertQueue, assertExchange, bindQueue, consume, one after the other.
Done(op) == CASE op = "assert" -> {"declared"} [] op = "bind" -> {"bound"}
              [] op = "consume" -> {"consumed"} [] OTHER -> {}
After(op) == CASE op = "assert" -> "exchange" [] op = "exchange" -> "bind" [] OTHER -> "consume"

Subscribe(c, op) ==
    /\ Asked(c, op)
    /\ Possible(c, op)
    /\ queue' = [queue EXCEPT ![phone[c]] = @ \cup Done(op)]
    /\ IF op = "consume"
       THEN /\ handler' = [handler EXCEPT ![c] = "subscribed"]
            /\ rpcs' = Tail(rpcs)
       ELSE Await(c, After(op), Tail(rpcs))
    /\ UNCHANGED <<phone, socket, listening, sockets, alive, channel, inbox>>

\* The broker closes the channel: its consumers end, its messages are queued again.
LoseChannel ==
    /\ channel' = "closed"
    /\ queue' = [p \in Phones |-> queue[p] \ {"consumed"}]
    /\ inbox' = [p \in Phones |-> IF inbox[p] = "stuck" THEN "ready" ELSE inbox[p]]

\* Mutant of GiveUp: the error is logged only.
GiveUpOpen(c, op) ==
    /\ Asked(c, op)
    /\ ~Possible(c, op)
    /\ LoseChannel
    /\ handler' = [handler EXCEPT ![c] = "failed"]
    /\ rpcs' = Tail(rpcs)
    /\ UNCHANGED <<phone, socket, listening, sockets, alive>>

\* The catch block of onWSConnection.
GiveUp(c, op) ==
    /\ Asked(c, op)
    /\ ~Possible(c, op)
    /\ LoseChannel
    /\ handler' = [handler EXCEPT ![c] = "failed"]
    /\ socket' = Closing({c})
    /\ rpcs' = Tail(rpcs)
    /\ UNCHANGED <<phone, listening, sockets, alive>>

\* Mutant of Unbound: the queue is left to the broker.
UnboundOnly(c) ==
    /\ Asked(c, "unbind")
    /\ rpcs' = Tail(rpcs)
    /\ UNCHANGED <<phone, socket, handler, listening, sockets, alive, broker>>

\* The "close" listener: unbindQueue, of a pattern that is not bound, which
\* changes nothing; on a closed channel the listener ends here.
Unbound(c) ==
    /\ Asked(c, "unbind")
    /\ rpcs' = IF channel = "open"
               THEN Append(Tail(rpcs), [op |-> "delete", conn |-> c])
               ELSE Tail(rpcs)
    /\ UNCHANGED <<phone, socket, handler, listening, sockets, alive, broker>>

Deleted(c) ==
    /\ Asked(c, "delete")
    /\ DeleteQueue(phone[c])
    /\ rpcs' = Tail(rpcs)
    /\ UNCHANGED <<phone, socket, handler, listening, sockets, alive, channel>>

-------------------------------------------------------------------------------
Decode(c) == Refuse(c) \/ DecodeFails(c) \/ Accept(c)

Answer(c) ==
    \/ Dropped(c) \/ Unbound(c) \/ Deleted(c)
    \/ \E op \in HandlerOps \ {"drop"} : Subscribe(c, op) \/ GiveUp(c, op)

Next ==
    \/ \E c \in Conns :
        \/ \E p \in Phones : Connect(c, p)
        \/ HangUp(c) \/ Pong(c)
        \/ Decode(c) \/ Closed(c) \/ Answer(c)
    \/ Tick
    \/ \E p \in Phones : Publish(p) \/ Forward(p)

\* Which phones are hasty does not change.
Spec == Init /\ [][Next /\ UNCHANGED hasty]_<<vars, hasty>>

\* The database and the broker answer, closing sockets close, the timer ticks
\* and the consumer is called.
FairSpec ==
    /\ Spec
    /\ WF_vars(Tick) /\ WF_vars(\E c \in Conns : Answer(c))
    /\ \A c \in Conns : WF_vars(Decode(c)) /\ WF_vars(Closed(c))
    /\ \A p \in Phones : WF_vars(Forward(p))

-------------------------------------------------------------------------------
\* Properties.

\* The connections, the channel and the queues are well formed.
TypeOK ==
    /\ phone \in [Conns -> Phones \cup {NoPhone}]
    /\ socket \in [Conns -> {"none", "open", "closing", "closed"}]
    /\ handler \in [Conns -> {"none", "decode", "waiting", "subscribed", "failed"}]
    /\ listening \subseteq Conns
    /\ alive \subseteq Phones
    /\ sockets \in [Phones -> Conns \cup {NoConn}]
    /\ channel \in {"open", "closed"}
    /\ rpcs \in Seq(Rpc)
    /\ queue \in [Phones -> SUBSET {"declared", "bound", "consumed"}]
    /\ inbox \in [Phones -> {"none", "ready", "stuck"}]
    /\ hasty \subseteq Hasty

Served(p) == queue[p] = {"declared", "bound", "consumed"}

\* However connections of a phone overlap, the deletes of one never leave another
\* half subscribed: once the gateway is done with the phone, its entry has a queue
\* that is bound and consumed, or the channel is lost and with it every phone.
ServedWhenQuiet ==
    \A p \in Phones : channel = "open" /\ Quiet(p) /\ sockets[p] # NoConn => Served(p)

\* A phone that has left leaves no queue behind that fills with nobody to read
\* it, whichever of its connections was closed, replaced or still subscribing.
NoOrphanQueue ==
    \A p \in Phones : channel = "open" /\ Quiet(p) /\ sockets[p] = NoConn => queue[p] = {}

\* A handler that has come as far as the channel subscribes its phone or closes
\* the connection, the channel lost or not: no phone waits for a subscription
\* that will not come.
Settled ==
    \A c \in Conns : handler[c] = "waiting" ~>
        handler[c] = "subscribed" \/ socket[c] \in {"closing", "closed"}

\* Only an operation of a hasty phone can make the broker close the channel that
\* all share: no other phone that reconnects or leaves costs the rest their service.
ChannelSurvives == [][UNCHANGED channel \/ phone[Head(rpcs).conn] \in hasty]_vars

\* The connection of a phone that is open and subscribed has its entry, and the
\* queue as long as there is a channel, whatever other phones do.
OpenIsServed ==
    \A c \in Conns :
        /\ phone[c] \notin hasty
        /\ handler[c] = "subscribed" /\ socket[c] = "open" /\ Quiet(phone[c])
        => sockets[phone[c]] = c /\ (channel = "open" => Served(phone[c]))

\* The ping interval finds out a phone that vanished: no entry stays without an
\* answer to its pings forever.
Evicted == \A p \in Phones : []<>(p \in hasty \/ sockets[p] = NoConn \/ p \in alive)

\* A message leaves its queue: sent, dropped or deleted with the queue, but
\* never unacknowledged forever because the socket closed under the consumer.
NoneStuck ==
    \A p \in Phones :
        (p \notin hasty /\ inbox[p] = "ready") ~> (inbox[p] = "none" \/ channel = "closed")

===============================================================================
