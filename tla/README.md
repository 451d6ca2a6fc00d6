# A TLA+ model of the Armore backend

Armore shares end-to-end encrypted locations between friends. Its backend is a
set of small services, Node (`nodejs/src`) and Rust (`rust/src`), that share one
Postgres database, one RabbitMQ broker and one Redis. This directory models the
parts of it in which the order of things matters, checks them with TLC on small
instances and proves the safety of what is checked with TLAPS for all instances.

## The system

| Component | State | Operations | What makes it correct | Model |
|---|---|---|---|---|
| Invitations (Rust, `server/invitations.rs`) | `link_invitations`, `users_followers`, `users_followers_state` | create, reject, accept, remove_friend, get_creator | friendship is mutual and asked for; only accepted invitations are announced | `Invitations`, `Friendship` |
| Authentication server (Node, `auth_server`) | `users` and its detail tables, `users_verification`, `users_devices`, `devices`, `users_identity`; the session of one Postgres connection | login, register, verify, me, update profile, delete device, user exists | accounts are whole; a code verifies once; one active device, whose key is the registered one; every request is answered | `Accounts`, `AuthServer` (no profiles) |
| HTTP gateway (Node, `http_gateway`) | `users_followers.access_type`, `geofences`, `users_geofences`; the session of one Postgres connection | change access type, create, delete, subscribe, unsubscribe, images | only friends subscribe; what was answered is kept | `Geofences` (no images) |
| WebSocket gateway (Node, `ws_gateway`) | map of connections; one exclusive queue per connection; one shared AMQP channel | connect, close, ping/pong, forward a message | the newest connection of a phone gets its messages; one connection does not break another | `WSGateway` |
| Notification server (Node, `notification_server`) | a queue; push tokens | consume, e-mail, push, SMS, acknowledge; register a token | each notification is sent, to everybody it names | `Notifications`, `Alerts` |
| Telemetry (Rust, `server/http_gateway.rs`) | `device_telemetry`; Redis hashes | post a location, read keys | a location reaches who may see it, and only them; the two stores agree | `Telemetry` |
| Commands (Rust, `server/http_gateway.rs`) and nanny (Rust, `bin/nanny.rs`) | `commands`; the last-seen set of Redis | ask a phone for its location, complete or fail the command, ping the users not seen lately | an Error is true; only followers ask; quiet phones are woken | `Commands` |
| Emergency (Rust, `server/emergency.rs`) | `users_state`, its history | change own state, report a friend, historical locations | one alert per change, in order, to friends | `Emergency`, `Alerts` |
| Rabbit client, exchanges | queues, bindings, channels | declare, bind, publish, consume, acknowledge | see the users above | with them |
| JWT authentication, database schema | keys; tables, triggers, procedures | look up a key; cascade, log | see the users above | with them |
| Device settings, image storage, localization, validation, start-up | — | — | — | none: see "Not modelled" |

They interact through the database (friendships written by invitations are read
by telemetry, commands, emergency, geofences and the authentication server; devices and
keys written by the authentication server authenticate every request), through the
`notifications.exchange` (authentication, invitations, emergency, commands and the nanny
publish; the notification server consumes) and through the
`websocket.exchange` (telemetry publishes; the WebSocket gateway consumes).

The hard behaviours: two Rocket workers run each Rust handler at the same time, most
of them without a transaction; Node handlers interleave at every `await` and share one
Postgres connection and one AMQP channel per process; Postgres locks, serialization
failures and deadlocks; stores that no transaction spans; messages published before, or
long after, the change they report; crashes between a commit, a reply, a publication
and an acknowledgement. `PROJECT.json` lists each under "hazards", at its line, with the
properties that would catch it going wrong.

## Modules

| Module | What it is |
|---|---|
| `Friendship` | what the invitations service promises: one atomic action per request |
| `Invitations` | the service, one action per SQL statement; implements `Friendship` |
| `Accounts` | what the authentication server promises: one atomic action per request |
| `AuthServer` | the server on its shared connection, one action per statement; implements `Accounts` where transactions are kept apart |
| `WSGateway` | the WebSocket gateway, one action per stretch between two awaits |
| `Telemetry` | a post of a location over Postgres, Redis and RabbitMQ |
| `Commands` | the life of a command, the nanny's rounds |
| `Emergency` | states, their history and alerts; publishes to `Notifications` |
| `Notifications` | the notification server |
| `Alerts` | `Emergency` composed with `Notifications`, over one queue and one table of devices |
| `Geofences` | geofences, subscriptions and access types on the Node gateway's shared connection |
| `*Proofs` | the theorems about a module |
| `MC*`, `MC*_*.cfg` | the instances of a module for TLC |

Next to some definitions stands a variant, commented "Mutant of ...": the same code with a
plausible bug. No specification uses one. Put in the place of the definition it
makes TLC find the property that `PROJECT.json` names with it violated.

### Invitations

`link` is the committed table `link_invitations`; `followers` and `perception` are the
committed keys of `users_followers` and `users_followers_state`. Each worker has a
program counter and its request (`worker`) and the uncommitted changes of its
transaction: the locked link row (`row`), the inserted and the deleted
`users_followers` rows (`gained`, `dropped`). `granted` and `sent` are history.

* `Check` is `assert_valid_invitation`, the SELECT and its tests. It is a
  statement of its own, so anything may happen between it and `Reject`, `Expire` or
  `Claim`, which update the row by id only.
* `accept_invitation` is `Queue` or `Claim` (UPDATE and two SELECTs), `AddFriend` twice
  (the two keys, in the order `add_friend` inserts them), `Commit`; or
  `AlreadyFriends` on a unique violation, `DeadlockVictim` on a deadlock, or a failure at
  any point (`Fail`).
* `remove_friend` is `CheckFriends`, then two DELETEs, each with a snapshot of its own:
  `RemoveFriend` and `PurgeState`, which also commits. A removal may find that another has been there first, and the
  friendship made again since: then the first DELETE spares what the second, whose snapshot is younger, hits. `straddled`
  (history) has the followers whose accept committed during a removal of theirs.
* `Notify` and `Refresh` publish after the commit; either may fail unnoticed.
* What Postgres does is modelled as documented: a row lock lasts to the end of
  the transaction (`RowFree`), an INSERT waits for an uncommitted INSERT or
  DELETE of its key and a DELETE for an uncommitted DELETE (`WaitsFor`), a SERIALIZABLE
  UPDATE that waited for a row which then changed fails (`Overwrite`), and a
  cycle of waiting transactions loses one (`DeadlockVictim`).

`Friendship` is the same service with one atomic action per request. The refinement maps its
variables to the committed tables; every statement is one of its actions or a stutter.

Fairness is strong, per worker: a worker that waits for a lock is enabled again and
again while others come and go, and Postgres serves the waiters of a lock in turn.
`Fail`, and the arrival of requests, are not fair.

### AuthServer

`common/db/db.ts` opens one Postgres connection for the process. Its client sends one statement at
a time, in the order in which the handlers issued them (`queue`), and a handler
issues the next when the last has answered. So every handler has at most one
statement in the queue, and the session's transaction (`session`, `tmp` against
the committed `db`) is the transaction of whoever is running. An action is one
statement with what its handler does until it issues the next: `Goto`, `Finish`
(answer), or `Throw` (ROLLBACK inside `withSerializableTransaction`, then the error reply).
`Refused` is any statement in an aborted transaction; `Commit` of an
aborted transaction rolls back and succeeds, as in Postgres. `Crash` ends the process.

A user stands for a username with its e-mail address and phone number, a device for
its key pair. `issued`, `crowded`, `promised` and `redeemed` are history. `reply` is
the first answer sent: `deleteDevice` sends it inside the transaction (`Exists`, `DeleteDevice`). The message with a
code goes out after its INSERT, or throws for want of a channel (`AddCode`); an error then is answered for a code that may be there.
`crowded` has the handlers whose transaction another request ran beside.

`Accounts` is the server with one atomic action per request. In the refinement an account is a user with a row, an active
user one with a device, and codes and keys are those of `db`. A COMMIT is the action of its request, and so is the INSERT
of a code by a login, which needs no transaction; every other statement is a stutter.

Fairness is weak, per handler: the statement at the head of the queue is executed.

### Geofences

The Node HTTP gateway has one connection as well, modelled in the same way. Only the change of an access
type opens a transaction (`Begin`, `Update`, `Commit`, `Rollback`); the statements of the
geofence handlers (`Followers`, `CreateGeofence`, `DeleteGeofence`, `OwnerFollowed`,
`Subscribe`, `Unsubscribe`) run in it when they happen to come in between. No request body is validated, so each may fail
and abort it (`Misfit`).

Friendships are written by the invitations service, on another connection (`Befriend`, `Unfriend`).
So the snapshot matters: the first statement of the transaction takes it
(`session` goes from "begun" to "open"), what others commit after that is not seen
(`stale`), an UPDATE of such a row fails, and a row the transaction has updated is locked against
the others (`changed`). What COMMIT makes is `Merged`. `drawn` is the sequence of ids, which no rollback
takes back. `meant` is history: the tables as all answered statements together left them,
until a statement fails, a transaction is rolled back or the process dies.

### WSGateway

`sockets` is `socketConnections`, `alive` the `isAlive` of its entries, `socket` the `readyState` of every
connection, `handler` what its `onWSConnection` is doing. All connections share one AMQP channel, whose client
(amqplib) has one operation under way and queues the others: `rpcs`. `queue` is what
the broker has of a phone's exclusive queue (declared, bound, consumed), `inbox` a message in it.
`Accept` is the handler up to its first AMQP operation (`Replace` or `Register`), `Dropped` and `Subscribe` its
continuations, `GiveUp` its catch block; `Closed`, `Unbound` and `Deleted` are the "close" listener;
`Tick` is the ping interval, `Forward` the consumer.

A bind or consume of a queue that has been deleted meanwhile is answered 404 by RabbitMQ, which
closes the channel. The code logs it and never opens another (`LoseChannel`): the phones that
are connected get nothing any more and new ones are turned away. So every behaviour has its set of
hasty phones (`hasty`, some of the constant `Hasty`). A phone that is not hasty connects, leaves
or times out only when the gateway has finished with its previous event; of a hasty one nothing
is assumed. `ServedWhenQuiet`, `NoOrphanQueue` and `Settled` hold in all behaviours.
`ChannelSurvives`, `OpenIsServed`, `Evicted` and `NoneStuck` are about the phones that are not hasty, while others
may be: a hasty phone can cost them the channel, but not an entry, an eviction or an acknowledgement. TLC finds, when asked, that
a hasty phone loses the channel when it reconnects, or leaves, while it is being subscribed; that it is not
served when two reconnections wait for the same `deleteQueue` (the one that is overwritten stays open and
deaf); and that it is not evicted, and its message stuck, when a socket closed before its listeners were
attached (the entry stays). No document of the repository says otherwise, so these are hazards rather than findings.

Fairness is weak: broker, database, timer, consumer and closing handshakes answer. Nothing makes a
phone act, so one that has vanished is one that does nothing.

### Telemetry

`access` is `users_followers` with its access types, `state` is `users_state`, `rows` is
`device_telemetry` and `last` the Redis hash of last locations, both by user and recipient. Each worker's
request (`process`) goes through `Post`, then `Insert` and `Hset` for each recipient, `Followers`, `Following`,
`Look` for each friend whose location may be seen, `ReadState`, `Push` and `Reply`; `Fail` is the error of
a statement or a Redis command. Locations are numbered as they arrive. `Befriend`, `Unfriend`, `ChangeAccess` and
`ChangeState` are single steps of the other services; each leaves a note with the posts in progress
(`due`), so that "since it arrived" can be said. `torn` holds the users of whom two posts overlapped, or one
failed between the stores.

### Commands

`command` is the table, `asked` the commands whose notification was published, `told` what was answered. A follower's
request (`Refresh`, `Check`) and the nanny's round (`Tick`, `Pick`) share
`force_refresh_telemetry_internal`: `Create`, `Open`, then `Publish` or `Abort`. `seen` is where a user's score lies relative
to the nanny's window; `Age` moves it on, `Seen` is the ZADD of a post, and `Complete` the `close_command` of a post that
hands a correlation id back, however late. `Panic` is the `expect` on a connection that cannot be made.
Fairness is weak, for the nanny's loop.

### Emergency, Notifications, Alerts

In `Emergency` a request is `UpdateState`, `UpdateFriendState` or `GetHistoricalLocation`; `AssertFriends`, `AssertEmergency`, `Update`,
`GetDetails`, `GetContacts`, `Gather` for each friend, and `Publish` or `NotPublished` are its steps. `log` is
`users_state_history`, written by the trigger with the UPDATE. `met`, `fired` and `jumbled` are history: who was a friend,
who was in an emergency since a request arrived, and whose changes overlapped their alerts. Alone, the module has devices that come and go.

`Notifications` is the consumer: `SendMails`, `SendPushes`, `SendSms` and `Ack` of each message, several messages at a time;
`FailLookup` is the catch block, which acknowledges, `Crash` has the broker deliver again what was not
acknowledged, `Expire` is the time-to-live of a verification code. `AddDevice`, `DeleteDevice` and `RegisterToken` change the tokens under it.
`tried`, `mailed`, `texted` and `copies` are history. The providers (Firebase, SES, Twilio) are calls whose errors are only logged.

`Alerts` puts the two together: `published` is the queue between them, `token` the devices both read, and `SendCode` is the other
producer, the authentication server. Each step is a step of one of them that leaves the variables of the other alone.
Fairness is weak, for each handler of the notification server.

## Runs

| Run | Instance | Shows |
|---|---|---|
| `invitations_live` | 2 users, 2 links, 2 workers | with crossing accepts and their deadlock, and crossing removals: mutual friendship, consent; no notification of an acceptance that did not commit; a friendship has its details for both or neither, and for both unless it was made during a removal; every request ends; `Friendship` is implemented |
| `invitations_final` | 3 users, 1 link, 2 workers | **violation**: a reject, or another accept, overwrites a committed accept |
| `ws_phones` | 2 phones, 3 connections, 1 phone that may be hasty, messages for the other | entries end up served, phones without one have no queue, handlers end; a phone that is not hasty is served on its newest connection, is evicted when silent, has no message stuck, and does not cost the others the channel |
| `auth_alone` | 2 users, 2 devices, 3 codes, 1 request at a time | accounts, codes, devices and keys are consistent over any sequence of requests, failures and crashes; requests implement `Accounts` |
| `auth_shared` | 1 user, 1 device, 1 code, 2 requests | the open transaction always has an owner; both requests are answered; one that ran beside no other has done what its 200 says |
| `auth_devices` | 1 user, 2 devices, 2 codes, 2 requests | **violation**: two active devices |
| `auth_accounts` | 2 users, 2 codes, 2 requests | **violation**: half an account is committed |
| `telemetry_sharing` | 2 users, 2 workers, 2 posts, 3 changes | Redis shows what Postgres has, and the newest of it; pushes and answers are for those entitled |
| `commands_nanny` | 2 users, 1 worker, 2 commands, 1 panic | an Error asked nobody; only followers ask; who is late gets his turn |
| `emergency_alerting` | 3 users, 1 of them in emergencies, 1 device, 2 workers, 3 requests | one entry and one alert per change, in order; reports, alerts and readers are friends |
| `alerts_alerts` | 2 friends, 2 devices, 1 worker, 1 request, 2 messages; 1 move of a device, 1 crash, 1 failing look-up | what is acknowledged was sent; only a crash repeats it; everything is handled; an alert reaches the phone |
| `geofences_shared` | 2 users, 1 geofence, 2 requests, 2 changes of a friendship | the transaction has an owner; only friends subscribe; what was answered is kept unless something failed |

The violations are the findings of `PROJECT.json`: each contradicts the line of the
repository it quotes. `auth_alone` shows that the same properties hold as long as the
connection is not shared, so it is the sharing that breaks them.

Bounds. Two workers and two handlers are the numbers at which a request meets
another; Rocket is configured with two workers. Three users are a creator and two
rivals for its link, or a user, the friend who reports him and another who is alerted; two links are what
crossing accepts need, and let a friendship be made, ended and made again. `Links`,
`Codes`, `Commands`, `Fences` and the `Max...` bound how much is ever made. Two posts are what it
takes to overtake one another, and three changes let a friendship end, begin and
end again under them. Three connections of a phone are one that is replaced and two that replace it at
the same time. Three requests are an emergency, its end and a rival for either. `alerts_alerts` is the product of
two services and is kept to one alert and one other message, with one of each fault:
`emergency_alerting` has the larger emergency. Where all requests are used up the
system stops by the bound, and such runs do not check deadlock (`Invitations`, `WSGateway`, `Telemetry`,
`Emergency`, `Alerts`); those of `AuthServer`, `Commands` and `Geofences` do. Symmetry is used in safety runs only.

Liveness on the shared connection is checked on `AuthServer`; the handlers of `Geofences` use the same wrapper, and it
states no fairness.

## Theorems

All for any sets, finite or infinite, of users, links, codes, devices, phones, connections, commands, geofences,
workers and handlers, and any bounds. Each safety property that a run checks is proved, and each type invariant (the type
invariants are not checked again by the runs). An invariant is seldom inductive as it stands; the proofs are about
strengthenings that say what every process knows at each of its steps.

* `InvitationsProofs`: `TypeCorrect`, `Mutuality` (`MutualFriends`) and `Consent` (`FriendsConsented`) from `IInv`: a claimed link exists
  and keeps its creator, and what a transaction has inserted or deleted so far follows from its step and its link.
  `ToldTruly` (`NoPhantomMessage`) adds that a worker which notifies has its accept among the granted ones. `Refinement`
  (`Implements`) adds that no two transactions insert or delete the same friendship at a time, so that what is inserted was not
  there and what is deleted still is, until the commit: the commits are the actions of `Friendship`, every other step a stutter.
  `BothPerceive` (`FriendsHavePerception`), for any number of workers that remove friends at the same time: what the second DELETE
  of a removal hits and the first spared is of a friendship made since it began, which `straddled` then has.
* `AuthServerProofs`: `TypeCorrect` and `SessionIsOwned` (`SessionOwned`) hold for any number of requests in progress: each is at a statement of
  its own handler, and BEGIN, COMMIT and ROLLBACK are those of a transactional one. So does `AloneRequestsAreDone` (`AloneIsDone`): while nobody runs beside
  a request, its transaction is open and holds what its statements so far stand for, in whatever state others left the session before. The others suppose `Apart`: no other request is in
  progress while one is in its transaction. They cannot hold without: with two, TLC refutes `OneActiveDevice` and `WholeAccounts`
  (the two findings). `OneDeviceApart` (`OneActiveDevice`), `KeyFollowsDeviceApart` (`ActiveDeviceHoldsKey`), `AccountsAreWholeApart`
  (`WholeAccounts`), and `AnswersHoldApart` (`AnswersHold`) rest on `AInv`: the session is in a
  transaction exactly while a request is, the committed tables are sound, and those inside the transaction are, but for what the
  statements still to come add (`SoFar`). `RequestsApartAreAtomic` (`RequestsAreAtomic`) adds `CInv`: compared with what is committed, a
  transaction has changed exactly what its statements so far stand for, so that its COMMIT is the action of `Accounts`.
* `TelemetryProofs`: `StoresAgree` (`LastWasStored`) from the order of the two stores: what is about to go to Redis is in the history.
  `OnlyFriendsGetPushes` (`PushedToFriends`) and `OnlyFriendsAreShown` (`ShownByFriends`): what a request has read of followers and
  friends is among those entitled at some time since it arrived. `RedisIsNewest` (`LastIsNewest`): where no two posts of a user
  overlapped, every location in the history that is newer than Redis has is the one being stored. And `TypeCorrect`.
* `CommandsProofs`: `ErrorIsTrue` (`ErrorAskedNobody`) and `FollowersAsk` (`AskedByFriends`): a command on its way belongs to one process,
  is still Created, and nobody was asked or told of it. And `TypeCorrect`.
* `EmergencyProofs`: `FriendsOnly` (`ActsForFriends`) and `EmergenciesOnly` (`HistoryNeedsEmergency`): what a request has checked was so at some
  time since it arrived. `OneChangeEach` (`HistoryAlternates`), `OneAlertEach` (`OneAlertPerChange`), `InOrder` (`AlertsInOrder`): an alert
  on the way is about one entry of the history that no other alert is about, and a later entry's alert is only under way
  with it when the changes overlapped. And `TypeCorrect`. No step may use that nobody else publishes or changes a device, so that
  the invariant carries over to `Alerts`.
* `AlertsProofs`: `AcknowledgedWasSent` (`NothingSkipped`) and `RepeatsNeedCrashes` (`RepeatedOnlyByCrash`), for the two services together: how
  far the handler of a message has come tells what was sent of it, and a message that may still be pushed has been at most as
  often as the server crashed. What publishes next changes no message that is there. `FriendsOnlyInAlerts`
  and `OneAlertInAlerts` are the theorems of `Emergency` for the composition, whose codes, deliveries and devices are
  among the steps that preserve its invariants. And `AlertsTypeCorrect`.
* `GeofencesProofs`: `TransactionOwned` (`SessionOwned`). `FriendsOnly` (`OnlyFriends`): who is about to subscribe was a friend of the owner,
  owners never change, and no id returns, whatever is rolled back. `AnswersKept` (`KeptUnlessFailed`): until something fails, the
  tables that were meant are those a COMMIT would make now. And `TypeCorrect`.
* `WSGatewayProofs`: `EndsServed` (`ServedWhenQuiet`) and `LeavesNoQueue` (`NoOrphanQueue`), with any phones hasty. The channel serves its
  operations in turn, so the places of a phone's operations in it tell whether its queue will be there after the last deletion
  (`Declares`), or some handler still needs it (`Needs`); `WInv` says that an entry exists exactly then, and that what the queue
  lacks some handler is about to add. `SurvivesPatient` (`ChannelSurvives`) and `ServedPatient` (`OpenIsServed`) rest on `PInv`, which is about each
  phone that is not hasty: one thing at a time happens for it, so that its operations find the queue they need, and nothing
  that happens to a hasty phone (`Bystanders`) changes what it has. And `TypeCorrect`.

The assumptions are those of the modules, which TLC evaluates in every run: the "nobody" constants are no users, devices,
codes or links; `Members` and `Subjects` are users, `Hasty` and
`Followers` phones; every device has an owner; the nanny is no worker; the bounds are naturals. `Apart` is
the only hypothesis that theorems add, the five whose names say so. It is about what a behaviour does, never about the
constants: any number of handlers may satisfy it, and the run `auth_alone` has behaviours that do.

Only model-checked, on the instances of the runs, is liveness: `Answered`, `Settled`, `Evicted`, `NoneStuck`, `LateArePinged`, `Delivered` and
`AlertReaches`. It needs fairness and ENABLED, which are out of the prover's reach. So is induction over data, and recursive operators; the modules have
no use for either.

## Not modelled

Requests that a check refuses before any write change nothing and are left
out. So are names, e-mail addresses, message texts, signatures (a token verifies or
does not), images, and time (an expiry date passes at some point: `Elapse`, `Expire`, `Age`).
SERIALIZABLE conflicts of the Node services with others are the action `CommitFails`.

* `updateProfile` and `me` of the authentication server. Names, image and language nothing else depends on. The email and phone
  number, which `updateProfile` changes as well, are those a login looks up and a code is filed under (codes follow a
  changed email by cascade): a user of the models keeps his.
* Device settings: one UPDATE of one row, only for the device that asks; nothing else reads it.
* Images, wording and error texts, validation and sanitizing: pure I/O or pure functions on strings.
* The producers' own queues on the notifications exchange, which nobody consumes: their effect is memory. A restart of the broker,
  and start and stop of the WebSocket gateway, which loses everything it has.
* Start-up, configuration and deployment: the models take from them that every service has one replica, and Rocket two workers.

Observations that no property here is about: the nanny's documentation speaks of users that are offline for more than an hour and
of iOS only, while the code asks every phone whose score is in its window; `getGeofences`
(`nodejs/src/common/db/geofences.ts:67`) drops all geofences of a list with none subscribed, which its comment does not say.

What follows happens wherever requests overlap. No document, comment or test of the repository says
otherwise, so these are hazards rather than findings. A friendship made between the start of a removal
and its second DELETE, while another removal of the same two runs, stays without its `users_followers_state` rows, so that
`getUserDetails` does not show it. A device deletion that has answered 200 is undone when another request's
statement fails in, or its ROLLBACK ends, the same transaction (and a crash before the COMMIT undoes it too); other
requests answer 200 after a COMMIT that rolled back. TLC finds both when asked for more than
`FriendsHavePerception` and `AloneIsDone` say. The history of states is in the order of the commits in `Emergency`, while the rows of
the table carry the start of their transactions, so that a reader who sorts by time may see overlapping changes the other way round.
`KeptUnlessFailed` excepts failures because it must: a geofence that is deleted and answered with 200 while another request's transaction is
open comes back when that one is rolled back.
