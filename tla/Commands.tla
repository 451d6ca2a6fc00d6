-------------------------------- MODULE Commands -------------------------------
(***************************************************************************)
(* Commands: a phone is asked for its location, by a follower (GET         *)
(* /telemetry/<user> of the Rust HTTP gateway) or by the nanny             *)
(* (bin/nanny.rs), which asks whoever has been silent for a while.         *)
(*                                                                         *)
(* Both run force_refresh_telemetry_internal: a row of commands, then a    *)
(* notification with its correlation id, which the phone's next post hands *)
(* back.  A post also enters the phone in telemetry.last.seen (Redis),     *)
(* where the nanny looks for the silent ones.  The rest of a post is in    *)
(* module Telemetry.                                                       *)
(*                                                                         *)
(* One action is one statement, Redis command or publication of a process. *)
(***************************************************************************)
EXTENDS Naturals

CONSTANTS
    Users,      \* with a complete account
    Workers,    \* Rocket's workers
    Nanny,      \* the nanny's process
    Commands,   \* correlation ids: bounds how many commands are ever created
    MaxCrashes, \* bounds how often the nanny panics
    NoUser,     \* nobody
    NoCommand   \* no correlation id

ASSUME NannyIsNoWorker == Nanny \notin Workers
ASSUME MaxCrashesIsNat == MaxCrashes \in Nat
ASSUME NoUserIsNoUser == NoUser \notin Users
ASSUME NoCommandIsNoCommand == NoCommand \notin Commands

VARIABLES
    friends,    \* users_followers: <<u, v>> when v follows u
    seen,       \* Redis: where the score of u in telemetry.last.seen lies for the nanny
    command,    \* commands: the state of each, and whose phone it asks
    asked,      \* commands whose notification was published
    process,    \* the request of each worker, and the round of the nanny
    crashes,    \* how often the nanny has panicked
    told,       \* history: the commandStatus answered for a command
    met         \* history: the friends there were since a worker's request arrived

world == <<friends, seen>>
history == <<told, met>>
vars == <<world, command, asked, process, crashes, history>>

Processes == Workers \cup {Nanny}

\* Relative to the nanny's window: late is in it, away is before it, or never seen.
Scores == {"online", "late", "away"}

CommandStates == {"none", "Created", "Completed", "Error"}

Request == [
    step: {"idle", "check", "pick", "create", "open", "publish", "abort"},
    user: Users \cup {NoUser},      \* the follower who asks; nobody, of the nanny's
    to: Users \cup {NoUser},        \* the user whose phone is asked
    todo: SUBSET Users,             \* those whose turn in the round is still to come
    id: Commands \cup {NoCommand}]

Blank == [step |-> "idle", user |-> NoUser, to |-> NoUser, todo |-> {}, id |-> NoCommand]

Init ==
    /\ friends = {}
    /\ seen = [u \in Users |-> "away"]
    /\ command = [c \in Commands |-> [state |-> "none", of |-> NoUser]]
    /\ asked = {}
    /\ process = [p \in Processes |-> Blank]
    /\ crashes = 0
    /\ told = [c \in Commands |-> "none"]
    /\ met = [w \in Workers |-> {}]

-------------------------------------------------------------------------------
Goto(p, r) == process' = [process EXCEPT ![p] = r]
At(p, s) == process[p].step = s

Befriend(u, v) ==
    /\ u # v
    /\ <<u, v>> \notin friends
    /\ friends' = friends \cup {<<u, v>>, <<v, u>>}
    /\ met' = [w \in Workers |-> IF At(w, "idle") THEN met[w] ELSE met[w] \cup friends']
    /\ UNCHANGED <<seen, command, asked, process, crashes, told>>

Unfriend(u, v) ==
    /\ <<u, v>> \in friends
    /\ friends' = friends \ {<<u, v>>, <<v, u>>}
    /\ UNCHANGED <<seen, command, asked, process, crashes, history>>

\* Time passes: from the online threshold to the cut-off a user is in the window.
Age(u) ==
    /\ seen[u] # "away"
    /\ seen' = [seen EXCEPT ![u] = IF @ = "online" THEN "late" ELSE "away"]
    /\ UNCHANGED <<friends, command, asked, process, crashes, history>>

\* ZADD of store_telemetry, for a post with a recipient.
Seen(u) ==
    /\ seen' = [seen EXCEPT ![u] = "online"]
    /\ UNCHANGED <<friends, command, asked, process, crashes, history>>

\* close_command of post_telemetry: the phone hands back the correlation id of
\* a notification.  An error is only logged, and the row stays as it is.
Complete(c) ==
    /\ c \in asked
    /\ command' = [command EXCEPT ![c].state = "Completed"]
    /\ UNCHANGED <<world, asked, process, crashes, history>>

-------------------------------------------------------------------------------
\* force_refresh_telemetry: u asks for the location of v.
Refresh(w, u, v) ==
    /\ At(w, "idle")
    /\ u # v
    /\ Goto(w, [Blank EXCEPT !.step = "check", !.user = u, !.to = v])
    /\ met' = [met EXCEPT ![w] = friends]
    /\ UNCHANGED <<world, command, asked, crashes, told>>

\* Mutant of Done: the nanny's round ends with a ping.
DoneForNow(p) ==
    /\ Goto(p, Blank)
    /\ met' = IF p = Nanny THEN met ELSE [met EXCEPT ![p] = {}]

\* The end of a request, and of force_refresh_telemetry_internal: the nanny
\* goes on with its round.
Done(p) ==
    /\ Goto(p, IF process[p].todo # {} THEN [Blank EXCEPT !.step = "pick", !.todo = process[p].todo]
                                       ELSE Blank)
    /\ met' = IF p = Nanny THEN met ELSE [met EXCEPT ![p] = {}]

\* Mutant of Check: the answer to a stranger is not returned.
CheckOnly(w) ==
    /\ At(w, "check")
    /\ Goto(w, [process[w] EXCEPT !.step = "create"])
    /\ UNCHANGED <<world, command, asked, crashes, history>>

\* username_has_follower; a stranger is answered "security".
Check(w) ==
    /\ At(w, "check")
    /\ IF <<process[w].to, process[w].user>> \in friends
       THEN Goto(w, [process[w] EXCEPT !.step = "create"]) /\ UNCHANGED met
       ELSE Done(w)
    /\ UNCHANGED <<world, command, asked, crashes, told>>

\* create_command.
Create(p) ==
    /\ At(p, "create")
    /\ \E c \in Commands :
           /\ command[c].state = "none"
           /\ command' = [command EXCEPT ![c] = [state |-> "Created", of |-> process[p].to]]
           /\ Goto(p, [process[p] EXCEPT !.step = "open", !.id = c])
    /\ UNCHANGED <<world, asked, crashes, history>>

\* A SELECT or the INSERT fails: a follower is answered with the error; of the
\* nanny it is logged, and the round goes on.
Fail(p) ==
    /\ At(p, "check") \/ At(p, "create")
    /\ Done(p)
    /\ UNCHANGED <<world, command, asked, crashes, told>>

\* RabbitConnection::insecure_open.
Open(p) ==
    /\ At(p, "open")
    /\ \E s \in {"publish", "abort"} : Goto(p, [process[p] EXCEPT !.step = s])
    /\ UNCHANGED <<world, command, asked, crashes, history>>

\* Mutant of Publish: that the connection cannot be closed counts as a failure.
PublishUnsure(p) ==
    /\ At(p, "publish")
    /\ asked' \in {asked, asked \cup {process[p].id}}
    /\ \/ told' = [told EXCEPT ![process[p].id] = "Created"] /\ Done(p)
       \/ Goto(p, [process[p] EXCEPT !.step = "abort"]) /\ UNCHANGED history
    /\ UNCHANGED <<world, command, crashes>>

\* send_force_refresh: that it failed, or that there is no device to ask, does
\* not change the answer, and the command stays Created.
Publish(p) ==
    /\ At(p, "publish")
    /\ asked' \in {asked, asked \cup {process[p].id}}
    /\ told' = [told EXCEPT ![process[p].id] = "Created"]
    /\ Done(p)
    /\ UNCHANGED <<world, command, crashes>>

\* close_command with Error, whether or not that can be stored.
Abort(p) ==
    /\ At(p, "abort")
    /\ \/ command' = [command EXCEPT ![process[p].id].state = "Error"]
       \/ UNCHANGED command
    /\ told' = [told EXCEPT ![process[p].id] = "Error"]
    /\ Done(p)
    /\ UNCHANGED <<world, asked, crashes>>

\* A round of the nanny: who was seen last in the window, at this moment.
Tick ==
    /\ At(Nanny, "idle")
    /\ LET late == {u \in Users : seen[u] = "late"}
       IN  late # {} /\ Goto(Nanny, [Blank EXCEPT !.step = "pick", !.todo = late])
    /\ UNCHANGED <<world, command, asked, crashes, history>>

Pick ==
    /\ At(Nanny, "pick")
    /\ \E u \in process[Nanny].todo :
           Goto(Nanny, [process[Nanny] EXCEPT !.step = "create", !.to = u, !.todo = @ \ {u}])
    /\ UNCHANGED <<world, command, asked, crashes, history>>

\* No connection to Postgres or Redis: the process panics, here or where it is killed,
\* and is started again.
Panic ==
    /\ ~At(Nanny, "idle")
    /\ crashes < MaxCrashes
    /\ crashes' = crashes + 1
    /\ Goto(Nanny, Blank)
    /\ UNCHANGED <<world, command, asked, history>>

-------------------------------------------------------------------------------
World ==
    \/ \E u, v \in Users : Befriend(u, v) \/ Unfriend(u, v)
    \/ \E u \in Users : Age(u) \/ Seen(u)
    \/ \E c \in Commands : Complete(c)

Serve(w) ==
    \/ \E u, v \in Users : Refresh(w, u, v)
    \/ Check(w) \/ Create(w) \/ Fail(w) \/ Open(w) \/ Publish(w) \/ Abort(w)

Round ==
    \/ Tick \/ Pick
    \/ Create(Nanny) \/ Fail(Nanny) \/ Open(Nanny) \/ Publish(Nanny) \/ Abort(Nanny)

Next == World \/ (\E w \in Workers : Serve(w)) \/ Round \/ Panic

Spec == Init /\ [][Next]_vars

\* The nanny's loop goes on; nothing needs the workers to.
FairSpec == Spec /\ WF_vars(Round)

-------------------------------------------------------------------------------
TypeOK ==
    /\ friends \subseteq Users \X Users
    /\ seen \in [Users -> Scores]
    /\ command \in [Commands -> [state: CommandStates, of: Users \cup {NoUser}]]
    /\ \A c \in Commands : command[c].state # "none" => command[c].of \in Users
    /\ asked \subseteq Commands
    /\ process \in [Processes -> Request]
    /\ crashes \in 0..MaxCrashes
    /\ told \in [Commands -> {"none", "Created", "Error"}]
    /\ met \in [Workers -> SUBSET (Users \X Users)]

\* "Failed to send the notification" is true: a command that ended in Error, or
\* was answered as one, asked no phone, so that no late post completes it.
ErrorAskedNobody ==
    \A c \in Commands : (command[c].state = "Error" \/ told[c] = "Error") => c \notin asked

\* username_has_follower is read well before the phone is asked: who asks it has
\* been a follower since the request arrived, and a command is never created for
\* a stranger.
AskedByFriends ==
    \A w \in Workers : process[w].id # NoCommand => <<process[w].to, process[w].user>> \in met[w]

\* start_run_loop: a user in the window gets his turn, or is not in it any more,
\* whatever becomes of the pings of others, however long a round takes and
\* whether or not the process panics in it.
LateArePinged ==
    \A u \in Users : seen[u] = "late" ~>
        (seen[u] # "late" \/ (At(Nanny, "create") /\ process[Nanny].to = u))

===============================================================================
