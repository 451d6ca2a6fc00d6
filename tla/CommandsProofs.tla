----------------------------- MODULE CommandsProofs -----------------------------
(***************************************************************************)
(* Proofs about Commands, for any users, workers, correlation ids and      *)
(* number of crashes.                                                      *)
(***************************************************************************)
EXTENDS Commands, TLAPS

\* A request knows whom it asks from its creation on and its command while that
\* is being sent; only the nanny has a round.
RequestOK(r) ==
    /\ r.step \in {"create", "open", "publish", "abort"} => r.to \in Users
    /\ r.id # NoCommand <=> r.step \in {"open", "publish", "abort"}
WorkerOK(r, m) ==
    /\ r.todo = {}
    /\ r.step # "idle" => friends \subseteq m
    /\ r.step \in {"create", "open", "publish", "abort"} => <<r.to, r.user>> \in m

\* A command that is being sent belongs to one process, was not answered and has
\* asked nobody.
Pending(c) == command[c].state = "Created" /\ c \notin asked /\ told[c] = "none"
CommandsOK ==
    /\ \A p, q \in Processes : process[p].id # NoCommand /\ process[p].id = process[q].id => p = q
    /\ \A p \in Processes : process[p].id # NoCommand => Pending(process[p].id)
    /\ \A c \in Commands : command[c].state = "none" => c \notin asked /\ told[c] = "none"
    /\ ErrorAskedNobody

ProcessesOK ==
    /\ \A p \in Processes : RequestOK(process[p])
    /\ \A w \in Workers : WorkerOK(process[w], met[w])

CInv == TypeOK /\ ProcessesOK /\ CommandsOK

LEMMA BlankType == Blank \in Request
BY DEF Blank, Request

LEMMA InitCInv == Init => CInv
<1> SUFFICES ASSUME Init PROVE CInv
  OBVIOUS
<1>1. TypeOK
  BY BlankType, MaxCrashesIsNat DEF Init, TypeOK, Scores, CommandStates
<1>2. ProcessesOK
  BY DEF Init, ProcessesOK, RequestOK, WorkerOK, Processes, Blank
<1>3. CommandsOK
  BY DEF Init, CommandsOK, ErrorAskedNobody, Blank
<1> QED BY <1>1, <1>2, <1>3 DEF CInv

LEMMA GotoType ==
  ASSUME process \in [Processes -> Request], NEW p \in Processes, NEW r \in Request, Goto(p, r)
  PROVE  /\ process' \in [Processes -> Request]
         /\ process'[p] = r
         /\ \A q \in Processes \ {p} : process'[q] = process[q]
BY DEF Goto

\* The end of a request of a worker, or of one ping of the nanny.
LEMMA DoneType ==
  ASSUME CInv, NEW p \in Processes, Done(p)
  PROVE  /\ process' \in [Processes -> Request]
         /\ process'[p].id = NoCommand /\ process'[p].step \in {"idle", "pick"}
         /\ p \in Workers => process'[p] = Blank
         /\ \A q \in Processes \ {p} : process'[q] = process[q]
         /\ met' \in [Workers -> SUBSET (Users \X Users)]
         /\ \A w \in Workers \ {p} : met'[w] = met[w]
<1>1. process[p] \in Request
  BY DEF CInv, TypeOK
<1>2. PICK r : r = IF process[p].todo # {} THEN [Blank EXCEPT !.step = "pick", !.todo = process[p].todo]
                                           ELSE Blank
  OBVIOUS
<1>3. r \in Request /\ r.id = NoCommand /\ r.step \in {"idle", "pick"}
  BY <1>1, <1>2 DEF Request, Blank
<1>4. /\ process' \in [Processes -> Request] /\ process'[p] = r
      /\ \A q \in Processes \ {p} : process'[q] = process[q]
  BY <1>2, <1>3, GotoType DEF Done, CInv, TypeOK
<1>5. p \in Workers => r = Blank
  BY <1>2 DEF CInv, ProcessesOK, WorkerOK
<1>6. met' \in [Workers -> SUBSET (Users \X Users)] /\ \A w \in Workers \ {p} : met'[w] = met[w]
  BY DEF Done, CInv, TypeOK
<1> QED BY <1>3, <1>4, <1>5, <1>6

LEMMA DoneProcesses ==
  ASSUME CInv, NEW p \in Processes, Done(p), UNCHANGED friends
  PROVE  ProcessesOK'
<1>1. /\ process'[p].id = NoCommand /\ process'[p].step \in {"idle", "pick"}
      /\ p \in Workers => process'[p] = Blank
      /\ \A q \in Processes \ {p} : process'[q] = process[q]
      /\ \A w \in Workers \ {p} : met'[w] = met[w]
  BY DoneType
<1>2. ASSUME NEW q \in Processes PROVE RequestOK(process[q])'
  BY <1>1 DEF CInv, ProcessesOK, RequestOK
<1>3. ASSUME NEW w \in Workers PROVE WorkerOK(process[w], met[w])'
  BY <1>1 DEF CInv, ProcessesOK, WorkerOK, Processes, Blank
<1> QED BY <1>2, <1>3 DEF ProcessesOK

\* A step of p to r, that keeps the tables.
LEMMA GotoProcesses ==
  ASSUME CInv, NEW p \in Processes, NEW r \in Request, Goto(p, r), RequestOK(r),
         p \in Workers => WorkerOK(r, met[p]), UNCHANGED <<friends, met>>
  PROVE  ProcessesOK'
<1>1. process'[p] = r /\ \A q \in Processes \ {p} : process'[q] = process[q]
  BY GotoType DEF CInv, TypeOK
<1>2. ASSUME NEW q \in Processes PROVE RequestOK(process[q])'
  BY <1>1 DEF CInv, ProcessesOK, RequestOK
<1>3. ASSUME NEW w \in Workers PROVE WorkerOK(process[w], met[w])'
  BY <1>1 DEF CInv, ProcessesOK, WorkerOK, Processes
<1> QED BY <1>2, <1>3 DEF ProcessesOK

\* A step of p that touches no command and takes up none.
LEMMA SameCommands ==
  ASSUME CInv, NEW p \in Processes, \A q \in Processes \ {p} : process'[q] = process[q],
         process'[p].id \in {process[p].id, NoCommand}, UNCHANGED <<command, asked, told>>
  PROVE  CommandsOK'
BY DEF CInv, CommandsOK, Pending, ErrorAskedNobody

-------------------------------------------------------------------------------
LEMMA WorldStep == ASSUME CInv, World PROVE CInv'
<1>1. ASSUME NEW u \in Users, NEW v \in Users, Befriend(u, v) PROVE CInv'
  <2>1. friends' \subseteq Users \X Users /\ friends \subseteq friends'
    BY <1>1 DEF Befriend, CInv, TypeOK
  <2>2. /\ met' \in [Workers -> SUBSET (Users \X Users)]
        /\ \A w \in Workers : met[w] \subseteq met'[w]
                              /\ (process[w].step # "idle" => friends' \subseteq met'[w])
    BY <1>1, <2>1 DEF Befriend, CInv, TypeOK, At
  <2>3. TypeOK'
    BY <1>1, <2>1, <2>2 DEF Befriend, CInv, TypeOK
  <2>4. ProcessesOK'
    BY <1>1, <2>2 DEF Befriend, CInv, ProcessesOK, RequestOK, WorkerOK
  <2>5. CommandsOK'
    BY <1>1 DEF Befriend, CInv, CommandsOK, Pending, ErrorAskedNobody
  <2> QED BY <2>3, <2>4, <2>5 DEF CInv
<1>2. ASSUME NEW u \in Users, NEW v \in Users, Unfriend(u, v) PROVE CInv'
  <2>1. TypeOK'
    BY <1>2 DEF Unfriend, history, CInv, TypeOK
  <2>2. ProcessesOK'
    BY <1>2 DEF Unfriend, history, CInv, ProcessesOK, RequestOK, WorkerOK
  <2>3. CommandsOK'
    BY <1>2 DEF Unfriend, history, CInv, CommandsOK, Pending, ErrorAskedNobody
  <2> QED BY <2>1, <2>2, <2>3 DEF CInv
<1>3. ASSUME NEW u \in Users, Age(u) \/ Seen(u) PROVE CInv'
  <2>1. seen' \in [Users -> Scores]
    BY <1>3 DEF Age, Seen, Scores, CInv, TypeOK
  <2>2. UNCHANGED <<friends, command, asked, process, crashes, history>>
    BY <1>3 DEF Age, Seen
  <2>3. TypeOK'
    BY <2>1, <2>2 DEF history, CInv, TypeOK
  <2>4. ProcessesOK'
    BY <2>2 DEF history, CInv, ProcessesOK, RequestOK, WorkerOK
  <2>5. CommandsOK'
    BY <2>2 DEF history, CInv, CommandsOK, Pending, ErrorAskedNobody
  <2> QED BY <2>3, <2>4, <2>5 DEF CInv
<1>4. ASSUME NEW c \in Commands, Complete(c) PROVE CInv'
  <2>1. /\ command'[c] = [command[c] EXCEPT !.state = "Completed"]
        /\ \A d \in Commands \ {c} : command'[d] = command[d]
        /\ command' \in [Commands -> [state: CommandStates, of: Users \cup {NoUser}]]
    BY <1>4 DEF Complete, CommandStates, CInv, TypeOK
  <2>2. command[c] \in [state: CommandStates, of: Users \cup {NoUser}] /\ command[c].state # "none"
    BY <1>4 DEF Complete, CInv, TypeOK, CommandsOK
  <2>3. command'[c].state = "Completed" /\ command'[c].of \in Users
    BY <2>1, <2>2 DEF CInv, TypeOK
  <2>4. TypeOK'
    BY <1>4, <2>1, <2>3 DEF Complete, world, history, CInv, TypeOK
  <2>5. ProcessesOK'
    BY <1>4 DEF Complete, world, history, CInv, ProcessesOK, RequestOK, WorkerOK
  <2>6. \A p \in Processes : process[p].id # NoCommand => process[p].id \in Commands \ {c}
    BY <1>4 DEF Complete, CInv, TypeOK, Request, CommandsOK, Pending
  <2>7. CommandsOK'
    BY <1>4, <2>1, <2>3, <2>6 DEF Complete, history, CInv, CommandsOK, Pending, ErrorAskedNobody
  <2> QED BY <2>4, <2>5, <2>7 DEF CInv
<1> QED BY <1>1, <1>2, <1>3, <1>4 DEF World

\* What a worker and the nanny have in common.
LEMMA CallStep ==
  ASSUME CInv, NEW p \in Processes, Create(p) \/ Fail(p) \/ Open(p) \/ Publish(p) \/ Abort(p)
  PROVE  CInv'
<1>0. process[p] \in Request /\ RequestOK(process[p])
      /\ (p \in Workers => WorkerOK(process[p], met[p]))
  BY DEF CInv, TypeOK, ProcessesOK
<1>1. CASE Create(p)
  <2>1. PICK c \in Commands :
           /\ command[c].state = "none"
           /\ command' = [command EXCEPT ![c] = [state |-> "Created", of |-> process[p].to]]
           /\ Goto(p, [process[p] EXCEPT !.step = "open", !.id = c])
    BY <1>1 DEF Create
  <2>2. PICK r : r = [process[p] EXCEPT !.step = "open", !.id = c]
    OBVIOUS
  <2>3. process[p].to \in Users /\ process[p].id = NoCommand
    BY <1>0, <1>1 DEF Create, At, RequestOK
  <2>4. /\ r \in Request /\ r.id = c /\ r.step = "open"
        /\ r.to = process[p].to /\ r.user = process[p].user /\ r.todo = process[p].todo
    BY <1>0, <2>2 DEF Request
  <2>5. RequestOK(r) /\ (p \in Workers => WorkerOK(r, met[p]))
    BY <1>0, <1>1, <2>3, <2>4, NoCommandIsNoCommand DEF Create, At, RequestOK, WorkerOK
  <2>6. /\ process' \in [Processes -> Request] /\ process'[p] = r
        /\ \A q \in Processes \ {p} : process'[q] = process[q]
    BY <2>1, <2>2, <2>4, GotoType DEF CInv, TypeOK
  <2>7. /\ command' \in [Commands -> [state: CommandStates, of: Users \cup {NoUser}]]
        /\ command'[c].state = "Created" /\ command'[c].of \in Users
        /\ \A d \in Commands \ {c} : command'[d] = command[d]
    BY <2>1, <2>3 DEF CommandStates, CInv, TypeOK
  <2>8. TypeOK'
    BY <1>1, <2>6, <2>7 DEF Create, world, history, CInv, TypeOK
  <2>9. ProcessesOK'
    BY <1>1, <2>1, <2>2, <2>4, <2>5, GotoProcesses DEF Create, world, history
  <2>10. \A q \in Processes : process[q].id # c
    BY <2>1, NoCommandIsNoCommand DEF CInv, CommandsOK, Pending
  <2>11. c \notin asked /\ told[c] = "none"
    BY <2>1 DEF CInv, CommandsOK
  <2>12. \A q \in Processes : process[q].id # NoCommand => process[q].id \in Commands
    BY DEF CInv, TypeOK, Request
  <2>13. CommandsOK'
    <3>1. asked' = asked /\ told' = told
      BY <1>1 DEF Create, history
    <3>2. \A q \in Processes \ {p} : process'[q].id # c /\ process'[q].id = process[q].id
      BY <2>6, <2>10
    <3>3. process'[p].id = c
      BY <2>4, <2>6
    <3>4. \A q, x \in Processes :
             process'[q].id # NoCommand /\ process'[q].id = process'[x].id => q = x
      BY <3>2, <3>3 DEF CInv, CommandsOK
    <3>5. \A q \in Processes : process'[q].id # NoCommand => Pending(process[q].id)'
      BY <2>7, <2>11, <2>12, <3>1, <3>2, <3>3 DEF CInv, CommandsOK, Pending
    <3>6. \A d \in Commands : command'[d].state = "none" => d \notin asked' /\ told'[d] = "none"
      BY <2>7, <3>1 DEF CInv, CommandsOK
    <3>7. ErrorAskedNobody'
      BY <2>7, <2>11, <3>1 DEF CInv, CommandsOK, ErrorAskedNobody
    <3> QED BY <3>4, <3>5, <3>6, <3>7 DEF CommandsOK
  <2> QED BY <2>8, <2>9, <2>13 DEF CInv
<1>2. CASE Fail(p)
  <2>1. Done(p) /\ UNCHANGED <<world, command, asked, crashes, told>>
    BY <1>2 DEF Fail
  <2>2. TypeOK'
    BY <2>1, DoneType DEF world, CInv, TypeOK
  <2>3. ProcessesOK'
    BY <2>1, DoneProcesses DEF world
  <2>4. CommandsOK'
    BY <2>1, DoneType, SameCommands
  <2> QED BY <2>2, <2>3, <2>4 DEF CInv
<1>3. CASE Open(p)
  <2>1. PICK s \in {"publish", "abort"} : Goto(p, [process[p] EXCEPT !.step = s])
    BY <1>3 DEF Open
  <2>2. PICK r : r = [process[p] EXCEPT !.step = s]
    OBVIOUS
  <2>3. /\ r \in Request /\ r.id = process[p].id /\ r.step = s
        /\ r.to = process[p].to /\ r.user = process[p].user /\ r.todo = process[p].todo
    BY <1>0, <2>2 DEF Request
  <2>4. RequestOK(r) /\ (p \in Workers => WorkerOK(r, met[p]))
    BY <1>0, <1>3, <2>3 DEF Open, At, RequestOK, WorkerOK
  <2>5. /\ process' \in [Processes -> Request] /\ process'[p] = r
        /\ \A q \in Processes \ {p} : process'[q] = process[q]
    BY <2>1, <2>2, <2>3, GotoType DEF CInv, TypeOK
  <2>6. UNCHANGED <<world, command, asked, crashes, history>>
    BY <1>3 DEF Open
  <2>7. TypeOK'
    BY <2>5, <2>6 DEF world, history, CInv, TypeOK
  <2>8. ProcessesOK'
    BY <2>1, <2>2, <2>3, <2>4, <2>6, GotoProcesses DEF world, history
  <2>9. CommandsOK'
    BY <2>3, <2>5, <2>6, SameCommands DEF history
  <2> QED BY <2>7, <2>8, <2>9 DEF CInv
<1>4. CASE Publish(p) \/ Abort(p)
  <2> DEFINE c == process[p].id
  <2>1. Done(p) /\ UNCHANGED <<world, crashes>>
    BY <1>4 DEF Publish, Abort
  <2>2. c \in Commands /\ Pending(c)
    BY <1>0, <1>4 DEF Publish, Abort, At, RequestOK, Request, CInv, CommandsOK
  <2>3. \/ /\ asked' \in {asked, asked \cup {c}} /\ command' = command
           /\ told' = [told EXCEPT ![c] = "Created"]
        \/ /\ asked' = asked /\ command' \in {command, [command EXCEPT ![c].state = "Error"]}
           /\ told' = [told EXCEPT ![c] = "Error"]
    BY <1>4 DEF Publish, Abort
  <2> HIDE DEF c
  <2>4. command[c] \in [state: CommandStates, of: Users \cup {NoUser}] /\ command[c].of \in Users
    BY <2>2 DEF CInv, TypeOK, Pending
  <2>5. /\ command' \in [Commands -> [state: CommandStates, of: Users \cup {NoUser}]]
        /\ command'[c].state \in {"Created", "Error"} /\ command'[c].of \in Users
        /\ \A d \in Commands \ {c} : command'[d] = command[d]
    BY <2>2, <2>3, <2>4 DEF CommandStates, CInv, TypeOK, Pending
  <2>6. /\ told' \in [Commands -> {"none", "Created", "Error"}]
        /\ \A d \in Commands \ {c} : told'[d] = told[d]
        /\ asked' \subseteq Commands
        /\ \A d \in Commands \ {c} : d \in asked' <=> d \in asked
    BY <2>2, <2>3 DEF CInv, TypeOK
  <2>7. (command'[c].state = "Error" \/ told'[c] = "Error") => c \notin asked'
    BY <2>2, <2>3 DEF Pending, CInv, TypeOK
  <2>8. TypeOK'
    BY <2>1, <2>5, <2>6, DoneType DEF world, CInv, TypeOK
  <2>9. ProcessesOK'
    BY <2>1, DoneProcesses DEF world
  <2>10. /\ \A q \in Processes \ {p} : process[q].id # NoCommand => process[q].id \in Commands \ {c}
         /\ \A q \in Processes \ {p} : process'[q] = process[q]
         /\ process'[p].id = NoCommand
    BY <2>1, <2>2, DoneType, NoCommandIsNoCommand DEF CInv, TypeOK, Request, CommandsOK, c
  <2>11. CommandsOK'
    BY <2>5, <2>6, <2>7, <2>10 DEF CInv, CommandsOK, Pending, ErrorAskedNobody
  <2> QED BY <2>8, <2>9, <2>11 DEF CInv
<1> QED BY <1>1, <1>2, <1>3, <1>4

LEMMA WorkerStep ==
  ASSUME CInv, NEW w \in Workers, (\E u, v \in Users : Refresh(w, u, v)) \/ Check(w)
  PROVE  CInv'
<1>0. w \in Processes /\ process[w] \in Request /\ RequestOK(process[w])
      /\ WorkerOK(process[w], met[w])
  BY DEF CInv, TypeOK, ProcessesOK, Processes
<1>1. ASSUME NEW u \in Users, NEW v \in Users, Refresh(w, u, v) PROVE CInv'
  <2>1. PICK r : r = [Blank EXCEPT !.step = "check", !.user = u, !.to = v]
    OBVIOUS
  <2>2. r \in Request /\ r.id = NoCommand /\ r.step = "check" /\ r.todo = {}
    BY <2>1 DEF Request, Blank
  <2>3. /\ process' \in [Processes -> Request] /\ process'[w] = r
        /\ \A q \in Processes \ {w} : process'[q] = process[q]
    BY <1>0, <1>1, <2>1, <2>2, GotoType DEF Refresh, CInv, TypeOK
  <2>4. UNCHANGED <<world, command, asked, crashes, told>> /\ met' = [met EXCEPT ![w] = friends]
    BY <1>1 DEF Refresh
  <2>5. TypeOK'
    BY <2>3, <2>4 DEF world, CInv, TypeOK
  <2>6. ASSUME NEW q \in Processes PROVE RequestOK(process[q])'
    BY <2>2, <2>3 DEF RequestOK, CInv, ProcessesOK
  <2>7. ASSUME NEW x \in Workers PROVE WorkerOK(process[x], met[x])'
    <3>1. CASE x = w
      BY <2>2, <2>3, <2>4, <3>1 DEF WorkerOK, world, CInv, TypeOK
    <3>2. CASE x # w
      BY <2>3, <2>4, <3>2 DEF WorkerOK, world, CInv, TypeOK, ProcessesOK, Processes
    <3> QED BY <3>1, <3>2
  <2>8. CommandsOK'
    BY <1>0, <2>2, <2>3, <2>4, SameCommands
  <2> QED BY <2>5, <2>6, <2>7, <2>8 DEF CInv, ProcessesOK
<1>2. CASE Check(w)
  <2>1. CASE <<process[w].to, process[w].user>> \in friends
    <3>1. PICK r : r = [process[w] EXCEPT !.step = "create"]
      OBVIOUS
    <3>2. Goto(w, r) /\ UNCHANGED <<met, world, command, asked, crashes, told>>
      BY <1>2, <2>1, <3>1 DEF Check
    <3>3. /\ r \in Request /\ r.id = process[w].id /\ r.step = "create"
          /\ r.to = process[w].to /\ r.user = process[w].user /\ r.todo = process[w].todo
      BY <1>0, <3>1 DEF Request
    <3>4. process[w].to \in Users
      BY <2>1 DEF CInv, TypeOK
    <3>5. RequestOK(r) /\ WorkerOK(r, met[w])
      BY <1>0, <1>2, <2>1, <3>3, <3>4 DEF Check, At, RequestOK, WorkerOK
    <3>6. /\ process' \in [Processes -> Request] /\ process'[w] = r
          /\ \A q \in Processes \ {w} : process'[q] = process[q]
      BY <1>0, <3>2, <3>3, GotoType DEF CInv, TypeOK
    <3>7. TypeOK'
      BY <3>2, <3>6 DEF world, CInv, TypeOK
    <3>8. ProcessesOK'
      BY <1>0, <3>2, <3>3, <3>5, GotoProcesses DEF world
    <3>9. CommandsOK'
      BY <1>0, <3>2, <3>3, <3>6, SameCommands
    <3> QED BY <3>7, <3>8, <3>9 DEF CInv
  <2>2. CASE <<process[w].to, process[w].user>> \notin friends
    <3>1. Done(w) /\ UNCHANGED <<world, command, asked, crashes, told>>
      BY <1>2, <2>2 DEF Check
    <3>2. TypeOK'
      BY <1>0, <3>1, DoneType DEF world, CInv, TypeOK
    <3>3. ProcessesOK'
      BY <1>0, <3>1, DoneProcesses DEF world
    <3>4. CommandsOK'
      BY <1>0, <3>1, DoneType, SameCommands
    <3> QED BY <3>2, <3>3, <3>4 DEF CInv
  <2> QED BY <2>1, <2>2
<1> QED BY <1>1, <1>2

LEMMA NannyStep ==
  ASSUME CInv, Tick \/ Pick \/ Panic
  PROVE  CInv'
<1>0. Nanny \in Processes /\ process[Nanny] \in Request /\ Nanny \notin Workers
  BY NannyIsNoWorker DEF CInv, TypeOK, Processes
<1>1. CASE Tick \/ Pick
  <2>1. PICK r : /\ r \in Request /\ Goto(Nanny, r) /\ RequestOK(r)
                 /\ r.id \in {process[Nanny].id, NoCommand}
    <3>1. CASE Tick
      <4> DEFINE late == {u \in Users : seen[u] = "late"}
      <4>1. PICK r : r = [Blank EXCEPT !.step = "pick", !.todo = late]
        OBVIOUS
      <4>2. r \in Request /\ RequestOK(r) /\ r.id = NoCommand
        BY <4>1 DEF Request, Blank, RequestOK
      <4> QED BY <3>1, <4>1, <4>2 DEF Tick
    <3>2. CASE Pick
      <4>1. PICK u \in process[Nanny].todo :
               Goto(Nanny, [process[Nanny] EXCEPT !.step = "create", !.to = u, !.todo = @ \ {u}])
        BY <3>2 DEF Pick
      <4>2. PICK r : r = [process[Nanny] EXCEPT !.step = "create", !.to = u, !.todo = @ \ {u}]
        OBVIOUS
      <4>3. u \in Users /\ process[Nanny].id = NoCommand
        BY <1>0, <3>2, <4>1 DEF Pick, At, Request, CInv, ProcessesOK, RequestOK
      <4>4. r \in Request /\ RequestOK(r) /\ r.id = process[Nanny].id
        BY <1>0, <4>2, <4>3 DEF Request, RequestOK
      <4> QED BY <4>1, <4>2, <4>4
    <3> QED BY <1>1, <3>1, <3>2
  <2>2. UNCHANGED <<world, command, asked, crashes, history>>
    BY <1>1 DEF Tick, Pick
  <2>3. /\ process' \in [Processes -> Request] /\ process'[Nanny] = r
        /\ \A q \in Processes \ {Nanny} : process'[q] = process[q]
    BY <1>0, <2>1, GotoType DEF CInv, TypeOK
  <2>4. TypeOK'
    BY <2>2, <2>3 DEF world, history, CInv, TypeOK
  <2>5. ProcessesOK'
    BY <1>0, <2>1, <2>2, GotoProcesses DEF world, history
  <2>6. CommandsOK'
    BY <1>0, <2>1, <2>2, <2>3, SameCommands DEF history
  <2> QED BY <2>4, <2>5, <2>6 DEF CInv
<1>2. CASE Panic
  <2>1. /\ process' \in [Processes -> Request] /\ process'[Nanny] = Blank
        /\ \A q \in Processes \ {Nanny} : process'[q] = process[q]
    BY <1>0, <1>2, BlankType, GotoType DEF Panic, CInv, TypeOK
  <2>2. UNCHANGED <<world, command, asked, history>> /\ crashes' \in 0..MaxCrashes
    BY <1>2, MaxCrashesIsNat DEF Panic, CInv, TypeOK
  <2>3. TypeOK'
    BY <2>1, <2>2 DEF world, history, CInv, TypeOK
  <2>4. RequestOK(Blank)
    BY DEF RequestOK, Blank
  <2>5. ProcessesOK'
    BY <1>0, <1>2, <2>2, <2>4, BlankType, GotoProcesses DEF Panic, world, history
  <2>6. CommandsOK'
    BY <1>0, <2>1, <2>2, SameCommands DEF history, Blank
  <2> QED BY <2>3, <2>5, <2>6 DEF CInv
<1> QED BY <1>1, <1>2

LEMMA CStep == ASSUME CInv, [Next]_vars PROVE CInv'
<1>1. CASE UNCHANGED vars
  BY <1>1 DEF vars, world, history, CInv, TypeOK, ProcessesOK, RequestOK, WorkerOK, CommandsOK,
              Pending, ErrorAskedNobody
<1>2. CASE World
  BY <1>2, WorldStep
<1>3. ASSUME NEW w \in Workers, Serve(w) PROVE CInv'
  BY <1>3, CallStep, WorkerStep DEF Serve, Processes
<1>4. CASE Round \/ Panic
  BY <1>4, CallStep, NannyStep DEF Round, Processes
<1> QED BY <1>1, <1>2, <1>3, <1>4 DEF Next

LEMMA AlwaysCInv == Spec => []CInv
<1>1. Init => CInv
  BY InitCInv
<1>2. CInv /\ [Next]_vars => CInv'
  BY CStep
<1> QED BY <1>1, <1>2, PTL DEF Spec

\* Every reachable state is well formed.
THEOREM TypeCorrect == Spec => []TypeOK
<1>1. CInv => TypeOK
  BY DEF CInv
<1> QED BY <1>1, AlwaysCInv, PTL

\* force_refresh_telemetry_internal: whoever was told of an Error, no phone was asked.
THEOREM ErrorIsTrue == Spec => []ErrorAskedNobody
<1>1. CInv => ErrorAskedNobody
  BY DEF CInv, CommandsOK
<1> QED BY <1>1, AlwaysCInv, PTL

\* force_refresh_telemetry: only followers have phones asked.
THEOREM FollowersAsk == Spec => []AskedByFriends
<1>1. CInv => AskedByFriends
  BY DEF CInv, ProcessesOK, RequestOK, WorkerOK, AskedByFriends, Processes
<1> QED BY <1>1, AlwaysCInv, PTL

===============================================================================
