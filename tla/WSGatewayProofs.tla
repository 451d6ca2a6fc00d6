---------------------------- MODULE WSGatewayProofs ----------------------------
(***************************************************************************)
(* Proofs about WSGateway, for any phones, any number of connections and   *)
(* any of the phones hasty.                                                *)
(***************************************************************************)
EXTENDS WSGateway, SequenceTheorems, TLAPS

-------------------------------------------------------------------------------
\* What is going to come of the queue of a phone.  The operations under way for
\* it go around: each is done at the front and has its successor at the end.  So
\* those that delete the queue at once, or after the others have come by once
\* ("unbind"), can be told from their places, P[op] for each operation op.

Ops == HandlerOps \cup CloseOps

\* Whether the queue is there after the last deletion of it, if it is there now.
Declares(P, now) ==
    IF P["unbind"] # {}
    THEN \E r \in P["drop"] : \A u \in P["unbind"] : u < r
    ELSE \/ P["drop"] # {}
         \/ \E a \in P["assert"] : \A d \in P["delete"] : d < a
         \/ P["delete"] = {} /\ now

\* Some handler has a bind or a consume to come after that.
Needs(P) ==
    IF P["unbind"] # {}
    THEN \/ P["assert"] # {} \/ P["exchange"] # {} \/ P["drop"] # {}
         \/ \E b \in P["bind"] : \A u \in P["unbind"] : u < b
    ELSE \/ P["assert"] # {} \/ P["exchange"] # {} \/ P["bind"] # {}
         \/ \E c \in P["consume"] : \A d \in P["delete"] : d < c

\* The first of n places, where "from" is, goes, and "to" has the last.
Rotates(P, Q, n, from, to) ==
    /\ n \in Nat /\ P \in [Ops -> SUBSET (1..n)] /\ Q \in [Ops -> SUBSET (1..n)]
    /\ \A op \in Ops : 1 \in P[op] <=> op = from
    /\ \A op \in Ops, i \in 1..n : i \in Q[op] <=> i + 1 \in P[op] \/ (op = to /\ i = n)

\* "to" has a place of its own behind the n others.
Grows(P, Q, n, to) ==
    /\ n \in Nat /\ P \in [Ops -> SUBSET (1..n)]
    /\ Q = [op \in Ops |-> P[op] \cup IF op = to THEN {n + 1} ELSE {}]

\* Where nothing but the places changes.
LEMMA Shifted ==
  ASSUME NEW P, NEW Q, NEW n, NEW from, NEW to, Rotates(P, Q, n, from, to)
  PROVE  /\ \A op \in Ops : \A i \in P[op] : i # 1 => i - 1 \in Q[op]
         /\ \A op \in Ops \ {from} : P[op] # {} => Q[op] # {}
         /\ \A op \in Ops \ {to} : Q[op] # {} => P[op] # {}
         /\ \A op \in Ops \ {to} : \A i \in Q[op] : i + 1 \in P[op] /\ i + 1 # 1
         /\ \A op \in Ops : P[op] \subseteq Nat /\ Q[op] \subseteq Nat
         /\ to \in Ops /\ n > 0 => n \in Q[to] /\ \A op \in Ops \ {to} : \A i \in Q[op] : i < n
<1>1. ASSUME NEW op \in Ops, NEW i \in P[op], i # 1 PROVE i - 1 \in Q[op]
  BY <1>1 DEF Rotates
<1>2. ASSUME NEW op \in Ops \ {from}, P[op] # {} PROVE Q[op] # {}
  BY <1>1, <1>2 DEF Rotates
<1>3. ASSUME NEW op \in Ops \ {to}, NEW i \in Q[op] PROVE i + 1 \in P[op] /\ i + 1 # 1
  BY <1>3 DEF Rotates
<1>4. \A op \in Ops : P[op] \subseteq Nat /\ Q[op] \subseteq Nat
  BY DEF Rotates
<1>5. ASSUME to \in Ops, n > 0 PROVE n \in Q[to] /\ \A op \in Ops \ {to} : \A i \in Q[op] : i < n
  <2>1. n \in Q[to]
    BY <1>5 DEF Rotates
  <2>2. ASSUME NEW op \in Ops \ {to}, NEW i \in Q[op] PROVE i < n
    BY <2>2, <1>3 DEF Rotates
  <2> QED BY <2>1, <2>2
<1> QED BY <1>1, <1>2, <1>3, <1>4, <1>5

\* The operations of one phone do not notice those of another.
LEMMA RotateOther ==
  ASSUME NEW P, NEW Q, NEW n, Rotates(P, Q, n, "none", "none"), NEW now \in BOOLEAN
  PROVE  /\ Declares(Q, now) <=> Declares(P, now)
         /\ Needs(Q) <=> Needs(P)
         /\ \A op \in Ops : Q[op] = {} <=> P[op] = {}
<1>1. "none" \notin Ops
  BY DEF Ops, HandlerOps, CloseOps
<1>2. /\ \A op \in Ops : \A i \in P[op] : i - 1 \in Q[op]
      /\ \A op \in Ops : \A i \in Q[op] : i + 1 \in P[op]
      /\ \A op \in Ops : P[op] \subseteq Nat /\ Q[op] \subseteq Nat
      /\ \A op \in Ops : P[op] # {} <=> Q[op] # {}
  BY <1>1, Shifted DEF Rotates
<1>3. \A x, y \in Ops :
          (\E r \in P[x] : \A u \in P[y] : u < r) <=> (\E r \in Q[x] : \A u \in Q[y] : u < r)
  <2> TAKE x, y \in Ops
  <2>1. ASSUME NEW r \in P[x], \A u \in P[y] : u < r
        PROVE  r - 1 \in Q[x] /\ \A u \in Q[y] : u < r - 1
    BY <1>2, <2>1
  <2>2. ASSUME NEW r \in Q[x], \A u \in Q[y] : u < r
        PROVE  r + 1 \in P[x] /\ \A u \in P[y] : u < r + 1
    BY <1>2, <2>2
  <2> QED BY <2>1, <2>2
<1> QED BY <1>2, <1>3 DEF Declares, Needs, Ops, HandlerOps, CloseOps

\* The operations of x that are behind all of y.
Behind(P, x, y) == \E r \in P[x] : \A u \in P[y] : u < r

LEMMA BehindKept ==
  ASSUME NEW P, NEW Q, NEW n, NEW from, NEW to, Rotates(P, Q, n, from, to),
         NEW x \in Ops, NEW y \in Ops
  PROVE  /\ x # to /\ Behind(Q, x, y) => Behind(P, x, y)
         /\ y # to /\ (x # from \/ P[y] # {}) /\ Behind(P, x, y) => Behind(Q, x, y)
<1>1. ASSUME x # to, NEW r \in Q[x], \A u \in Q[y] : u < r
      PROVE  r + 1 \in P[x] /\ \A u \in P[y] : u < r + 1
  <2>1. r + 1 \in P[x] /\ r \in Nat /\ r >= 1
    BY <1>1, Shifted DEF Rotates
  <2>2. ASSUME NEW u \in P[y], u # 1 PROVE u < r + 1
    BY <1>1, <2>1, <2>2, Shifted
  <2> QED BY <2>1, <2>2
<1>2. ASSUME y # to, x # from \/ P[y] # {}, NEW r \in P[x], \A u \in P[y] : u < r
      PROVE  r - 1 \in Q[x] /\ \A u \in Q[y] : u < r - 1
  <2>1. r # 1
    BY <1>2 DEF Rotates
  <2>2. r - 1 \in Q[x] /\ r \in Nat
    BY <2>1, Shifted
  <2>3. ASSUME NEW u \in Q[y] PROVE u < r - 1
    BY <1>2, <2>2, <2>3, Shifted
  <2> QED BY <2>2, <2>3
<1> QED BY <1>1, <1>2 DEF Behind

\* An operation that has just come to the last place is behind the others.
LEMMA LastBehind ==
  ASSUME NEW P, NEW Q, NEW n, NEW from, NEW to \in Ops, Rotates(P, Q, n, from, to), n > 0,
         NEW y \in Ops \ {to}
  PROVE  Behind(Q, to, y) /\ Q[to] # {} /\ ~Behind(Q, y, to)
<1>1. n \in Q[to] /\ \A i \in Q[y] : i < n
  BY Shifted
<1>2. Q[y] \subseteq Nat /\ n \in Nat
  BY DEF Rotates
<1> QED BY <1>1, <1>2 DEF Behind

\* The names of the operations are not confused.
LEMMA Names ==
  /\ Ops = {"drop", "assert", "exchange", "bind", "consume", "unbind", "delete"}
  /\ "none" \notin Ops
BY DEF Ops, HandlerOps, CloseOps

LEMMA DeclaresBehind ==
  ASSUME NEW P, NEW now
  PROVE  Declares(P, now) <=>
           IF P["unbind"] # {} THEN Behind(P, "drop", "unbind")
           ELSE P["drop"] # {} \/ Behind(P, "assert", "delete") \/ (P["delete"] = {} /\ now)
BY DEF Declares, Behind

LEMMA NeedsBehind ==
  ASSUME NEW P
  PROVE  Needs(P) <=>
           IF P["unbind"] # {}
           THEN \/ P["assert"] # {} \/ P["exchange"] # {} \/ P["drop"] # {}
                \/ Behind(P, "bind", "unbind")
           ELSE \/ P["assert"] # {} \/ P["exchange"] # {} \/ P["bind"] # {}
                \/ Behind(P, "consume", "delete")
BY DEF Needs, Behind

LEMMA RotateUnbind ==
  ASSUME NEW P, NEW Q, NEW n, Rotates(P, Q, n, "unbind", "delete"), n > 0, NEW now \in BOOLEAN
  PROVE  /\ Declares(Q, now) => Declares(P, now)
         /\ Declares(P, now) \/ Needs(P) => Declares(Q, now) \/ Needs(Q)
<1>1. P["unbind"] # {} /\ Q["delete"] # {} /\ ~Behind(Q, "assert", "delete")
  <2>1. P["unbind"] # {}
    BY Names DEF Rotates
  <2>2. Q["delete"] # {} /\ ~Behind(Q, "assert", "delete")
    BY Names, LastBehind
  <2> QED BY <2>1, <2>2
<1>2. \A op \in {"drop", "assert", "exchange", "bind", "consume"} : P[op] # {} <=> Q[op] # {}
  BY Names, Shifted
<1>3. Behind(Q, "drop", "unbind") => Behind(P, "drop", "unbind")
  BY Names, BehindKept
<1>4. Behind(P, "drop", "unbind") => Behind(Q, "drop", "unbind")
  BY Names, BehindKept
<1>5. Behind(P, "bind", "unbind") => Behind(Q, "bind", "unbind")
  BY Names, BehindKept
<1>6. Behind(P, "bind", "unbind") => P["bind"] # {}
  BY DEF Behind
<1>7. Behind(P, "drop", "unbind") => P["drop"] # {}
  BY DEF Behind
<1>8. Q["unbind"] = {} /\ P["drop"] # {} => Behind(P, "drop", "unbind")
  <2> SUFFICES ASSUME Q["unbind"] = {}, NEW r \in P["drop"] PROVE Behind(P, "drop", "unbind")
    OBVIOUS
  <2>1. r \in Nat /\ r >= 1 /\ r # 1
    BY Names DEF Rotates
  <2>2. \A u \in P["unbind"] : u = 1
    BY Names, Shifted
  <2> QED BY <2>1, <2>2 DEF Behind
<1> QED BY <1>1, <1>2, <1>3, <1>4, <1>5, <1>6, <1>7, <1>8, DeclaresBehind, NeedsBehind

LEMMA RotateDelete ==
  ASSUME NEW P, NEW Q, NEW n, Rotates(P, Q, n, "delete", "none"), NEW now \in BOOLEAN
  PROVE  /\ Declares(Q, FALSE) => Declares(P, now)
         /\ Declares(P, now) \/ Needs(P) => Declares(Q, FALSE) \/ Needs(Q)
<1>1. P["delete"] # {}
  BY Names DEF Rotates
<1>2. \A op \in Ops \ {"delete"} : P[op] # {} <=> Q[op] # {}
  BY Names, Shifted
<1>3. \A x \in Ops \ {"delete"}, y \in Ops : Behind(P, x, y) <=> Behind(Q, x, y)
  BY Names, BehindKept
<1> QED BY <1>1, <1>2, <1>3, Names, DeclaresBehind, NeedsBehind

LEMMA RotateHandler ==
  ASSUME NEW P, NEW Q, NEW n, n > 0, NEW now \in BOOLEAN,
         NEW from, NEW to, <<from, to>> \in {<<"assert", "exchange">>, <<"exchange", "bind">>},
         Rotates(P, Q, n, from, to)
  PROVE  /\ Declares(Q, now \/ from = "assert") => Declares(P, now)
         /\ Needs(Q)
<1>1. from \in {"assert", "exchange"} /\ to \in {"exchange", "bind"} /\ from # to
      /\ (from = "assert" <=> to = "exchange")
  OBVIOUS
<1>2. \A op \in Ops \ {from, to} : P[op] # {} <=> Q[op] # {}
  BY Names, Shifted
<1>3. Behind(Q, to, "unbind") /\ Q[to] # {}
  BY <1>1, Names, LastBehind
<1>4. Needs(Q)
  BY <1>1, <1>3, NeedsBehind
<1>5. /\ Behind(Q, "drop", "unbind") => Behind(P, "drop", "unbind")
      /\ Behind(Q, "assert", "delete") => Behind(P, "assert", "delete")
  BY <1>1, Names, BehindKept
<1>6. from = "assert" /\ P["delete"] = {} => Behind(P, "assert", "delete")
  BY Names DEF Behind, Rotates
<1>7. Declares(Q, now \/ from = "assert") => Declares(P, now)
  <2>1. /\ P["unbind"] # {} <=> Q["unbind"] # {}
        /\ P["drop"] # {} <=> Q["drop"] # {}
        /\ P["delete"] # {} <=> Q["delete"] # {}
    BY <1>1, <1>2, Names
  <2> QED BY <1>5, <1>6, <2>1, DeclaresBehind
<1> QED BY <1>4, <1>7

LEMMA RotateBind ==
  ASSUME NEW P, NEW Q, NEW n, n > 0, NEW now \in BOOLEAN, Rotates(P, Q, n, "bind", "consume")
  PROVE  /\ Declares(Q, now) => Declares(P, now)
         /\ Declares(P, now) \/ Needs(P) => Declares(Q, now) \/ Needs(Q)
<1>1. \A op \in Ops \ {"bind", "consume"} : P[op] # {} <=> Q[op] # {}
  BY Names, Shifted
<1>2. Behind(Q, "consume", "delete")
  BY Names, LastBehind
<1>3. \A x \in {"drop", "assert"}, y \in {"unbind", "delete"} : Behind(P, x, y) <=> Behind(Q, x, y)
  BY Names, BehindKept
<1>4. P["unbind"] # {} /\ Behind(P, "bind", "unbind") => Behind(Q, "bind", "unbind")
  BY Names, BehindKept
<1> QED BY <1>1, <1>2, <1>3, <1>4, Names, DeclaresBehind, NeedsBehind

LEMMA RotateConsume ==
  ASSUME NEW P, NEW Q, NEW n, Rotates(P, Q, n, "consume", "none")
  PROVE  /\ Declares(Q, TRUE) => Declares(P, TRUE)
         /\ Declares(P, TRUE) \/ Needs(P) => Declares(Q, TRUE) \/ Needs(Q)
<1>1. \A op \in Ops \ {"consume"} : P[op] # {} <=> Q[op] # {}
  BY Names, Shifted
<1>2. \A x \in {"drop", "assert", "bind"}, y \in {"unbind", "delete"} :
          Behind(P, x, y) <=> Behind(Q, x, y)
  BY Names, BehindKept
<1>3. P["delete"] # {} /\ Behind(P, "consume", "delete") => Behind(Q, "consume", "delete")
  BY Names, BehindKept
<1> QED BY <1>1, <1>2, <1>3, Names, DeclaresBehind, NeedsBehind

\* A new operation, behind the others.
LEMMA GrowNeeds ==
  ASSUME NEW P, NEW Q, NEW n, NEW to \in {"assert", "drop"}, Grows(P, Q, n, to), NEW now
  PROVE  Declares(Q, now) \/ Needs(Q)
<1>1. Q[to] # {}
  BY Names DEF Grows
<1> QED BY <1>1 DEF Declares, Needs

LEMMA GrowUnbind ==
  ASSUME NEW P, NEW Q, NEW n, Grows(P, Q, n, "unbind"), NEW now
  PROVE  /\ ~Declares(Q, now)
         /\ Q["drop"] # {} => Needs(Q)
<1>1. n + 1 \in Q["unbind"] /\ Q["drop"] \subseteq 1..n /\ n \in Nat
  BY Names DEF Grows
<1> QED BY <1>1 DEF Declares, Needs

-------------------------------------------------------------------------------
\* The invariant.

\* The places of the operations of p in the channel.
Pending(p) ==
    [op \in Ops |-> {i \in DOMAIN rpcs : phone[rpcs[i].conn] = p /\ rpcs[i].op = op}]

\* p has an entry, or will have one when the handler that replaced it goes on.
Entered(p) == sockets[p] # NoConn \/ Pending(p)["drop"] # {}

\* A queue that is going to stay has an entry, and an entry a queue, or a handler
\* that is going to lose the channel over it.
Matched(p) ==
    LET now == "declared" \in queue[p]
    IN  /\ Declares(Pending(p), now) => Entered(p)
        /\ Entered(p) => Declares(Pending(p), now) \/ Needs(Pending(p))

\* What a queue lacks, some handler is about to add.
InProgress(p) ==
    LET binding == \E op \in {"assert", "exchange", "bind"} : Pending(p)[op] # {}
    IN  /\ "declared" \notin queue[p] => queue[p] = {}
        /\ "declared" \in queue[p] /\ "bound" \notin queue[p] => binding
        /\ "declared" \in queue[p] /\ "consumed" \notin queue[p] =>
               binding \/ Pending(p)["consume"] # {}

\* A connection that was made has a phone.
Made == \A c \in Conns : socket[c] # "none" => phone[c] \in Phones
Owned == \A i \in DOMAIN rpcs : socket[rpcs[i].conn] # "none"
Idle ==
    \A c \in Conns : socket[c] = "none" =>
        phone[c] = NoPhone /\ handler[c] = "none" /\ c \notin listening

WInv ==
    /\ TypeOK /\ Made /\ Owned /\ Idle
    /\ channel = "open" => \A p \in Phones : Matched(p) /\ InProgress(p)

-------------------------------------------------------------------------------
\* The operations in the channel, step by step.

\* The first operation is done, and its caller goes on with another, or none.
Takes(c, from, to) ==
    /\ Asked(c, from)
    /\ rpcs' = IF to = "none" THEN Tail(rpcs) ELSE Append(Tail(rpcs), [op |-> to, conn |-> c])
    /\ UNCHANGED phone

Adds(c, to) ==
    /\ rpcs' = Append(rpcs, [op |-> to, conn |-> c])
    /\ UNCHANGED phone

Mine(p, c, op) == IF phone[c] = p THEN op ELSE "none"

LEMMA PendingOK ==
  ASSUME TypeOK, NEW p
  PROVE  Pending(p) \in [Ops -> SUBSET (1..Len(rpcs))]
<1>1. DOMAIN rpcs = 1..Len(rpcs)
  BY DEF TypeOK
<1> QED BY <1>1 DEF Pending

\* Where the operations are after the first of them is done.
LEMMA TakesPlaces ==
  ASSUME TypeOK, NEW c \in Conns, NEW from \in Ops, NEW to \in Ops \cup {"none"},
         Takes(c, from, to)
  PROVE  /\ Len(rpcs) \in Nat /\ Len(rpcs) > 0 /\ DOMAIN rpcs = 1..Len(rpcs)
         /\ rpcs[1] = [op |-> from, conn |-> c]
         /\ DOMAIN rpcs' = IF to = "none" THEN 1..(Len(rpcs) - 1) ELSE 1..Len(rpcs)
         /\ to # "none" => rpcs'[Len(rpcs)] = [op |-> to, conn |-> c]
         /\ \A i \in 1..(Len(rpcs) - 1) : rpcs'[i] = rpcs[i + 1]
<1> DEFINE n == Len(rpcs)
           new == [op |-> to, conn |-> c]
<1>1. /\ rpcs \in Seq(Rpc) /\ n \in Nat /\ n > 0 /\ DOMAIN rpcs = 1..n
      /\ rpcs[1] = [op |-> from, conn |-> c]
  BY DEF TypeOK, Takes, Asked
<1>2. /\ Tail(rpcs) \in Seq(Rpc) /\ Len(Tail(rpcs)) = n - 1
      /\ \A i \in 1..(n - 1) : Tail(rpcs)[i] = rpcs[i + 1]
  BY <1>1
<1>3. /\ to # "none" => /\ DOMAIN rpcs' = 1..n
                        /\ rpcs'[n] = new
                        /\ \A i \in 1..(n - 1) : rpcs'[i] = rpcs[i + 1]
      /\ to = "none" => /\ DOMAIN rpcs' = 1..(n - 1)
                        /\ \A i \in 1..(n - 1) : rpcs'[i] = rpcs[i + 1]
  <2>1. CASE to = "none"
    BY <1>1, <1>2, <2>1 DEF Takes
  <2>2. CASE to # "none"
    <3>1. rpcs' = Append(Tail(rpcs), new)
      BY <2>2 DEF Takes
    <3>2. new \in Rpc
      BY <2>2 DEF Rpc, Ops
    <3> HIDE DEF new
    <3>3. /\ Len(rpcs') = Len(Tail(rpcs)) + 1 /\ rpcs' \in Seq(Rpc)
          /\ \A i \in 1..Len(Tail(rpcs)) : rpcs'[i] = Tail(rpcs)[i]
          /\ rpcs'[Len(Tail(rpcs)) + 1] = new
      BY <1>2, <3>1, <3>2, AppendProperties
    <3>4. DOMAIN rpcs' = 1..n /\ rpcs'[n] = new
      BY <1>1, <1>2, <3>3
    <3>5. ASSUME NEW i \in 1..(n - 1) PROVE rpcs'[i] = rpcs[i + 1]
      BY <1>2, <3>3
    <3> HIDE DEF n
    <3> QED BY <2>2, <3>4, <3>5
  <2> QED BY <2>1, <2>2
<1> HIDE DEF n, new
<1>4. /\ DOMAIN rpcs' = IF to = "none" THEN 1..(n - 1) ELSE 1..n
      /\ to # "none" => rpcs'[n] = new
      /\ \A i \in 1..(n - 1) : rpcs'[i] = rpcs[i + 1]
  BY <1>3
<1> QED BY <1>1, <1>4 DEF n, new

LEMMA TakesRotates ==
  ASSUME TypeOK, NEW c \in Conns, NEW from \in Ops, NEW to \in Ops \cup {"none"},
         Takes(c, from, to), NEW p
  PROVE  /\ Rotates(Pending(p), Pending(p)', Len(rpcs), Mine(p, c, from), Mine(p, c, to))
         /\ Len(rpcs) > 0
<1> DEFINE n == Len(rpcs)
           new == [op |-> to, conn |-> c]
<1>1. /\ n \in Nat /\ n > 0 /\ DOMAIN rpcs = 1..n
      /\ rpcs[1] = [op |-> from, conn |-> c]
  BY TakesPlaces
<1>3. /\ to # "none" => /\ DOMAIN rpcs' = 1..n
                        /\ rpcs'[n] = new
                        /\ \A i \in 1..(n - 1) : rpcs'[i] = rpcs[i + 1]
      /\ to = "none" => /\ DOMAIN rpcs' = 1..(n - 1)
                        /\ \A i \in 1..(n - 1) : rpcs'[i] = rpcs[i + 1]
  <2> HIDE DEF n, new
  <2> QED BY TakesPlaces DEF n, new
<1>4. "none" \notin Ops
  BY Names
<1>5. Pending(p) \in [Ops -> SUBSET (1..n)]
  BY PendingOK
<1>6. Pending(p)' \in [Ops -> SUBSET (1..n)]
  BY <1>1, <1>3 DEF Pending
<1>7. ASSUME NEW op \in Ops PROVE 1 \in Pending(p)[op] <=> op = Mine(p, c, from)
  BY <1>1, <1>4 DEF Pending, Mine
<1>8. ASSUME NEW op \in Ops, NEW i \in 1..n
      PROVE  i \in (Pending(p)')[op] <=> i + 1 \in Pending(p)[op] \/ (op = Mine(p, c, to) /\ i = n)
  <2>1. phone' = phone
    BY DEF Takes
  <2>0. /\ i \in Pending(p)'[op] <=>
              i \in DOMAIN rpcs' /\ phone[rpcs'[i].conn] = p /\ rpcs'[i].op = op
        /\ i + 1 \in Pending(p)[op] <=>
              i + 1 \in 1..n /\ phone[rpcs[i + 1].conn] = p /\ rpcs[i + 1].op = op
    BY <1>1, <2>1 DEF Pending
  <2>2. CASE i # n
    <3>1. i \in 1..(n - 1) /\ i + 1 \in 1..n
      <4> n \in Nat /\ n > 0
        BY <1>1
      <4> HIDE DEF n
      <4> QED BY <2>2
    <3>2. i \in DOMAIN rpcs' /\ rpcs'[i] = rpcs[i + 1]
      BY <1>1, <1>3, <3>1
    <3> QED BY <2>0, <2>2, <3>1, <3>2
  <2>3. CASE i = n /\ to # "none"
    <3>1. i + 1 \notin 1..n /\ i \in DOMAIN rpcs' /\ rpcs'[i] = new
      <4> n \in Nat /\ n > 0
        BY <1>1
      <4> HIDE DEF n, new
      <4> QED BY <1>3, <2>3
    <3>2. new.op = to /\ new.conn = c
      OBVIOUS
    <3> HIDE DEF new
    <3> QED BY <1>4, <2>0, <2>3, <3>1, <3>2 DEF Mine
  <2>4. CASE i = n /\ to = "none"
    BY <1>1, <1>3, <1>4, <2>1, <2>4 DEF Pending, Mine
  <2> QED BY <2>2, <2>3, <2>4
<1> HIDE DEF n
<1> QED
  <2>1. Rotates(Pending(p), Pending(p)', n, Mine(p, c, from), Mine(p, c, to))
    BY <1>1, <1>5, <1>6, <1>7, <1>8 DEF Rotates
  <2> QED BY <1>1, <2>1 DEF n

LEMMA AddsGrows ==
  ASSUME TypeOK, NEW c \in Conns, NEW to \in Ops, Adds(c, to), NEW p
  PROVE  /\ phone[c] = p => Grows(Pending(p), Pending(p)', Len(rpcs), to)
         /\ phone[c] # p => Pending(p)' = Pending(p)
<1> DEFINE n == Len(rpcs)
           new == [op |-> to, conn |-> c]
<1>1. rpcs \in Seq(Rpc) /\ n \in Nat /\ DOMAIN rpcs = 1..n
  BY DEF TypeOK
<1>2. rpcs' = Append(rpcs, new) /\ phone' = phone
  BY DEF Adds
<1>3. new \in Rpc
  BY DEF Rpc, Ops
<1>4. new.op = to /\ new.conn = c
  OBVIOUS
<1> HIDE DEF new
<1>5. DOMAIN rpcs' = 1..(n + 1) /\ rpcs'[n + 1] = new /\ \A i \in 1..n : rpcs'[i] = rpcs[i]
  BY <1>1, <1>2, <1>3, AppendProperties
<1>6. ASSUME NEW op \in Ops
      PROVE  Pending(p)'[op] = Pending(p)[op] \cup IF op = to /\ phone[c] = p THEN {n + 1} ELSE {}
  BY <1>1, <1>2, <1>4, <1>5 DEF Pending
<1>7. Pending(p) \in [Ops -> SUBSET (1..n)]
  BY PendingOK
<1>8. Pending(p)' = [op \in Ops |-> Pending(p)'[op]]
  BY DEF Pending
<1>9. Pending(p) = [op \in Ops |-> Pending(p)[op]]
  BY DEF Pending
<1> QED BY <1>1, <1>6, <1>7, <1>8, <1>9 DEF Grows

-------------------------------------------------------------------------------
\* No step disturbs what is to come of a queue.

Kept(p) == Matched(p) /\ InProgress(p)

LEMMA Unmoved ==
  ASSUME NEW p \in Phones, Kept(p), Pending(p)' = Pending(p),
         sockets'[p] = sockets[p], queue'[p] = queue[p]
  PROVE  Kept(p)'
BY DEF Kept, Matched, InProgress, Entered

LEMMA TakesOther ==
  ASSUME TypeOK, NEW c \in Conns, NEW from \in Ops, NEW to \in Ops \cup {"none"},
         Takes(c, from, to), NEW p \in Phones, p # phone[c], Kept(p),
         sockets'[p] = sockets[p], queue'[p] = queue[p]
  PROVE  Kept(p)'
<1> DEFINE P == Pending(p)
           Q == Pending(p)'
<1>1. Rotates(P, Q, Len(rpcs), "none", "none")
  BY TakesRotates DEF Mine
<1> DEFINE now == "declared" \in queue[p]
<1>0. now \in BOOLEAN
  OBVIOUS
<1> HIDE DEF P, Q, now
<1>2. /\ Declares(Q, now) <=> Declares(P, now)
      /\ Needs(Q) <=> Needs(P)
  BY <1>0, <1>1, RotateOther
<1>3. \A op \in Ops : Q[op] = {} <=> P[op] = {}
  BY <1>1, RotateOther
<1>4. Matched(p)'
  <2>1. Entered(p)' <=> Entered(p)
    BY <1>3, Names DEF Entered, P, Q
  <2>2. now' = now
    BY DEF now
  <2> QED BY <1>2, <2>1, <2>2 DEF Kept, Matched, P, Q, now
<1>5. InProgress(p)'
  BY <1>3, Names DEF Kept, InProgress, P, Q
<1> QED BY <1>4, <1>5 DEF Kept

\* The handler goes from one operation to the next.
LEMMA TakesHandler ==
  ASSUME TypeOK, NEW c \in Conns, NEW op \in HandlerOps \ {"drop"}, Subscribe(c, op),
         NEW p \in Phones, p = phone[c], Kept(p)
  PROVE  Kept(p)'
<1> DEFINE P == Pending(p)
           Q == Pending(p)'
           n == Len(rpcs)
           to == IF op = "consume" THEN "none" ELSE After(op)
           now == "declared" \in queue[p]
<1>1. /\ op \in {"assert", "exchange", "bind", "consume"}
      /\ to = CASE op = "assert" -> "exchange" [] op = "exchange" -> "bind"
                [] op = "bind" -> "consume" [] op = "consume" -> "none"
  BY DEF HandlerOps, After
<1>2. Takes(c, op, to)
  <2>1. Asked(c, op) /\ phone' = phone
    BY DEF Subscribe
  <2>2. op = "consume" => rpcs' = Tail(rpcs) /\ to = "none"
    BY DEF Subscribe
  <2>3. op # "consume" => rpcs' = Append(Tail(rpcs), [op |-> to, conn |-> c]) /\ to # "none"
    BY <1>1 DEF Subscribe, Await
  <2> QED BY <2>1, <2>2, <2>3 DEF Takes
<1>3. Rotates(P, Q, n, op, to) /\ n > 0
  BY <1>1, <1>2, TakesRotates, Names DEF Mine
<1>4. /\ \A x \in Ops \ {op} : P[x] # {} => Q[x] # {}
      /\ \A x \in Ops \ {to} : Q[x] # {} => P[x] # {}
      /\ to \in Ops => Q[to] # {}
  <2>1. to \in Ops => n \in Q[to]
    BY <1>3, Shifted
  <2> QED BY <1>3, <2>1, Shifted
<1>5. /\ sockets' = sockets
      /\ queue' = [queue EXCEPT ![p] = @ \cup Done(op)]
      /\ op \in {"bind", "consume"} => now
  BY DEF Subscribe, Possible
<1>6. queue'[p] = queue[p] \cup Done(op)
  BY <1>5 DEF TypeOK
<1>7. Done(op) = IF op = "assert" THEN {"declared"} ELSE IF op = "bind" THEN {"bound"}
                 ELSE IF op = "consume" THEN {"consumed"} ELSE {}
  BY <1>1 DEF Done
<1>8. Entered(p) <=> Entered(p)'
  BY <1>1, <1>4, <1>5, Names DEF Entered
<1> HIDE DEF P, Q, n, to, now
<1>9. "declared" \in queue'[p] <=> now \/ op = "assert"
  BY <1>6, <1>7 DEF now
<1>10. /\ Declares(Q, now \/ op = "assert") => Declares(P, now)
       /\ Declares(P, now) \/ Needs(P) => Declares(Q, now \/ op = "assert") \/ Needs(Q)
  <2>1. CASE op \in {"assert", "exchange"}
    <3>1. <<op, to>> \in {<<"assert", "exchange">>, <<"exchange", "bind">>}
      BY <1>1, <2>1
    <3>2. now \in BOOLEAN
      BY DEF now
    <3> QED BY <1>3, <3>1, <3>2, RotateHandler
  <2>2. CASE op = "bind"
    <3>1. Rotates(P, Q, n, "bind", "consume")
      BY <1>1, <1>3, <2>2
    <3> QED BY <1>3, <1>5, <2>2, <3>1, RotateBind
  <2>3. CASE op = "consume"
    <3>1. Rotates(P, Q, n, "consume", "none")
      BY <1>1, <1>3, <2>3
    <3> QED BY <1>5, <2>3, <3>1, RotateConsume
  <2> QED BY <1>1, <2>1, <2>2, <2>3
<1>11. Matched(p)'
  BY <1>8, <1>9, <1>10 DEF Kept, Matched, P, Q, now
<1>12. InProgress(p)'
  <2>1. InProgress(p)
    BY DEF Kept
  <2>2. "declared" \notin queue'[p] => queue'[p] = {}
    BY <1>1, <1>5, <1>6, <1>7, <2>1 DEF InProgress, now
  <2>3. ASSUME "declared" \in queue'[p], "bound" \notin queue'[p]
        PROVE  \E x \in {"assert", "exchange", "bind"} : Q[x] # {}
    <3>1. CASE op \in {"assert", "exchange"}
      BY <1>1, <1>4, <3>1, Names
    <3>2. CASE op = "bind"
      BY <1>6, <1>7, <2>3, <3>2
    <3>3. CASE op = "consume"
      BY <1>4, <1>5, <1>6, <2>1, <2>3, <3>3, Names DEF InProgress, P, now
    <3> QED BY <1>1, <3>1, <3>2, <3>3
  <2>4. ASSUME "declared" \in queue'[p], "consumed" \notin queue'[p]
        PROVE  \E x \in {"assert", "exchange", "bind", "consume"} : Q[x] # {}
    <3>1. CASE op \in {"assert", "exchange", "bind"}
      BY <1>1, <1>4, <3>1, Names
    <3>2. CASE op = "consume"
      BY <1>6, <1>7, <2>4, <3>2
    <3> QED BY <1>1, <3>1, <3>2
  <2> QED BY <2>2, <2>3, <2>4 DEF InProgress, Q
<1> QED BY <1>11, <1>12 DEF Kept

\* The handler that replaced another has dropped its queue.
LEMMA TakesDrop ==
  ASSUME TypeOK, NEW c \in Conns, Dropped(c), channel = "open",
         NEW p \in Phones, p = phone[c], Kept(p)
  PROVE  Kept(p)'
<1>1. Takes(c, "drop", "assert")
  BY DEF Dropped, Register, Await, Takes
<1>2. Rotates(Pending(p), Pending(p)', Len(rpcs), "drop", "assert") /\ Len(rpcs) > 0
  BY <1>1, TakesRotates, Names DEF Mine
<1>3. (Pending(p)')["assert"] # {}
  BY <1>2, Names, LastBehind
<1>4. sockets'[p] # NoConn
  BY DEF Dropped, Register, TypeOK, NoConn, Conns
<1>5. queue'[p] = {}
  BY DEF Dropped, DeleteQueue, TypeOK
<1>6. Matched(p)'
  BY <1>3, <1>4 DEF Matched, Entered, Needs
<1>7. InProgress(p)'
  BY <1>5 DEF InProgress
<1> QED BY <1>6, <1>7 DEF Kept

\* The "close" listener deletes the queue after it unbound it.
LEMMA TakesUnbind ==
  ASSUME TypeOK, NEW c \in Conns, Unbound(c), channel = "open",
         NEW p \in Phones, p = phone[c], Kept(p)
  PROVE  Kept(p)'
<1> DEFINE P == Pending(p)
           Q == Pending(p)'
           now == "declared" \in queue[p]
<1>1. Takes(c, "unbind", "delete") /\ sockets' = sockets /\ queue' = queue
  BY DEF Unbound, Takes, broker
<1>2. Rotates(P, Q, Len(rpcs), "unbind", "delete") /\ Len(rpcs) > 0
  BY <1>1, TakesRotates, Names DEF Mine
<1>3. \A op \in Ops \ {"unbind", "delete"} : Q[op] # {} <=> P[op] # {}
  BY <1>2, Shifted
<1>4. now \in BOOLEAN /\ now' = now
  BY <1>1
<1>5. Entered(p)' <=> Entered(p)
  BY <1>1, <1>3, Names DEF Entered
<1> HIDE DEF P, Q, now
<1>6. Matched(p)'
  <2>1. /\ Declares(Q, now) => Declares(P, now)
        /\ Declares(P, now) \/ Needs(P) => Declares(Q, now) \/ Needs(Q)
    BY <1>2, <1>4, RotateUnbind
  <2> QED BY <1>4, <1>5, <2>1 DEF Kept, Matched, P, Q, now
<1>7. InProgress(p)'
  BY <1>1, <1>3, Names DEF Kept, InProgress, P, Q
<1> QED BY <1>6, <1>7 DEF Kept

LEMMA TakesDelete ==
  ASSUME TypeOK, NEW c \in Conns, Deleted(c), channel = "open",
         NEW p \in Phones, p = phone[c], Kept(p)
  PROVE  Kept(p)'
<1> DEFINE P == Pending(p)
           Q == Pending(p)'
           now == "declared" \in queue[p]
<1>1. Takes(c, "delete", "none") /\ sockets' = sockets
  BY DEF Deleted, Takes
<1>2. Rotates(P, Q, Len(rpcs), "delete", "none")
  BY <1>1, TakesRotates, Names DEF Mine
<1>3. \A op \in Ops \ {"delete"} : Q[op] # {} <=> P[op] # {}
  BY <1>2, Shifted, Names
<1>4. now \in BOOLEAN
  OBVIOUS
<1>5. queue'[p] = {}
  BY DEF Deleted, DeleteQueue, TypeOK
<1>6. Entered(p)' <=> Entered(p)
  BY <1>1, <1>3, Names DEF Entered
<1>7. ~now'
  BY <1>5
<1> HIDE DEF P, Q, now
<1>8. Matched(p)'
  <2>1. /\ Declares(Q, FALSE) => Declares(P, now)
        /\ Declares(P, now) \/ Needs(P) => Declares(Q, FALSE) \/ Needs(Q)
    BY <1>2, <1>4, RotateDelete
  <2>2. Declares(Q, now') <=> Declares(Q, FALSE)
    BY <1>7 DEF Declares
  <2> QED BY <1>6, <2>1, <2>2 DEF Kept, Matched, P, Q, now
<1>9. InProgress(p)'
  BY <1>5 DEF InProgress
<1> QED BY <1>8, <1>9 DEF Kept

\* A new connection registers itself, or replaces the one before it.
LEMMA AddsHandler ==
  ASSUME TypeOK, NEW c \in Conns, Accept(c), NEW p \in Phones, p = phone[c], Kept(p)
  PROVE  Kept(p)'
<1>1. PICK to \in {"assert", "drop"} :
          /\ Adds(c, to)
          /\ to = "assert" => sockets'[p] # NoConn
  <2>1. CASE Register(c, rpcs)
    <3>1. sockets'[p] # NoConn
      BY <2>1 DEF Register, TypeOK, NoConn, Conns
    <3>2. Adds(c, "assert")
      BY <2>1 DEF Accept, Register, Await, Adds
    <3> QED BY <3>1, <3>2
  <2>2. ASSUME NEW old \in Conns, Replace(c, old) PROVE Adds(c, "drop")
    BY <2>2 DEF Accept, Replace, Await, Adds
  <2> QED BY <2>1, <2>2 DEF Accept
<1>2. Grows(Pending(p), Pending(p)', Len(rpcs), to)
  BY <1>1, AddsGrows, Names
<1>3. (Pending(p)')[to] # {} /\ \A op \in Ops \ {to} : (Pending(p)')[op] = Pending(p)[op]
  <2>1. Len(rpcs) + 1 \in (Pending(p)')[to]
    BY <1>2, Names DEF Grows
  <2> QED BY <1>2, <2>1 DEF Grows
<1>4. queue' = queue
  BY DEF Accept, broker
<1>5. Entered(p)'
  BY <1>1, <1>3 DEF Entered
<1>6. Declares(Pending(p)', "declared" \in queue'[p]) \/ Needs(Pending(p)')
  BY <1>3 DEF Declares, Needs
<1>7. InProgress(p)'
  BY <1>3, <1>4, Names DEF Kept, InProgress
<1> QED BY <1>5, <1>6, <1>7 DEF Kept, Matched

\* "close" removes the entry and starts to remove the queue.
LEMMA AddsUnbind ==
  ASSUME TypeOK, NEW c \in Conns, Closed(c), c \in listening, sockets[phone[c]] # NoConn,
         NEW p \in Phones, p = phone[c], Kept(p)
  PROVE  Kept(p)'
<1>1. /\ Adds(c, "unbind")
      /\ sockets'[p] = NoConn /\ queue' = queue
  BY DEF Closed, Adds, Forget, broker, TypeOK
<1>2. Grows(Pending(p), Pending(p)', Len(rpcs), "unbind")
  BY <1>1, AddsGrows, Names
<1>3. \A op \in Ops \ {"unbind"} : (Pending(p)')[op] = Pending(p)[op]
  BY <1>2, Names DEF Grows
<1>4. /\ ~Declares(Pending(p)', "declared" \in queue'[p])
      /\ (Pending(p)')["drop"] # {} => Needs(Pending(p)')
  BY <1>2, GrowUnbind
<1>5. InProgress(p)'
  BY <1>1, <1>3, Names DEF Kept, InProgress
<1> QED BY <1>1, <1>4, <1>5 DEF Kept, Matched, Entered

LEMMA KeptDecode ==
  ASSUME WInv, NEW c \in Conns, Accept(c), NEW p \in Phones, Kept(p)
  PROVE  Kept(p)'
<1>1. TypeOK
  BY DEF WInv
<1>2. CASE p = phone[c]
  BY <1>1, <1>2, AddsHandler
<1>3. CASE p # phone[c]
  <2>1. PICK to \in {"assert", "drop"} : Adds(c, to)
    BY DEF Accept, Register, Replace, Await, Adds
  <2>2. Pending(p)' = Pending(p)
    BY <1>1, <1>3, <2>1, AddsGrows, Names
  <2>3. sockets'[p] = sockets[p] /\ queue'[p] = queue[p]
    BY <1>1, <1>3 DEF Accept, Register, Replace, Forget, broker, TypeOK
  <2> QED BY <2>2, <2>3, Unmoved
<1> QED BY <1>2, <1>3

LEMMA KeptClosed ==
  ASSUME WInv, NEW c \in Conns, Closed(c), NEW p \in Phones, Kept(p)
  PROVE  Kept(p)'
<1>1. TypeOK
  BY DEF WInv
<1>2. CASE c \in listening /\ sockets[phone[c]] # NoConn
  <2>1. CASE p = phone[c]
    BY <1>1, <1>2, <2>1, AddsUnbind
  <2>2. CASE p # phone[c]
    <3>1. Adds(c, "unbind")
      BY <1>2 DEF Closed, Adds
    <3>2. Pending(p)' = Pending(p)
      BY <1>1, <2>2, <3>1, AddsGrows, Names
    <3>3. sockets'[p] = sockets[p] /\ queue'[p] = queue[p]
      BY <1>1, <1>2, <2>2 DEF Closed, Forget, broker, TypeOK
    <3> QED BY <3>2, <3>3, Unmoved
  <2> QED BY <2>1, <2>2
<1>3. CASE ~(c \in listening /\ sockets[phone[c]] # NoConn)
  <2>1. sockets' = sockets /\ queue' = queue /\ rpcs' = rpcs /\ phone' = phone
    BY <1>3 DEF Closed, broker
  <2> QED BY <2>1, Unmoved DEF Pending
<1> QED BY <1>2, <1>3

LEMMA KeptAnswer ==
  ASSUME WInv, NEW c \in Conns, Answer(c), channel' = "open", NEW p \in Phones, Kept(p)
  PROVE  Kept(p)'
<1>1. TypeOK
  BY DEF WInv
<1>2. CASE Dropped(c)
  <2>1. Takes(c, "drop", "assert") /\ channel = "open"
    BY <1>2 DEF Dropped, Register, Await, Takes
  <2>2. CASE p = phone[c]
    BY <1>1, <1>2, <2>1, <2>2, TakesDrop
  <2>3. CASE p # phone[c]
    <3>1. sockets'[p] = sockets[p] /\ queue'[p] = queue[p]
      BY <1>1, <1>2, <2>3 DEF Dropped, Register, DeleteQueue, TypeOK
    <3> QED BY <1>1, <2>1, <2>3, <3>1, TakesOther, Names
  <2> QED BY <2>2, <2>3
<1>3. CASE Unbound(c)
  <2>1. /\ Takes(c, "unbind", "delete") /\ channel = "open"
        /\ sockets' = sockets /\ queue' = queue
    BY <1>3 DEF Unbound, Takes, broker
  <2>2. CASE p = phone[c]
    BY <1>1, <1>3, <2>1, <2>2, TakesUnbind
  <2>3. CASE p # phone[c]
    BY <1>1, <2>1, <2>3, TakesOther, Names
  <2> QED BY <2>2, <2>3
<1>4. CASE Deleted(c)
  <2>1. Takes(c, "delete", "none") /\ channel = "open" /\ sockets' = sockets
    BY <1>4 DEF Deleted, Takes
  <2>2. CASE p = phone[c]
    BY <1>1, <1>4, <2>1, <2>2, TakesDelete
  <2>3. CASE p # phone[c]
    <3>1. queue'[p] = queue[p]
      BY <1>1, <1>4, <2>3 DEF Deleted, DeleteQueue, TypeOK
    <3> QED BY <1>1, <2>1, <2>3, <3>1, TakesOther, Names
  <2> QED BY <2>2, <2>3
<1>5. ASSUME NEW op \in HandlerOps \ {"drop"}, Subscribe(c, op) PROVE Kept(p)'
  <2>1. CASE p = phone[c]
    BY <1>1, <1>5, <2>1, TakesHandler
  <2>2. CASE p # phone[c]
    <3> DEFINE to == IF op = "consume" THEN "none" ELSE After(op)
    <3>1. to \in Ops \cup {"none"} /\ (to = "none" <=> op = "consume")
      BY <1>5, Names DEF After
    <3>2. Takes(c, op, to)
      BY <1>5, <3>1 DEF Subscribe, Takes, Await
    <3>3. sockets' = sockets /\ queue'[p] = queue[p]
      BY <1>1, <1>5, <2>2 DEF Subscribe, TypeOK
    <3> HIDE DEF to
    <3> QED BY <1>1, <1>5, <2>2, <3>1, <3>2, <3>3, TakesOther DEF Ops
  <2> QED BY <2>1, <2>2
<1>6. ASSUME NEW op \in HandlerOps \ {"drop"}, GiveUp(c, op) PROVE FALSE
  BY <1>6 DEF GiveUp, LoseChannel
<1> QED BY <1>2, <1>3, <1>4, <1>5, <1>6 DEF Answer

\* Nothing that the broker is asked for, no entry and no queue.
Aside ==
    /\ \A i \in DOMAIN rpcs : phone'[rpcs[i].conn] = phone[rpcs[i].conn]
    /\ UNCHANGED <<rpcs, sockets, queue, channel>>

LEMMA StepKinds ==
  ASSUME WInv, Next
  PROVE  \/ Aside
         \/ \E c \in Conns : Accept(c) \/ Closed(c) \/ Answer(c)
<1>1. ASSUME NEW c \in Conns, NEW p \in Phones, Connect(c, p) PROVE Aside
  <2>1. \A i \in DOMAIN rpcs : rpcs[i].conn # c
    BY <1>1 DEF WInv, Owned, Connect
  <2>2. \A d : d # c => phone'[d] = phone[d]
    BY <1>1 DEF WInv, TypeOK, Connect
  <2> QED BY <1>1, <2>1, <2>2 DEF Connect, broker, Aside
<1>2. ASSUME NEW c \in Conns, HangUp(c) \/ Pong(c) \/ Refuse(c) \/ DecodeFails(c) PROVE Aside
  BY <1>2 DEF HangUp, Pong, Refuse, DecodeFails, broker, Aside
<1>3. ASSUME Tick PROVE Aside
  BY <1>3 DEF Tick, broker, Aside
<1>4. ASSUME NEW p \in Phones, Publish(p) \/ Forward(p) PROVE Aside
  BY <1>4 DEF Publish, Forward, Aside
<1> QED BY <1>1, <1>2, <1>3, <1>4 DEF Next, Decode

LEMMA KeptStep ==
  ASSUME WInv, Next, channel' = "open", NEW p \in Phones
  PROVE  Kept(p)'
<1>1. channel = "open"
  <2>1. ASSUME NEW c \in Conns, Answer(c) PROVE channel = "open"
    BY <2>1 DEF Answer, Dropped, Unbound, Deleted, Subscribe, GiveUp, LoseChannel, broker
  <2>2. ASSUME NEW c \in Conns, Accept(c) \/ Closed(c) PROVE channel = "open"
    BY <2>2 DEF Accept, Closed, broker
  <2> QED BY <2>1, <2>2, StepKinds DEF Aside
<1>2. Kept(p)
  BY <1>1 DEF WInv, Kept
<1>3. CASE Aside
  <2>1. Pending(p)' = Pending(p)
    BY <1>3 DEF Aside, Pending
  <2> QED BY <1>2, <1>3, <2>1, Unmoved DEF Aside
<1> QED BY <1>2, <1>3, StepKinds, KeptDecode, KeptClosed, KeptAnswer

-------------------------------------------------------------------------------
\* Well-formedness.

Sound == TypeOK /\ Made /\ Owned /\ Idle

LEMMA ClosingOK ==
  ASSUME TypeOK, NEW C
  PROVE  /\ Closing(C) \in [Conns -> {"none", "open", "closing", "closed"}]
         /\ \A c \in Conns : Closing(C)[c] = "none" <=> socket[c] = "none"
BY DEF Closing, TypeOK

LEMMA Caller ==
  ASSUME NEW s \in Seq(Rpc)
  PROVE  DOMAIN s = 1..Len(s) /\ \A i \in 1..Len(s) : s[i].conn \in Conns
<1>1. ASSUME NEW i \in 1..Len(s) PROVE s[i] \in Rpc
  BY <1>1, ElementOfSeq
<1> QED BY <1>1 DEF Rpc

\* Every operation in the channel is that of a connection that was made, and stays so.
LEMMA OwnedKept ==
  ASSUME Sound, NEW c \in Conns, socket[c] # "none", NEW to \in Ops,
         \A d \in Conns : socket[d] # "none" => socket'[d] # "none",
         \/ rpcs' = rpcs
         \/ rpcs' = Append(rpcs, [op |-> to, conn |-> c])
         \/ rpcs # <<>> /\ rpcs' = Tail(rpcs)
         \/ rpcs # <<>> /\ rpcs' = Append(Tail(rpcs), [op |-> to, conn |-> c])
  PROVE  rpcs' \in Seq(Rpc) /\ Owned'
<1> DEFINE Of(s) == s \in Seq(Rpc) /\ \A i \in 1..Len(s) : socket[s[i].conn] # "none"
           new == [op |-> to, conn |-> c]
<1>1. Of(rpcs) /\ DOMAIN rpcs = 1..Len(rpcs)
  BY DEF Sound, TypeOK, Owned
<1>2. ASSUME NEW s \in Seq(Rpc), s # <<>>, Of(s) PROVE Of(Tail(s))
  BY <1>2
<1>3. ASSUME NEW s \in Seq(Rpc), Of(s) PROVE Of(Append(s, new))
  <2>1. new \in Rpc /\ new.conn = c
    BY DEF Rpc, Ops
  <2> HIDE DEF new
  <2>2. /\ Append(s, new) \in Seq(Rpc) /\ Len(Append(s, new)) = Len(s) + 1
        /\ \A i \in 1..Len(s) : Append(s, new)[i] = s[i]
        /\ Append(s, new)[Len(s) + 1] = new
    BY <2>1, AppendProperties
  <2> QED BY <1>3, <2>1, <2>2
<1>4. Of(rpcs')
  <2> HIDE DEF new
  <2>1. Of(rpcs) /\ rpcs \in Seq(Rpc)
    BY <1>1
  <2>2. rpcs # <<>> => Of(Tail(rpcs)) /\ Tail(rpcs) \in Seq(Rpc)
    BY <1>2, <2>1
  <2>3. rpcs # <<>> => Of(Append(Tail(rpcs), new))
    BY <1>3, <2>2
  <2>4. Of(Append(rpcs, new))
    BY <1>3, <2>1
  <2> HIDE DEF Of
  <2> QED BY <2>1, <2>2, <2>3, <2>4 DEF new
<1>5. DOMAIN rpcs' = 1..Len(rpcs') /\ \A i \in 1..Len(rpcs') : rpcs'[i].conn \in Conns
  BY <1>4, Caller
<1>6. ASSUME NEW i \in DOMAIN rpcs' PROVE socket'[rpcs'[i].conn] # "none"
  <2>1. i \in 1..Len(rpcs') /\ rpcs'[i].conn \in Conns
    BY <1>5, <1>6, Zenon
  <2>2. socket[rpcs'[i].conn] # "none"
    BY <1>4, <2>1
  <2> QED BY <2>1, <2>2
<1> QED BY <1>4, <1>6 DEF Owned

LEMMA SoundInit == Init => Sound
<1> SUFFICES ASSUME Init PROVE Sound
  OBVIOUS
<1>1. TypeOK
  BY HastyPhones DEF Init, TypeOK
<1> QED BY <1>1 DEF Init, Sound, Made, Owned, Idle

LEMMA SoundConnect ==
  ASSUME Sound, NEW c \in Conns, NEW p \in Phones, Connect(c, p), UNCHANGED hasty
  PROVE  Sound'
<1>1. /\ TypeOK'
      /\ \A d \in Conns : socket'[d] = IF d = c THEN "open" ELSE socket[d]
      /\ \A d \in Conns : handler'[d] = IF d = c THEN "decode" ELSE handler[d]
      /\ \A d \in Conns : phone'[d] = IF d = c THEN p ELSE phone[d]
      /\ rpcs' = rpcs /\ listening' = listening
  BY DEF Sound, TypeOK, Connect, broker
<1>2. \A i \in DOMAIN rpcs : rpcs[i].conn \in Conns
  BY Caller DEF Sound, TypeOK
<1> QED BY <1>1, <1>2 DEF Sound, Made, Owned, Idle

\* Steps that leave the operations, and who the phones are, alone.
LEMMA SoundAside ==
  ASSUME Sound, UNCHANGED <<phone, rpcs, hasty>>,
         \A c \in Conns : socket'[c] = "none" <=> socket[c] = "none",
         \A c \in Conns : handler'[c] = handler[c] \/ socket[c] # "none",
         listening' \subseteq listening,
         TypeOK'
  PROVE  Sound'
<1>1. \A i \in DOMAIN rpcs : rpcs[i].conn \in Conns
  BY Caller DEF Sound, TypeOK
<1> QED BY <1>1 DEF Sound, Made, Owned, Idle

LEMMA SoundOthers ==
  ASSUME Sound, UNCHANGED hasty,
         \/ \E c \in Conns : HangUp(c) \/ Pong(c) \/ Refuse(c) \/ DecodeFails(c)
         \/ Tick
         \/ \E p \in Phones : Publish(p) \/ Forward(p)
  PROVE  Sound'
<1>1. TypeOK
  BY DEF Sound
<1>2. ASSUME NEW c \in Conns, HangUp(c) PROVE Sound'
  BY <1>1, <1>2, SoundAside, ClosingOK DEF HangUp, broker, TypeOK
<1>3. ASSUME NEW c \in Conns, Pong(c) PROVE Sound'
  <2>1. phone[c] \in Phones
    BY <1>3 DEF Sound, Made, Pong
  <2> QED BY <1>1, <1>3, <2>1, SoundAside DEF Pong, broker, TypeOK
<1>4. ASSUME NEW c \in Conns, Refuse(c) \/ DecodeFails(c) PROVE Sound'
  <2>1. socket[c] # "none" /\ \A d \in Conns : d # c => handler'[d] = handler[d]
    BY <1>1, <1>4 DEF Sound, Idle, Refuse, DecodeFails, TypeOK
  <2>2. socket' = Closing({c}) \/ socket' = socket
    BY <1>4 DEF Refuse, DecodeFails
  <2>3. TypeOK'
    BY <1>1, <1>4, ClosingOK DEF Refuse, DecodeFails, broker, TypeOK
  <2> QED BY <1>1, <1>4, <2>1, <2>2, <2>3, SoundAside, ClosingOK DEF Refuse, DecodeFails
<1>5. ASSUME Tick PROVE Sound'
  <2>1. PICK C : socket' = Closing(C)
    BY <1>5 DEF Tick
  <2>2. TypeOK'
    BY <1>1, <1>5, <2>1, ClosingOK DEF Tick, broker, TypeOK
  <2> QED BY <1>1, <1>5, <2>1, <2>2, SoundAside, ClosingOK DEF Tick
<1>6. ASSUME NEW p \in Phones, Publish(p) \/ Forward(p) PROVE Sound'
  BY <1>1, <1>6, SoundAside DEF Publish, Forward, TypeOK
<1> QED BY <1>2, <1>3, <1>4, <1>5, <1>6

\* Who is registered or handled is a connection that was made.
LEMMA SoundAccept ==
  ASSUME Sound, UNCHANGED hasty, NEW c \in Conns, Accept(c)
  PROVE  Sound'
<1>1. TypeOK /\ socket[c] # "none" /\ phone[c] \in Phones
  BY DEF Sound, Idle, Made, Accept
<1>2. PICK to \in {"assert", "drop"} :
          /\ rpcs' = Append(rpcs, [op |-> to, conn |-> c])
          /\ handler' = [handler EXCEPT ![c] = "waiting"]
  BY DEF Accept, Register, Replace, Await
<1>3. /\ socket' \in [Conns -> {"none", "open", "closing", "closed"}]
      /\ \A d \in Conns : socket'[d] = "none" <=> socket[d] = "none"
  <2>1. socket' = socket \/ \E old \in Conns : socket' = Closing({old})
    BY DEF Accept, Replace
  <2>2. CASE socket' = socket
    BY <1>1, <2>2 DEF TypeOK
  <2>3. ASSUME NEW old \in Conns, socket' = Closing({old})
        PROVE  /\ socket' \in [Conns -> {"none", "open", "closing", "closed"}]
               /\ \A d \in Conns : socket'[d] = "none" <=> socket[d] = "none"
    BY <1>1, <2>3, ClosingOK
  <2> QED BY <2>1, <2>2, <2>3
<1>4. /\ listening' \subseteq listening \cup {c}
      /\ alive' \subseteq Phones
      /\ sockets' \in [Phones -> Conns \cup {NoConn}]
  <2>1. CASE Register(c, rpcs)
    BY <1>1, <2>1 DEF Register, TypeOK
  <2>2. ASSUME NEW old \in Conns, Replace(c, old)
        PROVE  /\ listening' \subseteq listening \cup {c}
               /\ alive' \subseteq Phones
               /\ sockets' \in [Phones -> Conns \cup {NoConn}]
    BY <1>1, <2>2 DEF Replace, Forget, TypeOK
  <2> QED BY <2>1, <2>2 DEF Accept
<1>5. rpcs' \in Seq(Rpc) /\ Owned'
  BY <1>1, <1>2, <1>3, OwnedKept, Names
<1>6. handler' \in [Conns -> {"none", "decode", "waiting", "subscribed", "failed"}]
      /\ \A d \in Conns \ {c} : handler'[d] = handler[d]
  BY <1>1, <1>2 DEF TypeOK
<1>7. UNCHANGED <<phone, channel, queue, inbox, hasty>>
  BY DEF Accept, broker
<1>8. TypeOK'
  BY <1>1, <1>3, <1>4, <1>5, <1>6, <1>7 DEF TypeOK
<1>9. Made' /\ Idle'
  BY <1>1, <1>3, <1>4, <1>6, <1>7 DEF Sound, Made, Idle
<1> QED BY <1>5, <1>8, <1>9 DEF Sound

LEMMA SoundClosed ==
  ASSUME Sound, UNCHANGED hasty, NEW c \in Conns, Closed(c)
  PROVE  Sound'
<1>1. TypeOK /\ socket[c] # "none" /\ phone[c] \in Phones
  BY DEF Sound, Made, Closed
<1>2. /\ socket' \in [Conns -> {"none", "open", "closing", "closed"}]
      /\ \A d \in Conns : socket'[d] = "none" <=> socket[d] = "none"
  BY <1>1 DEF Closed, TypeOK
<1>3. rpcs' = rpcs \/ rpcs' = Append(rpcs, [op |-> "unbind", conn |-> c])
  BY DEF Closed
<1>4. rpcs' \in Seq(Rpc) /\ Owned'
  BY <1>1, <1>2, <1>3, OwnedKept, Names
<1>5. /\ listening' \subseteq listening
      /\ alive' \subseteq Phones
      /\ sockets' \in [Phones -> Conns \cup {NoConn}]
  BY <1>1 DEF Closed, Forget, TypeOK
<1>6. UNCHANGED <<phone, handler, channel, queue, inbox, hasty>>
  BY DEF Closed, broker
<1>7. TypeOK'
  BY <1>1, <1>2, <1>4, <1>5, <1>6 DEF TypeOK
<1>8. Made' /\ Idle'
  BY <1>2, <1>5, <1>6 DEF Sound, Made, Idle
<1> QED BY <1>4, <1>7, <1>8 DEF Sound

LEMMA SoundAnswer ==
  ASSUME Sound, UNCHANGED hasty, NEW c \in Conns, Answer(c)
  PROVE  Sound'
<1> DEFINE States == {"none", "decode", "waiting", "subscribed", "failed"}
           Queues == [Phones -> SUBSET {"declared", "bound", "consumed"}]
           Inboxes == [Phones -> {"none", "ready", "stuck"}]
<1>1. TypeOK /\ Len(rpcs) > 0 /\ Head(rpcs).conn = c
  BY DEF Sound, Answer, Asked, Dropped, Unbound, Deleted, Subscribe, GiveUp
<1>2. socket[c] # "none" /\ phone[c] \in Phones
  <2>1. 1 \in DOMAIN rpcs /\ rpcs[1].conn = c
    BY <1>1 DEF TypeOK
  <2> QED BY <2>1 DEF Sound, Owned, Made
<1>3. /\ socket' \in [Conns -> {"none", "open", "closing", "closed"}]
      /\ \A d \in Conns : socket'[d] = "none" <=> socket[d] = "none"
  <2>1. socket' = socket \/ socket' = Closing({c})
    BY DEF Answer, Dropped, Unbound, Deleted, Subscribe, GiveUp
  <2> QED BY <1>1, <2>1, ClosingOK DEF TypeOK
<1>4. rpcs' \in Seq(Rpc) /\ Owned'
  <2>1. PICK to \in Ops : rpcs' = Tail(rpcs) \/ rpcs' = Append(Tail(rpcs), [op |-> to, conn |-> c])
    <3>1. CASE Dropped(c)
      BY <3>1, Names DEF Dropped, Register, Await
    <3>2. CASE Unbound(c)
      BY <3>2, Names DEF Unbound
    <3>3. CASE Deleted(c)
      BY <3>3, Names DEF Deleted
    <3>4. ASSUME NEW op, Subscribe(c, op)
          PROVE  \E to \in Ops : rpcs' = Tail(rpcs) \/ rpcs' = Append(Tail(rpcs), [op |-> to, conn |-> c])
      <4>1. After(op) \in Ops
        BY Names DEF After
      <4> QED BY <3>4, <4>1 DEF Subscribe, Await
    <3>5. ASSUME NEW op, GiveUp(c, op) PROVE rpcs' = Tail(rpcs)
      BY <3>5 DEF GiveUp
    <3> QED BY <3>1, <3>2, <3>3, <3>4, <3>5, Names DEF Answer
  <2>2. rpcs # <<>>
    BY <1>1
  <2> QED BY <1>2, <1>3, <2>1, <2>2, OwnedKept
<1>5. handler' \in [Conns -> States] /\ \A d \in Conns \ {c} : handler'[d] = handler[d]
  <2>1. \/ handler' = handler
        \/ \E h \in {"waiting", "subscribed", "failed"} : handler' = [handler EXCEPT ![c] = h]
    BY DEF Answer, Dropped, Register, Await, Unbound, Deleted, Subscribe, GiveUp
  <2> QED BY <1>1, <2>1 DEF TypeOK
<1>6. /\ listening' \subseteq listening \cup {c}
      /\ alive' \subseteq Phones
      /\ sockets' \in [Phones -> Conns \cup {NoConn}]
  BY <1>1, <1>2 DEF Answer, Dropped, Register, Unbound, Deleted, Subscribe, GiveUp, TypeOK
<1>7. /\ channel' \in {"open", "closed"} /\ queue' \in Queues /\ inbox' \in Inboxes
  <2>1. CASE Dropped(c) \/ Unbound(c) \/ Deleted(c)
    BY <1>1, <2>1 DEF Dropped, Unbound, Deleted, DeleteQueue, broker, TypeOK
  <2>2. ASSUME NEW op, Subscribe(c, op)
        PROVE  channel' \in {"open", "closed"} /\ queue' \in Queues /\ inbox' \in Inboxes
    <3>1. Done(op) \subseteq {"declared", "bound", "consumed"}
      BY DEF Done
    <3> QED BY <1>1, <2>2, <3>1 DEF Subscribe, TypeOK
  <2>3. ASSUME NEW op, GiveUp(c, op)
        PROVE  channel' \in {"open", "closed"} /\ queue' \in Queues /\ inbox' \in Inboxes
    BY <1>1, <2>3 DEF GiveUp, LoseChannel, TypeOK
  <2> QED BY <2>1, <2>2, <2>3 DEF Answer
<1>8. UNCHANGED phone
  BY DEF Answer, Dropped, Unbound, Deleted, Subscribe, GiveUp
<1>9. TypeOK'
  BY <1>1, <1>3, <1>4, <1>5, <1>6, <1>7, <1>8 DEF TypeOK
<1>10. Made' /\ Idle'
  BY <1>2, <1>3, <1>5, <1>6, <1>8 DEF Sound, Made, Idle
<1> QED BY <1>4, <1>9, <1>10 DEF Sound

-------------------------------------------------------------------------------
\* The theorems.

WNext == Next /\ UNCHANGED hasty

LEMMA WInit == Init => WInv
<1> SUFFICES ASSUME Init PROVE WInv
  OBVIOUS
<1>1. Sound
  BY SoundInit
<1>2. ASSUME NEW p \in Phones PROVE Matched(p) /\ InProgress(p)
  <2>1. \A op \in Ops : Pending(p)[op] = {}
    BY DEF Init, Pending
  <2>2. queue[p] = {} /\ sockets[p] = NoConn
    BY DEF Init
  <2> QED BY <2>1, <2>2, Names DEF Matched, Entered, Declares, InProgress
<1> QED BY <1>1, <1>2 DEF WInv, Sound

LEMMA WStep == WInv /\ [WNext]_<<vars, hasty>> => WInv'
<1> SUFFICES ASSUME WInv, [WNext]_<<vars, hasty>> PROVE WInv'
  OBVIOUS
<1>1. CASE UNCHANGED <<vars, hasty>>
  <2>1. \A p : Pending(p)' = Pending(p)
    BY <1>1 DEF Pending, vars
  <2> QED BY <1>1, <2>1 DEF WInv, vars, TypeOK, Made, Owned, Idle, Matched, Entered, InProgress
<1>2. CASE WNext
  <2>1. Sound
    BY DEF WInv, Sound
  <2>2. Sound'
    BY <1>2, <2>1, SoundConnect, SoundOthers, SoundAccept, SoundClosed, SoundAnswer
    DEF WNext, Next, Decode
  <2>3. channel' = "open" => \A p \in Phones : Kept(p)'
    BY <1>2, KeptStep DEF WNext
  <2> QED BY <2>2, <2>3 DEF WInv, Sound, Kept
<1> QED BY <1>1, <1>2

THEOREM WInvariant == Spec => []WInv
BY WInit, WStep, PTL DEF Spec, WNext

\* Connections, channel and queues are well formed.
THEOREM TypeCorrect == Spec => []TypeOK
<1>1. WInv => TypeOK
  BY DEF WInv
<1> QED BY <1>1, WInvariant, PTL

\* When the gateway is done with a phone nothing is under way for it, and the
\* entry and the queue have what each other has.
LEMMA QuietMatched ==
  ASSUME WInv, channel = "open", NEW p \in Phones, Quiet(p)
  PROVE  /\ sockets[p] # NoConn <=> "declared" \in queue[p]
         /\ "declared" \in queue[p] => Served(p)
         /\ "declared" \notin queue[p] => queue[p] = {}
<1>1. \A op \in Ops : Pending(p)[op] = {}
  BY DEF Quiet, Pending
<1>2. Matched(p) /\ InProgress(p) /\ queue[p] \subseteq {"declared", "bound", "consumed"}
  BY DEF WInv, TypeOK
<1>3. sockets[p] # NoConn <=> "declared" \in queue[p]
  BY <1>1, <1>2, Names DEF Matched, Entered, Declares, Needs
<1> QED BY <1>1, <1>2, <1>3, Names DEF InProgress, Served

\* However the connections of a phone overlap, its entry ends up with a queue that
\* is bound and consumed, unless the channel was lost: a delete that comes between
\* the operations of the one that subscribes is followed by a bind or a consume.
THEOREM EndsServed == Spec => []ServedWhenQuiet
<1>1. WInv => ServedWhenQuiet
  BY QuietMatched DEF ServedWhenQuiet
<1> QED BY <1>1, WInvariant, PTL

\* A phone that has no connection any more has no queue.
THEOREM LeavesNoQueue == Spec => []NoOrphanQueue
<1>1. WInv => NoOrphanQueue
  BY QuietMatched DEF NoOrphanQueue
<1> QED BY <1>1, WInvariant, PTL

-------------------------------------------------------------------------------
\* The gateway does one thing at a time for a phone that is not hasty, whatever
\* the others do.

PhoneOf(i) == phone[rpcs[i].conn]
Deciding == {c \in Conns : handler[c] = "decode" /\ phone[c] \notin hasty}
Leaving == {c \in listening : socket[c] = "closing" /\ phone[c] \notin hasty}

\* What is under way for a phone is a token to verify, an operation in the channel,
\* or a connection that closes.
OneThing ==
    /\ \A i, j \in DOMAIN rpcs : PhoneOf(i) \notin hasty /\ PhoneOf(i) = PhoneOf(j) => i = j
    /\ \A c, d \in Deciding : phone[c] = phone[d] => c = d
    /\ \A i \in DOMAIN rpcs, c \in Deciding \cup Leaving : PhoneOf(i) # phone[c]
    /\ \A c \in Deciding, d \in Leaving : phone[c] # phone[d]

\* An entry is a connection of its phone: the one of it that listens, and the one
\* that is subscribed and open.
OneEntry ==
    /\ \A p \in Phones : sockets[p] # NoConn =>
           phone[sockets[p]] = p /\ (p \notin hasty => sockets[p] \in listening)
    /\ \A c \in listening : phone[c] \notin hasty => sockets[phone[c]] = c
    /\ \A c \in Conns : handler[c] = "subscribed" /\ socket[c] = "open" /\ phone[c] \notin hasty =>
           sockets[phone[c]] = c
    /\ \A c \in Deciding : socket[c] = "open" /\ c \notin listening

\* A handler in the channel is that of an open connection, which has the entry but
\* while it drops the old queue, and the queue from the assert on.
OneCaller ==
    \A i \in DOMAIN rpcs : PhoneOf(i) \notin hasty =>
        /\ rpcs[i].op \in HandlerOps =>
               /\ socket[rpcs[i].conn] = "open"
               /\ sockets[PhoneOf(i)] = IF rpcs[i].op = "drop" THEN NoConn ELSE rpcs[i].conn
        /\ rpcs[i].op \in {"exchange", "bind", "consume"} => "declared" \in queue[PhoneOf(i)]

PInv == OneThing /\ OneEntry /\ OneCaller

\* The first operation gives way to the next of its caller; the others are those of
\* other phones, or of the same hasty one.
LEMMA TakesOne ==
  ASSUME TypeOK, OneThing, NEW c \in Conns, NEW from \in Ops, NEW to \in Ops \cup {"none"},
         Takes(c, from, to)
  PROVE  /\ 1 \in DOMAIN rpcs /\ rpcs[1].op = from /\ rpcs[1].conn = c /\ PhoneOf(1) = phone[c]
         /\ \A i \in DOMAIN rpcs' :
                \/ /\ i + 1 \in DOMAIN rpcs /\ rpcs'[i] = rpcs[i + 1] /\ PhoneOf(i)' = PhoneOf(i + 1)
                   /\ phone[c] \notin hasty => PhoneOf(i + 1) # phone[c]
                \/ /\ to # "none" /\ i = Len(rpcs) /\ rpcs'[i].op = to /\ rpcs'[i].conn = c
                   /\ PhoneOf(i)' = phone[c]
<1> DEFINE n == Len(rpcs)
<1> HIDE DEF n
<1>1. n \in Nat /\ n > 0 /\ DOMAIN rpcs = 1..n
  BY TakesPlaces DEF n
<1>2. /\ rpcs[1].op = from /\ rpcs[1].conn = c
      /\ DOMAIN rpcs' = IF to = "none" THEN 1..(n - 1) ELSE 1..n
      /\ to # "none" => rpcs'[n].op = to /\ rpcs'[n].conn = c
      /\ \A i \in 1..(n - 1) : rpcs'[i] = rpcs[i + 1]
  <2> DEFINE old == [op |-> from, conn |-> c]
             new == [op |-> to, conn |-> c]
  <2>1. old.op = from /\ old.conn = c /\ new.op = to /\ new.conn = c
    OBVIOUS
  <2> HIDE DEF old, new
  <2>2. /\ rpcs[1] = old
        /\ DOMAIN rpcs' = IF to = "none" THEN 1..(n - 1) ELSE 1..n
        /\ to # "none" => rpcs'[n] = new
        /\ \A i \in 1..(n - 1) : rpcs'[i] = rpcs[i + 1]
    BY TakesPlaces DEF n, old, new
  <2> QED BY <2>1, <2>2
<1>3. phone' = phone
  BY DEF Takes
<1>4. 1 \in DOMAIN rpcs /\ PhoneOf(1) = phone[c]
  BY <1>1, <1>2 DEF PhoneOf
<1>5. ASSUME NEW i \in DOMAIN rpcs', i # n
      PROVE  /\ i + 1 \in DOMAIN rpcs /\ rpcs'[i] = rpcs[i + 1] /\ PhoneOf(i)' = PhoneOf(i + 1)
             /\ phone[c] \notin hasty => PhoneOf(i + 1) # phone[c]
  <2>1. i \in 1..(n - 1) /\ i + 1 \in 1..n /\ i + 1 # 1
    BY <1>1, <1>2, <1>5
  <2>2. rpcs'[i] = rpcs[i + 1] /\ i + 1 \in DOMAIN rpcs
    BY <1>1, <1>2, <2>1
  <2>3. PhoneOf(i)' = PhoneOf(i + 1)
    BY <1>3, <2>2 DEF PhoneOf
  <2>4. phone[c] \notin hasty => PhoneOf(i + 1) # PhoneOf(1)
    BY <1>4, <2>1, <2>2 DEF OneThing
  <2> QED BY <1>4, <2>2, <2>3, <2>4
<1>6. ASSUME NEW i \in DOMAIN rpcs', i = n
      PROVE  /\ to # "none" /\ rpcs'[i].op = to /\ rpcs'[i].conn = c /\ PhoneOf(i)' = phone[c]
  <2>1. to # "none"
    BY <1>1, <1>2, <1>6
  <2> QED BY <1>2, <1>3, <1>6, <2>1 DEF PhoneOf
<1> QED BY <1>2, <1>4, <1>5, <1>6 DEF n

\* A new operation, of a phone that has none.
LEMMA AddsOne ==
  ASSUME TypeOK, NEW c \in Conns, NEW to \in Ops, Adds(c, to)
  PROVE  \A i \in DOMAIN rpcs' :
            \/ i \in DOMAIN rpcs /\ rpcs'[i] = rpcs[i] /\ PhoneOf(i)' = PhoneOf(i)
            \/ /\ i = Len(rpcs) + 1 /\ rpcs'[i].op = to /\ rpcs'[i].conn = c
               /\ PhoneOf(i)' = phone[c]
<1> DEFINE n == Len(rpcs)
           new == [op |-> to, conn |-> c]
<1>1. rpcs \in Seq(Rpc) /\ n \in Nat /\ DOMAIN rpcs = 1..n
  BY DEF TypeOK
<1>2. rpcs' = Append(rpcs, new) /\ phone' = phone
  BY DEF Adds
<1>3. new \in Rpc /\ new.op = to /\ new.conn = c
  BY DEF Rpc, Ops
<1> HIDE DEF new
<1>4. DOMAIN rpcs' = 1..(n + 1) /\ rpcs'[n + 1] = new /\ \A i \in 1..n : rpcs'[i] = rpcs[i]
  BY <1>1, <1>2, <1>3, AppendProperties
<1> SUFFICES ASSUME NEW i \in DOMAIN rpcs'
             PROVE  \/ i \in DOMAIN rpcs /\ rpcs'[i] = rpcs[i] /\ PhoneOf(i)' = PhoneOf(i)
                    \/ /\ i = n + 1 /\ rpcs'[i].op = to /\ rpcs'[i].conn = c
                       /\ PhoneOf(i)' = phone[c]
  OBVIOUS
<1>5. CASE i = n + 1
  BY <1>2, <1>3, <1>4, <1>5 DEF PhoneOf
<1>6. CASE i # n + 1
  <2>1. i \in 1..n
    BY <1>1, <1>4, <1>6
  <2> QED BY <1>1, <1>2, <1>4, <2>1 DEF PhoneOf
<1> QED BY <1>5, <1>6

\* Who may act is one for whom nothing is under way.
LEMMA QuietNothing ==
  ASSUME TypeOK, NEW p, p \notin hasty, MayAct(p)
  PROVE  /\ \A i \in DOMAIN rpcs : PhoneOf(i) # p
         /\ \A c \in Deciding \cup Leaving : phone[c] # p
BY DEF MayAct, Quiet, PhoneOf, Deciding, Leaving, TypeOK

LEMMA CallerMade ==
  ASSUME Sound
  PROVE  \A i \in DOMAIN rpcs :
            rpcs[i].conn \in Conns /\ socket[rpcs[i].conn] # "none" /\ PhoneOf(i) \in Phones
BY Caller DEF Sound, TypeOK, Made, Owned, PhoneOf

\* What happens to a hasty phone changes nothing for the others.
LEMMA Bystanders ==
  ASSUME Sound, PInv, hasty' = hasty, NEW k \in {0, 1},
         \A i \in DOMAIN rpcs' :
             \/ PhoneOf(i)' \in hasty
             \/ /\ i \in Nat /\ i + k \in DOMAIN rpcs /\ rpcs'[i] = rpcs[i + k]
                /\ PhoneOf(i)' = PhoneOf(i + k),
         listening' \subseteq Conns,
         \A d \in Conns : phone'[d] \notin hasty =>
             /\ phone'[d] = phone[d] /\ handler'[d] = handler[d] /\ socket'[d] = socket[d]
             /\ (d \in listening' <=> d \in listening),
         \A p \in Phones :
             /\ sockets'[p] # NoConn => phone'[sockets'[p]] = p
             /\ p \notin hasty => /\ sockets'[p] = sockets[p]
                                 /\ ("declared" \in queue[p] => "declared" \in queue'[p])
  PROVE  PInv'
<1>1. \A d \in Deciding' : d \in Deciding /\ d \in Conns /\ phone'[d] = phone[d] /\ phone'[d] \notin hasty
  BY DEF Deciding
<1>2. \A d \in Leaving' : d \in Leaving /\ phone'[d] = phone[d] /\ phone'[d] \notin hasty
  BY DEF Leaving
<1>3. OneThing'
  <2>1. ASSUME NEW i \in DOMAIN rpcs', NEW j \in DOMAIN rpcs', PhoneOf(i)' \notin hasty, PhoneOf(i)' = PhoneOf(j)'
        PROVE  i = j
    <3>1. /\ i \in Nat /\ j \in Nat /\ i + k \in DOMAIN rpcs /\ j + k \in DOMAIN rpcs
          /\ PhoneOf(i + k) \notin hasty /\ PhoneOf(i + k) = PhoneOf(j + k)
      BY <2>1
    <3>2. i + k = j + k
      BY <3>1 DEF PInv, OneThing
    <3> QED BY <3>1, <3>2
  <2>2. \A i \in DOMAIN rpcs', d \in Deciding' \cup Leaving' : PhoneOf(i)' # phone'[d]
    BY <1>1, <1>2 DEF PInv, OneThing
  <2> QED BY <1>1, <1>2, <2>1, <2>2 DEF PInv, OneThing
<1>4. OneEntry'
  <2>1. ASSUME NEW q \in Phones, sockets'[q] # NoConn
        PROVE  phone'[sockets'[q]] = q /\ (q \notin hasty => sockets'[q] \in listening')
    <3>1. SUFFICES ASSUME q \notin hasty PROVE sockets'[q] \in listening'
      BY <2>1
    <3>2. sockets[q] \in listening /\ sockets'[q] = sockets[q] /\ phone'[sockets[q]] \notin hasty
      BY <2>1, <3>1 DEF PInv, OneEntry
    <3> QED BY <3>2 DEF Sound, TypeOK
  <2>2. \A d \in Conns : phone'[d] \notin hasty /\ socket[d] # "none" =>
           sockets'[phone'[d]] = sockets[phone[d]]
    BY DEF Sound, Made
  <2>3. \A d \in listening' : phone'[d] \notin hasty => sockets'[phone'[d]] = d
    BY <2>2 DEF PInv, OneEntry, Sound, Idle
  <2>4. \A d \in Conns : handler'[d] = "subscribed" /\ socket'[d] = "open" /\ phone'[d] \notin hasty =>
           sockets'[phone'[d]] = d
    BY <2>2 DEF PInv, OneEntry
  <2>5. \A d \in Deciding' : socket'[d] = "open" /\ d \notin listening'
    BY <1>1 DEF PInv, OneEntry
  <2> QED BY <2>1, <2>3, <2>4, <2>5 DEF OneEntry
<1>5. OneCaller'
  <2>1. ASSUME NEW i \in DOMAIN rpcs', PhoneOf(i)' \notin hasty
        PROVE  /\ rpcs'[i].op \in HandlerOps =>
                      /\ socket'[rpcs'[i].conn] = "open"
                      /\ sockets'[PhoneOf(i)'] = IF rpcs'[i].op = "drop" THEN NoConn ELSE rpcs'[i].conn
               /\ rpcs'[i].op \in {"exchange", "bind", "consume"} => "declared" \in queue'[PhoneOf(i)']
    <3>1. i + k \in DOMAIN rpcs /\ rpcs'[i] = rpcs[i + k] /\ PhoneOf(i)' = PhoneOf(i + k)
      BY <2>1
    <3>2. PhoneOf(i + k) \in Phones /\ rpcs[i + k].conn \in Conns
      BY <3>1, CallerMade
    <3>3. socket'[rpcs[i + k].conn] = socket[rpcs[i + k].conn]
      BY <2>1, <3>1, <3>2 DEF PhoneOf
    <3> QED BY <2>1, <3>1, <3>2, <3>3 DEF PInv, OneCaller
  <2> QED BY <2>1 DEF OneCaller
<1> QED BY <1>3, <1>4, <1>5 DEF PInv

LEMMA PatientConnect ==
  ASSUME Sound, PInv, hasty' = hasty, NEW c \in Conns, NEW p \in Phones, p \notin hasty, Connect(c, p)
  PROVE  PInv'
<1>1. /\ \A d \in Conns : socket'[d] = IF d = c THEN "open" ELSE socket[d]
      /\ \A d \in Conns : handler'[d] = IF d = c THEN "decode" ELSE handler[d]
      /\ \A d \in Conns : phone'[d] = IF d = c THEN p ELSE phone[d]
      /\ UNCHANGED <<rpcs, listening, sockets, queue, channel>>
  BY DEF Sound, TypeOK, Connect, broker
<1>2. /\ socket[c] = "none" /\ handler[c] = "none" /\ c \notin listening /\ listening \subseteq Conns
      /\ phone[c] \notin Phones
  BY NoPhoneIsNoPhone DEF Sound, Idle, Connect, TypeOK
<1>3. Deciding' = Deciding \cup {c} /\ Leaving' = Leaving /\ c \notin Deciding
  BY <1>1, <1>2 DEF Deciding, Leaving
<1>4. \A i \in DOMAIN rpcs : PhoneOf(i)' = PhoneOf(i) /\ rpcs[i].conn \in Conns /\ rpcs[i].conn # c
  BY <1>1, <1>2, CallerMade DEF PhoneOf
<1>5. /\ \A i \in DOMAIN rpcs : PhoneOf(i) # p
      /\ \A d \in Deciding \cup Leaving : phone[d] # p
  BY QuietNothing DEF Connect, Sound
<1>6. \A d \in Deciding \cup Leaving : d \in Conns /\ phone'[d] = phone[d]
  BY <1>1, <1>2 DEF Deciding, Leaving
<1>7. OneThing'
  BY <1>1, <1>3, <1>4, <1>5, <1>6 DEF PInv, OneThing
<1>8. OneEntry'
  <2>1. \A q \in Phones : sockets[q] # NoConn => sockets[q] \in Conns
    BY DEF Sound, TypeOK
  <2> QED BY <1>1, <1>2, <1>3, <1>6, <2>1 DEF PInv, OneEntry
<1>9. OneCaller'
  BY <1>1, <1>4 DEF PInv, OneCaller
<1> QED BY <1>1, <1>7, <1>8, <1>9 DEF PInv

\* Connections of phones for which nothing is under way start to close, one of each.
LEMMA PatientLeaves ==
  ASSUME Sound, PInv, hasty' = hasty, NEW C \in SUBSET Conns, socket' = Closing(C),
         UNCHANGED <<phone, rpcs, handler, listening, sockets, queue, channel>>,
         \A c \in C : MayAct(phone[c])
  PROVE  PInv'
<1>1. \A d \in Conns : socket'[d] = IF d \in C /\ socket[d] = "open" THEN "closing" ELSE socket[d]
  BY DEF Closing
<1>2. Deciding' = Deciding /\ Leaving \subseteq Leaving' /\ Leaving' \subseteq Leaving \cup {c \in C : phone[c] \notin hasty}
  BY <1>1 DEF Deciding, Leaving, Sound, TypeOK
<1>3. ASSUME NEW c \in C, phone[c] \notin hasty
      PROVE  /\ \A i \in DOMAIN rpcs : PhoneOf(i) # phone[c]
             /\ \A d \in Deciding \cup Leaving : phone[d] # phone[c]
  BY <1>3, QuietNothing DEF Sound
<1>4. \A i : PhoneOf(i)' = PhoneOf(i)
  BY DEF PhoneOf
<1>5. OneThing'
  BY <1>2, <1>3, <1>4 DEF PInv, OneThing
<1>6. OneEntry'
  BY <1>1, <1>2, <1>3 DEF PInv, OneEntry, Deciding
<1>7. OneCaller'
  <2>1. \A i \in DOMAIN rpcs : PhoneOf(i) \notin hasty => rpcs[i].conn \in Conns /\ rpcs[i].conn \notin C
    BY <1>3, CallerMade DEF PhoneOf
  <2> QED BY <1>1, <1>4, <2>1 DEF PInv, OneCaller
<1> QED BY <1>5, <1>6, <1>7 DEF PInv

\* A token is refused, or its key is not found out.
LEMMA PatientRefuse ==
  ASSUME Sound, PInv, hasty' = hasty, NEW c \in Conns, phone[c] \notin hasty, Refuse(c) \/ DecodeFails(c)
  PROVE  PInv'
<1>1. /\ \A d \in Conns : handler'[d] = IF d = c THEN "failed" ELSE handler[d]
      /\ handler[c] = "decode" /\ c \in Deciding
      /\ UNCHANGED <<phone, rpcs, listening, sockets, queue, channel>>
  BY DEF Sound, TypeOK, Refuse, DecodeFails, broker, Deciding
<1>2. \A d \in Conns : d # c => socket'[d] = socket[d]
  BY DEF Refuse, DecodeFails, Closing, Sound, TypeOK
<1>3. c \notin listening /\ Deciding' = Deciding \ {c} /\ Leaving' = Leaving
  BY <1>1, <1>2 DEF PInv, OneEntry, Deciding, Leaving, Sound, TypeOK
<1>4. \A i : PhoneOf(i)' = PhoneOf(i)
  BY <1>1 DEF PhoneOf
<1>5. OneThing'
  BY <1>1, <1>3, <1>4 DEF PInv, OneThing
<1>6. OneEntry'
  BY <1>1, <1>2, <1>3 DEF PInv, OneEntry, Deciding
<1>7. OneCaller'
  <2>1. \A i \in DOMAIN rpcs : rpcs[i].conn \in Conns /\ rpcs[i].conn # c
    BY <1>1, CallerMade DEF PInv, OneThing, PhoneOf
  <2> QED BY <1>1, <1>2, <1>4, <2>1 DEF PInv, OneCaller
<1> QED BY <1>1, <1>5, <1>6, <1>7 DEF PInv

\* A token is verified: the connection gets the entry, or closes the one that has it.
LEMMA PatientAccept ==
  ASSUME Sound, PInv, hasty' = hasty, NEW c \in Conns, phone[c] \notin hasty, Accept(c)
  PROVE  PInv'
<1> DEFINE p == phone[c]
<1>1. /\ \A d \in Conns : handler'[d] = IF d = c THEN "waiting" ELSE handler[d]
      /\ handler[c] = "decode" /\ c \in Deciding
      /\ UNCHANGED <<phone, queue, channel>>
  BY DEF Sound, TypeOK, Accept, Register, Replace, Await, broker, Deciding
<1>2. /\ \A i \in DOMAIN rpcs : PhoneOf(i) # p
      /\ \A d \in Deciding \ {c} : phone[d] # p
      /\ \A d \in Leaving : phone[d] # p
      /\ socket[c] = "open" /\ c \notin listening
  BY <1>1 DEF PInv, OneThing, OneEntry
<1>3. p \in Phones /\ p \notin hasty /\ c # NoConn /\ NoConn \notin Conns
  BY <1>2 DEF Sound, Made, Conns, NoConn
<1>4. PICK to \in {"assert", "drop"} :
          /\ Adds(c, to)
          /\ \A q \in Phones \ {p} : sockets'[q] = sockets[q]
          /\ sockets'[p] = IF to = "drop" THEN NoConn ELSE c
          /\ \/ to = "assert" /\ sockets[p] = NoConn /\ listening' = listening \cup {c} /\ socket' = socket
             \/ /\ to = "drop" /\ sockets[p] \in Conns
                /\ listening' = listening \ {sockets[p]} /\ socket' = Closing({sockets[p]})
  <2>1. CASE sockets[p] = NoConn /\ Register(c, rpcs) /\ UNCHANGED socket
    <3>1. Adds(c, "assert")
      BY <1>1, <2>1 DEF Register, Await, Adds
    <3> QED BY <1>3, <2>1, <3>1 DEF Register, Sound, TypeOK
  <2>2. ASSUME NEW old \in Conns, sockets[p] = old, Replace(c, old)
        PROVE  /\ Adds(c, "drop")
               /\ \A q \in Phones \ {p} : sockets'[q] = sockets[q]
               /\ sockets'[p] = NoConn
               /\ listening' = listening \ {old} /\ socket' = Closing({old})
    <3>1. Adds(c, "drop")
      BY <1>1, <2>2 DEF Replace, Await, Adds
    <3> QED BY <1>3, <2>2, <3>1 DEF Replace, Forget, Sound, TypeOK
  <2> QED BY <2>1, <2>2 DEF Accept
<1> HIDE DEF p
<1>5. sockets[p] # NoConn => /\ sockets[p] # c /\ sockets[p] \in listening
                             /\ phone[sockets[p]] = p
  BY <1>2, <1>3 DEF PInv, OneEntry
<1>6. /\ \A d \in Conns : socket'[d] # socket[d] => d = sockets[p] /\ socket'[d] = "closing"
      /\ to = "drop" => socket'[sockets[p]] # "open"
  BY <1>3, <1>4 DEF Closing
<1>7. Deciding' = Deciding \ {c}
  BY <1>1, <1>4 DEF Deciding
<1>8. Leaving' \subseteq Leaving /\ listening' \subseteq Conns
  BY <1>1, <1>2, <1>3, <1>4, <1>6 DEF Leaving, Sound, TypeOK
<1>9. \A i \in DOMAIN rpcs' :
         \/ i \in DOMAIN rpcs /\ rpcs'[i] = rpcs[i] /\ PhoneOf(i)' = PhoneOf(i)
         \/ /\ i = Len(rpcs) + 1 /\ rpcs'[i].op = to /\ rpcs'[i].conn = c
            /\ PhoneOf(i)' = p
  BY <1>4, AddsOne, Names DEF Sound, p
<1>10. OneThing'
  BY <1>1, <1>2, <1>7, <1>8, <1>9 DEF PInv, OneThing, Deciding, Leaving
<1>11. OneEntry'
  <2>1. ASSUME NEW q \in Phones, sockets'[q] # NoConn
        PROVE  phone[sockets'[q]] = q /\ (q \notin hasty => sockets'[q] \in listening')
    <3>1. CASE q = p
      BY <1>4, <2>1, <3>1 DEF p
    <3>2. CASE q # p
      BY <1>4, <1>5, <2>1, <3>2 DEF PInv, OneEntry
    <3> QED BY <3>1, <3>2
  <2>2. ASSUME NEW d \in listening', phone[d] \notin hasty PROVE sockets'[phone[d]] = d
    <3>1. CASE d = c
      BY <1>2, <1>4, <2>2, <3>1 DEF p
    <3>2. CASE d # c
      <4>1. d \in listening /\ sockets[phone[d]] = d
        BY <1>4, <2>2, <3>2 DEF PInv, OneEntry
      <4>2. phone[d] # p
        BY <1>4, <2>2, <4>1, <1>3, <1>8
      <4>3. phone[d] \in Phones
        BY <4>1 DEF Sound, Made, Idle, TypeOK
      <4> QED BY <1>4, <4>1, <4>2, <4>3
    <3> QED BY <3>1, <3>2
  <2>3. ASSUME NEW d \in Conns, handler'[d] = "subscribed", socket'[d] = "open", phone[d] \notin hasty
        PROVE  sockets'[phone[d]] = d
    <3>1. d # c /\ handler[d] = "subscribed" /\ socket[d] = "open"
      BY <1>1, <1>6, <2>3
    <3>2. sockets[phone[d]] = d
      BY <2>3, <3>1 DEF PInv, OneEntry
    <3>3. phone[d] # p
      BY <1>3, <1>4, <1>6, <2>3, <3>2
    <3>4. phone[d] \in Phones
      BY <2>3, <3>1 DEF Sound, Made
    <3> QED BY <1>4, <3>2, <3>3, <3>4
  <2>4. ASSUME NEW d \in Deciding' PROVE socket'[d] = "open" /\ d \notin listening'
    <3>1. d \in Deciding /\ d # c /\ d \in Conns /\ socket[d] = "open" /\ d \notin listening
      BY <1>7, <2>4 DEF PInv, OneEntry, Deciding
    <3>2. d # sockets[p]
      BY <1>3, <1>5, <3>1
    <3> QED BY <1>4, <1>6, <3>1, <3>2
  <2> QED BY <1>1, <2>1, <2>2, <2>3, <2>4 DEF OneEntry
<1>12. OneCaller'
  <2>1. ASSUME NEW i \in DOMAIN rpcs, rpcs'[i] = rpcs[i], PhoneOf(i)' = PhoneOf(i)
        PROVE  /\ socket'[rpcs[i].conn] = socket[rpcs[i].conn]
               /\ sockets'[PhoneOf(i)] = sockets[PhoneOf(i)]
    <3>1. rpcs[i].conn \in Conns /\ PhoneOf(i) \in Phones /\ PhoneOf(i) # p
      BY <1>2, CallerMade
    <3>2. rpcs[i].conn # sockets[p]
      BY <1>3, <1>5, <3>1 DEF PhoneOf
    <3> QED BY <1>4, <1>6, <3>1, <3>2
  <2>2. socket'[c] = "open"
    BY <1>2, <1>3, <1>5, <1>6
  <2>3. ASSUME NEW i \in DOMAIN rpcs', PhoneOf(i)' \notin hasty
        PROVE  /\ rpcs'[i].op \in HandlerOps =>
                      /\ socket'[rpcs'[i].conn] = "open"
                      /\ sockets'[PhoneOf(i)'] = IF rpcs'[i].op = "drop" THEN NoConn ELSE rpcs'[i].conn
               /\ rpcs'[i].op \in {"exchange", "bind", "consume"} => "declared" \in queue'[PhoneOf(i)']
    <3>1. CASE i \in DOMAIN rpcs /\ rpcs'[i] = rpcs[i] /\ PhoneOf(i)' = PhoneOf(i)
      BY <1>1, <2>1, <2>3, <3>1 DEF PInv, OneCaller
    <3>2. CASE rpcs'[i].op = to /\ rpcs'[i].conn = c /\ PhoneOf(i)' = p
      BY <1>4, <2>2, <3>2
    <3> QED BY <1>9, <3>1, <3>2
  <2> QED BY <2>3 DEF OneCaller
<1> QED BY <1>1, <1>10, <1>11, <1>12 DEF PInv

\* A closed connection takes its entry with it.
LEMMA PatientClosed ==
  ASSUME Sound, PInv, hasty' = hasty, NEW c \in Conns, phone[c] \notin hasty, Closed(c)
  PROVE  PInv'
<1> DEFINE p == phone[c]
<1>1. /\ \A d \in Conns : socket'[d] = IF d = c THEN "closed" ELSE socket[d]
      /\ socket[c] = "closing" /\ listening' = listening \ {c}
      /\ UNCHANGED <<phone, handler, queue, channel>>
  BY DEF Sound, TypeOK, Closed, broker
<1>2. p \in Phones /\ NoConn \notin Conns /\ listening \subseteq Conns
  BY <1>1 DEF Sound, TypeOK, Made, Conns, NoConn
<1>3. Deciding' = Deciding /\ Leaving' = Leaving \ {c}
  BY <1>1, <1>2 DEF Deciding, Leaving
<1>4. c \notin Deciding
  BY <1>1 DEF PInv, OneEntry
<1>5. CASE c \in listening
  <2>1. c \in Leaving /\ sockets[p] = c
    BY <1>1, <1>5 DEF PInv, OneEntry, Leaving
  <2>2. /\ \A i \in DOMAIN rpcs : PhoneOf(i) # p
        /\ \A d \in Deciding : phone[d] # p
    BY <2>1 DEF PInv, OneThing
  <2>3. \A d \in listening \ {c} : phone[d] # p
    BY <1>2, <2>1 DEF PInv, OneEntry
  <2>4. /\ Adds(c, "unbind")
        /\ \A q \in Phones : sockets'[q] = IF q = p THEN NoConn ELSE sockets[q]
    BY <1>2, <1>5, <2>1 DEF Closed, Adds, Forget, Sound, TypeOK
  <2> HIDE DEF p
  <2>5. \A i \in DOMAIN rpcs' :
           \/ i \in DOMAIN rpcs /\ rpcs'[i] = rpcs[i] /\ PhoneOf(i)' = PhoneOf(i)
           \/ /\ i = Len(rpcs) + 1 /\ rpcs'[i].op = "unbind" /\ rpcs'[i].conn = c
              /\ PhoneOf(i)' = p
    BY <2>4, AddsOne, Names DEF Sound, p
  <2>6. \A d \in Leaving \ {c} : phone[d] # p
    BY <2>3 DEF Leaving
  <2>7. OneThing'
    BY <1>1, <1>3, <2>2, <2>5, <2>6 DEF PInv, OneThing
  <2>8. OneEntry'
    <3>1. \A d \in listening : phone[d] \in Phones
      BY <1>2 DEF Sound, Made, Idle
    <3>2. \A q \in Phones : sockets'[q] # NoConn =>
             phone[sockets'[q]] = q /\ (q \notin hasty => sockets'[q] \in listening')
      <4>1. ASSUME NEW q \in Phones, sockets'[q] # NoConn
            PROVE  /\ phone[sockets[q]] = q /\ sockets[q] # c /\ q # p
                   /\ q \notin hasty => sockets[q] \in listening
        BY <2>4, <4>1 DEF PInv, OneEntry, p
      <4> QED BY <1>1, <2>4, <4>1
    <3>3. \A d \in listening' : phone[d] \notin hasty => sockets'[phone[d]] = d
      BY <1>1, <2>3, <2>4, <3>1 DEF PInv, OneEntry
    <3>4. ASSUME NEW d \in Conns, handler[d] = "subscribed", socket'[d] = "open", phone[d] \notin hasty
          PROVE  sockets'[phone[d]] = d
      <4>1. d # c /\ sockets[phone[d]] = d /\ phone[d] \in Phones
        BY <1>1, <3>4 DEF PInv, OneEntry, Sound, Made
      <4> QED BY <2>1, <2>4, <4>1
    <3>5. \A d \in Deciding : socket'[d] = "open" /\ d \notin listening'
      BY <1>1, <1>4 DEF PInv, OneEntry, Deciding
    <3> QED BY <1>1, <1>3, <3>2, <3>3, <3>4, <3>5 DEF OneEntry
  <2>9. OneCaller'
    <3>1. ASSUME NEW i \in DOMAIN rpcs', i \in DOMAIN rpcs, rpcs'[i] = rpcs[i], PhoneOf(i)' = PhoneOf(i)
          PROVE  /\ socket'[rpcs[i].conn] = socket[rpcs[i].conn]
                 /\ sockets'[PhoneOf(i)] = sockets[PhoneOf(i)]
      <4>1. rpcs[i].conn \in Conns /\ PhoneOf(i) \in Phones /\ PhoneOf(i) # p
        BY <2>2, <3>1, CallerMade
      <4> QED BY <1>1, <2>4, <4>1 DEF PhoneOf, p
    <3>2. "unbind" \notin HandlerOps
      BY DEF HandlerOps
    <3> QED BY <1>1, <2>5, <3>1, <3>2 DEF PInv, OneCaller
  <2> QED BY <1>1, <2>7, <2>8, <2>9 DEF PInv
<1>6. CASE c \notin listening
  <2>1. UNCHANGED <<sockets, rpcs>> /\ listening' = listening
    BY <1>1, <1>6 DEF Closed
  <2>2. Leaving' = Leaving
    BY <1>3, <1>6 DEF Leaving
  <2>3. \A i : PhoneOf(i)' = PhoneOf(i)
    BY <1>1, <2>1 DEF PhoneOf
  <2>4. OneThing'
    BY <1>1, <1>3, <2>1, <2>2, <2>3 DEF PInv, OneThing
  <2>5. OneEntry'
    BY <1>1, <1>3, <1>4, <2>1 DEF PInv, OneEntry, Deciding
  <2>6. OneCaller'
    BY <1>1, <2>1, <2>3, CallerMade DEF PInv, OneCaller
  <2> QED BY <1>1, <2>4, <2>5, <2>6 DEF PInv
<1> QED BY <1>5, <1>6

\* After an answer of the channel the other phones have what they had.
LEMMA TakesThing ==
  ASSUME Sound, PInv, hasty' = hasty, NEW c \in Conns, phone[c] \notin hasty, NEW from \in Ops, NEW to \in Ops \cup {"none"},
         Takes(c, from, to), Deciding' \subseteq Deciding,
         Leaving' \subseteq Leaving \cup (IF to = "none" THEN {c} ELSE {})
  PROVE  /\ OneThing'
         /\ \A i \in DOMAIN rpcs' :
                \/ /\ i + 1 \in DOMAIN rpcs /\ rpcs'[i] = rpcs[i + 1]
                   /\ PhoneOf(i)' = PhoneOf(i + 1) /\ PhoneOf(i + 1) # phone[c]
                \/ /\ to # "none" /\ rpcs'[i].op = to /\ rpcs'[i].conn = c
                   /\ PhoneOf(i)' = phone[c]
         /\ c \notin Deciding /\ c \notin Leaving /\ phone[c] \in Phones
         /\ from \in HandlerOps =>
                socket[c] = "open" /\ sockets[phone[c]] = IF from = "drop" THEN NoConn ELSE c
         /\ from \in {"exchange", "bind", "consume"} => "declared" \in queue[phone[c]]
<1>1. TypeOK /\ OneThing
  BY DEF Sound, PInv
<1>2. /\ 1 \in DOMAIN rpcs /\ rpcs[1].op = from /\ rpcs[1].conn = c /\ PhoneOf(1) = phone[c]
      /\ \A i \in DOMAIN rpcs' :
             \/ /\ i + 1 \in DOMAIN rpcs /\ rpcs'[i] = rpcs[i + 1]
                /\ PhoneOf(i)' = PhoneOf(i + 1) /\ PhoneOf(i + 1) # phone[c]
             \/ /\ to # "none" /\ i = Len(rpcs) /\ rpcs'[i].op = to /\ rpcs'[i].conn = c
                /\ PhoneOf(i)' = phone[c]
  BY <1>1, TakesOne
<1>3. c \notin Deciding /\ c \notin Leaving /\ \A d \in Deciding \cup Leaving : phone[d] # phone[c]
  BY <1>2 DEF PInv, OneThing
<1>4. phone' = phone
  BY DEF Takes
<1>5. DOMAIN rpcs' \subseteq Nat
  <2>1. Len(rpcs) \in Nat /\ DOMAIN rpcs' = IF to = "none" THEN 1..(Len(rpcs) - 1) ELSE 1..Len(rpcs)
    BY <1>1, TakesPlaces
  <2> QED BY <2>1
<1>6. OneThing'
  <2>1. ASSUME NEW i \in DOMAIN rpcs', NEW j \in DOMAIN rpcs', PhoneOf(i)' \notin hasty, PhoneOf(i)' = PhoneOf(j)'
        PROVE  i = j
    <3>1. CASE i = Len(rpcs) /\ PhoneOf(i)' = phone[c]
      BY <1>2, <2>1, <3>1
    <3>2. CASE i + 1 \in DOMAIN rpcs /\ PhoneOf(i)' = PhoneOf(i + 1) /\ PhoneOf(i + 1) # phone[c]
      <4>1. j + 1 \in DOMAIN rpcs /\ PhoneOf(j + 1) = PhoneOf(i + 1)
        BY <1>2, <2>1, <3>2
      <4>2. i + 1 = j + 1 /\ i \in Nat /\ j \in Nat
        BY <1>1, <1>5, <2>1, <3>2, <4>1 DEF OneThing
      <4> QED BY <4>2
    <3> QED BY <1>2, <3>1, <3>2
  <2>2. \A i \in DOMAIN rpcs', d \in Deciding \cup Leaving : PhoneOf(i)' # phone[d]
    BY <1>1, <1>2, <1>3 DEF OneThing
  <2>3. to = "none" => \A i \in DOMAIN rpcs' : PhoneOf(i)' # phone[c]
    BY <1>2
  <2> QED BY <1>1, <1>3, <1>4, <2>1, <2>2, <2>3 DEF OneThing
<1>7. phone[c] \in Phones
  BY <1>2, CallerMade
<1>8. /\ from \in HandlerOps =>
             socket[c] = "open" /\ sockets[phone[c]] = IF from = "drop" THEN NoConn ELSE c
      /\ from \in {"exchange", "bind", "consume"} => "declared" \in queue[phone[c]]
  BY <1>2 DEF PInv, OneCaller
<1> QED BY <1>2, <1>3, <1>6, <1>7, <1>8

\* What the channel has of the others is right if their phones keep their entries and queues.
LEMMA TakesCaller ==
  ASSUME Sound, PInv, hasty' = hasty, NEW c \in Conns, NEW to \in Ops \cup {"none"},
         \A i \in DOMAIN rpcs' :
                \/ /\ i + 1 \in DOMAIN rpcs /\ rpcs'[i] = rpcs[i + 1]
                   /\ PhoneOf(i)' = PhoneOf(i + 1) /\ PhoneOf(i + 1) # phone[c]
                \/ /\ to # "none" /\ rpcs'[i].op = to /\ rpcs'[i].conn = c
                   /\ PhoneOf(i)' = phone[c],
         \A d \in Conns : phone[d] # phone[c] => socket'[d] = socket[d],
         \A q \in Phones : q # phone[c] => sockets'[q] = sockets[q] /\ queue'[q] = queue[q],
         to \in HandlerOps => socket'[c] = "open" /\ to # "drop" /\ sockets'[phone[c]] = c,
         to \in {"exchange", "bind", "consume"} => "declared" \in queue'[phone[c]]
  PROVE  OneCaller'
<1>1. ASSUME NEW i \in DOMAIN rpcs', PhoneOf(i)' \notin hasty
      PROVE  /\ rpcs'[i].op \in HandlerOps =>
                    /\ socket'[rpcs'[i].conn] = "open"
                    /\ sockets'[PhoneOf(i)'] = IF rpcs'[i].op = "drop" THEN NoConn ELSE rpcs'[i].conn
             /\ rpcs'[i].op \in {"exchange", "bind", "consume"} => "declared" \in queue'[PhoneOf(i)']
  <2>1. CASE /\ i + 1 \in DOMAIN rpcs /\ rpcs'[i] = rpcs[i + 1]
             /\ PhoneOf(i)' = PhoneOf(i + 1) /\ PhoneOf(i + 1) # phone[c]
    <3>1. PhoneOf(i + 1) \in Phones /\ rpcs[i + 1].conn \in Conns
      BY <2>1, CallerMade
    <3>2. socket'[rpcs[i + 1].conn] = socket[rpcs[i + 1].conn]
      BY <2>1, <3>1 DEF PhoneOf
    <3> QED BY <1>1, <2>1, <3>1, <3>2 DEF PInv, OneCaller
  <2>2. CASE /\ to # "none" /\ rpcs'[i].op = to /\ rpcs'[i].conn = c
             /\ PhoneOf(i)' = phone[c]
    BY <2>2
  <2> QED BY <1>1, <2>1, <2>2
<1> QED BY <1>1 DEF OneCaller

LEMMA PatientDropped ==
  ASSUME Sound, PInv, hasty' = hasty, NEW c \in Conns, phone[c] \notin hasty, Dropped(c)
  PROVE  PInv'
<1>1. Takes(c, "drop", "assert")
  BY DEF Dropped, Register, Await, Takes
<1>2. /\ \A d \in Conns : handler'[d] = IF d = c THEN "waiting" ELSE handler[d]
      /\ listening' = listening \cup {c}
      /\ UNCHANGED <<phone, socket, channel>>
  BY DEF Sound, TypeOK, Dropped, Register, Await
<1>3. c \notin Deciding /\ phone[c] \in Phones /\ socket[c] = "open" /\ sockets[phone[c]] = NoConn
  <2>1. /\ 1 \in DOMAIN rpcs /\ rpcs[1].op = "drop" /\ rpcs[1].conn = c /\ PhoneOf(1) = phone[c]
    BY <1>1, TakesOne, Names DEF Sound, PInv
  <2>2. "drop" \in HandlerOps
    BY DEF HandlerOps
  <2> QED BY <2>1, <2>2, CallerMade DEF PInv, OneThing, OneCaller
<1>4. Deciding' \subseteq Deciding /\ Leaving' \subseteq Leaving
  BY <1>2, <1>3 DEF Deciding, Leaving
<1>5. /\ OneThing'
      /\ \A i \in DOMAIN rpcs' :
             \/ /\ i + 1 \in DOMAIN rpcs /\ rpcs'[i] = rpcs[i + 1]
                /\ PhoneOf(i)' = PhoneOf(i + 1) /\ PhoneOf(i + 1) # phone[c]
             \/ /\ "assert" # "none" /\ rpcs'[i].op = "assert" /\ rpcs'[i].conn = c
                /\ PhoneOf(i)' = phone[c]
  BY <1>1, <1>4, TakesThing, Names
<1>6. \A q \in Phones : sockets'[q] = IF q = phone[c] THEN c ELSE sockets[q]
  BY DEF Dropped, Register, Sound, TypeOK
<1>7. \A q \in Phones : q # phone[c] => queue'[q] = queue[q]
  BY DEF Dropped, DeleteQueue, Sound, TypeOK
<1>8. OneEntry'
  <2>1. \A d \in listening : d \in Conns /\ phone[d] \in Phones
    BY DEF Sound, Made, Idle, TypeOK
  <2>2. NoConn \notin Conns
    BY DEF Conns, NoConn
  <2>3. \A d \in listening : phone[d] # phone[c]
    BY <1>3, <2>1, <2>2 DEF PInv, OneEntry
  <2>4. \A q \in Phones : sockets'[q] # NoConn =>
           phone[sockets'[q]] = q /\ (q \notin hasty => sockets'[q] \in listening')
    BY <1>2, <1>6 DEF PInv, OneEntry
  <2>5. \A d \in listening' : phone[d] \notin hasty => sockets'[phone[d]] = d
    BY <1>2, <1>3, <1>6, <2>1, <2>3 DEF PInv, OneEntry
  <2>6. ASSUME NEW d \in Conns, handler'[d] = "subscribed", socket[d] = "open", phone[d] \notin hasty
        PROVE  sockets'[phone[d]] = d
    <3>1. d # c /\ sockets[phone[d]] = d /\ phone[d] \in Phones
      BY <1>2, <2>6 DEF PInv, OneEntry, Sound, Made
    <3>2. phone[d] # phone[c]
      BY <1>3, <2>2, <3>1
    <3> QED BY <1>6, <3>1, <3>2
  <2>7. \A d \in Deciding' : socket[d] = "open" /\ d \notin listening'
    BY <1>2, <1>3, <1>4 DEF PInv, OneEntry
  <2> QED BY <1>2, <2>4, <2>5, <2>6, <2>7 DEF OneEntry
<1>9. OneCaller'
  BY <1>2, <1>3, <1>5, <1>6, <1>7, TakesCaller, Names
<1> QED BY <1>2, <1>5, <1>8, <1>9 DEF PInv

LEMMA PatientLast ==
  ASSUME Sound, PInv, hasty' = hasty, NEW c \in Conns, phone[c] \notin hasty, Unbound(c) \/ Deleted(c)
  PROVE  PInv'
<1>1. PICK from \in {"unbind", "delete"}, to \in {"delete", "none"} : Takes(c, from, to)
  BY DEF PInv, Unbound, Deleted, Takes
<1>2. UNCHANGED <<phone, socket, handler, listening, sockets, channel>>
  BY DEF Unbound, Deleted, broker
<1>3. Deciding' = Deciding /\ Leaving' = Leaving
  BY <1>2 DEF Deciding, Leaving
<1>4. /\ OneThing'
      /\ \A i \in DOMAIN rpcs' :
             \/ /\ i + 1 \in DOMAIN rpcs /\ rpcs'[i] = rpcs[i + 1]
                /\ PhoneOf(i)' = PhoneOf(i + 1) /\ PhoneOf(i + 1) # phone[c]
             \/ /\ to # "none" /\ rpcs'[i].op = to /\ rpcs'[i].conn = c
                /\ PhoneOf(i)' = phone[c]
  <2>1. from \in Ops /\ to \in Ops \cup {"none"}
    BY Names
  <2> QED BY <1>1, <1>3, <2>1, TakesThing
<1>5. OneEntry'
  BY <1>2, <1>3 DEF PInv, OneEntry
<1>6. \A q \in Phones : q # phone[c] => queue'[q] = queue[q]
  BY DEF Unbound, Deleted, DeleteQueue, broker, Sound, TypeOK
<1>7. OneCaller'
  <2>1. to \in Ops \cup {"none"} /\ to \notin HandlerOps /\ to \notin {"exchange", "bind", "consume"}
    BY Names DEF HandlerOps
  <2> QED BY <1>2, <1>4, <1>6, <2>1, TakesCaller
<1> QED BY <1>2, <1>4, <1>5, <1>7 DEF PInv

LEMMA PatientSubscribe ==
  ASSUME Sound, PInv, hasty' = hasty, NEW c \in Conns, phone[c] \notin hasty,
         NEW op \in HandlerOps \ {"drop"}, Subscribe(c, op)
  PROVE  PInv'
<1> DEFINE p == phone[c]
           to == IF op = "consume" THEN "none" ELSE After(op)
<1>1. /\ op \in {"assert", "exchange", "bind", "consume"}
      /\ to = CASE op = "assert" -> "exchange" [] op = "exchange" -> "bind"
                [] op = "bind" -> "consume" [] op = "consume" -> "none"
  BY DEF HandlerOps, After
<1>2. 1 \in DOMAIN rpcs /\ rpcs[1].op = op /\ rpcs[1].conn = c /\ PhoneOf(1) = p
  <2>1. Head(rpcs) = [op |-> op, conn |-> c] /\ Len(rpcs) > 0
    BY DEF Subscribe, Asked
  <2> QED BY <2>1 DEF Sound, TypeOK, PhoneOf
<1>3. /\ p \in Phones /\ socket[c] = "open" /\ sockets[p] = c
      /\ op # "assert" => "declared" \in queue[p]
      /\ c \notin Deciding
  BY <1>1, <1>2, CallerMade DEF PInv, OneThing, OneCaller
<1>5. Takes(c, op, to)
  <2>1. Asked(c, op) /\ phone' = phone
    BY DEF Subscribe
  <2>2. op = "consume" => rpcs' = Tail(rpcs) /\ to = "none"
    BY DEF Subscribe
  <2>3. op # "consume" => rpcs' = Append(Tail(rpcs), [op |-> to, conn |-> c]) /\ to # "none"
    BY <1>1 DEF Subscribe, Await
  <2> QED BY <2>1, <2>2, <2>3 DEF Takes
<1>6. /\ \A d \in Conns : d # c => handler'[d] = handler[d]
      /\ handler'[c] \in {"waiting", "subscribed"}
      /\ UNCHANGED <<phone, socket, listening, sockets, channel>>
  BY DEF Subscribe, Await, Sound, TypeOK
<1>7. Deciding' = Deciding /\ Leaving' = Leaving
  BY <1>3, <1>6 DEF Deciding, Leaving
<1>8. /\ \A q \in Phones : q # p => queue'[q] = queue[q]
      /\ "declared" \in queue'[p]
  <2>1. \A q \in Phones : queue'[q] = IF q = p THEN queue[q] \cup Done(op) ELSE queue[q]
    BY <1>3 DEF Subscribe, Sound, TypeOK
  <2>2. op = "assert" => Done(op) = {"declared"}
    BY DEF Done
  <2> QED BY <1>3, <2>1, <2>2
<1>9. to \in Ops \cup {"none"} /\ to # "drop"
  BY <1>1, Names
<1> HIDE DEF to
<1>10. /\ OneThing'
       /\ \A i \in DOMAIN rpcs' :
              \/ /\ i + 1 \in DOMAIN rpcs /\ rpcs'[i] = rpcs[i + 1]
                 /\ PhoneOf(i)' = PhoneOf(i + 1) /\ PhoneOf(i + 1) # phone[c]
              \/ /\ to # "none" /\ rpcs'[i].op = to /\ rpcs'[i].conn = c
                 /\ PhoneOf(i)' = phone[c]
  BY <1>5, <1>7, <1>9, TakesThing DEF Ops
<1>11. OneEntry'
  BY <1>3, <1>6, <1>7 DEF PInv, OneEntry
<1>12. OneCaller'
  BY <1>3, <1>6, <1>8, <1>9, <1>10, TakesCaller
<1> QED BY <1>6, <1>10, <1>11, <1>12 DEF PInv

\* A handler that gives up closes its connection, which has the entry.
LEMMA PatientGiveUp ==
  ASSUME Sound, PInv, hasty' = hasty, NEW c \in Conns, phone[c] \notin hasty,
         NEW op \in HandlerOps \ {"drop"}, GiveUp(c, op)
  PROVE  PInv'
<1>1. Takes(c, op, "none") /\ op \in Ops
  BY DEF GiveUp, Takes, Ops
<1>2. /\ \A d \in Conns : handler'[d] = IF d = c THEN "failed" ELSE handler[d]
      /\ \A d \in Conns : socket'[d] # socket[d] => d = c /\ socket'[d] = "closing"
      /\ \A q \in Phones : "declared" \in queue[q] => "declared" \in queue'[q]
      /\ UNCHANGED <<phone, listening, sockets>>
  BY DEF GiveUp, LoseChannel, Closing, Sound, TypeOK
<1>3. Deciding' \subseteq Deciding /\ Leaving' \subseteq Leaving \cup {c}
  BY <1>2 DEF Deciding, Leaving, Sound, TypeOK
<1>4. /\ OneThing'
      /\ \A i \in DOMAIN rpcs' :
             /\ i + 1 \in DOMAIN rpcs /\ rpcs'[i] = rpcs[i + 1]
             /\ PhoneOf(i)' = PhoneOf(i + 1) /\ PhoneOf(i + 1) # phone[c]
      /\ c \notin Deciding
  BY <1>1, <1>3, TakesThing
<1>5. OneEntry'
  <2>1. \A d \in Deciding' : d \in Conns /\ d # c
    BY <1>3, <1>4 DEF Deciding
  <2> QED BY <1>2, <1>3, <2>1 DEF PInv, OneEntry
<1>6. OneCaller'
  <2>1. ASSUME NEW i \in DOMAIN rpcs', PhoneOf(i)' \notin hasty
        PROVE  /\ rpcs'[i].op \in HandlerOps =>
                      /\ socket'[rpcs'[i].conn] = "open"
                      /\ sockets'[PhoneOf(i)'] = IF rpcs'[i].op = "drop" THEN NoConn ELSE rpcs'[i].conn
               /\ rpcs'[i].op \in {"exchange", "bind", "consume"} => "declared" \in queue'[PhoneOf(i)']
    <3>1. /\ i + 1 \in DOMAIN rpcs /\ rpcs'[i] = rpcs[i + 1]
          /\ PhoneOf(i)' = PhoneOf(i + 1) /\ PhoneOf(i + 1) # phone[c]
      BY <1>4
    <3>2. PhoneOf(i + 1) \in Phones /\ rpcs[i + 1].conn \in Conns /\ rpcs[i + 1].conn # c
      BY <3>1, CallerMade DEF PhoneOf
    <3> QED BY <1>2, <2>1, <3>1, <3>2 DEF PInv, OneCaller
  <2> QED BY <2>1 DEF OneCaller
<1> QED BY <1>4, <1>5, <1>6 DEF PInv

\* The steps of a hasty phone change nothing for the others.
LEMMA HastyStep ==
  ASSUME Sound, PInv, hasty' = hasty, NEW c \in Conns,
         \/ \E p \in Phones : p \in hasty /\ Connect(c, p)
         \/ phone[c] \in hasty /\ (Decode(c) \/ Closed(c) \/ Answer(c))
  PROVE  PInv'
<1> USE DEF NoConn
<1>1. /\ rpcs \in Seq(Rpc) /\ DOMAIN rpcs \subseteq Nat
      /\ listening \subseteq Conns
      /\ \A q \in Phones : sockets[q] # NoConn => sockets[q] \in Conns /\ phone[sockets[q]] = q
  BY DEF Sound, TypeOK, PInv, OneEntry
<1>2. ASSUME UNCHANGED <<phone, rpcs>>
      PROVE  \A i \in DOMAIN rpcs' : /\ i \in Nat /\ i + 0 \in DOMAIN rpcs /\ rpcs'[i] = rpcs[i + 0]
                                     /\ PhoneOf(i)' = PhoneOf(i + 0)
  BY <1>1, <1>2 DEF PhoneOf
<1>3. ASSUME NEW to \in Ops, Adds(c, to), phone[c] \in hasty
      PROVE  \A i \in DOMAIN rpcs' :
                 \/ PhoneOf(i)' \in hasty
                 \/ /\ i \in Nat /\ i + 0 \in DOMAIN rpcs /\ rpcs'[i] = rpcs[i + 0]
                    /\ PhoneOf(i)' = PhoneOf(i + 0)
  <2>1. \A i \in DOMAIN rpcs' :
            \/ i \in DOMAIN rpcs /\ rpcs'[i] = rpcs[i] /\ PhoneOf(i)' = PhoneOf(i)
            \/ PhoneOf(i)' = phone[c]
    BY <1>3, AddsOne DEF Sound
  <2>2. \A i \in DOMAIN rpcs : i \in Nat /\ i + 0 = i
    BY <1>1
  <2> QED BY <1>3, <2>1, <2>2
<1>4. ASSUME NEW from \in Ops, NEW to \in Ops \cup {"none"}, Takes(c, from, to), phone[c] \in hasty
      PROVE  \A i \in DOMAIN rpcs' :
                 \/ PhoneOf(i)' \in hasty
                 \/ /\ i \in Nat /\ i + 1 \in DOMAIN rpcs /\ rpcs'[i] = rpcs[i + 1]
                    /\ PhoneOf(i)' = PhoneOf(i + 1)
  <2>1. \A i \in DOMAIN rpcs' :
            \/ i + 1 \in DOMAIN rpcs /\ rpcs'[i] = rpcs[i + 1] /\ PhoneOf(i)' = PhoneOf(i + 1)
            \/ PhoneOf(i)' = phone[c]
    BY <1>4, TakesOne DEF Sound, PInv
  <2>2. DOMAIN rpcs' \subseteq Nat
    <3>1. Len(rpcs) \in Nat /\ DOMAIN rpcs' = IF to = "none" THEN 1..(Len(rpcs) - 1) ELSE 1..Len(rpcs)
      BY <1>4, TakesPlaces DEF Sound
    <3> QED BY <3>1
  <2> QED BY <1>4, <2>1, <2>2
<1>5. ASSUME NEW p \in Phones, p \in hasty, Connect(c, p) PROVE PInv'
  <2>1. /\ \A d \in Conns : d # c => /\ socket'[d] = socket[d] /\ handler'[d] = handler[d]
                                     /\ phone'[d] = phone[d]
        /\ phone'[c] = p /\ phone[c] \notin Phones
        /\ UNCHANGED <<rpcs, listening, sockets, queue>>
    BY <1>5, NoPhoneIsNoPhone DEF Sound, TypeOK, Idle, Connect, broker
  <2>2. \A i \in DOMAIN rpcs' : /\ i \in Nat /\ i + 0 \in DOMAIN rpcs /\ rpcs'[i] = rpcs[i + 0]
                                /\ PhoneOf(i)' = PhoneOf(i + 0)
    BY <1>1, <2>1, CallerMade DEF PhoneOf
  <2>3. \A q \in Phones : sockets'[q] # NoConn => phone'[sockets'[q]] = q
    BY <1>1, <2>1
  <2> QED BY <1>1, <1>5, <2>1, <2>2, <2>3, Bystanders
<1>6. ASSUME phone[c] \in hasty, Refuse(c) \/ DecodeFails(c) PROVE PInv'
  <2>1. /\ \A d \in Conns : d # c => socket'[d] = socket[d] /\ handler'[d] = handler[d]
        /\ UNCHANGED <<phone, rpcs, listening, sockets, queue>>
    BY <1>6 DEF Sound, TypeOK, Refuse, DecodeFails, Closing, broker
  <2> QED BY <1>1, <1>2, <1>6, <2>1, Bystanders
<1>7. ASSUME phone[c] \in hasty, phone[c] \in Phones, Accept(c) PROVE PInv'
  <2>1. \E to \in Ops : Adds(c, to)
    BY <1>7, Names DEF Accept, Register, Replace, Await, Adds
  <2>2. /\ \A d \in Conns : phone[d] \notin hasty =>
               /\ socket'[d] = socket[d] /\ handler'[d] = handler[d]
               /\ (d \in listening' <=> d \in listening)
        /\ \A q \in Phones : /\ sockets'[q] \in {NoConn, c, sockets[q]}
                              /\ (q # phone[c] => sockets'[q] = sockets[q])
        /\ listening' \subseteq Conns
        /\ UNCHANGED <<phone, queue>>
    <3>1. CASE Register(c, rpcs) /\ UNCHANGED socket
      BY <1>1, <1>7, <3>1 DEF Sound, TypeOK, Accept, Register, Await, broker
    <3>2. ASSUME NEW old \in Conns, sockets[phone[c]] = old, Replace(c, old)
          PROVE  /\ \A d \in Conns : d # old => socket'[d] = socket[d]
                 /\ \A d \in Conns : d # c => handler'[d] = handler[d]
                 /\ listening' = listening \ {old}
                 /\ \A q \in Phones : sockets'[q] = IF q = phone[c] THEN NoConn ELSE sockets[q]
      BY <1>1, <1>7, <3>2 DEF Sound, TypeOK, Replace, Forget, Await, Closing
    <3>3. ASSUME NEW old \in Conns, sockets[phone[c]] = old PROVE phone[old] = phone[c]
      BY <1>1, <1>7, <3>3 DEF Conns
    <3>4. UNCHANGED <<phone, queue>>
      BY <1>7 DEF Accept, broker
    <3> QED BY <1>1, <1>7, <3>1, <3>2, <3>3, <3>4 DEF Accept
  <2>3. \A q \in Phones : sockets'[q] # NoConn => phone'[sockets'[q]] = q
    BY <1>1, <2>2
  <2> QED BY <1>3, <1>7, <2>1, <2>2, <2>3, Bystanders
<1>8. ASSUME phone[c] \in hasty, phone[c] \in Phones, Closed(c) PROVE PInv'
  <2>1. /\ \A d \in Conns : d # c => socket'[d] = socket[d] /\ (d \in listening' <=> d \in listening)
        /\ \A q \in Phones : /\ sockets'[q] \in {NoConn, sockets[q]}
                              /\ (q # phone[c] => sockets'[q] = sockets[q])
        /\ listening' \subseteq Conns
        /\ UNCHANGED <<phone, handler, queue>>
    BY <1>1, <1>8 DEF Sound, TypeOK, Closed, Forget, broker
  <2>2. UNCHANGED rpcs \/ Adds(c, "unbind")
    BY <1>8, <2>1 DEF Closed, Adds
  <2>3. \A i \in DOMAIN rpcs' :
            \/ PhoneOf(i)' \in hasty
            \/ /\ i \in Nat /\ i + 0 \in DOMAIN rpcs /\ rpcs'[i] = rpcs[i + 0]
               /\ PhoneOf(i)' = PhoneOf(i + 0)
    BY <1>2, <1>3, <1>8, <2>1, <2>2, Names
  <2> QED BY <1>1, <1>8, <2>1, <2>3, Bystanders
<1>9. ASSUME phone[c] \in hasty, phone[c] \in Phones, Answer(c) PROVE PInv'
  <2>1. \E from \in Ops, to \in Ops \cup {"none"} : Takes(c, from, to)
    <3>1. Dropped(c) => Takes(c, "drop", "assert")
      BY DEF Dropped, Register, Await, Takes
    <3>2. Deleted(c) => Takes(c, "delete", "none")
      BY DEF Deleted, Takes
    <3>3. Unbound(c) => Takes(c, "unbind", "delete") \/ Takes(c, "unbind", "none")
      BY Names DEF Unbound, Takes
    <3>4. ASSUME NEW op \in HandlerOps \ {"drop"}, Subscribe(c, op)
          PROVE  Takes(c, op, IF op = "consume" THEN "none" ELSE After(op)) /\ After(op) \in Ops \ {"none"}
      <4>1. After(op) \in Ops \ {"none"}
        BY Names DEF After
      <4> QED BY <3>4, <4>1 DEF Subscribe, Await, Takes
    <3>5. ASSUME NEW op \in HandlerOps, GiveUp(c, op) PROVE Takes(c, op, "none")
      BY <3>5 DEF GiveUp, Takes
    <3> QED BY <1>9, <3>1, <3>2, <3>3, <3>4, <3>5, Names DEF Answer, Ops
  <2>2. /\ \A d \in Conns : d # c => /\ socket'[d] = socket[d] /\ handler'[d] = handler[d]
                                     /\ (d \in listening' <=> d \in listening)
        /\ \A q \in Phones : /\ sockets'[q] \in {c, sockets[q]}
                              /\ (q # phone[c] => sockets'[q] = sockets[q])
                              /\ (q # phone[c] /\ "declared" \in queue[q] => "declared" \in queue'[q])
        /\ listening' \subseteq Conns
        /\ UNCHANGED phone
    <3>1. CASE Dropped(c)
      BY <1>1, <3>1 DEF Sound, TypeOK, Dropped, Register, DeleteQueue, Await
    <3>2. CASE Unbound(c) \/ Deleted(c)
      BY <1>1, <3>2 DEF Sound, TypeOK, Unbound, Deleted, DeleteQueue, broker
    <3>3. ASSUME NEW op \in HandlerOps, Subscribe(c, op) \/ GiveUp(c, op)
          PROVE  /\ \A d \in Conns : d # c => socket'[d] = socket[d] /\ handler'[d] = handler[d]
                 /\ \A q \in Phones : q # phone[c] /\ "declared" \in queue[q] => "declared" \in queue'[q]
                 /\ UNCHANGED <<phone, listening, sockets>>
      BY <3>3 DEF Sound, TypeOK, Subscribe, GiveUp, LoseChannel, Closing, Await
    <3> QED BY <1>1, <1>9, <3>1, <3>2, <3>3 DEF Answer
  <2>3. \A q \in Phones : sockets'[q] # NoConn => phone'[sockets'[q]] = q
    BY <1>1, <2>2
  <2> QED BY <1>4, <1>9, <2>1, <2>2, <2>3, Bystanders
<1>10. phone[c] \in hasty => phone[c] \in Phones
  BY HastyPhones DEF Sound, TypeOK
<1> QED BY <1>5, <1>6, <1>7, <1>8, <1>9, <1>10 DEF Decode

LEMMA PatientStep ==
  ASSUME Sound, PInv, [WNext]_<<vars, hasty>>
  PROVE  PInv'
<1>0. hasty' = hasty
  BY DEF WNext
<1>1. ASSUME UNCHANGED <<phone, rpcs, handler, socket, listening, sockets, queue>> PROVE PInv'
  <2>1. Deciding' = Deciding /\ Leaving' = Leaving /\ \A i : PhoneOf(i)' = PhoneOf(i)
    BY <1>0, <1>1 DEF Deciding, Leaving, PhoneOf
  <2> QED BY <1>0, <1>1, <2>1 DEF PInv, OneThing, OneEntry, OneCaller
<1>2. CASE UNCHANGED <<vars, hasty>>
  BY <1>1, <1>2 DEF vars
<1>3. ASSUME NEW c \in Conns, HangUp(c) PROVE PInv'
  BY <1>0, <1>3, PatientLeaves DEF HangUp, broker
<1>4. ASSUME Tick PROVE PInv'
  <2>1. \A p \in Silent : sockets[p] \in Conns /\ phone[sockets[p]] = p
    BY DEF Silent, Named, PInv, OneEntry, Sound, TypeOK
  <2>2. {sockets[p] : p \in Silent} \in SUBSET Conns
    BY <2>1
  <2>3. \A c \in {sockets[p] : p \in Silent} : MayAct(phone[c])
    BY <1>4, <2>1 DEF Tick
  <2> QED BY <1>0, <1>4, <2>2, <2>3, PatientLeaves DEF Tick, broker
<1>5. ASSUME NEW c \in Conns, Pong(c) PROVE PInv'
  BY <1>1, <1>5 DEF Pong, broker
<1>6. ASSUME NEW p \in Phones, Publish(p) \/ Forward(p) PROVE PInv'
  BY <1>1, <1>6 DEF Publish, Forward
<1>7. ASSUME NEW c \in Conns, phone[c] \notin hasty, Decode(c) \/ Closed(c) \/ Answer(c) PROVE PInv'
  BY <1>0, <1>7, PatientRefuse, PatientAccept, PatientClosed,
     PatientDropped, PatientLast, PatientSubscribe, PatientGiveUp DEF Decode, Answer
<1>8. ASSUME NEW c \in Conns, phone[c] \in hasty, Decode(c) \/ Closed(c) \/ Answer(c) PROVE PInv'
  BY <1>0, <1>8, HastyStep
<1>9. ASSUME NEW c \in Conns, NEW p \in Phones, Connect(c, p) PROVE PInv'
  BY <1>0, <1>9, PatientConnect, HastyStep
<1> QED BY <1>2, <1>3, <1>4, <1>5, <1>6, <1>7, <1>8, <1>9 DEF WNext, Next

LEMMA PatientInit == Init => PInv
<1> SUFFICES ASSUME Init PROVE PInv
  OBVIOUS
<1>1. Deciding = {} /\ Leaving = {} /\ DOMAIN rpcs = {}
  BY DEF Init, Deciding, Leaving
<1> QED BY <1>1 DEF Init, PInv, OneThing, OneEntry, OneCaller

\* For a phone that is not hasty the gateway has one thing under way at a time, one
\* entry and one caller of the channel, in every reachable state.
THEOREM PatientInvariant == Spec => []PInv
<1>1. WInv /\ PInv /\ [WNext]_<<vars, hasty>> => PInv'
  BY PatientStep DEF WInv, Sound
<1> QED BY <1>1, PatientInit, WInvariant, PTL DEF Spec, WNext

\* The broker never has to answer a bind or a consume of a queue that is not there,
\* but of a hasty phone: nothing deletes that of another in between.
THEOREM SurvivesPatient == Spec => ChannelSurvives
<1>1. WInv /\ PInv /\ [WNext]_<<vars, hasty>> =>
          [UNCHANGED channel \/ phone[Head(rpcs).conn] \in hasty]_vars
  <2> SUFFICES ASSUME WInv, PInv, WNext, channel' # channel
               PROVE  phone[Head(rpcs).conn] \in hasty
    BY DEF vars
  <2>1. PICK c \in Conns, op \in HandlerOps : GiveUp(c, op)
    BY DEF WNext, Next, Connect, HangUp, Pong, Decode, Refuse, DecodeFails, Accept, Closed, Tick,
           Publish, Forward, Answer, Dropped, Unbound, Deleted, Subscribe, broker
  <2>2. /\ 1 \in DOMAIN rpcs /\ rpcs[1] = [op |-> op, conn |-> c]
        /\ Head(rpcs) = [op |-> op, conn |-> c]
    BY <2>1, SMTT(30) DEF GiveUp, Asked, WInv, TypeOK
  <2>3. channel = "open" /\ op \in {"bind", "consume"} /\ "declared" \notin queue[phone[c]]
    BY <2>1 DEF GiveUp, Possible, LoseChannel, WInv, TypeOK
  <2>4. phone[c] \in hasty
    BY <2>2, <2>3 DEF PInv, OneCaller, PhoneOf
  <2> QED BY <2>2, <2>4
<1> QED BY <1>1, PatientInvariant, WInvariant, PTL DEF Spec, WNext, ChannelSurvives

\* Of several connections of a phone the one that is open and subscribed has the entry.
THEOREM ServedPatient == Spec => []OpenIsServed
<1>1. WInv /\ PInv => OpenIsServed
  <2> SUFFICES ASSUME WInv, PInv, NEW c \in Conns, phone[c] \notin hasty,
                      handler[c] = "subscribed", socket[c] = "open", Quiet(phone[c])
               PROVE  sockets[phone[c]] = c /\ (channel = "open" => Served(phone[c]))
    BY DEF OpenIsServed
  <2>1. sockets[phone[c]] = c /\ c # NoConn /\ phone[c] \in Phones
    BY DEF PInv, OneEntry, WInv, Made, Conns, NoConn
  <2> QED BY <2>1, QuietMatched
<1> QED BY <1>1, PatientInvariant, WInvariant, PTL
===============================================================================
