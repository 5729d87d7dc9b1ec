--------------------------- MODULE RedisPoolProofs --------------------------
(***************************************************************************)
(* Proofs about RedisPool, for any configuration file, any keys and their  *)
(* hashes, any number of processes, and any number of outages, lost        *)
(* replies and refused commands.                                           *)
(***************************************************************************)
EXTENDS RedisPool, TLAPS

Client == [server : Server, ctx : Context]
Location == {"init", "idle", "delete", "dead"}

\* Init: an entry whose server was reached points to a client of that server.
EntriesFollowConf(p) ==
  \A i \in DOMAIN pool[p] :
    i \notin unreached[p] =>
      /\ client[p][pool[p][i]].ctx # "freed"
      /\ client[p][pool[p][i]].server = confArray[i]

\* LoadConf and Init: every pool grows along the file, and a process that has left Init
\* has an entry for each server.
PoolsFollowConf ==
  /\ pool \in [Process -> Seq(Address)]
  /\ client \in [Process -> [Address -> Client]]
  /\ tried \in [Process -> Nat] /\ unreached \in [Process -> SUBSET Nat]
  /\ pc \in [Process -> Location]
  /\ \A p \in Process :
       /\ Len(pool[p]) = tried[p] /\ tried[p] <= Len(confArray)
       /\ pc[p] = "init" => tried[p] < Len(confArray)
       /\ pc[p] \in {"idle", "delete"} => tried[p] = Len(confArray)
       /\ EntriesFollowConf(p)

\* Connect: a connection without AUTH was refused by its server.
StatusKnown ==
  /\ refusals \in Nat /\ lost \in Nat
  /\ refusals = 0 => \A p \in Process : \A m \in Address : client[p][m].ctx # "noauth"

\* No server has refused a command, and all processes found the server of the lock.
Sound == refusals = 0 /\ \A p \in Process : Home(BCLock) \notin unreached[p]

\* deQueueAll: one process at a time holds elements, and they stay in the list until its
\* DEL; what was returned is in no list any more, and what was never pushed was not
\* returned.
TakenOnce ==
  /\ pushed \in 0..MaxPush
  /\ queue \in [Server -> SUBSET (1..pushed)] /\ taken \in [1..MaxPush -> Nat]
  /\ members \in [Process -> SUBSET (1..pushed)]
  /\ \A s, t \in Server : s # t => queue[s] \intersect queue[t] = {}
  /\ Sound =>
       /\ \A p, q \in Process : pc[p] = "delete" /\ pc[q] = "delete" => p = q
       /\ \A p \in Process : pc[p] = "delete" => members[p] \subseteq queue[ListAt(p)]
       /\ \A e \in 1..MaxPush : taken[e] <= 1
       /\ \A s \in Server : \A e \in queue[s] : taken[e] = 0
       /\ \A e \in 1..MaxPush : e > pushed => taken[e] = 0

RedisInv == PoolsFollowConf /\ StatusKnown /\ TakenOnce

-----------------------------------------------------------------------------
(* Dispatch and the commands *)

\* Dispatch: an index into a pool that is as long as the file.
LEMMA HomeIndex ==
  ASSUME NEW k \in Key
  PROVE  Home(k) \in 1..Len(confArray) /\ confArray[Home(k)] \in Server
<1>1. Len(confArray) \in Nat \ {0} /\ hash[k] \in Nat /\ confArray \in Seq(Server)
  BY PoolAssumption DEF confArray
<1>2. hash[k] % Len(confArray) \in 0..Len(confArray) - 1
  BY <1>1
<1>3. QED
  BY <1>1, <1>2 DEF Home

\* Dispatch: the client of a key, in a process that has left Init.
LEMMA ClientAt ==
  ASSUME PoolsFollowConf, NEW p \in Process, NEW k \in Key, pc[p] \in {"idle", "delete"}
  PROVE  /\ Dispatch(p, k) = Home(k) /\ Home(k) \in DOMAIN pool[p]
         /\ AddressOf(p, k) \in Address /\ AddressOf(p, k) = pool[p][Home(k)]
         /\ ClientOf(p, k) \in Client
         /\ Home(k) \notin unreached[p] =>
              ClientOf(p, k).ctx # "freed" /\ ClientOf(p, k).server = confArray[Home(k)]
<1>1. pool[p] \in Seq(Address) /\ Len(pool[p]) = Len(confArray)
  BY DEF PoolsFollowConf
<1>2. Dispatch(p, k) = Home(k)
  BY <1>1 DEF Dispatch, Home
<1>3. Home(k) \in DOMAIN pool[p]
  BY <1>1, HomeIndex
<1>4. AddressOf(p, k) \in Address /\ AddressOf(p, k) = pool[p][Home(k)]
  BY <1>1, <1>2, <1>3 DEF AddressOf
<1>5. QED
  BY <1>2, <1>3, <1>4 DEF ClientOf, PoolsFollowConf, EntriesFollowConf

\* A fault only counts.
LEMMA FaultCounts ==
  ASSUME StatusKnown, NEW r, Fault(r)
  PROVE  /\ refusals' \in Nat /\ lost' \in Nat /\ refusals' >= refusals
         /\ r = "error" => refusals' > 0
BY DEF StatusKnown, Fault

\* The clients of all processes keep their servers, and no live one is deleted.
ServersKept ==
  /\ client' \in [Process -> [Address -> Client]]
  /\ \A q \in Process, m \in Address :
       /\ client'[q][m].server = client[q][m].server
       /\ client'[q][m].ctx = "freed" <=> client[q][m].ctx = "freed"

\* RedisClient: whatever a command meets, every client keeps its server, and a command
\* that succeeds was executed, as long as no server has refused anything.
LEMMA CommandEffect ==
  ASSUME PoolsFollowConf, StatusKnown, NEW p \in Process, NEW k \in Key,
         NEW a \in Reply, NEW r \in Reply, NEW x \in BOOLEAN,
         pc[p] \in {"idle", "delete"}, Command(p, k, a, r, x)
  PROVE  /\ ServersKept /\ UNCHANGED <<pool, tried, unreached>>
         /\ refusals' >= refusals /\ StatusKnown'
         /\ \A op : refusals' = 0 /\ Succeeds(p, op, k, a, r) => Executed(p, k, a, r, x)
<1> DEFINE c == ClientOf(p, k)
           n == AddressOf(p, k)
           ctx == ContextFor(p, k, a)
           sent == Dispatched(p, k, a)
           reply == ReplyTo(p, k, a, r)
           left == IF sent THEN Disconnect(ctx, reply) ELSE ctx
<1>1. n \in Address /\ c = client[p][n] /\ c \in Client /\ c.ctx \in Context
  BY ClientAt DEF ClientOf, Client
<1>2. /\ c.ctx # "freed" /\ client' = [client EXCEPT ![p][n].ctx = left]
      /\ Fault(IF sent THEN r ELSE a) /\ UNCHANGED <<pool, tried, unreached>>
  BY DEF Command
<1>3. /\ ctx \in {"null", "open", "noauth", "broken"}
      /\ sent => ctx \in {"open", "noauth", "broken"}
      /\ sent \in BOOLEAN
  BY <1>1, <1>2 DEF ContextFor, Connect, Dispatched, Context
<1>4. ctx = "noauth" => c.ctx = "noauth" \/ (~sent /\ a = "error")
  BY <1>1 DEF ContextFor, Connect, Dispatched
<1>5. reply = IF sent THEN ReplyOn(ctx, r) ELSE "none"
  BY DEF ReplyTo
<1>6. /\ reply \in {"ok", "error", "none"}
      /\ reply = "ok" => sent /\ ctx = "open" /\ r = "ok"
      /\ reply = "error" => sent /\ (ctx = "noauth" \/ r = "error")
  <2>1. CASE ~sent
    BY <1>5, <2>1
  <2>2. CASE sent /\ ctx = "open"
    BY <1>5, <2>2, ReplyOn(ctx, r) = r DEF ReplyOn, Reply
  <2>3. CASE sent /\ ctx = "noauth"
    BY <1>5, <2>3, ReplyOn(ctx, r) = "error" DEF ReplyOn
  <2>4. CASE sent /\ ctx = "broken"
    BY <1>5, <2>4, ReplyOn(ctx, r) = "none" DEF ReplyOn
  <2>5. QED
    BY <1>3, <2>1, <2>2, <2>3, <2>4
<1>7. left \in Context \ {"freed"} /\ (left = "noauth" => ctx = "noauth")
  BY <1>3 DEF Disconnect, Context
<1>8. /\ refusals' \in Nat /\ lost' \in Nat /\ refusals' >= refusals
      /\ sent /\ r = "error" => refusals' > 0
      /\ ~sent /\ a = "error" => refusals' > 0
  BY <1>2, <1>3, FaultCounts
<1>9. refusals' = 0 => refusals = 0 /\ ctx # "noauth" /\ reply # "error"
  BY <1>1, <1>4, <1>6, <1>8 DEF StatusKnown
<1>10. ASSUME NEW op, refusals' = 0, Succeeds(p, op, k, a, r)
       PROVE  Executed(p, k, a, r, x)
  <2>1. reply # "none"
    BY <1>10, reply = "none" => StatusOK(op, reply) = FALSE DEF Succeeds, StatusOK
  <2>2. reply = "ok"
    BY <1>6, <1>9, <1>10, <2>1
  <2>3. QED
    BY <1>6, <2>2 DEF Executed
<1> HIDE DEF c, n, ctx, sent, reply, left
<1>11. /\ client' \in [Process -> [Address -> Client]]
       /\ \A q \in Process, m \in Address :
            /\ client'[q][m].server = client[q][m].server
            /\ client'[q][m].ctx = IF q = p /\ m = n THEN left ELSE client[q][m].ctx
  <2> DEFINE made == [client[p][n] EXCEPT !.ctx = left]
             mem == [client[p] EXCEPT ![n] = made]
  <2>1. made \in Client /\ made.server = client[p][n].server /\ made.ctx = left
    BY <1>1, <1>7 DEF Client
  <2>2. client' = [client EXCEPT ![p] = mem]
    BY <1>2
  <2> HIDE DEF made
  <2>3. mem \in [Address -> Client] /\ \A m \in Address : mem[m] = IF m = n THEN made ELSE client[p][m]
    BY <1>1, <2>1 DEF PoolsFollowConf
  <2> HIDE DEF mem
  <2>4. \A q \in Process : client'[q] = IF q = p THEN mem ELSE client[q]
    BY <2>2 DEF PoolsFollowConf
  <2>5. client' \in [Process -> [Address -> Client]]
    BY <2>2, <2>3 DEF PoolsFollowConf
  <2>6. QED
    BY <2>1, <2>3, <2>4, <2>5
<1>12. ServersKept
  BY <1>1, <1>2, <1>7, <1>11 DEF ServersKept
<1>13. refusals' = 0 => \A q \in Process : \A m \in Address : client'[q][m].ctx # "noauth"
  BY <1>7, <1>9, <1>11 DEF StatusKnown
<1>14. StatusKnown'
  BY <1>8, <1>13 DEF StatusKnown, Address, confArray
<1>15. QED
  BY <1>2, <1>8, <1>10, <1>12, <1>14

-----------------------------------------------------------------------------
(* The steps *)

\* A step that keeps the pools and the servers of their clients.
LEMMA PoolsKept ==
  ASSUME PoolsFollowConf, ServersKept, UNCHANGED <<pool, tried, unreached>>,
         pc' \in [Process -> Location],
         \A q \in Process : pc'[q] # pc[q] => pc'[q] = "dead" \/ pc[q] \in {"idle", "delete"},
         \A q \in Process : pc'[q] = "init" => pc[q] = "init"
  PROVE  /\ PoolsFollowConf'
         /\ \A q \in Process : pc[q] = "delete" => ListAt(q)' = ListAt(q)
<1>1. \A q \in Process :
        /\ Len(pool'[q]) = tried'[q] /\ tried'[q] <= Len(confArray)
        /\ pc'[q] = "init" => tried'[q] < Len(confArray)
        /\ pc'[q] \in {"idle", "delete"} => tried'[q] = Len(confArray)
  BY DEF PoolsFollowConf
<1>2. \A q \in Process : pool[q] \in Seq(Address) /\ \A i \in DOMAIN pool[q] : pool[q][i] \in Address
  BY DEF PoolsFollowConf
<1>3. ASSUME NEW q \in Process
      PROVE  EntriesFollowConf(q)'
  <2>1. ASSUME NEW i \in DOMAIN pool'[q], i \notin unreached'[q]
        PROVE  /\ client'[q][pool'[q][i]].ctx # "freed"
               /\ client'[q][pool'[q][i]].server = confArray[i]
    <3>1. PICK m \in Address : m = pool[q][i] /\ m = pool'[q][i]
      BY <1>2, <2>1
    <3>2. client[q][m].ctx # "freed" /\ client[q][m].server = confArray[i]
      BY <2>1, <3>1 DEF PoolsFollowConf, EntriesFollowConf
    <3>3. QED
      BY <3>1, <3>2 DEF ServersKept
  <2>2. QED
    BY <2>1 DEF EntriesFollowConf, confArray
<1>4. PoolsFollowConf'
  BY <1>1, <1>3 DEF PoolsFollowConf, ServersKept, confArray, Address
<1>5. ASSUME NEW q \in Process, pc[q] = "delete"
      PROVE  ListAt(q)' = ListAt(q)
  <2>1. txPoolKey \in Key
    BY PoolAssumption
  <2>2. AddressOf(q, txPoolKey) \in Address
    BY <1>5, <2>1, ClientAt
  <2>3. AddressOf(q, txPoolKey)' = AddressOf(q, txPoolKey)
    BY DEF AddressOf, Dispatch
  <2>4. QED
    BY <2>2, <2>3 DEF ListAt, ClientOf, ServersKept
<1>6. QED
  BY <1>4, <1>5

\* A step that leaves the lists, their elements and who holds them alone.
LEMMA ListKept ==
  ASSUME TakenOnce, UNCHANGED <<queue, members, pushed, taken>>, Sound' => Sound,
         \A q \in Process : pc'[q] = "delete" => pc[q] = "delete" /\ ListAt(q)' = ListAt(q)
  PROVE  TakenOnce'
<1>1. Sound' =>
        /\ \A p, q \in Process : pc'[p] = "delete" /\ pc'[q] = "delete" => p = q
        /\ \A p \in Process : pc'[p] = "delete" => members'[p] \subseteq queue'[ListAt(p)']
        /\ \A e \in 1..MaxPush : taken'[e] <= 1
        /\ \A s \in Server : \A e \in queue'[s] : taken'[e] = 0
        /\ \A e \in 1..MaxPush : e > pushed' => taken'[e] = 0
  BY DEF TakenOnce
<1>2. QED
  BY <1>1 DEF TakenOnce

\* push_back of a pointer.
LEMMA AppendFacts ==
  ASSUME NEW S, NEW q \in Seq(S), NEW e \in S
  PROVE  /\ Append(q, e) \in Seq(S) /\ Len(Append(q, e)) = Len(q) + 1
         /\ DOMAIN q = 1..Len(q) /\ DOMAIN Append(q, e) = 1..Len(q) + 1
         /\ \A i \in 1..Len(q) : Append(q, e)[i] = q[i]
         /\ Append(q, e)[Len(q) + 1] = e
         /\ Append(q, e) # <<>>
OBVIOUS

\* Init: the next entry points to a client of the next server of the file, or that
\* server is unreached; the memory it takes is that of no live client.
LEMMA InitClientStep ==
  ASSUME RedisInv, NEW p \in Process, NEW a \in Reply, NEW m \in Address, InitClient(p, a, m)
  PROVE  RedisInv'
<1> DEFINE n == tried[p] + 1
           s == confArray[n]
           ctx == Connect(s, a)
           made == [server |-> s, ctx |-> IF ctx = "open" THEN ctx ELSE "freed"]
           mem == [client[p] EXCEPT ![m] = made]
           longer == Append(pool[p], m)
           missing == IF ctx = "open" THEN unreached[p] ELSE unreached[p] \union {n}
<1>1. /\ pc[p] = "init" /\ Fault(a) /\ InitNext(p) /\ client[p][m].ctx = "freed"
      /\ pool' = [pool EXCEPT ![p] = longer]
      /\ client' = [client EXCEPT ![p] = mem]
      /\ unreached' = [unreached EXCEPT ![p] = missing]
  BY DEF InitClient, Available, Made, Reached
<1>2. /\ tried[p] \in Nat /\ tried[p] < Len(confArray) /\ Len(confArray) \in Nat
      /\ pool[p] \in Seq(Address) /\ Len(pool[p]) = tried[p] /\ confArray \in Seq(Server)
      /\ client[p] \in [Address -> Client] /\ unreached[p] \subseteq Nat
  BY <1>1, PoolAssumption DEF RedisInv, PoolsFollowConf, confArray
<1>3. s \in Server /\ n \in Nat
  BY <1>2
<1>4. /\ made \in Client /\ made.server = s /\ made.ctx # "noauth"
      /\ n \notin missing => made.ctx # "freed"
      /\ missing \subseteq Nat /\ unreached[p] \subseteq missing
  BY <1>2, <1>3 DEF Client, Context
<1>5. /\ longer \in Seq(Address) /\ Len(longer) = n /\ longer # <<>>
      /\ \A i \in 1..tried[p] : longer[i] = pool[p][i]
      /\ longer[n] = m
      /\ DOMAIN longer = 1..n /\ DOMAIN pool[p] = 1..tried[p]
  BY <1>2, AppendFacts
<1> HIDE DEF made
<1>6. mem \in [Address -> Client] /\ \A j \in Address : mem[j] = IF j = m THEN made ELSE client[p][j]
  BY <1>2, <1>4
<1> HIDE DEF mem, longer, missing
<1>7. /\ \A q \in Process :
           /\ pool'[q] = IF q = p THEN longer ELSE pool[q]
           /\ client'[q] = IF q = p THEN mem ELSE client[q]
           /\ unreached'[q] = IF q = p THEN missing ELSE unreached[q]
      /\ pool' \in [Process -> Seq(Address)] /\ client' \in [Process -> [Address -> Client]]
      /\ unreached' \in [Process -> SUBSET Nat]
  BY <1>1, <1>4, <1>5, <1>6 DEF RedisInv, PoolsFollowConf
<1>8. /\ \A q \in Process : tried'[q] = IF q = p THEN n ELSE tried[q]
      /\ tried' \in [Process -> Nat]
  BY <1>1, <1>2 DEF RedisInv, PoolsFollowConf, InitNext
<1>9. /\ pc'[p] = IF n < Len(confArray) THEN "init" ELSE "idle"
      /\ \A q \in Process : q # p => pc'[q] = pc[q]
      /\ pc' \in [Process -> Location]
  BY <1>1, <1>5, <1>7, <1>8 DEF RedisInv, PoolsFollowConf, InitNext, Location
<1>10. PoolsFollowConf'
  <2>1. ASSUME NEW q \in Process
        PROVE  /\ Len(pool'[q]) = tried'[q] /\ tried'[q] <= Len(confArray)
               /\ pc'[q] = "init" => tried'[q] < Len(confArray)
               /\ pc'[q] \in {"idle", "delete"} => tried'[q] = Len(confArray)
    <3>1. CASE q = p
      BY <1>2, <1>5, <1>7, <1>8, <1>9, <3>1
    <3>2. CASE q # p
      <4>1. pool'[q] = pool[q] /\ tried'[q] = tried[q] /\ pc'[q] = pc[q]
        BY <1>7, <1>8, <1>9, <3>2
      <4>2. QED
        BY <4>1 DEF RedisInv, PoolsFollowConf
    <3>3. QED
      BY <3>1, <3>2
  <2>2. ASSUME NEW i \in 1..n, i \notin missing
        PROVE  mem[longer[i]].ctx # "freed" /\ mem[longer[i]].server = confArray[i]
    <3>1. CASE i = n
      BY <1>4, <1>5, <1>6, <2>2, <3>1
    <3>2. CASE i # n
      <4>1. i \in DOMAIN pool[p] /\ longer[i] = pool[p][i] /\ i \notin unreached[p]
        BY <1>2, <1>4, <1>5, <2>2, <3>2
      <4>2. PICK j \in Address : j = pool[p][i]
        BY <1>2, <4>1
      <4>3. client[p][j].ctx # "freed" /\ client[p][j].server = confArray[i]
        BY <4>1, <4>2 DEF RedisInv, PoolsFollowConf, EntriesFollowConf
      <4>4. QED
        BY <1>1, <1>6, <4>1, <4>2, <4>3
    <3>3. QED
      BY <3>1, <3>2
  <2>3. ASSUME NEW q \in Process
        PROVE  EntriesFollowConf(q)'
    <3>1. CASE q = p
      <4>1. pool'[q] = longer /\ client'[q] = mem /\ unreached'[q] = missing
        BY <1>7, <3>1
      <4>2. QED
        BY <1>5, <2>2, <4>1 DEF EntriesFollowConf, confArray
    <3>2. CASE q # p
      <4>1. pool'[q] = pool[q] /\ client'[q] = client[q] /\ unreached'[q] = unreached[q]
        BY <1>7, <3>2
      <4>2. EntriesFollowConf(q)
        BY DEF RedisInv, PoolsFollowConf
      <4>3. QED
        BY <4>1, <4>2 DEF EntriesFollowConf, confArray
    <3>3. QED
      BY <3>1, <3>2
  <2>4. QED
    BY <1>7, <1>8, <1>9, <2>1, <2>3 DEF PoolsFollowConf, confArray, Address
<1>11. /\ refusals' \in Nat /\ lost' \in Nat /\ refusals' >= refusals
  BY <1>1, FaultCounts DEF RedisInv
<1>12. StatusKnown'
  <2>1. ASSUME refusals' = 0, NEW q \in Process, NEW j \in Address
        PROVE  client'[q][j].ctx # "noauth"
    <3>1. client[q][j].ctx # "noauth" /\ client[p][j].ctx # "noauth"
      BY <1>1, <1>11, <2>1 DEF RedisInv, StatusKnown
    <3>2. CASE q = p
      <4>1. client'[q] = mem
        BY <1>7, <3>2
      <4>2. QED
        BY <1>4, <1>6, <1>11, <2>1, <3>1, <4>1 DEF RedisInv, StatusKnown
    <3>3. CASE q # p
      BY <1>7, <3>1, <3>3
    <3>4. QED
      BY <3>2, <3>3
  <2>2. QED
    BY <1>11, <2>1 DEF StatusKnown, Address, confArray
<1>13. Sound' => Sound
  BY <1>4, <1>7, <1>11 DEF RedisInv, StatusKnown, Sound, Home, confArray
<1>14. UNCHANGED <<queue, members, pushed, taken>>
  BY <1>1 DEF InitNext
<1>15. \A q \in Process : pc'[q] = "delete" => pc[q] = "delete" /\ q # p
  BY <1>9
<1>16. \A q \in Process : q # p => ListAt(q)' = ListAt(q)
  BY <1>7 DEF ListAt, ClientOf, AddressOf, Dispatch
<1>17. TakenOnce'
  BY <1>13, <1>14, <1>15, <1>16, ListKept DEF RedisInv
<1>18. QED
  BY <1>10, <1>12, <1>17 DEF RedisInv

\* A deleted client: the call fails, the process dies, or memory that no reached entry
\* points to passes for a client.
LEMMA UseFreedStep ==
  ASSUME RedisInv, NEW p \in Process, NEW k \in Key, UseFreed(p, k)
  PROVE  RedisInv'
<1> DEFINE n == AddressOf(p, k)
<1>1. /\ pc[p] = "idle" /\ ClientOf(p, k).ctx = "freed"
      /\ pc' \in {pc, [pc EXCEPT ![p] = "dead"]}
      /\ UNCHANGED <<queue, pool, tried, unreached, members, pushed, taken, refusals, lost>>
  BY DEF UseFreed, counters, Idle
<1>2. n \in Address /\ client[p][n].ctx = "freed"
  BY <1>1, ClientAt DEF RedisInv, ClientOf
<1>3. /\ client' \in [Process -> [Address -> Client]]
      /\ \A q \in Process, m \in Address :
           /\ client'[q][m] # client[q][m] => q = p /\ client[q][m].ctx = "freed"
           /\ client'[q][m].ctx = "noauth" => client[q][m].ctx = "noauth"
  <2>1. CASE UNCHANGED client
    BY <2>1 DEF RedisInv, PoolsFollowConf
  <2>2. ASSUME NEW s \in Server, client' = [client EXCEPT ![p][n] = [server |-> s, ctx |-> "null"]]
        PROVE  /\ client' \in [Process -> [Address -> Client]]
               /\ \A q \in Process, m \in Address :
                    /\ client'[q][m] # client[q][m] => q = p /\ client[q][m].ctx = "freed"
                    /\ client'[q][m].ctx = "noauth" => client[q][m].ctx = "noauth"
    <3> DEFINE made == [server |-> s, ctx |-> "null"]
               mem == [client[p] EXCEPT ![n] = made]
    <3>1. made \in Client /\ made.ctx = "null"
      BY DEF Client, Context
    <3>2. client' = [client EXCEPT ![p] = mem]
      BY <2>2
    <3> HIDE DEF made
    <3>3. mem \in [Address -> Client] /\ \A m \in Address : mem[m] = IF m = n THEN made ELSE client[p][m]
      BY <1>2, <3>1 DEF RedisInv, PoolsFollowConf
    <3> HIDE DEF mem
    <3>4. /\ \A q \in Process : client'[q] = IF q = p THEN mem ELSE client[q]
          /\ client' \in [Process -> [Address -> Client]]
      BY <3>2, <3>3 DEF RedisInv, PoolsFollowConf
    <3> HIDE DEF n
    <3>5. QED
      BY <1>2, <3>1, <3>3, <3>4
  <2>3. QED
    BY <2>1, <2>2 DEF UseFreed
<1>4. /\ pc' \in [Process -> Location]
      /\ \A q \in Process : pc'[q] = IF q = p THEN pc'[p] ELSE pc[q]
      /\ pc'[p] \in {"idle", "dead"}
  BY <1>1 DEF RedisInv, PoolsFollowConf, Location
<1>5. PoolsFollowConf'
  <2>1. ASSUME NEW q \in Process
        PROVE  EntriesFollowConf(q)'
    <3>1. ASSUME NEW i \in DOMAIN pool'[q], i \notin unreached'[q]
          PROVE  /\ client'[q][pool'[q][i]].ctx # "freed"
                 /\ client'[q][pool'[q][i]].server = confArray[i]
      <4>1. PICK m \in Address : m = pool[q][i] /\ m = pool'[q][i]
        BY <1>1, <3>1 DEF RedisInv, PoolsFollowConf
      <4>2. client[q][m].ctx # "freed" /\ client[q][m].server = confArray[i]
        BY <1>1, <3>1, <4>1 DEF RedisInv, PoolsFollowConf, EntriesFollowConf
      <4>3. QED
        BY <1>3, <4>1, <4>2
    <3>2. QED
      BY <3>1 DEF EntriesFollowConf, confArray
  <2>2. ASSUME NEW q \in Process
        PROVE  /\ Len(pool'[q]) = tried'[q] /\ tried'[q] <= Len(confArray)
               /\ pc'[q] = "init" => tried'[q] < Len(confArray)
               /\ pc'[q] \in {"idle", "delete"} => tried'[q] = Len(confArray)
    BY <1>1, <1>4 DEF RedisInv, PoolsFollowConf
  <2>3. QED
    BY <1>1, <1>3, <1>4, <2>1, <2>2 DEF RedisInv, PoolsFollowConf, confArray, Address
<1>6. StatusKnown'
  BY <1>1, <1>3 DEF RedisInv, StatusKnown, Address, confArray
<1>7. \A q \in Process : pc'[q] = "delete" => pc[q] = "delete" /\ q # p
  BY <1>4
<1>8. ASSUME NEW q \in Process, pc[q] = "delete", q # p
      PROVE  ListAt(q)' = ListAt(q)
  <2>1. AddressOf(q, txPoolKey) \in Address
    BY <1>8, ClientAt, PoolAssumption DEF RedisInv
  <2>2. AddressOf(q, txPoolKey)' = AddressOf(q, txPoolKey)
    BY <1>1 DEF AddressOf, Dispatch
  <2>3. QED
    BY <1>3, <1>8, <2>1, <2>2 DEF ListAt, ClientOf
<1>9. TakenOnce'
  BY <1>1, <1>7, <1>8, ListKept DEF RedisInv, Sound, Home, confArray
<1>10. QED
  BY <1>5, <1>6, <1>9 DEF RedisInv

\* Locked: where all processes found the server of the lock it keeps the others out.
LEMMA LockExcludes ==
  ASSUME PoolsFollowConf, Sound, NEW p \in Process, pc[p] = "idle", Locked(p)
  PROVE  \A q \in Process : pc[q] # "delete"
<1>1. ASSUME NEW q \in Process, pc[q] = "delete"
      PROVE  FALSE
  <2>1. BCLock \in Key /\ Home(BCLock) \notin unreached[p] /\ Home(BCLock) \notin unreached[q]
    BY PoolAssumption DEF Sound
  <2>2. ClientOf(q, BCLock).server = ClientOf(p, BCLock).server
    BY <1>1, <2>1, ClientAt
  <2>3. QED
    BY <1>1, <2>2 DEF Locked
<1>2. QED
  BY <1>1

\* The server of the list, for a process that has left Init.
LEMMA ListAtServer ==
  ASSUME PoolsFollowConf, NEW p \in Process, pc[p] \in {"idle", "delete"}
  PROVE  ListAt(p) \in Server
<1>1. ClientOf(p, txPoolKey) \in Client
  BY ClientAt, PoolAssumption
<1>2. QED
  BY <1>1 DEF ListAt, Client

\* A step of one process that is no part of Init: what it keeps of pools and counters.
LEMMA CommandFrame ==
  ASSUME RedisInv, NEW p \in Process, NEW k \in Key, NEW a \in Reply, NEW r \in Reply,
         NEW x \in BOOLEAN, pc[p] \in {"idle", "delete"}, Command(p, k, a, r, x),
         NEW l \in {"idle", "delete"}, pc' = [pc EXCEPT ![p] = l]
  PROVE  /\ PoolsFollowConf' /\ StatusKnown' /\ (Sound' => Sound)
         /\ \A q \in Process : pc[q] = "delete" => ListAt(q)' = ListAt(q)
         /\ ListAt(p)' = ListAt(p)
         /\ \A q \in Process : pc'[q] = IF q = p THEN l ELSE pc[q]
         /\ \A op : Sound' /\ Succeeds(p, op, k, a, r) => Executed(p, k, a, r, x)
<1>1. /\ ServersKept /\ UNCHANGED <<pool, tried, unreached>>
      /\ refusals' >= refusals /\ StatusKnown'
      /\ \A op : refusals' = 0 /\ Succeeds(p, op, k, a, r) => Executed(p, k, a, r, x)
  BY CommandEffect DEF RedisInv
<1>2. /\ pc' \in [Process -> Location] /\ \A q \in Process : pc'[q] = IF q = p THEN l ELSE pc[q]
  BY DEF RedisInv, PoolsFollowConf, Location
<1>3. /\ PoolsFollowConf'
      /\ \A q \in Process : pc[q] = "delete" => ListAt(q)' = ListAt(q)
  BY <1>1, <1>2, PoolsKept DEF RedisInv
<1>4. Sound' => Sound /\ refusals' = 0
  BY <1>1 DEF RedisInv, StatusKnown, Sound, Home, confArray
<1>5. ListAt(p)' = ListAt(p)
  <2>1. AddressOf(p, txPoolKey) \in Address
    BY ClientAt, PoolAssumption DEF RedisInv
  <2>2. AddressOf(p, txPoolKey)' = AddressOf(p, txPoolKey)
    BY <1>1 DEF AddressOf, Dispatch
  <2>3. QED
    BY <1>1, <2>1, <2>2 DEF ListAt, ClientOf, ServersKept
<1>6. QED
  BY <1>1, <1>2, <1>3, <1>4, <1>5

\* Get, and the other commands that leave the list alone.
LEMMA GetStep ==
  ASSUME RedisInv, NEW p \in Process, NEW k \in Key, NEW a \in Reply, NEW r \in Reply,
         Get(p, k, a, r)
  PROVE  RedisInv'
<1>1. /\ pc[p] = "idle" /\ Command(p, k, a, r, FALSE)
      /\ UNCHANGED <<queue, pc, members, pushed, taken>>
  BY DEF Get, Idle
<1>2. pc' = [pc EXCEPT ![p] = "idle"]
  BY <1>1 DEF RedisInv, PoolsFollowConf
<1>3. /\ PoolsFollowConf' /\ StatusKnown' /\ (Sound' => Sound)
      /\ \A q \in Process : pc[q] = "delete" => ListAt(q)' = ListAt(q)
  BY <1>1, <1>2, CommandFrame
<1>4. TakenOnce'
  BY <1>1, <1>3, ListKept DEF RedisInv
<1>5. QED
  BY <1>3, <1>4 DEF RedisInv

\* enQueue: a new element in one list, if the server executes the command.
LEMMA EnQueueStep ==
  ASSUME RedisInv, NEW p \in Process, NEW a \in Reply, NEW r \in Reply, NEW x \in BOOLEAN,
         EnQueue(p, a, r, x)
  PROVE  RedisInv'
<1> DEFINE done == Executed(p, txPoolKey, a, r, x)
           l == ListAt(p)
<1>1. /\ pc[p] = "idle" /\ Command(p, txPoolKey, a, r, x)
      /\ pushed < MaxPush /\ pushed' = pushed + 1
      /\ queue' = [queue EXCEPT ![l] = IF done THEN @ \union {pushed'} ELSE @]
      /\ UNCHANGED <<pc, members, taken>>
  BY DEF EnQueue, Idle
<1>2. txPoolKey \in Key /\ MaxPush \in Nat /\ l \in Server
  BY <1>1, PoolAssumption, ListAtServer DEF RedisInv
<1>3. pc' = [pc EXCEPT ![p] = "idle"]
  BY <1>1 DEF RedisInv, PoolsFollowConf
<1> HIDE DEF done, l
<1>4. /\ PoolsFollowConf' /\ StatusKnown' /\ (Sound' => Sound)
      /\ \A q \in Process : pc[q] = "delete" => ListAt(q)' = ListAt(q)
  <2>1. PICK k \in Key : k = txPoolKey
    BY <1>2
  <2>2. Command(p, k, a, r, x) /\ pc[p] \in {"idle", "delete"}
    BY <1>1, <2>1
  <2>3. QED
    BY <1>3, <2>2, CommandFrame
<1>5. /\ pushed \in Nat /\ pushed' \in 0..MaxPush /\ pushed' = pushed + 1
      /\ 1..pushed \subseteq 1..pushed' /\ pushed' \in 1..MaxPush /\ pushed' \notin 1..pushed
  BY <1>1, <1>2 DEF RedisInv, TakenOnce
<1> DEFINE grown == IF done THEN queue[l] \union {pushed'} ELSE queue[l]
<1>6. /\ \A s \in Server : queue'[s] = IF s = l THEN grown ELSE queue[s]
      /\ queue' = [queue EXCEPT ![l] = grown]
  BY <1>1, <1>2 DEF RedisInv, TakenOnce
<1>7. queue[l] \subseteq grown /\ grown \subseteq queue[l] \union {pushed'}
  OBVIOUS
<1> HIDE DEF grown
<1>8. \A s \in Server : queue[s] \subseteq 1..pushed
  BY DEF RedisInv, TakenOnce
<1>9. queue' \in [Server -> SUBSET (1..pushed')]
  <2>1. grown \subseteq 1..pushed'
    BY <1>2, <1>5, <1>7, <1>8
  <2>2. queue \in [Server -> SUBSET (1..pushed')]
    BY <1>5 DEF RedisInv, TakenOnce
  <2>3. QED
    BY <1>6, <2>1, <2>2
<1>10. members' \in [Process -> SUBSET (1..pushed')]
  BY <1>1, <1>5 DEF RedisInv, TakenOnce
<1>11. \A s, t \in Server : s # t => queue'[s] \intersect queue'[t] = {}
  <2>1. \A s \in Server : pushed' \notin queue[s]
    BY <1>5, <1>8
  <2>2. \A s, t \in Server : s # t => queue[s] \intersect queue[t] = {}
    BY DEF RedisInv, TakenOnce
  <2>3. QED
    BY <1>2, <1>6, <1>7, <2>1, <2>2
<1>12. ASSUME Sound'
       PROVE  /\ \A q, t \in Process : pc'[q] = "delete" /\ pc'[t] = "delete" => q = t
              /\ \A q \in Process : pc'[q] = "delete" => members'[q] \subseteq queue'[ListAt(q)']
              /\ \A e \in 1..MaxPush : taken'[e] <= 1
              /\ \A s \in Server : \A e \in queue'[s] : taken'[e] = 0
              /\ \A e \in 1..MaxPush : e > pushed' => taken'[e] = 0
  <2>1. /\ \A q, t \in Process : pc[q] = "delete" /\ pc[t] = "delete" => q = t
        /\ \A q \in Process : pc[q] = "delete" => members[q] \subseteq queue[ListAt(q)]
        /\ \A e \in 1..MaxPush : taken[e] <= 1
        /\ \A s \in Server : \A e \in queue[s] : taken[e] = 0
        /\ \A e \in 1..MaxPush : e > pushed => taken[e] = 0
    BY <1>4, <1>12 DEF RedisInv, TakenOnce
  <2>2. taken[pushed'] = 0
    BY <1>5, <2>1
  <2>3. \A s \in Server : \A e \in queue'[s] : taken[e] = 0
    BY <1>2, <1>6, <1>7, <2>1, <2>2
  <2>4. \A s \in Server : queue[s] \subseteq queue'[s]
    BY <1>6, <1>7
  <2>5. ASSUME NEW q \in Process, pc'[q] = "delete"
        PROVE  members'[q] \subseteq queue'[ListAt(q)']
    <3>1. pc[q] = "delete" /\ ListAt(q)' = ListAt(q) /\ ListAt(q) \in Server
      BY <1>1, <1>4, <2>5, ListAtServer DEF RedisInv
    <3>2. QED
      BY <1>1, <2>1, <2>4, <3>1
  <2>6. QED
    BY <1>1, <1>5, <2>1, <2>3, <2>5
<1>13. TakenOnce'
  BY <1>1, <1>5, <1>9, <1>10, <1>11, <1>12 DEF RedisInv, TakenOnce
<1>14. QED
  BY <1>4, <1>13 DEF RedisInv

\* deQueueAll, its LRANGE: what the process holds is what the list has.
LEMMA DeQueueAllStep ==
  ASSUME RedisInv, NEW p \in Process, NEW a \in Reply, NEW r \in Reply, DeQueueAll(p, a, r)
  PROVE  RedisInv'
<1> DEFINE done == Executed(p, txPoolKey, a, r, FALSE)
           next == IF Succeeds(p, "LRANGE", txPoolKey, a, r) THEN "delete" ELSE "idle"
           l == ListAt(p)
<1>1. /\ pc[p] = "idle" /\ Command(p, txPoolKey, a, r, FALSE) /\ Locked(p)
      /\ members' = [members EXCEPT ![p] = IF done THEN queue[l] ELSE {}]
      /\ pc' = [pc EXCEPT ![p] = next]
      /\ UNCHANGED <<queue, pushed, taken>>
  BY DEF DeQueueAll, Idle
<1>2. txPoolKey \in Key /\ next \in {"idle", "delete"} /\ l \in Server
  BY <1>1, PoolAssumption, ListAtServer DEF RedisInv
<1> HIDE DEF next
<1>3. /\ PoolsFollowConf' /\ StatusKnown' /\ (Sound' => Sound)
      /\ \A q \in Process : pc[q] = "delete" => ListAt(q)' = ListAt(q)
      /\ ListAt(p)' = l
      /\ \A q \in Process : pc'[q] = IF q = p THEN next ELSE pc[q]
  BY <1>1, <1>2, CommandFrame
<1> HIDE DEF done, l
<1>4. members'[p] \subseteq queue[l] /\ members' \in [Process -> SUBSET (1..pushed)]
  BY <1>1, <1>2 DEF RedisInv, TakenOnce
<1>5. Sound' => \A q \in Process : pc'[q] = "delete" => q = p
  BY <1>1, <1>3, LockExcludes DEF RedisInv
<1>6. Sound' => \A q \in Process : pc'[q] = "delete" => members'[q] \subseteq queue[ListAt(q)']
  BY <1>3, <1>4, <1>5
<1>7. Sound' =>
        /\ \A q, t \in Process : pc'[q] = "delete" /\ pc'[t] = "delete" => q = t
        /\ \A e \in 1..MaxPush : taken[e] <= 1
        /\ \A s \in Server : \A e \in queue[s] : taken[e] = 0
        /\ \A e \in 1..MaxPush : e > pushed => taken[e] = 0
  BY <1>3, <1>5 DEF RedisInv, TakenOnce
<1>8. TakenOnce'
  BY <1>1, <1>4, <1>6, <1>7 DEF RedisInv, TakenOnce
<1>9. QED
  BY <1>3, <1>8 DEF RedisInv

\* deQueueAll, its DEL: elements are returned only when the list has been deleted.
LEMMA DeQueueDeleteStep ==
  ASSUME RedisInv, NEW p \in Process, NEW a \in Reply, NEW r \in Reply, NEW x \in BOOLEAN,
         DeQueueDelete(p, a, r, x)
  PROVE  RedisInv'
<1> DEFINE done == Executed(p, txPoolKey, a, r, x)
           ok == Succeeds(p, "DEL", txPoolKey, a, r)
           l == ListAt(p)
<1>1. /\ pc[p] = "delete" /\ Command(p, txPoolKey, a, r, x)
      /\ queue' = [queue EXCEPT ![l] = IF done THEN {} ELSE @]
      /\ taken' = [e \in 1..MaxPush |-> taken[e] + IF ok /\ e \in members[p] THEN 1 ELSE 0]
      /\ members' = [members EXCEPT ![p] = {}] /\ pc' = [pc EXCEPT ![p] = "idle"]
      /\ UNCHANGED pushed
  BY DEF DeQueueDelete
<1>2. txPoolKey \in Key /\ MaxPush \in Nat /\ l \in Server
  BY <1>1, PoolAssumption, ListAtServer DEF RedisInv
<1>3. /\ PoolsFollowConf' /\ StatusKnown' /\ (Sound' => Sound)
      /\ \A q \in Process : pc'[q] = IF q = p THEN "idle" ELSE pc[q]
      /\ Sound' /\ ok => done
  BY <1>1, <1>2, CommandFrame
<1> HIDE DEF done, ok, l
<1>4. \A s \in Server : queue'[s] = IF s = l /\ done THEN {} ELSE queue[s]
  BY <1>1, <1>2 DEF RedisInv, TakenOnce
<1>5. /\ queue' \in [Server -> SUBSET (1..pushed)]
      /\ \A s, t \in Server : s # t => queue'[s] \intersect queue'[t] = {}
  BY <1>1, <1>4 DEF RedisInv, TakenOnce
<1>6. members' \in [Process -> SUBSET (1..pushed)]
  BY <1>1 DEF RedisInv, TakenOnce
<1>7. \A e \in 1..MaxPush :
        /\ taken[e] \in Nat
        /\ taken'[e] = IF ok /\ e \in members[p] THEN taken[e] + 1 ELSE taken[e]
  <2>1. taken \in [1..MaxPush -> Nat]
    BY DEF RedisInv, TakenOnce
  <2>2. ASSUME NEW e \in 1..MaxPush
        PROVE  /\ taken[e] \in Nat
               /\ taken'[e] = IF ok /\ e \in members[p] THEN taken[e] + 1 ELSE taken[e]
    <3>1. taken[e] \in Nat
      BY <2>1
    <3>2. taken'[e] = taken[e] + (IF ok /\ e \in members[p] THEN 1 ELSE 0)
      BY <1>1
    <3>3. QED
      BY <3>1, <3>2
  <2>3. QED
    BY <2>2
<1>8. taken' \in [1..MaxPush -> Nat]
  BY <1>1, <1>7
<1>9. ASSUME Sound'
      PROVE  /\ \A q \in Process : pc'[q] # "delete"
             /\ \A e \in 1..MaxPush : taken'[e] <= 1
             /\ \A s \in Server : \A e \in queue'[s] : taken'[e] = 0
             /\ \A e \in 1..MaxPush : e > pushed => taken'[e] = 0
  <2>1. /\ \A q, t \in Process : pc[q] = "delete" /\ pc[t] = "delete" => q = t
        /\ members[p] \subseteq queue[l]
        /\ \A e \in 1..MaxPush : taken[e] <= 1
        /\ \A s \in Server : \A e \in queue[s] : taken[e] = 0
        /\ \A e \in 1..MaxPush : e > pushed => taken[e] = 0
        /\ \A s \in Server : queue[s] \subseteq 1..pushed
        /\ \A s, t \in Server : s # t => queue[s] \intersect queue[t] = {}
        /\ pushed \in 0..MaxPush
    BY <1>1, <1>3, <1>9 DEF RedisInv, TakenOnce, l
  <2>2. \A s \in Server : \A e \in queue[s] : e \in 1..MaxPush /\ e \in 1..pushed
    BY <1>2, <2>1
  <2>3. \A e \in 1..MaxPush : taken'[e] <= 1
    BY <1>2, <1>7, <2>1
  <2>4. \A e \in 1..MaxPush : e > pushed => taken'[e] = 0
    <3>1. \A e \in members[p] : e \in 1..pushed
      BY <1>2, <2>1, <2>2
    <3>2. QED
      BY <1>7, <2>1, <3>1
  <2>5. ASSUME NEW s \in Server, NEW e \in queue'[s]
        PROVE  taken'[e] = 0
    <3>1. e \in queue[s] /\ ~(s = l /\ done)
      BY <1>4, <2>5
    <3>2. taken[e] = 0 /\ e \in 1..MaxPush
      BY <2>1, <2>2, <3>1
    <3>3. ok => e \notin members[p]
      BY <1>2, <1>3, <1>9, <2>1, <3>1
    <3>4. QED
      BY <1>7, <3>2, <3>3
  <2>6. \A q \in Process : pc'[q] # "delete"
    BY <1>1, <1>3, <2>1
  <2>7. QED
    BY <2>3, <2>4, <2>5, <2>6
<1>10. TakenOnce'
  BY <1>1, <1>5, <1>6, <1>8, <1>9 DEF RedisInv, TakenOnce
<1>11. QED
  BY <1>3, <1>10 DEF RedisInv

\* A server goes down: its clients keep their places in the pools.
LEMMA DownStep ==
  ASSUME RedisInv, NEW s \in Server, Down(s)
  PROVE  RedisInv'
<1> DEFINE broken(c) == IF c.server = s /\ c.ctx \in {"open", "noauth"}
                        THEN [c EXCEPT !.ctx = "broken"] ELSE c
<1>1. /\ client' = [p \in Process |-> [m \in Address |-> broken(client[p][m])]]
      /\ UNCHANGED <<queue, pool, tried, unreached, pc, members, pushed, taken, lost, refusals>>
  BY DEF Down
<1>2. \A c \in Client : /\ broken(c) \in Client /\ broken(c).server = c.server
                        /\ broken(c).ctx = "freed" <=> c.ctx = "freed"
                        /\ broken(c).ctx = "noauth" => c.ctx = "noauth"
  BY DEF Client, Context
<1> HIDE DEF broken
<1>3. \A q \in Process, m \in Address : client[q][m] \in Client /\ client'[q][m] = broken(client[q][m])
  BY <1>1 DEF RedisInv, PoolsFollowConf
<1>4. client' \in [Process -> [Address -> Client]]
  BY <1>1, <1>2, <1>3
<1>5. ServersKept
  BY <1>2, <1>3, <1>4 DEF ServersKept
<1>6. /\ PoolsFollowConf'
      /\ \A q \in Process : pc[q] = "delete" => ListAt(q)' = ListAt(q)
  BY <1>1, <1>5, PoolsKept DEF RedisInv, PoolsFollowConf
<1>7. StatusKnown'
  <2>1. refusals' = 0 => \A q \in Process : \A m \in Address : client'[q][m].ctx # "noauth"
    BY <1>1, <1>2, <1>3 DEF RedisInv, StatusKnown
  <2>2. QED
    BY <1>1, <2>1 DEF RedisInv, StatusKnown, Address, confArray
<1>8. TakenOnce'
  BY <1>1, <1>6, ListKept DEF RedisInv, Sound, Home, confArray
<1>9. QED
  BY <1>6, <1>7, <1>8 DEF RedisInv

\* A step that changes nothing but which servers run.
LEMMA Untouched ==
  ASSUME RedisInv, UNCHANGED <<queue, clients, pc, members, pushed, taken, counters>>
  PROVE  RedisInv'
<1>1. /\ UNCHANGED <<queue, pool, client, tried, unreached, pc, members, pushed, taken>>
      /\ UNCHANGED <<lost, refusals>>
  BY DEF clients, counters
<1>2. ServersKept
  BY <1>1 DEF RedisInv, PoolsFollowConf, ServersKept
<1>3. /\ PoolsFollowConf'
      /\ \A q \in Process : pc[q] = "delete" => ListAt(q)' = ListAt(q)
  BY <1>1, <1>2, PoolsKept DEF RedisInv, PoolsFollowConf
<1>4. StatusKnown'
  BY <1>1 DEF RedisInv, StatusKnown, Address, confArray
<1>5. TakenOnce'
  BY <1>1, <1>3, ListKept DEF RedisInv, Sound, Home, confArray
<1>6. QED
  BY <1>3, <1>4, <1>5 DEF RedisInv

-----------------------------------------------------------------------------
(* Theorems *)

\* The start: no pool has a client yet.
LEMMA RedisInvInit == Init => RedisInv
<1> SUFFICES ASSUME Init PROVE RedisInv
  OBVIOUS
<1>1. PoolsFollowConf
  <2>1. Len(confArray) \in Nat \ {0} /\ \A m \in Address : confArray[m] \in Server
    BY PoolAssumption DEF confArray, Address
  <2>2. <<>> \in Seq(Address) /\ Len(<<>>) = 0 /\ DOMAIN <<>> = {}
    OBVIOUS
  <2>3. client \in [Process -> [Address -> Client]]
    BY <2>1 DEF Init, Client, Context
  <2>4. \A p \in Process : EntriesFollowConf(p)
    BY <2>2 DEF Init, EntriesFollowConf
  <2>5. QED
    BY <2>1, <2>2, <2>3, <2>4 DEF Init, PoolsFollowConf, Location
<1>2. StatusKnown
  BY DEF Init, StatusKnown
<1>3. TakenOnce
  BY PoolAssumption DEF Init, TakenOnce
<1>4. QED
  BY <1>1, <1>2, <1>3 DEF RedisInv

\* Every step keeps the invariant.
LEMMA RedisInvStep == RedisInv /\ [Next]_vars => RedisInv'
<1> SUFFICES ASSUME RedisInv, [Next]_vars PROVE RedisInv'
  OBVIOUS
<1>1. CASE UNCHANGED vars
  BY <1>1, Untouched DEF vars
<1>2. ASSUME NEW p \in Process, NEW a \in Reply, NEW r \in Reply, NEW x \in BOOLEAN,
             Step(p, a, r, x)
      PROVE  RedisInv'
  BY <1>2, EnQueueStep, DeQueueDeleteStep, DeQueueAllStep, GetStep DEF Step
<1>3. ASSUME NEW s \in Server, Up(s)
      PROVE  RedisInv'
  BY <1>3, Untouched DEF Up
<1>4. QED
  BY <1>1, <1>2, <1>3, InitClientStep, UseFreedStep, DownStep DEF Next

\* Dispatch: processes that reached a server when they started send its keys to it,
\* whichever other servers each of them failed to reach and whatever became of the
\* memory of those clients, which is what makes SETNX on a key a lock between them.
THEOREM KeysHaveOneServer == Spec => []SameServer
<1>1. RedisInv => SameServer
  <2>1. ASSUME RedisInv
        PROVE  TypeOK
    BY <2>1 DEF RedisInv, PoolsFollowConf, TakenOnce, TypeOK, Client, Location
  <2>2. ASSUME RedisInv, NEW p \in Process, NEW q \in Process, NEW k \in Key,
               pc[p] = "idle", pc[q] = "idle",
               Home(k) \notin unreached[p] \union unreached[q]
        PROVE  ClientOf(p, k).server = ClientOf(q, k).server
    BY <2>2, ClientAt DEF RedisInv
  <2>3. QED
    BY <2>1, <2>2 DEF SameServer
<1>2. QED
  BY <1>1, RedisInvInit, RedisInvStep, PTL DEF Spec

\* deQueueAll: its two commands return no transaction twice, for any number of processes,
\* as long as no server refuses the DEL and every process found the server of the lock.
THEOREM ElementsDequeuedOnce == Spec => []DequeuedOnce
<1>1. RedisInv => DequeuedOnce
  BY DEF RedisInv, TakenOnce, Sound, DequeuedOnce
<1>2. QED
  BY <1>1, RedisInvInit, RedisInvStep, PTL DEF Spec
=============================================================================
