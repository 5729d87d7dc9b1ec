----------------------------- MODULE RedisPool ------------------------------
(***************************************************************************)
(* The connections of node_server processes to Redis: RedisCache with its  *)
(* pool of RedisClients, one for each server of the configuration file, to *)
(* which commands are distributed by a hash of their key.                  *)
(*                                                                         *)
(* RedisStore and FPLedger say what commands do to the ledger's data; this *)
(* module says when a command reaches its server and which status the      *)
(* client makes of the reply.  The only data here is the list of           *)
(* transactions that deQueueAll takes with two commands.                   *)
(***************************************************************************)
EXTENDS Integers, Sequences, FiniteSets

CONSTANTS
  Process,       \* processes with a RedisCache
  Server,        \* Redis servers
  Conf,          \* the configuration file: a sequence of servers
  Key,           \* keys
  hash,          \* hash[k] is the hash of key k
  txPoolKey,     \* the key of the list
  BCLock,        \* the key of the lock under which the list is taken
  Password,      \* whether the configuration has a password to send
  EarlyOutage,   \* whether a server may be down while processes start
  MaxPush,       \* bound: elements pushed to the list
  MaxOutages,    \* bound: times a server goes down
  MaxFaults      \* bound: commands on a good connection that get no reply or an error

ASSUME PoolAssumption ==
  /\ Conf \in Seq(Server) /\ Conf # <<>>
  /\ hash \in [Key -> Nat] /\ txPoolKey \in Key /\ BCLock \in Key
  /\ Password \in BOOLEAN /\ EarlyOutage \in BOOLEAN
  /\ {MaxPush, MaxOutages, MaxFaults} \subseteq Nat

VARIABLES
  up,            \* up[s]: server s runs
  queue,         \* queue[s]: the elements of the list, at server s
  pool,          \* pool[p]: _clientPool, a sequence of pointers
  client,        \* client[p][m]: the RedisClient at address m
  tried,         \* tried[p]: servers the loop of Init has gone through
  unreached,     \* history: unreached[p]: those it could not connect to, as indexes of the file
  pc,            \* where each process is
  members,       \* what LRANGE returned to a process in deQueueAll
  pushed,        \* elements created so far
  taken,         \* history: taken[e] counts the calls of deQueueAll that returned e
  outages, lost, refusals

counters == <<outages, lost, refusals>>
clients == <<pool, client, tried, unreached>>
vars == <<up, queue, clients, pc, members, pushed, taken, counters>>

\* LoadConf: the servers in the order of the file.
confArray == Conf

\* _context of a client: no context, connected, connected without AUTH having
\* succeeded, connected to a server that has gone; and memory that is no client, or no
\* longer.
Context == {"null", "open", "noauth", "broken", "freed"}
Reply == {"ok", "error", "none"}
Address == 1..Len(confArray)

\* A server's error reply, and a reply that does not come, are faults.
Fault(r) ==
  /\ refusals' = refusals + IF r = "error" THEN 1 ELSE 0
  /\ lost' = lost + IF r = "none" THEN 1 ELSE 0
  /\ refusals' + lost' <= MaxFaults
  /\ UNCHANGED outages

\* Connect: what it leaves in _context; a is the reply to AUTH.  An AUTH that is
\* refused leaves the connection open.
Connect(s, a) ==
  IF ~up[s] \/ (Password /\ a = "none") THEN "null"
  ELSE IF Password /\ a = "error" THEN "noauth" ELSE "open"

\* Mutant: a key goes to the next client while its own has no connection.
DispatchFailover(p, k) ==
  LET i == (hash[k] % Len(pool[p])) + 1
  IN IF client[p][pool[p][i]].ctx = "null" THEN (i % Len(pool[p])) + 1 ELSE i

\* Dispatch: the client of a key.
Dispatch(p, k) == (hash[k] % Len(pool[p])) + 1
AddressOf(p, k) == pool[p][Dispatch(p, k)]
ClientOf(p, k) == client[p][AddressOf(p, k)]

\* Dispatch connects a client that has no context; any context counts as connected.
ContextFor(p, k, a) ==
  LET c == ClientOf(p, k) IN IF c.ctx = "null" THEN Connect(c.server, a) ELSE c.ctx
Dispatched(p, k, a) == ClientOf(p, k).ctx # "null" \/ ContextFor(p, k, a) = "open"

\* redisCommand on a context; r is what a server that has the command replies.
ReplyOn(ctx, r) ==
  CASE ctx = "open" -> r [] ctx = "noauth" -> "error" [] ctx = "broken" -> "none"

\* Mutant: a client that got no reply keeps its context.
DisconnectNever(ctx, reply) == ctx

\* Every command: no reply makes the client disconnect.
Disconnect(ctx, reply) == IF reply = "none" THEN "null" ELSE ctx

\* The status of a command: Get and Delete do not look at the type of the reply.
StatusOK(op, reply) ==
  CASE reply = "ok" -> TRUE [] reply = "none" -> FALSE [] reply = "error" -> op \in {"GET", "DEL"}

\* One command of process p on key k: a and r are the replies to AUTH and to the
\* command, x says whether a command without a reply was executed.
ReplyTo(p, k, a, r) ==
  IF Dispatched(p, k, a) THEN ReplyOn(ContextFor(p, k, a), r) ELSE "none"
Succeeds(p, op, k, a, r) == StatusOK(op, ReplyTo(p, k, a, r))
Executed(p, k, a, r, x) ==
  Dispatched(p, k, a) /\ ContextFor(p, k, a) = "open" /\ (r = "ok" \/ x)

Command(p, k, a, r, x) ==
  LET m == AddressOf(p, k)
      ctx == ContextFor(p, k, a)
      sent == Dispatched(p, k, a)
  IN /\ ClientOf(p, k).ctx # "freed"
     /\ a # "ok" => ~sent /\ up[ClientOf(p, k).server] /\ Password
     /\ r # "ok" => sent /\ ctx = "open"
     /\ x => r = "none"
     /\ Fault(IF sent THEN r ELSE a)
     /\ client' = [client EXCEPT ![p][m].ctx =
                     IF sent THEN Disconnect(ctx, ReplyTo(p, k, a, r)) ELSE ctx]
     /\ UNCHANGED <<pool, tried, unreached>>

Idle(p) == pc[p] = "idle"
ListAt(p) == ClientOf(p, txPoolKey).server

-----------------------------------------------------------------------------

\* The loop of Init goes on with the next server; an empty pool ends the process.
InitNext(p) ==
  /\ tried' = [tried EXCEPT ![p] = @ + 1]
  /\ pc' = [pc EXCEPT ![p] = IF tried'[p] < Len(confArray) THEN "init"
                            ELSE IF pool'[p] = <<>> THEN "dead" ELSE "idle"]
  /\ UNCHANGED <<up, queue, members, pushed, taken>>

\* new RedisClient(): memory not used yet, or that of a client deleted before.
Available(p, m) == m <= tried[p] + 1 /\ client[p][m].ctx = "freed"

Made(p, m, s, ctx) ==
  client' = [client EXCEPT ![p][m] = [server |-> s, ctx |-> IF ctx = "open" THEN ctx ELSE "freed"]]
Reached(p, ctx) ==
  unreached' = [unreached EXCEPT ![p] = IF ctx = "open" THEN @ ELSE @ \union {tried[p] + 1}]

\* One turn of the loop of Init: a client that cannot connect is deleted, and its
\* address is put in the pool like the others.  The client of a later server may be
\* made at that address, and the entry is then that server's.
InitClient(p, a, m) ==
  LET s == confArray[tried[p] + 1]
      ctx == Connect(s, a)
  IN /\ pc[p] = "init" /\ Fault(a) /\ Available(p, m)
     /\ a # "ok" => up[s] /\ Password
     /\ Made(p, m, s, ctx) /\ Reached(p, ctx)
     /\ pool' = [pool EXCEPT ![p] = Append(@, m)]
     /\ InitNext(p)

\* A command for a deleted client: the process dies, the call fails, or what is left
\* of the memory passes for a client of some server.
UseFreed(p, k) ==
  /\ Idle(p) /\ ClientOf(p, k).ctx = "freed"
  /\ \/ pc' = [pc EXCEPT ![p] = "dead"] /\ UNCHANGED client
     \/ UNCHANGED <<pc, client>>
     \/ /\ \E s \in Server :
             client' = [client EXCEPT ![p][AddressOf(p, k)] = [server |-> s, ctx |-> "null"]]
        /\ UNCHANGED pc
  /\ UNCHANGED <<up, queue, pool, tried, unreached, members, pushed, taken, counters>>

\* Get, and the other commands that leave the list alone.
Get(p, k, a, r) ==
  /\ Idle(p) /\ Command(p, k, a, r, FALSE)
  /\ UNCHANGED <<up, queue, pc, members, pushed, taken>>

\* enQueue.
EnQueue(p, a, r, x) ==
  /\ Idle(p) /\ pushed < MaxPush
  /\ Command(p, txPoolKey, a, r, x)
  /\ pushed' = pushed + 1
  /\ queue' = [queue EXCEPT ![ListAt(p)] =
       IF Executed(p, txPoolKey, a, r, x) THEN @ \union {pushed'} ELSE @]
  /\ UNCHANGED <<up, pc, members, taken>>

\* generateNewBlock's lock keeps other processes out (FPLedger), if their lock is at the
\* same server.
Locked(p) ==
  /\ ClientOf(p, BCLock).ctx # "freed"
  /\ \A q \in Process : pc[q] = "delete" => ClientOf(q, BCLock).server # ClientOf(p, BCLock).server

\* deQueueAll, its LRANGE.
DeQueueAll(p, a, r) ==
  /\ Idle(p) /\ Locked(p)
  /\ Command(p, txPoolKey, a, r, FALSE)
  /\ members' = [members EXCEPT ![p] =
       IF Executed(p, txPoolKey, a, r, FALSE) THEN queue[ListAt(p)] ELSE {}]
  /\ pc' = [pc EXCEPT ![p] =
       IF Succeeds(p, "LRANGE", txPoolKey, a, r) THEN "delete" ELSE "idle"]
  /\ UNCHANGED <<up, queue, pushed, taken>>

\* Mutant: the result of Delete is not looked at.
DeQueueDeleteIgnored(p, a, r, x) ==
  /\ pc[p] = "delete"
  /\ Command(p, txPoolKey, a, r, x)
  /\ queue' = [queue EXCEPT ![ListAt(p)] =
       IF Executed(p, txPoolKey, a, r, x) THEN {} ELSE @]
  /\ taken' = [e \in 1..MaxPush |-> taken[e] + IF e \in members[p] THEN 1 ELSE 0]
  /\ members' = [members EXCEPT ![p] = {}] /\ pc' = [pc EXCEPT ![p] = "idle"]
  /\ UNCHANGED <<up, pushed>>

\* deQueueAll, its DEL: unless it succeeds the elements are not returned.
DeQueueDelete(p, a, r, x) ==
  /\ pc[p] = "delete"
  /\ Command(p, txPoolKey, a, r, x)
  /\ queue' = [queue EXCEPT ![ListAt(p)] =
       IF Executed(p, txPoolKey, a, r, x) THEN {} ELSE @]
  /\ taken' = [e \in 1..MaxPush |-> taken[e] +
       IF Succeeds(p, "DEL", txPoolKey, a, r) /\ e \in members[p] THEN 1 ELSE 0]
  /\ members' = [members EXCEPT ![p] = {}] /\ pc' = [pc EXCEPT ![p] = "idle"]
  /\ UNCHANGED <<up, pushed>>

\* A server goes down; what is in its lists is on its disk.
Down(s) ==
  /\ up[s] /\ outages < MaxOutages
  /\ EarlyOutage \/ \A p \in Process : pc[p] # "init"
  /\ outages' = outages + 1
  /\ up' = [up EXCEPT ![s] = FALSE]
  /\ client' = [p \in Process |-> [m \in Address |->
                  IF client[p][m].server = s /\ client[p][m].ctx \in {"open", "noauth"}
                  THEN [client[p][m] EXCEPT !.ctx = "broken"] ELSE client[p][m]]]
  /\ UNCHANGED <<queue, pool, tried, unreached, pc, members, pushed, taken, lost, refusals>>

Up(s) ==
  /\ ~up[s]
  /\ up' = [up EXCEPT ![s] = TRUE]
  /\ UNCHANGED <<queue, clients, pc, members, pushed, taken, counters>>

-----------------------------------------------------------------------------

Init ==
  /\ up = [s \in Server |-> TRUE] /\ queue = [s \in Server |-> {}]
  /\ pool = [p \in Process |-> <<>>] /\ tried = [p \in Process |-> 0]
  /\ client = [p \in Process |-> [m \in Address |-> [server |-> confArray[m], ctx |-> "freed"]]]
  /\ unreached = [p \in Process |-> {}]
  /\ pc = [p \in Process |-> "init"]
  /\ members = [p \in Process |-> {}] /\ pushed = 0
  /\ taken = [e \in 1..MaxPush |-> 0]
  /\ outages = 0 /\ lost = 0 /\ refusals = 0

Step(p, a, r, x) ==
  \/ EnQueue(p, a, r, x) \/ DeQueueDelete(p, a, r, x)
  \/ DeQueueAll(p, a, r) \/ \E k \in Key : Get(p, k, a, r)

Next ==
  \/ \E p \in Process, a \in Reply, m \in Address : InitClient(p, a, m)
  \/ \E p \in Process, k \in Key : UseFreed(p, k)
  \/ \E p \in Process, a, r \in Reply, x \in BOOLEAN : Step(p, a, r, x)
  \/ \E s \in Server : Down(s) \/ Up(s)

Spec == Init /\ [][Next]_vars

\* Processes start and issue commands for every key, and servers are started again.
Fairness ==
  /\ \A p \in Process : WF_vars(\E m \in Address : InitClient(p, "ok", m))
  /\ \A p \in Process : WF_vars(DeQueueDelete(p, "ok", "ok", FALSE))
  /\ \A p \in Process, k \in Key : SF_vars(Get(p, k, "ok", "ok"))
  /\ \A s \in Server : WF_vars(Up(s))

LiveSpec == Spec /\ Fairness

-----------------------------------------------------------------------------
(* Properties *)

\* Types: _clientPool has an entry for each server of the file.
TypeOK ==
  /\ pool \in [Process -> Seq(Address)]
  /\ client \in [Process -> [Address -> [server : Server, ctx : Context]]]
  /\ pc \in [Process -> {"init", "idle", "delete", "dead"}]
  /\ \A p \in Process : Len(pool[p]) = tried[p] /\ tried[p] <= Len(confArray)
  /\ queue \in [Server -> SUBSET (1..pushed)] /\ taken \in [1..MaxPush -> Nat]

\* The server of the file that key k belongs to, as an index.
Home(k) == (hash[k] % Len(confArray)) + 1

\* Dispatch: processes that reached a server when they started send its keys there and
\* nowhere else, whichever other servers each of them failed to reach and whatever
\* became of the memory of those clients; SETNX makes a lock only because of this.  A
\* process that did not reach the server may send its keys to another.
SameServer ==
  /\ TypeOK
  /\ \A p, q \in Process, k \in Key :
       /\ pc[p] = "idle" /\ pc[q] = "idle"
       /\ Home(k) \notin unreached[p] \union unreached[q]
       => ClientOf(p, k).server = ClientOf(q, k).server

\* deQueueAll: no transaction is returned twice, whatever connection breaks between
\* LRANGE and DEL and whether or not a process found the list's server at its start, as
\* long as no server refuses the DEL and all processes reached the server of the lock.
DequeuedOnce ==
  refusals = 0 /\ (\A p \in Process : Home(BCLock) \notin unreached[p])
    => \A e \in DOMAIN taken : taken[e] <= 1

\* Dispatch: after an outage every client comes back by itself, and commands on every
\* key succeed again, except for a client that Init has deleted and as long as no
\* server answers with an error.
Recovers ==
  \A p \in Process, k \in Key :
    []<>(\/ pc[p] = "dead" \/ refusals > 0
         \/ pool[p] # <<>> /\ ClientOf(p, k).ctx \in {"open", "freed"})
=============================================================================
