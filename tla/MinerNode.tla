----------------------------- MODULE MinerNode ------------------------------
(***************************************************************************)
(* A miner node and its parent, the root node: FPService::init of the      *)
(* workers (releaseLock, acquireLock, tryLock on BCLock, login), forward,  *)
(* and handleBlockArrived at the miner; handleLogin, the pool and          *)
(* broadcast at the root, as far as the miner sees them (FPLedger has the  *)
(* rest).  Messages go through connections that lose nothing until they    *)
(* break (DirectWriter, FrameChannel).                                     *)
(*                                                                         *)
(* A Redis command is executed and answered ("ok"), not executed and       *)
(* reported as failed ("lost"), or executed and reported as failed         *)
(* ("unanswered").                                                         *)
(***************************************************************************)
EXTENDS Integers, Sequences

CONSTANTS
  Worker,        \* the ids of the miner's workers
  None,          \* the empty string: no owner
  Tx,            \* transactions clients send to the miner
  DefaultPort,   \* -port of node_server where the command line has none
  Port,          \* the ports the daemon may be told to listen at
  MaxBlock,      \* bound: blocks the root builds
  MaxCrashes,    \* bound: workers that die
  MaxFaults      \* bound: Redis commands that fail and connections that break

ASSUME MinerAssumption ==
  /\ Worker # {} /\ None \notin Worker /\ Port # {}
  /\ MaxBlock \in Nat /\ MaxCrashes \in Nat /\ MaxFaults \in Nat

VARIABLES
  port,          \* -port of the daemon: where the node is reached
  pc,            \* where each worker is in init; "ready" in the event loop
  next,          \* where releaseLock returns to
  owner,         \* the id releaseLock has read
  lock,          \* BCLock in Redis
  toParent,      \* the connection of each worker to the root
  childNodes,    \* the set at the root: hostports
  pool,          \* transactions at the root
  built,         \* blocks the root has built
  toChild,       \* blocks on their way: <<hostport, block>>
  received,      \* blocks that reached the miner
  missed,        \* history: blocks broadcast before the miner was registered
  acked,         \* history: transactions answered with status 0
  crashes, faults

locking == <<pc, next, owner, lock>>
root == <<childNodes, pool, built, toChild, missed>>
vars == <<port, locking, toParent, root, received, acked, crashes, faults>>

Outcome == {"ok", "lost", "unanswered"}
Executed(o) == o # "lost"
Redis(o) == IF o = "ok" THEN UNCHANGED faults ELSE faults < MaxFaults /\ faults' = faults + 1

\* The address FPReqHandler::init makes of FLAGS_port.  Worker::exec starts the workers
\* with -channel, -id and -conf: they do not know the port of the daemon.
hostport == DefaultPort

Goto(w, l) == pc' = [pc EXCEPT ![w] = l]
Release(w, l) == Goto(w, "get") /\ next' = [next EXCEPT ![w] = l]
Send(w, m) == toParent' = [toParent EXCEPT ![w] = Append(@, m)]

-----------------------------------------------------------------------------
(* init of a worker *)

\* Mutant: a lock left by an earlier run of this worker is not released.
StartUnreleased(w) ==
  /\ pc[w] = "off"
  /\ Goto(w, "acquire")
  /\ UNCHANGED <<next, owner, lock, toParent, root, received, acked, crashes, faults>>

\* The daemon starts the worker with its id: init releases what it held before.
Start(w) ==
  /\ pc[w] = "off"
  /\ Release(w, "acquire")
  /\ UNCHANGED <<owner, lock, toParent, root, received, acked, crashes, faults>>

\* releaseLock: GET; an owner that cannot be read is as good as none.
ReleaseGet(w, o) ==
  LET id == IF o = "ok" THEN lock ELSE None
  IN /\ pc[w] = "get" /\ Redis(o)
     /\ owner' = [owner EXCEPT ![w] = id]
     /\ Goto(w, IF id \in {None, w} THEN "del" ELSE next[w])
     /\ UNCHANGED <<next, lock, toParent, root, received, acked, crashes>>

\* releaseLock: DEL, whoever holds the lock by now.
ReleaseDel(w, o) ==
  /\ pc[w] = "del" /\ Redis(o)
  /\ lock' = IF Executed(o) THEN None ELSE lock
  /\ Goto(w, next[w])
  /\ UNCHANGED <<next, owner, toParent, root, received, acked, crashes>>

SetNX(w, o) == lock' = IF Executed(o) /\ lock = None THEN w ELSE lock

\* acquireLock: one turn of its loop.
AcquireLock(w, o) ==
  /\ pc[w] = "acquire" /\ Redis(o)
  /\ SetNX(w, o)
  /\ Goto(w, IF o = "ok" /\ lock = None THEN "sync" ELSE "acquire")
  /\ UNCHANGED <<next, owner, toParent, root, received, acked, crashes>>

\* Mutant: the lock is kept over initBalance and login.
SyncKeepsLock(w) ==
  /\ pc[w] = "sync"
  /\ Goto(w, "balance")
  /\ UNCHANGED <<next, owner, lock, toParent, root, received, acked, crashes, faults>>

\* syncBlockChain reads the last block, and the update it would do is compiled out.
SyncBlockChain(w) ==
  /\ pc[w] = "sync"
  /\ Release(w, "balance")
  /\ UNCHANGED <<owner, lock, toParent, root, received, acked, crashes, faults>>

\* tryLock("_INIT_BALANCE_LOCKER") and initBalance: see FPLedger.
InitBalance(w) ==
  /\ pc[w] = "balance"
  /\ Goto(w, "try")
  /\ UNCHANGED <<next, owner, lock, toParent, root, received, acked, crashes, faults>>

\* tryLock(BCLock): the worker that does not get it leaves the login to others.
TryLock(w, o) ==
  /\ pc[w] = "try" /\ Redis(o)
  /\ SetNX(w, o)
  /\ Goto(w, IF o = "ok" /\ lock = None THEN "login" ELSE "ready")
  /\ UNCHANGED <<next, owner, toParent, root, received, acked, crashes>>

\* login: one message, whose answer nobody waits for.
Login(w) ==
  /\ pc[w] = "login"
  /\ Send(w, [type |-> "login", hostport |-> hostport])
  /\ Release(w, "ready")
  /\ UNCHANGED <<owner, lock, root, received, acked, crashes, faults>>

\* The process ends, and what is queued on its connection is lost.
Crash(w) ==
  /\ pc[w] # "off" /\ crashes < MaxCrashes
  /\ crashes' = crashes + 1
  /\ Goto(w, "off")
  /\ toParent' = [toParent EXCEPT ![w] = <<>>]
  /\ UNCHANGED <<next, owner, lock, root, received, acked, faults>>

-----------------------------------------------------------------------------
(* Messages *)

\* Mutant: a transaction is acknowledged and not forwarded.
HandleTransactionOnly(w, tx, o) ==
  /\ pc[w] = "ready" /\ tx \notin acked /\ Redis(o)
  /\ acked' = acked \union {tx}
  /\ UNCHANGED <<locking, toParent, root, received, crashes>>

\* handleTransaction of a miner: the balance is looked up, and only whether the lookup
\* succeeds matters; forward answers for what it hands to the connection.
HandleTransaction(w, tx, o) ==
  /\ pc[w] = "ready" /\ tx \notin acked /\ Redis(o)
  /\ IF o = "ok" THEN Send(w, [type |-> "tx", tx |-> tx]) /\ acked' = acked \union {tx}
     ELSE UNCHANGED <<toParent, acked>>
  /\ UNCHANGED <<locking, root, received, crashes>>

\* The root handles a message: handleLogin adds the node to the set (SADD may fail),
\* handleTransaction pools the transaction.
RootHandles(w, o) ==
  LET m == Head(toParent[w])
  IN /\ toParent[w] # <<>> /\ Redis(o)
     /\ toParent' = [toParent EXCEPT ![w] = Tail(@)]
     /\ IF m.type = "login"
        THEN /\ childNodes' = IF Executed(o) THEN childNodes \union {m.hostport} ELSE childNodes
             /\ UNCHANGED pool
        ELSE /\ pool' = IF Executed(o) THEN pool \union {m.tx} ELSE pool
             /\ UNCHANGED childNodes
     /\ UNCHANGED <<locking, built, toChild, missed, received, acked, crashes>>

\* The connection to the parent breaks; the next message makes a new one.
Break(w) ==
  /\ toParent[w] # <<>> /\ faults < MaxFaults
  /\ faults' = faults + 1
  /\ toParent' = [toParent EXCEPT ![w] = <<>>]
  /\ UNCHANGED <<locking, root, received, acked, crashes>>


\* broadcast: the block goes to the children SMEMBERS returns, once.
Broadcast(o) ==
  LET children == IF o = "ok" THEN childNodes ELSE {}
  IN /\ built < MaxBlock /\ Redis(o)
     /\ built' = built + 1
     /\ toChild' = toChild \union {<<a, built + 1>> : a \in children}
     /\ missed' = IF children = {} THEN missed \union {built + 1} ELSE missed
     /\ UNCHANGED <<locking, toParent, childNodes, pool, received, acked, crashes>>

\* handleBlockArrived where the address leads.  If that is the miner it takes the block
\* (recieveBlock logs it and returns).  With another port than the default it is not:
\* on the root's host it is the root, which answers -1, elsewhere connect fails.
BlockArrives(a, b) ==
  /\ <<a, b>> \in toChild
  /\ a = port => \E w \in Worker : pc[w] = "ready"
  /\ toChild' = toChild \ {<<a, b>>}
  /\ received' = IF a = port THEN received \union {b} ELSE received
  /\ UNCHANGED <<locking, toParent, childNodes, pool, built, missed, acked, crashes, faults>>

-----------------------------------------------------------------------------

Init ==
  /\ port \in Port
  /\ pc = [w \in Worker |-> "off"] /\ next = [w \in Worker |-> "acquire"]
  /\ owner = [w \in Worker |-> None] /\ lock = None
  /\ toParent = [w \in Worker |-> <<>>]
  /\ childNodes = {} /\ pool = {} /\ built = 0 /\ toChild = {} /\ missed = {}
  /\ received = {} /\ acked = {} /\ crashes = 0 /\ faults = 0

InitStep(w, o) ==
  ReleaseGet(w, o) \/ ReleaseDel(w, o) \/ AcquireLock(w, o) \/ TryLock(w, o)
InitLocal(w) == Start(w) \/ SyncBlockChain(w) \/ InitBalance(w) \/ Login(w)

Step ==
  \/ \E w \in Worker : InitLocal(w) \/ Crash(w) \/ Break(w)
  \/ \E w \in Worker, o \in Outcome : InitStep(w, o) \/ RootHandles(w, o)
  \/ \E w \in Worker, tx \in Tx, o \in Outcome : HandleTransaction(w, tx, o)
  \/ \E o \in Outcome : Broadcast(o)
  \/ \E b \in 1..MaxBlock : BlockArrives(hostport, b)

Next == Step /\ UNCHANGED port

Spec == Init /\ [][Next]_vars

\* Every process runs, the daemon restarts workers, and messages are read.
Fairness ==
  /\ \A w \in Worker : /\ WF_vars(InitLocal(w) /\ UNCHANGED port)
                       /\ WF_vars(InitStep(w, "ok") /\ UNCHANGED port)
                       /\ WF_vars(RootHandles(w, "ok") /\ UNCHANGED port)
  /\ \A b \in 1..MaxBlock : WF_vars(BlockArrives(hostport, b) /\ UNCHANGED port)

LiveSpec == Spec /\ Fairness

-----------------------------------------------------------------------------
(* Properties *)

\* Types.
TypeOK ==
  /\ pc \in [Worker -> {"off", "get", "del", "acquire", "sync", "balance", "try", "login", "ready"}]
  /\ next \in [Worker -> {"acquire", "balance", "ready"}]
  /\ owner \in [Worker -> Worker \union {None}] /\ lock \in Worker \union {None}
  /\ pool \subseteq acked /\ acked \subseteq Tx
  /\ childNodes \subseteq {hostport} /\ port \in Port
  /\ received \subseteq 1..built

AllReady == \A w \in Worker : pc[w] = "ready"
LoginSent(w) == \E i \in DOMAIN toParent[w] : toParent[w][i].type = "login"
LoggingIn == \E w \in Worker : LoginSent(w)

\* init: tryLock makes one worker log in for all, and a worker that finds the lock
\* taken does not; still, once all are up the node is registered or about to be,
\* whatever the order and whichever worker died with the lock, as long as Redis and
\* the connection to the parent do not fail.  All variables keep their types.
SomeoneLogsIn ==
  /\ TypeOK
  /\ AllReady /\ faults = 0 => childNodes # {} \/ LoggingIn

\* init ends: acquireLock is not stuck behind a worker that died with the lock, because
\* a restarted worker releases what it held.  Redis must answer: a worker that takes the
\* lock and does not learn of it waits for itself.
EveryWorkerReady == \A w \in Worker : <>[](pc[w] = "ready" \/ faults > 0)

\* forward: a transaction the miner acknowledged reaches the root's pool, unless its
\* worker dies or the connection breaks in the meantime.
AckedArrives == \A tx \in Tx : tx \in acked ~> (tx \in pool \/ faults > 0 \/ crashes > 0)

=============================================================================
