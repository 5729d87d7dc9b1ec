------------------------------ MODULE FPLedger ------------------------------
(***************************************************************************)
(* The root node: its node_server worker processes (daemon flag -workers)  *)
(* running server/FPService.cpp over one shared Redis.                     *)
(*                                                                         *)
(* A worker is a single-threaded event loop: it runs one handler to its    *)
(* end, and every handler is a sequence of Redis commands.  pc[w] names    *)
(* the next command of the handler that w is in, so one action is one      *)
(* command together with the local code up to the next one, and the steps  *)
(* of different workers interleave between any two commands.               *)
(*                                                                         *)
(* Failures: a worker may crash between two commands and is started again  *)
(* by the master; a command may fail (NULL reply, timeout, no connection), *)
(* in which case the server may execute it later, or never; or the server  *)
(* may refuse it with an error reply.                                      *)
(***************************************************************************)
EXTENDS RedisStore, Functions, FiniteSets

CONSTANTS
  Worker,      \* the worker processes of the root node
  idOf,        \* worker -> its flag -id
  Route,       \* address -> the workers its transactions are dispatched to
  MaxCrashes,  \* bound: crashes of workers
  MaxFaults    \* bound: commands that fail or are refused

ASSUME LedgerAssumption ==
  /\ idOf \in [Worker -> WorkerId]
  /\ Route \in [Address -> SUBSET Worker]
  /\ MaxCrashes \in Nat
  /\ MaxFaults \in Nat

\* Only so many workers are started, and only so many accounts and submissions are
\* looked at: what is summed up over them has a sum.
ASSUME FiniteAssumption ==
  IsFiniteSet(Worker) /\ IsFiniteSet(Account) /\ IsFiniteSet(Transaction)

VARIABLES
  pc,        \* worker -> the command it issues next
  cur,       \* worker -> tx of handleTransaction
  blk,       \* worker -> block of createBlock
  last,      \* worker -> lastBlock of createBlock
  walk,      \* worker -> blockId of initBalance
  todo,      \* worker -> what is left of balanceMap of updateBalance
  late,      \* failed commands the server has yet to execute
  faults,    \* number of failed and refused commands
  crashes,   \* number of crashes
  now,       \* time(NULL)
  verdict,   \* history: tx -> what handleTransaction decided about it
  acked,     \* history: transactions answered with status 0
  diedAt,    \* history: the commands at which workers died
  exposed,   \* history: transactions pooled or held where a known window loses them
  kept,      \* history: transactions read from the pool whose DEL was refused
  built,     \* history: the blocks createBlock made, in order
  sends      \* history: the blocks broadcast handed to the writer, in order

\* Transaction of a worker that handles none.
EmptyTx == [id |-> NoId, from |-> NoAddress, to |-> NoAddress, value |-> 0]

proc == <<pc, cur, blk, last, walk, todo>>
link == <<late, faults>>
hist == <<verdict, acked, diedAt, exposed, kept, built, sends>>
vars == <<store, proc, link, crashes, now, hist>>

BUILDER == "_BLOCK_BUILDER_LOCK_"
INITBALANCE == "_INIT_BALANCE_LOCKER"

\* Between a successful tryLock and the DEL of releaseLock (generateNewBlock).
Building == {"getLast", "range", "delPool", "store", "storeLast", "broadcast",
             "relGet", "relDel"}

Label == {"down", "init", "walk", "apply", "idle", "debit", "credit", "enqueue"}
           \cup Building

Verdict == {"unsent", "failed", "funded", "short"}

-----------------------------------------------------------------------------
(* Commands *)

Goto(w, label) == pc' = [pc EXCEPT ![w] = label]

\* Dispatch or the command fails: RedisCache returns false to its caller.  The
\* bytes may have reached the server, which then executes the command late.  An
\* error reply of the server looks the same to the caller of IncrBy, Set, SetNX,
\* RPush and SADD, which check the type of the reply, and is never executed.
Fail(c) ==
  /\ faults < MaxFaults
  /\ faults' = faults + 1
  /\ late' \in {late, late \cup {[n |-> faults, cmd |-> c]}}
  /\ UNCHANGED store

\* A command that only reads can fail, too, and LRANGE and SMEMBERS report an error
\* reply as a failure.
FailRead ==
  /\ faults < MaxFaults
  /\ faults' = faults + 1
  /\ UNCHANGED <<late, store>>

\* RedisClient::Get and RedisClient::Delete do not look at the type of the reply: an
\* error reply is a success to their caller, who reads "" or believes the key is gone.
Refused == FailRead

\* RedisCache::X: the command succeeds and w goes on at ok, or fails, at fail.
Call(w, c, ok, fail) ==
  \/ Exec(c) /\ Goto(w, ok) /\ UNCHANGED link
  \/ Fail(c) /\ Goto(w, fail)

\* The same for a reading command.
Read(w, ok, fail) ==
  \/ Goto(w, ok) /\ UNCHANGED <<store, link>>
  \/ FailRead /\ Goto(w, fail)

\* The server executes a command whose client has given up on it.
LateExec ==
  \E l \in late :
    /\ Exec(l.cmd)
    /\ late' = late \ {l}
    /\ UNCHANGED <<proc, faults, crashes, now, hist>>

-----------------------------------------------------------------------------
(* FPService::init, from the lock of initBalance on (root node) *)

\* balanceMap of updateBalance: the net effect of the block on each address.
BalanceMap(block) ==
  LET touched == {block.txs[i].from : i \in DOMAIN block.txs}
                   \cup {block.txs[i].to : i \in DOMAIN block.txs}
      net(a) == SumFunction([i \in DOMAIN block.txs |-> Effect(block.txs[i], a)])
  IN {[key |-> a, by |-> net(a)] : a \in touched}

\* initSuperWallet.cpp credits accounts; nothing is debited by the first block.
ASSUME GenesisAssumption ==
  /\ BalanceMap(GenesisBlock) \subseteq [key : Address, by : Int]
  /\ \A p \in BalanceMap(GenesisBlock) : p.key \in Account => p.by >= 0

\* Mutant: init calls initBalance whatever tryLock answered.
InitLockIgnoresReply(w) ==
  /\ pc[w] = "init"
  /\ Call(w, SETNX(INITBALANCE, idOf[w]), "walk", "idle")
  /\ walk' = [walk EXCEPT ![w] = IF pc'[w] = "walk" THEN Genesis ELSE NoId]
  /\ UNCHANGED <<cur, blk, last, todo, crashes, now, hist>>

\* tryLock("_INIT_BALANCE_LOCKER"), a lock that is never released.
InitLock(w) ==
  /\ pc[w] = "init"
  /\ Call(w, SETNX(INITBALANCE, idOf[w]),
          IF lock[INITBALANCE] = NoId THEN "walk" ELSE "idle", "idle")
  /\ walk' = [walk EXCEPT ![w] = IF pc'[w] = "walk" THEN Genesis ELSE NoId]
  /\ UNCHANGED <<cur, blk, last, todo, crashes, now, hist>>

\* getBlock in the loop of initBalance, and the map updateBalance makes of it.
WalkChain(w) ==
  /\ pc[w] = "walk"
  /\ \/ /\ blockDB[walk[w]] # EmptyBlock
        /\ todo' = [todo EXCEPT ![w] = BalanceMap(blockDB[walk[w]])]
        /\ walk' = [walk EXCEPT ![w] = blockDB[walk[w]].next]
        /\ Goto(w, "apply") /\ UNCHANGED <<store, link>>
     \/ /\ blockDB[walk[w]] = EmptyBlock
        /\ Goto(w, "idle") /\ UNCHANGED <<store, link, todo>>
        /\ walk' = [walk EXCEPT ![w] = NoId]
     \/ /\ FailRead /\ Goto(w, "idle") /\ UNCHANGED todo
        /\ walk' = [walk EXCEPT ![w] = NoId]
  /\ UNCHANGED <<cur, blk, last, crashes, now, hist>>

\* One IncrBy of updateBalance, its result ignored; the order of the map's
\* keys is left open.
UpdateBalance(w) ==
  /\ pc[w] = "apply"
  /\ \E p \in todo[w] :
       LET then == IF todo[w] # {p} THEN "apply"
                   ELSE IF walk[w] = NoId THEN "idle" ELSE "walk"
       IN /\ Call(w, INCRBY(p.key, p.by), then, then)
          /\ todo' = [todo EXCEPT ![w] = @ \ {p}]
  /\ UNCHANGED <<cur, blk, last, walk, crashes, now, hist>>

-----------------------------------------------------------------------------
(* FPService::handleTransaction (root node) *)

\* Mutant: handleTransaction compares the balance with 0, not with the value.
QueryBalanceUnchecked(w, tx) ==
  /\ pc[w] = "idle"
  /\ verdict[tx] = "unsent"
  /\ w \in Route[tx.from] /\ tx.from \in Account
  /\ LET funded == balance[tx.from] >= 0
     IN /\ Goto(w, IF funded THEN "debit" ELSE "enqueue")
        /\ verdict' = [verdict EXCEPT ![tx] = IF funded THEN "funded" ELSE "short"]
  /\ cur' = [cur EXCEPT ![w] = tx]
  /\ UNCHANGED <<store, link, blk, last, walk, todo, crashes, now,
                 acked, diedAt, exposed, kept, built, sends>>

\* handleTransaction, once the balance of the payer has been read.
Decide(w, tx, amount) ==
  /\ \/ /\ amount >= tx.value
        /\ Goto(w, "debit")
        /\ verdict' = [verdict EXCEPT ![tx] = "funded"]
     \/ /\ amount < tx.value
        /\ Goto(w, "enqueue")
        /\ verdict' = [verdict EXCEPT ![tx] = "short"]
  /\ cur' = [cur EXCEPT ![w] = tx]

\* onTransaction and queryBalance: GET of the payer's balance decides whether
\* the two IncrBy are issued; a refused GET reads as 0.  An empty address or a
\* failed GET answers -1.
QueryBalance(w, tx) ==
  /\ pc[w] = "idle"
  /\ verdict[tx] = "unsent"
  /\ w \in Route[tx.from]
  /\ \/ tx.from \in Account /\ Decide(w, tx, balance[tx.from]) /\ UNCHANGED <<store, link>>
     \/ tx.from \in Account /\ Decide(w, tx, 0) /\ Refused
     \/ /\ tx.from \notin Account
        /\ verdict' = [verdict EXCEPT ![tx] = "failed"]
        /\ UNCHANGED <<pc, cur, store, link>>
     \/ /\ FailRead
        /\ verdict' = [verdict EXCEPT ![tx] = "failed"]
        /\ UNCHANGED <<pc, cur>>
  /\ UNCHANGED <<blk, last, walk, todo, crashes, now,
                 acked, diedAt, exposed, kept, built, sends>>

\* IncrBy(tx._from, -tx._value), its result ignored.
Debit(w) ==
  /\ pc[w] = "debit"
  /\ Call(w, INCRBY(cur[w].from, -cur[w].value), "credit", "credit")
  /\ UNCHANGED <<cur, blk, last, walk, todo, crashes, now, hist>>

\* IncrBy(tx._to, tx._value), its result ignored.
Credit(w) ==
  /\ pc[w] = "credit"
  /\ Call(w, INCRBY(cur[w].to, cur[w].value), "enqueue", "enqueue")
  /\ UNCHANGED <<cur, blk, last, walk, todo, crashes, now, hist>>

\* enQueue, its result ignored, and the answer with status 0.  A transaction
\* pushed while some worker is between LRANGE and DEL is exposed to that DEL.
EnQueue(w) ==
  /\ pc[w] = "enqueue"
  /\ Call(w, RPUSH(cur[w]), "idle", "idle")
  /\ acked' = acked \cup {cur[w]}
  /\ exposed' = IF \E v \in Worker : pc[v] = "delPool"
                  THEN exposed \cup {cur[w]} ELSE exposed
  /\ cur' = [cur EXCEPT ![w] = EmptyTx]
  /\ UNCHANGED <<blk, last, walk, todo, crashes, now, verdict, diedAt, kept, built, sends>>

-----------------------------------------------------------------------------
(* FPService::generateNewBlock, on the block timer *)

\* Mutant: generateNewBlock builds whatever tryLock answered.
TryLockIgnoresReply(w) ==
  /\ pc[w] = "idle"
  /\ Call(w, SETNX(BUILDER, idOf[w]), "getLast", "idle")
  /\ UNCHANGED <<cur, blk, last, walk, todo, crashes, now, hist>>

\* tryLock: the timer of a worker that does not get the lock does nothing.
TryLock(w) ==
  /\ pc[w] = "idle"
  /\ Call(w, SETNX(BUILDER, idOf[w]),
          IF lock[BUILDER] = NoId THEN "getLast" ELSE "idle", "idle")
  /\ UNCHANGED <<cur, blk, last, walk, todo, crashes, now, hist>>

\* Mutant: createBlock falls back on the genesis block when there is no last block.
GetLastOrGenesis(w) ==
  /\ pc[w] = "getLast"
  /\ last' = [last EXCEPT ![w] = IF blockDB[lastBlockKey] = EmptyBlock
                                   THEN blockDB[Genesis] ELSE blockDB[lastBlockKey]]
  /\ Goto(w, "range")
  /\ UNCHANGED <<store, link, cur, blk, walk, todo, crashes, now, hist>>

\* createBlock: getBlock(lastBlockKey) into a fresh lastBlock.
GetLast(w) ==
  /\ pc[w] = "getLast"
  /\ \/ last' = [last EXCEPT ![w] = blockDB[lastBlockKey]] /\ UNCHANGED <<store, link>>
     \/ last' = [last EXCEPT ![w] = EmptyBlock] /\ FailRead
  /\ Goto(w, "range")
  /\ UNCHANGED <<cur, blk, walk, todo, crashes, now, hist>>

\* Mutant: LRANGE stops one element early.
LRangeOffByOne(w) ==
  /\ pc[w] = "range"
  /\ Read(w, "delPool", "relGet")
  /\ blk' = [blk EXCEPT ![w] =
               [EmptyBlock EXCEPT !.txs = SubSeq(txPool, 1, Len(txPool) - 1)]]
  /\ UNCHANGED <<cur, last, walk, todo, crashes, now, hist>>

\* deQueueAll, first command: LRANGE of the whole pool.
LRange(w) ==
  /\ pc[w] = "range"
  /\ Read(w, "delPool", "relGet")
  /\ blk' = [blk EXCEPT ![w] =
               IF pc'[w] = "delPool" THEN [EmptyBlock EXCEPT !.txs = txPool] ELSE EmptyBlock]
  /\ UNCHANGED <<cur, last, walk, todo, crashes, now, hist>>

\* Mutant: deQueueAll reads the pool and forgets to delete it.
DelPoolForgotten(w) ==
  /\ pc[w] = "delPool"
  /\ Goto(w, IF blk[w].txs = <<>> THEN "relGet" ELSE "store")
  /\ UNCHANGED <<store, link, cur, blk, last, walk, todo, crashes, now, hist>>

\* Mutant: deQueueAll reports failure after a successful DEL.
DelPoolReportsFailure(w) ==
  /\ pc[w] = "delPool"
  /\ Call(w, DELPOOL, "relGet", "relGet")
  /\ UNCHANGED <<cur, blk, last, walk, todo, crashes, now, hist>>

\* deQueueAll, second command: DEL.  An empty list or a failed DEL ends
\* createBlock, and the list that was read is dropped; a refused DEL passes for a
\* success, and the list is mined although it is still in the pool.
DelPool(w) ==
  LET ok == IF blk[w].txs = <<>> THEN "relGet" ELSE "store"
  IN /\ pc[w] = "delPool"
     /\ \/ Call(w, DELPOOL, ok, "relGet") /\ UNCHANGED kept
        \/ Refused /\ Goto(w, ok) /\ kept' = kept \cup Range(blk[w].txs)
     /\ UNCHANGED <<cur, blk, last, walk, todo, crashes, now,
                    verdict, acked, diedAt, exposed, built, sends>>

\* Mutant: createBlock stores the block before it is filled.
StoreBlockTooEarly(w) ==
  LET block == [blk[w] EXCEPT !.id = now, !.prev = last[w].id]
  IN /\ pc[w] = "store"
     /\ Call(w, SET([block EXCEPT !.txs = <<>>]), "storeLast", "storeLast")
     /\ blk' = [blk EXCEPT ![w] = block]
     /\ last' = [last EXCEPT ![w].next = now]
     /\ built' = Append(built, block)
     /\ UNCHANGED <<cur, walk, todo, crashes, now,
                    verdict, acked, diedAt, exposed, kept, sends>>

\* genBlockId, the links, storeBlock(block): GetRandStr seeds rand with
\* time(NULL), so the second names the block.  The result of SET is ignored.
StoreBlock(w) ==
  LET block == [blk[w] EXCEPT !.id = now, !.prev = last[w].id]
  IN /\ pc[w] = "store"
     /\ Call(w, SET(block), "storeLast", "storeLast")
     /\ blk' = [blk EXCEPT ![w] = block]
     /\ last' = [last EXCEPT ![w].next = now]
     /\ built' = Append(built, block)
     /\ UNCHANGED <<cur, walk, todo, crashes, now,
                    verdict, acked, diedAt, exposed, kept, sends>>

\* storeBlock(lastBlock), its result ignored.
StoreLast(w) ==
  /\ pc[w] = "storeLast"
  /\ Call(w, SET(last[w]), "broadcast", "broadcast")
  /\ UNCHANGED <<cur, blk, last, walk, todo, crashes, now, hist>>

\* broadcast: SMEMBERS, then sendTo to every child.
Broadcast(w) ==
  /\ pc[w] = "broadcast"
  /\ \/ /\ sends' = IF childNodes = {} THEN sends
                    ELSE Append(sends, [block |-> blk[w], to |-> childNodes])
        /\ UNCHANGED <<store, link>>
     \/ FailRead /\ UNCHANGED sends
  /\ Goto(w, "relGet")
  /\ UNCHANGED <<cur, blk, last, walk, todo, crashes, now,
                 verdict, acked, diedAt, exposed, kept, built>>

\* releaseLock, first command: GET of the owner; empty (absent, or the GET
\* failed) or one's own id leads to the DEL.
ReleaseGet(w) ==
  /\ pc[w] = "relGet"
  /\ Read(w, IF lock[BUILDER] \in {NoId, idOf[w]} THEN "relDel" ELSE "idle", "relDel")
  /\ UNCHANGED <<cur, blk, last, walk, todo, crashes, now, hist>>

\* releaseLock, second command: DEL.
ReleaseDel(w) ==
  /\ pc[w] = "relDel"
  /\ Call(w, DELLOCK(BUILDER), "idle", "idle")
  /\ blk' = [blk EXCEPT ![w] = EmptyBlock]
  /\ last' = [last EXCEPT ![w] = EmptyBlock]
  /\ UNCHANGED <<cur, walk, todo, crashes, now, hist>>

-----------------------------------------------------------------------------
(* FPService::handleLogin: SADD of the child node *)
HandleLogin(w, node) ==
  /\ pc[w] = "idle"
  /\ Call(w, SADD(node), "idle", "idle")
  /\ UNCHANGED <<cur, blk, last, walk, todo, crashes, now, hist>>

-----------------------------------------------------------------------------
(* Processes and time *)

\* The process dies; what it had taken out of the pool is gone with it.
Crash(w) ==
  /\ crashes < MaxCrashes
  /\ pc[w] # "down"
  /\ crashes' = crashes + 1
  /\ Goto(w, "down")
  /\ diedAt' = diedAt \cup {pc[w]}
  /\ exposed' = IF pc[w] = "store" THEN exposed \cup Range(blk[w].txs) ELSE exposed
  /\ cur' = [cur EXCEPT ![w] = EmptyTx]
  /\ blk' = [blk EXCEPT ![w] = EmptyBlock]
  /\ last' = [last EXCEPT ![w] = EmptyBlock]
  /\ walk' = [walk EXCEPT ![w] = NoId]
  /\ todo' = [todo EXCEPT ![w] = {}]
  /\ UNCHANGED <<store, link, now, verdict, acked, kept, built, sends>>

\* The master starts the worker again with the same id (Worker::restart).
Restart(w) ==
  /\ pc[w] = "down"
  /\ Goto(w, "init")
  /\ UNCHANGED <<store, cur, blk, last, walk, todo, link, crashes, now, hist>>

Tick ==
  /\ now + 1 \in Second
  /\ now' = now + 1
  /\ UNCHANGED <<store, proc, link, crashes, hist>>

-----------------------------------------------------------------------------

Init ==
  /\ StoreInit
  /\ pc = [w \in Worker |-> "init"]
  /\ cur = [w \in Worker |-> EmptyTx]
  /\ blk = [w \in Worker |-> EmptyBlock]
  /\ last = [w \in Worker |-> EmptyBlock]
  /\ walk = [w \in Worker |-> NoId]
  /\ todo = [w \in Worker |-> {}]
  /\ late = {} /\ faults = 0 /\ crashes = 0
  /\ now = 1
  /\ verdict = [tx \in Transaction |-> "unsent"]
  /\ acked = {} /\ diedAt = {} /\ exposed = {} /\ kept = {} /\ built = <<>> /\ sends = <<>>

\* The rest of a handler, once it has begun: no worker stops half way.
Handler(w) ==
  \/ InitLock(w) \/ WalkChain(w) \/ UpdateBalance(w)
  \/ Debit(w) \/ Credit(w) \/ EnQueue(w)
  \/ GetLast(w) \/ LRange(w) \/ DelPool(w) \/ StoreBlock(w) \/ StoreLast(w)
  \/ Broadcast(w) \/ ReleaseGet(w) \/ ReleaseDel(w)

Next ==
  \/ \E w \in Worker :
       \/ Handler(w) \/ TryLock(w) \/ Crash(w) \/ Restart(w)
       \/ \E tx \in Transaction : QueryBalance(w, tx)
       \/ \E node \in Node : HandleLogin(w, node)
  \/ LateExec
  \/ Tick

Spec == Init /\ [][Next]_vars

\* The event loop of a live worker runs a begun handler to its end, its block
\* timer fires again and again, and the master restarts a worker that died.
\* Nothing obliges a client to submit, a child to log in or a clock to move.
Fairness ==
  \A w \in Worker :
    WF_vars(Handler(w)) /\ WF_vars(TryLock(w)) /\ WF_vars(Restart(w))

LiveSpec == Spec /\ Fairness

-----------------------------------------------------------------------------
(* Properties *)

\* Types of the shared store and of the workers' locals: what FPService keeps in
\* Redis and in the locals of its handlers.
TypeOK ==
  /\ StoreTypeOK
  /\ pc \in [Worker -> Label]
  /\ cur \in [Worker -> Transaction \cup {EmptyTx}]
  /\ blk \in [Worker -> Block]
  /\ last \in [Worker -> Block]
  /\ walk \in [Worker -> BlockId \cup {NoId}]
  /\ todo \in [Worker -> SUBSET [key : Address, by : Int]]
  /\ late \subseteq [n : Nat, cmd : Command]
  /\ faults \in Nat /\ crashes \in Nat /\ now \in Second
  /\ verdict \in [Transaction -> Verdict]
  /\ acked \subseteq Transaction /\ exposed \subseteq Tx /\ kept \subseteq Tx
  /\ diedAt \subseteq Label
  /\ built \in Seq(Block)
  /\ sends \in Seq([block : Block, to : SUBSET Node])

\* What the locals of worker w hold where a handler uses them.
LocalsOf(w) ==
  /\ pc[w] \in {"debit", "credit", "enqueue"} =>
       cur[w] \in Transaction /\ cur[w].from \in Account
  /\ pc[w] = "walk" => walk[w] = Genesis
  /\ walk[w] \in {Genesis, NoId}
  /\ last[w].id = NoId
  /\ blk[w].id # Genesis

\* The keys lastBlockKey and Genesis, and the late commands that could write them.
KeysFixed ==
  /\ blockDB[lastBlockKey] = EmptyBlock
  /\ blockDB[Genesis] = GenesisBlock
  /\ \A l \in late : l.cmd.op = "SET" => l.cmd.block.id # Genesis

\* Nothing ever writes the key lastBlockKey: createBlock finds no last block, so it
\* never links a block into the chain and initBalance walks the genesis block alone.
ChainUnlinked == KeysFixed /\ \A w \in Worker : LocalsOf(w)

\* generateNewBlock: "_BLOCK_BUILDER_LOCK_" lets one worker at a time build a
\* block, whatever crashes, fails or is executed late, and even if two workers
\* were started with the same -id.
BuilderMutex ==
  \A v, w \in Worker : pc[v] \in Building /\ pc[w] \in Building => v = w

\* Why BuilderMutex holds: the lock carries the id of the worker that is building,
\* and a DEL that its client gave up on is the only one, and keeps the lock taken
\* until the server executes it.
LockHeld ==
  /\ \A w \in Worker : pc[w] \in Building => lock[BUILDER] = idOf[w]
  /\ \A l \in late : l.cmd.op = "DELLOCK" =>
       /\ lock[BUILDER] # NoId
       /\ \A w \in Worker : pc[w] \notin Building
       /\ \A m \in late : m.cmd.op = "DELLOCK" => m = l

\* createBlock and deQueueAll: no transaction is put twice into one block, and none
\* into two blocks, or into a block while it stays in the pool for the next one,
\* unless the DEL of a dequeue that had read it was refused: whatever workers do at
\* the same time, die, fail or have executed late, nothing else mines it twice.
AtMostOneBlockPerTx ==
  /\ \A i, j \in DOMAIN built : \A k \in DOMAIN built[i].txs, l \in DOMAIN built[j].txs :
       built[i].txs[k] = built[j].txs[l] =>
         \/ i = j /\ k = l
         \/ i # j /\ built[i].txs[k] \in kept
  /\ \A i \in DOMAIN built : Range(built[i].txs) \cap Range(txPool) \subseteq kept

\* broadcast under the builder lock: what is handed to the children is always
\* the newest block, so every child is sent the blocks in the order they were made.
BroadcastNewest ==
  [][sends' # sends => sends'[Len(sends')].block = built[Len(built)]]_vars

\* Transaction tx has been carried out, or given up, by the worker that accepted it.
Carried(tx) ==
  verdict[tx] = "funded" /\ \A w \in Worker : ~(pc[w] = "debit" /\ cur[w] = tx)

\* Account x is the payee of a negative amount: its "credit" takes money from it, and
\* the check of handleTransaction looked at somebody else's balance.
Drained(x) == \E tx \in Transaction : Carried(tx) /\ tx.value < 0 /\ tx.to = x

\* handleTransaction: the check before the two IncrBy keeps every balance non-negative
\* but that of an account to which somebody has "paid" a negative amount.
NoOverdraft == \A x \in Account : balance[x] < 0 => Drained(x)

\* Money that has left the payer and not yet reached the payee.
InTransit == SumFunction([w \in Worker |-> IF pc[w] = "credit" THEN cur[w].value ELSE 0])

\* Money paid to the empty address: IncrBy refuses the credit.
Burnt ==
  LET credited(tx) == tx \in acked \/ \E w \in Worker : pc[w] = "enqueue" /\ cur[w] = tx
  IN SumFunction([tx \in Transaction |->
       IF verdict[tx] = "funded" /\ tx.to = NoAddress /\ credited(tx) THEN tx.value ELSE 0])

\* The amount the genesis block brings into circulation.
Supply == SumFunction([a \in Account |->
            SumFunction([i \in DOMAIN GenesisTxs |-> Effect(GenesisTxs[i], a)])])

\* initBalance runs once and a transfer only moves money.  Without a crash every unit
\* is accounted for once initBalance is done, whatever the sign of the amounts.  A
\* crash destroys money (a debit without its credit, an initBalance cut short), and
\* creates some only if a negative amount was accepted, whose "credit" it may skip.
MoneyAccounted ==
  LET total == SumFunction(balance) + InTransit + Burnt
  IN /\ (\A tx \in Transaction : verdict[tx] = "funded" => tx.value >= 0) => total <= Supply
     /\ (/\ crashes = 0
         /\ lock[INITBALANCE] # NoId
         /\ \A w \in Worker : pc[w] \notin {"walk", "apply"}) => total = Supply

\* enQueue and deQueueAll: a transaction that was answered with status 0 is in the
\* pool, in the hands of the worker that builds a block, or in a block, unless it
\* was pushed between the LRANGE and the DEL of a dequeue or its builder crashed.
AckedNotLost ==
  \A tx \in acked \ exposed :
    \/ tx \in Range(txPool)
    \/ \E w \in Worker : pc[w] = "store" /\ tx \in Range(blk[w].txs)
    \/ \E i \in DOMAIN built : tx \in Range(built[i].txs)

\* storeBlock and genBlockId: a block stays in the database unless a later one was
\* built in the same second, and then got the same id.
BlockKept ==
  \A i \in DOMAIN built :
    (\A j \in DOMAIN built : j > i => built[j].id # built[i].id)
      => blockDB[built[i].id].txs = built[i].txs

\* The block timer: what is in the pool and was not exposed to a dequeue ends up in
\* a block, whichever workers get the lock and die in the meantime, as long as
\* none dies with the lock: generateNewBlock gives it back on every path.
PoolDrains ==
  \A tx \in Transaction :
    tx \in Range(txPool)
      ~> \/ \E i \in DOMAIN built : tx \in Range(built[i].txs)
         \/ tx \in exposed
         \/ diedAt \cap Building # {}
=============================================================================
