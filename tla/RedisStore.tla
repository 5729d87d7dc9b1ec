----------------------------- MODULE RedisStore -----------------------------
(***************************************************************************)
(* The Redis instance that every node_server process of a node talks to,   *)
(* as cache/RedisClient.cpp uses it.  The default configuration points     *)
(* dbService and cacheService at the same server, so balances, the         *)
(* transaction pool, the blocks, the locks and the set of child nodes are  *)
(* one shared state.  Redis executes one command at a time: a command is   *)
(* one atomic step here, and nothing larger is atomic.                     *)
(*                                                                         *)
(* A command is a record; Exec(c) is what the server does when it executes *)
(* c.  The client-side refusals of RedisClient (an empty key is never      *)
(* sent) are part of the command, because they too leave the store alone.  *)
(***************************************************************************)
EXTENDS Integers, Sequences

CONSTANTS
  Account,       \* addresses that own a balance key
  NoAddress,     \* the empty address ""
  Transaction,   \* the transactions clients submit, one element per submission
  GenesisTxs,    \* the transactions of the block test/initSuperWallet.cpp stores
  MaxSecond,     \* bound: how far time(NULL) runs
  Genesis,       \* conf initBlockId, the id of the first block
  NoId,          \* the empty string as block id, lock value or link
  lastBlockKey,  \* conf lastBlockKey
  WorkerId,      \* the strings FPService::_id takes (flag -id)
  Node           \* host:port of the child nodes

VARIABLES
  balance,       \* address -> integer; an absent key reads as 0
  txPool,        \* the list under conf txPoolKey
  blockDB,       \* block key -> block, EmptyBlock when the key is absent
  lock,          \* lock key -> _id of the owner, NoId when the key is absent
  childNodes     \* the set under conf childNodesKey

store == <<balance, txPool, blockDB, lock, childNodes>>

Address == Account \cup {NoAddress}
\* The values of time(NULL): the seed of rand, so the id of a block.
Second == 1..MaxSecond

BlockId == Second \cup {Genesis}
BlockKey == BlockId \cup {lastBlockKey}
LockKey == {"_BLOCK_BUILDER_LOCK_", "_INIT_BALANCE_LOCKER"}

Tx == Transaction \cup {GenesisTxs[i] : i \in DOMAIN GenesisTxs}

\* The fields of class Block that the service reads; _timestamp is only logged.
Block == [id : BlockId \cup {NoId}, prev : BlockId \cup {NoId},
          next : BlockId \cup {NoId}, txs : Seq(Tx)]

\* A default-constructed Block, which getBlock leaves when the key is absent.
EmptyBlock == [id |-> NoId, prev |-> NoId, next |-> NoId, txs |-> <<>>]

GenesisBlock == [EmptyBlock EXCEPT !.id = Genesis, !.txs = GenesisTxs]

\* What tx adds to the balance of address a (updateBalance, one transaction).
Effect(tx, a) ==
  (IF tx.to = a THEN tx.value ELSE 0) - (IF tx.from = a THEN tx.value ELSE 0)

\* The amount of a transaction is a signed number, and nobody looks at its sign.
ASSUME StoreAssumption ==
  /\ MaxSecond \in Nat \ {0}
  /\ NoAddress \notin Account
  /\ NoId \notin BlockId
  /\ NoId \notin WorkerId
  /\ Genesis \notin Second
  /\ lastBlockKey \notin BlockId \cup {NoId}
  /\ \A tx \in Transaction :
       tx.from \in Address /\ tx.to \in Address /\ tx.value \in Int
  /\ GenesisTxs \in Seq({GenesisTxs[i] : i \in DOMAIN GenesisTxs})

-----------------------------------------------------------------------------
(* The commands the service issues to change the store. *)

INCRBY(key, by) == [op |-> "INCRBY", key |-> key, by |-> by]
RPUSH(tx)       == [op |-> "RPUSH", tx |-> tx]
DELPOOL         == [op |-> "DELPOOL"]
SET(block)      == [op |-> "SET", block |-> block]
SETNX(key, id)  == [op |-> "SETNX", key |-> key, id |-> id]
DELLOCK(key)    == [op |-> "DELLOCK", key |-> key]
SADD(node)      == [op |-> "SADD", node |-> node]

(* What the server does with each of them. *)

\* RedisClient::IncrBy refuses the empty key; an absent key counts from 0.
IncrBy(key, by) ==
  /\ balance' = IF key \in Account THEN [balance EXCEPT ![key] = @ + by] ELSE balance
  /\ UNCHANGED <<txPool, blockDB, lock, childNodes>>

RPush(tx) ==
  /\ txPool' = Append(txPool, tx)
  /\ UNCHANGED <<balance, blockDB, lock, childNodes>>

DeletePool ==
  /\ txPool' = <<>>
  /\ UNCHANGED <<balance, blockDB, lock, childNodes>>

\* Mutant: the empty key is not refused.
SetAnyKey(block) ==
  /\ blockDB' = [k \in DOMAIN blockDB \cup {block.id} |->
                   IF k = block.id THEN block ELSE blockDB[k]]
  /\ UNCHANGED <<balance, txPool, lock, childNodes>>

\* storeBlock: the key is the block's own id, and an empty key is refused.
Set(block) ==
  /\ blockDB' = IF block.id \in BlockId
                  THEN [blockDB EXCEPT ![block.id] = block] ELSE blockDB
  /\ UNCHANGED <<balance, txPool, lock, childNodes>>

\* SET key id NX, with no expiry: an existing key keeps its value.
SetNX(key, id) ==
  /\ lock' = IF lock[key] = NoId THEN [lock EXCEPT ![key] = id] ELSE lock
  /\ UNCHANGED <<balance, txPool, blockDB, childNodes>>

DeleteLock(key) ==
  /\ lock' = [lock EXCEPT ![key] = NoId]
  /\ UNCHANGED <<balance, txPool, blockDB, childNodes>>

SAdd(node) ==
  /\ childNodes' = childNodes \cup {node}
  /\ UNCHANGED <<balance, txPool, blockDB, lock>>

Exec(c) ==
  \/ c.op = "INCRBY"  /\ IncrBy(c.key, c.by)
  \/ c.op = "RPUSH"   /\ RPush(c.tx)
  \/ c.op = "DELPOOL" /\ DeletePool
  \/ c.op = "SET"     /\ Set(c.block)
  \/ c.op = "SETNX"   /\ SetNX(c.key, c.id)
  \/ c.op = "DELLOCK" /\ DeleteLock(c.key)
  \/ c.op = "SADD"    /\ SAdd(c.node)

Command ==
  [op : {"INCRBY"}, key : Address, by : Int]
    \cup [op : {"RPUSH"}, tx : Transaction]
    \cup [op : {"DELPOOL"}]
    \cup [op : {"SET"}, block : Block]
    \cup [op : {"SETNX"}, key : LockKey, id : WorkerId]
    \cup [op : {"DELLOCK"}, key : LockKey]
    \cup [op : {"SADD"}, node : Node]

\* A store in which only the genesis block has been written.
StoreInit ==
  /\ balance = [a \in Account |-> 0]
  /\ txPool = <<>>
  /\ blockDB = [k \in BlockKey |-> IF k = Genesis THEN GenesisBlock ELSE EmptyBlock]
  /\ lock = [k \in LockKey |-> NoId]
  /\ childNodes = {}

StoreTypeOK ==
  /\ balance \in [Account -> Int]
  /\ txPool \in Seq(Tx)
  /\ blockDB \in [BlockKey -> Block]
  /\ lock \in [LockKey -> WorkerId \cup {NoId}]
  /\ childNodes \subseteq Node
=============================================================================
