--------------------------- MODULE FPLedgerProofs ---------------------------
(***************************************************************************)
(* Proofs about FPLedger, for any set of workers, accounts and             *)
(* transactions, any dispatching of transactions, and any number of        *)
(* crashes and failed commands, where a theorem does not say otherwise:    *)
(*                                                                         *)
(*   1. types, who is where, the tokens, the chain of blocks, the funds;   *)
(*   2. the way of a transaction: from the hands of the worker that        *)
(*      handles it into the pool, out of the pool into the hands of the    *)
(*      builder, and from there into a block, the database and the         *)
(*      broadcast;                                                         *)
(*   3. where the money is: as long as no command fails, FPLedger accounts *)
(*      for all of it and implements Bank.                                 *)
(***************************************************************************)
EXTENDS LedgerBank, FiniteSetTheorems, NaturalsInduction, WellFoundedInduction, TLAPS

-----------------------------------------------------------------------------
(* 1. Types, tokens, the chain of blocks, the funds *)

\* Every command of Command leaves the store well typed (RedisClient).
LEMMA ExecType ==
  ASSUME StoreTypeOK, NEW c \in Command, Exec(c)
  PROVE  StoreTypeOK'
<1> USE StoreAssumption DEF StoreTypeOK
<1>1. CASE c.op = "INCRBY" /\ IncrBy(c.key, c.by)
  <2>1. c.by \in Int
    BY <1>1 DEF Command
  <2>2. QED
    BY <1>1, <2>1 DEF IncrBy
<1>2. CASE c.op = "RPUSH" /\ RPush(c.tx)
  <2>1. c.tx \in Tx
    BY <1>2 DEF Command, Tx
  <2>2. QED
    BY <1>2, <2>1 DEF RPush
<1>3. CASE c.op = "DELPOOL" /\ DeletePool
  BY <1>3 DEF DeletePool
<1>4. CASE c.op = "SET" /\ Set(c.block)
  <2>1. c.block \in Block
    BY <1>4 DEF Command
  <2>2. QED
    BY <1>4, <2>1 DEF Set, BlockKey
<1>5. CASE c.op = "SETNX" /\ SetNX(c.key, c.id)
  <2>1. c.key \in LockKey /\ c.id \in WorkerId
    BY <1>5 DEF Command
  <2>2. QED
    BY <1>5, <2>1 DEF SetNX
<1>6. CASE c.op = "DELLOCK" /\ DeleteLock(c.key)
  BY <1>6 DEF DeleteLock
<1>7. CASE c.op = "SADD" /\ SAdd(c.node)
  <2>1. c.node \in Node
    BY <1>7 DEF Command
  <2>2. QED
    BY <1>7, <2>1 DEF SAdd
<1>8. QED
  BY <1>1, <1>2, <1>3, <1>4, <1>5, <1>6, <1>7 DEF Exec

\* A call keeps everything it touches well typed, whether it succeeds or fails.
LEMMA CallType ==
  ASSUME TypeOK, NEW w \in Worker, NEW c \in Command, NEW ok \in Label, NEW fail \in Label,
         Call(w, c, ok, fail)
  PROVE  /\ StoreTypeOK'
         /\ pc' \in [Worker -> Label]
         /\ late' \subseteq [n : Nat, cmd : Command]
         /\ faults' \in Nat
<1>1. CASE Exec(c) /\ Goto(w, ok) /\ UNCHANGED link
  BY <1>1, ExecType DEF TypeOK, Goto, link
<1>2. CASE Fail(c) /\ Goto(w, fail)
  BY <1>2 DEF TypeOK, Goto, Fail, store, StoreTypeOK
<1>3. QED
  BY <1>1, <1>2 DEF Call

\* The blocks a worker works with, and the pool, only carry transactions.
LEMMA EmptyBlockType == EmptyBlock \in Block
BY DEF EmptyBlock, Block

\* Types and ChainUnlinked are inductive together.
TypeInv == TypeOK /\ ChainUnlinked

\* A fresh store and freshly started workers (FPService::init) satisfy TypeInv.
LEMMA InitTypeInv == Init => TypeInv
<1> SUFFICES ASSUME Init PROVE TypeInv
  OBVIOUS
<1>1. GenesisTxs \in Seq(Tx)
  BY StoreAssumption DEF Tx
<1>2. GenesisBlock \in Block
  BY <1>1 DEF GenesisBlock, EmptyBlock, Block, BlockId
<1>3. StoreTypeOK
  BY <1>2, EmptyBlockType DEF Init, StoreInit, StoreTypeOK, BlockKey, BlockId
<1>4. TypeOK
  BY <1>3, EmptyBlockType, StoreAssumption
    DEF Init, TypeOK, Label, Verdict, Second
<1>5. ChainUnlinked
  BY StoreAssumption DEF Init, StoreInit, ChainUnlinked, KeysFixed, LocalsOf, BlockKey, BlockId, EmptyBlock
<1>6. QED
  BY <1>4, <1>5 DEF TypeInv

\* No command but a SET of the genesis id writes the two fixed keys.
LEMMA ExecKeysFixed ==
  ASSUME StoreTypeOK, NEW c \in Command, Exec(c),
         c.op = "SET" => c.block.id # Genesis,
         blockDB[lastBlockKey] = EmptyBlock, blockDB[Genesis] = GenesisBlock
  PROVE  blockDB'[lastBlockKey] = EmptyBlock /\ blockDB'[Genesis] = GenesisBlock
<1>1. CASE c.op = "SET" /\ Set(c.block)
  BY <1>1, StoreAssumption DEF Set, StoreTypeOK
<1>2. CASE c.op # "SET"
  BY <1>2 DEF Exec, IncrBy, RPush, DeletePool, SetNX, DeleteLock, SAdd
<1>3. QED
  BY <1>1, <1>2 DEF Exec

\* A command that fails and may execute late writes the two fixed keys as little as
\* one that succeeds (RedisCache::Set of storeBlock).
LEMMA CallKeysFixed ==
  ASSUME TypeOK, KeysFixed, NEW w \in Worker, NEW c \in Command, NEW ok, NEW fail,
         Call(w, c, ok, fail), c.op = "SET" => c.block.id # Genesis
  PROVE  KeysFixed'
<1>1. CASE Exec(c) /\ UNCHANGED link
  BY <1>1, ExecKeysFixed DEF TypeOK, KeysFixed, link
<1>2. CASE Fail(c)
  BY <1>2 DEF KeysFixed, Fail, store
<1>3. QED
  BY <1>1, <1>2 DEF Call

\* A worker whose locals do not change keeps LocalsOf.
LEMMA OthersKeepLocals ==
  ASSUME NEW v \in Worker, LocalsOf(v),
         pc'[v] = pc[v], cur'[v] = cur[v], walk'[v] = walk[v],
         last'[v] = last[v], blk'[v] = blk[v]
  PROVE  LocalsOf(v)'
BY DEF LocalsOf

\* The part of the state that only the handlers of worker w change.
LEMMA LocalFrame ==
  ASSUME TypeInv, NEW w \in Worker,
         KeysFixed', LocalsOf(w)',
         \A v \in Worker \ {w} : /\ pc'[v] = pc[v] /\ cur'[v] = cur[v]
                                 /\ walk'[v] = walk[v] /\ last'[v] = last[v]
                                 /\ blk'[v] = blk[v]
  PROVE  ChainUnlinked'
<1>1. ASSUME NEW v \in Worker PROVE LocalsOf(v)'
  BY <1>1, OthersKeepLocals DEF TypeInv, ChainUnlinked
<1>2. QED
  BY <1>1 DEF ChainUnlinked

\* init: the tryLock of initBalance keeps TypeInv.
LEMMA InitLockType ==
  ASSUME TypeInv, NEW w \in Worker, InitLock(w)
  PROVE  TypeInv'
<1> DEFINE c == SETNX(INITBALANCE, idOf[w])
           ok == IF lock[INITBALANCE] = NoId THEN "walk" ELSE "idle"
<1>1. c \in Command /\ ok \in Label /\ "idle" \in Label
  BY LedgerAssumption DEF SETNX, Command, INITBALANCE, LockKey, Label
<1>2. TypeOK'
  BY <1>1, CallType DEF InitLock, TypeInv, TypeOK, hist, BlockId
<1>3. KeysFixed'
  BY <1>1, CallKeysFixed DEF InitLock, TypeInv, ChainUnlinked, SETNX
<1>4. pc' = [pc EXCEPT ![w] = pc'[w]] /\ pc'[w] \in {"walk", "idle"}
  BY DEF InitLock, Call, Goto, TypeInv, TypeOK
<1>5. LocalsOf(w)'
  BY <1>4 DEF InitLock, TypeInv, ChainUnlinked, LocalsOf, TypeOK
<1>6. ChainUnlinked'
  BY <1>3, <1>4, <1>5, LocalFrame DEF InitLock, TypeInv, TypeOK
<1>7. QED
  BY <1>2, <1>6 DEF TypeInv

\* initBalance: getBlock finds the genesis block and nothing after it.
LEMMA WalkChainType ==
  ASSUME TypeInv, NEW w \in Worker, WalkChain(w)
  PROVE  TypeInv'
<1>1. walk[w] = Genesis /\ blockDB[walk[w]] = GenesisBlock
  BY DEF WalkChain, TypeInv, ChainUnlinked, KeysFixed, LocalsOf
<1>2. GenesisBlock.next = NoId
  BY DEF GenesisBlock, EmptyBlock
<1>3. BalanceMap(GenesisBlock) \subseteq [key : Address, by : Int]
  BY GenesisAssumption
<1>4. /\ todo' \in [Worker -> SUBSET [key : Address, by : Int]]
      /\ walk' = [walk EXCEPT ![w] = NoId]
      /\ \/ pc' = [pc EXCEPT ![w] = "apply"]
         \/ pc' = [pc EXCEPT ![w] = "idle"]
  BY <1>1, <1>2, <1>3 DEF WalkChain, TypeInv, TypeOK, Goto
<1>5. /\ UNCHANGED <<store, cur, blk, last, crashes, now, hist>>
      /\ late' = late /\ faults' \in Nat
  BY DEF WalkChain, FailRead, link, TypeInv, TypeOK
<1>6. TypeOK'
  BY <1>4, <1>5 DEF TypeInv, TypeOK, StoreTypeOK, store, hist, Label
<1>7. KeysFixed'
  BY <1>5 DEF TypeInv, ChainUnlinked, KeysFixed, store
<1>8. LocalsOf(w)'
  BY <1>4, <1>5 DEF TypeInv, ChainUnlinked, LocalsOf, TypeOK
<1>9. ChainUnlinked'
  BY <1>4, <1>5, <1>7, <1>8, LocalFrame DEF TypeInv, TypeOK
<1>10. QED
  BY <1>6, <1>9 DEF TypeInv

\* updateBalance: an INCRBY of the map keeps TypeInv.
LEMMA UpdateBalanceType ==
  ASSUME TypeInv, NEW w \in Worker, UpdateBalance(w)
  PROVE  TypeInv'
<1> DEFINE then(p) == IF todo[w] # {p} THEN "apply"
                      ELSE IF walk[w] = NoId THEN "idle" ELSE "walk"
<1>1. PICK p \in todo[w] :
        /\ Call(w, INCRBY(p.key, p.by), then(p), then(p))
        /\ todo' = [todo EXCEPT ![w] = @ \ {p}]
  BY DEF UpdateBalance
<1>2. INCRBY(p.key, p.by) \in Command /\ then(p) \in Label
  BY DEF INCRBY, Command, Label, TypeInv, TypeOK
<1>3. TypeOK'
  BY <1>1, <1>2, CallType DEF UpdateBalance, TypeInv, TypeOK, hist
<1>4. KeysFixed'
  BY <1>1, <1>2, CallKeysFixed DEF TypeInv, ChainUnlinked, INCRBY
<1>5. pc' = [pc EXCEPT ![w] = then(p)]
  BY <1>1 DEF Call, Goto
<1>6. LocalsOf(w)'
  BY <1>5 DEF UpdateBalance, TypeInv, ChainUnlinked, LocalsOf, TypeOK
<1>7. ChainUnlinked'
  BY <1>4, <1>5, <1>6, LocalFrame DEF UpdateBalance, TypeInv, TypeOK
<1>8. QED
  BY <1>3, <1>7 DEF TypeInv

\* handleTransaction: the GET keeps TypeInv and fixes the transaction in hand.
LEMMA QueryBalanceType ==
  ASSUME TypeInv, NEW w \in Worker, NEW tx \in Transaction, QueryBalance(w, tx)
  PROVE  TypeInv'
<1>1. /\ UNCHANGED <<store, blk, last, walk, todo, late, crashes, now>>
      /\ UNCHANGED <<acked, diedAt, exposed, kept, built, sends>>
      /\ faults' \in Nat
  BY DEF QueryBalance, Decide, Refused, FailRead, link, TypeInv, TypeOK
<1>2. \/ /\ pc' = [pc EXCEPT ![w] = "debit"] \/ pc' = [pc EXCEPT ![w] = "enqueue"]
         /\ cur' = [cur EXCEPT ![w] = tx] /\ tx.from \in Account
      \/ UNCHANGED <<pc, cur>>
  BY DEF QueryBalance, Decide, Goto
<1>3. verdict' \in [Transaction -> Verdict]
  BY DEF QueryBalance, Decide, TypeInv, TypeOK, Verdict
<1>4. TypeOK'
  BY <1>1, <1>2, <1>3 DEF TypeInv, TypeOK, StoreTypeOK, store, Label
<1>5. KeysFixed'
  BY <1>1 DEF TypeInv, ChainUnlinked, KeysFixed, store
<1>6. LocalsOf(w)'
  BY <1>1, <1>2 DEF TypeInv, ChainUnlinked, LocalsOf, TypeOK
<1>7. ChainUnlinked'
  BY <1>1, <1>2, <1>5, <1>6, LocalFrame DEF TypeInv, TypeOK
<1>8. QED
  BY <1>4, <1>7 DEF TypeInv

\* The transaction in the hands of a worker that is past the check.
LEMMA CurType ==
  ASSUME TypeInv, NEW w \in Worker, pc[w] \in {"debit", "credit", "enqueue"}
  PROVE  /\ cur[w] \in Transaction /\ cur[w].from \in Account
         /\ cur[w].to \in Address /\ cur[w].value \in Int
BY StoreAssumption DEF TypeInv, ChainUnlinked, LocalsOf

\* handleTransaction: the two INCRBY keep TypeInv.
LEMMA PaymentType ==
  ASSUME TypeInv, NEW w \in Worker, Debit(w) \/ Credit(w)
  PROVE  TypeInv'
<1>1. PICK c \in Command, l \in {"credit", "enqueue"} :
        Call(w, c, l, l) /\ c.op = "INCRBY"
  <2>1. CASE Debit(w)
    <3>1. INCRBY(cur[w].from, -cur[w].value) \in Command
      BY <2>1, CurType DEF Debit, INCRBY, Command, Address
    <3>2. QED
      BY <2>1, <3>1 DEF Debit, INCRBY
  <2>2. CASE Credit(w)
    <3>1. INCRBY(cur[w].to, cur[w].value) \in Command
      BY <2>2, CurType DEF Credit, INCRBY, Command
    <3>2. QED
      BY <2>2, <3>1 DEF Credit, INCRBY
  <2>3. QED
    BY <2>1, <2>2
<1>2. UNCHANGED <<cur, blk, last, walk, todo, crashes, now, hist>>
  BY DEF Debit, Credit
<1>3. TypeOK'
  BY <1>1, <1>2, CallType DEF TypeInv, TypeOK, hist, Label
<1>4. KeysFixed'
  BY <1>1, CallKeysFixed DEF TypeInv, ChainUnlinked
<1>5. pc' = [pc EXCEPT ![w] = l]
  BY <1>1 DEF Call, Goto
<1>6. LocalsOf(w)'
  BY <1>1, <1>2, <1>5, CurType DEF Debit, Credit, TypeInv, ChainUnlinked, LocalsOf, TypeOK
<1>7. ChainUnlinked'
  BY <1>2, <1>4, <1>5, <1>6, LocalFrame DEF TypeInv, TypeOK
<1>8. QED
  BY <1>3, <1>7 DEF TypeInv

\* handleTransaction: the RPUSH and the answer keep TypeInv.
LEMMA EnQueueType ==
  ASSUME TypeInv, NEW w \in Worker, EnQueue(w)
  PROVE  TypeInv'
<1>1. cur[w] \in Transaction /\ RPUSH(cur[w]) \in Command /\ "idle" \in Label
  BY CurType DEF EnQueue, RPUSH, Command, Label
<1>2. cur' = [cur EXCEPT ![w] = EmptyTx] /\ UNCHANGED <<blk, last, walk>>
  BY DEF EnQueue
<1>3. TypeOK'
  BY <1>1, CallType DEF EnQueue, TypeInv, TypeOK, Tx
<1>4. KeysFixed'
  BY <1>1, CallKeysFixed DEF EnQueue, TypeInv, ChainUnlinked, RPUSH
<1>5. pc' = [pc EXCEPT ![w] = "idle"]
  BY DEF EnQueue, Call, Goto
<1>6. LocalsOf(w)'
  BY <1>2, <1>5 DEF TypeInv, ChainUnlinked, LocalsOf, TypeOK
<1>7. ChainUnlinked'
  BY <1>2, <1>4, <1>5, <1>6, LocalFrame DEF TypeInv, TypeOK
<1>8. QED
  BY <1>3, <1>7 DEF TypeInv

\* generateNewBlock: tryLock keeps TypeInv.
LEMMA TryLockType ==
  ASSUME TypeInv, NEW w \in Worker, TryLock(w)
  PROVE  TypeInv'
<1> DEFINE c == SETNX(BUILDER, idOf[w])
           ok == IF lock[BUILDER] = NoId THEN "getLast" ELSE "idle"
<1>1. c \in Command /\ ok \in Label /\ "idle" \in Label
  BY LedgerAssumption DEF SETNX, Command, BUILDER, LockKey, Label, Building
<1>2. UNCHANGED <<cur, blk, last, walk, todo, crashes, now, hist>>
  BY DEF TryLock
<1>3. TypeOK'
  BY <1>1, <1>2, CallType DEF TryLock, TypeInv, TypeOK, hist
<1>4. KeysFixed'
  BY <1>1, CallKeysFixed DEF TryLock, TypeInv, ChainUnlinked, SETNX
<1>5. \E l \in {"getLast", "idle"} : pc' = [pc EXCEPT ![w] = l]
  BY DEF TryLock, Call, Goto
<1>6. LocalsOf(w)'
  BY <1>2, <1>5 DEF TypeInv, ChainUnlinked, LocalsOf, TypeOK
<1>7. ChainUnlinked'
  BY <1>2, <1>4, <1>5, <1>6, LocalFrame DEF TypeInv, TypeOK
<1>8. QED
  BY <1>3, <1>7 DEF TypeInv

\* The three steps that read the store into the locals of createBlock, broadcast
\* and releaseLock.
LEMMA ReadingType ==
  ASSUME TypeInv, NEW w \in Worker,
         GetLast(w) \/ LRange(w) \/ Broadcast(w) \/ ReleaseGet(w)
  PROVE  TypeInv'
<1>1. /\ UNCHANGED <<store, late, cur, walk, todo, crashes, now>>
      /\ UNCHANGED <<verdict, acked, diedAt, exposed, kept, built>>
      /\ faults' \in Nat
  BY DEF GetLast, LRange, Broadcast, ReleaseGet, Read, FailRead, link, hist, TypeInv, TypeOK
<1>2. \E l \in Building \cup {"idle"} : pc' = [pc EXCEPT ![w] = l]
  BY DEF GetLast, LRange, Broadcast, ReleaseGet, Read, Goto, Building
<1>3. [EmptyBlock EXCEPT !.txs = txPool] \in Block
  BY DEF EmptyBlock, Block, TypeInv, TypeOK, StoreTypeOK
<1>4. last' \in [Worker -> Block] /\ blk' \in [Worker -> Block]
  BY <1>3, EmptyBlockType
    DEF GetLast, LRange, Broadcast, ReleaseGet, TypeInv, TypeOK, StoreTypeOK, BlockKey
<1>5. /\ last' = [last EXCEPT ![w] = last'[w]] /\ last'[w].id = NoId
      /\ blk' = [blk EXCEPT ![w] = blk'[w]] /\ blk'[w].id # Genesis
  <2>1. EmptyBlock.id = NoId /\ [EmptyBlock EXCEPT !.txs = txPool].id = NoId /\ NoId # Genesis
    BY StoreAssumption DEF EmptyBlock, BlockId
  <2>2. QED
    BY <2>1 DEF GetLast, LRange, Broadcast, ReleaseGet, TypeInv, TypeOK,
                ChainUnlinked, KeysFixed, LocalsOf
<1>6. sends' \in Seq([block : Block, to : SUBSET Node])
  <2> DEFINE Message == [block : Block, to : SUBSET Node]
             message == [block |-> blk[w], to |-> childNodes]
  <2>1. message \in Message /\ sends \in Seq(Message)
    BY DEF TypeInv, TypeOK, StoreTypeOK
  <2>2. sends' = sends \/ sends' = Append(sends, message)
    BY DEF GetLast, LRange, Broadcast, ReleaseGet, hist
  <2> HIDE DEF Message, message
  <2>3. sends' \in Seq(Message)
    BY <2>1, <2>2
  <2>4. QED
    BY <2>3 DEF Message
<1>7. TypeOK'
  BY <1>1, <1>2, <1>4, <1>6 DEF TypeInv, TypeOK, StoreTypeOK, store, Label
<1>8. KeysFixed'
  BY <1>1 DEF TypeInv, ChainUnlinked, KeysFixed, store
<1>9. LocalsOf(w)'
  BY <1>1, <1>2, <1>5 DEF TypeInv, ChainUnlinked, LocalsOf, TypeOK, Building
<1>10. ChainUnlinked'
  BY <1>1, <1>2, <1>5, <1>8, <1>9, LocalFrame DEF TypeInv, TypeOK
<1>11. QED
  BY <1>7, <1>10 DEF TypeInv

\* deQueueAll: the DEL keeps TypeInv.
LEMMA DelPoolType ==
  ASSUME TypeInv, NEW w \in Worker, DelPool(w)
  PROVE  TypeInv'
<1>1. DELPOOL \in Command /\ {"relGet", "store"} \subseteq Label
  BY DEF DELPOOL, Command, Label, Building
<1>2. UNCHANGED <<cur, blk, last, walk, todo, crashes, now,
                  verdict, acked, diedAt, exposed, built, sends>>
  BY DEF DelPool
<1>5. \E l \in {"relGet", "store"} : pc' = [pc EXCEPT ![w] = l]
  BY DEF DelPool, Call, Goto
<1>9. ASSUME Refused, kept' = kept \cup Range(blk[w].txs) PROVE TypeOK' /\ KeysFixed'
  <2>1. UNCHANGED <<store, late>> /\ faults' \in Nat
    BY <1>9 DEF Refused, FailRead, TypeInv, TypeOK
  <2>2. blk[w].txs \in Seq(Tx)
    BY DEF TypeInv, TypeOK, Block
  <2>3. kept' \subseteq Tx
    BY <1>9, <2>2 DEF Range, TypeInv, TypeOK
  <2>4. TypeOK'
    BY <1>1, <1>2, <1>5, <2>1, <2>3 DEF TypeInv, TypeOK, StoreTypeOK, store
  <2>5. KeysFixed'
    BY <2>1 DEF TypeInv, ChainUnlinked, KeysFixed, store
  <2>6. QED
    BY <2>4, <2>5
<1>10. ASSUME Call(w, DELPOOL, IF blk[w].txs = <<>> THEN "relGet" ELSE "store", "relGet"),
              UNCHANGED kept
       PROVE  TypeOK' /\ KeysFixed'
  <2>1. TypeOK'
    BY <1>1, <1>2, <1>10, CallType DEF TypeInv, TypeOK
  <2>2. KeysFixed'
    BY <1>1, <1>10, CallKeysFixed DEF TypeInv, ChainUnlinked, DELPOOL
  <2>3. QED
    BY <2>1, <2>2
<1>3. TypeOK' /\ KeysFixed'
  BY <1>9, <1>10 DEF DelPool
<1>6. LocalsOf(w)'
  BY <1>2, <1>5 DEF TypeInv, ChainUnlinked, LocalsOf, TypeOK
<1>7. ChainUnlinked'
  BY <1>2, <1>3, <1>5, <1>6, LocalFrame DEF TypeInv, TypeOK
<1>8. QED
  BY <1>3, <1>7 DEF TypeInv

\* createBlock: the new block gets a second as its id, so it never replaces genesis.
LEMMA StoreBlockType ==
  ASSUME TypeInv, NEW w \in Worker, StoreBlock(w)
  PROVE  TypeInv'
<1> DEFINE block == [blk[w] EXCEPT !.id = now, !.prev = last[w].id]
<1>1. blk[w] \in Block /\ last[w] \in Block /\ now \in BlockId /\ now # Genesis
  BY StoreAssumption DEF TypeInv, TypeOK, BlockId
<1>2. block \in Block /\ block.id = now
  BY <1>1 DEF Block
<1>3. SET(block) \in Command /\ "storeLast" \in Label
  BY <1>2 DEF SET, Command, Label, Building
<1>4. [last[w] EXCEPT !.next = now] \in Block /\ [last[w] EXCEPT !.next = now].id = last[w].id
  BY <1>1 DEF Block
<1>5. /\ Call(w, SET(block), "storeLast", "storeLast")
      /\ blk' = [blk EXCEPT ![w] = block]
      /\ last' = [last EXCEPT ![w] = [last[w] EXCEPT !.next = now]]
      /\ built' = Append(built, block)
      /\ UNCHANGED <<cur, walk, todo, crashes, now, verdict, acked, diedAt, exposed, kept, sends>>
  BY DEF StoreBlock
<1> HIDE DEF block
<1>6. TypeOK'
  BY <1>2, <1>3, <1>4, <1>5, CallType DEF TypeInv, TypeOK
<1>7. KeysFixed'
  BY <1>1, <1>2, <1>3, <1>5, CallKeysFixed DEF TypeInv, ChainUnlinked, SET
<1>8. pc' = [pc EXCEPT ![w] = "storeLast"]
  BY <1>5 DEF Call, Goto
<1>9. LocalsOf(w)'
  BY <1>1, <1>2, <1>4, <1>5, <1>8 DEF TypeInv, ChainUnlinked, LocalsOf, TypeOK
<1>10. ChainUnlinked'
  BY <1>5, <1>7, <1>8, <1>9, LocalFrame DEF TypeInv, TypeOK
<1>11. QED
  BY <1>6, <1>10 DEF TypeInv

\* createBlock: lastBlock has an empty id, and storing it writes no key.
LEMMA StoreLastType ==
  ASSUME TypeInv, NEW w \in Worker, StoreLast(w)
  PROVE  TypeInv'
<1>1. SET(last[w]) \in Command /\ last[w].id # Genesis /\ "broadcast" \in Label
  BY StoreAssumption
    DEF SET, Command, Label, Building, TypeInv, TypeOK, ChainUnlinked, LocalsOf, BlockId
<1>2. UNCHANGED <<cur, blk, last, walk, todo, crashes, now, hist>>
  BY DEF StoreLast
<1>3. TypeOK'
  BY <1>1, <1>2, CallType DEF StoreLast, TypeInv, TypeOK, hist
<1>4. KeysFixed'
  BY <1>1, CallKeysFixed DEF StoreLast, TypeInv, ChainUnlinked, SET
<1>5. pc' = [pc EXCEPT ![w] = "broadcast"]
  BY DEF StoreLast, Call, Goto
<1>6. LocalsOf(w)'
  BY <1>2, <1>5 DEF TypeInv, ChainUnlinked, LocalsOf, TypeOK
<1>7. ChainUnlinked'
  BY <1>2, <1>4, <1>5, <1>6, LocalFrame DEF TypeInv, TypeOK
<1>8. QED
  BY <1>3, <1>7 DEF TypeInv

\* releaseLock: the DEL keeps TypeInv.
LEMMA ReleaseDelType ==
  ASSUME TypeInv, NEW w \in Worker, ReleaseDel(w)
  PROVE  TypeInv'
<1>1. DELLOCK(BUILDER) \in Command /\ "idle" \in Label
  BY DEF DELLOCK, Command, Label, BUILDER, LockKey
<1>2. /\ blk' = [blk EXCEPT ![w] = EmptyBlock] /\ last' = [last EXCEPT ![w] = EmptyBlock]
      /\ UNCHANGED <<cur, walk, todo, crashes, now, hist>>
  BY DEF ReleaseDel
<1>3. TypeOK'
  BY <1>1, <1>2, CallType, EmptyBlockType DEF ReleaseDel, TypeInv, TypeOK, hist
<1>4. KeysFixed'
  BY <1>1, CallKeysFixed DEF ReleaseDel, TypeInv, ChainUnlinked, DELLOCK
<1>5. pc' = [pc EXCEPT ![w] = "idle"]
  BY DEF ReleaseDel, Call, Goto
<1>6. LocalsOf(w)'
  BY <1>2, <1>5, StoreAssumption
    DEF TypeInv, ChainUnlinked, LocalsOf, TypeOK, EmptyBlock, BlockId
<1>7. ChainUnlinked'
  BY <1>2, <1>4, <1>5, <1>6, LocalFrame DEF TypeInv, TypeOK
<1>8. QED
  BY <1>3, <1>7 DEF TypeInv

\* handleLogin: the SADD keeps TypeInv.
LEMMA HandleLoginType ==
  ASSUME TypeInv, NEW w \in Worker, NEW node \in Node, HandleLogin(w, node)
  PROVE  TypeInv'
<1>1. SADD(node) \in Command /\ "idle" \in Label
  BY DEF SADD, Command, Label
<1>2. UNCHANGED <<cur, blk, last, walk, todo, crashes, now, hist>>
  BY DEF HandleLogin
<1>3. TypeOK'
  BY <1>1, <1>2, CallType DEF HandleLogin, TypeInv, TypeOK, hist
<1>4. KeysFixed'
  BY <1>1, CallKeysFixed DEF HandleLogin, TypeInv, ChainUnlinked, SADD
<1>5. pc' = [pc EXCEPT ![w] = "idle"]
  BY DEF HandleLogin, Call, Goto
<1>6. LocalsOf(w)'
  BY <1>2, <1>5 DEF TypeInv, ChainUnlinked, LocalsOf, TypeOK
<1>7. ChainUnlinked'
  BY <1>2, <1>4, <1>5, <1>6, LocalFrame DEF TypeInv, TypeOK
<1>8. QED
  BY <1>3, <1>7 DEF TypeInv

\* A crash forgets the locals of its worker and keeps TypeInv.
LEMMA CrashType ==
  ASSUME TypeInv, NEW w \in Worker, Crash(w)
  PROVE  TypeInv'
<1>1. Range(blk[w].txs) \subseteq Tx
  <2>1. blk[w].txs \in Seq(Tx)
    BY DEF TypeInv, TypeOK, Block
  <2>2. QED
    BY <2>1 DEF Range
<1>2. TypeOK'
  <2>1. diedAt' \subseteq Label /\ "down" \in Label
    BY DEF Crash, TypeInv, TypeOK, Label
  <2>2. QED
    BY <1>1, <2>1, EmptyBlockType
      DEF Crash, Goto, TypeInv, TypeOK, StoreTypeOK, store, link
<1>3. KeysFixed'
  BY DEF Crash, TypeInv, ChainUnlinked, KeysFixed, store, link
<1>4. LocalsOf(w)'
  BY StoreAssumption
    DEF Crash, Goto, TypeInv, LocalsOf, TypeOK, EmptyBlock, BlockId
<1>5. ChainUnlinked'
  BY <1>3, <1>4, LocalFrame DEF Crash, Goto, TypeInv, TypeOK
<1>6. QED
  BY <1>2, <1>5 DEF TypeInv

\* Worker::restart keeps TypeInv.
LEMMA RestartType ==
  ASSUME TypeInv, NEW w \in Worker, Restart(w)
  PROVE  TypeInv'
<1>1. TypeOK'
  BY DEF Restart, Goto, TypeInv, TypeOK, StoreTypeOK, store, link, hist, Label
<1>2. KeysFixed'
  BY DEF Restart, TypeInv, ChainUnlinked, KeysFixed, store, link
<1>3. LocalsOf(w)'
  BY DEF Restart, Goto, TypeInv, ChainUnlinked, LocalsOf, TypeOK
<1>4. ChainUnlinked'
  BY <1>2, <1>3, LocalFrame DEF Restart, Goto, TypeInv, TypeOK
<1>5. QED
  BY <1>1, <1>4 DEF TypeInv

\* Late commands and the clock keep TypeInv.
LEMMA EnvironmentType ==
  ASSUME TypeInv, LateExec \/ Tick \/ UNCHANGED vars
  PROVE  TypeInv'
<1>1. CASE LateExec
  <2>1. PICK l \in late : Exec(l.cmd) /\ late' = late \ {l}
    BY <1>1 DEF LateExec
  <2>2. UNCHANGED <<proc, faults, crashes, now, hist>>
    BY <1>1 DEF LateExec
  <2>3. l.cmd \in Command /\ (l.cmd.op = "SET" => l.cmd.block.id # Genesis)
    BY DEF TypeInv, TypeOK, ChainUnlinked, KeysFixed
  <2>4. TypeOK'
    BY <2>1, <2>2, <2>3, ExecType DEF TypeInv, TypeOK, proc, hist
  <2>5. KeysFixed'
    BY <2>1, <2>3, ExecKeysFixed DEF TypeInv, TypeOK, ChainUnlinked, KeysFixed
  <2>6. QED
    BY <2>2, <2>4, <2>5 DEF TypeInv, ChainUnlinked, LocalsOf, proc
<1>2. CASE Tick
  <2>1. TypeOK'
    BY <1>2 DEF Tick, TypeInv, TypeOK, StoreTypeOK, store, proc, link, hist
  <2>2. QED
    BY <1>2, <2>1
      DEF Tick, TypeInv, ChainUnlinked, KeysFixed, LocalsOf, store, proc, link
<1>3. CASE UNCHANGED vars
  BY <1>3 DEF vars, TypeInv, TypeOK, StoreTypeOK, ChainUnlinked, KeysFixed, LocalsOf,
              store, proc, link, hist
<1>4. QED
  BY <1>1, <1>2, <1>3

\* Every step of the node keeps TypeInv.
LEMMA NextTypeInv == TypeInv /\ [Next]_vars => TypeInv'
<1> SUFFICES ASSUME TypeInv, [Next]_vars PROVE TypeInv'
  OBVIOUS
<1>1. ASSUME NEW w \in Worker, Handler(w) PROVE TypeInv'
  BY <1>1, InitLockType, WalkChainType, UpdateBalanceType, PaymentType, EnQueueType,
     ReadingType, DelPoolType, StoreBlockType, StoreLastType, ReleaseDelType
    DEF Handler
<1>2. ASSUME NEW w \in Worker, TryLock(w) \/ Crash(w) \/ Restart(w) PROVE TypeInv'
  BY <1>2, TryLockType, CrashType, RestartType
<1>3. ASSUME NEW w \in Worker, NEW tx \in Transaction, QueryBalance(w, tx) PROVE TypeInv'
  BY <1>3, QueryBalanceType
<1>4. ASSUME NEW w \in Worker, NEW node \in Node, HandleLogin(w, node) PROVE TypeInv'
  BY <1>4, HandleLoginType
<1>5. CASE LateExec \/ Tick \/ UNCHANGED vars
  BY <1>5, EnvironmentType
<1>6. QED
  BY <1>1, <1>2, <1>3, <1>4, <1>5 DEF Next

\* FPService keeps its store and its locals well typed, and no block is ever
\* linked into the chain (ChainUnlinked), whatever crashes or fails.
THEOREM TypeCorrect == Spec => [](TypeOK /\ ChainUnlinked)
<1>1. TypeInv => TypeOK /\ ChainUnlinked
  BY DEF TypeInv
<1>2. QED
  BY <1>1, InitTypeInv, NextTypeInv, PTL DEF Spec

-----------------------------------------------------------------------------
(* Mutual exclusion of block building *)

LockInv == BuilderMutex /\ LockHeld

\* The builder lock is a key of its own, and an id is never the absent value.
LEMMA LockFacts ==
  /\ BUILDER \in LockKey /\ BUILDER # INITBALANCE
  /\ \A w \in Worker : idOf[w] # NoId /\ idOf[w] \in WorkerId
BY StoreAssumption, LedgerAssumption DEF BUILDER, INITBALANCE, LockKey

\* A step of w that leaves the builder lock alone, does not enter the critical
\* section and leaves no DEL behind.
LEMMA LockFrame ==
  ASSUME TypeInv, LockInv, NEW w \in Worker, NEW l \in Label,
         lock'[BUILDER] = lock[BUILDER],
         pc' = [pc EXCEPT ![w] = l],
         l \in Building => pc[w] \in Building,
         \A m \in late' : m.cmd.op = "DELLOCK" => m \in late
  PROVE  LockInv'
<1>1. \A v \in Worker : pc'[v] \in Building => pc[v] \in Building
  BY DEF TypeInv, TypeOK
<1>2. BuilderMutex'
  BY <1>1 DEF LockInv, BuilderMutex
<1>3. LockHeld'
  BY <1>1 DEF LockInv, LockHeld
<1>4. QED
  BY <1>2, <1>3 DEF LockInv

\* A call that is neither a SETNX nor a DEL of the builder lock.
LEMMA CallLockFrame ==
  ASSUME TypeInv, LockInv, NEW w \in Worker, NEW c \in Command,
         NEW ok \in Label, NEW fail \in Label, Call(w, c, ok, fail),
         c.op # "DELLOCK", c.op = "SETNX" => c.key = INITBALANCE,
         ok \in Building => pc[w] \in Building,
         fail \in Building => pc[w] \in Building
  PROVE  LockInv'
<1>1. CASE Exec(c) /\ Goto(w, ok) /\ UNCHANGED link
  <2>1. lock'[BUILDER] = lock[BUILDER]
    BY <1>1, LockFacts
      DEF Exec, IncrBy, RPush, DeletePool, Set, SetNX, SAdd, TypeInv, TypeOK, StoreTypeOK
  <2>2. QED
    BY <1>1, <2>1, LockFrame DEF Goto, link
<1>2. CASE Fail(c) /\ Goto(w, fail)
  <2>1. \A m \in late' : m.cmd.op = "DELLOCK" => m \in late
    BY <1>2 DEF Fail
  <2>2. lock'[BUILDER] = lock[BUILDER]
    BY <1>2 DEF Fail, store
  <2>3. QED
    BY <1>2, <2>1, <2>2, LockFrame DEF Goto
<1>3. QED
  BY <1>1, <1>2 DEF Call

\* Nobody builds and no DEL is under way in a fresh store.
LEMMA InitLockInv == Init => LockInv
BY DEF Init, LockInv, BuilderMutex, LockHeld, Building

\* tryLock: SETNX succeeds only when nobody is building.
LEMMA TryLockMutex ==
  ASSUME TypeInv, LockInv, NEW w \in Worker, TryLock(w)
  PROVE  LockInv'
<1> DEFINE c == SETNX(BUILDER, idOf[w])
<1>1. c.op = "SETNX" /\ c.key = BUILDER /\ c.id = idOf[w]
  BY DEF SETNX
<1>2. CASE Exec(c) /\ UNCHANGED link /\ lock[BUILDER] = NoId /\ Goto(w, "getLast")
  <2>1. SetNX(BUILDER, idOf[w])
    BY <1>1, <1>2 DEF Exec
  <2>2. lock'[BUILDER] = idOf[w] /\ late' = late
    BY <1>2, <2>1, LockFacts DEF SetNX, link, TypeInv, TypeOK, StoreTypeOK
  <2>3. \A v \in Worker : pc[v] \notin Building
    BY <1>2, LockFacts DEF LockInv, LockHeld
  <2>4. \A v \in Worker : pc'[v] \in Building => v = w
    BY <1>2, <2>3 DEF Goto, TypeInv, TypeOK
  <2>5. \A l \in late : l.cmd.op # "DELLOCK"
    BY <1>2 DEF LockInv, LockHeld
  <2>6. QED
    BY <2>2, <2>4, <2>5 DEF LockInv, BuilderMutex, LockHeld
<1>3. CASE Exec(c) /\ UNCHANGED link /\ lock[BUILDER] # NoId /\ Goto(w, "idle")
  <2>1. SetNX(BUILDER, idOf[w])
    BY <1>1, <1>3 DEF Exec
  <2>2. QED
    BY <1>3, <2>1, LockFrame DEF SetNX, Goto, link, Label, Building
<1>4. CASE Fail(c) /\ Goto(w, "idle")
  <2>1. \A m \in late' : m.cmd.op = "DELLOCK" => m \in late
    BY <1>1, <1>4 DEF Fail
  <2>2. QED
    BY <1>4, <2>1, LockFrame DEF Goto, Fail, store, Label, Building
<1>5. QED
  BY <1>2, <1>3, <1>4 DEF TryLock, Call

\* releaseLock: the DEL is executed now, later or never; in each case the lock stays
\* taken until it is, and nobody else can have issued one.
LEMMA ReleaseDelMutex ==
  ASSUME TypeInv, LockInv, NEW w \in Worker, ReleaseDel(w)
  PROVE  LockInv'
<1> DEFINE c == DELLOCK(BUILDER)
<1>1. c.op = "DELLOCK" /\ c.key = BUILDER
  BY DEF DELLOCK
<1>2. pc[w] \in Building /\ lock[BUILDER] = idOf[w]
  BY DEF ReleaseDel, Building, LockInv, LockHeld
<1>3. \A l \in late : l.cmd.op # "DELLOCK"
  BY <1>2 DEF LockInv, LockHeld
<1>4. pc' = [pc EXCEPT ![w] = "idle"]
  BY DEF ReleaseDel, Call, Goto
<1>5. \A v \in Worker : pc'[v] \notin Building
  BY <1>2, <1>4 DEF TypeInv, TypeOK, LockInv, BuilderMutex, Building
<1>6. BuilderMutex'
  BY <1>5 DEF BuilderMutex
<1>7. CASE Exec(c) /\ UNCHANGED link
  BY <1>3, <1>5, <1>6, <1>7 DEF LockInv, LockHeld, link
<1>8. CASE Fail(c)
  <2>1. lock'[BUILDER] # NoId
    BY <1>2, <1>8, LockFacts DEF Fail, store
  <2>2. \A l, m \in late' : l.cmd.op = "DELLOCK" /\ m.cmd.op = "DELLOCK" => l = m
    BY <1>3, <1>8 DEF Fail
  <2>3. QED
    BY <1>5, <1>6, <2>1, <2>2 DEF LockInv, LockHeld
<1>9. QED
  BY <1>7, <1>8 DEF ReleaseDel, Call

\* A late SETNX can take the lock only when nobody is building; a late DEL can
\* free it only then.
LEMMA LateExecMutex ==
  ASSUME TypeInv, LockInv, LateExec
  PROVE  LockInv'
<1>1. PICK l \in late : Exec(l.cmd) /\ late' = late \ {l}
  BY DEF LateExec
<1>2. pc' = pc
  BY DEF LateExec, proc
<1>3. BuilderMutex'
  BY <1>2 DEF LockInv, BuilderMutex
<1>4. CASE l.cmd.op = "DELLOCK"
  <2>1. \A m \in late' : m.cmd.op # "DELLOCK"
    BY <1>1, <1>4 DEF LockInv, LockHeld
  <2>2. \A w \in Worker : pc'[w] \notin Building
    BY <1>2, <1>4 DEF LockInv, LockHeld
  <2>3. QED
    BY <1>3, <2>1, <2>2 DEF LockInv, LockHeld
<1>5. CASE l.cmd.op = "SETNX"
  <2>1. SetNX(l.cmd.key, l.cmd.id)
    BY <1>1, <1>5 DEF Exec
  <2>2. l.cmd.id # NoId /\ l.cmd.key \in LockKey
    BY <1>5, StoreAssumption DEF TypeInv, TypeOK, Command
  <2>3. lock[BUILDER] # NoId => lock'[BUILDER] = lock[BUILDER]
    BY <2>1, <2>2, LockFacts DEF SetNX, TypeInv, TypeOK, StoreTypeOK
  <2>4. (\E w \in Worker : pc[w] \in Building) => lock[BUILDER] # NoId
    BY LockFacts DEF LockInv, LockHeld
  <2>5. QED
    BY <1>1, <1>2, <1>3, <2>3, <2>4 DEF LockInv, LockHeld
<1>6. CASE l.cmd.op \notin {"DELLOCK", "SETNX"}
  <2>1. lock' = lock
    BY <1>1, <1>6 DEF Exec, IncrBy, RPush, DeletePool, Set, SAdd
  <2>2. QED
    BY <1>1, <1>2, <1>3, <2>1 DEF LockInv, LockHeld
<1>7. QED
  BY <1>4, <1>5, <1>6

\* The other calls of the handlers do not touch the builder lock.
LEMMA HandlerMutex ==
  ASSUME TypeInv, LockInv, NEW w \in Worker, Handler(w)
  PROVE  LockInv'
<1>1. CASE InitLock(w)
  <2>1. SETNX(INITBALANCE, idOf[w]) \in Command
    BY LedgerAssumption DEF SETNX, Command, INITBALANCE, LockKey
  <2>2. QED
    BY <1>1, <2>1, CallLockFrame DEF InitLock, SETNX, Label, Building
<1>2. CASE WalkChain(w)
  <2>1. \E l \in {"apply", "idle"} : pc' = [pc EXCEPT ![w] = l]
    BY <1>2 DEF WalkChain, Goto
  <2>2. lock' = lock /\ late' = late
    BY <1>2 DEF WalkChain, FailRead, store, link
  <2>3. QED
    BY <2>1, <2>2, LockFrame DEF Label, Building
<1>3. CASE UpdateBalance(w)
  <2> DEFINE then(p) == IF todo[w] # {p} THEN "apply"
                        ELSE IF walk[w] = NoId THEN "idle" ELSE "walk"
  <2>1. PICK p \in todo[w] : Call(w, INCRBY(p.key, p.by), then(p), then(p))
    BY <1>3 DEF UpdateBalance
  <2>2. INCRBY(p.key, p.by) \in Command /\ then(p) \in Label /\ then(p) \notin Building
    BY DEF INCRBY, Command, Label, Building, TypeInv, TypeOK
  <2>3. INCRBY(p.key, p.by).op = "INCRBY"
    BY DEF INCRBY
  <2>4. QED
    BY <2>1, <2>2, <2>3, CallLockFrame
<1>4. CASE Debit(w)
  <2>1. INCRBY(cur[w].from, -cur[w].value) \in Command
    BY <1>4, CurType DEF Debit, INCRBY, Command, Address
  <2>2. QED
    BY <1>4, <2>1, CallLockFrame DEF Debit, INCRBY, Label, Building
<1>5. CASE Credit(w)
  <2>1. INCRBY(cur[w].to, cur[w].value) \in Command
    BY <1>5, CurType DEF Credit, INCRBY, Command
  <2>2. QED
    BY <1>5, <2>1, CallLockFrame DEF Credit, INCRBY, Label, Building
<1>6. CASE EnQueue(w)
  <2>1. RPUSH(cur[w]) \in Command
    BY <1>6, CurType DEF EnQueue, RPUSH, Command
  <2>2. QED
    BY <1>6, <2>1, CallLockFrame DEF EnQueue, RPUSH, Label, Building
<1>7. CASE GetLast(w) \/ LRange(w) \/ Broadcast(w) \/ ReleaseGet(w)
  <2>1. \E l \in Building \cup {"idle"} : pc' = [pc EXCEPT ![w] = l]
    BY <1>7 DEF GetLast, LRange, Broadcast, ReleaseGet, Read, Goto, Building
  <2>2. pc[w] \in Building /\ lock' = lock /\ late' = late
    BY <1>7 DEF GetLast, LRange, Broadcast, ReleaseGet, Read, FailRead, Building, store, link
  <2>3. QED
    BY <2>1, <2>2, LockFrame DEF Label
<1>8. CASE DelPool(w)
  <2>1. DELPOOL \in Command
    BY DEF DELPOOL, Command
  <2>2. CASE Refused
    <3>1. UNCHANGED <<lock, late>>
      BY <2>2 DEF Refused, FailRead, store
    <3>2. \E l \in {"relGet", "store"} : pc' = [pc EXCEPT ![w] = l]
      BY <1>8 DEF DelPool, Call, Goto
    <3>3. pc[w] \in Building
      BY <1>8 DEF DelPool, Building
    <3>4. QED
      BY <3>1, <3>2, <3>3, LockFrame DEF Label, Building
  <2>3. QED
    BY <1>8, <2>1, <2>2, CallLockFrame DEF DelPool, DELPOOL, Label, Building
<1>9. CASE StoreBlock(w)
  <2> DEFINE block == [blk[w] EXCEPT !.id = now, !.prev = last[w].id]
  <2>1. block \in Block
    <3>1. blk[w] \in Block /\ last[w] \in Block /\ now \in BlockId
      BY DEF TypeInv, TypeOK, BlockId
    <3>2. QED
      BY <3>1 DEF Block
  <2>2. SET(block) \in Command /\ SET(block).op = "SET"
    BY <2>1 DEF SET, Command
  <2>3. QED
    BY <1>9, <2>2, CallLockFrame DEF StoreBlock, Label, Building
<1>10. CASE StoreLast(w)
  <2>1. SET(last[w]) \in Command /\ SET(last[w]).op = "SET"
    BY DEF SET, Command, TypeInv, TypeOK
  <2>2. QED
    BY <1>10, <2>1, CallLockFrame DEF StoreLast, Label, Building
<1>11. CASE ReleaseDel(w)
  BY <1>11, ReleaseDelMutex
<1>12. QED
  BY <1>1, <1>2, <1>3, <1>4, <1>5, <1>6, <1>7, <1>8, <1>9, <1>10, <1>11 DEF Handler

\* Every step of the node keeps the builder lock exclusive.
LEMMA NextLockInv == TypeInv /\ LockInv /\ [Next]_vars => LockInv'
<1> SUFFICES ASSUME TypeInv, LockInv, [Next]_vars PROVE LockInv'
  OBVIOUS
<1>1. ASSUME NEW w \in Worker, Crash(w) \/ Restart(w) PROVE LockInv'
  <2>1. \E l \in {"down", "init"} : pc' = [pc EXCEPT ![w] = l]
    BY <1>1 DEF Crash, Restart, Goto
  <2>2. lock' = lock /\ late' = late
    BY <1>1 DEF Crash, Restart, store, link
  <2>3. QED
    BY <2>1, <2>2, LockFrame DEF Label, Building
<1>2. ASSUME NEW w \in Worker, NEW tx \in Transaction, QueryBalance(w, tx) PROVE LockInv'
  <2>1. pc' = pc \/ \E l \in {"debit", "enqueue"} : pc' = [pc EXCEPT ![w] = l]
    BY <1>2 DEF QueryBalance, Decide, Goto
  <2>2. lock' = lock /\ late' = late
    BY <1>2 DEF QueryBalance, Decide, Refused, FailRead, store, link
  <2>3. CASE pc' = pc
    BY <2>2, <2>3 DEF LockInv, BuilderMutex, LockHeld
  <2>4. QED
    BY <2>1, <2>2, <2>3, LockFrame DEF Label, Building
<1>3. ASSUME NEW w \in Worker, NEW node \in Node, HandleLogin(w, node) PROVE LockInv'
  <2>1. SADD(node) \in Command
    BY DEF SADD, Command
  <2>2. QED
    BY <1>3, <2>1, CallLockFrame DEF HandleLogin, SADD, Label, Building
<1>4. CASE Tick \/ UNCHANGED vars
  BY <1>4 DEF Tick, vars, store, proc, link, LockInv, BuilderMutex, LockHeld
<1>5. QED
  BY <1>1, <1>2, <1>3, <1>4, HandlerMutex, TryLockMutex, LateExecMutex DEF Next

\* generateNewBlock: at most one worker is between a successful tryLock and the DEL
\* of its releaseLock, for any number of workers, crashes, failed and late
\* commands, and for ids that need not even be distinct.
THEOREM BuilderMutualExclusion == Spec => []BuilderMutex
<1>1. LockInv => BuilderMutex
  BY DEF LockInv
<1>2. QED
  BY <1>1, InitTypeInv, NextTypeInv, InitLockInv, NextLockInv, PTL DEF Spec

-----------------------------------------------------------------------------
(* No overdraft when the dispatcher serialises the transactions of a payer *)

\* The transactions of one payer reach one worker only.
PayerAffinity == \A a \in Account : \A v, w \in Route[a] : v = w

\* The transactions handleTransaction has carried out or given up, and the payees whom
\* a negative amount among them has cost money.
Applied == {tx \in Transaction : Carried(tx)}
Drainees == {x \in Account : Drained(x)}

\* A debit that is about to be issued is covered unless its payer has been drained, and
\* what initBalance still has to apply only credits.
CoveredAt(w) ==
  /\ pc[w] = "debit" => /\ w \in Route[cur[w].from] /\ verdict[cur[w]] = "funded"
                        /\ balance[cur[w].from] >= cur[w].value \/ cur[w].from \in Drainees
  /\ pc[w] = "credit" => cur[w] \in Applied
  /\ \A p \in todo[w] : p.key \in Account => p.by >= 0

Covered == NoOverdraft /\ late = {} /\ \A w \in Worker : CoveredAt(w)

\* Before initBalance every balance is 0.
LEMMA InitCovered == Init => Covered
BY DEF Init, StoreInit, Covered, CoveredAt, NoOverdraft

\* handleTransaction accepts a transaction once: what has been carried out, or has
\* drained somebody, stays so while nobody gets another transaction to debit.
LEMMA DrainedStays ==
  ASSUME verdict' = verdict,
         \A v \in Worker : pc'[v] = "debit" => pc[v] = "debit" /\ cur'[v] = cur[v]
  PROVE  /\ Applied \subseteq Applied'
         /\ Drainees \subseteq Drainees'
BY DEF Applied, Drainees, Carried, Drained

\* A step that lowers no balance but a drained one and lets nobody issue a new debit or
\* credit.
LEMMA CoveredFrame ==
  ASSUME TypeInv, TypeInv', Covered, NEW w \in Worker, NEW l \in Label,
         \A a \in Account : balance'[a] >= balance[a] \/ a \in Drainees,
         late' = late, verdict' = verdict,
         pc' = [pc EXCEPT ![w] = l], l \notin {"debit", "credit"},
         \A v \in Worker \ {w} : cur'[v] = cur[v],
         \A v \in Worker : todo'[v] \subseteq todo[v]
  PROVE  Covered'
<1>1. \A v \in Worker : pc'[v] \in {"debit", "credit"} =>
        v # w /\ pc'[v] = pc[v] /\ cur'[v] = cur[v]
  BY DEF TypeInv, TypeOK
<1>2. /\ Applied \subseteq Applied'
      /\ Drainees \subseteq Drainees'
  BY <1>1, DrainedStays
<1>3. NoOverdraft'
  <2>1. ASSUME NEW a \in Account, balance'[a] < 0, a \notin Drainees PROVE FALSE
    <3>1. balance[a] \in Int /\ balance'[a] \in Int
      BY DEF TypeInv, TypeOK, StoreTypeOK
    <3>2. balance[a] < 0
      BY <2>1, <3>1
    <3>3. QED
      BY <2>1, <3>2 DEF Covered, NoOverdraft, Drainees
  <2>2. QED
    BY <1>2, <2>1 DEF NoOverdraft, Drainees
<1>4. ASSUME NEW v \in Worker, pc'[v] = "debit"
      PROVE  /\ v \in Route[cur'[v].from] /\ verdict'[cur'[v]] = "funded"
             /\ balance'[cur'[v].from] >= cur'[v].value \/ cur'[v].from \in Drainees'
  <2>1. v # w /\ pc[v] = "debit" /\ cur'[v] = cur[v]
    BY <1>1, <1>4
  <2>2. PICK a, n : a = cur[v].from /\ n = cur[v].value
    OBVIOUS
  <2>3. a \in Account /\ n \in Int
    BY <2>1, <2>2, CurType
  <2>4. balance[a] \in Int /\ balance'[a] \in Int
    BY <2>3 DEF TypeInv, TypeOK, StoreTypeOK
  <2>5. v \in Route[a] /\ verdict[cur[v]] = "funded" /\ (balance[a] >= n \/ a \in Drainees)
    BY <2>1, <2>2 DEF Covered, CoveredAt
  <2>6. balance'[a] >= n \/ a \in Drainees
    <3>1. CASE balance[a] >= n /\ balance'[a] >= balance[a]
      BY <2>3, <2>4, <3>1
    <3>2. QED
      BY <2>3, <2>5, <3>1
  <2>7. QED
    BY <1>2, <2>1, <2>2, <2>5, <2>6
<1>5. ASSUME NEW v \in Worker PROVE CoveredAt(v)'
  <2>1. pc'[v] = "credit" => cur'[v] \in Applied'
    <3>1. CASE pc'[v] = "credit"
      <4>1. cur[v] \in Applied /\ cur'[v] = cur[v]
        BY <1>1, <3>1 DEF Covered, CoveredAt
      <4>2. QED
        BY <1>2, <4>1
    <3>2. QED
      BY <3>1
  <2>2. \A p \in todo'[v] : p.key \in Account => p.by >= 0
    BY DEF Covered, CoveredAt
  <2>3. QED
    BY <1>4, <2>1, <2>2 DEF CoveredAt
<1>6. QED
  BY <1>3, <1>5 DEF Covered

\* Without faults a call is the execution of its command.
LEMMA CallExecutes ==
  ASSUME TypeInv, MaxFaults = 0, NEW w \in Worker, NEW c, NEW ok, NEW fail,
         Call(w, c, ok, fail)
  PROVE  Exec(c) /\ pc' = [pc EXCEPT ![w] = ok] /\ late' = late
BY DEF Call, Fail, Goto, link, TypeInv, TypeOK

\* Without faults no reply is an error, and the DEL of deQueueAll is executed.
LEMMA DelPoolExecutes ==
  ASSUME TypeInv, MaxFaults = 0, NEW w \in Worker, DelPool(w)
  PROVE  /\ Exec(DELPOOL) /\ late' = late /\ UNCHANGED hist
         /\ pc' = [pc EXCEPT ![w] = IF blk[w].txs = <<>> THEN "relGet" ELSE "store"]
<1>1. ~Refused
  BY DEF Refused, FailRead, TypeInv, TypeOK
<1>2. QED
  BY <1>1, CallExecutes DEF DelPool, hist

\* Every command but INCRBY leaves the balances alone.
LEMMA OnlyIncrBy ==
  ASSUME NEW c, Exec(c), c.op # "INCRBY"
  PROVE  balance' = balance
BY DEF Exec, RPush, DeletePool, Set, SetNX, DeleteLock, SAdd

\* What an executed INCRBY does to each balance.
LEMMA IncrByAdds ==
  ASSUME TypeInv, NEW key, NEW by \in Int, Exec(INCRBY(key, by))
  PROVE  \A a \in Account : balance'[a] = IF a = key THEN balance[a] + by ELSE balance[a]
<1>1. IncrBy(key, by)
  BY DEF Exec, INCRBY
<1>2. QED
  BY <1>1 DEF IncrBy, TypeInv, TypeOK, StoreTypeOK

\* An INCRBY by an amount that is not negative, or of no account, lowers no balance.
LEMMA IncrByCredits ==
  ASSUME TypeInv, NEW key, NEW by \in Int, Exec(INCRBY(key, by)),
         key \in Account => by >= 0
  PROVE  \A a \in Account : balance'[a] >= balance[a]
<1>1. \A a \in Account : balance'[a] = IF a = key THEN balance[a] + by ELSE balance[a]
  BY IncrByAdds
<1>2. ASSUME NEW a \in Account PROVE balance'[a] >= balance[a]
  <2>1. balance[a] \in Int
    BY DEF TypeInv, TypeOK, StoreTypeOK
  <2>2. CASE a = key
    <3>1. balance'[a] = balance[a] + by /\ by >= 0
      BY <1>1, <2>2
    <3>2. QED
      BY <2>1, <3>1
  <2>3. CASE a # key
    BY <1>1, <2>1, <2>3
  <2>4. QED
    BY <2>2, <2>3
<1>3. QED
  BY <1>2

\* handleTransaction: the only step that lowers a balance was checked by the same
\* worker, and no other worker can have spent from that payer since.
LEMMA DebitCovered ==
  ASSUME TypeInv, TypeInv', Covered, MaxFaults = 0, PayerAffinity,
         NEW w \in Worker, Debit(w)
  PROVE  Covered'
<1>1. cur[w].from \in Account /\ cur[w].value \in Int /\ -cur[w].value \in Int
  BY CurType DEF Debit
<1>2. /\ Exec(INCRBY(cur[w].from, -cur[w].value))
      /\ pc' = [pc EXCEPT ![w] = "credit"] /\ late' = late
  BY CallExecutes DEF Debit
<1>3. \A a \in Account : balance'[a] = IF a = cur[w].from
                                         THEN balance[a] + (-cur[w].value) ELSE balance[a]
  BY <1>1, <1>2, IncrByAdds
<1>4. /\ w \in Route[cur[w].from] /\ verdict[cur[w]] = "funded"
      /\ balance[cur[w].from] >= cur[w].value \/ cur[w].from \in Drainees
  BY DEF Covered, CoveredAt, Debit
<1>5. /\ pc'[w] = "credit" /\ cur' = cur /\ todo' = todo /\ verdict' = verdict
      /\ \A v \in Worker \ {w} : pc'[v] = pc[v]
  BY <1>2 DEF Debit, hist, TypeInv, TypeOK
<1>6. /\ Applied \subseteq Applied'
      /\ Drainees \subseteq Drainees'
  BY <1>5, DrainedStays
<1>7. NoOverdraft'
  <2>1. ASSUME NEW a \in Account, balance'[a] < 0, a \notin Drainees PROVE FALSE
    <3>1. balance[a] \in Int /\ balance[a] >= 0
      BY <2>1 DEF NoOverdraft, Drainees, Covered, TypeInv, TypeOK, StoreTypeOK
    <3>2. CASE a = cur[w].from
      BY <1>1, <1>3, <1>4, <2>1, <3>1, <3>2
    <3>3. CASE a # cur[w].from
      BY <1>3, <2>1, <3>1, <3>3
    <3>4. QED
      BY <3>2, <3>3
  <2>2. QED
    BY <1>6, <2>1 DEF NoOverdraft, Drainees
<1>8. ASSUME NEW v \in Worker, v # w, pc[v] = "debit"
      PROVE  /\ cur[v].from # cur[w].from /\ cur[v].from \in Account
             /\ v \in Route[cur[v].from] /\ verdict[cur[v]] = "funded"
             /\ balance[cur[v].from] >= cur[v].value \/ cur[v].from \in Drainees
  <2>1. cur[v].from \in Account
    BY <1>8, CurType
  <2>2. /\ v \in Route[cur[v].from] /\ verdict[cur[v]] = "funded"
        /\ balance[cur[v].from] >= cur[v].value \/ cur[v].from \in Drainees
    BY <1>8 DEF Covered, CoveredAt
  <2>3. QED
    BY <1>4, <1>8, <2>1, <2>2 DEF PayerAffinity
<1>9. cur[w] \in Applied'
  <2>1. cur[w] \in Transaction
    BY CurType DEF Debit
  <2>2. \A v \in Worker : ~(pc'[v] = "debit" /\ cur'[v] = cur[w])
    BY <1>5, <1>8
  <2>3. QED
    BY <1>4, <1>5, <2>1, <2>2 DEF Applied, Carried
<1>10. ASSUME NEW v \in Worker PROVE CoveredAt(v)'
  <2>1. CASE v = w
    <3>1. \A p \in todo'[v] : p.key \in Account => p.by >= 0
      BY <1>5 DEF Covered, CoveredAt
    <3>2. cur[v] \in Applied'
      BY <1>9, <2>1
    <3>3. QED
      BY <1>5, <2>1, <3>1, <3>2 DEF CoveredAt
  <2>2. CASE v # w
    <3>1. pc'[v] = pc[v] /\ cur'[v] = cur[v] /\ todo'[v] = todo[v]
      BY <1>5, <2>2
    <3>2. pc[v] = "credit" => cur[v] \in Applied'
      BY <1>6 DEF Covered, CoveredAt
    <3>3. pc[v] = "debit" =>
            /\ v \in Route[cur[v].from] /\ verdict[cur[v]] = "funded"
            /\ balance'[cur[v].from] >= cur[v].value \/ cur[v].from \in Drainees'
      BY <1>3, <1>6, <1>8, <2>2
    <3>4. \A p \in todo[v] : p.key \in Account => p.by >= 0
      BY DEF Covered, CoveredAt
    <3>5. QED
      BY <1>5, <3>1, <3>2, <3>3, <3>4 DEF CoveredAt
  <2>3. QED
    BY <2>1, <2>2
<1>11. QED
  BY <1>2, <1>7, <1>10 DEF Covered

\* handleTransaction: the GET lets through only a debit the balance covers.
LEMMA QueryBalanceCovered ==
  ASSUME TypeInv, TypeInv', Covered, MaxFaults = 0,
         NEW w \in Worker, NEW tx \in Transaction, QueryBalance(w, tx)
  PROVE  Covered'
<1>1. /\ balance' = balance /\ late' = late /\ todo' = todo
      /\ pc[w] = "idle" /\ verdict[tx] = "unsent"
  BY DEF QueryBalance, Decide, Refused, FailRead, store, link
<1>2. ~Refused
  BY DEF Refused, FailRead, TypeInv, TypeOK
<1>3. \A t \in Transaction \ {tx} : verdict'[t] = verdict[t]
  BY DEF QueryBalance, Decide, TypeInv, TypeOK
<1>4. /\ \A v \in Worker \ {w} : pc'[v] = pc[v] /\ cur'[v] = cur[v]
      /\ (pc'[w] \in {"debit", "enqueue"} /\ cur'[w] = tx) \/ pc'[w] = "idle"
  BY <1>1 DEF QueryBalance, Decide, Goto, TypeInv, TypeOK
<1>5. pc'[w] = "debit" =>
        /\ w \in Route[tx.from] /\ verdict'[tx] = "funded" /\ balance[tx.from] >= tx.value
  BY <1>1, <1>2 DEF QueryBalance, Decide, Goto, TypeInv, TypeOK
<1>6. Applied \subseteq Applied'
  <2>1. \A t \in Applied : t # tx /\ verdict'[t] = "funded"
    BY <1>1, <1>3 DEF Applied, Carried
  <2>2. QED
    BY <1>4, <2>1 DEF Applied, Carried
<1>7. Drainees \subseteq Drainees'
  BY <1>6 DEF Applied, Drainees, Drained
<1>8. NoOverdraft'
  BY <1>1, <1>7 DEF Covered, NoOverdraft, Drainees
<1>9. ASSUME NEW v \in Worker PROVE CoveredAt(v)'
  <2>1. \A p \in todo'[v] : p.key \in Account => p.by >= 0
    BY <1>1 DEF Covered, CoveredAt
  <2>2. CASE v = w
    <3>1. pc'[v] # "credit"
      BY <1>4, <2>2
    <3>2. pc'[v] = "debit" => cur'[v] = tx
      BY <1>4, <2>2
    <3>3. QED
      BY <1>1, <1>5, <2>1, <2>2, <3>1, <3>2 DEF CoveredAt
  <2>3. CASE v # w
    <3>1. pc'[v] = pc[v] /\ cur'[v] = cur[v]
      BY <1>4, <2>3
    <3>2. pc[v] = "credit" => cur[v] \in Applied'
      BY <1>6, CurType DEF Covered, CoveredAt
    <3>3. pc[v] = "debit" =>
            /\ v \in Route[cur[v].from] /\ verdict[cur[v]] = "funded"
            /\ balance[cur[v].from] >= cur[v].value \/ cur[v].from \in Drainees
      BY DEF Covered, CoveredAt
    <3>4. pc[v] = "debit" => verdict'[cur[v]] = "funded"
      BY <1>1, <1>3, <3>3, CurType
    <3>5. QED
      BY <1>1, <1>7, <2>1, <3>1, <3>2, <3>3, <3>4 DEF CoveredAt
  <2>4. QED
    BY <2>2, <2>3
<1>10. QED
  BY <1>1, <1>8, <1>9 DEF Covered

\* A step of a handler that has begun keeps every debit covered.
LEMMA HandlerCovered ==
  ASSUME TypeInv, TypeInv', Covered, MaxFaults = 0, PayerAffinity,
         NEW w \in Worker, Handler(w)
  PROVE  Covered'
<1> DEFINE Safe(l) == /\ \A a \in Account : balance'[a] >= balance[a] \/ a \in Drainees
                      /\ late' = late /\ verdict' = verdict /\ pc' = [pc EXCEPT ![w] = l]
                      /\ l \in Label \ {"debit", "credit"}
                      /\ \A v \in Worker \ {w} : cur'[v] = cur[v]
                      /\ \A v \in Worker : todo'[v] \subseteq todo[v]
<1>1. ASSUME NEW l, Safe(l) PROVE Covered'
  BY <1>1, CoveredFrame
<1>2. \A a \in Account : balance' = balance => balance'[a] >= balance[a]
  BY DEF TypeInv, TypeOK, StoreTypeOK
<1>3. CASE InitLock(w)
  <2> DEFINE l == IF lock[INITBALANCE] = NoId THEN "walk" ELSE "idle"
  <2>1. /\ Exec(SETNX(INITBALANCE, idOf[w])) /\ pc' = [pc EXCEPT ![w] = l] /\ late' = late
    BY <1>3, CallExecutes DEF InitLock
  <2>2. balance' = balance
    BY <2>1, OnlyIncrBy DEF SETNX
  <2>3. Safe(l)
    BY <1>2, <1>3, <2>1, <2>2 DEF InitLock, Label, hist
  <2>4. QED
    BY <1>1, <2>3
<1>4. CASE WalkChain(w)
  <2>1. walk[w] = Genesis /\ blockDB[walk[w]] = GenesisBlock
    BY <1>4 DEF WalkChain, TypeInv, ChainUnlinked, KeysFixed, LocalsOf
  <2>2. \A p \in BalanceMap(GenesisBlock) : p.key \in Account => p.by >= 0
    BY GenesisAssumption
  <2>3. /\ balance' = balance /\ late' = late /\ cur' = cur /\ verdict' = verdict
        /\ pc' = [pc EXCEPT ![w] = "apply"] \/ pc' = [pc EXCEPT ![w] = "idle"]
        /\ todo' = todo \/ todo' = [todo EXCEPT ![w] = BalanceMap(GenesisBlock)]
    BY <1>4, <2>1 DEF WalkChain, FailRead, Goto, store, link, hist
  <2>4. \A v \in Worker : \A p \in todo'[v] : p.key \in Account => p.by >= 0
    BY <2>2, <2>3 DEF Covered, CoveredAt, TypeInv, TypeOK
  <2>5. \A v \in Worker : pc'[v] \in {"debit", "credit"} => pc'[v] = pc[v]
    BY <2>3 DEF TypeInv, TypeOK
  <2>6. /\ Applied \subseteq Applied'
        /\ Drainees \subseteq Drainees'
    BY <2>3, <2>5, DrainedStays
  <2>7. NoOverdraft'
    BY <2>3, <2>6 DEF Covered, NoOverdraft, Drainees
  <2>8. ASSUME NEW v \in Worker PROVE CoveredAt(v)'
    BY <2>3, <2>4, <2>5, <2>6 DEF Covered, CoveredAt
  <2>9. QED
    BY <2>3, <2>7, <2>8 DEF Covered
<1>5. CASE UpdateBalance(w)
  <2> DEFINE then(p) == IF todo[w] # {p} THEN "apply"
                        ELSE IF walk[w] = NoId THEN "idle" ELSE "walk"
  <2>1. PICK p \in todo[w] : /\ Call(w, INCRBY(p.key, p.by), then(p), then(p))
                             /\ todo' = [todo EXCEPT ![w] = @ \ {p}]
    BY <1>5 DEF UpdateBalance
  <2>2. p.by \in Int /\ (p.key \in Account => p.by >= 0)
    BY DEF Covered, CoveredAt, TypeInv, TypeOK
  <2>3. Exec(INCRBY(p.key, p.by)) /\ pc' = [pc EXCEPT ![w] = then(p)] /\ late' = late
    BY <2>1, CallExecutes
  <2>4. \A a \in Account : balance'[a] >= balance[a]
    BY <2>2, <2>3, IncrByCredits
  <2>5. then(p) \in Label \ {"debit", "credit"}
    BY DEF Label
  <2>6. Safe(then(p))
    BY <1>5, <2>1, <2>3, <2>4, <2>5 DEF UpdateBalance, hist, TypeInv, TypeOK
  <2>7. QED
    BY <1>1, <2>6
<1>6. CASE Debit(w)
  BY <1>6, DebitCovered
<1>7. CASE Credit(w)
  <2>1. cur[w].value \in Int /\ cur[w] \in Transaction /\ cur[w] \in Applied
    BY <1>7, CurType DEF Credit, Covered, CoveredAt
  <2>2. /\ Exec(INCRBY(cur[w].to, cur[w].value))
        /\ pc' = [pc EXCEPT ![w] = "enqueue"] /\ late' = late
    BY <1>7, CallExecutes DEF Credit
  <2>3. \A a \in Account : balance'[a] >= balance[a] \/ a \in Drainees
    <3>1. CASE cur[w].value >= 0
      BY <2>1, <2>2, <3>1, IncrByCredits
    <3>2. CASE cur[w].value < 0
      <4>1. cur[w].to \in Account => cur[w].to \in Drainees
        BY <2>1, <3>2 DEF Applied, Drainees, Drained
      <4>2. \A a \in Account : a # cur[w].to => balance'[a] = balance[a]
        BY <2>1, <2>2, IncrByAdds
      <4>3. \A a \in Account : balance[a] \in Int
        BY DEF TypeInv, TypeOK, StoreTypeOK
      <4>4. QED
        BY <4>1, <4>2, <4>3
    <3>3. QED
      BY <2>1, <3>1, <3>2
  <2>4. Safe("enqueue")
    BY <1>7, <2>2, <2>3 DEF Credit, Label, hist
  <2>5. QED
    BY <1>1, <2>4
<1>8. CASE EnQueue(w)
  <2>1. Exec(RPUSH(cur[w])) /\ pc' = [pc EXCEPT ![w] = "idle"] /\ late' = late
    BY <1>8, CallExecutes DEF EnQueue
  <2>2. balance' = balance
    BY <2>1, OnlyIncrBy DEF RPUSH
  <2>3. Safe("idle")
    BY <1>2, <1>8, <2>1, <2>2 DEF EnQueue, Label, TypeInv, TypeOK
  <2>4. QED
    BY <1>1, <2>3
<1>9. CASE GetLast(w) \/ LRange(w) \/ Broadcast(w) \/ ReleaseGet(w)
  <2>1. PICK l \in Building \cup {"idle"} : pc' = [pc EXCEPT ![w] = l]
    BY <1>9 DEF GetLast, LRange, Broadcast, ReleaseGet, Read, Goto, Building
  <2>2. balance' = balance /\ late' = late /\ cur' = cur /\ todo' = todo
    BY <1>9 DEF GetLast, LRange, Broadcast, ReleaseGet, Read, FailRead, store, link
  <2>5. verdict' = verdict
    BY <1>9 DEF GetLast, LRange, Broadcast, ReleaseGet, hist
  <2>3. Safe(l)
    BY <1>2, <2>1, <2>2, <2>5 DEF Label, Building
  <2>4. QED
    BY <1>1, <2>3
<1>10. ASSUME NEW c, NEW l \in Label \ {"debit", "credit"}, c.op # "INCRBY",
              Call(w, c, l, l) \/ Call(w, c, l, "relGet"), UNCHANGED <<cur, todo, verdict>>
       PROVE  Covered'
  <2>1. Exec(c) /\ pc' = [pc EXCEPT ![w] = l] /\ late' = late
    BY <1>10, CallExecutes
  <2>2. balance' = balance
    BY <1>10, <2>1, OnlyIncrBy
  <2>3. Safe(l)
    BY <1>2, <1>10, <2>1, <2>2
  <2>4. QED
    BY <1>1, <2>3
<1>11. CASE DelPool(w)
  <2>1. (IF blk[w].txs = <<>> THEN "relGet" ELSE "store") \in Label \ {"debit", "credit"}
    BY DEF Label, Building
  <2>2. DELPOOL.op # "INCRBY"
    BY DEF DELPOOL
  <2>3. ~Refused
    BY DEF Refused, FailRead, TypeInv, TypeOK
  <2>4. QED
    BY <1>10, <1>11, <2>1, <2>2, <2>3 DEF DelPool
<1>12. CASE StoreBlock(w)
  <2>1. \A b : SET(b).op # "INCRBY"
    BY DEF SET
  <2>2. "storeLast" \in Label \ {"debit", "credit"}
    BY DEF Label, Building
  <2>3. QED
    BY <1>10, <1>12, <2>1, <2>2 DEF StoreBlock
<1>13. CASE StoreLast(w)
  <2>1. SET(last[w]).op # "INCRBY" /\ "broadcast" \in Label \ {"debit", "credit"}
    BY DEF SET, Label, Building
  <2>2. QED
    BY <1>10, <1>13, <2>1 DEF StoreLast, hist
<1>14. CASE ReleaseDel(w)
  <2>1. DELLOCK(BUILDER).op # "INCRBY" /\ "idle" \in Label \ {"debit", "credit"}
    BY DEF DELLOCK, Label
  <2>2. QED
    BY <1>10, <1>14, <2>1 DEF ReleaseDel, hist
<1>15. QED
  BY <1>3, <1>4, <1>5, <1>6, <1>7, <1>8, <1>9, <1>11, <1>12, <1>13, <1>14 DEF Handler

\* The step relation keeps every debit covered when no command fails.
LEMMA NextCovered ==
  ASSUME TypeInv, TypeInv', Covered, MaxFaults = 0, PayerAffinity, [Next]_vars
  PROVE  Covered'
<1>1. \A x \in Account : balance' = balance => balance'[x] >= balance[x]
  BY DEF TypeInv, TypeOK, StoreTypeOK
<1>2. ASSUME NEW w \in Worker, TryLock(w) PROVE Covered'
  <2> DEFINE l == IF lock[BUILDER] = NoId THEN "getLast" ELSE "idle"
  <2>1. /\ Exec(SETNX(BUILDER, idOf[w])) /\ pc' = [pc EXCEPT ![w] = l] /\ late' = late
    BY <1>2, CallExecutes DEF TryLock
  <2>2. balance' = balance /\ cur' = cur /\ todo' = todo /\ verdict' = verdict
    BY <1>2, <2>1, OnlyIncrBy DEF SETNX, TryLock, hist
  <2>3. l \in Label /\ l \notin {"debit", "credit"}
    BY DEF Label, Building
  <2>4. QED
    BY <1>1, <2>1, <2>2, <2>3, CoveredFrame
<1>3. ASSUME NEW w \in Worker, NEW node \in Node, HandleLogin(w, node) PROVE Covered'
  <2>1. Exec(SADD(node)) /\ pc' = [pc EXCEPT ![w] = "idle"] /\ late' = late
    BY <1>3, CallExecutes DEF HandleLogin
  <2>2. balance' = balance /\ cur' = cur /\ todo' = todo /\ verdict' = verdict
    BY <1>3, <2>1, OnlyIncrBy DEF SADD, HandleLogin, hist
  <2>3. QED
    BY <1>1, <2>1, <2>2, CoveredFrame DEF Label
<1>4. ASSUME NEW w \in Worker, Crash(w) \/ Restart(w) PROVE Covered'
  <2>1. PICK l \in {"down", "init"} : pc' = [pc EXCEPT ![w] = l]
    BY <1>4 DEF Crash, Restart, Goto
  <2>2. balance' = balance /\ late' = late /\ verdict' = verdict
    BY <1>4 DEF Crash, Restart, store, link, hist
  <2>3. /\ \A v \in Worker \ {w} : cur'[v] = cur[v]
        /\ \A v \in Worker : todo'[v] \subseteq todo[v]
    BY <1>4 DEF Crash, Restart, TypeInv, TypeOK
  <2>4. QED
    BY <1>1, <2>1, <2>2, <2>3, CoveredFrame DEF Label
<1>5. ~LateExec
  BY DEF LateExec, Covered
<1>6. CASE Tick \/ UNCHANGED vars
  BY <1>6 DEF Tick, vars, store, proc, link, hist, Covered, CoveredAt, NoOverdraft, Applied, Drainees,
              Carried, Drained
<1>7. QED
  BY <1>2, <1>3, <1>4, <1>5, <1>6, HandlerCovered, QueryBalanceCovered DEF Next

\* handleTransaction: only the payee of an accepted negative amount can ever owe money,
\* when every payer's transactions reach one worker only and no Redis command fails,
\* for any number of workers and of crashes.
THEOREM NoOverdraftWithAffinity ==
  ASSUME MaxFaults = 0, PayerAffinity
  PROVE  Spec => []NoOverdraft
<1>1. Covered => NoOverdraft
  BY DEF Covered
<1>2. TypeInv /\ TypeInv' /\ Covered /\ [Next]_vars => Covered'
  BY NextCovered
<1>3. QED
  BY <1>1, <1>2, InitTypeInv, NextTypeInv, InitCovered, PTL DEF Spec

-----------------------------------------------------------------------------
(* 2. The way of a transaction *)

\* FPService::handleTransaction, between the check and the answer.
Handling == {"debit", "credit", "enqueue"}

\* createBlock: the list read from the pool is in block._transactions.
Drafting == {"delPool", "store"}

\* createBlock and broadcast, once the block has been made.
Finished == {"storeLast", "broadcast"}

-----------------------------------------------------------------------------
(* The steps that do not touch the pool, a draft or a block *)

\* What all the other steps of FPLedger leave alone.  A draft that disappears with its
\* worker is exposed.
Quiet ==
  /\ UNCHANGED <<txPool, blockDB, built, verdict, acked, kept>>
  /\ exposed \subseteq exposed'
  /\ \A w \in Worker :
       /\ pc'[w] \in Handling => pc[w] \in Handling /\ cur'[w] = cur[w]
       /\ pc'[w] \in Drafting => pc[w] = pc'[w] /\ blk'[w] = blk[w]
       /\ pc'[w] \in Finished => pc[w] \in Finished /\ blk'[w] = blk[w]
       /\ pc[w] = "store" => pc'[w] = "store" \/ Range(blk[w].txs) \subseteq exposed'
  /\ \A l \in late' : l \in late \/ l.cmd.op # "RPUSH"
  /\ MaxFaults = 0 => late' = late

\* A call of a command that is neither RPUSH nor DEL of the pool nor a SET that the
\* server accepts (RedisCache).
LEMMA CallApart ==
  ASSUME TypeInv, NEW w \in Worker, NEW c \in Command, NEW ok \in Label, NEW fail \in Label,
         Call(w, c, ok, fail), c.op \notin {"RPUSH", "DELPOOL"},
         c.op = "SET" => c.block.id \notin BlockId
  PROVE  /\ UNCHANGED <<txPool, blockDB>>
         /\ \E l \in {ok, fail} : pc' = [pc EXCEPT ![w] = l]
         /\ \A l \in late' : l \in late \/ l.cmd.op # "RPUSH"
         /\ MaxFaults = 0 => late' = late
<1>1. CASE Exec(c) /\ Goto(w, ok) /\ UNCHANGED link
  <2>1. UNCHANGED <<txPool, blockDB>>
    BY <1>1 DEF Exec, IncrBy, Set, SetNX, DeleteLock, SAdd
  <2>2. QED
    BY <1>1, <2>1 DEF Goto, link
<1>2. CASE Fail(c) /\ Goto(w, fail)
  BY <1>2 DEF Fail, Goto, store, TypeInv, TypeOK
<1>3. QED
  BY <1>1, <1>2 DEF Call

\* The same for a step of worker w that changes nothing but pc and, if it leaves the
\* drafting and finished part of createBlock, its locals.
LEMMA QuietCall ==
  ASSUME TypeInv, NEW w \in Worker, NEW c \in Command, NEW ok \in Label, NEW fail \in Label,
         Call(w, c, ok, fail), c.op \notin {"RPUSH", "DELPOOL"},
         c.op = "SET" => c.block.id \notin BlockId,
         UNCHANGED <<cur, hist>>, \A v \in Worker \ {w} : blk'[v] = blk[v],
         pc[w] \notin Drafting,
         \A l \in {ok, fail} : /\ l \notin Drafting
                               /\ l \in Handling => pc[w] \in Handling
                               /\ l \in Finished => pc[w] \in Finished /\ blk'[w] = blk[w]
  PROVE  Quiet
<1>1. PICK l \in {ok, fail} : pc' = [pc EXCEPT ![w] = l]
  BY CallApart
<1>2. /\ UNCHANGED <<txPool, blockDB>>
      /\ \A m \in late' : m \in late \/ m.cmd.op # "RPUSH"
      /\ MaxFaults = 0 => late' = late
  BY CallApart
<1>3. UNCHANGED <<built, verdict, acked, exposed, kept>>
  BY DEF hist
<1>4. ASSUME NEW v \in Worker
      PROVE  /\ pc'[v] \in Handling => pc[v] \in Handling /\ cur'[v] = cur[v]
             /\ pc'[v] \in Drafting => pc[v] = pc'[v] /\ blk'[v] = blk[v]
             /\ pc'[v] \in Finished => pc[v] \in Finished /\ blk'[v] = blk[v]
             /\ pc[v] = "store" => pc'[v] = "store"
  <2>1. CASE v = w
    BY <1>1, <2>1 DEF TypeInv, TypeOK, Drafting
  <2>2. CASE v # w
    BY <1>1, <2>2 DEF TypeInv, TypeOK
  <2>3. QED
    BY <2>1, <2>2
<1>5. QED
  BY <1>2, <1>3, <1>4 DEF Quiet

\* The same for a step that reads, or only moves on.
LEMMA QuietMove ==
  ASSUME TypeInv, NEW w \in Worker, NEW l \in Label, pc' = [pc EXCEPT ![w] = l],
         UNCHANGED <<store, late, cur, blk, built, verdict, acked, kept>>,
         exposed' = exposed, pc[w] \notin Drafting, l \notin Drafting \cup Handling,
         l \in Finished => pc[w] \in Finished
  PROVE  Quiet
<1>1. ASSUME NEW v \in Worker
      PROVE  /\ pc'[v] \in Handling => pc[v] \in Handling
             /\ pc'[v] \in Drafting => pc[v] = pc'[v]
             /\ pc'[v] \in Finished => pc[v] \in Finished
             /\ pc[v] = "store" => pc'[v] = "store"
  <2>1. CASE v = w
    BY <2>1 DEF TypeInv, TypeOK, Drafting
  <2>2. CASE v # w
    BY <2>2 DEF TypeInv, TypeOK
  <2>3. QED
    BY <2>1, <2>2
<1>2. QED
  BY <1>1 DEF Quiet, store

\* The steps of initBalance and the two INCRBY of handleTransaction are quiet.
LEMMA PaymentQuiet ==
  ASSUME TypeInv, NEW w \in Worker,
         InitLock(w) \/ WalkChain(w) \/ UpdateBalance(w) \/ Debit(w) \/ Credit(w)
  PROVE  Quiet
<1> USE DEF Handling, Drafting, Finished
<1>1. CASE InitLock(w)
  <2> DEFINE c == SETNX(INITBALANCE, idOf[w])
             ok == IF lock[INITBALANCE] = NoId THEN "walk" ELSE "idle"
  <2>1. /\ c \in Command /\ c.op = "SETNX"
        /\ ok \in Label /\ "idle" \in Label /\ ok \in {"walk", "idle"}
    BY LedgerAssumption DEF SETNX, Command, INITBALANCE, LockKey, Label
  <2>2. Call(w, c, ok, "idle") /\ pc[w] = "init" /\ UNCHANGED <<cur, hist, blk>>
    BY <1>1 DEF InitLock
  <2> HIDE DEF c, ok
  <2>3. QED
    BY <2>1, <2>2, QuietCall
<1>2. CASE WalkChain(w)
  <2>1. /\ pc[w] = "walk" /\ UNCHANGED <<store, late, cur, blk, hist>>
        /\ \E l \in {"apply", "idle"} : pc' = [pc EXCEPT ![w] = l]
    BY <1>2 DEF WalkChain, FailRead, Goto, link
  <2>2. QED
    BY <2>1, QuietMove DEF Label, hist
<1>3. CASE UpdateBalance(w)
  <2> DEFINE then(p) == IF todo[w] # {p} THEN "apply"
                        ELSE IF walk[w] = NoId THEN "idle" ELSE "walk"
  <2>1. PICK p \in todo[w] : Call(w, INCRBY(p.key, p.by), then(p), then(p))
    BY <1>3 DEF UpdateBalance
  <2>2. INCRBY(p.key, p.by) \in Command /\ INCRBY(p.key, p.by).op = "INCRBY"
    BY DEF INCRBY, Command, TypeInv, TypeOK
  <2>3. then(p) \in Label /\ then(p) \in {"apply", "idle", "walk"}
    BY DEF Label
  <2>4. pc[w] = "apply" /\ UNCHANGED <<cur, hist, blk>>
    BY <1>3 DEF UpdateBalance
  <2> HIDE DEF then
  <2>5. QED
    BY <2>1, <2>2, <2>3, <2>4, QuietCall
<1>4. CASE Debit(w)
  <2>1. /\ INCRBY(cur[w].from, -cur[w].value) \in Command
        /\ INCRBY(cur[w].from, -cur[w].value).op = "INCRBY"
    BY <1>4, CurType DEF Debit, INCRBY, Command, Address
  <2>2. QED
    BY <1>4, <2>1, QuietCall DEF Debit, Label
<1>5. CASE Credit(w)
  <2>1. /\ INCRBY(cur[w].to, cur[w].value) \in Command
        /\ INCRBY(cur[w].to, cur[w].value).op = "INCRBY"
    BY <1>5, CurType DEF Credit, INCRBY, Command
  <2>2. QED
    BY <1>5, <2>1, QuietCall DEF Credit, Label
<1>6. QED
  BY <1>1, <1>2, <1>3, <1>4, <1>5

\* tryLock, getBlock(lastBlockKey), storeBlock(lastBlock), broadcast, releaseLock and
\* handleLogin are quiet: lastBlock has no id, so that its SET is refused.
LEMMA BuilderQuiet ==
  ASSUME TypeInv, NEW w \in Worker,
         \/ TryLock(w) \/ GetLast(w) \/ StoreLast(w) \/ Broadcast(w)
         \/ ReleaseGet(w) \/ ReleaseDel(w) \/ \E node \in Node : HandleLogin(w, node)
  PROVE  Quiet
<1> USE DEF Handling, Drafting, Finished
<1>1. CASE TryLock(w)
  <2> DEFINE c == SETNX(BUILDER, idOf[w])
             ok == IF lock[BUILDER] = NoId THEN "getLast" ELSE "idle"
  <2>1. /\ c \in Command /\ c.op = "SETNX"
        /\ ok \in Label /\ "idle" \in Label /\ ok \in {"getLast", "idle"}
    BY LedgerAssumption DEF SETNX, Command, BUILDER, LockKey, Label, Building
  <2>2. Call(w, c, ok, "idle") /\ pc[w] = "idle" /\ UNCHANGED <<cur, hist, blk>>
    BY <1>1 DEF TryLock
  <2> HIDE DEF c, ok
  <2>3. QED
    BY <2>1, <2>2, QuietCall
<1>2. CASE GetLast(w)
  <2>1. /\ pc[w] = "getLast" /\ UNCHANGED <<store, late, cur, blk, hist>>
        /\ pc' = [pc EXCEPT ![w] = "range"]
    BY <1>2 DEF GetLast, FailRead, Goto, link
  <2>2. QED
    BY <2>1, QuietMove DEF Label, Building, hist
<1>3. CASE StoreLast(w)
  <2>1. SET(last[w]) \in Command /\ SET(last[w]).op = "SET" /\ SET(last[w]).block = last[w]
    BY DEF SET, Command, TypeInv, TypeOK
  <2>2. last[w].id \notin BlockId
    BY StoreAssumption DEF TypeInv, ChainUnlinked, LocalsOf
  <2>3. /\ Call(w, SET(last[w]), "broadcast", "broadcast")
        /\ pc[w] = "storeLast" /\ UNCHANGED <<cur, hist, blk>>
    BY <1>3 DEF StoreLast
  <2>4. QED
    BY <2>1, <2>2, <2>3, QuietCall DEF Label, Building
<1>4. CASE Broadcast(w)
  <2>1. /\ pc[w] = "broadcast"
        /\ UNCHANGED <<store, late, cur, blk, built, verdict, acked, exposed, kept>>
        /\ pc' = [pc EXCEPT ![w] = "relGet"]
    BY <1>4 DEF Broadcast, FailRead, Goto, link
  <2>2. QED
    BY <2>1, QuietMove DEF Label, Building
<1>5. CASE ReleaseGet(w)
  <2>1. /\ pc[w] = "relGet" /\ UNCHANGED <<store, late, cur, blk, hist>>
        /\ \E l \in {"relDel", "idle"} : pc' = [pc EXCEPT ![w] = l]
    BY <1>5 DEF ReleaseGet, Read, FailRead, Goto, link
  <2>2. QED
    BY <2>1, QuietMove DEF Label, Building, hist
<1>6. CASE ReleaseDel(w)
  <2>1. DELLOCK(BUILDER) \in Command /\ DELLOCK(BUILDER).op = "DELLOCK"
    BY DEF DELLOCK, Command, BUILDER, LockKey
  <2>2. /\ Call(w, DELLOCK(BUILDER), "idle", "idle") /\ pc[w] = "relDel"
        /\ UNCHANGED <<cur, hist>> /\ \A v \in Worker \ {w} : blk'[v] = blk[v]
    BY <1>6 DEF ReleaseDel, TypeInv, TypeOK
  <2>3. QED
    BY <2>1, <2>2, QuietCall DEF Label
<1>7. CASE \E node \in Node : HandleLogin(w, node)
  <2>1. PICK node \in Node : HandleLogin(w, node)
    BY <1>7
  <2>2. SADD(node) \in Command /\ SADD(node).op = "SADD"
    BY DEF SADD, Command
  <2>3. QED
    BY <2>1, <2>2, QuietCall DEF HandleLogin, Label
<1>8. QED
  BY <1>1, <1>2, <1>3, <1>4, <1>5, <1>6, <1>7

\* A crash is quiet: it drops what is in the worker's hands, and exposes a draft that
\* is no longer in the pool.  So are the restart, the clock and stuttering.
LEMMA ProcessQuiet ==
  ASSUME TypeInv,
         (\E w \in Worker : Crash(w) \/ Restart(w)) \/ Tick \/ UNCHANGED vars
  PROVE  Quiet
<1> USE DEF Handling, Drafting, Finished
<1>1. ASSUME NEW w \in Worker, Crash(w) PROVE Quiet
  <2>1. /\ pc' = [pc EXCEPT ![w] = "down"]
        /\ UNCHANGED <<store, late, built, verdict, acked, kept>>
        /\ exposed \subseteq exposed'
        /\ pc[w] = "store" => Range(blk[w].txs) \subseteq exposed'
        /\ \A v \in Worker \ {w} : cur'[v] = cur[v] /\ blk'[v] = blk[v]
    BY <1>1 DEF Crash, Goto, link, TypeInv, TypeOK
  <2>2. \A v \in Worker : pc'[v] = IF v = w THEN "down" ELSE pc[v]
    BY <2>1 DEF TypeInv, TypeOK
  <2>3. QED
    BY <2>1, <2>2 DEF Quiet, store
<1>2. ASSUME NEW w \in Worker, Restart(w) PROVE Quiet
  BY <1>2, QuietMove DEF Restart, Goto, Label, hist, link
<1>3. CASE Tick \/ UNCHANGED vars
  BY <1>3 DEF Tick, vars, store, proc, link, hist, Quiet
<1>4. QED
  BY <1>1, <1>2, <1>3

\* Every step is quiet or is one of six: the GET that puts a transaction into a hand, the
\* RPUSH, the LRANGE, the DEL, the SET of a new block, or a late command.
LEMMA Steps ==
  ASSUME TypeInv, [Next]_vars
  PROVE  \/ Quiet \/ LateExec
         \/ \E w \in Worker :
              \/ EnQueue(w) \/ LRange(w) \/ DelPool(w) \/ StoreBlock(w)
              \/ \E tx \in Transaction : QueryBalance(w, tx)
BY PaymentQuiet, BuilderQuiet, ProcessQuiet DEF Next, Handler

-----------------------------------------------------------------------------
(* No transaction in two blocks *)

\* Where a transaction can be: in the hands of a worker, in an RPUSH whose client gave
\* up on it, in the list or in a draft made of it, in a block.
InHand(tx) == \E w \in Worker : pc[w] \in Handling /\ cur[w] = tx
InFlight(tx) == \E l \in late : l.cmd.op = "RPUSH" /\ l.cmd.tx = tx
InPool(tx) == \E i \in DOMAIN txPool : txPool[i] = tx
InDraftOf(w, tx) == pc[w] \in Drafting /\ \E i \in DOMAIN blk[w].txs : blk[w].txs[i] = tx
InDraft(tx) == \E w \in Worker : InDraftOf(w, tx)
InBlock(tx) == \E i \in DOMAIN built : \E k \in DOMAIN built[i].txs : built[i].txs[k] = tx

\* handleTransaction has each transaction once, so it is in one hand or in one late
\* RPUSH, and it has been decided about.
HandsApart ==
  /\ \A w \in Worker : pc[w] \in Handling => verdict[cur[w]] # "unsent"
  /\ \A v, w \in Worker : pc[v] \in Handling /\ pc[w] \in Handling /\ cur[v] = cur[w] => v = w
  /\ \A l \in late : l.cmd.op = "RPUSH" => verdict[l.cmd.tx] # "unsent" /\ ~InHand(l.cmd.tx)
  /\ \A l, m \in late : l.cmd.op = "RPUSH" /\ m.cmd.op = "RPUSH" /\ l.cmd.tx = m.cmd.tx => l = m

\* What has been pooled cannot be pooled again.
PooledOnce ==
  \A tx \in Tx : InPool(tx) \/ InDraft(tx) \/ InBlock(tx) =>
            tx \in Transaction /\ verdict[tx] # "unsent" /\ ~InHand(tx) /\ ~InFlight(tx)

\* No list holds a transaction twice; a draft is not yet in a block, and once the DEL
\* was executed it is not in the pool.  Only what a refused DEL left in the pool can be
\* drafted and mined again.
ListsApart ==
  /\ \A i, j \in DOMAIN txPool : txPool[i] = txPool[j] => i = j
  /\ \A w \in Worker : pc[w] \in Drafting =>
       \A i, j \in DOMAIN blk[w].txs : blk[w].txs[i] = blk[w].txs[j] => i = j
  /\ \A tx \in Tx \ kept : ~(InDraft(tx) /\ InBlock(tx))
  /\ \A w \in Worker, tx \in Tx \ kept : pc[w] = "store" /\ InDraftOf(w, tx) => ~InPool(tx)
  /\ \A tx \in Tx \ kept : ~(InPool(tx) /\ InBlock(tx))
  /\ \A i \in DOMAIN built : \A k, l \in DOMAIN built[i].txs :
       built[i].txs[k] = built[i].txs[l] => k = l
  /\ \A i, j \in DOMAIN built : \A k \in DOMAIN built[i].txs, l \in DOMAIN built[j].txs :
       built[i].txs[k] = built[j].txs[l] /\ built[i].txs[k] \notin kept => i = j

PoolInv == HandsApart /\ PooledOnce /\ ListsApart

\* At the start nothing is in a hand, in flight, in the pool or in a block.
LEMMA InitPoolInv == Init => PoolInv
BY DEF Init, StoreInit, PoolInv, HandsApart, PooledOnce, ListsApart,
       InHand, InFlight, InPool, InDraft, InDraftOf, InBlock, Handling, Drafting

\* A step that takes nothing into a hand, a list or a block keeps PoolInv; so does a DEL
\* that empties the pool, and one that was refused.
LEMMA PoolFrame ==
  ASSUME PoolInv, txPool' = txPool \/ txPool' = <<>>, UNCHANGED <<built, verdict>>,
         kept \subseteq kept',
         \A w \in Worker :
           /\ pc'[w] \in Handling => pc[w] \in Handling /\ cur'[w] = cur[w]
           /\ pc'[w] \in Drafting => pc[w] \in Drafting /\ blk'[w] = blk[w]
           /\ pc'[w] = "store" => pc[w] = "store" \/ txPool' = <<>>
                                                  \/ Range(blk[w].txs) \subseteq kept',
         \A l \in late' : l \in late \/ l.cmd.op # "RPUSH"
  PROVE  PoolInv'
<1>1. \A tx : /\ InHand(tx)' => InHand(tx)
              /\ InFlight(tx)' => InFlight(tx)
              /\ InPool(tx)' => InPool(tx)
              /\ InDraft(tx)' => InDraft(tx)
              /\ InBlock(tx)' => InBlock(tx)
  BY DEF InHand, InFlight, InPool, InDraft, InDraftOf, InBlock
<1>2. HandsApart'
  BY <1>1 DEF PoolInv, HandsApart
<1>3. PooledOnce'
  BY <1>1 DEF PoolInv, PooledOnce
<1>4. ListsApart'
  <2>1. \A i, j \in DOMAIN txPool' : txPool'[i] = txPool'[j] => i = j
    BY DEF PoolInv, ListsApart
  <2>2. \A w \in Worker : pc'[w] \in Drafting =>
          \A i, j \in DOMAIN blk'[w].txs : blk'[w].txs[i] = blk'[w].txs[j] => i = j
    BY DEF PoolInv, ListsApart
  <2>3. \A tx \in Tx \ kept' :
          ~(InDraft(tx)' /\ InBlock(tx)') /\ ~(InPool(tx)' /\ InBlock(tx)')
    BY <1>1 DEF PoolInv, ListsApart
  <2>4. ASSUME NEW w \in Worker, NEW tx \in Tx \ kept', pc'[w] = "store", InDraftOf(w, tx)'
        PROVE  ~InPool(tx)'
    <3>1. InDraftOf(w, tx)
      BY <2>4 DEF InDraftOf
    <3>2. CASE txPool' = <<>>
      BY <3>2 DEF InPool
    <3>3. CASE pc[w] = "store"
      BY <1>1, <2>4, <3>1, <3>3 DEF PoolInv, ListsApart
    <3>4. CASE Range(blk[w].txs) \subseteq kept'
      BY <3>1, <3>4 DEF InDraftOf, Range
    <3>5. QED
      BY <2>4, <3>2, <3>3, <3>4
  <2>5. QED
    BY <2>1, <2>2, <2>3, <2>4 DEF PoolInv, ListsApart
<1>5. QED
  BY <1>2, <1>3, <1>4 DEF PoolInv

\* handleTransaction: a transaction that comes into a hand has never been anywhere.
LEMMA QueryBalancePool ==
  ASSUME TypeInv, PoolInv, NEW w \in Worker, NEW tx \in Transaction, QueryBalance(w, tx)
  PROVE  PoolInv'
<1>1. /\ UNCHANGED <<txPool, late, blk, built, kept>>
      /\ pc[w] = "idle" /\ verdict[tx] = "unsent"
  BY DEF QueryBalance, Decide, Refused, FailRead, store, link
<1>2. /\ verdict'[tx] # "unsent"
      /\ \A t \in Transaction : verdict[t] # "unsent" => verdict'[t] # "unsent"
  BY DEF QueryBalance, Decide, TypeInv, TypeOK
<1>3. \/ UNCHANGED <<pc, cur>>
      \/ /\ cur' = [cur EXCEPT ![w] = tx]
         /\ \E l \in {"debit", "enqueue"} : pc' = [pc EXCEPT ![w] = l]
  BY DEF QueryBalance, Decide, Goto
<1>4. ASSUME NEW v \in Worker
      PROVE  /\ pc'[v] \in Handling => \/ pc[v] \in Handling /\ cur'[v] = cur[v]
                                       \/ v = w /\ cur'[v] = tx
             /\ pc'[v] \in Drafting => pc'[v] = pc[v]
  BY <1>1, <1>3 DEF TypeInv, TypeOK, Handling, Drafting
<1>5. ~InHand(tx) /\ ~InFlight(tx) /\ \A v \in Worker : ~(pc[v] \in Handling /\ cur[v] = tx)
  BY <1>1 DEF PoolInv, HandsApart, InHand, InFlight
<1>6. ~InPool(tx) /\ ~InDraft(tx) /\ ~InBlock(tx)
  BY <1>1 DEF PoolInv, PooledOnce, Tx
<1>7. \A t : /\ InHand(t)' => InHand(t) \/ t = tx
             /\ InFlight(t)' <=> InFlight(t)
             /\ InPool(t)' <=> InPool(t)
             /\ \A v \in Worker : InDraftOf(v, t)' => InDraftOf(v, t)
             /\ InDraft(t)' => InDraft(t)
             /\ InBlock(t)' <=> InBlock(t)
  BY <1>1, <1>4 DEF InHand, InFlight, InPool, InDraftOf, InDraft, InBlock
<1>8. \A v \in Worker : pc[v] \in Handling => cur[v] \in Transaction
  BY CurType DEF Handling
<1>9. \A l \in late : l.cmd.op = "RPUSH" => l.cmd.tx \in Transaction
  BY DEF TypeInv, TypeOK, Command
<1>10. HandsApart'
  <2>1. \A v \in Worker : pc'[v] \in Handling => verdict'[cur'[v]] # "unsent"
    BY <1>2, <1>4, <1>8 DEF PoolInv, HandsApart
  <2>2. \A u, v \in Worker : pc'[u] \in Handling /\ pc'[v] \in Handling /\ cur'[u] = cur'[v] => u = v
    BY <1>4, <1>5 DEF PoolInv, HandsApart
  <2>3. ASSUME NEW l \in late', l.cmd.op = "RPUSH"
        PROVE  verdict'[l.cmd.tx] # "unsent" /\ ~InHand(l.cmd.tx)'
    BY <1>1, <1>2, <1>5, <1>7, <1>9, <2>3 DEF PoolInv, HandsApart, InFlight
  <2>4. QED
    BY <1>1, <2>1, <2>2, <2>3 DEF PoolInv, HandsApart
<1>11. PooledOnce'
  BY <1>2, <1>6, <1>7 DEF PoolInv, PooledOnce
<1>12. ListsApart'
  BY <1>1, <1>4, <1>7 DEF PoolInv, ListsApart, Drafting
<1>13. QED
  BY <1>10, <1>11, <1>12 DEF PoolInv

\* An RPUSH of a transaction that is nowhere else, at its time or late.
LEMMA PoolAppend ==
  ASSUME TypeInv, PoolInv, NEW tx \in Transaction, verdict[tx] # "unsent",
         txPool' = Append(txPool, tx), UNCHANGED <<built, verdict, kept>>,
         ~InPool(tx), ~InDraft(tx), ~InBlock(tx), ~InHand(tx)', ~InFlight(tx)',
         \A w \in Worker :
           /\ pc'[w] \in Handling => pc[w] \in Handling /\ cur'[w] = cur[w]
           /\ pc'[w] \in Drafting => pc[w] = pc'[w] /\ blk'[w] = blk[w],
         late' \subseteq late
  PROVE  PoolInv'
<1>1. txPool \in Seq(Tx)
  BY DEF TypeInv, TypeOK, StoreTypeOK
<1>2. /\ DOMAIN txPool' = 1..Len(txPool) + 1
      /\ DOMAIN txPool = 1..Len(txPool) /\ Len(txPool) \in Nat
      /\ txPool'[Len(txPool) + 1] = tx
      /\ \A i \in DOMAIN txPool : txPool'[i] = txPool[i]
  BY <1>1
<1>3. \A t : /\ InHand(t)' => InHand(t)
             /\ InFlight(t)' => InFlight(t)
             /\ InPool(t)' => InPool(t) \/ t = tx
             /\ \A v \in Worker : InDraftOf(v, t)' => InDraftOf(v, t)
             /\ InDraft(t)' => InDraft(t)
             /\ InBlock(t)' => InBlock(t)
  BY <1>2 DEF InHand, InFlight, InPool, InDraftOf, InDraft, InBlock
<1>4. HandsApart'
  BY <1>3 DEF PoolInv, HandsApart
<1>5. PooledOnce'
  BY <1>3 DEF PoolInv, PooledOnce
<1>6. ListsApart'
  <2>1. ASSUME NEW i \in DOMAIN txPool', NEW j \in DOMAIN txPool', txPool'[i] = txPool'[j]
        PROVE  i = j
    <3>1. CASE i = Len(txPool) + 1 /\ j # Len(txPool) + 1
      BY <1>2, <2>1, <3>1 DEF InPool
    <3>2. CASE j = Len(txPool) + 1 /\ i # Len(txPool) + 1
      BY <1>2, <2>1, <3>2 DEF InPool
    <3>3. CASE j # Len(txPool) + 1 /\ i # Len(txPool) + 1
      BY <1>2, <2>1, <3>3 DEF PoolInv, ListsApart
    <3>4. QED
      BY <3>1, <3>2, <3>3
  <2>2. \A w \in Worker : pc'[w] \in Drafting =>
          \A i, j \in DOMAIN blk'[w].txs : blk'[w].txs[i] = blk'[w].txs[j] => i = j
    BY DEF PoolInv, ListsApart
  <2>3. ASSUME NEW w \in Worker, NEW t \in Tx \ kept, pc'[w] = "store", InDraftOf(w, t)'
        PROVE  ~InPool(t)'
    <3>1. pc[w] = "store" /\ InDraftOf(w, t)
      BY <1>3, <2>3 DEF Drafting
    <3>2. ~InPool(t) /\ t # tx
      BY <3>1 DEF PoolInv, ListsApart, InDraft
    <3>3. QED
      BY <1>3, <3>2
  <2>4. \A t \in Tx \ kept : ~(InDraft(t)' /\ InBlock(t)') /\ ~(InPool(t)' /\ InBlock(t)')
    BY <1>3 DEF PoolInv, ListsApart
  <2>5. QED
    BY <2>1, <2>2, <2>3, <2>4 DEF PoolInv, ListsApart
<1>7. QED
  BY <1>4, <1>5, <1>6 DEF PoolInv

\* enQueue: the hand is emptied, into the pool, into a late RPUSH or into nothing.
LEMMA EnQueuePool ==
  ASSUME TypeInv, PoolInv, NEW w \in Worker, EnQueue(w)
  PROVE  PoolInv'
<1>1. PICK tx \in Transaction :
        pc[w] = "enqueue" /\ tx = cur[w] /\ verdict[tx] # "unsent"
  BY CurType DEF EnQueue, PoolInv, HandsApart, Handling
<1>2. InHand(tx) /\ ~InFlight(tx) /\ ~InPool(tx) /\ ~InDraft(tx) /\ ~InBlock(tx)
  <2>1. InHand(tx)
    BY <1>1 DEF InHand, Handling
  <2>2. ~InFlight(tx)
    BY <2>1 DEF PoolInv, HandsApart, InFlight
  <2>3. QED
    BY <1>1, <2>1, <2>2 DEF PoolInv, PooledOnce, Tx
<1>3. /\ pc' = [pc EXCEPT ![w] = "idle"] /\ UNCHANGED <<blk, built, verdict, kept>>
      /\ cur' = [cur EXCEPT ![w] = EmptyTx]
  BY DEF EnQueue, Call, Goto
<1>4. \A v \in Worker :
        /\ pc'[v] \in Handling => pc[v] \in Handling /\ cur'[v] = cur[v] /\ v # w
        /\ pc'[v] \in Drafting => pc[v] = pc'[v] /\ blk'[v] = blk[v]
  BY <1>3 DEF TypeInv, TypeOK, Handling, Drafting
<1>5. ~(InHand(tx)')
  BY <1>1, <1>4 DEF InHand, PoolInv, HandsApart, Handling
<1>6. CASE Exec(RPUSH(cur[w])) /\ UNCHANGED link
  <2>1. txPool' = Append(txPool, tx) /\ late' = late
    BY <1>1, <1>6 DEF Exec, RPUSH, RPush, link
  <2>2. ~(InFlight(tx)')
    BY <1>2, <2>1 DEF InFlight
  <2>3. QED
    BY <1>1, <1>2, <1>3, <1>4, <1>5, <2>1, <2>2, PoolAppend
<1>7. CASE Fail(RPUSH(cur[w]))
  <2> DEFINE l0 == [n |-> faults, cmd |-> RPUSH(tx)]
  <2>1. txPool' = txPool /\ (late' = late \/ late' = late \cup {l0})
    BY <1>1, <1>7 DEF Fail, store
  <2>2. l0.cmd.op = "RPUSH" /\ l0.cmd.tx = tx
    BY DEF RPUSH
  <2>3. CASE late' = late
    BY <1>3, <1>4, <2>1, <2>3, PoolFrame DEF Drafting
  <2>4. CASE late' = late \cup {l0}
    <3> HIDE DEF l0
    <3>1. \A t : /\ InHand(t)' => InHand(t) /\ t # tx
                 /\ InFlight(t)' => InFlight(t) \/ t = tx
                 /\ InPool(t)' <=> InPool(t)
                 /\ \A v \in Worker : InDraftOf(v, t)' => InDraftOf(v, t)
                 /\ InDraft(t)' => InDraft(t)
                 /\ InBlock(t)' <=> InBlock(t)
      BY <1>3, <1>4, <1>5, <2>1, <2>2, <2>4
        DEF InHand, InFlight, InPool, InDraftOf, InDraft, InBlock
    <3>2. HandsApart'
      <4>1. \A v \in Worker : pc'[v] \in Handling => verdict'[cur'[v]] # "unsent"
        BY <1>3, <1>4 DEF PoolInv, HandsApart
      <4>2. \A u, v \in Worker :
              pc'[u] \in Handling /\ pc'[v] \in Handling /\ cur'[u] = cur'[v] => u = v
        BY <1>4 DEF PoolInv, HandsApart
      <4>3. ASSUME NEW l \in late', l.cmd.op = "RPUSH"
            PROVE  verdict'[l.cmd.tx] # "unsent" /\ ~InHand(l.cmd.tx)'
        BY <1>1, <1>3, <2>2, <2>4, <3>1, <4>3 DEF PoolInv, HandsApart
      <4>4. \A l, m \in late' :
              l.cmd.op = "RPUSH" /\ m.cmd.op = "RPUSH" /\ l.cmd.tx = m.cmd.tx => l = m
        BY <1>2, <2>2, <2>4 DEF PoolInv, HandsApart, InFlight
      <4>5. QED
        BY <4>1, <4>2, <4>3, <4>4 DEF HandsApart
    <3>3. PooledOnce'
      BY <1>2, <1>3, <3>1 DEF PoolInv, PooledOnce
    <3>4. ListsApart'
      BY <1>3, <1>4, <2>1, <3>1 DEF PoolInv, ListsApart, Drafting
    <3>5. QED
      BY <3>2, <3>3, <3>4 DEF PoolInv
  <2>5. QED
    BY <2>1, <2>3, <2>4
<1>8. QED
  BY <1>6, <1>7 DEF EnQueue, Call

\* A late RPUSH puts into the pool what is nowhere else; a late DEL only empties it.
LEMMA LateExecPool ==
  ASSUME TypeInv, PoolInv, LateExec
  PROVE  PoolInv'
<1>1. PICK l \in late : Exec(l.cmd) /\ late' = late \ {l}
  BY DEF LateExec
<1>2. UNCHANGED <<pc, cur, blk, built, verdict, kept>>
  BY DEF LateExec, proc, hist
<1>3. CASE l.cmd.op = "RPUSH"
  <2>1. PICK tx \in Transaction : tx = l.cmd.tx /\ InFlight(tx)
    BY <1>3 DEF TypeInv, TypeOK, Command, InFlight
  <2>2. txPool' = Append(txPool, tx)
    BY <1>1, <1>3, <2>1 DEF Exec, RPush
  <2>3. verdict[tx] # "unsent" /\ ~InHand(tx)
    BY <1>3, <2>1 DEF PoolInv, HandsApart
  <2>4. ~InPool(tx) /\ ~InDraft(tx) /\ ~InBlock(tx)
    BY <2>1 DEF PoolInv, PooledOnce, Tx
  <2>5. ~(InHand(tx)') /\ ~(InFlight(tx)')
    BY <1>1, <1>2, <1>3, <2>1, <2>3 DEF PoolInv, HandsApart, InHand, InFlight
  <2>6. QED
    BY <1>1, <1>2, <2>2, <2>3, <2>4, <2>5, PoolAppend
<1>4. CASE l.cmd.op # "RPUSH"
  <2>1. txPool' = txPool \/ txPool' = <<>>
    BY <1>1, <1>4 DEF Exec, IncrBy, DeletePool, Set, SetNX, DeleteLock, SAdd
  <2>2. QED
    BY <1>1, <1>2, <2>1, PoolFrame
<1>5. QED
  BY <1>3, <1>4

\* deQueueAll, LRANGE: the draft is the pool.
LEMMA LRangePool ==
  ASSUME TypeInv, PoolInv, NEW w \in Worker, LRange(w)
  PROVE  PoolInv'
<1>1. UNCHANGED <<txPool, late, cur, built, verdict, kept>> /\ pc[w] = "range"
  BY DEF LRange, Read, FailRead, link, store, hist
<1>2. \A v \in Worker \ {w} : pc'[v] = pc[v] /\ blk'[v] = blk[v]
  BY DEF LRange, Read, Goto, TypeInv, TypeOK
<1>3. CASE pc' = [pc EXCEPT ![w] = "relGet"]
  <2>1. pc'[w] = "relGet"
    BY <1>3 DEF TypeInv, TypeOK
  <2>2. QED
    BY <1>1, <1>2, <2>1, PoolFrame DEF Handling, Drafting
<1>4. CASE pc' = [pc EXCEPT ![w] = "delPool"]
  <2>1. pc'[w] = "delPool" /\ blk'[w].txs = txPool
    <3>1. pc'[w] = "delPool"
      BY <1>4 DEF TypeInv, TypeOK
    <3>2. blk'[w] = [EmptyBlock EXCEPT !.txs = txPool]
      BY <3>1 DEF LRange, TypeInv, TypeOK
    <3>3. QED
      BY <3>1, <3>2 DEF EmptyBlock
  <2>2. \A v \in Worker : pc'[v] \in Handling => pc[v] \in Handling
    BY <1>2, <2>1 DEF Handling
  <2>3. \A t : /\ InHand(t)' => InHand(t)
               /\ InFlight(t)' <=> InFlight(t)
               /\ InPool(t)' <=> InPool(t)
               /\ InBlock(t)' <=> InBlock(t)
    BY <1>1, <2>2 DEF InHand, InFlight, InPool, InBlock
  <2>4. \A t : /\ InDraftOf(w, t)' <=> InPool(t)
               /\ \A v \in Worker \ {w} : InDraftOf(v, t)' <=> InDraftOf(v, t)
    BY <1>2, <2>1 DEF InDraftOf, InPool, Drafting
  <2>5. \A t : InDraft(t)' => InDraft(t) \/ InPool(t)
    BY <2>4 DEF InDraft
  <2>6. HandsApart'
    BY <1>1, <2>2, <2>3 DEF PoolInv, HandsApart
  <2>7. PooledOnce'
    BY <1>1, <2>3, <2>5 DEF PoolInv, PooledOnce
  <2>8. ListsApart'
    <3>1. \A v \in Worker : pc'[v] \in Drafting =>
            \A i, j \in DOMAIN blk'[v].txs : blk'[v].txs[i] = blk'[v].txs[j] => i = j
      BY <1>2, <2>1 DEF PoolInv, ListsApart
    <3>2. \A v \in Worker, t \in Tx \ kept :
            pc'[v] = "store" /\ InDraftOf(v, t)' => ~InPool(t)'
      BY <1>2, <2>1, <2>3, <2>4 DEF PoolInv, ListsApart
    <3>3. QED
      BY <1>1, <2>3, <2>5, <3>1, <3>2 DEF PoolInv, ListsApart
  <2>9. QED
    BY <2>6, <2>7, <2>8 DEF PoolInv
<1>5. QED
  BY <1>3, <1>4 DEF LRange, Read, Goto

\* deQueueAll, DEL: the draft is out of the pool, or it is given up.
LEMMA DelPoolPool ==
  ASSUME TypeInv, PoolInv, NEW w \in Worker, DelPool(w)
  PROVE  PoolInv'
<1>1. UNCHANGED <<cur, blk, built, verdict>> /\ pc[w] = "delPool" /\ kept \subseteq kept'
  BY DEF DelPool
<1>2. CASE /\ Exec(DELPOOL) /\ UNCHANGED link
           /\ Goto(w, IF blk[w].txs = <<>> THEN "relGet" ELSE "store")
  <2>1. txPool' = <<>> /\ late' = late
    BY <1>2 DEF Exec, DELPOOL, DeletePool, link
  <2>2. \A v \in Worker : pc'[v] = pc[v] \/ (v = w /\ pc'[v] \in {"relGet", "store"})
    BY <1>2 DEF Goto, TypeInv, TypeOK
  <2>3. \A v \in Worker : /\ pc'[v] \in Handling => pc[v] \in Handling
                          /\ pc'[v] \in Drafting => pc[v] \in Drafting
    BY <1>1, <2>2 DEF Handling, Drafting
  <2>4. QED
    BY <1>1, <2>1, <2>3, PoolFrame
<1>3. CASE Fail(DELPOOL) /\ Goto(w, "relGet")
  <2>1. txPool' = txPool /\ \A l \in late' : l \in late \/ l.cmd.op # "RPUSH"
    BY <1>3 DEF Fail, store, DELPOOL
  <2>2. \A v \in Worker : pc'[v] = pc[v] \/ pc'[v] = "relGet"
    BY <1>3 DEF Goto, TypeInv, TypeOK
  <2>3. QED
    BY <1>1, <2>1, <2>2, PoolFrame DEF Handling, Drafting
<1>4. CASE /\ Refused /\ Goto(w, IF blk[w].txs = <<>> THEN "relGet" ELSE "store")
           /\ kept' = kept \cup Range(blk[w].txs)
  <2>1. txPool' = txPool /\ late' = late /\ Range(blk[w].txs) \subseteq kept'
    BY <1>4 DEF Refused, FailRead, store
  <2>2. \A v \in Worker : pc'[v] = pc[v] \/ (v = w /\ pc'[v] \in {"relGet", "store"})
    BY <1>4 DEF Goto, TypeInv, TypeOK
  <2>3. \A v \in Worker :
          /\ pc'[v] \in Handling => pc[v] \in Handling
          /\ pc'[v] \in Drafting => pc[v] \in Drafting
          /\ pc'[v] = "store" => pc[v] = "store" \/ Range(blk[v].txs) \subseteq kept'
    BY <1>1, <2>1, <2>2 DEF Handling, Drafting
  <2>4. QED
    BY <1>1, <2>1, <2>3, PoolFrame
<1>5. QED
  BY <1>2, <1>3, <1>4 DEF DelPool, Call

\* What StoreBlock appends to the blocks.
LEMMA StoreBlockBuilt ==
  ASSUME TypeInv, NEW w \in Worker, StoreBlock(w)
  PROVE  /\ DOMAIN built' = 1..Len(built) + 1 /\ DOMAIN built = 1..Len(built)
         /\ Len(built) \in Nat /\ Len(built') = Len(built) + 1
         /\ \A i \in DOMAIN built : built'[i] = built[i]
         /\ built'[Len(built) + 1] = blk'[w] /\ blk'[w].txs = blk[w].txs /\ blk'[w].id = now
<1> DEFINE block == [blk[w] EXCEPT !.id = now, !.prev = last[w].id]
<1>1. block.txs = blk[w].txs /\ block.id = now
  BY DEF TypeInv, TypeOK, Block
<1>2. built' = Append(built, block) /\ blk' = [blk EXCEPT ![w] = block]
  BY DEF StoreBlock
<1> HIDE DEF block
<1>3. built \in Seq(Block) /\ blk'[w] = block
  BY <1>2 DEF TypeInv, TypeOK
<1>4. QED
  BY <1>1, <1>2, <1>3

\* createBlock: the draft, which is nowhere else, becomes the newest block.
LEMMA StoreBlockPool ==
  ASSUME TypeInv, LockInv, PoolInv, NEW w \in Worker, StoreBlock(w)
  PROVE  PoolInv'
<1> DEFINE block == [blk[w] EXCEPT !.id = now, !.prev = last[w].id]
           n == Len(built) + 1
<1>1. /\ DOMAIN built' = 1..n /\ DOMAIN built = 1..Len(built) /\ Len(built) \in Nat
      /\ \A i \in DOMAIN built : built'[i] = built[i]
      /\ built'[n].txs = blk[w].txs
  BY StoreBlockBuilt
<1>2. /\ pc[w] = "store" /\ pc' = [pc EXCEPT ![w] = "storeLast"]
      /\ UNCHANGED <<cur, verdict, kept>>
      /\ \A v \in Worker \ {w} : blk'[v] = blk[v]
  BY DEF StoreBlock, Call, Goto, TypeInv, TypeOK
<1>3. txPool' = txPool /\ \A l \in late' : l \in late \/ l.cmd.op # "RPUSH"
  <2>1. Call(w, SET(block), "storeLast", "storeLast") /\ SET(block).op = "SET"
    BY DEF StoreBlock, SET
  <2> HIDE DEF block
  <2>2. CASE Exec(SET(block)) /\ UNCHANGED link
    BY <2>1, <2>2 DEF Exec, Set, link
  <2>3. CASE Fail(SET(block))
    BY <2>1, <2>3 DEF Fail, store
  <2>4. QED
    BY <2>1, <2>2, <2>3 DEF Call
<1> HIDE DEF block, n
<1>4. \A v \in Worker : pc'[v] = IF v = w THEN "storeLast" ELSE pc[v]
  BY <1>2 DEF TypeInv, TypeOK
<1>5. \A v \in Worker : pc'[v] \notin Drafting
  BY <1>2, <1>4 DEF LockInv, BuilderMutex, Building, Drafting
<1>6. \A t : InDraftOf(w, t) <=> \E k \in DOMAIN blk[w].txs : blk[w].txs[k] = t
  BY <1>2 DEF InDraftOf, Drafting
<1>7. \A t : /\ InHand(t)' => InHand(t)
             /\ InFlight(t)' => InFlight(t)
             /\ InPool(t)' <=> InPool(t)
             /\ ~(InDraft(t)')
             /\ InBlock(t)' => InBlock(t) \/ InDraftOf(w, t)
  <2>1. \A t : /\ InHand(t)' => InHand(t)
               /\ InFlight(t)' => InFlight(t)
               /\ InPool(t)' <=> InPool(t)
               /\ ~(InDraft(t)')
    BY <1>2, <1>3, <1>4, <1>5 DEF InHand, InFlight, InPool, InDraft, InDraftOf, Handling
  <2>2. \A i \in DOMAIN built' : i \in DOMAIN built \/ i = n
    BY <1>1 DEF n
  <2>3. \A t : InBlock(t)' => InBlock(t) \/ InDraftOf(w, t)
    BY <1>1, <1>6, <2>2 DEF InBlock
  <2>4. QED
    BY <2>1, <2>3
<1>8. HandsApart'
  BY <1>2, <1>3, <1>4, <1>7 DEF PoolInv, HandsApart, Handling
<1>9. PooledOnce'
  BY <1>2, <1>7 DEF PoolInv, PooledOnce, InDraft
<1>10. ListsApart'
  <2>1. \A t \in Tx \ kept : InDraftOf(w, t) => ~InPool(t) /\ ~InBlock(t)
    BY <1>2 DEF PoolInv, ListsApart, InDraft
  <2>2. \A t \in Tx \ kept : ~(InPool(t)' /\ InBlock(t)')
    BY <1>7, <2>1 DEF PoolInv, ListsApart
  <2>3. \A i \in DOMAIN blk[w].txs : blk[w].txs[i] \in Tx
    BY DEF TypeInv, TypeOK, Block
  <2>6. \A i \in DOMAIN built' : \A k, l \in DOMAIN built'[i].txs :
          built'[i].txs[k] = built'[i].txs[l] => k = l
    <3>1. \A i \in DOMAIN built : \A k, l \in DOMAIN built'[i].txs :
            built'[i].txs[k] = built'[i].txs[l] => k = l
      BY <1>1 DEF PoolInv, ListsApart
    <3>2. \A k, l \in DOMAIN built'[n].txs : built'[n].txs[k] = built'[n].txs[l] => k = l
      BY <1>1, <1>2 DEF PoolInv, ListsApart, Drafting
    <3>3. \A i \in DOMAIN built' : i \in DOMAIN built \/ i = n
      BY <1>1 DEF n
    <3>4. QED
      BY <3>1, <3>2, <3>3
  <2>4. ASSUME NEW i \in DOMAIN built', NEW j \in DOMAIN built',
               NEW k \in DOMAIN built'[i].txs, NEW l \in DOMAIN built'[j].txs,
               built'[i].txs[k] = built'[j].txs[l], built'[i].txs[k] \notin kept
        PROVE  i = j
    <3>1. CASE i \in DOMAIN built /\ j \in DOMAIN built
      BY <1>1, <2>4, <3>1 DEF PoolInv, ListsApart
    <3>2. CASE i = n /\ j = n
      BY <3>2
    <3>3. CASE i = n /\ j \in DOMAIN built
      BY <1>1, <1>6, <2>1, <2>3, <2>4, <3>3 DEF InBlock
    <3>4. CASE j = n /\ i \in DOMAIN built
      BY <1>1, <1>6, <2>1, <2>3, <2>4, <3>4 DEF InBlock
    <3>5. QED
      BY <1>1, <3>1, <3>2, <3>3, <3>4 DEF n
  <2>5. QED
    BY <1>2, <1>3, <1>5, <1>7, <2>2, <2>4, <2>6 DEF PoolInv, ListsApart, Drafting
<1>11. QED
  BY <1>8, <1>9, <1>10 DEF PoolInv

\* Every step keeps PoolInv; the mutual exclusion of builders is what StoreBlock needs.
LEMMA NextPoolInv == TypeInv /\ LockInv /\ PoolInv /\ [Next]_vars => PoolInv'
<1> SUFFICES ASSUME TypeInv, LockInv, PoolInv, [Next]_vars PROVE PoolInv'
  OBVIOUS
<1>1. CASE Quiet
  BY <1>1, PoolFrame DEF Quiet, Drafting
<1>2. QED
  BY <1>1, Steps, LateExecPool, EnQueuePool, LRangePool, DelPoolPool, StoreBlockPool,
     QueryBalancePool

\* createBlock and deQueueAll: no transaction is put twice into one block, and only one
\* that a refused DEL left in the pool into two, or into a block while it stays in the
\* pool, for any number of workers, crashes, and failed, late and refused commands.
THEOREM NoDoubleInclusion == Spec => []AtMostOneBlockPerTx
<1>1. TypeInv /\ PoolInv => AtMostOneBlockPerTx
  <2> SUFFICES ASSUME TypeInv, PoolInv PROVE AtMostOneBlockPerTx
    OBVIOUS
  <2>1. \A i \in DOMAIN built : \A k \in DOMAIN built[i].txs : built[i].txs[k] \in Tx
    <3>1. built \in Seq(Block)
      BY DEF TypeInv, TypeOK
    <3>2. \A i \in DOMAIN built : built[i] \in Block
      BY <3>1
    <3>3. \A i \in DOMAIN built : built[i].txs \in Seq(Tx)
      BY <3>2 DEF Block
    <3>4. QED
      BY <3>3
  <2>2. \A i \in DOMAIN built : Range(built[i].txs) \cap Range(txPool) \subseteq kept
    BY <2>1 DEF PoolInv, ListsApart, InPool, InBlock, Range
  <2>3. ASSUME NEW i \in DOMAIN built, NEW j \in DOMAIN built,
               NEW k \in DOMAIN built[i].txs, NEW l \in DOMAIN built[j].txs,
               built[i].txs[k] = built[j].txs[l]
        PROVE  (i = j /\ k = l) \/ (i # j /\ built[i].txs[k] \in kept)
    <3>1. CASE i = j
      BY <2>3, <3>1 DEF PoolInv, ListsApart
    <3>2. CASE i # j
      BY <2>3, <3>2 DEF PoolInv, ListsApart
    <3>3. QED
      BY <3>1, <3>2
  <2>4. QED
    BY <2>2, <2>3 DEF AtMostOneBlockPerTx
<1>2. QED
  BY <1>1, InitTypeInv, NextTypeInv, InitLockInv, NextLockInv, InitPoolInv, NextPoolInv, PTL
    DEF Spec

-----------------------------------------------------------------------------
(* No acknowledged transaction is lost when no command fails *)

\* What the pool holds while a worker is between LRANGE and DEL is in that worker's
\* draft, or was pushed after the LRANGE and is exposed.
PoolSeen ==
  \A w \in Worker : pc[w] = "delPool" =>
    \A tx \in Range(txPool) : tx \in Range(blk[w].txs) \/ tx \in exposed

KeptInv == late = {} /\ AckedNotLost /\ PoolSeen

\* Nothing has been acknowledged at the start.
LEMMA InitKeptInv == Init => KeptInv
BY DEF Init, StoreInit, KeptInv, AckedNotLost, PoolSeen

\* Range of a list with one more element (enQueue appends to the pool).
LEMMA RangeAppend ==
  ASSUME NEW S, NEW s \in Seq(S), NEW e
  PROVE  Range(Append(s, e)) = Range(s) \cup {e}
<1>1. /\ DOMAIN Append(s, e) = 1..Len(s) + 1 /\ DOMAIN s = 1..Len(s) /\ Len(s) \in Nat
      /\ Append(s, e)[Len(s) + 1] = e /\ \A i \in DOMAIN s : Append(s, e)[i] = s[i]
  OBVIOUS
<1>2. QED
  BY <1>1 DEF Range

\* A step that is quiet loses nothing.
LEMMA QuietKept ==
  ASSUME TypeInv, KeptInv, MaxFaults = 0, Quiet
  PROVE  KeptInv'
<1>1. AckedNotLost'
  <2> SUFFICES ASSUME NEW tx \in acked' \ exposed'
               PROVE  \/ tx \in Range(txPool')
                      \/ \E w \in Worker : pc'[w] = "store" /\ tx \in Range(blk'[w].txs)
                      \/ \E i \in DOMAIN built' : tx \in Range(built'[i].txs)
    BY DEF AckedNotLost
  <2>1. tx \in acked \ exposed
    BY DEF Quiet
  <2>2. ASSUME NEW w \in Worker, pc[w] = "store", tx \in Range(blk[w].txs)
        PROVE  pc'[w] = "store" /\ tx \in Range(blk'[w].txs)
    BY <2>2 DEF Quiet, Drafting
  <2>3. QED
    BY <2>1, <2>2 DEF Quiet, KeptInv, AckedNotLost
<1>2. PoolSeen'
  BY DEF Quiet, KeptInv, PoolSeen, Drafting
<1>3. QED
  BY <1>1, <1>2 DEF KeptInv, Quiet

\* handleTransaction: the GET touches nothing that is acknowledged.
LEMMA QueryBalanceKept ==
  ASSUME TypeInv, KeptInv, MaxFaults = 0,
         NEW w \in Worker, NEW tx \in Transaction, QueryBalance(w, tx)
  PROVE  KeptInv'
<1>1. UNCHANGED <<txPool, late, blk, built, acked, exposed>> /\ pc[w] = "idle"
  BY DEF QueryBalance, Decide, Refused, FailRead, store, link
<1>2. \A v \in Worker : pc'[v] = pc[v] \/ (v = w /\ pc'[v] \in {"debit", "enqueue"})
  BY DEF QueryBalance, Decide, Goto, TypeInv, TypeOK
<1>3. \A v \in Worker : /\ pc'[v] = "store" <=> pc[v] = "store"
                        /\ pc'[v] = "delPool" <=> pc[v] = "delPool"
  BY <1>1, <1>2
<1>4. QED
  BY <1>1, <1>3 DEF KeptInv, AckedNotLost, PoolSeen

\* enQueue: an answer of status 0 means that the transaction is in the pool, and it is
\* exposed when a DEL for an earlier LRANGE is under way.
LEMMA EnQueueKept ==
  ASSUME TypeInv, KeptInv, MaxFaults = 0, NEW w \in Worker, EnQueue(w)
  PROVE  KeptInv'
<1>1. Exec(RPUSH(cur[w])) /\ pc' = [pc EXCEPT ![w] = "idle"] /\ late' = late
  BY CallExecutes DEF EnQueue
<1>2. txPool' = Append(txPool, cur[w])
  BY <1>1 DEF Exec, RPUSH, RPush
<1>3. Range(txPool') = Range(txPool) \cup {cur[w]}
  <2>1. txPool \in Seq(Tx)
    BY DEF TypeInv, TypeOK, StoreTypeOK
  <2>2. QED
    BY <1>2, <2>1, RangeAppend
<1>4. /\ pc[w] = "enqueue" /\ UNCHANGED <<blk, built>> /\ acked' = acked \cup {cur[w]}
      /\ exposed \subseteq exposed'
      /\ (\E v \in Worker : pc[v] = "delPool") => cur[w] \in exposed'
  BY DEF EnQueue
<1>5. \A v \in Worker : pc'[v] = IF v = w THEN "idle" ELSE pc[v]
  BY <1>1 DEF TypeInv, TypeOK
<1>6. AckedNotLost'
  BY <1>3, <1>4, <1>5 DEF KeptInv, AckedNotLost
<1>7. PoolSeen'
  BY <1>3, <1>4, <1>5 DEF KeptInv, PoolSeen
<1>8. QED
  BY <1>1, <1>6, <1>7 DEF KeptInv

\* deQueueAll, LRANGE: the whole pool is in the draft.
LEMMA LRangeKept ==
  ASSUME TypeInv, KeptInv, MaxFaults = 0, NEW w \in Worker, LRange(w)
  PROVE  KeptInv'
<1>1. /\ UNCHANGED <<txPool, late, built, acked, exposed>> /\ pc[w] = "range"
      /\ pc' = [pc EXCEPT ![w] = "delPool"]
  BY DEF LRange, Read, FailRead, Goto, link, store, hist, TypeInv, TypeOK
<1>2. \A v \in Worker : pc'[v] = IF v = w THEN "delPool" ELSE pc[v]
  BY <1>1 DEF TypeInv, TypeOK
<1>3. /\ blk'[w].txs = txPool
      /\ \A v \in Worker \ {w} : blk'[v] = blk[v]
  <2>1. blk' = [blk EXCEPT ![w] = [EmptyBlock EXCEPT !.txs = txPool]]
    BY <1>2 DEF LRange
  <2>2. [EmptyBlock EXCEPT !.txs = txPool].txs = txPool
    BY DEF EmptyBlock
  <2>3. QED
    BY <2>1, <2>2 DEF TypeInv, TypeOK
<1>4. AckedNotLost'
  BY <1>1, <1>2, <1>3 DEF KeptInv, AckedNotLost
<1>5. PoolSeen'
  BY <1>1, <1>2, <1>3 DEF KeptInv, PoolSeen
<1>6. QED
  BY <1>1, <1>4, <1>5 DEF KeptInv

\* deQueueAll, DEL: what the pool loses is in the builder's draft or exposed.
LEMMA DelPoolKept ==
  ASSUME TypeInv, KeptInv, MaxFaults = 0, NEW w \in Worker, DelPool(w)
  PROVE  KeptInv'
<1> DEFINE l == IF blk[w].txs = <<>> THEN "relGet" ELSE "store"
<1>1. Exec(DELPOOL) /\ pc' = [pc EXCEPT ![w] = l] /\ late' = late
  BY DelPoolExecutes
<1>2. txPool' = <<>> /\ Range(txPool') = {}
  BY <1>1 DEF Exec, DELPOOL, DeletePool, Range
<1>3. pc[w] = "delPool" /\ UNCHANGED <<blk, built, acked, exposed>>
  BY DEF DelPool, hist
<1>4. \A v \in Worker : pc'[v] = IF v = w THEN l ELSE pc[v]
  BY <1>1 DEF TypeInv, TypeOK
<1>5. \A tx \in Range(blk[w].txs) : l = "store"
  BY DEF Range
<1>6. \A tx \in Range(txPool) \ exposed : tx \in Range(blk[w].txs)
  BY <1>3 DEF KeptInv, PoolSeen
<1> HIDE DEF l
<1>7. AckedNotLost'
  BY <1>3, <1>4, <1>5, <1>6 DEF KeptInv, AckedNotLost
<1>8. PoolSeen'
  BY <1>2 DEF PoolSeen
<1>9. QED
  BY <1>1, <1>7, <1>8 DEF KeptInv

\* createBlock: the draft is in a block.
LEMMA StoreBlockKept ==
  ASSUME TypeInv, KeptInv, MaxFaults = 0, NEW w \in Worker, StoreBlock(w)
  PROVE  KeptInv'
<1> DEFINE block == [blk[w] EXCEPT !.id = now, !.prev = last[w].id]
<1>1. Exec(SET(block)) /\ pc' = [pc EXCEPT ![w] = "storeLast"] /\ late' = late
  BY CallExecutes DEF StoreBlock
<1> HIDE DEF block
<1>2. txPool' = txPool
  BY <1>1 DEF Exec, SET, Set
<1>3. /\ pc[w] = "store" /\ UNCHANGED <<acked, exposed>>
      /\ \A v \in Worker \ {w} : blk'[v] = blk[v]
  BY DEF StoreBlock, TypeInv, TypeOK
<1>4. \A v \in Worker : pc'[v] = IF v = w THEN "storeLast" ELSE pc[v]
  BY <1>1 DEF TypeInv, TypeOK
<1>5. /\ \A i \in DOMAIN built : i \in DOMAIN built' /\ built'[i] = built[i]
      /\ \E i \in DOMAIN built' : built'[i].txs = blk[w].txs
  BY StoreBlockBuilt
<1>6. AckedNotLost'
  BY <1>2, <1>3, <1>4, <1>5 DEF KeptInv, AckedNotLost
<1>7. PoolSeen'
  BY <1>2, <1>3, <1>4 DEF KeptInv, PoolSeen
<1>8. QED
  BY <1>1, <1>6, <1>7 DEF KeptInv

\* enQueue and deQueueAll: as long as no Redis command fails, a transaction answered
\* with status 0 is in the pool, in the hands of the builder or in a block, unless it
\* was pushed between a LRANGE and its DEL or its builder crashed; for any number of
\* workers and crashes.
THEOREM AcknowledgedKept ==
  ASSUME MaxFaults = 0
  PROVE  Spec => []AckedNotLost
<1>1. TypeInv /\ KeptInv /\ [Next]_vars => KeptInv'
  <2> SUFFICES ASSUME TypeInv, KeptInv, [Next]_vars PROVE KeptInv'
    OBVIOUS
  <2>1. ~LateExec
    BY DEF LateExec, KeptInv
  <2>2. QED
    BY <2>1, Steps, QuietKept, QueryBalanceKept, EnQueueKept, LRangeKept, DelPoolKept,
       StoreBlockKept
<1>2. KeptInv => AckedNotLost
  BY DEF KeptInv
<1>3. QED
  BY <1>1, <1>2, InitTypeInv, NextTypeInv, InitKeptInv, PTL DEF Spec

-----------------------------------------------------------------------------
(* Blocks stay in the database, and the newest one is what is broadcast *)

\* Every block was named by a second.
DatabaseInv ==
  /\ late = {} /\ BlockKept
  /\ \A i \in DOMAIN built : built[i].id \in Second

\* createBlock: the SET puts the new block under its id; what it replaces has that id.
LEMMA StoreBlockDatabase ==
  ASSUME TypeInv, DatabaseInv, MaxFaults = 0, NEW w \in Worker, StoreBlock(w)
  PROVE  DatabaseInv'
<1> DEFINE block == [blk[w] EXCEPT !.id = now, !.prev = last[w].id]
           n == Len(built) + 1
<1>1. Exec(SET(block)) /\ late' = late
  BY CallExecutes DEF StoreBlock
<1>2. /\ blk'[w] = block /\ block.id = now /\ now \in Second /\ now \in BlockKey
  BY StoreBlockBuilt DEF StoreBlock, TypeInv, TypeOK, BlockKey, BlockId
<1>3. blockDB' = [blockDB EXCEPT ![now] = block]
  <2>1. SET(block).op = "SET" /\ SET(block).block = block
    BY DEF SET
  <2> HIDE DEF block
  <2>2. QED
    BY <1>1, <1>2, <2>1 DEF Exec, Set, BlockId
<1>4. /\ DOMAIN built' = 1..n /\ DOMAIN built = 1..Len(built) /\ Len(built) \in Nat
      /\ \A i \in DOMAIN built : built'[i] = built[i]
      /\ built'[n] = block
  BY <1>2, StoreBlockBuilt
<1>5. blockDB' \in [BlockKey -> Block] /\ blockDB \in [BlockKey -> Block]
  BY NextTypeInv DEF Next, Handler, TypeInv, TypeOK, StoreTypeOK
<1> HIDE DEF block, n
<1>6. \A i \in DOMAIN built' : i = n \/ (i \in DOMAIN built /\ n > i)
  BY <1>4 DEF n
<1>7. \A i \in DOMAIN built' : built'[i].id \in Second
  BY <1>2, <1>4, <1>6 DEF DatabaseInv
<1>8. ASSUME NEW i \in DOMAIN built', \A j \in DOMAIN built' : j > i => built'[j].id # built'[i].id
      PROVE  blockDB'[built'[i].id].txs = built'[i].txs
  <2>1. CASE i = n
    BY <1>2, <1>3, <1>4, <1>5, <2>1
  <2>2. CASE i \in DOMAIN built /\ n > i
    <3>1. n \in DOMAIN built'
      BY <1>4 DEF n
    <3>2. built[i].id # now
      BY <1>2, <1>4, <1>8, <2>2, <3>1
    <3>3. \A j \in DOMAIN built : j \in DOMAIN built' /\ built'[j] = built[j]
      BY <1>4 DEF n
    <3>4. blockDB[built[i].id].txs = built[i].txs
      BY <1>8, <2>2, <3>3 DEF DatabaseInv, BlockKept
    <3>5. built[i].id \in BlockKey
      BY <2>2 DEF DatabaseInv, BlockKey, BlockId
    <3>6. QED
      BY <1>3, <1>4, <1>5, <2>2, <3>2, <3>4, <3>5
  <2>3. QED
    BY <1>6, <2>1, <2>2
<1>9. QED
  BY <1>1, <1>7, <1>8 DEF DatabaseInv, BlockKept

\* The other steps write no block.
LEMMA NextDatabase ==
  ASSUME TypeInv, DatabaseInv, MaxFaults = 0, [Next]_vars
  PROVE  DatabaseInv'
<1>1. CASE UNCHANGED <<late, blockDB, built>>
  BY <1>1 DEF DatabaseInv, BlockKept
<1>2. CASE Quiet
  BY <1>1, <1>2 DEF Quiet
<1>3. ASSUME NEW w \in Worker, NEW tx \in Transaction, QueryBalance(w, tx) PROVE DatabaseInv'
  BY <1>1, <1>3 DEF QueryBalance, Decide, Refused, FailRead, store, link
<1>4. ASSUME NEW w \in Worker, LRange(w) PROVE DatabaseInv'
  BY <1>1, <1>4 DEF LRange, Read, FailRead, store, link, hist
<1>5. ASSUME NEW w \in Worker, EnQueue(w) PROVE DatabaseInv'
  <2>1. Exec(RPUSH(cur[w])) /\ late' = late /\ built' = built
    BY <1>5, CallExecutes DEF EnQueue
  <2>2. blockDB' = blockDB
    BY <2>1 DEF Exec, RPUSH, RPush
  <2>3. QED
    BY <1>1, <2>1, <2>2
<1>6. ASSUME NEW w \in Worker, DelPool(w) PROVE DatabaseInv'
  <2>1. Exec(DELPOOL) /\ late' = late /\ built' = built
    BY <1>6, DelPoolExecutes DEF hist
  <2>2. blockDB' = blockDB
    BY <2>1 DEF Exec, DELPOOL, DeletePool
  <2>3. QED
    BY <1>1, <2>1, <2>2
<1>7. ~LateExec
  BY DEF LateExec, DatabaseInv
<1>8. QED
  BY <1>2, <1>3, <1>4, <1>5, <1>6, <1>7, Steps, StoreBlockDatabase

\* storeBlock and genBlockId: as long as no Redis command fails, a block stays in the
\* database with its transactions unless a later block got its id; for any number of
\* workers and crashes.
THEOREM BlocksStay ==
  ASSUME MaxFaults = 0
  PROVE  Spec => []BlockKept
<1>1. Init => DatabaseInv
  BY DEF Init, DatabaseInv, BlockKept
<1>2. TypeInv /\ DatabaseInv /\ [Next]_vars => DatabaseInv'
  BY NextDatabase
<1>3. DatabaseInv => BlockKept
  BY DEF DatabaseInv
<1>4. QED
  BY <1>1, <1>2, <1>3, InitTypeInv, NextTypeInv, PTL DEF Spec

\* From StoreBlock to the broadcast the builder holds the newest block.
NewestInHand ==
  \A w \in Worker : pc[w] \in Finished => built # <<>> /\ blk[w] = built[Len(built)]

\* generateNewBlock: nobody else makes a block before the broadcast, because of the lock.
LEMMA NextNewest ==
  ASSUME TypeInv, LockInv, NewestInHand, [Next]_vars
  PROVE  NewestInHand'
<1> DEFINE Stays(v) == pc'[v] \in Finished => pc[v] \in Finished /\ blk'[v] = blk[v]
<1>1. CASE built' = built /\ \A v \in Worker : Stays(v)
  BY <1>1 DEF NewestInHand
<1>2. CASE Quiet
  BY <1>1, <1>2 DEF Quiet
<1>3. CASE LateExec
  BY <1>1, <1>3 DEF LateExec, proc, hist
<1>4. ASSUME NEW w \in Worker, NEW l \in Label \ Finished, pc' = [pc EXCEPT ![w] = l],
             \A v \in Worker \ {w} : blk'[v] = blk[v], built' = built
      PROVE  NewestInHand'
  <2>1. \A v \in Worker : pc'[v] = IF v = w THEN l ELSE pc[v]
    BY <1>4 DEF TypeInv, TypeOK
  <2>2. QED
    BY <1>1, <1>4, <2>1
<1>5. ASSUME NEW w \in Worker, NEW tx \in Transaction, QueryBalance(w, tx) PROVE NewestInHand'
  <2>1. blk' = blk /\ built' = built
    BY <1>5 DEF QueryBalance
  <2>2. pc' = pc \/ \E l \in {"debit", "enqueue"} : pc' = [pc EXCEPT ![w] = l]
    BY <1>5 DEF QueryBalance, Decide, Goto
  <2>3. QED
    BY <1>1, <1>4, <2>1, <2>2 DEF Label, Finished
<1>6. ASSUME NEW w \in Worker, EnQueue(w) PROVE NewestInHand'
  BY <1>4, <1>6 DEF EnQueue, Call, Goto, Label, Finished
<1>7. ASSUME NEW w \in Worker, LRange(w) \/ DelPool(w) PROVE NewestInHand'
  <2>1. built' = built /\ \A v \in Worker \ {w} : blk'[v] = blk[v]
    BY <1>7 DEF LRange, DelPool, hist, TypeInv, TypeOK
  <2>2. \E l \in {"delPool", "relGet", "store"} : pc' = [pc EXCEPT ![w] = l]
    BY <1>7 DEF LRange, DelPool, Read, Call, Refused, FailRead, Goto
  <2>3. QED
    BY <1>4, <2>1, <2>2 DEF Label, Building, Finished
<1>8. ASSUME NEW w \in Worker, StoreBlock(w) PROVE NewestInHand'
  <2>1. pc[w] = "store" /\ pc' = [pc EXCEPT ![w] = "storeLast"]
    BY <1>8 DEF StoreBlock, Call, Goto
  <2>2. \A v \in Worker : pc'[v] \in Finished => v = w
    BY <2>1 DEF LockInv, BuilderMutex, TypeInv, TypeOK, Building, Finished
  <2>3. built' # <<>> /\ built'[Len(built')] = blk'[w]
    BY <1>8, StoreBlockBuilt
  <2>4. QED
    BY <2>2, <2>3 DEF NewestInHand
<1>9. QED
  BY <1>2, <1>3, <1>5, <1>6, <1>7, <1>8, Steps

\* Only broadcast hands a block to the writer.
LEMMA SendsNewest ==
  ASSUME TypeInv, NewestInHand, Next, sends' # sends
  PROVE  sends'[Len(sends')].block = built[Len(built)]
<1>1. PICK w \in Worker : Broadcast(w)
  BY DEF Next, Handler, InitLock, WalkChain, UpdateBalance, Debit, Credit, EnQueue, GetLast,
         LRange, DelPool, StoreBlock, StoreLast, ReleaseGet, ReleaseDel, TryLock, Crash, Restart,
         QueryBalance, HandleLogin, LateExec, Tick, hist
<1>2. blk[w] = built[Len(built)]
  BY <1>1 DEF Broadcast, NewestInHand, Finished
<1> DEFINE Message == [block : Block, to : SUBSET Node]
           message == [block |-> blk[w], to |-> childNodes]
<1>3. sends \in Seq(Message) /\ message.block = blk[w]
  BY DEF TypeInv, TypeOK
<1>4. sends' = Append(sends, message)
  BY <1>1 DEF Broadcast
<1> HIDE DEF Message, message
<1>5. sends'[Len(sends')] = message
  BY <1>3, <1>4
<1>6. QED
  BY <1>2, <1>3, <1>5

\* broadcast under the builder lock: what is handed to the children is always the newest
\* block, for any number of workers, crashes, and failed and late commands.
THEOREM BroadcastsInOrder == Spec => BroadcastNewest
<1>1. Init => NewestInHand
  BY DEF Init, NewestInHand, Finished
<1>2. TypeInv /\ LockInv /\ NewestInHand /\ [Next]_vars => NewestInHand'
  BY NextNewest
<1>3. TypeInv /\ NewestInHand /\ [Next]_vars
        => [sends' # sends => sends'[Len(sends')].block = built[Len(built)]]_vars
  BY SendsNewest
<1>4. QED
  BY <1>1, <1>2, <1>3, InitTypeInv, NextTypeInv, InitLockInv, NextLockInv, PTL
    DEF Spec, BroadcastNewest

\* RedisStore and FPService: the store and the locals of the handlers keep their types,
\* whatever crashes, fails or is executed late.
THEOREM LedgerTypes == Spec => []TypeOK
BY TypeCorrect, PTL

-----------------------------------------------------------------------------
(* 3. Where the money is *)

(* Sums over finite sets *)

\* A smallest number: what the proofs use for induction over the size of a set.
LEMMA LeastNumber ==
  ASSUME NEW T, T \subseteq Nat, T # {}
  PROVE  \E m \in T : \A k \in T : m <= k
<1> DEFINE R == {ss \in Nat \X Nat : ss[1] < ss[2]}
<1>1. IsWellFoundedOn(R, Nat)
  BY NatLessThanWellFounded DEF OpToRel
<1>2. PICK m \in T : \A k \in T : ~ (<<k, m>> \in R)
  BY <1>1, WFMin
<1>3. \A k \in T : ~(k < m)
  BY <1>2
<1>4. QED
  BY <1>3

\* A collection of subsets of a finite set that has the empty set, and each set all of
\* whose reductions by one element it has, has them all.
LEMMA SubsetInduction ==
  ASSUME NEW S, IsFiniteSet(S), NEW Q, {} \in Q,
         \A T \in SUBSET S : T # {} /\ (\A x \in T : T \ {x} \in Q) => T \in Q
  PROVE  \A T \in SUBSET S : T \in Q
<1> DEFINE Size(n) == \E T \in SUBSET S : T \notin Q /\ Cardinality(T) = n
           Bad == {n \in Nat : Size(n)}
<1>1. SUFFICES ASSUME NEW U \in SUBSET S, U \notin Q PROVE FALSE
  OBVIOUS
<1>2. \A T \in SUBSET S : IsFiniteSet(T) /\ Cardinality(T) \in Nat
  BY FS_Subset, FS_CardinalityType
<1>3. Cardinality(U) \in Bad
  BY <1>1, <1>2
<1>4. PICK m \in Bad : \A k \in Bad : m <= k
  <2>1. Bad \subseteq Nat /\ Bad # {}
    BY <1>3
  <2> HIDE DEF Bad
  <2>2. QED
    BY <2>1, LeastNumber
<1>5. PICK T \in SUBSET S : T \notin Q /\ Cardinality(T) = m
  BY <1>4
<1>6. ASSUME NEW x \in T PROVE T \ {x} \in Q
  <2>1. Cardinality(T \ {x}) = m - 1 /\ T \ {x} \in SUBSET S
    BY <1>2, <1>5, FS_RemoveElement
  <2>2. Cardinality(T \ {x}) \in Nat
    BY <1>2, <2>1
  <2>3. m - 1 \notin Bad
    BY <1>4
  <2>4. QED
    BY <2>1, <2>2, <2>3
<1>7. QED
  BY <1>5, <1>6

\* The function by which SumFunctionOnSet adds up the values of f on the elements of S.
SumTable(t, f, S) ==
  t = [s \in SUBSET S |-> IF s = {} THEN 0
        ELSE f[CHOOSE x \in s : TRUE] + t[s \ {CHOOSE x \in s : TRUE}]]

\* SumFunctionOnSet looks S up in that function.
LEMMA SumIs ==
  ASSUME NEW f, NEW S
  PROVE  SumFunctionOnSet(f, S) = (CHOOSE t : SumTable(t, f, S))[S]
BY DEF SumFunctionOnSet, FoldFunctionOnSet, MapThenFoldSet, SumTable

\* Such a function exists when S is finite.
LEMMA SumTableExists ==
  ASSUME NEW f, NEW S, IsFiniteSet(S)
  PROVE  \E t : SumTable(t, f, S)
<1> DEFINE Pick(s) == CHOOSE x \in s : TRUE
           Small(n) == {s \in SUBSET S : Cardinality(s) <= n}
           Table(t, n) == t = [s \in Small(n) |-> IF s = {} THEN 0
                                 ELSE f[Pick(s)] + t[s \ {Pick(s)}]]
           Has(n) == \E t : Table(t, n)
           Bad == {n \in Nat : ~ Has(n)}
<1>1. \A s \in SUBSET S : /\ IsFiniteSet(s) /\ Cardinality(s) \in Nat
                          /\ Cardinality(s) <= Cardinality(S)
                          /\ Cardinality(s) = 0 <=> s = {}
  BY FS_Subset, FS_CardinalityType, FS_EmptySet
<1>2. \A s \in SUBSET S : s # {} =>
        /\ Pick(s) \in s /\ s \ {Pick(s)} \in SUBSET S
        /\ Cardinality(s \ {Pick(s)}) = Cardinality(s) - 1
  BY <1>1, FS_RemoveElement
<1>3. Bad = {}
  <2>1. SUFFICES ASSUME Bad # {} PROVE FALSE
    OBVIOUS
  <2>2. PICK m \in Bad : \A k \in Bad : m <= k
    <3>1. Bad \subseteq Nat
      OBVIOUS
    <3> HIDE DEF Bad
    <3>2. QED
      BY <2>1, <3>1, LeastNumber
  <2>3. m # 0
    <3>1. \A s \in Small(0) : s = {}
      BY <1>1
    <3>2. Table([s \in Small(0) |-> 0], 0)
      BY <3>1
    <3>3. Has(0)
      <4> HIDE DEF Table
      <4>1. QED
        BY <3>2
    <3> HIDE DEF Has
    <3>4. QED
      BY <3>3, <2>2
  <2>4. PICK t : Table(t, m - 1)
    <3>1. Has(m - 1)
      <4> HIDE DEF Has
      <4>1. QED
        BY <2>2, <2>3
    <3>2. QED
      BY <3>1
  <2> DEFINE h == [s \in Small(m) |->
                    IF s \in Small(m - 1) THEN t[s] ELSE f[Pick(s)] + t[s \ {Pick(s)}]]
  <2>5. ASSUME NEW s \in Small(m)
        PROVE  h[s] = IF s = {} THEN 0 ELSE f[Pick(s)] + h[s \ {Pick(s)}]
    <3>1. CASE s = {}
      <4>1. s \in Small(m - 1)
        BY <3>1, <1>1, <2>2, <2>3
      <4>2. QED
        BY <4>1, <3>1, <2>4
    <3>2. CASE s # {}
      <4>1. s \ {Pick(s)} \in Small(m - 1) /\ s \ {Pick(s)} \in Small(m)
        BY <1>1, <1>2, <2>2, <3>2
      <4>2. h[s \ {Pick(s)}] = t[s \ {Pick(s)}]
        BY <4>1
      <4>3. s \in Small(m - 1) => t[s] = f[Pick(s)] + t[s \ {Pick(s)}]
        BY <2>4, <3>2
      <4>4. h[s] = f[Pick(s)] + t[s \ {Pick(s)}]
        BY <4>3
      <4> HIDE DEF h, Pick
      <4>5. QED
        BY <4>2, <4>4, <3>2
    <3>3. QED
      BY <3>1, <3>2
  <2>6. Table(h, m)
    <3>1. h = [s \in Small(m) |-> h[s]]
      OBVIOUS
    <3> HIDE DEF h
    <3>2. QED
      BY <3>1, <2>5
  <2> HIDE DEF Table, h
  <2>7. QED
    BY <2>2, <2>6
<1>4. Cardinality(S) \in Nat
  BY FS_CardinalityType
<1>5. PICK t : Table(t, Cardinality(S))
  BY <1>3, <1>4
<1>6. Small(Cardinality(S)) = SUBSET S
  BY <1>1
<1>7. QED
  BY <1>5, <1>6 DEF SumTable

\* Two such functions agree where both are defined, if the functions they add up do.
LEMMA SumTableUnique ==
  ASSUME NEW f, NEW g, NEW S, NEW T, IsFiniteSet(S), S \subseteq T,
         \A x \in S : f[x] = g[x],
         NEW t, SumTable(t, f, S), NEW u, SumTable(u, g, T)
  PROVE  t[S] = u[S]
<1> DEFINE Q == {s \in SUBSET S : t[s] = u[s]}
<1>1. {} \in Q
  BY DEF SumTable
<1>2. ASSUME NEW s \in SUBSET S, s # {}, \A x \in s : s \ {x} \in Q
      PROVE  s \in Q
  <2> DEFINE p == CHOOSE x \in s : TRUE
  <2>1. p \in s
    BY <1>2
  <2>2. t[s] = f[p] + t[s \ {p}]
    BY <1>2 DEF SumTable
  <2>3. u[s] = g[p] + u[s \ {p}]
    BY <1>2 DEF SumTable
  <2>4. t[s \ {p}] = u[s \ {p}] /\ f[p] = g[p]
    BY <2>1, <1>2
  <2>5. QED
    BY <2>2, <2>3, <2>4
<1> HIDE DEF Q
<1>3. \A s \in SUBSET S : s \in Q
  BY <1>1, <1>2, SubsetInduction
<1>4. QED
  BY <1>3 DEF Q

\* A sum depends only on the values that are added up.
LEMMA SumExt ==
  ASSUME NEW f, NEW g, NEW S, IsFiniteSet(S), \A x \in S : f[x] = g[x]
  PROVE  SumFunctionOnSet(f, S) = SumFunctionOnSet(g, S)
<1>1. /\ SumTable(CHOOSE t : SumTable(t, f, S), f, S)
      /\ SumTable(CHOOSE t : SumTable(t, g, S), g, S)
  BY SumTableExists
<1>2. QED
  BY <1>1, SumTableUnique, SumIs

\* The sum over no elements.
LEMMA SumEmpty == ASSUME NEW f PROVE SumFunctionOnSet(f, {}) = 0
<1>1. SumTable(CHOOSE t : SumTable(t, f, {}), f, {})
  BY SumTableExists, FS_EmptySet
<1>2. (CHOOSE t : SumTable(t, f, {}))[{}] = 0
  BY <1>1 DEF SumTable
<1>3. QED
  BY <1>2, SumIs

\* The element that CHOOSE takes first can be taken out of a sum.
LEMMA SumTakeFirst ==
  ASSUME NEW f, NEW S, IsFiniteSet(S), S # {}
  PROVE  LET p == CHOOSE x \in S : TRUE
         IN p \in S /\ SumFunctionOnSet(f, S) = f[p] + SumFunctionOnSet(f, S \ {p})
<1> DEFINE p == CHOOSE x \in S : TRUE
           t == CHOOSE t : SumTable(t, f, S)
           u == CHOOSE u : SumTable(u, f, S \ {p})
<1>1. p \in S
  OBVIOUS
<1>2. IsFiniteSet(S \ {p})
  BY FS_RemoveElement
<1>3. SumTable(t, f, S) /\ SumTable(u, f, S \ {p})
  BY SumTableExists, <1>2
<1>4. t[S] = f[p] + t[S \ {p}]
  BY <1>3 DEF SumTable
<1>5. u[S \ {p}] = t[S \ {p}]
  <2> HIDE DEF t, u, p
  <2>1. S \ {p} \subseteq S
    OBVIOUS
  <2>2. QED
    BY <1>2, <1>3, <2>1, SumTableUnique
<1>6. QED
  BY <1>1, <1>4, <1>5, SumIs

\* A sum of integers is an integer.
LEMMA SumType ==
  ASSUME NEW f, NEW S, IsFiniteSet(S), \A x \in S : f[x] \in Int
  PROVE  SumFunctionOnSet(f, S) \in Int
<1> DEFINE Q == {s \in SUBSET S : SumFunctionOnSet(f, s) \in Int}
<1>1. {} \in Q
  BY SumEmpty
<1>2. ASSUME NEW s \in SUBSET S, s # {}, \A x \in s : s \ {x} \in Q
      PROVE  s \in Q
  <2>1. IsFiniteSet(s)
    BY FS_Subset
  <2>2. PICK p \in s : SumFunctionOnSet(f, s) = f[p] + SumFunctionOnSet(f, s \ {p})
    BY <2>1, <1>2, SumTakeFirst
  <2>3. f[p] \in Int /\ SumFunctionOnSet(f, s \ {p}) \in Int
    BY <1>2
  <2>4. QED
    BY <2>2, <2>3
<1> HIDE DEF Q
<1>3. \A s \in SUBSET S : s \in Q
  BY <1>1, <1>2, SubsetInduction
<1>4. QED
  BY <1>3 DEF Q

\* Any element can be taken out of a sum.
LEMMA SumTakeOut ==
  ASSUME NEW f, NEW S, IsFiniteSet(S), \A x \in S : f[x] \in Int, NEW x \in S
  PROVE  SumFunctionOnSet(f, S) = f[x] + SumFunctionOnSet(f, S \ {x})
<1> DEFINE Sum(s) == SumFunctionOnSet(f, s)
           Q == {s \in SUBSET S : \A y \in s : Sum(s) = f[y] + Sum(s \ {y})}
<1>1. {} \in Q
  OBVIOUS
<1>2. ASSUME NEW s \in SUBSET S, s # {}, \A y \in s : s \ {y} \in Q
      PROVE  s \in Q
  <2>1. IsFiniteSet(s)
    BY FS_Subset
  <2> s # {}
    BY <1>2
  <2>2. PICK p \in s : Sum(s) = f[p] + Sum(s \ {p})
    BY <2>1, SumTakeFirst
  <2>3. ASSUME NEW y \in s, y # p PROVE Sum(s) = f[y] + Sum(s \ {y})
    <3>1. Sum(s \ {p}) = f[y] + Sum((s \ {p}) \ {y})
      BY <1>2, <2>3
    <3>2. Sum(s \ {y}) = f[p] + Sum((s \ {y}) \ {p})
      BY <1>2, <2>3
    <3>3. (s \ {p}) \ {y} = (s \ {y}) \ {p}
      OBVIOUS
    <3>4. f[p] \in Int /\ f[y] \in Int
      OBVIOUS
    <3>5. Sum((s \ {p}) \ {y}) \in Int
      <4>1. (s \ {p}) \ {y} \in SUBSET S /\ \A z \in (s \ {p}) \ {y} : f[z] \in Int
        OBVIOUS
      <4>2. IsFiniteSet((s \ {p}) \ {y})
        BY <4>1, FS_Subset
      <4>3. QED
        BY <4>1, <4>2, SumType
    <3> HIDE DEF Sum
    <3>6. PICK k \in Int : k = Sum((s \ {p}) \ {y})
      BY <3>5
    <3>7. Sum(s \ {p}) = f[y] + k /\ Sum(s \ {y}) = f[p] + k
      BY <3>1, <3>2, <3>3, <3>6
    <3>8. QED
      BY <2>2, <3>4, <3>7
  <2> HIDE DEF Sum
  <2>4. \A y \in s : Sum(s) = f[y] + Sum(s \ {y})
    BY <2>2, <2>3
  <2>5. QED
    BY <2>4
<1> HIDE DEF Q
<1>3. \A s \in SUBSET S : s \in Q
  BY <1>1, <1>2, SubsetInduction
<1>4. QED
  BY <1>3 DEF Q

\* A sum grows with its summands.
LEMMA SumGrows ==
  ASSUME NEW f, NEW g, NEW S, IsFiniteSet(S),
         \A x \in S : f[x] \in Int /\ g[x] \in Int /\ f[x] <= g[x]
  PROVE  SumFunctionOnSet(f, S) <= SumFunctionOnSet(g, S)
<1> DEFINE Q == {s \in SUBSET S : SumFunctionOnSet(f, s) <= SumFunctionOnSet(g, s)}
<1>1. {} \in Q
  <2>1. SumFunctionOnSet(f, {}) = 0 /\ SumFunctionOnSet(g, {}) = 0
    BY SumEmpty
  <2>2. QED
    BY <2>1
<1>2. ASSUME NEW s \in SUBSET S, s # {}, \A x \in s : s \ {x} \in Q
      PROVE  s \in Q
  <2>1. IsFiniteSet(s)
    BY FS_Subset
  <2>2. PICK p \in s : TRUE
    BY <1>2
  <2>3. /\ SumFunctionOnSet(f, s) = f[p] + SumFunctionOnSet(f, s \ {p})
        /\ SumFunctionOnSet(g, s) = g[p] + SumFunctionOnSet(g, s \ {p})
    <3>1. \A x \in s : f[x] \in Int /\ g[x] \in Int
      OBVIOUS
    <3>2. QED
      BY <2>1, <3>1, SumTakeOut
  <2>4. SumFunctionOnSet(f, s \ {p}) \in Int /\ SumFunctionOnSet(g, s \ {p}) \in Int
    <3>1. IsFiniteSet(s \ {p}) /\ \A x \in s \ {p} : f[x] \in Int /\ g[x] \in Int
      BY <2>1, FS_RemoveElement
    <3>2. QED
      BY <3>1, SumType
  <2>5. f[p] <= g[p] /\ f[p] \in Int /\ g[p] \in Int
    OBVIOUS
  <2>6. SumFunctionOnSet(f, s \ {p}) <= SumFunctionOnSet(g, s \ {p})
    BY <1>2
  <2>7. SumFunctionOnSet(f, s) <= SumFunctionOnSet(g, s)
    BY <2>3, <2>4, <2>5, <2>6
  <2>8. QED
    BY <2>7
<1> HIDE DEF Q
<1>3. \A s \in SUBSET S : s \in Q
  BY <1>1, <1>2, SubsetInduction
<1>4. QED
  BY <1>3 DEF Q

(* The same for whole functions, in the form the steps of the ledger need *)

\* A sum of amounts is an amount.
LEMMA TotalType ==
  ASSUME NEW S, IsFiniteSet(S), NEW f \in [S -> Int]
  PROVE  SumFunction(f) \in Int
BY SumType DEF SumFunction

\* One amount changes: the sum changes by as much.
LEMMA TotalUpdate ==
  ASSUME NEW S, IsFiniteSet(S), NEW f \in [S -> Int], NEW g \in [S -> Int], NEW x \in S,
         \A y \in S : y # x => g[y] = f[y]
  PROVE  SumFunction(g) = SumFunction(f) + g[x] - f[x]
<1> DEFINE s == SumFunctionOnSet(f, S \ {x})
<1>1. SumFunction(f) = f[x] + s
  BY SumTakeOut DEF SumFunction
<1>2. SumFunction(g) = g[x] + SumFunctionOnSet(g, S \ {x})
  BY SumTakeOut DEF SumFunction
<1>3. IsFiniteSet(S \ {x})
  BY FS_RemoveElement
<1>4. SumFunctionOnSet(g, S \ {x}) = s
  BY <1>3, SumExt
<1>5. s \in Int
  BY <1>3, SumType
<1> HIDE DEF s
<1>6. f[x] \in Int /\ g[x] \in Int
  OBVIOUS
<1>7. QED
  BY <1>1, <1>2, <1>4, <1>5, <1>6

\* No amount grows: neither does the sum.
LEMMA TotalGrows ==
  ASSUME NEW S, IsFiniteSet(S), NEW f \in [S -> Int], NEW g \in [S -> Int],
         \A x \in S : f[x] <= g[x]
  PROVE  SumFunction(f) <= SumFunction(g)
BY SumGrows DEF SumFunction

\* Amounts that are all 0 add up to 0.
LEMMA TotalZero ==
  ASSUME NEW S, IsFiniteSet(S), NEW f \in [S -> Int], \A x \in S : f[x] = 0
  PROVE  SumFunction(f) = 0
<1> DEFINE Q == {s \in SUBSET S : SumFunctionOnSet(f, s) = 0}
<1>1. {} \in Q
  BY SumEmpty
<1>2. ASSUME NEW s \in SUBSET S, s # {}, \A x \in s : s \ {x} \in Q
      PROVE  s \in Q
  <2>1. IsFiniteSet(s)
    BY FS_Subset
  <2>2. PICK p \in s : SumFunctionOnSet(f, s) = f[p] + SumFunctionOnSet(f, s \ {p})
    BY <2>1, <1>2, SumTakeFirst
  <2>3. f[p] = 0 /\ SumFunctionOnSet(f, s \ {p}) = 0
    BY <1>2
  <2>4. QED
    BY <2>2, <2>3
<1> HIDE DEF Q
<1>3. \A s \in SUBSET S : s \in Q
  BY <1>1, <1>2, SubsetInduction
<1>4. QED
  BY <1>3 DEF Q, SumFunction

-----------------------------------------------------------------------------
(* What initBalance has still to apply *)

\* The addresses that the transactions of the genesis block name.
Touched == {GenesisTxs[i].from : i \in DOMAIN GenesisTxs}
             \cup {GenesisTxs[i].to : i \in DOMAIN GenesisTxs}

\* The map that updateBalance makes of the genesis block: one entry for each of them.
LEMMA GenesisMapIs ==
  BalanceMap(GenesisBlock) = {[key |-> x, by |-> Genesis0(x)] : x \in Touched}
<1>1. GenesisBlock.txs = GenesisTxs
  BY DEF GenesisBlock, EmptyBlock
<1>2. QED
  BY <1>1 DEF BalanceMap, Genesis0, Touched

\* Each entry has what the block brings to its address.
LEMMA GenesisMap ==
  /\ \A p \in BalanceMap(GenesisBlock) :
       /\ p.by = Genesis0(p.key)
       /\ p.key \in Address /\ p.by \in Int
       /\ p.key \in Account => p.by >= 0
  /\ \A p, q \in BalanceMap(GenesisBlock) : p.key = q.key => p = q
  /\ \A x \in Touched : \E p \in BalanceMap(GenesisBlock) : p.key = x
<1> HIDE DEF Genesis0
<1>1. \A p \in BalanceMap(GenesisBlock) : \E x : p = [key |-> x, by |-> Genesis0(x)]
  BY GenesisMapIs
<1>2. \A x \in Touched : [key |-> x, by |-> Genesis0(x)] \in BalanceMap(GenesisBlock)
  BY GenesisMapIs
<1>3. \A x \in Touched : \E p \in BalanceMap(GenesisBlock) : p.key = x
  <2> TAKE x \in Touched
  <2>1. [key |-> x, by |-> Genesis0(x)].key = x
    OBVIOUS
  <2>2. QED
    BY <1>2, <2>1
<1>4. QED
  BY <1>1, <1>3, GenesisAssumption

\* The genesis block brings nothing to an account that none of its transactions names.
LEMMA GenesisUntouched ==
  ASSUME NEW x, \A p \in BalanceMap(GenesisBlock) : p.key # x
  PROVE  Genesis0(x) = 0
<1> DEFINE D == DOMAIN GenesisTxs
           f == [i \in D |-> Effect(GenesisTxs[i], x)]
<1>1. x \notin Touched
  BY GenesisMap
<1>2. \A i \in D : GenesisTxs[i].from # x /\ GenesisTxs[i].to # x
  BY <1>1 DEF Touched
<1>3. f \in [D -> Int] /\ \A i \in D : f[i] = 0
  BY <1>2 DEF Effect
<1>4. IsFiniteSet(D)
  <2>1. D = 1..Len(GenesisTxs) /\ Len(GenesisTxs) \in Nat
    BY StoreAssumption
  <2>2. QED
    BY <2>1, FS_Interval
<1> HIDE DEF f, D
<1>5. SumFunction(f) = 0
  BY <1>3, <1>4, TotalZero
<1>6. QED
  BY <1>5 DEF f, D, Genesis0

\* What the genesis block brings to an account.
LEMMA GenesisType == \A x \in Account : Genesis0(x) \in Nat
<1> SUFFICES ASSUME NEW x \in Account PROVE Genesis0(x) \in Nat
  OBVIOUS
<1>1. CASE \A p \in BalanceMap(GenesisBlock) : p.key # x
  BY <1>1, GenesisUntouched
<1>2. CASE \E p \in BalanceMap(GenesisBlock) : p.key = x
  BY <1>2, GenesisMap
<1>3. QED
  BY <1>1, <1>2

\* The genesis block as a whole.
LEMMA SupplyType == Supply \in Int
<1> DEFINE f == [x \in Account |-> Genesis0(x)]
<1>1. f \in [Account -> Int]
  BY GenesisType
<1>2. Supply = SumFunction(f)
  BY DEF Supply, Genesis0
<1> HIDE DEF f
<1>3. QED
  BY <1>1, <1>2, FiniteAssumption, TotalType

\* initBalance: the lock that is never released lets one worker walk the chain, once.
Opening == {"walk", "apply"}

OpenedOnce ==
  /\ late = {}
  /\ lock[INITBALANCE] = NoId => \A w \in Worker : pc[w] \notin Opening
  /\ \A v, w \in Worker : pc[v] \in Opening /\ pc[w] \in Opening => v = w
  /\ \A w \in Worker :
       /\ todo[w] # {} => pc[w] = "apply"
       /\ todo[w] \subseteq BalanceMap(GenesisBlock)
       /\ pc[w] = "apply" => walk[w] = NoId

\* The funds of account x are still to be applied.
Pending(x) ==
  \/ lock[INITBALANCE] = NoId
  \/ \E w \in Worker : pc[w] = "walk"
  \/ \E w \in Worker : \E p \in todo[w] : p.key = x

Unopened(x) == IF Pending(x) THEN Genesis0(x) ELSE 0

\* They are applied as a whole, so this is what LedgerBank calls unapplied.
LEMMA UnappliedIs ==
  ASSUME OpenedOnce, NEW x \in Account
  PROVE  Unapplied(x) = Unopened(x)
<1>1. CASE lock[INITBALANCE] = NoId \/ \E w \in Worker : pc[w] = "walk"
  BY <1>1 DEF Unapplied, Unopened, Pending
<1>2. CASE ~(lock[INITBALANCE] = NoId \/ \E w \in Worker : pc[w] = "walk")
  <2> DEFINE f == [w \in Worker |-> IF \E p \in todo[w] : p.key = x
                                      THEN (CHOOSE p \in todo[w] : p.key = x).by ELSE 0]
             zero == [w \in Worker |-> 0]
  <2>1. Unapplied(x) = SumFunction(f)
    BY <1>2 DEF Unapplied
  <2>2. SumFunction(zero) = 0
    BY FiniteAssumption, TotalZero
  <2>3. CASE \A w \in Worker : \A p \in todo[w] : p.key # x
    <3>1. f = zero
      BY <2>3
    <3>2. QED
      BY <1>2, <2>1, <2>2, <2>3, <3>1 DEF Unopened, Pending
  <2>4. ASSUME NEW w \in Worker, NEW p \in todo[w], p.key = x PROVE Unapplied(x) = Unopened(x)
    <3>1. \A q \in todo[w] : q.key = x => q = p
      BY <2>4, GenesisMap DEF OpenedOnce
    <3>2. f[w] = Genesis0(x)
      <4>1. (CHOOSE q \in todo[w] : q.key = x) = p
        BY <3>1, <2>4
      <4>2. p.by = Genesis0(x)
        BY <2>4, GenesisMap DEF OpenedOnce
      <4>3. f[w] = (CHOOSE q \in todo[w] : q.key = x).by
        BY <2>4
      <4>4. QED
        BY <4>1, <4>2, <4>3
    <3>3. \A v \in Worker : v # w => f[v] = 0
      <4>1. \A v \in Worker : v # w => todo[v] = {}
        BY <2>4 DEF OpenedOnce, Opening
      <4>2. QED
        BY <4>1
    <3>4. Genesis0(x) \in Int
      BY GenesisType
    <3>5. f \in [Worker -> Int] /\ zero \in [Worker -> Int]
      <4>1. f = [v \in Worker |-> f[v]]
        OBVIOUS
      <4> HIDE DEF f
      <4>2. \A v \in Worker : f[v] \in Int
        BY <3>2, <3>3, <3>4
      <4>3. QED
        BY <4>1, <4>2
    <3>6. \A v \in Worker : v # w => f[v] = zero[v]
      BY <3>3
    <3>7. zero[w] = 0
      OBVIOUS
    <3> HIDE DEF f, zero
    <3>8. SumFunction(f) = SumFunction(zero) + f[w] - zero[w]
      BY <3>5, <3>6, FiniteAssumption, TotalUpdate
    <3>9. Unapplied(x) = Genesis0(x)
      BY <2>1, <2>2, <3>2, <3>4, <3>7, <3>8
    <3>10. QED
      BY <3>9, <2>4 DEF Unopened, Pending
  <2>5. QED
    BY <2>3, <2>4
<1>3. QED
  BY <1>1, <1>2

-----------------------------------------------------------------------------
(* The invariant behind MoneyAccounted *)

\* The labels at which a worker has something to do with balances.
Moving == Opening \cup Handling

\* handleTransaction: an acknowledged transaction is in nobody's hands any more, and
\* only a transaction that was found funded is carried out.
Decided ==
  /\ \A tx \in acked : verdict[tx] # "unsent" /\ ~InHand(tx)
  /\ \A w \in Worker : pc[w] \in {"debit", "credit"} => verdict[cur[w]] = "funded"

\* The credit of tx has been issued.
Credited(tx) == tx \in acked \/ \E w \in Worker : pc[w] = "enqueue" /\ cur[w] = tx

\* The parts of the sums that MoneyAccounted is about.
InTransitAt(w) == IF pc[w] = "credit" THEN cur[w].value ELSE 0
BurntBy(tx) ==
  IF verdict[tx] = "funded" /\ tx.to = NoAddress /\ Credited(tx) THEN tx.value ELSE 0

Held == SumFunction(balance)
Moved == SumFunction([w \in Worker |-> InTransitAt(w)])
Gone == SumFunction([tx \in Transaction |-> BurntBy(tx)])
ToOpen == SumFunction([x \in Account |-> Unopened(x)])

\* No negative amount was accepted.
Positive == \A tx \in Transaction : verdict[tx] = "funded" => tx.value >= 0

\* Together with what initBalance has still to apply it is the whole supply, or less if
\* somebody died.
Balanced ==
  /\ Positive => Held + Moved + Gone + ToOpen <= Supply
  /\ crashes = 0 => Held + Moved + Gone + ToOpen = Supply

MoneyInv == OpenedOnce /\ Decided /\ Balanced

\* A step that has nothing to do with balances.
Aside ==
  /\ UNCHANGED <<balance, todo, verdict, acked, crashes, late>>
  /\ lock'[INITBALANCE] = lock[INITBALANCE]
  /\ \A w \in Worker :
       \/ pc'[w] = pc[w] /\ cur'[w] = cur[w] /\ walk'[w] = walk[w]
       \/ pc[w] \notin Moving /\ pc'[w] \notin Moving

\* A worker that moves on among the labels that have nothing to do with balances.
LEMMA AsideMove ==
  ASSUME TypeInv, NEW w \in Worker, NEW l, pc' = [pc EXCEPT ![w] = l],
         pc[w] \notin Moving, l \notin Moving,
         UNCHANGED <<balance, todo, verdict, acked, crashes, late>>,
         lock'[INITBALANCE] = lock[INITBALANCE],
         \A v \in Worker : v # w => cur'[v] = cur[v] /\ walk'[v] = walk[v]
  PROVE  Aside
<1>1. \A v \in Worker : v # w => pc'[v] = pc[v]
  BY DEF TypeInv, TypeOK
<1>2. pc'[w] = l
  BY DEF TypeInv, TypeOK
<1>3. QED
  BY <1>1, <1>2 DEF Aside

\* So does one that issues a command other than INCRBY and leaves the lock of
\* initBalance alone.
LEMMA AsideCall ==
  ASSUME TypeInv, MaxFaults = 0, NEW w \in Worker, NEW c, NEW ok, NEW fail,
         Call(w, c, ok, fail), pc[w] \notin Moving, ok \notin Moving,
         c.op # "INCRBY", c.op = "DELLOCK" => c.key = BUILDER,
         c.op = "SETNX" => c.key = BUILDER \/ lock[c.key] # NoId,
         UNCHANGED <<todo, verdict, acked, crashes>>,
         \A v \in Worker : v # w => cur'[v] = cur[v] /\ walk'[v] = walk[v]
  PROVE  Aside
<1>1. Exec(c) /\ pc' = [pc EXCEPT ![w] = ok] /\ late' = late
  BY CallExecutes
<1>2. balance' = balance
  BY <1>1, OnlyIncrBy
<1>3. lock'[INITBALANCE] = lock[INITBALANCE]
  <2>1. DOMAIN lock = LockKey /\ INITBALANCE \in LockKey /\ BUILDER # INITBALANCE
    BY LockFacts DEF TypeInv, TypeOK, StoreTypeOK, LockKey, INITBALANCE
  <2>2. CASE lock' = lock
    BY <2>2
  <2>3. CASE c.op = "SETNX" /\ SetNX(c.key, c.id)
    BY <2>1, <2>3 DEF SetNX
  <2>4. CASE c.op = "DELLOCK" /\ DeleteLock(c.key)
    BY <2>1, <2>4 DEF DeleteLock
  <2>5. QED
    BY <1>1, <2>2, <2>3, <2>4 DEF Exec, RPush, DeletePool, Set, SAdd
<1>4. QED
  BY <1>1, <1>2, <1>3, AsideMove

\* Without faults no reading command fails.
LEMMA ReadSucceeds ==
  ASSUME TypeInv, MaxFaults = 0
  PROVE  ~FailRead
BY DEF FailRead, TypeInv, TypeOK

\* createBlock, generateNewBlock and handleLogin move no money.
LEMMA BuilderAside ==
  ASSUME TypeInv, MaxFaults = 0, NEW w \in Worker,
         \/ TryLock(w) \/ GetLast(w) \/ LRange(w) \/ DelPool(w) \/ StoreBlock(w)
         \/ StoreLast(w) \/ Broadcast(w) \/ ReleaseGet(w) \/ ReleaseDel(w)
         \/ \E node \in Node : HandleLogin(w, node)
  PROVE  Aside
<1> USE DEF Moving, Opening, Handling
<1>1. CASE TryLock(w)
  <2> DEFINE ok == IF lock[BUILDER] = NoId THEN "getLast" ELSE "idle"
             c == SETNX(BUILDER, idOf[w])
  <2>1. Call(w, c, ok, "idle")
    BY <1>1 DEF TryLock
  <2>2. c.op = "SETNX" /\ c.key = BUILDER
    BY DEF SETNX
  <2>3. pc[w] = "idle" /\ UNCHANGED <<todo, verdict, acked, crashes, cur, walk>>
    BY <1>1 DEF TryLock, hist
  <2>4. ok \notin Moving
    OBVIOUS
  <2> HIDE DEF ok, c
  <2>5. QED
    BY <2>1, <2>2, <2>3, <2>4, AsideCall
<1>2. CASE DelPool(w)
  <2> DEFINE ok == IF blk[w].txs = <<>> THEN "relGet" ELSE "store"
  <2>1. Call(w, DELPOOL, ok, "relGet")
    BY <1>2, ReadSucceeds DEF DelPool, Refused
  <2>2. DELPOOL.op = "DELPOOL"
    BY DEF DELPOOL
  <2>3. pc[w] = "delPool" /\ UNCHANGED <<todo, verdict, acked, crashes, cur, walk>>
    BY <1>2 DEF DelPool, hist
  <2>4. ok \notin Moving
    OBVIOUS
  <2> HIDE DEF ok
  <2>5. QED
    BY <2>1, <2>2, <2>3, <2>4, AsideCall
<1>3. CASE StoreBlock(w)
  <2> DEFINE c == SET([blk[w] EXCEPT !.id = now, !.prev = last[w].id])
  <2>1. Call(w, c, "storeLast", "storeLast")
    BY <1>3 DEF StoreBlock
  <2>2. c.op = "SET"
    BY DEF SET
  <2>3. pc[w] = "store" /\ UNCHANGED <<todo, verdict, acked, crashes, cur, walk>>
    BY <1>3 DEF StoreBlock
  <2> HIDE DEF c
  <2>4. QED
    BY <2>1, <2>2, <2>3, AsideCall
<1>4. CASE StoreLast(w)
  <2> DEFINE c == SET(last[w])
  <2>1. Call(w, c, "broadcast", "broadcast")
    BY <1>4 DEF StoreLast
  <2>2. c.op = "SET"
    BY DEF SET
  <2>3. pc[w] = "storeLast" /\ UNCHANGED <<todo, verdict, acked, crashes, cur, walk>>
    BY <1>4 DEF StoreLast, hist
  <2> HIDE DEF c
  <2>4. QED
    BY <2>1, <2>2, <2>3, AsideCall
<1>5. CASE ReleaseDel(w)
  <2> DEFINE c == DELLOCK(BUILDER)
  <2>1. Call(w, c, "idle", "idle")
    BY <1>5 DEF ReleaseDel
  <2>2. c.op = "DELLOCK" /\ c.key = BUILDER
    BY DEF DELLOCK
  <2>3. pc[w] = "relDel" /\ UNCHANGED <<todo, verdict, acked, crashes, cur, walk>>
    BY <1>5 DEF ReleaseDel, hist
  <2> HIDE DEF c
  <2>4. QED
    BY <2>1, <2>2, <2>3, AsideCall
<1>6. ASSUME NEW node \in Node, HandleLogin(w, node) PROVE Aside
  <2> DEFINE c == SADD(node)
  <2>1. Call(w, c, "idle", "idle")
    BY <1>6 DEF HandleLogin
  <2>2. c.op = "SADD"
    BY DEF SADD
  <2>3. pc[w] = "idle" /\ UNCHANGED <<todo, verdict, acked, crashes, cur, walk>>
    BY <1>6 DEF HandleLogin, hist
  <2> HIDE DEF c
  <2>4. QED
    BY <2>1, <2>2, <2>3, AsideCall
<1>7. CASE GetLast(w) \/ LRange(w) \/ Broadcast(w) \/ ReleaseGet(w)
  <2>1. UNCHANGED <<store, link, todo, verdict, acked, crashes, cur, walk>>
    BY <1>7, ReadSucceeds DEF GetLast, LRange, Broadcast, ReleaseGet, Read, hist
  <2>2. pc[w] \notin Moving
    BY <1>7 DEF GetLast, LRange, Broadcast, ReleaseGet
  <2>3. \E l \in {"range", "delPool", "relGet", "relDel", "idle"} : pc' = [pc EXCEPT ![w] = l]
    BY <1>7 DEF GetLast, LRange, Broadcast, ReleaseGet, Read, Goto
  <2>4. QED
    BY <2>1, <2>2, <2>3, AsideMove DEF store, link
<1>8. QED
  BY <1>1, <1>2, <1>3, <1>4, <1>5, <1>6, <1>7

\* The steps that are about money, and all the others.
LEMMA MoneySteps ==
  ASSUME TypeInv, OpenedOnce, MaxFaults = 0, [Next]_vars
  PROVE  \/ Aside
         \/ \E w \in Worker :
              \/ InitLock(w) /\ lock[INITBALANCE] = NoId
              \/ WalkChain(w) \/ UpdateBalance(w) \/ Debit(w) \/ Credit(w) \/ EnQueue(w)
              \/ Crash(w)
              \/ \E tx \in Transaction : QueryBalance(w, tx)
<1>1. ASSUME NEW w \in Worker, InitLock(w), lock[INITBALANCE] # NoId PROVE Aside
  <2> DEFINE c == SETNX(INITBALANCE, idOf[w])
  <2>1. Call(w, c, "idle", "idle")
    BY <1>1 DEF InitLock
  <2>2. c.op = "SETNX" /\ c.key = INITBALANCE
    BY DEF SETNX
  <2>3. /\ pc[w] = "init" /\ UNCHANGED <<todo, verdict, acked, crashes, cur>>
        /\ \A v \in Worker : v # w => walk'[v] = walk[v]
    BY <1>1 DEF InitLock, hist, TypeInv, TypeOK
  <2>4. pc[w] \notin Moving /\ "idle" \notin Moving
    BY <2>3 DEF Moving, Opening, Handling
  <2> HIDE DEF c
  <2>5. QED
    BY <1>1, <2>1, <2>2, <2>3, <2>4, AsideCall
<1>2. ASSUME NEW w \in Worker, Restart(w) PROVE Aside
  <2>1. /\ pc[w] = "down" /\ pc' = [pc EXCEPT ![w] = "init"]
        /\ UNCHANGED <<store, link, todo, verdict, acked, crashes, cur, walk>>
    BY <1>2 DEF Restart, Goto, hist
  <2>2. pc[w] \notin Moving /\ "init" \notin Moving
    BY <2>1 DEF Moving, Opening, Handling
  <2>3. QED
    BY <2>1, <2>2, AsideMove DEF store, link
<1>3. CASE Tick \/ UNCHANGED vars
  BY <1>3 DEF Tick, vars, store, proc, link, hist, Aside
<1>4. ~LateExec
  BY DEF LateExec, OpenedOnce
<1>5. QED
  BY <1>1, <1>2, <1>3, <1>4, BuilderAside DEF Next, Handler

-----------------------------------------------------------------------------
(* What each of these steps does to the state that the sums are made of *)

\* Worker w goes to label l; the locals of the others stay.
Moves(w, l) ==
  /\ pc'[w] = l
  /\ \A v \in Worker : v # w => /\ pc'[v] = pc[v] /\ cur'[v] = cur[v]
                                /\ walk'[v] = walk[v] /\ todo'[v] = todo[v]

\* handleTransaction: the IncrBy of the payer.
LEMMA DebitDoes ==
  ASSUME TypeInv, MaxFaults = 0, NEW w \in Worker, Debit(w)
  PROVE  /\ pc[w] = "debit" /\ Moves(w, "credit")
         /\ UNCHANGED <<cur, walk, todo, verdict, acked, crashes, late, lock>>
         /\ \A x \in Account :
              balance'[x] = IF x = cur[w].from THEN balance[x] - cur[w].value ELSE balance[x]
<1>1. pc[w] = "debit" /\ UNCHANGED <<cur, walk, todo, verdict, acked, crashes>>
  BY DEF Debit, hist
<1>2. /\ Exec(INCRBY(cur[w].from, -cur[w].value)) /\ pc' = [pc EXCEPT ![w] = "credit"]
      /\ late' = late
  BY CallExecutes DEF Debit
<1>3. lock' = lock
  BY <1>2 DEF Exec, INCRBY, IncrBy
<1>4. cur[w].value \in Int
  BY <1>1, CurType
<1>5. \A x \in Account :
        balance'[x] = IF x = cur[w].from THEN balance[x] + (-cur[w].value) ELSE balance[x]
  BY <1>2, <1>4, IncrByAdds
<1>6. \A x \in Account : balance[x] \in Int
  BY DEF TypeInv, TypeOK, StoreTypeOK
<1>7. Moves(w, "credit")
  BY <1>1, <1>2 DEF Moves, TypeInv, TypeOK
<1>8. \A x \in Account :
        balance'[x] = IF x = cur[w].from THEN balance[x] - cur[w].value ELSE balance[x]
  BY <1>4, <1>5, <1>6
<1>9. QED
  BY <1>1, <1>2, <1>3, <1>7, <1>8

\* handleTransaction: the IncrBy of the payee.
LEMMA CreditDoes ==
  ASSUME TypeInv, MaxFaults = 0, NEW w \in Worker, Credit(w)
  PROVE  /\ pc[w] = "credit" /\ Moves(w, "enqueue")
         /\ UNCHANGED <<cur, walk, todo, verdict, acked, crashes, late, lock>>
         /\ \A x \in Account :
              balance'[x] = IF x = cur[w].to THEN balance[x] + cur[w].value ELSE balance[x]
<1>1. pc[w] = "credit" /\ UNCHANGED <<cur, walk, todo, verdict, acked, crashes>>
  BY DEF Credit, hist
<1>2. /\ Exec(INCRBY(cur[w].to, cur[w].value)) /\ pc' = [pc EXCEPT ![w] = "enqueue"]
      /\ late' = late
  BY CallExecutes DEF Credit
<1>3. lock' = lock
  BY <1>2 DEF Exec, INCRBY, IncrBy
<1>4. cur[w].value \in Int
  BY <1>1, CurType
<1>5. \A x \in Account :
        balance'[x] = IF x = cur[w].to THEN balance[x] + cur[w].value ELSE balance[x]
  BY <1>2, <1>4, IncrByAdds
<1>6. Moves(w, "enqueue")
  BY <1>1, <1>2 DEF Moves, TypeInv, TypeOK
<1>7. QED
  BY <1>1, <1>2, <1>3, <1>5, <1>6

\* handleTransaction: enQueue and the answer.
LEMMA EnQueueDoes ==
  ASSUME TypeInv, MaxFaults = 0, NEW w \in Worker, EnQueue(w)
  PROVE  /\ pc[w] = "enqueue" /\ Moves(w, "idle")
         /\ UNCHANGED <<balance, walk, todo, verdict, crashes, late, lock>>
         /\ acked' = acked \cup {cur[w]}
<1>1. /\ pc[w] = "enqueue" /\ UNCHANGED <<walk, todo, verdict, crashes>>
      /\ acked' = acked \cup {cur[w]} /\ cur' = [cur EXCEPT ![w] = EmptyTx]
  BY DEF EnQueue
<1>2. Exec(RPUSH(cur[w])) /\ pc' = [pc EXCEPT ![w] = "idle"] /\ late' = late
  BY CallExecutes DEF EnQueue
<1>3. lock' = lock /\ balance' = balance
  BY <1>2 DEF Exec, RPUSH, RPush
<1>4. Moves(w, "idle")
  BY <1>1, <1>2 DEF Moves, TypeInv, TypeOK
<1>5. QED
  BY <1>1, <1>2, <1>3, <1>4

\* handleTransaction: the queried balance decides.
LEMMA QueryBalanceDoes ==
  ASSUME TypeInv, MaxFaults = 0, NEW w \in Worker, NEW tx \in Transaction, QueryBalance(w, tx)
  PROVE  /\ pc[w] = "idle" /\ verdict[tx] = "unsent"
         /\ UNCHANGED <<balance, walk, todo, acked, crashes, late, lock>>
         /\ \A t \in Transaction : t # tx => verdict'[t] = verdict[t]
         /\ \/ verdict'[tx] = "funded" /\ Moves(w, "debit") /\ cur'[w] = tx
            \/ verdict'[tx] = "short" /\ Moves(w, "enqueue") /\ cur'[w] = tx
            \/ verdict'[tx] = "failed" /\ Moves(w, "idle") /\ cur' = cur
<1>1. /\ pc[w] = "idle" /\ verdict[tx] = "unsent"
      /\ UNCHANGED <<store, link, walk, todo, acked, crashes>>
  BY ReadSucceeds DEF QueryBalance, Refused
<1>2. \E d : verdict' = [verdict EXCEPT ![tx] = d]
  BY DEF QueryBalance, Decide
<1>3. \/ /\ verdict' = [verdict EXCEPT ![tx] = "funded"] /\ cur' = [cur EXCEPT ![w] = tx]
         /\ pc' = [pc EXCEPT ![w] = "debit"]
      \/ /\ verdict' = [verdict EXCEPT ![tx] = "short"] /\ cur' = [cur EXCEPT ![w] = tx]
         /\ pc' = [pc EXCEPT ![w] = "enqueue"]
      \/ verdict' = [verdict EXCEPT ![tx] = "failed"] /\ UNCHANGED <<pc, cur>>
  BY ReadSucceeds DEF QueryBalance, Decide, Goto
<1>4. \/ verdict'[tx] = "funded" /\ Moves(w, "debit") /\ cur'[w] = tx
      \/ verdict'[tx] = "short" /\ Moves(w, "enqueue") /\ cur'[w] = tx
      \/ verdict'[tx] = "failed" /\ Moves(w, "idle") /\ cur' = cur
  BY <1>1, <1>3 DEF Moves, TypeInv, TypeOK
<1>5. \A t \in Transaction : t # tx => verdict'[t] = verdict[t]
  BY <1>2 DEF TypeInv, TypeOK
<1>6. QED
  BY <1>1, <1>4, <1>5 DEF store, link

\* init: the worker that gets the lock of initBalance.
LEMMA InitLockDoes ==
  ASSUME TypeInv, MaxFaults = 0, NEW w \in Worker, InitLock(w), lock[INITBALANCE] = NoId
  PROVE  /\ pc[w] = "init" /\ Moves(w, "walk")
         /\ UNCHANGED <<balance, cur, todo, verdict, acked, crashes, late>>
         /\ lock'[INITBALANCE] # NoId
<1>1. /\ pc[w] = "init" /\ UNCHANGED <<cur, todo, verdict, acked, crashes>>
      /\ \A v \in Worker : v # w => walk'[v] = walk[v]
  BY DEF InitLock, hist, TypeInv, TypeOK
<1>2. Exec(SETNX(INITBALANCE, idOf[w])) /\ pc' = [pc EXCEPT ![w] = "walk"] /\ late' = late
  BY CallExecutes DEF InitLock
<1>3. SetNX(INITBALANCE, idOf[w])
  BY <1>2 DEF Exec, SETNX
<1>4. lock'[INITBALANCE] = idOf[w]
  BY <1>3 DEF SetNX, TypeInv, TypeOK, StoreTypeOK, LockKey, INITBALANCE
<1>5. Moves(w, "walk")
  BY <1>1, <1>2 DEF Moves, TypeInv, TypeOK
<1>6. QED
  BY <1>1, <1>2, <1>3, <1>4, <1>5, LockFacts DEF SetNX

\* initBalance: the one block of the chain is the genesis block.
LEMMA WalkChainDoes ==
  ASSUME TypeInv, MaxFaults = 0, NEW w \in Worker, WalkChain(w)
  PROVE  /\ pc[w] = "walk" /\ Moves(w, "apply") /\ walk'[w] = NoId
         /\ todo'[w] = BalanceMap(GenesisBlock)
         /\ UNCHANGED <<balance, cur, verdict, acked, crashes, late, lock>>
<1>1. pc[w] = "walk" /\ UNCHANGED <<cur, verdict, acked, crashes>>
  BY DEF WalkChain, hist
<1>2. blockDB[walk[w]] = GenesisBlock
  BY <1>1 DEF TypeInv, ChainUnlinked, LocalsOf, KeysFixed
<1>3. GenesisBlock # EmptyBlock /\ GenesisBlock.next = NoId
  <2>1. GenesisBlock.id = Genesis /\ EmptyBlock.id = NoId /\ GenesisBlock.next = NoId
    BY DEF GenesisBlock, EmptyBlock
  <2>2. QED
    BY <2>1, StoreAssumption DEF BlockId
<1>4. /\ todo' = [todo EXCEPT ![w] = BalanceMap(GenesisBlock)]
      /\ walk' = [walk EXCEPT ![w] = NoId]
      /\ pc' = [pc EXCEPT ![w] = "apply"] /\ UNCHANGED <<store, link>>
  BY <1>2, <1>3, ReadSucceeds DEF WalkChain, Goto
<1>5. /\ Moves(w, "apply") /\ walk'[w] = NoId /\ todo'[w] = BalanceMap(GenesisBlock)
  BY <1>1, <1>4 DEF Moves, TypeInv, TypeOK
<1>6. QED
  BY <1>1, <1>4, <1>5 DEF store, link

\* updateBalance: one IncrBy.
LEMMA UpdateBalanceDoes ==
  ASSUME TypeInv, OpenedOnce, MaxFaults = 0, NEW w \in Worker, UpdateBalance(w)
  PROVE  /\ pc[w] = "apply" /\ \E l \in {"apply", "idle"} : Moves(w, l)
         /\ walk'[w] = walk[w]
         /\ \E p \in todo[w] :
              /\ todo'[w] = todo[w] \ {p} /\ (todo'[w] # {} => pc'[w] = "apply")
              /\ \A x \in Account :
                   balance'[x] = IF x = p.key THEN balance[x] + p.by ELSE balance[x]
         /\ UNCHANGED <<cur, verdict, acked, crashes, late, lock>>
<1>1. pc[w] = "apply" /\ UNCHANGED <<cur, walk, verdict, acked, crashes>>
  BY DEF UpdateBalance, hist
<1>2. walk[w] = NoId
  BY <1>1 DEF OpenedOnce
<1>3. PICK p \in todo[w] :
        /\ Call(w, INCRBY(p.key, p.by), IF todo[w] # {p} THEN "apply" ELSE "idle",
                IF todo[w] # {p} THEN "apply" ELSE "idle")
        /\ todo' = [todo EXCEPT ![w] = @ \ {p}]
  BY <1>2 DEF UpdateBalance
<1> DEFINE l == IF todo[w] # {p} THEN "apply" ELSE "idle"
<1>4. Exec(INCRBY(p.key, p.by)) /\ pc' = [pc EXCEPT ![w] = l] /\ late' = late
  BY <1>3, CallExecutes
<1>5. lock' = lock
  BY <1>4 DEF Exec, INCRBY, IncrBy
<1>6. p.by \in Int
  BY DEF TypeInv, TypeOK
<1>7. \A x \in Account : balance'[x] = IF x = p.key THEN balance[x] + p.by ELSE balance[x]
  BY <1>4, <1>6, IncrByAdds
<1>8. todo'[w] = todo[w] \ {p} /\ (todo'[w] # {} => l = "apply")
  BY <1>3 DEF TypeInv, TypeOK
<1>9. Moves(w, l) /\ l \in {"apply", "idle"} /\ pc'[w] = l
  BY <1>1, <1>3, <1>4 DEF Moves, TypeInv, TypeOK
<1> HIDE DEF l
<1>10. QED
  BY <1>1, <1>4, <1>5, <1>7, <1>8, <1>9

\* The death of a worker.
LEMMA CrashDoes ==
  ASSUME TypeInv, NEW w \in Worker, Crash(w)
  PROVE  /\ Moves(w, "down") /\ todo'[w] = {} /\ crashes' = crashes + 1
         /\ UNCHANGED <<balance, verdict, acked, late, lock>>
BY DEF Crash, Goto, Moves, store, link, TypeInv, TypeOK

-----------------------------------------------------------------------------
(* initBalance runs once *)

\* A step in which nobody enters initBalance and nobody gets something to apply.
LEMMA OpenedFrame ==
  ASSUME OpenedOnce, late' = late, lock'[INITBALANCE] = lock[INITBALANCE],
         \A v \in Worker :
           /\ pc'[v] \in Opening => pc'[v] = pc[v] /\ walk'[v] = walk[v]
           /\ todo'[v] \subseteq todo[v]
           /\ todo'[v] # {} => pc'[v] = pc[v]
  PROVE  OpenedOnce'
<1>1. \A v \in Worker : pc'[v] \in Opening => pc[v] \in Opening
  OBVIOUS
<1>2. late' = {}
  BY DEF OpenedOnce
<1>3. lock'[INITBALANCE] = NoId => \A v \in Worker : pc'[v] \notin Opening
  BY <1>1 DEF OpenedOnce
<1>4. \A u, v \in Worker : pc'[u] \in Opening /\ pc'[v] \in Opening => u = v
  BY <1>1 DEF OpenedOnce
<1>5. \A v \in Worker :
       /\ todo'[v] # {} => pc'[v] = "apply"
       /\ todo'[v] \subseteq BalanceMap(GenesisBlock)
       /\ pc'[v] = "apply" => walk'[v] = NoId
  BY DEF OpenedOnce, Opening
<1>6. QED
  BY <1>2, <1>3, <1>4, <1>5 DEF OpenedOnce

\* The locks and labels of initBalance through every step.
LEMMA NextOpened ==
  ASSUME TypeInv, OpenedOnce, MaxFaults = 0, [Next]_vars
  PROVE  OpenedOnce'
<1> DEFINE Keeps(v) == /\ pc'[v] \in Opening => pc'[v] = pc[v] /\ walk'[v] = walk[v]
                       /\ todo'[v] \subseteq todo[v]
                       /\ todo'[v] # {} => pc'[v] = pc[v]
<1>1. CASE Aside
  <2>1. ASSUME NEW v \in Worker PROVE Keeps(v)
    BY <1>1 DEF Aside, Moving, OpenedOnce, Opening
  <2>2. QED
    BY <1>1, <2>1, OpenedFrame DEF Aside
<1>2. ASSUME NEW w \in Worker, NEW l, Moves(w, l), l \notin Opening,
             UNCHANGED <<late, lock>>, todo'[w] = {} \/ (todo'[w] = todo[w] /\ pc[w] \notin Opening)
      PROVE  OpenedOnce'
  <2>1. ASSUME NEW v \in Worker PROVE Keeps(v)
    BY <1>2 DEF Moves, OpenedOnce, Opening
  <2>2. QED
    BY <1>2, <2>1, OpenedFrame
<1>3. ASSUME NEW w \in Worker, Debit(w) \/ Credit(w) \/ EnQueue(w) PROVE OpenedOnce'
  BY <1>2, <1>3, DebitDoes, CreditDoes, EnQueueDoes DEF Opening
<1>4. ASSUME NEW w \in Worker, NEW tx \in Transaction, QueryBalance(w, tx) PROVE OpenedOnce'
  BY <1>2, <1>4, QueryBalanceDoes DEF Opening
<1>5. ASSUME NEW w \in Worker, Crash(w) PROVE OpenedOnce'
  BY <1>2, <1>5, CrashDoes DEF Opening
<1>6. ASSUME NEW w \in Worker, InitLock(w), lock[INITBALANCE] = NoId PROVE OpenedOnce'
  <2>1. /\ pc[w] = "init" /\ Moves(w, "walk") /\ UNCHANGED <<todo, late>>
        /\ lock'[INITBALANCE] # NoId
    BY <1>6, InitLockDoes
  <2>2. \A v \in Worker : pc[v] \notin Opening
    BY <1>6 DEF OpenedOnce
  <2>3. \A v \in Worker : todo'[v] = {}
    BY <2>1, <2>2 DEF OpenedOnce, Opening
  <2>4. \A v \in Worker : v # w => pc'[v] \notin Opening
    BY <2>1, <2>2 DEF Moves
  <2>5. pc'[w] = "walk"
    BY <2>1 DEF Moves
  <2>6. QED
    BY <2>1, <2>3, <2>4, <2>5 DEF OpenedOnce, Opening
<1>7. ASSUME NEW w \in Worker, WalkChain(w) PROVE OpenedOnce'
  <2>1. /\ pc[w] = "walk" /\ Moves(w, "apply") /\ walk'[w] = NoId
        /\ todo'[w] = BalanceMap(GenesisBlock) /\ UNCHANGED <<late, lock>>
    BY <1>7, WalkChainDoes
  <2>2. \A v \in Worker : v # w => pc[v] \notin Opening
    BY <2>1 DEF OpenedOnce, Opening
  <2>3. \A v \in Worker : v # w => pc'[v] \notin Opening /\ todo'[v] = {}
    BY <2>1, <2>2 DEF Moves, OpenedOnce, Opening
  <2>4. pc'[w] = "apply" /\ lock'[INITBALANCE] # NoId
    BY <2>1 DEF Moves, OpenedOnce, Opening
  <2>5. QED
    BY <2>1, <2>3, <2>4 DEF OpenedOnce, Opening
<1>8. ASSUME NEW w \in Worker, UpdateBalance(w) PROVE OpenedOnce'
  <2>1. /\ pc[w] = "apply" /\ UNCHANGED <<late, lock>> /\ walk'[w] = walk[w]
        /\ \E p \in todo[w] : todo'[w] = todo[w] \ {p} /\ (todo'[w] # {} => pc'[w] = "apply")
    BY <1>8, UpdateBalanceDoes
  <2>2. PICK l \in {"apply", "idle"} : Moves(w, l)
    BY <1>8, UpdateBalanceDoes
  <2>3. ASSUME NEW v \in Worker PROVE Keeps(v)
    BY <2>1, <2>2 DEF Moves, Opening
  <2>4. QED
    BY <2>1, <2>3, OpenedFrame
<1>9. QED
  BY <1>1, <1>3, <1>4, <1>5, <1>6, <1>7, <1>8, MoneySteps

-----------------------------------------------------------------------------
(* What handleTransaction has decided *)

\* A step that takes nothing in hand, decides and acknowledges nothing.
LEMMA DecidedFrame ==
  ASSUME Decided, UNCHANGED <<verdict, acked>>,
         \A v \in Worker :
           /\ pc'[v] \in Handling => pc[v] \in Handling /\ cur'[v] = cur[v]
           /\ pc'[v] \in {"debit", "credit"} => pc[v] \in {"debit", "credit"}
  PROVE  Decided'
<1>1. \A tx : InHand(tx)' => InHand(tx)
  BY DEF InHand
<1>2. \A v \in Worker : pc'[v] \in {"debit", "credit"} => cur'[v] = cur[v]
  BY DEF Handling
<1>3. \A tx \in acked' : verdict'[tx] # "unsent" /\ ~InHand(tx)'
  BY <1>1 DEF Decided
<1>4. \A v \in Worker : pc'[v] \in {"debit", "credit"} => verdict'[cur'[v]] = "funded"
  BY <1>2 DEF Decided
<1>5. QED
  BY <1>3, <1>4 DEF Decided

\* The verdicts and answers of handleTransaction through every step.
LEMMA NextDecided ==
  ASSUME TypeInv, PoolInv, OpenedOnce, Decided, MaxFaults = 0, [Next]_vars
  PROVE  Decided'
<1> DEFINE Keeps(v) == /\ pc'[v] \in Handling => pc[v] \in Handling /\ cur'[v] = cur[v]
                       /\ pc'[v] \in {"debit", "credit"} => pc[v] \in {"debit", "credit"}
<1>1. CASE Aside
  <2>1. ASSUME NEW v \in Worker PROVE Keeps(v)
    BY <1>1 DEF Aside, Moving, Handling
  <2>2. QED
    BY <1>1, <2>1, DecidedFrame DEF Aside
<1>2. ASSUME NEW w \in Worker, NEW l, Moves(w, l), UNCHANGED <<verdict, acked>>,
             l \in Handling => pc[w] \in {"debit", "credit"} /\ cur'[w] = cur[w]
      PROVE  Decided'
  <2>1. ASSUME NEW v \in Worker PROVE Keeps(v)
    BY <1>2 DEF Moves, Handling
  <2>2. QED
    BY <1>2, <2>1, DecidedFrame
<1>3. ASSUME NEW w \in Worker, Debit(w) \/ Credit(w) PROVE Decided'
  BY <1>2, <1>3, DebitDoes, CreditDoes
<1>4. ASSUME NEW w \in Worker, Crash(w) PROVE Decided'
  BY <1>2, <1>4, CrashDoes DEF Handling
<1>5. ASSUME NEW w \in Worker, InitLock(w), lock[INITBALANCE] = NoId PROVE Decided'
  BY <1>2, <1>5, InitLockDoes DEF Handling
<1>6. ASSUME NEW w \in Worker, WalkChain(w) PROVE Decided'
  BY <1>2, <1>6, WalkChainDoes DEF Handling
<1>7. ASSUME NEW w \in Worker, UpdateBalance(w) PROVE Decided'
  <2>1. PICK l \in {"apply", "idle"} : Moves(w, l)
    BY <1>7, UpdateBalanceDoes
  <2>2. UNCHANGED <<verdict, acked>> /\ l \notin Handling
    BY <1>7, UpdateBalanceDoes DEF Handling
  <2>3. QED
    BY <2>1, <2>2, <1>2
<1>8. ASSUME NEW w \in Worker, EnQueue(w) PROVE Decided'
  <2>1. /\ pc[w] = "enqueue" /\ Moves(w, "idle") /\ verdict' = verdict
        /\ acked' = acked \cup {cur[w]}
    BY <1>8, EnQueueDoes
  <2>2. \A v \in Worker : pc'[v] \in Handling =>
          v # w /\ pc[v] = pc'[v] /\ cur'[v] = cur[v]
    BY <2>1 DEF Moves, Handling
  <2>3. PICK tx \in Transaction : tx = cur[w] /\ verdict[tx] # "unsent" /\ ~InHand(tx)'
    <3>1. PICK tx \in Transaction : tx = cur[w]
      BY <2>1, CurType
    <3>2. verdict[tx] # "unsent" /\ \A v \in Worker : pc[v] \in Handling /\ cur[v] = tx => v = w
      BY <2>1, <3>1 DEF PoolInv, HandsApart, Handling
    <3>3. ~InHand(tx)'
      BY <2>2, <3>2 DEF InHand
    <3>4. QED
      BY <3>1, <3>2, <3>3
  <2>4. \A t : InHand(t)' => InHand(t)
    BY <2>2 DEF InHand
  <2>5. \A v \in Worker : pc'[v] \in {"debit", "credit"} => verdict'[cur'[v]] = "funded"
    BY <2>1, <2>2 DEF Decided, Handling
  <2>6. QED
    BY <2>1, <2>3, <2>4, <2>5 DEF Decided
<1>9. ASSUME NEW w \in Worker, NEW tx \in Transaction, QueryBalance(w, tx) PROVE Decided'
  <2>1. /\ pc[w] = "idle" /\ verdict[tx] = "unsent" /\ UNCHANGED acked
        /\ \A t \in Transaction : t # tx => verdict'[t] = verdict[t]
        /\ \/ verdict'[tx] = "funded" /\ Moves(w, "debit") /\ cur'[w] = tx
           \/ verdict'[tx] = "short" /\ Moves(w, "enqueue") /\ cur'[w] = tx
           \/ verdict'[tx] = "failed" /\ Moves(w, "idle") /\ cur' = cur
    BY <1>9, QueryBalanceDoes
  <2>2. tx \notin acked /\ acked \subseteq Transaction
    BY <2>1 DEF Decided, TypeInv, TypeOK
  <2>3. \A v \in Worker : v # w => pc'[v] = pc[v] /\ cur'[v] = cur[v]
    BY <2>1 DEF Moves
  <2>4. \A t : InHand(t)' => t = tx \/ InHand(t)
    <3>1. pc'[w] \in Handling => cur'[w] = tx
      BY <2>1 DEF Moves, Handling
    <3>2. QED
      BY <2>3, <3>1 DEF InHand
  <2>5. \A t \in acked' : verdict'[t] # "unsent" /\ ~InHand(t)'
    BY <2>1, <2>2, <2>4 DEF Decided
  <2>6. ASSUME NEW v \in Worker, v # w, pc[v] \in {"debit", "credit"}
        PROVE  verdict'[cur[v]] = "funded"
    <3>1. cur[v] \in Transaction /\ verdict[cur[v]] = "funded"
      BY <2>6, CurType DEF Decided
    <3>2. QED
      BY <3>1, <2>1
  <2>7. pc'[w] \in {"debit", "credit"} => verdict'[cur'[w]] = "funded"
    BY <2>1 DEF Moves
  <2>8. QED
    BY <2>3, <2>5, <2>6, <2>7 DEF Decided
<1>10. QED
  BY <1>1, <1>3, <1>4, <1>5, <1>6, <1>7, <1>8, <1>9, MoneySteps

-----------------------------------------------------------------------------
(* The summands, step by step *)

\* All of them are amounts, and so are the sums.
LEMMA Amounts ==
  ASSUME TypeInv
  PROVE  /\ balance \in [Account -> Int]
         /\ [w \in Worker |-> InTransitAt(w)] \in [Worker -> Int]
         /\ [tx \in Transaction |-> BurntBy(tx)] \in [Transaction -> Int]
         /\ [x \in Account |-> Unopened(x)] \in [Account -> Int]
         /\ Held \in Int /\ Moved \in Int /\ Gone \in Int /\ ToOpen \in Int
<1>1. balance \in [Account -> Int]
  BY DEF TypeInv, TypeOK, StoreTypeOK
<1>2. \A w \in Worker : InTransitAt(w) \in Int
  BY CurType DEF InTransitAt
<1>3. \A tx \in Transaction : BurntBy(tx) \in Int
  BY StoreAssumption DEF BurntBy
<1>4. ASSUME NEW x \in Account PROVE Unopened(x) \in Int
  <2>1. Genesis0(x) \in Int
    BY GenesisType
  <2>2. Unopened(x) = Genesis0(x) \/ Unopened(x) = 0
    BY DEF Unopened
  <2>3. QED
    BY <2>1, <2>2
<1> HIDE DEF InTransitAt, BurntBy, Unopened
<1>5. /\ [w \in Worker |-> InTransitAt(w)] \in [Worker -> Int]
      /\ [tx \in Transaction |-> BurntBy(tx)] \in [Transaction -> Int]
      /\ [x \in Account |-> Unopened(x)] \in [Account -> Int]
  BY <1>2, <1>3, <1>4
<1>6. Held \in Int /\ Moved \in Int /\ Gone \in Int /\ ToOpen \in Int
  BY <1>1, <1>5, FiniteAssumption, TotalType DEF Held, Moved, Gone, ToOpen
<1>7. QED
  BY <1>1, <1>5, <1>6

\* Who is still to be opened changes only with the lock, the walk and the map.
LEMMA UnopenedFrame ==
  ASSUME lock'[INITBALANCE] = NoId <=> lock[INITBALANCE] = NoId,
         \A v \in Worker : todo'[v] = todo[v] /\ (pc'[v] = "walk" <=> pc[v] = "walk")
  PROVE  \A x \in Account : Unopened(x)' = Unopened(x)
<1>1. ASSUME NEW x \in Account PROVE Pending(x)' <=> Pending(x)
  BY DEF Pending
<1>2. QED
  BY <1>1 DEF Unopened

\* What was paid to nobody changes only with verdicts, answers and credits.
LEMMA BurntFrame ==
  ASSUME UNCHANGED <<verdict, acked>>,
         \A v \in Worker : /\ pc'[v] = "enqueue" <=> pc[v] = "enqueue"
                           /\ pc[v] = "enqueue" => cur'[v] = cur[v]
  PROVE  \A tx \in Transaction : BurntBy(tx)' = BurntBy(tx)
<1>1. ASSUME NEW tx \in Transaction PROVE Credited(tx)' <=> Credited(tx)
  BY DEF Credited
<1>2. QED
  BY <1>1 DEF BurntBy

\* A step aside changes none of them.
LEMMA AsideSummands ==
  ASSUME Aside
  PROVE  /\ \A v \in Worker : InTransitAt(v)' = InTransitAt(v)
         /\ \A tx \in Transaction : BurntBy(tx)' = BurntBy(tx)
         /\ \A x \in Account : Unopened(x)' = Unopened(x)
<1>1. \A v \in Worker : /\ pc'[v] = "enqueue" <=> pc[v] = "enqueue"
                        /\ pc[v] = "enqueue" => cur'[v] = cur[v]
  BY DEF Aside, Moving, Handling
<1>2. \A v \in Worker : pc'[v] = "walk" <=> pc[v] = "walk"
  BY DEF Aside, Moving, Opening
<1>3. \A v \in Worker : InTransitAt(v)' = InTransitAt(v)
  BY DEF Aside, Moving, Handling, InTransitAt
<1>4. QED
  BY <1>1, <1>2, <1>3, BurntFrame, UnopenedFrame DEF Aside

\* The debit puts the value in transit.
LEMMA DebitSummands ==
  ASSUME TypeInv, MaxFaults = 0, NEW w \in Worker, Debit(w)
  PROVE  /\ \A v \in Worker : v # w => InTransitAt(v)' = InTransitAt(v)
         /\ InTransitAt(w) = 0 /\ InTransitAt(w)' = cur[w].value
         /\ \A tx \in Transaction : BurntBy(tx)' = BurntBy(tx)
         /\ \A x \in Account : Unopened(x)' = Unopened(x)
<1>1. /\ pc[w] = "debit" /\ Moves(w, "credit")
      /\ UNCHANGED <<cur, todo, verdict, acked, lock>>
  BY DebitDoes
<1>2. /\ \A v \in Worker : v # w => InTransitAt(v)' = InTransitAt(v)
      /\ InTransitAt(w) = 0 /\ InTransitAt(w)' = cur[w].value
  BY <1>1 DEF Moves, InTransitAt
<1>3. \A v \in Worker : /\ pc'[v] = "enqueue" <=> pc[v] = "enqueue"
                        /\ pc'[v] = "walk" <=> pc[v] = "walk"
  BY <1>1 DEF Moves
<1>4. QED
  BY <1>1, <1>2, <1>3, BurntFrame, UnopenedFrame

\* The credit takes it out again, to be burnt if nobody is paid.
LEMMA CreditSummands ==
  ASSUME TypeInv, PoolInv, Decided, MaxFaults = 0, NEW w \in Worker, Credit(w)
  PROVE  /\ \A v \in Worker : v # w => InTransitAt(v)' = InTransitAt(v)
         /\ InTransitAt(w) = cur[w].value /\ InTransitAt(w)' = 0
         /\ \A tx \in Transaction : tx # cur[w] => BurntBy(tx)' = BurntBy(tx)
         /\ \E tx \in Transaction :
              /\ tx = cur[w] /\ BurntBy(tx) = 0
              /\ BurntBy(tx)' = IF tx.to = NoAddress THEN tx.value ELSE 0
         /\ \A x \in Account : Unopened(x)' = Unopened(x)
<1>1. /\ pc[w] = "credit" /\ Moves(w, "enqueue")
      /\ UNCHANGED <<cur, todo, verdict, acked, lock>>
  BY CreditDoes
<1>2. /\ \A v \in Worker : v # w => InTransitAt(v)' = InTransitAt(v)
      /\ InTransitAt(w) = cur[w].value /\ InTransitAt(w)' = 0
  BY <1>1 DEF Moves, InTransitAt
<1>3. \A v \in Worker : pc'[v] = "walk" <=> pc[v] = "walk"
  BY <1>1 DEF Moves
<1>4. \A x \in Account : Unopened(x)' = Unopened(x)
  BY <1>1, <1>3, UnopenedFrame
<1>5. PICK tx \in Transaction : tx = cur[w]
  BY <1>1, CurType
<1>6. verdict[tx] = "funded" /\ InHand(tx)
  BY <1>1, <1>5 DEF Decided, InHand, Handling
<1>7. tx \notin acked /\ \A v \in Worker : pc[v] = "enqueue" => cur[v] # tx
  BY <1>1, <1>5, <1>6 DEF Decided, PoolInv, HandsApart, Handling
<1>8. BurntBy(tx) = 0
  BY <1>7 DEF BurntBy, Credited
<1>9. Credited(tx)'
  BY <1>1, <1>5 DEF Credited, Moves
<1>10. BurntBy(tx)' = IF tx.to = NoAddress THEN tx.value ELSE 0
  BY <1>1, <1>6, <1>9 DEF BurntBy
<1>11. ASSUME NEW t \in Transaction, t # tx PROVE BurntBy(t)' = BurntBy(t)
  <2>1. Credited(t)' <=> Credited(t)
    BY <1>1, <1>5, <1>11 DEF Credited, Moves
  <2>2. QED
    BY <1>1, <2>1 DEF BurntBy
<1>12. QED
  BY <1>2, <1>4, <1>5, <1>8, <1>10, <1>11

\* The answer moves nothing.
LEMMA EnQueueSummands ==
  ASSUME TypeInv, MaxFaults = 0, NEW w \in Worker, EnQueue(w)
  PROVE  /\ \A v \in Worker : InTransitAt(v)' = InTransitAt(v)
         /\ \A tx \in Transaction : BurntBy(tx)' = BurntBy(tx)
         /\ \A x \in Account : Unopened(x)' = Unopened(x)
<1>1. /\ pc[w] = "enqueue" /\ Moves(w, "idle")
      /\ UNCHANGED <<todo, verdict, lock>> /\ acked' = acked \cup {cur[w]}
  BY EnQueueDoes
<1>2. \A v \in Worker : InTransitAt(v)' = InTransitAt(v)
  BY <1>1 DEF Moves, InTransitAt
<1>3. \A v \in Worker : pc'[v] = "walk" <=> pc[v] = "walk"
  BY <1>1 DEF Moves
<1>4. ASSUME NEW tx \in Transaction PROVE BurntBy(tx)' = BurntBy(tx)
  <2>1. Credited(tx)' <=> Credited(tx)
    BY <1>1 DEF Credited, Moves
  <2>2. QED
    BY <1>1, <2>1 DEF BurntBy
<1>5. QED
  BY <1>1, <1>2, <1>3, <1>4, UnopenedFrame

\* Nor does the query.
LEMMA QueryBalanceSummands ==
  ASSUME TypeInv, PoolInv, Decided, MaxFaults = 0,
         NEW w \in Worker, NEW tx \in Transaction, QueryBalance(w, tx)
  PROVE  /\ \A v \in Worker : InTransitAt(v)' = InTransitAt(v)
         /\ \A t \in Transaction : BurntBy(t)' = BurntBy(t)
         /\ \A x \in Account : Unopened(x)' = Unopened(x)
<1>1. /\ pc[w] = "idle" /\ verdict[tx] = "unsent" /\ UNCHANGED <<todo, acked, lock>>
      /\ \A t \in Transaction : t # tx => verdict'[t] = verdict[t]
      /\ \/ verdict'[tx] = "funded" /\ Moves(w, "debit") /\ cur'[w] = tx
         \/ verdict'[tx] = "short" /\ Moves(w, "enqueue") /\ cur'[w] = tx
         \/ verdict'[tx] = "failed" /\ Moves(w, "idle") /\ cur' = cur
  BY QueryBalanceDoes
<1>2. \A v \in Worker : InTransitAt(v)' = InTransitAt(v)
  BY <1>1 DEF Moves, InTransitAt
<1>3. \A v \in Worker : pc'[v] = "walk" <=> pc[v] = "walk"
  BY <1>1 DEF Moves
<1>4. BurntBy(tx) = 0
  BY <1>1 DEF BurntBy
<1>5. BurntBy(tx)' = 0
  <2>1. CASE verdict'[tx] # "funded"
    BY <2>1 DEF BurntBy
  <2>2. CASE verdict'[tx] = "funded"
    <3>1. Moves(w, "debit")
      BY <1>1, <2>2
    <3>2. tx \notin acked
      BY <1>1 DEF Decided
    <3>3. \A v \in Worker : pc[v] = "enqueue" => cur[v] # tx
      BY <1>1 DEF PoolInv, HandsApart, Handling
    <3>4. ~Credited(tx)'
      BY <1>1, <3>1, <3>2, <3>3 DEF Credited, Moves
    <3>5. QED
      BY <3>4 DEF BurntBy
  <2>3. QED
    BY <2>1, <2>2
<1>6. ASSUME NEW t \in Transaction, t # tx PROVE BurntBy(t)' = BurntBy(t)
  <2>1. Credited(t)' <=> Credited(t)
    BY <1>1, <1>6 DEF Credited, Moves
  <2>2. QED
    BY <1>1, <1>6, <2>1 DEF BurntBy
<1>7. QED
  BY <1>1, <1>2, <1>3, <1>4, <1>5, <1>6, UnopenedFrame

\* Taking the lock of initBalance moves nothing: the walk is about to begin.
LEMMA InitLockSummands ==
  ASSUME TypeInv, OpenedOnce, MaxFaults = 0,
         NEW w \in Worker, InitLock(w), lock[INITBALANCE] = NoId
  PROVE  /\ \A v \in Worker : InTransitAt(v)' = InTransitAt(v)
         /\ \A tx \in Transaction : BurntBy(tx)' = BurntBy(tx)
         /\ \A x \in Account : Unopened(x)' = Unopened(x)
<1>1. /\ pc[w] = "init" /\ Moves(w, "walk") /\ UNCHANGED <<cur, todo, verdict, acked>>
  BY InitLockDoes
<1>2. \A v \in Worker : InTransitAt(v)' = InTransitAt(v)
  BY <1>1 DEF Moves, InTransitAt
<1>3. \A v \in Worker : pc'[v] = "enqueue" <=> pc[v] = "enqueue"
  BY <1>1 DEF Moves
<1>4. ASSUME NEW x \in Account PROVE Unopened(x)' = Unopened(x)
  <2>1. Pending(x) /\ Pending(x)'
    BY <1>1 DEF Pending, Moves
  <2>2. QED
    BY <2>1 DEF Unopened
<1>5. QED
  BY <1>1, <1>2, <1>3, <1>4, BurntFrame

\* Nor does reading the block: its map has the funds of every account that gets any.
LEMMA WalkChainSummands ==
  ASSUME TypeInv, OpenedOnce, MaxFaults = 0, NEW w \in Worker, WalkChain(w)
  PROVE  /\ \A v \in Worker : InTransitAt(v)' = InTransitAt(v)
         /\ \A tx \in Transaction : BurntBy(tx)' = BurntBy(tx)
         /\ \A x \in Account : Unopened(x)' = Unopened(x)
<1>1. /\ pc[w] = "walk" /\ Moves(w, "apply") /\ UNCHANGED <<cur, verdict, acked, lock>>
      /\ todo'[w] = BalanceMap(GenesisBlock)
  BY WalkChainDoes
<1>2. \A v \in Worker : InTransitAt(v)' = InTransitAt(v)
  BY <1>1 DEF Moves, InTransitAt
<1>3. \A v \in Worker : pc'[v] = "enqueue" <=> pc[v] = "enqueue"
  BY <1>1 DEF Moves
<1>4. ASSUME NEW x \in Account PROVE Unopened(x)' = Unopened(x)
  <2>1. Unopened(x) = Genesis0(x)
    BY <1>1 DEF Pending, Unopened
  <2>2. CASE \E p \in BalanceMap(GenesisBlock) : p.key = x
    <3>1. Pending(x)'
      BY <1>1, <2>2 DEF Pending
    <3>2. QED
      BY <2>1, <3>1 DEF Unopened
  <2>3. CASE \A p \in BalanceMap(GenesisBlock) : p.key # x
    <3>1. Genesis0(x) = 0
      BY <2>3, GenesisUntouched
    <3>2. Unopened(x)' = Genesis0(x) \/ Unopened(x)' = 0
      BY DEF Unopened
    <3>3. QED
      BY <2>1, <3>1, <3>2
  <2>4. QED
    BY <2>2, <2>3
<1>5. QED
  BY <1>1, <1>2, <1>3, <1>4, BurntFrame

\* An IncrBy of updateBalance gives an account what was still to be applied to it.
LEMMA UpdateBalanceSummands ==
  ASSUME TypeInv, OpenedOnce, MaxFaults = 0, NEW w \in Worker, UpdateBalance(w)
  PROVE  /\ \A v \in Worker : InTransitAt(v)' = InTransitAt(v)
         /\ \A tx \in Transaction : BurntBy(tx)' = BurntBy(tx)
         /\ \E p \in BalanceMap(GenesisBlock) :
              /\ \A x \in Account :
                   balance'[x] = IF x = p.key THEN balance[x] + p.by ELSE balance[x]
              /\ p.key \in Account => Unopened(p.key) = p.by /\ Unopened(p.key)' = 0
              /\ \A x \in Account : x # p.key => Unopened(x)' = Unopened(x)
<1>1. /\ pc[w] = "apply" /\ UNCHANGED <<cur, verdict, acked, lock>>
  BY UpdateBalanceDoes
<1>2. PICK l \in {"apply", "idle"} : Moves(w, l)
  BY UpdateBalanceDoes
<1>3. PICK p \in todo[w] :
        /\ todo'[w] = todo[w] \ {p}
        /\ \A x \in Account : balance'[x] = IF x = p.key THEN balance[x] + p.by ELSE balance[x]
  BY UpdateBalanceDoes
<1>4. \A v \in Worker : InTransitAt(v)' = InTransitAt(v)
  BY <1>1, <1>2 DEF Moves, InTransitAt
<1>5. \A v \in Worker : pc'[v] = "enqueue" <=> pc[v] = "enqueue"
  BY <1>1, <1>2 DEF Moves
<1>6. todo[w] \subseteq BalanceMap(GenesisBlock) /\ p \in BalanceMap(GenesisBlock)
  BY DEF OpenedOnce
<1>7. \A v \in Worker : v # w => pc[v] # "walk" /\ todo[v] = {}
  BY <1>1 DEF OpenedOnce, Opening
<1>8. lock[INITBALANCE] # NoId
  BY <1>1 DEF OpenedOnce, Opening
<1>9. \A x : Pending(x) <=> \E q \in todo[w] : q.key = x
  BY <1>1, <1>7, <1>8 DEF Pending
<1>10. \A x : Pending(x)' <=> \E q \in todo[w] \ {p} : q.key = x
  BY <1>1, <1>2, <1>3, <1>7, <1>8 DEF Pending, Moves
<1>11. p.key \in Account => Unopened(p.key) = p.by /\ Unopened(p.key)' = 0
  <2>1. Pending(p.key)
    BY <1>9
  <2>2. ~Pending(p.key)'
    BY <1>6, <1>10, GenesisMap
  <2>3. p.by = Genesis0(p.key)
    BY <1>6, GenesisMap
  <2>4. QED
    BY <2>1, <2>2, <2>3 DEF Unopened
<1>12. ASSUME NEW x \in Account, x # p.key PROVE Unopened(x)' = Unopened(x)
  <2>1. Pending(x)' <=> Pending(x)
    BY <1>9, <1>10, <1>12
  <2>2. QED
    BY <2>1 DEF Unopened
<1>13. QED
  BY <1>1, <1>3, <1>4, <1>5, <1>6, <1>11, <1>12, BurntFrame

\* As long as no negative amount was accepted, none is on its way or burnt.
LEMMA PositiveSummands ==
  ASSUME TypeInv, Decided, Positive
  PROVE  /\ \A w \in Worker : InTransitAt(w) >= 0
         /\ \A tx \in Transaction : BurntBy(tx) >= 0
<1>1. ASSUME NEW w \in Worker PROVE InTransitAt(w) >= 0
  <2>1. CASE pc[w] = "credit"
    <3>1. PICK tx \in Transaction : tx = cur[w]
      BY <2>1, CurType
    <3>2. tx.value >= 0
      BY <2>1, <3>1 DEF Decided, Positive
    <3>3. QED
      BY <2>1, <3>1, <3>2 DEF InTransitAt
  <2>2. QED
    BY <2>1 DEF InTransitAt
<1>2. \A tx \in Transaction : BurntBy(tx) >= 0
  BY DEF BurntBy, Positive
<1>3. QED
  BY <1>1, <1>2

\* A death takes with it what was in transit there, or what was still to be applied.
LEMMA CrashSummands ==
  ASSUME TypeInv, OpenedOnce, NEW w \in Worker, Crash(w)
  PROVE  /\ \A v \in Worker : v # w => InTransitAt(v)' = InTransitAt(v)
         /\ InTransitAt(w)' = 0
         /\ \A tx \in Transaction : BurntBy(tx)' \in {BurntBy(tx), 0}
         /\ \A x \in Account :
              IF pc[w] = "walk" \/ \E p \in todo[w] : p.key = x
                THEN Unopened(x) = Genesis0(x) /\ Unopened(x)' = 0
                ELSE Unopened(x)' = Unopened(x)
<1>1. Moves(w, "down") /\ todo'[w] = {} /\ UNCHANGED <<verdict, acked, lock>>
  BY CrashDoes
<1>2. /\ \A v \in Worker : v # w => InTransitAt(v)' = InTransitAt(v)
      /\ InTransitAt(w)' = 0
  BY <1>1 DEF Moves, InTransitAt
<1>3. ASSUME NEW tx \in Transaction PROVE BurntBy(tx)' \in {BurntBy(tx), 0}
  <2>1. Credited(tx)' => Credited(tx)
    BY <1>1 DEF Moves, Credited
  <2>2. QED
    BY <1>1, <2>1 DEF BurntBy
<1>4. ASSUME NEW x \in Account
      PROVE  IF pc[w] = "walk" \/ \E p \in todo[w] : p.key = x
                THEN Unopened(x) = Genesis0(x) /\ Unopened(x)' = 0
                ELSE Unopened(x)' = Unopened(x)
  <2>1. CASE pc[w] = "walk" \/ \E p \in todo[w] : p.key = x
    <3>1. pc[w] \in Opening
      BY <2>1 DEF OpenedOnce, Opening
    <3>2. \A v \in Worker : v # w => pc[v] # "walk" /\ todo[v] = {}
      BY <3>1 DEF OpenedOnce, Opening
    <3>3. lock[INITBALANCE] # NoId
      BY <3>1 DEF OpenedOnce
    <3>4. Pending(x)
      BY <2>1 DEF Pending
    <3>5. ~Pending(x)'
      BY <1>1, <3>2, <3>3 DEF Pending, Moves
    <3>6. QED
      BY <2>1, <3>4, <3>5 DEF Unopened
  <2>2. CASE ~(pc[w] = "walk" \/ \E p \in todo[w] : p.key = x)
    <3>1. Pending(x)' <=> Pending(x)
      BY <1>1, <2>2 DEF Pending, Moves
    <3>2. QED
      BY <2>2, <3>1 DEF Unopened
  <2>3. QED
    BY <2>1, <2>2
<1>5. QED
  BY <1>2, <1>3, <1>4

-----------------------------------------------------------------------------
(* The sums, step by step *)

\* One amount changes by d.
LEMMA TotalShift ==
  ASSUME NEW S, IsFiniteSet(S), NEW f \in [S -> Int], NEW g, g = [y \in S |-> g[y]],
         NEW x \in S, \A y \in S : y # x => g[y] = f[y], NEW d \in Int, g[x] = f[x] + d
  PROVE  SumFunction(g) = SumFunction(f) + d
<1>1. \A y \in S : g[y] \in Int
  OBVIOUS
<1>2. g \in [S -> Int]
  BY <1>1
<1>3. SumFunction(g) = SumFunction(f) + g[x] - f[x]
  BY <1>2, TotalUpdate
<1>4. SumFunction(f) \in Int /\ f[x] \in Int
  BY TotalType
<1>5. QED
  BY <1>3, <1>4

\* What does not change, does not change in sum.
LEMMA SumsStay ==
  /\ (balance' = balance) => Held' = Held
  /\ (\A v \in Worker : InTransitAt(v)' = InTransitAt(v)) => Moved' = Moved
  /\ (\A tx \in Transaction : BurntBy(tx)' = BurntBy(tx)) => Gone' = Gone
  /\ (\A x \in Account : Unopened(x)' = Unopened(x)) => ToOpen' = ToOpen
<1>1. ASSUME \A v \in Worker : InTransitAt(v)' = InTransitAt(v) PROVE Moved' = Moved
  <2>1. [v \in Worker |-> InTransitAt(v)'] = [v \in Worker |-> InTransitAt(v)]
    BY <1>1
  <2>2. QED
    BY <2>1 DEF Moved
<1>2. ASSUME \A tx \in Transaction : BurntBy(tx)' = BurntBy(tx) PROVE Gone' = Gone
  <2>1. [tx \in Transaction |-> BurntBy(tx)'] = [tx \in Transaction |-> BurntBy(tx)]
    BY <1>2
  <2>2. QED
    BY <2>1 DEF Gone
<1>3. ASSUME \A x \in Account : Unopened(x)' = Unopened(x) PROVE ToOpen' = ToOpen
  <2>1. [x \in Account |-> Unopened(x)'] = [x \in Account |-> Unopened(x)]
    BY <1>3
  <2>2. QED
    BY <2>1 DEF ToOpen
<1>4. QED
  BY <1>1, <1>2, <1>3 DEF Held

\* One balance changes by d.
LEMMA HeldShift ==
  ASSUME TypeInv, TypeInv', NEW x \in Account, NEW d \in Int,
         \A y \in Account : balance'[y] = IF y = x THEN balance[y] + d ELSE balance[y]
  PROVE  Held' = Held + d
<1>1. balance \in [Account -> Int] /\ balance' = [y \in Account |-> balance'[y]]
  BY DEF TypeInv, TypeOK, StoreTypeOK
<1>2. balance'[x] = balance[x] + d /\ \A y \in Account : y # x => balance'[y] = balance[y]
  OBVIOUS
<1>3. SumFunction(balance') = SumFunction(balance) + d
  BY <1>1, <1>2, FiniteAssumption, TotalShift
<1>4. QED
  BY <1>3 DEF Held

\* What is in transit at one worker changes by d.
LEMMA MovedShift ==
  ASSUME TypeInv, NEW w \in Worker, NEW d \in Int,
         InTransitAt(w)' = InTransitAt(w) + d,
         \A v \in Worker : v # w => InTransitAt(v)' = InTransitAt(v)
  PROVE  Moved' = Moved + d
<1> DEFINE f == [v \in Worker |-> InTransitAt(v)]
           g == [v \in Worker |-> InTransitAt(v)']
<1>1. f \in [Worker -> Int]
  BY Amounts
<1>2. g = [v \in Worker |-> g[v]] /\ g[w] = f[w] + d /\ \A v \in Worker : v # w => g[v] = f[v]
  OBVIOUS
<1>3. Moved = SumFunction(f) /\ Moved' = SumFunction(g)
  BY DEF Moved
<1> HIDE DEF f, g
<1>4. QED
  BY <1>1, <1>2, <1>3, FiniteAssumption, TotalShift

\* What one transaction has burnt changes by d.
LEMMA GoneShift ==
  ASSUME TypeInv, NEW tx \in Transaction, NEW d \in Int,
         BurntBy(tx)' = BurntBy(tx) + d,
         \A t \in Transaction : t # tx => BurntBy(t)' = BurntBy(t)
  PROVE  Gone' = Gone + d
<1> DEFINE f == [t \in Transaction |-> BurntBy(t)]
           g == [t \in Transaction |-> BurntBy(t)']
<1>1. f \in [Transaction -> Int]
  BY Amounts
<1>2. /\ g = [t \in Transaction |-> g[t]] /\ g[tx] = f[tx] + d
      /\ \A t \in Transaction : t # tx => g[t] = f[t]
  OBVIOUS
<1>3. Gone = SumFunction(f) /\ Gone' = SumFunction(g)
  BY DEF Gone
<1> HIDE DEF f, g
<1>4. QED
  BY <1>1, <1>2, <1>3, FiniteAssumption, TotalShift

\* What is still to be applied to one account changes by d.
LEMMA ToOpenShift ==
  ASSUME TypeInv, NEW x \in Account, NEW d \in Int,
         Unopened(x)' = Unopened(x) + d,
         \A y \in Account : y # x => Unopened(y)' = Unopened(y)
  PROVE  ToOpen' = ToOpen + d
<1> DEFINE f == [y \in Account |-> Unopened(y)]
           g == [y \in Account |-> Unopened(y)']
<1>1. f \in [Account -> Int]
  BY Amounts
<1>2. /\ g = [y \in Account |-> g[y]] /\ g[x] = f[x] + d
      /\ \A y \in Account : y # x => g[y] = f[y]
  OBVIOUS
<1>3. ToOpen = SumFunction(f) /\ ToOpen' = SumFunction(g)
  BY DEF ToOpen
<1> HIDE DEF f, g
<1>4. QED
  BY <1>1, <1>2, <1>3, FiniteAssumption, TotalShift

\* Money that only moves keeps the balance.
LEMMA BalancedFrame ==
  ASSUME TypeInv, Balanced, crashes' = crashes, Positive' => Positive,
         NEW h \in Int, NEW m \in Int, NEW b \in Int, NEW o \in Int, h + m + b + o = 0,
         Held' = Held + h, Moved' = Moved + m, Gone' = Gone + b, ToOpen' = ToOpen + o
  PROVE  Balanced'
<1>1. Held \in Int /\ Moved \in Int /\ Gone \in Int /\ ToOpen \in Int
  BY Amounts
<1>2. Held' + Moved' + Gone' + ToOpen' = Held + Moved + Gone + ToOpen
  BY <1>1
<1>3. QED
  BY <1>2 DEF Balanced

\* Debit and credit: from the payer, through the worker, to the payee or to nobody.
LEMMA PaymentBalanced ==
  ASSUME TypeInv, TypeInv', PoolInv, MoneyInv, MaxFaults = 0,
         NEW w \in Worker, Debit(w) \/ Credit(w)
  PROVE  Balanced'
<1>1. CASE Debit(w)
  <2>1. PICK val \in Int, payer \in Account : val = cur[w].value /\ payer = cur[w].from
    BY <1>1, CurType DEF Debit
  <2>2. -val \in Int /\ val \in Int
    OBVIOUS
  <2>3. \A y \in Account : balance[y] \in Int
    BY DEF TypeInv, TypeOK, StoreTypeOK
  <2>4. \A y \in Account : balance'[y] = IF y = payer THEN balance[y] - val ELSE balance[y]
    BY <1>1, <2>1, DebitDoes
  <2>5. \A y \in Account : balance'[y] = IF y = payer THEN balance[y] + (-val) ELSE balance[y]
    BY <2>3, <2>4
  <2>6. Held' = Held + (-val)
    BY <2>2, <2>5, HeldShift
  <2>7. /\ \A v \in Worker : v # w => InTransitAt(v)' = InTransitAt(v)
        /\ InTransitAt(w) = 0 /\ InTransitAt(w)' = val
    BY <1>1, <2>1, DebitSummands
  <2>8. InTransitAt(w)' = InTransitAt(w) + val
    BY <2>7
  <2>9. Moved' = Moved + val
    BY <2>2, <2>7, <2>8, MovedShift
  <2>10. Gone' = Gone /\ ToOpen' = ToOpen /\ crashes' = crashes
    BY <1>1, DebitSummands, DebitDoes, SumsStay
  <2>11. Gone' = Gone + 0 /\ ToOpen' = ToOpen + 0
    BY <2>10, Amounts
  <2>12. (-val) + val + 0 + 0 = 0
    OBVIOUS
  <2>13. Balanced /\ (Positive' => Positive)
    BY <1>1, DebitDoes DEF MoneyInv, Positive
  <2>14. QED
    BY <2>2, <2>6, <2>9, <2>10, <2>11, <2>12, <2>13, BalancedFrame
<1>2. CASE Credit(w)
  <2>1. PICK tx \in Transaction :
          /\ tx = cur[w] /\ BurntBy(tx) = 0
          /\ BurntBy(tx)' = IF tx.to = NoAddress THEN tx.value ELSE 0
    BY <1>2, CreditSummands DEF MoneyInv
  <2>2. PICK val \in Int : val = tx.value
    BY StoreAssumption
  <2>3. -val \in Int /\ val \in Int
    OBVIOUS
  <2>4. /\ \A v \in Worker : v # w => InTransitAt(v)' = InTransitAt(v)
        /\ InTransitAt(w) = val /\ InTransitAt(w)' = 0
    BY <1>2, <2>1, <2>2, CreditSummands DEF MoneyInv
  <2>5. InTransitAt(w)' = InTransitAt(w) + (-val)
    BY <2>4
  <2>6. Moved' = Moved + (-val)
    BY <2>3, <2>4, <2>5, MovedShift
  <2>7. ToOpen' = ToOpen /\ crashes' = crashes
    BY <1>2, CreditSummands, CreditDoes, SumsStay DEF MoneyInv
  <2>8. ToOpen' = ToOpen + 0
    BY <2>7, Amounts
  <2>9. \A t \in Transaction : t # tx => BurntBy(t)' = BurntBy(t)
    BY <1>2, <2>1, CreditSummands DEF MoneyInv
  <2>10. \A y \in Account : balance'[y] = IF y = tx.to THEN balance[y] + val ELSE balance[y]
    BY <1>2, <2>1, <2>2, CreditDoes
  <2>11. Balanced /\ (Positive' => Positive)
    BY <1>2, CreditDoes DEF MoneyInv, Positive
  <2>12. CASE tx.to \in Account
    <3>1. tx.to # NoAddress
      BY <2>12, StoreAssumption
    <3>2. \A t \in Transaction : BurntBy(t)' = BurntBy(t)
      BY <2>1, <2>9, <3>1
    <3>3. Gone' = Gone + 0
      BY <3>2, SumsStay, Amounts
    <3>4. Held' = Held + val
      BY <2>3, <2>10, <2>12, HeldShift
    <3>5. val + (-val) + 0 + 0 = 0
      OBVIOUS
    <3>6. QED
      BY <2>3, <2>6, <2>7, <2>8, <2>11, <3>3, <3>4, <3>5, BalancedFrame
  <2>13. CASE tx.to \notin Account
    <3>1. tx.to = NoAddress
      BY <2>13, StoreAssumption DEF Address
    <3>2. BurntBy(tx)' = BurntBy(tx) + val
      BY <2>1, <2>2, <3>1
    <3>3. Gone' = Gone + val
      BY <2>3, <2>9, <3>2, GoneShift
    <3>4. balance' = balance
      BY <2>10, <2>13 DEF TypeInv, TypeOK, StoreTypeOK
    <3>5. Held' = Held + 0
      BY <3>4, SumsStay, Amounts
    <3>6. 0 + (-val) + val + 0 = 0
      OBVIOUS
    <3>7. QED
      BY <2>3, <2>6, <2>7, <2>8, <2>11, <3>3, <3>5, <3>6, BalancedFrame
  <2>14. QED
    BY <2>12, <2>13
<1>3. QED
  BY <1>1, <1>2

\* updateBalance: from the genesis block to an account.
LEMMA UpdateBalanceBalanced ==
  ASSUME TypeInv, TypeInv', MoneyInv, MaxFaults = 0, NEW w \in Worker, UpdateBalance(w)
  PROVE  Balanced'
<1>1. OpenedOnce /\ Balanced /\ (Positive' => Positive)
  BY UpdateBalanceDoes DEF MoneyInv, Positive
<1>2. Moved' = Moved /\ Gone' = Gone /\ crashes' = crashes
  BY <1>1, UpdateBalanceSummands, UpdateBalanceDoes, SumsStay
<1>3. Moved' = Moved + 0 /\ Gone' = Gone + 0
  BY <1>2, Amounts
<1>4. PICK p \in BalanceMap(GenesisBlock) :
        /\ \A x \in Account :
             balance'[x] = IF x = p.key THEN balance[x] + p.by ELSE balance[x]
        /\ p.key \in Account => Unopened(p.key) = p.by /\ Unopened(p.key)' = 0
        /\ \A x \in Account : x # p.key => Unopened(x)' = Unopened(x)
  BY <1>1, UpdateBalanceSummands
<1>5. PICK d \in Int : d = p.by
  BY GenesisMap
<1>6. -d \in Int /\ d + 0 + 0 + (-d) = 0
  OBVIOUS
<1>7. CASE p.key \in Account
  <2>1. Unopened(p.key)' = Unopened(p.key) + (-d)
    BY <1>4, <1>5, <1>7
  <2>2. ToOpen' = ToOpen + (-d)
    BY <1>4, <1>6, <1>7, <2>1, ToOpenShift
  <2>3. Held' = Held + d
    BY <1>4, <1>5, <1>7, HeldShift
  <2>4. QED
    BY <1>1, <1>2, <1>3, <1>6, <2>2, <2>3, BalancedFrame
<1>8. CASE p.key \notin Account
  <2>1. balance' = balance
    BY <1>4, <1>8 DEF TypeInv, TypeOK, StoreTypeOK
  <2>2. Held' = Held + 0
    BY <2>1, SumsStay, Amounts
  <2>3. \A x \in Account : Unopened(x)' = Unopened(x)
    BY <1>4, <1>8
  <2>4. ToOpen' = ToOpen + 0
    BY <2>3, SumsStay, Amounts
  <2>5. 0 + 0 + 0 + 0 = 0
    OBVIOUS
  <2>6. QED
    BY <1>1, <1>2, <1>3, <2>2, <2>4, <2>5, BalancedFrame
<1>9. QED
  BY <1>7, <1>8

\* A death only ever takes money away, if no amount is negative.
LEMMA CrashBalanced ==
  ASSUME TypeInv, MoneyInv, NEW w \in Worker, Crash(w)
  PROVE  Balanced'
<1>6. crashes' # 0
  BY CrashDoes DEF TypeInv, TypeOK
<1> SUFFICES ASSUME Positive' PROVE Held' + Moved' + Gone' + ToOpen' <= Supply
  BY <1>6 DEF Balanced
<1>1. OpenedOnce /\ Balanced /\ Decided /\ Positive
  BY CrashDoes DEF MoneyInv, Positive
<1>2. Held' = Held /\ crashes' = crashes + 1
  BY CrashDoes, SumsStay
<1>3. Moved' <= Moved /\ Moved' \in Int
  <2>1. /\ \A v \in Worker : v # w => InTransitAt(v)' = InTransitAt(v)
        /\ InTransitAt(w)' = 0 /\ InTransitAt(w) >= 0
    BY <1>1, CrashSummands, PositiveSummands
  <2>2. [v \in Worker |-> InTransitAt(v)] \in [Worker -> Int]
    BY Amounts
  <2>3. PICK d \in Int : d = InTransitAt(w)
    BY <2>2
  <2>4. -d \in Int /\ InTransitAt(w)' = InTransitAt(w) + (-d)
    BY <2>1, <2>3
  <2>5. Moved' = Moved + (-d)
    BY <2>1, <2>4, MovedShift
  <2>6. QED
    BY <2>1, <2>3, <2>5, Amounts
<1>4. Gone' <= Gone /\ Gone' \in Int
  <2> DEFINE f == [tx \in Transaction |-> BurntBy(tx)']
             g == [tx \in Transaction |-> BurntBy(tx)]
  <2>1. \A tx \in Transaction : BurntBy(tx)' \in {BurntBy(tx), 0} /\ BurntBy(tx) >= 0
    BY <1>1, CrashSummands, PositiveSummands
  <2>2. g \in [Transaction -> Int]
    BY Amounts
  <2>3. \A tx \in Transaction : BurntBy(tx) \in Int
    BY <2>2
  <2>4. f \in [Transaction -> Int] /\ \A tx \in Transaction : f[tx] <= g[tx]
    BY <2>1, <2>3
  <2>5. Gone = SumFunction(g) /\ Gone' = SumFunction(f)
    BY DEF Gone
  <2> HIDE DEF f, g
  <2>6. QED
    BY <2>2, <2>4, <2>5, FiniteAssumption, TotalGrows, TotalType
<1>5. ToOpen' <= ToOpen /\ ToOpen' \in Int
  <2> DEFINE f == [x \in Account |-> Unopened(x)']
             g == [x \in Account |-> Unopened(x)]
  <2>1. g \in [Account -> Int]
    BY Amounts
  <2>2. ASSUME NEW x \in Account PROVE f[x] \in Int /\ f[x] <= g[x]
    <3>1. Genesis0(x) \in Nat /\ g[x] \in Int
      BY <2>1, GenesisType
    <3>2. (f[x] = 0 /\ g[x] = Genesis0(x)) \/ f[x] = g[x]
      BY <1>1, CrashSummands
    <3> HIDE DEF f, g
    <3>3. QED
      BY <3>1, <3>2
  <2>3. f = [x \in Account |-> f[x]]
    OBVIOUS
  <2>4. ToOpen = SumFunction(g) /\ ToOpen' = SumFunction(f)
    BY DEF ToOpen
  <2> HIDE DEF f, g
  <2>5. f \in [Account -> Int]
    BY <2>2, <2>3
  <2>6. QED
    BY <2>1, <2>2, <2>4, <2>5, FiniteAssumption, TotalGrows, TotalType
<1>7. Supply \in Int
  BY SupplyType
<1>8. QED
  BY <1>1, <1>2, <1>3, <1>4, <1>5, <1>7, Amounts DEF Balanced

\* The invariant through every step.
LEMMA NextMoney ==
  ASSUME TypeInv, TypeInv', PoolInv, MoneyInv, MaxFaults = 0, [Next]_vars
  PROVE  MoneyInv'
<1>1. OpenedOnce' /\ Decided'
  BY NextOpened, NextDecided DEF MoneyInv
<1>2. ASSUME UNCHANGED <<balance, crashes>>, Positive' => Positive,
             \A v \in Worker : InTransitAt(v)' = InTransitAt(v),
             \A tx \in Transaction : BurntBy(tx)' = BurntBy(tx),
             \A x \in Account : Unopened(x)' = Unopened(x)
      PROVE  Balanced'
  <2>1. Held' = Held /\ Moved' = Moved /\ Gone' = Gone /\ ToOpen' = ToOpen
    BY <1>2, SumsStay
  <2>2. QED
    BY <1>2, <2>1 DEF MoneyInv, Balanced
<1>3. ASSUME Aside PROVE Balanced'
  BY <1>2, <1>3, AsideSummands DEF Aside, Positive
<1>4. ASSUME NEW w \in Worker, EnQueue(w) PROVE Balanced'
  BY <1>2, <1>4, EnQueueDoes, EnQueueSummands DEF Positive
<1>5. ASSUME NEW w \in Worker, NEW tx \in Transaction, QueryBalance(w, tx) PROVE Balanced'
  <2>1. Positive' => Positive
    BY <1>5, QueryBalanceDoes DEF Positive
  <2>2. QED
    BY <1>2, <1>5, <2>1, QueryBalanceDoes, QueryBalanceSummands DEF MoneyInv
<1>6. ASSUME NEW w \in Worker, InitLock(w), lock[INITBALANCE] = NoId PROVE Balanced'
  BY <1>2, <1>6, InitLockDoes, InitLockSummands DEF MoneyInv, Positive
<1>7. ASSUME NEW w \in Worker, WalkChain(w) PROVE Balanced'
  BY <1>2, <1>7, WalkChainDoes, WalkChainSummands DEF MoneyInv, Positive
<1>8. Balanced'
  <2>1. OpenedOnce
    BY DEF MoneyInv
  <2>2. QED
    BY <2>1, <1>3, <1>4, <1>5, <1>6, <1>7, MoneySteps, PaymentBalanced, UpdateBalanceBalanced,
       CrashBalanced
<1>9. QED
  BY <1>1, <1>8 DEF MoneyInv

\* At the start nothing has been applied.
LEMMA InitMoney == Init => MoneyInv
<1> SUFFICES ASSUME Init PROVE MoneyInv
  OBVIOUS
<1>1. \A w \in Worker : pc[w] = "init" /\ todo[w] = {}
  BY DEF Init
<1>2. acked = {} /\ late = {} /\ lock[INITBALANCE] = NoId
  BY DEF Init, StoreInit, INITBALANCE, LockKey
<1>3. OpenedOnce
  BY <1>1, <1>2 DEF OpenedOnce, Opening
<1>4. Decided
  BY <1>1, <1>2 DEF Decided
<1>5. TypeInv
  BY InitTypeInv
<1>6. Held = 0
  <2>1. balance \in [Account -> Int] /\ \A x \in Account : balance[x] = 0
    BY DEF Init, StoreInit
  <2>2. QED
    BY <2>1, FiniteAssumption, TotalZero DEF Held
<1>7. Moved = 0
  <2> DEFINE f == [w \in Worker |-> InTransitAt(w)]
  <2>1. f \in [Worker -> Int] /\ \A w \in Worker : f[w] = 0
    BY <1>1 DEF InTransitAt
  <2> HIDE DEF f
  <2>2. SumFunction(f) = 0
    BY <2>1, FiniteAssumption, TotalZero
  <2>3. QED
    BY <2>2 DEF Moved, f
<1>8. Gone = 0
  <2> DEFINE f == [tx \in Transaction |-> BurntBy(tx)]
  <2>1. \A tx \in Transaction : BurntBy(tx) = 0
    BY DEF Init, BurntBy
  <2>2. f \in [Transaction -> Int] /\ \A tx \in Transaction : f[tx] = 0
    BY <2>1
  <2> HIDE DEF f
  <2>3. SumFunction(f) = 0
    BY <2>2, FiniteAssumption, TotalZero
  <2>4. QED
    BY <2>3 DEF Gone, f
<1>9. ToOpen = Supply
  <2>1. \A x \in Account : Unopened(x) = Genesis0(x)
    BY <1>2 DEF Unopened, Pending
  <2>2. [x \in Account |-> Unopened(x)] = [x \in Account |-> Genesis0(x)]
    BY <2>1
  <2>3. QED
    BY <2>2 DEF ToOpen, Supply, Genesis0
<1>10. QED
  BY <1>3, <1>4, <1>5, <1>6, <1>7, <1>8, <1>9, Amounts DEF MoneyInv, Balanced

\* handleTransaction and initBalance: as long as no command fails, whatever interleaves
\* and whoever dies, money is not created unless a negative amount was accepted, and
\* without a death none is created or lost, whatever the amounts.
THEOREM MoneyIsAccountedFor ==
  ASSUME MaxFaults = 0
  PROVE  Spec => []MoneyAccounted
<1>1. TypeInv /\ MoneyInv => MoneyAccounted
  <2> SUFFICES ASSUME TypeInv, MoneyInv PROVE MoneyAccounted
    OBVIOUS
  <2>1. InTransit = Moved
    BY DEF InTransit, Moved, InTransitAt
  <2>2. Burnt = Gone
    BY DEF Burnt, Gone, BurntBy, Credited
  <2>3. ToOpen >= 0
    <3> DEFINE f == [x \in Account |-> 0]
               g == [x \in Account |-> Unopened(x)]
    <3>1. g \in [Account -> Int]
      BY Amounts
    <3>2. ASSUME NEW x \in Account PROVE 0 <= g[x]
      <4>1. Genesis0(x) \in Nat
        BY GenesisType
      <4>2. g[x] = Genesis0(x) \/ g[x] = 0
        BY DEF Unopened
      <4> HIDE DEF g
      <4>3. QED
        BY <4>1, <4>2
    <3>3. f \in [Account -> Int] /\ (\A x \in Account : f[x] = 0)
          /\ \A x \in Account : f[x] <= g[x]
      BY <3>2
    <3>4. ToOpen = SumFunction(g)
      BY DEF ToOpen
    <3> HIDE DEF f, g
    <3>5. SumFunction(f) = 0 /\ SumFunction(f) <= SumFunction(g)
      BY <3>1, <3>3, FiniteAssumption, TotalZero, TotalGrows
    <3>6. QED
      BY <3>4, <3>5, Amounts
  <2>4. (/\ lock[INITBALANCE] # NoId
         /\ \A w \in Worker : pc[w] \notin {"walk", "apply"}) => ToOpen = 0
    <3> SUFFICES ASSUME lock[INITBALANCE] # NoId,
                        \A w \in Worker : pc[w] \notin {"walk", "apply"}
                 PROVE  ToOpen = 0
      OBVIOUS
    <3> DEFINE f == [x \in Account |-> Unopened(x)]
    <3>1. \A w \in Worker : todo[w] = {}
      BY DEF MoneyInv, OpenedOnce
    <3>2. \A x \in Account : Unopened(x) = 0
      BY <3>1 DEF Unopened, Pending
    <3>3. f \in [Account -> Int] /\ \A x \in Account : f[x] = 0
      BY <3>2
    <3> HIDE DEF f
    <3>4. SumFunction(f) = 0
      BY <3>3, FiniteAssumption, TotalZero
    <3>5. QED
      BY <3>4 DEF ToOpen, f
  <2>5. PICK h \in Int, m \in Int, b \in Int, o \in Int :
          h = Held /\ m = Moved /\ b = Gone /\ o = ToOpen
    BY Amounts
  <2>6. /\ Positive => h + m + b + o <= Supply
        /\ crashes = 0 => h + m + b + o = Supply
    BY <2>5 DEF MoneyInv, Balanced
  <2>7. Supply \in Int
    BY <2>5, SupplyType
  <2>8. /\ Positive => h + m + b <= Supply
        /\ crashes = 0 /\ o = 0 => h + m + b = Supply
    BY <2>3, <2>5, <2>6, <2>7
  <2>9. QED
    BY <2>1, <2>2, <2>4, <2>5, <2>8 DEF MoneyAccounted, Held, Positive
<1>2. TypeInv /\ TypeInv' /\ PoolInv /\ MoneyInv /\ [Next]_vars => MoneyInv'
  BY NextMoney
<1>3. QED
  BY <1>1, <1>2, InitTypeInv, NextTypeInv, InitLockInv, NextLockInv, InitPoolInv, NextPoolInv,
     InitMoney, PTL DEF Spec

-----------------------------------------------------------------------------
(* FPLedger implements Bank *)

\* The refinement mapping of LedgerBank: the funds of the bank.
Funds == [x \in Account |-> balance[x] + Unapplied(x) + Underway(x)]

\* How the steps of the bank look under it.
LEMMA BankStutter ==
  ASSUME UNCHANGED <<Funds, Applied, crashes>>
  PROVE  UNCHANGED bank!vars
BY DEF bank!vars, Funds, Applied, Carried

\* A transfer, at the debit.
LEMMA BankTransfer ==
  ASSUME NEW tx \in Transaction, tx \notin Applied, tx.from \in Account,
         Funds[tx.from] >= tx.value \/ tx.from \in Drainees,
         Funds' = [x \in Account |-> Funds[x] - (IF x = tx.from THEN tx.value ELSE 0)
                                              + (IF x = tx.to THEN tx.value ELSE 0)],
         Applied' = Applied \cup {tx}, UNCHANGED crashes
  PROVE  bank!Next
<1>1. tx.from \in Drainees => \E t \in Applied : t.value < 0 /\ t.to = tx.from
  BY DEF Drainees, Drained, Applied
<1>2. QED
  BY <1>1 DEF bank!Next, bank!Transfer, bank!Drained, Funds, Applied, Carried

\* The death of a worker that had found a transaction funded.
LEMMA BankGiveUp ==
  ASSUME NEW tx \in Transaction, tx \notin Applied, Applied' = Applied \cup {tx},
         UNCHANGED Funds, crashes' = crashes + 1
  PROVE  bank!Next
BY DEF bank!Next, bank!Crash, bank!GiveUp, Funds, Applied, Carried

\* The death of a worker between debit and credit.
LEMMA BankLoseCredit ==
  ASSUME NEW tx \in Transaction, tx \in Applied, tx.to \in Account,
         Funds' = [Funds EXCEPT ![tx.to] = @ - tx.value],
         UNCHANGED Applied, crashes' = crashes + 1
  PROVE  bank!Next
BY DEF bank!Next, bank!Crash, bank!LoseCredit, Funds, Applied, Carried

\* The death of a worker in initBalance, or of one that was doing nothing with balances.
LEMMA BankLoseOpening ==
  ASSUME NEW xs \in SUBSET Account,
         Funds' = [x \in Account |-> IF x \in xs THEN Funds[x] - Genesis0(x) ELSE Funds[x]],
         UNCHANGED Applied, crashes' = crashes + 1
  PROVE  bank!Next
<1>1. \A x \in Account : [y \in Account |-> Genesis0(y)][x] = Genesis0(x)
  OBVIOUS
<1>2. Funds' = [x \in Account |->
                 IF x \in xs THEN Funds[x] - [y \in Account |-> Genesis0(y)][x] ELSE Funds[x]]
  BY <1>1
<1>3. QED
  BY <1>2 DEF bank!Next, bank!Crash, bank!LoseOpening, Funds, Applied, Carried

\* What is on its way to account x, worker by worker.
UnderwayAt(w, x) == IF pc[w] = "credit" /\ cur[w].to = x THEN cur[w].value ELSE 0

\* It is an amount.
LEMMA UnderwayType ==
  ASSUME TypeInv, NEW x \in Account
  PROVE  /\ [w \in Worker |-> UnderwayAt(w, x)] \in [Worker -> Int]
         /\ Underway(x) = SumFunction([w \in Worker |-> UnderwayAt(w, x)])
         /\ Underway(x) \in Int
<1> DEFINE g == [w \in Worker |-> UnderwayAt(w, x)]
<1>1. \A w \in Worker : UnderwayAt(w, x) \in Int
  BY CurType DEF UnderwayAt
<1>2. Underway(x) = SumFunction(g)
  BY DEF Underway, UnderwayAt
<1> HIDE DEF UnderwayAt
<1>3. g \in [Worker -> Int]
  BY <1>1
<1> HIDE DEF g
<1>4. SumFunction(g) \in Int
  BY <1>3, FiniteAssumption, TotalType
<1>5. QED
  BY <1>2, <1>3, <1>4 DEF g

\* What is on its way to somebody who has not been drained is not negative.
LEMMA UnderwayPositive ==
  ASSUME TypeInv, Covered, NEW x \in Account, x \notin Drainees
  PROVE  Underway(x) >= 0
<1> DEFINE f == [w \in Worker |-> 0]
           g == [w \in Worker |-> UnderwayAt(w, x)]
<1>1. ASSUME NEW w \in Worker PROVE UnderwayAt(w, x) \in Int /\ UnderwayAt(w, x) >= 0
  <2>1. CASE pc[w] = "credit" /\ cur[w].to = x
    <3>1. PICK tx \in Transaction : tx = cur[w] /\ tx.value \in Int
      BY <2>1, CurType
    <3>2. Carried(tx) /\ tx.to = x
      BY <2>1, <3>1 DEF Covered, CoveredAt, Applied
    <3>3. ~(tx.value < 0)
      BY <3>2 DEF Drainees, Drained
    <3>4. QED
      BY <2>1, <3>1, <3>3 DEF UnderwayAt
  <2>2. QED
    BY <2>1 DEF UnderwayAt
<1>2. Underway(x) = SumFunction(g)
  BY DEF Underway, UnderwayAt
<1> HIDE DEF UnderwayAt
<1>3. g \in [Worker -> Int] /\ f \in [Worker -> Int]
  BY <1>1
<1>4. \A w \in Worker : f[w] = 0 /\ f[w] <= g[w]
  BY <1>1
<1> HIDE DEF f, g
<1>5. SumFunction(g) \in Int /\ SumFunction(f) = 0 /\ SumFunction(f) <= SumFunction(g)
  BY <1>3, <1>4, FiniteAssumption, TotalType, TotalZero, TotalGrows
<1>6. QED
  BY <1>2, <1>5

\* It stays when it stays at every worker.
LEMMA UnderwayStays ==
  ASSUME NEW x \in Account, \A v \in Worker : UnderwayAt(v, x)' = UnderwayAt(v, x)
  PROVE  Underway(x)' = Underway(x)
<1>1. [v \in Worker |-> UnderwayAt(v, x)'] = [v \in Worker |-> UnderwayAt(v, x)]
  OBVIOUS
<1>2. QED
  BY <1>1 DEF Underway, UnderwayAt

\* It changes by as much as it does at one worker.
LEMMA UnderwayShift ==
  ASSUME TypeInv, NEW x \in Account, NEW w \in Worker, NEW d \in Int,
         UnderwayAt(w, x)' = UnderwayAt(w, x) + d,
         \A v \in Worker : v # w => UnderwayAt(v, x)' = UnderwayAt(v, x)
  PROVE  Underway(x)' = Underway(x) + d
<1> DEFINE f == [v \in Worker |-> UnderwayAt(v, x)]
           g == [v \in Worker |-> UnderwayAt(v, x)']
<1>1. f \in [Worker -> Int] /\ Underway(x) = SumFunction(f)
  BY UnderwayType
<1>2. g = [v \in Worker |-> g[v]] /\ g[w] = f[w] + d /\ \A v \in Worker : v # w => g[v] = f[v]
  OBVIOUS
<1>3. Underway(x)' = SumFunction(g)
  BY DEF Underway, UnderwayAt
<1> HIDE DEF f, g
<1>4. QED
  BY <1>1, <1>2, <1>3, FiniteAssumption, TotalShift

\* LedgerBank's sum over balanceMaps and what is still to be opened are the same.
Agrees == \A x \in Account : Unapplied(x) = Unopened(x)

\* So the funds are made of three amounts.
LEMMA FundsAre ==
  ASSUME TypeInv, Agrees, NEW x \in Account
  PROVE  /\ Funds[x] = balance[x] + Unopened(x) + Underway(x)
         /\ balance[x] \in Int /\ Unopened(x) \in Nat /\ Underway(x) \in Int
<1>1. balance[x] \in Int /\ Underway(x) \in Int
  BY UnderwayType DEF TypeInv, TypeOK, StoreTypeOK
<1>2. Unopened(x) \in Nat
  <2>1. Genesis0(x) \in Nat
    BY GenesisType
  <2>2. Unopened(x) = Genesis0(x) \/ Unopened(x) = 0
    BY DEF Unopened
  <2>3. QED
    BY <2>1, <2>2
<1>3. QED
  BY <1>1, <1>2 DEF Funds, Agrees

\* A step that changes each of them by a little changes the funds by that much.
LEMMA FundsMove ==
  ASSUME TypeInv, Agrees, Agrees', NEW x \in Account, NEW b \in Int, NEW o \in Int, NEW u \in Int,
         balance'[x] = balance[x] + b, Unopened(x)' = Unopened(x) + o,
         Underway(x)' = Underway(x) + u
  PROVE  Funds'[x] = Funds[x] + (b + o + u) /\ Funds[x] \in Int
<1>1. /\ Funds[x] = balance[x] + Unopened(x) + Underway(x)
      /\ balance[x] \in Int /\ Unopened(x) \in Int /\ Underway(x) \in Int
  BY FundsAre
<1>2. Funds'[x] = balance'[x] + Unopened(x)' + Underway(x)'
  BY DEF Funds, Agrees
<1>3. Funds'[x] = (balance[x] + b) + (Unopened(x) + o) + (Underway(x) + u)
  BY <1>2
<1>4. QED
  BY <1>1, <1>3

\* The funds are a function of the accounts in every state.
LEMMA FundsFunction ==
  /\ Funds = [x \in Account |-> Funds[x]]
  /\ Funds' = [x \in Account |-> Funds'[x]]
BY DEF Funds

\* A step that changes none of the three amounts.
LEMMA FundsStay ==
  ASSUME Agrees, Agrees', balance' = balance,
         \A x \in Account : Unopened(x)' = Unopened(x),
         \A x \in Account : Underway(x)' = Underway(x)
  PROVE  Funds' = Funds
<1>1. \A x \in Account : Unapplied(x)' = Unapplied(x)
  BY DEF Agrees
<1>2. QED
  BY <1>1 DEF Funds

\* Nothing is on its way that was not, or is not any more, as long as nobody goes to or
\* leaves the credit.
LEMMA UnderwayFrame ==
  ASSUME \A v \in Worker : /\ pc'[v] = "credit" <=> pc[v] = "credit"
                           /\ pc[v] = "credit" => cur'[v] = cur[v]
  PROVE  \A x \in Account : Underway(x)' = Underway(x)
<1>1. ASSUME NEW x \in Account PROVE Underway(x)' = Underway(x)
  <2>1. \A v \in Worker : UnderwayAt(v, x)' = UnderwayAt(v, x)
    BY DEF UnderwayAt
  <2>2. QED
    BY <2>1, UnderwayStays
<1>2. QED
  BY <1>1

\* No transaction is applied or taken back as long as nobody goes to or leaves the debit.
LEMMA AppliedFrame ==
  ASSUME verdict' = verdict,
         \A v \in Worker : /\ pc'[v] = "debit" <=> pc[v] = "debit"
                           /\ pc[v] = "debit" => cur'[v] = cur[v]
  PROVE  Applied' = Applied
BY DEF Applied, Carried

\* The debit is the transfer.
LEMMA DebitBank ==
  ASSUME TypeInv, PoolInv, MoneyInv, Covered, Agrees, Agrees', MaxFaults = 0,
         NEW w \in Worker, Debit(w)
  PROVE  bank!Next
<1>1. /\ pc[w] = "debit" /\ Moves(w, "credit")
      /\ UNCHANGED <<cur, verdict, crashes>>
      /\ \A x \in Account :
           balance'[x] = IF x = cur[w].from THEN balance[x] - cur[w].value ELSE balance[x]
  BY DebitDoes
<1>2. PICK tx \in Transaction : tx = cur[w] /\ tx.from \in Account
  BY <1>1, CurType
<1>3. PICK val \in Int : val = tx.value
  BY StoreAssumption
<1>4. verdict[tx] = "funded" /\ \A v \in Worker : pc[v] \in Handling /\ cur[v] = tx => v = w
  BY <1>1, <1>2 DEF MoneyInv, Decided, PoolInv, HandsApart, Handling
<1>5. tx \notin Applied
  BY <1>1, <1>2 DEF Applied, Carried
<1>6. Applied' = Applied \cup {tx}
  <2>1. ASSUME NEW t \in Transaction PROVE t \in Applied' <=> t \in Applied \/ t = tx
    <3>1. CASE t = tx
      <4>1. \A v \in Worker : ~(pc'[v] = "debit" /\ cur'[v] = tx)
        BY <1>1, <1>4 DEF Moves, Handling
      <4>2. QED
        BY <1>1, <1>4, <3>1, <4>1 DEF Applied, Carried
    <3>2. CASE t # tx
      <4>1. \A v \in Worker : pc'[v] = "debit" /\ cur'[v] = t <=> pc[v] = "debit" /\ cur[v] = t
        BY <1>1, <1>2, <3>2 DEF Moves
      <4>2. QED
        BY <1>1, <3>2, <4>1 DEF Applied, Carried
    <3>3. QED
      BY <3>1, <3>2
  <2>2. Applied \subseteq Transaction /\ Applied' \subseteq Transaction
    BY DEF Applied, Carried
  <2>3. QED
    BY <2>1, <2>2
<1>7. ASSUME NEW x \in Account
      PROVE  Funds'[x] = Funds[x] - (IF x = tx.from THEN val ELSE 0)
                                  + (IF x = tx.to THEN val ELSE 0)
  <2>1. PICK b \in Int : b = IF x = tx.from THEN -val ELSE 0
    OBVIOUS
  <2>2. PICK u \in Int : u = IF x = tx.to THEN val ELSE 0
    OBVIOUS
  <2>3. Unopened(x)' = Unopened(x) /\ balance[x] \in Int /\ Unopened(x) \in Int
    BY DebitSummands, FundsAre
  <2>4. balance'[x] = balance[x] + b
    BY <1>1, <1>2, <1>3, <2>1, <2>3
  <2>5. UnderwayAt(w, x) = 0 /\ UnderwayAt(w, x)' = u
    BY <1>1, <1>2, <1>3, <2>2 DEF UnderwayAt, Moves
  <2>6. \A v \in Worker : v # w => UnderwayAt(v, x)' = UnderwayAt(v, x)
    BY <1>1 DEF UnderwayAt, Moves
  <2>7. UnderwayAt(w, x)' = UnderwayAt(w, x) + u
    BY <2>5
  <2>8. Underway(x)' = Underway(x) + u
    BY <2>6, <2>7, UnderwayShift
  <2>9. Unopened(x)' = Unopened(x) + 0
    BY <2>3
  <2>10. Funds'[x] = Funds[x] + (b + 0 + u) /\ Funds[x] \in Int
    BY <2>4, <2>8, <2>9, FundsMove
  <2>11. QED
    BY <2>1, <2>2, <2>10
<1>8. Funds' = [x \in Account |-> Funds[x] - (IF x = tx.from THEN tx.value ELSE 0)
                                           + (IF x = tx.to THEN tx.value ELSE 0)]
  <2>1. Funds' = [x \in Account |-> Funds'[x]]
    BY FundsFunction
  <2>2. QED
    BY <1>3, <1>7, <2>1
<1>9. Funds[tx.from] >= tx.value \/ tx.from \in Drainees
  <2> SUFFICES ASSUME tx.from \notin Drainees PROVE Funds[tx.from] >= tx.value
    OBVIOUS
  <2>1. balance[tx.from] >= val
    BY <1>1, <1>2, <1>3 DEF Covered, CoveredAt
  <2>2. /\ Funds[tx.from] = balance[tx.from] + Unopened(tx.from) + Underway(tx.from)
        /\ balance[tx.from] \in Int /\ Unopened(tx.from) \in Nat
        /\ Underway(tx.from) \in Int /\ Underway(tx.from) >= 0
    BY <1>2, FundsAre, UnderwayPositive
  <2>3. QED
    BY <1>3, <2>1, <2>2
<1>10. QED
  BY <1>1, <1>2, <1>5, <1>6, <1>8, <1>9, BankTransfer

\* The credit only brings the money from the way to the account.
LEMMA CreditBank ==
  ASSUME TypeInv, TypeInv', PoolInv, MoneyInv, Agrees, Agrees', MaxFaults = 0,
         NEW w \in Worker, Credit(w)
  PROVE  UNCHANGED bank!vars
<1>1. /\ pc[w] = "credit" /\ Moves(w, "enqueue") /\ UNCHANGED <<cur, verdict, crashes>>
      /\ \A x \in Account :
           balance'[x] = IF x = cur[w].to THEN balance[x] + cur[w].value ELSE balance[x]
  BY CreditDoes
<1>2. PICK tx \in Transaction : tx = cur[w]
  BY <1>1, CurType
<1>3. PICK val \in Int : val = tx.value
  BY StoreAssumption
<1>4. ASSUME NEW x \in Account PROVE Funds'[x] = Funds[x]
  <2>1. PICK b \in Int : b = IF x = tx.to THEN val ELSE 0
    OBVIOUS
  <2>2. Unopened(x)' = Unopened(x) /\ balance[x] \in Int /\ Unopened(x) \in Int
    BY CreditSummands, FundsAre DEF MoneyInv
  <2>3. balance'[x] = balance[x] + b
    BY <1>1, <1>2, <1>3, <2>1, <2>2
  <2>4. UnderwayAt(w, x) = b /\ UnderwayAt(w, x)' = 0
    BY <1>1, <1>2, <1>3, <2>1 DEF UnderwayAt, Moves
  <2>5. \A v \in Worker : v # w => UnderwayAt(v, x)' = UnderwayAt(v, x)
    BY <1>1 DEF UnderwayAt, Moves
  <2>6. PICK c \in Int : c = -b
    OBVIOUS
  <2>7. UnderwayAt(w, x)' = UnderwayAt(w, x) + c
    BY <2>4, <2>6
  <2>8. Underway(x)' = Underway(x) + c
    BY <2>5, <2>7, UnderwayShift
  <2>9. Unopened(x)' = Unopened(x) + 0
    BY <2>2
  <2>10. Funds'[x] = Funds[x] + (b + 0 + c) /\ Funds[x] \in Int
    BY <2>3, <2>8, <2>9, FundsMove
  <2>11. QED
    BY <2>6, <2>10
<1>5. Funds' = Funds
  BY <1>4, FundsFunction
<1>6. Applied' = Applied
  <2>1. \A v \in Worker : pc'[v] = "debit" <=> pc[v] = "debit"
    BY <1>1 DEF Moves
  <2>2. QED
    BY <1>1, <2>1, AppliedFrame
<1>7. QED
  BY <1>1, <1>5, <1>6, BankStutter

\* Nor does updateBalance make funds: it applies them.
LEMMA UpdateBalanceBank ==
  ASSUME TypeInv, MoneyInv, Agrees, Agrees', MaxFaults = 0,
         NEW w \in Worker, UpdateBalance(w)
  PROVE  UNCHANGED bank!vars
<1>1. pc[w] = "apply" /\ UNCHANGED <<cur, verdict, crashes>>
  BY UpdateBalanceDoes DEF MoneyInv
<1>2. PICK l \in {"apply", "idle"} : Moves(w, l)
  BY UpdateBalanceDoes DEF MoneyInv
<1>3. PICK p \in BalanceMap(GenesisBlock) :
        /\ \A x \in Account :
             balance'[x] = IF x = p.key THEN balance[x] + p.by ELSE balance[x]
        /\ p.key \in Account => Unopened(p.key) = p.by /\ Unopened(p.key)' = 0
        /\ \A x \in Account : x # p.key => Unopened(x)' = Unopened(x)
  BY UpdateBalanceSummands DEF MoneyInv
<1>4. PICK d \in Int : d = p.by
  BY GenesisMap
<1>5. \A v \in Worker : /\ pc'[v] = "credit" <=> pc[v] = "credit"
                        /\ pc'[v] = "debit" <=> pc[v] = "debit"
  BY <1>1, <1>2 DEF Moves
<1>6. Applied' = Applied
  BY <1>1, <1>5, AppliedFrame
<1>7. ASSUME NEW x \in Account PROVE Funds'[x] = Funds[x]
  <2>1. PICK b \in Int : b = IF x = p.key THEN d ELSE 0
    OBVIOUS
  <2>2. balance[x] \in Int /\ Unopened(x) \in Int /\ Underway(x) \in Int
    BY FundsAre
  <2>3. balance'[x] = balance[x] + b
    BY <1>3, <1>4, <2>1, <2>2
  <2>4. PICK c \in Int : c = -b
    OBVIOUS
  <2>5. Unopened(x)' = Unopened(x) + c
    <3>1. CASE x = p.key
      BY <1>3, <1>4, <2>1, <2>4, <3>1
    <3>2. CASE x # p.key
      BY <1>3, <2>1, <2>2, <2>4, <3>2
    <3>3. QED
      BY <3>1, <3>2
  <2>6. Underway(x)' = Underway(x)
    BY <1>1, <1>5, UnderwayFrame
  <2>7. Underway(x)' = Underway(x) + 0
    BY <2>2, <2>6
  <2>8. Funds'[x] = Funds[x] + (b + c + 0) /\ Funds[x] \in Int
    BY <2>3, <2>5, <2>7, FundsMove
  <2>9. QED
    BY <2>4, <2>8
<1>8. Funds' = Funds
  BY <1>7, FundsFunction
<1>9. QED
  BY <1>1, <1>6, <1>8, BankStutter

\* A death costs the transaction that was about to be carried out, the credit that was
\* on its way, the opening that was being applied, or nothing.
LEMMA CrashBank ==
  ASSUME TypeInv, PoolInv, MoneyInv, Agrees, Agrees', NEW w \in Worker, Crash(w)
  PROVE  bank!Next
<1>1. /\ Moves(w, "down") /\ crashes' = crashes + 1 /\ UNCHANGED <<balance, verdict>>
  BY CrashDoes
<1>2. OpenedOnce
  BY DEF MoneyInv
<1>3. \A x \in Account :
        IF pc[w] = "walk" \/ \E p \in todo[w] : p.key = x
          THEN Unopened(x) = Genesis0(x) /\ Unopened(x)' = 0
          ELSE Unopened(x)' = Unopened(x)
  BY <1>2, CrashSummands
<1>4. \A v \in Worker : v # w => pc'[v] = pc[v] /\ cur'[v] = cur[v]
  BY <1>1 DEF Moves
<1>5. pc'[w] = "down"
  BY <1>1 DEF Moves
<1>6. pc[w] # "debit" => Applied' = Applied
  <2> SUFFICES ASSUME pc[w] # "debit" PROVE Applied' = Applied
    OBVIOUS
  <2>1. \A v \in Worker : /\ pc'[v] = "debit" <=> pc[v] = "debit"
                          /\ pc[v] = "debit" => cur'[v] = cur[v]
    BY <1>4, <1>5
  <2>2. QED
    BY <1>1, <2>1, AppliedFrame
<1>7. pc[w] # "credit" => \A x \in Account : Underway(x)' = Underway(x)
  <2> SUFFICES ASSUME pc[w] # "credit" PROVE \A x \in Account : Underway(x)' = Underway(x)
    OBVIOUS
  <2>1. \A v \in Worker : /\ pc'[v] = "credit" <=> pc[v] = "credit"
                          /\ pc[v] = "credit" => cur'[v] = cur[v]
    BY <1>4, <1>5
  <2>2. QED
    BY <2>1, UnderwayFrame
<1>8. pc[w] \notin Opening => \A x \in Account : Unopened(x)' = Unopened(x)
  <2> SUFFICES ASSUME pc[w] \notin Opening PROVE \A x \in Account : Unopened(x)' = Unopened(x)
    OBVIOUS
  <2>1. todo[w] = {} /\ pc[w] # "walk"
    BY <1>2 DEF OpenedOnce, Opening
  <2>2. QED
    BY <1>3, <2>1
<1>9. CASE pc[w] = "debit"
  <2>1. PICK tx \in Transaction : tx = cur[w]
    BY <1>9, CurType
  <2>2. verdict[tx] = "funded" /\ \A v \in Worker : pc[v] \in Handling /\ cur[v] = tx => v = w
    BY <1>9, <2>1 DEF MoneyInv, Decided, PoolInv, HandsApart, Handling
  <2>3. tx \notin Applied
    BY <1>9, <2>1 DEF Applied, Carried
  <2>4. Applied' = Applied \cup {tx}
    <3>1. ASSUME NEW t \in Transaction PROVE t \in Applied' <=> t \in Applied \/ t = tx
      <4>1. CASE t = tx
        <5>1. \A v \in Worker : ~(pc'[v] = "debit" /\ cur'[v] = tx)
          BY <1>4, <1>5, <2>2 DEF Handling
        <5>2. QED
          BY <1>1, <2>2, <4>1, <5>1 DEF Applied, Carried
      <4>2. CASE t # tx
        <5>1. \A v \in Worker : pc'[v] = "debit" /\ cur'[v] = t <=> pc[v] = "debit" /\ cur[v] = t
          BY <1>4, <1>5, <2>1, <4>2
        <5>2. QED
          BY <1>1, <4>2, <5>1 DEF Applied, Carried
      <4>3. QED
        BY <4>1, <4>2
    <3>2. Applied \subseteq Transaction /\ Applied' \subseteq Transaction
      BY DEF Applied, Carried
    <3>3. QED
      BY <3>1, <3>2
  <2>5. Funds' = Funds
    BY <1>1, <1>7, <1>8, <1>9, FundsStay DEF Opening
  <2>6. QED
    BY <1>1, <2>3, <2>4, <2>5, BankGiveUp
<1>10. CASE pc[w] = "credit"
  <2>1. PICK tx \in Transaction : tx = cur[w]
    BY <1>10, CurType
  <2>2. PICK val \in Int : val = tx.value
    BY StoreAssumption
  <2>3. tx \in Applied
    <3>1. verdict[tx] = "funded" /\ \A v \in Worker : pc[v] \in Handling /\ cur[v] = tx => v = w
      BY <1>10, <2>1 DEF MoneyInv, Decided, PoolInv, HandsApart, Handling
    <3>2. \A v \in Worker : ~(pc[v] = "debit" /\ cur[v] = tx)
      BY <1>10, <3>1 DEF Handling
    <3>3. QED
      BY <3>1, <3>2 DEF Applied, Carried
  <2>4. Applied' = Applied
    BY <1>6, <1>10
  <2>5. \A x \in Account : Unopened(x)' = Unopened(x)
    BY <1>8, <1>10 DEF Opening
  <2>6. CASE tx.to \in Account
    <3>1. ASSUME NEW x \in Account
          PROVE  Funds'[x] = IF x = tx.to THEN Funds[x] - val ELSE Funds[x]
      <4>1. PICK c \in Int : c = IF x = tx.to THEN -val ELSE 0
        OBVIOUS
      <4>2. balance[x] \in Int /\ Unopened(x) \in Int
        BY FundsAre
      <4>3. balance'[x] = balance[x] + 0 /\ Unopened(x)' = Unopened(x) + 0
        BY <1>1, <2>5, <4>2
      <4>4. UnderwayAt(w, x) = (IF x = tx.to THEN val ELSE 0) /\ UnderwayAt(w, x)' = 0
        BY <1>5, <1>10, <2>1, <2>2 DEF UnderwayAt
      <4>5. UnderwayAt(w, x)' = UnderwayAt(w, x) + c
        BY <4>1, <4>4
      <4>6. \A v \in Worker : v # w => UnderwayAt(v, x)' = UnderwayAt(v, x)
        BY <1>4 DEF UnderwayAt
      <4>7. Underway(x)' = Underway(x) + c
        BY <4>5, <4>6, UnderwayShift
      <4>8. Funds'[x] = Funds[x] + (0 + 0 + c) /\ Funds[x] \in Int
        BY <4>3, <4>7, FundsMove
      <4>9. QED
        BY <4>1, <4>8
    <3>2. Funds' = [Funds EXCEPT ![tx.to] = @ - tx.value]
      BY <2>2, <2>6, <3>1, FundsFunction
    <3>3. QED
      BY <1>1, <2>3, <2>4, <2>6, <3>2, BankLoseCredit
  <2>7. CASE tx.to \notin Account
    <3>1. ASSUME NEW x \in Account PROVE Underway(x)' = Underway(x)
      <4>1. UnderwayAt(w, x) = 0 /\ UnderwayAt(w, x)' = 0
        BY <1>5, <1>10, <2>1, <2>7 DEF UnderwayAt
      <4>2. \A v \in Worker : UnderwayAt(v, x)' = UnderwayAt(v, x)
        BY <1>4, <4>1 DEF UnderwayAt
      <4>3. QED
        BY <4>2, UnderwayStays
    <3>2. Funds' = Funds
      BY <1>1, <2>5, <3>1, FundsStay
    <3>3. {} \in SUBSET Account
      OBVIOUS
    <3>4. Funds' = [x \in Account |-> IF x \in {} THEN Funds[x] - Genesis0(x) ELSE Funds[x]]
      BY <3>2, FundsFunction
    <3>5. QED
      BY <1>1, <2>4, <3>3, <3>4, BankLoseOpening
  <2>8. QED
    BY <2>6, <2>7
<1>11. CASE pc[w] \notin {"debit", "credit"}
  <2> DEFINE xs == {x \in Account : pc[w] = "walk" \/ \E p \in todo[w] : p.key = x}
  <2>1. xs \in SUBSET Account
    OBVIOUS
  <2>2. ASSUME NEW x \in Account
        PROVE  Funds'[x] = IF x \in xs THEN Funds[x] - Genesis0(x) ELSE Funds[x]
    <3>1. Genesis0(x) \in Int
      BY GenesisType
    <3>2. PICK c \in Int : c = IF x \in xs THEN -Genesis0(x) ELSE 0
      <4> HIDE DEF xs
      <4>1. QED
        BY <3>1
    <3>3. balance[x] \in Int /\ Unopened(x) \in Int /\ Underway(x) \in Int
      BY FundsAre
    <3>4. balance'[x] = balance[x] + 0 /\ Underway(x)' = Underway(x) + 0
      BY <1>1, <1>7, <1>11, <3>3
    <3>5. Unopened(x)' = Unopened(x) + c
      <4>1. CASE x \in xs
        <5>1. Unopened(x) = Genesis0(x) /\ Unopened(x)' = 0
          BY <1>3, <4>1
        <5> HIDE DEF xs
        <5>2. QED
          BY <3>1, <3>2, <4>1, <5>1
      <4>2. CASE x \notin xs
        <5>1. Unopened(x)' = Unopened(x)
          BY <1>3, <4>2
        <5> HIDE DEF xs
        <5>2. QED
          BY <3>2, <3>3, <4>2, <5>1
      <4>3. QED
        BY <4>1, <4>2
    <3> HIDE DEF xs
    <3>6. Funds'[x] = Funds[x] + (0 + c + 0) /\ Funds[x] \in Int
      BY <3>4, <3>5, FundsMove
    <3>7. QED
      BY <3>1, <3>2, <3>6
  <2> HIDE DEF xs
  <2>3. Funds' = [x \in Account |-> IF x \in xs THEN Funds[x] - Genesis0(x) ELSE Funds[x]]
    BY <2>2, FundsFunction
  <2>4. Applied' = Applied
    BY <1>6, <1>11
  <2>5. QED
    BY <1>1, <2>1, <2>3, <2>4, BankLoseOpening
<1>12. QED
  BY <1>9, <1>10, <1>11

\* Every step of the workers is a step of the bank, or none.
LEMMA BankStep ==
  ASSUME TypeInv, TypeInv', PoolInv, MoneyInv, Covered, Agrees, Agrees', MaxFaults = 0,
         [Next]_vars
  PROVE  [bank!Next]_(bank!vars)
<1>1. OpenedOnce
  BY DEF MoneyInv
<1>2. ASSUME UNCHANGED <<balance, crashes>>, Applied' = Applied,
             \A x \in Account : Unopened(x)' = Unopened(x),
             \A v \in Worker : /\ pc'[v] = "credit" <=> pc[v] = "credit"
                               /\ pc[v] = "credit" => cur'[v] = cur[v]
      PROVE  UNCHANGED bank!vars
  <2>1. Funds' = Funds
    BY <1>2, FundsStay, UnderwayFrame
  <2>2. QED
    BY <1>2, <2>1, BankStutter
<1>3. ASSUME Aside PROVE UNCHANGED bank!vars
  <2>1. \A v \in Worker : /\ pc'[v] = "credit" <=> pc[v] = "credit"
                          /\ pc[v] = "credit" => cur'[v] = cur[v]
                          /\ pc'[v] = "debit" <=> pc[v] = "debit"
                          /\ pc[v] = "debit" => cur'[v] = cur[v]
    BY <1>3 DEF Aside, Moving, Handling
  <2>2. UNCHANGED <<balance, crashes, verdict>>
    BY <1>3 DEF Aside
  <2>3. QED
    BY <1>2, <1>3, <2>1, <2>2, AppliedFrame, AsideSummands
<1>4. ASSUME NEW w \in Worker, NEW l, Moves(w, l), l \notin {"credit", "debit"},
             pc[w] \notin {"credit", "debit"}, UNCHANGED <<balance, crashes, verdict>>,
             \A x \in Account : Unopened(x)' = Unopened(x)
      PROVE  UNCHANGED bank!vars
  <2>1. \A v \in Worker : /\ pc'[v] = "credit" <=> pc[v] = "credit"
                          /\ pc[v] = "credit" => cur'[v] = cur[v]
                          /\ pc'[v] = "debit" <=> pc[v] = "debit"
                          /\ pc[v] = "debit" => cur'[v] = cur[v]
    BY <1>4 DEF Moves
  <2>2. QED
    BY <1>2, <1>4, <2>1, AppliedFrame
<1>5. ASSUME NEW w \in Worker, InitLock(w), lock[INITBALANCE] = NoId PROVE UNCHANGED bank!vars
  BY <1>1, <1>4, <1>5, InitLockDoes, InitLockSummands
<1>6. ASSUME NEW w \in Worker, WalkChain(w) PROVE UNCHANGED bank!vars
  BY <1>1, <1>4, <1>6, WalkChainDoes, WalkChainSummands
<1>7. ASSUME NEW w \in Worker, EnQueue(w) PROVE UNCHANGED bank!vars
  BY <1>4, <1>7, EnQueueDoes, EnQueueSummands
<1>8. ASSUME NEW w \in Worker, NEW tx \in Transaction, QueryBalance(w, tx)
      PROVE  UNCHANGED bank!vars
  <2>1. /\ pc[w] = "idle" /\ verdict[tx] = "unsent" /\ UNCHANGED <<balance, crashes>>
        /\ \A t \in Transaction : t # tx => verdict'[t] = verdict[t]
        /\ \/ verdict'[tx] = "funded" /\ Moves(w, "debit") /\ cur'[w] = tx
           \/ verdict'[tx] = "short" /\ Moves(w, "enqueue") /\ cur'[w] = tx
           \/ verdict'[tx] = "failed" /\ Moves(w, "idle") /\ cur' = cur
    BY <1>8, QueryBalanceDoes
  <2>2. \A x \in Account : Unopened(x)' = Unopened(x)
    BY <1>8, QueryBalanceSummands DEF MoneyInv
  <2>3. \A v \in Worker : /\ pc'[v] = "credit" <=> pc[v] = "credit"
                          /\ pc[v] = "credit" => cur'[v] = cur[v]
    BY <2>1 DEF Moves
  <2>4. \A v \in Worker : v # w => pc'[v] = pc[v] /\ cur'[v] = cur[v]
    BY <2>1 DEF Moves
  <2>5. tx \notin Applied /\ tx \notin Applied'
    <3>1. tx \notin Applied
      BY <2>1 DEF Applied, Carried
    <3>2. verdict'[tx] = "funded" => pc'[w] = "debit" /\ cur'[w] = tx
      BY <2>1 DEF Moves
    <3>3. QED
      BY <3>1, <3>2 DEF Applied, Carried
  <2>6. ASSUME NEW t \in Transaction, t # tx PROVE t \in Applied' <=> t \in Applied
    <3>1. pc'[w] = "debit" => cur'[w] = tx
      BY <2>1 DEF Moves
    <3>2. \A v \in Worker : pc'[v] = "debit" /\ cur'[v] = t <=> pc[v] = "debit" /\ cur[v] = t
      BY <2>1, <2>4, <2>6, <3>1
    <3>3. QED
      BY <2>1, <2>6, <3>2 DEF Applied, Carried
  <2>7. Applied' = Applied
    <3>1. Applied \subseteq Transaction /\ Applied' \subseteq Transaction
      BY DEF Applied, Carried
    <3>2. QED
      BY <2>5, <2>6, <3>1
  <2>8. QED
    BY <1>2, <2>1, <2>2, <2>3, <2>7
<1>9. QED
  BY <1>1, <1>3, <1>5, <1>6, <1>7, <1>8, MoneySteps, DebitBank, CreditBank,
     UpdateBalanceBank, CrashBank

\* A freshly started ledger is a freshly opened bank.
LEMMA InitBank == ASSUME Init, Agrees PROVE bank!Init
<1>1. TypeInv /\ \A w \in Worker : pc[w] = "init"
  BY InitTypeInv DEF Init
<1>2. lock[INITBALANCE] = NoId /\ crashes = 0
  BY DEF Init, StoreInit, INITBALANCE, LockKey
<1>3. ASSUME NEW x \in Account PROVE Funds[x] = Genesis0(x)
  <2>1. balance[x] = 0
    BY DEF Init, StoreInit
  <2>2. Unopened(x) = Genesis0(x) /\ Genesis0(x) \in Nat
    BY <1>2, GenesisType DEF Unopened, Pending
  <2>3. Underway(x) = 0
    <3> DEFINE f == [w \in Worker |-> UnderwayAt(w, x)]
    <3>1. f \in [Worker -> Int] /\ Underway(x) = SumFunction(f)
      BY <1>1, UnderwayType
    <3>2. \A w \in Worker : f[w] = 0
      BY <1>1 DEF UnderwayAt
    <3> HIDE DEF f
    <3>3. QED
      BY <3>1, <3>2, FiniteAssumption, TotalZero
  <2>4. QED
    BY <1>1, <2>1, <2>2, <2>3, FundsAre
<1>4. Funds = [x \in Account |-> Genesis0(x)]
  BY <1>3, FundsFunction
<1>5. Applied = {}
  BY DEF Init, Applied, Carried
<1>6. QED
  BY <1>2, <1>4, <1>5 DEF bank!Init, Funds, Applied, Carried

\* handleTransaction and initBalance of any number of workers implement the bank, whatever
\* the sign of the amounts, as long as no command fails and the transactions of a payer
\* reach one worker.
THEOREM LedgerImplementsBank ==
  ASSUME MaxFaults = 0, PayerAffinity
  PROVE  Spec => ImplementsBank
<1>1. MoneyInv => Agrees
  BY UnappliedIs DEF MoneyInv, Agrees
<1>2. TypeInv /\ TypeInv' /\ PoolInv /\ MoneyInv /\ [Next]_vars => MoneyInv'
  BY NextMoney
<1>3. TypeInv /\ TypeInv' /\ Covered /\ [Next]_vars => Covered'
  BY NextCovered
<1>4. TypeInv /\ TypeInv' /\ PoolInv /\ MoneyInv /\ Covered /\ Agrees /\ Agrees' /\ [Next]_vars
        => [bank!Next]_(bank!vars)
  BY BankStep
<1>5. Init /\ Agrees => bank!Init
  BY InitBank
<1>6. QED
  BY <1>1, <1>2, <1>3, <1>4, <1>5, InitTypeInv, NextTypeInv, InitLockInv, NextLockInv,
     InitPoolInv, NextPoolInv, InitMoney, InitCovered, PTL
     DEF Spec, ImplementsBank, bank!Spec
=============================================================================
