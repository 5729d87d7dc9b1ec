--------------------------- MODULE MinerNodeProofs --------------------------
(***************************************************************************)
(* Proofs about MinerNode: the login of a node, for any number of workers  *)
(* and crashes.                                                            *)
(***************************************************************************)
EXTENDS MinerNode, TLAPS

Location == {"off", "get", "del", "acquire", "sync", "balance", "try", "login", "ready"}

\* What is on its way to the root: the node's login, and transactions that were
\* acknowledged.
LoginMessage == [type : {"login"}, hostport : {hostport}]
TxMessage(txs) == [type : {"tx"}, tx : txs]
Message(txs) == LoginMessage \union TxMessage(txs)

\* Types, with those of the messages and of the blocks on their way.
MessagesTyped ==
  /\ TypeOK /\ faults \in Nat /\ built \in Nat
  /\ toParent \in [Worker -> Seq(Message(acked))]
  /\ toChild \subseteq {hostport} \X (1..built)

\* releaseLock: a worker that holds the lock will go through releaseLock before it
\* depends on the lock again.
HoldersRelease ==
  \A w \in Worker : lock = w => pc[w] \in {"off", "get", "del", "sync", "login"}

Releasing(w, l) == pc[w] \in {"get", "del"} /\ next[w] = l

\* A worker that has sent its login, and has not finished init.
LoginFollowed ==
  \A w \in Worker : Releasing(w, "ready") => childNodes # {} \/ LoginSent(w)

\* A worker that tryLock is still ahead of, or that has just got the lock by it.
Undecided(w) ==
  \/ pc[w] \in {"off", "acquire", "sync", "balance", "try", "login"}
  \/ Releasing(w, "acquire") \/ Releasing(w, "balance")

SomeoneWill == childNodes # {} \/ LoggingIn \/ \E w \in Worker : Undecided(w)

MinerInv ==
  /\ MessagesTyped
  /\ faults = 0 => HoldersRelease /\ LoginFollowed /\ SomeoneWill

-----------------------------------------------------------------------------
(* Types *)

\* Messages stay messages when more transactions are acknowledged.
LEMMA MessagesGrow ==
  ASSUME NEW A, NEW B, A \subseteq B, NEW q \in Seq(Message(A))
  PROVE  q \in Seq(Message(B))
<1>1. Message(A) \subseteq Message(B)
  BY DEF Message, TxMessage
<1>2. QED
  BY <1>1

\* sendBin: a message more on the connection of worker w.
LEMMA SendTyped ==
  ASSUME toParent \in [Worker -> Seq(Message(acked))], acked \subseteq acked',
         NEW w \in Worker, NEW m \in Message(acked'), Send(w, m)
  PROVE  toParent' \in [Worker -> Seq(Message(acked'))]
<1>1. \A v \in Worker : toParent[v] \in Seq(Message(acked'))
  BY MessagesGrow
<1>2. Append(toParent[w], m) \in Seq(Message(acked'))
  BY <1>1
<1>3. QED
  BY <1>1, <1>2 DEF Send

\* A Redis command or a failure only counts up.
LEMMA RedisCounts ==
  ASSUME faults \in Nat, NEW o, Redis(o)
  PROVE  /\ faults' \in Nat /\ (faults' = 0 => faults = 0 /\ o = "ok")
BY MinerAssumption DEF Redis

\* FPService::init of a worker changes its place and the lock, and sends the login.
LEMMA InitTypes ==
  ASSUME MessagesTyped, UNCHANGED port, NEW w \in Worker, NEW o \in Outcome,
         InitLocal(w) \/ InitStep(w, o) \/ Crash(w) \/ Break(w)
  PROVE  MessagesTyped'
<1> USE DEF MessagesTyped
<1>1. CASE Start(w)
  BY <1>1 DEF Start, Release, Goto, root, TypeOK
<1>2. CASE SyncBlockChain(w)
  BY <1>2 DEF SyncBlockChain, Release, Goto, root, TypeOK
<1>3. CASE InitBalance(w)
  BY <1>3 DEF InitBalance, Goto, root, TypeOK
<1>4. CASE Login(w)
  <2>1. [type |-> "login", hostport |-> hostport] \in Message(acked')
    BY DEF Message, LoginMessage, hostport
  <2>2. toParent' \in [Worker -> Seq(Message(acked'))]
    BY <1>4, <2>1, SendTyped DEF Login
  <2>3. QED
    BY <1>4, <2>2 DEF Login, Release, Goto, root, TypeOK
<1>5. CASE ReleaseGet(w, o)
  <2>1. faults' \in Nat
    BY <1>5, RedisCounts DEF ReleaseGet
  <2>2. QED
    BY <1>5, <2>1 DEF ReleaseGet, Goto, root, TypeOK
<1>6. CASE ReleaseDel(w, o)
  <2>1. faults' \in Nat
    BY <1>6, RedisCounts DEF ReleaseDel
  <2>2. QED
    BY <1>6, <2>1 DEF ReleaseDel, Goto, root, TypeOK
<1>7. CASE AcquireLock(w, o)
  <2>1. faults' \in Nat
    BY <1>7, RedisCounts DEF AcquireLock
  <2>2. QED
    BY <1>7, <2>1 DEF AcquireLock, SetNX, Goto, root, TypeOK
<1>8. CASE TryLock(w, o)
  <2>1. faults' \in Nat
    BY <1>8, RedisCounts DEF TryLock
  <2>2. QED
    BY <1>8, <2>1 DEF TryLock, SetNX, Goto, root, TypeOK
<1>9. CASE Crash(w)
  BY <1>9 DEF Crash, Goto, root, TypeOK
<1>10. CASE Break(w)
  BY <1>10 DEF Break, locking, root, TypeOK
<1>11. QED
  BY <1>1, <1>2, <1>3, <1>4, <1>5, <1>6, <1>7, <1>8, <1>9, <1>10 DEF InitLocal, InitStep

\* forward, and what the root makes of the messages.
LEMMA MessageTypes ==
  ASSUME MessagesTyped, UNCHANGED port, NEW w \in Worker, NEW o \in Outcome,
         (\E tx \in Tx : HandleTransaction(w, tx, o)) \/ RootHandles(w, o)
  PROVE  MessagesTyped'
<1> USE DEF MessagesTyped
<1>1. ASSUME NEW tx \in Tx, HandleTransaction(w, tx, o)
      PROVE  MessagesTyped'
  <2>1. faults' \in Nat
    BY <1>1, RedisCounts DEF HandleTransaction
  <2>2. CASE o = "ok"
    <3>1. acked' = acked \union {tx} /\ Send(w, [type |-> "tx", tx |-> tx])
      BY <1>1, <2>2 DEF HandleTransaction
    <3>2. [type |-> "tx", tx |-> tx] \in Message(acked')
      BY <3>1 DEF Message, TxMessage
    <3>3. toParent' \in [Worker -> Seq(Message(acked'))]
      BY <3>1, <3>2, SendTyped
    <3>4. QED
      BY <1>1, <2>1, <3>1, <3>3 DEF HandleTransaction, locking, root, TypeOK
  <2>3. CASE o # "ok"
    BY <1>1, <2>1, <2>3 DEF HandleTransaction, locking, root, TypeOK
  <2>4. QED
    BY <2>2, <2>3
<1>2. CASE RootHandles(w, o)
  <2> DEFINE m == Head(toParent[w])
  <2>1. /\ toParent[w] \in Seq(Message(acked)) /\ toParent[w] # <<>>
        /\ faults' \in Nat
    BY <1>2, RedisCounts DEF RootHandles
  <2>2. m \in Message(acked) /\ Tail(toParent[w]) \in Seq(Message(acked))
    BY <2>1
  <2>3. toParent' \in [Worker -> Seq(Message(acked))]
    BY <1>2, <2>2 DEF RootHandles
  <2>4. /\ m.type = "login" => m.hostport = hostport
        /\ m.type # "login" => m.tx \in acked
    BY <2>2 DEF Message, LoginMessage, TxMessage
  <2> HIDE DEF m
  <2>5. /\ childNodes' \subseteq {hostport} /\ pool' \subseteq acked
    BY <1>2, <2>4 DEF RootHandles, TypeOK, m
  <2>6. UNCHANGED <<pc, next, owner, lock, built, toChild, missed, received, acked, crashes>>
    BY <1>2 DEF RootHandles, locking
  <2>7. QED
    BY <2>1, <2>3, <2>5, <2>6 DEF TypeOK
<1>3. QED
  BY <1>1, <1>2

\* broadcast, and the arrival of a block.
LEMMA BlockTypes ==
  ASSUME MessagesTyped, UNCHANGED port, NEW o \in Outcome,
         \/ Broadcast(o)
         \/ \E b \in 1..MaxBlock : BlockArrives(hostport, b)
  PROVE  MessagesTyped'
<1> USE DEF MessagesTyped
<1>1. CASE Broadcast(o)
  <2> DEFINE children == IF o = "ok" THEN childNodes ELSE {}
  <2>1. /\ faults' \in Nat /\ built' = built + 1
        /\ toChild' = toChild \union {<<a, built + 1>> : a \in children}
        /\ UNCHANGED <<pc, next, owner, lock, toParent, childNodes, pool, received, acked, crashes>>
    BY <1>1, RedisCounts DEF Broadcast, locking
  <2>2. children \subseteq {hostport}
    BY DEF TypeOK
  <2> HIDE DEF children
  <2>3. 1..built \subseteq 1..built' /\ built' \in 1..built'
    BY <2>1
  <2>4. toChild' \subseteq {hostport} \X (1..built')
    BY <2>1, <2>2, <2>3
  <2>5. QED
    BY <2>1, <2>3, <2>4 DEF TypeOK
<1>2. ASSUME NEW b \in 1..MaxBlock, BlockArrives(hostport, b)
      PROVE  MessagesTyped'
  BY <1>2 DEF BlockArrives, locking, TypeOK
<1>3. QED
  BY <1>1, <1>2

-----------------------------------------------------------------------------
(* The login *)

\* A login that was sent stays on the connection when more is sent.
LEMMA LoginAppended ==
  ASSUME NEW S, NEW q \in Seq(S), NEW m \in S
  PROVE  /\ (\E i \in DOMAIN q : q[i].type = "login")
              => \E i \in DOMAIN Append(q, m) : Append(q, m)[i].type = "login"
         /\ m.type = "login"
              => \E i \in DOMAIN Append(q, m) : Append(q, m)[i].type = "login"
<1> DEFINE l == Append(q, m)
<1>1. /\ DOMAIN q = 1..Len(q) /\ DOMAIN l = 1..Len(q) + 1 /\ Len(q) \in Nat
      /\ \A i \in 1..Len(q) : l[i] = q[i]
      /\ l[Len(q) + 1] = m
  OBVIOUS
<1> HIDE DEF l
<1>2. /\ (\E i \in DOMAIN q : q[i].type = "login") => \E i \in DOMAIN l : l[i].type = "login"
      /\ m.type = "login" => \E i \in DOMAIN l : l[i].type = "login"
  BY <1>1
<1>3. QED
  BY <1>2 DEF l

\* A login that is not the next message to be handled stays on the connection.
LEMMA LoginBehind ==
  ASSUME NEW S, NEW q \in Seq(S), q # <<>>, \E i \in DOMAIN q : q[i].type = "login",
         Head(q).type # "login"
  PROVE  \E i \in DOMAIN Tail(q) : Tail(q)[i].type = "login"
<1>1. PICK i \in DOMAIN q : q[i].type = "login"
  OBVIOUS
<1>2. i \in 1..Len(q) /\ i # 1 /\ Len(q) \in Nat
  BY <1>1
<1>3. i - 1 \in DOMAIN Tail(q) /\ Tail(q)[i - 1] = q[i]
  BY <1>2
<1>4. QED
  BY <1>1, <1>3

LoginInv == HoldersRelease /\ LoginFollowed /\ SomeoneWill

\* init of worker w: a step that moves it to l, and loses no login.
LEMMA MoveKeeps ==
  ASSUME TypeOK, LoginInv, NEW w \in Worker, NEW l \in Location, Goto(w, l),
         UNCHANGED childNodes,
         \A v \in Worker : LoginSent(v) => LoginSent(v)',
         \A v \in Worker : v # w => next'[v] = next[v],
         lock' \in {lock, None, w},
         lock' = w => l \in {"off", "get", "del", "sync", "login"},
         l \in {"get", "del"} /\ next'[w] = "ready" =>
           \/ LoginSent(w)'
           \/ Releasing(w, "ready"),
         \/ Undecided(w)'
         \/ ~Undecided(w)
         \/ LoginSent(w)'
         \/ childNodes # {} \/ LoggingIn
         \/ \E v \in Worker : v # w /\ Undecided(v)
  PROVE  LoginInv'
<1>1. /\ pc'[w] = l /\ \A v \in Worker : v # w => pc'[v] = pc[v]
  BY DEF Goto, TypeOK
<1>2. HoldersRelease'
  BY <1>1, MinerAssumption DEF LoginInv, HoldersRelease
<1>3. LoginFollowed'
  <2>1. ASSUME NEW v \in Worker, Releasing(v, "ready")'
        PROVE  childNodes' # {} \/ LoginSent(v)'
    <3>1. CASE v = w
      BY <1>1, <2>1, <3>1 DEF LoginInv, LoginFollowed, Releasing
    <3>2. CASE v # w
      BY <1>1, <2>1, <3>2 DEF LoginInv, LoginFollowed, Releasing
    <3>3. QED
      BY <3>1, <3>2
  <2>2. QED
    BY <2>1 DEF LoginFollowed
<1>4. \A v \in Worker : v # w /\ Undecided(v) => Undecided(v)'
  BY <1>1 DEF Undecided, Releasing
<1>5. LoggingIn => LoggingIn'
  BY DEF LoggingIn
<1>6. SomeoneWill'
  BY <1>4, <1>5 DEF LoginInv, SomeoneWill, LoggingIn
<1>7. QED
  BY <1>2, <1>3, <1>6 DEF LoginInv

\* init without a failed command: each step of a worker keeps someone to log in.
LEMMA InitLogin ==
  ASSUME MessagesTyped, LoginInv, faults = 0, faults' = 0, NEW w \in Worker, NEW o \in Outcome,
         InitLocal(w) \/ InitStep(w, o)
  PROVE  LoginInv'
<1> USE DEF MessagesTyped
<1>0. TypeOK /\ None \notin Worker
  BY MinerAssumption
<1> DEFINE Kept == /\ UNCHANGED <<childNodes, toParent>>
                   /\ \A v \in Worker : LoginSent(v) => LoginSent(v)'
<1>1. CASE Start(w)
  <2>1. Goto(w, "get") /\ UNCHANGED lock /\ Kept /\ pc[w] = "off"
    BY <1>1 DEF Start, Release, root, LoginSent
  <2>2. next'[w] = "acquire" /\ pc'[w] = "get" /\ \A v \in Worker : v # w => next'[v] = next[v]
    BY <1>0, <1>1, <2>1 DEF Start, Release, Goto, TypeOK
  <2>3. Undecided(w)' /\ "get" \in Location
    BY <2>2 DEF Undecided, Releasing, Location
  <2>4. QED
    BY <1>0, <2>1, <2>2, <2>3, MoveKeeps
<1>2. CASE SyncBlockChain(w)
  <2>1. Goto(w, "get") /\ UNCHANGED lock /\ Kept /\ pc[w] = "sync"
    BY <1>2 DEF SyncBlockChain, Release, root, LoginSent
  <2>2. next'[w] = "balance" /\ pc'[w] = "get" /\ \A v \in Worker : v # w => next'[v] = next[v]
    BY <1>0, <1>2, <2>1 DEF SyncBlockChain, Release, Goto, TypeOK
  <2>3. Undecided(w)' /\ "get" \in Location
    BY <2>2 DEF Undecided, Releasing, Location
  <2>4. QED
    BY <1>0, <2>1, <2>2, <2>3, MoveKeeps
<1>3. CASE InitBalance(w)
  <2>1. Goto(w, "try") /\ UNCHANGED <<lock, next>> /\ Kept /\ pc[w] = "balance"
    BY <1>3 DEF InitBalance, root, LoginSent
  <2>2. lock # w
    BY <2>1 DEF LoginInv, HoldersRelease
  <2>3. Undecided(w)' /\ "try" \in Location
    BY <1>0, <2>1 DEF Undecided, Releasing, Location, Goto, TypeOK
  <2>4. QED
    BY <1>0, <2>1, <2>2, <2>3, MoveKeeps
<1>4. CASE Login(w)
  <2> DEFINE m == [type |-> "login", hostport |-> hostport]
  <2>1. Goto(w, "get") /\ UNCHANGED <<lock, childNodes>> /\ Send(w, m)
    BY <1>4 DEF Login, Release, root
  <2>2. \A v \in Worker : v # w => next'[v] = next[v] /\ toParent'[v] = toParent[v]
    BY <1>0, <1>4, <2>1 DEF Login, Release, Send, TypeOK
  <2>3. PICK e \in Message(acked) : e = m /\ e.type = "login"
    <3>1. m \in Message(acked) /\ m.type = "login"
      BY DEF Message, LoginMessage, hostport
    <3> HIDE DEF m
    <3>2. QED
      BY <3>1
  <2>4. toParent[w] \in Seq(Message(acked)) /\ toParent'[w] = Append(toParent[w], e)
    BY <2>1, <2>3 DEF Send
  <2>5. LoginSent(w)'
    BY <2>3, <2>4, LoginAppended DEF LoginSent
  <2>6. \A v \in Worker : LoginSent(v) => LoginSent(v)'
    BY <2>2, <2>5 DEF LoginSent
  <2>7. "get" \in Location
    BY DEF Location
  <2>8. QED
    BY <1>0, <2>1, <2>2, <2>5, <2>6, <2>7, MoveKeeps
<1>5. CASE ReleaseGet(w, o)
  <2>1. o = "ok"
    BY <1>5, RedisCounts DEF ReleaseGet
  <2> DEFINE l == IF lock \in {None, w} THEN "del" ELSE next[w]
  <2>2. Goto(w, l) /\ UNCHANGED <<lock, next>> /\ Kept /\ pc[w] = "get"
    BY <1>5, <2>1 DEF ReleaseGet, root, LoginSent
  <2>3. l \in Location /\ next[w] \in {"acquire", "balance", "ready"}
    BY <1>0 DEF TypeOK, Location
  <2>4. pc'[w] = l
    BY <1>0, <2>2 DEF Goto, TypeOK
  <2>5. Undecided(w)' \/ ~Undecided(w)
    BY <2>2, <2>3, <2>4 DEF Undecided, Releasing
  <2>6. lock = w => l = "del"
    OBVIOUS
  <2>7. l \in {"get", "del"} /\ next'[w] = "ready" => Releasing(w, "ready")
    BY <2>2 DEF Releasing
  <2>8. QED
    <3>1. PICK k \in Location : k = l
      BY <2>3
    <3> HIDE DEF l
    <3>2. QED
      BY <1>0, <2>2, <2>5, <2>6, <2>7, <3>1, MoveKeeps
<1>6. CASE ReleaseDel(w, o)
  <2>1. o = "ok"
    BY <1>6, RedisCounts DEF ReleaseDel
  <2>2. Goto(w, next[w]) /\ lock' = None /\ UNCHANGED next /\ Kept /\ pc[w] = "del"
    BY <1>6, <2>1 DEF ReleaseDel, Executed, root, LoginSent
  <2>3. PICK k \in Location : k = next[w] /\ k \in {"acquire", "balance", "ready"}
    BY <1>0 DEF TypeOK, Location
  <2>4. pc'[w] = k
    BY <1>0, <2>2, <2>3 DEF Goto, TypeOK
  <2>5. Undecided(w)' \/ ~Undecided(w)
    BY <2>2, <2>3, <2>4 DEF Undecided, Releasing
  <2>6. QED
    BY <1>0, <2>2, <2>3, <2>5, MoveKeeps
<1>7. CASE AcquireLock(w, o)
  <2>1. o = "ok"
    BY <1>7, RedisCounts DEF AcquireLock
  <2>2. PICK k \in Location : k = IF lock = None THEN "sync" ELSE "acquire"
    BY DEF Location
  <2>3. Goto(w, k) /\ UNCHANGED next /\ Kept /\ pc[w] = "acquire"
    BY <1>7, <2>1, <2>2 DEF AcquireLock, root, LoginSent
  <2>4. lock' = IF lock = None THEN w ELSE lock
    BY <1>7, <2>1 DEF AcquireLock, SetNX, Executed
  <2>5. lock # w
    BY <2>3 DEF LoginInv, HoldersRelease
  <2>6. pc'[w] = k
    BY <1>0, <2>3 DEF Goto, TypeOK
  <2>7. Undecided(w)'
    BY <2>2, <2>6 DEF Undecided
  <2>8. QED
    BY <1>0, <2>2, <2>3, <2>4, <2>5, <2>7, MoveKeeps
<1>8. CASE TryLock(w, o)
  <2>1. o = "ok"
    BY <1>8, RedisCounts DEF TryLock
  <2>2. PICK k \in Location : k = IF lock = None THEN "login" ELSE "ready"
    BY DEF Location
  <2>3. Goto(w, k) /\ UNCHANGED next /\ Kept /\ pc[w] = "try"
    BY <1>8, <2>1, <2>2 DEF TryLock, root, LoginSent
  <2>4. lock' = IF lock = None THEN w ELSE lock
    BY <1>8, <2>1 DEF TryLock, SetNX, Executed
  <2>5. lock # w
    BY <2>3 DEF LoginInv, HoldersRelease
  <2>6. pc'[w] = k
    BY <1>0, <2>3 DEF Goto, TypeOK
  <2>7. CASE lock = None
    <3>1. Undecided(w)'
      BY <2>2, <2>6, <2>7 DEF Undecided
    <3>2. QED
      BY <1>0, <2>2, <2>3, <2>4, <2>5, <2>7, <3>1, MoveKeeps
  <2>8. CASE lock # None
    <3>1. PICK h \in Worker : lock = h /\ h # w
      BY <1>0, <2>5, <2>8 DEF TypeOK
    <3>2. pc[h] \in {"off", "get", "del", "sync", "login"} /\ next[h] \in {"acquire", "balance", "ready"}
      BY <1>0, <3>1 DEF LoginInv, HoldersRelease, TypeOK
    <3>3. Undecided(h) \/ Releasing(h, "ready")
      BY <3>2 DEF Undecided, Releasing
    <3>4. Undecided(h) \/ childNodes # {} \/ LoggingIn
      BY <3>3 DEF LoginInv, LoginFollowed, LoggingIn
    <3>5. QED
      BY <1>0, <2>2, <2>3, <2>4, <2>5, <2>8, <3>1, <3>4, MoveKeeps
  <2>9. QED
    BY <2>7, <2>8
<1>9. QED
  BY <1>1, <1>2, <1>3, <1>4, <1>5, <1>6, <1>7, <1>8 DEF InitLocal, InitStep

\* A worker that dies will go through init again.
LEMMA CrashLogin ==
  ASSUME TypeOK, LoginInv, NEW w \in Worker, Crash(w), toParent \in [Worker -> Seq(Message(acked))]
  PROVE  LoginInv'
<1>1. /\ pc'[w] = "off"
      /\ \A v \in Worker : v # w => pc'[v] = pc[v] /\ toParent'[v] = toParent[v]
      /\ UNCHANGED <<next, lock, childNodes>>
  BY DEF Crash, Goto, root, TypeOK
<1>2. HoldersRelease'
  BY <1>1 DEF LoginInv, HoldersRelease
<1>3. LoginFollowed'
  BY <1>1 DEF LoginInv, LoginFollowed, Releasing, LoginSent
<1>4. SomeoneWill'
  BY <1>1 DEF SomeoneWill, Undecided
<1>5. QED
  BY <1>2, <1>3, <1>4 DEF LoginInv

\* A step that leaves init alone and keeps every login on its way, or completes one.
LEMMA OthersKeep ==
  ASSUME LoginInv, UNCHANGED locking,
         \/ childNodes' # {}
         \/ UNCHANGED childNodes /\ \A v \in Worker : LoginSent(v) => LoginSent(v)'
  PROVE  LoginInv'
<1>1. HoldersRelease'
  BY DEF LoginInv, HoldersRelease, locking
<1>2. LoginFollowed'
  BY DEF LoginInv, LoginFollowed, Releasing, locking
<1>3. SomeoneWill'
  BY DEF LoginInv, SomeoneWill, LoggingIn, Undecided, Releasing, locking
<1>4. QED
  BY <1>1, <1>2, <1>3 DEF LoginInv

\* forward and handleLogin, without a failed command.
LEMMA MessageLogin ==
  ASSUME MessagesTyped, LoginInv, faults = 0, faults' = 0, NEW w \in Worker, NEW o \in Outcome,
         (\E tx \in Tx : HandleTransaction(w, tx, o)) \/ RootHandles(w, o)
  PROVE  LoginInv'
<1> USE DEF MessagesTyped
<1>1. ASSUME NEW tx \in Tx, HandleTransaction(w, tx, o)
      PROVE  LoginInv'
  <2>1. o = "ok"
    BY <1>1, RedisCounts DEF HandleTransaction
  <2>2. /\ Send(w, [type |-> "tx", tx |-> tx]) /\ UNCHANGED locking /\ UNCHANGED childNodes
    BY <1>1, <2>1 DEF HandleTransaction, root
  <2>3. PICK e \in Message(Tx) : e = [type |-> "tx", tx |-> tx]
    BY DEF Message, TxMessage
  <2>4. toParent[w] \in Seq(Message(Tx)) /\ toParent'[w] = Append(toParent[w], e)
    BY <2>2, <2>3, MessagesGrow DEF Send, TypeOK
  <2>5. LoginSent(w) => LoginSent(w)'
    BY <2>4, LoginAppended DEF LoginSent
  <2>6. \A v \in Worker : v # w => toParent'[v] = toParent[v]
    BY <2>2 DEF Send
  <2>7. \A v \in Worker : LoginSent(v) => LoginSent(v)'
    BY <2>5, <2>6 DEF LoginSent
  <2>8. QED
    BY <2>2, <2>7, OthersKeep
<1>2. CASE RootHandles(w, o)
  <2>1. o = "ok"
    BY <1>2, RedisCounts DEF RootHandles
  <2>2. /\ UNCHANGED locking /\ toParent[w] # <<>>
        /\ toParent' = [toParent EXCEPT ![w] = Tail(@)]
    BY <1>2 DEF RootHandles
  <2>3. CASE Head(toParent[w]).type = "login"
    <3>1. childNodes' # {}
      BY <1>2, <2>1, <2>3 DEF RootHandles, Executed
    <3>2. QED
      BY <2>2, <3>1, OthersKeep
  <2>4. CASE Head(toParent[w]).type # "login"
    <3>1. UNCHANGED childNodes
      BY <1>2, <2>4 DEF RootHandles
    <3>2. toParent'[w] = Tail(toParent[w]) /\ \A v \in Worker : v # w => toParent'[v] = toParent[v]
      BY <2>2
    <3>3. LoginSent(w) => LoginSent(w)'
      BY <2>2, <2>4, <3>2, LoginBehind DEF LoginSent
    <3>4. \A v \in Worker : LoginSent(v) => LoginSent(v)'
      BY <3>2, <3>3 DEF LoginSent
    <3>5. QED
      BY <2>2, <3>1, <3>4, OthersKeep
  <2>5. QED
    BY <2>3, <2>4
<1>3. QED
  BY <1>1, <1>2

-----------------------------------------------------------------------------
(* Theorem *)

\* Before the first worker starts, every worker has init ahead of it.
LEMMA MinerInvInit == Init => MinerInv
<1> SUFFICES ASSUME Init PROVE MinerInv
  OBVIOUS
<1>1. MessagesTyped
  BY MinerAssumption DEF Init, MessagesTyped, TypeOK
<1>2. HoldersRelease /\ LoginFollowed
  BY MinerAssumption DEF Init, HoldersRelease, LoginFollowed, Releasing
<1>3. SomeoneWill
  BY MinerAssumption DEF Init, SomeoneWill, Undecided
<1>4. QED
  BY <1>1, <1>2, <1>3 DEF MinerInv

\* Every step keeps the invariant.
LEMMA MinerInvStep == MinerInv /\ [Next]_vars => MinerInv'
<1> SUFFICES ASSUME MinerInv, [Next]_vars PROVE MinerInv'
  OBVIOUS
<1>1. /\ MessagesTyped /\ faults \in Nat /\ (faults = 0 => LoginInv) /\ TypeOK
      /\ UNCHANGED port
  BY DEF MinerInv, LoginInv, MessagesTyped, Next, vars
<1>2. SUFFICES MessagesTyped' /\ (faults' = 0 => LoginInv')
  BY DEF MinerInv, LoginInv
<1>3. ASSUME NEW w \in Worker, NEW o \in Outcome, InitLocal(w) \/ InitStep(w, o)
      PROVE  MessagesTyped' /\ (faults' = 0 => LoginInv')
  <2>1. faults' = 0 => faults = 0
    BY <1>1, <1>3, RedisCounts DEF InitLocal, InitStep, Start, SyncBlockChain, InitBalance, Login,
         ReleaseGet, ReleaseDel, AcquireLock, TryLock
  <2>2. QED
    BY <1>1, <1>3, <2>1, InitTypes, InitLogin
<1>4. ASSUME NEW w \in Worker, Crash(w) \/ Break(w)
      PROVE  MessagesTyped' /\ (faults' = 0 => LoginInv')
  <2>1. MessagesTyped' /\ "ok" \in Outcome
    BY <1>1, <1>4, InitTypes DEF Outcome
  <2>2. CASE Crash(w)
    BY <1>1, <2>1, <2>2, CrashLogin DEF Crash, MessagesTyped
  <2>3. CASE Break(w)
    BY <1>1, <2>1, <2>3 DEF Break
  <2>4. QED
    BY <1>4, <2>2, <2>3
<1>5. ASSUME NEW w \in Worker, NEW o \in Outcome,
             (\E tx \in Tx : HandleTransaction(w, tx, o)) \/ RootHandles(w, o)
      PROVE  MessagesTyped' /\ (faults' = 0 => LoginInv')
  <2>1. faults' = 0 => faults = 0
    BY <1>1, <1>5, RedisCounts DEF HandleTransaction, RootHandles
  <2>2. QED
    BY <1>1, <1>5, <2>1, MessageTypes, MessageLogin
<1>6. ASSUME NEW o \in Outcome, Broadcast(o)
      PROVE  MessagesTyped' /\ (faults' = 0 => LoginInv')
  <2>1. MessagesTyped' /\ (faults' = 0 => faults = 0)
    BY <1>1, <1>6, BlockTypes, RedisCounts DEF Broadcast
  <2>2. UNCHANGED <<locking, toParent, childNodes>>
    BY <1>6 DEF Broadcast
  <2>3. \A v \in Worker : LoginSent(v) => LoginSent(v)'
    BY <2>2 DEF LoginSent
  <2>4. QED
    BY <1>1, <2>1, <2>2, <2>3, OthersKeep
<1>7. ASSUME NEW b \in 1..MaxBlock, BlockArrives(hostport, b)
      PROVE  MessagesTyped' /\ (faults' = 0 => LoginInv')
  <2>1. MessagesTyped' /\ UNCHANGED <<locking, toParent, childNodes, faults>>
    BY <1>1, <1>7, BlockTypes DEF BlockArrives, Outcome
  <2>2. \A v \in Worker : LoginSent(v) => LoginSent(v)'
    BY <2>1 DEF LoginSent
  <2>3. QED
    BY <1>1, <2>1, <2>2, OthersKeep
<1>8. CASE UNCHANGED vars
  <2>1. UNCHANGED <<locking, toParent, root, received, acked, crashes, faults>>
    BY <1>8 DEF vars
  <2>2. MessagesTyped'
    BY <1>1, <2>1 DEF locking, root, MessagesTyped, TypeOK
  <2>3. UNCHANGED childNodes /\ \A v \in Worker : LoginSent(v) => LoginSent(v)'
    BY <2>1 DEF root, LoginSent
  <2>4. QED
    BY <1>1, <2>1, <2>2, <2>3, OthersKeep
<1>9. CASE \E w \in Worker : InitLocal(w) \/ Crash(w) \/ Break(w)
  <2>1. "ok" \in Outcome
    BY DEF Outcome
  <2>2. QED
    BY <1>3, <1>4, <1>9, <2>1
<1>10. CASE \E w \in Worker, o \in Outcome : InitStep(w, o) \/ RootHandles(w, o)
  BY <1>3, <1>5, <1>10
<1>11. CASE \E w \in Worker, tx \in Tx, o \in Outcome : HandleTransaction(w, tx, o)
  BY <1>5, <1>11
<1>12. QED
  BY <1>6, <1>7, <1>8, <1>9, <1>10, <1>11 DEF Next, Step

\* init, tryLock and releaseLock: once all workers of a node are up its login is on its
\* way or done, whichever worker died with the lock, for any number of workers and
\* crashes, as long as Redis and the connection to the parent do not fail.
THEOREM NodeLogsIn == Spec => []SomeoneLogsIn
<1>1. MinerInv => SomeoneLogsIn
  BY DEF MinerInv, MessagesTyped, SomeoneWill, SomeoneLogsIn, AllReady, Undecided, Releasing
<1>2. QED
  BY <1>1, MinerInvInit, MinerInvStep, PTL DEF Spec
=============================================================================
