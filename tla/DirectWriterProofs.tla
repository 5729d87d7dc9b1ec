------------------------- MODULE DirectWriterProofs -------------------------
(***************************************************************************)
(* Proofs about DirectWriter, for any set of addresses, any size of the    *)
(* output buffers and any number of faults.                                *)
(***************************************************************************)
EXTENDS DirectWriter, TLAPS

-----------------------------------------------------------------------------
(* Addresses *)

\* genSId and getAddressFromSId: quotient and remainder of a number put together from
\* two parts, the lower one smaller than the base.
LEMMA DivMod ==
  ASSUME NEW a \in Nat, NEW b \in Nat \ {0}, NEW r \in 0..b - 1
  PROVE  (a * b + r) \div b = a /\ (a * b + r) % b = r
<1> DEFINE x == a * b + r
<1>1. x \in Nat
  OBVIOUS
<1>2. x = b * (x \div b) + (x % b) /\ (x % b) \in 0..b - 1 /\ x \div b \in Int
  OBVIOUS
<1>3. QED
  OBVIOUS

\* getAddressFromSId: a multiple of a base is its quotient times the base.
LEMMA Multiple ==
  ASSUME NEW a \in Nat, NEW b \in Nat \ {0}, a % b = 0
  PROVE  a \div b \in Nat /\ a = (a \div b) * b
<1>1. a = b * (a \div b) + (a % b) /\ a \div b \in Int
  OBVIOUS
<1>2. QED
  BY <1>1

\* getAddressFromSId gives back the address that genSId was made of.
LEMMA AddressRoundTrip ==
  ASSUME NEW s \in Server, Addressable(s)
  PROVE  getAddressFromSId(genSId(s.ip, s.port)) = s
<1> DEFINE m == MaxPort + 1
           k == PortBase \div m
<1>1. /\ s.ip \in Nat /\ s.port \in Nat /\ s.port < m
      /\ PortBase \in Nat \ {0} /\ m \in Nat \ {0} /\ s = [ip |-> s.ip, port |-> s.port]
  BY WriterAssumption DEF Addressable
<1>2. k \in Nat /\ PortBase = k * m
  <2>1. PortBase % m = 0
    BY WriterAssumption
  <2>2. QED
    BY <1>1, <2>1, Multiple
<1>3. k >= 1 /\ m <= PortBase
  BY <1>1, <1>2
<1>4. (s.ip * PortBase + s.port) \div PortBase = s.ip
  BY <1>1, <1>3, DivMod
<1>5. s.ip * k \in Nat /\ s.ip * PortBase = (s.ip * k) * m
  BY <1>1, <1>2
<1>6. (s.ip * PortBase + s.port) % m = s.port
  BY <1>1, <1>5, DivMod
<1>7. QED
  BY <1>1, <1>4, <1>6 DEF genSId, getAddressFromSId

-----------------------------------------------------------------------------
(* The inductive invariant *)

Conn == [to : Server, state : {"connecting", "connected", "ended"},
         bEnable : BOOLEAN, queue : Seq(Server)]

SIdOf(s) == genSId(s.ip, s.port)

\* The connections, each within the limit of its output buffer.
ConnsTyped ==
  \A c \in DOMAIN connMap :
    c \in 0..CidBase - 1 /\ connMap[c] \in Conn /\ Len(connMap[c].queue) <= QueueSize

\* Every route is the sid of the server its connection goes to, and every connection
\* has a route.
RoutesExact ==
  /\ \A sid \in DOMAIN sid2cid :
       /\ sid2cid[sid] \in DOMAIN connMap
       /\ Addressable(connMap[sid2cid[sid]].to) /\ sid = SIdOf(connMap[sid2cid[sid]].to)
  /\ \A c \in DOMAIN connMap : \E sid \in DOMAIN sid2cid : sid2cid[sid] = c

\* A connection that was given up, by either side, is one that has failed.
FailuresKnown ==
  \A c \in DOMAIN connMap :
    ~connMap[c].bEnable \/ connMap[c].state = "ended" => connMap[c].to \in failed

CountersTyped ==
  /\ cid \in 0..CidBase - 1 /\ lazyDelIds \subseteq 0..CidBase - 1
  /\ alive \subseteq Server /\ faults \in 0..MaxFaults

\* What holds while the ids of the connections are their own.
WriterInv == ConnsTyped /\ RoutesExact /\ FailuresKnown /\ LossIsLocal /\ CountersTyped

\* Once ids have clashed only the types are left.
Inv == ConnsTyped /\ CountersTyped /\ (clash \/ WriterInv)

-----------------------------------------------------------------------------
(* The steps *)

\* The writer starts without connections.
LEMMA InitWriter == Init => Inv
<1> SUFFICES ASSUME Init PROVE Inv
  OBVIOUS
<1>1. DOMAIN sid2cid = {} /\ DOMAIN connMap = {}
  BY DEF Init, Empty
<1>2. CidBase \in Nat \ {0} /\ MaxFaults \in Nat
  BY WriterAssumption
<1>3. CountersTyped
  BY <1>2 DEF Init, CountersTyped
<1>4. QED
  BY <1>1, <1>3 DEF Init, Inv, WriterInv, ConnsTyped, RoutesExact, FailuresKnown, LossIsLocal

\* What a fault counts.
LEMMA FaultType ==
  ASSUME CountersTyped, NEW really \in BOOLEAN, Fault(really)
  PROVE  faults' \in 0..MaxFaults
BY WriterAssumption DEF CountersTyped, Fault

\* Dies: the next process starts as the first one did, except for what was lost.
LEMMA DiesStep ==
  ASSUME WriterInv, NEW others, Dies(others), faults' \in 0..MaxFaults, UNCHANGED alive
  PROVE  WriterInv'
<1>1. /\ DOMAIN sid2cid' = {} /\ DOMAIN connMap' = {} /\ cid' = 0 /\ lazyDelIds' = {}
      /\ died' = TRUE
  BY DEF Dies, Empty
<1>2. CidBase \in Nat \ {0}
  BY WriterAssumption
<1>3. CountersTyped'
  BY <1>1, <1>2 DEF WriterInv, CountersTyped
<1>4. QED
  BY <1>1, <1>3 DEF WriterInv, ConnsTyped, RoutesExact, FailuresKnown, LossIsLocal

\* A step of the connections that are there: their servers stay the same.
LEMMA ConnStep ==
  ASSUME WriterInv, UNCHANGED sid2cid, DOMAIN connMap' = DOMAIN connMap,
         \A c \in DOMAIN connMap :
           /\ connMap'[c] \in Conn /\ connMap'[c].to = connMap[c].to
           /\ Len(connMap'[c].queue) <= QueueSize
  PROVE  ConnsTyped' /\ RoutesExact'
<1>1. ConnsTyped'
  BY DEF WriterInv, ConnsTyped
<1>2. RoutesExact'
  BY DEF WriterInv, RoutesExact
<1>3. QED
  BY <1>1, <1>2

\* eraseConnection and doEvent: with a connection go all its routes, and no others.
LEMMA EraseStep ==
  ASSUME WriterInv, NEW gone \in SUBSET DOMAIN connMap,
         sid2cid' = Without(sid2cid, {sid \in DOMAIN sid2cid : sid2cid[sid] \in gone}),
         connMap' = Without(connMap, gone), failed \subseteq failed'
  PROVE  ConnsTyped' /\ RoutesExact' /\ FailuresKnown'
<1>1. /\ DOMAIN connMap' = DOMAIN connMap \ gone
      /\ \A c \in DOMAIN connMap' : connMap'[c] = connMap[c]
  BY DEF Without, Restrict
<1>2. /\ DOMAIN sid2cid' = {sid \in DOMAIN sid2cid : sid2cid[sid] \notin gone}
      /\ \A sid \in DOMAIN sid2cid' : sid2cid'[sid] = sid2cid[sid]
  BY DEF Without, Restrict
<1>3. ConnsTyped'
  BY <1>1 DEF WriterInv, ConnsTyped
<1>4. RoutesExact'
  <2>1. ASSUME NEW sid \in DOMAIN sid2cid'
        PROVE  /\ sid2cid'[sid] \in DOMAIN connMap'
               /\ connMap'[sid2cid'[sid]].to = connMap[sid2cid[sid]].to
    BY <1>1, <1>2 DEF WriterInv, RoutesExact
  <2>2. \A c \in DOMAIN connMap' : \E sid \in DOMAIN sid2cid' : sid2cid'[sid] = c
    BY <1>1, <1>2 DEF WriterInv, RoutesExact
  <2>3. QED
    BY <1>2, <2>1, <2>2 DEF WriterInv, RoutesExact, SIdOf, genSId, Addressable
<1>5. FailuresKnown'
  BY <1>1 DEF WriterInv, FailuresKnown
<1>6. QED
  BY <1>3, <1>4, <1>5

\* dispatch to a server with a route: the connection goes to that server.
LEMMA RouteTo ==
  ASSUME WriterInv, NEW s \in Server, Routed(s)
  PROVE  Route(s) \in DOMAIN connMap /\ connMap[Route(s)].to = s
<1> DEFINE sid == SIdOf(s)
           t == connMap[sid2cid[sid]].to
<1>1. sid \in DOMAIN sid2cid /\ Addressable(s) /\ Route(s) = sid2cid[sid]
  BY DEF Routed, Route, SIdOf
<1>2. sid2cid[sid] \in DOMAIN connMap /\ Addressable(t) /\ sid = SIdOf(t) /\ t \in Server
  BY <1>1 DEF WriterInv, RoutesExact, ConnsTyped, Conn
<1>3. getAddressFromSId(sid) = s /\ getAddressFromSId(sid) = t
  BY <1>1, <1>2, AddressRoundTrip DEF SIdOf
<1>4. QED
  BY <1>1, <1>2, <1>3

\* dispatchById: the message is in the output buffer of the connection to its server.
LEMMA DispatchByIdStep ==
  ASSUME WriterInv, NEW s \in Server, DispatchById(s)
  PROVE  WriterInv'
<1> DEFINE c == Route(s)
<1>1. /\ c \in DOMAIN connMap /\ connMap[c].to = s /\ connMap[c] \in Conn
      /\ Len(connMap[c].queue) < QueueSize
  BY RouteTo DEF DispatchById, WriterInv, ConnsTyped
<1>2. /\ connMap' = [connMap EXCEPT ![c] = [connMap[c] EXCEPT !.queue = Append(connMap[c].queue, s)]]
      /\ UNCHANGED <<sid2cid, cid, lazyDelIds, alive, failed, faults>> /\ lost' = {}
  BY DEF DispatchById, Lose
<1> DEFINE new == [connMap[c] EXCEPT !.queue = Append(connMap[c].queue, s)]
<1>3. /\ connMap[c].queue \in Seq(Server) /\ Len(connMap[c].queue) \in Nat
      /\ Append(connMap[c].queue, s) \in Seq(Server)
      /\ Len(Append(connMap[c].queue, s)) <= QueueSize
  BY <1>1, WriterAssumption DEF Conn
<1>4. /\ new \in Conn /\ new.to = connMap[c].to /\ new.state = connMap[c].state
      /\ new.bEnable = connMap[c].bEnable /\ Len(new.queue) <= QueueSize
  BY <1>1, <1>3 DEF Conn
<1> HIDE DEF c, new
<1>5. /\ DOMAIN connMap' = DOMAIN connMap
      /\ \A d \in DOMAIN connMap : connMap'[d] = IF d = c THEN new ELSE connMap[d]
  BY <1>2 DEF new
<1>6. ConnsTyped' /\ RoutesExact'
  BY <1>2, <1>4, <1>5, ConnStep DEF WriterInv, ConnsTyped
<1>7. FailuresKnown'
  BY <1>2, <1>4, <1>5 DEF WriterInv, FailuresKnown
<1>8. QED
  BY <1>2, <1>6, <1>7 DEF WriterInv, LossIsLocal, CountersTyped

\* A send that throws disables a connection, and its server is known to have failed.
LEMMA DispatchThrowsStep ==
  ASSUME WriterInv, NEW s \in Server, NEW overflow \in BOOLEAN, DispatchThrows(s, overflow)
  PROVE  WriterInv'
<1> DEFINE c == Route(s)
           new == [connMap[c] EXCEPT !.bEnable = FALSE]
<1>1. c \in DOMAIN connMap /\ connMap[c].to = s /\ connMap[c] \in Conn
  BY RouteTo DEF DispatchThrows, WriterInv, ConnsTyped
<1>2. /\ connMap' = [connMap EXCEPT ![c] = new] /\ UNCHANGED <<sid2cid, cid, alive>>
      /\ lazyDelIds' = lazyDelIds \union {c}
      /\ failed' = failed \union {s} /\ lost' \subseteq {s} /\ Fault(overflow)
  BY DEF DispatchThrows, Lose
<1>3. /\ new \in Conn /\ new.to = connMap[c].to /\ new.queue = connMap[c].queue
  BY <1>1 DEF Conn
<1> HIDE DEF c, new
<1>4. /\ DOMAIN connMap' = DOMAIN connMap
      /\ \A d \in DOMAIN connMap : connMap'[d] = IF d = c THEN new ELSE connMap[d]
  BY <1>2
<1>5. ConnsTyped' /\ RoutesExact'
  BY <1>1, <1>2, <1>3, <1>4, ConnStep DEF WriterInv, ConnsTyped
<1>6. FailuresKnown'
  BY <1>1, <1>2, <1>3, <1>4 DEF WriterInv, FailuresKnown
<1>7. CountersTyped'
  BY <1>1, <1>2, FaultType DEF WriterInv, CountersTyped, ConnsTyped
<1>8. QED
  BY <1>2, <1>5, <1>6, <1>7 DEF WriterInv, LossIsLocal

\* connectServer: a connection and the route to it, under an id of its own unless the
\* ids clash.
LEMMA ConnectServerStep ==
  ASSUME WriterInv, NEW s \in Server, NEW state \in {"connecting", "connected"},
         NEW q \in Seq(Server), Len(q) <= QueueSize, Addressable(s), ~Routed(s),
         connectServer(s, state, q), faults' \in 0..MaxFaults, UNCHANGED alive,
         failed \subseteq failed', lost' \subseteq failed'
  PROVE  Inv'
<1> DEFINE c == NextCid
           new == [to |-> s, state |-> state, bEnable |-> TRUE, queue |-> q]
           sid == SIdOf(s)
<1>1. c \in 0..CidBase - 1
  BY WriterAssumption DEF NextCid, WriterInv, CountersTyped
<1>2. /\ sid \notin DOMAIN sid2cid /\ UNCHANGED lazyDelIds
      /\ cid' = c /\ connMap' = With(connMap, c, new) /\ sid2cid' = With(sid2cid, sid, c)
      /\ clash' = (clash \/ c \in DOMAIN connMap)
  BY DEF connectServer, Routed, SIdOf
<1>3. /\ new \in Conn /\ new.to = s /\ Len(new.queue) <= QueueSize
      /\ new.bEnable = TRUE /\ new.state # "ended"
  BY DEF Conn
<1> HIDE DEF c, new, sid
<1>4. /\ DOMAIN connMap' = DOMAIN connMap \union {c}
      /\ \A d \in DOMAIN connMap' : connMap'[d] = IF d = c THEN new ELSE connMap[d]
      /\ DOMAIN sid2cid' = DOMAIN sid2cid \union {sid}
      /\ \A x \in DOMAIN sid2cid' : sid2cid'[x] = IF x = sid THEN c ELSE sid2cid[x]
  BY <1>2 DEF With
<1>5. ConnsTyped'
  BY <1>1, <1>3, <1>4 DEF WriterInv, ConnsTyped
<1>6. CountersTyped'
  BY <1>1, <1>2 DEF WriterInv, CountersTyped
<1>7. ASSUME c \notin DOMAIN connMap PROVE RoutesExact'
  <2>1. ASSUME NEW x \in DOMAIN sid2cid'
        PROVE  /\ sid2cid'[x] \in DOMAIN connMap'
               /\ Addressable(connMap'[sid2cid'[x]].to) /\ x = SIdOf(connMap'[sid2cid'[x]].to)
    <3>1. CASE x = sid
      BY <1>2, <1>3, <1>4, <3>1 DEF sid
    <3>2. CASE x # sid
      BY <1>4, <1>7, <3>2 DEF WriterInv, RoutesExact
    <3>3. QED
      BY <3>1, <3>2
  <2>2. ASSUME NEW d \in DOMAIN connMap' PROVE \E x \in DOMAIN sid2cid' : sid2cid'[x] = d
    <3>1. CASE d = c
      BY <1>4, <3>1
    <3>2. CASE d # c
      <4>1. PICK x \in DOMAIN sid2cid : sid2cid[x] = d
        BY <1>4, <3>2 DEF WriterInv, RoutesExact
      <4>2. QED
        BY <1>2, <1>4, <4>1
    <3>3. QED
      BY <3>1, <3>2
  <2>3. QED
    BY <2>1, <2>2 DEF RoutesExact, SIdOf, Addressable
<1>8. FailuresKnown'
  BY <1>3, <1>4 DEF WriterInv, FailuresKnown
<1>9. LossIsLocal'
  BY DEF LossIsLocal
<1>10. CASE c \notin DOMAIN connMap
  BY <1>5, <1>6, <1>7, <1>8, <1>9, <1>10 DEF Inv, WriterInv
<1>11. CASE c \in DOMAIN connMap
  BY <1>2, <1>5, <1>6, <1>11 DEF Inv
<1>12. QED
  BY <1>10, <1>11

\* dispatch to a server without a route, and sends that throw past the writer.
LEMMA DispatchNewStep ==
  ASSUME WriterInv, NEW s \in Server, NEW state \in {"connecting", "connected"},
         NEW rest \in SUBSET Server,
         DispatchNew(s, state) \/ DispatchNewThrows(s, state, rest) \/ SendToThrows(s, rest)
  PROVE  Inv'
<1>1. QueueSize \in Nat \ {0}
  BY WriterAssumption
<1>2. CASE DispatchNew(s, state)
  <2>1. /\ Addressable(s) /\ ~Routed(s) /\ connectServer(s, state, <<s>>)
        /\ UNCHANGED <<alive, failed, faults>> /\ lost' = {}
    BY <1>2 DEF DispatchNew, Lose
  <2>2. <<s>> \in Seq(Server) /\ Len(<<s>>) <= QueueSize
    BY <1>1
  <2>3. faults' \in 0..MaxFaults
    BY <2>1 DEF WriterInv, CountersTyped
  <2>4. QED
    BY <2>1, <2>2, <2>3, ConnectServerStep
<1>3. ASSUME WriterInv' PROVE Inv'
  BY <1>3 DEF Inv, WriterInv
<1>4. CASE DispatchNewThrows(s, state, rest)
  <2>1. Addressable(s) /\ ~Routed(s) /\ UNCHANGED alive /\ faults' \in 0..MaxFaults
    BY <1>4, FaultType DEF DispatchNewThrows, Escapes, WriterInv
  <2>2. CASE Dies(rest \union {s})
    BY <1>3, <2>1, <2>2, DiesStep
  <2>3. CASE /\ connectServer(s, state, <<>>) /\ failed' = failed \union {s} /\ Lose({s})
    <3>1. <<>> \in Seq(Server) /\ Len(<<>>) <= QueueSize
      BY <1>1
    <3>2. failed \subseteq failed' /\ lost' \subseteq failed'
      BY <2>3 DEF Lose
    <3>3. QED
      BY <2>1, <2>3, <3>1, <3>2, ConnectServerStep
  <2>4. QED
    BY <1>4, <2>2, <2>3 DEF DispatchNewThrows, Escapes
<1>5. CASE SendToThrows(s, rest)
  <2>1. UNCHANGED alive /\ faults' \in 0..MaxFaults /\ s \in Garbled
    BY <1>5, FaultType DEF SendToThrows, Escapes, WriterInv
  <2>2. CASE Dies(rest \union {s})
    BY <1>3, <2>1, <2>2, DiesStep
  <2>3. CASE UNCHANGED <<maps, failed, clash>> /\ Lose({s})
    <3>1. lost' = {}
      BY <2>1, <2>3 DEF Lose, Addressable
    <3>2. WriterInv'
      BY <2>1, <2>3, <3>1 DEF WriterInv, ConnsTyped, RoutesExact, FailuresKnown, LossIsLocal,
                              CountersTyped, maps
    <3>3. QED
      BY <1>3, <3>2
  <2>4. QED
    BY <1>5, <2>2, <2>3 DEF SendToThrows, Escapes
<1>6. QED
  BY <1>2, <1>4, <1>5

\* A message that is dropped without a connection of its own, or on a disabled one.
LEMMA DispatchLostStep ==
  ASSUME WriterInv, NEW s \in Server,
         SendToNobody(s) \/ DispatchDropped(s) \/ DispatchNoConn(s)
  PROVE  WriterInv'
<1>1. UNCHANGED <<sid2cid, connMap, cid, lazyDelIds, alive>>
  BY DEF SendToNobody, DispatchDropped, DispatchNoConn, maps
<1>2. failed \subseteq failed' /\ lost' \subseteq failed' /\ faults' \in 0..MaxFaults
  <2>1. CASE DispatchDropped(s)
    <3>1. Routed(s)
      BY <2>1 DEF DispatchDropped
    <3>2. Route(s) \in DOMAIN connMap /\ connMap[Route(s)].to = s /\ ~connMap[Route(s)].bEnable
      BY <2>1, <3>1, RouteTo DEF DispatchDropped
    <3>3. QED
      BY <2>1, <3>2 DEF WriterInv, FailuresKnown, CountersTyped, DispatchDropped, Lose
  <2>2. CASE SendToNobody(s)
    BY <2>2 DEF SendToNobody, WriterInv, CountersTyped, Lose
  <2>3. CASE DispatchNoConn(s)
    BY <2>3, FaultType DEF DispatchNoConn, WriterInv, Lose
  <2>4. QED
    BY <2>1, <2>2, <2>3
<1>3. QED
  BY <1>1, <1>2 DEF WriterInv, ConnsTyped, RoutesExact, FailuresKnown, LossIsLocal, CountersTyped

\* onConnected, a delivery, and the end of connections by the peer or with its process.
LEMMA PeerStep ==
  ASSUME WriterInv,
         \/ \E c \in DOMAIN connMap : OnConnected(c) \/ Deliver(c) \/ PeerCloses(c)
         \/ \E s \in Server : Crash(s)
  PROVE  WriterInv'
<1>1. ASSUME NEW c \in DOMAIN connMap, OnConnected(c) PROVE WriterInv'
  <2> DEFINE new == [connMap[c] EXCEPT !.state = "connected"]
  <2>1. connMap[c] \in Conn
    BY DEF WriterInv, ConnsTyped
  <2>2. /\ new \in Conn /\ new.to = connMap[c].to /\ new.state # "ended"
        /\ new.bEnable = connMap[c].bEnable /\ new.queue = connMap[c].queue
    BY <2>1 DEF Conn
  <2>3. /\ connMap' = [connMap EXCEPT ![c] = new]
        /\ UNCHANGED <<sid2cid, cid, lazyDelIds, alive, failed, faults>> /\ lost' = {}
    BY <1>1 DEF OnConnected, Lose
  <2> HIDE DEF new
  <2>4. /\ DOMAIN connMap' = DOMAIN connMap
        /\ \A d \in DOMAIN connMap : connMap'[d] = IF d = c THEN new ELSE connMap[d]
    BY <2>3
  <2>5. ConnsTyped' /\ RoutesExact'
    BY <2>2, <2>3, <2>4, ConnStep DEF WriterInv, ConnsTyped
  <2>6. FailuresKnown'
    BY <2>2, <2>3, <2>4 DEF WriterInv, FailuresKnown
  <2>7. QED
    BY <2>3, <2>5, <2>6 DEF WriterInv, LossIsLocal, CountersTyped
<1>2. ASSUME NEW c \in DOMAIN connMap, Deliver(c) PROVE WriterInv'
  <2> DEFINE new == [connMap[c] EXCEPT !.queue = Tail(connMap[c].queue)]
  <2>1. connMap[c] \in Conn /\ Len(connMap[c].queue) <= QueueSize /\ connMap[c].queue # <<>>
    BY <1>2 DEF WriterInv, ConnsTyped, Deliver
  <2>2. /\ Tail(connMap[c].queue) \in Seq(Server)
        /\ Len(Tail(connMap[c].queue)) <= QueueSize
    BY <2>1, WriterAssumption DEF Conn
  <2>3. /\ new \in Conn /\ new.to = connMap[c].to /\ new.state = connMap[c].state
        /\ new.bEnable = connMap[c].bEnable /\ Len(new.queue) <= QueueSize
    BY <2>1, <2>2 DEF Conn
  <2>4. /\ connMap' = [connMap EXCEPT ![c] = new]
        /\ UNCHANGED <<sid2cid, cid, lazyDelIds, alive, failed, faults>> /\ lost' = {}
    BY <1>2 DEF Deliver, Lose
  <2> HIDE DEF new
  <2>5. /\ DOMAIN connMap' = DOMAIN connMap
        /\ \A d \in DOMAIN connMap : connMap'[d] = IF d = c THEN new ELSE connMap[d]
    BY <2>4
  <2>6. ConnsTyped' /\ RoutesExact'
    BY <2>3, <2>4, <2>5, ConnStep DEF WriterInv, ConnsTyped
  <2>7. FailuresKnown'
    BY <2>3, <2>4, <2>5 DEF WriterInv, FailuresKnown
  <2>8. QED
    BY <2>4, <2>6, <2>7 DEF WriterInv, LossIsLocal, CountersTyped
<1>3. ASSUME NEW cs \in SUBSET DOMAIN connMap, connMap' = Ended(cs),
             UNCHANGED <<sid2cid, cid, lazyDelIds>>, lost' = {}, failed \subseteq failed',
             \A c \in cs : connMap[c].to \in failed', alive' \subseteq Server, Fault(TRUE)
      PROVE  WriterInv'
  <2>1. /\ DOMAIN connMap' = DOMAIN connMap
        /\ \A d \in DOMAIN connMap :
             connMap'[d] = IF d \in cs THEN [connMap[d] EXCEPT !.state = "ended"] ELSE connMap[d]
    BY <1>3 DEF Ended
  <2>2. ASSUME NEW d \in DOMAIN connMap
        PROVE  /\ connMap'[d] \in Conn /\ connMap'[d].to = connMap[d].to
               /\ Len(connMap'[d].queue) <= QueueSize
               /\ ~connMap'[d].bEnable \/ connMap'[d].state = "ended" => connMap'[d].to \in failed'
    <3>1. /\ connMap[d] \in Conn /\ Len(connMap[d].queue) <= QueueSize
          /\ ~connMap[d].bEnable \/ connMap[d].state = "ended" => connMap[d].to \in failed
      BY DEF WriterInv, ConnsTyped, FailuresKnown
    <3>2. CASE d \in cs
      <4>1. connMap'[d] = [connMap[d] EXCEPT !.state = "ended"]
        BY <2>1, <3>2
      <4>2. connMap[d].to \in failed'
        BY <1>3, <3>2
      <4>3. QED
        BY <3>1, <4>1, <4>2 DEF Conn
    <3>3. CASE d \notin cs
      <4>1. connMap'[d] = connMap[d]
        BY <2>1, <3>3
      <4>2. QED
        BY <1>3, <3>1, <4>1
    <3>4. QED
      BY <3>2, <3>3
  <2>3. ConnsTyped' /\ RoutesExact'
    BY <1>3, <2>1, <2>2, ConnStep
  <2>4. FailuresKnown'
    BY <2>1, <2>2 DEF FailuresKnown
  <2>5. CountersTyped'
    BY <1>3, FaultType DEF WriterInv, CountersTyped
  <2>6. QED
    BY <1>3, <2>3, <2>4, <2>5 DEF WriterInv, LossIsLocal
<1>4. ASSUME NEW c \in DOMAIN connMap, PeerCloses(c) PROVE WriterInv'
  <2>1. {c} \in SUBSET DOMAIN connMap /\ alive' \subseteq Server
    BY <1>4 DEF PeerCloses, WriterInv, CountersTyped
  <2>2. QED
    BY <1>3, <1>4, <2>1 DEF PeerCloses, Lose
<1>5. ASSUME NEW s \in Server, Crash(s) PROVE WriterInv'
  <2> DEFINE cs == {c \in DOMAIN connMap : connMap[c].to = s /\ connMap[c].state = "connected"}
  <2>1. cs \in SUBSET DOMAIN connMap /\ \A c \in cs : connMap[c].to = s
    OBVIOUS
  <2>2. /\ connMap' = Ended(cs) /\ failed' = failed \union {s} /\ Fault(TRUE)
        /\ UNCHANGED <<sid2cid, cid, lazyDelIds>> /\ lost' = {} /\ alive' \subseteq Server
    BY <1>5 DEF Crash, WriterInv, CountersTyped, Lose
  <2> HIDE DEF cs
  <2>3. QED
    BY <1>3, <2>1, <2>2
<1>6. QED
  BY <1>1, <1>2, <1>4, <1>5

\* onError, onClose and the deletions of the timer: what is lost in the buffer of such a
\* connection was for a server known to have failed, or the process has ended.
LEMMA EraseConnStep ==
  ASSUME WriterInv,
         \/ DoEvent
         \/ \E c \in DOMAIN connMap :
              \/ OnConnectedThrows(c)
              \/ \E dies \in BOOLEAN : ConnectFails(c, dies) \/ OnReadClosed(c, dies)
  PROVE  WriterInv'
<1>1. ASSUME NEW gone \in SUBSET DOMAIN connMap, failed \subseteq failed',
             sid2cid' = Without(sid2cid, {sid \in DOMAIN sid2cid : sid2cid[sid] \in gone}),
             connMap' = Without(connMap, gone), \A c \in gone : connMap[c].to \in failed',
             lost' \subseteq {connMap[c].to : c \in gone},
             lazyDelIds' \subseteq lazyDelIds, UNCHANGED <<cid, alive, faults>>
      PROVE  WriterInv'
  <2>1. ConnsTyped' /\ RoutesExact' /\ FailuresKnown'
    BY <1>1, EraseStep
  <2>2. LossIsLocal'
    BY <1>1 DEF LossIsLocal
  <2>3. CountersTyped'
    BY <1>1 DEF WriterInv, CountersTyped
  <2>4. QED
    BY <2>1, <2>2, <2>3 DEF WriterInv
<1>2. ASSUME NEW c \in DOMAIN connMap, NEW dies \in BOOLEAN, Erased(c, dies), UNCHANGED alive
      PROVE  WriterInv'
  <2>1. faults' \in 0..MaxFaults
    BY <1>2, FaultType DEF Erased, WriterInv
  <2>2. CASE dies
    BY <1>2, <2>1, <2>2, DiesStep DEF Erased
  <2>3. CASE ~dies
    <3>1. /\ sid2cid' = Without(sid2cid, {sid \in DOMAIN sid2cid : sid2cid[sid] = c})
          /\ connMap' = Without(connMap, {c})
          /\ UNCHANGED <<cid, lazyDelIds, faults>>
          /\ lost' \subseteq {connMap[d].to : d \in {c}}
      BY <1>2, <2>3 DEF Erased, eraseConnection, Lose, Queued, Fault
    <3>2. failed' = failed \union {connMap[c].to}
      BY <1>2, <2>3 DEF Erased
    <3>3. /\ {sid \in DOMAIN sid2cid : sid2cid[sid] = c}
               = {sid \in DOMAIN sid2cid : sid2cid[sid] \in {c}}
          /\ {c} \in SUBSET DOMAIN connMap
      OBVIOUS
    <3>4. QED
      BY <1>1, <1>2, <3>1, <3>2, <3>3
  <2>4. QED
    BY <2>2, <2>3
<1>3. CASE DoEvent
  <2> DEFINE gone == {c \in lazyDelIds \intersect DOMAIN connMap : ~connMap[c].bEnable}
  <2>1. gone \in SUBSET DOMAIN connMap /\ \A c \in gone : connMap[c].to \in failed
    BY DEF WriterInv, FailuresKnown
  <2>2. /\ sid2cid' = Without(sid2cid, {sid \in DOMAIN sid2cid : sid2cid[sid] \in gone})
        /\ connMap' = Without(connMap, gone) /\ Lose(Queued(gone))
        /\ lazyDelIds' = {} /\ UNCHANGED <<cid, alive, failed, faults>>
    BY <1>3 DEF DoEvent
  <2> HIDE DEF gone
  <2>3. lost' \subseteq {connMap[c].to : c \in gone}
    BY <2>2 DEF Lose, Queued
  <2>4. QED
    BY <1>1, <2>1, <2>2, <2>3
<1>4. ASSUME NEW c \in DOMAIN connMap, OnConnectedThrows(c) PROVE WriterInv'
  <2>1. Dies({}) /\ UNCHANGED alive /\ faults' \in 0..MaxFaults
    BY <1>4, FaultType DEF OnConnectedThrows, WriterInv
  <2>2. QED
    BY <2>1, DiesStep
<1>5. ASSUME NEW c \in DOMAIN connMap, NEW dies \in BOOLEAN,
             ConnectFails(c, dies) \/ OnReadClosed(c, dies)
      PROVE  WriterInv'
  <2>1. Erased(c, dies) /\ UNCHANGED alive
    BY <1>5 DEF ConnectFails, OnReadClosed
  <2>2. QED
    BY <1>2, <2>1
<1>6. QED
  BY <1>3, <1>4, <1>5

\* Every step of the writer, its connections and its servers keeps Inv.
LEMMA NextWriter == Inv /\ [Next]_vars => Inv'
<1> SUFFICES ASSUME Inv, [Next]_vars PROVE Inv'
  OBVIOUS
<1>1. CASE UNCHANGED vars
  BY <1>1 DEF vars, maps, Inv, WriterInv, ConnsTyped, RoutesExact, FailuresKnown, LossIsLocal,
              CountersTyped
<1>2. CASE clash
  <2>1. UNCHANGED vars
    BY <1>2 DEF Next, Clashed
  <2>2. QED
    BY <1>1, <2>1
<1>3. ASSUME ~clash, Next PROVE Inv'
  <2>1. WriterInv
    BY <1>3 DEF Inv
  <2>2. ASSUME WriterInv' PROVE Inv'
    BY <2>2 DEF Inv, WriterInv
  <2>3. ASSUME NEW s \in Server, SendTo(s) PROVE Inv'
    <3>1. ASSUME Dispatch(s) PROVE Inv'
      <4>1. CASE \E state \in {"connecting", "connected"} : DispatchNew(s, state)
        BY <2>1, <4>1, DispatchNewStep
      <4>2. CASE \E overflow \in BOOLEAN : DispatchThrows(s, overflow)
        BY <2>1, <2>2, <4>2, DispatchThrowsStep
      <4>3. CASE DispatchById(s) \/ DispatchDropped(s) \/ DispatchNoConn(s)
        BY <2>1, <2>2, <4>3, DispatchByIdStep, DispatchLostStep
      <4>4. QED
        BY <3>1, <4>1, <4>2, <4>3 DEF Dispatch
    <3>2. CASE SendToNobody(s)
      BY <2>1, <2>2, <3>2, DispatchLostStep
    <3>3. ASSUME NEW rest \in SUBSET (Server \ {s}),
                 \/ SendToThrows(s, rest)
                 \/ \E state \in {"connecting", "connected"} : DispatchNewThrows(s, state, rest)
          PROVE  Inv'
      <4>1. rest \in SUBSET Server /\ "connected" \in {"connecting", "connected"}
        OBVIOUS
      <4>2. QED
        BY <2>1, <3>3, <4>1, DispatchNewStep
    <3>4. QED
      BY <2>3, <3>1, <3>2, <3>3 DEF SendTo
  <2>4. ASSUME NEW s \in Server, Restart(s) PROVE Inv'
    <3>1. WriterInv'
      BY <2>1, <2>4 DEF Restart, Lose, maps, WriterInv, ConnsTyped, RoutesExact, FailuresKnown,
                        LossIsLocal, CountersTyped
    <3>2. QED
      BY <2>2, <3>1
  <2>5. CASE \/ \E s \in Server : Crash(s)
             \/ \E c \in DOMAIN connMap : OnConnected(c) \/ Deliver(c) \/ PeerCloses(c)
    BY <2>1, <2>2, <2>5, PeerStep
  <2>6. CASE \/ DoEvent
             \/ \E c \in DOMAIN connMap :
                  \/ OnConnectedThrows(c)
                  \/ \E dies \in BOOLEAN : ConnectFails(c, dies) \/ OnReadClosed(c, dies)
    BY <2>1, <2>2, <2>6, EraseConnStep
  <2>7. QED
    BY <1>1, <1>3, <2>3, <2>4, <2>5, <2>6 DEF Next, Poll, Clashed
<1>4. QED
  BY <1>1, <1>2, <1>3

\* The invariant says what RoutesConsistent says, by the round trip of addresses.
LEMMA InvRoutes == Inv => RoutesConsistent /\ LossIsLocal
<1> SUFFICES ASSUME Inv PROVE RoutesConsistent /\ LossIsLocal
  OBVIOUS
<1>1. TypeOK
  BY DEF Inv, ConnsTyped, Conn, CountersTyped, TypeOK
<1>2. CASE clash
  BY <1>1, <1>2 DEF RoutesConsistent, LossIsLocal
<1>3. CASE WriterInv
  <2>1. \A sid \in DOMAIN sid2cid :
          sid2cid[sid] \in DOMAIN connMap /\ connMap[sid2cid[sid]].to = getAddressFromSId(sid)
    BY <1>3, AddressRoundTrip DEF WriterInv, RoutesExact, ConnsTyped, Conn, SIdOf
  <2>2. DOMAIN connMap = {sid2cid[sid] : sid \in DOMAIN sid2cid}
    BY <1>3 DEF WriterInv, RoutesExact
  <2>3. IsInjective(sid2cid)
    BY <1>3 DEF WriterInv, RoutesExact, IsInjective
  <2>4. QED
    BY <1>1, <1>3, <2>1, <2>2, <2>3 DEF RoutesConsistent, WriterInv
<1>4. QED
  BY <1>2, <1>3 DEF Inv

\* connectServer and eraseConnection: every route leads to a connection that exists and
\* goes to the address its sid stands for, and no connection is without a route, for
\* any number of servers and faults, as long as ++cid does not come round to the id of
\* a connection that lives.
THEOREM RoutesStayConsistent == Spec => []RoutesConsistent
BY InitWriter, NextWriter, InvRoutes, PTL DEF Spec

\* dispatchById, eraseConnection and doEvent: a step that does not end the process loses a
\* message only of a server to which a connection or a connect has failed, for any
\* number of servers and faults, as long as ids do not clash.
THEOREM LossStaysLocal == Spec => []LossIsLocal
BY InitWriter, NextWriter, InvRoutes, PTL DEF Spec
=============================================================================
