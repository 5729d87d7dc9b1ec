---------------------------- MODULE DirectWriter ----------------------------
(***************************************************************************)
(* How a worker reaches other servers: DirectWriter (sendTo, route,        *)
(* dispatch, connectServer, eraseConnection) over MultiConnManager and     *)
(* LazyDelConnManager, ConnFactory::createConnection, and what the         *)
(* connections it makes go through.  A connection is a queue of messages   *)
(* (LossyFifo; FrameChannel shows that it is one).                         *)
(***************************************************************************)
EXTENDS Integers, Sequences, Functions

CONSTANTS
  Server,        \* the addresses: records [ip, port], as sendTo takes them apart
  Garbled,       \* those of them whose port is no number
  PortBase,      \* 2^32: where the ip starts in a sid_t
  MaxPort,       \* 65535
  CidBase,       \* 2^32: the values of a cid_t
  QueueSize,     \* bound: messages queued on a connection
  MaxFaults      \* bound: crashes of servers, ended and failed connections, and
                 \* deaths of the process

ASSUME WriterAssumption ==
  /\ PortBase \in Nat \ {0} /\ MaxPort \in Nat /\ PortBase % (MaxPort + 1) = 0
  /\ Server \subseteq [ip : Nat, port : Int] /\ Garbled \subseteq Server
  /\ CidBase \in Nat \ {0}
  /\ QueueSize \in Nat \ {0} /\ MaxFaults \in Nat

VARIABLES
  sid2cid,       \* _sid2cid
  connMap,       \* cid -> [to, state, bEnable, queue]
  cid,           \* the last cid given out
  lazyDelIds,
  alive,         \* the servers that run
  failed,        \* history of the process: servers of which a connection or connect has failed
  lost,          \* addressable servers of which the last step lost a message
  clash,         \* history of the process: an id has come round to a connection that lives
  died,          \* the last step ended the process, and the master started another
  faults

maps == <<sid2cid, connMap, cid, lazyDelIds>>
vars == <<maps, alive, failed, lost, clash, died, faults>>

\* std::map: erase, the empty map, and assignment to an element.
Without(f, xs) == Restrict(f, DOMAIN f \ xs)
Empty == [x \in {} |-> x]
With(f, x, v) == [y \in DOMAIN f \union {x} |-> IF y = x THEN v ELSE f[y]]

-----------------------------------------------------------------------------

\* Mutant: the ip is not shifted.
genSIdUnshifted(ip, port) == ip + port

genSId(ip, port) == ip * PortBase + port
getAddressFromSId(sid) == [ip |-> sid \div PortBase, port |-> sid % (MaxPort + 1)]

\* sendTo: the port is what stoi makes of all after the first ':', or of the whole
\* address if there is none; a port out of range is logged and given up.
Addressable(s) == s \notin Garbled /\ s.port \in 1..MaxPort

Fault(really) == IF really THEN faults < MaxFaults /\ faults' = faults + 1 ELSE UNCHANGED faults

Lose(ss) == lost' = {s \in ss : Addressable(s)} /\ died' = FALSE
Queued(cs) == {connMap[c].to : c \in {d \in cs : connMap[d].queue # <<>>}}

\* The process ends, by an exception that nobody catches or in a deleted handler.  With
\* it go the connections, what is queued on them, and the messages for others; the next
\* process starts with nothing.
Dies(others) ==
  /\ died' = TRUE
  /\ lost' = {s \in others \union Queued(DOMAIN connMap) : Addressable(s)}
  /\ sid2cid' = Empty /\ connMap' = Empty /\ cid' = 0 /\ lazyDelIds' = {}
  /\ failed' = {} /\ clash' = FALSE

\* Mutant: the route of an erased connection is kept.
eraseConnectionOnly(c) ==
  /\ connMap' = Without(connMap, {c})
  /\ UNCHANGED sid2cid

\* eraseConnection: every route to the connection, then the connection.
eraseConnection(c) ==
  /\ sid2cid' = Without(sid2cid, {sid \in DOMAIN sid2cid : sid2cid[sid] = c})
  /\ connMap' = Without(connMap, {c})

-----------------------------------------------------------------------------
(* dispatch *)

\* An exception that leaves sendTo, with a message for s.  Called from forward, in a
\* message handler, it costs the client that asked its connection; called from broadcast,
\* in a timer, it ends the loop over the children and then the process, and the children
\* that were still to come (rest) lose their message as well.
Escapes(s, rest, kept) ==
  /\ Fault(TRUE)
  /\ \/ rest = {} /\ kept /\ Lose({s})
     \/ Dies(rest \union {s})

\* A port out of range.
SendToNobody(s) ==
  /\ s \notin Garbled /\ ~Addressable(s)
  /\ Lose({s})
  /\ UNCHANGED <<maps, alive, failed, clash, faults>>

\* stoi throws.
SendToThrows(s, rest) ==
  /\ s \in Garbled
  /\ Escapes(s, rest, UNCHANGED <<maps, failed, clash>>)
  /\ UNCHANGED alive

Routed(s) == Addressable(s) /\ genSId(s.ip, s.port) \in DOMAIN sid2cid
Route(s) == sid2cid[genSId(s.ip, s.port)]

\* dispatchById: the message goes to the connection's output buffer or to its socket.
DispatchById(s) ==
  LET c == Route(s)
  IN /\ Routed(s) /\ c \in DOMAIN connMap
     /\ connMap[c].bEnable /\ connMap[c].state # "ended"
     /\ Len(connMap[c].queue) < QueueSize
     /\ connMap' = [connMap EXCEPT ![c].queue = Append(@, s)]
     /\ Lose({})
     /\ UNCHANGED <<sid2cid, cid, lazyDelIds, alive, failed, clash, faults>>

\* send throws, because the peer has ended the connection or the output buffer is
\* full: the connection is disabled, and the timer will delete it.
DispatchThrows(s, overflow) ==
  LET c == Route(s)
  IN /\ Routed(s) /\ c \in DOMAIN connMap /\ connMap[c].bEnable
     /\ Fault(overflow) /\ (overflow \/ connMap[c].state = "ended")
     /\ connMap' = [connMap EXCEPT ![c].bEnable = FALSE]
     /\ lazyDelIds' = lazyDelIds \union {c}
     /\ failed' = failed \union {s}
     /\ Lose({s})
     /\ UNCHANGED <<sid2cid, cid, alive, clash>>

\* sendBin on a disabled connection, or no connection of that id: the message is dropped.
DispatchDropped(s) ==
  /\ Routed(s)
  /\ Route(s) \in DOMAIN connMap => ~connMap[Route(s)].bEnable
  /\ Lose({s})
  /\ UNCHANGED <<maps, alive, failed, clash, faults>>

\* onConnCreate
NextCid == (cid + 1) % CidBase

\* connectServer: the connection, with the messages q, and the route to it.  A connection
\* that has the same id is in the map no more.
connectServer(s, state, q) ==
  /\ cid' = NextCid
  /\ connMap' = With(connMap, NextCid, [to |-> s, state |-> state, bEnable |-> TRUE, queue |-> q])
  /\ sid2cid' = With(sid2cid, genSId(s.ip, s.port), NextCid)
  /\ clash' = (clash \/ NextCid \in DOMAIN connMap)
  /\ UNCHANGED lazyDelIds

\* dispatch to a server without connection: connectServer, then the first send.
\* connect succeeds at once or is under way.
DispatchNew(s, state) ==
  /\ Addressable(s) /\ ~Routed(s)
  /\ state = "connected" => s \in alive
  /\ connectServer(s, state, <<s>>)
  /\ Lose({})
  /\ UNCHANGED <<alive, failed, faults>>

\* An overflow in the first send throws past the connection, which stays.
DispatchNewThrows(s, state, rest) ==
  /\ Addressable(s) /\ ~Routed(s)
  /\ state = "connected" => s \in alive
  /\ Escapes(s, rest, connectServer(s, state, <<>>) /\ failed' = failed \union {s})
  /\ UNCHANGED alive

\* createConnection returns NULL: no socket, or connect fails at once.
DispatchNoConn(s) ==
  /\ Addressable(s) /\ ~Routed(s)
  /\ Fault(TRUE)
  /\ failed' = failed \union {s}
  /\ Lose({s})
  /\ UNCHANGED <<maps, alive, clash>>

-----------------------------------------------------------------------------
(* The connections *)

OnConnected(c) ==
  /\ connMap[c].state = "connecting" /\ connMap[c].to \in alive
  /\ connMap' = [connMap EXCEPT ![c].state = "connected"]
  /\ Lose({})
  /\ UNCHANGED <<sid2cid, cid, lazyDelIds, alive, failed, clash, faults>>

\* The server is gone again: flush throws in onConnected, and nothing catches it.
OnConnectedThrows(c) ==
  /\ connMap[c].state = "connecting" /\ connMap[c].queue # <<>>
  /\ Fault(TRUE)
  /\ Dies({})
  /\ UNCHANGED alive

\* onError or onClose erase the connection.  When poll then calls the deleted handler
\* for EVENT_WRITE as well, anything may happen.
Erased(c, dies) ==
  /\ Fault(dies)
  /\ IF dies THEN Dies({})
     ELSE /\ eraseConnection(c)
          /\ Lose(Queued({c}))
          /\ failed' = failed \union {connMap[c].to}
          /\ UNCHANGED <<cid, lazyDelIds, clash>>

\* A connect that is refused or gets no answer.
ConnectFails(c, dies) ==
  /\ connMap[c].state = "connecting" /\ connMap[c].to \notin alive
  /\ Erased(c, dies)
  /\ UNCHANGED alive

\* The peer reads and handles a message.
Deliver(c) ==
  /\ connMap[c].state = "connected" /\ connMap[c].queue # <<>>
  /\ connMap' = [connMap EXCEPT ![c].queue = Tail(@)]
  /\ Lose({})
  /\ UNCHANGED <<sid2cid, cid, lazyDelIds, alive, failed, clash, faults>>

\* The peer's end is gone, by its idle timeout, by a reset, or with its process.
Ended(cs) == [c \in DOMAIN connMap |->
                IF c \in cs THEN [connMap[c] EXCEPT !.state = "ended"] ELSE connMap[c]]

PeerCloses(c) ==
  /\ connMap[c].state = "connected"
  /\ Fault(TRUE)
  /\ connMap' = Ended({c})
  /\ failed' = failed \union {connMap[c].to}
  /\ Lose({})
  /\ UNCHANGED <<sid2cid, cid, lazyDelIds, alive, clash>>

\* onRead sees the end; EVENT_WRITE is registered while something is queued.
OnReadClosed(c, dies) ==
  /\ connMap[c].state = "ended"
  /\ dies => connMap[c].queue # <<>>
  /\ Erased(c, dies)
  /\ UNCHANGED alive

\* Mutant: an id in lazyDelIds is deleted whoever has it now.
DoEventUnchecked ==
  LET gone == lazyDelIds \intersect DOMAIN connMap
  IN /\ sid2cid' = Without(sid2cid, {sid \in DOMAIN sid2cid : sid2cid[sid] \in gone})
     /\ connMap' = Without(connMap, gone)
     /\ Lose(Queued(gone))
     /\ lazyDelIds' = {} /\ lazyDelIds # {}
     /\ UNCHANGED <<cid, alive, failed, clash, faults>>

\* LazyDelConnManager::doEvent
DoEvent ==
  LET gone == {c \in lazyDelIds \intersect DOMAIN connMap : ~connMap[c].bEnable}
  IN /\ sid2cid' = Without(sid2cid, {sid \in DOMAIN sid2cid : sid2cid[sid] \in gone})
     /\ connMap' = Without(connMap, gone)
     /\ Lose(Queued(gone))
     /\ lazyDelIds' = {} /\ lazyDelIds # {}
     /\ UNCHANGED <<cid, alive, failed, clash, faults>>

Crash(s) ==
  /\ s \in alive
  /\ Fault(TRUE)
  /\ alive' = alive \ {s}
  /\ failed' = failed \union {s}
  /\ connMap' = Ended({c \in DOMAIN connMap : connMap[c].to = s /\ connMap[c].state = "connected"})
  /\ Lose({})
  /\ UNCHANGED <<sid2cid, cid, lazyDelIds, clash>>

Restart(s) ==
  /\ s \notin alive /\ Addressable(s)
  /\ alive' = alive \union {s}
  /\ Lose({})
  /\ UNCHANGED <<maps, failed, clash, faults>>

-----------------------------------------------------------------------------

Init ==
  /\ sid2cid = Empty /\ connMap = Empty /\ cid = 0 /\ lazyDelIds = {}
  /\ alive \in SUBSET {s \in Server : Addressable(s)}
  /\ failed = {} /\ lost = {} /\ clash = FALSE /\ died = FALSE /\ faults = 0

Dispatch(s) ==
  \/ DispatchById(s) \/ DispatchDropped(s) \/ DispatchNoConn(s)
  \/ \E overflow \in BOOLEAN : DispatchThrows(s, overflow)
  \/ \E state \in {"connecting", "connected"} : DispatchNew(s, state)

SendTo(s) ==
  \/ Dispatch(s) \/ SendToNobody(s)
  \/ \E rest \in SUBSET (Server \ {s}) :
       \/ SendToThrows(s, rest)
       \/ \E state \in {"connecting", "connected"} : DispatchNewThrows(s, state, rest)

Poll(c) ==
  \/ OnConnected(c) \/ OnConnectedThrows(c)
  \/ \E dies \in BOOLEAN : ConnectFails(c, dies) \/ OnReadClosed(c, dies)

\* Once ids have clashed, two objects answer to one id: the model ends there.
Clashed == clash /\ UNCHANGED vars

Next ==
  \/ /\ ~clash
     /\ \/ \E s \in Server : SendTo(s) \/ Crash(s) \/ Restart(s)
        \/ \E c \in DOMAIN connMap : Poll(c) \/ Deliver(c) \/ PeerCloses(c)
        \/ DoEvent
  \/ Clashed

Spec == Init /\ [][Next]_vars

\* The event loop and its timer run, and messages keep coming for every server.
Fairness ==
  /\ \A c \in 0..CidBase - 1 :
       WF_vars(~clash /\ c \in DOMAIN connMap /\ (Poll(c) \/ Deliver(c)))
  /\ WF_vars(~clash /\ DoEvent)
  /\ \A s \in {t \in Server : Addressable(t)} : WF_vars(~clash /\ Dispatch(s))

LiveSpec == Spec /\ Fairness

-----------------------------------------------------------------------------
(* Properties *)

\* Types.
TypeOK ==
  /\ cid \in 0..CidBase - 1
  /\ \A c \in DOMAIN connMap :
       /\ c \in 0..CidBase - 1
       /\ connMap[c].to \in Server
       /\ connMap[c].state \in {"connecting", "connected", "ended"}
       /\ Len(connMap[c].queue) <= QueueSize
  /\ lazyDelIds \subseteq 0..CidBase - 1
  /\ alive \subseteq Server /\ faults \in 0..MaxFaults

\* connectServer and eraseConnection: every route leads to a connection that exists and
\* goes to the address its sid stands for, no two servers share one, and no connection
\* is without a route, so that no message goes astray and no connection is left behind;
\* unless ++cid has come round to the id of a connection that has lived through 2^32
\* others.  All variables keep their types.
RoutesConsistent ==
  /\ TypeOK
  /\ ~clash =>
       /\ IsInjective(sid2cid)
       /\ \A sid \in DOMAIN sid2cid :
            sid2cid[sid] \in DOMAIN connMap /\ connMap[sid2cid[sid]].to = getAddressFromSId(sid)
       /\ DOMAIN connMap = {sid2cid[sid] : sid \in DOMAIN sid2cid}

\* While the process lives, a message is lost only where a connection or a connect to its
\* own server failed, or its address is none (dispatchById, eraseConnection, doEvent).
\* The failure of one server costs the others their messages only by ending the process:
\* a first send that throws in a broadcast, an address stoi cannot read, or poll's call
\* of a handler it has deleted.  A clash of ids is excepted as above.
LossIsLocal == lost \subseteq failed \/ died \/ clash

\* Once a server stays up, the writer gets back to it, after its own death too: dropped
\* messages, lazy deletion and a new connect end in a connection that is up and enabled,
\* if the process does not die again and again and no ids clash.
Healthy(s) ==
  /\ Routed(s) /\ Route(s) \in DOMAIN connMap
  /\ connMap[Route(s)].state = "connected" /\ connMap[Route(s)].bEnable
Reconnects == \A s \in Server : Addressable(s) => ([]~clash /\ <>[](s \in alive) => <>[]Healthy(s))
=============================================================================
