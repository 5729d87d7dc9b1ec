----------------------------- MODULE TimerLoop ------------------------------
(***************************************************************************)
(* The timers of one process: core/xnet/TimerList, the part of             *)
(* core/xnet/IOLoop that drives it, and every EventHandler that arms a     *)
(* timer: connections (TcpSock, Connection, MasterConn), the connection    *)
(* managers that delete them (LazyDelConnManager) and the block timer      *)
(* (TimerHandler).                                                         *)
(*                                                                         *)
(* One iteration of IOLoop::run is: the socket events of poll, then        *)
(* checkTimeout, which is checkTimer, resetElapsed and the calls of the    *)
(* collected handlers.  SIGALRM interrupts it anywhere.  A connection is a *)
(* place in memory: it is freed by delete, and a later connection may be   *)
(* created at the same place.                                              *)
(***************************************************************************)
EXTENDS Integers, SequencesExt

CONSTANTS
  Conn,            \* the places in memory where connections live
  kind,            \* Conn -> "server", "client" or "master"
  Manager,         \* the LazyDelConnManagers of the process
  managerOf,       \* Conn -> the manager that deletes it
  Ticker,          \* the periodic TimerHandlers: the block timer of a root node
  TIME_CLICK,      \* what one SIGALRM adds to m_elapsed
  CONN_DEL_DELAY_TIME, CONNECT_TIMEOUT, CONN_TIMEOUT, blockSyncInterval,
  IntRange,        \* 2^w for the w-bit int of _elapsed
  MaxPending       \* bound: clicks that arrive during one iteration of the loop

INFTIMO == -1
Handler == Conn \cup Manager \cup Ticker
Delay == {INFTIMO, CONN_DEL_DELAY_TIME, CONNECT_TIMEOUT, CONN_TIMEOUT, blockSyncInterval}

ASSUME TimerAssumption ==
  /\ IsFiniteSet(Handler)
  /\ Conn \cap Manager = {} /\ Conn \cap Ticker = {} /\ Manager \cap Ticker = {}
  /\ kind \in [Conn -> {"server", "client", "master"}]
  /\ managerOf \in [Conn -> Manager]
  /\ {CONN_DEL_DELAY_TIME, CONNECT_TIMEOUT, CONN_TIMEOUT, blockSyncInterval} \subseteq Nat \ {0}
  /\ CONNECT_TIMEOUT # CONN_TIMEOUT
  /\ TIME_CLICK \in Nat \ {0} /\ CONN_DEL_DELAY_TIME < TIME_CLICK
  /\ MaxPending \in Nat
  /\ IntRange \in Nat /\ IntRange % 2 = 0 /\ \A d \in Delay : IntRange > 4 * d

VARIABLES
  timers,    \* _timers, in list order
  elapsed,   \* _elapsed, a signed int that wraps around
  pending,   \* m_elapsed of IOLoop
  pc,        \* where the loop is: "poll", "reset", "fire", "tick" or "dead"
  fired,     \* the collected nodes whose handlers are still to be called
  life,      \* Conn -> "none", "connecting" or "open"
  recv,      \* connections with recv_tag set
  lazyDel    \* lazyDelIds of all managers: disabled connections to be deleted

vars == <<timers, elapsed, pending, pc, fired, life, recv, lazyDel>>

\* A two's complement int.
Wrapped(n) == ((n + IntRange \div 2) % IntRange) - IntRange \div 2

-----------------------------------------------------------------------------
(* TimerList *)

\* A node of the list.  age is a history field: all the time that may be counted
\* for this node, that is, since the last checkTimer before it was armed.
TimerNode(timeout, h) ==
  [expire |-> timeout, elapsed |-> elapsed, handler |-> h, age |-> pending]

\* Mutant: the node that exists is not deleted when a new timeout is set.
AddTimerKeepsOld(ts, timeout, h) ==
  LET own == {i \in DOMAIN ts : ts[i].handler = h}
      later == {i \in DOMAIN ts : timeout < ts[i].expire}
  IN IF timeout < 0 /\ own # {} THEN RemoveAt(ts, Min(own))
     ELSE InsertAt(ts, Min(later \cup {Len(ts) + 1}), TimerNode(timeout, h))

\* addTimer: the first node of h with another timeout is deleted, and a new one is
\* inserted in the order of the timeouts.  A negative timeout deletes; where h has
\* no node, it is inserted like any other.
AddTimer(ts, timeout, h) ==
  LET own == {i \in DOMAIN ts : ts[i].handler = h /\ timeout # ts[i].expire}
      mine == IF timeout < 0 THEN {i \in DOMAIN ts : ts[i].handler = h} ELSE own
      rest == IF mine = {} THEN ts ELSE RemoveAt(ts, Min(mine))
      later == {i \in DOMAIN rest : timeout < rest[i].expire}
  IN IF timeout < 0 /\ mine # {} THEN rest
     ELSE InsertAt(rest, Min(later \cup {Len(rest) + 1}), TimerNode(timeout, h))

\* checkTimer: collects nodes from the front of the list, up to the first that is
\* not due.
CheckTimer ==
  LET total == Wrapped(elapsed + pending)
      due(n) == Wrapped(total - n.elapsed) > n.expire
      first == Min({i \in DOMAIN timers : ~due(timers[i])} \cup {Len(timers) + 1})
  IN /\ pc = "poll"
     /\ elapsed' = total
     /\ fired' = SubSeq(timers, 1, first - 1)
     /\ timers' = SubSeq(timers, first, Len(timers))
     /\ pc' = "reset"
     /\ UNCHANGED <<pending, life, recv, lazyDel>>

\* Mutant: the elapsed time is not reset.
ResetElapsedForgotten ==
  /\ pc = "reset"
  /\ pc' = "fire"
  /\ UNCHANGED <<timers, elapsed, pending, fired, life, recv, lazyDel>>

\* resetElapsed: a click since the argument of checkTimer was read is lost.
ResetElapsed ==
  /\ pc = "reset"
  /\ pending' = 0
  /\ pc' = "fire"
  /\ UNCHANGED <<timers, elapsed, fired, life, recv, lazyDel>>

\* epoll_timer_click, the handler of SIGALRM.
Click ==
  LET older(n) == [n EXCEPT !.age = IF @ > n.expire THEN @ ELSE @ + TIME_CLICK]
  IN /\ pc # "dead"
     /\ pending < MaxPending * TIME_CLICK
     /\ pending' = pending + TIME_CLICK
     /\ timers' = [i \in DOMAIN timers |-> older(timers[i])]
     /\ UNCHANGED <<elapsed, pc, fired, life, recv, lazyDel>>

-----------------------------------------------------------------------------
(* Connections *)

\* eraseConnection deletes conn; ~TcpSock deletes its timer.
Deleted(ts, c) == AddTimer(ts, INFTIMO, c)

\* eraseConnection in a step that calls nothing else.
EraseConnection(c) ==
  /\ life' = [life EXCEPT ![c] = "none"]
  /\ recv' = recv \ {c}
  /\ lazyDel' = lazyDel \ {c}
  /\ timers' = Deleted(timers, c)

\* Mutant: an accepted connection is given no timeout.
OnAcceptWithoutTimeout(c) ==
  /\ pc = "poll"
  /\ life[c] = "none" /\ kind[c] \in {"server", "master"}
  /\ life' = [life EXCEPT ![c] = "open"]
  /\ UNCHANGED <<timers, elapsed, pending, pc, fired, recv, lazyDel>>

\* onAccept: ConnFactory sets CONN_TIMEOUT; the master's factory sets none.
OnAccept(c) ==
  /\ pc = "poll"
  /\ life[c] = "none" /\ kind[c] \in {"server", "master"}
  /\ life' = [life EXCEPT ![c] = "open"]
  /\ timers' = IF kind[c] = "server" THEN AddTimer(timers, CONN_TIMEOUT, c) ELSE timers
  /\ UNCHANGED <<elapsed, pending, pc, fired, recv, lazyDel>>

\* createConnection to a peer, for a message of a handler or for a new block: doConnect arms CONNECT_TIMEOUT unless connect
\* succeeds at once, setTimeout arms CONN_TIMEOUT, and a connection that is up is
\* told so, which deletes its timer.
ConnectServer(c) ==
  /\ pc \in {"poll", "tick"}
  /\ life[c] = "none" /\ kind[c] = "client"
  /\ \/ /\ timers' = AddTimer(AddTimer(timers, CONNECT_TIMEOUT, c), CONN_TIMEOUT, c)
        /\ life' = [life EXCEPT ![c] = "connecting"]
     \/ /\ timers' = AddTimer(AddTimer(timers, CONN_TIMEOUT, c), INFTIMO, c)
        /\ life' = [life EXCEPT ![c] = "open"]
  /\ UNCHANGED <<elapsed, pending, pc, fired, recv, lazyDel>>

\* onConnected after complete_nonblocking_connect: "del conn timer for timeout", or
\* onError.
OnConnected(c) ==
  /\ pc = "poll"
  /\ life[c] = "connecting"
  /\ \/ /\ life' = [life EXCEPT ![c] = "open"]
        /\ timers' = AddTimer(timers, INFTIMO, c)
        /\ UNCHANGED <<recv, lazyDel>>
     \/ EraseConnection(c)
  /\ UNCHANGED <<elapsed, pending, pc, fired>>

\* onRead: data sets recv_tag; the end of the stream, an error or a protocol error
\* erases the connection.  MasterConn only peeks, and is erased once dispatched.
OnRead(c) ==
  /\ pc = "poll"
  /\ life[c] = "open"
  /\ \/ /\ kind[c] # "master"
        /\ recv' = recv \cup {c}
        /\ UNCHANGED <<timers, life, lazyDel>>
     \/ EraseConnection(c)
  /\ UNCHANGED <<elapsed, pending, pc, fired>>

\* dispatchById: a send that throws disables the connection for its manager.
DispatchFails(c) ==
  /\ pc \in {"poll", "tick"}
  /\ life[c] # "none" /\ kind[c] # "master"
  /\ pc = "tick" => kind[c] = "client"
  /\ lazyDel' = lazyDel \cup {c}
  /\ UNCHANGED <<timers, elapsed, pending, pc, fired, life, recv>>

-----------------------------------------------------------------------------
(* doEvent(EVENT_TIMEOUT) of the collected handlers *)

\* The next handler of the vector of checkTimeout.
Calls(h) == pc = "fire" /\ fired # <<>> /\ Head(fired).handler = h

\* Mutant: a connection that received data is not given a new timeout.
OnTimeoutOnce(c) ==
  /\ Calls(c)
  /\ fired' = Tail(fired)
  /\ \/ /\ life[c] = "open" /\ c \in recv
        /\ recv' = recv \ {c}
        /\ UNCHANGED <<timers, life, lazyDel>>
     \/ /\ life[c] = "connecting" \/ (life[c] = "open" /\ c \notin recv)
        /\ EraseConnection(c)
  /\ UNCHANGED <<elapsed, pending, pc>>

\* onTimeout of a connection that is up: it is erased, unless it has received
\* something since the last time.  One that is not up: "connect timeout".
OnTimeout(c) ==
  /\ Calls(c)
  /\ fired' = Tail(fired)
  /\ \/ /\ life[c] = "open" /\ c \in recv
        /\ recv' = recv \ {c}
        /\ timers' = AddTimer(timers, CONN_TIMEOUT, c)
        /\ UNCHANGED <<life, lazyDel>>
     \/ /\ life[c] = "connecting" \/ (life[c] = "open" /\ c \notin recv)
        /\ EraseConnection(c)
  /\ UNCHANGED <<elapsed, pending, pc>>

\* doEvent of an object that was deleted: as long as the memory is not reused it
\* still is an EventHandler, whose doEvent does nothing; otherwise the process dies.
StaleEvent(c) ==
  /\ Calls(c)
  /\ life[c] = "none"
  /\ \/ fired' = Tail(fired) /\ UNCHANGED pc
     \/ pc' = "dead" /\ UNCHANGED fired
  /\ UNCHANGED <<timers, elapsed, pending, life, recv, lazyDel>>

\* LazyDelConnManager::doEvent: deletes the disabled connections, in the order of
\* their ids, and arms the timer again.
DoLazyDelete(m) ==
  /\ Calls(m)
  /\ fired' = Tail(fired)
  /\ LET mine == {c \in lazyDel : managerOf[c] = m}
     IN /\ \E order \in SetToSeqs(mine) :
             timers' = AddTimer(FoldLeft(Deleted, timers, order), CONN_DEL_DELAY_TIME, m)
        /\ life' = [c \in Conn |-> IF c \in mine THEN "none" ELSE life[c]]
        /\ recv' = recv \ mine
        /\ lazyDel' = lazyDel \ mine
  /\ UNCHANGED <<elapsed, pending, pc>>

\* TimerHandler::doEvent: onTimer generates a block, and broadcast sends it to the
\* children, by ConnectServer and DispatchFails where there is no connection or a bad one.
OnTick(t) ==
  /\ Calls(t)
  /\ pc' = "tick"
  /\ UNCHANGED <<timers, elapsed, pending, fired, life, recv, lazyDel>>

\* Mutant: the block timer fires once.
OnTickEndsOnce(t) ==
  /\ pc = "tick" /\ Head(fired).handler = t
  /\ fired' = Tail(fired)
  /\ pc' = "fire"
  /\ UNCHANGED <<timers, elapsed, pending, life, recv, lazyDel>>

\* The timer is armed again; or an exception of sendTo, which nobody catches, ends the
\* process.
OnTickEnds(t) ==
  /\ pc = "tick" /\ Head(fired).handler = t
  /\ \/ /\ fired' = Tail(fired)
        /\ timers' = AddTimer(timers, blockSyncInterval, t)
        /\ pc' = "fire"
     \/ pc' = "dead" /\ UNCHANGED <<timers, fired>>
  /\ UNCHANGED <<elapsed, pending, life, recv, lazyDel>>

\* The vector is done; run goes back to poll.
BackToPoll ==
  /\ pc = "fire" /\ fired = <<>>
  /\ pc' = "poll"
  /\ UNCHANGED <<timers, elapsed, pending, fired, life, recv, lazyDel>>

-----------------------------------------------------------------------------

\* The constructors of the managers and TimerHandler::start arm the first timers.
Started(order) ==
  LET node(timeout, h) == [expire |-> timeout, elapsed |-> 0, handler |-> h, age |-> 0]
      delays == [i \in DOMAIN order |-> node(CONN_DEL_DELAY_TIME, order[i])]
  IN delays \o [i \in 1..Cardinality(Ticker) |-> node(blockSyncInterval, SetToSeq(Ticker)[i])]

Init ==
  /\ timers \in {Started(order) : order \in SetToSeqs(Manager)}
  /\ elapsed = 0 /\ pending = 0
  /\ pc = "poll" /\ fired = <<>>
  /\ life = [c \in Conn |-> "none"]
  /\ recv = {} /\ lazyDel = {}

\* The process that died is started again.
Restart ==
  /\ pc = "dead"
  /\ timers' \in {Started(order) : order \in SetToSeqs(Manager)}
  /\ elapsed' = 0 /\ pending' = 0
  /\ pc' = "poll" /\ fired' = <<>>
  /\ life' = [c \in Conn |-> "none"]
  /\ recv' = {} /\ lazyDel' = {}

Events == \E c \in Conn :
  OnAccept(c) \/ ConnectServer(c) \/ OnConnected(c) \/ OnRead(c) \/ DispatchFails(c)

\* What the loop does by itself.
Loop ==
  \/ CheckTimer \/ ResetElapsed \/ BackToPoll \/ Restart
  \/ \E c \in Conn : OnTimeout(c) \/ StaleEvent(c)
  \/ \E m \in Manager : DoLazyDelete(m)
  \/ \E t \in Ticker : OnTick(t) \/ OnTickEnds(t)

Next == Loop \/ Click \/ Events

Spec == Init /\ [][Next]_vars

\* The loop runs, since epoll_wait has a timeout; SIGALRM comes every TIME_CLICK,
\* and again and again at a moment when the loop is not between the call of
\* checkTimer and resetElapsed.
LiveSpec == Spec /\ WF_vars(Loop) /\ SF_vars(Click /\ pc = "poll")

-----------------------------------------------------------------------------
(* Properties *)

\* Types of the list, the counters and the connections of a process.
TypeOK ==
  LET Node == [expire : Delay, elapsed : -(IntRange \div 2)..(IntRange \div 2 - 1),
               handler : Handler, age : Nat]
  IN /\ timers \in Seq(Node) /\ fired \in Seq(Node)
     /\ elapsed \in -(IntRange \div 2)..(IntRange \div 2 - 1)
     /\ pending \in 0..MaxPending * TIME_CLICK
     /\ pc \in {"poll", "reset", "fire", "tick", "dead"}
     /\ life \in [Conn -> {"none", "connecting", "open"}]
     /\ recv \subseteq Conn /\ lazyDel \subseteq Conn

\* addTimer deletes at most one node of a handler and inserts another: no sequence
\* of calls by connections, managers and the block timer leaves a handler with two
\* nodes, one of which its next deletion would miss, or a variable without its type.
OneTimerPerHandler ==
  /\ TypeOK
  /\ \A i, j \in DOMAIN timers : timers[i].handler = timers[j].handler => i = j

\* checkTimer: no timeout is called before its time has passed, measured from the
\* last checkTimer before it was armed, also when _elapsed has wrapped around.
NeverEarly == \A i \in DOMAIN fired : fired[i].age > fired[i].expire

\* ConnFactory::createConnection: the node that the deletion of a connection left
\* behind is never called for the connection created at the same place in memory.  The
\* factory of the master, which sets no timeout, cannot promise this; and a timeout that
\* was collected together with a tick is called for what the broadcast creates at the
\* place of its connection.
NoTimeoutOfSuccessor ==
  \A i \in DOMAIN fired :
    LET h == fired[i].handler
    IN h \in Conn /\ kind[h] # "master" /\ fired[i].expire = INFTIMO => life[h] = "none"

\* Connection::onTimeout: an accepted connection that receives nothing any more is
\* erased in the end, although shorter timers go to the front of the list again and
\* again.
IdleConnClosed ==
  \A c \in Conn : kind[c] = "server" =>
    []<>(life[c] # "open" \/ c \in recv \/ pc = "dead")

\* TimerHandler: the block timer fires again and again, whatever the connections do.
BlockTimerFires ==
  \A t \in Ticker :
    []<>(pc = "dead" \/ \E i \in DOMAIN fired : fired[i].handler = t)
=============================================================================
