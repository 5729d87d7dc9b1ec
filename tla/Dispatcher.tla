----------------------------- MODULE Dispatcher -----------------------------
(***************************************************************************)
(* The process tree of daemon_server: the daemon of daemon/main.cpp, the   *)
(* master it forks (TcpServerMaster, MasterConn, IWorkerManager,           *)
(* SignalHandler) and the worker processes the master starts               *)
(* (WorkerTcpServer), with the channel over which the master passes        *)
(* accepted connections to them.                                           *)
(*                                                                         *)
(* The master is one thread: a handler of its loop runs to its end, but    *)
(* sendmsg may block in it, and workers die and signals arrive between any *)
(* two of its system calls.  A worker is a process with a process id; its  *)
(* slot is the index of its Worker object, which outlives it.              *)
(***************************************************************************)
EXTENDS Integers, Sequences, FiniteSetsExt

CONSTANTS
  Conn,          \* the connections of clients
  sessionOf,     \* Conn -> the session id its requests start with
  numWorker,     \* _numWorker
  UInt32,        \* 2^w for the w bits of a session id
  ChannelSize,   \* descriptors that fit into the send buffer of a channel
  MaxPid,        \* bound: processes at a time
  MaxCrash,      \* bound: workers that die by themselves
  MaxFault,      \* bound: system calls that fail
  MaxBoot        \* bound: masters that die

ASSUME DispatcherAssumption ==
  /\ numWorker \in Nat \ {0} /\ ChannelSize \in Nat \ {0}
  /\ UInt32 \in Nat \ {0} /\ sessionOf \in [Conn -> 0..UInt32 - 1]
  /\ MaxPid \in Nat /\ MaxCrash \in Nat /\ MaxFault \in Nat /\ MaxBoot \in Nat

Slot == 0..numWorker - 1
Pid == 1..MaxPid
NoPid == -1
NoSession == -1
ReapLoop == 3                       \* the loop of onEmit

VARIABLES
  daemon,   \* "up", or "gone" after a failed fork
  master,   \* the master: [pc, next, masked, sig, emits, loop, target]
  worker,   \* Slot -> the Worker object: [status, pid]
  proc,     \* Pid -> the worker process: [st, queue, child]
  conn,     \* Conn -> [at, pid, data, eof, peek]; peek: history, the id dispatched by
  budget,   \* what the bounds leave: [crash, fault, boot]
  deaths,   \* history: children of this master that died since it started
  early     \* history: one of them died before the signals were blocked

vars == <<daemon, master, worker, proc, conn, budget, deaths, early>>

Alive(p) == proc[p].st \in {"init", "run"}

NoMaster ==
  [pc |-> "none", next |-> 0, masked |-> FALSE, sig |-> {}, emits |-> 0, loop |-> 0,
   target |-> <<>>]
NoWorker == [status |-> "Init", pid |-> NoPid]
NoProc == [st |-> "free", queue |-> <<>>, child |-> FALSE]
Away == [at |-> "away", pid |-> NoPid, data |-> "none", eof |-> FALSE,
         peek |-> NoSession]

\* The connections after those in cs are closed: their clients may connect again.
Closed(cs) == [c \in Conn |-> IF c \in cs THEN Away ELSE conn[c]]

\* The connections a process holds, the ones in its channel included.
HeldBy(p) == {c \in Conn : conn[c].pid = p}

-----------------------------------------------------------------------------
(* Worker *)

\* start: a process is forked and has the channel, or socketpair and its options
\* fail (kStatusInit), or fork fails (kStatusUnknown).  procs and left are the
\* processes and the budget at the call.
Start(s, procs, left) ==
  \/ LET free == {p \in Pid : procs[p].st = "free"}
     IN /\ free # {}
        /\ proc' = [procs EXCEPT ![Min(free)] =
                      [st |-> "init", queue |-> <<>>, child |-> TRUE]]
        /\ worker' = [worker EXCEPT ![s] = [status |-> "OK", pid |-> Min(free)]]
        /\ budget' = left
  \/ /\ left.fault > 0
     /\ budget' = [left EXCEPT !.fault = @ - 1]
     /\ \E status \in {"Init", "Unknown"} :
          worker' = [worker EXCEPT ![s] = [status |-> status, pid |-> NoPid]]
     /\ proc' = procs

\* Mutant: the process that is replaced is not killed.
RestartWithoutKill(s, procs, cs, left) ==
  /\ Start(s, procs, left)
  /\ conn' = Closed(cs)
  /\ deaths' = deaths

\* restart: channel[0] is closed, the process is killed if it is still there, and
\* another is started.  Neither caller is in kStatusInit or kStatusUnknown, where
\* restart refuses.  cs are the connections the caller closes.
Restart(s, procs, cs, left) ==
  LET p == worker[s].pid
      killed == [procs EXCEPT ![p] = [@ EXCEPT !.st = "zombie", !.queue = <<>>]]
      kills == procs[p].st \in {"init", "run"}
  IN /\ Start(s, IF kills THEN killed ELSE procs, left)
     /\ conn' = Closed(cs \cup HeldBy(p))
     /\ deaths' = IF kills THEN deaths + 1 ELSE deaths

-----------------------------------------------------------------------------
(* The daemon and the start of the master *)

\* The daemon forks the master, and waits for it.
ForkMaster ==
  /\ daemon = "up" /\ master.pc = "none"
  /\ master' = [NoMaster EXCEPT !.pc = "bind"]
  /\ worker' = [s \in Slot |-> NoWorker]
  /\ deaths' = 0 /\ early' = FALSE
  /\ UNCHANGED <<daemon, proc, conn, budget>>

\* "fork error": the daemon returns.
ForkMasterFails ==
  /\ daemon = "up" /\ master.pc = "none" /\ budget.fault > 0
  /\ daemon' = "gone"
  /\ budget' = [budget EXCEPT !.fault = @ - 1]
  /\ UNCHANGED <<master, worker, proc, conn, deaths, early>>

\* TcpServerMaster::start: the acceptor, or "acceptor not available", after which
\* the master runs its loop without acceptor and without workers.
CreateAcceptor ==
  /\ master.pc = "bind"
  /\ \/ master' = [master EXCEPT !.pc = "start"] /\ UNCHANGED budget
     \/ /\ budget.fault > 0
        /\ budget' = [budget EXCEPT !.fault = @ - 1]
        /\ master' = [master EXCEPT !.pc = "deaf"]
  /\ UNCHANGED <<daemon, worker, proc, conn, deaths, early>>

\* startWorker, one worker after the other.
StartWorker ==
  /\ master.pc = "start" /\ master.next < numWorker
  /\ Start(master.next, proc, budget)
  /\ master' = [master EXCEPT !.next = @ + 1]
  /\ UNCHANGED <<daemon, conn, deaths, early>>

\* SignalHandler::start blocks SIGCHLD and SIGPIPE; only from here on are they kept.
StartSignals ==
  /\ master.pc = "start" /\ master.next = numWorker
  /\ master' = [master EXCEPT !.pc = "loop", !.masked = TRUE]
  /\ UNCHANGED <<daemon, worker, proc, conn, budget, deaths, early>>

\* The master dies.  Its connections are closed, its workers are left without
\* master and its zombies to the init process.
MasterDies ==
  /\ master.pc # "none" /\ budget.boot > 0
  /\ budget' = [budget EXCEPT !.boot = @ - 1]
  /\ master' = NoMaster
  /\ worker' = [s \in Slot |-> NoWorker]
  /\ proc' = [p \in Pid |-> IF proc[p].st = "zombie" THEN NoProc
                            ELSE [proc[p] EXCEPT !.child = FALSE]]
  /\ conn' = Closed({c \in Conn : conn[c].at \in {"backlog", "master"}})
  /\ deaths' = 0 /\ early' = FALSE
  /\ UNCHANGED daemon

-----------------------------------------------------------------------------
(* Dispatching *)

\* TcpAcceptor::doEvent accepts until nothing is left in the backlog.
OnAccept ==
  LET new == {c \in Conn : conn[c].at = "backlog"}
  IN /\ master.pc = "loop" /\ new # {}
     /\ conn' = [c \in Conn |-> IF c \in new THEN [conn[c] EXCEPT !.at = "master"]
                                ELSE conn[c]]
     /\ UNCHANGED <<daemon, master, worker, proc, budget, deaths, early>>

\* peekUint32: -1 unless all bytes of the session id are there.
PeekUint32(c) == IF conn[c].data = "all" THEN sessionOf[c] ELSE UInt32 - 1

Readable(c) == conn[c].at = "master" /\ (conn[c].data # "none" \/ conn[c].eof)

\* dispatch up to sendFd: an unsigned session id is never less than 0; a slot
\* without worker refuses and onInitiativeClose closes the connection.
Dispatch(c) ==
  LET s == PeekUint32(c) % numWorker
  IN /\ master.pc = "loop" /\ Readable(c)
     /\ \/ /\ worker[s].status = "OK"
           /\ master' = [master EXCEPT !.pc = "send", !.target = <<c, s>>]
           /\ conn' = [conn EXCEPT ![c] = [@ EXCEPT !.peek = PeekUint32(c)]]
        \/ /\ worker[s].status # "OK"
           /\ conn' = Closed({c})
           /\ UNCHANGED master
     /\ UNCHANGED <<daemon, worker, proc, budget, deaths, early>>

\* Mutant: the master does not erase a connection it has dispatched.
SendFdNotErased ==
  LET c == master.target[1]
      p == worker[master.target[2]].pid
  IN /\ master.pc = "send" /\ Alive(p) /\ Len(proc[p].queue) < ChannelSize
     /\ proc' = [proc EXCEPT ![p].queue = Append(@, c)]
     /\ master' = [master EXCEPT !.pc = "loop", !.target = <<>>]
     /\ UNCHANGED <<daemon, worker, conn, budget, deaths, early>>

\* sendFd blocks until the channel has room; then the master's own descriptor is
\* closed by onClose.
SendFd ==
  LET c == master.target[1]
      p == worker[master.target[2]].pid
  IN /\ master.pc = "send" /\ Alive(p) /\ Len(proc[p].queue) < ChannelSize
     /\ proc' = [proc EXCEPT ![p].queue = Append(@, c)]
     /\ conn' = [conn EXCEPT ![c] = [Away EXCEPT !.at = "channel", !.pid = p,
                                                 !.peek = conn[c].peek]]
     /\ master' = [master EXCEPT !.pc = "loop", !.target = <<>>]
     /\ UNCHANGED <<daemon, worker, budget, deaths, early>>

\* Mutant: MSG_NOSIGNAL, and the connection is kept until the worker is replaced.
SendFdToDeadRetries ==
  /\ master.pc = "send" /\ ~Alive(worker[master.target[2]].pid)
  /\ master' = [master EXCEPT !.pc = "loop", !.target = <<>>]
  /\ UNCHANGED <<daemon, worker, proc, conn, budget, deaths, early>>

\* sendFd to a worker that is dead: EPIPE and SIGPIPE, restart("send fd error"),
\* and the connection is closed.
SendFdToDead ==
  LET c == master.target[1]
      s == master.target[2]
  IN /\ master.pc = "send" /\ ~Alive(worker[s].pid)
     /\ Restart(s, proc, {c}, budget)
     /\ master' = [master EXCEPT !.pc = "loop", !.target = <<>>, !.sig = @ \cup {"PIPE"}]
     /\ UNCHANGED <<daemon, early>>

\* sendFd to a live worker fails: it is killed, which is another SIGCHLD, and
\* replaced.
SendFdFails ==
  LET c == master.target[1]
      s == master.target[2]
  IN /\ master.pc = "send" /\ Alive(worker[s].pid) /\ budget.fault > 0
     /\ Restart(s, proc, {c}, [budget EXCEPT !.fault = @ - 1])
     /\ master' = [master EXCEPT !.pc = "loop", !.target = <<>>, !.sig = @ \cup {"CHLD"}]
     /\ UNCHANGED <<daemon, early>>

-----------------------------------------------------------------------------
(* Signals *)

\* SignalHandler::doEvent reads the pending signals; onEmit is called for each.
ReadSignals ==
  /\ master.pc = "loop" /\ master.sig # {}
  /\ master' = [master EXCEPT !.pc = "emit", !.emits = Cardinality(master.sig),
                              !.sig = {}, !.loop = ReapLoop]
  /\ UNCHANGED <<daemon, worker, proc, conn, budget, deaths, early>>

Zombies == {p \in Pid : proc[p].st = "zombie"}
Reaped(p) == [proc EXCEPT ![p] = NoProc]

\* onEmit returns: nothing to wait for, or the loop is over.
EmitReturns ==
  /\ master.pc = "emit"
  /\ Zombies = {} \/ master.loop = 0
  /\ master' = [master EXCEPT !.pc = IF master.emits = 1 THEN "loop" ELSE "emit",
                              !.emits = @ - 1, !.loop = ReapLoop]
  /\ UNCHANGED <<daemon, worker, proc, conn, budget, deaths, early>>

\* Mutant: the worker is reaped and not replaced.
ReapWorkerOnly ==
  /\ master.pc = "emit" /\ master.loop > 0
  /\ \E p \in Zombies, s \in Slot : worker[s].pid = p /\ proc' = Reaped(p)
  /\ master' = [master EXCEPT !.loop = @ - 1]
  /\ UNCHANGED <<daemon, worker, conn, budget, deaths, early>>

\* waitpid returns the process of a slot: it is replaced.
ReapWorker ==
  /\ master.pc = "emit" /\ master.loop > 0
  /\ \E p \in Zombies, s \in Slot :
       worker[s].pid = p /\ Restart(s, Reaped(p), {}, budget)
  /\ master' = [master EXCEPT !.loop = @ - 1]
  /\ UNCHANGED <<daemon, early>>

\* Mutant: onEmit returns at a process it does not know.
ReapUnknownReturns ==
  /\ master.pc = "emit" /\ master.loop > 0
  /\ \E p \in Zombies :
       (\A s \in Slot : worker[s].pid # p) /\ proc' = Reaped(p)
  /\ master' = [master EXCEPT !.loop = 0]
  /\ UNCHANGED <<daemon, worker, conn, budget, deaths, early>>

\* waitpid returns a process that restart has killed: "not found".
ReapUnknown ==
  /\ master.pc = "emit" /\ master.loop > 0
  /\ \E p \in Zombies :
       (\A s \in Slot : worker[s].pid # p) /\ proc' = Reaped(p)
  /\ master' = [master EXCEPT !.loop = @ - 1]
  /\ UNCHANGED <<daemon, worker, conn, budget, deaths, early>>

-----------------------------------------------------------------------------
(* The workers *)

\* main of the node server up to its loop.
WorkerInit(p) ==
  /\ proc[p].st = "init"
  /\ proc' = [proc EXCEPT ![p] = [@ EXCEPT !.st = "run"]]
  /\ UNCHANGED <<daemon, master, worker, conn, budget, deaths, early>>

\* A worker process ends, and its connections with it.  SIGCHLD is only kept once it
\* is blocked.
Dies(p) ==
  /\ conn' = Closed(HeldBy(p))
  /\ IF proc[p].child
     THEN /\ proc' = [proc EXCEPT ![p] = [@ EXCEPT !.st = "zombie", !.queue = <<>>]]
          /\ master' = IF master.masked THEN [master EXCEPT !.sig = @ \cup {"CHLD"}]
                       ELSE master
          /\ deaths' = deaths + 1
          /\ early' = (early \/ ~master.masked)
     ELSE /\ proc' = [proc EXCEPT ![p] = NoProc]
          /\ UNCHANGED <<master, deaths, early>>
  /\ UNCHANGED <<daemon, worker>>

\* onRecvFd and onAccept.
OnRecvFd(p) ==
  LET c == Head(proc[p].queue)
  IN /\ proc[p].st = "run" /\ proc[p].queue # <<>>
     /\ proc' = [proc EXCEPT ![p].queue = Tail(@)]
     /\ conn' = [conn EXCEPT ![c] = [@ EXCEPT !.at = "worker"]]
     /\ UNCHANGED <<daemon, master, worker, budget, deaths, early>>

\* Without room for a descriptor recvmsg drops it and fd stays -1: nobody catches what
\* setblocking throws in onAccept.  Other errors of recvmsg end in exit.
OnRecvFdFails(p) ==
  /\ proc[p].st = "run" /\ proc[p].queue # <<>> /\ budget.fault > 0
  /\ budget' = [budget EXCEPT !.fault = @ - 1]
  /\ Dies(p)

\* Mutant: the end of the channel is taken for an error to ignore.
MasterGoneIgnored(p) ==
  /\ proc[p].st = "run" /\ proc[p].queue = <<>> /\ ~proc[p].child
  /\ UNCHANGED vars

\* recvmsg returns 0: "Master has exited, worker also automatically exit now".
MasterGone(p) ==
  /\ proc[p].st = "run" /\ proc[p].queue = <<>> /\ ~proc[p].child
  /\ proc' = [proc EXCEPT ![p] = NoProc]
  /\ conn' = Closed(HeldBy(p))
  /\ UNCHANGED <<daemon, master, worker, budget, deaths, early>>

\* A worker dies: in its initialisation, by an uncaught exception, by a signal.
WorkerDies(p) ==
  /\ Alive(p) /\ budget.crash > 0
  /\ budget' = [budget EXCEPT !.crash = @ - 1]
  /\ Dies(p)

\* The worker erases a connection: end of stream, error or timeout.
WorkerCloses(c) ==
  /\ conn[c].at = "worker"
  /\ conn' = Closed({c})
  /\ UNCHANGED <<daemon, master, worker, proc, budget, deaths, early>>

-----------------------------------------------------------------------------
(* The clients *)

Listening == master.pc \notin {"none", "bind", "deaf"}

Connect(c) ==
  /\ Listening /\ conn[c].at = "away"
  /\ conn' = [conn EXCEPT ![c] = [Away EXCEPT !.at = "backlog"]]
  /\ UNCHANGED <<daemon, master, worker, proc, budget, deaths, early>>

\* TCP may deliver a part of the session id.
Write(c) ==
  /\ conn[c].at \in {"backlog", "master"} /\ ~conn[c].eof
  /\ \/ conn[c].data = "none"
        /\ \E d \in {"part", "all"} : conn' = [conn EXCEPT ![c] = [@ EXCEPT !.data = d]]
     \/ conn[c].data = "part" /\ conn' = [conn EXCEPT ![c] = [@ EXCEPT !.data = "all"]]
  /\ UNCHANGED <<daemon, master, worker, proc, budget, deaths, early>>

\* A client that closes before it has sent a session id; what it does later is
\* nothing to the master.
HangUp(c) ==
  /\ conn[c].at \in {"backlog", "master"} /\ ~conn[c].eof /\ conn[c].data # "all"
  /\ conn' = [conn EXCEPT ![c] = [@ EXCEPT !.eof = TRUE]]
  /\ UNCHANGED <<daemon, master, worker, proc, budget, deaths, early>>

-----------------------------------------------------------------------------

Init ==
  /\ daemon = "up"
  /\ master = NoMaster
  /\ worker = [s \in Slot |-> NoWorker]
  /\ proc = [p \in Pid |-> NoProc]
  /\ conn = [c \in Conn |-> Away]
  /\ budget = [crash |-> MaxCrash, fault |-> MaxFault, boot |-> MaxBoot]
  /\ deaths = 0 /\ early = FALSE

Startup == ForkMaster \/ CreateAcceptor \/ StartWorker \/ StartSignals

Sending == SendFd \/ SendFdToDead

Emitting == EmitReturns \/ ReapWorker \/ ReapUnknown

WorkerLoop(p) == WorkerInit(p) \/ OnRecvFd(p) \/ MasterGone(p)

Client(c) == Connect(c) \/ Write(c) \/ HangUp(c)

Faults ==
  \/ ForkMasterFails \/ MasterDies \/ SendFdFails
  \/ \E p \in Pid : OnRecvFdFails(p) \/ WorkerDies(p)

Next ==
  \/ Startup \/ OnAccept \/ Sending \/ ReadSignals \/ Emitting \/ Faults
  \/ \E c \in Conn : Dispatch(c) \/ WorkerCloses(c) \/ Client(c)
  \/ \E p \in Pid : WorkerLoop(p)

Spec == Init /\ [][Next]_vars

\* The daemon, the master and the workers run.  epoll_wait reports every
\* descriptor that is ready, so no connection and no signal is passed over for ever.
LiveSpec ==
  /\ Spec
  /\ WF_vars(Startup) /\ WF_vars(Sending) /\ WF_vars(Emitting)
  /\ SF_vars(OnAccept) /\ SF_vars(ReadSignals)
  /\ \A c \in Conn : SF_vars(Dispatch(c))
  /\ \A p \in Pid : WF_vars(WorkerLoop(p))

-----------------------------------------------------------------------------
(* Properties *)

\* Types of the process tree, the channels and the connections; the channel never
\* holds more than its buffer.
TypeOK ==
  /\ daemon \in {"up", "gone"}
  /\ master.pc \in {"none", "bind", "deaf", "start", "loop", "send", "emit"}
  /\ master.sig \subseteq {"CHLD", "PIPE"} /\ master.next \in 0..numWorker
  /\ master.emits \in 0..2 /\ master.loop \in 0..ReapLoop
  /\ worker \in [Slot -> [status : {"Init", "OK", "Unknown"}, pid : Pid \cup {NoPid}]]
  /\ \A p \in Pid : /\ proc[p].st \in {"free", "init", "run", "zombie"}
                    /\ proc[p].queue \in Seq(Conn)
                    /\ Len(proc[p].queue) <= ChannelSize
  /\ \A c \in Conn : conn[c].at \in {"away", "backlog", "master", "channel", "worker"}

\* dispatch and restart: connections that were dispatched by the same session id are
\* never at two live processes of one master, whatever dies and is replaced and however
\* full the channels are.  The id dispatched by is the client's if it has arrived whole
\* by the time the master peeks at it and 2^32 - 1 if not, so that one client can be at
\* two workers; so can it be while a process of an earlier master is still serving.
SerialSessions ==
  \A c, d \in Conn :
    LET p == conn[c].pid
        q == conn[d].pid
    IN /\ p # NoPid /\ q # NoPid /\ p # q
       /\ conn[c].peek = conn[d].peek
       => ~proc[p].child \/ ~proc[q].child

\* A connection that is held is held by one process, in exactly one of its channel
\* and its connections; what restart kills or the end of the master leaves behind
\* keeps none: no descriptor is served twice and none is forgotten open.  The channels
\* keep their size and all variables their types.
HeldByTheLiving ==
  /\ TypeOK
  /\ \A c \in Conn : (conn[c].at \in {"channel", "worker"}) <=> (conn[c].pid # NoPid)
  /\ \A c \in Conn : conn[c].pid # NoPid =>
       /\ Alive(conn[c].pid)
       /\ Cardinality({i \in DOMAIN proc[conn[c].pid].queue :
                         proc[conn[c].pid].queue[i] = c})
            = (IF conn[c].at = "channel" THEN 1 ELSE 0)
  /\ \A p \in Pid : \A i \in DOMAIN proc[p].queue : conn[proc[p].queue[i]].pid = p

\* A slot whose process is dead and that nobody has noticed: no signal is pending.
Stranded(s) ==
  /\ master.pc = "loop" /\ master.sig = {}
  /\ worker[s].status = "OK" /\ ~Alive(worker[s].pid)

\* onEmit: although SIGCHLDs merge and restart leaves processes behind that no slot
\* knows, a dead worker is overlooked only if it died before the signals were blocked
\* or at least four processes died.
ReapedUpToThree == \A s \in Slot : Stranded(s) => early \/ deaths > ReapLoop

\* onEmit and restart: a slot whose worker died has a live worker again, unless it
\* could not be started, died unnoticed, or the master is no more.
SlotRecovers ==
  \A s \in Slot :
    (worker[s].status = "OK" /\ ~Alive(worker[s].pid))
      ~> (\/ worker[s].status # "OK" \/ Alive(worker[s].pid)
          \/ early \/ deaths > ReapLoop)

\* dispatch: a connection with something to read leaves the master in the end, to a
\* worker or to be closed; a full channel does not hold it up, nor the death of the
\* worker that should make room, which the master could not notice while in sendmsg.
ConnDispatched == \A c \in Conn : Readable(c) ~> conn[c].at # "master"

\* onRecvFd: a worker whose master is gone serves what is in its channel and exits.
OrphansExit == \A p \in Pid : (Alive(p) /\ ~proc[p].child) ~> (proc[p].st = "free" \/ proc[p].child)
=============================================================================
