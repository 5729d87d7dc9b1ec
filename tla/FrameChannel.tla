---------------------------- MODULE FrameChannel ----------------------------
(***************************************************************************)
(* One TCP connection and the messages that go through it in one           *)
(* direction: at one end Connection::sendBin, onConnected and onWrite over *)
(* SockBuffer, with the registration of events by TcpSock, SocketHandler   *)
(* and EventEpoll; at the other end Connection::onRead over                *)
(* SockBuffer::pump, JsonProtoConsumer::onData and                         *)
(* ServerContext::requestDispatch.                                         *)
(*                                                                         *)
(* A frame of len units is <<id, 1>>, ..., <<id, len>>; its header is the  *)
(* first HeaderSize units, and the last of them tells the length.          *)
(***************************************************************************)
EXTENDS BlockBuffer, SequencesExt

CONSTANTS
  HeaderSize,    \* JSON_HEADER_SIZE
  FrameSize,     \* the sizes a frame may have
  WireSize,      \* bound: units in the kernel's buffers and in the network
  MaxSends,      \* bound: messages
  MaxFaults      \* bound: failures of network, memory and handlers

ASSUME FrameAssumption ==
  /\ HeaderSize \in Nat \ {0} /\ WireSize \in Nat \ {0}
  /\ MaxSends \in Nat /\ MaxFaults \in Nat
  /\ \A n \in FrameSize : n \in Nat /\ n > HeaderSize

VARIABLES
  state,         \* the sending Connection: "new", "connecting", "connected" or "erased"
  client,        \* it was made by connectServer, and not by accept
  bEnable, lazy, \* bEnable; its id is in lazyDelIds
  output,        \* _output
  selevent,      \* m_sock_flags.selevent
  selected,      \* the handler is in EventEpoll::_sockets
  interest,      \* what the kernel's epoll set holds
  up,            \* the TCP connection is up
  wire,          \* units on their way
  reader,        \* the receiving Connection: "idle", "parse" or "erased"
  input,         \* its _input
  pos,           \* ForwardBuf::m_pos
  frames,        \* history: the size of every message, by id
  accepted,      \* history: the ids of the messages that sendBin took
  consumed,      \* history: the ids handled, 0 for a frame that is not whole
  torn,          \* history: a partly sent frame was not followed by setEnable(false)
  died,          \* the sending process ended by an exception nobody catches
  faults

conn == <<state, client, bEnable, lazy>>
events == <<selevent, selected, interest>>
net == <<up, wire>>
recving == <<reader, input, pos>>
history == <<frames, accepted, consumed, torn>>
vars == <<conn, output, events, net, recving, history, died, faults>>

Frame(id) == [i \in 1..frames[id] |-> <<id, i>>]
Room == WireSize - Len(wire)
Fault(really) == IF really THEN faults < MaxFaults /\ faults' = faults + 1 ELSE UNCHANGED faults

\* The memory is short (a fault) or not.
Memory(mem) == Fault(~mem)

-----------------------------------------------------------------------------
(* Registration of events *)

\* Mutant: what is selected already is not considered.
AddEventToggles(remove, add) ==
  LET r == remove \intersect selevent
      a == add \ selevent
      now == (selevent \ r) \union a
  IN IF r \union a = {} THEN UNCHANGED events
     ELSE /\ interest' = IF selected THEN a ELSE {"R"} \union (a \intersect {"W"})
          /\ selevent' = now /\ selected' = TRUE

\* SocketHandler::addEvent with EventEpoll::addEventHandler: EPOLL_CTL_ADD registers
\* for reading whatever was asked for.
AddEvent(remove, add) ==
  LET r == (remove \ add) \intersect selevent
      a == add \ selevent
      now == (selevent \ r) \union a
  IN IF r \union a = {} THEN UNCHANGED events
     ELSE /\ interest' = IF selected THEN now ELSE {"R"} \union (a \intersect {"W"})
          /\ selevent' = now /\ selected' = TRUE

\* The destructors: removeEventHandler, and the socket is closed; what was sent is
\* still delivered.
Erase ==
  /\ state' = "erased" /\ output' = EmptyBuffer /\ interest' = {} /\ selected' = FALSE
  /\ UNCHANGED <<client, bEnable, lazy, selevent>>

-----------------------------------------------------------------------------
(* The sending end *)

\* createConnection of a client: connect is under way, or succeeds at once and
\* addEvent(0, EVENT_CONNECTING) calls onConnected, which has nothing to flush.
Connect(now) ==
  /\ state = "new"
  /\ client' = TRUE
  /\ IF now THEN state' = "connected" /\ AddEvent({"R", "W"}, {"R"})
     ELSE state' = "connecting" /\ AddEvent({}, {"R", "W"})
  /\ UNCHANGED <<bEnable, lazy, output, net, recving, history, died, faults>>

\* createConnection for an accepted socket.
Accept ==
  /\ state = "new"
  /\ client' = FALSE /\ state' = "connected"
  /\ AddEvent({}, {"R"})
  /\ UNCHANGED <<bEnable, lazy, output, net, recving, history, died, faults>>

\* SockBuffer::write: what the socket does not take at once is buffered.  nsent is what
\* it takes; send is only tried when nothing is buffered.
Written(frame, nsent, mem) == BufferAppend(output, SubSeq(frame, nsent + 1, Len(frame)), mem)

\* Who sends, and where an exception ends: dispatchById disables the connection, the
\* onRead around answer erases it; nobody looks after a connection whose first message
\* fails (the exception ends another connection, or the process from a timer).
Caller == IF ~client THEN "answer" ELSE IF accepted = <<>> /\ frames = <<>> THEN "first" ELSE "dispatchById"

Throws(partly) ==
  CASE Caller = "answer" -> Erase /\ UNCHANGED <<torn, died>>
    [] Caller = "dispatchById" ->
         /\ bEnable' = FALSE /\ lazy' = TRUE
         /\ UNCHANGED <<state, client, output, events, torn, died>>
    [] Caller = "first" ->
         /\ died' \in BOOLEAN
         /\ torn' = partly
         /\ UNCHANGED <<conn, output, events>>

\* sendBin on a connection that is disabled: the message is dropped.
SendDisabled(size) ==
  /\ state \in {"connecting", "connected"} /\ ~died /\ Len(frames) < MaxSends
  /\ ~bEnable
  /\ frames' = Append(frames, size)
  /\ UNCHANGED <<conn, output, events, net, recving, accepted, consumed, torn, died, faults>>

\* sendBin before the connection is up: the message is buffered.
SendEarly(size, mem) ==
  LET r == Written([i \in 1..size |-> <<Len(frames) + 1, i>>], 0, mem)
  IN /\ state = "connecting" /\ ~died /\ Len(frames) < MaxSends
     /\ bEnable
     /\ Memory(mem)
     /\ frames' = Append(frames, size)
     /\ IF r.ok
        THEN /\ output' = r.buf /\ accepted' = Append(accepted, Len(frames) + 1)
             /\ UNCHANGED <<conn, events, torn, died>>
        ELSE Throws(FALSE) /\ UNCHANGED accepted
     /\ UNCHANGED <<net, recving, consumed>>

\* Mutant: bEnable is not looked at.
SendAnyway(size, nsent, mem) ==
  LET frame == [i \in 1..size |-> <<Len(frames) + 1, i>>]
      r == Written(frame, nsent, mem)
  IN /\ state = "connected" /\ ~died /\ Len(frames) < MaxSends
     /\ up
     /\ nsent \in 0..(IF output.data = <<>> THEN size ELSE 0) /\ nsent <= Room
     /\ Memory(mem)
     /\ frames' = Append(frames, size)
     /\ wire' = wire \o SubSeq(frame, 1, nsent)
     /\ IF r.ok
        THEN /\ output' = r.buf /\ accepted' = Append(accepted, Len(frames) + 1)
             /\ IF r.buf.data = <<>> THEN UNCHANGED events ELSE AddEvent({}, {"W"})
             /\ UNCHANGED <<conn, torn, died>>
        ELSE Throws(nsent > 0) /\ UNCHANGED accepted
     /\ UNCHANGED <<up, recving, consumed>>

\* Mutant: a rest that is buffered is not announced to the event loop.
SendUnarmed(size, nsent, mem) ==
  LET frame == [i \in 1..size |-> <<Len(frames) + 1, i>>]
      r == Written(frame, nsent, mem)
  IN /\ state = "connected" /\ ~died /\ Len(frames) < MaxSends
     /\ bEnable /\ up
     /\ nsent \in 0..(IF output.data = <<>> THEN size ELSE 0) /\ nsent <= Room
     /\ Memory(mem)
     /\ frames' = Append(frames, size)
     /\ wire' = wire \o SubSeq(frame, 1, nsent)
     /\ IF r.ok
        THEN /\ output' = r.buf /\ accepted' = Append(accepted, Len(frames) + 1)
             /\ UNCHANGED <<conn, events, torn, died>>
        ELSE Throws(nsent > 0) /\ UNCHANGED accepted
     /\ UNCHANGED <<up, recving, consumed>>

\* sendBin on a connection that is up.
Send(size, nsent, mem) ==
  LET frame == [i \in 1..size |-> <<Len(frames) + 1, i>>]
      r == Written(frame, nsent, mem)
  IN /\ state = "connected" /\ ~died /\ Len(frames) < MaxSends
     /\ bEnable /\ up
     /\ nsent \in 0..(IF output.data = <<>> THEN size ELSE 0) /\ nsent <= Room
     /\ Memory(mem)
     /\ frames' = Append(frames, size)
     /\ wire' = wire \o SubSeq(frame, 1, nsent)
     /\ IF r.ok
        THEN /\ output' = r.buf /\ accepted' = Append(accepted, Len(frames) + 1)
             /\ IF r.buf.data = <<>> THEN UNCHANGED events ELSE AddEvent({}, {"W"})
             /\ UNCHANGED <<conn, torn, died>>
        ELSE Throws(nsent > 0) /\ UNCHANGED accepted
     /\ UNCHANGED <<up, recving, consumed>>

\* sendBin on a connection the peer or the network has ended: send fails, or the
\* message is buffered behind others.
SendBroken(size, mem) ==
  LET r == Written([i \in 1..size |-> <<Len(frames) + 1, i>>], 0, mem)
  IN /\ state = "connected" /\ ~died /\ Len(frames) < MaxSends
     /\ bEnable /\ ~up
     /\ Memory(mem)
     /\ frames' = Append(frames, size)
     /\ IF output.data # <<>> /\ r.ok
        THEN /\ output' = r.buf /\ accepted' = Append(accepted, Len(frames) + 1)
             /\ AddEvent({}, {"W"})
             /\ UNCHANGED <<conn, torn, died>>
        ELSE Throws(FALSE) /\ UNCHANGED accepted
     /\ UNCHANGED <<net, recving, consumed>>

\* flush
Flush(n) ==
  /\ wire' = wire \o SubSeq(output.data, 1, n)
  /\ output' = BufferErase(output, n)

\* EVENT_WRITE of a connection that is not up: onConnected flushes what has queued up.
OnConnected(n) ==
  /\ state = "connecting" /\ ~died /\ "W" \in interest
  /\ n \in 0..Len(output.data) /\ n <= Room
  /\ state' = "connected"
  /\ Flush(n)
  /\ AddEvent({"R", "W"}, IF n < Len(output.data) THEN {"R", "W"} ELSE {"R"})
  /\ UNCHANGED <<client, bEnable, lazy, up, recving, history, died, faults>>

\* The peer has gone since: flush throws through poll, and nothing catches it.
OnConnectedThrows ==
  /\ state = "connecting" /\ ~died /\ output.data # <<>>
  /\ Fault(TRUE)
  /\ state' = "connected" /\ died' = TRUE /\ up' = FALSE /\ wire' = <<>>
  /\ UNCHANGED <<client, bEnable, lazy, output, events, recving, history>>

\* doEvent on a handler that this iteration of poll has deleted may do anything or
\* nothing.
PollDeleted == died' \in BOOLEAN

\* The connect is refused: poll calls EVENT_READ, which erases the connection, and for
\* EPOLLOUT, which comes with the error, EVENT_WRITE.
ConnectRefused ==
  /\ state = "connecting" /\ ~died
  /\ Fault(TRUE)
  /\ Erase
  /\ PollDeleted
  /\ up' = FALSE
  /\ UNCHANGED <<wire, recving, history>>

\* EVENT_TIMEOUT of a connect that gets no answer.
ConnectTimeout ==
  /\ state = "connecting" /\ ~died
  /\ Fault(TRUE)
  /\ Erase
  /\ UNCHANGED <<net, recving, history, died>>

\* EVENT_WRITE of a connection that is up.
OnWrite(n) ==
  /\ state = "connected" /\ ~died /\ up /\ "W" \in interest
  /\ n \in 1..Room /\ n <= Len(output.data)
  /\ Flush(n)
  /\ IF n = Len(output.data) THEN AddEvent({"W"}, {}) ELSE UNCHANGED events
  /\ UNCHANGED <<conn, up, recving, history, died, faults>>

\* EVENT_READ of the sending end when the peer has ended the connection: recv returns 0
\* or throws.  EVENT_WRITE follows if it is registered and the socket is writable too.
OnReadClosed(writable) ==
  /\ state = "connected" /\ ~died /\ ~up /\ "R" \in interest
  /\ writable => "W" \in interest
  /\ Erase
  /\ IF writable THEN PollDeleted ELSE UNCHANGED died
  /\ UNCHANGED <<net, recving, history, faults>>

\* LazyDelConnManager::doEvent
LazyDelete ==
  /\ state \in {"connecting", "connected"} /\ ~died /\ lazy
  /\ IF bEnable THEN lazy' = FALSE /\ UNCHANGED <<state, client, bEnable, output, events>>
     ELSE Erase
  /\ UNCHANGED <<net, recving, history, died, faults>>

\* A reset, by the network or the peer's end: what is on its way is lost.
Reset ==
  /\ up /\ state \in {"connected", "erased"} /\ reader # "erased"
  /\ Fault(TRUE)
  /\ up' = FALSE /\ wire' = <<>>
  /\ UNCHANGED <<conn, output, events, recving, history, died>>

-----------------------------------------------------------------------------
(* The receiving end *)

\* The connection is deleted; data nobody will read resets it.
ReaderErase ==
  /\ reader' = "erased" /\ input' = EmptyBuffer /\ pos' = 0
  /\ up' = FALSE /\ wire' = <<>>

\* The part of pump before recv.
Grown(mem) ==
  IF freespace(input) < BlockSize \div 2 /\ input.block < MaxBlocks
  THEN IncreaseCapacity(input, BlockSize, mem).buf ELSE input

\* onRead: pump receives n units, then onData looks at them.
Pump(n, mem) ==
  LET b == Grown(mem)
  IN /\ reader = "idle" /\ wire # <<>>
     /\ Memory(mem)
     /\ n \in 1..Len(wire) /\ n <= freespace(b)
     /\ input' = [b EXCEPT !.data = @ \o SubSeq(wire, 1, n)]
     /\ wire' = SubSeq(wire, n + 1, Len(wire))
     /\ reader' = "parse" /\ pos' = 0
     /\ UNCHANGED <<conn, output, events, up, history, died>>

\* onRead: no space is left for a frame that is longer than the buffer may grow, the
\* peer has closed, or recv fails.
PumpEnds(mem) ==
  /\ reader = "idle"
  /\ IF wire # <<>> THEN Memory(mem) /\ freespace(Grown(mem)) = 0
     ELSE mem /\ (state = "erased" \/ died \/ ~up) /\ UNCHANGED faults
  /\ ReaderErase
  /\ UNCHANGED <<conn, output, events, history, died>>

Left == Len(input.data) - pos
RealLen == frames[input.data[pos + HeaderSize][1]]

\* onData: a header, and as much as it says.
Complete == Left >= HeaderSize /\ Left >= RealLen

\* The message a frame is, 0 if it is put together from pieces.
Content(frame) == IF frame = Frame(frame[1][1]) THEN frame[1][1] ELSE 0

\* onData with a complete frame: popHeader, then doRequest, which calls the handler of
\* its uri, or logs an unknown uri.
OnData ==
  /\ reader = "parse" /\ Complete
  /\ consumed' = Append(consumed, Content(SubSeq(input.data, pos + 1, pos + RealLen)))
  /\ pos' = pos + RealLen
  /\ UNCHANGED <<conn, output, events, net, reader, input, frames, accepted, torn, died, faults>>

\* The handler, or the JSON archive before it, throws: onRead erases the connection.
OnDataThrows ==
  /\ reader = "parse" /\ Complete
  /\ Fault(TRUE)
  /\ ReaderErase
  /\ UNCHANGED <<conn, output, events, history, died>>

\* onData needs more: what has been handled is erased.
OnDataReturns ==
  /\ reader = "parse" /\ ~Complete
  /\ input' = BufferErase(input, pos)
  /\ reader' = "idle" /\ pos' = 0
  /\ UNCHANGED <<conn, output, events, net, history, died, faults>>

-----------------------------------------------------------------------------

Init ==
  /\ state = "new" /\ client = FALSE /\ bEnable = TRUE /\ lazy = FALSE
  /\ output = EmptyBuffer /\ selevent = {} /\ selected = FALSE /\ interest = {}
  /\ up = TRUE /\ wire = <<>>
  /\ reader = "idle" /\ input = EmptyBuffer /\ pos = 0
  /\ frames = <<>> /\ accepted = <<>> /\ consumed = <<>> /\ torn = FALSE
  /\ died = FALSE /\ faults = 0

Sending ==
  \/ \E size \in FrameSize : SendDisabled(size)
  \/ \E size \in FrameSize, mem \in BOOLEAN : SendEarly(size, mem) \/ SendBroken(size, mem)
  \/ \E size \in FrameSize, n \in 0..WireSize, mem \in BOOLEAN : Send(size, n, mem)

Polling ==
  \/ \E n \in 0..WireSize : OnConnected(n) \/ OnWrite(n)
  \/ OnConnectedThrows \/ ConnectRefused \/ ConnectTimeout
  \/ \E writable \in BOOLEAN : OnReadClosed(writable)
  \/ LazyDelete

Reading ==
  \/ \E n \in 1..WireSize, mem \in BOOLEAN : Pump(n, mem)
  \/ \E mem \in BOOLEAN : PumpEnds(mem)
  \/ OnData \/ OnDataThrows \/ OnDataReturns

Next ==
  \/ \E now \in BOOLEAN : Connect(now)
  \/ Accept \/ Sending \/ Polling \/ Reading \/ Reset

Spec == Init /\ [][Next]_vars

\* Both event loops run, and the peer answers a connect.
Fairness ==
  /\ WF_vars(\E n \in 0..WireSize : OnConnected(n) \/ OnWrite(n))
  /\ WF_vars(PumpEnds(TRUE) \/ \E n \in 1..WireSize : Pump(n, TRUE))
  /\ WF_vars(OnData \/ OnDataReturns)

LiveSpec == Spec /\ Fairness

-----------------------------------------------------------------------------
(* Properties *)

\* Types; both buffers keep within their blocks and their limit (SockBuffer::pump,
\* BlockBuffer::increase_capacity).
TypeOK ==
  /\ state \in {"new", "connecting", "connected", "erased"}
  /\ reader \in {"idle", "parse", "erased"}
  /\ selevent \subseteq {"R", "W"} /\ interest \subseteq {"R", "W"}
  /\ BufferOK(output) /\ BufferOK(input)
  /\ Len(wire) <= WireSize /\ pos <= Len(input.data)
  /\ faults \in 0..MaxFaults

\* onData: the peer handles the messages sendBin took, each once, whole and in order,
\* whatever the pieces in which they were sent, received and buffered, and whichever
\* send failed.  The exception is a first message of which a part was sent and whose rest
\* found no memory: connectServer keeps the connection.
InOrder == torn \/ IsPrefix(consumed, accepted)

\* addEvent: while data is buffered on a connection that is up, the kernel reports when
\* it can be sent, and selevent is what the kernel holds.
WriteArmed ==
  /\ state = "connected" /\ ~died /\ output.data # <<>> => "W" \in interest
  /\ state \in {"connecting", "connected"} /\ ~died => interest = selevent

\* A connection implements a FIFO that loses nothing while it is open: with both event
\* loops running, what sendBin takes is handled by the peer or the connection ends, also
\* when memory is short, a frame is too long for the peer, or an exception is on its
\* way.  A connection with a torn first message counts as closed.
Fifo == INSTANCE LossyFifo WITH
  Id <- 1..MaxSends,
  consumed <- IF torn THEN <<>> ELSE consumed,
  open <- (up /\ state # "erased" /\ ~died /\ ~torn)
ImplementsFifo == Fifo!LiveSpec
=============================================================================
