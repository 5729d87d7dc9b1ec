------------------------- MODULE FrameChannelProofs --------------------------
(***************************************************************************)
(* Proofs about FrameChannel, for any sizes of blocks, frames, headers and *)
(* network buffers, and any number of messages and failures.               *)
(***************************************************************************)
EXTENDS FrameChannel, NaturalsInduction, WellFoundedInduction, SequenceTheorems, TLAPS

Unit == Nat \X Nat
Buffers == [data : Seq(Unit), block : Nat]

\* The types of all variables.
Flags ==
  /\ client \in BOOLEAN /\ bEnable \in BOOLEAN /\ lazy \in BOOLEAN /\ selected \in BOOLEAN
  /\ up \in BOOLEAN /\ torn \in BOOLEAN /\ died \in BOOLEAN
Data ==
  /\ state \in {"new", "connecting", "connected", "erased"}
  /\ output \in Buffers /\ input \in Buffers /\ wire \in Seq(Unit)
  /\ selevent \subseteq {"R", "W"} /\ interest \subseteq {"R", "W"}
  /\ reader \in {"idle", "parse", "erased"} /\ pos \in Nat
  /\ frames \in Seq(Nat) /\ accepted \in Seq(Nat) /\ consumed \in Seq(Nat)
  /\ faults \in 0..MaxFaults
Types == Flags /\ Data

\* Both buffers keep within their blocks, and the network within its bound.
BoundsOK ==
  /\ BufferOK(output) /\ BufferOK(input)
  /\ Len(wire) <= WireSize /\ pos <= Len(input.data)

\* The registered events.
EventsOK ==
  /\ state = "new" => selevent = {} /\ ~selected
  /\ state = "connecting" => selevent = {"R", "W"}
  /\ state = "connected" => "R" \in selevent
  /\ state \in {"connecting", "connected"} => selected /\ interest = selevent
  /\ state = "connected" /\ ~died /\ output.data # <<>> => "W" \in selevent

\* A connection that is not up yet, or no more, has nothing on its way.
PhaseOK ==
  /\ state \in {"new", "connecting"} =>
       wire = <<>> /\ input.data = <<>> /\ (died \/ (up /\ reader = "idle"))
  /\ state = "new" => output.data = <<>> /\ frames = <<>> /\ accepted = <<>> /\ bEnable
  /\ ~up => wire = <<>>
  /\ reader # "parse" => pos = 0
  /\ reader = "erased" => ~up /\ input.data = <<>>
  /\ torn => frames # <<>>

-----------------------------------------------------------------------------
(* The stream of units from the sender's buffer to the receiver's *)

\* What is still to be handled; what a sender without connection has buffered is lost.
Coming == IF up THEN output.data ELSE <<>>
Stream == SubSeq(input.data, pos + 1, Len(input.data)) \o (wire \o Coming)

\* Message b is sent next after a: it is accepted next, or it is none that is accepted.
Follows(a, b, acc) ==
  \E j \in 1..Len(acc) :
    acc[j] = a /\ IF j < Len(acc) THEN b = acc[j + 1] ELSE \A i \in 1..Len(acc) : b # acc[i]

\* Unit v comes after unit u: the next of the same frame, or the first of the next.
Linked(u, v, fr, acc) ==
  \/ v[1] = u[1] /\ v[2] = u[2] + 1 /\ u[2] < fr[u[1]]
  \/ u[2] = fr[u[1]] /\ v[2] = 1 /\ Follows(u[1], v[1], acc)

\* The units of s are those of messages; of one that is not accepted they are not all.
UnitsOK(s, fr, acc) ==
  \A i \in 1..Len(s) :
    /\ s[i][1] \in 1..Len(fr) /\ s[i][2] \in 1..fr[s[i][1]]
    /\ (\A j \in 1..Len(acc) : acc[j] # s[i][1]) => s[i][2] < fr[s[i][1]]

\* s starts with the message after the first k accepted ones.
StartsOK(s, acc, k) ==
  s # <<>> => /\ s[1][2] = 1
              /\ \/ k < Len(acc) /\ s[1][1] = acc[k + 1]
                 \/ k = Len(acc) /\ \A j \in 1..Len(acc) : acc[j] # s[1][1]

\* Units come one after the other.
ChainOK(s, fr, acc) == \A i \in 1..Len(s) - 1 : Linked(s[i], s[i + 1], fr, acc)

\* s ends with the last accepted message, and is empty when all are handled.
EndsOK(s, fr, acc, k) ==
  /\ s = <<>> => k = Len(acc)
  /\ s # <<>> => Len(acc) > 0 /\ s[Len(s)] = <<acc[Len(acc)], fr[acc[Len(acc)]]>>

\* All units are of messages that are accepted.
OnlyAccepted(s, acc) == \A i \in 1..Len(s) : \E j \in 1..Len(acc) : acc[j] = s[i][1]

\* The messages have increasing numbers, and those handled are the first accepted ones.
HandledOK(fr, acc, con) ==
  /\ \A i \in 1..Len(acc) : acc[i] \in 1..Len(fr)
  /\ \A i, j \in 1..Len(acc) : i < j => acc[i] < acc[j]
  /\ Len(con) <= Len(acc) /\ \A i \in 1..Len(con) : con[i] = acc[i]

\* A connection that goes on accepting messages sends them.
Sends == state \in {"new", "connecting", "connected"} /\ bEnable

\* The stream s is what the messages accepted and not yet handled are.
StreamOK(s, fr, acc, con) ==
  /\ HandledOK(fr, acc, con)
  /\ UnitsOK(s, fr, acc) /\ StartsOK(s, acc, Len(con)) /\ ChainOK(s, fr, acc)

\* The units that a buffer or the network holds belong to messages.
KnownUnits(s, fr) == \A i \in 1..Len(s) : s[i][1] \in 1..Len(fr)

Sizes(fr) == \A i \in 1..Len(fr) : fr[i] > HeaderSize
Known ==
  /\ KnownUnits(input.data, frames) /\ KnownUnits(wire, frames) /\ KnownUnits(output.data, frames)
  /\ Sizes(frames)

Base == Types /\ BoundsOK /\ EventsOK /\ PhaseOK /\ Known

\* Unless the first message is torn, the stream is what it has to be, for a connection that
\* goes on sending to its end.
StreamInv ==
  ~torn => /\ StreamOK(Stream, frames, accepted, consumed)
           /\ Sends => OnlyAccepted(Stream, accepted)
           /\ Sends /\ up => EndsOK(Stream, frames, accepted, Len(consumed))

FrameInv == Base /\ StreamInv

-----------------------------------------------------------------------------
(* BlockBuffer *)

\* Rounding up.
LEMMA RoundUp ==
  ASSUME NEW B \in Nat \ {0}, NEW k \in Nat, NEW x \in Nat \ {0}
  PROVE  /\ k + x \div B + (IF x % B > 0 THEN 1 ELSE 0) \in Nat
         /\ (k + x \div B + (IF x % B > 0 THEN 1 ELSE 0)) * B >= k * B + x
<1>1. PICK q \in Int, m \in Int : q = x \div B /\ m = (x % B)
  OBVIOUS
<1>2. x = B * q + m /\ 0 <= m /\ m < B
  BY <1>1
<1>3. q >= 0
  BY <1>2
<1>4. CASE m > 0
  <2>1. (k + q + 1) * B = k * B + B * q + B /\ k * B \in Int /\ B * q \in Int
    OBVIOUS
  <2>2. (k + q + 1) * B >= k * B + x
    BY <1>2, <2>1
  <2>3. QED
    BY <1>1, <1>3, <1>4, <2>2
<1>5. CASE ~(m > 0)
  <2>1. (k + q + 0) * B = k * B + B * q /\ k * B \in Int /\ B * q \in Int
    OBVIOUS
  <2>2. (k + q + 0) * B >= k * B + x
    BY <1>2, <1>5, <2>1
  <2>3. QED
    BY <1>1, <1>3, <1>5, <2>2
<1>6. QED
  BY <1>4, <1>5

\* increase_capacity: what is asked for fits, or nothing has changed.
LEMMA IncreaseIs ==
  ASSUME NEW b \in Buffers, BufferOK(b), NEW size \in Nat, NEW mem,
         NEW r, r = IncreaseCapacity(b, size, mem)
  PROVE  /\ r.ok \in BOOLEAN /\ r.buf \in Buffers /\ BufferOK(r.buf) /\ r.buf.data = b.data
         /\ r.ok => freespace(r.buf) >= size
<1>1. BlockSize \in Nat \ {0} /\ MaxBlocks \in Nat \ {0}
  BY BlockBufferAssumption
<1>2. PICK k \in Nat, d \in Seq(Unit) : k = b.block /\ d = b.data
  BY DEF Buffers
<1>3. k * BlockSize \in Nat /\ Len(d) \in Nat /\ Len(d) <= k * BlockSize
  BY <1>1, <1>2 DEF BufferOK, capacity
<1>4. PICK f \in Nat : f = freespace(b) /\ f = k * BlockSize - Len(d)
  BY <1>2, <1>3 DEF freespace, capacity
<1>5. CASE size = 0 \/ f >= size
  <2>1. r = [ok |-> TRUE, buf |-> b]
    BY <1>4, <1>5 DEF IncreaseCapacity, Returns
  <2>2. r.ok = TRUE /\ r.buf = b /\ f >= size
    BY <1>5, <2>1
  <2>3. QED
    BY <1>4, <2>2
<1>6. CASE ~(size = 0 \/ f >= size)
  <2>1. PICK x \in Nat \ {0} : x = size - f
    BY <1>6
  <2> DEFINE nb == k + x \div BlockSize + (IF x % BlockSize > 0 THEN 1 ELSE 0)
  <2>2. nb \in Nat /\ nb * BlockSize >= k * BlockSize + x
    BY <1>1, RoundUp
  <2>3. r = IF nb > MaxBlocks \/ ~mem THEN [ok |-> FALSE, buf |-> b]
            ELSE [ok |-> TRUE, buf |-> [b EXCEPT !.block = nb]]
    BY <1>2, <1>4, <1>6, <2>1 DEF IncreaseCapacity, Returns
  <2> HIDE DEF nb
  <2>4. CASE nb > MaxBlocks \/ ~mem
    BY <2>3, <2>4
  <2>5. CASE ~(nb > MaxBlocks \/ ~mem)
    <3>1. r.ok = TRUE /\ r.buf = [b EXCEPT !.block = nb]
      BY <2>3, <2>5
    <3>2. r.buf \in Buffers /\ r.buf.data = b.data /\ r.buf.block = nb
      BY <2>2, <3>1 DEF Buffers
    <3>3. PICK c \in Int : c = nb * BlockSize
      BY <1>1, <2>2
    <3>4. Len(d) <= c /\ c - Len(d) >= size
      <4>1. PICK c0 \in Nat : c0 = k * BlockSize
        BY <1>3
      <4>2. c >= c0 + x /\ Len(d) <= c0 /\ x = size - (c0 - Len(d)) /\ Len(d) \in Nat
        BY <1>3, <1>4, <2>1, <2>2, <3>3, <4>1
      <4>3. QED
        BY <4>2
    <3>5. nb \in 0..MaxBlocks
      BY <1>1, <2>2, <2>5
    <3>6. BufferOK(r.buf)
      BY <1>2, <3>2, <3>3, <3>4, <3>5 DEF BufferOK, capacity
    <3>7. freespace(r.buf) >= size
      BY <1>2, <3>2, <3>3, <3>4 DEF freespace, capacity
    <3>8. QED
      BY <3>1, <3>2, <3>6, <3>7
  <2>6. QED
    BY <2>4, <2>5
<1>7. QED
  BY <1>5, <1>6

\* append: the contents are there behind the others, and the buffer keeps its limit.
LEMMA AppendBuf ==
  ASSUME NEW b \in Buffers, BufferOK(b), NEW s \in Seq(Unit), NEW mem,
         NEW r, r = BufferAppend(b, s, mem)
  PROVE  /\ r.ok \in BOOLEAN /\ r.buf \in Buffers /\ BufferOK(r.buf)
         /\ r.ok => r.buf.data = b.data \o s
         /\ ~r.ok => s # <<>>
<1>1. CASE s = <<>>
  <2>1. r = [ok |-> TRUE, buf |-> b]
    BY <1>1 DEF BufferAppend, Returns
  <2>2. b.data \o s = b.data
    BY <1>1, ConcatEmptySeq DEF Buffers
  <2>3. QED
    BY <2>1, <2>2
<1>2. CASE s # <<>>
  <2>0. PICK n \in Nat : n = Len(s)
    OBVIOUS
  <2>1. PICK g : g = IncreaseCapacity(b, n, mem)
    OBVIOUS
  <2>2. /\ g.ok \in BOOLEAN /\ g.buf \in Buffers /\ BufferOK(g.buf) /\ g.buf.data = b.data
        /\ g.ok => freespace(g.buf) >= Len(s)
    <3>1. /\ g.ok \in BOOLEAN /\ g.buf \in Buffers /\ BufferOK(g.buf) /\ g.buf.data = b.data
          /\ g.ok => freespace(g.buf) >= n
      BY <2>1, IncreaseIs
    <3>2. QED
      BY <2>0, <3>1
  <2>3. r = IF g.ok THEN [ok |-> TRUE, buf |-> [g.buf EXCEPT !.data = b.data \o s]]
            ELSE [ok |-> FALSE, buf |-> b]
    BY <1>2, <2>0, <2>1, <2>2 DEF BufferAppend, Returns
  <2>4. CASE g.ok
    <3>1. r.ok = TRUE /\ r.buf = [g.buf EXCEPT !.data = b.data \o s]
      BY <2>3, <2>4
    <3>2. PICK t \in Seq(Unit) : t = b.data \o s /\ Len(t) = Len(b.data) + Len(s)
      BY ConcatProperties DEF Buffers
    <3>3. r.buf \in Buffers /\ r.buf.data = t /\ r.buf.block = g.buf.block
      BY <2>2, <3>1, <3>2 DEF Buffers
    <3>4. PICK k \in 0..MaxBlocks : k = g.buf.block
      BY <2>2 DEF BufferOK
    <3>5. k * BlockSize \in Nat /\ Len(b.data) \in Nat /\ Len(s) \in Nat
      BY BlockBufferAssumption DEF Buffers
    <3>6. Len(t) <= k * BlockSize
      BY <2>2, <2>4, <3>2, <3>4, <3>5 DEF freespace, capacity
    <3>7. BufferOK(r.buf)
      BY <3>3, <3>4, <3>6 DEF BufferOK, capacity
    <3>8. QED
      BY <3>1, <3>2, <3>3, <3>7
  <2>5. CASE ~g.ok
    BY <1>2, <2>3, <2>5
  <2>6. QED
    BY <2>2, <2>4, <2>5
<1>3. QED
  BY <1>1, <1>2

\* An empty buffer.
LEMMA EmptyIs ==
  EmptyBuffer \in Buffers /\ EmptyBuffer.data = <<>> /\ BufferOK(EmptyBuffer)
<1>1. EmptyBuffer \in Buffers /\ EmptyBuffer.data = <<>> /\ EmptyBuffer.block = 0
  BY DEF EmptyBuffer, Buffers
<1>2. 0 * BlockSize = 0 /\ 0 \in 0..MaxBlocks
  BY BlockBufferAssumption
<1>3. QED
  BY <1>1, <1>2 DEF BufferOK, capacity

\* erase: the first n units are gone.
LEMMA EraseBuf ==
  ASSUME NEW b \in Buffers, BufferOK(b), NEW n \in Nat
  PROVE  /\ BufferErase(b, n) \in Buffers /\ BufferOK(BufferErase(b, n))
         /\ BufferErase(b, n).data = SubSeq(b.data, n + 1, Len(b.data))
<1>1. PICK d \in Seq(Unit), l \in Nat : d = b.data /\ l = Len(d)
  BY DEF Buffers
<1>2. CASE n >= l
  <2>1. BufferErase(b, n) = EmptyBuffer
    BY <1>1, <1>2 DEF BufferErase
  <2>2. SubSeq(d, n + 1, l) = <<>>
    BY <1>2, SubSeqEmpty
  <2>3. QED
    BY <1>1, <2>1, <2>2, EmptyIs
<1>3. CASE ~(n >= l)
  <2>1. BufferErase(b, n) = [b EXCEPT !.data = SubSeq(d, n + 1, l)]
    BY <1>1, <1>3 DEF BufferErase
  <2>2. PICK t \in Seq(Unit) : t = SubSeq(d, n + 1, l) /\ Len(t) <= l
    <3>1. \A i \in n + 1..l : d[i] \in Unit
      BY <1>1, ElementOfSeq
    <3>2. SubSeq(d, n + 1, l) \in Seq(Unit) /\ Len(SubSeq(d, n + 1, l)) = l - (n + 1) + 1
      BY <1>3, <3>1, SubSeqProperties
    <3>3. PICK t : t = SubSeq(d, n + 1, l)
      OBVIOUS
    <3>4. t \in Seq(Unit) /\ Len(t) <= l
      BY <1>3, <3>2, <3>3
    <3>5. QED
      BY <3>3, <3>4
  <2>3. PICK e : e = BufferErase(b, n)
    OBVIOUS
  <2>4. e \in Buffers /\ e.data = t /\ e.block = b.block
    BY <2>1, <2>2, <2>3 DEF Buffers
  <2>5. BufferOK(e)
    <3>1. PICK c \in Nat : c = b.block * BlockSize /\ l <= c
      BY <1>1, BlockBufferAssumption DEF BufferOK, capacity
    <3>2. Len(t) <= c
      BY <2>2, <3>1
    <3>3. QED
      BY <2>4, <3>1, <3>2 DEF BufferOK, capacity
  <2>6. QED
    BY <1>1, <2>2, <2>3, <2>4, <2>5
<1>4. QED
  BY <1>2, <1>3

-----------------------------------------------------------------------------
(* Types, bounds and events *)

\* addEvent with EventEpoll: what is selected is what the kernel holds.
LEMMA AddEventIs ==
  ASSUME NEW remove \in SUBSET {"R", "W"}, NEW add \in SUBSET {"R", "W"},
         selevent \subseteq {"R", "W"}, AddEvent(remove, add),
         (selected /\ interest = selevent) \/ (selevent = {} /\ "R" \in add)
  PROVE  /\ selevent' = (selevent \ (remove \ add)) \union add
         /\ interest' = selevent' /\ selected'
         /\ selevent' \subseteq {"R", "W"} /\ interest' \subseteq {"R", "W"} /\ selected' \in BOOLEAN
<1> DEFINE r == (remove \ add) \intersect selevent
           a == add \ selevent
           now == (selevent \ r) \union a
<1>1. now = (selevent \ (remove \ add)) \union add /\ now \subseteq {"R", "W"}
  OBVIOUS
<1>2. CASE r \union a = {}
  <2>1. UNCHANGED events /\ now = selevent /\ add \subseteq selevent
    BY <1>2 DEF AddEvent
  <2>2. QED
    BY <1>1, <2>1 DEF events
<1>3. CASE r \union a # {}
  <2>1. /\ interest' = IF selected THEN now ELSE {"R"} \union (a \intersect {"W"})
        /\ selevent' = now /\ selected' = TRUE
    BY <1>3 DEF AddEvent
  <2>2. selevent = {} /\ "R" \in add => {"R"} \union (a \intersect {"W"}) = now
    OBVIOUS
  <2>3. selected \/ (selevent = {} /\ "R" \in add)
    OBVIOUS
  <2> HIDE DEF now, r, a
  <2>4. interest' = now
    BY <2>1, <2>2, <2>3
  <2>5. QED
    BY <1>1, <2>1, <2>4
<1>4. QED
  BY <1>2, <1>3

\* The bound on faults.
LEMMA FaultIs ==
  ASSUME Types, NEW really, Fault(really)
  PROVE  faults' \in 0..MaxFaults
<1>1. MaxFaults \in Nat /\ faults \in 0..MaxFaults
  BY FrameAssumption DEF Types, Data
<1>2. CASE really
  BY <1>1, <1>2 DEF Fault
<1>3. CASE ~really
  BY <1>1, <1>3 DEF Fault
<1>4. QED
  BY <1>2, <1>3

\* A connection is erased.
LEMMA BaseErase ==
  ASSUME Base, Erase, UNCHANGED <<recving, history, wire>>, up' \in BOOLEAN,
         up' = up \/ (~up' /\ wire = <<>>), died' \in BOOLEAN, faults' \in 0..MaxFaults
  PROVE  Base'
<1>1. /\ state' = "erased" /\ output' = EmptyBuffer /\ interest' = {} /\ selected' = FALSE
      /\ UNCHANGED <<client, bEnable, lazy, selevent>>
      /\ UNCHANGED <<reader, input, pos, frames, accepted, consumed, torn, wire>>
  BY DEF Erase, recving, history
<1>2. output' \in Buffers /\ output'.data = <<>> /\ BufferOK(output')
  BY <1>1, EmptyIs
<1>3. Types'
  <2>1. Flags'
    BY <1>1, Zenon DEF Base, Types, Flags
  <2>2. Data'
    BY <1>1, <1>2 DEF Base, Types, Data
  <2>3. QED
    BY <2>1, <2>2 DEF Types
<1>4. BoundsOK'
  <2>1. BufferOK(output)'
    BY <1>2 DEF BufferOK, capacity
  <2>2. BufferOK(input)'
    BY <1>1 DEF Base, BoundsOK, BufferOK, capacity
  <2>3. QED
    BY <1>1, <2>1, <2>2 DEF Base, BoundsOK
<1>5. EventsOK'
  BY <1>1 DEF EventsOK
<1>6. PhaseOK'
  BY <1>1 DEF Base, PhaseOK
<1>7. Known'
  BY <1>1, <1>2 DEF Base, Known, KnownUnits
<1>8. QED
  BY <1>3, <1>4, <1>5, <1>6, <1>7 DEF Base

\* The receiving connection is erased.
LEMMA BaseReaderErase ==
  ASSUME Base, ReaderErase, UNCHANGED <<conn, output, events, history, died>>,
         faults' \in 0..MaxFaults, state \in {"new", "connecting"} => died
  PROVE  Base'
<1>1. /\ reader' = "erased" /\ input' = EmptyBuffer /\ pos' = 0
      /\ up' = FALSE /\ wire' = <<>>
      /\ UNCHANGED <<state, client, bEnable, lazy, output, selevent, selected, interest,
                     frames, accepted, consumed, torn, died>>
  BY DEF ReaderErase, conn, events, history
<1>2. input' \in Buffers /\ input'.data = <<>> /\ BufferOK(input')
  BY <1>1, EmptyIs
<1>3. Types'
  <2>1. Flags'
    BY <1>1, Zenon DEF Base, Types, Flags
  <2>2. Data'
    BY <1>1, <1>2 DEF Base, Types, Data
  <2>3. QED
    BY <2>1, <2>2 DEF Types
<1>4. BoundsOK'
  <2>1. BufferOK(output)'
    BY <1>1 DEF Base, BoundsOK, BufferOK, capacity
  <2>2. BufferOK(input)'
    BY <1>2 DEF BufferOK, capacity
  <2>3. Len(wire') <= WireSize /\ pos' <= Len(input'.data)
    BY <1>1, <1>2, FrameAssumption
  <2>4. QED
    BY <2>1, <2>2, <2>3 DEF BoundsOK
<1>5. EventsOK'
  BY <1>1 DEF Base, EventsOK
<1>6. PhaseOK'
  BY <1>1, <1>2 DEF Base, PhaseOK
<1>7. Known'
  BY <1>1, <1>2 DEF Base, Known, KnownUnits
<1>8. QED
  BY <1>3, <1>4, <1>5, <1>6, <1>7 DEF Base

\* Steps that leave sequences as they are, or make the network's empty.
LEMMA BaseStep ==
  ASSUME Base, UNCHANGED <<output, recving, history>>, Types', EventsOK',
         wire' \in {wire, <<>>}, PhaseOK'
  PROVE  Base'
<1>1. UNCHANGED <<reader, input, pos, output, frames>>
  BY DEF recving, history
<1>2. Len(wire') <= WireSize
  BY FrameAssumption DEF Base, BoundsOK
<1>3. BoundsOK'
  BY <1>1, <1>2 DEF Base, BoundsOK, BufferOK, capacity
<1>4. Known'
  BY <1>1 DEF Base, Known, KnownUnits
<1>5. QED
  BY <1>3, <1>4 DEF Base

\* createConnection.
LEMMA ConnectBase ==
  ASSUME Base, NEW now \in BOOLEAN, Connect(now)
  PROVE  Base'
<1>1. /\ state = "new" /\ client' = TRUE /\ state' \in {"connecting", "connected"}
      /\ (state' = "connected" /\ AddEvent({"R", "W"}, {"R"}))
           \/ (state' = "connecting" /\ AddEvent({}, {"R", "W"}))
      /\ UNCHANGED <<bEnable, lazy, output, net, recving, history, died, faults>>
  BY DEF Connect
<1>2. selevent = {} /\ Types /\ output.data = <<>>
  BY <1>1 DEF Base, EventsOK, PhaseOK
<1>3. /\ (state' = "connected" /\ selevent' = {"R"}) \/ (state' = "connecting" /\ selevent' = {"R", "W"})
      /\ interest' = selevent' /\ selected' /\ selected' \in BOOLEAN
  <2>1. CASE state' = "connected" /\ AddEvent({"R", "W"}, {"R"})
    <3>1. {"R", "W"} \in SUBSET {"R", "W"} /\ {"R"} \in SUBSET {"R", "W"} /\ "R" \in {"R"}
      OBVIOUS
    <3>2. /\ selevent' = (selevent \ ({"R", "W"} \ {"R"})) \union {"R"}
          /\ interest' = selevent' /\ selected' /\ selected' \in BOOLEAN
      BY <1>2, <2>1, <3>1, AddEventIs
    <3>3. QED
      BY <1>2, <2>1, <3>2
  <2>2. CASE state' = "connecting" /\ AddEvent({}, {"R", "W"})
    <3>1. /\ selevent' = (selevent \ ({} \ {"R", "W"})) \union {"R", "W"}
          /\ interest' = selevent' /\ selected' /\ selected' \in BOOLEAN
      BY <1>2, <2>2, AddEventIs
    <3>2. QED
      BY <1>2, <2>2, <3>1
  <2>3. QED
    BY <1>1, <2>1, <2>2
<1>4. UNCHANGED <<bEnable, lazy, output, up, wire, reader, input, pos, frames, accepted, consumed,
                  torn, died, faults>>
  BY <1>1 DEF net, recving, history
<1>5. Types'
  <2>1. Flags'
    BY <1>1, <1>2, <1>3, <1>4, Zenon DEF Types, Flags
  <2>2. Data'
    BY <1>1, <1>2, <1>3, <1>4 DEF Types, Data
  <2>3. QED
    BY <2>1, <2>2 DEF Types
<1>6. EventsOK'
  BY <1>2, <1>3, <1>4 DEF EventsOK
<1>7. PhaseOK'
  BY <1>1, <1>3, <1>4 DEF Base, PhaseOK
<1>8. QED
  BY <1>1, <1>4, <1>5, <1>6, <1>7, BaseStep

\* createConnection for an accepted socket.
LEMMA AcceptBase ==
  ASSUME Base, Accept
  PROVE  Base'
<1>1. /\ state = "new" /\ client' = FALSE /\ state' = "connected" /\ AddEvent({}, {"R"})
      /\ UNCHANGED <<bEnable, lazy, output, net, recving, history, died, faults>>
  BY DEF Accept
<1>2. selevent = {} /\ Types /\ output.data = <<>>
  BY <1>1 DEF Base, EventsOK, PhaseOK
<1>3. selevent' = {"R"} /\ interest' = selevent' /\ selected' /\ selected' \in BOOLEAN
  BY <1>1, <1>2, AddEventIs DEF Types, Data
<1>4. UNCHANGED <<bEnable, lazy, output, up, wire, reader, input, pos, frames, accepted, consumed,
                  torn, died, faults>>
  BY <1>1 DEF net, recving, history
<1>5. Types'
  <2>1. Flags'
    BY <1>1, <1>2, <1>3, <1>4, Zenon DEF Types, Flags
  <2>2. Data'
    BY <1>1, <1>2, <1>3, <1>4 DEF Types, Data
  <2>3. QED
    BY <2>1, <2>2 DEF Types
<1>6. EventsOK'
  BY <1>1, <1>2, <1>3, <1>4 DEF EventsOK
<1>7. PhaseOK'
  BY <1>1, <1>4 DEF Base, PhaseOK
<1>8. QED
  BY <1>1, <1>4, <1>5, <1>6, <1>7, BaseStep

\* A connection ends: by a throw from flush, a refused connect, a timeout, the peer's end,
\* or the lazy deletion.
LEMMA EndsBase ==
  ASSUME Base,
         \/ OnConnectedThrows \/ ConnectRefused \/ ConnectTimeout \/ Reset \/ LazyDelete
         \/ \E writable \in BOOLEAN : OnReadClosed(writable)
  PROVE  Base'
<1>0. Types
  BY DEF Base
<1>1. CASE ConnectRefused
  <2>1. state = "connecting" /\ Fault(TRUE) /\ Erase /\ died' \in BOOLEAN /\ up' = FALSE
        /\ UNCHANGED <<wire, recving, history>>
    BY <1>1 DEF ConnectRefused, PollDeleted
  <2>2. wire = <<>> /\ faults' \in 0..MaxFaults
    BY <1>0, <2>1, FaultIs DEF Base, PhaseOK
  <2>3. QED
    BY <2>1, <2>2, BaseErase
<1>2. CASE ConnectTimeout
  <2>1. Fault(TRUE) /\ Erase /\ UNCHANGED <<up, wire, recving, history, died>>
    BY <1>2 DEF ConnectTimeout, net
  <2>2. faults' \in 0..MaxFaults /\ died' \in BOOLEAN /\ up' \in BOOLEAN
    BY <1>0, <2>1, FaultIs DEF Types, Flags
  <2>3. QED
    BY <2>1, <2>2, BaseErase
<1>3. CASE \E writable \in BOOLEAN : OnReadClosed(writable)
  <2>1. Erase /\ died' \in BOOLEAN /\ UNCHANGED <<up, wire, recving, history, faults>>
    BY <1>0, <1>3, Zenon DEF OnReadClosed, net, PollDeleted, Types, Flags
  <2>2. faults' \in 0..MaxFaults /\ up' \in BOOLEAN
    BY <1>0, <2>1 DEF Types, Flags, Data
  <2>3. QED
    BY <2>1, <2>2, BaseErase
<1>4. CASE LazyDelete
  <2>1. CASE bEnable
    <3>1. /\ lazy' = FALSE
          /\ UNCHANGED <<state, client, bEnable, output, selevent, selected, interest, up, wire,
                         reader, input, pos, frames, accepted, consumed, torn, died, faults>>
      BY <1>4, <2>1 DEF LazyDelete, events, net, recving, history
    <3>2. Types'
      <4>1. Flags'
        BY <1>0, <3>1, Zenon DEF Types, Flags
      <4>2. Data'
        BY <1>0, <3>1 DEF Types, Data
      <4>3. QED
        BY <4>1, <4>2 DEF Types
    <3>3. EventsOK' /\ PhaseOK'
      BY <3>1 DEF Base, EventsOK, PhaseOK
    <3>4. QED
      BY <3>1, <3>2, <3>3, BaseStep DEF recving, history
  <2>2. CASE ~bEnable
    <3>1. Erase /\ UNCHANGED <<up, wire, recving, history, died, faults>>
      BY <1>4, <2>2 DEF LazyDelete, net
    <3>2. faults' \in 0..MaxFaults /\ died' \in BOOLEAN /\ up' \in BOOLEAN
      BY <1>0, <3>1 DEF Types, Flags, Data
    <3>3. QED
      BY <3>1, <3>2, BaseErase
  <2>3. QED
    BY <2>1, <2>2
<1>5. CASE OnConnectedThrows
  <2>1. /\ state = "connecting" /\ Fault(TRUE) /\ state' = "connected" /\ died' = TRUE
        /\ up' = FALSE /\ wire' = <<>>
        /\ UNCHANGED <<client, bEnable, lazy, output, selevent, selected, interest, reader, input,
                       pos, frames, accepted, consumed, torn>>
    BY <1>5 DEF OnConnectedThrows, events, recving, history
  <2>2. Types'
    <3>1. Flags'
      BY <1>0, <2>1, Zenon DEF Types, Flags
    <3>2. faults' \in 0..MaxFaults
      BY <1>0, <2>1, FaultIs
    <3>3. Data'
      BY <1>0, <2>1, <3>2 DEF Types, Data
    <3>4. QED
      BY <3>1, <3>3 DEF Types
  <2>3. EventsOK' /\ PhaseOK'
    BY <2>1 DEF Base, EventsOK, PhaseOK
  <2>4. QED
    BY <2>1, <2>2, <2>3, BaseStep DEF recving, history
<1>6. CASE Reset
  <2>1. /\ state \in {"connected", "erased"} /\ Fault(TRUE) /\ up' = FALSE /\ wire' = <<>>
        /\ UNCHANGED <<state, client, bEnable, lazy, output, selevent, selected, interest, reader,
                       input, pos, frames, accepted, consumed, torn, died>>
    BY <1>6 DEF Reset, conn, events, recving, history
  <2>2. Types'
    <3>1. Flags'
      BY <1>0, <2>1, Zenon DEF Types, Flags
    <3>2. faults' \in 0..MaxFaults
      BY <1>0, <2>1, FaultIs
    <3>3. Data'
      BY <1>0, <2>1, <3>2 DEF Types, Data
    <3>4. QED
      BY <3>1, <3>3 DEF Types
  <2>3. EventsOK' /\ PhaseOK'
    BY <2>1 DEF Base, EventsOK, PhaseOK
  <2>4. QED
    BY <2>1, <2>2, <2>3, BaseStep DEF recving, history
<1>7. QED
  BY <1>1, <1>2, <1>3, <1>4, <1>5, <1>6

\* The receiving connection ends.
LEMMA ReaderEndsBase ==
  ASSUME Base, OnDataThrows \/ \E mem \in BOOLEAN : PumpEnds(mem)
  PROVE  Base'
<1>0. Types
  BY DEF Base
<1>1. CASE OnDataThrows
  <2>1. reader = "parse" /\ Fault(TRUE) /\ ReaderErase /\ UNCHANGED <<conn, output, events, history, died>>
    BY <1>1 DEF OnDataThrows
  <2>2. faults' \in 0..MaxFaults /\ (state \in {"new", "connecting"} => died)
    BY <1>0, <2>1, FaultIs DEF Base, PhaseOK
  <2>3. QED
    BY <2>1, <2>2, BaseReaderErase
<1>2. CASE \E mem \in BOOLEAN : PumpEnds(mem)
  <2>1. PICK mem \in BOOLEAN : PumpEnds(mem)
    BY <1>2
  <2>2. ReaderErase /\ UNCHANGED <<conn, output, events, history, died>>
    BY <2>1 DEF PumpEnds
  <2>3. faults' \in 0..MaxFaults
    <3>1. CASE wire # <<>>
      BY <1>0, <2>1, <3>1, FaultIs DEF PumpEnds, Memory
    <3>2. CASE wire = <<>>
      BY <1>0, <2>1, <3>2 DEF PumpEnds, Types, Data
    <3>3. QED
      BY <3>1, <3>2
  <2>4. state \in {"new", "connecting"} => died
    BY <2>1 DEF PumpEnds, Base, PhaseOK
  <2>5. QED
    BY <2>2, <2>3, <2>4, BaseReaderErase
<1>3. QED
  BY <1>1, <1>2

-----------------------------------------------------------------------------
(* Units that move on *)

\* Concatenation of units.
LEMMA CatAssoc ==
  ASSUME NEW s \in Seq(Unit), NEW t \in Seq(Unit), NEW u \in Seq(Unit)
  PROVE  (s \o t) \o u = s \o (t \o u)
<1>1. PICK x, y, st, tu : st = s \o t /\ tu = t \o u /\ x = st \o u /\ y = s \o tu
  OBVIOUS
<1>2. /\ st \in Seq(Unit) /\ Len(st) = Len(s) + Len(t)
      /\ \A i \in 1..Len(s) + Len(t) : st[i] = IF i <= Len(s) THEN s[i] ELSE t[i - Len(s)]
  BY <1>1, ConcatProperties
<1>3. /\ tu \in Seq(Unit) /\ Len(tu) = Len(t) + Len(u)
      /\ \A i \in 1..Len(t) + Len(u) : tu[i] = IF i <= Len(t) THEN t[i] ELSE u[i - Len(t)]
  BY <1>1, ConcatProperties
<1>4. /\ x \in Seq(Unit) /\ Len(x) = Len(st) + Len(u)
      /\ \A i \in 1..Len(st) + Len(u) : x[i] = IF i <= Len(st) THEN st[i] ELSE u[i - Len(st)]
  BY <1>1, <1>2, ConcatProperties
<1>5. /\ y \in Seq(Unit) /\ Len(y) = Len(s) + Len(tu)
      /\ \A i \in 1..Len(s) + Len(tu) : y[i] = IF i <= Len(s) THEN s[i] ELSE tu[i - Len(s)]
  BY <1>1, <1>3, ConcatProperties
<1>6. PICK a \in Nat, b \in Nat, c \in Nat : a = Len(s) /\ b = Len(t) /\ c = Len(u)
  OBVIOUS
<1>7. Len(x) = a + b + c /\ Len(y) = a + b + c
  BY <1>2, <1>3, <1>4, <1>5, <1>6
<1>8. ASSUME NEW i \in 1..a + b + c
      PROVE  x[i] = y[i]
  <2>1. CASE i <= a
    BY <1>2, <1>3, <1>4, <1>5, <1>6, <2>1
  <2>2. CASE ~(i <= a) /\ i <= a + b
    <3>1. i - a \in 1..b + c /\ i - a <= b /\ i \in 1..a + b
      BY <2>2
    <3>2. x[i] = st[i]
      BY <1>2, <1>4, <1>6, <2>2
    <3>3. st[i] = t[i - a]
      BY <1>2, <1>6, <2>2, <3>1
    <3>4. y[i] = tu[i - a]
      BY <1>3, <1>5, <1>6, <2>2
    <3>5. tu[i - a] = t[i - a]
      BY <1>3, <1>6, <3>1
    <3>6. QED
      BY <3>2, <3>3, <3>4, <3>5
  <2>3. CASE ~(i <= a + b)
    <3>1. i - a \in 1..b + c /\ ~(i - a <= b) /\ (i - a) - b = i - (a + b) /\ ~(i <= a)
      BY <2>3
    <3>2. x[i] = u[i - (a + b)]
      BY <1>2, <1>4, <1>6, <2>3
    <3>3. y[i] = tu[i - a]
      BY <1>3, <1>5, <1>6, <3>1
    <3>4. tu[i - a] = u[(i - a) - b]
      BY <1>3, <1>6, <3>1
    <3>5. QED
      BY <3>1, <3>2, <3>3, <3>4
  <2>4. QED
    BY <2>1, <2>2, <2>3
<1>9. x = y
  BY <1>4, <1>5, <1>7, <1>8, SeqEqual
<1>10. QED
  BY <1>1, <1>9

\* Three parts of the stream may be put together in either order.
Associates(s, t, u) == (s \o t) \o u = s \o (t \o u)

\* The same under a name.
LEMMA CatAssocIs ==
  ASSUME NEW s \in Seq(Unit), NEW t \in Seq(Unit), NEW u \in Seq(Unit)
  PROVE  Associates(s, t, u)
BY CatAssoc DEF Associates

\* A sequence in two parts.
LEMMA SplitSeq ==
  ASSUME NEW s \in Seq(Unit), NEW n \in 0..Len(s)
  PROVE  /\ SubSeq(s, 1, n) \in Seq(Unit) /\ Len(SubSeq(s, 1, n)) = n
         /\ SubSeq(s, n + 1, Len(s)) \in Seq(Unit) /\ Len(SubSeq(s, n + 1, Len(s))) = Len(s) - n
         /\ SubSeq(s, 1, n) \o SubSeq(s, n + 1, Len(s)) = s
         /\ \A i \in 1..n : SubSeq(s, 1, n)[i] = s[i]
         /\ \A i \in 1..Len(s) - n : SubSeq(s, n + 1, Len(s))[i] = s[n + i]
<1>1. PICK l \in Nat : l = Len(s) /\ n \in 0..l
  OBVIOUS
<1>2. \A i \in 1..l : s[i] \in Unit
  BY <1>1, ElementOfSeq
<1>3. /\ SubSeq(s, 1, n) \in Seq(Unit) /\ Len(SubSeq(s, 1, n)) = (IF 1 <= n THEN n - 1 + 1 ELSE 0)
      /\ \A i \in 1..n - 1 + 1 : SubSeq(s, 1, n)[i] = s[1 + i - 1]
  BY <1>1, <1>2, SubSeqProperties
<1>4. /\ SubSeq(s, n + 1, l) \in Seq(Unit)
      /\ Len(SubSeq(s, n + 1, l)) = (IF n + 1 <= l THEN l - (n + 1) + 1 ELSE 0)
      /\ \A i \in 1..l - (n + 1) + 1 : SubSeq(s, n + 1, l)[i] = s[n + 1 + i - 1]
  <2>1. \A i \in n + 1..l : s[i] \in Unit
    BY <1>1, <1>2
  <2>2. QED
    BY <1>1, <2>1, SubSeqProperties
<1>5. SubSeq(s, 1, n) \o SubSeq(s, n + 1, l) = SubSeq(s, 1, l)
  <2>1. 1 \in 1..Len(s) + 1 /\ n \in 1 - 1..Len(s) /\ l \in n..Len(s)
    BY <1>1
  <2>2. QED
    BY <2>1, ConcatAdjacentSubSeq, Zenon
<1>6. SubSeq(s, 1, l) = s
  BY <1>1, SubSeqFull
<1>7. Len(SubSeq(s, 1, n)) = n /\ \A i \in 1..n : SubSeq(s, 1, n)[i] = s[i]
  BY <1>3
<1>8. Len(SubSeq(s, n + 1, l)) = l - n /\ \A i \in 1..l - n : SubSeq(s, n + 1, l)[i] = s[n + i]
  BY <1>1, <1>4
<1>9. QED
  BY <1>1, <1>3, <1>4, <1>5, <1>6, <1>7, <1>8

\* Units in one sequence or another.
LEMMA KnownCat ==
  ASSUME NEW s \in Seq(Unit), NEW t \in Seq(Unit), NEW fr,
         KnownUnits(s, fr), KnownUnits(t, fr)
  PROVE  s \o t \in Seq(Unit) /\ Len(s \o t) = Len(s) + Len(t) /\ KnownUnits(s \o t, fr)
<1>1. /\ s \o t \in Seq(Unit) /\ Len(s \o t) = Len(s) + Len(t)
      /\ \A i \in 1 .. Len(s) + Len(t) : (s \o t)[i] = IF i <= Len(s) THEN s[i] ELSE t[i - Len(s)]
  BY ConcatProperties
<1>2. \A i \in 1..Len(s) + Len(t) : i <= Len(s) => i \in 1..Len(s)
  OBVIOUS
<1>3. \A i \in 1..Len(s) + Len(t) : ~(i <= Len(s)) => i - Len(s) \in 1..Len(t)
  OBVIOUS
<1>4. QED
  BY <1>1, <1>2, <1>3 DEF KnownUnits

\* Units of a part.
LEMMA KnownParts ==
  ASSUME NEW s \in Seq(Unit), NEW n \in 0..Len(s), NEW fr, KnownUnits(s, fr)
  PROVE  KnownUnits(SubSeq(s, 1, n), fr) /\ KnownUnits(SubSeq(s, n + 1, Len(s)), fr)
<1>1. PICK a, b : a = SubSeq(s, 1, n) /\ b = SubSeq(s, n + 1, Len(s))
  OBVIOUS
<1>2. /\ a \in Seq(Unit) /\ Len(a) = n /\ b \in Seq(Unit) /\ Len(b) = Len(s) - n
      /\ \A i \in 1..n : a[i] = s[i] /\ \A j \in 1..Len(s) - n : b[j] = s[n + j]
  BY <1>1, SplitSeq
<1>3. \A i \in 1..n : i \in 1..Len(s)
  OBVIOUS
<1>4. \A i \in 1..Len(s) - n : n + i \in 1..Len(s)
  OBVIOUS
<1>5. KnownUnits(a, fr)
  BY <1>2, <1>3 DEF KnownUnits
<1>6. KnownUnits(b, fr)
  <2>1. \A i \in 1..Len(s) - n : b[i] = s[n + i]
    BY <1>1, SplitSeq
  <2>2. QED
    BY <1>2, <1>4, <2>1 DEF KnownUnits
<1>7. QED
  BY <1>1, <1>5, <1>6

\* flush: what is sent is on the wire, what is not stays, and nothing else changes.
LEMMA FlushIs ==
  ASSUME Base, NEW n \in 0..Len(output.data), n <= Room, Flush(n)
  PROVE  /\ wire' \in Seq(Unit) /\ output' \in Buffers /\ BufferOK(output)'
         /\ Len(wire') <= WireSize
         /\ KnownUnits(wire', frames) /\ KnownUnits(output'.data, frames)
         /\ wire' \o output'.data = wire \o output.data
         /\ n = Len(output.data) => output'.data = <<>>
<1>1. PICK w \in Seq(Unit), ob \in Buffers, fr \in Seq(Nat) :
        w = wire /\ ob = output /\ fr = frames
  BY DEF Base, Types, Data
<1>2. PICK o \in Seq(Unit) : o = ob.data /\ n \in 0..Len(o)
  BY <1>1 DEF Buffers
<1>3. KnownUnits(w, fr) /\ KnownUnits(o, fr) /\ BufferOK(ob)
  BY <1>1, <1>2 DEF Base, Known, BoundsOK
<1>4. PICK a, b : a = SubSeq(o, 1, n) /\ b = SubSeq(o, n + 1, Len(o))
  OBVIOUS
<1>5. a \in Seq(Unit) /\ Len(a) = n /\ b \in Seq(Unit) /\ Len(b) = Len(o) - n /\ a \o b = o
  BY <1>2, <1>4, SplitSeq
<1>6. KnownUnits(a, fr) /\ KnownUnits(b, fr)
  BY <1>2, <1>3, <1>4, KnownParts
<1>7. wire' = w \o a /\ output' = BufferErase(ob, n)
  BY <1>1, <1>2, <1>4 DEF Flush
<1>8. n \in Nat
  BY <1>2
<1>9. output' \in Buffers /\ BufferOK(output') /\ output'.data = b
  BY <1>2, <1>3, <1>4, <1>7, <1>8, EraseBuf
<1>10. w \o a \in Seq(Unit) /\ Len(w \o a) = Len(w) + n /\ KnownUnits(w \o a, fr)
  BY <1>3, <1>5, <1>6, KnownCat
<1>11. Len(w) + n <= WireSize
  BY <1>1, <1>8, FrameAssumption DEF Room
<1>12. (w \o a) \o b = w \o (a \o b)
  BY <1>5, CatAssoc
<1>13. BufferOK(output)'
  BY <1>9 DEF BufferOK, capacity
<1>14. n = Len(o) => b = <<>>
  BY <1>5
<1>15. QED
  BY <1>1, <1>2, <1>5, <1>6, <1>7, <1>9, <1>10, <1>11, <1>12, <1>13, <1>14

\* EVENT_WRITE: units move from the buffer to the network.
LEMMA OnWriteBase ==
  ASSUME Base, NEW n \in 0..WireSize, OnWrite(n) \/ OnConnected(n)
  PROVE  Base' /\ Stream' = Stream /\ up' = up
<1>0. Types /\ EventsOK /\ PhaseOK /\ output.data \in Seq(Unit)
  BY DEF Base, Types, Data, Buffers
<1>1. /\ n \in 0..Len(output.data) /\ n <= Room /\ Flush(n) /\ up /\ ~died
      /\ state \in {"connecting", "connected"} /\ state' = "connected"
      /\ UNCHANGED <<client, bEnable, lazy, up, reader, input, pos, frames, accepted, consumed,
                     torn, died, faults>>
  <2>1. CASE OnWrite(n)
    <3>1. Room \in Int /\ Len(output.data) \in Nat
      BY <1>0, FrameAssumption DEF Room, Types, Data
    <3>2. PICK k \in Int, l \in Nat : k = Room /\ l = Len(output.data)
      BY <3>1
    <3>3. n \in 1..k /\ n <= l
      BY <2>1, <3>2 DEF OnWrite
    <3>4. n \in 0..l /\ n <= k
      BY <3>3
    <3>5. QED
      BY <2>1, <3>2, <3>4 DEF OnWrite, conn, recving, history
  <2>2. CASE OnConnected(n)
    BY <1>0, <2>2 DEF OnConnected, recving, history, PhaseOK
  <2>3. QED
    BY <2>1, <2>2
<1>2. /\ wire' \in Seq(Unit) /\ output' \in Buffers /\ BufferOK(output)'
      /\ Len(wire') <= WireSize
      /\ KnownUnits(wire', frames) /\ KnownUnits(output'.data, frames)
      /\ wire' \o output'.data = wire \o output.data
      /\ n = Len(output.data) => output'.data = <<>>
  BY <1>1, FlushIs
<1>3. selected /\ interest = selevent /\ selevent \subseteq {"R", "W"} /\ "R" \in selevent
  BY <1>0, <1>1 DEF EventsOK, Types, Data
<1>4. /\ selevent' \subseteq {"R", "W"} /\ "R" \in selevent' /\ interest' = selevent'
      /\ selected' /\ selected' \in BOOLEAN
      /\ n # Len(output.data) => "W" \in selevent'
  <2>1. CASE OnWrite(n) /\ n = Len(output.data)
    <3>1. AddEvent({"W"}, {})
      BY <2>1 DEF OnWrite
    <3>2. selevent' = (selevent \ ({"W"} \ {})) \union {}
          /\ interest' = selevent' /\ selected' /\ selected' \in BOOLEAN
      BY <1>3, <3>1, AddEventIs
    <3>3. QED
      BY <1>3, <2>1, <3>2
  <2>2. CASE OnWrite(n) /\ n # Len(output.data)
    <3>1. UNCHANGED <<selevent, selected, interest>> /\ "W" \in interest
      BY <2>2 DEF OnWrite, events
    <3>2. QED
      BY <1>0, <1>3, <3>1 DEF Types, Flags
  <2>3. CASE OnConnected(n)
    <3>1. PICK add \in SUBSET {"R", "W"} :
            /\ AddEvent({"R", "W"}, add) /\ "R" \in add
            /\ n # Len(output.data) => "W" \in add
      <4>1. n < Len(output.data) \/ n = Len(output.data)
        BY <1>1
      <4>2. QED
        BY <2>3, <4>1 DEF OnConnected
    <3>2. selevent' = (selevent \ ({"R", "W"} \ add)) \union add
          /\ interest' = selevent' /\ selected' /\ selected' \in BOOLEAN
      BY <1>3, <3>1, AddEventIs
    <3>3. QED
      BY <1>3, <3>1, <3>2
  <2>4. QED
    BY <2>1, <2>2, <2>3
<1>5. Types'
  <2>1. Flags'
    BY <1>0, <1>1, <1>4, Zenon DEF Types, Flags
  <2>2. Data'
    BY <1>0, <1>1, <1>2, <1>4 DEF Types, Data
  <2>3. QED
    BY <2>1, <2>2 DEF Types
<1>6. EventsOK'
  BY <1>1, <1>2, <1>4 DEF EventsOK
<1>7. PhaseOK'
  BY <1>0, <1>1 DEF PhaseOK
<1>8. BoundsOK'
  <2>1. BufferOK(input)' /\ pos' <= Len(input'.data)
    BY <1>1 DEF Base, BoundsOK, BufferOK, capacity
  <2>2. QED
    BY <1>2, <2>1 DEF BoundsOK
<1>9. Known'
  BY <1>1, <1>2 DEF Base, Known
<1>10. Stream' = Stream
  <2>1. Coming = output.data /\ Coming' = output'.data
    BY <1>1 DEF Coming
  <2>2. QED
    BY <1>1, <1>2, <2>1 DEF Stream
<1>11. QED
  BY <1>1, <1>5, <1>6, <1>7, <1>8, <1>9, <1>10 DEF Base

\* The units that are not in the input are in a sequence.
LEMMA ComingIs ==
  ASSUME Base
  PROVE  Coming \in Seq(Unit) /\ wire \in Seq(Unit) /\ wire \o Coming \in Seq(Unit)
<1>1. output.data \in Seq(Unit) /\ wire \in Seq(Unit)
  BY DEF Base, Types, Data, Buffers
<1>2. Coming \in Seq(Unit)
  BY <1>1 DEF Coming
<1>3. PICK c \in Seq(Unit), w \in Seq(Unit) : c = Coming /\ w = wire
  BY <1>1, <1>2
<1>4. w \o c \in Seq(Unit)
  BY ConcatProperties
<1>5. QED
  BY <1>3, <1>4

\* pump: units move from the network to the input.
LEMMA PumpBase ==
  ASSUME Base, NEW n \in 1..WireSize, NEW mem \in BOOLEAN, Pump(n, mem)
  PROVE  Base' /\ Stream' = Stream /\ up' = up
<1>0. Types /\ EventsOK /\ PhaseOK
  BY DEF Base
<1>1. PICK w \in Seq(Unit), ib \in Buffers, fr \in Seq(Nat), co \in Seq(Unit) :
        w = wire /\ ib = input /\ fr = frames /\ co = Coming
  BY <1>0, ComingIs DEF Types, Data
<1>2. PICK d \in Seq(Unit) : d = ib.data
  BY DEF Buffers
<1>3. KnownUnits(w, fr) /\ KnownUnits(d, fr) /\ BufferOK(ib)
  BY <1>1, <1>2 DEF Base, Known, BoundsOK
<1>4. PICK g : g = Grown(mem)
  OBVIOUS
<1>5. g \in Buffers /\ BufferOK(g) /\ g.data = d
  <2>1. PICK r : r = IncreaseCapacity(ib, BlockSize, mem)
    OBVIOUS
  <2>2. r.buf \in Buffers /\ BufferOK(r.buf) /\ r.buf.data = ib.data
    BY <1>3, <2>1, IncreaseIs, BlockBufferAssumption
  <2>3. g = ib \/ g = r.buf
    BY <1>1, <1>4, <2>1 DEF Grown
  <2>4. QED
    BY <1>2, <1>3, <2>2, <2>3
<1>6. /\ reader = "idle" /\ w # <<>> /\ Memory(mem)
      /\ n \in 0..Len(w) /\ n <= freespace(g)
      /\ input' = [g EXCEPT !.data = d \o SubSeq(w, 1, n)]
      /\ wire' = SubSeq(w, n + 1, Len(w))
      /\ reader' = "parse" /\ pos' = 0
      /\ UNCHANGED <<state, client, bEnable, lazy, output, selevent, selected, interest, up,
                     frames, accepted, consumed, torn, died>>
  BY <1>1, <1>4, <1>5 DEF Pump, conn, events, history
<1>7. PICK a, b : a = SubSeq(w, 1, n) /\ b = SubSeq(w, n + 1, Len(w))
  OBVIOUS
<1>8. a \in Seq(Unit) /\ Len(a) = n /\ b \in Seq(Unit) /\ Len(b) = Len(w) - n /\ a \o b = w
  BY <1>6, <1>7, SplitSeq
<1>9. KnownUnits(a, fr) /\ KnownUnits(b, fr)
  BY <1>3, <1>6, <1>7, KnownParts
<1>10. PICK e : e = d \o a
  OBVIOUS
<1>11. e \in Seq(Unit) /\ Len(e) = Len(d) + n /\ KnownUnits(e, fr)
  BY <1>3, <1>8, <1>9, <1>10, KnownCat
<1>12. input' \in Buffers /\ input'.data = e /\ input'.block = g.block
  BY <1>5, <1>6, <1>7, <1>10, <1>11 DEF Buffers
<1>13. PICK k \in 0..MaxBlocks : k = g.block
  BY <1>5 DEF BufferOK
<1>14. Len(e) <= k * BlockSize
  <2>1. PICK c \in Int : c = k * BlockSize
    BY BlockBufferAssumption
  <2>2. n <= c - Len(d) /\ Len(d) \in Nat
    BY <1>5, <1>6, <1>13, <2>1 DEF freespace, capacity
  <2>3. QED
    BY <1>11, <2>1, <2>2
<1>15. BufferOK(input)' /\ BufferOK(output)'
  BY <1>6, <1>12, <1>13, <1>14 DEF BufferOK, capacity, Base, BoundsOK
<1>16. BoundsOK'
  <2>1. Len(w) <= WireSize /\ Len(b) <= Len(w) /\ Len(w) \in Nat
    BY <1>1, <1>6, <1>8 DEF Base, BoundsOK
  <2>2. Len(wire') <= WireSize
    <3>1. wire' = b /\ WireSize \in Nat /\ Len(b) \in Nat
      <4>1. wire' = b
        BY <1>6, <1>7, Zenon
      <4>2. WireSize \in Nat
        BY FrameAssumption
      <4>3. ASSUME NEW t \in Seq(Unit) PROVE Len(t) \in Nat
        OBVIOUS
      <4>4. QED
        BY <1>8, <4>1, <4>2, <4>3, Zenon
    <3>2. Len(b) <= WireSize
      <4>1. PICK x \in Nat, y \in Nat, z \in Nat : x = Len(b) /\ y = Len(w) /\ z = WireSize
        BY <2>1, <3>1
      <4>2. x <= y /\ y <= z
        BY <2>1, <4>1, Zenon
      <4>3. x <= z
        BY <4>2
      <4>4. QED
        BY <4>1, <4>3, Zenon
    <3>3. QED
      BY <3>1, <3>2, Zenon
  <2>3. pos' <= Len(input'.data)
    BY <1>6, <1>11, <1>12
  <2>4. QED
    BY <1>15, <2>2, <2>3 DEF BoundsOK
<1>17. Types'
  <2>1. Flags'
    BY <1>0, <1>6, Zenon DEF Types, Flags
  <2>2. faults' \in 0..MaxFaults
    BY <1>0, <1>6, FaultIs DEF Memory
  <2>3. Data'
    BY <1>0, <1>6, <1>7, <1>8, <1>12, <2>2 DEF Types, Data
  <2>4. QED
    BY <2>1, <2>3 DEF Types
<1>18. EventsOK'
  BY <1>0, <1>6 DEF EventsOK
<1>19. PhaseOK'
  <2>1. state \notin {"new", "connecting"} /\ up
    BY <1>0, <1>1, <1>6 DEF PhaseOK
  <2>2. QED
    BY <1>0, <1>6, <2>1 DEF PhaseOK
<1>20. Known'
  BY <1>1, <1>6, <1>7, <1>9, <1>11, <1>12 DEF Base, Known
<1>21. Stream' = Stream
  <2>1. pos = 0 /\ Coming' = co
    BY <1>0, <1>1, <1>6 DEF PhaseOK, Coming
  <2>2. SubSeq(d, 1, Len(d)) = d /\ SubSeq(e, 1, Len(e)) = e
    BY <1>11, SubSeqFull
  <2>3. Stream = d \o (w \o co)
    <3>1. pos + 1 = 1
      BY <2>1
    <3>2. Stream = SubSeq(d, pos + 1, Len(d)) \o (w \o co)
      BY <1>1, <1>2, Zenon DEF Stream
    <3>3. QED
      BY <2>2, <3>1, <3>2, Zenon
  <2>4. Stream' = e \o (b \o co)
    <3>1. pos' + 1 = 1
      BY <1>6
    <3>2. Stream' = SubSeq(e, pos' + 1, Len(e)) \o (b \o co)
      BY <1>6, <1>7, <1>12, <2>1, Zenon DEF Stream
    <3>3. QED
      BY <2>2, <3>1, <3>2, Zenon
  <2>5. b \o co \in Seq(Unit)
    BY <1>8, ConcatProperties
  <2>6. e \o (b \o co) = d \o (a \o (b \o co))
    BY <1>8, <1>10, <2>5, CatAssoc
  <2>7. a \o (b \o co) = w \o co
    <3>1. Associates(a, b, co)
      BY <1>8, CatAssocIs, Zenon
    <3>2. QED
      BY <1>8, <3>1, Zenon DEF Associates
  <2>8. QED
    BY <2>3, <2>4, <2>6, <2>7
<1>22. QED
  BY <1>6, <1>16, <1>17, <1>18, <1>19, <1>20, <1>21 DEF Base

\* onData needs more: the input is what has not been handled.
LEMMA OnDataReturnsBase ==
  ASSUME Base, OnDataReturns
  PROVE  Base' /\ Stream' = Stream /\ up' = up
<1>0. Types /\ EventsOK /\ PhaseOK
  BY DEF Base
<1>1. PICK ib \in Buffers, p \in Nat, fr \in Seq(Nat) : ib = input /\ p = pos /\ fr = frames
  BY <1>0 DEF Types, Data
<1>2. PICK d \in Seq(Unit) : d = ib.data
  BY DEF Buffers
<1>3. KnownUnits(d, fr) /\ BufferOK(ib) /\ p \in 0..Len(d)
  BY <1>1, <1>2 DEF Base, Known, BoundsOK
<1>4. /\ reader = "parse" /\ input' = BufferErase(ib, p) /\ reader' = "idle" /\ pos' = 0
      /\ UNCHANGED <<state, client, bEnable, lazy, output, selevent, selected, interest, up, wire,
                     frames, accepted, consumed, torn, died, faults>>
  BY <1>1 DEF OnDataReturns, conn, events, net, history
<1>5. PICK e : e = SubSeq(d, p + 1, Len(d))
  OBVIOUS
<1>6. e \in Seq(Unit) /\ KnownUnits(e, fr)
  BY <1>3, <1>5, SplitSeq, KnownParts
<1>7. input' \in Buffers /\ BufferOK(input') /\ input'.data = e
  BY <1>2, <1>3, <1>4, <1>5, EraseBuf
<1>8. Types'
  <2>1. Flags'
    BY <1>0, <1>4, Zenon DEF Types, Flags
  <2>2. Data'
    BY <1>0, <1>4, <1>7 DEF Types, Data
  <2>3. QED
    BY <2>1, <2>2 DEF Types
<1>9. BoundsOK'
  <2>1. BufferOK(input)' /\ BufferOK(output)'
    BY <1>4, <1>7 DEF BufferOK, capacity, Base, BoundsOK
  <2>2. pos' <= Len(input'.data)
    BY <1>4, <1>6, <1>7
  <2>3. QED
    BY <1>4, <2>1, <2>2 DEF Base, BoundsOK
<1>10. EventsOK'
  BY <1>0, <1>4 DEF EventsOK
<1>11. PhaseOK'
  <2>1. state \in {"new", "connecting"} => died /\ d = <<>>
    BY <1>0, <1>1, <1>2, <1>4 DEF PhaseOK
  <2>2. d = <<>> => e = <<>>
    BY <1>3, <1>5, SubSeqEmpty
  <2>3. QED
    BY <1>0, <1>4, <1>7, <2>1, <2>2 DEF PhaseOK
<1>12. Known'
  BY <1>1, <1>4, <1>6, <1>7 DEF Base, Known
<1>13. Stream' = Stream
  <2>1. PICK y : y = wire \o Coming
    OBVIOUS
  <2>2. wire' \o Coming' = y
    BY <1>4, <2>1 DEF Coming
  <2>3. Stream = e \o y
    BY <1>1, <1>2, <1>5, <2>1, Zenon DEF Stream
  <2>4. Stream' = SubSeq(e, pos' + 1, Len(e)) \o y
    BY <1>7, <2>2, Zenon DEF Stream
  <2>5. pos' + 1 = 1 /\ SubSeq(e, 1, Len(e)) = e
    BY <1>4, <1>6, SubSeqFull
  <2>6. QED
    BY <2>3, <2>4, <2>5, Zenon
<1>14. QED
  BY <1>4, <1>8, <1>9, <1>10, <1>11, <1>12, <1>13 DEF Base

\* The first units of the stream are those of the input.
LEMMA StreamIs ==
  ASSUME Base
  PROVE  /\ Stream \in Seq(Unit) /\ Left \in 0..Len(Stream)
         /\ \A i \in 1..Left : Stream[i] = input.data[pos + i]
<1>1. PICK d \in Seq(Unit), p \in Nat, y \in Seq(Unit) :
        d = input.data /\ p = pos /\ y = wire \o Coming
  BY ComingIs DEF Base, Types, Data, Buffers
<1>2. p \in 0..Len(d)
  BY <1>1 DEF Base, BoundsOK
<1>3. PICK e : e = SubSeq(d, p + 1, Len(d))
  OBVIOUS
<1>4. e \in Seq(Unit) /\ Len(e) = Len(d) - p
  BY <1>2, <1>3, SplitSeq
<1>5. \A i \in 1..Len(d) - p : e[i] = d[p + i]
  BY <1>2, <1>3, SplitSeq
<1>6. PICK s : s = e \o y
  OBVIOUS
<1>7. /\ s \in Seq(Unit) /\ Len(s) = Len(e) + Len(y)
      /\ \A i \in 1..Len(e) + Len(y) : s[i] = IF i <= Len(e) THEN e[i] ELSE y[i - Len(e)]
  BY <1>4, <1>6, ConcatProperties
<1>8. Stream = s
  BY <1>1, <1>3, <1>6, Zenon DEF Stream
<1>9. Left = Len(d) - p
  BY <1>1 DEF Left
<1>10. PICK l \in Nat : l = Len(d) - p
  BY <1>2
<1>11. l \in 0..Len(s) /\ \A i \in 1..l : s[i] = d[p + i]
  <2>1. Len(e) = l /\ Len(y) \in Nat
    BY <1>4, <1>10
  <2>2. \A i \in 1..l : i \in 1..l + Len(y) /\ i <= l
    BY <2>1
  <2>3. \A i \in 1..l : s[i] = e[i]
    BY <1>7, <2>1, <2>2
  <2>4. QED
    BY <1>5, <1>7, <1>10, <2>1, <2>3
<1>12. QED
  BY <1>1, <1>7, <1>8, <1>9, <1>10, <1>11

\* onData with a complete frame, as long as its header says: its units leave the stream,
\* which goes on behind them.
LEMMA OnDataBase ==
  ASSUME Base, OnData
  PROVE  /\ Base' /\ up' = up
         /\ RealLen \in Nat /\ RealLen > HeaderSize /\ RealLen <= Left
         /\ HeaderSize <= Left
         /\ Stream' \in Seq(Unit) /\ Len(Stream') = Len(Stream) - RealLen
         /\ \A i \in 1..Len(Stream') : Stream'[i] = Stream[RealLen + i]
<1>0. Types /\ EventsOK /\ PhaseOK
  BY DEF Base
<1>1. PICK d \in Seq(Unit), p \in Nat, fr \in Seq(Nat), con \in Seq(Nat), y \in Seq(Unit) :
        d = input.data /\ p = pos /\ fr = frames /\ con = consumed /\ y = wire \o Coming
  BY <1>0, ComingIs DEF Types, Data, Buffers
<1>2. KnownUnits(d, fr) /\ Sizes(fr) /\ p \in 0..Len(d)
  BY <1>1 DEF Base, Known, BoundsOK
<1>3. HeaderSize \in Nat /\ HeaderSize > 0
  BY FrameAssumption
<1>4. Left = Len(d) - p /\ Left >= HeaderSize /\ Left >= RealLen
  BY <1>1 DEF OnData, Complete, Left
<1>5. p + HeaderSize \in 1..Len(d)
  BY <1>2, <1>3, <1>4
<1>6. d[p + HeaderSize][1] \in 1..Len(fr)
  BY <1>2, <1>5 DEF KnownUnits
<1>7. PICK L \in Nat : L = RealLen /\ L > HeaderSize /\ L <= Len(d) - p
  <2>1. RealLen = fr[d[p + HeaderSize][1]]
    BY <1>1 DEF RealLen
  <2>2. RealLen \in Nat /\ RealLen > HeaderSize
    BY <1>2, <1>6, <2>1 DEF Sizes
  <2>3. QED
    BY <1>4, <2>2
<1>8. PICK f : f = SubSeq(d, p + 1, p + L)
  OBVIOUS
<1>9. /\ consumed' = Append(con, Content(f)) /\ pos' = p + L /\ reader = "parse"
      /\ UNCHANGED <<state, client, bEnable, lazy, output, selevent, selected, interest, up, wire,
                     reader, input, frames, accepted, torn, died, faults>>
  BY <1>1, <1>7, <1>8 DEF OnData, conn, events, net
<1>10. Content(f) \in Nat
  <2>1. /\ Len(f) = p + L - (p + 1) + 1
        /\ \A i \in 1..p + L - (p + 1) + 1 : f[i] = d[p + 1 + i - 1]
    <3>1. p + 1 \in Int /\ p + L \in Int /\ p + 1 <= p + L
      BY <1>3, <1>7
    <3>2. \A i \in p + 1..p + L : d[i] \in Unit
      BY <1>2, <1>7, ElementOfSeq
    <3>3. QED
      BY <1>8, <3>1, <3>2, SubSeqProperties
  <2>2. f[1] = d[p + 1] /\ p + 1 \in 1..Len(d)
    <3>1. p + 1 \in 1..Len(d) /\ 1 \in 1..p + L - (p + 1) + 1 /\ p + 1 + 1 - 1 = p + 1
      BY <1>2, <1>3, <1>7
    <3>2. QED
      BY <2>1, <3>1
  <2>3. f[1] \in Unit
    BY <2>2, ElementOfSeq
  <2>4. QED
    BY <2>3 DEF Content, Unit
<1>11. consumed' \in Seq(Nat) /\ pos' \in Nat /\ pos' <= Len(d)
  BY <1>2, <1>7, <1>9, <1>10
<1>12. Types'
  <2>1. Flags'
    BY <1>0, <1>9, Zenon DEF Types, Flags
  <2>2. Data'
    BY <1>0, <1>9, <1>11 DEF Types, Data
  <2>3. QED
    BY <2>1, <2>2 DEF Types
<1>13. BoundsOK'
  <2>1. BufferOK(input)' /\ BufferOK(output)'
    BY <1>9 DEF BufferOK, capacity, Base, BoundsOK
  <2>2. QED
    BY <1>1, <1>9, <1>11, <2>1 DEF Base, BoundsOK
<1>14. EventsOK' /\ PhaseOK'
  BY <1>0, <1>9 DEF EventsOK, PhaseOK
<1>15. Known'
  BY <1>9 DEF Base, Known
<1>16. Base'
  BY <1>12, <1>13, <1>14, <1>15 DEF Base
<1>17. /\ Stream' \in Seq(Unit) /\ Len(Stream') = Len(Stream) - L
       /\ \A i \in 1..Len(Stream') : Stream'[i] = Stream[L + i]
  <2>1. wire' \o Coming' = y
    BY <1>1, <1>9 DEF Coming
  <2>2. PICK e, g : e = SubSeq(d, p + 1, Len(d)) /\ g = SubSeq(d, p + L + 1, Len(d))
    OBVIOUS
  <2>3. p + L \in 0..Len(d)
    BY <1>2, <1>7
  <2>4. /\ e \in Seq(Unit) /\ Len(e) = Len(d) - p
        /\ g \in Seq(Unit) /\ Len(g) = Len(d) - (p + L)
    BY <1>2, <2>2, <2>3, SplitSeq
  <2>5. \A i \in 1..Len(d) - p : e[i] = d[p + i]
    BY <1>2, <2>2, SplitSeq
  <2>6. \A i \in 1..Len(d) - (p + L) : g[i] = d[p + L + i]
    BY <2>2, <2>3, SplitSeq
  <2>7. PICK s, s1 : s = e \o y /\ s1 = g \o y
    OBVIOUS
  <2>8. /\ s \in Seq(Unit) /\ Len(s) = Len(e) + Len(y)
        /\ \A i \in 1..Len(e) + Len(y) : s[i] = IF i <= Len(e) THEN e[i] ELSE y[i - Len(e)]
    BY <2>4, <2>7, ConcatProperties
  <2>9. /\ s1 \in Seq(Unit) /\ Len(s1) = Len(g) + Len(y)
        /\ \A i \in 1..Len(g) + Len(y) : s1[i] = IF i <= Len(g) THEN g[i] ELSE y[i - Len(g)]
    BY <2>4, <2>7, ConcatProperties
  <2>10. Stream = s
    BY <1>1, <2>2, <2>7, Zenon DEF Stream
  <2>11. Stream' = s1
    BY <1>1, <1>9, <2>1, <2>2, <2>7 DEF Stream
  <2>12. PICK ld \in Nat, ly \in Nat : ld = Len(d) - p /\ ly = Len(y)
    <3>1. Len(d) - p \in Nat /\ Len(y) \in Nat
      BY <1>2
    <3>2. QED
      BY <3>1
  <2>13. Len(e) = ld /\ Len(g) = ld - L /\ Len(s) = ld + ly /\ Len(s1) = ld + ly - L
    BY <2>4, <2>8, <2>9, <2>12
  <2>14. ASSUME NEW i \in 1..Len(s1)
         PROVE  s1[i] = s[L + i]
    <3>1. i \in 1..ld + ly - L /\ L + i \in 1..ld + ly /\ L <= ld
      BY <1>7, <2>12, <2>13
    <3>2. CASE i <= ld - L
      <4>1. s1[i] = g[i] /\ g[i] = d[p + L + i]
        BY <2>6, <2>9, <2>12, <2>13, <3>1, <3>2
      <4>2. s[L + i] = e[L + i] /\ e[L + i] = d[p + (L + i)]
        BY <2>5, <2>8, <2>12, <2>13, <3>1, <3>2
      <4>3. p + (L + i) = p + L + i
        OBVIOUS
      <4>4. QED
        BY <4>1, <4>2, <4>3
    <3>3. CASE ~(i <= ld - L)
      <4>1. s1[i] = y[i - (ld - L)]
        BY <2>9, <2>12, <2>13, <3>1, <3>3
      <4>2. s[L + i] = y[(L + i) - ld]
        BY <2>8, <2>12, <2>13, <3>1, <3>3
      <4>3. (L + i) - ld = i - (ld - L)
        BY <2>12
      <4>4. QED
        BY <4>1, <4>2, <4>3
    <3>4. QED
      BY <3>2, <3>3
  <2>15. QED
    BY <2>9, <2>10, <2>11, <2>12, <2>13, <2>14
<1>18. QED
  BY <1>3, <1>4, <1>7, <1>9, <1>16, <1>17

-----------------------------------------------------------------------------
(* sendBin *)

NewFrame(size) == [i \in 1..size |-> <<Len(frames) + 1, i>>]

\* sendBin of an enabled connection, of which the socket takes n units at once.
Offered(size, n) ==
  /\ state \in {"connecting", "connected"} /\ bEnable /\ ~died /\ Len(frames) < MaxSends
  /\ size \in Nat /\ size > HeaderSize /\ n \in 0..size /\ Len(wire) + n <= WireSize
  /\ n > 0 => output.data = <<>> /\ up /\ state = "connected"
  /\ frames' = Append(frames, size) /\ faults' \in 0..MaxFaults
  /\ wire' = wire \o SubSeq(NewFrame(size), 1, n)
  /\ UNCHANGED <<up, reader, input, pos, consumed>>

\* The rest is buffered.
Taken(size, n) ==
  /\ Offered(size, n)
  /\ output' \in Buffers /\ BufferOK(output')
  /\ output'.data = output.data \o SubSeq(NewFrame(size), n + 1, size)
  /\ accepted' = Append(accepted, Len(frames) + 1)
  /\ UNCHANGED <<conn, torn, died>>
  /\ selevent' \subseteq {"R", "W"} /\ selevent \subseteq selevent'
  /\ interest' = selevent' /\ selected' = TRUE
  /\ state = "connected" /\ output'.data # <<>> => "W" \in selevent'

\* There is no memory for it.
Thrown(size, n) ==
  /\ Offered(size, n) /\ n < size /\ UNCHANGED accepted
  /\ \E partly \in BOOLEAN : (partly <=> n > 0) /\ Throws(partly)

\* The frame of a message.
LEMMA NewFrameIs ==
  ASSUME Base, NEW size \in Nat
  PROVE  /\ NewFrame(size) \in Seq(Unit) /\ Len(NewFrame(size)) = size
         /\ \A i \in 1..size : NewFrame(size)[i] = <<Len(frames) + 1, i>>
<1>1. PICK k \in Nat : k = Len(frames) + 1
  BY DEF Base, Types, Data
<1>2. PICK f : f = [i \in 1..size |-> <<k, i>>]
  OBVIOUS
<1>3. \A i \in 1..size : <<k, i>> \in Unit
  BY DEF Unit
<1>4. f \in Seq(Unit) /\ Len(f) = size
  BY <1>2, <1>3
<1>5. \A i \in 1..size : f[i] = <<k, i>>
  BY <1>2
<1>6. NewFrame(size) = f
  BY <1>1, <1>2 DEF NewFrame
<1>7. QED
  BY <1>1, <1>4, <1>5, <1>6

\* Written: the rest of a frame is behind what is buffered, or there is no memory.
LEMMA WrittenIs ==
  ASSUME Base, NEW size \in Nat, NEW n \in 0..size, NEW mem,
         NEW r, r = Written(NewFrame(size), n, mem)
  PROVE  /\ r.ok \in BOOLEAN /\ r.buf \in Buffers /\ BufferOK(r.buf)
         /\ r.ok => r.buf.data = output.data \o SubSeq(NewFrame(size), n + 1, size)
         /\ ~r.ok => n < size
<1>1. PICK f \in Seq(Unit) : f = NewFrame(size) /\ Len(f) = size
  BY NewFrameIs
<1>2. PICK b \in Buffers : b = output
  BY DEF Base, Types, Data
<1>3. BufferOK(b)
  BY <1>2 DEF Base, BoundsOK
<1>4. PICK g \in Seq(Unit) : g = SubSeq(f, n + 1, size) /\ Len(g) = size - n
  <2>1. n \in 0..Len(f)
    BY <1>1
  <2>2. SubSeq(f, n + 1, Len(f)) \in Seq(Unit) /\ Len(SubSeq(f, n + 1, Len(f))) = Len(f) - n
    BY <2>1, SplitSeq
  <2>3. QED
    BY <1>1, <2>2
<1>5. r = BufferAppend(b, g, mem)
  BY <1>1, <1>2, <1>4 DEF Written
<1>6. /\ r.ok \in BOOLEAN /\ r.buf \in Buffers /\ BufferOK(r.buf)
      /\ r.ok => r.buf.data = b.data \o g
      /\ ~r.ok => g # <<>>
  BY <1>3, <1>5, AppendBuf
<1>7. g # <<>> => n < size
  BY <1>4
<1>8. QED
  BY <1>1, <1>2, <1>4, <1>6, <1>7

\* write arms the event loop for what is buffered.
LEMMA ArmedIs ==
  ASSUME Base, state \in {"connecting", "connected"},
         \/ UNCHANGED events /\ (state = "connected" => output'.data = <<>> \/ "W" \in selevent)
         \/ AddEvent({}, {"W"})
  PROVE  /\ selevent' \subseteq {"R", "W"} /\ selevent \subseteq selevent'
         /\ interest' = selevent' /\ selected' = TRUE
         /\ state = "connected" /\ output'.data # <<>> => "W" \in selevent'
<1>1. selected = TRUE /\ interest = selevent /\ selevent \subseteq {"R", "W"}
  <2>1. selected /\ interest = selevent
    BY DEF Base, EventsOK
  <2>2. selected \in BOOLEAN /\ selevent \subseteq {"R", "W"}
    BY DEF Base, Types, Flags, Data
  <2>3. QED
    BY <2>1, <2>2
<1>2. CASE UNCHANGED events /\ (state = "connected" => output'.data = <<>> \/ "W" \in selevent)
  BY <1>1, <1>2 DEF events
<1>3. CASE AddEvent({}, {"W"})
  <2>1. /\ selevent' = (selevent \ ({} \ {"W"})) \union {"W"}
        /\ interest' = selevent' /\ selected' /\ selected' \in BOOLEAN
    BY <1>1, <1>3, AddEventIs
  <2>2. QED
    BY <1>1, <2>1
<1>4. QED
  BY <1>2, <1>3

\* A message that is taken or thrown.
LEMMA SendCases ==
  ASSUME Base, NEW size \in FrameSize, NEW mem \in BOOLEAN, NEW nsent \in 0..WireSize,
         SendEarly(size, mem) \/ Send(size, nsent, mem) \/ SendBroken(size, mem)
  PROVE  \E n \in 0..size : Taken(size, n) \/ Thrown(size, n)
<1>0. /\ size \in Nat /\ size > HeaderSize /\ HeaderSize \in Nat /\ WireSize \in Nat
      /\ HeaderSize > 0
  BY FrameAssumption
<1>1. PICK w \in Seq(Unit) : w = wire /\ Len(w) <= WireSize
  BY DEF Base, BoundsOK, Types, Data
<1>2. PICK f \in Seq(Unit) : f = NewFrame(size) /\ Len(f) = size
  BY <1>0, NewFrameIs
<1>3. SubSeq(f, 1, 0) = <<>> /\ w \o <<>> = w
  BY SubSeqEmpty, ConcatEmptySeq
<1>9. PICK z \in 0..size : z = 0
  BY <1>0
<1>4. faults' \in 0..MaxFaults
  <2>1. Types /\ Memory(mem)
    BY DEF SendEarly, Send, SendBroken, Base
  <2>2. QED
    BY <2>1, FaultIs DEF Memory
<1>5. CASE SendEarly(size, mem)
  <2>1. PICK r : r = Written(NewFrame(size), z, mem)
    OBVIOUS
  <2>2. /\ r.ok \in BOOLEAN /\ r.buf \in Buffers /\ BufferOK(r.buf)
        /\ r.ok => r.buf.data = output.data \o SubSeq(NewFrame(size), z + 1, size)
    BY <1>0, <2>1, WrittenIs
  <2>3. /\ state = "connecting" /\ ~died /\ bEnable /\ Len(frames) < MaxSends
        /\ frames' = Append(frames, size)
        /\ \/ /\ r.ok /\ output' = r.buf /\ accepted' = Append(accepted, Len(frames) + 1)
              /\ UNCHANGED <<conn, events, torn, died>>
           \/ ~r.ok /\ Throws(FALSE) /\ UNCHANGED accepted
        /\ UNCHANGED <<up, wire, reader, input, pos, consumed>>
    BY <1>5, <1>9, <2>1, Zenon DEF SendEarly, NewFrame, net, recving
  <2>4. Offered(size, z)
    BY <1>0, <1>1, <1>2, <1>3, <1>9, <1>4, <2>3 DEF Offered
  <2>5. CASE r.ok
    <3>1. /\ selevent' \subseteq {"R", "W"} /\ selevent \subseteq selevent'
          /\ interest' = selevent' /\ selected' = TRUE
          /\ state = "connected" /\ output'.data # <<>> => "W" \in selevent'
      BY <2>3, <2>5, ArmedIs
    <3>2. Taken(size, z)
      BY <2>2, <2>3, <2>4, <2>5, <3>1 DEF Taken
    <3>3. QED
      BY <1>0, <3>2
  <2>6. CASE ~r.ok
    <3>1. Throws(FALSE) /\ UNCHANGED accepted
      BY <2>3, <2>6
    <3>2. z < size /\ (FALSE <=> z > 0)
      BY <1>0, <1>9
    <3>3. Thrown(size, z)
      BY <2>4, <3>1, <3>2, Zenon DEF Thrown
    <3>4. QED
      BY <3>3
  <2>7. QED
    BY <2>5, <2>6
<1>6. CASE Send(size, nsent, mem)
  <2>1. PICK r : r = Written(NewFrame(size), nsent, mem)
    OBVIOUS
  <2>2. /\ state = "connected" /\ ~died /\ Len(frames) < MaxSends /\ bEnable /\ up
        /\ nsent \in 0..(IF output.data = <<>> THEN size ELSE 0) /\ nsent <= Room
        /\ frames' = Append(frames, size)
        /\ wire' = wire \o SubSeq(NewFrame(size), 1, nsent)
        /\ \/ /\ r.ok /\ output' = r.buf /\ accepted' = Append(accepted, Len(frames) + 1)
              /\ (r.buf.data = <<>> /\ UNCHANGED events) \/ AddEvent({}, {"W"})
              /\ UNCHANGED <<conn, torn, died>>
           \/ ~r.ok /\ Throws(nsent > 0) /\ UNCHANGED accepted
        /\ UNCHANGED <<up, reader, input, pos, consumed>>
    BY <1>6, <2>1 DEF Send, NewFrame, recving
  <2>3. nsent \in 0..size /\ (nsent > 0 => output.data = <<>>)
    BY <1>0, <2>2
  <2>4. /\ r.ok \in BOOLEAN /\ r.buf \in Buffers /\ BufferOK(r.buf)
        /\ r.ok => r.buf.data = output.data \o SubSeq(NewFrame(size), nsent + 1, size)
        /\ ~r.ok => nsent < size
    BY <1>0, <2>1, <2>3, WrittenIs
  <2>5. Len(wire) + nsent <= WireSize
    <3>1. nsent <= WireSize - Len(w)
      BY <1>1, <2>2 DEF Room
    <3>2. QED
      BY <1>0, <1>1, <3>1
  <2>6. Offered(size, nsent)
    BY <1>0, <1>4, <2>2, <2>3, <2>5 DEF Offered
  <2>7. CASE r.ok
    <3>1. /\ selevent' \subseteq {"R", "W"} /\ selevent \subseteq selevent'
          /\ interest' = selevent' /\ selected' = TRUE
          /\ state = "connected" /\ output'.data # <<>> => "W" \in selevent'
      BY <2>2, <2>7, ArmedIs
    <3>2. Taken(size, nsent)
      BY <2>2, <2>4, <2>6, <2>7, <3>1 DEF Taken
    <3>3. QED
      BY <2>3, <3>2
  <2>8. CASE ~r.ok
    <3>1. (nsent > 0) \in BOOLEAN
      OBVIOUS
    <3>2. Thrown(size, nsent)
      BY <2>2, <2>4, <2>6, <2>8, <3>1, Zenon DEF Thrown
    <3>3. QED
      BY <2>3, <3>2
  <2>9. QED
    BY <2>7, <2>8
<1>7. CASE SendBroken(size, mem)
  <2>1. PICK r : r = Written(NewFrame(size), z, mem)
    OBVIOUS
  <2>2. /\ r.ok \in BOOLEAN /\ r.buf \in Buffers /\ BufferOK(r.buf)
        /\ r.ok => r.buf.data = output.data \o SubSeq(NewFrame(size), z + 1, size)
    BY <1>0, <2>1, WrittenIs
  <2>3. /\ state = "connected" /\ ~died /\ bEnable /\ Len(frames) < MaxSends
        /\ frames' = Append(frames, size)
        /\ \/ /\ r.ok /\ output' = r.buf /\ accepted' = Append(accepted, Len(frames) + 1)
              /\ AddEvent({}, {"W"}) /\ UNCHANGED <<conn, torn, died>>
           \/ Throws(FALSE) /\ UNCHANGED accepted
        /\ UNCHANGED <<up, wire, reader, input, pos, consumed>>
    BY <1>7, <1>9, <2>1, Zenon DEF SendBroken, NewFrame, net, recving
  <2>4. Offered(size, z)
    BY <1>0, <1>1, <1>2, <1>3, <1>9, <1>4, <2>3 DEF Offered
  <2>5. CASE /\ r.ok /\ output' = r.buf /\ accepted' = Append(accepted, Len(frames) + 1)
             /\ AddEvent({}, {"W"}) /\ UNCHANGED <<conn, torn, died>>
    <3>1. /\ selevent' \subseteq {"R", "W"} /\ selevent \subseteq selevent'
          /\ interest' = selevent' /\ selected' = TRUE
          /\ state = "connected" /\ output'.data # <<>> => "W" \in selevent'
      BY <2>3, <2>5, ArmedIs
    <3>2. Taken(size, z)
      BY <2>2, <2>3, <2>4, <2>5, <3>1 DEF Taken
    <3>3. QED
      BY <1>0, <3>2
  <2>6. CASE Throws(FALSE) /\ UNCHANGED accepted
    <3>1. z < size /\ (FALSE <=> z > 0)
      BY <1>0, <1>9
    <3>2. Thrown(size, z)
      BY <2>4, <2>6, <3>1, Zenon DEF Thrown
    <3>3. QED
      BY <3>2
  <2>7. QED
    BY <2>3, <2>5, <2>6
<1>8. QED
  BY <1>5, <1>6, <1>7

\* Units stay known when there are more messages.
LEMMA KnownGrows ==
  ASSUME NEW fr \in Seq(Nat), NEW size \in Nat, NEW fr1, fr1 = Append(fr, size)
  PROVE  /\ fr1 \in Seq(Nat) /\ Len(fr1) = Len(fr) + 1 /\ fr1[Len(fr) + 1] = size
         /\ \A i \in 1..Len(fr) : fr1[i] = fr[i]
         /\ \A s \in Seq(Unit) : KnownUnits(s, fr) => KnownUnits(s, fr1)
         /\ Sizes(fr) /\ size > HeaderSize => Sizes(fr1)
<1>1. /\ fr1 \in Seq(Nat) /\ Len(fr1) = Len(fr) + 1 /\ fr1[Len(fr) + 1] = size
      /\ \A i \in 1..Len(fr) : fr1[i] = fr[i]
  BY AppendProperties
<1>2. \A i \in 1..Len(fr) : i \in 1..Len(fr1)
  BY <1>1
<1>3. \A s \in Seq(Unit) : KnownUnits(s, fr) => KnownUnits(s, fr1)
  BY <1>1 DEF KnownUnits
<1>4. \A i \in 1..Len(fr1) : i \in 1..Len(fr) \/ i = Len(fr) + 1
  BY <1>1
<1>5. Sizes(fr) /\ size > HeaderSize => Sizes(fr1)
  BY <1>1, <1>4 DEF Sizes
<1>6. QED
  BY <1>1, <1>3, <1>5

\* Where the exception of a failed write ends.
LEMMA ThrowsIs ==
  ASSUME Base, state \in {"connecting", "connected"}, bEnable,
         NEW partly \in BOOLEAN, Throws(partly)
  PROVE  \/ Erase /\ UNCHANGED <<torn, died>>
         \/ /\ bEnable' = FALSE /\ lazy' = TRUE
            /\ UNCHANGED <<state, client, output, events, torn, died>>
         \/ /\ frames = <<>> /\ accepted = <<>> /\ died' \in BOOLEAN /\ torn' = partly
            /\ UNCHANGED <<conn, output, events>>
<1>1. CASE Caller = "answer"
  BY <1>1, Zenon DEF Throws
<1>2. CASE Caller = "dispatchById"
  BY <1>2 DEF Throws
<1>3. CASE Caller = "first"
  <2>1. frames = <<>> /\ accepted = <<>>
    BY <1>3 DEF Caller
  <2>2. QED
    BY <1>3, <2>1 DEF Throws
<1>4. Caller \in {"answer", "dispatchById", "first"}
  BY DEF Caller
<1>5. QED
  BY <1>1, <1>2, <1>3, <1>4

\* What the socket takes is on the wire.
LEMMA OfferedIs ==
  ASSUME Base, NEW size, NEW n, Offered(size, n)
  PROVE  /\ frames' \in Seq(Nat) /\ frames' # <<>> /\ Sizes(frames')
         /\ wire' \in Seq(Unit) /\ Len(wire') <= WireSize /\ KnownUnits(wire', frames')
         /\ KnownUnits(input.data, frames') /\ KnownUnits(output.data, frames')
         /\ KnownUnits(SubSeq(NewFrame(size), n + 1, size), frames')
         /\ n = 0 => wire' = wire
<1>1. PICK fr \in Seq(Nat), w \in Seq(Unit), d \in Seq(Unit), o \in Seq(Unit) :
        fr = frames /\ w = wire /\ d = input.data /\ o = output.data
  BY DEF Base, Types, Data, Buffers
<1>2. /\ size \in Nat /\ size > HeaderSize /\ n \in 0..size /\ Len(w) + n <= WireSize
      /\ frames' = Append(fr, size) /\ wire' = w \o SubSeq(NewFrame(size), 1, n)
  BY <1>1 DEF Offered
<1>3. PICK fr1 : fr1 = Append(fr, size)
  OBVIOUS
<1>4. /\ fr1 \in Seq(Nat) /\ Len(fr1) = Len(fr) + 1
      /\ \A s \in Seq(Unit) : KnownUnits(s, fr) => KnownUnits(s, fr1)
      /\ Sizes(fr) /\ size > HeaderSize => Sizes(fr1)
  BY <1>2, <1>3, KnownGrows
<1>5. KnownUnits(w, fr1) /\ KnownUnits(d, fr1) /\ KnownUnits(o, fr1) /\ Sizes(fr1)
  BY <1>1, <1>2, <1>4 DEF Base, Known
<1>6. PICK f \in Seq(Unit) : f = NewFrame(size) /\ Len(f) = size
  BY <1>2, NewFrameIs
<1>7. KnownUnits(f, fr1)
  <2>1. \A i \in 1..size : f[i] = <<Len(fr) + 1, i>>
    BY <1>1, <1>2, <1>6, NewFrameIs
  <2>2. QED
    BY <1>4, <1>6, <2>1 DEF KnownUnits
<1>8. PICK a, b : a = SubSeq(f, 1, n) /\ b = SubSeq(f, n + 1, Len(f))
  OBVIOUS
<1>9. /\ a \in Seq(Unit) /\ Len(a) = n /\ b \in Seq(Unit)
      /\ KnownUnits(a, fr1) /\ KnownUnits(b, fr1)
  BY <1>2, <1>6, <1>7, <1>8, SplitSeq, KnownParts
<1>10. PICK wa : wa = w \o a
  OBVIOUS
<1>11. wa \in Seq(Unit) /\ Len(wa) = Len(w) + n /\ KnownUnits(wa, fr1)
  BY <1>5, <1>9, <1>10, KnownCat
<1>12. n = 0 => wa = w
  BY <1>9, <1>10, ConcatEmptySeq
<1>13. fr1 # <<>> /\ Len(wa) <= WireSize
  BY <1>2, <1>4, <1>11
<1>14. wire' = wa /\ frames' = fr1 /\ b = SubSeq(NewFrame(size), n + 1, size)
  BY <1>2, <1>3, <1>6, <1>8, <1>10, Zenon
<1>15. QED
  BY <1>1, <1>4, <1>5, <1>9, <1>11, <1>12, <1>13, <1>14, Zenon

\* sendBin takes the message.
LEMMA TakenBase ==
  ASSUME Base, NEW size, NEW n, Taken(size, n)
  PROVE  Base'
<1>0. Types /\ EventsOK /\ PhaseOK
  BY DEF Base
<1>1. /\ frames' \in Seq(Nat) /\ frames' # <<>> /\ Sizes(frames')
      /\ wire' \in Seq(Unit) /\ Len(wire') <= WireSize /\ KnownUnits(wire', frames')
      /\ KnownUnits(input.data, frames') /\ KnownUnits(output.data, frames')
      /\ KnownUnits(SubSeq(NewFrame(size), n + 1, size), frames')
      /\ n = 0 => wire' = wire
  BY OfferedIs DEF Taken
<1>2. /\ state \in {"connecting", "connected"}
      /\ size \in Nat /\ n \in 0..size
      /\ n > 0 => output.data = <<>> /\ up /\ state = "connected"
      /\ faults' \in 0..MaxFaults
      /\ output' \in Buffers /\ BufferOK(output')
      /\ output'.data = output.data \o SubSeq(NewFrame(size), n + 1, size)
      /\ accepted' = Append(accepted, Len(frames) + 1)
      /\ UNCHANGED <<state, client, bEnable, lazy, torn, died, up, reader, input, pos, consumed>>
      /\ selevent' \subseteq {"R", "W"} /\ selevent \subseteq selevent'
      /\ interest' = selevent' /\ selected' = TRUE
      /\ state = "connected" /\ output'.data # <<>> => "W" \in selevent'
  BY DEF Taken, Offered, conn
<1>3. Types'
  <2>1. Flags'
    BY <1>0, <1>2, Zenon DEF Types, Flags
  <2>2. accepted' \in Seq(Nat)
    BY <1>0, <1>2 DEF Types, Data
  <2>3. Data'
    BY <1>0, <1>1, <1>2, <2>2 DEF Types, Data
  <2>4. QED
    BY <2>1, <2>3 DEF Types
<1>4. EventsOK'
  <2>1. state = "connecting" => selevent = {"R", "W"}
    BY <1>0 DEF EventsOK
  <2>2. state = "connected" => "R" \in selevent
    BY <1>0 DEF EventsOK
  <2>3. QED
    BY <1>2, <2>1, <2>2 DEF EventsOK
<1>5. n = 0 \/ n > 0
  BY <1>2
<1>6. PhaseOK'
  BY <1>0, <1>1, <1>2, <1>5 DEF PhaseOK
<1>7. BoundsOK'
  <2>1. BufferOK(input)' /\ BufferOK(output)'
    BY <1>2 DEF BufferOK, capacity, Base, BoundsOK
  <2>2. QED
    BY <1>1, <1>2, <2>1 DEF Base, BoundsOK
<1>8. Known'
  <2>0. PICK o \in Seq(Unit) : o = output.data
    BY <1>0 DEF Types, Data, Buffers
  <2>1. PICK g, fr1 : g = SubSeq(NewFrame(size), n + 1, size) /\ fr1 = frames'
    OBVIOUS
  <2>2. g \in Seq(Unit)
    <3>1. PICK f \in Seq(Unit) : f = NewFrame(size) /\ Len(f) = size
      BY <1>2, NewFrameIs
    <3>2. n \in 0..Len(f)
      BY <1>2, <3>1
    <3>3. QED
      BY <2>1, <3>1, <3>2, SplitSeq
  <2>3. KnownUnits(o \o g, fr1)
    BY <1>1, <2>0, <2>1, <2>2, KnownCat
  <2>4. KnownUnits(output'.data, frames')
    BY <1>2, <2>0, <2>1, <2>3
  <2>5. KnownUnits(input'.data, frames')
    BY <1>1, <1>2
  <2>6. QED
    BY <1>1, <2>4, <2>5 DEF Known
<1>9. QED
  BY <1>3, <1>4, <1>6, <1>7, <1>8 DEF Base

\* sendBin throws.
LEMMA ThrownBase ==
  ASSUME Base, NEW size, NEW n, Thrown(size, n)
  PROVE  Base'
<1>0. Types /\ EventsOK /\ PhaseOK
  BY DEF Base
<1>1. /\ frames' \in Seq(Nat) /\ frames' # <<>> /\ Sizes(frames')
      /\ wire' \in Seq(Unit) /\ Len(wire') <= WireSize /\ KnownUnits(wire', frames')
      /\ KnownUnits(input.data, frames') /\ KnownUnits(output.data, frames')
      /\ n = 0 => wire' = wire
  BY OfferedIs DEF Thrown
<1>2. /\ state \in {"connecting", "connected"} /\ bEnable /\ ~died
      /\ n > 0 => up /\ state = "connected"
      /\ faults' \in 0..MaxFaults
      /\ UNCHANGED <<up, reader, input, pos, consumed, accepted>>
  BY DEF Thrown, Offered
<1>3. n = 0 \/ n > 0
  <2>1. size \in Nat /\ n \in 0..size
    BY DEF Thrown, Offered
  <2>2. QED
    BY <2>1
<1>4. PICK partly \in BOOLEAN : Throws(partly)
  BY Zenon DEF Thrown
<1>5. \/ Erase /\ UNCHANGED <<torn, died>>
      \/ /\ bEnable' = FALSE /\ lazy' = TRUE
         /\ UNCHANGED <<state, client, output, events, torn, died>>
      \/ /\ frames = <<>> /\ accepted = <<>> /\ died' \in BOOLEAN /\ torn' = partly
         /\ UNCHANGED <<conn, output, events>>
  BY <1>2, <1>4, ThrowsIs
<1>6. CASE Erase /\ UNCHANGED <<torn, died>>
  <2>1. /\ state' = "erased" /\ output' = EmptyBuffer /\ interest' = {} /\ selected' = FALSE
        /\ UNCHANGED <<client, bEnable, lazy, selevent, torn, died>>
    BY <1>6 DEF Erase
  <2>2. output' \in Buffers /\ output'.data = <<>> /\ BufferOK(output')
    BY <2>1, EmptyIs
  <2>3. Types'
    <3>1. Flags'
      BY <1>0, <1>2, <2>1, Zenon DEF Types, Flags
    <3>2. Data'
      BY <1>0, <1>1, <1>2, <2>1, <2>2 DEF Types, Data
    <3>3. QED
      BY <3>1, <3>2 DEF Types
  <2>4. EventsOK'
    BY <2>1 DEF EventsOK
  <2>5. PhaseOK'
    BY <1>0, <1>1, <1>2, <1>3, <2>1 DEF PhaseOK
  <2>6. BoundsOK'
    <3>1. BufferOK(input)' /\ BufferOK(output)'
      BY <1>2, <2>2 DEF BufferOK, capacity, Base, BoundsOK
    <3>2. QED
      BY <1>1, <1>2, <3>1 DEF Base, BoundsOK
  <2>7. Known'
    <3>1. KnownUnits(output'.data, frames')
      BY <2>2 DEF KnownUnits
    <3>2. KnownUnits(input'.data, frames')
      BY <1>1, <1>2
    <3>3. QED
      BY <1>1, <3>1, <3>2 DEF Known
  <2>8. QED
    BY <2>3, <2>4, <2>5, <2>6, <2>7 DEF Base
<1>7. CASE /\ UNCHANGED <<state, client, output, selevent, selected, interest>>
           /\ bEnable' \in BOOLEAN /\ lazy' \in BOOLEAN /\ torn' \in BOOLEAN /\ died' \in BOOLEAN
           /\ bEnable' \/ state # "new"
  <2>1. Types'
    <3>1. Flags'
      BY <1>0, <1>2, <1>7, Zenon DEF Types, Flags
    <3>2. Data'
      BY <1>0, <1>1, <1>2, <1>7 DEF Types, Data
    <3>3. QED
      BY <3>1, <3>2 DEF Types
  <2>2. EventsOK'
    BY <1>0, <1>2, <1>7 DEF EventsOK
  <2>3. PhaseOK'
    BY <1>0, <1>1, <1>2, <1>3, <1>7 DEF PhaseOK
  <2>4. BoundsOK'
    <3>1. BufferOK(input)' /\ BufferOK(output)'
      BY <1>2, <1>7 DEF BufferOK, capacity, Base, BoundsOK
    <3>2. QED
      BY <1>1, <1>2, <3>1 DEF Base, BoundsOK
  <2>5. Known'
    <3>1. KnownUnits(input'.data, frames') /\ KnownUnits(output'.data, frames')
      BY <1>1, <1>2, <1>7
    <3>2. QED
      BY <1>1, <3>1 DEF Known
  <2>6. QED
    BY <2>1, <2>2, <2>3, <2>4, <2>5 DEF Base
<1>8. QED
  <2>1. state # "new" /\ bEnable \in BOOLEAN /\ lazy \in BOOLEAN /\ torn \in BOOLEAN /\ died \in BOOLEAN
    BY <1>0, <1>2 DEF Types, Flags
  <2>2. QED
    BY <1>5, <1>6, <1>7, <2>1, Zenon DEF conn, events

\* sendBin drops the message.
LEMMA DroppedBase ==
  ASSUME Base, NEW size \in FrameSize, SendDisabled(size)
  PROVE  Base' /\ Stream' = Stream
<1>0. Types /\ EventsOK /\ PhaseOK
  BY DEF Base
<1>1. PICK fr \in Seq(Nat), w \in Seq(Unit), d \in Seq(Unit), o \in Seq(Unit) :
        fr = frames /\ w = wire /\ d = input.data /\ o = output.data
  BY <1>0 DEF Types, Data, Buffers
<1>2. /\ state \in {"connecting", "connected"} /\ frames' = Append(fr, size)
      /\ UNCHANGED <<state, client, bEnable, lazy, output, selevent, selected, interest, up, wire,
                     reader, input, pos, accepted, consumed, torn, died, faults>>
  BY <1>1 DEF SendDisabled, conn, events, net, recving
<1>3. size \in Nat /\ size > HeaderSize
  BY FrameAssumption
<1>4. PICK fr1 : fr1 = Append(fr, size)
  OBVIOUS
<1>5. /\ fr1 \in Seq(Nat) /\ Len(fr1) = Len(fr) + 1
      /\ \A s \in Seq(Unit) : KnownUnits(s, fr) => KnownUnits(s, fr1)
      /\ Sizes(fr) /\ size > HeaderSize => Sizes(fr1)
  BY <1>3, <1>4, KnownGrows
<1>6. KnownUnits(w, fr1) /\ KnownUnits(d, fr1) /\ KnownUnits(o, fr1) /\ Sizes(fr1) /\ fr1 # <<>>
  BY <1>1, <1>3, <1>5 DEF Base, Known
<1>7. Types'
  <2>1. Flags'
    BY <1>0, <1>2, Zenon DEF Types, Flags
  <2>2. Data'
    BY <1>0, <1>2, <1>4, <1>5 DEF Types, Data
  <2>3. QED
    BY <2>1, <2>2 DEF Types
<1>8. EventsOK' /\ PhaseOK'
  BY <1>0, <1>2, <1>4, <1>6 DEF EventsOK, PhaseOK
<1>9. BoundsOK'
  BY <1>2 DEF Base, BoundsOK, BufferOK, capacity
<1>10. Known'
  BY <1>1, <1>2, <1>4, <1>6, Zenon DEF Known
<1>11. Stream' = Stream
  BY <1>2 DEF Stream, Coming
<1>12. QED
  BY <1>7, <1>8, <1>9, <1>10, <1>11 DEF Base

\* The types and bounds, the registered events and the phases of a connection hold
\* initially and are kept by every step.
LEMMA BaseInit == Init => Base
<1> SUFFICES ASSUME Init PROVE Base
  OBVIOUS
<1>1. input = EmptyBuffer /\ output = EmptyBuffer /\ wire = <<>> /\ frames = <<>> /\ pos = 0
  BY DEF Init
<1>2. input \in Buffers /\ output \in Buffers /\ input.data = <<>> /\ output.data = <<>>
      /\ BufferOK(input) /\ BufferOK(output)
  BY <1>1, EmptyIs
<1>3. Types
  <2>1. Flags
    BY Zenon DEF Init, Flags
  <2>2. Data
    BY <1>2, FrameAssumption DEF Init, Data
  <2>3. QED
    BY <2>1, <2>2 DEF Types
<1>4. BoundsOK
  BY <1>1, <1>2, FrameAssumption DEF BoundsOK
<1>5. EventsOK /\ PhaseOK
  BY <1>1, <1>2 DEF Init, EventsOK, PhaseOK
<1>6. Known
  BY <1>1, <1>2 DEF Known, KnownUnits, Sizes
<1>7. QED
  BY <1>3, <1>4, <1>5, <1>6 DEF Base

\* Every handler of both event loops keeps the types, the buffers' bounds and the events.
LEMMA BaseKept == Base /\ [Next]_vars => Base'
<1> SUFFICES ASSUME Base, [Next]_vars PROVE Base'
  OBVIOUS
<1>1. CASE \E now \in BOOLEAN : Connect(now)
  BY <1>1, ConnectBase
<1>2. CASE Accept
  BY <1>2, AcceptBase
<1>3. CASE Sending
  <2>1. CASE \E size \in FrameSize : SendDisabled(size)
    BY <2>1, DroppedBase
  <2>2. CASE \E size \in FrameSize, mem \in BOOLEAN, nsent \in 0..WireSize :
               SendEarly(size, mem) \/ Send(size, nsent, mem) \/ SendBroken(size, mem)
    <3>1. PICK size \in FrameSize, mem \in BOOLEAN, nsent \in 0..WireSize :
            SendEarly(size, mem) \/ Send(size, nsent, mem) \/ SendBroken(size, mem)
      BY <2>2
    <3>2. PICK n \in 0..size : Taken(size, n) \/ Thrown(size, n)
      BY <3>1, SendCases
    <3>3. QED
      BY <3>2, TakenBase, ThrownBase
  <2>3. 0 \in 0..WireSize
    BY FrameAssumption
  <2>4. QED
    BY <1>3, <2>1, <2>2, <2>3, Zenon DEF Sending
<1>4. CASE Polling
  <2>1. CASE \E n \in 0..WireSize : OnConnected(n) \/ OnWrite(n)
    BY <2>1, OnWriteBase
  <2>2. CASE \/ OnConnectedThrows \/ ConnectRefused \/ ConnectTimeout \/ LazyDelete
             \/ \E writable \in BOOLEAN : OnReadClosed(writable)
    BY <2>2, EndsBase
  <2>3. QED
    BY <1>4, <2>1, <2>2, Zenon DEF Polling
<1>5. CASE Reading
  <2>1. CASE \E n \in 1..WireSize, mem \in BOOLEAN : Pump(n, mem)
    BY <2>1, PumpBase
  <2>2. CASE OnDataThrows \/ \E mem \in BOOLEAN : PumpEnds(mem)
    BY <2>2, ReaderEndsBase
  <2>3. CASE OnData
    BY <2>3, OnDataBase
  <2>4. CASE OnDataReturns
    BY <2>4, OnDataReturnsBase
  <2>5. QED
    BY <1>5, <2>1, <2>2, <2>3, <2>4, Zenon DEF Reading
<1>6. CASE Reset
  BY <1>6, EndsBase
<1>7. CASE UNCHANGED vars
  <2>1. UNCHANGED <<state, client, bEnable, lazy, output, selevent, selected, interest, up, wire,
                    reader, input, pos, frames, accepted, consumed, torn, died, faults>>
    BY <1>7 DEF vars, conn, events, net, recving, history
  <2>2. Types'
    <3>1. Flags'
      BY <2>1, Zenon DEF Base, Types, Flags
    <3>2. Data'
      BY <2>1 DEF Base, Types, Data
    <3>3. QED
      BY <3>1, <3>2 DEF Types
  <2>3. EventsOK' /\ PhaseOK'
    BY <2>1 DEF Base, EventsOK, PhaseOK
  <2>4. QED
    BY <2>1, <2>2, <2>3, BaseStep DEF recving, history
<1>8. QED
  BY <1>1, <1>2, <1>3, <1>4, <1>5, <1>6, <1>7, Zenon DEF Next

\* Types and bounds: both buffers keep within their blocks and their limit whatever is sent,
\* received and erased (SockBuffer::pump, BlockBuffer::increase_capacity).
THEOREM ChannelTypes == Spec => []TypeOK
<1>1. Base => TypeOK
  BY DEF Base, Types, Data, BoundsOK, TypeOK
<1>2. QED
  BY BaseInit, BaseKept, <1>1, PTL DEF Spec

\* addEvent: data buffered on a connection that is up is announced to the kernel, and the
\* flags of the socket are what epoll holds, for every order of sends, flushes and throws.
THEOREM WritesArmed == Spec => []WriteArmed
<1>1. Base => WriteArmed
  BY DEF Base, EventsOK, WriteArmed
<1>2. QED
  BY BaseInit, BaseKept, <1>1, PTL DEF Spec

-----------------------------------------------------------------------------
(* The messages in the stream *)

\* A part of the stream is lost from its end.
LEMMA PrefixOK ==
  ASSUME NEW s \in Seq(Unit), NEW s1 \in Seq(Unit), Len(s1) <= Len(s),
         \A i \in 1..Len(s1) : s1[i] = s[i],
         NEW fr, NEW acc \in Seq(Nat), NEW con, StreamOK(s, fr, acc, con)
  PROVE  StreamOK(s1, fr, acc, con) /\ (OnlyAccepted(s, acc) => OnlyAccepted(s1, acc))
<1>1. PICK l \in Nat, l1 \in Nat : l = Len(s) /\ l1 = Len(s1) /\ l1 <= l
  OBVIOUS
<1>2. \A i \in 1..l1 : i \in 1..l
  BY <1>1
<1>3. UnitsOK(s1, fr, acc)
  BY <1>1, <1>2 DEF StreamOK, UnitsOK
<1>4. StartsOK(s1, acc, Len(con))
  <2>1. CASE s1 = <<>>
    BY <2>1 DEF StartsOK
  <2>2. CASE s1 # <<>>
    <3>1. l1 # 0 /\ s # <<>>
      BY <1>1, <2>2
    <3>2. 1 \in 1..l1
      BY <3>1
    <3>3. s1[1] = s[1]
      BY <1>1, <3>2
    <3>4. QED
      BY <3>1, <3>3 DEF StreamOK, StartsOK
  <2>3. QED
    BY <2>1, <2>2
<1>5. ChainOK(s1, fr, acc)
  <2>1. \A i \in 1..l1 - 1 : i \in 1..l - 1 /\ i \in 1..l1 /\ i + 1 \in 1..l1
    BY <1>1
  <2>2. \A i \in 1..l1 - 1 : Linked(s[i], s[i + 1], fr, acc) /\ s1[i] = s[i] /\ s1[i + 1] = s[i + 1]
    BY <1>1, <2>1 DEF StreamOK, ChainOK
  <2>3. \A i \in 1..l1 - 1 : Linked(s1[i], s1[i + 1], fr, acc)
    BY <2>2
  <2>4. QED
    BY <1>1, <2>3 DEF ChainOK
<1>6. OnlyAccepted(s, acc) => OnlyAccepted(s1, acc)
  BY <1>1, <1>2 DEF OnlyAccepted
<1>7. QED
  BY <1>3, <1>4, <1>5, <1>6 DEF StreamOK

\* The first message of the stream is whole as far as the stream goes.
LEMMA FirstUnits ==
  ASSUME NEW s \in Seq(Unit), NEW fr \in Seq(Nat), NEW acc, NEW k,
         s # <<>>, StartsOK(s, acc, k), ChainOK(s, fr, acc), fr[s[1][1]] \in Nat
  PROVE  \A i \in 1..Len(s) : i <= fr[s[1][1]] => s[i] = <<s[1][1], i>>
<1>1. PICK l \in Nat : l = Len(s) /\ l > 0
  OBVIOUS
<1>2. PICK x : x = s[1][1]
  OBVIOUS
<1>18. PICK q \in Nat : q = fr[x]
  BY <1>2
<1>3. \A i \in 1..l : s[i] \in Unit
  BY <1>1, ElementOfSeq
<1>4. s[1] = <<x, 1>>
  BY <1>1, <1>2, <1>3 DEF StartsOK, Unit
<1> DEFINE bad == {i \in Nat : i \in 1..l /\ i <= q /\ s[i] # <<x, i>>}
       R == {ss \in Nat \X Nat : ss[1] < ss[2]}
<1>5. SUFFICES ASSUME bad # {} PROVE FALSE
  <2>1. bad = {}
    BY <1>5
  <2>2. ASSUME NEW i \in 1..l, i <= q, s[i] # <<x, i>>
        PROVE  FALSE
    <3>1. i \in bad
      BY <2>2
    <3>2. QED
      BY <2>1, <3>1
  <2>3. QED
    BY <1>1, <1>2, <1>18, <2>2
<1>17. IsWellFoundedOn(R, Nat)
  BY NatLessThanWellFounded DEF OpToRel
<1>6. PICK m \in bad : \A i \in bad : ~(<<i, m>> \in R)
  BY <1>5, <1>17, WFMin
<1>7. m \in 1..l /\ m <= q /\ s[m] # <<x, m>> /\ m # 1
  BY <1>4, <1>6
<1>8. PICK j \in Nat : j = m - 1
  BY <1>7
<1>9. j \in 1..l - 1 /\ j + 1 = m /\ j < m
  BY <1>7, <1>8
<1>10. j \notin bad
  BY <1>6, <1>9
<1>11. s[j] = <<x, j>>
  <2>1. j <= q
    BY <1>7, <1>9
  <2>2. QED
    BY <1>9, <1>10, <2>1
<1>12. Linked(s[j], s[m], fr, acc)
  BY <1>1, <1>9 DEF ChainOK
<1>13. s[m] \in Unit
  BY <1>3, <1>7
<1>14. CASE s[m][1] = x /\ s[m][2] = j + 1
  <2>1. s[m] = <<s[m][1], s[m][2]>>
    <3>1. \A u \in Unit : u = <<u[1], u[2]>>
      BY DEF Unit
    <3>2. QED
      BY <1>13, <3>1, Zenon
  <2>2. s[m] = <<x, m>>
    BY <1>9, <1>14, <2>1, Zenon
  <2>3. QED
    BY <1>7, <2>2
<1>15. CASE j = q
  BY <1>7, <1>9, <1>15
<1>16. QED
  BY <1>11, <1>12, <1>14, <1>15, <1>18 DEF Linked

\* s1 is what comes behind the first n units of s; these are the message x of fr, which is
\* accepted after k others.
Behind(s, s1, n) == Len(s1) = Len(s) - n /\ \A i \in 1..Len(s1) : s1[i] = s[n + i]
Whole(s, fr, x, n) == n = fr[x] /\ \A i \in 1..n : s[i] = <<x, i>>
IsNext(x, acc, k) == k < Len(acc) /\ x = acc[k + 1]

\* The header's length is that of the first message, which is whole, and the next of those
\* accepted.
LEMMA FirstMessage ==
  ASSUME NEW s \in Seq(Unit), NEW fr \in Seq(Nat), NEW acc \in Seq(Nat), NEW con \in Seq(Nat),
         StreamOK(s, fr, acc, con), Sizes(fr), HeaderSize <= Len(s),
         NEW L, L = fr[s[HeaderSize][1]], L <= Len(s)
  PROVE  \E x \in Nat : Whole(s, fr, x, L) /\ IsNext(x, acc, Len(con))
<1>1. PICK h \in Nat : h = HeaderSize /\ h > 0 /\ h <= Len(s)
  BY FrameAssumption
<1>2. PICK l \in Nat : l = Len(s) /\ l > 0 /\ h <= l
  BY <1>1
<1>3. \A i \in 1..l : s[i] \in Unit
  BY <1>2, ElementOfSeq
<1>4. 1 \in 1..l /\ s # <<>>
  BY <1>2
<1>5. PICK x \in Nat : x = s[1][1]
  BY <1>3, <1>4 DEF Unit
<1>6. x \in 1..Len(fr)
  BY <1>2, <1>4, <1>5 DEF StreamOK, UnitsOK
<1>7. PICK q \in Nat : q = fr[x] /\ q > h
  BY <1>1, <1>6 DEF Sizes
<1>8. \A i \in 1..Len(s) : i <= fr[s[1][1]] => s[i] = <<s[1][1], i>>
  BY <1>4, <1>5, <1>7, FirstUnits DEF StreamOK
<1>9. \A i \in 1..l : i <= q => s[i] = <<x, i>>
  BY <1>2, <1>5, <1>7, <1>8
<1>10. s[h] = <<x, h>>
  BY <1>1, <1>2, <1>7, <1>9
<1>11. s[h][1] = x
  BY <1>10
<1>12. L = q
  BY <1>1, <1>7, <1>11
<1>13. q \in 1..l /\ s[q] = <<x, q>>
  <2>1. q \in 1..l /\ q <= q
    BY <1>2, <1>7, <1>12
  <2>2. QED
    BY <1>9, <2>1
<1>14. s[q][1] = x /\ s[q][2] = q
  BY <1>13
<1>15. ~\A j \in 1..Len(acc) : acc[j] # x
  <2>1. (\A j \in 1..Len(acc) : acc[j] # s[q][1]) => s[q][2] < fr[s[q][1]]
    BY <1>2, <1>13 DEF StreamOK, UnitsOK
  <2>2. ~(q < q)
    OBVIOUS
  <2>3. QED
    BY <1>7, <1>14, <2>1, <2>2
<1>16. Len(con) < Len(acc) /\ x = acc[Len(con) + 1]
  BY <1>4, <1>5, <1>15 DEF StreamOK, StartsOK
<1>17. \A i \in 1..q : s[i] = <<x, i>>
  BY <1>2, <1>9, <1>13
<1>18. QED
  BY <1>7, <1>12, <1>16, <1>17 DEF Whole, IsNext

\* The stream goes on behind a message that is handled.
LEMMA RestOK ==
  ASSUME NEW s \in Seq(Unit), NEW s1 \in Seq(Unit), NEW fr \in Seq(Nat), NEW acc \in Seq(Nat),
         NEW con \in Seq(Nat), NEW con1, NEW x \in Nat, NEW L \in Nat, L > 0, L <= Len(s),
         StreamOK(s, fr, acc, con), Whole(s, fr, x, L), IsNext(x, acc, Len(con)),
         con1 = Append(con, x), Behind(s, s1, L)
  PROVE  /\ StreamOK(s1, fr, acc, con1)
         /\ OnlyAccepted(s, acc) => OnlyAccepted(s1, acc)
         /\ EndsOK(s, fr, acc, Len(con)) => EndsOK(s1, fr, acc, Len(con1))
<1>1. PICK l \in Nat, l1 \in Nat, k \in Nat, a \in Nat :
        l = Len(s) /\ l1 = Len(s1) /\ k = Len(con) /\ a = Len(acc)
  OBVIOUS
<1>2. l1 = l - L /\ L <= l /\ k < a /\ x = acc[k + 1]
  BY <1>1 DEF Behind, IsNext
<1>13. L = fr[x] /\ \A i \in 1..L : s[i] = <<x, i>>
  BY DEF Whole
<1>14. \A i \in 1..l1 : s1[i] = s[L + i]
  BY <1>1 DEF Behind
<1>3. con1 \in Seq(Nat) /\ Len(con1) = k + 1 /\ con1[k + 1] = x /\ \A i \in 1..k : con1[i] = con[i]
  BY <1>1, AppendProperties
<1>4. HandledOK(fr, acc, con1)
  <2>1. \A i \in 1..k + 1 : i \in 1..k \/ i = k + 1
    OBVIOUS
  <2>2. \A i \in 1..k + 1 : con1[i] = acc[i]
    BY <1>1, <1>2, <1>3, <2>1 DEF StreamOK, HandledOK
  <2>3. k + 1 <= a
    BY <1>2
  <2>4. QED
    BY <1>1, <1>3, <2>2, <2>3 DEF StreamOK, HandledOK
<1>5. \A i \in 1..l1 : L + i \in 1..l /\ s1[i] = s[L + i]
  BY <1>2, <1>14
<1>6. UnitsOK(s1, fr, acc)
  <2>1. \A j \in 1..l : /\ s[j][1] \in 1..Len(fr) /\ s[j][2] \in 1..fr[s[j][1]]
                        /\ (\A i \in 1..Len(acc) : acc[i] # s[j][1]) => s[j][2] < fr[s[j][1]]
    BY <1>1 DEF StreamOK, UnitsOK
  <2>2. QED
    BY <1>1, <1>5, <2>1 DEF UnitsOK
<1>7. ChainOK(s1, fr, acc)
  <2>1. ASSUME NEW i \in 1..l1 - 1
        PROVE  Linked(s1[i], s1[i + 1], fr, acc)
    <3>1. i \in 1..l1 /\ i + 1 \in 1..l1 /\ L + i \in 1..l - 1 /\ L + (i + 1) = (L + i) + 1
      BY <1>2
    <3>2. s1[i] = s[L + i] /\ s1[i + 1] = s[(L + i) + 1]
      BY <1>5, <3>1
    <3>3. Linked(s[L + i], s[(L + i) + 1], fr, acc)
      BY <1>1, <3>1 DEF StreamOK, ChainOK
    <3>4. QED
      BY <3>2, <3>3
  <2>2. QED
    BY <1>1, <2>1 DEF ChainOK
<1>8. OnlyAccepted(s, acc) => OnlyAccepted(s1, acc)
  <2>1. (\A i \in 1..l : \E j \in 1..a : acc[j] = s[i][1])
          => \A i \in 1..l1 : \E j \in 1..a : acc[j] = s1[i][1]
    <3>1. SUFFICES ASSUME \A i \in 1..l : \E j \in 1..a : acc[j] = s[i][1], NEW i \in 1..l1
                   PROVE  \E j \in 1..a : acc[j] = s1[i][1]
      OBVIOUS
    <3>2. L + i \in 1..l /\ s1[i] = s[L + i]
      BY <1>5, Zenon
    <3>3. PICK h : h = L + i
      OBVIOUS
    <3>4. QED
      BY <3>1, <3>2, <3>3, Zenon
  <2>2. QED
    BY <1>1, <2>1, Zenon DEF OnlyAccepted
<1>9. \A j \in 1..a : acc[j] = x => j = k + 1
  <2>1. k + 1 \in 1..a /\ acc[k + 1] = x
    BY <1>1, <1>2
  <2>2. ASSUME NEW j \in 1..a, acc[j] = x, j # k + 1
        PROVE  FALSE
    <3>1. j < k + 1 \/ k + 1 < j
      BY <2>2
    <3>2. acc[j] < acc[k + 1] \/ acc[k + 1] < acc[j]
      BY <1>1, <2>1, <3>1 DEF StreamOK, HandledOK
    <3>3. x < x
      BY <2>1, <2>2, <3>2
    <3>4. QED
      BY <3>3
  <2>3. QED
    BY <2>2
<1>10. StartsOK(s1, acc, k + 1)
  <2>1. CASE s1 = <<>>
    BY <2>1 DEF StartsOK
  <2>2. CASE s1 # <<>>
    <3>1. l1 # 0
      BY <1>1, <2>2
    <3>2. 1 \in 1..l1 /\ L \in 1..l - 1 /\ L \in 1..L
      BY <1>2, <3>1
    <3>3. s1[1] = s[L + 1] /\ s[L] = <<x, L>>
      BY <1>5, <1>13, <3>2
    <3>4. Linked(s[L], s[L + 1], fr, acc)
      BY <1>1, <3>2 DEF StreamOK, ChainOK
    <3>5. PICK v : v = s1[1]
      OBVIOUS
    <3>6. s[L][1] = x /\ s[L][2] = L /\ ~(L < L)
      BY <3>3
    <3>7. v[2] = 1 /\ Follows(x, v[1], acc)
      BY <1>13, <3>3, <3>4, <3>5, <3>6 DEF Linked
    <3>8. PICK j \in 1..a : /\ acc[j] = x
                            /\ IF j < a THEN v[1] = acc[j + 1] ELSE \A i \in 1..a : v[1] # acc[i]
      BY <1>1, <3>7 DEF Follows
    <3>9. j = k + 1
      BY <1>9, <3>8
    <3>10. \/ k + 1 < a /\ v[1] = acc[(k + 1) + 1]
           \/ k + 1 = a /\ \A i \in 1..a : acc[i] # v[1]
      BY <1>2, <3>8, <3>9
    <3>11. QED
      BY <1>1, <3>5, <3>7, <3>10 DEF StartsOK
  <2>3. QED
    BY <2>1, <2>2
<1>11. EndsOK(s, fr, acc, k) => EndsOK(s1, fr, acc, k + 1)
  <2> SUFFICES ASSUME EndsOK(s, fr, acc, k) PROVE EndsOK(s1, fr, acc, k + 1)
    OBVIOUS
  <2>1. s # <<>> /\ l > 0
    BY <1>1, <1>2
  <2>2. a > 0 /\ s[l] = <<acc[a], fr[acc[a]]>>
    BY <1>1, <2>1 DEF EndsOK
  <2>3. CASE s1 = <<>>
    <3>0. l1 = 0
      BY <1>1, <2>3
    <3>1. l = L /\ L \in 1..L
      BY <1>2, <3>0
    <3>2. s[l] = <<x, L>>
      BY <1>13, <3>1
    <3>3. acc[a] = x /\ a \in 1..a
      BY <2>2, <3>2
    <3>4. a = k + 1
      BY <1>9, <3>3
    <3>5. QED
      BY <1>1, <2>3, <3>4 DEF EndsOK
  <2>4. CASE s1 # <<>>
    <3>0. l1 # 0
      BY <1>1, <2>4
    <3>1. l1 \in 1..l1 /\ L + l1 = l
      BY <1>2, <3>0
    <3>2. s1[l1] = s[l]
      BY <1>5, <3>1
    <3>3. QED
      BY <1>1, <2>2, <2>4, <3>2 DEF EndsOK
  <2>5. QED
    BY <2>3, <2>4
<1>12. QED
  BY <1>1, <1>3, <1>4, <1>6, <1>7, <1>8, <1>10, <1>11 DEF StreamOK

\* No message of acc is x.
NotIn(x, acc) == \A j \in 1..Len(acc) : acc[j] # x

\* s1 is s and the first m units of message x.
More(s, s1, x, m) ==
  /\ Len(s1) = Len(s) + m
  /\ \A i \in 1..Len(s) : s1[i] = s[i]
  /\ \A i \in 1..m : s1[Len(s) + i] = <<x, i>>

\* Message x may follow the stream s, before which k messages are handled.
Joins(s, x, fr, acc, k) ==
  /\ s = <<>> => IsNext(x, acc, k) \/ (k = Len(acc) /\ NotIn(x, acc))
  /\ s # <<>> => s[Len(s)][2] = fr[s[Len(s)][1]] /\ Follows(s[Len(s)][1], x, acc)

\* There are more messages.
LEMMA MoreFrames ==
  ASSUME NEW s \in Seq(Unit), NEW fr \in Seq(Nat), NEW acc \in Seq(Nat), NEW con \in Seq(Nat),
         NEW size \in Nat, NEW fr1, fr1 = Append(fr, size), StreamOK(s, fr, acc, con)
  PROVE  /\ StreamOK(s, fr1, acc, con) /\ NotIn(Len(fr) + 1, acc)
         /\ EndsOK(s, fr, acc, Len(con)) => EndsOK(s, fr1, acc, Len(con))
<1>1. PICK n \in Nat, a \in Nat : n = Len(fr) /\ a = Len(acc)
  OBVIOUS
<1>2. fr1 \in Seq(Nat) /\ Len(fr1) = n + 1 /\ \A i \in 1..n : fr1[i] = fr[i] /\ i \in 1..n + 1
  BY <1>1, AppendProperties
<1>3. HandledOK(fr, acc, con) /\ UnitsOK(s, fr, acc) /\ StartsOK(s, acc, Len(con)) /\ ChainOK(s, fr, acc)
  BY DEF StreamOK
<1>4. \A i \in 1..a : acc[i] \in 1..n
  BY <1>1, <1>3 DEF HandledOK
<1>5. HandledOK(fr1, acc, con)
  BY <1>1, <1>2, <1>3, <1>4 DEF HandledOK
<1>6. \A i \in 1..Len(s) : s[i][1] \in 1..n
  BY <1>1, <1>3 DEF UnitsOK
<1>7. \A i \in 1..Len(s) : fr1[s[i][1]] = fr[s[i][1]]
  BY <1>2, <1>6
<1>8. UnitsOK(s, fr1, acc)
  <2>1. \A i \in 1..Len(s) :
          /\ s[i][2] \in 1..fr[s[i][1]]
          /\ (\A j \in 1..Len(acc) : acc[j] # s[i][1]) => s[i][2] < fr[s[i][1]]
    BY <1>3 DEF UnitsOK
  <2>2. \A i \in 1..Len(s) : s[i][1] \in 1..Len(fr1)
    BY <1>2, <1>6
  <2>3. QED
    BY <1>7, <2>1, <2>2 DEF UnitsOK
<1>9. ChainOK(s, fr1, acc)
  <2>1. ASSUME NEW i \in 1..Len(s) - 1
        PROVE  Linked(s[i], s[i + 1], fr1, acc)
    <3>1. Linked(s[i], s[i + 1], fr, acc)
      BY <1>3 DEF ChainOK
    <3>2. i \in 1..Len(s)
      OBVIOUS
    <3>4. fr1[s[i][1]] = fr[s[i][1]]
      BY <1>7, <3>2, Zenon
    <3>3. QED
      BY <3>1, <3>4 DEF Linked
  <2>2. QED
    BY <2>1 DEF ChainOK
<1>10. NotIn(n + 1, acc)
  <2>1. \A i \in 1..n : i # n + 1
    OBVIOUS
  <2>2. QED
    BY <1>1, <1>4, <2>1 DEF NotIn
<1>11. EndsOK(s, fr, acc, Len(con)) => EndsOK(s, fr1, acc, Len(con))
  <2>1. a > 0 => acc[a] \in 1..n /\ fr1[acc[a]] = fr[acc[a]]
    <3>1. a > 0 => a \in 1..a
      OBVIOUS
    <3>2. QED
      BY <1>2, <1>4, <3>1
  <2>2. QED
    BY <1>1, <2>1 DEF EndsOK
<1>12. QED
  BY <1>1, <1>3, <1>5, <1>8, <1>9, <1>10, <1>11 DEF StreamOK

\* One more message is accepted.
LEMMA MoreAccepted ==
  ASSUME NEW s \in Seq(Unit), NEW fr \in Seq(Nat), NEW acc \in Seq(Nat), NEW con \in Seq(Nat),
         NEW x \in Nat, NEW acc1, acc1 = Append(acc, x), StreamOK(s, fr, acc, con),
         x \in 1..Len(fr), \A i \in 1..Len(acc) : acc[i] < x, OnlyAccepted(s, acc)
  PROVE  StreamOK(s, fr, acc1, con) /\ OnlyAccepted(s, acc1)
<1>1. PICK a \in Nat, k \in Nat : a = Len(acc) /\ k = Len(con)
  OBVIOUS
<1>2. /\ acc1 \in Seq(Nat) /\ Len(acc1) = a + 1 /\ acc1[a + 1] = x
      /\ \A i \in 1..a : acc1[i] = acc[i] /\ i \in 1..a + 1
  BY <1>1, AppendProperties
<1>3. HandledOK(fr, acc, con) /\ UnitsOK(s, fr, acc) /\ StartsOK(s, acc, Len(con)) /\ ChainOK(s, fr, acc)
  BY DEF StreamOK
<1>4. \A i \in 1..a + 1 : i \in 1..a \/ i = a + 1
  OBVIOUS
<1>5. /\ \A i \in 1..a : acc[i] \in 1..Len(fr)
      /\ \A i, j \in 1..a : i < j => acc[i] < acc[j]
      /\ k <= a /\ \A i \in 1..k : con[i] = acc[i]
  BY <1>1, <1>3 DEF HandledOK
<1>6. HandledOK(fr, acc1, con)
  <2>1. a + 1 \in 1..a + 1
    OBVIOUS
  <2>2. \A i \in 1..a + 1 : acc1[i] \in 1..Len(fr)
    BY <1>2, <1>4, <1>5
  <2>3. \A i, j \in 1..a + 1 : i < j => acc1[i] < acc1[j]
    <3>1. \A i, j \in 1..a + 1 : i < j => i \in 1..a
      OBVIOUS
    <3>2. QED
      BY <1>1, <1>2, <1>4, <1>5, <3>1
  <2>4. \A i \in 1..k : con[i] = acc1[i]
    BY <1>2, <1>5
  <2>5. k <= a + 1
    BY <1>5
  <2>6. QED
    BY <1>1, <1>2, <2>2, <2>3, <2>4, <2>5 DEF HandledOK
<1>7. OnlyAccepted(s, acc1)
  BY <1>1, <1>2 DEF OnlyAccepted
<1>8. UnitsOK(s, fr, acc1)
  BY <1>1, <1>2, <1>3 DEF UnitsOK
<1>9. \A i \in 1..Len(s) : \E j \in 1..a : acc[j] = s[i][1]
  BY <1>1 DEF OnlyAccepted
<1>10. StartsOK(s, acc1, k)
  <2>1. CASE s = <<>>
    BY <2>1 DEF StartsOK
  <2>2. CASE s # <<>>
    <3>1. 1 \in 1..Len(s)
      BY <2>2
    <3>2. ~\A j \in 1..a : acc[j] # s[1][1]
      BY <1>9, <3>1, Zenon
    <3>3. s[1][2] = 1 /\ k < a /\ s[1][1] = acc[k + 1]
      BY <1>1, <1>3, <2>2, <3>2 DEF StartsOK
    <3>4. k + 1 \in 1..a /\ k < a + 1
      BY <3>3
    <3>5. s[1][1] = acc1[k + 1]
      BY <1>2, <3>3, <3>4
    <3>6. QED
      BY <1>2, <3>3, <3>4, <3>5 DEF StartsOK
  <2>3. QED
    BY <2>1, <2>2
<1>11. ChainOK(s, fr, acc1)
  <2>1. ASSUME NEW i \in 1..Len(s) - 1
        PROVE  Linked(s[i], s[i + 1], fr, acc1)
    <3>1. Linked(s[i], s[i + 1], fr, acc)
      BY <1>3 DEF ChainOK
    <3>2. PICK u, v : u = s[i] /\ v = s[i + 1]
      OBVIOUS
    <3>3. i + 1 \in 1..Len(s)
      OBVIOUS
    <3>4. \E j \in 1..a : acc[j] = v[1]
      BY <1>9, <3>2, <3>3, Zenon
    <3>5. Follows(u[1], v[1], acc) => Follows(u[1], v[1], acc1)
      <4>1. SUFFICES ASSUME NEW j \in 1..a, acc[j] = u[1],
                            IF j < a THEN v[1] = acc[j + 1] ELSE \A h \in 1..a : v[1] # acc[h]
                     PROVE  Follows(u[1], v[1], acc1)
        BY <1>1 DEF Follows
      <4>2. j < a /\ v[1] = acc[j + 1]
        BY <3>4, <4>1
      <4>3. j + 1 \in 1..a /\ j \in 1..a + 1 /\ j < a + 1
        BY <4>2
      <4>4. acc1[j] = u[1] /\ acc1[j + 1] = v[1]
        BY <1>2, <4>1, <4>2, <4>3
      <4>5. QED
        BY <1>2, <4>3, <4>4 DEF Follows
    <3>6. QED
      BY <3>1, <3>2, <3>5 DEF Linked
  <2>2. QED
    BY <2>1 DEF ChainOK
<1>12. QED
  BY <1>1, <1>6, <1>7, <1>8, <1>10, <1>11 DEF StreamOK

\* Units of a message come behind the others.
LEMMA MoreUnits ==
  ASSUME NEW s \in Seq(Unit), NEW s1 \in Seq(Unit), NEW fr \in Seq(Nat), NEW acc \in Seq(Nat),
         NEW con \in Seq(Nat), NEW x \in 1..Len(fr), NEW m \in 0..fr[x], NotIn(x, acc) => m < fr[x],
         StreamOK(s, fr, acc, con), Joins(s, x, fr, acc, Len(con)), More(s, s1, x, m)
  PROVE  StreamOK(s1, fr, acc, con)
<1>1. PICK l \in Nat, q \in Nat : l = Len(s) /\ q = fr[x]
  OBVIOUS
<1>2. HandledOK(fr, acc, con) /\ UnitsOK(s, fr, acc) /\ StartsOK(s, acc, Len(con)) /\ ChainOK(s, fr, acc)
  BY DEF StreamOK
<1>3. /\ Len(s1) = l + m /\ \A i \in 1..l : s1[i] = s[i]
      /\ \A i \in 1..m : s1[l + i] = <<x, i>>
  BY <1>1 DEF More
<1>4. ASSUME NEW i \in 1..l + m
      PROVE  \/ i \in 1..l /\ s1[i] = s[i]
             \/ \E j \in 1..m : i = l + j /\ s1[i] = <<x, j>>
  <2>1. CASE i \in 1..l
    BY <1>3, <2>1
  <2>2. CASE i \notin 1..l
    <3>4. i \in Int /\ i > l
      BY <2>2
    <3>1. PICK j \in Nat : j = i - l
      BY <3>4
    <3>2. j \in 1..m /\ i = l + j
      BY <1>1, <2>2, <3>1
    <3>3. QED
      BY <1>3, <3>2
  <2>3. QED
    BY <2>1, <2>2
<1>5. UnitsOK(s1, fr, acc)
  <2>1. ASSUME NEW i \in 1..l + m
        PROVE  /\ s1[i][1] \in 1..Len(fr) /\ s1[i][2] \in 1..fr[s1[i][1]]
               /\ (\A j \in 1..Len(acc) : acc[j] # s1[i][1]) => s1[i][2] < fr[s1[i][1]]
    <3>1. CASE i \in 1..l /\ s1[i] = s[i]
      BY <1>1, <1>2, <3>1 DEF UnitsOK
    <3>2. CASE \E j \in 1..m : i = l + j /\ s1[i] = <<x, j>>
      <4>1. PICK j \in 1..m : s1[i] = <<x, j>>
        BY <3>2
      <4>2. s1[i][1] = x /\ s1[i][2] = j
        BY <4>1
      <4>3. j \in 1..q /\ (m < q => j < q)
        BY <1>1
      <4>4. QED
        BY <1>1, <4>2, <4>3 DEF NotIn
    <3>3. QED
      BY <1>4, <3>1, <3>2
  <2>2. QED
    BY <1>3, <2>1 DEF UnitsOK
<1>6. StartsOK(s1, acc, Len(con))
  <2>1. CASE s # <<>>
    <3>1. 1 \in 1..l
      BY <1>1, <2>1
    <3>2. s1[1] = s[1]
      BY <1>3, <3>1
    <3>3. QED
      BY <1>2, <2>1, <3>2 DEF StartsOK
  <2>2. CASE s = <<>> /\ m > 0
    <3>1. l = 0 /\ 1 \in 1..m
      BY <1>1, <2>2
    <3>2. l + 1 = 1
      BY <3>1
    <3>3. s1[1] = <<x, 1>>
      BY <1>3, <3>1, <3>2
    <3>4. s1[1][1] = x /\ s1[1][2] = 1
      BY <3>3
    <3>5. IsNext(x, acc, Len(con)) \/ (Len(con) = Len(acc) /\ NotIn(x, acc))
      BY <2>2 DEF Joins
    <3>6. QED
      BY <3>4, <3>5 DEF StartsOK, IsNext, NotIn
  <2>3. CASE s = <<>> /\ m = 0
    <3>1. s1 = <<>>
      BY <1>1, <1>3, <2>3
    <3>2. QED
      BY <3>1 DEF StartsOK
  <2>4. QED
    BY <1>1, <2>1, <2>2, <2>3
<1>7. ChainOK(s1, fr, acc)
  <2>1. ASSUME NEW i \in 1..l + m - 1
        PROVE  Linked(s1[i], s1[i + 1], fr, acc)
    <3>1. CASE i \in 1..l - 1
      <4>1. i \in 1..l /\ i + 1 \in 1..l
        BY <3>1
      <4>2. s1[i] = s[i] /\ s1[i + 1] = s[i + 1]
        BY <1>3, <4>1
      <4>3. Linked(s[i], s[i + 1], fr, acc)
        BY <1>1, <1>2, <3>1 DEF ChainOK
      <4>4. QED
        BY <4>2, <4>3
    <3>2. CASE i = l
      <4>1. l \in 1..l /\ 1 \in 1..m
        BY <3>2
      <4>2. s1[i] = s[l] /\ s1[i + 1] = <<x, 1>>
        BY <1>3, <3>2, <4>1
      <4>3. s # <<>>
        BY <1>1, <4>1
      <4>4. s[l][2] = fr[s[l][1]] /\ Follows(s[l][1], x, acc)
        BY <1>1, <4>3 DEF Joins
      <4>5. QED
        BY <4>2, <4>4 DEF Linked
    <3>3. CASE i > l
      <4>1. PICK j \in Nat : j = i - l
        <5>1. i \in Int /\ l \in Nat
          BY <1>1
        <5>2. QED
          BY <3>3, <5>1
      <4>2. j \in 1..m /\ j + 1 \in 1..m /\ i = l + j /\ i + 1 = l + (j + 1) /\ j < q
        <5>1. m \in Nat /\ q \in Nat /\ m <= q /\ l \in Nat
          BY <1>1
        <5>2. i \in Int /\ i > l /\ i <= l + m - 1
          BY <3>3, <5>1
        <5>3. QED
          BY <4>1, <5>1, <5>2
      <4>3. s1[i] = <<x, j>> /\ s1[i + 1] = <<x, j + 1>>
        BY <1>3, <4>2
      <4>4. QED
        BY <1>1, <4>2, <4>3 DEF Linked
    <3>4. QED
      BY <3>1, <3>2, <3>3
  <2>2. QED
    BY <1>3, <2>1 DEF ChainOK
<1>8. QED
  BY <1>2, <1>5, <1>6, <1>7 DEF StreamOK

\* s1 is s, or what is left of it when its end is lost.
Shorter(s1, s) == s1 \in Seq(Unit) /\ Len(s1) <= Len(s) /\ \A i \in 1..Len(s1) : s1[i] = s[i]

\* Steps that send and handle nothing, and may lose the end of the stream.
LEMMA KeepStream ==
  ASSUME Base, StreamInv, UNCHANGED <<frames, accepted, consumed, torn>>, Shorter(Stream', Stream),
         Sends' => Sends, Sends' /\ up' => up /\ Stream' = Stream
  PROVE  StreamInv'
<1>1. PICK s \in Seq(Unit), fr \in Seq(Nat), acc \in Seq(Nat), con \in Seq(Nat) :
        s = Stream /\ fr = frames /\ acc = accepted /\ con = consumed
  BY StreamIs DEF Base, Types, Data
<1>2. PICK s1 \in Seq(Unit) : s1 = Stream' /\ Len(s1) <= Len(s) /\ \A i \in 1..Len(s1) : s1[i] = s[i]
  BY <1>1 DEF Shorter
<1>3. frames' = fr /\ accepted' = acc /\ consumed' = con /\ torn' = torn
  BY <1>1
<1>4. CASE torn
  BY <1>3, <1>4 DEF StreamInv
<1>5. CASE ~torn
  <2>1. /\ StreamOK(s, fr, acc, con)
        /\ Sends => OnlyAccepted(s, acc)
        /\ Sends /\ up => EndsOK(s, fr, acc, Len(con))
    BY <1>1, <1>5 DEF StreamInv
  <2>2. StreamOK(s1, fr, acc, con) /\ (OnlyAccepted(s, acc) => OnlyAccepted(s1, acc))
    BY <1>2, <2>1, PrefixOK
  <2>3. Sends' /\ up' => s1 = s /\ Sends /\ up
    BY <1>1, <1>2
  <2>4. QED
    BY <1>2, <1>3, <2>1, <2>2, <2>3 DEF StreamInv
<1>6. QED
  BY <1>4, <1>5

\* A stream that has not changed.
LEMMA SameShorter ==
  ASSUME Base, Stream' = Stream
  PROVE  Shorter(Stream', Stream)
<1>1. PICK s \in Seq(Unit) : s = Stream
  BY StreamIs
<1>2. Shorter(s, s)
  BY DEF Shorter
<1>3. QED
  BY <1>1, <1>2

\* What is sent, or also what is on its way, is lost.
LEMMA LostShorter ==
  ASSUME Base, UNCHANGED <<input, pos>>,
         \/ wire' = wire /\ Coming' \in {Coming, <<>>}
         \/ wire' = <<>> /\ Coming' = <<>>
  PROVE  Shorter(Stream', Stream)
<1>1. PICK d \in Seq(Unit), p \in Nat, w \in Seq(Unit), c \in Seq(Unit) :
        d = input.data /\ p = pos /\ w = wire /\ c = Coming
  BY ComingIs DEF Base, Types, Data, Buffers
<1>2. p \in 0..Len(d)
  BY <1>1 DEF Base, BoundsOK
<1>3. PICK e : e = SubSeq(d, p + 1, Len(d))
  OBVIOUS
<1>4. e \in Seq(Unit)
  BY <1>2, <1>3, SplitSeq
<1>5. PICK y, s : y = w \o c /\ s = e \o y
  OBVIOUS
<1>6. /\ y \in Seq(Unit) /\ Len(y) = Len(w) + Len(c)
      /\ \A i \in 1..Len(w) + Len(c) : y[i] = IF i <= Len(w) THEN w[i] ELSE c[i - Len(w)]
  BY <1>5, ConcatProperties
<1>7. /\ s \in Seq(Unit) /\ Len(s) = Len(e) + Len(y)
      /\ \A i \in 1..Len(e) + Len(y) : s[i] = IF i <= Len(e) THEN e[i] ELSE y[i - Len(e)]
  BY <1>4, <1>5, <1>6, ConcatProperties
<1>8. Stream = s
  BY <1>1, <1>3, <1>5, Zenon DEF Stream
<1>9. Stream' = e \o (wire' \o Coming')
  BY <1>1, <1>3, Zenon DEF Stream
<1>10. PICK k \in Nat, n \in Nat, j \in Nat : k = Len(e) /\ n = Len(w) /\ j = Len(c)
  BY <1>4
<1>11. CASE wire' = wire /\ Coming' = Coming
  <2>1. Stream' = s
    BY <1>1, <1>5, <1>9, <1>11, Zenon
  <2>2. QED
    BY <1>7, <1>8, <2>1 DEF Shorter
<1>12. CASE wire' = wire /\ Coming' = <<>>
  <2>1. w \o <<>> = w
    BY ConcatEmptySeq
  <2>2. PICK s1 : s1 = e \o w
    OBVIOUS
  <2>3. Stream' = s1
    BY <1>1, <1>9, <1>12, <2>1, <2>2, Zenon
  <2>4. /\ s1 \in Seq(Unit) /\ Len(s1) = Len(e) + Len(w)
        /\ \A i \in 1..Len(e) + Len(w) : s1[i] = IF i <= Len(e) THEN e[i] ELSE w[i - Len(e)]
    BY <1>4, <2>2, ConcatProperties
  <2>5. Len(s1) = k + n /\ Len(s) = k + (n + j) /\ Len(s1) <= Len(s)
    BY <1>6, <1>7, <1>10, <2>4
  <2>6. ASSUME NEW i \in 1..k + n
        PROVE  s1[i] = s[i]
    <3>1. i \in 1..k + (n + j)
      OBVIOUS
    <3>2. CASE i <= k
      BY <1>6, <1>7, <1>10, <2>4, <3>1, <3>2
    <3>3. CASE ~(i <= k)
      <4>1. i - k \in 1..n + j /\ i - k <= n
        BY <3>3
      <4>2. s1[i] = w[i - k]
        BY <1>10, <2>4, <3>3
      <4>3. s[i] = y[i - k]
        BY <1>6, <1>7, <1>10, <3>1, <3>3
      <4>4. y[i - k] = w[i - k]
        BY <1>6, <1>10, <4>1
      <4>5. QED
        BY <4>2, <4>3, <4>4
    <3>4. QED
      BY <3>2, <3>3
  <2>7. Shorter(s1, s)
    BY <2>4, <2>5, <2>6 DEF Shorter
  <2>8. QED
    BY <1>8, <2>3, <2>7
<1>13. CASE wire' = <<>> /\ Coming' = <<>>
  <2>1. <<>> \o <<>> = <<>> /\ e \o <<>> = e
    BY <1>4, ConcatEmptySeq
  <2>2. Stream' = e
    BY <1>9, <1>13, <2>1, Zenon
  <2>3. Len(e) <= Len(s) /\ \A i \in 1..Len(e) : s[i] = e[i]
    BY <1>4, <1>6, <1>7, <1>10
  <2>4. Shorter(e, s)
    BY <1>4, <2>3 DEF Shorter
  <2>5. QED
    BY <1>8, <2>2, <2>4
<1>14. QED
  BY <1>11, <1>12, <1>13

\* createConnection; onWrite and onConnected; pump, and onData that needs more: the units
\* stay in the stream.
LEMMA QuietStream ==
  ASSUME Base, StreamInv,
         \/ \E now \in BOOLEAN : Connect(now)
         \/ Accept \/ OnDataReturns
         \/ \E n \in 0..WireSize : OnConnected(n) \/ OnWrite(n)
         \/ \E n \in 1..WireSize, mem \in BOOLEAN : Pump(n, mem)
  PROVE  StreamInv'
<1>1. /\ UNCHANGED <<frames, accepted, consumed, torn, bEnable>>
      /\ state' = state \/ state \in {"new", "connecting", "connected"}
  <2>1. CASE \E now \in BOOLEAN : Connect(now)
    BY <2>1 DEF Connect, history
  <2>2. CASE Accept
    BY <2>2 DEF Accept, history
  <2>3. CASE OnDataReturns
    BY <2>3 DEF OnDataReturns, history, conn
  <2>4. CASE \E n \in 0..WireSize : OnConnected(n) \/ OnWrite(n)
    BY <2>4 DEF OnConnected, OnWrite, history, conn
  <2>5. CASE \E n \in 1..WireSize, mem \in BOOLEAN : Pump(n, mem)
    BY <2>5 DEF Pump, history, conn
  <2>6. QED
    BY <2>1, <2>2, <2>3, <2>4, <2>5
<1>2. Stream' = Stream /\ up' = up
  <2>1. CASE Accept \/ \E now \in BOOLEAN : Connect(now)
    <3>1. UNCHANGED <<output, up, wire, input, pos>>
      BY <2>1 DEF Accept, Connect, net, recving
    <3>2. QED
      BY <3>1 DEF Stream, Coming
  <2>2. CASE OnDataReturns
    BY <2>2, OnDataReturnsBase
  <2>3. CASE \E n \in 0..WireSize : OnConnected(n) \/ OnWrite(n)
    BY <2>3, OnWriteBase
  <2>4. CASE \E n \in 1..WireSize, mem \in BOOLEAN : Pump(n, mem)
    BY <2>4, PumpBase
  <2>5. QED
    BY <2>1, <2>2, <2>3, <2>4
<1>3. Sends' => Sends
  BY <1>1 DEF Sends
<1>4. Shorter(Stream', Stream)
  BY <1>2, SameShorter
<1>5. QED
  BY <1>1, <1>2, <1>3, <1>4, KeepStream

\* The sender's connection ends: what it has buffered is lost, and after a reset what is on
\* its way.
LEMMA EndsStream ==
  ASSUME Base, StreamInv,
         \/ OnConnectedThrows \/ ConnectRefused \/ ConnectTimeout \/ Reset \/ LazyDelete
         \/ \E writable \in BOOLEAN : OnReadClosed(writable)
  PROVE  StreamInv'
<1>1. UNCHANGED <<frames, accepted, consumed, torn, bEnable, input, pos>>
  BY Zenon DEF OnConnectedThrows, ConnectRefused, ConnectTimeout, Reset, LazyDelete, OnReadClosed,
     Erase, history, recving, conn
<1>2. CASE Erase /\ wire' = wire
  <2>1. state' = "erased" /\ output'.data = <<>>
    BY <1>2, EmptyIs DEF Erase
  <2>2. Coming' = <<>> /\ ~Sends'
    BY <2>1 DEF Coming, Sends
  <2>3. Shorter(Stream', Stream)
    BY <1>1, <1>2, <2>2, LostShorter
  <2>4. QED
    BY <1>1, <2>2, <2>3, KeepStream
<1>3. CASE OnConnectedThrows \/ Reset
  <2>1. /\ up' = FALSE /\ wire' = <<>>
        /\ state' = state \/ (state = "connecting" /\ state' = "connected")
    BY <1>3 DEF OnConnectedThrows, Reset, conn
  <2>2. Coming' = <<>> /\ ~up'
    BY <2>1 DEF Coming
  <2>3. Sends' => Sends
    BY <1>1, <2>1 DEF Sends
  <2>4. Shorter(Stream', Stream)
    BY <1>1, <2>1, <2>2, LostShorter
  <2>5. QED
    BY <1>1, <2>2, <2>3, <2>4, KeepStream
<1>4. CASE LazyDelete /\ bEnable
  <2>1. UNCHANGED <<state, output, up, wire>>
    BY <1>4 DEF LazyDelete, net
  <2>2. Stream' = Stream /\ Sends' = Sends /\ up' = up
    BY <1>1, <2>1 DEF Stream, Coming, Sends
  <2>3. Shorter(Stream', Stream)
    BY <2>2, SameShorter
  <2>4. QED
    BY <1>1, <2>2, <2>3, KeepStream
<1>5. QED
  <2>1. ConnectRefused \/ ConnectTimeout \/ (\E writable \in BOOLEAN : OnReadClosed(writable))
          => Erase /\ wire' = wire
    BY DEF ConnectRefused, ConnectTimeout, OnReadClosed, net
  <2>2. LazyDelete /\ ~bEnable => Erase /\ wire' = wire
    BY DEF LazyDelete, net
  <2>3. QED
    BY <1>2, <1>3, <1>4, <2>1, <2>2

\* The receiver's connection ends: nothing is on its way any more.
LEMMA ReaderEndsStream ==
  ASSUME Base, StreamInv, OnDataThrows \/ \E mem \in BOOLEAN : PumpEnds(mem)
  PROVE  StreamInv'
<1>1. ReaderErase /\ UNCHANGED <<state, bEnable, frames, accepted, consumed, torn>>
  BY DEF OnDataThrows, PumpEnds, conn, history
<1>2. input'.data = <<>> /\ pos' = 0 /\ up' = FALSE /\ wire' = <<>>
  BY <1>1, EmptyIs DEF ReaderErase
<1>3. Coming' = <<>> /\ Sends' = Sends /\ ~up'
  BY <1>1, <1>2 DEF Coming, Sends
<1>4. Stream' = <<>>
  <2>1. SubSeq(<<>>, pos' + 1, Len(<<>>)) = <<>>
    <3>1. pos' + 1 = 1 /\ Len(<<>>) = 0
      BY <1>2
    <3>2. \A z \in Seq(Unit) : SubSeq(z, 1, 0) = <<>>
      BY SubSeqEmpty
    <3>3. <<>> \in Seq(Unit)
      OBVIOUS
    <3>4. QED
      BY <3>1, <3>2, <3>3, Zenon
  <2>2. <<>> \o (<<>> \o <<>>) = <<>>
    OBVIOUS
  <2>3. QED
    BY <1>2, <1>3, <2>1, <2>2, Zenon DEF Stream
<1>5. Shorter(Stream', Stream)
  <2>1. PICK s \in Seq(Unit) : s = Stream
    BY StreamIs
  <2>2. Shorter(<<>>, s)
    BY DEF Shorter
  <2>3. QED
    BY <1>4, <2>1, <2>2
<1>6. QED
  BY <1>1, <1>3, <1>5, KeepStream

\* onData: what it handles is the next message, whole.
LEMMA OnDataStream ==
  ASSUME Base, StreamInv, OnData
  PROVE  /\ StreamInv'
         /\ ~torn => /\ Len(consumed) < Len(accepted)
                     /\ consumed' = Append(consumed, accepted[Len(consumed) + 1])
<1>1. PICK s \in Seq(Unit), fr \in Seq(Nat), acc \in Seq(Nat), con \in Seq(Nat), p \in Nat, d \in Seq(Unit) :
        /\ s = Stream /\ fr = frames /\ acc = accepted /\ con = consumed /\ p = pos /\ d = input.data
        /\ p \in 0..Len(d)
  BY StreamIs DEF Base, Types, Data, Buffers, BoundsOK
<1>2. /\ UNCHANGED <<state, bEnable, frames, accepted, torn, up>>
      /\ consumed' = Append(con, Content(SubSeq(d, p + 1, p + RealLen)))
  BY <1>1 DEF OnData, conn, net
<1>3. CASE torn
  BY <1>2, <1>3 DEF StreamInv
<1>4. CASE ~torn
  <2>1. /\ StreamOK(s, fr, acc, con)
        /\ Sends => OnlyAccepted(s, acc)
        /\ Sends /\ up => EndsOK(s, fr, acc, Len(con))
    BY <1>1, <1>4 DEF StreamInv
  <2>2. /\ RealLen \in Nat /\ RealLen > HeaderSize /\ RealLen <= Left /\ HeaderSize <= Left
        /\ Stream' \in Seq(Unit) /\ Len(Stream') = Len(Stream) - RealLen
        /\ \A i \in 1..Len(Stream') : Stream'[i] = Stream[RealLen + i]
    BY OnDataBase
  <2>3. PICK L \in Nat, s1 \in Seq(Unit), f \in Nat : L = RealLen /\ s1 = Stream' /\ f = Left
    <3>1. Left \in Nat
      BY StreamIs
    <3>2. QED
      BY <2>2, <3>1
  <2>4. f \in 0..Len(s) /\ \A i \in 1..f : s[i] = d[p + i]
    BY <1>1, <2>3, StreamIs
  <2>5. PICK h \in Nat : h = HeaderSize /\ h > 0 /\ L > h /\ L <= f /\ h <= f
    BY <2>2, <2>3, FrameAssumption
  <2>6. Behind(s, s1, L)
    BY <1>1, <2>2, <2>3 DEF Behind
  <2>7. L = fr[s[HeaderSize][1]]
    <3>1. s[h] = d[p + h]
      BY <2>4, <2>5
    <3>2. RealLen = fr[d[p + HeaderSize][1]]
      BY <1>1 DEF RealLen
    <3>3. QED
      BY <2>3, <2>5, <3>1, <3>2
  <2>8. L <= Len(s) /\ HeaderSize <= Len(s) /\ L > 0
    BY <2>4, <2>5
  <2>9. Sizes(fr)
    BY <1>1 DEF Base, Known
  <2>15. PICK x \in Nat : Whole(s, fr, x, L) /\ IsNext(x, acc, Len(con))
    BY <2>1, <2>7, <2>8, <2>9, FirstMessage
  <2>10. /\ L = fr[x] /\ \A i \in 1..L : s[i] = <<x, i>>
         /\ Len(con) < Len(acc) /\ x = acc[Len(con) + 1]
    BY <2>15 DEF Whole, IsNext
  <2>11. PICK g : g = SubSeq(d, p + 1, p + L)
    OBVIOUS
  <2>12. Content(g) = x
    <3>1. f = Len(d) - p
      BY <1>1, <2>3 DEF Left
    <3>2. \A i \in p + 1..p + L : d[i] \in Unit
      BY <1>1, <2>5, <3>1, ElementOfSeq
    <3>3. p + 1 \in Int /\ p + L \in Int /\ p + 1 <= p + L /\ p + L - (p + 1) + 1 = L
      BY <2>8
    <3>4. /\ g \in Seq(Unit) /\ Len(g) = p + L - (p + 1) + 1
          /\ \A i \in 1..p + L - (p + 1) + 1 : g[i] = d[p + 1 + i - 1]
      BY <2>11, <3>2, <3>3, SubSeqProperties
    <3>5. ASSUME NEW i \in 1..L PROVE g[i] = <<x, i>>
      <4>1. p + 1 + i - 1 = p + i /\ i \in 1..f
        BY <2>5
      <4>2. g[i] = d[p + i]
        BY <3>3, <3>4, <4>1
      <4>3. s[i] = d[p + i] /\ s[i] = <<x, i>>
        BY <2>4, <2>10, <4>1
      <4>4. QED
        BY <4>2, <4>3
    <3>6. g[1] = <<x, 1>>
      BY <2>8, <3>5
    <3>7. g[1][1] = x
      BY <3>6
    <3>8. g = [i \in 1..L |-> <<x, i>>]
      <4>1. g = [i \in 1..L |-> g[i]]
        BY <3>3, <3>4
      <4>2. QED
        BY <3>5, <4>1
    <3>9. Frame(x) = [i \in 1..L |-> <<x, i>>]
      BY <1>1, <2>10 DEF Frame
    <3>10. QED
      BY <3>7, <3>8, <3>9 DEF Content
  <2>13. PICK con1 : con1 = Append(con, x)
    OBVIOUS
  <2>14. consumed' = con1
    BY <1>2, <2>3, <2>11, <2>12, <2>13
  <2>16. /\ StreamOK(s1, fr, acc, con1)
         /\ OnlyAccepted(s, acc) => OnlyAccepted(s1, acc)
         /\ EndsOK(s, fr, acc, Len(con)) => EndsOK(s1, fr, acc, Len(con1))
    BY <2>1, <2>6, <2>8, <2>13, <2>15, RestOK
  <2>17. StreamInv'
    <3>1. frames' = fr /\ accepted' = acc /\ Sends' = Sends /\ up' = up
      BY <1>1, <1>2 DEF Sends
    <3>2. QED
      BY <2>1, <2>3, <2>14, <2>16, <3>1 DEF StreamInv
  <2>18. QED
    BY <1>1, <2>10, <2>13, <2>14, <2>17
<1>5. QED
  BY <1>3, <1>4

\* What follows a stream that ends with the last message accepted.
LEMMA EndJoins ==
  ASSUME NEW s \in Seq(Unit), NEW fr, NEW acc \in Seq(Nat), NEW acc1 \in Seq(Nat), NEW x \in Nat,
         NEW k \in Nat, EndsOK(s, fr, acc, k), NotIn(x, acc),
         acc1 = acc \/ acc1 = Append(acc, x)
  PROVE  Joins(s, x, fr, acc1, k)
<1>1. PICK a \in Nat : a = Len(acc)
  OBVIOUS
<1>2. CASE acc1 = acc
  <2>1. s = <<>> => k = Len(acc1) /\ NotIn(x, acc1)
    BY <1>2 DEF EndsOK
  <2>2. s # <<>> => s[Len(s)][2] = fr[s[Len(s)][1]] /\ Follows(s[Len(s)][1], x, acc)
    <3> SUFFICES ASSUME s # <<>>
                 PROVE  s[Len(s)][2] = fr[s[Len(s)][1]] /\ Follows(s[Len(s)][1], x, acc)
      OBVIOUS
    <3>1. a > 0 /\ s[Len(s)] = <<acc[a], fr[acc[a]]>>
      BY <1>1 DEF EndsOK
    <3>2. s[Len(s)][1] = acc[a] /\ s[Len(s)][2] = fr[acc[a]]
      BY <3>1
    <3>3. a \in 1..a /\ ~(a < a)
      BY <3>1
    <3>4. Follows(acc[a], x, acc)
      BY <1>1, <3>3 DEF Follows, NotIn
    <3>5. QED
      BY <3>2, <3>4
  <2>3. QED
    BY <1>2, <2>1, <2>2 DEF Joins
<1>3. CASE acc1 = Append(acc, x)
  <2>1. Len(acc1) = a + 1 /\ acc1[a + 1] = x /\ \A i \in 1..a : acc1[i] = acc[i]
    BY <1>1, <1>3, AppendProperties
  <2>2. s = <<>> => IsNext(x, acc1, k)
    <3>1. s = <<>> => k = a
      BY <1>1 DEF EndsOK
    <3>2. QED
      BY <2>1, <3>1 DEF IsNext
  <2>3. s # <<>> => s[Len(s)][2] = fr[s[Len(s)][1]] /\ Follows(s[Len(s)][1], x, acc1)
    <3> SUFFICES ASSUME s # <<>>
                 PROVE  s[Len(s)][2] = fr[s[Len(s)][1]] /\ Follows(s[Len(s)][1], x, acc1)
      OBVIOUS
    <3>1. a > 0 /\ s[Len(s)] = <<acc[a], fr[acc[a]]>>
      BY <1>1 DEF EndsOK
    <3>2. s[Len(s)][1] = acc[a] /\ s[Len(s)][2] = fr[acc[a]]
      BY <3>1
    <3>3. a \in 1..a /\ a \in 1..a + 1 /\ a < a + 1
      BY <3>1
    <3>4. acc1[a] = acc[a]
      BY <2>1, <3>3
    <3>5. Follows(acc[a], x, acc1)
      BY <2>1, <3>3, <3>4 DEF Follows
    <3>6. QED
      BY <3>2, <3>5
  <2>4. QED
    BY <2>2, <2>3 DEF Joins
<1>4. QED
  BY <1>2, <1>3

\* A message that is not taken, of which m units are sent.
LEMMA PartMore ==
  ASSUME NEW s \in Seq(Unit), NEW s1 \in Seq(Unit), NEW fr \in Seq(Nat), NEW acc \in Seq(Nat),
         NEW con \in Seq(Nat), NEW size \in Nat, NEW fr1, fr1 = Append(fr, size),
         NEW x \in Nat, x = Len(fr) + 1, NEW m \in Nat, m < size,
         StreamOK(s, fr, acc, con), EndsOK(s, fr, acc, Len(con)), More(s, s1, x, m)
  PROVE  StreamOK(s1, fr1, acc, con)
<1>1. fr1 \in Seq(Nat) /\ Len(fr1) = Len(fr) + 1 /\ fr1[Len(fr) + 1] = size
  BY AppendProperties
<1>2. StreamOK(s, fr1, acc, con) /\ NotIn(Len(fr) + 1, acc) /\ EndsOK(s, fr1, acc, Len(con))
  BY MoreFrames
<1>3. PICK k \in Nat : k = Len(con)
  OBVIOUS
<1>4. Joins(s, x, fr1, acc, k)
  BY <1>2, <1>3, EndJoins
<1>5. fr1[x] = size /\ x \in 1..Len(fr1) /\ m \in 0..size
  BY <1>1
<1>6. m \in 0..fr1[x] /\ m < fr1[x]
  BY <1>5
<1>7. QED
  BY <1>1, <1>2, <1>3, <1>4, <1>5, <1>6, MoreUnits

\* Message x is the next, of that size, and is taken.
Longer(fr, acc, fr1, acc1, size, x) ==
  x = Len(fr) + 1 /\ fr1 = Append(fr, size) /\ acc1 = Append(acc, x)

\* A message that is taken: what is said of the stream before it holds for the longer lists.
LEMMA TakenLists ==
  ASSUME NEW s \in Seq(Unit), NEW fr \in Seq(Nat), NEW acc \in Seq(Nat),
         NEW con \in Seq(Nat), NEW size \in Nat, NEW fr1, NEW x \in Nat, NEW acc1,
         Longer(fr, acc, fr1, acc1, size, x), StreamOK(s, fr, acc, con), OnlyAccepted(s, acc)
  PROVE  StreamOK(s, fr1, acc1, con) /\ OnlyAccepted(s, acc1)
<1>0. x = Len(fr) + 1 /\ fr1 = Append(fr, size) /\ acc1 = Append(acc, x)
  BY DEF Longer
<1>1. fr1 \in Seq(Nat) /\ Len(fr1) = Len(fr) + 1
  BY <1>0, AppendProperties
<1>2. StreamOK(s, fr1, acc, con)
  BY <1>0, MoreFrames
<1>3. \A i \in 1..Len(acc) : acc[i] \in 1..Len(fr)
  BY DEF StreamOK, HandledOK
<1>4. x \in 1..Len(fr1) /\ \A j \in 1..Len(fr) : j < x
  BY <1>0, <1>1
<1>5. \A i \in 1..Len(acc) : acc[i] < x
  BY <1>3, <1>4
<1>6. QED
  BY <1>1, <1>2, <1>4, <1>5, <1>0, MoreAccepted

\* A message that is taken, and whose units come behind the others.
LEMMA TakenMore ==
  ASSUME NEW s \in Seq(Unit), NEW s1 \in Seq(Unit), NEW fr \in Seq(Nat), NEW acc \in Seq(Nat),
         NEW con \in Seq(Nat), NEW size \in Nat, size > 0, NEW fr1, NEW x \in Nat, NEW acc1,
         Longer(fr, acc, fr1, acc1, size, x), StreamOK(s, fr, acc, con), EndsOK(s, fr, acc, Len(con)),
         StreamOK(s, fr1, acc1, con), OnlyAccepted(s, acc1),
         More(s, s1, x, size)
  PROVE  /\ StreamOK(s1, fr1, acc1, con) /\ OnlyAccepted(s1, acc1)
         /\ EndsOK(s1, fr1, acc1, Len(con))
<1>0. x = Len(fr) + 1 /\ fr1 = Append(fr, size) /\ acc1 = Append(acc, x)
  BY DEF Longer
<1>1. fr1 \in Seq(Nat) /\ Len(fr1) = Len(fr) + 1 /\ fr1[Len(fr) + 1] = size
  BY <1>0, AppendProperties
<1>2. PICK a \in Nat, k \in Nat, l \in Nat : a = Len(acc) /\ k = Len(con) /\ l = Len(s)
  OBVIOUS
<1>3. acc1 \in Seq(Nat) /\ Len(acc1) = a + 1 /\ acc1[a + 1] = x
  BY <1>0, <1>2, AppendProperties
<1>5. NotIn(x, acc) /\ EndsOK(s, fr1, acc, k)
  BY <1>0, <1>2, MoreFrames
<1>6. Joins(s, x, fr1, acc1, k)
  BY <1>3, <1>5, <1>0, EndJoins
<1>7. fr1[x] = size /\ x \in 1..Len(fr1) /\ size \in 0..size /\ a + 1 \in 1..a + 1
  BY <1>0, <1>1
<1>8. ~NotIn(x, acc1)
  BY <1>3, <1>7 DEF NotIn
<1>9. StreamOK(s1, fr1, acc1, con)
  <2>1. size \in 0..fr1[x]
    BY <1>7
  <2>2. NotIn(x, acc1) => size < fr1[x]
    BY <1>8
  <2>3. QED
    BY <1>1, <1>2, <1>3, <1>6, <1>7, <2>1, <2>2, MoreUnits
<1>10. /\ Len(s1) = l + size /\ \A i \in 1..l : s1[i] = s[i]
       /\ \A i \in 1..size : s1[l + i] = <<x, i>>
  BY <1>2 DEF More
<1>11. EndsOK(s1, fr1, acc1, k)
  <2>1. size \in 1..size /\ Len(s1) > 0
    BY <1>2, <1>10
  <2>2. s1 # <<>> /\ s1[Len(s1)] = <<x, size>>
    BY <1>10, <2>1
  <2>3. Len(acc1) > 0 /\ acc1[Len(acc1)] = x
    BY <1>3
  <2>4. QED
    BY <1>7, <2>2, <2>3 DEF EndsOK
<1>12. OnlyAccepted(s1, acc1)
  <2>1. ASSUME NEW i \in 1..l + size
        PROVE  \E j \in 1..Len(acc1) : acc1[j] = s1[i][1]
    <3>1. CASE i \in 1..l
      <4>1. \E j \in 1..Len(acc1) : acc1[j] = s[i][1]
        BY <1>2, <3>1 DEF OnlyAccepted
      <4>2. QED
        BY <1>10, <3>1, <4>1
    <3>2. CASE i \notin 1..l
      <4>1. i \in Int /\ i > l
        BY <3>2
      <4>2. PICK j \in Nat : j = i - l
        BY <4>1
      <4>3. j \in 1..size /\ l + j = i
        BY <4>1, <4>2
      <4>4. s1[i] = <<x, j>>
        BY <1>10, <4>3
      <4>5. s1[i][1] = x
        BY <4>4
      <4>6. QED
        BY <1>3, <1>7, <4>5
    <3>3. QED
      BY <3>1, <3>2
  <2>2. QED
    BY <1>10, <2>1 DEF OnlyAccepted
<1>13. QED
  BY <1>2, <1>9, <1>11, <1>12

\* Units behind others.
LEMMA CatMore ==
  ASSUME NEW s \in Seq(Unit), NEW g \in Seq(Unit), NEW x, \A i \in 1..Len(g) : g[i] = <<x, i>>
  PROVE  s \o g \in Seq(Unit) /\ More(s, s \o g, x, Len(g))
<1>1. PICK t : t = s \o g
  OBVIOUS
<1>2. /\ t \in Seq(Unit) /\ Len(t) = Len(s) + Len(g)
      /\ \A i \in 1..Len(s) + Len(g) : t[i] = IF i <= Len(s) THEN s[i] ELSE g[i - Len(s)]
  BY <1>1, ConcatProperties
<1>3. PICK l \in Nat, m \in Nat : l = Len(s) /\ m = Len(g)
  OBVIOUS
<1>4. \A i \in 1..l : t[i] = s[i]
  BY <1>2, <1>3
<1>5. ASSUME NEW i \in 1..m
      PROVE  t[l + i] = <<x, i>>
  <2>1. l + i \in 1..l + m /\ ~(l + i <= l) /\ (l + i) - l = i
    BY <1>3
  <2>2. t[l + i] = g[(l + i) - l]
    BY <1>2, <1>3, <2>1
  <2>3. QED
    BY <1>3, <2>1, <2>2
<1>6. More(s, t, x, m)
  BY <1>2, <1>3, <1>4, <1>5 DEF More
<1>7. QED
  BY <1>1, <1>2, <1>3, <1>6

\* sendBin on a connection that is up: what is sent at once and what is buffered are
\* together the frame, and come behind all others.
LEMMA TakenCat ==
  ASSUME Base, NEW size, NEW n, Taken(size, n), up
  PROVE  Stream' \in Seq(Unit) /\ More(Stream, Stream', Len(frames) + 1, size)
<1>1. PICK d \in Seq(Unit), p \in Nat, w \in Seq(Unit), o \in Seq(Unit) :
        d = input.data /\ p = pos /\ w = wire /\ o = output.data
  BY DEF Base, Types, Data, Buffers
<1>2. p \in 0..Len(d)
  BY <1>1 DEF Base, BoundsOK
<1>3. /\ size \in Nat /\ n \in 0..size /\ (n > 0 => o = <<>>)
      /\ wire' = w \o SubSeq(NewFrame(size), 1, n)
      /\ output'.data = o \o SubSeq(NewFrame(size), n + 1, size)
      /\ UNCHANGED <<up, input, pos>>
  BY <1>1 DEF Taken, Offered
<1>4. PICK f \in Seq(Unit) : f = NewFrame(size) /\ Len(f) = size
  BY <1>3, NewFrameIs
<1>5. \A i \in 1..Len(f) : f[i] = <<Len(frames) + 1, i>>
  BY <1>3, <1>4, NewFrameIs
<1>6. PICK a, b, e : a = SubSeq(f, 1, n) /\ b = SubSeq(f, n + 1, Len(f)) /\ e = SubSeq(d, p + 1, Len(d))
  OBVIOUS
<1>7. a \in Seq(Unit) /\ Len(a) = n /\ b \in Seq(Unit) /\ Len(b) = size - n /\ a \o b = f
  <2>1. n \in 0..Len(f)
    BY <1>3, <1>4
  <2>2. a \in Seq(Unit) /\ Len(a) = n /\ b \in Seq(Unit) /\ Len(b) = Len(f) - n /\ a \o b = f
    BY <1>6, <2>1, SplitSeq
  <2>3. QED
    BY <1>4, <2>2
<1>8. e \in Seq(Unit)
  BY <1>2, <1>6, SplitSeq
<1>9. wire' = w \o a /\ output'.data = o \o b
  BY <1>3, <1>4, <1>6
<1>10. Coming = o /\ Coming' = o \o b
  BY <1>1, <1>3, <1>9 DEF Coming
<1>11. Stream = e \o (w \o o)
  BY <1>1, <1>6, <1>10, Zenon DEF Stream
<1>12. Stream' = e \o ((w \o a) \o (o \o b))
  BY <1>1, <1>3, <1>6, <1>9, <1>10, Zenon DEF Stream
<1>13. PICK y \in Seq(Unit) : y = w \o o
  BY ConcatProperties
<1>14. (w \o a) \o (o \o b) = y \o f
  <2>1. CASE n = 0
    <3>1. a = <<>>
      BY <1>7, <2>1
    <3>2. w \o <<>> = w /\ <<>> \o b = b
      BY <1>7, ConcatEmptySeq
    <3>3. b = f /\ w \o a = w
      BY <1>7, <3>1, <3>2
    <3>4. (w \o o) \o f = w \o (o \o f)
      <4>1. Associates(w, o, f)
        BY CatAssocIs, Zenon
      <4>2. QED
        BY <4>1, Zenon DEF Associates
    <3>5. QED
      BY <1>13, <3>3, <3>4, Zenon
  <2>2. CASE n > 0
    <3>1. o = <<>>
      BY <1>3, <2>2
    <3>2. w \o <<>> = w /\ <<>> \o b = b
      BY <1>7, ConcatEmptySeq
    <3>3. (w \o a) \o b = w \o (a \o b)
      <4>1. Associates(w, a, b)
        BY <1>7, CatAssocIs, Zenon
      <4>2. QED
        BY <4>1, Zenon DEF Associates
    <3>4. QED
      BY <1>7, <1>13, <3>1, <3>2, <3>3, Zenon
  <2>3. n = 0 \/ n > 0
    BY <1>3
  <2>4. QED
    BY <2>1, <2>2, <2>3, Zenon
<1>15. PICK s : s = e \o y
  OBVIOUS
<1>16. s \in Seq(Unit) /\ s \o f = e \o (y \o f)
  BY <1>8, <1>15, CatAssoc, ConcatProperties
<1>17. Stream = s /\ Stream' = s \o f
  BY <1>11, <1>12, <1>13, <1>14, <1>15, <1>16, Zenon
<1>18. PICK x : x = Len(frames) + 1
  OBVIOUS
<1>19. s \o f \in Seq(Unit) /\ More(s, s \o f, x, Len(f))
  BY <1>5, <1>16, <1>18, CatMore
<1>20. QED
  BY <1>4, <1>17, <1>18, <1>19

\* A part of a frame is sent, and nothing is buffered.
LEMMA PartCat ==
  ASSUME Base, NEW size, NEW n, Offered(size, n), n > 0, output'.data = <<>>
  PROVE  Stream' \in Seq(Unit) /\ More(Stream, Stream', Len(frames) + 1, n)
<1>1. PICK d \in Seq(Unit), p \in Nat, w \in Seq(Unit) : d = input.data /\ p = pos /\ w = wire
  BY DEF Base, Types, Data, Buffers
<1>2. p \in 0..Len(d)
  BY <1>1 DEF Base, BoundsOK
<1>3. /\ size \in Nat /\ n \in 0..size /\ output.data = <<>>
      /\ wire' = w \o SubSeq(NewFrame(size), 1, n)
      /\ UNCHANGED <<up, input, pos>>
  BY <1>1 DEF Offered
<1>4. PICK f \in Seq(Unit) : f = NewFrame(size) /\ Len(f) = size
  BY <1>3, NewFrameIs
<1>5. \A i \in 1..size : f[i] = <<Len(frames) + 1, i>>
  BY <1>3, <1>4, NewFrameIs
<1>6. PICK a, e : a = SubSeq(f, 1, n) /\ e = SubSeq(d, p + 1, Len(d))
  OBVIOUS
<1>7. n \in 0..Len(f)
  BY <1>3, <1>4
<1>8. a \in Seq(Unit) /\ Len(a) = n
  BY <1>6, <1>7, SplitSeq
<1>9. \A i \in 1..n : a[i] = f[i]
  BY <1>6, <1>7, SplitSeq
<1>10. \A i \in 1..Len(a) : a[i] = <<Len(frames) + 1, i>>
  <2>1. \A i \in 1..n : i \in 1..size
    BY <1>3
  <2>2. \A i \in 1..n : a[i] = <<Len(frames) + 1, i>>
    BY <1>5, <1>9, <2>1, Zenon
  <2>3. QED
    BY <1>8, <2>2, Zenon
<1>11. e \in Seq(Unit)
  BY <1>2, <1>6, SplitSeq
<1>12. Coming = <<>> /\ Coming' = <<>>
  BY <1>3 DEF Coming
<1>13. w \o a \in Seq(Unit) /\ w \o <<>> = w /\ (w \o a) \o <<>> = w \o a
  <2>1. w \o a \in Seq(Unit)
    BY <1>8, ConcatProperties
  <2>2. QED
    BY <2>1, ConcatEmptySeq
<1>14. Stream = e \o (w \o <<>>)
  BY <1>1, <1>6, <1>12, Zenon DEF Stream
<1>15. Stream' = e \o ((w \o a) \o <<>>)
  BY <1>1, <1>3, <1>4, <1>6, <1>12, Zenon DEF Stream
<1>16. PICK s : s = e \o w
  OBVIOUS
<1>17. s \in Seq(Unit) /\ s \o a = e \o (w \o a)
  BY <1>8, <1>11, <1>16, CatAssoc, ConcatProperties
<1>18. Stream = s /\ Stream' = s \o a
  BY <1>13, <1>14, <1>15, <1>16, <1>17, Zenon
<1>19. PICK x : x = Len(frames) + 1
  OBVIOUS
<1>20. s \o a \in Seq(Unit) /\ More(s, s \o a, x, Len(a))
  BY <1>8, <1>10, <1>17, <1>19, CatMore
<1>21. QED
  BY <1>8, <1>18, <1>19, <1>20

\* sendBin takes the message.
LEMMA TakenStream ==
  ASSUME Base, StreamInv, NEW size, NEW n, Taken(size, n)
  PROVE  StreamInv'
<1>1. PICK s \in Seq(Unit), fr \in Seq(Nat), acc \in Seq(Nat), con \in Seq(Nat) :
        s = Stream /\ fr = frames /\ acc = accepted /\ con = consumed
  BY StreamIs DEF Base, Types, Data
<1>2. /\ size \in Nat /\ size > HeaderSize /\ state \in {"connecting", "connected"} /\ bEnable
      /\ n \in 0..size /\ (n > 0 => up)
      /\ frames' = Append(fr, size) /\ accepted' = Append(acc, Len(fr) + 1) /\ consumed' = con
      /\ UNCHANGED <<torn, up, state, bEnable, input, pos>>
  BY <1>1 DEF Taken, Offered, conn
<1>3. size > 0
  BY <1>2, FrameAssumption
<1>4. PICK x \in Nat : x = Len(fr) + 1
  OBVIOUS
<1>5. PICK fr1, acc1 : fr1 = Append(fr, size) /\ acc1 = Append(acc, x)
  OBVIOUS
<1>10. Longer(fr, acc, fr1, acc1, size, x)
  BY <1>4, <1>5 DEF Longer
<1>6. Sends /\ Sends'
  BY <1>2 DEF Sends
<1>7. CASE torn
  BY <1>2, <1>7 DEF StreamInv
<1>8. CASE ~torn
  <2>1. /\ StreamOK(s, fr, acc, con) /\ OnlyAccepted(s, acc)
        /\ up => EndsOK(s, fr, acc, Len(con))
    BY <1>1, <1>6, <1>8 DEF StreamInv
  <2>2. StreamOK(s, fr1, acc1, con) /\ OnlyAccepted(s, acc1)
    BY <1>2, <1>10, <2>1, TakenLists
  <2>3. frames' = fr1 /\ accepted' = acc1
    BY <1>2, <1>4, <1>5
  <2>4. CASE up
    <3>1. PICK s1 \in Seq(Unit) : s1 = Stream' /\ More(s, s1, x, size)
      BY <1>1, <1>4, <2>4, TakenCat
    <3>2. /\ StreamOK(s1, fr1, acc1, con) /\ OnlyAccepted(s1, acc1)
          /\ EndsOK(s1, fr1, acc1, Len(con))
      BY <1>2, <1>3, <1>10, <2>1, <2>2, <2>4, <3>1, TakenMore
    <3>3. QED
      BY <1>2, <2>3, <3>1, <3>2 DEF StreamInv
  <2>5. CASE ~up
    <3>1. wire' = wire
      BY <1>2, <2>5, OfferedIs DEF Taken
    <3>2. Stream' = s
      BY <1>1, <1>2, <2>5, <3>1 DEF Stream, Coming
    <3>3. QED
      BY <1>2, <2>2, <2>3, <2>5, <3>2 DEF StreamInv
  <2>6. QED
    BY <2>4, <2>5
<1>9. QED
  BY <1>7, <1>8

\* sendBin throws: what is sent of the message is not followed by another one, or nothing
\* is sent, or the connection is torn.
LEMMA ThrownStream ==
  ASSUME Base, StreamInv, NEW size, NEW n, Thrown(size, n)
  PROVE  StreamInv' /\ (torn => torn')
<1>1. PICK s \in Seq(Unit), fr \in Seq(Nat), acc \in Seq(Nat), con \in Seq(Nat) :
        s = Stream /\ fr = frames /\ acc = accepted /\ con = consumed
  BY StreamIs DEF Base, Types, Data
<1>2. /\ size \in Nat /\ size > HeaderSize /\ state \in {"connecting", "connected"} /\ bEnable
      /\ n \in 0..size /\ n < size /\ (n > 0 => up /\ output.data = <<>>)
      /\ frames' = Append(fr, size) /\ accepted' = acc /\ consumed' = con
      /\ UNCHANGED <<up, input, pos>> /\ Offered(size, n)
  BY <1>1 DEF Thrown, Offered
<1>3. PICK partly \in BOOLEAN : (partly <=> n > 0) /\ Throws(partly)
  BY Zenon DEF Thrown
<1>4. \/ Erase /\ UNCHANGED <<torn, died>>
      \/ /\ bEnable' = FALSE /\ lazy' = TRUE
         /\ UNCHANGED <<state, client, output, events, torn, died>>
      \/ /\ frames = <<>> /\ accepted = <<>> /\ died' \in BOOLEAN /\ torn' = partly
         /\ UNCHANGED <<conn, output, events>>
  BY <1>2, <1>3, ThrowsIs
<1>5. PICK x \in Nat, m \in Nat : x = Len(fr) + 1 /\ m = n
  BY <1>2
<1>6. PICK fr1 : fr1 = Append(fr, size)
  OBVIOUS
<1>7. Sends
  BY <1>2 DEF Sends
<1>8. torn => torn'
  <2>1. torn => frames # <<>>
    BY DEF Base, PhaseOK
  <2>2. QED
    BY <1>4, <2>1
<1>9. SUFFICES ASSUME ~torn, ~torn' PROVE StreamInv'
  BY <1>8 DEF StreamInv
<1>10. /\ StreamOK(s, fr, acc, con) /\ OnlyAccepted(s, acc)
       /\ up => EndsOK(s, fr, acc, Len(con))
  BY <1>1, <1>7, <1>9 DEF StreamInv
<1>11. /\ StreamOK(s, fr1, acc, con)
       /\ EndsOK(s, fr, acc, Len(con)) => EndsOK(s, fr1, acc, Len(con))
  BY <1>2, <1>6, <1>10, MoreFrames
<1>12. CASE n = 0 /\ UNCHANGED <<output, state>>
  <2>1. wire' = wire
    BY <1>2, <1>12, OfferedIs
  <2>2. Stream' = s
    BY <1>1, <1>2, <1>12, <2>1 DEF Stream, Coming
  <2>3. QED
    BY <1>2, <1>6, <1>7, <1>10, <1>11, <1>12, <2>2 DEF StreamInv
<1>13. CASE n = 0 /\ Erase
  <2>1. wire' = wire
    BY <1>2, <1>13, OfferedIs
  <2>2. Coming' = <<>>
    BY <1>13, EmptyIs DEF Erase, Coming
  <2>3. Shorter(Stream', Stream)
    BY <1>2, <2>1, <2>2, LostShorter
  <2>4. PICK s1 \in Seq(Unit) : s1 = Stream' /\ Len(s1) <= Len(s) /\ \A i \in 1..Len(s1) : s1[i] = s[i]
    BY <1>1, <2>3 DEF Shorter
  <2>5. StreamOK(s1, fr1, acc, con)
    BY <1>11, <2>4, PrefixOK
  <2>6. ~Sends'
    BY <1>13 DEF Erase, Sends
  <2>7. QED
    BY <1>2, <1>6, <2>4, <2>5, <2>6 DEF StreamInv
<1>14. CASE n > 0
  <2>1. ~Sends' /\ output'.data = <<>>
    <3>1. CASE Erase
      BY <3>1, EmptyIs DEF Erase, Sends
    <3>2. CASE bEnable' = FALSE /\ UNCHANGED output
      BY <1>2, <1>14, <3>2 DEF Sends
    <3>3. ~(torn' = partly)
      BY <1>3, <1>9, <1>14
    <3>4. QED
      BY <1>4, <3>1, <3>2, <3>3
  <2>2. PICK s1 \in Seq(Unit) : s1 = Stream' /\ More(s, s1, x, m)
    BY <1>1, <1>2, <1>5, <1>14, <2>1, PartCat
  <2>3. EndsOK(s, fr, acc, Len(con)) /\ m < size
    BY <1>2, <1>5, <1>10, <1>14
  <2>4. StreamOK(s1, fr1, acc, con)
    BY <1>2, <1>5, <1>6, <1>10, <2>2, <2>3, PartMore
  <2>5. QED
    BY <1>2, <1>6, <2>1, <2>2, <2>4 DEF StreamInv
<1>15. QED
  <2>1. n = 0 \/ n > 0
    BY <1>2
  <2>2. QED
    BY <1>4, <1>12, <1>13, <1>14, <2>1 DEF conn

\* sendBin drops the message.
LEMMA DroppedStream ==
  ASSUME Base, StreamInv, NEW size \in FrameSize, SendDisabled(size)
  PROVE  StreamInv'
<1>1. PICK s \in Seq(Unit), fr \in Seq(Nat), acc \in Seq(Nat), con \in Seq(Nat) :
        s = Stream /\ fr = frames /\ acc = accepted /\ con = consumed
  BY StreamIs DEF Base, Types, Data
<1>2. /\ frames' = Append(fr, size) /\ accepted' = acc /\ consumed' = con /\ torn' = torn
      /\ ~bEnable /\ bEnable' = bEnable
  BY <1>1 DEF SendDisabled, conn
<1>3. Stream' = s /\ ~Sends' /\ size \in Nat
  BY <1>1, <1>2, DroppedBase, FrameAssumption DEF Sends
<1>4. PICK fr1 : fr1 = Append(fr, size)
  OBVIOUS
<1>5. ~torn => StreamOK(s, fr1, acc, con)
  <2> SUFFICES ASSUME ~torn PROVE StreamOK(s, fr1, acc, con)
    OBVIOUS
  <2>1. StreamOK(s, fr, acc, con)
    BY <1>1 DEF StreamInv
  <2>2. QED
    BY <1>3, <1>4, <2>1, MoreFrames
<1>6. QED
  BY <1>2, <1>3, <1>4, <1>5 DEF StreamInv

\* The stream is right initially, and every step keeps it.
LEMMA StreamInit == Init => StreamInv
<1> SUFFICES ASSUME Init PROVE StreamInv
  OBVIOUS
<1>1. /\ input.data = <<>> /\ pos = 0 /\ wire = <<>> /\ output.data = <<>>
      /\ frames = <<>> /\ accepted = <<>> /\ consumed = <<>>
  BY EmptyIs DEF Init
<1>2. PICK z : z = <<>>
  OBVIOUS
<1>3. z \in Seq(Unit) /\ Len(z) = 0 /\ z \o (z \o z) = z /\ z \in Seq(Nat)
  BY <1>2
<1>4. Coming = z
  BY <1>1, <1>2 DEF Coming
<1>5. SubSeq(z, pos + 1, Len(z)) = z
  <2>1. pos + 1 = 1
    BY <1>1
  <2>2. SubSeq(z, 1, 0) = z
    BY <1>2, <1>3, SubSeqEmpty
  <2>3. QED
    BY <1>3, <2>1, <2>2, Zenon
<1>6. Stream = z
  BY <1>1, <1>2, <1>3, <1>4, <1>5, Zenon DEF Stream
<1>7. StreamOK(z, z, z, z)
  <2>1. HandledOK(z, z, z)
    BY <1>3 DEF HandledOK
  <2>2. UnitsOK(z, z, z) /\ ChainOK(z, z, z) /\ StartsOK(z, z, Len(z))
    BY <1>2, <1>3 DEF UnitsOK, ChainOK, StartsOK
  <2>3. QED
    BY <2>1, <2>2 DEF StreamOK
<1>8. OnlyAccepted(z, z) /\ EndsOK(z, z, z, Len(z))
  BY <1>2, <1>3 DEF OnlyAccepted, EndsOK
<1>9. QED
  BY <1>1, <1>2, <1>6, <1>7, <1>8 DEF StreamInv

\* Every handler of both event loops keeps the stream: what JsonSender appends, flush sends, pump
\* receives and onData erases is always the accepted messages in order.
LEMMA StreamKept == Base /\ StreamInv /\ [Next]_vars => StreamInv'
<1> SUFFICES ASSUME Base, StreamInv, [Next]_vars PROVE StreamInv'
  OBVIOUS
<1>1. CASE \/ \E now \in BOOLEAN : Connect(now)
           \/ Accept \/ OnDataReturns
           \/ \E n \in 0..WireSize : OnConnected(n) \/ OnWrite(n)
           \/ \E n \in 1..WireSize, mem \in BOOLEAN : Pump(n, mem)
  BY <1>1, QuietStream
<1>2. CASE \/ OnConnectedThrows \/ ConnectRefused \/ ConnectTimeout \/ Reset \/ LazyDelete
           \/ \E writable \in BOOLEAN : OnReadClosed(writable)
  BY <1>2, EndsStream
<1>3. CASE OnDataThrows \/ \E mem \in BOOLEAN : PumpEnds(mem)
  BY <1>3, ReaderEndsStream
<1>4. CASE OnData
  BY <1>4, OnDataStream
<1>5. CASE Sending
  <2>1. CASE \E size \in FrameSize : SendDisabled(size)
    BY <2>1, DroppedStream
  <2>2. CASE \E size \in FrameSize, mem \in BOOLEAN, nsent \in 0..WireSize :
               SendEarly(size, mem) \/ Send(size, nsent, mem) \/ SendBroken(size, mem)
    <3>1. PICK size \in FrameSize, mem \in BOOLEAN, nsent \in 0..WireSize :
            SendEarly(size, mem) \/ Send(size, nsent, mem) \/ SendBroken(size, mem)
      BY <2>2
    <3>2. PICK n \in 0..size : Taken(size, n) \/ Thrown(size, n)
      BY <3>1, SendCases
    <3>3. QED
      BY <3>2, TakenStream, ThrownStream
  <2>3. 0 \in 0..WireSize
    BY FrameAssumption
  <2>4. QED
    BY <1>5, <2>1, <2>2, <2>3, Zenon DEF Sending
<1>6. CASE UNCHANGED vars
  <2>1. UNCHANGED <<state, bEnable, output, up, wire, input, pos, frames, accepted, consumed, torn>>
    BY <1>6 DEF vars, conn, net, recving, history
  <2>2. Stream' = Stream /\ Sends' = Sends
    BY <2>1 DEF Stream, Coming, Sends
  <2>3. Shorter(Stream', Stream)
    BY <2>2, SameShorter
  <2>4. QED
    BY <2>1, <2>2, <2>3, KeepStream
<1>7. QED
  BY <1>1, <1>2, <1>3, <1>4, <1>5, <1>6, Zenon DEF Next, Polling, Reading

\* The inductive invariant of a connection, from createConnection to its end.
LEMMA FrameInvariant == Spec => []FrameInv
<1>1. Init => FrameInv
  BY BaseInit, StreamInit DEF FrameInv
<1>2. FrameInv /\ [Next]_vars => FrameInv'
  BY BaseKept, StreamKept DEF FrameInv
<1>3. QED
  BY <1>1, <1>2, PTL DEF Spec

\* JsonProtoConsumer::onData and doRequest: unless the first message of a connection is torn,
\* the peer handles the messages sendBin took, each once, whole and in order, whatever pieces
\* they are sent, received and buffered in, and whichever send, connect or handler fails.
THEOREM FramesInOrder == Spec => []InOrder
<1>1. FrameInv => InOrder
  <2> SUFFICES ASSUME FrameInv, ~torn PROVE IsPrefix(consumed, accepted)
    BY DEF InOrder
  <2>1. PICK acc \in Seq(Nat), con \in Seq(Nat) : acc = accepted /\ con = consumed
    BY DEF FrameInv, Base, Types, Data
  <2>2. Len(con) <= Len(acc) /\ \A i \in 1..Len(con) : con[i] = acc[i]
    BY <2>1 DEF FrameInv, StreamInv, StreamOK, HandledOK
  <2>3. PICK k \in Nat, a \in Nat : k = Len(con) /\ a = Len(acc) /\ k <= a
    BY <2>2
  <2>4. SubSeq(con, 1, k) = con
    BY <2>3, SubSeqFull
  <2>5. PICK g : g = SubSeq(acc, 1, k)
    OBVIOUS
  <2>6. \A i \in 1..k : acc[i] \in Nat
    BY <2>3, ElementOfSeq
  <2>7. /\ g \in Seq(Nat) /\ Len(g) = (IF 1 <= k THEN k - 1 + 1 ELSE 0)
        /\ \A i \in 1..k - 1 + 1 : g[i] = acc[1 + i - 1]
    BY <2>5, <2>6, SubSeqProperties
  <2>8. Len(g) = k /\ \A i \in 1..k : g[i] = acc[i]
    BY <2>7
  <2>9. con = g
    BY <2>2, <2>3, <2>7, <2>8, SeqEqual
  <2>10. QED
    BY <2>1, <2>2, <2>3, <2>4, <2>5, <2>9 DEF IsPrefix
<1>2. QED
  BY FrameInvariant, <1>1, PTL

-----------------------------------------------------------------------------
(* The connection implements a FIFO *)

Open == up /\ state # "erased" /\ ~died /\ ~torn
Handled == IF torn THEN <<>> ELSE consumed

\* Steps that accept and handle nothing: the connection is what it was, or closes.
LEMMA StayOrClose ==
  ASSUME accepted' = accepted, Handled' = Handled, Open' => Open
  PROVE  [Fifo!Next]_(Fifo!vars)
<1>1. CASE Open <=> Open'
  <2>1. Open' = Open
    BY <1>1, Zenon DEF Open
  <2>2. UNCHANGED Fifo!vars
    BY <2>1, Zenon DEF Open, Handled, Fifo!vars
  <2>3. QED
    BY <2>2
<1>2. CASE Open /\ ~Open'
  <2>1. Open /\ Open' = FALSE
    BY <1>2, Zenon DEF Open
  <2>2. Fifo!Close
    BY <2>1, Zenon DEF Fifo!Close, Open, Handled
  <2>3. QED
    BY <2>2 DEF Fifo!Next
<1>3. QED
  BY <1>1, <1>2

\* Steps that keep the messages and never open what is closed.
LEMMA QuietFifo ==
  ASSUME UNCHANGED <<accepted, consumed, torn>>, up' => up, died => died',
         state = "erased" => state' = "erased"
  PROVE  [Fifo!Next]_(Fifo!vars)
<1>1. Handled' = Handled /\ (Open' => Open)
  BY Zenon DEF Handled, Open
<1>2. QED
  BY <1>1, StayOrClose

\* sendBin, as the FIFO sees it.
LEMMA SendFifo ==
  ASSUME FrameInv, NEW size, NEW n, Taken(size, n) \/ Thrown(size, n)
  PROVE  [Fifo!Next]_(Fifo!vars)
<1>1. CASE Taken(size, n)
  <2>1. /\ UNCHANGED <<consumed, torn, died, up, state>> /\ Len(frames) < MaxSends
        /\ accepted' = Append(accepted, Len(frames) + 1)
    BY <1>1 DEF Taken, Offered, conn
  <2>2. PICK m \in 1..MaxSends : m = Len(frames) + 1
    <3>1. Len(frames) \in Nat
      BY DEF FrameInv, Base, Types, Data
    <3>2. QED
      BY <2>1, <3>1, FrameAssumption
  <2>3. Open' = Open /\ Handled' = Handled /\ accepted' = Append(accepted, m)
    BY <2>1, <2>2 DEF Open, Handled
  <2>4. Fifo!Accept(m)
    BY <2>3, Zenon DEF Fifo!Accept, Open, Handled
  <2>5. QED
    BY <2>4 DEF Fifo!Next
<1>2. CASE Thrown(size, n)
  <2>1. /\ UNCHANGED <<accepted, consumed, up>> /\ ~died
        /\ state \in {"connecting", "connected"} /\ bEnable
    BY <1>2 DEF Thrown, Offered
  <2>2. torn => torn'
    BY <1>2, ThrownStream DEF FrameInv
  <2>3. PICK partly \in BOOLEAN : Throws(partly)
    BY <1>2, Zenon DEF Thrown
  <2>4. \/ UNCHANGED torn
        \/ accepted = <<>> /\ frames = <<>>
    BY <2>1, <2>3, ThrowsIs DEF FrameInv
  <2>5. Handled' = Handled
    <3>1. CASE torn' = torn
      BY <2>1, <3>1 DEF Handled
    <3>2. CASE accepted = <<>> /\ frames = <<>>
      <4>1. ~torn /\ consumed \in Seq(Nat)
        BY <3>2 DEF FrameInv, Base, PhaseOK, Types, Data
      <4>2. Len(consumed) <= Len(accepted)
        BY <4>1 DEF FrameInv, StreamInv, StreamOK, HandledOK
      <4>3. consumed = <<>>
        <5>1. Len(consumed) = 0
          BY <3>2, <4>1, <4>2
        <5>2. QED
          BY <4>1, <5>1
      <4>4. QED
        BY <2>1, <4>1, <4>3 DEF Handled
    <3>3. QED
      BY <2>4, <3>1, <3>2
  <2>6. Open' => Open
    BY <2>1, <2>2 DEF Open
  <2>7. QED
    BY <2>1, <2>5, <2>6, StayOrClose
<1>3. QED
  BY <1>1, <1>2

\* onData, as the FIFO sees it.
LEMMA OnDataFifo ==
  ASSUME FrameInv, OnData
  PROVE  [Fifo!Next]_(Fifo!vars)
<1>1. UNCHANGED <<accepted, torn, up, state, died>>
  BY DEF OnData, conn, net
<1>2. Open' = Open
  BY <1>1 DEF Open
<1>3. CASE torn
  <2>1. Handled' = Handled
    BY <1>1, <1>3 DEF Handled
  <2>2. QED
    BY <1>1, <1>2, <2>1, StayOrClose
<1>4. CASE ~torn
  <2>1. /\ Len(consumed) < Len(accepted)
        /\ consumed' = Append(consumed, accepted[Len(consumed) + 1])
    BY <1>4, OnDataStream DEF FrameInv
  <2>2. Handled = consumed /\ Handled' = consumed'
    BY <1>1, <1>4 DEF Handled
  <2>3. /\ Len(Handled) < Len(accepted)
        /\ Handled' = Append(Handled, accepted[Len(Handled) + 1])
        /\ UNCHANGED <<accepted, Open>>
    BY <1>1, <1>2, <2>1, <2>2
  <2>4. Fifo!Consume
    BY <2>3, Zenon DEF Fifo!Consume, Open, Handled
  <2>5. QED
    BY <2>4 DEF Fifo!Next
<1>5. QED
  BY <1>3, <1>4

\* Connection, SockBuffer and JsonProtoConsumer together implement LossyFifo: every step of the
\* sender, the network and the receiver accepts a message, handles the next one, closes the
\* connection for good, or is none that the FIFO sees.  (That an open connection delivers what
\* it has accepted is ImplementsFifo, which a run checks.)
THEOREM ChannelIsFifo == Spec => Fifo!Spec
<1>1. Init => Fifo!Init
  <2> SUFFICES ASSUME Init PROVE Fifo!Init
    OBVIOUS
  <2>1. accepted = <<>> /\ consumed = <<>> /\ ~torn /\ up = TRUE /\ ~died /\ state # "erased"
    BY DEF Init
  <2>2. Open = TRUE /\ Handled = <<>>
    BY <2>1 DEF Open, Handled
  <2>3. QED
    BY <2>1, <2>2, Zenon DEF Fifo!Init, Open, Handled
<1>2. FrameInv /\ [Next]_vars => [Fifo!Next]_(Fifo!vars)
  <2> SUFFICES ASSUME FrameInv, [Next]_vars PROVE [Fifo!Next]_(Fifo!vars)
    OBVIOUS
  <2>1. CASE (\E now \in BOOLEAN : Connect(now)) \/ Accept
    <3>1. UNCHANGED <<accepted, consumed, torn, up, died>> /\ state = "new"
      BY <2>1 DEF Connect, Accept, net, history
    <3>2. QED
      BY <3>1, QuietFifo
  <2>2. CASE Sending
    <3>1. CASE \E size \in FrameSize : SendDisabled(size)
      <4>1. UNCHANGED <<accepted, consumed, torn, up, died, state>>
        BY <3>1 DEF SendDisabled, net, conn
      <4>2. QED
        BY <4>1, QuietFifo
    <3>2. CASE \E size \in FrameSize, mem \in BOOLEAN, nsent \in 0..WireSize :
                 SendEarly(size, mem) \/ Send(size, nsent, mem) \/ SendBroken(size, mem)
      <4>1. PICK size \in FrameSize, mem \in BOOLEAN, nsent \in 0..WireSize :
              SendEarly(size, mem) \/ Send(size, nsent, mem) \/ SendBroken(size, mem)
        BY <3>2
      <4>2. PICK n \in 0..size : Taken(size, n) \/ Thrown(size, n)
        BY <4>1, SendCases DEF FrameInv
      <4>3. QED
        BY <4>2, SendFifo
    <3>3. 0 \in 0..WireSize
      BY FrameAssumption
    <3>4. QED
      BY <2>2, <3>1, <3>2, <3>3, Zenon DEF Sending
  <2>3. CASE Polling
    <3>1. /\ UNCHANGED <<accepted, consumed, torn>> /\ ~died
          /\ up' = up \/ up' = FALSE
          /\ state \in {"connecting", "connected"}
      BY <2>3 DEF Polling, OnConnected, OnWrite, OnConnectedThrows, ConnectRefused, ConnectTimeout,
         OnReadClosed, LazyDelete, history, net
    <3>2. QED
      BY <3>1, QuietFifo
  <2>4. CASE OnData
    BY <2>4, OnDataFifo
  <2>5. CASE \/ \E n \in 1..WireSize, mem \in BOOLEAN : Pump(n, mem)
             \/ \E mem \in BOOLEAN : PumpEnds(mem)
             \/ OnDataThrows \/ OnDataReturns \/ Reset
    <3>1. /\ UNCHANGED <<accepted, consumed, torn, died, state>>
          /\ up' = up \/ up' = FALSE
      BY <2>5 DEF Pump, PumpEnds, OnDataThrows, OnDataReturns, Reset, ReaderErase, history, net, conn
    <3>2. QED
      BY <3>1, QuietFifo
  <2>6. CASE UNCHANGED vars
    <3>1. UNCHANGED <<accepted, consumed, torn, up, died, state>>
      BY <2>6 DEF vars, history, net, conn
    <3>2. QED
      BY <3>1, QuietFifo
  <2>7. QED
    BY <2>1, <2>2, <2>3, <2>4, <2>5, <2>6, Zenon DEF Next, Reading
<1>3. QED
  BY FrameInvariant, <1>1, <1>2, PTL DEF Spec, Fifo!Spec
=============================================================================
