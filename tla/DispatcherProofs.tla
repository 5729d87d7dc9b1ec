--------------------------- MODULE DispatcherProofs --------------------------
(***************************************************************************)
(* Proofs about Dispatcher, for any number of connections, workers and     *)
(* processes, any size of the channels, and any number of deaths and       *)
(* failures.                                                               *)
(***************************************************************************)
EXTENDS Dispatcher, FiniteSetTheorems, NaturalsInduction, WellFoundedInduction, TLAPS

\* The ids a connection can have been dispatched by.
Ids == (0..UInt32 - 1) \union {NoSession}

Procs == [Pid -> [st : {"free", "init", "run", "zombie"}, queue : Seq(Conn), child : BOOLEAN]]
Conns == [Conn -> [at : {"away", "backlog", "master", "channel", "worker"},
                   pid : Pid \union {NoPid}, data : {"none", "part", "all"}, eof : BOOLEAN,
                   peek : Ids]]
Workers == [Slot -> [status : {"Init", "OK", "Unknown"}, pid : Pid \union {NoPid}]]
Masters == [pc : {"none", "bind", "deaf", "start", "loop", "send", "emit"}, next : 0..numWorker,
            masked : BOOLEAN, sig : SUBSET {"CHLD", "PIPE"}, emits : 0..2, loop : 0..ReapLoop,
            target : {<<>>} \union (Conn \X Slot)]
Budgets == [crash : Nat, fault : Nat, boot : Nat]

\* The types of all variables.
Types ==
  /\ daemon \in {"up", "gone"} /\ master \in Masters /\ worker \in Workers
  /\ proc \in Procs /\ conn \in Conns /\ budget \in Budgets
  /\ deaths \in Nat /\ early \in BOOLEAN

\* The channel q of process p holds the connections that are on their way to p, each once.
QueueOK(p, q, cn) ==
  /\ Len(q) <= ChannelSize
  /\ \A i, j \in DOMAIN q : q[i] = q[j] => i = j
  /\ \A i \in DOMAIN q : cn[q[i]].pid = p /\ cn[q[i]].at = "channel"
  /\ \A c \in Conn : cn[c].pid = p /\ cn[c].at = "channel" => \E i \in DOMAIN q : q[i] = c

\* Connections are held by the living.
HoldsOK(pr, cn) ==
  /\ \A c \in Conn : (cn[c].at \in {"channel", "worker"}) <=> (cn[c].pid # NoPid)
  /\ \A c \in Conn : cn[c].pid # NoPid => pr[cn[c].pid].st \in {"init", "run"}
  /\ \A p \in Pid : QueueOK(p, pr[p].queue, cn)

\* The Worker objects of the slots in S know a process each, a child of the master that
\* has not been reaped, and no two the same.
SlotsOK(w, pr, S) ==
  /\ \A s \in S : (w[s].status = "OK") <=> (w[s].pid # NoPid)
  /\ \A s \in S : w[s].pid # NoPid => pr[w[s].pid].child /\ pr[w[s].pid].st # "free"
  /\ \A s, t \in S : w[s].pid = w[t].pid /\ w[s].pid # NoPid => s = t

\* A child of the master that holds a connection is the worker of the id it was
\* dispatched by.
SessOK(w, pr, cn) ==
  \A c \in Conn : cn[c].pid # NoPid /\ pr[cn[c].pid].child
                    => w[cn[c].peek % numWorker].pid = cn[c].pid

-----------------------------------------------------------------------------
(* Numbers and sets *)

\* The process id that fork takes.
LEMMA MinIn ==
  ASSUME NEW T, T \subseteq Nat, T # {}
  PROVE  Min(T) \in T
<1> DEFINE R == {ss \in Nat \X Nat : ss[1] < ss[2]}
<1>1. IsWellFoundedOn(R, Nat)
  BY NatLessThanWellFounded DEF OpToRel
<1>2. PICK m \in T : \A k \in T : ~ (<<k, m>> \in R)
  BY <1>1, WFMin
<1>3. \A k \in T : ~(k < m)
  BY <1>2
<1>4. \A k \in T : m <= k
  BY <1>3
<1>5. QED
  BY <1>4 DEF Min

\* The slot of a session.
LEMMA SlotOf ==
  /\ \A n \in 0..UInt32 - 1 : (n % numWorker) \in Slot
  /\ \A n \in Ids : (n % numWorker) \in Slot
<1>1. numWorker \in Nat \ {0} /\ UInt32 \in Nat \ {0}
  BY DispatcherAssumption
<1>2. \A n \in Int : (n % numWorker) \in 0..numWorker - 1
  BY <1>1
<1>3. \A n \in Ids : n \in Int
  BY <1>1 DEF Ids, NoSession
<1>4. \A n \in 0..UInt32 - 1 : n \in Int
  BY <1>1
<1>5. QED
  BY <1>2, <1>3, <1>4 DEF Slot

\* Process ids are numbers, and NoPid is none.
LEMMA PidIs == Pid \subseteq Nat /\ NoPid \notin Pid /\ IsFiniteSet(Pid)
<1>1. MaxPid \in Nat
  BY DispatcherAssumption
<1>2. IsFiniteSet(1..MaxPid)
  BY <1>1, FS_Interval
<1>3. QED
  BY <1>1, <1>2 DEF Pid, NoPid

-----------------------------------------------------------------------------
(* The death and the birth of a process *)

\* A process that does not live has an empty channel.
LEMMA DeadQueue ==
  ASSUME NEW pr \in Procs, NEW cn \in Conns, HoldsOK(pr, cn), NEW p \in Pid,
         pr[p].st \notin {"init", "run"}
  PROVE  pr[p].queue = <<>> /\ \A c \in Conn : cn[c].pid # p
<1>1. \A c \in Conn : cn[c].pid # p
  BY PidIs DEF HoldsOK
<1>2. PICK q \in Seq(Conn) : q = pr[p].queue
  BY DEF Procs
<1>3. ASSUME NEW i \in DOMAIN q
      PROVE  FALSE
  <2>1. q[i] \in Conn /\ cn[q[i]].pid = p
    BY <1>2 DEF HoldsOK, QueueOK
  <2>2. QED
    BY <1>1, <2>1
<1>4. q = <<>>
  <2>1. CASE q # <<>>
    <3>1. 1 \in DOMAIN q
      BY <2>1
    <3>2. QED
      BY <1>3, <3>1
  <2>2. QED
    BY <2>1
<1>5. QED
  BY <1>1, <1>2, <1>4

\* Process p ends: its channel is gone, and what it held is closed, with other
\* connections that nobody held.
Ended(pr, cn, p, cs, pr2, cn2) ==
  /\ \A r \in Pid : r # p => pr2[r] = pr[r]
  /\ pr2[p].queue = <<>> /\ pr2[p].st \notin {"init", "run"}
  /\ \A c \in cs : cn[c].pid = NoPid
  /\ \A c \in Conn : cn2[c] = IF c \in cs \/ cn[c].pid = p THEN Away ELSE cn[c]

\* What ends leaves no connection behind.
LEMMA EndedHolds ==
  ASSUME NEW pr \in Procs, NEW cn \in Conns, HoldsOK(pr, cn), NEW p \in Pid, NEW cs,
         NEW pr2 \in Procs, NEW cn2 \in Conns, Ended(pr, cn, p, cs, pr2, cn2)
  PROVE  HoldsOK(pr2, cn2) /\ \A c \in Conn : cn2[c].pid # p
<1>1. Away.at = "away" /\ Away.pid = NoPid /\ Away.peek = NoSession /\ NoPid # p
  BY PidIs DEF Away
<1>2. \A c \in Conn : \/ cn2[c] = Away /\ (cn[c].pid = NoPid \/ cn[c].pid = p)
                      \/ cn2[c] = cn[c] /\ cn[c].pid # p
  BY DEF Ended
<1>3. \A c \in Conn : cn2[c].pid # p
  BY <1>1, <1>2
<1>4. \A c \in Conn : (cn2[c].at \in {"channel", "worker"}) <=> (cn2[c].pid # NoPid)
  BY <1>1, <1>2 DEF HoldsOK
<1>5. \A c \in Conn : cn2[c].pid # NoPid => pr2[cn2[c].pid].st \in {"init", "run"}
  <2>1. SUFFICES ASSUME NEW c \in Conn, cn2[c].pid # NoPid
                 PROVE  pr2[cn2[c].pid].st \in {"init", "run"}
    OBVIOUS
  <2>2. cn2[c] = cn[c] /\ cn[c].pid # p
    BY <1>1, <1>2, <2>1
  <2>3. cn[c].pid \in Pid
    BY <2>1, <2>2 DEF Conns
  <2>4. pr2[cn[c].pid] = pr[cn[c].pid]
    BY <2>2, <2>3 DEF Ended
  <2>5. QED
    BY <2>1, <2>2, <2>4 DEF HoldsOK
<1>6. ASSUME NEW r \in Pid
      PROVE  QueueOK(r, pr2[r].queue, cn2)
  <2>1. CASE r = p
    <3>1. pr2[r].queue = <<>>
      BY <2>1 DEF Ended
    <3>2. ChannelSize >= 0
      BY DispatcherAssumption
    <3>3. QueueOK(r, <<>>, cn2)
      BY <1>3, <2>1, <3>2 DEF QueueOK
    <3>4. QED
      BY <3>1, <3>3
  <2>2. CASE r # p
    <3>1. PICK q \in Seq(Conn) : q = pr[r].queue /\ q = pr2[r].queue
      BY <2>2 DEF Procs, Ended
    <3>2. QueueOK(r, q, cn)
      BY <3>1 DEF HoldsOK
    <3>3. \A c \in Conn : cn2[c].pid = r <=> cn[c].pid = r
      BY <1>1, <1>2, <2>2, PidIs
    <3>4. \A c \in Conn : cn[c].pid = r => cn2[c] = cn[c]
      BY <1>2, <2>2, PidIs
    <3>5. \A i \in DOMAIN q : q[i] \in Conn
      OBVIOUS
    <3>6. QueueOK(r, q, cn2)
      BY <3>2, <3>3, <3>4, <3>5 DEF QueueOK
    <3>7. QED
      BY <3>1, <3>6
  <2>3. QED
    BY <2>1, <2>2
<1>7. QED
  BY <1>3, <1>4, <1>5, <1>6 DEF HoldsOK

\* The worker of a slot ends: the other slots have their workers still, and no session
\* has moved.
LEMMA EndedSlots ==
  ASSUME NEW pr \in Procs, NEW cn \in Conns, HoldsOK(pr, cn),
         NEW w \in Workers, SlotsOK(w, pr, Slot), SessOK(w, pr, cn),
         NEW s \in Slot, w[s].pid # NoPid, NEW cs,
         NEW pr2 \in Procs, NEW cn2 \in Conns, Ended(pr, cn, w[s].pid, cs, pr2, cn2)
  PROVE  SlotsOK(w, pr2, Slot \ {s}) /\ SessOK(w, pr2, cn2)
<1>1. PICK p \in Pid : p = w[s].pid
  BY DEF Workers
<1>2. Away.pid = NoPid
  BY DEF Away
<1>3. \A r \in Pid : r # p => pr2[r] = pr[r]
  BY <1>1 DEF Ended
<1>4. \A t \in Slot \ {s} : w[t].pid # p /\ (w[t].pid # NoPid => w[t].pid \in Pid)
  BY <1>1, PidIs DEF SlotsOK, Workers
<1>5. SlotsOK(w, pr2, Slot \ {s})
  BY <1>3, <1>4 DEF SlotsOK
<1>6. \A c \in Conn : cn2[c].pid # NoPid => cn2[c] = cn[c] /\ cn[c].pid # p /\ cn[c].pid \in Pid
  BY <1>1, <1>2 DEF Ended, Conns
<1>7. SessOK(w, pr2, cn2)
  BY <1>3, <1>6 DEF SessOK
<1>8. QED
  BY <1>5, <1>7

\* start, on processes and workers: a process is forked, or not.
Begun(w, pr, s, w2, pr2) ==
  \/ \E r \in Pid : /\ pr[r].st = "free"
                    /\ pr2 = [pr EXCEPT ![r] = [st |-> "init", queue |-> <<>>, child |-> TRUE]]
                    /\ w2 = [w EXCEPT ![s] = [status |-> "OK", pid |-> r]]
  \/ /\ pr2 = pr
     /\ \E status \in {"Init", "Unknown"} : w2 = [w EXCEPT ![s] = [status |-> status, pid |-> NoPid]]

\* The action does that, and takes a failure from the budget.
LEMMA StartIs ==
  ASSUME NEW s \in Slot, NEW pr \in Procs, NEW left \in Budgets, NEW w, w = worker,
         Start(s, pr, left)
  PROVE  Begun(w, pr, s, worker', proc') /\ budget' \in Budgets
<1>1. CASE \E r \in Pid : /\ pr[r].st = "free" /\ budget' = left
                          /\ proc' = [pr EXCEPT ![r] = [st |-> "init", queue |-> <<>>, child |-> TRUE]]
                          /\ worker' = [worker EXCEPT ![s] = [status |-> "OK", pid |-> r]]
  BY <1>1 DEF Begun
<1>2. CASE /\ left.fault > 0
           /\ budget' = [left EXCEPT !.fault = @ - 1]
           /\ \E status \in {"Init", "Unknown"} :
                worker' = [worker EXCEPT ![s] = [status |-> status, pid |-> NoPid]]
           /\ proc' = pr
  <2>1. left.fault - 1 \in Nat
    BY <1>2 DEF Budgets
  <2>2. budget' \in Budgets
    BY <1>2, <2>1 DEF Budgets
  <2>3. QED
    BY <1>2, <2>2 DEF Begun
<1>3. QED
  <2> DEFINE free == {p \in Pid : pr[p].st = "free"}
  <2>1. free # {} => Min(free) \in free
    <3>1. free \subseteq Nat
      BY PidIs
    <3> HIDE DEF free
    <3>2. QED
      BY <3>1, MinIn
  <2>2. CASE /\ free # {}
             /\ proc' = [pr EXCEPT ![Min(free)] = [st |-> "init", queue |-> <<>>, child |-> TRUE]]
             /\ worker' = [worker EXCEPT ![s] = [status |-> "OK", pid |-> Min(free)]]
             /\ budget' = left
    <3>1. PICK r \in Pid : r = Min(free) /\ pr[r].st = "free"
      BY <2>1, <2>2
    <3> HIDE DEF free
    <3>2. QED
      BY <1>1, <2>2, <3>1
  <2>3. QED
    BY <1>2, <2>2 DEF Start

\* A slot whose process holds nothing gets another: all is well again.
LEMMA BegunKeeps ==
  ASSUME NEW pr \in Procs, NEW cn \in Conns, HoldsOK(pr, cn),
         NEW w \in Workers, NEW s \in Slot, SlotsOK(w, pr, Slot \ {s}), SessOK(w, pr, cn),
         \A c \in Conn : cn[c].pid # NoPid => cn[c].pid # w[s].pid,
         NEW w2, NEW pr2, Begun(w, pr, s, w2, pr2)
  PROVE  /\ pr2 \in Procs /\ w2 \in Workers /\ HoldsOK(pr2, cn)
         /\ SlotsOK(w2, pr2, Slot) /\ SessOK(w2, pr2, cn)
         /\ \A p \in Pid : pr2[p].st = "zombie" <=> pr[p].st = "zombie"
         /\ \A t \in Slot : t # s => w2[t] = w[t]
<1>1. CASE \E r \in Pid : /\ pr[r].st = "free"
                          /\ pr2 = [pr EXCEPT ![r] = [st |-> "init", queue |-> <<>>, child |-> TRUE]]
                          /\ w2 = [w EXCEPT ![s] = [status |-> "OK", pid |-> r]]
  <2>1. PICK r \in Pid : /\ pr[r].st = "free"
                         /\ pr2 = [pr EXCEPT ![r] = [st |-> "init", queue |-> <<>>, child |-> TRUE]]
                         /\ w2 = [w EXCEPT ![s] = [status |-> "OK", pid |-> r]]
    BY <1>1
  <2>2. /\ pr2[r].st = "init" /\ pr2[r].queue = <<>> /\ pr2[r].child
        /\ \A p \in Pid : p # r => pr2[p] = pr[p]
    BY <2>1 DEF Procs
  <2>3. /\ w2[s].status = "OK" /\ w2[s].pid = r
        /\ \A t \in Slot : t # s => w2[t] = w[t]
    BY <2>1 DEF Workers
  <2>4. pr2 \in Procs
    <3>1. [st |-> "init", queue |-> <<>>, child |-> TRUE] \in
            [st : {"free", "init", "run", "zombie"}, queue : Seq(Conn), child : BOOLEAN]
      OBVIOUS
    <3>2. QED
      BY <2>1, <3>1 DEF Procs
  <2>5. w2 \in Workers
    BY <2>1 DEF Workers
  <2>6. pr[r].queue = <<>> /\ \A c \in Conn : cn[c].pid # r
    BY <2>1, DeadQueue
  <2>7. \A c \in Conn : cn[c].pid # NoPid => cn[c].pid \in Pid /\ pr2[cn[c].pid] = pr[cn[c].pid]
    BY <2>2, <2>6 DEF Conns
  <2>8. HoldsOK(pr2, cn)
    <3>1. \A p \in Pid : pr2[p].queue = pr[p].queue
      BY <2>2, <2>6
    <3>2. QED
      BY <2>7, <3>1 DEF HoldsOK
  <2>9. SlotsOK(w2, pr2, Slot)
    <3>1. \A t \in Slot \ {s} : w[t].pid # r /\ (w[t].pid # NoPid => w[t].pid \in Pid)
      BY <2>1, PidIs DEF SlotsOK, Workers
    <3>2. \A t \in Slot : (w2[t].status = "OK") <=> (w2[t].pid # NoPid)
      BY <2>3, PidIs DEF SlotsOK
    <3>3. \A t \in Slot : w2[t].pid # NoPid => pr2[w2[t].pid].child /\ pr2[w2[t].pid].st # "free"
      BY <2>2, <2>3, <3>1 DEF SlotsOK
    <3>4. \A t, u \in Slot : w2[t].pid = w2[u].pid /\ w2[t].pid # NoPid => t = u
      BY <2>3, <3>1 DEF SlotsOK
    <3>5. QED
      BY <3>2, <3>3, <3>4 DEF SlotsOK
  <2>10. SessOK(w2, pr2, cn)
    <3>1. \A c \in Conn : cn[c].peek % numWorker \in Slot
      BY SlotOf DEF Conns
    <3>2. ASSUME NEW c \in Conn, cn[c].pid # NoPid, pr2[cn[c].pid].child
          PROVE  w2[cn[c].peek % numWorker].pid = cn[c].pid
      <4>1. PICK t \in Slot : t = cn[c].peek % numWorker
        BY <3>1
      <4>2. w[t].pid = cn[c].pid /\ cn[c].pid # w[s].pid
        BY <2>7, <3>2, <4>1 DEF SessOK
      <4>3. w2[t] = w[t]
        BY <2>3, <4>2
      <4>4. QED
        BY <4>1, <4>2, <4>3
    <3>3. QED
      BY <3>2 DEF SessOK
  <2>11. \A p \in Pid : pr2[p].st = "zombie" <=> pr[p].st = "zombie"
    BY <2>1, <2>2
  <2>12. QED
    BY <2>3, <2>4, <2>5, <2>8, <2>9, <2>10, <2>11
<1>2. CASE /\ pr2 = pr
           /\ \E status \in {"Init", "Unknown"} :
                w2 = [w EXCEPT ![s] = [status |-> status, pid |-> NoPid]]
  <2>1. /\ w2 \in Workers /\ w2[s].status # "OK" /\ w2[s].pid = NoPid
        /\ \A t \in Slot : t # s => w2[t] = w[t]
    BY <1>2 DEF Workers
  <2>2. SlotsOK(w2, pr2, Slot)
    BY <1>2, <2>1 DEF SlotsOK
  <2>3. SessOK(w2, pr2, cn)
    BY <1>2, <2>1, SlotOf DEF SessOK
  <2>4. QED
    BY <1>2, <2>1, <2>2, <2>3
<1>3. QED
  BY <1>1, <1>2 DEF Begun

-----------------------------------------------------------------------------
(* Connections on their way *)

\* Connections that are in no channel are changed or closed, and none is given away.
LetGo(cn, cn2) ==
  \A c \in Conn : \/ cn2[c] = cn[c]
                  \/ /\ cn[c].at # "channel"
                     /\ cn2[c].pid = NoPid /\ cn2[c].at \notin {"channel", "worker"}

\* What happens before a connection is passed on, or when it is closed.
LEMMA LetGoKeeps ==
  ASSUME NEW pr \in Procs, NEW w, NEW cn \in Conns, NEW cn2 \in Conns, HoldsOK(pr, cn),
         SessOK(w, pr, cn), LetGo(cn, cn2)
  PROVE  HoldsOK(pr, cn2) /\ SessOK(w, pr, cn2)
<1>1. \A c \in Conn : cn2[c].pid # NoPid => cn2[c] = cn[c]
  BY DEF LetGo
<1>2. \A c \in Conn : cn[c].at = "channel" => cn2[c] = cn[c]
  BY DEF LetGo
<1>3. \A c \in Conn : cn2[c].at \in {"channel", "worker"} => cn2[c] = cn[c]
  BY DEF LetGo
<1>4. \A c \in Conn : (cn2[c].at \in {"channel", "worker"}) <=> (cn2[c].pid # NoPid)
  BY <1>1, <1>3 DEF HoldsOK
<1>5. \A c \in Conn : cn2[c].pid # NoPid => pr[cn2[c].pid].st \in {"init", "run"}
  BY <1>1 DEF HoldsOK
<1>6. ASSUME NEW p \in Pid
      PROVE  QueueOK(p, pr[p].queue, cn2)
  <2>1. PICK q \in Seq(Conn) : q = pr[p].queue
    BY DEF Procs
  <2>2. QueueOK(p, q, cn)
    BY <2>1 DEF HoldsOK
  <2>3. \A i \in DOMAIN q : q[i] \in Conn => cn2[q[i]] = cn[q[i]]
    BY <1>2, <2>2 DEF QueueOK
  <2>4. \A i \in DOMAIN q : q[i] \in Conn
    OBVIOUS
  <2>5. \A c \in Conn : cn2[c].at = "channel" => cn2[c] = cn[c]
    BY <1>3
  <2>6. QueueOK(p, q, cn2)
    BY <2>2, <2>3, <2>4, <2>5 DEF QueueOK
  <2>7. QED
    BY <2>1, <2>6
<1>7. SessOK(w, pr, cn2)
  BY <1>1 DEF SessOK
<1>8. QED
  BY <1>4, <1>5, <1>6, <1>7 DEF HoldsOK

\* Processes change otherwise than by their end and their channels.
Carries(pr, pr2) ==
  \A p \in Pid : /\ pr2[p].queue = pr[p].queue
                 /\ pr[p].st \in {"init", "run"} => pr2[p].st \in {"init", "run"}
                 /\ pr2[p].child => pr[p].child

\* The initialisation of a worker, or the loss of its master.
LEMMA CarriesKeeps ==
  ASSUME NEW pr, NEW pr2, NEW w, NEW cn \in Conns, HoldsOK(pr, cn), SessOK(w, pr, cn),
         Carries(pr, pr2)
  PROVE  HoldsOK(pr2, cn) /\ SessOK(w, pr2, cn)
<1>1. \A c \in Conn : cn[c].pid # NoPid => cn[c].pid \in Pid
  BY DEF Conns
<1>2. HoldsOK(pr2, cn)
  BY <1>1 DEF HoldsOK, Carries
<1>3. SessOK(w, pr2, cn)
  BY <1>1 DEF SessOK, Carries
<1>4. QED
  BY <1>2, <1>3

\* A descriptor at the end of a channel, and the first one taken out.
Queued(q, c, q2) ==
  /\ q2 \in Seq(Conn) /\ Len(q2) = Len(q) + 1
  /\ q2[Len(q) + 1] = c /\ \A i \in 1..Len(q) : q2[i] = q[i]
Dequeued(q, q2) ==
  /\ q2 \in Seq(Conn) /\ Len(q2) = Len(q) - 1 /\ Len(q) >= 1
  /\ \A i \in 1..Len(q) - 1 : q2[i] = q[i + 1]

\* A process gets another channel.
Requeued(pr, p, pr2) ==
  /\ pr2[p].st = pr[p].st /\ pr2[p].child = pr[p].child
  /\ \A r \in Pid : r # p => pr2[r] = pr[r]

\* sendFd: a connection that nobody holds goes to a live process with room in its channel.
LEMMA SentKeeps ==
  ASSUME NEW pr \in Procs, NEW cn \in Conns, NEW w \in Workers,
         HoldsOK(pr, cn), SlotsOK(w, pr, Slot), SessOK(w, pr, cn),
         NEW c \in Conn, cn[c].pid = NoPid, NEW p \in Pid, pr[p].st \in {"init", "run"},
         Len(pr[p].queue) < ChannelSize,
         w[cn[c].peek % numWorker].pid = p,
         NEW pr2 \in Procs, NEW cn2 \in Conns, Requeued(pr, p, pr2),
         Queued(pr[p].queue, c, pr2[p].queue),
         cn2[c].at = "channel", cn2[c].pid = p, cn2[c].peek = cn[c].peek,
         \A d \in Conn : d # c => cn2[d] = cn[d]
  PROVE  HoldsOK(pr2, cn2) /\ SlotsOK(w, pr2, Slot) /\ SessOK(w, pr2, cn2)
<1>1. \A r \in Pid : pr2[r].st = pr[r].st /\ pr2[r].child = pr[r].child
  BY DEF Requeued
<1>2. \A s \in Slot : w[s].pid # NoPid => w[s].pid \in Pid
  BY DEF Workers
<1>3. SlotsOK(w, pr2, Slot)
  BY <1>1, <1>2 DEF SlotsOK
<1>4. \A d \in Conn : cn[d].pid # NoPid => cn[d].pid \in Pid
  BY DEF Conns
<1>5. SessOK(w, pr2, cn2)
  BY <1>1, <1>4 DEF SessOK
<1>6. \A d \in Conn : (cn2[d].at \in {"channel", "worker"}) <=> (cn2[d].pid # NoPid)
  BY PidIs DEF HoldsOK
<1>7. \A d \in Conn : cn2[d].pid # NoPid => pr2[cn2[d].pid].st \in {"init", "run"}
  BY <1>1, <1>4 DEF HoldsOK
<1>8. ASSUME NEW r \in Pid
      PROVE  QueueOK(r, pr2[r].queue, cn2)
  <2>0. PICK q \in Seq(Conn), q2 \in Seq(Conn) : q = pr[r].queue /\ q2 = pr2[r].queue
    BY DEF Procs
  <2>1. QueueOK(r, q, cn) /\ NoPid # r
    BY <2>0, PidIs DEF HoldsOK
  <2>2. \A i \in DOMAIN q : q[i] \in Conn /\ q[i] # c /\ cn2[q[i]] = cn[q[i]]
    BY <2>1 DEF QueueOK
  <2>3. CASE r # p
    <3>1. q2 = q
      BY <2>0, <2>3 DEF Requeued
    <3>2. QueueOK(r, q, cn2)
      BY <2>1, <2>2, <2>3 DEF QueueOK
    <3>3. QED
      BY <2>0, <3>1, <3>2
  <2>4. CASE r = p
    <3>1. Queued(q, c, q2) /\ Len(q) < ChannelSize /\ ChannelSize \in Nat
      BY <2>0, <2>4, DispatcherAssumption
    <3>2. DOMAIN q = 1..Len(q) /\ DOMAIN q2 = 1..Len(q) + 1 /\ Len(q) \in Nat
      BY <3>1 DEF Queued
    <3>3. Len(q2) <= ChannelSize
      BY <3>1, <3>2 DEF Queued
    <3>4. \A i \in DOMAIN q2 : (i = Len(q) + 1 /\ q2[i] = c) \/ (i \in DOMAIN q /\ q2[i] = q[i])
      BY <3>1, <3>2 DEF Queued
    <3>5. \A i, j \in DOMAIN q2 : q2[i] = q2[j] => i = j
      BY <2>1, <2>2, <3>4 DEF QueueOK
    <3>6. \A i \in DOMAIN q2 : cn2[q2[i]].pid = r /\ cn2[q2[i]].at = "channel"
      BY <2>1, <2>2, <2>4, <3>4 DEF QueueOK
    <3>7. ASSUME NEW d \in Conn, cn2[d].pid = r, cn2[d].at = "channel"
          PROVE  \E i \in DOMAIN q2 : q2[i] = d
      <4>1. CASE d = c
        <5>1. Len(q) + 1 \in DOMAIN q2 /\ q2[Len(q) + 1] = c
          BY <3>1, <3>2 DEF Queued
        <5>2. QED
          BY <4>1, <5>1
      <4>2. CASE d # c
        <5>1. PICK i \in DOMAIN q : q[i] = d
          BY <2>1, <3>7, <4>2 DEF QueueOK
        <5>2. i \in DOMAIN q2 /\ q2[i] = q[i]
          BY <3>1, <3>2 DEF Queued
        <5>3. QED
          BY <5>1, <5>2
      <4>3. QED
        BY <4>1, <4>2
    <3>8. QED
      BY <2>0, <3>3, <3>5, <3>6, <3>7 DEF QueueOK
  <2>5. QED
    BY <2>3, <2>4
<1>9. QED
  BY <1>3, <1>5, <1>6, <1>7, <1>8 DEF HoldsOK

\* onRecvFd: the first connection of the channel is one of the worker.
LEMMA ReceivedKeeps ==
  ASSUME NEW pr \in Procs, NEW cn \in Conns, NEW w \in Workers,
         HoldsOK(pr, cn), SlotsOK(w, pr, Slot), SessOK(w, pr, cn),
         NEW p \in Pid, NEW c \in Conn, pr[p].queue # <<>>, c = pr[p].queue[1],
         NEW pr2 \in Procs, NEW cn2 \in Conns, Requeued(pr, p, pr2),
         Dequeued(pr[p].queue, pr2[p].queue),
         cn2[c].at = "worker", cn2[c].pid = cn[c].pid, cn2[c].peek = cn[c].peek,
         \A d \in Conn : d # c => cn2[d] = cn[d]
  PROVE  HoldsOK(pr2, cn2) /\ SlotsOK(w, pr2, Slot) /\ SessOK(w, pr2, cn2)
<1>0. cn[c].pid = p /\ cn[c].at = "channel" /\ NoPid # p
  <2>1. PICK q \in Seq(Conn) : q = pr[p].queue
    BY DEF Procs
  <2>2. QueueOK(p, q, cn) /\ 1 \in DOMAIN q /\ c = q[1]
    BY <2>1 DEF HoldsOK
  <2>3. QED
    BY <2>2, PidIs DEF QueueOK
<1>1. \A r \in Pid : pr2[r].st = pr[r].st /\ pr2[r].child = pr[r].child
  BY DEF Requeued
<1>2. \A s \in Slot : w[s].pid # NoPid => w[s].pid \in Pid
  BY DEF Workers
<1>3. SlotsOK(w, pr2, Slot)
  BY <1>1, <1>2 DEF SlotsOK
<1>4. \A d \in Conn : cn[d].pid # NoPid => cn[d].pid \in Pid
  BY DEF Conns
<1>5. SessOK(w, pr2, cn2)
  BY <1>1, <1>4 DEF SessOK
<1>6. \A d \in Conn : (cn2[d].at \in {"channel", "worker"}) <=> (cn2[d].pid # NoPid)
  BY <1>0 DEF HoldsOK
<1>7. \A d \in Conn : cn2[d].pid # NoPid => pr2[cn2[d].pid].st \in {"init", "run"}
  BY <1>1, <1>4 DEF HoldsOK
<1>8. ASSUME NEW r \in Pid
      PROVE  QueueOK(r, pr2[r].queue, cn2)
  <2>0. PICK q \in Seq(Conn), q2 \in Seq(Conn) : q = pr[r].queue /\ q2 = pr2[r].queue
    BY DEF Procs
  <2>1. QueueOK(r, q, cn)
    BY <2>0 DEF HoldsOK
  <2>2. CASE r # p
    <3>1. q2 = q
      BY <2>0, <2>2 DEF Requeued
    <3>2. \A i \in DOMAIN q : q[i] \in Conn /\ q[i] # c /\ cn2[q[i]] = cn[q[i]]
      BY <1>0, <2>1, <2>2 DEF QueueOK
    <3>3. QueueOK(r, q, cn2)
      BY <1>0, <2>1, <2>2, <3>2 DEF QueueOK
    <3>4. QED
      BY <2>0, <3>1, <3>3
  <2>3. CASE r = p
    <3>1. Dequeued(q, q2) /\ Len(q) <= ChannelSize /\ ChannelSize \in Nat /\ q[1] = c
      BY <2>0, <2>1, <2>3, DispatcherAssumption DEF QueueOK
    <3>2. DOMAIN q = 1..Len(q) /\ DOMAIN q2 = 1..Len(q) - 1 /\ Len(q) \in Nat /\ 1 \in DOMAIN q
      BY <3>1 DEF Dequeued
    <3>3. Len(q2) <= ChannelSize
      BY <3>1, <3>2 DEF Dequeued
    <3>4. \A i \in DOMAIN q2 : i + 1 \in DOMAIN q /\ i + 1 # 1 /\ q2[i] = q[i + 1]
      BY <3>1, <3>2 DEF Dequeued
    <3>5. ASSUME NEW i \in DOMAIN q2, NEW j \in DOMAIN q2, q2[i] = q2[j]
          PROVE  i = j
      <4>1. i + 1 = j + 1
        BY <2>1, <3>4, <3>5 DEF QueueOK
      <4>2. i \in Int /\ j \in Int
        BY <3>2
      <4>3. QED
        BY <4>1, <4>2
    <3>6. ASSUME NEW i \in DOMAIN q2 PROVE q2[i] \in Conn /\ q2[i] # c
      <4>1. PICK k \in DOMAIN q : k = i + 1 /\ k # 1 /\ q2[i] = q[k]
        BY <3>4
      <4>2. q[k] \in Conn
        BY <2>1 DEF QueueOK
      <4>3. 1 \in DOMAIN q /\ q[1] = c
        BY <3>1, <3>2
      <4>4. q[k] # c
        BY <2>1, <4>1, <4>3 DEF QueueOK
      <4>5. QED
        BY <4>1, <4>2, <4>4
    <3>7. \A i \in DOMAIN q2 : cn2[q2[i]].pid = r /\ cn2[q2[i]].at = "channel"
      BY <2>1, <3>4, <3>6 DEF QueueOK
    <3>8. ASSUME NEW d \in Conn, cn2[d].pid = r, cn2[d].at = "channel"
          PROVE  \E i \in DOMAIN q2 : q2[i] = d
      <4>1. d # c
        BY <3>8
      <4>2. PICK i \in DOMAIN q : q[i] = d
        BY <2>1, <3>8, <4>1 DEF QueueOK
      <4>3. i # 1
        BY <3>1, <4>1, <4>2
      <4>4. i - 1 \in DOMAIN q2 /\ q2[i - 1] = q[i]
        BY <3>1, <3>2, <4>3 DEF Dequeued
      <4>5. QED
        BY <4>2, <4>4
    <3>9. QED
      BY <2>0, <3>3, <3>5, <3>7, <3>8 DEF QueueOK
  <2>4. QED
    BY <2>2, <2>3
<1>9. QED
  BY <1>3, <1>5, <1>6, <1>7, <1>8 DEF HoldsOK

-----------------------------------------------------------------------------
(* The invariant *)

\* Without workers started, there is no child of the master; the signals are blocked while
\* the loop runs; and a signal that is being handled is one of at least one.
BootOK ==
  /\ master.pc \in {"none", "bind", "deaf"} =>
       master.next = 0 /\ \A p \in Pid : ~proc[p].child /\ proc[p].st # "zombie"
  /\ master.pc \in {"none", "bind", "deaf", "start"} =>
       \A s \in Slot : s >= master.next => worker[s].pid = NoPid
  /\ master.masked <=> master.pc \in {"loop", "send", "emit"}
  /\ master.pc = "emit" => master.emits >= 1

\* The connection that the master is about to send, and the slot it goes to.
TargetOK ==
  master.pc = "send" =>
    \E c \in Conn, s \in Slot :
      /\ master.target = <<c, s>> /\ conn[c].at = "master" /\ worker[s].status = "OK"
      /\ s = conn[c].peek % numWorker

\* The zombies, and those reaped since onEmit was called, died; and while nothing is
\* overlooked and no SIGCHLD is pending, there are none.
ReapOK ==
  /\ Cardinality(Zombies) + (IF master.pc = "emit" THEN ReapLoop - master.loop ELSE 0) <= deaths
  /\ ~early /\ deaths <= ReapLoop /\ master.pc # "emit" /\ "CHLD" \notin master.sig => Zombies = {}

DispInv ==
  /\ Types
  /\ HoldsOK(proc, conn) /\ SlotsOK(worker, proc, Slot) /\ SessOK(worker, proc, conn)
  /\ BootOK /\ TargetOK /\ ReapOK

\* The zombies are finitely many.
LEMMA ZombiesFinite == IsFiniteSet(Zombies) /\ Cardinality(Zombies) \in Nat
<1>1. Zombies \in SUBSET Pid
  BY DEF Zombies
<1>2. PICK z \in SUBSET Pid : z = Zombies
  BY <1>1
<1>3. IsFiniteSet(z) /\ Cardinality(z) \in Nat
  BY PidIs, FS_Subset, FS_CardinalityType
<1>4. QED
  BY <1>2, <1>3

\* A step after which there are the same zombies, and no fewer signals.
LEMMA ReapSame ==
  ASSUME Types, ReapOK, \A p \in Pid : proc'[p].st = "zombie" <=> proc[p].st = "zombie",
         deaths' = deaths, early' = early,
         master.sig \subseteq master'.sig,
         master'.pc = "emit" <=> master.pc = "emit",
         master'.loop = master.loop
  PROVE  ReapOK'
<1>1. Zombies' = Zombies
  BY DEF Zombies
<1>2. QED
  BY <1>1 DEF ReapOK

\* The connections after some are closed.
LEMMA ClosedIs ==
  ASSUME conn \in Conns, NEW cs
  PROVE  /\ Closed(cs) \in Conns /\ Away.at = "away" /\ Away.pid = NoPid /\ Away.peek = NoSession
         /\ \A c \in Conn : Closed(cs)[c] = IF c \in cs THEN Away ELSE conn[c]
<1>1. Away \in [at : {"away", "backlog", "master", "channel", "worker"},
                pid : Pid \union {NoPid}, data : {"none", "part", "all"}, eof : BOOLEAN,
                peek : Ids]
  BY DEF Away, Ids
<1>2. \A c \in Conn : conn[c] \in [at : {"away", "backlog", "master", "channel", "worker"},
                pid : Pid \union {NoPid}, data : {"none", "part", "all"}, eof : BOOLEAN,
                peek : Ids]
  BY DEF Conns
<1>3. Away.at = "away" /\ Away.pid = NoPid /\ Away.peek = NoSession
  BY DEF Away
<1> HIDE DEF Away
<1>4. QED
  BY <1>1, <1>2, <1>3 DEF Closed, Conns

-----------------------------------------------------------------------------
(* The steps of daemon and master *)

\* A step of the clients or the master that lets go of connections only.
LEMMA LetGoStep ==
  ASSUME DispInv, UNCHANGED <<daemon, worker, proc, budget, deaths, early>>,
         conn' \in Conns, LetGo(conn, conn'), master' \in Masters, TargetOK',
         master.sig = master'.sig, master.masked = master'.masked,
         master.emits = master'.emits, master.next = master'.next, master.loop = master'.loop,
         \/ master'.pc = master.pc
         \/ master.pc \in {"loop", "send"} /\ master'.pc \in {"loop", "send"}
  PROVE  DispInv'
<1>1. PICK pr \in Procs, w \in Workers, cn \in Conns, cn2 \in Conns :
        pr = proc /\ w = worker /\ cn = conn /\ cn2 = conn'
  BY DEF DispInv, Types
<1>2. HoldsOK(pr, cn) /\ SessOK(w, pr, cn) /\ LetGo(cn, cn2)
  BY <1>1 DEF DispInv
<1>3. HoldsOK(pr, cn2) /\ SessOK(w, pr, cn2)
  BY <1>2, LetGoKeeps
<1>4. HoldsOK(proc, conn)' /\ SessOK(worker, proc, conn)' /\ SlotsOK(worker, proc, Slot)'
  BY <1>1, <1>3 DEF DispInv
<1>5. Types'
  BY DEF DispInv, Types
<1>6. BootOK'
  BY DEF DispInv, BootOK
<1>7. ReapOK'
  BY ReapSame DEF DispInv
<1>8. QED
  BY <1>4, <1>5, <1>6, <1>7 DEF DispInv

\* TcpAcceptor::doEvent.
LEMMA OnAcceptKeeps ==
  ASSUME DispInv, OnAccept
  PROVE  DispInv'
<1>1. Types /\ TargetOK /\ master.pc = "loop" /\ UNCHANGED <<daemon, master, worker, proc, budget, deaths, early>>
  BY DEF OnAccept, DispInv
<1>2. \A c \in Conn : \/ conn'[c] = conn[c]
                      \/ conn[c].at = "backlog" /\ conn'[c] = [conn[c] EXCEPT !.at = "master"]
  BY DEF OnAccept
<1>3. conn' \in Conns
  BY <1>1 DEF OnAccept, Types, Conns
<1>4. LetGo(conn, conn')
  <2>1. \A c \in Conn : conn[c].at = "backlog" => conn[c].pid = NoPid
    BY DEF DispInv, HoldsOK
  <2>2. \A c \in Conn : conn'[c] = [conn[c] EXCEPT !.at = "master"]
                          => conn'[c].at = "master" /\ conn'[c].pid = conn[c].pid
    BY <1>1 DEF Types, Conns
  <2>3. QED
    BY <1>2, <2>1, <2>2 DEF LetGo
<1>5. TargetOK' /\ master' \in Masters
  BY <1>1 DEF TargetOK, Types
<1>6. QED
  BY <1>1, <1>3, <1>4, <1>5, LetGoStep

\* The clients.
LEMMA ClientKeeps ==
  ASSUME DispInv, NEW c \in Conn, Client(c)
  PROVE  DispInv'
<1>1. Types /\ TargetOK /\ UNCHANGED <<daemon, master, worker, proc, budget, deaths, early>>
  BY DEF Client, Connect, Write, HangUp, DispInv
<1>2. conn \in Conns
  BY <1>1 DEF Types
<1>3. conn[c].at \in {"away", "backlog", "master"} => conn[c].pid = NoPid
  BY DEF DispInv, HoldsOK
<1>4. /\ conn' \in Conns /\ \A d \in Conn : d # c => conn'[d] = conn[d]
      /\ conn[c].pid = NoPid /\ conn'[c].pid = NoPid /\ conn[c].at \in {"away", "backlog", "master"}
      /\ \/ conn[c].at = "away" /\ conn'[c].at = "backlog"
         \/ conn'[c].at = conn[c].at /\ conn'[c].peek = conn[c].peek
  <2>1. CASE Connect(c)
    <3>1. conn[c].at = "away" /\ conn' = [conn EXCEPT ![c] = [Away EXCEPT !.at = "backlog"]]
      BY <2>1 DEF Connect
    <3>2. QED
      BY <1>2, <1>3, <3>1 DEF Conns, Away, Ids
  <2>2. CASE Write(c)
    <3>1. /\ conn[c].at \in {"backlog", "master"}
          /\ \E d \in {"part", "all"} : conn' = [conn EXCEPT ![c] = [@ EXCEPT !.data = d]]
      BY <2>2 DEF Write
    <3>2. QED
      BY <1>2, <1>3, <3>1 DEF Conns
  <2>3. CASE HangUp(c)
    <3>1. /\ conn[c].at \in {"backlog", "master"}
          /\ conn' = [conn EXCEPT ![c] = [@ EXCEPT !.eof = TRUE]]
      BY <2>3 DEF HangUp
    <3>2. QED
      BY <1>2, <1>3, <3>1 DEF Conns
  <2>4. QED
    BY <2>1, <2>2, <2>3 DEF Client
<1>5. LetGo(conn, conn')
  BY <1>4 DEF LetGo
<1>6. TargetOK'
  BY <1>1, <1>4 DEF TargetOK
<1>7. master' \in Masters
  BY <1>1 DEF Types
<1>8. QED
  BY <1>1, <1>4, <1>5, <1>6, <1>7, LetGoStep

\* The worker erases a connection.
LEMMA WorkerClosesKeeps ==
  ASSUME DispInv, NEW c \in Conn, WorkerCloses(c)
  PROVE  DispInv'
<1>1. /\ Types /\ TargetOK /\ UNCHANGED <<daemon, master, worker, proc, budget, deaths, early>>
      /\ conn[c].at = "worker" /\ conn' = Closed({c})
  BY DEF WorkerCloses, DispInv
<1>2. conn' \in Conns /\ Away.at = "away" /\ Away.pid = NoPid
      /\ \A d \in Conn : conn'[d] = IF d \in {c} THEN Away ELSE conn[d]
  BY <1>1, ClosedIs DEF Types
<1>3. LetGo(conn, conn')
  BY <1>1, <1>2 DEF LetGo
<1>4. TargetOK'
  BY <1>1, <1>2 DEF TargetOK
<1>5. master' \in Masters
  BY <1>1 DEF Types
<1>6. QED
  BY <1>1, <1>2, <1>3, <1>4, <1>5, LetGoStep

\* dispatch: a slot is chosen, or the connection is closed.
LEMMA DispatchKeeps ==
  ASSUME DispInv, NEW c \in Conn, Dispatch(c)
  PROVE  DispInv'
<1> DEFINE s == PeekUint32(c) % numWorker
<1>1. /\ Types /\ UNCHANGED <<daemon, worker, proc, budget, deaths, early>>
      /\ master.pc = "loop" /\ conn[c].at = "master"
  BY DEF Dispatch, Readable, DispInv
<1>2. conn \in Conns /\ master \in Masters /\ conn[c].pid = NoPid
  BY <1>1 DEF Types, DispInv, HoldsOK
<1>3. s \in Slot /\ PeekUint32(c) \in Ids
  <2>1. PeekUint32(c) \in 0..UInt32 - 1
    BY DispatcherAssumption DEF PeekUint32
  <2>2. QED
    BY <2>1, SlotOf DEF Ids
<1>4. CASE /\ worker[s].status = "OK"
           /\ master' = [master EXCEPT !.pc = "send", !.target = <<c, s>>]
           /\ conn' = [conn EXCEPT ![c] = [@ EXCEPT !.peek = PeekUint32(c)]]
  <2>0. PICK n \in Ids : n = PeekUint32(c) /\ s = n % numWorker
    BY <1>3
  <2> HIDE DEF s
  <2>1. /\ conn' \in Conns /\ conn'[c].at = "master" /\ conn'[c].pid = NoPid
        /\ conn'[c].peek = n /\ \A d \in Conn : d # c => conn'[d] = conn[d]
    BY <1>1, <1>2, <1>4, <2>0 DEF Conns
  <2>2. LetGo(conn, conn')
    BY <1>1, <2>1 DEF LetGo
  <2>3. /\ master' \in Masters /\ master'.pc = "send" /\ master'.target = <<c, s>>
        /\ master.sig = master'.sig /\ master.masked = master'.masked
        /\ master.emits = master'.emits /\ master.next = master'.next /\ master.loop = master'.loop
    BY <1>2, <1>3, <1>4 DEF Masters
  <2>4. TargetOK'
    BY <1>1, <1>3, <1>4, <2>0, <2>1, <2>3 DEF TargetOK
  <2>5. QED
    BY <1>1, <2>1, <2>2, <2>3, <2>4, LetGoStep
<1>5. CASE conn' = Closed({c}) /\ UNCHANGED master
  <2>1. conn' \in Conns /\ Away.at = "away" /\ Away.pid = NoPid
        /\ \A d \in Conn : conn'[d] = IF d \in {c} THEN Away ELSE conn[d]
    BY <1>2, <1>5, ClosedIs
  <2>2. LetGo(conn, conn')
    BY <1>1, <2>1 DEF LetGo
  <2>3. TargetOK' /\ master' \in Masters
    BY <1>1, <1>2, <1>5 DEF TargetOK
  <2>4. QED
    BY <1>1, <1>5, <2>1, <2>2, <2>3, LetGoStep
<1>6. QED
  BY <1>4, <1>5 DEF Dispatch

\* sendFd.
LEMMA SendFdKeeps ==
  ASSUME DispInv, SendFd
  PROVE  DispInv'
<1>1. Types /\ master.pc = "send" /\ UNCHANGED <<daemon, worker, budget, deaths, early>>
  BY DEF SendFd, DispInv
<1>2. PICK c \in Conn, s \in Slot :
        /\ master.target = <<c, s>> /\ conn[c].at = "master" /\ worker[s].status = "OK"
        /\ s = conn[c].peek % numWorker
  BY <1>1 DEF DispInv, TargetOK
<1>3. PICK p \in Pid : p = worker[s].pid
  BY <1>1, <1>2 DEF DispInv, SlotsOK, Types, Workers
<1>4. /\ proc[p].st \in {"init", "run"} /\ Len(proc[p].queue) < ChannelSize
      /\ proc' = [proc EXCEPT ![p].queue = Append(@, c)]
      /\ conn' = [conn EXCEPT ![c] = [Away EXCEPT !.at = "channel", !.pid = p,
                                                  !.peek = conn[c].peek]]
      /\ master' = [master EXCEPT !.pc = "loop", !.target = <<>>]
  <2>1. master.target[1] = c /\ worker[master.target[2]].pid = p
    BY <1>2, <1>3
  <2>2. QED
    BY <2>1 DEF SendFd, Alive
<1>5. PICK pr \in Procs, w \in Workers, cn \in Conns :
        pr = proc /\ w = worker /\ cn = conn
  BY <1>1 DEF Types
<1>6. /\ cn[c].pid = NoPid /\ cn[c].at = "master"
      /\ HoldsOK(pr, cn) /\ SlotsOK(w, pr, Slot) /\ SessOK(w, pr, cn)
  BY <1>2, <1>5 DEF DispInv, HoldsOK
<1>7. PICK q \in Seq(Conn) : q = pr[p].queue
  BY DEF Procs
<1> DEFINE q2 == Append(q, c)
<1>8. q2 \in Seq(Conn) /\ Queued(q, c, q2)
  BY DEF Queued
<1> HIDE DEF q2
<1>9. proc' = [pr EXCEPT ![p].queue = q2]
  <2>1. Append(proc[p].queue, c) = q2
    BY <1>5, <1>7 DEF q2
  <2>2. proc' = [proc EXCEPT ![p].queue = Append(proc[p].queue, c)]
    BY <1>4
  <2>3. QED
    BY <1>5, <2>1, <2>2
<1>10. /\ proc' \in Procs /\ Requeued(pr, p, proc') /\ proc'[p].queue = q2
  BY <1>8, <1>9 DEF Procs, Requeued
<1>11. /\ conn' \in Conns /\ conn'[c].at = "channel" /\ conn'[c].pid = p
       /\ conn'[c].peek = cn[c].peek /\ \A d \in Conn : d # c => conn'[d] = cn[d]
  BY <1>4, <1>5 DEF Conns, Away
<1>12. PICK pr2 \in Procs, cn2 \in Conns : pr2 = proc' /\ cn2 = conn'
  BY <1>10, <1>11
<1>13. HoldsOK(pr2, cn2) /\ SlotsOK(w, pr2, Slot) /\ SessOK(w, pr2, cn2)
  <2>1. w[cn[c].peek % numWorker].pid = p
    BY <1>2, <1>3, <1>5
  <2>2. Requeued(pr, p, pr2) /\ Queued(pr[p].queue, c, pr2[p].queue)
    BY <1>7, <1>8, <1>10, <1>12
  <2>3. /\ cn2[c].at = "channel" /\ cn2[c].pid = p /\ cn2[c].peek = cn[c].peek
        /\ \A d \in Conn : d # c => cn2[d] = cn[d]
    BY <1>11, <1>12
  <2>4. pr[p].st \in {"init", "run"} /\ Len(pr[p].queue) < ChannelSize
    BY <1>4, <1>5
  <2>5. QED
    BY <1>6, <2>1, <2>2, <2>3, <2>4, SentKeeps
<1>14. /\ master' \in Masters /\ master'.pc = "loop"
       /\ master.sig = master'.sig /\ master.masked = master'.masked
       /\ master.emits = master'.emits /\ master.next = master'.next /\ master.loop = master'.loop
  BY <1>1, <1>4 DEF Types, Masters
<1>15. Types'
  BY <1>1, <1>10, <1>11, <1>14 DEF Types
<1>16. BootOK' /\ TargetOK'
  BY <1>1, <1>14 DEF DispInv, BootOK, TargetOK
<1>17. ReapOK'
  <2>1. \A r \in Pid : proc'[r].st = "zombie" <=> proc[r].st = "zombie"
    BY <1>5, <1>10 DEF Requeued
  <2>2. QED
    BY <1>1, <1>14, <2>1, ReapSame DEF DispInv
<1>18. HoldsOK(proc, conn)' /\ SlotsOK(worker, proc, Slot)' /\ SessOK(worker, proc, conn)'
  BY <1>1, <1>5, <1>12, <1>13
<1>19. QED
  BY <1>15, <1>16, <1>17, <1>18 DEF DispInv

\* A step of the master alone, at its start.
LEMMA BootStep ==
  ASSUME DispInv, UNCHANGED <<worker, proc, conn, deaths, early>>,
         daemon' \in {"up", "gone"}, budget' \in Budgets, master' \in Masters,
         BootOK', TargetOK', master'.loop = master.loop, master'.sig = master.sig,
         master.pc # "emit", master'.pc # "emit"
  PROVE  DispInv'
<1>1. Types'
  BY DEF DispInv, Types
<1>2. HoldsOK(proc, conn)' /\ SlotsOK(worker, proc, Slot)' /\ SessOK(worker, proc, conn)'
  BY DEF DispInv
<1>3. ReapOK'
  BY ReapSame DEF DispInv
<1>4. QED
  BY <1>1, <1>2, <1>3 DEF DispInv

\* "fork error": the daemon returns.
LEMMA ForkMasterFailsKeeps ==
  ASSUME DispInv, ForkMasterFails
  PROVE  DispInv'
<1>1. /\ Types /\ BootOK /\ TargetOK /\ master.pc = "none" /\ daemon' = "gone" /\ budget.fault > 0
      /\ budget' = [budget EXCEPT !.fault = @ - 1]
      /\ UNCHANGED <<master, worker, proc, conn, deaths, early>>
  BY DEF ForkMasterFails, DispInv
<1>2. budget' \in Budgets
  BY <1>1 DEF Types, Budgets
<1>3. master' \in Masters
  BY <1>1 DEF Types
<1>4. BootOK'
  BY <1>1 DEF BootOK
<1>5. TargetOK'
  BY <1>1 DEF TargetOK
<1>6. QED
  BY <1>1, <1>2, <1>3, <1>4, <1>5, BootStep

\* TcpServerMaster::start: the acceptor.
LEMMA CreateAcceptorKeeps ==
  ASSUME DispInv, CreateAcceptor
  PROVE  DispInv'
<1>1. /\ Types /\ BootOK /\ master.pc = "bind"
      /\ UNCHANGED <<daemon, worker, proc, conn, deaths, early>>
  BY DEF CreateAcceptor, DispInv
<1>2. budget' \in Budgets
  BY <1>1 DEF CreateAcceptor, Types, Budgets
<1>3. /\ master' \in Masters /\ master'.pc \in {"start", "deaf"}
      /\ master'.sig = master.sig /\ master'.masked = master.masked
      /\ master'.emits = master.emits /\ master'.next = master.next /\ master'.loop = master.loop
  BY <1>1 DEF CreateAcceptor, Types, Masters
<1>4. BootOK' /\ TargetOK'
  BY <1>1, <1>3 DEF BootOK, TargetOK
<1>5. daemon' \in {"up", "gone"}
  BY <1>1 DEF Types
<1>6. QED
  BY <1>1, <1>2, <1>3, <1>4, <1>5, BootStep

\* SignalHandler::start.
LEMMA StartSignalsKeeps ==
  ASSUME DispInv, StartSignals
  PROVE  DispInv'
<1>1. /\ Types /\ BootOK /\ master.pc = "start"
      /\ master' = [master EXCEPT !.pc = "loop", !.masked = TRUE]
      /\ UNCHANGED <<daemon, worker, proc, conn, budget, deaths, early>>
  BY DEF StartSignals, DispInv
<1>2. /\ master' \in Masters /\ master'.pc = "loop" /\ master'.masked = TRUE
      /\ master'.sig = master.sig /\ master'.loop = master.loop
  BY <1>1 DEF Types, Masters
<1>3. BootOK' /\ TargetOK'
  BY <1>1, <1>2 DEF BootOK, TargetOK
<1>4. daemon' \in {"up", "gone"} /\ budget' \in Budgets
  BY <1>1 DEF Types
<1>5. QED
  BY <1>1, <1>2, <1>3, <1>4, BootStep

\* startWorker: the slot had no process before.
LEMMA StartWorkerKeeps ==
  ASSUME DispInv, StartWorker
  PROVE  DispInv'
<1>1. /\ Types /\ BootOK /\ master.pc = "start" /\ master.next < numWorker
      /\ master' = [master EXCEPT !.next = @ + 1]
      /\ Start(master.next, proc, budget)
      /\ UNCHANGED <<daemon, conn, deaths, early>>
  BY DEF StartWorker, DispInv
<1>2. PICK s \in Slot : s = master.next
  BY <1>1, DispatcherAssumption DEF Types, Masters, Slot
<1>3. PICK pr \in Procs, w \in Workers, cn \in Conns, left \in Budgets :
        pr = proc /\ w = worker /\ cn = conn /\ left = budget
  BY <1>1 DEF Types
<1>4. Start(s, pr, left)
  BY <1>1, <1>2, <1>3
<1>5. Begun(w, pr, s, worker', proc') /\ budget' \in Budgets
  BY <1>3, <1>4, StartIs
<1>6. PICK w2, pr2 : w2 = worker' /\ pr2 = proc'
  OBVIOUS
<1>7. /\ HoldsOK(pr, cn) /\ SlotsOK(w, pr, Slot) /\ SessOK(w, pr, cn) /\ w[s].pid = NoPid
  BY <1>1, <1>2, <1>3 DEF DispInv, BootOK, Types, Masters
<1>8. SlotsOK(w, pr, Slot \ {s})
  BY <1>7 DEF SlotsOK
<1>9. /\ pr2 \in Procs /\ w2 \in Workers /\ HoldsOK(pr2, cn)
      /\ SlotsOK(w2, pr2, Slot) /\ SessOK(w2, pr2, cn)
      /\ \A p \in Pid : pr2[p].st = "zombie" <=> pr[p].st = "zombie"
      /\ \A t \in Slot : t # s => w2[t] = w[t]
  BY <1>5, <1>6, <1>7, <1>8, BegunKeeps
<1>10. /\ master' \in Masters /\ master'.pc = "start" /\ master'.next = s + 1
       /\ master'.sig = master.sig /\ master'.masked = master.masked
       /\ master'.emits = master.emits /\ master'.loop = master.loop
  <2>1. s + 1 \in 0..numWorker
    BY DispatcherAssumption DEF Slot
  <2>2. master' = [master EXCEPT !.next = s + 1] /\ master \in Masters
    BY <1>1, <1>2 DEF Types
  <2>3. QED
    BY <1>1, <2>1, <2>2 DEF Masters
<1>11. Types'
  BY <1>1, <1>5, <1>6, <1>9, <1>10 DEF Types
<1>12. BootOK'
  <2>1. \A t \in Slot : t >= s + 1 => t # s /\ t >= s
    BY DispatcherAssumption DEF Slot
  <2>2. \A t \in Slot : t >= s + 1 => worker'[t].pid = NoPid
    BY <1>1, <1>2, <1>3, <1>6, <1>9, <2>1 DEF BootOK
  <2>3. QED
    BY <1>1, <1>10, <2>2 DEF BootOK
<1>13. TargetOK'
  BY <1>10 DEF TargetOK
<1>14. ReapOK'
  BY <1>1, <1>3, <1>6, <1>9, <1>10, ReapSame DEF DispInv
<1>15. HoldsOK(proc, conn)' /\ SlotsOK(worker, proc, Slot)' /\ SessOK(worker, proc, conn)'
  BY <1>1, <1>3, <1>6, <1>9
<1>16. QED
  BY <1>11, <1>12, <1>13, <1>14, <1>15 DEF DispInv

\* A master without workers.
LEMMA NoMasterIs ==
  /\ NoMaster \in Masters /\ NoMaster.pc = "none" /\ NoMaster.next = 0 /\ ~NoMaster.masked
  /\ [NoMaster EXCEPT !.pc = "bind"] \in Masters /\ [NoMaster EXCEPT !.pc = "bind"].pc = "bind"
  /\ [NoMaster EXCEPT !.pc = "bind"].next = 0 /\ ~[NoMaster EXCEPT !.pc = "bind"].masked
  /\ [s \in Slot |-> NoWorker] \in Workers
  /\ \A s \in Slot : [t \in Slot |-> NoWorker][s].pid = NoPid
                     /\ [t \in Slot |-> NoWorker][s].status = "Init"
<1>1. 0 \in 0..numWorker
  BY DispatcherAssumption
<1>2. 0 \in 0..ReapLoop
  BY DEF ReapLoop
<1>3. {} \in SUBSET {"CHLD", "PIPE"} /\ <<>> \in {<<>>} \union (Conn \X Slot) /\ 0 \in 0..2
  OBVIOUS
<1>4. NoMaster \in Masters /\ NoMaster.pc = "none" /\ NoMaster.next = 0 /\ ~NoMaster.masked
  BY <1>1, <1>2, <1>3 DEF NoMaster, Masters
<1>5. /\ [NoMaster EXCEPT !.pc = "bind"] \in Masters /\ [NoMaster EXCEPT !.pc = "bind"].pc = "bind"
      /\ [NoMaster EXCEPT !.pc = "bind"].next = 0 /\ ~[NoMaster EXCEPT !.pc = "bind"].masked
  BY <1>4 DEF Masters
<1>6. NoWorker \in [status : {"Init", "OK", "Unknown"}, pid : Pid \union {NoPid}]
      /\ NoWorker.status = "Init" /\ NoWorker.pid = NoPid
  BY DEF NoWorker
<1>7. [s \in Slot |-> NoWorker] \in Workers
  BY <1>6 DEF Workers
<1>8. \A s \in Slot : [t \in Slot |-> NoWorker][s] = NoWorker
  OBVIOUS
<1>9. QED
  BY <1>4, <1>5, <1>6, <1>7, <1>8

\* The daemon forks the master: nobody is its child.
LEMMA ForkMasterKeeps ==
  ASSUME DispInv, ForkMaster
  PROVE  DispInv'
<1>1. /\ Types /\ BootOK /\ master.pc = "none"
      /\ master' = [NoMaster EXCEPT !.pc = "bind"]
      /\ worker' = [s \in Slot |-> NoWorker]
      /\ deaths' = 0 /\ early' = FALSE
      /\ UNCHANGED <<daemon, proc, conn, budget>>
  BY DEF ForkMaster, DispInv
<1>2. /\ master' \in Masters /\ master'.pc = "bind" /\ master'.next = 0 /\ ~master'.masked
      /\ worker' \in Workers
      /\ \A s \in Slot : worker'[s].pid = NoPid /\ worker'[s].status = "Init"
  BY <1>1, NoMasterIs
<1>3. \A p \in Pid : ~proc[p].child /\ proc[p].st # "zombie"
  BY <1>1 DEF BootOK
<1>4. Types'
  BY <1>1, <1>2 DEF Types
<1>5. BootOK' /\ TargetOK'
  BY <1>1, <1>2, <1>3 DEF BootOK, TargetOK
<1>6. ReapOK'
  <2>1. Zombies' = {}
    BY <1>1, <1>3 DEF Zombies
  <2>2. QED
    BY <1>1, <1>2, <2>1, FS_EmptySet DEF ReapOK
<1>7. HoldsOK(proc, conn)'
  BY <1>1 DEF DispInv
<1>8. SlotsOK(worker, proc, Slot)'
  BY <1>2 DEF SlotsOK
<1>9. SessOK(worker, proc, conn)'
  <2>1. \A c \in Conn : conn[c].pid # NoPid => conn[c].pid \in Pid
    BY <1>1 DEF Types, Conns
  <2>2. QED
    BY <1>1, <1>3, <2>1 DEF SessOK
<1>10. QED
  BY <1>4, <1>5, <1>6, <1>7, <1>8, <1>9 DEF DispInv

\* The master dies: its workers live on as nobody's children.
LEMMA MasterDiesKeeps ==
  ASSUME DispInv, MasterDies
  PROVE  DispInv'
<1> DEFINE cs == {c \in Conn : conn[c].at \in {"backlog", "master"}}
<1>1. /\ Types /\ budget.boot > 0
      /\ budget' = [budget EXCEPT !.boot = @ - 1]
      /\ master' = NoMaster
      /\ worker' = [s \in Slot |-> NoWorker]
      /\ proc' = [p \in Pid |-> IF proc[p].st = "zombie" THEN NoProc
                                ELSE [proc[p] EXCEPT !.child = FALSE]]
      /\ conn' = Closed(cs)
      /\ deaths' = 0 /\ early' = FALSE
      /\ UNCHANGED daemon
  BY DEF MasterDies, DispInv
<1>2. /\ master' \in Masters /\ master'.pc = "none" /\ master'.next = 0 /\ ~master'.masked
      /\ worker' \in Workers
      /\ \A s \in Slot : worker'[s].pid = NoPid /\ worker'[s].status = "Init"
  BY <1>1, NoMasterIs
<1>3. budget' \in Budgets
  BY <1>1 DEF Types, Budgets
<1>4. PICK pr \in Procs, cn \in Conns, w \in Workers : pr = proc /\ cn = conn /\ w = worker
  BY <1>1 DEF Types
<1>5. HoldsOK(pr, cn) /\ SessOK(w, pr, cn)
  BY <1>4 DEF DispInv
<1>6. /\ proc' \in Procs
      /\ \A p \in Pid : /\ ~proc'[p].child /\ proc'[p].st # "zombie"
                        /\ pr[p].st = "zombie" => proc'[p].queue = <<>>
                        /\ pr[p].st # "zombie" => proc'[p].queue = pr[p].queue /\ proc'[p].st = pr[p].st
  <2>1. NoProc \in [st : {"free", "init", "run", "zombie"}, queue : Seq(Conn), child : BOOLEAN]
    BY DEF NoProc
  <2>2. NoProc.st = "free" /\ NoProc.queue = <<>> /\ ~NoProc.child
    BY DEF NoProc
  <2> HIDE DEF NoProc
  <2>3. QED
    BY <1>1, <1>4, <2>1, <2>2 DEF Procs
<1>7. \A p \in Pid : pr[p].st = "zombie" => pr[p].queue = <<>>
  BY <1>5, DeadQueue
<1>8. PICK pr2 \in Procs : pr2 = proc'
  BY <1>6
<1>9. Carries(pr, pr2)
  BY <1>6, <1>7, <1>8 DEF Carries
<1>10. HoldsOK(pr2, cn) /\ SessOK(w, pr2, cn)
  BY <1>5, <1>9, CarriesKeeps
<1>11. /\ conn' \in Conns /\ Away.at = "away" /\ Away.pid = NoPid
       /\ \A c \in Conn : conn'[c] = IF c \in cs THEN Away ELSE conn[c]
  BY <1>1, ClosedIs DEF Types
<1>12. PICK cn2 \in Conns : cn2 = conn'
  BY <1>11
<1>13. LetGo(cn, cn2)
  BY <1>4, <1>11, <1>12 DEF LetGo
<1>14. HoldsOK(pr2, cn2) /\ SessOK(w, pr2, cn2)
  BY <1>10, <1>13, LetGoKeeps
<1>15. Types'
  BY <1>1, <1>2, <1>3, <1>6, <1>11 DEF Types
<1>16. BootOK' /\ TargetOK'
  BY <1>2, <1>6 DEF BootOK, TargetOK
<1>17. ReapOK'
  <2>1. Zombies' = {}
    BY <1>6 DEF Zombies
  <2>2. QED
    BY <1>1, <1>2, <2>1, FS_EmptySet DEF ReapOK
<1>18. SlotsOK(worker, proc, Slot)'
  BY <1>2 DEF SlotsOK
<1>19. HoldsOK(proc, conn)'
  BY <1>8, <1>12, <1>14
<1>20. SessOK(worker, proc, conn)'
  <2>1. \A c \in Conn : conn'[c].pid # NoPid => conn'[c].pid \in Pid
    BY <1>11 DEF Conns
  <2>2. QED
    BY <1>6, <2>1 DEF SessOK
<1>21. QED
  BY <1>15, <1>16, <1>17, <1>18, <1>19, <1>20 DEF DispInv

-----------------------------------------------------------------------------
(* The replacement of a worker *)

\* How the number of zombies changes.
LEMMA ZombieCount ==
  ASSUME NEW p \in Pid
  PROVE  /\ Cardinality(Zombies)' \in Nat
         /\ Zombies' = Zombies \union {p} => Cardinality(Zombies)' <= Cardinality(Zombies) + 1
         /\ p \in Zombies /\ Zombies' = Zombies \ {p} =>
              Cardinality(Zombies)' = Cardinality(Zombies) - 1
<1>1. PICK z : z = Zombies
  OBVIOUS
<1>2. IsFiniteSet(z) /\ Cardinality(z) \in Nat
  BY <1>1, ZombiesFinite
<1>3. Cardinality(z \union {p}) <= Cardinality(z) + 1
  <2>1. PICK n \in Nat : n = Cardinality(z)
    BY <1>2
  <2>2. Cardinality(z \union {p}) = IF p \in z THEN Cardinality(z) ELSE Cardinality(z) + 1
    BY <1>2, FS_AddElement, Zenon
  <2>3. n <= n + 1 /\ n + 1 <= n + 1
    OBVIOUS
  <2>4. QED
    BY <2>1, <2>2, <2>3, Zenon
<1>4. ASSUME p \in z
      PROVE  Cardinality(z \ {p}) = Cardinality(z) - 1
  BY <1>2, <1>4, FS_RemoveElement
<1>5. PICK y : y = Zombies' /\ IsFiniteSet(y) /\ Cardinality(y) \in Nat
  <2>1. PICK y \in SUBSET Pid : y = Zombies'
    BY DEF Zombies
  <2>2. IsFiniteSet(y) /\ Cardinality(y) \in Nat
    BY PidIs, FS_Subset, FS_CardinalityType
  <2>3. QED
    BY <2>1, <2>2
<1>6. /\ y = z \union {p} => Cardinality(y) <= Cardinality(z) + 1
      /\ p \in z /\ y = z \ {p} => Cardinality(y) = Cardinality(z) - 1
  BY <1>3, <1>4
<1>7. Cardinality(Zombies)' = Cardinality(y) /\ Cardinality(Zombies) = Cardinality(z)
  BY <1>1, <1>5
<1>8. QED
  BY <1>1, <1>5, <1>6, <1>7, Zenon

\* What kill makes of a process.
Killed(pq, r) == [pq EXCEPT ![r] = [@ EXCEPT !.st = "zombie", !.queue = <<>>]]

\* A zombie without channel; the other processes are as they were.
LEMMA KilledIs ==
  ASSUME NEW pq \in Procs, NEW r \in Pid
  PROVE  /\ Killed(pq, r) \in Procs /\ Killed(pq, r)[r].st = "zombie"
         /\ Killed(pq, r)[r].queue = <<>> /\ Killed(pq, r)[r].child = pq[r].child
         /\ \A u \in Pid : u # r => Killed(pq, r)[u] = pq[u]
<1> DEFINE P == [st : {"free", "init", "run", "zombie"}, queue : Seq(Conn), child : BOOLEAN]
<1> DEFINE x == [pq[r] EXCEPT !.st = "zombie", !.queue = <<>>]
<1>1. pq[r] \in P /\ pq \in [Pid -> P]
  BY DEF Procs
<1>2. <<>> \in Seq(Conn)
  OBVIOUS
<1>3. x \in P /\ x.st = "zombie" /\ x.queue = <<>> /\ x.child = pq[r].child
  BY <1>1, <1>2
<1>4. Killed(pq, r) = [pq EXCEPT ![r] = x]
  BY DEF Killed
<1> HIDE DEF x, P
<1>5. /\ [pq EXCEPT ![r] = x] \in [Pid -> P] /\ [pq EXCEPT ![r] = x][r] = x
      /\ \A u \in Pid : u # r => [pq EXCEPT ![r] = x][u] = pq[u]
  BY <1>1, <1>3
<1>6. QED
  BY <1>3, <1>4, <1>5 DEF P, Procs

\* restart: whether its process lives, is a zombie or has just been reaped, the slot has
\* another or none, and what the process held is closed.
LEMMA RestartIs ==
  ASSUME DispInv, NEW s \in Slot, NEW p \in Pid, p = worker[s].pid, NEW procs \in Procs,
         procs = proc \/ (procs = Reaped(p) /\ proc[p].st = "zombie"),
         NEW left \in Budgets, NEW cs, \A c \in cs : c \in Conn /\ conn[c].pid = NoPid,
         Restart(s, procs, cs, left)
  PROVE  /\ proc' \in Procs /\ worker' \in Workers /\ conn' \in Conns /\ budget' \in Budgets
         /\ HoldsOK(proc, conn)' /\ SlotsOK(worker, proc, Slot)' /\ SessOK(worker, proc, conn)'
         /\ Zombies' = IF procs = proc THEN Zombies \union {p} ELSE Zombies \ {p}
         /\ deaths' = IF procs[p].st \in {"init", "run"} THEN deaths + 1 ELSE deaths
<1> DEFINE kills == procs[p].st \in {"init", "run"}
<1> DEFINE mid == IF kills THEN Killed(procs, p) ELSE procs
<1>1. /\ Start(s, mid, left) /\ conn' = Closed(cs \union HeldBy(p))
      /\ deaths' = IF kills THEN deaths + 1 ELSE deaths
  BY DEF Restart, Killed
<1>2. PICK pr \in Procs, w \in Workers, cn \in Conns : pr = proc /\ w = worker /\ cn = conn
  BY DEF DispInv, Types
<1>3. /\ HoldsOK(pr, cn) /\ SlotsOK(w, pr, Slot) /\ SessOK(w, pr, cn)
      /\ w[s].pid = p /\ w[s].pid # NoPid /\ pr[p].st # "free"
  BY <1>2, PidIs DEF DispInv, SlotsOK
<1>4. NoProc.st = "free" /\ NoProc.queue = <<>> /\ ~NoProc.child
  BY DEF NoProc
<1>5. /\ \A r \in Pid : r # p => procs[r] = pr[r]
      /\ procs = proc \/ (procs[p] = NoProc /\ pr[p].st = "zombie")
  BY <1>2 DEF Reaped, Procs
<1>6. /\ mid \in Procs /\ \A r \in Pid : r # p => mid[r] = procs[r]
      /\ kills => mid[p].st = "zombie" /\ mid[p].queue = <<>>
      /\ ~kills => mid[p] = procs[p]
  BY KilledIs
<1> HIDE DEF mid
<1>7. mid[p].queue = <<>> /\ mid[p].st = (IF procs = proc THEN "zombie" ELSE "free")
  <2>1. CASE kills
    BY <1>4, <1>5, <1>6, <2>1
  <2>2. CASE ~kills /\ procs = proc
    <3>1. pr[p].st \notin {"init", "run"}
      BY <1>2, <2>2
    <3>2. pr[p].queue = <<>>
      BY <1>3, <3>1, DeadQueue
    <3>3. pr[p].st = "zombie"
      BY <1>3, <3>1 DEF Procs
    <3>4. QED
      BY <1>2, <1>6, <2>2, <3>2, <3>3
  <2>3. CASE ~kills /\ procs # proc
    BY <1>4, <1>5, <1>6, <2>3
  <2>4. QED
    BY <2>1, <2>2, <2>3
<1>8. /\ conn' \in Conns
      /\ \A c \in Conn : conn'[c] = IF c \in cs \/ cn[c].pid = p THEN Away ELSE cn[c]
  <2>1. PICK hs : hs = cs \union HeldBy(p)
    OBVIOUS
  <2>2. conn' = Closed(hs) /\ \A c \in Conn : c \in hs <=> (c \in cs \/ cn[c].pid = p)
    BY <1>1, <1>2, <2>1 DEF HeldBy
  <2>3. QED
    BY <1>2, <2>2, ClosedIs
<1>9. PICK pm \in Procs, cn2 \in Conns : pm = mid /\ cn2 = conn'
  BY <1>6, <1>8
<1>10. Ended(pr, cn, p, cs, pm, cn2)
  BY <1>2, <1>5, <1>6, <1>7, <1>8, <1>9 DEF Ended
<1>11. HoldsOK(pm, cn2) /\ \A c \in Conn : cn2[c].pid # p
  BY <1>3, <1>10, EndedHolds
<1>12. SlotsOK(w, pm, Slot \ {s}) /\ SessOK(w, pm, cn2)
  BY <1>3, <1>10, EndedSlots
<1>13. Begun(w, pm, s, worker', proc') /\ budget' \in Budgets
  BY <1>1, <1>2, <1>9, StartIs
<1>14. PICK w2, pr2 : w2 = worker' /\ pr2 = proc'
  OBVIOUS
<1>15. /\ pr2 \in Procs /\ w2 \in Workers /\ HoldsOK(pr2, cn2)
       /\ SlotsOK(w2, pr2, Slot) /\ SessOK(w2, pr2, cn2)
       /\ \A r \in Pid : pr2[r].st = "zombie" <=> pm[r].st = "zombie"
  BY <1>3, <1>11, <1>12, <1>13, <1>14, BegunKeeps
<1>16. Zombies' = IF procs = proc THEN Zombies \union {p} ELSE Zombies \ {p}
  <2>1. \A r \in Pid : r # p => (proc'[r].st = "zombie" <=> proc[r].st = "zombie")
    BY <1>2, <1>5, <1>6, <1>9, <1>14, <1>15
  <2>2. proc'[p].st = "zombie" <=> procs = proc
    BY <1>7, <1>9, <1>14, <1>15
  <2>3. QED
    BY <2>1, <2>2 DEF Zombies
<1>17. QED
  BY <1>1, <1>8, <1>9, <1>13, <1>14, <1>15, <1>16

\* SignalHandler::doEvent: at most one signal of each kind is pending.
LEMMA ReadSignalsKeeps ==
  ASSUME DispInv, ReadSignals
  PROVE  DispInv'
<1>1. /\ Types /\ BootOK /\ ReapOK /\ master.pc = "loop" /\ master.sig # {} /\ master \in Masters
      /\ master' = [master EXCEPT !.pc = "emit", !.emits = Cardinality(master.sig),
                                  !.sig = {}, !.loop = ReapLoop]
      /\ UNCHANGED <<daemon, worker, proc, conn, budget, deaths, early>>
  BY DEF ReadSignals, DispInv, Types
<1>2. Cardinality(master.sig) \in 0..2 /\ Cardinality(master.sig) >= 1
  <2>1. PICK g \in SUBSET {"CHLD", "PIPE"} : g = master.sig /\ g # {}
    BY <1>1 DEF Masters
  <2>2. g = {"CHLD"} \/ g = {"PIPE"} \/ g = {"CHLD", "PIPE"}
    BY <2>1
  <2>3. /\ Cardinality({"CHLD"}) = 1 /\ Cardinality({"PIPE"}) = 1
        /\ IsFiniteSet({"CHLD"}) /\ "PIPE" \notin {"CHLD"}
    BY FS_Singleton
  <2>4. Cardinality({"CHLD"} \union {"PIPE"}) = Cardinality({"CHLD"}) + 1
    BY <2>3, FS_AddElement
  <2>5. {"CHLD", "PIPE"} = {"CHLD"} \union {"PIPE"}
    OBVIOUS
  <2>6. Cardinality(g) = 1 \/ Cardinality(g) = 2
    BY <2>2, <2>3, <2>4, <2>5
  <2>7. QED
    BY <2>1, <2>6
<1>3. PICK n \in 0..2 : n = Cardinality(master.sig) /\ n >= 1
  BY <1>2
<1>4. /\ master' \in Masters /\ master'.pc = "emit" /\ master'.emits = n
      /\ master'.loop = ReapLoop /\ master'.masked = master.masked
  <2>1. master' = [master EXCEPT !.pc = "emit", !.emits = n, !.sig = {}, !.loop = ReapLoop]
    BY <1>1, <1>3
  <2>2. ReapLoop \in 0..ReapLoop
    BY DEF ReapLoop
  <2>3. QED
    BY <1>1, <2>1, <2>2 DEF Masters
<1>5. Types'
  BY <1>1, <1>4 DEF Types
<1>6. BootOK' /\ TargetOK'
  BY <1>1, <1>3, <1>4 DEF BootOK, TargetOK
<1>7. ReapOK'
  <2>1. Zombies' = Zombies
    BY <1>1 DEF Zombies
  <2>2. QED
    BY <1>1, <1>4, <2>1 DEF ReapOK, ReapLoop
<1>8. HoldsOK(proc, conn)' /\ SlotsOK(worker, proc, Slot)' /\ SessOK(worker, proc, conn)'
  BY <1>1 DEF DispInv
<1>9. QED
  BY <1>5, <1>6, <1>7, <1>8 DEF DispInv

\* onEmit returns: there are no zombies, or as many as the loop takes died.
LEMMA EmitReturnsKeeps ==
  ASSUME DispInv, EmitReturns
  PROVE  DispInv'
<1>1. /\ Types /\ BootOK /\ ReapOK /\ master.pc = "emit" /\ master \in Masters
      /\ Zombies = {} \/ master.loop = 0
      /\ master' = [master EXCEPT !.pc = IF master.emits = 1 THEN "loop" ELSE "emit",
                                  !.emits = @ - 1, !.loop = ReapLoop]
      /\ UNCHANGED <<daemon, worker, proc, conn, budget, deaths, early>>
  BY DEF EmitReturns, DispInv, Types
<1>2. master.emits \in 1..2 /\ master.masked
  BY <1>1 DEF BootOK, Masters
<1>3. PICK n \in 1..2 : n = master.emits
  BY <1>2
<1>4. /\ master' \in Masters /\ master'.pc \in {"loop", "emit"} /\ master'.masked
      /\ master'.loop = ReapLoop /\ (master'.pc = "emit" => master'.emits = 1)
  <2>1. master' = [master EXCEPT !.pc = IF n = 1 THEN "loop" ELSE "emit",
                                 !.emits = n - 1, !.loop = ReapLoop]
    BY <1>1, <1>3
  <2>2. n - 1 \in 0..2 /\ ReapLoop \in 0..ReapLoop /\ (n # 1 => n - 1 = 1)
    BY DEF ReapLoop
  <2>3. CASE n = 1
    <3>1. master' = [master EXCEPT !.pc = "loop", !.emits = n - 1, !.loop = ReapLoop]
      BY <2>1, <2>3
    <3>2. QED
      BY <1>1, <1>2, <2>2, <3>1 DEF Masters
  <2>4. CASE n # 1
    <3>1. master' = [master EXCEPT !.pc = "emit", !.emits = n - 1, !.loop = ReapLoop]
      BY <2>1, <2>4
    <3>2. QED
      BY <1>1, <1>2, <2>2, <2>4, <3>1 DEF Masters
  <2>5. QED
    BY <2>3, <2>4
<1>5. Types'
  BY <1>1, <1>4 DEF Types
<1>6. BootOK' /\ TargetOK'
  BY <1>1, <1>4 DEF BootOK, TargetOK
<1>7. ReapOK'
  <2>1. Zombies' = Zombies
    BY <1>1 DEF Zombies
  <2>2. PICK n2 \in Nat : n2 = Cardinality(Zombies) /\ deaths \in Nat
    BY <1>1, ZombiesFinite DEF Types
  <2>3. n2 + (ReapLoop - master.loop) <= deaths
    BY <1>1, <2>2 DEF ReapOK
  <2>4. n2 <= deaths
    BY <1>1, <2>2, <2>3 DEF Masters, ReapLoop
  <2>5. deaths <= ReapLoop => Zombies = {}
    <3>1. CASE Zombies = {}
      BY <3>1
    <3>2. CASE master.loop = 0 /\ deaths <= ReapLoop
      <4>1. n2 = 0
        BY <2>2, <2>3, <3>2 DEF ReapLoop
      <4>2. QED
        BY <2>2, <4>1, ZombiesFinite, FS_EmptySet
    <3>3. QED
      BY <1>1, <3>1, <3>2
  <2>6. Cardinality(Zombies)' = n2
    BY <2>1, <2>2
  <2>7. (IF master'.pc = "emit" THEN ReapLoop - master'.loop ELSE 0) = 0
    BY <1>4 DEF ReapLoop
  <2>8. QED
    BY <1>1, <2>1, <2>2, <2>4, <2>5, <2>6, <2>7 DEF ReapOK
<1>8. HoldsOK(proc, conn)' /\ SlotsOK(worker, proc, Slot)' /\ SessOK(worker, proc, conn)'
  BY <1>1 DEF DispInv
<1>9. QED
  BY <1>5, <1>6, <1>7, <1>8 DEF DispInv

\* What the end of a step of the master owes the invariant, after a restart.
LEMMA AfterRestart ==
  ASSUME DispInv, proc' \in Procs, worker' \in Workers, conn' \in Conns, budget' \in Budgets,
         HoldsOK(proc, conn)', SlotsOK(worker, proc, Slot)', SessOK(worker, proc, conn)',
         deaths' \in Nat, UNCHANGED <<daemon, early>>, master' \in Masters, ReapOK',
         master.pc \in {"send", "emit"}, master'.pc \in {"loop", "emit"},
         master'.pc = "emit" => master.pc = "emit",
         master'.masked = master.masked, master'.emits = master.emits
  PROVE  DispInv'
<1>1. Types'
  BY DEF DispInv, Types
<1>2. BootOK' /\ TargetOK'
  BY DEF DispInv, BootOK, TargetOK
<1>3. QED
  BY <1>1, <1>2 DEF DispInv

\* sendFd to a dead worker: it is a zombie already.
LEMMA SendFdToDeadKeeps ==
  ASSUME DispInv, SendFdToDead
  PROVE  DispInv'
<1>1. Types /\ ReapOK /\ master.pc = "send" /\ master \in Masters /\ UNCHANGED <<daemon, early>>
  BY DEF SendFdToDead, DispInv, Types
<1>2. PICK c \in Conn, s \in Slot :
        master.target = <<c, s>> /\ conn[c].at = "master" /\ worker[s].status = "OK"
  BY <1>1 DEF DispInv, TargetOK
<1>3. PICK p \in Pid : p = worker[s].pid /\ proc[p].st # "free"
  BY <1>1, <1>2 DEF DispInv, SlotsOK, Types, Workers
<1>4. /\ ~Alive(p) /\ Restart(s, proc, {c}, budget)
      /\ master' = [master EXCEPT !.pc = "loop", !.target = <<>>, !.sig = @ \union {"PIPE"}]
  BY <1>2, <1>3 DEF SendFdToDead
<1>5. conn[c].pid = NoPid /\ proc[p].st = "zombie"
  BY <1>1, <1>2, <1>3, <1>4 DEF DispInv, HoldsOK, Alive, Types, Procs
<1>6. PICK pr \in Procs, left \in Budgets : pr = proc /\ left = budget
  BY <1>1 DEF Types
<1>7. Restart(s, pr, {c}, left)
  BY <1>4, <1>6
<1>8. /\ proc' \in Procs /\ worker' \in Workers /\ conn' \in Conns /\ budget' \in Budgets
      /\ HoldsOK(proc, conn)' /\ SlotsOK(worker, proc, Slot)' /\ SessOK(worker, proc, conn)'
      /\ Zombies' = IF pr = proc THEN Zombies \union {p} ELSE Zombies \ {p}
      /\ deaths' = IF pr[p].st \in {"init", "run"} THEN deaths + 1 ELSE deaths
  <2>1. \A d \in {c} : d \in Conn /\ conn[d].pid = NoPid
    BY <1>5
  <2>2. QED
    BY <1>3, <1>6, <1>7, <2>1, RestartIs
<1>9. Zombies' = Zombies /\ deaths' = deaths /\ deaths' \in Nat
  BY <1>1, <1>5, <1>6, <1>8 DEF Zombies, Types
<1>10. /\ master' \in Masters /\ master'.pc = "loop" /\ master'.masked = master.masked
       /\ master'.emits = master.emits /\ master.sig \subseteq master'.sig
  BY <1>1, <1>4 DEF Masters
<1>11. ReapOK'
  BY <1>1, <1>9, <1>10 DEF ReapOK
<1>12. QED
  BY <1>1, <1>8, <1>9, <1>10, <1>11, AfterRestart

\* sendFd to a live worker fails: it is killed, and its SIGCHLD is pending.
LEMMA SendFdFailsKeeps ==
  ASSUME DispInv, SendFdFails
  PROVE  DispInv'
<1>1. Types /\ ReapOK /\ master.pc = "send" /\ master \in Masters /\ UNCHANGED <<daemon, early>>
      /\ budget.fault > 0
  BY DEF SendFdFails, DispInv, Types
<1>2. PICK c \in Conn, s \in Slot :
        master.target = <<c, s>> /\ conn[c].at = "master" /\ worker[s].status = "OK"
  BY <1>1 DEF DispInv, TargetOK
<1>3. PICK p \in Pid : p = worker[s].pid
  BY <1>1, <1>2 DEF DispInv, SlotsOK, Types, Workers
<1>4. /\ proc[p].st \in {"init", "run"}
      /\ Restart(s, proc, {c}, [budget EXCEPT !.fault = @ - 1])
      /\ master' = [master EXCEPT !.pc = "loop", !.target = <<>>, !.sig = @ \union {"CHLD"}]
  BY <1>2, <1>3 DEF SendFdFails, Alive
<1>5. conn[c].pid = NoPid
  BY <1>2 DEF DispInv, HoldsOK
<1>6. PICK pr \in Procs, left \in Budgets : pr = proc /\ left = [budget EXCEPT !.fault = @ - 1]
  <2>1. budget.fault - 1 \in Nat /\ budget \in Budgets
    BY <1>1 DEF Types, Budgets
  <2>2. [budget EXCEPT !.fault = @ - 1] \in Budgets
    BY <2>1 DEF Budgets
  <2>3. QED
    BY <1>1, <2>2 DEF Types
<1>7. Restart(s, pr, {c}, left)
  BY <1>4, <1>6
<1>8. /\ proc' \in Procs /\ worker' \in Workers /\ conn' \in Conns /\ budget' \in Budgets
      /\ HoldsOK(proc, conn)' /\ SlotsOK(worker, proc, Slot)' /\ SessOK(worker, proc, conn)'
      /\ Zombies' = IF pr = proc THEN Zombies \union {p} ELSE Zombies \ {p}
      /\ deaths' = IF pr[p].st \in {"init", "run"} THEN deaths + 1 ELSE deaths
  <2>1. \A d \in {c} : d \in Conn /\ conn[d].pid = NoPid
    BY <1>5
  <2>2. QED
    BY <1>3, <1>6, <1>7, <2>1, RestartIs
<1>9. Zombies' = Zombies \union {p} /\ deaths' = deaths + 1
  BY <1>4, <1>6, <1>8
<1>10. /\ master' \in Masters /\ master'.pc = "loop" /\ master'.masked = master.masked
       /\ master'.emits = master.emits /\ "CHLD" \in master'.sig
  BY <1>1, <1>4 DEF Masters
<1>11. ReapOK' /\ deaths' \in Nat
  <2>1. PICK n \in Nat, m \in Nat, k \in Nat :
          n = Cardinality(Zombies) /\ m = deaths /\ k = Cardinality(Zombies)'
    BY <1>1, ZombiesFinite, ZombieCount DEF Types
  <2>2. k <= n + 1
    BY <1>9, <2>1, ZombieCount
  <2>3. n <= m
    BY <1>1, <2>1 DEF ReapOK
  <2>4. QED
    BY <1>9, <1>10, <2>1, <2>2, <2>3 DEF ReapOK
<1>12. QED
  BY <1>1, <1>8, <1>10, <1>11, AfterRestart

\* waitpid has taken a zombie: there is one fewer, and one turn of the loop.
LEMMA TurnTaken ==
  ASSUME DispInv, NEW p \in Zombies, Zombies' = Zombies \ {p}, deaths' = deaths,
         master.pc = "emit", master.loop > 0, master' = [master EXCEPT !.loop = @ - 1]
  PROVE  /\ ReapOK' /\ deaths' \in Nat /\ master' \in Masters /\ master'.pc = "emit"
         /\ master'.masked = master.masked /\ master'.emits = master.emits
         /\ master'.next = master.next
<1>1. Types /\ ReapOK /\ master \in Masters /\ deaths \in Nat
  BY DEF DispInv, Types
<1>2. PICK l \in 1..ReapLoop : l = master.loop
  BY <1>1 DEF Masters, ReapLoop
<1>3. /\ master' \in Masters /\ master'.pc = "emit" /\ master'.loop = l - 1
      /\ master'.masked = master.masked /\ master'.emits = master.emits
      /\ master'.next = master.next
  <2>1. l - 1 \in 0..ReapLoop /\ master' = [master EXCEPT !.loop = l - 1]
    BY <1>2 DEF ReapLoop
  <2>2. QED
    BY <1>1, <2>1 DEF Masters
<1>4. PICK n \in Nat : n = Cardinality(Zombies)
  BY ZombiesFinite
<1>5. p \in Pid
  BY DEF Zombies
<1>6. Cardinality(Zombies)' = n - 1
  BY <1>4, <1>5, ZombieCount
<1>7. n + (ReapLoop - l) <= deaths
  BY <1>1, <1>2, <1>4 DEF ReapOK
<1>8. (n - 1) + (ReapLoop - (l - 1)) <= deaths
  BY <1>1, <1>7 DEF ReapLoop
<1>9. ReapOK'
  BY <1>3, <1>6, <1>8 DEF ReapOK
<1>10. QED
  BY <1>1, <1>3, <1>9

\* waitpid returns the process of a slot.
LEMMA ReapWorkerKeeps ==
  ASSUME DispInv, ReapWorker
  PROVE  DispInv'
<1>1. /\ Types /\ ReapOK /\ master.pc = "emit" /\ UNCHANGED <<daemon, early>>
      /\ master.loop > 0 /\ master' = [master EXCEPT !.loop = @ - 1]
  BY DEF ReapWorker, DispInv, Types
<1>2. PICK p \in Zombies, s \in Slot : worker[s].pid = p /\ Restart(s, Reaped(p), {}, budget)
  BY DEF ReapWorker
<1>3. p \in Pid /\ proc[p].st = "zombie"
  BY <1>2 DEF Zombies
<1>4. PICK pr \in Procs, left \in Budgets : pr = Reaped(p) /\ left = budget
  <2>1. NoProc \in [st : {"free", "init", "run", "zombie"}, queue : Seq(Conn), child : BOOLEAN]
    BY DEF NoProc
  <2>2. Reaped(p) \in Procs
    BY <1>1, <1>3, <2>1 DEF Reaped, Types, Procs
  <2>3. QED
    BY <1>1, <2>2 DEF Types
<1>5. pr[p].st = "free" /\ pr # proc
  BY <1>1, <1>3, <1>4 DEF Reaped, NoProc, Types, Procs
<1>6. Restart(s, pr, {}, left)
  BY <1>2, <1>4
<1>7. /\ proc' \in Procs /\ worker' \in Workers /\ conn' \in Conns /\ budget' \in Budgets
      /\ HoldsOK(proc, conn)' /\ SlotsOK(worker, proc, Slot)' /\ SessOK(worker, proc, conn)'
      /\ Zombies' = IF pr = proc THEN Zombies \union {p} ELSE Zombies \ {p}
      /\ deaths' = IF pr[p].st \in {"init", "run"} THEN deaths + 1 ELSE deaths
  <2>1. \A c \in {} : c \in Conn /\ conn[c].pid = NoPid
    OBVIOUS
  <2>2. QED
    BY <1>2, <1>3, <1>4, <1>6, <2>1, RestartIs
<1>8. Zombies' = Zombies \ {p} /\ deaths' = deaths
  BY <1>5, <1>7
<1>9. /\ ReapOK' /\ deaths' \in Nat /\ master' \in Masters /\ master'.pc = "emit"
      /\ master'.masked = master.masked /\ master'.emits = master.emits
  BY <1>1, <1>2, <1>8, TurnTaken
<1>10. QED
  BY <1>1, <1>7, <1>9, AfterRestart

-----------------------------------------------------------------------------
(* The steps of the workers, and what nobody knows *)

\* A process ends otherwise than by restart: its slot keeps it, as a zombie, or there is
\* no slot that knows it.
LEMMA EndedStep ==
  ASSUME DispInv, NEW p \in Pid, worker' = worker, proc' \in Procs, conn' \in Conns,
         Ended(proc, conn, p, {}, proc', conn'),
         \/ proc'[p].child /\ proc'[p].st = "zombie"
         \/ \A s \in Slot : worker[s].pid # p
  PROVE  HoldsOK(proc, conn)' /\ SlotsOK(worker, proc, Slot)' /\ SessOK(worker, proc, conn)'
<1>1. PICK pr \in Procs, w \in Workers, cn \in Conns, pr2 \in Procs, cn2 \in Conns :
        pr = proc /\ w = worker /\ cn = conn /\ pr2 = proc' /\ cn2 = conn'
  BY DEF DispInv, Types
<1>2. /\ HoldsOK(pr, cn) /\ SlotsOK(w, pr, Slot) /\ SessOK(w, pr, cn)
      /\ Ended(pr, cn, p, {}, pr2, cn2)
  BY <1>1 DEF DispInv
<1>3. HoldsOK(pr2, cn2) /\ \A c \in Conn : cn2[c].pid # p
  BY <1>2, EndedHolds
<1>4. \A r \in Pid : r # p => pr2[r] = pr[r]
  BY <1>2 DEF Ended
<1>5. \A s \in Slot : w[s].pid # NoPid => w[s].pid \in Pid
  BY DEF Workers
<1>6. SlotsOK(w, pr2, Slot)
  <2>1. \A s \in Slot : w[s].pid # NoPid => pr2[w[s].pid].child /\ pr2[w[s].pid].st # "free"
    BY <1>1, <1>2, <1>4, <1>5 DEF SlotsOK
  <2>2. QED
    BY <1>2, <2>1 DEF SlotsOK
<1>7. SessOK(w, pr2, cn2)
  <2>1. Away.pid = NoPid
    BY DEF Away
  <2>2. \A c \in Conn : cn2[c].pid # NoPid => cn2[c] = cn[c] /\ cn[c].pid # p /\ cn[c].pid \in Pid
    BY <1>2, <1>3, <2>1 DEF Ended, Conns
  <2>3. QED
    BY <1>2, <1>4, <2>2 DEF SessOK
<1>8. QED
  BY <1>1, <1>3, <1>6, <1>7

\* waitpid returns a process that restart has killed.
LEMMA ReapUnknownKeeps ==
  ASSUME DispInv, ReapUnknown
  PROVE  DispInv'
<1>1. /\ Types /\ ReapOK /\ master.pc = "emit"
      /\ master.loop > 0 /\ master' = [master EXCEPT !.loop = @ - 1]
      /\ UNCHANGED <<daemon, worker, conn, budget, deaths, early>>
  BY DEF ReapUnknown, DispInv, Types
<1>2. PICK p \in Zombies : (\A s \in Slot : worker[s].pid # p) /\ proc' = Reaped(p)
  BY DEF ReapUnknown
<1>3. p \in Pid /\ proc[p].st = "zombie"
  BY <1>2 DEF Zombies
<1>4. /\ proc' \in Procs /\ proc'[p].st = "free" /\ proc'[p].queue = <<>>
      /\ \A r \in Pid : r # p => proc'[r] = proc[r]
  <2>1. NoProc \in [st : {"free", "init", "run", "zombie"}, queue : Seq(Conn), child : BOOLEAN]
        /\ NoProc.st = "free" /\ NoProc.queue = <<>>
    BY DEF NoProc
  <2>2. QED
    BY <1>1, <1>2, <1>3, <2>1 DEF Reaped, Types, Procs
<1>5. Ended(proc, conn, p, {}, proc', conn')
  <2>1. \A c \in Conn : conn[c].pid # p
    BY <1>3, PidIs DEF DispInv, HoldsOK
  <2>2. QED
    BY <1>1, <1>4, <2>1 DEF Ended
<1>6. HoldsOK(proc, conn)' /\ SlotsOK(worker, proc, Slot)' /\ SessOK(worker, proc, conn)'
  <2>1. conn' \in Conns
    BY <1>1 DEF Types
  <2>2. QED
    BY <1>1, <1>2, <1>3, <1>4, <1>5, <2>1, EndedStep
<1>7. Zombies' = Zombies \ {p}
  BY <1>3, <1>4 DEF Zombies
<1>8. /\ ReapOK' /\ deaths' \in Nat /\ master' \in Masters /\ master'.pc = "emit"
      /\ master'.masked = master.masked /\ master'.emits = master.emits
  BY <1>1, <1>2, <1>7, TurnTaken
<1>9. QED
  <2>1. worker' \in Workers /\ conn' \in Conns /\ budget' \in Budgets
    BY <1>1 DEF Types
  <2>2. QED
    BY <1>1, <1>4, <1>6, <1>8, <2>1, AfterRestart

\* A step of a worker after which there are the same zombies.
LEMMA WorkerStep ==
  ASSUME DispInv, UNCHANGED <<daemon, master, worker, deaths, early>>,
         proc' \in Procs, conn' \in Conns, budget' \in Budgets,
         HoldsOK(proc, conn)', SlotsOK(worker, proc, Slot)', SessOK(worker, proc, conn)',
         \A p \in Pid : /\ proc'[p].st = "zombie" <=> proc[p].st = "zombie"
                        /\ proc'[p].child => proc[p].child,
         \A c \in Conn : conn[c].at = "master" => conn'[c] = conn[c]
  PROVE  DispInv'
<1>1. Types'
  BY DEF DispInv, Types
<1>2. BootOK'
  BY DEF DispInv, BootOK
<1>3. TargetOK'
  BY DEF DispInv, TargetOK
<1>4. ReapOK'
  BY ReapSame DEF DispInv
<1>5. QED
  BY <1>1, <1>2, <1>3, <1>4 DEF DispInv

\* The node server enters its loop.
LEMMA WorkerInitKeeps ==
  ASSUME DispInv, NEW p \in Pid, WorkerInit(p)
  PROVE  DispInv'
<1>1. /\ Types /\ proc[p].st = "init"
      /\ proc' = [proc EXCEPT ![p] = [@ EXCEPT !.st = "run"]]
      /\ UNCHANGED <<daemon, master, worker, conn, budget, deaths, early>>
  BY DEF WorkerInit, DispInv
<1>2. PICK pr \in Procs, w \in Workers, cn \in Conns : pr = proc /\ w = worker /\ cn = conn
  BY <1>1 DEF Types
<1>3. /\ proc' \in Procs /\ proc'[p].st = "run" /\ proc'[p].queue = pr[p].queue
      /\ proc'[p].child = pr[p].child
      /\ \A r \in Pid : r # p => proc'[r] = pr[r]
  BY <1>1, <1>2 DEF Procs
<1>4. PICK pr2 \in Procs : pr2 = proc'
  BY <1>3
<1>5. HoldsOK(pr, cn) /\ SlotsOK(w, pr, Slot) /\ SessOK(w, pr, cn)
  BY <1>2 DEF DispInv
<1>6. Carries(pr, pr2)
  BY <1>3, <1>4 DEF Carries
<1>7. HoldsOK(pr2, cn) /\ SessOK(w, pr2, cn)
  BY <1>5, <1>6, CarriesKeeps
<1>8. SlotsOK(w, pr2, Slot)
  <2>1. \A s \in Slot : w[s].pid # NoPid => w[s].pid \in Pid
    BY DEF Workers
  <2>2. \A r \in Pid : pr2[r].child = pr[r].child /\ (pr2[r].st = "free" <=> pr[r].st = "free")
    BY <1>1, <1>2, <1>3, <1>4
  <2>3. QED
    BY <1>5, <2>1, <2>2 DEF SlotsOK
<1>9. HoldsOK(proc, conn)' /\ SlotsOK(worker, proc, Slot)' /\ SessOK(worker, proc, conn)'
  BY <1>1, <1>2, <1>4, <1>7, <1>8
<1>10. \A r \in Pid : /\ proc'[r].st = "zombie" <=> proc[r].st = "zombie"
                      /\ proc'[r].child => proc[r].child
  BY <1>1, <1>2, <1>3
<1>11. conn' \in Conns /\ budget' \in Budgets
  BY <1>1 DEF Types
<1>12. QED
  BY <1>1, <1>3, <1>9, <1>10, <1>11, WorkerStep

\* onRecvFd.
LEMMA OnRecvFdKeeps ==
  ASSUME DispInv, NEW p \in Pid, OnRecvFd(p)
  PROVE  DispInv'
<1>1. /\ Types /\ proc[p].st = "run" /\ proc[p].queue # <<>>
      /\ proc' = [proc EXCEPT ![p].queue = Tail(@)]
      /\ UNCHANGED <<daemon, master, worker, budget, deaths, early>>
  BY DEF OnRecvFd, DispInv
<1>2. PICK pr \in Procs, w \in Workers, cn \in Conns : pr = proc /\ w = worker /\ cn = conn
  BY <1>1 DEF Types
<1>3. PICK q \in Seq(Conn) : q = pr[p].queue /\ q # <<>>
  BY <1>1, <1>2 DEF Procs
<1>4. PICK c \in Conn : c = q[1] /\ c = Head(q)
  BY <1>3
<1> DEFINE q2 == Tail(q)
<1>5. q2 \in Seq(Conn) /\ Dequeued(q, q2)
  BY <1>3 DEF Dequeued
<1> HIDE DEF q2
<1>6. proc' = [pr EXCEPT ![p].queue = q2]
  <2>1. Tail(proc[p].queue) = q2
    BY <1>2, <1>3 DEF q2
  <2>2. proc' = [proc EXCEPT ![p].queue = Tail(proc[p].queue)]
    BY <1>1
  <2>3. QED
    BY <1>2, <2>1, <2>2
<1>7. proc' \in Procs /\ Requeued(pr, p, proc') /\ proc'[p].queue = q2
  BY <1>5, <1>6 DEF Procs, Requeued
<1>8. /\ conn' \in Conns /\ budget' \in Budgets
      /\ \A d \in Conn : d # c => conn'[d] = cn[d]
      /\ conn'[c].at = "worker" /\ conn'[c].pid = cn[c].pid /\ conn'[c].peek = cn[c].peek
  <2>1. conn' = [conn EXCEPT ![c] = [@ EXCEPT !.at = "worker"]]
    BY <1>2, <1>3, <1>4 DEF OnRecvFd
  <2>2. QED
    BY <1>1, <1>2, <2>1 DEF Conns, Types
<1>9. PICK pr2 \in Procs, cn2 \in Conns : pr2 = proc' /\ cn2 = conn'
  BY <1>7, <1>8
<1>10. HoldsOK(pr, cn) /\ SlotsOK(w, pr, Slot) /\ SessOK(w, pr, cn)
  BY <1>2 DEF DispInv
<1>11. HoldsOK(pr2, cn2) /\ SlotsOK(w, pr2, Slot) /\ SessOK(w, pr2, cn2)
  <2>1. Requeued(pr, p, pr2) /\ Dequeued(pr[p].queue, pr2[p].queue)
    BY <1>3, <1>5, <1>7, <1>9
  <2>2. pr[p].queue # <<>> /\ c = pr[p].queue[1]
    BY <1>3, <1>4
  <2>3. /\ \A d \in Conn : d # c => cn2[d] = cn[d]
        /\ cn2[c].at = "worker" /\ cn2[c].pid = cn[c].pid /\ cn2[c].peek = cn[c].peek
    BY <1>8, <1>9
  <2>4. QED
    BY <1>10, <2>1, <2>2, <2>3, ReceivedKeeps
<1>12. HoldsOK(proc, conn)' /\ SlotsOK(worker, proc, Slot)' /\ SessOK(worker, proc, conn)'
  BY <1>1, <1>2, <1>9, <1>11
<1>13. \A r \in Pid : /\ proc'[r].st = "zombie" <=> proc[r].st = "zombie"
                      /\ proc'[r].child => proc[r].child
  BY <1>2, <1>7 DEF Requeued
<1>14. \A d \in Conn : conn[d].at = "master" => conn'[d] = conn[d]
  <2>1. 1 \in DOMAIN q /\ QueueOK(p, q, cn)
    BY <1>3, <1>10 DEF HoldsOK
  <2>2. cn[c].at = "channel"
    BY <1>4, <2>1 DEF QueueOK
  <2>3. QED
    BY <1>2, <1>8, <2>2
<1>15. QED
  BY <1>1, <1>7, <1>8, <1>12, <1>13, <1>14, WorkerStep

\* A process that ends closes what it holds.
LEMMA ClosesHeld ==
  ASSUME DispInv, NEW p \in Pid, conn' = Closed(HeldBy(p)), proc' \in Procs,
         \A r \in Pid : r # p => proc'[r] = proc[r],
         proc'[p].queue = <<>>, proc'[p].st \notin {"init", "run"}
  PROVE  /\ conn' \in Conns /\ Ended(proc, conn, p, {}, proc', conn')
         /\ \A c \in Conn : conn[c].at = "master" => conn'[c] = conn[c]
<1>1. PICK hs : hs = HeldBy(p)
  OBVIOUS
<1>2. conn' = Closed(hs) /\ \A c \in Conn : c \in hs <=> conn[c].pid = p
  BY <1>1 DEF HeldBy
<1>3. conn' \in Conns /\ \A c \in Conn : conn'[c] = IF c \in hs THEN Away ELSE conn[c]
  BY <1>2, ClosedIs DEF DispInv, Types
<1>4. Ended(proc, conn, p, {}, proc', conn')
  BY <1>2, <1>3 DEF Ended
<1>5. \A c \in Conn : conn[c].at = "master" => conn[c].pid = NoPid
  BY DEF DispInv, HoldsOK
<1>6. QED
  BY <1>2, <1>3, <1>4, <1>5, PidIs

\* "Master has exited": the worker ends.
LEMMA MasterGoneKeeps ==
  ASSUME DispInv, NEW p \in Pid, MasterGone(p)
  PROVE  DispInv'
<1>1. /\ Types /\ proc[p].st = "run" /\ ~proc[p].child
      /\ proc' = [proc EXCEPT ![p] = NoProc] /\ conn' = Closed(HeldBy(p))
      /\ UNCHANGED <<daemon, master, worker, budget, deaths, early>>
  BY DEF MasterGone, DispInv
<1>2. /\ proc' \in Procs /\ proc'[p].st = "free" /\ proc'[p].queue = <<>> /\ ~proc'[p].child
      /\ \A r \in Pid : r # p => proc'[r] = proc[r]
  <2>1. NoProc \in [st : {"free", "init", "run", "zombie"}, queue : Seq(Conn), child : BOOLEAN]
        /\ NoProc.st = "free" /\ NoProc.queue = <<>> /\ ~NoProc.child
    BY DEF NoProc
  <2>2. QED
    BY <1>1, <2>1 DEF Types, Procs
<1>3. /\ conn' \in Conns /\ Ended(proc, conn, p, {}, proc', conn')
      /\ \A c \in Conn : conn[c].at = "master" => conn'[c] = conn[c]
  BY <1>1, <1>2, ClosesHeld
<1>4. \A s \in Slot : worker[s].pid # p
  BY <1>1, PidIs DEF DispInv, SlotsOK
<1>5. HoldsOK(proc, conn)' /\ SlotsOK(worker, proc, Slot)' /\ SessOK(worker, proc, conn)'
  BY <1>1, <1>2, <1>3, <1>4, EndedStep
<1>6. \A r \in Pid : /\ proc'[r].st = "zombie" <=> proc[r].st = "zombie"
                     /\ proc'[r].child => proc[r].child
  BY <1>1, <1>2
<1>7. budget' \in Budgets
  BY <1>1 DEF Types
<1>8. QED
  BY <1>1, <1>2, <1>3, <1>5, <1>6, <1>7, WorkerStep

\* A worker dies by itself or because it got no descriptor from recvmsg: a child of the
\* master becomes a zombie, and a SIGCHLD if the signals are blocked; another is gone.
LEMMA WorkerDiesKeeps ==
  ASSUME DispInv, NEW p \in Pid, WorkerDies(p) \/ OnRecvFdFails(p)
  PROVE  DispInv'
<1>1. /\ Types /\ proc[p].st \in {"init", "run"} /\ conn' = Closed(HeldBy(p))
      /\ Dies(p) /\ UNCHANGED <<daemon, worker>>
      /\ \/ budget' = [budget EXCEPT !.crash = @ - 1] /\ budget.crash > 0
         \/ budget' = [budget EXCEPT !.fault = @ - 1] /\ budget.fault > 0
  BY DEF WorkerDies, OnRecvFdFails, Dies, DispInv, Alive
<1>2. budget' \in Budgets /\ proc \in Procs /\ master \in Masters /\ deaths \in Nat
      /\ early \in BOOLEAN
  BY <1>1 DEF Types, Budgets
<1>3. CASE proc[p].child
  <2>1. /\ proc' = Killed(proc, p)
        /\ master' = IF master.masked THEN [master EXCEPT !.sig = @ \union {"CHLD"}] ELSE master
        /\ deaths' = deaths + 1
        /\ early' = (early \/ ~master.masked)
    BY <1>1, <1>3 DEF Dies, Killed
  <2>2. /\ proc' \in Procs /\ proc'[p].st = "zombie" /\ proc'[p].queue = <<>> /\ proc'[p].child
        /\ \A r \in Pid : r # p => proc'[r] = proc[r]
    <3>1. PICK pr \in Procs : pr = proc
      BY <1>2
    <3>2. QED
      BY <1>3, <2>1, <3>1, KilledIs
  <2>3. /\ conn' \in Conns /\ Ended(proc, conn, p, {}, proc', conn')
        /\ \A c \in Conn : conn[c].at = "master" => conn'[c] = conn[c]
    BY <1>1, <2>2, ClosesHeld
  <2>4. HoldsOK(proc, conn)' /\ SlotsOK(worker, proc, Slot)' /\ SessOK(worker, proc, conn)'
    BY <1>1, <2>2, <2>3, EndedStep
  <2>5. /\ master' \in Masters /\ master'.pc = master.pc /\ master'.next = master.next
        /\ master'.masked = master.masked /\ master'.emits = master.emits
        /\ master'.loop = master.loop /\ master'.target = master.target
        /\ master.masked => "CHLD" \in master'.sig
    <3>1. CASE master.masked
      <4>1. master' = [master EXCEPT !.sig = @ \union {"CHLD"}]
        BY <2>1, <3>1
      <4>2. QED
        BY <1>2, <4>1 DEF Masters
    <3>2. CASE ~master.masked
      BY <1>2, <2>1, <3>2
    <3>3. QED
      BY <3>1, <3>2
  <2>6. early' \in BOOLEAN /\ (~early' => ~early /\ master.masked)
    BY <1>2, <2>1, Zenon
  <2>7. deaths' \in Nat
    BY <1>2, <2>1
  <2>8. Types'
    BY <1>1, <1>2, <2>2, <2>3, <2>5, <2>6, <2>7 DEF Types
  <2>9. BootOK'
    BY <1>1, <1>3, <2>2, <2>5 DEF DispInv, BootOK
  <2>10. TargetOK'
    BY <1>1, <2>3, <2>5 DEF DispInv, TargetOK
  <2>11. ReapOK'
    <3>1. Zombies' = Zombies \union {p}
      BY <2>2 DEF Zombies
    <3>2. PICK n \in Nat, k \in Nat :
            n = Cardinality(Zombies) /\ k = Cardinality(Zombies)' /\ k <= n + 1
      BY <3>1, ZombiesFinite, ZombieCount
    <3>3. PICK m \in Int : m = (IF master.pc = "emit" THEN ReapLoop - master.loop ELSE 0)
      BY <1>2 DEF Masters, ReapLoop
    <3>4. n + m <= deaths
      BY <3>2, <3>3 DEF DispInv, ReapOK
    <3>5. k + m <= deaths + 1
      BY <1>2, <3>2, <3>4
    <3>6. m = (IF master'.pc = "emit" THEN ReapLoop - master'.loop ELSE 0)
      BY <2>5, <3>3
    <3>7. QED
      BY <2>1, <2>5, <2>6, <3>2, <3>5, <3>6 DEF ReapOK
  <2>12. QED
    BY <2>4, <2>8, <2>9, <2>10, <2>11 DEF DispInv
<1>4. CASE ~proc[p].child
  <2>1. proc' = [proc EXCEPT ![p] = NoProc] /\ UNCHANGED <<master, deaths, early>>
    BY <1>1, <1>4 DEF Dies
  <2>2. /\ proc' \in Procs /\ proc'[p].st = "free" /\ proc'[p].queue = <<>> /\ ~proc'[p].child
        /\ \A r \in Pid : r # p => proc'[r] = proc[r]
    <3>1. NoProc \in [st : {"free", "init", "run", "zombie"}, queue : Seq(Conn), child : BOOLEAN]
          /\ NoProc.st = "free" /\ NoProc.queue = <<>> /\ ~NoProc.child
      BY DEF NoProc
    <3>2. QED
      BY <1>2, <2>1, <3>1 DEF Procs
  <2>3. /\ conn' \in Conns /\ Ended(proc, conn, p, {}, proc', conn')
        /\ \A c \in Conn : conn[c].at = "master" => conn'[c] = conn[c]
    BY <1>1, <2>2, ClosesHeld
  <2>4. \A s \in Slot : worker[s].pid # p
    BY <1>4, PidIs DEF DispInv, SlotsOK
  <2>5. HoldsOK(proc, conn)' /\ SlotsOK(worker, proc, Slot)' /\ SessOK(worker, proc, conn)'
    BY <1>1, <2>2, <2>3, <2>4, EndedStep
  <2>6. \A r \in Pid : /\ proc'[r].st = "zombie" <=> proc[r].st = "zombie"
                       /\ proc'[r].child => proc[r].child
    BY <1>1, <2>2
  <2>7. QED
    BY <1>1, <1>2, <2>1, <2>2, <2>3, <2>5, <2>6, WorkerStep
<1>5. QED
  BY <1>3, <1>4

-----------------------------------------------------------------------------
(* The theorems *)

\* Before the daemon forks.
LEMMA InitDisp == Init => DispInv
<1>1. SUFFICES ASSUME Init
               PROVE  DispInv
  OBVIOUS
<1>2. /\ master \in Masters /\ master.pc = "none" /\ master.next = 0 /\ ~master.masked
      /\ worker \in Workers /\ \A s \in Slot : worker[s].pid = NoPid /\ worker[s].status = "Init"
  BY <1>1, NoMasterIs DEF Init
<1>3. proc \in Procs /\ \A p \in Pid : proc[p].st = "free" /\ proc[p].queue = <<>> /\ ~proc[p].child
  <2>1. NoProc \in [st : {"free", "init", "run", "zombie"}, queue : Seq(Conn), child : BOOLEAN]
        /\ NoProc.st = "free" /\ NoProc.queue = <<>> /\ ~NoProc.child
    BY DEF NoProc
  <2>2. QED
    BY <1>1, <2>1 DEF Init, Procs
<1>4. conn \in Conns /\ \A c \in Conn : conn[c].at = "away" /\ conn[c].pid = NoPid
  <2>1. /\ Away \in [at : {"away", "backlog", "master", "channel", "worker"},
                     pid : Pid \union {NoPid}, data : {"none", "part", "all"}, eof : BOOLEAN,
                     peek : Ids]
        /\ Away.at = "away" /\ Away.pid = NoPid
    BY DEF Away, Ids
  <2>2. QED
    BY <1>1, <2>1 DEF Init, Conns
<1>5. Types
  <2>1. budget \in Budgets
    BY <1>1, DispatcherAssumption DEF Init, Budgets
  <2>2. QED
    BY <1>1, <1>2, <1>3, <1>4, <2>1 DEF Init, Types
<1>6. HoldsOK(proc, conn)
  <2>1. ASSUME NEW p \in Pid
        PROVE  QueueOK(p, <<>>, conn)
    BY <1>4, PidIs, DispatcherAssumption DEF QueueOK
  <2>2. QED
    BY <1>3, <1>4, <2>1 DEF HoldsOK
<1>7. SlotsOK(worker, proc, Slot) /\ SessOK(worker, proc, conn)
  BY <1>2, <1>4 DEF SlotsOK, SessOK
<1>8. BootOK /\ TargetOK
  BY <1>2, <1>3 DEF BootOK, TargetOK
<1>9. ReapOK
  <2>1. Zombies = {}
    BY <1>3 DEF Zombies
  <2>2. QED
    BY <1>1, <1>2, <2>1, FS_EmptySet DEF Init, ReapOK
<1>10. QED
  BY <1>5, <1>6, <1>7, <1>8, <1>9 DEF DispInv

\* Every step of the daemon, the master, the workers and the clients.
LEMMA StepDisp == DispInv /\ [Next]_vars => DispInv'
<1>1. SUFFICES ASSUME DispInv, [Next]_vars
               PROVE  DispInv'
  OBVIOUS
<1>2. CASE Startup
  BY <1>1, <1>2, ForkMasterKeeps, CreateAcceptorKeeps, StartWorkerKeeps, StartSignalsKeeps
     DEF Startup
<1>3. CASE OnAccept
  BY <1>1, <1>3, OnAcceptKeeps
<1>4. CASE Sending
  BY <1>1, <1>4, SendFdKeeps, SendFdToDeadKeeps DEF Sending
<1>5. CASE ReadSignals
  BY <1>1, <1>5, ReadSignalsKeeps
<1>6. CASE Emitting
  BY <1>1, <1>6, EmitReturnsKeeps, ReapWorkerKeeps, ReapUnknownKeeps DEF Emitting
<1>7. CASE Faults
  BY <1>1, <1>7, ForkMasterFailsKeeps, MasterDiesKeeps, SendFdFailsKeeps, WorkerDiesKeeps
     DEF Faults
<1>8. CASE \E c \in Conn : Dispatch(c) \/ WorkerCloses(c) \/ Client(c)
  BY <1>1, <1>8, DispatchKeeps, WorkerClosesKeeps, ClientKeeps
<1>9. CASE \E p \in Pid : WorkerLoop(p)
  BY <1>1, <1>9, WorkerInitKeeps, OnRecvFdKeeps, MasterGoneKeeps DEF WorkerLoop
<1>10. CASE UNCHANGED vars
  <2>1. UNCHANGED <<daemon, master, worker, proc, conn, budget, deaths, early>>
    BY <1>10 DEF vars
  <2>2. Types' /\ BootOK' /\ TargetOK'
    BY <1>1, <2>1 DEF DispInv, Types, BootOK, TargetOK
  <2>3. ReapOK'
    BY <1>1, <2>1, ReapSame DEF DispInv
  <2>4. HoldsOK(proc, conn)' /\ SlotsOK(worker, proc, Slot)' /\ SessOK(worker, proc, conn)'
    BY <1>1, <2>1 DEF DispInv
  <2>5. QED
    BY <2>2, <2>3, <2>4 DEF DispInv
<1>11. QED
  BY <1>1, <1>2, <1>3, <1>4, <1>5, <1>6, <1>7, <1>8, <1>9, <1>10 DEF Next

\* The invariant holds throughout.
LEMMA DispHolds == Spec => []DispInv
<1>1. QED
  BY InitDisp, StepDisp, PTL DEF Spec

\* dispatch and restart: however workers die, are killed and are replaced, connections
\* dispatched by one id are never at two live workers of the same master at a time.
THEOREM SessionsStaySerial == Spec => []SerialSessions
<1>1. DispInv => SerialSessions
  <2>1. SUFFICES ASSUME DispInv, NEW c \in Conn, NEW d \in Conn,
                        conn[c].pid # NoPid, conn[d].pid # NoPid, conn[c].pid # conn[d].pid,
                        conn[c].peek = conn[d].peek
                 PROVE  ~proc[conn[c].pid].child \/ ~proc[conn[d].pid].child
    BY DEF SerialSessions
  <2>2. /\ proc[conn[c].pid].child => worker[conn[c].peek % numWorker].pid = conn[c].pid
        /\ proc[conn[d].pid].child => worker[conn[d].peek % numWorker].pid = conn[d].pid
    BY <2>1 DEF DispInv, SessOK
  <2>3. QED
    BY <2>1, <2>2
<1>2. QED
  BY <1>1, DispHolds, PTL

\* sendFd, onRecvFd, restart and the ends of processes: every descriptor that was passed on
\* belongs to one live process, and is once in its channel or among its connections.
THEOREM ConnsHeldByTheLiving == Spec => []HeldByTheLiving
<1>1. DispInv => HeldByTheLiving
  <2>1. SUFFICES ASSUME DispInv
                 PROVE  HeldByTheLiving
    OBVIOUS
  <2>2. PICK pr \in Procs, cn \in Conns : pr = proc /\ cn = conn
    BY <2>1 DEF DispInv, Types
  <2>3. HoldsOK(pr, cn)
    BY <2>1, <2>2 DEF DispInv
  <2>4. \A p \in Pid : /\ proc[p].st \in {"free", "init", "run", "zombie"}
                       /\ proc[p].queue \in Seq(Conn)
                       /\ Len(proc[p].queue) <= ChannelSize
    BY <2>2, <2>3 DEF Procs, HoldsOK, QueueOK
  <2>5. TypeOK
    BY <2>1, <2>4 DEF DispInv, Types, Masters, Workers, Conns, TypeOK
  <2>6. ASSUME NEW c \in Conn, cn[c].pid # NoPid
        PROVE  /\ pr[cn[c].pid].st \in {"init", "run"}
               /\ Cardinality({i \in DOMAIN pr[cn[c].pid].queue : pr[cn[c].pid].queue[i] = c})
                    = (IF cn[c].at = "channel" THEN 1 ELSE 0)
    <3>1. PICK p \in Pid : p = cn[c].pid
      BY <2>6 DEF Conns
    <3>2. PICK q \in Seq(Conn) : q = pr[p].queue
      BY DEF Procs
    <3>3. QueueOK(p, q, cn) /\ pr[p].st \in {"init", "run"}
      BY <2>3, <2>6, <3>1, <3>2 DEF HoldsOK
    <3>4. PICK z : z = {i \in DOMAIN q : q[i] = c}
      OBVIOUS
    <3>5. CASE cn[c].at = "channel"
      <4>1. PICK i \in DOMAIN q : q[i] = c
        BY <3>1, <3>3, <3>5 DEF QueueOK
      <4>2. z = {i}
        BY <3>3, <3>4, <4>1 DEF QueueOK
      <4>3. Cardinality(z) = 1
        BY <4>2, FS_Singleton
      <4>4. QED
        BY <3>1, <3>2, <3>3, <3>4, <3>5, <4>3
    <3>6. CASE cn[c].at # "channel"
      <4>1. z = {}
        BY <3>3, <3>4, <3>6 DEF QueueOK
      <4>2. Cardinality(z) = 0
        BY <4>1, FS_EmptySet
      <4>3. QED
        BY <3>1, <3>2, <3>3, <3>4, <3>6, <4>2
    <3>7. QED
      BY <3>5, <3>6
  <2>7. \A p \in Pid : \A i \in DOMAIN pr[p].queue : cn[pr[p].queue[i]].pid = p
    BY <2>3 DEF HoldsOK, QueueOK
  <2>8. \A c \in Conn : (cn[c].at \in {"channel", "worker"}) <=> (cn[c].pid # NoPid)
    BY <2>3 DEF HoldsOK
  <2>9. QED
    BY <2>2, <2>5, <2>6, <2>7, <2>8 DEF HeldByTheLiving, Alive
<1>2. QED
  BY <1>1, DispHolds, PTL

\* onEmit: with up to three deaths, none of them before the signals were blocked, no slot is
\* left with a dead worker and no signal that would have it replaced.
THEOREM DeadWorkersNoticed == Spec => []ReapedUpToThree
<1>1. DispInv => ReapedUpToThree
  <2>1. SUFFICES ASSUME DispInv, NEW s \in Slot, Stranded(s), ~early, ~(deaths > ReapLoop)
                 PROVE  FALSE
    BY DEF ReapedUpToThree
  <2>2. PICK p \in Pid : p = worker[s].pid /\ proc[p].st # "free"
    BY <2>1 DEF Stranded, DispInv, SlotsOK, Types, Workers
  <2>3. p \in Zombies
    BY <2>1, <2>2 DEF Stranded, Alive, Zombies, DispInv, Types, Procs
  <2>4. deaths <= ReapLoop
    BY <2>1 DEF DispInv, Types, ReapLoop
  <2>5. Zombies = {}
    BY <2>1, <2>4 DEF DispInv, ReapOK, Stranded
  <2>6. QED
    BY <2>3, <2>5
<1>2. QED
  BY <1>1, DispHolds, PTL
=============================================================================
