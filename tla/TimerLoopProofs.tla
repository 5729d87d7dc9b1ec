--------------------------- MODULE TimerLoopProofs --------------------------
(***************************************************************************)
(* Proofs about TimerLoop, for any connections, managers and timeouts: the *)
(* list of timers, the fold over it in the deletion of connections, and    *)
(* the counter of the elapsed time, which wraps around.                    *)
(***************************************************************************)
EXTENDS TimerLoop, FiniteSetTheorems, NaturalsInduction, WellFoundedInduction, TLAPS

Half == IntRange \div 2

\* A node of the list.
Node == [expire : Delay, elapsed : -Half..(Half - 1), handler : Handler, age : Nat]

\* The nodes of a list, and whether a handler has one.
Nodes(ts) == {ts[i] : i \in DOMAIN ts}
Has(ts, h) == \E n \in Nodes(ts) : n.handler = h

\* No handler has two nodes, and the nodes that deletions left are the first.
Distinct(ts) == \A i, j \in DOMAIN ts : ts[i].handler = ts[j].handler => i = j
LeftFirst(ts) ==
  \A i, j \in DOMAIN ts : i < j /\ ts[j].expire = INFTIMO => ts[i].expire = INFTIMO
WellFormed(ts) == Distinct(ts) /\ LeftFirst(ts)

-----------------------------------------------------------------------------
(* Sets of numbers *)

\* A set of natural numbers that is not empty has a least element.
LEMMA LeastNat ==
  ASSUME NEW T, T \subseteq Nat, T # {}
  PROVE  \E m \in T : \A k \in T : m <= k
<1> DEFINE R == {ss \in Nat \X Nat : ss[1] < ss[2]}
<1>1. IsWellFoundedOn(R, Nat)
  BY NatLessThanWellFounded DEF OpToRel
<1>2. PICK m \in T : \A k \in T : ~ (<<k, m>> \in R)
  BY <1>1, WFMin
<1>3. \A k \in T : ~(k < m)
  BY <1>2
<1>4. QED
  BY <1>3

\* The first index of the loops of addTimer and checkTimer.
LEMMA MinIn ==
  ASSUME NEW T, T \subseteq Nat, T # {}
  PROVE  Min(T) \in T /\ \A k \in T : Min(T) <= k
BY LeastNat DEF Min

\* The greatest element of a set of indices.
LEMMA MaxIs ==
  ASSUME NEW n \in Nat, NEW s \in SUBSET (1..n), n \in s
  PROVE  Max(s) = n
<1>1. \A y \in s : n >= y
  OBVIOUS
<1>2. Max(s) \in s /\ \A y \in s : Max(s) >= y
  BY <1>1 DEF Max
<1>3. Max(s) \in 1..n /\ Max(s) >= n
  BY <1>2
<1>4. QED
  BY <1>3

-----------------------------------------------------------------------------
(* addTimer *)

\* Two parts of a list put together.
LEMMA ConcatIs ==
  ASSUME NEW S, NEW a \in Seq(S), NEW b \in Seq(S)
  PROVE  /\ a \o b \in Seq(S) /\ Len(a \o b) = Len(a) + Len(b)
         /\ \A j \in 1..Len(a) + Len(b) : (a \o b)[j] = IF j <= Len(a) THEN a[j] ELSE b[j - Len(a)]
OBVIOUS

\* _timers.erase.
LEMMA RemoveAtIs ==
  ASSUME NEW S, NEW ts \in Seq(S), NEW k \in 1..Len(ts)
  PROVE  /\ RemoveAt(ts, k) \in Seq(S) /\ Len(RemoveAt(ts, k)) = Len(ts) - 1
         /\ \A j \in 1..Len(ts) - 1 :
              RemoveAt(ts, k)[j] = IF j < k THEN ts[j] ELSE ts[j + 1]
<1> DEFINE a == SubSeq(ts, 1, k - 1)
           b == SubSeq(ts, k + 1, Len(ts))
<1>1. /\ a \in Seq(S) /\ Len(a) = k - 1 /\ \A j \in 1..k - 1 : a[j] = ts[j]
  OBVIOUS
<1>2. /\ b \in Seq(S) /\ Len(b) = Len(ts) - k /\ \A j \in 1..Len(ts) - k : b[j] = ts[j + k]
  OBVIOUS
<1>3. RemoveAt(ts, k) = a \o b
  BY DEF RemoveAt
<1> HIDE DEF a, b
<1>4. /\ a \o b \in Seq(S) /\ Len(a \o b) = Len(ts) - 1
      /\ \A j \in 1..Len(ts) - 1 : (a \o b)[j] = IF j < k THEN a[j] ELSE b[j - (k - 1)]
  <2>1. Len(a) + Len(b) = Len(ts) - 1
    BY <1>1, <1>2
  <2>2. /\ a \o b \in Seq(S) /\ Len(a \o b) = Len(a) + Len(b)
        /\ \A j \in 1..Len(a) + Len(b) : (a \o b)[j] = IF j <= Len(a) THEN a[j] ELSE b[j - Len(a)]
    BY <1>1, <1>2, ConcatIs
  <2>3. QED
    BY <1>1, <2>1, <2>2
<1>5. \A j \in 1..Len(ts) - 1 :
        /\ j < k => a[j] = ts[j]
        /\ j >= k => b[j - (k - 1)] = ts[j + 1]
  BY <1>1, <1>2
<1>6. QED
  BY <1>3, <1>4, <1>5

\* The list r is ts with e at place k.
Inserted(r, ts, k, e, S) ==
  /\ r \in Seq(S) /\ Len(r) = Len(ts) + 1
  /\ \A j \in 1..Len(ts) + 1 : r[j] = IF j < k THEN ts[j] ELSE IF j = k THEN e ELSE ts[j - 1]

\* _timers.insert.
LEMMA InsertAtIs ==
  ASSUME NEW S, NEW ts \in Seq(S), NEW k \in 1..Len(ts) + 1, NEW e \in S
  PROVE  Inserted(InsertAt(ts, k, e), ts, k, e, S)
<1> DEFINE a == SubSeq(ts, 1, k - 1)
           b == SubSeq(ts, k, Len(ts))
           c == a \o <<e>>
<1>1. /\ a \in Seq(S) /\ Len(a) = k - 1 /\ \A j \in 1..k - 1 : a[j] = ts[j]
  OBVIOUS
<1>2. /\ b \in Seq(S) /\ Len(b) = Len(ts) - k + 1
      /\ \A j \in 1..Len(ts) - k + 1 : b[j] = ts[j + k - 1]
  OBVIOUS
<1>3. InsertAt(ts, k, e) = c \o b
  BY DEF InsertAt
<1> HIDE DEF a, b
<1>4. /\ c \in Seq(S) /\ Len(c) = k
      /\ \A j \in 1..k : c[j] = IF j < k THEN a[j] ELSE e
  BY <1>1
<1> HIDE DEF c
<1>5. /\ c \o b \in Seq(S) /\ Len(c \o b) = Len(ts) + 1
      /\ \A j \in 1..Len(ts) + 1 : (c \o b)[j] = IF j <= k THEN c[j] ELSE b[j - k]
  BY <1>2, <1>4
<1>6. \A j \in 1..Len(ts) + 1 :
        /\ j < k => c[j] = ts[j]
        /\ j = k => c[j] = e
        /\ j > k => b[j - k] = ts[j - 1]
  <2>1. ASSUME NEW j \in 1..Len(ts) + 1, j > k
        PROVE  b[j - k] = ts[j - 1]
    <3>1. j - k \in 1..Len(ts) - k + 1 /\ (j - k) + k - 1 = j - 1
      BY <2>1
    <3>2. QED
      BY <1>2, <3>1
  <2>2. QED
    BY <1>1, <1>4, <2>1
<1>7. QED
  BY <1>3, <1>5, <1>6 DEF Inserted

\* Deleting the only node of a handler.
LEMMA RemoveNode ==
  ASSUME NEW ts \in Seq(Node), WellFormed(ts), NEW k \in DOMAIN ts
  PROVE  /\ RemoveAt(ts, k) \in Seq(Node) /\ WellFormed(RemoveAt(ts, k))
         /\ Nodes(RemoveAt(ts, k)) = {n \in Nodes(ts) : n.handler # ts[k].handler}
<1> DEFINE r == RemoveAt(ts, k)
<1>1. k \in 1..Len(ts) /\ DOMAIN ts = 1..Len(ts) /\ Len(ts) \in Nat
  OBVIOUS
<1> HIDE DEF r
<1>8. /\ r \in Seq(Node) /\ Len(r) = Len(ts) - 1
      /\ \A j \in 1..Len(ts) - 1 : r[j] = IF j < k THEN ts[j] ELSE ts[j + 1]
  BY <1>1, RemoveAtIs DEF r
<1>2. /\ r \in Seq(Node) /\ Len(r) = Len(ts) - 1 /\ DOMAIN r = 1..Len(ts) - 1
      /\ \A j \in 1..Len(ts) - 1 : r[j] = IF j < k THEN ts[j] ELSE ts[j + 1]
  BY <1>8
<1>3. WellFormed(r)
  <2>1. ASSUME NEW i \in 1..Len(ts) - 1, NEW j \in 1..Len(ts) - 1
        PROVE  /\ r[i].handler = r[j].handler => i = j
               /\ i < j /\ r[j].expire = INFTIMO => r[i].expire = INFTIMO
    <3> DEFINE i0 == IF i < k THEN i ELSE i + 1
               j0 == IF j < k THEN j ELSE j + 1
    <3>1. i0 \in DOMAIN ts /\ j0 \in DOMAIN ts /\ r[i] = ts[i0] /\ r[j] = ts[j0]
      BY <1>1, <1>2
    <3>2. (i0 = j0 => i = j) /\ (i < j => i0 < j0)
      BY <1>1
    <3> HIDE DEF i0, j0
    <3>3. QED
      BY <3>1, <3>2 DEF WellFormed, Distinct, LeftFirst
  <2>2. QED
    BY <1>2, <2>1 DEF WellFormed, Distinct, LeftFirst
<1>4. ASSUME NEW n \in Nodes(r)
      PROVE  n \in Nodes(ts) /\ n.handler # ts[k].handler
  <2>1. PICK j \in 1..Len(ts) - 1 : n = r[j]
    BY <1>2 DEF Nodes
  <2>2. PICK i \in 1..Len(ts) : n = ts[i] /\ i # k
    BY <1>1, <1>2, <2>1
  <2>3. QED
    BY <1>1, <2>2 DEF Nodes, WellFormed, Distinct
<1>5. ASSUME NEW n \in Nodes(ts), n.handler # ts[k].handler
      PROVE  n \in Nodes(r)
  <2>1. PICK i \in 1..Len(ts) : n = ts[i] /\ i # k
    BY <1>1, <1>5 DEF Nodes
  <2>2. \E j \in 1..Len(ts) - 1 : r[j] = n
    <3>1. CASE i < k
      BY <1>1, <1>2, <2>1, <3>1
    <3>2. CASE i > k
      <4>1. i - 1 \in 1..Len(ts) - 1 /\ r[i - 1] = ts[i]
        BY <1>1, <1>2, <2>1, <3>2
      <4>2. QED
        BY <2>1, <4>1
    <3>3. QED
      BY <1>1, <2>1, <3>1, <3>2
  <2>3. QED
    BY <1>2, <2>2 DEF Nodes
<1>6. Nodes(r) = {n \in Nodes(ts) : n.handler # ts[k].handler}
  BY <1>4, <1>5
<1>7. QED
  BY <1>2, <1>3, <1>6 DEF r

\* The place k is not before a node that a deletion left, unless the timeout t is one too,
\* which has only such nodes before it.
Fits(ts, k, t) ==
  /\ t = INFTIMO => \A j \in 1..k - 1 : ts[j].expire = INFTIMO
  /\ t # INFTIMO => \A j \in k..Len(ts) : ts[j].expire # INFTIMO

\* Inserting a node for a handler that has none.
LEMMA InsertNode ==
  ASSUME NEW ts \in Seq(Node), WellFormed(ts), NEW e \in Node, ~Has(ts, e.handler),
         NEW k \in 1..Len(ts) + 1, Fits(ts, k, e.expire)
  PROVE  /\ InsertAt(ts, k, e) \in Seq(Node) /\ WellFormed(InsertAt(ts, k, e))
         /\ Nodes(InsertAt(ts, k, e)) = Nodes(ts) \union {e}
<1> DEFINE r == InsertAt(ts, k, e)
<1>1. DOMAIN ts = 1..Len(ts) /\ Len(ts) \in Nat
  OBVIOUS
<1> HIDE DEF r
<1>8. /\ r \in Seq(Node) /\ Len(r) = Len(ts) + 1
      /\ \A j \in 1..Len(ts) + 1 : r[j] = IF j < k THEN ts[j] ELSE IF j = k THEN e ELSE ts[j - 1]
  <2>1. Inserted(InsertAt(ts, k, e), ts, k, e, Node)
    BY InsertAtIs, Zenon
  <2>2. QED
    BY <2>1, Zenon DEF r, Inserted
<1>2. /\ r \in Seq(Node) /\ Len(r) = Len(ts) + 1 /\ DOMAIN r = 1..Len(ts) + 1
      /\ \A j \in 1..Len(ts) + 1 : r[j] = IF j < k THEN ts[j] ELSE IF j = k THEN e ELSE ts[j - 1]
  BY <1>8
<1>3. \A i \in 1..Len(ts) : ts[i].handler # e.handler
  BY <1>1 DEF Has, Nodes
<1>4a. LeftFirst(r)
  <2>1. SUFFICES ASSUME NEW i \in 1..Len(ts) + 1, NEW j \in 1..Len(ts) + 1,
                        i < j, r[j].expire = INFTIMO
                 PROVE  r[i].expire = INFTIMO
    BY <1>2 DEF LeftFirst
  <2>2. CASE i = k
    <3>1. j - 1 \in k..Len(ts) /\ r[j] = ts[j - 1] /\ r[i] = e
      BY <1>1, <1>2, <2>1, <2>2
    <3>2. QED
      BY <2>1, <3>1 DEF Fits
  <2>3. CASE j = k
    <3>1. i \in 1..k - 1 /\ r[i] = ts[i] /\ r[j] = e
      BY <1>1, <1>2, <2>1, <2>3
    <3>2. QED
      BY <2>1, <3>1 DEF Fits
  <2>4. CASE i # k /\ j # k
    <3> DEFINE i0 == IF i < k THEN i ELSE i - 1
               j0 == IF j < k THEN j ELSE j - 1
    <3>1. i0 \in DOMAIN ts /\ j0 \in DOMAIN ts /\ r[i] = ts[i0] /\ r[j] = ts[j0] /\ i0 < j0
      BY <1>1, <1>2, <2>1, <2>4
    <3> HIDE DEF i0, j0
    <3>2. QED
      BY <2>1, <3>1 DEF WellFormed, LeftFirst
  <2>5. QED
    BY <2>2, <2>3, <2>4
<1>4. Distinct(r)
  <2>1. SUFFICES ASSUME NEW i \in 1..Len(ts) + 1, NEW j \in 1..Len(ts) + 1,
                        r[i].handler = r[j].handler
                 PROVE  i = j
    BY <1>2 DEF Distinct
  <2>2. \A l \in 1..Len(ts) + 1 : l # k => r[l].handler # e.handler
    BY <1>1, <1>2, <1>3
  <2>3. r[k].handler = e.handler
    BY <1>1, <1>2
  <2>4. CASE i = k \/ j = k
    BY <2>1, <2>2, <2>3, <2>4
  <2>5. CASE i # k /\ j # k
    <3> DEFINE i0 == IF i < k THEN i ELSE i - 1
               j0 == IF j < k THEN j ELSE j - 1
    <3>1. i0 \in 1..Len(ts) /\ j0 \in 1..Len(ts) /\ r[i] = ts[i0] /\ r[j] = ts[j0]
      BY <1>1, <1>2, <2>5
    <3>2. i0 = j0
      BY <1>1, <2>1, <3>1 DEF WellFormed, Distinct
    <3>3. QED
      BY <1>1, <2>5, <3>2
  <2>6. QED
    BY <2>4, <2>5
<1>5. Nodes(r) \subseteq Nodes(ts) \union {e}
  <2>1. ASSUME NEW j \in 1..Len(ts) + 1
        PROVE  r[j] \in Nodes(ts) \union {e}
    <3>1. CASE j = k
      BY <1>1, <1>2, <3>1
    <3>2. CASE j # k
      <4> DEFINE i == IF j < k THEN j ELSE j - 1
      <4>1. i \in 1..Len(ts)
        BY <1>1, <3>2
      <4>2. r[j] = ts[i]
        BY <1>2, <3>2
      <4>3. QED
        BY <1>1, <4>1, <4>2 DEF Nodes
    <3>3. QED
      BY <3>1, <3>2
  <2>2. QED
    BY <1>2, <2>1 DEF Nodes
<1>6. Nodes(ts) \union {e} \subseteq Nodes(r)
  <2>1. e \in Nodes(r)
    BY <1>1, <1>2 DEF Nodes
  <2>2. ASSUME NEW i \in 1..Len(ts)
        PROVE  ts[i] \in Nodes(r)
    <3>1. CASE i < k
      BY <1>1, <1>2, <3>1 DEF Nodes
    <3>2. CASE i >= k
      <4>1. i + 1 \in DOMAIN r /\ r[i + 1] = ts[i]
        BY <1>1, <1>2, <3>2
      <4>2. QED
        BY <4>1 DEF Nodes
    <3>3. QED
      BY <1>1, <3>1, <3>2
  <2>3. QED
    BY <1>1, <2>1, <2>2 DEF Nodes
<1>7. QED
  BY <1>2, <1>4, <1>4a, <1>5, <1>6 DEF r, WellFormed

\* The counters, as far as a new node holds them.
CountersTyped == elapsed \in -Half..(Half - 1) /\ pending \in Nat

\* A new node.
LEMMA NodeTyped ==
  ASSUME CountersTyped, NEW t \in Delay, NEW h \in Handler
  PROVE  /\ TimerNode(t, h) \in Node
         /\ TimerNode(t, h).expire = t /\ TimerNode(t, h).handler = h
         /\ TimerNode(t, h).elapsed = elapsed /\ TimerNode(t, h).age = pending
BY DEF CountersTyped, TimerNode, Node

\* The place that addTimer finds for a timeout.
LEMMA PlaceFound ==
  ASSUME NEW ts \in Seq(Node), WellFormed(ts), NEW t \in Delay, NEW k,
         k = Min({i \in DOMAIN ts : t < ts[i].expire} \cup {Len(ts) + 1})
  PROVE  k \in 1..Len(ts) + 1 /\ Fits(ts, k, t)
<1> DEFINE T == {i \in DOMAIN ts : t < ts[i].expire} \cup {Len(ts) + 1}
<1>1. /\ T \subseteq 1..Len(ts) + 1 /\ T # {} /\ T \subseteq Nat
      /\ Len(ts) \in Nat /\ DOMAIN ts = 1..Len(ts)
  OBVIOUS
<1>2. \A i \in DOMAIN ts : i \in T <=> t < ts[i].expire
  BY <1>1
<1> HIDE DEF T
<1>3. k \in T /\ k \in Nat /\ \A j \in T : k <= j
  BY <1>1, MinIn DEF T
<1>4. k \in 1..Len(ts) + 1
  BY <1>1, <1>3
<1>5. \A d \in Delay : d = INFTIMO \/ d \in Nat
  BY TimerAssumption DEF Delay
<1>6. \A i \in DOMAIN ts : ts[i].expire \in Delay
  <2>1. \A i \in DOMAIN ts : ts[i] \in Node
    OBVIOUS
  <2>2. \A n \in Node : n.expire \in Delay
    BY DEF Node
  <2>3. QED
    BY <2>1, <2>2
<1>7. ASSUME t = INFTIMO, NEW j \in 1..k - 1
      PROVE  ts[j].expire = INFTIMO
  <2>1. j \in DOMAIN ts /\ j \notin T
    BY <1>1, <1>3, <1>4
  <2>2. ~(INFTIMO < ts[j].expire)
    BY <1>2, <1>7, <2>1
  <2>3. QED
    BY <1>5, <1>6, <2>1, <2>2 DEF INFTIMO
<1>8. ASSUME t # INFTIMO, NEW j \in k..Len(ts)
      PROVE  ts[j].expire # INFTIMO
  <2>1. j \in DOMAIN ts /\ k \in DOMAIN ts /\ (k = j \/ k < j)
    BY <1>1, <1>4
  <2>2. t < ts[k].expire
    BY <1>2, <1>3, <2>1
  <2>3. ts[k].expire # INFTIMO
    BY <1>5, <1>8, <2>2 DEF INFTIMO
  <2>4. QED
    BY <2>1, <2>3 DEF WellFormed, LeftFirst
<1>9. QED
  BY <1>4, <1>7, <1>8 DEF Fits

\* addTimer with INFTIMO: the node of the handler goes, or one that is due at once comes.
LEMMA DeleteTimer ==
  ASSUME CountersTyped, NEW ts \in Seq(Node), WellFormed(ts), NEW h \in Handler
  PROVE  /\ AddTimer(ts, INFTIMO, h) \in Seq(Node) /\ WellFormed(AddTimer(ts, INFTIMO, h))
         /\ Nodes(AddTimer(ts, INFTIMO, h)) =
              IF Has(ts, h) THEN {n \in Nodes(ts) : n.handler # h}
              ELSE Nodes(ts) \union {TimerNode(INFTIMO, h)}
<1> DEFINE own == {i \in DOMAIN ts : ts[i].handler = h}
           place == Min({i \in DOMAIN ts : INFTIMO < ts[i].expire} \cup {Len(ts) + 1})
           new == TimerNode(INFTIMO, h)
<1>1. own \subseteq Nat /\ (Has(ts, h) <=> own # {})
  BY DEF Has, Nodes
<1>2. AddTimer(ts, INFTIMO, h) = IF own # {} THEN RemoveAt(ts, Min(own)) ELSE InsertAt(ts, place, new)
  <2>1. INFTIMO < 0
    BY DEF INFTIMO
  <2>2. CASE own # {}
    BY <2>1, <2>2 DEF AddTimer
  <2>3. CASE own = {}
    BY <2>1, <2>3 DEF AddTimer
  <2>4. QED
    BY <2>2, <2>3
<1>3. place \in 1..Len(ts) + 1 /\ Fits(ts, place, INFTIMO)
  BY PlaceFound DEF Delay
<1>4. new \in Node /\ new.handler = h /\ new.expire = INFTIMO
  BY NodeTyped DEF Delay
<1> HIDE DEF own, place, new
<1>5. CASE own # {}
  <2>1. Min(own) \in own
    BY <1>1, <1>5, MinIn
  <2>2. PICK k \in DOMAIN ts : k = Min(own) /\ ts[k].handler = h
    BY <2>1 DEF own
  <2>3. QED
    BY <1>1, <1>2, <1>5, <2>2, RemoveNode
<1>6. CASE own = {}
  <2>1. PICK k \in 1..Len(ts) + 1, e \in Node : k = place /\ e = new
    BY <1>3, <1>4
  <2>2. ~Has(ts, e.handler) /\ Fits(ts, k, e.expire)
    BY <1>1, <1>3, <1>4, <1>6, <2>1
  <2>3. /\ InsertAt(ts, k, e) \in Seq(Node) /\ WellFormed(InsertAt(ts, k, e))
        /\ Nodes(InsertAt(ts, k, e)) = Nodes(ts) \union {e}
    BY <2>2, InsertNode
  <2>4. QED
    BY <1>1, <1>2, <1>6, <2>1, <2>3 DEF new
<1>7. QED
  BY <1>5, <1>6

\* addTimer with a timeout that the handler's node, if it has one, does not have.
LEMMA SetTimer ==
  ASSUME CountersTyped, NEW ts \in Seq(Node), WellFormed(ts), NEW h \in Handler,
         NEW t \in Delay \ {INFTIMO}, \A n \in Nodes(ts) : n.handler = h => n.expire # t
  PROVE  /\ AddTimer(ts, t, h) \in Seq(Node) /\ WellFormed(AddTimer(ts, t, h))
         /\ Nodes(AddTimer(ts, t, h)) =
              {n \in Nodes(ts) : n.handler # h} \union {TimerNode(t, h)}
<1> DEFINE own == {i \in DOMAIN ts : ts[i].handler = h /\ t # ts[i].expire}
           rest == IF own = {} THEN ts ELSE RemoveAt(ts, Min(own))
           place == Min({i \in DOMAIN rest : t < rest[i].expire} \cup {Len(rest) + 1})
           new == TimerNode(t, h)
<1>1. t \in Nat /\ ~(t < 0)
  BY TimerAssumption DEF Delay
<1>2. AddTimer(ts, t, h) = InsertAt(rest, place, new)
  BY <1>1 DEF AddTimer
<1>3. own \subseteq Nat /\ own = {i \in DOMAIN ts : ts[i].handler = h}
  BY DEF Nodes
<1>4. rest \in Seq(Node) /\ WellFormed(rest) /\ Nodes(rest) = {n \in Nodes(ts) : n.handler # h}
  <2> HIDE DEF own
  <2>1. CASE own = {}
    <3>1. \A n \in Nodes(ts) : n.handler # h
      BY <1>3, <2>1 DEF Nodes
    <3>2. QED
      BY <2>1, <3>1
  <2>2. CASE own # {}
    <3>1. Min(own) \in own
      BY <1>3, <2>2, MinIn
    <3>2. PICK k \in DOMAIN ts : k = Min(own) /\ ts[k].handler = h
      BY <3>1 DEF own
    <3>3. QED
      BY <2>2, <3>2, RemoveNode
  <2>3. QED
    BY <2>1, <2>2
<1>5. new \in Node /\ new.handler = h /\ new.expire = t
  BY NodeTyped
<1>6. PICK r \in Seq(Node) : r = rest
  BY <1>4
<1>7. place \in 1..Len(r) + 1 /\ Fits(r, place, t)
  BY <1>4, <1>6, PlaceFound
<1> HIDE DEF rest, place, new
<1>8. PICK k \in 1..Len(r) + 1, e \in Node : k = place /\ e = new
  BY <1>5, <1>7
<1>9. ~Has(r, e.handler) /\ WellFormed(r) /\ Fits(r, k, e.expire)
  BY <1>4, <1>5, <1>6, <1>7, <1>8 DEF Has
<1>10. /\ InsertAt(r, k, e) \in Seq(Node) /\ WellFormed(InsertAt(r, k, e))
       /\ Nodes(InsertAt(r, k, e)) = Nodes(r) \union {e}
  BY <1>9, InsertNode
<1>11. QED
  BY <1>2, <1>4, <1>6, <1>8, <1>10 DEF new

-----------------------------------------------------------------------------
(* The deletion of several connections *)

\* The function by which FoldLeft deletes the connections of a sequence.
Iter(g, k, ts, order) ==
  g = [s \in SUBSET (1..k) |->
        IF s = {} THEN ts ELSE Deleted(g[s \ {Max(s)}], order[Max(s)])]

\* doEvent of a manager calls eraseConnection for one connection after the other.
LEMMA FoldIs ==
  ASSUME NEW ts, NEW order, NEW k \in Nat, DOMAIN order = 1..k
  PROVE  FoldLeft(Deleted, ts, order) = (CHOOSE g : Iter(g, k, ts, order))[1..k]
BY DEF FoldLeft, MapThenFoldSet, Iter

\* Such a function exists.
LEMMA IterExists ==
  ASSUME NEW ts, NEW order, NEW k \in Nat
  PROVE  \E g : Iter(g, k, ts, order)
<1> DEFINE Bad == {l \in Nat : ~ \E g : Iter(g, l, ts, order)}
<1>1. SUFFICES ASSUME Bad # {} PROVE FALSE
  OBVIOUS
<1>2. PICK m \in Bad : \A l \in Bad : m <= l
  BY <1>1, LeastNat
<1>3. m # 0
  <2>1. Iter([s \in SUBSET (1..0) |-> ts], 0, ts, order)
    BY SUBSET (1..0) = {{}} DEF Iter
  <2>2. QED
    BY <2>1, <1>2
<1>4. PICK g : Iter(g, m - 1, ts, order)
  BY <1>2, <1>3
<1> DEFINE h == [s \in SUBSET (1..m) |->
                  IF s \subseteq 1..m-1 THEN g[s] ELSE Deleted(g[s \ {m}], order[m])]
<1>5. ASSUME NEW s \in SUBSET (1..m)
      PROVE  h[s] = IF s = {} THEN ts ELSE Deleted(h[s \ {Max(s)}], order[Max(s)])
  <2>1. CASE s \subseteq 1..m-1
    <3>1. CASE s = {}
      BY <1>4, <3>1, {} \in SUBSET (1..m-1) DEF Iter
    <3>2. CASE s # {}
      <4>1. h[s] = g[s] /\ g[s] = Deleted(g[s \ {Max(s)}], order[Max(s)])
        BY <1>4, <2>1, <3>2 DEF Iter
      <4>2. h[s \ {Max(s)}] = g[s \ {Max(s)}]
        BY <2>1
      <4>3. QED
        BY <4>1, <4>2, <3>2
    <3>3. QED
      BY <3>1, <3>2
  <2>2. CASE ~(s \subseteq 1..m-1)
    <3>1. m \in s /\ m \in Nat
      BY <2>2, <1>2
    <3>2. Max(s) = m
      BY <3>1, MaxIs
    <3>3. s \ {m} \subseteq 1..m-1
      BY <3>1
    <3>4. h[s \ {m}] = g[s \ {m}]
      BY <3>3
    <3>5. QED
      BY <2>2, <3>1, <3>2, <3>4
  <2>3. QED
    BY <2>1, <2>2
<1>6. Iter(h, m, ts, order)
  BY <1>5 DEF Iter
<1>7. QED
  BY <1>2, <1>6

\* What is left of a list after the connections in cs were deleted, in any order: each
\* of them has a node that is due at once or none, and the others have what they had.
Erased(ts, cs, r) ==
  /\ r \in Seq(Node) /\ WellFormed(r)
  /\ \A n \in Nodes(r) : n \in Nodes(ts) \/ n \in {TimerNode(INFTIMO, c) : c \in cs}
  /\ \A n \in Nodes(ts) : n.handler \notin cs => n \in Nodes(r)
  /\ \A n \in Nodes(r) : n.handler \in cs => n.expire = INFTIMO

\* One deletion more.
LEMMA EraseOneMore ==
  ASSUME CountersTyped, NEW ts, NEW cs \in SUBSET Conn, NEW r, Erased(ts, cs, r), NEW c \in Conn
  PROVE  Erased(ts, cs \union {c}, Deleted(r, c))
<1> DEFINE d == Deleted(r, c)
           new == TimerNode(INFTIMO, c)
<1>1. /\ d \in Seq(Node) /\ WellFormed(d)
      /\ Nodes(d) = IF Has(r, c) THEN {n \in Nodes(r) : n.handler # c} ELSE Nodes(r) \union {new}
  BY DeleteTimer DEF Erased, Deleted, Handler
<1>2. new.handler = c /\ new.expire = INFTIMO
  BY NodeTyped DEF Delay, Handler
<1> HIDE DEF d
<1>3. \A n \in Nodes(d) : n \in Nodes(r) \/ n = new
  BY <1>1
<1>4. \A n \in Nodes(r) : n.handler # c => n \in Nodes(d)
  BY <1>1
<1>5. \A n \in Nodes(d) : n.handler = c => n = new
  BY <1>1 DEF Has
<1>6. QED
  BY <1>1, <1>2, <1>3, <1>4, <1>5 DEF Erased, d

\* doEvent of a manager: all its disabled connections are deleted.
LEMMA EraseAll ==
  ASSUME CountersTyped, NEW ts \in Seq(Node), WellFormed(ts), NEW k \in Nat,
         NEW order \in [1..k -> Conn]
  PROVE  Erased(ts, {order[i] : i \in 1..k}, FoldLeft(Deleted, ts, order))
<1> DEFINE g == CHOOSE f : Iter(f, k, ts, order)
           first(l) == {order[i] : i \in 1..l}
           Good(l) == Erased(ts, first(l), g[1..l])
           Bad == {l \in 0..k : ~Good(l)}
<1>1. Iter(g, k, ts, order)
  BY IterExists
<1> HIDE DEF g
<1>2. g[1..0] = ts
  BY <1>1, 1..0 = {}, {} \in SUBSET (1..k) DEF Iter
<1>3. Good(0)
  BY <1>2, 1..0 = {} DEF Erased
<1>4. ASSUME NEW l \in 0..k, l # 0, Good(l - 1)
      PROVE  Good(l)
  <2> HIDE DEF Good
  <2>0. l \in Nat /\ l \in 1..l /\ 1..l \in SUBSET (1..k) /\ 1..l # {} /\ 1..l \in SUBSET (1..l)
    <3>1. l \in Nat /\ l >= 1 /\ l <= k
      BY <1>4
    <3>2. l \in 1..l
      BY <3>1
    <3>3. 1..l \subseteq 1..k
      BY <3>1
    <3>4. QED
      BY <3>1, <3>2, <3>3
  <2>1. l \in Nat /\ l \in 1..l /\ 1..l \in SUBSET (1..k) /\ 1..l # {} /\ Max(1..l) = l
    <3>1. Max(1..l) = l
      BY <2>0, MaxIs
    <3>2. QED
      BY <2>0, <3>1
  <2>2. (1..l) \ {l} = 1..l - 1
    BY <2>1
  <2>3. g[1..l] = Deleted(g[1..l - 1], order[l])
    BY <1>1, <2>1, <2>2 DEF Iter
  <2>4. order[l] \in Conn /\ first(l - 1) \in SUBSET Conn /\ first(l) = first(l - 1) \union {order[l]}
    BY <1>4, <2>1
  <2>5. QED
    BY <1>4, <2>3, <2>4, EraseOneMore DEF Good
<1> HIDE DEF Good
<1>5. Bad = {}
  <2>1. SUFFICES ASSUME Bad # {} PROVE FALSE
    OBVIOUS
  <2>2. PICK m \in Bad : \A l \in Bad : m <= l
    <3>1. Bad \subseteq Nat
      OBVIOUS
    <3> HIDE DEF Bad
    <3>2. QED
      BY <2>1, <3>1, LeastNat
  <2>3. m # 0
    BY <1>3, <2>2
  <2>4. m - 1 \in 0..k /\ m - 1 \notin Bad
    BY <2>2, <2>3
  <2>5. QED
    BY <1>4, <2>2, <2>3, <2>4
<1>6. Good(k)
  BY <1>5
<1>7. FoldLeft(Deleted, ts, order) = g[1..k]
  BY FoldIs DEF g
<1>8. QED
  BY <1>6, <1>7 DEF Good

-----------------------------------------------------------------------------
(* The counter that wraps around *)

\* The range of an int.
LEMMA IntIs == /\ IntRange \in Nat \ {0} /\ Half \in Nat /\ IntRange = 2 * Half /\ Half > 0
               /\ \A d \in Delay : d \in Int /\ d < Half /\ (d # INFTIMO => d > 0)
<1>1. CONN_TIMEOUT \in Delay /\ INFTIMO = -1
  BY DEF Delay, INFTIMO
<1>2. CONN_TIMEOUT \in Nat \ {0}
  BY <1>1, TimerAssumption
<1>3. IntRange \in Nat /\ IntRange % 2 = 0 /\ IntRange > 4 * CONN_TIMEOUT
  BY <1>1, TimerAssumption
<1>4. IntRange = 2 * Half /\ Half \in Nat
  BY <1>3 DEF Half
<1>5. \A d \in Delay : d = INFTIMO \/ d \in Nat \ {0}
  BY TimerAssumption DEF Delay
<1>6. \A d \in Delay : IntRange > 4 * d
  BY TimerAssumption
<1>7. QED
  BY <1>1, <1>2, <1>3, <1>4, <1>5, <1>6

\* A two's complement int differs from the number by a multiple of its range.
LEMMA WrapIs ==
  ASSUME NEW n \in Int
  PROVE  Wrapped(n) \in -Half..(Half - 1) /\ \E k \in Int : n = Wrapped(n) + k * IntRange
<1> DEFINE x == n + Half
           k == x \div IntRange
<1>1. x \in Int /\ IntRange \in Nat \ {0} /\ Half \in Nat /\ IntRange = 2 * Half
  BY IntIs
<1>2. x = IntRange * k + (x % IntRange) /\ (x % IntRange) \in 0..IntRange - 1 /\ k \in Int
  BY <1>1
<1>3. Wrapped(n) = (x % IntRange) - Half
  BY DEF Wrapped, Half
<1>4. PICK q \in Int, r \in 0..IntRange - 1 : q = k /\ r = x % IntRange
  BY <1>2
<1>5. n + Half = IntRange * q + r /\ Wrapped(n) = r - Half
  BY <1>2, <1>3, <1>4
<1>6. Wrapped(n) \in -Half..(Half - 1)
  BY <1>1, <1>4, <1>5
<1>7. n = Wrapped(n) + q * IntRange
  <2>1. n = (r - Half) + IntRange * q
    BY <1>1, <1>4, <1>5
  <2>2. QED
    BY <1>1, <1>5, <2>1
<1>8. QED
  BY <1>6, <1>7

\* No two ints differ by a multiple of the range.
LEMMA WrapUnique ==
  ASSUME NEW n \in Int, NEW x \in -Half..(Half - 1), NEW k \in Int, n = x + k * IntRange
  PROVE  Wrapped(n) = x
<1>1. PICK l \in Int : n = Wrapped(n) + l * IntRange
  BY WrapIs
<1>2. /\ Wrapped(n) \in Int /\ Wrapped(n) - x < IntRange /\ x - Wrapped(n) < IntRange
      /\ IntRange \in Nat \ {0}
  BY WrapIs, IntIs
<1>3. PICK w \in Int, R \in Nat \ {0}, d \in Int :
        w = Wrapped(n) /\ R = IntRange /\ d = k - l
  BY <1>2
<1>4. w - x = d * R /\ w - x < R /\ x - w < R
  BY <1>1, <1>2, <1>3
<1>5. d = 0
  <2>1. CASE d >= 1
    <3>1. d * R >= R
      BY <1>3, <2>1
    <3>2. QED
      BY <1>4, <3>1
  <2>2. CASE d <= -1
    <3>1. d * R <= -R
      BY <1>3, <2>2
    <3>2. QED
      BY <1>4, <3>1
  <2>3. QED
    BY <2>1, <2>2
<1>6. QED
  BY <1>3, <1>4, <1>5

\* _elapsed += elapsed.
LEMMA WrapAdd ==
  ASSUME NEW m \in Int, NEW p \in Int
  PROVE  Wrapped(Wrapped(m) + p) = Wrapped(m + p)
<1>1. PICK k \in Int : m = Wrapped(m) + k * IntRange
  BY WrapIs
<1>2. PICK l \in Int : m + p = Wrapped(m + p) + l * IntRange
  BY WrapIs
<1>3. Wrapped(m) \in Int /\ Wrapped(m + p) \in -Half..(Half - 1) /\ IntRange \in Nat
  BY WrapIs, IntIs
<1>4. PICK w \in Int, x \in -Half..(Half - 1) : w = Wrapped(m) /\ x = Wrapped(m + p)
  BY <1>3
<1>5. PICK R \in Nat : R = IntRange
  BY <1>3
<1>6. w + p = x + (l - k) * R
  <2>1. m = w + k * R /\ m + p = x + l * R /\ x \in Int
    BY <1>1, <1>2, <1>4, <1>5, IntIs
  <2>2. w + p = x + l * R - k * R
    BY <2>1
  <2>3. QED
    BY <2>1, <2>2
<1>7. QED
  BY <1>4, <1>5, <1>6, WrapUnique

\* checkTimer: the difference of two readings is the time between them, if that is less
\* than half the range.
LEMMA WrapBack ==
  ASSUME NEW y \in -Half..(Half - 1), NEW c \in 0..Half - 1
  PROVE  Wrapped(Wrapped(y + c) - y) = c
<1>1. y \in Int /\ c \in Int /\ y + c \in Int /\ Half \in Nat
  BY IntIs
<1>2. Wrapped(Wrapped(y + c) + (-y)) = Wrapped((y + c) + (-y))
  BY <1>1, WrapAdd
<1>3. (y + c) + (-y) = c
  BY <1>1
<1>4. Wrapped(c) = c
  <2>1. c \in -Half..(Half - 1) /\ c = c + 0 * IntRange
    BY <1>1, IntIs
  <2>2. QED
    BY <1>1, <2>1, WrapUnique
<1>5. Wrapped(y + c) \in Int
  BY <1>1, WrapIs
<1>6. QED
  BY <1>1, <1>2, <1>3, <1>4, <1>5

-----------------------------------------------------------------------------
(* Who may have a node *)

\* What the nodes of the list ts and of the vector fs tell about the connections: in the
\* list, the node of a deleted connection is one that its deletion left; a handler that is
\* still to be called has no other node, unless it is a connection that received nothing
\* since; a node left by a deletion is one of a connection, and not of one that lives,
\* unless it belongs to the master; a connection that is being made has a node; and only
\* one that is up has received something.
Owners(ts, fs, lf, rv) ==
  /\ \A n \in Nodes(ts) : n.handler \in Conn /\ lf[n.handler] = "none" => n.expire = INFTIMO
  /\ \A n \in Nodes(fs) : (n.handler \in Conn => n.handler \in rv) => ~Has(ts, n.handler)
  /\ \A n \in Nodes(ts) \union Nodes(fs) : n.expire = INFTIMO => n.handler \in Conn
  /\ \A n \in Nodes(ts) \union Nodes(fs) :
       n.handler \in Conn /\ kind[n.handler] # "master" /\ n.expire = INFTIMO
         => lf[n.handler] = "none"
  /\ \A c \in Conn : lf[c] = "connecting" => Has(ts, c) \/ Has(fs, c)
  /\ \A c \in rv : lf[c] = "open"

\* The vector of checkTimeout after a call.
LEMMA PopIs ==
  ASSUME NEW fs \in Seq(Node), WellFormed(fs), fs # <<>>
  PROVE  /\ Tail(fs) \in Seq(Node) /\ WellFormed(Tail(fs)) /\ Head(fs) \in Node
         /\ Nodes(fs) = Nodes(Tail(fs)) \union {Head(fs)}
         /\ ~Has(Tail(fs), Head(fs).handler)
<1> DEFINE r == Tail(fs)
<1>1. /\ DOMAIN fs = 1..Len(fs) /\ Len(fs) \in Nat /\ Len(fs) >= 1
      /\ Head(fs) = fs[1] /\ fs[1] \in Node
  OBVIOUS
<1>2. /\ r \in Seq(Node) /\ DOMAIN r = 1..Len(fs) - 1
      /\ \A j \in 1..Len(fs) - 1 : r[j] = fs[j + 1]
  OBVIOUS
<1> HIDE DEF r
<1>3. WellFormed(r)
  <2>1. ASSUME NEW i \in 1..Len(fs) - 1, NEW j \in 1..Len(fs) - 1
        PROVE  /\ r[i].handler = r[j].handler => i = j
               /\ i < j /\ r[j].expire = INFTIMO => r[i].expire = INFTIMO
    <3>1. PICK i0 \in DOMAIN fs, j0 \in DOMAIN fs : i0 = i + 1 /\ j0 = j + 1
      BY <1>1
    <3>2. r[i] = fs[i0] /\ r[j] = fs[j0] /\ (i0 = j0 => i = j) /\ (i < j => i0 < j0)
      BY <1>1, <1>2, <3>1
    <3>3. QED
      BY <3>2 DEF WellFormed, Distinct, LeftFirst
  <2>2. QED
    BY <1>2, <2>1 DEF WellFormed, Distinct, LeftFirst
<1>4. ASSUME NEW j \in DOMAIN r
      PROVE  r[j] \in Nodes(fs) /\ r[j].handler # fs[1].handler
  <2>1. j + 1 \in DOMAIN fs /\ r[j] = fs[j + 1] /\ j + 1 # 1 /\ 1 \in DOMAIN fs
    BY <1>1, <1>2
  <2>2. QED
    BY <2>1 DEF Nodes, WellFormed, Distinct
<1>5. ASSUME NEW i \in DOMAIN fs, i # 1
      PROVE  fs[i] \in Nodes(r)
  <2>1. i - 1 \in DOMAIN r /\ r[i - 1] = fs[i]
    BY <1>1, <1>2, <1>5
  <2>2. QED
    BY <2>1 DEF Nodes
<1>6. Nodes(fs) = Nodes(r) \union {fs[1]}
  <2>1. Nodes(r) \subseteq Nodes(fs)
    BY <1>4 DEF Nodes
  <2>2. fs[1] \in Nodes(fs)
    BY <1>1 DEF Nodes
  <2>3. Nodes(fs) \subseteq Nodes(r) \union {fs[1]}
    BY <1>5 DEF Nodes
  <2>4. QED
    BY <2>1, <2>2, <2>3
<1>7. ~Has(r, fs[1].handler)
  BY <1>4 DEF Has, Nodes
<1>8. QED
  BY <1>1, <1>2, <1>3, <1>6, <1>7 DEF r

\* The handler of a node has been called, and was not a connection being made.
LEMMA OwnersPop ==
  ASSUME NEW ts, NEW lf, NEW rv, NEW fs \in Seq(Node), WellFormed(fs), fs # <<>>, Owners(ts, fs, lf, rv),
         Head(fs).handler \in Conn => lf[Head(fs).handler] # "connecting"
  PROVE  Owners(ts, Tail(fs), lf, rv)
<1> DEFINE h == Head(fs)
           r == Tail(fs)
<1>1. Nodes(fs) = Nodes(r) \union {h} /\ (h.handler \in Conn => lf[h.handler] # "connecting")
  BY PopIs
<1> HIDE DEF h, r
<1>2. Nodes(r) \subseteq Nodes(fs)
  BY <1>1
<1>3. \A c \in Conn : lf[c] = "connecting" /\ Has(fs, c) => Has(r, c)
  BY <1>1 DEF Has
<1>4. QED
  BY <1>2, <1>3 DEF Owners, r

\* The connections in cs are deleted.
LEMMA OwnersErase ==
  ASSUME CountersTyped, NEW ts, NEW fs, NEW lf, NEW lf2, NEW rv \in SUBSET Conn, NEW rv2,
         Owners(ts, fs, lf, rv), NEW cs \in SUBSET Conn, NEW r, Erased(ts, cs, r),
         \A c \in Conn : lf2[c] = IF c \in cs THEN "none" ELSE lf[c], rv2 = rv \ cs
  PROVE  Owners(r, fs, lf2, rv2)
<1>1. \A c \in cs : TimerNode(INFTIMO, c).handler = c
  BY NodeTyped DEF Delay, Handler
<1>2. \A n \in Nodes(r) : n.handler \notin cs => n \in Nodes(ts)
  BY <1>1 DEF Erased
<1>3. \A n \in Nodes(r) : n.handler \in cs => n.expire = INFTIMO
  BY DEF Erased
<1>4. \A h : h \notin cs => (Has(r, h) <=> Has(ts, h))
  BY <1>2 DEF Erased, Has
<1>5. \A c \in Conn : /\ c \in cs => lf2[c] = "none"
                      /\ c \notin cs => lf2[c] = lf[c]
  OBVIOUS
<1>6. \A n \in Nodes(r) : n.handler \in Conn /\ lf2[n.handler] = "none" => n.expire = INFTIMO
  BY <1>2, <1>3, <1>5 DEF Owners
<1>7. \A n \in Nodes(fs) : (n.handler \in Conn => n.handler \in rv2) => ~Has(r, n.handler)
  BY <1>4 DEF Owners
<1>8. \A n \in Nodes(r) \union Nodes(fs) :
        /\ n.expire = INFTIMO => n.handler \in Conn
        /\ n.handler \in Conn /\ kind[n.handler] # "master" /\ n.expire = INFTIMO
             => lf2[n.handler] = "none"
  BY <1>2, <1>5 DEF Owners
<1>9. \A c \in Conn : lf2[c] = "connecting" => Has(r, c) \/ Has(fs, c)
  BY <1>4, <1>5 DEF Owners
<1>9a. \A c \in rv2 : lf2[c] = "open"
  BY <1>5 DEF Owners
<1>10. QED
  BY <1>6, <1>7, <1>8, <1>9, <1>9a DEF Owners

\* A handler is not to be called, or it is a connection that takes the place of one that
\* has been deleted, whose timeout is called.
Replaces(h, fs, rv) ==
  /\ h \notin rv
  /\ \A n \in Nodes(fs) : n.handler = h => h \in Conn /\ n.expire # INFTIMO

\* Such a handler gets a timeout; if it is a connection, it lives.
LEMMA OwnersSet ==
  ASSUME NEW ts, NEW fs, NEW lf, NEW lf2, NEW rv, NEW rv2, Owners(ts, fs, lf, rv),
         NEW h, NEW e, NEW r,
         Nodes(r) = {n \in Nodes(ts) : n.handler # h} \union {e},
         e.handler = h, e.expire # INFTIMO, Replaces(h, fs, rv2),
         rv \in SUBSET Conn, rv2 \subseteq rv, \A c \in Conn : c # h => lf2[c] = lf[c],
         h \in Conn => lf2[h] # "none"
  PROVE  Owners(r, fs, lf2, rv2)
<1>1. \A g : g # h => (Has(r, g) <=> Has(ts, g))
  BY DEF Has
<1>2. Has(r, h)
  BY DEF Has
<1>3. \A n \in Nodes(r) : n = e \/ (n \in Nodes(ts) /\ n.handler # h)
  OBVIOUS
<1>4. \A n \in Nodes(r) : n.handler \in Conn /\ lf2[n.handler] = "none" => n.expire = INFTIMO
  BY <1>3 DEF Owners
<1>5. \A n \in Nodes(fs) : (n.handler \in Conn => n.handler \in rv2) => ~Has(r, n.handler)
  BY <1>1 DEF Owners, Replaces
<1>6. \A n \in Nodes(r) \union Nodes(fs) :
        /\ n.expire = INFTIMO => n.handler \in Conn
        /\ n.handler \in Conn /\ kind[n.handler] # "master" /\ n.expire = INFTIMO
             => lf2[n.handler] = "none"
  BY <1>3 DEF Owners, Replaces
<1>7. \A c \in Conn : lf2[c] = "connecting" => Has(r, c) \/ Has(fs, c)
  BY <1>1, <1>2 DEF Owners
<1>7a. \A c \in rv2 : lf2[c] = "open"
  BY DEF Owners, Replaces
<1>8. QED
  BY <1>4, <1>5, <1>6, <1>7, <1>7a DEF Owners

\* A connection that is up loses its timer.
LEMMA OwnersRemove ==
  ASSUME NEW ts, NEW fs, NEW lf, NEW lf2, NEW rv, NEW rv2, Owners(ts, fs, lf, rv), NEW h, NEW r,
         Nodes(r) = {n \in Nodes(ts) : n.handler # h}, Replaces(h, fs, rv2),
         rv \in SUBSET Conn, rv2 \subseteq rv, \A c \in Conn : c # h => lf2[c] = lf[c],
         lf2[h] = "open"
  PROVE  Owners(r, fs, lf2, rv2)
<1>1. \A g : g # h => (Has(r, g) <=> Has(ts, g))
  BY DEF Has
<1>2. ~Has(r, h)
  BY DEF Has
<1>3. \A n \in Nodes(r) : n \in Nodes(ts) /\ n.handler # h
  OBVIOUS
<1>4. \A n \in Nodes(r) : n.handler \in Conn /\ lf2[n.handler] = "none" => n.expire = INFTIMO
  BY <1>3 DEF Owners
<1>5. \A n \in Nodes(fs) : (n.handler \in Conn => n.handler \in rv2) => ~Has(r, n.handler)
  BY <1>1 DEF Owners, Replaces
<1>6. \A n \in Nodes(r) \union Nodes(fs) :
        /\ n.expire = INFTIMO => n.handler \in Conn
        /\ n.handler \in Conn /\ kind[n.handler] # "master" /\ n.expire = INFTIMO
             => lf2[n.handler] = "none"
  BY <1>3 DEF Owners, Replaces
<1>7. \A c \in Conn : lf2[c] = "connecting" => Has(r, c) \/ Has(fs, c)
  BY <1>1 DEF Owners
<1>7a. \A c \in rv2 : lf2[c] = "open"
  BY DEF Owners, Replaces
<1>8. QED
  BY <1>4, <1>5, <1>6, <1>7, <1>7a DEF Owners

-----------------------------------------------------------------------------
(* The invariant *)

\* The types of a process.
Types ==
  /\ timers \in Seq(Node) /\ fired \in Seq(Node)
  /\ elapsed \in -Half..(Half - 1)
  /\ pending \in 0..MaxPending * TIME_CLICK
  /\ pc \in {"poll", "reset", "fire", "tick", "dead"}
  /\ life \in [Conn -> {"none", "connecting", "open"}]
  /\ recv \subseteq Conn /\ lazyDel \subseteq Conn

\* The part of m_elapsed that the next checkTimer adds to _elapsed.
Uncounted == IF pc = "reset" THEN 0 ELSE pending

\* What _elapsed has counted since the node was armed, and p more, is at most the age of
\* the node; when the age exceeds the timeout, the count no longer matters.
TimelyAt(n, e, p) ==
  \/ n.age > n.expire
  \/ \E c \in Nat : c + p <= n.age /\ Wrapped(n.elapsed + c) = e

TimerInv ==
  /\ Types
  /\ WellFormed(timers) /\ WellFormed(fired)
  /\ \E k \in Nat : pending = k * TIME_CLICK
  /\ pc = "poll" => fired = <<>>
  /\ pc = "tick" => fired # <<>> /\ Head(fired).handler \in Ticker
  /\ Owners(timers, fired, life, recv)
  /\ \A n \in Nodes(timers) : TimelyAt(n, elapsed, Uncounted)
  /\ \A n \in Nodes(fired) : n.age > n.expire

\* The counters have their types.
LEMMA InvCounters ==
  ASSUME Types
  PROVE  CountersTyped /\ MaxPending * TIME_CLICK \in Nat
<1>1. MaxPending \in Nat /\ TIME_CLICK \in Nat
  BY TimerAssumption
<1>2. QED
  BY <1>1 DEF Types, CountersTyped

\* A node that is armed now is on time.
LEMMA NewTimely ==
  ASSUME CountersTyped, NEW n, n.elapsed = elapsed, n.age = pending
  PROVE  TimelyAt(n, elapsed, pending)
<1>1. PICK x \in -Half..(Half - 1) : x = elapsed
  BY DEF CountersTyped
<1>2. x \in Int /\ Half \in Nat /\ x + 0 = x + 0 * IntRange
  BY IntIs
<1>3. Wrapped(x + 0) = x
  BY <1>2, WrapUnique
<1>4. 0 \in Nat /\ 0 + pending <= n.age
  BY DEF CountersTyped
<1>5. QED
  BY <1>1, <1>3, <1>4 DEF TimelyAt

\* A step of the poll or of the calls: the counters stay, nodes of the list are deleted or
\* armed now, and at most the first node of the vector is dropped.
LEMMA Handled ==
  ASSUME TimerInv, pc # "reset", pc' \in {"poll", "fire", "tick", "dead"},
         elapsed' = elapsed, pending' = pending,
         timers' \in Seq(Node), WellFormed(timers'),
         \A n \in Nodes(timers') : n \in Nodes(timers) \/ (n.elapsed = elapsed /\ n.age = pending),
         fired' = fired \/ (fired # <<>> /\ fired' = Tail(fired)),
         pc' = "poll" => fired' = <<>>,
         pc' = "tick" => fired' # <<>> /\ Head(fired').handler \in Ticker,
         Owners(timers', fired', life', recv'),
         life' \in [Conn -> {"none", "connecting", "open"}],
         recv' \subseteq Conn, lazyDel' \subseteq Conn
  PROVE  TimerInv'
<1>1. Types /\ CountersTyped
  BY InvCounters DEF TimerInv
<1>2. fired' \in Seq(Node) /\ WellFormed(fired') /\ \A n \in Nodes(fired') : n \in Nodes(fired)
  <2>1. CASE fired' = fired
    BY <2>1 DEF TimerInv, Types
  <2>2. CASE fired # <<>> /\ fired' = Tail(fired)
    <3>1. PICK fs \in Seq(Node) : fs = fired
      BY <1>1 DEF Types
    <3>2. fs # <<>> /\ WellFormed(fs)
      BY <2>2, <3>1 DEF TimerInv
    <3>3. Tail(fs) \in Seq(Node) /\ WellFormed(Tail(fs)) /\ Nodes(fs) = Nodes(Tail(fs)) \union {Head(fs)}
      BY <3>2, PopIs
    <3>4. fired' = Tail(fs)
      BY <2>2, <3>1
    <3>5. QED
      BY <3>1, <3>3, <3>4
  <2>3. QED
    BY <2>1, <2>2
<1>3. Types'
  BY <1>1, <1>2 DEF Types
<1>4. (\A n \in Nodes(timers) : TimelyAt(n, elapsed, Uncounted))'
  <2>1. Uncounted = pending /\ Uncounted' = pending
    BY DEF Uncounted
  <2>2. \A n \in Nodes(timers') : TimelyAt(n, elapsed, pending)
    BY <1>1, <2>1, NewTimely DEF TimerInv
  <2>3. QED
    BY <2>1, <2>2
<1>5. (\A n \in Nodes(fired) : n.age > n.expire)'
  BY <1>2 DEF TimerInv
<1>6. (\E k \in Nat : pending = k * TIME_CLICK)'
  BY DEF TimerInv
<1>7. QED
  BY <1>2, <1>3, <1>4, <1>5, <1>6 DEF TimerInv

-----------------------------------------------------------------------------
(* The events of the poll *)

\* Where the nodes of a list with deleted connections come from.
LEMMA ErasedNodes ==
  ASSUME CountersTyped, NEW ts, NEW cs \in SUBSET Conn, NEW r, Erased(ts, cs, r)
  PROVE  \A n \in Nodes(r) : n \in Nodes(ts) \/ (n.elapsed = elapsed /\ n.age = pending)
<1>1. \A c \in cs : TimerNode(INFTIMO, c).elapsed = elapsed /\ TimerNode(INFTIMO, c).age = pending
  BY NodeTyped DEF Delay, Handler
<1>2. QED
  BY <1>1 DEF Erased

\* eraseConnection, whoever calls it.
LEMMA EraseKeeps ==
  ASSUME TimerInv, NEW c \in Conn, EraseConnection(c)
  PROVE  /\ timers' \in Seq(Node) /\ WellFormed(timers')
         /\ \A n \in Nodes(timers') : n \in Nodes(timers) \/ (n.elapsed = elapsed /\ n.age = pending)
         /\ Owners(timers', fired, life', recv') /\ life'[c] = "none"
         /\ life' \in [Conn -> {"none", "connecting", "open"}]
         /\ recv' \subseteq Conn /\ lazyDel' \subseteq Conn
<1>1. Types /\ CountersTyped
  BY InvCounters DEF TimerInv
<1>2. PICK ts \in Seq(Node) : ts = timers
  BY <1>1 DEF Types
<1>2a. PICK fs, lf, rv : fs = fired /\ lf = life /\ rv = recv
  OBVIOUS
<1>3. WellFormed(ts) /\ Owners(ts, fs, lf, rv) /\ rv \in SUBSET Conn
  BY <1>1, <1>2, <1>2a DEF TimerInv, Types
<1>4. Erased(ts, {}, ts)
  BY <1>3 DEF Erased
<1>5. Erased(ts, {} \union {c}, Deleted(ts, c))
  BY <1>1, <1>4, EraseOneMore
<1>6. PICK r : r = timers'
  OBVIOUS
<1>7. Erased(ts, {c}, r)
  <2>1. r = Deleted(ts, c)
    BY <1>2, <1>2a, <1>6 DEF EraseConnection
  <2>2. {} \union {c} = {c}
    OBVIOUS
  <2>3. QED
    BY <1>5, <2>1, <2>2
<1>8. life' = [life EXCEPT ![c] = "none"] /\ life \in [Conn -> {"none", "connecting", "open"}]
  BY <1>1 DEF EraseConnection, Types
<1>9. PICK lf2, rv2 : lf2 = life' /\ rv2 = recv' /\ rv2 = rv \ {c}
  BY <1>2a DEF EraseConnection
<1>10. \A d \in Conn : lf2[d] = IF d \in {c} THEN "none" ELSE lf[d]
  BY <1>2, <1>2a, <1>8, <1>9
<1>11. Owners(r, fs, lf2, rv2)
  BY <1>1, <1>3, <1>7, <1>9, <1>10, OwnersErase
<1>12. \A n \in Nodes(r) : n \in Nodes(ts) \/ (n.elapsed = elapsed /\ n.age = pending)
  BY <1>1, <1>7, ErasedNodes
<1>13. r \in Seq(Node) /\ WellFormed(r)
  BY <1>7 DEF Erased
<1>14. recv' \subseteq Conn /\ lazyDel' \subseteq Conn
  BY <1>1 DEF EraseConnection, Types
<1>15. QED
  BY <1>2, <1>2a, <1>6, <1>8, <1>9, <1>11, <1>12, <1>13, <1>14

\* During the poll nothing is to be called.
LEMMA NothingFired ==
  ASSUME TimerInv, pc = "poll"
  PROVE  fired = <<>> /\ \A h : ~Has(fired, h)
<1>1. fired = <<>>
  BY DEF TimerInv
<1>2. Nodes(<<>>) = {}
  BY DEF Nodes
<1>3. QED
  BY <1>1, <1>2 DEF Has

\* While messages are sent, no node that a deletion left is to be called: there is none in
\* the poll, and behind the node of a block timer there is none.
LEMMA NoneLeft ==
  ASSUME TimerInv, pc \in {"poll", "tick"}, NEW c \in Conn, life[c] # "open"
  PROVE  Replaces(c, fired, recv)
<1>1. c \notin recv
  BY DEF TimerInv, Owners
<1>2. \A n \in Nodes(fired) : n.expire # INFTIMO
  <2>1. CASE pc = "poll"
    BY <2>1, NothingFired DEF Has
  <2>2. CASE pc = "tick"
    <3>1. PICK fs \in Seq(Node) : fs = fired
      BY DEF TimerInv, Types
    <3>2. 1 \in DOMAIN fs /\ Head(fs) = fs[1] /\ fs[1].handler \in Ticker
      BY <2>2, <3>1 DEF TimerInv
    <3>3. fs[1] \in Nodes(fired)
      BY <3>1, <3>2 DEF Nodes
    <3>4. fs[1].expire # INFTIMO
      BY <3>2, <3>3, TimerAssumption DEF TimerInv, Owners
    <3>5. LeftFirst(fs)
      BY <3>1 DEF TimerInv, WellFormed
    <3>6. \A j \in DOMAIN fs : fs[j].expire # INFTIMO
      <4>1. ASSUME NEW j \in DOMAIN fs PROVE fs[j].expire # INFTIMO
        <5>1. j = 1 \/ 1 < j
          OBVIOUS
        <5>2. QED
          BY <3>2, <3>4, <3>5, <5>1 DEF LeftFirst
      <4>2. QED
        BY <4>1
    <3>7. QED
      BY <3>1, <3>6 DEF Nodes
  <2>3. QED
    BY <2>1, <2>2
<1>3. QED
  BY <1>1, <1>2 DEF Replaces

\* ConnFactory: the timer of an accepted connection replaces the node that was left at its
\* place, if there is one.
LEMMA OnAcceptKeeps ==
  ASSUME TimerInv, NEW c \in Conn, OnAccept(c)
  PROVE  TimerInv'
<1>1. /\ Types /\ CountersTyped /\ pc = "poll" /\ fired = <<>> /\ (\A h : ~Has(fired, h))
      /\ life[c] = "none" /\ life' = [life EXCEPT ![c] = "open"]
      /\ UNCHANGED <<elapsed, pending, pc, fired, recv, lazyDel>>
  BY InvCounters, NothingFired DEF TimerInv, OnAccept
<1>2. PICK ts \in Seq(Node) : ts = timers
  BY <1>1 DEF Types
<1>2a. PICK fs, lf, lf2, rv, rv2, r : fs = fired /\ lf = life /\ rv = recv /\ lf2 = life' /\ rv2 = recv' /\ r = timers'
  OBVIOUS
<1>3. /\ WellFormed(ts) /\ Owners(ts, fs, lf, rv) /\ Nodes(fs) = {}
      /\ Replaces(c, fs, rv2) /\ rv \in SUBSET Conn /\ rv2 = rv
  BY <1>1, <1>2, <1>2a, NoneLeft DEF TimerInv, Types, Nodes
<1>4. life \in [Conn -> {"none", "connecting", "open"}]
  BY <1>1 DEF Types
<1>5. life' \in [Conn -> {"none", "connecting", "open"}]
  BY <1>1, <1>4
<1>6. lf[c] = "none" /\ lf2[c] = "open" /\ \A d \in Conn : d # c => lf2[d] = lf[d]
  BY <1>1, <1>2, <1>2a, <1>4
<1>7. /\ r \in Seq(Node) /\ WellFormed(r) /\ Owners(r, fs, lf2, rv2)
      /\ \A n \in Nodes(r) : n \in Nodes(ts) \/ (n.elapsed = elapsed /\ n.age = pending)
  <2>1. CASE kind[c] = "server"
    <3>1. CONN_TIMEOUT \in Delay \ {INFTIMO} /\ c \in Handler
      BY TimerAssumption DEF Delay, Handler, INFTIMO
    <3>2. \A n \in Nodes(ts) : n.handler = c => n.expire # CONN_TIMEOUT
      BY <1>3, <1>6, <3>1 DEF Owners
    <3>3. r = AddTimer(ts, CONN_TIMEOUT, c)
      BY <1>2, <1>2a, <2>1 DEF OnAccept
    <3>4. PICK e : /\ e = TimerNode(CONN_TIMEOUT, c)
                   /\ e.handler = c /\ e.expire = CONN_TIMEOUT
                   /\ e.elapsed = elapsed /\ e.age = pending
      BY <1>1, <3>1, NodeTyped
    <3>5. /\ r \in Seq(Node) /\ WellFormed(r)
          /\ Nodes(r) = {n \in Nodes(ts) : n.handler # c} \union {e}
      BY <1>1, <1>3, <3>1, <3>2, <3>3, <3>4, SetTimer
    <3>6. Owners(r, fs, lf2, rv2)
      BY <1>3, <1>6, <3>1, <3>4, <3>5, OwnersSet
    <3>7. QED
      BY <3>4, <3>5, <3>6
  <2>2. CASE kind[c] = "master"
    <3>1. r = ts
      BY <1>2, <1>2a, <2>2 DEF OnAccept
    <3>2. Owners(ts, fs, lf2, rv2)
      BY <1>3, <1>6, <2>2 DEF Owners, Replaces
    <3>3. QED
      BY <1>3, <3>1, <3>2
  <2>3. QED
    BY <2>1, <2>2 DEF OnAccept
<1>8. recv' \subseteq Conn /\ lazyDel' \subseteq Conn
  BY <1>1 DEF Types
<1>9. QED
  BY <1>1, <1>2, <1>2a, <1>5, <1>7, <1>8, Handled

\* The timeouts of a handler are timeouts, and differ from INFTIMO.
LEMMA Timeouts ==
  /\ {CONN_DEL_DELAY_TIME, CONNECT_TIMEOUT, CONN_TIMEOUT, blockSyncInterval} \subseteq Delay \ {INFTIMO}
  /\ Conn \subseteq Handler /\ Manager \subseteq Handler /\ Ticker \subseteq Handler
  /\ INFTIMO \in Delay /\ CONNECT_TIMEOUT # CONN_TIMEOUT
<1>1. INFTIMO \notin Nat
  BY DEF INFTIMO
<1>2. QED
  BY <1>1, TimerAssumption DEF Delay, Handler

\* createConnection to a peer: setTimeout replaces the timer of doConnect, and a connection
\* that is up at once ends without a timer.
LEMMA ConnectServerKeeps ==
  ASSUME TimerInv, NEW c \in Conn, ConnectServer(c)
  PROVE  TimerInv'
<1>1. /\ Types /\ CountersTyped /\ pc \in {"poll", "tick"} /\ life[c] = "none"
      /\ UNCHANGED <<elapsed, pending, pc, fired, recv, lazyDel>>
      /\ pc = "poll" => fired = <<>>
      /\ pc = "tick" => fired # <<>> /\ Head(fired).handler \in Ticker
  BY InvCounters DEF TimerInv, ConnectServer
<1>2. PICK ts \in Seq(Node) : ts = timers
  BY <1>1 DEF Types
<1>2a. PICK fs, lf, lf2, rv, rv2, r : fs = fired /\ lf = life /\ rv = recv /\ lf2 = life' /\ rv2 = recv' /\ r = timers'
  OBVIOUS
<1>3. /\ WellFormed(ts) /\ Owners(ts, fs, lf, rv)
      /\ Replaces(c, fs, rv2) /\ rv \in SUBSET Conn /\ rv2 = rv
  BY <1>1, <1>2, <1>2a, NoneLeft DEF TimerInv, Types
<1>4. life \in [Conn -> {"none", "connecting", "open"}]
  BY <1>1 DEF Types
<1>5. life' \in [Conn -> {"none", "connecting", "open"}]
  BY <1>4 DEF ConnectServer
<1>6. lf[c] = "none" /\ \A d \in Conn : d # c => lf2[d] = lf[d]
  BY <1>1, <1>2, <1>2a, <1>4 DEF ConnectServer
<1>7. c \in Handler
  BY Timeouts
<1>8. \A n \in Nodes(ts) : n.handler = c => n.expire # CONN_TIMEOUT /\ n.expire # CONNECT_TIMEOUT
  BY <1>3, <1>6, Timeouts DEF Owners
<1>9. ASSUME NEW t \in {CONNECT_TIMEOUT, CONN_TIMEOUT}
      PROVE  /\ AddTimer(ts, t, c) \in Seq(Node) /\ WellFormed(AddTimer(ts, t, c))
             /\ Nodes(AddTimer(ts, t, c)) = {n \in Nodes(ts) : n.handler # c} \union {TimerNode(t, c)}
  BY <1>1, <1>3, <1>7, <1>8, Timeouts, SetTimer
<1>10. /\ r \in Seq(Node) /\ WellFormed(r) /\ Owners(r, fs, lf2, rv2)
       /\ \A n \in Nodes(r) : n \in Nodes(ts) \/ (n.elapsed = elapsed /\ n.age = pending)
  <2>1. CASE /\ timers' = AddTimer(AddTimer(timers, CONNECT_TIMEOUT, c), CONN_TIMEOUT, c)
             /\ life' = [life EXCEPT ![c] = "connecting"]
    <3>0. PICK e1 : e1 = TimerNode(CONNECT_TIMEOUT, c) /\ e1.handler = c /\ e1.expire = CONNECT_TIMEOUT
      BY <1>1, <1>7, Timeouts, NodeTyped
    <3>1. PICK r1 \in Seq(Node) :
            /\ r1 = AddTimer(ts, CONNECT_TIMEOUT, c) /\ WellFormed(r1)
            /\ Nodes(r1) = {n \in Nodes(ts) : n.handler # c} \union {e1}
            /\ e1.handler = c /\ e1.expire = CONNECT_TIMEOUT
      BY <1>9, <3>0
    <3>2. \A n \in Nodes(r1) : n.handler = c => n.expire # CONN_TIMEOUT
      BY <3>1, Timeouts
    <3>3. PICK e : /\ e = TimerNode(CONN_TIMEOUT, c)
                   /\ e.handler = c /\ e.expire = CONN_TIMEOUT
                   /\ e.elapsed = elapsed /\ e.age = pending
      BY <1>1, <1>7, Timeouts, NodeTyped
    <3>4. r = AddTimer(r1, CONN_TIMEOUT, c)
      BY <1>2, <1>2a, <2>1, <3>1
    <3>5. /\ r \in Seq(Node) /\ WellFormed(r)
          /\ Nodes(r) = {n \in Nodes(r1) : n.handler # c} \union {e}
      BY <1>1, <1>7, <3>1, <3>2, <3>3, <3>4, Timeouts, SetTimer
    <3>6. {n \in Nodes(r1) : n.handler # c} = {n \in Nodes(ts) : n.handler # c}
      BY <3>1
    <3>7. Nodes(r) = {n \in Nodes(ts) : n.handler # c} \union {e}
      BY <3>5, <3>6
    <3>8. lf2[c] # "none"
      BY <1>2, <1>2a, <1>4, <2>1
    <3>9. e.expire # INFTIMO
      BY <3>3, Timeouts
    <3>10. Owners(r, fs, lf2, rv2)
      BY <1>3, <1>6, <3>3, <3>7, <3>8, <3>9, OwnersSet
    <3>11. QED
      BY <3>3, <3>5, <3>7, <3>10
  <2>2. CASE /\ timers' = AddTimer(AddTimer(timers, CONN_TIMEOUT, c), INFTIMO, c)
             /\ life' = [life EXCEPT ![c] = "open"]
    <3>0. PICK e1 : e1 = TimerNode(CONN_TIMEOUT, c) /\ e1.handler = c /\ e1.expire = CONN_TIMEOUT
      BY <1>1, <1>7, Timeouts, NodeTyped
    <3>1. PICK r1 \in Seq(Node) :
            /\ r1 = AddTimer(ts, CONN_TIMEOUT, c) /\ WellFormed(r1)
            /\ Nodes(r1) = {n \in Nodes(ts) : n.handler # c} \union {e1}
            /\ e1.handler = c /\ e1.expire = CONN_TIMEOUT
      BY <1>9, <3>0
    <3>2. Has(r1, c)
      BY <3>1 DEF Has
    <3>3. r = AddTimer(r1, INFTIMO, c)
      BY <1>2, <1>2a, <2>2, <3>1
    <3>4. /\ r \in Seq(Node) /\ WellFormed(r)
          /\ Nodes(r) = {n \in Nodes(r1) : n.handler # c}
      BY <1>1, <1>7, <3>1, <3>2, <3>3, DeleteTimer
    <3>5. {n \in Nodes(r1) : n.handler # c} = {n \in Nodes(ts) : n.handler # c}
      BY <3>1
    <3>6. Nodes(r) = {n \in Nodes(ts) : n.handler # c}
      BY <3>4, <3>5
    <3>7. lf2[c] = "open"
      BY <1>2, <1>2a, <1>4, <2>2
    <3>8. Owners(r, fs, lf2, rv2)
      BY <1>3, <1>6, <3>6, <3>7, OwnersRemove
    <3>9. QED
      BY <3>4, <3>6, <3>8
  <2>3. QED
    BY <2>1, <2>2 DEF ConnectServer
<1>11. recv' \subseteq Conn /\ lazyDel' \subseteq Conn
  BY <1>1 DEF Types
<1>12. QED
  BY <1>1, <1>2, <1>2a, <1>5, <1>10, <1>11, Handled

\* onConnected: a connection that is being made has a node for the deletion to find, so
\* none is left in the list.
LEMMA OnConnectedKeeps ==
  ASSUME TimerInv, NEW c \in Conn, OnConnected(c)
  PROVE  TimerInv'
<1>1. /\ Types /\ CountersTyped /\ pc = "poll" /\ fired = <<>> /\ (\A h : ~Has(fired, h))
      /\ life[c] = "connecting"
      /\ UNCHANGED <<elapsed, pending, pc, fired>>
  BY InvCounters, NothingFired DEF TimerInv, OnConnected
<1>2. CASE /\ life' = [life EXCEPT ![c] = "open"]
           /\ timers' = AddTimer(timers, INFTIMO, c)
           /\ UNCHANGED <<recv, lazyDel>>
  <2>1. PICK ts \in Seq(Node) : ts = timers
    BY <1>1 DEF Types
  <2>1a. PICK fs, lf, lf2, rv, rv2, r : fs = fired /\ lf = life /\ rv = recv /\ lf2 = life' /\ rv2 = recv' /\ r = timers'
    OBVIOUS
  <2>2. /\ WellFormed(ts) /\ Owners(ts, fs, lf, rv) /\ ~Has(fs, c)
        /\ Replaces(c, fs, rv2) /\ rv \in SUBSET Conn /\ rv2 = rv
    BY <1>1, <1>2, <2>1, <2>1a, NoneLeft DEF TimerInv, Types
  <2>3. life \in [Conn -> {"none", "connecting", "open"}]
    BY <1>1 DEF Types
  <2>4. life' \in [Conn -> {"none", "connecting", "open"}]
    BY <1>2, <2>3
  <2>5. lf[c] = "connecting" /\ lf2[c] = "open" /\ \A d \in Conn : d # c => lf2[d] = lf[d]
    BY <1>1, <1>2, <2>1, <2>1a, <2>3
  <2>6. Has(ts, c)
    BY <2>2, <2>5 DEF Owners
  <2>7. r = AddTimer(ts, INFTIMO, c) /\ c \in Handler
    BY <1>2, <2>1, <2>1a, Timeouts
  <2>8. /\ r \in Seq(Node) /\ WellFormed(r)
        /\ Nodes(r) = {n \in Nodes(ts) : n.handler # c}
    BY <1>1, <2>2, <2>6, <2>7, DeleteTimer
  <2>9. Owners(r, fs, lf2, rv2)
    BY <2>2, <2>5, <2>8, OwnersRemove
  <2>10. \A n \in Nodes(r) : n \in Nodes(ts)
    BY <2>8
  <2>11. recv' \subseteq Conn /\ lazyDel' \subseteq Conn
    BY <1>1, <1>2 DEF Types
  <2>12. QED
    BY <1>1, <2>1, <2>1a, <2>4, <2>8, <2>9, <2>10, <2>11, Handled
<1>3. CASE EraseConnection(c)
  BY <1>1, <1>3, EraseKeeps, Handled
<1>4. QED
  BY <1>2, <1>3 DEF OnConnected

\* onRead.
LEMMA OnReadKeeps ==
  ASSUME TimerInv, NEW c \in Conn, OnRead(c)
  PROVE  TimerInv'
<1>1. /\ Types /\ pc = "poll" /\ fired = <<>> /\ life[c] = "open"
      /\ UNCHANGED <<elapsed, pending, pc, fired>>
  BY NothingFired DEF TimerInv, OnRead
<1>2. CASE recv' = recv \cup {c} /\ UNCHANGED <<timers, life, lazyDel>>
  <2>1. timers' \in Seq(Node) /\ WellFormed(timers') /\ Owners(timers', fired', life', recv')
    <3>1. Nodes(fired') = {}
      BY <1>1 DEF Nodes
    <3>2. QED
      BY <1>1, <1>2, <3>1 DEF TimerInv, Types, Owners
  <2>2. life' \in [Conn -> {"none", "connecting", "open"}] /\ recv' \subseteq Conn /\ lazyDel' \subseteq Conn
    BY <1>1, <1>2 DEF Types
  <2>3. QED
    BY <1>1, <1>2, <2>1, <2>2, Handled
<1>3. CASE EraseConnection(c)
  BY <1>1, <1>3, EraseKeeps, Handled
<1>4. QED
  BY <1>2, <1>3 DEF OnRead

\* dispatchById.
LEMMA DispatchFailsKeeps ==
  ASSUME TimerInv, NEW c \in Conn, DispatchFails(c)
  PROVE  TimerInv'
<1>1. /\ Types /\ pc \in {"poll", "tick"} /\ lazyDel' = lazyDel \cup {c}
      /\ UNCHANGED <<timers, elapsed, pending, pc, fired, life, recv>>
      /\ pc = "poll" => fired = <<>>
      /\ pc = "tick" => fired # <<>> /\ Head(fired).handler \in Ticker
  BY DEF TimerInv, DispatchFails
<1>2. timers' \in Seq(Node) /\ WellFormed(timers') /\ Owners(timers', fired', life', recv')
  BY <1>1 DEF TimerInv, Types
<1>3. life' \in [Conn -> {"none", "connecting", "open"}] /\ recv' \subseteq Conn /\ lazyDel' \subseteq Conn
  BY <1>1 DEF Types
<1>4. QED
  BY <1>1, <1>2, <1>3, Handled

-----------------------------------------------------------------------------
(* The calls *)

\* The order in which a manager, or the constructors, go through a set.
LEMMA OrderIs ==
  ASSUME NEW S, IsFiniteSet(S), NEW order \in SetToSeqs(S)
  PROVE  /\ Cardinality(S) \in Nat /\ order \in [1..Cardinality(S) -> S]
         /\ S = {order[i] : i \in 1..Cardinality(S)}
         /\ \A i, j \in 1..Cardinality(S) : order[i] = order[j] => i = j
<1> DEFINE k == Cardinality(S)
<1>1. k \in Nat
  BY FS_CardinalityType
<1> HIDE DEF k
<1>2. order \in [1..k -> S] /\ \A i, j \in 1..k : i # j => order[i] # order[j]
  BY DEF SetToSeqs, k
<1>3. order \in Injection(1..k, S)
  BY <1>2 DEF Injection, IsInjective
<1>4. Cardinality(1..k) = k
  BY <1>1, FS_Interval
<1>5. order \in Surjection(1..k, S)
  BY <1>3, <1>4, FS_Injection DEF k
<1>6. S = {order[i] : i \in 1..k}
  BY <1>2, <1>5 DEF Surjection
<1>7. QED
  BY <1>1, <1>2, <1>6 DEF k

\* onTimeout of a connection: it has no node when it is given a new one, since the
\* node it had is the one that was collected.
LEMMA OnTimeoutKeeps ==
  ASSUME TimerInv, NEW c \in Conn, OnTimeout(c)
  PROVE  TimerInv'
<1>1. /\ Types /\ CountersTyped /\ pc = "fire" /\ fired # <<>> /\ fired' = Tail(fired)
      /\ Head(fired).handler = c
      /\ UNCHANGED <<elapsed, pending, pc>>
  BY InvCounters DEF TimerInv, OnTimeout, Calls
<1>2. PICK ts \in Seq(Node), fs \in Seq(Node) : ts = timers /\ fs = fired
  BY <1>1 DEF Types
<1>2a. PICK lf, lf2, rv, rv2, r : lf = life /\ rv = recv /\ lf2 = life' /\ rv2 = recv' /\ r = timers'
  OBVIOUS
<1>3. /\ WellFormed(ts) /\ WellFormed(fs) /\ Owners(ts, fs, lf, rv) /\ fs # <<>>
      /\ Head(fs).handler = c /\ fired' = Tail(fs) /\ rv \in SUBSET Conn
  BY <1>1, <1>2, <1>2a DEF TimerInv, Types
<1>4. Head(fs) \in Nodes(fs) /\ ~Has(Tail(fs), c)
  BY <1>3, PopIs
<1>5. CASE /\ life[c] = "open" /\ c \in recv
           /\ recv' = recv \ {c}
           /\ timers' = AddTimer(timers, CONN_TIMEOUT, c)
           /\ UNCHANGED <<life, lazyDel>>
  <2>1. lf[c] = "open" /\ lf2 = lf /\ c \in rv /\ rv2 = rv \ {c}
    BY <1>2, <1>2a, <1>5
  <2>2. ~Has(ts, c)
    BY <1>3, <1>4, <2>1 DEF Owners
  <2>3. Owners(ts, Tail(fs), lf, rv)
    BY <1>3, <2>1, OwnersPop
  <2>4. c \in Handler /\ CONN_TIMEOUT \in Delay \ {INFTIMO}
    BY Timeouts
  <2>5. r = AddTimer(ts, CONN_TIMEOUT, c)
    BY <1>2, <1>2a, <1>5
  <2>6. PICK e : /\ e = TimerNode(CONN_TIMEOUT, c)
                 /\ e.handler = c /\ e.expire = CONN_TIMEOUT
                 /\ e.elapsed = elapsed /\ e.age = pending
    BY <1>1, <2>4, NodeTyped
  <2>7. \A n \in Nodes(ts) : n.handler = c => n.expire # CONN_TIMEOUT
    BY <2>2 DEF Has
  <2>8. /\ r \in Seq(Node) /\ WellFormed(r)
        /\ Nodes(r) = {n \in Nodes(ts) : n.handler # c} \union {e}
    BY <1>1, <1>3, <2>4, <2>5, <2>6, <2>7, SetTimer
  <2>9. PICK fs2 : fs2 = Tail(fs)
    OBVIOUS
  <2>10. Owners(r, fs2, lf2, rv2)
    <3>1. e.expire # INFTIMO
      BY <2>4, <2>6
    <3>2. Replaces(c, fs2, rv2) /\ rv2 \subseteq rv
      BY <1>4, <2>1, <2>9 DEF Replaces, Has
    <3>3. lf2[c] # "none" /\ \A d \in Conn : d # c => lf2[d] = lf[d]
      BY <2>1
    <3>4. Owners(ts, fs2, lf, rv)
      BY <2>3, <2>9, Zenon
    <3>5. Nodes(r) = {n \in Nodes(ts) : n.handler # c} \union {e} /\ e.handler = c
      BY <2>6, <2>8, Zenon
    <3>6. QED
      BY <1>3, <3>1, <3>2, <3>3, <3>4, <3>5, OwnersSet
  <2>11. \A n \in Nodes(r) : n \in Nodes(ts) \/ (n.elapsed = elapsed /\ n.age = pending)
    BY <2>6, <2>8
  <2>12. /\ life' \in [Conn -> {"none", "connecting", "open"}]
         /\ recv' \subseteq Conn /\ lazyDel' \subseteq Conn
    BY <1>1, <1>5 DEF Types
  <2>13. QED
    BY <1>1, <1>2, <1>2a, <1>3, <2>8, <2>9, <2>10, <2>11, <2>12, Handled
<1>6. CASE EraseConnection(c)
  <2>1. /\ timers' \in Seq(Node) /\ WellFormed(timers')
        /\ \A n \in Nodes(timers') : n \in Nodes(timers) \/ (n.elapsed = elapsed /\ n.age = pending)
        /\ Owners(timers', fired, life', recv') /\ life'[c] = "none"
        /\ life' \in [Conn -> {"none", "connecting", "open"}]
        /\ recv' \subseteq Conn /\ lazyDel' \subseteq Conn
    BY <1>6, EraseKeeps
  <2>2. Owners(r, fs, lf2, rv2) /\ lf2[c] = "none"
    BY <1>2, <1>2a, <2>1
  <2>3. Owners(r, Tail(fs), lf2, rv2)
    BY <1>3, <2>2, OwnersPop
  <2>4. Owners(timers', fired', life', recv')
    BY <1>2, <1>2a, <1>3, <2>3
  <2>5. QED
    BY <1>1, <2>1, <2>4, Handled
<1>7. QED
  BY <1>5, <1>6 DEF OnTimeout

\* doEvent of a deleted object.
LEMMA StaleEventKeeps ==
  ASSUME TimerInv, NEW c \in Conn, StaleEvent(c)
  PROVE  TimerInv'
<1>1. /\ Types /\ pc = "fire" /\ fired # <<>> /\ Head(fired).handler = c /\ life[c] = "none"
      /\ UNCHANGED <<timers, elapsed, pending, life, recv, lazyDel>>
  BY DEF TimerInv, StaleEvent, Calls
<1>2. PICK ts \in Seq(Node), fs \in Seq(Node) : ts = timers /\ fs = fired
  BY <1>1 DEF Types
<1>2a. PICK lf, rv : lf = life /\ rv = recv
  OBVIOUS
<1>3. /\ WellFormed(ts) /\ WellFormed(fs) /\ Owners(ts, fs, lf, rv) /\ fs # <<>>
      /\ Head(fs).handler = c /\ lf[c] = "none"
  BY <1>1, <1>2, <1>2a DEF TimerInv
<1>4. Owners(ts, Tail(fs), lf, rv)
  BY <1>3, OwnersPop
<1>5. Owners(timers', fired', life', recv')
  BY <1>1, <1>2, <1>2a, <1>3, <1>4 DEF StaleEvent
<1>6. /\ timers' \in Seq(Node) /\ WellFormed(timers')
      /\ life' \in [Conn -> {"none", "connecting", "open"}]
      /\ recv' \subseteq Conn /\ lazyDel' \subseteq Conn
  BY <1>1, <1>2, <1>2a, <1>3 DEF Types
<1>7. pc' \in {"fire", "dead"} /\ (fired' = fired \/ (fired # <<>> /\ fired' = Tail(fired)))
  BY <1>1 DEF StaleEvent
<1>8. QED
  BY <1>1, <1>5, <1>6, <1>7, Handled

\* A manager or a block timer that was called arms its timer again.
LEMMA ArmAgain ==
  ASSUME CountersTyped, NEW ts \in Seq(Node), WellFormed(ts), NEW fs \in Seq(Node), WellFormed(fs),
         fs # <<>>, NEW lf, NEW rv \in SUBSET Conn, Owners(ts, fs, lf, rv),
         NEW h \in Manager \union Ticker,
         Head(fs).handler = h, NEW t \in {CONN_DEL_DELAY_TIME, blockSyncInterval},
         NEW r, r = AddTimer(ts, t, h)
  PROVE  /\ r \in Seq(Node) /\ WellFormed(r) /\ Owners(r, Tail(fs), lf, rv)
         /\ \A n \in Nodes(r) : n \in Nodes(ts) \/ (n.elapsed = elapsed /\ n.age = pending)
<1>1. h \notin Conn /\ h \in Handler /\ t \in Delay \ {INFTIMO}
  BY Timeouts, TimerAssumption
<1>2. Head(fs) \in Nodes(fs) /\ ~Has(Tail(fs), h)
  BY PopIs
<1>3. ~Has(ts, h)
  BY <1>1, <1>2 DEF Owners
<1>4. Owners(ts, Tail(fs), lf, rv)
  BY <1>1, OwnersPop
<1>5. PICK e : /\ e = TimerNode(t, h)
               /\ e.handler = h /\ e.expire = t
               /\ e.elapsed = elapsed /\ e.age = pending
  BY <1>1, NodeTyped
<1>6. \A n \in Nodes(ts) : n.handler = h => n.expire # t
  BY <1>3 DEF Has
<1>7. /\ r \in Seq(Node) /\ WellFormed(r)
      /\ Nodes(r) = {n \in Nodes(ts) : n.handler # h} \union {e}
  BY <1>1, <1>5, <1>6, SetTimer
<1>8. PICK fs2 : fs2 = Tail(fs)
  OBVIOUS
<1>9. e.expire # INFTIMO /\ Replaces(h, fs2, rv) /\ Owners(ts, fs2, lf, rv)
  BY <1>1, <1>2, <1>4, <1>5, <1>8 DEF Replaces, Has
<1>10. Owners(r, fs2, lf, rv)
  BY <1>1, <1>5, <1>7, <1>9, OwnersSet
<1>11. QED
  BY <1>5, <1>7, <1>8, <1>10

\* LazyDelConnManager::doEvent.
LEMMA DoLazyDeleteKeeps ==
  ASSUME TimerInv, NEW m \in Manager, DoLazyDelete(m)
  PROVE  TimerInv'
<1>1. /\ Types /\ CountersTyped /\ pc = "fire" /\ fired # <<>> /\ fired' = Tail(fired)
      /\ Head(fired).handler = m
      /\ UNCHANGED <<elapsed, pending, pc>>
  BY InvCounters DEF TimerInv, DoLazyDelete, Calls
<1>2. PICK mine \in SUBSET Conn : mine = {c \in lazyDel : managerOf[c] = m}
  BY <1>1 DEF Types
<1>3. /\ \E order \in SetToSeqs(mine) :
           timers' = AddTimer(FoldLeft(Deleted, timers, order), CONN_DEL_DELAY_TIME, m)
      /\ life' = [c \in Conn |-> IF c \in mine THEN "none" ELSE life[c]]
      /\ recv' = recv \ mine
      /\ lazyDel' = lazyDel \ mine
  BY <1>2 DEF DoLazyDelete
<1>4. PICK order \in SetToSeqs(mine) :
        timers' = AddTimer(FoldLeft(Deleted, timers, order), CONN_DEL_DELAY_TIME, m)
  BY <1>3
<1>5. IsFiniteSet(mine)
  BY TimerAssumption, FS_Subset DEF Handler
<1>6. PICK ts \in Seq(Node), fs \in Seq(Node) : ts = timers /\ fs = fired
  BY <1>1 DEF Types
<1>6a. PICK lf, lf2, rv, rv2, r : lf = life /\ rv = recv /\ lf2 = life' /\ rv2 = recv' /\ r = timers'
  OBVIOUS
<1>7. /\ WellFormed(ts) /\ WellFormed(fs) /\ Owners(ts, fs, lf, rv) /\ fs # <<>>
      /\ Head(fs).handler = m /\ fired' = Tail(fs)
      /\ rv \in SUBSET Conn /\ rv2 \in SUBSET Conn /\ rv2 = rv \ mine
  BY <1>1, <1>3, <1>6, <1>6a DEF TimerInv, Types
<1>8. PICK k \in Nat : /\ order \in [1..k -> Conn] /\ mine = {order[i] : i \in 1..k}
  BY <1>5, OrderIs
<1>9. PICK r1 : r1 = FoldLeft(Deleted, ts, order)
  OBVIOUS
<1>10. Erased(ts, mine, r1)
  <2>1. Erased(ts, {order[i] : i \in 1..k}, FoldLeft(Deleted, ts, order))
    BY <1>1, <1>7, <1>8, EraseAll
  <2>2. QED
    BY <1>8, <1>9, <2>1
<1>11. \A c \in Conn : lf2[c] = IF c \in mine THEN "none" ELSE lf[c]
  BY <1>3, <1>6, <1>6a
<1>12. Owners(r1, fs, lf2, rv2)
  BY <1>1, <1>7, <1>10, <1>11, OwnersErase
<1>13. r1 \in Seq(Node) /\ WellFormed(r1)
  BY <1>10 DEF Erased
<1>14. r = AddTimer(r1, CONN_DEL_DELAY_TIME, m)
  BY <1>4, <1>6, <1>6a, <1>9
<1>15. /\ r \in Seq(Node) /\ WellFormed(r) /\ Owners(r, Tail(fs), lf2, rv2)
       /\ \A n \in Nodes(r) : n \in Nodes(r1) \/ (n.elapsed = elapsed /\ n.age = pending)
  BY <1>1, <1>7, <1>12, <1>13, <1>14, ArmAgain
<1>16. \A n \in Nodes(r1) : n \in Nodes(ts) \/ (n.elapsed = elapsed /\ n.age = pending)
  BY <1>1, <1>10, ErasedNodes
<1>17. life' \in [Conn -> {"none", "connecting", "open"}]
  BY <1>1, <1>3 DEF Types
<1>18. recv' \subseteq Conn /\ lazyDel' \subseteq Conn
  BY <1>1, <1>3 DEF Types
<1>19. /\ timers' \in Seq(Node) /\ WellFormed(timers') /\ Owners(timers', fired', life', recv')
       /\ \A n \in Nodes(timers') : n \in Nodes(timers) \/ (n.elapsed = elapsed /\ n.age = pending)
  BY <1>6, <1>6a, <1>7, <1>15, <1>16
<1>20. QED
  BY <1>1, <1>17, <1>18, <1>19, Handled

\* TimerHandler::doEvent.
LEMMA OnTickKeeps ==
  ASSUME TimerInv, NEW t \in Ticker, OnTick(t)
  PROVE  TimerInv'
<1>1. /\ Types /\ pc = "fire" /\ fired # <<>> /\ Head(fired).handler = t /\ pc' = "tick"
      /\ UNCHANGED <<timers, elapsed, pending, fired, life, recv, lazyDel>>
  BY DEF TimerInv, OnTick, Calls
<1>2. /\ timers' \in Seq(Node) /\ WellFormed(timers') /\ Owners(timers', fired', life', recv')
  BY <1>1 DEF TimerInv, Types
<1>3. /\ life' \in [Conn -> {"none", "connecting", "open"}]
      /\ recv' \subseteq Conn /\ lazyDel' \subseteq Conn
  BY <1>1 DEF Types
<1>4. QED
  BY <1>1, <1>2, <1>3, Handled

\* An exception leaves the handler.
LEMMA DiesKeeps ==
  ASSUME TimerInv, pc = "tick", pc' = "dead",
         UNCHANGED <<timers, elapsed, pending, fired, life, recv, lazyDel>>
  PROVE  TimerInv'
<1>1. /\ timers' \in Seq(Node) /\ WellFormed(timers') /\ Owners(timers', fired', life', recv')
  BY DEF TimerInv, Types
<1>2. /\ life' \in [Conn -> {"none", "connecting", "open"}]
      /\ recv' \subseteq Conn /\ lazyDel' \subseteq Conn
  BY DEF TimerInv, Types
<1>3. QED
  BY <1>1, <1>2, Handled

\* The end of TimerHandler::doEvent, with or without an exception.
LEMMA OnTickEndsKeeps ==
  ASSUME TimerInv, NEW t \in Ticker, OnTickEnds(t)
  PROVE  TimerInv'
<1>0. SUFFICES ASSUME fired' = Tail(fired), timers' = AddTimer(timers, blockSyncInterval, t),
                      pc' = "fire"
               PROVE  TimerInv'
  BY DiesKeeps DEF OnTickEnds
<1>1. /\ Types /\ CountersTyped /\ pc = "tick" /\ fired # <<>> /\ fired' = Tail(fired)
      /\ Head(fired).handler = t /\ timers' = AddTimer(timers, blockSyncInterval, t)
      /\ UNCHANGED <<elapsed, pending, life, recv, lazyDel>>
  BY <1>0, InvCounters DEF TimerInv, OnTickEnds
<1>2. PICK ts \in Seq(Node), fs \in Seq(Node) : ts = timers /\ fs = fired
  BY <1>1 DEF Types
<1>2a. PICK lf, rv, r : lf = life /\ rv = recv /\ r = timers'
  OBVIOUS
<1>3. /\ WellFormed(ts) /\ WellFormed(fs) /\ Owners(ts, fs, lf, rv) /\ fs # <<>>
      /\ Head(fs).handler = t /\ fired' = Tail(fs) /\ r = AddTimer(ts, blockSyncInterval, t)
      /\ rv \in SUBSET Conn
  BY <1>1, <1>2, <1>2a DEF TimerInv, Types
<1>4. /\ r \in Seq(Node) /\ WellFormed(r) /\ Owners(r, Tail(fs), lf, rv)
      /\ \A n \in Nodes(r) : n \in Nodes(ts) \/ (n.elapsed = elapsed /\ n.age = pending)
  BY <1>1, <1>3, ArmAgain
<1>5. /\ timers' \in Seq(Node) /\ WellFormed(timers') /\ Owners(timers', fired', life', recv')
      /\ \A n \in Nodes(timers') : n \in Nodes(timers) \/ (n.elapsed = elapsed /\ n.age = pending)
  BY <1>1, <1>2, <1>2a, <1>3, <1>4
<1>6. /\ life' \in [Conn -> {"none", "connecting", "open"}]
      /\ recv' \subseteq Conn /\ lazyDel' \subseteq Conn
  BY <1>1 DEF Types
<1>7. QED
  BY <1>0, <1>1, <1>5, <1>6, Handled

\* The vector is done.
LEMMA BackToPollKeeps ==
  ASSUME TimerInv, BackToPoll
  PROVE  TimerInv'
<1>1. /\ Types /\ pc = "fire" /\ fired = <<>> /\ pc' = "poll"
      /\ UNCHANGED <<timers, elapsed, pending, fired, life, recv, lazyDel>>
  BY DEF TimerInv, BackToPoll
<1>2. /\ timers' \in Seq(Node) /\ WellFormed(timers') /\ Owners(timers', fired', life', recv')
  BY <1>1 DEF TimerInv, Types
<1>3. /\ life' \in [Conn -> {"none", "connecting", "open"}]
      /\ recv' \subseteq Conn /\ lazyDel' \subseteq Conn
  BY <1>1 DEF Types
<1>4. QED
  BY <1>1, <1>2, <1>3, Handled

-----------------------------------------------------------------------------
(* The clock *)

\* resetElapsed: what it drops has been counted, or comes late.
LEMMA ResetElapsedKeeps ==
  ASSUME TimerInv, ResetElapsed
  PROVE  TimerInv'
<1>1. /\ Types /\ CountersTyped /\ MaxPending * TIME_CLICK \in Nat
      /\ pc = "reset" /\ pending' = 0 /\ pc' = "fire"
      /\ UNCHANGED <<timers, elapsed, fired, life, recv, lazyDel>>
  BY InvCounters DEF TimerInv, ResetElapsed
<1>2. Types'
  BY <1>1 DEF Types
<1>3. (\E k \in Nat : pending = k * TIME_CLICK)'
  <2>1. 0 = 0 * TIME_CLICK
    BY TimerAssumption
  <2>2. QED
    BY <1>1, <2>1
<1>4. Uncounted = 0 /\ Uncounted' = 0
  BY <1>1 DEF Uncounted
<1>5. (\A n \in Nodes(timers) : TimelyAt(n, elapsed, Uncounted))'
  BY <1>1, <1>4 DEF TimerInv
<1>6. QED
  BY <1>1, <1>2, <1>3, <1>5 DEF TimerInv

\* A node that got older at a click.
Older(n, old) ==
  /\ n.handler = old.handler /\ n.expire = old.expire /\ n.elapsed = old.elapsed
  /\ n.age = IF old.age > old.expire THEN old.age ELSE old.age + TIME_CLICK

\* epoll_timer_click: a node gets as old as the counter grows.
LEMMA ClickKeeps ==
  ASSUME TimerInv, Click
  PROVE  TimerInv'
<1>1. /\ Types /\ CountersTyped /\ pending < MaxPending * TIME_CLICK
      /\ pending' = pending + TIME_CLICK
      /\ UNCHANGED <<elapsed, pc, fired, life, recv, lazyDel>>
  BY InvCounters DEF TimerInv, Click
<1>2. PICK T \in Nat \ {0}, M \in Nat : T = TIME_CLICK /\ M = MaxPending
  BY TimerAssumption
<1>3. PICK k \in Nat : pending = k * T
  BY <1>2 DEF TimerInv
<1>4. k < M
  <2>1. k * T < M * T
    BY <1>1, <1>2, <1>3
  <2>2. CASE k >= M
    <3>1. k * T >= M * T
      BY <1>2, <2>2
    <3>2. k * T \in Int /\ M * T \in Int
      BY <1>2
    <3>3. QED
      BY <2>1, <3>1, <3>2
  <2>3. QED
    BY <2>2
<1>5. pending' = (k + 1) * T /\ pending' \in 0..M * T
  <2>1. pending' = (k + 1) * T
    BY <1>1, <1>2, <1>3
  <2>2. (k + 1) * T <= M * T /\ (k + 1) * T >= 0
    BY <1>2, <1>4
  <2>3. QED
    BY <1>2, <2>1, <2>2
<1>6. PICK ts \in Seq(Node) : ts = timers
  BY <1>1 DEF Types
<1>6a. PICK r : r = timers'
  OBVIOUS
<1>7. DOMAIN r = DOMAIN ts /\ \A i \in DOMAIN ts : r[i] \in Node /\ Older(r[i], ts[i])
  <2>1. r = [i \in DOMAIN ts |-> [ts[i] EXCEPT !.age = IF @ > ts[i].expire THEN @ ELSE @ + TIME_CLICK]]
    BY <1>6, <1>6a DEF Click
  <2>2. DOMAIN r = DOMAIN ts
    BY <2>1
  <2>3. ASSUME NEW i \in DOMAIN ts
        PROVE  r[i] \in Node /\ Older(r[i], ts[i])
    <3>1. PICK n \in Node : n = ts[i]
      OBVIOUS
    <3>2. r[i] = [n EXCEPT !.age = IF n.age > n.expire THEN n.age ELSE n.age + TIME_CLICK]
      BY <2>1, <3>1
    <3>3. n.age \in Nat /\ TIME_CLICK \in Nat /\ n.age + TIME_CLICK \in Nat
      BY <1>2, <3>1 DEF Node
    <3>4. QED
      BY <3>1, <3>2, <3>3 DEF Node, Older
  <2>4. QED
    BY <2>2, <2>3
<1>8. r \in Seq(Node)
  <2>1. DOMAIN ts = 1..Len(ts) /\ Len(ts) \in Nat
    OBVIOUS
  <2>2. r \in [1..Len(ts) -> Node]
    <3>1. r = [i \in DOMAIN ts |-> [ts[i] EXCEPT !.age = IF @ > ts[i].expire THEN @ ELSE @ + TIME_CLICK]]
      BY <1>6, <1>6a DEF Click
    <3>2. QED
      BY <1>7, <2>1, <3>1
  <2>3. QED
    BY <2>1, <2>2
<1>9. WellFormed(r)
  <2>1. WellFormed(ts)
    BY <1>6, <1>6a DEF TimerInv
  <2>2. QED
    BY <1>7, <2>1 DEF WellFormed, Distinct, LeftFirst, Older
<1>10. \A n \in Nodes(r) : \E old \in Nodes(ts) : Older(n, old)
  BY <1>7 DEF Nodes
<1>11. \A old \in Nodes(ts) : \E n \in Nodes(r) : Older(n, old)
  BY <1>7 DEF Nodes
<1>12. \A h : Has(r, h) <=> Has(ts, h)
  BY <1>10, <1>11 DEF Has, Older
<1>13. Owners(r, fired, life, recv)
  <2>1. Owners(ts, fired, life, recv)
    BY <1>6, <1>6a DEF TimerInv
  <2>2. \A n \in Nodes(r) : \E old \in Nodes(ts) : n.handler = old.handler /\ n.expire = old.expire
    BY <1>10 DEF Older
  <2>3. \A n \in Nodes(r) : n.handler \in Conn /\ life[n.handler] = "none" => n.expire = INFTIMO
    BY <2>1, <2>2 DEF Owners
  <2>4. \A n \in Nodes(r) \union Nodes(fired) :
          /\ n.expire = INFTIMO => n.handler \in Conn
          /\ n.handler \in Conn /\ kind[n.handler] # "master" /\ n.expire = INFTIMO
               => life[n.handler] = "none"
    BY <2>1, <2>2 DEF Owners
  <2>5. QED
    BY <1>12, <2>1, <2>3, <2>4 DEF Owners
<1>14. ASSUME NEW n \in Nodes(r)
       PROVE  TimelyAt(n, elapsed, Uncounted')
  <2>1. PICK old \in Nodes(ts) : Older(n, old)
    BY <1>10
  <2>2. TimelyAt(old, elapsed, Uncounted)
    BY <1>6, <1>6a DEF TimerInv
  <2>3. CASE old.age > old.expire
    BY <2>1, <2>3 DEF Older, TimelyAt
  <2>4. CASE ~(old.age > old.expire)
    <3>1. PICK c \in Nat : c + Uncounted <= old.age /\ Wrapped(old.elapsed + c) = elapsed
      BY <2>2, <2>4 DEF TimelyAt
    <3>2. n.age = old.age + T /\ n.elapsed = old.elapsed
      BY <1>2, <2>1, <2>4 DEF Older
    <3>3. old.age \in Nat
      <4>1. PICK i \in DOMAIN ts : old = ts[i]
        BY DEF Nodes
      <4>2. ts[i] \in Node
        OBVIOUS
      <4>3. QED
        BY <4>1, <4>2 DEF Node
    <3>4. Uncounted \in Nat /\ Uncounted' \in Nat /\ Uncounted' <= Uncounted + T
      BY <1>1, <1>2 DEF Uncounted, CountersTyped
    <3>5. c + Uncounted' <= n.age
      BY <3>1, <3>2, <3>3, <3>4
    <3>6. QED
      BY <3>1, <3>2, <3>5 DEF TimelyAt
  <2>5. QED
    BY <2>3, <2>4
<1>15. Types'
  BY <1>1, <1>2, <1>5, <1>6, <1>6a, <1>8 DEF Types
<1>16. (\E l \in Nat : pending = l * TIME_CLICK)'
  <2>1. k + 1 \in Nat /\ pending' = (k + 1) * TIME_CLICK
    BY <1>2, <1>5
  <2>2. QED
    BY <2>1
<1>17. (\A n \in Nodes(timers) : TimelyAt(n, elapsed, Uncounted))'
  BY <1>1, <1>6, <1>6a, <1>14
<1>18. Owners(timers, fired, life, recv)' /\ WellFormed(timers)'
  BY <1>1, <1>6, <1>6a, <1>9, <1>13
<1>19. QED
  BY <1>1, <1>15, <1>16, <1>17, <1>18 DEF TimerInv

\* checkTimer: a node that it collects is old enough.
LEMMA DueIsOld ==
  ASSUME NEW n \in Node, NEW e, NEW p \in Nat, TimelyAt(n, e, p), n.age <= n.expire
  PROVE  /\ ~(Wrapped(Wrapped(e + p) - n.elapsed) > n.expire)
         /\ TimelyAt(n, Wrapped(e + p), 0)
<1>1. n.age \in Nat /\ n.elapsed \in -Half..(Half - 1) /\ n.expire \in Delay
  BY DEF Node
<1>2. PICK a \in Nat, x \in -Half..(Half - 1), d \in Delay : a = n.age /\ x = n.elapsed /\ d = n.expire
  BY <1>1
<1>3. d \in Int /\ d < Half /\ Half \in Nat
  BY IntIs
<1>4. PICK c \in Nat : c + p <= a /\ Wrapped(x + c) = e
  BY <1>2, <1>3 DEF TimelyAt
<1>5. x \in Int /\ x + c \in Int /\ (x + c) + p = x + (c + p)
  BY <1>3
<1>6. Wrapped(e + p) = Wrapped(x + (c + p))
  <2>1. Wrapped(Wrapped(x + c) + p) = Wrapped((x + c) + p)
    BY <1>5, WrapAdd
  <2>2. QED
    BY <1>4, <1>5, <2>1
<1>7. c + p \in 0..Half - 1 /\ c + p <= d
  BY <1>2, <1>3, <1>4
<1>8. Wrapped(Wrapped(x + (c + p)) - x) = c + p
  BY <1>7, WrapBack
<1>9. ~(Wrapped(Wrapped(e + p) - x) > d)
  BY <1>3, <1>6, <1>7, <1>8
<1>10. c + p \in Nat /\ (c + p) + 0 <= a
  BY <1>4
<1>11. TimelyAt(n, Wrapped(e + p), 0)
  BY <1>2, <1>6, <1>10 DEF TimelyAt
<1>12. QED
  BY <1>2, <1>9, <1>11

\* The two parts of a list that is cut before its kth node.
Before(ts, k) == SubSeq(ts, 1, k - 1)
From(ts, k) == SubSeq(ts, k, Len(ts))

\* The list is cut in two.
LEMMA CutIs ==
  ASSUME NEW ts \in Seq(Node), WellFormed(ts), NEW k \in 1..Len(ts) + 1
  PROVE  LET a == Before(ts, k)
             b == From(ts, k)
         IN /\ a \in Seq(Node) /\ b \in Seq(Node) /\ WellFormed(a) /\ WellFormed(b)
            /\ Nodes(a) = {ts[i] : i \in 1..k - 1} /\ Nodes(b) = {ts[i] : i \in k..Len(ts)}
            /\ Nodes(ts) = Nodes(a) \union Nodes(b)
            /\ \A n \in Nodes(a) : ~Has(b, n.handler)
<1>0. PICK a, b : a = Before(ts, k) /\ b = From(ts, k)
  OBVIOUS
<1>1. Len(ts) \in Nat /\ DOMAIN ts = 1..Len(ts)
  OBVIOUS
<1>2. /\ a \in Seq(Node) /\ DOMAIN a = 1..k - 1 /\ \A j \in 1..k - 1 : a[j] = ts[j]
  BY <1>0 DEF Before
<1>3. /\ b \in Seq(Node) /\ DOMAIN b = 1..Len(ts) - k + 1
      /\ \A j \in 1..Len(ts) - k + 1 : b[j] = ts[j + k - 1]
  BY <1>0 DEF From
<1>4. Nodes(a) = {ts[i] : i \in 1..k - 1}
  BY <1>2 DEF Nodes
<1>5. Nodes(b) = {ts[i] : i \in k..Len(ts)}
  <2>1. ASSUME NEW j \in 1..Len(ts) - k + 1
        PROVE  b[j] \in {ts[i] : i \in k..Len(ts)}
    <3>1. j + k - 1 \in k..Len(ts)
      BY <1>1
    <3>2. QED
      BY <1>3, <3>1
  <2>2. ASSUME NEW i \in k..Len(ts)
        PROVE  ts[i] \in Nodes(b)
    <3>1. i - k + 1 \in 1..Len(ts) - k + 1 /\ (i - k + 1) + k - 1 = i
      BY <1>1
    <3>2. b[i - k + 1] = ts[i]
      BY <1>3, <3>1
    <3>3. QED
      BY <1>3, <3>1, <3>2 DEF Nodes
  <2>3. QED
    BY <1>3, <2>1, <2>2 DEF Nodes
<1>6. WellFormed(a)
  <2>1. 1..k - 1 \subseteq 1..Len(ts)
    BY <1>1
  <2>2. QED
    BY <1>1, <1>2, <2>1 DEF WellFormed, Distinct, LeftFirst
<1>7. WellFormed(b)
  <2>1. ASSUME NEW i \in 1..Len(ts) - k + 1, NEW j \in 1..Len(ts) - k + 1
        PROVE  /\ b[i].handler = b[j].handler => i = j
               /\ i < j /\ b[j].expire = INFTIMO => b[i].expire = INFTIMO
    <3>1. PICK i0 \in DOMAIN ts, j0 \in DOMAIN ts : i0 = i + k - 1 /\ j0 = j + k - 1
      BY <1>1
    <3>2. b[i] = ts[i0] /\ b[j] = ts[j0] /\ (i0 = j0 => i = j) /\ (i < j => i0 < j0)
      BY <1>1, <1>3, <3>1
    <3>3. QED
      BY <3>2 DEF WellFormed, Distinct, LeftFirst
  <2>2. QED
    BY <1>3, <2>1 DEF WellFormed, Distinct, LeftFirst
<1>8. Nodes(ts) = Nodes(a) \union Nodes(b)
  <2>1. 1..Len(ts) = (1..k - 1) \union (k..Len(ts))
    BY <1>1
  <2>2. QED
    BY <1>1, <1>4, <1>5, <2>1 DEF Nodes
<1>9. ASSUME NEW n \in Nodes(a), Has(b, n.handler)
      PROVE  FALSE
  <2>1. PICK i \in 1..k - 1 : n = ts[i]
    BY <1>4
  <2>2. PICK j \in k..Len(ts) : ts[j].handler = n.handler
    BY <1>5, <1>9 DEF Has
  <2>3. i \in DOMAIN ts /\ j \in DOMAIN ts /\ i # j
    BY <1>1
  <2>4. QED
    BY <2>1, <2>2, <2>3 DEF WellFormed, Distinct
<1>10. QED
  BY <1>0, <1>2, <1>3, <1>4, <1>5, <1>6, <1>7, <1>8, <1>9

\* checkTimer: the nodes at the front of the list whose time has passed are collected.
LEMMA CheckTimerKeeps ==
  ASSUME TimerInv, CheckTimer
  PROVE  TimerInv'
<1>1. /\ Types /\ CountersTyped /\ pc = "poll" /\ fired = <<>> /\ pc' = "reset"
      /\ UNCHANGED <<pending, life, recv, lazyDel>>
  BY InvCounters, NothingFired DEF TimerInv, CheckTimer
<1>2. PICK ts \in Seq(Node), e \in -Half..(Half - 1), p \in Nat : ts = timers /\ e = elapsed /\ p = pending
  BY <1>1 DEF Types, CountersTyped
<1>2a. PICK a, b : a = fired' /\ b = timers'
  OBVIOUS
<1> DEFINE due(n) == Wrapped(Wrapped(e + p) - n.elapsed) > n.expire
           D == {i \in DOMAIN ts : ~due(ts[i])} \cup {Len(ts) + 1}
<1>3. /\ elapsed' = Wrapped(e + p)
      /\ a = SubSeq(ts, 1, Min(D) - 1) /\ b = SubSeq(ts, Min(D), Len(ts))
  BY <1>2, <1>2a DEF CheckTimer
<1>4. PICK k \in 1..Len(ts) + 1 : k = Min(D) /\ \A j \in 1..k - 1 : due(ts[j])
  <2>1. D \subseteq 1..Len(ts) + 1 /\ D # {} /\ D \subseteq Nat
    OBVIOUS
  <2>2. \A i \in DOMAIN ts : i \notin D => due(ts[i])
    OBVIOUS
  <2>3. DOMAIN ts = 1..Len(ts) /\ Len(ts) \in Nat
    OBVIOUS
  <2> HIDE DEF D, due
  <2>4. Min(D) \in D /\ \A j \in D : Min(D) <= j
    BY <2>1, MinIn
  <2>5. PICK k \in 1..Len(ts) + 1 : k = Min(D)
    BY <2>1, <2>4
  <2>6. \A j \in 1..k - 1 : j \in DOMAIN ts /\ j \notin D
    BY <2>3, <2>4, <2>5
  <2>7. QED
    BY <2>2, <2>5, <2>6
<1> HIDE DEF D
<1>5. WellFormed(ts) /\ Owners(ts, fired, life, recv) /\ Nodes(fired) = {}
  BY <1>1, <1>2, <1>2a DEF TimerInv, Nodes
<1>6. /\ a \in Seq(Node) /\ b \in Seq(Node) /\ WellFormed(a) /\ WellFormed(b)
      /\ Nodes(a) = {ts[i] : i \in 1..k - 1}
      /\ Nodes(ts) = Nodes(a) \union Nodes(b)
      /\ \A n \in Nodes(a) : ~Has(b, n.handler)
  <2>1. a = Before(ts, k) /\ b = From(ts, k)
    BY <1>3, <1>4 DEF Before, From
  <2>2. QED
    BY <1>5, <2>1, CutIs
<1>7. Nodes(ts) \subseteq Node
  BY DEF Nodes
<1>8. \A n \in Nodes(ts) : TimelyAt(n, e, p)
  BY <1>1, <1>2, <1>2a DEF TimerInv, Uncounted
<1>9. \A n \in Nodes(ts) : n.age \in Nat /\ n.expire \in Int
  BY <1>7, IntIs DEF Node
<1>10. \A n \in Nodes(a) : n.age > n.expire
  <2>1. \A n \in Nodes(a) : due(n) /\ n \in Nodes(ts)
    BY <1>4, <1>6
  <2>2. ASSUME NEW n \in Nodes(ts), n.age <= n.expire
        PROVE  ~due(n)
    BY <1>7, <1>8, <2>2, DueIsOld
  <2> HIDE DEF due
  <2>3. QED
    BY <1>9, <2>1, <2>2
<1>11. \A n \in Nodes(b) : TimelyAt(n, Wrapped(e + p), 0)
  <2>1. ASSUME NEW n \in Nodes(ts)
        PROVE  TimelyAt(n, Wrapped(e + p), 0)
    <3>1. CASE n.age <= n.expire
      BY <1>7, <1>8, <3>1, DueIsOld
    <3>2. CASE n.age > n.expire
      BY <3>2 DEF TimelyAt
    <3>3. QED
      BY <1>9, <3>1, <3>2
  <2>2. QED
    BY <1>6, <2>1
<1>12. Owners(b, a, life, recv)
  <2>1. \A c \in Conn : Has(ts, c) => Has(b, c) \/ Has(a, c)
    BY <1>6 DEF Has
  <2>2. \A c : ~Has(fired, c)
    BY <1>5 DEF Has
  <2>3. \A n \in Nodes(b) : n \in Nodes(ts)
    BY <1>6
  <2>4. \A n \in Nodes(a) : n \in Nodes(ts)
    BY <1>6
  <2>5. \A c \in Conn : life[c] = "connecting" => Has(b, c) \/ Has(a, c)
    BY <1>5, <2>1, <2>2 DEF Owners
  <2>6. QED
    BY <1>5, <1>6, <2>3, <2>4, <2>5 DEF Owners
<1>13. elapsed' \in -Half..(Half - 1)
  <2>1. e + p \in Int
    BY IntIs
  <2>2. QED
    BY <1>3, <2>1, WrapIs
<1>14. Types'
  BY <1>1, <1>2, <1>2a, <1>6, <1>13 DEF Types
<1>15. Uncounted' = 0
  BY <1>1 DEF Uncounted
<1>16. (\A n \in Nodes(timers) : TimelyAt(n, elapsed, Uncounted))'
  BY <1>2, <1>2a, <1>3, <1>11, <1>15
<1>17. (\A n \in Nodes(fired) : n.age > n.expire)'
  BY <1>2, <1>2a, <1>10
<1>18. (\E l \in Nat : pending = l * TIME_CLICK)'
  BY <1>1 DEF TimerInv
<1>19. Owners(timers, fired, life, recv)' /\ WellFormed(timers)' /\ WellFormed(fired)'
  BY <1>1, <1>2, <1>2a, <1>6, <1>12
<1>20. QED
  BY <1>1, <1>14, <1>16, <1>17, <1>18, <1>19 DEF TimerInv

-----------------------------------------------------------------------------
(* The start *)

\* The timers of the block timers in some order.
LEMMA TickersIn ==
  /\ Cardinality(Ticker) \in Nat /\ SetToSeq(Ticker) \in [1..Cardinality(Ticker) -> Ticker]
  /\ \A i, j \in 1..Cardinality(Ticker) : SetToSeq(Ticker)[i] = SetToSeq(Ticker)[j] => i = j
<1> DEFINE k == Cardinality(Ticker)
<1>1. IsFiniteSet(Ticker)
  BY TimerAssumption, FS_Subset DEF Handler
<1>2. k \in Nat /\ ExistsBijection(1..k, Ticker)
  BY <1>1, FS_CardinalityType
<1> HIDE DEF k
<1>3. \E f \in [1..k -> Ticker] : IsInjective(f)
  BY <1>2 DEF ExistsBijection, Bijection, Injection
<1>4. SetToSeq(Ticker) \in [1..k -> Ticker] /\ IsInjective(SetToSeq(Ticker))
  <2>1. SetToSeq(Ticker) = CHOOSE f \in [1..k -> Ticker] : IsInjective(f)
    BY DEF SetToSeq, k
  <2>2. QED
    BY <1>3, <2>1
<1>5. QED
  BY <1>2, <1>4 DEF IsInjective, k

\* The constructors arm one timer for each manager and each block timer.
LEMMA StartedIs ==
  ASSUME NEW order \in SetToSeqs(Manager), NEW ts, ts = Started(order)
  PROVE  /\ ts \in Seq(Node) /\ WellFormed(ts)
         /\ \A n \in Nodes(ts) : /\ n.elapsed = 0 /\ n.age = 0 /\ n.handler \notin Conn
                                 /\ n.expire # INFTIMO
<1> DEFINE node(t, h) == [expire |-> t, elapsed |-> 0, handler |-> h, age |-> 0]
<1>1. IsFiniteSet(Manager)
  BY TimerAssumption, FS_Subset DEF Handler
<1>2. PICK k \in Nat : /\ order \in [1..k -> Manager]
                       /\ \A i, j \in 1..k : order[i] = order[j] => i = j
  BY <1>1, OrderIs
<1>3. PICK l \in Nat : l = Cardinality(Ticker)
  BY TickersIn
<1>3a. PICK tick \in [1..l -> Ticker] : /\ tick = SetToSeq(Ticker)
                                        /\ \A i, j \in 1..l : tick[i] = tick[j] => i = j
  BY <1>3, TickersIn
<1> DEFINE a == [i \in 1..k |-> node(CONN_DEL_DELAY_TIME, order[i])]
           b == [i \in 1..l |-> node(blockSyncInterval, tick[i])]
<1>4. ts = a \o b
  BY <1>2, <1>3, <1>3a DEF Started
<1>5. 0 \in -Half..(Half - 1) /\ Half \in Nat
  BY IntIs
<1>6. \A t \in Delay, h \in Handler : node(t, h) \in Node
  BY <1>5 DEF Node
<1>7. \A i \in 1..k : node(CONN_DEL_DELAY_TIME, order[i]) \in Node
  <2> HIDE DEF node
  <2>1. CONN_DEL_DELAY_TIME \in Delay /\ \A i \in 1..k : order[i] \in Handler
    BY <1>2, Timeouts
  <2>2. QED
    BY <1>6, <2>1
<1>8. \A i \in 1..l : node(blockSyncInterval, tick[i]) \in Node
  <2> HIDE DEF node
  <2>1. blockSyncInterval \in Delay /\ \A i \in 1..l : tick[i] \in Handler
    BY <1>3a, Timeouts
  <2>2. QED
    BY <1>6, <2>1
<1>9. /\ \A i \in 1..k : /\ a[i].handler = order[i] /\ a[i].elapsed = 0 /\ a[i].age = 0
                         /\ a[i].expire # INFTIMO
      /\ \A i \in 1..l : /\ b[i].handler = tick[i] /\ b[i].elapsed = 0 /\ b[i].age = 0
                         /\ b[i].expire # INFTIMO
  BY Timeouts
<1>10. a \in Seq(Node) /\ Len(a) = k
  BY <1>7
<1>11. b \in Seq(Node) /\ Len(b) = l
  BY <1>8
<1> HIDE DEF a, b, node
<1>12. /\ ts \in Seq(Node) /\ DOMAIN ts = 1..k + l
       /\ \A j \in 1..k + l : ts[j] = IF j <= k THEN a[j] ELSE b[j - k]
  <2>0. /\ a \o b \in Seq(Node) /\ Len(a \o b) = Len(a) + Len(b)
        /\ \A j \in 1..Len(a) + Len(b) : (a \o b)[j] = IF j <= Len(a) THEN a[j] ELSE b[j - Len(a)]
    BY <1>10, <1>11, ConcatIs
  <2>1. /\ ts \in Seq(Node) /\ Len(ts) = k + l
        /\ \A j \in 1..k + l : ts[j] = IF j <= k THEN a[j] ELSE b[j - k]
    BY <1>4, <1>10, <1>11, <2>0
  <2>2. DOMAIN ts = 1..Len(ts)
    BY <2>1
  <2>3. QED
    BY <2>1, <2>2
<1>13. ASSUME NEW j \in 1..k + l
       PROVE  /\ ts[j].elapsed = 0 /\ ts[j].age = 0 /\ ts[j].expire # INFTIMO
              /\ j <= k => j \in 1..k /\ ts[j].handler = order[j]
              /\ j > k => j - k \in 1..l /\ ts[j].handler = tick[j - k]
  <2>1. CASE j <= k
    BY <1>9, <1>12, <2>1
  <2>2. CASE j > k
    <3>1. j - k \in 1..l /\ ts[j] = b[j - k]
      BY <1>12, <2>2
    <3>2. QED
      BY <1>9, <2>2, <3>1
  <2>3. QED
    BY <2>1, <2>2
<1>14. \A j \in 1..k + l : /\ j <= k => ts[j].handler \in Manager
                           /\ j > k => ts[j].handler \in Ticker
  BY <1>2, <1>3a, <1>13
<1>15. Distinct(ts)
  <2>1. SUFFICES ASSUME NEW i \in 1..k + l, NEW j \in 1..k + l, ts[i].handler = ts[j].handler
                 PROVE  i = j
    BY <1>12 DEF Distinct
  <2>2. Manager \cap Ticker = {}
    BY TimerAssumption
  <2>3. CASE i <= k /\ j <= k
    BY <1>2, <1>13, <2>1, <2>3
  <2>4. CASE i > k /\ j > k
    <3>1. i - k \in 1..l /\ j - k \in 1..l /\ tick[i - k] = tick[j - k]
      BY <1>13, <2>1, <2>4
    <3>2. i - k = j - k
      BY <1>3a, <3>1
    <3>3. QED
      BY <3>2
  <2>5. QED
    BY <1>14, <2>1, <2>2, <2>3, <2>4
<1>16. \A j \in 1..k + l : ts[j].handler \notin Conn
  BY <1>14, TimerAssumption
<1>17. QED
  BY <1>12, <1>13, <1>15, <1>16 DEF Nodes, WellFormed, LeftFirst

\* The state in which a process starts.
LEMMA FreshInv == Init => TimerInv
<1> SUFFICES ASSUME Init PROVE TimerInv
  OBVIOUS
<1>1. PICK order \in SetToSeqs(Manager) : timers = Started(order)
  BY DEF Init
<1>2. PICK ts : ts = timers
  OBVIOUS
<1>3. /\ ts \in Seq(Node) /\ WellFormed(ts)
      /\ \A n \in Nodes(ts) : /\ n.elapsed = 0 /\ n.age = 0 /\ n.handler \notin Conn
                              /\ n.expire # INFTIMO
  BY <1>1, <1>2, StartedIs
<1>4. MaxPending * TIME_CLICK \in Nat
  <2>1. MaxPending \in Nat /\ TIME_CLICK \in Nat
    BY TimerAssumption
  <2>2. QED
    BY <2>1
<1>5. elapsed \in -Half..(Half - 1) /\ pending \in Nat /\ pending \in 0..MaxPending * TIME_CLICK
  BY <1>4, IntIs DEF Init
<1>6. Types
  BY <1>2, <1>3, <1>5 DEF Init, Types
<1>7. Nodes(fired) = {} /\ WellFormed(fired) /\ fired = <<>> /\ pc = "poll"
  BY DEF Init, Nodes, WellFormed, Distinct, LeftFirst
<1>8. \E k \in Nat : pending = k * TIME_CLICK
  <2>1. 0 = 0 * TIME_CLICK
    BY TimerAssumption
  <2>2. QED
    BY <2>1 DEF Init
<1>9. Owners(timers, fired, life, recv)
  <2>1. (\A c \in Conn : life[c] = "none") /\ recv = {}
    BY DEF Init
  <2>2. QED
    BY <1>2, <1>3, <1>7, <2>1 DEF Owners
<1>10. \A n \in Nodes(timers) : TimelyAt(n, elapsed, Uncounted)
  <2>1. CountersTyped /\ elapsed = 0 /\ pending = 0 /\ Uncounted = pending
    BY <1>5 DEF CountersTyped, Init, Uncounted
  <2>2. QED
    BY <1>2, <1>3, <2>1, NewTimely
<1>11. QED
  BY <1>2, <1>3, <1>6, <1>7, <1>8, <1>9, <1>10 DEF TimerInv

\* A process that died starts like the first.
LEMMA RestartKeeps == Restart => TimerInv'
<1>1. Restart => Init'
  BY DEF Restart, Init
<1>2. QED
  BY <1>1, FreshInv, PTL

\* Every step keeps the invariant.
LEMMA StepKeeps ==
  ASSUME TimerInv, [Next]_vars
  PROVE  TimerInv'
<1>1. CASE Loop
  BY <1>1, CheckTimerKeeps, ResetElapsedKeeps, BackToPollKeeps, RestartKeeps, OnTimeoutKeeps,
     StaleEventKeeps, DoLazyDeleteKeeps, OnTickKeeps, OnTickEndsKeeps DEF Loop
<1>2. CASE Click
  BY <1>2, ClickKeeps
<1>3. CASE Events
  BY <1>3, OnAcceptKeeps, ConnectServerKeeps, OnConnectedKeeps, OnReadKeeps, DispatchFailsKeeps
  DEF Events
<1>4. CASE UNCHANGED vars
  BY <1>4 DEF vars, TimerInv, Types, Uncounted
<1>5. QED
  BY <1>1, <1>2, <1>3, <1>4 DEF Next

\* The invariant holds in every state.
LEMMA InvHolds == Spec => []TimerInv
<1>1. Init => TimerInv
  BY FreshInv
<1>2. TimerInv /\ [Next]_vars => TimerInv'
  BY StepKeeps
<1>3. QED
  BY <1>1, <1>2, PTL DEF Spec

-----------------------------------------------------------------------------
(* The theorems *)

\* addTimer: no sequence of calls by any connections, managers and block timers, of any
\* processes that die and start again, leaves a handler with two nodes or a variable
\* without its type.
THEOREM OneNodePerHandler == Spec => []OneTimerPerHandler
<1>1. TimerInv => OneTimerPerHandler
  BY DEF TimerInv, Types, OneTimerPerHandler, TypeOK, WellFormed, Distinct, Node, Half
<1>2. QED
  BY <1>1, InvHolds, PTL

\* checkTimer: no handler is called before its timeout has passed, for an int of any width
\* that is more than four times the longest timeout, and however often _elapsed wraps
\* around.
THEOREM TimersNeverEarly == Spec => []NeverEarly
<1>1. TimerInv => NeverEarly
  BY DEF TimerInv, NeverEarly, Nodes
<1>2. QED
  BY <1>1, InvHolds, PTL

\* ConnFactory::createConnection: a connection created where another was deleted is never
\* called for the node that the deletion left behind, unless it is one of the master.
THEOREM SuccessorsNotCalled == Spec => []NoTimeoutOfSuccessor
<1>1. TimerInv => NoTimeoutOfSuccessor
  BY DEF TimerInv, NoTimeoutOfSuccessor, Owners, Nodes
<1>2. QED
  BY <1>1, InvHolds, PTL
=============================================================================
