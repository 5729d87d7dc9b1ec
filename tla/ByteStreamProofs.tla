-------------------------- MODULE ByteStreamProofs --------------------------
(***************************************************************************)
(* Proofs about ByteStream, for any size of a byte, any set of fields and  *)
(* any length of a message: what the reader gets is what the writer wrote. *)
(***************************************************************************)
EXTENDS ByteStream, SequenceTheorems, NaturalsInduction, WellFoundedInduction, TLAPS

-----------------------------------------------------------------------------
(* Arithmetic *)

\* The base of the digits is a number of at least two.
LEMMA BaseTyped ==
  ByteBase \in Nat \ {0} /\ B2 \in Nat \ {0} /\ B4 \in Nat \ {0}
<1>1. ByteBase \in Nat \ {0}
  BY ByteStreamAssumption
<1>2. \A a \in Nat \ {0} : a * a \in Nat \ {0}
  OBVIOUS
<1>3. B2 \in Nat \ {0}
  BY <1>1, <1>2 DEF B2
<1>4. QED
  BY <1>1, <1>2, <1>3 DEF B4

\* Division with remainder, from its result.
LEMMA DivMod ==
  ASSUME NEW a \in Int, NEW n \in Nat \ {0}, NEW r \in 0..n - 1
  PROVE  (a * n + r) \div n = a /\ (a * n + r) % n = r
<1>1. PICK x \in Int : x = a * n + r
  OBVIOUS
<1>2. PICK q \in Int, m \in 0..n - 1 : x \div n = q /\ (x % n) = m /\ x = n * q + m
  OBVIOUS
<1>3. (a - q) * n = m - r
  BY <1>1, <1>2
<1>4. a - q = 0
  <2>1. PICK d \in Int : d = a - q
    OBVIOUS
  <2>2. d * n = m - r /\ m - r < n /\ m - r > -n
    BY <1>3, <2>1
  <2>3. ~(d >= 1)
    <3>1. d >= 1 => d * n >= n
      OBVIOUS
    <3>2. QED
      BY <2>2, <3>1
  <2>4. ~(d <= -1)
    <3>1. d <= -1 => d * n <= -n
      OBVIOUS
    <3>2. QED
      BY <2>2, <3>1
  <2>5. QED
    BY <2>1, <2>3, <2>4
<1>5. a = q /\ m = r
  <2>1. a = q
    BY <1>4
  <2>2. 0 * n = m - r
    BY <1>3, <1>4
  <2>3. QED
    BY <2>1, <2>2
<1>6. QED
  BY <1>1, <1>2, <1>5

\* A number of two digits to the base n, and its digits.
LEMMA Join ==
  ASSUME NEW n \in Nat \ {0}, NEW h \in 0..n - 1, NEW l \in 0..n - 1
  PROVE  h * n + l \in 0..n * n - 1
<1>1. h * n >= 0 /\ h * n \in Int /\ n * n \in Int
  OBVIOUS
<1>2. h * n <= n * n - n
  <2>1. (n - 1) * n = n * n - n
    OBVIOUS
  <2>2. h <= n - 1 => h * n <= (n - 1) * n
    OBVIOUS
  <2>3. QED
    BY <2>1, <2>2
<1>3. QED
  BY <1>1, <1>2

\* Every number of twice the width has a high and a low half.
LEMMA Halves ==
  ASSUME NEW n \in Nat \ {0}, NEW i \in 0..n * n - 1
  PROVE  \E h \in 0..n - 1, l \in 0..n - 1 : i = h * n + l
<1>0. i \in Int
  OBVIOUS
<1>1. PICK q \in Int, m \in 0..n - 1 : q = i \div n /\ m = (i % n) /\ i = n * q + m
  BY <1>0
<1>2. q >= 0
  <2>1. q <= -1 => n * q <= -n
    OBVIOUS
  <2>2. QED
    BY <1>1, <2>1
<1>3. q <= n - 1
  <2>1. q >= n => n * q >= n * n
    OBVIOUS
  <2>2. n * n \in Int /\ n * q \in Int
    OBVIOUS
  <2>3. QED
    BY <1>1, <2>1, <2>2
<1>4. i = q * n + m
  BY <1>1
<1>5. QED
  BY <1>2, <1>3, <1>4

\* The digit of a number at the place p.
Digit(x, p) == (x \div p) % ByteBase

\* A number with a high and a low part, and a place that is a multiple of another.
Parts(x, h, n, l) ==
  /\ x = h * n + l
  /\ x \in Nat /\ h \in Nat /\ l \in Nat /\ n \in Nat \ {0} /\ l < n
Multiple(m, n, p) == m = n * p /\ m \in Nat \ {0} /\ n \in Nat \ {0} /\ p \in Nat \ {0}

\* Digits are bytes.
LEMMA DigitTyped ==
  ASSUME NEW x \in Int, NEW p \in Nat \ {0}
  PROVE  Digit(x, p) \in Byte
<1>1. PICK b \in Nat \ {0} : b = ByteBase
  BY BaseTyped
<1>2. PICK y \in Int : y = x \div p
  OBVIOUS
<1>3. y % b \in 0..b - 1
  OBVIOUS
<1>4. QED
  BY <1>1, <1>2, <1>3 DEF Digit, Byte

\* Division of a number that is given by its parts.
Divided(x, a, n, r) == x % n = r /\ x \div n = a

\* A number of two parts, divided into them again.
LEMMA DividedIs ==
  ASSUME NEW a \in Int, NEW n \in Nat \ {0}, NEW r \in 0..n - 1, NEW x, x = a * n + r
  PROVE  Divided(x, a, n, r)
<1>1. (a * n + r) \div n = a /\ (a * n + r) % n = r
  BY DivMod
<1>2. QED
  BY <1>1 DEF Divided

\* A digit of the low part of a number, where that has more digits than the place.
LEMMA LowDigit ==
  ASSUME NEW p, NEW m, NEW n, NEW q, Multiple(m, p, ByteBase), Multiple(n, m, q),
         NEW x, NEW h, NEW l, Parts(x, h, n, l)
  PROVE  Digit(x, p) = Digit(l, p)
<1>0. PICK b \in Nat \ {0}, P \in Nat \ {0}, Q \in Nat, H \in Nat, L \in Nat :
        b = ByteBase /\ P = p /\ Q = q /\ H = h /\ L = l /\ x = H * (P * b * Q) + L
  BY DEF Multiple, Parts
<1>1. PICK u \in Int, v \in 0..P - 1 : L = P * u + v /\ u = L \div P
  OBVIOUS
<1>2. PICK c \in Int : c = H * Q
  OBVIOUS
<1>3. PICK a \in Int : a = c * b + u
  OBVIOUS
<1>4. x = a * P + v
  <2>1. H * (P * b * Q) = c * b * P
    BY <1>2
  <2>2. a * P = c * b * P + u * P
    BY <1>3
  <2>3. PICK y \in Int, z \in Int, k \in Int :
          y = H * (P * b * Q) /\ z = u * P /\ k = a * P
    OBVIOUS
  <2>4. y = c * b * P /\ k = y + z /\ P * u = z
    BY <2>1, <2>2, <2>3
  <2>5. y + L = k + v
    BY <1>1, <2>4
  <2>6. x = y + L
    BY <1>0, <2>3
  <2>7. QED
    BY <2>3, <2>5, <2>6
<1>5. x \div P = a
  BY <1>4, DivMod
<1>6. a % b = u % b
  <2>1. PICK s \in Int, r \in 0..b - 1 : s = u \div b /\ r = (u % b) /\ u = b * s + r
    OBVIOUS
  <2>2. PICK t \in Int : t = c + s
    OBVIOUS
  <2>3. a = t * b + r
    BY <1>3, <2>1, <2>2
  <2>4. QED
    BY <2>1, <2>3, DivMod
<1>7. (x \div P) % b = (L \div P) % b
  BY <1>1, <1>5, <1>6
<1>8. QED
  BY <1>0, <1>7 DEF Digit

\* A digit of the high part.
LEMMA HighDigit ==
  ASSUME NEW n, NEW p, NEW m, Multiple(m, n, p), NEW x, NEW h, NEW l, Parts(x, h, n, l)
  PROVE  Digit(x, m) = Digit(h, p)
<1>0. PICK N \in Nat \ {0}, P \in Nat \ {0}, M \in Nat \ {0}, H \in Nat, L \in Nat :
        L \in 0..N - 1 /\ N = n /\ P = p /\ M = m /\ H = h /\ L = l /\ M = N * P /\ x = H * N + L
  BY DEF Multiple, Parts
<1>1. PICK u \in Int, v \in 0..P - 1 : H = P * u + v /\ u = H \div P
  OBVIOUS
<1>2. PICK r \in Int : r = v * N + L
  OBVIOUS
<1>4. r \in 0..M - 1
  <2>1. PICK k \in Int : k = v * N /\ k >= 0
    OBVIOUS
  <2>2. k <= M - N
    <3>1. (P - 1) * N = M - N
      BY <1>0
    <3>2. v <= P - 1 => v * N <= (P - 1) * N
      OBVIOUS
    <3>3. v <= P - 1
      OBVIOUS
    <3>4. QED
      BY <2>1, <3>1, <3>2, <3>3
  <2>3. r = k + L
    BY <1>2, <2>1
  <2>4. QED
    BY <1>0, <2>1, <2>2, <2>3
<1>5. x = u * M + r
  <2>1. u * M = P * u * N
    BY <1>0
  <2>2. H * N = P * u * N + v * N
    BY <1>1
  <2>3. PICK y \in Int, z \in Int : y = P * u * N /\ z = v * N
    OBVIOUS
  <2>4. u * M = y /\ H * N = y + z /\ r = z + L
    BY <1>2, <2>1, <2>2, <2>3
  <2>5. x = y + z + L
    BY <1>0, <2>4
  <2>6. QED
    BY <2>4, <2>5
<1>6. x \div M = u
  BY <1>4, <1>5, DivMod
<1>7. QED
  BY <1>0, <1>1, <1>6 DEF Digit

-----------------------------------------------------------------------------
(* Byte order *)

\* The integers of a width.
Numbers(width) ==
  CASE width = 1 -> 0..ByteBase - 1
    [] width = 2 -> 0..B2 - 1
    [] width = 4 -> 0..B4 - 1
    [] width = 8 -> 0..B4 * B4 - 1

\* XHTONS exchanges the two bytes.
LEMMA SwapBytes ==
  ASSUME NEW h \in Byte, NEW l \in Byte
  PROVE  XHTONS(h * ByteBase + l) = l * ByteBase + h
<1>0. PICK n \in Nat \ {0} : n = ByteBase
  BY BaseTyped
<1>1. h \in 0..n - 1 /\ l \in 0..n - 1
  BY <1>0 DEF Byte
<1>2. PICK m \in Nat \ {0} : m = n * n
  OBVIOUS
<1>3. PICK r \in Int : r = l * n
  BY <1>1
<1>4. r \in 0..m - 1
  <2>1. l * n + 0 \in 0..n * n - 1
    BY <1>1, Join
  <2>2. QED
    BY <1>1, <1>2, <1>3, <2>1
<1>5. (h * n + l) * n = h * m + r
  BY <1>1, <1>2, <1>3
<1>6. ((h * n + l) * n) % m = r
  BY <1>1, <1>4, <1>5, DivMod
<1>7. (h * n + l) \div n = h
  BY <1>1, DivMod
<1>8. QED
  BY <1>0, <1>2, <1>3, <1>6, <1>7 DEF XHTONS, B2

\* XHTONL exchanges the halves and the bytes of each.
LEMMA SwapWords ==
  ASSUME NEW h \in 0..B2 - 1, NEW l \in 0..B2 - 1
  PROVE  XHTONL(h * B2 + l) = XHTONS(l) * B2 + XHTONS(h)
BY BaseTyped, DivMod DEF XHTONL

\* XHTONLL likewise.
LEMMA SwapDwords ==
  ASSUME NEW h \in 0..B4 - 1, NEW l \in 0..B4 - 1
  PROVE  XHTONLL(h * B4 + l) = XHTONL(l) * B4 + XHTONL(h)
BY BaseTyped, DivMod DEF XHTONLL

\* xhtons undoes itself: what BinWriteStream swaps BinReadStream swaps back.
LEMMA TwiceS ==
  ASSUME NEW i \in 0..B2 - 1
  PROVE  XHTONS(i) \in 0..B2 - 1 /\ XHTONS(XHTONS(i)) = i
<1>1. PICK h \in Byte, l \in Byte : i = h * ByteBase + l
  BY BaseTyped, Halves DEF B2, Byte
<1>2. XHTONS(i) = l * ByteBase + h
  BY <1>1, SwapBytes
<1>3. XHTONS(XHTONS(i)) = i
  BY <1>1, <1>2, SwapBytes
<1>4. l * ByteBase + h \in 0..B2 - 1
  BY BaseTyped, Join DEF B2, Byte
<1>5. QED
  BY <1>2, <1>3, <1>4

\* xhtonl undoes itself.
LEMMA TwiceL ==
  ASSUME NEW i \in 0..B4 - 1
  PROVE  XHTONL(i) \in 0..B4 - 1 /\ XHTONL(XHTONL(i)) = i
<1>1. PICK h \in 0..B2 - 1, l \in 0..B2 - 1 : i = h * B2 + l
  BY BaseTyped, Halves DEF B4
<1>2. XHTONL(i) = XHTONS(l) * B2 + XHTONS(h)
  BY <1>1, SwapWords
<1>3. PICK x \in 0..B2 - 1, y \in 0..B2 - 1 :
        x = XHTONS(l) /\ y = XHTONS(h) /\ XHTONS(x) = l /\ XHTONS(y) = h
  BY TwiceS
<1>4. XHTONL(x * B2 + y) = h * B2 + l
  BY <1>3, SwapWords
<1>5. x * B2 + y \in 0..B4 - 1
  BY BaseTyped, Join DEF B4
<1>6. QED
  BY <1>1, <1>2, <1>3, <1>4, <1>5

\* xhtonll undoes itself.
LEMMA TwiceLL ==
  ASSUME NEW i \in 0..B4 * B4 - 1
  PROVE  XHTONLL(i) \in 0..B4 * B4 - 1 /\ XHTONLL(XHTONLL(i)) = i
<1>1. PICK h \in 0..B4 - 1, l \in 0..B4 - 1 : i = h * B4 + l
  BY BaseTyped, Halves
<1>2. XHTONLL(i) = XHTONL(l) * B4 + XHTONL(h)
  BY <1>1, SwapDwords
<1>3. PICK x \in 0..B4 - 1, y \in 0..B4 - 1 :
        x = XHTONL(l) /\ y = XHTONL(h) /\ XHTONL(x) = l /\ XHTONL(y) = h
  BY TwiceL
<1>4. XHTONLL(x * B4 + y) = h * B4 + l
  BY <1>3, SwapDwords
<1>5. x * B4 + y \in 0..B4 * B4 - 1
  BY BaseTyped, Join
<1>6. QED
  BY <1>1, <1>2, <1>3, <1>4, <1>5

\* All widths.
LEMMA TwiceSwapped ==
  ASSUME NEW w \in {1, 2, 4, 8}, NEW i \in Numbers(w)
  PROVE  Swapped(i, w) \in Numbers(w) /\ Swapped(Swapped(i, w), w) = i
<1>1. CASE w = 1
  BY <1>1 DEF Numbers, Swapped
<1>2. CASE w = 2
  BY <1>2, TwiceS DEF Numbers, Swapped
<1>3. CASE w = 4
  BY <1>3, TwiceL DEF Numbers, Swapped
<1>4. CASE w = 8
  BY <1>4, TwiceLL DEF Numbers, Swapped
<1>5. QED
  BY <1>1, <1>2, <1>3, <1>4

\* The places of the bytes of an integer.
LEMMA Places ==
  /\ Place[1] = 1 /\ Place[2] = ByteBase /\ Place[3] = B2 /\ Place[5] = B4
  /\ \A k \in 1..8 : Place[k] \in Nat \ {0}
  /\ Multiple(Place[2], Place[1], ByteBase) /\ Multiple(Place[3], Place[2], ByteBase)
  /\ Multiple(Place[4], Place[3], ByteBase) /\ Multiple(Place[5], Place[4], ByteBase)
  /\ Multiple(Place[3], Place[3], 1) /\ Multiple(Place[4], Place[3], Place[2])
  /\ Multiple(Place[5], Place[2], Place[4]) /\ Multiple(Place[5], Place[3], Place[3])
  /\ Multiple(Place[5], Place[5], 1) /\ Multiple(Place[6], Place[5], Place[2])
  /\ Multiple(Place[7], Place[5], Place[3]) /\ Multiple(Place[8], Place[5], Place[4])
<1>0. PICK b \in Nat \ {0}, c \in Nat \ {0}, d \in Nat \ {0} :
        b = ByteBase /\ c = B2 /\ d = B4 /\ c = b * b /\ d = c * c
  BY BaseTyped DEF B2, B4
<1>1. Place = <<1, b, c, c * b, d, d * b, d * c, d * c * b>>
  BY <1>0 DEF Place
<1>2. \A x \in Nat \ {0}, y \in Nat \ {0} : x * y \in Nat \ {0}
  OBVIOUS
<1>3. PICK e \in Nat \ {0}, f \in Nat \ {0}, g \in Nat \ {0}, h \in Nat \ {0} :
        e = c * b /\ f = d * b /\ g = d * c /\ h = g * b
  BY <1>2
<1>4. Place = <<1, b, c, e, d, f, g, h>>
  BY <1>1, <1>3
<1>5. /\ Place[1] = 1 /\ Place[2] = b /\ Place[3] = c /\ Place[4] = e
      /\ Place[5] = d /\ Place[6] = f /\ Place[7] = g /\ Place[8] = h
  BY <1>4
<1>6. \A k \in 1..8 : Place[k] \in Nat \ {0}
  BY <1>5
<1>7. /\ b = 1 * b /\ c = b * b /\ e = c * b /\ d = e * b /\ c = c * 1
      /\ d = b * e /\ d = c * c /\ d = d * 1 /\ f = d * b /\ g = d * c /\ h = d * e
  BY <1>0, <1>3
<1>8. /\ Multiple(b, 1, b) /\ Multiple(c, b, b) /\ Multiple(e, c, b) /\ Multiple(d, e, b)
      /\ Multiple(c, c, 1) /\ Multiple(d, b, e) /\ Multiple(d, c, c) /\ Multiple(d, d, 1)
      /\ Multiple(f, d, b) /\ Multiple(g, d, c) /\ Multiple(h, d, e)
  BY <1>7 DEF Multiple
<1>9. QED
  BY <1>0, <1>5, <1>6, <1>8

\* The bytes of an integer are its digits.
LEMMA MemTyped ==
  ASSUME NEW x \in Int, NEW w \in 1..8
  PROVE  /\ Mem(x, w) \in Seq(Byte) /\ Len(Mem(x, w)) = w
         /\ \A k \in 1..w : Mem(x, w)[k] = Digit(x, Place[k])
<1>1. ASSUME NEW k \in 1..w PROVE Digit(x, Place[k]) \in Byte
  <2>1. k \in 1..8
    OBVIOUS
  <2>2. Place[k] \in Nat \ {0}
    BY <2>1, Places
  <2>3. QED
    BY <2>2, DigitTyped
<1>2. Mem(x, w) = [k \in 1..w |-> Digit(x, Place[k])]
  BY DEF Mem, Digit
<1>3. Mem(x, w) \in [1..w -> Byte]
  BY <1>1, <1>2
<1>4. Mem(x, w) \in Seq(Byte) /\ Len(Mem(x, w)) = w
  BY <1>3, IsASeq
<1>5. QED
  BY <1>2, <1>4

\* A uint8_t in memory.
LEMMA MemByte ==
  ASSUME NEW x \in Byte
  PROVE  Mem(x, 1)[1] = x
<1>0. PICK b \in Nat \ {0} : b = ByteBase
  BY BaseTyped
<1>1. x \in 0..b - 1 /\ x \in Int
  BY <1>0 DEF Byte
<1>2. x \div 1 = x
  BY <1>1
<1>3. x % b = x
  BY <1>1
<1>4. Mem(x, 1)[1] = Digit(x, Place[1])
  BY <1>1, MemTyped
<1>5. Digit(x, 1) = x
  BY <1>0, <1>2, <1>3 DEF Digit
<1>6. QED
  BY <1>4, <1>5, Places

\* A uint16_t in memory: the low byte first.
LEMMA MemWord ==
  ASSUME NEW h, NEW l, NEW x, Parts(x, h, ByteBase, l), h \in Byte
  PROVE  Mem(x, 2)[1] = l /\ Mem(x, 2)[2] = h
<1>0. PICK b \in Nat \ {0} : b = ByteBase
  BY BaseTyped
<1>1. h \in 0..b - 1 /\ l \in 0..b - 1 /\ x \in Int /\ x = h * b + l
  BY <1>0 DEF Byte, Parts
<1>2. x \div 1 = x
  BY <1>1
<1>3. x % b = l /\ x \div b = h
  <2>1. h \in Int
    BY <1>1
  <2>2. Divided(x, h, b, l)
    BY <1>1, <2>1, DividedIs
  <2>3. QED
    BY <2>2 DEF Divided
<1>4. h % b = h
  BY <1>1
<1>5. Digit(x, 1) = l /\ Digit(x, b) = h
  BY <1>0, <1>2, <1>3, <1>4 DEF Digit
<1>6. x \in Int
  BY <1>1
<1>7. \A k \in 1..2 : Mem(x, 2)[k] = Digit(x, Place[k])
  BY <1>6, 2 \in 1..8, MemTyped
<1>8. QED
  BY <1>0, <1>5, <1>7, Places

\* A uint32_t in memory: the low half first.
LEMMA MemDword ==
  ASSUME NEW h, NEW l, NEW x, Parts(x, h, B2, l)
  PROVE  /\ Mem(x, 4)[1] = Mem(l, 2)[1] /\ Mem(x, 4)[2] = Mem(l, 2)[2]
         /\ Mem(x, 4)[3] = Mem(h, 2)[1] /\ Mem(x, 4)[4] = Mem(h, 2)[2]
<1>1. h \in Int /\ l \in Int /\ x \in Int
  BY DEF Parts
<1>2. Parts(x, h, Place[3], l)
  BY Places
<1>3. Digit(x, Place[1]) = Digit(l, Place[1])
  BY <1>2, LowDigit, Places
<1>4. Digit(x, Place[2]) = Digit(l, Place[2])
  BY <1>2, LowDigit, Places
<1>5. Digit(x, Place[3]) = Digit(h, Place[1])
  BY <1>2, HighDigit, Places
<1>6. Digit(x, Place[4]) = Digit(h, Place[2])
  BY <1>2, HighDigit, Places
<1>7. \A k \in 1..4 : Mem(x, 4)[k] = Digit(x, Place[k])
  BY <1>1, 4 \in 1..8, MemTyped
<1>8. \A k \in 1..2 : Mem(l, 2)[k] = Digit(l, Place[k]) /\ Mem(h, 2)[k] = Digit(h, Place[k])
  BY <1>1, 2 \in 1..8, MemTyped
<1>9. QED
  BY <1>3, <1>4, <1>5, <1>6, <1>7, <1>8

\* A uint64_t in memory.
LEMMA MemQword ==
  ASSUME NEW h, NEW l, NEW x, Parts(x, h, B4, l)
  PROVE  /\ Mem(x, 8)[1] = Mem(l, 4)[1] /\ Mem(x, 8)[2] = Mem(l, 4)[2]
         /\ Mem(x, 8)[3] = Mem(l, 4)[3] /\ Mem(x, 8)[4] = Mem(l, 4)[4]
         /\ Mem(x, 8)[5] = Mem(h, 4)[1] /\ Mem(x, 8)[6] = Mem(h, 4)[2]
         /\ Mem(x, 8)[7] = Mem(h, 4)[3] /\ Mem(x, 8)[8] = Mem(h, 4)[4]
<1>1. h \in Int /\ l \in Int /\ x \in Int
  BY DEF Parts
<1>2. Parts(x, h, Place[5], l)
  BY Places
<1>3. Digit(x, Place[1]) = Digit(l, Place[1])
  BY <1>2, LowDigit, Places
<1>4. Digit(x, Place[2]) = Digit(l, Place[2])
  BY <1>2, LowDigit, Places
<1>5. Digit(x, Place[3]) = Digit(l, Place[3])
  BY <1>2, LowDigit, Places
<1>6. Digit(x, Place[4]) = Digit(l, Place[4])
  BY <1>2, LowDigit, Places
<1>7. Digit(x, Place[5]) = Digit(h, Place[1])
  BY <1>2, HighDigit, Places
<1>8. Digit(x, Place[6]) = Digit(h, Place[2])
  BY <1>2, HighDigit, Places
<1>9. Digit(x, Place[7]) = Digit(h, Place[3])
  BY <1>2, HighDigit, Places
<1>10. Digit(x, Place[8]) = Digit(h, Place[4])
  BY <1>2, HighDigit, Places
<1>11. \A k \in 1..8 : Mem(x, 8)[k] = Digit(x, Place[k])
  BY <1>1, 8 \in 1..8, MemTyped
<1>12. \A k \in 1..4 : Mem(l, 4)[k] = Digit(l, Place[k]) /\ Mem(h, 4)[k] = Digit(h, Place[k])
  BY <1>1, 4 \in 1..8, MemTyped
<1>13. QED
  BY <1>3, <1>4, <1>5, <1>6, <1>7, <1>8, <1>9, <1>10, <1>11, <1>12

\* A number below the square of n has two parts below n.
LEMMA PartsOf ==
  ASSUME NEW n \in Nat \ {0}, NEW x \in 0..n * n - 1
  PROVE  \E h \in 0..n - 1, l \in 0..n - 1 : Parts(x, h, n, l)
<1>1. PICK h \in 0..n - 1, l \in 0..n - 1 : x = h * n + l
  BY Halves
<1>2. x \in Nat
  <2>1. n * n \in Int
    OBVIOUS
  <2>2. QED
    BY <2>1
<1>3. Parts(x, h, n, l)
  BY <1>1, <1>2 DEF Parts
<1>4. QED
  BY <1>3

\* A uint16_t, a uint32_t and a uint64_t as they are read from the memory they were
\* written to.
LEMMA WordBack ==
  ASSUME NEW x \in 0..B2 - 1
  PROVE  Mem(x, 2)[2] * ByteBase + Mem(x, 2)[1] = x
<1>1. PICK h \in Byte, l \in Byte : Parts(x, h, ByteBase, l)
  BY BaseTyped, PartsOf DEF B2, Byte
<1>2. Mem(x, 2)[1] = l /\ Mem(x, 2)[2] = h
  BY <1>1, MemWord
<1>3. QED
  BY <1>1, <1>2 DEF Parts

\* A uint32_t of its four bytes in memory.
LEMMA DwordBack ==
  ASSUME NEW x \in 0..B4 - 1
  PROVE  (Mem(x, 4)[4] * ByteBase + Mem(x, 4)[3]) * B2 + (Mem(x, 4)[2] * ByteBase + Mem(x, 4)[1]) = x
<1>1. PICK h \in 0..B2 - 1, l \in 0..B2 - 1 : Parts(x, h, B2, l)
  BY BaseTyped, PartsOf DEF B4
<1>2. /\ Mem(x, 4)[1] = Mem(l, 2)[1] /\ Mem(x, 4)[2] = Mem(l, 2)[2]
      /\ Mem(x, 4)[3] = Mem(h, 2)[1] /\ Mem(x, 4)[4] = Mem(h, 2)[2]
  BY <1>1, MemDword
<1>3. Mem(x, 4)[4] * ByteBase + Mem(x, 4)[3] = h /\ Mem(x, 4)[2] * ByteBase + Mem(x, 4)[1] = l
  BY <1>2, WordBack
<1>4. x = h * B2 + l
  BY <1>1 DEF Parts
<1>5. QED
  BY <1>3, <1>4

\* A uint64_t of its eight bytes in memory.
LEMMA QwordBack ==
  ASSUME NEW x \in 0..B4 * B4 - 1, NEW s, \A k \in 1..8 : s[k] = Mem(x, 8)[k]
  PROVE  ((s[8] * ByteBase + s[7]) * B2 + (s[6] * ByteBase + s[5])) * B4
           + ((s[4] * ByteBase + s[3]) * B2 + (s[2] * ByteBase + s[1])) = x
<1>1. PICK h \in 0..B4 - 1, l \in 0..B4 - 1 : Parts(x, h, B4, l)
  BY BaseTyped, PartsOf
<1>2. /\ s[1] = Mem(l, 4)[1] /\ s[2] = Mem(l, 4)[2] /\ s[3] = Mem(l, 4)[3] /\ s[4] = Mem(l, 4)[4]
      /\ s[5] = Mem(h, 4)[1] /\ s[6] = Mem(h, 4)[2] /\ s[7] = Mem(h, 4)[3] /\ s[8] = Mem(h, 4)[4]
  BY <1>1, MemQword
<1>3. /\ (s[8] * ByteBase + s[7]) * B2 + (s[6] * ByteBase + s[5]) = h
      /\ (s[4] * ByteBase + s[3]) * B2 + (s[2] * ByteBase + s[1]) = l
  BY <1>2, DwordBack
<1>4. x = h * B4 + l
  BY <1>1 DEF Parts
<1>5. QED
  BY <1>3, <1>4

\* FromMem undoes Mem.
LEMMA ReadMem ==
  ASSUME NEW w \in {1, 2, 4, 8}, NEW x \in Numbers(w), NEW s, \A k \in 1..w : s[k] = Mem(x, w)[k]
  PROVE  FromMem(s, w) = x
<1>1. CASE w = 1
  BY <1>1, MemByte DEF Numbers, FromMem, Byte
<1>2. CASE w = 2
  <2>1. x \in 0..B2 - 1
    BY <1>2 DEF Numbers
  <2>2. s[1] = Mem(x, 2)[1] /\ s[2] = Mem(x, 2)[2]
    BY <1>2
  <2>3. s[2] * ByteBase + s[1] = x
    BY <2>1, <2>2, WordBack
  <2>4. FromMem(s, 2) = s[2] * ByteBase + s[1]
    BY DEF FromMem
  <2>5. QED
    BY <1>2, <2>3, <2>4
<1>3. CASE w = 4
  <2>1. x \in 0..B4 - 1
    BY <1>3 DEF Numbers
  <2>2. s[1] = Mem(x, 4)[1] /\ s[2] = Mem(x, 4)[2] /\ s[3] = Mem(x, 4)[3] /\ s[4] = Mem(x, 4)[4]
    BY <1>3
  <2>3. (s[4] * ByteBase + s[3]) * B2 + (s[2] * ByteBase + s[1]) = x
    BY <2>1, <2>2, DwordBack
  <2>4. FromMem(s, 4) = (s[4] * ByteBase + s[3]) * B2 + (s[2] * ByteBase + s[1])
    BY DEF FromMem
  <2>5. QED
    BY <1>3, <2>3, <2>4
<1>4. CASE w = 8
  <2>1. x \in 0..B4 * B4 - 1 /\ \A k \in 1..8 : s[k] = Mem(x, 8)[k]
    BY <1>4 DEF Numbers
  <2>2. FromMem(s, 8) = ((s[8] * ByteBase + s[7]) * B2 + (s[6] * ByteBase + s[5])) * B4
                          + ((s[4] * ByteBase + s[3]) * B2 + (s[2] * ByteBase + s[1]))
    BY DEF FromMem
  <2>3. QED
    BY <1>4, <2>1, <2>2, QwordBack
<1>5. QED
  BY <1>1, <1>2, <1>3, <1>4

\* writeUint8 to writeUint64 append as many bytes as the type has, whatever the value.
LEMMA SwapTyped ==
  ASSUME NEW i \in Nat, NEW w \in {1, 2, 4, 8}
  PROVE  Swapped(i, w) \in Nat
<1>0. \A x \in Nat, n \in Nat \ {0} : x % n \in Nat /\ x \div n \in Nat
  OBVIOUS
<1>1. ASSUME NEW x \in Nat PROVE XHTONS(x) \in Nat
  <2>1. x * ByteBase \in Nat
    BY BaseTyped
  <2>2. QED
    BY <1>0, <2>1, BaseTyped DEF XHTONS
<1>2. ASSUME NEW x \in Nat PROVE XHTONL(x) \in Nat
  <2>1. XHTONS(x % B2) \in Nat /\ XHTONS(x \div B2) \in Nat
    BY <1>0, <1>1, BaseTyped
  <2>2. QED
    BY <2>1, BaseTyped DEF XHTONL
<1>3. ASSUME NEW x \in Nat PROVE XHTONLL(x) \in Nat
  <2>1. XHTONL(x % B4) \in Nat /\ XHTONL(x \div B4) \in Nat
    BY <1>0, <1>2, BaseTyped
  <2>2. QED
    BY <2>1, BaseTyped DEF XHTONLL
<1>4. QED
  BY <1>1, <1>2, <1>3 DEF Swapped

\* writeUint8 to writeUint64 append as many bytes as the type has.
LEMMA UintTyped ==
  ASSUME NEW i \in Nat, NEW w \in {1, 2, 4, 8}
  PROVE  Uint(i, w) \in Seq(Byte) /\ Len(Uint(i, w)) = w
<1>1. PICK x \in Int : x = Swapped(i, w)
  BY SwapTyped
<1>2. w \in 1..8
  OBVIOUS
<1>3. QED
  BY <1>1, <1>2, MemTyped DEF Uint

\* readUint8 to readUint64 give back what writeUint8 to writeUint64 wrote.
LEMMA UintBack ==
  ASSUME NEW w \in {1, 2, 4, 8}, NEW i \in Numbers(w), NEW s,
         \A k \in 1..w : s[k] = Uint(i, w)[k]
  PROVE  ReadUint(s, w) = i
<1>1. PICK x \in Numbers(w) : x = Swapped(i, w) /\ Swapped(x, w) = i
  BY TwiceSwapped
<1>2. \A k \in 1..w : s[k] = Mem(x, w)[k]
  BY <1>1 DEF Uint
<1>3. FromMem(s, w) = x
  BY <1>2, ReadMem
<1>4. QED
  BY <1>1, <1>3 DEF ReadUint

\* peekData of the master reads the same number from these bytes.
LEMMA PeekBack ==
  ASSUME NEW i \in 0..B4 - 1, NEW s, \A k \in 1..4 : s[k] = Uint(i, 4)[k]
  PROVE  PeekData(s) = i
<1>0. PICK b \in Nat \ {0}, c \in Nat \ {0} : b = ByteBase /\ c = B2 /\ c = b * b
  BY BaseTyped DEF B2
<1>1. PICK h \in 0..B2 - 1, l \in 0..B2 - 1 : Parts(i, h, B2, l)
  BY BaseTyped, PartsOf DEF B4
<1>2. PICK h1 \in Byte, l1 \in Byte : Parts(h, h1, ByteBase, l1)
  BY BaseTyped, PartsOf DEF B2, Byte
<1>3. PICK h2 \in Byte, l2 \in Byte : Parts(l, h2, ByteBase, l2)
  BY BaseTyped, PartsOf DEF B2, Byte
<1>4. PICK x \in 0..B2 - 1, y \in 0..B2 - 1 : x = XHTONS(l) /\ y = XHTONS(h)
  BY TwiceS
<1>5. Parts(x, l2, ByteBase, h2) /\ Parts(y, l1, ByteBase, h1)
  <2>1. h = h1 * ByteBase + l1 /\ l = h2 * ByteBase + l2
    BY <1>2, <1>3 DEF Parts
  <2>2. x = l2 * ByteBase + h2 /\ y = l1 * ByteBase + h1
    BY <1>4, <2>1, SwapBytes
  <2>3. x \in Nat /\ y \in Nat
    BY BaseTyped
  <2>4. h1 < ByteBase /\ h2 < ByteBase /\ l1 \in Nat /\ l2 \in Nat /\ h1 \in Nat /\ h2 \in Nat
    BY BaseTyped DEF Byte
  <2>5. QED
    BY <2>2, <2>3, <2>4, BaseTyped DEF Parts
<1>6. PICK z \in Int : z = Swapped(i, 4) /\ Parts(z, x, B2, y)
  <2>1. i = h * B2 + l
    BY <1>1 DEF Parts
  <2>2. XHTONL(i) = x * B2 + y
    BY <1>4, <2>1, SwapWords
  <2>3. x * B2 + y \in Nat /\ x \in Nat /\ y \in Nat /\ y < B2
    BY BaseTyped
  <2>4. Parts(x * B2 + y, x, B2, y)
    BY <2>3, BaseTyped DEF Parts
  <2>5. Swapped(i, 4) = x * B2 + y
    BY <2>2 DEF Swapped
  <2>6. QED
    BY <2>3, <2>4, <2>5
<1>7. /\ Mem(z, 4)[1] = Mem(y, 2)[1] /\ Mem(z, 4)[2] = Mem(y, 2)[2]
      /\ Mem(z, 4)[3] = Mem(x, 2)[1] /\ Mem(z, 4)[4] = Mem(x, 2)[2]
  BY <1>6, MemDword
<1>8. Mem(y, 2)[1] = h1 /\ Mem(y, 2)[2] = l1 /\ Mem(x, 2)[1] = h2 /\ Mem(x, 2)[2] = l2
  BY <1>5, MemWord
<1>9. s[1] = h1 /\ s[2] = l1 /\ s[3] = h2 /\ s[4] = l2
  BY <1>6, <1>7, <1>8 DEF Uint
<1>10. PICK p \in Int : p = Place[4] /\ p = c * b
  BY <1>0, Places DEF Multiple
<1>11. PeekData(s) = h1 * p + l1 * c + h2 * b + l2 * 1
  BY <1>0, <1>9, <1>10, Places DEF PeekData
<1>12. i = (h1 * b + l1) * c + (h2 * b + l2)
  BY <1>0, <1>1, <1>2, <1>3 DEF Parts
<1>13. h1 \in Int /\ l1 \in Int /\ h2 \in Int /\ l2 \in Int
  BY BaseTyped DEF Byte
<1>14. h1 * p = h1 * b * c
  BY <1>10, <1>13
<1>15. QED
  BY <1>11, <1>12, <1>13, <1>14

-----------------------------------------------------------------------------
(* Sequences of bytes *)

\* A set of natural numbers that is not empty has a least element.
LEMMA LeastNat ==
  ASSUME NEW T, T \subseteq Nat, T # {}
  PROVE  \E m \in T : \A k \in T : m <= k
<1> DEFINE R == {ss \in Nat \X Nat : ss[1] < ss[2]}
<1>1. IsWellFoundedOn(R, Nat)
  BY NatLessThanWellFounded DEF OpToRel
<1>2. PICK m \in T : \A k \in T : ~ (<<k, m>> \in R)
  BY <1>1, WFMin
<1>3. \A k \in T : ~(k < m)
  BY <1>2
<1>4. QED
  BY <1>3

\* The greatest element of a set of indices.
LEMMA MaxIs ==
  ASSUME NEW n \in Nat, NEW s \in SUBSET (1..n), n \in s
  PROVE  Max(s) = n
<1>1. \A y \in s : n >= y
  OBVIOUS
<1>2. Max(s) \in s /\ \A y \in s : Max(s) >= y
  BY <1>1 DEF Max
<1>3. Max(s) \in 1..n /\ Max(s) >= n
  BY <1>2
<1>4. QED
  BY <1>3

Regroups(s, t, u) == (s \o t) \o u = s \o (t \o u)

\* Concatenation of bytes.
LEMMA Assoc ==
  ASSUME NEW s \in Seq(Byte), NEW t \in Seq(Byte), NEW u \in Seq(Byte)
  PROVE  Regroups(s, t, u)
BY ConcatAssociative DEF Regroups

\* Appending nothing.
LEMMA NoBytes ==
  <<>> \in Seq(Byte) /\ \A s \in Seq(Byte) : s \o <<>> = s /\ <<>> \o s = s
BY EmptySeq, ConcatEmptySeq

\* u is t behind s.
Behind(s, t, u) ==
  /\ u \in Seq(Byte) /\ Len(u) = Len(s) + Len(t)
  /\ \A k \in 1..Len(s) : u[k] = s[k]
  /\ \A k \in 1..Len(t) : u[Len(s) + k] = t[k]

\* Appending: the bytes that were there and the new ones behind them.
LEMMA ConcatIs ==
  ASSUME NEW s \in Seq(Byte), NEW t \in Seq(Byte)
  PROVE  Behind(s, t, s \o t)
<1>a. PICK m \in Nat : m = Len(s)
  OBVIOUS
<1>b. PICK n \in Nat : n = Len(t)
  OBVIOUS
<1>0. PICK u : u = s \o t
  OBVIOUS
<1>1. /\ u \in Seq(Byte) /\ Len(u) = m + n
      /\ \A k \in 1..m + n : u[k] = IF k <= m THEN s[k] ELSE t[k - m]
  BY <1>a, <1>b, <1>0, ConcatProperties
<1>2. \A k \in 1..m : u[k] = s[k]
  BY <1>1
<1>3. ASSUME NEW k \in 1..n PROVE u[m + k] = t[k]
  <2>1. PICK j \in 1..m + n : j = m + k /\ ~(j <= m) /\ j - m = k
    OBVIOUS
  <2>2. u[j] = t[j - m]
    BY <1>1, <2>1
  <2>3. QED
    BY <2>1, <2>2
<1>4. QED
  BY <1>a, <1>b, <1>0, <1>1, <1>2, <1>3 DEF Behind

\* The part of a sequence between two places, and what it is.
Cut(s, a, c) == SubSeq(s, a + 1, c)
Part(s, a, c, u) ==
  /\ u \in Seq(Byte) /\ Len(u) = c - a
  /\ \A k \in 1..c - a : u[k] = s[a + k]

\* The bytes that readVarstr and the header streams take out of a buffer.
LEMMA PartIs ==
  ASSUME NEW s \in Seq(Byte), NEW a \in Nat, NEW c \in Nat, a <= c, c <= Len(s)
  PROVE  Part(s, a, c, Cut(s, a, c))
<1>0. PICK u : u = Cut(s, a, c)
  OBVIOUS
<1>1. CASE a = c
  <2>1. u = <<>>
    BY <1>0, <1>1, SubSeqEmpty DEF Cut
  <2>2. QED
    BY <1>0, <1>1, <2>1 DEF Part
<1>2. CASE a < c
  <2>1. \A k \in a + 1..c : s[k] \in Byte
    BY ElementOfSeq
  <2>2. PICK e \in Int, n \in Nat : e = a + 1 /\ n = c - a /\ c - e + 1 = n
    BY <1>2
  <2>3. u \in Seq(Byte) /\ Len(u) = n /\ \A k \in 1..n : u[k] = s[e + k - 1]
    <3>1. e <= c /\ \A k \in e..c : s[k] \in Byte
      BY <1>2, <2>1, <2>2
    <3>2. /\ SubSeq(s, e, c) \in Seq(Byte) /\ Len(SubSeq(s, e, c)) = c - e + 1
          /\ \A k \in 1..c - e + 1 : SubSeq(s, e, c)[k] = s[e + k - 1]
      BY <3>1, SubSeqProperties
    <3>3. QED
      BY <1>0, <2>2, <3>2 DEF Cut
  <2>4. \A k \in 1..n : e + k - 1 = a + k
    BY <2>2
  <2>5. QED
    BY <1>0, <2>2, <2>3, <2>4 DEF Part
<1>3. QED
  BY <1>1, <1>2

-----------------------------------------------------------------------------
(* PackBuffer *)

\* Buffers of bytes.
Buffers == [data : Seq(Byte), block : Nat]

\* increase_capacity rounds up.
LEMMA RoundUp ==
  ASSUME NEW B \in Nat \ {0}, NEW k \in Nat, NEW x \in Nat \ {0}
  PROVE  /\ k + x \div B + (IF x % B > 0 THEN 1 ELSE 0) \in Nat
         /\ (k + x \div B + (IF x % B > 0 THEN 1 ELSE 0)) * B >= k * B + x
<1>1. PICK q \in Int, m \in Int : q = x \div B /\ m = (x % B)
  OBVIOUS
<1>2. x = B * q + m /\ 0 <= m /\ m < B
  BY <1>1
<1>3. q >= 0
  BY <1>2
<1>4. CASE m > 0
  <2>1. (k + q + 1) * B = k * B + B * q + B /\ k * B \in Int /\ B * q \in Int
    OBVIOUS
  <2>2. (k + q + 1) * B >= k * B + x
    BY <1>2, <2>1
  <2>3. QED
    BY <1>1, <1>3, <1>4, <2>2
<1>5. CASE ~(m > 0)
  <2>1. (k + q + 0) * B = k * B + B * q /\ k * B \in Int /\ B * q \in Int
    OBVIOUS
  <2>2. (k + q + 0) * B >= k * B + x
    BY <1>2, <1>5, <2>1
  <2>3. QED
    BY <1>1, <1>3, <1>5, <2>2
<1>6. QED
  BY <1>4, <1>5

\* increase_capacity: what is asked for fits, or nothing has changed.
LEMMA IncreaseIs ==
  ASSUME NEW b \in Buffers, BufferOK(b), NEW size \in Nat, NEW mem,
         NEW r, r = IncreaseCapacity(b, size, mem)
  PROVE  /\ r.ok \in BOOLEAN /\ r.buf \in Buffers /\ BufferOK(r.buf) /\ r.buf.data = b.data
         /\ r.ok => freespace(r.buf) >= size
<1>1. BlockSize \in Nat \ {0} /\ MaxBlocks \in Nat \ {0}
  BY BlockBufferAssumption
<1>2. PICK k \in Nat, d \in Seq(Byte) : k = b.block /\ d = b.data
  BY DEF Buffers
<1>3. k * BlockSize \in Nat /\ Len(d) \in Nat /\ Len(d) <= k * BlockSize
  BY <1>1, <1>2 DEF BufferOK, capacity
<1>4. PICK f \in Nat : f = freespace(b) /\ f = k * BlockSize - Len(d)
  BY <1>2, <1>3 DEF freespace, capacity
<1>5. CASE size = 0 \/ f >= size
  <2>1. r = [ok |-> TRUE, buf |-> b]
    BY <1>4, <1>5 DEF IncreaseCapacity, Returns
  <2>2. r.ok = TRUE /\ r.buf = b /\ f >= size
    BY <1>5, <2>1
  <2>3. QED
    BY <1>4, <2>2
<1>6. CASE ~(size = 0 \/ f >= size)
  <2>1. PICK x \in Nat \ {0} : x = size - f
    BY <1>6
  <2> DEFINE nb == k + x \div BlockSize + (IF x % BlockSize > 0 THEN 1 ELSE 0)
  <2>2. nb \in Nat /\ nb * BlockSize >= k * BlockSize + x
    BY <1>1, RoundUp
  <2>3. r = IF nb > MaxBlocks \/ ~mem THEN [ok |-> FALSE, buf |-> b]
            ELSE [ok |-> TRUE, buf |-> [b EXCEPT !.block = nb]]
    BY <1>2, <1>4, <1>6, <2>1 DEF IncreaseCapacity, Returns
  <2> HIDE DEF nb
  <2>4. CASE nb > MaxBlocks \/ ~mem
    BY <2>3, <2>4
  <2>5. CASE ~(nb > MaxBlocks \/ ~mem)
    <3>1. r.ok = TRUE /\ r.buf = [b EXCEPT !.block = nb]
      BY <2>3, <2>5
    <3>2. r.buf \in Buffers /\ r.buf.data = b.data /\ r.buf.block = nb
      BY <2>2, <3>1 DEF Buffers
    <3>3. PICK c \in Int : c = nb * BlockSize
      BY <1>1, <2>2
    <3>4. Len(d) <= c /\ c - Len(d) >= size
      <4>1. PICK c0 \in Nat : c0 = k * BlockSize
        BY <1>3
      <4>2. c >= c0 + x /\ Len(d) <= c0 /\ x = size - (c0 - Len(d)) /\ Len(d) \in Nat
        BY <1>3, <1>4, <2>1, <2>2, <3>3, <4>1
      <4>3. QED
        BY <4>2
    <3>5. nb \in 0..MaxBlocks
      BY <1>1, <2>2, <2>5
    <3>6. BufferOK(r.buf)
      BY <1>2, <3>2, <3>3, <3>4, <3>5 DEF BufferOK, capacity
    <3>7. freespace(r.buf) >= size
      BY <1>2, <3>2, <3>3, <3>4 DEF freespace, capacity
    <3>8. QED
      BY <3>1, <3>2, <3>6, <3>7
  <2>6. QED
    BY <2>4, <2>5
<1>7. QED
  BY <1>5, <1>6

\* append: the contents are there behind the others, and the buffer keeps its limit.
LEMMA AppendBuf ==
  ASSUME NEW b \in Buffers, BufferOK(b), NEW s \in Seq(Byte), NEW mem,
         NEW r, r = BufferAppend(b, s, mem)
  PROVE  /\ r.ok \in BOOLEAN /\ r.buf \in Buffers /\ BufferOK(r.buf)
         /\ r.ok => r.buf.data = b.data \o s
         /\ ~r.ok => s # <<>>
<1>1. CASE s = <<>>
  <2>1. r = [ok |-> TRUE, buf |-> b]
    BY <1>1 DEF BufferAppend, Returns
  <2>2. b.data \o s = b.data
    BY <1>1, ConcatEmptySeq DEF Buffers
  <2>3. QED
    BY <2>1, <2>2
<1>2. CASE s # <<>>
  <2>0. PICK n \in Nat : n = Len(s)
    OBVIOUS
  <2>1. PICK g : g = IncreaseCapacity(b, n, mem)
    OBVIOUS
  <2>2. /\ g.ok \in BOOLEAN /\ g.buf \in Buffers /\ BufferOK(g.buf) /\ g.buf.data = b.data
        /\ g.ok => freespace(g.buf) >= Len(s)
    <3>1. /\ g.ok \in BOOLEAN /\ g.buf \in Buffers /\ BufferOK(g.buf) /\ g.buf.data = b.data
          /\ g.ok => freespace(g.buf) >= n
      BY <2>1, IncreaseIs
    <3>2. QED
      BY <2>0, <3>1
  <2>3. r = IF g.ok THEN [ok |-> TRUE, buf |-> [g.buf EXCEPT !.data = b.data \o s]]
            ELSE [ok |-> FALSE, buf |-> b]
    BY <1>2, <2>0, <2>1, <2>2 DEF BufferAppend, Returns
  <2>4. CASE g.ok
    <3>1. r.ok = TRUE /\ r.buf = [g.buf EXCEPT !.data = b.data \o s]
      BY <2>3, <2>4
    <3>2. PICK t \in Seq(Byte) : t = b.data \o s /\ Len(t) = Len(b.data) + Len(s)
      BY ConcatProperties DEF Buffers
    <3>3. r.buf \in Buffers /\ r.buf.data = t /\ r.buf.block = g.buf.block
      BY <2>2, <3>1, <3>2 DEF Buffers
    <3>4. PICK k \in 0..MaxBlocks : k = g.buf.block
      BY <2>2 DEF BufferOK
    <3>5. k * BlockSize \in Nat /\ Len(b.data) \in Nat /\ Len(s) \in Nat
      BY BlockBufferAssumption DEF Buffers
    <3>6. Len(t) <= k * BlockSize
      BY <2>2, <2>4, <3>2, <3>4, <3>5 DEF freespace, capacity
    <3>7. BufferOK(r.buf)
      BY <3>3, <3>4, <3>6 DEF BufferOK, capacity
    <3>8. QED
      BY <3>1, <3>2, <3>3, <3>7
  <2>5. CASE ~g.ok
    BY <1>2, <2>3, <2>5
  <2>6. QED
    BY <2>2, <2>4, <2>5
<1>3. QED
  BY <1>1, <1>2

\* An empty buffer.
LEMMA EmptyIs ==
  EmptyBuffer \in Buffers /\ EmptyBuffer.data = <<>> /\ BufferOK(EmptyBuffer)
<1>1. EmptyBuffer \in Buffers /\ EmptyBuffer.data = <<>> /\ EmptyBuffer.block = 0
  BY DEF EmptyBuffer, Buffers
<1>2. 0 * BlockSize = 0 /\ 0 \in 0..MaxBlocks
  BY BlockBufferAssumption
<1>3. QED
  BY <1>1, <1>2 DEF BufferOK, capacity

\* Writing over bytes that are there: the others stay as they are.
Overwritten(old, new, pos, s) ==
  /\ Len(new) = Len(old)
  /\ \A k \in 1..Len(old) : new[k] = IF k \in pos + 1..pos + Len(s) THEN s[k - pos] ELSE old[k]

\* replaceUint of the header: no memory is needed for it.
LEMMA ReplaceIs ==
  ASSUME NEW b \in Buffers, BufferOK(b), NEW pos \in Nat, NEW s \in Seq(Byte), s # <<>>,
         pos + Len(s) <= Len(b.data), NEW r, r = Replaced(b, pos, s)
  PROVE  r \in Buffers /\ BufferOK(r) /\ Overwritten(b.data, r.data, pos, s)
<1>1. PICK d \in Seq(Byte), n \in Nat, m \in Nat : d = b.data /\ n = Len(d) /\ m = Len(s)
  BY DEF Buffers
<1>2. m > 0 /\ pos + m <= n /\ ~(pos >= n)
  <2>1. m # 0
    BY <1>1, EmptySeq
  <2>2. QED
    BY <1>1, <2>1
<1>3. PICK p \in Seq(Byte) : p = SubSeq(d, 1, pos) /\ Len(p) = pos /\ \A k \in 1..pos : p[k] = d[k]
  <2>1. Part(d, 0, pos, Cut(d, 0, pos))
    BY <1>1, <1>2, PartIs
  <2>2. PICK p : p = Cut(d, 0, pos)
    OBVIOUS
  <2>3. p = SubSeq(d, 1, pos)
    BY <2>2 DEF Cut
  <2>4. p \in Seq(Byte) /\ Len(p) = pos /\ \A k \in 1..pos : p[k] = d[k]
    BY <2>1, <2>2 DEF Part
  <2>5. QED
    BY <2>3, <2>4
<1>4. CASE pos + m >= n
  <2>1. pos + m = n
    BY <1>2, <1>4
  <2>2. PICK c : c = [b EXCEPT !.data = p]
    OBVIOUS
  <2>3. c \in Buffers /\ c.data = p /\ c.block = b.block
    BY <2>2 DEF Buffers
  <2>4. PICK a : a = BufferAppend(c, s, FALSE)
    OBVIOUS
  <2>5. r = a.buf
    BY <1>1, <1>2, <1>3, <1>4, <2>2, <2>4 DEF Replaced, BufferReplace
  <2>6. PICK cap \in Nat : cap = b.block * BlockSize /\ n <= cap
    BY <1>1, BlockBufferAssumption DEF BufferOK, capacity, Buffers
  <2>7. freespace(c) = cap - pos
    BY <1>3, <2>3, <2>6 DEF freespace, capacity
  <2>8. BufferOK(c)
    BY <1>2, <1>3, <2>3, <2>6 DEF BufferOK, capacity
  <2>9. cap - pos >= m
    BY <2>1, <2>6
  <2>10. a.ok
    BY <1>1, <2>4, <2>7, <2>9 DEF BufferAppend, IncreaseCapacity, Returns
  <2>11. a.buf \in Buffers /\ BufferOK(a.buf) /\ a.buf.data = p \o s
    BY <2>3, <2>4, <2>8, <2>10, AppendBuf
  <2>12. PICK u : u = p \o s
    OBVIOUS
  <2>13. Len(u) = pos + m /\ (\A k \in 1..pos : u[k] = p[k]) /\ \A k \in 1..m : u[pos + k] = s[k]
    <3>1. Behind(p, s, p \o s)
      BY ConcatIs
    <3>2. QED
      BY <1>1, <1>3, <2>12, <3>1 DEF Behind
  <2>14. ASSUME NEW k \in 1..n
         PROVE  u[k] = IF k \in pos + 1..pos + m THEN s[k - pos] ELSE d[k]
    <3>1. CASE k <= pos
      BY <1>3, <2>13, <3>1
    <3>2. CASE k > pos
      <4>1. PICK j \in 1..m : j = k - pos /\ pos + j = k
        BY <2>1, <3>2
      <4>2. QED
        BY <2>13, <4>1
    <3>3. QED
      BY <3>1, <3>2
  <2>15. Overwritten(d, u, pos, s)
    BY <1>1, <2>1, <2>13, <2>14 DEF Overwritten
  <2>16. QED
    BY <1>1, <2>5, <2>11, <2>12, <2>15
<1>5. CASE ~(pos + m >= n)
  <2>0. PICK z \in Nat, y \in Nat : z = pos + m /\ y = n - z /\ z <= n
    BY <1>5
  <2>1. PICK q \in Seq(Byte) : q = SubSeq(d, z + 1, n) /\ Len(q) = y /\ \A k \in 1..y : q[k] = d[z + k]
    <3>1. Part(d, z, n, Cut(d, z, n))
      BY <1>1, <2>0, PartIs
    <3>2. QED
      BY <2>0, <3>1 DEF Part, Cut
  <2>2. PICK t \in Seq(Byte) : /\ t = p \o s /\ Len(t) = z
          /\ (\A k \in 1..pos : t[k] = p[k]) /\ \A k \in 1..m : t[pos + k] = s[k]
    <3>1. PICK t : t = p \o s
      OBVIOUS
    <3>2. Behind(p, s, t)
      BY <3>1, ConcatIs
    <3>3. /\ t \in Seq(Byte) /\ Len(t) = z
          /\ (\A k \in 1..pos : t[k] = p[k]) /\ \A k \in 1..m : t[pos + k] = s[k]
      BY <1>1, <1>3, <2>0, <3>2 DEF Behind
    <3>4. QED
      BY <3>1, <3>3
  <2>3. PICK u \in Seq(Byte) : /\ u = t \o q /\ Len(u) = n
          /\ (\A k \in 1..z : u[k] = t[k]) /\ \A k \in 1..y : u[z + k] = q[k]
    <3>1. PICK u : u = t \o q
      OBVIOUS
    <3>2. /\ u \in Seq(Byte) /\ Len(u) = z + y
          /\ (\A k \in 1..z : u[k] = t[k]) /\ \A k \in 1..y : u[z + k] = q[k]
      <4>1. Behind(t, q, t \o q)
        BY ConcatIs
      <4>2. QED
        BY <2>1, <2>2, <3>1, <4>1 DEF Behind
    <3>3. z + y = n
      BY <2>0
    <3>4. QED
      BY <3>1, <3>2, <3>3
  <2>4. r = [b EXCEPT !.data = u]
    <3>1. pos + Len(s) + 1 = z + 1
      BY <1>1, <2>0
    <3>2. QED
      BY <1>1, <1>2, <1>3, <1>5, <2>1, <2>2, <2>3, <3>1 DEF Replaced, BufferReplace, Returns
  <2>5. r \in Buffers /\ r.data = u /\ r.block = b.block
    BY <2>4 DEF Buffers
  <2>6. BufferOK(r)
    BY <1>1, <2>3, <2>5 DEF BufferOK, capacity
  <2>7. ASSUME NEW k \in 1..n
        PROVE  u[k] = IF k \in pos + 1..pos + m THEN s[k - pos] ELSE d[k]
    <3>1. CASE k <= pos
      <4>1. k \in 1..z /\ k \in 1..pos /\ k \notin pos + 1..pos + m
        BY <2>0, <3>1
      <4>2. QED
        BY <1>3, <2>2, <2>3, <4>1
    <3>2. CASE k > pos /\ k <= z
      <4>1. PICK j \in 1..m : j = k - pos /\ pos + j = k /\ k \in 1..z /\ k \in pos + 1..pos + m
        BY <2>0, <3>2
      <4>2. QED
        BY <2>2, <2>3, <4>1
    <3>3. CASE k > z
      <4>1. PICK j \in 1..y : z + j = k /\ k \notin pos + 1..pos + m
        <5>1. PICK j \in Int : j = k - z
          BY <2>0
        <5>2. j \in 1..y /\ z + j = k /\ k \notin pos + 1..pos + m
          BY <2>0, <3>3, <5>1
        <5>3. QED
          BY <5>2
      <4>2. QED
        BY <2>1, <2>3, <4>1
    <3>4. QED
      BY <2>0, <3>1, <3>2, <3>3
  <2>8. Overwritten(d, u, pos, s)
    BY <1>1, <2>3, <2>7 DEF Overwritten
  <2>9. QED
    BY <1>1, <2>5, <2>6, <2>8
<1>6. QED
  BY <1>4, <1>5

-----------------------------------------------------------------------------
(* The bytes of a field *)

\* The elements of a container of uint16_t, one behind the other.
Words(v) == [k \in 1..2 * Len(v) |-> Uint(v[(k + 1) \div 2], 2)[2 - (k % 2)]]

\* What marshal appends for a field.
Enc(f) ==
  CASE f.type \in {"str", "str32"} -> Uint(Len(f.val), LenWidth(f.type)) \o f.val
    [] f.type = "vec" -> Uint(Len(f.val), 4) \o Words(f.val)
    [] f.type = "pair" -> Uint(f.val[1], 1) \o Uint(f.val[2], 2)
    [] f.type = "json" -> f.val
    [] OTHER -> Uint(f.val, Width(f.type))

\* The result r of appending s to b.
After(b, s, r) ==
  /\ r.ok \in BOOLEAN /\ r.buf \in Buffers /\ BufferOK(r.buf)
  /\ r.ok => r.buf.data = b.data \o s

\* append of the block buffer.
LEMMA AppendAfter ==
  ASSUME NEW b \in Buffers, BufferOK(b), NEW s \in Seq(Byte), NEW mem
  PROVE  After(b, s, BufferAppend(b, s, mem))
<1>1. PICK r : r = BufferAppend(b, s, mem)
  OBVIOUS
<1>2. r.ok \in BOOLEAN /\ r.buf \in Buffers /\ BufferOK(r.buf) /\ (r.ok => r.buf.data = b.data \o s)
  BY <1>1, AppendBuf
<1>3. QED
  BY <1>1, <1>2 DEF After

AppendPiece(r, s, mem) == IF r.ok THEN BufferAppend(r.buf, s, mem) ELSE r

\* The function by which FoldLeft appends the pieces of a field.
Iter(g, k, b, p, mem) ==
  g = [s \in SUBSET (1..k) |->
        IF s = {} THEN Returns(TRUE, b) ELSE AppendPiece(g[s \ {Max(s)}], p[Max(s)], mem)]

\* The appends of a field, one after the other.
LEMMA FoldIs ==
  ASSUME NEW b, NEW f, NEW mem, NEW k \in Nat, NEW p, p = Pieces(f), DOMAIN p = 1..k
  PROVE  Appended(b, f, mem) = (CHOOSE g : Iter(g, k, b, p, mem))[1..k]
BY DEF Appended, FoldLeft, MapThenFoldSet, Iter, AppendPiece

\* Such a function exists.
LEMMA IterExists ==
  ASSUME NEW b, NEW p, NEW mem, NEW k \in Nat
  PROVE  \E g : Iter(g, k, b, p, mem)
<1> DEFINE Bad == {l \in Nat : ~ \E g : Iter(g, l, b, p, mem)}
<1>1. SUFFICES ASSUME Bad # {} PROVE FALSE
  OBVIOUS
<1>2. PICK m \in Bad : \A l \in Bad : m <= l
  BY <1>1, LeastNat
<1>3. m # 0
  <2>1. Iter([s \in SUBSET (1..0) |-> Returns(TRUE, b)], 0, b, p, mem)
    BY SUBSET (1..0) = {{}} DEF Iter
  <2>2. QED
    BY <2>1, <1>2
<1>4. PICK g : Iter(g, m - 1, b, p, mem)
  BY <1>2, <1>3
<1> DEFINE h == [s \in SUBSET (1..m) |->
                  IF s \subseteq 1..m-1 THEN g[s] ELSE AppendPiece(g[s \ {m}], p[m], mem)]
<1>5. ASSUME NEW s \in SUBSET (1..m)
      PROVE  h[s] = IF s = {} THEN Returns(TRUE, b) ELSE AppendPiece(h[s \ {Max(s)}], p[Max(s)], mem)
  <2>1. CASE s \subseteq 1..m-1
    <3>1. CASE s = {}
      BY <1>4, <3>1, {} \in SUBSET (1..m-1) DEF Iter
    <3>2. CASE s # {}
      <4>1. h[s] = g[s] /\ g[s] = AppendPiece(g[s \ {Max(s)}], p[Max(s)], mem)
        BY <1>4, <2>1, <3>2 DEF Iter
      <4>2. h[s \ {Max(s)}] = g[s \ {Max(s)}]
        BY <2>1
      <4>3. QED
        BY <4>1, <4>2, <3>2
    <3>3. QED
      BY <3>1, <3>2
  <2>2. CASE ~(s \subseteq 1..m-1)
    <3>1. m \in s /\ m \in Nat
      BY <2>2, <1>2
    <3>2. Max(s) = m
      BY <3>1, MaxIs
    <3>3. s \ {m} \subseteq 1..m-1
      BY <3>1
    <3>4. h[s \ {m}] = g[s \ {m}]
      BY <3>3
    <3>5. QED
      BY <2>2, <3>1, <3>2, <3>4
  <2>3. QED
    BY <2>1, <2>2
<1>6. Iter(h, m, b, p, mem)
  BY <1>5 DEF Iter
<1>7. QED
  BY <1>2, <1>6


\* c holds what is there after each of the pieces.
Chain(c, p, k) ==
  /\ \A l \in 0..k : c[l] \in Seq(Byte)
  /\ \A l \in 1..k : p[l] \in Seq(Byte)
  /\ c[0] = <<>>
  /\ \A l \in 1..k : c[l] = c[l - 1] \o p[l]

\* One piece more.
LEMMA AppendOneMore ==
  ASSUME NEW b \in Buffers, NEW s \in Seq(Byte), NEW t \in Seq(Byte), NEW mem, NEW r,
         After(b, s, r)
  PROVE  After(b, s \o t, AppendPiece(r, t, mem))
<1>0. PICK a : a = AppendPiece(r, t, mem)
  OBVIOUS
<1>1. CASE r.ok
  <2>1. a = BufferAppend(r.buf, t, mem)
    BY <1>0, <1>1 DEF AppendPiece
  <2>2. PICK c \in Buffers : c = r.buf /\ BufferOK(c) /\ c.data = b.data \o s
    BY <1>1 DEF After
  <2>3. After(c, t, a)
    BY <2>1, <2>2, AppendAfter
  <2>4. (b.data \o s) \o t = b.data \o (s \o t)
    <3>1. PICK d \in Seq(Byte) : d = b.data
      BY DEF Buffers
    <3>2. (d \o s) \o t = d \o (s \o t)
      <4>1. Regroups(d, s, t)
        BY Assoc
      <4>2. QED
        BY <4>1 DEF Regroups
    <3>3. QED
      BY <3>1, <3>2
  <2>5. QED
    BY <1>0, <2>2, <2>3, <2>4 DEF After
<1>2. CASE ~r.ok
  BY <1>0, <1>2 DEF AppendPiece, After
<1>3. QED
  BY <1>1, <1>2 DEF After

\* PackBuffer::append, piece by piece: all that was appended is there in its order.
LEMMA AppendAll ==
  ASSUME NEW b \in Buffers, BufferOK(b), NEW f, NEW mem, NEW k \in Nat,
         NEW p, p = Pieces(f), DOMAIN p = 1..k, NEW c, Chain(c, p, k)
  PROVE  After(b, c[k], Appended(b, f, mem))
<1> DEFINE g == CHOOSE h : Iter(h, k, b, p, mem)
           Good(l) == After(b, c[l], g[1..l])
           Bad == {l \in 0..k : ~Good(l)}
<1>1. Iter(g, k, b, p, mem)
  BY IterExists
<1> HIDE DEF g
<1>2. g[1..0] = Returns(TRUE, b)
  BY <1>1, 1..0 = {}, {} \in SUBSET (1..k) DEF Iter
<1>3. Good(0)
  <2>1. c[0] = <<>> /\ b.data \o <<>> = b.data
    BY ConcatEmptySeq DEF Chain, Buffers
  <2>2. QED
    BY <1>2, <2>1 DEF After, Returns
<1>4. ASSUME NEW l \in 0..k, l # 0, Good(l - 1)
      PROVE  Good(l)
  <2>0. l \in Nat /\ l \in 1..l /\ 1..l \in SUBSET (1..k) /\ 1..l # {} /\ 1..l \in SUBSET (1..l)
    <3>1. l \in Nat /\ l >= 1 /\ l <= k
      BY <1>4
    <3>2. l \in 1..l
      BY <3>1
    <3>3. 1..l \subseteq 1..k
      BY <3>1
    <3>4. QED
      BY <3>1, <3>2, <3>3
  <2>1. Max(1..l) = l
    BY <2>0, MaxIs
  <2>2. (1..l) \ {l} = 1..l - 1
    BY <2>0
  <2>3. g[1..l] = AppendPiece(g[1..l - 1], p[l], mem)
    BY <1>1, <2>0, <2>1, <2>2 DEF Iter
  <2>4. PICK s \in Seq(Byte), t \in Seq(Byte) : s = c[l - 1] /\ t = p[l] /\ c[l] = s \o t
    <3>1. l \in 1..k /\ l - 1 \in 0..k
      BY <1>4
    <3>2. QED
      BY <3>1 DEF Chain
  <2>5. PICK r : r = g[1..l - 1] /\ After(b, s, r)
    BY <1>4, <2>4
  <2>6. After(b, s \o t, AppendPiece(r, t, mem))
    BY <2>5, AppendOneMore
  <2>7. QED
    BY <2>3, <2>4, <2>5, <2>6
<1> HIDE DEF Good
<1>5. Bad = {}
  <2>1. SUFFICES ASSUME Bad # {} PROVE FALSE
    OBVIOUS
  <2>2. PICK m \in Bad : \A l \in Bad : m <= l
    <3>1. Bad \subseteq Nat
      OBVIOUS
    <3> HIDE DEF Bad
    <3>2. QED
      BY <2>1, <3>1, LeastNat
  <2>3. m # 0
    BY <1>3, <2>2
  <2>4. m - 1 \in 0..k /\ m - 1 \notin Bad
    BY <2>2, <2>3
  <2>5. QED
    BY <1>4, <2>2, <2>3, <2>4
<1>6. Good(k)
  BY <1>5
<1>7. Appended(b, f, mem) = g[1..k]
  BY FoldIs DEF g
<1>8. QED
  BY <1>6, <1>7 DEF Good

\* A container of uint16_t: two bytes for each element.
LEMMA WordsIs ==
  ASSUME NEW v \in Seq(0..B2 - 1), NEW n \in Nat, n = Len(v)
  PROVE  /\ Words(v) \in Seq(Byte) /\ Len(Words(v)) = 2 * n
         /\ \A i \in 1..n : /\ Words(v)[2 * i - 1] = Uint(v[i], 2)[1]
                            /\ Words(v)[2 * i] = Uint(v[i], 2)[2]
<1>1. ASSUME NEW i \in 1..n
      PROVE  Uint(v[i], 2) \in Seq(Byte) /\ Len(Uint(v[i], 2)) = 2
  <2>1. v[i] \in 0..B2 - 1
    BY ElementOfSeq
  <2>2. PICK x \in Nat : x = v[i]
    BY <2>1, BaseTyped
  <2>3. QED
    BY <2>2, UintTyped
<1>2. \A k \in 1..2 * n : (k + 1) \div 2 \in 1..n /\ 2 - (k % 2) \in 1..2
  OBVIOUS
<1>3. ASSUME NEW k \in 1..2 * n
      PROVE  Uint(v[(k + 1) \div 2], 2)[2 - (k % 2)] \in Byte
  <2>1. PICK i \in 1..n, j \in 1..2 : i = (k + 1) \div 2 /\ j = 2 - (k % 2)
    BY <1>2
  <2>2. Uint(v[i], 2)[j] \in Byte
    BY <1>1, ElementOfSeq
  <2>3. QED
    BY <2>1, <2>2
<1>4. PICK m \in Nat : m = 2 * n
  OBVIOUS
<1>5. Words(v) \in [1..m -> Byte]
  BY <1>3, <1>4 DEF Words
<1>6. Words(v) \in Seq(Byte) /\ Len(Words(v)) = m
  BY <1>5, IsASeq
<1>7. ASSUME NEW i \in 1..n
      PROVE  Words(v)[2 * i - 1] = Uint(v[i], 2)[1] /\ Words(v)[2 * i] = Uint(v[i], 2)[2]
  <2>1. PICK k \in 1..m : k = 2 * i - 1 /\ (k + 1) \div 2 = i /\ 2 - (k % 2) = 1
    BY <1>4
  <2>2. PICK l \in 1..m : l = 2 * i /\ (l + 1) \div 2 = i /\ 2 - (l % 2) = 2
    BY <1>4
  <2>3. Words(v)[k] = Uint(v[i], 2)[1] /\ Words(v)[l] = Uint(v[i], 2)[2]
    BY <1>4, <2>1, <2>2 DEF Words
  <2>4. QED
    BY <2>1, <2>2, <2>3
<1>8. QED
  BY <1>4, <1>6, <1>7

\* One element more.
LEMMA WordsStep ==
  ASSUME NEW v \in Seq(0..B2 - 1), NEW i \in 1..Len(v)
  PROVE  Cut(Words(v), 0, 2 * i) = Cut(Words(v), 0, 2 * (i - 1)) \o Uint(v[i], 2)
<1>0. PICK n \in Nat : n = Len(v)
  OBVIOUS
<1>1. PICK w \in Seq(Byte) : /\ w = Words(v) /\ Len(w) = 2 * n
                             /\ w[2 * i - 1] = Uint(v[i], 2)[1] /\ w[2 * i] = Uint(v[i], 2)[2]
  BY <1>0, WordsIs
<1>2. PICK u \in Seq(Byte) : u = Uint(v[i], 2) /\ Len(u) = 2
  <2>1. v[i] \in 0..B2 - 1
    BY ElementOfSeq
  <2>2. PICK x \in Nat : x = v[i]
    BY <2>1, BaseTyped
  <2>3. QED
    BY <2>2, UintTyped
<1>3. PICK a \in Nat, c \in Nat : a = 2 * (i - 1) /\ c = 2 * i /\ c = a + 2 /\ c <= 2 * n
  BY <1>0
<1>4. PICK s, t : s = Cut(w, 0, a) /\ t = Cut(w, 0, c)
  OBVIOUS
<1>5. Part(w, 0, a, s) /\ Part(w, 0, c, t)
  <2>1. 0 <= a /\ a <= Len(w) /\ 0 <= c /\ c <= Len(w) /\ 0 \in Nat
    BY <1>1, <1>3
  <2>2. QED
    BY <1>4, <2>1, PartIs
<1>6. s \in Seq(Byte) /\ Len(s) = a /\ \A k \in 1..a : s[k] = w[k]
  BY <1>5 DEF Part
<1>7. t \in Seq(Byte) /\ Len(t) = c /\ \A k \in 1..c : t[k] = w[k]
  BY <1>5 DEF Part
<1>8. PICK r : r = s \o u
  OBVIOUS
<1>9. Behind(s, u, r)
  BY <1>6, <1>8, ConcatIs
<1>10. /\ r \in Seq(Byte) /\ Len(r) = c /\ (\A k \in 1..a : r[k] = s[k])
       /\ r[a + 1] = u[1] /\ r[a + 2] = u[2]
  BY <1>2, <1>3, <1>6, <1>9 DEF Behind
<1>11. w[a + 1] = u[1] /\ w[a + 2] = u[2]
  <2>1. a + 1 = 2 * i - 1 /\ a + 2 = 2 * i
    BY <1>3
  <2>2. QED
    BY <1>1, <1>2, <2>1
<1>12. ASSUME NEW k \in 1..c PROVE t[k] = r[k]
  <2>1. k \in 1..a \/ k = a + 1 \/ k = a + 2
    BY <1>3
  <2>2. QED
    BY <1>6, <1>7, <1>10, <1>11, <2>1
<1>13. t = r
  BY <1>7, <1>10, <1>12, SeqEqual
<1>14. QED
  BY <1>1, <1>2, <1>3, <1>4, <1>8, <1>13

\* What a field is.
LEMMA FieldTyped ==
  ASSUME NEW f \in Field
  PROVE  /\ f = [type |-> f.type, val |-> f.val]
         /\ f.type \in {"u8", "u16", "u32", "u64", "str", "str32", "json", "vec", "pair"}
         /\ f.type = "u8" => f.val \in Numbers(1)
         /\ f.type = "u16" => f.val \in Numbers(2)
         /\ f.type = "u32" => f.val \in Numbers(4)
         /\ f.type = "u64" => f.val \in Numbers(8)
         /\ f.type \in {"str", "str32", "json"} => f.val \in Seq(Byte)
         /\ f.type = "vec" => f.val \in Seq(0..B2 - 1)
         /\ f.type = "pair" => /\ f.val = <<f.val[1], f.val[2]>>
                               /\ f.val[1] \in Numbers(1) /\ f.val[2] \in Numbers(2)
<1>1. f.type = "pair" => f.val \in Byte \X (0..B2 - 1)
  BY FieldAssumption
<1>2. \A p \in Byte \X (0..B2 - 1) : p = <<p[1], p[2]>> /\ p[1] \in Byte /\ p[2] \in 0..B2 - 1
  OBVIOUS
<1>3. /\ Numbers(1) = Byte /\ Numbers(2) = 0..B2 - 1 /\ Numbers(4) = 0..B4 - 1
      /\ Numbers(8) = 0..B4 * B4 - 1
  BY DEF Numbers, Byte
<1>4. QED
  BY <1>1, <1>2, <1>3, FieldAssumption

\* The values of an unsigned type are natural numbers.
LEMMA NumbersNat ==
  ASSUME NEW w \in {1, 2, 4, 8}, NEW i \in Numbers(w)
  PROVE  i \in Nat
<1>1. B4 * B4 \in Int
  BY BaseTyped
<1>2. QED
  BY <1>1, BaseTyped DEF Numbers

\* The width of an integer type and of a length.
LEMMA Widths ==
  /\ Width("u8") = 1 /\ Width("u16") = 2 /\ Width("u32") = 4 /\ Width("u64") = 8
  /\ LenWidth("str") = 2 /\ LenWidth("str32") = 4
BY DEF Width, LenWidth

\* An integer field.
LEMMA IntField ==
  ASSUME NEW f \in Field, f.type \in {"u8", "u16", "u32", "u64"}
  PROVE  /\ Width(f.type) \in {1, 2, 4, 8} /\ f.val \in Numbers(Width(f.type))
         /\ Enc(f) = Uint(f.val, Width(f.type)) /\ Pieces(f) = <<Enc(f)>>
         /\ Enc(f) \in Seq(Byte) /\ Len(Enc(f)) = Width(f.type)
<1>1. Width(f.type) \in {1, 2, 4, 8} /\ f.val \in Numbers(Width(f.type))
  BY FieldTyped, Widths
<1>2. Enc(f) = Uint(f.val, Width(f.type)) /\ Pieces(f) = <<Enc(f)>>
  BY DEF Enc, Pieces
<1>3. PICK w \in {1, 2, 4, 8}, i \in Nat : w = Width(f.type) /\ i = f.val
  BY <1>1, NumbersNat
<1>4. QED
  BY <1>1, <1>2, <1>3, UintTyped

\* A string after its length.
LEMMA StrField ==
  ASSUME NEW f \in Field, f.type \in {"str", "str32"}
  PROVE  LET u == Uint(Len(f.val), LenWidth(f.type))
         IN /\ LenWidth(f.type) \in {2, 4} /\ f.val \in Seq(Byte)
            /\ u \in Seq(Byte) /\ Len(u) = LenWidth(f.type)
            /\ Enc(f) = u \o f.val /\ Pieces(f) = <<u, f.val>>
<1>1. LenWidth(f.type) \in {2, 4} /\ f.val \in Seq(Byte)
  BY FieldTyped, Widths
<1>2. PICK w \in {1, 2, 4, 8}, i \in Nat : w = LenWidth(f.type) /\ i = Len(f.val)
  BY <1>1
<1>3. Uint(i, w) \in Seq(Byte) /\ Len(Uint(i, w)) = w
  BY UintTyped
<1>4. QED
  BY <1>1, <1>2, <1>3 DEF Enc, Pieces

\* A pair of a uint8_t and a uint16_t.
LEMMA PairField ==
  ASSUME NEW f \in Field, f.type = "pair"
  PROVE  LET u == Uint(f.val[1], 1)
             v == Uint(f.val[2], 2)
         IN /\ f.val = <<f.val[1], f.val[2]>>
            /\ f.val[1] \in Numbers(1) /\ f.val[2] \in Numbers(2)
            /\ u \in Seq(Byte) /\ Len(u) = 1 /\ v \in Seq(Byte) /\ Len(v) = 2
            /\ Enc(f) = u \o v /\ Pieces(f) = <<u, v>>
<1>1. f.val = <<f.val[1], f.val[2]>> /\ f.val[1] \in Numbers(1) /\ f.val[2] \in Numbers(2)
  BY FieldTyped
<1>2. PICK i \in Nat, j \in Nat : i = f.val[1] /\ j = f.val[2]
  BY <1>1, NumbersNat
<1>3. /\ Uint(i, 1) \in Seq(Byte) /\ Len(Uint(i, 1)) = 1
      /\ Uint(j, 2) \in Seq(Byte) /\ Len(Uint(j, 2)) = 2
  BY UintTyped
<1>4. QED
  BY <1>1, <1>2, <1>3 DEF Enc, Pieces

\* A container after its size.
LEMMA VecField ==
  ASSUME NEW f \in Field, f.type = "vec"
  PROVE  LET u == Uint(Len(f.val), 4)
         IN /\ f.val \in Seq(0..B2 - 1) /\ u \in Seq(Byte) /\ Len(u) = 4
            /\ Enc(f) = u \o Words(f.val)
            /\ Pieces(f) = <<u>> \o [i \in 1..Len(f.val) |-> Uint(f.val[i], 2)]
<1>1. f.val \in Seq(0..B2 - 1)
  BY FieldTyped
<1>2. PICK i \in Nat : i = Len(f.val) /\ DOMAIN f.val = 1..i
  BY <1>1
<1>3. Uint(i, 4) \in Seq(Byte) /\ Len(Uint(i, 4)) = 4
  BY UintTyped
<1>4. QED
  BY <1>1, <1>2, <1>3 DEF Enc, Pieces

\* JSON as it is.
LEMMA JsonField ==
  ASSUME NEW f \in Field, f.type = "json"
  PROVE  Enc(f) \in Seq(Byte) /\ Enc(f) = f.val /\ Pieces(f) = <<f.val>>
BY FieldTyped DEF Enc, Pieces

\* The pieces of a container.
LEMMA VecPieces ==
  ASSUME NEW u \in Seq(Byte), NEW v \in Seq(0..B2 - 1), NEW n \in Nat, n = Len(v),
         NEW p, p = <<u>> \o [i \in 1..n |-> Uint(v[i], 2)]
  PROVE  DOMAIN p = 1..n + 1 /\ p[1] = u /\ \A i \in 1..n : p[i + 1] = Uint(v[i], 2)
<1>1. ASSUME NEW i \in 1..n PROVE Uint(v[i], 2) \in Seq(Byte)
  <2>1. v[i] \in 0..B2 - 1
    BY ElementOfSeq
  <2>2. PICK x \in Nat : x = v[i]
    BY <2>1, BaseTyped
  <2>3. QED
    BY <2>2, UintTyped
<1>2. PICK q : q = [i \in 1..n |-> Uint(v[i], 2)]
  OBVIOUS
<1>3. PICK S : S = Seq(Byte)
  OBVIOUS
<1>4. q \in [1..n -> S] /\ u \in S
  BY <1>1, <1>2, <1>3
<1>5. q \in Seq(S) /\ Len(q) = n
  BY <1>4, IsASeq
<1>o. PICK o : o = <<u>>
  OBVIOUS
<1>6. o \in Seq(S) /\ Len(o) = 1 /\ o[1] = u
  BY <1>4, <1>o
<1>7. p = o \o q
  BY <1>2, <1>o
<1>8. /\ p \in Seq(S) /\ Len(p) = 1 + n
      /\ \A i \in 1..1 + n : p[i] = IF i <= 1 THEN o[i] ELSE q[i - 1]
  <2>1. /\ o \o q \in Seq(S) /\ Len(o \o q) = Len(o) + Len(q)
        /\ \A i \in 1..Len(o) + Len(q) : (o \o q)[i] = IF i <= Len(o) THEN o[i] ELSE q[i - Len(o)]
    BY <1>5, <1>6, ConcatProperties
  <2>2. QED
    BY <1>5, <1>6, <1>7, <2>1
<1>9. DOMAIN p = 1..n + 1 /\ p[1] = u
  BY <1>6, <1>8
<1>10. ASSUME NEW i \in 1..n PROVE p[i + 1] = Uint(v[i], 2)
  <2>1. PICK j \in 1..1 + n : j = i + 1 /\ ~(j <= 1) /\ j - 1 = i
    OBVIOUS
  <2>2. p[j] = q[j - 1]
    BY <1>8, <2>1
  <2>3. QED
    BY <1>2, <2>1, <2>2
<1>11. QED
  BY <1>9, <1>10

\* marshal of a field appends its bytes, or fails.
LEMMA AppendedIs ==
  ASSUME NEW b \in Buffers, BufferOK(b), NEW f \in Field, NEW mem
  PROVE  Enc(f) \in Seq(Byte) /\ After(b, Enc(f), Appended(b, f, mem))
<1>1. ASSUME NEW s \in Seq(Byte), Pieces(f) = <<s>>
      PROVE  After(b, s, Appended(b, f, mem))
  <2>1. PICK p : p = Pieces(f) /\ DOMAIN p = 1..1 /\ p[1] = s
    BY <1>1
  <2>2. PICK c : c = [l \in 0..1 |-> IF l = 0 THEN <<>> ELSE s]
    OBVIOUS
  <2>3. c[0] = <<>> /\ c[1] = s /\ c[1] = c[0] \o p[1] /\ c[0] \in Seq(Byte)
    BY <2>1, <2>2, NoBytes
  <2>4. Chain(c, p, 1)
    <3>1. \A l \in 0..1 : l = 0 \/ l = 1
      OBVIOUS
    <3>2. \A l \in 1..1 : l = 1 /\ l - 1 = 0
      OBVIOUS
    <3>3. QED
      BY <2>1, <2>3, <3>1, <3>2 DEF Chain
  <2>5. After(b, c[1], Appended(b, f, mem))
    BY <2>1, <2>4, AppendAll
  <2>6. QED
    BY <2>3, <2>5
<1>2. ASSUME NEW s \in Seq(Byte), NEW t \in Seq(Byte), Pieces(f) = <<s, t>>
      PROVE  s \o t \in Seq(Byte) /\ After(b, s \o t, Appended(b, f, mem))
  <2>1. PICK p : p = Pieces(f) /\ DOMAIN p = 1..2 /\ p[1] = s /\ p[2] = t
    BY <1>2
  <2>2. PICK c : c = [l \in 0..2 |-> IF l = 0 THEN <<>> ELSE IF l = 1 THEN s ELSE s \o t]
    OBVIOUS
  <2>3. /\ c[0] = <<>> /\ c[1] = s /\ c[2] = s \o t
        /\ c[1] = c[0] \o p[1] /\ c[2] = c[1] \o p[2] /\ c[0] \in Seq(Byte) /\ c[2] \in Seq(Byte)
    BY <2>1, <2>2, NoBytes
  <2>4. Chain(c, p, 2)
    <3>1. \A l \in 0..2 : l = 0 \/ l = 1 \/ l = 2
      OBVIOUS
    <3>2. \A l \in 1..2 : (l = 1 /\ l - 1 = 0) \/ (l = 2 /\ l - 1 = 1)
      OBVIOUS
    <3>3. QED
      BY <2>1, <2>3, <3>1, <3>2 DEF Chain
  <2>5. After(b, c[2], Appended(b, f, mem))
    BY <2>1, <2>4, AppendAll
  <2>6. QED
    BY <2>3, <2>5
<1>3. CASE f.type \in {"u8", "u16", "u32", "u64"}
  BY <1>1, <1>3, IntField
<1>4. CASE f.type \in {"str", "str32"}
  BY <1>2, <1>4, StrField
<1>5. CASE f.type = "pair"
  BY <1>2, <1>5, PairField
<1>6. CASE f.type = "json"
  BY <1>1, <1>6, JsonField
<1>7. CASE f.type = "vec"
  <2>1. PICK v \in Seq(0..B2 - 1) : v = f.val
    BY <1>7, VecField
  <2>2. PICK n \in Nat : n = Len(v)
    OBVIOUS
  <2>3. PICK u \in Seq(Byte) : u = Uint(n, 4)
    BY <1>7, <2>1, <2>2, VecField
  <2>4. PICK w \in Seq(Byte) : w = Words(v) /\ Len(w) = 2 * n
    BY <2>2, WordsIs
  <2>5. Enc(f) = u \o w
    BY <1>7, <2>1, <2>2, <2>3, <2>4, VecField
  <2>6. PICK p : /\ p = Pieces(f) /\ DOMAIN p = 1..n + 1 /\ p[1] = u
                 /\ \A i \in 1..n : p[i + 1] = Uint(v[i], 2)
    <3>1. Pieces(f) = <<u>> \o [i \in 1..n |-> Uint(v[i], 2)]
      BY <1>7, <2>1, <2>2, <2>3, VecField
    <3>2. PICK p : p = Pieces(f)
      OBVIOUS
    <3>3. DOMAIN p = 1..n + 1 /\ p[1] = u /\ \A i \in 1..n : p[i + 1] = Uint(v[i], 2)
      BY <2>2, <3>1, <3>2, VecPieces
    <3>4. QED
      BY <3>2, <3>3
  <2>7. ASSUME NEW i \in 0..n PROVE Cut(w, 0, 2 * i) \in Seq(Byte)
    <3>1. PICK a \in Nat : a = 2 * i /\ 0 <= a /\ a <= Len(w)
      BY <2>4
    <3>2. Part(w, 0, a, Cut(w, 0, a))
      BY <3>1, PartIs
    <3>3. QED
      BY <3>1, <3>2 DEF Part
  <2>8. PICK c : c = [l \in 0..n + 1 |-> IF l = 0 THEN <<>> ELSE u \o Cut(w, 0, 2 * (l - 1))]
    OBVIOUS
  <2>9. c[0] = <<>> /\ \A l \in 1..n + 1 : c[l] = u \o Cut(w, 0, 2 * (l - 1))
    BY <2>8
  <2>10. ASSUME NEW l \in 0..n + 1 PROVE c[l] \in Seq(Byte)
    <3>1. CASE l = 0
      BY <2>9, <3>1, NoBytes
    <3>2. CASE l # 0
      <4>1. PICK i \in 0..n : i = l - 1
        BY <3>2
      <4>2. PICK s \in Seq(Byte) : s = Cut(w, 0, 2 * i)
        BY <2>7
      <4>3. c[l] = u \o s
        <5>1. l \in 1..n + 1
          BY <3>2
        <5>2. c[l] = u \o Cut(w, 0, 2 * (l - 1))
          BY <2>9, <5>1
        <5>3. QED
          BY <4>1, <4>2, <5>2
      <4>4. QED
        BY <4>3
    <3>3. QED
      BY <3>1, <3>2
  <2>11. ASSUME NEW l \in 1..n + 1
         PROVE  p[l] \in Seq(Byte) /\ c[l] = c[l - 1] \o p[l]
    <3>1. CASE l = 1
      <4>1. Cut(w, 0, 2 * (1 - 1)) = <<>>
        BY SubSeqEmpty DEF Cut
      <4>2. c[1] = u \o <<>>
        <5>1. 1 \in 1..n + 1
          OBVIOUS
        <5>2. c[1] = u \o Cut(w, 0, 2 * (1 - 1))
          BY <2>9, <5>1
        <5>3. QED
          BY <4>1, <5>2
      <4>3. l - 1 = 0 /\ c[l - 1] = <<>> /\ p[l] = u
        BY <2>6, <2>9, <3>1
      <4>4. u \o <<>> = u /\ <<>> \o u = u
        BY NoBytes
      <4>5. QED
        BY <3>1, <4>2, <4>3, <4>4
    <3>2. CASE l # 1
      <4>1. PICK i \in 1..n : i = l - 1 /\ i + 1 = l
        BY <3>2
      <4>2. PICK s \in Seq(Byte), t \in Seq(Byte) : s = Cut(w, 0, 2 * (i - 1)) /\ t = Cut(w, 0, 2 * i)
        <5>1. i \in 0..n /\ i - 1 \in 0..n
          OBVIOUS
        <5>2. QED
          BY <2>7, <5>1
      <4>3. PICK x \in Seq(Byte) : x = Uint(v[i], 2) /\ p[l] = x
        <5>1. v[i] \in 0..B2 - 1
          BY <2>2, ElementOfSeq
        <5>2. PICK y \in Nat : y = v[i]
          BY <5>1, BaseTyped
        <5>3. Uint(y, 2) \in Seq(Byte)
          BY UintTyped
        <5>4. QED
          BY <2>6, <4>1, <5>2, <5>3
      <4>4. t = s \o x
        BY <2>2, <2>4, <4>2, <4>3, WordsStep
      <4>5. c[l] = u \o t
        <5>1. c[l] = u \o Cut(w, 0, 2 * (l - 1))
          BY <2>9
        <5>2. QED
          BY <4>1, <4>2, <5>1
      <4>6. c[l - 1] = u \o s
        <5>1. i \in 1..n + 1
          OBVIOUS
        <5>2. c[i] = u \o Cut(w, 0, 2 * (i - 1))
          BY <2>9, <5>1
        <5>3. QED
          BY <4>1, <4>2, <5>2
      <4>7. (u \o s) \o x = u \o (s \o x)
        <5>1. Regroups(u, s, x)
          BY Assoc
        <5>2. QED
          BY <5>1 DEF Regroups
      <4>8. QED
        BY <4>3, <4>4, <4>5, <4>6, <4>7
    <3>3. QED
      BY <3>1, <3>2
  <2>12. Chain(c, p, n + 1)
    <3>1. c[0] = <<>>
      BY <2>9
    <3>2. \A l \in 0..n + 1 : c[l] \in Seq(Byte)
      BY <2>10
    <3>3. \A l \in 1..n + 1 : p[l] \in Seq(Byte) /\ c[l] = c[l - 1] \o p[l]
      BY <2>11
    <3>4. QED
      BY <3>1, <3>2, <3>3 DEF Chain
  <2>13. PICK k \in Nat : k = n + 1
    OBVIOUS
  <2>14. After(b, c[k], Appended(b, f, mem))
    BY <2>6, <2>12, <2>13, AppendAll
  <2>15. Cut(w, 0, 2 * n) = w
    <3>1. PICK a \in Nat : a = 2 * n
      OBVIOUS
    <3>2. PICK s : s = Cut(w, 0, a)
      OBVIOUS
    <3>3. Part(w, 0, a, s)
      BY <2>4, <3>1, <3>2, PartIs
    <3>4. s \in Seq(Byte) /\ Len(s) = a /\ \A j \in 1..a : s[j] = w[j]
      BY <3>3 DEF Part
    <3>5. s = w
      BY <2>4, <3>1, <3>4, SeqEqual
    <3>6. QED
      BY <3>1, <3>2, <3>5
  <2>16. c[k] = u \o w
    <3>1. k \in 1..n + 1 /\ k - 1 = n
      BY <2>13
    <3>2. c[k] = u \o Cut(w, 0, 2 * (k - 1))
      BY <2>9, <3>1
    <3>3. QED
      BY <2>15, <3>1, <3>2
  <2>17. QED
    BY <2>5, <2>14, <2>16
<1>8. QED
  BY <1>3, <1>4, <1>5, <1>6, <1>7, FieldTyped

-----------------------------------------------------------------------------
(* Reading a field *)

\* The stream begins with the bytes of e, as far as it goes.
Agrees(s, e) == \A k \in 1..Len(e) : k <= Len(s) => s[k] = e[k]

\* What reading a field from a stream gives: the field, if the stream has enough bytes, and
\* otherwise an exception.
ReadsBack(f, s) ==
  /\ Needs(f.type, s) \in Nat
  /\ Needs(f.type, s) <= Len(s) => Needs(f.type, s) = Len(Enc(f)) /\ Value(f.type, s) = f.val
  /\ Len(Enc(f)) <= Len(s) => Needs(f.type, s) = Len(Enc(f))

\* readUint8 to readUint64.
LEMMA ReadInt ==
  ASSUME NEW f \in Field, f.type \in {"u8", "u16", "u32", "u64"}, NEW s \in Seq(Byte),
         Agrees(s, Enc(f))
  PROVE  ReadsBack(f, s)
<1>1. PICK w \in {1, 2, 4, 8} : w = Width(f.type) /\ Len(Enc(f)) = w
  BY IntField
<1>2. PICK i \in Numbers(w) : i = f.val /\ Enc(f) = Uint(i, w)
  BY <1>1, IntField
<1>3. Needs(f.type, s) = w /\ Value(f.type, s) = ReadUint(s, w)
  BY <1>1 DEF Needs, Value
<1>4. ASSUME w <= Len(s) PROVE ReadUint(s, w) = i
  <2>1. \A k \in 1..w : s[k] = Uint(i, w)[k]
    BY <1>1, <1>2, <1>4 DEF Agrees
  <2>2. QED
    BY <2>1, UintBack
<1>5. QED
  BY <1>1, <1>2, <1>3, <1>4 DEF ReadsBack

\* A length and what comes behind it.
Follows(s, w, n, rest) ==
  /\ ReadUint(s, w) = n
  /\ \A k \in 1..Len(rest) : w + k <= Len(s) => s[w + k] = rest[k]

\* readVarstr and unmarshal_container: the length comes back, and what is behind it.
LEMMA ReadLength ==
  ASSUME NEW w \in {1, 2, 4, 8}, NEW n \in Numbers(w), NEW rest \in Seq(Byte),
         NEW s \in Seq(Byte), w <= Len(s), Agrees(s, Uint(n, w) \o rest)
  PROVE  Follows(s, w, n, rest)
<1>0. PICK e : e = Uint(n, w) \o rest /\ Agrees(s, e)
  OBVIOUS
<1>1. PICK u \in Seq(Byte) : u = Uint(n, w) /\ Len(u) = w
  BY UintTyped, NumbersNat
<1>2. Behind(u, rest, e)
  BY <1>0, <1>1, ConcatIs
<1>3. PICK m \in Nat : m = Len(rest)
  OBVIOUS
<1>4. /\ Len(e) = w + m /\ (\A k \in 1..w : e[k] = u[k]) /\ \A k \in 1..m : e[w + k] = rest[k]
  BY <1>1, <1>2, <1>3 DEF Behind
<1>5. ASSUME NEW k \in 1..w PROVE s[k] = Uint(n, w)[k]
  <2>1. k \in 1..Len(e) /\ k <= Len(s)
    BY <1>3, <1>4
  <2>2. s[k] = e[k]
    BY <1>0, <2>1 DEF Agrees
  <2>3. QED
    BY <1>1, <1>4, <2>2
<1>6. ReadUint(s, w) = n
  BY <1>5, UintBack
<1>7. ASSUME NEW k \in 1..m, w + k <= Len(s) PROVE s[w + k] = rest[k]
  <2>1. PICK j \in 1..Len(e) : j = w + k
    BY <1>3, <1>4
  <2>2. s[j] = e[j]
    BY <1>0, <1>7, <2>1 DEF Agrees
  <2>3. QED
    BY <1>4, <2>1, <2>2
<1>8. QED
  BY <1>3, <1>6, <1>7 DEF Follows

\* readVarstr and readVarstr32.
LEMMA ReadStr ==
  ASSUME NEW f \in Field, f.type \in {"str", "str32"}, ~TooBig(f), NEW s \in Seq(Byte),
         Agrees(s, Enc(f))
  PROVE  ReadsBack(f, s)
<1>0. PICK v \in Seq(Byte) : v = f.val
  BY StrField
<1>1. PICK n \in Nat : n = Len(v)
  OBVIOUS
<1>2. PICK w \in {1, 2, 4, 8} : w = LenWidth(f.type)
  BY StrField
<1>3. PICK u \in Seq(Byte) : u = Uint(n, w) /\ Len(u) = w /\ Enc(f) = u \o v
  BY <1>0, <1>1, <1>2, StrField
<1>4. Len(Enc(f)) = w + n
  <2>1. Behind(u, v, u \o v)
    BY ConcatIs
  <2>2. QED
    BY <1>1, <1>3, <2>1 DEF Behind
<1>5. n \in Numbers(w)
  <2>1. CASE f.type = "str"
    <3>1. w = 2 /\ n \in 0..B2 - 1
      BY <1>0, <1>1, <1>2, <2>1, Widths, BaseTyped DEF TooBig
    <3>2. QED
      BY <3>1 DEF Numbers
  <2>2. CASE f.type = "str32"
    <3>1. w = 4 /\ n \in 0..B4 - 1
      BY <1>0, <1>1, <1>2, <2>2, Widths, BaseTyped DEF TooBig
    <3>2. QED
      BY <3>1 DEF Numbers
  <2>3. QED
    BY <2>1, <2>2
<1>6. CASE Len(s) < w
  <2>1. Needs(f.type, s) = w
    BY <1>2, <1>6 DEF Needs
  <2>2. QED
    BY <1>4, <1>6, <2>1 DEF ReadsBack
<1>7. CASE ~(Len(s) < w)
  <2>1. w <= Len(s)
    BY <1>7
  <2>2. ReadUint(s, w) = n /\ \A k \in 1..n : w + k <= Len(s) => s[w + k] = v[k]
    <3>1. Follows(s, w, n, v)
      BY <1>3, <1>5, <2>1, ReadLength
    <3>2. QED
      BY <1>1, <3>1 DEF Follows
  <2>3. Needs(f.type, s) = w + n
    BY <1>2, <1>7, <2>2 DEF Needs
  <2>4. ASSUME w + n <= Len(s) PROVE Value(f.type, s) = v
    <3>1. PICK c \in Nat : c = w + n
      OBVIOUS
    <3>2. PICK t : t = Cut(s, w, c)
      OBVIOUS
    <3>3. Value(f.type, s) = t
      BY <1>2, <2>3, <3>1, <3>2 DEF Value, Cut
    <3>4. Part(s, w, c, t)
      <4>1. w \in Nat /\ w <= c /\ c <= Len(s)
        BY <2>4, <3>1
      <4>2. QED
        BY <3>2, <4>1, PartIs
    <3>5. t \in Seq(Byte) /\ Len(t) = n /\ \A k \in 1..n : t[k] = s[w + k]
      BY <3>1, <3>4 DEF Part
    <3>6. ASSUME NEW k \in 1..n PROVE t[k] = v[k]
      <4>1. w + k <= Len(s)
        BY <2>4
      <4>2. s[w + k] = v[k]
        BY <2>2, <4>1
      <4>3. QED
        BY <3>5, <4>2
    <3>7. t = v
      BY <1>1, <3>5, <3>6, SeqEqual
    <3>8. QED
      BY <3>3, <3>7
  <2>5. QED
    BY <1>0, <1>4, <2>3, <2>4 DEF ReadsBack
<1>8. QED
  BY <1>6, <1>7

\* A pair.
LEMMA ReadPair ==
  ASSUME NEW f \in Field, f.type = "pair", NEW s \in Seq(Byte), Agrees(s, Enc(f))
  PROVE  ReadsBack(f, s)
<1>1. PICK i \in Numbers(1), j \in Numbers(2) : i = f.val[1] /\ j = f.val[2] /\ f.val = <<i, j>>
  BY PairField
<1>2. PICK u \in Seq(Byte), v \in Seq(Byte) :
        u = Uint(i, 1) /\ Len(u) = 1 /\ v = Uint(j, 2) /\ Len(v) = 2 /\ Enc(f) = u \o v
  BY <1>1, PairField
<1>3. Len(Enc(f)) = 3
  <2>1. PICK e : e = u \o v /\ e = Enc(f)
    BY <1>2
  <2>2. Behind(u, v, e)
    BY <2>1, ConcatIs
  <2>3. Len(e) = 1 + 2
    BY <1>2, <2>2 DEF Behind
  <2>4. QED
    BY <2>1, <2>3
<1>4. Needs(f.type, s) = 3
  BY DEF Needs
<1>5. ASSUME 3 <= Len(s) PROVE Value(f.type, s) = <<i, j>>
  <2>1. ReadUint(s, 1) = i /\ \A k \in 1..2 : 1 + k <= Len(s) => s[1 + k] = v[k]
    <3>1. 1 <= Len(s)
      BY <1>5
    <3>2. Follows(s, 1, i, v)
      BY <1>2, <3>1, ReadLength
    <3>3. QED
      BY <1>2, <3>2 DEF Follows
  <2>2. PICK t : t = Cut(s, 1, 3)
    OBVIOUS
  <2>3. Part(s, 1, 3, t)
    BY <1>5, <2>2, PartIs
  <2>4. \A k \in 1..2 : t[k] = s[1 + k]
    BY <2>3 DEF Part
  <2>5. \A k \in 1..2 : t[k] = Uint(j, 2)[k]
    BY <1>2, <1>5, <2>1, <2>4
  <2>6. ReadUint(t, 2) = j
    BY <2>5, UintBack
  <2>7. Value(f.type, s) = <<ReadUint(s, 1), ReadUint(t, 2)>>
    BY <2>2 DEF Value, Cut
  <2>8. QED
    BY <2>1, <2>6, <2>7
<1>6. QED
  BY <1>1, <1>3, <1>4, <1>5 DEF ReadsBack

\* unmarshal_container.
LEMMA ReadVec ==
  ASSUME NEW f \in Field, f.type = "vec", Len(Enc(f)) < B4, NEW s \in Seq(Byte),
         Agrees(s, Enc(f))
  PROVE  ReadsBack(f, s)
<1>0. PICK v \in Seq(0..B2 - 1) : v = f.val
  BY VecField
<1>1. PICK n \in Nat : n = Len(v)
  OBVIOUS
<1>2. PICK r \in Seq(Byte) : /\ r = Words(v) /\ Len(r) = 2 * n
        /\ \A i \in 1..n : r[2 * i - 1] = Uint(v[i], 2)[1] /\ r[2 * i] = Uint(v[i], 2)[2]
  <2>1. PICK r : r = Words(v)
    OBVIOUS
  <2>2. /\ r \in Seq(Byte) /\ Len(r) = 2 * n
        /\ \A i \in 1..n : r[2 * i - 1] = Uint(v[i], 2)[1] /\ r[2 * i] = Uint(v[i], 2)[2]
    BY <1>1, <2>1, WordsIs
  <2>3. QED
    BY <2>1, <2>2
<1>3. PICK u \in Seq(Byte) : u = Uint(n, 4) /\ Len(u) = 4 /\ Enc(f) = u \o r
  BY <1>0, <1>1, <1>2, VecField
<1>4. Len(Enc(f)) = 4 + 2 * n
  <2>1. Behind(u, r, u \o r)
    BY ConcatIs
  <2>2. QED
    BY <1>2, <1>3, <2>1 DEF Behind
<1>5. n \in Numbers(4)
  <2>1. n \in 0..B4 - 1
    BY <1>4, BaseTyped
  <2>2. QED
    BY <2>1 DEF Numbers
<1>6. CASE Len(s) < 4
  <2>1. Needs(f.type, s) = 4
    BY <1>6 DEF Needs
  <2>2. QED
    BY <1>4, <1>6, <2>1 DEF ReadsBack
<1>7. CASE ~(Len(s) < 4)
  <2>1. 4 <= Len(s)
    BY <1>7
  <2>2. ReadUint(s, 4) = n /\ \A k \in 1..2 * n : 4 + k <= Len(s) => s[4 + k] = r[k]
    <3>1. Follows(s, 4, n, r)
      BY <1>3, <1>5, <2>1, ReadLength
    <3>2. QED
      BY <1>2, <3>1 DEF Follows
  <2>3. Needs(f.type, s) = 4 + 2 * n
    BY <1>7, <2>2 DEF Needs
  <2>4. ASSUME 4 + 2 * n <= Len(s) PROVE Value(f.type, s) = v
    <3>1. Value(f.type, s) = [i \in 1..n |-> ReadUint(SubSeq(s, 3 + 2 * i, 4 + 2 * i), 2)]
      BY <2>2 DEF Value
    <3>2. ASSUME NEW i \in 1..n PROVE ReadUint(SubSeq(s, 3 + 2 * i, 4 + 2 * i), 2) = v[i]
      <4>1. PICK a \in Nat, c \in Nat : a = 2 + 2 * i /\ c = 4 + 2 * i /\ c - a = 2
        OBVIOUS
      <4>2. PICK t : t = Cut(s, a, c)
        OBVIOUS
      <4>3. SubSeq(s, 3 + 2 * i, 4 + 2 * i) = t
        <5>1. 3 + 2 * i = a + 1
          BY <4>1
        <5>2. QED
          BY <4>1, <4>2, <5>1 DEF Cut
      <4>4. Part(s, a, c, t)
        <5>1. a <= c /\ c <= Len(s)
          BY <2>4, <4>1
        <5>2. QED
          BY <4>2, <5>1, PartIs
      <4>5. t[1] = s[a + 1] /\ t[2] = s[a + 2]
        BY <4>1, <4>4 DEF Part
      <4>6. PICK k \in 1..2 * n, l \in 1..2 * n : k = 2 * i - 1 /\ l = 2 * i
        OBVIOUS
      <4>7. s[4 + k] = r[k] /\ s[4 + l] = r[l]
        BY <2>2, <2>4
      <4>8. a + 1 = 4 + k /\ a + 2 = 4 + l
        BY <4>1, <4>6
      <4>9. r[k] = Uint(v[i], 2)[1] /\ r[l] = Uint(v[i], 2)[2]
        BY <1>2, <4>6
      <4>10. t[1] = Uint(v[i], 2)[1] /\ t[2] = Uint(v[i], 2)[2]
        BY <4>5, <4>7, <4>8, <4>9
      <4>11. PICK x \in Numbers(2) : x = v[i]
        <5>1. v[i] \in 0..B2 - 1
          BY <1>1, ElementOfSeq
        <5>2. QED
          BY <5>1 DEF Numbers
      <4>12. \A j \in 1..2 : t[j] = Uint(x, 2)[j]
        <5>1. \A j \in 1..2 : j = 1 \/ j = 2
          OBVIOUS
        <5>2. QED
          BY <4>10, <4>11, <5>1
      <4>13. ReadUint(t, 2) = x
        BY <4>12, UintBack
      <4>14. QED
        BY <4>3, <4>11, <4>13
    <3>3. v = [i \in 1..n |-> v[i]]
      BY <1>1
    <3>4. QED
      BY <3>1, <3>2, <3>3
  <2>5. QED
    BY <1>0, <1>4, <2>3, <2>4 DEF ReadsBack
<1>8. QED
  BY <1>6, <1>7

\* All types but JSON, which has no length of its own.
LEMMA ReadField ==
  ASSUME NEW f \in Field, f.type # "json", ~TooBig(f), Len(Enc(f)) < B4, NEW s \in Seq(Byte),
         Agrees(s, Enc(f))
  PROVE  ReadsBack(f, s)
BY FieldTyped, ReadInt, ReadStr, ReadPair, ReadVec

-----------------------------------------------------------------------------
(* The invariant *)

\* The fields fs lie in the buffer d one behind the other, field i from off[i] on.
Layout(off, fs, d) ==
  /\ off[1] = HEADER_SIZE /\ off[Len(fs) + 1] = Len(d)
  /\ \A i \in 1..Len(fs) + 1 : off[i] \in HEADER_SIZE..Len(d)
  /\ \A i \in 1..Len(fs) : /\ off[i + 1] = off[i] + Len(Enc(fs[i]))
                           /\ \A k \in 1..Len(Enc(fs[i])) : d[off[i] + k] = Enc(fs[i])[k]

\* The header of d has the session id s and the length of what follows.
HeaderOf(d, s) ==
  \A k \in 1..4 : d[k] = Uint(s, 4)[k] /\ d[k + 4] = Uint(Len(d) - JSON_HEADER_SIZE, 4)[k]

\* The frame w with the session id s comes from the buffer d; it is shorter where c holds.
Frame(w, d, s, c) ==
  /\ w \in Seq(Byte) /\ Len(w) \in JSON_HEADER_SIZE..Len(d) /\ c = (Len(w) < Len(d))
  /\ \A k \in 1..4 : w[k] = Uint(s, 4)[k]
  /\ \A k \in HEADER_SIZE..Len(w) : w[k] = d[k]

\* The reader is at the next field; or it has taken what there was of a JSON text.
Reading(off) ==
  \/ LET o == off[Len(got) + 1]
     IN /\ o <= Len(wire) /\ Len(up) = Len(wire) - o
        /\ \A k \in 1..Len(up) : up[k] = wire[o + k]
  \/ /\ cut /\ up = <<>> /\ written # <<>> /\ Len(got) = Len(written)
     /\ written[Len(written)].type = "json"

Fields == Field \union [type : {"json"}, val : Seq(Byte)]

Typed ==
  /\ pc \in {"write", "packed", "wire", "header", "read", "done", "throw"}
  /\ pb \in Buffers /\ BufferOK(pb) /\ session \in 0..B4 - 1 /\ cut \in BOOLEAN
  /\ written \in Seq(Field) /\ got \in Seq(Fields) /\ up \in Seq(Byte)
  /\ \A i \in 1..Len(written) : ~TooBig(written[i])
  /\ \A i \in 1..Len(written) : written[i].type = "json" => i = Len(written)

Received ==
  /\ Len(got) <= Len(written)
  /\ \A i \in 1..Len(got) : got[i] = written[i] \/ (cut /\ written[i].type = "json")

Phases ==
  /\ pc \in {"write", "packed"} => wire = <<>> /\ cut = FALSE
  /\ pc \in {"write", "packed", "wire", "header"} => got = <<>>
  /\ pc = "packed" => HeaderOf(pb.data, session)
  /\ pc = "wire" => HeaderOf(wire, session)
  /\ pc \in {"wire", "header", "read"} => Frame(wire, pb.data, session, cut)
  /\ pc = "header" => up = wire
  /\ pc = "read" => header.sessionId = session
  /\ pc = "throw" /\ wire # <<>> => cut
  /\ pc = "done" /\ cut => written # <<>> /\ written[Len(written)].type = "json"

Placed == \E off : Layout(off, written, pb.data) /\ (pc = "read" => Reading(off))

StreamInv == Typed /\ Received /\ Phases /\ Placed

\* What TLC checks of it are its consequences; these are they.
LEMMA InvImplies ==
  ASSUME StreamInv
  PROVE  SessionAgreed /\ ReadsWhatWasWritten /\ CompleteOrThrown
<1>1. SessionAgreed
  <2>1. ASSUME pc = "wire" PROVE PeekData(wire) = session
    <3>1. \A k \in 1..4 : wire[k] = Uint(session, 4)[k]
      BY <2>1 DEF StreamInv, Phases, Frame
    <3>2. session \in 0..B4 - 1
      BY DEF StreamInv, Typed
    <3>3. QED
      BY <3>1, <3>2, PeekBack
  <2>2. QED
    BY <2>1 DEF SessionAgreed, StreamInv, Phases
<1>2. ReadsWhatWasWritten
  <2>1. DOMAIN got = 1..Len(got)
    BY DEF StreamInv, Typed
  <2>2. QED
    BY <2>1 DEF ReadsWhatWasWritten, StreamInv, Received
<1>3. CompleteOrThrown
  <2>1. TypeOK
    <3>1. \A i \in DOMAIN pb.data : pb.data[i] \in Byte
      <4>1. PICK d \in Seq(Byte) : d = pb.data
        BY DEF StreamInv, Typed, Buffers
      <4>2. \A i \in DOMAIN d : d[i] \in Byte
        OBVIOUS
      <4>3. QED
        BY <4>1, <4>2
    <3>2. QED
      BY <3>1 DEF TypeOK, StreamInv, Typed
  <2>2. pc = "done" => (cut => written # <<>> /\ Last(written).type = "json")
    BY DEF StreamInv, Phases, Last
  <2>3. QED
    BY <2>1, <2>2 DEF CompleteOrThrown, StreamInv, Phases
<1>4. QED
  BY <1>1, <1>2, <1>3

\* The constructors of Sender: the buffer has room for the header.
LEMMA InitBuffer ==
  ASSUME NEW b, b = BufferResize(EmptyBuffer, HEADER_SIZE, 0, TRUE).buf
  PROVE  b \in Buffers /\ BufferOK(b) /\ Len(b.data) = HEADER_SIZE
<1>0. 0 \in Byte
  BY BaseTyped DEF Byte
<1>a. PICK z : z = [i \in 1..9 |-> 0]
  OBVIOUS
<1>1. z \in Seq(Byte) /\ Len(z) = 9
  <2>1. \A i \in 1..9 : 0 \in Byte
    BY <1>0
  <2>2. 9 \in Nat
    OBVIOUS
  <2>3. [i \in 1..9 |-> 0] \in Seq(Byte)
    BY <2>1, <2>2, IsASeq
  <2>4. QED
    BY <1>a, <2>2, <2>3
<1>2. EmptyBuffer \in Buffers /\ EmptyBuffer.data = <<>> /\ EmptyBuffer.block = 0 /\ BufferOK(EmptyBuffer)
  BY EmptyIs DEF EmptyBuffer
<1>3. BufferResize(EmptyBuffer, HEADER_SIZE, 0, TRUE) = BufferAppend(EmptyBuffer, z, TRUE)
  BY <1>a, <1>2 DEF BufferResize, HEADER_SIZE
<1>4. PICK r : r = BufferAppend(EmptyBuffer, z, TRUE)
  OBVIOUS
<1>5. After(EmptyBuffer, z, r)
  BY <1>1, <1>2, <1>4, AppendAfter
<1>6. r.ok
  <2>1. PICK S \in Nat \ {0}, M \in Nat \ {0} : S = BlockSize /\ M = MaxBlocks /\ M * S >= 9
    BY BlockBufferAssumption, ByteStreamAssumption DEF maxsize, HEADER_SIZE
  <2>2. freespace(EmptyBuffer) = 0
    BY <1>2, <2>1 DEF freespace, capacity
  <2>3. PICK q \in Int, m \in 0..S - 1 : q = 9 \div S /\ m = (9 % S) /\ 9 = S * q + m
    <3>1. 9 \in Int
      OBVIOUS
    <3>2. QED
      BY <3>1
  <2>4. PICK n \in Int : n = 0 + q + (IF m > 0 THEN 1 ELSE 0)
    OBVIOUS
  <2>5. n <= M
    <3>1. CASE m > 0
      <4>1. S * q < M * S
        <5>1. PICK x \in Int, y \in Int : x = S * q /\ y = M * S
          OBVIOUS
        <5>2. x < 9 /\ y >= 9
          BY <2>1, <2>3, <3>1, <5>1
        <5>3. QED
          BY <5>1, <5>2
      <4>2. q >= M => S * q >= M * S
        OBVIOUS
      <4>3. q < M
        <5>1. PICK x \in Int, y \in Int : x = S * q /\ y = M * S
          OBVIOUS
        <5>2. QED
          BY <4>1, <4>2, <5>1
      <4>4. QED
        BY <2>4, <3>1, <4>3
    <3>2. CASE ~(m > 0)
      <4>1. S * q <= M * S
        BY <2>1, <2>3, <3>2
      <4>2. q >= M + 1 => S * q >= (M + 1) * S
        OBVIOUS
      <4>3. (M + 1) * S = M * S + S
        OBVIOUS
      <4>4. q <= M
        <5>1. PICK x \in Int, y \in Int : x = S * q /\ y = M * S
          OBVIOUS
        <5>2. QED
          BY <4>1, <4>2, <4>3, <5>1
      <4>5. QED
        BY <2>4, <3>2, <4>4
    <3>3. QED
      BY <3>1, <3>2
  <2>6. IncreaseCapacity(EmptyBuffer, 9, TRUE) = [ok |-> TRUE, buf |-> [EmptyBuffer EXCEPT !.block = n]]
    <3>1. 0 + 9 \div BlockSize + (IF 9 % BlockSize > 0 THEN 1 ELSE 0) = n
      BY <2>1, <2>3, <2>4
    <3>2. 9 - 0 = 9 /\ ~(0 >= 9) /\ ~(9 = 0) /\ ~(n > MaxBlocks)
      BY <2>1, <2>5
    <3>3. QED
      BY <1>2, <2>2, <3>1, <3>2 DEF IncreaseCapacity, Returns
  <2>7. z # <<>>
    BY <1>1
  <2>8. PICK g : g = IncreaseCapacity(EmptyBuffer, 9, TRUE)
    OBVIOUS
  <2>9. g.ok
    <3>1. PICK e : e = [EmptyBuffer EXCEPT !.block = n]
      OBVIOUS
    <3>2. g = [ok |-> TRUE, buf |-> e]
      BY <2>6, <2>8, <3>1
    <3>3. QED
      BY <3>2
  <2>10. r = IF z = <<>> THEN Returns(TRUE, EmptyBuffer)
             ELSE IF g.ok THEN Returns(TRUE, [g.buf EXCEPT !.data = @ \o z])
             ELSE Returns(FALSE, EmptyBuffer)
    BY <1>1, <1>4, <2>8 DEF BufferAppend
  <2>11. r = Returns(TRUE, [g.buf EXCEPT !.data = @ \o z])
    BY <2>7, <2>9, <2>10
  <2>12. QED
    BY <2>11 DEF Returns
<1>7. r.buf \in Buffers /\ BufferOK(r.buf) /\ r.buf.data = <<>> \o z
  BY <1>2, <1>5, <1>6 DEF After
<1>8. <<>> \o z = z
  BY NoBytes
<1>9. QED
  BY <1>1, <1>3, <1>4, <1>7, <1>8 DEF HEADER_SIZE

\* Init.
LEMMA InitStream ==
  ASSUME Init
  PROVE  StreamInv
<1>1. pb \in Buffers /\ BufferOK(pb) /\ Len(pb.data) = HEADER_SIZE
  BY InitBuffer DEF Init
<1>2. Len(written) = 0 /\ Len(got) = 0 /\ written = <<>> /\ got = <<>>
  BY DEF Init
<1>3. Typed
  <2>1. 0 \in 0..B4 - 1
    BY BaseTyped
  <2>2. <<>> \in Seq(Field) /\ <<>> \in Seq(Fields) /\ <<>> \in Seq(Byte)
    BY EmptySeq
  <2>3. 1..Len(written) = {}
    BY <1>2
  <2>4. session = 0 /\ cut = FALSE /\ pc = "write" /\ up = <<>>
    BY DEF Init
  <2>5. QED
    BY <1>1, <1>2, <2>1, <2>2, <2>3, <2>4 DEF Typed
<1>4. Received /\ Phases
  BY <1>2 DEF Init, Received, Phases
<1>5. Placed
  <2>1. PICK off : off = [i \in 1..1 |-> HEADER_SIZE]
    OBVIOUS
  <2>2. HEADER_SIZE \in HEADER_SIZE..HEADER_SIZE /\ off[1] = HEADER_SIZE
    BY <2>1 DEF HEADER_SIZE
  <2>3. Layout(off, written, pb.data)
    BY <1>1, <1>2, <2>2 DEF Layout
  <2>4. pc # "read"
    BY DEF Init
  <2>5. QED
    BY <2>3, <2>4 DEF Placed
<1>6. QED
  BY <1>3, <1>4, <1>5 DEF StreamInv

-----------------------------------------------------------------------------
(* Steps of the sender *)

\* A buffer within its limit has a length that the header can hold; it may reach into the
\* lowest bit of the protocol.
LEMMA Bounded ==
  ASSUME NEW b \in Buffers, BufferOK(b)
  PROVE  /\ Len(b.data) \in Nat /\ Len(b.data) <= 2 * ProtoShift /\ Len(b.data) < B4
         /\ ProtoShift \in Nat \ {0} /\ ProtoShift < B4 /\ B4 \in Nat
<1>1. PICK S \in Nat \ {0}, M \in Nat \ {0} : S = BlockSize /\ M = MaxBlocks
  BY BlockBufferAssumption
<1>2. PICK k \in 0..M, l \in Nat : k = b.block /\ l = Len(b.data) /\ l <= k * S
  BY <1>1 DEF BufferOK, Buffers, capacity
<1>3. k * S <= M * S
  BY <1>1
<1>4. M * S <= 2 * ProtoShift /\ M * S < B4
  BY <1>1, ByteStreamAssumption DEF maxsize
<1>5. B4 \in Nat \ {0}
  BY BaseTyped
<1>6. PICK p \in Nat \ {0} : p = ProtoShift /\ p < B4
  BY <1>5, ByteStreamAssumption
<1>7. PICK x \in Int, y \in Int : x = k * S /\ y = M * S
  OBVIOUS
<1>8. l <= 2 * p /\ l < B4
  BY <1>2, <1>3, <1>4, <1>5, <1>6, <1>7
<1>9. QED
  BY <1>2, <1>5, <1>6, <1>8

\* What a field is marshalled to are bytes.
LEMMA EncTyped ==
  ASSUME NEW f \in Field
  PROVE  Enc(f) \in Seq(Byte) /\ Len(Enc(f)) \in Nat
BY EmptyIs, AppendedIs

\* marshal puts the field behind those that are there.
LEMMA LayoutAppend ==
  ASSUME NEW fs \in Seq(Field), NEW d \in Seq(Byte), NEW off, Layout(off, fs, d),
         NEW f \in Field, NEW d2, Behind(d, Enc(f), d2)
  PROVE  \E off2 : Layout(off2, Append(fs, f), d2)
<1>1. PICK n \in Nat, l \in Nat, m \in Nat, l2 \in Nat :
        n = Len(fs) /\ l = Len(d) /\ m = Len(Enc(f)) /\ l2 = Len(d2) /\ l2 = l + m
  BY EncTyped DEF Behind
<1>2. PICK gs : gs = Append(fs, f)
  OBVIOUS
<1>3. Len(gs) = n + 1 /\ gs[n + 1] = f /\ \A i \in 1..n : gs[i] = fs[i]
  BY <1>1, <1>2
<1>4. PICK off2 : off2 = [i \in 1..n + 2 |-> IF i <= n + 1 THEN off[i] ELSE l2]
  OBVIOUS
<1>5. off2[n + 2] = l2 /\ \A i \in 1..n + 1 : off2[i] = off[i]
  BY <1>1, <1>4
<1>6. /\ off[1] = HEADER_SIZE /\ off[n + 1] = l
      /\ \A i \in 1..n + 1 : off[i] \in 9..l
      /\ \A i \in 1..n : /\ off[i + 1] = off[i] + Len(Enc(fs[i]))
                         /\ \A k \in 1..Len(Enc(fs[i])) : d[off[i] + k] = Enc(fs[i])[k]
  BY <1>1 DEF Layout, HEADER_SIZE
<1>7. off2[1] = HEADER_SIZE
  BY <1>1, <1>5, <1>6
<1>8. HEADER_SIZE = 9
  BY DEF HEADER_SIZE
<1>9. ASSUME NEW i \in 1..n + 2 PROVE off2[i] \in HEADER_SIZE..l2
  <2>1. CASE i = n + 2
    <3>1. n + 1 \in 1..n + 1
      BY <1>1
    <3>2. l \in 9..l
      BY <1>6, <3>1
    <3>3. off2[i] = l2
      BY <1>5, <2>1
    <3>4. QED
      BY <1>1, <1>8, <3>2, <3>3
  <2>2. CASE i \in 1..n + 1
    <3>1. off2[i] \in 9..l
      BY <1>5, <1>6, <2>2
    <3>2. QED
      BY <1>1, <1>8, <3>1
  <2>3. QED
    BY <1>1, <2>1, <2>2
<1>10. ASSUME NEW i \in 1..n + 1
       PROVE  /\ off2[i + 1] = off2[i] + Len(Enc(gs[i]))
              /\ \A k \in 1..Len(Enc(gs[i])) : d2[off2[i] + k] = Enc(gs[i])[k]
  <2>1. CASE i = n + 1
    <3>1. gs[i] = f /\ off2[i] = l /\ off2[i + 1] = l2
      BY <1>1, <1>3, <1>5, <1>6, <2>1
    <3>2. \A k \in 1..m : d2[l + k] = Enc(f)[k]
      BY <1>1 DEF Behind
    <3>3. QED
      BY <1>1, <3>1, <3>2
  <2>2. CASE i \in 1..n
    <3>1. gs[i] = fs[i] /\ off2[i] = off[i] /\ off2[i + 1] = off[i + 1]
      <4>1. gs[i] = fs[i]
        BY <1>3, <2>2
      <4>2. PICK h \in 1..n + 1 : h = i + 1
        BY <1>1, <2>2
      <4>3. off2[i] = off[i] /\ off2[h] = off[h]
        BY <1>5
      <4>4. QED
        BY <4>1, <4>2, <4>3
    <3>2. PICK e \in Seq(Byte), j \in Nat : e = Enc(fs[i]) /\ j = Len(e)
      <4>1. fs[i] \in Field
        BY <1>1, <2>2, ElementOfSeq
      <4>2. QED
        BY <4>1, EncTyped
    <3>0. i \in 1..n + 1 /\ i + 1 \in 1..n + 1
      BY <1>1, <2>2
    <3>3. PICK o \in 9..l : o = off[i]
      BY <1>6, <3>0
    <3>4. PICK o2 \in 9..l : o2 = off[i + 1]
      BY <1>6, <3>0
    <3>5. o2 = o + j /\ \A k \in 1..j : d[o + k] = e[k]
      BY <1>6, <2>2, <3>2, <3>3, <3>4
    <3>6. ASSUME NEW k \in 1..j PROVE d2[o + k] = e[k]
      <4>1. o + k \in 1..l
        BY <3>5
      <4>2. d2[o + k] = d[o + k]
        BY <1>1, <4>1 DEF Behind
      <4>3. QED
        BY <3>5, <4>2
    <3>7. QED
      BY <3>1, <3>2, <3>3, <3>4, <3>5, <3>6
  <2>3. QED
    BY <1>1, <2>1, <2>2
<1>11. Len(gs) + 1 = n + 2
  BY <1>1, <1>3
<1>12. Layout(off2, gs, d2)
  BY <1>1, <1>3, <1>5, <1>7, <1>9, <1>10, <1>11 DEF Layout
<1>13. QED
  BY <1>2, <1>12

\* endPack writes only into the header.
LEMMA LayoutSame ==
  ASSUME NEW fs \in Seq(Field), NEW d \in Seq(Byte), NEW off, Layout(off, fs, d),
         NEW d2 \in Seq(Byte), Len(d2) = Len(d), \A k \in HEADER_SIZE + 1..Len(d) : d2[k] = d[k]
  PROVE  Layout(off, fs, d2)
<1>1. PICK n \in Nat, l \in Nat : n = Len(fs) /\ l = Len(d) /\ l = Len(d2)
  OBVIOUS
<1>2. /\ off[1] = HEADER_SIZE /\ off[n + 1] = l
      /\ \A i \in 1..n + 1 : off[i] \in 9..l
      /\ \A i \in 1..n : /\ off[i + 1] = off[i] + Len(Enc(fs[i]))
                         /\ \A k \in 1..Len(Enc(fs[i])) : d[off[i] + k] = Enc(fs[i])[k]
  BY <1>1 DEF Layout, HEADER_SIZE
<1>3. ASSUME NEW i \in 1..n, NEW k \in 1..Len(Enc(fs[i]))
      PROVE  d2[off[i] + k] = Enc(fs[i])[k]
  <2>1. PICK e \in Seq(Byte), j \in Nat : e = Enc(fs[i]) /\ j = Len(e)
    <3>1. fs[i] \in Field
      BY <1>1, ElementOfSeq
    <3>2. QED
      BY <3>1, EncTyped
  <2>2. HEADER_SIZE = 9
    BY DEF HEADER_SIZE
  <2>0. i \in 1..n + 1 /\ i + 1 \in 1..n + 1
    BY <1>1
  <2>3. PICK o \in 9..l : o = off[i]
    BY <1>2, <2>0
  <2>4. PICK o2 \in 9..l : o2 = off[i + 1]
    BY <1>2, <2>0
  <2>5. o2 = o + j /\ d[o + k] = e[k]
    BY <1>2, <2>1, <2>3, <2>4
  <2>6. o + k \in 9 + 1..l
    BY <2>1, <2>5
  <2>7. QED
    BY <1>1, <2>1, <2>2, <2>3, <2>5, <2>6
<1>4. QED
  BY <1>1, <1>2, <1>3 DEF Layout, HEADER_SIZE

\* An exception ends the message; after the sender it needs a frame that was cut short.
LEMMA Thrown ==
  ASSUME StreamInv, pc' = "throw", wire # <<>> => cut,
         UNCHANGED <<pb, written, session, wire, cut, up, got>>
  PROVE  StreamInv'
<1>1. Typed'
  BY DEF StreamInv, Typed
<1>2. Received'
  BY DEF StreamInv, Received
<1>3. Phases'
  BY DEF Phases
<1>4. Placed'
  <2>1. PICK off : Layout(off, written, pb.data)
    BY DEF StreamInv, Placed
  <2>2. Layout(off, written', pb'.data)
    BY <2>1
  <2>3. QED
    BY <2>2 DEF Placed
<1>5. QED
  BY <1>1, <1>2, <1>3, <1>4 DEF StreamInv

\* marshal.
LEMMA MarshalStream ==
  ASSUME StreamInv, NEW f \in Field, NEW mem \in BOOLEAN, Marshal(f, mem)
  PROVE  StreamInv'
<1>1. PICK r : r = Appended(pb, f, mem)
  OBVIOUS
<1>2. /\ pc = "write" /\ UNCHANGED <<session, wire, cut, up, header, got>>
      /\ \A i \in DOMAIN written : written[i].type # "json"
  BY DEF Marshal
<1>3. wire = <<>> /\ cut = FALSE /\ got = <<>>
  BY <1>2 DEF StreamInv, Phases
<1>4. CASE TooBig(f) \/ ~r.ok
  <2>1. pc' = "throw" /\ UNCHANGED <<pb, written>>
    BY <1>1, <1>4 DEF Marshal
  <2>2. QED
    BY <1>2, <1>3, <2>1, Thrown
<1>5. CASE ~(TooBig(f) \/ ~r.ok)
  <2>1. pb' = r.buf /\ written' = Append(written, f) /\ pc' = pc
    BY <1>1, <1>5 DEF Marshal
  <2>2. pb \in Buffers /\ BufferOK(pb) /\ written \in Seq(Field)
    BY DEF StreamInv, Typed
  <2>3. After(pb, Enc(f), r) /\ Enc(f) \in Seq(Byte)
    BY <1>1, <2>2, AppendedIs
  <2>4. r.buf \in Buffers /\ BufferOK(r.buf) /\ r.buf.data = pb.data \o Enc(f)
    BY <1>5, <2>3 DEF After
  <2>5. pb.data \in Seq(Byte)
    BY <2>2 DEF Buffers
  <2>6. Behind(pb.data, Enc(f), r.buf.data)
    BY <2>3, <2>4, <2>5, ConcatIs
  <2>7. PICK n \in Nat : n = Len(written)
    BY <2>2
  <2>8. /\ written' \in Seq(Field) /\ Len(written') = n + 1 /\ written'[n + 1] = f
        /\ \A i \in 1..n : written'[i] = written[i]
    BY <2>1, <2>2, <2>7
  <2>9. Typed'
    <3>1. ASSUME NEW i \in 1..n + 1 PROVE ~TooBig(written'[i])
      <4>1. CASE i = n + 1
        BY <1>5, <2>8, <4>1
      <4>2. CASE i \in 1..n
        BY <2>7, <2>8, <4>2 DEF StreamInv, Typed
      <4>3. QED
        BY <2>7, <4>1, <4>2
    <3>2. ASSUME NEW i \in 1..n + 1, written'[i].type = "json" PROVE i = n + 1
      <4>1. CASE i \in 1..n
        <5>1. i \in DOMAIN written
          BY <2>2, <2>7, <4>1
        <5>2. QED
          BY <1>2, <2>8, <3>2, <4>1, <5>1
      <4>2. QED
        BY <2>7, <4>1
    <3>3. session' \in 0..B4 - 1 /\ cut' \in BOOLEAN /\ got' \in Seq(Fields) /\ up' \in Seq(Byte)
      BY <1>2 DEF StreamInv, Typed
    <3>4. QED
      BY <1>2, <2>1, <2>4, <2>8, <3>1, <3>2, <3>3 DEF Typed
  <2>10. Received'
    BY <1>2, <1>3, <2>7, <2>8 DEF Received
  <2>11. Phases'
    BY <1>2, <1>3, <2>1 DEF Phases
  <2>12. Placed'
    <3>1. PICK off : Layout(off, written, pb.data)
      BY DEF StreamInv, Placed
    <3>2. PICK off2 : Layout(off2, Append(written, f), r.buf.data)
      BY <2>2, <2>5, <2>6, <3>1, LayoutAppend
    <3>3. Layout(off2, written', pb'.data)
      BY <2>1, <3>2
    <3>4. QED
      BY <1>2, <2>1, <3>3 DEF Placed
  <2>13. QED
    BY <2>9, <2>10, <2>11, <2>12 DEF StreamInv
<1>6. QED
  BY <1>4, <1>5

\* replaceUint, as a fact to cite for each of the three calls of endPack.
Rewritten(b, pos, s, r) ==
  r \in Buffers /\ BufferOK(r) /\ Overwritten(b.data, r.data, pos, s)

\* The header lies within the buffer, which keeps its length.
LEMMA ReplacedIs ==
  ASSUME NEW b \in Buffers, BufferOK(b), NEW pos \in Nat, NEW s \in Seq(Byte), Len(s) > 0,
         NEW l \in Nat, l = Len(b.data), pos + Len(s) <= l
  PROVE  Rewritten(b, pos, s, Replaced(b, pos, s))
<1>1. s # <<>>
  <2>1. Len(<<>>) = 0
    OBVIOUS
  <2>2. QED
    BY <2>1
<1>2. PICK r : r = Replaced(b, pos, s)
  OBVIOUS
<1>3. r \in Buffers /\ BufferOK(r) /\ Overwritten(b.data, r.data, pos, s)
  BY <1>1, <1>2, ReplaceIs
<1>4. QED
  BY <1>2, <1>3 DEF Rewritten

\* endPack: the header has the session id and the length, the rest stays.
LEMMA EndPackIs ==
  ASSUME NEW b \in Buffers, BufferOK(b), Len(b.data) >= HEADER_SIZE,
         NEW s \in 0..B4 - 1, NEW u \in Byte, NEW e, e = EndPack(b, s, u)
  PROVE  /\ e \in Buffers /\ BufferOK(e) /\ Len(e.data) = Len(b.data)
         /\ HeaderOf(e.data, s)
         /\ \A k \in HEADER_SIZE + 1..Len(b.data) : e.data[k] = b.data[k]
<1>1. PICK l \in Nat : l = Len(b.data) /\ l >= 9
  BY DEF Buffers, HEADER_SIZE
<1>2. PICK U4 : U4 = Uint(s, 4)
  OBVIOUS
<1>a. U4 \in Seq(Byte) /\ Len(U4) = 4
  BY <1>2, BaseTyped, UintTyped
<1>3. PICK U1 : U1 = Uint(u, 1)
  OBVIOUS
<1>b. U1 \in Seq(Byte) /\ Len(U1) = 1
  BY <1>3, BaseTyped, UintTyped DEF Byte
<1>d. PICK n : n = l - 8
  OBVIOUS
<1>4. n \in Nat /\ n = 1 + (l - HEADER_SIZE)
  BY <1>1, <1>d DEF HEADER_SIZE
<1>5. PICK UL : UL = Uint(n, 4)
  OBVIOUS
<1>c. UL \in Seq(Byte) /\ Len(UL) = 4
  BY <1>4, <1>5, UintTyped
<1>6. PICK b1 : b1 = Replaced(b, 0, U4)
  OBVIOUS
<1>7. PICK b2 : b2 = Replaced(b1, 8, U1)
  OBVIOUS
<1>8. PICK b3 : b3 = Replaced(b2, 4, UL)
  OBVIOUS
<1>9. e = b3
  BY <1>1, <1>2, <1>3, <1>4, <1>5, <1>6, <1>7, <1>8 DEF EndPack
<1>10. Len(U4) > 0 /\ Len(U1) > 0 /\ Len(UL) > 0
  BY <1>a, <1>b, <1>c
<1>11. b1 \in Buffers /\ BufferOK(b1) /\ Overwritten(b.data, b1.data, 0, U4)
  <2>1. 0 + Len(U4) <= l
    BY <1>1, <1>a
  <2>2. Rewritten(b, 0, U4, b1)
    BY <1>1, <1>6, <1>a, <1>10, <2>1, ReplacedIs
  <2>3. QED
    BY <2>2 DEF Rewritten
<1>12. Len(b1.data) = l
  BY <1>1, <1>11 DEF Overwritten
<1>13. b2 \in Buffers /\ BufferOK(b2) /\ Overwritten(b1.data, b2.data, 8, U1)
  <2>1. 8 + Len(U1) <= l
    BY <1>1, <1>b
  <2>2. Rewritten(b1, 8, U1, b2)
    BY <1>7, <1>b, <1>10, <1>11, <1>12, <2>1, ReplacedIs
  <2>3. QED
    BY <2>2 DEF Rewritten
<1>14. Len(b2.data) = l
  BY <1>12, <1>13 DEF Overwritten
<1>15. b3 \in Buffers /\ BufferOK(b3) /\ Overwritten(b2.data, b3.data, 4, UL)
  <2>1. 4 + Len(UL) <= l
    BY <1>1, <1>c
  <2>2. Rewritten(b2, 4, UL, b3)
    BY <1>8, <1>c, <1>10, <1>13, <1>14, <2>1, ReplacedIs
  <2>3. QED
    BY <2>2 DEF Rewritten
<1>16. Len(b3.data) = l
  BY <1>14, <1>15 DEF Overwritten
<1>17. PICK d, d1, d2, d3 : d = b.data /\ d1 = b1.data /\ d2 = b2.data /\ d3 = b3.data
  OBVIOUS
<1>18. \A k \in 1..l : d1[k] = IF k \in 0 + 1..0 + 4 THEN U4[k - 0] ELSE d[k]
  BY <1>1, <1>a, <1>11, <1>17 DEF Overwritten
<1>19. \A k \in 1..l : d2[k] = IF k \in 8 + 1..8 + 1 THEN U1[k - 8] ELSE d1[k]
  BY <1>b, <1>12, <1>13, <1>17 DEF Overwritten
<1>20. \A k \in 1..l : d3[k] = IF k \in 4 + 1..4 + 4 THEN UL[k - 4] ELSE d2[k]
  BY <1>c, <1>14, <1>15, <1>17 DEF Overwritten
<1>21. ASSUME NEW k \in 1..4 PROVE d3[k] = U4[k] /\ d3[k + 4] = UL[k]
  <2>1. k \in 1..l /\ k + 4 \in 1..l
    BY <1>1
  <2>2. k \notin 4 + 1..4 + 4 /\ k \notin 8 + 1..8 + 1 /\ k \in 0 + 1..0 + 4 /\ k - 0 = k
    OBVIOUS
  <2>3. d3[k] = d2[k] /\ d2[k] = d1[k] /\ d1[k] = U4[k]
    BY <1>18, <1>19, <1>20, <2>1, <2>2
  <2>4. k + 4 \in 4 + 1..4 + 4 /\ (k + 4) - 4 = k
    OBVIOUS
  <2>5. d3[k + 4] = UL[k]
    BY <1>20, <2>1, <2>4
  <2>6. QED
    BY <2>3, <2>5
<1>22. ASSUME NEW k \in 10..l PROVE d3[k] = d[k]
  <2>1. k \in 1..l /\ k \notin 4 + 1..4 + 4 /\ k \notin 8 + 1..8 + 1 /\ k \notin 0 + 1..0 + 4
    BY <1>1
  <2>2. QED
    BY <1>18, <1>19, <1>20, <2>1
<1>23. HeaderOf(d3, s)
  <2>1. Len(d3) - JSON_HEADER_SIZE = n
    BY <1>d, <1>16, <1>17 DEF JSON_HEADER_SIZE
  <2>2. QED
    BY <1>2, <1>5, <1>21, <2>1 DEF HeaderOf
<1>24. HEADER_SIZE + 1 = 10
  BY DEF HEADER_SIZE
<1>25. QED
  BY <1>1, <1>9, <1>15, <1>16, <1>17, <1>22, <1>23, <1>24

\* The header is there as soon as there is a buffer.
LEMMA HasHeader ==
  ASSUME StreamInv
  PROVE  Len(pb.data) \in Nat /\ Len(pb.data) >= HEADER_SIZE
<1>1. PICK off : Layout(off, written, pb.data)
  BY DEF StreamInv, Placed
<1>2. PICK l \in Nat, n \in Nat : l = Len(pb.data) /\ n = Len(written)
  BY DEF StreamInv, Typed, Buffers
<1>3. 1 \in 1..n + 1
  BY <1>2
<1>4. off[1] \in 9..l
  BY <1>1, <1>2, <1>3 DEF Layout, HEADER_SIZE
<1>5. QED
  BY <1>2, <1>4 DEF HEADER_SIZE

\* endPack, called once or twice.
LEMMA PackStream ==
  ASSUME StreamInv, NEW s \in Session, NEW u \in Uri, Pack(s, u)
  PROVE  StreamInv'
<1>1. /\ pc \in {"write", "packed"} /\ pb' = EndPack(pb, s, u) /\ session' = s /\ pc' = "packed"
      /\ UNCHANGED <<written, wire, cut, up, header, got>>
  BY DEF Pack
<1>2. s \in 0..B4 - 1 /\ u \in Byte
  BY ByteStreamAssumption DEF Byte
<1>3. pb \in Buffers /\ BufferOK(pb) /\ written \in Seq(Field)
  BY DEF StreamInv, Typed
<1>4. /\ pb' \in Buffers /\ BufferOK(pb') /\ Len(pb'.data) = Len(pb.data)
      /\ HeaderOf(pb'.data, s)
      /\ \A k \in HEADER_SIZE + 1..Len(pb.data) : pb'.data[k] = pb.data[k]
  BY <1>1, <1>2, <1>3, HasHeader, EndPackIs
<1>5. Typed'
  BY <1>1, <1>2, <1>4 DEF StreamInv, Typed
<1>6. Received'
  BY <1>1 DEF StreamInv, Received
<1>7. Phases'
  BY <1>1, <1>4 DEF StreamInv, Phases
<1>8. Placed'
  <2>1. PICK off : Layout(off, written, pb.data)
    BY DEF StreamInv, Placed
  <2>2. pb.data \in Seq(Byte) /\ pb'.data \in Seq(Byte)
    BY <1>3, <1>4 DEF Buffers
  <2>3. PICK d2 \in Seq(Byte) : d2 = pb'.data
    BY <2>2
  <2>4. Layout(off, written, d2)
    BY <1>3, <1>4, <2>1, <2>2, <2>3, LayoutSame
  <2>5. Layout(off, written', pb'.data)
    BY <1>1, <2>3, <2>4
  <2>6. QED
    BY <1>1, <2>5 DEF Placed
<1>9. QED
  BY <1>5, <1>6, <1>7, <1>8 DEF StreamInv

\* A frame whose length says less than the sender wrote.
LEMMA ShortFrame ==
  ASSUME NEW d \in Seq(Byte), NEW l \in Nat, l = Len(d), NEW n \in Nat, n + 8 < l,
         NEW s, HeaderOf(d, s),
         NEW w, w = SubSeq(d, 1, 4) \o Uint(n, 4) \o SubSeq(d, 9, 8 + n)
  PROVE  Frame(w, d, s, TRUE) /\ HeaderOf(w, s)
<1>1. PICK A : A = Cut(d, 0, 4)
  OBVIOUS
<1>2. PICK B : B = Uint(n, 4)
  OBVIOUS
<1>3. PICK C : C = Cut(d, 8, 8 + n)
  OBVIOUS
<1>4. w = (A \o B) \o C
  <2>1. 0 + 1 = 1 /\ 8 + 1 = 9
    OBVIOUS
  <2>2. QED
    BY <1>1, <1>2, <1>3, <2>1 DEF Cut
<1>5. A \in Seq(Byte) /\ Len(A) = 4 /\ \A k \in 1..4 : A[k] = d[k]
  <2>1. Part(d, 0, 4, A)
    BY <1>1, PartIs
  <2>2. QED
    BY <2>1 DEF Part
<1>6. B \in Seq(Byte) /\ Len(B) = 4
  BY <1>2, UintTyped
<1>7. C \in Seq(Byte) /\ Len(C) = n /\ \A k \in 1..n : C[k] = d[8 + k]
  <2>1. 8 + n \in Nat /\ 8 <= 8 + n /\ 8 + n <= Len(d)
    OBVIOUS
  <2>2. Part(d, 8, 8 + n, C)
    BY <1>3, <2>1, PartIs
  <2>3. (8 + n) - 8 = n
    OBVIOUS
  <2>4. QED
    BY <2>2, <2>3 DEF Part
<1>8. PICK H : H = A \o B
  OBVIOUS
<1>9. Behind(A, B, H)
  BY <1>5, <1>6, <1>8, ConcatIs
<1>10. /\ H \in Seq(Byte) /\ Len(H) = 8 /\ \A k \in 1..4 : H[k] = A[k]
       /\ \A k \in 1..4 : H[4 + k] = B[k]
  BY <1>5, <1>6, <1>9 DEF Behind
<1>11. Behind(H, C, w)
  BY <1>4, <1>7, <1>8, <1>10, ConcatIs
<1>12. /\ w \in Seq(Byte) /\ Len(w) = 8 + n /\ \A k \in 1..8 : w[k] = H[k]
       /\ \A k \in 1..n : w[8 + k] = C[k]
  BY <1>7, <1>10, <1>11 DEF Behind
<1>13. ASSUME NEW k \in 1..4 PROVE w[k] = Uint(s, 4)[k] /\ w[k + 4] = Uint(n, 4)[k]
  <2>1. k \in 1..8 /\ k + 4 \in 1..8 /\ k + 4 = 4 + k
    OBVIOUS
  <2>2. d[k] = Uint(s, 4)[k]
    BY DEF HeaderOf
  <2>3. w[k] = H[k] /\ H[k] = A[k] /\ A[k] = d[k]
    BY <1>5, <1>10, <1>12, <2>1
  <2>4. w[k + 4] = H[k + 4]
    BY <1>12, <2>1
  <2>5. H[k + 4] = B[k]
    BY <1>10, <2>1
  <2>6. QED
    BY <1>2, <2>2, <2>3, <2>4, <2>5
<1>14. HeaderOf(w, s)
  <2>1. Len(w) - JSON_HEADER_SIZE = n
    BY <1>12 DEF JSON_HEADER_SIZE
  <2>2. QED
    BY <1>13, <2>1 DEF HeaderOf
<1>15. ASSUME NEW k \in 9..8 + n PROVE w[k] = d[k]
  <2>1. PICK j \in 1..n : k = 8 + j
    <3>1. k - 8 \in 1..n /\ k = 8 + (k - 8)
      OBVIOUS
    <3>2. QED
      BY <3>1
  <2>2. QED
    BY <1>7, <1>12, <2>1
<1>16. Len(w) \in 8..l /\ Len(w) < l
  BY <1>12
<1>17. QED
  BY <1>12, <1>14, <1>15, <1>16 DEF Frame, HeaderOf, JSON_HEADER_SIZE, HEADER_SIZE

\* The frame arrives as it was packed.
LEMMA WholeFrame ==
  ASSUME NEW d \in Seq(Byte), NEW l \in Nat, l = Len(d), l >= 9, NEW s, HeaderOf(d, s)
  PROVE  Frame(d, d, s, FALSE)
<1>1. l \in 8..l /\ ~(l < l)
  OBVIOUS
<1>2. QED
  BY <1>1 DEF Frame, HeaderOf, JSON_HEADER_SIZE

\* The bytes of a frame on their way.
LEMMA TransmitStream ==
  ASSUME StreamInv, NEW n \in 0..maxsize, Transmit(n)
  PROVE  StreamInv'
<1>1. pc = "packed" /\ pc' = "wire" /\ UNCHANGED <<pb, written, session, up, header, got>>
  BY DEF Transmit
<1>2. PICK d : d = pb.data
  OBVIOUS
<1>3. PICK l \in Nat : l = Len(d) /\ l >= 9
  BY <1>2, HasHeader DEF HEADER_SIZE
<1>4. d \in Seq(Byte)
  BY <1>2 DEF StreamInv, Typed, Buffers
<1>5. HeaderOf(d, session) /\ got = <<>>
  BY <1>1, <1>2 DEF StreamInv, Phases
<1>6. n \in Nat /\ n <= l - 8
  BY <1>2, <1>3 DEF Transmit, JSON_HEADER_SIZE
<1>7. Frame(wire', d, session, cut') /\ HeaderOf(wire', session) /\ cut' \in BOOLEAN
  <2>1. CASE n = l - 8
    <3>1. wire' = d /\ cut' = (n < l - 8)
      BY <1>2, <1>3, <2>1 DEF Transmit, JSON_HEADER_SIZE
    <3>0. (n < l - 8) = FALSE
      BY <1>3, <1>6, <2>1
    <3>2. cut' = FALSE
      BY <3>0, <3>1
    <3>3. QED
      BY <1>3, <1>4, <1>5, <3>1, <3>2, WholeFrame
  <2>2. CASE n # l - 8
    <3>1. /\ wire' = SubSeq(d, 1, 4) \o Uint(n, 4) \o SubSeq(d, 9, 8 + n)
          /\ cut' = (n < l - 8)
      BY <1>2, <1>3, <2>2 DEF Transmit, JSON_HEADER_SIZE
    <3>0. (n < l - 8) = TRUE
      BY <1>3, <1>6, <2>2
    <3>2. cut' = TRUE
      BY <3>0, <3>1
    <3>3. n + 8 < l
      BY <1>3, <1>6, <2>2
    <3>4. PICK w : w = wire'
      OBVIOUS
    <3>5. Frame(w, d, session, TRUE) /\ HeaderOf(w, session)
      BY <1>3, <1>4, <1>5, <1>6, <3>1, <3>3, <3>4, ShortFrame
    <3>6. QED
      BY <3>2, <3>4, <3>5
  <2>3. QED
    BY <2>1, <2>2
<1>8. Typed'
  BY <1>1, <1>7 DEF StreamInv, Typed
<1>9. Received'
  <2>1. Len(got) = 0
    BY <1>5
  <2>2. Len(written) \in Nat
    BY DEF StreamInv, Typed
  <2>3. QED
    BY <1>1, <2>1, <2>2 DEF Received
<1>10. Phases'
  BY <1>1, <1>2, <1>5, <1>7 DEF Phases
<1>11. Placed'
  <2>1. PICK off : Layout(off, written, pb.data)
    BY DEF StreamInv, Placed
  <2>2. Layout(off, written', pb'.data)
    BY <1>1, <2>1
  <2>3. QED
    BY <1>1, <2>2 DEF Placed
<1>12. QED
  BY <1>8, <1>9, <1>10, <1>11 DEF StreamInv

-----------------------------------------------------------------------------
(* Steps of the receiver *)

\* A part that is everything.
LEMMA CutAll ==
  ASSUME NEW w \in Seq(Byte), NEW l \in Nat, l = Len(w)
  PROVE  SubSeq(w, 1, l) = w
<1>1. PICK u : u = Cut(w, 0, l)
  OBVIOUS
<1>2. Part(w, 0, l, u)
  BY <1>1, PartIs
<1>3. u \in Seq(Byte) /\ Len(u) = l /\ \A k \in 1..l : u[k] = w[k]
  <2>1. l - 0 = l /\ \A k \in 1..l : 0 + k = k
    OBVIOUS
  <2>2. QED
    BY <1>2, <2>1 DEF Part
<1>4. u = w
  BY <1>3, SeqEqual
<1>5. QED
  <2>1. 0 + 1 = 1
    OBVIOUS
  <2>2. QED
    BY <1>1, <1>4, <2>1 DEF Cut

\* The length that onData reads is that of what follows the first eight bytes.
LEMMA LengthBack ==
  ASSUME NEW w, NEW d, NEW s, NEW c, Frame(w, d, s, c), HeaderOf(w, s), NEW l \in Nat, l = Len(w),
         NEW m \in Nat, m = Len(d), m < B4
  PROVE  l >= 8 /\ l <= m /\ ReadUint(SubSeq(w, 5, 8), 4) = l - 8
<1>1. l \in 8..m /\ w \in Seq(Byte) /\ HeaderOf(w, s)
  BY DEF Frame, JSON_HEADER_SIZE
<1>2. PICK t : t = Cut(w, 4, 8)
  OBVIOUS
<1>3. Part(w, 4, 8, t)
  BY <1>1, <1>2, PartIs
<1>4. \A k \in 1..4 : t[k] = w[4 + k]
  <2>1. 8 - 4 = 4
    OBVIOUS
  <2>2. QED
    BY <1>3, <2>1 DEF Part
<1>5. PICK n : n = l - 8
  OBVIOUS
<1>6. n \in Numbers(4)
  <2>1. B4 \in Nat
    BY BaseTyped
  <2>2. n \in 0..B4 - 1
    BY <1>1, <1>5, <2>1
  <2>3. QED
    BY <2>2 DEF Numbers
<1>7. ASSUME NEW k \in 1..4 PROVE t[k] = Uint(n, 4)[k]
  <2>1. w[k + 4] = Uint(n, 4)[k]
    BY <1>1, <1>5 DEF HeaderOf, JSON_HEADER_SIZE
  <2>2. k + 4 = 4 + k
    OBVIOUS
  <2>3. QED
    BY <1>4, <2>1, <2>2
<1>8. ReadUint(t, 4) = n
  BY <1>6, <1>7, UintBack
<1>9. SubSeq(w, 5, 8) = t
  <2>1. 4 + 1 = 5
    OBVIOUS
  <2>2. QED
    BY <1>2, <2>1 DEF Cut
<1>10. l >= 8 /\ l <= m
  BY <1>1
<1>11. ReadUint(SubSeq(w, 5, 8), 4) = l - 8
  BY <1>5, <1>8, <1>9
<1>12. QED
  BY <1>10, <1>11

\* The start of a frame that ends before it, with the first n bytes behind the length.
LEMMA FrameStart ==
  ASSUME NEW w, NEW d, NEW s, NEW c, Frame(w, d, s, c), NEW l \in Nat, l = Len(w),
         NEW m \in Nat, m = Len(d), NEW n \in Nat, n + 8 < l, NEW u, u = SubSeq(w, 1, n + 8)
  PROVE  Frame(u, d, s, TRUE)
<1>1. l \in 8..m /\ w \in Seq(Byte)
  BY DEF Frame, JSON_HEADER_SIZE
<1>2. PICK v : v = Cut(w, 0, n + 8)
  OBVIOUS
<1>3. Part(w, 0, n + 8, v)
  BY <1>1, <1>2, PartIs
<1>4. v \in Seq(Byte) /\ Len(v) = n + 8 /\ \A k \in 1..n + 8 : v[k] = w[k]
  <2>1. (n + 8) - 0 = n + 8 /\ \A k \in 1..n + 8 : 0 + k = k
    OBVIOUS
  <2>2. QED
    BY <1>3, <2>1 DEF Part
<1>5. u = v
  <2>1. 0 + 1 = 1
    OBVIOUS
  <2>2. QED
    BY <1>2, <2>1 DEF Cut
<1>6. n + 8 \in 8..m /\ TRUE = (n + 8 < m)
  BY <1>1
<1>7. \A k \in 1..4 : v[k] = Uint(s, 4)[k]
  <2>1. \A k \in 1..4 : k \in 1..n + 8
    OBVIOUS
  <2>2. QED
    BY <1>4, <2>1 DEF Frame
<1>8. \A k \in 9..n + 8 : v[k] = d[k]
  <2>1. \A k \in 9..n + 8 : k \in 1..n + 8 /\ k \in 9..l
    OBVIOUS
  <2>2. QED
    BY <1>4, <2>1 DEF Frame, HEADER_SIZE
<1>9. QED
  BY <1>4, <1>5, <1>6, <1>7, <1>8 DEF Frame, JSON_HEADER_SIZE, HEADER_SIZE

\* getProtoType on a length n that the buffer allows: PROTO_JSON leaves it as it is, any
\* other protocol makes it shorter.
LEMMA ProtoOfLength ==
  ASSUME NEW n \in Nat, NEW p \in Nat \ {0}
  PROVE  /\ n < p => n \div p = 0 /\ n % p = n
         /\ ~(n < p) => n \div p # 0 /\ n % p \in Nat /\ n % p < n
<1>1. n < p => n \div p = 0 /\ n % p = n
  OBVIOUS
<1>2. ASSUME ~(n < p) PROVE n \div p # 0 /\ n % p \in Nat /\ n % p < n
  <2>1. PICK q \in Int, r \in 0..p - 1 : q = n \div p /\ r = n % p /\ n = p * q + r
    OBVIOUS
  <2>2. r < p /\ r < n
    BY <1>2, <2>1
  <2>3. q # 0
    <3>1. SUFFICES ASSUME q = 0 PROVE FALSE
      OBVIOUS
    <3>2. p * q = 0
      BY <3>1
    <3>3. QED
      BY <2>1, <2>2, <3>2
  <2>4. QED
    BY <2>1, <2>2, <2>3
<1>3. QED
  BY <1>1, <1>2

\* onData.
LEMMA OnDataStream ==
  ASSUME StreamInv, OnData
  PROVE  StreamInv'
<1>1. pc = "wire" /\ pc' = "header" /\ UNCHANGED <<pb, written, session, header, got>>
  BY DEF OnData
<1>2. /\ Frame(wire, pb.data, session, cut) /\ HeaderOf(wire, session) /\ got = <<>>
      /\ cut \in BOOLEAN
  BY <1>1 DEF StreamInv, Phases, Typed
<1>3. PICK w \in Seq(Byte), l \in Nat : w = wire /\ l = Len(w)
  BY <1>2 DEF Frame
<1>4. /\ Len(pb.data) \in Nat /\ Len(pb.data) <= 2 * ProtoShift /\ Len(pb.data) < B4
      /\ ProtoShift \in Nat \ {0} /\ ProtoShift < B4 /\ B4 \in Nat
  BY Bounded DEF StreamInv, Typed
<1>5. PICK m \in Nat, p \in Nat \ {0} : m = Len(pb.data) /\ p = ProtoShift /\ m < B4
  BY <1>4
<1>6. l >= 8 /\ l <= m /\ ReadUint(SubSeq(w, 5, 8), 4) = l - 8
  BY <1>2, <1>3, <1>5, LengthBack
<1>7. PICK n \in Nat : n = l - 8
  BY <1>6
<1>8. /\ wire' = SubSeq(w, 1, (n % p) + 8) /\ up' = wire'
      /\ cut' = (cut \/ n \div p # 0)
  BY <1>1, <1>3, <1>5, <1>6, <1>7 DEF OnData, GetProtoType, JSON_HEADER_SIZE, PROTO_JSON
<1>9. Frame(wire', pb.data, session, cut') /\ cut' \in BOOLEAN
  <2>1. CASE n < p
    <3>1. n % p = n /\ n \div p = 0 /\ n + 8 = l
      BY <1>7, <2>1, ProtoOfLength
    <3>2. wire' = w /\ cut' = cut
      BY <1>2, <1>3, <1>8, <3>1, CutAll
    <3>3. QED
      BY <1>2, <1>3, <3>2
  <2>2. CASE ~(n < p)
    <3>1. PICK r \in Nat : r = n % p /\ r < n /\ n \div p # 0
      BY <2>2, ProtoOfLength
    <3>2. cut' = TRUE
      BY <1>8, <3>1
    <3>3. r + 8 < l
      BY <1>7, <3>1
    <3>4. PICK u : u = SubSeq(w, 1, r + 8)
      OBVIOUS
    <3>5. Frame(u, pb.data, session, TRUE)
      BY <1>2, <1>3, <1>5, <3>3, <3>4, FrameStart
    <3>6. QED
      BY <1>8, <3>1, <3>2, <3>4, <3>5
  <2>3. QED
    BY <2>1, <2>2
<1>10. PICK u \in Seq(Byte) : u = wire'
  BY <1>9 DEF Frame
<1>11. up' = wire' /\ up' \in Seq(Byte)
  BY <1>8, <1>10
<1>12. Typed'
  BY <1>1, <1>9, <1>11 DEF StreamInv, Typed
<1>13. Received'
  <2>1. Len(got) = 0
    BY <1>2
  <2>2. Len(written) \in Nat
    BY DEF StreamInv, Typed
  <2>3. QED
    BY <1>1, <2>1, <2>2 DEF Received
<1>14. Phases'
  BY <1>1, <1>2, <1>9, <1>11 DEF Phases
<1>15. Placed'
  <2>1. PICK off : Layout(off, written, pb.data)
    BY DEF StreamInv, Placed
  <2>2. Layout(off, written', pb'.data)
    BY <1>1, <2>1
  <2>3. QED
    BY <1>1, <2>2 DEF Placed
<1>16. QED
  BY <1>12, <1>13, <1>14, <1>15 DEF StreamInv

\* What is left of a stream behind its first a bytes.
LEMMA RestIs ==
  ASSUME NEW s \in Seq(Byte), NEW l \in Nat, l = Len(s), NEW a \in 0..l
  PROVE  /\ SubSeq(s, a + 1, l) \in Seq(Byte) /\ Len(SubSeq(s, a + 1, l)) = l - a
         /\ \A k \in 1..l - a : SubSeq(s, a + 1, l)[k] = s[a + k]
<1>1. PICK u : u = Cut(s, a, l)
  OBVIOUS
<1>2. Part(s, a, l, u)
  BY <1>1, PartIs
<1>3. QED
  BY <1>1, <1>2 DEF Part, Cut

\* popHeader: only a frame that was cut short has no uri.
LEMMA PopHeaderStream ==
  ASSUME StreamInv, PopHeader
  PROVE  StreamInv'
<1>1. pc = "header" /\ UNCHANGED <<pb, written, session, wire, cut, got>>
  BY DEF PopHeader
<1>2. Frame(wire, pb.data, session, cut) /\ got = <<>> /\ up = wire
  BY <1>1 DEF StreamInv, Phases
<1>3. PICK w \in Seq(Byte), l \in Nat : w = wire /\ l = Len(w)
  BY <1>2 DEF Frame
<1>4. PICK m \in Nat : m = Len(pb.data) /\ m >= 9
  BY HasHeader DEF HEADER_SIZE
<1>5. cut = (l < m)
  BY <1>2, <1>3, <1>4 DEF Frame
<1>6. CASE l < 9
  <2>1. pc' = "throw" /\ UNCHANGED <<up, header>>
    BY <1>2, <1>3, <1>6 DEF PopHeader, HEADER_SIZE
  <2>2. l < m
    BY <1>3, <1>4, <1>6
  <2>3. cut
    BY <1>5, <2>2
  <2>4. QED
    BY <1>1, <2>1, <2>3, Thrown
<1>7. CASE ~(l < 9)
  <2>1. /\ header' = [sessionId |-> ReadUint(w, 4), len |-> ReadUint(SubSeq(w, 5, 8), 4),
                      uri |-> w[9]]
        /\ up' = SubSeq(w, 9 + 1, l) /\ pc' = "read"
    BY <1>2, <1>3, <1>7 DEF PopHeader, HEADER_SIZE
  <2>2. header'.sessionId = session
    <3>1. \A k \in 1..4 : w[k] = Uint(session, 4)[k]
      BY <1>2, <1>3 DEF Frame
    <3>2. session \in Numbers(4)
      BY DEF StreamInv, Typed, Numbers
    <3>3. ReadUint(w, 4) = session
      BY <3>1, <3>2, UintBack
    <3>4. QED
      BY <2>1, <3>3
  <2>3. 9 \in 0..l
    BY <1>7
  <2>4. PICK v : v = up'
    OBVIOUS
  <2>5. v \in Seq(Byte) /\ Len(v) = l - 9 /\ \A k \in 1..l - 9 : v[k] = w[9 + k]
    BY <1>3, <2>1, <2>3, <2>4, RestIs
  <2>6. Typed'
    BY <1>1, <2>1, <2>4, <2>5 DEF StreamInv, Typed
  <2>7. Received'
    BY <1>1 DEF StreamInv, Received
  <2>8. Phases'
    BY <1>1, <1>2, <2>1, <2>2 DEF Phases
  <2>9. Placed'
    <3>1. PICK off : Layout(off, written, pb.data)
      BY DEF StreamInv, Placed
    <3>2. Layout(off, written', pb'.data)
      BY <1>1, <3>1
    <3>3. off[1] = 9
      BY <3>1 DEF Layout, HEADER_SIZE
    <3>4. Len(got') + 1 = 1
      BY <1>1, <1>2
    <3>5. off[Len(got') + 1] = 9
      BY <3>3, <3>4
    <3>6. 9 <= Len(wire') /\ Len(up') = Len(wire') - 9
      BY <1>1, <1>3, <1>7, <2>4, <2>5
    <3>7. \A k \in 1..Len(up') : up'[k] = wire'[9 + k]
      BY <1>1, <1>3, <2>4, <2>5
    <3>8. Reading(off)'
      BY <3>5, <3>6, <3>7 DEF Reading
    <3>9. QED
      BY <3>2, <3>8 DEF Placed
  <2>10. QED
    BY <2>6, <2>7, <2>8, <2>9 DEF StreamInv
<1>8. QED
  BY <1>6, <1>7

\* The reader, its next field and the bytes of that field in the buffer.
AtField(off, i, f, o, j, l, m) ==
  /\ i \in Nat /\ o \in Nat /\ j \in Nat /\ l \in Nat /\ m \in Nat
  /\ i = Len(got) + 1 /\ i \in 1..Len(written) /\ f = written[i] /\ f \in Field /\ ~TooBig(f)
  /\ l = Len(wire) /\ m = Len(pb.data) /\ cut = (l < m) /\ l <= m /\ m < B4
  /\ o = off[i] /\ o <= l /\ j = Len(Enc(f)) /\ off[i + 1] = o + j /\ o + j <= m
  /\ up \in Seq(Byte) /\ Len(up) = l - o /\ \A k \in 1..l - o : up[k] = wire[o + k]
  /\ Agrees(up, Enc(f))

\* unmarshal finds the bytes of the next field at the front of the stream, as far as they
\* arrived.
LEMMA NextField ==
  ASSUME StreamInv, pc = "read", Len(got) < Len(written),
         NEW off, Layout(off, written, pb.data), Reading(off)
  PROVE  \E i, f, o, j, l, m : AtField(off, i, f, o, j, l, m)
<1>1. PICK g \in Nat, n \in Nat : g = Len(got) /\ n = Len(written) /\ g < n
  BY DEF StreamInv, Typed
<1>2. PICK i \in Nat : i = g + 1
  OBVIOUS
<1>3. i \in 1..n /\ i \in 1..n + 1 /\ i + 1 \in 1..n + 1
  BY <1>1, <1>2
<1>4. PICK f : f = written[i]
  OBVIOUS
<1>5. f \in Field /\ ~TooBig(f)
  <2>1. written \in Seq(Field) /\ \A k \in 1..n : ~TooBig(written[k])
    BY <1>1 DEF StreamInv, Typed
  <2>2. QED
    BY <1>1, <1>3, <1>4, <2>1, ElementOfSeq
<1>6. PICK e \in Seq(Byte), j \in Nat : e = Enc(f) /\ j = Len(e)
  BY <1>5, EncTyped
<1>7. Frame(wire, pb.data, session, cut)
  BY DEF StreamInv, Phases
<1>8. PICK m \in Nat : m = Len(pb.data) /\ m < B4
  <2>1. /\ Len(pb.data) \in Nat /\ Len(pb.data) <= 2 * ProtoShift /\ Len(pb.data) < B4
        /\ ProtoShift \in Nat \ {0} /\ ProtoShift < B4 /\ B4 \in Nat
    BY Bounded DEF StreamInv, Typed
  <2>2. QED
    BY <2>1
<1>9. PICK l \in Nat : l = Len(wire) /\ l <= m /\ cut = (l < m)
  BY <1>7, <1>8 DEF Frame
<1>10. \A k \in 9..l : wire[k] = pb.data[k]
  BY <1>7, <1>9 DEF Frame, HEADER_SIZE
<1>11. /\ \A k \in 1..n + 1 : off[k] \in 9..m
       /\ \A k \in 1..n : /\ off[k + 1] = off[k] + Len(Enc(written[k]))
                          /\ \A h \in 1..Len(Enc(written[k])) :
                               pb.data[off[k] + h] = Enc(written[k])[h]
  BY <1>1, <1>8 DEF Layout, HEADER_SIZE
<1>12. PICK o \in 9..m : o = off[i]
  BY <1>3, <1>11
<1>13. PICK o2 \in 9..m : o2 = off[i + 1]
  BY <1>3, <1>11
<1>14. o2 = o + j /\ \A h \in 1..j : pb.data[o + h] = e[h]
  BY <1>3, <1>4, <1>6, <1>11, <1>12, <1>13
<1>15. o <= l /\ Len(up) = l - o /\ \A k \in 1..l - o : up[k] = wire[o + k]
  <2>1. Len(got) + 1 = i /\ Len(got) # Len(written)
    BY <1>1, <1>2
  <2>2. o <= Len(wire) /\ Len(up) = Len(wire) - o /\ \A k \in 1..Len(up) : up[k] = wire[o + k]
    BY <1>12, <2>1 DEF Reading
  <2>3. QED
    BY <1>9, <2>2
<1>16. ASSUME NEW k \in 1..Len(e), k <= Len(up) PROVE up[k] = e[k]
  <2>1. k \in 1..j /\ k \in 1..l - o
    BY <1>6, <1>9, <1>12, <1>15, <1>16
  <2>2. o + k \in 9..l
    BY <1>9, <1>12, <2>1
  <2>3. up[k] = wire[o + k] /\ wire[o + k] = pb.data[o + k] /\ pb.data[o + k] = e[k]
    BY <1>10, <1>14, <1>15, <2>1, <2>2
  <2>4. QED
    BY <2>3
<1>17. Agrees(up, e)
  BY <1>16 DEF Agrees
<1>18. up \in Seq(Byte)
  BY DEF StreamInv, Typed
<1>19. o \in Nat /\ o + j <= m /\ i = Len(got) + 1 /\ i \in 1..Len(written)
  BY <1>1, <1>2, <1>3, <1>12, <1>13, <1>14
<1>20. AtField(off, i, f, o, j, l, m)
  BY <1>4, <1>5, <1>6, <1>8, <1>9, <1>12, <1>13, <1>14, <1>15, <1>17, <1>18, <1>19 DEF AtField
<1>21. QED
  BY <1>20

\* unmarshal and what it leaves: the reader is at the following field.
LEMMA Advances ==
  ASSUME StreamInv, pc = "read", pc' = pc, UNCHANGED <<pb, written, session, wire, cut, header>>,
         NEW off, Layout(off, written, pb.data), NEW i, NEW f, NEW o, NEW j, NEW l, NEW m,
         AtField(off, i, f, o, j, l, m),
         NEW x \in Fields, got' = Append(got, x), x = f \/ (cut /\ f.type = "json"),
         up' \in Seq(Byte), Reading(off)'
  PROVE  StreamInv'
<1>1. PICK g \in Nat : g = Len(got) /\ got \in Seq(Fields)
  BY DEF StreamInv, Typed
<1>2. /\ got' \in Seq(Fields) /\ Len(got') = g + 1 /\ got'[g + 1] = x
      /\ \A k \in 1..g : got'[k] = got[k]
  BY <1>1
<1>3. i = g + 1 /\ i \in 1..Len(written) /\ f = written[i]
  BY <1>1 DEF AtField
<1>4. Typed'
  BY <1>2 DEF StreamInv, Typed
<1>5. Received'
  <2>1. g + 1 <= Len(written)
    <3>1. Len(written) \in Nat
      BY DEF StreamInv, Typed
    <3>2. QED
      BY <1>3, <3>1
  <2>2. ASSUME NEW k \in 1..g + 1
        PROVE  got'[k] = written[k] \/ (cut /\ written[k].type = "json")
    <3>1. CASE k = g + 1
      BY <1>2, <1>3, <3>1
    <3>2. CASE k \in 1..g
      BY <1>1, <1>2, <3>2 DEF StreamInv, Received
    <3>3. QED
      BY <1>1, <3>1, <3>2
  <2>3. QED
    BY <1>2, <2>1, <2>2 DEF Received
<1>6. Phases'
  BY DEF StreamInv, Phases
<1>7. Placed'
  <2>1. Layout(off, written', pb'.data)
    OBVIOUS
  <2>2. QED
    BY <2>1 DEF Placed
<1>8. QED
  BY <1>4, <1>5, <1>6, <1>7 DEF StreamInv

\* unmarshal of a field that knows its length.
LEMMA UnmarshalBinary ==
  ASSUME StreamInv, Unmarshal, NEW off, Layout(off, written, pb.data),
         NEW i, NEW f, NEW o, NEW j, NEW l, NEW m, AtField(off, i, f, o, j, l, m), f.type # "json"
  PROVE  StreamInv'
<1>1. pc = "read" /\ UNCHANGED <<pb, written, session, wire, cut, header>>
  BY DEF Unmarshal
<1>2. /\ i \in Nat /\ o \in Nat /\ j \in Nat /\ l \in Nat /\ m \in Nat
      /\ l <= m /\ o <= l /\ o + j <= m /\ m < B4 /\ cut = (l < m) /\ off[i + 1] = o + j
      /\ i = Len(got) + 1 /\ l = Len(wire)
  BY DEF AtField
<1>3. PICK e : e = Enc(f)
  OBVIOUS
<1>4. f \in Field /\ f = written[Len(got) + 1] /\ ~TooBig(f) /\ j = Len(e)
  BY <1>2, <1>3 DEF AtField
<1>5. /\ up \in Seq(Byte) /\ Len(up) = l - o /\ \A k \in 1..l - o : up[k] = wire[o + k]
      /\ Agrees(up, e)
  BY <1>3 DEF AtField
<1>6. PICK a \in Nat : a = l - o
  <2>1. l - o \in Nat
    BY <1>2
  <2>2. QED
    BY <2>1
<1>7. j < B4
  <2>1. B4 \in Nat
    BY BaseTyped
  <2>2. QED
    BY <1>2, <2>1
<1>8. ReadsBack(f, up)
  BY <1>3, <1>4, <1>5, <1>7, ReadField
<1>9. PICK n : n = Needs(f.type, up)
  OBVIOUS
<1>10. /\ n \in Nat /\ (n <= a => n = j /\ Value(f.type, up) = f.val) /\ (j <= a => n = j)
  BY <1>3, <1>4, <1>5, <1>6, <1>8, <1>9 DEF ReadsBack
<1>11. CASE a < n
  <2>1. pc' = "throw" /\ UNCHANGED <<up, got>>
    BY <1>4, <1>5, <1>6, <1>9, <1>11 DEF Unmarshal
  <2>2. l < m
    BY <1>2, <1>6, <1>10, <1>11
  <2>3. cut
    BY <1>2, <2>2
  <2>4. QED
    BY <1>1, <2>1, <2>3, Thrown
<1>12. CASE ~(a < n)
  <2>1. PICK x : x = [type |-> f.type, val |-> Value(f.type, up)]
    OBVIOUS
  <2>2. got' = Append(got, x) /\ up' = SubSeq(up, n + 1, a) /\ pc' = pc
    BY <1>4, <1>5, <1>6, <1>9, <1>12, <2>1 DEF Unmarshal
  <2>3. n = j /\ n \in 0..a /\ Value(f.type, up) = f.val
    BY <1>10, <1>12
  <2>4. x = f
    BY <1>4, <2>1, <2>3, FieldTyped
  <2>5. PICK v : v = up'
    OBVIOUS
  <2>6. v \in Seq(Byte) /\ Len(v) = a - j /\ \A k \in 1..a - j : v[k] = up[j + k]
    BY <1>5, <1>6, <2>2, <2>3, <2>5, RestIs
  <2>7. Reading(off)'
    <3>1. PICK o2 \in Nat : o2 = o + j
      BY <1>2
    <3>2. Len(got') = i
      <4>1. PICK g \in Nat : g = Len(got) /\ got \in Seq(Fields)
        BY DEF StreamInv, Typed
      <4>2. x \in Fields
        BY <1>4, <2>4 DEF Fields
      <4>3. Len(got') = g + 1
        BY <2>2, <4>1, <4>2
      <4>4. QED
        BY <1>2, <4>1, <4>3
    <3>3. off[Len(got') + 1] = o2
      BY <1>2, <3>1, <3>2
    <3>4. o2 <= l /\ l - o2 = a - j
      BY <1>2, <1>6, <2>3, <3>1
    <3>5. ASSUME NEW k \in 1..a - j PROVE v[k] = wire[o2 + k]
      <4>1. j + k \in 1..l - o /\ o + (j + k) = o2 + k
        BY <1>2, <1>6, <2>3, <3>1
      <4>2. v[k] = up[j + k]
        BY <2>6
      <4>3. up[j + k] = wire[o + (j + k)]
        BY <1>5, <4>1
      <4>4. QED
        BY <4>1, <4>2, <4>3
    <3>6. o2 <= Len(wire') /\ Len(up') = Len(wire') - o2
      BY <1>1, <1>2, <2>5, <2>6, <3>4
    <3>7. \A k \in 1..Len(up') : up'[k] = wire'[o2 + k]
      BY <1>1, <2>5, <2>6, <3>5
    <3>8. QED
      BY <3>3, <3>6, <3>7 DEF Reading
  <2>8. x \in Fields
    BY <1>4, <2>4 DEF Fields
  <2>9. up' \in Seq(Byte)
    BY <2>5, <2>6
  <2>10. QED
    BY <1>1, <2>2, <2>4, <2>7, <2>8, <2>9, Advances
<1>13. QED
  BY <1>2, <1>6, <1>10, <1>11, <1>12

\* unmarshal of the JSON text, which takes everything that is left.
LEMMA UnmarshalJson ==
  ASSUME StreamInv, Unmarshal, NEW off, Layout(off, written, pb.data),
         NEW i, NEW f, NEW o, NEW j, NEW l, NEW m, AtField(off, i, f, o, j, l, m), f.type = "json"
  PROVE  StreamInv'
<1>1. pc = "read" /\ UNCHANGED <<pb, written, session, wire, cut, header>>
  BY DEF Unmarshal
<1>2. /\ i \in Nat /\ o \in Nat /\ j \in Nat /\ l \in Nat /\ m \in Nat
      /\ l <= m /\ o <= l /\ o + j <= m /\ cut = (l < m) /\ off[i + 1] = o + j
      /\ i = Len(got) + 1 /\ l = Len(wire) /\ m = Len(pb.data)
  BY DEF AtField
<1>3. PICK e : e = Enc(f)
  OBVIOUS
<1>4. f \in Field /\ f = written[Len(got) + 1] /\ j = Len(e) /\ e \in Seq(Byte) /\ e = f.val
  BY <1>2, <1>3, JsonField DEF AtField
<1>5. up \in Seq(Byte) /\ Len(up) = l - o /\ Agrees(up, e)
  BY <1>3 DEF AtField
<1>6. PICK a \in Nat : a = l - o
  <2>1. l - o \in Nat
    BY <1>2
  <2>2. QED
    BY <2>1
<1>7. Needs(f.type, up) = a /\ Value(f.type, up) = up
  BY <1>5, <1>6 DEF Needs, Value
<1>8. PICK x : x = [type |-> "json", val |-> up]
  OBVIOUS
<1>9. ~(a < a)
  BY <1>6
<1>10. got' = Append(got, x) /\ up' = SubSeq(up, a + 1, a) /\ pc' = pc
  BY <1>4, <1>5, <1>6, <1>7, <1>8, <1>9 DEF Unmarshal
<1>11. x \in Fields
  BY <1>5, <1>8 DEF Fields
<1>12. PICK v : v = up'
  OBVIOUS
<1>13. v \in Seq(Byte) /\ Len(v) = 0
  <2>1. a \in 0..a /\ a - a = 0
    OBVIOUS
  <2>2. QED
    BY <1>5, <1>6, <1>10, <1>12, <2>1, RestIs
<1>14. v = <<>>
  BY <1>13, EmptySeq
<1>15. PICK n \in Nat : n = Len(written) /\ i = n
  <2>1. Len(written) \in Nat
    BY DEF StreamInv, Typed
  <2>2. i \in 1..Len(written) /\ f = written[i]
    BY DEF AtField
  <2>3. i = Len(written)
    BY <2>2 DEF StreamInv, Typed
  <2>4. QED
    BY <2>1, <2>3
<1>16. o + j = m
  <2>1. off[n + 1] = m
    BY <1>2, <1>15 DEF Layout
  <2>2. QED
    BY <1>2, <1>15, <2>1
<1>17. Len(got') = n
  <2>1. PICK g \in Nat : g = Len(got) /\ got \in Seq(Fields)
    BY DEF StreamInv, Typed
  <2>2. Len(got') = g + 1
    BY <1>10, <1>11, <2>1
  <2>3. QED
    BY <1>2, <1>15, <2>1, <2>2
<1>18. CASE l < m
  <2>1. cut
    BY <1>2, <1>18
  <2>2. written # <<>> /\ written[n].type = "json"
    <3>1. f = written[n] /\ n # 0
      BY <1>2, <1>4, <1>15 DEF AtField
    <3>2. Len(<<>>) = 0
      OBVIOUS
    <3>3. QED
      BY <1>15, <3>1, <3>2
  <2>3. Reading(off)'
    BY <1>1, <1>12, <1>14, <1>15, <1>17, <2>1, <2>2 DEF Reading
  <2>4. up' \in Seq(Byte)
    BY <1>12, <1>13
  <2>5. QED
    BY <1>1, <1>10, <1>11, <2>1, <2>3, <2>4, Advances
<1>19. CASE ~(l < m)
  <2>1. l = m /\ a = j
    BY <1>2, <1>6, <1>16, <1>19
  <2>2. up = e
    <3>1. Len(up) = Len(e)
      BY <1>4, <1>5, <1>6, <2>1
    <3>2. \A k \in 1..Len(up) : up[k] = e[k]
      <4>1. ASSUME NEW k \in 1..j PROVE up[k] = e[k]
        <5>1. k <= Len(up) /\ k \in 1..Len(e)
          BY <1>2, <1>4, <1>5, <1>6, <2>1
        <5>2. QED
          BY <1>5, <5>1 DEF Agrees
      <4>2. QED
        BY <1>5, <1>6, <2>1, <4>1
    <3>3. QED
      BY <1>4, <1>5, <3>1, <3>2, SeqEqual
  <2>3. x = f
    <3>1. f = [type |-> f.type, val |-> f.val]
      BY <1>4, FieldTyped
    <3>2. QED
      BY <1>4, <1>8, <2>2, <3>1
  <2>4. Reading(off)'
    <3>1. off[Len(got') + 1] = m
      BY <1>2, <1>15, <1>16, <1>17
    <3>2. m <= Len(wire') /\ Len(up') = Len(wire') - m
      BY <1>1, <1>2, <1>12, <1>13, <2>1
    <3>3. 1..Len(up') = {}
      BY <1>12, <1>13
    <3>4. QED
      BY <3>1, <3>2, <3>3 DEF Reading
  <2>5. up' \in Seq(Byte)
    BY <1>12, <1>13
  <2>6. QED
    BY <1>1, <1>10, <1>11, <2>3, <2>4, <2>5, Advances
<1>20. QED
  BY <1>18, <1>19

\* unmarshal.
LEMMA UnmarshalStream ==
  ASSUME StreamInv, Unmarshal
  PROVE  StreamInv'
<1>1. pc = "read" /\ Len(got) < Len(written)
  BY DEF Unmarshal
<1>2. PICK off : Layout(off, written, pb.data) /\ Reading(off)
  BY <1>1 DEF StreamInv, Placed
<1>3. PICK i, f, o, j, l, m : AtField(off, i, f, o, j, l, m)
  BY <1>1, <1>2, NextField
<1>4. CASE f.type = "json"
  BY <1>2, <1>3, <1>4, UnmarshalJson
<1>5. CASE f.type # "json"
  BY <1>2, <1>3, <1>5, UnmarshalBinary
<1>6. QED
  BY <1>4, <1>5

\* finish: when all fields are read nothing is left.
LEMMA FinishStream ==
  ASSUME StreamInv, Finish
  PROVE  StreamInv'
<1>1. /\ pc = "read" /\ Len(got) = Len(written) /\ pc' = IF up = <<>> THEN "done" ELSE "throw"
      /\ UNCHANGED <<pb, written, session, wire, cut, up, header, got>>
  BY DEF Finish
<1>2. PICK off : Layout(off, written, pb.data) /\ Reading(off)
  BY <1>1 DEF StreamInv, Placed
<1>3. up = <<>> /\ (cut => written # <<>> /\ written[Len(written)].type = "json")
  <2>1. CASE /\ cut /\ up = <<>> /\ written # <<>> /\ Len(got) = Len(written)
             /\ written[Len(written)].type = "json"
    BY <2>1
  <2>2. CASE /\ off[Len(got) + 1] <= Len(wire)
             /\ Len(up) = Len(wire) - off[Len(got) + 1]
    <3>1. PICK m \in Nat : m = Len(pb.data)
      BY HasHeader
    <3>2. Frame(wire, pb.data, session, cut)
      BY <1>1 DEF StreamInv, Phases
    <3>3. PICK l \in Nat : l = Len(wire) /\ l <= m /\ cut = (l < m)
      BY <3>1, <3>2 DEF Frame
    <3>4. off[Len(got) + 1] = m
      BY <1>1, <1>2, <3>1 DEF Layout
    <3>5. m <= l /\ Len(up) = l - m
      BY <2>2, <3>3, <3>4
    <3>6. Len(up) = 0 /\ ~(l < m)
      BY <3>1, <3>3, <3>5
    <3>7. up \in Seq(Byte)
      BY DEF StreamInv, Typed
    <3>8. up = <<>>
      BY <3>6, <3>7, EmptySeq
    <3>9. ~cut
      BY <3>3, <3>6
    <3>10. QED
      BY <3>8, <3>9
  <2>3. QED
    BY <1>2, <2>1, <2>2 DEF Reading
<1>4. pc' = "done"
  BY <1>1, <1>3
<1>5. Typed'
  BY <1>1, <1>4 DEF StreamInv, Typed
<1>6. Received'
  BY <1>1 DEF StreamInv, Received
<1>7. Phases'
  BY <1>1, <1>3, <1>4 DEF Phases
<1>8. Placed'
  <2>1. Layout(off, written', pb'.data)
    BY <1>1, <1>2
  <2>2. QED
    BY <1>4, <2>1 DEF Placed
<1>9. QED
  BY <1>5, <1>6, <1>7, <1>8 DEF StreamInv

-----------------------------------------------------------------------------
(* Theorems *)

\* Every step of sender and receiver keeps the invariant.
LEMMA NextStream ==
  ASSUME StreamInv, [Next]_vars
  PROVE  StreamInv'
<1>1. CASE Next
  <2>1. CASE \E f \in Field, mem \in BOOLEAN : Marshal(f, mem)
    BY <2>1, MarshalStream
  <2>2. CASE \E s \in Session, u \in Uri : Pack(s, u)
    BY <2>2, PackStream
  <2>3. CASE \E n \in 0..maxsize : Transmit(n)
    BY <2>3, TransmitStream
  <2>4. CASE OnData
    BY <2>4, OnDataStream
  <2>5. CASE PopHeader
    BY <2>5, PopHeaderStream
  <2>6. CASE Unmarshal
    BY <2>6, UnmarshalStream
  <2>7. CASE Finish
    BY <2>7, FinishStream
  <2>8. QED
    BY <1>1, <2>1, <2>2, <2>3, <2>4, <2>5, <2>6, <2>7 DEF Next
<1>2. CASE UNCHANGED vars
  <2>1. UNCHANGED <<pc, pb, written, session, wire, cut, up, header, got>>
    BY <1>2 DEF vars
  <2>2. Typed' /\ Received'
    BY <2>1 DEF StreamInv, Typed, Received
  <2>3. Phases'
    BY <2>1 DEF StreamInv, Phases
  <2>4. Placed'
    BY <2>1 DEF StreamInv, Placed, Reading
  <2>5. QED
    BY <2>2, <2>3, <2>4 DEF StreamInv
<1>3. QED
  BY <1>1, <1>2

\* ByteStream.h, Sender, JsonSender, JsonProtoConsumer: the invariant holds of every message,
\* whatever its fields, the size of a byte and the limit of the buffer.
THEOREM StreamInvariant == Spec => []StreamInv
BY InitStream, NextStream, PTL DEF Spec

\* peekData of the master and popHeader of the worker read the session id that endPack wrote:
\* the worker a message goes to depends on nothing else.
THEOREM SessionIdsAgree == Spec => []SessionAgreed
<1>1. StreamInv => SessionAgreed
  BY InvImplies
<1>2. QED
  BY <1>1, StreamInvariant, PTL

\* BinWriteStream and BinReadStream: every field is read as it was written, and in order, also
\* from a frame that breaks off anywhere.
THEOREM StreamRoundTrip == Spec => []ReadsWhatWasWritten
<1>1. StreamInv => ReadsWhatWasWritten
  BY InvImplies
<1>2. QED
  BY <1>1, StreamInvariant, PTL

\* ReadStreamExn and finish: a complete frame is read to its end without an exception, and one
\* that was cut short is noticed unless it is the JSON text that is shorter.
THEOREM FrameCompleteOrThrown == Spec => []CompleteOrThrown
<1>1. StreamInv => CompleteOrThrown
  BY InvImplies
<1>2. QED
  BY <1>1, StreamInvariant, PTL
=============================================================================
