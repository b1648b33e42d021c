--------------------------- MODULE SgsBufferProofs ---------------------------
(***************************************************************************)
(* Proofs about SgsBuffer, for every capacity, every set of bytes and       *)
(* blocks of every length: no call leaves the memory block, the circular    *)
(* block is a FIFO queue wherever its data wraps, and what the loops return *)
(* means what their callers take it for.                                    *)
(***************************************************************************)
EXTENDS SgsBuffer, SequenceTheorems, TLAPS

(* What a loop has moved so far went through the buffer. *)
IInv ==
    /\ TypeOK
    /\ call = "idle" => total = 0
    /\ call = "read_fd" => total <= size
    /\ call = "write_fd" => total + size <= Capacity

-----------------------------------------------------------------------------
(***************************************************************************)
(* Positions in the block: what % does to the sums the code forms, and what *)
(* the two contiguous lengths are.                                          *)
(***************************************************************************)
Wrap(a) == IF a < Capacity THEN a ELSE a - Capacity

LEMMA Wraps ==
    ASSUME NEW a \in 0 .. Capacity + Capacity - 1
    PROVE  a % Capacity = Wrap(a) /\ Wrap(a) \in Index
<1>1. CASE a < Capacity
  <2>1. a \in Nat
    BY BufferAssumption
  <2>2. a % Capacity = a
    BY <1>1, <2>1, BufferAssumption
  <2> QED BY <1>1, <2>2, BufferAssumption DEF Wrap, Index
<1>2. CASE ~(a < Capacity)
  <2>1. a \in Nat /\ Capacity <= a /\ a < Capacity + Capacity
    BY <1>2, BufferAssumption
  <2>2. a % Capacity = a - Capacity
    BY <2>1, BufferAssumption
  <2> QED BY <1>2, <2>1, <2>2, BufferAssumption DEF Wrap, Index
<1> QED BY <1>1, <1>2

LEMMA TailPosition ==
    ASSUME NEW p \in Index, NEW s \in 0 .. Capacity
    PROVE  tailpos(p, s) = Wrap(p + s) /\ tailpos(p, s) \in Index
<1>1. p + s \in 0 .. Capacity + Capacity - 1
  BY BufferAssumption DEF Index
<1> QED BY <1>1, Wraps DEF tailpos

LEMMA ReadableLen ==
    ASSUME NEW p \in Index, NEW s \in 0 .. Capacity
    PROVE  /\ readable_len(p, s) \in 0 .. s
           /\ p + readable_len(p, s) <= Capacity
           /\ readable_len(p, s) = s \/ p + readable_len(p, s) = Capacity
           /\ readable_len(p, s) = 0 => s = 0
<1>1. tailpos(p, s) = IF p + s < Capacity THEN p + s ELSE p + s - Capacity
  <2>1. tailpos(p, s) = Wrap(p + s)
    BY TailPosition
  <2> QED BY <2>1, BufferAssumption DEF Wrap, Index
<1>2. readable_len(p, s) = IF p + s < Capacity THEN s ELSE Capacity - p
  BY <1>1, BufferAssumption DEF readable_len, Index
<1> QED BY <1>2, BufferAssumption DEF Index

LEMMA WritableLen ==
    ASSUME NEW p \in Index, NEW s \in 0 .. Capacity
    PROVE  /\ writable_len(p, s) \in 0 .. Capacity - s
           /\ tailpos(p, s) + writable_len(p, s) <= Capacity
           /\ writable_len(p, s) = Capacity - s \/ tailpos(p, s) + writable_len(p, s) = Capacity
           /\ writable_len(p, s) = 0 => s = Capacity
<1>1. tailpos(p, s) = IF p + s < Capacity THEN p + s ELSE p + s - Capacity
  <2>1. tailpos(p, s) = Wrap(p + s)
    BY TailPosition
  <2> QED BY <2>1, BufferAssumption DEF Wrap, Index
<1> QED BY <1>1, BufferAssumption DEF writable_len, Index

-----------------------------------------------------------------------------
(***************************************************************************)
(* The queue that a block, a position and a size hold, and what copying in  *)
(* and out of the block does to it.                                         *)
(***************************************************************************)
Ring(b, p, s) == [i \in 1 .. s |-> b[(p + i - 1) % Capacity]]

LEMMA RingType ==
    ASSUME NEW b \in [Index -> Byte], NEW p \in Index, NEW s \in 0 .. Capacity
    PROVE  /\ Ring(b, p, s) \in Seq(Byte) /\ Len(Ring(b, p, s)) = s
           /\ \A i \in 1 .. s : /\ Ring(b, p, s)[i] = b[Wrap(p + i - 1)]
                                /\ Wrap(p + i - 1) \in Index
<1>1. \A i \in 1 .. s : (p + i - 1) % Capacity = Wrap(p + i - 1) /\ Wrap(p + i - 1) \in Index
  <2> SUFFICES ASSUME NEW i \in 1 .. s
               PROVE  (p + i - 1) % Capacity = Wrap(p + i - 1) /\ Wrap(p + i - 1) \in Index
    OBVIOUS
  <2>1. p + i - 1 \in 0 .. Capacity + Capacity - 1
    BY BufferAssumption DEF Index
  <2> QED BY <2>1, Wraps
<1>2. Ring(b, p, s) = [i \in 1 .. s |-> b[Wrap(p + i - 1)]]
  BY <1>1 DEF Ring
<1>3. \A i \in 1 .. s : b[Wrap(p + i - 1)] \in Byte
  BY <1>1
<1>4. Ring(b, p, s) \in [1 .. s -> Byte]
  BY <1>2, <1>3, Zenon
<1>5. Ring(b, p, s) \in Seq(Byte) /\ Len(Ring(b, p, s)) = s
  BY <1>4
<1> QED BY <1>1, <1>2, <1>5

LEMMA CopyInType ==
    ASSUME NEW b \in [Index -> Byte], NEW at \in 0 .. Capacity, NEW data \in Seq(Byte)
    PROVE  CopyIn(b, at, data) \in [Index -> Byte]
<1>1. \A i \in Index : at <= i /\ i < at + Len(data) => data[i - at + 1] \in Byte
  <2> SUFFICES ASSUME NEW i \in Index, at <= i, i < at + Len(data)
               PROVE  data[i - at + 1] \in Byte
    OBVIOUS
  <2>1. i - at + 1 \in 1 .. Len(data)
    BY LenProperties, BufferAssumption DEF Index
  <2> QED BY <2>1, ElementOfSeq
<1> QED BY <1>1 DEF CopyIn

(* Data that fits behind the tail is appended, and no byte stored is lost. *)
LEMMA RingCopyIn ==
    ASSUME NEW b \in [Index -> Byte], NEW p \in Index, NEW s \in 0 .. Capacity,
           NEW data \in Seq(Byte), Len(data) <= Capacity - s,
           tailpos(p, s) + Len(data) <= Capacity
    PROVE  Ring(CopyIn(b, tailpos(p, s), data), p, s + Len(data)) = Ring(b, p, s) \o data
<1> DEFINE n == Len(data)
           t == tailpos(p, s)
           c == CopyIn(b, t, data)
           u == Ring(b, p, s)
           v == Ring(c, p, s + n)
           w == u \o data
<1>1. n \in Nat /\ s + n \in 0 .. Capacity
  BY LenProperties, BufferAssumption
<1>2. t \in Index /\ t = Wrap(p + s)
  BY TailPosition
<1>3. c \in [Index -> Byte]
  BY <1>2, CopyInType, BufferAssumption DEF Index
<1>4. \A i \in Index : c[i] = IF t <= i /\ i < t + n THEN data[i - t + 1] ELSE b[i]
  BY DEF CopyIn
<1>5. u \in Seq(Byte) /\ Len(u) = s /\ \A i \in 1 .. s : u[i] = b[Wrap(p + i - 1)]
  BY RingType
<1> HIDE DEF c, u, n
<1>6. /\ v \in Seq(Byte) /\ Len(v) = s + n
      /\ \A i \in 1 .. s + n : v[i] = c[Wrap(p + i - 1)] /\ Wrap(p + i - 1) \in Index
  BY <1>1, <1>3, RingType
<1> HIDE DEF v
<1>7. /\ w \in Seq(Byte) /\ Len(w) = Len(u) + n
      /\ \A i \in 1 .. Len(u) + n : w[i] = IF i <= Len(u) THEN u[i] ELSE data[i - Len(u)]
  BY <1>5, ConcatProperties, Zenon DEF n
<1> HIDE DEF w, t
<1>8. ASSUME NEW i \in 1 .. s + n PROVE v[i] = w[i]
  <2>1. v[i] = c[Wrap(p + i - 1)] /\ Wrap(p + i - 1) \in Index
    BY <1>6
  <2>2. CASE i <= s
    <3>1. ~(t <= Wrap(p + i - 1) /\ Wrap(p + i - 1) < t + n)
      BY <1>1, <1>2, <2>2, BufferAssumption DEF Wrap, Index, t
    <3>2. w[i] = b[Wrap(p + i - 1)]
      BY <1>1, <1>5, <1>7, <2>2
    <3> QED BY <1>4, <2>1, <3>1, <3>2
  <2>3. CASE ~(i <= s)
    <3>1. /\ t <= Wrap(p + i - 1) /\ Wrap(p + i - 1) < t + n
          /\ Wrap(p + i - 1) - t + 1 = i - s
      BY <1>1, <1>2, <2>3, BufferAssumption DEF Wrap, Index, t
    <3>2. w[i] = data[i - s]
      BY <1>1, <1>5, <1>7, <2>3
    <3> QED BY <1>4, <2>1, <3>1, <3>2
  <2> QED BY <2>2, <2>3
<1>9. v = w
  BY <1>1, <1>5, <1>6, <1>7, <1>8, SeqEqual
<1> QED BY <1>9 DEF v, w, u, c, t, n

(* The first n bytes, and what is left once they are gone. *)
LEMMA RingFront ==
    ASSUME NEW b \in [Index -> Byte], NEW p \in Index, NEW s \in 0 .. Capacity, NEW n \in 0 .. s
    PROVE  /\ SubSeq(Ring(b, p, s), 1, n) = Ring(b, p, n)
           /\ SubSeq(Ring(b, p, s), n + 1, s) = Ring(b, (p + n) % Capacity, s - n)
           /\ (p + n) % Capacity \in Index
<1> DEFINE u == Ring(b, p, s)
           q == (p + n) % Capacity
           f == SubSeq(u, 1, n)
           r == SubSeq(u, n + 1, s)
           g == Ring(b, p, n)
           h == Ring(b, q, s - n)
<1>1. u \in Seq(Byte) /\ Len(u) = s /\ \A i \in 1 .. s : u[i] = b[Wrap(p + i - 1)]
  BY RingType
<1>2. q = Wrap(p + n) /\ q \in Index
  <2>1. p + n \in 0 .. Capacity + Capacity - 1
    BY BufferAssumption DEF Index
  <2> QED BY <2>1, Wraps
<1>3. /\ g \in Seq(Byte) /\ Len(g) = n
      /\ \A i \in 1 .. n : g[i] = b[Wrap(p + i - 1)]
  <2>1. n \in 0 .. Capacity
    BY BufferAssumption
  <2> QED BY <2>1, RingType
<1> HIDE DEF q
<1>4. /\ h \in Seq(Byte) /\ Len(h) = s - n
      /\ \A i \in 1 .. s - n : h[i] = b[Wrap(q + i - 1)]
  <2>1. s - n \in 0 .. Capacity
    BY BufferAssumption
  <2> QED BY <1>2, <2>1, RingType
<1> HIDE DEF u, g, h
<1>5. \A i \in 1 .. s : u[i] \in Byte
  BY <1>1, ElementOfSeq
<1>6. f \in Seq(Byte) /\ Len(f) = n /\ \A i \in 1 .. n : f[i] = u[i]
  <2>1. \A i \in 1 .. n : u[i] \in Byte
    BY <1>5
  <2>2. /\ f \in Seq(Byte) /\ Len(f) = IF 1 <= n THEN n - 1 + 1 ELSE 0
        /\ \A i \in 1 .. n - 1 + 1 : f[i] = u[1 + i - 1]
    BY <2>1, SubSeqProperties
  <2> HIDE DEF f
  <2>3. CASE 1 <= n
    BY <2>2, <2>3
  <2>4. CASE n = 0
    BY <2>2, <2>4
  <2> QED BY <2>3, <2>4
<1>7. r \in Seq(Byte) /\ Len(r) = s - n /\ \A i \in 1 .. s - n : r[i] = u[n + i]
  <2>1. \A i \in n + 1 .. s : u[i] \in Byte
    BY <1>5
  <2>2. /\ r \in Seq(Byte) /\ Len(r) = IF n + 1 <= s THEN s - (n + 1) + 1 ELSE 0
        /\ \A i \in 1 .. s - (n + 1) + 1 : r[i] = u[n + 1 + i - 1]
    BY <2>1, SubSeqProperties
  <2> HIDE DEF r
  <2>3. CASE n + 1 <= s
    BY <2>2, <2>3
  <2>4. CASE n = s
    BY <2>2, <2>4
  <2> QED BY <2>3, <2>4
<1> HIDE DEF f, r
<1>8. f = g
  <2>1. ASSUME NEW i \in 1 .. n PROVE f[i] = g[i]
    <3>1. i \in 1 .. s
      BY BufferAssumption
    <3> QED BY <1>1, <1>3, <1>6, <3>1
  <2> QED BY <1>3, <1>6, <2>1, SeqEqual
<1>9. r = h
  <2>1. ASSUME NEW i \in 1 .. s - n PROVE r[i] = h[i]
    <3>1. n + i \in 1 .. s /\ Wrap(p + (n + i) - 1) = Wrap(q + i - 1)
      BY <1>2, BufferAssumption DEF Wrap, Index
    <3>2. r[i] = u[n + i] /\ u[n + i] = b[Wrap(p + (n + i) - 1)]
      BY <1>1, <1>7, <3>1
    <3> QED BY <1>4, <3>1, <3>2
  <2> QED BY <1>4, <1>7, <2>1, SeqEqual
<1> QED BY <1>2, <1>8, <1>9 DEF f, g, h, q, r, u

LEMMA CopyOutRing ==
    ASSUME NEW n \in 0 .. Capacity, TypeOK, position + n <= Capacity
    PROVE  CopyOut(position, n) = Ring(buf, position, n)
<1>1. ASSUME NEW i \in 1 .. n PROVE (position + i - 1) % Capacity = position + i - 1
  <2>1. position + i - 1 \in Nat /\ position + i - 1 < Capacity
    BY BufferAssumption DEF TypeOK, Index
  <2>2. position + i - 1 \in 0 .. Capacity + Capacity - 1
    BY <2>1, BufferAssumption
  <2> QED BY <2>1, <2>2, Wraps DEF Wrap
<1> QED BY <1>1 DEF CopyOut, Ring

(* peek, in one piece or in two, copies out the front of the queue. *)
LEMMA StoredIsFront ==
    ASSUME TypeOK, NEW n \in 0 .. size
    PROVE  Stored(n) = Ring(buf, position, n)
<1> DEFINE r == readable_len(position, size)
<1>1. /\ position \in Index /\ size \in 0 .. Capacity /\ buf \in [Index -> Byte]
      /\ n \in 0 .. Capacity
  BY BufferAssumption DEF TypeOK
<1>2. r \in 0 .. size /\ position + r <= Capacity /\ (r = size \/ position + r = Capacity)
  BY <1>1, ReadableLen
<1>3. Stored(n) = IF r >= n THEN CopyOut(position, n) ELSE CopyOut(position, r) \o CopyOut(0, n - r)
  BY DEF Stored
<1> HIDE DEF r
<1>4. CASE r >= n
  <2>1. position + n <= Capacity
    BY <1>1, <1>2, <1>4, BufferAssumption DEF Index
  <2> QED BY <1>1, <1>3, <1>4, <2>1, CopyOutRing
<1>5. CASE ~(r >= n)
  <2>1. position + r = Capacity /\ r \in 0 .. n /\ r \in 0 .. Capacity
    BY <1>1, <1>2, <1>5, BufferAssumption
  <2>2. CopyOut(position, r) = Ring(buf, position, r)
    BY <1>2, <2>1, CopyOutRing
  <2> DEFINE a == Ring(buf, position, r)
             d == CopyOut(0, n - r)
             u == Ring(buf, position, n)
  <2>3. a \in Seq(Byte) /\ Len(a) = r /\ \A i \in 1 .. r : a[i] = buf[Wrap(position + i - 1)]
    BY <1>1, <2>1, RingType
  <2>4. /\ u \in Seq(Byte) /\ Len(u) = n
        /\ \A i \in 1 .. n : u[i] = buf[Wrap(position + i - 1)]
    BY <1>1, RingType
  <2>5. d \in Seq(Byte) /\ Len(d) = n - r /\ \A i \in 1 .. n - r : d[i] = buf[i - 1]
    <3>1. d = [i \in 1 .. n - r |-> buf[0 + i - 1]] /\ n - r \in Nat
      BY <1>1, <2>1 DEF CopyOut
    <3>2. \A i \in 1 .. n - r : 0 + i - 1 = i - 1 /\ i - 1 \in Index
      BY <1>1, <2>1, BufferAssumption DEF Index
    <3>3. d \in [1 .. n - r -> Byte]
      BY <1>1, <3>1, <3>2
    <3> QED BY <3>1, <3>2, <3>3
  <2> HIDE DEF a, d, u
  <2> DEFINE w == a \o d
  <2>6. /\ w \in Seq(Byte) /\ Len(w) = Len(a) + Len(d)
        /\ \A i \in 1 .. Len(a) + Len(d) : w[i] = IF i <= Len(a) THEN a[i] ELSE d[i - Len(a)]
    BY <2>3, <2>5, ConcatProperties, Zenon
  <2> HIDE DEF w
  <2>7. Len(w) = n
    BY <1>1, <2>1, <2>3, <2>5, <2>6
  <2>8. ASSUME NEW i \in 1 .. n PROVE w[i] = u[i]
    <3>1. CASE i <= r
      <4>1. i \in 1 .. r /\ i \in 1 .. Len(a) + Len(d) /\ i <= Len(a)
        BY <1>1, <2>1, <2>3, <2>5, <3>1
      <4> QED BY <2>3, <2>4, <2>6, <4>1
    <3>2. CASE ~(i <= r)
      <4>1. i - r \in 1 .. n - r /\ Wrap(position + i - 1) = (i - r) - 1
        BY <1>1, <2>1, <3>2, BufferAssumption DEF Wrap, Index
      <4>2. w[i] = d[i - r]
        BY <1>1, <2>1, <2>3, <2>5, <2>6, <3>2
      <4> QED BY <2>4, <2>5, <4>1, <4>2
    <3> QED BY <3>1, <3>2
  <2>9. w = u
    BY <2>4, <2>6, <2>7, <2>8, SeqEqual
  <2> QED BY <1>3, <1>5, <2>2, <2>9 DEF w, a, d, u
<1> QED BY <1>4, <1>5

LEMMA Associative ==
    \A x, y, z \in Seq(Byte) : (x \o y) \o z = x \o (y \o z)
BY ConcatAssociative

(* What sgs_buffer_write makes of the block, in one piece or in two. *)
LEMMA WriteAppends ==
    ASSUME TypeOK, NEW data \in Seq(Byte), Len(data) <= remaining,
           NEW b, b = IF writable_len(position, size) >= Len(data)
                      THEN CopyIn(buf, tailpos(position, size), data)
                      ELSE CopyIn(CopyIn(buf, tailpos(position, size),
                                         SubSeq(data, 1, writable_len(position, size))),
                                  0, SubSeq(data, writable_len(position, size) + 1, Len(data)))
    PROVE  b \in [Index -> Byte] /\ Ring(b, position, size + Len(data)) = Ring(buf, position, size) \o data
<1> DEFINE w == writable_len(position, size)
           t == tailpos(position, size)
           n == Len(data)
<1>1. position \in Index /\ size \in 0 .. Capacity /\ buf \in [Index -> Byte]
  BY DEF TypeOK
<1>2. /\ w \in 0 .. Capacity - size /\ t + w <= Capacity
      /\ w = Capacity - size \/ t + w = Capacity
  BY <1>1, WritableLen
<1>3. t \in Index /\ t \in 0 .. Capacity /\ n \in Nat /\ n <= Capacity - size
  <2>1. t \in Index /\ n \in Nat
    BY <1>1, TailPosition, LenProperties
  <2> HIDE DEF t, n
  <2>2. n <= Capacity - size
    BY DEF remaining, n
  <2> QED BY <2>1, <2>2, BufferAssumption DEF Index
<1>4. CASE w >= n
  <2>1. t + n <= Capacity
    BY <1>1, <1>2, <1>3, <1>4, BufferAssumption DEF Index
  <2>2. b = CopyIn(buf, t, data)
    BY <1>4
  <2> QED BY <1>1, <1>3, <2>1, <2>2, CopyInType, RingCopyIn
<1>5. CASE ~(w >= n)
  <2> DEFINE d == SubSeq(data, 1, w)
             e == SubSeq(data, w + 1, n)
             c == CopyIn(buf, t, d)
  <2>1. b = CopyIn(c, 0, e)
    BY <1>5
  <2>2. w \in 0 .. n /\ w < n /\ t + w = Capacity
    BY <1>1, <1>2, <1>3, <1>5, BufferAssumption
  <2>3. \A i \in 1 .. n : data[i] \in Byte
    BY ElementOfSeq
  <2>4. d \in Seq(Byte) /\ Len(d) = w
    <3>1. \A i \in 1 .. w : data[i] \in Byte
      BY <1>3, <2>2, <2>3
    <3>2. d \in Seq(Byte) /\ Len(d) = IF 1 <= w THEN w - 1 + 1 ELSE 0
      BY <2>2, <3>1, SubSeqProperties
    <3> QED BY <2>2, <3>2
  <2>5. e \in Seq(Byte) /\ Len(e) = n - w
    <3>1. \A i \in w + 1 .. n : data[i] \in Byte
      BY <1>3, <2>2, <2>3
    <3>2. w + 1 \in Int /\ n \in Int
      BY <1>3, <2>2
    <3>3. e \in Seq(Byte) /\ Len(e) = IF w + 1 <= n THEN n - (w + 1) + 1 ELSE 0
      BY <3>1, <3>2, SubSeqProperties
    <3> QED BY <1>3, <2>2, <3>3
  <2>6. d \o e = data
    <3>1. 1 \in 1 .. n + 1 /\ w \in 1 - 1 .. n /\ n \in w .. n
      BY <1>3, <2>2
    <3>2. d \o e = SubSeq(data, 1, n)
      BY <3>1, ConcatAdjacentSubSeq
    <3> QED BY <3>2, SubSeqFull
  <2> HIDE DEF w, t, n, d, e, c
  <2>7. size + w \in 0 .. Capacity /\ Len(d) <= Capacity - size /\ t + Len(d) <= Capacity
    BY <1>1, <1>2, <1>3, <2>2, <2>4, BufferAssumption
  <2>8. c \in [Index -> Byte] /\ Ring(c, position, size + w) = Ring(buf, position, size) \o d
    <3>1. c \in [Index -> Byte]
      BY <1>1, <1>3, <2>4, CopyInType DEF c
    <3>2. Ring(c, position, size + Len(d)) = Ring(buf, position, size) \o d
      BY <1>1, <2>4, <2>7, RingCopyIn DEF c, t
    <3> QED BY <2>4, <3>1, <3>2
  <2>9. tailpos(position, size + w) = 0
    <3>1. t = Wrap(position + size) /\ tailpos(position, size + w) = Wrap(position + (size + w))
      BY <1>1, <2>7, TailPosition DEF t
    <3> QED BY <1>1, <1>2, <2>2, <3>1, BufferAssumption DEF Wrap, Index
  <2>10. /\ b \in [Index -> Byte]
         /\ Ring(b, position, (size + w) + Len(e)) = Ring(c, position, size + w) \o e
    <3>1. Len(e) <= Capacity - (size + w) /\ 0 + Len(e) <= Capacity /\ 0 \in 0 .. Capacity
      BY <1>1, <1>2, <1>3, <2>2, <2>5, BufferAssumption
    <3>2. b \in [Index -> Byte]
      BY <2>1, <2>5, <2>8, <3>1, CopyInType
    <3> DEFINE z == size + w
    <3>3. b = CopyIn(c, tailpos(position, z), e) /\ tailpos(position, z) + Len(e) <= Capacity
      BY <2>1, <2>9, <3>1
    <3>4. z \in 0 .. Capacity /\ Len(e) <= Capacity - z
      BY <2>7, <3>1
    <3> HIDE DEF z
    <3>5. Ring(b, position, z + Len(e)) = Ring(c, position, z) \o e
      <4>1. position \in Index /\ e \in Seq(Byte) /\ c \in [Index -> Byte]
        BY <1>1, <2>5, <2>8
      <4>2. Ring(CopyIn(c, tailpos(position, z), e), position, z + Len(e)) = Ring(c, position, z) \o e
        BY <3>3, <3>4, <4>1, RingCopyIn
      <4> QED BY <3>3, <4>2
    <3> QED BY <3>2, <3>5 DEF z
  <2>11. (size + w) + Len(e) = size + n
    BY <1>1, <1>3, <2>2, <2>5, BufferAssumption
  <2>12. (Ring(buf, position, size) \o d) \o e = Ring(buf, position, size) \o data
    <3> DEFINE u == Ring(buf, position, size)
    <3>1. u \in Seq(Byte)
      BY <1>1, RingType
    <3> HIDE DEF u
    <3>2. (u \o d) \o e = u \o (d \o e)
      BY <2>4, <2>5, <3>1, Associative
    <3> QED BY <2>6, <3>2 DEF u
  <2> QED BY <2>8, <2>10, <2>11, <2>12 DEF n
<1> QED BY <1>4, <1>5

-----------------------------------------------------------------------------
(***************************************************************************)
(* Each call and each socket call keeps the invariant and is a step of the  *)
(* queue.                                                                   *)
(***************************************************************************)
Step == IInv' /\ (Fifo!Next \/ UNCHANGED <<Queue, out, total, ret>>)

LEMMA QueueType ==
    ASSUME TypeOK
    PROVE  /\ Queue = Ring(buf, position, size) /\ Queue \in Seq(Byte) /\ Len(Queue) = size
           /\ size = 0 => Queue = <<>>
<1>1. Queue = Ring(buf, position, size)
  BY DEF Queue, Ring
<1>2. Queue \in Seq(Byte) /\ Len(Queue) = size
  BY <1>1, RingType DEF TypeOK
<1> QED BY <1>1, <1>2, EmptySeq

LEMMA ClearStep == ASSUME IInv, sgs_buffer_clear PROVE Step
<1>1. /\ call = "idle" /\ position' = 0 /\ size' = 0 /\ UNCHANGED <<buf, call, total, ret, out, eof>>
  BY DEF sgs_buffer_clear
<1>2. TypeOK'
  BY <1>1, BufferAssumption DEF IInv, TypeOK, Index
<1>3. Queue' = <<>>
  <2>1. Queue' = [i \in 1 .. 0 |-> buf'[(0 + i - 1) % Capacity]]
    BY <1>1 DEF Queue
  <2>2. Queue' \in Seq({}) /\ Len(Queue') = 0
    BY <2>1
  <2> QED BY <2>2, EmptySeq
<1> QED BY <1>1, <1>2, <1>3 DEF IInv, Step, Fifo!Next, Fifo!Clear

LEMMA PeekStep == ASSUME IInv, NEW n \in 0 .. MaxBlock, sgs_buffer_peek(n) PROVE Step
<1>1. call = "idle" /\ UNCHANGED <<buf, position, size, call, total, eof>>
  BY DEF sgs_buffer_peek, Returns, block
<1>2. Queue' = Queue /\ Queue = Ring(buf, position, size) /\ Queue \in Seq(Byte) /\ Len(Queue) = size
  BY <1>1, QueueType DEF IInv, Queue
<1>3. CASE n > size
  <2>1. ret' = -1 /\ out' = out
    BY <1>3 DEF sgs_buffer_peek, Returns
  <2>2. IInv'
    BY <1>1, <2>1, BufferAssumption DEF IInv, TypeOK
  <2> QED BY <1>1, <1>2, <2>1, <2>2 DEF Step, Fifo!Next, Fifo!Refuse
<1>4. CASE ~(n > size)
  <2>1. n \in 0 .. size
    BY <1>4, BufferAssumption DEF IInv, TypeOK
  <2>2. ret' = 0 /\ out' = Stored(n)
    BY <1>4 DEF sgs_buffer_peek, Returns
  <2>3. out' = SubSeq(Queue, 1, n)
    BY <1>2, <2>1, <2>2, StoredIsFront, RingFront DEF IInv, TypeOK
  <2>4. out' \in Seq(Byte)
    <3>1. n \in 0 .. Capacity
      BY <2>1, BufferAssumption DEF IInv, TypeOK
    <3> QED BY <2>1, <2>2, <3>1, StoredIsFront, RingType DEF IInv, TypeOK
  <2>5. IInv'
    BY <1>1, <2>2, <2>4, BufferAssumption DEF IInv, TypeOK
  <2> QED BY <1>1, <1>2, <2>1, <2>2, <2>3, <2>5 DEF Step, Fifo!Next, Fifo!Peek, Fifo!Front
<1> QED BY <1>3, <1>4

LEMMA ReadStep == ASSUME IInv, NEW n \in 0 .. MaxBlock, sgs_buffer_read(n) PROVE Step
<1>1. call = "idle" /\ UNCHANGED <<buf, call, total, eof>>
  BY DEF sgs_buffer_read, Returns
<1>2. Queue = Ring(buf, position, size) /\ Queue \in Seq(Byte) /\ Len(Queue) = size
  BY QueueType DEF IInv
<1>3. CASE n > size
  <2>1. ret' = -1 /\ UNCHANGED <<position, size, out>>
    BY <1>3 DEF sgs_buffer_read, Returns
  <2>2. IInv'
    BY <1>1, <2>1, BufferAssumption DEF IInv, TypeOK
  <2>3. Queue' = Queue
    BY <1>1, <2>1 DEF Queue
  <2> QED BY <1>1, <2>1, <2>2, <2>3 DEF Step, Fifo!Next, Fifo!Refuse
<1>4. CASE ~(n > size)
  <2>1. n \in 0 .. size /\ n \in 0 .. Capacity /\ size - n \in 0 .. Capacity
    BY <1>4, BufferAssumption DEF IInv, TypeOK
  <2>2. /\ ret' = 0 /\ out' = Stored(n)
        /\ position' = (position + n) % Capacity /\ size' = size - n
    BY <1>4 DEF sgs_buffer_read, Returns
  <2>3. out' = SubSeq(Queue, 1, n) /\ out' \in Seq(Byte)
    <3>1. buf \in [Index -> Byte] /\ position \in Index /\ size \in 0 .. Capacity /\ TypeOK
      BY DEF IInv, TypeOK
    <3>2. Stored(n) = Ring(buf, position, n)
      BY <2>1, <3>1, StoredIsFront
    <3>3. SubSeq(Queue, 1, n) = Ring(buf, position, n)
      BY <1>2, <2>1, <3>1, RingFront
    <3>4. Ring(buf, position, n) \in Seq(Byte)
      BY <2>1, <3>1, RingType
    <3> QED BY <2>2, <3>2, <3>3, <3>4
  <2>4. position' \in Index /\ Queue' = SubSeq(Queue, n + 1, Len(Queue))
    <3>1. Queue' = Ring(buf, (position + n) % Capacity, size - n)
      BY <1>1, <2>2 DEF Queue, Ring
    <3>2. buf \in [Index -> Byte] /\ position \in Index /\ size \in 0 .. Capacity
      BY DEF IInv, TypeOK
    <3>3. /\ SubSeq(Ring(buf, position, size), n + 1, size) = Ring(buf, (position + n) % Capacity, size - n)
          /\ (position + n) % Capacity \in Index
      BY <2>1, <3>2, RingFront
    <3> QED BY <1>2, <2>2, <3>1, <3>3
  <2>5. IInv'
    BY <1>1, <2>1, <2>2, <2>3, <2>4, BufferAssumption DEF IInv, TypeOK
  <2> QED BY <1>1, <1>2, <2>1, <2>2, <2>3, <2>4, <2>5 DEF Step, Fifo!Next, Fifo!Get, Fifo!Front, Fifo!Rest
<1> QED BY <1>3, <1>4

LEMMA WriteStep == ASSUME IInv, NEW data \in Blocks, sgs_buffer_write(data) PROVE Step
<1>1. call = "idle" /\ UNCHANGED <<position, out, call, total, eof>>
  BY DEF sgs_buffer_write, Returns
<1>2. PICK n \in 0 .. MaxBlock : data \in [1 .. n -> Byte]
  BY DEF Blocks
<1>3. data \in Seq(Byte) /\ Len(data) = n /\ n \in Nat
  BY <1>2, BufferAssumption
<1>4. Queue = Ring(buf, position, size) /\ Queue \in Seq(Byte) /\ Len(Queue) = size
  BY QueueType DEF IInv
<1>5. CASE Len(data) > remaining
  <2>1. ret' = -1 /\ UNCHANGED <<buf, size>>
    BY <1>5 DEF sgs_buffer_write, Returns
  <2>2. IInv'
    BY <1>1, <2>1, BufferAssumption DEF IInv, TypeOK
  <2>3. Queue' = Queue
    BY <1>1, <2>1 DEF Queue
  <2> QED BY <1>1, <2>1, <2>2, <2>3 DEF Step, Fifo!Next, Fifo!Refuse
<1>6. CASE ~(Len(data) > remaining)
  <2>1. Len(data) <= remaining /\ size + n \in 0 .. Capacity /\ n \in 0 .. Capacity - size
    BY <1>3, <1>6, BufferAssumption DEF IInv, TypeOK, remaining
  <2>2. /\ buf' = IF writable_len(position, size) >= Len(data)
                  THEN CopyIn(buf, tailpos(position, size), data)
                  ELSE CopyIn(CopyIn(buf, tailpos(position, size),
                                     SubSeq(data, 1, writable_len(position, size))),
                              0, SubSeq(data, writable_len(position, size) + 1, Len(data)))
        /\ size' = size + Len(data) /\ ret' = 0
    BY <1>6 DEF sgs_buffer_write, Returns
  <2>3. /\ buf' \in [Index -> Byte]
        /\ Ring(buf', position, size + Len(data)) = Ring(buf, position, size) \o data
    BY <1>3, <2>1, <2>2, WriteAppends DEF IInv
  <2>4. Queue' = Queue \o data
    BY <1>1, <1>4, <2>2, <2>3 DEF Queue, Ring
  <2>5. IInv'
    BY <1>1, <1>3, <2>1, <2>2, <2>3, BufferAssumption DEF IInv, TypeOK
  <2> QED BY <1>1, <1>2, <1>4, <2>1, <2>2, <2>4, <2>5 DEF Step, Fifo!Next, Fifo!Put
<1> QED BY <1>5, <1>6

LEMMA ReadLoopCalled == ASSUME IInv, sgs_impl_read_from_fd PROVE Step
<1>1. /\ call = "idle" /\ total = 0 /\ eof' = FALSE /\ UNCHANGED <<buf, position, size, out>>
      /\ Queue' = Queue
  BY DEF sgs_impl_read_from_fd, block, IInv, Queue
<1>a. eof' \in BOOLEAN
  BY <1>1
<1>2. CASE writable_len(position, size) > 0
  <2>1. call' = "read_fd" /\ UNCHANGED <<total, ret>>
    BY <1>2 DEF sgs_impl_read_from_fd
  <2>2. IInv'
    BY <1>1, <1>a, <2>1, BufferAssumption DEF IInv, TypeOK
  <2> QED BY <1>1, <2>1, <2>2 DEF Step
<1>3. CASE ~(writable_len(position, size) > 0)
  <2>1. call' = "idle" /\ total' = 0 /\ ret' = 0
    BY <1>3 DEF sgs_impl_read_from_fd, CallReturns
  <2>2. IInv'
    BY <1>1, <1>a, <2>1, BufferAssumption DEF IInv, TypeOK
  <2> QED BY <1>1, <2>1, <2>2 DEF Step, Fifo!Next, Fifo!SocketReturns
<1> QED BY <1>2, <1>3

LEMMA WriteLoopCalled == ASSUME IInv, sgs_impl_write_to_fd PROVE Step
<1>1. /\ call = "idle" /\ total = 0 /\ UNCHANGED <<buf, position, size, out, eof>>
      /\ Queue' = Queue
  BY DEF sgs_impl_write_to_fd, block, IInv, Queue
<1>2. CASE readable_len(position, size) > 0
  <2>1. call' = "write_fd" /\ UNCHANGED <<total, ret>>
    BY <1>2 DEF sgs_impl_write_to_fd
  <2>2. IInv'
    BY <1>1, <2>1 DEF IInv, TypeOK
  <2> QED BY <1>1, <2>1, <2>2 DEF Step
<1>3. CASE ~(readable_len(position, size) > 0)
  <2>1. call' = "idle" /\ total' = 0 /\ ret' = 0
    BY <1>3 DEF sgs_impl_write_to_fd, CallReturns
  <2>2. IInv'
    BY <1>1, <2>1, BufferAssumption DEF IInv, TypeOK
  <2> QED BY <1>1, <2>1, <2>2 DEF Step, Fifo!Next, Fifo!SocketReturns
<1> QED BY <1>2, <1>3

LEMMA SocketReadStep == ASSUME IInv, NEW n \in 0 .. Capacity, SocketRead(n) PROVE Step
<1> DEFINE w == writable_len(position, size)
           t == tailpos(position, size)
<1>1. /\ call = "read_fd" /\ n \in 1 .. w /\ size' = size + n /\ UNCHANGED <<position, out, eof>>
  BY DEF SocketRead
<1>2. PICK data \in [1 .. n -> Byte] : buf' = CopyIn(buf, t, data)
  BY DEF SocketRead
<1>3. position \in Index /\ size \in 0 .. Capacity /\ buf \in [Index -> Byte] /\ total \in 0 .. size
  BY <1>1, BufferAssumption DEF IInv, TypeOK
<1>4. w \in 0 .. Capacity - size /\ t + w <= Capacity
  BY <1>3, WritableLen
<1>5. t \in Index
  BY <1>3, TailPosition
<1>6. data \in Seq(Byte) /\ Len(data) = n /\ n \in Nat
  BY <1>2
<1>7. \/ call' = call /\ total' = total + n /\ UNCHANGED ret
      \/ call' = "idle" /\ total' = 0 /\ ret' = total + n
  BY DEF SocketRead, CallReturns
<1> HIDE DEF w, t
<1>8. t + n <= Capacity /\ n <= Capacity - size /\ n \in 1 .. Capacity - size /\ t \in 0 .. Capacity
  BY <1>1, <1>3, <1>4, <1>5, BufferAssumption DEF Index
<1>9. buf' \in [Index -> Byte]
  BY <1>2, <1>3, <1>6, <1>8, CopyInType
<1>10. Queue' = Queue \o data
  <2>1. Ring(CopyIn(buf, t, data), position, size + Len(data)) = Ring(buf, position, size) \o data
    BY <1>3, <1>6, <1>8, RingCopyIn DEF t
  <2> QED BY <1>1, <1>2, <1>6, <2>1 DEF Queue, Ring
<1>11. Len(Queue) = size
  BY QueueType DEF IInv
<1>12. size + n \in 0 .. Capacity /\ total + n \in 0 .. size + n /\ total + n \in 0 .. Capacity
  BY <1>3, <1>8, BufferAssumption
<1>13. IInv'
  BY <1>1, <1>7, <1>9, <1>12, BufferAssumption DEF IInv, TypeOK
<1>14. Fifo!FromSocket
  BY <1>1, <1>2, <1>7, <1>8, <1>10, <1>11 DEF Fifo!FromSocket
<1> QED BY <1>13, <1>14 DEF Step, Fifo!Next

LEMMA SocketWriteStep == ASSUME IInv, NEW n \in 0 .. Capacity, SocketWrite(n) PROVE Step
<1> DEFINE r == readable_len(position, size)
<1>1. /\ call = "write_fd" /\ n \in 0 .. r /\ size' = size - n /\ UNCHANGED <<buf, eof>>
      /\ out' = CopyOut(position, n) /\ position' = (position + n) % Capacity
  BY DEF SocketWrite
<1>2. /\ position \in Index /\ size \in 0 .. Capacity /\ buf \in [Index -> Byte]
      /\ total \in 0 .. Capacity /\ total + size <= Capacity
  BY <1>1 DEF IInv, TypeOK
<1>3. r \in 0 .. size /\ position + r <= Capacity
  BY <1>2, ReadableLen
<1>4. \/ call' = call /\ total' = total + n /\ UNCHANGED ret
      \/ call' = "idle" /\ total' = 0 /\ ret' = total + n
  BY DEF SocketWrite, CallReturns
<1> HIDE DEF r
<1>5. n \in 0 .. size /\ position + n <= Capacity /\ size - n \in 0 .. Capacity
  BY <1>1, <1>2, <1>3, BufferAssumption DEF Index
<1>6. out' = Ring(buf, position, n)
  BY <1>1, <1>5, CopyOutRing DEF IInv
<1>7. Queue = Ring(buf, position, size) /\ Len(Queue) = size
  BY QueueType DEF IInv
<1>8. /\ out' = SubSeq(Queue, 1, n) /\ SubSeq(Queue, n + 1, Len(Queue)) = Ring(buf, position', size - n)
      /\ position' \in Index
  <2>1. /\ SubSeq(Ring(buf, position, size), 1, n) = Ring(buf, position, n)
        /\ SubSeq(Ring(buf, position, size), n + 1, size) = Ring(buf, (position + n) % Capacity, size - n)
        /\ (position + n) % Capacity \in Index
    BY <1>2, <1>5, RingFront
  <2> QED BY <1>1, <1>6, <1>7, <2>1
<1>9. Queue' = Ring(buf, position', size - n)
  BY <1>1 DEF Queue, Ring
<1>10. out' \in Seq(Byte)
  BY <1>2, <1>6, RingType
<1>11. total + n \in 0 .. Capacity /\ (total + n) + (size - n) <= Capacity
  BY <1>2, <1>5, BufferAssumption
<1>12. IInv'
  BY <1>1, <1>4, <1>5, <1>8, <1>10, <1>11, BufferAssumption DEF IInv, TypeOK
<1>13. Fifo!ToSocket
  BY <1>4, <1>5, <1>7, <1>8, <1>9 DEF Fifo!ToSocket, Fifo!Front, Fifo!Rest
<1> QED BY <1>12, <1>13 DEF Step, Fifo!Next

LEMMA SocketEndStep == ASSUME IInv, SocketReadEof \/ SocketFails PROVE Step
<1>1. /\ call' = "idle" /\ total' = 0 /\ ret' \in {total, -1} /\ eof' \in {TRUE, eof}
      /\ UNCHANGED <<buf, position, size, out>>
      /\ Queue' = Queue
  BY DEF SocketReadEof, SocketFails, CallReturns, block, Queue
<1>2. eof' \in BOOLEAN
  BY <1>1 DEF IInv, TypeOK
<1>3. 0 \in 0 .. Capacity /\ ret' \in -1 .. Capacity
  <2>1. total \in 0 .. Capacity
    BY DEF IInv, TypeOK
  <2> QED BY <1>1, <2>1, BufferAssumption
<1>4. IInv'
  BY <1>1, <1>2, <1>3 DEF IInv, TypeOK
<1> QED BY <1>1, <1>4 DEF Step, Fifo!Next, Fifo!SocketReturns

-----------------------------------------------------------------------------
LEMMA InitIInv == Init => IInv
<1> SUFFICES ASSUME Init PROVE IInv
  OBVIOUS
<1>1. 0 \in Index /\ 0 \in 0 .. Capacity /\ 0 \in -1 .. Capacity
  BY BufferAssumption DEF Index
<1>2. <<>> \in Seq(Byte)
  BY EmptySeq
<1> QED BY <1>1, <1>2 DEF Init, IInv, TypeOK

LEMMA NextStep == ASSUME IInv, [Next]_vars PROVE Step
<1>1. CASE UNCHANGED vars
  <2>1. UNCHANGED <<buf, position, size, call, total, ret, out, eof>> /\ Queue' = Queue
    BY <1>1 DEF vars, Queue
  <2> QED BY <2>1 DEF IInv, TypeOK, Step
<1> QED BY <1>1, ClearStep, PeekStep, ReadStep, WriteStep, ReadLoopCalled, WriteLoopCalled,
           SocketReadStep, SocketWriteStep, SocketEndStep DEF Next

LEMMA Invariance == Spec => []IInv
<1>1. IInv /\ [Next]_vars => IInv'
  BY NextStep DEF Step
<1> QED BY <1>1, InitIInv, PTL DEF Spec

(* No call or socket loop takes position or size out of the block, or       *)
(* counts more bytes than the buffer holds.                                 *)
THEOREM TypeCorrect == Spec => []TypeOK
<1>1. IInv => TypeOK
  BY DEF IInv
<1> QED BY <1>1, Invariance, PTL

(* The circular block is a FIFO queue, for every capacity: blocks and       *)
(* socket chunks come out whole and in order wherever the data wraps, and   *)
(* each loop reports what it moved.                                         *)
THEOREM FifoImplemented == Spec => ImplementsFifo
<1>1. Init => Fifo!Init
  <2> SUFFICES ASSUME Init PROVE Fifo!Init
    OBVIOUS
  <2>1. Queue = <<>>
    BY InitIInv, QueueType DEF IInv, Init
  <2> QED BY <2>1 DEF Init, Fifo!Init
<1>2. IInv /\ [Next]_vars => [Fifo!Next]_(Fifo!vars)
  BY NextStep DEF Step, Fifo!vars
<1> QED BY <1>1, <1>2, Invariance, PTL DEF Spec, ImplementsFifo, Fifo!Spec

(* A read loop that met no end of file returns 0 only when the buffer is    *)
(* full, which is why do_work may close the connection on a 0; and a write  *)
(* loop stops with bytes left only because the socket took less than it was *)
(* offered.                                                                 *)
THEOREM ResultsMeanWhyHolds == Spec => ResultsMeanWhy
<1> DEFINE A == /\ sgs_impl_read_from_fd \/ (call = "read_fd" /\ call' = "idle") =>
                      (call' = "idle" /\ ret' = 0 /\ size' < Capacity => eof')
                /\ call = "write_fd" /\ call' = "idle" /\ ret' # -1 /\ size' > 0 =>
                      Len(out') < readable_len(position, size)
<1>1. IInv /\ [Next]_vars => [A]_vars
  <2> SUFFICES ASSUME IInv, Next PROVE A
    OBVIOUS
  <2>0. position \in Index /\ size \in 0 .. Capacity /\ total \in 0 .. Capacity
    BY DEF IInv, TypeOK
  <2>1. ASSUME sgs_impl_read_from_fd, call' = "idle" PROVE ~(size' < Capacity)
    <3>1. ~(writable_len(position, size) > 0) /\ size' = size
      BY <2>1 DEF sgs_impl_read_from_fd, block
    <3>2. writable_len(position, size) = 0
      BY <2>0, <3>1, WritableLen, BufferAssumption
    <3> QED BY <2>0, <3>1, <3>2, WritableLen, BufferAssumption
  <2>2. ASSUME call = "read_fd", call' = "idle", ret' = 0 PROVE eof'
    <3>1. (\E n \in 0 .. Capacity : SocketRead(n)) \/ SocketReadEof \/ SocketFails
      BY <2>2 DEF Next, sgs_buffer_clear, sgs_buffer_peek, sgs_buffer_read, sgs_buffer_write,
                  sgs_impl_read_from_fd, sgs_impl_write_to_fd, SocketWrite
    <3>2. ASSUME NEW n \in 0 .. Capacity, SocketRead(n) PROVE FALSE
      <4>1. n \in 1 .. writable_len(position, size) /\ ret' = total + n
        BY <2>2, <3>2 DEF SocketRead, CallReturns
      <4> QED BY <2>0, <2>2, <4>1
    <3> QED BY <3>1, <3>2, <2>2 DEF SocketReadEof, SocketFails, CallReturns
  <2>3. ASSUME call = "write_fd", call' = "idle", ret' # -1, size' > 0
        PROVE  Len(out') < readable_len(position, size)
    <3>1. (\E n \in 0 .. Capacity : SocketWrite(n)) \/ SocketFails
      BY <2>3 DEF Next, sgs_buffer_clear, sgs_buffer_peek, sgs_buffer_read, sgs_buffer_write,
                  sgs_impl_read_from_fd, sgs_impl_write_to_fd, SocketRead, SocketReadEof
    <3>2. ~SocketFails
      BY <2>3 DEF SocketFails, CallReturns
    <3>3. PICK n \in 0 .. Capacity : SocketWrite(n)
      BY <3>1, <3>2
    <3> DEFINE r == readable_len(position, size)
               q == (position + n) % Capacity
    <3>4. n \in 0 .. r /\ size' = size - n /\ out' = CopyOut(position, n)
      BY <3>3 DEF SocketWrite
    <3>5. ~LoopsOn(n, r, readable_len(q, size - n))
      BY <2>3, <3>3 DEF SocketWrite
    <3>6. r \in 0 .. size
      BY <2>0, ReadableLen
    <3> HIDE DEF r
    <3>7. n \in 0 .. size /\ size - n \in 0 .. Capacity /\ size - n # 0
      <4>1. n \in Nat /\ n <= r /\ r <= size /\ size \in Nat /\ size <= Capacity
        BY <2>0, <3>4, <3>6, BufferAssumption
      <4>2. size - n > 0
        BY <2>3, <3>4
      <4> QED BY <4>1, <4>2, BufferAssumption
    <3>8. q \in Index
      BY <2>0, <3>7, RingFront DEF IInv, TypeOK
    <3> HIDE DEF q
    <3>9. readable_len(q, size - n) > 0
      <4> DEFINE s == size - n
      <4>1. s \in 0 .. Capacity /\ s # 0
        BY <3>7
      <4> HIDE DEF s
      <4>2. readable_len(q, s) \in 0 .. s /\ (readable_len(q, s) = 0 => s = 0)
        BY <3>8, <4>1, ReadableLen
      <4>3. readable_len(q, s) > 0
        BY <4>1, <4>2
      <4> QED BY <4>3 DEF s
    <3>10. n < r
      BY <3>4, <3>5, <3>6, <3>9 DEF LoopsOn
    <3>11. Len(CopyOut(position, n)) = n
      <4>1. n \in Nat
        OBVIOUS
      <4> DEFINE d == CopyOut(position, n)
      <4>2. d = [i \in 1 .. n |-> buf[position + i - 1]]
        BY DEF CopyOut
      <4> QED BY <4>1, <4>2
    <3> QED BY <3>4, <3>10, <3>11 DEF r
  <2> QED BY <2>1, <2>2, <2>3
<1> QED BY <1>1, Invariance, PTL DEF Spec, ResultsMeanWhy

=============================================================================
