--------------------------- MODULE SgsMessageProofs ---------------------------
(***************************************************************************)
(* Proofs about SgsMessage: for every base of the lengths and every size of *)
(* what is sent and received, a message within the payload of protocol.h    *)
(* goes out as protocol.h says and is handed up as it was sent.  Nothing is *)
(* assumed but MessageAssumption.                                           *)
(***************************************************************************)
EXTENDS SgsMessage, SequenceTheorems, TLAPS

Bytes == Seq(Int)

Buffers == [Cells -> Int]

Holds(buf, at, s) == \A i \in 1 .. Len(s) : buf[at + i - 1] = s[i]

(* The cells from a place on. *)
Kept(new, old, from) == \A i \in Cells : i >= from => new[i] = old[i]

LEMMA WordIs == Byte \in Nat /\ Byte >= 4 /\ Word \in Nat /\ Word >= 16 /\ Word \div 2 \in Nat
<1>1. Byte \in Nat /\ Byte >= 4
  BY MessageAssumption
<1>2. Byte * Byte \in Nat /\ Byte * Byte >= 16
  <2> DEFINE d == Byte - 4
  <2>1. d \in Nat /\ Byte = d + 4
    BY <1>1
  <2> HIDE DEF d
  <2>2. Byte * Byte = d * d + 8 * d + 16
    BY <2>1
  <2>3. d * d \in Nat
    BY <2>1
  <2> QED BY <2>1, <2>2, <2>3
<1> HIDE DEF Word
<1> QED BY <1>1, <1>2 DEF Word

LEMMA CellsAre == Cells = 0 .. Word /\ SGS_MSG_MAX_LENGTH = Word - 1 /\ SGS_MAX_PAYLOAD_LENGTH = Word - 3
                  /\ SGS_MSG_INIT_LEN = 2
BY WordIs DEF Cells, SGS_MSG_MAX_LENGTH, SGS_MAX_PAYLOAD_LENGTH, SGS_MSG_INIT_LEN

LEMMA DigitsAre ==
    ASSUME NEW n \in Nat
    PROVE  Digits(n) \in Bytes /\ Len(Digits(n)) = 2 /\ (n < Word => Number(Digits(n)) = n)
<1> DEFINE d == (n % Word) \div Byte
           e == n % Byte
<1>1. d \in Int /\ e \in Int
  BY WordIs
<1>2. n < Word => d * Byte + e = n
  <2> SUFFICES ASSUME n < Word PROVE d * Byte + e = n
    OBVIOUS
  <2>1. n % Word = n
    BY WordIs
  <2>2. d = n \div Byte
    BY <2>1
  <2>3. n = Byte * (n \div Byte) + (n % Byte)
    BY WordIs
  <2> QED BY <2>2, <2>3, WordIs
<1>3. Digits(n) = <<d, e>>
  BY DEF Digits
<1> HIDE DEF d, e
<1>4. <<d, e>> \in Bytes /\ Len(<<d, e>>) = 2 /\ <<d, e>>[1] = d /\ <<d, e>>[2] = e
  BY <1>1 DEF Bytes
<1> QED BY <1>2, <1>3, <1>4 DEF Number

LEMMA OverlayIs ==
    ASSUME NEW buf \in Buffers, NEW at \in Nat, NEW s \in Bytes
    PROVE  /\ Overlay(buf, at, s) \in Buffers
           /\ \A i \in Cells : Overlay(buf, at, s)[i] = IF at <= i /\ i < at + Len(s) THEN s[i - at + 1] ELSE buf[i]
<1>1. DOMAIN s = 1 .. Len(s) /\ Len(s) \in Nat /\ \A i \in 1 .. Len(s) : s[i] \in Int
  BY LenProperties, ElementOfSeq DEF Bytes
<1>2. \A i \in Cells : i \in Int
  BY CellsAre, WordIs
<1>3. \A i \in Cells : i - at + 1 \in DOMAIN s <=> at <= i /\ i < at + Len(s)
  BY <1>1, <1>2
<1>4. \A i \in Cells : buf[i] \in Int
  BY DEF Buffers
<1>5. \A i \in Cells : Overlay(buf, at, s)[i] = IF at <= i /\ i < at + Len(s) THEN s[i - at + 1] ELSE buf[i]
  BY <1>3 DEF Overlay
<1>6. ASSUME NEW i \in Cells
      PROVE  (IF i - at + 1 \in DOMAIN s THEN s[i - at + 1] ELSE buf[i]) \in Int
  BY <1>1, <1>4
<1>7. Overlay(buf, at, s) \in Buffers
  BY <1>6 DEF Overlay, Buffers
<1> QED BY <1>5, <1>7

LEMMA OverlayType ==
    ASSUME NEW buf \in Buffers, NEW at \in Nat, NEW s \in Bytes
    PROVE  Overlay(buf, at, s) \in Buffers
BY OverlayIs

LEMMA Written ==
    ASSUME NEW buf \in Buffers, NEW at \in Nat, NEW s \in Bytes,
           NEW to \in Nat, to = at + Len(s), to <= Word + 1
    PROVE  Holds(Overlay(buf, at, s), at, s) /\ Kept(Overlay(buf, at, s), buf, to)
<1>1. Len(s) \in Nat
  BY LenProperties DEF Bytes
<1>2. Cells = 0 .. Word /\ Word \in Nat
  BY CellsAre, WordIs
<1>3. ASSUME NEW i \in 1 .. Len(s) PROVE Overlay(buf, at, s)[at + i - 1] = s[i]
  <2> DEFINE k == at + i - 1
  <2>1. k \in Cells /\ at <= k /\ k < at + Len(s) /\ k - at + 1 = i
    BY <1>1, <1>2
  <2> HIDE DEF k
  <2>2. Overlay(buf, at, s)[k] = s[i]
    BY <2>1, OverlayIs
  <2> QED BY <2>2 DEF k
<1>4. ASSUME NEW i \in Cells, i >= to PROVE Overlay(buf, at, s)[i] = buf[i]
  <2>1. ~(at <= i /\ i < at + Len(s))
    BY <1>1, <1>2, <1>4
  <2> QED BY <2>1, OverlayIs
<1> QED BY <1>3, <1>4 DEF Holds, Kept

LEMMA HoldsApart ==
    ASSUME NEW buf \in Buffers, NEW at \in Nat, NEW s \in Bytes, NEW x \in Nat, NEW t \in Bytes,
           x + Len(t) <= Word + 1, x + Len(t) <= at \/ at + Len(s) <= x, Holds(buf, x, t)
    PROVE  Holds(Overlay(buf, at, s), x, t)
<1>1. Len(s) \in Nat /\ Len(t) \in Nat
  BY LenProperties DEF Bytes
<1>2. Cells = 0 .. Word /\ Word \in Nat
  BY CellsAre, WordIs
<1> SUFFICES ASSUME NEW i \in 1 .. Len(t) PROVE Overlay(buf, at, s)[x + i - 1] = t[i]
  BY DEF Holds
<1> DEFINE k == x + i - 1
<1>3. k \in Cells /\ ~(at <= k /\ k < at + Len(s))
  BY <1>1, <1>2
<1>4. buf[k] = t[i]
  BY DEF Holds
<1> HIDE DEF k
<1>5. Overlay(buf, at, s)[k] = buf[k]
  BY <1>3, OverlayIs
<1> QED BY <1>4, <1>5 DEF k

LEMMA HoldsKept ==
    ASSUME NEW new, NEW old, NEW from \in Nat, NEW x \in Nat, NEW t \in Bytes,
           Kept(new, old, from), from <= x, x + Len(t) <= Word + 1, Holds(old, x, t)
    PROVE  Holds(new, x, t)
<1>1. Len(t) \in Nat
  BY LenProperties DEF Bytes
<1>2. Cells = 0 .. Word /\ Word \in Nat
  BY CellsAre, WordIs
<1> SUFFICES ASSUME NEW i \in 1 .. Len(t) PROVE new[x + i - 1] = t[i]
  BY DEF Holds
<1> DEFINE k == x + i - 1
<1>3. k \in Cells /\ k >= from
  BY <1>1, <1>2
<1>4. old[k] = t[i]
  BY DEF Holds
<1> HIDE DEF k
<1>5. new[k] = old[k]
  BY <1>3 DEF Kept
<1> QED BY <1>4, <1>5 DEF k

LEMMA JoinIs ==
    ASSUME NEW s \in Bytes, NEW t \in Bytes
    PROVE  s \o t \in Bytes /\ Len(s \o t) = Len(s) + Len(t)
BY ConcatProperties DEF Bytes

LEMMA JoinAssociative ==
    ASSUME NEW s \in Bytes, NEW t \in Bytes, NEW u \in Bytes
    PROVE  (s \o t) \o u = s \o (t \o u)
BY ConcatAssociative DEF Bytes

LEMMA HoldsBoth ==
    ASSUME NEW buf, NEW at \in Nat, NEW s \in Bytes, NEW t \in Bytes
    PROVE  /\ s \o t \in Bytes /\ Len(s \o t) = Len(s) + Len(t)
           /\ Holds(buf, at, s \o t) <=> Holds(buf, at, s) /\ Holds(buf, at + Len(s), t)
<1>1. Len(s) \in Nat /\ Len(t) \in Nat
  BY LenProperties DEF Bytes
<1>2. /\ s \o t \in Bytes /\ Len(s \o t) = Len(s) + Len(t)
      /\ \A i \in 1 .. Len(s) + Len(t) : (s \o t)[i] = IF i <= Len(s) THEN s[i] ELSE t[i - Len(s)]
  BY ConcatProperties DEF Bytes
<1> DEFINE r == s \o t
           m == Len(s)
           n == Len(t)
<1>3. /\ m \in Nat /\ n \in Nat /\ Len(r) = m + n
      /\ \A i \in 1 .. m + n : r[i] = IF i <= m THEN s[i] ELSE t[i - m]
  BY <1>1, <1>2
<1> HIDE DEF r, m, n
<1>4. ASSUME Holds(buf, at, r) PROVE Holds(buf, at, s) /\ Holds(buf, at + m, t)
  <2>1. ASSUME NEW i \in 1 .. m PROVE buf[at + i - 1] = s[i]
    <3>1. i \in 1 .. m + n /\ i <= m
      BY <1>3
    <3> QED BY <1>3, <1>4, <3>1 DEF Holds
  <2>2. ASSUME NEW i \in 1 .. n PROVE buf[at + m + i - 1] = t[i]
    <3> DEFINE k == m + i
    <3>1. k \in 1 .. m + n /\ ~(k <= m)
      BY <1>3
    <3>2. k - m = i /\ at + k - 1 = at + m + i - 1
      BY <1>3
    <3> HIDE DEF k
    <3>3. buf[at + k - 1] = r[k] /\ r[k] = t[i]
      BY <1>3, <1>4, <3>1, <3>2 DEF Holds
    <3> QED BY <3>2, <3>3
  <2> QED BY <2>1, <2>2 DEF Holds, m, n
<1>5. ASSUME Holds(buf, at, s), Holds(buf, at + m, t) PROVE Holds(buf, at, r)
  <2> SUFFICES ASSUME NEW i \in 1 .. m + n PROVE buf[at + i - 1] = r[i]
    BY <1>3 DEF Holds
  <2>1. CASE i <= m
    <3>1. i \in 1 .. m
      BY <1>3, <2>1
    <3> QED BY <1>3, <1>5, <2>1, <3>1 DEF Holds, m
  <2>2. CASE ~(i <= m)
    <3> DEFINE k == i - m
    <3>1. k \in 1 .. n /\ at + m + k - 1 = at + i - 1
      BY <1>3, <2>2
    <3>2. r[i] = t[k]
      BY <1>3, <2>2
    <3> HIDE DEF k
    <3>3. buf[at + m + k - 1] = t[k]
      BY <1>5, <3>1 DEF Holds, n
    <3> QED BY <3>1, <3>2, <3>3
  <2> QED BY <2>1, <2>2
<1> QED BY <1>2, <1>4, <1>5 DEF r, m

LEMMA CopyIs ==
    ASSUME NEW buf, NEW at \in Nat, NEW s \in Bytes, Holds(buf, at, s)
    PROVE  Copy(buf, at, Len(s)) = s
<1>1. Len(s) \in Nat /\ s = [i \in 1 .. Len(s) |-> s[i]]
  BY LenProperties DEF Bytes
<1>2. \A i \in 1 .. Len(s) : buf[at + i - 1] = s[i]
  BY DEF Holds
<1>3. Copy(buf, at, Len(s)) = [i \in 1 .. Len(s) |-> s[i]]
  BY <1>2 DEF Copy
<1> QED BY <1>1, <1>3
-----------------------------------------------------------------------------
(***************************************************************************)
(* Building.  As long as no call failed a message holds its length, its     *)
(* opcode and the fields added so far.                                      *)
(***************************************************************************)
Msg(b, n, e) == [buf |-> b, len |-> n, err |-> e]

Errors == {"none", "EMSGSIZE", "SGS_ERR_SIZE_ARG_TOO_LARGE"}

Messages == [buf : Buffers, len : Nat, err : Errors]

Good(m, opcode, body) ==
    /\ m.err = "none"
    /\ m.len = 1 + Len(body)
    /\ Holds(m.buf, 0, Digits(m.len))
    /\ Holds(m.buf, 2, <<opcode>>)
    /\ Holds(m.buf, 3, body)

LEMMA MessageIs ==
    ASSUME NEW m \in Messages
    PROVE  m.buf \in Buffers /\ m.len \in Nat /\ m.err \in Errors /\ m = Msg(m.buf, m.len, m.err)
BY DEF Messages, Msg

LEMMA MsgIs ==
    ASSUME NEW b, NEW n, NEW e
    PROVE  /\ Msg(b, n, e).buf = b /\ Msg(b, n, e).len = n /\ Msg(b, n, e).err = e
           /\ b \in Buffers /\ n \in Nat /\ e \in Errors => Msg(b, n, e) \in Messages
BY DEF Messages, Msg

LEMMA UpdateIs ==
    ASSUME NEW b \in Buffers, NEW n \in Nat, NEW e
    PROVE  /\ update_msg_len(Msg(b, n, e)) = Msg(Overlay(b, 0, Digits(n)), n, e)
           /\ Overlay(b, 0, Digits(n)) \in Buffers
           /\ Holds(Overlay(b, 0, Digits(n)), 0, Digits(n))
           /\ Kept(Overlay(b, 0, Digits(n)), b, 2)
<1> DEFINE d == Digits(n)
<1>1. d \in Bytes /\ Len(d) = 2
  BY DigitsAre
<1>2. update_msg_len(Msg(b, n, e)) = Msg(Overlay(b, 0, d), n, e)
  BY DEF update_msg_len, Msg
<1> HIDE DEF d
<1>3. Overlay(b, 0, d) \in Buffers
  BY <1>1, OverlayType
<1>4. 2 = 0 + Len(d) /\ 2 <= Word + 1
  BY <1>1, WordIs
<1>5. Holds(Overlay(b, 0, d), 0, d) /\ Kept(Overlay(b, 0, d), b, 2)
  BY <1>1, <1>4, Written
<1> QED BY <1>2, <1>3, <1>5 DEF d

LEMMA ExtendIs ==
    ASSUME NEW b \in Buffers, NEW n \in Nat, NEW e, NEW s \in Bytes
    PROVE  /\ Extend(Msg(b, n, e), s) = Msg(Overlay(b, n + 2, s), n + Len(s), e)
           /\ Overlay(b, n + 2, s) \in Buffers /\ n + Len(s) \in Nat
<1>1. Len(s) \in Nat
  BY LenProperties DEF Bytes
<1>2. SGS_MSG_LENGTH_OFFSET = 2
  BY DEF SGS_MSG_LENGTH_OFFSET
<1>3. Extend(Msg(b, n, e), s) = Msg(Overlay(b, n + 2, s), n + Len(s), e)
  BY <1>2, MsgIs DEF Extend, Msg
<1>4. n + 2 \in Nat
  OBVIOUS
<1> QED BY <1>1, <1>3, <1>4, OverlayType

(* A field appended to a message that has the buffer b, where there is room for it. *)
LEMMA Appended ==
    ASSUME NEW b \in Buffers, NEW opcode \in Int, NEW body \in Bytes, NEW s \in Bytes,
           Holds(b, 2, <<opcode>>), Holds(b, 3, body), 3 + Len(body) + Len(s) <= Word + 1
    PROVE  LET new == Overlay(b, 3 + Len(body), s)
           IN /\ new \in Buffers
              /\ Holds(new, 2, <<opcode>>)
              /\ Holds(new, 3, body \o s)
              /\ Kept(new, b, 3 + Len(body) + Len(s))
<1> DEFINE at == 3 + Len(body)
           new == Overlay(b, at, s)
           op == <<opcode>>
<1>1. Len(body) \in Nat /\ Len(s) \in Nat /\ op \in Bytes /\ Len(op) = 1
  BY LenProperties DEF Bytes
<1>2. at \in Nat /\ 3 + Len(body) = at
  BY <1>1
<1>3. Holds(b, 2, op)
  OBVIOUS
<1> HIDE DEF at, new, op
<1>4. new \in Buffers
  BY <1>2, OverlayType DEF new
<1>5. at + Len(s) <= Word + 1 /\ 3 + Len(body) <= Word + 1
  BY <1>1, <1>2, WordIs
<1>6. Holds(new, at, s) /\ Kept(new, b, at + Len(s))
  BY <1>2, <1>5, Written DEF new
<1>7. Holds(new, 3, body)
  BY <1>2, <1>5, HoldsApart DEF new
<1>8. Holds(new, 2, op)
  <2>1. 2 + Len(op) <= at /\ 2 + Len(op) <= Word + 1
    BY <1>1, <1>2, WordIs
  <2> QED BY <1>1, <1>2, <1>3, <2>1, HoldsApart DEF new
<1>9. Holds(new, 3, body \o s)
  BY <1>2, <1>6, <1>7, HoldsBoth
<1> QED BY <1>2, <1>4, <1>6, <1>8, <1>9 DEF at, new, op

LEMMA Started ==
    ASSUME NEW buf \in Buffers, NEW opcode \in Int
    PROVE  LET m == sgs_msg_init(buf, opcode)
           IN m \in Messages /\ Good(m, opcode, <<>>) /\ Kept(m.buf, buf, 3)
<1> DEFINE op == <<opcode>>
           b == Overlay(buf, 2, op)
           c == Overlay(b, 0, Digits(1))
           m == sgs_msg_init(buf, opcode)
<1>1. op \in Bytes /\ Len(op) = 1 /\ <<>> \in Bytes /\ Len(<<>>) = 0
  BY DEF Bytes
<1>2. SGS_OPCODE_OFFSET = 2
  BY DEF SGS_OPCODE_OFFSET
<1>3. m = update_msg_len(Msg(b, 1, "none"))
  BY <1>2 DEF sgs_msg_init, Msg
<1> HIDE DEF op, b, m
<1>4. b \in Buffers /\ Holds(b, 2, op) /\ Kept(b, buf, 3)
  <2>1. 2 + Len(op) <= Word + 1 /\ 2 + Len(op) = 3
    BY <1>1, WordIs
  <2> QED BY <1>1, <2>1, OverlayIs, Written DEF b
<1>5. /\ m = Msg(c, 1, "none")
      /\ c \in Buffers /\ Holds(c, 0, Digits(1)) /\ Kept(c, b, 2)
  <2> HIDE DEF c
  <2> QED BY <1>3, <1>4, UpdateIs DEF c
<1> HIDE DEF c
<1>6. Holds(c, 2, op)
  <2>1. 2 + Len(op) <= Word + 1 /\ 2 \in Nat /\ 2 <= 2
    BY <1>1, WordIs
  <2> QED BY <1>1, <1>4, <1>5, <2>1, HoldsKept, Zenon
<1>7. Kept(c, buf, 3)
  BY <1>4, <1>5, CellsAre DEF Kept
<1>8. Holds(c, 3, <<>>)
  BY <1>1 DEF Holds
<1>9. m.buf = c /\ m.len = 1 /\ m.err = "none" /\ m \in Messages
  <2>1. m.buf = c /\ m.len = 1 /\ m.err = "none"
    BY <1>5, MsgIs
  <2>2. 1 \in Nat /\ "none" \in Errors
    BY DEF Errors
  <2> QED BY <1>5, <2>1, <2>2, MsgIs, Zenon
<1>10. Good(m, opcode, <<>>)
  BY <1>1, <1>5, <1>6, <1>8, <1>9 DEF Good, op
<1> QED BY <1>7, <1>9, <1>10 DEF m

(* The length written in front once a field is there. *)
LEMMA Counted ==
    ASSUME NEW x \in Buffers, NEW opcode \in Int, NEW body \in Bytes, NEW n \in Nat, n = 1 + Len(body),
           3 + Len(body) <= Word + 1, Holds(x, 2, <<opcode>>), Holds(x, 3, body)
    PROVE  LET new == update_msg_len(Msg(x, n, "none"))
           IN new \in Messages /\ Good(new, opcode, body) /\ Kept(new.buf, x, 2)
<1> DEFINE op == <<opcode>>
           new == update_msg_len(Msg(x, n, "none"))
           c == Overlay(x, 0, Digits(n))
<1>1. op \in Bytes /\ Len(op) = 1 /\ Len(body) \in Nat
  BY LenProperties DEF Bytes
<1>2. new = Msg(c, n, "none") /\ c \in Buffers /\ Holds(c, 0, Digits(n)) /\ Kept(c, x, 2)
  BY UpdateIs
<1>3. Holds(x, 2, op)
  OBVIOUS
<1> HIDE DEF op, new, c
<1>4. Holds(c, 2, op)
  <2>1. 2 + Len(op) <= Word + 1 /\ 2 \in Nat /\ 2 <= 2
    BY <1>1, WordIs
  <2> QED BY <1>1, <1>2, <1>3, <2>1, HoldsKept, Zenon
<1>5. Holds(c, 3, body)
  <2>1. 2 \in Nat /\ 3 \in Nat /\ 2 <= 3
    OBVIOUS
  <2> QED BY <1>2, <2>1, HoldsKept, Zenon
<1>6. new.buf = c /\ new.len = n /\ new.err = "none"
  BY <1>2, MsgIs
<1>7. new \in Messages
  <2>1. "none" \in Errors
    BY DEF Errors
  <2> QED BY <1>2, <2>1, MsgIs
<1>8. Good(new, opcode, body)
  BY <1>2, <1>4, <1>5, <1>6 DEF Good, op
<1> QED BY <1>2, <1>6, <1>7, <1>8 DEF new

LEMMA ArbAdded ==
    ASSUME NEW m \in Messages, NEW opcode \in Int, NEW body \in Bytes, NEW content \in Bytes,
           NEW to \in Nat, to = 3 + Len(body) + Len(content), to <= Word - 1, Good(m, opcode, body)
    PROVE  LET new == sgs_msg_add_arb_content(m, content)
           IN new \in Messages /\ Good(new, opcode, body \o content) /\ Kept(new.buf, m.buf, to)
<1> DEFINE new == sgs_msg_add_arb_content(m, content)
           b == m.buf
           all == body \o content
           at == 3 + Len(body)
           x == Overlay(b, at, content)
           n == 1 + Len(all)
<1>1. Len(body) \in Nat /\ Len(content) \in Nat /\ all \in Bytes /\ Len(all) = Len(body) + Len(content)
  BY LenProperties, HoldsBoth DEF Bytes
<1>2. b \in Buffers /\ m = Msg(b, 1 + Len(body), "none") /\ m.err = "none" /\ m.len = 1 + Len(body)
  BY MessageIs DEF Good
<1>3. TooLong(m, m.len + Len(content)) = "none"
  <2>1. ~(m.len + Len(content) > Word - 1)
    BY <1>1, <1>2, WordIs
  <2> QED BY <1>2, <2>1, CellsAre DEF TooLong
<1>4. new = update_msg_len(Extend(m, content))
  BY <1>3 DEF sgs_msg_add_arb_content
<1>5. Extend(m, content) = Msg(x, n, "none")
  <2> DEFINE len == 1 + Len(body)
  <2>1. len \in Nat /\ len + 2 = at /\ len + Len(content) = n /\ m = Msg(b, len, "none")
    BY <1>1, <1>2
  <2> HIDE DEF len, at, n, b
  <2>2. Extend(Msg(b, len, "none"), content) = Msg(Overlay(b, len + 2, content), len + Len(content), "none")
    BY <1>2, <2>1, ExtendIs
  <2> QED BY <2>1, <2>2
<1>6. x \in Buffers /\ Holds(x, 2, <<opcode>>) /\ Holds(x, 3, all) /\ Kept(x, b, 3 + Len(body) + Len(content))
  <2>1. Holds(b, 2, <<opcode>>) /\ Holds(b, 3, body)
    BY DEF Good
  <2>2. 3 + Len(body) + Len(content) <= Word + 1
    BY <1>1, WordIs
  <2> HIDE DEF b
  <2> QED BY <1>2, <2>1, <2>2, Appended
<1>7. n \in Nat /\ 3 + Len(all) <= Word + 1 /\ n = 1 + Len(all) /\ to >= 2
  BY <1>1, WordIs
<1> HIDE DEF new, b, all, at, x, n
<1>8. new \in Messages /\ Good(new, opcode, all) /\ Kept(new.buf, x, 2)
  BY <1>1, <1>4, <1>5, <1>6, <1>7, Counted
<1>9. Kept(new.buf, b, to)
  BY <1>6, <1>7, <1>8, CellsAre, WordIs DEF Kept
<1> QED BY <1>8, <1>9 DEF new, b, all

LEMMA StringIs ==
    ASSUME NEW s \in Bytes
    PROVE  String(s) = Digits(Len(s)) \o s /\ String(s) \in Bytes /\ Len(String(s)) = 2 + Len(s) /\ Len(s) \in Nat
<1>1. Len(s) \in Nat
  BY LenProperties DEF Bytes
<1>2. Digits(Len(s)) \in Bytes /\ Len(Digits(Len(s))) = 2
  BY <1>1, DigitsAre
<1> QED BY <1>1, <1>2, HoldsBoth DEF String

LEMMA FixedAdded ==
    ASSUME NEW m \in Messages, NEW opcode \in Int, NEW body \in Bytes, NEW content \in Bytes,
           NEW to \in Nat, to = 5 + Len(body) + Len(content), to <= Word - 1, Good(m, opcode, body)
    PROVE  LET new == sgs_msg_add_fixed_content(m, content)
           IN new \in Messages /\ Good(new, opcode, body \o String(content)) /\ Kept(new.buf, m.buf, to)
<1> DEFINE new == sgs_msg_add_fixed_content(m, content)
           b == m.buf
           d == Digits(Len(content))
           part == body \o d
           all == part \o content
           at == 3 + Len(body)
           x == Overlay(b, at, d)
           y == Overlay(x, at + 2, content)
           n == 1 + Len(all)
           op == <<opcode>>
<1>1. /\ Len(body) \in Nat /\ Len(content) \in Nat /\ d \in Bytes /\ Len(d) = 2
      /\ part \in Bytes /\ Len(part) = Len(body) + 2
      /\ all \in Bytes /\ Len(all) = Len(body) + 2 + Len(content)
  <2>1. Len(body) \in Nat /\ Len(content) \in Nat
    BY LenProperties DEF Bytes
  <2>2. d \in Bytes /\ Len(d) = 2
    BY <2>1, DigitsAre
  <2> HIDE DEF d
  <2>3. part \in Bytes /\ Len(part) = Len(body) + 2
    <3>1. body \o d \in Bytes /\ Len(body \o d) = Len(body) + Len(d)
      BY <2>2, JoinIs, Zenon
    <3> QED BY <2>2, <3>1
  <2> HIDE DEF part
  <2>4. all \in Bytes /\ Len(all) = Len(part) + Len(content)
    BY <2>3, JoinIs
  <2> HIDE DEF all
  <2> QED BY <2>1, <2>2, <2>3, <2>4
<1>2. body \o String(content) = all
  <2> HIDE DEF d
  <2>1. String(content) = d \o content
    BY DEF String, d
  <2>2. (body \o d) \o content = body \o (d \o content)
    BY <1>1, JoinAssociative, Zenon
  <2> QED BY <2>1, <2>2
<1>3. b \in Buffers /\ m = Msg(b, 1 + Len(body), "none") /\ m.err = "none" /\ m.len = 1 + Len(body)
  BY MessageIs DEF Good
<1>4. new = update_msg_len(Extend(Extend(m, d), content))
  <2>1. ~(m.len + Len(content) + 2 > Word - 1) /\ ~(Len(content) > Word - 1)
    BY <1>1, <1>3, WordIs
  <2>2. TooLong(m, m.len + Len(content) + 2) = "none"
    BY <1>3, <2>1, CellsAre DEF TooLong
  <2>3. ~(m.err = "none" /\ Len(content) > SGS_MSG_MAX_LENGTH)
    BY <2>1, CellsAre
  <2> HIDE DEF d
  <2>4. new = IF TooLong(m, m.len + Len(content) + 2) # "none"
              THEN [m EXCEPT !.err = TooLong(m, m.len + Len(content) + 2)]
              ELSE update_msg_len(Extend(Extend(m, d), content))
    BY <2>3 DEF sgs_msg_add_fixed_content, d
  <2> QED BY <2>2, <2>4
<1> HIDE DEF d
<1>5. Extend(Extend(m, d), content) = Msg(y, n, "none") /\ x \in Buffers
  <2> DEFINE len == 1 + Len(body)
  <2>1. /\ len \in Nat /\ len + 2 = at /\ m = Msg(b, len, "none")
        /\ len + Len(d) \in Nat /\ len + Len(d) + 2 = at + 2 /\ len + Len(d) + Len(content) = n
    BY <1>1, <1>3
  <2> HIDE DEF len, at, n, b
  <2>2. /\ Extend(Msg(b, len, "none"), d) = Msg(Overlay(b, len + 2, d), len + Len(d), "none")
        /\ Overlay(b, len + 2, d) \in Buffers
    <3>1. b \in Buffers /\ len \in Nat /\ d \in Bytes
      BY <1>1, <1>3, <2>1
    <3> QED BY ONLY <3>1, ExtendIs
  <2>3. Extend(m, d) = Msg(x, len + Len(d), "none") /\ x \in Buffers
    BY <2>1, <2>2
  <2> DEFINE k == len + Len(d)
  <2>4. k \in Nat /\ k + 2 = at + 2 /\ k + Len(content) = n /\ Extend(m, d) = Msg(x, k, "none")
    BY <2>1, <2>3
  <2> HIDE DEF k, x
  <2>5. Extend(Msg(x, k, "none"), content) = Msg(Overlay(x, k + 2, content), k + Len(content), "none")
    BY <2>3, <2>4, ExtendIs
  <2> QED BY <2>3, <2>4, <2>5
<1> HIDE DEF op
<1>6. x \in Buffers /\ Holds(x, 2, op) /\ Holds(x, 3, part) /\ Kept(x, b, 3 + Len(body) + Len(d))
  <2>1. Holds(b, 2, op) /\ Holds(b, 3, body)
    BY DEF Good, op
  <2>2. 3 + Len(body) + Len(d) <= Word + 1
    BY <1>1, WordIs
  <2> HIDE DEF b
  <2> QED BY <1>1, <1>3, <2>1, <2>2, Appended DEF op
<1> HIDE DEF part
<1>7. y \in Buffers /\ Holds(y, 2, op) /\ Holds(y, 3, all) /\ Kept(y, x, 3 + Len(part) + Len(content))
  <2>1. 3 + Len(part) + Len(content) <= Word + 1 /\ 3 + Len(part) = at + 2
    BY <1>1, WordIs
  <2> HIDE DEF x, at
  <2> QED BY <1>1, <1>6, <2>1, Appended DEF op
<1>8. /\ n \in Nat /\ 3 + Len(all) <= Word + 1 /\ n = 1 + Len(all) /\ to >= 2
      /\ 3 + Len(part) + Len(content) = to /\ 3 + Len(body) + Len(d) <= to
  BY <1>1, WordIs
<1> HIDE DEF new, b, all, at, x, y, n
<1>9. new \in Messages /\ Good(new, opcode, all) /\ Kept(new.buf, y, 2)
  BY <1>1, <1>4, <1>5, <1>7, <1>8, Counted DEF op
<1>10. Kept(new.buf, b, to)
  <2> SUFFICES ASSUME NEW i \in Cells, i >= to PROVE new.buf[i] = b[i]
    BY DEF Kept
  <2>1. i \in Nat
    BY CellsAre, WordIs
  <2>2. new.buf[i] = y[i]
    BY <1>8, <1>9, <2>1 DEF Kept
  <2>3. y[i] = x[i]
    BY <1>7, <1>8, <2>1 DEF Kept
  <2> DEFINE k == 3 + Len(body) + Len(d)
  <2>4. k \in Nat /\ k <= to
    BY <1>1, <1>8
  <2>5. Kept(x, b, k)
    BY <1>6
  <2> HIDE DEF k
  <2>6. x[i] = b[i]
    BY <2>1, <2>4, <2>5 DEF Kept
  <2> QED BY <2>2, <2>3, <2>6
<1> QED BY <1>2, <1>9, <1>10 DEF new, b

(***************************************************************************)
(* A string goes in like a field, unless it is too long for an int16_t;     *)
(* after an error nothing is written any more.                              *)
(***************************************************************************)
LEMMA StringAdded ==
    ASSUME NEW m \in Messages, NEW opcode \in Int, NEW body \in Bytes, NEW s \in Bytes,
           NEW to \in Nat, to = 5 + Len(body) + Len(s), to <= Word - 1, Good(m, opcode, body)
    PROVE  LET new == sgs_msg_add_string(m, s)
           IN /\ new \in Messages /\ Kept(new.buf, m.buf, to)
              /\ Len(s) < Word \div 2 => Good(new, opcode, body \o String(s))
              /\ Len(s) >= Word \div 2 => new.err # "none"
<1> DEFINE new == sgs_msg_add_string(m, s)
           n == Len(s)
           h == Word \div 2
<1>1. n \in Nat /\ n < Word /\ Len(body) \in Nat /\ h \in Nat /\ m.err = "none"
  BY LenProperties, WordIs DEF Bytes, Good
<1>2. Int16(n) = IF n >= h THEN n - Word ELSE n
  <2>1. n % Word = n
    BY <1>1, WordIs
  <2> HIDE DEF n, h
  <2> QED BY <2>1 DEF Int16, h
<1>3. CASE n >= h
  <2>1. Int16(n) < 0
    <3> HIDE DEF n, h
    <3> QED BY <1>1, <1>2, <1>3, WordIs
  <2>2. new = [m EXCEPT !.err = "SGS_ERR_SIZE_ARG_TOO_LARGE"]
    BY <1>1, <2>1 DEF sgs_msg_add_string
  <2> HIDE DEF new
  <2>3. new \in Messages /\ new.err = "SGS_ERR_SIZE_ARG_TOO_LARGE" /\ new.buf = m.buf
    BY <2>2 DEF Messages, Errors
  <2>4. Kept(new.buf, m.buf, to)
    BY <2>3 DEF Kept
  <2>5. new.err # "none" /\ ~(n < h)
    BY <1>1, <1>3, <2>3
  <2> QED BY <2>3, <2>4, <2>5 DEF new
<1>4. CASE n < h
  <2>1. Int16(n) = n /\ ~(Int16(n) < 0) /\ ~(n >= h)
    <3> HIDE DEF n, h
    <3> QED BY <1>1, <1>2, <1>4
  <2>2. SubSeq(s, 1, n) = s
    <3>1. \A i \in 1 .. n : s[i] \in Int
      BY ElementOfSeq DEF Bytes
    <3>2. /\ SubSeq(s, 1, n) \in Bytes /\ Len(SubSeq(s, 1, n)) = n
          /\ \A i \in 1 .. n : SubSeq(s, 1, n)[i] = s[1 + i - 1]
      <4> HIDE DEF n
      <4>1. 1 \in Int /\ n \in Int /\ n - 1 + 1 = n /\ (IF 1 <= n THEN n - 1 + 1 ELSE 0) = n
        BY <1>1
      <4> QED BY <3>1, <4>1, SubSeqProperties DEF Bytes
    <3> DEFINE t == SubSeq(s, 1, n)
    <3>3. t \in Bytes /\ Len(t) = Len(s) /\ \A i \in 1 .. Len(s) : t[i] = s[i]
      <4>1. \A i \in 1 .. n : 1 + i - 1 = i
        OBVIOUS
      <4> QED BY <3>2, <4>1
    <3> HIDE DEF t
    <3>4. t = s
      BY <3>3, SeqEqual DEF Bytes
    <3> QED BY <3>4 DEF t
  <2>3. new = sgs_msg_add_fixed_content(m, s)
    BY <2>1, <2>2 DEF sgs_msg_add_string
  <2> HIDE DEF new
  <2>4. new \in Messages /\ Good(new, opcode, body \o String(s)) /\ Kept(new.buf, m.buf, to)
    BY <2>3, FixedAdded
  <2> QED BY <2>1, <2>4 DEF new
<1> QED BY <1>1, <1>3, <1>4

LEMMA NothingAdded ==
    ASSUME NEW m \in Messages, NEW s, m.err # "none"
    PROVE  sgs_msg_add_string(m, s) = m
<1>1. TooLong(m, m.len + Len(SubSeq(s, 1, Int16(Len(s)))) + 2) = m.err
  BY DEF TooLong
<1>2. [m EXCEPT !.err = m.err] = m
  BY DEF Messages
<1> QED BY <1>1, <1>2 DEF sgs_msg_add_string, sgs_msg_add_fixed_content

-----------------------------------------------------------------------------
(***************************************************************************)
(* A message stays one whatever is added: also an oversize one, and one     *)
(* that a call refused.                                                     *)
(***************************************************************************)
LEMMA UpdateType ==
    ASSUME NEW m \in Messages
    PROVE  update_msg_len(m) \in Messages
<1> DEFINE b == m.buf
           n == m.len
           e == m.err
           c == Overlay(b, 0, Digits(n))
<1>1. b \in Buffers /\ n \in Nat /\ e \in Errors /\ m = Msg(b, n, e)
  BY MessageIs
<1> HIDE DEF b, n, e
<1>2. update_msg_len(Msg(b, n, e)) = Msg(c, n, e) /\ c \in Buffers
  BY <1>1, UpdateIs
<1> HIDE DEF c
<1> QED BY <1>1, <1>2, MsgIs

LEMMA ExtendType ==
    ASSUME NEW m \in Messages, NEW s \in Bytes
    PROVE  Extend(m, s) \in Messages
<1> DEFINE b == m.buf
           n == m.len
           e == m.err
           c == Overlay(b, n + 2, s)
           k == n + Len(s)
<1>1. b \in Buffers /\ n \in Nat /\ e \in Errors /\ m = Msg(b, n, e)
  BY MessageIs
<1> HIDE DEF b, n, e
<1>2. Extend(Msg(b, n, e), s) = Msg(c, k, e) /\ c \in Buffers /\ k \in Nat
  BY <1>1, ExtendIs
<1> HIDE DEF c, k
<1> QED BY <1>1, <1>2, MsgIs

LEMMA RefusedType ==
    ASSUME NEW m \in Messages, NEW e \in Errors
    PROVE  /\ [m EXCEPT !.err = e] \in Messages
           /\ [m EXCEPT !.err = e].err = e /\ [m EXCEPT !.err = e].buf = m.buf
BY DEF Messages

LEMMA ErrorIs ==
    ASSUME NEW m \in Messages, NEW n
    PROVE  TooLong(m, n) \in Errors
BY DEF TooLong, Messages, Errors

LEMMA ArbType ==
    ASSUME NEW m \in Messages, NEW s \in Bytes
    PROVE  sgs_msg_add_arb_content(m, s) \in Messages
<1> DEFINE e == TooLong(m, m.len + Len(s))
<1>1. e \in Errors
  BY ErrorIs
<1>2. sgs_msg_add_arb_content(m, s) = IF e # "none" THEN [m EXCEPT !.err = e] ELSE update_msg_len(Extend(m, s))
  BY DEF sgs_msg_add_arb_content
<1> HIDE DEF e
<1>3. [m EXCEPT !.err = e] \in Messages
  BY <1>1, RefusedType
<1>4. update_msg_len(Extend(m, s)) \in Messages
  BY ExtendType, UpdateType
<1> QED BY <1>2, <1>3, <1>4

LEMMA FixedType ==
    ASSUME NEW m \in Messages, NEW s \in Bytes
    PROVE  sgs_msg_add_fixed_content(m, s) \in Messages
<1> DEFINE d == Digits(Len(s))
           e == IF m.err = "none" /\ Len(s) > SGS_MSG_MAX_LENGTH
                THEN "SGS_ERR_SIZE_ARG_TOO_LARGE"
                ELSE TooLong(m, m.len + Len(s) + 2)
<1>1. e \in Errors
  BY ErrorIs DEF Errors
<1>2. d \in Bytes
  BY LenProperties, DigitsAre DEF Bytes
<1> HIDE DEF d
<1>3. sgs_msg_add_fixed_content(m, s) = IF e # "none" THEN [m EXCEPT !.err = e]
                                        ELSE update_msg_len(Extend(Extend(m, d), s))
  BY DEF sgs_msg_add_fixed_content, d
<1> HIDE DEF e
<1>4. [m EXCEPT !.err = e] \in Messages
  BY <1>1, RefusedType
<1>5. update_msg_len(Extend(Extend(m, d), s)) \in Messages
  BY <1>2, ExtendType, UpdateType
<1> QED BY <1>3, <1>4, <1>5

LEMMA StringType ==
    ASSUME NEW m \in Messages, NEW s \in Bytes
    PROVE  sgs_msg_add_string(m, s) \in Messages
<1> DEFINE n == Int16(Len(s))
           t == SubSeq(s, 1, n)
<1>1. n \in Int
  BY LenProperties, WordIs DEF Int16, Bytes
<1> HIDE DEF n
<1>2. CASE n < 0 /\ m.err = "none"
  <2>1. "SGS_ERR_SIZE_ARG_TOO_LARGE" \in Errors
    BY DEF Errors
  <2> QED BY <1>2, <2>1, RefusedType DEF sgs_msg_add_string, n
<1>3. CASE ~(n < 0 /\ m.err = "none")
  <2>1. sgs_msg_add_string(m, s) = sgs_msg_add_fixed_content(m, t)
    BY <1>3 DEF sgs_msg_add_string, n
  <2>2. CASE m.err # "none"
    <3>1. sgs_msg_add_string(m, s) = m
      BY <2>2, NothingAdded
    <3> QED BY <3>1
  <2>3. CASE m.err = "none" /\ n <= Len(s)
    <3>1. \A i \in 1 .. n : s[i] \in Int
      <4>1. \A i \in 1 .. n : i \in 1 .. Len(s)
        BY <1>1, <2>3, LenProperties DEF Bytes
      <4> QED BY <4>1, ElementOfSeq DEF Bytes
    <3>2. t \in Bytes
      <4>1. 1 \in Int /\ n \in Int
        BY <1>1
      <4> QED BY <3>1, <4>1, SubSeqProperties DEF Bytes
    <3> HIDE DEF t
    <3> QED BY <2>1, <3>2, FixedType
  <2>4. n <= Len(s)
    BY LenProperties, WordIs DEF Int16, Bytes, n
  <2> QED BY <2>2, <2>3, <2>4 DEF Messages, Errors
<1> QED BY <1>2, <1>3

-----------------------------------------------------------------------------
(***************************************************************************)
(* The wire.                                                                *)
(***************************************************************************)
LEMMA FieldIs ==
    ASSUME NEW f \in Nat, NEW n \in Nat
    PROVE  Field(f, n) \in Bytes /\ Len(Field(f, n)) = n
<1>1. \A i \in 1 .. n : 100 * f + i \in Int
  OBVIOUS
<1>2. Field(f, n) \in [1 .. n -> Int]
  BY <1>1 DEF Field
<1>3. Field(f, n) \in Bytes
  BY <1>2 DEF Bytes
<1>4. DOMAIN Field(f, n) = 1 .. n
  BY DEF Field
<1>5. Len(Field(f, n)) = n
  BY <1>3, <1>4 DEF Bytes
<1> QED BY <1>3, <1>5

LEMMA EmptyIs ==
    ASSUME NEW s \in Bytes
    PROVE  <<>> \in Bytes /\ Len(<<>>) = 0 /\ <<>> \o s = s
BY ConcatEmptySeq DEF Bytes

LEMMA WireIs ==
    ASSUME NEW opcode \in Int, NEW body \in Bytes
    PROVE  /\ Wire(opcode, body) \in Bytes /\ Len(Wire(opcode, body)) = 3 + Len(body)
           /\ \A buf : Holds(buf, 0, Wire(opcode, body)) <=>
                /\ Holds(buf, 0, Digits(1 + Len(body))) /\ Holds(buf, 2, <<opcode>>) /\ Holds(buf, 3, body)
<1> DEFINE d == Digits(1 + Len(body))
           op == <<opcode>>
           front == d \o op
<1>1. d \in Bytes /\ Len(d) = 2 /\ op \in Bytes /\ Len(op) = 1 /\ Len(body) \in Nat
  <2>1. Len(body) \in Nat
    BY LenProperties DEF Bytes
  <2>2. d \in Bytes /\ Len(d) = 2
    BY <2>1, DigitsAre
  <2> HIDE DEF d
  <2> QED BY <2>1, <2>2 DEF Bytes
<1>2. Wire(opcode, body) = front \o body
  BY DEF Wire
<1> HIDE DEF d, op
<1>3. front \in Bytes /\ Len(front) = 3
  <2>1. front \in Bytes /\ Len(front) = Len(d) + Len(op)
    BY <1>1, JoinIs
  <2> HIDE DEF front
  <2> QED BY <1>1, <2>1
<1>4. \A buf : Holds(buf, 0, front) <=> Holds(buf, 0, d) /\ Holds(buf, 2, op)
  <2> SUFFICES ASSUME NEW buf PROVE Holds(buf, 0, front) <=> Holds(buf, 0, d) /\ Holds(buf, 2, op)
    OBVIOUS
  <2>1. 0 \in Nat /\ 0 + Len(d) = 2
    BY <1>1
  <2>2. Holds(buf, 0, front) <=> Holds(buf, 0, d) /\ Holds(buf, 0 + Len(d), op)
    BY <1>1, <2>1, HoldsBoth
  <2> QED BY <2>1, <2>2
<1> HIDE DEF front
<1>5. front \o body \in Bytes /\ Len(front \o body) = 3 + Len(body)
  <2>1. front \o body \in Bytes /\ Len(front \o body) = Len(front) + Len(body)
    BY <1>3, JoinIs
  <2> QED BY <1>3, <2>1
<1>6. \A buf : Holds(buf, 0, front \o body) <=> Holds(buf, 0, front) /\ Holds(buf, 3, body)
  <2> SUFFICES ASSUME NEW buf PROVE Holds(buf, 0, front \o body) <=> Holds(buf, 0, front) /\ Holds(buf, 3, body)
    OBVIOUS
  <2>1. 0 \in Nat /\ 0 + Len(front) = 3
    BY <1>3
  <2>2. Holds(buf, 0, front \o body) <=> Holds(buf, 0, front) /\ Holds(buf, 0 + Len(front), body)
    BY <1>3, <2>1, HoldsBoth
  <2> QED BY <2>1, <2>2
<1> QED BY <1>2, <1>4, <1>5, <1>6 DEF d, op

LEMMA LengthIs ==
    ASSUME NEW buf, NEW n \in Nat, n < Word, Holds(buf, 0, Digits(n))
    PROVE  sgs_msg_deserialize(buf) = n
<1>1. Digits(n) \in Bytes /\ Len(Digits(n)) = 2 /\ Number(Digits(n)) = n
  BY DigitsAre
<1>2. 0 \in Nat
  OBVIOUS
<1>3. Copy(buf, 0, Len(Digits(n))) = Digits(n)
  BY <1>1, <1>2, CopyIs
<1> QED BY <1>1, <1>3 DEF sgs_msg_deserialize

LEMMA GoodSent ==
    ASSUME NEW m \in Messages, NEW opcode \in Int, NEW body \in Bytes, Good(m, opcode, body),
           1 + Len(body) <= SGS_MAX_PAYLOAD_LENGTH
    PROVE  /\ sgs_msg_deserialize(m.buf) = m.len
           /\ Copy(m.buf, 0, sgs_msg_get_size(m.len)) = Wire(opcode, body)
<1> DEFINE n == 1 + Len(body)
           w == Wire(opcode, body)
           b == m.buf
<1>1. n \in Nat /\ n < Word /\ Len(body) \in Nat /\ n + 2 < Word
  BY LenProperties, WordIs, CellsAre DEF Bytes
<1>2. Holds(b, 0, Digits(n)) /\ m.len = n
  BY DEF Good
<1>3. Holds(b, 0, w) /\ w \in Bytes /\ Len(w) = n + 2
  BY <1>1, <1>2, WireIs DEF Good
<1>4. sgs_msg_get_size(n) = n + 2
  BY <1>1, CellsAre, WordIs DEF sgs_msg_get_size
<1> HIDE DEF n, w, b
<1>5. Copy(b, 0, Len(w)) = w
  <2>1. 0 \in Nat
    OBVIOUS
  <2> QED BY <1>3, <2>1, CopyIs
<1>6. sgs_msg_deserialize(b) = n
  BY <1>1, <1>2, LengthIs
<1> QED BY <1>2, <1>3, <1>4, <1>5, <1>6 DEF w, b

LEMMA KeptOn ==
    ASSUME NEW a, NEW b, NEW c, NEW x \in Nat, NEW y \in Nat, NEW z \in Nat,
           Kept(a, b, x), Kept(b, c, y), x <= z, y <= z
    PROVE  Kept(a, c, z)
<1> SUFFICES ASSUME NEW i \in Cells, i >= z PROVE a[i] = c[i]
  BY DEF Kept
<1>1. i \in Nat
  BY CellsAre, WordIs
<1>2. i >= x /\ i >= y
  BY <1>1
<1> QED BY <1>2 DEF Kept

-----------------------------------------------------------------------------
(***************************************************************************)
(* What the calls build, from any buffer: within the payload of protocol.h  *)
(* the message that was asked for, and nothing from Word - 1 on is written. *)
(***************************************************************************)
LEMMA DirectBuilt ==
    ASSUME NEW buf \in Buffers, NEW opcode \in Int, NEW data \in Bytes
    PROVE  LET m == sgs_msg_add_arb_content(sgs_msg_init(buf, opcode), data)
           IN /\ m \in Messages
              /\ 1 + Len(data) <= SGS_MAX_PAYLOAD_LENGTH =>
                    Good(m, opcode, data) /\ Kept(m.buf, buf, Word - 1)
<1> DEFINE s == sgs_msg_init(buf, opcode)
           m == sgs_msg_add_arb_content(s, data)
           to == 3 + Len(data)
<1>1. s \in Messages /\ Good(s, opcode, <<>>) /\ Kept(s.buf, buf, 3)
  BY Started
<1> HIDE DEF s
<1>2. m \in Messages
  BY <1>1, ArbType
<1>3. ASSUME 1 + Len(data) <= SGS_MAX_PAYLOAD_LENGTH
      PROVE  Good(m, opcode, data) /\ Kept(m.buf, buf, Word - 1)
  <2>1. <<>> \in Bytes /\ Len(<<>>) = 0 /\ <<>> \o data = data /\ Len(data) \in Nat
    BY EmptyIs, LenProperties DEF Bytes
  <2>2. to \in Nat /\ to = 3 + Len(<<>>) + Len(data) /\ to <= Word - 1 /\ 3 \in Nat /\ 3 <= Word - 1 /\ Word - 1 \in Nat
    BY <1>3, <2>1, CellsAre, WordIs
  <2> HIDE DEF to
  <2>3. Good(m, opcode, <<>> \o data) /\ Kept(m.buf, s.buf, to)
    BY <1>1, <2>1, <2>2, ArbAdded
  <2> HIDE DEF m
  <2>4. Kept(m.buf, buf, Word - 1)
    BY <1>1, <2>2, <2>3, KeptOn
  <2> QED BY <2>1, <2>3, <2>4
<1> QED BY <1>2, <1>3 DEF s

LEMMA FieldFirst ==
    ASSUME NEW buf \in Buffers, NEW opcode \in Int, NEW id \in Bytes
    PROVE  LET m == sgs_msg_add_fixed_content(sgs_msg_init(buf, opcode), id)
           IN /\ m \in Messages
              /\ 5 + Len(id) <= Word - 1 => Good(m, opcode, String(id)) /\ Kept(m.buf, buf, 5 + Len(id))
<1> DEFINE s == sgs_msg_init(buf, opcode)
           m == sgs_msg_add_fixed_content(s, id)
           to == 5 + Len(id)
<1>1. s \in Messages /\ Good(s, opcode, <<>>) /\ Kept(s.buf, buf, 3)
  BY Started
<1> HIDE DEF s
<1>2. m \in Messages
  BY <1>1, FixedType
<1>3. ASSUME to <= Word - 1
      PROVE  Good(m, opcode, String(id)) /\ Kept(m.buf, buf, to)
  <2>1. <<>> \in Bytes /\ Len(<<>>) = 0 /\ <<>> \o String(id) = String(id) /\ Len(id) \in Nat
    BY EmptyIs, StringIs
  <2>2. to \in Nat /\ to = 5 + Len(<<>>) + Len(id) /\ 3 \in Nat /\ 3 <= to
    BY <2>1
  <2>3. to <= Word - 1
    BY <1>3
  <2> HIDE DEF to
  <2>4. Good(m, opcode, <<>> \o String(id)) /\ Kept(m.buf, s.buf, to)
    BY <1>1, <2>1, <2>2, <2>3, FixedAdded
  <2> HIDE DEF m
  <2>5. to <= to
    BY <2>2
  <2>6. Kept(m.buf, buf, to)
    BY <1>1, <2>2, <2>4, <2>5, KeptOn
  <2> QED BY <2>1, <2>4, <2>6
<1> QED BY <1>2, <1>3 DEF s

LEMMA ChannelBuilt ==
    ASSUME NEW buf \in Buffers, NEW opcode \in Int, NEW id \in Bytes, NEW data \in Bytes
    PROVE  LET m == sgs_msg_add_arb_content(sgs_msg_add_fixed_content(sgs_msg_init(buf, opcode), id), data)
               body == String(id) \o data
           IN /\ m \in Messages /\ body \in Bytes
              /\ 1 + Len(body) <= SGS_MAX_PAYLOAD_LENGTH =>
                    Good(m, opcode, body) /\ Kept(m.buf, buf, Word - 1)
<1> DEFINE s == sgs_msg_add_fixed_content(sgs_msg_init(buf, opcode), id)
           m == sgs_msg_add_arb_content(s, data)
           head == String(id)
           body == head \o data
           at == 5 + Len(id)
           to == 5 + Len(id) + Len(data)
<1>1. s \in Messages /\ (at <= Word - 1 => Good(s, opcode, head) /\ Kept(s.buf, buf, at))
  BY FieldFirst
<1>2. head \in Bytes /\ Len(head) = 2 + Len(id) /\ Len(id) \in Nat /\ Len(data) \in Nat
  BY StringIs, LenProperties DEF Bytes
<1> HIDE DEF s, head
<1>3. body \in Bytes /\ Len(body) = 2 + Len(id) + Len(data)
  <2>1. body \in Bytes /\ Len(body) = Len(head) + Len(data)
    BY <1>2, JoinIs
  <2> QED BY <1>2, <2>1
<1>4. m \in Messages
  BY <1>1, ArbType
<1>5. ASSUME 1 + Len(body) <= SGS_MAX_PAYLOAD_LENGTH
      PROVE  Good(m, opcode, body) /\ Kept(m.buf, buf, Word - 1)
  <2>1. /\ to \in Nat /\ to = 3 + Len(head) + Len(data) /\ to <= Word - 1
        /\ at \in Nat /\ at <= Word - 1 /\ Word - 1 \in Nat
    BY <1>2, <1>3, <1>5, CellsAre, WordIs
  <2>2. Good(s, opcode, head) /\ Kept(s.buf, buf, at)
    BY <1>1, <2>1
  <2> HIDE DEF to, at
  <2>3. Good(m, opcode, body) /\ Kept(m.buf, s.buf, to)
    BY <1>1, <1>2, <2>1, <2>2, ArbAdded
  <2> HIDE DEF m
  <2>4. Kept(m.buf, buf, Word - 1)
    BY <2>1, <2>2, <2>3, KeptOn
  <2> QED BY <2>3, <2>4
<1> QED BY <1>3, <1>4, <1>5 DEF s, head

LEMMA LoginBuilt ==
    ASSUME NEW buf \in Buffers, NEW opcode \in Int, NEW s \in Bytes, NEW t \in Bytes
    PROVE  LET version == sgs_msg_add_arb_content(sgs_msg_init(buf, opcode), <<5>>)
               m == sgs_msg_add_string(sgs_msg_add_string(version, s), t)
               body == <<5>> \o String(s) \o String(t)
           IN /\ m \in Messages /\ body \in Bytes
              /\ 1 + Len(body) <= SGS_MAX_PAYLOAD_LENGTH =>
                    /\ Kept(m.buf, buf, Word - 1)
                    /\ IF m.err = "none" THEN Good(m, opcode, body)
                       ELSE Len(s) >= Word \div 2 \/ Len(t) >= Word \div 2
<1> DEFINE five == <<5>>
           version == sgs_msg_add_arb_content(sgs_msg_init(buf, opcode), five)
           first == sgs_msg_add_string(version, s)
           m == sgs_msg_add_string(first, t)
           part == five \o String(s)
           body == part \o String(t)
           k == 6 + Len(s)
           to == 8 + Len(s) + Len(t)
           h == Word \div 2
           top == Word - 1
<1>1. five \in Bytes /\ Len(five) = 1
  BY DEF Bytes
<1>2. version \in Messages /\ (1 + Len(five) <= SGS_MAX_PAYLOAD_LENGTH => Good(version, opcode, five) /\ Kept(version.buf, buf, top))
  BY <1>1, DirectBuilt
<1> HIDE DEF five, version
<1>3. String(s) \in Bytes /\ Len(String(s)) = 2 + Len(s) /\ Len(s) \in Nat
  BY StringIs
<1>4. String(t) \in Bytes /\ Len(String(t)) = 2 + Len(t) /\ Len(t) \in Nat
  BY StringIs
<1>5. part \in Bytes /\ Len(part) = 3 + Len(s)
  <2>1. part \in Bytes /\ Len(part) = Len(five) + Len(String(s))
    BY <1>1, <1>3, JoinIs
  <2> HIDE DEF part
  <2> QED BY <1>1, <1>3, <2>1
<1> HIDE DEF part
<1>6. body \in Bytes /\ Len(body) = 5 + Len(s) + Len(t)
  <2>1. body \in Bytes /\ Len(body) = Len(part) + Len(String(t))
    BY <1>4, <1>5, JoinIs
  <2> HIDE DEF body
  <2> QED BY <1>4, <1>5, <2>1
<1>7. first \in Messages
  BY <1>2, StringType
<1> HIDE DEF first
<1>8. m \in Messages
  BY <1>7, StringType
<1>9. ASSUME 1 + Len(body) <= SGS_MAX_PAYLOAD_LENGTH
      PROVE  /\ Kept(m.buf, buf, top)
             /\ IF m.err = "none" THEN Good(m, opcode, body) ELSE Len(s) >= h \/ Len(t) >= h
  <2>1. /\ to \in Nat /\ to = 5 + Len(part) + Len(t) /\ to <= top
        /\ k \in Nat /\ k = 5 + Len(five) + Len(s) /\ k <= top /\ top \in Nat /\ top <= top
        /\ 1 + Len(five) <= SGS_MAX_PAYLOAD_LENGTH /\ h \in Nat
    BY <1>1, <1>3, <1>4, <1>5, <1>6, <1>9, CellsAre, WordIs
  <2>2. Good(version, opcode, five) /\ Kept(version.buf, buf, top)
    BY <1>2, <2>1
  <2> HIDE DEF to, k, body
  <2>3. /\ Kept(first.buf, version.buf, k)
        /\ Len(s) < h => Good(first, opcode, part)
        /\ Len(s) >= h => first.err # "none"
    <3>1. k <= Word - 1
      BY <2>1
    <3> HIDE DEF top, h
    <3> QED BY <1>1, <1>2, <2>1, <2>2, <3>1, StringAdded DEF first, part, h
  <2> HIDE DEF m, top
  <2>4. Kept(first.buf, buf, top)
    BY <2>1, <2>2, <2>3, KeptOn
  <2>5. CASE Len(s) >= h
    <3>1. m = first
      BY <1>7, <2>3, <2>5, NothingAdded DEF m
    <3> QED BY <2>3, <2>4, <2>5, <3>1
  <2>6. CASE Len(s) < h
    <3>1. Good(first, opcode, part)
      BY <2>3, <2>6
    <3>2. /\ Kept(m.buf, first.buf, to)
          /\ Len(t) < h => Good(m, opcode, body)
          /\ Len(t) >= h => m.err # "none"
      <4>1. to <= Word - 1
        BY <2>1 DEF top
      <4> HIDE DEF h
      <4> QED BY <1>5, <1>7, <2>1, <3>1, <4>1, StringAdded DEF m, body, h
    <3>3. Kept(m.buf, buf, top)
      BY <2>1, <2>4, <3>2, KeptOn
    <3>4. Len(t) < h => m.err = "none"
      BY <3>2 DEF Good
    <3>5. Len(t) < h \/ Len(t) >= h
      BY <1>4, <2>1
    <3> QED BY <3>2, <3>3, <3>4, <3>5
  <2>7. Len(s) < h \/ Len(s) >= h
    BY <1>3, <2>1
  <2> QED BY <2>5, <2>6, <2>7
<1> QED BY <1>6, <1>8, <1>9 DEF five, version, first, part

-----------------------------------------------------------------------------
(***************************************************************************)
(* Reading a field that the buffer holds.                                   *)
(***************************************************************************)
LEMMA StringRead ==
    ASSUME NEW buf, NEW start \in Nat, NEW s \in Bytes, Len(s) < Word, NEW length \in Nat,
           sgs_msg_deserialize(buf) = length, start <= length, Holds(buf, start, String(s))
    PROVE  /\ sgs_msg_read_uint16(buf, start) = <<Len(s)>>
           /\ sgs_msg_read_string(buf, start) = s
           /\ Holds(buf, start + 2, s)
<1> DEFINE d == Digits(Len(s))
           n == Len(s)
           at == start + 2
<1>1. String(s) = d \o s /\ n \in Nat
  BY StringIs
<1>2. d \in Bytes /\ Len(d) = 2 /\ Number(d) = n
  <2> HIDE DEF d
  <2>1. d \in Bytes /\ Len(d) = 2 /\ (n < Word => Number(d) = n)
    BY <1>1, DigitsAre DEF d
  <2> QED BY <2>1
<1> HIDE DEF d
<1>3. Holds(buf, start, d) /\ Holds(buf, at, s)
  <2>1. Holds(buf, start, d \o s)
    BY <1>1
  <2>2. Holds(buf, start, d \o s) <=> Holds(buf, start, d) /\ Holds(buf, start + Len(d), s)
    BY <1>2, HoldsBoth
  <2> QED BY <1>2, <2>1, <2>2
<1>4. Copy(buf, start, 2) = d
  BY <1>2, <1>3, CopyIs
<1>5. sgs_msg_read_uint16(buf, start) = <<n>>
  <2>2. ~(start > sgs_msg_deserialize(buf))
    OBVIOUS
  <2> QED BY <1>2, <1>4, <2>2 DEF sgs_msg_read_uint16
<1>6. at \in Nat
  OBVIOUS
<1> HIDE DEF at
<1>7. Copy(buf, at, n) = s
  BY <1>3, <1>6, CopyIs
<1>8. <<n>> # <<>> /\ <<n>>[1] = n
  OBVIOUS
<1>9. sgs_msg_read_string(buf, start) = s
  BY <1>5, <1>7, <1>8 DEF sgs_msg_read_string, at
<1> QED BY <1>3, <1>5, <1>9 DEF at

LEMMA BytesRead ==
    ASSUME NEW buf, NEW start \in Nat, NEW s \in Bytes, NEW length \in Nat,
           sgs_msg_deserialize(buf) = length, length + 2 - start >= Len(s), Holds(buf, start, s)
    PROVE  sgs_msg_read_bytes(buf, start, Len(s)) = s
<1> DEFINE n == Len(s)
           left == length + 2 - start
<1>1. n \in Nat /\ left \in Int /\ left >= n
  BY LenProperties DEF Bytes
<1>2. sgs_msg_deserialize(buf) + SGS_MSG_INIT_LEN - start = left
  BY CellsAre
<1>3. Copy(buf, start, n) = s
  BY CopyIs
<1> HIDE DEF left, n
<1>4. (IF left < n THEN left ELSE n) = n
  BY <1>1
<1> QED BY <1>2, <1>3, <1>4 DEF sgs_msg_read_bytes, n

LEMMA LastIdRead ==
    ASSUME NEW buf, NEW start \in Nat, NEW s \in Bytes, NEW length \in Nat,
           sgs_msg_deserialize(buf) = length, length + 2 - start = Len(s), Holds(buf, start, s)
    PROVE  sgs_msg_read_id(buf, start, FALSE) = s
<1> DEFINE n == Len(s)
<1>1. n \in Nat
  BY LenProperties DEF Bytes
<1>2. sgs_msg_deserialize(buf) + SGS_MSG_INIT_LEN - start = n
  BY CellsAre
<1>3. sgs_msg_read_bytes(buf, start, n) = s
  <2>1. length + 2 - start >= Len(s)
    BY <1>1
  <2> QED BY <2>1, BytesRead
<1> HIDE DEF n
<1>4. <<n>> # <<>> /\ <<n>>[1] = n
  OBVIOUS
<1> QED BY <1>2, <1>3, <1>4 DEF sgs_msg_read_id, n

LEMMA FirstIdRead ==
    ASSUME NEW buf, NEW start \in Nat, NEW s \in Bytes, Len(s) < Word, NEW length \in Nat,
           sgs_msg_deserialize(buf) = length, length >= start + Len(s), Holds(buf, start, String(s))
    PROVE  sgs_msg_read_id(buf, start, TRUE) = s
<1> DEFINE n == Len(s)
           at == start + 2
<1>1. n \in Nat /\ at \in Nat
  BY LenProperties DEF Bytes
<1>2. start <= length
  BY <1>1
<1>3. sgs_msg_read_uint16(buf, start) = <<n>> /\ Holds(buf, at, s)
  BY <1>2, StringRead
<1>4. length + 2 - at >= n
  BY <1>1
<1> HIDE DEF at
<1>5. sgs_msg_read_bytes(buf, at, n) = s
  BY <1>1, <1>3, <1>4, BytesRead
<1> HIDE DEF n
<1>6. <<n>> # <<>> /\ <<n>>[1] = n
  OBVIOUS
<1> QED BY <1>3, <1>5, <1>6 DEF sgs_msg_read_id, n, at

-----------------------------------------------------------------------------
(***************************************************************************)
(* The invariant.  What a callback is handed of a payload is a place in     *)
(* msg_buf, so the invariant says what the buffer holds there; an echo      *)
(* writes below that place and no more than a message, which is why it also *)
(* keeps where a payload starts and that it ends within the message.        *)
(***************************************************************************)
HandedTypeInv ==
    /\ msg_buf \in Buffers
    /\ pc \in {"app", "callback", "read"}
    /\ incoming.data \in Bytes /\ incoming.id \in Bytes

FieldsInv ==
    pc # "app" => handed.name = incoming.name /\ handed.id = incoming.id /\ handed.port = incoming.port

PayloadInv ==
    pc = "callback" =>
        /\ handed.start \in Nat /\ handed.count = Len(incoming.data)
        /\ Holds(msg_buf, handed.start, incoming.data)

EchoInv ==
    pc = "callback" =>
        /\ incoming.op = SESSION_MESSAGE => handed.start = 3
        /\ incoming.op = CHANNEL_MESSAGE => handed.start = 5 + Len(incoming.id)
        /\ handed.start + Len(incoming.data) <= Word - 1

ReadInv == pc = "read" => seen = incoming.data

MessageInv == HandedTypeInv /\ FieldsInv /\ PayloadInv /\ EchoInv /\ ReadInv /\ SentAsProtocolSays

LEMMA HandedIs ==
    ASSUME MessageInv, pc = "callback"
    PROVE  Handed(msg_buf) = incoming.data
<1>1. /\ incoming.data \in Bytes /\ handed.start \in Nat /\ handed.count = Len(incoming.data)
      /\ Holds(msg_buf, handed.start, incoming.data)
  BY DEF MessageInv, HandedTypeInv, PayloadInv
<1>2. Copy(msg_buf, handed.start, Len(incoming.data)) = incoming.data
  BY <1>1, CopyIs
<1> QED BY <1>1, <1>2 DEF Handed

LEMMA HandedAgree ==
    ASSUME MessageInv
    PROVE  HandedAsSent
BY HandedIs DEF MessageInv, HandedTypeInv, FieldsInv, ReadInv, HandedAsSent

LEMMA MessageInit == Init => MessageInv
<1> SUFFICES ASSUME Init PROVE MessageInv
  OBVIOUS
<1>1. msg_buf \in Buffers
  BY DEF Init, Buffers
<1>2. incoming.data \in Bytes /\ incoming.id \in Bytes
  BY DEF Init, NoMessage, Bytes
<1>3. SentAsProtocolSays
  BY CellsAre DEF Init, NotSent, SentAsProtocolSays
<1> QED BY <1>1, <1>2, <1>3 DEF Init, MessageInv, HandedTypeInv, FieldsInv, PayloadInv, EchoInv, ReadInv

-----------------------------------------------------------------------------
(***************************************************************************)
(* Receiving.                                                               *)
(***************************************************************************)
TopKept ==
    \A i \in {SGS_MSG_MAX_LENGTH, SGS_MSG_MAX_LENGTH + 1} :
        msg_buf'[i] # msg_buf[i] => sent'.total > SGS_MAX_PAYLOAD_LENGTH

LEMMA TopIs ==
    ASSUME Kept(msg_buf', msg_buf, Word - 1)
    PROVE  TopKept
<1>1. SGS_MSG_MAX_LENGTH \in Cells /\ SGS_MSG_MAX_LENGTH + 1 \in Cells
      /\ SGS_MSG_MAX_LENGTH >= Word - 1 /\ SGS_MSG_MAX_LENGTH + 1 >= Word - 1
  BY CellsAre, WordIs
<1> QED BY <1>1 DEF Kept, TopKept

LEMMA Delivered ==
    ASSUME MessageInv, NEW opcode \in Int, NEW fields, NEW body \in Bytes, NEW n \in Nat, n = Len(body),
           Receive(opcode, fields, body)
    PROVE  /\ msg_buf' \in Buffers /\ Holds(msg_buf', 3, body)
           /\ sgs_msg_deserialize(msg_buf') = 1 + n /\ 3 + n <= Word - 1
           /\ incoming' = [fields EXCEPT !.op = opcode] /\ pc' = "callback"
           /\ SentAsProtocolSays' /\ TopKept
<1> DEFINE w == Wire(opcode, body)
           new == Overlay(msg_buf, 0, w)
           k == 1 + n
           to == 3 + n
<1>1. msg_buf \in Buffers
  BY DEF MessageInv, HandedTypeInv
<1>2. w \in Bytes /\ Len(w) = to /\ (Holds(new, 0, w) => Holds(new, 0, Digits(k)) /\ Holds(new, 3, body))
  BY WireIs
<1>3. Len(w) <= SGS_MSG_MAX_LENGTH /\ msg_buf' = new
  BY DEF Receive
<1> HIDE DEF w, new
<1>4. to <= Word - 1 /\ to <= Word + 1 /\ to \in Nat /\ 0 \in Nat /\ to = 0 + Len(w)
      /\ k \in Nat /\ k < Word /\ Word - 1 \in Nat
  BY <1>2, <1>3, CellsAre, WordIs
<1> HIDE DEF to, k
<1>5. new \in Buffers /\ Holds(new, 0, w) /\ Kept(new, msg_buf, to)
  BY <1>1, <1>2, <1>4, OverlayType, Written DEF new
<1>6. sgs_msg_deserialize(new) = k
  BY <1>2, <1>4, <1>5, LengthIs
<1>7. Kept(msg_buf', msg_buf, Word - 1)
  <2> SUFFICES ASSUME NEW i \in Cells, i >= Word - 1 PROVE new[i] = msg_buf[i]
    BY <1>3 DEF Kept
  <2>1. i >= to
    BY <1>4, CellsAre, WordIs
  <2> QED BY <1>5, <2>1 DEF Kept
<1>8. SentAsProtocolSays'
  <2>1. sent' = NotSent
    BY DEF Receive
  <2> QED BY <2>1, CellsAre DEF NotSent, SentAsProtocolSays
<1> QED BY <1>2, <1>3, <1>4, <1>5, <1>6, <1>7, <1>8, TopIs DEF Receive, to, k

(* The fields of a message, and what a callback is given. *)
Fields(r, o, n, i, p, d) == r.op = o /\ r.name = n /\ r.id = i /\ r.port = p /\ r.data = d

Given(r, n, i, p, s, c) == r.name = n /\ r.id = i /\ r.port = p /\ r.start = s /\ r.count = c

LEMMA FieldsAre ==
    ASSUME NEW o, NEW a, NEW b
    PROVE  /\ Fields([[NoMessage EXCEPT !.id = a] EXCEPT !.op = o], o, <<>>, a, <<>>, <<>>)
           /\ Fields([[NoMessage EXCEPT !.data = a] EXCEPT !.op = o], o, <<>>, <<>>, <<>>, a)
           /\ Fields([[NoMessage EXCEPT !.name = a, !.port = b] EXCEPT !.op = o], o, a, <<>>, b, <<>>)
           /\ Fields([[NoMessage EXCEPT !.name = a, !.id = b] EXCEPT !.op = o], o, a, b, <<>>, <<>>)
           /\ Fields([[NoMessage EXCEPT !.id = a, !.data = b] EXCEPT !.op = o], o, <<>>, a, <<>>, b)
BY DEF NoMessage, Fields

LEMMA GivenIs ==
    ASSUME NEW a, NEW b, NEW c
    PROVE  /\ Given([Nothing EXCEPT !.id = a], <<>>, a, <<>>, 0, 0)
           /\ Given([Nothing EXCEPT !.name = a, !.port = b], a, <<>>, b, 0, 0)
           /\ Given([Nothing EXCEPT !.name = a, !.id = b], a, b, <<>>, 0, 0)
           /\ Given([Nothing EXCEPT !.start = a, !.count = b], <<>>, <<>>, <<>>, a, b)
           /\ Given([[Nothing EXCEPT !.start = a, !.count = b] EXCEPT !.id = c], <<>>, c, <<>>, a, b)
BY DEF Nothing, Given

LEMMA PayloadIs ==
    ASSUME NEW n \in Nat, NEW o \in Nat, NEW to, to = 2 + o, sgs_msg_deserialize(msg_buf') = n + o, NEW id
    PROVE  /\ Given(PayloadFrom(o), <<>>, <<>>, <<>>, to, n)
           /\ Given([PayloadFrom(o) EXCEPT !.id = id], <<>>, id, <<>>, to, n)
<1>1. SGS_MSG_INIT_LEN + o = to /\ sgs_msg_deserialize(msg_buf') - o = n
  BY CellsAre
<1>2. PayloadFrom(o) = [Nothing EXCEPT !.start = to, !.count = n]
  BY <1>1, Zenon DEF PayloadFrom
<1> QED BY <1>2 DEF Nothing, Given

(* A callback is about to be handed what the server sent. *)
LEMMA Called ==
    ASSUME MessageInv, NEW o, NEW n, NEW i \in Bytes, NEW p, NEW d \in Bytes, NEW s \in Nat,
           msg_buf' \in Buffers, pc' = "callback", SentAsProtocolSays',
           Fields(incoming', o, n, i, p, d), Given(handed', n, i, p, s, Len(d)),
           Holds(msg_buf', s, d), o = SESSION_MESSAGE => s = 3,
           o = CHANNEL_MESSAGE => s = 5 + Len(i), s + Len(d) <= Word - 1
    PROVE  MessageInv'
<1>1. /\ incoming'.op = o /\ incoming'.name = n /\ incoming'.id = i /\ incoming'.port = p /\ incoming'.data = d
      /\ handed'.name = n /\ handed'.id = i /\ handed'.port = p /\ handed'.start = s /\ handed'.count = Len(d)
  BY DEF Fields, Given
<1>2. HandedTypeInv' /\ FieldsInv' /\ ReadInv'
  BY <1>1 DEF HandedTypeInv, FieldsInv, ReadInv
<1>3. PayloadInv'
  BY <1>1 DEF PayloadInv
<1>4. EchoInv'
  BY <1>1 DEF EchoInv
<1> QED BY <1>2, <1>3, <1>4 DEF MessageInv

LEMMA HoldsNothing ==
    ASSUME NEW buf, NEW at
    PROVE  Holds(buf, at, <<>>) /\ <<>> \in Bytes /\ Len(<<>>) = 0
BY DEF Holds, Bytes

LEMMA IdReceived ==
    ASSUME MessageInv, NEW opcode \in Int, opcode # SESSION_MESSAGE, opcode # CHANNEL_MESSAGE,
           NEW id \in Bytes, Receive(opcode, [NoMessage EXCEPT !.id = id], id),
           handed' = [Nothing EXCEPT !.id = sgs_msg_read_id(msg_buf', 3, FALSE)]
    PROVE  MessageInv' /\ TopKept
<1> DEFINE fields == [NoMessage EXCEPT !.id = id]
           n == Len(id)
           e == <<>>
<1>1. n \in Nat /\ n = Len(id)
  BY LenProperties DEF Bytes
<1>2. Receive(opcode, fields, id) /\ Fields([fields EXCEPT !.op = opcode], opcode, e, id, e, e)
  BY FieldsAre
<1>3. e \in Bytes /\ Len(e) = 0 /\ Holds(msg_buf', 0, e)
  BY HoldsNothing
<1> HIDE DEF fields, n
<1>4. /\ msg_buf' \in Buffers /\ Holds(msg_buf', 3, id) /\ sgs_msg_deserialize(msg_buf') = 1 + n /\ 3 + n <= Word - 1
      /\ incoming' = [fields EXCEPT !.op = opcode] /\ pc' = "callback"
      /\ SentAsProtocolSays' /\ TopKept
  BY <1>1, <1>2, Delivered
<1>5. sgs_msg_read_id(msg_buf', 3, FALSE) = id
  <2> DEFINE length == 1 + n
  <2>1. 3 \in Nat /\ length \in Nat /\ length + 2 - 3 = Len(id)
    BY <1>1
  <2> HIDE DEF length
  <2> QED BY <1>4, <2>1, LastIdRead DEF length
<1>6. Given(handed', e, id, e, 0, 0)
  BY <1>5, GivenIs
<1> HIDE DEF e
<1>7. Fields(incoming', opcode, e, id, e, e) /\ Given(handed', e, id, e, 0, Len(e)) /\ 0 \in Nat /\ 0 + Len(e) <= Word - 1
  BY <1>2, <1>3, <1>4, <1>6, WordIs
<1> QED BY <1>3, <1>4, <1>7, Called

LEMMA RestReceived ==
    ASSUME MessageInv, NEW opcode \in Int, opcode # CHANNEL_MESSAGE,
           NEW data \in Bytes, Receive(opcode, [NoMessage EXCEPT !.data = data], data), handed' = PayloadFrom(1)
    PROVE  MessageInv' /\ TopKept
<1> DEFINE fields == [NoMessage EXCEPT !.data = data]
           n == Len(data)
           e == <<>>
<1>1. n \in Nat /\ n = Len(data)
  BY LenProperties DEF Bytes
<1>2. Receive(opcode, fields, data) /\ Fields([fields EXCEPT !.op = opcode], opcode, e, e, e, data)
  BY FieldsAre
<1>3. e \in Bytes
  BY HoldsNothing
<1> HIDE DEF fields, n
<1>4. /\ msg_buf' \in Buffers /\ Holds(msg_buf', 3, data) /\ sgs_msg_deserialize(msg_buf') = 1 + n /\ 3 + n <= Word - 1
      /\ incoming' = [fields EXCEPT !.op = opcode] /\ pc' = "callback"
      /\ SentAsProtocolSays' /\ TopKept
  BY <1>1, <1>2, Delivered
<1>5. Given(handed', e, e, e, 3, n)
  <2>1. 1 \in Nat /\ 3 = 2 + 1 /\ sgs_msg_deserialize(msg_buf') = n + 1
    BY <1>1, <1>4
  <2> QED BY <1>1, <2>1, PayloadIs
<1> HIDE DEF e
<1>6. Fields(incoming', opcode, e, e, e, data) /\ Given(handed', e, e, e, 3, Len(data)) /\ 3 \in Nat /\ 3 + Len(data) <= Word - 1
  BY <1>1, <1>2, <1>4, <1>5
<1> QED BY <1>3, <1>4, <1>6, Called

LEMMA RedirectReceived ==
    ASSUME MessageInv, NEW opcode \in Int, opcode # SESSION_MESSAGE, opcode # CHANNEL_MESSAGE,
           NEW host \in Bytes, NEW port \in Bytes, Len(port) = 4,
           Receive(opcode, [NoMessage EXCEPT !.name = host, !.port = port], String(host) \o port),
           handed' = [Nothing EXCEPT !.name = sgs_msg_read_string(msg_buf', 3),
                              !.port = sgs_msg_read_uint32(msg_buf', 5 + Len(sgs_msg_read_string(msg_buf', 3)))]
    PROVE  MessageInv' /\ TopKept
<1> DEFINE fields == [NoMessage EXCEPT !.name = host, !.port = port]
           front == String(host)
           body == front \o port
           n == 6 + Len(host)
           at == 5 + Len(host)
           length == 1 + n
           e == <<>>
<1>1. front \in Bytes /\ Len(front) = 2 + Len(host) /\ Len(host) \in Nat
  BY StringIs
<1>2. Receive(opcode, fields, body) /\ Fields([fields EXCEPT !.op = opcode], opcode, host, e, port, e)
  BY FieldsAre
<1>3. e \in Bytes /\ Len(e) = 0 /\ Holds(msg_buf', 0, e)
  BY HoldsNothing
<1> HIDE DEF fields, front
<1>4. body \in Bytes /\ Len(body) = n
  <2>1. body \in Bytes /\ Len(body) = Len(front) + Len(port)
    BY <1>1, JoinIs
  <2> HIDE DEF body
  <2> QED BY <1>1, <2>1
<1>5. n \in Nat /\ at \in Nat /\ 3 \in Nat /\ at = 3 + Len(front)
  BY <1>1
<1> HIDE DEF body
<1>6. /\ msg_buf' \in Buffers /\ Holds(msg_buf', 3, body)
      /\ sgs_msg_deserialize(msg_buf') = 1 + n /\ 3 + n <= Word - 1
      /\ incoming' = [fields EXCEPT !.op = opcode] /\ pc' = "callback"
      /\ SentAsProtocolSays' /\ TopKept
  BY <1>2, <1>4, <1>5, Delivered
<1>7. Holds(msg_buf', 3, front) /\ Holds(msg_buf', at, port)
  <2>1. Holds(msg_buf', 3, front \o port) <=> Holds(msg_buf', 3, front) /\ Holds(msg_buf', 3 + Len(front), port)
    BY <1>1, <1>5, HoldsBoth
  <2> QED BY <1>5, <1>6, <2>1 DEF body
<1>8. length \in Nat /\ 3 <= length /\ Len(host) < Word /\ sgs_msg_deserialize(msg_buf') = length
  BY <1>1, <1>6, WordIs
<1>9. sgs_msg_read_string(msg_buf', 3) = host
  <2> HIDE DEF length
  <2> QED BY <1>5, <1>7, <1>8, StringRead DEF front
<1>10. sgs_msg_read_uint32(msg_buf', at) = port
  <2>1. Copy(msg_buf', at, 4) = port
    BY <1>5, <1>7, CopyIs
  <2>2. ~(at + 2 > sgs_msg_deserialize(msg_buf'))
    BY <1>1, <1>8
  <2> HIDE DEF at
  <2> QED BY <2>1, <2>2 DEF sgs_msg_read_uint32
<1>11. handed' = [Nothing EXCEPT !.name = host, !.port = port]
  BY <1>9, <1>10, Zenon
<1>12. Given(handed', host, e, port, 0, 0)
  BY <1>11 DEF Nothing, Given
<1> HIDE DEF e
<1>13. Fields(incoming', opcode, host, e, port, e) /\ Given(handed', host, e, port, 0, Len(e)) /\ 0 \in Nat /\ 0 + Len(e) <= Word - 1
  BY <1>2, <1>3, <1>6, <1>12, WordIs
<1> QED BY <1>3, <1>6, <1>13, Called

LEMMA JoinReceived ==
    ASSUME MessageInv, NEW opcode \in Int, opcode # SESSION_MESSAGE, opcode # CHANNEL_MESSAGE,
           NEW name \in Bytes, NEW id \in Bytes,
           Receive(opcode, [NoMessage EXCEPT !.name = name, !.id = id], String(name) \o id),
           handed' = [Nothing EXCEPT !.name = sgs_msg_read_string(msg_buf', 3),
                              !.id = sgs_msg_read_id(msg_buf', 5 + Len(sgs_msg_read_string(msg_buf', 3)), FALSE)]
    PROVE  MessageInv' /\ TopKept
<1> DEFINE fields == [NoMessage EXCEPT !.name = name, !.id = id]
           front == String(name)
           body == front \o id
           n == 2 + Len(name) + Len(id)
           at == 5 + Len(name)
           length == 1 + n
           e == <<>>
<1>1. front \in Bytes /\ Len(front) = 2 + Len(name) /\ Len(name) \in Nat /\ Len(id) \in Nat
  BY StringIs, LenProperties DEF Bytes
<1>2. Receive(opcode, fields, body) /\ Fields([fields EXCEPT !.op = opcode], opcode, name, id, e, e)
  BY FieldsAre
<1>3. e \in Bytes /\ Len(e) = 0 /\ Holds(msg_buf', 0, e)
  BY HoldsNothing
<1> HIDE DEF fields, front
<1>4. body \in Bytes /\ Len(body) = n
  <2>1. body \in Bytes /\ Len(body) = Len(front) + Len(id)
    BY <1>1, JoinIs
  <2> HIDE DEF body
  <2> QED BY <1>1, <2>1
<1>5. n \in Nat /\ at \in Nat /\ 3 \in Nat /\ at = 3 + Len(front)
  BY <1>1
<1> HIDE DEF body
<1>6. /\ msg_buf' \in Buffers /\ Holds(msg_buf', 3, body)
      /\ sgs_msg_deserialize(msg_buf') = 1 + n /\ 3 + n <= Word - 1
      /\ incoming' = [fields EXCEPT !.op = opcode] /\ pc' = "callback"
      /\ SentAsProtocolSays' /\ TopKept
  BY <1>2, <1>4, <1>5, Delivered
<1>7. Holds(msg_buf', 3, front) /\ Holds(msg_buf', at, id)
  <2>1. Holds(msg_buf', 3, front \o id) <=> Holds(msg_buf', 3, front) /\ Holds(msg_buf', 3 + Len(front), id)
    BY <1>1, <1>5, HoldsBoth
  <2> QED BY <1>5, <1>6, <2>1 DEF body
<1>8. /\ length \in Nat /\ 3 <= length /\ Len(name) < Word /\ sgs_msg_deserialize(msg_buf') = length
      /\ length + 2 - at = Len(id)
  BY <1>1, <1>6, WordIs
<1>9. sgs_msg_read_string(msg_buf', 3) = name
  <2> HIDE DEF length
  <2> QED BY <1>5, <1>7, <1>8, StringRead DEF front
<1>10. sgs_msg_read_id(msg_buf', at, FALSE) = id
  <2> HIDE DEF length, at
  <2> QED BY <1>5, <1>7, <1>8, LastIdRead
<1>11. handed' = [Nothing EXCEPT !.name = name, !.id = id]
  BY <1>9, <1>10, Zenon
<1>12. Given(handed', name, id, e, 0, 0)
  BY <1>11 DEF Nothing, Given
<1> HIDE DEF e
<1>13. Fields(incoming', opcode, name, id, e, e) /\ Given(handed', name, id, e, 0, Len(e)) /\ 0 \in Nat /\ 0 + Len(e) <= Word - 1
  BY <1>2, <1>3, <1>6, <1>12, WordIs
<1> QED BY <1>3, <1>6, <1>13, Called

LEMMA ChannelMessageReceived ==
    ASSUME MessageInv, NEW opcode \in Int, opcode # SESSION_MESSAGE,
           NEW id \in Bytes, NEW data \in Bytes,
           Receive(opcode, [NoMessage EXCEPT !.id = id, !.data = data], String(id) \o data),
           handed' = [PayloadFrom(1 + 2 + Len(sgs_msg_read_id(msg_buf', 3, TRUE)))
                         EXCEPT !.id = sgs_msg_read_id(msg_buf', 3, TRUE)]
    PROVE  MessageInv' /\ TopKept
<1> DEFINE fields == [NoMessage EXCEPT !.id = id, !.data = data]
           front == String(id)
           body == front \o data
           n == 2 + Len(id) + Len(data)
           at == 5 + Len(id)
           from == 1 + 2 + Len(id)
           length == 1 + n
           e == <<>>
<1>1. front \in Bytes /\ Len(front) = 2 + Len(id) /\ Len(id) \in Nat /\ Len(data) \in Nat
  BY StringIs, LenProperties DEF Bytes
<1>2. Receive(opcode, fields, body) /\ Fields([fields EXCEPT !.op = opcode], opcode, e, id, e, data)
  BY FieldsAre
<1>3. e \in Bytes
  BY HoldsNothing
<1> HIDE DEF fields, front
<1>4. body \in Bytes /\ Len(body) = n
  <2>1. body \in Bytes /\ Len(body) = Len(front) + Len(data)
    BY <1>1, JoinIs
  <2> HIDE DEF body
  <2> QED BY <1>1, <2>1
<1>5. /\ n \in Nat /\ at \in Nat /\ 3 \in Nat /\ at = 3 + Len(front)
      /\ from \in Nat /\ at = 2 + from /\ length = Len(data) + from
  BY <1>1
<1> HIDE DEF body
<1>6. /\ msg_buf' \in Buffers /\ Holds(msg_buf', 3, body)
      /\ sgs_msg_deserialize(msg_buf') = 1 + n /\ 3 + n <= Word - 1
      /\ incoming' = [fields EXCEPT !.op = opcode] /\ pc' = "callback"
      /\ SentAsProtocolSays' /\ TopKept
  BY <1>2, <1>4, <1>5, Delivered
<1>7. Holds(msg_buf', 3, front) /\ Holds(msg_buf', at, data)
  <2>1. Holds(msg_buf', 3, front \o data) <=> Holds(msg_buf', 3, front) /\ Holds(msg_buf', 3 + Len(front), data)
    BY <1>1, <1>5, HoldsBoth
  <2> QED BY <1>5, <1>6, <2>1 DEF body
<1>8. /\ length \in Nat /\ length >= 3 + Len(id) /\ Len(id) < Word
      /\ sgs_msg_deserialize(msg_buf') = length /\ at + Len(data) <= Word - 1
  BY <1>1, <1>6, WordIs
<1>9. sgs_msg_read_id(msg_buf', 3, TRUE) = id
  <2> HIDE DEF length
  <2> QED BY <1>5, <1>7, <1>8, FirstIdRead DEF front
<1>10. handed' = [PayloadFrom(from) EXCEPT !.id = id]
  BY <1>9, Zenon
<1>11. Given(handed', e, id, e, at, Len(data))
  <2>1. Given([PayloadFrom(from) EXCEPT !.id = id], e, id, e, at, Len(data))
    <3> HIDE DEF from, length, at
    <3> QED BY <1>1, <1>5, <1>8, PayloadIs
  <2> QED BY <1>10, <2>1, Zenon
<1> HIDE DEF e
<1>12. Fields(incoming', opcode, e, id, e, data)
  BY <1>2, <1>6
<1> QED BY <1>3, <1>5, <1>6, <1>7, <1>8, <1>11, <1>12, Called

-----------------------------------------------------------------------------
(***************************************************************************)
(* Sending.                                                                 *)
(***************************************************************************)
LEMMA SentRight ==
    ASSUME NEW m \in Messages, NEW size, NEW opcode \in Int, NEW body \in Bytes, NEW strings,
           Sends(m, size, Wire(opcode, body), strings),
           1 + Len(body) <= SGS_MAX_PAYLOAD_LENGTH =>
              /\ Kept(m.buf, msg_buf, Word - 1)
              /\ IF m.err = "none" THEN Copy(m.buf, 0, size) = Wire(opcode, body)
                 ELSE \E l \in strings : l >= Word \div 2
    PROVE  msg_buf' \in Buffers /\ SentAsProtocolSays' /\ TopKept
<1> DEFINE w == Wire(opcode, body)
           total == 1 + Len(body)
           bytes == IF m.err = "none" THEN Copy(m.buf, 0, size) ELSE <<>>
<1>1. Len(w) = 3 + Len(body) /\ Len(body) \in Nat /\ total \in Nat
  <2>1. Len(w) = 3 + Len(body)
    BY WireIs, Zenon
  <2>2. Len(body) \in Nat
    BY LenProperties DEF Bytes
  <2> QED BY <2>1, <2>2
<1> HIDE DEF w, bytes
<1>2. msg_buf' = m.buf /\ msg_buf' \in Buffers
  BY MessageIs DEF Sends
<1>3. /\ sent'.total = Len(w) - 2 /\ sent'.err = m.err /\ sent'.wire = w /\ sent'.strings = strings
      /\ sent'.bytes = bytes
  BY DEF Sends, w, bytes
<1>4. sent'.total = total
  BY <1>1, <1>3
<1> HIDE DEF total
<1>5. CASE total <= SGS_MAX_PAYLOAD_LENGTH
  <2>1. /\ Kept(m.buf, msg_buf, Word - 1)
        /\ IF m.err = "none" THEN Copy(m.buf, 0, size) = w ELSE \E l \in strings : l >= Word \div 2
    BY <1>5 DEF total, w
  <2>2. SentAsProtocolSays'
    BY <1>3, <2>1 DEF SentAsProtocolSays, bytes
  <2> QED BY <1>2, <2>1, <2>2, TopIs
<1>6. CASE ~(total <= SGS_MAX_PAYLOAD_LENGTH)
  <2>1. sent'.total > SGS_MAX_PAYLOAD_LENGTH /\ sent'.total \notin 1 .. SGS_MAX_PAYLOAD_LENGTH
    BY <1>1, <1>4, <1>6, CellsAre, WordIs
  <2> QED BY <1>2, <2>1 DEF SentAsProtocolSays, TopKept
<1> QED BY <1>5, <1>6

LEMMA MayKeep ==
    ASSUME MessageInv, MaySend, msg_buf' \in Buffers, SentAsProtocolSays'
    PROVE  MessageInv'
<1>1. pc' = pc /\ pc # "callback" /\ incoming' = incoming /\ handed' = handed /\ seen' = seen
  BY DEF MaySend
<1> QED BY <1>1 DEF MessageInv, HandedTypeInv, FieldsInv, PayloadInv, EchoInv, ReadInv

LEMMA EchoKeeps ==
    ASSUME MessageInv, pc = "callback", pc' = "read", UNCHANGED <<incoming, handed>>, seen' = Handed(msg_buf),
           msg_buf' \in Buffers, SentAsProtocolSays'
    PROVE  MessageInv'
<1>1. seen' = incoming'.data
  BY HandedIs
<1> QED BY <1>1 DEF MessageInv, HandedTypeInv, FieldsInv, PayloadInv, EchoInv, ReadInv

LEMMA Opcodes ==
    /\ LOGIN_REQUEST \in Int /\ LOGIN_SUCCESS \in Int /\ LOGIN_FAILURE \in Int /\ LOGIN_REDIRECT \in Int
    /\ SESSION_MESSAGE \in Int /\ LOGOUT_REQUEST \in Int
    /\ CHANNEL_JOIN \in Int /\ CHANNEL_LEAVE \in Int /\ CHANNEL_MESSAGE \in Int
    /\ SESSION_MESSAGE \notin {LOGIN_SUCCESS, LOGIN_FAILURE, LOGIN_REDIRECT, CHANNEL_JOIN, CHANNEL_LEAVE, CHANNEL_MESSAGE}
    /\ CHANNEL_MESSAGE \notin {LOGIN_SUCCESS, LOGIN_FAILURE, LOGIN_REDIRECT, CHANNEL_JOIN, CHANNEL_LEAVE, SESSION_MESSAGE}
BY DEF LOGIN_REQUEST, LOGIN_SUCCESS, LOGIN_FAILURE, LOGIN_REDIRECT, SESSION_MESSAGE, LOGOUT_REQUEST,
       CHANNEL_JOIN, CHANNEL_LEAVE, CHANNEL_MESSAGE

LEMMA DirectSent ==
    ASSUME msg_buf \in Buffers, NEW data \in Bytes, NEW m, m = DirectMessage(data),
           Sends(m, sgs_msg_get_size(m.len), Wire(SESSION_MESSAGE, data), {})
    PROVE  msg_buf' \in Buffers /\ SentAsProtocolSays' /\ TopKept
<1> DEFINE op == SESSION_MESSAGE
           size == sgs_msg_get_size(m.len)
<1>1. op \in Int /\ m = sgs_msg_add_arb_content(sgs_msg_init(msg_buf, op), data)
  BY Opcodes DEF DirectMessage
<1>2. Sends(m, size, Wire(op, data), {})
  OBVIOUS
<1> HIDE DEF op
<1>3. m \in Messages /\ (1 + Len(data) <= SGS_MAX_PAYLOAD_LENGTH => Good(m, op, data) /\ Kept(m.buf, msg_buf, Word - 1))
  BY <1>1, DirectBuilt
<1>4. 1 + Len(data) <= SGS_MAX_PAYLOAD_LENGTH => m.err = "none" /\ Copy(m.buf, 0, size) = Wire(op, data)
  BY <1>1, <1>3, GoodSent DEF Good
<1> HIDE DEF size
<1> QED BY <1>1, <1>2, <1>3, <1>4, SentRight

LEMMA ChannelSent ==
    ASSUME msg_buf \in Buffers, NEW id \in Bytes, NEW data \in Bytes, NEW m,
           m = sgs_msg_add_arb_content(sgs_msg_add_fixed_content(sgs_msg_init(msg_buf, CHANNEL_MESSAGE), id), data),
           Sends(m, sgs_msg_get_size(sgs_msg_deserialize(m.buf)), Wire(CHANNEL_MESSAGE, String(id) \o data), {})
    PROVE  msg_buf' \in Buffers /\ SentAsProtocolSays' /\ TopKept
<1> DEFINE op == CHANNEL_MESSAGE
           size == sgs_msg_get_size(sgs_msg_deserialize(m.buf))
           body == String(id) \o data
<1>1. op \in Int /\ m = sgs_msg_add_arb_content(sgs_msg_add_fixed_content(sgs_msg_init(msg_buf, op), id), data)
  BY Opcodes
<1>2. Sends(m, size, Wire(op, body), {})
  OBVIOUS
<1> HIDE DEF op
<1>3. /\ m \in Messages /\ body \in Bytes
      /\ 1 + Len(body) <= SGS_MAX_PAYLOAD_LENGTH => Good(m, op, body) /\ Kept(m.buf, msg_buf, Word - 1)
  BY <1>1, ChannelBuilt
<1> HIDE DEF body
<1>4. 1 + Len(body) <= SGS_MAX_PAYLOAD_LENGTH => m.err = "none" /\ Copy(m.buf, 0, size) = Wire(op, body)
  BY <1>1, <1>3, GoodSent DEF Good
<1> HIDE DEF size
<1> QED BY <1>1, <1>2, <1>3, <1>4, SentRight

LEMMA LoginSent ==
    ASSUME MessageInv, NEW l \in Nat, NEW p \in Nat, Login(l, p)
    PROVE  MessageInv' /\ TopKept
<1> DEFINE op == LOGIN_REQUEST
           s == Field(3, l)
           t == Field(4, p)
           m == sgs_msg_add_string(sgs_msg_add_string(
                   sgs_msg_add_arb_content(sgs_msg_init(msg_buf, op), <<5>>), s), t)
           body == <<5>> \o String(s) \o String(t)
           size == sgs_msg_get_size(m.len)
<1>1. op \in Int /\ msg_buf \in Buffers
  BY Opcodes DEF MessageInv, HandedTypeInv
<1>2. s \in Bytes /\ Len(s) = l /\ t \in Bytes /\ Len(t) = p
  BY FieldIs
<1>3. Sends(m, size, Wire(op, body), {l, p}) /\ MaySend
  BY DEF Login
<1> HIDE DEF op, s, t
<1>4. /\ m \in Messages /\ body \in Bytes
      /\ 1 + Len(body) <= SGS_MAX_PAYLOAD_LENGTH =>
            /\ Kept(m.buf, msg_buf, Word - 1)
            /\ IF m.err = "none" THEN Good(m, op, body) ELSE Len(s) >= Word \div 2 \/ Len(t) >= Word \div 2
  BY <1>1, <1>2, LoginBuilt
<1> HIDE DEF m, body
<1>5. 1 + Len(body) <= SGS_MAX_PAYLOAD_LENGTH /\ m.err = "none" => Copy(m.buf, 0, size) = Wire(op, body)
  BY <1>1, <1>4, GoodSent
<1>6. 1 + Len(body) <= SGS_MAX_PAYLOAD_LENGTH /\ m.err # "none" => \E x \in {l, p} : x >= Word \div 2
  BY <1>2, <1>4
<1> HIDE DEF size
<1>7. msg_buf' \in Buffers /\ SentAsProtocolSays' /\ TopKept
  BY <1>1, <1>3, <1>4, <1>5, <1>6, SentRight
<1> QED BY <1>3, <1>7, MayKeep

LEMMA LogoutSent ==
    ASSUME MessageInv, Logout
    PROVE  MessageInv' /\ TopKept
<1> DEFINE op == LOGOUT_REQUEST
           m == sgs_msg_init(msg_buf, op)
           e == <<>>
           size == sgs_msg_get_size(m.len)
<1>1. op \in Int /\ msg_buf \in Buffers
  BY Opcodes DEF MessageInv, HandedTypeInv
<1>2. Sends(m, size, Wire(op, e), {}) /\ MaySend
  BY DEF Logout
<1> HIDE DEF op
<1>3. m \in Messages /\ Good(m, op, e) /\ Kept(m.buf, msg_buf, 3)
  BY <1>1, Started
<1>4. e \in Bytes /\ Len(e) = 0
  BY HoldsNothing
<1> HIDE DEF m, e
<1>5. 1 + Len(e) <= SGS_MAX_PAYLOAD_LENGTH /\ 3 \in Nat /\ Word - 1 \in Nat /\ 3 <= Word - 1
  BY <1>4, CellsAre, WordIs
<1>6. Copy(m.buf, 0, size) = Wire(op, e) /\ m.err = "none"
  BY <1>1, <1>3, <1>4, <1>5, GoodSent DEF Good
<1>7. Kept(m.buf, msg_buf, Word - 1)
  <2> SUFFICES ASSUME NEW i \in Cells, i >= Word - 1 PROVE m.buf[i] = msg_buf[i]
    BY DEF Kept
  <2>1. i >= 3
    BY CellsAre, WordIs
  <2> QED BY <1>3, <2>1 DEF Kept
<1> HIDE DEF size
<1>8. msg_buf' \in Buffers /\ SentAsProtocolSays' /\ TopKept
  BY <1>1, <1>2, <1>3, <1>4, <1>6, <1>7, SentRight
<1> QED BY <1>2, <1>8, MayKeep

(***************************************************************************)
(* An echo reads its payload behind what it has already written.            *)
(***************************************************************************)
LEMMA EchoDirectSent ==
    ASSUME MessageInv, EchoDirect
    PROVE  MessageInv' /\ TopKept
<1> DEFINE op == SESSION_MESSAGE
           s == sgs_msg_init(msg_buf, op)
           data == incoming.data
           m == sgs_msg_add_arb_content(s, Handed(s.buf))
<1>1. op \in Int /\ msg_buf \in Buffers /\ data \in Bytes /\ pc = "callback" /\ handed.start = 3
      /\ handed.count = Len(data) /\ Holds(msg_buf, 3, data) /\ 3 + Len(data) <= Word - 1
  BY Opcodes DEF EchoDirect, MessageInv, HandedTypeInv, PayloadInv, EchoInv
<1>2. Sends(m, sgs_msg_get_size(m.len), Wire(op, data), {})
  BY DEF EchoDirect
<1>3. Handed(s.buf) = data
  <2>1. Kept(s.buf, msg_buf, 3)
    <3> HIDE DEF op
    <3> QED BY <1>1, Started
  <2> HIDE DEF s, data
  <2>2. Holds(s.buf, 3, data)
    <3>1. 3 \in Nat /\ 3 <= 3 /\ 3 + Len(data) <= Word + 1
      BY <1>1, LenProperties, WordIs DEF Bytes
    <3> QED BY <1>1, <2>1, <3>1, HoldsKept
  <2>3. 3 \in Nat
    OBVIOUS
  <2>4. Copy(s.buf, 3, Len(data)) = data
    BY <1>1, <2>2, <2>3, CopyIs
  <2> QED BY <1>1, <2>4 DEF Handed
<1>4. m = DirectMessage(data)
  BY <1>3 DEF DirectMessage
<1> HIDE DEF m, data, op
<1>5. msg_buf' \in Buffers /\ SentAsProtocolSays' /\ TopKept
  BY <1>1, <1>2, <1>4, DirectSent DEF op
<1> QED BY <1>1, <1>5, EchoKeeps DEF EchoDirect

LEMMA EchoChannelSent ==
    ASSUME MessageInv, EchoChannel
    PROVE  MessageInv' /\ TopKept
<1> DEFINE op == CHANNEL_MESSAGE
           id == incoming.id
           data == incoming.data
           s == sgs_msg_add_fixed_content(sgs_msg_init(msg_buf, op), id)
           m == sgs_msg_add_arb_content(s, Handed(s.buf))
           at == 5 + Len(id)
<1>1. op \in Int /\ msg_buf \in Buffers /\ data \in Bytes /\ id \in Bytes /\ pc = "callback" /\ handed.start = at
      /\ handed.count = Len(data) /\ Holds(msg_buf, at, data) /\ at + Len(data) <= Word - 1 /\ handed.id = id
  BY Opcodes DEF EchoChannel, MessageInv, HandedTypeInv, PayloadInv, EchoInv, FieldsInv
<1>2. Sends(m, sgs_msg_get_size(sgs_msg_deserialize(m.buf)), Wire(op, String(id) \o data), {})
  BY <1>1 DEF EchoChannel
<1>3. Len(id) \in Nat /\ Len(data) \in Nat /\ at \in Nat /\ at <= at /\ at <= Word - 1 /\ at + Len(data) <= Word + 1
  <2> HIDE DEF op, id, data, s, m
  <2>1. Len(id) \in Nat /\ Len(data) \in Nat
    BY <1>1, LenProperties DEF Bytes
  <2> QED BY <1>1, <2>1, WordIs
<1>4. Handed(s.buf) = data
  <2>1. Kept(s.buf, msg_buf, at)
    <3> HIDE DEF op, id
    <3> QED BY <1>1, <1>3, FieldFirst
  <2> HIDE DEF s, data, at
  <2>2. Holds(s.buf, at, data)
    BY <1>1, <1>3, <2>1, HoldsKept
  <2>3. Copy(s.buf, at, Len(data)) = data
    BY <1>1, <1>3, <2>2, CopyIs
  <2> QED BY <1>1, <2>3 DEF Handed
<1>5. m = sgs_msg_add_arb_content(s, data)
  BY <1>4
<1> HIDE DEF m, data, op, id
<1>6. msg_buf' \in Buffers /\ SentAsProtocolSays' /\ TopKept
  BY <1>1, <1>2, <1>5, ChannelSent DEF op
<1> QED BY <1>1, <1>6, EchoKeeps DEF EchoChannel

-----------------------------------------------------------------------------
LEMMA MessageNext ==
    ASSUME MessageInv, [Next]_vars
    PROVE  MessageInv' /\ [TopKept]_vars
<1>1. DataSizes \subseteq Nat /\ IdSizes \subseteq Nat /\ StringSizes \subseteq Nat /\ ServerSizes \subseteq Nat
  BY MessageAssumption
<1>2. msg_buf \in Buffers
  BY DEF MessageInv, HandedTypeInv
<1>3. ASSUME NEW n \in DataSizes, DirectSend(n) PROVE MessageInv' /\ TopKept
  <2> DEFINE data == Field(1, n)
             m == DirectMessage(data)
  <2>1. data \in Bytes
    BY <1>1, FieldIs
  <2>2. MaySend /\ Sends(m, sgs_msg_get_size(m.len), Wire(SESSION_MESSAGE, data), {})
    BY <1>3 DEF DirectSend, sgs_session_direct_send
  <2>3. m = DirectMessage(data)
    OBVIOUS
  <2> HIDE DEF data, m
  <2> QED BY <1>2, <2>1, <2>2, <2>3, DirectSent, MayKeep
<1>4. ASSUME NEW n \in DataSizes, NEW i \in IdSizes, ChannelSend(i, n) PROVE MessageInv' /\ TopKept
  <2> DEFINE data == Field(1, n)
             id == Field(2, i)
             m == ChannelMessage(id, data)
  <2>1. data \in Bytes /\ id \in Bytes
    BY <1>1, FieldIs
  <2>2. MaySend /\ Sends(m, sgs_msg_get_size(sgs_msg_deserialize(m.buf)), Wire(CHANNEL_MESSAGE, String(id) \o data), {})
    BY <1>4 DEF ChannelSend, sgs_channel_send
  <2>3. m = sgs_msg_add_arb_content(sgs_msg_add_fixed_content(sgs_msg_init(msg_buf, CHANNEL_MESSAGE), id), data)
    BY DEF ChannelMessage
  <2> HIDE DEF data, id, m
  <2> QED BY <1>2, <2>1, <2>2, <2>3, ChannelSent, MayKeep
<1>5. ASSUME NEW l \in StringSizes, NEW p \in StringSizes, Login(l, p) PROVE MessageInv' /\ TopKept
  BY <1>1, <1>5, LoginSent
<1>6. ASSUME NEW i \in IdSizes, RecvLoginSuccess(i) PROVE MessageInv' /\ TopKept
  <2>1. Field(6, i) \in Bytes
    BY <1>1, FieldIs
  <2> QED BY <1>6, <2>1, Opcodes, IdReceived DEF RecvLoginSuccess
<1>7. ASSUME NEW i \in IdSizes, RecvChannelLeave(i) PROVE MessageInv' /\ TopKept
  <2>1. Field(6, i) \in Bytes
    BY <1>1, FieldIs
  <2> QED BY <1>7, <2>1, Opcodes, IdReceived DEF RecvChannelLeave
<1>8. ASSUME NEW n \in ServerSizes, RecvLoginFailure(n) PROVE MessageInv' /\ TopKept
  <2>1. String(Field(7, n)) \in Bytes
    BY <1>1, FieldIs, StringIs
  <2> QED BY <1>8, <2>1, Opcodes, RestReceived DEF RecvLoginFailure
<1>9. ASSUME NEW n \in ServerSizes, RecvLoginRedirect(n) PROVE MessageInv' /\ TopKept
  <2>1. Field(8, n) \in Bytes /\ Field(9, 4) \in Bytes /\ Len(Field(9, 4)) = 4
    BY <1>1, FieldIs
  <2> QED BY <1>9, <2>1, Opcodes, RedirectReceived DEF RecvLoginRedirect
<1>10. ASSUME NEW n \in ServerSizes, RecvSessionMessage(n) PROVE MessageInv' /\ TopKept
  <2>1. Field(7, n) \in Bytes
    BY <1>1, FieldIs
  <2> QED BY <1>10, <2>1, Opcodes, RestReceived DEF RecvSessionMessage
<1>11. ASSUME NEW n \in ServerSizes, NEW i \in IdSizes, RecvChannelJoin(n, i) PROVE MessageInv' /\ TopKept
  <2>1. Field(8, n) \in Bytes /\ Field(6, i) \in Bytes
    BY <1>1, FieldIs
  <2> QED BY <1>11, <2>1, Opcodes, JoinReceived DEF RecvChannelJoin
<1>12. ASSUME NEW n \in ServerSizes, NEW i \in IdSizes, RecvChannelMessage(i, n) PROVE MessageInv' /\ TopKept
  <2>1. Field(6, i) \in Bytes /\ Field(7, n) \in Bytes
    BY <1>1, FieldIs
  <2> QED BY <1>12, <2>1, Opcodes, ChannelMessageReceived DEF RecvChannelMessage
<1>13. ASSUME CallbackReads PROVE MessageInv' /\ TopKept
  <2>1. MessageInv'
    <3>1. seen' = incoming'.data
      BY <1>13, HandedIs DEF CallbackReads
    <3> QED BY <1>13, <3>1 DEF CallbackReads, MessageInv, HandedTypeInv, FieldsInv, PayloadInv, EchoInv, ReadInv,
                             SentAsProtocolSays
  <2> QED BY <1>13, <2>1 DEF CallbackReads, TopKept
<1>14. ASSUME CallbackReturns PROVE MessageInv' /\ TopKept
  <2>1. incoming'.data \in Bytes /\ incoming'.id \in Bytes
    BY <1>14, HoldsNothing DEF CallbackReturns, NoMessage
  <2> QED BY <1>14, <2>1 DEF CallbackReturns, MessageInv, HandedTypeInv, FieldsInv, PayloadInv, EchoInv, ReadInv,
                             SentAsProtocolSays, TopKept
<1>15. CASE UNCHANGED vars
  BY <1>15 DEF vars, MessageInv, HandedTypeInv, FieldsInv, PayloadInv, EchoInv, ReadInv, SentAsProtocolSays
<1> QED BY <1>3, <1>4, <1>5, <1>6, <1>7, <1>8, <1>9, <1>10, <1>11, <1>12, <1>13, <1>14, <1>15,
           LogoutSent, EchoDirectSent, EchoChannelSent DEF Next

LEMMA MessageAlways == Spec => []MessageInv
<1>1. MessageInv /\ [Next]_vars => MessageInv'
  BY MessageNext
<1> QED BY <1>1, MessageInit, PTL DEF Spec

(***************************************************************************)
(* A callback is handed what the server sent: names, ids, the port and the  *)
(* whole payload, and what it reads is that, also when it sends it back     *)
(* from the buffer it is in.                                                *)
(***************************************************************************)
THEOREM CallbacksHandedAsSent == Spec => []HandedAsSent
BY MessageAlways, HandedAgree, PTL

(***************************************************************************)
(* A message within the payload of protocol.h goes out as protocol.h says,  *)
(* or is refused for a string the int16_t cannot count.                     *)
(***************************************************************************)
THEOREM MessagesSentAsProtocolSays == Spec => []SentAsProtocolSays
<1>1. MessageInv => SentAsProtocolSays
  BY DEF MessageInv
<1> QED BY <1>1, MessageAlways, PTL

(***************************************************************************)
(* Nothing but a message with more payload than protocol.h allows writes    *)
(* what follows msg_buf.                                                    *)
(***************************************************************************)
THEOREM NoOverrunWithinPayload == Spec => OnlyOversizeOverruns
<1>1. MessageInv /\ [Next]_vars => [TopKept]_vars
  BY MessageNext
<1>2. [TopKept]_vars <=>
        [\A i \in {SGS_MSG_MAX_LENGTH, SGS_MSG_MAX_LENGTH + 1} :
            msg_buf'[i] # msg_buf[i] => sent'.total > SGS_MAX_PAYLOAD_LENGTH]_vars
  BY DEF TopKept
<1> QED BY <1>1, <1>2, MessageAlways, PTL DEF Spec, OnlyOversizeOverruns

=============================================================================
