--------------------------- MODULE VideoBytesProofs ---------------------------
(***************************************************************************)
(* Proofs about FrameConvert and NalUnits: what the conversions make of a   *)
(* frame of any even size, and how findNALU cuts a stream of any bytes and  *)
(* any length.  Nothing is assumed but SizeAssumption and StreamAssumption. *)
(***************************************************************************)
EXTENDS FrameConvert, NalUnits, SequenceTheorems, WellFoundedInduction, TLAPS

(***************************************************************************)
(* NAL units.  The least and the greatest number at which something holds   *)
(* are the places at which the loops of findNALU stop.                      *)
(***************************************************************************)
LEMMA LeastPlace ==
    ASSUME NEW T \in SUBSET Nat, T # {}
    PROVE  \E n \in T : \A m \in T : n <= m
<1> DEFINE R == OpToRel(<, Nat)
<1>1. IsWellFoundedOn(R, Nat)
  BY NatLessThanWellFounded, Zenon
<1> HIDE DEF R
<1>2. \E x \in T : \A y \in T : ~ (<<y, x>> \in R)
  BY <1>1, WFMin, Zenon
<1>3. ASSUME NEW x \in T, NEW y \in T, y < x PROVE <<y, x>> \in R
  <2>1. <<y, x>> \in Nat \X Nat
    OBVIOUS
  <2> QED BY <1>3, <2>1 DEF R, OpToRel
<1>4. \A x, y \in T : ~(y < x) => x <= y
  OBVIOUS
<1> QED BY <1>2, <1>3, <1>4

LEMMA GreatestPlace ==
    ASSUME NEW k \in Nat, NEW T \in SUBSET Nat, T # {}, \A m \in T : m < k
    PROVE  \E n \in T : \A m \in T : m <= n
<1> DEFINE U == {k - m : m \in T}
<1>1. U \in SUBSET Nat /\ U # {}
  <2>1. \A m \in T : k - m \in Nat
    OBVIOUS
  <2>2. U # {}
    OBVIOUS
  <2> QED BY <2>1, <2>2
<1> HIDE DEF U
<1>2. PICK u \in U : \A v \in U : u <= v
  BY <1>1, LeastPlace
<1>3. PICK n \in T : u = k - n
  BY <1>2 DEF U
<1>4. \A m \in T : k - n <= k - m
  BY <1>2, <1>3 DEF U
<1> QED BY <1>4

Bytes == Seq(Nat)

LEMMA StartCodeIs ==
    ASSUME NEW s \in Bytes, NEW k \in Nat
    PROVE  StartCodeAt(s, k) <=>
              k + 2 < Len(s) /\ At(s, k) = 0 /\ At(s, k + 1) = 0 /\ At(s, k + 2) = 1
<1> SUFFICES ASSUME k + 2 < Len(s)
             PROVE  SubSeq(s, k + 1, k + 3) = <<0, 0, 1>> <=>
                       At(s, k) = 0 /\ At(s, k + 1) = 0 /\ At(s, k + 2) = 1
  BY DEF StartCodeAt
<1> DEFINE t == SubSeq(s, k + 1, k + 3)
           c == <<0, 0, 1>>
<1>1. Len(s) \in Nat /\ \A i \in 1 .. Len(s) : s[i] \in Nat
  BY LenProperties, ElementOfSeq DEF Bytes
<1>2. \A i \in k + 1 .. k + 3 : s[i] \in Nat
  BY <1>1
<1>3. /\ t \in Seq(Nat) /\ Len(t) = 3
      /\ t[1] = s[k + 1] /\ t[2] = s[k + 2] /\ t[3] = s[k + 3]
  <2>1. /\ t \in Seq(Nat)
        /\ Len(t) = IF k + 1 <= k + 3 THEN k + 3 - (k + 1) + 1 ELSE 0
        /\ \A i \in 1 .. k + 3 - (k + 1) + 1 : t[i] = s[k + 1 + i - 1]
    BY <1>2, SubSeqProperties
  <2> HIDE DEF t
  <2>2. 1 \in 1 .. k + 3 - (k + 1) + 1 /\ 2 \in 1 .. k + 3 - (k + 1) + 1 /\ 3 \in 1 .. k + 3 - (k + 1) + 1
    OBVIOUS
  <2>3. k + 1 + 1 - 1 = k + 1 /\ k + 1 + 2 - 1 = k + 2 /\ k + 1 + 3 - 1 = k + 3
    OBVIOUS
  <2> QED BY <2>1, <2>2, <2>3
<1>4. c \in Seq(Nat) /\ Len(c) = 3 /\ c[1] = 0 /\ c[2] = 0 /\ c[3] = 1
  OBVIOUS
<1> HIDE DEF t, c
<1>5. t = c <=> t[1] = 0 /\ t[2] = 0 /\ t[3] = 1
  <2>1. 1 .. Len(t) = {1, 2, 3}
    BY <1>3
  <2> QED BY <1>3, <1>4, <2>1, SeqEqual
<1> QED BY <1>3, <1>5 DEF At, t, c

LEMMA CodesAre ==
    ASSUME NEW s \in Bytes
    PROVE  /\ Len(s) \in Nat
           /\ \A k : k \in StartCodes(s) <=>
                 k \in Nat /\ k + 2 < Len(s) /\ At(s, k) = 0 /\ At(s, k + 1) = 0 /\ At(s, k + 2) = 1
<1>1. Len(s) \in Nat
  BY LenProperties DEF Bytes
<1>2. \A k : k \in StartCodes(s) <=> k \in 0 .. Len(s) - 3 /\ StartCodeAt(s, k)
  BY DEF StartCodes
<1>3. \A k : k \in 0 .. Len(s) - 3 <=> k \in Nat /\ k + 2 < Len(s)
  BY <1>1
<1> QED BY <1>1, <1>2, <1>3, StartCodeIs

(* Start codes do not overlap: the others begin behind the first. *)
LEMMA FirstCode ==
    ASSUME NEW s \in Bytes, StartCodes(s) # {}
    PROVE  \E f \in StartCodes(s) :
              /\ findNALUStartCodeSize(s) = f + 3
              /\ \A k \in StartCodes(s) : k = f \/ k >= f + 3
<1>1. StartCodes(s) \in SUBSET Nat
  BY CodesAre
<1>2. \E n \in StartCodes(s) : \A m \in StartCodes(s) : n <= m
  BY <1>1, LeastPlace
<1> DEFINE f == CHOOSE k \in StartCodes(s) : \A l \in StartCodes(s) : k <= l
<1>3. f \in StartCodes(s) /\ \A l \in StartCodes(s) : f <= l
  BY <1>2
<1>4. findNALUStartCodeSize(s) = f + 3
  BY DEF findNALUStartCodeSize
<1> HIDE DEF f
<1>5. ASSUME NEW k \in StartCodes(s), k # f PROVE k >= f + 3
  <2>1. /\ k \in Nat /\ At(s, k) = 0 /\ At(s, k + 1) = 0
        /\ f \in Nat /\ At(s, f + 2) = 1
    BY <1>3, CodesAre
  <2>2. f < k
    BY <1>3, <1>5, <2>1
  <2>3. k # f + 1
    <3>1. CASE k = f + 1
      <4>1. k + 1 = f + 2
        BY <2>1, <3>1
      <4> QED BY <2>1, <4>1
    <3> QED BY <3>1
  <2>4. k # f + 2
    BY <2>1
  <2> QED BY <2>1, <2>2, <2>3, <2>4
<1> QED BY <1>3, <1>4, <1>5

(***************************************************************************)
(* A start code behind the first has a byte that is looked at among its two *)
(* zeros: the steps of two miss it only when the data end with it.          *)
(***************************************************************************)
Looked(s, size) == {k \in size .. Len(s) - 3 : (k - size) % 2 = 0 /\ At(s, k) = 0}

LEMMA CodeLookedAt ==
    ASSUME NEW s \in Bytes, NEW size \in Nat, NEW k \in StartCodes(s), k >= size, k + 3 # Len(s)
    PROVE  k \in Looked(s, size) \/ k + 1 \in Looked(s, size)
<1>1. /\ k \in Nat /\ k + 2 < Len(s) /\ At(s, k) = 0 /\ At(s, k + 1) = 0 /\ Len(s) \in Nat
  BY CodesAre
<1>2. k \in size .. Len(s) - 3 /\ k + 1 \in size .. Len(s) - 3
  BY <1>1
<1>3. (k - size) % 2 = 0 \/ (k + 1 - size) % 2 = 0
  BY <1>1
<1> QED BY <1>1, <1>2, <1>3 DEF Looked

(* Going back over zeros stops behind the byte that is none. *)
LEMMA BackOverZeros ==
    ASSUME NEW s \in Bytes, NEW k \in Nat, NEW f \in Nat, f < k, At(s, f) # 0
    PROVE  /\ BeforeZeros(s, k) \in f + 1 .. k
           /\ At(s, BeforeZeros(s, k) - 1) # 0
           /\ \A l \in BeforeZeros(s, k) .. k - 1 : At(s, l) = 0
<1> DEFINE T == {m \in 0 .. k - 1 : At(s, m) # 0}
<1>1. T \in SUBSET Nat /\ f \in T /\ \A m \in T : m < k
  OBVIOUS
<1>2. PICK n \in T : \A m \in T : m <= n
  <2> HIDE DEF T
  <2>1. \E n \in T : \A m \in T : m <= n
    BY <1>1, GreatestPlace
  <2> QED BY <2>1
<1>3. /\ n + 1 \in 1 .. k /\ At(s, n + 1 - 1) # 0
      /\ \A l \in n + 1 .. k - 1 : At(s, l) = 0
  <2>1. n \in 0 .. k - 1 /\ At(s, n) # 0 /\ n + 1 - 1 = n
    OBVIOUS
  <2>2. \A l \in n + 1 .. k - 1 : l \in 0 .. k - 1 /\ ~(l <= n)
    BY <2>1
  <2> QED BY <1>2, <2>1, <2>2
<1> DEFINE P(b) == At(s, b - 1) # 0 /\ \A l \in b .. k - 1 : At(s, l) = 0
           z == CHOOSE b \in 1 .. k : P(b)
<1>4. z \in 1 .. k /\ P(z)
  <2>1. \E b \in 1 .. k : P(b)
    BY <1>3
  <2> QED BY <2>1
<1>5. BeforeZeros(s, k) = z
  BY DEF BeforeZeros
<1> HIDE DEF z
<1>6. z > f
  <2>1. CASE z <= f
    <3>1. f \in z .. k - 1
      BY <1>4, <2>1
    <3> QED BY <1>4, <3>1
  <2> QED BY <1>4, <2>1
<1> QED BY <1>4, <1>5, <1>6

(* What findNALU answers, from the first start code and the first zero looked at. *)
LEMMA FoundIs ==
    ASSUME NEW s \in Bytes, StartCodes(s) # {}
    PROVE  \E f \in StartCodes(s) :
              /\ findNALUStartCodeSize(s) = f + 3
              /\ \A k \in StartCodes(s) : k = f \/ k >= f + 3
              /\ \/ /\ Looked(s, f + 3) = {}
                    /\ findNALU(s).nalSize = 0
                 \/ /\ findNALU(s) = [ret |-> 0, nalSize |-> 0]
                 \/ \E k \in Looked(s, f + 3) :
                       /\ \A l \in Looked(s, f + 3) : k <= l
                       /\ StartCodeAt(s, k) \/ StartCodeAt(s, k - 1)
                       /\ findNALU(s) = [ret |-> 0, nalSize |-> BeforeZeros(s, k)]
<1>1. PICK f \in StartCodes(s) :
         /\ findNALUStartCodeSize(s) = f + 3
         /\ \A k \in StartCodes(s) : k = f \/ k >= f + 3
  BY FirstCode
<1>2. f \in Nat /\ Len(s) \in Nat
  BY CodesAre
<1> DEFINE Z == Looked(s, f + 3)
           k == CHOOSE z \in Z : \A l \in Z : z <= l
<1>3. findNALU(s) =
         IF Z = {}
         THEN [ret |-> IF Len(s) > f + 3 THEN 1 ELSE -1, nalSize |-> 0]
         ELSE [ret |-> 0, nalSize |-> IF StartCodeAt(s, k) \/ StartCodeAt(s, k - 1)
                                      THEN BeforeZeros(s, k) ELSE 0]
  BY <1>1 DEF findNALU, Looked
<1>4. Z \in SUBSET Nat
  BY <1>2 DEF Looked
<1>5. Z # {} => k \in Z /\ \A l \in Z : k <= l
  <2> HIDE DEF Z
  <2> SUFFICES ASSUME Z # {} PROVE k \in Z /\ \A l \in Z : k <= l
    OBVIOUS
  <2>1. \E z \in Z : \A l \in Z : z <= l
    BY <1>4, LeastPlace
  <2> QED BY <2>1
<1> HIDE DEF k, Z
<1>6. CASE Z = {}
  <2>1. findNALU(s).nalSize = 0
    BY <1>3, <1>6
  <2> QED BY <1>1, <1>6, <2>1 DEF Z
<1>7. CASE Z # {}
  <2>1. CASE StartCodeAt(s, k) \/ StartCodeAt(s, k - 1)
    <3>1. findNALU(s) = [ret |-> 0, nalSize |-> BeforeZeros(s, k)]
      BY <1>3, <1>7, <2>1
    <3> QED BY <1>1, <1>5, <1>7, <2>1, <3>1 DEF Z
  <2>2. CASE ~(StartCodeAt(s, k) \/ StartCodeAt(s, k - 1))
    <3>1. findNALU(s) = [ret |-> 0, nalSize |-> 0]
      BY <1>3, <1>7, <2>2
    <3> QED BY <1>1, <3>1
  <2> QED BY <2>1, <2>2
<1> QED BY <1>6, <1>7

(* A unit of n bytes has the start codes that end in it. *)
LEMMA UnitCodes ==
    ASSUME NEW s \in Bytes, NEW n \in 0 .. Len(s)
    PROVE  StartCodes(SubSeq(s, 1, n)) = {k \in StartCodes(s) : k + 2 < n}
<1> DEFINE u == SubSeq(s, 1, n)
<1>1. Len(s) \in Nat /\ \A i \in 1 .. Len(s) : s[i] \in Nat
  BY LenProperties, ElementOfSeq DEF Bytes
<1>2. u \in Bytes /\ Len(u) = n /\ \A i \in 1 .. n : u[i] = s[i]
  <2>1. \A i \in 1 .. n : s[i] \in Nat
    BY <1>1
  <2>2. /\ u \in Seq(Nat) /\ Len(u) = IF 1 <= n THEN n - 1 + 1 ELSE 0
        /\ \A i \in 1 .. n - 1 + 1 : u[i] = s[1 + i - 1]
    BY <1>1, <2>1, SubSeqProperties
  <2> HIDE DEF u
  <2>3. n - 1 + 1 = n /\ \A i \in 1 .. n : 1 + i - 1 = i
    BY <1>1
  <2>4. Len(u) = n
    BY <1>1, <2>2
  <2> QED BY <2>2, <2>3, <2>4 DEF Bytes
<1> HIDE DEF u
<1>3. \A k \in Nat : k + 2 < n =>
         k + 2 < Len(s) /\ At(u, k) = At(s, k) /\ At(u, k + 1) = At(s, k + 1) /\ At(u, k + 2) = At(s, k + 2)
  <2> SUFFICES ASSUME NEW k \in Nat, k + 2 < n
               PROVE  /\ k + 2 < Len(s)
                      /\ At(u, k) = At(s, k) /\ At(u, k + 1) = At(s, k + 1) /\ At(u, k + 2) = At(s, k + 2)
    OBVIOUS
  <2>1. k + 1 \in 1 .. n /\ k + 1 + 1 \in 1 .. n /\ k + 2 + 1 \in 1 .. n /\ k + 2 < Len(s)
    BY <1>1
  <2> QED BY <1>2, <2>1 DEF At
<1>4. \A k : k \in StartCodes(u) <=> k \in StartCodes(s) /\ k + 2 < n
  BY <1>2, <1>3, CodesAre
<1> QED BY <1>4 DEF u

(* The claim of UnitsAreWhole, about any bytes and any answer. *)
Whole(s, n, ret) ==
    /\ n > 0 =>
          /\ \E k \in StartCodes(SubSeq(s, 1, n)) : StartCodes(SubSeq(s, 1, n)) = {k}
          /\ At(s, n - 1) # 0
          /\ \E k \in StartCodes(s) : k >= n /\ \A l \in n .. k : At(s, l) = 0
    /\ ret = 1 => \A k \in StartCodes(s) : k + 3 = findNALUStartCodeSize(s) \/ k + 3 = Len(s)

LEMMA CutsAreWhole ==
    ASSUME NEW s \in Bytes, StartCodes(s) # {}
    PROVE  findNALU(s).nalSize \in Nat /\ Whole(s, findNALU(s).nalSize, findNALU(s).ret)
<1> DEFINE n == findNALU(s).nalSize
<1>1. PICK f \in StartCodes(s) :
         /\ findNALUStartCodeSize(s) = f + 3
         /\ \A k \in StartCodes(s) : k = f \/ k >= f + 3
         /\ \/ Looked(s, f + 3) = {} /\ n = 0
            \/ findNALU(s) = [ret |-> 0, nalSize |-> 0]
            \/ \E k \in Looked(s, f + 3) :
                  /\ \A l \in Looked(s, f + 3) : k <= l
                  /\ StartCodeAt(s, k) \/ StartCodeAt(s, k - 1)
                  /\ findNALU(s) = [ret |-> 0, nalSize |-> BeforeZeros(s, k)]
  BY FoundIs
<1>2. f \in Nat /\ f + 2 < Len(s) /\ At(s, f + 2) = 1 /\ f + 3 \in Nat /\ Len(s) \in Nat
  BY CodesAre
<1>3. CASE Looked(s, f + 3) = {} /\ n = 0
  <2>1. ASSUME NEW k \in StartCodes(s), k # f PROVE k + 3 = Len(s)
    BY <1>1, <1>2, <1>3, <2>1, CodeLookedAt
  <2> QED BY <1>1, <1>3, <2>1 DEF Whole
<1>4. CASE findNALU(s) = [ret |-> 0, nalSize |-> 0]
  BY <1>4 DEF Whole
<1>5. CASE \E k \in Looked(s, f + 3) :
              /\ \A l \in Looked(s, f + 3) : k <= l
              /\ StartCodeAt(s, k) \/ StartCodeAt(s, k - 1)
              /\ findNALU(s) = [ret |-> 0, nalSize |-> BeforeZeros(s, k)]
  <2> PICK k \in Looked(s, f + 3) :
         /\ \A l \in Looked(s, f + 3) : k <= l
         /\ StartCodeAt(s, k) \/ StartCodeAt(s, k - 1)
         /\ findNALU(s) = [ret |-> 0, nalSize |-> BeforeZeros(s, k)]
    BY <1>5
  <2>1. k \in Nat /\ k >= f + 3 /\ k + 2 < Len(s) /\ At(s, k) = 0
    BY <1>2 DEF Looked
  <2>2. /\ n \in f + 3 .. k /\ At(s, n - 1) # 0
        /\ \A l \in n .. k - 1 : At(s, l) = 0
    <3>1. f + 2 \in Nat /\ f + 2 < k /\ At(s, f + 2) # 0
      BY <1>2, <2>1
    <3>2. /\ BeforeZeros(s, k) \in f + 2 + 1 .. k
          /\ At(s, BeforeZeros(s, k) - 1) # 0
          /\ \A l \in BeforeZeros(s, k) .. k - 1 : At(s, l) = 0
      BY <2>1, <3>1, BackOverZeros
    <3>3. n = BeforeZeros(s, k) /\ f + 2 + 1 = f + 3
      BY <1>2
    <3> QED BY <3>2, <3>3
  <2> HIDE DEF n
  <2>3. StartCodes(SubSeq(s, 1, n)) = {f}
    <3>1. n \in 0 .. Len(s)
      BY <1>2, <2>1, <2>2
    <3>2. ASSUME NEW x \in StartCodes(s), x + 2 < n PROVE x = f
      <4>1. CASE x >= f + 3
        <5>1. x \in Nat /\ x + 2 < Len(s) /\ Len(s) \in Nat
          BY CodesAre
        <5>2. x + 3 # Len(s) /\ x + 1 < k
          BY <1>2, <2>1, <2>2, <3>2, <5>1
        <5>3. x \in Looked(s, f + 3) \/ x + 1 \in Looked(s, f + 3)
          BY <1>2, <4>1, <5>2, CodeLookedAt
        <5> QED BY <2>1, <5>1, <5>2, <5>3
      <4> QED BY <1>1, <4>1
    <3>3. f + 2 < n
      BY <1>2, <2>1, <2>2
    <3> QED BY <3>1, <3>2, <3>3, UnitCodes
  <2>4. \E x \in StartCodes(s) : x >= n /\ \A l \in n .. x : At(s, l) = 0
    <3>1. CASE StartCodeAt(s, k)
      <4>1. k \in StartCodes(s)
        BY <2>1, <3>1, StartCodeIs, CodesAre
      <4>2. \A l \in n .. k : At(s, l) = 0
        BY <1>2, <2>1, <2>2
      <4> QED BY <1>2, <2>1, <2>2, <4>1, <4>2
    <3>2. CASE StartCodeAt(s, k - 1)
      <4>1. k - 1 \in Nat
        BY <1>2, <2>1
      <4>2. k - 1 \in StartCodes(s) /\ At(s, k - 1) = 0
        BY <3>2, <4>1, StartCodeIs, CodesAre
      <4>3. n # k
        BY <2>2, <4>2
      <4> QED BY <1>2, <2>1, <2>2, <4>2, <4>3
    <3> QED BY <3>1, <3>2
  <2>5. n \in Nat
    BY <1>2, <2>2
  <2>6. findNALU(s).ret = 0
    OBVIOUS
  <2> DEFINE ret == findNALU(s).ret
  <2> HIDE DEF ret
  <2>7. Whole(s, n, ret)
    BY <2>2, <2>3, <2>4, <2>6 DEF Whole, ret
  <2> QED BY <2>5, <2>7 DEF n, ret
<1> QED BY <1>1, <1>3, <1>4, <1>5

(* What was found was found in the bytes in hand: they are as they were then. *)
StreamInv ==
    /\ data \in Bytes
    /\ found # NotAsked => StartCodes(data) # {} /\ found = findNALU(data)

(***************************************************************************)
(* Every unit that findNALU cuts off, whatever arrives and whenever it is   *)
(* asked, is one whole unit; and what it calls the last unit has no other   *)
(* start code in it, but one that the data end with.                        *)
(***************************************************************************)
THEOREM UnitsFoundAreWhole == StreamSpec => []UnitsAreWhole
<1>1. StreamInit => StreamInv
  BY EmptySeq DEF StreamInit, StreamInv, Bytes
<1>2. StreamInv /\ [StreamNext]_streamVars => StreamInv'
  <2> SUFFICES ASSUME StreamInv, [StreamNext]_streamVars PROVE StreamInv'
    OBVIOUS
  <2>1. ASSUME NEW b \in {0, 1} \cup Other, Arrive(b) PROVE StreamInv'
    <3>1. b \in Nat
      BY StreamAssumption
    <3> QED BY <2>1, <3>1, AppendProperties DEF Arrive, StreamInv, Bytes
  <2>2. CASE Find
    BY <2>2 DEF Find, StreamInv
  <2>3. CASE Drop
    <3>1. /\ found' = NotAsked /\ data' = SubSeq(data, found.nalSize + 1, Len(data))
          /\ found.nalSize > 0
      BY <2>3 DEF Drop
    <3>2. data' \in Bytes
      <4>1. data \in Seq(Nat) /\ Len(data) \in Nat
        BY LenProperties DEF StreamInv, Bytes
      <4>2. found.nalSize + 1 \in Nat /\ found.nalSize + 1 > 0
        <5>1. found.nalSize \in Nat
          BY CutsAreWhole DEF StreamInv, NotAsked
        <5> QED BY <5>1
      <4>3. \A i \in found.nalSize + 1 .. Len(data) : data[i] \in Nat
        BY <4>1, <4>2, ElementOfSeq
      <4> QED BY <3>1, <4>1, <4>2, <4>3, SubSeqProperties DEF Bytes
    <3> QED BY <3>1, <3>2 DEF StreamInv
  <2>4. CASE UNCHANGED streamVars
    BY <2>4 DEF streamVars, StreamInv
  <2> QED BY <2>1, <2>2, <2>3, <2>4 DEF StreamNext
<1>3. StreamInv => UnitsAreWhole
  <2> SUFFICES ASSUME StreamInv PROVE UnitsAreWhole
    OBVIOUS
  <2>1. CASE found = NotAsked
    BY <2>1 DEF UnitsAreWhole, NotAsked
  <2>2. CASE found # NotAsked
    <3>1. data \in Bytes /\ StartCodes(data) # {} /\ found = findNALU(data)
      BY <2>2 DEF StreamInv
    <3> QED BY <3>1, CutsAreWhole DEF UnitsAreWhole, Unit, Whole
  <2> QED BY <2>1, <2>2
<1> QED BY <1>1, <1>2, <1>3, PTL DEF StreamSpec

-----------------------------------------------------------------------------
(***************************************************************************)
(* Frames.  Planes are rows of bytes, so a byte is found from its row and   *)
(* column and the other way round by a product, a quotient and a rest.      *)
(***************************************************************************)
LEMMA Product == ASSUME NEW a \in Nat, NEW b \in Nat PROVE a * b \in Nat
OBVIOUS

LEMMA NextRow ==
    ASSUME NEW w \in Nat, NEW a \in Nat, NEW b \in Nat, a < b
    PROVE  a * w + w <= b * w
<1> DEFINE d == b - a - 1
<1>1. d \in Nat /\ b = a + 1 + d
  OBVIOUS
<1> HIDE DEF d
<1>2. d * w \in Nat /\ a * w \in Nat
  BY <1>1, Product
<1>3. b * w = a * w + w + d * w
  BY <1>1
<1> QED BY <1>1, <1>2, <1>3

LEMMA RowAndColumn ==
    ASSUME NEW w \in Nat \ {0}, NEW j \in Nat, NEW i \in 0 .. w - 1
    PROVE  (j * w + i) \div w = j /\ (j * w + i) % w = i
OBVIOUS

LEMMA InPlane ==
    ASSUME NEW w \in Nat, NEW h \in Nat, NEW j \in 0 .. h - 1, NEW i \in 0 .. w - 1
    PROVE  j * w + i \in 0 .. w * h - 1
<1>1. j * w + w <= h * w
  BY NextRow
<1>2. j * w \in Nat
  BY Product
<1> QED BY <1>1, <1>2

LEMMA EvenIs ==
    ASSUME NEW n \in Nat \ {0}, n % 2 = 0
    PROVE  n \div 2 \in Nat \ {0} /\ n = 2 * (n \div 2)
OBVIOUS

(* A frame of 2 a columns and 2 b rows has a b blocks, 4 a b bytes of luma and 6 a b in all. *)
LEMMA SizesOf ==
    ASSUME NEW a \in Nat \ {0}, NEW b \in Nat \ {0}
    PROVE  /\ a * b \in Nat \ {0}
           /\ (2 * a) * (2 * b) = 4 * (a * b)
           /\ ((2 * a) * (2 * b)) \div 4 = a * b
           /\ FrameSize(2 * a, 2 * b) = 6 * (a * b)
           /\ (2 * a) \div 2 = a /\ (2 * b) \div 2 = b
<1>1. a * b \in Nat \ {0}
  <2>1. a * b \in Nat
    BY Product
  <2>2. 1 * b <= a * b
    <3>1. CASE a = 1
      BY <3>1
    <3>2. CASE 1 < a
      <4>1. 1 * b + b <= a * b
        BY <3>2, NextRow
      <4> QED BY <2>1, <4>1
    <3> QED BY <3>1, <3>2
  <2> QED BY <2>1, <2>2
<1>2. (2 * a) * (2 * b) = 4 * (a * b)
  OBVIOUS
<1>3. ((2 * a) * (2 * b)) \div 4 = a * b /\ ((2 * a) * (2 * b) * 3) \div 2 = 6 * (a * b)
  BY <1>1, <1>2
<1>4. (2 * a) \div 2 = a /\ (2 * b) \div 2 = b
  OBVIOUS
<1> QED BY <1>1, <1>2, <1>3, <1>4 DEF FrameSize

Planes == {"Y", "U", "V"}

FirstPlane(f) == IF f = "I420" THEN "U" ELSE "V"

SecondPlane(f) == IF f = "I420" THEN "V" ELSE "U"

(* ByteOf in a frame of 2 a columns and 2 b rows. *)
Byte(f, a, b, plane, i, j) == ByteOf(f, 2 * a, 2 * b, plane, i, j)

LEMMA ByteIs ==
    ASSUME NEW a \in Nat \ {0}, NEW b \in Nat \ {0}, NEW f \in Formats, NEW i \in Nat, NEW j \in Nat
    PROVE  /\ Byte(f, a, b, "Y", i, j) = j * (2 * a) + i
           /\ f = "NV21" =>
                 /\ Byte(f, a, b, "V", i, j) = 4 * (a * b) + (j * (2 * a) + 2 * i)
                 /\ Byte(f, a, b, "U", i, j) = 4 * (a * b) + (j * (2 * a) + 2 * i + 1)
           /\ f # "NV21" =>
                 /\ Byte(f, a, b, FirstPlane(f), i, j) = 4 * (a * b) + (j * a + i)
                 /\ Byte(f, a, b, SecondPlane(f), i, j) = 5 * (a * b) + (j * a + i)
<1>1. /\ a * b \in Nat \ {0} /\ (2 * a) * (2 * b) = 4 * (a * b) /\ ((2 * a) * (2 * b)) \div 4 = a * b
      /\ (2 * a) \div 2 = a
  BY SizesOf
<1>2. j * (2 * a) \in Nat /\ j * a \in Nat
  BY Product
<1> DEFINE y == (2 * a) * (2 * b)
<1>3. /\ Byte(f, a, b, "Y", i, j) = j * (2 * a) + i
      /\ f = "NV21" =>
            /\ Byte(f, a, b, "V", i, j) = y + j * (2 * a) + 2 * i
            /\ Byte(f, a, b, "U", i, j) = y + j * (2 * a) + 2 * i + 1
      /\ f # "NV21" =>
            /\ Byte(f, a, b, FirstPlane(f), i, j) = y + j * ((2 * a) \div 2) + i
            /\ Byte(f, a, b, SecondPlane(f), i, j) = y + j * ((2 * a) \div 2) + i + y \div 4
  BY DEF Byte, ByteOf, FirstPlane, SecondPlane, Formats
<1>4. y = 4 * (a * b) /\ y \div 4 = a * b
  BY <1>1
<1> HIDE DEF y
<1> QED BY <1>1, <1>2, <1>3, <1>4

(* ByteOf again, the byte named by what it is in its part of the frame. *)
RowAt(a, j, i) == j * (2 * a) + i

PairAt(a, b, j, e) == 4 * (a * b) + (j * (2 * a) + e)

BlockAt(n, a, b, j, i) == n * (a * b) + (j * a + i)

InPair(plane, i) == IF plane = "V" THEN 2 * i ELSE 2 * i + 1

Block(f, plane) == IF plane = FirstPlane(f) THEN 4 ELSE 5

LEMMA RowByte ==
    ASSUME NEW a \in Nat \ {0}, NEW b \in Nat \ {0}, NEW f \in Formats, NEW i \in Nat, NEW j \in Nat
    PROVE  Byte(f, a, b, "Y", i, j) = RowAt(a, j, i)
BY ByteIs DEF RowAt

LEMMA PairByte ==
    ASSUME NEW a \in Nat \ {0}, NEW b \in Nat \ {0}, NEW i \in Nat, NEW j \in Nat, NEW plane \in {"U", "V"}
    PROVE  Byte("NV21", a, b, plane, i, j) = PairAt(a, b, j, InPair(plane, i))
<1>1. /\ Byte("NV21", a, b, "V", i, j) = 4 * (a * b) + (j * (2 * a) + 2 * i)
      /\ Byte("NV21", a, b, "U", i, j) = 4 * (a * b) + (j * (2 * a) + 2 * i + 1)
  BY ByteIs DEF Formats
<1>2. j * (2 * a) \in Nat
  BY Product
<1> QED BY <1>1, <1>2 DEF PairAt, InPair

LEMMA BlockByte ==
    ASSUME NEW a \in Nat \ {0}, NEW b \in Nat \ {0}, NEW f \in Formats, f # "NV21",
           NEW i \in Nat, NEW j \in Nat, NEW plane \in {"U", "V"}
    PROVE  Byte(f, a, b, plane, i, j) = BlockAt(Block(f, plane), a, b, j, i)
<1>1. /\ Byte(f, a, b, FirstPlane(f), i, j) = 4 * (a * b) + (j * a + i)
      /\ Byte(f, a, b, SecondPlane(f), i, j) = 5 * (a * b) + (j * a + i)
  BY ByteIs
<1>2. plane \in {FirstPlane(f), SecondPlane(f)}
  BY DEF FirstPlane, SecondPlane
<1> QED BY <1>1, <1>2 DEF BlockAt, Block

(* The bytes of a frame of 2 c columns and 2 d rows. *)
FrameBytes(c, d) == 0 .. 6 * (c * d) - 1

(* The columns and rows of a plane. *)
Columns(plane, a) == IF plane = "Y" THEN 0 .. 2 * a - 1 ELSE 0 .. a - 1

(* The place that a byte of a frame has, the inverse of ByteOf. *)
PlaceAt(f, a, b, k) ==
    LET z == a * b
        c == k - 4 * z
    IN IF k < 4 * z THEN <<"Y", k % (2 * a), k \div (2 * a)>>
       ELSE IF f = "NV21"
       THEN <<IF (c % (2 * a)) % 2 = 0 THEN "V" ELSE "U", (c % (2 * a)) \div 2, c \div (2 * a)>>
       ELSE IF c < z THEN <<FirstPlane(f), c % a, c \div a>>
       ELSE <<SecondPlane(f), (c - z) % a, (c - z) \div a>>

LEMMA ByteInFrame ==
    ASSUME NEW a \in Nat \ {0}, NEW b \in Nat \ {0}, NEW f \in Formats, NEW plane \in Planes,
           NEW i \in Columns(plane, a), NEW j \in Columns(plane, b)
    PROVE  /\ Byte(f, a, b, plane, i, j) \in 0 .. 6 * (a * b) - 1
           /\ plane = "Y" <=> Byte(f, a, b, plane, i, j) < 4 * (a * b)
           /\ PlaceAt(f, a, b, Byte(f, a, b, plane, i, j)) = <<plane, i, j>>
<1> DEFINE z == a * b
           k == Byte(f, a, b, plane, i, j)
<1>1. z \in Nat \ {0}
  BY SizesOf
<1>2. i \in Nat /\ j \in Nat /\ 2 * a \in Nat \ {0} /\ 2 * b \in Nat \ {0}
  BY DEF Columns
<1>3. CASE plane = "Y"
  <2>1. i \in 0 .. 2 * a - 1 /\ j \in 0 .. 2 * b - 1
    BY <1>3 DEF Columns
  <2>2. k = j * (2 * a) + i
    <3>1. Byte(f, a, b, "Y", i, j) = j * (2 * a) + i
      BY <1>2, ByteIs
    <3> QED BY <1>3, <3>1
  <2>3. j * (2 * a) + i \in 0 .. (2 * a) * (2 * b) - 1
    BY <1>2, <2>1, InPlane
  <2>4. (2 * a) * (2 * b) = 4 * z
    BY SizesOf
  <2>5. (j * (2 * a) + i) \div (2 * a) = j /\ (j * (2 * a) + i) % (2 * a) = i
    BY <1>2, <2>1, RowAndColumn
  <2> HIDE DEF z, k
  <2>6. k \in 0 .. 4 * z - 1
    BY <2>2, <2>3, <2>4
  <2>7. PlaceAt(f, a, b, k) = <<"Y", i, j>>
    BY <2>2, <2>5, <2>6 DEF PlaceAt, z
  <2> QED BY <1>1, <1>3, <2>6, <2>7 DEF z, k
<1>4. CASE plane # "Y" /\ f = "NV21"
  <2> DEFINE c == IF plane = "V" THEN 2 * i ELSE 2 * i + 1
             p == j * (2 * a) + c
  <2>1. i \in 0 .. a - 1 /\ j \in 0 .. b - 1 /\ plane \in {"U", "V"}
    BY <1>4 DEF Columns, Planes
  <2>2. /\ c \in 0 .. 2 * a - 1 /\ c \div 2 = i
        /\ plane = IF c % 2 = 0 THEN "V" ELSE "U"
    BY <2>1
  <2>3. k = 4 * z + p
    <3>1. /\ Byte(f, a, b, "V", i, j) = 4 * z + (j * (2 * a) + 2 * i)
          /\ Byte(f, a, b, "U", i, j) = 4 * z + (j * (2 * a) + 2 * i + 1)
      BY <1>2, <1>4, ByteIs
    <3> QED BY <1>2, <2>1, <3>1
  <2> HIDE DEF c
  <2>4. p \in 0 .. (2 * a) * b - 1
    BY <1>2, <2>1, <2>2, InPlane
  <2>5. (2 * a) * b = 2 * z
    OBVIOUS
  <2>6. p \div (2 * a) = j /\ p % (2 * a) = c
    BY <1>2, <2>2, RowAndColumn
  <2> HIDE DEF z, k, p
  <2>7. k \in 4 * z .. 6 * z - 1 /\ k - 4 * z = p
    BY <1>1, <2>3, <2>4, <2>5
  <2>8. PlaceAt(f, a, b, k) = <<plane, i, j>>
    <3>1. ~(k < 4 * z)
      BY <1>1, <2>7
    <3>2. PlaceAt(f, a, b, k) = <<IF (p % (2 * a)) % 2 = 0 THEN "V" ELSE "U", (p % (2 * a)) \div 2, p \div (2 * a)>>
      BY <1>4, <2>7, <3>1 DEF PlaceAt, z
    <3> QED BY <2>2, <2>6, <3>2
  <2> QED BY <1>1, <1>4, <2>7, <2>8 DEF z, k
<1>5. CASE plane # "Y" /\ f # "NV21"
  <2> DEFINE p == j * a + i
  <2>1. i \in 0 .. a - 1 /\ j \in 0 .. b - 1 /\ plane \in {FirstPlane(f), SecondPlane(f)}
    BY <1>5 DEF Columns, Planes, FirstPlane, SecondPlane
  <2>2. /\ plane = FirstPlane(f) => k = 4 * z + p
        /\ plane = SecondPlane(f) => k = 5 * z + p
    <3>1. /\ Byte(f, a, b, FirstPlane(f), i, j) = 4 * z + p
          /\ Byte(f, a, b, SecondPlane(f), i, j) = 5 * z + p
      BY <1>2, <1>5, ByteIs
    <3> QED BY <3>1
  <2>3. p \in 0 .. z - 1
    BY <1>2, <2>1, InPlane
  <2>4. p \div a = j /\ p % a = i
    BY <1>2, <2>1, RowAndColumn
  <2> HIDE DEF z, k, p
  <2>5. k \in 4 * z .. 6 * z - 1
    BY <1>1, <2>1, <2>2, <2>3
  <2>6. PlaceAt(f, a, b, k) = <<plane, i, j>>
    <3>1. CASE plane = FirstPlane(f)
      <4>1. ~(k < 4 * z) /\ k - 4 * z = p /\ p < z
        BY <1>1, <2>2, <2>3, <3>1
      <4> QED BY <1>5, <2>4, <3>1, <4>1 DEF PlaceAt, z
    <3>2. CASE plane = SecondPlane(f)
      <4>1. ~(k < 4 * z) /\ ~(k - 4 * z < z) /\ k - 4 * z - z = p
        BY <1>1, <2>2, <2>3, <3>2
      <4> DEFINE c == k - 4 * z
      <4>2. ~(c < z) /\ c - z = p
        BY <4>1
      <4>3. PlaceAt(f, a, b, k) = <<SecondPlane(f), (c - z) % a, (c - z) \div a>>
        BY <1>5, <4>1, <4>2 DEF PlaceAt, z
      <4> HIDE DEF c
      <4> QED BY <2>4, <3>2, <4>2, <4>3
    <3> QED BY <2>1, <3>1, <3>2
  <2> QED BY <1>1, <1>5, <2>5, <2>6 DEF z, k
<1> QED BY <1>3, <1>4, <1>5

LEMMA PlacesAre ==
    ASSUME NEW a \in Nat \ {0}, NEW b \in Nat \ {0}
    PROVE  \A p : p \in Places(2 * a, 2 * b) <=>
              /\ p = <<p[1], p[2], p[3]>>
              /\ p[1] \in Planes /\ p[2] \in Columns(p[1], a) /\ p[3] \in Columns(p[1], b)
<1>1. (2 * a) \div 2 = a /\ (2 * b) \div 2 = b
  BY SizesOf
<1>2. Places(2 * a, 2 * b) =
         ({"Y"} \X (0 .. 2 * a - 1) \X (0 .. 2 * b - 1)) \cup ({"U", "V"} \X (0 .. a - 1) \X (0 .. b - 1))
  BY <1>1 DEF Places
<1> QED BY <1>2 DEF Planes, Columns

(* No two places of the scene have the same byte, so each has its own in the frame. *)
LEMMA SceneShows ==
    ASSUME NEW a \in Nat \ {0}, NEW b \in Nat \ {0}, NEW f \in Formats, NEW plane \in Planes,
           NEW i \in Columns(plane, a), NEW j \in Columns(plane, b)
    PROVE  Scene(f, 2 * a, 2 * b)[Byte(f, a, b, plane, i, j)] = <<plane, i, j>>
<1> DEFINE k == Byte(f, a, b, plane, i, j)
           P == Places(2 * a, 2 * b)
           ByteOfPlace(p) == ByteOf(f, 2 * a, 2 * b, p[1], p[2], p[3])
           q == CHOOSE p \in P : ByteOfPlace(p) = k
<1>1. <<plane, i, j>> \in P
  BY PlacesAre
<1>2. q \in P /\ ByteOfPlace(q) = k
  <2>1. ByteOfPlace(<<plane, i, j>>) = k
    BY DEF Byte
  <2> HIDE DEF k, P, ByteOfPlace
  <2> QED BY <1>1, <2>1
<1>3. Scene(f, 2 * a, 2 * b)[k] = q
  <2>1. k \in 0 .. FrameSize(2 * a, 2 * b) - 1
    BY ByteInFrame, SizesOf
  <2> DEFINE n == FrameSize(2 * a, 2 * b)
             C(x) == CHOOSE p \in P : ByteOfPlace(p) = x
  <2>2. Scene(f, 2 * a, 2 * b) = [x \in 0 .. n - 1 |-> C(x)]
    BY DEF Scene
  <2>3. q = C(k)
    OBVIOUS
  <2> HIDE DEF k, n, C, q
  <2> QED BY <2>1, <2>2, <2>3 DEF n
<1> HIDE DEF q
<1>4. /\ q = <<q[1], q[2], q[3]>>
      /\ q[1] \in Planes /\ q[2] \in Columns(q[1], a) /\ q[3] \in Columns(q[1], b)
  BY <1>2, PlacesAre
<1>5. PlaceAt(f, a, b, k) = q
  <2>1. k = Byte(f, a, b, q[1], q[2], q[3])
    BY <1>2 DEF Byte
  <2> HIDE DEF k
  <2> QED BY <1>4, <2>1, ByteInFrame
<1>6. PlaceAt(f, a, b, k) = <<plane, i, j>>
  BY ByteInFrame
<1> QED BY <1>3, <1>5, <1>6

(***************************************************************************)
(* Where the code gets what it shows at a place, of a frame of format f cut *)
(* left columns and top lines in: for NV21 the byte that many pixels on,    *)
(* which for an odd number is the other one of a pair; for the planar       *)
(* formats the block that many blocks on.                                   *)
(***************************************************************************)
Source(f, plane, i, j, left, top) ==
    LET c == left + (IF plane = "V" THEN 2 * i ELSE 2 * i + 1)
    IN IF plane = "Y" THEN <<"Y", left + i, top + j>>
       ELSE IF f = "NV21" THEN <<IF c % 2 = 0 THEN "V" ELSE "U", c \div 2, top \div 2 + j>>
       ELSE <<plane, left + i, top \div 2 + j>>

Shows(frame, fmtNow, a, b, f, left, top) ==
    \A plane \in Planes : \A i \in Columns(plane, a), j \in Columns(plane, b) :
        frame[Byte(fmtNow, a, b, plane, i, j)] = Source(f, plane, i, j, left, top)

LEMMA WholeScene ==
    ASSUME NEW f \in Formats, NEW plane \in Planes, NEW i \in Nat, NEW j \in Nat
    PROVE  Source(f, plane, i, j, 0, 0) = <<plane, i, j>>
<1>1. CASE plane = "Y"
  BY <1>1 DEF Source
<1>2. CASE plane = "V"
  <2>1. 0 + 2 * i = 2 * i /\ (2 * i) % 2 = 0 /\ (2 * i) \div 2 = i /\ 0 \div 2 + j = j /\ 0 + i = i
    OBVIOUS
  <2> QED BY <1>2, <2>1 DEF Source
<1>3. CASE plane = "U"
  <2> DEFINE c == 2 * i + 1
  <2>1. 0 + c = c /\ c % 2 # 0 /\ c \div 2 = i /\ 0 \div 2 + j = j /\ 0 + i = i
    OBVIOUS
  <2> QED BY <1>3, <2>1 DEF Source
<1> QED BY <1>1, <1>2, <1>3 DEF Planes

(* The byte of the source that CropYUVFrame takes for byte k, in each of its loops. *)
LumaIndex(k, a, b, c, d) == Line(k, (b - d) * (2 * a) + (a - c), 2 * a, 2 * c)

PairIndex(k, a, b, c, d) ==
    Line(k - 4 * (c * d), 4 * (a * b) + ((b - d) \div 2) * (2 * a) + (a - c), 2 * a, 2 * c)

BlockIndex(n, k, a, b, c, d) ==
    Line(k - n * (c * d), n * (a * b) + ((b - d) \div 2) * a + (a - c), a, c)

Cropped(src, a, b, c, d, f, dst) == CropYUVFrame(src, 2 * a, 2 * b, f, dst, 2 * c, 2 * d)

LEMMA CropIs ==
    ASSUME NEW a \in Nat \ {0}, NEW b \in Nat \ {0}, NEW c \in Nat \ {0}, NEW d \in Nat \ {0},
           c <= a, d <= b, ~(c = a /\ d = b), NEW f \in Formats, NEW src,
           NEW dst, DOMAIN dst = FrameBytes(c, d), NEW k \in FrameBytes(c, d)
    PROVE  Cropped(src, a, b, c, d, f, dst)[k] =
              IF k < 4 * (c * d) THEN src[LumaIndex(k, a, b, c, d)]
              ELSE IF f = "NV21" THEN src[PairIndex(k, a, b, c, d)]
              ELSE IF k < 5 * (c * d) THEN src[BlockIndex(4, k, a, b, c, d)]
              ELSE src[BlockIndex(5, k, a, b, c, d)]
<1> DEFINE x == 2 * a - 2 * c
           y == 2 * b - 2 * d
           z == (2 * a) * (2 * b)
           v == (2 * c) * (2 * d)
           p == z + (y \div 4) * (2 * a) + x \div 2
           q == z + (y \div 4) * ((2 * a) \div 2) + x \div 2
           r == q + z \div 4
<1>1. ~(x = 0 /\ y = 0)
  OBVIOUS
<1>2. Cropped(src, a, b, c, d, f, dst)[k] =
         IF k < v THEN src[Line(k, (y \div 2) * (2 * a) + x \div 2, 2 * a, 2 * c)]
         ELSE IF f = "NV21" THEN src[Line(k - v, p, 2 * a, 2 * c)]
         ELSE IF k < v + v \div 4 THEN src[Line(k - v, q, (2 * a) \div 2, (2 * c) \div 2)]
         ELSE src[Line(k - v - v \div 4, r, (2 * a) \div 2, (2 * c) \div 2)]
  BY <1>1 DEF Cropped, CropYUVFrame, FrameBytes
<1>3. /\ x \div 2 = a - c /\ y \div 2 = b - d /\ y \div 4 = (b - d) \div 2
      /\ (2 * a) \div 2 = a /\ (2 * c) \div 2 = c
  OBVIOUS
<1>4. /\ a * b \in Nat /\ c * d \in Nat
      /\ z = 4 * (a * b) /\ z \div 4 = a * b /\ v = 4 * (c * d) /\ v \div 4 = c * d
  BY SizesOf
<1> HIDE DEF x, y, z, v
<1>5. /\ p = 4 * (a * b) + ((b - d) \div 2) * (2 * a) + (a - c)
      /\ q = 4 * (a * b) + ((b - d) \div 2) * a + (a - c)
      /\ r = 5 * (a * b) + ((b - d) \div 2) * a + (a - c)
  <2> DEFINE t == (b - d) \div 2
  <2>1. t * a \in Int
    <3>1. t \in Int
      OBVIOUS
    <3> QED BY <3>1
  <2>2. p = 4 * (a * b) + t * (2 * a) + (a - c) /\ q = 4 * (a * b) + t * a + (a - c)
    BY <1>3, <1>4
  <2> HIDE DEF t, p, q
  <2>3. r = q + a * b
    BY <1>4
  <2>4. r = 5 * (a * b) + t * a + (a - c)
    BY <1>4, <2>1, <2>2, <2>3
  <2> QED BY <2>2, <2>4 DEF t
<1>6. v + v \div 4 = 5 * (c * d) /\ k - v - v \div 4 = k - 5 * (c * d)
  BY <1>4 DEF FrameBytes
<1> HIDE DEF p, q, r
<1> QED BY <1>2, <1>3, <1>4, <1>5, <1>6 DEF LumaIndex, PairIndex, BlockIndex

(* A column or row of the middle, seen in the whole; a row of blocks, in whole blocks. *)
Along(a, c, i) == a - c + i

Down(b, d, j) == (b - d) \div 2 + j

LEMMA LumaIndexIs ==
    ASSUME NEW a \in Nat \ {0}, NEW b \in Nat \ {0}, NEW c \in Nat \ {0}, NEW d \in Nat \ {0},
           c <= a, d <= b, NEW i \in 0 .. 2 * c - 1, NEW j \in 0 .. 2 * d - 1
    PROVE  LumaIndex(RowAt(c, j, i), a, b, c, d) = RowAt(a, Along(b, d, j), Along(a, c, i))
<1> DEFINE k == RowAt(c, j, i)
           from == (b - d) * (2 * a) + (a - c)
           w == 2 * c
           stride == 2 * a
<1>1. from \in Int /\ w \in Nat \ {0} /\ stride \in Nat /\ j \in Nat /\ i \in 0 .. w - 1 /\ k = j * w + i
  <2>1. (b - d) * (2 * a) \in Int
    OBVIOUS
  <2> QED BY <2>1 DEF RowAt
<1>2. LumaIndex(k, a, b, c, d) = Line(k, from, stride, w)
  BY DEF LumaIndex
<1> HIDE DEF k, from, w, stride
<1>3. Line(k, from, stride, w) = from + j * stride + i
  <2>1. k \div w = j /\ k % w = i
    BY <1>1
  <2> QED BY <2>1 DEF Line
<1>4. from + j * stride + i = (b - d + j) * (2 * a) + (a - c + i)
  BY <1>1 DEF from, stride
<1> QED BY <1>2, <1>3, <1>4 DEF RowAt, Along, k

LEMMA PairIndexIs ==
    ASSUME NEW a \in Nat \ {0}, NEW b \in Nat \ {0}, NEW c \in Nat \ {0}, NEW d \in Nat \ {0},
           c <= a, d <= b, NEW e \in 0 .. 2 * c - 1, NEW j \in Nat
    PROVE  PairIndex(PairAt(c, d, j, e), a, b, c, d) = PairAt(a, b, Down(b, d, j), Along(a, c, e))
<1> DEFINE k == PairAt(c, d, j, e)
           t == (b - d) \div 2
           from == 4 * (a * b) + t * (2 * a) + (a - c)
           w == 2 * c
           stride == 2 * a
           p == k - 4 * (c * d)
<1>1. t \in Nat
  OBVIOUS
<1>2. p = j * w + e
  <2>1. c * d \in Nat /\ j * (2 * c) \in Nat
    BY Product
  <2> QED BY <2>1 DEF PairAt
<1>3. PairIndex(k, a, b, c, d) = Line(p, from, stride, w)
  BY DEF PairIndex
<1> HIDE DEF k, t, p
<1>4. from \in Int /\ w \in Nat \ {0} /\ stride \in Nat /\ e \in 0 .. w - 1
  <2>1. t * (2 * a) \in Int /\ a * b \in Int
    BY <1>1
  <2> QED BY <2>1
<1>5. from + j * stride + e = 4 * (a * b) + ((t + j) * (2 * a) + (a - c + e))
  BY <1>1
<1> HIDE DEF from, w, stride
<1>6. Line(p, from, stride, w) = from + j * stride + e
  <2>1. p \div w = j /\ p % w = e
    BY <1>2, <1>4
  <2> QED BY <2>1 DEF Line
<1> QED BY <1>3, <1>5, <1>6 DEF k, t, PairAt, Along, Down

LEMMA BlockIndexIs ==
    ASSUME NEW a \in Nat \ {0}, NEW b \in Nat \ {0}, NEW c \in Nat \ {0}, NEW d \in Nat \ {0},
           c <= a, d <= b, NEW i \in 0 .. c - 1, NEW j \in Nat, NEW n \in {4, 5}
    PROVE  BlockIndex(n, BlockAt(n, c, d, j, i), a, b, c, d) = BlockAt(n, a, b, Down(b, d, j), Along(a, c, i))
<1> DEFINE k == BlockAt(n, c, d, j, i)
           t == (b - d) \div 2
           from == n * (a * b) + t * a + (a - c)
           p == k - n * (c * d)
<1>1. t \in Nat
  OBVIOUS
<1>2. p = j * c + i
  <2>1. c * d \in Nat /\ j * c \in Nat
    BY Product
  <2> QED BY <2>1 DEF BlockAt
<1>3. BlockIndex(n, k, a, b, c, d) = Line(p, from, a, c)
  BY DEF BlockIndex
<1> HIDE DEF k, t, p
<1>4. from \in Int
  <2>1. t * a \in Int /\ a * b \in Int
    BY <1>1
  <2> QED BY <2>1
<1>5. from + j * a + i = n * (a * b) + ((t + j) * a + (a - c + i))
  BY <1>1
<1> HIDE DEF from
<1>6. Line(p, from, a, c) = from + j * a + i
  <2>1. p \div c = j /\ p % c = i
    BY <1>2
  <2> QED BY <2>1 DEF Line
<1> QED BY <1>3, <1>5, <1>6 DEF k, t, BlockAt, Along, Down

(***************************************************************************)
(* What each loop copies to the byte of a place: the byte that the frame of *)
(* the camera has for the place found by going along and down.              *)
(***************************************************************************)
LEMMA RowTaken ==
    ASSUME NEW a \in Nat \ {0}, NEW b \in Nat \ {0}, NEW c \in Nat \ {0}, NEW d \in Nat \ {0},
           c <= a, d <= b, NEW f \in Formats, NEW i \in 0 .. 2 * c - 1, NEW j \in 0 .. 2 * d - 1
    PROVE  /\ LumaIndex(Byte(f, c, d, "Y", i, j), a, b, c, d) = Byte(f, a, b, "Y", Along(a, c, i), Along(b, d, j))
           /\ Along(a, c, i) \in 0 .. 2 * a - 1 /\ Along(b, d, j) \in 0 .. 2 * b - 1
<1> DEFINE m == Along(a, c, i)
           n == Along(b, d, j)
<1>1. m \in 0 .. 2 * a - 1 /\ n \in 0 .. 2 * b - 1
  BY DEF Along
<1>2. Byte(f, c, d, "Y", i, j) = RowAt(c, j, i)
  BY RowByte
<1>3. LumaIndex(RowAt(c, j, i), a, b, c, d) = RowAt(a, n, m)
  BY LumaIndexIs
<1> HIDE DEF m, n
<1>4. Byte(f, a, b, "Y", m, n) = RowAt(a, n, m)
  BY <1>1, RowByte
<1> QED BY <1>1, <1>2, <1>3, <1>4 DEF m, n

(* The plane and the number of the pair of the byte taken for one of a pair. *)
PairPlane(a, c, plane, i) == IF Along(a, c, InPair(plane, i)) % 2 = 0 THEN "V" ELSE "U"

PairNumber(a, c, plane, i) == Along(a, c, InPair(plane, i)) \div 2

LEMMA PairTaken ==
    ASSUME NEW a \in Nat \ {0}, NEW b \in Nat \ {0}, NEW c \in Nat \ {0}, NEW d \in Nat \ {0},
           c <= a, d <= b, NEW plane \in {"U", "V"}, NEW i \in 0 .. c - 1, NEW j \in 0 .. d - 1
    PROVE  /\ PairIndex(Byte("NV21", c, d, plane, i, j), a, b, c, d)
                 = Byte("NV21", a, b, PairPlane(a, c, plane, i), PairNumber(a, c, plane, i), Down(b, d, j))
           /\ PairPlane(a, c, plane, i) \in {"U", "V"} /\ PairNumber(a, c, plane, i) \in 0 .. a - 1
           /\ Down(b, d, j) \in 0 .. b - 1
<1> DEFINE g == Along(a, c, InPair(plane, i))
           pl == PairPlane(a, c, plane, i)
           m == PairNumber(a, c, plane, i)
           n == Down(b, d, j)
           e == InPair(plane, i)
<1>1. e \in 0 .. 2 * c - 1
  BY DEF InPair
<1>2. n \in 0 .. b - 1
  BY DEF Down
<1>3. g \in 0 .. 2 * a - 1
  <2> HIDE DEF e, g
  <2>1. g = a - c + e
    BY DEF Along, e, g
  <2> QED BY <1>1, <2>1
<1>4. pl \in {"U", "V"} /\ m \in 0 .. a - 1 /\ InPair(pl, m) = g
  <2>1. pl = (IF g % 2 = 0 THEN "V" ELSE "U") /\ m = g \div 2
    BY DEF PairPlane, PairNumber
  <2> HIDE DEF g, pl, m
  <2> QED BY <1>3, <2>1 DEF InPair
<1>5. Byte("NV21", c, d, plane, i, j) = PairAt(c, d, j, e)
  BY PairByte
<1>6. PairIndex(PairAt(c, d, j, e), a, b, c, d) = PairAt(a, b, n, g)
  <2> HIDE DEF e, g
  <2>1. Along(a, c, e) = g
    BY DEF e, g
  <2> QED BY <1>1, <2>1, PairIndexIs
<1> HIDE DEF g, pl, m, n, e
<1>7. Byte("NV21", a, b, pl, m, n) = PairAt(a, b, n, InPair(pl, m))
  BY <1>2, <1>4, PairByte
<1> QED BY <1>2, <1>4, <1>5, <1>6, <1>7 DEF g, pl, m, n

PartOf(k, c, d) == IF k < 5 * (c * d) THEN 4 ELSE 5

LEMMA BlockTaken ==
    ASSUME NEW a \in Nat \ {0}, NEW b \in Nat \ {0}, NEW c \in Nat \ {0}, NEW d \in Nat \ {0},
           c <= a, d <= b, NEW f \in Formats, f # "NV21", NEW plane \in {"U", "V"},
           NEW i \in 0 .. c - 1, NEW j \in 0 .. d - 1
    PROVE  /\ BlockIndex(Block(f, plane), Byte(f, c, d, plane, i, j), a, b, c, d)
                 = Byte(f, a, b, plane, Along(a, c, i), Down(b, d, j))
           /\ Along(a, c, i) \in 0 .. a - 1 /\ Down(b, d, j) \in 0 .. b - 1
           /\ Block(f, plane) = PartOf(Byte(f, c, d, plane, i, j), c, d)
<1> DEFINE m == Along(a, c, i)
           n == Down(b, d, j)
           o == Block(f, plane)
<1>1. m \in 0 .. a - 1
  BY DEF Along
<1>2. n \in 0 .. b - 1
  BY DEF Down
<1>3. o \in {4, 5}
  BY DEF Block
<1>4. Byte(f, c, d, plane, i, j) = BlockAt(o, c, d, j, i)
  BY BlockByte
<1> HIDE DEF m, n, o
<1>5. BlockIndex(o, BlockAt(o, c, d, j, i), a, b, c, d) = BlockAt(o, a, b, n, m)
  BY <1>3, BlockIndexIs DEF m, n
<1>6. Byte(f, a, b, plane, m, n) = BlockAt(o, a, b, n, m)
  BY <1>1, <1>2, BlockByte DEF o
<1>7. o = PartOf(BlockAt(o, c, d, j, i), c, d)
  <2> DEFINE v == c * d
             p == j * c + i
  <2>1. v \in Nat \ {0}
    BY SizesOf
  <2>2. p \in 0 .. v - 1
    BY InPlane
  <2> HIDE DEF v, p
  <2>3. BlockAt(o, c, d, j, i) = o * v + p
    BY DEF BlockAt, v, p
  <2>4. o = IF o * v + p < 5 * v THEN 4 ELSE 5
    BY <1>3, <2>1, <2>2
  <2> QED BY <2>3, <2>4 DEF v, PartOf
<1> QED BY <1>1, <1>2, <1>4, <1>5, <1>6, <1>7 DEF m, n, o

(* A crop of the whole scene shows at each place what Source says. *)
LEMMA CropShows ==
    ASSUME NEW a \in Nat \ {0}, NEW b \in Nat \ {0}, NEW c \in Nat \ {0}, NEW d \in Nat \ {0},
           c <= a, d <= b, ~(c = a /\ d = b), NEW f \in Formats,
           NEW src, Shows(src, f, a, b, f, 0, 0),
           NEW dst, DOMAIN dst = FrameBytes(c, d)
    PROVE  Shows(Cropped(src, a, b, c, d, f, dst), f, c, d, f, a - c, b - d)
<1> DEFINE crop == Cropped(src, a, b, c, d, f, dst)
<1> SUFFICES ASSUME NEW plane \in Planes, NEW i \in Columns(plane, c), NEW j \in Columns(plane, d)
             PROVE  crop[Byte(f, c, d, plane, i, j)] = Source(f, plane, i, j, a - c, b - d)
  BY DEF Shows
<1> DEFINE k == Byte(f, c, d, plane, i, j)
<1>0. /\ a \in Nat \ {0} /\ b \in Nat \ {0} /\ c \in Nat \ {0} /\ d \in Nat \ {0}
      /\ c <= a /\ d <= b
  OBVIOUS
<1>1. k \in FrameBytes(c, d) /\ k \in Nat /\ (plane = "Y" <=> k < 4 * (c * d))
  BY ByteInFrame DEF FrameBytes
<1>2. crop[k] = IF plane = "Y" THEN src[LumaIndex(k, a, b, c, d)]
                ELSE IF f = "NV21" THEN src[PairIndex(k, a, b, c, d)]
                ELSE IF k < 5 * (c * d) THEN src[BlockIndex(4, k, a, b, c, d)]
                ELSE src[BlockIndex(5, k, a, b, c, d)]
  <2> HIDE DEF k
  <2> QED BY <1>1, CropIs
<1>3. ASSUME NEW pl \in Planes, NEW m \in Columns(pl, a), NEW n \in Columns(pl, b)
      PROVE  src[Byte(f, a, b, pl, m, n)] = <<pl, m, n>>
  <2>1. m \in Nat /\ n \in Nat
    BY DEF Columns
  <2>2. Source(f, pl, m, n, 0, 0) = <<pl, m, n>>
    BY <2>1, WholeScene
  <2> QED BY <2>2 DEF Shows
<1> HIDE DEF crop, k
<1>4. CASE plane = "Y"
  <2> DEFINE m == Along(a, c, i)
             n == Along(b, d, j)
  <2>1. i \in 0 .. 2 * c - 1 /\ j \in 0 .. 2 * d - 1
    BY <1>4 DEF Columns
  <2>2. Source(f, plane, i, j, a - c, b - d) = <<"Y", m, n>>
    BY <1>4 DEF Source, Along
  <2> HIDE DEF m, n
  <2>3. /\ LumaIndex(k, a, b, c, d) = Byte(f, a, b, "Y", m, n)
        /\ m \in 0 .. 2 * a - 1 /\ n \in 0 .. 2 * b - 1
    BY <1>4, <2>1, RowTaken DEF k, m, n
  <2>4. src[Byte(f, a, b, "Y", m, n)] = <<"Y", m, n>>
    <3>1. "Y" \in Planes /\ m \in Columns("Y", a) /\ n \in Columns("Y", b)
      BY <2>3 DEF Planes, Columns
    <3> QED BY <1>3, <3>1
  <2> QED BY <1>2, <1>4, <2>2, <2>3, <2>4 DEF k
<1>5. CASE plane # "Y" /\ f = "NV21"
  <2> DEFINE pl == PairPlane(a, c, plane, i)
             m == PairNumber(a, c, plane, i)
             n == Down(b, d, j)
  <2>1. i \in 0 .. c - 1 /\ j \in 0 .. d - 1 /\ plane \in {"U", "V"}
    BY <1>5 DEF Columns, Planes
  <2>2. Source(f, plane, i, j, a - c, b - d) = <<pl, m, n>>
    BY <1>5 DEF Source, Along, Down, InPair, PairPlane, PairNumber
  <2>3. /\ PairIndex(k, a, b, c, d) = Byte("NV21", a, b, pl, m, n)
        /\ pl \in {"U", "V"} /\ m \in 0 .. a - 1 /\ n \in 0 .. b - 1
    <3>1. k = Byte("NV21", c, d, plane, i, j)
      BY <1>5 DEF k
    <3>2. PairIndex(Byte("NV21", c, d, plane, i, j), a, b, c, d) = Byte("NV21", a, b, pl, m, n)
      BY ONLY <1>0, <2>1, PairTaken
    <3>3. pl \in {"U", "V"} /\ m \in 0 .. a - 1 /\ n \in 0 .. b - 1
      BY <2>1, PairTaken
    <3> QED BY <3>1, <3>2, <3>3
  <2> HIDE DEF pl, m, n
  <2>4. src[Byte("NV21", a, b, pl, m, n)] = <<pl, m, n>>
    <3>1. pl \in Planes /\ m \in Columns(pl, a) /\ n \in Columns(pl, b)
      BY <2>3 DEF Planes, Columns
    <3> QED BY <1>3, <1>5, <3>1
  <2> QED BY <1>2, <1>5, <2>2, <2>3, <2>4 DEF k
<1>6. CASE plane # "Y" /\ f # "NV21"
  <2> DEFINE m == Along(a, c, i)
             n == Down(b, d, j)
             o == Block(f, plane)
  <2>1. i \in 0 .. c - 1 /\ j \in 0 .. d - 1 /\ plane \in {"U", "V"}
    BY <1>6 DEF Columns, Planes
  <2>2. Source(f, plane, i, j, a - c, b - d) = <<plane, m, n>>
    BY <1>6 DEF Source, Along, Down
  <2> HIDE DEF m, n, o
  <2>3. /\ BlockIndex(o, k, a, b, c, d) = Byte(f, a, b, plane, m, n)
        /\ m \in 0 .. a - 1 /\ n \in 0 .. b - 1
        /\ o = IF k < 5 * (c * d) THEN 4 ELSE 5
    <3>1. BlockIndex(o, Byte(f, c, d, plane, i, j), a, b, c, d) = Byte(f, a, b, plane, m, n)
      BY <1>6, <2>1, BlockTaken DEF m, n, o
    <3>2. m \in 0 .. a - 1 /\ n \in 0 .. b - 1
      BY <1>6, <2>1, BlockTaken DEF m, n
    <3>3. o = PartOf(Byte(f, c, d, plane, i, j), c, d)
      BY <1>6, <2>1, BlockTaken DEF o
    <3> QED BY <3>1, <3>2, <3>3 DEF k, PartOf
  <2>4. src[Byte(f, a, b, plane, m, n)] = <<plane, m, n>>
    <3>1. m \in Columns(plane, a) /\ n \in Columns(plane, b)
      BY <1>6, <2>3 DEF Columns
    <3> QED BY <1>3, <3>1
  <2>5. crop[k] = src[BlockIndex(o, k, a, b, c, d)]
    BY <1>2, <1>6, <2>3
  <2> QED BY <2>2, <2>3, <2>4, <2>5 DEF k
<1> QED BY <1>4, <1>5, <1>6

(***************************************************************************)
(* The conversions keep every byte of luma and move the colour of each      *)
(* block from where one format has it to where I420 has it.                 *)
(***************************************************************************)
LEMMA ConvertsNV21 ==
    ASSUME NEW a \in Nat \ {0}, NEW b \in Nat \ {0}, NEW src, NEW k \in FrameBytes(a, b)
    PROVE  NV21toI420(src, 2 * a, 2 * b)[k] =
              IF k < 4 * (a * b) THEN src[k]
              ELSE IF k < 5 * (a * b) THEN src[4 * (a * b) + 2 * (k - 4 * (a * b)) + 1]
              ELSE src[4 * (a * b) + 2 * (k - 5 * (a * b))]
<1> DEFINE y == (2 * a) * (2 * b)
           q == y \div 4
           n == FrameSize(2 * a, 2 * b)
<1>1. k \in 0 .. n - 1
  BY SizesOf DEF FrameBytes
<1>2. NV21toI420(src, 2 * a, 2 * b) =
         [x \in 0 .. n - 1 |-> IF x < y THEN src[x]
                               ELSE IF x < y + q THEN src[y + 2 * (x - y) + 1]
                               ELSE src[y + 2 * (x - y - q)]]
  BY DEF NV21toI420
<1> HIDE DEF n, y, q
<1>3. NV21toI420(src, 2 * a, 2 * b)[k] =
         IF k < y THEN src[k] ELSE IF k < y + q THEN src[y + 2 * (k - y) + 1] ELSE src[y + 2 * (k - y - q)]
  BY <1>1, <1>2
<1>4. y = 4 * (a * b) /\ q = a * b /\ a * b \in Nat
  BY SizesOf DEF y, q
<1>5. k \in Int
  BY DEF FrameBytes
<1>6. y + q = 5 * (a * b) /\ k - y - q = k - 5 * (a * b)
  BY <1>4, <1>5
<1> QED BY <1>3, <1>4, <1>6

LEMMA ConvertsYV12 ==
    ASSUME NEW a \in Nat \ {0}, NEW b \in Nat \ {0}, NEW src, NEW k \in FrameBytes(a, b)
    PROVE  YV12toI420(src, 2 * a, 2 * b)[k] =
              IF k < 4 * (a * b) THEN src[k]
              ELSE IF k < 5 * (a * b) THEN src[k + a * b]
              ELSE src[k - a * b]
<1> DEFINE y == (2 * a) * (2 * b)
           q == y \div 4
           n == FrameSize(2 * a, 2 * b)
<1>1. k \in 0 .. n - 1
  BY SizesOf DEF FrameBytes
<1>2. YV12toI420(src, 2 * a, 2 * b) =
         [x \in 0 .. n - 1 |-> IF x < y THEN src[x] ELSE IF x < y + q THEN src[x + q] ELSE src[x - q]]
  BY DEF YV12toI420
<1> HIDE DEF n, y, q
<1>3. YV12toI420(src, 2 * a, 2 * b)[k] =
         IF k < y THEN src[k] ELSE IF k < y + q THEN src[k + q] ELSE src[k - q]
  BY <1>1, <1>2
<1>4. y = 4 * (a * b) /\ q = a * b /\ a * b \in Nat
  BY SizesOf DEF y, q
<1>5. y + q = 5 * (a * b)
  BY <1>4
<1> QED BY <1>3, <1>4, <1>5

Converted(f, src, a, b) == IF f = "NV21" THEN NV21toI420(src, 2 * a, 2 * b) ELSE YV12toI420(src, 2 * a, 2 * b)

LEMMA ConvertedByte ==
    ASSUME NEW a \in Nat \ {0}, NEW b \in Nat \ {0}, NEW f \in {"NV21", "YV12"}, NEW src, NEW plane \in Planes,
           NEW i \in Columns(plane, a), NEW j \in Columns(plane, b)
    PROVE  Converted(f, src, a, b)[Byte("I420", a, b, plane, i, j)] = src[Byte(f, a, b, plane, i, j)]
<1> DEFINE k == Byte("I420", a, b, plane, i, j)
           z == a * b
           p == j * a + i
<1>1. i \in Nat /\ j \in Nat
  BY DEF Columns
<1>2. k \in FrameBytes(a, b) /\ (plane = "Y" <=> k < 4 * z)
  BY ByteInFrame DEF FrameBytes, Formats
<1>3. CASE plane = "Y"
  <2>1. k = RowAt(a, j, i) /\ Byte(f, a, b, "Y", i, j) = RowAt(a, j, i)
    BY <1>1, <1>3, RowByte DEF Formats
  <2>2. Converted(f, src, a, b)[k] = src[k]
    <3> HIDE DEF k
    <3>1. NV21toI420(src, 2 * a, 2 * b)[k] = src[k]
      BY <1>2, <1>3, ConvertsNV21
    <3>2. YV12toI420(src, 2 * a, 2 * b)[k] = src[k]
      BY <1>2, <1>3, ConvertsYV12
    <3> QED BY <3>1, <3>2 DEF Converted
  <2> QED BY <1>3, <2>1, <2>2
<1>4. CASE plane # "Y"
  <2>1. i \in 0 .. a - 1 /\ j \in 0 .. b - 1 /\ plane \in {"U", "V"}
    BY <1>4 DEF Columns, Planes
  <2>2. z \in Nat \ {0}
    BY SizesOf
  <2>3. p \in 0 .. z - 1
    BY <2>1, InPlane
  <2>4. k = IF plane = "U" THEN 4 * z + p ELSE 5 * z + p
    <3>1. /\ Byte("I420", a, b, FirstPlane("I420"), i, j) = 4 * z + p
          /\ Byte("I420", a, b, SecondPlane("I420"), i, j) = 5 * z + p
      BY <1>1, ByteIs DEF Formats
    <3>2. FirstPlane("I420") = "U" /\ SecondPlane("I420") = "V"
      BY DEF FirstPlane, SecondPlane
    <3> QED BY <2>1, <3>1, <3>2
  <2>5. CASE f = "NV21"
    <3>1. Byte(f, a, b, plane, i, j) = IF plane = "V" THEN 4 * z + 2 * p ELSE 4 * z + 2 * p + 1
      <4>1. /\ Byte("NV21", a, b, "V", i, j) = 4 * z + (j * (2 * a) + 2 * i)
            /\ Byte("NV21", a, b, "U", i, j) = 4 * z + (j * (2 * a) + 2 * i + 1)
        BY <1>1, ByteIs DEF Formats
      <4>2. j * (2 * a) + 2 * i = 2 * p
        BY <1>1
      <4>3. j * (2 * a) \in Nat
        BY <1>1, Product
      <4> HIDE DEF z, p, k
      <4> QED BY <1>1, <2>1, <2>2, <2>3, <2>5, <4>1, <4>2, <4>3
    <3>2. NV21toI420(src, 2 * a, 2 * b)[k] =
             IF k < 4 * z THEN src[k]
             ELSE IF k < 5 * z THEN src[4 * z + 2 * (k - 4 * z) + 1]
             ELSE src[4 * z + 2 * (k - 5 * z)]
      <4> HIDE DEF k
      <4> QED BY <1>2, ConvertsNV21
    <3> HIDE DEF z, p, k
    <3>3. CASE plane = "U"
      <4>1. ~(k < 4 * z) /\ k < 5 * z /\ k - 4 * z = p
        BY <2>2, <2>3, <2>4, <3>3
      <4> QED BY <2>5, <3>1, <3>2, <3>3, <4>1 DEF Converted, k
    <3>4. CASE plane = "V"
      <4>1. ~(k < 4 * z) /\ ~(k < 5 * z) /\ k - 5 * z = p
        BY <2>2, <2>3, <2>4, <3>4
      <4> QED BY <2>5, <3>1, <3>2, <3>4, <4>1 DEF Converted, k
    <3> QED BY <2>1, <3>3, <3>4 DEF k
  <2>6. CASE f = "YV12"
    <3>1. Byte(f, a, b, plane, i, j) = IF plane = "V" THEN 4 * z + p ELSE 5 * z + p
      <4>1. /\ Byte("YV12", a, b, FirstPlane("YV12"), i, j) = 4 * z + p
            /\ Byte("YV12", a, b, SecondPlane("YV12"), i, j) = 5 * z + p
        BY <1>1, ByteIs DEF Formats
      <4>2. FirstPlane("YV12") = "V" /\ SecondPlane("YV12") = "U"
        BY DEF FirstPlane, SecondPlane
      <4> QED BY <2>1, <2>6, <4>1, <4>2
    <3>2. YV12toI420(src, 2 * a, 2 * b)[k] =
             IF k < 4 * z THEN src[k] ELSE IF k < 5 * z THEN src[k + z] ELSE src[k - z]
      <4> HIDE DEF k
      <4> QED BY <1>2, ConvertsYV12
    <3>3. Converted(f, src, a, b)[k] = YV12toI420(src, 2 * a, 2 * b)[k]
      BY <2>6 DEF Converted
    <3> HIDE DEF z, p, k
    <3>4. CASE plane = "U"
      <4>1. ~(k < 4 * z) /\ k < 5 * z /\ k + z = 5 * z + p
        BY <2>2, <2>3, <2>4, <3>4
      <4> QED BY <3>1, <3>2, <3>3, <3>4, <4>1 DEF k
    <3>5. CASE plane = "V"
      <4>1. ~(k < 4 * z) /\ ~(k < 5 * z) /\ k - z = 4 * z + p
        BY <2>2, <2>3, <2>4, <3>5
      <4> QED BY <3>1, <3>2, <3>3, <3>5, <4>1 DEF k
    <3> QED BY <2>1, <3>4, <3>5 DEF k
  <2> QED BY <2>5, <2>6
<1> QED BY <1>3, <1>4

LEMMA ConvertedShows ==
    ASSUME NEW a \in Nat \ {0}, NEW b \in Nat \ {0}, NEW f \in {"NV21", "YV12"}, NEW x, NEW y, NEW src
    PROVE  /\ Shows(src, f, a, b, f, x, y) => Shows(Converted(f, src, a, b), "I420", a, b, f, x, y)
           /\ (\A k \in FrameBytes(a, b) : src[k] = Unset) =>
                 \A k \in FrameBytes(a, b) : Converted(f, src, a, b)[k] = Unset
           /\ DOMAIN Converted(f, src, a, b) = FrameBytes(a, b)
<1>1. Shows(src, f, a, b, f, x, y) => Shows(Converted(f, src, a, b), "I420", a, b, f, x, y)
  BY ConvertedByte DEF Shows
<1>2. ASSUME \A k \in FrameBytes(a, b) : src[k] = Unset, NEW k \in FrameBytes(a, b)
      PROVE  Converted(f, src, a, b)[k] = Unset
  <2> DEFINE z == a * b
  <2>1. z \in Nat \ {0} /\ k \in 0 .. 6 * z - 1
    BY SizesOf DEF FrameBytes
  <2>2. \A m : m \in 0 .. 6 * z - 1 => src[m] = Unset
    BY <1>2 DEF FrameBytes
  <2>3. NV21toI420(src, 2 * a, 2 * b)[k] =
           IF k < 4 * z THEN src[k]
           ELSE IF k < 5 * z THEN src[4 * z + 2 * (k - 4 * z) + 1]
           ELSE src[4 * z + 2 * (k - 5 * z)]
    BY ConvertsNV21
  <2>4. YV12toI420(src, 2 * a, 2 * b)[k] =
           IF k < 4 * z THEN src[k] ELSE IF k < 5 * z THEN src[k + z] ELSE src[k - z]
    BY ConvertsYV12
  <2> HIDE DEF z
  <2>5. /\ k < 5 * z /\ ~(k < 4 * z) =>
              4 * z + 2 * (k - 4 * z) + 1 \in 0 .. 6 * z - 1 /\ k + z \in 0 .. 6 * z - 1
        /\ ~(k < 5 * z) => 4 * z + 2 * (k - 5 * z) \in 0 .. 6 * z - 1 /\ k - z \in 0 .. 6 * z - 1
    BY <2>1
  <2>6. k < 4 * z => ~(~(k < 5 * z))
    BY <2>1
  <2>7. NV21toI420(src, 2 * a, 2 * b)[k] = Unset
    BY <2>1, <2>2, <2>3, <2>5
  <2>8. YV12toI420(src, 2 * a, 2 * b)[k] = Unset
    BY <2>1, <2>2, <2>4, <2>5
  <2> QED BY <2>7, <2>8 DEF Converted
<1>3. DOMAIN Converted(f, src, a, b) = FrameBytes(a, b)
  <2>1. FrameBytes(a, b) = 0 .. FrameSize(2 * a, 2 * b) - 1
    BY SizesOf DEF FrameBytes
  <2> QED BY <2>1 DEF Converted, NV21toI420, YV12toI420
<1> QED BY <1>1, <1>2, <1>3

-----------------------------------------------------------------------------
(***************************************************************************)
(* A frame has even sizes, no larger than those of the camera, and shows    *)
(* what the crop took of the scene, in the format of the camera or in I420; *)
(* or it is the buffer of a crop to the size of the camera.  The colour     *)
(* depends on the format in which the frame was cropped, which is that of   *)
(* the camera, since a frame is not cropped again after a conversion.       *)
(***************************************************************************)
Picture(a, b, c, d, f) ==
    /\ camera = [fmt |-> f, w |-> 2 * a, h |-> 2 * b]
    /\ target = [w |-> 2 * c, h |-> 2 * d]
    /\ c <= a /\ d <= b
    /\ fmt \in {f, "I420"}
    /\ DOMAIN bytes = FrameBytes(c, d)
    /\ \/ c = a /\ d = b /\ \A k \in FrameBytes(c, d) : bytes[k] = Unset
       \/ Shows(bytes, fmt, c, d, f, a - c, b - d)

FrameInv ==
    \E a \in Nat \ {0}, b \in Nat \ {0}, c \in Nat \ {0}, d \in Nat \ {0}, f \in Formats :
        Picture(a, b, c, d, f)

LEMMA EvenSize ==
    ASSUME NEW n \in Widths \cup Heights
    PROVE  \E a \in Nat \ {0} : n = 2 * a
<1>1. n \in Nat \ {0} /\ n % 2 = 0
  BY SizeAssumption
<1>2. n \div 2 \in Nat \ {0} /\ n = 2 * (n \div 2)
  BY <1>1, EvenIs
<1> QED BY <1>2

LEMMA FrameInitInv == FrameInit => FrameInv
<1> SUFFICES ASSUME FrameInit PROVE FrameInv
  OBVIOUS
<1>1. PICK f \in Formats, w \in Widths, h \in Heights :
         camera = [fmt |-> f, w |-> w, h |-> h] /\ bytes = Scene(f, w, h)
  BY DEF FrameInit
<1>2. PICK a \in Nat \ {0} : w = 2 * a
  BY EvenSize
<1>3. PICK b \in Nat \ {0} : h = 2 * b
  BY EvenSize
<1>4. DOMAIN bytes = FrameBytes(a, b)
  <2>1. FrameBytes(a, b) = 0 .. FrameSize(2 * a, 2 * b) - 1
    BY SizesOf DEF FrameBytes
  <2>2. bytes = Scene(f, 2 * a, 2 * b)
    BY <1>1, <1>2, <1>3
  <2> QED BY <2>1, <2>2 DEF Scene
<1>5. Shows(bytes, f, a, b, f, a - a, b - b)
  <2> SUFFICES ASSUME NEW plane \in Planes, NEW i \in Columns(plane, a), NEW j \in Columns(plane, b)
               PROVE  bytes[Byte(f, a, b, plane, i, j)] = Source(f, plane, i, j, 0, 0)
    <3>1. a - a = 0 /\ b - b = 0
      OBVIOUS
    <3> QED BY <3>1 DEF Shows
  <2>1. bytes = Scene(f, 2 * a, 2 * b)
    BY <1>1, <1>2, <1>3
  <2>2. Scene(f, 2 * a, 2 * b)[Byte(f, a, b, plane, i, j)] = <<plane, i, j>>
    BY SceneShows
  <2>3. i \in Nat /\ j \in Nat
    BY DEF Columns
  <2> QED BY <2>1, <2>2, <2>3, WholeScene
<1>6. camera = [fmt |-> f, w |-> 2 * a, h |-> 2 * b]
  BY <1>1, <1>2, <1>3
<1>7. target = [w |-> 2 * a, h |-> 2 * b] /\ fmt = f
  BY <1>6 DEF FrameInit
<1>8. Picture(a, b, a, b, f)
  BY <1>4, <1>5, <1>6, <1>7 DEF Picture
<1> QED BY <1>8, Zenon DEF FrameInv

LEMMA CropInv ==
    ASSUME FrameInv, \E w \in Widths, h \in Heights : Crop(w, h)
    PROVE  FrameInv'
<1> PICK w \in Widths, h \in Heights : Crop(w, h)
  OBVIOUS
<1>0. PICK a \in Nat \ {0}, b \in Nat \ {0}, c \in Nat \ {0}, d \in Nat \ {0}, f \in Formats : Picture(a, b, c, d, f)
  BY DEF FrameInv
<1>1. PICK m \in Nat \ {0} : w = 2 * m
  BY EvenSize
<1>2. PICK n \in Nat \ {0} : h = 2 * n
  BY EvenSize
<1>3. camera = [fmt |-> f, w |-> 2 * a, h |-> 2 * b] /\ camera.fmt = f /\ camera.w = 2 * a /\ camera.h = 2 * b
  BY <1>0 DEF Picture
<1>4. fmt = f /\ camera' = camera /\ fmt' = fmt
  BY <1>3 DEF Crop
<1>5. m <= a /\ n <= b
  <2>1. 2 * a >= 2 * m /\ 2 * b >= 2 * n
    BY <1>1, <1>2, <1>3 DEF Crop
  <2> QED BY <2>1
<1>6. c = a /\ d = b
  <2>1. target = [w |-> 2 * c, h |-> 2 * d] /\ target = [w |-> 2 * a, h |-> 2 * b]
    BY <1>0, <1>3 DEF Picture, Crop
  <2>2. target.w = 2 * c /\ target.h = 2 * d
    BY <2>1
  <2>3. target.w = 2 * a /\ target.h = 2 * b
    BY <2>1
  <2>4. 2 * a = 2 * c /\ 2 * b = 2 * d
    BY <2>2, <2>3
  <2> QED BY <2>4
<1>7. Shows(bytes, f, a, b, f, 0, 0)
  <2>1. DOMAIN bytes = FrameBytes(c, d) /\ ~Blank
    BY <1>0 DEF Picture, Crop
  <2>2. ~(\A k \in FrameBytes(c, d) : bytes[k] = Unset)
    BY <2>1 DEF Blank
  <2>3. Shows(bytes, fmt, c, d, f, a - c, b - d)
    BY <1>0, <2>2 DEF Picture
  <2>4. a - c = 0 /\ b - d = 0
    BY <1>6
  <2> QED BY <1>4, <1>6, <2>3, <2>4
<1> DEFINE dst == [k \in FrameBytes(m, n) |-> Unset]
<1>8. DOMAIN dst = FrameBytes(m, n)
  OBVIOUS
<1>9. bytes' = Cropped(bytes, a, b, m, n, f, dst)
  <2>1. FrameBytes(m, n) = 0 .. FrameSize(2 * m, 2 * n) - 1
    BY SizesOf DEF FrameBytes
  <2>2. bytes' = CropYUVFrame(bytes, 2 * a, 2 * b, f, [k \in 0 .. FrameSize(2 * m, 2 * n) - 1 |-> Unset], 2 * m, 2 * n)
    BY <1>1, <1>2, <1>3, <1>4 DEF Crop
  <2>3. [k \in 0 .. FrameSize(2 * m, 2 * n) - 1 |-> Unset] = dst
    BY <2>1
  <2> HIDE DEF dst
  <2> QED BY <2>2, <2>3 DEF Cropped
<1>10. target' = [w |-> 2 * m, h |-> 2 * n]
  BY <1>1, <1>2 DEF Crop
<1>11. \/ m = a /\ n = b /\ bytes' = dst
       \/ Shows(bytes', f, m, n, f, a - m, b - n)
  <2>1. CASE m = a /\ n = b
    <3>1. 2 * a - 2 * m = 0 /\ 2 * b - 2 * n = 0
      BY <2>1
    <3> HIDE DEF dst
    <3>2. Cropped(bytes, a, b, m, n, f, dst) = dst
      BY <3>1 DEF Cropped, CropYUVFrame
    <3> QED BY <1>9, <2>1, <3>2
  <2>2. CASE ~(m = a /\ n = b)
    <3> HIDE DEF dst
    <3> QED BY <1>5, <1>7, <1>8, <1>9, <2>2, CropShows
  <2> QED BY <2>1, <2>2
<1>12. DOMAIN bytes' = FrameBytes(m, n)
  <2>1. DOMAIN Cropped(bytes, a, b, m, n, f, dst) = DOMAIN dst
    <3> HIDE DEF dst
    <3> QED BY DEF Cropped, CropYUVFrame
  <2> QED BY <1>8, <1>9, <2>1
<1>13. m = a /\ n = b /\ bytes' = dst => \A k \in FrameBytes(m, n) : bytes'[k] = Unset
  OBVIOUS
<1>14. Picture(a, b, m, n, f)'
  <2> HIDE DEF dst
  <2> QED BY <1>3, <1>4, <1>5, <1>10, <1>11, <1>12, <1>13 DEF Picture
<1> QED BY <1>14, Zenon DEF FrameInv

LEMMA ConvertInv ==
    ASSUME NEW a \in Nat \ {0}, NEW b \in Nat \ {0}, NEW c \in Nat \ {0}, NEW d \in Nat \ {0},
           NEW f \in Formats, Picture(a, b, c, d, f), ConvertNV21 \/ ConvertYV12
    PROVE  FrameInv'
<1>1. fmt \in {"NV21", "YV12"} /\ fmt = f /\ fmt' = "I420" /\ camera' = camera /\ target' = target
  BY DEF ConvertNV21, ConvertYV12, Picture
<1>2. bytes' = Converted(f, bytes, c, d)
  <2>1. target = [w |-> 2 * c, h |-> 2 * d]
    BY DEF Picture
  <2>2. target.w = 2 * c /\ target.h = 2 * d
    BY <2>1
  <2> QED BY <1>1, <2>2 DEF ConvertNV21, ConvertYV12, Converted
<1>3. DOMAIN bytes' = FrameBytes(c, d)
  BY <1>1, <1>2, ConvertedShows
<1>4. \/ c = a /\ d = b /\ \A k \in FrameBytes(c, d) : bytes'[k] = Unset
      \/ Shows(bytes', "I420", c, d, f, a - c, b - d)
  <2>1. CASE c = a /\ d = b /\ \A k \in FrameBytes(c, d) : bytes[k] = Unset
    BY <1>1, <1>2, <2>1, ConvertedShows
  <2>2. CASE Shows(bytes, f, c, d, f, a - c, b - d)
    BY <1>1, <1>2, <2>2, ConvertedShows
  <2> QED BY <1>1, <2>1, <2>2 DEF Picture
<1>5. Picture(a, b, c, d, f)'
  BY <1>1, <1>3, <1>4 DEF Picture
<1> QED BY <1>5, Zenon DEF FrameInv

(* Every frame that the camera delivers and onRawFrame crops and converts stays such a picture. *)
THEOREM FrameKept == FrameSpec => []FrameInv
<1>1. FrameInit => FrameInv
  BY FrameInitInv
<1>2. FrameInv /\ [FrameNext]_frameVars => FrameInv'
  <2> SUFFICES ASSUME FrameInv, [FrameNext]_frameVars PROVE FrameInv'
    OBVIOUS
  <2>1. PICK a \in Nat \ {0}, b \in Nat \ {0}, c \in Nat \ {0}, d \in Nat \ {0}, f \in Formats : Picture(a, b, c, d, f)
    BY DEF FrameInv
  <2>2. CASE \E w \in Widths, h \in Heights : Crop(w, h)
    BY <2>2, CropInv
  <2>3. CASE ConvertNV21 \/ ConvertYV12
    BY <2>1, <2>3, ConvertInv
  <2>4. CASE UNCHANGED frameVars
    <3>1. camera' = camera /\ target' = target /\ fmt' = fmt /\ bytes' = bytes
      BY <2>4 DEF frameVars
    <3>2. Picture(a, b, c, d, f)'
      BY <2>1, <3>1 DEF Picture
    <3> QED BY <3>2, Zenon DEF FrameInv
  <2> QED BY <2>2, <2>3, <2>4 DEF FrameNext
<1> QED BY <1>1, <1>2, PTL DEF FrameSpec

LEMMA BlankIs ==
    ASSUME NEW a \in Nat \ {0}, NEW b \in Nat \ {0}, NEW c \in Nat \ {0}, NEW d \in Nat \ {0},
           NEW f \in Formats, Picture(a, b, c, d, f)
    PROVE  /\ Blank => c = a /\ d = b
           /\ ~Blank => Shows(bytes, fmt, c, d, f, a - c, b - d)
           /\ fmt \in Formats
<1>1. DOMAIN bytes = FrameBytes(c, d)
  BY DEF Picture
<1>2. fmt \in Formats
  BY DEF Picture, Formats
<1>3. ASSUME Shows(bytes, fmt, c, d, f, a - c, b - d), Blank PROVE FALSE
  <2> DEFINE k == Byte(fmt, c, d, "Y", 0, 0)
  <2>1. "Y" \in Planes /\ 0 \in Columns("Y", c) /\ 0 \in Columns("Y", d)
    BY DEF Planes, Columns
  <2>2. k \in FrameBytes(c, d)
    BY <1>2, <2>1, ByteInFrame DEF FrameBytes
  <2>3. bytes[k] = Source(f, "Y", 0, 0, a - c, b - d)
    BY <1>3, <2>1 DEF Shows
  <2>4. Source(f, "Y", 0, 0, a - c, b - d) = <<"Y", a - c + 0, b - d + 0>>
    BY DEF Source
  <2> HIDE DEF k
  <2>5. bytes[k] = Unset
    BY <1>1, <1>3, <2>2 DEF Blank
  <2>6. <<"Y", a - c + 0, b - d + 0>> # Unset
    BY DEF Unset
  <2> QED BY <2>3, <2>4, <2>5, <2>6
<1>4. (\A k \in FrameBytes(c, d) : bytes[k] = Unset) <=> Blank
  BY <1>1 DEF Blank
<1>5. \/ c = a /\ d = b /\ \A k \in FrameBytes(c, d) : bytes[k] = Unset
      \/ Shows(bytes, fmt, c, d, f, a - c, b - d)
  BY DEF Picture
<1> HIDE DEF Blank
<1> QED BY <1>2, <1>3, <1>4, <1>5

LEMMA SizesShown ==
    ASSUME NEW a \in Nat \ {0}, NEW b \in Nat \ {0}, NEW c \in Nat \ {0}, NEW d \in Nat \ {0},
           NEW f \in Formats, Picture(a, b, c, d, f)
    PROVE  /\ camera.fmt = f /\ target.w = 2 * c /\ target.h = 2 * d
           /\ target.w \div 2 = c /\ target.h \div 2 = d
           /\ Left = a - c /\ Top = b - d /\ Left \in Nat /\ Top \in Nat
           /\ \A plane, i, j : Shown(plane, i, j) = bytes[Byte(fmt, c, d, plane, i, j)]
<1>1. camera = [fmt |-> f, w |-> 2 * a, h |-> 2 * b] /\ target = [w |-> 2 * c, h |-> 2 * d] /\ c <= a /\ d <= b
  BY DEF Picture
<1>2. camera.fmt = f /\ camera.w = 2 * a /\ camera.h = 2 * b /\ target.w = 2 * c /\ target.h = 2 * d
  BY <1>1
<1>3. /\ (2 * c) \div 2 = c /\ (2 * d) \div 2 = d
      /\ (2 * a - 2 * c) \div 2 = a - c /\ (2 * b - 2 * d) \div 2 = b - d /\ a - c \in Nat /\ b - d \in Nat
  BY <1>1
<1> QED BY <1>2, <1>3 DEF Left, Top, Shown, Byte

(***************************************************************************)
(* At every size a frame shows the middle of the scene, after a crop, a     *)
(* conversion or both, and only a crop to the size of the camera leaves a   *)
(* sample without a picture (CropYUVFrame, NV21toI420, YV12toI420).         *)
(***************************************************************************)
THEOREM LumaShown == FrameSpec => []LumaIsWindow
<1>1. FrameInv => LumaIsWindow
  <2> SUFFICES ASSUME FrameInv PROVE LumaIsWindow
    OBVIOUS
  <2>1. PICK a \in Nat \ {0}, b \in Nat \ {0}, c \in Nat \ {0}, d \in Nat \ {0}, f \in Formats : Picture(a, b, c, d, f)
    BY DEF FrameInv
  <2>2. /\ target.w = 2 * c /\ target.h = 2 * d /\ Left = a - c /\ Top = b - d
        /\ \A plane, i, j : Shown(plane, i, j) = bytes[Byte(fmt, c, d, plane, i, j)]
    BY <2>1, SizesShown
  <2>3. /\ Blank => c = a /\ d = b
        /\ ~Blank => Shows(bytes, fmt, c, d, f, a - c, b - d)
    BY <2>1, BlankIs
  <2> HIDE DEF Blank
  <2>4. CASE Blank
    BY <2>2, <2>3, <2>4 DEF LumaIsWindow
  <2>5. CASE ~Blank
    <3> SUFFICES ASSUME NEW i \in 0 .. target.w - 1, NEW j \in 0 .. target.h - 1
                 PROVE  Shown("Y", i, j) = <<"Y", Left + i, Top + j>>
      BY <2>5 DEF LumaIsWindow
    <3>1. "Y" \in Planes /\ i \in Columns("Y", c) /\ j \in Columns("Y", d)
      BY <2>2 DEF Planes, Columns
    <3>2. bytes[Byte(fmt, c, d, "Y", i, j)] = Source(f, "Y", i, j, a - c, b - d)
      BY <2>3, <2>5, <3>1 DEF Shows
    <3>3. Source(f, "Y", i, j, a - c, b - d) = <<"Y", a - c + i, b - d + j>>
      BY DEF Source
    <3> QED BY <2>2, <3>2, <3>3
  <2> QED BY <2>4, <2>5
<1> QED BY <1>1, FrameKept, PTL

(* What Source gives for the colour, by the columns cut from the left. *)
ColourRight(shown, f, plane, i, j, x, y) ==
    IF x = 0 \/ (f = "NV21" /\ x % 2 = 0)
    THEN shown = <<plane, (x + 2 * i) \div 2, (y + 2 * j) \div 2>>
    ELSE shown[1] # "Y" /\ shown[3] = (y + 2 * j) \div 2

LEMMA ColourOfSource ==
    ASSUME NEW f \in Formats, NEW plane \in {"U", "V"}, NEW i \in Nat, NEW j \in Nat, NEW x \in Nat, NEW y \in Nat
    PROVE  ColourRight(Source(f, plane, i, j, x, y), f, plane, i, j, x, y)
<1> DEFINE g == x + (IF plane = "V" THEN 2 * i ELSE 2 * i + 1)
           row == (y + 2 * j) \div 2
<1>1. y \div 2 + j = row
  OBVIOUS
<1>2. Source(f, plane, i, j, x, y) =
         IF f = "NV21" THEN <<IF g % 2 = 0 THEN "V" ELSE "U", g \div 2, row>> ELSE <<plane, x + i, row>>
  BY <1>1 DEF Source
<1>3. x % 2 = 0 => (g % 2 = 0 <=> plane = "V") /\ g \div 2 = (x + 2 * i) \div 2
  <2>1. CASE plane = "V"
    <3>1. g = x + 2 * i
      BY <2>1
    <3> HIDE DEF g
    <3>2. x % 2 = 0 => g % 2 = 0
      BY <3>1
    <3> QED BY <2>1, <3>1, <3>2
  <2>2. CASE plane = "U"
    <3>1. g = x + 2 * i + 1
      BY <2>2
    <3> HIDE DEF g
    <3>2. x % 2 = 0 => g % 2 # 0 /\ g \div 2 = (x + 2 * i) \div 2
      BY <3>1
    <3> QED BY <2>2, <3>2
  <2> QED BY <2>1, <2>2
<1>4. x = 0 => x % 2 = 0 /\ (x + 2 * i) \div 2 = x + i
  OBVIOUS
<1> HIDE DEF g, row
<1>5. CASE f = "NV21"
  <2> DEFINE pl == IF g % 2 = 0 THEN "V" ELSE "U"
             m == g \div 2
  <2>1. Source(f, plane, i, j, x, y) = <<pl, m, row>>
    BY <1>2, <1>5
  <2>2. pl # "Y"
    OBVIOUS
  <2>3. x % 2 = 0 => pl = plane /\ m = (x + 2 * i) \div 2
    BY <1>3
  <2> HIDE DEF pl, m
  <2>4. <<pl, m, row>>[1] = pl /\ <<pl, m, row>>[3] = row
    OBVIOUS
  <2> QED BY <1>4, <1>5, <2>1, <2>2, <2>3, <2>4 DEF row, ColourRight
<1>6. CASE f # "NV21"
  <2> DEFINE m == x + i
  <2>1. Source(f, plane, i, j, x, y) = <<plane, m, row>>
    BY <1>2, <1>6
  <2>2. x = 0 => m = (x + 2 * i) \div 2
    BY <1>4
  <2> HIDE DEF m
  <2>3. <<plane, m, row>>[1] = plane /\ <<plane, m, row>>[3] = row
    OBVIOUS
  <2>4. plane # "Y"
    OBVIOUS
  <2> QED BY <1>6, <2>1, <2>2, <2>3, <2>4 DEF row, ColourRight
<1> QED BY <1>5, <1>6

(***************************************************************************)
(* The colour of a block is that of its pixels at the widths where the crop *)
(* counts blocks right, and at every width a colour of its own line of      *)
(* blocks (CropYUVFrame, NV21toI420, YV12toI420).                           *)
(***************************************************************************)
THEOREM ColourShown == FrameSpec => []ColourFollowsPixels
<1>1. FrameInv => ColourFollowsPixels
  <2> SUFFICES ASSUME FrameInv, ~Blank PROVE ColourFollowsPixels
    BY DEF ColourFollowsPixels
  <2>1. PICK a \in Nat \ {0}, b \in Nat \ {0}, c \in Nat \ {0}, d \in Nat \ {0}, f \in Formats : Picture(a, b, c, d, f)
    BY DEF FrameInv
  <2>2. /\ camera.fmt = f /\ target.w \div 2 = c /\ target.h \div 2 = d
        /\ Left = a - c /\ Top = b - d /\ Left \in Nat /\ Top \in Nat
        /\ \A plane, i, j : Shown(plane, i, j) = bytes[Byte(fmt, c, d, plane, i, j)]
    BY <2>1, SizesShown
  <2>3. Shows(bytes, fmt, c, d, f, a - c, b - d)
    BY <2>1, BlankIs
  <2> HIDE DEF Blank
  <2> SUFFICES ASSUME NEW plane \in {"U", "V"}, NEW i \in 0 .. c - 1, NEW j \in 0 .. d - 1
               PROVE  ColourRight(Shown(plane, i, j), f, plane, i, j, Left, Top)
    BY <2>2 DEF ColourFollowsPixels, ColourRight
  <2>4. plane \in Planes /\ i \in Columns(plane, c) /\ j \in Columns(plane, d)
    BY DEF Planes, Columns
  <2>5. Shown(plane, i, j) = Source(f, plane, i, j, Left, Top)
    BY <2>2, <2>3, <2>4 DEF Shows
  <2>6. i \in Nat /\ j \in Nat
    OBVIOUS
  <2> QED BY <2>2, <2>5, <2>6, ColourOfSource
<1> QED BY <1>1, FrameKept, PTL

=============================================================================
