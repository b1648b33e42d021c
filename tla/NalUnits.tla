------------------------------- MODULE NalUnits -------------------------------
(***************************************************************************)
(* Cutting an H.264 byte stream into NAL units: H264Info.cpp.  A reader     *)
(* appends what arrives and calls findNALU on what it has, and drops the    *)
(* unit that was found.  A byte is 0, 1 or another.                         *)
(***************************************************************************)
EXTENDS Integers, Sequences

CONSTANTS
    MaxLength,  \* bound on the bytes in hand
    Other       \* other values of a byte

ASSUME StreamAssumption == MaxLength \in Nat /\ Other \subseteq Nat /\ Other \cap {0, 1} = {}

VARIABLES
    data,    \* the bytes in hand
    found    \* what findNALU last answered: its result and nalSize

streamVars == <<data, found>>

(* Indices are those of the code, from 0. *)
At(s, k) == s[k + 1]

StartCodeAt(s, k) == k + 2 < Len(s) /\ SubSeq(s, k + 1, k + 3) = <<0, 0, 1>>

StartCodes(s) == {k \in 0 .. Len(s) - 3 : StartCodeAt(s, k)}

(* The number of bytes to the end of the first start code, -1 without one. *)
findNALUStartCodeSize(s) ==
    IF StartCodes(s) = {} THEN -1
    ELSE (CHOOSE k \in StartCodes(s) : \A l \in StartCodes(s) : k <= l) + 3

(* The last k, from this one down, with no zero before it. *)
BeforeZeros(s, k) ==
    CHOOSE n \in 1 .. k : /\ At(s, n - 1) # 0
                          /\ \A l \in n .. k - 1 : At(s, l) = 0

\* Slip of findNALU: one byte in four is looked at.
StepsOfFour(s) ==
    LET size == findNALUStartCodeSize(s)
        zeros == {k \in size .. Len(s) - 3 : (k - size) % 4 = 0 /\ At(s, k) = 0}
        k == CHOOSE z \in zeros : \A l \in zeros : z <= l
    IN IF zeros = {}
       THEN [ret |-> IF Len(s) > size THEN 1 ELSE -1, nalSize |-> 0]
       ELSE [ret |-> 0, nalSize |-> IF StartCodeAt(s, k) \/ StartCodeAt(s, k - 1)
                                    THEN BeforeZeros(s, k) ELSE 0]

(***************************************************************************)
(* Every second byte behind the first start code is looked at, and the      *)
(* first zero there decides: it is one of the two of a start code, or the   *)
(* answer is 0 with no size.  Without a zero the rest is the last unit.     *)
(***************************************************************************)
findNALU(s) ==
    LET size == findNALUStartCodeSize(s)
        zeros == {k \in size .. Len(s) - 3 : (k - size) % 2 = 0 /\ At(s, k) = 0}
        k == CHOOSE z \in zeros : \A l \in zeros : z <= l
    IN IF zeros = {}
       THEN [ret |-> IF Len(s) > size THEN 1 ELSE -1, nalSize |-> 0]
       ELSE [ret |-> 0, nalSize |-> IF StartCodeAt(s, k) \/ StartCodeAt(s, k - 1)
                                    THEN BeforeZeros(s, k) ELSE 0]

-----------------------------------------------------------------------------
NotAsked == [ret |-> -1, nalSize |-> 0]

StreamInit == data = <<>> /\ found = NotAsked

Arrive(b) ==
    /\ Len(data) < MaxLength
    /\ data' = Append(data, b)
    /\ found' = NotAsked

(* With no start code the code reads the byte before the buffer: a reader asks with one. *)
Find ==
    /\ StartCodes(data) # {}
    /\ found' = findNALU(data)
    /\ UNCHANGED data

Drop ==
    /\ found.nalSize > 0
    /\ data' = SubSeq(data, found.nalSize + 1, Len(data))
    /\ found' = NotAsked

StreamNext == (\E b \in {0, 1} \cup Other : Arrive(b)) \/ Find \/ Drop

StreamSpec == StreamInit /\ [][StreamNext]_streamVars

-----------------------------------------------------------------------------
(* A unit: its start code and the bytes behind it. *)
Unit == SubSeq(data, 1, found.nalSize)

(***************************************************************************)
(* No unit is cut short and none swallows the next.  A unit that findNALU   *)
(* cuts off has one start code, does not end in a zero that belongs to the  *)
(* next, and is followed by the zeros and the one of the next start code    *)
(* and by nothing else.  What it calls the last unit is all that is left:   *)
(* looking at every second byte skips no start code, except one that the    *)
(* data ends with.                                                          *)
(***************************************************************************)
UnitsAreWhole ==
    /\ found.nalSize > 0 =>
          /\ \E k \in StartCodes(Unit) : StartCodes(Unit) = {k}
          /\ At(data, found.nalSize - 1) # 0
          /\ \E k \in StartCodes(data) :
                k >= found.nalSize /\ \A l \in found.nalSize .. k : At(data, l) = 0
    /\ found.ret = 1 =>
          \A k \in StartCodes(data) : k + 3 = findNALUStartCodeSize(data) \/ k + 3 = Len(data)

=============================================================================
