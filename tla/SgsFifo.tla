------------------------------- MODULE SgsFifo -------------------------------
(***************************************************************************)
(* What sgs_buffer promises its users (buffer.h, io_utils.h): a bounded     *)
(* first-in first-out queue of bytes.  A write or read of a block succeeds  *)
(* as a whole or leaves the queue alone; data moves between the queue and a *)
(* socket in chunks, and the call reports how many bytes it moved, or -1.   *)
(***************************************************************************)
EXTENDS Integers, Sequences

CONSTANTS Byte, Capacity

VARIABLES
    queue,  \* the bytes stored
    out,    \* the bytes last handed to a reader or to the socket
    moved,  \* bytes moved so far by the socket call in progress
    ret     \* what the last call returned

vars == <<queue, out, moved, ret>>

Init == queue = <<>> /\ out = <<>> /\ moved = 0 /\ ret = 0

Put == \E n \in 0 .. Capacity - Len(queue) : \E data \in [1 .. n -> Byte] :
          /\ queue' = queue \o data
          /\ ret' = 0
          /\ UNCHANGED <<out, moved>>

Front(n) == SubSeq(queue, 1, n)
Rest(n) == SubSeq(queue, n + 1, Len(queue))

Peek == \E n \in 0 .. Len(queue) :
           out' = Front(n) /\ ret' = 0 /\ UNCHANGED <<queue, moved>>

Get == \E n \in 0 .. Len(queue) :
          out' = Front(n) /\ queue' = Rest(n) /\ ret' = 0 /\ UNCHANGED moved

(* A block that does not fit, or is not there, changes nothing. *)
Refuse == ret' = -1 /\ UNCHANGED <<queue, out, moved>>

Clear == queue' = <<>> /\ UNCHANGED <<out, moved, ret>>

FromSocket == \E n \in 1 .. Capacity - Len(queue) : \E data \in [1 .. n -> Byte] :
                 /\ queue' = queue \o data
                 /\ \/ moved' = moved + n /\ UNCHANGED ret
                    \/ moved' = 0 /\ ret' = moved + n
                 /\ UNCHANGED out

ToSocket == \E n \in 0 .. Len(queue) :
               /\ out' = Front(n)
               /\ queue' = Rest(n)
               /\ \/ moved' = moved + n /\ UNCHANGED ret
                  \/ moved' = 0 /\ ret' = moved + n

(* End of file, an error, or nothing to do. *)
SocketReturns == moved' = 0 /\ ret' \in {moved, -1} /\ UNCHANGED <<queue, out>>

Next == Put \/ Peek \/ Get \/ Refuse \/ Clear \/ FromSocket \/ ToSocket \/ SocketReturns

Spec == Init /\ [][Next]_vars
=============================================================================
