------------------------------ MODULE SgsBuffer ------------------------------
(***************************************************************************)
(* sgsclient/sgs/buffer.c and io_utils.c: the circular byte buffer behind   *)
(* a connection's inbuf and outbuf, and the two loops that move its bytes   *)
(* to and from a non-blocking socket.  A socket call of a loop is a step of *)
(* its own, since the peer acts between two of them.  The socket returns    *)
(* any number of bytes up to the number asked for, end of file, or -1       *)
(* (which a non-blocking socket also does when it has nothing).             *)
(***************************************************************************)
EXTENDS Integers, Sequences

CONSTANTS
    Byte,
    Capacity,  \* SGS_MSG_MAX_LENGTH in a connection
    MaxBlock   \* bound on the blocks callers write, read and peek

ASSUME BufferAssumption ==
    /\ Capacity \in Nat \ {0}
    /\ MaxBlock \in Nat

VARIABLES
    buf,       \* the memory block, indexed from 0
    position,  \* where the next read begins
    size,      \* bytes stored
    call,      \* "idle", or the socket loop in progress: "read_fd", "write_fd"
    total,     \* that loop's total
    ret,       \* what the last call returned
    out,       \* bytes last copied out
    eof        \* whether the last sgs_impl_read_from_fd met end of file

block == <<buf, position, size>>
vars == <<buf, position, size, call, total, ret, out, eof>>

Index == 0 .. Capacity - 1
Blocks == UNION {[1 .. n -> Byte] : n \in 0 .. MaxBlock}

Init ==
    /\ buf \in [Index -> Byte]
    /\ position = 0
    /\ size = 0
    /\ call = "idle"
    /\ total = 0
    /\ ret = 0
    /\ out = <<>>
    /\ eof = FALSE

-----------------------------------------------------------------------------
tailpos(p, s) == (p + s) % Capacity

\* Slip of remaining: what is stored is not subtracted.
WholeCapacity == Capacity

remaining == Capacity - size

(* Contiguous bytes stored from p on. *)
readable_len(p, s) ==
    IF s = 0 THEN 0 ELSE IF tailpos(p, s) > p THEN s ELSE Capacity - p

(* Contiguous free bytes from the tail on. *)
writable_len(p, s) ==
    IF s = Capacity THEN 0
    ELSE IF tailpos(p, s) >= p THEN Capacity - tailpos(p, s) ELSE p - tailpos(p, s)

(* memcpy of data into the block at offset at, and of n bytes out of it. *)
CopyIn(b, at, data) ==
    [i \in Index |-> IF at <= i /\ i < at + Len(data) THEN data[i - at + 1] ELSE b[i]]

CopyOut(at, n) == [i \in 1 .. n |-> buf[at + i - 1]]

\* Slip of Stored: the copy starts at the block's first byte.
FromBlockStart(n) == CopyOut(0, n)

(* What peek copies: one piece, or two when the data wraps. *)
Stored(n) ==
    LET r == readable_len(position, size) IN
    IF r >= n THEN CopyOut(position, n) ELSE CopyOut(position, r) \o CopyOut(0, n - r)

-----------------------------------------------------------------------------
Returns(v) == ret' = v /\ UNCHANGED <<call, total, eof>>

sgs_buffer_clear ==
    /\ call = "idle"
    /\ position' = 0
    /\ size' = 0
    /\ UNCHANGED <<buf, call, total, ret, out, eof>>

sgs_buffer_peek(n) ==
    /\ call = "idle"
    /\ IF n > size THEN Returns(-1) /\ UNCHANGED out
                   ELSE Returns(0) /\ out' = Stored(n)
    /\ UNCHANGED block

sgs_buffer_read(n) ==
    /\ call = "idle"
    /\ IF n > size
       THEN Returns(-1) /\ UNCHANGED <<position, size, out>>
       ELSE /\ Returns(0)
            /\ out' = Stored(n)
            /\ position' = (position + n) % Capacity
            /\ size' = size - n
    /\ UNCHANGED buf

sgs_buffer_write(data) ==
    /\ call = "idle"
    /\ LET w == writable_len(position, size)
           t == tailpos(position, size) IN
       IF Len(data) > remaining
       THEN Returns(-1) /\ UNCHANGED <<buf, size>>
       ELSE /\ buf' = IF w >= Len(data)
                      THEN CopyIn(buf, t, data)
                      ELSE CopyIn(CopyIn(buf, t, SubSeq(data, 1, w)),
                                  0, SubSeq(data, w + 1, Len(data)))
            /\ size' = size + Len(data)
            /\ Returns(0)
    /\ UNCHANGED <<position, out>>

-----------------------------------------------------------------------------
(***************************************************************************)
(* sgs_impl_read_from_fd: as long as there is contiguous room, ask for all  *)
(* of it; a shorter read ends the call.                                     *)
(***************************************************************************)
\* Slip of LoopsOn: the loop ends after one call of the socket.
OneRound(n, asked, left) == FALSE

(* The socket took or gave all that was asked for, and there is another piece. *)
LoopsOn(n, asked, left) == n = asked /\ left > 0

CallReturns(v) == call' = "idle" /\ total' = 0 /\ ret' = v

sgs_impl_read_from_fd ==
    /\ call = "idle"
    /\ eof' = FALSE
    /\ IF writable_len(position, size) > 0 THEN call' = "read_fd" /\ UNCHANGED <<total, ret>>
                                           ELSE CallReturns(0)
    /\ UNCHANGED <<block, out>>

SocketRead(n) ==
    /\ call = "read_fd"
    /\ n \in 1 .. writable_len(position, size)
    /\ \E data \in [1 .. n -> Byte] :
          buf' = CopyIn(buf, tailpos(position, size), data)
    /\ size' = size + n
    /\ IF LoopsOn(n, writable_len(position, size), writable_len(position, size + n))
       THEN total' = total + n /\ UNCHANGED <<call, ret>>
       ELSE CallReturns(total + n)
    /\ UNCHANGED <<position, out, eof>>

SocketReadEof ==
    /\ call = "read_fd"
    /\ eof' = TRUE
    /\ CallReturns(total)
    /\ UNCHANGED <<block, out>>

(* sgs_impl_write_to_fd: the same with the stored bytes. *)
sgs_impl_write_to_fd ==
    /\ call = "idle"
    /\ IF readable_len(position, size) > 0 THEN call' = "write_fd" /\ UNCHANGED <<total, ret>>
                                           ELSE CallReturns(0)
    /\ UNCHANGED <<block, out, eof>>

SocketWrite(n) ==
    /\ call = "write_fd"
    /\ n \in 0 .. readable_len(position, size)
    /\ out' = CopyOut(position, n)
    /\ position' = (position + n) % Capacity
    /\ size' = size - n
    /\ IF LoopsOn(n, readable_len(position, size),
                  readable_len((position + n) % Capacity, size - n))
       THEN total' = total + n /\ UNCHANGED <<call, ret>>
       ELSE CallReturns(total + n)
    /\ UNCHANGED <<buf, eof>>

(* -1 from the socket is returned at once, whatever the loop moved before. *)
SocketFails ==
    /\ call # "idle"
    /\ CallReturns(-1)
    /\ UNCHANGED <<block, out, eof>>

-----------------------------------------------------------------------------
Next ==
    \/ sgs_buffer_clear
    \/ \E n \in 0 .. MaxBlock : sgs_buffer_peek(n) \/ sgs_buffer_read(n)
    \/ \E data \in Blocks : sgs_buffer_write(data)
    \/ sgs_impl_read_from_fd \/ sgs_impl_write_to_fd
    \/ \E n \in 0 .. Capacity : SocketRead(n) \/ SocketWrite(n)
    \/ SocketReadEof \/ SocketFails

Spec == Init /\ [][Next]_vars

-----------------------------------------------------------------------------
TypeOK ==
    /\ buf \in [Index -> Byte]
    /\ position \in Index
    /\ size \in 0 .. Capacity
    /\ call \in {"idle", "read_fd", "write_fd"}
    /\ total \in 0 .. Capacity
    /\ ret \in -1 .. Capacity
    /\ out \in Seq(Byte)
    /\ eof \in BOOLEAN

(***************************************************************************)
(* The circular block is a FIFO queue: whatever the position at which data  *)
(* wraps, bytes come out in the order they went in, none is overwritten     *)
(* before it was read, and the socket loops account for every byte.         *)
(***************************************************************************)
Queue == [i \in 1 .. size |-> buf[(position + i - 1) % Capacity]]

Fifo == INSTANCE SgsFifo WITH queue <- Queue, moved <- total

ImplementsFifo == Fifo!Spec

(***************************************************************************)
(* What the callers take the results of the socket loops for is true.       *)
(* connection.c:118-121 takes 0 with room left in the buffer for the        *)
(* server's closing the socket: a read loop that met no end of file returns *)
(* 0 only when the buffer is full.  And POLLOUT is asked for again because  *)
(* the socket took less than it was offered: a write loop that was never    *)
(* cut short leaves nothing behind, also when the data wraps.               *)
(***************************************************************************)
ResultsMeanWhy ==
    [][/\ sgs_impl_read_from_fd \/ (call = "read_fd" /\ call' = "idle") =>
             (call' = "idle" /\ ret' = 0 /\ size' < Capacity => eof')
       /\ call = "write_fd" /\ call' = "idle" /\ ret' # -1 /\ size' > 0 =>
             Len(out') < readable_len(position, size)]_vars

=============================================================================
