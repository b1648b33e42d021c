------------------------------ MODULE SgsMessage ------------------------------
(***************************************************************************)
(* The messages of the SGS client: sgs/message.c and id_impl.c, used by the *)
(* calls of session.c and channel.c that send and by the one that receives. *)
(* A session has one buffer, msg_buf, for all of them: what is handed to a  *)
(* callback is a pointer into it, and a callback that sends overwrites it.  *)
(*                                                                         *)
(* Lengths are two digits to the base of Byte (256 in the code), as wide as *)
(* the uint16_t of the code; other contents are opaque numbers, one for     *)
(* each place in each field.  The last two cells of msg_buf here are not    *)
(* its own: they are what follows it in memory.                             *)
(***************************************************************************)
EXTENDS Integers, Sequences

CONSTANTS
    Byte,         \* values of a byte
    DataSizes,    \* sizes of the payloads the application sends
    IdSizes,      \* sizes of ids
    StringSizes,  \* lengths of logins and passwords
    ServerSizes,  \* sizes of names and payloads that the server sends
    MaxMessages   \* bound on the messages built and received

ASSUME MessageAssumption ==
    /\ Byte \in Nat /\ Byte >= 4
    /\ DataSizes \cup IdSizes \cup StringSizes \cup ServerSizes \subseteq Nat
    /\ MaxMessages \in Nat

VARIABLES
    msg_buf,   \* the session's buffer
    pc,        \* "app", "callback" (just called), "read" (still in it, has its copy)
    incoming,  \* what the server put into the message being handled
    handed,    \* what the callback is handed
    seen,      \* what it read there
    sent,      \* the last message: what was asked for, what came of it
    messages   \* messages built and received so far

vars == <<msg_buf, pc, incoming, handed, seen, sent, messages>>

Word == Byte * Byte
SGS_MSG_MAX_LENGTH == Word - 1
SGS_MAX_PAYLOAD_LENGTH == Word - 3
SGS_MSG_INIT_LEN == SGS_MSG_MAX_LENGTH - SGS_MAX_PAYLOAD_LENGTH
SGS_OPCODE_OFFSET == 2
SGS_MSG_LENGTH_OFFSET == 2

Cells == 0 .. SGS_MSG_MAX_LENGTH + 1

(* htons and ntohs of a uint16_t, and the conversion of a size_t to an int16_t. *)
Digits(n) == <<(n % Word) \div Byte, n % Byte>>
Number(s) == s[1] * Byte + s[2]
Int16(n) == IF n % Word >= Word \div 2 THEN (n % Word) - Word ELSE n % Word

(* memcpy into and out of a buffer. *)
Overlay(buf, at, s) == [i \in Cells |-> IF i - at + 1 \in DOMAIN s THEN s[i - at + 1] ELSE buf[i]]
Copy(buf, at, n) == [i \in 1 .. n |-> buf[at + i - 1]]

-----------------------------------------------------------------------------
(***************************************************************************)
(* Building.  A message is its buffer, its length, which counts the opcode  *)
(* but not the two bytes of the length field, and the error of the first    *)
(* call that failed: the code returns then, what is written stays.          *)
(***************************************************************************)
update_msg_len(m) == [m EXCEPT !.buf = Overlay(@, 0, Digits(m.len))]

sgs_msg_init(buf, opcode) ==
    update_msg_len([buf |-> Overlay(buf, SGS_OPCODE_OFFSET, <<opcode>>), len |-> 1, err |-> "none"])

(* One memcpy behind what is there, which the length then includes. *)
Extend(m, s) ==
    [buf |-> Overlay(m.buf, m.len + SGS_MSG_LENGTH_OFFSET, s), len |-> m.len + Len(s), err |-> m.err]

TooLong(m, new_size) ==
    IF m.err # "none" THEN m.err
    ELSE IF new_size > SGS_MSG_MAX_LENGTH THEN "EMSGSIZE"
    ELSE "none"

sgs_msg_add_arb_content(m, content) ==
    LET err == TooLong(m, m.len + Len(content)) IN
    IF err # "none" THEN [m EXCEPT !.err = err] ELSE update_msg_len(Extend(m, content))

\* Slip of sgs_msg_add_fixed_content: the two bytes of the length are counted twice.
LengthCountedTwice(m, content) ==
    LET err == TooLong(m, m.len + Len(content) + 2)
        length == Extend(m, Digits(Len(content))) IN
    IF err # "none" THEN [m EXCEPT !.err = err]
    ELSE update_msg_len(Extend([length EXCEPT !.len = @ + 2], content))

\* Slip of sgs_msg_add_fixed_content: the two bytes of the length are not counted.
LengthOverwritten(m, content) ==
    LET err == TooLong(m, m.len + Len(content) + 2)
        length == Extend(m, Digits(Len(content))) IN
    IF err # "none" THEN [m EXCEPT !.err = err]
    ELSE update_msg_len(Extend([length EXCEPT !.len = m.len], content))

sgs_msg_add_fixed_content(m, content) ==
    LET err == IF m.err = "none" /\ Len(content) > SGS_MSG_MAX_LENGTH
               THEN "SGS_ERR_SIZE_ARG_TOO_LARGE"
               ELSE TooLong(m, m.len + Len(content) + 2) IN
    IF err # "none" THEN [m EXCEPT !.err = err]
    ELSE update_msg_len(Extend(Extend(m, Digits(Len(content))), content))

(* The length is an int16_t: a negative one is too large as a size_t. *)
sgs_msg_add_string(m, s) ==
    IF m.err = "none" /\ Int16(Len(s)) < 0
    THEN [m EXCEPT !.err = "SGS_ERR_SIZE_ARG_TOO_LARGE"]
    ELSE sgs_msg_add_fixed_content(m, SubSeq(s, 1, Int16(Len(s))))

sgs_msg_get_size(len) == (len + SGS_MSG_INIT_LEN) % Word

-----------------------------------------------------------------------------
(***************************************************************************)
(* Reading, from the length that sgs_msg_deserialize finds in the buffer.   *)
(* A read yields <<>> when it fails.                                        *)
(***************************************************************************)
sgs_msg_deserialize(buf) == Number(Copy(buf, 0, 2))

sgs_msg_read_uint16(buf, start) ==
    IF start > sgs_msg_deserialize(buf) THEN <<>> ELSE <<Number(Copy(buf, start, 2))>>

sgs_msg_read_uint32(buf, start) ==
    IF start + 2 > sgs_msg_deserialize(buf) THEN <<>> ELSE Copy(buf, start, 4)

sgs_msg_read_string(buf, start) ==
    LET strsize == sgs_msg_read_uint16(buf, start) IN
    IF strsize = <<>> THEN <<>> ELSE Copy(buf, start + 2, strsize[1])

(* What there is from start on, at most count. *)
sgs_msg_read_bytes(buf, start, count) ==
    LET left == sgs_msg_deserialize(buf) + SGS_MSG_INIT_LEN - start
    IN Copy(buf, start, IF left < count THEN left ELSE count)

\* Slip of sgs_msg_read_id: the rest of the message is taken to end with the payload length.
RestOfPayload(buf, start, read_length) ==
    IF read_length
    THEN sgs_msg_read_string(buf, start)
    ELSE sgs_msg_read_bytes(buf, start, sgs_msg_deserialize(buf) - start)

(* With a length before it, or all the rest; a short read fails. *)
sgs_msg_read_id(buf, start, read_length) ==
    LET length == IF read_length THEN sgs_msg_read_uint16(buf, start)
                  ELSE <<sgs_msg_deserialize(buf) + SGS_MSG_INIT_LEN - start>>
        at == IF read_length THEN start + 2 ELSE start
        bytes == sgs_msg_read_bytes(buf, at, length[1])
    IN IF length = <<>> \/ Len(bytes) # length[1] THEN <<>> ELSE bytes

-----------------------------------------------------------------------------
(***************************************************************************)
(* The wire: what protocol.h says a message with these fields looks like.   *)
(***************************************************************************)
Field(f, n) == [i \in 1 .. n |-> 100 * f + i]

String(s) == Digits(Len(s)) \o s

Wire(opcode, body) == Digits(1 + Len(body)) \o <<opcode>> \o body

LOGIN_REQUEST == 16
LOGIN_SUCCESS == 17
LOGIN_FAILURE == 18
LOGIN_REDIRECT == 19
SESSION_MESSAGE == 48
LOGOUT_REQUEST == 64
CHANNEL_JOIN == 80
CHANNEL_LEAVE == 81
CHANNEL_MESSAGE == 82

-----------------------------------------------------------------------------
Nothing == [name |-> <<>>, id |-> <<>>, port |-> <<>>, start |-> 0, count |-> 0]

NoMessage == [op |-> 0, name |-> <<>>, id |-> <<>>, port |-> <<>>, data |-> <<>>]
NotSent == [total |-> 0, err |-> "none", bytes |-> <<>>, wire |-> <<>>, strings |-> {}]

Init ==
    /\ msg_buf = [i \in Cells |-> 0]
    /\ pc = "app"
    /\ incoming = NoMessage
    /\ handed = Nothing
    /\ seen = <<>>
    /\ sent = NotSent
    /\ messages = 0

UsesBuffer ==
    /\ messages < MaxMessages
    /\ messages' = messages + 1

(* The message built is given to sgs_connection_impl_io_write, unless a call failed. *)
Sends(m, size, wire, strings) ==
    /\ UsesBuffer
    /\ msg_buf' = m.buf
    /\ sent' = [total |-> Len(wire) - 2, err |-> m.err, wire |-> wire, strings |-> strings,
                bytes |-> IF m.err = "none" THEN Copy(m.buf, 0, size) ELSE <<>>]

MaySend == pc \in {"app", "read"} /\ UNCHANGED <<pc, incoming, handed, seen>>

DirectMessage(data) == sgs_msg_add_arb_content(sgs_msg_init(msg_buf, SESSION_MESSAGE), data)

ChannelMessage(id, data) ==
    sgs_msg_add_arb_content(
        sgs_msg_add_fixed_content(sgs_msg_init(msg_buf, CHANNEL_MESSAGE), id), data)

sgs_session_direct_send(data) ==
    LET m == DirectMessage(data)
    IN Sends(m, sgs_msg_get_size(m.len), Wire(SESSION_MESSAGE, data), {})

(* sgs_session_impl_send_msg reads the length back from the buffer. *)
sgs_channel_send(id, data) ==
    LET m == ChannelMessage(id, data)
    IN Sends(m, sgs_msg_get_size(sgs_msg_deserialize(m.buf)),
             Wire(CHANNEL_MESSAGE, String(id) \o data), {})

DirectSend(n) == MaySend /\ sgs_session_direct_send(Field(1, n))
ChannelSend(i, n) == MaySend /\ sgs_channel_send(Field(2, i), Field(1, n))

Login(l, p) ==
    /\ MaySend
    /\ LET version == sgs_msg_add_arb_content(sgs_msg_init(msg_buf, LOGIN_REQUEST), <<5>>)
           m == sgs_msg_add_string(sgs_msg_add_string(version, Field(3, l)), Field(4, p))
       IN Sends(m, sgs_msg_get_size(m.len),
                Wire(LOGIN_REQUEST, <<5>> \o String(Field(3, l)) \o String(Field(4, p))), {l, p})

Logout ==
    /\ MaySend
    /\ LET m == sgs_msg_init(msg_buf, LOGOUT_REQUEST)
       IN Sends(m, sgs_msg_get_size(m.len), Wire(LOGOUT_REQUEST, <<>>), {})

(***************************************************************************)
(* An application that sends back, the way it came, the payload its         *)
(* callback is handed: the source of the memcpy is msg_buf itself, once the *)
(* fields before it have been written.                                      *)
(***************************************************************************)
Handed(buf) == Copy(buf, handed.start, handed.count)

EchoDirect ==
    /\ pc = "callback" /\ incoming.op = SESSION_MESSAGE
    /\ LET m == sgs_msg_init(msg_buf, SESSION_MESSAGE)
           full == sgs_msg_add_arb_content(m, Handed(m.buf))
       IN Sends(full, sgs_msg_get_size(full.len), Wire(SESSION_MESSAGE, incoming.data), {})
    /\ seen' = Handed(msg_buf)
    /\ pc' = "read"
    /\ UNCHANGED <<incoming, handed>>

EchoChannel ==
    /\ pc = "callback" /\ incoming.op = CHANNEL_MESSAGE
    /\ LET m == sgs_msg_add_fixed_content(sgs_msg_init(msg_buf, CHANNEL_MESSAGE), handed.id)
           full == sgs_msg_add_arb_content(m, Handed(m.buf))
       IN Sends(full, sgs_msg_get_size(sgs_msg_deserialize(full.buf)),
                Wire(CHANNEL_MESSAGE, String(incoming.id) \o incoming.data), {})
    /\ seen' = Handed(msg_buf)
    /\ pc' = "read"
    /\ UNCHANGED <<incoming, handed>>

-----------------------------------------------------------------------------
(***************************************************************************)
(* consume_data reads a whole message into msg_buf and calls                *)
(* sgs_session_impl_recv_msg.  inbuf has room for SGS_MSG_MAX_LENGTH bytes: *)
(* a longer message would never be there whole.  Ids and names are copied;  *)
(* a payload is a pointer to the byte after the fields and what is left of  *)
(* the length: msg_data skips the length field, offset counts the opcode.   *)
(***************************************************************************)
Receive(opcode, fields, body) ==
    /\ pc = "app"
    /\ UsesBuffer
    /\ Len(Wire(opcode, body)) <= SGS_MSG_MAX_LENGTH
    /\ msg_buf' = Overlay(msg_buf, 0, Wire(opcode, body))
    /\ incoming' = [fields EXCEPT !.op = opcode]
    /\ pc' = "callback"
    /\ seen' = <<>>
    /\ sent' = NotSent

PayloadFrom(offset) ==
    [Nothing EXCEPT !.start = SGS_MSG_INIT_LEN + offset,
                    !.count = sgs_msg_deserialize(msg_buf') - offset]

RecvLoginSuccess(i) ==
    /\ Receive(LOGIN_SUCCESS, [NoMessage EXCEPT !.id = Field(6, i)], Field(6, i))
    /\ handed' = [Nothing EXCEPT !.id = sgs_msg_read_id(msg_buf', 3, FALSE)]

(* The reason is handed up with its length before it. *)
RecvLoginFailure(n) ==
    /\ Receive(LOGIN_FAILURE, [NoMessage EXCEPT !.data = String(Field(7, n))], String(Field(7, n)))
    /\ handed' = PayloadFrom(1)

RecvLoginRedirect(n) ==
    /\ Receive(LOGIN_REDIRECT, [NoMessage EXCEPT !.name = Field(8, n), !.port = Field(9, 4)],
               String(Field(8, n)) \o Field(9, 4))
    /\ LET host == sgs_msg_read_string(msg_buf', 3)
       IN handed' = [Nothing EXCEPT !.name = host,
                                !.port = sgs_msg_read_uint32(msg_buf', 5 + Len(host))]

RecvSessionMessage(n) ==
    /\ Receive(SESSION_MESSAGE, [NoMessage EXCEPT !.data = Field(7, n)], Field(7, n))
    /\ handed' = PayloadFrom(1)

RecvChannelJoin(n, i) ==
    /\ Receive(CHANNEL_JOIN, [NoMessage EXCEPT !.name = Field(8, n), !.id = Field(6, i)],
               String(Field(8, n)) \o Field(6, i))
    /\ LET name == sgs_msg_read_string(msg_buf', 3)
       IN handed' = [Nothing EXCEPT !.name = name,
                                !.id = sgs_msg_read_id(msg_buf', 5 + Len(name), FALSE)]

RecvChannelLeave(i) ==
    /\ Receive(CHANNEL_LEAVE, [NoMessage EXCEPT !.id = Field(6, i)], Field(6, i))
    /\ handed' = [Nothing EXCEPT !.id = sgs_msg_read_id(msg_buf', 3, FALSE)]

RecvChannelMessage(i, n) ==
    /\ Receive(CHANNEL_MESSAGE, [NoMessage EXCEPT !.id = Field(6, i), !.data = Field(7, n)],
               String(Field(6, i)) \o Field(7, n))
    /\ LET id == sgs_msg_read_id(msg_buf', 3, TRUE)
       IN handed' = [PayloadFrom(1 + 2 + Len(id)) EXCEPT !.id = id]

(* The callback copies what it is handed, as the callbacks of the repository do. *)
CallbackReads ==
    /\ pc = "callback"
    /\ seen' = Handed(msg_buf)
    /\ pc' = "read"
    /\ UNCHANGED <<msg_buf, incoming, handed, sent, messages>>

CallbackReturns ==
    /\ pc = "read"
    /\ pc' = "app"
    /\ incoming' = NoMessage /\ handed' = Nothing /\ seen' = <<>>
    /\ UNCHANGED <<msg_buf, sent, messages>>

-----------------------------------------------------------------------------
Next ==
    \/ \E n \in DataSizes : DirectSend(n) \/ \E i \in IdSizes : ChannelSend(i, n)
    \/ \E l, p \in StringSizes : Login(l, p)
    \/ Logout \/ EchoDirect \/ EchoChannel
    \/ \E i \in IdSizes : RecvLoginSuccess(i) \/ RecvChannelLeave(i)
    \/ \E n \in ServerSizes :
          \/ RecvLoginFailure(n) \/ RecvLoginRedirect(n) \/ RecvSessionMessage(n)
          \/ \E i \in IdSizes : RecvChannelJoin(n, i) \/ RecvChannelMessage(i, n)
    \/ CallbackReads \/ CallbackReturns

Spec == Init /\ [][Next]_vars

-----------------------------------------------------------------------------
(***************************************************************************)
(* A callback is handed what the server sent: the name, the id, the port,   *)
(* and, in the buffer at that moment, the whole payload and nothing of an   *)
(* earlier, longer message; what it read stays what the server sent         *)
(* whatever it sends itself before it returns.                              *)
(***************************************************************************)
HandedAsSent ==
    /\ pc # "app" => /\ handed.name = incoming.name
                     /\ handed.id = incoming.id
                     /\ handed.port = incoming.port
    /\ pc = "callback" => Handed(msg_buf) = incoming.data
    /\ pc = "read" => seen = incoming.data

(***************************************************************************)
(* A message within the payload that protocol.h allows goes out exactly as  *)
(* protocol.h says, whatever the buffer held before, also when its payload  *)
(* is the one just received; it is only refused for a string too long for   *)
(* the int16_t that sgs_msg_add_string keeps its length in.                 *)
(***************************************************************************)
SentAsProtocolSays ==
    sent.total \in 1 .. SGS_MAX_PAYLOAD_LENGTH =>
        IF sent.err = "none" THEN sent.bytes = sent.wire
        ELSE \E l \in sent.strings : l >= Word \div 2

(***************************************************************************)
(* What follows msg_buf in memory is written only by a message with more    *)
(* payload than protocol.h allows: the capacity is compared with a length   *)
(* that lacks the two bytes of the length field.                            *)
(***************************************************************************)
OnlyOversizeOverruns ==
    [][\A i \in {SGS_MSG_MAX_LENGTH, SGS_MSG_MAX_LENGTH + 1} :
          msg_buf'[i] # msg_buf[i] => sent'.total > SGS_MAX_PAYLOAD_LENGTH]_vars

=============================================================================
