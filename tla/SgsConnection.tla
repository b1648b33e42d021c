---------------------------- MODULE SgsConnection ----------------------------
(***************************************************************************)
(* The SGS client engine: sgsclient/sgs/connection.c and session.c with the *)
(* session's channel map, driven by a single-threaded application like      *)
(* example/chat_client.c, against the kernel's sockets and a server that    *)
(* keeps to protocol.h.  What runs concurrently is the server and the       *)
(* kernel, which may act between any two steps of sgs_connection_do_work,   *)
(* and the application, which calls back into the connection from within    *)
(* the callbacks that do_work makes.                                        *)
(*                                                                         *)
(* Messages travel as two pieces each way, so that a message may be there   *)
(* in part, and the buffers are rings of pieces (SgsBuffer has the bytes).  *)
(* POSIX build: select never reports the exception set, which only carries  *)
(* out-of-band data there, so connection.c:101-109 is not modelled.         *)
(***************************************************************************)
EXTENDS Integers, Sequences

CONSTANTS
    Fds,         \* file descriptors the kernel has for the process
    Channels,    \* channel ids
    MaxLogins,   \* bound on the calls of sgs_connection_login
    MaxSends,    \* bound on the messages the application sends
    MaxServer,   \* bound on the messages a server sends on one connection
    InCapacity,  \* capacity of inbuf in pieces
    OutCapacity, \* capacity of outbuf in pieces
    Patient,     \* whether the user only logs in on a disconnected connection
    Stray,       \* messages the server sends unasked in a session, beside the usual ones
    NULL

ASSUME ConnectionAssumption ==
    /\ Fds \subseteq Nat
    /\ NULL \notin Fds \cup Channels
    /\ {MaxLogins, MaxSends, MaxServer} \subseteq Nat
    /\ {InCapacity, OutCapacity} \subseteq Nat
    /\ InCapacity >= 2 /\ OutCapacity >= 2
    /\ Patient \in BOOLEAN
    /\ Stray \subseteq {"RECONNECT_SUCCESS", "RECONNECT_FAILURE", "UNKNOWN"}

VARIABLES
    socket_fd,       \* the fields of sgs_connection_impl
    state,
    inbuf,           \* what inbuf holds, and its position in the ring
    inpos,
    outbuf,          \* the same of outbuf
    outpos,
    input_enabled,
    output_enabled,
    channels,        \* ids in the session's channel map
    dangling,        \* the connection was freed while do_work is using it
    registered,      \* <<fd, event>> pairs the application selects on
    g_session,       \* the application: whether it holds a session
    g_channel_map,   \* the application's own map of channels
    pc,              \* where the thread is
    callback,        \* the callback it is in
    sockfd,          \* do_work's local sockfd
    writable,        \* do_work's local writeset has sockfd
    net,             \* what each fd stands for: kernel and server side
    logins,          \* calls of sgs_connection_login so far
    nSends,          \* messages sent so far
    consumed         \* history: number of the last message taken out of inbuf

connVars == <<socket_fd, state, inbuf, inpos, outbuf, outpos, input_enabled, output_enabled,
              channels, dangling>>
appVars == <<g_session, g_channel_map>>
workVars == <<pc, callback, sockfd, writable>>
vars == <<connVars, registered, appVars, workVars, net, logins, nSends, consumed>>

(***************************************************************************)
(* A socket: status, the login call that made it, the pieces on their way   *)
(* to the client, whether the kernel can take no more to send, and the      *)
(* server's view of the session: how far it has got, which channels the     *)
(* client is in, how many messages it has sent.                             *)
(***************************************************************************)
Socket(s, n) ==
    [status |-> s, login |-> n, in |-> <<>>, full |-> FALSE,
     phase |-> "new", joined |-> {}, sent |-> 0]

Closed == Socket("closed", 0)

Init ==
    /\ socket_fd = NULL
    /\ state = "DISCONNECTED"
    /\ inbuf = <<>> /\ inpos = 0
    /\ outbuf = <<>> /\ outpos = 0
    /\ input_enabled = FALSE
    /\ output_enabled = FALSE
    /\ channels = {}
    /\ dangling = FALSE
    /\ registered = {}
    /\ g_session = FALSE
    /\ g_channel_map = {}
    /\ pc = "app"
    /\ callback = NULL
    /\ sockfd = NULL
    /\ writable = FALSE
    /\ net = [fd \in Fds |-> Closed]
    /\ logins = 0
    /\ nSends = 0
    /\ consumed = 0

At(l) == ~dangling /\ pc = l
InCallback(names) == At("callback") /\ callback \in names

(* do_work returns to the main loop; its locals die. *)
Returns == pc' = "app" /\ callback' = NULL /\ sockfd' = NULL /\ writable' = FALSE
Goto(l) == pc' = l /\ UNCHANGED <<callback, sockfd, writable>>
Calls(cb) == pc' = "callback" /\ callback' = cb /\ UNCHANGED <<sockfd, writable>>

-----------------------------------------------------------------------------
(* The channel map of the library and that of the application, as sets of keys. *)
sgs_map_contains(map, key) == key \in map
sgs_map_put(map, key) == map \cup {key}
sgs_map_remove(map, key) == map \ {key}

(* The callbacks that change something in the application. *)
register_fd_cb(set, fd, event) == set \cup {<<fd, event>>}
unregister_fd_cb(set, fd, events) == set \ ({fd} \X events)

logged_in_cb == g_session' = TRUE /\ UNCHANGED g_channel_map
disconnected_cb == g_session' = FALSE

channel_joined_cb(c) == g_channel_map' = sgs_map_put(g_channel_map, c) /\ UNCHANGED g_session
channel_left_cb(c) == g_channel_map' = sgs_map_remove(g_channel_map, c) /\ UNCHANGED g_session

-----------------------------------------------------------------------------
(***************************************************************************)
(* sgs_connection_impl_disconnect, with what it leaves in the buffers and   *)
(* in the channel map; beside them, here and below, what a slip in the code *)
(* would make of them.                                                      *)
(***************************************************************************)
\* Slip of inbuf_cleared: the buffer is not cleared.
InbufKept == inbuf
inbuf_cleared == <<>>

\* Slip of outbuf_cleared: the buffer is not cleared.
OutbufKept == outbuf
outbuf_cleared == <<>>

\* Slip of sgs_session_channel_clear: the channel map is not cleared.
ChannelsKept == channels
sgs_session_channel_clear == {}

sgs_connection_impl_disconnect ==
    /\ registered' = unregister_fd_cb(registered, socket_fd, {"POLLIN", "POLLOUT"})
    /\ input_enabled' = FALSE
    /\ output_enabled' = FALSE
    /\ net' = [net EXCEPT ![socket_fd] = Closed]
    /\ inbuf' = inbuf_cleared /\ inpos' = 0
    /\ outbuf' = outbuf_cleared /\ outpos' = 0
    /\ state' = "DISCONNECTED"
    /\ channels' = sgs_session_channel_clear
    /\ consumed' = 0
    /\ UNCHANGED <<socket_fd, logins, nSends>>

\* Slip of conn_closed: the application is not called back.
ClosedUnreported ==
    /\ sgs_connection_impl_disconnect
    /\ Returns
    /\ UNCHANGED g_session

(* conn_closed: disconnects, then disconnected_cb, which forgets the session. *)
conn_closed ==
    /\ sgs_connection_impl_disconnect
    /\ Calls("disconnected")
    /\ disconnected_cb

(***************************************************************************)
(* The rings: where a position k further on is, and the parts before the    *)
(* end of the block that readable_len and writable_len return.              *)
(***************************************************************************)
\* Slip of Advance: the position does not wrap.
AdvanceBeyond(pos, k, capacity) == pos + k

Advance(pos, k, capacity) == (pos + k) % capacity

Room == InCapacity - Len(inbuf)

writable_len == IF inpos + Len(inbuf) < InCapacity THEN InCapacity - (inpos + Len(inbuf)) ELSE Room

readable_len == IF outpos + Len(outbuf) <= OutCapacity THEN Len(outbuf) ELSE OutCapacity - outpos

Pieces(m) == <<[msg |-> m, part |-> 1], [msg |-> m, part |-> 2]>>

HasRoom == Len(outbuf) + 2 <= OutCapacity

(***************************************************************************)
(* sgs_connection_impl_io_write: interest in POLLOUT is registered here     *)
(* unless the connection is still being made.                               *)
(***************************************************************************)
\* Slip of sgs_connection_impl_io_write: output is not registered.
WriteQuietly(m, fd) ==
    /\ HasRoom
    /\ outbuf' = outbuf \o Pieces(m)
    /\ UNCHANGED <<registered, output_enabled>>

sgs_connection_impl_io_write(m, fd) ==
    /\ HasRoom
    /\ outbuf' = outbuf \o Pieces(m)
    /\ IF state = "CONNECTED" /\ ~output_enabled
       THEN registered' = register_fd_cb(registered, fd, "POLLOUT") /\ output_enabled' = TRUE
       ELSE UNCHANGED <<registered, output_enabled>>

-----------------------------------------------------------------------------
(***************************************************************************)
(* sgs_connection_login, as doLogin calls it: without a session, from the   *)
(* main loop or, after a failure or a disconnect, from the callback.        *)
(* doLogin itself does not wait for the connection to be disconnected.      *)
(***************************************************************************)
LoginCalled ==
    /\ At("app") \/ InCallback({"login_failed", "disconnected"})
    /\ ~g_session
    /\ Patient => state = "DISCONNECTED"
    /\ logins < MaxLogins
    /\ logins' = logins + 1
    /\ UNCHANGED <<inbuf, inpos, outpos, input_enabled, channels, dangling, appVars, workVars,
                   nSends, consumed>>

LowestClosed(fd) ==
    /\ net[fd].status = "closed"
    /\ \A g \in Fds : net[g].status = "closed" => fd <= g

LoginRequest == [op |-> "LOGIN_REQUEST", login |-> logins + 1]

(* The process has no descriptor left. *)
LoginWithoutSocket ==
    /\ LoginCalled
    /\ \A fd \in Fds : net[fd].status # "closed"
    /\ socket_fd' = NULL
    /\ UNCHANGED <<state, outbuf, output_enabled, registered, net>>

(***************************************************************************)
(* The host is unknown or connect fails at once: -1, and the socket stays   *)
(* open.  In the second case the login request stays in outbuf.             *)
(***************************************************************************)
LoginFails(fd) ==
    /\ LoginCalled
    /\ LowestClosed(fd)
    /\ socket_fd' = fd
    /\ net' = [net EXCEPT ![fd] = Socket("open", logins + 1)]
    /\ \/ UNCHANGED <<outbuf, registered, output_enabled>>
       \/ sgs_connection_impl_io_write(LoginRequest, fd)
    /\ UNCHANGED state

Connects(fd, s, how) ==
    /\ LoginCalled
    /\ LowestClosed(fd)
    /\ HasRoom
    /\ outbuf' = outbuf \o Pieces(LoginRequest)
    /\ socket_fd' = fd
    /\ state' = s
    /\ net' = [net EXCEPT ![fd] = Socket(how, logins + 1)]

\* Slip of LoginInProgress: the descriptor is not registered.
InProgressUnregistered(fd) ==
    /\ Connects(fd, "CONNECTING", "connecting")
    /\ output_enabled' = TRUE
    /\ UNCHANGED registered

LoginInProgress(fd) ==
    /\ Connects(fd, "CONNECTING", "connecting")
    /\ output_enabled' = TRUE
    /\ registered' = register_fd_cb(registered, fd, "POLLOUT")

LoginConnects(fd) ==
    /\ Connects(fd, "CONNECTED", "connected")
    /\ output_enabled' = TRUE
    /\ registered' = register_fd_cb(registered, fd, "POLLOUT")

(***************************************************************************)
(* A message to the server (sgs_session_direct_send) or to a channel of the *)
(* application's map (sgs_channel_send).  With outbuf full the call fails   *)
(* and changes nothing.                                                     *)
(***************************************************************************)
MaySend ==
    /\ At("app") \/ InCallback({"logged_in", "recv_message", "channel_joined",
                                "channel_recv_msg", "reconnected"})
    /\ g_session
    /\ nSends < MaxSends

sgs_session_impl_send_msg(m) ==
    /\ sgs_connection_impl_io_write(m, socket_fd)
    /\ nSends' = nSends + 1
    /\ UNCHANGED <<socket_fd, state, inbuf, inpos, outpos, input_enabled, channels, dangling,
                   appVars, workVars, net, logins, consumed>>

DirectSend ==
    /\ MaySend
    /\ sgs_session_impl_send_msg([op |-> "SESSION_MESSAGE", login |-> logins])

ChannelSend(c) ==
    /\ MaySend
    /\ sgs_map_contains(g_channel_map, c)
    /\ sgs_session_impl_send_msg([op |-> "CHANNEL_MESSAGE", login |-> logins, channel |-> c])

(***************************************************************************)
(* sgs_connection_logout(connection, 0) is -1 when disconnected, otherwise  *)
(* 0: what queueing the request returned is not looked at.  doLogout then   *)
(* forgets the session and clears its map, whatever the call returned.      *)
(***************************************************************************)
doLogout ==
    /\ At("app") \/ InCallback({"recv_message"})
    /\ g_session
    /\ g_session' = FALSE
    /\ g_channel_map' = {}
    /\ UNCHANGED <<socket_fd, state, inbuf, inpos, outpos, input_enabled, channels, dangling,
                   workVars, net, logins, nSends, consumed>>

LogoutRequest == [op |-> "LOGOUT_REQUEST", login |-> logins]

Logout ==
    /\ doLogout
    /\ state # "DISCONNECTED"
    /\ \/ sgs_connection_impl_io_write(LogoutRequest, socket_fd)
       \/ /\ ~HasRoom
          /\ UNCHANGED <<outbuf, registered, output_enabled>>

LogoutRefused ==
    /\ doLogout
    /\ state = "DISCONNECTED"
    /\ UNCHANGED <<outbuf, registered, output_enabled>>

(* sgs_connection_logout(connection, 1). *)
LogoutForce ==
    /\ At("app")
    /\ g_session
    /\ conn_closed
    /\ g_channel_map' = {}
    /\ UNCHANGED dangling

-----------------------------------------------------------------------------
(***************************************************************************)
(* sgs_connection_do_work up to the read: select, then                      *)
(* sgs_impl_read_from_fd.  The write set it saw is kept in a local.         *)
(***************************************************************************)
Readable(fd) == net[fd].in # <<>> \/ net[fd].status \in {"eof", "reset", "dead"}
Writable(fd) ==
    net[fd].status \in {"reset", "dead"} \/ (net[fd].status \in {"connected", "eof"} /\ ~net[fd].full)
DoWork == At("app") /\ state # "DISCONNECTED" /\ socket_fd \in Fds

Working ==
    /\ DoWork
    /\ sockfd' = socket_fd
    /\ writable' = Writable(socket_fd)
    /\ UNCHANGED <<socket_fd, state, inpos, outbuf, outpos, input_enabled, output_enabled,
                   channels, dangling, registered, appVars, callback, logins, nSends, consumed>>

MoveIn(k, status) ==
    /\ inbuf' = inbuf \o SubSeq(net[socket_fd].in, 1, k)
    /\ net' = [net EXCEPT ![socket_fd].in = SubSeq(@, k + 1, Len(@)),
                          ![socket_fd].status = status]

(***************************************************************************)
(* Some of what is on its way has arrived and is read, nothing if inbuf is  *)
(* full.  A read that fills the part before the end of the block is         *)
(* followed by one into the rest, which has to meet more, or end of file.   *)
(***************************************************************************)
DoWorkReads ==
    /\ Working
    /\ Readable(socket_fd)
    /\ \E k \in 0 .. Len(net[socket_fd].in) :
          /\ k <= Room
          /\ k = 0 => Room = 0
          /\ k = writable_len /\ k < Room =>
                k = Len(net[socket_fd].in) /\ net[socket_fd].status \in {"eof", "dead"}
          /\ MoveIn(k, net[socket_fd].status)
    /\ pc' = "consume"

(***************************************************************************)
(* What has arrived just fills inbuf up to the end of the block, the second *)
(* read has nothing, or meets the reset, and returns -1: do_work returns it *)
(* too, with what was read stored and not looked at.                        *)
(***************************************************************************)
DoWorkReadStops ==
    /\ DoWork
    /\ LET k == writable_len
           last == k = Len(net[socket_fd].in)
       IN  /\ 0 < k /\ k < Room
           /\ k <= Len(net[socket_fd].in)
           /\ last => net[socket_fd].status \in {"connected", "reset"}
           /\ MoveIn(k, IF last /\ net[socket_fd].status = "reset" THEN "dead"
                        ELSE net[socket_fd].status)
    /\ UNCHANGED <<socket_fd, state, inpos, outbuf, outpos, input_enabled, output_enabled,
                   channels, dangling, registered, appVars, workVars, logins, nSends, consumed>>

(* A refused or reset connection: read fails once, then it meets end of file. *)
DoWorkReadFails ==
    /\ DoWork
    /\ net[socket_fd].in = <<>>
    /\ net[socket_fd].status = "reset"
    /\ Room > 0
    /\ net' = [net EXCEPT ![socket_fd].status = "dead"]
    /\ UNCHANGED <<connVars, registered, appVars, workVars, logins, nSends, consumed>>

DoWorkCloses ==
    /\ DoWork
    /\ net[socket_fd].in = <<>>
    /\ net[socket_fd].status \in {"eof", "dead"}
    /\ Room > 0
    /\ conn_closed
    /\ UNCHANGED <<g_channel_map, dangling>>

DoWorkWrites ==
    /\ Working
    /\ ~Readable(socket_fd)
    /\ Writable(socket_fd)
    /\ pc' = "write"
    /\ UNCHANGED <<inbuf, net>>

-----------------------------------------------------------------------------
(***************************************************************************)
(* consume_data and sgs_session_impl_recv_msg: each message whose two       *)
(* pieces are there is taken out and dispatched on its opcode.              *)
(***************************************************************************)
Whole == Len(inbuf) >= 2
Message == inbuf[1].msg

Consume(ops) ==
    /\ At("consume")
    /\ Whole
    /\ Message.op \in ops

TakeOne ==
    /\ inbuf' = SubSeq(inbuf, 3, Len(inbuf))
    /\ inpos' = Advance(inpos, 2, InCapacity)
    /\ consumed' = Message.no
    /\ UNCHANGED <<socket_fd, state, outbuf, outpos, input_enabled, output_enabled, dangling,
                   registered, net, logins, nSends>>

ConsumeEnds ==
    /\ At("consume")
    /\ ~Whole
    /\ Goto("write")
    /\ UNCHANGED <<connVars, registered, appVars, net, logins, nSends, consumed>>

LoginSuccess ==
    /\ Consume({"LOGIN_SUCCESS"})
    /\ TakeOne
    /\ logged_in_cb
    /\ Calls("logged_in")
    /\ UNCHANGED channels

LoginFailure ==
    /\ Consume({"LOGIN_FAILURE"})
    /\ sgs_connection_impl_disconnect
    /\ Calls("login_failed")
    /\ UNCHANGED <<dangling, appVars>>

(***************************************************************************)
(* The session moves to a new connection object and this one is freed,      *)
(* while do_work, consume_data and the application still hold it: what      *)
(* happens from here on is undefined, the new object's login included.      *)
(***************************************************************************)
LoginRedirect ==
    /\ Consume({"LOGIN_REDIRECT"})
    /\ sgs_connection_impl_disconnect
    /\ dangling' = TRUE
    /\ UNCHANGED <<appVars, workVars>>

SessionMessage ==
    /\ Consume({"SESSION_MESSAGE", "RECONNECT_SUCCESS"})
    /\ TakeOne
    /\ Calls(IF Message.op = "SESSION_MESSAGE" THEN "recv_message" ELSE "reconnected")
    /\ UNCHANGED <<channels, appVars>>

(* LOGOUT_SUCCESS and RECONNECT_FAILURE disconnect and call nobody. *)
SilentDisconnect ==
    /\ Consume({"LOGOUT_SUCCESS", "RECONNECT_FAILURE"})
    /\ sgs_connection_impl_disconnect
    /\ Goto("consume")
    /\ UNCHANGED <<dangling, appVars>>

ChannelJoin ==
    /\ Consume({"CHANNEL_JOIN"})
    /\ ~sgs_map_contains(channels, Message.channel)
    /\ TakeOne
    /\ channels' = sgs_map_put(channels, Message.channel)
    /\ channel_joined_cb(Message.channel)
    /\ Calls("channel_joined")

(* channel_left_cb makes no call of its own; then the channel is removed. *)
ChannelLeave ==
    /\ Consume({"CHANNEL_LEAVE"})
    /\ sgs_map_contains(channels, Message.channel)
    /\ TakeOne
    /\ channels' = sgs_map_remove(channels, Message.channel)
    /\ channel_left_cb(Message.channel)
    /\ Goto("consume")

ChannelMessage ==
    /\ Consume({"CHANNEL_MESSAGE"})
    /\ sgs_map_contains(channels, Message.channel)
    /\ TakeOne
    /\ Calls("channel_recv_msg")
    /\ UNCHANGED <<channels, appVars>>

(***************************************************************************)
(* -1 out of recv_msg ends consume_data and do_work: a join of a channel    *)
(* that is in the map, a leave or message of one that is not, an unknown    *)
(* opcode.                                                                  *)
(***************************************************************************)
ReceiveFails ==
    /\ \/ Consume({"UNKNOWN"})
       \/ Consume({"CHANNEL_JOIN"}) /\ sgs_map_contains(channels, Message.channel)
       \/ /\ Consume({"CHANNEL_LEAVE", "CHANNEL_MESSAGE"})
          /\ ~sgs_map_contains(channels, Message.channel)
    /\ TakeOne
    /\ Returns
    /\ UNCHANGED <<channels, appVars>>

(* disconnected_cb ends do_work or logout; from the others consume_data goes on. *)
CallbackReturns ==
    /\ At("callback")
    /\ IF callback = "disconnected"
       THEN Returns
       ELSE pc' = "consume" /\ callback' = NULL /\ UNCHANGED <<sockfd, writable>>
    /\ UNCHANGED <<connVars, registered, appVars, net, logins, nSends, consumed>>

-----------------------------------------------------------------------------
(***************************************************************************)
(* The write of do_work: a connecting connection is taken for connected     *)
(* because the write set has sockfd.  The server reads what it is sent, a   *)
(* message at its second piece.                                             *)
(***************************************************************************)
Says(ps, op) == \E i \in DOMAIN ps : ps[i].part = 2 /\ ps[i].msg.op = op

ServerReads(phase, ps) ==
    IF phase = "new" /\ Says(ps, "LOGIN_REQUEST") THEN "asked"
    ELSE IF phase = "in" /\ Says(ps, "LOGOUT_REQUEST") THEN "logout"
    ELSE phase

(***************************************************************************)
(* k pieces go out, after which the kernel may be full.  Login requests,    *)
(* the first that a socket is sent, do not fill it: the user's names and    *)
(* passwords are smaller than any kernel's send buffer.                     *)
(***************************************************************************)
OnlyLogins == \A i \in 1 .. Len(outbuf) : outbuf[i].msg.op = "LOGIN_REQUEST"

Sent(k, full) ==
    /\ full => ~OnlyLogins
    /\ outbuf' = SubSeq(outbuf, k + 1, Len(outbuf))
    /\ outpos' = Advance(outpos, k, OutCapacity)
    /\ net' = [net EXCEPT ![sockfd].phase = ServerReads(@, SubSeq(outbuf, 1, k)),
                          ![sockfd].full = full]

write_state == IF writable /\ state = "CONNECTING" THEN "CONNECTED" ELSE state

(***************************************************************************)
(* A write is cut short by a full kernel only, and one that ends at the end *)
(* of the block is followed by another, which must then send something.     *)
(***************************************************************************)
WriteOut ==
    /\ At("write")
    /\ state' = write_state
    /\ IF writable /\ outbuf # <<>>
       THEN /\ net[sockfd].status \in {"connected", "eof"}
            /\ \E k \in 1 .. Len(outbuf), full \in BOOLEAN :
                 /\ k < Len(outbuf) => full /\ k # readable_len
                 /\ Sent(k, full)
       ELSE UNCHANGED <<outbuf, outpos, net>>
    /\ Goto("interest")
    /\ UNCHANGED <<socket_fd, inbuf, inpos, input_enabled, output_enabled, channels, dangling,
                   registered, appVars, logins, nSends, consumed>>

(***************************************************************************)
(* The write returns -1, and do_work too: at once, or, what lay before the  *)
(* end of the block being sent, from the second write to a full kernel.     *)
(***************************************************************************)
WriteFails ==
    /\ At("write")
    /\ writable
    /\ outbuf # <<>>
    /\ state' = write_state
    /\ \/ /\ net[sockfd].status \in {"closed", "open", "connecting", "reset", "dead"}
          /\ UNCHANGED <<outbuf, outpos, net>>
       \/ /\ net[sockfd].status \in {"connected", "eof"}
          /\ readable_len < Len(outbuf)
          /\ Sent(readable_len, TRUE)
    /\ Returns
    /\ UNCHANGED <<socket_fd, inbuf, inpos, input_enabled, output_enabled, channels, dangling,
                   registered, appVars, logins, nSends, consumed>>

(***************************************************************************)
(* The end of do_work: interest in POLLIN while inbuf has room, in POLLOUT  *)
(* while outbuf holds something.  Callbacks are made for what changes.      *)
(***************************************************************************)
SetInterest(R, event, enabled, wanted) ==
    IF enabled = wanted THEN R
    ELSE IF wanted THEN register_fd_cb(R, sockfd, event) ELSE unregister_fd_cb(R, sockfd, {event})

Interest ==
    /\ At("interest")
    /\ IF state = "CONNECTED"
       THEN /\ input_enabled' = (Room > 0)
            /\ output_enabled' = (outbuf # <<>>)
            /\ registered' = SetInterest(SetInterest(registered, "POLLIN", input_enabled, Room > 0),
                                         "POLLOUT", output_enabled, outbuf # <<>>)
       ELSE UNCHANGED <<input_enabled, output_enabled, registered>>
    /\ Returns
    /\ UNCHANGED <<socket_fd, state, inbuf, inpos, outbuf, outpos, channels, dangling, appVars,
                   net, logins, nSends, consumed>>

-----------------------------------------------------------------------------
(***************************************************************************)
(* The kernel and the server.  A connect in progress is accepted or         *)
(* refused; the server receives what fills the kernel, or stops receiving;  *)
(* it answers a login and a logout, sends what it likes in between (joins   *)
(* and leaves that change nothing included), and may close or reset the     *)
(* connection at any time.                                                  *)
(***************************************************************************)
External == UNCHANGED <<connVars, registered, appVars, workVars, logins, nSends, consumed>>

Accept(fd) ==
    /\ net[fd].status = "connecting"
    /\ net' = [net EXCEPT ![fd].status = "connected"]
    /\ External

Reset(fd) ==
    /\ net[fd].status \in {"connecting", "connected", "eof"}
    /\ net' = [net EXCEPT ![fd].status = "reset", ![fd].full = FALSE]
    /\ External

ServerReceives(fd) ==
    /\ net[fd].status \in {"connected", "eof"}
    /\ net[fd].full
    /\ net' = [net EXCEPT ![fd].full = FALSE]
    /\ External

ServerCloses(fd) ==
    /\ net[fd].status = "connected"
    /\ net' = [net EXCEPT ![fd].status = "eof"]
    /\ External

ServerSends(fd, op, channel, phase, joined) ==
    /\ net[fd].status = "connected"
    /\ net[fd].sent < MaxServer
    /\ LET m == [op |-> op, channel |-> channel, no |-> net[fd].sent + 1] IN
       net' = [net EXCEPT ![fd].in = @ \o Pieces(m),
                          ![fd].sent = @ + 1,
                          ![fd].phase = phase,
                          ![fd].joined = joined]
    /\ External

ServerAnswersLogin(fd) ==
    /\ net[fd].phase = "asked"
    /\ \/ ServerSends(fd, "LOGIN_SUCCESS", NULL, "in", {})
       \/ \E op \in {"LOGIN_FAILURE", "LOGIN_REDIRECT"} : ServerSends(fd, op, NULL, "out", {})

ServerAnswersLogout(fd) ==
    /\ net[fd].phase = "logout"
    /\ ServerSends(fd, "LOGOUT_SUCCESS", NULL, "out", net[fd].joined)

ServerTalks(fd) ==
    /\ net[fd].phase = "in"
    /\ \/ \E op \in {"SESSION_MESSAGE"} \cup Stray : ServerSends(fd, op, NULL, "in", net[fd].joined)
       \/ \E c \in Channels :
             \/ ServerSends(fd, "CHANNEL_JOIN", c, "in", net[fd].joined \cup {c})
             \/ ServerSends(fd, "CHANNEL_LEAVE", c, "in", net[fd].joined \ {c})
             \/ ServerSends(fd, "CHANNEL_MESSAGE", c, "in", net[fd].joined)

-----------------------------------------------------------------------------
Application ==
    \/ LoginWithoutSocket
    \/ \E fd \in Fds : LoginFails(fd) \/ LoginInProgress(fd) \/ LoginConnects(fd)
    \/ DirectSend \/ \E c \in Channels : ChannelSend(c)
    \/ Logout \/ LogoutRefused \/ LogoutForce

DoWorkCalled == DoWorkReads \/ DoWorkReadStops \/ DoWorkReadFails \/ DoWorkCloses \/ DoWorkWrites

DoWorkRuns ==
    \/ LoginSuccess \/ LoginFailure \/ LoginRedirect \/ SessionMessage \/ SilentDisconnect
    \/ ChannelJoin \/ ChannelLeave \/ ChannelMessage \/ ReceiveFails
    \/ ConsumeEnds \/ CallbackReturns \/ WriteOut \/ WriteFails \/ Interest

Environment ==
    \E fd \in Fds : \/ Accept(fd) \/ Reset(fd) \/ ServerCloses(fd) \/ ServerReceives(fd)
                    \/ ServerAnswersLogin(fd) \/ ServerAnswersLogout(fd) \/ ServerTalks(fd)

Next == Application \/ DoWorkCalled \/ DoWorkRuns \/ Environment

Spec == Init /\ [][Next]_vars

(***************************************************************************)
(* Fairness.  do_work runs to its end; the main loop calls it whenever      *)
(* select reports a registered event; a connect attempt is accepted or      *)
(* refused in the end, as TCP's timeout sees to.  Neither the application   *)
(* nor the server has to do anything, and a server that stops receiving     *)
(* leaves the kernel full for good.                                         *)
(***************************************************************************)
Woken ==
    \E r \in registered : IF r[2] = "POLLIN" THEN Readable(r[1]) ELSE Writable(r[1])

Fairness ==
    /\ WF_vars(DoWorkRuns)
    /\ WF_vars(Woken /\ DoWorkCalled)
    /\ \A fd \in Fds : WF_vars(Accept(fd) \/ (net[fd].status = "connecting" /\ Reset(fd)))

FairSpec == Spec /\ Fairness

-----------------------------------------------------------------------------
InMessages ==
    [op : {"LOGIN_SUCCESS", "LOGIN_FAILURE", "LOGIN_REDIRECT", "SESSION_MESSAGE",
           "LOGOUT_SUCCESS"} \cup Stray, channel : {NULL}, no : 1 .. MaxServer]
      \cup [op : {"CHANNEL_JOIN", "CHANNEL_LEAVE", "CHANNEL_MESSAGE"},
            channel : Channels, no : 1 .. MaxServer]
InPieces == [msg : InMessages, part : {1, 2}]

OutMessages ==
    [op : {"LOGIN_REQUEST", "LOGOUT_REQUEST", "SESSION_MESSAGE"}, login : 1 .. MaxLogins]
      \cup [op : {"CHANNEL_MESSAGE"}, login : 1 .. MaxLogins, channel : Channels]
OutPieces == [msg : OutMessages, part : {1, 2}]

Sockets ==
    [status : {"closed", "open", "connecting", "connected", "eof", "reset", "dead"},
     login : 0 .. MaxLogins, in : Seq(InPieces), full : BOOLEAN,
     phase : {"new", "asked", "in", "logout", "out"},
     joined : SUBSET Channels, sent : 0 .. MaxServer]

TypeOK ==
    /\ socket_fd \in Fds \cup {NULL}
    /\ state \in {"DISCONNECTED", "CONNECTING", "CONNECTED"}
    /\ inbuf \in Seq(InPieces) /\ Len(inbuf) <= InCapacity
    /\ inpos \in 0 .. InCapacity - 1
    /\ outbuf \in Seq(OutPieces) /\ Len(outbuf) <= OutCapacity
    /\ outpos \in 0 .. OutCapacity - 1
    /\ input_enabled \in BOOLEAN
    /\ output_enabled \in BOOLEAN
    /\ channels \subseteq Channels
    /\ dangling \in BOOLEAN
    /\ registered \subseteq Fds \X {"POLLIN", "POLLOUT"}
    /\ g_session \in BOOLEAN
    /\ g_channel_map \subseteq Channels
    /\ pc \in {"app", "consume", "callback", "write", "interest"}
    /\ callback \in {NULL, "logged_in", "login_failed", "disconnected", "recv_message",
                     "reconnected", "channel_joined", "channel_recv_msg"}
    /\ sockfd \in Fds \cup {NULL}
    /\ writable \in BOOLEAN
    /\ net \in [Fds -> Sockets]
    /\ logins \in 0 .. MaxLogins
    /\ nSends \in 0 .. MaxSends
    /\ consumed \in 0 .. MaxServer

(***************************************************************************)
(* The connection implements SgsSession: through partial and failed reads,  *)
(* errors that leave do_work half way, and logins made inside a callback    *)
(* while consume_data is running, what the server says on a connection is   *)
(* handed up once, whole and in order, and nothing of an earlier one is;    *)
(* inbuf followed by the socket is one queue, and every disconnect empties  *)
(* it with the channel map.                                                 *)
(***************************************************************************)
Pending == inbuf \o net[socket_fd].in

(* The message that two pieces make; other pieces make none. *)
Joined(p, q) ==
    IF p.part = 1 /\ q.part = 2 /\ p.msg = q.msg
    THEN [op |-> p.msg.op, channel |-> p.msg.channel]
    ELSE NULL

Open == state # "DISCONNECTED" /\ ~dangling

Unread ==
    IF Open THEN [i \in 1 .. Len(Pending) \div 2 |-> Joined(Pending[2 * i - 1], Pending[2 * i])]
    ELSE inbuf

Session == INSTANCE SgsSession WITH
    Ops <- {m.op : m \in InMessages}, None <- NULL,
    open <- Open, unread <- Unread, session <- g_session

ImplementsSession == Session!Spec

(***************************************************************************)
(* The channel map and the server agree: once all that is on its way has    *)
(* been applied to the map it is the set of channels the server has the     *)
(* client in, whatever login, failure or disconnect came before; no channel *)
(* of an earlier session is left over to make a join fail.  And in a        *)
(* session the application can send on every channel it is in: its own map, *)
(* where doChannelSend looks, which doLogout clears while joins may still   *)
(* come and a disconnect by the server leaves as it is, has them all.       *)
(***************************************************************************)
Tells(p, op, c) == p.part = 2 /\ p.msg.op = op /\ p.msg.channel = c

(* S once the pieces s are applied: what is in it, or joins, and does not leave after that. *)
Applied(S, s) ==
    {c \in Channels :
        \E i \in 0 .. Len(s) : /\ IF i = 0 THEN c \in S ELSE Tells(s[i], "CHANNEL_JOIN", c)
                               /\ \A j \in i + 1 .. Len(s) : ~Tells(s[j], "CHANNEL_LEAVE", c)}

ChannelsAgree ==
    /\ IF state = "DISCONNECTED" \/ dangling THEN channels = {}
       ELSE Applied(channels, Pending) = net[socket_fd].joined
    /\ g_session /\ ~dangling => channels \subseteq g_channel_map

(***************************************************************************)
(* While the application holds a session the connection is connected and,   *)
(* on the same socket, the server has the client logged in: a disconnect    *)
(* that is not asked for is always noticed.  It takes a server that only    *)
(* sends LOGOUT_SUCCESS when asked and never RECONNECT_FAILURE.             *)
(***************************************************************************)
SessionMeansLoggedIn ==
    g_session /\ ~dangling => /\ state = "CONNECTED"
                              /\ net[socket_fd].status \in {"connected", "eof", "reset", "dead"}
                              /\ net[socket_fd].phase = "in"

(***************************************************************************)
(* No wake-up is lost.  When the main loop goes to its select, what is      *)
(* registered is what the flags say; a connection being made waits for      *)
(* POLLOUT; a connected one waits for something, and for POLLOUT whenever   *)
(* outbuf holds a message, whichever call or callback put it there.         *)
(***************************************************************************)
InterestKept ==
    pc = "app" /\ ~dangling =>
        /\ registered = {r \in {socket_fd} \X {"POLLIN", "POLLOUT"} :
                            IF r[2] = "POLLIN" THEN input_enabled ELSE output_enabled}
        /\ state = "DISCONNECTED" => registered = {}
        /\ state = "CONNECTING" => output_enabled
        /\ state = "CONNECTED" => /\ input_enabled \/ output_enabled
                                  /\ outbuf # <<>> => output_enabled

(***************************************************************************)
(* The server is sent a login request before anything else: whatever waits  *)
(* in outbuf for a server that was sent nothing begins with a whole one,    *)
(* also when the connection before was lost with messages waiting, or in    *)
(* the middle of one.                                                       *)
(***************************************************************************)
LoginFirst ==
    state = "DISCONNECTED" \/ net[socket_fd].phase = "new" =>
        /\ outbuf # <<>> => outbuf[1].msg.op = "LOGIN_REQUEST" /\ outbuf[1].part = 1
        /\ state # "DISCONNECTED" => outbuf # <<>>

(* A connect in progress comes to an end the client notices. *)
ConnectResolves == (state = "CONNECTING") ~> (state # "CONNECTING")

(***************************************************************************)
(* What waits in outbuf of a connected client is sent, or the connection    *)
(* ends, as long as no server stops receiving for good: a wake-up, a write  *)
(* that a full kernel cut short in either part of the ring, a read that     *)
(* ended in -1 or a callback that put something into outbuf loses nothing.  *)
(***************************************************************************)
OutbufDrains ==
    (\A fd \in Fds : []<>(~net[fd].full)) =>
        \A n \in 1 .. MaxLogins :
            (logins = n /\ state = "CONNECTED" /\ outbuf # <<>>)
                ~> (logins # n \/ state = "DISCONNECTED" \/ outbuf = <<>>)

-----------------------------------------------------------------------------
(***************************************************************************)
(* What comments and documentation say, and the code does not do.           *)
(*                                                                         *)
(* connection.c:213-219: the login request is put into outbuf before        *)
(* connect, because nothing is written until the socket has connected.      *)
(* False when login_failed_cb logs in again, which session.c:246-248        *)
(* expects: do_work goes on with the write set of the socket before.        *)
(***************************************************************************)
WritesOnceConnected ==
    At("write") /\ writable /\ outbuf # <<>> => net[sockfd].status # "connecting"

(***************************************************************************)
(* connection.c:404-407: consume_data stops once inbuf holds only part of a *)
(* message.  A message that DoWorkReadStops left whole in inbuf waits there *)
(* for the server to send another.                                          *)
(***************************************************************************)
WaitingMessageHandled ==
    \A n \in 0 .. MaxServer :
        (pc = "app" /\ Whole /\ consumed = n) ~> (consumed # n \/ ~Whole \/ dangling)

=============================================================================
