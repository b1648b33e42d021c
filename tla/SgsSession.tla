------------------------------ MODULE SgsSession ------------------------------
(***************************************************************************)
(* What the library promises the application of a session: while the        *)
(* connection is open, what the server says is heard once, whole and in     *)
(* order, the channels are those that the messages heard make them, and     *)
(* there is a session from the login's success on.  The end of the          *)
(* connection, whoever brings it about, is the end of all of it: nothing    *)
(* of it is heard after the next login.                                     *)
(***************************************************************************)
EXTENDS Sequences

CONSTANTS
    Ops,       \* what messages say
    Channels,  \* channel ids
    None       \* not a channel

VARIABLES
    open,      \* whether a connection exists or is being made
    unread,    \* what the server said and the client did not hear yet
    channels,  \* the channels the client is in
    session    \* whether the application holds a session

vars == <<open, unread, channels, session>>

Messages == [op : Ops, channel : Channels \cup {None}]

Init ==
    /\ open = FALSE
    /\ unread = <<>>
    /\ channels = {}
    /\ session = FALSE

Login ==
    /\ ~open /\ ~session
    /\ open' = TRUE
    /\ UNCHANGED <<unread, channels, session>>

Say(m) ==
    /\ open
    /\ unread' = Append(unread, m)
    /\ UNCHANGED <<open, channels, session>>

(* The messages that end a connection are not heard, but its end. *)
Ending == {"LOGIN_FAILURE", "LOGIN_REDIRECT", "LOGOUT_SUCCESS", "RECONNECT_FAILURE"}

Hear ==
    /\ unread # <<>>
    /\ unread' = Tail(unread)
    /\ LET m == Head(unread) IN
       /\ m.op \notin Ending
       /\ session' = (session \/ m.op = "LOGIN_SUCCESS")
       /\ channels' = IF m.op = "CHANNEL_JOIN" THEN channels \cup {m.channel}
                      ELSE IF m.op = "CHANNEL_LEAVE" THEN channels \ {m.channel}
                      ELSE channels
    /\ UNCHANGED open

(* The user logs out; the server may go on talking until it has answered. *)
Logout ==
    /\ session
    /\ session' = FALSE
    /\ UNCHANGED <<open, unread, channels>>

End ==
    /\ open
    /\ open' = FALSE
    /\ unread' = <<>>
    /\ channels' = {}
    /\ session' = FALSE

Next == Login \/ Logout \/ End \/ Hear \/ \E m \in Messages : Say(m)

Spec == Init /\ [][Next]_vars

=============================================================================
