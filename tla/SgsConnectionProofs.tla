------------------------- MODULE SgsConnectionProofs -------------------------
(***************************************************************************)
(* Proofs about SgsConnection, for every number of descriptors, channels    *)
(* and calls and every capacity of the buffers.  They are about a user who  *)
(* only logs in on a disconnected connection and a server that does not     *)
(* send RECONNECT_FAILURE in a session, as the properties' runs assume.     *)
(*                                                                         *)
(* The inductive invariant ties together, for the one socket in use, how    *)
(* far the server has got, what is on its way from it and to it, what the   *)
(* application believes, and where do_work stands with which descriptor.    *)
(***************************************************************************)
EXTENDS SgsConnection, SequenceTheorems, TLAPS

Usual == Patient /\ "RECONNECT_FAILURE" \notin Stray

Live == state # "DISCONNECTED"

(* Only a live connection has a socket that is more than open. *)
Unused(s) == s.status \in {"closed", "open"} /\ s.in = <<>> /\ s.phase = "new" /\ s.joined = {}

OneSocket ==
    /\ Live => socket_fd \in Fds /\ logins > 0
    /\ \A fd \in Fds : IF Live /\ fd = socket_fd THEN net[fd].status \notin {"closed", "open"}
                       ELSE Unused(net[fd])

NoLogouts == \A i \in 1 .. Len(outbuf) : outbuf[i].msg.op # "LOGOUT_REQUEST"

(* A connection that is no more. *)
GoneInv ==
    /\ dangling => ~Live
    /\ ~Live => inbuf = <<>> /\ channels = {} /\ ~g_session /\ OnlyLogins

(* Messages are whole: both pieces of each are there, one after the other. *)
IsPair(p, q) == \E m \in InMessages : p = [msg |-> m, part |-> 1] /\ q = [msg |-> m, part |-> 2]

Paired(s) ==
    \E n \in Nat : /\ Len(s) = 2 * n
                   /\ \A i \in 1 .. n : IsPair(s[2 * i - 1], s[2 * i])

(* How far the server has got with the login, and what that means. *)
Asking(s) ==
    s.phase \in {"new", "asked"} =>
        Pending = <<>> /\ channels = {} /\ s.joined = {} /\ ~g_session /\ OnlyLogins /\ ~s.full

Asked(s) ==
    /\ s.phase = "new" => outbuf # <<>>
    /\ s.phase # "new" => state = "CONNECTED" /\ s.status # "connecting"

Coming(s) ==
    \A i \in 1 .. Len(Pending) :
        /\ Pending[i].msg.op = "LOGIN_SUCCESS" =>
               i <= 2 /\ s.phase = "in" /\ ~g_session /\ channels = {} /\ OnlyLogins
        /\ Pending[i].msg.op \in {"LOGIN_FAILURE", "LOGIN_REDIRECT", "LOGOUT_SUCCESS"} => s.phase = "out"
        /\ Pending[i].msg.op \in {"LOGIN_FAILURE", "LOGIN_REDIRECT"} => OnlyLogins /\ ~s.full

InSession(s) == g_session => s.phase = "in" /\ NoLogouts

ServerInv ==
    Live => LET s == net[socket_fd] IN
            /\ Paired(Pending)
            /\ Asking(s) /\ Asked(s) /\ Coming(s) /\ InSession(s)

ChannelsInv ==
    /\ Live => Applied(channels, Pending) = net[socket_fd].joined
    /\ g_session => channels \subseteq g_channel_map

(* Outgoing messages are whole, but for the one that is being sent.  *)
OutInv ==
    outbuf # <<>> => /\ outbuf[Len(outbuf)].part = 2
                     /\ ~Live \/ net[socket_fd].phase = "new" => outbuf[1].part = 1

(* The server has not let the client in, as far as the client will hear. *)
Unanswered ==
    Live /\ (\/ net[socket_fd].phase \in {"new", "asked"}
             \/ \E i \in 1 .. Len(Pending) : Pending[i].msg.op \in {"LOGIN_FAILURE", "LOGIN_REDIRECT"})

(***************************************************************************)
(* do_work was called with something to do.  A login made in a callback has *)
(* a socket that the server was sent nothing on, and the write set has the  *)
(* one before: login requests have not filled it, so that do_work ends at   *)
(* the write, before it comes to its interest.                              *)
(***************************************************************************)
InWork == pc \in {"consume", "write", "interest"} \/ (pc = "callback" /\ callback # "disconnected")

WorkInv ==
    /\ InWork => sockfd \in Fds
    /\ InWork /\ Unanswered => writable
    /\ pc = "callback" /\ callback = "login_failed" => writable
    /\ InWork /\ Live /\ sockfd # socket_fd => pc # "interest" /\ net[socket_fd].phase = "new"
    /\ pc # "consume" => Len(inbuf) < InCapacity

(* What InterestKept says, at every step. *)
InterestInv ==
    /\ registered = {r \in {socket_fd} \X {"POLLIN", "POLLOUT"} :
                        IF r[2] = "POLLIN" THEN input_enabled ELSE output_enabled}
    /\ state = "DISCONNECTED" => ~input_enabled /\ ~output_enabled
    /\ state = "CONNECTING" => output_enabled
    /\ state = "CONNECTED" => /\ input_enabled \/ output_enabled
                              /\ outbuf # <<>> => output_enabled

IInv ==
    /\ TypeOK
    /\ OneSocket
    /\ GoneInv
    /\ ServerInv
    /\ ChannelsInv
    /\ OutInv
    /\ WorkInv
    /\ InterestInv

-----------------------------------------------------------------------------
(***************************************************************************)
(* What Applied does with one piece more, and with one piece less.          *)
(***************************************************************************)
AppliedOne(S, p) ==
    {c \in Channels : Tells(p, "CHANNEL_JOIN", c) \/ (c \in S /\ ~Tells(p, "CHANNEL_LEAVE", c))}

LEMMA AppliedNone == ASSUME NEW S \in SUBSET Channels PROVE Applied(S, <<>>) = S
BY DEF Applied

LEMMA AppliedAppend ==
    ASSUME NEW T, NEW S, NEW s \in Seq(T), NEW p \in T
    PROVE  Applied(S, Append(s, p)) = AppliedOne(Applied(S, s), p)
<1> DEFINE t == Append(s, p)
<1>1. /\ Len(t) = Len(s) + 1 /\ Len(s) \in Nat
      /\ t[Len(s) + 1] = p /\ \A i \in 1 .. Len(s) : t[i] = s[i]
  OBVIOUS
<1> HIDE DEF t
<1>2. ASSUME NEW c \in Applied(S, t) PROVE c \in AppliedOne(Applied(S, s), p)
  <2>1. PICK i \in 0 .. Len(t) : /\ IF i = 0 THEN c \in S ELSE Tells(t[i], "CHANNEL_JOIN", c)
                                 /\ \A j \in i + 1 .. Len(t) : ~Tells(t[j], "CHANNEL_LEAVE", c)
    BY DEF Applied
  <2>2. CASE i = Len(s) + 1
    BY <1>1, <2>1, <2>2 DEF AppliedOne, Applied
  <2>3. CASE i \in 0 .. Len(s)
    <3>1. ~Tells(p, "CHANNEL_LEAVE", c)
      BY <1>1, <2>1, <2>3
    <3>2. /\ IF i = 0 THEN c \in S ELSE Tells(s[i], "CHANNEL_JOIN", c)
          /\ \A j \in i + 1 .. Len(s) : ~Tells(s[j], "CHANNEL_LEAVE", c)
      BY <1>1, <2>1, <2>3
    <3> QED BY <2>3, <3>1, <3>2 DEF AppliedOne, Applied
  <2> QED BY <1>1, <2>2, <2>3
<1>3. ASSUME NEW c \in AppliedOne(Applied(S, s), p) PROVE c \in Applied(S, t)
  <2>1. CASE Tells(p, "CHANNEL_JOIN", c)
    <3>1. Len(s) + 1 \in 0 .. Len(t) /\ Len(s) + 1 # 0
      BY <1>1
    <3>2. \A j \in (Len(s) + 1) + 1 .. Len(t) : FALSE
      BY <1>1
    <3> QED BY <1>1, <2>1, <3>1, <3>2 DEF Applied, AppliedOne
  <2>2. CASE c \in Applied(S, s) /\ ~Tells(p, "CHANNEL_LEAVE", c)
    <3>1. PICK i \in 0 .. Len(s) : /\ IF i = 0 THEN c \in S ELSE Tells(s[i], "CHANNEL_JOIN", c)
                                   /\ \A j \in i + 1 .. Len(s) : ~Tells(s[j], "CHANNEL_LEAVE", c)
      BY <2>2 DEF Applied
    <3>2. /\ i \in 0 .. Len(t)
          /\ IF i = 0 THEN c \in S ELSE Tells(t[i], "CHANNEL_JOIN", c)
      BY <1>1, <3>1
    <3>3. \A j \in i + 1 .. Len(t) : ~Tells(t[j], "CHANNEL_LEAVE", c)
      BY <1>1, <2>2, <3>1
    <3> QED BY <3>2, <3>3 DEF Applied, AppliedOne
  <2> QED BY <2>1, <2>2 DEF AppliedOne
<1> QED BY <1>2, <1>3 DEF t

LEMMA AppliedHead ==
    ASSUME NEW T, NEW S, NEW s \in Seq(T), s # <<>>
    PROVE  Applied(S, s) = Applied(AppliedOne(S, Head(s)), Tail(s))
<1> DEFINE p == Head(s)
           t == Tail(s)
<1>1. /\ Len(s) = Len(t) + 1 /\ Len(t) \in Nat
      /\ s[1] = p /\ \A i \in 1 .. Len(t) : t[i] = s[i + 1]
  BY HeadTailProperties
<1> HIDE DEF t, p
<1>2. ASSUME NEW c \in Applied(S, s) PROVE c \in Applied(AppliedOne(S, p), t)
  <2>1. PICK i \in 0 .. Len(s) : /\ IF i = 0 THEN c \in S ELSE Tells(s[i], "CHANNEL_JOIN", c)
                                 /\ \A j \in i + 1 .. Len(s) : ~Tells(s[j], "CHANNEL_LEAVE", c)
    BY DEF Applied
  <2>2. CASE i \in {0, 1}
    <3>1. c \in AppliedOne(S, p)
      BY <1>1, <2>1, <2>2 DEF AppliedOne, Applied
    <3>2. \A j \in 0 + 1 .. Len(t) : ~Tells(t[j], "CHANNEL_LEAVE", c)
      BY <1>1, <2>1, <2>2
    <3>3. 0 \in 0 .. Len(t)
      BY <1>1
    <3> QED BY <3>1, <3>2, <3>3 DEF Applied
  <2>3. CASE i \in 2 .. Len(s)
    <3>1. /\ i - 1 \in 0 .. Len(t) /\ i - 1 # 0
          /\ Tells(t[i - 1], "CHANNEL_JOIN", c)
      BY <1>1, <2>1, <2>3
    <3>2. \A j \in (i - 1) + 1 .. Len(t) : ~Tells(t[j], "CHANNEL_LEAVE", c)
      BY <1>1, <2>1, <2>3
    <3> QED BY <3>1, <3>2 DEF Applied
  <2> QED BY <1>1, <2>2, <2>3
<1>3. ASSUME NEW c \in Applied(AppliedOne(S, p), t) PROVE c \in Applied(S, s)
  <2>1. PICK i \in 0 .. Len(t) : /\ IF i = 0 THEN c \in AppliedOne(S, p)
                                             ELSE Tells(t[i], "CHANNEL_JOIN", c)
                                 /\ \A j \in i + 1 .. Len(t) : ~Tells(t[j], "CHANNEL_LEAVE", c)
    BY DEF Applied
  <2>2. \A j \in i + 2 .. Len(s) : ~Tells(s[j], "CHANNEL_LEAVE", c)
    <3> SUFFICES ASSUME NEW j \in i + 2 .. Len(s) PROVE ~Tells(s[j], "CHANNEL_LEAVE", c)
      OBVIOUS
    <3>1. j - 1 \in i + 1 .. Len(t) /\ (j - 1) + 1 = j /\ j - 1 \in 1 .. Len(t)
      BY <1>1
    <3> QED BY <1>1, <2>1, <3>1
  <2>3. CASE i = 0 /\ ~Tells(p, "CHANNEL_JOIN", c)
    <3>1. c \in S /\ ~Tells(s[1], "CHANNEL_LEAVE", c)
      BY <1>1, <2>1, <2>3 DEF AppliedOne
    <3>2. \A j \in 0 + 1 .. Len(s) : ~Tells(s[j], "CHANNEL_LEAVE", c)
      BY <1>1, <2>2, <2>3, <3>1
    <3>3. 0 \in 0 .. Len(s)
      BY <1>1
    <3> QED BY <3>1, <3>2, <3>3 DEF Applied
  <2>4. CASE i # 0 \/ Tells(p, "CHANNEL_JOIN", c)
    <3>1. i + 1 \in 0 .. Len(s) /\ i + 1 # 0 /\ Tells(s[i + 1], "CHANNEL_JOIN", c)
      BY <1>1, <2>1, <2>4
    <3>2. \A j \in (i + 1) + 1 .. Len(s) : ~Tells(s[j], "CHANNEL_LEAVE", c)
      BY <2>2
    <3> QED BY <3>1, <3>2 DEF Applied
  <2> QED BY <2>3, <2>4
<1> QED BY <1>2, <1>3 DEF t, p

-----------------------------------------------------------------------------
(***************************************************************************)
(* Messages as two pieces: what the server's sending and the client's       *)
(* reading and taking do to what is pending.                                *)
(***************************************************************************)
LEMMA NonEmpty ==
    ASSUME NEW T, NEW s \in Seq(T), Len(s) > 0
    PROVE  s # <<>> /\ Head(s) = s[1]
BY EmptySeq

After(S, m) ==
    IF m.op = "CHANNEL_JOIN" THEN S \cup {m.channel}
    ELSE IF m.op = "CHANNEL_LEAVE" THEN S \ {m.channel}
    ELSE S

LEMMA PieceTypes ==
    ASSUME NEW m \in InMessages
    PROVE  /\ [msg |-> m, part |-> 1] \in InPieces /\ [msg |-> m, part |-> 2] \in InPieces
           /\ Pieces(m) \in Seq(InPieces) /\ Len(Pieces(m)) = 2
           /\ Pieces(m)[1] = [msg |-> m, part |-> 1] /\ Pieces(m)[2] = [msg |-> m, part |-> 2]
<1>1. [msg |-> m, part |-> 1] \in InPieces /\ [msg |-> m, part |-> 2] \in InPieces
  BY DEF InPieces
<1> QED BY <1>1 DEF Pieces

LEMMA MessageTypes ==
    ASSUME NEW m \in InMessages
    PROVE  /\ m.no \in 1 .. MaxServer
           /\ m.channel \in Channels \cup {NULL}
           /\ m.op \in {"CHANNEL_JOIN", "CHANNEL_LEAVE", "CHANNEL_MESSAGE"} => m.channel \in Channels
           /\ Usual => m.op # "RECONNECT_FAILURE"
BY ConnectionAssumption DEF InMessages, Usual

LEMMA AfterPair ==
    ASSUME NEW S \in SUBSET Channels, NEW m \in InMessages, NEW p, NEW q,
           p = [msg |-> m, part |-> 1], q = [msg |-> m, part |-> 2]
    PROVE  AppliedOne(AppliedOne(S, p), q) = After(S, m) /\ After(S, m) \subseteq Channels
<1>1. AppliedOne(S, p) = S
  BY DEF AppliedOne, Tells
<1>2. m.op = "CHANNEL_JOIN" => m.channel \in Channels
  BY MessageTypes
<1>3. AppliedOne(S, q) = After(S, m)
  BY <1>2 DEF AppliedOne, Tells, After
<1> QED BY <1>1, <1>2, <1>3 DEF After

LEMMA AppendPair ==
    ASSUME NEW s \in Seq(InPieces), NEW m \in InMessages
    PROVE  s \o Pieces(m) = Append(Append(s, [msg |-> m, part |-> 1]), [msg |-> m, part |-> 2])
BY PieceTypes DEF Pieces

LEMMA AppliedSent ==
    ASSUME NEW S, NEW s \in Seq(InPieces), NEW m \in InMessages
    PROVE  Applied(S, s \o Pieces(m)) = After(Applied(S, s), m)
<1> DEFINE p == [msg |-> m, part |-> 1]
           q == [msg |-> m, part |-> 2]
<1>1. p \in InPieces /\ q \in InPieces /\ Append(s, p) \in Seq(InPieces)
  BY PieceTypes
<1>2. Applied(S, s) \subseteq Channels
  BY DEF Applied
<1> DEFINE t == Append(s, p)
<1> HIDE DEF t, p, q
<1>3. Applied(S, t) = AppliedOne(Applied(S, s), p)
  BY <1>1, AppliedAppend DEF t
<1>a. t \in Seq(InPieces)
  BY <1>1 DEF t
<1>4. Applied(S, Append(t, q)) = AppliedOne(Applied(S, t), q)
  BY <1>1, <1>a, AppliedAppend
<1>5. AppliedOne(AppliedOne(Applied(S, s), p), q) = After(Applied(S, s), m)
  BY <1>2, AfterPair DEF p, q
<1> QED BY <1>3, <1>4, <1>5, AppendPair DEF t, p, q

(* The first two pieces and the rest. *)
Rest(s) == SubSeq(s, 3, Len(s))

LEMMA RestProperties ==
    ASSUME NEW s \in Seq(InPieces), Len(s) >= 2
    PROVE  /\ Rest(s) \in Seq(InPieces) /\ Len(Rest(s)) = Len(s) - 2
           /\ \A i \in 1 .. Len(s) - 2 : Rest(s)[i] = s[i + 2]
           /\ Rest(s) = Tail(Tail(s))
<1>1. Len(s) \in Nat /\ s # <<>>
  BY LenProperties, NonEmpty
<1> DEFINE t == Tail(s)
<1>2. t = SubSeq(s, 2, Len(s))
  BY <1>1, TailIsSubSeq
<1>3. t \in Seq(InPieces) /\ Len(t) = Len(s) - 1 /\ \A i \in 1 .. Len(s) - 1 : t[i] = s[i + 1]
  BY <1>1, HeadTailProperties
<1>4. Tail(t) = Rest(s)
  <2>1. 2 \in 1 .. Len(s) /\ Len(s) \in 2 .. Len(s) /\ 2 + 1 = 3
    BY <1>1
  <2>2. Tail(SubSeq(s, 2, Len(s))) = SubSeq(s, 2 + 1, Len(s))
    BY <2>1, HeadTailOfSubSeq
  <2> QED BY <1>2, <2>1, <2>2 DEF Rest
<1> HIDE DEF t
<1>5. /\ Tail(t) \in Seq(InPieces) /\ Len(Tail(t)) = Len(t) - 1
      /\ \A i \in 1 .. Len(t) - 1 : Tail(t)[i] = t[i + 1]
  BY <1>1, <1>3, NonEmpty, HeadTailProperties
<1>6. Len(Rest(s)) = Len(s) - 2
  BY <1>1, <1>3, <1>4, <1>5
<1>7. ASSUME NEW i \in 1 .. Len(s) - 2 PROVE Rest(s)[i] = s[i + 2]
  <2>1. i \in 1 .. Len(t) - 1 /\ i + 1 \in 1 .. Len(s) - 1 /\ (i + 1) + 1 = i + 2
    BY <1>1, <1>3
  <2> QED BY <1>3, <1>4, <1>5, <2>1
<1> QED BY <1>4, <1>5, <1>6, <1>7 DEF t

LEMMA AppliedRest ==
    ASSUME NEW S \in SUBSET Channels, NEW s \in Seq(InPieces), Len(s) >= 2,
           NEW m \in InMessages, s[1] = [msg |-> m, part |-> 1], s[2] = [msg |-> m, part |-> 2]
    PROVE  Applied(S, s) = Applied(After(S, m), Rest(s))
<1> DEFINE t == Tail(s)
<1>1. s # <<>> /\ Head(s) = s[1]
  BY NonEmpty
<1>2. t \in Seq(InPieces) /\ Len(t) = Len(s) - 1 /\ t[1] = s[2]
  BY <1>1, HeadTailProperties
<1>3. Applied(S, s) = Applied(AppliedOne(S, s[1]), t)
  BY <1>1, AppliedHead
<1>4. Rest(s) = Tail(t)
  BY RestProperties
<1> HIDE DEF t
<1>5. t # <<>> /\ Head(t) = s[2]
  BY <1>2, NonEmpty
<1>6. Applied(AppliedOne(S, s[1]), t) = Applied(AppliedOne(AppliedOne(S, s[1]), s[2]), Tail(t))
  BY <1>2, <1>5, AppliedHead
<1>7. AppliedOne(AppliedOne(S, s[1]), s[2]) = After(S, m)
  BY AfterPair
<1> QED BY <1>3, <1>4, <1>6, <1>7

LEMMA SentPieces ==
    ASSUME NEW s \in Seq(InPieces), NEW m \in InMessages
    PROVE  LET t == s \o Pieces(m) IN
           /\ t \in Seq(InPieces) /\ Len(s) \in Nat /\ Len(t) = Len(s) + 2
           /\ \A i \in 1 .. Len(s) : t[i] = s[i]
           /\ t[Len(s) + 1] = [msg |-> m, part |-> 1] /\ t[Len(s) + 2] = [msg |-> m, part |-> 2]
<1> DEFINE b == Pieces(m)
           t == s \o b
<1>1. b \in Seq(InPieces) /\ Len(b) = 2 /\ Len(s) \in Nat
  BY PieceTypes, LenProperties
<1>2. b[1] = [msg |-> m, part |-> 1] /\ b[2] = [msg |-> m, part |-> 2]
  BY PieceTypes
<1> HIDE DEF b
<1>3. /\ t \in Seq(InPieces) /\ Len(t) = Len(s) + Len(b)
      /\ \A i \in 1 .. Len(s) + Len(b) : t[i] = IF i <= Len(s) THEN s[i] ELSE b[i - Len(s)]
  BY <1>1, ConcatProperties, Zenon
<1> HIDE DEF t
<1>4. t[Len(s) + 1] = b[1] /\ t[Len(s) + 2] = b[2]
  BY <1>1, <1>3
<1>5. Len(t) = Len(s) + 2 /\ \A i \in 1 .. Len(s) : t[i] = s[i]
  BY <1>1, <1>3
<1> QED BY <1>1, <1>2, <1>3, <1>4, <1>5 DEF t, b

LEMMA PairedSent ==
    ASSUME NEW s \in Seq(InPieces), Paired(s), NEW m \in InMessages
    PROVE  Paired(s \o Pieces(m))
<1>1. PICK n \in Nat : Len(s) = 2 * n /\ \A i \in 1 .. n : IsPair(s[2 * i - 1], s[2 * i])
  BY DEF Paired
<1> DEFINE t == s \o Pieces(m)
<1>2. /\ Len(t) = 2 * (n + 1) /\ \A i \in 1 .. 2 * n : t[i] = s[i]
      /\ t[2 * n + 1] = [msg |-> m, part |-> 1] /\ t[2 * n + 2] = [msg |-> m, part |-> 2]
  <2>1. /\ Len(t) = Len(s) + 2 /\ \A i \in 1 .. Len(s) : t[i] = s[i]
        /\ t[Len(s) + 1] = [msg |-> m, part |-> 1] /\ t[Len(s) + 2] = [msg |-> m, part |-> 2]
    BY SentPieces
  <2> HIDE DEF t
  <2> QED BY <1>1, <2>1
<1> HIDE DEF t
<1>3. IsPair(t[2 * n + 1], t[2 * n + 2])
  BY <1>2 DEF IsPair
<1>4. ASSUME NEW i \in 1 .. n + 1 PROVE IsPair(t[2 * i - 1], t[2 * i])
  <2>1. CASE i \in 1 .. n
    <3>1. 2 * i - 1 \in 1 .. 2 * n /\ 2 * i \in 1 .. 2 * n
      BY <2>1
    <3> QED BY <1>1, <1>2, <2>1, <3>1
  <2>2. CASE i = n + 1
    <3>1. 2 * i - 1 = 2 * n + 1 /\ 2 * i = 2 * n + 2
      BY <2>2
    <3> QED BY <1>3, <3>1
  <2> QED BY <1>1, <2>1, <2>2
<1>5. n + 1 \in Nat
  BY <1>1
<1> QED BY <1>2, <1>4, <1>5 DEF Paired, t

LEMMA PairedRest ==
    ASSUME NEW s \in Seq(InPieces), Paired(s), Len(s) >= 2
    PROVE  Paired(Rest(s)) /\ IsPair(s[1], s[2])
<1>1. PICK n \in Nat : Len(s) = 2 * n /\ \A i \in 1 .. n : IsPair(s[2 * i - 1], s[2 * i])
  BY DEF Paired
<1>2. n - 1 \in Nat /\ Len(Rest(s)) = 2 * (n - 1)
  BY <1>1, RestProperties
<1>3. ASSUME NEW i \in 1 .. n - 1 PROVE IsPair(Rest(s)[2 * i - 1], Rest(s)[2 * i])
  <2>1. i + 1 \in 1 .. n /\ 2 * i - 1 \in 1 .. Len(s) - 2 /\ 2 * i \in 1 .. Len(s) - 2
    BY <1>1
  <2>2. Rest(s)[2 * i - 1] = s[(2 * i - 1) + 2] /\ Rest(s)[2 * i] = s[2 * i + 2]
    BY <2>1, RestProperties
  <2>3. (2 * i - 1) + 2 = 2 * (i + 1) - 1 /\ 2 * i + 2 = 2 * (i + 1)
    BY <2>1
  <2> QED BY <1>1, <2>1, <2>2, <2>3
<1>4. IsPair(s[1], s[2])
  <2>1. 1 \in 1 .. n /\ 2 * 1 - 1 = 1 /\ 2 * 1 = 2
    BY <1>1
  <2> QED BY <1>1, <2>1
<1> QED BY <1>2, <1>3, <1>4 DEF Paired

(* Reading moves pieces from the socket to inbuf, and leaves pending alone. *)
LEMMA PendingRead ==
    ASSUME NEW a \in Seq(InPieces), NEW b \in Seq(InPieces), NEW k \in 0 .. Len(b)
    PROVE  /\ (a \o SubSeq(b, 1, k)) \o SubSeq(b, k + 1, Len(b)) = a \o b
           /\ a \o SubSeq(b, 1, k) \in Seq(InPieces) /\ SubSeq(b, k + 1, Len(b)) \in Seq(InPieces)
           /\ Len(a \o SubSeq(b, 1, k)) = Len(a) + k
<1>1. Len(b) \in Nat /\ \A i \in 1 .. Len(b) : b[i] \in InPieces
  BY LenProperties, ElementOfSeq
<1> DEFINE u == SubSeq(b, 1, k)
           v == SubSeq(b, k + 1, Len(b))
<1>2. u \in Seq(InPieces) /\ Len(u) = k
  <2>1. \A i \in 1 .. k : b[i] \in InPieces
    BY <1>1
  <2>2. u \in Seq(InPieces) /\ Len(u) = IF 1 <= k THEN k - 1 + 1 ELSE 0
    BY <1>1, <2>1, SubSeqProperties
  <2>3. CASE 1 <= k
    BY <2>2, <2>3
  <2>4. CASE k = 0
    BY <2>2, <2>4
  <2> QED BY <2>2, <2>3, <2>4
<1>3. v \in Seq(InPieces)
  <2>1. \A i \in k + 1 .. Len(b) : b[i] \in InPieces
    BY <1>1
  <2>2. k + 1 \in Int /\ Len(b) \in Int
    BY <1>1
  <2> QED BY <2>1, <2>2, SubSeqProperties
<1>4. u \o v = b
  <2>1. 1 \in 1 .. Len(b) + 1 /\ k \in 1 - 1 .. Len(b) /\ Len(b) \in k .. Len(b)
    BY <1>1
  <2>2. u \o v = SubSeq(b, 1, Len(b))
    BY <2>1, ConcatAdjacentSubSeq
  <2> QED BY <2>2, SubSeqFull
<1> HIDE DEF u, v
<1>5. (a \o u) \o v = a \o (u \o v)
  <2> SUFFICES \A x, y, z \in Seq(InPieces) : (x \o y) \o z = x \o (y \o z)
    BY <1>2, <1>3
  <2> QED BY ConcatAssociative
<1>6. a \o u \in Seq(InPieces) /\ Len(a \o u) = Len(a) + k
  BY <1>2, ConcatProperties
<1> QED BY <1>3, <1>4, <1>5, <1>6 DEF u, v

(* Taking a message out of inbuf takes it off what is pending. *)
LEMMA PendingTaken ==
    ASSUME NEW a \in Seq(InPieces), NEW b \in Seq(InPieces), Len(a) >= 2
    PROVE  /\ Rest(a) \o b = Rest(a \o b)
           /\ Len(a \o b) >= 2 /\ (a \o b)[1] = a[1] /\ (a \o b)[2] = a[2]
<1> DEFINE u == a \o b
<1>1. Len(a) \in Nat /\ Len(b) \in Nat
  BY LenProperties
<1>2. /\ u \in Seq(InPieces) /\ Len(u) = Len(a) + Len(b)
      /\ \A i \in 1 .. Len(a) + Len(b) : u[i] = IF i <= Len(a) THEN a[i] ELSE b[i - Len(a)]
  BY ConcatProperties, Zenon
<1> HIDE DEF u
<1>3. Len(u) >= 2 /\ u[1] = a[1] /\ u[2] = a[2]
  BY <1>1, <1>2
<1>4. /\ Rest(a) \in Seq(InPieces) /\ Len(Rest(a)) = Len(a) - 2
      /\ \A i \in 1 .. Len(a) - 2 : Rest(a)[i] = a[i + 2]
  BY RestProperties
<1>5. /\ Rest(u) \in Seq(InPieces) /\ Len(Rest(u)) = Len(u) - 2
      /\ \A i \in 1 .. Len(u) - 2 : Rest(u)[i] = u[i + 2]
  BY <1>2, <1>3, RestProperties
<1> DEFINE r == Rest(a)
           w == r \o b
<1> HIDE DEF r
<1>6. r \in Seq(InPieces) /\ Len(r) = Len(a) - 2
  BY <1>4 DEF r
<1>7. /\ w \in Seq(InPieces) /\ Len(w) = Len(r) + Len(b)
      /\ \A i \in 1 .. Len(r) + Len(b) : w[i] = IF i <= Len(r) THEN r[i] ELSE b[i - Len(r)]
  BY <1>6, ConcatProperties, Zenon
<1> HIDE DEF w
<1>8. Len(w) = Len(Rest(u))
  BY <1>1, <1>2, <1>5, <1>6, <1>7
<1>9. ASSUME NEW i \in 1 .. Len(w) PROVE w[i] = Rest(u)[i]
  <2>1. i \in 1 .. Len(u) - 2 /\ i + 2 \in 1 .. Len(a) + Len(b) /\ i \in 1 .. Len(r) + Len(b)
    BY <1>1, <1>2, <1>6, <1>7
  <2>2. CASE i <= Len(r)
    <3>1. i \in 1 .. Len(a) - 2 /\ i + 2 <= Len(a)
      BY <1>1, <1>6, <2>1, <2>2
    <3> QED BY <1>2, <1>4, <1>5, <1>7, <2>1, <2>2, <3>1 DEF r
  <2>3. CASE ~(i <= Len(r))
    <3>1. ~(i + 2 <= Len(a)) /\ (i + 2) - Len(a) = i - Len(r)
      BY <1>1, <1>6, <2>1, <2>3
    <3> QED BY <1>2, <1>5, <1>7, <2>1, <2>3, <3>1
  <2> QED BY <2>2, <2>3
<1>10. w = Rest(u)
  BY <1>5, <1>7, <1>8, <1>9, SeqEqual
<1> QED BY <1>3, <1>10 DEF u, w, r

-----------------------------------------------------------------------------
LEMMA SocketType ==
    ASSUME TypeOK, NEW fd \in Fds
    PROVE  net[fd] \in Sockets /\ net[fd].in \in Seq(InPieces)
BY DEF TypeOK, Sockets

(* What is pending is a sequence of pieces, and without sending or taking it stays. *)
LEMMA PendingType ==
    ASSUME TypeOK, socket_fd \in Fds
    PROVE  Pending \in Seq(InPieces) /\ Len(Pending) \in Nat
<1>1. inbuf \in Seq(InPieces) /\ net[socket_fd].in \in Seq(InPieces)
  BY SocketType DEF TypeOK
<1> QED BY <1>1, ConcatProperties, LenProperties DEF Pending

LEMMA ClosedType ==
    ASSUME NEW st \in {"closed", "open", "connecting", "connected"}, NEW n \in 0 .. MaxLogins
    PROVE  /\ Socket(st, n) \in Sockets
           /\ Socket(st, n).status = st /\ Socket(st, n).in = <<>>
           /\ Socket(st, n).phase = "new" /\ Socket(st, n).joined = {} /\ ~Socket(st, n).full
<1>1. <<>> \in Seq(InPieces)
  BY EmptySeq
<1>2. 0 \in 0 .. MaxServer
  BY ConnectionAssumption
<1> QED BY <1>1, <1>2 DEF Socket, Sockets

(* A position in a ring stays in it. *)
LEMMA AdvanceType ==
    ASSUME NEW capacity \in Nat \ {0}, NEW pos \in Nat, NEW k \in Nat
    PROVE  Advance(pos, k, capacity) \in 0 .. capacity - 1
<1>1. pos + k \in Nat
  OBVIOUS
<1> QED BY <1>1 DEF Advance

LEMMA InitIInv == Init => IInv
<1> SUFFICES ASSUME Init PROVE IInv
  OBVIOUS
<1>1. TypeOK
  <2>1. Closed \in Sockets
    BY ClosedType, ConnectionAssumption DEF Closed
  <2>2. net \in [Fds -> Sockets]
    BY <2>1 DEF Init
  <2>3. inbuf \in Seq(InPieces) /\ Len(inbuf) <= InCapacity
    BY EmptySeq, ConnectionAssumption DEF Init
  <2>4. outbuf \in Seq(OutPieces) /\ Len(outbuf) <= OutCapacity
    BY EmptySeq, ConnectionAssumption DEF Init
  <2>5. /\ 0 \in 0 .. MaxLogins /\ 0 \in 0 .. MaxSends /\ 0 \in 0 .. MaxServer
        /\ 0 \in 0 .. InCapacity - 1 /\ 0 \in 0 .. OutCapacity - 1
    BY ConnectionAssumption
  <2> QED BY <2>2, <2>3, <2>4, <2>5 DEF Init, TypeOK
<1>2. OneSocket
  <2>1. Closed.status = "closed" /\ Closed.in = <<>> /\ Closed.phase = "new" /\ Closed.joined = {}
    BY DEF Closed, Socket
  <2> QED BY <2>1 DEF Init, OneSocket, Unused, Live
<1>3. OnlyLogins /\ Len(inbuf) < InCapacity
  BY EmptySeq, ConnectionAssumption DEF Init, OnlyLogins
<1>4. WorkInv /\ OutInv
  BY <1>3, ConnectionAssumption DEF Init, WorkInv, InWork, OutInv, Live
<1> QED BY <1>1, <1>2, <1>3, <1>4 DEF Init, IInv, GoneInv, ServerInv, ChannelsInv, InterestInv, Live

-----------------------------------------------------------------------------
(***************************************************************************)
(* The kernel's steps, and those of the thread that move nothing but pc and *)
(* statuses: what the invariant says of all else is kept.                   *)
(***************************************************************************)
LEMMA ServerKept ==
    ASSUME IInv, Live, UNCHANGED <<socket_fd, state, outbuf, channels, g_session, g_channel_map>>,
           Pending' = Pending,
           LET s == net[socket_fd] IN
           LET t == net'[socket_fd] IN
           /\ t.phase = s.phase /\ t.joined = s.joined /\ (t.full => s.full)
           /\ s.phase # "new" => s.status # "connecting" /\ t.status # "connecting"
    PROVE  ServerInv' /\ ChannelsInv' /\ OutInv' /\ Unanswered' = Unanswered
<1>1. Live'
  BY DEF Live
<1>2. (net[socket_fd])' = net'[socket_fd]
  OBVIOUS
<1>3. OnlyLogins' = OnlyLogins /\ NoLogouts' = NoLogouts
  BY DEF OnlyLogins, NoLogouts
<1>4. ServerInv'
  BY <1>1, <1>3 DEF IInv, ServerInv, Paired, Asking, Asked, Coming, InSession
<1>5. ChannelsInv'
  BY DEF IInv, ChannelsInv, Applied, Live
<1>6. OutInv'
  BY <1>1, <1>2 DEF IInv, OutInv
<1>7. Unanswered' = Unanswered
  BY <1>1, <1>2 DEF Unanswered
<1> QED BY <1>4, <1>5, <1>6, <1>7

Others == <<registered, appVars, workVars, logins, nSends, consumed>>

LEMMA StatusStep ==
    ASSUME IInv, NEW fd \in Fds, NEW st \in {"connected", "eof", "reset", "dead"},
           NEW full \in BOOLEAN, full => net[fd].full,
           net[fd].status \notin {"closed", "open"},
           net' = [net EXCEPT ![fd].status = st, ![fd].full = full],
           UNCHANGED <<connVars, Others>>
    PROVE  IInv'
<1>1. Live /\ fd = socket_fd
  BY DEF IInv, OneSocket, Unused
<1>2. /\ UNCHANGED <<socket_fd, state, inbuf, inpos, outbuf, outpos, input_enabled, output_enabled,
                     channels, dangling, registered, g_session, g_channel_map, pc, callback, sockfd,
                     writable, logins, nSends, consumed>>
      /\ Live' = Live
  BY DEF connVars, appVars, workVars, Others, Live
<1>3. /\ net'[fd].status = st /\ net'[fd].full = full
      /\ net'[fd].in = net[fd].in /\ net'[fd].phase = net[fd].phase /\ net'[fd].joined = net[fd].joined
      /\ \A g \in Fds \ {fd} : net'[g] = net[g]
      /\ net' \in [Fds -> Sockets]
  <2> DEFINE s == [net[fd] EXCEPT !.status = st, !.full = full]
  <2>1. net[fd] \in Sockets
    BY SocketType DEF IInv
  <2>2. /\ s \in Sockets /\ s.status = st /\ s.full = full
        /\ s.in = net[fd].in /\ s.phase = net[fd].phase /\ s.joined = net[fd].joined
    BY <2>1 DEF Sockets
  <2>3. net' = [net EXCEPT ![fd] = s]
    OBVIOUS
  <2> HIDE DEF s
  <2> QED BY <2>2, <2>3 DEF IInv, TypeOK
<1>4. TypeOK'
  BY <1>2, <1>3 DEF IInv, TypeOK
<1>5. OneSocket'
  BY <1>1, <1>2, <1>3 DEF IInv, OneSocket, Unused
<1>6. Pending' = Pending
  BY <1>1, <1>2, <1>3 DEF Pending
<1>7. ServerInv' /\ ChannelsInv' /\ OutInv' /\ Unanswered' = Unanswered
  BY <1>1, <1>2, <1>3, <1>6, ServerKept DEF IInv, ServerInv, Asked
<1>8. GoneInv'
  BY <1>2 DEF IInv, GoneInv, OnlyLogins
<1>9. WorkInv' /\ InterestInv'
  BY <1>1, <1>2, <1>3, <1>7 DEF IInv, WorkInv, InWork, InterestInv
<1> QED BY <1>4, <1>5, <1>7, <1>8, <1>9 DEF IInv

(* Changing only the status is a case of it. *)
LEMMA StatusOnly ==
    ASSUME TypeOK, NEW fd \in Fds, NEW st
    PROVE  [net EXCEPT ![fd].status = st] = [net EXCEPT ![fd].status = st, ![fd].full = net[fd].full]
BY DEF TypeOK, Sockets

(* What the server may send, and how far it has got then. *)
Answers(phase, op, next) ==
    \/ phase = "asked" /\ op = "LOGIN_SUCCESS" /\ next = "in"
    \/ phase = "asked" /\ op \in {"LOGIN_FAILURE", "LOGIN_REDIRECT"} /\ next = "out"
    \/ phase = "logout" /\ op = "LOGOUT_SUCCESS" /\ next = "out"
    \/ /\ phase = "in" /\ next = "in"
       /\ op \notin {"LOGIN_SUCCESS", "LOGIN_FAILURE", "LOGIN_REDIRECT", "LOGOUT_SUCCESS"}

(* One message more is on its way. *)
Sends(fd, m, phase, joined) ==
    /\ net[fd].status = "connected"
    /\ net[fd].sent < MaxServer
    /\ net' = [net EXCEPT ![fd].in = @ \o Pieces(m), ![fd].sent = @ + 1,
                          ![fd].phase = phase, ![fd].joined = joined]
    /\ External

LEMMA SendsEffect ==
    ASSUME IInv, NEW fd \in Fds, NEW m \in InMessages, NEW phase, NEW joined \in SUBSET Channels,
           Sends(fd, m, phase, joined), phase \in {"in", "out"}
    PROVE  /\ Live /\ fd = socket_fd /\ Live' = Live
           /\ UNCHANGED <<socket_fd, state, inbuf, inpos, outbuf, outpos, input_enabled, output_enabled,
                          channels, dangling, registered, g_session, g_channel_map, pc, callback, sockfd,
                          writable, logins, nSends, consumed>>
           /\ net'[fd].status = "connected" /\ net'[fd].phase = phase /\ net'[fd].joined = joined
           /\ net'[fd].full = net[fd].full
           /\ \A g \in Fds \ {fd} : net'[g] = net[g]
           /\ net' \in [Fds -> Sockets]
           /\ Pending' = Pending \o Pieces(m)
<1>1. Live /\ fd = socket_fd
  BY DEF Sends, IInv, OneSocket, Unused
<1>2. /\ UNCHANGED <<socket_fd, state, inbuf, inpos, outbuf, outpos, input_enabled, output_enabled,
                     channels, dangling, registered, g_session, g_channel_map, pc, callback, sockfd, writable,
                     logins, nSends, consumed>>
      /\ Live' = Live
  BY DEF Sends, External, connVars, appVars, workVars, Live
<1>3. net[fd].in \in Seq(InPieces) /\ net[fd] \in Sockets
  BY SocketType DEF IInv
<1> DEFINE arrived == net[fd].in \o Pieces(m)
<1>4. arrived \in Seq(InPieces)
  BY <1>3, PieceTypes, ConcatProperties
<1>a. net' = [net EXCEPT ![fd].in = arrived, ![fd].sent = @ + 1, ![fd].phase = phase, ![fd].joined = joined]
  BY DEF Sends
<1>5. net[fd].sent + 1 \in 0 .. MaxServer
  BY <1>3, ConnectionAssumption DEF Sends, Sockets
<1>6. /\ net'[fd].status = "connected" /\ net'[fd].phase = phase /\ net'[fd].joined = joined
      /\ net'[fd].in = arrived /\ net'[fd].full = net[fd].full
      /\ \A g \in Fds \ {fd} : net'[g] = net[g]
  BY <1>a DEF Sends, IInv, TypeOK
<1> HIDE DEF arrived
<1>7. net' \in [Fds -> Sockets]
  <2> DEFINE t == [net[fd] EXCEPT !.in = arrived, !.sent = @ + 1, !.phase = phase, !.joined = joined]
  <2>1. \A r \in Sockets : [r EXCEPT !.in = arrived] \in Sockets
    BY <1>4 DEF Sockets
  <2>2. t \in Sockets
    <3> DEFINE r == [net[fd] EXCEPT !.in = arrived]
    <3>1. r \in Sockets /\ r.sent = net[fd].sent
      BY <1>3, <2>1 DEF Sockets
    <3>2. t = [r EXCEPT !.sent = @ + 1, !.phase = phase, !.joined = joined]
      OBVIOUS
    <3> HIDE DEF r
    <3> QED BY <1>5, <3>1, <3>2 DEF Sockets
  <2>3. net' = [net EXCEPT ![fd] = t]
    BY <1>a
  <2> HIDE DEF t
  <2> QED BY <2>2, <2>3 DEF IInv, TypeOK
<1>8. Pending' = Pending \o Pieces(m)
  <2> DEFINE a == inbuf
             b == net[fd].in
             c == Pieces(m)
  <2>1. a \in Seq(InPieces) /\ b \in Seq(InPieces) /\ c \in Seq(InPieces)
    BY <1>3, PieceTypes DEF IInv, TypeOK
  <2>2. Pending = a \o b /\ Pending' = a \o (b \o c)
    BY <1>1, <1>2, <1>6 DEF Pending, arrived
  <2> HIDE DEF a, b, c
  <2>3. (a \o b) \o c = a \o (b \o c)
    <3> SUFFICES \A x, y, z \in Seq(InPieces) : (x \o y) \o z = x \o (y \o z)
      BY <2>1
    <3> QED BY ConcatAssociative
  <2> QED BY <2>2, <2>3 DEF c
<1> QED BY <1>1, <1>2, <1>6, <1>7, <1>8

LEMMA SendsStep ==
    ASSUME Usual, IInv, NEW fd \in Fds, NEW m \in InMessages, NEW phase, NEW joined \in SUBSET Channels,
           Sends(fd, m, phase, joined),
           Answers(net[fd].phase, m.op, phase), After(net[fd].joined, m) = joined
    PROVE  IInv'
<1>0. phase \in {"in", "out"}
  BY DEF Answers
<1>1. /\ Live /\ fd = socket_fd /\ Live' = Live
      /\ UNCHANGED <<socket_fd, state, inbuf, inpos, outbuf, outpos, input_enabled, output_enabled,
                     channels, dangling, registered, g_session, g_channel_map, pc, callback, sockfd,
                     writable, logins, nSends, consumed>>
      /\ net'[fd].status = "connected" /\ net'[fd].phase = phase /\ net'[fd].joined = joined
      /\ net'[fd].full = net[fd].full
      /\ \A g \in Fds \ {fd} : net'[g] = net[g]
      /\ net' \in [Fds -> Sockets]
      /\ Pending' = Pending \o Pieces(m)
  BY <1>0, SendsEffect
<1>2. Pending \in Seq(InPieces) /\ Len(Pending) \in Nat
  BY <1>1, PendingType DEF IInv
<1>3. /\ Pending' \in Seq(InPieces) /\ Len(Pending') = Len(Pending) + 2
      /\ \A i \in 1 .. Len(Pending) : Pending'[i] = Pending[i]
      /\ \A i \in Len(Pending) + 1 .. Len(Pending) + 2 : Pending'[i].msg = m
  <2> DEFINE c == Pending'
  <2>1. /\ c \in Seq(InPieces) /\ Len(c) = Len(Pending) + 2
        /\ \A i \in 1 .. Len(Pending) : c[i] = Pending[i]
        /\ c[Len(Pending) + 1] = [msg |-> m, part |-> 1] /\ c[Len(Pending) + 2] = [msg |-> m, part |-> 2]
    BY <1>1, <1>2, SentPieces
  <2> HIDE DEF c
  <2>2. \A i \in Len(Pending) + 1 .. Len(Pending) + 2 : c[i].msg = m
    <3> SUFFICES ASSUME NEW i \in Len(Pending) + 1 .. Len(Pending) + 2 PROVE c[i].msg = m
      OBVIOUS
    <3>1. i = Len(Pending) + 1 \/ i = Len(Pending) + 2
      BY <1>2
    <3> QED BY <2>1, <3>1
  <2> QED BY <2>1, <2>2 DEF c
<1>4. TypeOK'
  BY <1>1 DEF IInv, TypeOK
<1>5. OneSocket'
  BY <1>1 DEF IInv, OneSocket, Unused
<1>6. OnlyLogins' = OnlyLogins /\ NoLogouts' = NoLogouts
  BY <1>1 DEF OnlyLogins, NoLogouts
<1>7. GoneInv'
  BY <1>1, <1>6 DEF IInv, GoneInv
<1>8. WorkInv' /\ InterestInv' /\ OutInv'
  <2>1. net[socket_fd].phase # "new" /\ phase # "new" /\ (net[socket_fd])'.phase = phase
    BY <1>0, <1>1 DEF Answers
  <2>2. ASSUME Unanswered' PROVE Unanswered
    <3>1. PICK i \in 1 .. Len(Pending') : Pending'[i].msg.op \in {"LOGIN_FAILURE", "LOGIN_REDIRECT"}
      BY <1>0, <2>1, <2>2 DEF Unanswered
    <3>2. CASE i \in 1 .. Len(Pending)
      BY <1>1, <1>3, <3>1, <3>2 DEF Unanswered
    <3>3. CASE i \in Len(Pending) + 1 .. Len(Pending) + 2
      <4>1. m.op \in {"LOGIN_FAILURE", "LOGIN_REDIRECT"}
        BY <1>3, <3>1, <3>3
      <4> QED BY <1>1, <4>1 DEF Unanswered, Answers
    <3> QED BY <1>2, <1>3, <3>2, <3>3
  <2>3. OutInv'
    BY <1>1, <2>1 DEF IInv, OutInv
  <2> QED BY <1>1, <2>1, <2>2, <2>3 DEF IInv, WorkInv, InWork, InterestInv
<1>9. ServerInv'
  <2> DEFINE s == net[socket_fd]
             t == net'[socket_fd]
  <2>1. Paired(Pending) /\ Asking(s) /\ Asked(s) /\ Coming(s) /\ InSession(s)
    BY <1>1 DEF IInv, ServerInv
  <2>2. t.phase = phase /\ t.status = "connected" /\ t.full = s.full
    BY <1>1
  <2>3. Paired(Pending')
    BY <1>1, <1>2, <2>1, PairedSent
  <2>4. phase # "new" /\ phase # "asked"
    BY <1>0
  <2>5. state' = "CONNECTED"
    BY <1>1, <2>1 DEF Asked, Answers
  <2>6. g_session' => phase = "in" /\ NoLogouts'
    BY <1>1, <1>6, <2>1 DEF InSession, Answers, Asking
  <2>7. ASSUME NEW i \in 1 .. Len(Pending')
        PROVE  /\ Pending'[i].msg.op = "LOGIN_SUCCESS" =>
                      i <= 2 /\ phase = "in" /\ ~g_session' /\ channels' = {} /\ OnlyLogins'
               /\ Pending'[i].msg.op \in {"LOGIN_FAILURE", "LOGIN_REDIRECT", "LOGOUT_SUCCESS"} =>
                      phase = "out"
               /\ Pending'[i].msg.op \in {"LOGIN_FAILURE", "LOGIN_REDIRECT"} => OnlyLogins' /\ ~t.full
    <3>1. CASE i \in 1 .. Len(Pending)
      <4>1. Pending'[i] = Pending[i] /\ Pending # <<>>
        BY <1>3, <3>1, EmptySeq
      <4>2. s.phase # "asked"
        BY <2>1, <4>1 DEF Asking
      <4> QED BY <1>1, <1>6, <2>1, <2>2, <3>1, <4>1, <4>2 DEF Coming, Answers
    <3>2. CASE i \in Len(Pending) + 1 .. Len(Pending) + 2
      <4>1. Pending'[i].msg = m
        BY <1>3, <3>2
      <4>2. CASE s.phase = "asked"
        <5>1. Len(Pending) = 0 /\ channels = {} /\ ~g_session /\ OnlyLogins /\ ~s.full
          BY <2>1, <4>2, EmptySeq DEF Asking
        <5> QED BY <1>1, <1>6, <2>2, <3>2, <4>1, <4>2, <5>1 DEF Answers
      <4>3. CASE s.phase # "asked"
        BY <1>1, <4>1, <4>3 DEF Answers
      <4> QED BY <4>2, <4>3
    <3> QED BY <1>2, <1>3, <3>1, <3>2
  <2> HIDE DEF s, t
  <2>8. (net[socket_fd])' = t
    BY <1>1 DEF t
  <2> QED BY <2>2, <2>3, <2>4, <2>5, <2>6, <2>7, <2>8 DEF ServerInv, Asking, Asked, Coming, InSession
<1>10. ChannelsInv'
  <2>1. Applied(channels, Pending) = net[fd].joined
    BY <1>1 DEF IInv, ChannelsInv
  <2>2. Applied(channels, Pending \o Pieces(m)) = joined
    BY <1>2, <2>1, AppliedSent
  <2>3. Applied(channels, Pending)' = Applied(channels, Pending')
    BY <1>1 DEF Applied
  <2> QED BY <1>1, <2>2, <2>3 DEF IInv, ChannelsInv
<1> QED BY <1>4, <1>5, <1>7, <1>8, <1>9, <1>10 DEF IInv

LEMMA ServerSendsStep ==
    ASSUME Usual, IInv, NEW fd \in Fds, NEW op, NEW channel, NEW phase, NEW joined \in SUBSET Channels,
           \/ /\ op \in {"LOGIN_SUCCESS", "LOGIN_FAILURE", "LOGIN_REDIRECT", "SESSION_MESSAGE",
                         "LOGOUT_SUCCESS"} \cup Stray
              /\ channel = NULL
           \/ op \in {"CHANNEL_JOIN", "CHANNEL_LEAVE", "CHANNEL_MESSAGE"} /\ channel \in Channels,
           ServerSends(fd, op, channel, phase, joined),
           Answers(net[fd].phase, op, phase),
           After(net[fd].joined, [op |-> op, channel |-> channel]) = joined
    PROVE  IInv'
<1> DEFINE n == net[fd].sent + 1
           m == [op |-> op, channel |-> channel, no |-> n]
<1>1. n \in 1 .. MaxServer
  BY SocketType, ConnectionAssumption DEF IInv, Sockets, ServerSends
<1>2. Sends(fd, m, phase, joined)
  BY DEF ServerSends, Sends
<1> HIDE DEF n
<1>3. m \in InMessages
  BY <1>1 DEF InMessages
<1>4. m.op = op /\ After(net[fd].joined, m) = joined
  BY DEF After
<1> HIDE DEF m
<1> QED BY <1>2, <1>3, <1>4, SendsStep

LEMMA ServerStep ==
    ASSUME Usual, IInv, Environment
    PROVE  IInv'
<1>1. PICK fd \in Fds : \/ Accept(fd) \/ Reset(fd) \/ ServerCloses(fd) \/ ServerReceives(fd)
                        \/ ServerAnswersLogin(fd) \/ ServerAnswersLogout(fd) \/ ServerTalks(fd)
  BY DEF Environment
<1>2. net[fd] \in Sockets /\ net[fd].joined \in SUBSET Channels
  BY SocketType DEF IInv, Sockets
<1>3. (Live /\ socket_fd = fd) \/ Unused(net[fd])
  BY DEF IInv, OneSocket
<1>4. ASSUME Accept(fd) \/ Reset(fd) \/ ServerCloses(fd) \/ ServerReceives(fd) PROVE IInv'
  <2>1. UNCHANGED <<connVars, Others>>
    BY <1>4 DEF Accept, Reset, ServerCloses, ServerReceives, External, Others
  <2>2. net[fd].status \notin {"closed", "open"} /\ net[fd].full \in BOOLEAN
    BY <1>2, <1>4 DEF Accept, Reset, ServerCloses, ServerReceives, Sockets
  <2>3. CASE Accept(fd) \/ ServerCloses(fd)
    <3>1. PICK st \in {"connected", "eof"} : net' = [net EXCEPT ![fd].status = st]
      BY <2>3 DEF Accept, ServerCloses
    <3>2. net' = [net EXCEPT ![fd].status = st, ![fd].full = net[fd].full]
      BY <3>1, StatusOnly DEF IInv
    <3> QED BY <2>1, <2>2, <3>2, StatusStep
  <2>4. CASE Reset(fd)
    BY <2>1, <2>2, <2>4, StatusStep DEF Reset
  <2>5. CASE ServerReceives(fd)
    <3>1. net[fd].status \in {"connected", "eof"}
      BY <2>5 DEF ServerReceives
    <3>2. net' = [net EXCEPT ![fd].status = net[fd].status, ![fd].full = FALSE]
      BY <1>2, <2>5 DEF ServerReceives, IInv, TypeOK, Sockets
    <3> QED BY <2>1, <2>2, <3>1, <3>2, StatusStep
  <2> QED BY <1>4, <2>3, <2>4, <2>5
<1>5. ASSUME ServerAnswersLogin(fd) PROVE IInv'
  <2>1. net[fd].joined = {}
    BY <1>3, <1>5 DEF ServerAnswersLogin, IInv, ServerInv, Asking, Unused
  <2>2. {} \in SUBSET Channels
    OBVIOUS
  <2>3. PICK op \in {"LOGIN_SUCCESS", "LOGIN_FAILURE", "LOGIN_REDIRECT"} :
            ServerSends(fd, op, NULL, IF op = "LOGIN_SUCCESS" THEN "in" ELSE "out", {})
    BY <1>5 DEF ServerAnswersLogin
  <2>4. Answers(net[fd].phase, op, IF op = "LOGIN_SUCCESS" THEN "in" ELSE "out")
    BY <1>5 DEF ServerAnswersLogin, Answers
  <2>5. After(net[fd].joined, [op |-> op, channel |-> NULL]) = {}
    BY <2>1 DEF After
  <2> QED BY <2>2, <2>3, <2>4, <2>5, ServerSendsStep
<1>6. ASSUME ServerAnswersLogout(fd) PROVE IInv'
  <2>1. After(net[fd].joined, [op |-> "LOGOUT_SUCCESS", channel |-> NULL]) = net[fd].joined
    BY DEF After
  <2>2. Answers(net[fd].phase, "LOGOUT_SUCCESS", "out")
    BY <1>6 DEF ServerAnswersLogout, Answers
  <2>3. ServerSends(fd, "LOGOUT_SUCCESS", NULL, "out", net[fd].joined)
    BY <1>6 DEF ServerAnswersLogout
  <2> QED BY <1>2, <2>1, <2>2, <2>3, ServerSendsStep
<1>7. ASSUME ServerTalks(fd) PROVE IInv'
  <2>1. ASSUME NEW op \in {"SESSION_MESSAGE"} \cup Stray, ServerSends(fd, op, NULL, "in", net[fd].joined)
        PROVE  IInv'
    <3>1. op \notin {"LOGIN_SUCCESS", "LOGIN_FAILURE", "LOGIN_REDIRECT", "LOGOUT_SUCCESS",
                     "CHANNEL_JOIN", "CHANNEL_LEAVE"}
      BY ConnectionAssumption
    <3>2. After(net[fd].joined, [op |-> op, channel |-> NULL]) = net[fd].joined
      BY <3>1 DEF After
    <3>3. Answers(net[fd].phase, op, "in")
      BY <1>7, <3>1 DEF ServerTalks, Answers
    <3> QED BY <1>2, <2>1, <3>2, <3>3, ServerSendsStep
  <2>2. ASSUME NEW c \in Channels, NEW op \in {"CHANNEL_JOIN", "CHANNEL_LEAVE", "CHANNEL_MESSAGE"},
               NEW joined \in SUBSET Channels,
               joined = After(net[fd].joined, [op |-> op, channel |-> c]),
               ServerSends(fd, op, c, "in", joined)
        PROVE  IInv'
    <3>1. Answers(net[fd].phase, op, "in")
      BY <1>7 DEF ServerTalks, Answers
    <3> QED BY <2>2, <3>1, ServerSendsStep
  <2>3. ASSUME NEW c \in Channels
        PROVE  /\ After(net[fd].joined, [op |-> "CHANNEL_JOIN", channel |-> c]) = net[fd].joined \cup {c}
               /\ After(net[fd].joined, [op |-> "CHANNEL_LEAVE", channel |-> c]) = net[fd].joined \ {c}
               /\ After(net[fd].joined, [op |-> "CHANNEL_MESSAGE", channel |-> c]) = net[fd].joined
               /\ net[fd].joined \cup {c} \in SUBSET Channels /\ net[fd].joined \ {c} \in SUBSET Channels
    BY <1>2 DEF After
  <2>4. CASE \E op \in {"SESSION_MESSAGE"} \cup Stray : ServerSends(fd, op, NULL, "in", net[fd].joined)
    BY <2>1, <2>4
  <2>5. ASSUME NEW c \in Channels,
               \/ ServerSends(fd, "CHANNEL_JOIN", c, "in", net[fd].joined \cup {c})
               \/ ServerSends(fd, "CHANNEL_LEAVE", c, "in", net[fd].joined \ {c})
               \/ ServerSends(fd, "CHANNEL_MESSAGE", c, "in", net[fd].joined)
        PROVE  IInv'
    <3>1. CASE ServerSends(fd, "CHANNEL_JOIN", c, "in", net[fd].joined \cup {c})
      BY <2>2, <2>3, <3>1
    <3>2. CASE ServerSends(fd, "CHANNEL_LEAVE", c, "in", net[fd].joined \ {c})
      BY <2>2, <2>3, <3>2
    <3>3. CASE ServerSends(fd, "CHANNEL_MESSAGE", c, "in", net[fd].joined)
      BY <1>2, <2>2, <2>3, <3>3
    <3> QED BY <2>5, <3>1, <3>2, <3>3
  <2> QED BY <1>7, <2>4, <2>5 DEF ServerTalks
<1> QED BY <1>1, <1>4, <1>5, <1>6, <1>7

-----------------------------------------------------------------------------
(***************************************************************************)
(* Every way a connection ends, whatever the thread does next.              *)
(***************************************************************************)
LEMMA DisconnectStep ==
    ASSUME IInv, Live, sgs_connection_impl_disconnect,
           g_session' = FALSE, g_channel_map' \subseteq Channels, dangling' \in BOOLEAN,
           pc' \in {"app", "consume", "callback"},
           callback' \in {NULL, "login_failed", "disconnected", callback},
           sockfd' \in Fds \cup {NULL}, writable' \in BOOLEAN,
           InWork' => sockfd' \in Fds,
           pc' = "callback" /\ callback' = "login_failed" => writable'
    PROVE  IInv'
<1>1. /\ state' = "DISCONNECTED" /\ channels' = {}
      /\ inbuf' = <<>> /\ inpos' = 0 /\ outbuf' = <<>> /\ outpos' = 0
      /\ input_enabled' = FALSE /\ output_enabled' = FALSE /\ consumed' = 0
      /\ registered' = registered \ ({socket_fd} \X {"POLLIN", "POLLOUT"})
      /\ net' = [net EXCEPT ![socket_fd] = Closed]
      /\ UNCHANGED <<socket_fd, logins, nSends>>
  BY DEF sgs_connection_impl_disconnect, inbuf_cleared, outbuf_cleared, sgs_session_channel_clear,
         unregister_fd_cb
<1>2. socket_fd \in Fds
  BY DEF IInv, OneSocket
<1>3. ~Live'
  BY <1>1 DEF Live
<1>4. Closed \in Sockets /\ Unused(Closed)
  BY ClosedType, ConnectionAssumption DEF Closed, Unused
<1>5. /\ net' \in [Fds -> Sockets]
      /\ net'[socket_fd] = Closed /\ \A g \in Fds \ {socket_fd} : net'[g] = net[g]
  BY <1>1, <1>2, <1>4 DEF IInv, TypeOK
<1>6. /\ inbuf' \in Seq(InPieces) /\ Len(inbuf') = 0
      /\ outbuf' \in Seq(OutPieces) /\ Len(outbuf') = 0
  BY <1>1, EmptySeq
<1>7. registered' = {}
  BY <1>1 DEF IInv, InterestInv
<1>8. TypeOK'
  <2>1. /\ 0 <= InCapacity /\ 0 <= OutCapacity /\ 0 \in 0 .. MaxServer
        /\ 0 \in 0 .. InCapacity - 1 /\ 0 \in 0 .. OutCapacity - 1
    BY ConnectionAssumption
  <2> QED BY <1>1, <1>5, <1>6, <1>7, <2>1 DEF IInv, TypeOK
<1>9. OneSocket'
  BY <1>2, <1>3, <1>4, <1>5 DEF IInv, OneSocket
<1>10. GoneInv'
  BY <1>1, <1>3, <1>6 DEF GoneInv, OnlyLogins
<1>11. ServerInv' /\ ChannelsInv'
  BY <1>3 DEF ServerInv, ChannelsInv
<1>12. WorkInv' /\ OutInv'
  BY <1>1, <1>3, <1>6, ConnectionAssumption DEF WorkInv, Unanswered, OutInv
<1>13. InterestInv'
  BY <1>1, <1>7 DEF InterestInv
<1> QED BY <1>8, <1>9, <1>10, <1>11, <1>12, <1>13 DEF IInv

(* consume_data takes out what is first of all that is pending. *)
LEMMA Consuming ==
    ASSUME IInv, At("consume"), Whole
    PROVE  /\ Live /\ socket_fd \in Fds
           /\ Pending \in Seq(InPieces) /\ Len(Pending) >= 2
           /\ Pending[1] = inbuf[1] /\ Pending[2] = inbuf[2]
           /\ Message \in InMessages
           /\ Pending[1] = [msg |-> Message, part |-> 1] /\ Pending[2] = [msg |-> Message, part |-> 2]
<1>1. Live
  BY EmptySeq DEF IInv, GoneInv, Whole
<1>2. socket_fd \in Fds
  BY <1>1 DEF IInv, OneSocket
<1>3. Pending \in Seq(InPieces) /\ Len(Pending) \in Nat
  BY <1>2, PendingType DEF IInv
<1>4. Len(Pending) >= 2 /\ Pending[1] = inbuf[1] /\ Pending[2] = inbuf[2]
  <2>1. inbuf \in Seq(InPieces) /\ net[socket_fd].in \in Seq(InPieces)
    BY <1>2, SocketType DEF IInv, TypeOK
  <2> QED BY <2>1, PendingTaken DEF Pending, Whole
<1>5. Paired(Pending)
  BY <1>1 DEF IInv, ServerInv
<1>6. IsPair(Pending[1], Pending[2])
  BY <1>3, <1>4, <1>5, PairedRest
<1>7. PICK m \in InMessages : Pending[1] = [msg |-> m, part |-> 1] /\ Pending[2] = [msg |-> m, part |-> 2]
  BY <1>6 DEF IsPair
<1>8. Message = m
  BY <1>4, <1>7 DEF Message
<1> QED BY <1>1, <1>2, <1>3, <1>4, <1>7, <1>8

LEMMA EndStep ==
    ASSUME Usual, IInv,
           LogoutForce \/ DoWorkCloses \/ LoginFailure \/ LoginRedirect \/ SilentDisconnect
    PROVE  IInv'
<1>1. TypeOK /\ GoneInv /\ WorkInv
  BY DEF IInv
<1>2. ASSUME LogoutForce PROVE IInv'
  BY <1>1, <1>2, DisconnectStep
     DEF LogoutForce, conn_closed, disconnected_cb, Calls, InWork, GoneInv, At, TypeOK
<1>3. ASSUME DoWorkCloses PROVE IInv'
  BY <1>1, <1>3, DisconnectStep
     DEF DoWorkCloses, DoWork, Live, conn_closed, disconnected_cb, Calls, InWork, At, TypeOK
<1>4. ASSUME LoginFailure \/ LoginRedirect \/ SilentDisconnect PROVE IInv'
  <2>1. At("consume") /\ Whole /\ sgs_connection_impl_disconnect
        /\ Message.op \in {"LOGIN_FAILURE", "LOGIN_REDIRECT", "LOGOUT_SUCCESS", "RECONNECT_FAILURE"}
        /\ g_session' = g_session /\ g_channel_map' = g_channel_map
    BY <1>4 DEF LoginFailure, LoginRedirect, SilentDisconnect, Consume, appVars
  <2>2. Live /\ Message \in InMessages /\ Pending[1].msg = Message /\ 1 \in 1 .. Len(Pending)
    <3>1. /\ Live /\ socket_fd \in Fds /\ Message \in InMessages /\ Len(Pending) >= 2
          /\ Pending[1] = [msg |-> Message, part |-> 1]
      BY <2>1, Consuming
    <3>2. Len(Pending) \in Nat
      BY <3>1, PendingType DEF IInv
    <3> QED BY <3>1, <3>2
  <2>3. Message.op \in {"LOGIN_FAILURE", "LOGIN_REDIRECT", "LOGOUT_SUCCESS"}
    BY <2>1, <2>2, MessageTypes
  <2>4. ~g_session
    BY <2>2, <2>3 DEF IInv, ServerInv, Coming, InSession
  <2>5. sockfd \in Fds /\ pc = "consume" /\ (Message.op = "LOGIN_FAILURE" => writable)
    BY <1>1, <2>1, <2>2 DEF At, WorkInv, InWork, Unanswered
  <2>6. /\ dangling' \in BOOLEAN /\ pc' \in {"consume", "callback"}
        /\ callback' \in {NULL, "login_failed", "disconnected", callback}
        /\ pc' = "callback" => Message.op = "LOGIN_FAILURE"
        /\ UNCHANGED <<sockfd, writable>>
    BY <1>1, <1>4, <2>5
       DEF LoginFailure, LoginRedirect, SilentDisconnect, Consume, Calls, Goto, workVars, TypeOK
  <2> QED BY <1>1, <2>1, <2>2, <2>4, <2>5, <2>6, DisconnectStep DEF TypeOK
<1> QED BY <1>2, <1>3, <1>4

-----------------------------------------------------------------------------
(***************************************************************************)
(* What the application does in a session: it sends and logs out.           *)
(***************************************************************************)
LEMMA SessionFacts ==
    ASSUME IInv, g_session
    PROVE  /\ Live /\ socket_fd \in Fds /\ state = "CONNECTED" /\ logins \in 1 .. MaxLogins
           /\ net[socket_fd].phase = "in" /\ NoLogouts /\ outbuf \in Seq(OutPieces)
           /\ \A i \in 1 .. Len(Pending) : Pending[i].msg.op # "LOGIN_SUCCESS"
<1>1. Live
  BY DEF IInv, GoneInv
<1>2. socket_fd \in Fds /\ logins > 0
  BY <1>1 DEF IInv, OneSocket
<1>3. net[socket_fd].phase = "in" /\ NoLogouts
  BY <1>1 DEF IInv, ServerInv, InSession
<1>4. state = "CONNECTED"
  BY <1>1, <1>3 DEF IInv, ServerInv, Asked
<1>5. \A i \in 1 .. Len(Pending) : Pending[i].msg.op # "LOGIN_SUCCESS"
  BY <1>1 DEF IInv, ServerInv, Coming
<1>6. logins \in 1 .. MaxLogins /\ outbuf \in Seq(OutPieces)
  BY <1>2, ConnectionAssumption DEF IInv, TypeOK
<1> QED BY <1>1, <1>2, <1>3, <1>4, <1>5, <1>6

(* A message more in outbuf. *)
LEMMA Written ==
    ASSUME IInv, NEW m \in OutMessages, HasRoom, outbuf' = outbuf \o Pieces(m)
    PROVE  /\ outbuf' \in Seq(OutPieces) /\ Len(outbuf') <= OutCapacity /\ outbuf' # <<>>
           /\ \A i \in 1 .. Len(outbuf') :
                 outbuf'[i].msg = m \/ \E j \in 1 .. Len(outbuf) : outbuf'[i] = outbuf[j]
           /\ outbuf'[Len(outbuf')].part = 2
           /\ outbuf'[1].part = 1 \/ (outbuf # <<>> /\ outbuf'[1] = outbuf[1])
<1> DEFINE b == Pieces(m)
           u == outbuf \o b
<1>1. outbuf \in Seq(OutPieces) /\ Len(outbuf) \in Nat
  BY LenProperties DEF IInv, TypeOK
<1>2. /\ b \in Seq(OutPieces) /\ Len(b) = 2 /\ b[1].msg = m /\ b[2].msg = m
      /\ b[1].part = 1 /\ b[2].part = 2
  <2>1. [msg |-> m, part |-> 1] \in OutPieces /\ [msg |-> m, part |-> 2] \in OutPieces
    BY DEF OutPieces
  <2> QED BY <2>1 DEF Pieces
<1> HIDE DEF b
<1>3. /\ u \in Seq(OutPieces) /\ Len(u) = Len(outbuf) + 2
      /\ \A i \in 1 .. Len(outbuf) + 2 : u[i] = IF i <= Len(outbuf) THEN outbuf[i] ELSE b[i - Len(outbuf)]
  <2>1. /\ u \in Seq(OutPieces) /\ Len(u) = Len(outbuf) + Len(b)
        /\ \A i \in 1 .. Len(outbuf) + Len(b) : u[i] = IF i <= Len(outbuf) THEN outbuf[i] ELSE b[i - Len(outbuf)]
    BY <1>1, <1>2, ConcatProperties, Zenon
  <2> QED BY <1>2, <2>1
<1>4. outbuf' = u
  BY DEF b
<1> HIDE DEF u
<1>5. u # <<>> /\ Len(u) <= OutCapacity
  BY <1>1, <1>3, EmptySeq DEF HasRoom
<1>6. ASSUME NEW i \in 1 .. Len(u)
      PROVE  u[i].msg = m \/ \E j \in 1 .. Len(outbuf) : u[i] = outbuf[j]
  <2>1. CASE i <= Len(outbuf)
    BY <1>1, <1>3, <2>1
  <2>2. CASE ~(i <= Len(outbuf))
    <3>1. i - Len(outbuf) = 1 \/ i - Len(outbuf) = 2
      BY <1>1, <1>3, <2>2
    <3> QED BY <1>2, <1>3, <2>2, <3>1
  <2> QED BY <2>1, <2>2
<1>7. u[Len(u)].part = 2
  BY <1>1, <1>2, <1>3
<1>8. u[1].part = 1 \/ (outbuf # <<>> /\ u[1] = outbuf[1])
  <2>1. CASE outbuf = <<>>
    BY <1>1, <1>2, <1>3, <2>1
  <2>2. CASE outbuf # <<>>
    <3>1. Len(outbuf) > 0
      BY <1>1, <2>2, EmptySeq
    <3> QED BY <1>1, <1>3, <2>2, <3>1
  <2> QED BY <2>1, <2>2
<1> QED BY <1>3, <1>4, <1>5, <1>6, <1>7, <1>8

LEMMA SessionStep ==
    ASSUME IInv, g_session, NEW m \in OutMessages,
           \/ sgs_connection_impl_io_write(m, socket_fd)
           \/ UNCHANGED <<outbuf, registered, output_enabled>>,
           UNCHANGED <<socket_fd, state, inbuf, inpos, outpos, input_enabled, channels, dangling, workVars, net,
                       logins, consumed>>,
           nSends' \in 0 .. MaxSends,
           \/ g_session' = FALSE /\ g_channel_map' \subseteq Channels
           \/ UNCHANGED appVars /\ m.op # "LOGOUT_REQUEST"
    PROVE  IInv'
<1>1. /\ Live /\ socket_fd \in Fds /\ state = "CONNECTED" /\ logins \in 1 .. MaxLogins
      /\ net[socket_fd].phase = "in" /\ NoLogouts /\ outbuf \in Seq(OutPieces)
      /\ \A i \in 1 .. Len(Pending) : Pending[i].msg.op # "LOGIN_SUCCESS"
  BY SessionFacts
<1>2. /\ UNCHANGED <<socket_fd, state, inbuf, inpos, outpos, input_enabled, channels, dangling, pc, callback,
                     sockfd, writable, net, logins, consumed>>
      /\ Live' = Live /\ Pending' = Pending
  BY DEF workVars, Live, Pending
<1>3. /\ outbuf' \in Seq(OutPieces) /\ Len(outbuf') <= OutCapacity
      /\ m.op # "LOGOUT_REQUEST" => NoLogouts'
      /\ outbuf' # <<>> => outbuf'[Len(outbuf')].part = 2
  <2>1. CASE sgs_connection_impl_io_write(m, socket_fd)
    <3>1. /\ outbuf' \in Seq(OutPieces) /\ Len(outbuf') <= OutCapacity
          /\ \A i \in 1 .. Len(outbuf') :
                outbuf'[i].msg = m \/ \E j \in 1 .. Len(outbuf) : outbuf'[i] = outbuf[j]
          /\ outbuf'[Len(outbuf')].part = 2
      BY <2>1, Written DEF sgs_connection_impl_io_write
    <3> QED BY <1>1, <3>1 DEF NoLogouts
  <2>2. CASE UNCHANGED <<outbuf, registered, output_enabled>>
    BY <1>1, <2>2 DEF IInv, TypeOK, NoLogouts, OutInv
  <2> QED BY <2>1, <2>2
<1>4. InterestInv' /\ registered' \subseteq Fds \X {"POLLIN", "POLLOUT"} /\ output_enabled' \in BOOLEAN
  <2>1. CASE sgs_connection_impl_io_write(m, socket_fd)
    <3>1. CASE output_enabled
      BY <1>1, <1>2, <2>1, <3>1 DEF sgs_connection_impl_io_write, IInv, TypeOK, InterestInv
    <3>2. CASE ~output_enabled
      BY <1>1, <1>2, <2>1, <3>2 DEF sgs_connection_impl_io_write, register_fd_cb, IInv, TypeOK, InterestInv
    <3> QED BY <3>1, <3>2
  <2>2. CASE UNCHANGED <<outbuf, registered, output_enabled>>
    BY <1>1, <1>2, <2>2 DEF IInv, TypeOK, InterestInv
  <2> QED BY <2>1, <2>2
<1>5. TypeOK'
  <2>1. g_session' \in BOOLEAN /\ g_channel_map' \subseteq Channels
    BY DEF IInv, TypeOK, appVars
  <2> QED BY <1>2, <1>3, <1>4, <2>1 DEF IInv, TypeOK
<1>6. OneSocket'
  BY <1>2 DEF IInv, OneSocket
<1>7. GoneInv' /\ OutInv' /\ WorkInv'
  <2>1. (net[socket_fd])' = net[socket_fd]
    BY <1>2
  <2>2. OutInv'
    BY <1>1, <1>2, <1>3, <2>1 DEF OutInv
  <2>3. Unanswered' = Unanswered
    BY <1>2, <2>1 DEF Unanswered
  <2> QED BY <1>1, <1>2, <2>1, <2>2, <2>3 DEF IInv, GoneInv, WorkInv, InWork
<1>8. ServerInv'
  <2>1. Paired(Pending) /\ Asked(net[socket_fd]) /\ Coming(net[socket_fd])
    BY <1>1 DEF IInv, ServerInv
  <2>2. Paired(Pending')
    BY <1>2, <2>1
  <2>3. (net[socket_fd])' = net[socket_fd]
    BY <1>2
  <2>4. Asking(net[socket_fd])' /\ Asked(net[socket_fd])' /\ InSession(net[socket_fd])'
    BY <1>1, <1>2, <1>3, <2>1, <2>3 DEF Asking, Asked, InSession, appVars
  <2>5. Coming(net[socket_fd])'
    BY <1>1, <1>2, <2>1, <2>3 DEF Coming
  <2> QED BY <2>2, <2>4, <2>5 DEF ServerInv, Paired
<1>9. ChannelsInv'
  BY <1>2 DEF IInv, ChannelsInv, Applied, appVars
<1> QED BY <1>4, <1>5, <1>6, <1>7, <1>8, <1>9 DEF IInv

LEMMA ApplicationSends ==
    ASSUME IInv, DirectSend \/ (\E c \in Channels : ChannelSend(c)) \/ Logout \/ LogoutRefused
    PROVE  IInv'
<1>1. ASSUME DirectSend PROVE IInv'
  <2> DEFINE m == [op |-> "SESSION_MESSAGE", login |-> logins]
  <2>1. MaySend /\ sgs_session_impl_send_msg(m)
    BY <1>1 DEF DirectSend
  <2>2. logins \in 1 .. MaxLogins
    BY <2>1, SessionFacts DEF MaySend
  <2>3. m \in OutMessages /\ m.op # "LOGOUT_REQUEST"
    BY <2>2 DEF OutMessages
  <2>4. nSends + 1 \in 0 .. MaxSends
    BY <2>1, ConnectionAssumption DEF MaySend, IInv, TypeOK
  <2> HIDE DEF m
  <2> QED BY <2>1, <2>3, <2>4, SessionStep DEF MaySend, sgs_session_impl_send_msg
<1>2. ASSUME NEW c \in Channels, ChannelSend(c) PROVE IInv'
  <2> DEFINE m == [op |-> "CHANNEL_MESSAGE", login |-> logins, channel |-> c]
  <2>1. MaySend /\ sgs_session_impl_send_msg(m)
    BY <1>2 DEF ChannelSend
  <2>2. logins \in 1 .. MaxLogins
    BY <2>1, SessionFacts DEF MaySend
  <2>3. m \in OutMessages /\ m.op # "LOGOUT_REQUEST"
    BY <2>2 DEF OutMessages
  <2>4. nSends + 1 \in 0 .. MaxSends
    BY <2>1, ConnectionAssumption DEF MaySend, IInv, TypeOK
  <2> HIDE DEF m
  <2> QED BY <2>1, <2>3, <2>4, SessionStep DEF MaySend, sgs_session_impl_send_msg
<1>3. ASSUME Logout PROVE IInv'
  <2>1. doLogout /\ g_session
    BY <1>3 DEF Logout, doLogout
  <2>2. logins \in 1 .. MaxLogins
    BY <2>1, SessionFacts
  <2>3. LogoutRequest \in OutMessages
    BY <2>2 DEF LogoutRequest, OutMessages
  <2>4. nSends' \in 0 .. MaxSends /\ {} \subseteq Channels
    BY <2>1 DEF doLogout, IInv, TypeOK
  <2>5. \/ sgs_connection_impl_io_write(LogoutRequest, socket_fd)
        \/ UNCHANGED <<outbuf, registered, output_enabled>>
    BY <1>3 DEF Logout
  <2> QED BY <2>1, <2>3, <2>4, <2>5, SessionStep DEF doLogout
<1>4. ~LogoutRefused
  BY DEF LogoutRefused, doLogout, IInv, GoneInv, Live
<1> QED BY <1>1, <1>2, <1>3, <1>4

-----------------------------------------------------------------------------
(***************************************************************************)
(* Logging in, on a connection that is disconnected.                        *)
(***************************************************************************)
LEMMA Disconnected ==
    ASSUME Usual, IInv, LoginCalled
    PROVE  /\ ~Live /\ state = "DISCONNECTED" /\ inbuf = <<>> /\ channels = {} /\ ~g_session
           /\ OnlyLogins /\ input_enabled = FALSE /\ output_enabled = FALSE /\ registered = {}
           /\ \A fd \in Fds : Unused(net[fd])
           /\ logins + 1 \in 1 .. MaxLogins /\ logins' = logins + 1 /\ LoginRequest \in OutMessages
           /\ UNCHANGED <<inbuf, inpos, outpos, input_enabled, channels, dangling, g_session, g_channel_map,
                          pc, callback, sockfd, writable, nSends, consumed>>
<1>1. ~Live /\ state = "DISCONNECTED"
  BY DEF Usual, LoginCalled, Live
<1>2. inbuf = <<>> /\ channels = {} /\ ~g_session /\ OnlyLogins
  BY <1>1 DEF IInv, GoneInv
<1>3. input_enabled = FALSE /\ output_enabled = FALSE
  BY <1>1 DEF IInv, InterestInv, TypeOK
<1>4. registered = {}
  BY <1>3 DEF IInv, InterestInv
<1>5. \A fd \in Fds : Unused(net[fd])
  BY <1>1 DEF IInv, OneSocket
<1>6. logins + 1 \in 1 .. MaxLogins /\ LoginRequest \in OutMessages
  BY ConnectionAssumption DEF IInv, TypeOK, LoginCalled, LoginRequest, OutMessages
<1>7. /\ logins' = logins + 1
      /\ UNCHANGED <<inbuf, inpos, outpos, input_enabled, channels, dangling, g_session, g_channel_map,
                     pc, callback, sockfd, writable, nSends, consumed>>
  BY DEF LoginCalled, appVars, workVars
<1> QED BY <1>1, <1>2, <1>3, <1>4, <1>5, <1>6, <1>7

LEMMA LoginWritten ==
    ASSUME IInv, ~Live, OnlyLogins, LoginRequest \in OutMessages,
           HasRoom, outbuf' = outbuf \o Pieces(LoginRequest)
    PROVE  /\ outbuf' \in Seq(OutPieces) /\ Len(outbuf') <= OutCapacity /\ outbuf' # <<>> /\ OnlyLogins'
           /\ outbuf'[1].part = 1 /\ outbuf'[Len(outbuf')].part = 2
<1>1. /\ outbuf' \in Seq(OutPieces) /\ Len(outbuf') <= OutCapacity /\ outbuf' # <<>>
      /\ \A i \in 1 .. Len(outbuf') :
            outbuf'[i].msg = LoginRequest \/ \E j \in 1 .. Len(outbuf) : outbuf'[i] = outbuf[j]
      /\ outbuf'[Len(outbuf')].part = 2
      /\ outbuf'[1].part = 1 \/ (outbuf # <<>> /\ outbuf'[1] = outbuf[1])
  BY Written
<1>2. OnlyLogins'
  <2>1. LoginRequest.op = "LOGIN_REQUEST"
    BY DEF LoginRequest
  <2> QED BY <1>1, <2>1 DEF OnlyLogins
<1>3. outbuf # <<>> => outbuf[1].part = 1
  BY DEF IInv, OutInv
<1> QED BY <1>1, <1>2, <1>3

LEMMA LoginLeavesDisconnected ==
    ASSUME Usual, IInv, LoginWithoutSocket \/ (\E fd \in Fds : LoginFails(fd))
    PROVE  IInv'
<1>0. LoginCalled
  BY DEF LoginWithoutSocket, LoginFails
<1>1. /\ ~Live /\ state = "DISCONNECTED" /\ inbuf = <<>> /\ channels = {} /\ ~g_session
      /\ OnlyLogins /\ input_enabled = FALSE /\ output_enabled = FALSE /\ registered = {}
      /\ \A fd \in Fds : Unused(net[fd])
      /\ logins + 1 \in 1 .. MaxLogins /\ logins' = logins + 1 /\ LoginRequest \in OutMessages
      /\ UNCHANGED <<inbuf, inpos, outpos, input_enabled, channels, dangling, g_session, g_channel_map,
                     pc, callback, sockfd, writable, nSends, consumed>>
  BY <1>0, Disconnected
<1>2. state' = state /\ ~Live'
  BY <1>1 DEF LoginWithoutSocket, LoginFails, Live
<1>3. /\ outbuf' \in Seq(OutPieces) /\ Len(outbuf') <= OutCapacity /\ OnlyLogins'
      /\ outbuf' # <<>> => outbuf'[1].part = 1 /\ outbuf'[Len(outbuf')].part = 2
      /\ registered' = {} /\ output_enabled' = FALSE
  <2>1. ASSUME UNCHANGED <<outbuf, registered, output_enabled>>
        PROVE  /\ outbuf' \in Seq(OutPieces) /\ Len(outbuf') <= OutCapacity /\ OnlyLogins'
               /\ outbuf' # <<>> => outbuf'[1].part = 1 /\ outbuf'[Len(outbuf')].part = 2
               /\ registered' = {} /\ output_enabled' = FALSE
    BY <1>1, <2>1 DEF IInv, TypeOK, OnlyLogins, OutInv
  <2>2. ASSUME NEW fd \in Fds, sgs_connection_impl_io_write(LoginRequest, fd)
        PROVE  /\ outbuf' \in Seq(OutPieces) /\ Len(outbuf') <= OutCapacity /\ OnlyLogins'
               /\ outbuf' # <<>> => outbuf'[1].part = 1 /\ outbuf'[Len(outbuf')].part = 2
               /\ registered' = {} /\ output_enabled' = FALSE
    <3>1. HasRoom /\ outbuf' = outbuf \o Pieces(LoginRequest)
      BY <2>2 DEF sgs_connection_impl_io_write
    <3>2. registered' = {} /\ output_enabled' = FALSE
      BY <1>1, <2>2 DEF sgs_connection_impl_io_write
    <3> QED BY <1>1, <3>1, <3>2, LoginWritten
  <2> QED BY <2>1, <2>2 DEF LoginWithoutSocket, LoginFails
<1>4. /\ socket_fd' \in Fds \cup {NULL} /\ net' \in [Fds -> Sockets]
      /\ \A fd \in Fds : Unused(net'[fd])
  <2>1. CASE LoginWithoutSocket
    BY <1>1, <2>1 DEF LoginWithoutSocket, IInv, TypeOK
  <2>2. ASSUME NEW fd \in Fds, LoginFails(fd)
        PROVE  /\ socket_fd' \in Fds \cup {NULL} /\ net' \in [Fds -> Sockets]
               /\ \A g \in Fds : Unused(net'[g])
    <3> DEFINE s == Socket("open", logins + 1)
    <3>1. logins + 1 \in 0 .. MaxLogins
      BY <1>1 
    <3>2. s \in Sockets /\ Unused(s)
      BY <3>1, ClosedType DEF Unused
    <3>3. socket_fd' = fd /\ net' = [net EXCEPT ![fd] = s]
      BY <2>2 DEF LoginFails
    <3> HIDE DEF s
    <3> QED BY <1>1, <3>2, <3>3 DEF IInv, TypeOK
  <2> QED BY <2>1, <2>2
<1>5. logins' \in 0 .. MaxLogins
  BY <1>1
<1>6. TypeOK'
  BY <1>1, <1>2, <1>3, <1>4, <1>5 DEF IInv, TypeOK
<1>7. OneSocket' /\ GoneInv'
  BY <1>1, <1>2, <1>3, <1>4 DEF OneSocket, GoneInv
<1>8. ServerInv' /\ ChannelsInv' /\ OutInv' /\ WorkInv'
  BY <1>1, <1>2, <1>3 DEF ServerInv, ChannelsInv, OutInv, IInv, WorkInv, InWork, Unanswered
<1>9. InterestInv'
  BY <1>1, <1>2, <1>3 DEF InterestInv
<1> QED BY <1>6, <1>7, <1>8, <1>9 DEF IInv

LEMMA LoginConnectsOrWaits ==
    ASSUME Usual, IInv, \E fd \in Fds : LoginInProgress(fd) \/ LoginConnects(fd)
    PROVE  IInv'
<1>1. PICK fd \in Fds : LoginInProgress(fd) \/ LoginConnects(fd)
  OBVIOUS
<1>2. LoginCalled
  BY <1>1 DEF LoginInProgress, LoginConnects, Connects
<1>3. /\ ~Live /\ state = "DISCONNECTED" /\ inbuf = <<>> /\ channels = {} /\ ~g_session
      /\ OnlyLogins /\ input_enabled = FALSE /\ output_enabled = FALSE /\ registered = {}
      /\ \A g \in Fds : Unused(net[g])
      /\ logins + 1 \in 1 .. MaxLogins /\ logins' = logins + 1 /\ LoginRequest \in OutMessages
      /\ UNCHANGED <<inbuf, inpos, outpos, input_enabled, channels, dangling, g_session, g_channel_map,
                     pc, callback, sockfd, writable, nSends, consumed>>
  BY <1>2, Disconnected
<1>4. PICK how \in {"connecting", "connected"} : net' = [net EXCEPT ![fd] = Socket(how, logins + 1)]
  BY <1>1 DEF LoginInProgress, LoginConnects, Connects
<1>5. /\ HasRoom /\ outbuf' = outbuf \o Pieces(LoginRequest)
      /\ socket_fd' = fd /\ state' \in {"CONNECTING", "CONNECTED"} /\ Live'
      /\ output_enabled' = TRUE /\ registered' = {<<fd, "POLLOUT">>}
  BY <1>1, <1>3 DEF LoginInProgress, LoginConnects, Connects, register_fd_cb, Live
<1>6. /\ outbuf' \in Seq(OutPieces) /\ Len(outbuf') <= OutCapacity /\ outbuf' # <<>> /\ OnlyLogins'
      /\ outbuf'[1].part = 1 /\ outbuf'[Len(outbuf')].part = 2
  BY <1>3, <1>5, LoginWritten
<1> DEFINE s == Socket(how, logins + 1)
<1>7. /\ s \in Sockets /\ s.status = how /\ s.in = <<>> /\ s.phase = "new" /\ s.joined = {} /\ ~s.full
      /\ logins + 1 \in 0 .. MaxLogins
  <2>1. logins + 1 \in 0 .. MaxLogins
    BY <1>3
  <2> QED BY <2>1, ClosedType
<1> HIDE DEF s
<1>8. net' \in [Fds -> Sockets] /\ net'[fd] = s /\ \A g \in Fds \ {fd} : net'[g] = net[g]
  BY <1>4, <1>7 DEF IInv, TypeOK, s
<1>9. TypeOK'
  BY <1>3, <1>5, <1>6, <1>7, <1>8 DEF IInv, TypeOK
<1>10. OneSocket'
  <2>1. logins + 1 > 0
    BY <1>3
  <2> QED BY <1>3, <1>5, <1>7, <1>8, <2>1 DEF OneSocket
<1>11. GoneInv'
  BY <1>2, <1>3, <1>5 DEF GoneInv, LoginCalled, At, InCallback
<1>12. Pending' = <<>>
  <2>1. <<>> \o <<>> = <<>>
    BY EmptySeq, ConcatEmptySeq
  <2> QED BY <1>3, <1>5, <1>7, <1>8, <2>1 DEF Pending
<1>13. ServerInv'
  <2>1. Paired(<<>>)
    <3>1. Len(<<>>) = 2 * 0 /\ 0 \in Nat /\ \A i \in 1 .. 0 : FALSE
      BY EmptySeq
    <3> QED BY <3>1 DEF Paired
  <2>2. (net[socket_fd])'.phase = "new" /\ (net[socket_fd])'.joined = {} /\ ~(net[socket_fd])'.full
    BY <1>5, <1>7, <1>8
  <2>3. \A i \in 1 .. Len(Pending') : FALSE
    BY <1>12, EmptySeq
  <2>4. /\ Asking(net[socket_fd])' /\ Asked(net[socket_fd])'
        /\ Coming(net[socket_fd])' /\ InSession(net[socket_fd])'
    BY <1>3, <1>6, <1>12, <2>2, <2>3 DEF Asking, Asked, Coming, InSession
  <2>5. Paired(Pending)'
    BY <1>12, <2>1 DEF Paired
  <2> QED BY <2>4, <2>5 DEF ServerInv
<1>14. ChannelsInv'
  <2>1. Applied({}, <<>>) = {}
    BY AppliedNone
  <2>2. (Applied(channels, Pending))' = Applied({}, <<>>)
    BY <1>3, <1>12 DEF Applied
  <2> QED BY <1>3, <1>5, <1>7, <1>8, <2>1, <2>2 DEF ChannelsInv
<1>15. WorkInv' /\ OutInv'
  <2>1. (net[socket_fd])'.phase = "new"
    BY <1>5, <1>7, <1>8
  <2>2. InWork => pc = "callback" /\ callback = "login_failed" /\ writable
    BY <1>2 DEF IInv, WorkInv, InWork, LoginCalled, At, InCallback
  <2> QED BY <1>3, <1>6, <2>1, <2>2 DEF IInv, WorkInv, InWork, OutInv
<1>16. InterestInv'
  BY <1>3, <1>5 DEF InterestInv
<1> QED BY <1>9, <1>10, <1>11, <1>13, <1>14, <1>15, <1>16 DEF IInv

-----------------------------------------------------------------------------
(***************************************************************************)
(* do_work up to the write: it reads, or finds that it can write.           *)
(***************************************************************************)
Statuses == {"closed", "open", "connecting", "connected", "eof", "reset", "dead"}

LEMMA MoveInEffect ==
    ASSUME IInv, Live, NEW k \in 0 .. Len(net[socket_fd].in), k <= Room,
           NEW st \in Statuses, MoveIn(k, st), socket_fd' = socket_fd
    PROVE  /\ socket_fd \in Fds /\ Pending' = Pending
           /\ inbuf' \in Seq(InPieces) /\ Len(inbuf) \in Nat /\ Len(inbuf') = Len(inbuf) + k
           /\ Len(inbuf') <= InCapacity
           /\ net' \in [Fds -> Sockets] /\ \A g \in Fds \ {socket_fd} : net'[g] = net[g]
           /\ net'[socket_fd].status = st
           /\ net'[socket_fd].phase = net[socket_fd].phase
           /\ net'[socket_fd].joined = net[socket_fd].joined
           /\ net'[socket_fd].full = net[socket_fd].full
<1> DEFINE a == inbuf
           b == net[socket_fd].in
           u == a \o SubSeq(b, 1, k)
           v == SubSeq(b, k + 1, Len(b))
<1>1. socket_fd \in Fds
  BY DEF IInv, OneSocket
<1>2. a \in Seq(InPieces) /\ b \in Seq(InPieces) /\ net[socket_fd] \in Sockets
  BY <1>1, SocketType DEF IInv, TypeOK
<1>3. inbuf' = u /\ net' = [net EXCEPT ![socket_fd].in = v, ![socket_fd].status = st]
  BY DEF MoveIn
<1>4. u \o v = a \o b /\ u \in Seq(InPieces) /\ v \in Seq(InPieces) /\ Len(u) = Len(a) + k
  BY <1>2, PendingRead
<1> HIDE DEF u, v
<1>5. Len(a) \in Nat /\ Len(u) <= InCapacity
  <2>1. Len(a) \in Nat /\ InCapacity \in Nat /\ k \in Int
    BY <1>2, LenProperties, ConnectionAssumption
  <2>2. k <= InCapacity - Len(a)
    BY DEF Room
  <2> HIDE DEF a
  <2> QED BY <1>4, <2>1, <2>2
<1>6. /\ net' \in [Fds -> Sockets] /\ \A g \in Fds \ {socket_fd} : net'[g] = net[g]
      /\ net'[socket_fd].status = st
      /\ net'[socket_fd].phase = net[socket_fd].phase
      /\ net'[socket_fd].joined = net[socket_fd].joined
      /\ net'[socket_fd].full = net[socket_fd].full
      /\ net'[socket_fd].in = v
  BY <1>1, <1>2, <1>3, <1>4 DEF IInv, TypeOK, Sockets, Statuses
<1>7. Pending' = Pending
  BY <1>3, <1>4, <1>6 DEF Pending
<1> QED BY <1>1, <1>3, <1>4, <1>5, <1>6, <1>7

LEMMA NothingWhileConnecting ==
    ASSUME IInv, Live, net[socket_fd].status = "connecting"
    PROVE  net[socket_fd].in = <<>>
<1>1. Pending = <<>>
  BY DEF IInv, ServerInv, Asked, Asking
<1>2. socket_fd \in Fds
  BY DEF IInv, OneSocket
<1> DEFINE a == inbuf
           b == net[socket_fd].in
<1>3. a \in Seq(InPieces) /\ b \in Seq(InPieces)
  BY <1>2, SocketType DEF IInv, TypeOK
<1>4. Len(a \o b) = Len(a) + Len(b) /\ a \o b = <<>>
  BY <1>1, <1>3, ConcatProperties DEF Pending
<1> HIDE DEF a, b
<1>5. Len(a) + Len(b) = 0 /\ Len(a) \in Nat /\ Len(b) \in Nat
  BY <1>3, <1>4, EmptySeq, LenProperties
<1> QED BY <1>3, <1>5, EmptySeq DEF b

MovesIn ==
    \E k \in 0 .. Len(net[socket_fd].in), st \in Statuses :
        /\ k <= Room
        /\ MoveIn(k, st)
        /\ st = net[socket_fd].status \/ st = "dead"

(* What is left of do_work's own variables when it has read or seen that it can write. *)
LEMMA WorkStep ==
    ASSUME IInv, DoWork,
           \/ /\ UNCHANGED <<inbuf, net>>
              /\ pc' = "write"
           \/ /\ MovesIn
              /\ pc' = "consume" \/ (pc' = "app" /\ Len(inbuf') < InCapacity),
           UNCHANGED <<socket_fd, state, inpos, outbuf, outpos, input_enabled, output_enabled, channels, dangling,
                       registered, g_session, g_channel_map, callback, logins, nSends, consumed>>,
           sockfd' \in Fds \cup {NULL}, writable' \in BOOLEAN,
           pc' # "app" => sockfd' = socket_fd /\ (Unanswered => writable')
    PROVE  IInv'
<1>1. Live /\ pc = "app" /\ Live' = Live
  BY DEF DoWork, At, Live
<1>2. /\ socket_fd \in Fds /\ Pending' = Pending
      /\ inbuf' \in Seq(InPieces) /\ Len(inbuf') <= InCapacity
      /\ net' \in [Fds -> Sockets] /\ \A g \in Fds \ {socket_fd} : net'[g] = net[g]
      /\ net'[socket_fd].status = net[socket_fd].status \/ net'[socket_fd].status = "dead"
      /\ net'[socket_fd].phase = net[socket_fd].phase
      /\ net'[socket_fd].joined = net[socket_fd].joined
      /\ net'[socket_fd].full = net[socket_fd].full
  <2>1. CASE UNCHANGED <<inbuf, net>>
    BY <1>1, <2>1 DEF IInv, OneSocket, TypeOK, Pending
  <2>2. CASE MovesIn
    BY <1>1, <2>2, MoveInEffect DEF MovesIn
  <2> QED BY <2>1, <2>2
<1>3. pc' \in {"app", "consume", "write"}
  OBVIOUS
<1>4. TypeOK'
  BY <1>2, <1>3 DEF IInv, TypeOK
<1>5. OneSocket'
  BY <1>1, <1>2 DEF IInv, OneSocket, Unused
<1>6. GoneInv'
  BY <1>1 DEF IInv, GoneInv
<1>7. ServerInv' /\ ChannelsInv' /\ OutInv' /\ Unanswered' = Unanswered
  BY <1>1, <1>2, ServerKept DEF IInv, ServerInv, Asked
<1>8. WorkInv'
  BY <1>1, <1>2, <1>3, <1>7 DEF IInv, WorkInv, InWork
<1>9. InterestInv'
  BY DEF IInv, InterestInv
<1> QED BY <1>4, <1>5, <1>6, <1>7, <1>8, <1>9 DEF IInv

(* A server that has not let the client in was sent no more than logins. *)
LEMMA UnansweredWritable ==
    ASSUME IInv, Unanswered, net[socket_fd].status \in {"connected", "eof", "reset", "dead"}
    PROVE  Writable(socket_fd)
<1>1. Live /\ Asking(net[socket_fd]) /\ Coming(net[socket_fd])
  BY DEF IInv, ServerInv, Unanswered
<1>2. ~net[socket_fd].full
  BY <1>1 DEF Unanswered, Asking, Coming
<1> QED BY <1>2 DEF Writable

LEMMA DoWorkStep ==
    ASSUME IInv, DoWorkReads \/ DoWorkReadStops \/ DoWorkReadFails \/ DoWorkWrites
    PROVE  IInv'
<1>0. /\ DoWork /\ Live /\ socket_fd \in Fds
      /\ net[socket_fd].status \in {"connecting", "connected", "eof", "reset", "dead"}
      /\ net[socket_fd].in \in Seq(InPieces) /\ net[socket_fd].full \in BOOLEAN
  <2>1. DoWork /\ Live /\ socket_fd \in Fds
    BY DEF DoWorkReads, DoWorkReadStops, DoWorkReadFails, DoWorkWrites, Working, DoWork, Live
  <2>2. net[socket_fd] \in Sockets /\ net[socket_fd].in \in Seq(InPieces)
    BY <2>1, SocketType DEF IInv
  <2> QED BY <2>1, <2>2 DEF IInv, OneSocket, Sockets
<1>1. ASSUME DoWorkReads PROVE IInv'
  <2>1. net[socket_fd].status \in {"connected", "eof", "reset", "dead"}
    BY <1>0, <1>1, NothingWhileConnecting DEF DoWorkReads, Readable
  <2>2. MovesIn
    BY <1>0, <1>1 DEF DoWorkReads, MovesIn, Statuses
  <2>3. /\ UNCHANGED <<socket_fd, state, inpos, outbuf, outpos, input_enabled, output_enabled, channels, dangling,
                       registered, g_session, g_channel_map, callback, logins, nSends, consumed>>
        /\ pc' = "consume" /\ sockfd' = socket_fd /\ writable' = Writable(socket_fd)
    BY <1>1 DEF DoWorkReads, Working, appVars
  <2>4. sockfd' \in Fds \cup {NULL} /\ writable' \in BOOLEAN
    BY <1>0, <2>3 DEF Writable
  <2> QED BY <1>0, <2>1, <2>2, <2>3, <2>4, UnansweredWritable, WorkStep
<1>2. ASSUME DoWorkReadStops PROVE IInv'
  <2> DEFINE k == writable_len
             st == IF k = Len(net[socket_fd].in) /\ net[socket_fd].status = "reset" THEN "dead"
                   ELSE net[socket_fd].status
  <2>1. 0 < k /\ k < Room /\ k <= Len(net[socket_fd].in) /\ MoveIn(k, st)
    BY <1>2 DEF DoWorkReadStops
  <2>2. /\ Len(inbuf) \in Nat /\ InCapacity \in Nat /\ Len(net[socket_fd].in) \in Nat
        /\ inpos \in Nat
    BY <1>0, LenProperties, ConnectionAssumption DEF IInv, TypeOK
  <2>3. k \in 0 .. Len(net[socket_fd].in) /\ k <= Room
    BY <2>1, <2>2 DEF writable_len, Room
  <2>4. st \in Statuses /\ (st = net[socket_fd].status \/ st = "dead")
    BY <1>0 DEF Statuses
  <2> HIDE DEF k, st
  <2>5. UNCHANGED <<socket_fd, state, inpos, outbuf, outpos, input_enabled, output_enabled, channels, dangling,
                    registered, g_session, g_channel_map, pc, callback, sockfd, writable,
                    logins, nSends, consumed>>
    BY <1>2 DEF DoWorkReadStops, appVars, workVars
  <2>6. Len(inbuf') = Len(inbuf) + k
    BY <1>0, <2>1, <2>3, <2>4, <2>5, MoveInEffect
  <2>7. Len(inbuf') < InCapacity
    BY <2>1, <2>2, <2>3, <2>6 DEF Room
  <2>8. pc' = "app" /\ sockfd' \in Fds \cup {NULL} /\ writable' \in BOOLEAN
    BY <1>0, <2>5 DEF DoWork, At, IInv, TypeOK
  <2>9. MovesIn
    BY <2>1, <2>3, <2>4 DEF MovesIn
  <2> QED BY <1>0, <2>5, <2>7, <2>8, <2>9, WorkStep
<1>3. ASSUME DoWorkReadFails PROVE IInv'
  <2>1. net' = [net EXCEPT ![socket_fd].status = "dead"] /\ UNCHANGED <<connVars, Others>>
    BY <1>3 DEF DoWorkReadFails, Others
  <2>2. net' = [net EXCEPT ![socket_fd].status = "dead", ![socket_fd].full = net[socket_fd].full]
    BY <1>0, <2>1, StatusOnly DEF IInv
  <2> QED BY <1>0, <1>3, <2>1, <2>2, StatusStep
<1>4. ASSUME DoWorkWrites PROVE IInv'
  <2>1. /\ UNCHANGED <<socket_fd, state, inpos, outbuf, outpos, input_enabled, output_enabled, channels, dangling,
                       registered, g_session, g_channel_map, callback, logins, nSends, consumed>>
        /\ UNCHANGED <<inbuf, net>> /\ pc' = "write" /\ sockfd' = socket_fd
        /\ writable' = Writable(socket_fd) /\ Writable(socket_fd)
    BY <1>4 DEF DoWorkWrites, Working, appVars
  <2>2. writable' = TRUE
    BY <2>1 DEF Writable
  <2> QED BY <1>0, <2>1, <2>2, WorkStep
<1> QED BY <1>1, <1>2, <1>3, <1>4

-----------------------------------------------------------------------------
(***************************************************************************)
(* consume_data: one message is taken out of inbuf, and handed up or not.   *)
(***************************************************************************)
LEMMA TakeStep ==
    ASSUME IInv, At("consume"), Whole, TakeOne,
           channels' = After(channels, Message),
           g_session' = (g_session \/ Message.op = "LOGIN_SUCCESS"),
           g_channel_map' \subseteq Channels, g_session => channels' \subseteq g_channel_map',
           pc' \in {"app", "consume", "callback"},
           callback' \in {NULL, "logged_in", "recv_message", "reconnected", "channel_joined",
                          "channel_recv_msg", callback},
           pc' = "callback" => callback' # "login_failed",
           pc' # "app" => UNCHANGED <<sockfd, writable>>,
           pc' = "app" => sockfd' = NULL /\ writable' = FALSE
    PROVE  IInv'
<1>1. /\ Live /\ socket_fd \in Fds
      /\ Pending \in Seq(InPieces) /\ Len(Pending) >= 2
      /\ Pending[1] = inbuf[1] /\ Pending[2] = inbuf[2]
      /\ Message \in InMessages
      /\ Pending[1] = [msg |-> Message, part |-> 1] /\ Pending[2] = [msg |-> Message, part |-> 2]
  BY Consuming
<1>2. /\ UNCHANGED <<socket_fd, state, outbuf, outpos, input_enabled, output_enabled, dangling,
                     registered, net, logins, nSends>>
      /\ Live' = Live /\ inbuf' = Rest(inbuf) /\ consumed' = Message.no
      /\ inpos' = Advance(inpos, 2, InCapacity)
  BY DEF TakeOne, Live, Rest
<1>3. /\ inbuf \in Seq(InPieces) /\ Len(inbuf) >= 2 /\ Len(inbuf) <= InCapacity
      /\ net[socket_fd].in \in Seq(InPieces) /\ Len(inbuf) \in Nat
  BY <1>1, SocketType, LenProperties DEF IInv, TypeOK, Whole
<1>4. inbuf' \in Seq(InPieces) /\ Len(inbuf') = Len(inbuf) - 2
  BY <1>2, <1>3, RestProperties
<1>5. Pending' = Rest(Pending)
  BY <1>2, <1>3, PendingTaken DEF Pending
<1>6. /\ Paired(Pending') /\ Len(Pending') = Len(Pending) - 2
      /\ \A i \in 1 .. Len(Pending) - 2 : Pending'[i] = Pending[i + 2]
  BY <1>1, <1>5, PairedRest, RestProperties DEF IInv, ServerInv
<1>7. Len(Pending) \in Nat /\ Pending # <<>> /\ 1 \in 1 .. Len(Pending)
  BY <1>1, NonEmpty, LenProperties
<1>8. /\ Message.op = "LOGIN_SUCCESS" =>
             /\ net[socket_fd].phase = "in" /\ ~g_session /\ channels = {} /\ OnlyLogins
      /\ net[socket_fd].phase \notin {"new", "asked"}
  BY <1>1, <1>7 DEF IInv, ServerInv, Coming, Asking
<1>9. channels' \subseteq Channels /\ consumed' \in 0 .. MaxServer
  <2>1. channels \subseteq Channels /\ Message.no \in 1 .. MaxServer
    BY <1>1, MessageTypes DEF IInv, TypeOK
  <2>2. Message.op = "CHANNEL_JOIN" => Message.channel \in Channels
    BY <1>1, MessageTypes
  <2>3. MaxServer \in Nat
    BY ConnectionAssumption
  <2> QED BY <1>2, <2>1, <2>2, <2>3 DEF After
<1>10. sockfd \in Fds /\ pc = "consume" /\ InWork /\ ~dangling
  BY DEF At, IInv, WorkInv, InWork
<1>11. g_session' \in BOOLEAN /\ sockfd' \in Fds \cup {NULL} /\ writable' \in BOOLEAN
  BY <1>10 DEF IInv, TypeOK
<1>12. TypeOK'
  <2>1. Len(inbuf') <= InCapacity
    BY <1>3, <1>4, ConnectionAssumption
  <2>2. callback' \in {NULL, "logged_in", "login_failed", "disconnected", "recv_message",
                       "reconnected", "channel_joined", "channel_recv_msg"}
    BY DEF IInv, TypeOK
  <2>3. inpos' \in 0 .. InCapacity - 1
    <3>1. InCapacity \in Nat \ {0} /\ inpos \in Nat
      BY ConnectionAssumption DEF IInv, TypeOK
    <3> QED BY <1>2, <3>1, AdvanceType
  <2> QED BY <1>2, <1>4, <1>9, <1>11, <2>1, <2>2, <2>3 DEF IInv, TypeOK
<1>13. OneSocket'
  BY <1>2 DEF IInv, OneSocket
<1>14. GoneInv'
  BY <1>1, <1>2 DEF IInv, GoneInv
<1>15. OnlyLogins' = OnlyLogins /\ NoLogouts' = NoLogouts
  BY <1>2 DEF OnlyLogins, NoLogouts
<1>16. OnlyLogins => NoLogouts
  BY DEF OnlyLogins, NoLogouts
<1>17. ServerInv'
  <2>1. (net[socket_fd])' = net[socket_fd]
    BY <1>2
  <2>2. Asking(net[socket_fd])' /\ Asked(net[socket_fd])'
    BY <1>1, <1>2, <1>8 DEF IInv, ServerInv, Asking, Asked
  <2>3. g_session' => net[socket_fd].phase = "in" /\ NoLogouts'
    BY <1>1, <1>8, <1>15, <1>16 DEF IInv, ServerInv, InSession
  <2>4. ASSUME NEW i \in 1 .. Len(Pending')
        PROVE  /\ Pending'[i].msg.op # "LOGIN_SUCCESS"
               /\ Pending'[i].msg.op \in {"LOGIN_FAILURE", "LOGIN_REDIRECT", "LOGOUT_SUCCESS"} =>
                      net[socket_fd].phase = "out"
               /\ Pending'[i].msg.op \in {"LOGIN_FAILURE", "LOGIN_REDIRECT"} =>
                      OnlyLogins' /\ ~net[socket_fd].full
    <3>1. i + 2 \in 1 .. Len(Pending) /\ ~(i + 2 <= 2) /\ Pending'[i] = Pending[i + 2]
      BY <1>6, <1>7
    <3> QED BY <1>1, <1>15, <3>1 DEF IInv, ServerInv, Coming
  <2>5. Coming(net[socket_fd])'
    BY <2>1, <2>4 DEF Coming
  <2>6. InSession(net[socket_fd])' /\ Paired(Pending)'
    BY <1>6, <2>1, <2>3 DEF InSession, Paired
  <2> QED BY <2>2, <2>5, <2>6 DEF ServerInv
<1>18. ChannelsInv'
  <2>1. channels \in SUBSET Channels
    BY DEF IInv, TypeOK
  <2>2. Applied(channels, Pending) = Applied(After(channels, Message), Rest(Pending))
    BY <1>1, <2>1, AppliedRest
  <2>3. (Applied(channels, Pending))' = Applied(channels', Pending')
    BY DEF Applied
  <2>4. g_session' => channels' \subseteq g_channel_map'
    BY <1>8 DEF After
  <2> QED BY <1>1, <1>2, <1>5, <2>2, <2>3, <2>4 DEF IInv, ChannelsInv
<1>19. WorkInv' /\ OutInv'
  <2>1. Len(inbuf') < InCapacity
    BY <1>3, <1>4, ConnectionAssumption
  <2>2. (net[socket_fd])' = net[socket_fd]
    BY <1>2
  <2>3. ASSUME Unanswered' PROVE Unanswered
    <3>1. CASE net[socket_fd].phase \in {"new", "asked"}
      BY <1>8, <3>1
    <3>2. ASSUME NEW i \in 1 .. Len(Pending'), Pending'[i].msg.op \in {"LOGIN_FAILURE", "LOGIN_REDIRECT"}
          PROVE  Unanswered
      <4>1. i + 2 \in 1 .. Len(Pending) /\ Pending'[i] = Pending[i + 2]
        BY <1>6, <1>7
      <4> QED BY <1>1, <3>2, <4>1 DEF Unanswered
    <3> QED BY <2>2, <2>3, <3>1, <3>2 DEF Unanswered
  <2>4. OutInv'
    BY <1>2, <2>2 DEF IInv, OutInv
  <2>5. InWork' => pc' # "app"
    BY DEF InWork
  <2> QED BY <1>2, <1>10, <2>1, <2>2, <2>3, <2>4, <2>5 DEF IInv, WorkInv, InWork
<1>20. InterestInv'
  BY <1>2 DEF IInv, InterestInv
<1> QED BY <1>12, <1>13, <1>14, <1>17, <1>18, <1>19, <1>20 DEF IInv

LEMMA ConsumeStep ==
    ASSUME IInv, LoginSuccess \/ SessionMessage \/ ChannelJoin \/ ChannelLeave \/ ChannelMessage
                     \/ ReceiveFails
    PROVE  IInv'
<1>0. At("consume") /\ Whole /\ TakeOne
  BY DEF LoginSuccess, SessionMessage, ChannelJoin, ChannelLeave, ChannelMessage, ReceiveFails, Consume
<1>1. /\ g_channel_map \subseteq Channels /\ g_session \in BOOLEAN /\ pc = "consume"
      /\ g_session => channels \subseteq g_channel_map
      /\ Message.op \in {"CHANNEL_JOIN", "CHANNEL_LEAVE", "CHANNEL_MESSAGE"} => Message.channel \in Channels
  BY <1>0, Consuming, MessageTypes DEF IInv, TypeOK, ChannelsInv, At
<1>2. CASE LoginSuccess
  BY <1>0, <1>1, <1>2, TakeStep DEF LoginSuccess, Consume, logged_in_cb, Calls, After
<1>3. CASE SessionMessage
  BY <1>0, <1>1, <1>3, TakeStep DEF SessionMessage, Consume, Calls, After, appVars
<1>4. CASE ChannelJoin
  BY <1>0, <1>1, <1>4, TakeStep DEF ChannelJoin, Consume, Calls, After, channel_joined_cb, sgs_map_put
<1>5. CASE ChannelLeave
  BY <1>0, <1>1, <1>5, TakeStep DEF ChannelLeave, Consume, Goto, After, channel_left_cb, sgs_map_remove
<1>6. CASE ChannelMessage
  BY <1>0, <1>1, <1>6, TakeStep DEF ChannelMessage, Consume, Calls, After, appVars
<1>7. CASE ReceiveFails
  BY <1>0, <1>1, <1>7, TakeStep DEF ReceiveFails, Consume, Returns, After, appVars, sgs_map_contains
<1> QED BY <1>2, <1>3, <1>4, <1>5, <1>6, <1>7

-----------------------------------------------------------------------------
(***************************************************************************)
(* The steps that move the thread, and take a connecting connection for     *)
(* connected.                                                               *)
(***************************************************************************)
LEMMA MoveStep ==
    ASSUME IInv,
           state' = state \/ (state = "CONNECTING" /\ state' = "CONNECTED"),
           UNCHANGED <<socket_fd, inbuf, inpos, outbuf, outpos, input_enabled, output_enabled,
                       channels, dangling, registered, appVars, net, logins, nSends, consumed>>,
           pc' \in {"app", "consume", "write", "interest"},
           callback' \in {NULL, callback},
           pc' = "app" => sockfd' = NULL /\ writable' = FALSE,
           pc' # "app" => InWork /\ UNCHANGED <<sockfd, writable>>,
           pc' = "interest" /\ Live => sockfd = socket_fd,
           pc' # "consume" => Len(inbuf) < InCapacity
    PROVE  IInv'
<1>1. /\ UNCHANGED <<socket_fd, inbuf, inpos, outbuf, outpos, input_enabled, output_enabled,
                     channels, dangling, registered, g_session, g_channel_map, net, logins, nSends, consumed>>
      /\ Live' = Live /\ Pending' = Pending
      /\ state' \in {"DISCONNECTED", "CONNECTING", "CONNECTED"}
  BY DEF appVars, Live, Pending, IInv, TypeOK
<1>2. sockfd' \in Fds \cup {NULL} /\ writable' \in BOOLEAN
  BY DEF IInv, TypeOK
<1>3. callback' \in {NULL, "logged_in", "login_failed", "disconnected", "recv_message",
                     "reconnected", "channel_joined", "channel_recv_msg"}
  BY DEF IInv, TypeOK
<1>4. TypeOK'
  BY <1>1, <1>2, <1>3 DEF IInv, TypeOK
<1>5. OnlyLogins' = OnlyLogins /\ NoLogouts' = NoLogouts
  BY <1>1 DEF OnlyLogins, NoLogouts
<1>6. OneSocket' /\ GoneInv'
  BY <1>1, <1>5 DEF IInv, OneSocket, GoneInv
<1>7. ServerInv'
  <2> SUFFICES ASSUME Live PROVE ServerInv'
    BY <1>1 DEF ServerInv
  <2>1. (net[socket_fd])' = net[socket_fd]
    BY <1>1
  <2>2. Asked(net[socket_fd])'
    BY <1>1, <2>1 DEF IInv, ServerInv, Asked
  <2>3. Asking(net[socket_fd])' /\ InSession(net[socket_fd])'
    BY <1>1, <1>5, <2>1 DEF IInv, ServerInv, Asking, InSession
  <2>4. Coming(net[socket_fd])'
    BY <1>1, <1>5, <2>1 DEF IInv, ServerInv, Coming
  <2> QED BY <1>1, <2>2, <2>3, <2>4 DEF IInv, ServerInv, Paired
<1>8. ChannelsInv'
  BY <1>1 DEF IInv, ChannelsInv, Applied
<1>9. WorkInv' /\ OutInv'
  <2>1. (net[socket_fd])' = net[socket_fd]
    BY <1>1
  <2>2. Unanswered' = Unanswered
    BY <1>1, <2>1 DEF Unanswered
  <2>3. OutInv'
    BY <1>1, <2>1 DEF IInv, OutInv
  <2> QED BY <1>1, <2>1, <2>2, <2>3 DEF IInv, WorkInv, InWork
<1>10. InterestInv'
  BY <1>1 DEF IInv, InterestInv
<1> QED BY <1>4, <1>6, <1>7, <1>8, <1>9, <1>10 DEF IInv

(* At the write, a connection made since is of another socket, and has a login to send. *)
LEMMA Writing ==
    ASSUME IInv, At("write")
    PROVE  /\ pc = "write" /\ sockfd \in Fds /\ InWork /\ Len(inbuf) < InCapacity
           /\ write_state = state \/ (state = "CONNECTING" /\ write_state = "CONNECTED")
           /\ Live /\ (outbuf = <<>> \/ ~writable) => sockfd = socket_fd
           /\ net[sockfd].status \notin {"closed", "open"} => Live /\ sockfd = socket_fd
<1>1. pc = "write" /\ InWork
  BY DEF At, InWork
<1>2. sockfd \in Fds /\ Len(inbuf) < InCapacity
  BY <1>1 DEF IInv, WorkInv, TypeOK
<1>3. Live /\ (outbuf = <<>> \/ ~writable) => sockfd = socket_fd
  BY <1>1 DEF IInv, WorkInv, ServerInv, Asked, Unanswered
<1>4. net[sockfd].status \notin {"closed", "open"} => Live /\ sockfd = socket_fd
  BY <1>2 DEF IInv, OneSocket, Unused
<1> QED BY <1>1, <1>2, <1>3, <1>4 DEF write_state

(* What the server was sent, and what still waits for it. *)
LEMMA WrittenOut ==
    ASSUME IInv, NEW k \in 1 .. Len(outbuf), outbuf' = SubSeq(outbuf, k + 1, Len(outbuf))
    PROVE  LET ps == SubSeq(outbuf, 1, k) IN
           /\ outbuf' \in Seq(OutPieces) /\ Len(outbuf') <= OutCapacity
           /\ OnlyLogins => OnlyLogins'
           /\ NoLogouts => NoLogouts'
           /\ outbuf' # <<>> => outbuf'[Len(outbuf')] = outbuf[Len(outbuf)]
           /\ \A i \in DOMAIN ps : \E j \in 1 .. Len(outbuf) : ps[i] = outbuf[j]
           /\ k = Len(outbuf) => \E i \in DOMAIN ps : ps[i] = outbuf[Len(outbuf)]
<1> DEFINE ps == SubSeq(outbuf, 1, k)
           rs == SubSeq(outbuf, k + 1, Len(outbuf))
<1>1. outbuf \in Seq(OutPieces) /\ Len(outbuf) \in Nat /\ Len(outbuf) <= OutCapacity
  BY LenProperties DEF IInv, TypeOK
<1>2. \A i \in 1 .. Len(outbuf) : outbuf[i] \in OutPieces
  BY <1>1, ElementOfSeq
<1>3. DOMAIN ps = 1 .. k /\ \A i \in 1 .. k : ps[i] = outbuf[i]
  <2>1. \A i \in 1 .. k : outbuf[i] \in OutPieces
    BY <1>1, <1>2
  <2>2. /\ ps \in Seq(OutPieces) /\ Len(ps) = IF 1 <= k THEN k - 1 + 1 ELSE 0
        /\ \A i \in 1 .. k - 1 + 1 : ps[i] = outbuf[1 + i - 1]
    BY <1>1, <2>1, SubSeqProperties
  <2> HIDE DEF ps
  <2>3. Len(ps) = k /\ DOMAIN ps = 1 .. Len(ps) /\ \A i \in 1 .. k : ps[i] = outbuf[i]
    BY <2>2, LenProperties
  <2> QED BY <2>3
<1>4. /\ rs \in Seq(OutPieces) /\ Len(rs) = Len(outbuf) - k
      /\ \A i \in 1 .. Len(outbuf) - k : rs[i] = outbuf[k + i]
  <2>1. \A i \in k + 1 .. Len(outbuf) : outbuf[i] \in OutPieces
    BY <1>1, <1>2
  <2>2. k + 1 \in Int /\ Len(outbuf) \in Int
    BY <1>1
  <2>3. /\ rs \in Seq(OutPieces)
        /\ Len(rs) = IF k + 1 <= Len(outbuf) THEN Len(outbuf) - (k + 1) + 1 ELSE 0
        /\ \A i \in 1 .. Len(outbuf) - (k + 1) + 1 : rs[i] = outbuf[k + 1 + i - 1]
    BY <2>1, <2>2, SubSeqProperties
  <2> HIDE DEF rs
  <2>4. CASE k + 1 <= Len(outbuf)
    BY <1>1, <2>3, <2>4
  <2>5. CASE k = Len(outbuf)
    BY <1>1, <2>3, <2>5
  <2> QED BY <1>1, <2>4, <2>5
<1> HIDE DEF ps, rs
<1>5. outbuf' = rs
  BY DEF rs
<1>6. Len(rs) <= OutCapacity
  BY <1>1, <1>4, ConnectionAssumption
<1>7. ASSUME NEW i \in 1 .. Len(rs) PROVE \E j \in 1 .. Len(outbuf) : rs[i] = outbuf[j]
  <2>1. i \in 1 .. Len(outbuf) - k /\ k + i \in 1 .. Len(outbuf)
    BY <1>1, <1>4
  <2> QED BY <1>4, <2>1
<1>8. rs # <<>> => rs[Len(rs)] = outbuf[Len(outbuf)]
  <2> SUFFICES ASSUME rs # <<>> PROVE rs[Len(rs)] = outbuf[Len(outbuf)]
    OBVIOUS
  <2>1. Len(rs) > 0
    BY <1>1, <1>4, EmptySeq
  <2>2. Len(rs) \in 1 .. Len(outbuf) - k /\ k + Len(rs) = Len(outbuf)
    BY <1>1, <1>4, <2>1
  <2> QED BY <1>4, <2>2
<1>9. \A i \in DOMAIN ps : \E j \in 1 .. Len(outbuf) : ps[i] = outbuf[j]
  <2>1. \A i \in 1 .. k : i \in 1 .. Len(outbuf)
    BY <1>1
  <2> QED BY <1>3, <2>1
<1>10. k = Len(outbuf) => \E i \in DOMAIN ps : ps[i] = outbuf[Len(outbuf)]
  <2>1. k \in 1 .. k
    BY <1>1
  <2> QED BY <1>3, <2>1
<1>11. (OnlyLogins => OnlyLogins') /\ (NoLogouts => NoLogouts')
  BY <1>5, <1>7 DEF OnlyLogins, NoLogouts
<1> QED BY <1>4, <1>5, <1>6, <1>8, <1>9, <1>10, <1>11 DEF ps

(* How far the server gets with what it reads. *)
LEMMA ServerProgress ==
    ASSUME IInv, Live, outbuf # <<>>, NEW ps,
           \A i \in DOMAIN ps : \E j \in 1 .. Len(outbuf) : ps[i] = outbuf[j],
           OnlyLogins => \E i \in DOMAIN ps : ps[i] = outbuf[Len(outbuf)]
    PROVE  LET p == net[socket_fd].phase
               q == ServerReads(p, ps) IN
           /\ q \in {"asked", "in", "logout", "out"}
           /\ q = "asked" => p \in {"new", "asked"}
           /\ p = "out" <=> q = "out"
           /\ q = "in" => p = "in"
           /\ p = "in" /\ NoLogouts => q = "in"
<1> DEFINE p == net[socket_fd].phase
           q == ServerReads(p, ps)
<1>1. socket_fd \in Fds
  BY DEF IInv, OneSocket
<1>2. p \in {"new", "asked", "in", "logout", "out"}
  BY <1>1, SocketType DEF IInv, Sockets
<1>3. p = "new" => OnlyLogins
  BY DEF IInv, ServerInv, Asking
<1>4. Len(outbuf) \in 1 .. Len(outbuf) /\ outbuf[Len(outbuf)].part = 2
  <2>1. Len(outbuf) \in Nat /\ Len(outbuf) # 0
    BY LenProperties, EmptySeq DEF IInv, TypeOK
  <2> QED BY <2>1 DEF IInv, OutInv
<1>5. p = "new" => q = "asked"
  BY <1>3, <1>4 DEF ServerReads, Says, OnlyLogins
<1>6. NoLogouts => ~Says(ps, "LOGOUT_REQUEST")
  BY DEF NoLogouts, Says
<1> HIDE DEF p
<1>7. p # "new" => \/ q = p
                   \/ p = "in" /\ q = "logout" /\ ~NoLogouts
  BY <1>6 DEF ServerReads
<1> HIDE DEF q
<1> QED BY <1>2, <1>5, <1>7 DEF p, q

(* Something was sent, whether do_work goes on after that or not. *)
LEMMA SentStep ==
    ASSUME IInv, At("write"), writable, outbuf # <<>>, net[sockfd].status \in {"connected", "eof"},
           NEW k \in 1 .. Len(outbuf), NEW full \in BOOLEAN, k < Len(outbuf) => full, Sent(k, full),
           state' = write_state,
           UNCHANGED <<socket_fd, inbuf, inpos, input_enabled, output_enabled, channels, dangling,
                       registered, appVars, logins, nSends, consumed>>,
           (pc' = "interest" /\ UNCHANGED <<callback, sockfd, writable>>) \/ Returns
    PROVE  IInv'
<1>1. /\ pc = "write" /\ sockfd \in Fds /\ InWork /\ Len(inbuf) < InCapacity
      /\ Live /\ sockfd = socket_fd
  BY Writing
<1>2. /\ UNCHANGED <<socket_fd, inbuf, inpos, input_enabled, output_enabled, channels, dangling,
                     registered, g_session, g_channel_map, logins, nSends, consumed>>
      /\ \/ pc' = "interest" /\ UNCHANGED <<callback, sockfd, writable>>
         \/ pc' = "app" /\ callback' = NULL /\ sockfd' = NULL /\ writable' = FALSE
  BY DEF appVars, Returns
<1> DEFINE ps == SubSeq(outbuf, 1, k)
           p == net[socket_fd].phase
           q == ServerReads(p, ps)
<1>3. /\ outbuf' = SubSeq(outbuf, k + 1, Len(outbuf))
      /\ outpos' = Advance(outpos, k, OutCapacity)
      /\ net' = [net EXCEPT ![socket_fd].phase = q, ![socket_fd].full = full]
      /\ full => ~OnlyLogins
  BY <1>1 DEF Sent
<1>4. Len(outbuf) \in Nat
  BY LenProperties DEF IInv, TypeOK
<1>5. OnlyLogins => k = Len(outbuf) /\ ~full
  BY <1>3, <1>4
<1>6. /\ outbuf' \in Seq(OutPieces) /\ Len(outbuf') <= OutCapacity
      /\ OnlyLogins => OnlyLogins'
      /\ NoLogouts => NoLogouts'
      /\ outbuf' # <<>> => outbuf'[Len(outbuf')] = outbuf[Len(outbuf)]
      /\ \A i \in DOMAIN ps : \E j \in 1 .. Len(outbuf) : ps[i] = outbuf[j]
      /\ k = Len(outbuf) => \E i \in DOMAIN ps : ps[i] = outbuf[Len(outbuf)]
  BY <1>3, WrittenOut
<1> HIDE DEF ps
<1>7. /\ q \in {"asked", "in", "logout", "out"}
      /\ q = "asked" => p \in {"new", "asked"}
      /\ p = "out" <=> q = "out"
      /\ q = "in" => p = "in"
      /\ p = "in" /\ NoLogouts => q = "in"
  BY <1>1, <1>5, <1>6, ServerProgress
<1> HIDE DEF q
<1>8. socket_fd \in Fds /\ net[socket_fd] \in Sockets
  BY <1>1, SocketType DEF IInv, OneSocket
<1>9. /\ net' \in [Fds -> Sockets] /\ \A g \in Fds \ {socket_fd} : net'[g] = net[g]
      /\ net'[socket_fd].status = net[socket_fd].status
      /\ net'[socket_fd].phase = q
      /\ net'[socket_fd].full = full
      /\ net'[socket_fd].joined = net[socket_fd].joined
      /\ net'[socket_fd].in = net[socket_fd].in
  BY <1>3, <1>7, <1>8 DEF IInv, TypeOK, Sockets
<1>10. Live' = Live /\ Pending' = Pending /\ state' = "CONNECTED"
  BY <1>1, <1>2, <1>9 DEF Live, Pending, IInv, TypeOK, write_state
<1>11. TypeOK'
  <2>1. outpos' \in 0 .. OutCapacity - 1
    <3>1. OutCapacity \in Nat \ {0} /\ outpos \in Nat /\ k \in Nat
      BY <1>4, ConnectionAssumption DEF IInv, TypeOK
    <3> QED BY <1>3, <3>1, AdvanceType
  <2>2. pc' \in {"app", "interest"} /\ callback' \in {NULL, callback} /\ sockfd' \in {NULL, sockfd}
        /\ writable' \in BOOLEAN
    BY <1>2
  <2> QED BY <1>2, <1>6, <1>9, <1>10, <2>1, <2>2 DEF IInv, TypeOK
<1>12. OneSocket'
  BY <1>1, <1>2, <1>9, <1>10 DEF IInv, OneSocket, Unused
<1>13. GoneInv'
  BY <1>1, <1>2, <1>10 DEF IInv, GoneInv
<1>14. /\ (net[socket_fd])'.phase = q /\ (net[socket_fd])'.joined = net[socket_fd].joined
       /\ (net[socket_fd])'.status = net[socket_fd].status /\ (net[socket_fd])'.full = full
  BY <1>2, <1>9
<1>15. ServerInv'
  <2>1. Paired(Pending) /\ Asking(net[socket_fd]) /\ Coming(net[socket_fd]) /\ InSession(net[socket_fd])
    BY <1>1 DEF IInv, ServerInv
  <2>2. Asking(net[socket_fd])'
    BY <1>2, <1>5, <1>6, <1>7, <1>10, <1>14, <2>1 DEF Asking, p
  <2>3. Asked(net[socket_fd])'
    BY <1>1, <1>7, <1>10, <1>14 DEF Asked
  <2>4. OnlyLogins => NoLogouts
    BY DEF OnlyLogins, NoLogouts
  <2>5. Coming(net[socket_fd])'
    BY <1>2, <1>5, <1>6, <1>7, <1>10, <1>14, <2>1, <2>4 DEF Coming, p
  <2>6. InSession(net[socket_fd])'
    BY <1>2, <1>6, <1>7, <1>14, <2>1 DEF InSession, p
  <2>7. Paired(Pending)'
    BY <1>10, <2>1 DEF Paired
  <2> QED BY <2>2, <2>3, <2>5, <2>6, <2>7 DEF ServerInv
<1>16. ChannelsInv'
  BY <1>1, <1>2, <1>9, <1>10 DEF IInv, ChannelsInv, Applied
<1>17. OutInv'
  BY <1>1, <1>6, <1>7, <1>10, <1>14 DEF IInv, OutInv
<1>18. WorkInv'
  BY <1>1, <1>2 DEF IInv, WorkInv, InWork
<1>19. InterestInv'
  <2>1. output_enabled
    BY <1>1 DEF IInv, InterestInv, Live, TypeOK
  <2> QED BY <1>2, <1>10, <2>1 DEF IInv, InterestInv
<1> QED BY <1>11, <1>12, <1>13, <1>15, <1>16, <1>17, <1>18, <1>19 DEF IInv

LEMMA WriteOutStep ==
    ASSUME IInv, WriteOut
    PROVE  IInv'
<1>1. At("write") /\ state' = write_state
  BY DEF WriteOut
<1>2. /\ UNCHANGED <<socket_fd, inbuf, inpos, input_enabled, output_enabled, channels, dangling,
                     registered, appVars, callback, sockfd, writable, logins, nSends, consumed>>
      /\ pc' = "interest"
  BY DEF WriteOut, Goto
<1>3. CASE writable /\ outbuf # <<>>
  <2>1. PICK k \in 1 .. Len(outbuf), full \in BOOLEAN : (k < Len(outbuf) => full) /\ Sent(k, full)
    BY <1>3 DEF WriteOut
  <2>2. net[sockfd].status \in {"connected", "eof"}
    BY <1>3 DEF WriteOut
  <2> QED BY <1>1, <1>2, <1>3, <2>1, <2>2, SentStep
<1>4. CASE ~(writable /\ outbuf # <<>>)
  <2>1. UNCHANGED <<outbuf, outpos, net>>
    BY <1>4 DEF WriteOut
  <2>2. /\ InWork /\ Len(inbuf) < InCapacity /\ (Live => sockfd = socket_fd)
        /\ write_state = state \/ (state = "CONNECTING" /\ write_state = "CONNECTED")
    BY <1>1, <1>4, Writing
  <2> QED BY <1>1, <1>2, <2>1, <2>2, MoveStep
<1> QED BY <1>3, <1>4

LEMMA WriteFailsStep ==
    ASSUME IInv, WriteFails
    PROVE  IInv'
<1>1. /\ At("write") /\ writable /\ outbuf # <<>> /\ state' = write_state /\ Returns
      /\ UNCHANGED <<socket_fd, inbuf, inpos, input_enabled, output_enabled, channels, dangling,
                     registered, appVars, logins, nSends, consumed>>
  BY DEF WriteFails
<1>2. CASE UNCHANGED <<outbuf, outpos, net>>
  <2>1. /\ Len(inbuf) < InCapacity
        /\ write_state = state \/ (state = "CONNECTING" /\ write_state = "CONNECTED")
    BY <1>1, Writing
  <2> QED BY <1>1, <1>2, <2>1, MoveStep DEF Returns
<1>3. CASE /\ net[sockfd].status \in {"connected", "eof"}
           /\ readable_len < Len(outbuf)
           /\ Sent(readable_len, TRUE)
  <2> DEFINE k == readable_len
  <2>1. k \in 1 .. Len(outbuf)
    <3>1. Len(outbuf) \in Nat /\ outpos \in 0 .. OutCapacity - 1 /\ OutCapacity \in Nat
      BY LenProperties, ConnectionAssumption DEF IInv, TypeOK
    <3> QED BY <1>3, <3>1 DEF readable_len
  <2> HIDE DEF k
  <2>2. Sent(k, TRUE)
    BY <1>3 DEF k
  <2> QED BY <1>1, <1>3, <2>1, <2>2, SentStep
<1> QED BY <1>2, <1>3 DEF WriteFails

LEMMA InterestStep ==
    ASSUME IInv, Interest
    PROVE  IInv'
<1>1. /\ UNCHANGED <<socket_fd, state, inbuf, inpos, outbuf, outpos, channels, dangling, g_session, g_channel_map,
                     net, logins, nSends, consumed>>
      /\ pc' = "app" /\ callback' = NULL /\ sockfd' = NULL /\ writable' = FALSE
      /\ pc = "interest" /\ InWork
      /\ Live' = Live /\ Pending' = Pending
  BY DEF Interest, Returns, appVars, At, InWork, Live, Pending
<1>2. Len(inbuf) < InCapacity /\ sockfd \in Fds
  BY <1>1 DEF IInv, WorkInv
<1>3. Room > 0
  BY <1>2, LenProperties, ConnectionAssumption DEF Room, IInv, TypeOK
<1>4. InterestInv' /\ registered' \subseteq Fds \X {"POLLIN", "POLLOUT"}
      /\ input_enabled' \in BOOLEAN /\ output_enabled' \in BOOLEAN
  <2>1. CASE state = "CONNECTED"
    <3>1. sockfd = socket_fd
      BY <1>1, <2>1 DEF IInv, WorkInv, Live
    <3>2. /\ input_enabled' = TRUE /\ output_enabled' = (outbuf # <<>>)
          /\ registered' = SetInterest(SetInterest(registered, "POLLIN", input_enabled, TRUE),
                                       "POLLOUT", output_enabled, outbuf # <<>>)
      BY <1>3, <2>1 DEF Interest
    <3>3. registered = {r \in {socket_fd} \X {"POLLIN", "POLLOUT"} :
                            IF r[2] = "POLLIN" THEN input_enabled ELSE output_enabled}
      BY DEF IInv, InterestInv
    <3> DEFINE R == SetInterest(registered, "POLLIN", input_enabled, TRUE)
    <3>4. R = {r \in {socket_fd} \X {"POLLIN", "POLLOUT"} :
                   IF r[2] = "POLLIN" THEN TRUE ELSE output_enabled}
      <4>1. CASE input_enabled
        BY <3>1, <3>3, <4>1 DEF SetInterest
      <4>2. CASE ~input_enabled
        BY <3>1, <3>3, <4>2 DEF SetInterest, register_fd_cb, IInv, TypeOK
      <4> QED BY <4>1, <4>2
    <3> HIDE DEF R
    <3>5. registered' = {r \in {socket_fd} \X {"POLLIN", "POLLOUT"} :
                             IF r[2] = "POLLIN" THEN TRUE ELSE outbuf # <<>>}
      <4>1. registered' = SetInterest(R, "POLLOUT", output_enabled, outbuf # <<>>)
        BY <3>2 DEF R
      <4>2. CASE outbuf # <<>>
        BY <3>1, <3>4, <4>1, <4>2 DEF SetInterest, register_fd_cb, IInv, TypeOK
      <4>3. CASE outbuf = <<>>
        BY <3>1, <3>4, <4>1, <4>3 DEF SetInterest, unregister_fd_cb, IInv, TypeOK
      <4> QED BY <4>2, <4>3
    <3>6. registered' \subseteq Fds \X {"POLLIN", "POLLOUT"}
      BY <1>2, <3>1, <3>5
    <3> QED BY <1>1, <2>1, <3>2, <3>5, <3>6 DEF InterestInv
  <2>2. CASE state # "CONNECTED"
    <3>1. UNCHANGED <<input_enabled, output_enabled, registered>>
      BY <2>2 DEF Interest
    <3> QED BY <1>1, <2>2, <3>1 DEF IInv, InterestInv, TypeOK
  <2> QED BY <2>1, <2>2
<1>5. TypeOK'
  BY <1>1, <1>4 DEF IInv, TypeOK
<1>6. OnlyLogins' = OnlyLogins /\ NoLogouts' = NoLogouts
  BY <1>1 DEF OnlyLogins, NoLogouts
<1>7. OneSocket' /\ GoneInv'
  BY <1>1, <1>6 DEF IInv, OneSocket, GoneInv
<1>8. ServerInv' /\ ChannelsInv' /\ OutInv'
  <2>1. CASE Live
    BY <1>1, <2>1, ServerKept DEF IInv, ServerInv, Asked
  <2>2. CASE ~Live
    BY <1>1, <2>2 DEF IInv, ServerInv, ChannelsInv, OutInv
  <2> QED BY <2>1, <2>2
<1>9. WorkInv'
  BY <1>1, <1>2 DEF WorkInv, InWork
<1> QED BY <1>4, <1>5, <1>7, <1>8, <1>9 DEF IInv

LEMMA ThreadStep ==
    ASSUME IInv, ConsumeEnds \/ CallbackReturns \/ WriteOut \/ WriteFails \/ Interest
    PROVE  IInv'
<1>1. CASE ConsumeEnds
  <2>1. /\ pc = "consume" /\ InWork /\ Len(inbuf) < InCapacity
    BY <1>1, LenProperties, ConnectionAssumption DEF ConsumeEnds, At, InWork, Whole, IInv, TypeOK
  <2> QED BY <1>1, <2>1, MoveStep DEF ConsumeEnds, Goto, connVars, appVars
<1>2. CASE CallbackReturns
  <2>1. /\ pc = "callback" /\ Len(inbuf) < InCapacity
        /\ callback # "disconnected" => InWork
    BY <1>2 DEF CallbackReturns, At, InWork, IInv, WorkInv
  <2> QED BY <1>2, <2>1, MoveStep DEF CallbackReturns, Returns, connVars, appVars
<1> QED BY <1>1, <1>2, WriteOutStep, WriteFailsStep, InterestStep

-----------------------------------------------------------------------------
LEMMA NextIInv ==
    ASSUME Usual, IInv, [Next]_vars
    PROVE  IInv'
<1>1. CASE UNCHANGED vars
  <2>1. /\ UNCHANGED <<socket_fd, state, inbuf, inpos, outbuf, outpos, input_enabled, output_enabled,
                       channels, dangling, registered, g_session, g_channel_map, pc, callback, sockfd, writable, net,
                       logins, nSends, consumed>>
        /\ Live' = Live /\ Pending' = Pending
    BY <1>1 DEF vars, connVars, appVars, workVars, Live, Pending
  <2>2. TypeOK'
    BY <2>1 DEF IInv, TypeOK
  <2>3. OnlyLogins' = OnlyLogins
    BY <2>1 DEF OnlyLogins
  <2>4. OneSocket' /\ GoneInv' /\ InterestInv'
    BY <2>1, <2>3 DEF IInv, OneSocket, GoneInv, InterestInv
  <2>5. ServerInv' /\ ChannelsInv' /\ OutInv' /\ Unanswered' = Unanswered
    <3>1. CASE Live
      BY <2>1, <3>1, ServerKept DEF IInv, ServerInv, Asked
    <3>2. CASE ~Live
      BY <2>1, <3>2 DEF IInv, ServerInv, ChannelsInv, OutInv, Unanswered
    <3> QED BY <3>1, <3>2
  <2>6. WorkInv'
    BY <2>1, <2>5 DEF IInv, WorkInv, InWork
  <2> QED BY <2>2, <2>4, <2>5, <2>6 DEF IInv
<1>2. CASE Application
  <2>1. \/ LoginWithoutSocket \/ \E fd \in Fds : LoginFails(fd)
        \/ \E fd \in Fds : LoginInProgress(fd) \/ LoginConnects(fd)
        \/ DirectSend \/ (\E c \in Channels : ChannelSend(c)) \/ Logout \/ LogoutRefused
        \/ LogoutForce
    BY <1>2 DEF Application
  <2> QED BY <2>1, LoginLeavesDisconnected, LoginConnectsOrWaits, ApplicationSends, EndStep
<1>3. CASE DoWorkCalled
  BY <1>3, DoWorkStep, EndStep DEF DoWorkCalled
<1>4. CASE DoWorkRuns
  BY <1>4, ConsumeStep, EndStep, ThreadStep DEF DoWorkRuns
<1>5. CASE Environment
  BY <1>5, ServerStep
<1> QED BY <1>1, <1>2, <1>3, <1>4, <1>5 DEF Next

LEMMA Invariance ==
    ASSUME Usual
    PROVE  Spec => []IInv
<1>1. Init => IInv
  BY InitIInv
<1>2. IInv /\ [Next]_vars => IInv'
  BY NextIInv
<1> QED BY <1>1, <1>2, PTL DEF Spec

(* Every variable of the engine, the application and the network keeps its  *)
(* type, and no buffer is ever filled beyond its capacity.                  *)
THEOREM TypeCorrect ==
    ASSUME Usual
    PROVE  Spec => []TypeOK
<1>1. IInv => TypeOK
  BY DEF IInv
<1> QED BY <1>1, Invariance, PTL

(* No wake-up is lost: when the thread goes back to select it waits for     *)
(* what it needs, on the socket it uses and on no other.                    *)
THEOREM InterestIsKept ==
    ASSUME Usual
    PROVE  Spec => []InterestKept
<1>1. IInv => InterestKept
  <2> SUFFICES ASSUME IInv PROVE InterestKept
    OBVIOUS
  <2>1. state = "DISCONNECTED" => registered = {}
    BY DEF IInv, InterestInv
  <2> QED BY <2>1 DEF IInv, InterestInv, InterestKept
<1> QED BY <1>1, Invariance, PTL

(* The server is sent a whole login request before anything else, over      *)
(* every loss of the connection, also in the middle of a message, full      *)
(* buffer and login made inside a callback.                                 *)
THEOREM LoginComesFirst ==
    ASSUME Usual
    PROVE  Spec => []LoginFirst
<1>1. IInv => LoginFirst
  <2> SUFFICES ASSUME IInv, state = "DISCONNECTED" \/ net[socket_fd].phase = "new"
               PROVE  /\ outbuf # <<>> => outbuf[1].msg.op = "LOGIN_REQUEST" /\ outbuf[1].part = 1
                      /\ state # "DISCONNECTED" => outbuf # <<>>
    BY DEF LoginFirst
  <2>1. OnlyLogins
    BY DEF IInv, GoneInv, ServerInv, Asking, Live
  <2>2. outbuf # <<>> => 1 \in 1 .. Len(outbuf)
    BY LenProperties, EmptySeq DEF IInv, TypeOK
  <2>3. state # "DISCONNECTED" => outbuf # <<>>
    BY DEF IInv, ServerInv, Asked, Live
  <2>4. outbuf # <<>> => outbuf[1].part = 1
    BY DEF IInv, OutInv, Live
  <2> QED BY <2>1, <2>2, <2>3, <2>4 DEF OnlyLogins
<1> QED BY <1>1, Invariance, PTL

(* While the application holds a session the server has it logged in, on    *)
(* the socket the connection uses.                                          *)
THEOREM SessionIsLoggedIn ==
    ASSUME Usual
    PROVE  Spec => []SessionMeansLoggedIn
<1>1. IInv => SessionMeansLoggedIn
  <2> SUFFICES ASSUME IInv, g_session
               PROVE  /\ state = "CONNECTED"
                      /\ net[socket_fd].status \in {"connected", "eof", "reset", "dead"}
                      /\ net[socket_fd].phase = "in"
    BY DEF SessionMeansLoggedIn
  <2>1. Live /\ socket_fd \in Fds /\ state = "CONNECTED" /\ net[socket_fd].phase = "in"
    BY SessionFacts
  <2>2. net[socket_fd] \in Sockets
    BY <2>1, SocketType DEF IInv
  <2>3. net[socket_fd].status \notin {"closed", "open", "connecting"}
    BY <2>1 DEF IInv, OneSocket, ServerInv, Asked
  <2> QED BY <2>1, <2>2, <2>3 DEF Sockets
<1> QED BY <1>1, Invariance, PTL

(* The client's channel map and the server agree, up to what is on its way, *)
(* after every login, failure and disconnect; and in a session the          *)
(* application knows every channel it is in.                                *)
THEOREM ChannelsAlwaysAgree ==
    ASSUME Usual
    PROVE  Spec => []ChannelsAgree
<1>1. IInv => ChannelsAgree
  BY DEF IInv, GoneInv, ChannelsInv, ChannelsAgree, Live
<1> QED BY <1>1, Invariance, PTL

-----------------------------------------------------------------------------
(***************************************************************************)
(* The refinement of SgsSession.  What is unread is what is pending, two    *)
(* pieces a message.                                                        *)
(***************************************************************************)
Heard == [op : {m.op : m \in InMessages}, channel : Channels \cup {NULL}]

Said(m) == [op |-> m.op, channel |-> m.channel]

Messages(s) == [i \in 1 .. Len(s) \div 2 |-> Joined(s[2 * i - 1], s[2 * i])]

LEMMA JoinedPair ==
    ASSUME NEW m \in InMessages, NEW p, NEW q,
           p = [msg |-> m, part |-> 1], q = [msg |-> m, part |-> 2]
    PROVE  Joined(p, q) = Said(m) /\ Said(m) \in Heard
BY MessageTypes DEF Joined, Said, Heard

LEMMA MessagesType ==
    ASSUME NEW s \in Seq(InPieces), NEW n \in Nat, Len(s) = 2 * n,
           \A i \in 1 .. n : IsPair(s[2 * i - 1], s[2 * i])
    PROVE  /\ Messages(s) \in Seq(Heard) /\ Len(Messages(s)) = n
           /\ \A i \in 1 .. n : Messages(s)[i] = Joined(s[2 * i - 1], s[2 * i])
<1>1. Len(s) \div 2 = n
  OBVIOUS
<1>2. Messages(s) = [i \in 1 .. n |-> Joined(s[2 * i - 1], s[2 * i])]
  BY <1>1 DEF Messages
<1>3. \A i \in 1 .. n : Joined(s[2 * i - 1], s[2 * i]) \in Heard
  BY JoinedPair DEF IsPair
<1>4. Messages(s) \in [1 .. n -> Heard]
  BY <1>2, <1>3, Zenon
<1>5. Messages(s) \in Seq(Heard) /\ Len(Messages(s)) = n
  BY <1>4
<1> QED BY <1>2, <1>5

LEMMA MessagesNone == Messages(<<>>) = <<>>
<1>1. <<>> \in Seq(InPieces) /\ Len(<<>>) = 2 * 0 /\ 0 \in Nat /\ \A i \in 1 .. 0 : FALSE
  BY EmptySeq
<1>2. Messages(<<>>) \in Seq(Heard) /\ Len(Messages(<<>>)) = 0
  BY <1>1, MessagesType
<1> QED BY <1>2, EmptySeq

LEMMA MessagesSent ==
    ASSUME NEW s \in Seq(InPieces), Paired(s), NEW m \in InMessages
    PROVE  Messages(s \o Pieces(m)) = Append(Messages(s), Said(m)) /\ Said(m) \in Heard
<1>1. PICK n \in Nat : Len(s) = 2 * n /\ \A i \in 1 .. n : IsPair(s[2 * i - 1], s[2 * i])
  BY DEF Paired
<1> DEFINE t == s \o Pieces(m)
<1>2. /\ t \in Seq(InPieces) /\ Len(t) = Len(s) + 2
      /\ \A i \in 1 .. Len(s) : t[i] = s[i]
      /\ t[Len(s) + 1] = [msg |-> m, part |-> 1] /\ t[Len(s) + 2] = [msg |-> m, part |-> 2]
  BY SentPieces
<1> HIDE DEF t
<1>3. Len(t) = 2 * (n + 1) /\ n + 1 \in Nat
  BY <1>1, <1>2
<1>4. ASSUME NEW i \in 1 .. n PROVE t[2 * i - 1] = s[2 * i - 1] /\ t[2 * i] = s[2 * i]
  <2>1. 2 * i - 1 \in 1 .. Len(s) /\ 2 * i \in 1 .. Len(s)
    BY <1>1
  <2> QED BY <1>2, <2>1
<1>5. t[2 * (n + 1) - 1] = [msg |-> m, part |-> 1] /\ t[2 * (n + 1)] = [msg |-> m, part |-> 2]
  <2>1. 2 * (n + 1) - 1 = Len(s) + 1 /\ 2 * (n + 1) = Len(s) + 2
    BY <1>1
  <2> QED BY <1>2, <2>1
<1>6. \A i \in 1 .. n + 1 : IsPair(t[2 * i - 1], t[2 * i])
  <2> SUFFICES ASSUME NEW i \in 1 .. n + 1 PROVE IsPair(t[2 * i - 1], t[2 * i])
    OBVIOUS
  <2>1. CASE i \in 1 .. n
    BY <1>1, <1>4, <2>1
  <2>2. CASE i = n + 1
    BY <1>5, <2>2 DEF IsPair
  <2> QED BY <1>1, <2>1, <2>2
<1> DEFINE u == Messages(s)
           v == Messages(t)
           w == Append(u, Said(m))
<1>7. u \in Seq(Heard) /\ Len(u) = n /\ \A i \in 1 .. n : u[i] = Joined(s[2 * i - 1], s[2 * i])
  BY <1>1, MessagesType
<1>8. /\ v \in Seq(Heard) /\ Len(v) = n + 1
      /\ \A i \in 1 .. n + 1 : v[i] = Joined(t[2 * i - 1], t[2 * i])
  BY <1>2, <1>3, <1>6, MessagesType
<1>9. Said(m) \in Heard /\ Joined(t[2 * (n + 1) - 1], t[2 * (n + 1)]) = Said(m)
  BY <1>5, JoinedPair
<1> HIDE DEF u, v
<1>10. /\ w \in Seq(Heard) /\ Len(w) = n + 1 /\ w[n + 1] = Said(m)
       /\ \A i \in 1 .. n : w[i] = u[i]
  BY <1>7, <1>9, AppendProperties
<1> HIDE DEF w
<1>11. ASSUME NEW i \in 1 .. n + 1 PROVE w[i] = v[i]
  <2>1. CASE i \in 1 .. n
    BY <1>4, <1>7, <1>8, <1>10, <2>1
  <2>2. CASE i = n + 1
    BY <1>8, <1>9, <1>10, <2>2
  <2> QED BY <1>1, <2>1, <2>2
<1>12. w = v
  BY <1>8, <1>10, <1>11, SeqEqual
<1> QED BY <1>9, <1>12 DEF t, u, v, w

LEMMA MessagesRest ==
    ASSUME NEW s \in Seq(InPieces), Paired(s), Len(s) >= 2, NEW m \in InMessages,
           s[1] = [msg |-> m, part |-> 1], s[2] = [msg |-> m, part |-> 2]
    PROVE  Messages(s) # <<>> /\ Head(Messages(s)) = Said(m) /\ Tail(Messages(s)) = Messages(Rest(s))
<1>1. PICK n \in Nat : Len(s) = 2 * n /\ \A i \in 1 .. n : IsPair(s[2 * i - 1], s[2 * i])
  BY DEF Paired
<1> DEFINE t == Rest(s)
<1>2. /\ t \in Seq(InPieces) /\ Len(t) = Len(s) - 2
      /\ \A i \in 1 .. Len(s) - 2 : t[i] = s[i + 2]
  BY RestProperties
<1> HIDE DEF t
<1>3. Len(t) = 2 * (n - 1) /\ n - 1 \in Nat
  BY <1>1, <1>2
<1>4. ASSUME NEW i \in 1 .. n - 1
      PROVE  /\ i + 1 \in 1 .. n
             /\ t[2 * i - 1] = s[2 * (i + 1) - 1] /\ t[2 * i] = s[2 * (i + 1)]
  <2>1. /\ i + 1 \in 1 .. n /\ 2 * i - 1 \in 1 .. Len(s) - 2 /\ 2 * i \in 1 .. Len(s) - 2
        /\ (2 * i - 1) + 2 = 2 * (i + 1) - 1 /\ 2 * i + 2 = 2 * (i + 1)
    BY <1>1
  <2>2. t[2 * i - 1] = s[(2 * i - 1) + 2] /\ t[2 * i] = s[2 * i + 2]
    BY <1>2, <2>1
  <2> QED BY <2>1, <2>2
<1>5. \A i \in 1 .. n - 1 : IsPair(t[2 * i - 1], t[2 * i])
  BY <1>1, <1>4
<1> DEFINE u == Messages(s)
           v == Messages(t)
           w == Tail(u)
<1>6. u \in Seq(Heard) /\ Len(u) = n /\ \A i \in 1 .. n : u[i] = Joined(s[2 * i - 1], s[2 * i])
  BY <1>1, MessagesType
<1>7. /\ v \in Seq(Heard) /\ Len(v) = n - 1
      /\ \A i \in 1 .. n - 1 : v[i] = Joined(t[2 * i - 1], t[2 * i])
  BY <1>2, <1>3, <1>5, MessagesType
<1> HIDE DEF u, v
<1>8. u # <<>> /\ Head(u) = u[1]
  BY <1>3, <1>6, NonEmpty
<1>9. u[1] = Said(m)
  <2>1. 1 \in 1 .. n /\ 2 * 1 - 1 = 1 /\ 2 * 1 = 2
    BY <1>3
  <2>2. Joined(s[1], s[2]) = Said(m)
    BY JoinedPair
  <2> QED BY <1>6, <2>1, <2>2
<1>10. w \in Seq(Heard) /\ Len(w) = n - 1 /\ \A i \in 1 .. n - 1 : w[i] = u[i + 1]
  BY <1>6, <1>8, HeadTailProperties
<1> HIDE DEF w
<1>11. \A i \in 1 .. n - 1 : w[i] = v[i]
  BY <1>4, <1>6, <1>7, <1>10
<1>12. w = v
  BY <1>7, <1>10, <1>11, SeqEqual
<1> QED BY <1>8, <1>9, <1>12 DEF t, u, v, w

LEMMA Mapped ==
    ASSUME GoneInv
    PROVE  Open = Live /\ Unread = IF Live THEN Messages(Pending) ELSE <<>>
<1>1. Open = Live
  BY DEF GoneInv, Open, Live
<1>2. ~Live => inbuf = <<>>
  BY DEF GoneInv
<1> QED BY <1>1, <1>2 DEF Unread, Messages

Stutters == UNCHANGED <<Open, Unread, channels, g_session>>

LEMMA StutterStep ==
    ASSUME IInv, IInv', Live' = Live, UNCHANGED <<channels, g_session>>, Live => Pending' = Pending
    PROVE  Stutters
<1>1. Open = Live /\ Unread = IF Live THEN Messages(Pending) ELSE <<>>
  BY Mapped DEF IInv
<1>2. Open' = Live' /\ Unread' = IF Live' THEN Messages(Pending') ELSE <<>>
  <2>1. GoneInv'
    BY DEF IInv
  <2>2. Open' = Live'
    BY <2>1 DEF GoneInv, Open, Live
  <2>3. ~Live' => inbuf' = <<>>
    BY <2>1 DEF GoneInv
  <2> QED BY <2>2, <2>3 DEF Unread, Messages
<1> QED BY <1>1, <1>2 DEF Stutters

LEMMA LoginSimulated ==
    ASSUME Usual, IInv, IInv', \E fd \in Fds : LoginInProgress(fd) \/ LoginConnects(fd)
    PROVE  Session!Login
<1>1. PICK fd \in Fds : LoginInProgress(fd) \/ LoginConnects(fd)
  OBVIOUS
<1>2. LoginCalled
  BY <1>1 DEF LoginInProgress, LoginConnects, Connects
<1>3. /\ ~Live /\ inbuf = <<>> /\ ~g_session /\ logins + 1 \in 1 .. MaxLogins
      /\ UNCHANGED <<inbuf, channels, g_session>>
  BY <1>2, Disconnected
<1>4. PICK how \in {"connecting", "connected"} : net' = [net EXCEPT ![fd] = Socket(how, logins + 1)]
  BY <1>1 DEF LoginInProgress, LoginConnects, Connects
<1>5. Live' /\ socket_fd' = fd
  BY <1>1 DEF LoginInProgress, LoginConnects, Connects, Live
<1>6. Pending' = <<>>
  <2>1. net'[fd].in = <<>>
    BY <1>4 DEF IInv, TypeOK, Socket
  <2>2. <<>> \o <<>> = <<>>
    BY EmptySeq, ConcatEmptySeq
  <2> QED BY <1>3, <1>5, <2>1, <2>2 DEF Pending
<1>7. Open = FALSE /\ Unread = <<>>
  BY <1>3, Mapped DEF IInv
<1>8. Open' = TRUE /\ Unread' = <<>>
  <2>1. Open' = Live'
    BY DEF IInv, GoneInv, Open, Live
  <2>2. Unread' = Messages(Pending')
    BY <1>5, <2>1 DEF Unread, Messages
  <2> QED BY <1>5, <1>6, <2>1, <2>2, MessagesNone
<1> QED BY <1>3, <1>7, <1>8 DEF Session!Login

LEMMA EndSimulated ==
    ASSUME Usual, IInv, IInv', 
           LogoutForce \/ DoWorkCloses \/ LoginFailure \/ LoginRedirect \/ SilentDisconnect
    PROVE  Session!End
<1>1. Live
  <2>1. CASE LogoutForce
    BY <2>1 DEF LogoutForce, IInv, GoneInv
  <2>2. CASE DoWorkCloses
    BY <2>2 DEF DoWorkCloses, DoWork, Live
  <2>3. CASE LoginFailure \/ LoginRedirect \/ SilentDisconnect
    BY <2>3, Consuming DEF LoginFailure, LoginRedirect, SilentDisconnect, Consume
  <2> QED BY <2>1, <2>2, <2>3
<1>2. sgs_connection_impl_disconnect
  BY DEF LogoutForce, DoWorkCloses, LoginFailure, LoginRedirect, SilentDisconnect, conn_closed
<1>3. ~Live' /\ inbuf' = <<>> /\ channels' = {}
  BY <1>2 DEF sgs_connection_impl_disconnect, Live, inbuf_cleared, sgs_session_channel_clear
<1>4. g_session' = FALSE
  BY <1>3 DEF IInv, GoneInv, TypeOK
<1>5. Open = TRUE
  BY <1>1, Mapped DEF IInv
<1>6. Open' = FALSE /\ Unread' = <<>>
  BY <1>3 DEF Open, Unread, Live
<1> QED BY <1>3, <1>4, <1>5, <1>6 DEF Session!End

LEMMA SaySimulated ==
    ASSUME Usual, IInv, IInv', NEW fd \in Fds, NEW m \in InMessages, NEW phase \in {"in", "out"},
           NEW joined \in SUBSET Channels, Sends(fd, m, phase, joined)
    PROVE  \E n \in Session!Messages : Session!Say(n)
<1>1. /\ Live /\ fd = socket_fd /\ Live' = Live
      /\ UNCHANGED <<channels, g_session>>
      /\ Pending' = Pending \o Pieces(m)
  BY SendsEffect
<1>2. Pending \in Seq(InPieces) /\ Paired(Pending)
  BY <1>1, PendingType DEF IInv, ServerInv, OneSocket
<1>3. Messages(Pending') = Append(Messages(Pending), Said(m)) /\ Said(m) \in Heard
  BY <1>1, <1>2, MessagesSent
<1>4. Open = TRUE /\ Unread = Messages(Pending)
  BY <1>1, Mapped DEF IInv
<1>5. Open' = TRUE /\ Unread' = Messages(Pending')
  <2>1. Open' = TRUE
    BY <1>1 DEF IInv, GoneInv, Open, Live
  <2> QED BY <2>1 DEF Unread, Messages
<1>6. Session!Messages = Heard
  BY DEF Session!Messages, Heard
<1>7. Session!Say(Said(m))
  BY <1>1, <1>3, <1>4, <1>5 DEF Session!Say
<1> QED BY <1>3, <1>6, <1>7

LEMMA HearSimulated ==
    ASSUME IInv, IInv', At("consume"), Whole, TakeOne,
           channels' = After(channels, Message),
           g_session' = (g_session \/ Message.op = "LOGIN_SUCCESS"),
           Message.op \notin {"LOGIN_FAILURE", "LOGIN_REDIRECT", "LOGOUT_SUCCESS", "RECONNECT_FAILURE"}
    PROVE  Session!Hear
<1>1. /\ Live /\ socket_fd \in Fds
      /\ Pending \in Seq(InPieces) /\ Len(Pending) >= 2
      /\ Message \in InMessages
      /\ Pending[1] = [msg |-> Message, part |-> 1] /\ Pending[2] = [msg |-> Message, part |-> 2]
  BY Consuming
<1>2. Live' = Live /\ Pending' = Rest(Pending)
  <2>1. inbuf \in Seq(InPieces) /\ Len(inbuf) >= 2 /\ net[socket_fd].in \in Seq(InPieces)
    BY <1>1, SocketType DEF IInv, TypeOK, Whole
  <2>2. inbuf' = Rest(inbuf) /\ UNCHANGED <<state, socket_fd, net>>
    BY DEF TakeOne, Rest
  <2> QED BY <2>1, <2>2, PendingTaken DEF Pending, Live
<1> DEFINE u == Messages(Pending)
<1>3. u # <<>> /\ Head(u) = Said(Message) /\ Tail(u) = Messages(Rest(Pending))
  BY <1>1, MessagesRest DEF IInv, ServerInv
<1>4. Open = TRUE /\ Unread = u
  BY <1>1, Mapped DEF IInv
<1>5. Open' = TRUE /\ Unread' = Messages(Pending')
  <2>1. Open' = TRUE
    BY <1>1, <1>2 DEF IInv, GoneInv, Open, Live
  <2> QED BY <2>1 DEF Unread, Messages
<1> HIDE DEF u
<1>6. Head(u).op = Message.op /\ Head(u).channel = Message.channel
  BY <1>3 DEF Said
<1>7. channels' = IF Head(u).op = "CHANNEL_JOIN" THEN channels \cup {Head(u).channel}
                  ELSE IF Head(u).op = "CHANNEL_LEAVE" THEN channels \ {Head(u).channel}
                  ELSE channels
  BY <1>6 DEF After
<1> QED BY <1>2, <1>3, <1>4, <1>5, <1>6, <1>7 DEF Session!Hear, Session!Ending

LEMMA SendsSaid ==
    ASSUME Usual, IInv, IInv', NEW fd \in Fds, NEW op, NEW channel, NEW phase \in {"in", "out"},
           NEW joined \in SUBSET Channels,
           \/ /\ op \in {"LOGIN_SUCCESS", "LOGIN_FAILURE", "LOGIN_REDIRECT", "SESSION_MESSAGE",
                         "LOGOUT_SUCCESS"} \cup Stray
              /\ channel = NULL
           \/ op \in {"CHANNEL_JOIN", "CHANNEL_LEAVE", "CHANNEL_MESSAGE"} /\ channel \in Channels,
           ServerSends(fd, op, channel, phase, joined)
    PROVE  \E n \in Session!Messages : Session!Say(n)
<1> DEFINE n == net[fd].sent + 1
           m == [op |-> op, channel |-> channel, no |-> n]
<1>1. n \in 1 .. MaxServer
  BY SocketType, ConnectionAssumption DEF IInv, Sockets, ServerSends
<1>2. Sends(fd, m, phase, joined)
  BY DEF ServerSends, Sends
<1> HIDE DEF n
<1>3. m \in InMessages
  BY <1>1 DEF InMessages
<1> HIDE DEF m
<1> QED BY <1>2, <1>3, SaySimulated

LEMMA EnvironmentSimulated ==
    ASSUME Usual, IInv, IInv', Environment
    PROVE  (\E n \in Session!Messages : Session!Say(n)) \/ Stutters
<1>1. PICK fd \in Fds : \/ Accept(fd) \/ Reset(fd) \/ ServerCloses(fd) \/ ServerReceives(fd)
                        \/ ServerAnswersLogin(fd) \/ ServerAnswersLogout(fd) \/ ServerTalks(fd)
  BY DEF Environment
<1>2. CASE Accept(fd) \/ Reset(fd) \/ ServerCloses(fd) \/ ServerReceives(fd)
  <2>1. UNCHANGED <<socket_fd, state, inbuf, channels, g_session>>
    BY <1>2 DEF Accept, Reset, ServerCloses, ServerReceives, External, connVars, appVars
  <2>2. \/ \E st : net' = [net EXCEPT ![fd].status = st]
        \/ net' = [net EXCEPT ![fd].status = "reset", ![fd].full = FALSE]
        \/ net' = [net EXCEPT ![fd].full = FALSE]
    BY <1>2 DEF Accept, Reset, ServerCloses, ServerReceives
  <2>3. Live => net'[socket_fd].in = net[socket_fd].in
    <3> SUFFICES ASSUME Live PROVE net'[socket_fd].in = net[socket_fd].in
      OBVIOUS
    <3>1. socket_fd \in Fds /\ net \in [Fds -> Sockets] /\ net[socket_fd] \in Sockets
      BY SocketType DEF IInv, OneSocket, TypeOK
    <3>2. ASSUME NEW st, net' = [net EXCEPT ![fd].status = st]
          PROVE  net'[socket_fd].in = net[socket_fd].in
      BY <3>1, <3>2 DEF Sockets
    <3>3. CASE net' = [net EXCEPT ![fd].status = "reset", ![fd].full = FALSE]
      BY <3>1, <3>3 DEF Sockets
    <3>4. CASE net' = [net EXCEPT ![fd].full = FALSE]
      BY <3>1, <3>4 DEF Sockets
    <3> QED BY <2>2, <3>2, <3>3, <3>4
  <2> QED BY <2>1, <2>3, StutterStep DEF Live, Pending
<1>3. net[fd].joined \in SUBSET Channels /\ {} \in SUBSET Channels
  BY SocketType DEF IInv, Sockets
<1>4. CASE ServerAnswersLogin(fd)
  <2>1. PICK op \in {"LOGIN_SUCCESS", "LOGIN_FAILURE", "LOGIN_REDIRECT"}, phase \in {"in", "out"} :
            ServerSends(fd, op, NULL, phase, {})
    BY <1>4 DEF ServerAnswersLogin
  <2> QED BY <1>3, <2>1, SendsSaid
<1>5. CASE ServerAnswersLogout(fd)
  <2>1. ServerSends(fd, "LOGOUT_SUCCESS", NULL, "out", net[fd].joined)
    BY <1>5 DEF ServerAnswersLogout
  <2> QED BY <1>3, <2>1, SendsSaid
<1>6. CASE ServerTalks(fd)
  <2>1. ASSUME NEW op \in {"SESSION_MESSAGE"} \cup Stray, ServerSends(fd, op, NULL, "in", net[fd].joined)
        PROVE  \E n \in Session!Messages : Session!Say(n)
    BY <1>3, <2>1, SendsSaid
  <2>2. ASSUME NEW c \in Channels, NEW op \in {"CHANNEL_JOIN", "CHANNEL_LEAVE", "CHANNEL_MESSAGE"},
               NEW joined \in SUBSET Channels, ServerSends(fd, op, c, "in", joined)
        PROVE  \E n \in Session!Messages : Session!Say(n)
    BY <2>2, SendsSaid
  <2>3. \A c \in Channels : net[fd].joined \cup {c} \in SUBSET Channels /\ net[fd].joined \ {c} \in SUBSET Channels
    BY <1>3
  <2> QED BY <1>3, <1>6, <2>1, <2>2, <2>3 DEF ServerTalks
<1> QED BY <1>1, <1>2, <1>4, <1>5, <1>6

LEMMA ApplicationSimulated ==
    ASSUME Usual, IInv, IInv', Application
    PROVE  Session!Login \/ Session!Logout \/ Session!End \/ Stutters
<1>1. CASE LoginWithoutSocket \/ \E fd \in Fds : LoginFails(fd)
  <2>1. LoginCalled
    BY <1>1 DEF LoginWithoutSocket, LoginFails
  <2>2. ~Live /\ UNCHANGED <<channels, g_session>>
    BY <2>1, Disconnected
  <2>3. Live' = Live
    BY <1>1 DEF LoginWithoutSocket, LoginFails, Live
  <2> QED BY <2>2, <2>3, StutterStep
<1>2. CASE \E fd \in Fds : LoginInProgress(fd) \/ LoginConnects(fd)
  BY <1>2, LoginSimulated
<1>3. CASE DirectSend \/ \E c \in Channels : ChannelSend(c)
  <2>1. UNCHANGED <<socket_fd, state, inbuf, channels, g_session, net>>
    BY <1>3 DEF DirectSend, ChannelSend, sgs_session_impl_send_msg, appVars
  <2> QED BY <2>1, StutterStep DEF Live, Pending
<1>4. CASE Logout
  <2>1. UNCHANGED <<socket_fd, state, inbuf, channels, net>> /\ g_session /\ g_session' = FALSE
    BY <1>4 DEF Logout, doLogout
  <2>2. /\ Open = Live /\ Open' = Live'
        /\ Unread = (IF Live THEN Messages(Pending) ELSE <<>>)
    BY Mapped DEF IInv, GoneInv, Open, Live
  <2>3. Unread' = IF Live' THEN Messages(Pending') ELSE <<>>
    BY <2>2 DEF IInv, GoneInv, Unread, Messages
  <2>4. Live' = Live /\ Pending' = Pending
    BY <2>1 DEF Live, Pending
  <2> QED BY <2>1, <2>2, <2>3, <2>4 DEF Session!Logout
<1>5. CASE LogoutRefused
  BY <1>5 DEF LogoutRefused, doLogout, IInv, GoneInv, Live
<1>6. CASE LogoutForce
  BY <1>6, EndSimulated
<1> QED BY <1>1, <1>2, <1>3, <1>4, <1>5, <1>6 DEF Application

LEMMA DoWorkSimulated ==
    ASSUME Usual, IInv, IInv', DoWorkCalled
    PROVE  Session!End \/ Stutters
<1>1. Live
  BY DEF DoWorkCalled, DoWorkReads, DoWorkReadStops, DoWorkReadFails, DoWorkCloses, DoWorkWrites,
         Working, DoWork, Live
<1>2. CASE DoWorkReads \/ DoWorkReadStops
  <2>1. UNCHANGED <<socket_fd, state, channels, g_session>>
    BY <1>2 DEF DoWorkReads, DoWorkReadStops, Working, appVars
  <2>2. PICK k \in 0 .. Len(net[socket_fd].in), st \in Statuses : k <= Room /\ MoveIn(k, st)
    <3>1. /\ Len(inbuf) \in Nat /\ InCapacity \in Nat /\ Len(net[socket_fd].in) \in Nat
          /\ inpos \in Nat /\ net[socket_fd].status \in Statuses
      <4>1. socket_fd \in Fds
        BY <1>1 DEF IInv, OneSocket
      <4>2. net[socket_fd] \in Sockets /\ net[socket_fd].in \in Seq(InPieces)
        BY <4>1, SocketType DEF IInv
      <4>3. inbuf \in Seq(InPieces) /\ inpos \in Nat /\ InCapacity \in Nat
        BY ConnectionAssumption DEF IInv, TypeOK
      <4> QED BY <4>2, <4>3, LenProperties DEF Sockets, Statuses
    <3>2. CASE DoWorkReads
      BY <3>1, <3>2 DEF DoWorkReads
    <3>3. CASE DoWorkReadStops
      <4> DEFINE k == writable_len
      <4>1. 0 < k /\ k < Room /\ k <= Len(net[socket_fd].in)
        BY <3>3 DEF DoWorkReadStops
      <4>2. k \in 0 .. Len(net[socket_fd].in) /\ k <= Room
        BY <3>1, <4>1 DEF writable_len, Room
      <4>3. PICK st \in Statuses : MoveIn(k, st)
        BY <3>1, <3>3 DEF DoWorkReadStops, Statuses
      <4> HIDE DEF k
      <4> QED BY <4>2, <4>3
    <3> QED BY <1>2, <3>2, <3>3
  <2>3. Pending' = Pending
    BY <1>1, <2>1, <2>2, MoveInEffect
  <2> QED BY <2>1, <2>3, StutterStep DEF Live
<1>3. CASE DoWorkReadFails
  <2>1. /\ UNCHANGED <<socket_fd, state, inbuf, channels, g_session>>
        /\ net' = [net EXCEPT ![socket_fd].status = "dead"]
    BY <1>3 DEF DoWorkReadFails, connVars, appVars
  <2>2. net'[socket_fd].in = net[socket_fd].in
    BY <1>1, <2>1 DEF IInv, OneSocket, TypeOK, Sockets
  <2> QED BY <2>1, <2>2, StutterStep DEF Live, Pending
<1>4. CASE DoWorkWrites
  <2>1. UNCHANGED <<socket_fd, state, inbuf, channels, g_session, net>>
    BY <1>4 DEF DoWorkWrites, Working, appVars
  <2> QED BY <2>1, StutterStep DEF Live, Pending
<1>5. CASE DoWorkCloses
  BY <1>5, EndSimulated
<1> QED BY <1>2, <1>3, <1>4, <1>5 DEF DoWorkCalled

LEMMA RunsSimulated ==
    ASSUME Usual, IInv, IInv', DoWorkRuns
    PROVE  Session!Hear \/ Session!End \/ Stutters
<1>1. CASE LoginFailure \/ LoginRedirect \/ SilentDisconnect
  BY <1>1, EndSimulated
<1>2. CASE LoginSuccess
  BY <1>2, HearSimulated DEF LoginSuccess, Consume, logged_in_cb, After
<1>3. CASE SessionMessage
  BY <1>3, HearSimulated DEF SessionMessage, Consume, After, appVars, IInv, TypeOK
<1>4. CASE ChannelJoin
  BY <1>4, HearSimulated DEF ChannelJoin, Consume, After, channel_joined_cb, sgs_map_put, IInv, TypeOK
<1>5. CASE ChannelLeave
  BY <1>5, HearSimulated DEF ChannelLeave, Consume, After, channel_left_cb, sgs_map_remove, IInv, TypeOK
<1>6. CASE ChannelMessage
  BY <1>6, HearSimulated DEF ChannelMessage, Consume, After, appVars, IInv, TypeOK
<1>7. CASE ReceiveFails
  BY <1>7, HearSimulated DEF ReceiveFails, Consume, After, appVars, sgs_map_contains, IInv, TypeOK
<1>8. CASE ConsumeEnds \/ CallbackReturns \/ Interest
  <2>1. UNCHANGED <<socket_fd, state, inbuf, channels, g_session, net>>
    BY <1>8 DEF ConsumeEnds, CallbackReturns, Interest, connVars, appVars
  <2> QED BY <2>1, StutterStep DEF Live, Pending
<1>9. CASE WriteOut \/ WriteFails
  <2>1. UNCHANGED <<socket_fd, inbuf, channels, g_session>> /\ state' = write_state
    BY <1>9 DEF WriteOut, WriteFails, appVars
  <2>2. Live' = Live
    BY <2>1 DEF Live, write_state
  <2>3. net' = net \/ \E p, f : net' = [net EXCEPT ![sockfd].phase = p, ![sockfd].full = f]
    BY <1>9 DEF WriteOut, WriteFails, Sent
  <2>4. ASSUME Live PROVE net'[socket_fd].in = net[socket_fd].in
    <3>1. socket_fd \in Fds /\ net \in [Fds -> Sockets] /\ net[socket_fd] \in Sockets
      BY <2>4, SocketType DEF IInv, OneSocket, TypeOK
    <3>2. CASE net' = net
      BY <3>2
    <3>3. ASSUME NEW p, NEW f, net' = [net EXCEPT ![sockfd].phase = p, ![sockfd].full = f]
          PROVE  net'[socket_fd].in = net[socket_fd].in
      BY <3>1, <3>3 DEF Sockets
    <3> QED BY <2>3, <3>2, <3>3
  <2> QED BY <2>1, <2>2, <2>4, StutterStep DEF Pending
<1> QED BY <1>1, <1>2, <1>3, <1>4, <1>5, <1>6, <1>7, <1>8, <1>9 DEF DoWorkRuns

(* What the application gets of a session is what SgsSession says: every    *)
(* step of the client, the kernel or the server is a login, a message said  *)
(* or heard, a logout or the end of the session, or nothing at all.         *)
THEOREM SessionImplemented ==
    ASSUME Usual
    PROVE  Spec => ImplementsSession
<1>1. Init => Session!Init
  <2> SUFFICES ASSUME Init PROVE Session!Init
    OBVIOUS
  <2>1. Open = FALSE /\ Unread = <<>>
    BY DEF Init, Open, Unread
  <2> QED BY <2>1 DEF Init, Session!Init
<1>2. IInv /\ IInv' /\ [Next]_vars => [Session!Next]_(Session!vars)
  <2> SUFFICES ASSUME IInv, IInv', [Next]_vars PROVE Session!Next \/ Stutters
    BY DEF Stutters, Session!vars
  <2>1. CASE UNCHANGED vars
    <3>1. UNCHANGED <<socket_fd, state, inbuf, channels, g_session, net>>
      BY <2>1 DEF vars, connVars, appVars
    <3> QED BY <3>1, StutterStep DEF Live, Pending
  <2> QED BY <2>1, ApplicationSimulated, DoWorkSimulated, RunsSimulated, EnvironmentSimulated
          DEF Next, Session!Next
<1> QED BY <1>1, <1>2, Invariance, PTL DEF Spec, ImplementsSession, Session!Spec

=============================================================================
