----------------------------- MODULE SgsChannels -----------------------------
(***************************************************************************)
(* The channels of a client session and their memory: linked_map.c as       *)
(* linked lists of elements, channel.c, the channel messages of session.c,  *)
(* and example/chat_client.c, which keeps pointers of its own to the        *)
(* channels the library allocates and frees.  SgsConnection has the order   *)
(* of the messages; here it is whatever the server likes.                   *)
(*                                                                         *)
(* The n-th CHANNEL_JOIN that gets as far as making a channel allocates the *)
(* id, the channel, its name and up to two list elements: pointers to them  *)
(* are the number n, NULL is 0.  The n-th login allocates login and         *)
(* password number n.  Ids and names made for one call only are not in the  *)
(* model; the name buffer of each CHANNEL_JOIN and the reconnect key before *)
(* the last, which are never freed, are not either.                         *)
(***************************************************************************)
EXTENDS Integers, Sequences, SequencesExt

CONSTANTS
    Ids,          \* channel ids, as the server gives them
    Names,        \* channel names
    MaxJoins,     \* bound on the channels made
    MaxLogins,    \* bound on the logins
    AllocFails    \* what malloc may fail to give: names are the channels', "element" a
                  \* list's, "buffer" is what an id is read into, the rest as in session.c

ASSUME ChannelsAssumption ==
    /\ MaxJoins \in Nat /\ MaxLogins \in Nat
    /\ AllocFails \subseteq {"name", "element", "buffer", "id", "login", "password"}

VARIABLES
    memory,         \* what is allocated: <<kind, number>> pairs
    refreed,        \* what was freed when it was not allocated
    joins,          \* the contents of ids and names, their login, and what malloc gave
    channels,       \* the session's map from ids to channels
    g_channel_map,  \* the application's map from names to channels
    connected,      \* whether the connection is
    g_session,      \* whether the application holds a session
    logins,         \* logins so far
    login,          \* the session's pointers to what it logged in with
    password,
    misread,        \* the joins whose id a CHANNEL_LEAVE took for its own and freed
    pc,             \* "app", "left" (in channel_left_cb), "exited" or "undefined"
    current         \* the channel channel_left_cb was called for

mem == <<memory, refreed>>
maps == <<channels, g_channel_map>>
phase == <<connected, g_session, logins, login, password>>
vars == <<mem, joins, maps, phase, misread, pc, current>>

NULL == 0
Uninitialised == -1

-----------------------------------------------------------------------------
(***************************************************************************)
(* linked_map.c.  A map is the first element and the elements: each has a   *)
(* key pointer, a value pointer and the next element.  "of" is what the     *)
(* keys point to, which is what compare_keys compares.                      *)
(***************************************************************************)
EmptyMap == [head |-> 0, elt |-> <<>>]

Chain(m) ==
    LET from[e \in DOMAIN m.elt \cup {0}] ==
            IF e = 0 THEN <<>> ELSE <<e>> \o from[m.elt[e].next]
    IN from[m.head]

(* The place in the list of the first element whose key compares equal, or 0. *)
Place(m, of, k) == SelectInSeq(Chain(m), LAMBDA e : of[m.elt[e].key] = k)

sgs_map_contains(m, of, k) == Place(m, of, k) # 0

sgs_map_get(m, of, k) ==
    IF sgs_map_contains(m, of, k) THEN m.elt[Chain(m)[Place(m, of, k)]].value ELSE 0

\* Slip of sgs_map_put: a new element becomes the first, and the others are lost.
PutAtHead(m, of, key, value) ==
    [head |-> value, elt |-> [e \in DOMAIN m.elt \cup {value} |->
         IF e = value THEN [key |-> key, value |-> value, next |-> 0] ELSE m.elt[e]]]

(* The new element has the number of the value; an existing one is replaced. *)
sgs_map_put(m, of, key, value) ==
    IF sgs_map_contains(m, of, of[key])
    THEN LET e == Chain(m)[Place(m, of, of[key])]
         IN [m EXCEPT !.elt[e].key = key, !.elt[e].value = value]
    ELSE LET linked == IF m.head = 0 THEN [m EXCEPT !.head = value]
                       ELSE [m EXCEPT !.elt[Last(Chain(m))].next = value]
         IN [linked EXCEPT !.elt = [e \in DOMAIN @ \cup {value} |->
                IF e = value THEN [key |-> key, value |-> value, next |-> 0] ELSE @[e]]]

\* Slip of sgs_map_remove: the elements before the one removed are unlinked too.
RemoveUpTo(m, of, k) ==
    LET i == Place(m, of, k) IN
    IF i = 0 THEN m
    ELSE [head |-> m.elt[Chain(m)[i]].next,
          elt |-> [x \in DOMAIN m.elt \ {Chain(m)[i]} |-> m.elt[x]]]

sgs_map_remove(m, of, k) ==
    LET i == Place(m, of, k)
        e == Chain(m)[i]
        unlinked == IF i = 1 THEN [m EXCEPT !.head = m.elt[e].next]
                    ELSE [m EXCEPT !.elt[Chain(m)[i - 1]].next = m.elt[e].next]
    IN IF i = 0 THEN m
       ELSE [unlinked EXCEPT !.elt = [x \in DOMAIN @ \ {e} |-> @[x]]]

(* The first element's key is looked up and removed until there is none. *)
sgs_map_clear(m, of) ==
    LET after[i \in 0 .. Len(Chain(m))] ==
            IF i = 0 THEN m
            ELSE sgs_map_remove(after[i - 1], of, of[after[i - 1].elt[after[i - 1].head].key])
    IN after[Len(Chain(m))]

IdOf == [n \in DOMAIN joins |-> joins[n].id]
NameOf == [n \in DOMAIN joins |-> joins[n].name]

-----------------------------------------------------------------------------
(* channel.c: what makes a channel, and what frees one. *)
ChannelMemory(n) == {<<"id", n>>, <<"channel", n>>, <<"name", n>>}

Program == {<<"context", 0>>, <<"connection", 0>>, <<"session", 0>>}

Frees(S) ==
    /\ memory' = memory \ S
    /\ refreed' = refreed \cup (S \ memory)

\* Slip of sgs_channel_impl_destroy: nothing is freed.
ChannelKept(n) == UNCHANGED mem

sgs_channel_impl_destroy(n) == Frees(ChannelMemory(n))

Init ==
    /\ memory = Program
    /\ refreed = {}
    /\ joins = <<>>
    /\ channels = EmptyMap
    /\ g_channel_map = EmptyMap
    /\ connected = FALSE
    /\ g_session = FALSE
    /\ logins = 0
    /\ login = Uninitialised
    /\ password = Uninitialised
    /\ misread = {}
    /\ pc = "app"
    /\ current = 0

(***************************************************************************)
(* A login on the disconnected connection, by an application that holds no  *)
(* session.  What an earlier login stored is not freed.  When there is no   *)
(* memory for the password, the login is freed and the pointer to it stays. *)
(***************************************************************************)
NewLogin ==
    /\ pc = "app" /\ ~connected /\ ~g_session
    /\ logins < MaxLogins
    /\ logins' = logins + 1
    /\ UNCHANGED <<refreed, joins, maps, misread, pc, current>>

LoginNotStored ==
    /\ NewLogin
    /\ "login" \in AllocFails
    /\ login' = NULL
    /\ UNCHANGED <<memory, connected, g_session, password>>

PasswordNotStored ==
    /\ NewLogin
    /\ "password" \in AllocFails
    /\ login' = logins'
    /\ password' = NULL
    /\ UNCHANGED <<memory, connected, g_session>>

(* LOGIN_SUCCESS without memory for the reconnect key has no callback. *)
Login ==
    /\ NewLogin
    /\ login' = logins'
    /\ password' = logins'
    /\ memory' = memory \cup {<<"login", logins'>>, <<"password", logins'>>}
    /\ \/ UNCHANGED <<connected, g_session>>
       \/ /\ connected' = TRUE
          /\ g_session' \in BOOLEAN
          /\ g_session' \/ "buffer" \in AllocFails

(***************************************************************************)
(* CHANNEL_JOIN of a channel the session is in fails and changes nothing,   *)
(* as it does when there is no memory for the channel itself.  Otherwise a  *)
(* channel is made, put under its id, and the application told.             *)
(***************************************************************************)
NewChannel(id, name, got) ==
    /\ pc = "app" /\ connected
    /\ Len(joins) < MaxJoins
    /\ ~sgs_map_contains(channels, IdOf, id)
    /\ joins' = Append(joins, [id |-> id, name |-> name, session |-> logins, got |-> got])
    /\ UNCHANGED <<phase, misread, pc, current>>

(* channel_impl_create frees the id when it gets no name, and so does its caller. *)
JoinWithoutName(id, name) ==
    /\ NewChannel(id, name, "no name")
    /\ "name" \in AllocFails
    /\ refreed' = refreed \cup {<<"id", Len(joins')>>}
    /\ UNCHANGED <<memory, maps>>

\* Slip of JoinUnlisted: the channel is freed with its id, and then the id.
JoinUndone(id, name) ==
    /\ NewChannel(id, name, "no element")
    /\ "element" \in AllocFails
    /\ refreed' = refreed \cup {<<"id", Len(joins')>>}
    /\ UNCHANGED <<memory, maps>>

(* The map has no element for it: the id is freed, the channel stays. *)
JoinUnlisted(id, name) ==
    /\ NewChannel(id, name, "no element")
    /\ "element" \in AllocFails
    /\ memory' = memory \cup {<<"channel", Len(joins')>>, <<"name", Len(joins')>>}
    /\ UNCHANGED <<refreed, maps>>

(***************************************************************************)
(* channel_joined_cb keeps the channel under its name, unless it has one of *)
(* that name already (or there is no element).                              *)
(***************************************************************************)
channel_joined_cb(n) ==
    \/ /\ ~sgs_map_contains(g_channel_map, NameOf', NameOf'[n])
       /\ g_channel_map' = sgs_map_put(g_channel_map, NameOf', n, n)
    \/ /\ \/ sgs_map_contains(g_channel_map, NameOf', NameOf'[n])
          \/ "element" \in AllocFails
       /\ UNCHANGED g_channel_map

ChannelJoin(id, name) ==
    /\ NewChannel(id, name, "all")
    /\ memory' = memory \cup ChannelMemory(Len(joins'))
    /\ channels' = sgs_map_put(channels, IdOf', Len(joins'), Len(joins'))
    /\ channel_joined_cb(Len(joins'))
    /\ UNCHANGED refreed

(***************************************************************************)
(* CHANNEL_LEAVE: channel_left_cb is called while the channel is still in   *)
(* the map; once it returns, the channel is taken out under its own id and  *)
(* destroyed.  An unknown channel changes nothing.                          *)
(***************************************************************************)
\* Slip of channel_left_cb: the application keeps its entry.
LeftIgnored(n) == UNCHANGED g_channel_map

channel_left_cb(n) == g_channel_map' = sgs_map_remove(g_channel_map, NameOf, NameOf[n])

LeaveFound(id) ==
    /\ current' = sgs_map_get(channels, IdOf, id)
    /\ channel_left_cb(current')
    /\ pc' = "left"

ChannelLeave(id) ==
    /\ pc = "app" /\ connected
    /\ sgs_map_contains(channels, IdOf, id)
    /\ LeaveFound(id)
    /\ UNCHANGED <<mem, joins, channels, phase, misread>>

(***************************************************************************)
(* When sgs_msg_read_id has no memory to read the id into, it leaves        *)
(* channel_id uninitialised, and only NULL is noticed.  It may be what the  *)
(* last CHANNEL_JOIN left there: then that channel's id, freed since or     *)
(* not, is looked up by what it holds, and freed.                           *)
(***************************************************************************)
LeaveUnread(n) ==
    /\ pc = "app" /\ connected
    /\ "buffer" \in AllocFails
    /\ misread' = misread \cup {n}
    /\ Frees({<<"id", n>>})
    /\ IF sgs_map_contains(channels, IdOf, IdOf[n])
       THEN LeaveFound(IdOf[n])
       ELSE UNCHANGED <<g_channel_map, pc, current>>
    /\ UNCHANGED <<joins, channels, phase>>

(***************************************************************************)
(* Where the model ends: a CHANNEL_LEAVE with any other uninitialised id, a *)
(* CHANNEL_JOIN or CHANNEL_MESSAGE that compares the NULL that              *)
(* sgs_id_create returned, and whatever comes of a freed id.                *)
(***************************************************************************)
Undefined ==
    /\ \/ pc = "app" /\ connected /\ AllocFails \cap {"buffer", "id"} # {}
       \/ pc \in {"app", "left"} /\ misread # {}
    /\ pc' = "undefined"
    /\ UNCHANGED <<mem, joins, maps, phase, misread, current>>

ChannelLeft ==
    /\ pc = "left"
    /\ channels' = sgs_map_remove(channels, IdOf, IdOf[current])
    /\ sgs_channel_impl_destroy(current)
    /\ pc' = "app"
    /\ current' = 0
    /\ UNCHANGED <<joins, g_channel_map, phase, misread>>

-----------------------------------------------------------------------------
(***************************************************************************)
(* The end of a session.  A disconnect clears the session's map and frees   *)
(* none of the channels in it.  disconnected_cb forgets the session, but    *)
(* RECONNECT_FAILURE and LOGOUT_SUCCESS disconnect without a callback.      *)
(* After doLogout(0) the connection goes on until the server answers.  An   *)
(* application may force a logout from a callback.                          *)
(***************************************************************************)
\* Slip of sgs_session_channel_clear: the channels are freed with the map.
ClearFrees ==
    /\ channels' = EmptyMap
    /\ Frees(UNION {ChannelMemory(channels.elt[e].value) : e \in DOMAIN channels.elt})

sgs_session_channel_clear == channels' = sgs_map_clear(channels, IdOf) /\ UNCHANGED mem

Disconnected ==
    /\ pc = "app" /\ connected
    /\ sgs_session_channel_clear
    /\ connected' = FALSE
    /\ g_session' \in {FALSE, g_session}
    /\ UNCHANGED <<joins, g_channel_map, logins, login, password, misread, pc, current>>

doLogout(force) ==
    /\ pc = "app" \/ (pc = "left" /\ force)
    /\ g_session
    /\ g_session' = FALSE
    /\ g_channel_map' = sgs_map_clear(g_channel_map, NameOf)
    /\ IF force THEN sgs_session_channel_clear /\ connected' = FALSE
                ELSE UNCHANGED <<channels, mem, connected>>
    /\ UNCHANGED <<joins, logins, login, password, misread, pc, current>>

(***************************************************************************)
(* bye: both maps, the connection with its session and context, and the     *)
(* context again.  The session frees its login and password, whatever the   *)
(* pointers to them hold.                                                   *)
(***************************************************************************)
Stored == {<<"login", login>>, <<"password", password>>}

bye ==
    /\ pc = "app"
    /\ channels' = sgs_map_clear(channels, IdOf)
    /\ g_channel_map' = sgs_map_clear(g_channel_map, NameOf)
    /\ \E freed \in SUBSET Stored :
          /\ \A p \in Stored : p[2] > 0 => p \in freed
          /\ \A p \in freed : p[2] # NULL
          /\ memory' = memory \ (Program \cup freed)
          /\ refreed' = refreed \cup {<<"context", 0>>} \cup (freed \ memory)
    /\ pc' = "exited"
    /\ UNCHANGED <<joins, phase, misread, current>>

-----------------------------------------------------------------------------
Next ==
    \/ LoginNotStored \/ PasswordNotStored \/ Login
    \/ Disconnected \/ ChannelLeft \/ bye \/ Undefined
    \/ \E id \in Ids, name \in Names :
          JoinWithoutName(id, name) \/ JoinUnlisted(id, name) \/ ChannelJoin(id, name)
    \/ \E id \in Ids : ChannelLeave(id)
    \/ \E n \in DOMAIN joins : LeaveUnread(n)
    \/ \E force \in BOOLEAN : doLogout(force)

Spec == Init /\ [][Next]_vars

-----------------------------------------------------------------------------
Numbers == 1 .. MaxJoins

(* The elements that are allocated are those of the list, each once. *)
ListOK(m) ==
    /\ DOMAIN m.elt \subseteq Numbers
    /\ m.head \in {0} \cup DOMAIN m.elt
    /\ \A e \in DOMAIN m.elt : m.elt[e] \in [key : Numbers, value : Numbers, next : {0} \cup DOMAIN m.elt]
    /\ IsInjective(Chain(m)) /\ ToSet(Chain(m)) = DOMAIN m.elt

Pointers == Program \cup ({"id", "channel", "name"} \X Numbers)

TypeOK ==
    /\ memory \subseteq Pointers \cup ({"login", "password"} \X (1 .. MaxLogins))
    /\ refreed \subseteq Pointers \cup ({"login", "password"} \X (Uninitialised .. MaxLogins))
    /\ joins \in Seq([id : Ids, name : Names, session : 1 .. MaxLogins,
                      got : {"all", "no name", "no element"}])
    /\ Len(joins) <= MaxJoins
    /\ ListOK(channels) /\ ListOK(g_channel_map)
    /\ connected \in BOOLEAN /\ g_session \in BOOLEAN
    /\ logins \in 0 .. MaxLogins
    /\ login \in Uninitialised .. MaxLogins /\ password \in Uninitialised .. MaxLogins
    /\ misread \subseteq DOMAIN joins
    /\ pc \in {"app", "left", "exited", "undefined"}
    /\ current \in {0} \cup Numbers

(***************************************************************************)
(* Each linked list is a map, as map.h promises: the session's from ids to  *)
(* channels, whatever joins, leaves, disconnects and logouts from within    *)
(* channel_left_cb come after one another, and the application's from names *)
(* to channels.                                                             *)
(***************************************************************************)
AsMap(m, of) ==
    [k \in {of[m.elt[e].key] : e \in DOMAIN m.elt} |-> sgs_map_get(m, of, k)]

ChannelsById == INSTANCE SgsMap WITH
    Keys <- Ids, Values <- Numbers, map <- AsMap(channels, IdOf)
ChannelsByName == INSTANCE SgsMap WITH
    Keys <- Names, Values <- Numbers, map <- AsMap(g_channel_map, NameOf)

ImplementsMaps == ChannelsById!Spec /\ ChannelsByName!Spec

(***************************************************************************)
(* Nothing that can still be looked up is freed.  The session's elements    *)
(* have an id and a channel; the application, which keeps its own pointers  *)
(* over disconnects and new sessions, has names it can compare and channels *)
(* it can send on; the channel that is being left survives the callback,    *)
(* even one that forces a logout.  Only ids that a CHANNEL_LEAVE without    *)
(* memory for its own took and freed may be gone.                           *)
(***************************************************************************)
Misread == {<<"id", n>> : n \in misread}

Usable(n) == ChannelMemory(n) \subseteq memory \cup Misread

NoDanglingChannel ==
    /\ \A e \in DOMAIN channels.elt : Usable(channels.elt[e].key) /\ Usable(channels.elt[e].value)
    /\ \A e \in DOMAIN g_channel_map.elt :
          Usable(g_channel_map.elt[e].key) /\ Usable(g_channel_map.elt[e].value)
    /\ pc = "left" => Usable(current)

(***************************************************************************)
(* Nothing is freed twice, or without having been allocated, but the id of  *)
(* a channel that got no name, an id that a CHANNEL_LEAVE without memory    *)
(* for its own took, and at the exit of the program the context, a login or *)
(* password that no login has stored, and the login that was stored without *)
(* its password: no join, leave, logout, disconnect or later login makes    *)
(* another case.                                                            *)
(***************************************************************************)
FreedOnce ==
    \A p \in refreed :
        \/ p[1] = "id" /\ (joins[p[2]].got = "no name" \/ p[2] \in misread)
        \/ /\ pc = "exited"
           /\ \/ p[1] = "context"
              \/ p \in Stored /\ p[2] = Uninitialised
              \/ p = <<"login", login>> /\ password = NULL

(***************************************************************************)
(* A channel is only lost with its session: while the connection lasts,     *)
(* the channels of the session that are allocated are those in its map, the *)
(* one being left after a forced logout, and those that the map had no      *)
(* element for.                                                             *)
(***************************************************************************)
OnlyEndedSessionsLeak ==
    connected /\ pc # "exited" =>
        \A n \in Numbers :
            <<"channel", n>> \in memory =>
                \/ joins[n].session < logins
                \/ joins[n].got = "no element"
                \/ \E e \in DOMAIN channels.elt : channels.elt[e].value = n

(***************************************************************************)
(* The application's entry for a name is a channel the session is in, or    *)
(* one of a session that the server ended: no leave, logout or rejoin makes *)
(* it stale within a session.                                               *)
(***************************************************************************)
StaleOnlyFromEndedSession ==
    connected /\ pc = "app" =>
        \A e \in DOMAIN g_channel_map.elt :
            LET n == g_channel_map.elt[e].value IN
            joins[n].session < logins \/ \E x \in DOMAIN channels.elt : channels.elt[x].value = n

=============================================================================
