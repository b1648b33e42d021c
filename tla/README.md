# Specifications of IvyVideo

IvyVideo is an Android video client. It takes frames from the camera, converts
and scales them, encodes them with FFmpeg's H.264 encoder (`ivyvideo`,
`ivyffmpeg`), and carries a C client for a Project Darkstar game server that the
media session uses for signalling (`sgsclient`). This directory holds TLA+
modules for the parts with concurrency and protocol state, configurations that
check them with TLC, and proofs for TLAPS.

- [Inventory](#inventory)
- [Modules](#modules)
- [Runs](#runs)
- [What the code does otherwise than documented](#what-the-code-does-otherwise-than-documented)
- [Proofs](#proofs)
- [Not modelled](#not-modelled)
- [Plan](#plan)

Paths are relative to `src/trunk/`.

## Inventory

| Part | State | Operations | Interacts with |
|---|---|---|---|
| `ivyvideo/src/IvyClient.cpp`, `VideoEncode.cpp` | one `CVideoEncode` with its encoder `mEncoder`, its one-sample mailbox `mSample`, `mMutex`; `mEncodeMutex` around the calls | start, stop, raw frame; the timer's `onTimer` | called by Java threads through `jni_ivymirage.cpp` and by timer threads; calls `FFmpegEncoder` and the packed-data sink |
| `SampleAllocator.cpp`, `IDummyObject.h`, `MutexLock.h` | reference counts, recursive mutexes | `allocSample`, `addRef`, `release` | camera and timer threads |
| `Timer.cpp`, `Runnable.cpp` | status word, thread | start, stop, loop | one detached thread per start |
| `IvyUtil.cpp` | none | NV21 and YV12 conversion, crop, scale | the capture path |
| `H264Info.cpp`, `RtpPacket.cpp` | none | NAL unit scan, RTP packing | nothing calls them yet |
| `MediaSession.cpp` | context, connection, three descriptor sets | init, uninit, eight callbacks | `sgsclient`; nothing creates one yet |
| `ivyffmpeg/src/FFmpegEncoder.cpp`, `FFmpegDecoder.cpp` | codec contexts, buffers, `opened` | open, close, encode, decode | the capture path makes and deletes encoders; vendored FFmpeg; nothing makes decoders yet |
| `sgsclient/sgs/buffer.c`, `io_utils.c` | circular byte buffer | peek, read, write, clear; move from and to a socket | `connection.c` |
| `sgsclient/sgs/connection.c`, `session.c` | socket, connection state, two buffers, flags of the registered interest, session | login, logout, send, `do_work`, receive | application callbacks, kernel sockets, the server |
| `sgsclient/sgs/channel.c`, `linked_map.c` | joined channels | put, get, remove, clear, send | `session.c` |
| `sgsclient/sgs/message.c`, `id_impl.c` | one message buffer, compact ids | build, parse | `session.c`, `channel.c` |
| `sgsclient/example/chat_client.c` | `g_session`, `g_channel_map`, descriptor sets | commands, callbacks, select loop | the library |

The behaviours that are hard to test, and what makes each part correct:

- **Capture path.** Java threads call start, stop and raw frame at any time; the
  timer threads read `mEncoder` without a lock. Correct means: each sample has one
  owner and is released once; the camera writes only to a sample nobody can free;
  the timer takes the newest frame, each at most once and never out of order; as long
  as nobody stops under it, the timer never meets a lost encoder and the sink is handed only
  what was taken, once; a waiting frame is taken when the camera pauses; no call keeps a mutex.
- **Codec wrappers.** `open` acquires up to ten things in turn, any of which may fail,
  and leaves behind what it had; the object may be closed, opened again or deleted in any
  order after that; the codecs keep frames and pictures back. Correct means: no pointer
  dangles, an open codec has what encoding and decoding dereference, nothing leaks but what is
  known to, and no picture is announced twice.
- **Buffer and socket loops.** Everything happens at the point where the ring wraps
  and where the socket gives or takes less than asked. Correct means: it is a FIFO
  queue, and the return values mean what `connection.c` takes them for.
- **Channels and map.** The server adds and removes channels at will, allocations fail,
  and the application keeps pointers to the library's channels over leaves, logouts and
  disconnects. Correct means: the linked lists are maps, nothing that can be looked up is
  freed, nothing is freed twice but in the cases listed below, and a channel is lost only with
  its session.
- **Messages and ids.** One buffer serves the message being received and those sent from
  its callback; lengths are 16 bits wide and are compared, with and without the two bytes
  of the length field, in several places. Correct means: what goes out and what a
  callback sees is what `protocol.h` says, and nothing is written behind the buffer.
- **Colour conversion and NAL units.** Index arithmetic over planes, and a scan that looks
  at every second byte. Correct means: each pixel and each colour ends where it belongs,
  and no unit is cut short or swallows the next.
- **Connection and session.** One thread, but the server and the network act between
  any two steps of `do_work`, a read or write may move a part and then fail, and the application
  calls back into the connection from its callbacks, where it may log in again. Correct means: a session is not
  contaminated by the one before; messages are delivered once and in order; the
  library and the server agree about the channels; the application sleeps in
  `select` only while nothing it waits for is lost; what is queued is sent.

`PROJECT.json` lists the hazards line by line, with the properties that cover them. Where the
code goes wrong and a property has to exempt just that case, the hazard names no property and
says so.

## Modules

### VideoPipeline (with FrameMailbox)

`VideoPipeline.tla` has two kinds of threads. A *caller* is a Java thread behind
`jni_ivymirage.cpp`; when idle it may call start, stop or raw frame. A *timer* is a
thread that `CTimer::startTimer` created. Each action is the code between two places
where another thread can see or change something: taking or giving up a mutex, and
each unprotected access to `mEncoder`.

| Code | Actions |
|---|---|
| `CIvyClient::startSelfVideo`, `CVideoEncode::init` | `StartSelfVideo`, `InitNew`, `OpenSucceeds`, `OpenFails`, `InitFailed`, `StartTimer` |
| `CIvyClient::stopSelfVideo`, `CVideoEncode::uninit` | `StopSelfVideo`, `UninitLock`, `UninitDelete`, `UninitReturn` |
| `CIvyClient::onRawFrame`, `CVideoEncode::onRawFrame` | `OnRawFrame`, `DropRawFrame`, `RawConvert`, `RawLock`, `RawFill`, `RawReturn` |
| `CVideoEncode::onTimer`, `CTimer::loopRun` | `TimerCheck`, `TimerTake`, `TimerEncode`, `EncodeNothing`, `EncodeBytes`, `EncodeDies`, `TimerPack`, `PackDies`, `TimerRelease`, `TimerWake` |

- `mEncodeMutex` serialises the callers, `mMutex` protects `mSample`. `TimerTake` is
  one step because `getSample` holds `mMutex` from its first line to its last and
  calls nothing that blocks.
- `delete` and the assignment of NULL in `SAFE_DELETE` are two steps (`UninitDelete`,
  `UninitReturn`); a timer thread can read the pointer in between.
- The H.264 encoder has a delay: `FFmpegEncoder.cpp:430` asks for B-frames, and libx264 looks
  ahead. A call of `encodeVideoFrame` may keep the frame and return no bytes, and the bytes it
  returns are of any frame it was given and has not returned (`delayed`). `videoBuffer` is what
  the buffer holds by then. No order among delayed frames is assumed, so what is shown holds of
  every codec that returns a frame at most once. The wrapper never flushes: what the codec keeps
  when the encoder is deleted is lost (`UninitDelete`).
- Using a deleted or NULL encoder is undefined behaviour: the call may die
  (`EncodeDies`, `PackDies`), return nothing, or return and hand on bytes that are none
  (`NoBytes`). After the process died only `Dead` stutters, so that TLC's deadlock check still
  finds threads that block one another.
- A frame is its number. `ScaleYUVFrame` (marked TODO in the source) depends only on
  how the frame compares with the encoded picture: *large* is written, *same* reports
  success without a copy, *small* fails; in both of these the sample goes on
  its way with what it held (0 stands for memory never written to).
- The history variable `disturbed` becomes true when the encoder is deleted or
  replaced while a timer thread is alive. The code does nothing to prevent this, and
  no document says it may not happen; the properties about the encoder are stated for
  the time before it, so they do not cover that race. `taken` and `handed` are history too: the
  frames taken from the mailbox and those whose bytes the sink was handed.
- A thread that waits for `mEncodeMutex` is still at `idle`: the first step of a call takes the
  mutex.
- `frameSize` is constant for a profile, so the branch of `getSample` for a capacity
  smaller than the picture is never taken.

`FrameMailbox.tla` is what the path promises: a mailbox for one frame. Frames are
numbered; the newest one replaces the one waiting; taking one empties the box and
never yields an older frame after a newer. `VideoPipeline` implements it under the
mapping `BoxFrame`, `PendingFrame`.

### SgsBuffer (with SgsFifo)

`SgsBuffer.tla` is `buffer.c` and `io_utils.c` byte for byte: position, size, the
contiguous length for reading and for writing, and the two loops over `recv` and
`send` with one socket call per step (`SocketRead`, `SocketReadEof`, `SocketWrite`,
`SocketFails`). `SgsFifo.tla` is the promise of `buffer.h`: a bounded FIFO queue whose
block operations succeed as a whole or change nothing.

### SgsConnection (with SgsSession)

`SgsConnection.tla` composes `connection.c`, `session.c` and the channel map with an
application of `chat_client.c`'s discipline (no login with a session, descriptors
registered through the callbacks, `select`, then `do_work`) and with the
environment: the kernel's sockets and a server.

| Code | Actions |
|---|---|
| `sgs_connection_login` | `LoginWithoutSocket`, `LoginFails`, `LoginInProgress`, `LoginConnects` |
| `sgs_session_direct_send`, `sgs_channel_send` | `DirectSend`, `ChannelSend` |
| `sgs_connection_logout` | `Logout`, `LogoutRefused`, `LogoutForce` |
| `sgs_connection_do_work` up to its read | `DoWorkReads`, `DoWorkReadStops`, `DoWorkReadFails`, `DoWorkCloses`, `DoWorkWrites` |
| `consume_data`, `sgs_session_impl_recv_msg` | one action per opcode, `ReceiveFails`, `ConsumeEnds`, `CallbackReturns` |
| the rest of `do_work` | `WriteOut`, `WriteFails`, `Interest` |
| kernel and server (external) | `Accept`, `Reset`, `ServerReceives`, `ServerCloses`, `ServerAnswersLogin`, `ServerAnswersLogout`, `ServerTalks` |

- `do_work` keeps two locals from before its callbacks, `sockfd` and the write set
  (`writable`). They are state of the model, because a callback may log in again and
  make them describe another socket.
- Messages travel in two pieces each way, so that one can have arrived, or been sent, in part.
  The buffers are rings of pieces: a content and a position (`inbuf`, `inpos`; `outbuf`,
  `outpos`), with `writable_len` and `readable_len` for what lies before the end of the block.
  The bytes are `SgsBuffer`'s.
- `DoWorkReadStops` is the read whose first `recv` fills the ring just up to the end of its block
  and whose second, into the start of the block, finds nothing: -1 with bytes stored. `WriteFails`
  has its counterpart, a second `send` that the kernel does not take.
- A socket has room to send or is `full`. Every write may leave it full, and one that is cut
  short does; only the server's receiving (`ServerReceives`) or a reset ends that, and nothing
  obliges the server. A full socket is not writable in `select`. One assumption: login requests
  alone do not fill a fresh socket (`Sent`). Names and passwords are far smaller than a
  kernel's send buffer; if they were not, a `do_work` that goes on after a login from
  `login_failed_cb` could pass the write and register interest for the descriptor before.
- `callback` names the callback the application is in; in `login_failed` and
  `disconnected` it may log in, in most others it may send, in `recv_message` it may
  log out.
- On `LOGIN_REDIRECT` the code frees the connection that its callers are using:
  `dangling` becomes true and nothing after that is defined, so no action is enabled
  but the environment's.
- A refused connection or a reset is `"reset"`: a read fails once and then meets the end
  of the stream (`"dead"`).
- `Patient` says whether the user logs in only when the connection is disconnected.
  `doLogin` itself tests only `g_session`; with `Patient = FALSE` a second login opens a
  new socket over `socket_fd`, and `InterestKept`, `LoginFirst`, `SessionMeansLoggedIn` and
  `ChannelsAgree` fail. All runs assume it is TRUE.
- The server keeps to `protocol.h`: it answers a login once, a logout once, and in
  between sends what it likes, joins and leaves without effect included. `Stray` adds
  opcodes nobody asked for: an unknown one, `RECONNECT_SUCCESS`, `RECONNECT_FAILURE`.
- The POSIX build is modelled: `select` reports no exception set for a plain socket,
  so `connection.c:101-109` has no action.

`SgsSession.tla` is what the library promises the application: a queue of what the server
said, heard in order by a client whose channels and session follow from it, and emptied by
every end of the connection. The refinement mapping takes `inbuf` and the socket for that
one queue (`Unread`), whose messages are made of two pieces each (`Joined`); a step of
`do_work` that only moves pieces is a stutter.

### SgsChannels (with SgsMap)

`SgsConnection` has the channel map as a set of ids. `SgsChannels.tla` is `linked_map.c` as
lists of elements, with the memory of each channel, its id and its name, and the map of
`chat_client.c`, which points to the library's channels. `SgsMap.tla` is the promise of
`map.h`; both lists refine it.

| Code | Definitions |
|---|---|
| `sgs_map_contains`, `get`, `put`, `remove`, `clear` | operators of these names, over `Chain` and `Place` |
| `CHANNEL_JOIN`, `sgs_channel_impl_create`, `channel_joined_cb` | `ChannelJoin`, `JoinWithoutName`, `JoinUnlisted` |
| `CHANNEL_LEAVE`, `channel_left_cb`, `sgs_channel_impl_destroy` | `ChannelLeave` or `LeaveUnread`, then `ChannelLeft` |
| `sgs_session_impl_login` (what it stores), `LOGIN_SUCCESS` | `LoginNotStored`, `PasswordNotStored`, `Login` |
| `sgs_connection_impl_disconnect`, `disconnected_cb` | `Disconnected` |
| `doLogout`, also from `channel_left_cb` | `doLogout` |
| `bye`, `sgs_connection_destroy`, `sgs_session_impl_destroy` | `bye` |

- Everything the n-th join allocates has the number n, list elements included, so that a
  pointer is a number and NULL is 0. `refreed` collects what is freed when it is not
  allocated.
- Each login stores a copy of its name and password. `PasswordNotStored` is `session.c:134-137`:
  the name is freed and `session->login` goes on pointing at it, until `bye` frees it again.
- `LeaveUnread` is `session.c:358-362` when `sgs_msg_read_id` gets no memory: it leaves
  `channel_id` uninitialised, and only NULL is noticed. The model has the outcome that an
  earlier join left the pointer to its id there: that channel is looked up and its id freed
  (`misread`). Any other uninitialised value, the NULL id that `sgs_id_create` may return and
  that a join or message then compares (`sgs_id_compare` dereferences it), and everything that
  may follow from a freed id, is `Undefined`: the model stops there.
- A leave is two steps, because `channel_left_cb` runs while the channel is still in the
  map, and may log out there.
- What the server sends is free here; `SgsConnection` has the order.

### SgsMessage

`SgsMessage.tla` is `message.c` and `id_impl.c` with every caller of theirs: what the client
sends (`DirectSend`, `ChannelSend`, `Login`, `Logout`), what each opcode reads (one `Recv...`
action each) and the callback, which may send before it returns. An application that sends
back the payload it is handed (`EchoDirect`, `EchoChannel`) copies from `msg_buf` to `msg_buf`.

- A byte has `Byte` values instead of 256, and a length is two digits: `Digits`, `Number`
  and `Int16` are the conversions with their wrap-around. Other contents are numbers
  that tell every place of every field apart.
- `msg_buf` has two cells more than the code's: what follows it in memory.
- `Wire` is what `protocol.h` says, built from the fields, not from the code.
- `Receive` admits messages that fit `inbuf`, of `SGS_MSG_MAX_LENGTH` bytes.

### FrameConvert and NalUnits

Two small machines of pure functions. `FrameConvert.tla` takes a frame through the
operations of `onRawFrame`: `Crop`, `ConvertNV21`, `ConvertYV12`, each the whole function of
`IvyUtil.cpp` (`CropYUVFrame`, `NV21toI420`, `YV12toI420`) byte by byte. A byte is the plane and
place in the scene that it came from, so a picture put together wrongly shows it;
`ByteOf`, from the definition of the formats, says where each byte belongs.
`NalUnits.tla` is `findNALUStartCodeSize` and `findNALU` with a reader that appends a byte,
asks, and drops the unit it is given; the repository has no reader yet, so the reader is
external. `MCVideoBytes` checks both in one run; a behaviour moves one and rests the other.

### FFmpegEncoder and FFmpegDecoder

Both modules follow one object at a time through new, open, close and delete, while
`heap` is the memory of the process. An allocation is a kind and the number of the open
call that made it; a pointer field is that number or 0, so a field overwritten by a second
open, or lost with its object, shows as memory nothing reaches.

| Code | Actions |
|---|---|
| constructors and `init()` | `New` |
| `open` | `OpenRefused`, `Open` |
| `close`, the destructors | `Close`, `Delete` |
| `encodeVideoFrame`, `encodeVideoData` | `EncodeVideoFrame`, `EncodeVideoMismatch`, `EncodeVideoRefused` |
| `encodeAudioFrame`, `encodeAudioData` | `EncodeAudioFrame`, `EncodeAudioRefused` |
| `decodeVideoFrame`, `decodeAudioFrame` | `DecodeVideoFrame`, `DecodeVideoRefused`, `DecodeAudioFrame`, `DecodeAudioRefused` |

- `open` is one step because no other thread sees the object while it runs, other than
  the timer thread that `VideoPipeline` is about. `Rank` is the order of its acquisitions;
  a call attempts those up to the first checked one that fails. The results of
  `av_malloc` for the buffers are not checked: such an `open` succeeds, and the process
  dies at the first use (`crashed`).
- What libavcodec does is external: a stream comes with its codec context, an opened codec
  with private memory. A packet may or may not yield a picture, and the picture is of any
  packet given and not yet shown (`Given`): the H.264 decoder keeps pictures back to put them in
  order (`delayed_pic`). `shown` collects the pictures that were announced.
- A single byte of PCM is no sample of two: `ReadsPastSamples`. The size stays the one of the
  encoder's own buffer, so the codec reads past the caller's data, and the call may die.
- `pcm` and `converts` are what the codec turns out to be: one without a frame size, one
  without the configured pixel format.

Each of the modules keeps, beside some definitions, a plausible slip of the
code (a dropped guard, a missing reset), marked *Slip of*. The specification does not
use them; `PROJECT.json` names for each property the slip that violates it.

## Runs

| Run | Instance | Checks |
|---|---|---|
| `video_safety` | 2 callers, 2 timer threads, 4 samples, 3 encoders, 2 frames; symmetric | `TypeOK`, `SampleOwnership`, `FilledSampleIsMailbox`, `MailboxFormatted`, `UndisturbedEncoder`, `UndisturbedPacking`, `ImplementsMailbox` |
| `video_live` | 2 callers, 1 timer thread, 3 samples, 2 encoders, 2 frames | `WaitingFrameTaken`, `CallsReturn` |
| `sgs_buffer` | 3 bytes, 2 values, requests up to 4 bytes | `TypeOK`, `ImplementsFifo`, `ResultsMeanWhy` |
| `sgs_connection` | 3 logins, 1 send, 3 server messages per connection, 2 descriptors, 1 channel, `inbuf` of 3 pieces, `outbuf` of 4 | `TypeOK`, `ChannelsAgree`, `SessionMeansLoggedIn`, `InterestKept`, `LoginFirst`, `ImplementsSession` |
| `sgs_connection_live` | 2 logins, `outbuf` of 3 pieces, otherwise the same, and `RECONNECT_FAILURE` | `ConnectResolves`, `OutbufDrains` |
| `sgs_channels` | 3 ids, 2 names, 3 joins, 2 logins, every allocation failing at will; symmetric | `TypeOK`, `NoDanglingChannel`, `FreedOnce`, `OnlyEndedSessionsLeak`, `StaleOnlyFromEndedSession`, `ImplementsMaps` |
| `sgs_message` | bytes of 4 values, 3 messages, sizes at the edges | `HandedAsSent`, `SentAsProtocolSays`, `OnlyOversizeOverruns` |
| `video_bytes` | widths and heights of 2 to 8; streams up to 9 bytes of 3 values | `LumaIsWindow`, `ColourFollowsPixels`, `UnitsAreWhole` |
| `encoder` | 2 opens over all objects, 1 leaked frame, audio frames of 0 to 2 bytes | `TypeOK`, `NoDanglingPointer`, `OpenedReady`, `LeaksExplained` |
| `decoder` | 2 opens over all objects, 3 packets | `TypeOK`, `StreamsReady`, `LeaksExplained`, `FramesAreCurrent` |
| `sgs_write_early` | 2 logins, 1 send, 2 server messages | `WritesOnceConnected`, which the code violates |
| `sgs_stranded` | 1 login, 2 server messages, `inbuf` of 4 pieces | `WaitingMessageHandled`, which the code violates |

**Why the bounds suffice.** *Video*: two callers contend for `mEncodeMutex` and only
one can be inside, so a third adds nothing but waiting. Two timer threads are what a
second start leaves behind. Four samples are the most that can be allocated at once
(the mailbox, the one being delivered, one per timer thread); three encoders are one
current and one dangling per timer thread. Two frames make a replacement and a frame
after a taken one possible, and a frame that the codec returns after a later one was given; that
the camera starves the timer takes more, and is not claimed impossible (see Fairness). *Buffer*: three bytes
have every relation of head, tail and end of the block (empty, full, wrapped,
ending at the boundary), and four makes a request that can never fit. *Connection*: a
contamination needs an earlier and a later session; the third login adds a session
that ended inside a callback of the one before. Three server messages are the
login's answer, a join and one message more. `InCapacity = 3` holds one and a
half messages, so `inbuf` is full with part of a message in it, and both a message and the free
space come to lie across the end of the block; 4 pieces in `sgs_stranded` let a message end there.
`OutCapacity` is 4, a request of an earlier login that failed and another, and 3 so that
a logout request finds room only when the message before it is sent in part, and then wraps. One channel suffices for the
map because channels do not interact. *Codecs*: two opens make every pair of an outcome
and a later one, on the same object or on another. One byte is the only size of an audio frame that is not empty and yet has no
short. Three packets let an audio packet come between two video packets, and a picture
come two packets late. *Channels*: three
elements have a first, a middle and a last; two names for three channels make a name
clash; two logins leave stale entries behind, and a password that was not stored before a login
that was. *Messages*: with bytes of 4 values
`SGS_MSG_MAX_LENGTH` is 15, the largest payload 13 and the largest `int16_t` 7, and the
sizes lie on both sides of each; the three messages are one that fills the buffer, one
received into it, and one sent from its callback. *Bytes*: margins of 0 to 6
pixels have every remainder of the halves and quarters that the code takes; nine
bytes hold a start code, a unit and a start code of four bytes at even and odd offsets.
For the safety properties the bounds matter less than they seem to: each is also
[proved](#proofs) for every value of the constants.

**Deadlock.** It is checked in the video and buffer runs. The connection runs switch it
off: once the bounds on logins and messages are used up, or after a redirect has freed
the connection, nothing has to happen. So do the codec runs, where the process can die
on a NULL buffer, and the channel, message and byte runs, which end at their bounds, with
the exit of the program, or where it is undefined what the code does.

**Fairness.** Only weak fairness is assumed anywhere. *Video*: a thread inside a call keeps
running (each caller's steps inside a call, each timer thread); nobody has to call the
interface. A thread gets a mutex that stays free, but one that competes for it need not: a
pthread mutex promises no more. So `WaitingFrameTaken` is about a frame after which no other has
come yet (`nFrames = n`); under frames that never end the camera may win `mMutex` at every
tick, and nothing is claimed. *Connection*: `do_work` runs to its end; the main loop calls it
when `select` reports a *registered* event (so a lost registration shows as starvation); a
connect in progress is accepted or refused in the end, as the kernel's timeout sees to. Neither
the user nor the server has to do anything. A server that stops receiving fills the socket, and
`outbuf` then need not drain: `OutbufDrains` has the premise that no socket stays full for good.

What the properties say:

- `SampleOwnership`: each allocated sample has one owner and the count 1.
  `FilledSampleIsMailbox`: what the camera copies to is the mailbox's sample, allocated.
  `MailboxFormatted`: the early return of `onTimer` that would leak a sample is dead.
  `UndisturbedEncoder`: until `disturbed`, no thread meets a lost encoder.
  `UndisturbedPacking`: until then the sink is handed only bytes the encoder returned for a frame
  taken from the mailbox, and no frame's bytes twice, although the codec often returns none
  and the buffer then holds those of an earlier call. Of which frame, and in which order, is up to
  the codec.
  `ImplementsMailbox`: the refinement of `FrameMailbox`.
- `WaitingFrameTaken`: a frame waiting for a live encoder is taken once the camera pauses.
  `CallsReturn`: a call that has got `mEncodeMutex` returns, and its thread then holds neither
  mutex, whichever way it returns; so a waiting thread always finds the mutex free again,
  though nothing says that it is the one to get it.
- `ImplementsFifo`: the refinement of `SgsFifo`. `ResultsMeanWhy`: 0 with room left
  means the stream ended, which is what `connection.c:118-121` makes of it, and a write loop
  that the socket never cut short empties the buffer.
- `ImplementsSession`: the refinement of `SgsSession`: once, whole, in order, and nothing of
  an earlier connection. `ChannelsAgree`: the channel map, once all that is on the way is
  applied, is the server's, and in a session the application can send on every
  channel it is in. `LoginFirst`: a server is sent a whole login request before anything
  else, also when the connection before was lost in the middle of a message. `SessionMeansLoggedIn`: a session means a live connection on which the
  server has the client logged in. `InterestKept`: what is registered, the flags, and what the
  connection waits for agree whenever the application goes to `select`.
- `ConnectResolves`, `OutbufDrains`: a connect in progress ends in a way the client
  notices; what is queued is sent or the connection ends, unless the server stops receiving
  for good.
- `ImplementsMaps`: the refinement of `SgsMap` by both lists. `NoDanglingChannel`: what the
  library or the application can look up is allocated, also a channel being left.
  `FreedOnce`: what is freed twice is what the next section lists, up to where an uninitialised
  or freed id makes the program undefined. `OnlyEndedSessionsLeak`: a channel is lost only with its
  session, or when the map had no element for it. `StaleOnlyFromEndedSession`: an entry of the application that the library
  does not have is of a session that the server ended.
- `HandedAsSent`, `SentAsProtocolSays`: both directions of the one buffer, for
  payloads up to `SGS_MAX_PAYLOAD_LENGTH`. `OnlyOversizeOverruns`: only a larger one
  writes behind the buffer.
- `LumaIsWindow`, `ColourFollowsPixels`: the picture is the middle of the scene, its colour
  too at the margins where the crop is right. `UnitsAreWhole`: a unit that
  is cut off ends where the next start code begins, and the last unit hides no start code.
- `NoDanglingPointer` and `OpenedReady`, together `StreamsReady` of the decoder: fields that
  are not NULL point at live memory, and an open codec has its streams, contexts and opened
  codecs. `LeaksExplained`: what nothing reaches comes from a failed open or is a frame of
  a refused picture (of the decoder: a codec context). `FramesAreCurrent`: a size that is not 0
  announces a picture that was not announced before, of an open decoder and in a buffer that is
  still there; a packet without a picture announces none, although the buffer holds one.

## What the code does otherwise than documented

Two of them are runs whose property TLC finds violated; the quotations are in `PROJECT.json`.

| Run | Claim | What happens |
|---|---|---|
| `sgs_write_early` | `connection.c:216-218`: nothing is written until the socket has connected | a login from `login_failed_cb` is written to the connecting socket, because `do_work` goes on with the earlier write set |
| `sgs_stranded` | `connection.c:404-407`: stops once only part of a message remains | a read fills the ring up to the end of its block, the second one fails with -1 (`io_utils.c:50-60`), and a whole message is left unhandled |

The others are part of the models, which do what the code does.

*Connection and session*

- A redirect frees the connection that `consume_data`, `do_work` and the application go on
  using (`LoginRedirect`), although the reconnect is to be transparent for the user
  (`session_impl.h:58-60`).
- `LOGOUT_SUCCESS` and `RECONNECT_FAILURE` disconnect without a callback
  (`SilentDisconnect`), although `context.h:149` announces one whenever the connection is
  disconnected.
- A login that failed in `connect` leaves its request in `outbuf`, and the next login
  sends that first (`LoginFails`; `connection.h:85-86`).
- `sgs_connection_logout` returns 0 when `outbuf` had no room for the request (`Logout`).
- The chat client's `g_channel_map` keeps the channels of a session that the server ended
  (`disconnected_cb`; `chat_client.c:324-325`).

*Channels*

- A disconnect clears the map and frees none of its channels (`Disconnected`), and so does
  the end of the program; a channel the map had no element for is not freed either
  (`JoinUnlisted`).
- A join that gets no memory for the name frees the id twice (`JoinWithoutName`).
- A login that gets no memory for the password leaves `session->login` pointing at what it has
  freed, and the end of the program frees it again (`PasswordNotStored`; `session.c:134-137`).
- A leave that gets no memory for the id uses an uninitialised pointer, and may free the id of
  another channel (`LeaveUnread`; `session.c:358-362`). A join or a message whose id got no memory
  compares NULL (`Undefined`; `session.c:324-328`, `385-390`).
- `bye` destroys the context twice, and frees a login and password that are not initialised
  before the first login (`bye`, `FreedOnce`); so would `CMediaSession::uninitSGSClient`.

*Messages*

- A payload of one or two bytes more than `SGS_MAX_PAYLOAD_LENGTH` passes the
  test, is written behind `msg_buf`, and makes `sgs_msg_get_size` wrap to 0 or 1
  (`TooLong`, `OnlyOversizeOverruns`).
- A message of the server whose length field is larger than 65533 never fits `inbuf`, so it
  would never be handled (`Receive`).
- A string of 32768 bytes or more is refused because its length is an `int16_t`
  (`sgs_msg_add_string`).

*Frames and NAL units*

- A crop to the size of the source reports success and copies nothing (`CropYUVFrame`).
- The crop of planar chroma starts a number of pixels, not of blocks, from the left, and
  that of NV21 with an odd half-margin takes U for V (`ColourFollowsPixels`).
- `findNALU` answers 0 with no size when the first zero that it looks at is not part of a
  start code of three bytes, and without any start code it reads the byte before the buffer (`Find`).

*Codecs*

- `FFmpegEncoder::close` releases nothing after a failed open (`Close`), although it is to
  release the memories (`FFmpegEncoder.h:172`).
- Frames that the codec still keeps when an encoder is closed or deleted are lost: nothing
  flushes it (`UninitDelete`).
- An audio frame of a single byte makes the codec read past it (`ReadsPastSamples`;
  `FFmpegEncoder.cpp:289`, `298-302`).
- A decoder for audio only never opens (`Open`), although it has a constructor
  (`FFmpegDecoder.h:45-46`): `FFmpegDecoder.cpp:187` tests the video stream.
- `FFmpegEncoder::getVideoEncodedBuffer` returns the buffer of a failed open
  (`FFmpegEncoder.h:92`); a picture of the configured format is refused, and its frame
  leaks, when the codec has another format (`EncodeVideoMismatch`; `FFmpegEncoder.cpp:126`);
  after a close, open returns 0 without opening a codec (`Plan`).
- `FFmpegDecoder::close` frees the streams without their codec contexts (`Freed`); after a
  failed audio decode `getAudioFrameSize` may return the size of the buffer
  (`DecodeAudioFrame`).

The login and password before the last are never freed (`Login`). Outside the models: the
name buffer of each join and the reconnect key before the last are not either; the login and password kept for a redirect are
stored without their terminators (`session.c:130-138`); `chat_client.c:196` compares its
`char` names with `wcscmp`.

## Proofs

Each safety property of a passing run, invariant, action property or refinement, is a
theorem: it holds for every value of the constants. Eight modules hold the proofs.

| Module | Theorems |
|---|---|
| `VideoPipelineProofs` | `TypeCorrect` (`TypeOK`), `OneOwnerPerSample` (`SampleOwnership`), `CameraFillsMailbox` (`FilledSampleIsMailbox`), `NoUnformattedSample` (`MailboxFormatted`), `EncoderOutlivesUse` (`UndisturbedEncoder`), `SinkGetsTakenFrames` (`UndisturbedPacking`), `Refinement` (`ImplementsMailbox`) |
| `FFmpegEncoderProofs` | `TypeCorrect`, `NoDangling` (`NoDanglingPointer`), `OpenIsReady` (`OpenedReady`), `OnlyFailuresLeak` (`LeaksExplained`) |
| `FFmpegDecoderProofs` | `TypeCorrect`, `StreamsAreReady` (`StreamsReady`), `OnlyFailuresAndContextsLeak` (`LeaksExplained`), `PicturesAnnouncedOnce` (`FramesAreCurrent`) |
| `SgsConnectionProofs` | `TypeCorrect`, `InterestIsKept`, `LoginComesFirst` (`LoginFirst`), `SessionIsLoggedIn` (`SessionMeansLoggedIn`), `ChannelsAlwaysAgree` (`ChannelsAgree`), `SessionImplemented` (`ImplementsSession`) |
| `SgsBufferProofs` | `TypeCorrect`, `FifoImplemented` (`ImplementsFifo`), `ResultsMeanWhyHolds` (`ResultsMeanWhy`) |
| `SgsChannelsProofs` | `TypeCorrect`, `NothingDangles` (`NoDanglingChannel`), `FreedOnlyOnce` (`FreedOnce`), `LeakOnlyWithSession` (`OnlyEndedSessionsLeak`), `StaleOnlyAcrossSessions` (`StaleOnlyFromEndedSession`), `MapsImplemented` (`ImplementsMaps`) |
| `SgsMessageProofs` | `CallbacksHandedAsSent` (`HandedAsSent`), `MessagesSentAsProtocolSays` (`SentAsProtocolSays`), `NoOverrunWithinPayload` (`OnlyOversizeOverruns`) |
| `VideoBytesProofs` | `LumaShown` (`LumaIsWindow`), `ColourShown` (`ColourFollowsPixels`), `UnitsFoundAreWhole` (`UnitsAreWhole`) |

**Assumptions.** Each proof rests on the named assumption of its module about the
constants, which TLC evaluates in the run of that module, and on nothing else but in
one place: the theorems of `SgsConnectionProofs` begin `ASSUME Usual`, that is
`Patient /\ "RECONNECT_FAILURE" \notin Stray`. The run `sgs_connection` gives the constants
such values. Without the first half `InterestKept` and `LoginFirst` are false (see
[SgsConnection](#sgsconnection-with-sgssession)); without the second the server could take a
client out of a session that the client believes it is in, against the protocol.

**The arguments.** Hardly one property is inductive alone. What each module's invariant adds
is what the code relies on without saying so.

*Capture path.* `Locks`: the holder of each mutex is the thread whose program counter says so.
`Holding`: a thread has a sample exactly between getting and releasing it. `Owned`: every
sample with a count has one owner, mailbox or thread, and count 1. `Aliased`: the camera's
second pointer is the mailbox's sample, while it has `mMutex`. `Formatted`: a sample
without a format is in the mailbox only while the camera fills it. `Opening`: what
`mEncoder` is between its allocation and the start of the timer. `Undisturbed`: until
`disturbed` there is at most one timer thread, and it uses the current, open encoder.
`TypeCorrect` needs all of it, because a count that is
decremented must have been one. For `Refinement`, `Order` adds that the frame being
delivered is newer than the one waiting and that newer than the last taken. For
`SinkGetsTakenFrames`, `Handing` says where a taken frame can be: all taken frames are older than
the one waiting, a frame in the codec was taken and not handed on, and what is in the
buffer while it is packed has left the codec (`NotInCodec`).

*Codecs.* `Numbered`: an open's number is new. `ClosedPointsAtFailed`: an object that is not
open points only at what a failed open left. `UnusedFieldsNull`: a stream that is not
used has no fields. `GoneIsNull`. With them an overwritten field was a failed open's,
and a close that skips a stream skips nothing; `OwnedDisjoint` keeps the memory of the
fields apart, so releasing some leaves the others' alone. The decoder adds
`UnusedSizesNone`: only a stream that is decoded announces a frame, without which a close
would leave one; and `HeldBack`: what the codec keeps was given to it and has not been shown,
nor is it the picture in the buffer.

*Buffer.* The invariant is about the loops: what one has read is still in the buffer, what one
has written made room. The work is in the ring. `Ring` is the queue that a block, a position
and a size hold; `RingCopyIn` and `RingFront` say what one `memcpy` does to it when
nothing wraps, `WriteAppends` and `StoredIsFront` what the two copies of `buffer.c` do when it
does, and `TailPosition`, `ReadableLen` and `WritableLen` what the positions are that the code
computes with `%`. The refinement maps the buffer to its `Ring`.

*Connection.* The parts of `IInv` tie together what the socket, the server, the buffers, the
application and `do_work` hold of the one connection there is:

- `OneSocket`: only the socket of a live connection is more than open.
- `GoneInv`: a connection that is no more has no session, no channels, nothing unread, and
  nothing but login requests in `outbuf` (a login that failed leaves one there).
- `ServerInv`: what is unread, in `inbuf` and on the way, is whole messages, both pieces of each
  (`Paired`); a success of the login is the first of them and a goodbye comes only
  when the server has left the session (`Coming`); before the server has read a login there is
  nothing unread and no logout to be sent (`Asking`).
- `ChannelsInv`: applying what is unread to the client's channels gives the server's.
- `OutInv`: the last message in `outbuf` is whole, and so is the first while the server has been
  sent nothing or there is no connection.
- `WorkInv`: `do_work` goes on with another descriptor only after a login in a callback,
  and then the server has been sent nothing on the new socket. As long as the client has not
  heard that the server let it in (`Unanswered`) the write set has the descriptor, because login
  requests do not fill a socket; so that `do_work` writes to the descriptor that was closed, fails,
  and never comes to register interest for it.
- `InterestInv`: what `InterestKept` says, at every step.

The lemmas `AppliedHead`, `AppliedAppend` and `AppliedRest` say what `Applied` does with a piece
more or less at either end. The refinement maps the unread pieces, two by two, to the messages
`SgsSession` has in flight: a server's send appends one message, `consume_data` takes one, and
every partial read, failed call and write is a stutter.

*Channels.* A list of `linked_map.c` is described by the sequence of its elements
(`ListOf`). The code walks it, so what put, get, remove and clear compute is proved by
choosing the least place at which a claim fails (`LeastNumber`), which takes the place of
an induction; `MapPut`, `MapRemove` and `MapClear` state the results without sequences, and the
proofs about channels use only these. The invariant says that what is listed is allocated
(`MemoryOK`), that everything listed by the library is of the session there is, and, for the
leaks and the stale entries, which of the lists a channel of that session is in
(`LeaksOK`, `StaleOK`, `CurrentOK`). `LoginOK` and `FreedOK` say what the session's pointers to
name and password are worth: allocated, never set, NULL, or a name freed for want of a
password. The refinement maps each list to its `AsMap`.

*Messages.* `Holds` says that a field is in a buffer at a place, `Kept` that a write left
everything from a place on as it was. As long as no call failed a message is `Good`: it
holds its length, its opcode and the fields so far. `ArbAdded`, `FixedAdded` and
`StringAdded` add a field, `FirstIdRead`, `LastIdRead` and `StringRead` get one back. The
invariant `MessageInv` adds to the properties where in `msg_buf` a payload starts that a callback is
handed (`PayloadInv`, `EchoInv`): an echo has written up to that place and no further
when it copies the payload, so it copies what was received.

*Frames and NAL units.* `FrameInv`: a frame has even sizes and is, in the camera's format or
converted, the picture that the crop took from the scene, or it is the blank of a crop to the
same size. The index arithmetic of the crop and of the conversions is one lemma for each
kind of plane (`RowTaken`, `PairTaken`, `BlockTaken`; `ConvertedByte`), stated on opaque bytes.
For the scan, `CodeLookedAt` shows that looking at every second byte sees a zero of
each start code and `BackOverZeros` that going back finds where it begins; `FirstCode` and
`UnitCodes` that the unit ends at the first code after its own.

**Only model-checked.** Liveness (`WaitingFrameTaken`, `CallsReturn`, `ConnectResolves`,
`OutbufDrains`): fairness and ENABLED are beyond the prover. So are the two violated claims,
which are counterexamples. `MessageInv` and the other inductive invariants were also checked by TLC
on small instances.

## Not modelled

- **Media session** (`MediaSession.cpp`). Nothing creates one; the eight callbacks of its session do
  nothing, `register_fd_cb` records nothing, and nothing calls `sgs_connection_do_work`, so no
  message ever reaches it: a model would have no behaviour to check.
- **Timer and thread**: `stopTimer` and `stopRun` are called only by the destructor of a timer that
  nobody deletes, so the status word stays at running after the first start.
- **The release of the last reference** is one step; what unlocking a mutex inside
  the deleted object does (`IDummyObject.h:23`) is up to the allocator.
- `setVideoEncodeParams`, `setExternalVideoEncodeSink`; the peer-video calls (empty).
- The tuning parameters of the codec contexts; `FFmpegEncoder::convertPixFmt`, which nothing
  calls.
- `getNRI`, `getNALUType` (one mask each); `RtpPacket`, of which only `packSglData` does
  anything, a header and one copy.
- The reconnect key beyond its reading, `sgs_msg_add_uint16`, `sgs_msg_add_uint32` and
  `sgs_id_duplicate` (no caller), the dumps, `g_maxfd`, Windows branches, the chat client's
  command line.
- Vendored FFmpeg, libx264 and libyuv, which are most of the lines of the repository and
  external to its own code; the empty `ivydec` and `ivyenc`; the logs; the test programs.

## Plan

Done: `VideoPipeline`, `FrameMailbox`; `SgsBuffer`, `SgsFifo`; `SgsConnection`, `SgsSession`;
`SgsChannels`, `SgsMap`; `SgsMessage`; `FrameConvert`, `NalUnits`; `FFmpegEncoder`, `FFmpegDecoder`;
and the proofs of all their safety properties.

What is left:

1. The theorems of `SgsConnection` for a server that sends `RECONNECT_FAILURE` in a session. TLC, with
   that message added to the constants of `sgs_connection`, says that `TypeOK`, `InterestKept` and
   `ChannelsAgree` still hold and that `LoginFirst`, `SessionMeansLoggedIn` and `ImplementsSession` do
   not: the first three should be proved under `Patient` alone, the session part of the inductive
   invariant becoming conditional.
2. That the parts proved apart fit together: the messages of `SgsConnection` are those
   that `SgsMessage` puts into the bytes of `SgsBuffer`.
3. The hazards in `PROJECT.json` that no property covers yet.
