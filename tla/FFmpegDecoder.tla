---------------------------- MODULE FFmpegDecoder ----------------------------
(***************************************************************************)
(* The life of the FFmpegDecoder objects of one process: new, open, the two *)
(* decode calls, close and delete; the memory they take and give back, and  *)
(* what the getters would return for the last packets.                      *)
(*                                                                         *)
(* An allocation is <<kind, n>>, n being the number of the open() call that *)
(* made it; a pointer field is that number, 0 for NULL.  A packet is its    *)
(* number, in order of the decode calls; 0 is the time stamp of none.       *)
(***************************************************************************)
EXTENDS Integers, FiniteSets

CONSTANTS
    MaxOpens,      \* bound on the calls of open
    MaxPackets     \* bound on the packets handed to libavcodec

ASSUME BoundsAssumption == MaxOpens \in Nat /\ MaxPackets \in Nat

Params == {"empty", "unnamed", "named"}

(***************************************************************************)
(* What open does in turn.  streamTest is the test for NULL that follows    *)
(* the creation of the audio stream: it looks at videoStream.  The audio    *)
(* codec is looked up first and tested after that.                          *)
(***************************************************************************)
VideoSteps == {"videoFind", "videoStream", "videoCodec", "videoFrameBuffer"}
AudioSteps == {"audioStream", "streamTest", "audioFind", "audioCodec", "audioFrameBuffer"}
Steps == {"inputContext"} \cup VideoSteps \cup AudioSteps
Unchecked == {"videoFrameBuffer", "audioStream", "audioFrameBuffer"}

Rank(s) ==
    CASE s = "inputContext" -> 0
      [] s = "videoFind" -> 1 [] s = "videoStream" -> 2
      [] s = "videoCodec" -> 3 [] s = "videoFrameBuffer" -> 4
      [] s = "audioStream" -> 5 [] s = "streamTest" -> 6
      [] s = "audioFind" -> 7 [] s = "audioCodec" -> 8 [] OTHER -> 9

VideoFields == {"videoStream", "videoFrameBuffer"}
AudioFields == {"audioStream", "audioFrameBuffer"}
Fields == {"inputContext"} \cup VideoFields \cup AudioFields

Owned(f) ==
    CASE f = "videoStream" -> {"videoContext", "videoCodec"}
      [] f = "audioStream" -> {"audioContext", "audioCodec"}
      [] OTHER -> {}

Contexts == {"videoContext", "audioContext"}
Kinds == Fields \cup (UNION {Owned(f) : f \in Fields})
Opens == 1 .. MaxOpens

VARIABLES
    exists,          \* an FFmpegDecoder object exists
    video, audio,    \* its videoParam, audioParam
    opened, decodeVideo, decodeAudio,
    field,           \* its pointer fields
    heap,            \* the live allocations
    nOpens,          \* number of open calls
    failedOpens,     \* history: the open calls that returned -1
    nPackets,        \* number of packets decoded
    currentPacket,   \* currentPacketPts, currentPacketDts: the packet they are of
    videoFrameSize,  \* whether it is videoBufferSize, and not 0
    audioFrameSize,  \* "none" for 0, "data", or "buffer": audioBufferSize
    delayed,         \* the packets libavcodec was given and shows the pictures of later
    picture,         \* history: the packet whose picture videoFrameBuffer was last filled with
    shown,           \* history: the pictures announced before the last decode of video
    result,          \* history: the last call on the decoder, and how it ended
    crashed          \* history: a NULL stream or buffer was used

flags == <<opened, decodeVideo, decodeAudio>>
memory == <<field, heap, nOpens, failedOpens>>
frames == <<currentPacket, videoFrameSize, audioFrameSize, delayed, picture, shown>>
vars == <<exists, video, audio, flags, memory, nPackets, frames, result, crashed>>

Calls == {"none", "new", "open", "close", "delete", "decodeVideo", "decodeAudio"}
Outcomes == {"none", "done", "refused", "failed", "not open", "decoded"}

Returned(call, what) == result' = [call |-> call, what |-> what]

NoField == [f \in Fields |-> 0]

Init ==
    /\ exists = FALSE
    /\ video = "empty" /\ audio = "empty"
    /\ opened = FALSE /\ decodeVideo = FALSE /\ decodeAudio = FALSE
    /\ field = NoField /\ heap = {}
    /\ nOpens = 0 /\ failedOpens = {}
    /\ nPackets = 0 /\ currentPacket = 0
    /\ videoFrameSize = FALSE /\ audioFrameSize = "none"
    /\ delayed = {} /\ picture = 0 /\ shown = {}
    /\ result = [call |-> "none", what |-> "none"]
    /\ crashed = FALSE

NoFrames ==
    /\ currentPacket' = 0
    /\ videoFrameSize' = FALSE /\ audioFrameSize' = "none"
    /\ delayed' = {} /\ picture' = 0 /\ shown' = {}

(* The constructors and init(). *)
New ==
    /\ ~exists /\ ~crashed
    /\ exists' = TRUE
    /\ video' \in Params /\ audio' \in Params
    /\ opened' = FALSE
    /\ decodeVideo' = (video' # "empty") /\ decodeAudio' = (audio' # "empty")
    /\ field' = NoField
    /\ NoFrames
    /\ Returned("new", "done")
    /\ UNCHANGED <<heap, nOpens, failedOpens, nPackets, crashed>>

-----------------------------------------------------------------------------
(***************************************************************************)
(* open.                                                                    *)
(***************************************************************************)
OpenRefused ==
    /\ exists /\ ~crashed
    /\ opened \/ "named" \notin {video, audio}
    /\ Returned("open", "refused")
    /\ UNCHANGED <<exists, video, audio, flags, memory, nPackets, frames, crashed>>

Plan ==
    {"inputContext"} \cup (IF decodeVideo THEN VideoSteps ELSE {})
                     \cup (IF decodeAudio THEN AudioSteps ELSE {})

(* What cannot be had: at most one checked step, any of the unchecked ones. *)
Missing == {u \cup f : u \in SUBSET Unchecked,
                       f \in {{}} \cup {{s} : s \in Steps \ (Unchecked \cup {"streamTest"})}}

(* The codecs that parameters without a name ask for. *)
Nameless == {s \in {"videoFind"} : video # "named"} \cup {s \in {"audioFind"} : audio # "named"}

(* Without a video stream the test after the audio stream fails. *)
StreamTest == {s \in {"streamTest"} : ~decodeVideo}

\* Slip of Fatal: the result of avcodec_open is not tested.
FatalButOpen(bad) == (bad \cap Plan) \ (Unchecked \cup {"videoCodec"})

Fatal(bad) == (bad \cap Plan) \ Unchecked

Attempted(bad) == {s \in Plan : \A b \in Fatal(bad) : Rank(s) <= Rank(b)}

\* Slip of Taken: finding a codec or testing a stream counts as taking memory.
TakenByTests(s) ==
    CASE s = "videoStream" -> {"videoStream", "videoContext"}
      [] s = "audioStream" -> {"audioStream", "audioContext"}
      [] OTHER -> {s}

(* The kinds of memory that one step takes. *)
Taken(s) ==
    CASE s \in {"videoFind", "audioFind", "streamTest"} -> {}
      [] s = "videoStream" -> {"videoStream", "videoContext"}
      [] s = "audioStream" -> {"audioStream", "audioContext"}
      [] OTHER -> {s}

FieldAfter(f, bad, n) ==
    IF f \notin Attempted(bad) THEN field[f]
    ELSE IF f \in bad THEN 0 ELSE n

(* The audio codec context is reached through audioStream, tested or not. *)
UsesNullStream(bad) == "audioStream" \in bad /\ "audioCodec" \in Attempted(bad)

Open ==
    /\ exists /\ ~crashed /\ ~opened
    /\ "named" \in {video, audio}
    /\ nOpens < MaxOpens
    /\ nOpens' = nOpens + 1
    /\ \E missing \in Missing :
        LET bad == missing \cup Nameless \cup StreamTest IN
        /\ field' = [f \in Fields |-> FieldAfter(f, bad, nOpens')]
        /\ heap' = heap \cup ((UNION {Taken(s) : s \in Attempted(bad) \ bad}) \X {nOpens'})
        /\ crashed' = UsesNullStream(bad)
        /\ opened' = (Fatal(bad) = {} /\ ~crashed')
        /\ failedOpens' = IF opened' THEN failedOpens ELSE failedOpens \cup {nOpens'}
        /\ Returned("open", IF Fatal(bad) = {} THEN "done" ELSE "failed")
        /\ videoFrameSize' = (videoFrameSize /\ "videoFrameBuffer" \notin Attempted(bad))
        /\ audioFrameSize' = IF "audioFrameBuffer" \in Attempted(bad) THEN "none" ELSE audioFrameSize
    /\ UNCHANGED <<exists, video, audio, decodeVideo, decodeAudio, nPackets,
                   currentPacket, delayed, picture, shown>>

-----------------------------------------------------------------------------
(***************************************************************************)
(* close, and the destructor that calls it.  The streams are freed, their   *)
(* codec contexts are not.                                                  *)
(***************************************************************************)
Reached(f) == {<<k, field[f]>> : k \in {f} \cup Owned(f)}

\* Slip of Freed: the codec is not closed.
FreedNotCodec(f) == {<<f, field[f]>>}

Freed(f) == {<<k, field[f]>> : k \in ({f} \cup Owned(f)) \ Contexts}

Closing ==
    {"inputContext"} \cup (IF decodeVideo THEN VideoFields ELSE {})
                     \cup (IF decodeAudio THEN AudioFields ELSE {})

\* Slip of Cleared: av_free, which leaves the stream pointing at freed memory.
ClearedNotStream == [f \in Fields |-> IF f \in Closing \ {"videoStream"} THEN 0 ELSE field[f]]

Cleared == [f \in Fields |-> IF f \in Closing THEN 0 ELSE field[f]]

Release == heap' = heap \ (UNION {Freed(f) : f \in Closing})

(* close resets the time stamps and the sizes of what was decoded; what the *)
(* codec still held is lost with it.                                        *)
FramesAfterClose ==
    /\ currentPacket' = 0
    /\ videoFrameSize' = (videoFrameSize /\ ~decodeVideo)
    /\ audioFrameSize' = IF decodeAudio THEN "none" ELSE audioFrameSize
    /\ delayed' = {}
    /\ UNCHANGED <<picture, shown>>

Close ==
    /\ exists /\ ~crashed
    /\ IF opened
         THEN /\ Release
              /\ field' = Cleared
              /\ FramesAfterClose
              /\ opened' = FALSE /\ decodeVideo' = FALSE /\ decodeAudio' = FALSE
         ELSE UNCHANGED <<flags, field, heap, frames>>
    /\ Returned("close", "done")
    /\ UNCHANGED <<exists, video, audio, nOpens, failedOpens, nPackets, crashed>>

Delete ==
    /\ exists /\ ~crashed
    /\ exists' = FALSE
    /\ IF opened THEN Release ELSE UNCHANGED heap
    /\ field' = NoField
    /\ NoFrames
    /\ opened' = FALSE /\ decodeVideo' = FALSE /\ decodeAudio' = FALSE
    /\ Returned("delete", "done")
    /\ UNCHANGED <<video, audio, nOpens, failedOpens, nPackets, crashed>>

-----------------------------------------------------------------------------
(***************************************************************************)
(* decodeVideoFrame.  libavcodec may have a picture or not, and may report  *)
(* an error with either.  It holds pictures back to put them in order (the  *)
(* H.264 decoder in delayed_pic), so the one it has may be of any packet it *)
(* was given and has not shown.                                             *)
(***************************************************************************)
Packet == nPackets < MaxPackets /\ nPackets' = nPackets + 1 /\ currentPacket' = nPackets + 1

Given == delayed \cup {nPackets + 1}

Shown == shown' = IF videoFrameSize THEN shown \cup {picture} ELSE shown

\* Slip of LayOut: videoFrameSize is not reset when there is no picture.
LayOutKeepSize(got) ==
    /\ videoFrameSize' = (got \/ videoFrameSize)
    /\ Shown
    /\ IF got THEN picture' \in Given /\ delayed' = Given \ {picture'}
              ELSE picture' = picture /\ delayed' = Given

LayOut(got) ==
    /\ videoFrameSize' = got
    /\ Shown
    /\ IF got THEN picture' \in Given /\ delayed' = Given \ {picture'}
              ELSE picture' = picture /\ delayed' = Given

DecodeVideoFrame ==
    /\ exists /\ ~crashed
    /\ opened /\ decodeVideo
    /\ Packet
    /\ \E got \in BOOLEAN, what \in {"decoded", "failed"} :
        /\ LayOut(got)
        /\ crashed' = (got /\ field["videoFrameBuffer"] = 0)
        /\ Returned("decodeVideo", what)
    /\ UNCHANGED <<exists, video, audio, flags, memory, audioFrameSize>>

DecodeVideoRefused ==
    /\ exists /\ ~crashed
    /\ ~opened \/ ~decodeVideo
    /\ Returned("decodeVideo", "not open")
    /\ UNCHANGED <<exists, video, audio, flags, memory, nPackets, frames, crashed>>

(***************************************************************************)
(* decodeAudioFrame.  libavcodec is told the size of the buffer and leaves  *)
(* it, or not, when it fails.                                               *)
(***************************************************************************)
DecodeAudioFrame ==
    /\ exists /\ ~crashed
    /\ opened /\ decodeAudio
    /\ Packet
    /\ \/ audioFrameSize' = "data" /\ Returned("decodeAudio", "decoded")
       \/ audioFrameSize' = "none" /\ \E what \in {"decoded", "failed"} : Returned("decodeAudio", what)
       \/ audioFrameSize' = "buffer" /\ Returned("decodeAudio", "failed")
    /\ crashed' = (audioFrameSize' = "data" /\ field["audioFrameBuffer"] = 0)
    /\ UNCHANGED <<exists, video, audio, flags, memory, videoFrameSize, delayed, picture, shown>>

DecodeAudioRefused ==
    /\ exists /\ ~crashed
    /\ ~opened \/ ~decodeAudio
    /\ Returned("decodeAudio", "not open")
    /\ UNCHANGED <<exists, video, audio, flags, memory, nPackets, frames, crashed>>

Next ==
    \/ New
    \/ OpenRefused
    \/ Open
    \/ Close
    \/ Delete
    \/ DecodeVideoFrame
    \/ DecodeVideoRefused
    \/ DecodeAudioFrame
    \/ DecodeAudioRefused

Spec == Init /\ [][Next]_vars

-----------------------------------------------------------------------------
(* Types: the fields and flags of FFmpegDecoder.h. *)
TypeOK ==
    /\ exists \in BOOLEAN
    /\ video \in Params /\ audio \in Params
    /\ opened \in BOOLEAN /\ decodeVideo \in BOOLEAN /\ decodeAudio \in BOOLEAN
    /\ field \in [Fields -> 0 .. MaxOpens]
    /\ heap \subseteq Kinds \X Opens
    /\ nOpens \in 0 .. MaxOpens
    /\ failedOpens \subseteq Opens
    /\ nPackets \in 0 .. MaxPackets
    /\ {currentPacket, picture} \subseteq 0 .. MaxPackets
    /\ delayed \subseteq 1 .. MaxPackets /\ shown \subseteq 1 .. MaxPackets
    /\ videoFrameSize \in BOOLEAN
    /\ audioFrameSize \in {"none", "data", "buffer"}
    /\ result \in [call : Calls, what : Outcomes]
    /\ crashed \in BOOLEAN

(* A pointer that is not NULL points at memory still allocated, and an open *)
(* decoder has the streams, contexts and opened codecs that decoding and    *)
(* closing dereference without a test, whatever opens failed before.        *)
Ready(f) == field[f] # 0 /\ Reached(f) \subseteq heap

StreamsReady ==
    /\ \A f \in Fields : field[f] # 0 => <<f, field[f]>> \in heap
    /\ opened => /\ decodeVideo => Ready("videoStream")
                 /\ decodeAudio => Ready("audioStream")

(* Memory the process can no longer reach is a codec context or was taken   *)
(* by an open that failed.                                                  *)
Reachable == UNION {Reached(f) : f \in Fields}

LeaksExplained ==
    \A o \in heap : o \in Reachable \/ o[2] \in failedOpens \/ o[1] \in Contexts

(* A video size that is not 0 announces a picture that no earlier decode    *)
(* has announced, whatever packets without a picture, audio packets and     *)
(* failures came between and however long the codec held it back, in a      *)
(* buffer that is still allocated; so does the size of decoded audio.  And  *)
(* a decoder that is not open announces no frame and no time stamp.         *)
FramesAreCurrent ==
    /\ videoFrameSize /\ ~crashed => /\ picture \notin shown
                                     /\ <<"videoFrameBuffer", field["videoFrameBuffer"]>> \in heap
    /\ audioFrameSize = "data" /\ ~crashed =>
          <<"audioFrameBuffer", field["audioFrameBuffer"]>> \in heap
    /\ ~opened => ~videoFrameSize /\ audioFrameSize = "none" /\ currentPacket = 0

=============================================================================
