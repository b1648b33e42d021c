---------------------------- MODULE FFmpegEncoder ----------------------------
(***************************************************************************)
(* The life of the FFmpegEncoder objects of one process: new, open, the two *)
(* encode calls, close, delete, and the memory these calls take and give    *)
(* back.  open acquires its resources one after the other and returns at    *)
(* the first that cannot be had; close releases what the fields point at,   *)
(* and only when the encoder is open.                                       *)
(*                                                                         *)
(* An allocation is <<kind, n>>, n being the number of the open() call that *)
(* made it; a pointer field is that number, 0 for NULL.  Fields overwritten *)
(* or lost with their object leave their allocation in heap: a leak.        *)
(***************************************************************************)
EXTENDS Integers, FiniteSets

CONSTANTS
    MaxOpens,      \* bound on the calls of open
    MaxFrames,     \* bound on the AVFrames that are never freed
    MaxData        \* bound on the bytes of an audio frame

ASSUME BoundsAssumption == MaxOpens \in Nat /\ MaxFrames \in Nat /\ MaxData \in Nat

(* empty(): nothing to encode; a parameter may have values but no codec name. *)
Params == {"empty", "unnamed", "named"}

(***************************************************************************)
(* What open does in turn, after its two early returns.  Finding a codec    *)
(* acquires nothing; a stream comes with its codec context; videoCodec and  *)
(* audioCodec are what avcodec_open allocates; picture is what avpicture_   *)
(* alloc does for videoFrame.  The buffers are not tested for NULL.         *)
(***************************************************************************)
VideoSteps == {"videoFind", "videoStream", "videoCodec", "videoBuffer"}
FrameSteps == {"videoFrame", "picture"}
AudioSteps == {"audioFind", "audioStream", "audioCodec", "audioBuffer"}
Steps == {"outputContext"} \cup VideoSteps \cup FrameSteps \cup AudioSteps
Unchecked == {"videoBuffer", "audioBuffer"}

Rank(s) ==
    CASE s = "outputContext" -> 0
      [] s = "videoFind" -> 1 [] s = "videoStream" -> 2
      [] s = "videoCodec" -> 3 [] s = "videoBuffer" -> 4
      [] s = "videoFrame" -> 5 [] s = "picture" -> 6
      [] s = "audioFind" -> 7 [] s = "audioStream" -> 8
      [] s = "audioCodec" -> 9 [] OTHER -> 10

VideoFields == {"videoStream", "videoBuffer", "videoFrame"}
AudioFields == {"audioStream", "audioBuffer"}
Fields == {"outputContext"} \cup VideoFields \cup AudioFields

(* The allocations owned through a field's object. *)
Owned(f) ==
    CASE f = "videoStream" -> {"videoContext", "videoCodec"}
      [] f = "audioStream" -> {"audioContext", "audioCodec"}
      [] f = "videoFrame" -> {"picture"}
      [] OTHER -> {}

Kinds == Fields \cup (UNION {Owned(f) : f \in Fields}) \cup {"frame"}
Opens == 1 .. MaxOpens
Objects == Kinds \X (1 .. MaxOpens + MaxFrames)

VARIABLES
    exists,        \* an FFmpegEncoder object exists
    video, audio,  \* its videoParam, audioParam
    converts,      \* the video codec lacks the pixel format of videoParam
    pcm,           \* the audio codec's frame_size is at most 1
    opened, encodeVideo, encodeAudio,
    field,         \* its pointer fields
    heap,          \* the live allocations
    nOpens,        \* number of open calls
    failedOpens,   \* history: the open calls that returned -1
    nFrames,       \* number of AVFrames never freed
    result,        \* history: the last call on the encoder, and how it ended
    crashed        \* history: libavcodec was handed a NULL buffer or read past the samples

params == <<video, audio, converts, pcm>>
flags == <<opened, encodeVideo, encodeAudio>>
vars == <<exists, params, flags, field, heap, nOpens, failedOpens, nFrames, result, crashed>>

Calls == {"none", "new", "open", "close", "delete", "encodeVideo", "encodeAudio"}
Outcomes == {"none", "done", "refused", "failed", "not open", "encoded"}

Returned(call, what) == result' = [call |-> call, what |-> what]

NoField == [f \in Fields |-> 0]

Init ==
    /\ exists = FALSE
    /\ video = "empty" /\ audio = "empty"
    /\ converts = FALSE /\ pcm = FALSE
    /\ opened = FALSE /\ encodeVideo = FALSE /\ encodeAudio = FALSE
    /\ field = NoField
    /\ heap = {}
    /\ nOpens = 0
    /\ failedOpens = {}
    /\ nFrames = 0
    /\ result = [call |-> "none", what |-> "none"]
    /\ crashed = FALSE

(* The constructors and init(). *)
New ==
    /\ ~crashed
    /\ ~exists
    /\ exists' = TRUE
    /\ video' \in Params /\ audio' \in Params
    /\ converts' \in BOOLEAN /\ pcm' \in BOOLEAN
    /\ opened' = FALSE
    /\ encodeVideo' = (video' # "empty")
    /\ encodeAudio' = (audio' # "empty")
    /\ field' = NoField
    /\ Returned("new", "done")
    /\ UNCHANGED <<heap, nOpens, failedOpens, nFrames, crashed>>

-----------------------------------------------------------------------------
(***************************************************************************)
(* open.                                                                    *)
(***************************************************************************)
OpenRefused ==
    /\ exists /\ ~crashed
    /\ \/ opened
       \/ video # "named" /\ audio # "named"
    /\ Returned("open", "refused")
    /\ UNCHANGED <<exists, params, flags, field, heap, nOpens, failedOpens, nFrames, crashed>>

Plan ==
    {"outputContext"}
        \cup (IF encodeVideo THEN VideoSteps ELSE {})
        \cup (IF encodeVideo /\ converts THEN FrameSteps ELSE {})
        \cup (IF encodeAudio THEN AudioSteps ELSE {})

(* What cannot be had: at most one checked step, any of the buffers, and    *)
(* the codec of a parameter without a name.                                 *)
Failures ==
    {u \cup f \cup {s \in {"videoFind"} : video # "named"} \cup {s \in {"audioFind"} : audio # "named"} :
        u \in SUBSET Unchecked, f \in {{}} \cup {{s} : s \in Steps \ Unchecked}}

\* Slip of Fatal: the result of avcodec_open is not tested.
FatalButOpen(bad) == (bad \cap Plan) \ (Unchecked \cup {"videoCodec"})

Fatal(bad) == (bad \cap Plan) \ Unchecked

Attempted(bad) == {s \in Plan : \A b \in Fatal(bad) : Rank(s) <= Rank(b)}

\* Slip of Taken: finding a codec counts as taking memory.
TakenByFind(s) ==
    CASE s = "videoStream" -> {"videoStream", "videoContext"}
      [] s = "audioStream" -> {"audioStream", "audioContext"}
      [] OTHER -> {s}

(* The kinds of memory that one step takes. *)
Taken(s) ==
    CASE s \in {"videoFind", "audioFind"} -> {}
      [] s = "videoStream" -> {"videoStream", "videoContext"}
      [] s = "audioStream" -> {"audioStream", "audioContext"}
      [] OTHER -> {s}

(* A field that open assigned points at what this call got, or is NULL. *)
FieldAfter(f, bad, n) ==
    IF f \notin Attempted(bad) THEN field[f]
    ELSE IF f \in bad THEN 0 ELSE n

Open ==
    /\ exists /\ ~crashed
    /\ ~opened
    /\ "named" \in {video, audio}
    /\ nOpens < MaxOpens
    /\ nOpens' = nOpens + 1
    /\ \E bad \in Failures :
        /\ field' = [f \in Fields |-> FieldAfter(f, bad, nOpens')]
        /\ heap' = heap \cup ((UNION {Taken(s) : s \in Attempted(bad) \ bad}) \X {nOpens'})
        /\ opened' = (Fatal(bad) = {})
        /\ failedOpens' = IF opened' THEN failedOpens ELSE failedOpens \cup {nOpens'}
        /\ Returned("open", IF opened' THEN "done" ELSE "failed")
    /\ UNCHANGED <<exists, params, encodeVideo, encodeAudio, nFrames, crashed>>

-----------------------------------------------------------------------------
(***************************************************************************)
(* close, and the destructor that calls it.                                 *)
(***************************************************************************)
Reached(f) == {<<k, field[f]>> : k \in {f} \cup Owned(f)}

\* Slip of Closing: the temporary frame is forgotten.
ClosingNoFrame ==
    {"outputContext"} \cup (IF encodeVideo THEN VideoFields \ {"videoFrame"} ELSE {})
                      \cup (IF encodeAudio THEN AudioFields ELSE {})

Closing ==
    {"outputContext"} \cup (IF encodeVideo THEN VideoFields ELSE {})
                      \cup (IF encodeAudio THEN AudioFields ELSE {})

\* Slip of Cleared: av_free, which leaves videoBuffer pointing at freed memory.
ClearedNotBuffer == [f \in Fields |-> IF f \in Closing \ {"videoBuffer"} THEN 0 ELSE field[f]]

(* av_freep clears the pointer it frees. *)
Cleared == [f \in Fields |-> IF f \in Closing THEN 0 ELSE field[f]]

Release == heap' = heap \ UNION {Reached(f) : f \in Closing}

Close ==
    /\ exists /\ ~crashed
    /\ IF opened
         THEN /\ Release
              /\ field' = Cleared
              /\ opened' = FALSE /\ encodeVideo' = FALSE /\ encodeAudio' = FALSE
         ELSE UNCHANGED <<flags, field, heap>>
    /\ Returned("close", "done")
    /\ UNCHANGED <<exists, params, nOpens, failedOpens, nFrames, crashed>>

Delete ==
    /\ exists /\ ~crashed
    /\ exists' = FALSE
    /\ IF opened THEN Release ELSE UNCHANGED heap
    /\ field' = NoField
    /\ opened' = FALSE /\ encodeVideo' = FALSE /\ encodeAudio' = FALSE
    /\ Returned("delete", "done")
    /\ UNCHANGED <<params, nOpens, failedOpens, nFrames, crashed>>

-----------------------------------------------------------------------------
(***************************************************************************)
(* encodeVideoFrame.  A picture has the format of videoParam, the codec's   *)
(* own when that is another one, or neither; its AVFrame may not be had.    *)
(***************************************************************************)
Pictures == {"param", "codec", "other"}
Matches(picture) == picture = "codec" \/ (picture = "param" /\ ~converts)

EncodeVideoFrame(picture) ==
    /\ exists /\ ~crashed
    /\ opened /\ encodeVideo
    /\ Matches(picture)
    /\ IF field["videoBuffer"] = 0
         THEN crashed' = TRUE /\ UNCHANGED result
         ELSE UNCHANGED crashed /\ \E what \in {"encoded", "failed"} : Returned("encodeVideo", what)
    /\ UNCHANGED <<exists, params, flags, field, heap, nOpens, failedOpens, nFrames>>

(* The format is compared after the AVFrame was allocated. *)
EncodeVideoMismatch(picture) ==
    /\ exists /\ ~crashed
    /\ opened /\ encodeVideo
    /\ ~Matches(picture)
    /\ nFrames < MaxFrames
    /\ nFrames' = nFrames + 1
    /\ heap' = heap \cup {<<"frame", nFrames'>>}
    /\ Returned("encodeVideo", "refused")
    /\ UNCHANGED <<exists, params, flags, field, nOpens, failedOpens, crashed>>

(* Not opened for video, no such picture, or no AVFrame. *)
EncodeVideoRefused ==
    /\ exists /\ ~crashed
    /\ Returned("encodeVideo", IF opened /\ encodeVideo THEN "failed" ELSE "not open")
    /\ UNCHANGED <<exists, params, flags, field, heap, nOpens, failedOpens, nFrames, crashed>>

(***************************************************************************)
(* encodeAudioFrame: for PCM the caller must say how much it hands over.    *)
(* encodeAudioData is given that in samples of two bytes.  A single byte is *)
(* no sample, so the size stays the one of the encoder's own buffer, and    *)
(* libavcodec reads that much: the call returns as any other, or dies.      *)
(***************************************************************************)
ReadsPastSamples(dataSize) == pcm /\ dataSize \div 2 = 0

EncodeAudioFrame(dataSize) ==
    /\ exists /\ ~crashed
    /\ opened /\ encodeAudio
    /\ ~pcm \/ dataSize >= 1
    /\ \/ /\ field["audioBuffer"] = 0 \/ ReadsPastSamples(dataSize)
          /\ crashed' = TRUE /\ UNCHANGED result
       \/ /\ field["audioBuffer"] # 0
          /\ UNCHANGED crashed /\ \E what \in {"encoded", "failed"} : Returned("encodeAudio", what)
    /\ UNCHANGED <<exists, params, flags, field, heap, nOpens, failedOpens, nFrames>>

EncodeAudioRefused(dataSize) ==
    /\ exists /\ ~crashed
    /\ \/ ~opened
       \/ ~encodeAudio
       \/ pcm /\ dataSize < 1
    /\ Returned("encodeAudio", "failed")
    /\ UNCHANGED <<exists, params, flags, field, heap, nOpens, failedOpens, nFrames, crashed>>

Next ==
    \/ New
    \/ OpenRefused
    \/ Open
    \/ Close
    \/ Delete
    \/ \E picture \in Pictures : EncodeVideoFrame(picture) \/ EncodeVideoMismatch(picture)
    \/ EncodeVideoRefused
    \/ \E dataSize \in 0 .. MaxData : EncodeAudioFrame(dataSize) \/ EncodeAudioRefused(dataSize)

Spec == Init /\ [][Next]_vars

-----------------------------------------------------------------------------
(* Types: the pointer fields, flags and allocations of FFmpegEncoder.h. *)
TypeOK ==
    /\ exists \in BOOLEAN
    /\ video \in Params /\ audio \in Params
    /\ converts \in BOOLEAN /\ pcm \in BOOLEAN
    /\ opened \in BOOLEAN /\ encodeVideo \in BOOLEAN /\ encodeAudio \in BOOLEAN
    /\ field \in [Fields -> 0 .. MaxOpens]
    /\ heap \subseteq Objects
    /\ nOpens \in 0 .. MaxOpens
    /\ failedOpens \subseteq Opens
    /\ nFrames \in 0 .. MaxFrames
    /\ result \in [call : Calls, what : Outcomes]
    /\ crashed \in BOOLEAN

(* Whatever opens failed before, a pointer that is not NULL points at       *)
(* memory that is still allocated: no getter returns and no close frees     *)
(* memory that was freed.                                                   *)
NoDanglingPointer == \A f \in Fields : field[f] # 0 => <<f, field[f]>> \in heap

(* An encoder that reports itself open and encodes a stream has the         *)
(* stream, its context and its opened codec, all from the same open: what   *)
(* encodeVideoData and encodeAudioData dereference without a test.          *)
Ready(f) == field[f] # 0 /\ Reached(f) \subseteq heap

OpenedReady ==
    opened =>
        /\ Ready("outputContext")
        /\ encodeVideo => Ready("videoStream")
        /\ encodeAudio => Ready("audioStream")

(* Memory the process can no longer reach was taken by an open that failed  *)
(* or is the frame of a refused picture: an open that succeeds is undone    *)
(* completely by its close or delete.                                       *)
Reachable == UNION {Reached(f) : f \in Fields}

LeaksExplained == \A o \in heap : o \in Reachable \/ o[2] \in failedOpens \/ o[1] = "frame"

=============================================================================
