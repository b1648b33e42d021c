---------------------------- MODULE VideoPipeline ----------------------------
(***************************************************************************)
(* The capture-to-encoder path of ivyvideo: CIvyClient::startSelfVideo,     *)
(* stopSelfVideo and onRawFrame, the CVideoEncode they drive, the CTimer    *)
(* threads that CVideoEncode's timer spawns, and the one-sample mailbox     *)
(* mSample between the camera and the encoder.                              *)
(*                                                                         *)
(* The caller threads are the Java threads behind jni_ivymirage.cpp: each   *)
(* may make any of the three calls at any time.  mEncodeMutex serialises    *)
(* them; mMutex protects mSample against the timer threads.  The timer      *)
(* threads read mEncoder without a lock, exactly as onTimer does.           *)
(*                                                                         *)
(* A frame is its number, in order of arrival; 0 stands for the bytes of a  *)
(* sample nothing was written to.  Samples are identified by their memory,  *)
(* which is used again after a release; encoders by a name that is not      *)
(* used again while a thread still holds it, so a dangling pointer shows.   *)
(***************************************************************************)
EXTENDS Integers

CONSTANTS
    Callers,    \* Java threads calling the native interface
    Timers,     \* threads pthread_create may start: bounds the successful starts
    Samples,    \* memory for CSample objects
    Encoders,   \* names for FFmpegEncoder objects
    MaxFrames,  \* bound on the raw frames delivered
    NULL

Threads == Callers \cup Timers

ASSUME ConstantsAssumption ==
    /\ Callers \cap Timers = {}
    /\ NULL \notin Threads \cup Samples \cup Encoders
    /\ MaxFrames \in Nat

(***************************************************************************)
(* A frame is smaller than the encoded picture in some direction, of the    *)
(* same size, or larger: what ScaleYUVFrame does depends on it.             *)
(***************************************************************************)
RawKinds == {"small", "same", "large"}

VARIABLES
    pc,            \* where each thread is
    mEncodeMutex,  \* CIvyClient::mEncodeMutex: its holder or NULL
    mMutex,        \* CVideoEncode::mMutex: its holder or NULL
    mVideoEncode,  \* whether CIvyClient has created its CVideoEncode
    mEncoder,      \* CVideoEncode::mEncoder
    encoder,       \* each encoder: "absent" (not allocated, or deleted), "opening", "open"
    videoBuffer,   \* each encoder: the frame whose bytes encodeVideoFrame last put in its buffer
    delayed,       \* each encoder: the frames its codec was given and has not returned
    mSample,       \* CVideoEncode::mSample, the mailbox
    mRefCount,     \* each sample's reference count; 0 when it is not allocated
    frame,         \* each sample: the frame its data holds
    mFormat,       \* each sample: whether setFormat was called on it
    pSample,       \* each thread's local pSample
    pEncSample,    \* each caller's local pEncSample
    rawKind,       \* each caller: the kind of the frame it delivers
    useEncoder,    \* each timer thread: the encoder its call runs in
    nFrames,       \* number of frames delivered
    lastTaken,     \* history: newest frame a timer thread took
    taken,         \* history: the camera frames timer threads took
    handed,        \* history: what onPacked was handed, by the frame the bytes are of
    disturbed,     \* history: mEncoder was replaced or deleted with a timer thread alive
    crashed        \* the process died on a NULL or deleted encoder

encVars == <<mVideoEncode, mEncoder, encoder, videoBuffer, delayed>>
sampleVars == <<mSample, mRefCount, frame, mFormat>>
localVars == <<pSample, pEncSample, rawKind, useEncoder>>
historyVars == <<nFrames, lastTaken, taken, handed, disturbed, crashed>>
vars == <<pc, mEncodeMutex, mMutex, encVars, sampleVars, localVars, historyVars>>

Frames == 0 .. MaxFrames
NoBytes == -1    \* the content of a buffer no bytes were put into
CallerPC == {"idle", "init_new", "init_open", "init_failed", "start_timer",
             "uninit", "delete", "deleted",
             "raw_convert", "raw_lock", "raw_fill", "raw_return"}
TimerPC == {"none", "check", "take", "encode", "encoding", "pack", "release", "sleep"}

Init ==
    /\ pc = [x \in Threads |-> IF x \in Callers THEN "idle" ELSE "none"]
    /\ mEncodeMutex = NULL
    /\ mMutex = NULL
    /\ mVideoEncode = FALSE
    /\ mEncoder = NULL
    /\ encoder = [e \in Encoders |-> "absent"]
    /\ videoBuffer = [e \in Encoders |-> NoBytes]
    /\ delayed = [e \in Encoders |-> {}]
    /\ mSample = NULL
    /\ mRefCount = [s \in Samples |-> 0]
    /\ frame = [s \in Samples |-> 0]
    /\ mFormat = [s \in Samples |-> FALSE]
    /\ pSample = [x \in Threads |-> NULL]
    /\ pEncSample = [c \in Callers |-> NULL]
    /\ rawKind = [c \in Callers |-> "large"]
    /\ useEncoder = [t \in Timers |-> NULL]
    /\ nFrames = 0
    /\ lastTaken = 0
    /\ taken = {}
    /\ handed = {}
    /\ disturbed = FALSE
    /\ crashed = FALSE

At(x, l) == ~crashed /\ pc[x] = l
Goto(x, l) == pc' = [pc EXCEPT ![x] = l]

(* The camera frame f, as a set: a blank sample is none. *)
Camera(f) == {f} \ {0}

TimerAlive == \E t \in Timers : pc[t] # "none"

(* A CMutex is recursive: its holder may lock it again. *)
CanLock(m, x) == m \in {NULL, x}

(***************************************************************************)
(* allocSample on memory s followed by addRef, and release.                 *)
(***************************************************************************)
\* Slip of Alloc: the fresh object starts at count 0.
AllocNoAddRef(s) ==
    /\ mRefCount[s] = 0
    /\ UNCHANGED mRefCount
    /\ frame' = [frame EXCEPT ![s] = 0]
    /\ mFormat' = [mFormat EXCEPT ![s] = FALSE]

Alloc(s) ==
    /\ mRefCount[s] = 0
    /\ mRefCount' = [mRefCount EXCEPT ![s] = 1]
    /\ frame' = [frame EXCEPT ![s] = 0]
    /\ mFormat' = [mFormat EXCEPT ![s] = FALSE]

Release(s) == mRefCount' = [mRefCount EXCEPT ![s] = @ - 1]

-----------------------------------------------------------------------------
(***************************************************************************)
(* startSelfVideo.  CVideoEncode::init assigns mEncoder without mMutex and  *)
(* opens it afterwards; a failed open deletes it again.  SAFE_DELETE        *)
(* deletes first and clears the pointer afterwards.                         *)
(***************************************************************************)
Unnamed(e) == encoder[e] = "absent" /\ \A t \in Timers : useEncoder[t] # e

StartSelfVideo(c) ==
    /\ At(c, "idle")
    /\ \E t \in Timers : pc[t] = "none"
    /\ \E e \in Encoders : Unnamed(e)
    /\ CanLock(mEncodeMutex, c)
    /\ mEncodeMutex' = c
    /\ mVideoEncode' = TRUE
    /\ Goto(c, "init_new")
    /\ UNCHANGED <<mMutex, mEncoder, encoder, videoBuffer, delayed, sampleVars, localVars, historyVars>>

InitNew(c) ==
    /\ At(c, "init_new")
    /\ \E e \in Encoders :
         /\ Unnamed(e)
         /\ mEncoder' = e
         /\ encoder' = [encoder EXCEPT ![e] = "opening"]
         /\ videoBuffer' = [videoBuffer EXCEPT ![e] = NoBytes]
         /\ delayed' = [delayed EXCEPT ![e] = {}]
    /\ disturbed' = (disturbed \/ TimerAlive)
    /\ Goto(c, "init_open")
    /\ UNCHANGED <<mEncodeMutex, mMutex, mVideoEncode, sampleVars, localVars,
                   nFrames, lastTaken, taken, handed, crashed>>

OpenSucceeds(c) ==
    /\ At(c, "init_open")
    /\ encoder' = [encoder EXCEPT ![mEncoder] = "open"]
    /\ Goto(c, "start_timer")
    /\ UNCHANGED <<mEncodeMutex, mMutex, mVideoEncode, mEncoder, videoBuffer, delayed,
                   sampleVars, localVars, historyVars>>

\* Slip of OpenFails: init reports success although open failed.
OpenIgnored(c) ==
    /\ At(c, "init_open")
    /\ Goto(c, "start_timer")
    /\ UNCHANGED <<mEncodeMutex, mMutex, encVars, sampleVars, localVars, historyVars>>

OpenFails(c) ==
    /\ At(c, "init_open")
    /\ encoder' = [encoder EXCEPT ![mEncoder] = "absent"]
    /\ Goto(c, "init_failed")
    /\ UNCHANGED <<mEncodeMutex, mMutex, mVideoEncode, mEncoder, videoBuffer, delayed, sampleVars,
                   localVars, historyVars>>

\* Slip of InitFailed: an early return that keeps mEncodeMutex.
InitFailedNoUnlock(c) ==
    /\ At(c, "init_failed")
    /\ mEncoder' = NULL
    /\ Goto(c, "idle")
    /\ UNCHANGED <<mEncodeMutex, mMutex, mVideoEncode, encoder, videoBuffer, delayed, sampleVars,
                   localVars, historyVars>>

InitFailed(c) ==
    /\ At(c, "init_failed")
    /\ mEncoder' = NULL
    /\ mEncodeMutex' = NULL
    /\ Goto(c, "idle")
    /\ UNCHANGED <<mMutex, mVideoEncode, encoder, videoBuffer, delayed, sampleVars, localVars, historyVars>>

(* startTimer -> startRun: a thread is created whether or not one is alive. *)
StartTimer(c) ==
    /\ At(c, "start_timer")
    /\ \E t \in Timers :
         /\ pc[t] = "none"
         /\ pc' = [pc EXCEPT ![c] = "idle", ![t] = "check"]
    /\ mEncodeMutex' = NULL
    /\ UNCHANGED <<mMutex, encVars, sampleVars, localVars, historyVars>>

(***************************************************************************)
(* stopSelfVideo: nothing to do before the first start, otherwise uninit    *)
(* deletes the encoder under mMutex.  The timer is not stopped.             *)
(***************************************************************************)
StopSelfVideo(c) ==
    /\ At(c, "idle")
    /\ CanLock(mEncodeMutex, c)
    /\ IF mVideoEncode THEN mEncodeMutex' = c /\ Goto(c, "uninit")
                       ELSE UNCHANGED <<mEncodeMutex, pc>>
    /\ UNCHANGED <<mMutex, encVars, sampleVars, localVars, historyVars>>

UninitLock(c) ==
    /\ At(c, "uninit")
    /\ CanLock(mMutex, c)
    /\ mMutex' = c
    /\ Goto(c, "delete")
    /\ UNCHANGED <<mEncodeMutex, encVars, sampleVars, localVars, historyVars>>

UninitDelete(c) ==
    /\ At(c, "delete")
    /\ encoder' = [e \in Encoders |-> IF e = mEncoder THEN "absent" ELSE encoder[e]]
    /\ delayed' = [e \in Encoders |-> IF e = mEncoder THEN {} ELSE delayed[e]]
    /\ disturbed' = (disturbed \/ TimerAlive)
    /\ Goto(c, "deleted")
    /\ UNCHANGED <<mEncodeMutex, mMutex, mVideoEncode, mEncoder, videoBuffer, sampleVars,
                   localVars, nFrames, lastTaken, taken, handed, crashed>>

UninitReturn(c) ==
    /\ At(c, "deleted")
    /\ mEncoder' = NULL
    /\ mMutex' = NULL
    /\ mEncodeMutex' = NULL
    /\ Goto(c, "idle")
    /\ UNCHANGED <<mVideoEncode, encoder, videoBuffer, delayed, sampleVars, localVars, historyVars>>

-----------------------------------------------------------------------------
(***************************************************************************)
(* onRawFrame, the HAVE_LIBYUV build of Android.mk.  The frame is converted *)
(* into a temporary sample, then scaled into the mailbox under mMutex.      *)
(***************************************************************************)
OnRawFrame(c) ==
    /\ At(c, "idle")
    /\ mVideoEncode
    /\ nFrames < MaxFrames
    /\ nFrames' = nFrames + 1
    /\ CanLock(mEncodeMutex, c)
    /\ mEncodeMutex' = c
    /\ \E k \in RawKinds : rawKind' = [rawKind EXCEPT ![c] = k]
    /\ \E s \in Samples : Alloc(s) /\ pSample' = [pSample EXCEPT ![c] = s]
    /\ Goto(c, "raw_convert")
    /\ UNCHANGED <<mMutex, encVars, mSample, pEncSample, useEncoder,
                   lastTaken, taken, handed, disturbed, crashed>>

(***************************************************************************)
(* A frame that comes before the first start, is not NV21, or is too big    *)
(* for allocSample, is dropped at once.                                     *)
(***************************************************************************)
DropRawFrame(c) ==
    /\ At(c, "idle")
    /\ nFrames < MaxFrames
    /\ nFrames' = nFrames + 1
    /\ CanLock(mEncodeMutex, c)
    /\ UNCHANGED <<pc, mEncodeMutex, mMutex, encVars, sampleVars, localVars,
                   lastTaken, taken, handed, disturbed, crashed>>

(* NV21toI420 writes the whole of the temporary sample. *)
RawConvert(c) ==
    /\ At(c, "raw_convert")
    /\ frame' = [frame EXCEPT ![pSample[c]] = nFrames]
    /\ Goto(c, "raw_lock")
    /\ UNCHANGED <<mEncodeMutex, mMutex, encVars, mSample, mRefCount, mFormat,
                   localVars, historyVars>>

(***************************************************************************)
(* getSample(frameSize): the sample waiting in the mailbox is used again,   *)
(* else one is allocated and put there.  The encoded size is the one of     *)
(* SP_LOW_SIZE on every start, so the waiting sample is never too small.    *)
(***************************************************************************)
GetSampleToFill(c) ==
    \/ /\ mSample # NULL
       /\ pEncSample' = [pEncSample EXCEPT ![c] = mSample]
       /\ UNCHANGED sampleVars
    \/ /\ mSample = NULL
       /\ \E s \in Samples :
            /\ Alloc(s)
            /\ mSample' = s
            /\ pEncSample' = [pEncSample EXCEPT ![c] = s]

RawLock(c) ==
    /\ At(c, "raw_lock")
    /\ CanLock(mMutex, c)
    /\ mMutex' = c
    /\ GetSampleToFill(c)
    /\ Goto(c, "raw_fill")
    /\ UNCHANGED <<mEncodeMutex, encVars, pSample, rawKind, useEncoder, historyVars>>

\* Slip of SetFormat: the format is forgotten.
SetNoFormat(s) == UNCHANGED mFormat

SetFormat(s) == mFormat' = [mFormat EXCEPT ![s] = TRUE]

(***************************************************************************)
(* ScaleYUVFrame into the mailbox's sample: what the sample holds then.     *)
(* Only a larger frame is written; for one of the same size the function    *)
(* reports success and for a smaller one failure, and neither is written.   *)
(***************************************************************************)
\* Slip of ScaleYUVFrame: a frame it rejects still clears the sample.
ScaleIntoBlank(c) ==
    IF rawKind[c] = "large" /\ frame[pEncSample[c]] = 0 THEN frame[pSample[c]]
                                                        ELSE frame[pEncSample[c]]

ScaleYUVFrame(c) ==
    IF rawKind[c] = "large" THEN frame[pSample[c]] ELSE frame[pEncSample[c]]

(* setFormat, ScaleYUVFrame, and mMutex is released at the end of the block. *)
RawFill(c) ==
    /\ At(c, "raw_fill")
    /\ SetFormat(pEncSample[c])
    /\ frame' = [frame EXCEPT ![pEncSample[c]] = ScaleYUVFrame(c)]
    /\ pEncSample' = [pEncSample EXCEPT ![c] = NULL]
    /\ mMutex' = NULL
    /\ Goto(c, "raw_return")
    /\ UNCHANGED <<mEncodeMutex, encVars, mSample, mRefCount, pSample, rawKind,
                   useEncoder, historyVars>>

RawReturn(c) ==
    /\ At(c, "raw_return")
    /\ Release(pSample[c])
    /\ pSample' = [pSample EXCEPT ![c] = NULL]
    /\ rawKind' = [rawKind EXCEPT ![c] = "large"]
    /\ mEncodeMutex' = NULL
    /\ Goto(c, "idle")
    /\ UNCHANGED <<mMutex, encVars, mSample, frame, mFormat, pEncSample,
                   useEncoder, historyVars>>

-----------------------------------------------------------------------------
(***************************************************************************)
(* The timer threads: loopRun calls onTimer and sleeps for ever, because    *)
(* nothing in the client calls stopTimer.  onTimer tests mEncoder without   *)
(* a lock, takes the sample under mMutex, and reads mEncoder again for the  *)
(* call of encodeVideoFrame and for getVideoEncodedBuffer.                  *)
(***************************************************************************)
\* Slip of TimerCheck: the test of mEncoder is the wrong way round.
TimerCheckInverted(t) ==
    /\ At(t, "check")
    /\ Goto(t, IF mEncoder = NULL THEN "take" ELSE "sleep")
    /\ UNCHANGED <<mEncodeMutex, mMutex, encVars, sampleVars, localVars, historyVars>>

TimerCheck(t) ==
    /\ At(t, "check")
    /\ Goto(t, IF mEncoder # NULL THEN "take" ELSE "sleep")
    /\ UNCHANGED <<mEncodeMutex, mMutex, encVars, sampleVars, localVars, historyVars>>

(***************************************************************************)
(* getSample(0, false), with the lock around it: the caller gets the        *)
(* mailbox's sample, or NULL, and the mailbox is empty afterwards.          *)
(***************************************************************************)
\* Slip of GetSampleToEncode: mSample is not reset to NULL.
TakeAndKeep(t) ==
    /\ CanLock(mMutex, t)
    /\ pSample' = [pSample EXCEPT ![t] = mSample]
    /\ UNCHANGED mSample

\* Slip of GetSampleToEncode: mMutex is not taken.
TakeUnlocked(t) ==
    /\ pSample' = [pSample EXCEPT ![t] = mSample]
    /\ mSample' = NULL

GetSampleToEncode(t) ==
    /\ CanLock(mMutex, t)
    /\ pSample' = [pSample EXCEPT ![t] = mSample]
    /\ mSample' = NULL

TimerTake(t) ==
    /\ At(t, "take")
    /\ GetSampleToEncode(t)
    /\ IF mSample # NULL
       THEN /\ lastTaken' = IF frame[mSample] > lastTaken THEN frame[mSample] ELSE lastTaken
            /\ taken' = taken \cup Camera(frame[mSample])
            /\ Goto(t, "encode")
       ELSE UNCHANGED <<lastTaken, taken>> /\ Goto(t, "sleep")
    /\ UNCHANGED <<mEncodeMutex, mMutex, encVars, mRefCount, frame, mFormat, pEncSample,
                   rawKind, useEncoder, nFrames, handed, disturbed, crashed>>

(***************************************************************************)
(* getPixelFormat(mFormat) fails on a sample setFormat was not called on,   *)
(* which is then leaked.  Otherwise mEncoder is read for the call: on NULL  *)
(* the process dies at the first field access.                              *)
(***************************************************************************)
TimerEncode(t) ==
    /\ At(t, "encode")
    /\ IF ~mFormat[pSample[t]]
       THEN /\ pSample' = [pSample EXCEPT ![t] = NULL]
            /\ Goto(t, "sleep")
            /\ UNCHANGED <<useEncoder, crashed>>
       ELSE IF mEncoder = NULL
       THEN crashed' = TRUE /\ UNCHANGED <<pc, pSample, useEncoder>>
       ELSE /\ useEncoder' = [useEncoder EXCEPT ![t] = mEncoder]
            /\ Goto(t, "encoding")
            /\ UNCHANGED <<pSample, crashed>>
    /\ UNCHANGED <<mEncodeMutex, mMutex, encVars, sampleVars, pEncSample, rawKind,
                   nFrames, lastTaken, taken, handed, disturbed>>

(***************************************************************************)
(* encodeVideoFrame returns: no bytes or an error (always so when the       *)
(* encoder is not open yet), or bytes in the encoder's buffer.  The codec   *)
(* has a delay (FFmpegEncoder.cpp:430 asks for B-frames): an open encoder   *)
(* may keep the frame and return no bytes, and the bytes it returns are of  *)
(* any frame it was given and has not returned.  Nothing flushes it.  Blank *)
(* frames are not counted: one given, another may always come back.  On an  *)
(* encoder deleted meanwhile a call does any of these, its fields being     *)
(* read from freed memory, or the process dies.                             *)
(***************************************************************************)
EncodeReturns(t, l) ==
    /\ At(t, "encoding")
    /\ useEncoder' = [useEncoder EXCEPT ![t] = NULL]
    /\ Goto(t, l)
    /\ UNCHANGED <<mEncodeMutex, mMutex, mVideoEncode, mEncoder, encoder, sampleVars, pSample,
                   pEncSample, rawKind, historyVars>>

\* Slip of EncodeNothing: the result of encodeVideoFrame is not tested.
EncodeUntested(t) == EncodeReturns(t, "pack") /\ UNCHANGED <<videoBuffer, delayed>>

EncodeNothing(t) ==
    /\ EncodeReturns(t, "release")
    /\ UNCHANGED videoBuffer
    /\ \/ UNCHANGED delayed
       \/ /\ encoder[useEncoder[t]] = "open"
          /\ delayed' = [delayed EXCEPT ![useEncoder[t]] = @ \cup {frame[pSample[t]]}]

EncodeBytes(t) ==
    LET e == useEncoder[t]
        f == frame[pSample[t]]
    IN  /\ EncodeReturns(t, "pack")
        /\ encoder[e] # "opening"
        /\ \/ encoder[e] = "absent" /\ UNCHANGED <<videoBuffer, delayed>>
           \/ /\ encoder[e] = "open"
              /\ \E g \in delayed[e] \cup {f} :
                    /\ videoBuffer' = [videoBuffer EXCEPT ![e] = g]
                    /\ delayed' = [delayed EXCEPT ![e] = (@ \cup {f}) \ Camera(g)]

EncodeDies(t) ==
    /\ At(t, "encoding")
    /\ encoder[useEncoder[t]] = "absent"
    /\ crashed' = TRUE
    /\ UNCHANGED <<pc, mEncodeMutex, mMutex, encVars, sampleVars, localVars,
                   nFrames, lastTaken, taken, handed, disturbed>>

(***************************************************************************)
(* onPacked(mEncoder->getVideoEncodedBuffer(), size, PT_RAW), mEncoder read *)
(* again: on NULL the process dies, a deleted encoder has no buffer left.   *)
(***************************************************************************)
TimerPack(t) ==
    /\ At(t, "pack")
    /\ mEncoder # NULL
    /\ handed' = handed \cup {IF encoder[mEncoder] = "absent" THEN NoBytes
                                                           ELSE videoBuffer[mEncoder]}
    /\ Goto(t, "release")
    /\ UNCHANGED <<mEncodeMutex, mMutex, encVars, sampleVars, localVars,
                   nFrames, lastTaken, taken, disturbed, crashed>>

PackDies(t) ==
    /\ At(t, "pack")
    /\ mEncoder # NULL => encoder[mEncoder] = "absent"
    /\ crashed' = TRUE
    /\ UNCHANGED <<pc, mEncodeMutex, mMutex, encVars, sampleVars, localVars,
                   nFrames, lastTaken, taken, handed, disturbed>>

TimerRelease(t) ==
    /\ At(t, "release")
    /\ Release(pSample[t])
    /\ pSample' = [pSample EXCEPT ![t] = NULL]
    /\ Goto(t, "sleep")
    /\ UNCHANGED <<mEncodeMutex, mMutex, encVars, mSample, frame, mFormat, pEncSample,
                   rawKind, useEncoder, historyVars>>

(* usleep, then while (isRunning()): mStatus stays S_Running. *)
TimerWake(t) ==
    /\ At(t, "sleep")
    /\ Goto(t, "check")
    /\ UNCHANGED <<mEncodeMutex, mMutex, encVars, sampleVars, localVars, historyVars>>

Dead == crashed /\ UNCHANGED vars

-----------------------------------------------------------------------------
CallerCalls(c) == StartSelfVideo(c) \/ StopSelfVideo(c) \/ OnRawFrame(c) \/ DropRawFrame(c)

CallerRuns(c) ==
    \/ InitNew(c) \/ OpenSucceeds(c) \/ OpenFails(c) \/ InitFailed(c) \/ StartTimer(c)
    \/ UninitLock(c) \/ UninitDelete(c) \/ UninitReturn(c)
    \/ RawConvert(c) \/ RawLock(c) \/ RawFill(c) \/ RawReturn(c)

TimerRuns(t) ==
    \/ TimerCheck(t) \/ TimerTake(t) \/ TimerEncode(t)
    \/ EncodeNothing(t) \/ EncodeBytes(t) \/ EncodeDies(t)
    \/ TimerPack(t) \/ PackDies(t) \/ TimerRelease(t) \/ TimerWake(t)

Next ==
    \/ \E c \in Callers : CallerCalls(c) \/ CallerRuns(c)
    \/ \E t \in Timers : TimerRuns(t)
    \/ Dead

Spec == Init /\ [][Next]_vars

(***************************************************************************)
(* Fairness.  A thread inside a call, and a timer thread, keeps running and *)
(* gets a mutex that stays free.  A thread competing for a mutex need never *)
(* get it: pthread mutexes promise no more.  Nobody has to call the         *)
(* interface.                                                               *)
(***************************************************************************)
Fairness ==
    /\ \A c \in Callers : WF_vars(CallerRuns(c))
    /\ \A t \in Timers : WF_vars(TimerRuns(t))

FairSpec == Spec /\ Fairness

-----------------------------------------------------------------------------
TypeOK ==
    /\ pc \in [Threads -> CallerPC \cup TimerPC]
    /\ \A c \in Callers : pc[c] \in CallerPC
    /\ \A t \in Timers : pc[t] \in TimerPC
    /\ mEncodeMutex \in Callers \cup {NULL}
    /\ mMutex \in Callers \cup {NULL}
    /\ mVideoEncode \in BOOLEAN
    /\ mEncoder \in Encoders \cup {NULL}
    /\ encoder \in [Encoders -> {"absent", "opening", "open"}]
    /\ videoBuffer \in [Encoders -> Frames \cup {NoBytes}]
    /\ delayed \in [Encoders -> SUBSET Frames]
    /\ mSample \in Samples \cup {NULL}
    /\ mRefCount \in [Samples -> Nat]
    /\ frame \in [Samples -> Frames]
    /\ mFormat \in [Samples -> BOOLEAN]
    /\ pSample \in [Threads -> Samples \cup {NULL}]
    /\ pEncSample \in [Callers -> Samples \cup {NULL}]
    /\ rawKind \in [Callers -> RawKinds]
    /\ useEncoder \in [Timers -> Encoders \cup {NULL}]
    /\ nFrames \in Frames
    /\ lastTaken \in Frames
    /\ taken \in SUBSET (Frames \ {0})
    /\ handed \in SUBSET (Frames \cup {NoBytes})
    /\ disturbed \in BOOLEAN
    /\ crashed \in BOOLEAN

(***************************************************************************)
(* Samples.  Every allocated sample has exactly one owner, the mailbox or   *)
(* one thread, and the count 1 that getSample's comment promises            *)
(* (VideoEncode.cpp:113-114); so none leaks, none is released twice, and no *)
(* two threads ever hold the same one.                                      *)
(***************************************************************************)
Owners(s) == {x \in Threads : pSample[x] = s} \cup (IF mSample = s THEN {NULL} ELSE {})

SampleOwnership ==
    \A s \in Samples :
        /\ mRefCount[s] = 0 => Owners(s) = {}
        /\ mRefCount[s] # 0 => mRefCount[s] = 1 /\ \E o \in Threads \cup {NULL} : Owners(s) = {o}

(***************************************************************************)
(* The sample a caller writes to under mMutex is the mailbox's, and still   *)
(* allocated: no timer thread can take or release it meanwhile.             *)
(***************************************************************************)
FilledSampleIsMailbox ==
    \A c \in Callers : pc[c] = "raw_fill" => /\ mSample # NULL
                                             /\ pEncSample[c] = mSample
                                             /\ mRefCount[mSample] = 1

(***************************************************************************)
(* Outside the camera's critical section the mailbox never holds a sample   *)
(* without a format, so the early return of onTimer that would leak the     *)
(* taken sample (VideoEncode.cpp:215) is never taken.                       *)
(***************************************************************************)
MailboxFormatted ==
    /\ mSample # NULL /\ mMutex = NULL => mFormat[mSample]
    /\ \A t \in Timers : pSample[t] # NULL => mFormat[pSample[t]]

(***************************************************************************)
(* Until the encoder is replaced or removed under a running timer thread,   *)
(* no timer thread meets a NULL or deleted encoder, and no two of them      *)
(* encode into the same buffer.                                             *)
(***************************************************************************)
UndisturbedEncoder ==
    ~disturbed => /\ ~crashed
                  /\ \A t \in Timers : useEncoder[t] # NULL => encoder[useEncoder[t]] = "open"
                  /\ \A t, u \in Timers : useEncoder[t] # NULL /\ useEncoder[u] # NULL => t = u

(***************************************************************************)
(* Until then a timer thread hands the sink only bytes its encoder returned *)
(* for a frame taken from the mailbox, and no frame's bytes twice, however  *)
(* long the codec keeps frames back and whenever it returns nothing         *)
(* (VideoEncode.cpp:221-228).  A blank frame looks like any other.          *)
(***************************************************************************)
UndisturbedPacking ==
    ~disturbed => \A t \in Timers :
        pc[t] = "pack" => videoBuffer[mEncoder] \in {0} \cup (taken \ handed)

(***************************************************************************)
(* With any number of caller and timer threads the path is a mailbox for    *)
(* one frame (FrameMailbox): the newest frame replaces the one waiting, a   *)
(* frame is taken at most once and never after a newer one.  The sample a   *)
(* caller has put into mSample but not formatted is not yet in the mailbox. *)
(***************************************************************************)
BoxFrame == IF mSample = NULL THEN -1 ELSE IF mFormat[mSample] THEN frame[mSample] ELSE -1

PendingFrame ==
    IF mEncodeMutex = NULL THEN -1
    ELSE IF pc[mEncodeMutex] \notin {"raw_convert", "raw_lock", "raw_fill"} THEN -1
    ELSE IF rawKind[mEncodeMutex] = "large" THEN nFrames ELSE 0

Mailbox == INSTANCE FrameMailbox WITH
    box <- BoxFrame, pending <- PendingFrame, offered <- nFrames, newestTaken <- lastTaken

ImplementsMailbox == Mailbox!Spec

(***************************************************************************)
(* While an encoder is there and the camera is between two frames, a timer  *)
(* thread takes the frame that is waiting: a timer thread is always on its  *)
(* way back to the mailbox, and nobody keeps mMutex.  Under frames that     *)
(* never end nothing is promised: the camera may win mMutex every time.     *)
(***************************************************************************)
Streaming == mEncoder # NULL /\ TimerAlive /\ ~crashed

WaitingFrameTaken ==
    \A n \in Frames : [](mSample # NULL /\ nFrames = n /\ Streaming
                            => <>(mSample = NULL \/ nFrames # n \/ ~Streaming))

(***************************************************************************)
(* A call of the interface that has got its locks returns and gives both    *)
(* back: neither an early return nor the nesting of the two mutexes leaves  *)
(* a Java thread blocked or a mutex held.  A thread waiting for             *)
(* mEncodeMutex is still at "idle"; what it is promised is that the mutex   *)
(* is always given back, not that it wins it.                               *)
(***************************************************************************)
Inside(c) == pc[c] # "idle" \/ c \in {mEncodeMutex, mMutex}

CallsReturn == \A c \in Callers : [](Inside(c) => <>(~Inside(c) \/ crashed))

====
