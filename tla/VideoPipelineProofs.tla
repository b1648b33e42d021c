------------------------- MODULE VideoPipelineProofs -------------------------
(***************************************************************************)
(* Proofs about VideoPipeline, for any number of caller threads, timer      *)
(* threads, samples and encoders.                                           *)
(***************************************************************************)
EXTENDS VideoPipeline, TLAPS

CriticalPC == {"delete", "deleted", "raw_fill"}
HoldingPC == {"raw_convert", "raw_lock", "raw_fill", "raw_return",
              "encode", "encoding", "pack", "release"}

(* The holder of each mutex is the thread whose program counter says so. *)
Locks ==
    /\ \A c \in Callers : pc[c] # "idle" <=> mEncodeMutex = c
    /\ \A c \in Callers : pc[c] \in CriticalPC <=> mMutex = c

(* A thread holds a sample exactly between getting and releasing it. *)
Holding == \A x \in Threads : pSample[x] # NULL <=> pc[x] \in HoldingPC

(* SampleOwnership in a form that a step can be checked against. *)
Owned ==
    /\ mSample # NULL => mRefCount[mSample] = 1
    /\ \A x \in Threads : pSample[x] # NULL => mRefCount[pSample[x]] = 1 /\ pSample[x] # mSample
    /\ \A x, y \in Threads : pSample[x] # NULL /\ pSample[x] = pSample[y] => x = y
    /\ \A s \in Samples : mRefCount[s] # 0 => mSample = s \/ \E x \in Threads : pSample[x] = s

(* The camera's alias of the mailbox's sample. *)
Aliased == \A c \in Callers : pc[c] = "raw_fill" => mSample # NULL /\ pEncSample[c] = mSample

(* A sample without a format is in the mailbox only while the camera fills it. *)
Formatted ==
    /\ mSample # NULL /\ ~mFormat[mSample] => \E c \in Callers : pc[c] = "raw_fill"
    /\ \A t \in Timers : pSample[t] # NULL => mFormat[pSample[t]]

(* The encoder between its allocation, its opening and the start of the timer. *)
Opening ==
    /\ \A c \in Callers : pc[c] = "init_open" => mEncoder # NULL
    /\ \A c \in Callers : pc[c] = "start_timer" => mEncoder # NULL /\ encoder[mEncoder] = "open"
    /\ \A t \in Timers : useEncoder[t] # NULL <=> pc[t] = "encoding"

(* One timer thread on one open encoder, until that is disturbed. *)
Undisturbed ==
    ~disturbed =>
        /\ ~crashed
        /\ \A t, u \in Timers : pc[t] # "none" /\ pc[u] # "none" => t = u
        /\ TimerAlive => /\ mEncoder # NULL
                         /\ encoder[mEncoder] = "open"
                         /\ \A c \in Callers :
                               pc[c] \notin {"init_open", "init_failed", "start_timer", "deleted"}
        /\ \A t \in Timers : useEncoder[t] # NULL => useEncoder[t] = mEncoder

IInv == TypeOK /\ Locks /\ Holding /\ Owned /\ Aliased /\ Formatted /\ Opening /\ Undisturbed

\* Every step of a calling thread (start, stop, camera frame) keeps the
\* inductive invariant: one step of the proof per action of the caller.
LEMMA CallerStep ==
    ASSUME IInv, NEW c \in Callers, CallerCalls(c) \/ CallerRuns(c)
    PROVE  IInv'
<1> USE ConstantsAssumption
<1> USE DEF IInv, At, Goto, Threads, Frames, CallerPC, TimerPC, RawKinds, CriticalPC,
            encVars, sampleVars, localVars, historyVars, TimerAlive
<1>1. ASSUME StartSelfVideo(c) PROVE IInv'
  <2>1. TypeOK'
    BY <1>1 DEF TypeOK, Holding, HoldingPC, Owned, Aliased, StartSelfVideo, CanLock
  <2>2. Locks' /\ Holding'
    BY <1>1 DEF Locks, Holding, HoldingPC, TypeOK, StartSelfVideo, CanLock
  <2>3. Owned'
    BY <1>1 DEF Owned, TypeOK, Holding, HoldingPC, StartSelfVideo, CanLock
  <2>4. Aliased' /\ Formatted'
    BY <1>1 DEF Aliased, Formatted, Locks, TypeOK, Holding, HoldingPC, Owned, StartSelfVideo, CanLock
  <2>5. Opening' /\ Undisturbed'
    BY <1>1 DEF Opening, Undisturbed, Locks, Holding, HoldingPC, Owned, Aliased, TypeOK, StartSelfVideo, CanLock
  <2> QED
    BY <2>1, <2>2, <2>3, <2>4, <2>5
<1>2. ASSUME InitNew(c) PROVE IInv'
  <2>1. TypeOK'
    BY <1>2 DEF TypeOK, Holding, HoldingPC, Owned, Aliased, InitNew, Unnamed
  <2>2. Locks' /\ Holding'
    BY <1>2 DEF Locks, Holding, HoldingPC, TypeOK, InitNew, Unnamed
  <2>3. Owned'
    BY <1>2 DEF Owned, TypeOK, Holding, HoldingPC, InitNew, Unnamed
  <2>4. Aliased' /\ Formatted'
    BY <1>2 DEF Aliased, Formatted, Locks, TypeOK, Holding, HoldingPC, Owned, InitNew, Unnamed
  <2>5. Opening'
    BY <1>2 DEF Opening, Locks, TypeOK, InitNew, Unnamed
  <2>6. Undisturbed'
    <3>1. /\ disturbed' = (disturbed \/ TimerAlive)
          /\ pc' = [pc EXCEPT ![c] = "init_open"]
          /\ UNCHANGED <<useEncoder, crashed>>
      BY <1>2 DEF InitNew
    <3>2. \A t \in Timers : pc'[t] = pc[t]
      BY <1>2, <3>1 DEF InitNew, TypeOK
    <3> QED
      BY <3>1, <3>2 DEF Undisturbed, Opening
  <2> QED
    BY <2>1, <2>2, <2>3, <2>4, <2>5, <2>6
<1>3. ASSUME OpenSucceeds(c) PROVE IInv'
  <2>1. TypeOK'
    BY <1>3 DEF TypeOK, Holding, HoldingPC, Owned, Aliased, OpenSucceeds
  <2>2. Locks' /\ Holding'
    BY <1>3 DEF Locks, Holding, HoldingPC, TypeOK, OpenSucceeds
  <2>3. Owned'
    BY <1>3 DEF Owned, TypeOK, Holding, HoldingPC, OpenSucceeds
  <2>4. Aliased' /\ Formatted'
    BY <1>3 DEF Aliased, Formatted, Locks, TypeOK, Holding, HoldingPC, Owned, OpenSucceeds
  <2>5. Opening' /\ Undisturbed'
    BY <1>3 DEF Opening, Undisturbed, Locks, Holding, HoldingPC, Owned, Aliased, TypeOK, OpenSucceeds
  <2> QED
    BY <2>1, <2>2, <2>3, <2>4, <2>5
<1>4. ASSUME OpenFails(c) PROVE IInv'
  <2>1. TypeOK'
    BY <1>4 DEF TypeOK, Holding, HoldingPC, Owned, Aliased, OpenFails
  <2>2. Locks' /\ Holding'
    BY <1>4 DEF Locks, Holding, HoldingPC, TypeOK, OpenFails
  <2>3. Owned'
    BY <1>4 DEF Owned, TypeOK, Holding, HoldingPC, OpenFails
  <2>4. Aliased' /\ Formatted'
    BY <1>4 DEF Aliased, Formatted, Locks, TypeOK, Holding, HoldingPC, Owned, OpenFails
  <2>5. Opening' /\ Undisturbed'
    BY <1>4 DEF Opening, Undisturbed, Locks, Holding, HoldingPC, Owned, Aliased, TypeOK, OpenFails
  <2> QED
    BY <2>1, <2>2, <2>3, <2>4, <2>5
<1>5. ASSUME InitFailed(c) PROVE IInv'
  <2>1. TypeOK'
    BY <1>5 DEF TypeOK, Holding, HoldingPC, Owned, Aliased, InitFailed
  <2>2. Locks' /\ Holding'
    BY <1>5 DEF Locks, Holding, HoldingPC, TypeOK, InitFailed
  <2>3. Owned'
    BY <1>5 DEF Owned, TypeOK, Holding, HoldingPC, InitFailed
  <2>4. Aliased' /\ Formatted'
    BY <1>5 DEF Aliased, Formatted, Locks, TypeOK, Holding, HoldingPC, Owned, InitFailed
  <2>5. Opening' /\ Undisturbed'
    BY <1>5 DEF Opening, Undisturbed, Locks, Holding, HoldingPC, Owned, Aliased, TypeOK, InitFailed
  <2> QED
    BY <2>1, <2>2, <2>3, <2>4, <2>5
<1>6. ASSUME StartTimer(c) PROVE IInv'
  <2>1. TypeOK'
    <3>1. PICK t \in Timers : pc' = [pc EXCEPT ![c] = "idle", ![t] = "check"]
      BY <1>6 DEF StartTimer
    <3> QED
      BY <1>6, <3>1 DEF TypeOK, StartTimer
  <2>2. Locks' /\ Holding'
    BY <1>6 DEF Locks, Holding, HoldingPC, TypeOK, StartTimer
  <2>3. Owned'
    BY <1>6 DEF Owned, TypeOK, Holding, HoldingPC, StartTimer
  <2>4. Aliased' /\ Formatted'
    BY <1>6 DEF Aliased, Formatted, Locks, TypeOK, Holding, HoldingPC, Owned, StartTimer
  <2>5. Opening' /\ Undisturbed'
    BY <1>6 DEF Opening, Undisturbed, Locks, Holding, HoldingPC, Owned, Aliased, TypeOK, StartTimer
  <2> QED
    BY <2>1, <2>2, <2>3, <2>4, <2>5
<1>7. ASSUME StopSelfVideo(c) PROVE IInv'
  <2>1. TypeOK'
    BY <1>7 DEF TypeOK, Holding, HoldingPC, Owned, Aliased, StopSelfVideo, CanLock
  <2>2. Locks' /\ Holding'
    BY <1>7 DEF Locks, Holding, HoldingPC, TypeOK, StopSelfVideo, CanLock
  <2>3. Owned'
    BY <1>7 DEF Owned, TypeOK, Holding, HoldingPC, StopSelfVideo, CanLock
  <2>4. Aliased' /\ Formatted'
    BY <1>7 DEF Aliased, Formatted, Locks, TypeOK, Holding, HoldingPC, Owned, StopSelfVideo, CanLock
  <2>5. Opening' /\ Undisturbed'
    BY <1>7 DEF Opening, Undisturbed, Locks, Holding, HoldingPC, Owned, Aliased, TypeOK, StopSelfVideo, CanLock
  <2> QED
    BY <2>1, <2>2, <2>3, <2>4, <2>5
<1>8. ASSUME UninitLock(c) PROVE IInv'
  <2>1. TypeOK'
    BY <1>8 DEF TypeOK, Holding, HoldingPC, Owned, Aliased, UninitLock, CanLock
  <2>2. Locks' /\ Holding'
    BY <1>8 DEF Locks, Holding, HoldingPC, TypeOK, UninitLock, CanLock
  <2>3. Owned'
    BY <1>8 DEF Owned, TypeOK, Holding, HoldingPC, UninitLock, CanLock
  <2>4. Aliased' /\ Formatted'
    BY <1>8 DEF Aliased, Formatted, Locks, TypeOK, Holding, HoldingPC, Owned, UninitLock, CanLock
  <2>5. Opening' /\ Undisturbed'
    BY <1>8 DEF Opening, Undisturbed, Locks, Holding, HoldingPC, Owned, Aliased, TypeOK, UninitLock, CanLock
  <2> QED
    BY <2>1, <2>2, <2>3, <2>4, <2>5
<1>9. ASSUME UninitDelete(c) PROVE IInv'
  <2>1. TypeOK'
    BY <1>9 DEF TypeOK, Holding, HoldingPC, Owned, Aliased, UninitDelete
  <2>2. Locks' /\ Holding'
    BY <1>9 DEF Locks, Holding, HoldingPC, TypeOK, UninitDelete
  <2>3. Owned'
    BY <1>9 DEF Owned, TypeOK, Holding, HoldingPC, UninitDelete
  <2>4. Aliased' /\ Formatted'
    BY <1>9 DEF Aliased, Formatted, Locks, TypeOK, Holding, HoldingPC, Owned, UninitDelete
  <2>5. Opening'
    BY <1>9 DEF Opening, Locks, TypeOK, UninitDelete
  <2>6. Undisturbed'
    BY <1>9 DEF Undisturbed, Opening, Locks, Holding, HoldingPC, Owned, Aliased, TypeOK, UninitDelete
  <2> QED
    BY <2>1, <2>2, <2>3, <2>4, <2>5, <2>6
<1>10. ASSUME UninitReturn(c) PROVE IInv'
  <2>1. TypeOK'
    BY <1>10 DEF TypeOK, Holding, HoldingPC, Owned, Aliased, UninitReturn
  <2>2. Locks' /\ Holding'
    BY <1>10 DEF Locks, Holding, HoldingPC, TypeOK, UninitReturn
  <2>3. Owned'
    BY <1>10 DEF Owned, TypeOK, Holding, HoldingPC, UninitReturn
  <2>4. Aliased' /\ Formatted'
    BY <1>10 DEF Aliased, Formatted, Locks, TypeOK, Holding, HoldingPC, Owned, UninitReturn
  <2>5. Opening' /\ Undisturbed'
    BY <1>10 DEF Opening, Undisturbed, Locks, Holding, HoldingPC, Owned, Aliased, TypeOK, UninitReturn
  <2> QED
    BY <2>1, <2>2, <2>3, <2>4, <2>5
<1>11. ASSUME OnRawFrame(c) PROVE IInv'
  <2>1. TypeOK'
    BY <1>11 DEF TypeOK, Holding, HoldingPC, Owned, Aliased, OnRawFrame, CanLock, Alloc
  <2>2. Locks' /\ Holding'
    BY <1>11 DEF Locks, Holding, HoldingPC, TypeOK, OnRawFrame, CanLock, Alloc
  <2>3. Owned'
    <3>1. PICK s \in Samples : Alloc(s) /\ pSample' = [pSample EXCEPT ![c] = s]
      BY <1>11 DEF OnRawFrame
    <3>2. /\ mRefCount[s] = 0 /\ mRefCount' = [mRefCount EXCEPT ![s] = 1]
          /\ pSample[c] = NULL /\ mSample' = mSample
      BY <1>11, <3>1 DEF OnRawFrame, Alloc, Holding, HoldingPC
    <3> QED
      BY <3>1, <3>2 DEF Owned, TypeOK
  <2>4. Aliased' /\ Formatted'
    BY <1>11 DEF Aliased, Formatted, Locks, TypeOK, Holding, HoldingPC, Owned, OnRawFrame, CanLock, Alloc
  <2>5. Opening' /\ Undisturbed'
    BY <1>11 DEF Opening, Undisturbed, Locks, Holding, HoldingPC, Owned, Aliased, TypeOK, OnRawFrame, CanLock, Alloc
  <2> QED
    BY <2>1, <2>2, <2>3, <2>4, <2>5
<1>12. ASSUME DropRawFrame(c) PROVE IInv'
  <2>1. TypeOK'
    BY <1>12 DEF TypeOK, Holding, HoldingPC, Owned, Aliased, DropRawFrame, CanLock
  <2>2. Locks' /\ Holding'
    BY <1>12 DEF Locks, Holding, HoldingPC, TypeOK, DropRawFrame, CanLock
  <2>3. Owned'
    BY <1>12 DEF Owned, TypeOK, Holding, HoldingPC, DropRawFrame, CanLock
  <2>4. Aliased' /\ Formatted'
    BY <1>12 DEF Aliased, Formatted, Locks, TypeOK, Holding, HoldingPC, Owned, DropRawFrame, CanLock
  <2>5. Opening' /\ Undisturbed'
    BY <1>12 DEF Opening, Undisturbed, Locks, Holding, HoldingPC, Owned, Aliased, TypeOK, DropRawFrame, CanLock
  <2> QED
    BY <2>1, <2>2, <2>3, <2>4, <2>5
<1>13. ASSUME RawConvert(c) PROVE IInv'
  <2>1. TypeOK'
    BY <1>13 DEF TypeOK, Holding, HoldingPC, Owned, Aliased, RawConvert
  <2>2. Locks' /\ Holding'
    BY <1>13 DEF Locks, Holding, HoldingPC, TypeOK, RawConvert
  <2>3. Owned'
    BY <1>13 DEF Owned, TypeOK, Holding, HoldingPC, RawConvert
  <2>4. Aliased' /\ Formatted'
    BY <1>13 DEF Aliased, Formatted, Locks, TypeOK, Holding, HoldingPC, Owned, RawConvert
  <2>5. Opening' /\ Undisturbed'
    BY <1>13 DEF Opening, Undisturbed, Locks, Holding, HoldingPC, Owned, Aliased, TypeOK, RawConvert
  <2> QED
    BY <2>1, <2>2, <2>3, <2>4, <2>5
<1>14. ASSUME RawLock(c) PROVE IInv'
  <2>1. TypeOK'
    <3>1. CASE mSample # NULL
      BY <1>14, <3>1 DEF TypeOK, RawLock, GetSampleToFill, CanLock
    <3>2. CASE mSample = NULL
      <4>1. PICK s \in Samples : /\ Alloc(s)
                                /\ mSample' = s
                                /\ pEncSample' = [pEncSample EXCEPT ![c] = s]
        BY <1>14, <3>2 DEF RawLock, GetSampleToFill
      <4> QED
        BY <1>14, <4>1 DEF TypeOK, RawLock, Alloc
    <3> QED
      BY <3>1, <3>2
  <2>2. Locks' /\ Holding'
    BY <1>14 DEF Locks, Holding, HoldingPC, TypeOK, RawLock, CanLock, GetSampleToFill, Alloc
  <2>3. Owned'
    BY <1>14 DEF Owned, TypeOK, Holding, HoldingPC, RawLock, CanLock, GetSampleToFill, Alloc
  <2>4. Aliased' /\ Formatted'
    BY <1>14 DEF Aliased, Formatted, Locks, TypeOK, Holding, HoldingPC, Owned, RawLock, CanLock, GetSampleToFill, Alloc
  <2>5. Opening' /\ Undisturbed'
    BY <1>14 DEF Opening, Undisturbed, Locks, Holding, HoldingPC, Owned, Aliased, TypeOK, RawLock, CanLock, GetSampleToFill, Alloc
  <2> QED
    BY <2>1, <2>2, <2>3, <2>4, <2>5
<1>15. ASSUME RawFill(c) PROVE IInv'
  <2>1. TypeOK'
    BY <1>15 DEF TypeOK, Holding, HoldingPC, Owned, Aliased, RawFill, SetFormat, ScaleYUVFrame
  <2>2. Locks' /\ Holding'
    BY <1>15 DEF Locks, Holding, HoldingPC, TypeOK, RawFill, SetFormat, ScaleYUVFrame
  <2>3. Owned'
    BY <1>15 DEF Owned, TypeOK, Holding, HoldingPC, RawFill, SetFormat, ScaleYUVFrame
  <2>4. Aliased' /\ Formatted'
    BY <1>15 DEF Aliased, Formatted, Locks, TypeOK, Holding, HoldingPC, Owned, RawFill, SetFormat, ScaleYUVFrame
  <2>5. Opening' /\ Undisturbed'
    BY <1>15 DEF Opening, Undisturbed, Locks, Holding, HoldingPC, Owned, Aliased, TypeOK, RawFill, SetFormat, ScaleYUVFrame
  <2> QED
    BY <2>1, <2>2, <2>3, <2>4, <2>5
<1>16. ASSUME RawReturn(c) PROVE IInv'
  <2>1. TypeOK'
    BY <1>16 DEF TypeOK, Holding, HoldingPC, Owned, Aliased, RawReturn, Release
  <2>2. Locks' /\ Holding'
    BY <1>16 DEF Locks, Holding, HoldingPC, TypeOK, RawReturn, Release
  <2>3. Owned'
    BY <1>16 DEF Owned, TypeOK, Holding, HoldingPC, RawReturn, Release
  <2>4. Aliased' /\ Formatted'
    BY <1>16 DEF Aliased, Formatted, Locks, TypeOK, Holding, HoldingPC, Owned, RawReturn, Release
  <2>5. Opening' /\ Undisturbed'
    BY <1>16 DEF Opening, Undisturbed, Locks, Holding, HoldingPC, Owned, Aliased, TypeOK, RawReturn, Release
  <2> QED
    BY <2>1, <2>2, <2>3, <2>4, <2>5
<1> QED
  BY <1>1, <1>2, <1>3, <1>4, <1>5, <1>6, <1>7, <1>8, <1>9, <1>10, <1>11, <1>12, <1>13, <1>14, <1>15, <1>16 DEF CallerCalls, CallerRuns

\* Every step of a timer thread keeps the inductive invariant: one step of
\* the proof per action of onTimer.
LEMMA TimerStep ==
    ASSUME IInv, NEW t \in Timers, TimerRuns(t)
    PROVE  IInv'
<1> USE ConstantsAssumption
<1> USE DEF IInv, At, Goto, Threads, Frames, CallerPC, TimerPC, RawKinds, CriticalPC,
            encVars, sampleVars, localVars, historyVars, TimerAlive
<1>1. ASSUME TimerCheck(t) PROVE IInv'
  <2>1. TypeOK'
    BY <1>1 DEF TypeOK, Holding, HoldingPC, Owned, Aliased, TimerCheck
  <2>2. Locks' /\ Holding'
    BY <1>1 DEF Locks, Holding, HoldingPC, TypeOK, TimerCheck
  <2>3. Owned'
    BY <1>1 DEF Owned, TypeOK, Holding, HoldingPC, TimerCheck
  <2>4. Aliased' /\ Formatted'
    BY <1>1 DEF Aliased, Formatted, Locks, TypeOK, Holding, HoldingPC, Owned, TimerCheck
  <2>5. Opening' /\ Undisturbed'
    BY <1>1 DEF Opening, Undisturbed, Locks, Holding, HoldingPC, Owned, Aliased, TypeOK, TimerCheck
  <2> QED
    BY <2>1, <2>2, <2>3, <2>4, <2>5
<1>2. ASSUME TimerTake(t) PROVE IInv'
  <2>1. TypeOK'
    <3>1. taken' \in SUBSET (Frames \ {0}) /\ lastTaken' \in Frames
      <4>1. mSample # NULL => frame[mSample] \in Frames
        BY DEF TypeOK
      <4>2. \/ UNCHANGED <<taken, lastTaken>>
            \/ /\ mSample # NULL
               /\ taken' = taken \cup ({frame[mSample]} \ {0})
               /\ lastTaken' \in {frame[mSample], lastTaken}
        BY <1>2 DEF TimerTake, Camera
      <4>3. taken \in SUBSET (Frames \ {0}) /\ lastTaken \in Frames
        BY DEF TypeOK
      <4> HIDE DEF Frames
      <4> QED
        BY <4>1, <4>2, <4>3
    <3> QED
      BY <1>2, <3>1 DEF TypeOK, TimerTake, GetSampleToEncode
  <2>2. Locks' /\ Holding'
    BY <1>2 DEF Locks, Holding, HoldingPC, TypeOK, TimerTake, CanLock, GetSampleToEncode
  <2>3. Owned'
    BY <1>2 DEF Owned, TypeOK, Holding, HoldingPC, TimerTake, CanLock, GetSampleToEncode
  <2>4. Aliased' /\ Formatted'
    BY <1>2 DEF Aliased, Formatted, Locks, TypeOK, Holding, HoldingPC, Owned, TimerTake, CanLock, GetSampleToEncode
  <2>5. Opening' /\ Undisturbed'
    BY <1>2 DEF Opening, Undisturbed, Locks, Holding, HoldingPC, Owned, Aliased, TypeOK, TimerTake, CanLock, GetSampleToEncode
  <2> QED
    BY <2>1, <2>2, <2>3, <2>4, <2>5
<1>3. ASSUME TimerEncode(t) PROVE IInv'
  <2>1. pSample[t] # NULL /\ mFormat[pSample[t]]
    BY <1>3 DEF TimerEncode, Holding, HoldingPC, Formatted
  <2>2. CASE mEncoder = NULL
    <3>1. /\ crashed' = TRUE
          /\ UNCHANGED <<pc, mEncodeMutex, mMutex, encVars, sampleVars, localVars,
                         nFrames, lastTaken, taken, handed, disturbed>>
      BY <1>3, <2>1, <2>2 DEF TimerEncode
    <3>2. TypeOK' /\ Locks' /\ Holding' /\ Owned' /\ Aliased' /\ Formatted'
      BY <3>1 DEF TypeOK, Locks, Holding, Owned, Aliased, Formatted
    <3>3. Opening' /\ Undisturbed'
      BY <1>3, <2>2, <3>1 DEF TimerEncode, Opening, Undisturbed
    <3> QED
      BY <3>2, <3>3
  <2>3. CASE mEncoder # NULL
    <3>1. /\ useEncoder' = [useEncoder EXCEPT ![t] = mEncoder]
          /\ pc' = [pc EXCEPT ![t] = "encoding"]
          /\ UNCHANGED <<mEncodeMutex, mMutex, encVars, sampleVars, pSample, pEncSample,
                         rawKind, historyVars>>
      BY <1>3, <2>1, <2>3 DEF TimerEncode
    <3>2. TypeOK'
      BY <3>1 DEF TypeOK
    <3>3. Locks' /\ Holding'
      BY <1>3, <3>1 DEF TimerEncode, Locks, Holding, HoldingPC, TypeOK
    <3>4. Owned' /\ Aliased' /\ Formatted'
      BY <1>3, <3>1 DEF TimerEncode, Owned, Aliased, Formatted, TypeOK
    <3>5. Opening' /\ Undisturbed'
      BY <1>3, <2>3, <3>1 DEF TimerEncode, Opening, Undisturbed, TypeOK
    <3> QED
      BY <3>2, <3>3, <3>4, <3>5
  <2> QED
    BY <2>2, <2>3
<1>4. ASSUME EncodeNothing(t) PROVE IInv'
  <2>1. TypeOK'
    BY <1>4 DEF TypeOK, Holding, HoldingPC, Owned, Aliased, EncodeNothing, EncodeReturns
  <2>2. Locks' /\ Holding'
    BY <1>4 DEF Locks, Holding, HoldingPC, TypeOK, EncodeNothing, EncodeReturns
  <2>3. Owned'
    BY <1>4 DEF Owned, TypeOK, Holding, HoldingPC, EncodeNothing, EncodeReturns
  <2>4. Aliased' /\ Formatted'
    BY <1>4 DEF Aliased, Formatted, Locks, TypeOK, Holding, HoldingPC, Owned, EncodeNothing, EncodeReturns
  <2>5. Opening' /\ Undisturbed'
    BY <1>4 DEF Opening, Undisturbed, Locks, Holding, HoldingPC, Owned, Aliased, TypeOK, EncodeNothing, EncodeReturns
  <2> QED
    BY <2>1, <2>2, <2>3, <2>4, <2>5
<1>5. ASSUME EncodeBytes(t) PROVE IInv'
  <2>1. TypeOK'
    <3>1. pSample[t] \in Samples /\ frame[pSample[t]] \in Frames
      BY <1>5 DEF TypeOK, Holding, HoldingPC, EncodeBytes, EncodeReturns
    <3>2. /\ videoBuffer' \in [Encoders -> Frames \cup {NoBytes}]
          /\ delayed' \in [Encoders -> SUBSET Frames]
      BY <1>5, <3>1 DEF TypeOK, EncodeBytes
    <3> QED
      BY <1>5, <3>2 DEF TypeOK, EncodeBytes, EncodeReturns
  <2>2. Locks' /\ Holding'
    BY <1>5 DEF Locks, Holding, HoldingPC, TypeOK, EncodeBytes, EncodeReturns
  <2>3. Owned'
    BY <1>5 DEF Owned, TypeOK, Holding, HoldingPC, EncodeBytes, EncodeReturns
  <2>4. Aliased' /\ Formatted'
    BY <1>5 DEF Aliased, Formatted, Locks, TypeOK, Holding, HoldingPC, Owned, EncodeBytes, EncodeReturns
  <2>5. Opening' /\ Undisturbed'
    BY <1>5 DEF Opening, Undisturbed, Locks, Holding, HoldingPC, Owned, Aliased, TypeOK, EncodeBytes, EncodeReturns
  <2> QED
    BY <2>1, <2>2, <2>3, <2>4, <2>5
<1>6. ASSUME EncodeDies(t) PROVE IInv'
  <2>1. TypeOK'
    BY <1>6 DEF TypeOK, Holding, HoldingPC, Owned, Aliased, EncodeDies
  <2>2. Locks' /\ Holding'
    BY <1>6 DEF Locks, Holding, HoldingPC, TypeOK, EncodeDies
  <2>3. Owned'
    BY <1>6 DEF Owned, TypeOK, Holding, HoldingPC, EncodeDies
  <2>4. Aliased' /\ Formatted'
    BY <1>6 DEF Aliased, Formatted, Locks, TypeOK, Holding, HoldingPC, Owned, EncodeDies
  <2>5. Opening' /\ Undisturbed'
    BY <1>6 DEF Opening, Undisturbed, Locks, Holding, HoldingPC, Owned, Aliased, TypeOK, EncodeDies
  <2> QED
    BY <2>1, <2>2, <2>3, <2>4, <2>5
<1>7. ASSUME TimerPack(t) PROVE IInv'
  <2>1. TypeOK'
    <3>1. handed' \in SUBSET (Frames \cup {NoBytes})
      <4>1. mEncoder \in Encoders /\ videoBuffer[mEncoder] \in Frames \cup {NoBytes}
        BY <1>7 DEF TypeOK, TimerPack
      <4>2. handed' \subseteq handed \cup {NoBytes, videoBuffer[mEncoder]}
        BY <1>7 DEF TimerPack
      <4>3. handed \in SUBSET (Frames \cup {NoBytes})
        BY DEF TypeOK
      <4> HIDE DEF Frames
      <4> QED
        BY <4>1, <4>2, <4>3
    <3> QED
      BY <1>7, <3>1 DEF TypeOK, TimerPack
  <2>2. Locks' /\ Holding'
    BY <1>7 DEF Locks, Holding, HoldingPC, TypeOK, TimerPack
  <2>3. Owned'
    BY <1>7 DEF Owned, TypeOK, Holding, HoldingPC, TimerPack
  <2>4. Aliased' /\ Formatted'
    BY <1>7 DEF Aliased, Formatted, Locks, TypeOK, Holding, HoldingPC, Owned, TimerPack
  <2>5. Opening' /\ Undisturbed'
    BY <1>7 DEF Opening, Undisturbed, Locks, Holding, HoldingPC, Owned, Aliased, TypeOK, TimerPack
  <2> QED
    BY <2>1, <2>2, <2>3, <2>4, <2>5
<1>8. ASSUME PackDies(t) PROVE IInv'
  <2>1. TypeOK'
    BY <1>8 DEF TypeOK, Holding, HoldingPC, Owned, Aliased, PackDies
  <2>2. Locks' /\ Holding'
    BY <1>8 DEF Locks, Holding, HoldingPC, TypeOK, PackDies
  <2>3. Owned'
    BY <1>8 DEF Owned, TypeOK, Holding, HoldingPC, PackDies
  <2>4. Aliased' /\ Formatted'
    BY <1>8 DEF Aliased, Formatted, Locks, TypeOK, Holding, HoldingPC, Owned, PackDies
  <2>5. Opening' /\ Undisturbed'
    BY <1>8 DEF Opening, Undisturbed, Locks, Holding, HoldingPC, Owned, Aliased, TypeOK, PackDies
  <2> QED
    BY <2>1, <2>2, <2>3, <2>4, <2>5
<1>9. ASSUME TimerRelease(t) PROVE IInv'
  <2>1. TypeOK'
    BY <1>9 DEF TypeOK, Holding, HoldingPC, Owned, Aliased, TimerRelease, Release
  <2>2. Locks' /\ Holding'
    BY <1>9 DEF Locks, Holding, HoldingPC, TypeOK, TimerRelease, Release
  <2>3. Owned'
    BY <1>9 DEF Owned, TypeOK, Holding, HoldingPC, TimerRelease, Release
  <2>4. Aliased' /\ Formatted'
    BY <1>9 DEF Aliased, Formatted, Locks, TypeOK, Holding, HoldingPC, Owned, TimerRelease, Release
  <2>5. Opening' /\ Undisturbed'
    BY <1>9 DEF Opening, Undisturbed, Locks, Holding, HoldingPC, Owned, Aliased, TypeOK, TimerRelease, Release
  <2> QED
    BY <2>1, <2>2, <2>3, <2>4, <2>5
<1>10. ASSUME TimerWake(t) PROVE IInv'
  <2>1. TypeOK'
    BY <1>10 DEF TypeOK, Holding, HoldingPC, Owned, Aliased, TimerWake
  <2>2. Locks' /\ Holding'
    BY <1>10 DEF Locks, Holding, HoldingPC, TypeOK, TimerWake
  <2>3. Owned'
    BY <1>10 DEF Owned, TypeOK, Holding, HoldingPC, TimerWake
  <2>4. Aliased' /\ Formatted'
    BY <1>10 DEF Aliased, Formatted, Locks, TypeOK, Holding, HoldingPC, Owned, TimerWake
  <2>5. Opening' /\ Undisturbed'
    BY <1>10 DEF Opening, Undisturbed, Locks, Holding, HoldingPC, Owned, Aliased, TypeOK, TimerWake
  <2> QED
    BY <2>1, <2>2, <2>3, <2>4, <2>5
<1> QED
  BY <1>1, <1>2, <1>3, <1>4, <1>5, <1>6, <1>7, <1>8, <1>9, <1>10 DEF TimerRuns

\* A client that has just been constructed satisfies the inductive
\* invariant.
LEMMA InitInductive == Init => IInv
<1> SUFFICES ASSUME Init PROVE IInv
  OBVIOUS
<1> USE ConstantsAssumption
<1> USE DEF Init, Threads, Frames, CallerPC, TimerPC, RawKinds, CriticalPC, HoldingPC, TimerAlive
<1>1. TypeOK
  <2>1. /\ pc \in [Threads -> CallerPC \cup TimerPC]
        /\ \A c \in Callers : pc[c] \in CallerPC
        /\ \A t \in Timers : pc[t] \in TimerPC
    OBVIOUS
  <2>2. nFrames \in Frames /\ lastTaken \in Frames
    OBVIOUS
  <2> QED
    BY <2>1, <2>2 DEF TypeOK
<1>2. Locks /\ Holding /\ Owned
  BY DEF Locks, Holding, Owned
<1>3. Aliased /\ Formatted
  BY DEF Aliased, Formatted
<1>4. Opening /\ Undisturbed
  BY DEF Opening, Undisturbed
<1> QED
  BY <1>1, <1>2, <1>3, <1>4 DEF IInv

\* The inductive invariant is kept by every step of the program and by
\* stuttering.
LEMMA NextInductive == IInv /\ [Next]_vars => IInv'
<1> SUFFICES ASSUME IInv, [Next]_vars PROVE IInv'
  OBVIOUS
<1>1. ASSUME NEW c \in Callers, CallerCalls(c) \/ CallerRuns(c) PROVE IInv'
  BY <1>1, CallerStep
<1>2. ASSUME NEW t \in Timers, TimerRuns(t) PROVE IInv'
  BY <1>2, TimerStep
<1>3. CASE UNCHANGED vars
  BY <1>3 DEF vars, encVars, sampleVars, localVars, historyVars, IInv, TypeOK, Locks, Holding,
              Owned, Aliased, Formatted, Opening, Undisturbed, TimerAlive
<1> QED
  BY <1>1, <1>2, <1>3 DEF Next, Dead

(* The inductive invariant holds in every behaviour. *)
THEOREM Inductive == Spec => []IInv
BY InitInductive, NextInductive, PTL DEF Spec

(* Every variable keeps its type: in particular no reference count goes below zero. *)
THEOREM TypeCorrect == Spec => []TypeOK
<1>1. IInv => TypeOK
  BY DEF IInv
<1> QED
  BY <1>1, Inductive, PTL

(* Each allocated sample has one owner and count 1: no leak, no double release. *)
THEOREM OneOwnerPerSample == Spec => []SampleOwnership
<1>1. ASSUME IInv, NEW s \in Samples, mRefCount[s] = 0 PROVE Owners(s) = {}
  BY <1>1, ConstantsAssumption DEF IInv, TypeOK, Owned, Owners
<1>2. ASSUME IInv, NEW s \in Samples, mRefCount[s] # 0
      PROVE  mRefCount[s] = 1 /\ \E o \in Threads \cup {NULL} : Owners(s) = {o}
  <2>1. CASE mSample = s
    <3>1. mRefCount[s] = 1 /\ \A x \in Threads : pSample[x] # s
      BY <1>2, <2>1, ConstantsAssumption DEF IInv, TypeOK, Owned
    <3>2. Owners(s) = {NULL}
      BY <2>1, <3>1 DEF Owners
    <3> QED
      BY <3>1, <3>2
  <2>2. CASE mSample # s
    <3>1. PICK x \in Threads : pSample[x] = s
      BY <1>2, <2>2 DEF IInv, Owned
    <3>2. mRefCount[s] = 1 /\ \A y \in Threads : pSample[y] = s => y = x
      BY <1>2, <3>1, ConstantsAssumption DEF IInv, TypeOK, Owned
    <3>3. Owners(s) = {x}
      BY <2>2, <3>1, <3>2 DEF Owners
    <3> QED
      BY <3>2, <3>3
  <2> QED
    BY <2>1, <2>2
<1>3. IInv => SampleOwnership
  BY <1>1, <1>2 DEF SampleOwnership
<1> QED
  BY <1>3, Inductive, PTL

(* The camera writes only to the mailbox's own, still allocated sample. *)
THEOREM CameraFillsMailbox == Spec => []FilledSampleIsMailbox
<1>1. IInv => FilledSampleIsMailbox
  BY ConstantsAssumption DEF IInv, Aliased, Owned, FilledSampleIsMailbox
<1> QED
  BY <1>1, Inductive, PTL

(* A timer thread never takes a sample without a format, so onTimer never leaks one. *)
THEOREM NoUnformattedSample == Spec => []MailboxFormatted
<1>1. IInv => MailboxFormatted
  BY ConstantsAssumption DEF IInv, Formatted, Locks, CriticalPC, Threads, MailboxFormatted
<1> QED
  BY <1>1, Inductive, PTL

(* Without a stop or a second start under a running timer, no thread meets a lost encoder. *)
THEOREM EncoderOutlivesUse == Spec => []UndisturbedEncoder
<1>1. IInv => UndisturbedEncoder
  BY ConstantsAssumption DEF IInv, Undisturbed, Opening, TypeOK, TimerAlive, UndisturbedEncoder
<1> QED
  BY <1>1, Inductive, PTL

-----------------------------------------------------------------------------
(***************************************************************************)
(* The refinement.  Frames reach the mailbox in order: the one being        *)
(* delivered is newer than the one waiting, and that is newer than every    *)
(* frame taken before it.                                                   *)
(***************************************************************************)
DeliveringPC == {"raw_convert", "raw_lock", "raw_fill"}

Order ==
    /\ lastTaken <= nFrames
    /\ mSample # NULL => frame[mSample] = 0 \/ frame[mSample] > lastTaken
    /\ mSample # NULL => frame[mSample] <= nFrames
    /\ mSample # NULL /\ ~mFormat[mSample] => frame[mSample] = 0
    /\ \A c \in Callers : pc[c] \in {"raw_lock", "raw_fill"} => frame[pSample[c]] = nFrames
    /\ \A c \in Callers : pc[c] \in DeliveringPC =>
          /\ lastTaken < nFrames
          /\ mSample # NULL => frame[mSample] < nFrames

\* A calling thread keeps the numbering of the frames: what waits in
\* mSample is newer than what was last taken.
LEMMA CallerOrder ==
    ASSUME IInv, Order, NEW c \in Callers, CallerCalls(c) \/ CallerRuns(c)
    PROVE  Order'
<1> USE ConstantsAssumption
<1> USE DEF IInv, TypeOK, Holding, HoldingPC, Owned, Order, DeliveringPC, At, Goto, Threads,
            Frames, encVars, sampleVars, localVars, historyVars
<1>1. CASE StartSelfVideo(c)
  BY <1>1 DEF StartSelfVideo, CanLock, Locks, Aliased
<1>2. CASE InitNew(c)
  BY <1>2 DEF InitNew, Unnamed, Locks, Aliased
<1>3. CASE OpenSucceeds(c)
  BY <1>3 DEF OpenSucceeds, Locks, Aliased
<1>4. CASE OpenFails(c)
  BY <1>4 DEF OpenFails, Locks, Aliased
<1>5. CASE InitFailed(c)
  BY <1>5 DEF InitFailed, Locks, Aliased
<1>6. CASE StartTimer(c)
  BY <1>6 DEF StartTimer, Locks, Aliased
<1>7. CASE StopSelfVideo(c)
  BY <1>7 DEF StopSelfVideo, CanLock, Locks, Aliased
<1>8. CASE UninitLock(c)
  BY <1>8 DEF UninitLock, CanLock, Locks, Aliased
<1>9. CASE UninitDelete(c)
  BY <1>9 DEF UninitDelete, Locks, Aliased
<1>10. CASE UninitReturn(c)
  BY <1>10 DEF UninitReturn, Locks, Aliased
<1>11. CASE OnRawFrame(c)
  BY <1>11 DEF OnRawFrame, CanLock, Alloc, Locks, Aliased
<1>12. CASE DropRawFrame(c)
  BY <1>12 DEF DropRawFrame, CanLock, Locks, Aliased
<1>13. CASE RawConvert(c)
  BY <1>13 DEF RawConvert, Locks, Aliased
<1>14. CASE RawLock(c)
  BY <1>14 DEF RawLock, CanLock, GetSampleToFill, Alloc, Locks, Aliased
<1>15. CASE RawFill(c)
  BY <1>15 DEF RawFill, SetFormat, ScaleYUVFrame, Locks, Aliased
<1>16. CASE RawReturn(c)
  BY <1>16 DEF RawReturn, Release, Locks, Aliased
<1> QED
  BY <1>1, <1>2, <1>3, <1>4, <1>5, <1>6, <1>7, <1>8, <1>9, <1>10, <1>11, <1>12, <1>13, <1>14, <1>15, <1>16 DEF CallerCalls, CallerRuns

\* A timer thread keeps the numbering of the frames.
LEMMA TimerOrder ==
    ASSUME IInv, Order, NEW t \in Timers, TimerRuns(t)
    PROVE  Order'
<1> USE ConstantsAssumption
<1> USE DEF IInv, TypeOK, Holding, HoldingPC, Owned, Order, DeliveringPC, At, Goto, Threads,
            Frames, encVars, sampleVars, localVars, historyVars
<1>1. CASE TimerCheck(t)
  BY <1>1 DEF TimerCheck
<1>2. CASE TimerTake(t)
  BY <1>2 DEF TimerTake, CanLock, GetSampleToEncode
<1>3. CASE TimerEncode(t)
  BY <1>3 DEF TimerEncode
<1>4. CASE EncodeNothing(t)
  BY <1>4 DEF EncodeNothing, EncodeReturns
<1>5. CASE EncodeBytes(t)
  BY <1>5 DEF EncodeBytes, EncodeReturns
<1>6. CASE EncodeDies(t)
  BY <1>6 DEF EncodeDies
<1>7. CASE TimerPack(t)
  BY <1>7 DEF TimerPack
<1>8. CASE PackDies(t)
  BY <1>8 DEF PackDies
<1>9. CASE TimerRelease(t)
  BY <1>9 DEF TimerRelease, Release
<1>10. CASE TimerWake(t)
  BY <1>10 DEF TimerWake
<1> QED
  BY <1>1, <1>2, <1>3, <1>4, <1>5, <1>6, <1>7, <1>8, <1>9, <1>10 DEF TimerRuns

\* A step of a calling thread is a Put of the mailbox or leaves the
\* mailbox as it is.
LEMMA CallerSimulates ==
    ASSUME IInv, Order, NEW c \in Callers, CallerCalls(c) \/ CallerRuns(c)
    PROVE  [Mailbox!Next]_(Mailbox!vars)
<1> USE ConstantsAssumption
<1> USE DEF IInv, TypeOK, Locks, Mailbox!vars, BoxFrame, PendingFrame, At, Goto, Threads,
            Frames, encVars, sampleVars, localVars, historyVars
<1>1. CASE StartSelfVideo(c)
  BY <1>1 DEF StartSelfVideo, CanLock
<1>2. CASE InitNew(c)
  BY <1>2 DEF InitNew, Unnamed
<1>3. CASE OpenSucceeds(c)
  BY <1>3 DEF OpenSucceeds
<1>4. CASE OpenFails(c)
  BY <1>4 DEF OpenFails
<1>5. CASE InitFailed(c)
  BY <1>5 DEF InitFailed
<1>6. CASE StartTimer(c)
  BY <1>6 DEF StartTimer
<1>7. CASE StopSelfVideo(c)
  BY <1>7 DEF StopSelfVideo, CanLock
<1>8. CASE UninitLock(c)
  BY <1>8 DEF UninitLock, CanLock
<1>9. CASE UninitDelete(c)
  BY <1>9 DEF UninitDelete
<1>10. CASE UninitReturn(c)
  BY <1>10 DEF UninitReturn
<1>11. CASE OnRawFrame(c)
  <2>1. PICK k \in RawKinds : rawKind' = [rawKind EXCEPT ![c] = k]
    BY <1>11 DEF OnRawFrame
  <2>2. PICK s \in Samples : Alloc(s) /\ pSample' = [pSample EXCEPT ![c] = s]
    BY <1>11 DEF OnRawFrame
  <2>3. BoxFrame' = BoxFrame
    BY <1>11, <2>2 DEF OnRawFrame, Alloc, Owned
  <2>4. PendingFrame = -1
    BY <1>11 DEF OnRawFrame, CanLock
  <2>5. PendingFrame' \in {nFrames', 0}
    BY <1>11, <2>1 DEF OnRawFrame
  <2>6. nFrames < MaxFrames /\ nFrames' = nFrames + 1 /\ UNCHANGED lastTaken
    BY <1>11 DEF OnRawFrame
  <2>7. Mailbox!Offer
    BY <2>3, <2>4, <2>5, <2>6 DEF Mailbox!Offer, Mailbox!Arrive, Mailbox!Empty, Mailbox!Blank
  <2> QED
    BY <2>7 DEF Mailbox!Next
<1>12. CASE DropRawFrame(c)
  BY <1>12 DEF DropRawFrame, CanLock, Mailbox!Next, Mailbox!Ignore, Mailbox!Arrive
<1>13. CASE RawConvert(c)
  BY <1>13 DEF RawConvert, Holding, HoldingPC, Owned
<1>14. CASE RawLock(c)
  BY <1>14 DEF RawLock, CanLock, GetSampleToFill, Alloc
<1>15. CASE RawFill(c)
  <2>1. /\ mEncodeMutex = c /\ mSample # NULL /\ pEncSample[c] = mSample
        /\ pSample[c] \in Samples /\ frame[pSample[c]] = nFrames /\ 0 < nFrames
    BY <1>15 DEF RawFill, Aliased, Holding, HoldingPC, Order, DeliveringPC
  <2>2. PendingFrame = IF rawKind[c] = "large" THEN nFrames ELSE 0
    BY <1>15, <2>1 DEF RawFill
  <2>3. PendingFrame' = -1
    BY <1>15, <2>1 DEF RawFill
  <2>4. BoxFrame' = IF rawKind[c] = "large" THEN nFrames ELSE frame[mSample]
    BY <1>15, <2>1 DEF RawFill, SetFormat, ScaleYUVFrame
  <2>5. BoxFrame = IF mFormat[mSample] THEN frame[mSample] ELSE -1
    BY <2>1
  <2>6. ~mFormat[mSample] => frame[mSample] = 0
    BY <2>1 DEF Order
  <2>7. Mailbox!Store
    BY <1>15, <2>1, <2>2, <2>3, <2>4, <2>5, <2>6
       DEF RawFill, Mailbox!Store, Mailbox!Empty, Mailbox!Blank
  <2> QED
    BY <2>7 DEF Mailbox!Next
<1>16. CASE RawReturn(c)
  BY <1>16 DEF RawReturn, Release
<1> QED
  BY <1>1, <1>2, <1>3, <1>4, <1>5, <1>6, <1>7, <1>8, <1>9, <1>10, <1>11, <1>12, <1>13, <1>14, <1>15, <1>16 DEF CallerCalls, CallerRuns

\* A step of a timer thread is a Take of the mailbox or leaves the
\* mailbox as it is.
LEMMA TimerSimulates ==
    ASSUME IInv, Order, NEW t \in Timers, TimerRuns(t)
    PROVE  [Mailbox!Next]_(Mailbox!vars)
<1> USE ConstantsAssumption
<1> USE DEF IInv, TypeOK, Locks, Mailbox!vars, BoxFrame, PendingFrame, At, Goto, Threads,
            Frames, encVars, sampleVars, localVars, historyVars
<1>1. CASE TimerCheck(t)
  BY <1>1 DEF TimerCheck
<1>2. CASE TimerTake(t)
  BY <1>2 DEF TimerTake, CanLock, GetSampleToEncode, Mailbox!Next, Mailbox!Take, Mailbox!Empty, Mailbox!Blank, Order, Formatted, CriticalPC
<1>3. CASE TimerEncode(t)
  BY <1>3 DEF TimerEncode
<1>4. CASE EncodeNothing(t)
  BY <1>4 DEF EncodeNothing, EncodeReturns
<1>5. CASE EncodeBytes(t)
  BY <1>5 DEF EncodeBytes, EncodeReturns
<1>6. CASE EncodeDies(t)
  BY <1>6 DEF EncodeDies
<1>7. CASE TimerPack(t)
  BY <1>7 DEF TimerPack
<1>8. CASE PackDies(t)
  BY <1>8 DEF PackDies
<1>9. CASE TimerRelease(t)
  BY <1>9 DEF TimerRelease, Release
<1>10. CASE TimerWake(t)
  BY <1>10 DEF TimerWake
<1> QED
  BY <1>1, <1>2, <1>3, <1>4, <1>5, <1>6, <1>7, <1>8, <1>9, <1>10 DEF TimerRuns

\* Frames keep their order in every behaviour.
LEMMA Ordered == Spec => []Order
<1>1. Init => Order
  BY ConstantsAssumption DEF Init, Order, DeliveringPC, Threads
<1>2. IInv /\ Order /\ [Next]_vars => Order'
  <2> SUFFICES ASSUME IInv, Order, [Next]_vars PROVE Order'
    OBVIOUS
  <2>1. CASE UNCHANGED vars
    BY <2>1 DEF Order, vars, sampleVars, localVars, historyVars
  <2> QED
    BY <2>1, CallerOrder, TimerOrder DEF Next, Dead
<1> QED
  BY <1>1, <1>2, Inductive, PTL DEF Spec

(* The capture path is a mailbox for the newest frame: FrameMailbox is implemented. *)
THEOREM Refinement == Spec => ImplementsMailbox
<1>1. Init => Mailbox!Init
  BY ConstantsAssumption DEF Init, Mailbox!Init, Mailbox!Empty, BoxFrame, PendingFrame, Threads
<1>2. IInv /\ Order /\ [Next]_vars => [Mailbox!Next]_(Mailbox!vars)
  <2> SUFFICES ASSUME IInv, Order, [Next]_vars PROVE [Mailbox!Next]_(Mailbox!vars)
    OBVIOUS
  <2>1. CASE UNCHANGED vars
    BY <2>1 DEF Mailbox!vars, BoxFrame, PendingFrame, vars, sampleVars, localVars, historyVars
  <2> QED
    BY <2>1, CallerSimulates, TimerSimulates DEF Next, Dead
<1> QED
  BY <1>1, <1>2, Inductive, Ordered, PTL DEF Spec, ImplementsMailbox, Mailbox!Spec

-----------------------------------------------------------------------------
(***************************************************************************)
(* What the sink is handed.  A frame that was taken is, until its bytes are *)
(* handed on, in one place: with the timer thread, in the codec, or in the  *)
(* encoder's buffer.                                                        *)
(***************************************************************************)
NotInCodec(f) == f = 0 \/ \A e \in Encoders : f \notin delayed[e]

Handing ==
    /\ \A f \in taken : f <= lastTaken
    /\ ~disturbed =>
        /\ handed \subseteq {0} \cup taken
        /\ \A e \in Encoders : delayed[e] \subseteq {0} \cup (taken \ handed)
        /\ \A d, e \in Encoders : d # e => delayed[d] \cap delayed[e] \subseteq {0}
        /\ \A t \in Timers : pc[t] \in {"encode", "encoding"} =>
              /\ frame[pSample[t]] \in {0} \cup (taken \ handed)
              /\ NotInCodec(frame[pSample[t]])
        /\ \A t \in Timers : pc[t] = "pack" =>
              /\ videoBuffer[mEncoder] \in {0} \cup (taken \ handed)
              /\ NotInCodec(videoBuffer[mEncoder])

\* A calling thread touches no frame a timer thread has taken.
LEMMA CallerHanding ==
    ASSUME IInv, Handing, NEW c \in Callers, CallerCalls(c) \/ CallerRuns(c)
    PROVE  Handing'
<1> USE ConstantsAssumption
<1> USE DEF IInv, TypeOK, Holding, HoldingPC, Owned, Handing, NotInCodec, At, Goto, Threads,
            encVars, sampleVars, localVars, historyVars
<1>1. CASE StartSelfVideo(c)
  BY <1>1 DEF StartSelfVideo, CanLock
<1>2. CASE InitNew(c)
  <2>1. PICK e \in Encoders : /\ videoBuffer' = [videoBuffer EXCEPT ![e] = NoBytes]
                             /\ delayed' = [delayed EXCEPT ![e] = {}]
    BY <1>2 DEF InitNew
  <2>2. /\ UNCHANGED <<lastTaken, taken, handed, frame, pSample>>
        /\ \A t \in Timers : pc'[t] = pc[t]
        /\ disturbed' = (disturbed \/ TimerAlive)
    BY <1>2 DEF InitNew
  <2>3. CASE disturbed'
    BY <2>2, <2>3
  <2>4. CASE ~disturbed'
    <3>1. ~disturbed /\ \A t \in Timers : pc'[t] = "none"
      BY <2>2, <2>4 DEF TimerAlive
    <3> QED
      BY <2>1, <2>2, <3>1
  <2> QED
    BY <2>3, <2>4
<1>3. CASE OpenSucceeds(c)
  BY <1>3 DEF OpenSucceeds
<1>4. CASE OpenFails(c)
  BY <1>4 DEF OpenFails
<1>5. CASE InitFailed(c)
  BY <1>5 DEF InitFailed, TimerAlive, Undisturbed
<1>6. CASE StartTimer(c)
  BY <1>6 DEF StartTimer
<1>7. CASE StopSelfVideo(c)
  BY <1>7 DEF StopSelfVideo, CanLock
<1>8. CASE UninitLock(c)
  BY <1>8 DEF UninitLock, CanLock
<1>9. CASE UninitDelete(c)
  BY <1>9 DEF UninitDelete
<1>10. CASE UninitReturn(c)
  BY <1>10 DEF UninitReturn, TimerAlive, Undisturbed
<1>11. CASE OnRawFrame(c)
  BY <1>11 DEF OnRawFrame, CanLock, Alloc
<1>12. CASE DropRawFrame(c)
  BY <1>12 DEF DropRawFrame, CanLock
<1>13. CASE RawConvert(c)
  BY <1>13 DEF RawConvert
<1>14. CASE RawLock(c)
  BY <1>14 DEF RawLock, CanLock, GetSampleToFill, Alloc
<1>15. CASE RawFill(c)
  BY <1>15 DEF RawFill, SetFormat, ScaleYUVFrame, Aliased
<1>16. CASE RawReturn(c)
  BY <1>16 DEF RawReturn, Release
<1> QED
  BY <1>1, <1>2, <1>3, <1>4, <1>5, <1>6, <1>7, <1>8, <1>9, <1>10, <1>11, <1>12, <1>13, <1>14, <1>15, <1>16 DEF CallerCalls, CallerRuns

\* A timer thread moves one frame from the mailbox to its hands, to the
\* codec, and one frame from the codec to the buffer and to the sink.
LEMMA TimerHanding ==
    ASSUME IInv, Order, Handing, NEW t \in Timers, TimerRuns(t)
    PROVE  Handing'
<1> USE ConstantsAssumption
<1> USE DEF IInv, TypeOK, Holding, HoldingPC, Owned, Handing, NotInCodec, At, Goto, Threads,
            encVars, sampleVars, localVars, historyVars
<1>1. CASE TimerCheck(t)
  BY <1>1 DEF TimerCheck
<1>2. CASE TimerTake(t)
  <2>1. CASE mSample = NULL
    BY <1>2, <2>1 DEF TimerTake, GetSampleToEncode
  <2>2. CASE mSample # NULL
    <3> DEFINE f == frame[mSample]
    <3>1. /\ pSample' = [pSample EXCEPT ![t] = mSample] /\ pc' = [pc EXCEPT ![t] = "encode"]
          /\ taken' = taken \cup ({f} \ {0})
          /\ lastTaken' = IF f > lastTaken THEN f ELSE lastTaken
          /\ UNCHANGED <<frame, handed, delayed, videoBuffer, mEncoder, disturbed>>
      BY <1>2, <2>2 DEF TimerTake, GetSampleToEncode, Camera
    <3>2. f \in Int /\ lastTaken \in Int /\ (f = 0 \/ f > lastTaken)
      BY <2>2 DEF Order, Frames
    <3>3. f = 0 \/ f \notin taken
      BY <3>2 DEF Frames
    <3>4. \A g \in taken' : g <= lastTaken'
      BY <3>1, <3>2 DEF Frames
    <3>5. CASE disturbed
      BY <3>1, <3>4, <3>5
    <3>6. CASE ~disturbed
      <4>1. f \in {0} \cup (taken' \ handed) /\ NotInCodec(f)
        BY <3>1, <3>3, <3>6 DEF NotInCodec
      <4>2. handed' \subseteq {0} \cup taken'
        BY <3>1, <3>6
      <4>3. \A e \in Encoders : delayed'[e] \subseteq {0} \cup (taken' \ handed')
        BY <3>1, <3>6
      <4>4. \A u \in Timers : u # t => pc'[u] = pc[u] /\ pSample'[u] = pSample[u]
        BY <3>1
      <4>5. frame'[pSample'[t]] = f
        BY <3>1
      <4> QED
        BY <3>1, <3>4, <4>1, <4>2, <4>3, <4>4, <4>5
    <3> QED
      BY <3>5, <3>6
  <2> QED
    BY <2>1, <2>2
<1>3. CASE TimerEncode(t)
  BY <1>3 DEF TimerEncode
<1>4. CASE EncodeNothing(t)
  <2> DEFINE e == useEncoder[t]
             f == frame[pSample[t]]
  <2>1. /\ pc[t] = "encoding" /\ pc' = [pc EXCEPT ![t] = "release"] /\ e \in Encoders
        /\ UNCHANGED <<mEncoder, videoBuffer, pSample, frame, taken, handed, lastTaken, disturbed>>
    BY <1>4 DEF EncodeNothing, EncodeReturns, Opening
  <2>2. CASE disturbed
    BY <2>1, <2>2
  <2>3. CASE ~disturbed
    <3>1. \A u \in Timers : u # t => pc[u] = "none"
      BY <2>1, <2>3 DEF Undisturbed
    <3>2. delayed' = delayed \/ delayed' = [delayed EXCEPT ![e] = @ \cup {f}]
      BY <1>4 DEF EncodeNothing
    <3>3. f \in {0} \cup (taken \ handed) /\ NotInCodec(f)
      BY <2>1, <2>3
    <3>4. \A d \in Encoders : delayed'[d] \subseteq {0} \cup (taken' \ handed')
      BY <2>1, <2>3, <3>2, <3>3
    <3>5. \A d1, d2 \in Encoders : d1 # d2 => delayed'[d1] \cap delayed'[d2] \subseteq {0}
      BY <2>1, <2>3, <3>2, <3>3
    <3> QED
      BY <2>1, <2>3, <3>1, <3>4, <3>5
  <2> QED
    BY <2>2, <2>3
<1>5. CASE EncodeBytes(t)
  <2> DEFINE e == useEncoder[t]
             f == frame[pSample[t]]
  <2>1. /\ pc[t] = "encoding" /\ pc' = [pc EXCEPT ![t] = "pack"] /\ e \in Encoders
        /\ UNCHANGED <<mEncoder, pSample, frame, taken, handed, lastTaken, disturbed>>
    BY <1>5 DEF EncodeBytes, EncodeReturns, Opening
  <2>2. CASE disturbed
    BY <2>1, <2>2
  <2>3. CASE ~disturbed
    <3>1. /\ e = mEncoder /\ encoder[e] = "open"
          /\ \A u \in Timers : u # t => pc[u] = "none"
      BY <2>1, <2>3 DEF Undisturbed, Opening, TimerAlive
    <3>2. PICK g \in delayed[e] \cup {f} :
             /\ videoBuffer' = [videoBuffer EXCEPT ![e] = g]
             /\ delayed' = [delayed EXCEPT ![e] = (@ \cup {f}) \ ({g} \ {0})]
      BY <1>5, <3>1 DEF EncodeBytes, Camera
    <3>3. /\ f \in {0} \cup (taken \ handed) /\ NotInCodec(f)
          /\ g \in {0} \cup (taken \ handed)
      BY <2>1, <2>3, <3>2
    <3>4. NotInCodec(g)'
      <4>1. \A d \in Encoders : d # e => delayed'[d] = delayed[d]
        BY <3>2
      <4>2. g = 0 \/ g \notin delayed'[e]
        BY <2>1, <3>2
      <4>3. g = 0 \/ \A d \in Encoders : d # e => g \notin delayed[d]
        BY <2>1, <2>3, <3>2, <3>3
      <4> QED
        BY <4>1, <4>2, <4>3
    <3> QED
      BY <2>1, <2>3, <3>1, <3>2, <3>3, <3>4
  <2> QED
    BY <2>2, <2>3
<1>6. CASE EncodeDies(t)
  BY <1>6 DEF EncodeDies
<1>7. CASE TimerPack(t)
  BY <1>7 DEF TimerPack, Undisturbed, TimerAlive
<1>8. CASE PackDies(t)
  BY <1>8 DEF PackDies
<1>9. CASE TimerRelease(t)
  BY <1>9 DEF TimerRelease, Release
<1>10. CASE TimerWake(t)
  BY <1>10 DEF TimerWake
<1> QED
  BY <1>1, <1>2, <1>3, <1>4, <1>5, <1>6, <1>7, <1>8, <1>9, <1>10 DEF TimerRuns

(* Until the encoder is disturbed, the sink is handed only bytes of taken frames, each frame once. *)
THEOREM SinkGetsTakenFrames == Spec => []UndisturbedPacking
<1>1. Init => Handing
  BY ConstantsAssumption DEF Init, Handing, NotInCodec, Threads
<1>2. IInv /\ Order /\ Handing /\ [Next]_vars => Handing'
  <2> SUFFICES ASSUME IInv, Order, Handing, [Next]_vars PROVE Handing'
    OBVIOUS
  <2>1. CASE UNCHANGED vars
    BY <2>1 DEF Handing, NotInCodec, vars, encVars, sampleVars, localVars, historyVars
  <2> QED
    BY <2>1, CallerHanding, TimerHanding DEF Next, Dead
<1>3. Handing => UndisturbedPacking
  BY DEF Handing, UndisturbedPacking
<1> QED
  BY <1>1, <1>2, <1>3, Inductive, Ordered, PTL DEF Spec

=====
