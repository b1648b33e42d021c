------------------------- MODULE FFmpegEncoderProofs -------------------------
(***************************************************************************)
(* Proofs about FFmpegEncoder, for every bound on its calls.  The inductive *)
(* invariant adds to the stated properties what tells the opens apart: an   *)
(* open numbers its allocations with a number not used before, an encoder   *)
(* that is not open only points at what a failed open left, and a stream    *)
(* that is not encoded has no fields; without an object there is no field.  *)
(***************************************************************************)
EXTENDS FFmpegEncoder, TLAPS

Numbered ==
    /\ \A f \in Fields : field[f] <= nOpens
    /\ \A n \in failedOpens : n <= nOpens

ClosedPointsAtFailed == ~opened => \A f \in Fields : field[f] # 0 => field[f] \in failedOpens

UnusedFieldsNull ==
    /\ ~encodeVideo => \A f \in VideoFields : field[f] = 0
    /\ ~encodeAudio => \A f \in AudioFields : field[f] = 0

GoneIsNull == ~exists => ~opened /\ \A f \in Fields : field[f] = 0

IInv ==
    /\ TypeOK
    /\ GoneIsNull
    /\ Numbered
    /\ ClosedPointsAtFailed
    /\ UnusedFieldsNull
    /\ NoDanglingPointer
    /\ OpenedReady
    /\ LeaksExplained

(* The allocations of two different fields have different kinds. *)
LEMMA OwnedDisjoint ==
    ASSUME NEW f \in Fields, NEW g \in Fields, f # g
    PROVE  ({f} \cup Owned(f)) \cap ({g} \cup Owned(g)) = {}
<1>1. \A h \in Fields : Owned(h) \cap Fields = {}
  BY DEF Fields, VideoFields, AudioFields, Owned
<1>2. Owned(f) \cap Owned(g) = {}
  BY DEF Fields, VideoFields, AudioFields, Owned
<1> QED BY <1>1, <1>2

(* A field and what it owns are kinds other than "frame". *)
LEMMA OwnedKinds == \A f \in Fields : {f} \cup Owned(f) \subseteq Kinds \ {"frame"}
BY DEF Kinds, Fields, VideoFields, AudioFields, Owned

(* Every kind but "frame" belongs to exactly the field that leads to it. *)
LEMMA TakenOwner ==
    ASSUME NEW s \in Steps, NEW k \in Taken(s)
    PROVE  \E f \in Fields \cap Steps : k \in {f} \cup Owned(f)
BY DEF Taken, Steps, VideoSteps, FrameSteps, AudioSteps, Fields, VideoFields, AudioFields, Owned

(* What a step takes is one of the kinds. *)
LEMMA TakenKinds == \A s \in Steps : Taken(s) \subseteq Kinds
BY TakenOwner, OwnedKinds

(* The fields of an encoder without memory, and of one that released it. *)
LEMMA NoFieldType == NoField \in [Fields -> 0 .. MaxOpens]
BY BoundsAssumption DEF NoField

LEMMA ClearedType == TypeOK => Cleared \in [Fields -> 0 .. MaxOpens]
BY BoundsAssumption DEF TypeOK, Cleared

(* What each call can record about itself. *)
LEMMA ResultType ==
    ASSUME NEW call \in Calls, NEW what \in Outcomes, Returned(call, what)
    PROVE  result' \in [call : Calls, what : Outcomes]
BY DEF Returned

LEMMA PlanSteps == Plan \subseteq Steps
BY DEF Plan, Steps

-----------------------------------------------------------------------------
LEMMA InitIInv == Init => IInv
<1> SUFFICES ASSUME Init PROVE IInv
  OBVIOUS
<1>1. MaxOpens \in Nat /\ MaxFrames \in Nat
  BY BoundsAssumption
<1>2. TypeOK
  <2>1. field \in [Fields -> 0 .. MaxOpens]
    BY NoFieldType DEF Init
  <2>2. result \in [call : Calls, what : Outcomes]
    BY DEF Init, Calls, Outcomes
  <2>3. 0 \in 0 .. MaxOpens /\ 0 \in 0 .. MaxFrames
    BY <1>1
  <2> QED BY <2>1, <2>2, <2>3 DEF Init, TypeOK, Params
<1> QED BY <1>2 DEF Init, IInv, GoneIsNull, Numbered, ClosedPointsAtFailed, UnusedFieldsNull, NoField,
    NoDanglingPointer, OpenedReady, LeaksExplained, VideoFields, AudioFields, Fields

(* The calls that only refuse, fail or encode change no memory: only result *)
(* and crashed move.                                                        *)
LEMMA QuietStep ==
    ASSUME IInv,
           UNCHANGED <<exists, params, flags, field, heap, nOpens, failedOpens, nFrames>>,
           result' \in [call : Calls, what : Outcomes], crashed' \in BOOLEAN
    PROVE  IInv'
BY DEF IInv, TypeOK, GoneIsNull, Numbered, ClosedPointsAtFailed, UnusedFieldsNull, NoDanglingPointer,
    OpenedReady, LeaksExplained, Ready, Reachable, Reached, params, flags

(* An allocation has a number from 1 on, so a NULL field reaches nothing.   *)
LEMMA NullReachesNothing ==
    ASSUME TypeOK, NEW f \in Fields, field[f] = 0
    PROVE  Reached(f) \cap heap = {}
<1>1. MaxOpens \in Nat /\ MaxFrames \in Nat
  BY BoundsAssumption
<1>2. \A o \in heap : o[2] # 0
  BY <1>1 DEF TypeOK, Objects
<1> QED BY <1>2 DEF Reached

(* A new object starts with NULL fields, as the gone one ended. *)
LEMMA NewStep == ASSUME IInv, New PROVE IInv'
<1>1. \A f \in Fields : field[f] = 0 /\ field'[f] = 0
  BY DEF New, NoField, IInv, GoneIsNull
<1>2. TypeOK'
  <2>1. result' \in [call : Calls, what : Outcomes]
    BY ResultType DEF New, Calls, Outcomes
  <2>2. field' \in [Fields -> 0 .. MaxOpens]
    BY NoFieldType DEF New
  <2> QED BY <2>1, <2>2 DEF IInv, TypeOK, New
<1>3. LeaksExplained'
  <2> SUFFICES ASSUME NEW o \in heap' PROVE o[2] \in failedOpens' \/ o[1] = "frame"
    BY DEF LeaksExplained
  <2>1. o \in heap /\ failedOpens' = failedOpens
    BY DEF New
  <2>2. o \notin Reachable
    BY <1>1, <2>1, NullReachesNothing DEF Reachable, IInv
  <2> QED BY <2>1, <2>2 DEF IInv, LeaksExplained
<1> QED BY <1>1, <1>2, <1>3 DEF IInv, New, GoneIsNull, Numbered, ClosedPointsAtFailed,
    UnusedFieldsNull, NoDanglingPointer, OpenedReady, VideoFields, AudioFields, Fields

(* A refused picture adds one frame that nothing reaches. *)
LEMMA MismatchStep ==
    ASSUME IInv, NEW picture \in Pictures, EncodeVideoMismatch(picture)
    PROVE  IInv'
<1>1. heap' = heap \cup {<<"frame", nFrames + 1>>}
  BY DEF EncodeVideoMismatch
<1>a. nFrames < MaxFrames /\ nFrames' = nFrames + 1
  BY DEF EncodeVideoMismatch
<1>b. nFrames \in 0 .. MaxFrames
  BY DEF IInv, TypeOK
<1>2. <<"frame", nFrames + 1>> \in Objects
  <2>1. nFrames + 1 \in 1 .. MaxOpens + MaxFrames
    BY <1>a, <1>b, BoundsAssumption
  <2>2. "frame" \in Kinds
    BY DEF Kinds
  <2> QED BY <2>1, <2>2 DEF Objects
<1>3. TypeOK'
  <2>1. result' \in [call : Calls, what : Outcomes]
    BY ResultType DEF EncodeVideoMismatch, Calls, Outcomes
  <2>2. nFrames' \in 0 .. MaxFrames
    BY <1>a, <1>b, BoundsAssumption
  <2> QED BY <1>1, <1>2, <2>1, <2>2 DEF IInv, TypeOK, EncodeVideoMismatch, params, flags
<1>4. LeaksExplained'
  <2>1. UNCHANGED <<field, failedOpens>>
    BY DEF EncodeVideoMismatch
  <2>2. Reachable' = Reachable
    BY <2>1 DEF Reachable, Reached
  <2> QED BY <1>1, <2>1, <2>2 DEF IInv, LeaksExplained
<1>5. OpenedReady'
  BY <1>1 DEF IInv, OpenedReady, Ready, Reached, EncodeVideoMismatch, params, flags
<1> QED BY <1>1, <1>3, <1>4, <1>5 DEF IInv, EncodeVideoMismatch, GoneIsNull, Numbered,
    ClosedPointsAtFailed, UnusedFieldsNull, NoDanglingPointer, params, flags

-----------------------------------------------------------------------------
(* A field that open assigned points at what it took itself. *)
LEMMA TakesItself == \A f \in Fields \cap Steps : f \in Taken(f)
BY DEF Fields, VideoFields, AudioFields, Taken

(* When nothing checked failed, open went through its whole plan. *)
LEMMA NothingFatal ==
    ASSUME NEW bad, Fatal(bad) = {}
    PROVE  Attempted(bad) = Plan /\ Plan \ Unchecked \subseteq Plan \ bad
BY DEF Attempted, Fatal

LEMMA OpenStep == ASSUME IInv, Open PROVE IInv'
<1> DEFINE n == nOpens + 1
<1>1. PICK bad \in Failures :
        /\ field' = [f \in Fields |-> FieldAfter(f, bad, n)]
        /\ heap' = heap \cup ((UNION {Taken(s) : s \in Attempted(bad) \ bad}) \X {n})
        /\ opened' = (Fatal(bad) = {})
        /\ failedOpens' = IF opened' THEN failedOpens ELSE failedOpens \cup {n}
        /\ Returned("open", IF opened' THEN "done" ELSE "failed")
  BY DEF Open
<1> DEFINE Got == UNION {Taken(s) : s \in Attempted(bad) \ bad}
<1>2. /\ exists /\ ~opened /\ nOpens < MaxOpens /\ nOpens' = n
      /\ UNCHANGED <<exists, video, audio, converts, pcm, encodeVideo, encodeAudio, nFrames, crashed>>
  BY DEF Open, params
<1>3. n \in 1 .. MaxOpens /\ n \in 1 .. MaxOpens + MaxFrames /\ nOpens \in Nat
  BY <1>2, BoundsAssumption DEF IInv, TypeOK
<1>4. Attempted(bad) \subseteq Plan /\ Attempted(bad) \subseteq Steps
  BY PlanSteps DEF Attempted
<1>5. \A f \in Fields : field'[f] = FieldAfter(f, bad, n)
  BY <1>1
<1>6. \A f \in Fields : field'[f] \in {field[f], 0, n}
  BY <1>5 DEF FieldAfter
<1>7. TypeOK'
  <2>1. Got \subseteq Kinds
    BY <1>4, TakenKinds
  <2>2. heap' \subseteq Objects
    BY <1>1, <1>3, <2>1 DEF Objects, IInv, TypeOK
  <2>3. field' \in [Fields -> 0 .. MaxOpens]
    <3>1. \A f \in Fields : field'[f] \in 0 .. MaxOpens
      BY <1>3, <1>6, BoundsAssumption DEF IInv, TypeOK
    <3> QED BY <1>1, <3>1
  <2>4. failedOpens' \subseteq Opens
    BY <1>1, <1>3 DEF Opens, IInv, TypeOK
  <2>5. result' \in [call : Calls, what : Outcomes] /\ opened' \in BOOLEAN
    BY <1>1 DEF Returned, Calls, Outcomes
  <2> QED BY <1>2, <1>3, <2>2, <2>3, <2>4, <2>5 DEF IInv, TypeOK
<1>8. GoneIsNull'
  BY <1>2 DEF GoneIsNull
<1>9. Numbered'
  <2>1. \A f \in Fields : field[f] <= nOpens /\ field[f] \in Nat
    BY DEF IInv, TypeOK, Numbered
  <2>2. \A f \in Fields : field'[f] <= n
    BY <1>3, <1>6, <2>1
  <2>3. \A m \in failedOpens' : m <= n
    BY <1>1, <1>3 DEF IInv, Numbered, TypeOK, Opens
  <2> QED BY <1>2, <2>2, <2>3 DEF Numbered
<1>10. ClosedPointsAtFailed'
  BY <1>1, <1>2, <1>6 DEF IInv, ClosedPointsAtFailed
<1>11. UnusedFieldsNull'
  <2>1. ASSUME ~encodeVideo, NEW f \in VideoFields PROVE field'[f] = 0
    <3>1. f \notin Plan
      BY <2>1 DEF Plan, VideoFields, AudioSteps
    <3> QED BY <1>4, <1>5, <2>1, <3>1 DEF FieldAfter, IInv, UnusedFieldsNull, Fields
  <2>2. ASSUME ~encodeAudio, NEW f \in AudioFields PROVE field'[f] = 0
    <3>1. f \notin Plan
      BY <2>2 DEF Plan, AudioFields, VideoSteps, FrameSteps
    <3> QED BY <1>4, <1>5, <2>2, <3>1 DEF FieldAfter, IInv, UnusedFieldsNull, Fields
  <2> QED BY <1>2, <2>1, <2>2 DEF UnusedFieldsNull
<1>12. NoDanglingPointer'
  <2> SUFFICES ASSUME NEW f \in Fields, field'[f] # 0 PROVE <<f, field'[f]>> \in heap'
    BY DEF NoDanglingPointer
  <2>1. CASE f \in Attempted(bad)
    <3>1. f \notin bad /\ field'[f] = n
      BY <1>5, <2>1 DEF FieldAfter
    <3>2. f \in Got
      BY <1>4, <2>1, <3>1, TakesItself
    <3> QED BY <1>1, <3>1, <3>2
  <2>2. CASE f \notin Attempted(bad)
    BY <1>1, <1>5, <2>2 DEF FieldAfter, IInv, NoDanglingPointer
  <2> QED BY <2>1, <2>2
<1>13. OpenedReady'
  <2> SUFFICES ASSUME opened' PROVE OpenedReady'
    BY DEF OpenedReady
  <2>1. Attempted(bad) = Plan /\ Plan \ Unchecked \subseteq Plan \ bad
    BY <1>1, NothingFatal
  <2>2. \A s \in Plan \ Unchecked : s \in Attempted(bad) /\ s \notin bad
    BY <2>1
  <2>3. \A f \in Fields : f \in Plan \ Unchecked => field'[f] = n
    BY <1>5, <2>2 DEF FieldAfter
  <2>4. \A s \in Plan \ Unchecked : \A k \in Taken(s) : <<k, n>> \in heap'
    BY <1>1, <2>2
  <2>5. Ready("outputContext")'
    <3>1. "outputContext" \in Plan \ Unchecked /\ "outputContext" \in Fields
      BY DEF Plan, Unchecked, Fields
    <3>2. "outputContext" \in Taken("outputContext") /\ Owned("outputContext") = {}
      BY DEF Taken, Owned
    <3> QED BY <1>3, <2>3, <2>4, <3>1, <3>2 DEF Ready, Reached
  <2>6. encodeVideo => Ready("videoStream")'
    <3> SUFFICES ASSUME encodeVideo PROVE Ready("videoStream")'
      OBVIOUS
    <3>1. {"videoStream", "videoCodec"} \subseteq Plan \ Unchecked /\ "videoStream" \in Fields
      BY DEF Plan, VideoSteps, Unchecked, Fields, VideoFields
    <3>2. /\ {"videoStream", "videoContext"} = Taken("videoStream")
          /\ {"videoCodec"} = Taken("videoCodec")
          /\ Owned("videoStream") = {"videoContext", "videoCodec"}
      BY DEF Taken, Owned
    <3> QED BY <1>3, <2>3, <2>4, <3>1, <3>2 DEF Ready, Reached
  <2>7. encodeAudio => Ready("audioStream")'
    <3> SUFFICES ASSUME encodeAudio PROVE Ready("audioStream")'
      OBVIOUS
    <3>1. {"audioStream", "audioCodec"} \subseteq Plan \ Unchecked /\ "audioStream" \in Fields
      BY DEF Plan, AudioSteps, Unchecked, Fields, AudioFields
    <3>2. /\ {"audioStream", "audioContext"} = Taken("audioStream")
          /\ {"audioCodec"} = Taken("audioCodec")
          /\ Owned("audioStream") = {"audioContext", "audioCodec"}
      BY DEF Taken, Owned
    <3> QED BY <1>3, <2>3, <2>4, <3>1, <3>2 DEF Ready, Reached
  <2> QED BY <1>2, <2>5, <2>6, <2>7 DEF OpenedReady
<1>14. LeaksExplained'
  <2> SUFFICES ASSUME NEW o \in heap'
               PROVE  o \in Reachable' \/ o[2] \in failedOpens' \/ o[1] = "frame"
    BY DEF LeaksExplained
  <2>1. CASE o \in heap
    <3>1. CASE o \in Reachable
      <4>1. PICK f \in Fields : o \in Reached(f)
        BY <3>1 DEF Reachable
      <4>2. field[f] # 0 /\ o[2] = field[f]
        BY <2>1, <4>1, NullReachesNothing DEF IInv, Reached
      <4> QED BY <1>1, <1>2, <4>2 DEF IInv, ClosedPointsAtFailed
    <3> QED BY <1>1, <2>1, <3>1 DEF IInv, LeaksExplained
  <2>2. CASE o \notin heap /\ ~opened'
    BY <1>1, <2>2
  <2>3. CASE o \notin heap /\ opened'
    <3>0. PICK s \in Attempted(bad) \ bad : \E k \in Taken(s) : o = <<k, n>>
      BY <1>1, <2>3
    <3>1. PICK k \in Taken(s) : o = <<k, n>>
      BY <3>0
    <3>2. PICK f \in Fields : f \in Attempted(bad) \ bad /\ k \in {f} \cup Owned(f)
      <4>1. Plan \ Unchecked \subseteq Plan \ bad /\ Attempted(bad) = Plan
        BY <1>1, <2>3, NothingFatal
      <4>2. s \in Steps /\ s \in Plan
        BY <1>4
      <4>3. CASE s = "videoCodec"
        BY <4>1, <4>2, <4>3 DEF Taken, Plan, VideoSteps, FrameSteps, AudioSteps, Unchecked,
            Fields, VideoFields, Owned
      <4>4. CASE s = "audioCodec"
        BY <4>1, <4>2, <4>4 DEF Taken, Plan, VideoSteps, FrameSteps, AudioSteps, Unchecked,
            Fields, AudioFields, Owned
      <4>5. CASE s = "picture"
        BY <4>1, <4>2, <4>5 DEF Taken, Plan, VideoSteps, FrameSteps, AudioSteps, Unchecked,
            Fields, VideoFields, Owned
      <4>6. CASE s \notin {"videoCodec", "audioCodec", "picture"}
        <5>1. s \in Fields /\ k \in {s} \cup Owned(s)
          BY <3>1, <4>2, <4>6 DEF Taken, Steps, VideoSteps, FrameSteps, AudioSteps,
              Fields, VideoFields, AudioFields, Owned
        <5> QED BY <3>1, <5>1
      <4> QED BY <4>3, <4>4, <4>5, <4>6
    <3>3. field'[f] = n
      BY <1>5, <3>2 DEF FieldAfter
    <3> QED BY <3>1, <3>2, <3>3 DEF Reachable, Reached
  <2> QED BY <2>1, <2>2, <2>3
<1> QED BY <1>7, <1>8, <1>9, <1>10, <1>11, <1>12, <1>13, <1>14 DEF IInv

-----------------------------------------------------------------------------
(* Releasing the closing fields leaves the others' memory alone, and what   *)
(* stays was reached by a field that stays or was a leak before.            *)
LEMMA ReleaseKeepsOthers ==
    ASSUME NEW f \in Fields \ Closing, NEW o \in Reached(f) \cap heap, Release
    PROVE  o \in heap'
<1>1. Closing \subseteq Fields
  BY DEF Closing, Fields
<1>2. PICK k \in {f} \cup Owned(f) : o = <<k, field[f]>>
  BY DEF Reached
<1>3. \A g \in Closing : o \notin Reached(g)
  BY <1>1, <1>2, OwnedDisjoint DEF Reached
<1> QED BY <1>3 DEF Release

LEMMA CloseStep == ASSUME IInv, Close PROVE IInv'
<1>1. CASE ~opened
  <2>1. UNCHANGED <<exists, params, flags, field, heap, nOpens, failedOpens, nFrames, crashed>>
    BY <1>1 DEF Close
  <2>2. result' \in [call : Calls, what : Outcomes] /\ crashed' \in BOOLEAN
    BY <2>1 DEF Close, Returned, Calls, Outcomes, IInv, TypeOK
  <2> QED BY <2>1, <2>2, QuietStep
<1>2. CASE opened
  <2>1. /\ Release /\ field' = Cleared
        /\ ~opened' /\ ~encodeVideo' /\ ~encodeAudio' /\ opened' \in BOOLEAN
        /\ encodeVideo' \in BOOLEAN /\ encodeAudio' \in BOOLEAN
        /\ UNCHANGED <<exists, video, audio, converts, pcm, nOpens, failedOpens, nFrames, crashed>>
        /\ result' = [call |-> "close", what |-> "done"]
    BY <1>2 DEF Close, params, Returned
  <2>2. \A f \in Fields : field'[f] = 0
    BY <2>1 DEF Cleared, Closing, IInv, UnusedFieldsNull, Fields
  <2>3. heap' \subseteq heap
    BY <2>1 DEF Release
  <2>4. TypeOK'
    <3>1. field' \in [Fields -> 0 .. MaxOpens]
      BY <2>1, ClearedType DEF IInv
    <3>2. result' \in [call : Calls, what : Outcomes]
      BY <2>1 DEF Calls, Outcomes
    <3> QED BY <2>1, <2>3, <3>1, <3>2 DEF IInv, TypeOK
  <2>5. LeaksExplained'
    <3> SUFFICES ASSUME NEW o \in heap' PROVE o[2] \in failedOpens \/ o[1] = "frame"
      BY <2>1 DEF LeaksExplained
    <3>1. o \notin Reachable
      <4> SUFFICES ASSUME NEW f \in Fields PROVE o \notin Reached(f)
        BY DEF Reachable
      <4>1. CASE f \in Closing
        BY <2>1, <4>1 DEF Release
      <4>2. CASE f \notin Closing
        <5>1. field[f] = 0
          BY <4>2 DEF Closing, IInv, UnusedFieldsNull, Fields
        <5> QED BY <2>3, <5>1, NullReachesNothing DEF IInv
      <4> QED BY <4>1, <4>2
    <3> QED BY <2>3, <3>1 DEF IInv, LeaksExplained
  <2>6. VideoFields \subseteq Fields /\ AudioFields \subseteq Fields
    BY DEF Fields
  <2> QED BY <2>1, <2>2, <2>4, <2>5, <2>6 DEF IInv, TypeOK, GoneIsNull, Numbered,
      ClosedPointsAtFailed, UnusedFieldsNull, NoDanglingPointer, OpenedReady
<1> QED BY <1>1, <1>2

LEMMA DeleteStep == ASSUME IInv, Delete PROVE IInv'
<1>1. /\ field' = NoField
      /\ ~opened' /\ ~encodeVideo' /\ ~encodeAudio' /\ opened' \in BOOLEAN
      /\ encodeVideo' \in BOOLEAN /\ encodeAudio' \in BOOLEAN /\ ~exists' /\ exists' \in BOOLEAN
      /\ UNCHANGED <<video, audio, converts, pcm, nOpens, failedOpens, nFrames, crashed>>
      /\ result' = [call |-> "delete", what |-> "done"]
      /\ IF opened THEN Release ELSE heap' = heap
  BY DEF Delete, params, Returned
<1>2. \A f \in Fields : field'[f] = 0
  BY <1>1 DEF NoField
<1>3. heap' \subseteq heap
  BY <1>1 DEF Release
<1>4. TypeOK'
  <2>1. result' \in [call : Calls, what : Outcomes]
    BY <1>1 DEF Calls, Outcomes
  <2> QED BY <1>1, <1>3, <2>1, NoFieldType DEF IInv, TypeOK
<1>5. LeaksExplained'
  <2> SUFFICES ASSUME NEW o \in heap' PROVE o[2] \in failedOpens \/ o[1] = "frame"
    BY <1>1 DEF LeaksExplained
  <2>1. ASSUME NEW f \in Fields, o \in Reached(f) PROVE o[2] \in failedOpens
    <3>1. field[f] # 0 /\ o[2] = field[f]
      BY <1>3, <2>1, NullReachesNothing DEF IInv, Reached
    <3>2. CASE opened
      BY <1>1, <2>1, <3>1, <3>2 DEF Release, Closing, IInv, UnusedFieldsNull, Fields
    <3>3. CASE ~opened
      BY <3>1, <3>3 DEF IInv, ClosedPointsAtFailed
    <3> QED BY <3>2, <3>3
  <2> QED BY <1>3, <2>1 DEF IInv, LeaksExplained, Reachable
<1>6. VideoFields \subseteq Fields /\ AudioFields \subseteq Fields
  BY DEF Fields
<1> QED BY <1>1, <1>2, <1>4, <1>5, <1>6 DEF IInv, TypeOK, GoneIsNull, Numbered,
    ClosedPointsAtFailed, UnusedFieldsNull, NoDanglingPointer, OpenedReady

-----------------------------------------------------------------------------
LEMMA NextIInv == IInv /\ [Next]_vars => IInv'
<1> SUFFICES ASSUME IInv, [Next]_vars PROVE IInv'
  OBVIOUS
<1> DEFINE Quiet ==
      /\ UNCHANGED <<exists, params, flags, field, heap, nOpens, failedOpens, nFrames>>
      /\ result' \in [call : Calls, what : Outcomes]
      /\ crashed' \in BOOLEAN
<1>1. Quiet => IInv'
  BY QuietStep
<1>2. ASSUME OpenRefused PROVE Quiet
  BY <1>2 DEF OpenRefused, Returned, Calls, Outcomes, IInv, TypeOK
<1>3. ASSUME NEW picture \in Pictures, EncodeVideoFrame(picture) PROVE Quiet
  <2>1. CASE crashed' = TRUE /\ UNCHANGED result
    <3>1. result' \in [call : Calls, what : Outcomes]
      BY <2>1 DEF IInv, TypeOK
    <3>2. UNCHANGED <<exists, params, flags, field, heap, nOpens, failedOpens, nFrames>>
      BY <1>3 DEF EncodeVideoFrame
    <3>3. crashed' \in BOOLEAN
      BY <2>1
    <3> QED BY <3>1, <3>2, <3>3
  <2>2. CASE UNCHANGED crashed /\ \E what \in {"encoded", "failed"} : Returned("encodeVideo", what)
    <3>1. result' \in [call : Calls, what : Outcomes]
      BY <2>2, ResultType DEF Calls, Outcomes
    <3>2. UNCHANGED <<exists, params, flags, field, heap, nOpens, failedOpens, nFrames>>
      BY <1>3 DEF EncodeVideoFrame
    <3>3. crashed' \in BOOLEAN
      BY <2>2 DEF IInv, TypeOK
    <3> QED BY <3>1, <3>2, <3>3
  <2> QED BY <1>3, <2>1, <2>2 DEF EncodeVideoFrame
<1>4. ASSUME EncodeVideoRefused PROVE Quiet
  BY <1>4 DEF EncodeVideoRefused, Returned, Calls, Outcomes, IInv, TypeOK
<1>5. ASSUME NEW dataSize \in 0 .. MaxData, EncodeAudioFrame(dataSize) PROVE Quiet
  <2>1. CASE crashed' = TRUE /\ UNCHANGED result
    <3>1. result' \in [call : Calls, what : Outcomes]
      BY <2>1 DEF IInv, TypeOK
    <3>2. UNCHANGED <<exists, params, flags, field, heap, nOpens, failedOpens, nFrames>>
      BY <1>5 DEF EncodeAudioFrame
    <3>3. crashed' \in BOOLEAN
      BY <2>1
    <3> QED BY <3>1, <3>2, <3>3
  <2>2. CASE UNCHANGED crashed /\ \E what \in {"encoded", "failed"} : Returned("encodeAudio", what)
    <3>1. result' \in [call : Calls, what : Outcomes]
      BY <2>2, ResultType DEF Calls, Outcomes
    <3>2. UNCHANGED <<exists, params, flags, field, heap, nOpens, failedOpens, nFrames>>
      BY <1>5 DEF EncodeAudioFrame
    <3>3. crashed' \in BOOLEAN
      BY <2>2 DEF IInv, TypeOK
    <3> QED BY <3>1, <3>2, <3>3
  <2> QED BY <1>5, <2>1, <2>2 DEF EncodeAudioFrame
<1>6. ASSUME NEW dataSize \in 0 .. MaxData, EncodeAudioRefused(dataSize) PROVE Quiet
  BY <1>6 DEF EncodeAudioRefused, Returned, Calls, Outcomes, IInv, TypeOK
<1>7. ASSUME UNCHANGED vars PROVE Quiet
  BY <1>7 DEF vars, IInv, TypeOK
<1> HIDE DEF Quiet
<1> QED BY <1>1, <1>2, <1>3, <1>4, <1>5, <1>6, <1>7, NewStep, OpenStep, CloseStep, DeleteStep,
    MismatchStep DEF Next

LEMMA Invariance == Spec => []IInv
BY InitIInv, NextIInv, PTL DEF Spec

(* Fields, flags and allocations keep their types. *)
THEOREM TypeCorrect == Spec => []TypeOK
<1>1. IInv => TypeOK
  BY DEF IInv
<1> QED BY <1>1, Invariance, PTL

(* However many opens failed, no pointer field of an encoder dangles. *)
THEOREM NoDangling == Spec => []NoDanglingPointer
<1>1. IInv => NoDanglingPointer
  BY DEF IInv
<1> QED BY <1>1, Invariance, PTL

(* An open encoder has everything that encoding dereferences. *)
THEOREM OpenIsReady == Spec => []OpenedReady
<1>1. IInv => OpenedReady
  BY DEF IInv
<1> QED BY <1>1, Invariance, PTL

(* Only failed opens and refused pictures leak. *)
THEOREM OnlyFailuresLeak == Spec => []LeaksExplained
<1>1. IInv => LeaksExplained
  BY DEF IInv
<1> QED BY <1>1, Invariance, PTL
=============================================================================
