------------------------- MODULE FFmpegDecoderProofs -------------------------
(***************************************************************************)
(* Proofs about FFmpegDecoder, for every bound on its calls.  As for the    *)
(* encoder, the inductive invariant adds to the stated properties that an   *)
(* open numbers its allocations with a new number, that a decoder which is  *)
(* not open only points at what a failed open left, and that a stream which *)
(* is not decoded has no fields; and it adds that a stream which is not     *)
(* decoded announces no frame, without which a close would leave one, and   *)
(* that a picture the codec still holds was not announced.                  *)
(***************************************************************************)
EXTENDS FFmpegDecoder, TLAPS

Numbered ==
    /\ \A f \in Fields : field[f] <= nOpens
    /\ \A n \in failedOpens : n <= nOpens

ClosedPointsAtFailed == ~opened => \A f \in Fields : field[f] # 0 => field[f] \in failedOpens

UnusedFieldsNull ==
    /\ ~decodeVideo => \A f \in VideoFields : field[f] = 0
    /\ ~decodeAudio => \A f \in AudioFields : field[f] = 0

UnusedSizesNone ==
    /\ ~decodeVideo => ~videoFrameSize
    /\ ~decodeAudio => audioFrameSize = "none"

GoneIsNull == ~exists => ~opened /\ \A f \in Fields : field[f] = 0

(* The part about memory, and the part about frames. *)
MemoryInv ==
    /\ GoneIsNull
    /\ Numbered
    /\ ClosedPointsAtFailed
    /\ UnusedFieldsNull
    /\ StreamsReady
    /\ LeaksExplained

HeldBack ==
    /\ videoFrameSize => picture # 0
    /\ \A p \in delayed \cup shown \cup {picture} : p <= nPackets
    /\ delayed \cap (shown \cup {picture}) = {}

FramesInv == FramesAreCurrent /\ UnusedSizesNone /\ HeldBack

IInv == TypeOK /\ MemoryInv /\ FramesInv

-----------------------------------------------------------------------------
(* The allocations of two different fields have different kinds. *)
LEMMA OwnedDisjoint ==
    ASSUME NEW f \in Fields, NEW g \in Fields, f # g
    PROVE  ({f} \cup Owned(f)) \cap ({g} \cup Owned(g)) = {}
<1>1. \A h \in Fields : Owned(h) \cap Fields = {}
  BY DEF Fields, VideoFields, AudioFields, Owned
<1>2. Owned(f) \cap Owned(g) = {}
  BY DEF Fields, VideoFields, AudioFields, Owned
<1> QED BY <1>1, <1>2

(* A field and what it owns are kinds, and no field is a context. *)
LEMMA OwnedKinds == \A f \in Fields : {f} \cup Owned(f) \subseteq Kinds /\ f \notin Contexts
BY DEF Kinds, Fields, VideoFields, AudioFields, Owned, Contexts

(* What a step takes is one of the kinds. *)
LEMMA TakenKinds == \A s \in Steps : Taken(s) \subseteq Kinds
<1> SUFFICES ASSUME NEW s \in Steps, NEW k \in Taken(s) PROVE k \in Kinds
  OBVIOUS
<1>1. \E f \in Fields : k \in {f} \cup Owned(f)
  BY DEF Taken, Steps, VideoSteps, AudioSteps, Fields, VideoFields, AudioFields, Owned
<1> QED BY <1>1, OwnedKinds

(* The fields of a decoder without memory, and of one that released it. *)
LEMMA NoFieldType == NoField \in [Fields -> 0 .. MaxOpens]
BY BoundsAssumption DEF NoField

LEMMA ClearedType == TypeOK => Cleared \in [Fields -> 0 .. MaxOpens]
BY BoundsAssumption DEF TypeOK, Cleared

(* What each call can record about itself. *)
LEMMA ResultType ==
    ASSUME NEW call \in Calls, NEW what \in Outcomes, Returned(call, what)
    PROVE  result' \in [call : Calls, what : Outcomes]
BY DEF Returned

LEMMA PlanSteps == Plan \subseteq Steps
BY DEF Plan, Steps

(* An allocation has a number from 1 on, so a NULL field reaches nothing.   *)
LEMMA NullReachesNothing ==
    ASSUME TypeOK, NEW f \in Fields, field[f] = 0
    PROVE  Reached(f) \cap heap = {}
<1>1. \A o \in heap : o[2] # 0
  BY BoundsAssumption DEF TypeOK, Opens
<1> QED BY <1>1 DEF Reached

(* No packet is a packet number. *)
LEMMA PacketType ==
    ASSUME TypeOK, Packet
    PROVE  /\ nPackets' \in 0 .. MaxPackets
           /\ currentPacket' \in 0 .. MaxPackets
           /\ nPackets + 1 \in 0 .. MaxPackets
BY BoundsAssumption DEF TypeOK, Packet

-----------------------------------------------------------------------------
LEMMA InitIInv == Init => IInv
<1> SUFFICES ASSUME Init PROVE IInv
  OBVIOUS
<1>1. TypeOK
  <2>1. field \in [Fields -> 0 .. MaxOpens]
    BY NoFieldType DEF Init
  <2>2. result \in [call : Calls, what : Outcomes]
    BY DEF Init, Calls, Outcomes
  <2>3. 0 \in 0 .. MaxOpens /\ 0 \in 0 .. MaxPackets
    BY BoundsAssumption
  <2> QED BY <2>1, <2>2, <2>3 DEF Init, TypeOK, Params
<1>2. MemoryInv
  BY DEF Init, MemoryInv, GoneIsNull, Numbered, ClosedPointsAtFailed, UnusedFieldsNull, NoField,
      StreamsReady, LeaksExplained, VideoFields, AudioFields, Fields
<1>3. FramesInv
  BY DEF Init, FramesInv, FramesAreCurrent, UnusedSizesNone, HeldBack
<1> QED BY <1>1, <1>2, <1>3 DEF IInv

(* The decode calls and the refusals move no memory. *)
LEMMA MemoryKept ==
    ASSUME MemoryInv, UNCHANGED <<exists, flags, memory>>
    PROVE  MemoryInv'
BY DEF MemoryInv, GoneIsNull, Numbered, ClosedPointsAtFailed, UnusedFieldsNull, StreamsReady,
    LeaksExplained, Ready, Reachable, Reached, memory, flags

LEMMA FramesKept ==
    ASSUME FramesInv, UNCHANGED <<flags, memory, nPackets, frames, crashed>>
    PROVE  FramesInv'
BY DEF FramesInv, FramesAreCurrent, UnusedSizesNone, HeldBack, flags, memory, frames

(* A decoder that announces nothing has nothing to keep about its frames. *)
LEMMA NothingAnnounced ==
    ASSUME IInv, ~videoFrameSize', audioFrameSize' = "none", opened' \/ currentPacket' = 0,
           delayed' \subseteq delayed, shown' \subseteq shown, picture' \in {0, picture},
           UNCHANGED nPackets
    PROVE  FramesInv'
<1>1. nPackets \in Nat /\ \A p \in delayed : p # 0
  BY BoundsAssumption DEF IInv, TypeOK
<1> QED BY <1>1 DEF IInv, FramesInv, FramesAreCurrent, UnusedSizesNone, HeldBack

(* A call that only refuses, or does nothing. *)
LEMMA QuietStep ==
    ASSUME IInv,
           UNCHANGED <<exists, video, audio, flags, memory, nPackets, frames, crashed>>,
           result' \in [call : Calls, what : Outcomes]
    PROVE  IInv'
<1>1. TypeOK'
  BY DEF IInv, TypeOK, flags, memory, frames
<1> QED BY <1>1, MemoryKept, FramesKept DEF IInv

(* A new object starts with NULL fields, as the gone one ended. *)
LEMMA NewStep == ASSUME IInv, New PROVE IInv'
<1>1. \A f \in Fields : field[f] = 0 /\ field'[f] = 0
  BY DEF New, NoField, IInv, MemoryInv, GoneIsNull
<1>2. TypeOK'
  <2>1. result' \in [call : Calls, what : Outcomes]
    BY ResultType DEF New, Calls, Outcomes
  <2>2. field' \in [Fields -> 0 .. MaxOpens]
    BY NoFieldType DEF New
  <2>3. 0 \in 0 .. MaxPackets
    BY BoundsAssumption
  <2> QED BY <2>1, <2>2, <2>3 DEF IInv, TypeOK, New, NoFrames
<1>3. LeaksExplained'
  <2> SUFFICES ASSUME NEW o \in heap' PROVE o[2] \in failedOpens' \/ o[1] \in Contexts
    BY DEF LeaksExplained
  <2>1. o \in heap /\ failedOpens' = failedOpens
    BY DEF New
  <2>2. o \notin Reachable
    BY <1>1, <2>1, NullReachesNothing DEF Reachable, IInv
  <2> QED BY <2>1, <2>2 DEF IInv, MemoryInv, LeaksExplained
<1>4. MemoryInv'
  BY <1>1, <1>3 DEF IInv, New, MemoryInv, GoneIsNull, Numbered, ClosedPointsAtFailed,
      UnusedFieldsNull, StreamsReady, VideoFields, AudioFields, Fields
<1>5. FramesInv'
  BY NothingAnnounced DEF New, NoFrames
<1> QED BY <1>2, <1>4, <1>5 DEF IInv

-----------------------------------------------------------------------------
(* A field that open assigned points at what it took itself. *)
LEMMA TakesItself == \A f \in Fields \cap Steps : f \in Taken(f)
BY DEF Fields, VideoFields, AudioFields, Taken

(* When nothing checked failed, open went through its whole plan. *)
LEMMA NothingFatal ==
    ASSUME NEW bad, Fatal(bad) = {}
    PROVE  Attempted(bad) = Plan /\ Plan \ Unchecked \subseteq Plan \ bad
BY DEF Attempted, Fatal

(* An open that did not crash used no audio stream it could not create. *)
LEMMA StreamUsed ==
    ASSUME NEW bad, Fatal(bad) = {}, ~UsesNullStream(bad), decodeAudio
    PROVE  "audioStream" \in Plan \ bad
<1>1. {"audioStream", "audioCodec"} \subseteq Plan
  BY DEF Plan, AudioSteps
<1> QED BY <1>1, NothingFatal DEF UsesNullStream

(* What a successful open took belongs to a field it assigned. *)
LEMMA TakenIsOwned ==
    ASSUME NEW bad, Fatal(bad) = {}, ~UsesNullStream(bad),
           NEW s \in Plan \ bad, NEW k \in Taken(s)
    PROVE  \E f \in Fields : f \in Plan \ bad /\ k \in {f} \cup Owned(f)
<1>1. s \in Steps
  BY PlanSteps
<1>2. CASE s = "videoCodec"
  <2>1. "videoStream" \in Plan \ Unchecked /\ "videoStream" \in Fields
    BY <1>2 DEF Plan, VideoSteps, AudioSteps, Unchecked, Fields, VideoFields
  <2>2. k \in Owned("videoStream")
    BY <1>2 DEF Taken, Owned
  <2> QED BY <2>1, <2>2, NothingFatal
<1>3. CASE s = "audioCodec"
  <2>1. decodeAudio /\ "audioStream" \in Fields
    BY <1>3 DEF Plan, VideoSteps, Fields, AudioFields
  <2>2. k \in Owned("audioStream")
    BY <1>3 DEF Taken, Owned
  <2> QED BY <2>1, <2>2, StreamUsed
<1>4. CASE s \notin {"videoCodec", "audioCodec"}
  <2>1. s \in Fields /\ k \in {s} \cup Owned(s)
    BY <1>1, <1>4 DEF Taken, Steps, VideoSteps, AudioSteps, Fields, VideoFields, AudioFields, Owned
  <2> QED BY <2>1
<1> QED BY <1>2, <1>3, <1>4

LEMMA OpenStep == ASSUME IInv, Open PROVE IInv'
<1> DEFINE n == nOpens + 1
<1>1. PICK missing \in Missing :
        LET bad == missing \cup Nameless \cup StreamTest IN
        /\ field' = [f \in Fields |-> FieldAfter(f, bad, n)]
        /\ heap' = heap \cup ((UNION {Taken(s) : s \in Attempted(bad) \ bad}) \X {n})
        /\ crashed' = UsesNullStream(bad)
        /\ opened' = (Fatal(bad) = {} /\ ~crashed')
        /\ failedOpens' = IF opened' THEN failedOpens ELSE failedOpens \cup {n}
        /\ Returned("open", IF Fatal(bad) = {} THEN "done" ELSE "failed")
        /\ videoFrameSize' = (videoFrameSize /\ "videoFrameBuffer" \notin Attempted(bad))
        /\ audioFrameSize' = IF "audioFrameBuffer" \in Attempted(bad) THEN "none" ELSE audioFrameSize
  BY DEF Open
<1> DEFINE bad == missing \cup Nameless \cup StreamTest
           Got == UNION {Taken(s) : s \in Attempted(bad) \ bad}
<1>2. /\ field' = [f \in Fields |-> FieldAfter(f, bad, n)]
      /\ heap' = heap \cup (Got \X {n})
      /\ crashed' = UsesNullStream(bad)
      /\ opened' = (Fatal(bad) = {} /\ ~crashed')
      /\ failedOpens' = IF opened' THEN failedOpens ELSE failedOpens \cup {n}
      /\ Returned("open", IF Fatal(bad) = {} THEN "done" ELSE "failed")
      /\ videoFrameSize' = (videoFrameSize /\ "videoFrameBuffer" \notin Attempted(bad))
      /\ audioFrameSize' = IF "audioFrameBuffer" \in Attempted(bad) THEN "none" ELSE audioFrameSize
  BY <1>1
<1>3. /\ exists /\ ~opened /\ nOpens < MaxOpens /\ nOpens' = n
      /\ UNCHANGED <<exists, video, audio, decodeVideo, decodeAudio, nPackets,
                     currentPacket, delayed, picture, shown>>
  BY DEF Open
<1> HIDE DEF bad
<1>4. n \in 1 .. MaxOpens /\ nOpens \in Nat
  BY <1>3, BoundsAssumption DEF IInv, TypeOK
<1>5. Attempted(bad) \subseteq Plan /\ Attempted(bad) \subseteq Steps
  BY PlanSteps DEF Attempted
<1>6. \A f \in Fields : field'[f] = FieldAfter(f, bad, n)
  BY <1>2
<1>7. \A f \in Fields : field'[f] \in {field[f], 0, n}
  BY <1>6 DEF FieldAfter
<1>8. ASSUME opened'
      PROVE  Fatal(bad) = {} /\ ~UsesNullStream(bad) /\ Attempted(bad) = Plan
  <2>1. Fatal(bad) = {} /\ ~UsesNullStream(bad)
    BY <1>2, <1>8
  <2> QED BY <2>1, NothingFatal
<1>9. TypeOK'
  <2>1. Got \subseteq Kinds
    BY <1>5, TakenKinds
  <2>2. heap' \subseteq Kinds \X Opens
    BY <1>2, <1>4, <2>1 DEF Opens, IInv, TypeOK
  <2>3. field' \in [Fields -> 0 .. MaxOpens]
    <3>1. \A f \in Fields : field'[f] \in 0 .. MaxOpens
      BY <1>4, <1>7, BoundsAssumption DEF IInv, TypeOK
    <3> QED BY <1>2, <3>1
  <2>4. failedOpens' \subseteq Opens
    BY <1>2, <1>4 DEF Opens, IInv, TypeOK
  <2>5. result' \in [call : Calls, what : Outcomes]
    BY <1>2 DEF Returned, Calls, Outcomes
  <2>6. crashed' \in BOOLEAN
    BY <1>2 DEF UsesNullStream
  <2>7. opened' \in BOOLEAN
    BY <1>2
  <2>8. videoFrameSize' \in BOOLEAN /\ audioFrameSize' \in {"none", "data", "buffer"}
    BY <1>2 DEF IInv, TypeOK
  <2>9. nOpens' \in 0 .. MaxOpens
    BY <1>3, <1>4
  <2> QED BY <1>3, <2>2, <2>3, <2>4, <2>5, <2>6, <2>7, <2>8, <2>9 DEF IInv, TypeOK
<1>10. Numbered'
  <2>1. \A f \in Fields : field[f] <= nOpens /\ field[f] \in Nat
    BY DEF IInv, TypeOK, MemoryInv, Numbered
  <2>2. \A f \in Fields : field'[f] <= n
    BY <1>4, <1>7, <2>1
  <2>3. \A m \in failedOpens' : m <= n
    BY <1>2, <1>4 DEF IInv, MemoryInv, Numbered, TypeOK, Opens
  <2> QED BY <1>3, <2>2, <2>3 DEF Numbered
<1>11. ClosedPointsAtFailed'
  BY <1>2, <1>3, <1>7 DEF IInv, MemoryInv, ClosedPointsAtFailed
<1>12. UnusedFieldsNull'
  <2>1. ASSUME ~decodeVideo, NEW f \in VideoFields PROVE field'[f] = 0
    <3>1. f \notin Plan
      BY <2>1 DEF Plan, VideoFields, AudioSteps
    <3> QED BY <1>5, <1>6, <2>1, <3>1 DEF FieldAfter, IInv, MemoryInv, UnusedFieldsNull, Fields
  <2>2. ASSUME ~decodeAudio, NEW f \in AudioFields PROVE field'[f] = 0
    <3>1. f \notin Plan
      BY <2>2 DEF Plan, AudioFields, VideoSteps
    <3> QED BY <1>5, <1>6, <2>2, <3>1 DEF FieldAfter, IInv, MemoryInv, UnusedFieldsNull, Fields
  <2> QED BY <1>3, <2>1, <2>2 DEF UnusedFieldsNull
<1>13. StreamsReady'
  <2>1. ASSUME NEW f \in Fields, field'[f] # 0 PROVE <<f, field'[f]>> \in heap'
    <3>1. CASE f \in Attempted(bad)
      <4>1. f \notin bad /\ field'[f] = n
        BY <1>6, <2>1, <3>1 DEF FieldAfter
      <4>2. f \in Got
        BY <1>5, <3>1, <4>1, TakesItself
      <4> QED BY <1>2, <4>1, <4>2
    <3>2. CASE f \notin Attempted(bad)
      BY <1>2, <1>6, <2>1, <3>2 DEF FieldAfter, IInv, MemoryInv, StreamsReady
    <3> QED BY <3>1, <3>2
  <2>2. ASSUME opened', NEW f \in Fields, f \in Plan \ bad PROVE field'[f] = n
    BY <1>6, <1>8, <2>2 DEF FieldAfter
  <2>3. ASSUME opened', NEW s \in Plan \ bad PROVE \A k \in Taken(s) : <<k, n>> \in heap'
    BY <1>2, <1>8, <2>3
  <2>4. opened' /\ decodeVideo => Ready("videoStream")'
    <3> SUFFICES ASSUME opened', decodeVideo PROVE Ready("videoStream")'
      OBVIOUS
    <3>1. {"videoStream", "videoCodec"} \subseteq Plan \ Unchecked /\ "videoStream" \in Fields
      BY DEF Plan, VideoSteps, Unchecked, Fields, VideoFields
    <3>2. {"videoStream", "videoCodec"} \subseteq Plan \ bad
      BY <1>8, <3>1, NothingFatal
    <3>3. /\ {"videoStream", "videoContext"} = Taken("videoStream")
          /\ {"videoCodec"} = Taken("videoCodec")
          /\ Owned("videoStream") = {"videoContext", "videoCodec"}
      BY DEF Taken, Owned
    <3>4. field'["videoStream"] = n
      BY <2>2, <3>1, <3>2
    <3> QED BY <1>4, <2>3, <3>2, <3>3, <3>4 DEF Ready, Reached
  <2>5. opened' /\ decodeAudio => Ready("audioStream")'
    <3> SUFFICES ASSUME opened', decodeAudio PROVE Ready("audioStream")'
      OBVIOUS
    <3>1. "audioCodec" \in Plan \ Unchecked /\ "audioStream" \in Fields
      BY DEF Plan, AudioSteps, Unchecked, Fields, AudioFields
    <3>2. {"audioStream", "audioCodec"} \subseteq Plan \ bad
      BY <1>8, <3>1, NothingFatal, StreamUsed
    <3>3. /\ {"audioStream", "audioContext"} = Taken("audioStream")
          /\ {"audioCodec"} = Taken("audioCodec")
          /\ Owned("audioStream") = {"audioContext", "audioCodec"}
      BY DEF Taken, Owned
    <3>4. field'["audioStream"] = n
      BY <2>2, <3>1, <3>2
    <3> QED BY <1>4, <2>3, <3>2, <3>3, <3>4 DEF Ready, Reached
  <2> QED BY <1>3, <2>1, <2>4, <2>5 DEF StreamsReady
<1>14. LeaksExplained'
  <2> SUFFICES ASSUME NEW o \in heap'
               PROVE  o \in Reachable' \/ o[2] \in failedOpens' \/ o[1] \in Contexts
    BY DEF LeaksExplained
  <2>1. CASE o \in heap
    <3>1. CASE o \in Reachable
      <4>1. PICK f \in Fields : o \in Reached(f)
        BY <3>1 DEF Reachable
      <4>2. field[f] # 0 /\ o[2] = field[f]
        BY <2>1, <4>1, NullReachesNothing DEF IInv, Reached
      <4> QED BY <1>2, <1>3, <4>2 DEF IInv, MemoryInv, ClosedPointsAtFailed
    <3> QED BY <1>2, <2>1, <3>1 DEF IInv, MemoryInv, LeaksExplained
  <2>2. CASE o \notin heap /\ ~opened'
    BY <1>2, <2>2
  <2>3. CASE o \notin heap /\ opened'
    <3>1. PICK s \in Attempted(bad) \ bad : \E k \in Taken(s) : o = <<k, n>>
      BY <1>2, <2>3
    <3>2. PICK k \in Taken(s) : o = <<k, n>>
      BY <3>1
    <3>3. PICK f \in Fields : f \in Plan \ bad /\ k \in {f} \cup Owned(f)
      BY <1>8, <2>3, TakenIsOwned
    <3>4. field'[f] = n
      BY <1>6, <1>8, <2>3, <3>3 DEF FieldAfter
    <3> QED BY <3>2, <3>3, <3>4 DEF Reachable, Reached
  <2> QED BY <2>1, <2>2, <2>3
<1>15. FramesInv'
  <2>1. ~videoFrameSize /\ audioFrameSize = "none" /\ currentPacket = 0
    BY <1>3 DEF IInv, FramesInv, FramesAreCurrent
  <2>2. ~videoFrameSize' /\ audioFrameSize' = "none"
    BY <1>2, <2>1
  <2> QED BY <1>3, <2>1, <2>2, NothingAnnounced
<1>16. GoneIsNull'
  BY <1>3 DEF GoneIsNull
<1> QED BY <1>9, <1>10, <1>11, <1>12, <1>13, <1>14, <1>15, <1>16 DEF IInv, MemoryInv

-----------------------------------------------------------------------------
(* What stays when an open decoder lets go of its fields is a context, or   *)
(* leaked before.                                                           *)
LEMMA ReleasedRest ==
    ASSUME IInv, opened, Release, NEW o \in heap'
    PROVE  o[2] \in failedOpens \/ o[1] \in Contexts
<1>1. o \in heap
  BY DEF Release
<1>2. ASSUME NEW f \in Fields, o \in Reached(f) PROVE o[1] \in Contexts
  <2>1. CASE f \in Closing
    BY <1>2, <2>1 DEF Release, Freed, Reached
  <2>2. CASE f \notin Closing
    <3>1. field[f] = 0
      BY <2>2 DEF Closing, IInv, MemoryInv, UnusedFieldsNull, Fields
    <3> QED BY <1>1, <1>2, <3>1, NullReachesNothing DEF IInv
  <2> QED BY <2>1, <2>2
<1> QED BY <1>1, <1>2 DEF IInv, MemoryInv, LeaksExplained, Reachable

(* A decoder that is not open any more, its fields all NULL. *)
LEMMA EmptyMemory ==
    ASSUME IInv, heap' \subseteq heap, \A f \in Fields : field'[f] = 0, ~opened',
           \A o \in heap' : o[2] \in failedOpens \/ o[1] \in Contexts,
           UNCHANGED <<nOpens, failedOpens>>
    PROVE  MemoryInv'
<1>1. VideoFields \subseteq Fields /\ AudioFields \subseteq Fields
  BY DEF Fields
<1>2. nOpens \in Nat
  BY BoundsAssumption DEF IInv, TypeOK
<1> QED BY <1>1, <1>2 DEF IInv, MemoryInv, GoneIsNull, Numbered, ClosedPointsAtFailed, UnusedFieldsNull,
    StreamsReady, LeaksExplained

(* close resets the sizes of the streams that were decoded, and the others  *)
(* had none.                                                                *)
LEMMA CloseStep == ASSUME IInv, Close PROVE IInv'
<1>1. result' \in [call : Calls, what : Outcomes]
  BY ResultType DEF Close, Calls, Outcomes
<1>2. CASE ~opened
  <2>1. UNCHANGED <<exists, video, audio, flags, memory, nPackets, frames, crashed>>
    BY <1>2 DEF Close, memory
  <2> QED BY <1>1, <2>1, QuietStep
<1>3. CASE opened
  <2>1. /\ Release /\ field' = Cleared /\ FramesAfterClose
        /\ ~opened' /\ ~decodeVideo' /\ ~decodeAudio' /\ opened' \in BOOLEAN
        /\ decodeVideo' \in BOOLEAN /\ decodeAudio' \in BOOLEAN
        /\ UNCHANGED <<exists, video, audio, nOpens, failedOpens, nPackets, crashed>>
    BY <1>3 DEF Close
  <2>2. \A f \in Fields : field'[f] = 0
    BY <2>1 DEF Cleared, Closing, IInv, MemoryInv, UnusedFieldsNull, Fields
  <2>3. heap' \subseteq heap
    BY <2>1 DEF Release
  <2>4. ~videoFrameSize' /\ videoFrameSize' \in BOOLEAN /\ audioFrameSize' = "none"
    BY <2>1 DEF FramesAfterClose, IInv, FramesInv, UnusedSizesNone
  <2>5. TypeOK'
    <3>1. field' \in [Fields -> 0 .. MaxOpens]
      BY <2>1, ClearedType DEF IInv
    <3>2. currentPacket' \in 0 .. MaxPackets /\ delayed' = {} /\ UNCHANGED <<picture, shown>>
      BY <2>1, BoundsAssumption DEF FramesAfterClose
    <3> QED BY <1>1, <2>1, <2>3, <2>4, <3>1, <3>2 DEF IInv, TypeOK
  <2>6. MemoryInv'
    BY <1>3, <2>1, <2>2, <2>3, ReleasedRest, EmptyMemory
  <2>7. FramesInv'
    BY <2>1, <2>4, NothingAnnounced DEF FramesAfterClose
  <2> QED BY <2>5, <2>6, <2>7 DEF IInv
<1> QED BY <1>2, <1>3

LEMMA DeleteStep == ASSUME IInv, Delete PROVE IInv'
<1>1. /\ field' = NoField /\ NoFrames
      /\ ~opened' /\ ~decodeVideo' /\ ~decodeAudio' /\ opened' \in BOOLEAN
      /\ decodeVideo' \in BOOLEAN /\ decodeAudio' \in BOOLEAN /\ exists' \in BOOLEAN
      /\ UNCHANGED <<video, audio, nOpens, failedOpens, nPackets, crashed>>
      /\ IF opened THEN Release ELSE heap' = heap
  BY DEF Delete
<1>2. \A f \in Fields : field'[f] = 0
  BY <1>1 DEF NoField
<1>3. heap' \subseteq heap
  BY <1>1 DEF Release
<1>4. TypeOK'
  <2>1. result' \in [call : Calls, what : Outcomes]
    BY ResultType DEF Delete, Calls, Outcomes
  <2>2. 0 \in 0 .. MaxPackets
    BY BoundsAssumption
  <2> QED BY <1>1, <1>3, <2>1, <2>2, NoFieldType DEF IInv, TypeOK, NoFrames
<1>5. ASSUME NEW o \in heap' PROVE o[2] \in failedOpens \/ o[1] \in Contexts
  <2>1. CASE opened
    BY <1>1, <1>5, <2>1, ReleasedRest
  <2>2. CASE ~opened
    <3>1. ASSUME NEW f \in Fields, o \in Reached(f) PROVE o[2] \in failedOpens
      <4>1. field[f] # 0 /\ o[2] = field[f]
        BY <1>3, <1>5, <3>1, NullReachesNothing DEF IInv, Reached
      <4> QED BY <2>2, <4>1 DEF IInv, MemoryInv, ClosedPointsAtFailed
    <3> QED BY <1>3, <1>5, <3>1 DEF IInv, MemoryInv, LeaksExplained, Reachable
  <2> QED BY <2>1, <2>2
<1>6. MemoryInv'
  BY <1>1, <1>2, <1>3, <1>5, EmptyMemory
<1>7. FramesInv'
  BY <1>1, NothingAnnounced DEF NoFrames
<1> QED BY <1>4, <1>6, <1>7 DEF IInv

-----------------------------------------------------------------------------
(* The picture of a packet that is new, or was held back, is announced.  A  *)
(* buffer that is not NULL is allocated.                                    *)
LEMMA DecodeVideoStep == ASSUME IInv, DecodeVideoFrame PROVE IInv'
<1>1. PICK got \in BOOLEAN, what \in {"decoded", "failed"} :
        /\ LayOut(got)
        /\ crashed' = (got /\ field["videoFrameBuffer"] = 0)
        /\ Returned("decodeVideo", what)
  BY DEF DecodeVideoFrame
<1>2. /\ opened /\ decodeVideo /\ Packet
      /\ UNCHANGED <<exists, video, audio, flags, memory, audioFrameSize>>
      /\ ~crashed
  BY DEF DecodeVideoFrame
<1>3. /\ nPackets \in Nat /\ MaxPackets \in Nat /\ nPackets' = nPackets + 1
      /\ nPackets + 1 \in 1 .. MaxPackets
  BY <1>2, PacketType, BoundsAssumption DEF IInv, TypeOK, Packet
<1>4. /\ delayed \subseteq 1 .. MaxPackets /\ shown \subseteq 1 .. MaxPackets
      /\ picture \in 0 .. MaxPackets /\ videoFrameSize \in BOOLEAN
  BY DEF IInv, TypeOK
<1>5. /\ videoFrameSize' = got
      /\ shown' = IF videoFrameSize THEN shown \cup {picture} ELSE shown
      /\ \/ got /\ picture' \in Given /\ delayed' = Given \ {picture'}
         \/ ~got /\ picture' = picture /\ delayed' = Given
  BY <1>1 DEF LayOut, Shown
<1>6. Given = delayed \cup {nPackets + 1}
  BY DEF Given
<1>7. HeldBack
  BY DEF IInv, FramesInv
<1>8. picture' \in 0 .. MaxPackets /\ delayed' \subseteq 1 .. MaxPackets
  <2>1. Given \subseteq 1 .. MaxPackets
    BY <1>3, <1>4, <1>6
  <2>2. 1 .. MaxPackets \subseteq 0 .. MaxPackets
    BY <1>3
  <2> QED BY <1>4, <1>5, <2>1, <2>2
<1>9. shown' \subseteq shown \cup {picture} /\ shown' \subseteq 1 .. MaxPackets
  BY <1>3, <1>4, <1>5, <1>7 DEF HeldBack
<1>10. TypeOK'
  <2>1. result' \in [call : Calls, what : Outcomes]
    BY <1>1, ResultType DEF Calls, Outcomes
  <2>2. currentPacket' \in 0 .. MaxPackets /\ nPackets' \in 0 .. MaxPackets
    BY <1>2, PacketType DEF IInv
  <2>3. videoFrameSize' \in BOOLEAN /\ crashed' \in BOOLEAN
    BY <1>1, <1>5
  <2> QED BY <1>2, <1>8, <1>9, <2>1, <2>2, <2>3 DEF IInv, TypeOK, flags, memory
<1>11. MemoryInv'
  BY <1>2, MemoryKept DEF IInv
<1>12. ASSUME got PROVE picture' \notin shown \cup {picture} /\ picture' # 0
  <2>1. nPackets + 1 \notin shown \cup {picture} /\ \A p \in delayed : p # 0
    BY <1>3, <1>4, <1>7 DEF HeldBack
  <2> QED BY <1>3, <1>5, <1>6, <1>7, <1>12, <2>1 DEF HeldBack
<1>13. HeldBack'
  <2>1. \A p \in delayed' \cup shown' \cup {picture'} : p <= nPackets + 1
    <3>1. delayed' \cup shown' \cup {picture'} \subseteq delayed \cup shown \cup {picture, nPackets + 1}
      BY <1>5, <1>6, <1>9
    <3>2. \A p \in delayed \cup shown \cup {picture} : p \in Nat /\ p <= nPackets
      BY <1>3, <1>4, <1>7 DEF HeldBack
    <3> QED BY <1>3, <3>1, <3>2
  <2>2. delayed' \cap (shown \cup {picture}) = {} /\ picture' \notin delayed'
    <3>1. nPackets + 1 \notin shown \cup {picture}
      BY <1>3, <1>4, <1>7 DEF HeldBack
    <3> QED BY <1>5, <1>6, <1>7, <3>1 DEF HeldBack
  <2>3. videoFrameSize' => picture' # 0
    BY <1>5, <1>12
  <2> QED BY <1>3, <1>9, <2>1, <2>2, <2>3 DEF HeldBack
<1>14. FramesAreCurrent'
  <2>1. ASSUME videoFrameSize', ~crashed'
        PROVE  picture' \notin shown' /\ <<"videoFrameBuffer", field'["videoFrameBuffer"]>> \in heap'
    <3>1. got /\ field["videoFrameBuffer"] # 0
      BY <1>1, <1>5, <2>1
    <3>2. <<"videoFrameBuffer", field["videoFrameBuffer"]>> \in heap
      BY <3>1 DEF IInv, MemoryInv, StreamsReady, Fields, VideoFields
    <3> QED BY <1>2, <1>9, <1>12, <3>1, <3>2 DEF memory
  <2>2. audioFrameSize' = "data" => <<"audioFrameBuffer", field'["audioFrameBuffer"]>> \in heap'
    BY <1>2 DEF IInv, FramesInv, FramesAreCurrent, memory
  <2> QED BY <1>2, <2>1, <2>2 DEF FramesAreCurrent, flags
<1>15. UnusedSizesNone'
  BY <1>2 DEF IInv, FramesInv, UnusedSizesNone, flags
<1> QED BY <1>10, <1>11, <1>13, <1>14, <1>15 DEF IInv, FramesInv

LEMMA DecodeAudioStep == ASSUME IInv, DecodeAudioFrame PROVE IInv'
<1>1. /\ opened /\ decodeAudio /\ Packet /\ ~crashed
      /\ UNCHANGED <<exists, video, audio, flags, memory, videoFrameSize, delayed, picture, shown>>
      /\ audioFrameSize' \in {"none", "data", "buffer"}
      /\ crashed' = (audioFrameSize' = "data" /\ field["audioFrameBuffer"] = 0)
  BY DEF DecodeAudioFrame
<1>2. TypeOK'
  <2>1. result' \in [call : Calls, what : Outcomes]
    BY ResultType DEF DecodeAudioFrame, Calls, Outcomes
  <2>2. nPackets' \in 0 .. MaxPackets /\ currentPacket' \in 0 .. MaxPackets
    BY <1>1, PacketType DEF IInv
  <2> QED BY <1>1, <2>1, <2>2 DEF IInv, TypeOK, flags, memory
<1>3. MemoryInv'
  BY <1>1, MemoryKept DEF IInv
<1>4. ASSUME audioFrameSize' = "data", ~crashed'
      PROVE  <<"audioFrameBuffer", field'["audioFrameBuffer"]>> \in heap'
  BY <1>1, <1>4 DEF IInv, MemoryInv, StreamsReady, Fields, AudioFields, memory
<1>5. FramesAreCurrent' /\ UnusedSizesNone'
  BY <1>1, <1>4 DEF IInv, FramesInv, FramesAreCurrent, UnusedSizesNone, flags, memory
<1>6. HeldBack'
  <2>1. nPackets \in Nat /\ nPackets' = nPackets + 1
    BY <1>1, BoundsAssumption DEF IInv, TypeOK, Packet
  <2>2. \A p \in delayed \cup shown \cup {picture} : p \in Nat
    BY BoundsAssumption DEF IInv, TypeOK
  <2> QED BY <1>1, <2>1, <2>2 DEF IInv, FramesInv, HeldBack
<1> QED BY <1>2, <1>3, <1>5, <1>6 DEF IInv, FramesInv

LEMMA NextIInv == IInv /\ [Next]_vars => IInv'
<1> SUFFICES ASSUME IInv, [Next]_vars PROVE IInv'
  OBVIOUS
<1>1. ASSUME OpenRefused PROVE IInv'
  <2>1. result' \in [call : Calls, what : Outcomes]
    BY <1>1, ResultType DEF OpenRefused, Calls, Outcomes
  <2> QED BY <1>1, <2>1, QuietStep DEF OpenRefused
<1>2. ASSUME DecodeVideoRefused PROVE IInv'
  <2>1. result' \in [call : Calls, what : Outcomes]
    BY <1>2, ResultType DEF DecodeVideoRefused, Calls, Outcomes
  <2> QED BY <1>2, <2>1, QuietStep DEF DecodeVideoRefused
<1>3. ASSUME DecodeAudioRefused PROVE IInv'
  <2>1. result' \in [call : Calls, what : Outcomes]
    BY <1>3, ResultType DEF DecodeAudioRefused, Calls, Outcomes
  <2> QED BY <1>3, <2>1, QuietStep DEF DecodeAudioRefused
<1>4. ASSUME UNCHANGED vars PROVE IInv'
  BY <1>4, QuietStep DEF vars, IInv, TypeOK
<1> QED BY <1>1, <1>2, <1>3, <1>4, NewStep, OpenStep, CloseStep, DeleteStep, DecodeVideoStep,
    DecodeAudioStep DEF Next

LEMMA Invariance == Spec => []IInv
BY InitIInv, NextIInv, PTL DEF Spec

(* Fields, flags and allocations keep their types. *)
THEOREM TypeCorrect == Spec => []TypeOK
<1>1. IInv => TypeOK
  BY DEF IInv
<1> QED BY <1>1, Invariance, PTL

(* However many opens failed, no pointer field of a decoder dangles, and an *)
(* open decoder has the streams and codecs that decoding dereferences.      *)
THEOREM StreamsAreReady == Spec => []StreamsReady
<1>1. IInv => StreamsReady
  BY DEF IInv, MemoryInv
<1> QED BY <1>1, Invariance, PTL

(* Only the codec contexts and what failed opens took leaks. *)
THEOREM OnlyFailuresAndContextsLeak == Spec => []LeaksExplained
<1>1. IInv => LeaksExplained
  BY DEF IInv, MemoryInv
<1> QED BY <1>1, Invariance, PTL

(* A frame size announces, in a live buffer, a picture not announced before, *)
(* and a decoder that is not open announces nothing.                         *)
THEOREM PicturesAnnouncedOnce == Spec => []FramesAreCurrent
<1>1. IInv => FramesAreCurrent
  BY DEF IInv, FramesInv
<1> QED BY <1>1, Invariance, PTL
=============================================================================
