------------------------- MODULE VideoEncoderProofs -------------------------
(***************************************************************************)
(* Proofs about VideoEncoder, for any sizes of its queue and of the        *)
(* codec's pools and any number of frames and sessions.                    *)
(***************************************************************************)
EXTENDS VideoEncoder, SequenceTheorems, TLAPS

\* The frames the camera has made in this session.
SessionFrames == (firstFrame + 1) .. made

LabelInv ==
    /\ runFlag \in BOOLEAN
    /\ camera \in BOOLEAN
    /\ fallback \in BOOLEAN
    /\ mediaCodec \in {"null", "started", "released"}
    /\ inputThread \in InputLabels
    /\ outputThread \in OutputLabels
    /\ view \in {"absent", "started", "shown", "stop", "joinInput", "finish"}

CountInv ==
    /\ made \in 0 .. MaxFrames
    /\ firstFrame \in 0 .. made
    /\ sessions \in 0 .. MaxSessions
    /\ lost \in Nat

\* Whatever is on its way was made in this session.
FrameInv ==
    /\ yuvDataQueue \in Seq(SessionFrames)
    /\ pending \in Seq(SessionFrames)
    /\ encoded \in Seq(SessionFrames)
    /\ inHand \in SessionFrames \cup {0}
    /\ outHand \in SessionFrames \cup {0}

PoolInv ==
    /\ Len(yuvDataQueue) <= Capacity
    /\ Len(pending) + lost <= InputBuffers
    /\ Len(encoded) + (IF outHand = 0 THEN 0 ELSE 1) <= OutputBuffers

\* A thread has a frame in hand exactly at one place.
HandInv ==
    /\ inputThread = "dequeue" <=> inHand # 0
    /\ outputThread = "callback" <=> outHand # 0

\* The life of the codec follows that of the input thread, the life of the
\* output thread lies within it.
ThreadInv ==
    /\ inputThread \in {"none", "init", "release", "done"} =>
         outputThread \in {"none", "done"}
    /\ inputThread \in {"loop", "take", "dequeue", "joinOutput"} =>
         mediaCodec = IF fallback THEN "released" ELSE "started"
    /\ inputThread \in {"none", "init", "done"} => mediaCodec # "started"
    /\ inputThread = "init" => ~fallback

\* The life of the input thread lies within that of the view.
ViewInv ==
    /\ runFlag => view \in {"started", "shown", "stop"}
    /\ camera => view = "shown"
    /\ view = "finish" => inputThread = "done"
    /\ view = "absent" =>
         /\ inputThread \in {"none", "done"}
         /\ yuvDataQueue = << >>
         /\ pending = << >>
         /\ encoded = << >>

EncoderInv ==
    /\ LabelInv /\ CountInv /\ FrameInv /\ PoolInv
    /\ HandInv /\ ThreadInv /\ ViewInv

-----------------------------------------------------------------------------
\* The head of a queue is a frame of the session, the tail a shorter queue.
LEMMA FirstFrame ==
    ASSUME CountInv, NEW s \in Seq(SessionFrames), s # << >>
    PROVE  /\ Head(s) \in SessionFrames
           /\ Head(s) # 0
           /\ Tail(s) \in Seq(SessionFrames)
           /\ Len(Tail(s)) = Len(s) - 1
           /\ Len(s) \in Nat
  <1>1. /\ Head(s) \in SessionFrames
        /\ Tail(s) \in Seq(SessionFrames)
        /\ Len(Tail(s)) = Len(s) - 1
    BY HeadTailProperties
  <1>2. Len(s) \in Nat
    BY LenProperties
  <1>3. 0 \notin SessionFrames
    BY EncoderAssumption DEF CountInv, SessionFrames
  <1>. QED
    BY <1>1, <1>2, <1>3

-----------------------------------------------------------------------------
LEMMA EncoderInvInit == EncoderInit => EncoderInv
  <1>. SUFFICES ASSUME EncoderInit
                PROVE  EncoderInv
    OBVIOUS
  <1>. USE DEF EncoderInit
  <1>1. LabelInv
    BY DEF LabelInv, InputLabels, OutputLabels
  <1>2. CountInv
    BY EncoderAssumption DEF CountInv
  <1>3. FrameInv
    BY EmptySeq DEF FrameInv
  <1>4. PoolInv
    <2>1. /\ Len(yuvDataQueue) = 0
          /\ Len(pending) = 0
          /\ Len(encoded) = 0
      BY EmptySeq
    <2>. QED
      BY <2>1, EncoderAssumption DEF PoolInv
  <1>5. HandInv /\ ThreadInv /\ ViewInv
    BY DEF HandInv, ThreadInv, ViewInv
  <1>. QED
    BY <1>1, <1>2, <1>3, <1>4, <1>5 DEF EncoderInv

\* The counters: only the camera and start count.
LEMMA CountStep == EncoderInv /\ EncoderNext => CountInv'
  <1>. SUFFICES ASSUME EncoderInv, EncoderNext
                PROVE  CountInv'
    OBVIOUS
  <1>. USE EncoderAssumption DEF EncoderInv, CountInv, EncoderNext
  <1>1. CASE InputData
    BY <1>1 DEF InputData, codecVars, sessionVars
  <1>2. CASE InputStep
    BY <1>2 DEF InputStep, InitCodec, InitCodecFails, TestInputFlag, Take,
         TakeTimesOut, FeedCodec, FeedReleasedCodec, StopOutputThread,
         StopMediaCodec, ReleaseCodec, codecVars, sessionVars
  <1>3. CASE OutputStep
    BY <1>3 DEF OutputStep, TestOutputFlag, FetchOutput, FetchNothing,
         DeliverOutput, OutputMove, codecVars, sessionVars
  <1>4. CASE Encode
    BY <1>4 DEF Encode, sessionVars
  <1>5. CASE Start
    BY <1>5 DEF Start, codecVars
  <1>6. CASE OpenCamera \/ CloseCamera
    BY <1>6 DEF OpenCamera, CloseCamera, codecVars
  <1>7. CASE StopStep
    BY <1>7 DEF StopStep, Stop, JoinInput, FinishStop, ReleaseCodec, codecVars
  <1>. QED
    BY <1>1, <1>2, <1>3, <1>4, <1>5, <1>6, <1>7

\* The labels keep to their sets, and the lives of threads, codec and view
\* stay nested.
LEMMA ControlStep ==
    EncoderInv /\ EncoderNext => LabelInv' /\ ThreadInv' /\ ViewInv'
  <1>. SUFFICES ASSUME EncoderInv, EncoderNext
                PROVE  LabelInv' /\ ThreadInv' /\ ViewInv'
    OBVIOUS
  <1>. USE DEF EncoderInv, LabelInv, ThreadInv, ViewInv, InputLabels,
               OutputLabels
  <1>1. CASE InputData
    BY <1>1 DEF InputData, threadVars, codecVars, sessionVars
  <1>2. CASE InputStep
    <2>1. CASE InitCodec
      BY <2>1 DEF InitCodec, InputMove, sessionVars
    <2>2. CASE InitCodecFails
      BY <2>2 DEF InitCodecFails, InputMove, codecVars, sessionVars
    <2>3. CASE TestInputFlag
      BY <2>3 DEF TestInputFlag, InputMove, codecVars, sessionVars
    <2>4. CASE Take
      BY <2>4 DEF Take, InputMove, codecVars, sessionVars
    <2>5. CASE TakeTimesOut
      BY <2>5 DEF TakeTimesOut, InputMove, codecVars, sessionVars
    <2>6. ASSUME NEW fits \in BOOLEAN, FeedCodec(fits)
          PROVE  LabelInv' /\ ThreadInv' /\ ViewInv'
      BY <2>6 DEF FeedCodec, InputMove, sessionVars
    <2>7. CASE FeedReleasedCodec
      BY <2>7 DEF FeedReleasedCodec, InputMove, codecVars, sessionVars
    <2>8. CASE StopOutputThread
      BY <2>8 DEF StopOutputThread, OutputGone, InputMove, codecVars,
           sessionVars
    <2>9. CASE StopMediaCodec
      BY <2>9 DEF StopMediaCodec, ReleaseCodec, InputMove, sessionVars
    <2>. QED
      BY <1>2, <2>1, <2>2, <2>3, <2>4, <2>5, <2>6, <2>7, <2>8, <2>9
         DEF InputStep
  <1>3. CASE OutputStep
    <2>1. CASE TestOutputFlag
      BY <2>1 DEF TestOutputFlag, OutputMove, codecVars, sessionVars
    <2>2. CASE FetchOutput
      BY <2>2 DEF FetchOutput, OutputMove, sessionVars
    <2>3. CASE FetchNothing
      BY <2>3 DEF FetchNothing, OutputMove, codecVars, sessionVars
    <2>4. CASE DeliverOutput
      BY <2>4 DEF DeliverOutput, OutputMove, codecVars, sessionVars
    <2>. QED
      BY <1>3, <2>1, <2>2, <2>3, <2>4 DEF OutputStep
  <1>4. CASE Encode
    BY <1>4 DEF Encode, threadVars, sessionVars
  <1>5. CASE Start
    BY <1>5 DEF Start, Show, codecVars
  <1>6. CASE OpenCamera
    BY <1>6 DEF OpenCamera, Show, threadVars, codecVars
  <1>7. CASE CloseCamera
    BY <1>7 DEF CloseCamera, Show, threadVars, codecVars
  <1>8. CASE Stop
    BY <1>8 DEF Stop, ClearRunFlag, Show, threadVars, codecVars
  <1>9. CASE JoinInput
    BY <1>9 DEF JoinInput, InputGone, Show, threadVars, codecVars
  <1>10. CASE FinishStop
    BY <1>10 DEF FinishStop, ClearQueue, ReleaseCodec, Show, threadVars
  <1>. QED
    BY <1>1, <1>2, <1>3, <1>4, <1>5, <1>6, <1>7, <1>8, <1>9, <1>10
       DEF EncoderNext, StopStep

\* The frames: each step hands on what it has found, and the queues grow only
\* as far as their guards allow.
LEMMA FrameStep ==
    EncoderInv /\ EncoderNext => FrameInv' /\ PoolInv' /\ HandInv'
  <1>. SUFFICES ASSUME EncoderInv, EncoderNext
                PROVE  FrameInv' /\ PoolInv' /\ HandInv'
    OBVIOUS
  <1>. USE DEF EncoderInv, FrameInv, PoolInv, HandInv
  <1>0. /\ Len(yuvDataQueue) \in Nat
        /\ Len(pending) \in Nat
        /\ Len(encoded) \in Nat
        /\ made \in Nat
        /\ firstFrame \in Nat
        /\ lost \in Nat
        /\ 0 \notin SessionFrames
    BY LenProperties, EncoderAssumption DEF CountInv, SessionFrames
  <1>1. ASSUME made' = made, firstFrame' = firstFrame
        PROVE  SessionFrames' = SessionFrames
    BY <1>1 DEF SessionFrames
  <1>2. CASE InputData
    <2>1. /\ made' = made + 1
          /\ UNCHANGED <<inputThread, inHand, outputThread, outHand, pending,
                         lost, encoded, firstFrame>>
      BY <1>2 DEF InputData, threadVars, codecVars, sessionVars
    <2>2. /\ SessionFrames \subseteq SessionFrames'
          /\ made' \in SessionFrames'
      BY <1>0, <2>1, EncoderAssumption DEF CountInv, SessionFrames
    <2>3. /\ yuvDataQueue \in Seq(SessionFrames')
          /\ pending' \in Seq(SessionFrames')
          /\ encoded' \in Seq(SessionFrames')
      BY <2>1, <2>2, SeqMonotonic
    <2>4. yuvDataQueue' \in Seq(SessionFrames') /\ Len(yuvDataQueue') <= Capacity
      <3>1. CASE mediaCodec # "null" /\ ~QueueFull
        <4>1. yuvDataQueue' = Append(yuvDataQueue, made')
          BY <1>2, <3>1 DEF InputData
        <4>2. yuvDataQueue' \in Seq(SessionFrames')
          BY <2>2, <2>3, <4>1, AppendProperties
        <4>3. Len(yuvDataQueue') = Len(yuvDataQueue) + 1
          BY <2>2, <2>3, <4>1, AppendProperties
        <4>. QED
          BY <1>0, <3>1, <4>2, <4>3, EncoderAssumption DEF QueueFull
      <3>2. CASE ~(mediaCodec # "null" /\ ~QueueFull)
        BY <1>2, <2>3, <3>2 DEF InputData
      <3>. QED
        BY <3>1, <3>2
    <2>. QED
      BY <2>1, <2>2, <2>3, <2>4
  <1>3. CASE InitCodec \/ InitCodecFails \/ TestInputFlag \/ TakeTimesOut
               \/ FeedReleasedCodec \/ StopOutputThread
    <2>1. /\ UNCHANGED <<yuvDataQueue, outHand, pending, lost, encoded, made,
                         firstFrame>>
          /\ inHand' = 0
          /\ inputThread' # "dequeue"
          /\ outputThread' = "callback" <=> outputThread = "callback"
      BY <1>3 DEF InitCodec, InitCodecFails, TestInputFlag, TakeTimesOut,
           FeedReleasedCodec, StopOutputThread, InputMove, codecVars,
           sessionVars, ThreadInv
    <2>. QED
      BY <1>1, <2>1
  <1>4. CASE Take
    <2>1. /\ UNCHANGED <<outHand, outputThread, pending, lost, encoded, made,
                         firstFrame>>
          /\ inputThread' = "dequeue"
          /\ yuvDataQueue # << >>
          /\ inHand' = Head(yuvDataQueue)
          /\ yuvDataQueue' = Tail(yuvDataQueue)
      BY <1>4 DEF Take, InputMove, codecVars, sessionVars
    <2>2. /\ inHand' \in SessionFrames
          /\ yuvDataQueue' \in Seq(SessionFrames)
          /\ Len(yuvDataQueue') = Len(yuvDataQueue) - 1
      BY <2>1, FirstFrame
    <2>. QED
      BY <1>0, <1>1, <2>1, <2>2, EncoderAssumption
  <1>5. ASSUME NEW fits \in BOOLEAN, FeedCodec(fits)
        PROVE  FrameInv' /\ PoolInv' /\ HandInv'
    <2>1. /\ UNCHANGED <<yuvDataQueue, outHand, outputThread, encoded, made,
                         firstFrame>>
          /\ inputThread = "dequeue"
          /\ inputThread' = "loop"
          /\ inHand' = 0
          /\ Len(pending) + lost < InputBuffers
      BY <1>5 DEF FeedCodec, InputMove, InputBufferFree, sessionVars
    <2>2. CASE fits
      <3>1. inHand \in SessionFrames
        BY <2>1
      <3>2. pending' = Append(pending, inHand) /\ lost' = lost
        BY <1>5, <2>2 DEF FeedCodec
      <3>3. /\ pending' \in Seq(SessionFrames)
            /\ Len(pending') = Len(pending) + 1
        BY <3>1, <3>2, AppendProperties
      <3>. QED
        BY <1>0, <1>1, <2>1, <3>2, <3>3, EncoderAssumption
    <2>3. CASE ~fits
      <3>1. pending' = pending /\ lost' = lost + 1
        BY <1>5, <2>3 DEF FeedCodec
      <3>. QED
        BY <1>0, <1>1, <2>1, <3>1, EncoderAssumption
    <2>. QED
      BY <2>2, <2>3
  <1>6. ASSUME ReleaseCodec,
               yuvDataQueue' \in {yuvDataQueue, << >>},
               UNCHANGED <<outputThread, outHand, made, firstFrame>>,
               inputThread' # "dequeue", inHand' = 0
        PROVE  FrameInv' /\ PoolInv' /\ HandInv'
    <2>1. pending' = << >> /\ encoded' = << >> /\ lost' = 0
      BY <1>6 DEF ReleaseCodec
    <2>2. Len(<< >>) = 0 /\ << >> \in Seq(SessionFrames)
      BY EmptySeq
    <2>3. FrameInv'
      BY <1>1, <1>6, <2>1, <2>2
    <2>4. Len(yuvDataQueue') <= Capacity
      BY <1>6, <2>2, EncoderAssumption
    <2>5. Len(pending') = 0 /\ Len(encoded') = 0
      BY <2>1, <2>2
    <2>6. PoolInv'
      BY <2>1, <2>4, <2>5, EncoderAssumption
    <2>7. HandInv'
      BY <1>6
    <2>. QED
      BY <2>3, <2>6, <2>7
  <1>7. CASE StopMediaCodec
    BY <1>6, <1>7 DEF StopMediaCodec, InputMove, sessionVars
  <1>8. CASE TestOutputFlag \/ FetchNothing \/ DeliverOutput
    <2>1. /\ UNCHANGED <<yuvDataQueue, inputThread, inHand, pending, lost,
                         encoded, made, firstFrame>>
          /\ outHand' = 0
          /\ outputThread' # "callback"
      BY <1>8 DEF TestOutputFlag, FetchNothing, DeliverOutput, OutputMove,
           codecVars, sessionVars
    <2>2. outHand \in Nat
      BY <1>0 DEF SessionFrames
    <2>. QED
      BY <1>0, <1>1, <2>1, <2>2, EncoderAssumption
  <1>9. CASE FetchOutput
    <2>1. /\ UNCHANGED <<yuvDataQueue, inputThread, inHand, pending, lost,
                         made, firstFrame>>
          /\ encoded # << >>
          /\ outputThread = "fetch"
          /\ outputThread' = "callback"
          /\ outHand' = Head(encoded)
          /\ encoded' = Tail(encoded)
      BY <1>9 DEF FetchOutput, OutputMove, sessionVars
    <2>2. /\ outHand' \in SessionFrames
          /\ encoded' \in Seq(SessionFrames)
          /\ Len(encoded') = Len(encoded) - 1
      BY <2>1, FirstFrame
    <2>3. outHand = 0
      BY <2>1
    <2>. QED
      BY <1>0, <1>1, <2>1, <2>2, <2>3, EncoderAssumption
  <1>10. CASE Encode
    <2>1. /\ UNCHANGED <<yuvDataQueue, inputThread, inHand, outputThread,
                         outHand, lost, made, firstFrame>>
          /\ pending # << >>
          /\ encoded' = Append(encoded, Head(pending))
          /\ pending' = Tail(pending)
          /\ Len(encoded) + (IF outHand = 0 THEN 0 ELSE 1) < OutputBuffers
      BY <1>10 DEF Encode, OutputBufferFree, threadVars, sessionVars
    <2>2. /\ Head(pending) \in SessionFrames
          /\ pending' \in Seq(SessionFrames)
          /\ Len(pending') = Len(pending) - 1
      BY <2>1, FirstFrame
    <2>3. /\ encoded' \in Seq(SessionFrames)
          /\ Len(encoded') = Len(encoded) + 1
      BY <2>1, <2>2, AppendProperties
    <2>. QED
      BY <1>0, <1>1, <2>1, <2>2, <2>3, EncoderAssumption
  <1>11. CASE Start
    <2>1. /\ UNCHANGED <<yuvDataQueue, outputThread, outHand, pending, lost,
                         encoded, inHand>>
          /\ view = "absent"
          /\ inputThread' = "init"
      BY <1>11 DEF Start, Show, codecVars
    <2>2. /\ inputThread \in {"none", "done"}
          /\ outputThread \in {"none", "done"}
          /\ yuvDataQueue = << >> /\ pending = << >> /\ encoded = << >>
      BY <2>1 DEF ViewInv, ThreadInv
    <2>3. << >> \in Seq(SessionFrames')
      BY EmptySeq
    <2>. QED
      BY <2>1, <2>2, <2>3
  <1>12. CASE OpenCamera \/ CloseCamera \/ Stop \/ JoinInput
    <2>1. UNCHANGED <<yuvDataQueue, inputThread, inHand, outputThread, outHand,
                      pending, lost, encoded, made, firstFrame>>
      BY <1>12 DEF OpenCamera, CloseCamera, Stop, JoinInput, threadVars,
           codecVars
    <2>. QED
      BY <1>1, <2>1
  <1>13. CASE FinishStop
    <2>1. /\ ReleaseCodec
          /\ yuvDataQueue' = << >>
          /\ UNCHANGED <<inputThread, inHand, outputThread, outHand, made,
                         firstFrame>>
          /\ inputThread = "done"
      BY <1>13 DEF FinishStop, ClearQueue, Show, threadVars, ViewInv
    <2>. QED
      BY <1>6, <2>1
  <1>. QED
    BY <1>2, <1>3, <1>4, <1>5, <1>7, <1>8, <1>9, <1>10, <1>11, <1>12, <1>13
       DEF EncoderNext, InputStep, OutputStep, StopStep

LEMMA EncoderInvStep == EncoderInv /\ [EncoderNext]_encoderVars => EncoderInv'
  <1>. SUFFICES ASSUME EncoderInv, [EncoderNext]_encoderVars
                PROVE  EncoderInv'
    OBVIOUS
  <1>1. CASE EncoderNext
    BY <1>1, CountStep, ControlStep, FrameStep DEF EncoderInv
  <1>2. CASE UNCHANGED encoderVars
    BY <1>2 DEF EncoderInv, LabelInv, CountInv, FrameInv, SessionFrames,
         PoolInv, HandInv, ThreadInv, ViewInv, encoderVars, threadVars,
         codecVars, sessionVars
  <1>. QED
    BY <1>1, <1>2

\* Every reachable state of the encoder satisfies the invariant.
THEOREM EncoderInvariant == EncoderSpec => []EncoderInv
  BY EncoderInvInit, EncoderInvStep, PTL DEF EncoderSpec

-----------------------------------------------------------------------------
\* Every variable keeps its type, the queue its 30 places and MediaCodec's pools
\* their buffers, whatever their sizes.
THEOREM EncoderTypeCorrect == EncoderSpec => []EncoderTypeOK
  <1>1. EncoderInv => EncoderTypeOK
    <2>. SUFFICES ASSUME EncoderInv
                  PROVE  EncoderTypeOK
      OBVIOUS
    <2>. USE DEF EncoderInv
    <2>1. SessionFrames \subseteq Frames
      BY EncoderAssumption DEF CountInv, SessionFrames, Frames
    <2>2. /\ yuvDataQueue \in Seq(Frames)
          /\ pending \in Seq(Frames)
          /\ encoded \in Seq(Frames)
      BY <2>1, SeqMonotonic DEF FrameInv
    <2>3. inHand \in Frames \cup {0} /\ outHand \in Frames \cup {0}
      BY <2>1 DEF FrameInv
    <2>4. {made, firstFrame} \subseteq 0 .. MaxFrames
      BY EncoderAssumption DEF CountInv
    <2>5. {runFlag, camera, fallback} \subseteq BOOLEAN
      BY DEF LabelInv
    <2>. QED
      BY <2>2, <2>3, <2>4, <2>5
         DEF EncoderTypeOK, LabelInv, CountInv, PoolInv
  <1>. QED
    BY <1>1, EncoderInvariant, PTL

\* The input thread releases the codec only after it has joined the output
\* thread, and stop only after it has joined the input thread: both find the
\* codec as they expect it.
THEOREM CodecIsProtected == EncoderSpec => []CodecOutlivesItsUsers
  <1>1. EncoderInv => CodecOutlivesItsUsers
    BY DEF EncoderInv, LabelInv, ThreadInv, CodecOutlivesItsUsers,
       InputLabels, OutputLabels
  <1>. QED
    BY <1>1, EncoderInvariant, PTL

\* A frame that stop finds in the queue, in the codec or in a thread's hands is
\* gone before the next session begins.
THEOREM SessionsDoNotMix == EncoderSpec => []OnlyThisSession
  <1>1. EncoderInv => OnlyThisSession
    <2>. SUFFICES ASSUME EncoderInv
                  PROVE  OnlyThisSession
      OBVIOUS
    <2>. USE DEF EncoderInv, FrameInv
    <2>. DEFINE line == yuvDataQueue \o pending \o encoded
    <2>1. yuvDataQueue \o pending \in Seq(SessionFrames)
      BY ConcatProperties
    <2>2. line \in Seq(SessionFrames)
      BY <2>1, ConcatProperties
    <2>3. Elements(line) \subseteq SessionFrames
      BY <2>2, LenProperties DEF Elements
    <2>4. \A frame \in SessionFrames : frame > firstFrame
      BY EncoderAssumption DEF CountInv, SessionFrames
    <2>5. {inHand, outHand} \ {0} \subseteq SessionFrames
      OBVIOUS
    <2>. QED
      BY <2>3, <2>4, <2>5 DEF OnlyThisSession
  <1>. QED
    BY <1>1, EncoderInvariant, PTL

\* When stop has returned no thread runs, no frame is left and the codec is
\* released.
THEOREM StopIsComplete == EncoderSpec => []StoppedEncoderIsQuiet
  <1>1. EncoderInv => StoppedEncoderIsQuiet
    <2>. SUFFICES ASSUME EncoderInv, view = "absent"
                  PROVE  /\ {inputThread, outputThread} \subseteq {"none", "done"}
                         /\ {inHand, outHand} = {0}
                         /\ yuvDataQueue = << >>
                         /\ mediaCodec # "started"
                         /\ ~runFlag
      BY DEF StoppedEncoderIsQuiet
    <2>. USE DEF EncoderInv
    <2>1. inputThread \in {"none", "done"} /\ yuvDataQueue = << >> /\ ~runFlag
      BY DEF ViewInv
    <2>2. outputThread \in {"none", "done"} /\ mediaCodec # "started"
      BY <2>1 DEF ThreadInv
    <2>3. inHand = 0 /\ outHand = 0
      BY <2>1, <2>2 DEF HandInv
    <2>. QED
      BY <2>1, <2>2, <2>3
  <1>. QED
    BY <1>1, EncoderInvariant, PTL

-----------------------------------------------------------------------------
(***************************************************************************)
(* Order.  The frames on their way form a line: the output thread's hand,  *)
(* the codec's output, the codec's input, the input thread's hand and the  *)
(* queue, and each frame was made before all that are behind it.           *)
(***************************************************************************)

Increasing(s) == \A i, j \in DOMAIN s : i < j => s[i] < s[j]

Before(A, B) == \A x \in A, y \in B : x < y

Hand(h) == {h} \ {0}

OrderInv ==
    /\ Increasing(encoded)
    /\ Increasing(pending)
    /\ Increasing(yuvDataQueue)
    /\ Before(Hand(outHand), Elements(encoded) \cup Elements(pending)
                               \cup Hand(inHand) \cup Elements(yuvDataQueue))
    /\ Before(Elements(encoded), Elements(pending) \cup Hand(inHand)
                                   \cup Elements(yuvDataQueue))
    /\ Before(Elements(pending), Hand(inHand) \cup Elements(yuvDataQueue))
    /\ Before(Hand(inHand), Elements(yuvDataQueue))

LEMMA ElementsOfEmpty == Elements(<< >>) = {} /\ Increasing(<< >>)
  <1>1. DOMAIN << >> = {}
    OBVIOUS
  <1>. QED
    BY <1>1 DEF Elements, Increasing

\* A queue that grows holds the new frame besides its own.
LEMMA AppendedElements ==
    ASSUME NEW S, NEW s \in Seq(S), NEW x \in S
    PROVE  Elements(Append(s, x)) = Elements(s) \cup {x}
  <1>. DEFINE t == Append(s, x)
  <1>1. /\ t \in Seq(S)
        /\ Len(t) = Len(s) + 1
        /\ \A i \in 1 .. Len(s) : t[i] = s[i]
        /\ t[Len(s) + 1] = x
    BY AppendProperties
  <1>2. /\ Len(s) \in Nat
        /\ DOMAIN s = 1 .. Len(s)
        /\ DOMAIN t = 1 .. Len(s) + 1
    BY <1>1, LenProperties
  <1>3. Elements(t) \subseteq Elements(s) \cup {x}
    BY <1>1, <1>2 DEF Elements
  <1>4. \A i \in DOMAIN s : i \in DOMAIN t /\ t[i] = s[i]
    BY <1>1, <1>2
  <1>5. Elements(s) \subseteq Elements(t)
    BY <1>4 DEF Elements
  <1>6. x \in Elements(t)
    BY <1>1, <1>2 DEF Elements
  <1>. QED
    BY <1>3, <1>5, <1>6

\* A queue that grows by a later frame stays in order.
LEMMA AppendInOrder ==
    ASSUME NEW S \in SUBSET Nat, NEW s \in Seq(S), NEW x \in S,
           Increasing(s), Before(Elements(s), {x})
    PROVE  Increasing(Append(s, x))
  <1>. DEFINE t == Append(s, x)
  <1>1. /\ t \in Seq(S)
        /\ Len(t) = Len(s) + 1
        /\ \A i \in 1 .. Len(s) : t[i] = s[i]
        /\ t[Len(s) + 1] = x
    BY AppendProperties
  <1>2. /\ Len(s) \in Nat
        /\ DOMAIN s = 1 .. Len(s)
        /\ DOMAIN t = 1 .. Len(s) + 1
    BY <1>1, LenProperties
  <1>3. \A i \in 1 .. Len(s) : s[i] < x
    BY <1>2 DEF Before, Elements
  <1>4. ASSUME NEW i \in DOMAIN t, NEW j \in DOMAIN t, i < j
        PROVE  t[i] < t[j]
    <2>1. i \in 1 .. Len(s) /\ t[i] = s[i]
      BY <1>1, <1>2, <1>4
    <2>2. CASE j \in 1 .. Len(s)
      BY <1>1, <1>2, <1>4, <2>1, <2>2 DEF Increasing
    <2>3. CASE j = Len(s) + 1
      BY <1>1, <1>3, <2>1, <2>3
    <2>. QED
      BY <1>2, <2>2, <2>3
  <1>. QED
    BY <1>4 DEF Increasing

\* The head comes before the tail, and the tail stays in order.
LEMMA TailInOrder ==
    ASSUME NEW S \in SUBSET Nat, NEW s \in Seq(S), s # << >>
    PROVE  /\ Elements(s) = {Head(s)} \cup Elements(Tail(s))
           /\ Increasing(s) =>
                Increasing(Tail(s)) /\ Before({Head(s)}, Elements(Tail(s)))
  <1>. DEFINE t == Tail(s)
  <1>1. /\ t \in Seq(S)
        /\ Len(t) = Len(s) - 1
        /\ \A i \in 1 .. Len(t) : t[i] = s[i + 1]
    BY HeadTailProperties
  <1>2. /\ Len(s) \in Nat \ {0}
        /\ DOMAIN s = 1 .. Len(s)
        /\ DOMAIN t = 1 .. Len(s) - 1
    BY <1>1, LenProperties, EmptySeq
  <1>3. Head(s) = s[1]
    OBVIOUS
  <1>4. Elements(s) = {Head(s)} \cup Elements(t)
    <2>1. \A i \in DOMAIN t : i + 1 \in DOMAIN s /\ t[i] = s[i + 1]
      BY <1>1, <1>2
    <2>2. Elements(t) \subseteq Elements(s)
      BY <2>1 DEF Elements
    <2>3. Head(s) \in Elements(s)
      BY <1>2, <1>3 DEF Elements
    <2>4. ASSUME NEW i \in DOMAIN s
          PROVE  s[i] \in {Head(s)} \cup Elements(t)
      <3>1. CASE i = 1
        BY <1>3, <3>1
      <3>2. CASE i # 1
        <4>1. i - 1 \in DOMAIN t /\ t[i - 1] = s[i]
          BY <1>1, <1>2, <3>2
        <4>. QED
          BY <4>1 DEF Elements
      <3>. QED
        BY <3>1, <3>2
    <2>. QED
      BY <2>2, <2>3, <2>4 DEF Elements
  <1>5. ASSUME Increasing(s)
        PROVE  Increasing(t) /\ Before({Head(s)}, Elements(t))
    <2>1. \A i \in DOMAIN t : i + 1 \in DOMAIN s /\ 1 \in DOMAIN s
                              /\ 1 < i + 1 /\ t[i] = s[i + 1]
      BY <1>1, <1>2
    <2>2. Before({Head(s)}, Elements(t))
      BY <1>3, <1>5, <2>1 DEF Before, Elements, Increasing
    <2>3. \A i, j \in DOMAIN t : i < j => i + 1 < j + 1
      BY <1>2
    <2>4. Increasing(t)
      BY <1>5, <2>1, <2>3 DEF Increasing
    <2>. QED
      BY <2>2, <2>4
  <1>. QED
    BY <1>4, <1>5

\* Two queues in order, one behind the other, are one queue in order.
LEMMA ConcatInOrder ==
    ASSUME NEW S \in SUBSET Nat, NEW s \in Seq(S), NEW t \in Seq(S)
    PROVE  /\ Elements(s \o t) = Elements(s) \cup Elements(t)
           /\ Increasing(s) /\ Increasing(t)
                /\ Before(Elements(s), Elements(t)) => Increasing(s \o t)
  <1>. DEFINE u == s \o t
  <1>1. /\ u \in Seq(S)
        /\ Len(u) = Len(s) + Len(t)
        /\ \A i \in 1 .. Len(s) + Len(t) :
             u[i] = IF i <= Len(s) THEN s[i] ELSE t[i - Len(s)]
    BY ConcatProperties
  <1>2. /\ Len(s) \in Nat /\ DOMAIN s = 1 .. Len(s)
        /\ Len(t) \in Nat /\ DOMAIN t = 1 .. Len(t)
        /\ DOMAIN u = 1 .. Len(s) + Len(t)
    BY <1>1, LenProperties
  <1>3. \A i \in DOMAIN u :
          \/ i \in DOMAIN s /\ u[i] = s[i]
          \/ i > Len(s) /\ i - Len(s) \in DOMAIN t /\ u[i] = t[i - Len(s)]
    BY <1>1, <1>2
  <1>4. \A i \in DOMAIN s : i \in DOMAIN u /\ u[i] = s[i]
    BY <1>1, <1>2
  <1>5. \A i \in DOMAIN t : i + Len(s) \in DOMAIN u /\ u[i + Len(s)] = t[i]
    BY <1>1, <1>2
  <1>6. Elements(u) = Elements(s) \cup Elements(t)
    <2>1. Elements(u) \subseteq Elements(s) \cup Elements(t)
      BY <1>3 DEF Elements
    <2>2. Elements(s) \subseteq Elements(u)
      BY <1>4 DEF Elements
    <2>3. Elements(t) \subseteq Elements(u)
      BY <1>5 DEF Elements
    <2>. QED
      BY <2>1, <2>2, <2>3
  <1>7. ASSUME Increasing(s), Increasing(t), Before(Elements(s), Elements(t)),
               NEW i \in DOMAIN u, NEW j \in DOMAIN u, i < j
        PROVE  u[i] < u[j]
    <2>1. CASE i \in DOMAIN s /\ u[i] = s[i] /\ j \in DOMAIN s /\ u[j] = s[j]
      BY <1>7, <2>1 DEF Increasing
    <2>2. CASE /\ i \in DOMAIN s /\ u[i] = s[i]
               /\ j - Len(s) \in DOMAIN t /\ u[j] = t[j - Len(s)]
      BY <1>7, <2>2 DEF Before, Elements
    <2>3. CASE /\ i - Len(s) \in DOMAIN t /\ u[i] = t[i - Len(s)]
               /\ j - Len(s) \in DOMAIN t /\ u[j] = t[j - Len(s)]
      <3>1. i - Len(s) < j - Len(s)
        BY <1>2, <1>7
      <3>. QED
        BY <1>7, <2>3, <3>1 DEF Increasing
    <2>4. CASE i > Len(s) /\ j \in DOMAIN s
      BY <1>2, <1>7, <2>4
    <2>. QED
      BY <1>3, <2>1, <2>2, <2>3, <2>4
  <1>. QED
    BY <1>6, <1>7 DEF Increasing

\* Each step keeps the line in order: a frame joins it at its end, moves up to
\* the place before it, or leaves it.
LEMMA OrderStep ==
    EncoderInv /\ OrderInv /\ EncoderNext => OrderInv'
  <1>. SUFFICES ASSUME EncoderInv, OrderInv, EncoderNext
                PROVE  OrderInv'
    OBVIOUS
  <1>. DEFINE out == Elements(encoded)
              in == Elements(pending)
              queue == Elements(yuvDataQueue)
  <1>0. /\ SessionFrames \in SUBSET Nat
        /\ 0 \notin SessionFrames
        /\ \A x \in SessionFrames : x < made + 1
        /\ made + 1 \in Nat
    BY EncoderAssumption DEF EncoderInv, CountInv, SessionFrames
  <1>1. /\ yuvDataQueue \in Seq(SessionFrames)
        /\ pending \in Seq(SessionFrames)
        /\ encoded \in Seq(SessionFrames)
        /\ inHand \in SessionFrames \cup {0}
        /\ outHand \in SessionFrames \cup {0}
    BY DEF EncoderInv, FrameInv
  <1>2. /\ out \subseteq SessionFrames
        /\ in \subseteq SessionFrames
        /\ queue \subseteq SessionFrames
        /\ Hand(inHand) \subseteq SessionFrames
        /\ Hand(outHand) \subseteq SessionFrames
    BY <1>1, LenProperties DEF Elements, Hand
  <1>3. CASE InputData
    <2>1. /\ made' = made + 1
          /\ UNCHANGED <<inHand, outHand, pending, encoded>>
      BY <1>3 DEF InputData, threadVars, codecVars
    <2>2. CASE yuvDataQueue' = yuvDataQueue
      BY <2>1, <2>2 DEF OrderInv
    <2>3. CASE yuvDataQueue' = Append(yuvDataQueue, made')
      <3>. DEFINE S == SessionFrames \cup {made + 1}
      <3>1. S \in SUBSET Nat /\ yuvDataQueue \in Seq(S)
        BY <1>0, <1>1, SeqMonotonic
      <3>2. \A x \in out \cup in \cup queue \cup Hand(inHand)
                       \cup Hand(outHand) : x < made + 1
        BY <1>0, <1>2
      <3>3. /\ Elements(yuvDataQueue') = queue \cup {made + 1}
            /\ Increasing(yuvDataQueue')
        <4>1. Before(queue, {made + 1})
          BY <3>2 DEF Before
        <4>2. /\ S \in SUBSET Nat
              /\ yuvDataQueue \in Seq(S)
              /\ made + 1 \in S
              /\ Increasing(yuvDataQueue)
          BY <3>1 DEF OrderInv
        <4>3. Elements(Append(yuvDataQueue, made + 1)) = queue \cup {made + 1}
          BY <4>2, AppendedElements
        <4>4. Increasing(Append(yuvDataQueue, made + 1))
          BY <4>1, <4>2, AppendInOrder
        <4>. QED
          BY <2>1, <2>3, <4>3, <4>4
      <3>. QED
        BY <2>1, <3>2, <3>3 DEF OrderInv, Before
    <2>. QED
      BY <1>3, <2>2, <2>3 DEF InputData
  <1>4. ASSUME UNCHANGED <<yuvDataQueue, pending, encoded>>,
               inHand' \in {inHand, 0}, outHand' \in {outHand, 0}
        PROVE  OrderInv'
    <2>1. /\ Hand(inHand') \subseteq Hand(inHand)
          /\ Hand(outHand') \subseteq Hand(outHand)
      BY <1>4 DEF Hand
    <2>. QED
      BY <1>4, <2>1 DEF OrderInv, Before
  <1>5. CASE InitCodec \/ InitCodecFails \/ TestInputFlag \/ TakeTimesOut
               \/ FeedReleasedCodec \/ StopOutputThread
    BY <1>4, <1>5 DEF InitCodec, InitCodecFails, TestInputFlag, TakeTimesOut,
       FeedReleasedCodec, StopOutputThread, InputMove, codecVars
  <1>6. CASE Take
    <2>1. /\ UNCHANGED <<outHand, pending, encoded>>
          /\ yuvDataQueue # << >>
          /\ inHand' = Head(yuvDataQueue)
          /\ yuvDataQueue' = Tail(yuvDataQueue)
      BY <1>6 DEF Take, InputMove, codecVars
    <2>2. /\ queue = {Head(yuvDataQueue)} \cup Elements(yuvDataQueue')
          /\ Increasing(yuvDataQueue')
          /\ Before({Head(yuvDataQueue)}, Elements(yuvDataQueue'))
      BY <1>0, <1>1, <2>1, TailInOrder DEF OrderInv
    <2>3. Hand(inHand') \subseteq {Head(yuvDataQueue)}
      BY <2>1 DEF Hand
    <2>. QED
      BY <2>1, <2>2, <2>3 DEF OrderInv, Before
  <1>7. ASSUME NEW fits \in BOOLEAN, FeedCodec(fits)
        PROVE  OrderInv'
    <2>1. /\ UNCHANGED <<yuvDataQueue, outHand, encoded>>
          /\ inputThread = "dequeue"
          /\ inHand' = 0
      BY <1>7 DEF FeedCodec, InputMove
    <2>2. CASE fits
      <3>1. pending' = Append(pending, inHand)
        BY <1>7, <2>2 DEF FeedCodec
      <3>2. inHand \in SessionFrames /\ Hand(inHand) = {inHand}
        BY <1>0, <1>1, <2>1 DEF EncoderInv, HandInv, Hand
      <3>3. Before(in, {inHand})
        BY <3>2 DEF OrderInv, Before
      <3>4. /\ Elements(pending') = in \cup {inHand}
            /\ Increasing(pending')
        <4>0. /\ SessionFrames \in SUBSET Nat
              /\ pending \in Seq(SessionFrames)
              /\ inHand \in SessionFrames
          BY <1>0, <1>1, <3>2
        <4>1. Elements(Append(pending, inHand)) = in \cup {inHand}
          BY <4>0, AppendedElements
        <4>2. Increasing(Append(pending, inHand))
          <5>1. Increasing(pending)
            BY DEF OrderInv
          <5>. QED
            BY <3>3, <4>0, <5>1, AppendInOrder
        <4>. QED
          BY <3>1, <4>1, <4>2
      <3>5. Hand(inHand') = {}
        BY <2>1 DEF Hand
      <3>. QED
        BY <2>1, <3>2, <3>4, <3>5 DEF OrderInv, Before
    <2>3. CASE ~fits
      BY <1>4, <1>7, <2>1, <2>3 DEF FeedCodec
    <2>. QED
      BY <2>2, <2>3
  <1>8. ASSUME ReleaseCodec, outHand' = outHand, inHand' \in {inHand, 0},
               yuvDataQueue' \in {yuvDataQueue, << >>}
        PROVE  OrderInv'
    <2>1. pending' = << >> /\ encoded' = << >>
      BY <1>8 DEF ReleaseCodec
    <2>2. /\ Elements(pending') = {} /\ Increasing(pending')
          /\ Elements(encoded') = {} /\ Increasing(encoded')
      BY <2>1, ElementsOfEmpty
    <2>3. /\ Elements(yuvDataQueue') \subseteq queue
          /\ Increasing(yuvDataQueue')
      BY <1>8, ElementsOfEmpty DEF OrderInv
    <2>4. Hand(inHand') \subseteq Hand(inHand) /\ Hand(outHand') = Hand(outHand)
      BY <1>8 DEF Hand
    <2>. QED
      BY <2>2, <2>3, <2>4 DEF OrderInv, Before
  <1>9. CASE StopMediaCodec
    BY <1>8, <1>9 DEF StopMediaCodec, InputMove
  <1>10. CASE TestOutputFlag \/ FetchNothing \/ DeliverOutput
    BY <1>4, <1>10 DEF TestOutputFlag, FetchNothing, DeliverOutput, OutputMove,
       codecVars
  <1>11. CASE FetchOutput
    <2>1. /\ UNCHANGED <<yuvDataQueue, inHand, pending>>
          /\ encoded # << >>
          /\ outHand' = Head(encoded)
          /\ encoded' = Tail(encoded)
      BY <1>11 DEF FetchOutput, OutputMove
    <2>2. /\ out = {Head(encoded)} \cup Elements(encoded')
          /\ Increasing(encoded')
          /\ Before({Head(encoded)}, Elements(encoded'))
      BY <1>0, <1>1, <2>1, TailInOrder DEF OrderInv
    <2>3. Hand(outHand') \subseteq {Head(encoded)}
      BY <2>1 DEF Hand
    <2>. QED
      BY <2>1, <2>2, <2>3 DEF OrderInv, Before
  <1>12. CASE Encode
    <2>1. /\ UNCHANGED <<yuvDataQueue, inHand, outHand>>
          /\ pending # << >>
          /\ encoded' = Append(encoded, Head(pending))
          /\ pending' = Tail(pending)
      BY <1>12 DEF Encode, threadVars
    <2>2. /\ in = {Head(pending)} \cup Elements(pending')
          /\ Increasing(pending')
          /\ Before({Head(pending)}, Elements(pending'))
          /\ Head(pending) \in SessionFrames
      BY <1>0, <1>1, <2>1, TailInOrder, HeadTailProperties DEF OrderInv
    <2>3. Before(out, {Head(pending)})
      BY <2>2 DEF OrderInv, Before
    <2>4. /\ Elements(encoded') = out \cup {Head(pending)}
          /\ Increasing(encoded')
      <3>0. /\ SessionFrames \in SUBSET Nat
            /\ encoded \in Seq(SessionFrames)
            /\ Head(pending) \in SessionFrames
        BY <1>0, <1>1, <2>2
      <3>1. Elements(Append(encoded, Head(pending))) = out \cup {Head(pending)}
        BY <3>0, AppendedElements
      <3>2. Increasing(Append(encoded, Head(pending)))
        <4>1. Increasing(encoded)
          BY DEF OrderInv
        <4>. QED
          BY <2>3, <3>0, <4>1, AppendInOrder
      <3>. QED
        BY <2>1, <3>1, <3>2
    <2>. QED
      BY <2>1, <2>2, <2>4 DEF OrderInv, Before
  <1>13. CASE Start \/ OpenCamera \/ CloseCamera \/ Stop \/ JoinInput
    BY <1>4, <1>13 DEF Start, OpenCamera, CloseCamera, Stop, JoinInput,
       threadVars, codecVars
  <1>14. CASE FinishStop
    BY <1>8, <1>14 DEF FinishStop, ClearQueue, threadVars
  <1>. QED
    BY <1>3, <1>5, <1>6, <1>7, <1>9, <1>10, <1>11, <1>12, <1>13, <1>14
       DEF EncoderNext, InputStep, OutputStep, StopStep

\* The line of frames is always in order.
THEOREM OrderInvariant == EncoderSpec => []OrderInv
  <1>1. EncoderInit => OrderInv
    BY ElementsOfEmpty DEF EncoderInit, OrderInv, Before, Hand
  <1>2. EncoderInv /\ OrderInv /\ [EncoderNext]_encoderVars => OrderInv'
    <2>1. OrderInv /\ UNCHANGED encoderVars => OrderInv'
      BY DEF OrderInv, Increasing, Before, Elements, Hand, encoderVars,
         threadVars, codecVars
    <2>. QED
      BY <2>1, OrderStep
  <1>. QED
    BY <1>1, <1>2, EncoderInvariant, PTL DEF EncoderSpec

\* The callback gets the frames in the order the camera made them, and none of
\* them twice, whatever the queue and the codec's pools hold at any moment.
THEOREM FramesAreSentInOrder == EncoderSpec => []SentInOrder
  <1>1. EncoderInv /\ OrderInv => SentInOrder
    <2>. SUFFICES ASSUME EncoderInv, OrderInv
                  PROVE  SentInOrder
      OBVIOUS
    <2>. DEFINE line == encoded \o pending \o yuvDataQueue
                out == Elements(encoded)
                in == Elements(pending)
                queue == Elements(yuvDataQueue)
    <2>0. /\ SessionFrames \in SUBSET Nat
          /\ encoded \in Seq(SessionFrames)
          /\ pending \in Seq(SessionFrames)
          /\ yuvDataQueue \in Seq(SessionFrames)
      BY EncoderAssumption
         DEF EncoderInv, CountInv, FrameInv, SessionFrames
    <2>1. /\ encoded \o pending \in Seq(SessionFrames)
          /\ Elements(encoded \o pending) = out \cup in
          /\ Increasing(encoded \o pending)
      <3>1. Before(out, in)
        BY DEF OrderInv, Before
      <3>. QED
        BY <2>0, <3>1, ConcatProperties, ConcatInOrder DEF OrderInv
    <2>2. /\ Elements(line) = out \cup in \cup queue
          /\ Increasing(line)
      <3>1. Before(out \cup in, queue)
        BY DEF OrderInv, Before
      <3>. QED
        BY <2>0, <2>1, <3>1, ConcatInOrder DEF OrderInv
    <2>3. outHand # 0 => \A frame \in Elements(line) : outHand < frame
      BY <2>2 DEF OrderInv, Before, Hand
    <2>4. inHand # 0 =>
            /\ \A frame \in Elements(encoded \o pending) : frame < inHand
            /\ \A frame \in queue : inHand < frame
      BY <2>1 DEF OrderInv, Before, Hand
    <2>. QED
      BY <2>2, <2>3, <2>4 DEF SentInOrder, Increasing
  <1>. QED
    BY <1>1, EncoderInvariant, OrderInvariant, PTL

-----------------------------------------------------------------------------
(***************************************************************************)
(* Refinement.  The places of the line, taken together, are the inside of  *)
(* a LossyPipe, and the output thread's hand is its end.                   *)
(***************************************************************************)

\* The frames that may still reach the callback.
Inside == Elements(encoded) \cup Elements(pending) \cup Elements(yuvDataQueue)
            \cup Hand(inHand)

\* The step of the pipe that each step of the encoder is.
LEMMA PipeStep ==
    EncoderInv /\ OrderInv /\ EncoderNext => [Pipe!LPNext]_(Pipe!lpVars)
  <1>. SUFFICES ASSUME EncoderInv, OrderInv, EncoderNext
                PROVE  Pipe!LPNext
    OBVIOUS
  <1>0. /\ SessionFrames \in SUBSET Nat
        /\ 0 \notin SessionFrames
        /\ yuvDataQueue \in Seq(SessionFrames)
        /\ pending \in Seq(SessionFrames)
        /\ encoded \in Seq(SessionFrames)
        /\ inHand \in SessionFrames \cup {0}
    BY EncoderAssumption
       DEF EncoderInv, CountInv, FrameInv, SessionFrames
  <1>1. ASSUME made' = made + 1, Inside' \in {Inside, Inside \cup {made'}},
               outHand' = outHand
        PROVE  Pipe!LPNext
    BY <1>1 DEF Pipe!LPNext, Pipe!Enter, Inside, Hand
  <1>2. ASSUME made' = made, Inside' \subseteq Inside, outHand' = outHand
        PROVE  Pipe!LPNext
    BY <1>2 DEF Pipe!LPNext, Pipe!Lose, Inside, Hand
  <1>3. ASSUME made' = made, Inside' = Inside, outHand' = 0
        PROVE  Pipe!LPNext
    BY <1>3 DEF Pipe!LPNext, Pipe!Return, Inside, Hand
  <1>4. ASSUME UNCHANGED <<yuvDataQueue, pending, encoded, made, outHand>>,
               inHand' \in {inHand, 0}
        PROVE  Pipe!LPNext
    BY <1>2, <1>4 DEF Inside, Hand, Elements
  <1>5. CASE InputData
    <2>1. /\ made' = made + 1
          /\ UNCHANGED <<inHand, outHand, pending, encoded>>
      BY <1>5 DEF InputData, threadVars, codecVars
    <2>2. CASE yuvDataQueue' = yuvDataQueue
      BY <1>1, <2>1, <2>2 DEF Inside, Hand, Elements
    <2>3. CASE yuvDataQueue' = Append(yuvDataQueue, made')
      <3>. DEFINE S == SessionFrames \cup {made + 1}
      <3>1. made + 1 \in Nat
        BY EncoderAssumption DEF EncoderInv, CountInv
      <3>2. S \in SUBSET Nat /\ yuvDataQueue \in Seq(S)
        BY <1>0, <3>1, SeqMonotonic
      <3>3. Elements(yuvDataQueue') = Elements(yuvDataQueue) \cup {made'}
        <4>1. made + 1 \in S
          OBVIOUS
        <4>2. Elements(Append(yuvDataQueue, made + 1)) =
                Elements(yuvDataQueue) \cup {made + 1}
          BY <3>2, <4>1, AppendedElements
        <4>. QED
          BY <2>1, <2>3, <4>2
      <3>4. Inside' = Inside \cup {made'}
        BY <2>1, <3>3 DEF Inside, Hand, Elements
      <3>. QED
        BY <1>1, <2>1, <3>4
    <2>. QED
      BY <1>5, <2>2, <2>3 DEF InputData
  <1>6. CASE InitCodec \/ InitCodecFails \/ TestInputFlag \/ TakeTimesOut
               \/ FeedReleasedCodec \/ StopOutputThread
    BY <1>4, <1>6 DEF InitCodec, InitCodecFails, TestInputFlag, TakeTimesOut,
       FeedReleasedCodec, StopOutputThread, InputMove, codecVars
  <1>7. CASE Take
    <2>1. /\ UNCHANGED <<outHand, pending, encoded, made>>
          /\ yuvDataQueue # << >>
          /\ inHand' = Head(yuvDataQueue)
          /\ yuvDataQueue' = Tail(yuvDataQueue)
      BY <1>7 DEF Take, InputMove, codecVars
    <2>2. Elements(yuvDataQueue) = {inHand'} \cup Elements(yuvDataQueue')
      BY <1>0, <2>1, TailInOrder
    <2>3. Inside' \subseteq Inside
      BY <2>1, <2>2 DEF Inside, Hand, Elements
    <2>. QED
      BY <1>2, <2>1, <2>3
  <1>8. ASSUME NEW fits \in BOOLEAN, FeedCodec(fits)
        PROVE  Pipe!LPNext
    <2>1. /\ UNCHANGED <<yuvDataQueue, outHand, encoded, made>>
          /\ inputThread = "dequeue"
          /\ inHand' = 0
      BY <1>8 DEF FeedCodec, InputMove
    <2>2. CASE fits
      <3>1. pending' = Append(pending, inHand)
        BY <1>8, <2>2 DEF FeedCodec
      <3>2. inHand \in SessionFrames /\ Hand(inHand) = {inHand}
        BY <1>0, <2>1 DEF EncoderInv, HandInv, Hand
      <3>3. Elements(pending') = Elements(pending) \cup {inHand}
        <4>1. Elements(Append(pending, inHand)) = Elements(pending) \cup {inHand}
          BY <1>0, <3>2, AppendedElements
        <4>. QED
          BY <3>1, <4>1
      <3>4. Hand(inHand') = {}
        BY <2>1 DEF Hand
      <3>5. Inside' = Inside
        BY <2>1, <3>2, <3>3, <3>4 DEF Inside, Elements
      <3>. QED
        BY <1>2, <2>1, <3>5
    <2>3. CASE ~fits
      BY <1>4, <1>8, <2>1, <2>3 DEF FeedCodec
    <2>. QED
      BY <2>2, <2>3
  <1>9. ASSUME ReleaseCodec, UNCHANGED <<made, outHand>>, inHand' \in {inHand, 0},
               yuvDataQueue' \in {yuvDataQueue, << >>}
        PROVE  Pipe!LPNext
    <2>1. /\ Elements(pending') = {} /\ Elements(encoded') = {}
          /\ Elements(yuvDataQueue') \subseteq Elements(yuvDataQueue)
          /\ Hand(inHand') \subseteq Hand(inHand)
      BY <1>9, ElementsOfEmpty DEF ReleaseCodec, Hand
    <2>2. Inside' \subseteq Inside
      BY <2>1 DEF Inside
    <2>. QED
      BY <1>2, <1>9, <2>2
  <1>10. CASE StopMediaCodec
    BY <1>9, <1>10 DEF StopMediaCodec, InputMove
  <1>11. CASE TestOutputFlag \/ FetchNothing \/ DeliverOutput
    <2>1. /\ UNCHANGED <<yuvDataQueue, inHand, pending, encoded, made>>
          /\ outHand' = 0
      BY <1>11 DEF TestOutputFlag, FetchNothing, DeliverOutput, OutputMove,
         codecVars
    <2>2. Inside' = Inside
      BY <2>1 DEF Inside, Hand, Elements
    <2>. QED
      BY <1>3, <2>1, <2>2
  <1>12. CASE FetchOutput
    <2>1. /\ UNCHANGED <<yuvDataQueue, inHand, pending, made>>
          /\ encoded # << >>
          /\ outputThread = "fetch"
          /\ outHand' = Head(encoded)
          /\ encoded' = Tail(encoded)
      BY <1>12 DEF FetchOutput, OutputMove
    <2>2. /\ Elements(encoded) = {outHand'} \cup Elements(encoded')
          /\ Before({outHand'}, Elements(encoded'))
      BY <1>0, <2>1, TailInOrder DEF OrderInv
    <2>3. /\ Inside = {outHand'} \cup Inside'
          /\ Before({outHand'}, Inside')
      BY <2>1, <2>2 DEF Inside, OrderInv, Before, Hand
    <2>4. outHand' \in Nat /\ outHand' \notin Inside'
      <3>1. outHand' \in SessionFrames
        BY <1>0, <2>1, HeadTailProperties
      <3>2. ~(outHand' < outHand')
        BY <1>0, <3>1
      <3>. QED
        BY <1>0, <2>3, <3>1, <3>2 DEF Before
    <2>5. \A frame \in Inside : outHand' <= frame
      BY <2>3, <2>4 DEF Before
    <2>6. Inside' = Inside \ {outHand'}
      BY <2>3, <2>4
    <2>7. outHand = 0
      BY <2>1 DEF EncoderInv, HandInv
    <2>. QED
      BY <2>1, <2>3, <2>5, <2>6, <2>7 DEF Pipe!LPNext, Pipe!Leave, Inside, Hand
  <1>13. CASE Encode
    <2>1. /\ UNCHANGED <<yuvDataQueue, inHand, outHand, made>>
          /\ pending # << >>
          /\ encoded' = Append(encoded, Head(pending))
          /\ pending' = Tail(pending)
      BY <1>13 DEF Encode, threadVars
    <2>2. /\ Elements(pending) = {Head(pending)} \cup Elements(pending')
          /\ Head(pending) \in SessionFrames
      BY <1>0, <2>1, TailInOrder, HeadTailProperties
    <2>3. Elements(encoded') = Elements(encoded) \cup {Head(pending)}
      <3>1. \A frame \in SessionFrames :
              Elements(Append(encoded, frame)) = Elements(encoded) \cup {frame}
        BY <1>0, AppendedElements
      <3>. QED
        BY <2>1, <2>2, <3>1
    <2>4. Inside' = Inside
      BY <2>1, <2>2, <2>3 DEF Inside, Hand, Elements
    <2>. QED
      BY <1>2, <2>1, <2>4
  <1>14. CASE Start \/ OpenCamera \/ CloseCamera \/ Stop \/ JoinInput
    BY <1>4, <1>14 DEF Start, OpenCamera, CloseCamera, Stop, JoinInput,
       threadVars, codecVars
  <1>15. CASE FinishStop
    BY <1>9, <1>15 DEF FinishStop, ClearQueue, threadVars
  <1>. QED
    BY <1>5, <1>6, <1>7, <1>8, <1>10, <1>11, <1>12, <1>13, <1>14, <1>15
       DEF EncoderNext, InputStep, OutputStep, StopStep

\* Whatever the queue, the codec and the stops of the view drop, the callback
\* gets the oldest frame there is, one at a time and each once: the encoder
\* implements LossyPipe.
THEOREM EncoderRefinesLossyPipe == EncoderSpec => EncoderIsLossyPipe
  <1>1. EncoderInit => Pipe!LPInit
    BY ElementsOfEmpty DEF EncoderInit, Pipe!LPInit
  <1>2. EncoderInv /\ OrderInv /\ [EncoderNext]_encoderVars =>
          [Pipe!LPNext]_(Pipe!lpVars)
    <2>1. UNCHANGED encoderVars => UNCHANGED Pipe!lpVars
      BY DEF encoderVars, threadVars, codecVars, Pipe!lpVars, Elements
    <2>. QED
      BY <2>1, PipeStep
  <1>. QED
    BY <1>1, <1>2, EncoderInvariant, OrderInvariant, PTL
       DEF EncoderSpec, EncoderIsLossyPipe, Pipe!LPSpec
=============================================================================
