---------------------------- MODULE VideoEncoder ----------------------------
(***************************************************************************)
(* VideoEncoder.java, as CameraPriviewView uses it: the camera's thread    *)
(* offers frames, the input thread owns the MediaCodec and feeds it, the   *)
(* output thread drains it into the data callback, and the UI thread       *)
(* starts and stops.  The view may be shown several times; the encoder     *)
(* object, and its field mediaCodec, stay.                                 *)
(*                                                                         *)
(* MediaCodec is external.  It is a pool of input buffers and a pool of    *)
(* output buffers: a frame occupies an input buffer until it is encoded,   *)
(* and an output buffer until that is released.                            *)
(***************************************************************************)
EXTENDS Naturals, Sequences

CONSTANTS
    Capacity,       \* the size of yuvDataQueue, 30 in the code
    InputBuffers,   \* the size of MediaCodec's input pool
    OutputBuffers,  \* the size of its output pool
    MaxFrames,      \* bound: the frames the camera makes
    MaxSessions     \* bound: how often the view is shown

ASSUME EncoderAssumption ==
    /\ {Capacity, InputBuffers, OutputBuffers} \subseteq Nat \ {0}
    /\ {MaxFrames, MaxSessions} \subseteq Nat

VARIABLES
    runFlag,
    yuvDataQueue,   \* the frames offered and not yet taken
    mediaCodec,     \* the codec the field refers to: "null", "started", "released"
    inputThread,    \* where the input thread is
    inHand,         \* the frame it has taken, or 0
    outputThread,   \* where the output thread is
    outHand,        \* the encoded frame it handles, or 0
    pending,        \* external: the frames in input buffers
    lost,           \* external: input buffers that were never given back
    encoded,        \* external: the frames in output buffers not yet fetched
    camera,         \* the camera's thread may offer frames
    view,           \* where the UI thread is
    made,           \* history: the number of frames the camera has made
    firstFrame,     \* history: made when the session began
    sessions,       \* history: the number of sessions
    fallback        \* history: this session's codec could not be created

threadVars == <<inputThread, inHand, outputThread, outHand>>
codecVars == <<mediaCodec, pending, lost, encoded>>
sessionVars == <<runFlag, camera, view, firstFrame, sessions>>
encoderVars == <<yuvDataQueue, threadVars, codecVars, sessionVars, made,
                 fallback>>

InputLabels == {"none", "init", "loop", "take", "dequeue", "joinOutput",
                "release", "done"}
OutputLabels == {"none", "loop", "fetch", "callback", "done"}

EncoderInit ==
    /\ runFlag = FALSE
    /\ yuvDataQueue = << >>
    /\ mediaCodec = "null"
    /\ inputThread = "none"
    /\ inHand = 0
    /\ outputThread = "none"
    /\ outHand = 0
    /\ pending = << >>
    /\ lost = 0
    /\ encoded = << >>
    /\ camera = FALSE
    /\ view = "absent"
    /\ made = 0
    /\ firstFrame = 0
    /\ sessions = 0
    /\ fallback = FALSE

-----------------------------------------------------------------------------
(***************************************************************************)
(* The camera's thread.                                                    *)
(***************************************************************************)

QueueFull == Len(yuvDataQueue) >= Capacity

\* inputData.  A frame is dropped while there is no codec, and when the queue is
\* full: add throws.  The codec of an earlier session counts as one.
InputData ==
    /\ camera
    /\ made < MaxFrames
    /\ made' = made + 1
    /\ yuvDataQueue' = IF mediaCodec # "null" /\ ~QueueFull
                         THEN Append(yuvDataQueue, made')
                         ELSE yuvDataQueue
    /\ UNCHANGED <<threadVars, codecVars, sessionVars, fallback>>

-----------------------------------------------------------------------------
(***************************************************************************)
(* The input thread.                                                       *)
(***************************************************************************)

\* The input thread proceeds with frame in hand; a frame is a positive number.
InputMove(from, to, frame) ==
    /\ inputThread = from
    /\ inputThread' = to
    /\ inHand' = frame

\* startMediaCodec succeeds, and startOutputThread follows.
InitCodec ==
    /\ InputMove("init", "loop", 0)
    /\ mediaCodec' = "started"
    /\ outputThread' = "loop"
    /\ UNCHANGED <<yuvDataQueue, outHand, pending, lost, encoded, sessionVars,
                   made, fallback>>

\* createEncoderByType throws: the field still refers to the codec of the
\* session before, if there was one, and the thread goes on with that.
InitCodecFails ==
    /\ InputMove("init", IF mediaCodec = "null" THEN "done" ELSE "loop", 0)
    /\ outputThread' = IF mediaCodec = "null" THEN outputThread ELSE "loop"
    /\ fallback' = TRUE
    /\ UNCHANGED <<yuvDataQueue, outHand, codecVars, sessionVars, made>>

TestInputFlag ==
    /\ InputMove("loop", IF runFlag THEN "take" ELSE "joinOutput", 0)
    /\ UNCHANGED <<yuvDataQueue, outputThread, outHand, codecVars, sessionVars,
                   made, fallback>>

\* Slip: the newest frame is taken.
TakeNewest ==
    LET newest == Len(yuvDataQueue) IN
    /\ yuvDataQueue # << >>
    /\ InputMove("take", "dequeue", yuvDataQueue[newest])
    /\ yuvDataQueue' = SubSeq(yuvDataQueue, 1, newest - 1)
    /\ UNCHANGED <<outputThread, outHand, codecVars, sessionVars, made, fallback>>

Take ==
    /\ yuvDataQueue # << >>
    /\ InputMove("take", "dequeue", Head(yuvDataQueue))
    /\ yuvDataQueue' = Tail(yuvDataQueue)
    /\ UNCHANGED <<outputThread, outHand, codecVars, sessionVars, made, fallback>>

\* poll gives up after half a second.
TakeTimesOut ==
    /\ yuvDataQueue = << >>
    /\ InputMove("take", "loop", 0)
    /\ UNCHANGED <<yuvDataQueue, outputThread, outHand, codecVars, sessionVars,
                   made, fallback>>

InputBufferFree == Len(pending) + lost < InputBuffers

\* dequeueInputBuffer(-1) waits for a free buffer, however long that takes.  If
\* the frame does not fit the buffer is not given back.
FeedCodec(fits) ==
    /\ mediaCodec = "started"
    /\ InputBufferFree
    /\ InputMove("dequeue", "loop", 0)
    /\ IF fits
         THEN pending' = Append(pending, inHand) /\ UNCHANGED lost
         ELSE lost' = lost + 1 /\ UNCHANGED pending
    /\ UNCHANGED <<yuvDataQueue, outputThread, outHand, mediaCodec, encoded,
                   sessionVars, made, fallback>>

\* A released codec throws: the frame is gone.
FeedReleasedCodec ==
    /\ mediaCodec = "released"
    /\ InputMove("dequeue", "loop", 0)
    /\ UNCHANGED <<yuvDataQueue, outputThread, outHand, codecVars, sessionVars,
                   made, fallback>>

\* Slip: the output thread is not waited for.
OutputGoneUnchecked == TRUE

OutputGone == outputThread = "done"

StopOutputThread ==
    /\ OutputGone
    /\ InputMove("joinOutput", "release", 0)
    /\ UNCHANGED <<yuvDataQueue, outputThread, outHand, codecVars, sessionVars,
                   made, fallback>>

\* stopMeiaCodec: the buffers go with the codec.
ReleaseCodec ==
    /\ mediaCodec' = IF mediaCodec = "null" THEN "null" ELSE "released"
    /\ pending' = << >>
    /\ lost' = 0
    /\ encoded' = << >>

StopMediaCodec ==
    /\ InputMove("release", "done", 0)
    /\ ReleaseCodec
    /\ UNCHANGED <<yuvDataQueue, outputThread, outHand, sessionVars, made,
                   fallback>>

InputStep ==
    \/ InitCodec \/ InitCodecFails \/ TestInputFlag \/ Take \/ TakeTimesOut
    \/ \E fits \in BOOLEAN : FeedCodec(fits)
    \/ FeedReleasedCodec \/ StopOutputThread \/ StopMediaCodec

-----------------------------------------------------------------------------
(***************************************************************************)
(* The output thread, and the codec.                                       *)
(***************************************************************************)

OutputMove(from, to, frame) ==
    /\ outputThread = from
    /\ outputThread' = to
    /\ outHand' = frame
    /\ UNCHANGED <<yuvDataQueue, inputThread, inHand, sessionVars, made, fallback>>

TestOutputFlag ==
    /\ OutputMove("loop", IF runFlag THEN "fetch" ELSE "done", 0)
    /\ UNCHANGED codecVars

FetchOutput ==
    /\ mediaCodec = "started"
    /\ encoded # << >>
    /\ OutputMove("fetch", "callback", Head(encoded))
    /\ encoded' = Tail(encoded)
    /\ UNCHANGED <<mediaCodec, pending, lost>>

\* dequeueOutputBuffer gives up after 12 milliseconds, or throws when the
\* codec has been released.
FetchNothing ==
    /\ mediaCodec = "released" \/ encoded = << >>
    /\ OutputMove("fetch", "loop", 0)
    /\ UNCHANGED codecVars

\* The callback returns, and the output buffer is given back.
DeliverOutput ==
    /\ OutputMove("callback", "loop", 0)
    /\ UNCHANGED codecVars

OutputStep == TestOutputFlag \/ FetchOutput \/ FetchNothing \/ DeliverOutput

OutputBufferFree ==
    Len(encoded) + (IF outHand = 0 THEN 0 ELSE 1) < OutputBuffers

Encode ==
    /\ mediaCodec = "started"
    /\ pending # << >>
    /\ OutputBufferFree
    /\ encoded' = Append(encoded, Head(pending))
    /\ pending' = Tail(pending)
    /\ UNCHANGED <<yuvDataQueue, threadVars, mediaCodec, lost, sessionVars,
                   made, fallback>>

-----------------------------------------------------------------------------
(***************************************************************************)
(* The UI thread: surfaceCreated starts the encoder and then the camera,   *)
(* surfaceDestroyed closes the camera, which joins its thread, and then    *)
(* stops the encoder.                                                      *)
(***************************************************************************)

Show(from, to) == view = from /\ view' = to

Start ==
    /\ sessions < MaxSessions
    /\ ~runFlag
    /\ Show("absent", "started")
    /\ runFlag' = TRUE
    /\ inputThread' = "init"
    /\ sessions' = sessions + 1
    /\ firstFrame' = made
    /\ fallback' = FALSE
    /\ UNCHANGED <<yuvDataQueue, inHand, outputThread, outHand, codecVars,
                   camera, made>>

OpenCamera ==
    /\ Show("started", "shown")
    /\ camera' = TRUE
    /\ UNCHANGED <<yuvDataQueue, threadVars, codecVars, runFlag, firstFrame,
                   sessions, made, fallback>>

CloseCamera ==
    /\ Show("shown", "stop")
    /\ camera' = FALSE
    /\ UNCHANGED <<yuvDataQueue, threadVars, codecVars, runFlag, firstFrame,
                   sessions, made, fallback>>

\* Slip: the threads are not told.
ClearRunFlagForgotten == UNCHANGED runFlag

ClearRunFlag == runFlag' = FALSE

Stop ==
    /\ Show("stop", "joinInput")
    /\ ClearRunFlag
    /\ UNCHANGED <<yuvDataQueue, threadVars, codecVars, camera, firstFrame,
                   sessions, made, fallback>>

\* Slip: the input thread is not waited for.
InputGoneUnchecked == TRUE

InputGone == inputThread = "done"

JoinInput ==
    /\ Show("joinInput", "finish")
    /\ InputGone
    /\ UNCHANGED <<yuvDataQueue, threadVars, codecVars, runFlag, camera,
                   firstFrame, sessions, made, fallback>>

\* Slip: the frames that were not encoded stay for the next session.
ClearQueueForgotten == UNCHANGED yuvDataQueue

ClearQueue == yuvDataQueue' = << >>

FinishStop ==
    /\ Show("finish", "absent")
    /\ ClearQueue
    /\ ReleaseCodec
    /\ UNCHANGED <<threadVars, runFlag, camera, firstFrame, sessions, made,
                   fallback>>

StopStep == Stop \/ JoinInput \/ FinishStop

EncoderNext ==
    \/ InputData
    \/ InputStep
    \/ OutputStep
    \/ Encode
    \/ Start \/ OpenCamera \/ CloseCamera
    \/ StopStep

EncoderSpec == EncoderInit /\ [][EncoderNext]_encoderVars

\* The threads run, the codec encodes when it has a frame and a buffer for it,
\* and the callback returns.  Nothing is assumed of the camera or the user.
EncoderFairness ==
    /\ WF_encoderVars(InputStep)
    /\ WF_encoderVars(OutputStep)
    /\ WF_encoderVars(Encode)
    /\ WF_encoderVars(StopStep)

EncoderFairSpec == EncoderSpec /\ EncoderFairness

-----------------------------------------------------------------------------
(***************************************************************************)
(* Properties.                                                             *)
(***************************************************************************)

Frames == 1 .. MaxFrames

\* Every variable keeps its type, and no pool gives out more buffers than it
\* has.
EncoderTypeOK ==
    /\ {runFlag, camera, fallback} \subseteq BOOLEAN
    /\ {yuvDataQueue, pending, encoded} \subseteq Seq(Frames)
    /\ Len(yuvDataQueue) <= Capacity
    /\ mediaCodec \in {"null", "started", "released"}
    /\ inputThread \in InputLabels
    /\ outputThread \in OutputLabels
    /\ {inHand, outHand} \subseteq Frames \cup {0}
    /\ Len(pending) + lost <= InputBuffers
    /\ Len(encoded) + (IF outHand = 0 THEN 0 ELSE 1) <= OutputBuffers
    /\ view \in {"absent", "started", "shown", "stop", "joinInput", "finish"}
    /\ {made, firstFrame} \subseteq 0 .. MaxFrames
    /\ sessions \in 0 .. MaxSessions

\* A thread that is about to call the codec, or holds one of its buffers, finds
\* it started: the input thread releases it only after the output thread, and
\* stop only after the input thread.  The exception is a session whose codec
\* could not be created: both threads then run on the codec of the session
\* before.
CodecOutlivesItsUsers ==
    (inputThread \in {"loop", "take", "dequeue"}
       \/ outputThread \in {"loop", "fetch", "callback"}) =>
        mediaCodec = IF fallback THEN "released" ELSE "started"

Elements(s) == {s[i] : i \in DOMAIN s}

\* Sessions do not mix: no frame of an earlier session is still queued, encoded
\* or sent in a later one.
OnlyThisSession ==
    \A frame \in Elements(yuvDataQueue \o pending \o encoded)
                   \cup ({inHand, outHand} \ {0}) : frame > firstFrame

\* Frames reach the callback in the order the camera made them, each once.
SentInOrder ==
    LET line == encoded \o pending \o yuvDataQueue
        hands == {inHand, outHand} \ {0}
    IN  /\ \A i, j \in DOMAIN line : i < j => line[i] < line[j]
        /\ outHand # 0 => \A frame \in Elements(line) : outHand < frame
        /\ inHand # 0 => /\ \A frame \in Elements(encoded \o pending) : frame < inHand
                         /\ \A frame \in Elements(yuvDataQueue) : inHand < frame

\* From the camera to the callback the encoder is a LossyPipe, over all its
\* sessions: whatever is dropped, the callback gets the oldest frame there is.
Pipe == INSTANCE LossyPipe WITH
        entered <- made,
        inside <- Elements(encoded) \cup Elements(pending)
                    \cup Elements(yuvDataQueue) \cup ({inHand} \ {0}),
        leaving <- outHand

EncoderIsLossyPipe == Pipe!LPSpec

\* stop has left nothing: no thread, no frame, no codec.
StoppedEncoderIsQuiet ==
    view = "absent" =>
        /\ {inputThread, outputThread} \subseteq {"none", "done"}
        /\ {inHand, outHand} = {0}
        /\ yuvDataQueue = << >>
        /\ mediaCodec # "started"
        /\ ~runFlag

\* The input thread waits for an input buffer that no one will free: the output
\* thread has left, and either every output buffer is full or every input
\* buffer was lost.
Starved ==
    /\ inputThread = "dequeue"
    /\ ~InputBufferFree
    /\ outputThread = "done"
    /\ pending = << >> \/ ~OutputBufferFree

\* stop returns, except when the codec starves the input thread.
StopIsResolved == view = "joinInput" ~> view = "absent" \/ Starved
=============================================================================
