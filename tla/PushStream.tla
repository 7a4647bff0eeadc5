----------------------------- MODULE PushStream -----------------------------
(***************************************************************************)
(* One publishing session, from surfaceCreated to surfaceDestroyed of      *)
(* CameraPriviewView: the push map of CloudVoiceMediaManager, the          *)
(* CloudVoicePushStreamClient, its RTMP client with its worker thread, and *)
(* the blocking queue between the encoder and the worker.                  *)
(*                                                                         *)
(* Three threads meet here: the output thread of VideoEncoder (encoder)    *)
(* adds packets, the RTMP client's workThreadFunc (worker) takes and sends *)
(* them, and the UI thread (ui) creates, starts, stops and destroys.  The  *)
(* steps inside the queue are those of BlockingQueue.  When a session is   *)
(* over the view may be shown again, which starts the next one.            *)
(***************************************************************************)
EXTENDS BlockingQueue

CONSTANTS encoder, worker, ui

ASSUME PushAssumption ==
    /\ Producers = {encoder}
    /\ Consumers = {worker}
    /\ Controllers = {ui}
    /\ Cardinality(Threads) = 3

VARIABLES
    mapped,     \* the id is a key of pushStreamClientMap
    allocated,  \* the client's memory has not been freed
    workFlag,   \* rtmpClientOpaque->workFlag
    joinable,   \* rtmpClientOpaque->workThreadId is not -1
    rtmp,       \* the RTMP handle: "null", "open" or, a send failed, "broken"
    stage,      \* where workThreadFunc is, outside of the queue
    runFlag,    \* VideoEncoder.runFlag
    output,     \* VideoEncoder's output thread: "none", "loop" or "frame"
    view,       \* where the UI thread is in the life of the session
    late        \* history: what the worker did too late to notice a stop

clientVars == <<mapped, allocated, workFlag, joinable, rtmp, stage>>
encoderVars == <<runFlag, output>>
pushVars == <<queueVars, clientVars, encoderVars, view, late>>

Stages == {"none", "connect", "loop", "take", "send", "release", "done"}
Views == {"absent", "created", "started", "streaming", "joinEncoder",
          "stopPush", "stopClear", "stopJoin",
          "destroy", "destroyClear", "destroyQueue", "free"}

PushInit ==
    /\ QueueInit
    /\ mapped = FALSE
    /\ allocated = FALSE
    /\ workFlag = 0
    /\ joinable = FALSE
    /\ rtmp = "null"
    /\ stage = "none"
    /\ runFlag = FALSE
    /\ output = "none"
    /\ view = "absent"
    /\ late = {}

Show(from, to) == view = from /\ view' = to

-----------------------------------------------------------------------------
(***************************************************************************)
(* The encoder's output thread: MediaJni.sendVideoData, the manager, the   *)
(* push client and sendData of the RTMP client, down to the call of add.   *)
(***************************************************************************)

\* Bound: the thread has a frame only while there is a packet left for it.
FrameLeft == Unclaimed # {}

\* The thread tests runFlag, and has a frame or leaves.  It may still be
\* sending a frame when runFlag is cleared.
NextFrame ==
    /\ output = "loop"
    /\ runFlag => FrameLeft
    /\ pc[encoder] = "idle"
    /\ output' = IF runFlag THEN "frame" ELSE "none"
    /\ UNCHANGED <<queueVars, clientVars, runFlag, view, late>>

\* Slip: sendData does not test workFlag.
WorkingUnchecked == TRUE

Working == workFlag = 1

SendVideoData(p) ==
    /\ output = "frame"
    /\ output' = "loop"
    /\ mapped
    /\ p \in Unclaimed
    /\ Working
    /\ AddEnter(encoder, p)
    /\ UNCHANGED <<clientVars, runFlag, view, late>>

\* Not connected yet, or no longer: the packet is destroyed.
RefuseVideoData(p) ==
    /\ output = "frame"
    /\ output' = "loop"
    /\ mapped
    /\ p \in Unclaimed
    /\ ~Working
    /\ loc' = [loc EXCEPT ![p] = "freed"]
    /\ UNCHANGED <<listVars, owner, waiting, abortFlag, alive, pc, after, arg,
                   history, clientVars, runFlag, view, late>>

-----------------------------------------------------------------------------
(***************************************************************************)
(* The worker thread: initRtmpClient, pushLoop, releaseRtmpClient.         *)
(***************************************************************************)

Advance(from, to) ==
    /\ stage = from
    /\ stage' = to

\* stop has cleared workFlag; its clear has signalled as well.
StopRequested == view \in {"stopClear", "stopJoin"}
StopSignalled == StopRequested /\ pc[ui] # "clearSignal"

\* RTMP_Alloc, RTMP_SetupURL, RTMP_Connect or RTMP_ConnectStream fails; what
\* had been allocated is freed.
ConnectFails ==
    /\ Advance("connect", "loop")
    /\ UNCHANGED <<queueVars, mapped, allocated, workFlag, joinable, rtmp,
                   encoderVars, view, late>>

\* The flag is set whatever has happened to it since the thread was started.
ConnectSucceeds ==
    /\ Advance("connect", "loop")
    /\ rtmp' = "open"
    /\ workFlag' = 1
    /\ late' = IF StopRequested THEN late \cup {"connect"} ELSE late
    /\ UNCHANGED <<queueVars, mapped, allocated, joinable, encoderVars, view>>

\* The test at the head of the loop, and the call of take.
TakePacket ==
    /\ workFlag = 1
    /\ Advance("loop", "take")
    /\ TakeEnter(worker)
    /\ UNCHANGED <<mapped, allocated, workFlag, joinable, rtmp, encoderVars, view, late>>

LeaveLoop ==
    /\ workFlag # 1
    /\ Advance("loop", "release")
    /\ UNCHANGED <<queueVars, mapped, allocated, workFlag, joinable, rtmp,
                   encoderVars, view, late>>

Taken == {p \in Packets : loc[p] = "taken"}

TakeReturns ==
    /\ pc[worker] = "idle"
    /\ Advance("take", IF Taken = {} THEN "loop" ELSE "send")
    /\ UNCHANGED <<queueVars, mapped, allocated, workFlag, joinable, rtmp,
                   encoderVars, view, late>>

\* Slip: a failed send is only logged.
FlagAfterFailureKept == UNCHANGED workFlag

FlagAfterFailure == workFlag' = 0

\* sendH264Data or sendSpsPpsData, then the packet is destroyed.
SendPacket(ok) ==
    /\ Advance("send", "loop")
    /\ loc' = [p \in Packets |-> IF p \in Taken THEN "freed" ELSE loc[p]]
    /\ IF ok
         THEN UNCHANGED <<workFlag, rtmp>>
         ELSE FlagAfterFailure /\ rtmp' = "broken"
    /\ UNCHANGED <<listVars, owner, waiting, abortFlag, alive, pc, after, arg,
                   history, mapped, allocated, joinable, encoderVars, view, late>>

ReleaseRtmpClient ==
    /\ Advance("release", "done")
    /\ rtmp' = "null"
    /\ workFlag' = 0
    /\ UNCHANGED <<queueVars, mapped, allocated, joinable, encoderVars, view, late>>

-----------------------------------------------------------------------------
(***************************************************************************)
(* The UI thread: surfaceCreated.                                          *)
(***************************************************************************)

\* A new client, with a new queue.  Packets an earlier queue has lost stay lost.
CreatePushClient ==
    /\ Show("absent", "created")
    /\ ~mapped
    /\ mapped' = TRUE
    /\ allocated' = TRUE
    /\ workFlag' = 0
    /\ joinable' = FALSE
    /\ rtmp' = "null"
    /\ stage' = "none"
    /\ abortFlag' = 1
    /\ alive' = TRUE
    /\ firstNode' = NULL
    /\ lastNode' = NULL
    /\ numNode' = 0
    /\ owner' = NULL
    /\ waiting' = {}
    /\ late' = {}
    /\ UNCHANGED <<next, pc, after, arg, loc, history, encoderVars>>

\* pthread_create may fail: its result is only logged.
StartPush ==
    /\ Show("created", "started")
    /\ mapped
    /\ workFlag' = 0
    /\ \/ joinable' = TRUE /\ stage' = "connect"
       \/ UNCHANGED <<joinable, stage>>
    /\ UNCHANGED <<queueVars, mapped, allocated, rtmp, encoderVars, late>>

\* The codec may fail to start: then there is no output thread.
StartEncoder ==
    /\ Show("started", "streaming")
    /\ runFlag' = TRUE
    /\ output' \in {"loop", "none"}
    /\ UNCHANGED <<queueVars, clientVars, late>>

-----------------------------------------------------------------------------
(***************************************************************************)
(* The UI thread: surfaceDestroyed.  The encoder is stopped and joined,    *)
(* then stopPush stops the client, destroys it (which stops it again) and  *)
(* forgets it.                                                             *)
(***************************************************************************)

StopEncoder ==
    /\ Show("streaming", "joinEncoder")
    /\ runFlag' = FALSE
    /\ UNCHANGED <<queueVars, clientVars, output, late>>

\* Slip: stop does not wait for the output thread.
EncoderGoneUnchecked == TRUE

EncoderGone == output = "none"

JoinEncoder ==
    /\ Show("joinEncoder", "stopPush")
    /\ EncoderGone
    /\ UNCHANGED <<queueVars, clientVars, encoderVars, late>>

\* The beginning of stop of the RTMP client, called by stopPush and by destroy.
StopClient ==
    /\ \/ Show("stopPush", "stopClear")
       \/ Show("destroy", "destroyClear")
    /\ mapped
    /\ workFlag' = 0
    /\ ClearEnter(ui)
    /\ UNCHANGED <<mapped, allocated, joinable, rtmp, stage, encoderVars, late>>

ClearReturns ==
    /\ pc[ui] = "idle"
    /\ \/ Show("stopClear", "stopJoin")
       \/ Show("destroyClear", "destroyQueue") /\ ~joinable
    /\ UNCHANGED <<queueVars, clientVars, encoderVars, late>>

\* Slip: the thread is not waited for.
WorkerGoneUnchecked == TRUE

WorkerGone == ~joinable \/ stage = "done"

JoinWorker ==
    /\ Show("stopJoin", "destroy")
    /\ WorkerGone
    /\ joinable' = FALSE
    /\ UNCHANGED <<queueVars, mapped, allocated, workFlag, rtmp, stage, encoderVars, late>>

DestroyQueue ==
    /\ Show("destroyQueue", "free")
    /\ DestroyEnter(ui)
    /\ UNCHANGED <<clientVars, encoderVars, late>>

\* free of the client, and erase of the map entry.
FreeClient ==
    /\ Show("free", "absent")
    /\ pc[ui] = "idle"
    /\ allocated' = FALSE
    /\ mapped' = FALSE
    /\ UNCHANGED <<queueVars, workFlag, joinable, rtmp, stage, encoderVars, late>>

-----------------------------------------------------------------------------
InQueue(t) ==
    /\ QueueStep(t)
    /\ late' = IF StopSignalled /\ waiting' \ waiting # {}
                 THEN late \cup {"wait"} ELSE late
    /\ UNCHANGED <<clientVars, encoderVars, view>>

EncoderStep ==
    \/ NextFrame
    \/ \E p \in Packets : SendVideoData(p) \/ RefuseVideoData(p)

WorkerStep ==
    \/ ConnectFails \/ ConnectSucceeds \/ TakePacket \/ LeaveLoop \/ TakeReturns
    \/ \E ok \in BOOLEAN : SendPacket(ok)
    \/ ReleaseRtmpClient

StartStep == CreatePushClient \/ StartPush \/ StartEncoder

StopStep ==
    \/ JoinEncoder \/ StopClient \/ ClearReturns \/ JoinWorker
    \/ DestroyQueue \/ FreeClient

PushNext ==
    \/ EncoderStep
    \/ WorkerStep
    \/ StartStep
    \/ StopEncoder
    \/ StopStep
    \/ \E t \in Threads : InQueue(t)
    \/ SpuriousWakeup(worker) /\ UNCHANGED <<clientVars, encoderVars, view, late>>

PushSpec == PushInit /\ [][PushNext]_pushVars

\* Threads run: the worker, the UI thread once it has begun to stop, and
\* whoever is inside the queue, where a thread that waits for a mutex others
\* lock and unlock again and again gets it at last.  Connecting and sending end
\* with a result.  No wakeup without a signal is promised.
PushFairness ==
    /\ WF_pushVars(WorkerStep)
    /\ WF_pushVars(EncoderStep)
    /\ WF_pushVars(StopStep)
    /\ \A t \in Threads : SF_pushVars(InQueue(t))

PushFairSpec == PushSpec /\ PushFairness

-----------------------------------------------------------------------------
(***************************************************************************)
(* Properties.                                                             *)
(***************************************************************************)

\* Every variable of the session keeps its type.
PushTypeOK ==
    /\ TypeOK
    /\ {mapped, allocated, joinable, runFlag} \subseteq BOOLEAN
    /\ workFlag \in {0, 1}
    /\ rtmp \in {"null", "open", "broken"}
    /\ stage \in Stages
    /\ output \in {"none", "loop", "frame"}
    /\ view \in Views
    /\ late \subseteq {"connect", "wait"}

\* The order of surfaceDestroyed protects the client: while the output thread
\* exists, or is inside the queue, the map entry, the client and its queue
\* exist.  Nothing in the manager itself, which has no lock, ensures this.
SenderHasClient ==
    output # "none" \/ pc[encoder] # "idle" => mapped /\ allocated /\ alive

\* The worker never runs on freed memory, and what stop leaves behind is
\* nothing: the connection is closed, the flag is down, and neither the queue
\* nor the worker holds a packet.
StopLeavesNothing ==
    /\ stage \notin {"none", "done"} => allocated /\ alive /\ joinable
    /\ view \in {"destroy", "destroyClear", "destroyQueue", "free", "absent"} =>
         /\ stage \in {"none", "done"}
         /\ rtmp = "null"
         /\ workFlag = 0
         /\ firstNode = NULL /\ numNode = 0
         /\ Taken = {}

\* A packet is sent only over a connection that is open and on which no send
\* has failed, one packet at a time, and the flag that lets the encoder add
\* packets is up only while that is so.
WorkingMeansConnected ==
    /\ stage = "send" => rtmp = "open" /\ Cardinality(Taken) = 1
    /\ workFlag = 1 => rtmp = "open"
    /\ stage \in {"none", "connect", "done"} => rtmp = "null"

\* The connection was established after stop had cleared workFlag: the flag is
\* set again and the worker does not learn that it must end.
StopOverwritten ==
    view = "stopJoin" /\ "connect" \in late /\ workFlag = 1

\* The worker had tested workFlag before stop cleared it, and began to wait
\* after clear had signalled.
WakeupMissed ==
    view = "stopJoin" /\ "wait" \in late /\ worker \in waiting

\* surfaceDestroyed returns, except in three situations in which it can wait
\* for ever: the stop request was overwritten, its signal came too early, or
\* the encoder is stuck in the overflow branch of add.
StopIsResolved ==
    view = "joinEncoder" ~>
        \/ view = "absent"
        \/ StopOverwritten
        \/ WakeupMissed
        \/ Jammed(encoder)

\* A worker that has gone, because it could not connect, because a send failed
\* or because it was stopped, gets no more packets: they are refused instead
\* of filling a queue nobody empties.
DeadWorkerGetsNothing ==
    [][stage = "done" /\ pc[encoder] = "idle" => pc'[encoder] = "idle"]_pushVars

\* cloudvoice_rtmp_client.c:390-392: a join that has started is reported as
\* finished.
JoinFinishes == view = "stopJoin" ~> view = "destroy"
=============================================================================
