----------------------------- MODULE PullStream -----------------------------
(***************************************************************************)
(* One playing session, from surfaceCreated to surfaceDestroyed of         *)
(* VideoDisplayView: the CloudVoicePullStreamPlayer and the pipeline it    *)
(* owns.  The RTMP client's thread (rtmp) reads packets and adds them to   *)
(* the codec's queue, the codec's read thread (read) feeds them to         *)
(* MediaCodec, its work thread (work) adds the decoded frames to the       *)
(* display's queue, and the display's thread (display) draws them.  The UI *)
(* thread builds all this, stops it and frees it; view is its place.       *)
(*                                                                         *)
(* The two queues are LossyQueues, which is what BlockingQueue implements. *)
(* The RTMP client's own queue is never used when pulling and is left out. *)
(* Packets are numbered in the order in which the network delivers them,   *)
(* and a decoded frame keeps the number of its packet.                     *)
(***************************************************************************)
EXTENDS Naturals, Sequences

CONSTANTS
    MaxPackets,     \* bound: the number of video packets the network delivers
    MaxCacheFrame,  \* MAX_CACHE_FRAME of the queues
    NULL            \* the null pointer

ASSUME PullAssumption ==
    /\ {MaxPackets, MaxCacheFrame} \subseteq Nat
    /\ NULL \notin Nat

Packets == 1 .. MaxPackets
Workers == {"rtmp", "read", "work", "display"}
Parts == {"rtmpClient", "decodec", "display"}

VARIABLES
    cSlot, cSpare, cCount, cSleepers, cDelivered, cJammed, cOpen,  \* codec
    dSlot, dSpare, dCount, dSleepers, dDelivered, dJammed, dOpen,  \* display
    at,         \* where each thread is in its loop
    id,         \* each thread's id field: "unset" (-1), "set", or "garbage"
    hold,       \* the packet or frame each thread has in hand
    workFlag,   \* the workFlag of each part
    frames,     \* the packets inside MediaCodec, in order
    received,   \* the number of packets the network has delivered
    lastDrawn,  \* history: the last frame drawn
    late,       \* history: what a thread did too late to notice a stop
    view        \* where the UI thread is

codecQueue == <<cSlot, cSpare, cCount, cSleepers, cDelivered, cJammed, cOpen>>
displayQueue == <<dSlot, dSpare, dCount, dSleepers, dDelivered, dJammed, dOpen>>
pipeVars == <<at, id, hold, workFlag, frames, received, lastDrawn, late>>
pullVars == <<codecQueue, displayQueue, pipeVars, view>>

CQ == INSTANCE LossyQueue WITH
        Threads <- {"read"},
        slot <- cSlot, spare <- cSpare, count <- cCount, sleepers <- cSleepers,
        delivered <- cDelivered, jammed <- cJammed, open <- cOpen
DQ == INSTANCE LossyQueue WITH
        Threads <- {"display"},
        slot <- dSlot, spare <- dSpare, count <- dCount, sleepers <- dSleepers,
        delivered <- dDelivered, jammed <- dJammed, open <- dOpen

Labels == {"none", "connect", "loop", "fetch", "asleep", "use", "signal",
           "jammed", "release", "done"}

\* cloudVoiceCreatePullStreamPlayer has run: readThreadId is never initialised.
PullInit ==
    /\ CQ!LQInit
    /\ DQ!LQInit
    /\ at = [t \in Workers |-> "none"]
    /\ id \in [Workers -> {"unset", "garbage"}]
    /\ \A t \in Workers \ {"read"} : id[t] = "unset"
    /\ hold = [t \in Workers |-> NULL]
    /\ workFlag = [part \in Parts |-> 0]
    /\ frames = << >>
    /\ received = 0
    /\ lastDrawn = 0
    /\ late = {}
    /\ view = "created"

Move(t, from, to) ==
    /\ at[t] = from
    /\ at' = [at EXCEPT ![t] = to]

\* The thread proceeds with p in hand.
MoveWith(t, from, to, p) ==
    /\ Move(t, from, to)
    /\ hold' = [hold EXCEPT ![t] = p]

-----------------------------------------------------------------------------
(***************************************************************************)
(* The RTMP client's thread: initRtmpClient, pullLoop, releaseRtmpClient,  *)
(* with RtmpMediaDataCallback and the codec's addData.                     *)
(***************************************************************************)

StopRequested == view = "rtmpJoin"

Connect(ok) ==
    /\ Move("rtmp", "connect", "loop")
    /\ workFlag' = IF ok THEN [workFlag EXCEPT !["rtmpClient"] = 1] ELSE workFlag
    /\ late' = IF ok /\ StopRequested THEN late \cup {"connect"} ELSE late
    /\ UNCHANGED <<codecQueue, displayQueue, id, hold, frames, received,
                   lastDrawn, view>>

TestRtmpFlag ==
    /\ Move("rtmp", "loop",
            IF workFlag["rtmpClient"] = 1 THEN "fetch" ELSE "release")
    /\ UNCHANGED <<codecQueue, displayQueue, id, hold, workFlag, frames,
                   received, lastDrawn, late, view>>

ReadVideo ==
    /\ received < MaxPackets
    /\ MoveWith("rtmp", "fetch", "use", received + 1)
    /\ received' = received + 1
    /\ UNCHANGED <<codecQueue, displayQueue, id, workFlag, frames, lastDrawn,
                   late, view>>

\* An incomplete packet or one that is not video goes back to the loop, an
\* error leaves it.
ReadOther(ok) ==
    /\ Move("rtmp", "fetch", IF ok THEN "loop" ELSE "release")
    /\ UNCHANGED <<codecQueue, displayQueue, id, hold, workFlag, frames,
                   received, lastDrawn, late, view>>

\* Slip: the signal is forgotten.
WakeReadForgotten == UNCHANGED codecQueue

WakeRead ==
    IF cSleepers = {} THEN UNCHANGED codecQueue ELSE CQ!Wake("read")

\* A packet is destroyed when the codec has been stopped or never started.
AddToCodec ==
    /\ IF workFlag["decodec"] = 1
         THEN \/ /\ CQ!Put(hold["rtmp"]) \/ CQ!Lose
                 /\ MoveWith("rtmp", "use", "signal", NULL)
              \/ CQ!Overflow /\ Move("rtmp", "use", "jammed") /\ UNCHANGED hold
         ELSE /\ MoveWith("rtmp", "use", "loop", NULL)
              /\ UNCHANGED codecQueue
    /\ UNCHANGED <<displayQueue, id, workFlag, frames, received, lastDrawn,
                   late, view>>

SignalCodec ==
    /\ Move("rtmp", "signal", "loop")
    /\ WakeRead
    /\ UNCHANGED <<displayQueue, id, hold, workFlag, frames, received,
                   lastDrawn, late, view>>

ReleaseRtmp ==
    /\ Move("rtmp", "release", "done")
    /\ workFlag' = [workFlag EXCEPT !["rtmpClient"] = 0]
    /\ UNCHANGED <<codecQueue, displayQueue, id, hold, frames, received,
                   lastDrawn, late, view>>

RtmpStep ==
    \/ \E ok \in BOOLEAN : Connect(ok) \/ ReadOther(ok)
    \/ TestRtmpFlag \/ ReadVideo \/ AddToCodec \/ SignalCodec \/ ReleaseRtmp

-----------------------------------------------------------------------------
(***************************************************************************)
(* The codec's read thread: readThreadFunc.                                *)
(***************************************************************************)

TestReadFlag ==
    /\ Move("read", "loop", IF workFlag["decodec"] # 0 THEN "fetch" ELSE "done")
    /\ UNCHANGED <<codecQueue, displayQueue, id, hold, workFlag, frames,
                   received, lastDrawn, late, view>>

\* clear of the codec's queue has signalled.
CodecSignalled == view \in {"codecClear", "workJoin", "readJoin"}

TakeFromCodec ==
    /\ \/ CQ!Get /\ MoveWith("read", "fetch", "use", cSlot) /\ UNCHANGED late
       \/ CQ!Miss /\ Move("read", "fetch", "loop") /\ UNCHANGED <<hold, late>>
       \/ /\ CQ!Sleep("read")
          /\ Move("read", "fetch", "asleep")
          /\ late' = IF CodecSignalled THEN late \cup {"read"} ELSE late
          /\ UNCHANGED hold
    /\ UNCHANGED <<displayQueue, id, workFlag, frames, received, lastDrawn, view>>

\* take returns NULL after a wait.
WokenRead ==
    /\ "read" \notin cSleepers
    /\ ~cJammed
    /\ Move("read", "asleep", "loop")
    /\ UNCHANGED <<codecQueue, displayQueue, id, hold, workFlag, frames,
                   received, lastDrawn, late, view>>

\* MediaCodec has no input buffer within 50 microseconds: the packet is skipped.
FeedCodec(accepted) ==
    /\ MoveWith("read", "use", "loop", NULL)
    /\ frames' = IF accepted THEN Append(frames, hold["read"]) ELSE frames
    /\ UNCHANGED <<codecQueue, displayQueue, id, workFlag, received, lastDrawn,
                   late, view>>

ReadStep ==
    \/ TestReadFlag \/ TakeFromCodec \/ WokenRead
    \/ \E accepted \in BOOLEAN : FeedCodec(accepted)

-----------------------------------------------------------------------------
(***************************************************************************)
(* The codec's work thread: workThreadFunc, DecodeMediaDataCallback and    *)
(* the display's addData.                                                  *)
(***************************************************************************)

TestWorkFlag ==
    /\ Move("work", "loop", IF workFlag["decodec"] # 0 THEN "fetch" ELSE "done")
    /\ UNCHANGED <<codecQueue, displayQueue, id, hold, workFlag, frames,
                   received, lastDrawn, late, view>>

DecodeFrame ==
    /\ IF frames = << >>
         THEN Move("work", "fetch", "loop") /\ UNCHANGED <<hold, frames>>
         ELSE /\ MoveWith("work", "fetch", "use", Head(frames))
              /\ frames' = Tail(frames)
    /\ UNCHANGED <<codecQueue, displayQueue, id, workFlag, received, lastDrawn,
                   late, view>>

WakeDisplay ==
    IF dSleepers = {} THEN UNCHANGED displayQueue ELSE DQ!Wake("display")

AddToDisplay ==
    /\ IF workFlag["display"] = 1
         THEN \/ /\ DQ!Put(hold["work"]) \/ DQ!Lose
                 /\ MoveWith("work", "use", "signal", NULL)
              \/ DQ!Overflow /\ Move("work", "use", "jammed") /\ UNCHANGED hold
         ELSE /\ MoveWith("work", "use", "loop", NULL)
              /\ UNCHANGED displayQueue
    /\ UNCHANGED <<codecQueue, id, workFlag, frames, received, lastDrawn, late,
                   view>>

SignalDisplay ==
    /\ Move("work", "signal", "loop")
    /\ WakeDisplay
    /\ UNCHANGED <<codecQueue, id, hold, workFlag, frames, received, lastDrawn,
                   late, view>>

WorkStep == TestWorkFlag \/ DecodeFrame \/ AddToDisplay \/ SignalDisplay

-----------------------------------------------------------------------------
(***************************************************************************)
(* The display's thread: workThreadFunc of the display.  It looks at no    *)
(* error of EGL, so setting EGL up is not a step here.                     *)
(***************************************************************************)

TestDisplayFlag ==
    /\ Move("display", "loop",
            IF workFlag["display"] # 0 THEN "fetch" ELSE "done")
    /\ UNCHANGED <<codecQueue, displayQueue, id, hold, workFlag, frames,
                   received, lastDrawn, late, view>>

DisplaySignalled == view \in {"displayClear", "displayJoin"}

TakeFromDisplay ==
    /\ \/ DQ!Get /\ MoveWith("display", "fetch", "use", dSlot) /\ UNCHANGED late
       \/ DQ!Miss /\ Move("display", "fetch", "loop") /\ UNCHANGED <<hold, late>>
       \/ /\ DQ!Sleep("display")
          /\ Move("display", "fetch", "asleep")
          /\ late' = IF DisplaySignalled THEN late \cup {"display"} ELSE late
          /\ UNCHANGED hold
    /\ UNCHANGED <<codecQueue, id, workFlag, frames, received, lastDrawn, view>>

WokenDisplay ==
    /\ "display" \notin dSleepers
    /\ ~dJammed
    /\ Move("display", "asleep", "loop")
    /\ UNCHANGED <<codecQueue, displayQueue, id, hold, workFlag, frames,
                   received, lastDrawn, late, view>>

Draw ==
    /\ MoveWith("display", "use", "loop", NULL)
    /\ lastDrawn' = hold["display"]
    /\ UNCHANGED <<codecQueue, displayQueue, id, workFlag, frames, received,
                   late, view>>

DisplayStep == TestDisplayFlag \/ TakeFromDisplay \/ WokenDisplay \/ Draw

-----------------------------------------------------------------------------
(***************************************************************************)
(* The UI thread: start of the player starts the display, the codec and    *)
(* the RTMP client, in this order.                                         *)
(***************************************************************************)

Show(from, to) ==
    /\ view = from
    /\ view' = to

Spawn(ts) ==
    /\ at' = [t \in Workers |-> IF t \notin ts THEN at[t]
                                 ELSE IF t = "rtmp" THEN "connect" ELSE "loop"]
    /\ id' = [t \in Workers |-> IF t \in ts THEN "set" ELSE id[t]]

StartDisplay ==
    /\ Show("created", "displayStarted")
    /\ workFlag' = [workFlag EXCEPT !["display"] = 1]
    /\ Spawn({"display"})
    /\ UNCHANGED <<codecQueue, displayQueue, hold, frames, received, lastDrawn,
                   late>>

\* workFlag is 1 even if MediaCodec cannot be started: then there are no threads.
StartCodec ==
    /\ Show("displayStarted", "codecStarted")
    /\ workFlag' = [workFlag EXCEPT !["decodec"] = 1]
    /\ \E started \in BOOLEAN : Spawn(IF started THEN {"read", "work"} ELSE {})
    /\ UNCHANGED <<codecQueue, displayQueue, hold, frames, received, lastDrawn,
                   late>>

StartRtmp ==
    /\ Show("codecStarted", "playing")
    /\ workFlag' = [workFlag EXCEPT !["rtmpClient"] = 0]
    /\ Spawn({"rtmp"})
    /\ UNCHANGED <<codecQueue, displayQueue, hold, frames, received, lastDrawn,
                   late>>

StartStep == StartDisplay \/ StartCodec \/ StartRtmp

-----------------------------------------------------------------------------
(***************************************************************************)
(* The UI thread: stopPlay stops the RTMP client, the codec and the        *)
(* display, and then destroys them in the same order.  Each stop clears a  *)
(* flag, clears a queue and joins; the second stop, in destroy, finds      *)
(* nothing left to do.                                                     *)
(***************************************************************************)

\* The stop of part begins: its flag is cleared.
Lower(part, from, to) ==
    /\ Show(from, to)
    /\ workFlag' = [workFlag EXCEPT ![part] = 0]
    /\ UNCHANGED <<codecQueue, displayQueue, at, id, hold, frames, received,
                   lastDrawn, late>>

\* Slip: the thread is not waited for.
GoneUnchecked(t) == TRUE

Gone(t) == at[t] = "done"

\* pthread_join, which returns at once when the id names no thread.
Join(t, from, to) ==
    /\ Show(from, to)
    /\ id[t] = "set" => Gone(t)
    /\ id[t] # "garbage"
    /\ id' = [id EXCEPT ![t] = "unset"]
    /\ UNCHANGED <<codecQueue, displayQueue, at, hold, workFlag, frames,
                   received, lastDrawn, late>>

\* Joining an uninitialised id is undefined: the C library reports that there
\* is no such thread, or aborts the process.
JoinGarbage ==
    /\ id["read"] = "garbage"
    /\ Show("readJoin", "displayStop") \/ Show("readJoin", "aborted")
    /\ id' = [id EXCEPT !["read"] = "unset"]
    /\ UNCHANGED <<codecQueue, displayQueue, at, hold, workFlag, frames,
                   received, lastDrawn, late>>

SignalForClear ==
    /\ \/ Show("codecSignal", "codecClear") /\ WakeRead /\ UNCHANGED displayQueue
       \/ Show("displaySignal", "displayClear") /\ WakeDisplay
          /\ UNCHANGED codecQueue
    /\ UNCHANGED pipeVars

ClearQueue ==
    /\ \/ Show("codecClear", "workJoin") /\ CQ!Empty /\ UNCHANGED displayQueue
       \/ Show("displayClear", "displayJoin") /\ DQ!Empty /\ UNCHANGED codecQueue
    /\ UNCHANGED pipeVars

\* MediaCodec is stopped when both codec threads have been joined.
ReleaseMediaCodec ==
    /\ Show("codecRelease", "displayStop")
    /\ frames' = << >>
    /\ UNCHANGED <<codecQueue, displayQueue, at, id, hold, workFlag, received,
                   lastDrawn, late>>

Destroy ==
    /\ \/ Show("destroyCodec", "destroyDisplay") /\ CQ!Close
          /\ UNCHANGED displayQueue
       \/ Show("destroyDisplay", "absent") /\ DQ!Close /\ UNCHANGED codecQueue
    /\ UNCHANGED pipeVars

StopStep ==
    \/ Lower("rtmpClient", "stopPlay", "rtmpJoin")
    \/ Join("rtmp", "rtmpJoin", "codecStop")
    \/ Lower("decodec", "codecStop", "codecSignal")
    \/ Join("work", "workJoin", "readJoin")
    \/ Join("read", "readJoin", "codecRelease")
    \/ JoinGarbage
    \/ ReleaseMediaCodec
    \/ Lower("display", "displayStop", "displaySignal")
    \/ Join("display", "displayJoin", "destroyCodec")
    \/ SignalForClear \/ ClearQueue \/ Destroy

SurfaceDestroyed ==
    /\ Show("playing", "stopPlay")
    /\ UNCHANGED <<codecQueue, displayQueue, pipeVars>>

SpuriousWakeup ==
    /\ \/ CQ!Wake("read") /\ UNCHANGED displayQueue
       \/ DQ!Wake("display") /\ UNCHANGED codecQueue
    /\ UNCHANGED <<pipeVars, view>>

-----------------------------------------------------------------------------
PullNext ==
    \/ view # "aborted" /\ (RtmpStep \/ ReadStep \/ WorkStep \/ DisplayStep)
    \/ StartStep
    \/ SurfaceDestroyed
    \/ StopStep
    \/ SpuriousWakeup

PullSpec == PullInit /\ [][PullNext]_pullVars

\* Every thread runs, and the UI thread once it has begun to stop.  Connecting
\* and reading end with a result: librtmp gives up after its timeout.
PullFairness ==
    /\ WF_pullVars(RtmpStep)
    /\ WF_pullVars(ReadStep)
    /\ WF_pullVars(WorkStep)
    /\ WF_pullVars(DisplayStep)
    /\ WF_pullVars(StopStep)

PullFairSpec == PullSpec /\ PullFairness

-----------------------------------------------------------------------------
(***************************************************************************)
(* Properties.                                                             *)
(***************************************************************************)

Alive(t) == at[t] \notin {"none", "done"}

\* Every variable keeps its type, and each queue's count stays within one of
\* the bound.
PullTypeOK ==
    /\ {cCount, dCount} \subseteq 0 .. MaxCacheFrame + 1
    /\ {cJammed, dJammed, cOpen, dOpen} \subseteq BOOLEAN
    /\ {cSlot, cSpare, dSlot, dSpare} \subseteq Packets \cup {NULL}
    /\ at \in [Workers -> Labels]
    /\ id \in [Workers -> {"unset", "set", "garbage"}]
    /\ hold \in [Workers -> Packets \cup {NULL}]
    /\ workFlag \in [Parts -> {0, 1}]
    /\ frames \in Seq(Packets)
    /\ received \in 0 .. MaxPackets
    /\ late \subseteq {"connect", "read", "display"}

\* A thread that hands packets on finds the part it hands them to: the parts
\* are stopped from the source of the stream to its end, each after the threads
\* that call it have been joined.
ReceiverExists ==
    /\ Alive("rtmp") \/ Alive("read") => cOpen
    /\ Alive("work") \/ Alive("display") => dOpen
    /\ view \in {"codecStop", "codecSignal", "codecClear", "workJoin", "readJoin",
                 "displayStop"} => ~Alive("rtmp")
    /\ view \in {"displayStop", "displaySignal", "displayClear", "displayJoin"} =>
         ~Alive("work") /\ ~Alive("read")

\* No packet is in two places at once: what the threads hold, what take can
\* return, and what MediaCodec decodes are different packets, so none is
\* destroyed twice.
OnePlaceEach ==
    LET places == <<hold["rtmp"], cSlot, hold["read"], hold["work"],
                    dSlot, hold["display"]>> \o frames
    IN  \A i, j \in DOMAIN places :
            places[i] = places[j] /\ places[i] # NULL => i = j

\* Frames are drawn in the order in which the network delivered them, whatever
\* the two queues and MediaCodec have dropped on the way.
DrawnInOrder ==
    [][lastDrawn' >= lastDrawn /\
       (at["display"] = "use" /\ at'["display"] = "loop" => lastDrawn' > lastDrawn)
      ]_pullVars

\* From the network to the screen the player is a LossyPipe.  The spare packets
\* of its queues are lost already.
Pipe == INSTANCE LossyPipe WITH
        entered <- received,
        inside <- {frames[k] : k \in 1 .. Len(frames)} \cup
                    ({hold["rtmp"], cSlot, hold["read"], hold["work"], dSlot} \ {NULL}),
        leaving <- IF hold["display"] = NULL THEN 0 ELSE hold["display"]

PullIsLossyPipe == Pipe!LPSpec

\* The player is freed with nothing running and nothing left in its queues.
FreedPlayerIsQuiet ==
    view = "absent" =>
        /\ \A t \in Workers : ~Alive(t) /\ hold[t] = NULL
        /\ \A part \in Parts : workFlag[part] = 0
        /\ frames = << >>
        /\ ~cOpen /\ ~dOpen

\* The RTMP client was connected after stop had cleared its flag.
StopOverwritten ==
    view = "rtmpJoin" /\ "connect" \in late /\ workFlag["rtmpClient"] = 1

\* A thread began to wait after clear had signalled.
WakeupMissed ==
    \/ view = "readJoin" /\ "read" \in late /\ "read" \in cSleepers
    \/ view = "displayJoin" /\ "display" \in late /\ "display" \in dSleepers

\* stopPlay returns, unless the stop request was overwritten, its signal came
\* too early, a queue had overflowed, or the codec had not started and the
\* process is aborted for it.
StopIsResolved ==
    view = "stopPlay" ~>
        \/ view \in {"absent", "aborted"}
        \/ StopOverwritten
        \/ WakeupMissed
        \/ cJammed \/ dJammed
=============================================================================
