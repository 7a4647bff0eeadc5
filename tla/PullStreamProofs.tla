-------------------------- MODULE PullStreamProofs --------------------------
(***************************************************************************)
(* Proofs about PullStream for any number of packets and any               *)
(* MaxCacheFrame.  The inductive invariant PullInv says in which views     *)
(* each thread can exist (PhaseInv), what the flags and MediaCodec hold    *)
(* then (FlagInv), and that packets are numbered in falling order along    *)
(* the pipeline (ChainInv).                                                *)
(***************************************************************************)
EXTENDS PullStream, TLAPS

(***************************************************************************)
(* The inductive invariant, in parts.                                      *)
(***************************************************************************)

\* A thread has a packet in hand exactly when it is about to hand it on.
HoldInv ==
    \A t \in Workers :
        /\ at[t] = "use" => hold[t] # NULL
        /\ hold[t] # NULL => at[t] \in {"use", "jammed"}

CodecViews == {"codecStarted", "playing", "stopPlay", "rtmpJoin", "codecStop",
               "codecSignal", "codecClear", "workJoin"}

\* The threads end in the order of the pipeline, and the queues after them.
PhaseInv ==
    /\ \A t \in Workers : Alive(t) => id[t] = "set"
    /\ id["read"] = "set" => view \in CodecViews \cup {"readJoin"}
    /\ Alive("rtmp") => view \in {"playing", "stopPlay", "rtmpJoin"}
    /\ Alive("work") => view \in CodecViews
    /\ Alive("display") =>
         view \notin {"created", "destroyCodec", "destroyDisplay", "absent"}
    /\ cOpen <=> view \notin {"destroyDisplay", "absent"}
    /\ dOpen <=> view # "absent"

FlagInv ==
    /\ ~Alive("rtmp") => workFlag["rtmpClient"] = 0
    /\ view \notin {"displayStarted", "codecStarted", "playing", "stopPlay",
                    "rtmpJoin", "codecStop", "created"} => workFlag["decodec"] = 0
    /\ view \in {"displaySignal", "displayClear", "displayJoin", "destroyCodec",
                 "destroyDisplay", "absent"} => workFlag["display"] = 0
    /\ frames # << >> => id["read"] = "set" \/ view = "codecRelease"

\* x is a younger packet than y, if both are packets.
Above(x, y) == x # NULL /\ y # NULL => y < x

\* What comes before MediaCodec, and what comes behind it.
Before == {hold["rtmp"], cSlot, hold["read"]} \ {NULL}
Behind == {hold["work"], dSlot, hold["display"]} \ {NULL}
Coded == {frames[k] : k \in 1 .. Len(frames)}

ChainInv ==
    /\ lastDrawn \in Nat /\ lastDrawn <= received
    /\ \A p \in Before \cup Behind \cup Coded : lastDrawn < p /\ p <= received
    /\ Above(hold["rtmp"], cSlot) /\ Above(hold["rtmp"], hold["read"])
    /\ Above(cSlot, hold["read"])
    /\ Above(hold["work"], dSlot) /\ Above(hold["work"], hold["display"])
    /\ Above(dSlot, hold["display"])
    /\ \A p \in Before : \A q \in Coded \cup Behind : q < p
    /\ \A p \in Coded : \A q \in Behind : q < p
    /\ \A k, l \in 1 .. Len(frames) : k < l => frames[k] < frames[l]

PullInv == PullTypeOK /\ HoldInv /\ PhaseInv /\ FlagInv /\ ChainInv

-----------------------------------------------------------------------------

\* PullTypeOK in two parts: the queues, and the threads with what they share.
QueueTypeOK ==
    /\ {cCount, dCount} \subseteq 0 .. MaxCacheFrame + 1
    /\ {cJammed, dJammed, cOpen, dOpen} \subseteq BOOLEAN
    /\ {cSlot, cSpare, dSlot, dSpare} \subseteq Packets \cup {NULL}
PipeTypeOK ==
    /\ at \in [Workers -> Labels]
    /\ id \in [Workers -> {"unset", "set", "garbage"}]
    /\ hold \in [Workers -> Packets \cup {NULL}]
    /\ workFlag \in [Parts -> {0, 1}]
    /\ frames \in Seq(Packets)
    /\ received \in 0 .. MaxPackets
    /\ late \subseteq {"connect", "read", "display"}

\* The RTMP client's thread keeps the types, and what it holds in step.
LEMMA RtmpStepKeepsTypes ==
  ASSUME PullTypeOK, HoldInv, RtmpStep
  PROVE  PullTypeOK' /\ HoldInv'
<1> USE PullAssumption DEF QueueTypeOK, PipeTypeOK, Move, MoveWith, codecQueue,
        displayQueue, Workers
<1>0. QueueTypeOK /\ PipeTypeOK /\ NULL \notin Packets
  BY DEF PullTypeOK, Packets
<1>1. ASSUME NEW ok \in BOOLEAN, Connect(ok)
      PROVE  QueueTypeOK' /\ PipeTypeOK' /\ HoldInv'
  <2>1. QueueTypeOK'
    BY <1>0, <1>1 DEF Connect, HoldInv
  <2>2. PipeTypeOK'
    BY <1>0, <1>1 DEF Connect, HoldInv, Labels, Parts
  <2>3. HoldInv'
    BY <1>0, <1>1 DEF Connect, HoldInv
  <2>4. QED
    BY <2>1, <2>2, <2>3
<1>2. ASSUME NEW ok \in BOOLEAN, ReadOther(ok)
      PROVE  QueueTypeOK' /\ PipeTypeOK' /\ HoldInv'
  <2>1. QueueTypeOK'
    BY <1>0, <1>2 DEF ReadOther, HoldInv
  <2>2. PipeTypeOK'
    BY <1>0, <1>2 DEF ReadOther, HoldInv, Labels, Parts
  <2>3. HoldInv'
    BY <1>0, <1>2 DEF ReadOther, HoldInv
  <2>4. QED
    BY <2>1, <2>2, <2>3
<1>3. ASSUME TestRtmpFlag
      PROVE  QueueTypeOK' /\ PipeTypeOK' /\ HoldInv'
  <2>1. QueueTypeOK'
    BY <1>0, <1>3 DEF TestRtmpFlag, HoldInv
  <2>2. PipeTypeOK'
    BY <1>0, <1>3 DEF TestRtmpFlag, HoldInv, Labels, Parts
  <2>3. HoldInv'
    BY <1>0, <1>3 DEF TestRtmpFlag, HoldInv
  <2>4. QED
    BY <2>1, <2>2, <2>3
<1>4. ASSUME ReadVideo
      PROVE  QueueTypeOK' /\ PipeTypeOK' /\ HoldInv'
  <2>1. QueueTypeOK'
    BY <1>0, <1>4 DEF ReadVideo, HoldInv
  <2>2. PipeTypeOK'
    BY <1>0, <1>4 DEF ReadVideo, HoldInv, Labels, Parts, Packets
  <2>3. HoldInv'
    BY <1>0, <1>4 DEF ReadVideo, HoldInv, Packets
  <2>4. QED
    BY <2>1, <2>2, <2>3
<1>5. ASSUME AddToCodec
      PROVE  QueueTypeOK' /\ PipeTypeOK' /\ HoldInv'
  <2>1. QueueTypeOK'
    <3>1. at["rtmp"] = "use" /\ hold["rtmp"] \in Packets
      BY <1>0, <1>5 DEF AddToCodec, HoldInv
    <3>2. UNCHANGED <<dSlot, dSpare, dCount, dJammed, dOpen>>
      BY <1>5 DEF AddToCodec
    <3>3. /\ cSlot' \in {cSlot, hold["rtmp"]}
          /\ cSpare' \in {cSpare, hold["rtmp"], NULL}
      BY <1>5 DEF AddToCodec, CQ!Put, CQ!Lose,
         CQ!Overflow, CQ!lqVars
    <3>4. \/ cCount' = cCount
          \/ cCount <= MaxCacheFrame /\ cCount' = cCount + 1
      BY <1>5 DEF AddToCodec, CQ!Put, CQ!Lose,
         CQ!Overflow, CQ!Room, CQ!lqVars
    <3>5. cJammed' \in BOOLEAN /\ cOpen' \in BOOLEAN
      BY <1>0, <1>5 DEF AddToCodec, CQ!Put, CQ!Lose,
         CQ!Overflow, CQ!lqVars
    <3>6. {cCount, dCount}' \subseteq 0 .. MaxCacheFrame + 1
      BY <1>0, <3>2, <3>4
    <3>7. {cSlot, cSpare, dSlot, dSpare}' \subseteq Packets \cup {NULL}
      BY <1>0, <3>1, <3>2, <3>3
    <3>8. {cJammed, dJammed, cOpen, dOpen}' \subseteq BOOLEAN
      BY <1>0, <3>2, <3>5
    <3>9. QED
      BY <3>6, <3>7, <3>8
  <2>2. PipeTypeOK'
    BY <1>0, <1>5 DEF AddToCodec, CQ!Put, CQ!Lose, CQ!Overflow, CQ!Room,
         CQ!lqVars, HoldInv, Labels, Parts
  <2>3. HoldInv'
    BY <1>0, <1>5 DEF AddToCodec, CQ!Put, CQ!Lose, CQ!Overflow, CQ!Room,
         CQ!lqVars, HoldInv
  <2>4. QED
    BY <2>1, <2>2, <2>3
<1>6. ASSUME SignalCodec
      PROVE  QueueTypeOK' /\ PipeTypeOK' /\ HoldInv'
  <2>1. QueueTypeOK'
    BY <1>0, <1>6 DEF SignalCodec, WakeRead, CQ!Wake, HoldInv
  <2>2. PipeTypeOK'
    BY <1>0, <1>6 DEF SignalCodec, WakeRead, CQ!Wake, HoldInv, Labels, Parts
  <2>3. HoldInv'
    BY <1>0, <1>6 DEF SignalCodec, WakeRead, CQ!Wake, HoldInv
  <2>4. QED
    BY <2>1, <2>2, <2>3
<1>7. ASSUME ReleaseRtmp
      PROVE  QueueTypeOK' /\ PipeTypeOK' /\ HoldInv'
  <2>1. QueueTypeOK'
    BY <1>0, <1>7 DEF ReleaseRtmp, HoldInv
  <2>2. PipeTypeOK'
    BY <1>0, <1>7 DEF ReleaseRtmp, HoldInv, Labels, Parts
  <2>3. HoldInv'
    BY <1>0, <1>7 DEF ReleaseRtmp, HoldInv
  <2>4. QED
    BY <2>1, <2>2, <2>3
<1>8. QED
  BY <1>1, <1>2, <1>3, <1>4, <1>5, <1>6, <1>7 DEF RtmpStep, PullTypeOK

\* So does the codec's read thread.
LEMMA ReadStepKeepsTypes ==
  ASSUME PullTypeOK, HoldInv, ReadStep
  PROVE  PullTypeOK' /\ HoldInv'
<1> USE PullAssumption DEF QueueTypeOK, PipeTypeOK, Move, MoveWith, codecQueue,
        displayQueue, Workers
<1>0. QueueTypeOK /\ PipeTypeOK /\ NULL \notin Packets
  BY DEF PullTypeOK, Packets
<1>1. ASSUME TestReadFlag
      PROVE  QueueTypeOK' /\ PipeTypeOK' /\ HoldInv'
  <2>1. QueueTypeOK'
    BY <1>0, <1>1 DEF TestReadFlag, HoldInv
  <2>2. PipeTypeOK'
    BY <1>0, <1>1 DEF TestReadFlag, HoldInv, Labels, Parts
  <2>3. HoldInv'
    BY <1>0, <1>1 DEF TestReadFlag, HoldInv
  <2>4. QED
    BY <2>1, <2>2, <2>3
<1>2. ASSUME TakeFromCodec
      PROVE  QueueTypeOK' /\ PipeTypeOK' /\ HoldInv'
  <2>1. QueueTypeOK'
    BY <1>0, <1>2 DEF TakeFromCodec, CQ!Get, CQ!Vacate, CQ!Miss, CQ!Sleep,
         CQ!lqVars, HoldInv
  <2>2. PipeTypeOK'
    <3>1. /\ UNCHANGED <<id, workFlag, frames, received>>
          /\ late' \in {late, late \cup {"read"}}
          /\ hold' \in {hold, [hold EXCEPT !["read"] = cSlot]}
      BY <1>2 DEF TakeFromCodec
    <3>2. \E l \in {"use", "loop", "asleep"} : at' = [at EXCEPT !["read"] = l]
      BY <1>2 DEF TakeFromCodec
    <3>3. at' \in [Workers -> Labels]
      BY <1>0, <3>2 DEF Labels
    <3>4. hold' \in [Workers -> Packets \cup {NULL}]
      BY <1>0, <3>1
    <3>5. QED
      BY <1>0, <3>1, <3>3, <3>4
  <2>3. HoldInv'
    BY <1>0, <1>2 DEF TakeFromCodec, CQ!Get, CQ!Vacate, CQ!Miss, CQ!Sleep,
         CQ!lqVars, HoldInv
  <2>4. QED
    BY <2>1, <2>2, <2>3
<1>3. ASSUME WokenRead
      PROVE  QueueTypeOK' /\ PipeTypeOK' /\ HoldInv'
  <2>1. QueueTypeOK'
    BY <1>0, <1>3 DEF WokenRead, HoldInv
  <2>2. PipeTypeOK'
    BY <1>0, <1>3 DEF WokenRead, HoldInv, Labels, Parts
  <2>3. HoldInv'
    BY <1>0, <1>3 DEF WokenRead, HoldInv
  <2>4. QED
    BY <2>1, <2>2, <2>3
<1>4. ASSUME NEW accepted \in BOOLEAN, FeedCodec(accepted)
      PROVE  QueueTypeOK' /\ PipeTypeOK' /\ HoldInv'
  <2>1. QueueTypeOK'
    BY <1>0, <1>4 DEF FeedCodec, HoldInv
  <2>2. PipeTypeOK'
    BY <1>0, <1>4 DEF FeedCodec, HoldInv, Labels, Parts
  <2>3. HoldInv'
    BY <1>0, <1>4 DEF FeedCodec, HoldInv
  <2>4. QED
    BY <2>1, <2>2, <2>3
<1>5. QED
  BY <1>1, <1>2, <1>3, <1>4 DEF ReadStep, PullTypeOK

\* So does the codec's work thread.
LEMMA WorkStepKeepsTypes ==
  ASSUME PullTypeOK, HoldInv, WorkStep
  PROVE  PullTypeOK' /\ HoldInv'
<1> USE PullAssumption DEF QueueTypeOK, PipeTypeOK, Move, MoveWith, codecQueue,
        displayQueue, Workers
<1>0. QueueTypeOK /\ PipeTypeOK /\ NULL \notin Packets
  BY DEF PullTypeOK, Packets
<1>1. ASSUME TestWorkFlag
      PROVE  QueueTypeOK' /\ PipeTypeOK' /\ HoldInv'
  <2>1. QueueTypeOK'
    BY <1>0, <1>1 DEF TestWorkFlag, HoldInv
  <2>2. PipeTypeOK'
    BY <1>0, <1>1 DEF TestWorkFlag, HoldInv, Labels, Parts
  <2>3. HoldInv'
    BY <1>0, <1>1 DEF TestWorkFlag, HoldInv
  <2>4. QED
    BY <2>1, <2>2, <2>3
<1>2. ASSUME DecodeFrame
      PROVE  QueueTypeOK' /\ PipeTypeOK' /\ HoldInv'
  <2>1. QueueTypeOK'
    BY <1>0, <1>2 DEF DecodeFrame, HoldInv
  <2>2. PipeTypeOK'
    <3>1. UNCHANGED <<id, workFlag, received, late>> /\ at["work"] = "fetch"
      BY <1>2 DEF DecodeFrame
    <3>2. CASE frames = << >>
      BY <1>0, <1>2, <3>1, <3>2 DEF DecodeFrame, Labels
    <3>3. CASE frames # << >>
      <4>1. Head(frames) \in Packets /\ Tail(frames) \in Seq(Packets)
        BY <1>0, <3>3
      <4>2. /\ at' = [at EXCEPT !["work"] = "use"]
            /\ hold' = [hold EXCEPT !["work"] = Head(frames)]
            /\ frames' = Tail(frames)
        BY <1>2, <3>3 DEF DecodeFrame
      <4>3. QED
        BY <1>0, <3>1, <4>1, <4>2 DEF Labels
    <3>4. QED
      BY <3>2, <3>3
  <2>3. HoldInv'
    BY <1>0, <1>2 DEF DecodeFrame, HoldInv
  <2>4. QED
    BY <2>1, <2>2, <2>3
<1>3. ASSUME AddToDisplay
      PROVE  QueueTypeOK' /\ PipeTypeOK' /\ HoldInv'
  <2>1. QueueTypeOK'
    <3>1. at["work"] = "use" /\ hold["work"] \in Packets
      BY <1>0, <1>3 DEF AddToDisplay, HoldInv
    <3>2. UNCHANGED <<cSlot, cSpare, cCount, cJammed, cOpen>>
      BY <1>3 DEF AddToDisplay
    <3>3. /\ dSlot' \in {dSlot, hold["work"]}
          /\ dSpare' \in {dSpare, hold["work"], NULL}
      BY <1>3 DEF AddToDisplay, DQ!Put, DQ!Lose,
         DQ!Overflow, DQ!lqVars
    <3>4. \/ dCount' = dCount
          \/ dCount <= MaxCacheFrame /\ dCount' = dCount + 1
      BY <1>3 DEF AddToDisplay, DQ!Put, DQ!Lose,
         DQ!Overflow, DQ!Room, DQ!lqVars
    <3>5. dJammed' \in BOOLEAN /\ dOpen' \in BOOLEAN
      BY <1>0, <1>3 DEF AddToDisplay, DQ!Put, DQ!Lose,
         DQ!Overflow, DQ!lqVars
    <3>6. {cCount, dCount}' \subseteq 0 .. MaxCacheFrame + 1
      BY <1>0, <3>2, <3>4
    <3>7. {cSlot, cSpare, dSlot, dSpare}' \subseteq Packets \cup {NULL}
      BY <1>0, <3>1, <3>2, <3>3
    <3>8. {cJammed, dJammed, cOpen, dOpen}' \subseteq BOOLEAN
      BY <1>0, <3>2, <3>5
    <3>9. QED
      BY <3>6, <3>7, <3>8
  <2>2. PipeTypeOK'
    BY <1>0, <1>3 DEF AddToDisplay, DQ!Put, DQ!Lose, DQ!Overflow, DQ!Room,
         DQ!lqVars, HoldInv, Labels, Parts
  <2>3. HoldInv'
    BY <1>0, <1>3 DEF AddToDisplay, DQ!Put, DQ!Lose, DQ!Overflow, DQ!Room,
         DQ!lqVars, HoldInv
  <2>4. QED
    BY <2>1, <2>2, <2>3
<1>4. ASSUME SignalDisplay
      PROVE  QueueTypeOK' /\ PipeTypeOK' /\ HoldInv'
  <2>1. QueueTypeOK'
    BY <1>0, <1>4 DEF SignalDisplay, WakeDisplay, DQ!Wake, HoldInv
  <2>2. PipeTypeOK'
    BY <1>0, <1>4 DEF SignalDisplay, WakeDisplay, DQ!Wake, HoldInv, Labels, Parts
  <2>3. HoldInv'
    BY <1>0, <1>4 DEF SignalDisplay, WakeDisplay, DQ!Wake, HoldInv
  <2>4. QED
    BY <2>1, <2>2, <2>3
<1>5. QED
  BY <1>1, <1>2, <1>3, <1>4 DEF WorkStep, PullTypeOK

\* So does the display's thread.
LEMMA DisplayStepKeepsTypes ==
  ASSUME PullTypeOK, HoldInv, DisplayStep
  PROVE  PullTypeOK' /\ HoldInv'
<1> USE PullAssumption DEF QueueTypeOK, PipeTypeOK, Move, MoveWith, codecQueue,
        displayQueue, Workers
<1>0. QueueTypeOK /\ PipeTypeOK /\ NULL \notin Packets
  BY DEF PullTypeOK, Packets
<1>1. ASSUME TestDisplayFlag
      PROVE  QueueTypeOK' /\ PipeTypeOK' /\ HoldInv'
  <2>1. QueueTypeOK'
    BY <1>0, <1>1 DEF TestDisplayFlag, HoldInv
  <2>2. PipeTypeOK'
    BY <1>0, <1>1 DEF TestDisplayFlag, HoldInv, Labels, Parts
  <2>3. HoldInv'
    BY <1>0, <1>1 DEF TestDisplayFlag, HoldInv
  <2>4. QED
    BY <2>1, <2>2, <2>3
<1>2. ASSUME TakeFromDisplay
      PROVE  QueueTypeOK' /\ PipeTypeOK' /\ HoldInv'
  <2>1. QueueTypeOK'
    BY <1>0, <1>2 DEF TakeFromDisplay, DQ!Get, DQ!Vacate, DQ!Miss, DQ!Sleep,
         DQ!lqVars, HoldInv
  <2>2. PipeTypeOK'
    <3>1. /\ UNCHANGED <<id, workFlag, frames, received>>
          /\ late' \in {late, late \cup {"display"}}
          /\ hold' \in {hold, [hold EXCEPT !["display"] = dSlot]}
      BY <1>2 DEF TakeFromDisplay
    <3>2. \E l \in {"use", "loop", "asleep"} : at' = [at EXCEPT !["display"] = l]
      BY <1>2 DEF TakeFromDisplay
    <3>3. at' \in [Workers -> Labels]
      BY <1>0, <3>2 DEF Labels
    <3>4. hold' \in [Workers -> Packets \cup {NULL}]
      BY <1>0, <3>1
    <3>5. QED
      BY <1>0, <3>1, <3>3, <3>4
  <2>3. HoldInv'
    BY <1>0, <1>2 DEF TakeFromDisplay, DQ!Get, DQ!Vacate, DQ!Miss, DQ!Sleep,
         DQ!lqVars, HoldInv
  <2>4. QED
    BY <2>1, <2>2, <2>3
<1>3. ASSUME WokenDisplay
      PROVE  QueueTypeOK' /\ PipeTypeOK' /\ HoldInv'
  <2>1. QueueTypeOK'
    BY <1>0, <1>3 DEF WokenDisplay, HoldInv
  <2>2. PipeTypeOK'
    BY <1>0, <1>3 DEF WokenDisplay, HoldInv, Labels, Parts
  <2>3. HoldInv'
    BY <1>0, <1>3 DEF WokenDisplay, HoldInv
  <2>4. QED
    BY <2>1, <2>2, <2>3
<1>4. ASSUME Draw
      PROVE  QueueTypeOK' /\ PipeTypeOK' /\ HoldInv'
  <2>1. QueueTypeOK'
    BY <1>0, <1>4 DEF Draw, HoldInv
  <2>2. PipeTypeOK'
    BY <1>0, <1>4 DEF Draw, HoldInv, Labels, Parts
  <2>3. HoldInv'
    BY <1>0, <1>4 DEF Draw, HoldInv
  <2>4. QED
    BY <2>1, <2>2, <2>3
<1>5. QED
  BY <1>1, <1>2, <1>3, <1>4 DEF DisplayStep, PullTypeOK

\* A new player satisfies PullInv.
LEMMA PullInitEstablishesInv ==
  PullInit => PullInv
<1> SUFFICES ASSUME PullInit
             PROVE  PullInv
  OBVIOUS
<1> USE PullAssumption DEF PullInit, CQ!LQInit, DQ!LQInit, Workers
<1>1. QueueTypeOK
  <2>1. {cCount, dCount} \subseteq 0 .. MaxCacheFrame + 1
    OBVIOUS
  <2>2. {cJammed, dJammed, cOpen, dOpen} \subseteq BOOLEAN
    OBVIOUS
  <2>3. QED
    BY <2>1, <2>2 DEF QueueTypeOK
<1>2. PipeTypeOK
  BY DEF PipeTypeOK, Parts, Labels
<1>3. HoldInv
  BY DEF HoldInv
<1>4. PhaseInv
  BY DEF PhaseInv, Alive, CodecViews
<1>5. FlagInv
  BY DEF FlagInv, Alive, Parts
<1>6. Before = {} /\ Behind = {} /\ Coded = {}
  BY DEF Before, Behind, Coded
<1>7. ChainInv
  BY <1>6 DEF ChainInv, Above
<1>8. QED
  BY <1>1, <1>2, <1>3, <1>4, <1>5, <1>7
     DEF PullInv, PullTypeOK, QueueTypeOK, PipeTypeOK

\* The UI thread starts only threads that hold nothing.
LEMMA UiKeepsTypes ==
  ASSUME PullTypeOK, HoldInv, PhaseInv,
         StartStep \/ SurfaceDestroyed \/ StopStep \/ SpuriousWakeup
  PROVE  PullTypeOK' /\ HoldInv'
<1> USE PullAssumption
    DEF QueueTypeOK, PipeTypeOK, codecQueue, displayQueue, pipeVars, Show, Workers
<1>0. QueueTypeOK /\ PipeTypeOK /\ NULL \notin Packets
  BY DEF PullTypeOK, Packets
<1>1. CASE StartStep
  <2>1. QueueTypeOK' /\ UNCHANGED <<hold, frames, received, late>>
    BY <1>0, <1>1 DEF StartStep, StartDisplay, StartCodec, StartRtmp
  <2>2. workFlag' \in [Parts -> {0, 1}]
    BY <1>0, <1>1 DEF StartStep, StartDisplay, StartCodec, StartRtmp, Parts
  <2>3. PICK ts \in SUBSET Workers :
          Spawn(ts) /\ \A t \in ts : at[t] \notin {"use", "jammed"}
    BY <1>1 DEF StartStep, StartDisplay, StartCodec, StartRtmp, PhaseInv, Alive,
       CodecViews
  <2>4. at' \in [Workers -> Labels] /\ id' \in [Workers -> {"unset", "set", "garbage"}]
    BY <1>0, <2>3 DEF Spawn, Labels
  <2>5. ASSUME NEW t \in Workers
        PROVE  \/ at'[t] = at[t]
               \/ at'[t] \in {"connect", "loop"} /\ hold[t] = NULL
    BY <2>3 DEF Spawn, HoldInv
  <2>6. HoldInv'
    BY <2>1, <2>5 DEF HoldInv
  <2>7. QED
    BY <1>0, <2>1, <2>2, <2>4, <2>6 DEF PullTypeOK
<1>2. CASE SurfaceDestroyed
  BY <1>0, <1>2 DEF SurfaceDestroyed, PullTypeOK, HoldInv
<1>3. CASE SpuriousWakeup
  BY <1>0, <1>3 DEF SpuriousWakeup, CQ!Wake, DQ!Wake, PullTypeOK, HoldInv
<1>4. CASE StopStep
  <2>1. UNCHANGED <<at, hold, received, late>>
    BY <1>4 DEF StopStep, Lower, Join, JoinGarbage, SignalForClear, ClearQueue,
       ReleaseMediaCodec, Destroy
  <2>2. id' \in [Workers -> {"unset", "set", "garbage"}]
    BY <1>0, <1>4 DEF StopStep, Lower, Join, JoinGarbage, SignalForClear,
       ClearQueue, ReleaseMediaCodec, Destroy
  <2>3. workFlag' \in [Parts -> {0, 1}]
    BY <1>0, <1>4 DEF StopStep, Lower, Join, JoinGarbage, SignalForClear,
       ClearQueue, ReleaseMediaCodec, Destroy, Parts
  <2>4. frames' \in Seq(Packets)
    <3>1. frames' = frames \/ frames' = << >>
      BY <1>4 DEF StopStep, Lower, Join, JoinGarbage, SignalForClear,
         ClearQueue, ReleaseMediaCodec, Destroy
    <3>2. << >> \in Seq(Packets)
      OBVIOUS
    <3>3. QED
      BY <1>0, <3>1, <3>2
  <2>5. QueueTypeOK'
    <3>1. CASE SignalForClear
      BY <1>0, <3>1 DEF SignalForClear, WakeRead, WakeDisplay, CQ!Wake, DQ!Wake
    <3>2. CASE ClearQueue
      BY <1>0, <3>2 DEF ClearQueue, CQ!Empty, DQ!Empty
    <3>3. CASE Destroy
      BY <1>0, <3>3 DEF Destroy, CQ!Close, DQ!Close
    <3>4. CASE ~SignalForClear /\ ~ClearQueue /\ ~Destroy
      BY <1>0, <1>4, <3>4 DEF StopStep, Lower, Join, JoinGarbage, ReleaseMediaCodec
    <3>5. QED
      BY <3>1, <3>2, <3>3, <3>4
  <2>6. HoldInv'
    BY <2>1 DEF HoldInv
  <2>7. QED
    BY <1>0, <2>1, <2>2, <2>3, <2>4, <2>5, <2>6 DEF PullTypeOK
<1>5. QED
  BY <1>1, <1>2, <1>3, <1>4

-----------------------------------------------------------------------------
(***************************************************************************)
(* Phases and flags.                                                       *)
(***************************************************************************)

\* What every step of thread t leaves alone.
StepOf(t) ==
    /\ Alive(t)
    /\ \A u \in Workers \ {t} : at'[u] = at[u]
    /\ UNCHANGED <<id, view, cOpen, dOpen>>

\* A thread that takes a step exists, and is the only one to move.
LEMMA ThreadsStayInPlace ==
  ASSUME PullTypeOK
  PROVE  /\ RtmpStep =>
              /\ StepOf("rtmp") /\ UNCHANGED frames
              /\ workFlag'["decodec"] = workFlag["decodec"]
              /\ workFlag'["display"] = workFlag["display"]
              /\ at'["rtmp"] \in {"none", "done"} => workFlag'["rtmpClient"] = 0
         /\ ReadStep => StepOf("read") /\ UNCHANGED workFlag
         /\ WorkStep =>
              /\ StepOf("work") /\ UNCHANGED workFlag
              /\ frames = << >> => frames' = << >>
         /\ DisplayStep => StepOf("display") /\ UNCHANGED <<workFlag, frames>>
<1> USE DEF StepOf, Alive, Workers, Move, MoveWith, codecQueue, displayQueue
<1>0. at \in [Workers -> Labels] /\ workFlag \in [Parts -> {0, 1}]
  BY DEF PullTypeOK
<1>1. ASSUME RtmpStep
      PROVE  StepOf("rtmp") /\ UNCHANGED frames
  BY <1>0, <1>1 DEF RtmpStep, Connect, ReadOther, TestRtmpFlag, ReadVideo,
     AddToCodec, SignalCodec, ReleaseRtmp, CQ!Put, CQ!Lose, CQ!Overflow,
     CQ!lqVars, WakeRead, CQ!Wake
<1>2. ASSUME RtmpStep
      PROVE  /\ workFlag'["decodec"] = workFlag["decodec"]
             /\ workFlag'["display"] = workFlag["display"]
             /\ at'["rtmp"] \in {"none", "done"} => workFlag'["rtmpClient"] = 0
  BY <1>0, <1>2 DEF RtmpStep, Connect, ReadOther, TestRtmpFlag, ReadVideo,
     AddToCodec, SignalCodec, ReleaseRtmp, Parts
<1>3. ASSUME ReadStep
      PROVE  StepOf("read") /\ UNCHANGED workFlag
  BY <1>0, <1>3 DEF ReadStep, TestReadFlag, TakeFromCodec, WokenRead, FeedCodec,
     CQ!Get, CQ!Miss, CQ!Sleep, CQ!lqVars
<1>4. ASSUME WorkStep
      PROVE  StepOf("work") /\ UNCHANGED workFlag /\ (frames = << >> => frames' = << >>)
  BY <1>0, <1>4 DEF WorkStep, TestWorkFlag, DecodeFrame, AddToDisplay,
     SignalDisplay, DQ!Put, DQ!Lose, DQ!Overflow, DQ!lqVars, WakeDisplay, DQ!Wake
<1>5. ASSUME DisplayStep
      PROVE  StepOf("display") /\ UNCHANGED <<workFlag, frames>>
  BY <1>0, <1>5 DEF DisplayStep, TestDisplayFlag, TakeFromDisplay, WokenDisplay,
     Draw, DQ!Get, DQ!Miss, DQ!Sleep, DQ!lqVars
<1>6. QED
  BY <1>1, <1>2, <1>3, <1>4, <1>5

\* So the threads change no phase.
LEMMA ThreadsKeepPhase ==
  ASSUME PullTypeOK, PhaseInv, FlagInv,
         RtmpStep \/ ReadStep \/ WorkStep \/ DisplayStep
  PROVE  PhaseInv' /\ FlagInv'
<1>1. ASSUME NEW t \in Workers, StepOf(t)
      PROVE  PhaseInv'
  BY <1>1 DEF StepOf, PhaseInv, Alive, Workers
<1>2. PhaseInv'
  <2>1. PICK t \in Workers : StepOf(t)
    BY ThreadsStayInPlace DEF Workers
  <2>2. QED
    BY <1>1, <2>1
<1>3. CASE RtmpStep
  <2>1. UNCHANGED <<id, view, frames>>
    BY <1>3, ThreadsStayInPlace DEF StepOf
  <2>2. /\ workFlag'["decodec"] = workFlag["decodec"]
        /\ workFlag'["display"] = workFlag["display"]
        /\ at'["rtmp"] \in {"none", "done"} => workFlag'["rtmpClient"] = 0
    BY <1>3, ThreadsStayInPlace
  <2>3. QED
    BY <1>2, <2>1, <2>2 DEF FlagInv, Alive
<1>4. CASE ReadStep
  BY <1>2, <1>4, ThreadsStayInPlace DEF StepOf, FlagInv, PhaseInv, Alive, Workers
<1>5. CASE WorkStep
  BY <1>2, <1>5, ThreadsStayInPlace DEF StepOf, FlagInv, Alive, Workers
<1>6. CASE DisplayStep
  BY <1>2, <1>6, ThreadsStayInPlace DEF StepOf, FlagInv, Alive, Workers
<1>7. QED
  BY <1>2, <1>3, <1>4, <1>5, <1>6

\* The UI thread starts, stops and frees in the order of the phases.
LEMMA UiKeepsPhase ==
  ASSUME PullTypeOK, PhaseInv, FlagInv,
         StartStep \/ SurfaceDestroyed \/ StopStep \/ SpuriousWakeup
  PROVE  PhaseInv' /\ FlagInv'
<1> USE DEF Alive, Workers, CodecViews, Show, codecQueue, displayQueue, pipeVars
<1>0. /\ at \in [Workers -> Labels] /\ workFlag \in [Parts -> {0, 1}]
      /\ id \in [Workers -> {"unset", "set", "garbage"}]
  BY DEF PullTypeOK
<1>1. ASSUME StartDisplay
      PROVE  PhaseInv' /\ FlagInv'
  BY <1>0, <1>1 DEF StartDisplay, Spawn, PhaseInv, FlagInv, Parts
<1>2. ASSUME StartCodec
      PROVE  PhaseInv' /\ FlagInv'
  BY <1>0, <1>2 DEF StartCodec, Spawn, PhaseInv, FlagInv, Parts
<1>3. ASSUME StartRtmp
      PROVE  PhaseInv' /\ FlagInv'
  BY <1>0, <1>3 DEF StartRtmp, Spawn, PhaseInv, FlagInv, Parts
<1>4. ASSUME SurfaceDestroyed
      PROVE  PhaseInv' /\ FlagInv'
  BY <1>4 DEF SurfaceDestroyed, PhaseInv, FlagInv
<1>5. ASSUME SpuriousWakeup
      PROVE  PhaseInv' /\ FlagInv'
  BY <1>5 DEF SpuriousWakeup, CQ!Wake, DQ!Wake, PhaseInv, FlagInv
<1>6. ASSUME \/ Lower("rtmpClient", "stopPlay", "rtmpJoin")
             \/ Lower("decodec", "codecStop", "codecSignal")
             \/ Lower("display", "displayStop", "displaySignal")
      PROVE  PhaseInv' /\ FlagInv'
  BY <1>0, <1>6 DEF Lower, PhaseInv, FlagInv, Parts
<1>7. ASSUME Join("rtmp", "rtmpJoin", "codecStop")
      PROVE  PhaseInv' /\ FlagInv'
  BY <1>0, <1>7 DEF Join, Gone, PhaseInv, FlagInv
<1>8. ASSUME Join("work", "workJoin", "readJoin")
      PROVE  PhaseInv' /\ FlagInv'
  BY <1>0, <1>8 DEF Join, Gone, PhaseInv, FlagInv
<1>9. ASSUME Join("read", "readJoin", "codecRelease")
      PROVE  PhaseInv' /\ FlagInv'
  BY <1>0, <1>9 DEF Join, Gone, PhaseInv, FlagInv
<1>10. ASSUME Join("display", "displayJoin", "destroyCodec")
      PROVE  PhaseInv' /\ FlagInv'
  BY <1>0, <1>10 DEF Join, Gone, PhaseInv, FlagInv
<1>11. ASSUME JoinGarbage
      PROVE  PhaseInv' /\ FlagInv'
  BY <1>0, <1>11 DEF JoinGarbage, PhaseInv, FlagInv
<1>12. ASSUME ReleaseMediaCodec
      PROVE  PhaseInv' /\ FlagInv'
  BY <1>0, <1>12 DEF ReleaseMediaCodec, PhaseInv, FlagInv
<1>13. ASSUME SignalForClear
      PROVE  PhaseInv' /\ FlagInv'
  BY <1>13 DEF SignalForClear, WakeRead, WakeDisplay, CQ!Wake, DQ!Wake, PhaseInv,
     FlagInv
<1>14. ASSUME ClearQueue
      PROVE  PhaseInv' /\ FlagInv'
  BY <1>14 DEF ClearQueue, CQ!Empty, DQ!Empty, PhaseInv, FlagInv
<1>15. ASSUME Destroy
      PROVE  PhaseInv' /\ FlagInv'
  BY <1>15 DEF Destroy, CQ!Close, DQ!Close, PhaseInv, FlagInv
<1>16. QED
  BY <1>1, <1>2, <1>3, <1>4, <1>5, <1>6, <1>7, <1>8, <1>9, <1>10, <1>11, <1>12,
     <1>13, <1>14, <1>15 DEF StartStep, StopStep

-----------------------------------------------------------------------------
(***************************************************************************)
(* The order along the pipeline.                                           *)
(***************************************************************************)

\* What ChainInv speaks of.
chainVars == <<hold, cSlot, dSlot, frames, received, lastDrawn>>

\* A step that leaves them alone keeps ChainInv.
LEMMA ChainStays ==
  ASSUME ChainInv, UNCHANGED chainVars
  PROVE  ChainInv'
BY DEF ChainInv, Above, Before, Behind, Coded, chainVars

\* Packets are numbers, wherever they are.
LEMMA PlacesAreTyped ==
  ASSUME PullTypeOK
  PROVE  /\ hold \in [Workers -> Nat \cup {NULL}]
         /\ cSlot \in Nat \cup {NULL} /\ dSlot \in Nat \cup {NULL}
         /\ received \in Nat /\ NULL \notin Nat
         /\ Len(frames) \in Nat /\ frames \in Seq(Packets)
         /\ \A k \in 1 .. Len(frames) : frames[k] \in Nat
         /\ {"rtmp", "read", "work", "display"} = Workers
<1>1. Packets \subseteq Nat /\ MaxPackets \in Nat /\ NULL \notin Nat
  BY PullAssumption DEF Packets
<1>2. Len(frames) \in Nat /\ frames \in Seq(Packets)
  BY DEF PullTypeOK
<1>3. \A k \in 1 .. Len(frames) : frames[k] \in Nat
  <2>1. \A k \in 1 .. Len(frames) : frames[k] \in Packets
    BY <1>2
  <2>2. QED
    BY <1>1, <2>1
<1>4. hold \in [Workers -> Nat \cup {NULL}]
  BY <1>1 DEF PullTypeOK
<1>5. cSlot \in Nat \cup {NULL} /\ dSlot \in Nat \cup {NULL}
  BY <1>1 DEF PullTypeOK
<1>6. received \in Nat
  BY <1>1 DEF PullTypeOK
<1>7. QED
  BY <1>1, <1>2, <1>3, <1>4, <1>5, <1>6 DEF Workers

\* The RTMP client's thread puts in the youngest packet.
LEMMA RtmpKeepsChain ==
  ASSUME PullTypeOK, HoldInv, ChainInv, RtmpStep
  PROVE  ChainInv'
<1> USE PlacesAreTyped DEF Move, MoveWith, codecQueue, displayQueue
<1>1. ASSUME ReadVideo
      PROVE  ChainInv'
  <2>1. /\ hold' = [hold EXCEPT !["rtmp"] = received + 1] /\ received' = received + 1
        /\ UNCHANGED <<cSlot, dSlot, frames, lastDrawn>>
    BY <1>1 DEF ReadVideo
  <2>2. Behind' = Behind /\ Coded' = Coded
    BY <2>1 DEF Behind, Coded
  <2>3. Before' = {received + 1} \cup ({cSlot, hold["read"]} \ {NULL})
    BY <2>1 DEF Before
  <2>4. \A p \in (Before \cup Behind \cup Coded) : p \in Nat /\ p < received + 1
    <3>1. Before \cup Behind \subseteq Nat
      BY DEF Before, Behind
    <3>2. Coded \subseteq Nat
      BY DEF Coded
    <3>3. \A p \in (Before \cup Behind \cup Coded) : p <= received
      BY DEF ChainInv
    <3>4. ASSUME NEW p \in Before \cup Behind \cup Coded
          PROVE  p \in Nat /\ p < received + 1
      <4>1. p \in Nat /\ p <= received
        BY <3>1, <3>2, <3>3
      <4>2. QED
        BY <4>1
    <3>5. QED
      BY <3>4
  <2>5. Before' \subseteq Before \cup {received + 1}
    BY <2>3 DEF Before
  <2>6. \A p \in (Before \cup Behind \cup Coded)' : lastDrawn < p /\ p <= received'
    BY <2>1, <2>2, <2>4, <2>5 DEF ChainInv
  <2>7. \A p \in Before' : \A q \in Coded' \cup Behind' : q < p
    BY <2>2, <2>4, <2>5 DEF ChainInv
  <2>8. /\ Above(hold["rtmp"], cSlot)' /\ Above(hold["rtmp"], hold["read"])'
        /\ Above(cSlot, hold["read"])'
    BY <2>1, <2>4 DEF ChainInv, Above, Before
  <2>9. /\ Above(hold["work"], dSlot)' /\ Above(hold["work"], hold["display"])'
        /\ Above(dSlot, hold["display"])'
    BY <2>1 DEF ChainInv, Above
  <2>10. lastDrawn' \in Nat /\ lastDrawn' <= received'
    BY <2>1 DEF ChainInv
  <2>11. \A p \in Coded' : \A q \in Behind' : q < p
    BY <2>2 DEF ChainInv
  <2>12. \A k, l \in 1 .. Len(frames') : k < l => frames'[k] < frames'[l]
    BY <2>1 DEF ChainInv
  <2>13. QED
    BY <2>1, <2>6, <2>7, <2>8, <2>9, <2>10, <2>11, <2>12 DEF ChainInv
<1>2. ASSUME AddToCodec
      PROVE  ChainInv'
  <2>1. UNCHANGED <<dSlot, frames, received, lastDrawn>>
    BY <1>2 DEF AddToCodec
  <2>2. \/ hold' = hold /\ cSlot' = cSlot
        \/ hold' = [hold EXCEPT !["rtmp"] = NULL] /\ cSlot' = cSlot
        \/ /\ hold' = [hold EXCEPT !["rtmp"] = NULL]
           /\ cSlot = NULL /\ cSlot' = hold["rtmp"]
    BY <1>2 DEF AddToCodec, CQ!Put, CQ!Lose, CQ!Overflow, CQ!lqVars
  <2>3. Behind' = Behind /\ Coded' = Coded /\ Before' \subseteq Before
    BY <2>1, <2>2 DEF Behind, Coded, Before
  <2>4. QED
    BY <2>1, <2>2, <2>3 DEF ChainInv, Above
<1>3. ASSUME ~ReadVideo, ~AddToCodec
      PROVE  UNCHANGED chainVars
  BY <1>3 DEF RtmpStep, Connect, ReadOther, TestRtmpFlag, SignalCodec, ReleaseRtmp,
     WakeRead, CQ!Wake, chainVars
<1>4. QED
  BY <1>1, <1>2, <1>3, ChainStays

\* The read thread moves the packet of the slot to the end of MediaCodec.
LEMMA ReadKeepsChain ==
  ASSUME PullTypeOK, HoldInv, ChainInv, ReadStep
  PROVE  ChainInv'
<1> USE PlacesAreTyped DEF Move, MoveWith, codecQueue, displayQueue
<1>1. ASSUME TakeFromCodec
      PROVE  ChainInv'
  <2>1. UNCHANGED <<dSlot, frames, received, lastDrawn>> /\ at["read"] = "fetch"
    BY <1>1 DEF TakeFromCodec
  <2>2. \/ hold' = hold /\ cSlot' = cSlot
        \/ hold' = [hold EXCEPT !["read"] = cSlot] /\ cSlot' = NULL
    BY <1>1 DEF TakeFromCodec, CQ!Get, CQ!Vacate, CQ!Miss, CQ!Sleep, CQ!lqVars
  <2>3. Behind' = Behind /\ Coded' = Coded /\ Before' \subseteq Before
    BY <2>1, <2>2 DEF Behind, Coded, Before
  <2>4. QED
    BY <2>1, <2>2, <2>3 DEF ChainInv, Above
<1>2. ASSUME NEW accepted \in BOOLEAN, FeedCodec(accepted)
      PROVE  ChainInv'
  <2>1. /\ UNCHANGED <<cSlot, dSlot, received, lastDrawn>>
        /\ hold' = [hold EXCEPT !["read"] = NULL]
        /\ frames' \in {frames, Append(frames, hold["read"])}
    BY <1>2 DEF FeedCodec
  <2>2. hold["read"] \in Nat
    BY <1>2 DEF FeedCodec, HoldInv
  <2>3. Behind' = Behind /\ Before' \subseteq Before /\ hold["read"] \in Before
    BY <2>1, <2>2 DEF Behind, Before
  <2>4. CASE frames' = frames
    <3>1. Coded' = Coded
      BY <2>4 DEF Coded
    <3>2. QED
      BY <2>1, <2>3, <2>4, <3>1 DEF ChainInv, Above
  <2>5. CASE frames' = Append(frames, hold["read"])
    <3>1. /\ Len(frames') = Len(frames) + 1
          /\ frames'[Len(frames) + 1] = hold["read"]
          /\ \A k \in 1 .. Len(frames) : frames'[k] = frames[k]
      BY <2>2, <2>5
    <3>2. Coded' = Coded \cup {hold["read"]}
      <4>1. Len(frames) \in Nat
        BY DEF PullTypeOK
      <4>2. ASSUME NEW k \in 1 .. Len(frames')
            PROVE  frames'[k] \in Coded \cup {hold["read"]}
        <5>1. k \in 1 .. Len(frames) \/ k = Len(frames) + 1
          BY <3>1, <4>1, <4>2
        <5>2. QED
          BY <3>1, <5>1 DEF Coded
      <4>3. ASSUME NEW k \in 1 .. Len(frames)
            PROVE  frames[k] \in Coded'
        <5>1. k \in 1 .. Len(frames') /\ frames'[k] = frames[k]
          BY <3>1, <4>1, <4>3
        <5>2. QED
          BY <5>1 DEF Coded
      <4>4. hold["read"] \in Coded'
        <5>1. Len(frames) + 1 \in 1 .. Len(frames')
          BY <3>1, <4>1
        <5>2. QED
          BY <3>1, <5>1 DEF Coded
      <4>5. QED
        BY <4>2, <4>3, <4>4 DEF Coded
    <3>3. ASSUME NEW p \in Before'
          PROVE  hold["read"] < p
      BY <2>1, <2>2, <3>3 DEF ChainInv, Above, Before
    <3>4. ASSUME NEW k \in 1 .. Len(frames'), NEW l \in 1 .. Len(frames'), k < l
          PROVE  frames'[k] < frames'[l]
      <4>1. CASE l \in 1 .. Len(frames)
        BY <3>1, <3>4, <4>1 DEF ChainInv
      <4>2. CASE l = Len(frames) + 1
        <5>1. frames[k] \in Coded /\ k \in 1 .. Len(frames)
          BY <3>4, <4>2 DEF Coded
        <5>2. QED
          BY <2>3, <3>1, <4>2, <5>1 DEF ChainInv
      <4>3. QED
        BY <3>1, <4>1, <4>2
    <3>5. QED
      BY <2>1, <2>3, <3>2, <3>3, <3>4 DEF ChainInv, Above
  <2>6. QED
    BY <2>1, <2>4, <2>5
<1>3. ASSUME TestReadFlag \/ WokenRead
      PROVE  UNCHANGED chainVars
  BY <1>3 DEF TestReadFlag, WokenRead, chainVars
<1>4. QED
  BY <1>1, <1>2, <1>3, ChainStays DEF ReadStep

\* The work thread takes the oldest frame of MediaCodec.
LEMMA WorkKeepsChain ==
  ASSUME PullTypeOK, HoldInv, ChainInv, WorkStep
  PROVE  ChainInv'
<1> USE PlacesAreTyped DEF Move, MoveWith, codecQueue, displayQueue
<1>1. ASSUME DecodeFrame, frames # << >>
      PROVE  ChainInv'
  <2>1. /\ UNCHANGED <<cSlot, dSlot, received, lastDrawn>>
        /\ hold' = [hold EXCEPT !["work"] = Head(frames)]
        /\ frames' = Tail(frames) /\ hold["work"] = NULL
    BY <1>1 DEF DecodeFrame, HoldInv
  <2>2. /\ Len(frames') = Len(frames) - 1 /\ Len(frames) \in Nat \ {0}
        /\ Head(frames) = frames[1]
        /\ \A k \in 1 .. Len(frames') : frames'[k] = frames[k + 1]
    BY <1>1, <2>1
  <2>3. Coded' \subseteq Coded /\ Head(frames) \in Coded
    BY <2>2 DEF Coded
  <2>4. ASSUME NEW p \in Coded'
        PROVE  Head(frames) < p
    <3>1. PICK k \in 1 .. Len(frames') : p = frames'[k]
      BY DEF Coded
    <3>2. k + 1 \in 1 .. Len(frames) /\ 1 \in 1 .. Len(frames) /\ 1 < k + 1
      BY <2>2
    <3>3. p = frames[k + 1]
      BY <2>2, <3>1
    <3>4. QED
      BY <2>2, <3>2, <3>3 DEF ChainInv
  <2>5. Before' = Before /\ Behind' = Behind \cup {Head(frames)}
    BY <2>1, <2>3 DEF Before, Behind, Coded
  <2>6. ASSUME NEW k \in 1 .. Len(frames'), NEW l \in 1 .. Len(frames'), k < l
        PROVE  frames'[k] < frames'[l]
    <3>1. /\ k + 1 \in 1 .. Len(frames) /\ l + 1 \in 1 .. Len(frames)
          /\ k + 1 < l + 1
      BY <2>2, <2>6
    <3>2. frames[k + 1] < frames[l + 1]
      BY <3>1 DEF ChainInv
    <3>3. QED
      BY <2>2, <3>2
  <2>7. Above(Head(frames), dSlot) /\ Above(Head(frames), hold["display"])
    BY <2>3 DEF ChainInv, Above, Behind
  <2>8. QED
    BY <2>1, <2>3, <2>4, <2>5, <2>6, <2>7 DEF ChainInv, Above
<1>2. ASSUME AddToDisplay
      PROVE  ChainInv'
  <2>1. UNCHANGED <<cSlot, frames, received, lastDrawn>>
    BY <1>2 DEF AddToDisplay
  <2>2. \/ hold' = hold /\ dSlot' = dSlot
        \/ hold' = [hold EXCEPT !["work"] = NULL] /\ dSlot' = dSlot
        \/ /\ hold' = [hold EXCEPT !["work"] = NULL]
           /\ dSlot = NULL /\ dSlot' = hold["work"]
    BY <1>2 DEF AddToDisplay, DQ!Put, DQ!Lose, DQ!Overflow, DQ!lqVars
  <2>3. Before' = Before /\ Coded' = Coded /\ Behind' \subseteq Behind
    BY <2>1, <2>2 DEF Behind, Coded, Before
  <2>4. QED
    BY <2>1, <2>2, <2>3 DEF ChainInv, Above
<1>3. ASSUME \/ TestWorkFlag \/ SignalDisplay
             \/ DecodeFrame /\ frames = << >>
      PROVE  UNCHANGED chainVars
  BY <1>3 DEF TestWorkFlag, SignalDisplay, WakeDisplay, DQ!Wake, DecodeFrame,
     chainVars
<1>4. QED
  BY <1>1, <1>2, <1>3, ChainStays DEF WorkStep

\* The display draws what is older than anything else.
LEMMA DisplayKeepsChain ==
  ASSUME PullTypeOK, HoldInv, ChainInv, DisplayStep
  PROVE  ChainInv'
<1> USE PlacesAreTyped DEF Move, MoveWith, codecQueue, displayQueue
<1>1. ASSUME TakeFromDisplay
      PROVE  ChainInv'
  <2>1. UNCHANGED <<cSlot, frames, received, lastDrawn>> /\ at["display"] = "fetch"
    BY <1>1 DEF TakeFromDisplay
  <2>2. \/ hold' = hold /\ dSlot' = dSlot
        \/ hold' = [hold EXCEPT !["display"] = dSlot] /\ dSlot' = NULL
    BY <1>1 DEF TakeFromDisplay, DQ!Get, DQ!Vacate, DQ!Miss, DQ!Sleep, DQ!lqVars
  <2>3. Before' = Before /\ Coded' = Coded /\ Behind' \subseteq Behind
    BY <2>1, <2>2 DEF Behind, Coded, Before
  <2>4. QED
    BY <2>1, <2>2, <2>3 DEF ChainInv, Above
<1>2. ASSUME Draw
      PROVE  ChainInv'
  <2>1. /\ UNCHANGED <<cSlot, dSlot, frames, received>>
        /\ hold' = [hold EXCEPT !["display"] = NULL]
        /\ lastDrawn' = hold["display"] /\ hold["display"] \in Nat
    BY <1>2 DEF Draw, HoldInv
  <2>2. /\ Before' = Before /\ Coded' = Coded
        /\ Behind' = {hold["work"], dSlot} \ {NULL} /\ Behind' \subseteq Behind
        /\ hold["display"] \in Behind
    BY <2>1 DEF Before, Coded, Behind
  <2>3. \A p \in Before \cup Coded \cup Behind' : hold["display"] < p
    BY <2>1, <2>2 DEF ChainInv, Above
  <2>4. hold["display"] <= received
    BY <2>2 DEF ChainInv
  <2>5. QED
    BY <2>1, <2>2, <2>3, <2>4 DEF ChainInv, Above
<1>3. ASSUME TestDisplayFlag \/ WokenDisplay
      PROVE  UNCHANGED chainVars
  BY <1>3 DEF TestDisplayFlag, WokenDisplay, chainVars
<1>4. QED
  BY <1>1, <1>2, <1>3, ChainStays DEF DisplayStep

\* The UI thread only throws packets away.
LEMMA UiKeepsChain ==
  ASSUME PullTypeOK, ChainInv,
         StartStep \/ SurfaceDestroyed \/ StopStep \/ SpuriousWakeup
  PROVE  ChainInv'
<1> USE PlacesAreTyped DEF codecQueue, displayQueue, pipeVars
<1>1. ASSUME ClearQueue
      PROVE  ChainInv'
  <2>1. /\ UNCHANGED <<hold, frames, received, lastDrawn>>
        /\ cSlot' \in {cSlot, NULL} /\ dSlot' \in {dSlot, NULL}
    BY <1>1 DEF ClearQueue, CQ!Empty, DQ!Empty
  <2>2. Before' \subseteq Before /\ Behind' \subseteq Behind /\ Coded' = Coded
    BY <2>1 DEF Before, Behind, Coded
  <2>3. QED
    BY <2>1, <2>2 DEF ChainInv, Above
<1>2. ASSUME ReleaseMediaCodec
      PROVE  ChainInv'
  <2>1. UNCHANGED <<hold, cSlot, dSlot, received, lastDrawn>> /\ Len(frames') = 0
    BY <1>2 DEF ReleaseMediaCodec
  <2>2. Before' = Before /\ Behind' = Behind /\ Coded' = {}
    BY <2>1 DEF Before, Behind, Coded
  <2>3. QED
    BY <2>1, <2>2 DEF ChainInv, Above
<1>3. ASSUME ~ClearQueue, ~ReleaseMediaCodec
      PROVE  UNCHANGED chainVars
  BY <1>3 DEF StartStep, StartDisplay, StartCodec, StartRtmp, SurfaceDestroyed,
     StopStep, Lower, Join, JoinGarbage, SignalForClear, WakeRead, WakeDisplay,
     Destroy, SpuriousWakeup, CQ!Wake, DQ!Wake, CQ!Close, DQ!Close, chainVars
<1>4. QED
  BY <1>1, <1>2, <1>3, ChainStays

-----------------------------------------------------------------------------
\* PullInv holds in every reachable state, for every value of the constants.
THEOREM PullInvariant == PullSpec => []PullInv
<1>1. PullInit => PullInv
  BY PullInitEstablishesInv
<1>2. PullInv /\ [PullNext]_pullVars => PullInv'
  <2> SUFFICES ASSUME PullInv, [PullNext]_pullVars
               PROVE  PullInv'
    OBVIOUS
  <2> USE DEF PullInv
  <2>1. CASE RtmpStep
    BY <2>1, RtmpStepKeepsTypes, ThreadsKeepPhase, RtmpKeepsChain
  <2>2. CASE ReadStep
    BY <2>2, ReadStepKeepsTypes, ThreadsKeepPhase, ReadKeepsChain
  <2>3. CASE WorkStep
    BY <2>3, WorkStepKeepsTypes, ThreadsKeepPhase, WorkKeepsChain
  <2>4. CASE DisplayStep
    BY <2>4, DisplayStepKeepsTypes, ThreadsKeepPhase, DisplayKeepsChain
  <2>5. CASE StartStep \/ SurfaceDestroyed \/ StopStep \/ SpuriousWakeup
    BY <2>5, UiKeepsTypes, UiKeepsPhase, UiKeepsChain
  <2>6. CASE UNCHANGED pullVars
    <3>1. UNCHANGED chainVars
      BY <2>6 DEF pullVars, codecQueue, displayQueue, pipeVars, chainVars
    <3>2. PullTypeOK' /\ HoldInv' /\ PhaseInv' /\ FlagInv'
      BY <2>6 DEF pullVars, codecQueue, displayQueue, pipeVars, PullTypeOK,
         HoldInv, PhaseInv, FlagInv, Alive
    <3>3. QED
      BY <3>1, <3>2, ChainStays
  <2>7. QED
    BY <2>1, <2>2, <2>3, <2>4, <2>5, <2>6 DEF PullNext
<1>3. QED
  BY <1>1, <1>2, PTL DEF PullSpec

-----------------------------------------------------------------------------
\* Every variable of the player keeps its type, and no queue overruns its bound.
THEOREM PullTypeCorrect == PullSpec => []PullTypeOK
<1>1. PullInv => PullTypeOK
  BY DEF PullInv
<1>2. QED
  BY <1>1, PullInvariant, PTL

\* A thread that hands packets on finds the part it hands them to.
THEOREM ReceiverIsThere == PullSpec => []ReceiverExists
<1>1. PullInv => ReceiverExists
  BY DEF PullInv, PhaseInv, CodecViews, Alive, Workers, ReceiverExists
<1>2. QED
  BY <1>1, PullInvariant, PTL

\* The player is freed with nothing running and nothing left in its queues.
THEOREM FreedPlayerIsAtRest == PullSpec => []FreedPlayerIsQuiet
<1>1. PullInv => FreedPlayerIsQuiet
  BY DEF PullInv, HoldInv, PhaseInv, FlagInv, CodecViews, Alive, Workers, Parts,
     FreedPlayerIsQuiet
<1>2. QED
  BY <1>1, PullInvariant, PTL

\* A chain has no packet twice.
LEMMA ChainHasNoRepetition ==
  ASSUME PullTypeOK, ChainInv
  PROVE  OnePlaceEach
<1> USE PlacesAreTyped
<1> DEFINE six == <<hold["rtmp"], cSlot, hold["read"], hold["work"],
                    dSlot, hold["display"]>>
           places == six \o frames
<1>1. /\ DOMAIN places = 1 .. Len(frames) + 6 /\ Len(frames) \in Nat
      /\ \A i \in 1 .. 6 : places[i] = six[i]
      /\ \A i \in DOMAIN places : i > 6 => /\ i - 6 \in 1 .. Len(frames)
                                           /\ places[i] = frames[i - 6]
  OBVIOUS
<1>7. /\ six[1] = hold["rtmp"] /\ six[2] = cSlot /\ six[3] = hold["read"]
      /\ six[4] = hold["work"] /\ six[5] = dSlot /\ six[6] = hold["display"]
      /\ \A i \in 1 .. 6 : six[i] \in Nat \cup {NULL}
  OBVIOUS
<1> HIDE DEF six, places
<1>8. /\ \A i \in 1 .. 3 : six[i] # NULL => six[i] \in Before
      /\ \A i \in 4 .. 6 : six[i] # NULL => six[i] \in Behind
  BY <1>7 DEF Before, Behind
<1>2. ASSUME NEW i \in 1 .. 6, NEW j \in 1 .. 6, i < j,
             six[i] # NULL, six[j] # NULL
      PROVE  six[j] < six[i]
  <2>1. CASE i \in 1 .. 3 /\ j \in 4 .. 6
    BY <1>2, <1>8, <2>1 DEF ChainInv
  <2>2. CASE i \in 1 .. 3 /\ j \in 1 .. 3
    <3>1. (i = 1 /\ j = 2) \/ (i = 1 /\ j = 3) \/ (i = 2 /\ j = 3)
      BY <1>2, <2>2
    <3>2. QED
      BY <1>2, <1>7, <3>1 DEF ChainInv, Above
  <2>3. CASE i \in 4 .. 6 /\ j \in 4 .. 6
    <3>1. (i = 4 /\ j = 5) \/ (i = 4 /\ j = 6) \/ (i = 5 /\ j = 6)
      BY <1>2, <2>3
    <3>2. QED
      BY <1>2, <1>7, <3>1 DEF ChainInv, Above
  <2>4. QED
    BY <1>2, <2>1, <2>2, <2>3
<1>3. ASSUME NEW i \in 1 .. 6, NEW k \in 1 .. Len(frames), six[i] # NULL
      PROVE  six[i] # frames[k]
  <2>1. frames[k] \in Coded /\ frames[k] \in Nat
    BY DEF Coded
  <2>2. six[i] \in Nat /\ (six[i] \in Before \/ six[i] \in Behind)
    <3>1. i \in 1 .. 3 \/ i \in 4 .. 6
      OBVIOUS
    <3>2. QED
      BY <1>3, <1>7, <1>8, <3>1
  <2>3. frames[k] < six[i] \/ six[i] < frames[k]
    BY <2>1, <2>2 DEF ChainInv
  <2>4. QED
    BY <2>1, <2>2, <2>3
<1>4. ASSUME NEW k \in 1 .. Len(frames), NEW l \in 1 .. Len(frames), k # l
      PROVE  frames[k] # frames[l]
  <2>1. k < l \/ l < k
    BY <1>4
  <2>2. frames[k] < frames[l] \/ frames[l] < frames[k]
    BY <2>1 DEF ChainInv
  <2>3. frames[k] \in Nat /\ frames[l] \in Nat
    OBVIOUS
  <2>4. QED
    BY <2>2, <2>3
<1>5. ASSUME NEW i \in DOMAIN places, NEW j \in DOMAIN places,
             places[i] = places[j], places[i] # NULL
      PROVE  i = j
  <2>1. CASE i \in 1 .. 6 /\ j \in 1 .. 6
    <3>1. six[i] = six[j] /\ six[i] # NULL /\ six[i] \in Nat
      BY <1>1, <1>5, <1>7, <2>1
    <3>2. ~(six[i] < six[j]) /\ ~(six[j] < six[i]) /\ six[j] # NULL
      BY <3>1
    <3>3. ~(i < j)
      BY <1>2, <2>1, <3>1, <3>2
    <3>4. ~(j < i)
      BY <1>2, <2>1, <3>1, <3>2
    <3>5. QED
      BY <2>1, <3>3, <3>4
  <2>2. CASE i \in 1 .. 6 /\ j > 6
    BY <1>1, <1>3, <1>5, <2>2
  <2>3. CASE i > 6 /\ j \in 1 .. 6
    BY <1>1, <1>3, <1>5, <2>3
  <2>4. CASE i > 6 /\ j > 6
    <3>1. i \in Nat /\ j \in Nat
      BY <1>1
    <3>2. /\ i - 6 \in 1 .. Len(frames) /\ places[i] = frames[i - 6]
          /\ j - 6 \in 1 .. Len(frames) /\ places[j] = frames[j - 6]
      BY <1>1, <2>4
    <3>3. i - 6 = j - 6
      BY <1>4, <1>5, <3>2
    <3>4. QED
      BY <3>1, <3>3
  <2>5. QED
    BY <1>1, <2>1, <2>2, <2>3, <2>4
<1>6. QED
  BY <1>5 DEF OnePlaceEach, six, places

\* No packet is in two places at once.
THEOREM PlacesAreApart == PullSpec => []OnePlaceEach
<1>1. PullInv => OnePlaceEach
  BY ChainHasNoRepetition DEF PullInv
<1>2. QED
  BY <1>1, PullInvariant, PTL

\* Frames are drawn in the order in which the network delivered them.
THEOREM DrawsAreInOrder == PullSpec => DrawnInOrder
<1>1. ASSUME PullInv, [PullNext]_pullVars
      PROVE  /\ lastDrawn' >= lastDrawn
             /\ at["display"] = "use" /\ at'["display"] = "loop" =>
                  lastDrawn' > lastDrawn
  <2> USE PlacesAreTyped, <1>1 DEF PullInv
  <2>1. CASE Draw
    <3>1. lastDrawn' = hold["display"] /\ hold["display"] \in Nat
      BY <2>1 DEF Draw, HoldInv, MoveWith, Move
    <3>2. lastDrawn < hold["display"]
      BY <3>1 DEF ChainInv, Behind
    <3>3. QED
      BY <3>1, <3>2 DEF ChainInv
  <2>2. CASE ~Draw
    <3>1. lastDrawn' = lastDrawn /\ lastDrawn \in Nat
      BY <2>2 DEF PullNext, RtmpStep, Connect, ReadOther, TestRtmpFlag, ReadVideo,
         AddToCodec, SignalCodec, ReleaseRtmp, ReadStep, TestReadFlag,
         TakeFromCodec, WokenRead, FeedCodec, WorkStep, TestWorkFlag, DecodeFrame,
         AddToDisplay, SignalDisplay, DisplayStep, TestDisplayFlag,
         TakeFromDisplay, WokenDisplay, StartStep, StartDisplay, StartCodec,
         StartRtmp, SurfaceDestroyed, StopStep, Lower, Join, JoinGarbage,
         SignalForClear, ClearQueue, ReleaseMediaCodec, Destroy, SpuriousWakeup,
         pullVars, pipeVars, ChainInv
    <3>2. ~(at["display"] = "use" /\ at'["display"] = "loop")
      <4>1. at \in [Workers -> Labels]
        BY DEF PullTypeOK
      <4>2. CASE DisplayStep
        BY <2>2, <4>1, <4>2 DEF DisplayStep, TestDisplayFlag, TakeFromDisplay,
           WokenDisplay, Move, MoveWith
      <4>3. CASE RtmpStep \/ ReadStep \/ WorkStep
        <5>1. at'["display"] = at["display"]
          BY <4>3, ThreadsStayInPlace DEF StepOf, Workers
        <5>2. QED
          BY <5>1
      <4>4. CASE StartStep
        BY <4>1, <4>4 DEF StartStep, StartDisplay, StartCodec, StartRtmp, Spawn,
           Show, PhaseInv, Alive
      <4>5. CASE SurfaceDestroyed \/ StopStep \/ SpuriousWakeup \/ UNCHANGED pullVars
        BY <4>5 DEF SurfaceDestroyed, StopStep, Lower, Join, JoinGarbage,
           SignalForClear, ClearQueue, ReleaseMediaCodec, Destroy, SpuriousWakeup,
           pullVars, pipeVars
      <4>6. QED
        BY <4>2, <4>3, <4>4, <4>5 DEF PullNext
    <3>3. QED
      BY <3>1, <3>2
  <2>3. QED
    BY <2>1, <2>2
<1>2. PullInv /\ [PullNext]_pullVars =>
        [lastDrawn' >= lastDrawn /\
         (at["display"] = "use" /\ at'["display"] = "loop" => lastDrawn' > lastDrawn)
        ]_pullVars
  BY <1>1
<1>3. QED
  BY <1>2, PullInvariant, PTL DEF PullSpec, DrawnInOrder

-----------------------------------------------------------------------------
(***************************************************************************)
(* Refinement.  All places but the display's hand are the inside of a      *)
(* LossyPipe, and the display's hand is its end.                           *)
(***************************************************************************)

\* The packets that may still reach the screen.
Inside ==
    Coded \cup
      ({hold["rtmp"], cSlot, hold["read"], hold["work"], dSlot} \ {NULL})

\* The frame that is being drawn, or 0.
OnScreen == IF hold["display"] = NULL THEN 0 ELSE hold["display"]

\* What each kind of step means to the pipe.
LEMMA PipeSteps ==
  /\ UNCHANGED chainVars => Pipe!Lose
  /\ received' = received /\ Inside' \subseteq Inside /\ OnScreen' = OnScreen =>
       Pipe!Lose
  /\ /\ received' = received + 1
     /\ Inside' \in {Inside, Inside \cup {received + 1}}
     /\ OnScreen' = OnScreen
     => Pipe!Enter
  /\ received' = received /\ Inside' = Inside /\ OnScreen' = 0 => Pipe!Return
  /\ /\ received' = received
     /\ OnScreen = 0 /\ OnScreen' \in Inside
     /\ \A p \in Inside : OnScreen' <= p
     /\ Inside' = Inside \ {OnScreen'}
     => Pipe!Leave
BY DEF Pipe!Lose, Pipe!Enter, Pipe!Return, Pipe!Leave, Inside, OnScreen, Coded,
   chainVars

\* The RTMP client's thread lets packets in.
LEMMA RtmpStepsThePipe ==
  ASSUME PullTypeOK, HoldInv, RtmpStep
  PROVE  Pipe!LPNext
<1> USE PlacesAreTyped DEF Move, MoveWith, codecQueue, displayQueue
<1>1. ASSUME ReadVideo
      PROVE  Pipe!Enter
  <2>1. /\ hold' = [hold EXCEPT !["rtmp"] = received + 1] /\ received' = received + 1
        /\ UNCHANGED <<cSlot, dSlot, frames>> /\ hold["rtmp"] = NULL
    BY <1>1 DEF ReadVideo, HoldInv
  <2>2. Inside' = Inside \cup {received + 1} /\ OnScreen' = OnScreen
    BY <2>1 DEF Inside, OnScreen, Coded
  <2>3. QED
    BY <2>1, <2>2, PipeSteps
<1>2. ASSUME AddToCodec
      PROVE  Pipe!Lose
  <2>1. UNCHANGED <<dSlot, frames, received>>
    BY <1>2 DEF AddToCodec
  <2>2. \/ hold' = hold /\ cSlot' = cSlot
        \/ hold' = [hold EXCEPT !["rtmp"] = NULL] /\ cSlot' = cSlot
        \/ /\ hold' = [hold EXCEPT !["rtmp"] = NULL]
           /\ cSlot = NULL /\ cSlot' = hold["rtmp"]
    BY <1>2 DEF AddToCodec, CQ!Put, CQ!Lose, CQ!Overflow, CQ!lqVars
  <2>3. Inside' \subseteq Inside /\ OnScreen' = OnScreen
    BY <2>1, <2>2 DEF Inside, OnScreen, Coded
  <2>4. QED
    BY <2>1, <2>3, PipeSteps
<1>3. ASSUME ~ReadVideo, ~AddToCodec
      PROVE  UNCHANGED chainVars
  BY <1>3 DEF RtmpStep, Connect, ReadOther, TestRtmpFlag, SignalCodec, ReleaseRtmp,
     WakeRead, CQ!Wake, chainVars
<1>4. QED
  BY <1>1, <1>2, <1>3, PipeSteps DEF Pipe!LPNext

\* The codec's read thread moves them on or drops them.
LEMMA ReadStepsThePipe ==
  ASSUME PullTypeOK, HoldInv, ReadStep
  PROVE  Pipe!LPNext
<1> USE PlacesAreTyped DEF Move, MoveWith, codecQueue, displayQueue
<1>1. ASSUME TakeFromCodec
      PROVE  Pipe!Lose
  <2>1. UNCHANGED <<dSlot, frames, received>>
    BY <1>1 DEF TakeFromCodec
  <2>2. \/ hold' = hold /\ cSlot' = cSlot
        \/ hold' = [hold EXCEPT !["read"] = cSlot] /\ cSlot' = NULL
    BY <1>1 DEF TakeFromCodec, CQ!Get, CQ!Vacate, CQ!Miss, CQ!Sleep, CQ!lqVars
  <2>3. Inside' \subseteq Inside /\ OnScreen' = OnScreen
    BY <2>1, <2>2 DEF Inside, OnScreen, Coded
  <2>4. QED
    BY <2>1, <2>3, PipeSteps
<1>2. ASSUME NEW accepted \in BOOLEAN, FeedCodec(accepted)
      PROVE  Pipe!Lose
  <2>1. /\ UNCHANGED <<cSlot, dSlot, received>>
        /\ hold' = [hold EXCEPT !["read"] = NULL]
        /\ frames' \in {frames, Append(frames, hold["read"])}
        /\ hold["read"] \in Nat
    BY <1>2 DEF FeedCodec, HoldInv
  <2>2. Coded' \subseteq Coded \cup {hold["read"]}
    <3>1. CASE frames' = frames
      BY <3>1 DEF Coded
    <3>2. CASE frames' = Append(frames, hold["read"])
      <4>1. /\ Len(frames') = Len(frames) + 1
            /\ frames'[Len(frames) + 1] = hold["read"]
            /\ \A k \in 1 .. Len(frames) : frames'[k] = frames[k]
        BY <2>1, <3>2
      <4>2. ASSUME NEW k \in 1 .. Len(frames')
            PROVE  frames'[k] \in Coded \cup {hold["read"]}
        <5>1. k \in 1 .. Len(frames) \/ k = Len(frames) + 1
          BY <4>1, <4>2
        <5>2. QED
          BY <4>1, <5>1 DEF Coded
      <4>3. QED
        BY <4>2 DEF Coded
    <3>3. QED
      BY <2>1, <3>1, <3>2
  <2>3. Inside' \subseteq Inside /\ OnScreen' = OnScreen
    BY <2>1, <2>2 DEF Inside, OnScreen
  <2>4. QED
    BY <2>1, <2>3, PipeSteps
<1>3. ASSUME TestReadFlag \/ WokenRead
      PROVE  UNCHANGED chainVars
  BY <1>3 DEF TestReadFlag, WokenRead, chainVars
<1>4. QED
  BY <1>1, <1>2, <1>3, PipeSteps DEF ReadStep, Pipe!LPNext

\* So does the work thread.
LEMMA WorkStepsThePipe ==
  ASSUME PullTypeOK, WorkStep
  PROVE  Pipe!LPNext
<1> USE PlacesAreTyped DEF Move, MoveWith, codecQueue, displayQueue
<1>1. ASSUME DecodeFrame, frames # << >>
      PROVE  Pipe!Lose
  <2>1. /\ UNCHANGED <<cSlot, dSlot, received>>
        /\ hold' = [hold EXCEPT !["work"] = Head(frames)]
        /\ frames' = Tail(frames)
    BY <1>1 DEF DecodeFrame
  <2>2. /\ Len(frames') = Len(frames) - 1 /\ Len(frames) \in Nat \ {0}
        /\ Head(frames) = frames[1]
        /\ \A k \in 1 .. Len(frames') : frames'[k] = frames[k + 1]
    BY <1>1, <2>1
  <2>3. /\ \A k \in 1 .. Len(frames') : k + 1 \in 1 .. Len(frames)
        /\ 1 \in 1 .. Len(frames)
    BY <2>2
  <2>4. Coded' \subseteq Coded /\ Head(frames) \in Coded
    BY <2>2, <2>3 DEF Coded
  <2>5. Inside' \subseteq Inside /\ OnScreen' = OnScreen
    BY <2>1, <2>4 DEF Inside, OnScreen
  <2>6. QED
    BY <2>1, <2>5, PipeSteps
<1>2. ASSUME AddToDisplay
      PROVE  Pipe!Lose
  <2>1. UNCHANGED <<cSlot, frames, received>>
    BY <1>2 DEF AddToDisplay
  <2>2. \/ hold' = hold /\ dSlot' = dSlot
        \/ hold' = [hold EXCEPT !["work"] = NULL] /\ dSlot' = dSlot
        \/ /\ hold' = [hold EXCEPT !["work"] = NULL]
           /\ dSlot = NULL /\ dSlot' = hold["work"]
    BY <1>2 DEF AddToDisplay, DQ!Put, DQ!Lose, DQ!Overflow, DQ!lqVars
  <2>3. Inside' \subseteq Inside /\ OnScreen' = OnScreen
    BY <2>1, <2>2 DEF Inside, OnScreen, Coded
  <2>4. QED
    BY <2>1, <2>3, PipeSteps
<1>3. ASSUME \/ TestWorkFlag \/ SignalDisplay
             \/ DecodeFrame /\ frames = << >>
      PROVE  UNCHANGED chainVars
  BY <1>3 DEF TestWorkFlag, SignalDisplay, WakeDisplay, DQ!Wake, DecodeFrame,
     chainVars
<1>4. QED
  BY <1>1, <1>2, <1>3, PipeSteps DEF WorkStep, Pipe!LPNext

\* What the display takes is the oldest packet there is, in one place only.
LEMMA DisplayStepsThePipe ==
  ASSUME PullTypeOK, HoldInv, ChainInv, DisplayStep
  PROVE  Pipe!LPNext
<1> USE PlacesAreTyped DEF Move, MoveWith, codecQueue, displayQueue
<1>1. ASSUME TakeFromDisplay
      PROVE  Pipe!Leave \/ UNCHANGED chainVars
  <2>1. /\ UNCHANGED <<cSlot, frames, received, lastDrawn>>
        /\ hold["display"] = NULL
    BY <1>1 DEF TakeFromDisplay, HoldInv
  <2>2. \/ hold' = hold /\ dSlot' = dSlot
        \/ /\ dSlot # NULL /\ dSlot' = NULL
           /\ hold' = [hold EXCEPT !["display"] = dSlot]
    <3>1. CASE DQ!Get /\ MoveWith("display", "fetch", "use", dSlot)
      BY <3>1 DEF DQ!Get, DQ!Vacate
    <3>2. CASE UNCHANGED hold /\ (DQ!Miss \/ DQ!Sleep("display"))
      BY <3>2 DEF DQ!Miss, DQ!Sleep, DQ!lqVars
    <3>3. QED
      BY <1>1, <3>1, <3>2 DEF TakeFromDisplay
  <2>3. CASE hold' = hold /\ dSlot' = dSlot
    BY <2>1, <2>3 DEF chainVars
  <2>4. CASE /\ dSlot # NULL /\ dSlot' = NULL
             /\ hold' = [hold EXCEPT !["display"] = dSlot]
    <3>. DEFINE Others == Coded \cup
                  ({hold["rtmp"], cSlot, hold["read"], hold["work"]} \ {NULL})
    <3>1. OnScreen = 0 /\ OnScreen' = dSlot /\ dSlot \in Nat
      BY <2>1, <2>4 DEF OnScreen
    <3>2. Inside = Others \cup {dSlot} /\ Inside' = Others
      BY <2>1, <2>4 DEF Inside, Coded
    <3>3. dSlot \in Behind
      BY <2>4 DEF Behind
    <3>4. ASSUME NEW p \in Others
          PROVE  dSlot < p /\ p \in Nat
      <4>1. CASE p \in Coded \cup Before
        BY <3>3, <4>1 DEF ChainInv, Coded, Before
      <4>2. CASE p = hold["work"] /\ p # NULL
        BY <3>1, <4>2, <2>4 DEF ChainInv, Above
      <4>3. QED
        BY <3>4, <4>1, <4>2 DEF Before
    <3>. HIDE DEF Others
    <3>5. dSlot \notin Others /\ \A p \in Others : dSlot <= p
      BY <3>1, <3>4
    <3>6. QED
      BY <2>1, <3>1, <3>2, <3>5, PipeSteps
  <2>5. QED
    BY <2>2, <2>3, <2>4
<1>2. ASSUME Draw
      PROVE  Pipe!Return
  <2>1. /\ UNCHANGED <<cSlot, dSlot, frames, received>>
        /\ hold' = [hold EXCEPT !["display"] = NULL]
    BY <1>2 DEF Draw
  <2>2. Inside' = Inside /\ OnScreen' = 0
    BY <2>1 DEF Inside, OnScreen, Coded
  <2>3. QED
    BY <2>1, <2>2, PipeSteps
<1>3. ASSUME TestDisplayFlag \/ WokenDisplay
      PROVE  UNCHANGED chainVars
  BY <1>3 DEF TestDisplayFlag, WokenDisplay, chainVars
<1>4. QED
  BY <1>1, <1>2, <1>3, PipeSteps DEF DisplayStep, Pipe!LPNext

\* The UI thread only throws packets away.
LEMMA UiStepsThePipe ==
  ASSUME PullTypeOK, StartStep \/ SurfaceDestroyed \/ StopStep \/ SpuriousWakeup
  PROVE  Pipe!LPNext
<1> USE PlacesAreTyped DEF codecQueue, displayQueue, pipeVars
<1>1. ASSUME ClearQueue
      PROVE  Pipe!Lose
  <2>1. /\ UNCHANGED <<hold, frames, received>>
        /\ cSlot' \in {cSlot, NULL} /\ dSlot' \in {dSlot, NULL}
    BY <1>1 DEF ClearQueue, CQ!Empty, DQ!Empty
  <2>2. Inside' \subseteq Inside /\ OnScreen' = OnScreen
    BY <2>1 DEF Inside, OnScreen, Coded
  <2>3. QED
    BY <2>1, <2>2, PipeSteps
<1>2. ASSUME ReleaseMediaCodec
      PROVE  Pipe!Lose
  <2>1. UNCHANGED <<hold, cSlot, dSlot, received>> /\ Len(frames') = 0
    BY <1>2 DEF ReleaseMediaCodec
  <2>2. Coded' = {}
    BY <2>1 DEF Coded
  <2>3. Inside' \subseteq Inside /\ OnScreen' = OnScreen
    BY <2>1, <2>2 DEF Inside, OnScreen
  <2>4. QED
    BY <2>1, <2>3, PipeSteps
<1>3. ASSUME ~ClearQueue, ~ReleaseMediaCodec
      PROVE  UNCHANGED chainVars
  BY <1>3 DEF StartStep, StartDisplay, StartCodec, StartRtmp, SurfaceDestroyed,
     StopStep, Lower, Join, JoinGarbage, SignalForClear, WakeRead, WakeDisplay,
     Destroy, SpuriousWakeup, CQ!Wake, DQ!Wake, CQ!Close, DQ!Close, chainVars
<1>4. QED
  BY <1>1, <1>2, <1>3, PipeSteps DEF Pipe!LPNext

\* Whatever the two queues, MediaCodec and stopPlay drop, the display draws the
\* oldest packet there is, one at a time and each once: the player implements
\* LossyPipe, through the five threads and for any number of packets.
THEOREM PullRefinesLossyPipe == PullSpec => PullIsLossyPipe
<1>1. PullInit => Pipe!LPInit
  BY DEF PullInit, Pipe!LPInit, CQ!LQInit, DQ!LQInit, Workers
<1>2. PullInv /\ [PullNext]_pullVars => [Pipe!LPNext]_(Pipe!lpVars)
  <2>1. UNCHANGED pullVars => UNCHANGED Pipe!lpVars
    BY DEF pullVars, pipeVars, codecQueue, displayQueue, Pipe!lpVars
  <2>2. PullInv /\ PullNext => Pipe!LPNext
    BY RtmpStepsThePipe, ReadStepsThePipe, WorkStepsThePipe,
       DisplayStepsThePipe, UiStepsThePipe DEF PullInv, PullNext
  <2>3. QED
    BY <2>1, <2>2
<1>3. QED
  BY <1>1, <1>2, PullInvariant, PTL DEF PullSpec, PullIsLossyPipe, Pipe!LPSpec
=============================================================================
