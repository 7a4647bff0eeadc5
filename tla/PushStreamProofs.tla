-------------------------- MODULE PushStreamProofs --------------------------
(***************************************************************************)
(* Proofs about PushStream for any packets and any MaxCacheFrame, and any  *)
(* number of sessions one after the other.  The inductive invariant        *)
(* PushInv joins QueueInv, the invariant of the queue on its own, with     *)
(* SessionInv, which ties the place of each of the three threads in the    *)
(* queue to the phase of the session it is in.                             *)
(***************************************************************************)
EXTENDS PushStream, BlockingQueueProofs

(***************************************************************************)
(* The inductive invariant, in parts.                                      *)
(***************************************************************************)

AddLabels == {"idle", "addLock", "addBody", "addUnlock", "addSignal",
              "clearSignal", "clearLock"}
TakeLabels == {"idle", "takeLock", "takeBody", "takeWait", "takeUnlock"}
ClearLabels == {"idle", "clearSignal", "clearLock", "clearLoop", "clearUnlock"}

SessionTypeOK ==
    /\ mapped \in BOOLEAN /\ allocated \in BOOLEAN
    /\ joinable \in BOOLEAN /\ runFlag \in BOOLEAN
    /\ workFlag \in {0, 1}
    /\ rtmp \in {"null", "open", "broken"}
    /\ stage \in Stages
    /\ output \in {"none", "loop", "frame"}
    /\ view \in Views
    /\ late \subseteq {"connect", "wait"}

QueueIsEmpty == firstNode = NULL /\ lastNode = NULL /\ numNode = 0

\* Where each thread may be in the queue, given where it is in the session.
PlaceInv ==
    /\ pc[encoder] \in AddLabels
    /\ pc[encoder] # "idle" => output = "loop"
    /\ pc[encoder] \in {"clearSignal", "clearLock"} => after[encoder] = "addBody"
    /\ after[encoder] # "free"
    /\ pc[worker] \in TakeLabels
    /\ after[worker] = "idle"
    /\ pc[worker] # "idle" => stage = "take"
    /\ pc[ui] \in ClearLabels \cup {"free"}
    /\ after[ui] # "addBody"
    /\ after[ui] = "free" => view = "free" /\ pc[ui] # "idle"
    /\ pc[ui] = "free" => view = "free"
    /\ pc[ui] # "idle" => view \in {"stopClear", "destroyClear", "free"}
    /\ view = "free" /\ pc[ui] # "idle" => after[ui] = "free"

\* What exists in each phase of the session.
PhaseInv ==
    /\ mapped = allocated
    /\ view # "absent" => mapped
    /\ view \notin {"absent", "free"} => alive /\ abortFlag = 1
    /\ output # "none" => view \in {"streaming", "joinEncoder"}
    /\ joinable => view \in {"started", "streaming", "joinEncoder", "stopPush",
                             "stopClear", "stopJoin"}
    /\ stage \notin {"none", "done"} => joinable
    /\ joinable => stage # "none"

\* What the worker holds.
WorkerInv ==
    /\ workFlag = 1 => rtmp = "open" /\ stage \in {"loop", "take", "send"}
    /\ stage \in {"take", "send"} => rtmp = "open"
    /\ stage \in {"none", "connect", "done"} => rtmp = "null"
    /\ stage \notin {"take", "send"} => Taken = {}
    /\ stage = "take" /\ pc[worker] \notin {"takeUnlock", "idle"} => Taken = {}
    /\ \A p, q \in Taken : p = q
    /\ stage = "send" => Taken # {}

\* After clear of a stopped session the queue is empty, and stays so.
EmptyInv ==
    \/ view = "stopClear" /\ pc[ui] \in {"idle", "clearUnlock"}
    \/ view \in {"absent", "stopJoin", "destroy", "destroyClear",
                 "destroyQueue", "free"}
    => QueueIsEmpty

SessionInv == SessionTypeOK /\ PlaceInv /\ PhaseInv /\ WorkerInv /\ EmptyInv
PushInv == QueueInv /\ SessionInv

-----------------------------------------------------------------------------
\* The three threads are different ones.
LEMMA ThreadsAreDistinct ==
  /\ Threads = {encoder, worker, ui}
  /\ encoder # worker /\ encoder # ui /\ worker # ui
<1>1. Threads = {encoder, worker, ui}
  BY PushAssumption DEF Threads
<1>2. ASSUME NEW a, NEW b, Threads = {a, b}
      PROVE  FALSE
  <2>1. IsFiniteSet({a}) /\ Cardinality({a}) = 1
    BY FS_Singleton
  <2>2. Cardinality({a} \cup {b}) \in {1, 2}
    BY <2>1, FS_AddElement
  <2>3. {a} \cup {b} = Threads
    BY <1>2
  <2>4. QED
    BY <2>2, <2>3, PushAssumption
<1>3. encoder = worker => Threads = {worker, ui}
  BY <1>1
<1>4. encoder = ui => Threads = {worker, ui}
  BY <1>1
<1>5. worker = ui => Threads = {encoder, ui}
  BY <1>1
<1>6. QED
  BY <1>1, <1>2, <1>3, <1>4, <1>5

\* The session starts in PushInv.
LEMMA PushInitEstablishesInv ==
  PushInit => PushInv
<1> SUFFICES ASSUME PushInit
             PROVE  PushInv
  OBVIOUS
<1>1. QueueInv
  BY InitEstablishesInv DEF PushInit
<1>2. SessionTypeOK /\ PhaseInv /\ EmptyInv
  BY DEF PushInit, QueueInit, SessionTypeOK, PhaseInv, EmptyInv, QueueIsEmpty,
     Stages, Views
<1>3. PlaceInv
  BY ThreadsAreDistinct
     DEF PushInit, QueueInit, PlaceInv, AddLabels, TakeLabels, ClearLabels
<1>4. Taken = {}
  BY DEF PushInit, QueueInit, Taken
<1>5. WorkerInv
  BY <1>4 DEF PushInit, WorkerInv
<1>6. QED
  BY <1>1, <1>2, <1>3, <1>5 DEF PushInv, SessionInv

-----------------------------------------------------------------------------
(***************************************************************************)
(* The queue: calls are made only by threads that may, and what the        *)
(* session does to it from outside keeps QueueInv.                         *)
(***************************************************************************)

\* The encoder adds, or refuses, only a packet nobody else has.
LEMMA EncoderKeepsQueue ==
  ASSUME PushInv, EncoderStep
  PROVE  QueueInv'
<1> USE ThreadsAreDistinct, PushAssumption, QueueAssumption DEF PushInv
<1>1. CASE NextFrame
  BY <1>1 DEF NextFrame, queueVars, QueueInv, TypeOK, LockInv, ArgInv, ListInv,
     DestroyInv, OrderInv, SleepInv, MutualExclusion, NoSleepOnData, InClear,
     listVars, history
<1>2. ASSUME NEW p \in Packets, SendVideoData(p)
      PROVE  QueueInv'
  <2>1. Call(encoder)
    BY <1>2 DEF SendVideoData, Call
  <2>2. QED
    BY <2>1, CallPreservesInv
<1>3. ASSUME NEW p \in Packets, RefuseVideoData(p)
      PROVE  QueueInv'
  BY <1>3 DEF RefuseVideoData, Unclaimed, QueueInv, TypeOK, LockInv, ArgInv,
     ListInv, DestroyInv, OrderInv, SleepInv, MutualExclusion, NoSleepOnData,
     InClear, listVars, history, Locations
<1>4. QED
  BY <1>1, <1>2, <1>3 DEF EncoderStep

\* The worker takes, and frees only what it has taken.
LEMMA WorkerKeepsQueue ==
  ASSUME PushInv, WorkerStep
  PROVE  QueueInv'
<1> USE ThreadsAreDistinct, PushAssumption, QueueAssumption DEF PushInv
<1>1. CASE TakePacket
  <2>1. Call(worker)
    BY <1>1 DEF TakePacket, Call
  <2>2. QED
    BY <2>1, CallPreservesInv
<1>2. ASSUME NEW ok \in BOOLEAN, SendPacket(ok)
      PROVE  QueueInv'
  <2>1. /\ loc' = [p \in Packets |-> IF loc[p] = "taken" THEN "freed" ELSE loc[p]]
        /\ UNCHANGED <<firstNode, lastNode, next, numNode, owner, waiting,
                       abortFlag, alive, pc, after, arg, ticket, tickets>>
    BY <1>2 DEF SendPacket, Taken, listVars, history
  <2>2. QED
    BY <2>1 DEF QueueInv, TypeOK, LockInv, ArgInv, ListInv, DestroyInv, OrderInv,
       SleepInv, MutualExclusion, NoSleepOnData, InClear, Locations
<1>3. CASE UNCHANGED queueVars
  BY <1>3 DEF queueVars, QueueInv, TypeOK, LockInv, ArgInv, ListInv,
     DestroyInv, OrderInv, SleepInv, MutualExclusion, NoSleepOnData, InClear,
     listVars, history
<1>4. QED
  BY <1>1, <1>2, <1>3 DEF WorkerStep, ConnectFails, ConnectSucceeds, LeaveLoop,
     TakeReturns, ReleaseRtmpClient

\* The UI thread calls clear, destroys a queue nobody is in, and makes a new one.
LEMMA UiKeepsQueue ==
  ASSUME PushInv, StartStep \/ StopEncoder \/ StopStep
  PROVE  QueueInv'
<1> USE ThreadsAreDistinct, PushAssumption, QueueAssumption DEF PushInv
<1>1. CASE CreatePushClient
  <2>1. \A t \in Threads : pc[t] = "idle" /\ after[t] # "free"
    BY <1>1 DEF CreatePushClient, Show, SessionInv, PlaceInv, PhaseInv,
       SessionTypeOK, Stages
  <2>2. \A t \in Threads : after[t] # "addBody"
    BY <2>1 DEF QueueInv, LockInv
  <2>3. QED
    BY <1>1, <2>1, <2>2 DEF CreatePushClient, QueueInv, TypeOK, LockInv, ArgInv,
       ListInv, DestroyInv, OrderInv, SleepInv, MutualExclusion, NoSleepOnData,
       InClear, history, Critical
<1>2. CASE StopClient
  <2>1. Call(ui)
    BY <1>2 DEF StopClient, Show, Call, SessionInv, PhaseInv
  <2>2. QED
    BY <2>1, CallPreservesInv
<1>3. CASE DestroyQueue
  <2>1. Destroy(ui)
    BY <1>3 DEF DestroyQueue, Show, Destroy, DestroyEnter, Goto, SessionInv,
       PlaceInv, PhaseInv, SessionTypeOK, Stages
  <2>2. QED
    BY <2>1, CallPreservesInv
<1>4. CASE UNCHANGED queueVars
  BY <1>4 DEF queueVars, QueueInv, TypeOK, LockInv, ArgInv, ListInv,
     DestroyInv, OrderInv, SleepInv, MutualExclusion, NoSleepOnData, InClear,
     listVars, history
<1>5. QED
  BY <1>1, <1>2, <1>3, <1>4 DEF StartStep, StartPush, StartEncoder, StopEncoder,
     StopStep, JoinEncoder, ClearReturns, JoinWorker, FreeClient

\* The steps inside a call, whoever takes them.
LEMMA StepKeepsQueue ==
  ASSUME QueueInv, NEW t \in Threads, QueueStep(t) \/ SpuriousWakeup(t)
  PROVE  QueueInv'
BY AddPreservesInv, TakePreservesInv, ClearPreservesInv, CallPreservesInv
   DEF QueueStep

-----------------------------------------------------------------------------
(***************************************************************************)
(* The session: each group of actions preserves SessionInv.                *)
(***************************************************************************)

\* What the output thread of the encoder does outside of the queue.
LEMMA EncoderKeepsSession ==
  ASSUME PushInv, EncoderStep
  PROVE  SessionInv'
<1> USE ThreadsAreDistinct
    DEF PushInv, SessionInv, SessionTypeOK, PlaceInv, PhaseInv, EmptyInv,
        QueueIsEmpty, AddLabels, TakeLabels, ClearLabels, Views, Stages,
        listVars, history, queueVars, clientVars, encoderVars
<1>0. pc \in [Threads -> Labels] /\ after \in [Threads -> {"idle", "addBody", "free"}]
      /\ loc \in [Packets -> Locations]
  BY DEF QueueInv, TypeOK
<1>1. Taken' = Taken
  BY <1>0 DEF EncoderStep, NextFrame, SendVideoData, RefuseVideoData, AddEnter,
     Unclaimed, Taken
<1>2. CASE NextFrame
  BY <1>1, <1>2 DEF NextFrame, WorkerInv
<1>3. ASSUME NEW p \in Packets, SendVideoData(p)
      PROVE  SessionInv'
  BY <1>0, <1>1, <1>3 DEF SendVideoData, AddEnter, Goto, WorkerInv
<1>4. ASSUME NEW p \in Packets, RefuseVideoData(p)
      PROVE  SessionInv'
  BY <1>1, <1>4 DEF RefuseVideoData, WorkerInv
<1>5. QED
  BY <1>2, <1>3, <1>4 DEF EncoderStep

\* What workThreadFunc does outside of the queue.
LEMMA WorkerKeepsSession ==
  ASSUME PushInv, WorkerStep
  PROVE  SessionInv'
<1> USE ThreadsAreDistinct
    DEF PushInv, SessionInv, SessionTypeOK, PlaceInv, PhaseInv, EmptyInv,
        QueueIsEmpty, AddLabels, TakeLabels, ClearLabels, Views, Stages,
        listVars, history, queueVars, clientVars, encoderVars, Advance
<1>0. pc \in [Threads -> Labels] /\ after \in [Threads -> {"idle", "addBody", "free"}]
      /\ loc \in [Packets -> Locations]
  BY DEF QueueInv, TypeOK
<1>1. CASE TakePacket
  <2>1. Taken' = Taken
    BY <1>1 DEF TakePacket, TakeEnter, Taken
  <2>2. QED
    BY <1>0, <1>1, <2>1 DEF TakePacket, TakeEnter, Goto, WorkerInv
<1>2. ASSUME NEW ok \in BOOLEAN, SendPacket(ok)
      PROVE  SessionInv'
  <2>1. Taken' = {}
    BY <1>2 DEF SendPacket, Taken
  <2>2. QED
    BY <1>2, <2>1 DEF SendPacket, FlagAfterFailure, WorkerInv
<1>3. CASE ConnectFails \/ ConnectSucceeds \/ LeaveLoop \/ ReleaseRtmpClient
  <2>1. Taken' = Taken
    BY <1>3 DEF ConnectFails, ConnectSucceeds, LeaveLoop, ReleaseRtmpClient, Taken
  <2>2. CASE ConnectFails
    BY <2>1, <2>2 DEF ConnectFails, WorkerInv
  <2>3. CASE ConnectSucceeds
    BY <2>1, <2>3 DEF ConnectSucceeds, WorkerInv
  <2>4. CASE LeaveLoop
    BY <2>1, <2>4 DEF LeaveLoop, WorkerInv
  <2>5. CASE ReleaseRtmpClient
    BY <2>1, <2>5 DEF ReleaseRtmpClient, WorkerInv
  <2>6. QED
    BY <1>3, <2>2, <2>3, <2>4, <2>5
<1>4. CASE TakeReturns
  <2>1. Taken' = Taken
    BY <1>4 DEF TakeReturns, Taken
  <2>2. QED
    BY <1>4, <2>1 DEF TakeReturns, WorkerInv
<1>5. QED
  BY <1>1, <1>2, <1>3, <1>4 DEF WorkerStep

\* What surfaceCreated and surfaceDestroyed do outside of the queue.
LEMMA UiKeepsSession ==
  ASSUME PushInv, StartStep \/ StopEncoder \/ StopStep
  PROVE  SessionInv'
<1> USE ThreadsAreDistinct
    DEF PushInv, SessionInv, SessionTypeOK, PlaceInv, PhaseInv, EmptyInv,
        QueueIsEmpty, AddLabels, TakeLabels, ClearLabels, Views, Stages,
        listVars, history, queueVars, clientVars, encoderVars, Show
<1>0. pc \in [Threads -> Labels] /\ after \in [Threads -> {"idle", "addBody", "free"}]
  BY DEF QueueInv, TypeOK
<1>1. Taken' = Taken
  BY DEF StartStep, CreatePushClient, StartPush, StartEncoder, StopEncoder,
     StopStep, JoinEncoder, StopClient, ClearEnter, ClearReturns, JoinWorker,
     DestroyQueue, DestroyEnter, FreeClient, Taken
<1>2. CASE CreatePushClient
  BY <1>1, <1>2 DEF CreatePushClient, WorkerInv
<1>3. CASE StartPush
  <2>1. /\ view = "created" /\ view' = "started" /\ workFlag' = 0
        /\ ~joinable /\ stage \in {"none", "done"} /\ rtmp = "null"
    BY <1>3 DEF StartPush, WorkerInv
  <2>2. PlaceInv' /\ EmptyInv'
    BY <1>3, <2>1 DEF StartPush
  <2>3. SessionTypeOK' /\ PhaseInv'
    <3>1. UNCHANGED <<mapped, allocated, rtmp, alive, abortFlag, output, runFlag, late>>
      BY <1>3 DEF StartPush
    <3>2. CASE joinable' = TRUE /\ stage' = "connect"
      BY <2>1, <3>1, <3>2
    <3>3. CASE UNCHANGED <<joinable, stage>>
      BY <2>1, <3>1, <3>3
    <3>4. QED
      BY <1>3, <3>2, <3>3 DEF StartPush
  <2>4. WorkerInv'
    BY <1>1, <1>3, <2>1 DEF StartPush, WorkerInv
  <2>5. QED
    BY <2>2, <2>3, <2>4
<1>4. CASE StartEncoder
  BY <1>1, <1>4 DEF StartEncoder, WorkerInv
<1>5. CASE StopEncoder
  BY <1>1, <1>5 DEF StopEncoder, WorkerInv
<1>6. CASE JoinEncoder
  BY <1>1, <1>6 DEF JoinEncoder, EncoderGone, WorkerInv
<1>7. CASE StopClient
  BY <1>0, <1>1, <1>7 DEF StopClient, ClearEnter, Goto, WorkerInv
<1>8. CASE ClearReturns
  BY <1>1, <1>8 DEF ClearReturns, WorkerInv
<1>9. CASE JoinWorker
  BY <1>1, <1>9 DEF JoinWorker, WorkerGone, WorkerInv
<1>10. CASE DestroyQueue
  BY <1>0, <1>1, <1>10 DEF DestroyQueue, DestroyEnter, Goto, Abort, WorkerInv
<1>11. CASE FreeClient
  BY <1>1, <1>11 DEF FreeClient, WorkerInv
<1>12. QED
  BY <1>2, <1>3, <1>4, <1>5, <1>6, <1>7, <1>8, <1>9, <1>10, <1>11
     DEF StartStep, StopStep

\* Inside the queue: only the encoder adds, only the worker takes, only the UI
\* thread clears.
LEMMA QueueKeepsSession ==
  ASSUME PushInv, NEW t \in Threads, InQueue(t)
  PROVE  SessionInv'
<1> USE ThreadsAreDistinct, QueueAssumption, PushAssumption
    DEF PushInv, SessionInv, SessionTypeOK, PlaceInv, PhaseInv, EmptyInv,
        QueueIsEmpty, AddLabels, TakeLabels, ClearLabels, Views, Stages,
        listVars, history, queueVars, clientVars, encoderVars, Goto, QueueInv,
        TypeOK, ListInv, ArgInv
<1>0. UNCHANGED <<mapped, allocated, workFlag, joinable, rtmp, stage, runFlag,
                  output, view>> /\ late' \subseteq {"connect", "wait"}
  BY DEF InQueue
<1>1. CASE AddStep(t)
  <2>1. Taken' = Taken
    BY <1>1 DEF AddStep, AddLock, AddOverflow, AddAppend, AddNoMemory, AddUnlock,
       AddSignal, Taken
  <2>2. t = encoder
    BY <1>1 DEF AddStep, AddLock, AddOverflow, AddAppend, AddNoMemory, AddUnlock,
       AddSignal, Lock, Unlock
  <2>3. alive' = alive /\ abortFlag' = abortFlag
    BY <1>1 DEF AddStep, AddLock, AddOverflow, AddAppend, AddNoMemory, AddUnlock,
       AddSignal
  <2>4. PlaceInv'
    BY <1>0, <1>1, <2>2 DEF AddStep, AddLock, AddOverflow, AddAppend, AddNoMemory,
       AddUnlock, AddSignal, Lock, Unlock
  <2>5. view \in {"streaming", "joinEncoder"}
    BY <1>1, <2>2 DEF AddStep, AddLock, AddOverflow, AddAppend, AddNoMemory,
       AddUnlock, AddSignal, Lock, Unlock
  <2>6. WorkerInv'
    BY <1>0, <1>1, <2>1, <2>2 DEF AddStep, AddLock, AddOverflow, AddAppend,
       AddNoMemory, AddUnlock, AddSignal, Lock, Unlock, WorkerInv
  <2>7. QED
    BY <1>0, <2>3, <2>4, <2>5, <2>6
<1>2. CASE TakeStep(t)
  <2>1. t = worker
    BY <1>2 DEF TakeStep, TakeLock, TakeWait, TakeFirst, TakeNothing, TakeWoken,
       TakeUnlock, Lock, Unlock
  <2>2. alive' = alive /\ abortFlag' = abortFlag
    BY <1>2 DEF TakeStep, TakeLock, TakeWait, TakeFirst, TakeNothing, TakeWoken,
       TakeUnlock
  <2>3. PlaceInv'
    BY <1>0, <1>2, <2>1 DEF TakeStep, TakeLock, TakeWait, TakeFirst, TakeNothing,
       TakeWoken, TakeUnlock, Lock, Unlock
  <2>4. WorkerInv'
    <3>1. CASE TakeFirst(t)
      <4>1. stage = "take" /\ pc[worker] = "takeBody" /\ pc'[worker] = "takeUnlock"
        BY <2>1, <3>1 DEF TakeFirst
      <4>2. Taken' = {firstNode}
        BY <3>1, <4>1 DEF TakeFirst, WorkerInv, Taken
      <4>3. QED
        BY <1>0, <4>1, <4>2 DEF WorkerInv
    <3>2. CASE ~TakeFirst(t)
      <4>1. Taken' = Taken
        BY <1>2, <3>2 DEF TakeStep, TakeLock, TakeWait, TakeNothing, TakeWoken,
           TakeUnlock, Taken
      <4>2. QED
        BY <1>0, <1>2, <2>1, <3>2, <4>1 DEF TakeStep, TakeLock, TakeWait,
           TakeNothing, TakeWoken, TakeUnlock, Lock, Unlock, WorkerInv
    <3>3. QED
      BY <3>1, <3>2
  <2>5. EmptyInv'
    BY <1>0, <1>2, <2>1 DEF TakeStep, TakeLock, TakeWait, TakeFirst, TakeNothing,
       TakeWoken, TakeUnlock, Lock, Unlock
  <2>6. QED
    BY <1>0, <2>2, <2>3, <2>4, <2>5
<1>3. CASE ClearStep(t)
  <2>1. Taken' = Taken
    BY <1>3 DEF ClearStep, ClearSignal, ClearLock, ClearNode, ClearReset,
       ClearUnlock, DestroyFree, Taken
  <2>2. t # worker
    BY <1>3 DEF ClearStep, ClearSignal, ClearLock, ClearNode, ClearReset,
       ClearUnlock, DestroyFree, Lock, Unlock
  <2>3. t = encoder =>
          ClearSignal(t) \/ ClearLock(t)
    BY <1>3 DEF ClearStep, ClearNode, ClearReset, ClearUnlock, DestroyFree, Unlock
  <2>4. ~(t = encoder /\ ClearLock(t))
    BY DEF ClearLock, Lock, LockInv
  <2>5. CASE t = encoder /\ ClearSignal(t)
    BY <1>0, <2>1, <2>5 DEF ClearSignal, WorkerInv
  <2>6. CASE t = ui
    <3>1. PlaceInv' /\ WorkerInv'
      BY <1>0, <1>3, <2>1, <2>6 DEF ClearStep, ClearSignal, ClearLock, ClearNode,
         ClearReset, ClearUnlock, DestroyFree, Lock, Unlock, WorkerInv
    <3>2. view \notin {"absent", "free"} => alive' = alive /\ abortFlag' = abortFlag
      BY <1>0, <1>3, <2>6 DEF ClearStep, ClearSignal, ClearLock, ClearNode,
         ClearReset, ClearUnlock, DestroyFree
    <3>3. EmptyInv'
      BY <1>0, <1>3, <2>6 DEF ClearStep, ClearSignal, ClearLock, ClearNode,
         ClearReset, Reset, ClearUnlock, DestroyFree, Lock, Unlock
    <3>4. QED
      BY <1>0, <3>1, <3>2, <3>3
  <2>7. QED
    BY <2>2, <2>3, <2>4, <2>5, <2>6
<1>4. QED
  BY <1>1, <1>2, <1>3 DEF InQueue, QueueStep

\* Every step of the session preserves PushInv.
LEMMA PushNextPreservesInv ==
  PushInv /\ [PushNext]_pushVars => PushInv'
<1> SUFFICES ASSUME PushInv, [PushNext]_pushVars
             PROVE  PushInv'
  OBVIOUS
<1>1. CASE EncoderStep
  BY <1>1, EncoderKeepsQueue, EncoderKeepsSession DEF PushInv
<1>2. CASE WorkerStep
  BY <1>2, WorkerKeepsQueue, WorkerKeepsSession DEF PushInv
<1>3. CASE StartStep \/ StopEncoder \/ StopStep
  BY <1>3, UiKeepsQueue, UiKeepsSession DEF PushInv
<1>4. ASSUME NEW t \in Threads, InQueue(t)
      PROVE  PushInv'
  BY <1>4, StepKeepsQueue, QueueKeepsSession DEF PushInv, InQueue
<1>5. CASE SpuriousWakeup(worker) /\ UNCHANGED <<clientVars, encoderVars, view, late>>
  <2>1. QueueInv'
    BY <1>5, StepKeepsQueue, ThreadsAreDistinct DEF PushInv
  <2>2. SessionInv'
    BY <1>5 DEF SpuriousWakeup, listVars, clientVars, encoderVars, PushInv,
       SessionInv, SessionTypeOK, PlaceInv, PhaseInv, WorkerInv, EmptyInv,
       QueueIsEmpty, Taken
  <2>3. QED
    BY <2>1, <2>2 DEF PushInv
<1>6. CASE UNCHANGED pushVars
  <2>1. QueueInv'
    BY <1>6, NextPreservesInv DEF pushVars, PushInv
  <2>2. SessionInv'
    BY <1>6 DEF pushVars, queueVars, listVars, clientVars, encoderVars, PushInv,
       SessionInv, SessionTypeOK, PlaceInv, PhaseInv, WorkerInv, EmptyInv,
       QueueIsEmpty, Taken
  <2>3. QED
    BY <2>1, <2>2 DEF PushInv
<1>7. QED
  BY <1>1, <1>2, <1>3, <1>4, <1>5, <1>6 DEF PushNext

\* The invariant of a publishing session, for any packets and any MaxCacheFrame.
THEOREM PushInvariant == PushSpec => []PushInv
<1>1. PushInit => PushInv
  BY PushInitEstablishesInv
<1>2. PushInv /\ [PushNext]_pushVars => PushInv'
  BY PushNextPreservesInv
<1>3. QED
  BY <1>1, <1>2, PTL DEF PushSpec

-----------------------------------------------------------------------------
\* Every variable of the session, and of the queue in it, keeps its type.
THEOREM PushTypeCorrect == PushSpec => []PushTypeOK
<1>1. PushInv => PushTypeOK
  BY DEF PushInv, QueueInv, SessionInv, SessionTypeOK, PushTypeOK
<1>2. QED
  BY <1>1, PushInvariant, PTL

\* The encoder's output thread never runs on a client or a queue that
\* surfaceDestroyed has freed.
THEOREM SenderIsSafe == PushSpec => []SenderHasClient
<1>1. PushInv => SenderHasClient
  BY DEF PushInv, SessionInv, SessionTypeOK, PlaceInv, PhaseInv, SenderHasClient
<1>2. QED
  BY <1>1, PushInvariant, PTL

\* The worker never runs on freed memory, and stop leaves nothing behind.
THEOREM StopIsClean == PushSpec => []StopLeavesNothing
<1>1. PushInv => StopLeavesNothing
  BY DEF PushInv, SessionInv, SessionTypeOK, PlaceInv, PhaseInv, WorkerInv,
     EmptyInv, QueueIsEmpty, StopLeavesNothing, Stages, Views
<1>2. QED
  BY <1>1, PushInvariant, PTL

\* Packets are sent one at a time, over an open connection only.
THEOREM SendsAreConnected == PushSpec => []WorkingMeansConnected
<1>1. ASSUME PushInv, stage = "send"
      PROVE  Cardinality(Taken) = 1
  <2>1. PICK p \in Taken : TRUE
    BY <1>1 DEF PushInv, SessionInv, WorkerInv
  <2>2. Taken = {p}
    BY <1>1, <2>1 DEF PushInv, SessionInv, WorkerInv
  <2>3. QED
    BY <2>2, FS_Singleton
<1>2. PushInv => WorkingMeansConnected
  BY <1>1 DEF PushInv, SessionInv, WorkerInv, WorkingMeansConnected
<1>3. QED
  BY <1>2, PushInvariant, PTL

\* When the worker has gone no packet enters the queue any more.
THEOREM DeadWorkerIsLeftAlone == PushSpec => DeadWorkerGetsNothing
<1>1. ASSUME PushInv, [PushNext]_pushVars, stage = "done", pc[encoder] = "idle"
      PROVE  pc'[encoder] = "idle"
  <2> USE ThreadsAreDistinct, <1>1
  <2>0. pc \in [Threads -> Labels] /\ workFlag # 1
    BY DEF PushInv, SessionInv, WorkerInv, QueueInv, TypeOK
  <2>1. ASSUME NEW t \in Threads, InQueue(t)
        PROVE  pc'[encoder] = "idle"
    BY <2>0, <2>1 DEF InQueue, QueueStep, AddStep, AddLock, AddOverflow, AddAppend,
       AddNoMemory, AddUnlock, AddSignal, TakeStep, TakeLock, TakeWait, TakeFirst,
       TakeNothing, TakeWoken, TakeUnlock, ClearStep, ClearSignal, ClearLock,
       ClearNode, ClearReset, ClearUnlock, DestroyFree, Lock, Unlock, Goto
  <2>2. CASE EncoderStep
    BY <2>0, <2>2 DEF EncoderStep, NextFrame, SendVideoData, RefuseVideoData,
       Working, queueVars
  <2>3. CASE WorkerStep
    BY <2>0, <2>3 DEF WorkerStep, ConnectFails, ConnectSucceeds, TakePacket,
       LeaveLoop, TakeReturns, SendPacket, ReleaseRtmpClient, TakeEnter, Goto,
       queueVars
  <2>4. CASE StartStep \/ StopEncoder \/ StopStep
    BY <2>0, <2>4 DEF StartStep, CreatePushClient, StartPush, StartEncoder,
       StopEncoder, StopStep, JoinEncoder, StopClient, ClearEnter, ClearReturns,
       JoinWorker, DestroyQueue, DestroyEnter, FreeClient, Goto, queueVars
  <2>5. CASE SpuriousWakeup(worker) \/ UNCHANGED pushVars
    BY <2>5 DEF SpuriousWakeup, pushVars, queueVars
  <2>6. QED
    BY <2>1, <2>2, <2>3, <2>4, <2>5 DEF PushNext
<1>2. PushInv /\ [PushNext]_pushVars =>
        [stage = "done" /\ pc[encoder] = "idle" => pc'[encoder] = "idle"]_pushVars
  BY <1>1
<1>3. QED
  BY <1>2, PushInvariant, PTL DEF PushSpec, DeadWorkerGetsNothing
=============================================================================
