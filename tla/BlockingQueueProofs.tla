------------------------ MODULE BlockingQueueProofs -------------------------
(***************************************************************************)
(* Proofs about BlockingQueue for any sets of threads and packets and any  *)
(* MaxCacheFrame.  Every safety property follows from the inductive        *)
(* invariant QueueInv, CountedAreQueued with a count of its own, and with  *)
(* QueueInv each step of the queue is a step of LossyQueue or a stutter.   *)
(***************************************************************************)
EXTENDS BlockingQueue, FiniteSetTheorems, TLAPS

(***************************************************************************)
(* The inductive invariant, in parts.                                      *)
(***************************************************************************)

\* The mutex is held inside the critical labels and by a jammed add, and by
\* nobody else.
LockInv ==
    /\ MutualExclusion
    /\ \A t \in Threads :
         /\ owner = t => \/ pc[t] \in Critical
                         \/ after[t] = "addBody"
         /\ after[t] = "addBody" => /\ owner = t
                                    /\ pc[t] \in {"clearSignal", "clearLock"}

\* A packet is in the hands of at most one adding thread, and belongs to the
\* caller until it is linked.
ArgInv ==
    \A t \in Threads :
        /\ pc[t] \in {"addLock", "addBody"} \/ after[t] = "addBody"
             => arg[t] \in Packets /\ loc[arg[t]] = "caller"
        /\ \A u \in Threads : arg[t] = arg[u] /\ arg[t] # NULL => t = u

InClear == \E t \in Threads : pc[t] = "clearLoop"

\* lastNode is the only node take can return, and at most one node is behind it.
ListInv ==
    /\ ~InClear => firstNode = lastNode
    /\ lastNode # NULL => numNode > 0
    /\ lastNode # NULL /\ next[lastNode] # NULL =>
         next[next[lastNode]] = NULL /\ next[lastNode] # lastNode
    /\ firstNode # NULL => loc[firstNode] = "queued"
    /\ firstNode # NULL /\ next[firstNode] # NULL =>
         loc[next[firstNode]] = "queued"
    /\ firstNode # NULL =>
         lastNode # NULL /\ firstNode \in {lastNode, next[lastNode]}
    /\ \A t \in Threads : pc[t] \in {"clearUnlock", "free"} =>
         firstNode = NULL /\ lastNode = NULL /\ numNode = 0

\* Once abortFlag is 0 only the thread that destroys the queue is in a call.
DestroyInv ==
    /\ \A t \in Threads : pc[t] = "free" \/ after[t] = "free" => abortFlag = 0
    /\ abortFlag = 0 => \A t \in Threads :
         pc[t] # "idle" =>
           /\ after[t] = "free"
           /\ pc[t] \in {"clearSignal", "clearLock", "clearLoop",
                         "clearUnlock", "free"}
           /\ \A u \in Threads : u # t => pc[u] = "idle"
    /\ ~alive => abortFlag = 0 /\ \A t \in Threads : pc[t] = "idle"

\* Tickets never run ahead of the adds, and what the list holds was added after
\* everything that has been taken.
OrderInv ==
    /\ \A p \in Packets : ticket[p] <= tickets
    /\ firstNode # NULL => \A q \in Packets : loc[q] = "taken" =>
         /\ ticket[q] < ticket[firstNode]
         /\ next[firstNode] # NULL => ticket[q] < ticket[next[firstNode]]

\* Only consumers sleep, and never while an add has gone unnoticed.
SleepInv ==
    /\ waiting \subseteq Consumers
    /\ \A t \in Threads :
         pc[t] \in {"takeLock", "takeBody", "takeWait", "takeUnlock"}
           => t \in Consumers
    /\ NoSleepOnData

QueueInv == TypeOK /\ LockInv /\ ArgInv /\ ListInv /\ DestroyInv
               /\ OrderInv /\ SleepInv

-----------------------------------------------------------------------------
\* QueueInv holds when cloudVoiceCreateBlockingQueue returns.
LEMMA InitEstablishesInv ==
  QueueInit => QueueInv
BY QueueAssumption
   DEF QueueInit, QueueInv, TypeOK, LockInv, ArgInv, ListInv, DestroyInv,
       OrderInv, SleepInv, MutualExclusion, NoSleepOnData, InClear, Critical,
       Locations, Labels

\* Each step of add preserves QueueInv.
LEMMA AddPreservesInv ==
  ASSUME QueueInv, NEW t \in Threads,
         AddStep(t)
  PROVE  QueueInv'
<1> USE QueueAssumption
    DEF QueueInv, TypeOK, LockInv, ArgInv, ListInv, DestroyInv, OrderInv,
         SleepInv, MutualExclusion, NoSleepOnData, InClear, Critical, Locations,
         Labels, listVars, history, Goto
<1>1. CASE AddLock(t)
  BY <1>1 DEF AddLock, Lock
<1>2. CASE AddOverflow(t)
  BY <1>2 DEF AddOverflow, TooMany
<1>3. CASE AddAppend(t)
  BY <1>3 DEF AddAppend, TooMany, Link
<1>4. CASE AddNoMemory(t)
  BY <1>4 DEF AddNoMemory, TooMany
<1>5. CASE AddUnlock(t)
  BY <1>5 DEF AddUnlock, Unlock
<1>6. CASE AddSignal(t)
  BY <1>6 DEF AddSignal, Signal
<1>7. QED
  BY <1>1, <1>2, <1>3, <1>4, <1>5, <1>6 DEF AddStep

\* Each step of take preserves QueueInv.
LEMMA TakePreservesInv ==
  ASSUME QueueInv, NEW t \in Threads,
         TakeStep(t)
  PROVE  QueueInv'
<1> USE QueueAssumption
    DEF QueueInv, TypeOK, LockInv, ArgInv, ListInv, DestroyInv, OrderInv,
         SleepInv, MutualExclusion, NoSleepOnData, InClear, Critical, Locations,
         Labels, listVars, history, Goto
<1>1. CASE TakeLock(t)
  BY <1>1 DEF TakeLock, Lock
<1>2. CASE TakeWait(t)
  BY <1>2 DEF TakeWait, Unlock
<1>3. CASE TakeFirst(t)
  BY <1>3 DEF TakeFirst, Unlink, TakeCount
<1>4. CASE TakeNothing(t)
  BY <1>4 DEF TakeNothing
<1>5. CASE TakeWoken(t)
  BY <1>5 DEF TakeWoken, Lock
<1>6. CASE TakeUnlock(t)
  BY <1>6 DEF TakeUnlock, Unlock
<1>7. QED
  BY <1>1, <1>2, <1>3, <1>4, <1>5, <1>6 DEF TakeStep

\* Each step of clear and destroy preserves QueueInv.
LEMMA ClearPreservesInv ==
  ASSUME QueueInv, NEW t \in Threads,
         ClearStep(t)
  PROVE  QueueInv'
<1> USE QueueAssumption
    DEF QueueInv, TypeOK, LockInv, ArgInv, ListInv, DestroyInv, OrderInv,
         SleepInv, MutualExclusion, NoSleepOnData, InClear, Critical, Locations,
         Labels, listVars, history, Goto
<1>1. CASE ClearSignal(t)
  BY <1>1 DEF ClearSignal, Signal
<1>2. CASE ClearLock(t)
  BY <1>2 DEF ClearLock, Lock
<1>3. CASE ClearNode(t)
  BY <1>3 DEF ClearNode
<1>4. CASE ClearReset(t)
  BY <1>4 DEF ClearReset, Reset
<1>5. CASE ClearUnlock(t)
  BY <1>5 DEF ClearUnlock, Unlock
<1>6. CASE DestroyFree(t)
  <2>1. /\ pc[t] = "free" /\ pc' = [pc EXCEPT ![t] = "idle"]
        /\ alive' = FALSE
        /\ after' = [after EXCEPT ![t] = "idle"]
        /\ UNCHANGED <<firstNode, lastNode, next, numNode, owner, waiting,
                       abortFlag, arg, loc, ticket, tickets>>
    BY <1>6 DEF DestroyFree
  <2>2. abortFlag = 0 /\ \A u \in Threads : u # t => pc[u] = "idle"
    BY <2>1
  <2>3. waiting = {}
    BY <2>1, <2>2
  <2>4. TypeOK'
    BY <2>1
  <2>5. LockInv' /\ ArgInv'
    BY <2>1
  <2>6. ListInv'
    BY <2>1
  <2>7. DestroyInv' /\ SleepInv'
    BY <2>1, <2>2, <2>3
  <2>8. OrderInv'
    BY <2>1
  <2>9. QED
    BY <2>4, <2>5, <2>6, <2>7, <2>8
<1>7. QED
  BY <1>1, <1>2, <1>3, <1>4, <1>5, <1>6 DEF ClearStep

\* A call made by a thread of the queue, and a spurious wakeup, preserve QueueInv.
LEMMA CallPreservesInv ==
  ASSUME QueueInv, NEW t \in Threads,
         Call(t) \/ SpuriousWakeup(t) \/ Destroy(t)
  PROVE  QueueInv'
<1> USE QueueAssumption
    DEF QueueInv, TypeOK, LockInv, ArgInv, ListInv, DestroyInv, OrderInv,
         SleepInv, MutualExclusion, NoSleepOnData, InClear, Critical, Locations,
         Labels, listVars, history, Goto
<1>1. ASSUME NEW p \in Unclaimed, AddEnter(t, p)
     PROVE  QueueInv'
  BY <1>1 DEF AddEnter, Unclaimed
<1>2. CASE t \in Consumers /\ TakeEnter(t)
  BY <1>2 DEF TakeEnter
<1>3. CASE abortFlag = 1 /\ ClearEnter(t)
  BY <1>3 DEF ClearEnter
<1>4. CASE SpuriousWakeup(t)
  BY <1>4 DEF SpuriousWakeup
<1>5. CASE Destroy(t)
  BY <1>5 DEF Destroy, DestroyEnter, Abort
<1>6. QED
  BY <1>1, <1>2, <1>3, <1>4, <1>5 DEF Call

\* Every step of the specification preserves QueueInv.
LEMMA NextPreservesInv ==
  QueueInv /\ [Next]_queueVars => QueueInv'
<1> SUFFICES ASSUME QueueInv, [Next]_queueVars
             PROVE  QueueInv'
  OBVIOUS
<1>1. CASE UNCHANGED queueVars
  BY <1>1 DEF queueVars, QueueInv, TypeOK, LockInv, ArgInv, ListInv, DestroyInv, OrderInv,
         SleepInv, MutualExclusion, NoSleepOnData, InClear, Critical, Locations,
         Labels, listVars, history, Goto
<1>2. CASE Next
  BY <1>2, AddPreservesInv, TakePreservesInv, ClearPreservesInv,
     CallPreservesInv DEF Next, QueueStep, Threads
<1>3. QED
  BY <1>1, <1>2

\* QueueInv holds in every reachable state, for every value of the constants.
THEOREM QueueInvariant == Spec => []QueueInv
<1>1. QueueInit => QueueInv
  BY InitEstablishesInv
<1>2. QueueInv /\ [Next]_queueVars => QueueInv'
  BY NextPreservesInv
<1>3. QED
  BY <1>1, <1>2, PTL DEF Spec

-----------------------------------------------------------------------------
(***************************************************************************)
(* What QueueInv gives: the safety properties of BlockingQueue.            *)
(***************************************************************************)

\* numNode never exceeds MAX_CACHE_FRAME + 1, and every variable has its type.
THEOREM TypeCorrect == Spec => []TypeOK
<1>1. QueueInv => TypeOK
  BY DEF QueueInv
<1>2. QED
  BY <1>1, QueueInvariant, PTL

\* add, take and clear exclude each other on the list.
THEOREM ListIsProtected == Spec => []MutualExclusion
<1>1. QueueInv => MutualExclusion
  BY DEF QueueInv, LockInv
<1>2. QED
  BY <1>1, QueueInvariant, PTL

\* The list never refers to a node that take or clear has freed.
THEOREM ListIsSound == Spec => []NoDanglingNode
<1>1. QueueInv => NoDanglingNode
  BY DEF QueueInv, ListInv, InClear, NoDanglingNode
<1>2. QED
  BY <1>1, QueueInvariant, PTL

\* No consumer sleeps through an add.
THEOREM WakeupIsNotLost == Spec => []NoSleepOnData
<1>1. QueueInv => NoSleepOnData
  BY DEF QueueInv, SleepInv
<1>2. QED
  BY <1>1, QueueInvariant, PTL

\* After destroy has freed the queue nobody is inside a call of it.
THEOREM FreedQueueIsQuiet == Spec => []NoUseAfterFree
<1>1. QueueInv => NoUseAfterFree
  BY DEF QueueInv, DestroyInv, NoUseAfterFree
<1>2. QED
  BY <1>1, QueueInvariant, PTL

\* Packets are taken in the order of the adds.
THEOREM TakesAreInOrder == Spec => InOrder
<1>1. ASSUME QueueInv, [Next]_queueVars,
             NEW p \in Packets, NEW q \in Packets,
             loc[p] # "taken", loc'[p] = "taken", loc[q] = "taken"
      PROVE  ticket[q] < ticket[p]
  <2>1. \E t \in Threads : TakeFirst(t)
    BY <1>1 DEF QueueInv, TypeOK, ArgInv, queueVars, listVars, history, Next,
         Call, QueueStep, AddStep, TakeStep, ClearStep, AddEnter, AddLock,
         AddOverflow, AddAppend, AddNoMemory, AddUnlock, AddSignal, TakeEnter,
         TakeLock, TakeWait, TakeNothing, TakeWoken, TakeUnlock, ClearEnter,
         ClearSignal, ClearLock, ClearNode, ClearReset, ClearUnlock, Destroy,
         DestroyEnter, DestroyFree, SpuriousWakeup
  <2>2. p = firstNode
    BY <1>1, <2>1 DEF TakeFirst, QueueInv, TypeOK
  <2>3. QED
    BY <1>1, <2>1, <2>2 DEF TakeFirst, QueueInv, OrderInv
<1>2. QueueInv /\ [Next]_queueVars =>
        [\A p, q \in Packets :
            (loc[p] # "taken" /\ loc'[p] = "taken" /\ loc[q] = "taken")
               => ticket[q] < ticket[p]]_queueVars
  BY <1>1
<1>3. QED
  BY <1>2, QueueInvariant, PTL DEF Spec, InOrder

Queued == {p \in Packets : loc[p] = "queued"}

\* The count never promises more than there is, except while clear walks the list.
CountInv == IsFiniteSet(Queued) /\ (numNode <= Cardinality(Queued) \/ InClear)

\* A step of add, of which only AddAppend touches the count, preserves CountInv.
LEMMA AddKeepsCount ==
  ASSUME QueueInv, CountInv, NEW t \in Threads, AddStep(t)
  PROVE  CountInv'
<1> USE DEF QueueInv, TypeOK, Goto, listVars, history
<1>1. CASE AddAppend(t)
  <2>1. arg[t] \in Packets /\ loc[arg[t]] = "caller"
    BY <1>1 DEF AddAppend, ArgInv
  <2>2. Queued' = Queued \cup {arg[t]} /\ arg[t] \notin Queued
    BY <1>1, <2>1 DEF AddAppend, Queued
  <2>3. IsFiniteSet(Queued') /\ Cardinality(Queued') = Cardinality(Queued) + 1
    BY <2>2, FS_AddElement DEF CountInv
  <2>4. ~InClear
    BY <1>1 DEF AddAppend, InClear, LockInv, MutualExclusion, Critical
  <2>5. Cardinality(Queued) \in Nat
    BY FS_CardinalityType DEF CountInv
  <2>6. QED
    BY <1>1, <2>3, <2>4, <2>5 DEF AddAppend, CountInv
<1>2. CASE ~AddAppend(t)
  <2>1. Queued' = Queued /\ numNode' = numNode
    BY <1>2 DEF AddStep, AddLock, AddOverflow, AddNoMemory, AddUnlock, AddSignal,
       ArgInv, Queued
  <2>2. InClear => InClear'
    BY <1>2 DEF AddStep, AddLock, AddOverflow, AddNoMemory, AddUnlock, AddSignal,
       Lock, Unlock, InClear
  <2>3. QED
    BY <2>1, <2>2 DEF CountInv
<1>3. QED
  BY <1>1, <1>2

\* take removes one packet for one unit of the count.
LEMMA TakeKeepsCount ==
  ASSUME QueueInv, CountInv, NEW t \in Threads, TakeStep(t)
  PROVE  CountInv'
<1> USE DEF QueueInv, TypeOK, Goto, listVars, history
<1>1. CASE TakeFirst(t)
  <2>1. firstNode \in Queued
    BY <1>1 DEF TakeFirst, ListInv, Queued
  <2>2. Queued' = Queued \ {firstNode}
    BY <1>1, <2>1 DEF TakeFirst, Queued
  <2>3. IsFiniteSet(Queued') /\ Cardinality(Queued') = Cardinality(Queued) - 1
    BY <2>1, <2>2, FS_RemoveElement DEF CountInv
  <2>4. ~InClear
    BY <1>1 DEF TakeFirst, InClear, LockInv, MutualExclusion, Critical
  <2>5. Cardinality(Queued) \in Nat
    BY FS_CardinalityType DEF CountInv
  <2>6. QED
    BY <1>1, <2>3, <2>4, <2>5 DEF TakeFirst, TakeCount, CountInv
<1>2. CASE ~TakeFirst(t)
  <2>1. Queued' = Queued /\ numNode' = numNode
    BY <1>2 DEF TakeStep, TakeLock, TakeWait, TakeNothing, TakeWoken, TakeUnlock,
       Queued
  <2>2. InClear => InClear'
    BY <1>2 DEF TakeStep, TakeLock, TakeWait, TakeNothing, TakeWoken, TakeUnlock,
       Lock, Unlock, InClear
  <2>3. QED
    BY <2>1, <2>2 DEF CountInv
<1>3. QED
  BY <1>1, <1>2

\* clear leaves its loop with a count of zero.
LEMMA ClearKeepsCount ==
  ASSUME QueueInv, CountInv, NEW t \in Threads, ClearStep(t)
  PROVE  CountInv'
<1> USE DEF QueueInv, TypeOK, Goto, listVars, history
<1>1. CASE ClearNode(t)
  <2>1. Queued' \subseteq Queued
    BY <1>1 DEF ClearNode, Queued
  <2>2. InClear'
    BY <1>1 DEF ClearNode, InClear
  <2>3. QED
    BY <2>1, <2>2, FS_Subset DEF CountInv
<1>2. CASE ClearReset(t)
  <2>1. Queued' = Queued /\ numNode' = 0
    BY <1>2 DEF ClearReset, Reset, Queued
  <2>2. Cardinality(Queued) \in Nat
    BY FS_CardinalityType DEF CountInv
  <2>3. QED
    BY <2>1, <2>2 DEF CountInv
<1>3. CASE ~ClearNode(t) /\ ~ClearReset(t)
  <2>1. Queued' = Queued /\ numNode' = numNode
    BY <1>3 DEF ClearStep, ClearSignal, ClearLock, ClearUnlock, DestroyFree, Queued
  <2>2. InClear => InClear'
    BY <1>3 DEF ClearStep, ClearSignal, ClearLock, ClearUnlock, DestroyFree,
       Lock, Unlock, InClear
  <2>3. QED
    BY <2>1, <2>2 DEF CountInv
<1>4. QED
  BY <1>1, <1>2, <1>3

\* numNode never promises more than there is.
THEOREM CountIsHonest == Spec => []CountedAreQueued
<1>1. QueueInit => CountInv
  <2> SUFFICES ASSUME QueueInit
               PROVE  CountInv
    OBVIOUS
  <2>1. Queued = {}
    BY DEF QueueInit, Queued
  <2>2. QED
    BY <2>1, FS_EmptySet DEF QueueInit, CountInv
<1>2. QueueInv /\ CountInv /\ [Next]_queueVars => CountInv'
  <2> SUFFICES ASSUME QueueInv, CountInv, [Next]_queueVars
               PROVE  CountInv'
    OBVIOUS
  <2>1. ASSUME NEW t \in Threads, QueueStep(t)
        PROVE  CountInv'
    BY <2>1, AddKeepsCount, TakeKeepsCount, ClearKeepsCount DEF QueueStep
  <2>2. ASSUME NEW t \in Threads, Call(t) \/ SpuriousWakeup(t) \/ Destroy(t)
        PROVE  CountInv'
    <3>1. Queued' = Queued /\ numNode' = numNode
      BY <2>2 DEF Call, AddEnter, TakeEnter, ClearEnter, SpuriousWakeup, Destroy,
         DestroyEnter, listVars, Queued
    <3>2. InClear => InClear'
      BY <2>2 DEF Call, AddEnter, TakeEnter, ClearEnter, SpuriousWakeup, Destroy,
         DestroyEnter, Goto, InClear, QueueInv, TypeOK
    <3>3. QED
      BY <3>1, <3>2 DEF CountInv
  <2>3. CASE UNCHANGED queueVars
    BY <2>3 DEF queueVars, listVars, CountInv, Queued, InClear
  <2>4. QED
    BY <2>1, <2>2, <2>3 DEF Next, Threads
<1>3. QueueInv /\ CountInv => CountedAreQueued
  BY DEF QueueInv, ListInv, CountInv, Queued, InClear, CountedAreQueued
<1>4. QED
  BY <1>1, <1>2, <1>3, QueueInvariant, PTL DEF Spec

\* With a thread jammed no other thread is inside the list, and nobody can
\* enter it.
LEMMA JammedExcludes ==
  ASSUME QueueInv, NEW t \in Threads, Jammed(t)
  PROVE  /\ \A u \in Threads : pc[u] \notin Critical
         /\ owner = t
         /\ after[t] = "addBody"
         /\ abortFlag = 1
BY DEF QueueInv, TypeOK, LockInv, DestroyInv, MutualExclusion, Jammed, Critical,
       Labels

\* The overflow branch of add ends every later operation on the list.
THEOREM OverflowEndsTheQueue == Spec => OverflowIsFatal
<1>1. ASSUME QueueInv, [Next]_queueVars, NEW t \in Threads, Jammed(t)
      PROVE  UNCHANGED <<listVars, loc, alive>> /\ Jammed(t)'
  <2> USE QueueAssumption, <1>1, JammedExcludes
      DEF Jammed, Critical, Goto, listVars, history
  <2>1. CASE UNCHANGED queueVars
    BY <2>1 DEF queueVars
  <2>2. ASSUME NEW u \in Threads, AddStep(u)
        PROVE  UNCHANGED <<listVars, loc, alive>> /\ Jammed(t)'
    BY <2>2 DEF AddStep, AddLock, AddOverflow, AddAppend, AddNoMemory,
         AddUnlock, AddSignal, Lock, Unlock, QueueInv, TypeOK
  <2>3. ASSUME NEW u \in Threads, TakeStep(u)
        PROVE  UNCHANGED <<listVars, loc, alive>> /\ Jammed(t)'
    BY <2>3 DEF TakeStep, TakeLock, TakeWait, TakeFirst, TakeNothing,
         TakeWoken, TakeUnlock, Lock, Unlock, QueueInv, TypeOK
  <2>4. ASSUME NEW u \in Threads, ClearStep(u)
        PROVE  UNCHANGED <<listVars, loc, alive>> /\ Jammed(t)'
    BY <2>4 DEF ClearStep, ClearSignal, ClearLock, ClearNode, ClearReset,
         ClearUnlock, DestroyFree, Lock, Unlock, QueueInv, TypeOK, DestroyInv
  <2>5. ASSUME NEW u \in Threads, Call(u) \/ SpuriousWakeup(u) \/ Destroy(u)
        PROVE  UNCHANGED <<listVars, loc, alive>> /\ Jammed(t)'
    BY <2>5 DEF Call, AddEnter, TakeEnter, ClearEnter, SpuriousWakeup, Destroy,
         DestroyEnter, QueueInv, TypeOK
  <2>6. QED
    BY <2>1, <2>2, <2>3, <2>4, <2>5 DEF Next, QueueStep, Threads
<1>2. QueueInv /\ [Next]_queueVars =>
        [(\E t \in Threads : Jammed(t)) =>
           /\ UNCHANGED <<listVars, loc, alive>>
           /\ \E t \in Threads : Jammed(t)']_queueVars
  BY <1>1
<1>3. QED
  BY <1>2, QueueInvariant, PTL DEF Spec, OverflowIsFatal

-----------------------------------------------------------------------------
(***************************************************************************)
(* BlockingQueue implements LossyQueue: each critical section is one step  *)
(* of LossyQueue, each signal wakes one sleeper or nobody, and every other *)
(* step leaves the abstract state alone.                                   *)
(***************************************************************************)

\* A new queue is an empty LossyQueue.
LEMMA InitRefines ==
  QueueInit => LQ!LQInit
BY QueueAssumption DEF QueueInit, LQ!LQInit, Jammed

\* Only AddOverflow makes a thread jammed, and none leaves that state.
LEMMA JammedIsStable ==
  ASSUME QueueInv, NEW t \in Threads, QueueStep(t) \/ Call(t)
           \/ SpuriousWakeup(t) \/ Destroy(t),
         ~AddOverflow(t)
  PROVE  (\E u \in Threads : Jammed(u))' <=> \E u \in Threads : Jammed(u)
BY QueueAssumption
   DEF QueueStep, AddStep, TakeStep, ClearStep, Call, Jammed, Goto, Lock,
       Unlock, AddEnter, AddLock, AddAppend, AddNoMemory, AddUnlock, AddSignal,
       TakeEnter, TakeLock, TakeWait, TakeFirst, TakeNothing, TakeWoken,
       TakeUnlock, ClearEnter, ClearSignal, ClearLock, ClearNode, ClearReset,
       ClearUnlock, DestroyFree, Destroy, DestroyEnter, SpuriousWakeup,
       QueueInv, TypeOK, LockInv, MutualExclusion, DestroyInv, Critical, Labels

\* The critical section of add is Put or Overflow.
LEMMA AddRefines ==
  ASSUME QueueInv, NEW t \in Threads, AddStep(t)
  PROVE  LQ!LQNext \/ UNCHANGED LQ!lqVars
<1> USE QueueAssumption DEF QueueInv, TypeOK, Goto, history, listVars
<1>1. alive \/ pc[t] = "idle"
  BY DEF DestroyInv
<1>2. CASE AddOverflow(t)
  <2>1. ~\E u \in Threads : Jammed(u)
    BY <1>2 DEF AddOverflow, LockInv, MutualExclusion, Critical, Jammed
  <2>2. Jammed(t)'
    BY <1>2 DEF AddOverflow, LockInv, MutualExclusion, Critical, Jammed
  <2>3. LQ!Overflow
    BY <1>1, <1>2, <2>1, <2>2 DEF AddOverflow, TooMany, LQ!Overflow, LQ!Room
  <2>4. QED
    BY <2>3 DEF LQ!LQNext
<1>3. CASE AddAppend(t)
  <2>1. ~\E u \in Threads : Jammed(u)
    BY <1>3 DEF AddAppend, LockInv, MutualExclusion, Critical, Jammed
  <2>2. (~\E u \in Threads : Jammed(u))'
    BY <2>1, <1>3, JammedIsStable DEF QueueStep, AddStep, AddAppend, AddOverflow,
       TooMany
  <2>3. arg[t] \in Packets /\ loc[arg[t]] = "caller"
    BY <1>3 DEF AddAppend, ArgInv
  <2>4. lastNode # NULL => lastNode # arg[t]
    BY <1>3, <2>3 DEF AddAppend, ListInv, InClear, LockInv, MutualExclusion,
       Critical
  <2>5. {p \in Packets : loc[p] = "taken"}' = {p \in Packets : loc[p] = "taken"}
    BY <1>3, <2>3 DEF AddAppend
  <2>6. LQ!Put(arg[t])
    BY <1>1, <1>3, <2>1, <2>2, <2>3, <2>4, <2>5
       DEF AddAppend, Link, TooMany, LQ!Put, LQ!Room
  <2>7. QED
    BY <2>3, <2>6 DEF LQ!LQNext
<1>4. CASE AddSignal(t)
  <2>1. CASE waiting = {}
    BY <1>4, <2>1, JammedIsStable
       DEF AddSignal, Signal, QueueStep, AddStep, AddOverflow, LQ!lqVars
  <2>2. ASSUME NEW u \in waiting, waiting' = waiting \ {u}
        PROVE  LQ!Wake(u)
    BY <1>1, <1>4, <2>2, JammedIsStable
       DEF AddSignal, QueueStep, AddStep, AddOverflow, LQ!Wake
  <2>3. QED
    BY <1>4, <2>1, <2>2 DEF AddSignal, Signal, LQ!LQNext
<1>5. CASE AddNoMemory(t)
  <2>1. arg[t] \in Packets /\ loc[arg[t]] = "caller"
    BY <1>5 DEF AddNoMemory, ArgInv
  <2>2. {p \in Packets : loc[p] = "taken"}' = {p \in Packets : loc[p] = "taken"}
    BY <1>5, <2>1 DEF AddNoMemory
  <2>3. QED
    BY <1>5, <2>2, JammedIsStable
       DEF AddNoMemory, QueueStep, AddStep, AddOverflow, TooMany, LQ!lqVars
<1>6. CASE AddLock(t) \/ AddUnlock(t)
  BY <1>6, JammedIsStable DEF AddLock, AddUnlock, Lock, Unlock, QueueStep,
     AddStep, AddOverflow, LQ!lqVars
<1>7. QED
  BY <1>2, <1>3, <1>4, <1>5, <1>6 DEF AddStep

\* The critical section of take is Get, Sleep or a step that changes nothing.
LEMMA TakeRefines ==
  ASSUME QueueInv, NEW t \in Threads, TakeStep(t)
  PROVE  LQ!LQNext \/ UNCHANGED LQ!lqVars
<1> USE QueueAssumption DEF QueueInv, TypeOK, Goto, history, listVars
<1>1. alive \/ pc[t] = "idle"
  BY DEF DestroyInv
<1>2. ~AddOverflow(t)
  BY DEF TakeStep, TakeLock, TakeWait, TakeFirst, TakeNothing, TakeWoken,
     TakeUnlock, Lock, Unlock, AddOverflow
<1>3. (\E u \in Threads : Jammed(u))' <=> \E u \in Threads : Jammed(u)
  BY <1>2, JammedIsStable DEF QueueStep
<1>4. CASE TakeWait(t)
  <2>1. ~\E u \in Threads : Jammed(u)
    BY <1>4 DEF TakeWait, Unlock, LockInv, MutualExclusion, Critical, Jammed
  <2>2. LQ!Sleep(t)
    BY <1>1, <1>3, <1>4, <2>1 DEF TakeWait, Unlock, LQ!Sleep
  <2>3. QED
    BY <2>2 DEF LQ!LQNext
<1>5. CASE TakeFirst(t)
  <2>1. ~\E u \in Threads : Jammed(u)
    BY <1>5 DEF TakeFirst, LockInv, MutualExclusion, Critical, Jammed
  <2>2. firstNode = lastNode /\ firstNode \in Packets
    BY <1>5 DEF TakeFirst, ListInv, InClear, LockInv, MutualExclusion, Critical
  <2>3. {p \in Packets : loc[p] = "taken"}'
          = {p \in Packets : loc[p] = "taken"} \cup {lastNode}
    BY <1>5, <2>2 DEF TakeFirst
  <2>4. LQ!Get
    BY <1>1, <1>3, <1>5, <2>1, <2>2, <2>3
       DEF TakeFirst, Unlink, TakeCount, LQ!Get, LQ!Vacate
  <2>5. QED
    BY <2>4 DEF LQ!LQNext
<1>6. CASE TakeLock(t) \/ TakeNothing(t) \/ TakeWoken(t) \/ TakeUnlock(t)
  BY <1>3, <1>6 DEF TakeLock, TakeNothing, TakeWoken, TakeUnlock, Lock, Unlock,
     LQ!lqVars
<1>7. QED
  BY <1>4, <1>5, <1>6 DEF TakeStep

\* clear empties the queue in its last step, and destroy closes an empty one.
LEMMA ClearRefines ==
  ASSUME QueueInv, NEW t \in Threads, ClearStep(t)
  PROVE  LQ!LQNext \/ UNCHANGED LQ!lqVars
<1> USE QueueAssumption DEF QueueInv, TypeOK, Goto, history, listVars
<1>1. alive \/ pc[t] = "idle"
  BY DEF DestroyInv
<1>2. ~AddOverflow(t)
  BY DEF ClearStep, ClearSignal, ClearLock, ClearNode, ClearReset, ClearUnlock,
     DestroyFree, Lock, Unlock, AddOverflow
<1>3. (\E u \in Threads : Jammed(u))' <=> \E u \in Threads : Jammed(u)
  BY <1>2, JammedIsStable DEF QueueStep
<1>4. CASE ClearSignal(t)
  <2>1. CASE waiting = {}
    BY <1>3, <1>4, <2>1 DEF ClearSignal, Signal, LQ!lqVars
  <2>2. ASSUME NEW u \in waiting, waiting' = waiting \ {u}
        PROVE  LQ!Wake(u)
    BY <1>1, <1>3, <1>4, <2>2 DEF ClearSignal, LQ!Wake
  <2>3. QED
    BY <1>4, <2>1, <2>2 DEF ClearSignal, Signal, LQ!LQNext
<1>5. CASE ClearNode(t)
  <2>1. loc[firstNode] = "queued"
    BY <1>5 DEF ClearNode, ListInv
  <2>2. {p \in Packets : loc[p] = "taken"}' = {p \in Packets : loc[p] = "taken"}
    BY <1>5, <2>1 DEF ClearNode
  <2>3. QED
    BY <1>3, <1>5, <2>2 DEF ClearNode, LQ!lqVars
<1>6. CASE ClearReset(t)
  <2>1. ~\E u \in Threads : Jammed(u)
    BY <1>6 DEF ClearReset, LockInv, MutualExclusion, Critical, Jammed
  <2>2. LQ!Empty
    BY <1>1, <1>3, <1>6, <2>1 DEF ClearReset, Reset, LQ!Empty
  <2>3. QED
    BY <2>2 DEF LQ!LQNext
<1>7. CASE DestroyFree(t)
  <2>1. lastNode = NULL /\ numNode = 0 /\ abortFlag = 0
    BY <1>7 DEF DestroyFree, ListInv, DestroyInv
  <2>2. ~\E u \in Threads : Jammed(u)
    BY <2>1, JammedExcludes
  <2>3. LQ!Close
    BY <1>1, <1>3, <1>7, <2>1, <2>2 DEF DestroyFree, LQ!Close
  <2>4. QED
    BY <2>3 DEF LQ!LQNext
<1>8. CASE ClearLock(t) \/ ClearUnlock(t)
  BY <1>3, <1>8 DEF ClearLock, ClearUnlock, Lock, Unlock, LQ!lqVars
<1>9. QED
  BY <1>4, <1>5, <1>6, <1>7, <1>8 DEF ClearStep

\* The start of a call is invisible; a spurious wakeup is a wakeup.
LEMMA CallRefines ==
  ASSUME QueueInv, NEW t \in Threads,
         Call(t) \/ SpuriousWakeup(t) \/ Destroy(t)
  PROVE  LQ!LQNext \/ UNCHANGED LQ!lqVars
<1> USE QueueAssumption DEF QueueInv, TypeOK, Goto, history, listVars
<1>1. ~AddOverflow(t)
  BY DEF Call, AddEnter, TakeEnter, ClearEnter, SpuriousWakeup, Destroy,
     DestroyEnter, AddOverflow, LockInv, MutualExclusion
<1>2. (\E u \in Threads : Jammed(u))' <=> \E u \in Threads : Jammed(u)
  BY <1>1, JammedIsStable
<1>3. CASE Call(t) \/ Destroy(t)
  BY <1>2, <1>3 DEF Call, AddEnter, TakeEnter, ClearEnter, Destroy,
     DestroyEnter, LQ!lqVars
<1>4. CASE SpuriousWakeup(t)
  <2>1. alive
    BY <1>4 DEF SpuriousWakeup, DestroyInv, LockInv, MutualExclusion
  <2>2. LQ!Wake(t)
    BY <1>2, <1>4, <2>1 DEF SpuriousWakeup, LQ!Wake
  <2>3. QED
    BY <2>2 DEF LQ!LQNext
<1>5. QED
  BY <1>3, <1>4

\* The queue of the C code, with its nodes, mutex and calls, implements the
\* abstract queue.
THEOREM QueueImplementsLossyQueue == Spec => ImplementsLossyQueue
<1>1. QueueInit => LQ!LQInit
  BY InitRefines
<1>2. QueueInv /\ [Next]_queueVars => [LQ!LQNext]_(LQ!lqVars)
  <2> SUFFICES ASSUME QueueInv, [Next]_queueVars
               PROVE  LQ!LQNext \/ UNCHANGED LQ!lqVars
    OBVIOUS
  <2>1. CASE UNCHANGED queueVars
    BY <2>1 DEF queueVars, listVars, LQ!lqVars, Jammed
  <2>2. CASE Next
    BY <2>2, AddRefines, TakeRefines, ClearRefines, CallRefines
       DEF Next, QueueStep, Threads
  <2>3. QED
    BY <2>1, <2>2
<1>3. QED
  BY <1>1, <1>2, QueueInvariant, PTL DEF Spec, ImplementsLossyQueue, LQ!LQSpec

=============================================================================
