--------------------------- MODULE BlockingQueue ----------------------------
(***************************************************************************)
(* The blocking queue of cloudvoice_blocking_queue.c: a linked list under  *)
(* one mutex and one condition variable, called by any number of threads.  *)
(*                                                                         *)
(* A call is a sequence of steps cut where another thread can interfere:   *)
(* the unlocked test of abortFlag, the lock, the critical section, the     *)
(* unlock, the signal.  A node is identified with the packet it carries (a *)
(* packet is added at most once, so malloc returns a node of its own for   *)
(* it), and next[p] is the next field of p's node.                         *)
(***************************************************************************)
EXTENDS Naturals, FiniteSets

CONSTANTS
    Producers,      \* threads that call add
    Consumers,      \* threads that call take in a loop
    Controllers,    \* threads that call clear, and destroy at the end
    Packets,        \* the elements, each added at most once
    MaxCacheFrame,  \* MAX_CACHE_FRAME
    NULL            \* the null pointer

Threads == Producers \cup Consumers \cup Controllers

ASSUME QueueAssumption ==
    /\ MaxCacheFrame \in Nat
    /\ NULL \notin Packets
    /\ NULL \notin Threads

VARIABLES
    firstNode, lastNode, next, numNode,  \* the list
    owner,      \* the thread that holds clMutex, or NULL
    waiting,    \* the threads blocked on clCond
    abortFlag,  \* 1 from create to destroy
    alive,      \* the queue's memory has not been freed
    pc,         \* where each thread is in its call
    after,      \* where a thread's clear returns to
    arg,        \* the element a thread is adding
    loc,        \* who is responsible for each packet ("dropped": nobody)
    ticket,     \* history: the place of each packet in the order of the adds
    tickets     \* history: the number of adds

listVars == <<firstNode, lastNode, next, numNode>>
history == <<ticket, tickets>>
queueVars == <<listVars, owner, waiting, abortFlag, alive, pc, after, arg,
               loc, history>>

Locations == {"caller", "queued", "taken", "freed", "dropped"}
Labels == {"idle", "addLock", "addBody", "addUnlock", "addSignal",
           "takeLock", "takeBody", "takeWait", "takeUnlock",
           "clearSignal", "clearLock", "clearLoop", "clearUnlock", "free"}
\* The labels of the code between cloudVoiceLockMutex and its unlock.
Critical == {"addBody", "addUnlock", "takeBody", "takeUnlock",
             "clearLoop", "clearUnlock"}

QueueInit ==
    /\ firstNode = NULL
    /\ lastNode = NULL
    /\ next = [p \in Packets |-> NULL]
    /\ numNode = 0
    /\ owner = NULL
    /\ waiting = {}
    /\ abortFlag = 1
    /\ alive = TRUE
    /\ pc = [t \in Threads |-> "idle"]
    /\ after = [t \in Threads |-> "idle"]
    /\ arg = [t \in Threads |-> NULL]
    /\ loc = [p \in Packets |-> "caller"]
    /\ ticket = [p \in Packets |-> 0]
    /\ tickets = 0

-----------------------------------------------------------------------------
(***************************************************************************)
(* The mutex and the condition variable.  The mutex is a default pthread   *)
(* mutex: a thread that locks it twice waits for itself.                   *)
(***************************************************************************)

Goto(t, from, to) ==
    /\ pc[t] = from
    /\ pc' = [pc EXCEPT ![t] = to]

\* Slip: the mutex is made recursive.
LockRecursive(t, from, to) ==
    /\ Goto(t, from, to)
    /\ owner \in {NULL, t}
    /\ owner' = t

Lock(t, from, to) ==
    /\ Goto(t, from, to)
    /\ owner = NULL
    /\ owner' = t

Unlock(t, from, to) ==
    /\ Goto(t, from, to)
    /\ owner' = NULL

\* Slip: nobody is woken.
SignalForgotten == UNCHANGED waiting

\* pthread_cond_signal wakes one waiting thread if there is one.
Signal ==
    IF waiting = {}
      THEN UNCHANGED waiting
      ELSE \E t \in waiting : waiting' = waiting \ {t}

\* pthread_cond_wait may return although nobody signalled.
SpuriousWakeup(t) ==
    /\ t \in waiting
    /\ waiting' = waiting \ {t}
    /\ UNCHANGED <<listVars, owner, abortFlag, alive, pc, after, arg, loc,
                   history>>

-----------------------------------------------------------------------------
(***************************************************************************)
(* add.  abortFlag is tested without the lock.                             *)
(***************************************************************************)

AddEnter(t, p) ==
    /\ abortFlag = 1
    /\ Goto(t, "idle", "addLock")
    /\ arg' = [arg EXCEPT ![t] = p]
    /\ UNCHANGED <<listVars, owner, waiting, abortFlag, alive, after, loc,
                   history>>

AddLock(t) ==
    /\ Lock(t, "addLock", "addBody")
    /\ UNCHANGED <<listVars, waiting, abortFlag, alive, after, arg, loc,
                   history>>

TooMany == numNode > MaxCacheFrame

\* Too many elements: add calls clear, still holding the lock.
AddOverflow(t) ==
    /\ TooMany
    /\ Goto(t, "addBody", "clearSignal")
    /\ after' = [after EXCEPT ![t] = "addBody"]
    /\ UNCHANGED <<listVars, owner, waiting, abortFlag, alive, arg, loc,
                   history>>

\* Slip: the new node becomes the first one.
LinkAtFront(p) ==
    /\ next' = [next EXCEPT ![p] = firstNode]
    /\ firstNode' = p
    /\ lastNode' = IF lastNode = NULL THEN p ELSE lastNode

\* The new node is linked behind lastNode, but lastNode does not move to it:
\* the next add overwrites this link.
Link(p) ==
    /\ IF lastNode = NULL
         THEN /\ lastNode' = p
              /\ next' = [next EXCEPT ![p] = NULL]
         ELSE /\ next' = [next EXCEPT ![p] = NULL, ![lastNode] = p]
              /\ UNCHANGED lastNode
    /\ firstNode' = IF firstNode = NULL THEN p ELSE firstNode

AddAppend(t) ==
    LET p == arg[t] IN
    /\ ~TooMany
    /\ Goto(t, "addBody", "addUnlock")
    /\ Link(p)
    /\ numNode' = numNode + 1
    /\ loc' = [loc EXCEPT ![p] = "queued"]
    /\ tickets' = tickets + 1
    /\ ticket' = [ticket EXCEPT ![p] = tickets + 1]
    /\ after' = [after EXCEPT ![t] = "idle"]
    /\ UNCHANGED <<owner, waiting, abortFlag, alive, arg>>

\* malloc of the node fails: the element is neither queued nor freed.
AddNoMemory(t) ==
    /\ ~TooMany
    /\ Goto(t, "addBody", "addUnlock")
    /\ loc' = [loc EXCEPT ![arg[t]] = "dropped"]
    /\ after' = [after EXCEPT ![t] = "idle"]
    /\ UNCHANGED <<listVars, owner, waiting, abortFlag, alive, arg, history>>

AddUnlock(t) ==
    /\ Unlock(t, "addUnlock", "addSignal")
    /\ UNCHANGED <<listVars, waiting, abortFlag, alive, after, arg, loc,
                   history>>

AddSignal(t) ==
    /\ Goto(t, "addSignal", "idle")
    /\ Signal
    /\ arg' = [arg EXCEPT ![t] = NULL]
    /\ UNCHANGED <<listVars, owner, abortFlag, alive, after, loc, history>>

-----------------------------------------------------------------------------
(***************************************************************************)
(* take.  A thread that has waited returns NULL: it does not look at the   *)
(* list again.                                                             *)
(***************************************************************************)

TakeEnter(t) ==
    /\ abortFlag = 1
    /\ Goto(t, "idle", "takeLock")
    /\ UNCHANGED <<listVars, owner, waiting, abortFlag, alive, after, arg,
                   loc, history>>

TakeLock(t) ==
    /\ Lock(t, "takeLock", "takeBody")
    /\ UNCHANGED <<listVars, waiting, abortFlag, alive, after, arg, loc,
                   history>>

\* cloudVoiceCondWait releases the mutex and blocks, in one step.
TakeWait(t) ==
    /\ numNode <= 0
    /\ Unlock(t, "takeBody", "takeWait")
    /\ waiting' = waiting \cup {t}
    /\ UNCHANGED <<listVars, abortFlag, alive, after, arg, loc, history>>

\* Slip: lastNode keeps pointing to the node that take frees.
UnlinkKeepLast ==
    /\ firstNode' = IF firstNode = lastNode THEN NULL ELSE next[firstNode]
    /\ UNCHANGED lastNode

Unlink ==
    IF firstNode = lastNode
      THEN firstNode' = NULL /\ lastNode' = NULL
      ELSE firstNode' = next[firstNode] /\ UNCHANGED lastNode

\* Slip: numNode is not decremented.
TakeCountKept == UNCHANGED numNode

TakeCount == numNode' = numNode - 1

TakeFirst(t) ==
    /\ numNode > 0
    /\ firstNode # NULL
    /\ Goto(t, "takeBody", "takeUnlock")
    /\ loc' = [loc EXCEPT ![firstNode] = "taken"]
    /\ Unlink
    /\ TakeCount
    /\ UNCHANGED <<next, owner, waiting, abortFlag, alive, after, arg, history>>

\* numNode counts nodes the list has lost: take returns NULL at once.
TakeNothing(t) ==
    /\ numNode > 0
    /\ firstNode = NULL
    /\ Goto(t, "takeBody", "takeUnlock")
    /\ UNCHANGED <<listVars, owner, waiting, abortFlag, alive, after, arg,
                   loc, history>>

TakeWoken(t) ==
    /\ t \notin waiting
    /\ Lock(t, "takeWait", "takeUnlock")
    /\ UNCHANGED <<listVars, waiting, abortFlag, alive, after, arg, loc,
                   history>>

TakeUnlock(t) ==
    /\ Unlock(t, "takeUnlock", "idle")
    /\ UNCHANGED <<listVars, waiting, abortFlag, alive, after, arg, loc,
                   history>>

-----------------------------------------------------------------------------
(***************************************************************************)
(* clear and destroy.  clear signals before it takes the lock.             *)
(***************************************************************************)

ClearEnter(t) ==
    /\ Goto(t, "idle", "clearSignal")
    /\ after' = [after EXCEPT ![t] = "idle"]
    /\ UNCHANGED <<listVars, owner, waiting, abortFlag, alive, arg, loc,
                   history>>

ClearSignal(t) ==
    /\ Goto(t, "clearSignal", "clearLock")
    /\ Signal
    /\ UNCHANGED <<listVars, owner, abortFlag, alive, after, arg, loc, history>>

ClearLock(t) ==
    /\ Lock(t, "clearLock", "clearLoop")
    /\ UNCHANGED <<listVars, waiting, abortFlag, alive, after, arg, loc,
                   history>>

\* freeCallback releases the element of each node that can be reached.
ClearNode(t) ==
    /\ pc[t] = "clearLoop"
    /\ firstNode # NULL
    /\ loc' = [loc EXCEPT ![firstNode] = "freed"]
    /\ firstNode' = next[firstNode]
    /\ UNCHANGED <<lastNode, next, numNode, owner, waiting, abortFlag, alive,
                   pc, after, arg, history>>

\* Slip: lastNode keeps pointing to a node that clear has freed.
ResetKeepLast == numNode' = 0 /\ UNCHANGED lastNode

Reset == numNode' = 0 /\ lastNode' = NULL

ClearReset(t) ==
    /\ firstNode = NULL
    /\ Goto(t, "clearLoop", "clearUnlock")
    /\ Reset
    /\ UNCHANGED <<firstNode, next, owner, waiting, abortFlag, alive, after,
                   arg, loc, history>>

ClearUnlock(t) ==
    /\ Unlock(t, "clearUnlock", after[t])
    /\ UNCHANGED <<listVars, waiting, abortFlag, alive, after, arg, loc,
                   history>>

\* Slip: new callers are not turned away.
AbortKept == UNCHANGED abortFlag

Abort == abortFlag' = 0

DestroyEnter(t) ==
    /\ Goto(t, "idle", "clearSignal")
    /\ Abort
    /\ after' = [after EXCEPT ![t] = "free"]
    /\ UNCHANGED <<listVars, owner, waiting, alive, arg, loc, history>>

DestroyFree(t) ==
    /\ Goto(t, "free", "idle")
    /\ alive' = FALSE
    /\ after' = [after EXCEPT ![t] = "idle"]
    /\ UNCHANGED <<listVars, owner, waiting, abortFlag, arg, loc, history>>

-----------------------------------------------------------------------------
(***************************************************************************)
(* The steps a thread takes inside a call, whoever made the call.          *)
(***************************************************************************)
AddStep(t) ==
    \/ AddLock(t) \/ AddOverflow(t) \/ AddAppend(t) \/ AddNoMemory(t)
    \/ AddUnlock(t) \/ AddSignal(t)
TakeStep(t) ==
    \/ TakeLock(t) \/ TakeWait(t) \/ TakeFirst(t) \/ TakeNothing(t)
    \/ TakeWoken(t) \/ TakeUnlock(t)
ClearStep(t) ==
    \/ ClearSignal(t) \/ ClearLock(t) \/ ClearNode(t) \/ ClearReset(t)
    \/ ClearUnlock(t) \/ DestroyFree(t)
QueueStep(t) == AddStep(t) \/ TakeStep(t) \/ ClearStep(t)

(***************************************************************************)
(* The queue on its own, with the callers its owners provide: producers    *)
(* add packets they own, consumers take again and again, a controller may  *)
(* clear at any time and destroys the queue when every other thread has    *)
(* been joined (cloudvoice_rtmp_client.c, cloudvoide_android_video_codec.c *)
(* and cloudvoice_android_video_display.c all join before they destroy).   *)
(***************************************************************************)
Unclaimed == {p \in Packets : loc[p] = "caller" /\ \A t \in Threads : arg[t] # p}

Call(t) ==
    \/ t \in Producers /\ \E p \in Unclaimed : AddEnter(t, p)
    \/ t \in Consumers /\ TakeEnter(t)
    \/ t \in Controllers /\ abortFlag = 1 /\ ClearEnter(t)

Destroy(t) ==
    /\ abortFlag = 1
    /\ \A u \in Threads : pc[u] = "idle"
    /\ DestroyEnter(t)

Next ==
    \/ \E t \in Threads : Call(t) \/ QueueStep(t) \/ SpuriousWakeup(t)
    \/ \E t \in Controllers : Destroy(t)

Spec == QueueInit /\ [][Next]_queueVars

\* Every thread inside a call is scheduled, and a consumer keeps calling take.
Fairness ==
    /\ \A t \in Threads : WF_queueVars(QueueStep(t))
    /\ \A t \in Consumers : WF_queueVars(TakeEnter(t))

FairSpec == Spec /\ Fairness

-----------------------------------------------------------------------------
(***************************************************************************)
(* Properties.                                                             *)
(***************************************************************************)

\* Every variable keeps its type, and numNode stays within one of the bound
\* of cloudvoice_blocking_queue.c:10.
TypeOK ==
    /\ {firstNode, lastNode} \subseteq Packets \cup {NULL}
    /\ next \in [Packets -> Packets \cup {NULL}]
    /\ numNode \in 0 .. MaxCacheFrame + 1
    /\ owner \in Threads \cup {NULL}
    /\ waiting \subseteq Threads
    /\ abortFlag \in {0, 1}
    /\ alive \in BOOLEAN
    /\ pc \in [Threads -> Labels]
    /\ after \in [Threads -> {"idle", "addBody", "free"}]
    /\ arg \in [Threads -> Packets \cup {NULL}]
    /\ loc \in [Packets -> Locations]
    /\ ticket \in [Packets -> Nat]
    /\ tickets \in Nat

\* A thread between the lock and the unlock of a call holds the mutex, a thread
\* that waits on the condition does not: no two threads are ever inside the
\* list at once, through waits, wakeups and the clear that add calls.
MutualExclusion ==
    \A t \in Threads :
        /\ pc[t] \in Critical => owner = t
        /\ t \in waiting => pc[t] = "takeWait" /\ owner # t

\* Outside of clear's loop firstNode, lastNode and the node behind lastNode
\* are nodes whose packet the queue still owns: the list never refers to a
\* node that take or clear has freed, so no packet is handed out or freed twice.
NoDanglingNode ==
    (\A t \in Threads : pc[t] # "clearLoop") =>
        \A p \in {firstNode, lastNode} \ {NULL} :
            /\ loc[p] = "queued"
            /\ next[p] # NULL => loc[next[p]] = "queued"

\* numNode never promises more than there is: each unit it counts is a packet
\* that was added and neither returned nor freed.  (It does promise too much
\* to take, which can no longer reach most of them.)
CountedAreQueued ==
    /\ firstNode # NULL => numNode > 0
    /\ numNode <= Cardinality({p \in Packets : loc[p] = "queued"})
         \/ \E t \in Threads : pc[t] = "clearLoop"

\* A consumer does not sleep through an add: while a consumer is blocked and
\* the count is positive, an add has still to signal or a consumer is awake.
NoSleepOnData ==
    waiting # {} /\ numNode > 0 =>
        \/ \E t \in Threads : pc[t] \in {"addUnlock", "addSignal"}
        \/ \E t \in Consumers : t \notin waiting

\* Nobody is inside a call of a queue whose memory destroy has freed, because
\* abortFlag turns new callers away before clear starts.
NoUseAfterFree ==
    ~alive => \A t \in Threads : pc[t] = "idle"

\* t has called clear from add and waits for the mutex it holds.
Jammed(t) ==
    /\ pc[t] \in {"clearSignal", "clearLock"}
    /\ owner = t

\* Packets are returned in the order in which they were added: whatever is
\* lost, a consumer never sees a packet after one that was added later.
InOrder ==
    [][\A p, q \in Packets :
          (loc[p] # "taken" /\ loc'[p] = "taken" /\ loc[q] = "taken")
             => ticket[q] < ticket[p]]_queueVars

\* The overflow branch of add is the end of the queue: from then on no list
\* operation happens and no packet moves, for any thread.
OverflowIsFatal ==
    [][(\E t \in Threads : Jammed(t)) =>
          /\ UNCHANGED <<listVars, loc, alive>>
          /\ \E t \in Threads : Jammed(t)']_queueVars

\* Seen through the mutex, the queue is a LossyQueue.  lastNode stays in place
\* while clear walks the list, so it stands for the slot.
LQ == INSTANCE LossyQueue WITH
        slot <- lastNode,
        spare <- IF lastNode = NULL THEN NULL ELSE next[lastNode],
        count <- numNode,
        sleepers <- waiting,
        delivered <- {p \in Packets : loc[p] = "taken"},
        jammed <- \E t \in Threads : Jammed(t),
        open <- alive

ImplementsLossyQueue == LQ!LQSpec

\* A packet at the head of the list does not stay there: a consumer takes it
\* or clear frees it, unless an add has jammed the queue.
HeadIsResolved ==
    \A p \in Packets :
        firstNode = p ~> (firstNode # p \/ \E t \in Threads : Jammed(t))

\* Claimed by cloudvoice_blocking_queue.h:11 (clear frees the data of the
\* queue through the callback): once the list is empty, every packet that was
\* added has been returned or freed.
NothingLeaks ==
    firstNode = NULL /\ lastNode = NULL =>
        \A p \in Packets : loc[p] # "queued"

\* Claimed by cloudvoice_blocking_queue.h:9 (made for several threads, which
\* it synchronises): no thread waits for a mutex it holds itself.
NoSelfDeadlock == \A t \in Threads : ~Jammed(t)
=============================================================================
