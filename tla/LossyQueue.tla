----------------------------- MODULE LossyQueue -----------------------------
(***************************************************************************)
(* What the blocking queue of cloudvoice_blocking_queue.c provides, with   *)
(* its nodes, its mutex and its program counters abstracted away.  It is   *)
(* less than its name promises: however many packets are added, at most    *)
(* one of them can be taken (slot), at most one more is still known to the *)
(* queue and can only be freed by clear (spare), and count runs ahead of   *)
(* both.  An add that finds count above MaxCacheFrame stops the queue for  *)
(* good (jammed).                                                          *)
(*                                                                         *)
(* BlockingQueue is shown to implement this specification; the modules     *)
(* that compose several queues use this one.                               *)
(***************************************************************************)
EXTENDS Naturals

CONSTANTS
    Threads,        \* the threads that may call the queue
    Packets,        \* the elements, each added at most once
    MaxCacheFrame,  \* MAX_CACHE_FRAME
    NULL            \* the null pointer

VARIABLES
    slot,       \* the one packet take can return, or NULL
    spare,      \* the packet only clear can still reach, or NULL
    count,      \* numNode
    sleepers,   \* the threads blocked in take
    delivered,  \* the packets take has returned
    jammed,     \* an add blocks for ever on the mutex it holds
    open        \* the queue has not been freed

lqVars == <<slot, spare, count, sleepers, delivered, jammed, open>>

LQInit ==
    /\ slot = NULL
    /\ spare = NULL
    /\ count = 0
    /\ sleepers = {}
    /\ delivered = {}
    /\ jammed = FALSE
    /\ open = TRUE

(***************************************************************************)
(* The critical sections, each one atomic step.                            *)
(***************************************************************************)

Room == count <= MaxCacheFrame

\* A packet goes to the slot when the slot is free.  Otherwise it replaces
\* the spare packet, which nothing refers to any more.
Put(p) ==
    /\ open /\ ~jammed
    /\ Room
    /\ p \notin delivered
    /\ IF slot = NULL
         THEN slot' = p /\ spare' = NULL
         ELSE spare' = p /\ UNCHANGED slot
    /\ count' = count + 1
    /\ UNCHANGED <<sleepers, delivered, jammed, open>>

Overflow ==
    /\ open /\ ~jammed
    /\ ~Room
    /\ jammed' = TRUE
    /\ UNCHANGED <<slot, spare, count, sleepers, delivered, open>>

\* malloc of the node fails: the packet is neither queued nor freed.
Lose ==
    /\ open /\ ~jammed
    /\ Room
    /\ UNCHANGED lqVars

\* Slip: the node stays in the list.
VacateNothing == UNCHANGED <<slot, spare>>

Vacate == slot' = NULL /\ spare' = NULL

\* The packet in the slot leaves; the spare packet is forgotten with it.
Get ==
    /\ open /\ ~jammed
    /\ count > 0
    /\ slot # NULL
    /\ delivered' = delivered \cup {slot}
    /\ Vacate
    /\ count' = count - 1
    /\ UNCHANGED <<sleepers, jammed, open>>

\* count promises a packet the list has lost: take returns NULL at once.
Miss ==
    /\ open /\ ~jammed
    /\ count > 0
    /\ slot = NULL
    /\ UNCHANGED lqVars

Sleep(t) ==
    /\ open /\ ~jammed
    /\ count = 0
    /\ sleepers' = sleepers \cup {t}
    /\ UNCHANGED <<slot, spare, count, delivered, jammed, open>>

\* A signal, or a spurious wakeup.
Wake(t) ==
    /\ open
    /\ t \in sleepers
    /\ sleepers' = sleepers \ {t}
    /\ UNCHANGED <<slot, spare, count, delivered, jammed, open>>

Empty ==
    /\ open /\ ~jammed
    /\ slot' = NULL
    /\ spare' = NULL
    /\ count' = 0
    /\ UNCHANGED <<sleepers, delivered, jammed, open>>

Close ==
    /\ open /\ ~jammed
    /\ slot = NULL /\ spare = NULL /\ count = 0
    /\ open' = FALSE
    /\ UNCHANGED <<slot, spare, count, sleepers, delivered, jammed>>

LQNext ==
    \/ \E p \in Packets : Put(p)
    \/ Overflow
    \/ Lose
    \/ Get
    \/ Miss
    \/ \E t \in Threads : Sleep(t) \/ Wake(t)
    \/ Empty
    \/ Close

LQSpec == LQInit /\ [][LQNext]_lqVars

=============================================================================
