---- MODULE QueueInstances ----
(***************************************************************************)
(* What the runs of the queue share.  The code compares threads and        *)
(* elements for identity alone: a thread by the mutex it holds, an element *)
(* by the address of its node.  Two states that differ by the names in one *)
(* of the roles below are the same state of the program.                   *)
(*                                                                         *)
(* Only the runs of an invariant use this.  A run with a temporal property *)
(* follows one packet along a behaviour and must tell the packets apart.   *)
(***************************************************************************)
EXTENDS BlockingQueue
LOCAL INSTANCE TLC

Roles == {Producers, Consumers, Controllers, Packets}
Symmetry == UNION {Permutations(role) : role \in Roles}
====
