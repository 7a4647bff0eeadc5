----------------------------- MODULE LossyPipe -----------------------------
(***************************************************************************)
(* What a chain of queues, threads and codecs provides to the one who      *)
(* takes frames at its end, with every place in between abstracted away.   *)
(* Frames are numbered as they arrive.  Any of them may be lost, at any    *)
(* place and at any time; those that are not come out oldest first, one at *)
(* a time, and each of them once.                                          *)
(*                                                                         *)
(* VideoEncoder, from the camera to the data callback, and PullStream,     *)
(* from the network to the screen, are shown to implement it.              *)
(***************************************************************************)
EXTENDS Naturals

VARIABLES
    entered,    \* the number of frames that have arrived
    inside,     \* the frames that may still come out
    leaving     \* the frame that has come out and is being used, or 0

lpVars == <<entered, inside, leaving>>

LPInit ==
    /\ entered = 0
    /\ inside = {}
    /\ leaving = 0

\* A frame arrives; it may be turned away at once.
Enter ==
    /\ entered' = entered + 1
    /\ inside' \in {inside, inside \cup {entered'}}
    /\ UNCHANGED leaving

\* Some frames are dropped: a queue overflows or is cleared, a codec has no
\* buffer or is released.
Lose ==
    /\ inside' \subseteq inside
    /\ UNCHANGED <<entered, leaving>>

\* The oldest frame comes out.
Leave ==
    /\ leaving = 0
    /\ leaving' \in inside
    /\ \A frame \in inside : leaving' <= frame
    /\ inside' = inside \ {leaving'}
    /\ UNCHANGED entered

\* It has been used.
Return ==
    /\ leaving' = 0
    /\ UNCHANGED <<entered, inside>>

LPNext == Enter \/ Lose \/ Leave \/ Return

LPSpec == LPInit /\ [][LPNext]_lpVars
=============================================================================
