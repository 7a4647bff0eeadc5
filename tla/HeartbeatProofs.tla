--------------------------- MODULE HeartbeatProofs ----------------------------
(***************************************************************************)
(* Proofs about Heartbeat for any timeout and any number of beats and      *)
(* starts.  LoopInv adds to OneBeatAtATime why it holds: the timeout of a  *)
(* beat is posted before the loop is posted again, with the same delay, so *)
(* the handler comes to it first.  StopInv follows a stop between its two  *)
(* removals, AnswerInv an answer from its arrival to the timeout of its    *)
(* beat.                                                                   *)
(***************************************************************************)
EXTENDS Heartbeat, TLAPS

Messages == [what : {"loop", "timeout"}, beat : Nat, wait : Int, turn : Nat]

TypeInv ==
    /\ posted \in Nat
    /\ beats \in Nat
    /\ queue \subseteq Messages
    /\ running \in Beating \cup {"idle", "reporting"}
    /\ user \in {"idle", "stopping"}

\* Nothing waits longer than Timeout or has a turn that is still to be given.
QueueInv == \A m \in queue : m.wait <= Timeout /\ m.turn <= posted

\* A timeout comes before the loop.
LoopInv ==
    /\ OneBeatAtATime
    /\ Calm => \A t \in Pending("timeout"), l \in Pending("loop") : Before(t, l)

\* The timeouts a stop has removed stay away while it goes on to the loop.
StopInv ==
    /\ StoppedHeartbeatIsQuiet
    /\ user = "stopping" /\ ~overlapped =>
          Pending("timeout") = {} /\ running \notin Beating

\* An answer either finds the timeout of its beat or comes before it.
AnswerInv ==
    /\ answered \subseteq 1..beats
    /\ running = "sending" /\ beats \in answered => beats \in early
    /\ \A m \in Pending("timeout") : m.beat \in answered => m.beat \in early

HeartbeatInv == TypeInv /\ QueueInv /\ LoopInv /\ StopInv /\ AnswerInv

LEMMA HeartbeatInitEstablishesInv == HeartbeatInit => HeartbeatInv
BY DEF HeartbeatInit, HeartbeatInv, TypeInv, QueueInv, LoopInv, StopInv, AnswerInv,
       OneBeatAtATime, StoppedHeartbeatIsQuiet, Calm, Pending, AtMostOne, Beating

-----------------------------------------------------------------------------
(***************************************************************************)
(* What posting, taking and waiting do to the queue.                       *)
(***************************************************************************)
\* A message that is posted becomes the only new one.
LEMMA PostedIsPending ==
  ASSUME TypeInv, QueueInv,
         NEW what \in {"loop", "timeout"}, NEW beat \in Nat, NEW delay \in Nat,
         delay <= Timeout, PostDelayed(what, beat, delay)
  PROVE  /\ posted' \in Nat
         /\ queue' \subseteq Messages
         /\ QueueInv'
         /\ \E m \in Messages :
               /\ m.what = what /\ m.beat = beat /\ m.wait = delay
               /\ m.turn > posted
               /\ queue' = queue \cup {m}
<1> DEFINE m == [what |-> what, beat |-> beat, wait |-> delay, turn |-> posted + 1]
<1>1. posted' = posted + 1 /\ queue' = queue \cup {m}
  BY DEF PostDelayed
<1>2. m \in Messages /\ m.wait <= Timeout /\ m.turn <= posted'
  BY <1>1, HeartbeatAssumption DEF Messages, TypeInv
<1>3. QueueInv'
  <2>1. SUFFICES ASSUME NEW k \in queue'
                 PROVE  k.wait <= Timeout /\ k.turn <= posted'
    BY DEF QueueInv
  <2>2. CASE k \in queue
    <3>1. k.wait <= Timeout /\ k.turn <= posted /\ k.turn \in Nat /\ posted \in Nat
      BY <2>2 DEF QueueInv, TypeInv, Messages
    <3>2. QED
      BY <3>1, <1>1
  <2>3. CASE k = m
    BY <2>3, <1>2
  <2>4. QED
    BY <2>2, <2>3, <1>1
<1>4. m.what = what /\ m.beat = beat /\ m.wait = delay /\ m.turn > posted
  BY DEF TypeInv
<1>5. QED
  BY <1>1, <1>2, <1>3, <1>4 DEF TypeInv

\* The handler takes a timeout before the loop.
LEMMA NoTimeoutBehindLoop ==
  ASSUME HeartbeatInv, Calm, NEW l \in Pending("loop"), Take(l)
  PROVE  Pending("timeout") = {}
<1> SUFFICES ASSUME NEW t \in Pending("timeout")
             PROVE  FALSE
  OBVIOUS
<1>1. Before(t, l)
  BY DEF HeartbeatInv, LoopInv
<1>2. Before(l, t)
  BY DEF Take, Pending
<1>3. /\ t.wait \in Int /\ l.wait \in Int
      /\ t.turn \in Nat /\ l.turn \in Nat
  BY DEF HeartbeatInv, TypeInv, Messages, Pending
<1>4. QED
  BY <1>1, <1>2, <1>3 DEF Before

\* Time changes neither what is pending nor its order.
LEMMA TickKeepsInv ==
  ASSUME HeartbeatInv, Tick
  PROVE  HeartbeatInv'
<1> DEFINE older(m) == [m EXCEPT !.wait = @ - 1]
<1>1. queue' = {older(m) : m \in queue}
  BY DEF Tick
<1>2. UNCHANGED <<posted, running, user, beats, fates, calls, overlapped>>
  BY DEF Tick
<1>3. ASSUME NEW m \in queue
      PROVE  /\ older(m) \in Messages
             /\ older(m).wait = m.wait - 1
             /\ older(m).what = m.what
             /\ older(m).beat = m.beat
             /\ older(m).turn = m.turn
             /\ m.wait \in Int /\ m.turn \in Nat
  BY <1>3 DEF HeartbeatInv, TypeInv, Messages
<1> HIDE DEF older
<1>4. TypeInv'
  BY <1>1, <1>2, <1>3 DEF HeartbeatInv, TypeInv
<1>5. QueueInv'
  <2>1. SUFFICES ASSUME NEW k \in queue'
                 PROVE  k.wait <= Timeout /\ k.turn <= posted
    BY <1>2 DEF QueueInv
  <2>2. PICK m \in queue : k = older(m)
    BY <1>1
  <2>3. m.wait <= Timeout /\ m.turn <= posted
    BY DEF HeartbeatInv, QueueInv
  <2>4. QED
    BY <2>2, <2>3, <1>3, HeartbeatAssumption
<1>6. \A what : Pending(what)' = {older(m) : m \in Pending(what)}
  BY <1>1, <1>3 DEF Pending
<1>7. LoopInv'
  <2>1. Calm' = Calm /\ running' = running
    BY <1>2 DEF Calm, calls
  <2>2. OneBeatAtATime'
    BY <1>6, <2>1 DEF HeartbeatInv, LoopInv, OneBeatAtATime, AtMostOne
  <2>3. ASSUME Calm, NEW t \in Pending("timeout")', NEW l \in Pending("loop")'
        PROVE  Before(t, l)
    <3>1. PICK tt \in Pending("timeout") : t = older(tt)
      BY <1>6
    <3>2. PICK ll \in Pending("loop") : l = older(ll)
      BY <1>6
    <3>3. tt \in queue /\ ll \in queue
      BY DEF Pending
    <3>4. Before(tt, ll)
      BY <2>3 DEF HeartbeatInv, LoopInv
    <3>5. QED
      BY <3>1, <3>2, <3>3, <3>4, <1>3 DEF Before
  <2>4. QED
    BY <2>1, <2>2, <2>3 DEF LoopInv
<1>8. StopInv'
  BY <1>1, <1>2, <1>6 DEF HeartbeatInv, StopInv, StoppedHeartbeatIsQuiet, calls
<1>9. AnswerInv'
  <2>1. ASSUME NEW k \in Pending("timeout")', k.beat \in answered
        PROVE  k.beat \in early
    <3>1. PICK m \in Pending("timeout") : k = older(m)
      BY <1>6
    <3>2. m \in queue
      BY DEF Pending
    <3>3. QED
      BY <3>1, <3>2, <2>1, <1>3 DEF HeartbeatInv, AnswerInv
  <2>2. QED
    BY <2>1, <1>2 DEF HeartbeatInv, AnswerInv, fates
<1>10. QED
  BY <1>4, <1>5, <1>7, <1>8, <1>9 DEF HeartbeatInv

-----------------------------------------------------------------------------
(***************************************************************************)
(* The two posts, which add to the queue.                                  *)
(***************************************************************************)
LEMMA PostTimeoutKeepsInv ==
  ASSUME HeartbeatInv, PostTimeout
  PROVE  HeartbeatInv'
<1>1. running = "sending" /\ running' = "posting"
  BY DEF PostTimeout
<1>2. UNCHANGED <<user, beats, fates, calls, overlapped>>
  BY DEF PostTimeout
<1>3. /\ posted' \in Nat /\ queue' \subseteq Messages /\ QueueInv'
      /\ \E m \in Messages : /\ m.what = "timeout" /\ m.beat = beats
                             /\ queue' = queue \cup {m}
  BY PostedIsPending, HeartbeatAssumption DEF PostTimeout, HeartbeatInv, TypeInv
<1>4. PICK m \in Messages : /\ m.what = "timeout" /\ m.beat = beats
                            /\ queue' = queue \cup {m}
  BY <1>3
<1>5. /\ Pending("timeout")' = Pending("timeout") \cup {m}
      /\ Pending("loop")' = Pending("loop")
  BY <1>4 DEF Pending
<1>6. TypeInv'
  BY <1>1, <1>2, <1>3 DEF HeartbeatInv, TypeInv, Beating
<1>7. LoopInv'
  BY <1>1, <1>2, <1>5
  DEF HeartbeatInv, LoopInv, OneBeatAtATime, AtMostOne, Calm, calls, Beating
<1>8. StopInv'
  BY <1>1, <1>2
  DEF HeartbeatInv, StopInv, StoppedHeartbeatIsQuiet, calls, Beating
<1>9. AnswerInv'
  BY <1>1, <1>2, <1>4, <1>5 DEF HeartbeatInv, AnswerInv, fates
<1>10. QED
  BY <1>3, <1>6, <1>7, <1>8, <1>9 DEF HeartbeatInv

LEMMA PostLoopKeepsInv ==
  ASSUME HeartbeatInv, PostLoop
  PROVE  HeartbeatInv'
<1>1. running = "posting" /\ running' = "idle"
  BY DEF PostLoop
<1>2. UNCHANGED <<user, beats, fates, calls, overlapped>>
  BY DEF PostLoop
<1>3. /\ posted' \in Nat /\ queue' \subseteq Messages /\ QueueInv'
      /\ \E m \in Messages : /\ m.what = "loop" /\ m.wait = Timeout
                             /\ m.turn > posted /\ queue' = queue \cup {m}
  BY PostedIsPending, HeartbeatAssumption DEF PostLoop, HeartbeatInv, TypeInv
<1>4. PICK m \in Messages : /\ m.what = "loop" /\ m.wait = Timeout
                            /\ m.turn > posted /\ queue' = queue \cup {m}
  BY <1>3
<1>5. /\ Pending("loop")' = Pending("loop") \cup {m}
      /\ Pending("timeout")' = Pending("timeout")
  BY <1>4 DEF Pending
<1>6. TypeInv'
  BY <1>1, <1>2, <1>3 DEF HeartbeatInv, TypeInv
<1>7. LoopInv'
  <2>1. Calm' = Calm
    BY <1>2 DEF Calm, calls
  <2>2. OneBeatAtATime'
    BY <1>1, <1>5, <2>1
    DEF HeartbeatInv, LoopInv, OneBeatAtATime, AtMostOne, Beating
  <2>3. ASSUME Calm, NEW t \in Pending("timeout")
        PROVE  Before(t, m)
    <3>1. /\ t.wait \in Int /\ t.turn \in Nat
          /\ t.wait <= Timeout /\ t.turn <= posted
      BY DEF HeartbeatInv, TypeInv, QueueInv, Messages, Pending
    <3>2. posted \in Nat /\ m.turn \in Nat
      BY DEF HeartbeatInv, TypeInv, Messages
    <3>3. QED
      BY <1>4, <3>1, <3>2, HeartbeatAssumption DEF Before
  <2>4. QED
    BY <1>5, <2>1, <2>2, <2>3 DEF HeartbeatInv, LoopInv
<1>8. StopInv'
  BY <1>1, <1>2
  DEF HeartbeatInv, StopInv, StoppedHeartbeatIsQuiet, calls, Beating
<1>9. AnswerInv'
  BY <1>1, <1>2, <1>5 DEF HeartbeatInv, AnswerInv, fates
<1>10. QED
  BY <1>3, <1>6, <1>7, <1>8, <1>9 DEF HeartbeatInv

LEMMA StartKeepsInv ==
  ASSUME HeartbeatInv, startHeartBeat
  PROVE  HeartbeatInv'
<1>1. user = "idle" /\ alive' = TRUE /\ doubled' = (doubled \/ alive)
  BY DEF startHeartBeat
<1>2. UNCHANGED <<running, user, beats, fates, overlapped>>
  BY DEF startHeartBeat
<1>3. /\ posted' \in Nat /\ queue' \subseteq Messages /\ QueueInv'
      /\ \E m \in Messages : m.what = "loop" /\ queue' = queue \cup {m}
  BY PostedIsPending, HeartbeatAssumption DEF startHeartBeat, HeartbeatInv, TypeInv
<1>4. PICK m \in Messages : m.what = "loop" /\ queue' = queue \cup {m}
  BY <1>3
<1>5. /\ Pending("loop")' = Pending("loop") \cup {m}
      /\ Pending("timeout")' = Pending("timeout")
  BY <1>4 DEF Pending
<1>6. TypeInv'
  BY <1>2, <1>3 DEF HeartbeatInv, TypeInv
<1>7. LoopInv'
  <2>1. Calm' => ~alive /\ ~overlapped
    BY <1>1, <1>2 DEF Calm
  <2>2. Calm' => queue = {} /\ running \notin Beating
    BY <2>1 DEF HeartbeatInv, StopInv, StoppedHeartbeatIsQuiet
  <2>3. Calm' => Pending("loop") = {} /\ Pending("timeout") = {}
    BY <2>2 DEF Pending
  <2>4. QED
    BY <1>2, <1>5, <2>2, <2>3 DEF LoopInv, OneBeatAtATime, AtMostOne, Beating
<1>8. StopInv'
  BY <1>1, <1>2 DEF HeartbeatInv, StopInv, StoppedHeartbeatIsQuiet
<1>9. AnswerInv'
  BY <1>2, <1>5 DEF HeartbeatInv, AnswerInv, fates
<1>10. QED
  BY <1>3, <1>6, <1>7, <1>8, <1>9 DEF HeartbeatInv

-----------------------------------------------------------------------------
(***************************************************************************)
(* The steps that only take from the queue.                                *)
(***************************************************************************)
\* What is taken from the queue disturbs neither its types nor its order.
LEMMA FewerKeepQueue ==
  ASSUME HeartbeatInv, queue' \subseteq queue, posted' = posted
  PROVE  /\ queue' \subseteq Messages
         /\ QueueInv'
         /\ \A what : Pending(what)' \subseteq Pending(what)
BY DEF HeartbeatInv, TypeInv, QueueInv, Pending

LEMMA HandlerKeepsInv ==
  ASSUME HeartbeatInv, HandlerStep
  PROVE  HeartbeatInv'
<1>1. CASE RunLoop
  <2>1. PICK l \in Pending("loop") : Take(l)
    BY <1>1 DEF RunLoop
  <2>2. /\ queue' = queue \ {l} /\ posted' = posted
        /\ running = "idle" /\ running' = "sending"
        /\ beats' = beats + 1
        /\ overlapped' = (overlapped \/ user = "stopping")
        /\ UNCHANGED <<user, fates, calls>>
    BY <1>1, <2>1 DEF RunLoop, Take
  <2>3. /\ queue' \subseteq Messages /\ QueueInv'
        /\ \A what : Pending(what)' \subseteq Pending(what)
    BY <2>2, FewerKeepQueue
  <2>4. TypeInv'
    BY <2>2, <2>3 DEF HeartbeatInv, TypeInv, Beating
  <2>5. LoopInv'
    <3>1. Calm' => Calm
      BY <2>2 DEF Calm, calls
    <3>2. Calm => Pending("loop")' = {}
      BY <2>1, <2>2 DEF HeartbeatInv, LoopInv, OneBeatAtATime, AtMostOne, Pending
    <3>3. Calm => Pending("timeout")' = {}
      BY <2>1, <2>3, NoTimeoutBehindLoop
    <3>4. QED
      BY <3>1, <3>2, <3>3 DEF LoopInv, OneBeatAtATime, AtMostOne
  <2>6. StopInv'
    <3>1. ~alive' /\ ~overlapped' => FALSE
      BY <2>1, <2>2 DEF HeartbeatInv, StopInv, StoppedHeartbeatIsQuiet, calls, Pending
    <3>2. QED
      BY <2>2, <3>1 DEF StopInv, StoppedHeartbeatIsQuiet
  <2>7. AnswerInv'
    <3>1. answered' \subseteq 1..beats /\ answered' \subseteq 1..beats'
      BY <2>2 DEF HeartbeatInv, TypeInv, AnswerInv, fates
    <3>2. beats' \notin answered'
      BY <2>2, <3>1 DEF HeartbeatInv, TypeInv
    <3>3. QED
      BY <2>2, <2>3, <3>1, <3>2 DEF HeartbeatInv, AnswerInv, fates
  <2>8. QED
    BY <2>3, <2>4, <2>5, <2>6, <2>7 DEF HeartbeatInv
<1>2. CASE BeatsUsedUp \/ RunTimeout
  <2>1. PICK m \in queue : Take(m)
    BY <1>2 DEF BeatsUsedUp, RunTimeout, Pending
  <2>2. /\ queue' \subseteq queue /\ posted' = posted
        /\ running = "idle" /\ running' \in {"idle", "reporting"}
        /\ UNCHANGED <<user, beats, answered, early, calls, overlapped>>
    BY <1>2, <2>1 DEF BeatsUsedUp, RunTimeout, Take, fates
  <2>3. /\ queue' \subseteq Messages /\ QueueInv'
        /\ \A what : Pending(what)' \subseteq Pending(what)
    BY <2>2, FewerKeepQueue
  <2>4. QED
    BY <2>2, <2>3
    DEF HeartbeatInv, TypeInv, LoopInv, StopInv, AnswerInv, OneBeatAtATime, AtMostOne,
        StoppedHeartbeatIsQuiet, Calm, calls, Beating
<1>3. CASE CallbackReturns
  <2>1. /\ queue' \subseteq queue /\ posted' = posted
        /\ running = "reporting" /\ running' = "idle"
        /\ UNCHANGED <<user, beats, answered, early, calls, overlapped>>
    BY <1>3 DEF CallbackReturns, fates, handler
  <2>2. /\ queue' \subseteq Messages /\ QueueInv'
        /\ \A what : Pending(what)' \subseteq Pending(what)
    BY <2>1, FewerKeepQueue
  <2>3. QED
    BY <2>1, <2>2
    DEF HeartbeatInv, TypeInv, LoopInv, StopInv, AnswerInv, OneBeatAtATime, AtMostOne,
        StoppedHeartbeatIsQuiet, Calm, calls, Beating
<1>4. QED
  BY <1>1, <1>2, <1>3, PostTimeoutKeepsInv, PostLoopKeepsInv DEF HandlerStep

LEMMA StopKeepsInv ==
  ASSUME HeartbeatInv, StopTimeouts \/ StopLoop \/ StopInCallback
  PROVE  HeartbeatInv'
<1>1. /\ queue' \subseteq queue /\ posted' = posted
      /\ UNCHANGED <<running, beats, answered, early, doubled>>
      /\ overlapped' = (overlapped \/ running \in Beating)
  BY DEF StopTimeouts, StopLoop, StopInCallback, RemoveTimeouts, RemoveLoops, calls, fates
<1>2. /\ queue' \subseteq Messages /\ QueueInv'
      /\ \A what : Pending(what)' \subseteq Pending(what)
  BY <1>1, FewerKeepQueue
<1>3. TypeInv'
  BY <1>1, <1>2 DEF HeartbeatInv, TypeInv, StopTimeouts, StopLoop, StopInCallback
<1>4. LoopInv'
  BY <1>1, <1>2 DEF HeartbeatInv, LoopInv, OneBeatAtATime, AtMostOne, Calm
<1>5. StopInv'
  <2>1. queue = Pending("loop") \cup Pending("timeout")
    BY DEF HeartbeatInv, TypeInv, Messages, Pending
  <2>2. CASE StopTimeouts
    <3>1. Pending("timeout")' = {}
      BY <2>2 DEF StopTimeouts, RemoveTimeouts, Pending
    <3>2. alive' = alive
      BY <2>2 DEF StopTimeouts, calls
    <3>3. QED
      BY <1>1, <3>1, <3>2 DEF HeartbeatInv, StopInv, StoppedHeartbeatIsQuiet
  <2>3. CASE StopLoop
    <3>1. user = "stopping" /\ user' = "idle" /\ queue' = queue \ Pending("loop")
      BY <2>3 DEF StopLoop, RemoveLoops
    <3>2. ~overlapped' => queue' = {} /\ running' \notin Beating
      BY <1>1, <2>1, <3>1 DEF HeartbeatInv, StopInv
    <3>3. QED
      BY <3>1, <3>2 DEF StopInv, StoppedHeartbeatIsQuiet
  <2>4. CASE StopInCallback
    <3>1. queue' = {}
      BY <2>1, <2>4 DEF StopInCallback, RemoveLoops, RemoveTimeouts
    <3>2. Pending("timeout")' = {}
      BY <3>1 DEF Pending
    <3>3. QED
      BY <1>1, <3>1, <3>2 DEF StopInv, StoppedHeartbeatIsQuiet
  <2>5. QED
    BY <2>2, <2>3, <2>4
<1>6. AnswerInv'
  BY <1>1, <1>2 DEF HeartbeatInv, AnswerInv
<1>7. QED
  BY <1>2, <1>3, <1>4, <1>5, <1>6 DEF HeartbeatInv

LEMMA AnswerKeepsInv ==
  ASSUME HeartbeatInv, NEW n \in Beats, notifyRes(n)
  PROVE  HeartbeatInv'
<1>1. /\ queue' \subseteq queue /\ posted' = posted
      /\ UNCHANGED <<running, user, beats, calls, overlapped>>
      /\ n <= beats /\ answered' = answered \cup {n}
      /\ early' = IF running = "sending" /\ n = beats THEN early \cup {n} ELSE early
  BY DEF notifyRes, RemoveTimeouts
<1>2. /\ queue' \subseteq Messages /\ QueueInv'
      /\ \A what : Pending(what)' \subseteq Pending(what)
  BY <1>1, FewerKeepQueue
<1>3. Pending("timeout")' = {}
  BY DEF notifyRes, RemoveTimeouts, Pending
<1>4. AnswerInv'
  BY <1>1, <1>3 DEF HeartbeatInv, TypeInv, AnswerInv, Beats
<1>5. QED
  BY <1>1, <1>2, <1>4
  DEF HeartbeatInv, TypeInv, LoopInv, StopInv, OneBeatAtATime, AtMostOne,
      StoppedHeartbeatIsQuiet, Calm, calls

LEMMA HeartbeatStepKeepsInv ==
  ASSUME HeartbeatInv, [Next]_vars
  PROVE  HeartbeatInv'
<1>1. CASE Next
  BY <1>1, TickKeepsInv, HandlerKeepsInv, StartKeepsInv, StopKeepsInv, AnswerKeepsInv
  DEF Next
<1>2. CASE UNCHANGED vars
  BY <1>2
  DEF vars, handler, fates, calls, HeartbeatInv, TypeInv, QueueInv, LoopInv, StopInv,
      AnswerInv, OneBeatAtATime, StoppedHeartbeatIsQuiet, Calm, Pending
<1>3. QED
  BY <1>1, <1>2

-----------------------------------------------------------------------------
\* The invariant the theorems about the heartbeat rest on.
THEOREM HeartbeatInvHolds == Spec => []HeartbeatInv
BY HeartbeatInitEstablishesInv, HeartbeatStepKeepsInv, PTL DEF Spec

\* One loop, and the timeout of a beat settled before the next is sent, unless
\* the heartbeat was started twice or stopped in the middle of a beat.
THEOREM HeartbeatIsOneLoop == Spec => []OneBeatAtATime
<1>1. HeartbeatInv => OneBeatAtATime
  BY DEF HeartbeatInv, LoopInv
<1>2. QED
  BY <1>1, HeartbeatInvHolds, PTL

\* After stopHeartBeat nothing is posted, unless it overlapped a beat.
THEOREM HeartbeatStops == Spec => []StoppedHeartbeatIsQuiet
<1>1. HeartbeatInv => StoppedHeartbeatIsQuiet
  BY DEF HeartbeatInv, StopInv
<1>2. QED
  BY <1>1, HeartbeatInvHolds, PTL

\* A beat that was answered is reported as timed out only if the answer came
\* before its timeout was posted.
THEOREM AnswerSettlesBeat == Spec => AnsweredBeatIsNotTimedOut
<1>1. ASSUME HeartbeatInv, [Next]_vars
      PROVE  [\A n \in reported' \ reported : n \in answered => n \in early]_vars
  <2>1. CASE RunTimeout
    BY <1>1, <2>1 DEF RunTimeout, HeartbeatInv, AnswerInv
  <2>2. CASE ~RunTimeout
    <3>1. reported' = reported
      BY <1>1, <2>2
      DEF Next, HandlerStep, Tick, RunLoop, BeatsUsedUp, PostTimeout, PostLoop,
          CallbackReturns, startHeartBeat, StopTimeouts, StopLoop, StopInCallback,
          notifyRes, fates, vars
    <3>2. QED
      BY <3>1
  <2>3. QED
    BY <2>1, <2>2
<1>2. QED
  BY <1>1, HeartbeatInvHolds, PTL DEF Spec, AnsweredBeatIsNotTimedOut

=============================================================================
