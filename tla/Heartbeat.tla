----------------------------- MODULE Heartbeat ------------------------------
(***************************************************************************)
(* DefaultHeartbeatLogic.java: a runnable on a Handler sends a beat, posts *)
(* the timeout of that beat and posts itself again, both after the same    *)
(* time; notifyRes, called by whoever receives the answer, and             *)
(* stopHeartBeat take posted runnables back.  None of them holds a lock    *)
(* over its two steps.                                                     *)
(*                                                                         *)
(* The Handler is external: one thread takes its messages in the order of  *)
(* the times they are due, equal times in the order they were posted, and  *)
(* runs the first when it is due, or later.                                *)
(* Callback, handler and timeout are set before the first start.           *)
(***************************************************************************)
EXTENDS Integers

CONSTANTS
    Timeout,    \* the time between two beats, in ticks
    MaxBeats,   \* bound: the beats sent
    MaxStarts   \* bound: the calls of startHeartBeat

ASSUME HeartbeatAssumption ==
    Timeout \in Nat \ {0} /\ MaxBeats \in Nat /\ MaxStarts \in Nat

VARIABLES
    posted,     \* external: the number of messages posted, and
    queue,      \* those not yet taken, with the time they wait and their turn
    running,    \* where the handler's thread is
    user,       \* where the thread that starts and stops is
    beats,      \* history: the number of beats sent
    answered,   \* history: the beats that were answered,
    early,      \* those of them answered before their timeout was posted,
    reported,   \* the beats reported as timed out,
    dropped,    \* and those whose timeout was removed for another reason
    starts,     \* history: the number of starts
    alive,      \* history: started, and not stopped since
    doubled,    \* history: started while alive
    overlapped  \* history: a stop and a beat overlapped

fates == <<answered, early, reported, dropped>>
calls == <<starts, alive, doubled>>
handler == <<posted, queue>>
vars == <<handler, running, user, beats, fates, calls, overlapped>>

Beats == 1..MaxBeats
Beating == {"sending", "posting"}

HeartbeatInit ==
    /\ posted = 0
    /\ queue = {}
    /\ running = "idle"
    /\ user = "idle"
    /\ beats = 0
    /\ answered = {}
    /\ early = {}
    /\ reported = {}
    /\ dropped = {}
    /\ starts = 0
    /\ alive = FALSE
    /\ doubled = FALSE
    /\ overlapped = FALSE

-----------------------------------------------------------------------------
(***************************************************************************)
(* The Handler.                                                            *)
(***************************************************************************)
PostDelayed(what, beat, delay) ==
    /\ posted' = posted + 1
    /\ queue' = queue \cup {[what |-> what, beat |-> beat, wait |-> delay,
                             turn |-> posted + 1]}

Pending(what) == {m \in queue : m.what = what}

\* The beats whose timeout is posted.
TimedBeats == {m.beat : m \in Pending("timeout")}

\* Slip: the timeouts stay.
RemoveTimeoutsNever == queue

\* Slip: the wrong runnable is removed.
RemoveTimeoutsWrongly == queue \ Pending("loop")

RemoveTimeouts == queue \ Pending("timeout")

\* Slip: the loop stays.
RemoveLoopsNever == queue

RemoveLoops == queue \ Pending("loop")

Before(m, k) ==
    \/ m.wait < k.wait
    \/ m.wait = k.wait /\ m.turn < k.turn

\* The handler's thread takes m.
Take(m) ==
    /\ running = "idle"
    /\ m.wait <= 0
    /\ \A k \in queue \ {m} : Before(m, k)
    /\ queue' = queue \ {m}
    /\ UNCHANGED posted

Tick ==
    /\ \E m \in queue : m.wait > 0
    /\ queue' = {[m EXCEPT !.wait = @ - 1] : m \in queue}
    /\ UNCHANGED <<posted, running, user, beats, fates, calls, overlapped>>

-----------------------------------------------------------------------------
(***************************************************************************)
(* The two runnables.                                                      *)
(***************************************************************************)
RunLoop ==
    /\ \E m \in Pending("loop") : Take(m)
    /\ beats < MaxBeats
    /\ running' = "sending"
    /\ beats' = beats + 1
    /\ overlapped' = (overlapped \/ user = "stopping")
    /\ UNCHANGED <<user, fates, calls>>

\* Bound: when the beats are used up the loop ends.
BeatsUsedUp ==
    /\ \E m \in Pending("loop") : Take(m)
    /\ beats = MaxBeats
    /\ UNCHANGED <<running, user, beats, fates, calls, overlapped>>

\* Slip: no timeout is posted.
PostTimeoutForgotten ==
    /\ running = "sending"
    /\ running' = "posting"
    /\ UNCHANGED <<handler, user, beats, fates, calls, overlapped>>

\* onEvent has sent the beat and returned.
PostTimeout ==
    /\ running = "sending"
    /\ PostDelayed("timeout", beats, Timeout)
    /\ running' = "posting"
    /\ UNCHANGED <<user, beats, fates, calls, overlapped>>

PostLoop ==
    /\ running = "posting"
    /\ PostDelayed("loop", 0, Timeout)
    /\ running' = "idle"
    /\ UNCHANGED <<user, beats, fates, calls, overlapped>>

RunTimeout ==
    /\ \E m \in Pending("timeout") :
          /\ Take(m)
          /\ reported' = reported \cup {m.beat}
    /\ running' = "reporting"
    /\ UNCHANGED <<user, beats, answered, early, dropped, calls, overlapped>>

CallbackReturns ==
    /\ running = "reporting"
    /\ running' = "idle"
    /\ UNCHANGED <<handler, user, beats, fates, calls, overlapped>>

HandlerStep ==
    RunLoop \/ BeatsUsedUp \/ PostTimeout \/ PostLoop \/ RunTimeout \/ CallbackReturns

-----------------------------------------------------------------------------
(***************************************************************************)
(* The calls.  A stop may also come from within the callback, on the       *)
(* handler's own thread.                                                   *)
(***************************************************************************)
startHeartBeat ==
    /\ user = "idle"
    /\ starts < MaxStarts
    /\ PostDelayed("loop", 0, 0)
    /\ starts' = starts + 1
    /\ alive' = TRUE
    /\ doubled' = (doubled \/ alive)
    /\ UNCHANGED <<running, user, beats, fates, overlapped>>

StopTimeouts ==
    /\ user = "idle"
    /\ queue' = RemoveTimeouts
    /\ user' = "stopping"
    /\ dropped' = dropped \cup TimedBeats
    /\ overlapped' = (overlapped \/ running \in Beating)
    /\ UNCHANGED <<posted, running, beats, answered, early, reported, calls>>

StopLoop ==
    /\ user = "stopping"
    /\ queue' = RemoveLoops
    /\ user' = "idle"
    /\ alive' = FALSE
    /\ overlapped' = (overlapped \/ running \in Beating)
    /\ UNCHANGED <<posted, running, beats, fates, starts, doubled>>

StopInCallback ==
    /\ running \in {"sending", "reporting"}
    /\ queue' = RemoveLoops \cap RemoveTimeouts
    /\ dropped' = dropped \cup TimedBeats
    /\ alive' = FALSE
    /\ overlapped' = (overlapped \/ running \in Beating)
    /\ UNCHANGED <<posted, running, user, beats, answered, early,
                   reported, starts, doubled>>

\* The answer of beat n, which notifyRes does not ask for.
notifyRes(n) ==
    /\ n <= beats
    /\ n \notin answered
    /\ queue' = RemoveTimeouts
    /\ answered' = answered \cup {n}
    /\ early' = IF running = "sending" /\ n = beats
                  THEN early \cup {n} ELSE early
    /\ dropped' = dropped \cup (TimedBeats \ {n})
    /\ UNCHANGED <<posted, running, user, beats, reported, calls, overlapped>>

-----------------------------------------------------------------------------
Next ==
    \/ Tick
    \/ HandlerStep
    \/ startHeartBeat \/ StopTimeouts \/ StopLoop \/ StopInCallback
    \/ \E n \in Beats : notifyRes(n)

Spec == HeartbeatInit /\ [][Next]_vars

\* Time passes, the handler's thread runs what is due and its callbacks return;
\* nobody need answer, start or stop.
FairSpec == Spec /\ WF_vars(Tick) /\ WF_vars(HandlerStep)

-----------------------------------------------------------------------------
(***************************************************************************)
(* Correctness.                                                            *)
(***************************************************************************)
Calm == ~doubled /\ ~overlapped

AtMostOne(S) == \A m, k \in S : m = k

\* Unless it was started twice, or stopped in the middle of a beat, the
\* heartbeat is one loop, and the timeout of a beat is settled before the next
\* beat is sent: an answer, which does not say to which beat it belongs
\* (notifyRes), cannot take back the timeouts of two.
OneBeatAtATime ==
    Calm => /\ AtMostOne(Pending("loop"))
            /\ running \in Beating => Pending("loop") = {}
            /\ AtMostOne(Pending("timeout"))
            /\ running = "sending" => Pending("timeout") = {}

\* After stopHeartBeat nothing is posted and no beat is under way, unless the
\* stop overlapped a beat (also by being called from its callback): that beat
\* posts its timeout and the loop again, and the heartbeat survives its stop.
StoppedHeartbeatIsQuiet ==
    ~alive /\ ~overlapped => queue = {} /\ running \notin Beating

\* A beat that was answered is not reported as timed out, unless the answer
\* came before the beat had posted its timeout: notifyRes finds nothing to take
\* back then, and the timeout posted after it strikes.
AnsweredBeatIsNotTimedOut ==
    [][\A n \in reported' \ reported : n \in answered => n \in early]_vars

\* Every beat is answered, reported as timed out, or loses its timeout to a
\* stop or to the answer of another beat: silence is not overlooked.
SilenceIsReported ==
    \A n \in Beats : n <= beats ~> n \in answered \cup reported \cup dropped

=============================================================================
