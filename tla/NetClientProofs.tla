--------------------------- MODULE NetClientProofs ---------------------------
(***************************************************************************)
(* Proofs about NetClient for any number of connections: the types, and    *)
(* the three invariants that say what a client without locks still         *)
(* guarantees.  They rest on NetInv, most of which holds only as long as   *)
(* connect and disConnect have not overlapped.                             *)
(***************************************************************************)
EXTENDS NetClient, TLAPS

(***************************************************************************)
(* The inductive invariant, in parts.                                      *)
(***************************************************************************)

\* Who is inside a call.
CallInv ==
    /\ connecting # "no" => made # None /\ at[made] = "none"
    /\ \A n \in Connections : n > made => at[n] = "none"
    /\ closing = "no" => closer = None
    /\ \A n \in Connections : at[n] = "closing" <=> closer = n

NobodyReceives == \A n \in Connections : ~Alive(n)

\* While connect runs it has the client for itself.
ConnectInv ==
    /\ connecting # "no" => closing = "no" /\ socket = made /\ NobodyReceives
    /\ connecting = "socket" => state[made] = "new"
    /\ connecting \in {"stream", "test", "flag", "thread"} => state[made] = "open"
    /\ connecting \in {"socket", "stream", "test", "flag"} => ~isConnected

\* disConnect lowers the flag first, and the thread it joins is the only one.
DisconnectInv ==
    /\ isConnected => closing = "no" /\ Usable(socket)
    /\ closing \in {"shut", "close"} => socket # None
    /\ closing = "forget" /\ kind = "tcp" => NobodyReceives
    /\ closing = "no" /\ socket = None => NobodyReceives

ReceiveInv ==
    \A n \in Connections :
        /\ Alive(n) => n = receiveThread
        /\ at[n] = "read" /\ isConnected => Usable(on[n])

CalmInv ==
    "connect" \notin overlaps => ConnectInv /\ DisconnectInv /\ ReceiveInv

\* A send that overlaps nothing keeps its socket.
SendInv ==
    overlaps = {} /\ sending = "send" =>
        closing = "no" /\ connecting = "no" /\ socket # None

NetInv ==
    /\ NetTypeOK /\ CallInv /\ CalmInv /\ SendInv
    /\ CrashNeedsOverlap /\ OwnCloseIsNotReported

-----------------------------------------------------------------------------
\* A new client satisfies NetInv.
LEMMA NetInitEstablishesInv ==
  NetInit => NetInv
<1> SUFFICES ASSUME NetInit
             PROVE  NetInv
  OBVIOUS
<1> USE NetAssumption DEF NetInit
<1>1. NetTypeOK
  BY DEF NetTypeOK, Connections, None
<1>2. CallInv /\ SendInv
  BY DEF CallInv, SendInv, Connections, None
<1>3. CalmInv
  BY DEF CalmInv, ConnectInv, DisconnectInv, ReceiveInv, NobodyReceives, Alive
<1>4. CrashNeedsOverlap /\ OwnCloseIsNotReported
  BY DEF CrashNeedsOverlap, OwnCloseIsNotReported
<1>5. QED
  BY <1>1, <1>2, <1>3, <1>4 DEF NetInv

\* Each step of connect preserves NetInv.
LEMMA ConnectKeepsInv ==
  ASSUME NetInv, ~crashed, Connect \/ ConnectStep
  PROVE  NetInv'
<1> USE NetAssumption
    DEF NetInv, NetTypeOK, CallInv, CalmInv, ConnectInv, DisconnectInv,
        ReceiveInv, NobodyReceives, SendInv, CrashNeedsOverlap,
        OwnCloseIsNotReported, Alive, Usable, Connections, None, socketVars,
        threadVars, callVars, historyVars, Connecting
<1>1. CASE Connect
  BY <1>1 DEF Connect
<1>2. CASE SocketConnects
  <2>1. NetTypeOK'
    BY <1>2 DEF SocketConnects
  <2>2. CallInv' /\ SendInv'
    BY <1>2 DEF SocketConnects
  <2>3. CalmInv'
    BY <1>2 DEF SocketConnects
  <2>4. CrashNeedsOverlap' /\ OwnCloseIsNotReported'
    BY <1>2 DEF SocketConnects
  <2>5. QED
    BY <2>1, <2>2, <2>3, <2>4
<1>3. CASE ConnectFails
  BY <1>3 DEF ConnectFails
<1>4. CASE TakeStream
  <2>1. NetTypeOK'
    BY <1>4 DEF TakeStream, Crash
  <2>2. CallInv' /\ SendInv'
    BY <1>4 DEF TakeStream, Crash
  <2>3. CalmInv'
    BY <1>4 DEF TakeStream, Crash
  <2>4. CrashNeedsOverlap' /\ OwnCloseIsNotReported'
    BY <1>4 DEF TakeStream, Crash
  <2>5. QED
    BY <2>1, <2>2, <2>3, <2>4
<1>5. CASE TestSocket
  <2>1. NetTypeOK'
    BY <1>5 DEF TestSocket
  <2>2. CallInv' /\ SendInv'
    BY <1>5 DEF TestSocket
  <2>3. CalmInv'
    BY <1>5 DEF TestSocket
  <2>4. CrashNeedsOverlap' /\ OwnCloseIsNotReported'
    BY <1>5 DEF TestSocket
  <2>5. QED
    BY <2>1, <2>2, <2>3, <2>4
<1>6. CASE RaiseConnected
  BY <1>6 DEF RaiseConnected
<1>7. CASE StartReceiveThread
  <2>1. /\ connecting = "thread" /\ connecting' = "no" /\ made \in Connections
        /\ receiveThread' = made
        /\ at' = [at EXCEPT ![made] = "loop"]
        /\ UNCHANGED <<kind, socket, state, peer, made, isConnected, on, closing,
                       closer, sending, heard, ownReported, overlaps, crashed>>
    BY <1>7 DEF StartReceiveThread
  <2>2. NetTypeOK' /\ SendInv' /\ CrashNeedsOverlap' /\ OwnCloseIsNotReported'
    BY <2>1
  <2>3. CallInv'
    BY <2>1
  <2>4. CalmInv'
    BY <2>1
  <2>5. QED
    BY <2>2, <2>3, <2>4
<1>8. QED
  BY <1>1, <1>2, <1>3, <1>4, <1>5, <1>6, <1>7 DEF ConnectStep

\* Each step of disConnect preserves NetInv.
LEMMA DisconnectKeepsInv ==
  ASSUME NetInv, ~crashed,
         (\E by \in Connections \cup {None} : Disconnect(by)) \/ DisconnectStep
  PROVE  NetInv'
<1> USE NetAssumption
    DEF NetInv, NetTypeOK, CallInv, CalmInv, ConnectInv, DisconnectInv,
        ReceiveInv, NobodyReceives, SendInv, CrashNeedsOverlap,
        OwnCloseIsNotReported, Alive, Usable, Connections, None, socketVars,
        threadVars, callVars, historyVars, Closing
<1>1. ASSUME NEW by \in Connections \cup {None}, Disconnect(by)
      PROVE  NetInv'
  <2>1. /\ overlaps \subseteq overlaps'
        /\ overlaps' \subseteq {"connect", "send"}
        /\ connecting # "no" => "connect" \in overlaps'
        /\ sending # "no" => "send" \in overlaps'
    BY <1>1 DEF Disconnect
  <2>2. /\ UNCHANGED <<kind, socket, state, peer, made, receiveThread, on,
                       connecting, sending, heard, ownReported, crashed>>
        /\ closing = "no" /\ closer = None
    BY <1>1 DEF Disconnect
  <2>3. CASE socket = None
    <3>1. UNCHANGED <<at, closing, closer>> /\ isConnected' \in {isConnected, FALSE}
      BY <1>1, <2>3 DEF Disconnect, Lowered
    <3>2. NetTypeOK' /\ CallInv' /\ SendInv'
      BY <2>1, <2>2, <3>1
    <3>3. CalmInv'
      BY <2>1, <2>2, <2>3, <3>1
    <3>4. QED
      BY <2>1, <2>2, <3>2, <3>3
  <2>4. CASE socket # None
    <3>1. /\ isConnected' = FALSE
          /\ closing' \in {"shut", "close"}
          /\ closer' = by
          /\ at' = [n \in Connections |-> IF n = by THEN "closing" ELSE at[n]]
          /\ by # None => at[by] = "callback"
      BY <1>1, <2>4 DEF Disconnect, Lowered
    <3>2. NetTypeOK'
      BY <2>1, <2>2, <3>1
    <3>3. CallInv' /\ SendInv'
      BY <2>1, <2>2, <3>1
    <3>4. CalmInv'
      BY <2>1, <2>2, <2>4, <3>1
    <3>5. QED
      BY <2>1, <2>2, <3>2, <3>3, <3>4
  <2>5. QED
    BY <2>3, <2>4
<1>2. CASE CloseSocket
  <2>1. closing \in {"shut", "close"}
    BY <1>2 DEF CloseSocket
  <2>2. CASE socket = None
    <3>1. Crash
      BY <1>2, <2>2 DEF CloseSocket
    <3>2. NetTypeOK' /\ CallInv' /\ SendInv' /\ CalmInv' /\ OwnCloseIsNotReported'
      BY <3>1 DEF Crash
    <3>3. "connect" \in overlaps
      BY <2>1, <2>2
    <3>4. CrashNeedsOverlap'
      BY <3>1, <3>3 DEF Crash
    <3>5. QED
      BY <3>2, <3>4
  <2>3. CASE socket # None
    <3>1. PICK s \in {"new", "open", "shut", "closed", "none"} :
            state' = [state EXCEPT ![socket] = s]
      BY <1>2, <2>3 DEF CloseSocket
    <3>2. /\ closing' \in {"close", "join", "forget"}
          /\ closing' = "forget" => kind # "tcp"
          /\ UNCHANGED <<kind, socket, peer, made, isConnected, receiveThread, at,
                         on, connecting, closer, sending, heard, ownReported,
                         overlaps, crashed>>
      BY <1>2, <2>3 DEF CloseSocket
    <3>3. NetTypeOK' /\ CallInv' /\ SendInv' /\ CrashNeedsOverlap'
            /\ OwnCloseIsNotReported'
      BY <2>1, <2>3, <3>1, <3>2
    <3>4. CalmInv'
      BY <2>1, <2>3, <3>1, <3>2
    <3>5. QED
      BY <3>3, <3>4
  <2>4. QED
    BY <2>2, <2>3
<1>3. CASE JoinReceiveThread
  <2>1. /\ closing = "join"
        /\ receiveThread # None => ~Alive(receiveThread)
        /\ UNCHANGED <<kind, socket, state, peer, made, isConnected, receiveThread,
                       on, connecting, sending, heard, ownReported, overlaps, crashed>>
    BY <1>3 DEF JoinReceiveThread, ReceiverGone
  <2>2. CASE kind = "tcp"
    <3>1. closing' = "forget" /\ UNCHANGED <<closer, at>>
      BY <1>3, <2>2 DEF JoinReceiveThread
    <3>2. NetTypeOK' /\ CallInv' /\ SendInv'
      BY <2>1, <3>1
    <3>3. CalmInv'
      BY <2>1, <2>2, <3>1
    <3>4. QED
      BY <2>1, <3>2, <3>3
  <2>3. CASE kind # "tcp"
    <3>1. /\ closing' = "no" /\ closer' = None
          /\ at' = [n \in Connections |-> IF n = closer THEN "loop" ELSE at[n]]
      BY <1>3, <2>3 DEF JoinReceiveThread, Return
    <3>2. NetTypeOK' /\ CallInv' /\ SendInv'
      BY <2>1, <3>1
    <3>3. CASE "connect" \in overlaps
      BY <2>1, <3>2, <3>3
    <3>4. CASE "connect" \notin overlaps
      <4>1. NobodyReceives'
        BY <2>1, <3>1, <3>4
      <4>2. CalmInv'
        BY <2>1, <3>1, <3>4, <4>1
      <4>3. QED
        BY <2>1, <3>2, <4>2
    <3>5. QED
      BY <3>3, <3>4
  <2>4. QED
    BY <2>2, <2>3
<1>4. CASE ForgetSocket
  <2>1. /\ closing = "forget"
        /\ socket' = None
        /\ UNCHANGED <<kind, state, peer, made, isConnected, receiveThread,
                       on, connecting, sending, heard, ownReported, overlaps, crashed>>
    BY <1>4 DEF ForgetSocket
  <2>2. CASE kind # "tcp"
    <3>1. closing' = "join" /\ UNCHANGED <<closer, at>>
      BY <1>4, <2>2 DEF ForgetSocket
    <3>2. NetTypeOK' /\ CallInv' /\ SendInv'
      BY <2>1, <3>1
    <3>3. CalmInv'
      BY <2>1, <2>2, <3>1
    <3>4. QED
      BY <2>1, <3>2, <3>3
  <2>3. CASE kind = "tcp"
    <3>1. /\ closing' = "no" /\ closer' = None
          /\ at' = [n \in Connections |-> IF n = closer THEN "loop" ELSE at[n]]
      BY <1>4, <2>3 DEF ForgetSocket, Return
    <3>2. NetTypeOK' /\ CallInv' /\ SendInv'
      BY <2>1, <3>1
    <3>3. CASE "connect" \in overlaps
      BY <2>1, <3>2, <3>3
    <3>4. CASE "connect" \notin overlaps
      <4>1. NobodyReceives /\ ~isConnected /\ connecting = "no"
        BY <2>1, <2>3, <3>4
      <4>2. ASSUME NEW n \in Connections
            PROVE  ~(Alive(n)')
        BY <3>1, <4>1 
      <4>3. CalmInv'
        BY <2>1, <3>1, <4>1, <4>2
      <4>4. QED
        BY <2>1, <3>2, <4>3
    <3>5. QED
      BY <3>3, <3>4
  <2>4. QED
    BY <2>2, <2>3
<1>5. QED
  BY <1>1, <1>2, <1>3, <1>4 DEF DisconnectStep

\* Sending preserves NetInv, and so does the loss of the other end.
LEMMA SendKeepsInv ==
  ASSUME NetInv, ~crashed,
         \/ SendData \/ SendEnds
         \/ \E n \in Connections, how \in {"gone", "broken"} : PeerLost(n, how)
  PROVE  NetInv'
<1> USE NetAssumption
    DEF NetInv, NetTypeOK, CallInv, CalmInv, ConnectInv, DisconnectInv,
        ReceiveInv, NobodyReceives, SendInv, CrashNeedsOverlap,
        OwnCloseIsNotReported, Alive, Usable, Connections, None, socketVars,
        threadVars, callVars, historyVars
<1>1. CASE SendData
  BY <1>1 DEF SendData, MaySend
<1>2. CASE SendEnds
  <2>1. CASE socket = None
    <3>1. Crash /\ overlaps # {}
      BY <1>2, <2>1 DEF SendEnds
    <3>2. NetTypeOK' /\ CallInv' /\ SendInv' /\ CalmInv' /\ OwnCloseIsNotReported'
      BY <3>1 DEF Crash
    <3>3. CrashNeedsOverlap'
      BY <3>1 DEF Crash
    <3>4. QED
      BY <3>2, <3>3
  <2>2. CASE socket # None
    <3>1. /\ sending' = "no"
          /\ UNCHANGED <<kind, socket, state, peer, made, isConnected,
                         receiveThread, at, on, connecting, closing, closer,
                         heard, ownReported, overlaps, crashed>>
      BY <1>2, <2>2 DEF SendEnds
    <3>2. NetTypeOK' /\ CallInv' /\ SendInv' /\ CrashNeedsOverlap'
            /\ OwnCloseIsNotReported'
      BY <3>1
    <3>3. CalmInv'
      BY <3>1
    <3>4. QED
      BY <3>2, <3>3
  <2>3. QED
    BY <2>1, <2>2
<1>3. ASSUME NEW n \in Connections, NEW how \in {"gone", "broken"}, PeerLost(n, how)
      PROVE  NetInv'
  BY <1>3 DEF PeerLost
<1>4. QED
  BY <1>1, <1>2, <1>3

\* Each step of a receive thread preserves NetInv.
LEMMA ReceiveKeepsInv ==
  ASSUME NetInv, ~crashed, NEW n \in Connections, ReceiveStep(n)
  PROVE  NetInv'
<1> USE NetAssumption
    DEF NetInv, NetTypeOK, CallInv, CalmInv, ConnectInv, DisconnectInv,
        ReceiveInv, NobodyReceives, SendInv, CrashNeedsOverlap,
        OwnCloseIsNotReported, Alive, Usable, Connections, None, socketVars,
        threadVars, callVars, historyVars, Go
<1>1. CASE TestConnected(n)
  <2>1. /\ at[n] = "loop" /\ UNCHANGED <<kind, socketVars, receiveThread,
                                         callVars, historyVars, crashed>>
    BY <1>1 DEF TestConnected
  <2>2. CASE ~isConnected
    <3>1. at' = [at EXCEPT ![n] = "dead"] /\ on' = on
      BY <1>1, <2>2 DEF TestConnected
    <3>2. NetTypeOK' /\ CallInv' /\ SendInv' /\ CrashNeedsOverlap'
            /\ OwnCloseIsNotReported'
      BY <2>1, <3>1
    <3>3. CalmInv'
      BY <2>1, <2>2, <3>1
    <3>4. QED
      BY <3>2, <3>3
  <2>3. CASE isConnected
    <3>1. /\ socket # None
          /\ at' = [at EXCEPT ![n] = "read"]
          /\ on' = [on EXCEPT ![n] = socket]
      BY <1>1, <2>3 DEF TestConnected
    <3>2. QED
      BY <2>1, <2>3, <3>1
  <2>4. QED
    BY <2>2, <2>3
<1>2. CASE ReadData(n)
  <2>1. /\ at[n] = "read" /\ at' \in {[at EXCEPT ![n] = l] : l \in {"loop", "callback"}}
        /\ UNCHANGED <<kind, socketVars, receiveThread, on, callVars, historyVars,
                       crashed>>
    BY <1>2 DEF ReadData
  <2>2. PICK l \in {"loop", "callback"} : at' = [at EXCEPT ![n] = l]
    BY <2>1
  <2>3. NetTypeOK' /\ CallInv' /\ SendInv' /\ CrashNeedsOverlap'
          /\ OwnCloseIsNotReported'
    BY <2>1, <2>2
  <2>4. CalmInv'
    BY <2>1, <2>2
  <2>5. QED
    BY <2>3, <2>4
<1>3. CASE ReadFails(n)
  <2>1. /\ at[n] = "read"
        /\ UNCHANGED <<kind, socketVars, receiveThread, on, callVars, overlaps, crashed>>
    BY <1>3 DEF ReadFails
  <2>2. CASE ~isConnected
    <3>1. at' = [at EXCEPT ![n] = "loop"] /\ UNCHANGED <<heard, ownReported>>
      BY <1>3, <2>2 DEF ReadFails, MayReport
    <3>2. QED
      BY <2>1, <3>1
  <2>3. CASE isConnected
    <3>1. /\ at' = [at EXCEPT ![n] = "callback"]
          /\ heard' = heard \cup {n}
          /\ ownReported' \in BOOLEAN
          /\ ownReported' => ownReported \/ state[on[n]] \in {"shut", "closed"}
      BY <1>3, <2>3 DEF ReadFails, MayReport, Causes
    <3>2. NetTypeOK' /\ CallInv' /\ SendInv' /\ CrashNeedsOverlap'
      BY <2>1, <3>1
    <3>3. CalmInv'
      BY <2>1, <3>1
    <3>4. "connect" \notin overlaps => Usable(on[n])
      BY <2>1, <2>3
    <3>5. OwnCloseIsNotReported'
      BY <2>1, <3>1, <3>4
    <3>6. QED
      BY <3>2, <3>3, <3>5
  <2>4. QED
    BY <2>2, <2>3
<1>4. CASE CallbackReturns(n)
  BY <1>4 DEF CallbackReturns
<1>5. QED
  BY <1>1, <1>2, <1>3, <1>4 DEF ReceiveStep

\* NetInv holds in every reachable state, for every MaxConnections.
THEOREM NetInvariant == NetSpec => []NetInv
<1>1. NetInit => NetInv
  BY NetInitEstablishesInv
<1>2. NetInv /\ [NetNext]_netVars => NetInv'
  <2> SUFFICES ASSUME NetInv, [NetNext]_netVars
               PROVE  NetInv'
    OBVIOUS
  <2>1. CASE NetNext
    BY <2>1, ConnectKeepsInv, DisconnectKeepsInv, SendKeepsInv, ReceiveKeepsInv
       DEF NetNext
  <2>2. CASE UNCHANGED netVars
    BY <2>2 DEF netVars, socketVars, threadVars, callVars, historyVars, NetInv,
       NetTypeOK, CallInv, CalmInv, ConnectInv, DisconnectInv, ReceiveInv,
       NobodyReceives, SendInv, CrashNeedsOverlap, OwnCloseIsNotReported, Alive,
       Usable
  <2>3. QED
    BY <2>1, <2>2
<1>3. QED
  BY <1>1, <1>2, PTL DEF NetSpec

-----------------------------------------------------------------------------
\* Every variable of the clients keeps its type.
THEOREM NetTypeCorrect == NetSpec => []NetTypeOK
<1>1. NetInv => NetTypeOK
  BY DEF NetInv
<1>2. QED
  BY <1>1, NetInvariant, PTL

\* Without an overlap of connect and disConnect there is one receive thread and
\* isConnected tells the truth.
THEOREM CalmClientIsSafe == NetSpec => []CalmClientIsSound
<1>1. NetInv => CalmClientIsSound
  BY DEF NetInv, CalmInv, DisconnectInv, ReceiveInv, CalmClientIsSound, OneThread,
     FlagIsTrue
<1>2. QED
  BY <1>1, NetInvariant, PTL

\* A null pointer ends the process only where two calls overlapped.
THEOREM CrashesAreRaces == NetSpec => []CrashNeedsOverlap
<1>1. NetInv => CrashNeedsOverlap
  BY DEF NetInv
<1>2. QED
  BY <1>1, NetInvariant, PTL

\* What disConnect does to the socket is not reported as a failure.
THEOREM OwnCloseIsSilent == NetSpec => []OwnCloseIsNotReported
<1>1. NetInv => OwnCloseIsNotReported
  BY DEF NetInv
<1>2. QED
  BY <1>1, NetInvariant, PTL
=============================================================================
