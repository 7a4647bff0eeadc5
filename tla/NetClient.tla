------------------------------- MODULE NetClient -------------------------------
(***************************************************************************)
(* DefaultTcpClient (with AbConnectImpl) and DefaultUdpClient: connect,    *)
(* disConnect and sendData, each called by a thread of its own, against    *)
(* the receive thread that connect starts.  None of them takes a lock; all *)
(* go through the field that holds the socket (mSocket, client) and the    *)
(* flag isConnected.                                                       *)
(*                                                                         *)
(* A connection is the number of the socket made for it, and its receive   *)
(* thread has the same number.  The field is read again at every use, so   *)
(* every use is a step.  An exception nobody catches ends the process.     *)
(* isConnected is not volatile in the TCP client; a change of it is taken  *)
(* to be seen by the next read, as a loop around a system call sees it.    *)
(***************************************************************************)
EXTENDS Naturals, FiniteSets

CONSTANT MaxConnections     \* bound: the sockets that are made

ASSUME NetAssumption == MaxConnections \in Nat

Connections == 1 .. MaxConnections
None == 0

VARIABLES
    kind,           \* "tcp" or "udp": which of the two clients this is
    socket,         \* the field mSocket or client, None for null
    state,          \* each socket: "none", "new", "open", "shut" or "closed"
    peer,           \* each connection's other end: "there", "gone" or "broken"
    made,           \* the number of sockets made
    isConnected,
    receiveThread,  \* the thread started last, None before the first
    at,             \* where each receive thread is
    on,             \* the socket each receive thread reads from
    connecting,     \* where connect is
    closing,        \* where disConnect is
    closer,         \* the receive thread that called disConnect, or None
    sending,        \* where sendData is
    crashed,        \* an exception has ended the process
    heard,          \* history: the threads that reported a failure
    ownReported,    \* history: one of them was caused by disConnect itself
    overlaps        \* history: the calls that disConnect overlapped

socketVars == <<socket, state, peer, made, isConnected>>
threadVars == <<receiveThread, at, on>>
callVars == <<connecting, closing, closer, sending>>
historyVars == <<heard, ownReported, overlaps>>
netVars == <<kind, socketVars, threadVars, callVars, historyVars, crashed>>

NetInit ==
    /\ kind \in {"tcp", "udp"}
    /\ socket = None
    /\ state = [n \in Connections |-> "none"]
    /\ peer = [n \in Connections |-> "there"]
    /\ made = 0
    /\ isConnected = FALSE
    /\ receiveThread = None
    /\ at = [n \in Connections |-> "none"]
    /\ on = [n \in Connections |-> None]
    /\ connecting = "no"
    /\ closing = "no"
    /\ closer = None
    /\ sending = "no"
    /\ crashed = FALSE
    /\ heard = {}
    /\ ownReported = FALSE
    /\ overlaps = {}

Alive(n) == at[n] \notin {"none", "dead"}

\* The socket n can be read from and written to.
Usable(n) == n # None /\ state[n] = "open"

Crash ==
    /\ crashed' = TRUE
    /\ UNCHANGED <<kind, socketVars, threadVars, callVars, historyVars>>

-----------------------------------------------------------------------------
(***************************************************************************)
(* connect.                                                                *)
(***************************************************************************)

Connecting(from, to) ==
    /\ connecting = from
    /\ connecting' = to

\* The field refers to the new socket before that is connected.
Connect ==
    /\ socket = None
    /\ made < MaxConnections
    /\ Connecting("no", "socket")
    /\ made' = made + 1
    /\ socket' = made + 1
    /\ state' = [state EXCEPT ![made + 1] = "new"]
    /\ overlaps' = IF closing # "no" THEN overlaps \cup {"connect"} ELSE overlaps
    /\ UNCHANGED <<kind, peer, isConnected, threadVars, closing, closer, sending,
                   heard, ownReported, crashed>>

SocketConnects ==
    /\ Connecting("socket", "stream")
    /\ state[made] = "new"
    /\ state' = [state EXCEPT ![made] = "open"]
    /\ UNCHANGED <<kind, socket, peer, made, isConnected, threadVars, closing,
                   closer, sending, historyVars, crashed>>

\* The socket cannot be connected, or disConnect has closed it meanwhile.
ConnectFails ==
    /\ \/ connecting = "socket"
       \/ connecting = "stream" /\ socket # None /\ ~Usable(socket)
       \/ connecting = "stream" /\ socket = None /\ kind = "udp"
    /\ connecting' = "no"
    /\ socket' = None
    /\ state' = [state EXCEPT ![made] = "closed"]
    /\ UNCHANGED <<kind, peer, made, isConnected, threadVars, closing, closer,
                   sending, historyVars, crashed>>

\* The stream is taken from the field.  connect of the TCP client catches no
\* NullPointerException.
TakeStream ==
    \/ /\ Usable(socket)
       /\ Connecting("stream", "test")
       /\ UNCHANGED <<kind, socketVars, threadVars, closing, closer, sending,
                      historyVars, crashed>>
    \/ connecting = "stream" /\ socket = None /\ kind = "tcp" /\ Crash

TestSocket ==
    /\ Connecting("test", IF socket # None THEN "flag" ELSE "no")
    /\ UNCHANGED <<kind, socketVars, threadVars, closing, closer, sending,
                   historyVars, crashed>>

RaiseConnected ==
    /\ Connecting("flag", "thread")
    /\ isConnected' = TRUE
    /\ UNCHANGED <<kind, socket, state, peer, made, threadVars, closing, closer,
                   sending, historyVars, crashed>>

StartReceiveThread ==
    /\ Connecting("thread", "no")
    /\ receiveThread' = made
    /\ at' = [at EXCEPT ![made] = "loop"]
    /\ UNCHANGED <<kind, socketVars, on, closing, closer, sending, historyVars,
                   crashed>>

ConnectStep ==
    \/ SocketConnects \/ ConnectFails \/ TakeStream \/ TestSocket
    \/ RaiseConnected \/ StartReceiveThread

-----------------------------------------------------------------------------
(***************************************************************************)
(* disConnect.  The TCP client lowers the flag whether there is a socket   *)
(* or not, and forgets the socket after the join; the UDP client lowers it *)
(* only with a socket, and forgets that before the join.                   *)
(***************************************************************************)

Closing(from, to) ==
    /\ closing = from
    /\ closing' = to

\* Slip: the flag is not lowered.
LoweredNever == isConnected

Lowered == FALSE

\* by is the receive thread whose callback calls, or None.
Disconnect(by) ==
    /\ closing = "no"
    /\ by # None => at[by] = "callback"
    /\ IF socket = None
         THEN /\ isConnected' = IF kind = "tcp" THEN Lowered ELSE isConnected
              /\ UNCHANGED <<at, closing, closer>>
         ELSE /\ isConnected' = Lowered
              /\ closing' = IF kind = "tcp" THEN "shut" ELSE "close"
              /\ closer' = by
              /\ at' = [n \in Connections |-> IF n = by THEN "closing" ELSE at[n]]
    /\ overlaps' = overlaps \cup (IF connecting # "no" THEN {"connect"} ELSE {})
                            \cup (IF sending # "no" THEN {"send"} ELSE {})
    /\ UNCHANGED <<kind, socket, state, peer, made, receiveThread, on, connecting,
                   sending, heard, ownReported, crashed>>

\* shutdownInput and close; a failing connect may have forgotten the socket,
\* and only an IOException is caught.
CloseSocket ==
    /\ closing \in {"shut", "close"}
    /\ IF socket = None
         THEN Crash
         ELSE /\ \/ Closing("shut", "close")
                    /\ state' = [state EXCEPT ![socket] =
                                   IF @ = "open" THEN "shut" ELSE @]
                 \/ Closing("close", IF kind = "tcp" THEN "join" ELSE "forget")
                    /\ state' = [state EXCEPT ![socket] = "closed"]
              /\ UNCHANGED <<kind, socket, peer, made, isConnected, threadVars,
                             connecting, closer, sending, historyVars, crashed>>

\* Slip: disConnect does not wait for the thread.
ReceiverGoneUnchecked == TRUE

ReceiverGone == receiveThread # None => ~Alive(receiveThread)

\* The last step of disConnect; a callback that called it goes on.
Return ==
    /\ closing' = "no"
    /\ closer' = None
    /\ at' = [n \in Connections |-> IF n = closer THEN "loop" ELSE at[n]]

JoinReceiveThread ==
    /\ closing = "join"
    /\ ReceiverGone
    /\ IF kind = "tcp" THEN closing' = "forget" /\ UNCHANGED <<closer, at>>
                       ELSE Return
    /\ UNCHANGED <<kind, socketVars, receiveThread, on, connecting, sending,
                   historyVars, crashed>>

ForgetSocket ==
    /\ closing = "forget"
    /\ socket' = None
    /\ IF kind = "tcp" THEN Return ELSE closing' = "join" /\ UNCHANGED <<closer, at>>
    /\ UNCHANGED <<kind, state, peer, made, isConnected, receiveThread, on,
                   connecting, sending, historyVars, crashed>>

DisconnectStep == CloseSocket \/ JoinReceiveThread \/ ForgetSocket

-----------------------------------------------------------------------------
(***************************************************************************)
(* sendData.                                                               *)
(***************************************************************************)

\* Slip: the socket is not looked for.
MaySendUnchecked == kind = "tcp" => isConnected

MaySend == socket # None /\ (kind = "tcp" => isConnected)

SendData ==
    /\ sending = "no"
    /\ MaySend
    /\ sending' = "send"
    /\ overlaps' = overlaps \cup (IF closing # "no" \/ connecting # "no"
                                    THEN {"send"} ELSE {})
    /\ UNCHANGED <<kind, socketVars, threadVars, connecting, closing, closer,
                   heard, ownReported, crashed>>

\* The data goes out, or onSend reports an IOException; a socket forgotten
\* since the test is a NullPointerException, which nobody catches.  The UDP
\* client's datagram packet, forgotten with its socket, is left out.
SendEnds ==
    /\ sending = "send"
    /\ IF socket = None
         THEN Crash
         ELSE /\ sending' = "no"
              /\ UNCHANGED <<kind, socketVars, threadVars, connecting, closing,
                             closer, historyVars, crashed>>

-----------------------------------------------------------------------------
(***************************************************************************)
(* The receive threads.                                                    *)
(***************************************************************************)

Go(n, from, to) ==
    /\ at[n] = from
    /\ at' = [at EXCEPT ![n] = to]

\* The loop goes on without reading when there is no socket, or one that is
\* not connected yet.
TestConnected(n) ==
    /\ at[n] = "loop"
    /\ IF ~isConnected
         THEN Go(n, "loop", "dead") /\ UNCHANGED on
         ELSE /\ socket # None /\ state[socket] # "new"
              /\ Go(n, "loop", "read")
              /\ on' = [on EXCEPT ![n] = socket]
    /\ UNCHANGED <<kind, socketVars, receiveThread, callVars, historyVars, crashed>>

EndOfStream(m) ==
    \/ Usable(m) /\ peer[m] = "gone"
    \/ state[m] = "shut"

\* Data is delivered by the callback, unless the stream ends: then nothing is
\* said, and the loop reads again.
ReadData(n) ==
    /\ at[n] = "read"
    /\ \/ Usable(on[n]) /\ peer[on[n]] = "there" /\ Go(n, "read", "callback")
       \/ kind = "tcp" /\ EndOfStream(on[n]) /\ Go(n, "read", "loop")
    /\ UNCHANGED <<kind, socketVars, receiveThread, on, callVars, historyVars,
                   crashed>>

\* The connection broke or a read timed out ("peer"), or disConnect has closed
\* the socket or taken the stream away ("own").
Causes(n) ==
    (IF Usable(on[n]) /\ peer[on[n]] # "gone" THEN {"peer"} ELSE {})
      \cup (IF state[on[n]] \in {"shut", "closed"} THEN {"own"} ELSE {})

\* Slips: the flag is not looked at, or the wrong way round.
MayReportUnchecked == TRUE
MayReportInverted == ~isConnected

MayReport == isConnected

ReadFails(n) ==
    /\ at[n] = "read"
    /\ \E cause \in Causes(n) :
         IF MayReport
           THEN /\ Go(n, "read", "callback")
                /\ heard' = heard \cup {n}
                /\ ownReported' = (ownReported \/ cause = "own")
           ELSE Go(n, "read", "loop") /\ UNCHANGED <<heard, ownReported>>
    /\ UNCHANGED <<kind, socketVars, receiveThread, on, callVars, overlaps,
                   crashed>>

CallbackReturns(n) ==
    /\ Go(n, "callback", "loop")
    /\ UNCHANGED <<kind, socketVars, receiveThread, on, callVars, historyVars,
                   crashed>>

ReceiveStep(n) ==
    TestConnected(n) \/ ReadData(n) \/ ReadFails(n) \/ CallbackReturns(n)

-----------------------------------------------------------------------------
\* The other end closes the connection, or it breaks.
PeerLost(n, how) ==
    /\ Usable(n)
    /\ peer[n] = "there"
    /\ peer' = [peer EXCEPT ![n] = how]
    /\ UNCHANGED <<kind, socket, state, made, isConnected, threadVars, callVars,
                   historyVars, crashed>>

NetNext ==
    /\ ~crashed
    /\ \/ Connect \/ ConnectStep
       \/ \E by \in Connections \cup {None} : Disconnect(by)
       \/ DisconnectStep
       \/ SendData \/ SendEnds
       \/ \E n \in Connections : ReceiveStep(n)
       \/ \E n \in Connections, how \in {"gone", "broken"} : PeerLost(n, how)

NetSpec == NetInit /\ [][NetNext]_netVars

\* A call that has begun goes on, and the receive threads run; so connecting
\* ends within its timeout, and callbacks return.  Nothing is assumed of the
\* calls that are made or of the other end.
NetFairSpec ==
    /\ NetSpec
    /\ WF_netVars(~crashed /\ ConnectStep)
    /\ WF_netVars(~crashed /\ DisconnectStep)
    /\ \A n \in Connections : WF_netVars(~crashed /\ ReceiveStep(n))

-----------------------------------------------------------------------------
(***************************************************************************)
(* Properties.                                                             *)
(***************************************************************************)

\* Every variable keeps its type.
NetTypeOK ==
    /\ kind \in {"tcp", "udp"}
    /\ {socket, made, receiveThread, closer} \subseteq Connections \cup {None}
    /\ state \in [Connections -> {"none", "new", "open", "shut", "closed"}]
    /\ peer \in [Connections -> {"there", "gone", "broken"}]
    /\ {isConnected, ownReported, crashed} \subseteq BOOLEAN
    /\ at \in [Connections ->
                  {"none", "loop", "read", "callback", "closing", "dead"}]
    /\ on \in [Connections -> Connections \cup {None}]
    /\ connecting \in {"no", "socket", "stream", "test", "flag", "thread"}
    /\ closing \in {"no", "shut", "close", "join", "forget"}
    /\ sending \in {"no", "send"}
    /\ heard \subseteq Connections
    /\ overlaps \subseteq {"connect", "send"}

OneThread == \A m, n \in Connections : Alive(m) /\ Alive(n) => m = n

\* isConnected promises a socket that can be used.
FlagIsTrue == isConnected /\ closing = "no" => Usable(socket)

\* As long as connect and disConnect do not overlap there is one receive thread
\* at a time and isConnected tells the truth; if they do, the flag may stay up
\* without a socket and the next connect starts a second thread.
CalmClientIsSound == "connect" \notin overlaps => OneThread /\ FlagIsTrue

\* The process ends by a null pointer only where two calls overlapped: the field
\* is tested and used without a lock.
CrashNeedsOverlap == crashed => overlaps # {}

\* The receive thread never reports as a failure what disConnect did: the flag
\* is lowered before the socket is touched, and tested before the report.
OwnCloseIsNotReported == ownReported => "connect" \in overlaps

\* A connection that breaks is reported by its receive thread, unless disConnect
\* closes the socket, or takes it from the client, first.  (One that the other
\* end closes in order is not: read returns -1, and the loop goes on without a
\* word.)
LossIsReported ==
    \A n \in Connections :
        socket = n /\ isConnected /\ peer[n] = "broken" ~>
            n \in heard \/ socket # n \/ ~Usable(n) \/ crashed

\* A receive thread whose callback called disConnect is joined by itself.
SelfJoin == closing = "join" /\ closer # None /\ closer = receiveThread

\* disConnect returns, unless it was called by the thread it joins, or a connect
\* it overlapped raised the flag again.
DisconnectIsResolved ==
    closing # "no" ~>
        closing = "no" \/ crashed \/ SelfJoin \/ "connect" \in overlaps
=============================================================================
