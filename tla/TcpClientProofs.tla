--------------------------- MODULE TcpClientProofs ---------------------------
(***************************************************************************)
(* Proofs about TcpClient, for any number of calls and connections.  What  *)
(* concerns the handler map holds of every client; what concerns the wire  *)
(* needs ~Overlap: nobody reconnects while a call is in progress.          *)
(***************************************************************************)
EXTENDS TcpClient, SequenceTheorems, TLAPS

\* Calls under way have stream ids of their own.
StreamIds ==
    /\ \A k \in Calls : ~Idle(k) => sid[k] < nextStreamId
    /\ \A j, k \in Calls : ~Idle(j) /\ ~Idle(k) /\ sid[j] = sid[k] => j = k

\* Handlers lead to open calls, whose promises are unset.
HandlerInv ==
    /\ HandlersOfOpenCalls
    /\ SetValueOnce
    /\ \A k \in Calls : pc[k] \in {"idle", "register"} => promise[k] = None

\* write_mutex_ is held by the call that writes.
LockInv == \A k \in Calls : Writing(k) <=> writeLock = k

\* The parts on the wire are whole frames but for the last one of the current
\* connection, which belongs to the call that is in the middle of its frame.
OddEnd(c) == Len(wire[c]) % 2 = 1

FrameInv ==
    /\ WholeFrames
    /\ \A c \in Conns : c > connNo => wire[c] = << >>
    /\ owner = "connecting" =>
          socket # NoSocket /\ link[socket] = "opening" /\ wire[socket] = << >>
    /\ socket # NoSocket /\ Live(socket) /\ OddEnd(socket) =>
          \E k \in Calls : pc[k] = "sendRest"
    /\ \A k \in Calls : pc[k] = "sendRest" /\ socket # NoSocket =>
          /\ OddEnd(socket)
          /\ wire[socket][Len(wire[socket])]
                = [call |-> k, sid |-> sid[k], part |-> "head"]

\* What travels carries the stream id of the call it belongs to.
Genuine(m) == ~Idle(m.call) /\ m.sid = sid[m.call]

WireGenuine == \A c \in Conns : \A i \in 1 .. Len(wire[c]) : Genuine(wire[c][i])

PeerGenuine ==
    /\ \A c \in Conns : \A m \in inbox[c] : Genuine(m)
    /\ \A c \in Conns : \A i \in 1 .. Len(replies[c]) : Genuine(replies[c][i])

\* What the reader holds, and what it has set, was sent by the peer.
Sent(m) == \E c \in Conns : \E n \in 1 .. Len(replies[c]) : replies[c][n] = m

ReaderInv ==
    /\ \A i \in 1 .. Len(batch) : Sent(batch[i])
    /\ \A k \in Calls : promise[k] # None => k \in Answered

Inv == /\ TypeOK /\ HandlerInv /\ StreamIds /\ LockInv /\ FrameInv
       /\ WireGenuine /\ PeerGenuine /\ ReaderInv /\ AnswerIsOwn

-------------------------------------------------------------------------------
(* Types                                                                   *)

LEMMA InitType == Init => TypeOK
<1> SUFFICES ASSUME Init PROVE TypeOK
  OBVIOUS
<1>1. CallTypes
  BY DEF Init, CallTypes
<1>2. ThreadTypes
  <2>1. << >> \in Seq(Message)
    BY EmptySeq
  <2>2. connNo \in 0 .. MaxConns /\ socket \in 0 .. connNo /\ recvOn \in 0 .. connNo
    BY ClientAssumption DEF Init, NoSocket
  <2>3. batch \in Seq(Message) /\ running \in BOOLEAN
    BY <2>1 DEF Init
  <2> QED
    BY <2>1, <2>2, <2>3 DEF Init, ThreadTypes
<1>3. NetTypes
  <2>1. << >> \in Seq(Message) /\ << >> \in Seq(Part) /\ Len(<< >>) = 0
    BY EmptySeq
  <2>2. wire \in [Conns -> Seq(Part)] /\ replies \in [Conns -> Seq(Message)]
    BY <2>1 DEF Init
  <2>3. \A c \in Conns : /\ wire[c] = << >> /\ replies[c] = << >>
                         /\ readUpTo[c] = 0 /\ received[c] = 0
    BY DEF Init
  <2>4. /\ link \in [Conns -> {"new", "opening", "up", "peerClosed", "reset", "closed"}]
        /\ readUpTo \in [Conns -> Nat] /\ received \in [Conns -> Nat]
        /\ inbox \in [Conns -> SUBSET Message]
    BY DEF Init
  <2> QED
    BY <2>1, <2>2, <2>3, <2>4, ClientAssumption DEF NetTypes
<1> QED
  BY <1>1, <1>2, <1>3 DEF TypeOK

\* What SubSeq(s, m, n) is when m and n are positions of s.
LEMMA SubSeqType ==
  ASSUME NEW S, NEW s \in Seq(S), NEW m \in Nat \ {0}, NEW n \in m .. Len(s)
  PROVE  /\ SubSeq(s, m, n) \in Seq(S)
         /\ Len(SubSeq(s, m, n)) = n - m + 1
         /\ \A i \in 1 .. n - m + 1 : SubSeq(s, m, n)[i] = s[m + i - 1]
<1>1. Len(s) \in Nat /\ m \in Int /\ n \in Int /\ m <= n
  BY LenProperties
<1>2. \A i \in m .. n : s[i] \in S
  BY <1>1, ElementOfSeq
<1> QED
  BY <1>1, <1>2, SubSeqProperties

\* What Put writes is one more part.
LEMMA PutType ==
  ASSUME TypeOK, NEW k \in Calls, NEW part \in {"head", "tail"}, Put(k, part)
  PROVE  /\ socket \in Conns
         /\ wire' \in [Conns -> Seq(Part)]
         /\ Len(wire'[socket]) = Len(wire[socket]) + 1
         /\ \A i \in 1 .. Len(wire[socket]) : wire'[socket][i] = wire[socket][i]
         /\ wire'[socket][Len(wire[socket]) + 1]
               = [call |-> k, sid |-> sid[k], part |-> part]
         /\ \A c \in Conns : c # socket => wire'[c] = wire[c]
<1> DEFINE elt == [call |-> k, sid |-> sid[k], part |-> part]
<1>1. socket \in Conns
  BY ClientAssumption DEF TypeOK, ThreadTypes, Put, Conns, NoSocket
<1>2. elt \in Part
  BY DEF TypeOK, CallTypes, Part
<1>3. wire' = [wire EXCEPT ![socket] = Append(wire[socket], elt)]
  BY DEF Put
<1>4. wire \in [Conns -> Seq(Part)]
  BY DEF TypeOK, NetTypes
<1> HIDE DEF elt
<1>5. wire[socket] \in Seq(Part)
  BY <1>1, <1>4
<1>6. /\ Append(wire[socket], elt) \in Seq(Part)
      /\ Len(Append(wire[socket], elt)) = Len(wire[socket]) + 1
      /\ \A i \in 1 .. Len(wire[socket]) :
            Append(wire[socket], elt)[i] = wire[socket][i]
      /\ Append(wire[socket], elt)[Len(wire[socket]) + 1] = elt
  BY <1>2, <1>5, AppendProperties
<1>7. /\ wire' \in [Conns -> Seq(Part)]
      /\ wire'[socket] = Append(wire[socket], elt)
      /\ \A c \in Conns : c # socket => wire'[c] = wire[c]
  BY <1>1, <1>3, <1>4, <1>6
<1> QED
  BY <1>1, <1>6, <1>7 DEF elt

LEMMA PutNetTypes ==
  ASSUME TypeOK, NEW k \in Calls, NEW part \in {"head", "tail"}, Put(k, part),
         UNCHANGED <<link, peerVars, replies, received>>
  PROVE  NetTypes'
<1>0. /\ Len(wire'[socket]) = Len(wire[socket]) + 1
      /\ \A c \in Conns : c # socket => wire'[c] = wire[c]
  BY PutType
<1>1. ASSUME NEW c \in Conns PROVE readUpTo[c] <= Len(wire'[c])
  <2>1. /\ wire[c] \in Seq(Part) /\ Len(wire[c]) \in Nat
        /\ readUpTo[c] \in Nat /\ readUpTo[c] <= Len(wire[c])
    BY LenProperties DEF TypeOK, NetTypes
  <2> QED
    BY <1>0, <2>1
<1> QED
  BY <1>1, PutType DEF TypeOK, NetTypes, peerVars

LEMMA NextType == TypeOK /\ [Next]_vars => TypeOK'
<1> SUFFICES ASSUME TypeOK, [Next]_vars PROVE TypeOK'
  OBVIOUS
<1> USE DEF Goto, OwnerGoto, notCall, ids, ownerVars, readerVars, netVars,
    peerVars,
            callVars
<1>a. CallTypes /\ ThreadTypes /\ NetTypes
  BY DEF TypeOK
\* Most steps leave two of the three parts alone.
<1>b. UNCHANGED <<nextStreamId, pc, sid, promise, handlers, writeLock>> => CallTypes'
  BY <1>a DEF CallTypes
<1>c. UNCHANGED <<ownerVars, readerVars>> => ThreadTypes'
  BY <1>a DEF ThreadTypes
<1>d. UNCHANGED netVars => NetTypes'
  BY <1>a DEF NetTypes
<1>1. ASSUME NEW k \in Calls, Start(k) PROVE TypeOK'
  BY <1>1, <1>a, <1>c, <1>d DEF Start, TypeOK, CallTypes, NextId
<1>2. ASSUME NEW k \in Calls, Register(k) PROVE TypeOK'
  <2>1. DOMAIN handlers' \subseteq Nat /\ handlers' \in [DOMAIN handlers' -> Calls]
    BY <1>2, <1>a DEF Register, WithHandler, CallTypes
  <2> QED
    BY <1>2, <2>1, <1>a, <1>c, <1>d DEF Register, TypeOK, CallTypes
<1>3. ASSUME NEW k \in Calls, AcquireWrite(k) PROVE TypeOK'
  BY <1>3, <1>a, <1>c, <1>d DEF AcquireWrite, TypeOK, CallTypes, WriteMutexFree
<1>4. ASSUME NEW k \in Calls, SendHead(k) PROVE TypeOK'
  <2>1. NetTypes'
    BY <1>4, PutNetTypes DEF SendHead
  <2> QED
    BY <1>4, <2>1, <1>a, <1>c DEF SendHead, TypeOK, CallTypes
<1>5. ASSUME NEW k \in Calls, SendTail(k) PROVE TypeOK'
  <2>1. NetTypes'
    BY <1>5, PutNetTypes DEF SendTail, ReleaseWriteMutex
  <2> QED
    BY <1>5, <2>1, <1>a, <1>c DEF SendTail, TypeOK, CallTypes, ReleaseWriteMutex
<1>6. ASSUME NEW k \in Calls, SendFails(k) PROVE TypeOK'
  BY <1>6, <1>a, <1>c, <1>d DEF SendFails, TypeOK, CallTypes, ReleaseWriteMutex
<1>7. ASSUME NEW k \in Calls, Timeout(k) PROVE TypeOK'
  BY <1>7, <1>a, <1>c, <1>d DEF Timeout, TypeOK, CallTypes, Ready
<1>8. ASSUME NEW k \in Calls, GiveUp(k) PROVE TypeOK'
  <2>1. DOMAIN handlers' \subseteq Nat /\ handlers' \in [DOMAIN handlers' -> Calls]
    BY <1>8, <1>a DEF GiveUp, WithoutHandler, CallTypes
  <2> QED
    BY <1>8, <2>1, <1>a, <1>c, <1>d DEF GiveUp, TypeOK, CallTypes
<1>9. ASSUME NEW k \in Calls, GetResponse(k) PROVE TypeOK'
  BY <1>9, <1>a, <1>c, <1>d DEF GetResponse, TypeOK, CallTypes, Ready
<1>10. CASE OpenSocket
  <2>1. connNo + 1 \in Conns
    BY <1>10, <1>a, ClientAssumption DEF OpenSocket, ThreadTypes, Conns
  <2>2. ThreadTypes'
    BY <1>10, <2>1, <1>a, ClientAssumption DEF OpenSocket, ThreadTypes, Conns
  <2>3. NetTypes'
    BY <1>10, <2>1, <1>a DEF OpenSocket, NetTypes
  <2> QED
    BY <1>10, <2>2, <2>3, <1>b DEF OpenSocket, TypeOK
<1>11. CASE Connected
  <2>1. ThreadTypes' /\ NetTypes'
    BY <1>11, <1>a DEF Connected, ThreadTypes, NetTypes
  <2> QED
    BY <1>11, <2>1, <1>b DEF Connected, TypeOK
<1>12. CASE ConnectRefused
  <2>1. ThreadTypes'
    BY <1>12, <1>a, ClientAssumption DEF ConnectRefused, ThreadTypes, NoSocket,
        Closed
  <2>2. NetTypes'
    BY <1>12, <1>a DEF ConnectRefused, NetTypes, Closed
  <2> QED
    BY <1>12, <2>1, <2>2, <1>b DEF ConnectRefused, TypeOK, Closed
<1>13. CASE BeginDisconnect
  BY <1>13, <1>a, <1>b, <1>d DEF BeginDisconnect, TypeOK, ThreadTypes
<1>14. CASE CloseSocket
  <2>1. ThreadTypes'
    BY <1>14, <1>a, ClientAssumption DEF CloseSocket, ThreadTypes, NoSocket,
        Closed
  <2>2. NetTypes'
    BY <1>14, <1>a DEF CloseSocket, NetTypes, Closed
  <2> QED
    BY <1>14, <2>1, <2>2, <1>b DEF CloseSocket, TypeOK, Closed
<1>15. CASE JoinReader
  BY <1>15, <1>a, <1>b, <1>d DEF JoinReader, TypeOK, ThreadTypes
<1>16. CASE ClearHandlers
  BY <1>16, <1>a, <1>d DEF ClearHandlers, TypeOK, ThreadTypes, CallTypes
<1>17. CASE ReaderLoop
  BY <1>17, <1>a, <1>b, <1>d DEF ReaderLoop, TypeOK, ThreadTypes
<1>18. CASE Recv
  <2>1. recvOn \in Conns
    BY <1>18, <1>a, ClientAssumption DEF Recv, ThreadTypes, Conns, NoSocket, Read
  <2>2. PICK upTo \in received[recvOn] + 1 .. Len(replies[recvOn]) :
          /\ batch' = SubSeq(replies[recvOn], received[recvOn] + 1, upTo)
          /\ received' = [received EXCEPT ![recvOn] = upTo]
    BY <1>18 DEF Recv, Read
  <2>3. replies[recvOn] \in Seq(Message) /\ received[recvOn] \in Nat
    BY <2>1, <1>a DEF NetTypes
  <2>4. batch' \in Seq(Message)
    BY <2>2, <2>3, SubSeqType
  <2>5. ThreadTypes'
    BY <1>18, <2>4, <1>a DEF Recv, ThreadTypes, Read
  <2>6. upTo \in Nat /\ upTo <= Len(replies[recvOn])
    BY <2>2, <2>3, LenProperties
  <2>7. NetTypes'
    BY <1>18, <2>1, <2>2, <2>6, <1>a DEF Recv, NetTypes, Read
  <2> QED
    BY <1>18, <2>5, <2>7, <1>b DEF Recv, TypeOK, Read
<1>19. CASE RecvEnd
  BY <1>19, <1>a, <1>b, <1>d DEF RecvEnd, TypeOK, ThreadTypes
<1>20. CASE Dispatch
  <2>1. batch \in Seq(Message) /\ batch # << >>
    BY <1>20, <1>a DEF Dispatch, ThreadTypes
  <2>2. Head(batch) \in Message /\ Tail(batch) \in Seq(Message)
    BY <2>1, HeadTailProperties
  <2>3. promise' \in [Calls -> Calls \cup {None}]
    BY <1>20, <2>2, <1>a DEF Dispatch, Message, CallTypes
  <2>4. DOMAIN handlers' \subseteq Nat /\ handlers' \in [DOMAIN handlers' -> Calls]
    BY <1>20, <1>a DEF Dispatch, WithoutHandler, CallTypes
  <2>5. CallTypes'
    BY <1>20, <2>3, <2>4, <1>a DEF Dispatch, CallTypes
  <2>6. ThreadTypes'
    BY <1>20, <2>2, <1>a DEF Dispatch, NextFrame, ThreadTypes
  <2> QED
    BY <1>20, <2>5, <2>6, <1>d DEF Dispatch, TypeOK
<1>21. ASSUME NEW c \in Conns, PeerRead(c) PROVE TypeOK'
  <2>1. inbox' \in [Conns -> SUBSET Message]
    <3>1. CASE readUpTo[c] % 2 = 0
      BY <1>21, <3>1, <1>a DEF PeerRead, NetTypes
    <3>2. CASE readUpTo[c] % 2 # 0
      <4> DEFINE request == [sid |-> wire[c][readUpTo[c]].sid,
                             call |-> wire[c][readUpTo[c] + 1].call]
      <4>1. wire[c] \in Seq(Part) /\ readUpTo[c] \in Nat /\ Len(wire[c]) \in Nat
        BY <1>a, LenProperties DEF NetTypes
      <4>2. readUpTo[c] \in 1 .. Len(wire[c]) /\ readUpTo[c] + 1 \in 1 .. Len(wire[c])
        BY <1>21, <3>2, <4>1 DEF PeerRead
      <4>3. wire[c][readUpTo[c]] \in Part /\ wire[c][readUpTo[c] + 1] \in Part
        BY <4>1, <4>2, ElementOfSeq
      <4>4. request \in Message
        BY <4>3 DEF Message, Part
      <4>5. inbox' = [inbox EXCEPT ![c] = inbox[c] \cup {request}]
        BY <1>21, <3>2 DEF PeerRead
      <4> HIDE DEF request
      <4> QED
        BY <4>4, <4>5, <1>a DEF NetTypes
    <3> QED
      BY <3>1, <3>2
  <2>2. wire[c] \in Seq(Part) /\ readUpTo[c] \in Nat /\ Len(wire[c]) \in Nat
    BY <1>a, LenProperties DEF NetTypes
  <2>3. readUpTo' = [readUpTo EXCEPT ![c] = readUpTo[c] + 1] /\ readUpTo[c] + 1 <= Len(wire[c])
    BY <1>21, <2>2 DEF PeerRead
  <2>4. NetTypes'
    BY <1>21, <2>1, <2>2, <2>3, <1>a DEF PeerRead, NetTypes
  <2> QED
    BY <1>21, <2>4, <1>b, <1>c DEF PeerRead, TypeOK
<1>22. ASSUME NEW c \in Conns, PeerReply(c) PROVE TypeOK'
  <2>1. PICK request \in inbox[c] :
          replies' = [replies EXCEPT ![c] = Append(replies[c], request)]
    BY <1>22 DEF PeerReply
  <2>2. replies[c] \in Seq(Message) /\ request \in Message
    BY <2>1, <1>a DEF NetTypes
  <2>3. /\ Append(replies[c], request) \in Seq(Message)
        /\ Len(Append(replies[c], request)) = Len(replies[c]) + 1
        /\ Len(replies[c]) \in Nat
    BY <2>2, AppendProperties, LenProperties
  <2>4. NetTypes'
    BY <1>22, <2>1, <2>3, <1>a, ClientAssumption DEF PeerReply, NetTypes
  <2> QED
    BY <1>22, <2>4, <1>b, <1>c DEF PeerReply, TypeOK
<1>23. ASSUME NEW c \in Conns, PeerClose(c) PROVE TypeOK'
  <2>1. NetTypes'
    BY <1>23, <1>a DEF PeerClose, NetTypes
  <2> QED
    BY <1>23, <2>1, <1>b, <1>c DEF PeerClose, TypeOK
<1>24. CASE UNCHANGED vars
  BY <1>24, <1>b, <1>c, <1>d DEF vars, TypeOK
<1> QED
  BY <1>1, <1>2, <1>3, <1>4, <1>5, <1>6, <1>7, <1>8, <1>9, <1>10, <1>11, <1>12,
     <1>13, <1>14, <1>15, <1>16, <1>17, <1>18, <1>19, <1>20, <1>21, <1>22, <1>23,
     <1>24 DEF Next, CallStep, OwnerStep, ReaderStep

\* Every variable of the client keeps its type; among others, the peer never
\* reads past what was written, nor recv() past what was answered.
THEOREM TypeCorrect == Spec => []TypeOK
  BY InitType, NextType, PTL DEF Spec

-------------------------------------------------------------------------------
(* The handler map.  Nothing here depends on the peer, on the network or   *)
(* on when the owner reconnects.                                           *)

LEMMA InitHandler == Init => HandlerInv
  BY DEF Init, HandlerInv, HandlersOfOpenCalls, SetValueOnce

LEMMA NextHandler == TypeOK /\ HandlerInv /\ [Next]_vars => HandlerInv'
<1> SUFFICES ASSUME TypeOK, HandlerInv, [Next]_vars PROVE HandlerInv'
  OBVIOUS
<1> USE DEF Goto, notCall, ids, callVars, HandlerInv, HandlersOfOpenCalls,
            SetValueOnce, Registered
<1>a. /\ pc \in [Calls -> {"idle", "register", "lock", "send", "sendRest",
                           "wait", "giveUp", "ok", "failed"}]
      /\ sid \in [Calls -> Nat] /\ promise \in [Calls -> Calls \cup {None}]
      /\ handlers \in [DOMAIN handlers -> Calls]
  BY DEF TypeOK, CallTypes
<1>b. UNCHANGED <<pc, sid, promise, handlers>> => HandlerInv'
  OBVIOUS
<1>1. ASSUME NEW k \in Calls, Start(k) PROVE HandlerInv'
  BY <1>1, <1>a DEF Start, NextId
<1>2. ASSUME NEW k \in Calls, Register(k) PROVE HandlerInv'
  BY <1>2, <1>a DEF Register, WithHandler
<1>3. ASSUME NEW k \in Calls, AcquireWrite(k) PROVE HandlerInv'
  BY <1>3, <1>a DEF AcquireWrite, WriteMutexFree
<1>4. ASSUME NEW k \in Calls, SendHead(k) PROVE HandlerInv'
  BY <1>4, <1>a DEF SendHead
<1>5. ASSUME NEW k \in Calls, SendTail(k) PROVE HandlerInv'
  BY <1>5, <1>a DEF SendTail, ReleaseWriteMutex
<1>6. ASSUME NEW k \in Calls, SendFails(k) PROVE HandlerInv'
  BY <1>6, <1>a DEF SendFails, ReleaseWriteMutex
<1>7. ASSUME NEW k \in Calls, Timeout(k) PROVE HandlerInv'
  BY <1>7, <1>a DEF Timeout, Ready
<1>8. ASSUME NEW k \in Calls, GiveUp(k) PROVE HandlerInv'
  BY <1>8, <1>a DEF GiveUp, WithoutHandler
<1>9. ASSUME NEW k \in Calls, GetResponse(k) PROVE HandlerInv'
  BY <1>9, <1>a DEF GetResponse, Ready
<1>10. CASE OpenSocket \/ Connected \/ ConnectRefused \/ BeginDisconnect
            \/ CloseSocket \/ JoinReader
  BY <1>10, <1>b DEF OpenSocket, Connected, ConnectRefused, BeginDisconnect,
                     CloseSocket, JoinReader, Closed
<1>11. CASE ClearHandlers
  BY <1>11 DEF ClearHandlers
<1>12. CASE ReaderLoop \/ Recv \/ RecvEnd
  BY <1>12, <1>b DEF ReaderLoop, Recv, RecvEnd, Read
<1>13. CASE Dispatch
  <2> DEFINE s == Head(batch).sid
  <2>1. CASE s \notin DOMAIN handlers
    BY <1>13, <2>1, <1>b DEF Dispatch
  <2>2. CASE s \in DOMAIN handlers
    <3>1. /\ UNCHANGED <<pc, sid>>
          /\ promise' = [promise EXCEPT ![handlers[s]] = Head(batch).call]
          /\ handlers' = [t \in DOMAIN handlers \ {s} |-> handlers[t]]
      BY <1>13, <2>2 DEF Dispatch, WithoutHandler
    <3>2. \A t \in DOMAIN handlers' : handlers'[t] = handlers[t] /\ handlers[t] # handlers[s]
      BY <2>2, <3>1
    <3> HIDE DEF s
    <3> QED
      BY <2>2, <3>1, <3>2, <1>a
  <2> QED
    BY <2>1, <2>2
<1>14. ASSUME NEW c \in Conns, PeerRead(c) \/ PeerReply(c) \/ PeerClose(c)
       PROVE  HandlerInv'
  BY <1>14, <1>b DEF PeerRead, PeerReply, PeerClose
<1>15. CASE UNCHANGED vars
  BY <1>15, <1>b DEF vars
<1> QED
  BY <1>1, <1>2, <1>3, <1>4, <1>5, <1>6, <1>7, <1>8, <1>9, <1>10, <1>11, <1>12,
     <1>13, <1>14, <1>15 DEF Next, CallStep, OwnerStep, ReaderStep

\* Whatever the peer sends and however connections come and go, the handler map
\* leads to calls that are still in progress: every way out of
\* sendAndWaitResponse has erased its own handler and nobody else's.
THEOREM NoHandlerLeaks == Spec => []HandlersOfOpenCalls
<1>1. TypeOK /\ HandlerInv => HandlersOfOpenCalls
  BY DEF HandlerInv
<1> QED
  BY <1>1, InitType, NextType, InitHandler, NextHandler, PTL DEF Spec

\* The reader never calls set_value on a promise that has its value, so no
\* duplicate, late or foreign reply throws future_error in the reader thread.
THEOREM SetValueNeverThrows == Spec => []SetValueOnce
<1>1. TypeOK /\ HandlerInv => SetValueOnce
  BY DEF HandlerInv
<1> QED
  BY <1>1, InitType, NextType, InitHandler, NextHandler, PTL DEF Spec

-------------------------------------------------------------------------------
(* Stream ids and write_mutex_.                                            *)

LEMMA InitIds == Init => StreamIds /\ LockInv
  BY ClientAssumption DEF Init, StreamIds, LockInv, Idle, Writing

LEMMA NextIds == TypeOK /\ StreamIds /\ [Next]_vars => StreamIds'
<1> SUFFICES ASSUME TypeOK, StreamIds, [Next]_vars PROVE StreamIds'
  OBVIOUS
<1> USE DEF StreamIds, Idle, Goto, notCall, ids, callVars
<1>a. /\ nextStreamId \in Nat /\ sid \in [Calls -> Nat]
      /\ pc \in [Calls -> {"idle", "register", "lock", "send", "sendRest",
                           "wait", "giveUp", "ok", "failed"}]
  BY DEF TypeOK, CallTypes
<1>b. UNCHANGED <<ids, pc>> => StreamIds'
  OBVIOUS
<1>1. ASSUME NEW k \in Calls, Start(k) PROVE StreamIds'
  BY <1>1, <1>a DEF Start, NextId
<1>2. ASSUME NEW k \in Calls, CallStep(k) PROVE StreamIds'
  <2>1. UNCHANGED ids /\ \A j \in Calls : pc'[j] = "idle" <=> pc[j] = "idle"
    BY <1>2, <1>a DEF CallStep, Register, AcquireWrite, SendHead, SendTail,
                      SendFails, Timeout, GiveUp, GetResponse, WriteMutexFree,
                          ReleaseWriteMutex, Ready
  <2> QED
    BY <2>1
<1>3. CASE OpenSocket \/ Connected \/ ConnectRefused \/ BeginDisconnect \/ OwnerStep
  BY <1>3, <1>b DEF OpenSocket, Connected, ConnectRefused, BeginDisconnect,
                    OwnerStep, CloseSocket, JoinReader, ClearHandlers, Closed
<1>4. CASE ReaderStep
  BY <1>4, <1>b DEF ReaderStep, ReaderLoop, Recv, RecvEnd, Dispatch, Read
<1>5. ASSUME NEW c \in Conns, PeerRead(c) \/ PeerReply(c) \/ PeerClose(c)
      PROVE  StreamIds'
  BY <1>5, <1>b DEF PeerRead, PeerReply, PeerClose
<1>6. CASE UNCHANGED vars
  BY <1>6, <1>b DEF vars
<1> QED
  BY <1>1, <1>2, <1>3, <1>4, <1>5, <1>6 DEF Next

LEMMA NextLock == TypeOK /\ LockInv /\ [Next]_vars => LockInv'
<1> SUFFICES ASSUME TypeOK, LockInv, [Next]_vars PROVE LockInv'
  OBVIOUS
<1> USE ClientAssumption DEF LockInv, Writing, Goto, notCall, callVars
<1>a. /\ pc \in [Calls -> {"idle", "register", "lock", "send", "sendRest",
                           "wait", "giveUp", "ok", "failed"}]
      /\ writeLock \in Calls \cup {None}
  BY DEF TypeOK, CallTypes
<1>b. UNCHANGED <<pc, writeLock>> => LockInv'
  OBVIOUS
<1>1. ASSUME NEW k \in Calls,
             Start(k) \/ Register(k) \/ Timeout(k) \/ GiveUp(k) \/ GetResponse(k)
      PROVE  LockInv'
  BY <1>1, <1>a DEF Start, Register, Timeout, GiveUp, GetResponse, NextId, Ready
<1>2. ASSUME NEW k \in Calls, AcquireWrite(k) PROVE LockInv'
  BY <1>2, <1>a DEF AcquireWrite, WriteMutexFree
<1>3. ASSUME NEW k \in Calls, SendHead(k) PROVE LockInv'
  BY <1>3, <1>a DEF SendHead
<1>4. ASSUME NEW k \in Calls, SendTail(k) \/ SendFails(k) PROVE LockInv'
  BY <1>4, <1>a DEF SendTail, SendFails, ReleaseWriteMutex
<1>5. CASE OpenSocket \/ Connected \/ ConnectRefused \/ BeginDisconnect \/ OwnerStep
  BY <1>5, <1>b DEF OpenSocket, Connected, ConnectRefused, BeginDisconnect,
                    OwnerStep, CloseSocket, JoinReader, ClearHandlers, Closed
<1>6. CASE ReaderStep
  BY <1>6, <1>b DEF ReaderStep, ReaderLoop, Recv, RecvEnd, Dispatch, Read
<1>7. ASSUME NEW c \in Conns, PeerRead(c) \/ PeerReply(c) \/ PeerClose(c)
      PROVE  LockInv'
  BY <1>7, <1>b DEF PeerRead, PeerReply, PeerClose
<1>8. CASE UNCHANGED vars
  BY <1>8, <1>b DEF vars
<1> QED
  BY <1>1, <1>2, <1>3, <1>4, <1>5, <1>6, <1>7, <1>8 DEF Next, CallStep

-------------------------------------------------------------------------------
(* The wire.                                                               *)

LEMMA InitFrame == Init => FrameInv
  BY EmptySeq DEF Init, FrameInv, WholeFrames, NoSocket, OddEnd

LEMMA Parity ==
  ASSUME NEW n \in Nat
  PROVE  /\ n % 2 = 1 => (n + 1) % 2 # 1 /\ n \in 1 .. n
         /\ n % 2 # 1 => (n + 1) % 2 = 1
         /\ n % 2 # 0 => (n + 1) % 2 # 1 /\ n \in 1 .. n
         /\ \A i \in 1 .. n : i % 2 # 1 => i - 1 \in 1 .. n
  OBVIOUS

\* A head goes after whole frames only: a half-written frame would have its
\* writer in the middle of it, holding the mutex that k holds.
LEMMA HeadKeepsFrames ==
  ASSUME TypeOK, LockInv, FrameInv, NEW k \in Calls, SendHead(k)
  PROVE  FrameInv'
<1> USE DEF Goto
<1>a. /\ pc \in [Calls -> {"idle", "register", "lock", "send", "sendRest",
                           "wait", "giveUp", "ok", "failed"}]
      /\ sid' = sid /\ socket' = socket /\ link' = link /\ owner' = owner /\ connNo' = connNo
      /\ pc[k] = "send" /\ pc' = [pc EXCEPT ![k] = "sendRest"]
  BY DEF TypeOK, CallTypes, SendHead, ids, ownerVars
<1>b. Put(k, "head") /\ socket # NoSocket /\ Room(socket)
  BY DEF SendHead, Put
<1>c. /\ socket \in Conns
      /\ Len(wire'[socket]) = Len(wire[socket]) + 1
      /\ \A i \in 1 .. Len(wire[socket]) : wire'[socket][i] = wire[socket][i]
      /\ wire'[socket][Len(wire[socket]) + 1]
            = [call |-> k, sid |-> sid[k], part |-> "head"]
      /\ \A c \in Conns : c # socket => wire'[c] = wire[c]
  BY <1>b, PutType
<1>d. socket <= connNo /\ socket \in Nat /\ connNo \in Nat
  BY ClientAssumption DEF TypeOK, ThreadTypes
<1>e. \A c \in Conns : Len(wire[c]) \in Nat
  BY LenProperties DEF TypeOK, NetTypes
<1>f. Live(socket) /\ link[socket] # "opening"
  BY <1>b DEF Room, Live
<1>1. \A j \in Calls : pc[j] # "sendRest"
  BY <1>a DEF LockInv, Writing
<1>2. Len(wire[socket]) % 2 # 1
  BY <1>1, <1>b, <1>f DEF FrameInv, OddEnd
<1>3. Len(wire[socket]) \in Nat /\ (Len(wire[socket]) + 1) % 2 = 1
  <2>1. Len(wire[socket]) \in Nat
    BY <1>c, <1>e
  <2> QED
    BY <2>1, <1>2, Parity
<1>4. WholeFrames'
  <2> SUFFICES ASSUME NEW c \in Conns, NEW i \in 1 .. Len(wire'[c])
               PROVE  IF i % 2 = 1 THEN wire'[c][i].part = "head"
                      ELSE wire'[c][i] = [wire'[c][i - 1] EXCEPT !.part = "tail"]
    BY DEF WholeFrames
  <2>1. CASE c # socket
    BY <2>1, <1>c DEF FrameInv, WholeFrames
  <2>2. CASE c = socket /\ i = Len(wire[socket]) + 1
    BY <2>2, <1>3, <1>c
  <2>3. CASE c = socket /\ i # Len(wire[socket]) + 1
    <3>1. i \in 1 .. Len(wire[socket])
      BY <2>3, <1>c, <1>e
    <3>2. IF i % 2 = 1 THEN wire[socket][i].part = "head"
          ELSE wire[socket][i] = [wire[socket][i - 1] EXCEPT !.part = "tail"]
      BY <3>1, <1>c DEF FrameInv, WholeFrames
    <3>3. wire'[c][i] = wire[socket][i]
      BY <2>3, <3>1, <1>c
    <3>4. i % 2 # 1 => wire'[c][i - 1] = wire[socket][i - 1]
      <4>1. i % 2 # 1 => i - 1 \in 1 .. Len(wire[socket])
        BY <3>1, <1>3, Parity
      <4> QED
        BY <2>3, <4>1, <1>c
    <3> QED
      BY <3>2, <3>3, <3>4
  <2> QED
    BY <2>1, <2>2, <2>3
<1>5. \A c \in Conns : c > connNo' => wire'[c] = << >>
  BY <1>a, <1>c, <1>d DEF FrameInv
<1>6. owner' # "connecting"
  BY <1>a, <1>f DEF FrameInv
<1>7. pc'[k] = "sendRest"
  BY <1>a
<1>8. \A j \in Calls : pc'[j] = "sendRest" => j = k
  BY <1>a, <1>1
<1>9. /\ OddEnd(socket)'
      /\ wire'[socket][Len(wire'[socket])]
            = [call |-> k, sid |-> sid[k], part |-> "head"]
  BY <1>3, <1>c, <1>a DEF OddEnd
<1> QED
  BY <1>4, <1>5, <1>6, <1>7, <1>8, <1>9, <1>a DEF FrameInv

\* The tail goes right after its own head.
LEMMA TailKeepsFrames ==
  ASSUME TypeOK, LockInv, FrameInv, NEW k \in Calls, SendTail(k)
  PROVE  FrameInv'
<1> USE DEF Goto
<1>a. /\ pc \in [Calls -> {"idle", "register", "lock", "send", "sendRest",
                           "wait", "giveUp", "ok", "failed"}]
      /\ sid' = sid /\ socket' = socket /\ link' = link /\ owner' = owner /\ connNo' = connNo
      /\ pc[k] = "sendRest" /\ pc' = [pc EXCEPT ![k] = "wait"]
  BY DEF TypeOK, CallTypes, SendTail, ids, ownerVars, ReleaseWriteMutex
<1>b. Put(k, "tail") /\ socket # NoSocket /\ Room(socket)
  BY DEF SendTail, Put, ReleaseWriteMutex
<1>c. /\ socket \in Conns
      /\ Len(wire'[socket]) = Len(wire[socket]) + 1
      /\ \A i \in 1 .. Len(wire[socket]) : wire'[socket][i] = wire[socket][i]
      /\ wire'[socket][Len(wire[socket]) + 1]
            = [call |-> k, sid |-> sid[k], part |-> "tail"]
      /\ \A c \in Conns : c # socket => wire'[c] = wire[c]
  BY <1>b, PutType
<1>d. socket <= connNo /\ socket \in Nat /\ connNo \in Nat
  BY ClientAssumption DEF TypeOK, ThreadTypes
<1>e. \A c \in Conns : Len(wire[c]) \in Nat
  BY LenProperties DEF TypeOK, NetTypes
<1>f. link[socket] # "opening"
  BY <1>b DEF Room
<1>1. /\ Len(wire[socket]) % 2 = 1
      /\ wire[socket][Len(wire[socket])]
            = [call |-> k, sid |-> sid[k], part |-> "head"]
  BY <1>a, <1>b DEF FrameInv, OddEnd
<1>2. Len(wire[socket]) \in Nat
  BY <1>c, <1>e
<1>3. /\ Len(wire[socket]) \in 1 .. Len(wire[socket])
      /\ (Len(wire[socket]) + 1) % 2 # 1
  BY <1>1, <1>2, Parity
<1>4. WholeFrames'
  <2> SUFFICES ASSUME NEW c \in Conns, NEW i \in 1 .. Len(wire'[c])
               PROVE  IF i % 2 = 1 THEN wire'[c][i].part = "head"
                      ELSE wire'[c][i] = [wire'[c][i - 1] EXCEPT !.part = "tail"]
    BY DEF WholeFrames
  <2>1. CASE c # socket
    BY <2>1, <1>c DEF FrameInv, WholeFrames
  <2>2. CASE c = socket /\ i = Len(wire[socket]) + 1
    <3>1. i - 1 = Len(wire[socket]) /\ i % 2 # 1
      <4>1. i = Len(wire[socket]) + 1
        BY <2>2
      <4>2. (Len(wire[socket]) + 1) % 2 # 1
        BY <1>3
      <4>3. Len(wire[socket]) + 1 - 1 = Len(wire[socket])
        BY <1>2
      <4>4. i - 1 = Len(wire[socket])
        BY <4>1, <4>3
      <4>5. i % 2 # 1
        BY <4>1, <4>2
      <4> QED
        BY <4>4, <4>5
    <3>2. wire'[socket][Len(wire[socket])] = wire[socket][Len(wire[socket])]
      BY <1>3, <1>c
    <3>3. wire'[c][i - 1] = [call |-> k, sid |-> sid[k], part |-> "head"]
      BY <2>2, <3>1, <3>2, <1>1
    <3>4. wire'[c][i] = [call |-> k, sid |-> sid[k], part |-> "tail"]
      BY <2>2, <1>c
    <3> QED
      BY <3>1, <3>3, <3>4
  <2>3. CASE c = socket /\ i # Len(wire[socket]) + 1
    <3>1. i \in 1 .. Len(wire[socket])
      BY <2>3, <1>c, <1>e
    <3>2. IF i % 2 = 1 THEN wire[socket][i].part = "head"
          ELSE wire[socket][i] = [wire[socket][i - 1] EXCEPT !.part = "tail"]
      BY <3>1, <1>c DEF FrameInv, WholeFrames
    <3>3. wire'[c][i] = wire[socket][i]
      BY <2>3, <3>1, <1>c
    <3>4. i % 2 # 1 => wire'[c][i - 1] = wire[socket][i - 1]
      <4>1. i % 2 # 1 => i - 1 \in 1 .. Len(wire[socket])
        BY <3>1, <1>2, Parity
      <4> QED
        BY <2>3, <4>1, <1>c
    <3> QED
      BY <3>2, <3>3, <3>4
  <2> QED
    BY <2>1, <2>2, <2>3
<1>5. \A c \in Conns : c > connNo' => wire'[c] = << >>
  BY <1>a, <1>c, <1>d DEF FrameInv
<1>6. owner' # "connecting"
  BY <1>a, <1>f DEF FrameInv
<1>7. \A j \in Calls : pc'[j] # "sendRest"
  BY <1>a DEF LockInv, Writing
<1>8. ~OddEnd(socket)'
  <2>1. Len(wire'[socket]) % 2 # 1
    BY <1>3, <1>c
  <2>2. socket' = socket
    BY <1>a
  <2> QED
    BY <2>1, <2>2 DEF OddEnd
<1> QED
  BY <1>4, <1>5, <1>6, <1>7, <1>8, <1>a DEF FrameInv

LEMMA NextFrameInv ==
  ASSUME ~Overlap, TypeOK, LockInv, FrameInv, [Next]_vars
  PROVE  FrameInv'
<1> USE DEF Goto, OwnerGoto, notCall, ids, callVars, ownerVars, readerVars,
    netVars,
            peerVars
<1>a. /\ pc \in [Calls -> {"idle", "register", "lock", "send", "sendRest",
                           "wait", "giveUp", "ok", "failed"}]
      /\ sid \in [Calls -> Nat]
  BY DEF TypeOK, CallTypes
<1>b. /\ connNo \in Nat /\ socket \in Nat /\ socket <= connNo
      /\ link \in [Conns -> {"new", "opening", "up", "peerClosed", "reset", "closed"}]
  BY ClientAssumption DEF TypeOK, ThreadTypes, NetTypes
<1>c. ASSUME UNCHANGED <<wire, connNo, owner, socket, link>>,
             \A k \in Calls : pc'[k] = "sendRest" <=> pc[k] = "sendRest",
             \A k \in Calls : pc[k] = "sendRest" => sid'[k] = sid[k]
      PROVE  FrameInv'
  BY <1>c DEF FrameInv, WholeFrames, OddEnd, Live
<1>1. ASSUME NEW k \in Calls, Start(k) PROVE FrameInv'
  BY <1>1, <1>a, <1>c DEF Start, NextId
<1>2. ASSUME NEW k \in Calls,
             \/ Register(k) \/ AcquireWrite(k) \/ Timeout(k) \/ GiveUp(k) \/ GetResponse(k)
      PROVE  FrameInv'
  BY <1>2, <1>a, <1>c DEF Register, AcquireWrite, Timeout, GiveUp, GetResponse,
      WriteMutexFree, Ready
<1>3. ASSUME NEW k \in Calls, SendFails(k) PROVE FrameInv'
  <2>1. /\ UNCHANGED <<wire, connNo, owner, socket, link, sid>>
        /\ socket # NoSocket => ~Live(socket)
        /\ \A j \in Calls : pc'[j] = "sendRest" => pc[j] = "sendRest"
    BY <1>3, <1>a DEF SendFails, ReleaseWriteMutex
  <2> QED
    BY <2>1 DEF FrameInv, WholeFrames, OddEnd, Live
\* The new connection carries nothing yet, and nobody is in the middle of a frame.
<1>4. CASE OpenSocket
  <2>1. /\ socket' = connNo + 1 /\ connNo' = connNo + 1 /\ owner' = "connecting"
        /\ link' = [link EXCEPT ![connNo + 1] = "opening"]
        /\ wire' = wire /\ pc' = pc
        /\ \A k \in Calls : ~Pending(k)
    BY <1>4 DEF OpenSocket
  <2>2. connNo + 1 \in Conns
    BY <1>4, <1>b, ClientAssumption DEF OpenSocket, Conns
  <2>3. wire[connNo + 1] = << >>
    BY <2>2, <1>b DEF FrameInv
  <2>4. \A k \in Calls : pc[k] # "sendRest"
    BY <2>1 DEF Pending, Idle, Returned
  <2>5. link'[socket'] = "opening"
    BY <2>1, <2>2, <1>b
  <2>6. ~Live(socket)'
    BY <2>5 DEF Live
  <2>7. \A c \in Conns : c > connNo' => wire'[c] = << >>
    BY <2>1, <1>b DEF FrameInv, Conns
  <2>8. socket' # NoSocket
    BY <2>1, <1>b DEF NoSocket
  <2>9. WholeFrames'
    BY <2>1 DEF FrameInv, WholeFrames
  <2>10. wire'[socket'] = << >> /\ \A k \in Calls : pc'[k] # "sendRest"
    BY <2>1, <2>3, <2>4
  <2> QED
    BY <2>5, <2>6, <2>7, <2>8, <2>9, <2>10 DEF FrameInv
<1>5. CASE Connected
  <2>1. /\ UNCHANGED <<wire, connNo, socket, pc, sid>> /\ owner' = "in"
        /\ wire[socket] = << >>
    BY <1>5 DEF Connected, FrameInv
  <2>2. ~OddEnd(socket)
    BY <2>1, EmptySeq DEF OddEnd
  <2> QED
    BY <2>1, <2>2 DEF FrameInv, WholeFrames, OddEnd
<1>6. CASE ConnectRefused \/ CloseSocket
  <2>1. /\ UNCHANGED <<wire, connNo, pc, sid>> /\ socket' = NoSocket
        /\ owner' # "connecting"
    BY <1>6 DEF ConnectRefused, CloseSocket, Closed
  <2> QED
    BY <2>1 DEF FrameInv, WholeFrames
<1>7. CASE BeginDisconnect \/ JoinReader \/ ClearHandlers
  <2>1. /\ UNCHANGED <<wire, connNo, socket, link, pc, sid>> /\ owner' # "connecting"
    BY <1>7 DEF BeginDisconnect, JoinReader, ClearHandlers
  <2> QED
    BY <2>1 DEF FrameInv, WholeFrames, OddEnd, Live
<1>8. CASE ReaderStep
  BY <1>8, <1>c DEF ReaderStep, ReaderLoop, Recv, RecvEnd, Dispatch, Read
<1>9. ASSUME NEW c \in Conns, PeerRead(c) \/ PeerReply(c) PROVE FrameInv'
  BY <1>9, <1>c DEF PeerRead, PeerReply
<1>10. ASSUME NEW c \in Conns, PeerClose(c) PROVE FrameInv'
  <2>1. /\ UNCHANGED <<wire, connNo, socket, owner, pc, sid>>
        /\ Live(c)
        /\ \A d \in Conns : d # c => link'[d] = link[d]
    BY <1>10, <1>b DEF PeerClose, Live
  <2>2. socket # NoSocket => socket \in Conns
    BY ClientAssumption DEF FrameInv, TypeOK, ThreadTypes, Conns, NoSocket
  <2>3. socket # NoSocket /\ Live(socket)' => Live(socket)
    BY <2>1, <2>2 DEF Live
  <2>4. owner = "connecting" => link'[socket] = "opening"
    BY <2>1, <2>2 DEF FrameInv, Live
  <2> QED
    BY <2>1, <2>3, <2>4 DEF FrameInv, WholeFrames, OddEnd
<1>11. CASE UNCHANGED vars
  BY <1>11, <1>c DEF vars
<1> QED
  BY <1>1, <1>2, <1>3, <1>4, <1>5, <1>6, <1>7, <1>8, <1>9, <1>10, <1>11,
     HeadKeepsFrames, TailKeepsFrames DEF Next, CallStep, OwnerStep

\* If nobody reconnects while a call is in progress, each connection carries
\* whole frames: frames of different calls never interleave, and no frame is
\* continued on another connection.
THEOREM FramesStayWhole == ASSUME ~Overlap PROVE Spec => []WholeFrames
<1>1. TypeOK /\ LockInv /\ FrameInv /\ [Next]_vars => (TypeOK /\ LockInv /\ FrameInv)'
  BY NextType, NextLock, NextFrameInv
<1>2. Init => TypeOK /\ LockInv /\ FrameInv
  BY InitType, InitIds, InitFrame
<1>3. TypeOK /\ LockInv /\ FrameInv => WholeFrames
  BY DEF FrameInv
<1> QED
  BY <1>1, <1>2, <1>3, PTL DEF Spec

-------------------------------------------------------------------------------
(* The messages: stream ids lead back to the calls they were given to.     *)

\* A stream id, once given, stays; a call that has begun never becomes idle.
LEMMA GenuineStays ==
  ASSUME TypeOK, [Next]_vars
  PROVE  /\ \A k \in Calls : ~Idle(k) => ~Idle(k)' /\ sid'[k] = sid[k]
         /\ \A m : m.call \in Calls /\ Genuine(m) => Genuine(m)'
<1> USE DEF Idle, Goto, notCall, ids, callVars
<1>a. /\ pc \in [Calls -> {"idle", "register", "lock", "send", "sendRest",
                           "wait", "giveUp", "ok", "failed"}]
      /\ sid \in [Calls -> Nat]
  BY DEF TypeOK, CallTypes
<1>1. ASSUME NEW k \in Calls, Start(k)
      PROVE  \A j \in Calls : ~Idle(j) => ~Idle(j)' /\ sid'[j] = sid[j]
  BY <1>1, <1>a DEF Start, NextId
<1>2. ASSUME NEW k \in Calls, CallStep(k)
      PROVE  \A j \in Calls : ~Idle(j) => ~Idle(j)' /\ sid'[j] = sid[j]
  BY <1>2, <1>a DEF CallStep, Register, AcquireWrite, SendHead, SendTail,
      SendFails,
                    Timeout, GiveUp, GetResponse, WriteMutexFree,
                        ReleaseWriteMutex, Ready
<1>3. ASSUME \/ OpenSocket \/ Connected \/ ConnectRefused \/ BeginDisconnect
             \/ OwnerStep \/ ReaderStep
      PROVE  UNCHANGED <<pc, sid>>
  BY <1>3 DEF OpenSocket, Connected, ConnectRefused, BeginDisconnect, OwnerStep,
              CloseSocket, JoinReader, ClearHandlers, ReaderStep, ReaderLoop, Recv,
              RecvEnd, Dispatch, Closed, Read
<1>4. ASSUME NEW c \in Conns, PeerRead(c) \/ PeerReply(c) \/ PeerClose(c)
      PROVE  UNCHANGED <<pc, sid>>
  BY <1>4 DEF PeerRead, PeerReply, PeerClose
<1>5. ASSUME UNCHANGED vars
      PROVE  UNCHANGED <<pc, sid>>
  BY <1>5 DEF vars
<1>6. \A k \in Calls : ~Idle(k) => ~Idle(k)' /\ sid'[k] = sid[k]
  BY <1>1, <1>2, <1>3, <1>4, <1>5 DEF Next
<1> QED
  BY <1>6 DEF Genuine

\* Nothing the peer has sent is ever unsent.
LEMMA SentStays ==
  ASSUME TypeOK, [Next]_vars
  PROVE  /\ \A m : Sent(m) => Sent(m)'
         /\ Answered \subseteq Answered'
<1>1. ASSUME NEW c \in Conns, NEW n \in 1 .. Len(replies[c])
      PROVE  n \in 1 .. Len(replies'[c]) /\ replies'[c][n] = replies[c][n]
  <2>1. CASE UNCHANGED replies
    BY <2>1
  <2>2. ASSUME NEW d \in Conns, PeerReply(d)
        PROVE  n \in 1 .. Len(replies'[c]) /\ replies'[c][n] = replies[c][n]
    <3>1. PICK request \in inbox[d] :
            replies' = [replies EXCEPT ![d] = Append(replies[d], request)]
      BY <2>2 DEF PeerReply
    <3>2. request \in Message /\ replies[d] \in Seq(Message) /\ Len(replies[d]) \in Nat
      BY <3>1, LenProperties DEF TypeOK, NetTypes
    <3>3. /\ Len(Append(replies[d], request)) = Len(replies[d]) + 1
          /\ \A i \in 1 .. Len(replies[d]) : Append(replies[d], request)[i] = replies[d][i]
      BY <3>2, AppendProperties
    <3>4. replies' [d] = Append(replies[d], request) /\ (c # d => replies'[c] = replies[c])
      BY <3>1 DEF TypeOK, NetTypes
    <3> QED
      BY <3>2, <3>3, <3>4
  <2> QED
    BY <2>1, <2>2 DEF Next, vars, CallStep, Start, Register, AcquireWrite,
        SendHead,
       SendTail, SendFails, Timeout, GiveUp, GetResponse, OpenSocket, Connected,
       ConnectRefused, BeginDisconnect, OwnerStep, CloseSocket, JoinReader,
       ClearHandlers, ReaderStep, ReaderLoop, Recv, RecvEnd, Dispatch, PeerRead,
       PeerClose, notCall, netVars, NextId, WriteMutexFree, ReleaseWriteMutex,
           Ready, Closed, Read
<1> QED
  BY <1>1 DEF Sent, Answered

LEMMA NextWire ==
  ASSUME TypeOK, WireGenuine, [Next]_vars
  PROVE  WireGenuine'
<1> SUFFICES ASSUME NEW c \in Conns, NEW i \in 1 .. Len(wire'[c]),
                    NEW m, m = wire'[c][i]
             PROVE  Genuine(m)'
  BY DEF WireGenuine, Genuine, Idle
\* The parts that were there before the step.
<1>a. ASSUME i \in 1 .. Len(wire[c]), m = wire[c][i]
      PROVE  Genuine(m)'
  <2>1. wire[c][i] \in Part
    BY <1>a, ElementOfSeq DEF TypeOK, NetTypes
  <2>2. m.call \in Calls /\ Genuine(m)
    BY <1>a, <2>1 DEF WireGenuine, Part
  <2> QED
    BY <2>2, GenuineStays
<1>1. CASE UNCHANGED wire
  BY <1>1, <1>a
<1>2. ASSUME NEW k \in Calls, NEW part \in {"head", "tail"}, Put(k, part),
             ~Idle(k)', sid' = sid
      PROVE  Genuine(m)'
  <2>1. /\ Len(wire'[socket]) = Len(wire[socket]) + 1
        /\ \A n \in 1 .. Len(wire[socket]) : wire'[socket][n] = wire[socket][n]
        /\ wire'[socket][Len(wire[socket]) + 1]
              = [call |-> k, sid |-> sid[k], part |-> part]
        /\ \A d \in Conns : d # socket => wire'[d] = wire[d]
    BY <1>2, PutType
  <2>2. CASE c = socket /\ i = Len(wire[socket]) + 1
    <3>1. m = [call |-> k, sid |-> sid[k], part |-> part]
      BY <2>1, <2>2
    <3> QED
      BY <3>1, <1>2 DEF Genuine
  <2>3. CASE ~(c = socket /\ i = Len(wire[socket]) + 1)
    <3>1. Len(wire[c]) \in Nat
      BY LenProperties DEF TypeOK, NetTypes
    <3>2. i \in 1 .. Len(wire[c]) /\ wire'[c][i] = wire[c][i]
      BY <2>1, <2>3, <3>1
    <3> QED
      BY <3>2, <1>a
  <2> QED
    BY <2>2, <2>3
<1>3. ASSUME NEW k \in Calls, SendHead(k) \/ SendTail(k)
      PROVE  Genuine(m)'
  <2>1. ~Idle(k)' /\ sid' = sid
    BY <1>3, GenuineStays DEF SendHead, SendTail, Goto, Idle, ids,
        ReleaseWriteMutex
  <2> QED
    BY <1>2, <1>3, <2>1 DEF SendHead, SendTail, ReleaseWriteMutex
<1> QED
  BY <1>1, <1>3 DEF Next, vars, CallStep, Start, Register, AcquireWrite,
     SendFails, Timeout, GiveUp, GetResponse, OpenSocket, Connected,
     ConnectRefused, BeginDisconnect, OwnerStep, CloseSocket, JoinReader,
     ClearHandlers, ReaderStep, ReaderLoop, Recv, RecvEnd, Dispatch, PeerRead,
     PeerReply, PeerClose, notCall, netVars, NextId, WriteMutexFree,
         ReleaseWriteMutex, Ready, Closed, Read

\* The peer takes the stream id of a whole frame for the one of its request.
LEMMA NextPeer ==
  ASSUME TypeOK, FrameInv, WireGenuine, PeerGenuine, [Next]_vars
  PROVE  PeerGenuine'
<1>1. ASSUME NEW c \in Conns, NEW m \in inbox'[c] PROVE Genuine(m)'
  <2>1. CASE m \in inbox[c]
    <3>1. m.call \in Calls /\ Genuine(m)
      BY <2>1 DEF PeerGenuine, TypeOK, NetTypes, Message
    <3> QED
      BY <3>1, GenuineStays
  <2>2. CASE m \notin inbox[c]
    <3>1. PICK d \in Conns : PeerRead(d)
      BY <2>2 DEF Next, vars, CallStep, Start, Register, AcquireWrite,
          SendHead, SendTail,
         SendFails, Timeout, GiveUp, GetResponse, OpenSocket, Connected, ConnectRefused,
         BeginDisconnect, OwnerStep, CloseSocket, JoinReader, ClearHandlers, ReaderStep,
         ReaderLoop, Recv, RecvEnd, Dispatch, PeerReply, PeerClose, notCall,
             netVars, peerVars, NextId, WriteMutexFree, ReleaseWriteMutex, Ready, Closed, Read
    <3> DEFINE i == readUpTo[c]
    <3>2. /\ wire[c] \in Seq(Part) /\ Len(wire[c]) \in Nat /\ i \in Nat
          /\ inbox \in [Conns -> SUBSET Message]
      BY LenProperties DEF TypeOK, NetTypes
    <3>3. /\ c = d /\ i < Len(wire[c]) /\ i % 2 # 0
          /\ m = [sid |-> wire[c][i].sid, call |-> wire[c][i + 1].call]
      BY <2>2, <3>1, <3>2 DEF PeerRead
    <3>4. /\ i \in 1 .. Len(wire[c]) /\ i + 1 \in 1 .. Len(wire[c])
          /\ (i + 1) % 2 # 1 /\ i + 1 - 1 = i
      <4>1. i \in 1 .. i /\ (i + 1) % 2 # 1
        BY <3>2, <3>3, Parity
      <4>2. i \in 1 .. Len(wire[c]) /\ i + 1 \in 1 .. Len(wire[c]) /\ i + 1 - 1 = i
        BY <3>2, <3>3, <4>1
      <4> QED
        BY <4>1, <4>2
    <3>5. wire[c][i + 1] = [wire[c][i] EXCEPT !.part = "tail"]
      <4> DEFINE n == i + 1
      <4>1. n \in 1 .. Len(wire[c]) /\ n % 2 # 1 /\ n - 1 = i
        BY <3>4
      <4> HIDE DEF n
      <4>2. wire[c][n] = [wire[c][n - 1] EXCEPT !.part = "tail"]
        BY <4>1 DEF FrameInv, WholeFrames
      <4>3. wire[c][n] = [wire[c][i] EXCEPT !.part = "tail"]
        BY <4>1, <4>2
      <4> QED
        BY <4>3 DEF n
    <3>6. wire[c][i] \in Part /\ wire[c][i + 1] \in Part
      BY <3>2, <3>4, ElementOfSeq
    <3>7. wire[c][i + 1].call = wire[c][i].call
      BY <3>5, <3>6 DEF Part
    <3>8. Genuine(wire[c][i])
      BY <3>4 DEF WireGenuine
    <3>9. m.call \in Calls /\ Genuine(m)
      BY <3>3, <3>6, <3>7, <3>8 DEF Genuine, Part
    <3> QED
      BY <3>9, GenuineStays
  <2> QED
    BY <2>1, <2>2
<1>2. ASSUME NEW c \in Conns, NEW i \in 1 .. Len(replies'[c]), NEW m, m = replies'[c][i]
      PROVE  Genuine(m)'
  <2>1. ASSUME i \in 1 .. Len(replies[c]), m = replies[c][i]
        PROVE  Genuine(m)'
    <3>0. replies[c] \in Seq(Message)
      BY DEF TypeOK, NetTypes
    <3>1. m \in Message
      BY <2>1, <3>0, ElementOfSeq
    <3>2. m.call \in Calls /\ Genuine(m)
      BY <2>1, <3>1 DEF PeerGenuine, Message
    <3> QED
      BY <3>2, GenuineStays
  <2>2. CASE UNCHANGED replies
    BY <2>1, <2>2, <1>2
  <2>3. ASSUME NEW d \in Conns, PeerReply(d) PROVE Genuine(m)'
    <3>1. PICK request \in inbox[d] :
            replies' = [replies EXCEPT ![d] = Append(replies[d], request)]
      BY <2>3 DEF PeerReply
    <3>2. request \in Message /\ replies[d] \in Seq(Message) /\ Len(replies[d]) \in Nat
      BY <3>1, LenProperties DEF TypeOK, NetTypes
    <3>3. /\ Len(Append(replies[d], request)) = Len(replies[d]) + 1
          /\ \A n \in 1 .. Len(replies[d]) : Append(replies[d], request)[n] = replies[d][n]
          /\ Append(replies[d], request)[Len(replies[d]) + 1] = request
      BY <3>2, AppendProperties
    <3>4. replies'[d] = Append(replies[d], request) /\ (c # d => replies'[c] = replies[c])
      BY <3>1 DEF TypeOK, NetTypes
    <3>5. CASE c = d /\ i = Len(replies[d]) + 1
      <4>1. m = request
        BY <3>3, <3>4, <3>5, <1>2
      <4>2. m.call \in Calls /\ Genuine(m)
        BY <4>1, <3>1, <3>2 DEF PeerGenuine, Message
      <4> QED
        BY <4>2, GenuineStays
    <3>6. CASE ~(c = d /\ i = Len(replies[d]) + 1)
      <4>1. i \in 1 .. Len(replies[c]) /\ m = replies[c][i]
        BY <3>2, <3>3, <3>4, <3>6, <1>2
      <4> QED
        BY <4>1, <2>1
    <3> QED
      BY <3>5, <3>6
  <2> QED
    BY <2>2, <2>3 DEF Next, vars, CallStep, Start, Register, AcquireWrite,
        SendHead,
       SendTail, SendFails, Timeout, GiveUp, GetResponse, OpenSocket, Connected,
       ConnectRefused, BeginDisconnect, OwnerStep, CloseSocket, JoinReader,
       ClearHandlers, ReaderStep, ReaderLoop, Recv, RecvEnd, Dispatch, PeerRead,
       PeerClose, notCall, netVars, NextId, WriteMutexFree, ReleaseWriteMutex,
           Ready, Closed, Read
<1>3. \A c \in Conns : \A m \in inbox'[c] : Genuine(m)'
  BY <1>1
<1>4. \A c \in Conns : \A i \in 1 .. Len(replies'[c]) : \A m : m = replies'[c][i] => Genuine(m)'
  BY <1>2
<1> QED
  BY <1>3, <1>4 DEF PeerGenuine, Genuine, Idle

\* The heart of the matter: the reader finds the handler of the very call that
\* the frame in its hands answers.
LEMMA HandlerOfFrame ==
  ASSUME TypeOK, HandlerInv, StreamIds, PeerGenuine, ReaderInv, batch # << >>
  PROVE  /\ Head(batch) \in Message /\ Sent(Head(batch))
         /\ Head(batch).sid \in DOMAIN handlers =>
              handlers[Head(batch).sid] = Head(batch).call
<1>1. batch \in Seq(Message) /\ Len(batch) \in Nat \ {0}
  BY EmptySeq DEF TypeOK, ThreadTypes
<1>2. Head(batch) = batch[1] /\ 1 \in 1 .. Len(batch)
  BY <1>1
<1>3. Head(batch) \in Message
  BY <1>1, <1>2, ElementOfSeq
<1>4. Sent(Head(batch))
  BY <1>2 DEF ReaderInv
<1>5. Genuine(Head(batch))
  BY <1>4 DEF Sent, PeerGenuine
<1>6. ASSUME Head(batch).sid \in DOMAIN handlers
      PROVE  handlers[Head(batch).sid] = Head(batch).call
  <2> DEFINE j == handlers[Head(batch).sid]
  <2>1. j \in Calls /\ Head(batch).call \in Calls
    BY <1>3, <1>6 DEF TypeOK, CallTypes, Message
  <2>2. sid[j] = Head(batch).sid /\ ~Idle(j)
    BY <1>6 DEF HandlerInv, HandlersOfOpenCalls, Registered, Idle
  <2> QED
    BY <2>1, <2>2, <1>5 DEF StreamIds, Genuine
<1> QED
  BY <1>3, <1>4, <1>6

LEMMA NextReader ==
  ASSUME TypeOK, HandlerInv, StreamIds, PeerGenuine, ReaderInv, AnswerIsOwn, [Next]_vars
  PROVE  ReaderInv' /\ AnswerIsOwn'
<1>a. promise \in [Calls -> Calls \cup {None}]
  BY DEF TypeOK, CallTypes
<1>b. ASSUME UNCHANGED <<batch, promise>> PROVE ReaderInv' /\ AnswerIsOwn'
  <2>1. \A i \in 1 .. Len(batch) : Sent(batch[i])'
    <3> SUFFICES ASSUME NEW i \in 1 .. Len(batch), NEW m, m = batch[i]
                 PROVE  Sent(m)'
      BY <1>b DEF Sent
    <3> QED
      BY SentStays DEF ReaderInv
  <2>2. \A k \in Calls : promise[k] # None => k \in Answered'
    BY SentStays DEF ReaderInv
  <2> QED
    BY <1>b, <2>1, <2>2 DEF ReaderInv, AnswerIsOwn
<1>1. CASE Recv
  <2>1. recvOn \in Conns
    BY <1>1, ClientAssumption DEF Recv, TypeOK, ThreadTypes, Conns, NoSocket, Read
  <2>2. PICK upTo \in received[recvOn] + 1 .. Len(replies[recvOn]) :
          batch' = SubSeq(replies[recvOn], received[recvOn] + 1, upTo)
    BY <1>1 DEF Recv, Read
  <2>3. /\ replies[recvOn] \in Seq(Message) /\ received[recvOn] \in Nat
        /\ Len(replies[recvOn]) \in Nat
    BY <2>1, LenProperties DEF TypeOK, NetTypes
  <2>4. /\ Len(batch') = upTo - (received[recvOn] + 1) + 1
        /\ \A i \in 1 .. upTo - (received[recvOn] + 1) + 1 :
              batch'[i] = replies[recvOn][received[recvOn] + 1 + i - 1]
    <3> DEFINE m == received[recvOn] + 1
    <3>1. m \in Nat \ {0} /\ upTo \in m .. Len(replies[recvOn])
      BY <2>3
    <3>2. batch' = SubSeq(replies[recvOn], m, upTo)
      BY <2>2
    <3> HIDE DEF m
    <3>3. /\ Len(batch') = upTo - m + 1
          /\ \A i \in 1 .. upTo - m + 1 : batch'[i] = replies[recvOn][m + i - 1]
      BY <2>3, <3>1, <3>2, SubSeqType
    <3> QED
      BY <3>3 DEF m
  <2>5. \A i \in 1 .. Len(batch') : \E n \in 1 .. Len(replies[recvOn]) :
              replies[recvOn][n] = batch'[i]
    <3> SUFFICES ASSUME NEW i \in 1 .. Len(batch')
                 PROVE  \E n \in 1 .. Len(replies[recvOn]) : replies[recvOn][n] = batch'[i]
      OBVIOUS
    <3>1. /\ received[recvOn] + 1 + i - 1 \in 1 .. Len(replies[recvOn])
          /\ i \in 1 .. upTo - (received[recvOn] + 1) + 1
      BY <2>3, <2>4
    <3> QED
      BY <2>4, <3>1
  <2>6. UNCHANGED <<replies, promise>>
    BY <1>1 DEF Recv, callVars, Read
  <2>7. Answered' = Answered
    BY <2>6 DEF Answered
  <2> QED
    BY <2>1, <2>5, <2>6, <2>7 DEF ReaderInv, Sent, AnswerIsOwn
<1>2. CASE Dispatch
  <2> DEFINE m == Head(batch)
  <2>1. /\ batch \in Seq(Message) /\ batch # << >> /\ batch' = Tail(batch)
        /\ UNCHANGED replies
    BY <1>2 DEF Dispatch, NextFrame, netVars, TypeOK, ThreadTypes
  <2>2. /\ Len(batch') = Len(batch) - 1 /\ Len(batch) \in Nat /\ Len(batch') \in Nat
        /\ \A i \in 1 .. Len(batch') : batch'[i] = batch[i + 1]
    BY <2>1, HeadTailProperties, LenProperties
  <2>3. \A i \in 1 .. Len(batch') : i + 1 \in 1 .. Len(batch)
    BY <2>2
  <2>4. \A i \in 1 .. Len(batch') : \E c \in Conns : \E n \in 1 .. Len(replies[c]) :
              replies[c][n] = batch'[i]
    BY <2>2, <2>3 DEF ReaderInv, Sent
  <2>5. \/ promise' = promise
        \/ m.call \in Calls /\ promise' = [promise EXCEPT ![m.call] = m.call]
    BY <1>2, <2>1, HandlerOfFrame DEF Dispatch, Message
  <2>6. m.call \in Calls /\ m.call \in Answered
    BY <2>1, HandlerOfFrame DEF Sent, Answered, Message
  <2>7. Answered' = Answered
    BY <2>1 DEF Answered
  <2>8. AnswerIsOwn' /\ \A k \in Calls : promise'[k] # None => k \in Answered'
    BY <2>5, <2>6, <2>7, <1>a DEF ReaderInv, AnswerIsOwn
  <2> QED
    BY <2>1, <2>4, <2>8 DEF ReaderInv, Sent
<1> QED
  BY <1>1, <1>2, <1>b DEF Next, vars, CallStep, Start, Register, AcquireWrite,
      SendHead,
     SendTail, SendFails, Timeout, GiveUp, GetResponse, OpenSocket, Connected,
     ConnectRefused, BeginDisconnect, OwnerStep, CloseSocket, JoinReader,
     ClearHandlers, ReaderStep, ReaderLoop, RecvEnd, PeerRead, PeerReply, PeerClose,
     notCall, readerVars, callVars, NextId, WriteMutexFree, ReleaseWriteMutex,
         Ready, Closed

LEMMA InitInv == Init => Inv
<1> SUFFICES ASSUME Init PROVE Inv
  OBVIOUS
<1>1. WireGenuine /\ PeerGenuine
  BY EmptySeq DEF Init, WireGenuine, PeerGenuine
<1>2. ReaderInv /\ AnswerIsOwn
  BY EmptySeq DEF Init, ReaderInv, AnswerIsOwn
<1> QED
  BY <1>1, <1>2, InitType, InitHandler, InitIds, InitFrame DEF Inv

LEMMA NextInv == ASSUME ~Overlap, Inv, [Next]_vars PROVE Inv'
<1>1. TypeOK /\ HandlerInv /\ StreamIds /\ LockInv /\ FrameInv
      /\ WireGenuine /\ PeerGenuine /\ ReaderInv /\ AnswerIsOwn
  BY DEF Inv
<1>2. TypeOK' /\ HandlerInv' /\ StreamIds' /\ LockInv'
  BY <1>1, NextType, NextHandler, NextIds, NextLock
<1>3. FrameInv'
  BY <1>1, NextFrameInv
<1>4. WireGenuine' /\ PeerGenuine'
  BY <1>1, NextWire, NextPeer
<1>5. ReaderInv' /\ AnswerIsOwn'
  BY <1>1, NextReader
<1> QED
  BY <1>2, <1>3, <1>4, <1>5 DEF Inv

\* The inductive invariant holds.
THEOREM InvHolds == ASSUME ~Overlap PROVE Spec => []Inv
  BY InitInv, NextInv, PTL DEF Spec

\* A call that gets an answer gets its own: answers late, doubled or out of
\* order are never handed to another call.
THEOREM AnswersAreOwn == ASSUME ~Overlap PROVE Spec => []AnswerIsOwn
<1>1. Inv => AnswerIsOwn
  BY DEF Inv
<1> QED
  BY <1>1, InvHolds, PTL

-------------------------------------------------------------------------------
(* The client implements RpcCalls.                                         *)

LEMMA InitRefines == Init => RC!Init
<1> SUFFICES ASSUME Init PROVE RC!Init
  OBVIOUS
<1>1. Outcome = [k \in Calls |-> "idle"]
  BY DEF Init, Outcome, Idle
<1>2. Result = [k \in Calls |-> None]
  BY DEF Init, Result
<1>3. Answered = {}
  BY EmptySeq DEF Init, Answered
<1> QED
  BY <1>1, <1>2, <1>3 DEF RC!Init

\* Every step is a step of RpcCalls or leaves its variables alone.
LEMMA NextRefines ==
  ASSUME Inv, [Next]_vars
  PROVE  [RC!Next]_(RC!vars)
<1> USE DEF Goto, Idle, Returned
<1>a. /\ pc \in [Calls -> {"idle", "register", "lock", "send", "sendRest",
                           "wait", "giveUp", "ok", "failed"}]
      /\ promise \in [Calls -> Calls \cup {None}]
      /\ handlers \in [DOMAIN handlers -> Calls]
  BY DEF Inv, TypeOK, CallTypes
<1>b. UNCHANGED <<pc, promise, replies>> => UNCHANGED <<Outcome, Result, Answered>>
  BY DEF Outcome, Result, Answered
<1>c. UNCHANGED <<Outcome, Result, Answered>> => [RC!Next]_(RC!vars)
  BY DEF RC!vars
<1>1. ASSUME NEW k \in Calls, Start(k) PROVE RC!Next
  <2>1. /\ pc[k] = "idle" /\ pc' = [pc EXCEPT ![k] = "register"]
        /\ promise' = promise /\ replies' = replies
    BY <1>1 DEF Start, notCall, netVars, NextId
  <2>2. Outcome[k] = "idle" /\ Outcome' = [Outcome EXCEPT ![k] = "pending"]
    BY <2>1, <1>a DEF Outcome
  <2>3. Result' = Result /\ Answered' = Answered
    BY <2>1, <1>a DEF Result, Answered
  <2> QED
    BY <2>2, <2>3 DEF RC!Next, RC!Begin
<1>2. ASSUME NEW k \in Calls,
             \/ Register(k) \/ AcquireWrite(k) \/ SendHead(k) \/ SendTail(k)
             \/ SendFails(k) \/ Timeout(k)
      PROVE  UNCHANGED <<Outcome, Result, Answered>>
  <2>1. /\ promise' = promise /\ replies' = replies
        /\ \E to \in {"lock", "send", "sendRest", "wait", "giveUp"} :
              pc' = [pc EXCEPT ![k] = to]
        /\ pc[k] \in {"register", "lock", "send", "sendRest", "wait"}
    BY <1>2 DEF Register, AcquireWrite, SendHead, SendTail, SendFails, Timeout,
                notCall, netVars, WriteMutexFree, ReleaseWriteMutex, Ready
  <2> QED
    BY <2>1, <1>a DEF Outcome, Result, Answered
<1>3. ASSUME NEW k \in Calls, GiveUp(k) PROVE RC!Next
  <2>1. /\ pc[k] = "giveUp" /\ pc' = [pc EXCEPT ![k] = "failed"]
        /\ promise' = promise /\ replies' = replies
    BY <1>3 DEF GiveUp, notCall, netVars
  <2>2. Outcome[k] = "pending" /\ Outcome' = [Outcome EXCEPT ![k] = "failed"]
    BY <2>1, <1>a DEF Outcome
  <2>3. Result' = Result /\ Answered' = Answered
    BY <2>1, <1>a DEF Result, Answered
  <2> QED
    BY <2>2, <2>3 DEF RC!Next, RC!Fail
<1>4. ASSUME NEW k \in Calls, GetResponse(k) PROVE RC!Next
  <2>1. /\ pc[k] = "wait" /\ pc' = [pc EXCEPT ![k] = "ok"]
        /\ promise' = promise /\ replies' = replies /\ promise[k] # None
    BY <1>4 DEF GetResponse, notCall, netVars, Ready
  <2>2. promise[k] = k /\ k \in Answered
    BY <2>1 DEF Inv, AnswerIsOwn, ReaderInv
  <2>3. Outcome[k] = "pending" /\ Outcome' = [Outcome EXCEPT ![k] = "ok"]
    BY <2>1, <1>a DEF Outcome
  <2>4. Result' = [Result EXCEPT ![k] = k] /\ Answered' = Answered
    BY <2>1, <2>2, <1>a DEF Result, Answered
  <2> QED
    BY <2>2, <2>3, <2>4 DEF RC!Next, RC!Succeed
<1>5. ASSUME \/ OpenSocket \/ Connected \/ ConnectRefused \/ BeginDisconnect
             \/ OwnerStep \/ ReaderLoop \/ Recv \/ RecvEnd
      PROVE  UNCHANGED <<Outcome, Result, Answered>>
  BY <1>5, <1>b DEF OpenSocket, Connected, ConnectRefused, BeginDisconnect,
      OwnerStep,
     CloseSocket, JoinReader, ClearHandlers, ReaderLoop, Recv, RecvEnd,
         callVars, netVars, Closed, Read
\* The promise that is set belongs to a call that has not returned.
<1>6. ASSUME Dispatch PROVE UNCHANGED <<Outcome, Result, Answered>>
  <2>1. pc' = pc /\ replies' = replies
    BY <1>6 DEF Dispatch, netVars
  <2>2. \/ promise' = promise
        \/ \E s \in DOMAIN handlers : \E m \in Calls :
              promise' = [promise EXCEPT ![handlers[s]] = m]
    BY <1>6, HandlerOfFrame DEF Dispatch, Inv, Message
  <2>3. \A s \in DOMAIN handlers : pc[handlers[s]] # "ok"
    BY DEF Inv, HandlerInv, HandlersOfOpenCalls, Registered
  <2>4. \A k \in Calls : pc[k] = "ok" => promise'[k] = promise[k]
    BY <2>2, <2>3, <1>a
  <2> QED
    BY <2>1, <2>4 DEF Outcome, Result, Answered
<1>7. ASSUME NEW c \in Conns, PeerReply(c) PROVE RC!Next
  <2>1. PICK request \in inbox[c] :
          replies' = [replies EXCEPT ![c] = Append(replies[c], request)]
    BY <1>7 DEF PeerReply
  <2>2. /\ request \in Message /\ replies[c] \in Seq(Message) /\ Len(replies[c]) \in Nat
        /\ replies \in [Conns -> Seq(Message)]
    BY <2>1, LenProperties DEF Inv, TypeOK, NetTypes
  <2>3. /\ Len(Append(replies[c], request)) = Len(replies[c]) + 1
        /\ \A n \in 1 .. Len(replies[c]) : Append(replies[c], request)[n] = replies[c][n]
        /\ Append(replies[c], request)[Len(replies[c]) + 1] = request
    BY <2>2, AppendProperties
  <2>4. request.call \in Calls /\ pc[request.call] # "idle"
    BY <2>1, <2>2 DEF Inv, PeerGenuine, Genuine, Message
  <2>5. /\ replies'[c] = Append(replies[c], request)
        /\ \A d \in Conns : d # c => replies'[d] = replies[d]
    BY <2>1, <2>2
  <2>6. Len(replies[c]) + 1 \in 1 .. Len(replies'[c])
    BY <2>2, <2>3, <2>5
  <2>7. request.call \in Answered'
    BY <2>3, <2>4, <2>5, <2>6 DEF Answered
  <2>8. Answered \subseteq Answered'
    BY SentStays DEF Inv
  <2>9. ASSUME NEW k \in Answered', k # request.call PROVE k \in Answered
    <3>1. k \in Calls
      BY <2>9 DEF Answered
    <3>2. PICK d \in Conns : \E n \in 1 .. Len(replies'[d]) : replies'[d][n].call = k
      BY <2>9 DEF Answered
    <3>3. PICK n \in 1 .. Len(replies'[d]) : replies'[d][n].call = k
      BY <3>2
    <3>4. n \in 1 .. Len(replies[d]) /\ replies[d][n].call = k
      <4>1. CASE d # c
        BY <4>1, <3>3, <2>5
      <4>2. CASE d = c
        <5>1. n \in 1 .. Len(replies[c]) + 1
          BY <4>2, <3>3, <2>3, <2>5
        <5>2. n # Len(replies[c]) + 1
          BY <4>2, <3>3, <2>3, <2>5, <2>9
        <5>3. n \in 1 .. Len(replies[c])
          BY <5>1, <5>2, <2>2
        <5>4. replies'[c][n] = replies[c][n]
          BY <5>3, <2>3, <2>5
        <5> QED
          BY <4>2, <5>3, <5>4, <3>3
      <4> QED
        BY <4>1, <4>2
    <3> QED
      BY <3>1, <3>4 DEF Answered
  <2>10. Answered' = Answered \cup {request.call}
    BY <2>7, <2>8, <2>9
  <2>11. UNCHANGED <<Outcome, Result>> /\ Outcome[request.call] # "idle"
    BY <1>7, <2>4, <1>a DEF PeerReply, callVars, Outcome, Result
  <2> QED
    BY <2>4, <2>10, <2>11 DEF RC!Next, RC!Answer
<1>8. ASSUME NEW c \in Conns, PeerRead(c) \/ PeerClose(c)
      PROVE  UNCHANGED <<Outcome, Result, Answered>>
  BY <1>8, <1>b DEF PeerRead, PeerClose, callVars
<1>9. ASSUME UNCHANGED vars PROVE UNCHANGED <<Outcome, Result, Answered>>
  BY <1>9, <1>b DEF vars, callVars, netVars
<1> QED
  BY <1>c, <1>1, <1>2, <1>3, <1>4, <1>5, <1>6, <1>7, <1>8, <1>9
     DEF Next, CallStep, ReaderStep

\* For any number of calls, connections and replies, a call returns true only
\* with the answer to itself, which the peer did send, and returns only once.
THEOREM Refinement == ASSUME ~Overlap PROVE Spec => ImplementsRpcCalls
  BY InvHolds, InitRefines, NextRefines, PTL DEF Spec, RC!Spec, ImplementsRpcCalls
===============================================================================
