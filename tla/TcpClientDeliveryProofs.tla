------------------------ MODULE TcpClientDeliveryProofs ------------------------
(***************************************************************************)
(* Proof about TcpClient that no reply is dropped while a call waits for   *)
(* it, for any number of calls and connections, when the owner does not    *)
(* reconnect during a call (~Overlap).                                     *)
(***************************************************************************)
EXTENDS TcpClientProofs

\* A call has written, or tried to, only after it has registered its handler.
Begun(k) == pc[k] \notin {"idle", "register"}

BegunInv ==
    /\ \A c \in Conns : \A i \in 1 .. Len(wire[c]) : Begun(wire[c][i].call)
    /\ \A c \in Conns : \A m \in inbox[c] : Begun(m.call)
    /\ \A c \in Conns : \A i \in 1 .. Len(replies[c]) : Begun(replies[c][i].call)
    /\ \A k \in Calls : pc[k] = "ok" => promise[k] # None

\* While there is a reader, a call without an answer has its handler in the map:
\* disconnect() clears the map when the reader is gone, and the next connection is
\* opened when the calls that lost their handlers have returned.
Waiting(k) == Registered(k) /\ promise[k] = None
HandlerThere(k) == sid[k] \in DOMAIN handlers /\ handlers[sid[k]] = k

HandlersStay ==
    /\ owner \in {"out", "connecting", "clearing"} => reader = "none"
    /\ (reader # "none" \/ owner = "connecting") =>
          \A k \in Calls : Waiting(k) => HandlerThere(k)

\* What the reader holds are the last replies it has read, in order.
BatchInv ==
    IF reader = "dispatch"
    THEN /\ batch # << >> /\ recvOn \in Conns /\ Len(batch) <= received[recvOn]
         /\ \A i \in 1 .. Len(batch) :
               batch[i] = replies[recvOn][received[recvOn] - Len(batch) + i]
    ELSE batch = << >>

DeliveryInv == BegunInv /\ HandlersStay /\ BatchInv /\ NoReplyLost

-------------------------------------------------------------------------------
\* Who may change what.
LEMMA Writers ==
  ASSUME [Next]_vars
  PROVE  /\ UNCHANGED wire \/ \E k \in Calls : SendHead(k) \/ SendTail(k)
         /\ UNCHANGED inbox \/ \E c \in Conns : PeerRead(c)
         /\ UNCHANGED replies \/ \E c \in Conns : PeerReply(c)
         /\ UNCHANGED promise \/ Dispatch
         /\ UNCHANGED <<batch, received>> \/ Recv \/ Dispatch
         /\ UNCHANGED recvOn \/ ReaderLoop
<1> QED
  BY DEF Next, vars, CallStep, Start, Register, AcquireWrite, SendHead, SendTail,
     SendFails, Timeout, GiveUp, GetResponse, OpenSocket, Connected, ConnectRefused,
     BeginDisconnect, OwnerStep, CloseSocket, JoinReader, ClearHandlers, ReaderStep,
     ReaderLoop, Recv, RecvEnd, Dispatch, PeerRead, PeerReply, PeerClose, notCall, ids,
     callVars, ownerVars, readerVars, netVars, peerVars, NextId, WriteMutexFree,
     ReleaseWriteMutex, Ready, Closed, Read

\* What is past stays past: a registered call, a promise that is set, a failure.
LEMMA PastStays ==
  ASSUME Inv, [Next]_vars
  PROVE  \A k \in Calls : /\ Begun(k) => Begun(k)'
                          /\ pc[k] = "failed" => pc'[k] = "failed"
                          /\ promise[k] # None => promise'[k] # None
                          /\ pc'[k] = "ok" => pc[k] = "ok" \/ promise[k] # None
<1> USE DEF Begun, Goto, notCall, ids, callVars
<1>a. /\ pc \in [Calls -> {"idle", "register", "lock", "send", "sendRest",
                           "wait", "giveUp", "ok", "failed"}]
      /\ promise \in [Calls -> Calls \cup {None}]
  BY DEF Inv, TypeOK, CallTypes
<1>1. \A k \in Calls : promise[k] # None => promise'[k] # None
  <2>1. CASE Dispatch
    <3>1. batch # << >> /\ Head(batch).call \in Calls
      BY <2>1, HandlerOfFrame DEF Dispatch, Inv, Message
    <3>2. \/ promise' = promise
          \/ \E j : promise' = [promise EXCEPT ![j] = Head(batch).call]
      BY <2>1 DEF Dispatch
    <3> QED
      BY <3>1, <3>2, <1>a, ClientAssumption
  <2> QED
    BY <2>1, Writers
<1>2. \A k \in Calls : /\ Begun(k) => Begun(k)'
                       /\ pc[k] = "failed" => pc'[k] = "failed"
                       /\ pc'[k] = "ok" => pc[k] = "ok" \/ promise[k] # None
  <2>1. ASSUME NEW j \in Calls, Start(j) \/ CallStep(j)
        PROVE  \A k \in Calls : /\ Begun(k) => Begun(k)'
                                /\ pc[k] = "failed" => pc'[k] = "failed"
                                /\ pc'[k] = "ok" => pc[k] = "ok" \/ promise[k] # None
    BY <2>1, <1>a DEF Start, CallStep, Register, AcquireWrite, SendHead, SendTail,
       SendFails, Timeout, GiveUp, GetResponse, Ready
  <2>2. UNCHANGED pc \/ \E j \in Calls : Start(j) \/ CallStep(j)
    BY DEF Next, vars, OpenSocket, Connected, ConnectRefused,
       BeginDisconnect, OwnerStep, CloseSocket, JoinReader, ClearHandlers, ReaderStep,
       ReaderLoop, Recv, RecvEnd, Dispatch, PeerRead, PeerReply, PeerClose, Closed, Read
  <2> QED
    BY <2>1, <2>2
<1> QED
  BY <1>1, <1>2

\* A reply, once written, stays where it is.
LEMMA ReplyStays ==
  ASSUME TypeOK, [Next]_vars, NEW c \in Conns
  PROVE  /\ Len(replies[c]) \in Nat /\ Len(replies'[c]) \in Nat
         /\ Len(replies[c]) <= Len(replies'[c])
         /\ \A i \in 1 .. Len(replies[c]) : replies'[c][i] = replies[c][i]
<1>1. CASE UNCHANGED replies
  BY <1>1, LenProperties DEF TypeOK, NetTypes
<1>2. ASSUME NEW d \in Conns, PeerReply(d)
      PROVE  /\ Len(replies[c]) \in Nat /\ Len(replies'[c]) \in Nat
             /\ Len(replies[c]) <= Len(replies'[c])
             /\ \A i \in 1 .. Len(replies[c]) : replies'[c][i] = replies[c][i]
  <2>1. PICK request \in inbox[d] :
          replies' = [replies EXCEPT ![d] = Append(replies[d], request)]
    BY <1>2 DEF PeerReply
  <2>2. /\ request \in Message /\ replies[d] \in Seq(Message) /\ Len(replies[d]) \in Nat
        /\ Len(replies[c]) \in Nat
    BY <2>1, LenProperties DEF TypeOK, NetTypes
  <2>3. /\ Len(Append(replies[d], request)) = Len(replies[d]) + 1
        /\ \A i \in 1 .. Len(replies[d]) : Append(replies[d], request)[i] = replies[d][i]
    BY <2>2, AppendProperties
  <2>4. replies'[d] = Append(replies[d], request) /\ (c # d => replies'[c] = replies[c])
    BY <2>1 DEF TypeOK, NetTypes
  <2> QED
    BY <2>2, <2>3, <2>4
<1> QED
  BY <1>1, <1>2, Writers

-------------------------------------------------------------------------------
\* Only a call past its registration writes, and what the peer makes of the parts
\* names calls that have written.
LEMMA BegunStep ==
  ASSUME Inv, BegunInv, [Next]_vars
  PROVE  BegunInv'
<1>a. TypeOK /\ \A k \in Calls : Begun(k) => Begun(k)'
  BY PastStays DEF Inv
<1>1. ASSUME NEW c \in Conns, NEW i \in 1 .. Len(wire'[c]), NEW k, k = wire'[c][i].call
      PROVE  Begun(k)'
  <2>a. wire[c] \in Seq(Part) /\ Len(wire[c]) \in Nat
    BY <1>a, LenProperties DEF TypeOK, NetTypes
  <2>b. ASSUME i \in 1 .. Len(wire[c]), wire'[c][i] = wire[c][i]
        PROVE  Begun(k)'
    <3>1. wire[c][i] \in Part
      BY <2>a, <2>b, ElementOfSeq
    <3> QED
      BY <1>1, <1>a, <2>b, <3>1 DEF BegunInv, Part
  <2>1. CASE UNCHANGED wire
    BY <2>1, <2>b
  <2>2. ASSUME NEW j \in Calls, NEW part \in {"head", "tail"}, Put(j, part), Begun(j)
        PROVE  Begun(k)'
    <3>1. /\ Len(wire'[socket]) = Len(wire[socket]) + 1
          /\ \A n \in 1 .. Len(wire[socket]) : wire'[socket][n] = wire[socket][n]
          /\ wire'[socket][Len(wire[socket]) + 1]
                = [call |-> j, sid |-> sid[j], part |-> part]
          /\ \A d \in Conns : d # socket => wire'[d] = wire[d]
      BY <2>2, <1>a, PutType
    <3>2. CASE c = socket /\ i = Len(wire[socket]) + 1
      BY <3>1, <3>2, <1>1, <1>a, <2>2
    <3>3. CASE ~(c = socket /\ i = Len(wire[socket]) + 1)
      <4>1. i \in 1 .. Len(wire[c]) /\ wire'[c][i] = wire[c][i]
        BY <3>1, <3>3, <2>a
      <4> QED
        BY <4>1, <2>b
    <3> QED
      BY <3>2, <3>3
  <2>3. ASSUME NEW j \in Calls, SendHead(j) \/ SendTail(j) PROVE Begun(k)'
    BY <2>2, <2>3 DEF SendHead, SendTail, Goto, Begun
  <2> QED
    BY <2>1, <2>3, Writers
<1>2. ASSUME NEW c \in Conns, NEW m \in inbox'[c] PROVE Begun(m.call)'
  <2>1. CASE m \in inbox[c]
    BY <2>1, <1>a DEF BegunInv, TypeOK, NetTypes, Message
  <2>2. CASE m \notin inbox[c]
    <3>1. PICK d \in Conns : PeerRead(d)
      BY <2>2, Writers
    <3> DEFINE i == readUpTo[c] + 1
    <3>2. /\ wire[c] \in Seq(Part) /\ Len(wire[c]) \in Nat /\ readUpTo[c] \in Nat
          /\ inbox \in [Conns -> SUBSET Message]
      BY <1>a, LenProperties DEF TypeOK, NetTypes
    <3>3. readUpTo[c] < Len(wire[c]) /\ m.call = wire[c][i].call
      BY <2>2, <3>1, <3>2 DEF PeerRead
    <3>4. i \in 1 .. Len(wire[c]) /\ wire[c][i] \in Part
      BY <3>2, <3>3, ElementOfSeq
    <3> QED
      BY <3>3, <3>4, <1>a DEF BegunInv, Part
  <2> QED
    BY <2>1, <2>2
<1>3. ASSUME NEW c \in Conns, NEW i \in 1 .. Len(replies'[c]), NEW k, k = replies'[c][i].call
      PROVE  Begun(k)'
  <2>a. replies[c] \in Seq(Message) /\ Len(replies[c]) \in Nat
    BY <1>a, LenProperties DEF TypeOK, NetTypes
  <2>b. ASSUME i \in 1 .. Len(replies[c]) PROVE Begun(k)'
    <3>1. replies[c][i] \in Message /\ replies'[c][i] = replies[c][i]
      BY <2>a, <2>b, <1>a, ReplyStays, ElementOfSeq
    <3> QED
      BY <1>3, <1>a, <2>b, <3>1 DEF BegunInv, Message
  <2>1. CASE UNCHANGED replies
    BY <2>1, <2>b
  <2>2. ASSUME NEW d \in Conns, PeerReply(d) PROVE Begun(k)'
    <3>1. PICK request \in inbox[d] :
            replies' = [replies EXCEPT ![d] = Append(replies[d], request)]
      BY <2>2 DEF PeerReply
    <3>2. request \in Message /\ replies \in [Conns -> Seq(Message)]
      BY <3>1, <1>a DEF TypeOK, NetTypes
    <3>3. CASE c = d
      <4>1. replies'[c] = Append(replies[c], request)
        BY <3>1, <3>2, <3>3
      <4>2. /\ Len(replies'[c]) = Len(replies[c]) + 1
            /\ replies'[c][Len(replies[c]) + 1] = request
        BY <4>1, <3>2, <2>a, AppendProperties
      <4>3. i \in 1 .. Len(replies[c]) \/ k = request.call
        BY <4>2, <2>a, <1>3
      <4>4. Begun(request.call)'
        BY <3>1, <3>2, <1>a DEF BegunInv, Message
      <4> QED
        BY <4>3, <4>4, <2>b
    <3>4. CASE c # d
      BY <3>1, <3>2, <3>4, <2>b
    <3> QED
      BY <3>3, <3>4
  <2> QED
    BY <2>1, <2>2, Writers
<1>4. \A k \in Calls : pc'[k] = "ok" => promise'[k] # None
  BY PastStays DEF BegunInv
<1>5. \A c \in Conns : \A i \in 1 .. Len(wire'[c]) : \A k : k = wire'[c][i].call => Begun(k)'
  BY <1>1
<1>6. \A c \in Conns : \A i \in 1 .. Len(replies'[c]) :
         \A k : k = replies'[c][i].call => Begun(k)'
  BY <1>3
<1> QED
  BY <1>2, <1>4, <1>5, <1>6 DEF BegunInv, Begun

\* A handler leaves the map with an answer, with its own call, or when the reader is
\* gone; ids being distinct, no other call takes it over.
LEMMA HandlersStep ==
  ASSUME ~Overlap, Inv, HandlersStay, [Next]_vars
  PROVE  HandlersStay'
<1> USE DEF HandlersStay, Waiting, HandlerThere, Registered, Goto, notCall, ids, callVars,
            readerVars
<1>a. /\ pc \in [Calls -> {"idle", "register", "lock", "send", "sendRest",
                           "wait", "giveUp", "ok", "failed"}]
      /\ sid \in [Calls -> Nat] /\ promise \in [Calls -> Calls \cup {None}]
      /\ handlers \in [DOMAIN handlers -> Calls]
  BY DEF Inv, TypeOK, CallTypes
<1>b. \A j, k \in Calls : ~Idle(j) /\ ~Idle(k) /\ sid[j] = sid[k] => j = k
  BY DEF Inv, StreamIds
<1>1. ASSUME NEW k \in Calls, Start(k) PROVE HandlersStay'
  BY <1>1, <1>a DEF Start, NextId, ownerVars
<1>2. ASSUME NEW k \in Calls, Register(k) PROVE HandlersStay'
  <2>1. /\ UNCHANGED <<sid, promise, owner, reader>>
        /\ pc[k] = "register" /\ pc' = [pc EXCEPT ![k] = "lock"]
        /\ handlers' = WithHandler(sid[k], k)
    BY <1>2 DEF Register, ownerVars
  <2>2. HandlerThere(k)'
    BY <2>1 DEF WithHandler
  <2>3. ASSUME NEW j \in Calls, j # k, Waiting(j), HandlerThere(j) PROVE HandlerThere(j)'
    <3>1. sid[j] # sid[k]
      BY <2>1, <2>3, <1>b DEF Idle
    <3> QED
      BY <2>1, <2>3, <3>1 DEF WithHandler
  <2>4. \A j \in Calls : j # k => (Waiting(j)' <=> Waiting(j))
    BY <2>1, <1>a
  <2> QED
    BY <2>1, <2>2, <2>3, <2>4
<1>3. ASSUME NEW k \in Calls, \/ AcquireWrite(k) \/ SendHead(k) \/ SendTail(k) \/ SendFails(k)
                              \/ Timeout(k) \/ GetResponse(k)
      PROVE  HandlersStay'
  <2>1. /\ UNCHANGED <<sid, promise, handlers, owner, reader>>
        /\ \A j \in Calls : Registered(j)' => Registered(j)
    BY <1>3, <1>a DEF AcquireWrite, SendHead, SendTail, SendFails, Timeout, GetResponse,
       ownerVars
  <2> QED
    BY <2>1
<1>4. ASSUME NEW k \in Calls, GiveUp(k) PROVE HandlersStay'
  <2>1. /\ UNCHANGED <<sid, promise, owner, reader>>
        /\ pc[k] = "giveUp" /\ pc' = [pc EXCEPT ![k] = "failed"]
        /\ handlers' = WithoutHandler(sid[k])
    BY <1>4 DEF GiveUp, ownerVars
  <2>2. ASSUME NEW j \in Calls, Waiting(j)', HandlerThere(j) PROVE HandlerThere(j)'
    <3>1. j # k /\ pc'[j] = pc[j] /\ sid[j] # sid[k]
      BY <2>1, <2>2, <1>a, <1>b DEF Idle
    <3> QED
      BY <2>1, <2>2, <3>1 DEF WithoutHandler
  <2>3. \A j \in Calls : Waiting(j)' => Waiting(j)
    BY <2>1, <1>a
  <2> QED
    BY <2>1, <2>2, <2>3
<1>5. CASE OpenSocket
  <2>1. \A k \in Calls : ~Registered(k)
    BY <1>5 DEF OpenSocket, Pending, Idle, Returned
  <2> QED
    BY <1>5, <2>1 DEF OpenSocket, OwnerGoto
<1>6. CASE Connected \/ ConnectRefused \/ BeginDisconnect \/ CloseSocket \/ JoinReader
  BY <1>6 DEF Connected, ConnectRefused, BeginDisconnect, CloseSocket, JoinReader, OwnerGoto
<1>7. CASE ClearHandlers
  BY <1>7 DEF ClearHandlers, OwnerGoto
<1>8. CASE ReaderLoop \/ Recv \/ RecvEnd
  BY <1>8 DEF ReaderLoop, Recv, RecvEnd, ownerVars
<1>9. CASE Dispatch
  <2> DEFINE s == Head(batch).sid
  <2>1. /\ UNCHANGED <<pc, sid, owner>> /\ reader # "none" /\ reader' # "none"
    BY <1>9 DEF Dispatch, NextFrame, ownerVars
  <2>2. CASE s \notin DOMAIN handlers
    BY <1>9, <2>1, <2>2 DEF Dispatch
  <2>3. CASE s \in DOMAIN handlers
    <3>0. PICK h \in Calls : h = handlers[s]
      BY <2>3, <1>a
    <3>1. /\ handlers' = WithoutHandler(s) /\ sid[h] = s
          /\ promise' = [promise EXCEPT ![h] = Head(batch).call]
      BY <1>9, <2>3, <3>0 DEF Dispatch, Inv, HandlerInv, HandlersOfOpenCalls
    <3>2. Head(batch).call # None
      BY <1>9, HandlerOfFrame, ClientAssumption DEF Dispatch, Inv, Message
    <3>3. promise'[h] # None /\ \A j \in Calls : j # h => promise'[j] = promise[j]
      BY <3>1, <3>2, <1>a
    <3> HIDE DEF s
    <3>4. ASSUME NEW j \in Calls, Waiting(j)', reader # "none" PROVE HandlerThere(j)'
      <4>1. j # h /\ Waiting(j) /\ HandlerThere(j)
        BY <2>1, <3>3, <3>4
      <4>2. sid[j] # s
        BY <3>0, <4>1
      <4> QED
        BY <2>1, <3>1, <4>1, <4>2 DEF WithoutHandler
    <3> QED
      BY <2>1, <3>4
  <2> QED
    BY <2>2, <2>3
<1>10. ASSUME NEW c \in Conns, PeerRead(c) \/ PeerReply(c) \/ PeerClose(c)
       PROVE  HandlersStay'
  BY <1>10 DEF PeerRead, PeerReply, PeerClose, ownerVars
<1>11. CASE UNCHANGED vars
  BY <1>11 DEF vars, ownerVars
<1> QED
  BY <1>1, <1>2, <1>3, <1>4, <1>5, <1>6, <1>7, <1>8, <1>9, <1>10, <1>11
     DEF Next, CallStep, OwnerStep, ReaderStep

-------------------------------------------------------------------------------
\* recv() returns the next replies; a dispatched frame leaves the rest in place.
LEMMA BatchStep ==
  ASSUME Inv, HandlersStay, BatchInv, [Next]_vars
  PROVE  BatchInv'
<1>a. /\ TypeOK /\ recvOn \in Nat /\ batch \in Seq(Message) /\ Len(batch) \in Nat
  BY LenProperties, ClientAssumption DEF Inv, TypeOK, ThreadTypes
<1>b. \A c \in Conns : /\ replies[c] \in Seq(Message) /\ Len(replies[c]) \in Nat
                       /\ received[c] \in Nat /\ received[c] <= Len(replies[c])
  BY <1>a, LenProperties DEF TypeOK, NetTypes
<1>1. CASE Recv
  <2>1. recvOn \in Conns
    BY <1>1, <1>a, ClientAssumption DEF Recv, TypeOK, ThreadTypes, Conns, NoSocket
  <2> DEFINE r == received[recvOn] + 1
  <2>2. PICK upTo \in r .. Len(replies[recvOn]) :
          /\ batch' = SubSeq(replies[recvOn], r, upTo)
          /\ received' = [received EXCEPT ![recvOn] = upTo]
    BY <1>1 DEF Recv, Read
  <2>3. r \in Nat \ {0} /\ upTo \in Nat /\ r = received[recvOn] + 1
    BY <2>1, <1>b
  <2>4. received'[recvOn] = upTo
    BY <2>1, <2>2 DEF Inv, TypeOK, NetTypes
  <2>5. UNCHANGED <<recvOn, replies>> /\ reader' = "dispatch"
    BY <1>1 DEF Recv
  <2> HIDE DEF r
  <2>6. /\ Len(batch') = upTo - r + 1
        /\ \A i \in 1 .. upTo - r + 1 : batch'[i] = replies[recvOn][r + i - 1]
        /\ batch' \in Seq(Message)
    BY <2>1, <2>2, <2>3, <1>b, SubSeqType
  <2>7. Len(batch') \in Nat /\ Len(batch') >= 1 /\ batch' # << >>
    BY <2>2, <2>3, <2>6, EmptySeq
  <2>8. Len(batch') <= received'[recvOn]
    BY <2>2, <2>3, <2>4, <2>6
  <2>9. \A i \in 1 .. Len(batch') :
           batch'[i] = replies'[recvOn][received'[recvOn] - Len(batch') + i]
    <3> SUFFICES ASSUME NEW i \in 1 .. Len(batch')
                 PROVE  batch'[i] = replies[recvOn][upTo - Len(batch') + i]
      BY <2>4, <2>5
    <3>1. upTo - Len(batch') + i = r + i - 1 /\ i \in 1 .. upTo - r + 1
      BY <2>3, <2>6
    <3> QED
      BY <2>6, <3>1
  <2> QED
    BY <2>1, <2>5, <2>7, <2>8, <2>9 DEF BatchInv
<1>2. CASE Dispatch
  <2>1. /\ batch # << >> /\ batch' = Tail(batch) /\ reader = "dispatch"
        /\ reader' = IF Len(batch) = 1 THEN "loop" ELSE "dispatch"
        /\ UNCHANGED <<recvOn, replies, received>>
    BY <1>2 DEF Dispatch, NextFrame, netVars
  <2>2. /\ Len(batch') = Len(batch) - 1 /\ batch' \in Seq(Message)
        /\ \A i \in 1 .. Len(batch') : batch'[i] = batch[i + 1]
    BY <2>1, <1>a, HeadTailProperties
  <2>a. Len(batch') = Len(batch) - 1 /\ Len(batch) \in Nat
    BY <2>2, <1>a
  <2>3. recvOn \in Conns /\ Len(batch) <= received[recvOn] /\ received[recvOn] \in Nat
    BY <2>1, <1>b DEF BatchInv
  <2>4. CASE Len(batch) = 1
    <3>1. Len(batch') = 0
      BY <2>a, <2>4
    <3>2. batch' = << >>
      BY <2>2, <3>1, EmptySeq
    <3> QED
      BY <2>1, <2>4, <3>2 DEF BatchInv
  <2>5. CASE Len(batch) # 1
    <3>a. Len(batch) # 0
      BY <2>1, <1>a, EmptySeq
    <3>b. Len(batch') # 0
      BY <3>a, <2>a, <2>5
    <3>1. batch' # << >>
      BY <3>b, EmptySeq
    <3>2. \A i \in 1 .. Len(batch') :
             batch'[i] = replies[recvOn][received[recvOn] - Len(batch') + i]
      <4> SUFFICES ASSUME NEW i \in 1 .. Len(batch')
                   PROVE  batch'[i] = replies[recvOn][received[recvOn] - Len(batch') + i]
        OBVIOUS
      <4>1. i + 1 \in 1 .. Len(batch)
        BY <2>a
      <4>2. batch[i + 1] = replies[recvOn][received[recvOn] - Len(batch) + (i + 1)]
        BY <4>1, <2>1 DEF BatchInv
      <4>3. received[recvOn] - Len(batch) + (i + 1) = received[recvOn] - Len(batch') + i
        BY <2>a, <2>3
      <4> QED
        BY <2>2, <4>2, <4>3
    <3> QED
      BY <2>1, <2>a, <2>3, <2>5, <3>1, <3>2 DEF BatchInv
  <2> QED
    BY <2>4, <2>5
<1>3. CASE ~Recv /\ ~Dispatch /\ ~ReaderLoop
  <2>0. UNCHANGED <<batch, received, recvOn>>
    BY <1>3, Writers
  <2>1. reader' = "dispatch" <=> reader = "dispatch"
    <3>1. CASE Connected \/ JoinReader \/ RecvEnd
      BY <3>1 DEF Connected, JoinReader, RecvEnd, OwnerGoto, HandlersStay
    <3>2. CASE ~(Connected \/ JoinReader \/ RecvEnd)
      BY <1>3, <3>2 DEF Next, vars, CallStep, Start, Register, AcquireWrite, SendHead, SendTail,
         SendFails, Timeout, GiveUp, GetResponse, OpenSocket, ConnectRefused,
         BeginDisconnect, OwnerStep, CloseSocket, ClearHandlers, ReaderStep,
         PeerRead, PeerReply, PeerClose, notCall, readerVars, callVars
    <3> QED
      BY <3>1, <3>2
  <2>2. CASE reader = "dispatch"
    <3>1. \A i \in 1 .. Len(batch) :
             batch[i] = replies'[recvOn][received[recvOn] - Len(batch) + i]
      <4> SUFFICES ASSUME NEW i \in 1 .. Len(batch), NEW n, n = received[recvOn] - Len(batch) + i
                   PROVE  batch[i] = replies'[recvOn][n]
        OBVIOUS
      <4>1. recvOn \in Conns /\ n \in 1 .. Len(replies[recvOn]) /\ batch[i] = replies[recvOn][n]
        BY <2>2, <1>a, <1>b DEF BatchInv
      <4> QED
        BY <4>1, <1>a, ReplyStays
    <3> QED
      BY <2>0, <2>1, <2>2, <3>1 DEF BatchInv
  <2> QED
    BY <2>0, <2>1, <2>2 DEF BatchInv
<1>4. CASE ReaderLoop
  BY <1>4 DEF ReaderLoop, BatchInv
<1> QED
  BY <1>1, <1>2, <1>3, <1>4, Writers

-------------------------------------------------------------------------------
\* The frame dispatched next is a reply to a call that has its answer, has failed, or
\* still has the handler under which the reader now finds it.
LEMMA NoLossStep ==
  ASSUME ~Overlap, Inv, DeliveryInv, [Next]_vars
  PROVE  NoReplyLost'
<1>a. /\ TypeOK /\ recvOn \in Nat /\ batch \in Seq(Message) /\ Len(batch) \in Nat
  BY LenProperties, ClientAssumption DEF Inv, TypeOK, ThreadTypes
<1>b. \A c \in Conns : /\ replies[c] \in Seq(Message) /\ Len(replies[c]) \in Nat
                       /\ received[c] \in Nat /\ received[c] <= Len(replies[c])
  BY <1>a, LenProperties DEF TypeOK, NetTypes
<1>c. promise \in [Calls -> Calls \cup {None}]
  BY <1>a DEF TypeOK, CallTypes
<1> DEFINE Settled(k) == promise[k] # None \/ pc[k] = "failed"
\* What was passed before the step stays settled.
<1>d. ASSUME NEW c \in Conns, NEW i \in 1 .. Dispatched(c), NEW k, k = replies'[c][i].call
      PROVE  i \in 1 .. Len(replies[c]) /\ Settled(k)'
  <2>1. i \in 1 .. Len(replies[c])
    BY <1>d, <1>a, <1>b DEF Dispatched
  <2>2. replies[c][i] \in Message /\ replies'[c][i] = replies[c][i]
    BY <2>1, <1>a, <1>b, ReplyStays, ElementOfSeq
  <2>3. k \in Calls /\ Settled(k)
    BY <1>d, <2>2 DEF DeliveryInv, NoReplyLost, Message
  <2> QED
    BY <2>1, <2>3, PastStays
<1>1. ASSUME \A c \in Conns : Dispatched(c)' = Dispatched(c) PROVE NoReplyLost'
  <2> SUFFICES ASSUME NEW c \in Conns, NEW i \in 1 .. Dispatched(c),
                      NEW k, k = replies'[c][i].call
               PROVE  Settled(k)'
    BY <1>1 DEF NoReplyLost
  <2> QED
    BY <1>d
<1>2. CASE Dispatch
  <2>1. /\ batch # << >> /\ batch' = Tail(batch) /\ reader = "dispatch"
        /\ UNCHANGED <<recvOn, replies, received, pc>>
    BY <1>2 DEF Dispatch, NextFrame, netVars
  <2>2. /\ Len(batch') = Len(batch) - 1 /\ Head(batch) = batch[1]
        /\ Len(batch) # 0
    BY <2>1, <1>a, HeadTailProperties, EmptySeq
  <2>3. /\ recvOn \in Conns /\ Len(batch) <= received[recvOn]
        /\ batch[1] = replies[recvOn][received[recvOn] - Len(batch) + 1]
    BY <2>1, <2>2, <1>a DEF DeliveryInv, BatchInv
  <2> DEFINE n == received[recvOn] - Len(batch) + 1
             k == Head(batch).call
  <2>4. n \in 1 .. Len(replies[recvOn]) /\ Head(batch) = replies[recvOn][n]
    BY <2>2, <2>3, <1>a, <1>b
  <2>5. k \in Calls /\ Begun(k) /\ Head(batch).sid = sid[k]
    BY <2>1, <2>3, <2>4, HandlerOfFrame DEF DeliveryInv, BegunInv, Inv, PeerGenuine, Genuine,
       Message
  <2>6. promise'[k] # None \/ pc'[k] = "failed"
    <3>1. CASE Head(batch).sid \in DOMAIN handlers
      <4>1. handlers[Head(batch).sid] = k
        BY <2>1, <3>1, HandlerOfFrame DEF Inv
      <4>2. promise' = [promise EXCEPT ![k] = k]
        BY <1>2, <3>1, <4>1 DEF Dispatch
      <4> QED
        BY <4>2, <2>5, <1>c, ClientAssumption
    <3>2. CASE Head(batch).sid \notin DOMAIN handlers
      <4>1. ~HandlerThere(k)
        BY <3>2, <2>5 DEF HandlerThere
      <4>2. ~Waiting(k)
        BY <2>1, <2>5, <4>1 DEF DeliveryInv, HandlersStay
      <4>3. pc[k] \in {"idle", "register", "lock", "send", "sendRest",
                       "wait", "giveUp", "ok", "failed"}
        BY <2>5, <1>a DEF TypeOK, CallTypes
      <4>4. promise[k] # None \/ pc[k] = "failed"
        BY <2>5, <4>2, <4>3 DEF Waiting, Registered, Begun, DeliveryInv, BegunInv
      <4> QED
        BY <2>5, <4>4, PastStays
    <3> QED
      BY <3>1, <3>2
  <2>7. Dispatched(recvOn)' = n /\ Dispatched(recvOn) = n - 1
    BY <2>1, <2>2, <2>3, <1>a, <1>b DEF Dispatched
  <2>8. \A c \in Conns \ {recvOn} : Dispatched(c)' = Dispatched(c)
    BY <2>1 DEF Dispatched
  <2>9. ASSUME NEW c \in Conns, NEW i \in 1 .. Dispatched(c)', NEW j, j = replies'[c][i].call
        PROVE  Settled(j)'
    <3>1. CASE c = recvOn /\ i = n
      BY <2>1, <2>4, <2>6, <2>9, <3>1
    <3>2. CASE ~(c = recvOn /\ i = n)
      <4>0. n \in Nat
        BY <2>3, <1>a, <1>b
      <4>1. i \in 1 .. Dispatched(c)
        <5> HIDE DEF n
        <5>1. CASE c = recvOn
          BY <4>0, <5>1, <2>1, <2>7, <2>9, <3>2
        <5>2. CASE c # recvOn
          BY <5>2, <2>8, <2>9
        <5> QED
          BY <5>1, <5>2
      <4> QED
        BY <4>1, <2>9, <1>d
    <3> QED
      BY <3>1, <3>2
  <2> QED
    BY <2>9 DEF NoReplyLost
<1>3. CASE Recv
  <2>1. /\ recvOn \in Conns /\ batch = << >> /\ UNCHANGED recvOn
        /\ \A c \in Conns : c # recvOn => received'[c] = received[c]
    BY <1>3, <1>a, ClientAssumption
       DEF Recv, Read, TypeOK, ThreadTypes, NetTypes, Conns, NoSocket, DeliveryInv, BatchInv
  <2>2. Dispatched(recvOn)' = Dispatched(recvOn)
    <3> DEFINE r == received[recvOn] + 1
    <3>1. PICK upTo \in r .. Len(replies[recvOn]) :
            /\ batch' = SubSeq(replies[recvOn], r, upTo)
            /\ received' = [received EXCEPT ![recvOn] = upTo]
      BY <1>3 DEF Recv, Read
    <3>2. r \in Nat \ {0} /\ upTo \in Nat /\ r = received[recvOn] + 1
      BY <2>1, <1>b
    <3>3. received'[recvOn] = upTo
      BY <2>1, <3>1, <1>a DEF TypeOK, NetTypes
    <3> HIDE DEF r
    <3>4. Len(batch') = upTo - r + 1
      BY <2>1, <3>1, <3>2, <1>b, SubSeqType
    <3>5. Len(batch) = 0
      BY <2>1, EmptySeq
    <3> QED
      BY <2>1, <3>2, <3>3, <3>4, <3>5, <1>b DEF Dispatched
  <2>3. \A c \in Conns : Dispatched(c)' = Dispatched(c)
    BY <2>1, <2>2 DEF Dispatched
  <2> QED
    BY <2>3, <1>1
<1>4. CASE ReaderLoop
  <2>1. batch = << >> /\ batch' = << >> /\ UNCHANGED received
    BY <1>4 DEF ReaderLoop, DeliveryInv, BatchInv, netVars
  <2>2. Len(batch) = 0 /\ Len(batch') = 0
    BY <2>1, EmptySeq
  <2>3. \A c \in Conns : Dispatched(c)' = Dispatched(c)
    BY <2>1, <2>2 DEF Dispatched
  <2> QED
    BY <2>3, <1>1
<1>5. CASE UNCHANGED <<batch, received, recvOn>>
  BY <1>5, <1>1 DEF Dispatched
<1> QED
  BY <1>2, <1>3, <1>4, <1>5, Writers

LEMMA InitDelivery == Init => DeliveryInv
<1> SUFFICES ASSUME Init PROVE DeliveryInv
  OBVIOUS
<1>1. BegunInv
  BY EmptySeq DEF Init, BegunInv
<1>2. HandlersStay
  BY DEF Init, HandlersStay
<1>3. BatchInv
  BY DEF Init, BatchInv
<1>4. NoReplyLost
  <2>1. Len(<< >>) = 0
    BY EmptySeq
  <2>2. \A c \in Conns : Dispatched(c) = 0
    BY <2>1 DEF Init, Dispatched
  <2> QED
    BY <2>2 DEF NoReplyLost
<1> QED
  BY <1>1, <1>2, <1>3, <1>4 DEF DeliveryInv

\* The invariant of delivery, inductive beside Inv.
LEMMA DeliveryHolds == ASSUME ~Overlap PROVE Spec => []DeliveryInv
<1>1. Inv /\ Inv' /\ DeliveryInv /\ [Next]_vars => DeliveryInv'
  BY BegunStep, HandlersStep, BatchStep, NoLossStep DEF DeliveryInv
<1> QED
  BY <1>1, InitDelivery, InvHolds, PTL DEF Spec

\* The reader passes no reply whose call is still without an answer, unless the call
\* has failed: a reply that comes while its call waits reaches it, whatever other
\* replies, timeouts and disconnects come between.
THEOREM RepliesReachTheirCalls == ASSUME ~Overlap PROVE Spec => []NoReplyLost
<1>1. DeliveryInv => NoReplyLost
  BY DEF DeliveryInv
<1> QED
  BY <1>1, DeliveryHolds, PTL
===============================================================================
