------------------------------ MODULE TcpClient ------------------------------
(***************************************************************************)
(* TcpClient (include/tcp_client.h): many application threads share one    *)
(* connection.  Each call of sendAndWaitResponse registers a handler under *)
(* a fresh stream id, writes its frame under write_mutex_ and waits, with  *)
(* a timeout, for the promise that the reader thread fulfils when a frame  *)
(* with that stream id arrives.  A further thread, the owner, runs         *)
(* connect() and disconnect(), which touch socket_, running_ and the       *)
(* handler map while the calls are under way.                              *)
(*                                                                         *)
(* A frame is written in two parts, a head and a tail: the kernel may take *)
(* a part of the bytes, and the loop in write() then calls send() again on *)
(* whatever socket_ holds by then.  Received bytes are whole reply frames: *)
(* how chunks become frames is the subject of module FrameStream.          *)
(***************************************************************************)
EXTENDS Integers, Sequences

CONSTANTS Calls,       \* the calls of sendAndWaitResponse, one thread each
          MaxConns,    \* bound on the connections opened
          MaxReplies,  \* bound on the reply frames a peer sends on one connection
          SndBuf,      \* parts the two socket buffers hold before send() blocks
          Overlap,     \* may the owner reconnect while a call is in progress?
          None         \* "no value yet" in a promise, "unlocked" of the mutex

ASSUME ClientAssumption == /\ None \notin Calls
                           /\ MaxConns \in Nat /\ MaxReplies \in Nat
                           /\ SndBuf \in Nat \ {0}
                           /\ Overlap \in BOOLEAN

Conns == 1 .. MaxConns
NoSocket == 0                  \* socket_ = -1

VARIABLES
  nextStreamId,  \* next_stream_id_
  pc,            \* pc[k]: where call k stands
  sid,           \* sid[k]: the stream id call k was given
  promise,       \* promise[k]: the call whose answer was set as k's value
  handlers,      \* response_handlers_: stream id -> call whose promise it holds
  writeLock,     \* the call that holds write_mutex_
  socket,        \* socket_: the number of a connection, or NoSocket
  running,       \* running_
  owner,         \* where the thread that connects and disconnects stands
  connNo,        \* connections opened so far
  reader,        \* where the reader thread stands
  recvOn,        \* the socket the reader passed to recv()
  batch,         \* frames parsed and not yet dispatched
  link,          \* link[c]: the state of connection c
  wire,          \* wire[c]: every part the client wrote on c, in order
  readUpTo,      \* readUpTo[c]: how many of them the peer has read
  inbox,         \* inbox[c]: the requests the peer has parsed from c
  replies,       \* replies[c]: every reply the peer wrote on c, in order
  received       \* received[c]: how many of them recv() has returned

ids == <<nextStreamId, sid>>
callVars == <<ids, pc, promise, handlers, writeLock>>
ownerVars == <<socket, running, owner, connNo>>
readerVars == <<reader, recvOn, batch>>
peerVars == <<readUpTo, inbox>>
netVars == <<link, wire, peerVars, replies, received>>
notCall == <<ownerVars, readerVars, netVars>>
vars == <<callVars, ownerVars, readerVars, netVars>>

Part == [call : Calls, sid : Nat, part : {"head", "tail"}]
Message == [sid : Nat, call : Calls]      \* a request, or the reply to it

Idle(k) == pc[k] = "idle"
Returned(k) == pc[k] \in {"ok", "failed"}
Pending(k) == ~Idle(k) /\ ~Returned(k)
Writing(k) == pc[k] \in {"send", "sendRest"}
Registered(k) == pc[k] \in {"lock", "send", "sendRest", "wait", "giveUp"}

Live(c) == link[c] \in {"up", "peerClosed"}

\* std::map::operator[] and std::map::erase on response_handlers_.
WithHandler(s, k) ==
    [t \in DOMAIN handlers \cup {s} |-> IF t = s THEN k ELSE handlers[t]]

\* Seeded fault: nothing is erased.
EraseNothing(s) == handlers

WithoutHandler(s) == [t \in DOMAIN handlers \ {s} |-> handlers[t]]

Init == /\ nextStreamId = 0
        /\ pc = [k \in Calls |-> "idle"]
        /\ sid = [k \in Calls |-> 0]
        /\ promise = [k \in Calls |-> None]
        /\ handlers = [s \in {} |-> None]
        /\ writeLock = None
        /\ socket = NoSocket /\ running = FALSE /\ owner = "out" /\ connNo = 0
        /\ reader = "none" /\ recvOn = NoSocket /\ batch = << >>
        /\ link = [c \in Conns |-> "new"]
        /\ wire = [c \in Conns |-> << >>]
        /\ readUpTo = [c \in Conns |-> 0]
        /\ inbox = [c \in Conns |-> {}]
        /\ replies = [c \in Conns |-> << >>]
        /\ received = [c \in Conns |-> 0]

-------------------------------------------------------------------------------
(* sendAndWaitResponse, one process for each call k.                       *)

Goto(k, from, to) == pc[k] = from /\ pc' = [pc EXCEPT ![k] = to]

\* Seeded fault: the counter is not advanced.
SameId == nextStreamId

NextId == nextStreamId + 1

\* stream_id = next_stream_id_++, an atomic increment.
Start(k) == /\ Goto(k, "idle", "register")
            /\ sid' = [sid EXCEPT ![k] = nextStreamId]
            /\ nextStreamId' = NextId
            /\ UNCHANGED <<promise, handlers, writeLock, notCall>>

Register(k) == /\ Goto(k, "register", "lock")
               /\ handlers' = WithHandler(sid[k], k)
               /\ UNCHANGED <<ids, promise, writeLock, notCall>>

\* Seeded fault: write() does not wait for write_mutex_.
AnyTime == TRUE

WriteMutexFree == writeLock = None

AcquireWrite(k) == /\ Goto(k, "lock", "send")
                   /\ WriteMutexFree
                   /\ writeLock' = k
                   /\ UNCHANGED <<ids, promise, handlers, notCall>>

\* The kernel takes bytes while the two buffers have room; once the peer has
\* closed its end, it takes them and drops them.
Room(c) == \/ link[c] = "up" /\ Len(wire[c]) - readUpTo[c] < SndBuf
           \/ link[c] = "peerClosed"

\* Part of k's frame is copied to whatever connection socket_ names now.
Put(k, part) ==
    /\ socket # NoSocket /\ Room(socket)
    /\ wire' = [wire EXCEPT ![socket] =
                  Append(@, [call |-> k, sid |-> sid[k], part |-> part])]

SendHead(k) == /\ Goto(k, "send", "sendRest")
               /\ Put(k, "head")
               /\ UNCHANGED <<ids, promise, handlers, writeLock, ownerVars,
                              readerVars, link, peerVars, replies, received>>

\* Seeded fault: the mutex is never unlocked.
HoldWriteMutex == UNCHANGED writeLock

ReleaseWriteMutex == writeLock' = None

\* The last bytes are out: write() returns true and releases the mutex.
SendTail(k) == /\ Goto(k, "sendRest", "wait")
               /\ Put(k, "tail")
               /\ ReleaseWriteMutex
               /\ UNCHANGED <<ids, promise, handlers, ownerVars,
                              readerVars, link, peerVars, replies, received>>

\* send() returns an error on -1, on a socket that is not connected and on one
\* that was reset; write() returns false and releases the mutex.  On a socket in
\* ::connect it does so until the handshake has begun, and then waits for its end:
\* the step may be taken, but Fairness does not oblige it.
SendFails(k) == /\ Goto(k, "send", "giveUp") \/ Goto(k, "sendRest", "giveUp")
                /\ socket # NoSocket => ~Live(socket)
                /\ ReleaseWriteMutex
                /\ UNCHANGED <<ids, promise, handlers, notCall>>

\* Seeded fault: the status of wait_for is not looked at.
AnyStatus(k) == TRUE

Ready(k) == promise[k] # None

\* wait_for returns timeout; the handler is still registered.
Timeout(k) == /\ Goto(k, "wait", "giveUp")
              /\ ~Ready(k)
              /\ UNCHANGED <<ids, promise, handlers, writeLock, notCall>>

\* The error path and the timeout path both erase the handler, return false.
GiveUp(k) == /\ Goto(k, "giveUp", "failed")
             /\ handlers' = WithoutHandler(sid[k])
             /\ UNCHANGED <<ids, promise, writeLock, notCall>>

GetResponse(k) == /\ Goto(k, "wait", "ok")
                  /\ Ready(k)
                  /\ UNCHANGED <<ids, promise, handlers, writeLock, notCall>>

CallStep(k) == \/ Register(k) \/ AcquireWrite(k)
               \/ SendHead(k) \/ SendTail(k) \/ SendFails(k)
               \/ Timeout(k) \/ GiveUp(k) \/ GetResponse(k)

-------------------------------------------------------------------------------
(* connect() and disconnect(), run by one owner thread.  connect() on a    *)
(* client whose socket_ is set returns false and changes nothing.          *)

OwnerGoto(from, to) == owner = from /\ owner' = to

\* socket_ holds the new descriptor before ::connect has succeeded.
OpenSocket == /\ OwnerGoto("out", "connecting")
              /\ connNo < MaxConns
              /\ Overlap \/ \A k \in Calls : ~Pending(k)
              /\ connNo' = connNo + 1
              /\ socket' = connNo + 1
              /\ link' = [link EXCEPT ![connNo + 1] = "opening"]
              /\ UNCHANGED <<callVars, running, readerVars, wire, peerVars,
                             replies, received>>

Connected == /\ OwnerGoto("connecting", "in")
             /\ link' = [link EXCEPT ![socket] = "up"]
             /\ running' = TRUE
             /\ reader' = "loop"
             /\ UNCHANGED <<callVars, socket, connNo, recvOn, batch, wire,
                            peerVars, replies, received>>

\* Seeded fault: the descriptor is forgotten and not closed.
LeftOpen(s) == link

Closed(s) == [c \in Conns |-> IF c = s THEN "closed" ELSE link[c]]

ConnectRefused == /\ OwnerGoto("connecting", "out")
                  /\ link' = Closed(socket)
                  /\ socket' = NoSocket
                  /\ UNCHANGED <<callVars, running, connNo, readerVars, wire,
                                 peerVars, replies, received>>

\* disconnect() may be called on a client that is not connected, too.
BeginDisconnect == /\ OwnerGoto("out", "closing") \/ OwnerGoto("in", "closing")
                   /\ running' = FALSE
                   /\ UNCHANGED <<callVars, socket, connNo, readerVars, netVars>>

CloseSocket == /\ OwnerGoto("closing", "joining")
               /\ socket' = NoSocket
               /\ link' = Closed(socket)
               /\ UNCHANGED <<callVars, running, connNo, readerVars, wire,
                              peerVars, replies, received>>

JoinReader == /\ OwnerGoto("joining", "clearing")
              /\ reader \in {"none", "exited"}
              /\ reader' = "none"
              /\ UNCHANGED <<callVars, socket, running, connNo, recvOn, batch, netVars>>

ClearHandlers == /\ OwnerGoto("clearing", "out")
                 /\ handlers' = [s \in {} |-> None]
                 /\ UNCHANGED <<ids, pc, promise, writeLock, socket, running,
                                connNo, readerVars, netVars>>

OwnerStep == CloseSocket \/ JoinReader \/ ClearHandlers

-------------------------------------------------------------------------------
(* handleRead, the reader thread.                                          *)

ReaderLoop == /\ reader = "loop"
              /\ IF running THEN reader' = "recv" /\ recvOn' = socket
                            ELSE reader' = "exited" /\ UNCHANGED recvOn
              /\ UNCHANGED <<callVars, ownerVars, batch, netVars>>

\* Seeded fault: one reply too many is taken for consumed.
ReadOneMore(upTo) == [received EXCEPT ![recvOn] = upTo + 1]

Read(upTo) == [received EXCEPT ![recvOn] = upTo]

\* recv() returns one or more of the replies that have not been read.  It may
\* do so on a socket closed under it, if it was already inside the call.
Recv == /\ reader = "recv" /\ recvOn # NoSocket
        /\ \E upTo \in received[recvOn] + 1 .. Len(replies[recvOn]) :
             /\ batch' = SubSeq(replies[recvOn], received[recvOn] + 1, upTo)
             /\ received' = Read(upTo)
        /\ reader' = "dispatch"
        /\ UNCHANGED <<callVars, ownerVars, recvOn, link, wire, peerVars, replies>>

\* recv() returns 0 or an error: at once on a closed or reset socket, after
\* the last reply when the peer has closed its end in an orderly way.
RecvEnd == /\ reader = "recv"
           /\ recvOn # NoSocket =>
                \/ link[recvOn] \in {"closed", "reset"}
                \/ /\ link[recvOn] = "peerClosed"
                   /\ received[recvOn] = Len(replies[recvOn])
           /\ reader' = "exited"
           /\ UNCHANGED <<callVars, ownerVars, recvOn, batch, netVars>>

NextFrame == /\ batch' = Tail(batch)
             /\ reader' = IF Len(batch) = 1 THEN "loop" ELSE "dispatch"

\* One frame, under response_handlers_mutex_: find, set_value, erase.
Dispatch ==
    /\ reader = "dispatch" /\ batch # << >>
    /\ LET s == Head(batch).sid IN
         IF s \in DOMAIN handlers
         THEN /\ promise' = [promise EXCEPT ![handlers[s]] = Head(batch).call]
              /\ handlers' = WithoutHandler(s)
         ELSE UNCHANGED <<promise, handlers>>
    /\ NextFrame
    /\ UNCHANGED <<ids, pc, writeLock, ownerVars, recvOn, netVars>>

ReaderStep == ReaderLoop \/ Recv \/ RecvEnd \/ Dispatch

-------------------------------------------------------------------------------
(* The peer.  It reads the parts in order and takes two of them for a      *)
(* frame: the stream id stands in the first, the end of the payload in the *)
(* second.  It answers a request any number of times, in any order, as the *)
(* servers of this repository do (one reply in rpc_server.cpp, five in     *)
(* server.cpp), and may go away at any time.                               *)

PeerRead(c) ==
    /\ link[c] = "up"
    /\ readUpTo[c] < Len(wire[c])
    /\ readUpTo' = [readUpTo EXCEPT ![c] = @ + 1]
    /\ inbox' = IF readUpTo[c] % 2 = 0 THEN inbox
                ELSE [inbox EXCEPT ![c] = @ \cup
                        {[sid |-> wire[c][readUpTo[c]].sid,
                          call |-> wire[c][readUpTo[c] + 1].call]}]
    /\ UNCHANGED <<callVars, ownerVars, readerVars, link, wire, replies, received>>

PeerReply(c) ==
    /\ link[c] = "up"
    /\ Len(replies[c]) < MaxReplies
    /\ \E request \in inbox[c] :
         replies' = [replies EXCEPT ![c] = Append(@, request)]
    /\ UNCHANGED <<callVars, ownerVars, readerVars, link, wire, peerVars, received>>

PeerClose(c) ==
    /\ \/ link[c] = "up" /\ link' = [link EXCEPT ![c] = "peerClosed"]
       \/ Live(c) /\ link' = [link EXCEPT ![c] = "reset"]
    /\ UNCHANGED <<callVars, ownerVars, readerVars, wire, peerVars, replies, received>>

-------------------------------------------------------------------------------
Next == \/ \E k \in Calls : Start(k) \/ CallStep(k)
        \/ OpenSocket \/ Connected \/ ConnectRefused \/ BeginDisconnect
        \/ OwnerStep
        \/ ReaderStep
        \/ \E c \in Conns : PeerRead(c) \/ PeerReply(c) \/ PeerClose(c)

Spec == Init /\ [][Next]_vars

\* A send() on a socket that is still connecting may wait until ::connect ends.
Connecting == socket # NoSocket /\ link[socket] = "opening"
RunsOn(k) == (Writing(k) => ~Connecting) /\ CallStep(k)

(***************************************************************************)
(* Every thread keeps running: each call's thread, the reader and, once it *)
(* has begun, disconnect().  ::connect ends, for the kernel gives up a     *)
(* handshake that is not answered.  A peer that stays connected keeps      *)
(* reading.  Nothing obliges the application to call, or the peer to       *)
(* answer or to close.                                                     *)
(***************************************************************************)
Fairness == /\ \A k \in Calls : WF_vars(RunsOn(k))
            /\ WF_vars(Connected \/ ConnectRefused)
            /\ WF_vars(ReaderStep)
            /\ WF_vars(OwnerStep)
            /\ \A c \in Conns : WF_vars(PeerRead(c))

FairSpec == Spec /\ Fairness

-------------------------------------------------------------------------------
CallTypes ==
    /\ nextStreamId \in Nat
    /\ pc \in [Calls -> {"idle", "register", "lock", "send", "sendRest",
                          "wait", "giveUp", "ok", "failed"}]
    /\ sid \in [Calls -> Nat]
    /\ promise \in [Calls -> Calls \cup {None}]
    /\ DOMAIN handlers \subseteq Nat /\ handlers \in [DOMAIN handlers -> Calls]
    /\ writeLock \in Calls \cup {None}

ThreadTypes ==
    /\ connNo \in 0 .. MaxConns /\ socket \in 0 .. connNo /\ recvOn \in 0 .. connNo
    /\ running \in BOOLEAN
    /\ owner \in {"out", "connecting", "in", "closing", "joining", "clearing"}
    /\ reader \in {"none", "loop", "recv", "dispatch", "exited"}
    /\ batch \in Seq(Message)

NetTypes ==
    /\ link \in [Conns -> {"new", "opening", "up", "peerClosed", "reset", "closed"}]
    /\ wire \in [Conns -> Seq(Part)]
    /\ readUpTo \in [Conns -> Nat]
    /\ inbox \in [Conns -> SUBSET Message]
    /\ replies \in [Conns -> Seq(Message)]
    /\ received \in [Conns -> Nat]
    /\ \A c \in Conns : /\ readUpTo[c] <= Len(wire[c])
                         /\ received[c] <= Len(replies[c])
                         /\ Len(replies[c]) <= MaxReplies

TypeOK == CallTypes /\ ThreadTypes /\ NetTypes

\* A call never receives the answer to another call: the stream id written into
\* the frame, kept by the peer and looked up by the reader leads back to the
\* caller, whatever the order and the number of the answers, late ones included.
AnswerIsOwn == \A k \in Calls : promise[k] \in {None, k}

\* The handler map holds calls that are still in progress and nothing else: no
\* way out of sendAndWaitResponse leaves a handler behind (answered, refused
\* write, timeout), and none is erased on behalf of another call.
HandlersOfOpenCalls ==
    \A s \in DOMAIN handlers : sid[handlers[s]] = s /\ Registered(handlers[s])

\* set_value is called at most once on a promise, so the reader thread never
\* dies of a future_error when the peer sends a second reply to a request or
\* the reply crosses the timeout.
SetValueOnce == \A s \in DOMAIN handlers : promise[handlers[s]] = None

\* The bytes written on a connection are whole frames one after the other: no
\* frame is cut off by another call's, and none is continued on a connection
\* other than the one it began on.  (The last frame may still be incomplete.)
WholeFrames ==
    \A c \in Conns : \A i \in 1 .. Len(wire[c]) :
        IF i % 2 = 1 THEN wire[c][i].part = "head"
        ELSE wire[c][i] = [wire[c][i - 1] EXCEPT !.part = "tail"]

\* The reader drops no reply that someone waits for: once it has gone past a
\* reply, the call it answers has its value, or had timed out before.
Dispatched(c) == received[c] - (IF c = recvOn THEN Len(batch) ELSE 0)

NoReplyLost ==
    \A c \in Conns : \A i \in 1 .. Dispatched(c) :
        \/ promise[replies[c][i].call] # None
        \/ pc[replies[c][i].call] = "failed"

\* Every call returns, whatever the peer answers and whenever the owner
\* disconnects, as long as a connected peer keeps reading.
EveryCallReturns == \A k \in Calls : Pending(k) ~> Returned(k)

\* disconnect() comes back: closing the socket gets the reader out of recv(),
\* and a reader in the middle of a batch needs nothing disconnect() holds.
DisconnectReturns == owner = "closing" ~> owner = "out"

-------------------------------------------------------------------------------
(* What this machinery is for: it implements RpcCalls.                     *)

Outcome == [k \in Calls |-> CASE Idle(k) -> "idle"
                               [] Returned(k) -> pc[k]
                               [] OTHER -> "pending"]
Result == [k \in Calls |-> IF pc[k] = "ok" THEN promise[k] ELSE None]
Answered == {k \in Calls : \E c \in Conns : \E i \in 1 .. Len(replies[c]) :
                              replies[c][i].call = k}

RC == INSTANCE RpcCalls WITH outcome <- Outcome, result <- Result,
                             answered <- Answered

\* Seen from its callers, the client is the abstract RpcCalls: a call that
\* returns true was answered by the peer and returns its own answer, and a call
\* that has returned never changes its mind.
ImplementsRpcCalls == RC!Spec
===============================================================================
