----------------------------- MODULE StreamSystem -----------------------------
(***************************************************************************)
(* The streaming client (client.cpp) and the streaming server (server.cpp) *)
(* on one connection.  Threads of the client number their messages per     *)
(* stream and queue them; a writer sends them.  The server's reader queues *)
(* several replies to each, numbered from the request's number, and its    *)
(* writer polls that queue.  The client's reader puts the replies of each  *)
(* stream back in order and shows them.                                    *)
(*                                                                         *)
(* The connection carries whole frames (FrameChannel).  A frame is its     *)
(* stream and its sequence number; payloads and checksums play no part.    *)
(***************************************************************************)
EXTENDS Integers, Sequences, FiniteSets, Functions

CONSTANTS Streams,      \* the stream ids
          Threads,      \* the threads of the client that call sendMessage
          StreamOf,     \* StreamOf[t]: the stream t sends on
          MaxMessages,  \* bound on the messages of a thread
          Replies,      \* replies to a request: 5 in handleFrame
          WordSize,     \* 2^32, the values of a sequence number
          NetCap,       \* frames the two socket buffers of a direction hold
          MayStop       \* may the client call stop() before all is done?

ASSUME StreamAssumption == /\ StreamOf \in [Threads -> Streams] /\ IsFiniteSet(Threads)
                           /\ {MaxMessages, Replies, WordSize, NetCap} \subseteq Nat \ {0}
                           /\ MayStop \in BOOLEAN

VARIABLES
  main,         \* where the client's main thread stands: up, or in stop()
  running,      \* running_ of the client
  sequence,     \* sequence[s]: next_sequence_ of the senders
  thread,       \* thread[t]: "idle", or "push" with a number taken
  number,       \* number[t]: the sequence number t has taken
  messages,     \* messages[t]: the messages t has begun to send
  outgoing,     \* the client's outgoing_frames_
  writer,       \* where the client's writer stands
  writing,      \* the frame it has popped
  toServer,     \* frames on their way to the server
  socket,       \* "open", or "closed" by the client
  reader,       \* where the client's reader stands
  streamQueue,  \* streamQueue[s]: the numbers held in stream_frames[s]
  shown,        \* shown[s]: next_sequence of the reader: replies shown so far
  serverReader, \* where the server's reader stands
  handling,     \* the request it handles
  replied,      \* the replies it has queued for it
  replyQueue,   \* outgoing_frames_ of the StreamManager
  serverWriter, \* where the server's writer stands
  replying,     \* the frame it has popped
  toClient,     \* frames on their way to the client
  clientFd,     \* "open", or "closed" by the server's reader
  server        \* "alive", or "killed" by SIGPIPE

senderVars == <<sequence, thread, number, messages>>
writerVars == <<writer, writing>>
readerVars == <<reader, streamQueue, shown>>
mainVars == <<main, running, socket>>
clientVars == <<senderVars, outgoing, writerVars, readerVars, mainVars>>
sreaderVars == <<serverReader, handling, replied, clientFd>>
swriterVars == <<serverWriter, replying, server>>
serverVars == <<sreaderVars, swriterVars, replyQueue>>
net == <<toServer, toClient>>
vars == <<clientVars, serverVars, net>>

Wrap(n) == n % WordSize
Numbers == 0 .. WordSize - 1
Frame(s, n) == [stream |-> s, sequence |-> n]
NoFrame == << >>

Init == /\ main = "up" /\ running = TRUE /\ socket = "open"
        /\ sequence = [s \in Streams |-> 0]
        /\ thread = [t \in Threads |-> "idle"]
        /\ number = [t \in Threads |-> 0] /\ messages = [t \in Threads |-> 0]
        /\ outgoing = << >> /\ writer = "check" /\ writing = NoFrame
        /\ reader = "check"
        /\ streamQueue = [s \in Streams |-> {}] /\ shown = [s \in Streams |-> 0]
        /\ serverReader = "recv" /\ handling = NoFrame /\ replied = 0
        /\ replyQueue = << >> /\ serverWriter = "poll" /\ replying = NoFrame
        /\ clientFd = "open" /\ server = "alive"
        /\ toServer = << >> /\ toClient = << >>

-------------------------------------------------------------------------------
(* sendMessage: the number is taken under sequence_mutex_, the frame is    *)
(* pushed under mutex_, and another thread may come in between.            *)

NextNumber(n) == Wrap(n + 1)

TakeNumber(t) == LET s == StreamOf[t] IN
    /\ main = "up" /\ thread[t] = "idle" /\ messages[t] < MaxMessages
    /\ number' = [number EXCEPT ![t] = sequence[s]]
    /\ sequence' = [sequence EXCEPT ![s] = NextNumber(@)]
    /\ messages' = [messages EXCEPT ![t] = @ + 1]
    /\ thread' = [thread EXCEPT ![t] = "push"]
    /\ UNCHANGED <<outgoing, writerVars, readerVars, mainVars, serverVars, net>>

\* Seeded fault: cv_.notify_one() is not called.
NoNotify == writer

Notify == IF writer = "wait" THEN "check" ELSE writer

PushFrame(t) ==
    /\ thread[t] = "push"
    /\ thread' = [thread EXCEPT ![t] = "idle"]
    /\ outgoing' = Append(outgoing, Frame(StreamOf[t], number[t]))
    /\ writer' = Notify
    /\ UNCHANGED <<sequence, number, messages, writing, readerVars, mainVars,
                   serverVars, net>>

-------------------------------------------------------------------------------
(* Client::handleWrite.                                                    *)

WriterLoop ==
    /\ writer = "check"
    /\ \/ ~running /\ writer' = "exited" /\ UNCHANGED <<writing, outgoing>>
       \/ running /\ outgoing = << >> /\ writer' = "wait" /\ UNCHANGED <<writing, outgoing>>
       \/ /\ running /\ outgoing # << >> /\ writer' = "send"
          /\ writing' = Head(outgoing) /\ outgoing' = Tail(outgoing)
    /\ UNCHANGED <<senderVars, readerVars, mainVars, serverVars, net>>

\* cv_.wait may return without a notification.
WakeUp == /\ writer = "wait" /\ writer' = "check"
          /\ UNCHANGED <<senderVars, outgoing, writing, readerVars, mainVars, serverVars, net>>

Room(buffer) == Len(buffer) < NetCap

\* send() blocks while the buffers are full.
WriterSend ==
    /\ writer = "send" /\ writer' = "check" /\ writing' = NoFrame
    /\ Room(toServer)
    /\ toServer' = Append(toServer, writing)
    /\ UNCHANGED <<senderVars, outgoing, readerVars, mainVars, serverVars, toClient>>

WriterStep == WriterLoop \/ WriterSend

-------------------------------------------------------------------------------
(* Server::handleRead and handleFrame.                                     *)

Alive == server = "alive"

ServerRecv == /\ Alive /\ serverReader = "recv" /\ toServer # << >>
              /\ serverReader' = "handle"
              /\ handling' = Head(toServer) /\ toServer' = Tail(toServer)
              /\ replied' = 0
              /\ UNCHANGED <<clientVars, replyQueue, swriterVars, clientFd, toClient>>

\* recv() returns 0 when the client has closed its end.
ServerRecvEnd == /\ Alive /\ serverReader = "recv"
                 /\ toServer = << >> /\ socket = "closed"
                 /\ serverReader' = "exited" /\ clientFd' = "closed"
                 /\ UNCHANGED <<clientVars, replyQueue, swriterVars, handling, replied, net>>

\* Seeded fault: replies to successive requests share a number.
OverlappingNumber(n, i) == Wrap(n * (Replies - 1) + i)

ReplyNumber(n, i) == Wrap(n * Replies + i)

\* Seeded fault: the loop makes one turn too many.
OneReplyMore(n) == n <= Replies

RepliesLeft(n) == n < Replies

\* One turn of the loop in handleFrame: sendFrame pushes under the mutex of
\* the StreamManager; its cv_ has no waiter.
QueueReply ==
    /\ Alive /\ serverReader = "handle"
    /\ replyQueue' = Append(replyQueue,
                            Frame(handling.stream, ReplyNumber(handling.sequence, replied)))
    /\ replied' = replied + 1
    /\ IF RepliesLeft(replied') THEN UNCHANGED <<serverReader, handling>>
                                ELSE serverReader' = "recv" /\ handling' = NoFrame
    /\ UNCHANGED <<clientVars, swriterVars, clientFd, net>>

ServerReaderStep == ServerRecv \/ ServerRecvEnd \/ QueueReply

-------------------------------------------------------------------------------
(* Server::handleWrite.  It never ends, not even when client_fd is closed; *)
(* and what becomes of the frame after that nobody looks at.               *)

Poll == /\ Alive /\ serverWriter = "poll" /\ replyQueue # << >>
        /\ serverWriter' = "send"
        /\ replying' = Head(replyQueue) /\ replyQueue' = Tail(replyQueue)
        /\ UNCHANGED <<clientVars, sreaderVars, server, net>>

\* send() on a connection whose other end is closed discards the frame, or
\* raises SIGPIPE, which nobody handles; on a closed descriptor it fails.
ServerSend ==
    /\ Alive /\ serverWriter = "send"
    /\ serverWriter' = "poll" /\ replying' = NoFrame
    /\ \/ /\ clientFd = "open" /\ socket = "open" /\ Room(toClient)
          /\ toClient' = Append(toClient, replying) /\ UNCHANGED server
       \/ clientFd = "open" /\ socket = "closed" /\ server' = "killed" /\ UNCHANGED toClient
       \/ socket = "closed" /\ UNCHANGED <<toClient, server>>
    /\ UNCHANGED <<clientVars, sreaderVars, replyQueue, toServer>>

ServerWriterStep == Poll \/ ServerSend

-------------------------------------------------------------------------------
(* Client::handleRead.                                                     *)

ReaderLoop == /\ reader = "check"
              /\ reader' = IF running THEN "recv" ELSE "exited"
              /\ UNCHANGED <<senderVars, outgoing, writerVars, streamQueue, shown, mainVars,
                             serverVars, net>>

\* The first number from next on that the map lacks.
Gap(queue, next) == CHOOSE n \in next .. WordSize : n \notin queue /\ next .. n - 1 \subseteq queue

Stuck(queue, next) == \E n \in queue : n < next

\* As long as the first frame of the map is the next one, it is shown. The map
\* is ordered by plain comparison: a number below the next one stays in front
\* of all others.
Drain(queue, next) ==
    IF Stuck(queue, next) THEN <<queue, next>>
    ELSE <<queue \ (next .. Gap(queue, next) - 1), Wrap(Gap(queue, next))>>

\* A frame enters the map of its stream, where insert keeps one with the same
\* number; another frame of the same recv() may follow at once. The reader has
\* 256 bytes of buffer and looks at running_ between two parts of a frame, too: here
\* it reads a frame whole, so that the end of running_ leaves no part behind. Nobody
\* looks at that part.
ShowFrame ==
    /\ reader = "recv" /\ toClient # << >>
    /\ toClient' = Tail(toClient)
    /\ \/ reader' = "check"
       \/ Len(toClient) > 1 /\ UNCHANGED reader
    /\ LET s == Head(toClient).stream
           drained == Drain(streamQueue[s] \cup {Head(toClient).sequence}, shown[s])
       IN /\ streamQueue' = [streamQueue EXCEPT ![s] = drained[1]]
          /\ shown' = [shown EXCEPT ![s] = drained[2]]
    /\ UNCHANGED <<senderVars, outgoing, writerVars, mainVars, serverVars, toServer>>

ReaderStep == ReaderLoop \/ ShowFrame

-------------------------------------------------------------------------------
(* Client::stop, called by the main thread once its senders are done.      *)

BeginStop == /\ main = "up" /\ MayStop
             /\ \A t \in Threads : thread[t] = "idle"
             /\ main' = "joinReader" /\ running' = FALSE
             /\ UNCHANGED <<socket, senderVars, outgoing, writerVars, readerVars,
                            serverVars, net>>

JoinReader == /\ main = "joinReader" /\ reader = "exited"
              /\ main' = "joinWriter"
              /\ UNCHANGED <<running, socket, senderVars, outgoing, writerVars, readerVars,
                             serverVars, net>>

\* Seeded fault: the writer is not joined.
WriterLeft == TRUE

WriterEnded == writer = "exited"

\* The writer has no part in the socket any more, and stop() closes it.
JoinWriter == /\ main = "joinWriter" /\ WriterEnded
              /\ main' = "stopped" /\ socket' = "closed"
              /\ UNCHANGED <<running, senderVars, outgoing, writerVars, readerVars,
                             serverVars, net>>

-------------------------------------------------------------------------------
Next == \/ \E t \in Threads : TakeNumber(t) \/ PushFrame(t)
        \/ WriterStep \/ WakeUp \/ ReaderStep \/ ServerReaderStep \/ ServerWriterStep
        \/ BeginStop \/ JoinReader \/ JoinWriter

Spec == Init /\ [][Next]_vars

(***************************************************************************)
(* Every thread keeps running; no thread has to begin a message, the       *)
(* client need not stop, and no wait has to end without a notification.    *)
(***************************************************************************)
Fairness == /\ \A t \in Threads : WF_vars(PushFrame(t))
            /\ WF_vars(WriterStep) /\ WF_vars(ReaderStep)
            /\ WF_vars(ServerReaderStep) /\ WF_vars(ServerWriterStep)

FairSpec == Spec /\ Fairness

-------------------------------------------------------------------------------
Frames == [stream : Streams, sequence : Numbers]

TypeOK ==
    /\ main \in {"up", "joinReader", "joinWriter", "stopped"}
    /\ running \in BOOLEAN /\ socket \in {"open", "closed"}
    /\ sequence \in [Streams -> Numbers] /\ number \in [Threads -> Numbers]
    /\ thread \in [Threads -> {"idle", "push"}]
    /\ messages \in [Threads -> 0 .. MaxMessages]
    /\ {outgoing, replyQueue, toServer, toClient} \subseteq Seq(Frames)
    /\ Len(toServer) <= NetCap /\ Len(toClient) <= NetCap
    /\ writer \in {"check", "wait", "send", "exited"}
    /\ reader \in {"check", "recv", "exited"}
    /\ {writing, handling, replying} \subseteq Frames \cup {NoFrame}
    /\ streamQueue \in [Streams -> SUBSET Numbers] /\ shown \in [Streams -> Numbers]
    /\ serverReader \in {"recv", "handle", "exited"} /\ replied \in 0 .. Replies
    /\ serverWriter \in {"poll", "send"} /\ clientFd \in {"open", "closed"}
    /\ server \in {"alive", "killed"}

\* The messages on stream s, if sent[t] of them are thread t's.
Sent(sent, s) == FoldFunctionOnSet(+, 0, sent, {t \in Threads : StreamOf[t] = s})
Asked(s) == Sent(messages, s)

\* The reorder buffer of a stream is never blocked by a frame whose turn has
\* passed: it holds frames that come later, and the one to come next is still
\* on its way. (A frame at the front with a number already shown would stay
\* there for good, and nothing of the stream would be shown again.)
NoWedge == \A s \in Streams : \A n \in streamQueue[s] :
                n > shown[s] /\ n < Replies * Asked(s)

\* stop() closes the socket when no thread of the client uses it any more.
ClosedAfterThreads == socket = "closed" => reader = "exited" /\ writer = "exited"

\* Every reply to every message is shown, unless the client stops first: also
\* when two threads of a stream take their numbers in one order and push in the
\* other, and whatever little the socket buffers hold.
EveryReplyShown ==
    \A s \in Streams, n \in 1 .. MaxMessages * Replies :
        (main = "up" /\ Asked(s) >= n) ~> (main # "up" \/ shown[s] >= n * Replies)
===============================================================================
