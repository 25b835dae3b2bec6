# Models and proofs of tcpTest

TLA+ models of the TCP programs of this repository, checked with TLC on small
instances, and proofs about them checked with TLAPS for every instance.
`PROJECT.json` lists the runs, which definition models which lines, the known
hazards with the properties that look after them, and the theorems. Paths below
are relative to `src/`.

## The system

Four programs and a few headers.

| component | source | state | operations | interacts with |
|---|---|---|---|---|
| Frame, FrameParser | `include/frame.h` | none between calls | `serialize`, `deserialize`, `calculateChecksum`, `verifyChecksum`, `processData` | called by every reader and writer below |
| TcpClient | `include/tcp_client.h`, used by `src/rpc_client.cpp` | `socket_`, `running_`, `next_stream_id_`, `response_handlers_`, two mutexes, the reader thread, a promise per call | `connect`, `disconnect`, `sendAndWaitResponse` | many calling threads, one reader thread, one owner; frames over a connection |
| TcpServer | `include/tcp_server.h`, used by `src/rpc_server.cpp` | `clients_` and a ClientHandler each (two threads, a queue, a condition variable), `running_`, the listening socket, three service threads | `start`, `stop`, `response`, the accept loop, the handlers' reader and writer | the request callback of the application calls back into `response` |
| FrameHandler | `include/frame_handler.h` | a frame buffer | `createFrame`, `processIncomingData` | base class of TcpServer; nothing calls its `processIncomingData` |
| StreamProcessor (in TcpServer) | `include/tcp_server.h:268-337` | a queue and a thread per stream | `addFrame`, `processLoop`, removal by `cleanupInactiveStreams` | fed by `TcpServer::processIncomingData`, which nothing calls |
| TcpConnection | `include/tcp_connection.h` | a descriptor that stays -1 (TcpServer has its own) | socket options | base class of TcpServer |
| streaming client | `client.cpp` | outgoing queue, sequence numbers per stream, reorder buffer | `connect`, `sendMessage`, `stop`, reader, writer | streaming server |
| streaming server | `server.cpp` | an outgoing queue per connection | accept loop, detached reader and writer per connection | streaming client: five replies per request |
| RpcProvider | `include/rpc_provider.hpp` | map of functions with a timeout each, a task per call | register, call with timeout, `set_timeout` | a task of `std::async` refers to its caller's frame; no program calls it |
| HTTP/2 server | `src/http_server.cpp` | per session: a body per stream, a string per response | nghttp2 callbacks, one connection at a time | nghttp2, one client after the other |
| json | `include/json.hpp` | | vendored library | RpcProvider |
| tests | `tests/frame_test.cpp` | | disabled in `CMakeLists.txt` | Frame, TcpClient, a server on port 8080 |

What is hard in it, and what makes each part correct:

* **TcpClient.** Callers, reader and owner share the handler map, the promises
  and the socket. A reply may come before the caller waits, after it has given
  up, twice, or in between timeout and erase; the socket may change under a
  write. Correct means: a call returns its own answer or fails, the map holds
  open calls only, a promise is set once, frames are whole on the wire, a reply
  is not dropped while someone waits for it, and every call and `disconnect()`
  comes back.
* **TcpServer.** A handler's threads run before the handler is in the map; a
  reader removes its own handler; `stop()` races with accept, construction and
  requests. Correct means: every request is answered once and in order, no
  writer sleeps on work, `stop()` leaves nothing behind, and the server outlives
  its clients.
* **Framing.** `recv()` cuts the stream anywhere. Correct means: exactly the
  whole frames come out, in order, and damage is noticed.
* **Streaming client and server.** Reordering, a shutdown that waits for
  threads nobody wakes, a descriptor used after it was closed.
* **Stream processors.** A cleaner removes processors that only the map refers
  to, while threads look them up, hold them and fill their queues. Correct means:
  one worker per stream, no frame for a processor that is being destroyed, order.
* **FrameHandler.** Its loop parses one buffer several times over.
* **RpcProvider.** The function refers to the frame of a caller that may time
  out. Correct means: the frame outlives it, arguments reach their parameters,
  errors are true, calls end.
* **HTTP/2 server.** Streams interleave, bodies and responses come in pieces, a
  callback sends, a string is deleted behind a C interface, one connection at a
  time. Correct means: bodies intact, answers whole, the string lives as long as
  it is read, the server comes back from every client.

## Modules

| module | what it is |
|---|---|
| `RpcCalls` | abstract: what `sendAndWaitResponse` promises its callers |
| `TcpClient` | the client, its peer and its connections |
| `TcpClientProofs` | its inductive invariant and theorems |
| `TcpClientDeliveryProofs` | no reply is dropped: a second invariant on top of the first |
| `MCTcpClient` | instance for TLC |
| `TcpServer` | the server under the echo application, its clients |
| `TcpServerProofs` | its inductive invariant and theorems |
| `MCTcpServer` | instance for TLC: symmetry of the clients |
| `StreamProcessors` | the server's stream processors, their cleaner, the part of `stop()` about them |
| `StreamProcessorsProofs` | who refers to a processor; where each frame is, and the order of frames |
| `FrameCodec` | Frame and FrameParser as functions on byte sequences |
| `FrameChannel` | abstract: whole frames in order, what framing promises |
| `FrameStream` | a writer, a byte stream that is cut and may break, the receive loop |
| `FrameHandler` | the other receive loop, a function of buffer and chunk, over `FrameStream` |
| `FrameStreamProofs` | what the parser computes, both receive loops, the refinement of `FrameChannel`, the checksum |
| `MCFrameStream` | instance of `FrameHandler` for TLC: the payloads |
| `StreamSystem` | the streaming client and server on one connection |
| `StreamSystemProofs` | types; where each request and reply is, and the reorder buffer; `stop()` closes its socket last |
| `MCStreamSystem` | instance for TLC: which thread sends on which stream |
| `RpcProvider` | registration, conversion of arguments, the call, its task and its timeout |
| `RpcProviderProofs` | task and frame, errors and causes, arguments and their types |
| `MCRpcProvider` | instance for TLC: signatures and requests |
| `Http2Server` | the HTTP/2 server, nghttp2 by its callbacks, clients |
| `Http2ServerProofs` | the body of a request, the string behind a response |

Operators under a comment "Seeded fault" are wrong variants of the definition
that follows them. No model uses them; `PROJECT.json` ("mutants") says which
property notices each when it is put in that definition's place.

### TcpClient

Each call is a process: `Start` (the atomic increment of `next_stream_id_`),
`Register`, `AcquireWrite`, `SendHead` and `SendTail` or `SendFails`, then
`GetResponse`, or `Timeout` and `GiveUp`. A frame has two parts since `send()`
may take a part of the bytes: the loop in `write()` then reads `socket_` again,
which is where a reconnect can tear a frame in two. The parts are enough: which
byte the cut falls on makes no difference to what is stated. `Timeout` and
`GiveUp` are two steps, as in the code the lock is taken in between; `Dispatch`
is one step, for find, `set_value` and erase are under one lock.

The owner runs `connect()` (`OpenSocket`, then `Connected` or `ConnectRefused`)
and `disconnect()` (four steps). The constant `Overlap` says whether it may
open a new connection while a call is in progress. The applications in the tree
never do; no document forbids it. With `Overlap`, `WholeFrames` fails: the head
of a frame can go to one connection and the tail to the next. That is listed as
a hazard and not as a finding, for want of a sentence that promises otherwise.
`disconnect()` may overlap calls in the run, too.

A connection is a `link` state, the parts written (`wire`), the requests its
peer has parsed (`inbox`), and the replies (`replies`, of which `received` have
been read). The peer answers any parsed request, any number of times: this
covers the echo of `rpc_server.cpp` and the five replies of `server.cpp`. It
may close in an orderly way or reset. `SndBuf` is the room in the two socket
buffers: a `send()` blocks when the peer does not read. `connect()`
on a client that has a socket, and `inet_pton` failing, change nothing that the
model keeps; a failure to create a thread or a socket is not modelled. `socket_` is
set before `::connect` is done: a `send()` on it fails, or waits until `::connect`
ends, and the model has both (`SendFails`, to which nothing obliges a call while the
socket is `Connecting`).

`RpcCalls` has three variables, mapped by `RC`: the outcome of each call, its
result, and who has been answered by the peer.

### TcpServer

`Construct` and `Insert` are two steps that hold `clients_mutex_` between them,
since the new threads run in between; `response()` (inside `Handle`) takes the
same mutex, and that is what saves the request that arrives early. The callback
of `rpc_server.cpp` answers each request, so a response is named by its request.
`WriterLoop` is a whole turn under `write_mutex_`: leave, wait, or take the
queue; that the look at the queue and the beginning of the wait are one step is the
mutex' doing, which `write()` holds to push and to notify. (`ClientHandler::stop`, which would
clear its flag without the mutex, has no caller.) `Leave` is `handleClientDisconnect`, run by the reader itself: the handler
has no destructor of its own, so erasing it destroys two joinable threads. The
outcomes the build can produce are: termination, or, before that, a block in the
destructor of the condition variable the writer waits on, with the mutex held.
`DestroyClients`, the end of `stop()`, has the same outcomes.

`Connect`, `Request` and `Close` are the clients. A client keeps reading, so that
a send succeeds until it closes; a client that reads nothing would only block its
own writer. `MayClose`, `MayStop` and `Faults` switch on what ends a run of the
server: with the two defects below, nothing that is interesting in the long run
remains true of a server that clients leave.

Not in the model: the disconnect queue (no caller of `scheduleClientDisconnect`),
a connect callback (no program sets one), `bind` or `listen` failing, `start()` a
second time. The stream processors have a module of their own, for no program
gives them frames (below).

### StreamProcessors

`TcpServer::processIncomingData` has no caller; its feeders stand for the threads
of clients that would call it, one thread per client. A feeder finds or makes the
processor of its stream (`Find`, under `stream_processors_mutex_`), queues its
frame without the mutex (`Add`), and drops its `shared_ptr` (`Release`). `holds`
and `map` are the references that `use_count()` counts. Whoever drops the last
one runs the destructor: `Destroy`, then a join (`FeederJoins`, `CleanerJoins`,
`ClearOne`). The destructor does not take `queue_mutex`, so its notification may
fall between the worker's test of `running` (`WorkerLoop`) and its wait (`Look`); the
100 ms of `wait_for` are what saves the join, as `WaitTimesOut`.

The cleaner holds the mutex from its look at the counts to the last erase.
`stop()` clears the map before it clears `clients_`, so feeders may still come
between the two (`Begin` until `main = "stopped"`): a processor made then survives
in the map, which is why `OneWorkerPerStream` and `FramesInOrder` are about a
running server. Whatever is in the queue of a processor that ends goes with it;
`dropped` records that. The 60 s of the cleaner are one step.

### FrameCodec, FrameChannel, FrameStream

The code's bytes have 256 values and its fields 4 bytes. Both are parameters,
`Base` and `FieldBytes`, so that a run meets fields of more than one byte, a
length in its low byte or its high byte, and a checksum that wraps. `FieldAt` and `Field` are the shifts
and masks. `ProcessData` recurses over the offset as the loop in `processData`
does. The branch that skips a byte after an exception is not there: `deserialize`
is called with exactly the bytes it needs and never throws. Size arithmetic is
in `size_t`, 64 bits wide, and does not wrap.

`FrameStream` has the loop that `TcpClient::handleRead` and
`ClientHandler::handleRead` share. `Break` cuts the bytes under way anywhere.
It implements `FrameChannel`, and that is what the other modules assume when
they speak of whole frames: `TcpClient` of replies, `TcpServer` of requests.

### FrameHandler

`processIncomingData` of `frame_handler.h` is a function of the buffer and the
new data, evaluated in every state of `FrameStream` on the bytes under way there.
Its loop does not cut the buffer between its turns: it parses all of it again and
adds up what was consumed, until that reaches the size of the buffer. Whole
frames alone are handed on once, and a part of one frame waits
(`WholeDataHandledOnce`); a whole frame with a part of another is handed on several
times and `erase` then goes past the end, which the function shows as `defined`.
No class in the tree calls it, and no sentence says what it should do with such
data, so there is no finding about it. The limits of 10 MB and 1000
turns are parameters, 40 bytes and 3 turns in the run.

### StreamSystem

`client.cpp` and `server.cpp` composed over one connection of whole frames, with
room for `NetCap` of them in each direction. A frame is its stream and number.
`TakeNumber` and `PushFrame` are two steps, under two mutexes in the code, so
that two threads of one stream can push in the wrong order; the reorder buffer
is what makes up for it. `Drain` is the loop over the ordered map, by its result: the
loop shows and erases frames up to the first number that the map lacks (`Gap`), and
nothing when a number below the next one stands in front (`Stuck`). `QueueReply` is
one turn of the loop in `handleFrame`. `ShowFrame` reads a frame whole; the code reads
256 bytes and looks at `running_` after each, so that it may also leave between two
parts of a frame. Nobody reads what is left then, and no property speaks of it. `Poll` and `ServerSend` are the writer that
never ends. `send()` on either side has no error handling; the server's raises
SIGPIPE when the client has gone. `stop()` is `BeginStop`, `JoinReader` and
`JoinWriter`: it may hang, as in the code, since a reader in `recv()` and a writer
on `cv_` are not woken. `main` calls it when its senders are done, so `BeginStop`
waits for them.

Numbers are `% WordSize`. The runs stay below it: past it the map's order and the
order of the numbers part ways, after 2^32 / 5 messages in the code.

Not in the model: the accept loop and further connections (a descriptor that is
closed by the reader and used by the writer may name another client by then),
checksums (`--checksum` on one side only makes the client drop everything), a
`connect()` that fails.

### RpcProvider

A call is the sequence `Lookup`, a `Convert` for each parameter, `Launch`, then
`GetResult`, or `Timeout` and `Unwind`. `Unwind` is the destructor of the future
that `std::async` returned, run while the exception leaves: it waits for the
task. The task refers to `ordered_args` in the caller's frame and to the map
entry.

Arguments are JSON values with a kind and a value. `Kinds` is what the conversions of
`json.hpp` accept, `Scalar` and `Vector` what they make of it by `static_cast`.
Numbers that need not be whole are counted in units of `1 / Unit`, with `2^1074` for
`Unit` every double is whole; `FloatValues` and `DoubleValues` are the finite sets of
numbers that the types have. An integer that an `int` or a `long` cannot hold is narrowed without a
check (`Narrow`); a fraction is cut (`Cut`), and a double beyond the range is undefined
and gives any value (`Integral`); what a `float` or a `double` does not have is
rounded to a nearest value (`Nearest`), `float` beyond its range to infinity. Which of two equally near
values is taken is left open. NaN and infinite arguments, which JSON text cannot hold,
are left out.

So `ArgumentsAsSent` cannot say that every number arrives: it says that a number which
its type has arrives unchanged, elements of vectors too, and that in place of any other within
the range of the type a value arrives with no value of the type between the two. Of numbers
beyond the range it says nothing.

`functions_` has no lock. `Register` is allowed where no call reads the map and
no call under way uses that name: an application that does otherwise has a
data race or pulls the entry away under a task, and none in the tree does either.
A registration with another number of names than parameters throws ARGUMENT_ERROR
(`include/rpc_provider.hpp:158`) before anything has changed, and is left out:
`Signatures` have one name for each type.
Time is left out: a wait may end at any moment while the function runs, so
`set_timeout`, which changes a duration, has nothing to change.

### Http2Server

`main` of `http_server.cpp` is one thread: `Accept`, `Read`, the pieces of the
input one by one (`Process`), `nghttp2_session_send` (`SessionSend`) after the
settings, inside a callback and after the input, `Cleanup`. nghttp2 is modelled by
what its interface says of the callbacks: a DATA frame's payload arrives in chunks
as `read()` cut it (`OnChunk`), its end as a frame (`OnDataEnd`), other frames do
nothing here (`OnOther`). The response is a header frame and `Parts` parts, each
of which needs credit (`PackData`); the data provider deletes its string with the
last. `Write` blocks while the client does not read; a `write()` that takes a part of
the bytes is not a step, since nghttp2 calls back for the rest and an item counts as written
with its last byte; to a client that has gone it
succeeds, fails or raises SIGPIPE.

Clients open streams, cut their bodies anywhere, end them in DATA, trailers or
headers, grant credit piece by piece, reset streams, speak something else, close
or reset the connection.

Taken as it works, without a promise from nghttp2: `session_send` called inside a
callback. Left out: `nghttp2_submit_response` failing, headers' contents. A
request without a chunk of body, or that ends in trailers or headers, is never
answered, and a reset stream leaves its body and its string behind until the
session ends, or for good; both are in the model and neither is
contradicted by a document.

## Runs

| run | instance | distinct states | shows |
|---|---|---|---|
| `client_reconnect` | 2 calls, 2 connections in a row, 2 replies, buffers of 2 parts | 266 000 | all safety properties, the proofs' invariant `Inv`, refinement of `RpcCalls`, `EveryCallReturns`, `DisconnectReturns` |
| `server_safety` | 2 clients, 2 requests each; closes, stop and faults | 685 000 | the proofs' invariant `Inv`, `EchoInOrder`, `NoLostWakeup`, `QuiescentAfterStop` |
| `server_liveness` | 2 clients, 2 requests each; stop | 89 000 | `RequestsAnswered`, `StopJoinsEveryThread` |
| `server_disconnect` | 1 client that may close | violation | finding 1 |
| `server_stop` | 1 client, stop | violation | finding 2 |
| `stream_processors` | 2 feeders, 1 stream, 2 frames each, 2 processors | 103 000 | `OneWorkerPerStream`, `HeldIsActive`, `FramesInOrder`, `FramesAccounted`, `FramesHandled`, `StopEnds` |
| `frame_stream` | 3 frames of 3 payloads, fields of two binary digits, checksum on, any cut and break | 14 800 | `ParsedExactly`, `ChangedPayloadFails`, `WholeDataHandledOnce`, refinement of `FrameChannel`, `EveryFrameArrives` |
| `frame_checksum_off` | 1 frame, bytes of 4 values, checksum off as in the source | violation | finding 3 |
| `stream_system` | 3 threads on 2 streams, a message each, 2 replies, buffers of 2 | 66 000 | `NoWedge`, `ClosedAfterThreads`, `EveryReplyShown` |
| `http2_server` | 1 client, 2 streams, 2 chunks, 2 parts, credit of 1, buffers of 2 | 754 000 | `BodyIntact`, `BufferOutlivesReads`, `AnsweredWhole`, `ServerMovesOn` |
| `rpc_provider` | 2 calls, 2 names, 4 signatures, 6 requests, `int` of 4 values and `long` of 8, 9 floats, 15 doubles, halves for units | 337 000 | `TaskWithinCall`, `ArgumentsAsSent`, `ErrorsNameTheirCause`, `EveryCallEnds` |
| `rpc_timeout` | 1 call | violation | finding 4 |

Why these bounds. A duplicate, a reply out of order and a late one need two
calls and two replies; a stale socket, handler or reply needs a second
connection; a third of anything is covered by the proofs, which bound nothing.
`SndBuf = 2` blocks the second frame while the peer has not read the first. Two
clients of the server contend for `clients_mutex_` and one leaves while the other
is served; two requests are what a lost wakeup and a disorder need, and a chunk of
two. Two feeders share a processor or keep it from the cleaner; two processors are
a removal and what comes after it, the second one is made after `stop()` has begun
in some behaviours; one stream, since streams share only the mutex and the
proof is for any number. Three frames put a whole frame before and after the
one that is cut. Two replies instead of five, and two threads on a stream, give
every order that the reorder buffer must undo; a third thread on a stream of its
own shares the queues and the buffers. Two streams of HTTP/2 interleave; two chunks
are cut between or within; two parts with one credit leave the response half sent
when the callback returns, so that a later WINDOW_UPDATE has to finish it. With one
client the return to `accept()` is checked, not what the next one finds there;
`Cleanup` resets all that a session keeps. Two calls of the provider are one
under way while another reads the map or times out; the signatures and requests
hold each kind of conversion and of fault, in the first and in the second place: a number
that fits, one that is narrowed, cut, rounded (with and without a tie) and undefined.

Deadlock is checked in the client's run. It is off for the server, where
everything rests when the clients are done or the process has ended; for the
frames, where the stream ends; for the streaming programs, whose `stop()` hangs; for
the stream processors and the provider, where all work may be done, and for the
HTTP/2 server, which then waits in `accept()` or `read()`.

### Fairness

Weak fairness of each thread, which is what the operating system's scheduler
gives to a thread that can run: each call, the reader, `disconnect()` once it
has begun; in the server the accept thread, each reader and writer, the two
service threads and `stop()`; the threads of the streaming programs; the workers,
feeders and `stop()` of the stream processors; the caller's threads of the
provider; the one thread of the HTTP/2 server. A condition variable may wake
without a notification (`WakeUp`), but never has to; a `wait_for` ends when its
time is over (`WaitTimesOut` in a worker's step, `Timeout` of a call). The cleaner of
stream processors finishes what it has begun, but its 60 s have to end only once
the server stops: no property rests on a removal that may come any time later.
In the client, `::connect` ends, since the kernel gives up a handshake that nobody
answers, and a peer that stays connected keeps reading (without it a
blocked `send()` holds `write_mutex_` for good, and the timeout of a call does not
cover that); an HTTP/2 client that stays reads what it is sent. Mutexes are given
by weak fairness only. Nothing obliges a peer to answer, to connect, to send, to
grant credit or to close, a function of the provider to end,
the application to call or to stop.

### Findings

1. `server_disconnect`: the first client that leaves ends the server
   (`include/tcp_server.h:389`), where `tests/frame_test.cpp` connects one client
   after the other.
2. `server_stop`: `stop()` with a client connected ends the process
   (`include/tcp_server.h:105`) instead of cleaning the clients up.
3. `frame_checksum_off`: `Frame::enable_checksum` is false and no test sets it, so
   the assertion of `tests/frame_test.cpp:54` does not hold.
4. `rpc_timeout`: the wait "with a timeout" of `include/rpc_provider.hpp:239` does
   not end with it: the destructor of the future waits for the function
   (`include/rpc_provider.hpp:240`). The same wait is what makes `TaskWithinCall` true.

## Proofs

The proofs assume what the modules' named ASSUMEs say of the constants:
their types, that there are finitely many threads of the streaming client, that
JSON integers are integers and that floats and doubles are whole numbers of units, 0 among
them and the finite floats between the infinities, that `None` is none of the values it stands
beside. Three hypotheses more are stated where they are used:

* `~Overlap` in those theorems of the client that need it (below);
* `EnableChecksum` in `ChecksumsCatchAByte`: the source has it off (finding 3), and
  an application may switch it on;
* `RepliesFit` in `ReorderBufferNeverBlocked`: no stream has as many replies as there
  are sequence numbers, 2^32 in the code. It holds of the run (4 replies, 16 numbers),
  and of the programs up to 2^32 / 5 messages on a stream. Without it the theorem would be wrong.

`PROJECT.json` lists the theorems. Every safety property that a passing run checks
is the subject of one.

Induction is used on numbers and lengths. The theorems of the library that take
an operator cannot be instantiated by the installed provers, so `FrameStreamProofs`
proves its own, about a set instead of a predicate: `Least` (from `WFMin` and
`NatLessThanWellFounded`: every set of numbers that is not empty has a least
element) and `Induction`. With them a recursive function is shown to exist, length by
length, and so are the folds of the community modules, which are such functions.

### The client

`TcpClientProofs` proves, for every set of calls and every bound: `TypeCorrect`,
`NoHandlerLeaks`, `SetValueNeverThrows` of every client, reconnects during calls
included; `FramesStayWhole`, `InvHolds`, `AnswersAreOwn`, `Refinement` assuming
`~Overlap`. No run has `Overlap`: those three theorems are all that is claimed of it.
The inductive invariant `Inv` has these parts.

* `HandlerInv`: a handler belongs to an open call, under the call's own id, and
  its promise is unset. It says besides that a call which has not registered yet
  has no value: a handler must be fresh when it enters the map. No uniqueness of
  the ids is needed, since a call removes what stands under its own id.
* `StreamIds`: ids of calls under way differ and are below the counter.
* `LockInv`: a call that writes holds `write_mutex_`, and no other does.
* `FrameInv`: the wire is whole frames; only the live current connection may end
  in a head, and then some call is about to send the tail and the last part is
  its own. This is the part that needs `~Overlap`: `OpenSocket` must not
  happen under a call in `sendRest`, while `CloseSocket` may.
* `WireGenuine`, `PeerGenuine`: what is on the wire, in the peer's inbox and in
  its replies carries the id of the call it names. The peer takes the id from
  one part and the end of the payload from the next, so that this needs
  `FrameInv` for the pair to belong together.
* `ReaderInv`: what the reader holds, or has set, was sent by the peer.
* `AnswerIsOwn` then follows: the handler found under a reply's id is of a call
  with that id, and `StreamIds` makes it the one the reply answers.

`Refinement` maps `Start` to `Begin`, `PeerReply` to `Answer` or a stutter,
`GetResponse` to `Succeed` (by `AnswerIsOwn` and `ReaderInv`), `GiveUp` to `Fail`,
and every other step to a stutter.

`TcpClientDeliveryProofs` proves `RepliesReachTheirCalls` with `DeliveryInv` beside
`Inv`. `BegunInv`: whatever is on the wire or comes back names a call that has
registered its handler, so that there is something to find. `HandlersStay`: as long
as there is a reader, the handler of a waiting call is in the map, since
`disconnect()` clears the map after the reader has ended and the next connection is
opened when no call is in progress (`~Overlap`). `BatchInv`: what the reader holds
is the interval of the replies it has read last, in order. From the three, a
reply that has been read either is still to be dispatched, or was dispatched when its
handler was there, or its call had already given up.

### The server

`ServerInvariant` (`TcpServerProofs`), for any clients and requests, with closes,
`stop()` and faults. `EchoInOrder` and `NoLostWakeup` are part of it, and lean on:
`ReaderInv` (what is handled has been received, what is received has been sent),
`WriterInv` (the writer's own data is empty but while it sends), `AcceptInv` (a
handler has nothing before it is constructed, and while the accept thread holds
`clients_mutex_` between construction and insertion its reader has got nowhere
past `response()`), and `StopInv` (`stop()` is past a join only when the thread has
ended), from which `QuiescentAfterStop` follows.

### Framing

`FrameStreamProofs` is about fields and bytes of any size, any payloads, any cut of the
stream and a break anywhere. It goes from numbers to the loop. A number below
`Base^FieldBytes` is its digits, so that `Deserialize` gives back what `Serialize`
was given, whatever follows it. A stream of frames is the one frame after the other,
described by where each of them ends (`StreamOf`); `ProcessData` on a buffer that
holds a beginning of such a stream gives the frames that end in it and the number of
their bytes (`ParseExists`, `ParsePiece`), by induction on the length and on the number of frames.

The inductive invariant is then short (`FramingInv`): the types, and that the
frames handed on, then the buffer, then the bytes under way make up the bytes
written (or, after a break, a beginning of them), where the buffer holds no whole
frame. `FramesParsedExactly` is that invariant. For `StreamImplementsChannel`, `Write` maps to
`FrameChannel`'s `Write`, `HandleRead` to `Deliver` if it hands anything on, and the
rest to stutters. `ChecksumsCatchAByte` compares two sums that differ in one
summand by less than `Base`: they differ modulo `Base^FieldBytes`, wrap or not.
For
`WholeFramesHandledOnce`: in both cases of the property the first turn of `FrameHandler`'s
loop consumes all of its buffer, or nothing of it.

### The stream processors

`HeldStaysActive` and `OneWorker` rest on who holds `stream_processors_mutex_`
(`LockInv`), on the map having at most one processor that is being destroyed, by
that holder (`MapInv`), on nobody referring to what the cleaner is about to remove
(`CleanInv`: a feeder would need the mutex to find it), and, while the server runs,
on every processor that is held or has a worker at work being in the map
(`HoldInv`, `WorkInv`).

`FrameInvariant` adds where each frame is. `PlaceInv`: a frame that was added stands in
one queue, or is in one worker's hands, or was handled, or was dropped with its
processor, and only one of these; this is `NoFrameLost`. For the order of the
callbacks (`CallbacksInOrder`) it is not enough that queues are sorted (`QueueInv`):
when a processor has been removed, the frames of the next one must come after what
the first one handled. `OrderInv` says so for as long as the server runs, with
the reason for it: whatever waits, waits at a processor in the map, of which a
stream has one. After `stop()` has cleared the map this is false, as the property is.

### The streaming programs

`ReorderBufferNeverBlocked` follows every frame. A request is at one place at a time
(unasked, taken by a thread that has not pushed it, in `outgoing`, in the writer's
hands, on its way, in the server's hands, done), and so is a reply, up to "shown" or
"lost" with a closed descriptor; `Placed` says that there are such places and that each queue
holds the frames whose place it is, each once. No variable of the model records the
places; the invariant (`PlaceInv`) says that they exist. A reply has a place once the loop of
`handleFrame` has got to it. The next number of a stream is the number of messages
asked for (`Counted`), so that with `RepliesFit` the numbers `5 n + i` do not wrap and
no two replies of a stream share one. Then a reply is never shown or put into the
map twice, the map holds no number below the next one, and `Drain` stops at a
number that is still to come. `SystemTypes` is proved first, apart from places.

`SocketOutlivesThreads`: `stop()` closes after its joins, and no thread starts again.

### The provider

`TasksWithinCalls`: the entry a call has found stays (`Register`'s guard is the
assumption on the application), there is one argument per parameter before there
is a task, and a call does not return while its task runs. `ErrorsAreTrue` adds
that the loop over the parameters has met no fault so far, so that the fault it
stops at is the first one, the one `Verdict` chooses. `ArgumentsReachFunction` needs
what is in the frame (`ValueInv`): each argument collected so far, and each
argument in the value returned, is a conversion of the request's own argument for the
parameter in that place (`MadeOf`). The rest is what one conversion does
(`ConvertedIs`). Of the `2 h` numbers in the range of an integer type exactly one is congruent to a
given integer (`NarrowIs`), which gives the type (`ProviderTypes`) and leaves an integer
within the range as it is; what is cut off is less than one and on the side away from zero
(`CutIs`), so that no integer is passed over; a nearest value has no other between itself and the
number, and an infinity is never nearest to a number within the range (`NearestIsNext`).

### The HTTP/2 server

`BodiesIntact` follows the body of one stream of one client. `InFlight` (`StreamOk`): of the
chunks of a stream, those with the smallest numbers have been collected, and the
others stand in the order of their numbers in the buffer of `read()` and behind
it on the connection; the end of a body that ends in a DATA frame stands behind all of them, and
while the client goes on none is missing. `Collected`: `stream_data` holds the first chunks
of this stream and no other. `Places` says which connection is served and that it is
not in the backlog, so that what one client sent is never taken for another's.
When the end of the body is processed, what has been collected is the body.

`BufferLives`: with the types of the streams, the parts left and the string's state
move together.

### Only model-checked

The liveness properties: `EveryCallReturns`, `DisconnectReturns`, `RequestsAnswered`,
`StopJoinsEveryThread`, `FramesHandled`, `StopEnds`, `EveryFrameArrives`,
`EveryReplyShown`, `AnsweredWhole`, `ServerMovesOn`, `EveryCallEnds`. Fairness and ENABLED
are out of the prover's reach. So are the four findings, which are counterexamples.

## Not modelled

* `include/json.hpp`: a vendored library, 24 765 of the repository's 26 989 lines of
  implementation. Only the conversions that RpcProvider uses are modelled. Any share
  of the repository's lines is therefore small; of the other lines more than six in
  ten are mapped.
* TcpConnection: socket options. `TcpServer` declares its own `sock_fd_` and
  `running_`; the base class' stay as they were made, and the options have no effect.
* The disconnect queue of `TcpServer` (nothing fills it), its connect callback,
  `FrameParser::parseHeader` and `StreamManager::addIncomingFrame`,
  `receiveFrame`: without callers.
* `errno`, the wrap of the call ids after 2^32 calls, and of the sequence numbers.
* The accept loop of `server.cpp` and what its connections share: descriptor numbers,
  which the writer may use after the reader has closed them, and SIGPIPE.
* The tests, as code; and logging, wording, addresses.

## Plan

Done, by importance: the client with its abstract specification and proofs; the
server with its proofs; framing; the streaming programs; FrameHandler; the stream
processors; the provider; the HTTP/2 server. What is left:

1. `StreamServer`: the accept loop of `server.cpp` and several connections, with
   the writer that outlives its descriptor. Bounds: 2 clients, 1 descriptor.
2. `RpcSystem`: `TcpClient` with `TcpServer` as its peer, refining `RpcCalls`
   with the server's echo in place of the arbitrary peer.
3. Proofs: lemmas that liveness rests on and that are safety (a reply that is asked for
   is at a place from which its next step is enabled); the echo of `RpcSystem`.
