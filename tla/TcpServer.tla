------------------------------ MODULE TcpServer ------------------------------
(***************************************************************************)
(* TcpServer (include/tcp_server.h) under the echo application of          *)
(* src/rpc_server.cpp.  The accept thread registers a ClientHandler per    *)
(* connection under clients_mutex_; each handler has a reader thread, that *)
(* calls the request callback, and a writer thread, that drains the queue  *)
(* response() fills; stop() shuts everything down from the main thread.    *)
(*                                                                         *)
(* Requests of a client are numbered in the order it sends them, and the   *)
(* callback answers each with response(), so a response is the number of   *)
(* the request it answers.  A client id is the descriptor of its           *)
(* connection; the server never closes one of a registered client, so no   *)
(* id is used twice and a client stands for its id.  Steps under a mutex   *)
(* that no other thread can see from inside are one action.                *)
(***************************************************************************)
EXTENDS Integers, Sequences, FiniteSets

CONSTANTS Clients,      \* the clients that may connect
          MaxRequests,  \* bound on the requests of a client
          MayClose,     \* may clients close their connections?
          MayStop,      \* may the application call stop()?
          Faults        \* may accept() and thread creation fail?

ASSUME ServerAssumption == /\ MaxRequests \in Nat
                           /\ {MayClose, MayStop, Faults} \subseteq BOOLEAN

VARIABLES
  status,    \* "alive", or "terminated" by std::terminate
  main,      \* where the main thread stands in start() and stop()
  running,   \* running_ of the server
  listening, \* sock_fd_ names an open listening socket
  workers,   \* those of cleanup_thread_ and disconnect_thread_ that run
  acceptor,  \* where the accept thread stands
  accepted,  \* the clients accept() has returned, in order
  mutex,     \* clients_mutex_: "free" or who holds it across a step
  clients,   \* the keys of clients_
  doomed,    \* the handlers stop() has moved to clients_to_close
  conn,      \* conn[c]: "none", "open" or "closed"
  sent,      \* sent[c]: requests c has written
  reader,    \* reader[c]: where the reader thread of c's handler stands
  received,  \* received[c]: requests its recv() has returned
  handled,   \* handled[c]: requests whose callback has returned
  serving,   \* serving[c]: running_ of c's handler
  writer,    \* writer[c]: where the writer thread of c's handler stands
  queue,     \* queue[c]: outgoing_queue_
  pending,   \* pending[c]: pending_data of the writer
  out        \* out[c]: the responses written to the connection

mainVars == <<main, running, listening, workers>>
acceptVars == <<acceptor, accepted>>
mapVars == <<mutex, clients, doomed>>
clientVars == <<conn, sent>>
readerVars == <<reader, received, handled>>
writerVars == <<serving, writer, queue, pending, out>>
handlerVars == <<readerVars, writerVars>>
server == <<status, mainVars, acceptVars, mapVars, handlerVars>>
notMain == <<acceptVars, mapVars, clientVars, handlerVars>>
notHandler == <<mainVars, acceptVars, clientVars>>
notWriter == <<status, mapVars, readerVars, notHandler>>
vars == <<server, clientVars>>

NewClient == accepted[Len(accepted)]        \* client_fd in acceptLoop
Accepted(c) == \E i \in 1 .. Len(accepted) : accepted[i] = c

Init == /\ status = "alive"
        /\ main = "off" /\ running = FALSE /\ listening = FALSE /\ workers = {}
        /\ acceptor = "none" /\ accepted = << >>
        /\ mutex = "free" /\ clients = {} /\ doomed = {}
        /\ conn = [c \in Clients |-> "none"] /\ sent = [c \in Clients |-> 0]
        /\ reader = [c \in Clients |-> "none"]
        /\ received = [c \in Clients |-> 0] /\ handled = [c \in Clients |-> 0]
        /\ serving = [c \in Clients |-> FALSE]
        /\ writer = [c \in Clients |-> "none"]
        /\ queue = [c \in Clients |-> << >>]
        /\ pending = [c \in Clients |-> << >>]
        /\ out = [c \in Clients |-> << >>]

Alive == status = "alive"      \* std::terminate ends all threads

-------------------------------------------------------------------------------
(* The clients.                                                            *)

Connect(c) == /\ Alive /\ listening /\ conn[c] = "none"
              /\ conn' = [conn EXCEPT ![c] = "open"]
              /\ UNCHANGED <<sent, server>>

Request(c) == /\ Alive /\ conn[c] = "open" /\ sent[c] < MaxRequests
              /\ sent' = [sent EXCEPT ![c] = @ + 1]
              /\ UNCHANGED <<conn, server>>

Close(c) == /\ Alive /\ MayClose /\ conn[c] = "open"
            /\ conn' = [conn EXCEPT ![c] = "closed"]
            /\ UNCHANGED <<sent, server>>

-------------------------------------------------------------------------------
(* The accept thread: acceptLoop.                                          *)

AcceptorGoto(from, to) == Alive /\ acceptor = from /\ acceptor' = to

AcceptLoop == /\ \/ running /\ listening /\ AcceptorGoto("check", "accept")
                 \/ ~(running /\ listening) /\ AcceptorGoto("check", "exited")
              /\ UNCHANGED <<status, mainVars, accepted, mapVars, clientVars, handlerVars>>

Accept(c) == /\ AcceptorGoto("accept", "construct")
             /\ listening /\ conn[c] # "none" /\ ~Accepted(c)
             /\ accepted' = Append(accepted, c)
             /\ UNCHANGED <<status, mainVars, mapVars, clientVars, handlerVars>>

\* accept() fails: on the socket that stop() has shut down, or for want of
\* descriptors or because the connection was aborted. All of it ends the thread.
AcceptFails == /\ AcceptorGoto("accept", "exited")
               /\ Faults \/ ~listening
               /\ UNCHANGED <<status, mainVars, accepted, mapVars, clientVars, handlerVars>>

\* Seeded fault: the handler is made without clients_mutex_.
SkipLock == mutex = "free" /\ UNCHANGED mutex

LockClients == mutex = "free" /\ mutex' = "acceptor"

\* make_unique<ClientHandler>, under clients_mutex_: both threads run from here.
Construct == /\ AcceptorGoto("construct", "insert")
             /\ LockClients
             /\ serving' = [serving EXCEPT ![NewClient] = TRUE]
             /\ reader' = [reader EXCEPT ![NewClient] = "recv"]
             /\ writer' = [writer EXCEPT ![NewClient] = "check"]
             /\ UNCHANGED <<status, mainVars, accepted, clients, doomed, clientVars,
                            received, handled, queue, pending, out>>

\* std::thread throws: for the reader, the connection is closed and the loop
\* goes on; for the writer, the destructor of the running reader terminates.
ConstructFails == /\ Faults /\ mutex = "free"
                  /\ AcceptorGoto("construct", "check")
                  /\ \/ conn' = [conn EXCEPT ![NewClient] = "closed"] /\ UNCHANGED status
                     \/ status' = "terminated" /\ UNCHANGED conn
                  /\ UNCHANGED <<mainVars, accepted, mapVars, sent, handlerVars>>

Insert == /\ AcceptorGoto("insert", "check")
          /\ clients' = clients \cup {NewClient} /\ mutex' = "free"
          /\ UNCHANGED <<status, mainVars, accepted, doomed, clientVars, handlerVars>>

AcceptorStep == \/ AcceptLoop \/ (\E c \in Clients : Accept(c)) \/ AcceptFails
                \/ Construct \/ ConstructFails \/ Insert

-------------------------------------------------------------------------------
(* The reader thread of a handler: ClientHandler::handleRead.              *)

ReaderGoto(c, from, to) ==
    Alive /\ reader[c] = from /\ reader' = [reader EXCEPT ![c] = to]

\* Seeded fault: one request more than was sent is taken for read.
UnreadOrMore(c) == received[c] + 1 .. sent[c] + 1

Unread(c) == received[c] + 1 .. sent[c]

\* recv() returns one or more requests that have not been read.
Recv(c) == /\ ReaderGoto(c, "recv", "handle")
           /\ \E upTo \in Unread(c) : received' = [received EXCEPT ![c] = upTo]
           /\ UNCHANGED <<status, mapVars, handled, writerVars, notHandler>>

\* recv() returns 0, or an error: a connection that was reset loses the requests
\* that have not been read.
RecvEnd(c) == /\ ReaderGoto(c, "recv", "leave")
              /\ conn[c] = "closed"
              /\ UNCHANGED <<status, mapVars, received, handled, writerVars, notHandler>>

AfterHandle(c) == IF handled[c] + 1 < received[c] THEN "handle"
                  ELSE IF serving[c] THEN "recv" ELSE "leave"

\* Seeded fault: write() pushes without notify_one.
NoNotify(w) == w

Notify(w) == IF w = "wait" THEN "check" ELSE w      \* write_cv_.notify_one

\* request_callback_ answers the next request: response() takes clients_mutex_,
\* finds the handler, pushes on its queue and notifies its writer.
Handle(c) ==
    /\ ReaderGoto(c, "handle", AfterHandle(c))
    /\ mutex = "free"
    /\ handled' = [handled EXCEPT ![c] = @ + 1]
    /\ IF c \in clients
       THEN /\ queue' = [queue EXCEPT ![c] = Append(@, handled[c] + 1)]
            /\ writer' = [writer EXCEPT ![c] = Notify(@)]
       ELSE UNCHANGED <<queue, writer>>
    /\ UNCHANGED <<status, mapVars, received, serving, pending, out, notHandler>>

\* handleClientDisconnect, run by the reader itself: clients_.erase destroys
\* the handler under clients_mutex_, with both its threads joinable.  The
\* destructor of std::thread terminates the process; before that, destroying
\* write_cv_ while the writer waits on it may block for good, mutex in hand.
Leave(c) ==
    /\ mutex = "free"
    /\ \/ /\ c \notin clients /\ ReaderGoto(c, "leave", "exited")
          /\ UNCHANGED <<status, mutex, clients>>
       \/ /\ c \in clients /\ ReaderGoto(c, "leave", "destroying")
          /\ clients' = clients \ {c}
          /\ \/ status' = "terminated" /\ UNCHANGED mutex
             \/ writer[c] = "wait" /\ mutex' = "reader" /\ UNCHANGED status
    /\ UNCHANGED <<doomed, received, handled, writerVars, notHandler>>

ReaderStep(c) == Recv(c) \/ RecvEnd(c) \/ Handle(c) \/ Leave(c)

-------------------------------------------------------------------------------
(* The writer thread of a handler: ClientHandler::handleWrite.             *)

WriterGoto(c, from, to) ==
    Alive /\ writer[c] = from /\ writer' = [writer EXCEPT ![c] = to]

\* Under write_mutex_: leave, wait on write_cv_, or take the whole queue.
WriterLoop(c) ==
    /\ \/ ~serving[c] /\ WriterGoto(c, "check", "exited") /\ UNCHANGED <<queue, pending>>
       \/ /\ serving[c] /\ queue[c] = << >>
          /\ WriterGoto(c, "check", "wait") /\ UNCHANGED <<queue, pending>>
       \/ /\ serving[c] /\ queue[c] # << >> /\ WriterGoto(c, "check", "send")
          /\ pending' = [pending EXCEPT ![c] = queue[c]]
          /\ queue' = [queue EXCEPT ![c] = << >>]
    /\ UNCHANGED <<serving, out, notWriter>>

\* write_cv_.wait may return without a notification.
WakeUp(c) == /\ WriterGoto(c, "wait", "check")
             /\ UNCHANGED <<serving, queue, pending, out, notWriter>>

\* One element of pending_data is sent; to a closed connection it may be.
Send(c) == /\ WriterGoto(c, "send", IF Len(pending[c]) > 1 THEN "send" ELSE "check")
           /\ out' = [out EXCEPT ![c] = Append(@, Head(pending[c]))]
           /\ pending' = [pending EXCEPT ![c] = Tail(@)]
           /\ UNCHANGED <<serving, queue, notWriter>>

SendFails(c) == /\ WriterGoto(c, "send", "exited")
                /\ conn[c] = "closed"
                /\ serving' = [serving EXCEPT ![c] = FALSE]
                /\ UNCHANGED <<queue, pending, out, notWriter>>

WriterStep(c) == WriterLoop(c) \/ Send(c) \/ SendFails(c)

-------------------------------------------------------------------------------
(* start() and stop(), called by the main thread, and the two threads that *)
(* only watch running_: on the live path disconnect_queue_ stays empty and *)
(* stream_processors_ too.                                                 *)

MainGoto(from, to) == Alive /\ main = from /\ main' = to

Start == /\ MainGoto("off", "up")
         /\ running' = TRUE /\ listening' = TRUE
         /\ workers' = {"cleanup", "disconnect"} /\ acceptor' = "check"
         /\ UNCHANGED <<status, accepted, mapVars, clientVars, handlerVars>>

WorkerExits(w) == /\ Alive /\ w \in workers /\ ~running
                  /\ workers' = workers \ {w}
                  /\ UNCHANGED <<status, main, running, listening, notMain>>

\* compare_exchange_strong on running_.
BeginStop == /\ MayStop /\ MainGoto("up", "closing")
             /\ running' = FALSE
             /\ UNCHANGED <<status, listening, workers, notMain>>

\* Seeded fault: the listening socket is left open.
LeaveListening == UNCHANGED <<listening, conn>>

\* Connections that nobody has accepted yet go down with the listening socket.
CloseListening ==
    /\ listening' = FALSE
    /\ conn' = [c \in Clients |-> IF conn[c] = "open" /\ ~Accepted(c)
                                  THEN "closed" ELSE conn[c]]

StopListening == /\ MainGoto("closing", "joinAcceptor")
                 /\ CloseListening
                 /\ UNCHANGED <<status, running, workers, acceptVars, mapVars, sent,
                                handlerVars>>

\* Seeded fault: stop() does not join accept_thread_.
NoJoin == TRUE

AcceptorEnded == acceptor = "exited"

JoinAcceptor == /\ MainGoto("joinAcceptor", "joinWorkers")
                /\ AcceptorEnded
                /\ UNCHANGED <<status, running, listening, workers, notMain>>

JoinWorkers == /\ MainGoto("joinWorkers", "clear")
               /\ workers = {}
               /\ UNCHANGED <<status, running, listening, workers, notMain>>

ClearClients == /\ MainGoto("clear", "destroy")
                /\ mutex = "free"
                /\ doomed' = clients /\ clients' = {}
                /\ UNCHANGED <<status, running, listening, workers, acceptVars, mutex,
                               clientVars, handlerVars>>

\* clients_to_close.clear(): a handler in it is destroyed with its threads
\* joinable, as in Leave, but clients_mutex_ is not held any more.
DestroyClients == /\ \/ doomed = {} /\ MainGoto("destroy", "stopped") /\ UNCHANGED status
                     \/ /\ doomed # {} /\ MainGoto("destroy", "stuck")
                        /\ \/ status' = "terminated"
                           \/ (\E c \in doomed : writer[c] = "wait") /\ UNCHANGED status
                  /\ UNCHANGED <<running, listening, workers, notMain>>

StopStep == StopListening \/ JoinAcceptor \/ JoinWorkers \/ ClearClients \/ DestroyClients

-------------------------------------------------------------------------------
Next == \/ Start \/ BeginStop \/ StopStep \/ AcceptorStep
        \/ \E w \in {"cleanup", "disconnect"} : WorkerExits(w)
        \/ \E c \in Clients : \/ Connect(c) \/ Request(c) \/ Close(c)
                              \/ ReaderStep(c) \/ WriterStep(c) \/ WakeUp(c)

Spec == Init /\ [][Next]_vars

(***************************************************************************)
(* The threads of the server keep running. Nothing obliges clients to      *)
(* connect, to send or to close, the application to call stop(), or a wait *)
(* to end without a notification.                                          *)
(***************************************************************************)
Fairness == /\ WF_vars(AcceptorStep) /\ WF_vars(StopStep)
            /\ \A w \in {"cleanup", "disconnect"} : WF_vars(WorkerExits(w))
            /\ \A c \in Clients : WF_vars(ReaderStep(c)) /\ WF_vars(WriterStep(c))

FairSpec == Spec /\ Fairness

-------------------------------------------------------------------------------
TypeOK ==
    /\ status \in {"alive", "terminated"}
    /\ main \in {"off", "up", "closing", "joinAcceptor", "joinWorkers", "clear",
                  "destroy", "stopped", "stuck"}
    /\ {running, listening} \subseteq BOOLEAN
    /\ workers \subseteq {"cleanup", "disconnect"}
    /\ acceptor \in {"none", "check", "accept", "construct", "insert", "exited"}
    /\ accepted \in Seq(Clients)
    /\ mutex \in {"free", "acceptor", "reader"}
    /\ clients \subseteq Clients /\ doomed \subseteq Clients
    /\ conn \in [Clients -> {"none", "open", "closed"}]
    /\ sent \in [Clients -> 0 .. MaxRequests]
    /\ reader \in [Clients -> {"none", "recv", "handle", "leave", "destroying", "exited"}]
    /\ received \in [Clients -> 0 .. MaxRequests]
    /\ handled \in [Clients -> 0 .. MaxRequests]
    /\ serving \in [Clients -> BOOLEAN]
    /\ writer \in [Clients -> {"none", "check", "wait", "send", "exited"}]
    /\ queue \in [Clients -> Seq(1 .. MaxRequests)]
    /\ pending \in [Clients -> Seq(1 .. MaxRequests)]
    /\ out \in [Clients -> Seq(1 .. MaxRequests)]

\* What has been written to the client, what the writer has taken and what is
\* still queued are the answers to its requests, in order, each once, none
\* skipped; and while the client is registered, every request whose callback has
\* returned is there: the one that arrives before the accept thread has stored
\* the handler, and those whose responses the writer fails to send, too.
Answers(c) == out[c] \o pending[c] \o queue[c]

EchoInOrder ==
    \A c \in Clients : /\ Answers(c) = [i \in 1 .. Len(Answers(c)) |-> i]
                       /\ c \in clients => Len(Answers(c)) = handled[c]

\* A writer waits on write_cv_ only while it has nothing to send: no notify_one
\* of write() falls between its look at the queue and its wait.
NoLostWakeup == \A c \in Clients : writer[c] = "wait" => queue[c] = << >>

\* Once stop() has emptied clients_, nothing can enter it again: the accept
\* thread has ended, with the handler it was about to store, and so have the
\* two others.
QuiescentAfterStop ==
    main \in {"destroy", "stopped", "stuck"} =>
        /\ clients = {} /\ acceptor = "exited" /\ workers = {}

\* A client that leaves does not take the server with it: the process is alive
\* and no reader is stuck destroying its own handler.
SurvivesDisconnect ==
    status = "alive" /\ \A c \in Clients : reader[c] # "destroying"

\* stop() gets rid of the clients: the process is alive and stop() is not stuck
\* in the destruction of a handler.
StopClearsClients == status = "alive" /\ main # "stuck"

\* Every request of a client that stays is answered, unless stop() is called
\* before; thread creation and accept() do not fail.
RequestsAnswered ==
    \A c \in Clients, n \in 1 .. MaxRequests :
        (main = "up" /\ sent[c] >= n) ~> (main # "up" \/ Len(out[c]) >= n)

\* stop() gets past its joins to the point where clients_ is empty: the closed
\* listening socket brings the accept thread home, wherever it is.
StopJoinsEveryThread == main = "closing" ~> main = "destroy"
===============================================================================
