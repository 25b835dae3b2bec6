---------------------------- MODULE TcpServerProofs ----------------------------
(***************************************************************************)
(* Proofs about TcpServer, for any number of clients and requests, whether *)
(* clients leave, the application stops the server, or accept() and thread *)
(* creation fail.                                                          *)
(***************************************************************************)
EXTENDS TcpServer, SequenceTheorems, TLAPS

\* A reader reads what was sent and answers what it has read.
ReaderInv ==
    \A c \in Clients : /\ handled[c] <= received[c] /\ received[c] <= sent[c]
                       /\ reader[c] = "handle" => handled[c] < received[c]

\* pending_data is empty but while the writer sends, or after it has given up.
WriterInv ==
    \A c \in Clients : /\ writer[c] = "send" => pending[c] # << >>
                       /\ writer[c] \in {"none", "check", "wait"} => pending[c] = << >>

\* A handler has no threads, and nothing to its name, before it is constructed;
\* while the accept thread is about to store one, it holds clients_mutex_, and
\* the new reader has not got through response().
NoThreads(c) == /\ reader[c] = "none" /\ writer[c] = "none" /\ c \notin clients
                /\ handled[c] = 0
                /\ out[c] = << >> /\ pending[c] = << >> /\ queue[c] = << >>

Untouched(c) == /\ c \notin clients /\ handled[c] = 0 /\ writer[c] # "send"
                /\ out[c] = << >> /\ pending[c] = << >> /\ queue[c] = << >>

AcceptInv ==
    /\ \A c \in Clients : ~Accepted(c) => NoThreads(c)
    /\ acceptor \in {"construct", "insert"} => accepted # << >>
    /\ acceptor = "construct" => NoThreads(NewClient)
    /\ acceptor = "insert" => mutex = "acceptor" /\ Untouched(NewClient)

\* stop() gets to its later steps past the threads it has joined.
StopInv ==
    /\ main = "off" => acceptor = "none"
    /\ main \in {"joinWorkers", "clear", "destroy", "stopped", "stuck"} => acceptor = "exited"
    /\ main \in {"clear", "destroy", "stopped", "stuck"} => workers = {}
    /\ main \in {"destroy", "stopped", "stuck"} => clients = {}

Inv == /\ TypeOK /\ ReaderInv /\ WriterInv /\ AcceptInv /\ StopInv
       /\ NoLostWakeup /\ EchoInOrder

-------------------------------------------------------------------------------
(* Sequences                                                               *)

LEMMA HeadTailType ==
  ASSUME NEW S, NEW s \in Seq(S), s # << >>
  PROVE  /\ Head(s) \in S /\ Tail(s) \in Seq(S) /\ Len(s) \in Nat /\ Len(s) >= 1
         /\ Len(Tail(s)) = Len(s) - 1 /\ Head(s) = s[1]
         /\ \A i \in 1 .. Len(s) - 1 : Tail(s)[i] = s[i + 1]
  BY HeadTailProperties, EmptySeq, LenProperties, ElementOfSeq

\* Moving the head of the second of three sequences to the end of the first.
LEMMA MoveHead ==
  ASSUME NEW S, NEW a \in Seq(S), NEW b \in Seq(S), NEW c \in Seq(S), b # << >>
  PROVE  Append(a, Head(b)) \o Tail(b) \o c = a \o b \o c
<1> DEFINE l == Append(a, Head(b)) \o Tail(b) \o c
           r == a \o b \o c
<1>1. /\ Head(b) \in S /\ Tail(b) \in Seq(S) /\ Len(Tail(b)) = Len(b) - 1
      /\ Len(b) \in Nat /\ Len(b) >= 1 /\ Head(b) = b[1]
      /\ \A i \in 1 .. Len(b) - 1 : Tail(b)[i] = b[i + 1]
  BY HeadTailType
<1>2. Len(a) \in Nat /\ Len(c) \in Nat
  BY LenProperties
<1>3. Append(a, Head(b)) \in Seq(S) /\ Len(Append(a, Head(b))) = Len(a) + 1
      /\ \A i \in 1 .. Len(a) : Append(a, Head(b))[i] = a[i]
      /\ Append(a, Head(b))[Len(a) + 1] = b[1]
  BY <1>1, AppendProperties
<1>4. /\ Append(a, Head(b)) \o Tail(b) \in Seq(S) /\ a \o b \in Seq(S)
      /\ Len(Append(a, Head(b)) \o Tail(b)) = Len(a) + Len(b)
      /\ Len(a \o b) = Len(a) + Len(b)
      /\ \A i \in 1 .. Len(a) + Len(b) :
            (Append(a, Head(b)) \o Tail(b))[i] = (a \o b)[i]
  <2>1. \A i \in 1 .. Len(a) + Len(b) :
          (Append(a, Head(b)) \o Tail(b))[i]
             = IF i <= Len(a) + 1 THEN Append(a, Head(b))[i] ELSE Tail(b)[i - (Len(a) + 1)]
    BY <1>1, <1>2, <1>3, ConcatProperties
  <2>2. \A i \in 1 .. Len(a) + Len(b) :
          (a \o b)[i] = IF i <= Len(a) THEN a[i] ELSE b[i - Len(a)]
    BY <1>1, <1>2, ConcatProperties
  <2>3. \A i \in 1 .. Len(a) + Len(b) :
          (Append(a, Head(b)) \o Tail(b))[i] = (a \o b)[i]
    BY <1>1, <1>2, <1>3, <2>1, <2>2
  <2> QED
    BY <1>1, <1>2, <1>3, <2>3, ConcatProperties
<1>5. Append(a, Head(b)) \o Tail(b) = a \o b
  BY <1>1, <1>2, <1>4, SeqEqual
<1> QED
  BY <1>5

-------------------------------------------------------------------------------
(* Types                                                                   *)

USE DEF vars, server, mainVars, acceptVars, mapVars, clientVars, readerVars, writerVars,
        handlerVars, notMain, notHandler, notWriter

LEMMA InitType ==
  ASSUME Init
  PROVE  TypeOK
<1>1. << >> \in Seq(Clients) /\ << >> \in Seq(1 .. MaxRequests)
  BY EmptySeq
<1>2. /\ sent \in [Clients -> 0 .. MaxRequests] /\ received \in [Clients -> 0 .. MaxRequests]
      /\ handled \in [Clients -> 0 .. MaxRequests]
  BY ServerAssumption DEF Init
<1>3. /\ queue \in [Clients -> Seq(1 .. MaxRequests)]
      /\ pending \in [Clients -> Seq(1 .. MaxRequests)]
      /\ out \in [Clients -> Seq(1 .. MaxRequests)]
  BY <1>1 DEF Init
<1> QED
  BY <1>1, <1>2, <1>3 DEF Init, TypeOK

LEMMA NewClientType ==
  ASSUME accepted \in Seq(Clients), accepted # << >>
  PROVE  NewClient \in Clients /\ Accepted(NewClient)
<1>1. Len(accepted) \in 1 .. Len(accepted)
  BY EmptySeq
<1> QED
  BY <1>1, ElementOfSeq DEF NewClient, Accepted

\* Appending c to accepted makes it accepted, and nobody else.
LEMMA AcceptedAppend ==
  ASSUME accepted \in Seq(Clients), NEW c \in Clients, accepted' = Append(accepted, c)
  PROVE  /\ accepted' \in Seq(Clients) /\ accepted' # << >> /\ NewClient' = c
         /\ \A d : Accepted(d)' <=> Accepted(d) \/ d = c
<1>1. /\ accepted' \in Seq(Clients) /\ accepted' # << >>
      /\ Len(accepted') = Len(accepted) + 1 /\ Len(accepted) \in Nat
      /\ \A i \in 1 .. Len(accepted) : accepted'[i] = accepted[i]
      /\ accepted'[Len(accepted) + 1] = c
  BY AppendProperties, LenProperties
<1>2. NewClient' = c
  BY <1>1 DEF NewClient
<1>3. \A d : Accepted(d)' <=> Accepted(d) \/ d = c
  BY <1>1 DEF Accepted
<1> QED
  BY <1>1, <1>2, <1>3

LEMMA TypeStep ==
  ASSUME TypeOK, ReaderInv, WriterInv, AcceptInv, [Next]_vars
  PROVE  TypeOK'
<1> USE DEF TypeOK
<1>1. CASE Start
  BY <1>1 DEF Start, MainGoto
<1>2. CASE BeginStop
  BY <1>2 DEF BeginStop, MainGoto
<1>3. CASE StopListening
  BY <1>3 DEF StopListening, MainGoto, CloseListening
<1>4. CASE JoinAcceptor
  BY <1>4 DEF JoinAcceptor, MainGoto
<1>5. CASE JoinWorkers
  BY <1>5 DEF JoinWorkers, MainGoto
<1>6. CASE ClearClients
  BY <1>6 DEF ClearClients, MainGoto
<1>7. CASE DestroyClients
  BY <1>7 DEF DestroyClients, MainGoto
<1>8. CASE AcceptLoop
  BY <1>8 DEF AcceptLoop, AcceptorGoto
<1>9. ASSUME NEW c \in Clients, Accept(c) PROVE TypeOK'
  BY <1>9, AcceptedAppend DEF Accept, AcceptorGoto
<1>10. CASE AcceptFails
  BY <1>10 DEF AcceptFails, AcceptorGoto
<1>11. CASE Construct
  BY <1>11, NewClientType DEF Construct, AcceptorGoto, LockClients, AcceptInv
<1>12. CASE ConstructFails
  BY <1>12, NewClientType DEF ConstructFails, AcceptorGoto, AcceptInv
<1>13. CASE Insert
  BY <1>13, NewClientType DEF Insert, AcceptorGoto, AcceptInv
<1>14. ASSUME NEW w \in {"cleanup", "disconnect"}, WorkerExits(w) PROVE TypeOK'
  BY <1>14 DEF WorkerExits
<1>15. ASSUME NEW c \in Clients, Connect(c) PROVE TypeOK'
  BY <1>15 DEF Connect
<1>16. ASSUME NEW c \in Clients, Request(c) PROVE TypeOK'
  BY <1>16, ServerAssumption DEF Request
<1>17. ASSUME NEW c \in Clients, Close(c) PROVE TypeOK'
  BY <1>17 DEF Close
<1>18. ASSUME NEW c \in Clients, Recv(c) PROVE TypeOK'
  BY <1>18, ServerAssumption DEF Recv, ReaderGoto, Unread
<1>19. ASSUME NEW c \in Clients, RecvEnd(c) PROVE TypeOK'
  BY <1>19 DEF RecvEnd, ReaderGoto
<1>20. ASSUME NEW c \in Clients, Handle(c) PROVE TypeOK'
  <2>1. handled[c] + 1 \in 1 .. MaxRequests
    BY <1>20, ServerAssumption DEF Handle, ReaderGoto, ReaderInv
  <2>2. Append(queue[c], handled[c] + 1) \in Seq(1 .. MaxRequests)
    BY <2>1, AppendProperties
  <2>3. queue' \in [Clients -> Seq(1 .. MaxRequests)]
    BY <1>20, <2>2 DEF Handle
  <2>4. writer' \in [Clients -> {"none", "check", "wait", "send", "exited"}]
    <3>1. writer' = writer \/ writer' = [writer EXCEPT ![c] = Notify(writer[c])]
      BY <1>20 DEF Handle
    <3>2. Notify(writer[c]) \in {"none", "check", "wait", "send", "exited"}
      BY DEF Notify
    <3> QED
      BY <3>1, <3>2
  <2>5. reader' \in [Clients -> {"none", "recv", "handle", "leave", "destroying", "exited"}]
    BY <1>20 DEF Handle, ReaderGoto, AfterHandle
  <2>6. handled' \in [Clients -> 0 .. MaxRequests]
    BY <1>20, <2>1 DEF Handle
  <2> QED
    BY <1>20, <2>3, <2>4, <2>5, <2>6 DEF Handle, ReaderGoto
<1>21. ASSUME NEW c \in Clients, Leave(c) PROVE TypeOK'
  BY <1>21 DEF Leave, ReaderGoto
<1>22. ASSUME NEW c \in Clients, WriterLoop(c) PROVE TypeOK'
  <2>1. << >> \in Seq(1 .. MaxRequests)
    BY EmptySeq
  <2> QED
    <3>1. writer' \in [Clients -> {"none", "check", "wait", "send", "exited"}]
      BY <1>22 DEF WriterLoop, WriterGoto
    <3>2. /\ queue' \in [Clients -> Seq(1 .. MaxRequests)]
          /\ pending' \in [Clients -> Seq(1 .. MaxRequests)]
      <4>1. \/ UNCHANGED <<queue, pending>>
            \/ /\ pending' = [pending EXCEPT ![c] = queue[c]]
               /\ queue' = [queue EXCEPT ![c] = << >>]
        BY <1>22 DEF WriterLoop
      <4>2. CASE UNCHANGED <<queue, pending>>
        BY <4>2
      <4>3. CASE /\ pending' = [pending EXCEPT ![c] = queue[c]]
                 /\ queue' = [queue EXCEPT ![c] = << >>]
        BY <2>1, <4>3
      <4> QED
        BY <4>1, <4>2, <4>3
    <3>3. UNCHANGED <<serving, out, notWriter>>
      BY <1>22 DEF WriterLoop
    <3> QED
      BY <3>1, <3>2, <3>3
<1>23. ASSUME NEW c \in Clients, Send(c) PROVE TypeOK'
  <2>1. pending[c] # << >>
    BY <1>23 DEF Send, WriterGoto, WriterInv
  <2>2. /\ Tail(pending[c]) \in Seq(1 .. MaxRequests)
        /\ Append(out[c], Head(pending[c])) \in Seq(1 .. MaxRequests)
    BY <2>1, HeadTailType, AppendProperties
  <2> QED
    BY <1>23, <2>2 DEF Send, WriterGoto
<1>24. ASSUME NEW c \in Clients, SendFails(c) PROVE TypeOK'
  BY <1>24 DEF SendFails, WriterGoto
<1>25. ASSUME NEW c \in Clients, WakeUp(c) PROVE TypeOK'
  BY <1>25 DEF WakeUp, WriterGoto
<1>26. CASE UNCHANGED vars
  BY <1>26
<1> QED
  BY <1>1, <1>2, <1>3, <1>4, <1>5, <1>6, <1>7, <1>8, <1>9, <1>10, <1>11, <1>12, <1>13,
     <1>14, <1>15, <1>16, <1>17, <1>18, <1>19, <1>20, <1>21, <1>22, <1>23, <1>24, <1>25,
     <1>26
     DEF Next, StopStep, AcceptorStep, ReaderStep, WriterStep

-------------------------------------------------------------------------------
(* Readers and writers                                                     *)

\* The steps of the handlers of c, and what they leave alone.
HandlerStep(c) == ReaderStep(c) \/ WriterStep(c) \/ WakeUp(c)

\* Every other step leaves the handlers as they are, or constructs one.
LEMMA StepKinds ==
  ASSUME [Next]_vars
  PROVE  \/ \E c \in Clients : HandlerStep(c)
         \/ Construct
         \/ UNCHANGED handlerVars
<1>1. CASE \E c \in Clients : HandlerStep(c)
  BY <1>1
<1>2. CASE Construct
  BY <1>2
<1>3. CASE StopStep
  BY <1>3 DEF StopStep, StopListening, JoinAcceptor, JoinWorkers, ClearClients,
              DestroyClients
<1>4. CASE AcceptorStep /\ ~Construct
  BY <1>4 DEF AcceptorStep, AcceptLoop, Accept, AcceptFails, ConstructFails, Insert
<1>5. CASE \E c \in Clients : Connect(c) \/ Request(c) \/ Close(c)
  BY <1>5 DEF Connect, Request, Close
<1>6. CASE Start \/ BeginStop \/ \E w \in {"cleanup", "disconnect"} : WorkerExits(w)
  BY <1>6 DEF Start, BeginStop, WorkerExits
<1>7. CASE UNCHANGED vars
  BY <1>7
<1> QED
  BY <1>1, <1>2, <1>3, <1>4, <1>5, <1>6, <1>7 DEF Next, HandlerStep

\* sent changes with Request only, that adds one.
LEMMA SentGrows ==
  ASSUME TypeOK, [Next]_vars
  PROVE  \A c \in Clients : sent[c] <= sent'[c]
<1>1. UNCHANGED sent \/ \E c \in Clients : Request(c)
  BY DEF Next, StopStep, AcceptorStep, ReaderStep, WriterStep, Start, BeginStop,
         StopListening, JoinAcceptor, JoinWorkers, ClearClients, DestroyClients, AcceptLoop,
         Accept, AcceptFails, Construct, ConstructFails, Insert, WorkerExits, Connect, Close,
         Recv, RecvEnd, Handle, Leave, WriterLoop, Send, SendFails, WakeUp
<1> QED
  <2>1. CASE UNCHANGED sent
    BY <2>1, ServerAssumption DEF TypeOK
  <2>2. ASSUME NEW c \in Clients, Request(c) PROVE \A d \in Clients : sent[d] <= sent'[d]
    BY <2>2, ServerAssumption DEF TypeOK, Request
  <2> QED
    BY <1>1, <2>1, <2>2

\* A step of the handler of c concerns nobody else, and there must be a handler.
LEMMA HandlerFrame ==
  ASSUME TypeOK, NEW c \in Clients, HandlerStep(c)
  PROVE  /\ UNCHANGED notHandler /\ clients' \subseteq clients
         /\ reader[c] # "none" \/ writer[c] # "none"
         /\ \A d \in Clients \ {c} :
              /\ reader'[d] = reader[d] /\ received'[d] = received[d]
              /\ handled'[d] = handled[d] /\ writer'[d] = writer[d]
              /\ queue'[d] = queue[d] /\ pending'[d] = pending[d] /\ out'[d] = out[d]
              /\ d \in clients' <=> d \in clients
<1> USE DEF TypeOK, ReaderGoto, WriterGoto
<1>1. CASE Recv(c)
  BY <1>1 DEF Recv
<1>2. CASE RecvEnd(c)
  BY <1>2 DEF RecvEnd
<1>3. CASE Handle(c)
  BY <1>3 DEF Handle
<1>4. CASE Leave(c)
  BY <1>4 DEF Leave
<1>5. CASE WriterLoop(c)
  BY <1>5 DEF WriterLoop
<1>6. CASE Send(c)
  BY <1>6 DEF Send
<1>7. CASE SendFails(c)
  BY <1>7 DEF SendFails
<1>8. CASE WakeUp(c)
  BY <1>8 DEF WakeUp
<1> QED
  BY <1>1, <1>2, <1>3, <1>4, <1>5, <1>6, <1>7, <1>8 DEF HandlerStep, ReaderStep, WriterStep

LEMMA ReaderInvStep ==
  ASSUME TypeOK, TypeOK', ReaderInv, [Next]_vars
  PROVE  ReaderInv'
<1> USE DEF TypeOK, ReaderInv
<1>1. CASE UNCHANGED handlerVars
  <2>1. \A c \in Clients : sent[c] \in Int /\ sent'[c] \in Int /\ received[c] \in Int
    BY ServerAssumption
  <2>2. \A c \in Clients : received[c] <= sent'[c]
    <3>1. \A c \in Clients : received[c] <= sent[c] /\ sent[c] <= sent'[c]
      BY SentGrows
    <3> QED
      BY <2>1, <3>1
  <2> QED
    BY <1>1, <2>2
<1>2. CASE Construct
  BY <1>2 DEF Construct
<1>3. ASSUME NEW c \in Clients, HandlerStep(c) PROVE ReaderInv'
  <2>1. CASE Recv(c)
    BY <2>1 DEF Recv, ReaderGoto, Unread
  <2>2. CASE RecvEnd(c)
    BY <2>2 DEF RecvEnd, ReaderGoto
  <2>3. CASE Handle(c)
    <3>1. handled[c] < received[c] /\ handled' = [handled EXCEPT ![c] = handled[c] + 1]
      BY <2>3 DEF Handle, ReaderGoto
    <3>2. /\ reader' = [reader EXCEPT ![c] = AfterHandle(c)]
          /\ UNCHANGED <<received, sent>>
      BY <2>3 DEF Handle, ReaderGoto
    <3>3. AfterHandle(c) = "handle" => handled[c] + 1 < received[c]
      BY DEF AfterHandle
    <3> QED
      BY <3>1, <3>2, <3>3
  <2>4. CASE Leave(c)
    BY <2>4 DEF Leave, ReaderGoto
  <2>5. CASE WriterLoop(c)
    BY <2>5 DEF WriterLoop
  <2>6. CASE Send(c) \/ SendFails(c) \/ WakeUp(c)
    BY <2>6 DEF Send, SendFails, WakeUp
  <2> QED
    BY <1>3, <2>1, <2>2, <2>3, <2>4, <2>5, <2>6 DEF HandlerStep, ReaderStep, WriterStep
<1> QED
  BY <1>1, <1>2, <1>3, StepKinds

\* The two facts about a writer that waits or sends.
LEMMA WriterInvStep ==
  ASSUME TypeOK, WriterInv, NoLostWakeup, AcceptInv, [Next]_vars
  PROVE  WriterInv' /\ NoLostWakeup'
<1> USE DEF TypeOK, WriterInv, NoLostWakeup
<1>1. CASE UNCHANGED handlerVars
  BY <1>1
<1>2. CASE Construct
  <2>1. NewClient \in Clients /\ NoThreads(NewClient)
    BY <1>2, NewClientType DEF Construct, AcceptorGoto, AcceptInv
  <2> QED
    BY <1>2, <2>1 DEF Construct, NoThreads
<1>3. ASSUME NEW c \in Clients, HandlerStep(c) PROVE WriterInv' /\ NoLostWakeup'
  <2>1. CASE Recv(c) \/ RecvEnd(c) \/ Leave(c)
    BY <2>1 DEF Recv, RecvEnd, Leave
  <2>2. CASE Handle(c)
    <3>1. CASE UNCHANGED <<queue, writer>>
      BY <2>2, <3>1 DEF Handle
    <3>2. CASE /\ queue' = [queue EXCEPT ![c] = Append(@, handled[c] + 1)]
               /\ writer' = [writer EXCEPT ![c] = Notify(@)]
      BY <2>2, <3>2 DEF Handle, Notify
    <3> QED
      BY <2>2, <3>1, <3>2 DEF Handle
  <2>3. CASE WriterLoop(c)
    <3>1. CASE writer' = [writer EXCEPT ![c] = "exited"] /\ UNCHANGED <<queue, pending>>
      BY <3>1
    <3>2. CASE /\ queue[c] = << >> /\ writer[c] = "check"
               /\ writer' = [writer EXCEPT ![c] = "wait"] /\ UNCHANGED <<queue, pending>>
      BY <3>2
    <3>3. CASE /\ queue[c] # << >> /\ writer' = [writer EXCEPT ![c] = "send"]
               /\ pending' = [pending EXCEPT ![c] = queue[c]]
               /\ queue' = [queue EXCEPT ![c] = << >>]
      BY <3>3
    <3> QED
      BY <2>3, <3>1, <3>2, <3>3 DEF WriterLoop, WriterGoto
  <2>4. CASE Send(c)
    <3>1. /\ pending[c] # << >> /\ pending' = [pending EXCEPT ![c] = Tail(@)]
          /\ writer' = [writer EXCEPT ![c] = IF Len(pending[c]) > 1 THEN "send" ELSE "check"]
          /\ UNCHANGED queue
      BY <2>4 DEF Send, WriterGoto
    <3>2. /\ Tail(pending[c]) \in Seq(1 .. MaxRequests) /\ Len(pending[c]) \in Nat
          /\ Len(Tail(pending[c])) = Len(pending[c]) - 1 /\ Len(pending[c]) >= 1
      BY <3>1, HeadTailType
    <3>3. Tail(pending[c]) = << >> <=> ~(Len(pending[c]) > 1)
      <4>1. Len(<< >>) = 0 /\ (Tail(pending[c]) # << >> => Len(Tail(pending[c])) # 0)
        BY <3>2, EmptySeq
      <4>2. Len(Tail(pending[c])) = 0 <=> Tail(pending[c]) = << >>
        BY <4>1
      <4> QED
        BY <3>2, <4>2
    <3> QED
      BY <3>1, <3>3
  <2>5. CASE SendFails(c)
    BY <2>5 DEF SendFails, WriterGoto
  <2>6. CASE WakeUp(c)
    BY <2>6 DEF WakeUp, WriterGoto
  <2> QED
    BY <1>3, <2>1, <2>2, <2>3, <2>4, <2>5, <2>6 DEF HandlerStep, ReaderStep, WriterStep
<1> QED
  BY <1>1, <1>2, <1>3, StepKinds

-------------------------------------------------------------------------------
(* The accept thread                                                       *)

\* The steps that are not of a handler, as far as AcceptInv is concerned.
LEMMA AcceptInvStep ==
  ASSUME TypeOK, AcceptInv, [Next]_vars
  PROVE  AcceptInv'
<1> USE DEF AcceptInv
<1>1. ASSUME NEW c \in Clients, HandlerStep(c) PROVE AcceptInv'
  <2>1. UNCHANGED <<acceptor, accepted>> /\ NewClient' = NewClient
        /\ \A d : Accepted(d)' <=> Accepted(d)
    BY <1>1, HandlerFrame DEF NewClient, Accepted
  <2>2. \A d \in Clients : NoThreads(d) => d # c /\ NoThreads(d)'
    BY <1>1, HandlerFrame DEF NoThreads
  <2>3. acceptor \in {"construct", "insert"} => NewClient \in Clients
    BY NewClientType DEF TypeOK
  <2>4. ASSUME acceptor = "insert" PROVE mutex' = "acceptor" /\ Untouched(NewClient)'
    <3>1. mutex = "acceptor" /\ Untouched(NewClient) /\ ~Handle(c) /\ ~Leave(c)
      BY <2>4 DEF Handle, Leave
    <3>2. CASE c # NewClient
      <4>1. UNCHANGED mutex
        BY <1>1, <3>1 DEF HandlerStep, ReaderStep, WriterStep, Recv, RecvEnd, WriterLoop, Send,
                      SendFails, WakeUp
      <4> QED
        BY <1>1, <2>1, <2>3, <2>4, <3>1, <3>2, <4>1, HandlerFrame DEF Untouched
    <3>3. CASE c = NewClient
      <4>1. CASE Recv(c) \/ RecvEnd(c)
        BY <2>1, <3>1, <3>3, <4>1 DEF Recv, RecvEnd, Untouched
      <4>2. CASE WriterLoop(c) \/ WakeUp(c) \/ SendFails(c)
        <5>1. UNCHANGED <<mutex, clients, handled, queue, pending, out>> /\ writer'[c] # "send"
          BY <2>3, <2>4, <3>1, <3>3, <4>2
             DEF WriterLoop, WakeUp, SendFails, WriterGoto, Untouched, TypeOK
        <5> QED
          BY <2>1, <3>1, <3>3, <5>1 DEF Untouched
      <4>3. CASE Send(c)
        BY <3>1, <3>3, <4>3 DEF Send, WriterGoto, Untouched
      <4> QED
        BY <1>1, <3>1, <4>1, <4>2, <4>3 DEF HandlerStep, ReaderStep, WriterStep
    <3> QED
      BY <3>2, <3>3
  <2> QED
    BY <2>1, <2>2, <2>3, <2>4
<1>2. CASE Construct
  <2>1. /\ acceptor = "construct" /\ acceptor' = "insert" /\ mutex' = "acceptor"
        /\ UNCHANGED <<accepted, clients, handled, out, pending, queue>>
        /\ reader' = [reader EXCEPT ![NewClient] = "recv"]
        /\ writer' = [writer EXCEPT ![NewClient] = "check"]
    BY <1>2 DEF Construct, AcceptorGoto, LockClients
  <2>2. NewClient \in Clients /\ Accepted(NewClient) /\ NoThreads(NewClient)
    BY <2>1, NewClientType DEF TypeOK
  <2>3. NewClient' = NewClient /\ \A d : Accepted(d)' <=> Accepted(d)
    BY <2>1 DEF NewClient, Accepted
  <2>4. Untouched(NewClient)'
    BY <2>1, <2>2, <2>3 DEF NoThreads, Untouched, TypeOK
  <2>5. \A c \in Clients : c # NewClient /\ NoThreads(c) => NoThreads(c)'
    BY <2>1 DEF NoThreads, TypeOK
  <2> QED
    BY <2>1, <2>2, <2>3, <2>4, <2>5
<1>3. CASE UNCHANGED handlerVars /\ ~Construct /\ \A c \in Clients : ~HandlerStep(c)
  <2> DEFINE Same == UNCHANGED <<acceptor, accepted, handlerVars, mutex>> /\ clients' \subseteq clients
  <2>1. CASE Same
    <3>1. NewClient' = NewClient /\ \A d : Accepted(d)' <=> Accepted(d)
      BY <2>1 DEF NewClient, Accepted
    <3>2. \A d \in Clients : /\ NoThreads(d) => NoThreads(d)'
                             /\ Untouched(d) => Untouched(d)'
      BY <2>1 DEF NoThreads, Untouched
    <3>3. acceptor \in {"construct", "insert"} => NewClient \in Clients
      BY NewClientType DEF TypeOK
    <3> QED
      BY <2>1, <3>1, <3>2, <3>3
  <2>2. ASSUME acceptor' \in {"check", "accept", "exited"},
               UNCHANGED <<accepted, handlerVars, clients>>
        PROVE  AcceptInv'
    <3>1. \A d : Accepted(d)' <=> Accepted(d)
      BY <2>2 DEF Accepted
    <3> QED
      BY <2>2, <3>1 DEF NoThreads
  <2>3. CASE Start \/ AcceptLoop \/ AcceptFails \/ ConstructFails
    <3>1. UNCHANGED <<accepted, handlerVars, clients>>
          /\ acceptor' \in {"check", "accept", "exited"}
      BY <2>3 DEF Start, AcceptLoop, AcceptFails, ConstructFails, AcceptorGoto
    <3> QED
      BY <2>2, <3>1
  <2>4. ASSUME NEW c \in Clients, Accept(c) PROVE AcceptInv'
    <3>1. /\ acceptor' = "construct" /\ ~Accepted(c) /\ UNCHANGED <<handlerVars, mapVars>>
          /\ accepted' # << >> /\ NewClient' = c
          /\ \A d : Accepted(d)' <=> Accepted(d) \/ d = c
      BY <2>4, AcceptedAppend DEF Accept, AcceptorGoto, TypeOK
    <3> QED
      BY <3>1 DEF NoThreads
  <2>5. CASE Insert
    <3>1. acceptor = "insert" /\ acceptor' = "check" /\ UNCHANGED <<accepted, handlerVars>>
          /\ clients' = clients \cup {NewClient} /\ Accepted(NewClient)
      BY <2>5, NewClientType DEF Insert, AcceptorGoto, TypeOK
    <3>2. \A d : Accepted(d)' <=> Accepted(d)
      BY <3>1 DEF Accepted
    <3> QED
      BY <3>1, <3>2 DEF NoThreads
  <2>6. CASE ClearClients \/ StopListening \/ JoinAcceptor \/ JoinWorkers \/ DestroyClients
    <3>1. Same
      BY <2>6 DEF ClearClients, StopListening, JoinAcceptor, JoinWorkers, DestroyClients
    <3> QED
      BY <2>1, <3>1
  <2>7. CASE \/ BeginStop \/ \E w \in {"cleanup", "disconnect"} : WorkerExits(w)
             \/ \E c \in Clients : Connect(c) \/ Request(c) \/ Close(c)
    <3>1. Same
      BY <2>7 DEF BeginStop, WorkerExits, Connect, Request, Close
    <3> QED
      BY <2>1, <3>1
  <2>8. CASE UNCHANGED vars
    <3>1. Same
      BY <2>8
    <3> QED
      BY <2>1, <3>1
  <2> QED
    BY <1>3, <2>3, <2>4, <2>5, <2>6, <2>7, <2>8 DEF Next, StopStep, AcceptorStep, HandlerStep
<1> QED
  BY <1>1, <1>2, <1>3, StepKinds

-------------------------------------------------------------------------------
(* stop()                                                                  *)

LEMMA StopInvStep ==
  ASSUME TypeOK, StopInv, [Next]_vars
  PROVE  StopInv'
<1> USE DEF StopInv
<1>1. CASE Start
  BY <1>1 DEF Start, MainGoto
<1>2. CASE BeginStop
  BY <1>2 DEF BeginStop, MainGoto
<1>3. CASE StopListening
  BY <1>3 DEF StopListening, MainGoto
<1>4. CASE JoinAcceptor
  BY <1>4 DEF JoinAcceptor, MainGoto, AcceptorEnded
<1>5. CASE JoinWorkers
  BY <1>5 DEF JoinWorkers, MainGoto
<1>6. CASE ClearClients
  BY <1>6 DEF ClearClients, MainGoto
<1>7. CASE DestroyClients
  BY <1>7 DEF DestroyClients, MainGoto
<1>8. CASE AcceptorStep
  <2>1. acceptor \notin {"none", "exited"} /\ UNCHANGED <<main, workers>>
    BY <1>8 DEF AcceptorStep, AcceptLoop, Accept, AcceptFails, Construct, ConstructFails,
                Insert, AcceptorGoto
  <2> QED
    BY <2>1
<1>9. ASSUME NEW w \in {"cleanup", "disconnect"}, WorkerExits(w) PROVE StopInv'
  BY <1>9 DEF WorkerExits
<1>10. ASSUME NEW c \in Clients, HandlerStep(c) PROVE StopInv'
  <2>1. UNCHANGED <<main, acceptor, workers>> /\ clients' \subseteq clients
    BY <1>10, HandlerFrame
  <2> QED
    BY <2>1
<1>11. ASSUME NEW c \in Clients, Connect(c) \/ Request(c) \/ Close(c) PROVE StopInv'
  BY <1>11 DEF Connect, Request, Close
<1>12. CASE UNCHANGED vars
  BY <1>12
<1> QED
  BY <1>1, <1>2, <1>3, <1>4, <1>5, <1>6, <1>7, <1>8, <1>9, <1>10, <1>11, <1>12
     DEF Next, StopStep, HandlerStep

-------------------------------------------------------------------------------
(* The answers of a client                                                 *)

InOrder(c) == /\ Answers(c) = [i \in 1 .. Len(Answers(c)) |-> i]
              /\ c \in clients => Len(Answers(c)) = handled[c]

LEMMA AnswersType ==
  ASSUME TypeOK, NEW c \in Clients
  PROVE  Answers(c) \in Seq(1 .. MaxRequests) /\ Len(Answers(c)) \in Nat
<1>1. out[c] \o pending[c] \in Seq(1 .. MaxRequests)
  BY ConcatProperties DEF TypeOK
<1>2. Answers(c) \in Seq(1 .. MaxRequests)
  BY <1>1, ConcatProperties DEF TypeOK, Answers
<1> QED
  BY <1>2, LenProperties

\* The next number at the end of 1, 2, ..., n.
LEMMA AppendNext ==
  ASSUME NEW S, NEW s \in Seq(S), s = [i \in 1 .. Len(s) |-> i], Len(s) + 1 \in S
  PROVE  /\ Len(Append(s, Len(s) + 1)) = Len(s) + 1
         /\ Append(s, Len(s) + 1) = [i \in 1 .. Len(s) + 1 |-> i]
<1> DEFINE t == Append(s, Len(s) + 1)
<1>1. /\ t \in Seq(S) /\ Len(t) = Len(s) + 1 /\ Len(s) \in Nat
      /\ \A i \in 1 .. Len(s) : t[i] = s[i]
      /\ t[Len(s) + 1] = Len(s) + 1
  BY AppendProperties, LenProperties
<1>2. \A i \in 1 .. Len(s) + 1 : t[i] = i
  <2>1. \A i \in 1 .. Len(s) : t[i] = i
    BY <1>1
  <2> QED
    BY <1>1, <2>1
<1>3. t = [i \in 1 .. Len(t) |-> t[i]]
  <2>1. t \in [1 .. Len(t) -> S]
    BY <1>1, LenProperties
  <2> QED
    BY <2>1
<1> QED
  BY <1>1, <1>2, <1>3

LEMMA ConcatAppend ==
  ASSUME NEW S, NEW s \in Seq(S), NEW t \in Seq(S), NEW x \in S
  PROVE  s \o Append(t, x) = Append(s \o t, x)
<1>1. << >> \in Seq(S) /\ s \o t \in Seq(S)
  BY EmptySeq, ConcatProperties
<1>2. Append(<< >>, x) \in Seq(S) /\ Append(<< >>, x) = << >> \o <<x>>
  BY <1>1, AppendProperties, AppendIsConcat
<1>3. <<x>> \in Seq(S)
  OBVIOUS
<1>4. Append(t, x) = t \o <<x>> /\ Append(s \o t, x) = s \o t \o <<x>>
  BY <1>1, AppendIsConcat
<1> QED
  BY <1>3, <1>4, ConcatAssociative

LEMMA EmptyInOrder == << >> = [i \in 1 .. 0 |-> i]
<1>1. << >> \in Seq(Int) /\ Len(<< >>) = 0
  BY EmptySeq
<1>2. << >> \in [1 .. 0 -> Int]
  BY <1>1, LenProperties
<1> QED
  BY <1>2

LEMMA EchoStep ==
  ASSUME TypeOK, TypeOK', ReaderInv, WriterInv, AcceptInv, EchoInOrder, [Next]_vars
  PROVE  EchoInOrder'
<1>1. \A d \in Clients : InOrder(d)
  BY DEF EchoInOrder, InOrder
<1>2. ASSUME NEW d \in Clients,
             UNCHANGED <<out[d], pending[d], queue[d], handled[d]>>,
             d \in clients' => d \in clients
      PROVE  InOrder(d)'
  <2>1. Answers(d)' = Answers(d)
    BY <1>2 DEF Answers
  <2> QED
    BY <1>1, <1>2, <2>1 DEF InOrder
<1>3. ASSUME NEW c \in Clients, HandlerStep(c), NEW d \in Clients PROVE InOrder(d)'
  <2>1. CASE d # c
    BY <1>2, <1>3, <2>1, HandlerFrame
  <2>2. CASE d = c /\ (Recv(c) \/ RecvEnd(c) \/ Leave(c) \/ SendFails(c) \/ WakeUp(c))
    <3>1. UNCHANGED <<out, pending, queue, handled>> /\ clients' \subseteq clients
      BY <2>2, <1>3, HandlerFrame DEF Recv, RecvEnd, Leave, SendFails, WakeUp
    <3> QED
      BY <1>2, <3>1
  <2>3. CASE d = c /\ Handle(c) /\ c \notin clients
    <3>1. UNCHANGED <<out, pending, queue, clients>>
      BY <2>3 DEF Handle
    <3>2. Answers(c)' = Answers(c)
      BY <3>1 DEF Answers
    <3> QED
      BY <1>1, <2>3, <3>1, <3>2 DEF InOrder
  <2>4. CASE d = c /\ Handle(c) /\ c \in clients
    <3> DEFINE n == Len(Answers(c))
    <3>1. /\ queue' = [queue EXCEPT ![c] = Append(queue[c], handled[c] + 1)]
          /\ handled' = [handled EXCEPT ![c] = handled[c] + 1]
          /\ UNCHANGED <<out, pending, clients>> /\ handled[c] < received[c]
      BY <2>4 DEF Handle, ReaderGoto, ReaderInv
    <3>2. n = handled[c] /\ n + 1 \in 1 .. MaxRequests
      <4>1. n = handled[c]
        BY <1>1, <2>4 DEF InOrder
      <4>2. handled[c] \in 0 .. MaxRequests /\ received[c] \in 0 .. MaxRequests
        BY DEF TypeOK
      <4>3. handled[c] + 1 \in 1 .. MaxRequests
        BY <3>1, <4>2, ServerAssumption
      <4> QED
        BY <4>1, <4>3
    <3>3. Answers(c)' = out[c] \o pending[c] \o Append(queue[c], n + 1)
      BY <3>1, <3>2 DEF Answers, TypeOK
    <3>4. out[c] \o pending[c] \o Append(queue[c], n + 1) = Append(Answers(c), n + 1)
      <4>1. out[c] \o pending[c] \in Seq(1 .. MaxRequests)
        BY ConcatProperties DEF TypeOK
      <4>2. queue[c] \in Seq(1 .. MaxRequests)
        BY DEF TypeOK
      <4> QED
        <5> DEFINE s == out[c] \o pending[c]
                   q == queue[c]
                   x == n + 1
                   S == 1 .. MaxRequests
        <5>1. s \in Seq(S) /\ q \in Seq(S) /\ x \in S
          BY <3>2, <4>1, <4>2
        <5>2. s \o Append(q, x) = Append(s \o q, x)
          <6> HIDE DEF s, q, x, S
          <6> QED
            BY <5>1, ConcatAppend
        <5> QED
          BY <5>2 DEF Answers
    <3>5. /\ Append(Answers(c), n + 1) = [i \in 1 .. n + 1 |-> i]
          /\ Len(Append(Answers(c), n + 1)) = n + 1
      BY <1>1, <3>2, AnswersType, AppendNext DEF InOrder
    <3>6. handled'[c] = n + 1
      BY <3>1, <3>2 DEF TypeOK
    <3> QED
      BY <2>4, <3>3, <3>4, <3>5, <3>6 DEF InOrder
  <2>5. CASE d = c /\ WriterLoop(c)
    <3>1. CASE UNCHANGED <<queue, pending>>
      BY <1>2, <2>5, <3>1 DEF WriterLoop
    <3>2. CASE /\ pending' = [pending EXCEPT ![c] = queue[c]]
               /\ queue' = [queue EXCEPT ![c] = << >>]
      <4>1. pending[c] = << >> /\ UNCHANGED <<out, handled, clients>>
        BY <2>5 DEF WriterLoop, WriterGoto, WriterInv
      <4>2. pending'[c] = queue[c] /\ queue'[c] = << >>
        BY <3>2 DEF TypeOK
      <4>3. out[c] \o << >> = out[c] /\ out[c] \o queue[c] \o << >> = out[c] \o queue[c]
        BY ConcatProperties, ConcatEmptySeq DEF TypeOK
      <4>4. Answers(c)' = Answers(c)
        BY <4>1, <4>2, <4>3 DEF Answers
      <4> QED
        BY <1>1, <2>5, <4>1, <4>4 DEF InOrder
    <3> QED
      BY <2>5, <3>1, <3>2 DEF WriterLoop
  <2>6. CASE d = c /\ Send(c)
    <3>1. /\ pending[c] # << >> /\ UNCHANGED <<queue, handled, clients>>
          /\ out'[c] = Append(out[c], Head(pending[c])) /\ pending'[c] = Tail(pending[c])
      BY <2>6 DEF Send, WriterGoto, WriterInv, TypeOK
    <3>2. Answers(c)' = Answers(c)
      <4> DEFINE o == out[c]
                 p == pending[c]
                 q == queue[c]
                 S == 1 .. MaxRequests
      <4>1. o \in Seq(S) /\ p \in Seq(S) /\ q \in Seq(S) /\ p # << >>
        BY <3>1 DEF TypeOK
      <4>2. Append(o, Head(p)) \o Tail(p) \o q = o \o p \o q
        <5> HIDE DEF o, p, q, S
        <5> QED
          BY <4>1, MoveHead
      <4> QED
        BY <3>1, <4>2 DEF Answers
    <3> QED
      BY <1>1, <2>6, <3>1, <3>2 DEF InOrder
  <2> QED
    BY <1>3, <2>1, <2>2, <2>3, <2>4, <2>5, <2>6 DEF HandlerStep, ReaderStep, WriterStep
<1>4. ASSUME UNCHANGED handlerVars, NEW d \in Clients PROVE InOrder(d)'
  <2>1. CASE Insert
    <3>1. /\ UNCHANGED <<out, pending, queue, handled>>
          /\ clients' = clients \cup {NewClient} /\ Untouched(NewClient)
      BY <2>1 DEF Insert, AcceptorGoto, AcceptInv
    <3>2. CASE d = NewClient
      <4>1. /\ out[d] = << >> /\ pending[d] = << >> /\ queue[d] = << >> /\ handled[d] = 0
        BY <3>1, <3>2 DEF Untouched
      <4>2. << >> \o << >> = << >> /\ Len(<< >>) = 0
        BY ConcatEmptySeq, EmptySeq
      <4>3. Answers(d) = << >> /\ Answers(d)' = << >>
        BY <3>1, <4>1, <4>2 DEF Answers
      <4> QED
        BY <1>1, <3>1, <4>1, <4>2, <4>3 DEF InOrder
    <3> QED
      BY <1>2, <3>1, <3>2
  <2>2. CASE ~Insert /\ \A c \in Clients : ~HandlerStep(c)
    <3>1. clients' \subseteq clients
      BY <2>2 DEF Next, StopStep, AcceptorStep, HandlerStep, Start, BeginStop, StopListening,
                  JoinAcceptor, JoinWorkers, ClearClients, DestroyClients, AcceptLoop, Accept,
                  AcceptFails, Construct, ConstructFails, WorkerExits, Connect, Request, Close
    <3> QED
      BY <1>2, <1>4, <3>1
  <2> QED
    BY <1>3, <2>1, <2>2
<1>5. ASSUME Construct, NEW d \in Clients PROVE InOrder(d)'
  BY <1>2, <1>5 DEF Construct
<1> QED
  BY <1>3, <1>4, <1>5, StepKinds DEF EchoInOrder, InOrder

-------------------------------------------------------------------------------
(* The theorems                                                            *)

LEMMA InitInv ==
  ASSUME Init
  PROVE  Inv
<1>1. TypeOK
  BY InitType
<1>2. \A c : ~Accepted(c)
  BY EmptySeq DEF Init, Accepted
<1>3. ReaderInv /\ WriterInv /\ NoLostWakeup
  BY DEF Init, ReaderInv, WriterInv, NoLostWakeup
<1>4. AcceptInv
  BY <1>2 DEF Init, AcceptInv, NoThreads
<1>5. StopInv
  BY DEF Init, StopInv
<1>6. EchoInOrder
  <2>1. << >> \o << >> = << >> /\ Len(<< >>) = 0
    BY ConcatEmptySeq, EmptySeq
  <2>2. \A c \in Clients : Answers(c) = << >> /\ c \notin clients
    BY <2>1 DEF Init, Answers
  <2>3. << >> = [i \in 1 .. Len(<< >>) |-> i]
    BY <2>1, EmptyInOrder
  <2> QED
    BY <2>1, <2>2, <2>3 DEF EchoInOrder
<1> QED
  BY <1>1, <1>3, <1>4, <1>5, <1>6 DEF Inv

LEMMA InvStep == Inv /\ [Next]_vars => Inv'
<1> SUFFICES ASSUME Inv, [Next]_vars PROVE Inv'
  OBVIOUS
<1>1. TypeOK'
  BY TypeStep DEF Inv
<1> QED
  BY <1>1, ReaderInvStep, WriterInvStep, AcceptInvStep, StopInvStep, EchoStep DEF Inv

\* The invariant of acceptLoop, handleRead, handleWrite and stop() holds of every server.
THEOREM ServerInvariant == Spec => []Inv
<1>1. Init => Inv
  BY InitInv
<1> QED
  BY <1>1, InvStep, PTL DEF Spec

\* Every variable of the server keeps to its type.
THEOREM ServerTypes == Spec => []TypeOK
<1>1. Inv => TypeOK
  BY DEF Inv
<1> QED
  BY <1>1, ServerInvariant, PTL

\* response() and handleWrite lose, repeat and reorder no answer, whatever the number of
\* requests, the interleaving of the two threads of a handler, and the insertion into
\* clients_ that comes after they have started.
THEOREM AnswersInOrder == Spec => []EchoInOrder
<1>1. Inv => EchoInOrder
  BY DEF Inv
<1> QED
  BY <1>1, ServerInvariant, PTL

\* The notify_one of write() never falls between a writer's look at its queue and its wait.
THEOREM WakeupsArrive == Spec => []NoLostWakeup
<1>1. Inv => NoLostWakeup
  BY DEF Inv
<1> QED
  BY <1>1, ServerInvariant, PTL

\* After stop() has emptied clients_, the threads it has joined cannot fill it again.
THEOREM StopIsQuiet == Spec => []QuiescentAfterStop
<1>1. Inv => QuiescentAfterStop
  BY DEF Inv, StopInv, QuiescentAfterStop
<1> QED
  BY <1>1, ServerInvariant, PTL
===============================================================================
