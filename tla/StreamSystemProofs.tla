--------------------------- MODULE StreamSystemProofs ---------------------------
(***************************************************************************)
(* Proofs about StreamSystem, for any streams, threads and replies: the    *)
(* types, the order of the joins and the close() in the client's stop(),   *)
(* and that the reorder buffer of a stream is never blocked.               *)
(***************************************************************************)
EXTENDS StreamSystem, FiniteSets, FiniteSetTheorems, SequenceTheorems, NaturalsInduction,
        WellFoundedInduction, TLAPS

LEMMA NatOrder ==
  \E R : IsWellFoundedOn(R, Nat) /\ \A x, y \in Nat : y < x => <<y, x>> \in R
<1>1. \A x, y \in Nat : y < x => <<y, x>> \in OpToRel(<, Nat)
  BY DEF OpToRel
<1> QED
  BY <1>1, NatLessThanWellFounded, Zenon

\* A set of natural numbers has a least element: the form induction takes here.
LEMMA Least ==
  ASSUME NEW T \in SUBSET Nat, T # {}
  PROVE  \E x \in T : \A y \in T : x <= y
<1>1. PICK R : IsWellFoundedOn(R, Nat) /\ \A x, y \in Nat : y < x => <<y, x>> \in R
  BY NatOrder
<1>2. \E x \in T : \A y \in T : <<y, x>> \notin R
  BY <1>1, WFMin
<1>3. \A x, y \in Nat : ~(y < x) => x <= y
  OBVIOUS
<1>4. \A x \in T : x \in Nat
  OBVIOUS
<1> QED
  BY <1>1, <1>2, <1>3, <1>4, Zenon

LEMMA Induction ==
  ASSUME NEW T, 0 \in T, \A n \in Nat : n \in T => n + 1 \in T
  PROVE  Nat \subseteq T
<1> SUFFICES ASSUME Nat \ T # {} PROVE FALSE
  OBVIOUS
<1>1. PICK x \in Nat \ T : \A y \in Nat \ T : x <= y
  BY Least
<1>2. x # 0 /\ x - 1 \in Nat
  BY <1>1
<1> QED
  BY <1>1, <1>2

-------------------------------------------------------------------------------
(* The numbers of a stream and its reorder buffer.                         *)

LEMMA WrapIs ==
  ASSUME NEW n \in Nat
  PROVE  Wrap(n) \in Numbers /\ (n < WordSize => Wrap(n) = n)
<1>1. WordSize \in Nat \ {0}
  BY StreamAssumption
<1> QED
  BY <1>1 DEF Wrap, Numbers

\* The loop over the map ends at a number that the map lacks.
LEMMA GapIs ==
  ASSUME NEW queue \in SUBSET Numbers, NEW next \in Numbers
  PROVE  /\ Gap(queue, next) \in next .. WordSize /\ Gap(queue, next) \notin queue
         /\ next .. Gap(queue, next) - 1 \subseteq queue
<1> DEFINE IsGap(n) == n \notin queue /\ next .. n - 1 \subseteq queue
           T == {n \in next .. WordSize : n \notin queue}
<1>1. WordSize \in Nat \ {0} /\ next \in Nat /\ next < WordSize /\ WordSize \notin queue
  BY StreamAssumption DEF Numbers
<1>2. T \in SUBSET Nat /\ T # {}
  BY <1>1
<1>3. PICK g \in T : \A y \in T : g <= y
  <2> HIDE DEF T
  <2> QED
    BY <1>2, Least
<1>4. g \in next .. WordSize /\ IsGap(g)
  <2>1. ASSUME NEW i \in next .. g - 1 PROVE i \in queue
    BY <1>1, <1>3
  <2> QED
    BY <1>3, <2>1
<1> DEFINE h == CHOOSE n \in next .. WordSize : IsGap(n)
<1>5. h \in next .. WordSize /\ IsGap(h)
  BY <1>4
<1>6. Gap(queue, next) = h
  BY DEF Gap
<1> HIDE DEF h
<1> QED
  BY <1>5, <1>6

LEMMA DrainTypes ==
  ASSUME NEW queue \in SUBSET Numbers, NEW next \in Numbers
  PROVE  Drain(queue, next)[1] \in SUBSET Numbers /\ Drain(queue, next)[2] \in Numbers
<1>1. WordSize \in Nat /\ next \in Nat
  BY StreamAssumption DEF Numbers
<1>2. Gap(queue, next) \in Nat
  <2>1. Gap(queue, next) \in next .. WordSize
    BY GapIs
  <2> QED
    BY <1>1, <2>1
<1>3. Wrap(Gap(queue, next)) \in Numbers
  BY <1>2, WrapIs
<1> QED
  BY <1>3 DEF Drain

-------------------------------------------------------------------------------
(* The types.                                                              *)

LEMMA FrameIs ==
  /\ \A s \in Streams, n \in Numbers : /\ Frame(s, n) \in Frames
                                       /\ Frame(s, n).stream = s /\ Frame(s, n).sequence = n
  /\ \A f \in Frames : f.stream \in Streams /\ f.sequence \in Numbers
                       /\ f = Frame(f.stream, f.sequence)
  /\ NoFrame \notin Frames
<1>1. NoFrame \notin Frames
  BY SMT DEF NoFrame, Frames
<1> QED
  BY <1>1 DEF Frame, Frames

\* A thread that is to send a frame has one.
HasFrame ==
    /\ writer = "send" <=> writing \in Frames
    /\ serverReader = "handle" => handling \in Frames /\ replied < Replies
    /\ serverWriter = "send" => replying \in Frames

Typed == TypeOK /\ HasFrame

LEMMA InitTyped ==
  ASSUME Init
  PROVE  Typed
<1>1. /\ WordSize \in Nat \ {0} /\ Replies \in Nat \ {0} /\ MaxMessages \in Nat \ {0}
      /\ NetCap \in Nat \ {0}
  BY StreamAssumption
<1>2. 0 \in Numbers /\ 0 \in 0 .. MaxMessages /\ 0 \in 0 .. Replies
  BY <1>1 DEF Numbers
<1>3. << >> \in Seq(Frames) /\ Len(<< >>) = 0
  BY EmptySeq
<1>4. NoFrame \notin Frames
  BY FrameIs
<1>5. HasFrame
  BY <1>4 DEF Init, HasFrame
<1>6. TypeOK
  BY <1>1, <1>2, <1>3 DEF Init, TypeOK
<1> QED
  BY <1>5, <1>6 DEF Typed

\* Frames go into a queue at one end and leave it at the other.
LEMMA QueueTypes ==
  ASSUME NEW q \in Seq(Frames)
  PROVE  /\ \A f \in Frames : Append(q, f) \in Seq(Frames) /\ Len(Append(q, f)) = Len(q) + 1
         /\ q # << >> => /\ Head(q) \in Frames /\ Tail(q) \in Seq(Frames)
                         /\ Len(Tail(q)) = Len(q) - 1 /\ Len(q) \in Nat
BY AppendProperties, HeadTailProperties, LenProperties

LEMMA TypedStep ==
  ASSUME Typed, [Next]_vars
  PROVE  Typed'
<1> USE DEF senderVars, writerVars, readerVars, mainVars, clientVars, sreaderVars,
            swriterVars, serverVars, net
<1>a. /\ TypeOK /\ HasFrame
      /\ outgoing \in Seq(Frames) /\ replyQueue \in Seq(Frames) /\ toServer \in Seq(Frames)
      /\ toClient \in Seq(Frames) /\ writing \in Frames \cup {NoFrame}
      /\ handling \in Frames \cup {NoFrame} /\ replying \in Frames \cup {NoFrame}
      /\ NoFrame \notin Frames
  BY FrameIs DEF Typed, TypeOK
<1>b. /\ StreamOf \in [Threads -> Streams] /\ WordSize \in Nat \ {0} /\ Replies \in Nat \ {0}
      /\ MaxMessages \in Nat \ {0} /\ NetCap \in Nat \ {0}
  BY StreamAssumption
<1>1. ASSUME NEW t \in Threads, TakeNumber(t) PROVE Typed'
  <2> DEFINE s == StreamOf[t]
  <2>1. s \in Streams /\ sequence[s] \in Numbers /\ sequence[s] + 1 \in Nat
    BY <1>a, <1>b DEF TypeOK, Numbers
  <2>2. NextNumber(sequence[s]) \in Numbers
    BY <2>1, WrapIs DEF NextNumber
  <2>3. messages[t] + 1 \in 0 .. MaxMessages
    BY <1>1, <1>a, <1>b DEF TakeNumber, TypeOK
  <2>4. /\ number' \in [Threads -> Numbers] /\ sequence' \in [Streams -> Numbers]
        /\ messages' \in [Threads -> 0 .. MaxMessages] /\ thread' \in [Threads -> {"idle", "push"}]
    BY <1>1, <1>a, <2>1, <2>2, <2>3 DEF TakeNumber, TypeOK
  <2>5. TypeOK'
    BY <1>1, <1>a, <2>4 DEF TakeNumber, TypeOK
  <2>6. HasFrame'
    BY <1>1, <1>a DEF TakeNumber, HasFrame
  <2> QED
    BY <2>5, <2>6 DEF Typed
<1>2. ASSUME NEW t \in Threads, PushFrame(t) PROVE Typed'
  <2>1. Frame(StreamOf[t], number[t]) \in Frames
    BY <1>a, <1>b, FrameIs DEF TypeOK
  <2>2. outgoing' \in Seq(Frames) /\ thread' \in [Threads -> {"idle", "push"}]
    BY <1>2, <1>a, <2>1, QueueTypes DEF PushFrame, TypeOK
  <2>3. writer' \in {"check", "wait", "send", "exited"} /\ (writer' = "send" <=> writer = "send")
    BY <1>2, <1>a DEF PushFrame, Notify, TypeOK
  <2>4. TypeOK'
    BY <1>2, <1>a, <2>2, <2>3 DEF PushFrame, TypeOK
  <2>5. HasFrame'
    BY <1>2, <1>a, <2>3 DEF PushFrame, HasFrame
  <2> QED
    BY <2>4, <2>5 DEF Typed
<1>3. CASE WriterStep \/ WakeUp
  <2>1. CASE WriterSend
    <3>1. /\ toServer' = Append(toServer, writing) /\ writing \in Frames
          /\ writer' = "check" /\ writing' = NoFrame /\ Len(toServer) < NetCap
      BY <2>1, <1>a DEF WriterSend, HasFrame, Room
    <3>2. toServer' \in Seq(Frames) /\ Len(toServer') <= NetCap
      <4>1. Len(toServer) \in Nat
        BY <1>a, LenProperties
      <4> QED
        BY <1>a, <1>b, <3>1, <4>1, QueueTypes
    <3>3. TypeOK'
      BY <2>1, <1>a, <3>1, <3>2 DEF WriterSend, TypeOK
    <3>4. HasFrame'
      BY <2>1, <1>a, <3>1 DEF WriterSend, HasFrame
    <3> QED
      BY <3>3, <3>4 DEF Typed
  <2>2. CASE WriterLoop
    <3>1. /\ outgoing' \in Seq(Frames) /\ writing' \in Frames \cup {NoFrame}
          /\ writer' \in {"check", "wait", "send", "exited"}
          /\ writer' = "send" <=> writing' \in Frames
      BY <2>2, <1>a, QueueTypes DEF WriterLoop, HasFrame, TypeOK
    <3>2. TypeOK'
      BY <2>2, <1>a, <3>1 DEF WriterLoop, TypeOK
    <3>3. HasFrame'
      BY <2>2, <1>a, <3>1 DEF WriterLoop, HasFrame
    <3> QED
      BY <3>2, <3>3 DEF Typed
  <2>3. CASE WakeUp
    BY <2>3, <1>a DEF WakeUp, Typed, TypeOK, HasFrame
  <2> QED
    BY <1>3, <2>1, <2>2, <2>3 DEF WriterStep
<1>4. CASE ReaderStep
  <2>1. CASE ReaderLoop
    BY <2>1, <1>a DEF ReaderLoop, Typed, TypeOK, HasFrame
  <2>2. CASE ShowFrame
    <3> DEFINE s == Head(toClient).stream
               n == Head(toClient).sequence
               queue == streamQueue[s] \cup {n}
               drained == Drain(queue, shown[s])
    <3>1. s \in Streams /\ n \in Numbers
      BY <2>2, <1>a, QueueTypes, FrameIs DEF ShowFrame
    <3>2. queue \in SUBSET Numbers /\ shown[s] \in Numbers
      BY <1>a, <3>1 DEF TypeOK
    <3>3. drained[1] \in SUBSET Numbers /\ drained[2] \in Numbers
      BY <3>2, DrainTypes
    <3>4. /\ streamQueue' = [streamQueue EXCEPT ![s] = drained[1]]
          /\ shown' = [shown EXCEPT ![s] = drained[2]]
      BY <2>2 DEF ShowFrame
    <3> HIDE DEF drained, queue
    <3>5. streamQueue' \in [Streams -> SUBSET Numbers] /\ shown' \in [Streams -> Numbers]
      BY <1>a, <3>1, <3>3, <3>4 DEF TypeOK
    <3>6. toClient' \in Seq(Frames) /\ Len(toClient') <= NetCap
      BY <2>2, <1>a, <1>b, QueueTypes DEF ShowFrame, TypeOK
    <3>7. reader' \in {"check", "recv", "exited"}
      BY <2>2, <1>a DEF ShowFrame, TypeOK
    <3> HIDE DEF s, n
    <3>8. UNCHANGED <<senderVars, outgoing, writerVars, mainVars, serverVars, toServer>>
      BY <2>2 DEF ShowFrame
    <3>9. TypeOK'
      BY <1>a, <3>5, <3>6, <3>7, <3>8 DEF TypeOK
    <3>10. HasFrame'
      BY <1>a, <3>8 DEF HasFrame
    <3> QED
      BY <3>9, <3>10 DEF Typed
  <2> QED
    BY <1>4, <2>1, <2>2 DEF ReaderStep
<1>5. CASE ServerReaderStep
  <2>1. CASE ServerRecv
    <3>1. /\ handling' \in Frames /\ replied' = 0 /\ 0 < Replies /\ 0 \in 0 .. Replies
          /\ toServer' \in Seq(Frames) /\ Len(toServer') <= NetCap
      BY <2>1, <1>a, <1>b, QueueTypes DEF ServerRecv, TypeOK
    <3>2. TypeOK'
      BY <2>1, <1>a, <3>1 DEF ServerRecv, TypeOK
    <3>3. HasFrame'
      BY <2>1, <1>a, <3>1 DEF ServerRecv, HasFrame
    <3> QED
      BY <3>2, <3>3 DEF Typed
  <2>2. CASE ServerRecvEnd
    <3>1. TypeOK'
      BY <2>2, <1>a DEF ServerRecvEnd, TypeOK
    <3>2. HasFrame'
      BY <2>2, <1>a DEF ServerRecvEnd, HasFrame
    <3> QED
      BY <3>1, <3>2 DEF Typed
  <2>3. CASE QueueReply
    <3>1. /\ handling \in Frames /\ replied \in 0 .. Replies - 1 /\ replied' = replied + 1
      BY <2>3, <1>a, <1>b DEF QueueReply, HasFrame, TypeOK
    <3> DEFINE f == Frame(handling.stream, ReplyNumber(handling.sequence, replied))
    <3>2. f \in Frames
      <4>1. handling.stream \in Streams /\ handling.sequence \in Nat
        BY <3>1, <1>b, FrameIs DEF Numbers
      <4>2. handling.sequence * Replies + replied \in Nat
        BY <4>1, <3>1, <1>b
      <4> QED
        BY <4>1, <4>2, WrapIs, FrameIs DEF ReplyNumber
    <3>3. replyQueue' \in Seq(Frames)
      <4> HIDE DEF f
      <4>1. replyQueue' = Append(replyQueue, f)
        BY <2>3 DEF QueueReply, f
      <4> QED
        BY <1>a, <3>2, <4>1, QueueTypes
    <3>4. /\ replied' \in 0 .. Replies /\ serverReader' \in {"recv", "handle", "exited"}
          /\ handling' \in Frames \cup {NoFrame}
          /\ serverReader' = "handle" => handling' \in Frames /\ replied' < Replies
      BY <2>3, <3>1, <1>b DEF QueueReply, RepliesLeft
    <3>5. TypeOK'
      BY <2>3, <1>a, <3>3, <3>4 DEF QueueReply, RepliesLeft, TypeOK
    <3>6. HasFrame'
      BY <2>3, <1>a, <3>4 DEF QueueReply, RepliesLeft, HasFrame
    <3> QED
      BY <3>5, <3>6 DEF Typed
  <2> QED
    BY <1>5, <2>1, <2>2, <2>3 DEF ServerReaderStep
<1>6. CASE ServerWriterStep
  <2>1. CASE Poll
    <3>1. replyQueue' \in Seq(Frames) /\ replying' \in Frames
      BY <2>1, <1>a, QueueTypes DEF Poll
    <3>2. TypeOK'
      BY <2>1, <1>a, <3>1 DEF Poll, TypeOK
    <3>3. HasFrame'
      BY <2>1, <1>a, <3>1 DEF Poll, HasFrame
    <3> QED
      BY <3>2, <3>3 DEF Typed
  <2>2. CASE ServerSend
    <3>1. replying \in Frames
      BY <2>2, <1>a DEF ServerSend, HasFrame
    <3>2. toClient' \in Seq(Frames) /\ Len(toClient') <= NetCap
      <4>1. Len(toClient) \in Nat /\ Len(toClient) <= NetCap
        BY <1>a, LenProperties DEF TypeOK
      <4>2. \/ UNCHANGED toClient
            \/ toClient' = Append(toClient, replying) /\ Len(toClient) < NetCap
        BY <2>2 DEF ServerSend, Room
      <4>3. /\ Append(toClient, replying) \in Seq(Frames)
            /\ Len(Append(toClient, replying)) = Len(toClient) + 1
        BY <1>a, <3>1, QueueTypes
      <4>4. CASE UNCHANGED toClient
        BY <1>a, <4>1, <4>4
      <4>5. CASE toClient' = Append(toClient, replying) /\ Len(toClient) < NetCap
        <5>1. Len(toClient) + 1 <= NetCap
          BY <1>b, <4>1, <4>5
        <5> QED
          BY <4>3, <4>5, <5>1
      <4> QED
        BY <4>2, <4>4, <4>5
    <3>3. server' \in {"alive", "killed"}
      BY <2>2, <1>a DEF ServerSend, TypeOK
    <3>4. TypeOK'
      BY <2>2, <1>a, <3>2, <3>3 DEF ServerSend, TypeOK
    <3>5. HasFrame'
      BY <2>2, <1>a DEF ServerSend, HasFrame
    <3> QED
      BY <3>4, <3>5 DEF Typed
  <2> QED
    BY <1>6, <2>1, <2>2 DEF ServerWriterStep
<1>7. CASE BeginStop \/ JoinReader \/ JoinWriter
  <2>1. /\ UNCHANGED <<senderVars, outgoing, writerVars, readerVars, serverVars, net>>
        /\ main' \in {"up", "joinReader", "joinWriter", "stopped"}
        /\ running' \in BOOLEAN /\ socket' \in {"open", "closed"}
    BY <1>7, <1>a DEF BeginStop, JoinReader, JoinWriter, TypeOK
  <2>2. TypeOK'
    BY <2>1, <1>a DEF TypeOK
  <2>3. HasFrame'
    BY <2>1, <1>a DEF HasFrame
  <2> QED
    BY <2>2, <2>3 DEF Typed
<1>8. CASE UNCHANGED vars
  <2>1. TypeOK'
    BY <1>8, <1>a DEF vars, TypeOK
  <2>2. HasFrame'
    BY <1>8, <1>a DEF vars, HasFrame
  <2> QED
    BY <2>1, <2>2 DEF Typed
<1> QED
  BY <1>1, <1>2, <1>3, <1>4, <1>5, <1>6, <1>7, <1>8 DEF Next

\* Every variable of the streaming client and the streaming server has its type, the
\* socket buffers never hold more than they take, and no thread sends a frame it has not got.
THEOREM SystemTypes == Spec => []TypeOK
<1>1. Init => Typed
  BY InitTyped
<1>2. Typed /\ [Next]_vars => Typed'
  BY TypedStep
<1>3. Typed => TypeOK
  BY DEF Typed
<1> QED
  BY <1>1, <1>2, <1>3, PTL DEF Spec

-------------------------------------------------------------------------------
(* The messages asked on a stream.                                         *)

One(T) == CHOOSE x \in T : TRUE

\* h[T] is the sum of g over the elements of T, for every subset T of S.
Sums(h, S, g) ==
    h = [T \in SUBSET S |-> IF T = {} THEN 0 ELSE g[One(T)] + h[T \ {One(T)}]]

LEMMA SmallerSet ==
  ASSUME NEW S, IsFiniteSet(S), NEW T \in SUBSET S, T # {}
  PROVE  /\ One(T) \in T /\ T \ {One(T)} \in SUBSET S
         /\ Cardinality(T) \in Nat /\ Cardinality(T) # 0
         /\ Cardinality(T \ {One(T)}) = Cardinality(T) - 1
<1>1. One(T) \in T
  BY DEF One
<1>2. IsFiniteSet(T)
  BY FS_Subset
<1> QED
  BY <1>1, <1>2, FS_RemoveElement, FS_CardinalityType, FS_EmptySet

LEMMA SumsExist ==
  ASSUME NEW S, IsFiniteSet(S), NEW g \in [S -> Nat]
  PROVE  \E h : Sums(h, S, g)
<1> DEFINE Turn(h, T) == IF T = {} THEN 0 ELSE g[One(T)] + h[T \ {One(T)}]
           Good(h, m) == /\ h \in [SUBSET S -> Nat]
                         /\ \A T \in SUBSET S : Cardinality(T) <= m => h[T] = Turn(h, T)
           M == {m \in Nat : \E h : Good(h, m)}
<1>0. \A T \in SUBSET S : T # {} =>
        /\ One(T) \in T /\ T \ {One(T)} \in SUBSET S /\ g[One(T)] \in Nat
        /\ Cardinality(T \ {One(T)}) = Cardinality(T) - 1
  BY SmallerSet
<1>00. \A T \in SUBSET S : Cardinality(T) \in Nat /\ (Cardinality(T) = 0 => T = {})
  BY FS_Subset, FS_CardinalityType, FS_EmptySet
<1>1. 0 \in M
  <2> DEFINE h == [T \in SUBSET S |-> 0]
  <2>1. h \in [SUBSET S -> Nat]
    OBVIOUS
  <2>2. ASSUME NEW T \in SUBSET S, Cardinality(T) <= 0 PROVE h[T] = Turn(h, T)
    <3>1. T = {}
      BY <1>00, <2>2
    <3> QED
      BY <3>1
  <2>3. Good(h, 0)
    BY <2>1, <2>2
  <2> QED
    BY <2>3
<1>2. ASSUME NEW m \in Nat, m \in M PROVE m + 1 \in M
  <2>1. PICK h : Good(h, m)
    BY <1>2
  <2> DEFINE k == [T \in SUBSET S |-> IF Cardinality(T) = m + 1 THEN Turn(h, T) ELSE h[T]]
  <2>2. k \in [SUBSET S -> Nat]
    <3>1. ASSUME NEW T \in SUBSET S PROVE Turn(h, T) \in Nat /\ h[T] \in Nat
      <4>1. h[T] \in Nat
        BY <2>1
      <4>2. CASE T # {}
        <5>1. g[One(T)] \in Nat /\ T \ {One(T)} \in SUBSET S
          BY <1>0, <4>2
        <5>2. h[T \ {One(T)}] \in Nat
          BY <2>1, <5>1
        <5> QED
          BY <4>1, <5>1, <5>2
      <4> QED
        BY <4>1, <4>2
    <3> QED
      BY <3>1
  <2>3. ASSUME NEW T \in SUBSET S, Cardinality(T) <= m + 1 PROVE k[T] = Turn(k, T)
    <3>1. CASE T = {}
      <4>1. Cardinality(T) # m + 1
        BY <3>1, FS_EmptySet
      <4>2. k[T] = h[T] /\ h[T] = Turn(h, T)
        BY <2>1, <3>1, <4>1, FS_EmptySet
      <4> QED
        BY <3>1, <4>2
    <3>2. CASE T # {}
      <4> DEFINE U == T \ {One(T)}
      <4>1. U \in SUBSET S /\ Cardinality(U) = Cardinality(T) - 1 /\ Cardinality(T) \in Nat
        BY <1>0, <1>00, <3>2
      <4>2. k[U] = h[U]
        <5>1. Cardinality(U) # m + 1
          BY <2>3, <4>1
        <5> HIDE DEF U
        <5> QED
          BY <4>1, <5>1
      <4>3. k[T] = Turn(h, T)
        <5>1. CASE Cardinality(T) = m + 1
          BY <5>1
        <5>2. CASE Cardinality(T) # m + 1
          BY <1>00, <2>1, <2>3, <5>2
        <5> QED
          BY <5>1, <5>2
      <4> HIDE DEF k
      <4> QED
        BY <3>2, <4>2, <4>3
    <3> QED
      BY <3>1, <3>2
  <2> HIDE DEF k
  <2>4. Good(k, m + 1)
    BY <2>2, <2>3
  <2> QED
    BY <2>4
<1>3. Nat \subseteq M
  <2> HIDE DEF M
  <2> QED
    BY <1>1, <1>2, Induction
<1>4. PICK h : Good(h, Cardinality(S))
  <2>1. Cardinality(S) \in Nat
    BY FS_CardinalityType
  <2> QED
    BY <1>3, <2>1
<1>5. \A T \in SUBSET S : h[T] = Turn(h, T)
  <2>1. \A T \in SUBSET S : Cardinality(T) <= Cardinality(S)
    BY FS_Subset
  <2> QED
    BY <1>4, <2>1
<1>6. h = [T \in SUBSET S |-> Turn(h, T)]
  BY <1>4, <1>5
<1> QED
  BY <1>6 DEF Sums

\* g2 is g with one more at x.
Increment(g, g2, S, x) == \A y \in S : g2[y] = IF y = x THEN g[y] + 1 ELSE g[y]

\* One more at one element is one more in the sum over every set that has it.
LEMMA SumsNext ==
  ASSUME NEW S, IsFiniteSet(S), NEW g \in [S -> Nat], NEW g2 \in [S -> Nat], NEW x,
         Increment(g, g2, S, x),
         NEW h, Sums(h, S, g), NEW h2, Sums(h2, S, g2)
  PROVE  \A T \in SUBSET S : /\ h[T] \in Nat
                             /\ h2[T] = IF x \in T THEN h[T] + 1 ELSE h[T]
<1> DEFINE Good(T) == h[T] \in Nat /\ h2[T] = IF x \in T THEN h[T] + 1 ELSE h[T]
           M == {m \in Nat : \A T \in SUBSET S : Cardinality(T) = m => Good(T)}
<1>a. \A T \in SUBSET S : Cardinality(T) \in Nat /\ (Cardinality(T) = 0 => T = {})
  BY FS_Subset, FS_CardinalityType, FS_EmptySet
<1>1. 0 \in M
  <2>1. h[{}] = 0 /\ h2[{}] = 0
    BY DEF Sums
  <2>2. Good({})
    BY <2>1
  <2> QED
    BY <1>a, <2>2
<1>2. ASSUME NEW m \in Nat, m \in M PROVE m + 1 \in M
  <2> SUFFICES ASSUME NEW T \in SUBSET S, Cardinality(T) = m + 1 PROVE Good(T)
    OBVIOUS
  <2> DEFINE y == One(T)
             U == T \ {y}
  <2>1. T # {} /\ m + 1 - 1 = m
    <3>1. Cardinality({}) = 0
      BY FS_EmptySet
    <3> QED
      BY <3>1
  <2>2. y \in T /\ y \in S /\ U \in SUBSET S /\ Cardinality(U) = m
    BY <2>1, SmallerSet
  <2>3. h[T] = g[y] + h[U] /\ h2[T] = g2[y] + h2[U]
    BY <2>1 DEF Sums
  <2>4. x \in U <=> x \in T /\ x # y
    OBVIOUS
  <2> HIDE DEF y, U
  <2>5. h[U] \in Nat /\ h2[U] = IF x \in U THEN h[U] + 1 ELSE h[U]
    BY <1>2, <2>2
  <2>6. g[y] \in Nat /\ g2[y] = IF y = x THEN g[y] + 1 ELSE g[y]
    BY <2>2 DEF Increment
  <2> QED
    BY <2>2, <2>3, <2>4, <2>5, <2>6
<1>3. Nat \subseteq M
  <2> HIDE DEF M
  <2> QED
    BY <1>1, <1>2, Induction
<1> QED
  BY <1>a, <1>3

LEMMA SentIs ==
  ASSUME NEW sent \in [Threads -> Nat], NEW s \in Streams
  PROVE  LET S == {t \in Threads : StreamOf[t] = s}
         IN  \E h : Sums(h, S, sent) /\ Sent(sent, s) = h[S]
<1> DEFINE S == {t \in Threads : StreamOf[t] = s}
           g == [t \in S |-> sent[t]]
           h == CHOOSE h : h = [T \in SUBSET S |->
                                 IF T = {} THEN 0
                                 ELSE sent[CHOOSE x \in T : TRUE] + h[T \ {CHOOSE x \in T : TRUE}]]
<1>1. Sent(sent, s) = h[S]
  BY DEF Sent, FoldFunctionOnSet, MapThenFoldSet
<1>2. IsFiniteSet(S) /\ g \in [S -> Nat]
  BY StreamAssumption, FS_Subset
<1>3. \E k : Sums(k, S, sent)
  <2>1. PICK k : Sums(k, S, g)
    <3> HIDE DEF g, S
    <3> QED
      BY <1>2, SumsExist
  <2>2. \A T \in SUBSET S : T # {} => g[One(T)] = sent[One(T)]
    BY DEF One
  <2>3. k = [T \in SUBSET S |-> IF T = {} THEN 0 ELSE sent[One(T)] + k[T \ {One(T)}]]
    <3> HIDE DEF g, S
    <3> QED
      BY <2>1, <2>2 DEF Sums
  <2> QED
    BY <2>3 DEF Sums
<1>4. Sums(h, S, sent)
  <2> HIDE DEF S
  <2> QED
    BY <1>3 DEF Sums, One
<1> HIDE DEF h
<1> QED
  BY <1>1, <1>4

OneSent(sent, next, t) == next = [sent EXCEPT ![t] = @ + 1]

\* A thread that begins a message adds one to its stream.
LEMMA SentNext ==
  ASSUME NEW sent \in [Threads -> Nat], NEW t \in Threads, NEW s \in Streams,
         NEW next, OneSent(sent, next, t)
  PROVE  /\ Sent(sent, s) \in Nat
         /\ Sent(next, s) = IF StreamOf[t] = s THEN Sent(sent, s) + 1 ELSE Sent(sent, s)
<1> DEFINE S == {u \in Threads : StreamOf[u] = s}
           g == [u \in S |-> sent[u]]
           g2 == [u \in S |-> next[u]]
<1>1. next \in [Threads -> Nat]
  BY DEF OneSent
<1>2. PICK h : Sums(h, S, sent) /\ Sent(sent, s) = h[S]
  BY SentIs
<1>3. PICK h2 : Sums(h2, S, next) /\ Sent(next, s) = h2[S]
  BY <1>1, SentIs
<1>4. /\ IsFiniteSet(S) /\ g \in [S -> Nat] /\ g2 \in [S -> Nat]
      /\ Increment(g, g2, S, t) /\ (t \in S <=> StreamOf[t] = s)
  BY StreamAssumption, FS_Subset DEF Increment, OneSent
<1>5. \A T \in SUBSET S : T # {} => g[One(T)] = sent[One(T)] /\ g2[One(T)] = next[One(T)]
  BY DEF One
<1> HIDE DEF g, g2, S
<1>6. Sums(h, S, g) /\ Sums(h2, S, g2)
  BY <1>2, <1>3, <1>5 DEF Sums
<1>7. \A T \in SUBSET S : h[T] \in Nat /\ h2[T] = IF t \in T THEN h[T] + 1 ELSE h[T]
  BY <1>4, <1>6, SumsNext
<1>8. h[S] \in Nat /\ h2[S] = IF t \in S THEN h[S] + 1 ELSE h[S]
  BY <1>7
<1> QED
  BY <1>2, <1>3, <1>4, <1>8

LEMMA SentZero ==
  ASSUME NEW s \in Streams
  PROVE  Sent([t \in Threads |-> 0], s) = 0
<1> DEFINE S == {u \in Threads : StreamOf[u] = s}
           zero == [t \in Threads |-> 0]
           M == {m \in Nat : \A h : Sums(h, S, zero) =>
                               \A T \in SUBSET S : Cardinality(T) = m => h[T] = 0}
<1>1. PICK h : Sums(h, S, zero) /\ Sent(zero, s) = h[S]
  <2>1. zero \in [Threads -> Nat]
    OBVIOUS
  <2> HIDE DEF zero
  <2> QED
    BY <2>1, SentIs
<1>2. IsFiniteSet(S)
  BY StreamAssumption, FS_Subset
<1>3. \A T \in SUBSET S : T # {} => One(T) \in Threads /\ zero[One(T)] = 0
  BY DEF One
<1>a. \A T \in SUBSET S : Cardinality(T) \in Nat /\ (Cardinality(T) = 0 => T = {})
  <2> HIDE DEF S
  <2> QED
    BY <1>2, FS_Subset, FS_CardinalityType, FS_EmptySet
<1> HIDE DEF zero, S
<1>4. 0 \in M
  BY <1>a DEF Sums
<1>5. ASSUME NEW m \in Nat, m \in M PROVE m + 1 \in M
  <2> SUFFICES ASSUME NEW k, Sums(k, S, zero), NEW T \in SUBSET S, Cardinality(T) = m + 1
               PROVE  k[T] = 0
    OBVIOUS
  <2> DEFINE U == T \ {One(T)}
  <2>1. T # {} /\ m + 1 - 1 = m
    <3>1. Cardinality({}) = 0
      BY FS_EmptySet
    <3> QED
      BY <3>1
  <2>2. U \in SUBSET S /\ Cardinality(U) = m
    BY <1>2, <2>1, SmallerSet
  <2>3. k[T] = zero[One(T)] + k[U]
    BY <2>1 DEF Sums
  <2> HIDE DEF U
  <2>4. k[U] = 0
    BY <1>5, <2>2
  <2> QED
    BY <1>3, <2>1, <2>3, <2>4
<1>6. Nat \subseteq M
  <2> HIDE DEF M
  <2> QED
    BY <1>4, <1>5, Induction
<1>7. h[S] = 0
  BY <1>1, <1>a, <1>6
<1> QED
  BY <1>1, <1>7 DEF zero

-------------------------------------------------------------------------------
(* Where every request and every reply is.                                 *)

LEMMA DivUnique ==
  ASSUME NEW m \in Nat, NEW d \in Nat \ {0}, NEW i \in 0 .. d - 1
  PROVE  (m * d + i) \div d = m /\ (m * d + i) % d = i
<1> DEFINE n == m * d + i
<1>1. n \in Nat
  OBVIOUS
<1>2. n \div d \in Nat /\ n % d \in 0 .. d - 1 /\ n = (n \div d) * d + (n % d)
  <2> HIDE DEF n
  <2> QED
    BY <1>1
<1> QED
  BY <1>2

LEMMA DivMod ==
  ASSUME NEW n \in Nat, NEW d \in Nat \ {0}
  PROVE  /\ n \div d \in Nat /\ n % d \in 0 .. d - 1 /\ n \div d <= n
         /\ n = (n \div d) * d + (n % d)
OBVIOUS

\* The frames of q are at p and nowhere else in q.
Queued(q, at, p) ==
    /\ \A i \in 1 .. Len(q) : at[q[i]] = p
    /\ \A i, j \in 1 .. Len(q) : q[i] = q[j] => i = j

LEMMA QueueEnters ==
  ASSUME NEW q \in Seq(Frames), NEW P, NEW at \in [Frames -> P], NEW p, NEW f \in Frames,
         Queued(q, at, p), at[f] # p
  PROVE  Queued(Append(q, f), [at EXCEPT ![f] = p], p)
<1> DEFINE b == Append(q, f)
           new == [at EXCEPT ![f] = p]
<1>1. /\ Len(q) \in Nat /\ Len(b) = Len(q) + 1 /\ b[Len(q) + 1] = f
      /\ \A i \in 1 .. Len(q) : b[i] = q[i] /\ q[i] \in Frames
  BY AppendProperties, LenProperties, ElementOfSeq
<1>2. \A i \in 1 .. Len(q) : q[i] # f
  BY DEF Queued
<1>3. new[f] = p /\ \A i \in 1 .. Len(q) : new[q[i]] = at[q[i]]
  BY <1>1, <1>2
<1> HIDE DEF b, new
<1>4. \A i \in 1 .. Len(b) : i \in 1 .. Len(q) \/ i = Len(q) + 1
  BY <1>1
<1>5. ASSUME NEW i \in 1 .. Len(b) PROVE new[b[i]] = p
  BY <1>1, <1>3, <1>4 DEF Queued
<1>6. ASSUME NEW i \in 1 .. Len(b), NEW j \in 1 .. Len(b), b[i] = b[j] PROVE i = j
  <2>1. CASE i \in 1 .. Len(q) /\ j \in 1 .. Len(q)
    BY <1>1, <1>6, <2>1 DEF Queued
  <2>2. CASE i = Len(q) + 1 \/ j = Len(q) + 1
    BY <1>1, <1>2, <1>4, <1>6, <2>2
  <2> QED
    BY <1>4, <2>1, <2>2
<1>7. Queued(b, new, p)
  BY <1>5, <1>6 DEF Queued
<1> QED
  BY <1>7 DEF b, new

LEMMA QueueLeaves ==
  ASSUME NEW q \in Seq(Frames), q # << >>, NEW P, NEW at \in [Frames -> P], NEW p, NEW x,
         Queued(q, at, p)
  PROVE  at[Head(q)] = p /\ Queued(Tail(q), [at EXCEPT ![Head(q)] = x], p)
<1> DEFINE r == Tail(q)
           f == Head(q)
           new == [at EXCEPT ![f] = x]
<1>1. /\ Len(q) \in Nat \ {0} /\ f = q[1] /\ Len(r) = Len(q) - 1
      /\ \A i \in 1 .. Len(r) : r[i] = q[i + 1]
      /\ \A i \in 1 .. Len(q) : q[i] \in Frames
  BY HeadTailProperties, LenProperties, EmptySeq, ElementOfSeq
<1>2. \A i \in 1 .. Len(r) : i + 1 \in 1 .. Len(q) /\ i + 1 # 1
  BY <1>1
<1>3. \A i \in 1 .. Len(r) : r[i] # f
  BY <1>1, <1>2 DEF Queued
<1>4. \A i \in 1 .. Len(r) : new[r[i]] = at[r[i]]
  BY <1>1, <1>2, <1>3
<1> HIDE DEF r, f, new
<1>5. ASSUME NEW i \in 1 .. Len(r) PROVE new[r[i]] = p
  <2>1. at[q[i + 1]] = p
    BY <1>2 DEF Queued
  <2> QED
    BY <1>1, <1>4, <2>1
<1>6. ASSUME NEW i \in 1 .. Len(r), NEW j \in 1 .. Len(r), r[i] = r[j] PROVE i = j
  <2>1. i + 1 = j + 1
    BY <1>1, <1>2, <1>6 DEF Queued
  <2> QED
    BY <1>1, <2>1
<1>7. Queued(r, new, p)
  BY <1>5, <1>6 DEF Queued
<1>8. at[f] = p
  BY <1>1 DEF Queued
<1> QED
  BY <1>7, <1>8 DEF r, f, new

\* A frame that moves elsewhere, from elsewhere, leaves a queue as it is.
LEMMA QueueStays ==
  ASSUME NEW q \in Seq(Frames), NEW P, NEW at \in [Frames -> P], NEW p, NEW f \in Frames, NEW x,
         Queued(q, at, p), at[f] # p
  PROVE  Queued(q, [at EXCEPT ![f] = x], p)
<1> DEFINE new == [at EXCEPT ![f] = x]
<1>1. \A i \in 1 .. Len(q) : q[i] \in Frames /\ q[i] # f
  BY ElementOfSeq DEF Queued
<1>2. \A i \in 1 .. Len(q) : new[q[i]] = at[q[i]]
  BY <1>1
<1> HIDE DEF new
<1>3. Queued(q, new, p)
  BY <1>2 DEF Queued
<1> QED
  BY <1>3 DEF new

RequestPlaces == {"unasked", "held", "outgoing", "writing", "toServer", "handling", "done"}
ReplyPlaces == {"none", "replyQueue", "replying", "toClient", "lost", "streamQueue", "shown"}

Held(t) == thread[t] = "push"
Request(t) == Frame(StreamOf[t], number[t])

\* Every request is at one place, and no number is taken twice.
Requests(req) ==
    /\ req \in [Frames -> RequestPlaces]
    /\ \A f \in Frames : req[f] # "unasked" => f.sequence < sequence[f.stream]
    /\ \A t \in Threads : Held(t) => req[Request(t)] = "held"
    /\ \A t, u \in Threads : Held(t) /\ Held(u) /\ Request(t) = Request(u) => t = u
    /\ Queued(outgoing, req, "outgoing") /\ Queued(toServer, req, "toServer")
    /\ writer = "send" => req[writing] = "writing"
    /\ serverReader = "handle" => req[handling] = "handling"

\* The request that f is a reply to.
Cause(f) == Frame(f.stream, f.sequence \div Replies)

\* The loop of handleFrame has got to f.
Answered(req, f) ==
    \/ req[Cause(f)] = "done"
    \/ serverReader = "handle" /\ handling = Cause(f) /\ f.sequence % Replies < replied

\* Every reply is at one place, once its request has been answered, and the reader has
\* shown those below the number it waits for, and no other.
Answers(req, rep) ==
    /\ rep \in [Frames -> ReplyPlaces]
    /\ \A f \in Frames : rep[f] # "none" => Answered(req, f)
    /\ Queued(replyQueue, rep, "replyQueue") /\ Queued(toClient, rep, "toClient")
    /\ serverWriter = "send" => rep[replying] = "replying"
    /\ \A f \in Frames : f.sequence \in streamQueue[f.stream] => rep[f] = "streamQueue"
    /\ \A f \in Frames : f.sequence < shown[f.stream] => rep[f] = "shown"
    /\ \A s \in Streams : shown[s] \notin streamQueue[s]

Counted == \A s \in Streams : sequence[s] = Asked(s)

\* No stream has as many replies as there are sequence numbers.
RepliesFit == \A sent \in [Threads -> 0 .. MaxMessages], s \in Streams :
                  Replies * Sent(sent, s) < WordSize

Placed(req, rep) == Requests(req) /\ Answers(req, rep)
PlaceInv == Typed /\ Counted /\ \E req, rep : Placed(req, rep)

LEMMA SequenceFits ==
  ASSUME RepliesFit, Typed, Counted, NEW s \in Streams
  PROVE  /\ sequence[s] \in Nat /\ Replies * sequence[s] < WordSize
         /\ sequence[s] < WordSize
<1>1. messages \in [Threads -> 0 .. MaxMessages] /\ sequence[s] \in Nat
  BY StreamAssumption DEF Typed, TypeOK, Numbers
<1>2. Replies * sequence[s] < WordSize
  BY <1>1 DEF RepliesFit, Counted, Asked
<1>3. Replies \in Nat \ {0} /\ WordSize \in Nat
  BY StreamAssumption
<1>4. sequence[s] <= Replies * sequence[s]
  BY <1>1, <1>3
<1> QED
  BY <1>1, <1>2, <1>3, <1>4

LEMMA CauseIs ==
  ASSUME NEW f \in Frames
  PROVE  /\ Cause(f) \in Frames /\ Cause(f).stream = f.stream
         /\ Cause(f).sequence = f.sequence \div Replies
<1>1. f.stream \in Streams /\ f.sequence \in Numbers
  BY FrameIs
<1>2. f.sequence \div Replies \in Numbers
  <2>1. Replies \in Nat \ {0} /\ WordSize \in Nat \ {0} /\ f.sequence \in Nat
    BY <1>1, StreamAssumption DEF Numbers
  <2>2. f.sequence \div Replies \in Nat /\ f.sequence \div Replies <= f.sequence
    BY <2>1, DivMod
  <2> QED
    BY <1>1, <2>1, <2>2 DEF Numbers
<1> QED
  BY <1>1, <1>2, FrameIs DEF Cause

\* A reply that exists has a number below those of its stream's requests.
LEMMA ReplyFits ==
  ASSUME RepliesFit, Typed, Counted, NEW req, NEW rep, Placed(req, rep),
         NEW f \in Frames, rep[f] # "none"
  PROVE  f.sequence < Replies * sequence[f.stream]
<1> DEFINE r == Cause(f)
           m == f.sequence \div Replies
<1>1. /\ r \in Frames /\ r.stream = f.stream /\ r.sequence = m
      /\ f.stream \in Streams /\ f.sequence \in Numbers
  BY CauseIs, FrameIs
<1>2. req[r] # "unasked"
  <2>1. Answered(req, f)
    BY DEF Placed, Answers
  <2> QED
    BY <2>1 DEF Placed, Requests, Answered
<1>3. m < sequence[f.stream]
  <2> HIDE DEF r, m
  <2>1. r.sequence < sequence[r.stream]
    BY <1>1, <1>2 DEF Placed, Requests
  <2> QED
    BY <1>1, <2>1
<1>4. Replies \in Nat \ {0} /\ f.sequence \in Nat /\ sequence[f.stream] \in Nat
  BY <1>1, StreamAssumption, SequenceFits DEF Numbers
<1>5. m \in Nat /\ f.sequence < (m + 1) * Replies
  <2>1. /\ m \in Nat /\ f.sequence % Replies \in 0 .. Replies - 1
        /\ f.sequence = m * Replies + (f.sequence % Replies)
    BY <1>4, DivMod
  <2> HIDE DEF m
  <2> QED
    BY <1>4, <2>1
<1> HIDE DEF m
<1>6. (m + 1) * Replies <= sequence[f.stream] * Replies
  BY <1>3, <1>4, <1>5
<1> QED
  BY <1>4, <1>5, <1>6

LEMMA InitPlaced ==
  ASSUME Init
  PROVE  PlaceInv
<1> DEFINE req == [f \in Frames |-> "unasked"]
           rep == [f \in Frames |-> "none"]
<1>1. Typed
  BY InitTyped
<1>2. Counted
  BY SentZero DEF Init, Counted, Asked
<1>3. \A at, p : Queued(<< >>, at, p)
  BY EmptySeq DEF Queued
<1>4. Requests(req)
  BY <1>3 DEF Init, Requests, RequestPlaces, Held
<1>5. Answers(req, rep)
  <2>1. \A f \in Frames : f.stream \in Streams /\ f.sequence \in Nat
    BY FrameIs, StreamAssumption DEF Numbers
  <2> QED
    BY <1>3, <2>1 DEF Init, Answers, ReplyPlaces
<1>6. Placed(req, rep)
  BY <1>4, <1>5 DEF Placed
<1> QED
  BY <1>1, <1>2, <1>6 DEF PlaceInv

\* A step of the client's senders and its writer, or of the server's recv(), moves a request.
LEMMA TakePlaces ==
  ASSUME RepliesFit, Typed, Typed', Counted, NEW req, NEW rep, Placed(req, rep),
         NEW t \in Threads, TakeNumber(t)
  PROVE  Counted' /\ \E new : Placed(new, rep)'
<1> USE DEF senderVars, writerVars, readerVars, mainVars, clientVars, sreaderVars,
            swriterVars, serverVars, net
<1>s. PICK s \in Streams : s = StreamOf[t]
  BY StreamAssumption
<1>n. PICK n \in Numbers : n = sequence[s]
  BY DEF Typed, TypeOK
<1>f. PICK f \in Frames : f = Frame(s, n)
  BY FrameIs
<1>g. PICK new : new = [req EXCEPT ![f] = "held"]
  OBVIOUS
<1>1. n \in Nat /\ n = sequence[s] /\ f.stream = s /\ f.sequence = n /\ s = StreamOf[t]
  <2>1. n \in Nat
    BY StreamAssumption DEF Numbers
  <2> QED
    BY <1>s, <1>n, <1>f, <2>1, FrameIs
<1>2. Counted' /\ sequence' = [sequence EXCEPT ![s] = n + 1]
  <2>1. /\ messages \in [Threads -> Nat] /\ messages' \in [Threads -> 0 .. MaxMessages]
        /\ messages' = [messages EXCEPT ![t] = @ + 1]
        /\ sequence \in [Streams -> Numbers]
    BY StreamAssumption DEF Typed, TypeOK, TakeNumber
  <2>2. \A u \in Streams : Sent(messages', u) = IF s = u THEN sequence[u] + 1 ELSE sequence[u]
    <3>1. ASSUME NEW u \in Streams
          PROVE  Sent(messages', u) = IF s = u THEN Sent(messages, u) + 1 ELSE Sent(messages, u)
      <4>1. PICK m \in [Threads -> Nat] : m = messages
        BY <2>1
      <4>2. PICK m2 : m2 = messages'
        OBVIOUS
      <4>3. OneSent(m, m2, t)
        BY <2>1, <4>1, <4>2 DEF OneSent
      <4>4. Sent(m2, u) = IF StreamOf[t] = u THEN Sent(m, u) + 1 ELSE Sent(m, u)
        BY <4>3, SentNext
      <4> QED
        BY <1>1, <4>1, <4>2, <4>4
    <3> QED
      BY <3>1 DEF Counted, Asked
  <2>3. n + 1 < WordSize
    <3>1. Replies * (n + 1) < WordSize
      BY <1>1, <2>1, <2>2 DEF RepliesFit
    <3>2. Replies \in Nat \ {0} /\ WordSize \in Nat
      BY StreamAssumption
    <3>3. n + 1 <= Replies * (n + 1)
      BY <1>1, <3>2
    <3> QED
      BY <1>1, <3>1, <3>2, <3>3
  <2>4. NextNumber(n) = n + 1
    BY <1>1, <2>3, WrapIs DEF NextNumber
  <2>5. sequence' = [sequence EXCEPT ![s] = n + 1]
    BY <1>1, <2>4 DEF TakeNumber
  <2> QED
    BY <1>1, <2>1, <2>2, <2>5 DEF Counted, Asked
<1>3. req[f] = "unasked"
  BY <1>1 DEF Placed, Requests
<1>a. Requests(req) /\ Answers(req, rep) /\ req \in [Frames -> RequestPlaces]
  BY DEF Placed, Requests
<1>4. Requests(new)'
  <2>1. new \in [Frames -> RequestPlaces] /\ new[f] = "held" /\ \A g \in Frames : g # f => new[g] = req[g]
    BY <1>g, <1>1, <1>a DEF RequestPlaces
  <2>2. ASSUME NEW g \in Frames, new[g] # "unasked" PROVE g.sequence < sequence'[g.stream]
    <3>1. g.stream \in Streams /\ g.sequence \in Nat
      BY FrameIs, StreamAssumption DEF Numbers
    <3>2. CASE g = f
      BY <1>1, <1>2, <3>2 DEF Typed, TypeOK
    <3>3. CASE g # f
      <4>1. g.sequence < sequence[g.stream]
        BY <1>a, <2>1, <2>2, <3>3 DEF Requests
      <4>2. sequence'[g.stream] = IF g.stream = s THEN n + 1 ELSE sequence[g.stream]
        BY <1>2, <3>1 DEF Typed, TypeOK
      <4> QED
        BY <1>1, <3>1, <4>1, <4>2
    <3> QED
      BY <3>2, <3>3
  <2>3. \A u \in Threads : u # t => Held(u)' = Held(u) /\ Request(u)' = Request(u)
    BY DEF TakeNumber, Held, Request, Typed, TypeOK
  <2>4. Request(t)' = f
    BY <1>s, <1>n, <1>f DEF TakeNumber, Request, Typed, TypeOK
  <2>5. ASSUME NEW u \in Threads, Held(u), u # t PROVE Request(u) # f /\ Request(u) \in Frames
    <3>1. req[Request(u)] = "held" /\ Request(u) \in Frames
      BY <1>a, <2>5, FrameIs, StreamAssumption DEF Requests, Request, Typed, TypeOK
    <3> QED
      BY <1>3, <3>1
  <2>6. \A u \in Threads : Held(u)' => new[Request(u)'] = "held"
    <3> QED
      BY <1>a, <2>1, <2>3, <2>4, <2>5 DEF Requests
  <2>7. \A u, v \in Threads : Held(u)' /\ Held(v)' /\ Request(u)' = Request(v)' => u = v
    <3> QED
      BY <1>a, <2>3, <2>4, <2>5 DEF Requests
  <2>8. Queued(outgoing, new, "outgoing") /\ Queued(toServer, new, "toServer")
    <3>1. outgoing \in Seq(Frames) /\ toServer \in Seq(Frames)
      BY DEF Typed, TypeOK
    <3> QED
      BY <1>g, <1>1, <1>3, <1>a, <3>1, QueueStays DEF Requests
  <2>9. /\ writer = "send" => new[writing] = "writing"
        /\ serverReader = "handle" => new[handling] = "handling"
    BY <1>3, <1>a, <2>1 DEF Requests, Typed, HasFrame
  <2>10. UNCHANGED <<outgoing, toServer, writer, writing, serverReader, handling>>
    BY DEF TakeNumber
  <2> QED
    BY <2>1, <2>2, <2>6, <2>7, <2>8, <2>9, <2>10 DEF Requests
<1>5. Answers(new, rep)'
  <2>1. ASSUME NEW g \in Frames, rep[g] # "none" PROVE Answered(new, g)'
    <3>1. Answered(req, g)
      BY <1>a, <2>1 DEF Answers
    <3>2. req[Cause(g)] = "done" => new[Cause(g)] = "done"
      BY <1>g, <1>3, <1>a, CauseIs
    <3> QED
      BY <3>1, <3>2 DEF Answered, TakeNumber, Cause
  <2>2. UNCHANGED <<replyQueue, toClient, serverWriter, replying, streamQueue, shown>>
    BY DEF TakeNumber
  <2> QED
    BY <1>a, <2>1, <2>2 DEF Answers
<1>6. Placed(new, rep)'
  BY <1>4, <1>5 DEF Placed
<1> QED
  BY <1>2, <1>6

\* Nothing happens to the replies, nor to the reply loop while it runs.
RepliesStay ==
    /\ UNCHANGED <<sequence, replyQueue, toClient, serverWriter, replying, streamQueue, shown>>
    /\ UNCHANGED <<serverReader, handling, replied>> \/ serverReader = "recv"

\* Request f goes to p, with its reply loop still before it or under way.
Moves(req, f, p, new) ==
    /\ f \in Frames /\ req[f] \notin {"unasked", "done"} /\ p \in RequestPlaces \ {"unasked"}
    /\ new = [req EXCEPT ![f] = p]

\* A request that moves on, not to be answered yet, leaves the replies where they are.
LEMMA RequestMoves ==
  ASSUME NEW req, NEW rep, Placed(req, rep), RepliesStay,
         NEW f, NEW p, NEW new, Moves(req, f, p, new)
  PROVE  /\ new \in [Frames -> RequestPlaces] /\ new[f] = p
         /\ \A g \in Frames : g # f => new[g] = req[g]
         /\ \A g \in Frames : new[g] # "unasked" => g.sequence < sequence'[g.stream]
         /\ Answers(new, rep)'
<1>1. Requests(req) /\ Answers(req, rep) /\ req \in [Frames -> RequestPlaces]
  BY DEF Placed, Requests
<1>2. /\ new \in [Frames -> RequestPlaces] /\ new[f] = p
      /\ \A g \in Frames : g # f => new[g] = req[g]
  BY <1>1 DEF Moves
<1>3. ASSUME NEW g \in Frames, new[g] # "unasked" PROVE g.sequence < sequence'[g.stream]
  BY <1>1, <1>2, <1>3 DEF Requests, RepliesStay, Moves
<1>4. ASSUME NEW g \in Frames, rep[g] # "none" PROVE Answered(new, g)'
  <2>1. Answered(req, g)
    BY <1>1, <1>4 DEF Answers
  <2>2. req[Cause(g)] = "done" => new[Cause(g)] = "done"
    BY <1>2, CauseIs DEF Moves
  <2> QED
    BY <2>1, <2>2 DEF Answered, Cause, RepliesStay
<1>5. Answers(new, rep)'
  BY <1>1, <1>4 DEF Answers, RepliesStay
<1> QED
  BY <1>2, <1>3, <1>5

LEMMA PushPlaces ==
  ASSUME Typed, NEW req, NEW rep, Placed(req, rep), NEW t \in Threads, PushFrame(t)
  PROVE  \E new : Placed(new, rep)'
<1> USE DEF senderVars, writerVars, readerVars, mainVars, clientVars, sreaderVars,
            swriterVars, serverVars, net
<1>f. PICK f : f = Request(t)
  OBVIOUS
<1>n. PICK new : new = [req EXCEPT ![f] = "outgoing"]
  OBVIOUS
<1>1. /\ f \in Frames /\ Held(t) /\ outgoing' = Append(outgoing, f)
      /\ outgoing \in Seq(Frames) /\ toServer \in Seq(Frames)
  BY <1>f, FrameIs, StreamAssumption DEF Typed, TypeOK, PushFrame, Held, Request
<1>2. Requests(req) /\ req[f] = "held" /\ req \in [Frames -> RequestPlaces]
  BY <1>f, <1>1 DEF Placed, Requests
<1>3. /\ new \in [Frames -> RequestPlaces] /\ new[f] = "outgoing"
      /\ \A g \in Frames : g # f => new[g] = req[g]
      /\ \A g \in Frames : new[g] # "unasked" => g.sequence < sequence'[g.stream]
      /\ Answers(new, rep)'
  <2>1. RepliesStay
    BY DEF PushFrame, RepliesStay
  <2>2. Moves(req, f, "outgoing", new)
    BY <1>n, <1>1, <1>2 DEF RequestPlaces, Moves
  <2> QED
    BY <2>1, <2>2, RequestMoves
<1>4. Queued(Append(outgoing, f), new, "outgoing") /\ Queued(toServer, new, "toServer")
  BY <1>n, <1>1, <1>2, QueueEnters, QueueStays DEF Requests
<1>5. \A u \in Threads : Held(u)' => Held(u) /\ u # t
  BY DEF PushFrame, Held, Typed, TypeOK
<1>6. \A u \in Threads : Request(u)' = Request(u) /\ Request(u) \in Frames
  BY FrameIs, StreamAssumption DEF PushFrame, Request, Typed, TypeOK
<1>7. \A u \in Threads : Held(u)' => new[Request(u)'] = "held"
  BY <1>f, <1>1, <1>2, <1>3, <1>5, <1>6 DEF Requests
<1>8. \A u, v \in Threads : Held(u)' /\ Held(v)' /\ Request(u)' = Request(v)' => u = v
  BY <1>2, <1>5, <1>6 DEF Requests
<1>9. /\ writer' = "send" => new[writing'] = "writing"
      /\ serverReader' = "handle" => new[handling'] = "handling"
  <2>1. /\ UNCHANGED <<writing, serverReader, handling>> /\ (writer' = "send" => writer = "send")
    BY DEF PushFrame, Notify
  <2> QED
    BY <1>2, <1>3, <2>1 DEF Requests, Typed, HasFrame
<1>10. UNCHANGED toServer
  BY DEF PushFrame
<1>11. Requests(new)'
  BY <1>1, <1>3, <1>4, <1>7, <1>8, <1>9, <1>10 DEF Requests
<1> QED
  BY <1>3, <1>11 DEF Placed

\* The threads' requests are where they were, if a request moves that was none of theirs.
LEMMA HeldStay ==
  ASSUME Typed, NEW req, Requests(req), UNCHANGED <<thread, number>>,
         NEW f \in Frames, req[f] # "held", NEW new, \A g \in Frames : g # f => new[g] = req[g]
  PROVE  /\ \A u \in Threads : Held(u)' => new[Request(u)'] = "held"
         /\ \A u, v \in Threads : Held(u)' /\ Held(v)' /\ Request(u)' = Request(v)' => u = v
<1>1. \A u \in Threads : Held(u)' = Held(u) /\ Request(u)' = Request(u) /\ Request(u) \in Frames
  BY FrameIs, StreamAssumption DEF Request, Held, Typed, TypeOK
<1> QED
  BY <1>1 DEF Requests

LEMMA WriterPlaces ==
  ASSUME Typed, NEW req, NEW rep, Placed(req, rep), WriterStep \/ ServerRecv
  PROVE  \E new : Placed(new, rep)'
<1> USE DEF senderVars, writerVars, readerVars, mainVars, clientVars, sreaderVars,
            swriterVars, serverVars, net
<1>a. /\ Requests(req) /\ Answers(req, rep) /\ req \in [Frames -> RequestPlaces]
      /\ outgoing \in Seq(Frames) /\ toServer \in Seq(Frames)
  BY DEF Placed, Requests, Typed, TypeOK
<1>b. RepliesStay /\ UNCHANGED <<thread, number>>
  BY DEF WriterStep, WriterLoop, WriterSend, ServerRecv, RepliesStay
<1>1. CASE WriterSend
  <2>f. PICK f : f = writing
    OBVIOUS
  <2>n. PICK new : new = [req EXCEPT ![f] = "toServer"]
    OBVIOUS
  <2>1. /\ f \in Frames /\ req[f] = "writing" /\ toServer' = Append(toServer, f) /\ writer' # "send"
        /\ UNCHANGED <<outgoing, serverReader, handling, replied>>
    BY <2>f, <1>1, <1>a DEF WriterSend, Typed, HasFrame, Requests
  <2>2. /\ new \in [Frames -> RequestPlaces] /\ new[f] = "toServer"
        /\ \A g \in Frames : g # f => new[g] = req[g]
        /\ \A g \in Frames : new[g] # "unasked" => g.sequence < sequence'[g.stream]
        /\ Answers(new, rep)'
    <3>1. Moves(req, f, "toServer", new)
      BY <2>n, <2>1 DEF RequestPlaces, Moves
    <3> QED
      BY <1>b, <3>1, RequestMoves
  <2>3. Queued(outgoing, new, "outgoing") /\ Queued(Append(toServer, f), new, "toServer")
    BY <1>a, <2>1, QueueEnters, QueueStays, <2>n DEF Requests
  <2>4. /\ \A u \in Threads : Held(u)' => new[Request(u)'] = "held"
        /\ \A u, v \in Threads : Held(u)' /\ Held(v)' /\ Request(u)' = Request(v)' => u = v
    BY <1>a, <1>b, <2>1, <2>2, HeldStay
  <2>5. serverReader' = "handle" => new[handling'] = "handling"
    BY <1>a, <2>1, <2>2 DEF Requests, Typed, HasFrame
  <2>6. Requests(new)'
    BY <2>1, <2>2, <2>3, <2>4, <2>5 DEF Requests
  <2> QED
    BY <2>2, <2>6 DEF Placed
<1>2. CASE WriterLoop /\ writer' = "send"
  <2>f. PICK f : f = Head(outgoing)
    OBVIOUS
  <2>n. PICK new : new = [req EXCEPT ![f] = "writing"]
    OBVIOUS
  <2>1. /\ outgoing # << >> /\ outgoing' = Tail(outgoing) /\ writing' = f
        /\ UNCHANGED <<toServer, serverReader, handling, replied>>
    BY <2>f, <1>2 DEF WriterLoop
  <2>2. f \in Frames /\ req[f] = "outgoing" /\ Queued(Tail(outgoing), new, "outgoing")
    BY <1>a, <2>1, QueueTypes, QueueLeaves, <2>f, <2>n DEF Requests
  <2>3. /\ new \in [Frames -> RequestPlaces] /\ new[f] = "writing"
        /\ \A g \in Frames : g # f => new[g] = req[g]
        /\ \A g \in Frames : new[g] # "unasked" => g.sequence < sequence'[g.stream]
        /\ Answers(new, rep)'
    <3>1. Moves(req, f, "writing", new)
      BY <2>n, <2>2 DEF RequestPlaces, Moves
    <3> QED
      BY <1>b, <3>1, RequestMoves
  <2>4. Queued(toServer, new, "toServer")
    BY <1>a, <2>2, QueueStays, <2>n DEF Requests
  <2>5. /\ \A u \in Threads : Held(u)' => new[Request(u)'] = "held"
        /\ \A u, v \in Threads : Held(u)' /\ Held(v)' /\ Request(u)' = Request(v)' => u = v
    BY <1>a, <1>b, <2>2, <2>3, HeldStay
  <2>6. serverReader' = "handle" => new[handling'] = "handling"
    BY <1>a, <2>1, <2>2, <2>3 DEF Requests, Typed, HasFrame
  <2>7. Requests(new)'
    BY <2>1, <2>2, <2>3, <2>4, <2>5, <2>6 DEF Requests
  <2> QED
    BY <2>3, <2>7 DEF Placed
<1>3. CASE WriterLoop /\ writer' # "send"
  <2>1. UNCHANGED <<outgoing, toServer, serverReader, handling, replied>>
    BY <1>3 DEF WriterLoop
  <2>2. Requests(req)'
    BY <1>3, <1>a, <1>b, <2>1 DEF Requests, Held, Request, RepliesStay
  <2>3. Answers(req, rep)'
    BY <1>a, <1>b, <2>1 DEF Answers, Answered, Cause, RepliesStay
  <2> QED
    BY <2>2, <2>3 DEF Placed
<1>4. CASE ServerRecv
  <2>f. PICK f : f = Head(toServer)
    OBVIOUS
  <2>n. PICK new : new = [req EXCEPT ![f] = "handling"]
    OBVIOUS
  <2>1. /\ toServer # << >> /\ toServer' = Tail(toServer) /\ handling' = f
        /\ serverReader = "recv" /\ UNCHANGED <<outgoing, writer, writing>>
    BY <2>f, <1>4 DEF ServerRecv
  <2>2. f \in Frames /\ req[f] = "toServer" /\ Queued(Tail(toServer), new, "toServer")
    BY <1>a, <2>1, QueueTypes, QueueLeaves, <2>f, <2>n DEF Requests
  <2>3. /\ new \in [Frames -> RequestPlaces] /\ new[f] = "handling"
        /\ \A g \in Frames : g # f => new[g] = req[g]
        /\ \A g \in Frames : new[g] # "unasked" => g.sequence < sequence'[g.stream]
        /\ Answers(new, rep)'
    <3>1. Moves(req, f, "handling", new)
      BY <2>n, <2>2 DEF RequestPlaces, Moves
    <3> QED
      BY <1>b, <3>1, RequestMoves
  <2>4. Queued(outgoing, new, "outgoing")
    BY <1>a, <2>2, QueueStays, <2>n DEF Requests
  <2>5. /\ \A u \in Threads : Held(u)' => new[Request(u)'] = "held"
        /\ \A u, v \in Threads : Held(u)' /\ Held(v)' /\ Request(u)' = Request(v)' => u = v
    BY <1>a, <1>b, <2>2, <2>3, HeldStay
  <2>6. writer' = "send" => new[writing'] = "writing"
    BY <1>a, <2>1, <2>2, <2>3 DEF Requests, Typed, HasFrame
  <2>7. Requests(new)'
    BY <2>1, <2>2, <2>3, <2>4, <2>5, <2>6 DEF Requests
  <2> QED
    BY <2>3, <2>7 DEF Placed
<1> QED
  BY <1>1, <1>2, <1>3, <1>4 DEF WriterStep

Goes(rep, f, p, new) ==
    f \in Frames /\ rep[f] # "none" /\ p \in ReplyPlaces /\ new = [rep EXCEPT ![f] = p]

LoopStays == UNCHANGED <<serverReader, handling, replied>>

\* Nothing happens to the requests; the reply loop only goes on, if anything.
LEMMA RepliesMove ==
  ASSUME NEW req, NEW rep, Placed(req, rep), LoopStays, NEW f, NEW p, NEW new, Goes(rep, f, p, new)
  PROVE  /\ new \in [Frames -> ReplyPlaces] /\ new[f] = p
         /\ \A g \in Frames : g # f => new[g] = rep[g]
         /\ \A g \in Frames : new[g] # "none" => Answered(req, g)'
<1>1. Answers(req, rep) /\ rep \in [Frames -> ReplyPlaces]
  BY DEF Placed, Answers
<1>2. /\ new \in [Frames -> ReplyPlaces] /\ new[f] = p
      /\ \A g \in Frames : g # f => new[g] = rep[g]
  BY <1>1 DEF Goes
<1>3. ASSUME NEW g \in Frames, new[g] # "none" PROVE Answered(req, g)'
  <2>1. Answered(req, g)
    BY <1>1, <1>2, <1>3 DEF Answers, Goes
  <2> QED
    BY <2>1 DEF Answered, Cause, LoopStays
<1> QED
  BY <1>2, <1>3

LEMMA QueuePlaces ==
  ASSUME RepliesFit, Typed, Counted, NEW req, NEW rep, Placed(req, rep), QueueReply
  PROVE  \E newReq, newRep : Placed(newReq, newRep)'
<1> USE DEF senderVars, writerVars, readerVars, mainVars, clientVars, sreaderVars,
            swriterVars, serverVars, net
<1>f. PICK r : r = handling
  OBVIOUS
<1>i. PICK i : i = replied
  OBVIOUS
<1>g. PICK f : f = Frame(r.stream, ReplyNumber(r.sequence, i))
  OBVIOUS
<1>n. PICK new : new = [rep EXCEPT ![f] = "replyQueue"]
  OBVIOUS
<1>a. /\ Requests(req) /\ Answers(req, rep) /\ req \in [Frames -> RequestPlaces]
      /\ rep \in [Frames -> ReplyPlaces]
      /\ replyQueue \in Seq(Frames) /\ toClient \in Seq(Frames)
      /\ outgoing \in Seq(Frames) /\ toServer \in Seq(Frames)
  BY DEF Placed, Requests, Answers, Typed, TypeOK
<1>b. /\ r \in Frames /\ req[r] = "handling" /\ i \in Nat /\ i < Replies /\ serverReader = "handle"
      /\ handling = r /\ replied = i
  BY <1>f, <1>i, <1>a, StreamAssumption
     DEF QueueReply, RepliesLeft, Typed, TypeOK, HasFrame, Requests
<1>1. r.stream \in Streams /\ r.sequence \in Nat /\ r.sequence < sequence[r.stream]
  <2>1. req[r] # "unasked"
    BY <1>b
  <2>2. r.sequence < sequence[r.stream]
    BY <1>a, <1>b, <2>1 DEF Requests
  <2> QED
    BY <1>b, <2>2, FrameIs, StreamAssumption DEF Numbers
<1> DEFINE n == r.sequence * Replies + i
<1>2. n \in Numbers /\ n \div Replies = r.sequence /\ n % Replies = i
  <2>1. /\ Replies \in Nat \ {0} /\ WordSize \in Nat
        /\ sequence[r.stream] \in Nat /\ Replies * sequence[r.stream] < WordSize
    BY <1>1, StreamAssumption, SequenceFits
  <2>2. (r.sequence + 1) * Replies <= sequence[r.stream] * Replies
    BY <1>1, <2>1
  <2>3. n < WordSize /\ n \in Nat
    BY <1>1, <1>b, <2>1, <2>2
  <2>4. i \in 0 .. Replies - 1
    BY <1>b, <2>1
  <2>5. n \div Replies = r.sequence /\ n % Replies = i
    BY <1>1, <2>1, <2>4, DivUnique
  <2> HIDE DEF n
  <2> QED
    BY <2>1, <2>3, <2>5 DEF Numbers
<1>3. f \in Frames /\ f.stream = r.stream /\ f.sequence = n
  <2>1. ReplyNumber(r.sequence, i) = n
    BY <1>2, WrapIs, StreamAssumption DEF ReplyNumber, Numbers
  <2> HIDE DEF n
  <2> QED
    BY <1>1, <1>2, <1>g, <2>1, FrameIs
<1> HIDE DEF n
<1>4. Cause(f) = r /\ f.sequence % Replies = i
  BY <1>2, <1>3, <1>b, FrameIs DEF Cause
<1>5. rep[f] = "none"
  <2> SUFFICES ASSUME rep[f] # "none" PROVE FALSE
    OBVIOUS
  <2>1. Answered(req, f)
    BY <1>3, <1>a DEF Answers
  <2> QED
    BY <2>1, <1>4, <1>b DEF Answered
<1>6. /\ new \in [Frames -> ReplyPlaces] /\ new[f] = "replyQueue"
      /\ \A g \in Frames : g # f => new[g] = rep[g]
  BY <1>n, <1>3, <1>a DEF ReplyPlaces
<1>7. replyQueue' = Append(replyQueue, f) /\ replied' = i + 1
  BY <1>b, <1>g DEF QueueReply
<1>8. Queued(Append(replyQueue, f), new, "replyQueue") /\ Queued(toClient, new, "toClient")
  BY <1>n, <1>3, <1>5, <1>a, QueueEnters, QueueStays DEF Answers
<1>9. UNCHANGED <<sequence, thread, number, outgoing, toServer, toClient, writer, writing,
                  serverWriter, replying, streamQueue, shown>>
  BY DEF QueueReply
<1>10. /\ \A g \in Frames : g.sequence \in streamQueue'[g.stream] => new[g] = "streamQueue"
       /\ \A g \in Frames : g.sequence < shown'[g.stream] => new[g] = "shown"
       /\ serverWriter' = "send" => new[replying'] = "replying"
       /\ \A s \in Streams : shown'[s] \notin streamQueue'[s]
  BY <1>5, <1>6, <1>9, <1>a DEF Answers, Typed, HasFrame
<1>11. CASE i + 1 < Replies
  <2>1. UNCHANGED <<serverReader, handling>>
    BY <1>7, <1>11 DEF QueueReply, RepliesLeft
  <2>2. ASSUME NEW g \in Frames, new[g] # "none" PROVE Answered(req, g)'
    <3>1. CASE g = f
      BY <1>4, <1>7, <1>b, <2>1, <3>1 DEF Answered, Cause
    <3>2. CASE g # f
      <4>1. Answered(req, g)
        BY <1>6, <1>a, <2>2, <3>2 DEF Answers
      <4>2. g.sequence % Replies < replied => g.sequence % Replies < replied'
        <5>1. g.sequence \in Nat /\ Replies \in Nat \ {0}
          BY FrameIs, StreamAssumption DEF Numbers
        <5>2. g.sequence % Replies \in Int
          BY <5>1
        <5> QED
          BY <1>7, <1>b, <5>2
      <4> QED
        BY <2>1, <4>1, <4>2 DEF Answered, Cause
    <3> QED
      BY <3>1, <3>2
  <2>3. Answers(req, new)'
    BY <1>6, <1>7, <1>8, <1>9, <1>10, <2>2 DEF Answers
  <2>4. Requests(req)'
    BY <1>9, <1>a, <2>1 DEF Requests, Held, Request
  <2> QED
    BY <2>3, <2>4 DEF Placed
<1>12. CASE ~(i + 1 < Replies)
  <2>n. PICK newReq : newReq = [req EXCEPT ![r] = "done"]
    OBVIOUS
  <2>1. serverReader' = "recv"
    BY <1>7, <1>12 DEF QueueReply, RepliesLeft
  <2>2. /\ newReq \in [Frames -> RequestPlaces] /\ newReq[r] = "done"
        /\ \A g \in Frames : g # r => newReq[g] = req[g]
    BY <1>a, <1>b, <2>n DEF RequestPlaces
  <2>3. ASSUME NEW g \in Frames, new[g] # "none" PROVE Answered(newReq, g)'
    <3>1. newReq[Cause(g)] = "done"
      <4>1. CASE g = f
        BY <1>4, <2>2, <4>1
      <4>2. CASE g # f
        <5>1. Answered(req, g)
          BY <1>6, <1>a, <2>3, <4>2 DEF Answers
        <5> QED
          BY <1>b, <2>2, <5>1, CauseIs DEF Answered
      <4> QED
        BY <4>1, <4>2
    <3> QED
      BY <3>1 DEF Answered, Cause
  <2>4. Answers(newReq, new)'
    BY <1>6, <1>7, <1>8, <1>9, <1>10, <2>3 DEF Answers
  <2>5. /\ \A u \in Threads : Held(u)' => newReq[Request(u)'] = "held"
        /\ \A u, v \in Threads : Held(u)' /\ Held(v)' /\ Request(u)' = Request(v)' => u = v
    <3>1. req[r] # "held" /\ UNCHANGED <<thread, number>> /\ r \in Frames
      BY <1>9, <1>b
    <3>2. Requests(req) /\ \A g \in Frames : g # r => newReq[g] = req[g]
      BY <1>a, <2>2
    <3> HIDE DEF senderVars, clientVars
    <3> QED
      BY <3>1, <3>2, HeldStay
  <2>6. Queued(outgoing, newReq, "outgoing") /\ Queued(toServer, newReq, "toServer")
    BY <1>a, <1>b, <2>n, QueueStays DEF Requests
  <2>7. /\ writer' = "send" => newReq[writing'] = "writing"
        /\ \A g \in Frames : newReq[g] # "unasked" => g.sequence < sequence'[g.stream]
    BY <1>9, <1>a, <1>b, <2>2 DEF Requests, Typed, HasFrame
  <2>8. Requests(newReq)'
    BY <1>9, <2>1, <2>2, <2>5, <2>6, <2>7 DEF Requests
  <2> QED
    BY <2>4, <2>8 DEF Placed
<1> QED
  BY <1>11, <1>12

LEMMA ServerWriterPlaces ==
  ASSUME Typed, NEW req, NEW rep, Placed(req, rep), ServerWriterStep
  PROVE  \E new : Placed(req, new)'
<1> USE DEF senderVars, writerVars, readerVars, mainVars, clientVars, sreaderVars,
            swriterVars, serverVars, net
<1>a. /\ Requests(req) /\ Answers(req, rep) /\ rep \in [Frames -> ReplyPlaces]
      /\ replyQueue \in Seq(Frames) /\ toClient \in Seq(Frames)
  BY DEF Placed, Answers, Typed, TypeOK
<1>b. /\ UNCHANGED <<sequence, thread, number, outgoing, toServer, writer, writing, serverReader,
                     handling, replied, streamQueue, shown>>
  BY DEF ServerWriterStep, Poll, ServerSend
<1>c. Requests(req)'
  BY <1>a, <1>b DEF Requests, Held, Request
<1>d. "replying" \in ReplyPlaces /\ "toClient" \in ReplyPlaces /\ "lost" \in ReplyPlaces
  BY DEF ReplyPlaces
<1>1. CASE Poll
  <2>f. PICK f : f = Head(replyQueue)
    OBVIOUS
  <2>n. PICK new : new = [rep EXCEPT ![f] = "replying"]
    OBVIOUS
  <2>1. /\ replyQueue # << >> /\ replyQueue' = Tail(replyQueue) /\ replying' = f
        /\ UNCHANGED toClient
    BY <1>1, <2>f DEF Poll
  <2>2. f \in Frames /\ rep[f] = "replyQueue" /\ Queued(Tail(replyQueue), new, "replyQueue")
    BY <1>a, <2>1, <2>f, <2>n, QueueTypes, QueueLeaves DEF Answers
  <2>3. /\ new \in [Frames -> ReplyPlaces] /\ new[f] = "replying"
        /\ \A g \in Frames : g # f => new[g] = rep[g]
        /\ \A g \in Frames : new[g] # "none" => Answered(req, g)'
    <3>1. Goes(rep, f, "replying", new) /\ LoopStays
      BY <1>b, <1>d, <2>2, <2>n DEF Goes, LoopStays
    <3> QED
      BY <3>1, RepliesMove
  <2>4. Queued(toClient, new, "toClient")
    BY <1>a, <2>2, <2>n, QueueStays DEF Answers
  <2>5. /\ \A g \in Frames : g.sequence \in streamQueue'[g.stream] => new[g] = "streamQueue"
        /\ \A g \in Frames : g.sequence < shown'[g.stream] => new[g] = "shown"
        /\ \A s \in Streams : shown'[s] \notin streamQueue'[s]
    BY <1>a, <1>b, <2>2, <2>3 DEF Answers
  <2>6. Answers(req, new)'
    BY <2>1, <2>2, <2>3, <2>4, <2>5 DEF Answers
  <2> QED
    BY <1>c, <2>6 DEF Placed
<1>2. CASE ServerSend
  <2>f. PICK f : f = replying
    OBVIOUS
  <2>1. /\ f \in Frames /\ rep[f] = "replying" /\ serverWriter' # "send" /\ UNCHANGED replyQueue
        /\ toClient' = Append(toClient, f) \/ UNCHANGED toClient
    BY <1>2, <1>a, <2>f DEF ServerSend, Typed, HasFrame, Answers
  <2>2. CASE toClient' = Append(toClient, f)
    <3>n. PICK new : new = [rep EXCEPT ![f] = "toClient"]
      OBVIOUS
    <3>1. /\ new \in [Frames -> ReplyPlaces] /\ new[f] = "toClient"
          /\ \A g \in Frames : g # f => new[g] = rep[g]
          /\ \A g \in Frames : new[g] # "none" => Answered(req, g)'
      <4>1. Goes(rep, f, "toClient", new) /\ LoopStays
        BY <1>b, <1>d, <2>1, <3>n DEF Goes, LoopStays
      <4> QED
        BY <4>1, RepliesMove
    <3>2. Queued(replyQueue, new, "replyQueue") /\ Queued(Append(toClient, f), new, "toClient")
      BY <1>a, <2>1, <3>n, QueueStays, QueueEnters DEF Answers
    <3>3. /\ \A g \in Frames : g.sequence \in streamQueue'[g.stream] => new[g] = "streamQueue"
          /\ \A g \in Frames : g.sequence < shown'[g.stream] => new[g] = "shown"
          /\ \A s \in Streams : shown'[s] \notin streamQueue'[s]
      BY <1>a, <1>b, <2>1, <3>1 DEF Answers
    <3>4. Answers(req, new)'
      BY <2>1, <2>2, <3>1, <3>2, <3>3 DEF Answers
    <3> QED
      BY <1>c, <3>4 DEF Placed
  <2>3. CASE UNCHANGED toClient
    <3>n. PICK new : new = [rep EXCEPT ![f] = "lost"]
      OBVIOUS
    <3>1. /\ new \in [Frames -> ReplyPlaces] /\ new[f] = "lost"
          /\ \A g \in Frames : g # f => new[g] = rep[g]
          /\ \A g \in Frames : new[g] # "none" => Answered(req, g)'
      <4>1. Goes(rep, f, "lost", new) /\ LoopStays
        BY <1>b, <1>d, <2>1, <3>n DEF Goes, LoopStays
      <4> QED
        BY <4>1, RepliesMove
    <3>2. Queued(replyQueue, new, "replyQueue") /\ Queued(toClient, new, "toClient")
      BY <1>a, <2>1, <3>n, QueueStays DEF Answers
    <3>3. /\ \A g \in Frames : g.sequence \in streamQueue'[g.stream] => new[g] = "streamQueue"
          /\ \A g \in Frames : g.sequence < shown'[g.stream] => new[g] = "shown"
          /\ \A s \in Streams : shown'[s] \notin streamQueue'[s]
      BY <1>a, <1>b, <2>1, <3>1 DEF Answers
    <3>4. Answers(req, new)'
      BY <2>1, <2>3, <3>1, <3>2, <3>3 DEF Answers
    <3> QED
      BY <1>c, <3>4 DEF Placed
  <2> QED
    BY <2>1, <2>2, <2>3
<1> QED
  BY <1>1, <1>2 DEF ServerWriterStep

LEMMA ShowPlaces ==
  ASSUME RepliesFit, Typed, Counted, NEW req, NEW rep, Placed(req, rep), ShowFrame
  PROVE  \E new : Placed(req, new)'
<1> USE DEF senderVars, writerVars, readerVars, mainVars, clientVars, sreaderVars,
            swriterVars, serverVars, net
<1>f. PICK f : f = Head(toClient)
  OBVIOUS
<1>s. PICK s : s = f.stream
  OBVIOUS
<1>k. PICK k : k = shown[s]
  OBVIOUS
<1>q. PICK q : q = streamQueue[s] \cup {f.sequence}
  OBVIOUS
<1>g. PICK g : g = Gap(q, k)
  OBVIOUS
<1> DEFINE Run(e) == e.stream = s /\ e.sequence \in k .. g - 1
<1>n. PICK new : new = [e \in Frames |-> IF Run(e) THEN "shown"
                                         ELSE IF e = f THEN "streamQueue" ELSE rep[e]]
  OBVIOUS
<1>a. /\ Requests(req) /\ Answers(req, rep) /\ rep \in [Frames -> ReplyPlaces]
      /\ replyQueue \in Seq(Frames) /\ toClient \in Seq(Frames) /\ toClient # << >>
      /\ streamQueue \in [Streams -> SUBSET Numbers] /\ shown \in [Streams -> Numbers]
  BY DEF Placed, Answers, Typed, TypeOK, ShowFrame
<1>b. UNCHANGED <<sequence, thread, number, outgoing, toServer, writer, writing, serverReader,
                  handling, replied, replyQueue, serverWriter, replying>>
  BY DEF ShowFrame
<1>1. /\ f \in Frames /\ s \in Streams /\ f.sequence \in Numbers
      /\ k \in Numbers /\ q \in SUBSET Numbers /\ f = Frame(s, f.sequence)
  BY <1>a, <1>f, <1>s, <1>k, <1>q, QueueTypes, FrameIs
<1>2. rep[f] = "toClient"
  BY <1>a, <1>f, QueueLeaves DEF Answers
<1>3. WordSize \in Nat \ {0} /\ k \in Nat /\ \A m \in Numbers : m \in Nat /\ m < WordSize
  BY <1>1, StreamAssumption DEF Numbers
\* What is in the buffer is a reply, and none that has been shown.
<1>4. ASSUME NEW m \in q
      PROVE  /\ Frame(s, m) \in Frames /\ Frame(s, m).stream = s /\ Frame(s, m).sequence = m
             /\ rep[Frame(s, m)] = IF m = f.sequence THEN "toClient" ELSE "streamQueue"
  <2>1. /\ m \in Numbers
        /\ Frame(s, m) \in Frames /\ Frame(s, m).stream = s /\ Frame(s, m).sequence = m
    BY <1>1, FrameIs
  <2>2. CASE m = f.sequence
    BY <1>1, <1>2, <2>1, <2>2
  <2>3. CASE m # f.sequence
    <3>1. m \in streamQueue[s]
      BY <1>q, <2>3
    <3> QED
      BY <1>a, <2>1, <2>3, <3>1 DEF Answers
  <2> QED
    BY <2>2, <2>3, <2>1
<1>5. \A m \in q : m >= k
  <2> SUFFICES ASSUME NEW m \in q, m < k PROVE FALSE
    BY <1>1, <1>3
  <2>1. rep[Frame(s, m)] = "shown"
    BY <1>a, <1>k, <1>4 DEF Answers
  <2> QED
    BY <1>4, <2>1
<1>6. g \in k .. WordSize /\ g \notin q /\ k .. g - 1 \subseteq q
  BY <1>1, <1>g, GapIs
<1>7. g < WordSize
  <2> SUFFICES ASSUME g = WordSize PROVE FALSE
    BY <1>3, <1>6
  <2>1. WordSize - 1 \in q
    BY <1>1, <1>3, <1>6
  <2>2. PICK e : e = Frame(s, WordSize - 1)
    OBVIOUS
  <2>3. e \in Frames /\ e.stream = s /\ e.sequence = WordSize - 1 /\ rep[e] # "none"
    BY <1>4, <2>1, <2>2
  <2>4. WordSize - 1 < Replies * sequence[s]
    BY <2>3, ReplyFits
  <2>5. Replies * sequence[s] < WordSize /\ sequence[s] \in Nat /\ Replies \in Nat
    BY <1>1, SequenceFits, StreamAssumption
  <2> QED
    BY <1>3, <2>4, <2>5
<1>8. /\ streamQueue' = [streamQueue EXCEPT ![s] = q \ (k .. g - 1)]
      /\ shown' = [shown EXCEPT ![s] = g] /\ toClient' = Tail(toClient)
  <2>1. ~Stuck(q, k)
    BY <1>1, <1>3, <1>5 DEF Stuck
  <2>2. Wrap(g) = g
    BY <1>3, <1>6, <1>7, WrapIs
  <2>3. Drain(q, k)[1] = q \ (k .. g - 1) /\ Drain(q, k)[2] = g
    BY <1>g, <2>1, <2>2 DEF Drain
  <2>4. /\ streamQueue' = [streamQueue EXCEPT ![s] = Drain(q, k)[1]]
        /\ shown' = [shown EXCEPT ![s] = Drain(q, k)[2]] /\ toClient' = Tail(toClient)
    BY <1>f, <1>s, <1>k, <1>q DEF ShowFrame
  <2> QED
    BY <2>3, <2>4
\* Every frame of the run was in the buffer.
<1>9. ASSUME NEW e \in Frames, Run(e) PROVE rep[e] = "streamQueue" \/ e = f
  <2>1. e.sequence \in q /\ e = Frame(s, e.sequence)
    BY <1>6, <1>9, FrameIs
  <2> QED
    BY <1>1, <1>4, <2>1
<1> HIDE DEF Run
<1>10. new \in [Frames -> ReplyPlaces]
  BY <1>n, <1>a DEF ReplyPlaces
<1>11. \A e \in Frames : /\ Run(e) => new[e] = "shown"
                         /\ ~Run(e) /\ e = f => new[e] = "streamQueue"
                         /\ ~Run(e) /\ e # f => new[e] = rep[e]
  BY <1>n
<1>12. \A e \in Frames : rep[e] # "streamQueue" /\ e # f => new[e] = rep[e]
  BY <1>9, <1>11
<1>13. Queued(Tail(toClient), new, "toClient")
  <2>1. PICK rep1 : rep1 = [rep EXCEPT ![f] = "streamQueue"]
    OBVIOUS
  <2>2. Queued(Tail(toClient), rep1, "toClient")
    BY <1>a, <1>f, <2>1, QueueLeaves DEF Answers
  <2>3. \A i \in 1 .. Len(Tail(toClient)) : Tail(toClient)[i] \in Frames
    BY <1>a, QueueTypes, ElementOfSeq
  <2>4. \A e \in Frames : rep1[e] = "toClient" => new[e] = "toClient"
    BY <1>1, <1>12, <1>a, <2>1
  <2> QED
    BY <2>2, <2>3, <2>4 DEF Queued
<1>14. Queued(replyQueue, new, "replyQueue")
  <2>1. \A i \in 1 .. Len(replyQueue) : replyQueue[i] \in Frames
    BY <1>a, ElementOfSeq
  <2>2. \A e \in Frames : rep[e] = "replyQueue" => new[e] = "replyQueue"
    BY <1>2, <1>12
  <2>3. Queued(replyQueue, rep, "replyQueue")
    BY <1>a DEF Answers
  <2> QED
    BY <2>1, <2>2, <2>3 DEF Queued
<1>15. serverWriter' = "send" => new[replying'] = "replying"
  BY <1>2, <1>12, <1>a, <1>b DEF Answers, Typed, HasFrame
<1>16. ASSUME NEW e \in Frames, new[e] # "none" PROVE Answered(req, e)'
  <2>1. rep[e] # "none"
    BY <1>2, <1>9, <1>11, <1>16
  <2>2. Answered(req, e)
    BY <1>a, <2>1 DEF Answers
  <2> QED
    BY <1>b, <2>2 DEF Answered, Cause
<1>17. ASSUME NEW e \in Frames, e.sequence \in streamQueue'[e.stream] PROVE new[e] = "streamQueue"
  <2>0. e.stream \in Streams
    BY FrameIs
  <2>1. CASE e.stream = s
    <3>1. e.sequence \in q /\ ~Run(e)
      BY <1>1, <1>8, <1>17, <1>a, <2>1 DEF Run
    <3>2. e = Frame(s, e.sequence)
      BY <2>1, FrameIs
    <3> QED
      BY <1>1, <1>4, <1>11, <3>1, <3>2
  <2>2. CASE e.stream # s
    <3>1. rep[e] = "streamQueue" /\ ~Run(e)
      BY <1>8, <1>17, <1>a, <2>0, <2>2 DEF Run, Answers
    <3> QED
      BY <1>2, <1>11, <3>1
  <2> QED
    BY <2>1, <2>2
<1>18. ASSUME NEW e \in Frames, e.sequence < shown'[e.stream] PROVE new[e] = "shown"
  <2>0. e.stream \in Streams /\ e.sequence \in Nat
    BY <1>3, FrameIs
  <2>1. CASE Run(e)
    BY <1>11, <2>1
  <2>2. CASE ~Run(e)
    <3>1. e.sequence < shown[e.stream]
      <4>1. CASE e.stream = s
        <5>1. e.sequence < g
          BY <1>1, <1>8, <1>18, <1>a, <4>1
        <5> QED
          BY <1>3, <1>6, <1>k, <2>0, <2>2, <4>1, <5>1 DEF Run
      <4>2. CASE e.stream # s
        BY <1>8, <1>18, <1>a, <2>0, <4>2
      <4> QED
        BY <4>1, <4>2
    <3>2. rep[e] = "shown"
      BY <1>a, <3>1 DEF Answers
    <3> QED
      BY <1>2, <1>12, <3>2
  <2> QED
    BY <2>1, <2>2
<1>19. \A t \in Streams : shown'[t] \notin streamQueue'[t]
  BY <1>1, <1>6, <1>8, <1>a DEF Answers
<1>20. Answers(req, new)'
  BY <1>8, <1>10, <1>13, <1>14, <1>15, <1>16, <1>17, <1>18, <1>19, <1>b DEF Answers
<1>21. Requests(req)'
  BY <1>a, <1>b DEF Requests, Held, Request
<1> QED
  BY <1>20, <1>21 DEF Placed

\* The rest moves no frame.
LEMMA OtherPlaces ==
  ASSUME NEW req, NEW rep, Placed(req, rep),
         \/ WakeUp \/ ReaderLoop \/ ServerRecvEnd \/ BeginStop \/ JoinReader \/ JoinWriter
         \/ UNCHANGED vars
  PROVE  Placed(req, rep)'
<1> USE DEF senderVars, writerVars, readerVars, mainVars, clientVars, sreaderVars,
            swriterVars, serverVars, net
<1>1. /\ UNCHANGED <<sequence, thread, number, outgoing, toServer, writing, handling, replied,
                     replyQueue, serverWriter, replying, toClient, streamQueue, shown>>
      /\ writer' = "send" => writer = "send"
      /\ \/ UNCHANGED serverReader
         \/ serverReader = "recv" /\ serverReader' = "exited"
  BY DEF WakeUp, ReaderLoop, ServerRecvEnd, BeginStop, JoinReader, JoinWriter, vars
<1>2. Requests(req)'
  BY <1>1 DEF Placed, Requests, Held, Request
<1>3. Answers(req, rep)'
  <2>1. ASSUME NEW f \in Frames, rep[f] # "none" PROVE Answered(req, f)'
    <3>1. Answered(req, f)
      BY <2>1 DEF Placed, Answers
    <3> QED
      BY <1>1, <3>1 DEF Answered, Cause
  <2> QED
    BY <1>1, <2>1 DEF Placed, Answers
<1> QED
  BY <1>2, <1>3 DEF Placed

LEMMA PlaceStep ==
  ASSUME RepliesFit, PlaceInv, [Next]_vars
  PROVE  PlaceInv'
<1>1. Typed /\ Counted /\ Typed'
  BY TypedStep DEF PlaceInv
<1>2. PICK req, rep : Placed(req, rep)
  BY DEF PlaceInv
<1>3. CASE \E t \in Threads : TakeNumber(t)
  BY <1>1, <1>2, <1>3, TakePlaces DEF PlaceInv
<1>4. CASE ~\E t \in Threads : TakeNumber(t)
  <2>1. Counted'
    <3>1. UNCHANGED <<sequence, messages>>
      BY <1>4 DEF Next, PushFrame, WriterStep, WriterLoop, WriterSend, WakeUp, ReaderStep,
         ReaderLoop, ShowFrame, ServerReaderStep, ServerRecv, ServerRecvEnd, QueueReply,
         ServerWriterStep, Poll, ServerSend, BeginStop, JoinReader, JoinWriter, vars, clientVars,
         senderVars
    <3> QED
      BY <1>1, <3>1 DEF Counted, Asked
  <2>2. \E newReq, newRep : Placed(newReq, newRep)'
    <3>1. CASE \E t \in Threads : PushFrame(t)
      BY <1>1, <1>2, <3>1, PushPlaces
    <3>2. CASE WriterStep \/ ServerRecv
      BY <1>1, <1>2, <3>2, WriterPlaces
    <3>3. CASE QueueReply
      BY <1>1, <1>2, <3>3, QueuePlaces
    <3>4. CASE ServerWriterStep
      BY <1>1, <1>2, <3>4, ServerWriterPlaces
    <3>5. CASE ShowFrame
      BY <1>1, <1>2, <3>5, ShowPlaces
    <3>6. CASE \/ WakeUp \/ ReaderLoop \/ ServerRecvEnd \/ BeginStop \/ JoinReader \/ JoinWriter
               \/ UNCHANGED vars
      BY <1>2, <3>6, OtherPlaces
    <3> QED
      BY <1>4, <3>1, <3>2, <3>3, <3>4, <3>5, <3>6 DEF Next, ReaderStep, ServerReaderStep
  <2> QED
    BY <1>1, <2>1, <2>2 DEF PlaceInv
<1> QED
  BY <1>3, <1>4

\* The reader's loop over the map of a stream waits for a frame that is still to come, never
\* for one it has already shown: whatever the order in which the client's threads push what
\* they have numbered, as long as no stream goes through all sequence numbers.
THEOREM ReorderBufferNeverBlocked ==
  ASSUME RepliesFit
  PROVE  Spec => []NoWedge
<1>1. Init => PlaceInv
  BY InitPlaced
<1>2. PlaceInv /\ [Next]_vars => PlaceInv'
  BY PlaceStep
<1>3. PlaceInv => NoWedge
  <2> SUFFICES ASSUME PlaceInv, NEW s \in Streams, NEW n \in streamQueue[s]
               PROVE  n > shown[s] /\ n < Replies * Asked(s)
    BY DEF NoWedge
  <2>1. PICK req, rep : Placed(req, rep)
    BY DEF PlaceInv
  <2>2. /\ Typed /\ Counted /\ streamQueue[s] \in SUBSET Numbers /\ shown[s] \in Numbers
        /\ WordSize \in Nat
    BY StreamAssumption DEF PlaceInv, Typed, TypeOK
  <2>3. PICK f \in Frames : f = Frame(s, n)
    BY <2>2, FrameIs
  <2>4. f.stream = s /\ f.sequence = n
    BY <2>2, <2>3, FrameIs
  <2>5. rep[f] = "streamQueue"
    BY <2>1, <2>4 DEF Placed, Answers
  <2>6. ~(n < shown[s])
    BY <2>1, <2>4, <2>5 DEF Placed, Answers
  <2>7. n # shown[s]
    BY <2>1 DEF Placed, Answers
  <2>8. n < Replies * sequence[s]
    BY <2>1, <2>2, <2>4, <2>5, ReplyFits
  <2>9. sequence[s] = Asked(s)
    BY <2>2 DEF Counted
  <2> QED
    BY <2>2, <2>6, <2>7, <2>8, <2>9 DEF Numbers
<1> QED
  BY <1>1, <1>2, <1>3, PTL DEF Spec

-------------------------------------------------------------------------------
(* stop().                                                                 *)

\* stop() gets to its steps past the threads it has joined, and a thread of the
\* client that has ended is not started again, whatever is still notified.
StopInv ==
    /\ socket = "closed" => main = "stopped"
    /\ main \in {"joinWriter", "stopped"} => reader = "exited"
    /\ main = "stopped" => writer = "exited"

LEMMA StopInvStep ==
  ASSUME StopInv, [Next]_vars
  PROVE  StopInv'
<1> USE DEF StopInv, senderVars, writerVars, readerVars, mainVars, clientVars, sreaderVars,
            swriterVars, serverVars, net
<1>1. ASSUME NEW t \in Threads, TakeNumber(t) \/ PushFrame(t) PROVE StopInv'
  BY <1>1 DEF TakeNumber, PushFrame, Notify
<1>2. CASE WriterStep \/ WakeUp
  BY <1>2 DEF WriterStep, WriterLoop, WriterSend, WakeUp
<1>3. CASE ReaderStep
  BY <1>3 DEF ReaderStep, ReaderLoop, ShowFrame
<1>4. CASE ServerReaderStep \/ ServerWriterStep
  BY <1>4 DEF ServerReaderStep, ServerRecv, ServerRecvEnd, QueueReply, ServerWriterStep, Poll,
     ServerSend
<1>5. CASE BeginStop \/ JoinReader \/ JoinWriter
  BY <1>5 DEF BeginStop, JoinReader, JoinWriter, WriterEnded
<1>6. CASE UNCHANGED vars
  BY <1>6 DEF vars
<1> QED
  BY <1>1, <1>2, <1>3, <1>4, <1>5, <1>6 DEF Next

\* When stop() of the streaming client has closed the socket, its reader and its
\* writer have ended: neither uses the descriptor any more.
THEOREM SocketOutlivesThreads == Spec => []ClosedAfterThreads
<1>1. Init => StopInv
  BY DEF Init, StopInv
<1>2. StopInv /\ [Next]_vars => StopInv'
  BY StopInvStep
<1>3. StopInv => ClosedAfterThreads
  BY DEF StopInv, ClosedAfterThreads
<1> QED
  BY <1>1, <1>2, <1>3, PTL DEF Spec
===============================================================================
