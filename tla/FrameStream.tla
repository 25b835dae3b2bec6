----------------------------- MODULE FrameStream ------------------------------
(***************************************************************************)
(* Frames over a byte stream: one end serializes them into a connection;   *)
(* the other end runs the loop that TcpClient::handleRead and              *)
(* ClientHandler::handleRead share: recv() a chunk, append it to the frame *)
(* buffer, parse, erase what was consumed, hand the frames on.  The        *)
(* connection may break anywhere, in the middle of a header too.           *)
(***************************************************************************)
EXTENDS FrameCodec

CONSTANTS StreamIds, SequenceNumbers, Payloads, \* what frames are made of
          MaxFrames,  \* bound on the frames written
          BufferSize, \* the size of the buffer given to recv()
          MayBreak    \* may the connection break?

ASSUME StreamAssumption == /\ StreamIds \subseteq Word /\ SequenceNumbers \subseteq Word
                           /\ \A p \in Payloads : p \in Seq(Byte) /\ Len(p) \in Word
                           /\ MaxFrames \in Nat /\ BufferSize \in Nat \ {0}
                           /\ MayBreak \in BOOLEAN

VARIABLES sent,        \* the frames written, in order
          pipe,        \* the bytes written and not received
          broken,      \* is the connection broken?
          frameBuffer, \* frame_buffer
          delivered    \* the frames handed on, in order

vars == <<sent, pipe, broken, frameBuffer, delivered>>

Frames == {CreateFrame(i, n, p) : i \in StreamIds, n \in SequenceNumbers, p \in Payloads}

Init == /\ sent = << >> /\ pipe = << >> /\ broken = FALSE
        /\ frameBuffer = << >> /\ delivered = << >>

Write(frame) == /\ ~broken /\ Len(sent) < MaxFrames
                /\ sent' = Append(sent, frame)
                /\ pipe' = pipe \o Serialize(frame)
                /\ UNCHANGED <<broken, frameBuffer, delivered>>

\* The writer dies, or gives up, with a part of the bytes under way.
Break == /\ MayBreak /\ ~broken
         /\ broken' = TRUE
         /\ \E n \in 0 .. Len(pipe) : pipe' = SubSeq(pipe, 1, n)
         /\ UNCHANGED <<sent, frameBuffer, delivered>>

Received(n) == /\ n <= Len(pipe) /\ n <= BufferSize
               /\ pipe' = SubSeq(pipe, n + 1, Len(pipe))

\* Seeded fault: the whole buffer is cleared when a frame was found in it.
ReceiveAndClear(n) ==
    /\ Received(n)
    /\ LET data == frameBuffer \o SubSeq(pipe, 1, n)
           parsed == ProcessData(data)
       IN /\ frameBuffer' = IF parsed.bytes_consumed > 0 THEN << >> ELSE data
          /\ delivered' = delivered \o parsed.frames
    /\ UNCHANGED <<sent, broken>>

\* recv() returns n bytes: one turn of the loop in handleRead.
Receive(n) ==
    /\ Received(n)
    /\ LET data == frameBuffer \o SubSeq(pipe, 1, n)
           parsed == ProcessData(data)
       IN /\ frameBuffer' = SubSeq(data, parsed.bytes_consumed + 1, Len(data))
          /\ delivered' = delivered \o parsed.frames
    /\ UNCHANGED <<sent, broken>>

HandleRead == \E n \in 1 .. BufferSize : Receive(n)

Next == (\E f \in Frames : Write(f)) \/ Break \/ HandleRead

Spec == Init /\ [][Next]_vars

\* The receiving thread keeps receiving; nothing else is obliged to happen.
FairSpec == Spec /\ WF_vars(HandleRead)

-------------------------------------------------------------------------------
\* The bytes of the first n frames written: the stream as the writer meant it.
Bytes(n) == FoldLeft(LAMBDA b, f : b \o Serialize(f), << >>, SubSeq(sent, 1, n))

\* Exactly the frames whose last byte has arrived have been handed on, and the
\* frame buffer holds exactly the bytes that follow them: however the stream is
\* cut into chunks, no frame is seen before it is whole, held back once it is,
\* or parsed from the wrong byte on.
ParsedExactly ==
    LET n == Len(delivered)
        arrived == Bytes(n) \o frameBuffer
    IN /\ n <= Len(sent) /\ delivered = SubSeq(sent, 1, n)
       /\ IsPrefix(arrived \o pipe, Bytes(Len(sent)))
       /\ ~broken => arrived \o pipe = Bytes(Len(sent))
       /\ n < Len(sent) => Len(arrived) < Len(Bytes(n + 1))

\* A byte of the payload of a received frame changed, verifyChecksum says so.
ChangedPayloadFails ==
    \A i \in 1 .. Len(delivered) : \A j \in 1 .. Len(delivered[i].payload) :
        \A b \in Byte \ {delivered[i].payload[j]} :
            ~VerifyChecksum([delivered[i] EXCEPT !.payload[j] = b])

\* Every frame written on a connection that holds is handed on.
EveryFrameArrives ==
    \A n \in 1 .. MaxFrames : (Len(sent) >= n /\ ~broken) ~> (Len(delivered) >= n \/ broken)

Channel == INSTANCE FrameChannel

\* The byte stream with its parser implements the channel of whole frames.
ImplementsFrameChannel == Channel!Spec
===============================================================================
