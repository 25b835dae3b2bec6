----------------------------- MODULE FrameHandler -----------------------------
(***************************************************************************)
(* FrameHandler::processIncomingData (include/frame_handler.h), the        *)
(* receiver TcpServer inherits, as a function of its buffer and a chunk.   *)
(* Unlike the loop of FrameStream it parses the same buffer again until    *)
(* the bytes it has added up reach the buffer's size, and then erases that *)
(* many.  No class of the tree calls it.                                   *)
(***************************************************************************)
EXTENDS FrameStream

CONSTANTS MaxBufferSize,  \* MAX_BUFFER_SIZE, 10 MB in the code
          MaxIterations   \* MAX_ITERATIONS, 1000 in the code

ASSUME HandlerAssumption == MaxBufferSize \in Nat /\ MaxIterations \in Nat

\* Seeded fault: the loop runs once more when all is consumed.
OnceMore(consumed, size) == consumed <= size

Unfinished(consumed, size) == consumed < size

\* The frames that verifyChecksum lets through.
Verified(frames) ==
    FoldLeft(LAMBDA valid, f : IF VerifyChecksum(f) THEN Append(valid, f) ELSE valid,
             << >>, frames)

\* The frames handed to frame_callback_ and what is left in the buffer. erase()
\* beyond the end of the buffer is undefined.
ProcessIncomingData(buffer, data) ==
    LET all == buffer \o data
        parsed == ProcessData(all)
        valid == Verified(parsed.frames)
        consumed(i) == i * parsed.bytes_consumed  \* bytes_consumed after i turns
        \* The turns of the loop: each parses all of the buffer anew.
        turns == IF parsed.bytes_consumed = 0 THEN 0
                 ELSE CHOOSE i \in 1 .. MaxIterations + 1 :
                        /\ i = MaxIterations + 1 \/ ~Unfinished(consumed(i), Len(all))
                        /\ \A j \in 1 .. i - 1 : Unfinished(consumed(j), Len(all))
    IN IF data = << >> THEN [handled |-> << >>, buffer |-> buffer, defined |-> TRUE]
       ELSE IF Len(all) > MaxBufferSize
            THEN [handled |-> << >>, buffer |-> << >>, defined |-> TRUE]
       ELSE [handled |-> FlattenSeq([i \in 1 .. turns |-> valid]),
             buffer |-> SubSeq(all, consumed(turns) + 1, Len(all)),
             defined |-> consumed(turns) <= Len(all)]

\* Data that is nothing but whole frames is handed on once, but for frames with a
\* wrong checksum, and leaves nothing behind; and the first part of a frame waits,
\* wherever it is cut.  They are the only two kinds of data for which the loop does
\* what FrameStream does.
WholeDataHandledOnce ==
    /\ LET whole == ProcessIncomingData(<< >>, pipe)
           parsed == ProcessData(pipe)
       IN (parsed.bytes_consumed = Len(pipe) /\ Len(pipe) <= MaxBufferSize)
            => whole = [handled |-> Verified(parsed.frames),
                        buffer |-> << >>, defined |-> TRUE]
    /\ pipe # << >> =>
         LET data == <<Head(pipe)>>
             waits == ProcessIncomingData(frameBuffer, data)
         IN (~HasFrame(frameBuffer \o data) /\ Len(frameBuffer) < MaxBufferSize)
              => waits = [handled |-> << >>, buffer |-> frameBuffer \o data, defined |-> TRUE]
===============================================================================
