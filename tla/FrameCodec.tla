------------------------------ MODULE FrameCodec ------------------------------
(***************************************************************************)
(* Frame and FrameParser (include/frame.h) as functions on byte sequences. *)
(* A frame is a header of four unsigned big-endian fields (payload length, *)
(* stream id, sequence number, checksum) and the payload.  The code has    *)
(* bytes of 256 values and fields of 4 bytes; both are parameters here, so *)
(* that overflow of a field and of the checksum is in reach of small runs. *)
(***************************************************************************)
EXTENDS Integers, Sequences, SequencesExt

CONSTANTS Base,           \* the number of values of a byte
          FieldBytes,     \* the bytes of a header field
          EnableChecksum  \* Frame::enable_checksum

ASSUME CodecAssumption == /\ Base \in Nat \ {0, 1} /\ FieldBytes \in Nat \ {0}
                          /\ EnableChecksum \in BOOLEAN

Power[k \in 0 .. FieldBytes] == IF k = 0 THEN 1 ELSE Base * Power[k - 1]

Byte == 0 .. Base - 1
Word == 0 .. Power[FieldBytes] - 1          \* uint32_t
Wrap(n) == n % Power[FieldBytes]
HeaderSize == 4 * FieldBytes

\* A field, written and read in network byte order.
Field(n) == [i \in 1 .. FieldBytes |-> (n \div Power[FieldBytes - i]) % Base]
FieldAt(data, i) ==                         \* the i-th of the header at the front
    FoldLeft(LAMBDA n, b : n * Base + b, 0,
             SubSeq(data, (i - 1) * FieldBytes + 1, i * FieldBytes))

\* Seeded fault: the payload is not summed.
HeaderSum(frame) ==
    IF EnableChecksum THEN Wrap(frame.length + frame.stream_id + frame.sequence) ELSE 0

CalculateChecksum(frame) ==
    IF EnableChecksum
    THEN Wrap(frame.length + frame.stream_id + frame.sequence
                + FoldLeft(LAMBDA n, b : n + b, 0, frame.payload))
    ELSE 0

VerifyChecksum(frame) == EnableChecksum => frame.checksum = CalculateChecksum(frame)

\* A frame with the checksum it goes out with: createFrame leaves the member
\* unset, and serialize computes it.
CreateFrame(stream_id, sequence, payload) ==
    LET frame(checksum) == [length |-> Wrap(Len(payload)), stream_id |-> stream_id,
                            sequence |-> sequence, checksum |-> checksum,
                            payload |-> payload]
    IN frame(CalculateChecksum(frame(0)))

Serialize(frame) == Field(frame.length) \o Field(frame.stream_id)
                    \o Field(frame.sequence) \o Field(CalculateChecksum(frame))
                    \o frame.payload

\* The bytes at the front of data as a frame, and its size. processData makes
\* sure of what deserialize would throw for: all the bytes are there.
FrameSize(data) == HeaderSize + FieldAt(data, 1)
Deserialize(data) == [length |-> FieldAt(data, 1), stream_id |-> FieldAt(data, 2),
                      sequence |-> FieldAt(data, 3),
                      checksum |-> FieldAt(data, 4),
                      payload |-> SubSeq(data, HeaderSize + 1, FrameSize(data))]

\* Seeded fault: a frame that ends exactly where the data ends is not seen.
HasFrameAndMore(data) == Len(data) >= HeaderSize /\ Len(data) > FrameSize(data)

HasFrame(data) == Len(data) >= HeaderSize /\ Len(data) >= FrameSize(data)

\* FrameParser::processData: the frames at the front of data, one after the
\* other, and the number of bytes they take.
ProcessData(data) ==
    LET rest(at) == SubSeq(data, at + 1, Len(data))
        parse[at \in 0 .. Len(data)] ==
          IF ~HasFrame(rest(at)) THEN [frames |-> << >>, bytes_consumed |-> at]
          ELSE LET more == parse[at + FrameSize(rest(at))]
               IN [more EXCEPT !.frames = <<Deserialize(rest(at))>> \o @]
    IN parse[0]
===============================================================================
