--------------------------- MODULE UdpFrameCodec ---------------------------
(***************************************************************************)
(* The frames that carry datagrams over a tunnel socket:                   *)
(* lib/UdpFrameCodec.js.  A frame is a sequence of bytes: its type, the    *)
(* lengths of its header and of its payload on two bytes each, the header  *)
(* and the payload.  TCP keeps the order of bytes, not the boundaries of   *)
(* writes: the parser gets chunks cut anywhere.                            *)
(***************************************************************************)
EXTENDS Naturals, Sequences, SequencesExt

CONSTANTS
    Radix,      \* the number of values of a byte: 256 in the code
    Json        \* the headers that JSON.parse accepts

ASSUME RadixAssumption == Radix \in Nat /\ Radix > 2
ASSUME JsonAssumption == Json \subseteq Seq(0..(Radix - 1))

Byte == 0..(Radix - 1)

\* What writeUInt16BE can say the length of; it throws for more
Short == {bytes \in Seq(Byte) : Len(bytes) < Radix * Radix}

Frame == [type : Byte, header : Short, payload : Short]

FRAME_DATA == 1
FRAME_SESSION_CLOSE == 2
HEADER_SIZE == 5

\* writeUInt16BE
UInt16BE(n) == << n \div Radix, n % Radix >>

\* Mutant: the low byte first
readUInt16LE(buffer, offset) == buffer[offset + 1] + buffer[offset + 2] * Radix

readUInt16BE(buffer, offset) == buffer[offset + 1] * Radix + buffer[offset + 2]

encodeFrame(frame) ==
    << frame.type >> \o UInt16BE(Len(frame.header)) \o UInt16BE(Len(frame.payload))
        \o frame.header \o frame.payload

\* The bytes of frames written one after another
Stream(frames) == FlattenSeq([i \in 1..Len(frames) |-> encodeFrame(frames[i])])

HeaderLen(buffer) == readUInt16BE(buffer, 1)
TotalLen(buffer) == HEADER_SIZE + HeaderLen(buffer) + readUInt16BE(buffer, 3)

StartsWithFrame(buffer) ==
    Len(buffer) >= HEADER_SIZE /\ Len(buffer) >= TotalLen(buffer)

FirstFrame(buffer) ==
    [type    |-> buffer[1],
     header  |-> SubSeq(buffer, HEADER_SIZE + 1, HEADER_SIZE + HeaderLen(buffer)),
     payload |-> SubSeq(buffer, HEADER_SIZE + HeaderLen(buffer) + 1, TotalLen(buffer))]

\* The frames of the buffer, those with a malformed header left out, and the
\* bytes that wait for the next chunk
parse(buffer) ==
    LET split[offset \in 0..Len(buffer)] ==
            LET rest == SubSeq(buffer, offset + 1, Len(buffer)) IN
            IF StartsWithFrame(rest)
              THEN LET next == split[offset + TotalLen(rest)] IN
                   IF FirstFrame(rest).header \in Json
                     THEN [next EXCEPT !.frames = << FirstFrame(rest) >> \o @]
                     ELSE next
              ELSE [frames |-> << >>, buffer |-> rest]
    IN split[0]
=============================================================================
