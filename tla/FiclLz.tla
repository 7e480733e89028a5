------------------------------- MODULE FiclLz -------------------------------
(***************************************************************************)
(* The compressed softcore: ficlLzCompress (lzcompress.c) writes a text as *)
(* a stream of bits behind a header, when Ficl is built, and               *)
(* ficlLzUncompress (lzuncompress.c) reads it back when a system starts.   *)
(* A 32-bit build: there unsigned long and unsigned int have one size,     *)
(* which the compressor takes for granted.                                 *)
(***************************************************************************)
EXTENDS Integers, SequencesExt

CONSTANTS
    OffsetBits, LengthBits, NextBits,   \* FICL_LZ_*_BITS; a byte has NextBits
    Symbols,        \* the bytes texts are made of
    MaxText,        \* bound: the longest text
    Obligations     \* what whoever builds the softcore sees to

(***************************************************************************)
(*   header_lengths   no length is the largest that the compressor writes  *)
(*                    in one byte or in two (252, 65536)                   *)
(***************************************************************************)
AllObligations == {"header_lengths"}

PhraseBits         == 1 + OffsetBits + LengthBits + NextBits
SymbolBits         == 1 + NextBits
MinimumUsefulMatch == PhraseBits \div SymbolBits
WindowSize         == 2 ^ OffsetBits
BufferSize         == 2 ^ LengthBits + MinimumUsefulMatch
ByteSize           == 2 ^ NextBits
Escape             == ByteSize - 4      \* 252: two bytes follow 253, four 254
TwoBytes           == ByteSize ^ 2      \* 65536

ASSUME BitsAssumption ==
    /\ OffsetBits \in Nat \ {0} /\ LengthBits \in Nat \ {0} /\ NextBits \in Nat \ {0, 1}
    /\ Symbols \subseteq 0..ByteSize - 1 /\ MaxText \in Nat
    /\ Obligations \subseteq AllObligations

VARIABLES
    text,           \* what is compressed
    packer,         \* the compressor: its buffer, window and output so far
    header,         \* the two lengths, in bytes; << >> until they are written
    unpacker        \* the decompressor: its place, window and output so far

vars == <<text, packer, header, unpacker>>

Least(a, b) == IF a < b THEN a ELSE b

\* ficlBitSet and ficlBitGetString, and the network order both ends keep.
BitsOf(n, width) == [i \in 1..width |-> (n \div (2 ^ (width - i))) % 2]
NumberOf(bits)   == FoldLeft(LAMBDA n, bit : 2 * n + bit, 0, bits)

-----------------------------------------------------------------------------
(* The compressor.  Places count from 0, as pointers into the text do.       *)

At(place) == text[place + 1]

Remaining == Len(text) - packer.buffer

\* How many characters from the buffer's start repeat those from trace on.
MatchLength(trace, windowEnd, bufferEnd) ==
    LET Same(n) == /\ trace + n <= windowEnd /\ packer.buffer + n <= bufferEnd
                   /\ \A k \in 0..n - 1 : At(trace + k) = At(packer.buffer + k)
    IN CHOOSE n \in 0..BufferSize : Same(n) /\ ~Same(n + 1)

\* ficlLzCompareWindow: the first of the longest matches in the window.
CompareWindow(windowSize, bufferSize) ==
    LET windowEnd  == packer.window + windowSize
        Length(t)  == MatchLength(t, windowEnd, packer.buffer + bufferSize - 1)
        traces     == {t \in packer.window..windowEnd - 1 : Length(t) >= MinimumUsefulMatch}
        longest    == {t \in traces : \A u \in traces : Length(u) <= Length(t)}
        first      == CHOOSE t \in longest : \A u \in longest : t <= u
    IN IF traces = {} THEN [length |-> 0, offset |-> 0]
       ELSE [length |-> Length(first), offset |-> first - packer.window]

\* The window follows the buffer, once it has its full size.
Slid(size, length) ==
    IF size = WindowSize THEN [by |-> length, size |-> size]
    ELSE IF size + length < WindowSize THEN [by |-> 0, size |-> size + length]
    ELSE [by |-> size + length - WindowSize, size |-> WindowSize]

\* One turn of the loop of ficlLzCompress: a phrase or a symbol.
Pack ==
    /\ header = << >> /\ Remaining > 0
    /\ LET match  == CompareWindow(Least(Remaining, packer.windowSize), Least(Remaining, BufferSize))
           next   == At(packer.buffer + match.length)
           phrase == 2 ^ (PhraseBits - 1) + match.offset * 2 ^ (LengthBits + NextBits)
                     + (match.length - MinimumUsefulMatch) * 2 ^ NextBits + next
           token  == IF match.length > 1 THEN BitsOf(phrase, PhraseBits) ELSE BitsOf(next, SymbolBits)
           slid   == Slid(packer.windowSize, match.length + 1)
       IN packer' = [buffer |-> packer.buffer + match.length + 1, window |-> packer.window + slid.by,
                     windowSize |-> slid.size, output |-> packer.output \o token]
    /\ UNCHANGED <<text, header, unpacker>>

BytesOf(n, count) == [i \in 1..count |-> (n \div (ByteSize ^ (count - i))) % ByteSize]

\* ficlLzEncodeHeaderField.
EncodeHeaderField(n) ==
    IF n <= Escape THEN <<n>>
    ELSE IF n <= TwoBytes THEN <<Escape + 1>> \o BytesOf(n, 2)
    ELSE <<Escape + 2>> \o BytesOf(n, 4)

\* The header goes before the stream: its bits, then the size of the text.
WriteHeader ==
    /\ header = << >> /\ Remaining = 0
    /\ "header_lengths" \in Obligations =>
         {Len(packer.output), Len(text)} \cap {Escape, TwoBytes} = {}
    /\ header' = EncodeHeaderField(Len(packer.output)) \o EncodeHeaderField(Len(text))
    /\ UNCHANGED <<text, packer, unpacker>>

-----------------------------------------------------------------------------
(* The decompressor.                                                         *)

\* ficlLzDecodeHeaderField at a place in the header: the value, and the next place.
\* A byte behind the header belongs to the stream: any value, here 0.
DecodeHeaderField(at) ==
    LET id      == header[at]
        count   == IF id = Escape + 1 THEN 2 ELSE 4
        Byte(i) == IF i \in DOMAIN header THEN header[i] ELSE 0
    IN IF id < Escape THEN [value |-> id, next |-> at + 1]
       ELSE [value |-> FoldLeft(LAMBDA n, i : n * ByteSize + Byte(at + i), 0, [i \in 1..count |-> i]),
             next |-> at + count + 1]

ReadHeader ==
    /\ header # << >> /\ unpacker.stream = -1
    /\ LET stream == DecodeHeaderField(1)
           size   == IF stream.next \in DOMAIN header THEN DecodeHeaderField(stream.next).value ELSE 0
       IN unpacker' = [unpacker EXCEPT !.stream = stream.value, !.size = size]
    /\ UNCHANGED <<text, packer, header>>

\* Bits of the stream; behind its end there is none, here 0.
Bits(from, count) ==
    [i \in 1..count |-> IF from + i \in DOMAIN packer.output THEN packer.output[from + i] ELSE 0]

\* Faulty: the window is that of the output before the last symbol.
WindowBehind(output) == IF Len(output) - 1 > WindowSize THEN Len(output) - 1 - WindowSize ELSE 0

\* Where the window begins behind what has been put out.
WindowOf(output) == IF Len(output) > WindowSize THEN Len(output) - WindowSize ELSE 0

\* One turn of the loop of ficlLzUncompress.
Unpack ==
    /\ unpacker.stream # -1 /\ unpacker.place # unpacker.stream
    /\ Len(unpacker.output) <= MaxText
    /\ LET isPhrase == Bits(unpacker.place, 1) = <<1>>
           middle   == IF isPhrase THEN OffsetBits + LengthBits ELSE 0
           field    == NumberOf(Bits(unpacker.place + 1, middle))
           length   == (field % (2 ^ LengthBits)) + MinimumUsefulMatch
           offset   == unpacker.window + (field \div (2 ^ LengthBits))
           repeated == IF isPhrase THEN SubSeq(unpacker.output, offset + 1, offset + length) ELSE << >>
           next     == NumberOf(Bits(unpacker.place + 1 + middle, NextBits))
           output   == unpacker.output \o repeated \o <<next>>
       IN unpacker' = [unpacker EXCEPT !.place = @ + 1 + middle + NextBits,
                         !.output = output, !.window = WindowOf(output)]
    /\ UNCHANGED <<text, packer, header>>

-----------------------------------------------------------------------------
Init ==
    /\ text \in BoundedSeq(Symbols, MaxText)
    /\ packer = [buffer |-> 0, window |-> 0, windowSize |-> 0, output |-> << >>]
    /\ header = << >>
    /\ unpacker = [stream |-> -1, size |-> -1, place |-> 0, window |-> 0, output |-> << >>]

Next == Pack \/ WriteHeader \/ ReadHeader \/ Unpack

Spec == Init /\ [][Next]_vars /\ WF_vars(Next)

-----------------------------------------------------------------------------
(* Every text that is compressed is read back whole: the two lengths of the  *)
(* header are read as they were written (the assertion on                    *)
(* gotUncompressedSize in the generated softcore.c), an offset means the     *)
(* same place to both ends though each moves a window of its own, and both   *)
(* ends stop where the other does.                                           *)
WholeText == header # << >> ~> unpacker.output = text /\ unpacker.size = Len(text)
                                       /\ unpacker.place = unpacker.stream
=============================================================================
