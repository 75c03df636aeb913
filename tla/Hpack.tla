------------------------------- MODULE Hpack -------------------------------
(***************************************************************************)
(* As much of HPACK as dog uses (dns-transport/src/h2.rs): integers and    *)
(* strings as they are written into a block of headers, and the status     *)
(* that a response's block has to start with.                              *)
(*                                                                         *)
(* Bytes are the numbers 0..255.  What is read from the start of some      *)
(* bytes is a value and how many bytes it took, or None, where the code    *)
(* has an error: each of them is MalformedHttp.                            *)
(***************************************************************************)
EXTENDS Integers, SequencesExt

None == [value |-> -1, used |-> 0]
Some(value, used) == [value |-> value, used |-> used]

\* There is no status in the block.
NoStatus == -1

\* The bytes from some place on, counted from 0.
From(bytes, at) == SubSeq(bytes, at + 1, Len(bytes))

-----------------------------------------------------------------------------
(* Integers.                                                               *)

\* Seven bits at a time, the lowest first, each but the last marked.
Sevens(rest) ==
    LET groups[n \in Nat] == IF n < 128 THEN <<n>> ELSE <<128 + (n % 128)>> \o groups[n \div 128]
    IN  groups[rest]

\* integer: in the prefix if it fits, and otherwise the rest behind it.
Integer(value, prefix_bits, high_bits) ==
    LET limit == 2^prefix_bits - 1 IN
    IF value < limit THEN <<high_bits + value>>
    ELSE <<high_bits + limit>> \o Sevens(value - limit)

\* read_integer: at most four bytes follow the prefix, up to the first that is
\* not marked.
ReadInteger(bytes, prefix_bits) ==
    LET limit == 2^prefix_bits - 1
        first == Head(bytes) % 2^prefix_bits
        lasts == {i \in 2..5 : i <= Len(bytes) /\ bytes[i] < 128}
        last  == CHOOSE i \in lasts : \A j \in lasts : i <= j
        group(i) == (bytes[i] % 128) * 128^(i - 2) IN
    CASE bytes = <<>> -> None
      [] bytes # <<>> /\ first < limit -> Some(first, 1)
      [] bytes # <<>> /\ first >= limit ->
            IF lasts = {} THEN None
            ELSE Some(first + MapThenSumSet(group, 2..last), last)

-----------------------------------------------------------------------------
(* Strings.                                                                *)

\* The Huffman codes of the digits: their bits as a number, and how many.
HUFFMAN_DIGITS == << <<0, 5>>, <<1, 5>>, <<2, 5>>, <<25, 6>>, <<26, 6>>,
                     <<27, 6>>, <<28, 6>>, <<29, 6>>, <<30, 6>>, <<31, 6>> >>

\* The bits of bytes, the highest of each first.
Bits(bytes) == [i \in 1..(8 * Len(bytes)) |-> (bytes[((i - 1) \div 8) + 1] \div 2^(7 - ((i - 1) % 8))) % 2]

\* Mutant of IsPadding: whatever is left over is padding.
AnyLength(code, length) == TRUE

\* What is left over at the end: all ones.
IsPadding(code, length) == code = 2^length - 1

\* huffman_digits, bit by bit: the digits so far, the bits of the next one so
\* far, and whether they can still become one.
NextBit(so_far, bit) ==
    LET code   == (2 * so_far.code) + bit
        length == so_far.length + 1
        digit  == {d \in 0..9 : HUFFMAN_DIGITS[d + 1] = <<code, length>>} IN
    IF ~so_far.ok THEN so_far
    ELSE IF digit # {}
    THEN [ok |-> TRUE, code |-> 0, length |-> 0,
          digits |-> so_far.digits \o SetToSeq({48 + d : d \in digit})]
    ELSE [ok |-> length <= 7, code |-> code, length |-> length, digits |-> so_far.digits]

\* The digits as the bytes "0" to "9"; or no text at all, which is no status.
HuffmanDigits(coded) ==
    LET end == FoldLeft(NextBit, [ok |-> TRUE, code |-> 0, length |-> 0, digits |-> <<>>], Bits(coded)) IN
    IF end.ok /\ IsPadding(end.code, end.length) THEN end.digits ELSE <<>>

\* string: its length, whether it is Huffman-coded, and its bytes.  No text,
\* when it is cut short, is as little a status as an empty one.
String(bytes) ==
    LET length == ReadInteger(bytes, 7)
        raw == SubSeq(bytes, length.used + 1, length.used + length.value) IN
    IF length = None \/ Len(bytes) < length.used + length.value THEN <<>>
    ELSE IF Head(bytes) < 128 THEN raw ELSE HuffmanDigits(raw)

-----------------------------------------------------------------------------
(* The status.                                                             *)

\* Entries 8 to 14 of the static table.
STATIC_STATUSES == <<200, 204, 206, 304, 400, 404, 500>>

StaticStatus(index) == IF index \in 8..14 THEN STATIC_STATUSES[index - 7] ELSE NoStatus

ParseStatus(text) ==
    IF Len(text) = 3 /\ \A i \in 1..3 : text[i] \in 48..57
    THEN (100 * (text[1] - 48)) + (10 * (text[2] - 48)) + (text[3] - 48)
    ELSE NoStatus

IsSizeChange(byte) == byte \in 32..63

\* Mutant of FirstField: one size change at most.
FirstFieldAfterOne(block) ==
    IF block # <<>> /\ IsSizeChange(Head(block)) THEN From(block, ReadInteger(block, 5).used) ELSE block

\* first_field: what comes after the changes of the table's size.
FirstField(block) ==
    LET after[at \in 0..Len(block)] ==
            IF at = Len(block) \/ ~IsSizeChange(block[at + 1]) THEN From(block, at)
            ELSE LET size == ReadInteger(From(block, at), 5) IN
                 IF size = None THEN <<>> ELSE after[at + size.used]
    IN  after[0]

\* status: an entry of the static table, or a field written out under the
\* name of one, with or without being added to the table.
Status(block) ==
    LET field == FirstField(block)
        index(bits) == ReadInteger(field, bits)
        bits == IF (Head(field) \div 64) % 2 = 1 THEN 6 ELSE 4 IN
    IF field = <<>> THEN NoStatus
    ELSE IF Head(field) >= 128 THEN StaticStatus(index(7).value)
    ELSE IF StaticStatus(index(bits).value) = NoStatus THEN NoStatus
    ELSE ParseStatus(String(From(field, index(bits).used)))

=============================================================================
