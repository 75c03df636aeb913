------------------------------- MODULE Texts --------------------------------
(***************************************************************************)
(* How names, strings, durations, places and sets of types are shown (the  *)
(* Display of Labels, Ascii, format_duration_hms, LOC, NSEC).  A text is   *)
(* the sequence of the bytes of its characters; of what is not ASCII and   *)
(* of units, only as much as tells two values apart.                       *)
(***************************************************************************)
EXTENDS Integers, SequencesExt

Backslash == 92
Quote == 34
Dot == 46
Digit(n) == 48 + n

\* A number with as many digits as it has, and one with at least so many.
Decimal(n) ==
    LET digits[k \in Nat] == IF k < 10 THEN <<Digit(k)>> ELSE Append(digits[k \div 10], Digit(k % 10))
    IN  digits[n]

AtLeastDigits(width, n) ==
    LET digits == Decimal(n) IN
    [i \in 1..(IF Len(digits) < width THEN width - Len(digits) ELSE 0) |-> Digit(0)] \o digits

-----------------------------------------------------------------------------
(* Names and strings.                                                      *)

\* Mutant of NameByte: a number of as many digits as it has.
NameByteShort(byte) ==
    IF byte \in {Dot, Backslash, Quote} THEN <<Backslash, byte>>
    ELSE IF byte \in 33..126 THEN <<byte>>
    ELSE <<Backslash>> \o Decimal(byte)

NameByte(byte) ==
    IF byte \in {Dot, Backslash, Quote} THEN <<Backslash, byte>>
    ELSE IF byte \in 33..126 THEN <<byte>>
    ELSE <<Backslash>> \o AtLeastDigits(3, byte)

Segment(bytes) == Append(FlattenSeq([i \in DOMAIN bytes |-> NameByte(bytes[i])]), Dot)

\* Labels in words; the root is a dot of its own.
ShownName(labels) ==
    IF labels = <<>> THEN <<Dot>> ELSE FlattenSeq([i \in DOMAIN labels |-> Segment(labels[i])])

StringByte(byte) ==
    IF byte \in {Quote, Backslash} THEN <<Backslash, byte>>
    ELSE IF byte \in 32..127 THEN <<byte>>
    ELSE <<Backslash>> \o Decimal(byte)

Ascii(bytes) == <<Quote>> \o FlattenSeq([i \in DOMAIN bytes |-> StringByte(bytes[i])]) \o <<Quote>>

HexDigit(n) == IF n < 10 THEN 48 + n ELSE 87 + n

Hex(bytes) == FlattenSeq([i \in DOMAIN bytes |-> <<HexDigit(bytes[i] \div 16), HexDigit(bytes[i] % 16)>>])

\* formatted_address: the octets in hexadecimal, with dashes between them.
FormattedAddress(octets) ==
    FlattenSeq([i \in DOMAIN octets |-> (IF i = 1 THEN <<>> ELSE <<45>>) \o Hex(<<octets[i]>>)])

-----------------------------------------------------------------------------
(* Durations, as days, hours, minutes and seconds without leading zeroes.  *)

Unit(letter) == CASE letter = "d" -> <<100>> [] letter = "h" -> <<104>>
                  [] letter = "m" -> <<109>> [] letter = "s" -> <<115>>

Hour == 60 * 60
Day == 24 * Hour

MinutesLeft(seconds) == AtLeastDigits(2, (seconds % Hour) \div 60) \o Unit("m")
SecondsLeft(seconds) == AtLeastDigits(2, seconds % 60) \o Unit("s")

DurationHMS(seconds) ==
    IF seconds < 60 THEN Decimal(seconds) \o Unit("s")
    ELSE IF seconds < Hour THEN Decimal(seconds \div 60) \o Unit("m") \o SecondsLeft(seconds)
    ELSE IF seconds < Day
    THEN Decimal(seconds \div Hour) \o Unit("h") \o MinutesLeft(seconds) \o SecondsLeft(seconds)
    ELSE Decimal(seconds \div Day) \o Unit("d") \o Decimal((seconds % Day) \div Hour) \o Unit("h")
            \o MinutesLeft(seconds) \o SecondsLeft(seconds)

FormatDuration(as_seconds, seconds) == IF as_seconds THEN Decimal(seconds) ELSE DurationHMS(seconds)

-----------------------------------------------------------------------------
(* Places.  A latitude or longitude is in thousandths of a second of arc   *)
(* north or east of the equator or meridian: the number on the wire less   *)
(* 2^31.                                                                   *)

Degree == 1000 * 60 * 60

OutOfRange == <<>>

\* Degrees, minutes, seconds and thousandths, and the letter of the direction.
Position(relative, vertical) ==
    LET limit == Degree * (IF vertical THEN 90 ELSE 180)
        size == IF relative >= 0 THEN relative ELSE -relative
        total_arcseconds == size \div 1000
        total_arcminutes == total_arcseconds \div 60
        direction == IF vertical THEN IF relative >= 0 THEN 78 ELSE 83
                     ELSE IF relative >= 0 THEN 69 ELSE 87
    IN  IF relative \notin (-limit)..limit
        THEN OutOfRange
        ELSE <<total_arcminutes \div 60, total_arcminutes % 60, total_arcseconds % 60, size % 1000, direction>>

\* A diameter or a precision: a digit and a power of ten, in centimetres.
Size(byte) == (byte \div 16) * 10^(byte % 16)

ShownSize(byte) ==
    Decimal(Size(byte) \div 100)
        \o (IF Size(byte) % 100 = 0 THEN <<>> ELSE <<Dot>> \o AtLeastDigits(2, Size(byte) % 100))
        \o <<109>>

\* Centimetres above the reference in metres and the rest, divided as Rust
\* does: both parts have the sign of the whole.
Altitude(above) ==
    IF above >= 0 THEN <<above \div 100, above % 100>>
    ELSE <<-((-above) \div 100), -((-above) % 100)>>

-----------------------------------------------------------------------------
(* The bitmaps of an NSEC record: windows, each of its number, its length  *)
(* and its bytes.  What cannot be a window ends the list.                  *)

TypesInByte(window, index, byte) ==
    LET set == SelectSeq(<<0, 1, 2, 3, 4, 5, 6, 7>>, LAMBDA bit : (byte \div 2^(7 - bit)) % 2 = 1)
    IN  [i \in DOMAIN set |-> window * 256 + index * 8 + set[i]]

IsWindow(data, i) ==
    /\ i + 2 <= Len(data)
    /\ data[i + 2] \in 1..32 /\ i + 2 + data[i + 2] <= Len(data)

TypeBitmaps(data) ==
    LET From[i \in Nat] ==
            IF ~IsWindow(data, i) THEN <<>>
            ELSE LET length == data[i + 2] IN
                 FlattenSeq([b \in 1..length |-> TypesInByte(data[i + 1], b - 1, data[i + 2 + b])])
                     \o From[i + 2 + length]
    IN  From[0]

=============================================================================
