---------------------------- MODULE NameReading -----------------------------
(***************************************************************************)
(* Reading one domain name out of a message, expanding its compression     *)
(* pointers (read_labels and read_string_recursive of dns/src/strings.rs). *)
(*                                                                         *)
(* The recursion is one loop here: a call for a pointer does nothing after *)
(* it returns but move the cursor back, so all calls return at once.       *)
(***************************************************************************)
EXTENDS Cursor

CONSTANTS
    Base,            \* how many values a byte has (256)
    PointerMark,     \* the least first byte of a pointer (192)
    RECURSION_LIMIT  \* how many pointers are too many (8)

ASSUME BytesAssumption ==
    /\ Base \in Nat /\ PointerMark \in 1..Base
    /\ Messages \subseteq Seq(0..(Base - 1))

ASSUME LimitAssumption == RECURSION_LIMIT \in Nat \ {0}

INSTANCE NameRecursion

VARIABLES
    start,         \* where the name starts
    labels,        \* the segments read so far
    bytes_read,    \* what the outermost call has counted
    recursions,    \* the offsets of the pointers followed
    back,          \* where the outermost call comes back to, or NoWhere
    looked         \* history: how many bytes were read in all

name_vars == <<message, start, pos, labels, bytes_read, recursions, back, looked, result>>

NoWhere == -1

-----------------------------------------------------------------------------

\* read_u8 has a byte at this position.  A pointer may lead past the end.
HasByte(at) == at < Len(message)

\* Mutant of IsPointer: a mark that is all of the byte is missed.
IsPointerAbove(byte) == byte > PointerMark

IsPointer(byte) == byte >= PointerMark

\* u16::from_be_bytes of the two bytes of the pointer at the cursor.
Offset == (Base * (Byte(pos) - PointerMark)) + Byte(pos + 1)

NameInit ==
    /\ message \in Messages
    /\ start \in 0..Len(message) /\ pos = start
    /\ labels = <<>> /\ bytes_read = 0 /\ recursions = <<>> /\ back = NoWhere
    /\ looked = 0
    /\ result = "Reading"

\* The bytes read count as the outermost call's until it follows a pointer.
Count(n) ==
    /\ bytes_read' = IF back = NoWhere THEN bytes_read + n ELSE bytes_read
    /\ looked' = looked + n

FailName(error) ==
    /\ result' = error
    /\ UNCHANGED <<message, start, pos, labels, bytes_read, recursions, back, looked>>

\* Mutant of EndName: the cursor stays where the last pointer led.
EndNameThere ==
    /\ result = "Reading" /\ HasByte(pos) /\ Byte(pos) = 0
    /\ Count(1)
    /\ pos' = pos + 1
    /\ result' = "Ok"
    /\ UNCHANGED <<message, start, labels, recursions, back>>

\* A zero ends the name, and every call comes back to after its pointer.
EndName ==
    /\ result = "Reading" /\ HasByte(pos) /\ Byte(pos) = 0
    /\ Count(1)
    /\ pos' = IF back = NoWhere THEN pos + 1 ELSE back
    /\ result' = "Ok"
    /\ UNCHANGED <<message, start, labels, recursions, back>>

ReadLabel ==
    /\ result = "Reading" /\ HasByte(pos) /\ Byte(pos) # 0 /\ ~IsPointer(Byte(pos))
    /\ HasByte(pos + Byte(pos))
    /\ labels' = Append(labels, SubSeq(message, pos + 2, pos + 1 + Byte(pos)))
    /\ Count(1 + Byte(pos))
    /\ pos' = pos + 1 + Byte(pos)
    /\ UNCHANGED <<message, start, recursions, back, result>>

\* There is a whole pointer at the cursor.
AtPointer ==
    /\ result = "Reading" /\ HasByte(pos) /\ IsPointer(Byte(pos)) /\ HasByte(pos + 1)

Followed(offset) == Contains(recursions, offset)

\* Mutant of FollowPointer: the offset is not kept.
FollowUnrecorded ==
    /\ AtPointer /\ ~Followed(Offset) /\ Len(recursions) + 1 < RECURSION_LIMIT
    /\ Count(2)
    /\ back' = IF back = NoWhere THEN pos + 2 ELSE back
    /\ pos' = Offset
    /\ UNCHANGED <<message, start, labels, recursions, result>>

FollowPointer ==
    /\ AtPointer /\ ~Followed(Offset) /\ Len(recursions) + 1 < RECURSION_LIMIT
    /\ Count(2)
    /\ recursions' = Append(recursions, Offset)
    /\ back' = IF back = NoWhere THEN pos + 2 ELSE back
    /\ pos' = Offset
    /\ UNCHANGED <<message, start, labels, result>>

TooMuchRecursion ==
    /\ AtPointer
    /\ Followed(Offset) \/ Len(recursions) + 1 >= RECURSION_LIMIT
    /\ FailName("TooMuchRecursion")

\* read_u8 fails in a length, a pointer or a label.
CutShort ==
    /\ result = "Reading"
    /\ HasByte(pos) => ~HasByte(pos + (IF IsPointer(Byte(pos)) THEN 1 ELSE Byte(pos)))
    /\ FailName("IO")

NameDone == result # "Reading" /\ UNCHANGED name_vars

Step == EndName \/ ReadLabel \/ FollowPointer \/ TooMuchRecursion \/ CutShort

NameNext == Step \/ NameDone

NameSpec == NameInit /\ [][NameNext]_name_vars

-----------------------------------------------------------------------------
(* Properties.                                                             *)

NameTypeOK ==
    /\ message \in Messages
    /\ start \in 0..Len(message)
    /\ pos \in Nat
    /\ labels \in Seq(Seq(0..(Base - 1)))
    /\ bytes_read \in Nat /\ looked \in Nat
    /\ recursions \in Seq(Nat) /\ Len(recursions) < RECURSION_LIMIT
    /\ back \in Nat \cup {NoWhere}
    /\ result \in {"Reading", "Ok", "TooMuchRecursion", "IO"}

\* The caller goes on right behind the name as it stands in the message: the
\* count returned is how far the cursor moved, pointers followed or not, and
\* the cursor is within the message (read_string_recursive, which records
\* rely on when they compare what was read with their stated length).  The
\* count never exceeds the message on the way, so that it fits its u16.
CursorMatchesCount ==
    /\ result = "Ok" => pos = start + bytes_read
    /\ start + bytes_read <= Len(message)

\* However the pointers of a message lead to one another, no more is read
\* than the whole message once for each pointer followed and once before.
\* Every step reads a byte or is the last, so reading ends.
WorkIsBounded == looked <= (Len(recursions) + 1) * Len(message)

\* The loop reads what the recursion of read_string_recursive does: the same
\* labels to the same place, or the same error.
ReadsTheName ==
    result # "Reading" =>
        LET name == ReadString(message, start, <<>>) IN
        IF name.ok
        THEN result = "Ok" /\ labels = name.labels /\ pos = name.pos /\ bytes_read = name.count
        ELSE result = name.error

=============================================================================
