---------------------------- MODULE NameRecursion ----------------------------
(***************************************************************************)
(* The name at a position of a message, by recursion as                    *)
(* read_string_recursive of dns/src/strings.rs has it.  NameReading is the *)
(* same as a loop, which MessageReading_proofs shows to read the same.     *)
(*                                                                         *)
(* Going on behind a label counts as a call here as well.                  *)
(***************************************************************************)
EXTENDS Integers, SequencesExt

CONSTANTS Base, PointerMark, RECURSION_LIMIT

Failure(error) == [ok |-> FALSE, error |-> error]

\* The labels, where the cursor ends and what the call has counted.
Success(labels, pos, count) == [ok |-> TRUE, labels |-> labels, pos |-> pos, count |-> count]

\* Where the pointer at a position leads.
PointerAt(message, at) == Base * (message[at + 1] - PointerMark) + message[at + 2]

\* What a call reads, when `seen' are the pointers followed before, and `reads'
\* is what the calls read that it makes itself.
FromPointer(message, reads, at, seen) ==
    LET offset == PointerAt(message, at)
        inner == reads[offset][Append(seen, offset)]
    IN  IF Contains(seen, offset) \/ Len(seen) + 1 >= RECURSION_LIMIT
        THEN Failure("TooMuchRecursion")
        ELSE IF inner.ok THEN Success(inner.labels, at + 2, 2) ELSE inner

FromLabel(message, reads, at, seen) ==
    LET byte == message[at + 1]
        rest == reads[at + 1 + byte][seen]
    IN  IF rest.ok
        THEN Success(<<SubSeq(message, at + 2, at + 1 + byte)>> \o rest.labels,
                     rest.pos, rest.count + 1 + byte)
        ELSE rest

ReadFrom(message, reads, at, seen) ==
    IF at >= Len(message) THEN Failure("IO")
    ELSE LET byte == message[at + 1] IN
    CASE byte = 0 -> Success(<<>>, at + 1, 1)
      [] byte # 0 /\ byte >= PointerMark ->
            IF at + 1 >= Len(message) THEN Failure("IO")
            ELSE FromPointer(message, reads, at, seen)
      [] byte # 0 /\ byte < PointerMark ->
            IF at + byte >= Len(message) THEN Failure("IO")
            ELSE FromLabel(message, reads, at, seen)

\* Between two pointers no byte is read twice, so that no more calls than these
\* are ever within one another.
CallsAtMost(message) == RECURSION_LIMIT * (Len(message) + 1)

ReadString(message, at, seen) ==
    LET reads[n \in 0..CallsAtMost(message)] ==
            [from \in Nat |-> [before \in Seq(Nat) |->
                IF n = 0 THEN Failure("too many calls")
                ELSE ReadFrom(message, reads[n - 1], from, before)]]
    IN  reads[CallsAtMost(message)][at][seen]

=============================================================================
