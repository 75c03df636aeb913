--------------------------- MODULE MessageReading ---------------------------
(***************************************************************************)
(* Reading a response out of its bytes (Response::from_bytes): the header, *)
(* then the queries, answers, authorities and additional records that it   *)
(* counts, each record's data step by step as its type lays down.          *)
(*                                                                         *)
(* A number is kept as the bytes it was read from.                         *)
(***************************************************************************)
EXTENDS RecordTypes, Cursor

CONSTANTS
    TotalMax,          \* the greatest length a TXT record can count (65535)
    ReadLabels(_, _)   \* the name that stands at a position of a message

ASSUME MessagesAssumption == Messages \subseteq Seq(0..255)

ASSUME TotalAssumption == TotalMax \in Nat

\* What NamesEndWithin (MessageReading_proofs) says of a name: it ends within
\* the message; and the errors that reading one may end in.
ASSUME NamesAssumption ==
    \A m \in Messages : \A at \in 0..Len(m) :
        LET name == ReadLabels(m, at) IN
        IF name.ok THEN name.pos \in (at + 1)..Len(m)
        ELSE name.error \in {"TooMuchRecursion", "IO"}

VARIABLES
    header,    \* the two bytes of the ID and of the flags, once they are read
    section,   \* 0 for the header, 1 to 4, and 5 after the additional records
    counts,    \* how many entries of each section are still to come
    entries,   \* the entries read, by section
    record,    \* the head of the last record that was begun
    fields,    \* the fields of its data read so far
    todo       \* the steps its data still take, none between entries

vars == <<message, pos, header, section, counts, entries, record, fields, todo, result>>

Query == 1
Additional == 4

\* What record says before there is one, and the fields before there are any.
NoRecord == [type |-> 0, begun |-> 0, stated |-> 0]
NoFields == <<>>

-----------------------------------------------------------------------------

Has(at, n) == at + n <= Len(message)
Bytes(at, n) == SubSeq(message, at + 1, at + n)
U16(at) == 256 * Byte(at) + Byte(at + 1)

Init ==
    /\ message \in Messages
    /\ pos = 0 /\ header = [id |-> <<>>, flags |-> <<>>]
    /\ section = 0 /\ counts = [s \in 1..4 |-> 0] /\ entries = [s \in 1..4 |-> <<>>]
    /\ record = NoRecord /\ fields = NoFields /\ todo = <<>>
    /\ result = "Reading"

Fail(error) ==
    /\ result' = error
    /\ UNCHANGED <<message, pos, header, section, counts, entries, record, fields, todo>>

ReadHeader ==
    /\ result = "Reading" /\ section = 0
    /\ \/ ~Has(0, 12) /\ Fail("IO")
       \/ /\ Has(0, 12)
          /\ header' = [id |-> Bytes(0, 2), flags |-> Bytes(2, 2)]
          /\ counts' = [s \in 1..4 |-> U16(2 + 2 * s)]
          /\ section' = 1
          /\ pos' = 12
          /\ UNCHANGED <<message, entries, record, fields, todo, result>>

Between == result = "Reading" /\ section \in 1..4 /\ todo = <<>>

NextSection ==
    /\ Between /\ counts[section] = 0
    /\ section' = section + 1
    /\ result' = IF section = Additional THEN "Ok" ELSE result
    /\ UNCHANGED <<message, pos, header, counts, entries, record, fields, todo>>

\* Mutant of Add: an entry is not counted down until the one after it.
AddUncounted(entry) ==
    /\ entries' = [entries EXCEPT ![section] = Append(@, entry)]
    /\ counts' = [counts EXCEPT ![section] = IF entries[section] = <<>> THEN @ ELSE @ - 1]

Add(entry) ==
    /\ entries' = [entries EXCEPT ![section] = Append(@, entry)]
    /\ counts' = [counts EXCEPT ![section] = @ - 1]

\* Each entry begins with a name; from then on it is a query or a record.
AtEntry == Between /\ counts[section] > 0
Owner == ReadLabels(message, pos)

ReadOwnerFails == AtEntry /\ ~Owner.ok /\ Fail(Owner.error)

ReadQuery ==
    /\ AtEntry /\ section = Query /\ Owner.ok
    /\ \/ ~Has(Owner.pos, 4) /\ Fail("IO")
       \/ /\ Has(Owner.pos, 4)
          /\ Add([qname |-> Owner.labels, qtype |-> U16(Owner.pos), qclass |-> U16(Owner.pos + 2)])
          /\ pos' = Owner.pos + 4
          /\ UNCHANGED <<message, header, section, record, fields, todo, result>>

AtRecord == AtEntry /\ section # Query /\ Owner.ok

IsOPT(number) == number = OPT_RR_TYPE

\* The head of a record is cut short, or what OPT has in its place.
HeadCutShort ==
    /\ AtRecord
    /\ \/ ~Has(Owner.pos, 10)
       \/ Has(Owner.pos, 10) /\ IsOPT(U16(Owner.pos)) /\ ~Has(Owner.pos, 10 + U16(Owner.pos + 8))
    /\ Fail("IO")

\* OPT::read, which goes by its own length.
ReadOPT ==
    /\ AtRecord /\ Has(Owner.pos, 10) /\ IsOPT(U16(Owner.pos))
    /\ LET at == Owner.pos
           length == U16(at + 8)
       IN
       /\ Has(at, 10 + length)
       /\ Add([head |-> [qname |-> Owner.labels, type |-> OPT_RR_TYPE],
               fields |-> [udp_payload_size |-> Bytes(at + 2, 2), higher_bits |-> Bytes(at + 4, 1),
                           edns0_version |-> Bytes(at + 5, 1), flags |-> Bytes(at + 6, 2),
                           data |-> Bytes(at + 10, length)]])
       /\ pos' = at + 10 + length
    /\ UNCHANGED <<message, header, section, record, fields, todo, result>>

\* The head of any other record; its data begin here and are as long as stated.
ReadHead ==
    /\ AtRecord /\ Has(Owner.pos, 10) /\ ~IsOPT(U16(Owner.pos))
    /\ LET at == Owner.pos IN
       /\ record' = [qname |-> Owner.labels, type |-> U16(at), qclass |-> U16(at + 2),
                     ttl |-> Bytes(at + 4, 4), stated |-> U16(at + 8), begun |-> at + 10]
       /\ fields' = NoFields
       /\ todo' = Reader(U16(at))
       /\ pos' = at + 10
    /\ UNCHANGED <<message, header, section, counts, entries, result>>

-----------------------------------------------------------------------------
(* The steps of a record's data.                                           *)

At(step) == result = "Reading" /\ todo # <<>> /\ todo[1].step = step

Taken == pos - record.begun

\* The fields in the bytes from here on, and one field with this value.
Spans(spans) == [f \in DOMAIN spans |-> Bytes(pos + spans[f][1] - 1, spans[f][2] - spans[f][1] + 1)]
Field(f, value) == [x \in {f} |-> value]

\* The step adds these fields, and the next one goes on from here.
GoOn(more, end) ==
    /\ fields' = more @@ fields
    /\ pos' = end
    /\ todo' = Tail(todo)
    /\ UNCHANGED <<message, header, section, counts, entries, record, result>>

\* The step is the last one.  Where the record ended is kept as history.
Finish(more, end) ==
    /\ Add([head |-> record, fields |-> more @@ fields, ended |-> end])
    /\ todo' = <<>>
    /\ pos' = end
    /\ UNCHANGED <<message, header, section, record, fields, result>>

TakeExactly ==
    /\ At("Exactly")
    /\ LET left == todo[1].n - Taken IN
       \/ record.stated # todo[1].n /\ Fail("WrongRecordLength")
       \/ record.stated = todo[1].n /\ ~Has(pos, left) /\ Fail("IO")
       \/ /\ record.stated = todo[1].n /\ Has(pos, left)
          /\ Finish(Spans(todo[1].fields), pos + left)

\* Mutant of CheckLength: the least length is refused too.
CheckLengthStrictly ==
    /\ At("AtLeast")
    /\ \/ record.stated <= todo[1].n /\ Fail("WrongRecordLength")
       \/ record.stated > todo[1].n /\ GoOn(<<>>, pos)

CheckLength ==
    /\ At("AtLeast")
    /\ \/ record.stated < todo[1].n /\ Fail("WrongRecordLength")
       \/ record.stated >= todo[1].n /\ GoOn(<<>>, pos)

TakeVersion ==
    /\ At("Version")
    /\ \/ ~Has(pos, 1) /\ Fail("IO")
       \/ Has(pos, 1) /\ Byte(pos) # 0 /\ Fail("WrongVersion")
       \/ Has(pos, 1) /\ Byte(pos) = 0 /\ GoOn(<<>>, pos + 1)

TakeFields ==
    /\ At("Take")
    /\ \/ ~Has(pos, todo[1].n) /\ Fail("IO")
       \/ Has(pos, todo[1].n) /\ GoOn(Spans(todo[1].fields), pos + todo[1].n)

TakeName ==
    /\ At("Name")
    /\ LET name == ReadLabels(message, pos) IN
       \/ ~name.ok /\ Fail(name.error)
       \/ name.ok /\ GoOn(Field(todo[1].field, name.labels), name.pos)

\* There is a whole string here (read_character_string).
HasString == Has(pos, 1) /\ Has(pos, 1 + Byte(pos))

TakeString ==
    /\ At("String")
    /\ \/ ~HasString /\ Fail("IO")
       \/ HasString /\ GoOn(Field(todo[1].field, Bytes(pos + 1, Byte(pos))), pos + 1 + Byte(pos))

TakeRest ==
    /\ At("Rest")
    /\ LET left == record.stated - Taken IN
       \/ left < 0 /\ Fail("WrongLabelLength")
       \/ left >= 0 /\ ~Has(pos, left) /\ Fail("IO")
       \/ left >= 0 /\ Has(pos, left) /\ Finish(Field(todo[1].field, Bytes(pos, left)), pos + left)

TakeRestIfAny ==
    /\ At("RestIfAny")
    /\ LET left == IF record.stated > Taken THEN record.stated - Taken ELSE 0 IN
       \/ ~Has(pos, left) /\ Fail("IO")
       \/ Has(pos, left) /\ Finish(Field(todo[1].field, Bytes(pos, left)), pos + left)

\* Mutant of CheckWhole: the length is not looked at.
CheckWholeUnchecked == At("Whole") /\ Finish(<<>>, pos)

CheckWhole ==
    /\ At("Whole")
    /\ \/ record.stated # Taken /\ Fail("WrongLabelLength")
       \/ record.stated = Taken /\ Finish(<<>>, pos)

-----------------------------------------------------------------------------
(* The strings of a TXT record.  One of 255 bytes is continued by the next *)
(* into the same message, unless the stated length has been reached.       *)

Total == Taken + 1 + Byte(pos)

\* The messages with the string that stands here.
Received ==
    LET string == Bytes(pos + 1, Byte(pos))
        messages == IF DOMAIN fields = {} THEN <<>> ELSE fields.messages
    IN  IF todo[1].open
        THEN Front(messages) \o <<Last(messages) \o string>>
        ELSE Append(messages, string)

\* The count overflows, and the release build checks that it does not.
StringsOverflow == At("Strings") /\ Has(pos, 1) /\ Total > TotalMax /\ Fail("Panic")

StringsCutShort ==
    /\ At("Strings")
    /\ Has(pos, 1) => Total <= TotalMax /\ ~HasString
    /\ Fail("IO")

MoreStrings ==
    /\ At("Strings") /\ HasString /\ Total <= TotalMax
    /\ Total < record.stated
    /\ fields' = [messages |-> Received]
    /\ pos' = pos + 1 + Byte(pos)
    /\ todo' = <<Strings(Byte(pos) = 255)>>
    /\ UNCHANGED <<message, header, section, counts, entries, record, result>>

LastString ==
    /\ At("Strings") /\ HasString /\ Total <= TotalMax
    /\ \/ Total = record.stated /\ Finish([messages |-> Received], pos + 1 + Byte(pos))
       \/ Total > record.stated /\ Fail("WrongLabelLength")

TakeStrings == StringsOverflow \/ StringsCutShort \/ MoreStrings \/ LastString

-----------------------------------------------------------------------------

ReadEntry == ReadOwnerFails \/ ReadQuery \/ HeadCutShort \/ ReadOPT \/ ReadHead

ReadData ==
    \/ TakeExactly \/ CheckLength \/ TakeVersion \/ TakeFields \/ TakeName \/ TakeString
    \/ TakeRest \/ TakeRestIfAny \/ CheckWhole \/ TakeStrings

ReadStep == ReadHeader \/ NextSection \/ ReadEntry \/ ReadData

Done == result # "Reading" /\ UNCHANGED vars

Next == ReadStep \/ Done

Spec == Init /\ [][Next]_vars

-----------------------------------------------------------------------------
(* extended_rcode: the first OPT record of the additional ones has the     *)
(* higher eight of the twelve bits.                                        *)

Opts == SelectSeq(entries[Additional], LAMBDA entry : entry.head.type = OPT_RR_TYPE)

Rcode ==
    LET low == Flags(header.flags[1], header.flags[2]).rcode IN
    IF Opts = <<>> THEN low ELSE 16 * Opts[1].fields.higher_bits[1] + low

-----------------------------------------------------------------------------
(* Properties.                                                             *)

TypeOK ==
    /\ message \in Messages /\ pos \in 0..Len(message)
    /\ section \in 0..5
    /\ counts \in [1..4 -> Nat] /\ DOMAIN entries = 1..4

\* A record that is read, of whichever type, took exactly the bytes that its
\* length states, so that the next one begins where the sender began it
\* (wire.rs, Record::from_bytes, and `read' of each type).  Two go by other
\* rules: OPT has its own length, and CAA's fields may run beyond it.
RecordsEndWhereStated ==
    \A s \in 2..4 : \A i \in DOMAIN entries[s] :
        LET entry == entries[s][i] IN
        entry.head.type \notin {OPT_RR_TYPE, CAA.RR_TYPE} =>
            entry.ended = entry.head.begun + entry.head.stated

\* Of each section as many entries are read as the header says, those of one
\* section before the next, and a message is read only when there are all of
\* them (wire.rs, read_counts and read_section).
EntriesAsCounted ==
    /\ section > 0 => \A s \in 1..4 : counts[s] + Len(entries[s]) = U16(2 + 2 * s)
    /\ \A s \in 1..4 : s < section => counts[s] = 0
    /\ \A s \in 1..4 : s > section => entries[s] = <<>>
    /\ result = "Ok" <=> section = 5

\* wire.rs:448 says of records that end up reading more or fewer bytes than
\* they are supposed to that an error is raised; TXT's count of them, in 16
\* bits, overflows instead when they are more than it can count (txt.rs).
MismatchRaisesAnError == result # "Panic"

=============================================================================
