----------------------- MODULE MessageReading_proofs ------------------------
(***************************************************************************)
(* Reading a response stays within the message, takes of each record what  *)
(* its length states, and reads as many entries as the header counts: for  *)
(* all messages, and whatever names stand in them.  Then, of reading one   *)
(* of these names: the pointers it follows never lead it out of the        *)
(* message, nor around in it for long, and it ends as NamesAssumption says.*)
(* Of printing: a message is read in no other way, and errors are told as  *)
(* they are.  And of the recursion of the code: it ends, and the loop of   *)
(* NameReading reads the same.  Last, of what is shown: names, durations,  *)
(* bytes and places that are shown alike are the same.                     *)
(***************************************************************************)
EXTENDS Printing, NameReading, SequenceTheorems, WellFoundedInduction, TLAPS

(***************************************************************************)
(* Nothing needs to be known of what an entry or a step is made of but the *)
(* little that follows.                                                    *)
(***************************************************************************)

\* A sequence, of anything.
AnySeq(s) == \E S : s \in Seq(S)

\* A step of the data of a record of this type: only CAA's data may end
\* somewhere else, and lengths are numbers.
Fine(step, type) ==
    /\ step.step = "RestIfAny" => type = CAA.RR_TYPE
    /\ step.step \in {"Exactly", "Take"} => step.n \in Nat

LaidOut(steps, type) == \E S : steps \in Seq(S) /\ \A step \in S : Fine(step, type)

EndsWhereStated(entry) ==
    entry.head.type \notin {OPT_RR_TYPE, CAA.RR_TYPE} => entry.ended = entry.head.begun + entry.head.stated

\* The invariant: what there is, where the reading is, and the properties.
ShapeInv ==
    /\ TypeOK
    /\ record.begun \in Nat /\ record.stated \in Nat
    /\ \A s \in 1..4 : AnySeq(entries[s])
    /\ LaidOut(todo, record.type)

DataInv == todo # <<>> => section \in 2..4 /\ counts[section] > 0

Inv == ShapeInv /\ DataInv /\ EntriesAsCounted /\ RecordsEndWhereStated

-----------------------------------------------------------------------------
(* Sequences.                                                              *)

LEMMA EmptyIsAny == AnySeq(<<>>) /\ \A type : LaidOut(<<>>, type)
<1> DEFINE S == {}
<1>1. <<>> \in Seq(S) /\ \A step \in S : FALSE
  OBVIOUS
<1> HIDE DEF S
<1> QED
  BY <1>1 DEF AnySeq, LaidOut

\* What Append does, whatever is in the sequence.
LEMMA AppendToAny ==
    ASSUME NEW s, AnySeq(s), NEW e
    PROVE  /\ AnySeq(Append(s, e))
           /\ Len(s) \in Nat /\ Len(Append(s, e)) = Len(s) + 1
           /\ DOMAIN Append(s, e) = 1..(Len(s) + 1) /\ DOMAIN s = 1..Len(s)
           /\ \A i \in 1..Len(s) : Append(s, e)[i] = s[i]
           /\ Append(s, e)[Len(s) + 1] = e
<1>1. PICK S : s \in Seq(S)
  BY DEF AnySeq
<1>2. s \in Seq(S \cup {e}) /\ e \in S \cup {e}
  BY <1>1
<1>3. Append(s, e) \in Seq(S \cup {e})
  BY <1>2
<1>4. AnySeq(Append(s, e))
  BY <1>3 DEF AnySeq
<1> DEFINE T == S \cup {e}
<1>5. s \in Seq(T) /\ e \in T
  BY <1>2
<1> HIDE DEF T
<1> QED
  BY <1>4, <1>5

\* The steps that are left after the first one are laid out as well.
LEMMA TailIsLaidOut ==
    ASSUME NEW steps, NEW type, LaidOut(steps, type), steps # <<>>
    PROVE  LaidOut(Tail(steps), type) /\ Fine(steps[1], type)
<1>1. PICK S : steps \in Seq(S) /\ \A step \in S : Fine(step, type)
  BY DEF LaidOut
<1>2. Tail(steps) \in Seq(S) /\ steps[1] \in S
  BY <1>1
<1> QED
  BY <1>1, <1>2 DEF LaidOut

LEMMA OneStep ==
    ASSUME NEW type, NEW a, Fine(a, type)
    PROVE  LaidOut(<<a>>, type)
<1> DEFINE S == {a}
<1>1. <<a>> \in Seq(S) /\ \A step \in S : Fine(step, type)
  OBVIOUS
<1> HIDE DEF S
<1> QED
  BY <1>1 DEF LaidOut

\* A step before others that are laid out.
LEMMA TwoSteps ==
    ASSUME NEW type, NEW a, NEW b, Fine(a, type), Fine(b, type)
    PROVE  LaidOut(<<a, b>>, type)
<1> DEFINE S == {a, b}
<1>1. <<a, b>> \in Seq(S) /\ \A step \in S : Fine(step, type)
  OBVIOUS
<1> HIDE DEF S
<1> QED
  BY <1>1 DEF LaidOut

LEMMA ThreeSteps ==
    ASSUME NEW type, NEW a, NEW b, NEW c, Fine(a, type), Fine(b, type), Fine(c, type)
    PROVE  LaidOut(<<a, b, c>>, type)
<1> DEFINE S == {a, b, c}
<1>1. <<a, b, c>> \in Seq(S) /\ \A step \in S : Fine(step, type)
  OBVIOUS
<1> HIDE DEF S
<1> QED
  BY <1>1 DEF LaidOut

LEMMA FourSteps ==
    ASSUME NEW type, NEW a, NEW b, NEW c, NEW d,
           Fine(a, type), Fine(b, type), Fine(c, type), Fine(d, type)
    PROVE  LaidOut(<<a, b, c, d>>, type)
<1> DEFINE S == {a, b, c, d}
<1>1. <<a, b, c, d>> \in Seq(S) /\ \A step \in S : Fine(step, type)
  OBVIOUS
<1> HIDE DEF S
<1> QED
  BY <1>1 DEF LaidOut

LEMMA SixSteps ==
    ASSUME NEW type, NEW a, NEW b, NEW c, NEW d, NEW e, NEW f,
           Fine(a, type), Fine(b, type), Fine(c, type), Fine(d, type), Fine(e, type), Fine(f, type)
    PROVE  LaidOut(<<a, b, c, d, e, f>>, type)
<1> DEFINE S == {a, b, c, d, e, f}
<1>1. <<a, b, c, d, e, f>> \in Seq(S) /\ \A step \in S : Fine(step, type)
  OBVIOUS
<1> HIDE DEF S
<1> QED
  BY <1>1 DEF LaidOut

-----------------------------------------------------------------------------
(* The layouts of the types.                                               *)

LEMMA StepsAreFine ==
    ASSUME NEW type
    PROVE  /\ \A n \in Nat : \A spans : Fine(Exactly(n, spans), type) /\ Fine(Take(n, spans), type)
           /\ \A n : Fine(AtLeast(n), type)
           /\ \A field : Fine(Name(field), type) /\ Fine(String(field), type) /\ Fine(Rest(field), type)
           /\ \A open : Fine(Strings(open), type)
           /\ Fine(Version, type) /\ Fine(Whole, type)
BY DEF Fine, Exactly, Take, AtLeast, Name, String, Strings, Rest, Version, Whole

LEMMA CAAIsLaidOut == LaidOut(CAA.read, CAA.RR_TYPE)
<1>1. CAA.read = <<Take(1, [critical |-> <<1, 1>>]), String("tag"), RestIfAny("value")>>
  BY DEF CAA
<1>2. Fine(RestIfAny("value"), CAA.RR_TYPE)
  BY DEF Fine, RestIfAny
<1> QED
  BY <1>1, <1>2, StepsAreFine, ThreeSteps

\* Whatever the number a layout other than CAA's is read for.
LEMMA OthersAreLaidOut ==
    ASSUME NEW type, NEW r \in Records, r # CAA
    PROVE  LaidOut(r.read, type)
<1>1. CASE r = A
  BY <1>1, StepsAreFine, OneStep DEF A
<1>2. CASE r = AAAA
  BY <1>2, StepsAreFine, OneStep DEF AAAA
<1>3. CASE r = EUI48
  BY <1>3, StepsAreFine, OneStep DEF EUI48
<1>4. CASE r = EUI64
  BY <1>4, StepsAreFine, OneStep DEF EUI64
<1>5. CASE r = TXT
  BY <1>5, StepsAreFine, OneStep DEF TXT
<1>6. CASE r = CNAME
  BY <1>6, StepsAreFine, TwoSteps DEF CNAME
<1>7. CASE r = LOC
  BY <1>7, StepsAreFine, TwoSteps DEF LOC
<1>8. CASE r = NS
  BY <1>8, StepsAreFine, TwoSteps DEF NS
<1>9. CASE r = OPENPGPKEY
  BY <1>9, StepsAreFine, TwoSteps DEF OPENPGPKEY
<1>10. CASE r = PTR
  BY <1>10, StepsAreFine, TwoSteps DEF PTR
<1>11. CASE r = DNSKEY
  BY <1>11, StepsAreFine, ThreeSteps DEF DNSKEY
<1>12. CASE r = DS
  BY <1>12, StepsAreFine, ThreeSteps DEF DS
<1>13. CASE r = HINFO
  BY <1>13, StepsAreFine, ThreeSteps DEF HINFO
<1>14. CASE r = MX
  BY <1>14, StepsAreFine, ThreeSteps DEF MX
<1>15. CASE r = NSEC
  BY <1>15, StepsAreFine, ThreeSteps DEF NSEC
<1>16. CASE r = SSHFP
  BY <1>16, StepsAreFine, ThreeSteps DEF SSHFP
<1>17. CASE r = SRV
  BY <1>17, StepsAreFine, ThreeSteps DEF SRV
<1>18. CASE r = TLSA
  BY <1>18, StepsAreFine, ThreeSteps DEF TLSA
<1>19. CASE r = URI
  BY <1>19, StepsAreFine, ThreeSteps DEF URI
<1>20. CASE r = RRSIG
  BY <1>20, StepsAreFine, FourSteps DEF RRSIG
<1>21. CASE r = SOA
  BY <1>21, StepsAreFine, FourSteps DEF SOA
<1>22. CASE r = NAPTR
  BY <1>22, StepsAreFine, SixSteps DEF NAPTR
<1> QED
  BY <1>1, <1>2, <1>3, <1>4, <1>5, <1>6, <1>7, <1>8, <1>9, <1>10, <1>11, <1>12, <1>13, <1>14,
     <1>15, <1>16, <1>17, <1>18, <1>19, <1>20, <1>21, <1>22 DEF Records

LEMMA ReaderIsLaidOut == \A number : LaidOut(Reader(number), number)
<1> SUFFICES ASSUME NEW number PROVE LaidOut(Reader(number), number)
  OBVIOUS
<1>1. CASE \E r \in Records : r.RR_TYPE = number
  <2> DEFINE r == CHOOSE r \in Records : r.RR_TYPE = number
  <2>1. r \in Records /\ r.RR_TYPE = number
    BY <1>1
  <2>2. Reader(number) = r.read
    BY <1>1 DEF Reader
  <2> HIDE DEF r
  <2>3. CASE r = CAA
    BY <2>1, <2>2, <2>3, CAAIsLaidOut
  <2>4. CASE r # CAA
    BY <2>1, <2>2, <2>4, OthersAreLaidOut
  <2> QED
    BY <2>3, <2>4
<1>2. CASE ~\E r \in Records : r.RR_TYPE = number
  BY <1>2, StepsAreFine, OneStep DEF Reader
<1> QED
  BY <1>1, <1>2

-----------------------------------------------------------------------------
(* The message, and the three ways in which a step may end.                *)

LEMMA MessageType ==
    ASSUME TypeOK
    PROVE  /\ Len(message) \in Nat /\ pos \in Nat /\ pos <= Len(message)
           /\ \A at \in Nat : at < Len(message) => Byte(at) \in 0..255
           /\ \A at \in Nat : at + 2 <= Len(message) => U16(at) \in Nat
<1> DEFINE ByteValues == 0..255
<1>0. ByteValues \subseteq Nat
  OBVIOUS
<1>1. message \in Seq(ByteValues) /\ pos \in 0..Len(message)
  BY MessagesAssumption DEF TypeOK
<1> HIDE DEF ByteValues
<1>2. Len(message) \in Nat /\ \A i \in 1..Len(message) : message[i] \in ByteValues
  BY <1>1
<1> USE DEF ByteValues
<1>3. ASSUME NEW at \in Nat, at < Len(message) PROVE Byte(at) \in 0..255
  <2>1. at + 1 \in 1..Len(message)
    BY <1>2, <1>3
  <2> QED
    BY <1>2, <2>1 DEF Byte
<1>4. ASSUME NEW at \in Nat, at + 2 <= Len(message) PROVE U16(at) \in Nat
  <2>1. at + 1 \in 1..Len(message) /\ at + 1 + 1 \in 1..Len(message)
    BY <1>2, <1>4
  <2> HIDE DEF ByteValues
  <2>2. \A i \in 1..Len(message) : message[i] \in Nat
    BY <1>0, <1>2
  <2>3. message[at + 1] \in Nat /\ message[at + 1 + 1] \in Nat
    BY <2>1, <2>2
  <2> QED
    BY <2>3 DEF U16, Byte
<1> QED
  BY <1>1, <1>2, <1>3, <1>4

\* A name ends within the message, or in an error that is not success.
LEMMA NameType ==
    ASSUME TypeOK
    PROVE  LET name == ReadLabels(message, pos) IN
           /\ name.ok => name.pos \in 0..Len(message)
           /\ ~name.ok => name.error # "Ok"
<1>1. Len(message) \in Nat /\ pos \in Nat /\ pos <= Len(message) /\ message \in Messages
  BY MessageType DEF TypeOK
<1> QED
  BY <1>1, NamesAssumption

\* An error ends the reading, which had not come to its end.
LEMMA FailInv ==
    ASSUME Inv, NEW error, error # "Ok", result = "Reading", Fail(error)
    PROVE  Inv'
<1>1. UNCHANGED <<message, pos, header, section, counts, entries, record, fields, todo>> /\ result' = error
  BY DEF Fail
<1>2. ShapeInv' /\ DataInv'
  BY <1>1 DEF Inv, ShapeInv, DataInv, TypeOK
<1>3. EntriesAsCounted'
  BY <1>1 DEF Inv, EntriesAsCounted, U16, Byte
<1>4. RecordsEndWhereStated'
  BY <1>1 DEF Inv, RecordsEndWhereStated
<1> QED
  BY <1>2, <1>3, <1>4 DEF Inv

\* A step that goes on leaves the entries alone.
LEMMA GoOnInv ==
    ASSUME Inv, todo # <<>>, NEW more, NEW end \in 0..Len(message), GoOn(more, end)
    PROVE  Inv'
<1>1. /\ UNCHANGED <<message, header, section, counts, entries, record, result>>
      /\ pos' = end /\ todo' = Tail(todo)
  BY DEF GoOn
<1>2. LaidOut(todo', record.type)
  BY <1>1, TailIsLaidOut DEF Inv, ShapeInv
<1>3. ShapeInv'
  BY <1>1, <1>2 DEF Inv, ShapeInv, TypeOK
<1>4. DataInv'
  BY <1>1 DEF Inv, DataInv
<1>5. EntriesAsCounted'
  BY <1>1 DEF Inv, EntriesAsCounted, U16, Byte
<1>6. RecordsEndWhereStated'
  BY <1>1 DEF Inv, RecordsEndWhereStated
<1> QED
  BY <1>3, <1>4, <1>5, <1>6 DEF Inv

\* An entry that is added is one that was still to come, and the reading is
\* between entries again.
LEMMA AddInv ==
    ASSUME Inv, result = "Reading", section \in 1..4, counts[section] > 0,
           NEW entry, section # Query => EndsWhereStated(entry),
           Add(entry), pos' \in 0..Len(message), todo' = <<>>, record' = record,
           UNCHANGED <<message, section, result>>
    PROVE  Inv'
<1> USE DEF Query
<1>1. /\ entries' = [entries EXCEPT ![section] = Append(@, entry)]
      /\ counts' = [counts EXCEPT ![section] = @ - 1]
  BY DEF Add
<1>2. counts \in [1..4 -> Nat] /\ DOMAIN entries = 1..4 /\ AnySeq(entries[section])
  BY DEF Inv, ShapeInv, TypeOK
<1>3. /\ DOMAIN entries' = 1..4
      /\ entries'[section] = Append(entries[section], entry)
      /\ \A s \in 1..4 \ {section} : entries'[s] = entries[s]
  BY <1>1, <1>2
<1>4. /\ counts' \in [1..4 -> Nat] /\ counts'[section] = counts[section] - 1
      /\ \A s \in 1..4 \ {section} : counts'[s] = counts[s]
  <2>1. counts[section] \in Nat /\ counts[section] - 1 \in Nat
    BY <1>2
  <2> QED
    BY <1>1, <1>2, <2>1, SMTT(30)
<1>5. ShapeInv'
  <2>1. \A s \in 1..4 : AnySeq(entries'[s])
    <3>1. ASSUME NEW s \in 1..4, s # section PROVE AnySeq(entries'[s])
      BY <1>3, <3>1 DEF Inv, ShapeInv
    <3>2. AnySeq(entries'[section])
      BY <1>2, <1>3, AppendToAny
    <3> QED
      BY <3>1, <3>2
  <2>2. TypeOK'
    BY <1>3, <1>4 DEF Inv, ShapeInv, TypeOK
  <2> QED
    BY <2>1, <2>2, EmptyIsAny DEF Inv, ShapeInv
<1>6. DataInv'
  BY DEF DataInv
<1>7. EntriesAsCounted'
  <2>1. Len(entries'[section]) = Len(entries[section]) + 1 /\ Len(entries[section]) \in Nat
    BY <1>2, <1>3, AppendToAny
  <2>2. \A s \in 1..4 : counts[s] + Len(entries[s]) = U16(2 + 2 * s)
    BY DEF Inv, EntriesAsCounted
  <2>3. \A s \in 1..4 : counts'[s] + Len(entries'[s]) = counts[s] + Len(entries[s])
    <3>1. ASSUME NEW s \in 1..4, s # section
          PROVE  counts'[s] + Len(entries'[s]) = counts[s] + Len(entries[s])
      BY <1>3, <1>4, <3>1
    <3>2. counts'[section] + Len(entries'[section]) = counts[section] + Len(entries[section])
      <4>1. counts[section] \in Nat /\ counts'[section] = counts[section] - 1
        BY <1>2, <1>4
      <4> QED
        BY <2>1, <4>1, SMTT(30)
    <3> QED
      BY <3>1, <3>2
  <2>4. \A s \in 1..4 : U16(2 + 2 * s)' = U16(2 + 2 * s)
    BY DEF U16, Byte
  <2>5. \A s \in 1..4 : s < section => counts'[s] = 0
    <3>1. \A s \in 1..4 : s < section => counts[s] = 0 /\ s # section
      BY DEF Inv, EntriesAsCounted
    <3> QED
      BY <1>4, <3>1
  <2>6. \A s \in 1..4 : s > section => entries'[s] = <<>>
    <3>1. \A s \in 1..4 : s > section => entries[s] = <<>>
      BY DEF Inv, EntriesAsCounted
    <3>2. section \in Nat
      BY DEF Inv, ShapeInv, TypeOK
    <3>3. ASSUME NEW s \in 1..4, s > section PROVE s \in 1..4 \ {section}
      BY <3>2, <3>3
    <3> QED
      BY <1>3, <3>1, <3>3
  <2> QED
    BY <2>2, <2>3, <2>4, <2>5, <2>6 DEF Inv, EntriesAsCounted
<1>8. RecordsEndWhereStated'
  <2> SUFFICES ASSUME NEW s \in 2..4, NEW i \in DOMAIN entries'[s]
               PROVE  EndsWhereStated(entries'[s][i])
    BY DEF RecordsEndWhereStated, EndsWhereStated
  <2>1. CASE s # section
    <3>1. entries'[s] = entries[s]
      BY <1>3, <2>1
    <3> QED
      BY <3>1 DEF Inv, RecordsEndWhereStated, EndsWhereStated
  <2>2. CASE s = section
    <3>1. i \in 1..(Len(entries[s]) + 1) /\ DOMAIN entries[s] = 1..Len(entries[s]) /\ Len(entries[s]) \in Nat
      BY <1>2, <1>3, <2>2, AppendToAny
    <3>2. CASE i = Len(entries[s]) + 1
      BY <1>2, <1>3, <2>2, <3>2, AppendToAny
    <3>3. CASE i \in 1..Len(entries[s])
      <4>1. entries'[s][i] = entries[s][i]
        BY <1>2, <1>3, <2>2, <3>3, AppendToAny
      <4> QED
        BY <3>1, <3>3, <4>1 DEF Inv, RecordsEndWhereStated, EndsWhereStated
    <3> QED
      BY <3>1, <3>2, <3>3
  <2> QED
    BY <2>1, <2>2
<1> QED
  BY <1>5, <1>6, <1>7, <1>8 DEF Inv

\* The last step of a record's data.
LEMMA FinishInv ==
    ASSUME Inv, result = "Reading", todo # <<>>, NEW more, NEW end \in 0..Len(message),
           record.type # CAA.RR_TYPE => end = record.begun + record.stated,
           Finish(more, end)
    PROVE  Inv'
<1> DEFINE entry == [head |-> record, fields |-> more @@ fields, ended |-> end]
<1>1. EndsWhereStated(entry)
  BY DEF EndsWhereStated
<1>2. section \in 2..4 /\ counts[section] > 0
  BY DEF Inv, DataInv
<1>3. /\ Add(entry) /\ todo' = <<>> /\ pos' = end
      /\ UNCHANGED <<message, section, record, result>>
  BY DEF Finish
<1> HIDE DEF entry
<1> QED
  BY <1>1, <1>2, <1>3, AddInv

-----------------------------------------------------------------------------
(* The header, and what is between the data of records.                    *)

LEMMA InitInv == Init => Inv
<1> SUFFICES ASSUME Init PROVE Inv
  OBVIOUS
<1>1. message \in Messages /\ Len(message) \in Nat
  BY MessagesAssumption DEF Init
<1>2. TypeOK
  BY <1>1 DEF Init, TypeOK
<1>3. ShapeInv
  BY <1>2, EmptyIsAny DEF Init, ShapeInv, NoRecord
<1>4. DataInv /\ EntriesAsCounted /\ RecordsEndWhereStated
  BY DEF Init, DataInv, EntriesAsCounted, RecordsEndWhereStated
<1> QED
  BY <1>3, <1>4 DEF Inv

LEMMA ReadHeaderInv == ASSUME Inv, ReadHeader PROVE Inv'
<1>1. result = "Reading" /\ section = 0
  BY DEF ReadHeader
<1>2. CASE Fail("IO")
  BY <1>1, <1>2, FailInv
<1>3. CASE /\ Has(0, 12) /\ counts' = [s \in 1..4 |-> U16(2 + 2 * s)] /\ section' = 1 /\ pos' = 12
           /\ UNCHANGED <<message, entries, record, fields, todo, result>>
  <2>1. Len(message) \in Nat /\ 12 <= Len(message) /\ \A s \in 1..4 : U16(2 + 2 * s) \in Nat
    <3>1. Len(message) \in Nat /\ 12 <= Len(message)
      BY <1>3, MessageType DEF Inv, ShapeInv, Has
    <3>2. ASSUME NEW s \in 1..4 PROVE U16(2 + 2 * s) \in Nat
      <4> DEFINE at == 2 + 2 * s
      <4>1. at \in Nat /\ at + 2 <= Len(message)
        BY <3>1
      <4> HIDE DEF at
      <4>2. U16(at) \in Nat
        BY <4>1, MessageType DEF Inv, ShapeInv
      <4> QED
        BY <4>2 DEF at
    <3> QED
      BY <3>1, <3>2
  <2>2. \A s \in 1..4 : entries[s] = <<>>
    BY <1>1 DEF Inv, EntriesAsCounted
  <2>3. todo = <<>>
    BY <1>1 DEF Inv, DataInv
  <2>4. counts' \in [1..4 -> Nat]
    BY <1>3, <2>1
  <2>5. ShapeInv'
    BY <1>3, <2>1, <2>4 DEF Inv, ShapeInv, TypeOK
  <2>6. DataInv' /\ RecordsEndWhereStated'
    BY <1>3, <2>3 DEF Inv, DataInv, RecordsEndWhereStated
  <2>7. EntriesAsCounted'
    <3>1. \A s \in 1..4 : U16(2 + 2 * s)' = U16(2 + 2 * s)
      BY <1>3 DEF U16, Byte
    <3>2. ASSUME NEW s \in 1..4 PROVE counts'[s] + Len(entries'[s]) = U16(2 + 2 * s)'
      <4>1. counts'[s] = U16(2 + 2 * s) /\ U16(2 + 2 * s) \in Nat /\ entries'[s] = <<>>
        BY <1>3, <2>1, <2>2
      <4>2. Len(entries'[s]) = 0
        BY <4>1
      <4> HIDE DEF U16
      <4> QED
        BY <3>1, <4>1, <4>2
    <3> QED
      BY <1>1, <1>3, <2>2, <3>2 DEF EntriesAsCounted
  <2> QED
    BY <2>5, <2>6, <2>7 DEF Inv
<1> QED
  BY <1>2, <1>3 DEF ReadHeader

LEMMA NextSectionInv == ASSUME Inv, NextSection PROVE Inv'
<1>1. /\ result = "Reading" /\ section \in 1..4 /\ todo = <<>> /\ counts[section] = 0
      /\ section' = section + 1
      /\ result' = IF section = 4 THEN "Ok" ELSE result
      /\ UNCHANGED <<message, pos, header, counts, entries, record, fields, todo>>
  BY DEF NextSection, Between, Additional
<1>2. ShapeInv' /\ DataInv' /\ RecordsEndWhereStated'
  BY <1>1 DEF Inv, ShapeInv, DataInv, TypeOK, RecordsEndWhereStated
<1>3. EntriesAsCounted'
  BY <1>1 DEF Inv, EntriesAsCounted, U16, Byte
<1> QED
  BY <1>2, <1>3 DEF Inv

-----------------------------------------------------------------------------
(* Queries and the heads of records.                                       *)

\* Where an entry begins there is one to come, and a name, if there is one,
\* ends within the message.
LEMMA AtEntryType ==
    ASSUME Inv, AtEntry
    PROVE  /\ result = "Reading" /\ section \in 1..4 /\ counts[section] > 0 /\ todo = <<>>
           /\ Owner.ok => Owner.pos \in 0..Len(message)
           /\ ~Owner.ok => Owner.error # "Ok"
           /\ Len(message) \in Nat
BY NameType, MessageType DEF Inv, ShapeInv, AtEntry, Between, Owner

LEMMA ReadEntryInv == ASSUME Inv, ReadEntry PROVE Inv'
<1>1. CASE ReadOwnerFails
  BY <1>1, AtEntryType, FailInv DEF ReadOwnerFails
<1>2. CASE HeadCutShort
  BY <1>2, AtEntryType, FailInv DEF HeadCutShort, AtRecord
<1>3. CASE ReadQuery
  <2>1. /\ result = "Reading" /\ section = Query /\ counts[section] > 0 /\ todo = <<>>
        /\ Owner.pos \in 0..Len(message) /\ Len(message) \in Nat
    BY <1>3, AtEntryType DEF ReadQuery
  <2>2. CASE Fail("IO")
    BY <2>1, <2>2, FailInv
  <2>3. ASSUME NEW entry, Add(entry), Has(Owner.pos, 4), pos' = Owner.pos + 4,
               UNCHANGED <<message, header, section, record, fields, todo, result>>
        PROVE  Inv'
    <3>1. pos' \in 0..Len(message)
      BY <2>1, <2>3 DEF Has
    <3>2. section \in 1..4 /\ todo' = <<>> /\ record' = record /\ UNCHANGED <<message, section, result>>
      BY <2>1, <2>3 DEF Query
    <3> QED
      BY <2>1, <2>3, <3>1, <3>2, AddInv
  <2> QED
    BY <1>3, <2>2, <2>3 DEF ReadQuery
<1>4. CASE ReadOPT
  <2>1. /\ result = "Reading" /\ section \in 1..4 /\ counts[section] > 0 /\ todo = <<>>
        /\ Owner.pos \in 0..Len(message) /\ Len(message) \in Nat
    BY <1>4, AtEntryType DEF ReadOPT, AtRecord
  <2> DEFINE at == Owner.pos
             length == U16(at + 8)
             entry == [head |-> [qname |-> Owner.labels, type |-> OPT_RR_TYPE],
                       fields |-> [udp_payload_size |-> Bytes(at + 2, 2), higher_bits |-> Bytes(at + 4, 1),
                                   edns0_version |-> Bytes(at + 5, 1), flags |-> Bytes(at + 6, 2),
                                   data |-> Bytes(at + 10, length)]]
  <2>2. /\ Has(at, 10) /\ Has(at, 10 + length) /\ Add(entry) /\ pos' = at + 10 + length
        /\ UNCHANGED <<message, header, section, record, fields, todo, result>>
    BY <1>4 DEF ReadOPT
  <2>3. EndsWhereStated(entry)
    BY DEF EndsWhereStated
  <2>4. length \in Nat
    <3>1. at + 8 \in Nat /\ at + 8 + 2 <= Len(message)
      <4>1. at \in Nat /\ at + 10 <= Len(message)
        BY <2>1, <2>2 DEF Has
      <4> HIDE DEF at
      <4> QED
        BY <2>1, <4>1
    <3> QED
      BY <3>1, MessageType DEF Inv, ShapeInv
  <2> HIDE DEF entry, length
  <2>5. pos' \in 0..Len(message)
    BY <2>1, <2>2, <2>4 DEF Has
  <2>6. todo' = <<>> /\ record' = record /\ UNCHANGED <<message, section, result>>
    BY <2>1, <2>2
  <2> QED
    BY <2>1, <2>2, <2>3, <2>5, <2>6, AddInv
<1>5. CASE ReadHead
  <2>1. /\ result = "Reading" /\ section \in 1..4 /\ section # Query /\ counts[section] > 0
        /\ Owner.pos \in 0..Len(message) /\ Len(message) \in Nat /\ Has(Owner.pos, 10)
    BY <1>5, AtEntryType DEF ReadHead, AtRecord
  <2> DEFINE at == Owner.pos
  <2>2. /\ record'.type = U16(at) /\ record'.stated = U16(at + 8) /\ record'.begun = at + 10
        /\ todo' = Reader(U16(at)) /\ pos' = at + 10
        /\ UNCHANGED <<message, header, section, counts, entries, result>>
    BY <1>5 DEF ReadHead
  <2>3. U16(at + 8) \in Nat /\ at \in Nat /\ at + 10 <= Len(message)
    <3>1. at \in Nat /\ at + 8 \in Nat /\ at + 8 + 2 <= Len(message) /\ at + 10 <= Len(message)
      BY <2>1 DEF Has
    <3> QED
      BY <3>1, MessageType DEF Inv, ShapeInv
  <2> HIDE DEF at
  <2>4. LaidOut(todo', record'.type)
    BY <2>2, ReaderIsLaidOut
  <2>5. ShapeInv'
    BY <2>1, <2>2, <2>3, <2>4 DEF Inv, ShapeInv, TypeOK
  <2>6. DataInv'
    BY <2>1, <2>2 DEF DataInv, Query
  <2>7. EntriesAsCounted' /\ RecordsEndWhereStated'
    BY <2>2 DEF Inv, EntriesAsCounted, RecordsEndWhereStated, U16, Byte
  <2> QED
    BY <2>5, <2>6, <2>7 DEF Inv
<1> QED
  BY <1>1, <1>2, <1>3, <1>4, <1>5 DEF ReadEntry

-----------------------------------------------------------------------------
(* The steps of a record's data.                                           *)

\* What is known where data are read.
LEMMA AtStep ==
    ASSUME Inv, NEW step, At(step)
    PROVE  /\ result = "Reading" /\ todo # <<>> /\ todo[1].step = step
           /\ Fine(todo[1], record.type)
           /\ pos \in Nat /\ Len(message) \in Nat /\ pos <= Len(message)
           /\ record.begun \in Nat /\ record.stated \in Nat
BY TailIsLaidOut, MessageType DEF Inv, ShapeInv, At

LEMMA TakeExactlyInv == ASSUME Inv, TakeExactly PROVE Inv'
<1>1. /\ result = "Reading" /\ todo # <<>> /\ todo[1].n \in Nat
      /\ pos \in Nat /\ Len(message) \in Nat /\ record.begun \in Nat /\ record.stated \in Nat
  BY AtStep DEF TakeExactly, Fine
<1> DEFINE left == todo[1].n - Taken
<1>2. CASE Fail("WrongRecordLength") \/ Fail("IO")
  BY <1>1, <1>2, FailInv
<1>3. CASE record.stated = todo[1].n /\ Has(pos, left) /\ Finish(Spans(todo[1].fields), pos + left)
  <2>1. pos + left = record.begun + record.stated /\ pos + left \in 0..Len(message)
    BY <1>1, <1>3 DEF Taken, Has
  <2> HIDE DEF left
  <2> QED
    BY <1>1, <1>3, <2>1, FinishInv
<1> QED
  BY <1>2, <1>3 DEF TakeExactly

LEMMA CheckLengthInv == ASSUME Inv, CheckLength PROVE Inv'
<1>1. result = "Reading" /\ todo # <<>> /\ pos \in 0..Len(message)
  BY AtStep DEF CheckLength
<1>2. Fail("WrongRecordLength") \/ GoOn(<<>>, pos)
  BY DEF CheckLength
<1> QED
  BY <1>1, <1>2, FailInv, GoOnInv

LEMMA TakeVersionInv == ASSUME Inv, TakeVersion PROVE Inv'
<1>1. result = "Reading" /\ todo # <<>> /\ pos \in Nat /\ Len(message) \in Nat
  BY AtStep DEF TakeVersion
<1>2. Fail("IO") \/ Fail("WrongVersion") \/ (GoOn(<<>>, pos + 1) /\ pos + 1 \in 0..Len(message))
  BY <1>1 DEF TakeVersion, Has
<1> QED
  BY <1>1, <1>2, FailInv, GoOnInv

LEMMA TakeFieldsInv == ASSUME Inv, TakeFields PROVE Inv'
<1>1. result = "Reading" /\ todo # <<>> /\ todo[1].n \in Nat /\ pos \in Nat /\ Len(message) \in Nat
  BY AtStep DEF TakeFields, Fine
<1> DEFINE end == pos + todo[1].n
           more == Spans(todo[1].fields)
<1>2. Fail("IO") \/ (GoOn(more, end) /\ end \in 0..Len(message))
  BY <1>1 DEF TakeFields, Has
<1> HIDE DEF end, more
<1> QED
  BY <1>1, <1>2, FailInv, GoOnInv

LEMMA TakeNameInv == ASSUME Inv, TakeName PROVE Inv'
<1>1. result = "Reading" /\ todo # <<>>
  BY AtStep DEF TakeName
<1> DEFINE name == ReadLabels(message, pos)
           more == Field(todo[1].field, name.labels)
<1>2. \/ Fail(name.error) /\ name.error # "Ok"
      \/ GoOn(more, name.pos) /\ name.pos \in 0..Len(message)
  BY NameType DEF TakeName, Inv, ShapeInv
<1> HIDE DEF name, more
<1> QED
  BY <1>1, <1>2, FailInv, GoOnInv

\* A string that is there ends within the message.
LEMMA StringType ==
    ASSUME Inv, HasString
    PROVE  Byte(pos) \in 0..255 /\ pos + 1 + Byte(pos) \in 0..Len(message)
<1>1. Len(message) \in Nat /\ pos \in Nat /\ pos < Len(message)
  BY MessageType DEF Inv, ShapeInv, HasString, Has
<1> DEFINE length == Byte(pos)
<1>2. length \in 0..255
  BY <1>1, MessageType DEF Inv, ShapeInv
<1>3. pos + (1 + length) <= Len(message)
  BY DEF HasString, Has
<1> HIDE DEF length
<1>4. pos + 1 + length \in 0..Len(message)
  BY <1>1, <1>2, <1>3
<1> QED
  BY <1>2, <1>4 DEF length

LEMMA TakeStringInv == ASSUME Inv, TakeString PROVE Inv'
<1>1. result = "Reading" /\ todo # <<>>
  BY AtStep DEF TakeString
<1> DEFINE end == pos + 1 + Byte(pos)
           more == Field(todo[1].field, Bytes(pos + 1, Byte(pos)))
<1>2. Fail("IO") \/ (GoOn(more, end) /\ end \in 0..Len(message))
  BY StringType DEF TakeString
<1> HIDE DEF end, more
<1> QED
  BY <1>1, <1>2, FailInv, GoOnInv

LEMMA TakeRestInv == ASSUME Inv, TakeRest \/ TakeRestIfAny PROVE Inv'
<1>1. /\ result = "Reading" /\ todo # <<>>
      /\ pos \in Nat /\ Len(message) \in Nat /\ record.begun \in Nat /\ record.stated \in Nat
  BY AtStep DEF TakeRest, TakeRestIfAny
<1>2. CASE TakeRest
  <2> DEFINE left == record.stated - Taken
             more == Field(todo[1].field, Bytes(pos, left))
  <2>1. \/ Fail("WrongLabelLength") \/ Fail("IO")
        \/ left >= 0 /\ Has(pos, left) /\ Finish(more, pos + left)
    BY <1>2 DEF TakeRest
  <2>2. CASE left >= 0 /\ Has(pos, left) /\ Finish(more, pos + left)
    <3>1. pos + left = record.begun + record.stated /\ pos + left \in 0..Len(message)
      BY <1>1, <2>2 DEF Taken, Has
    <3> HIDE DEF left, more
    <3> QED
      BY <1>1, <2>2, <3>1, FinishInv
  <2> QED
    BY <1>1, <2>1, <2>2, FailInv
<1>3. CASE TakeRestIfAny
  <2> DEFINE left == IF record.stated > Taken THEN record.stated - Taken ELSE 0
             more == Field(todo[1].field, Bytes(pos, left))
  <2>1. Fail("IO") \/ (Has(pos, left) /\ Finish(more, pos + left))
    BY <1>3 DEF TakeRestIfAny
  <2>2. record.type = CAA.RR_TYPE
    BY <1>3, AtStep DEF TakeRestIfAny, Fine
  <2>3. left \in Nat
    BY <1>1 DEF Taken
  <2>4. CASE Has(pos, left) /\ Finish(more, pos + left)
    <3> HIDE DEF left, more
    <3>1. pos + left \in 0..Len(message)
      BY <1>1, <2>3, <2>4 DEF Has
    <3> QED
      BY <1>1, <2>2, <2>4, <3>1, FinishInv
  <2> QED
    BY <1>1, <2>1, <2>4, FailInv
<1> QED
  BY <1>2, <1>3

LEMMA CheckWholeInv == ASSUME Inv, CheckWhole PROVE Inv'
<1>1. /\ result = "Reading" /\ todo # <<>> /\ pos \in 0..Len(message)
      /\ pos \in Nat /\ record.begun \in Nat /\ record.stated \in Nat
  BY AtStep DEF CheckWhole
<1>2. Fail("WrongLabelLength") \/ (Finish(<<>>, pos) /\ pos = record.begun + record.stated)
  BY <1>1 DEF CheckWhole, Taken
<1> QED
  BY <1>1, <1>2, FailInv, FinishInv

LEMMA TakeStringsInv == ASSUME Inv, TakeStrings PROVE Inv'
<1>1. /\ result = "Reading" /\ todo # <<>>
      /\ pos \in Nat /\ Len(message) \in Nat /\ record.begun \in Nat /\ record.stated \in Nat
  BY AtStep DEF TakeStrings, StringsOverflow, StringsCutShort, MoreStrings, LastString
<1>2. CASE StringsOverflow \/ StringsCutShort
  BY <1>1, <1>2, FailInv DEF StringsOverflow, StringsCutShort
<1> DEFINE end == pos + 1 + Byte(pos)
<1>3. CASE MoreStrings
  <2>1. end \in 0..Len(message)
    BY <1>3, StringType DEF MoreStrings
  <2>2. /\ pos' = end /\ todo' = <<Strings(Byte(pos) = 255)>>
        /\ UNCHANGED <<message, header, section, counts, entries, record, result>>
    BY <1>3 DEF MoreStrings
  <2> HIDE DEF end
  <2>3. LaidOut(todo', record.type)
    BY <2>2, StepsAreFine, OneStep
  <2>4. ShapeInv'
    BY <2>1, <2>2, <2>3 DEF Inv, ShapeInv, TypeOK
  <2>5. DataInv'
    BY <1>1, <2>2 DEF Inv, DataInv
  <2>6. EntriesAsCounted' /\ RecordsEndWhereStated'
    BY <2>2 DEF Inv, EntriesAsCounted, RecordsEndWhereStated, U16, Byte
  <2> QED
    BY <2>4, <2>5, <2>6 DEF Inv
<1>4. CASE LastString
  <2> DEFINE more == [messages |-> Received]
  <2>1. HasString /\ (Fail("WrongLabelLength") \/ (Total = record.stated /\ Finish(more, end)))
    BY <1>4 DEF LastString
  <2>2. Byte(pos) \in 0..255 /\ end \in 0..Len(message)
    BY <2>1, StringType
  <2>3. Total = record.stated => end = record.begun + record.stated
    <3> DEFINE length == Byte(pos)
    <3>1. Total = (pos - record.begun) + 1 + length /\ end = pos + 1 + length /\ length \in 0..255
      BY <2>2 DEF Total, Taken
    <3> HIDE DEF length, end
    <3> QED
      BY <1>1, <3>1
  <2> HIDE DEF end, more
  <2> QED
    BY <1>1, <2>1, <2>2, <2>3, FailInv, FinishInv
<1> QED
  BY <1>2, <1>3, <1>4 DEF TakeStrings

-----------------------------------------------------------------------------
(* The theorems.                                                           *)

LEMMA NextInv == Inv /\ [Next]_vars => Inv'
<1> SUFFICES ASSUME Inv, [Next]_vars PROVE Inv'
  OBVIOUS
<1>1. CASE ReadHeader
  BY <1>1, ReadHeaderInv
<1>2. CASE NextSection
  BY <1>2, NextSectionInv
<1>3. CASE ReadEntry
  BY <1>3, ReadEntryInv
<1>4. CASE ReadData
  BY <1>4, TakeExactlyInv, CheckLengthInv, TakeVersionInv, TakeFieldsInv, TakeNameInv, TakeStringInv,
     TakeRestInv, CheckWholeInv, TakeStringsInv DEF ReadData
<1>5. CASE UNCHANGED vars
  <2>1. UNCHANGED <<message, pos, section, counts, entries, record, todo, result>>
    BY <1>5 DEF vars
  <2>2. ShapeInv' /\ DataInv'
    BY <2>1 DEF Inv, ShapeInv, DataInv, TypeOK
  <2>3. EntriesAsCounted' /\ RecordsEndWhereStated'
    BY <2>1 DEF Inv, EntriesAsCounted, RecordsEndWhereStated, U16, Byte
  <2> QED
    BY <2>2, <2>3 DEF Inv
<1> QED
  BY <1>1, <1>2, <1>3, <1>4, <1>5 DEF Next, ReadStep, Done

LEMMA Invariance == Spec => []Inv
<1>1. Init => Inv
  BY InitInv
<1>2. Inv /\ [Next]_vars => Inv'
  BY NextInv
<1> QED
  BY <1>1, <1>2, PTL DEF Spec

\* Whatever the message, the cursor never leaves it, and no section counts
\* down below zero (Response::from_bytes over a Cursor, read_section).
THEOREM TypeCorrect == Spec => []TypeOK
<1>1. Inv => TypeOK
  BY DEF Inv, ShapeInv
<1> QED
  BY <1>1, Invariance, PTL

\* Whatever the message and the names in it, each record that is read took the
\* bytes that its length states: every layout ends in a step that makes sure
\* of it, but CAA's (the `read' of each type, Record::from_bytes).
THEOREM RecordsEndAsStated == Spec => []RecordsEndWhereStated
<1>1. Inv => RecordsEndWhereStated
  BY DEF Inv
<1> QED
  BY <1>1, Invariance, PTL

\* Whatever the message, a section has as many entries as its header counts
\* once it is over, and a message is read only when all are
\* (read_counts, read_section).
THEOREM EntriesCounted == Spec => []EntriesAsCounted
<1>1. Inv => EntriesAsCounted
  BY DEF Inv
<1> QED
  BY <1>1, Invariance, PTL

-----------------------------------------------------------------------------
(* The names.  Reading one of them is NameReading's NameSpec; the message  *)
(* and the cursor are the same.                                            *)

NameBytes == 0..(Base - 1)

\* Where the outermost call is, as far as it has come by itself.
OutermostAt == IF back = NoWhere THEN pos ELSE back

\* The part of the invariant about the outermost call: it has read what lies
\* between the start and where it is, or will come back to.
OutermostInv ==
    result \in {"Reading", "Ok"} =>
        start + bytes_read = (IF result = "Ok" THEN pos ELSE OutermostAt)

\* The part about work: the name as read since the last pointer lies before
\* the cursor, and everything before that fills the message at most once for
\* each pointer.
WorkInv == result = "Reading" => looked <= Len(recursions) * Len(message) + pos

CountInv == start + bytes_read <= Len(message)

\* What was counted once a pointer was followed, or the name has been read.
MovedInv == back # NoWhere \/ result = "Ok" => bytes_read > 0

NameInv ==
    NameTypeOK /\ OutermostInv /\ WorkInv /\ CountInv /\ MovedInv /\ WorkIsBounded

-----------------------------------------------------------------------------
(* Bytes read for a name.                                                  *)

\* One pointer more allows one message more.
LEMMA Distributes ==
    ASSUME NEW r \in Nat, NEW n \in Nat
    PROVE  /\ r * n \in Nat
           /\ (r + 1) * n = r * n + n
           /\ (r + 1 + 1) * n = r * n + n + n
<1>1. r * n \in Nat
  OBVIOUS
<1>2. ASSUME NEW q \in Nat PROVE (q + 1) * n = q * n + n
  OBVIOUS
<1>3. (r + 1 + 1) * n = (r + 1) * n + n
  <2> DEFINE q == r + 1
  <2>1. q \in Nat
    OBVIOUS
  <2> HIDE DEF q
  <2>2. (q + 1) * n = q * n + n
    BY <1>2, <2>1
  <2> QED
    BY <2>2 DEF q
<1> QED
  BY <1>1, <1>2, <1>3

\* The bytes of the message are bytes.
LEMMA MessageHasBytes ==
    ASSUME NameTypeOK
    PROVE  /\ Len(message) \in Nat
           /\ \A i \in 1..Len(message) : message[i] \in NameBytes
<1>1. message \in Seq(NameBytes)
  BY BytesAssumption DEF NameTypeOK, NameBytes
<1> QED
  BY <1>1

\* A byte read is a byte.
LEMMA ByteIsByte ==
    ASSUME NameTypeOK, NEW at \in Nat, HasByte(at)
    PROVE  Byte(at) \in Nat
<1>1. at + 1 \in 1..Len(message)
  BY MessageHasBytes DEF HasByte
<1>2. message[at + 1] \in NameBytes
  BY <1>1, MessageHasBytes
<1> QED
  BY <1>2, BytesAssumption DEF Byte, NameBytes

\* What a pointer says is a position.
LEMMA OffsetIsNat ==
    ASSUME NameTypeOK, AtPointer
    PROVE  Offset \in Nat
<1>1. pos \in Nat /\ pos + 1 \in Nat
  BY DEF NameTypeOK
<1>2. Byte(pos) \in Nat /\ Byte(pos + 1) \in Nat
  BY <1>1, ByteIsByte DEF AtPointer
<1>3. Byte(pos) - PointerMark \in Nat
  BY <1>2, BytesAssumption DEF AtPointer, IsPointer
<1>4. Base \in Nat
  BY BytesAssumption
<1> DEFINE k == Byte(pos) - PointerMark
<1>5. Base * k \in Nat
  <2> HIDE DEF k
  <2> QED
    BY <1>3, <1>4 DEF k
<1> QED
  BY <1>2, <1>5 DEF Offset
-----------------------------------------------------------------------------
(* The steps of reading a name.                                            *)

LEMMA NameInitInv == NameInit => NameInv
<1> SUFFICES ASSUME NameInit PROVE NameInv
  OBVIOUS
<1>1. message \in Seq(0..(Base - 1))
  BY BytesAssumption DEF NameInit
<1>2. Len(message) \in Nat
  BY <1>1
<1>3. NameTypeOK
  BY <1>1, <1>2, BytesAssumption, LimitAssumption DEF NameInit, NameTypeOK
<1>4. OutermostInv /\ CountInv
  BY <1>2 DEF NameInit, OutermostInv, OutermostAt, CountInv, NoWhere
<1>5. Len(recursions) = 0 /\ looked = 0 /\ pos \in Nat
  BY <1>2 DEF NameInit
<1>6. WorkInv /\ WorkIsBounded
  BY <1>2, <1>5, Distributes DEF WorkInv, WorkIsBounded
<1>7. MovedInv
  BY DEF NameInit, MovedInv
<1> QED
  BY <1>3, <1>4, <1>6, <1>7 DEF NameInv

LEMMA EndNameInv == ASSUME NameInv, EndName PROVE NameInv'
<1>1. NameTypeOK
  BY DEF NameInv
<1>2. message \in Seq(0..(Base - 1)) /\ Len(message) \in Nat
  BY <1>1, BytesAssumption DEF NameTypeOK
<1>3. pos + 1 <= Len(message)
  BY <1>1, <1>2 DEF EndName, HasByte, NameTypeOK
<1>4. UNCHANGED <<message, start, labels, recursions, back>> /\ result' = "Ok"
  BY DEF EndName
<1>5. NameTypeOK'
  BY <1>1, <1>4 DEF EndName, Count, NameTypeOK
<1>6. start + bytes_read = OutermostAt
  BY DEF NameInv, OutermostInv, EndName
<1>7. OutermostInv'
  BY <1>1, <1>4, <1>6 DEF EndName, Count, OutermostInv, OutermostAt, NameTypeOK
<1>8. start + bytes_read' <= Len(message)
  BY <1>1, <1>2, <1>3, <1>6 DEF EndName, Count, OutermostAt, NameTypeOK, CountInv, NameInv
<1>9. CountInv'
  BY <1>2, <1>4, <1>5, <1>8 DEF CountInv, NameTypeOK
<1>10. WorkIsBounded'
  <2>1. looked <= Len(recursions) * Len(message) + pos
    BY DEF NameInv, WorkInv, EndName
  <2>2. looked' = looked + 1
    BY DEF EndName, Count
  <2>3. looked \in Nat /\ pos \in Nat /\ Len(recursions) \in Nat
    BY <1>1 DEF NameTypeOK
  <2>4. Len(recursions) * Len(message) \in Nat
        /\ (Len(recursions) + 1) * Len(message) = Len(recursions) * Len(message) + Len(message)
    BY <1>2, <2>3, Distributes
  <2> QED
    BY <1>2, <1>3, <1>4, <2>1, <2>2, <2>3, <2>4 DEF WorkIsBounded
<1>11. WorkInv'
  BY <1>4 DEF WorkInv
<1>12. MovedInv'
  BY <1>1 DEF NameInv, MovedInv, EndName, Count, NameTypeOK
<1> QED
  BY <1>1, <1>5, <1>7, <1>9, <1>10, <1>11, <1>12 DEF NameInv

LEMMA ReadLabelInv == ASSUME NameInv, ReadLabel PROVE NameInv'
<1>1. NameTypeOK
  BY DEF NameInv
<1>2. message \in Seq(0..(Base - 1)) /\ Len(message) \in Nat
  BY <1>1, BytesAssumption DEF NameTypeOK
<1> DEFINE n == 1 + Byte(pos)
<1>3. n \in Nat /\ pos \in Nat /\ pos + n <= Len(message)
  <2>1. pos \in Nat
    BY <1>1 DEF NameTypeOK
  <2>2. Byte(pos) \in Nat
    BY <1>1, <2>1, ByteIsByte DEF ReadLabel
  <2>3. pos + Byte(pos) < Len(message)
    BY DEF ReadLabel, HasByte
  <2> QED
    BY <1>2, <2>1, <2>2, <2>3
<1>4. UNCHANGED <<message, start, recursions, back, result>> /\ pos' = pos + n /\ Count(n)
  <2>1. UNCHANGED <<message, start, recursions, back, result>>
    BY DEF ReadLabel
  <2>2. pos' = pos + 1 + Byte(pos) /\ Count(n)
    BY DEF ReadLabel
  <2>3. n = 1 + Byte(pos) /\ Byte(pos) \in Nat
    BY <1>1, <1>3, ByteIsByte DEF ReadLabel
  <2> HIDE DEF n
  <2>4. pos' = pos + n
    BY <1>3, <2>2, <2>3
  <2> QED
    BY <2>1, <2>2, <2>4
<1>5. labels' \in Seq(Seq(0..(Base - 1)))
  <2> DEFINE from == pos + 2
             to == pos + 1 + Byte(pos)
  <2>1. Byte(pos) \in Nat
    BY <1>1, <1>3, ByteIsByte DEF ReadLabel
  <2>2. from \in Nat \ {0} /\ to \in Nat /\ to <= Len(message)
    BY <1>2, <1>3, <2>1
  <2> HIDE DEF from, to
  <2>3. \A i \in from..to : message[i] \in NameBytes
    BY <1>1, <1>2, <2>2, MessageHasBytes
  <2>4. SubSeq(message, from, to) \in Seq(NameBytes)
    BY <2>2, <2>3, SubSeqProperties
  <2>5. labels \in Seq(Seq(NameBytes))
    BY <1>1 DEF NameTypeOK, NameBytes
  <2>6. labels' = Append(labels, SubSeq(message, from, to))
    BY DEF ReadLabel, from, to
  <2> QED
    BY <2>4, <2>5, <2>6 DEF NameBytes
<1> HIDE DEF n
<1>6. NameTypeOK'
  BY <1>1, <1>3, <1>4, <1>5 DEF Count, NameTypeOK
<1>7. result = "Reading" /\ start + bytes_read = OutermostAt
  BY DEF NameInv, OutermostInv, ReadLabel
<1>8. OutermostInv'
  BY <1>1, <1>3, <1>4, <1>7 DEF Count, OutermostInv, OutermostAt, NameTypeOK
<1>9. start + bytes_read' <= Len(message)
  BY <1>1, <1>2, <1>3, <1>4, <1>7 DEF Count, OutermostAt, NameTypeOK, CountInv, NameInv
<1>10. CountInv'
  BY <1>2, <1>4, <1>6, <1>9 DEF CountInv, NameTypeOK
<1>11. WorkInv' /\ WorkIsBounded'
  <2>1. looked <= Len(recursions) * Len(message) + pos
    BY <1>7 DEF NameInv, WorkInv
  <2>2. looked' = looked + n
    BY <1>4 DEF Count
  <2>3. looked \in Nat /\ Len(recursions) \in Nat
    BY <1>1 DEF NameTypeOK
  <2>4. Len(recursions) * Len(message) \in Nat
        /\ (Len(recursions) + 1) * Len(message) = Len(recursions) * Len(message) + Len(message)
    BY <1>2, <2>3, Distributes
  <2> DEFINE most == Len(recursions) * Len(message)
  <2>5. looked' <= most + (pos + n) /\ looked' <= most + Len(message)
    <3> HIDE DEF most
    <3>1. looked <= most + pos /\ most \in Nat
      BY <2>1, <2>4 DEF most
    <3> QED
      BY <3>1, <1>2, <1>3, <2>2, <2>3
  <2> QED
    BY <1>4, <2>4, <2>5 DEF WorkIsBounded, WorkInv
<1>12. MovedInv'
  BY <1>1, <1>3, <1>4, <1>7 DEF NameInv, MovedInv, Count, NameTypeOK
<1> QED
  BY <1>1, <1>6, <1>8, <1>10, <1>11, <1>12 DEF NameInv

LEMMA FollowPointerInv == ASSUME NameInv, FollowPointer PROVE NameInv'
<1>1. NameTypeOK
  BY DEF NameInv
<1>2. message \in Seq(0..(Base - 1)) /\ Len(message) \in Nat
  BY <1>1, BytesAssumption DEF NameTypeOK
<1>3. Offset \in Nat
  BY <1>1, OffsetIsNat DEF FollowPointer
<1>4. pos \in Nat /\ pos + 2 <= Len(message) /\ result = "Reading"
  BY <1>1, <1>2 DEF FollowPointer, AtPointer, HasByte, NameTypeOK
<1>5. UNCHANGED <<message, start, labels, result>> /\ Count(2)
      /\ recursions' = Append(recursions, Offset) /\ pos' = Offset
      /\ back' = (IF back = NoWhere THEN pos + 2 ELSE back)
  BY DEF FollowPointer
<1>6. recursions' \in Seq(Nat) /\ Len(recursions') = Len(recursions) + 1
      /\ Len(recursions) \in Nat
  BY <1>1, <1>3, <1>5 DEF NameTypeOK
<1>7. Len(recursions') < RECURSION_LIMIT
  BY <1>6 DEF FollowPointer
<1>8. NameTypeOK'
  BY <1>1, <1>3, <1>4, <1>5, <1>6, <1>7 DEF Count, NameTypeOK
<1>9. start + bytes_read = OutermostAt
  BY <1>4 DEF NameInv, OutermostInv
<1>10. OutermostInv'
  <2>1. start' = start /\ result' = "Reading" /\ start \in Nat /\ bytes_read \in Nat
    BY <1>1, <1>4, <1>5 DEF NameTypeOK
  <2>2. CASE back = NoWhere
    <3>1. start + bytes_read = pos /\ bytes_read' = bytes_read + 2 /\ back' = pos + 2
      BY <1>5, <1>9, <2>2 DEF Count, OutermostAt
    <3>2. back' # NoWhere
      BY <1>4, <3>1 DEF NoWhere
    <3>3. start' + bytes_read' = back'
      BY <1>4, <2>1, <3>1
    <3> QED
      BY <2>1, <3>2, <3>3 DEF OutermostInv, OutermostAt
  <2>3. CASE back # NoWhere
    <3>1. start + bytes_read = back /\ bytes_read' = bytes_read /\ back' = back
      BY <1>5, <1>9, <2>3 DEF Count, OutermostAt
    <3> QED
      BY <2>1, <2>3, <3>1 DEF OutermostInv, OutermostAt
  <2> QED
    BY <2>2, <2>3
<1>11. start + bytes_read' <= Len(message)
  <2>1. start \in Nat /\ bytes_read \in Nat /\ start + bytes_read <= Len(message)
    BY <1>1 DEF NameTypeOK, CountInv, NameInv
  <2>2. CASE back = NoWhere
    <3>1. start + bytes_read = pos /\ bytes_read' = bytes_read + 2
      BY <1>5, <1>9, <2>2 DEF Count, OutermostAt
    <3> QED
      BY <1>2, <1>4, <2>1, <3>1
  <2>3. CASE back # NoWhere
    <3>1. bytes_read' = bytes_read
      BY <1>5, <2>3 DEF Count
    <3> QED
      BY <2>1, <3>1
  <2> QED
    BY <2>2, <2>3
<1>12. CountInv'
  BY <1>2, <1>5, <1>8, <1>11 DEF CountInv, NameTypeOK
<1>13. WorkInv' /\ WorkIsBounded'
  <2>1. looked <= Len(recursions) * Len(message) + pos
    BY <1>4 DEF NameInv, WorkInv
  <2>2. looked' = looked + 2
    BY <1>5 DEF Count
  <2>3. looked \in Nat /\ Len(recursions) \in Nat
    BY <1>1 DEF NameTypeOK
  <2> DEFINE most == Len(recursions) * Len(message)
  <2>4. most \in Nat
        /\ (Len(recursions) + 1) * Len(message) = most + Len(message)
        /\ (Len(recursions) + 1 + 1) * Len(message) = most + Len(message) + Len(message)
    BY <1>2, <2>3, Distributes
  <2>5. looked <= most + pos
    BY <2>1
  <2> HIDE DEF most
  <2>6. looked' <= most + Len(message) + Offset
        /\ looked' <= most + Len(message) + Len(message)
    BY <1>2, <1>3, <1>4, <2>2, <2>3, <2>4, <2>5
  <2> QED
    BY <1>5, <1>6, <2>4, <2>6 DEF WorkIsBounded, WorkInv
<1>14. MovedInv'
  BY <1>1, <1>4, <1>5 DEF NameInv, MovedInv, Count, NameTypeOK
<1> QED
  BY <1>1, <1>8, <1>10, <1>12, <1>13, <1>14 DEF NameInv

\* A step that fails changes the result and nothing else.
LEMMA NameFailInv == ASSUME NameInv, NEW error \in {"TooMuchRecursion", "IO"}, FailName(error) PROVE NameInv'
<1>1. UNCHANGED <<message, start, pos, labels, bytes_read, recursions, back, looked>>
      /\ result' = error
  BY DEF FailName
<1>2. NameTypeOK' /\ OutermostInv' /\ WorkInv'
  BY <1>1 DEF NameInv, NameTypeOK, OutermostInv, WorkInv
<1>3. CountInv' /\ WorkIsBounded'
  BY <1>1 DEF NameInv, CountInv, WorkIsBounded
<1>4. MovedInv'
  BY <1>1 DEF NameInv, MovedInv
<1> QED
  BY <1>2, <1>3, <1>4 DEF NameInv

LEMMA StutterInv == ASSUME NameInv, UNCHANGED name_vars PROVE NameInv'
<1>1. UNCHANGED <<message, start, pos, labels, bytes_read, recursions, back, looked, result>>
  BY DEF name_vars
<1>2. NameTypeOK' /\ OutermostInv' /\ WorkInv'
  BY <1>1 DEF NameInv, NameTypeOK, OutermostInv, OutermostAt, WorkInv
<1>3. CountInv' /\ WorkIsBounded'
  BY <1>1 DEF NameInv, CountInv, WorkIsBounded
<1>4. MovedInv'
  BY <1>1 DEF NameInv, MovedInv
<1> QED
  BY <1>2, <1>3, <1>4 DEF NameInv

LEMMA NameNextInv == NameInv /\ [NameNext]_name_vars => NameInv'
<1> SUFFICES ASSUME NameInv, [NameNext]_name_vars PROVE NameInv'
  OBVIOUS
<1>1. CASE EndName
  BY <1>1, EndNameInv
<1>2. CASE ReadLabel
  BY <1>2, ReadLabelInv
<1>3. CASE FollowPointer
  BY <1>3, FollowPointerInv
<1>4. CASE TooMuchRecursion
  BY <1>4, NameFailInv DEF TooMuchRecursion
<1>5. CASE CutShort
  BY <1>5, NameFailInv DEF CutShort
<1>6. CASE UNCHANGED name_vars
  BY <1>6, StutterInv
<1> QED
  BY <1>1, <1>2, <1>3, <1>4, <1>5, <1>6 DEF NameNext, Step, NameDone

LEMMA NameInvariance == NameSpec => []NameInv
BY NameInitInv, NameNextInv, PTL DEF NameSpec
-----------------------------------------------------------------------------
(* The theorems about names.                                               *)

\* Every variable of a reading keeps its type (read_string_recursive): in
\* particular the list of pointers never grows to RECURSION_LIMIT.
THEOREM NameTypeCorrect == NameSpec => []NameTypeOK
<1>1. NameInv => NameTypeOK
  BY DEF NameInv
<1> QED
  BY <1>1, NameInvariance, PTL

\* A name that was read ends where the count returned says, whatever pointers
\* were followed (read_string_recursive comes back to new_pos).
THEOREM CursorIsWhereCounted == NameSpec => []CursorMatchesCount
<1>1. NameInv => CursorMatchesCount
  BY DEF NameInv, OutermostInv, CountInv, CursorMatchesCount
<1> QED
  BY <1>1, NameInvariance, PTL

\* No message makes reading a name take longer than the whole message once
\* for each pointer and once more (the list of offsets and RECURSION_LIMIT).
THEOREM WorkIsBoundedAlways == NameSpec => []WorkIsBounded
<1>1. NameInv => WorkIsBounded
  BY DEF NameInv
<1> QED
  BY <1>1, NameInvariance, PTL

\* What reading a message relies on: a name that was read ends behind where it
\* starts and within the message, and when it cannot be read the error is one of
\* two (read_labels).
NameEndsWithin ==
    /\ result = "Ok" => pos \in (start + 1)..Len(message)
    /\ result \in {"Reading", "Ok", "TooMuchRecursion", "IO"}

THEOREM NamesEndWithin == NameSpec => []NameEndsWithin
<1>1. NameInv => NameEndsWithin
  <2> SUFFICES ASSUME NameInv PROVE NameEndsWithin
    OBVIOUS
  <2>1. Len(message) \in Nat /\ start \in Nat /\ pos \in Nat /\ bytes_read \in Nat
    BY MessageHasBytes DEF NameInv, NameTypeOK
  <2>2. result = "Ok" => pos = start + bytes_read /\ bytes_read > 0 /\ start + bytes_read <= Len(message)
    BY DEF NameInv, OutermostInv, MovedInv, CountInv
  <2> QED
    BY <2>1, <2>2 DEF NameEndsWithin, NameInv, NameTypeOK
<1> QED
  BY <1>1, NameInvariance, PTL

-----------------------------------------------------------------------------
(* What is wrong with a record that cannot be read.                        *)

\* The length kept of the record that is being read is the one in the message.
StatedInv == todo # <<>> => record.stated = Stated

\* Errors about lengths and versions are of the step that comes next, and what
\* they set against one another disagrees.
RecordLengthIsWrong ==
    /\ todo # <<>>
    /\ IF todo[1].step = "Exactly" THEN record.stated # todo[1].n ELSE record.stated < todo[1].n

LabelLengthIsWrong ==
    /\ todo # <<>>
    /\ record.stated # IF todo[1].step = "Strings" THEN Total ELSE Taken

WrongInv ==
    /\ result = "WrongRecordLength" => RecordLengthIsWrong
    /\ result = "WrongLabelLength" => LabelLengthIsWrong
    /\ result = "WrongVersion" => Byte(pos) > 0

Wrongs == {"WrongRecordLength", "WrongLabelLength", "WrongVersion"}

LEMMA ReadingIsNotWrong == ASSUME result \notin Wrongs PROVE WrongInv
BY DEF Wrongs, WrongInv

\* Only the head of a record, and going on to the next step, leave steps to do.
LEMMA StepsLeft ==
    ASSUME [Next]_vars, todo' # <<>>, ~ReadHead
    PROVE  todo # <<>> /\ UNCHANGED <<message, record>>
BY DEF Next, ReadStep, Done, ReadHeader, NextSection, ReadEntry, ReadData, ReadOwnerFails, ReadQuery, HeadCutShort, ReadOPT,
   TakeExactly, CheckLength, TakeVersion, TakeFields, TakeName, TakeString, TakeRest, TakeRestIfAny,
   CheckWhole, TakeStrings, StringsOverflow, StringsCutShort, MoreStrings, LastString, At, AtEntry, AtRecord,
   Between, Fail, GoOn, Finish, vars

LEMMA StatedNextInv == ASSUME Inv, StatedInv, [Next]_vars PROVE StatedInv'
<1>1. CASE ReadHead
  <2> DEFINE at == Owner.pos
  <2>1. record'.stated = U16(at + 8) /\ record'.begun = at + 10 /\ message' = message
    BY <1>1 DEF ReadHead
  <2>2. at \in Nat
    <3>1. ReadLabels(message, pos).ok
      BY <1>1 DEF ReadHead, AtRecord, Owner
    <3> QED
      BY <3>1, NameType, MessageType DEF Inv, ShapeInv, Owner
  <2> HIDE DEF at
  <2>3. record'.begun - 2 = at + 8
    BY <2>1, <2>2
  <2> QED
    BY <2>1, <2>3 DEF StatedInv, Stated, U16, Byte
<1>2. CASE ~ReadHead
  BY <1>2, StepsLeft DEF StatedInv, Stated, U16, Byte
<1> QED
  BY <1>1, <1>2

\* Whatever ends the reading otherwise is none of these errors.
LEMMA FailNotWrong == ASSUME NEW error, error \notin Wrongs, Fail(error) PROVE WrongInv'
BY DEF Fail, Wrongs, WrongInv

LEMMA NameNotWrong ==
    ASSUME TypeOK
    PROVE  ~ReadLabels(message, pos).ok => ReadLabels(message, pos).error \notin Wrongs
<1>1. Len(message) \in Nat /\ pos \in Nat /\ pos <= Len(message) /\ message \in Messages
  BY MessageType DEF TypeOK
<1> QED
  BY <1>1, NamesAssumption DEF Wrongs

\* A step that does not fail leaves the reading where it is, or ends it well.
LEMMA NotFailed == ASSUME result' \in {"Reading", "Ok"} PROVE WrongInv'
BY DEF Wrongs, WrongInv

LEMMA WrongDataInv == ASSUME Inv, ReadData PROVE WrongInv'
<1>0. result = "Reading"
  BY DEF ReadData, TakeExactly, CheckLength, TakeVersion, TakeFields, TakeName, TakeString, TakeRest, TakeRestIfAny,
     CheckWhole, TakeStrings, StringsOverflow, StringsCutShort, MoreStrings, LastString, At
<1>a. ASSUME NEW more, NEW end, GoOn(more, end) \/ Finish(more, end) PROVE WrongInv'
  BY <1>0, <1>a, NotFailed DEF GoOn, Finish
<1>b. CASE Fail("IO") \/ Fail("Panic")
  BY <1>b, FailNotWrong DEF Wrongs
<1>1. ASSUME TakeExactly PROVE WrongInv'
  <2>1. CASE Fail("WrongRecordLength") /\ record.stated # todo[1].n
    BY <1>1, <2>1 DEF TakeExactly, At, Fail, WrongInv, RecordLengthIsWrong
  <2> QED
    BY <1>1, <1>a, <1>b, <2>1 DEF TakeExactly
<1>2. ASSUME CheckLength PROVE WrongInv'
  <2>1. CASE Fail("WrongRecordLength") /\ record.stated < todo[1].n
    BY <1>2, <2>1 DEF CheckLength, At, Fail, WrongInv, RecordLengthIsWrong
  <2> QED
    BY <1>2, <1>a, <2>1 DEF CheckLength
<1>3. ASSUME TakeVersion PROVE WrongInv'
  <2>1. CASE Has(pos, 1) /\ Byte(pos) # 0 /\ Fail("WrongVersion")
    <3>1. Byte(pos) > 0
      <4>1. pos \in Nat /\ pos < Len(message)
        BY <2>1, MessageType DEF Inv, ShapeInv, Has
      <4>2. Byte(pos) \in 0..255
        BY <4>1, MessageType DEF Inv, ShapeInv
      <4> QED
        BY <2>1, <4>2
    <3>2. result' = "WrongVersion" /\ UNCHANGED <<message, pos>>
      BY <2>1 DEF Fail
    <3> QED
      BY <3>1, <3>2 DEF WrongInv, Byte
  <2> QED
    BY <1>3, <1>a, <1>b, <2>1 DEF TakeVersion
<1>4. ASSUME TakeRest \/ CheckWhole PROVE WrongInv'
  <2>1. /\ pos \in Nat /\ record.begun \in Nat /\ record.stated \in Nat
        /\ todo # <<>> /\ todo[1].step # "Strings"
    BY <1>4, AtStep DEF TakeRest, CheckWhole
  <2>2. CASE Fail("WrongLabelLength") /\ record.stated # Taken
    <3>1. result' = "WrongLabelLength" /\ UNCHANGED <<pos, todo, record>>
      BY <2>2 DEF Fail
    <3> QED
      BY <2>1, <2>2, <3>1 DEF WrongInv, LabelLengthIsWrong, Taken
  <2>3. CASE Fail("WrongLabelLength") /\ record.stated - Taken < 0
    <3>1. record.stated # Taken
      BY <2>1, <2>3 DEF Taken
    <3> QED
      BY <2>2, <2>3, <3>1
  <2> QED
    BY <1>4, <1>a, <1>b, <2>2, <2>3 DEF TakeRest, CheckWhole
<1>5. ASSUME LastString PROVE WrongInv'
  <2>1. CASE Fail("WrongLabelLength") /\ Total > record.stated
    <3>1. result' = "WrongLabelLength" /\ UNCHANGED <<message, pos, todo, record>>
      BY <2>1 DEF Fail
    <3>2. todo # <<>> /\ todo[1].step = "Strings" /\ HasString
      BY <1>5 DEF LastString, At
    <3>3. record.stated # Total
      <4>1. pos \in Nat /\ record.begun \in Nat /\ record.stated \in Nat /\ Byte(pos) \in 0..255
        BY <1>5, <3>2, AtStep, StringType DEF LastString
      <4> QED
        BY <2>1, <4>1 DEF Total, Taken
    <3>4. Total' = Total
      BY <3>1 DEF Total, Taken, Byte
    <3> QED
      BY <3>1, <3>2, <3>3, <3>4 DEF WrongInv, LabelLengthIsWrong
  <2> QED
    BY <1>5, <1>a, <2>1 DEF LastString
<1>6. ASSUME TakeFields \/ TakeString \/ TakeRestIfAny \/ StringsOverflow \/ StringsCutShort PROVE WrongInv'
  BY <1>6, <1>a, <1>b DEF TakeFields, TakeString, TakeRestIfAny, StringsOverflow, StringsCutShort
<1>7. ASSUME TakeName PROVE WrongInv'
  BY <1>7, <1>a, FailNotWrong, NameNotWrong DEF TakeName, Inv, ShapeInv
<1>8. ASSUME MoreStrings PROVE WrongInv'
  BY <1>0, <1>8, NotFailed DEF MoreStrings
<1> QED
  BY <1>1, <1>2, <1>3, <1>4, <1>5, <1>6, <1>7, <1>8 DEF ReadData, TakeStrings

LEMMA WrongEntryInv == ASSUME Inv, ReadHeader \/ NextSection \/ ReadEntry PROVE WrongInv'
<1>1. CASE ReadOwnerFails
  BY <1>1, FailNotWrong, NameNotWrong DEF ReadOwnerFails, Owner, Inv, ShapeInv
<1>2. CASE Fail("IO")
  BY <1>2, FailNotWrong DEF Wrongs
<1>3. CASE result' \in {"Reading", "Ok"}
  BY <1>3, NotFailed
<1> QED
  BY <1>1, <1>2, <1>3 DEF ReadHeader, NextSection, ReadEntry, ReadQuery, HeadCutShort, ReadOPT, ReadHead,
     AtRecord, AtEntry, Between

LEMMA WrongNextInv == ASSUME Inv, WrongInv, [Next]_vars PROVE WrongInv'
<1>1. CASE UNCHANGED vars
  BY <1>1 DEF vars, WrongInv, RecordLengthIsWrong, LabelLengthIsWrong, Total, Taken, Byte
<1> QED
  BY <1>1, WrongDataInv, WrongEntryInv DEF Next, ReadStep, Done

-----------------------------------------------------------------------------
(* What is told of it, and how the run ends.                               *)

\* There has been no error before the reading is over; afterwards nothing of
\* the message changes.
QuietInv ==
    /\ responses = Unread => ~errored /\ status \in {None, Aborted}
    /\ earlier \in Earlier

PrintInv == Inv /\ StatedInv /\ WrongInv /\ AnySeq(said) /\ QuietInv /\ ErrorsSayWhatIsWrong

LEMMA EarlierIsRead == \A rs \in Earlier : rs # Unread
<1> SUFFICES ASSUME Unread \in Earlier PROVE FALSE
  OBVIOUS
<1>1. Len(Unread) = 1 /\ Unread[1] = [unread |-> TRUE]
  BY DEF Unread
<1>2. DOMAIN [unread |-> TRUE] = {"flags", "rcode", "sections"}
  BY <1>1, EarlierAssumption
<1>3. "flags" \in DOMAIN [unread |-> TRUE]
  BY <1>2
<1> QED
  BY <1>3

LEMMA PrintInitInv == PrintInit => PrintInv
<1> SUFFICES ASSUME PrintInit PROVE PrintInv
  OBVIOUS
<1>1. Inv
  BY InitInv DEF PrintInit
<1>2. StatedInv /\ WrongInv
  BY DEF PrintInit, Init, StatedInv, WrongInv
<1>3. said = <<>> /\ ~errored /\ status = None /\ responses = Unread /\ earlier \in Earlier
  BY DEF PrintInit
<1>4. AnySeq(said)
  BY <1>3, EmptyIsAny
<1>5. ErrorsSayWhatIsWrong
  BY <1>3 DEF ErrorsSayWhatIsWrong, Errors, SUCCESS, NETWORK_ERROR, None
<1> QED
  BY <1>1, <1>2, <1>3, <1>4, <1>5 DEF PrintInv, QuietInv

\* Reading does nothing else, and printing leaves the reading alone.
LEMMA PrintNextIsNext == [PrintNext]_<<vars, printing>> => [Next]_vars
BY DEF PrintNext, ReadOn, PrintStep, Exited, Panics, ResponseIsRead, ReadingFailed, SendFails, NoResults,
   WriteLine, WriteFails, PrintingEnds, Next

\* When nothing has been said of errors there is nothing to be wrong.
LEMMA QuietSaysNothing ==
    ASSUME said' = said, errored' = errored, ~errored, Errors = {}, status' # NETWORK_ERROR
    PROVE  ErrorsSayWhatIsWrong'
<1>1. Errors' = {}
  BY DEF Errors
<1> QED
  BY <1>1 DEF ErrorsSayWhatIsWrong

\* One more line that is not an error, or that is one.
LEMMA AnotherLine ==
    ASSUME AnySeq(said), NEW line, said' = Append(said, line)
    PROVE  /\ AnySeq(said')
           /\ line.line \notin {"Error", "Error object"} => Errors' = Errors
           /\ line.line \in {"Error", "Error object"} => Errors' = Errors \cup {Len(said) + 1}
           /\ \A i \in Errors : said'[i] = said[i]
           /\ said'[Len(said) + 1] = line
<1>1. said' = Append(said, line) /\ AnySeq(said)
  OBVIOUS
<1>2. AnySeq(said') /\ DOMAIN said' = 1..(Len(said) + 1) /\ DOMAIN said = 1..Len(said) /\ Len(said) \in Nat
  BY <1>1, AppendToAny
<1>3. (\A i \in 1..Len(said) : said'[i] = said[i]) /\ said'[Len(said) + 1] = line
  BY <1>1, AppendToAny
<1> DEFINE IsError(told) == told.line \in {"Error", "Error object"}
<1>4. Errors = {i \in 1..Len(said) : IsError(said[i])} /\ Errors' = {i \in 1..(Len(said) + 1) : IsError(said'[i])}
  BY <1>2 DEF Errors
<1> HIDE DEF IsError
<1>5. 1..(Len(said) + 1) = 1..Len(said) \cup {Len(said) + 1}
  BY <1>2
<1>6. (~IsError(line) => Errors' = Errors) /\ (IsError(line) => Errors' = Errors \cup {Len(said) + 1})
  BY <1>3, <1>4, <1>5
<1>7. \A i \in Errors : said'[i] = said[i]
  BY <1>3, <1>4
<1> QED
  BY <1>2, <1>3, <1>6, <1>7 DEF IsError

\* Which leaves what was told before as it is.
LEMMA SaidBefore ==
    ASSUME ErrorsSayWhatIsWrong, Errors' = Errors, \A i \in Errors : said'[i] = said[i], UNCHANGED vars,
           errored' = errored, status' = SUCCESS => ~errored, status' = NETWORK_ERROR => errored
    PROVE  ErrorsSayWhatIsWrong'
<1>1. Stated' = Stated
  BY DEF vars, Stated, U16, Byte
<1>2. \A i \in Errors : TellsWhatIsWrong(said'[i].message, Stated')
  BY <1>1 DEF ErrorsSayWhatIsWrong
<1> QED
  BY <1>2 DEF ErrorsSayWhatIsWrong

\* The message of an error tells what is wrong.
LEMMA WireErrorTells ==
    ASSUME Inv, StatedInv, WrongInv
    PROVE  TellsWhatIsWrong(WireErrorMessage, Stated)
<1>1. CASE result = "WrongRecordLength"
  <2>1. WireErrorMessage = [error |-> result, stated |-> record.stated, mandated |-> todo[1].n,
                            exactly |-> todo[1].step = "Exactly"]
    BY <1>1 DEF WireErrorMessage
  <2>2. RecordLengthIsWrong /\ record.stated = Stated
    BY <1>1 DEF WrongInv, RecordLengthIsWrong, StatedInv
  <2> QED
    BY <1>1, <2>1, <2>2 DEF TellsWhatIsWrong, RecordLengthIsWrong
<1>2. CASE result = "WrongLabelLength"
  <2>1. WireErrorMessage = [error |-> result, stated |-> record.stated,
                            read |-> IF todo[1].step = "Strings" THEN Total ELSE Taken]
    BY <1>2 DEF WireErrorMessage
  <2>2. LabelLengthIsWrong /\ record.stated = Stated
    BY <1>2 DEF WrongInv, LabelLengthIsWrong, StatedInv
  <2> QED
    BY <1>2, <2>1, <2>2 DEF TellsWhatIsWrong, LabelLengthIsWrong
<1>3. CASE result = "WrongVersion"
  <2>1. WireErrorMessage = [error |-> result, stated |-> Byte(pos), maximum |-> 0]
    BY <1>3 DEF WireErrorMessage
  <2> QED
    BY <1>3, <2>1 DEF TellsWhatIsWrong, WrongInv
<1>4. CASE result \notin Wrongs
  <2>1. WireErrorMessage = [error |-> result]
    BY <1>4 DEF WireErrorMessage, Wrongs
  <2> QED
    BY <1>4, <2>1 DEF TellsWhatIsWrong, Wrongs
<1> QED
  BY <1>1, <1>2, <1>3, <1>4 DEF Wrongs

LEMMA SendErrorTells == ASSUME NEW error \in SendErrors PROVE TellsWhatIsWrong(ErrorMessage(error), Stated)
<1>1. error.error \in SendErrorKinds
  BY SendErrorsAssumption
<1>2. ErrorMessage(error).error = error.error
  BY <1>1 DEF ErrorMessage, SendErrorKinds
<1>3. error.error \notin Wrongs
  BY <1>1 DEF SendErrorKinds, Wrongs
<1> QED
  BY <1>2, <1>3 DEF TellsWhatIsWrong, Wrongs

\* The first error is the only one, for then there are responses to print.
LEMMA PrintErrorInv ==
    ASSUME PrintInv, responses = Unread, NEW error, PrintError(error), UNCHANGED vars,
           TellsWhatIsWrong(ErrorMessage(error), Stated)
    PROVE  AnySeq(said)' /\ QuietInv' /\ ErrorsSayWhatIsWrong'
<1> DEFINE line == [line |-> IF format = "JSON" THEN "Error object" ELSE "Error",
                    phase |-> ErroneousPhase(error.error), message |-> ErrorMessage(error)]
<1>1. /\ said' = Append(said, line) /\ errored' = TRUE /\ responses' = earlier
      /\ status' = status /\ earlier' = earlier
  BY DEF PrintError
<1>2. line.line \in {"Error", "Error object"} /\ line.message = ErrorMessage(error)
  OBVIOUS
<1> HIDE DEF line
<1>3. AnySeq(said) /\ ~errored /\ Errors = {} /\ status \in {None, Aborted} /\ earlier \in Earlier
  BY DEF PrintInv, QuietInv, ErrorsSayWhatIsWrong
<1>4. AnySeq(said') /\ Errors' = {Len(said) + 1} /\ said'[Len(said) + 1] = line
  BY <1>1, <1>2, <1>3, AnotherLine
<1>8. Stated' = Stated /\ TellsWhatIsWrong(line.message, Stated)
  BY <1>2 DEF vars, Stated, U16, Byte
<1>9. \A i \in Errors' : TellsWhatIsWrong(said'[i].message, Stated')
  BY <1>4, <1>8
<1>10. QuietInv'
  BY <1>1, <1>3, EarlierIsRead DEF QuietInv
<1>11. ErrorsSayWhatIsWrong'
  BY <1>1, <1>3, <1>4, <1>9 DEF ErrorsSayWhatIsWrong, SUCCESS, NETWORK_ERROR, None, Aborted
<1> QED
  BY <1>4, <1>10, <1>11

LEMMA ReadOnInv == ASSUME PrintInv, ReadOn PROVE AnySeq(said)' /\ QuietInv' /\ ErrorsSayWhatIsWrong'
<1>1. UNCHANGED <<earlier, responses, errored, said, status>> /\ responses = Unread
  BY DEF ReadOn, printing
<1>2. AnySeq(said) /\ ~errored /\ Errors = {} /\ status \in {None, Aborted} /\ QuietInv
  BY <1>1 DEF PrintInv, QuietInv, ErrorsSayWhatIsWrong
<1>3. AnySeq(said)' /\ QuietInv'
  BY <1>1, <1>2 DEF QuietInv
<1> QED
  BY <1>1, <1>2, <1>3, QuietSaysNothing DEF NETWORK_ERROR, None, Aborted

LEMMA ResponseIsReadInv ==
    ASSUME PrintInv, ResponseIsRead
    PROVE  AnySeq(said)' /\ QuietInv' /\ ErrorsSayWhatIsWrong'
<1>1. UNCHANGED vars /\ UNCHANGED <<earlier, errored, status>> /\ responses = Unread
  BY DEF ResponseIsRead
<1>2. AnySeq(said) /\ ~errored /\ status \in {None, Aborted} /\ earlier \in Earlier /\ ErrorsSayWhatIsWrong
  BY <1>1 DEF PrintInv, QuietInv
<1>3. QuietInv'
  BY <1>1, <1>2 DEF QuietInv
<1>4. CASE said' = said
  BY <1>1, <1>2, <1>3, <1>4, SaidBefore DEF Errors, ErrorsSayWhatIsWrong
<1> DEFINE line == [line |-> "Truncated"]
<1>5. CASE said' = Append(said, line)
  <2>1. line.line \notin {"Error", "Error object"}
    OBVIOUS
  <2> HIDE DEF line
  <2>2. AnySeq(said') /\ Errors' = Errors /\ \A i \in Errors : said'[i] = said[i]
    BY <1>2, <1>5, <2>1, AnotherLine
  <2> QED
    BY <1>1, <1>2, <1>3, <2>2, SaidBefore DEF ErrorsSayWhatIsWrong
<1> QED
  BY <1>4, <1>5 DEF ResponseIsRead

\* What the run exits with is a failure if the exchange failed.
LEMMA ExitCodes ==
    \A printed : ExitCode(printed) # Aborted
        /\ (ExitCode(printed) = SUCCESS => ~errored) /\ (ExitCode(printed) = NETWORK_ERROR => errored)
BY DEF ExitCode, SUCCESS, NETWORK_ERROR, NO_SHORT_RESULTS, Aborted

LEMMA PrintingInv ==
    ASSUME PrintInv, NoResults \/ WriteLine \/ WriteFails \/ PrintingEnds
    PROVE  AnySeq(said)' /\ QuietInv' /\ ErrorsSayWhatIsWrong'
<1>1. UNCHANGED vars /\ UNCHANGED <<earlier, responses, errored>> /\ responses # Unread
  BY DEF NoResults, WriteLine, WriteFails, PrintingEnds, Printing
<1>2. AnySeq(said) /\ earlier \in Earlier /\ ErrorsSayWhatIsWrong
  BY DEF PrintInv, QuietInv
<1>3. QuietInv'
  BY <1>1, <1>2 DEF QuietInv
<1>4. (status' = SUCCESS => ~errored) /\ (status' = NETWORK_ERROR => errored)
  <2>1. CASE status' = status
    BY <1>2, <2>1 DEF ErrorsSayWhatIsWrong
  <2>2. CASE status' = SYSTEM_ERROR
    BY <2>2 DEF SYSTEM_ERROR, SUCCESS, NETWORK_ERROR
  <2>3. CASE \E printed : status' = ExitCode(printed)
    BY <2>3, ExitCodes
  <2> QED
    BY <2>1, <2>2, <2>3 DEF NoResults, WriteLine, WriteFails, PrintingEnds
<1>5. CASE said' = said
  BY <1>1, <1>2, <1>3, <1>4, <1>5, SaidBefore DEF Errors
<1> DEFINE Plainly(line) == line.line \notin {"Error", "Error object"}
<1>6. CASE \E line : Plainly(line) /\ said' = Append(said, line)
  <2>1. PICK line : Plainly(line) /\ said' = Append(said, line)
    BY <1>6
  <2>2. AnySeq(said') /\ Errors' = Errors /\ \A i \in Errors : said'[i] = said[i]
    BY <1>2, <2>1, AnotherLine
  <2> QED
    BY <1>1, <1>2, <1>3, <1>4, <2>2, SaidBefore
<1> DEFINE none == [line |-> "No results"]
           unwritten == [line |-> "Cannot write output"]
<1>7. Plainly(none) /\ Plainly(unwritten)
  OBVIOUS
<1>8. said' = said \/ said' = Append(said, none) \/ said' = Append(said, unwritten)
  BY DEF NoResults, WriteLine, WriteFails, PrintingEnds
<1> HIDE DEF none, unwritten, Plainly
<1> QED
  BY <1>5, <1>6, <1>7, <1>8

LEMMA PrintNextInv == PrintInv /\ [PrintNext]_<<vars, printing>> => PrintInv'
<1> SUFFICES ASSUME PrintInv, [PrintNext]_<<vars, printing>> PROVE PrintInv'
  OBVIOUS
<1>1. Inv' /\ StatedInv' /\ WrongInv'
  BY PrintNextIsNext, NextInv, StatedNextInv, WrongNextInv DEF PrintInv
<1> SUFFICES AnySeq(said)' /\ QuietInv' /\ ErrorsSayWhatIsWrong'
  BY <1>1 DEF PrintInv
<1>2. CASE ReadOn
  BY <1>2, ReadOnInv
<1>3. CASE ResponseIsRead
  BY <1>3, ResponseIsReadInv
<1>4. CASE ReadingFailed
  <2> DEFINE error == [error |-> "WireError"]
  <2>1. PrintError(error) /\ responses = Unread /\ UNCHANGED vars
    BY <1>4 DEF ReadingFailed
  <2>2. ErrorMessage(error) = WireErrorMessage
    BY DEF ErrorMessage
  <2> HIDE DEF error
  <2> QED
    BY <2>1, <2>2, WireErrorTells, PrintErrorInv DEF PrintInv
<1>5. CASE SendFails
  <2>1. PICK error \in SendErrors : PrintError(error)
    BY <1>5 DEF SendFails
  <2> QED
    BY <1>5, <2>1, SendErrorTells, PrintErrorInv DEF SendFails
<1>6. CASE NoResults \/ WriteLine \/ WriteFails \/ PrintingEnds
  BY <1>6, PrintingInv
<1>7. CASE Panics
  <2>1. UNCHANGED vars /\ UNCHANGED <<earlier, responses, errored, said>> /\ status' = Aborted
    BY <1>7 DEF Panics
  <2>2. AnySeq(said)' /\ QuietInv'
    BY <2>1 DEF PrintInv, QuietInv
  <2>3. ErrorsSayWhatIsWrong /\ Errors' = Errors
    BY <2>1 DEF PrintInv, Errors
  <2> QED
    BY <2>1, <2>2, <2>3, SaidBefore DEF Aborted, SUCCESS, NETWORK_ERROR
<1>8. CASE UNCHANGED <<vars, printing>>
  <2>1. UNCHANGED vars /\ UNCHANGED <<earlier, responses, errored, said, status>>
    BY <1>8 DEF printing
  <2>2. AnySeq(said)' /\ QuietInv'
    BY <2>1 DEF PrintInv, QuietInv
  <2>3. ErrorsSayWhatIsWrong /\ Errors' = Errors
    BY <2>1 DEF PrintInv, Errors
  <2> QED
    BY <2>1, <2>2, <2>3, SaidBefore DEF ErrorsSayWhatIsWrong
<1> QED
  BY <1>2, <1>3, <1>4, <1>5, <1>6, <1>7, <1>8 DEF PrintNext, PrintStep, Exited

\* A run that prints reads as Spec says, whatever it prints and wherever that
\* fails, so that what is true of every reading is true of it (main.rs, run).
THEOREM PrintingReads == PrintSpec => Spec
<1>1. PrintInit => Init
  BY DEF PrintInit
<1> QED
  BY <1>1, PrintNextIsNext, PTL DEF PrintSpec, Spec

\* Whatever the message, and whatever else may go wrong before there is one: an
\* exchange that fails is told of once, a run in which one failed never exits
\* with success nor one without as if one had, and what is told of a malformed
\* record is true of the bytes of the message (print_error, wire_error_message,
\* send_all, exit_code).
THEOREM ErrorsTellTheTruth == PrintSpec => []ErrorsSayWhatIsWrong
<1>1. PrintInv => ErrorsSayWhatIsWrong
  BY DEF PrintInv
<1> QED
  BY <1>1, PrintInitInv, PrintNextInv, PTL DEF PrintSpec

-----------------------------------------------------------------------------
(* The names by recursion.  There is a function that does what the         *)
(* definition of ReadString says of `reads', and calls enough for it to    *)
(* come to an end: ReadString is what the recursion says it is.            *)

LEMMA Induction ==
    ASSUME NEW S, 0 \in S, \A n \in Nat : n \in S => n + 1 \in S
    PROVE  \A n \in Nat : n \in S
<1> DEFINE T == Nat \ S
<1> SUFFICES ASSUME T # {} PROVE FALSE
  OBVIOUS
<1>1. T \subseteq Nat
  OBVIOUS
<1> HIDE DEF T
<1>2. PICK i \in T : \A j \in T : ~(<<j, i>> \in OpToRel(<, Nat))
  BY <1>1, NatLessThanWellFounded, WFMin
<1>3. \A j \in T : ~(j < i)
  BY <1>1, <1>2 DEF OpToRel
<1>4. i \in Nat /\ i # 0
  BY DEF T
<1>5. i - 1 \in Nat /\ i - 1 \notin T /\ (i - 1) + 1 = i
  BY <1>3, <1>4
<1> QED
  BY <1>4, <1>5 DEF T

\* What n calls read, when reads says what fewer do.
ReadsNext(msg, reads, n) ==
    [from \in Nat |-> [before \in Seq(Nat) |->
        IF n = 0 THEN Failure("too many calls")
        ELSE ReadFrom(msg, reads[n - 1], from, before)]]

IsReads(msg, last, reads) == reads = [n \in 0..last |-> ReadsNext(msg, reads, n)]

LEMMA ReadsExist ==
    ASSUME NEW msg, NEW last \in Nat
    PROVE  \E reads : IsReads(msg, last, reads)
<1> DEFINE S == {m \in Nat : \E reads : IsReads(msg, m, reads)}
<1>1. 0 \in S
  <2> DEFINE reads == [n \in 0..0 |-> ReadsNext(msg, <<>>, 0)]
  <2>1. ReadsNext(msg, <<>>, 0) = ReadsNext(msg, reads, 0)
    BY DEF ReadsNext
  <2>2. \A n \in 0..0 : n = 0
    OBVIOUS
  <2>3. reads = [n \in 0..0 |-> ReadsNext(msg, reads, n)]
    BY <2>1, <2>2
  <2> HIDE DEF reads
  <2> QED
    BY <2>3 DEF IsReads
<1>2. ASSUME NEW m \in Nat, m \in S PROVE m + 1 \in S
  <2>1. PICK before : IsReads(msg, m, before)
    BY <1>2
  <2> DEFINE reads == [n \in 0..(m + 1) |-> IF n = m + 1 THEN ReadsNext(msg, before, m + 1) ELSE before[n]]
  <2>2. \A n \in 0..m : reads[n] = before[n]
    OBVIOUS
  <2>3. ASSUME NEW n \in 0..(m + 1) PROVE reads[n] = ReadsNext(msg, reads, n)
    <3>1. ReadsNext(msg, reads, n) = ReadsNext(msg, before, n)
      <4>1. CASE n = 0
        BY <4>1 DEF ReadsNext
      <4>2. CASE n # 0
        <5>1. n - 1 \in 0..m
          BY <4>2
        <5>2. reads[n - 1] = before[n - 1]
          BY <2>2, <5>1
        <5> HIDE DEF reads
        <5> QED
          BY <5>2 DEF ReadsNext
      <4> QED
        BY <4>1, <4>2
    <3>2. reads[n] = ReadsNext(msg, before, n)
      <4>1. CASE n = m + 1
        BY <4>1
      <4>2. CASE n # m + 1
        <5>1. n \in 0..m
          BY <4>2
        <5>2. before[n] = ReadsNext(msg, before, n)
          BY <2>1, <5>1 DEF IsReads
        <5> QED
          BY <2>2, <5>1, <5>2
      <4> QED
        BY <4>1, <4>2
    <3> QED
      BY <3>1, <3>2
  <2>4. reads = [n \in 0..(m + 1) |-> reads[n]]
    OBVIOUS
  <2> HIDE DEF reads
  <2>5. reads = [n \in 0..(m + 1) |-> ReadsNext(msg, reads, n)]
    BY <2>3, <2>4
  <2>6. IsReads(msg, m + 1, reads)
    BY <2>5 DEF IsReads
  <2> QED
    BY <2>6
<1> HIDE DEF S
<1>3. \A m \in Nat : m \in S
  BY <1>1, <1>2, Induction
<1> QED
  BY <1>3 DEF S

LEMMA ReadStringReads ==
    ASSUME NEW msg, CallsAtMost(msg) \in Nat
    PROVE  \E all : /\ IsReads(msg, CallsAtMost(msg), all)
                    /\ \A at, seen : ReadString(msg, at, seen) = all[CallsAtMost(msg)][at][seen]
<1> DEFINE reads[n \in 0..CallsAtMost(msg)] ==
        [from \in Nat |-> [before \in Seq(Nat) |->
            IF n = 0 THEN Failure("too many calls")
            ELSE ReadFrom(msg, reads[n - 1], from, before)]]
<1>1. PICK some : IsReads(msg, CallsAtMost(msg), some)
  BY ReadsExist
<1>2. reads = CHOOSE f : f = [n \in 0..CallsAtMost(msg) |->
        [from \in Nat |-> [before \in Seq(Nat) |->
            IF n = 0 THEN Failure("too many calls")
            ELSE ReadFrom(msg, f[n - 1], from, before)]]]
  OBVIOUS
<1>3. some = [n \in 0..CallsAtMost(msg) |->
        [from \in Nat |-> [before \in Seq(Nat) |->
            IF n = 0 THEN Failure("too many calls")
            ELSE ReadFrom(msg, some[n - 1], from, before)]]]
  BY <1>1 DEF IsReads, ReadsNext
<1>4. reads = [n \in 0..CallsAtMost(msg) |->
        [from \in Nat |-> [before \in Seq(Nat) |->
            IF n = 0 THEN Failure("too many calls")
            ELSE ReadFrom(msg, reads[n - 1], from, before)]]]
  BY <1>2, <1>3
<1>5. \A at, seen : ReadString(msg, at, seen) = reads[CallsAtMost(msg)][at][seen]
  BY DEF ReadString
<1> HIDE DEF reads
<1>6. IsReads(msg, CallsAtMost(msg), reads)
  BY <1>4 DEF IsReads, ReadsNext
<1> QED
  BY <1>5, <1>6

\* What a call may still need: the message behind it, and the whole message for
\* every pointer that may still be followed.
Need(msg, at, seen) ==
    (IF at < Len(msg) THEN Len(msg) - at ELSE 0)
        + (RECURSION_LIMIT - (Len(seen) + 1)) * (Len(msg) + 1)

\* The pointers a call may have followed.
Trails == {trail \in Seq(Nat) : Len(trail) < RECURSION_LIMIT}

\* The bytes of a message, and the position they give as a pointer.
LEMMA BytesOf ==
    ASSUME NEW msg \in Messages, NEW at \in Nat, at < Len(msg)
    PROVE  /\ Len(msg) \in Nat
           /\ msg[at + 1] \in Nat /\ msg[at + 1] < Base
           /\ at + 1 < Len(msg) /\ msg[at + 1] >= PointerMark =>
                PointerAt(msg, at) \in Nat
<1>1. msg \in Seq(0..(Base - 1)) /\ Base \in Nat /\ PointerMark \in Nat
  BY BytesAssumption
<1>2. Len(msg) \in Nat /\ \A i \in 1..Len(msg) : msg[i] \in 0..(Base - 1)
  BY <1>1
<1>3. msg[at + 1] \in 0..(Base - 1)
  BY <1>2
<1>4. ASSUME at + 1 < Len(msg), msg[at + 1] >= PointerMark
      PROVE  PointerAt(msg, at) \in Nat
  <2>1. msg[at + 2] \in 0..(Base - 1)
    BY <1>2, <1>4
  <2> DEFINE k == msg[at + 1] - PointerMark
  <2>2. k \in Nat
    BY <1>1, <1>3, <1>4
  <2>3. Base * k \in Nat
    <3> HIDE DEF k
    <3> QED
      BY <1>1, <2>2
  <2> DEFINE high == Base * k
             low == msg[at + 2]
  <2>4. high \in Nat /\ low \in Nat
    BY <1>1, <2>1, <2>3
  <2> HIDE DEF high, low
  <2>5. high + low \in Nat
    BY <2>4
  <2> QED
    BY <2>5 DEF PointerAt, high, low
<1> QED
  BY <1>1, <1>2, <1>3, <1>4

LEMMA NeedIsBounded ==
    ASSUME NEW msg \in Messages, NEW at \in Nat, NEW seen \in Trails
    PROVE  /\ CallsAtMost(msg) \in Nat
           /\ Need(msg, at, seen) \in Nat
           /\ Need(msg, at, seen) < CallsAtMost(msg)
<1>1. msg \in Seq(0..(Base - 1))
  BY BytesAssumption
<1> DEFINE size == Len(msg) + 1
           more == RECURSION_LIMIT - (Len(seen) + 1)
           behind == IF at < Len(msg) THEN Len(msg) - at ELSE 0
<1>2. size \in Nat /\ behind \in Nat /\ behind < size
  BY <1>1
<1>3. RECURSION_LIMIT \in Nat /\ more \in Nat /\ more + 1 + Len(seen) = RECURSION_LIMIT /\ Len(seen) \in Nat
  BY LimitAssumption DEF Trails
<1>4. CallsAtMost(msg) = RECURSION_LIMIT * size /\ Need(msg, at, seen) = behind + more * size
  BY DEF CallsAtMost, Need
<1> HIDE DEF size, more, behind
<1>5. more * size \in Nat /\ (more + 1) * size = more * size + size
  BY <1>2, <1>3, Distributes
<1>6. RECURSION_LIMIT * size \in Nat
  BY <1>2, <1>3
<1> DEFINE above == Len(seen)
<1>7. above * size \in Nat
  BY <1>2, <1>3
<1>8. RECURSION_LIMIT * size = (more + 1) * size + above * size
  <2> DEFINE one == more + 1
  <2>1. one \in Nat /\ RECURSION_LIMIT = one + above /\ above \in Nat
    BY <1>3
  <2> HIDE DEF one, above
  <2>2. (one + above) * size = one * size + above * size
    BY <1>2, <2>1
  <2> QED
    BY <2>1, <2>2 DEF one
<1> HIDE DEF above
<1>9. behind + more * size \in Nat
  BY <1>2, <1>5
<1> DEFINE product == more * size
           rest == above * size
<1>10. product \in Nat /\ rest \in Nat /\ RECURSION_LIMIT * size = product + size + rest
  BY <1>5, <1>7, <1>8
<1> HIDE DEF product, rest
<1>11. behind + product < product + size + rest
  BY <1>2, <1>10
<1> QED
  BY <1>4, <1>6, <1>9, <1>10, <1>11 DEF product

\* Each call that a call makes needs less.
LEMMA LabelNeedsLess ==
    ASSUME NEW msg \in Messages, NEW at \in Nat, NEW seen \in Trails,
           NEW byte \in Nat, at < Len(msg)
    PROVE  Need(msg, at + 1 + byte, seen) < Need(msg, at, seen)
<1>1. Len(msg) \in Nat
  BY BytesOf
<1> DEFINE rest == (RECURSION_LIMIT - (Len(seen) + 1)) * (Len(msg) + 1)
<1>2. rest \in Nat
  <2> DEFINE size == Len(msg) + 1
             more == RECURSION_LIMIT - (Len(seen) + 1)
  <2>1. size \in Nat /\ more \in Nat
    BY <1>1, LimitAssumption DEF Trails
  <2> HIDE DEF size, more
  <2>2. more * size \in Nat
    BY <2>1
  <2> QED
    BY <2>2 DEF size, more
<1>3. /\ Need(msg, at, seen) = Len(msg) - at + rest
      /\ Need(msg, at + 1 + byte, seen) =
            (IF at + 1 + byte < Len(msg) THEN Len(msg) - (at + 1 + byte) ELSE 0) + rest
  BY DEF Need
<1> HIDE DEF rest
<1> QED
  BY <1>1, <1>2, <1>3

LEMMA PointerNeedsLess ==
    ASSUME NEW msg \in Messages, NEW at \in Nat, NEW seen \in Trails,
           NEW offset \in Nat, at < Len(msg), Len(seen) + 1 < RECURSION_LIMIT
    PROVE  /\ Append(seen, offset) \in Trails
           /\ Need(msg, offset, Append(seen, offset)) < Need(msg, at, seen)
<1>1. Len(msg) \in Nat
  BY BytesOf
<1>2. seen \in Seq(Nat) /\ Len(seen) \in Nat
  BY DEF Trails
<1>3. Append(seen, offset) \in Seq(Nat) /\ Len(Append(seen, offset)) = Len(seen) + 1
  BY <1>2
<1> DEFINE size == Len(msg) + 1
           more == RECURSION_LIMIT - (Len(seen) + 1 + 1)
<1>4. size \in Nat /\ more \in Nat /\ RECURSION_LIMIT - (Len(seen) + 1) = more + 1
  BY <1>1, <1>2, LimitAssumption
<1>5. /\ Need(msg, at, seen) = Len(msg) - at + (more + 1) * size
      /\ Need(msg, offset, Append(seen, offset)) =
            (IF offset < Len(msg) THEN Len(msg) - offset ELSE 0) + more * size
  BY <1>3, <1>4 DEF Need
<1> DEFINE behind == IF offset < Len(msg) THEN Len(msg) - offset ELSE 0
<1>6. behind \in Nat /\ behind < size /\ Len(msg) - at > 0
  BY <1>1
<1>7. Append(seen, offset) \in Trails
  BY <1>3 DEF Trails
<1> HIDE DEF more
<1> DEFINE left == Len(msg) - at
<1>8. left \in Nat /\ left > 0
  BY <1>1
<1> HIDE DEF behind, left, size
<1>9. (more + 1) * size = more * size + size /\ more * size \in Nat
  BY <1>4, Distributes
<1> DEFINE product == more * size
<1>10. product \in Nat /\ (more + 1) * size = product + size
  BY <1>9
<1> HIDE DEF product
<1>11. behind + product < left + (product + size)
  BY <1>4, <1>6, <1>8, <1>10 DEF behind
<1> QED
  BY <1>5, <1>7, <1>10, <1>11 DEF behind, left, product

\* A call reads the same from functions that say the same of all it may call.
LEMMA OnlyCallsMatter ==
    ASSUME NEW msg \in Messages, NEW f, NEW g, NEW at \in Nat, NEW seen \in Trails,
           \A from \in Nat, before \in Trails :
              Need(msg, from, before) < Need(msg, at, seen) => f[from][before] = g[from][before]
    PROVE  ReadFrom(msg, f, at, seen) = ReadFrom(msg, g, at, seen)
<1> DEFINE byte == msg[at + 1]
           offset == PointerAt(msg, at)
           onward == at + 1 + byte
           trail == Append(seen, offset)
<1>1. CASE at >= Len(msg)
  BY <1>1 DEF ReadFrom
<1>2. CASE at < Len(msg)
  <2>1. byte \in Nat /\ PointerMark \in Nat /\ Len(msg) \in Nat /\ seen \in Seq(Nat)
    BY <1>2, BytesOf, BytesAssumption DEF Trails
  <2>2. f[onward][seen] = g[onward][seen]
    <3>1. Need(msg, onward, seen) < Need(msg, at, seen)
      BY <1>2, <2>1, LabelNeedsLess
    <3>2. onward \in Nat
      BY <2>1
    <3> HIDE DEF onward
    <3> QED
      BY <3>1, <3>2
  <2>3. ASSUME byte >= PointerMark, at + 1 < Len(msg), Len(seen) + 1 < RECURSION_LIMIT
        PROVE  f[offset][trail] = g[offset][trail]
    <3>1. offset \in Nat
      BY <1>2, <2>3, BytesOf
    <3> HIDE DEF offset
    <3>2. trail \in Trails /\ Need(msg, offset, trail) < Need(msg, at, seen)
      BY <1>2, <2>3, <3>1, PointerNeedsLess
    <3> HIDE DEF trail
    <3> QED
      BY <3>1, <3>2
  <2>4. ~(at >= Len(msg))
    BY <1>2, <2>1
  <2>5. CASE byte = 0
    BY <2>4, <2>5 DEF ReadFrom
  <2>6. CASE byte # 0 /\ byte >= PointerMark
    <3>1. CASE at + 1 >= Len(msg)
      BY <2>4, <2>6, <3>1 DEF ReadFrom
    <3>2. CASE ~(at + 1 >= Len(msg))
      <4>1. FromPointer(msg, f, at, seen) = FromPointer(msg, g, at, seen)
        <5>1. CASE Contains(seen, offset) \/ Len(seen) + 1 >= RECURSION_LIMIT
          BY <5>1 DEF FromPointer
        <5>2. CASE ~(Contains(seen, offset) \/ Len(seen) + 1 >= RECURSION_LIMIT)
          <6>1. at + 1 < Len(msg) /\ Len(seen) + 1 < RECURSION_LIMIT
            BY <2>1, <3>2, <5>2, LimitAssumption
          <6>2. f[offset][trail] = g[offset][trail]
            BY <2>3, <2>6, <6>1
          <6> QED
            BY <6>2 DEF FromPointer
        <5> QED
          BY <5>1, <5>2
      <4> QED
        BY <2>4, <2>6, <3>2, <4>1 DEF ReadFrom
    <3> QED
      BY <3>1, <3>2
  <2>7. CASE byte # 0 /\ byte < PointerMark
    <3>1. ~(byte # 0 /\ byte >= PointerMark)
      BY <2>1, <2>7
    <3>2. FromLabel(msg, f, at, seen) = FromLabel(msg, g, at, seen)
      BY <2>2 DEF FromLabel
    <3> QED
      BY <2>4, <2>7, <3>1, <3>2 DEF ReadFrom
  <2> QED
    BY <2>1, <2>5, <2>6, <2>7
<1> QED
  <2>1. Len(msg) \in Nat
    BY BytesAssumption
  <2> QED
    BY <1>1, <1>2, <2>1

\* Each call reads as ReadFrom does, with the calls within it for the rest.
EachReads(msg, last, all) ==
    \A n \in 1..last, at \in Nat, seen \in Trails :
        all[n][at][seen] = ReadFrom(msg, all[n - 1], at, seen)

\* The calls within one another, the outermost last.
LEMMA OneCall ==
    ASSUME NEW msg, NEW last \in Nat, NEW all, IsReads(msg, last, all)
    PROVE  EachReads(msg, last, all)
<1> SUFFICES \A n \in 1..last, at \in Nat, seen \in Trails :
                all[n][at][seen] = ReadFrom(msg, all[n - 1], at, seen)
  BY DEF EachReads
<1> TAKE n \in 1..last, at \in Nat, seen \in Trails
<1>1. n \in 0..last /\ n # 0
  OBVIOUS
<1>2. all[n] = ReadsNext(msg, all, n)
  BY <1>1 DEF IsReads
<1>3. seen \in Seq(Nat)
  BY DEF Trails
<1> QED
  BY <1>1, <1>2, <1>3 DEF ReadsNext

\* As many calls as a call needs are enough: more of them read the same.
LEMMA EnoughCalls ==
    ASSUME NEW msg \in Messages, NEW last \in Nat, NEW all, IsReads(msg, last, all)
    PROVE  \A n \in 0..last : \A m \in n..last : \A at \in Nat, seen \in Trails :
              Need(msg, at, seen) < n => all[n][at][seen] = all[m][at][seen]
<1> DEFINE Same(n) == \A m \in n..last : \A at \in Nat, seen \in Trails :
              Need(msg, at, seen) < n => all[n][at][seen] = all[m][at][seen]
           S == {n \in Nat : n <= last => Same(n)}
<1>0. \A k \in 1..last, at \in Nat, seen \in Trails :
         all[k][at][seen] = ReadFrom(msg, all[k - 1], at, seen)
  <2>1. EachReads(msg, last, all)
    BY OneCall
  <2> QED
    BY <2>1 DEF EachReads
<1>1. 0 \in S
  <2>1. \A at \in Nat, seen \in Trails : Need(msg, at, seen) \in Nat
    BY NeedIsBounded
  <2> QED
    BY <2>1
<1>2. ASSUME NEW n \in Nat, n \in S PROVE n + 1 \in S
  <2> SUFFICES ASSUME n + 1 <= last, NEW m \in (n + 1)..last, NEW at \in Nat, NEW seen \in Trails,
                      Need(msg, at, seen) < n + 1
               PROVE  all[n + 1][at][seen] = all[m][at][seen]
    OBVIOUS
  <2>0. \A k \in 1..last : all[k][at][seen] = ReadFrom(msg, all[k - 1], at, seen)
    BY <1>0
  <2>1. n + 1 \in 1..last /\ (n + 1) - 1 = n /\ m \in 1..last /\ m - 1 \in n..last /\ n <= last
    OBVIOUS
  <2>2. /\ all[n + 1][at][seen] = ReadFrom(msg, all[n], at, seen)
        /\ all[m][at][seen] = ReadFrom(msg, all[m - 1], at, seen)
    <3>1. all[n + 1][at][seen] = ReadFrom(msg, all[(n + 1) - 1], at, seen)
      BY <2>0, <2>1
    <3> QED
      BY <2>0, <2>1, <3>1
  <2>3. ASSUME NEW from \in Nat, NEW before \in Trails,
               Need(msg, from, before) < Need(msg, at, seen)
        PROVE  all[n][from][before] = all[m - 1][from][before]
    <3>1. Need(msg, from, before) \in Nat /\ Need(msg, at, seen) \in Nat
      BY NeedIsBounded
    <3>2. Need(msg, from, before) < n
      BY <2>3, <3>1
    <3> QED
      BY <1>2, <2>1, <3>2
  <2> DEFINE f == all[n]
             g == all[m - 1]
  <2>4. \A from \in Nat, before \in Trails :
              Need(msg, from, before) < Need(msg, at, seen) => f[from][before] = g[from][before]
    BY <2>3
  <2> HIDE DEF f, g
  <2>5. ReadFrom(msg, f, at, seen) = ReadFrom(msg, g, at, seen)
    BY <2>4, OnlyCallsMatter
  <2> QED
    BY <2>2, <2>5 DEF f, g
<1> HIDE DEF S
<1>3. \A n \in Nat : n \in S
  BY <1>1, <1>2, Induction
<1> QED
  BY <1>3 DEF S

\* What the calls read together.
ReadStrings(msg) == [from \in Nat |-> [before \in Seq(Nat) |-> ReadString(msg, from, before)]]

\* What NameRecursion is there for: a name is read by reading as a call does,
\* with names read the same way for the calls it makes.
LEMMA ReadStringRecurs ==
    ASSUME NEW msg \in Messages, NEW at \in Nat, NEW seen \in Trails
    PROVE  ReadString(msg, at, seen) = ReadFrom(msg, ReadStrings(msg), at, seen)
<1> DEFINE last == CallsAtMost(msg)
<1>1. last \in Nat /\ Need(msg, at, seen) \in Nat /\ Need(msg, at, seen) < last
  BY NeedIsBounded
<1>2. PICK all : /\ IsReads(msg, last, all)
                 /\ \A from, before : ReadString(msg, from, before) = all[last][from][before]
  BY <1>1, ReadStringReads
<1> HIDE DEF last
<1>3. last \in 1..last /\ last - 1 \in 0..last /\ last \in (last - 1)..last
  BY <1>1
<1>4. ReadString(msg, at, seen) = ReadFrom(msg, all[last - 1], at, seen)
  <2>0. EachReads(msg, last, all)
    BY <1>1, <1>2, OneCall
  <2>1. \A k \in 1..last : all[k][at][seen] = ReadFrom(msg, all[k - 1], at, seen)
    BY <2>0 DEF EachReads
  <2> QED
    BY <1>2, <1>3, <2>1
<1>5. ASSUME NEW from \in Nat, NEW before \in Trails,
             Need(msg, from, before) < Need(msg, at, seen)
      PROVE  all[last - 1][from][before] = ReadStrings(msg)[from][before]
  <2>1. Need(msg, from, before) \in Nat
    BY NeedIsBounded
  <2>2. Need(msg, from, before) < last - 1
    BY <1>1, <1>5, <2>1
  <2>3. all[last - 1][from][before] = all[last][from][before]
    BY <1>1, <1>2, <1>3, <2>2, EnoughCalls
  <2>4. before \in Seq(Nat)
    BY DEF Trails
  <2> QED
    BY <1>2, <2>3, <2>4 DEF ReadStrings
<1>6. ReadFrom(msg, all[last - 1], at, seen) = ReadFrom(msg, ReadStrings(msg), at, seen)
  <2> DEFINE f == all[last - 1]
             g == ReadStrings(msg)
  <2>1. \A from \in Nat, before \in Trails :
              Need(msg, from, before) < Need(msg, at, seen) => f[from][before] = g[from][before]
    BY <1>5
  <2> HIDE DEF f, g
  <2>2. ReadFrom(msg, f, at, seen) = ReadFrom(msg, g, at, seen)
    BY <2>1, OnlyCallsMatter
  <2> QED
    BY <2>2 DEF f, g
<1> QED
  BY <1>4, <1>6

\* What there may be at a position: a name that ends as many bytes on as were
\* counted, and within the message, or one of two errors.
Names(msg, at) ==
    {Success(segments, at + count, count) : segments \in Seq(Seq(NameBytes)), count \in 1..(Len(msg) - at)}
        \cup {Failure("IO"), Failure("TooMuchRecursion")}

LEMMA NamesHave ==
    ASSUME NEW msg, NEW at, NEW name \in Names(msg, at)
    PROVE  \/ /\ name.ok = TRUE
              /\ name.labels \in Seq(Seq(NameBytes))
              /\ name.count \in 1..(Len(msg) - at)
              /\ name.pos = at + name.count
              /\ name = Success(name.labels, name.pos, name.count)
           \/ name.ok = FALSE /\ name \in {Failure("IO"), Failure("TooMuchRecursion")}
<1>1. CASE name \in {Failure("IO"), Failure("TooMuchRecursion")}
  BY <1>1 DEF Failure
<1>2. CASE name \notin {Failure("IO"), Failure("TooMuchRecursion")}
  <2>1. PICK segments \in Seq(Seq(NameBytes)), count \in 1..(Len(msg) - at) :
            name = Success(segments, at + count, count)
    BY <1>2 DEF Names
  <2> QED
    BY <2>1 DEF Success
<1> QED
  BY <1>1, <1>2

LEMMA SuccessIsName ==
    ASSUME NEW msg, NEW at, NEW segments \in Seq(Seq(NameBytes)), NEW count \in 1..(Len(msg) - at)
    PROVE  Success(segments, at + count, count) \in Names(msg, at)
BY DEF Names

LEMMA LabelIsBytes ==
    ASSUME NEW msg \in Messages, NEW at \in Nat, NEW byte \in Nat, at + byte < Len(msg)
    PROVE  SubSeq(msg, at + 2, at + 1 + byte) \in Seq(NameBytes)
<1> DEFINE from == at + 2
           to == at + 1 + byte
<1>1. msg \in Seq(NameBytes)
  BY BytesAssumption DEF NameBytes
<1>2. Len(msg) \in Nat /\ \A i \in 1..Len(msg) : msg[i] \in NameBytes
  BY <1>1
<1>3. from \in Nat \ {0} /\ to \in Nat /\ to <= Len(msg)
  BY <1>2
<1> HIDE DEF from, to
<1>4. \A i \in from..to : msg[i] \in NameBytes
  BY <1>2, <1>3
<1> QED
  BY <1>3, <1>4, SubSeqProperties DEF from, to

\* A call reads a name when the calls do that it makes.
LEMMA CallReadsName ==
    ASSUME NEW msg \in Messages, NEW f, NEW at \in Nat, NEW seen \in Trails,
           \A from \in Nat, before \in Trails :
              Need(msg, from, before) < Need(msg, at, seen) => f[from][before] \in Names(msg, from)
    PROVE  ReadFrom(msg, f, at, seen) \in Names(msg, at)
<1> DEFINE byte == msg[at + 1]
           offset == PointerAt(msg, at)
           onward == at + 1 + byte
           trail == Append(seen, offset)
<1>0. Failure("IO") \in Names(msg, at) /\ Failure("TooMuchRecursion") \in Names(msg, at)
  BY DEF Names
<1>1. CASE at >= Len(msg)
  BY <1>0, <1>1 DEF ReadFrom
<1>2. CASE ~(at >= Len(msg))
  <2>1. byte \in Nat /\ PointerMark \in Nat /\ Len(msg) \in Nat /\ seen \in Seq(Nat) /\ at < Len(msg)
    <3>1. Len(msg) \in Nat
      BY BytesAssumption
    <3> QED
      BY <1>2, <3>1, BytesOf, BytesAssumption DEF Trails
  <2>2. CASE byte = 0
    <3>1. <<>> \in Seq(Seq(NameBytes)) /\ 1 \in 1..(Len(msg) - at)
      BY <2>1
    <3>2. Success(<<>>, at + 1, 1) \in Names(msg, at)
      BY <3>1, SuccessIsName
    <3>3. ReadFrom(msg, f, at, seen) = Success(<<>>, at + 1, 1)
      BY <1>2, <2>2 DEF ReadFrom
    <3> QED
      BY <3>2, <3>3
  <2>3. CASE byte # 0 /\ byte >= PointerMark
    <3>0. ~(byte # 0 /\ byte < PointerMark)
      BY <2>1, <2>3
    <3>1. CASE at + 1 >= Len(msg)
      <4>1. ReadFrom(msg, f, at, seen) = Failure("IO")
        BY <1>2, <2>3, <3>0, <3>1 DEF ReadFrom
      <4> QED
        BY <1>0, <4>1
    <3>2. CASE ~(at + 1 >= Len(msg))
      <4>0. ReadFrom(msg, f, at, seen) = FromPointer(msg, f, at, seen)
        BY <1>2, <2>3, <3>0, <3>2 DEF ReadFrom
      <4>1. CASE Contains(seen, offset) \/ Len(seen) + 1 >= RECURSION_LIMIT
        <5>1. FromPointer(msg, f, at, seen) = Failure("TooMuchRecursion")
          BY <4>1 DEF FromPointer
        <5> QED
          BY <1>0, <4>0, <5>1
      <4>2. CASE ~(Contains(seen, offset) \/ Len(seen) + 1 >= RECURSION_LIMIT)
        <5>1. at + 1 < Len(msg) /\ Len(seen) + 1 < RECURSION_LIMIT
          BY <2>1, <3>2, <4>2, LimitAssumption
        <5>2. f[offset][trail] \in Names(msg, offset)
          <6>1. offset \in Nat
            BY <2>1, <2>3, <5>1, BytesOf
          <6> HIDE DEF offset
          <6>2. trail \in Trails /\ Need(msg, offset, trail) < Need(msg, at, seen)
            BY <2>1, <5>1, <6>1, PointerNeedsLess
          <6> HIDE DEF trail
          <6> QED
            BY <6>1, <6>2
        <5> DEFINE inner == f[offset][trail]
        <5>3. FromPointer(msg, f, at, seen) = IF inner.ok THEN Success(inner.labels, at + 2, 2) ELSE inner
          BY <4>2 DEF FromPointer
        <5> HIDE DEF inner
        <5>4. inner \in Names(msg, offset)
          BY <5>2 DEF inner
        <5>5. 2 \in 1..(Len(msg) - at)
          BY <2>1, <5>1
        <5>6. FromPointer(msg, f, at, seen) \in Names(msg, at)
          <6>1. CASE inner.ok = TRUE /\ inner.labels \in Seq(Seq(NameBytes))
            BY <5>3, <5>5, <6>1, SuccessIsName
          <6>2. CASE inner.ok = FALSE /\ inner \in {Failure("IO"), Failure("TooMuchRecursion")}
            BY <5>3, <6>2 DEF Names
          <6> HIDE DEF offset
          <6> QED
            BY <5>4, <6>1, <6>2, NamesHave
        <5> QED
          BY <4>0, <5>6
      <4> QED
        BY <4>1, <4>2
    <3> QED
      BY <3>1, <3>2
  <2>4. CASE byte # 0 /\ byte < PointerMark
    <3>1. ~(byte # 0 /\ byte >= PointerMark)
      BY <2>1, <2>4
    <3>2. CASE at + byte >= Len(msg)
      BY <1>0, <1>2, <2>4, <3>1, <3>2 DEF ReadFrom
    <3>3. CASE ~(at + byte >= Len(msg))
      <4> DEFINE rest == f[onward][seen]
                 label == SubSeq(msg, at + 2, at + 1 + byte)
      <4>1. rest \in Names(msg, onward)
        <5>1. Need(msg, onward, seen) < Need(msg, at, seen)
          BY <2>1, LabelNeedsLess
        <5>2. onward \in Nat
          BY <2>1
        <5> HIDE DEF onward
        <5> QED
          BY <5>1, <5>2
      <4>2. label \in Seq(NameBytes)
        <5>1. at + byte < Len(msg)
          BY <2>1, <3>3
        <5> HIDE DEF byte
        <5> QED
          BY <2>1, <5>1, LabelIsBytes
      <4>3. FromLabel(msg, f, at, seen) =
                IF rest.ok THEN Success(<<label>> \o rest.labels, rest.pos, rest.count + 1 + byte) ELSE rest
        BY DEF FromLabel
      <4> HIDE DEF rest, label
      <4>4. FromLabel(msg, f, at, seen) \in Names(msg, at)
        <5>1. CASE /\ rest.ok = TRUE /\ rest.labels \in Seq(Seq(NameBytes))
                   /\ rest.count \in 1..(Len(msg) - onward) /\ rest.pos = onward + rest.count
          <6> DEFINE count == rest.count + 1 + byte
                     segments == <<label>> \o rest.labels
          <6>1. count \in 1..(Len(msg) - at) /\ rest.pos = at + count
            <7> DEFINE size == Len(msg)
                       counted == rest.count
            <7>1. size \in Nat /\ counted \in 1..(size - (at + 1 + byte)) /\ byte \in Nat
                  /\ rest.pos = at + 1 + byte + counted
              BY <2>1, <5>1
            <7> HIDE DEF size, counted, byte
            <7>2. counted + 1 + byte \in 1..(size - at) /\ rest.pos = at + (counted + 1 + byte)
              BY <7>1
            <7> QED
              BY <7>2 DEF size, counted
          <6>2. segments \in Seq(Seq(NameBytes))
            BY <4>2, <5>1
          <6>3. FromLabel(msg, f, at, seen) = Success(segments, rest.pos, count)
            BY <4>3, <5>1
          <6> HIDE DEF count, segments
          <6> QED
            BY <6>1, <6>2, <6>3, SuccessIsName
        <5>2. CASE rest.ok = FALSE /\ rest \in {Failure("IO"), Failure("TooMuchRecursion")}
          BY <4>3, <5>2 DEF Names
        <5> HIDE DEF onward
        <5> QED
          BY <4>1, <5>1, <5>2, NamesHave
      <4> QED
        BY <1>2, <2>4, <3>1, <3>3, <4>4 DEF ReadFrom
    <3> QED
      BY <3>2, <3>3
  <2> QED
    BY <2>1, <2>2, <2>3, <2>4
<1> QED
  BY <1>1, <1>2

LEMMA ReadStringReadsName ==
    ASSUME NEW msg \in Messages
    PROVE  \A at \in Nat, seen \in Trails : ReadString(msg, at, seen) \in Names(msg, at)
<1> DEFINE S == {n \in Nat : \A at \in Nat, seen \in Trails :
                    Need(msg, at, seen) < n => ReadString(msg, at, seen) \in Names(msg, at)}
<1>1. 0 \in S
  <2>1. \A at \in Nat, seen \in Trails : Need(msg, at, seen) \in Nat
    BY NeedIsBounded
  <2> QED
    BY <2>1
<1>2. ASSUME NEW n \in Nat, n \in S PROVE n + 1 \in S
  <2> SUFFICES ASSUME NEW at \in Nat, NEW seen \in Trails, Need(msg, at, seen) < n + 1
               PROVE  ReadString(msg, at, seen) \in Names(msg, at)
    OBVIOUS
  <2> DEFINE f == ReadStrings(msg)
  <2>1. ASSUME NEW from \in Nat, NEW before \in Trails, Need(msg, from, before) < Need(msg, at, seen)
        PROVE  f[from][before] \in Names(msg, from)
    <3>1. Need(msg, from, before) \in Nat /\ Need(msg, at, seen) \in Nat
      BY NeedIsBounded
    <3>2. ReadString(msg, from, before) \in Names(msg, from)
      BY <1>2, <2>1, <3>1
    <3>3. before \in Seq(Nat)
      BY DEF Trails
    <3> QED
      BY <3>2, <3>3 DEF ReadStrings
  <2> HIDE DEF f, S
  <2>2. ReadFrom(msg, f, at, seen) \in Names(msg, at)
    BY <2>1, CallReadsName
  <2> QED
    BY <2>2, ReadStringRecurs DEF f
<1> HIDE DEF S
<1>3. \A n \in Nat : n \in S
  BY <1>1, <1>2, Induction
<1> QED
  <2> TAKE at \in Nat, seen \in Trails
  <2>1. Need(msg, at, seen) \in Nat
    BY NeedIsBounded
  <2> DEFINE n == Need(msg, at, seen) + 1
  <2>2. n \in Nat /\ Need(msg, at, seen) < n
    BY <2>1
  <2> HIDE DEF n
  <2> QED
    BY <1>3, <2>2 DEF S

(***************************************************************************)
(* The loop reads the same.  While it is reading, the whole name is what   *)
(* was read so far with the rest behind it, which the recursion reads from *)
(* where the loop is.                                                      *)
(***************************************************************************)

\* The whole of a name: the labels before, and the rest.  A loop that has
\* followed a pointer comes back to `there', and counts no more.
NameOf(before, there, counted, rest) ==
    IF ~rest.ok THEN rest
    ELSE IF there = NoWhere THEN Success(before \o rest.labels, rest.pos, counted + rest.count)
    ELSE Success(before \o rest.labels, there, counted)

SameInv ==
    result = "Reading" =>
        ReadString(message, start, <<>>)
            = NameOf(labels, back, bytes_read, ReadString(message, pos, recursions))

\* What ReadsTheName says of a state, of its values.
Tells(outcome, segments, at, counted, name) ==
    IF name.ok THEN outcome = "Ok" /\ segments = name.labels /\ at = name.pos /\ counted = name.count
    ELSE outcome = name.error

LEMMA ReadsTheNameTells ==
    ReadsTheName <=>
        (result # "Reading" =>
            Tells(result, labels, pos, bytes_read, ReadString(message, start, <<>>)))
BY DEF ReadsTheName, Tells

\* Before anything is read all of the name is still to come.
LEMMA WholeOfNothing ==
    ASSUME NEW msg \in Messages, NEW at \in Nat, NEW name \in Names(msg, at)
    PROVE  NameOf(<<>>, NoWhere, 0, name) = name
<1>1. CASE /\ name.ok = TRUE /\ name.labels \in Seq(Seq(NameBytes)) /\ name.count \in 1..(Len(msg) - at)
           /\ name = Success(name.labels, name.pos, name.count)
  <2>1. <<>> \o name.labels = name.labels
    BY <1>1
  <2>2. 0 + name.count = name.count
    BY <1>1
  <2> QED
    BY <1>1, <2>1, <2>2 DEF NameOf
<1>2. CASE name.ok = FALSE
  BY <1>2 DEF NameOf
<1> QED
  BY <1>1, <1>2, NamesHave

\* A label read is one label less to come.
LEMMA OneLabelMore ==
    ASSUME NEW T, NEW before \in Seq(T), NEW label \in T, NEW behind \in Seq(T)
    PROVE  before \o (<<label>> \o behind) = Append(before, label) \o behind
<1> DEFINE one == <<label>>
<1>1. one \in Seq(T)
  OBVIOUS
<1>2. Append(before, label) = before \o one
  BY AppendIsConcat
<1> HIDE DEF one
<1>3. (before \o one) \o behind = before \o (one \o behind)
  BY <1>1, ConcatAssociative
<1> QED
  BY <1>2, <1>3 DEF one

\* What is known while a name is being read: where, and what the recursion
\* reads from there.
LEMMA WhileReading ==
    ASSUME NameInv
    PROVE  /\ message \in Messages /\ pos \in Nat /\ recursions \in Trails
           /\ ReadString(message, pos, recursions)
                = ReadFrom(message, ReadStrings(message), pos, recursions)
<1>1. message \in Messages /\ pos \in Nat /\ recursions \in Trails
  BY DEF NameInv, NameTypeOK, Trails
<1> QED
  BY <1>1, ReadStringRecurs

LEMMA NameInitSame == NameInit => SameInv /\ ReadsTheName
<1> SUFFICES ASSUME NameInit PROVE SameInv /\ ReadsTheName
  OBVIOUS
<1>1. message \in Messages /\ start \in Nat /\ pos = start
  BY BytesAssumption DEF NameInit
<1>2. <<>> \in Trails
  BY LimitAssumption DEF Trails
<1> DEFINE name == ReadString(message, start, <<>>)
<1>3. name \in Names(message, start)
  BY <1>1, <1>2, ReadStringReadsName
<1> HIDE DEF name
<1>4. NameOf(<<>>, NoWhere, 0, name) = name
  BY <1>1, <1>3, WholeOfNothing
<1>5. SameInv
  BY <1>4 DEF NameInit, SameInv, name
<1> QED
  BY <1>5 DEF NameInit, ReadsTheName

LEMMA EndNameSame == ASSUME NameInv, SameInv, EndName PROVE SameInv' /\ ReadsTheName'
<1> DEFINE rest == ReadString(message, pos, recursions)
           entire == ReadString(message, start, <<>>)
<1>1. NameTypeOK
  BY DEF NameInv
<1>2. result' = "Ok" /\ UNCHANGED <<message, start, labels>>
      /\ pos' = (IF back = NoWhere THEN pos + 1 ELSE back)
      /\ bytes_read' = (IF back = NoWhere THEN bytes_read + 1 ELSE bytes_read)
  BY DEF EndName, Count
<1>3. ~(pos >= Len(message)) /\ message[pos + 1] = 0
  BY <1>1, MessageHasBytes DEF EndName, HasByte, Byte, NameTypeOK
<1>4. rest = Success(<<>>, pos + 1, 1)
  BY <1>3, WhileReading DEF ReadFrom
<1>5. entire = NameOf(labels, back, bytes_read, rest)
  BY DEF SameInv, EndName
<1> HIDE DEF rest, entire
<1>6. rest.ok = TRUE /\ rest.labels = <<>> /\ rest.pos = pos + 1 /\ rest.count = 1
  BY <1>4 DEF Success
<1>7. labels \o <<>> = labels
  BY <1>1 DEF NameTypeOK
<1>8. entire = Success(labels, pos', bytes_read')
  BY <1>2, <1>5, <1>6, <1>7 DEF NameOf
<1>9. Tells("Ok", labels, pos', bytes_read', entire)
  BY <1>8 DEF Tells, Success
<1>10. SameInv'
  BY <1>2 DEF SameInv
<1> QED
  BY <1>2, <1>9, <1>10 DEF ReadsTheName, Tells, entire

LEMMA ReadLabelSame == ASSUME NameInv, SameInv, ReadLabel PROVE SameInv' /\ ReadsTheName'
<1> DEFINE byte == message[pos + 1]
           onward == pos + 1 + byte
           label == SubSeq(message, pos + 2, pos + 1 + byte)
           rest == ReadString(message, pos, recursions)
           next == ReadString(message, onward, recursions)
           entire == ReadString(message, start, <<>>)
           more == IF back = NoWhere THEN bytes_read + (1 + byte) ELSE bytes_read
<1>1. NameTypeOK
  BY DEF NameInv
<1>2. message \in Messages /\ pos \in Nat /\ recursions \in Trails /\ Len(message) \in Nat
  BY <1>1, WhileReading, MessageHasBytes
<1>3. pos < Len(message) /\ byte # 0 /\ ~(byte >= PointerMark) /\ pos + byte < Len(message)
      /\ result = "Reading"
  BY DEF ReadLabel, HasByte, IsPointer, Byte
<1>4. byte \in Nat /\ PointerMark \in Nat
  BY <1>2, <1>3, BytesOf, BytesAssumption
<1>5. ~(pos >= Len(message)) /\ ~(byte # 0 /\ byte >= PointerMark) /\ byte < PointerMark
      /\ ~(pos + byte >= Len(message)) /\ onward \in Nat
  BY <1>2, <1>3, <1>4
<1>6. rest = FromLabel(message, ReadStrings(message), pos, recursions)
  BY <1>3, <1>5, WhileReading DEF ReadFrom
<1>7. ReadStrings(message)[onward][recursions] = next
  <2>1. recursions \in Seq(Nat)
    BY <1>2 DEF Trails
  <2> HIDE DEF onward
  <2> QED
    BY <1>5, <2>1 DEF ReadStrings
<1>8. rest = IF next.ok THEN Success(<<label>> \o next.labels, next.pos, next.count + 1 + byte) ELSE next
  BY <1>6, <1>7 DEF FromLabel
<1>9. next \in Names(message, onward)
  <2> HIDE DEF onward
  <2> QED
    BY <1>2, <1>5, ReadStringReadsName
<1>10. label \in Seq(NameBytes)
  <2> HIDE DEF byte
  <2> QED
    BY <1>2, <1>3, <1>4, LabelIsBytes
<1>11. labels \in Seq(Seq(NameBytes)) /\ bytes_read \in Nat
  BY <1>1 DEF NameTypeOK, NameBytes
<1>12. entire = NameOf(labels, back, bytes_read, rest)
  BY <1>3 DEF SameInv
<1>13. entire = NameOf(Append(labels, label), back, more, next)
  <2> DEFINE segments == <<label>> \o next.labels
             count == next.count + 1 + byte
  <2>1. CASE next.ok = FALSE
    BY <1>8, <1>12, <2>1 DEF NameOf
  <2>2. CASE next.ok = TRUE /\ next.labels \in Seq(Seq(NameBytes)) /\ next.count \in 1..(Len(message) - onward)
    <3>1. labels \o segments = Append(labels, label) \o next.labels
      <4> DEFINE T == Seq(NameBytes)
                 behind == next.labels
      <4>1. labels \in Seq(T) /\ label \in T /\ behind \in Seq(T)
        BY <1>10, <1>11, <2>2
      <4> HIDE DEF T, behind, label
      <4>2. labels \o (<<label>> \o behind) = Append(labels, label) \o behind
        BY <4>1, OneLabelMore
      <4> QED
        BY <4>2 DEF behind
    <3>2. bytes_read + count = bytes_read + (1 + byte) + next.count
      <4>1. next.count \in Nat
        BY <1>2, <1>5, <2>2
      <4> HIDE DEF byte, next
      <4> QED
        BY <1>4, <1>11, <4>1
    <3>3. rest = Success(segments, next.pos, count)
      BY <1>8, <2>2
    <3>4. rest.ok = TRUE /\ rest.labels = segments /\ rest.pos = next.pos /\ rest.count = count
      <4> HIDE DEF segments, count, rest
      <4> QED
        BY <3>3 DEF Success
    <3> HIDE DEF segments, count, rest, next, label, byte
    <3> QED
      BY <1>12, <2>2, <3>1, <3>2, <3>4 DEF NameOf
  <2> HIDE DEF onward, next
  <2> QED
    BY <1>9, <2>1, <2>2, NamesHave
<1>14. UNCHANGED <<message, start, recursions, back, result>> /\ labels' = Append(labels, label)
       /\ pos' = onward /\ bytes_read' = more
  BY DEF ReadLabel, Count, Byte
<1> HIDE DEF byte, onward, label, more
<1>15. SameInv'
  BY <1>13, <1>14 DEF SameInv, entire, next
<1> QED
  BY <1>3, <1>14, <1>15 DEF ReadsTheName

LEMMA FollowPointerSame == ASSUME NameInv, SameInv, FollowPointer PROVE SameInv' /\ ReadsTheName'
<1> DEFINE byte == message[pos + 1]
           offset == PointerAt(message, pos)
           trail == Append(recursions, offset)
           rest == ReadString(message, pos, recursions)
           next == ReadString(message, offset, trail)
           entire == ReadString(message, start, <<>>)
           there == IF back = NoWhere THEN pos + 2 ELSE back
           more == IF back = NoWhere THEN bytes_read + 2 ELSE bytes_read
<1>1. NameTypeOK
  BY DEF NameInv
<1>2. message \in Messages /\ pos \in Nat /\ recursions \in Trails /\ Len(message) \in Nat
  BY <1>1, WhileReading, MessageHasBytes
<1>3. pos < Len(message) /\ byte >= PointerMark /\ pos + 1 < Len(message) /\ result = "Reading"
  BY DEF FollowPointer, AtPointer, HasByte, IsPointer, Byte
<1>4. Offset = offset
  <2>1. pos + 1 + 1 = pos + 2
    BY <1>2
  <2> QED
    BY <2>1, Zenon DEF Offset, PointerAt, Byte
<1>5. byte \in Nat /\ PointerMark \in Nat \ {0} /\ offset \in Nat
  BY <1>2, <1>3, BytesOf, BytesAssumption
<1>6. byte # 0 /\ ~(pos >= Len(message)) /\ ~(byte # 0 /\ byte < PointerMark) /\ ~(pos + 1 >= Len(message))
  BY <1>2, <1>3, <1>5
<1>7. ~Contains(recursions, offset) /\ Len(recursions) + 1 < RECURSION_LIMIT
  BY <1>4 DEF FollowPointer, Followed
<1>8. trail \in Trails
  <2> HIDE DEF offset
  <2> QED
    BY <1>2, <1>3, <1>5, <1>7, PointerNeedsLess
<1>9. rest = FromPointer(message, ReadStrings(message), pos, recursions)
  BY <1>3, <1>6, WhileReading DEF ReadFrom
<1>10. ReadStrings(message)[offset][trail] = next
  <2>1. trail \in Seq(Nat)
    BY <1>8 DEF Trails
  <2> HIDE DEF offset, trail
  <2> QED
    BY <1>5, <2>1 DEF ReadStrings
<1>11. rest = IF next.ok THEN Success(next.labels, pos + 2, 2) ELSE next
  <2>1. ~(Len(recursions) + 1 >= RECURSION_LIMIT)
    <3>1. Len(recursions) \in Nat /\ RECURSION_LIMIT \in Nat
      BY <1>1, LimitAssumption DEF NameTypeOK
    <3> QED
      BY <1>7, <3>1
  <2> QED
    BY <1>7, <1>9, <1>10, <2>1 DEF FromPointer
<1>12. next.ok \in BOOLEAN
  <2> HIDE DEF offset, trail
  <2>1. next \in Names(message, offset)
    BY <1>2, <1>5, <1>8, ReadStringReadsName
  <2> QED
    BY <2>1, NamesHave
<1>13. entire = NameOf(labels, back, bytes_read, rest)
  BY <1>3 DEF SameInv
<1>14. entire = NameOf(labels, there, more, next)
  <2>1. CASE next.ok = FALSE
    BY <1>11, <1>13, <2>1 DEF NameOf
  <2>2. CASE next.ok = TRUE
    <3>1. rest = Success(next.labels, pos + 2, 2)
      BY <1>11, <2>2
    <3>2. rest.ok = TRUE /\ rest.labels = next.labels /\ rest.pos = pos + 2 /\ rest.count = 2
      <4> HIDE DEF rest, next
      <4> QED
        BY <3>1 DEF Success
    <3>3. pos + 2 # NoWhere
      BY <1>2 DEF NoWhere
    <3> HIDE DEF rest, next
    <3> QED
      BY <1>13, <2>2, <3>2, <3>3 DEF NameOf
  <2> QED
    BY <1>12, <2>1, <2>2
<1>15. UNCHANGED <<message, start, labels, result>> /\ recursions' = trail
       /\ pos' = offset /\ bytes_read' = more /\ back' = there
  BY <1>4 DEF FollowPointer, Count
<1> HIDE DEF byte, offset, trail, more, there
<1>16. SameInv'
  BY <1>14, <1>15 DEF SameInv, entire, next
<1> QED
  BY <1>3, <1>15, <1>16 DEF ReadsTheName

\* When the loop gives up the recursion does, with the same error.
LEMMA FailSame ==
    ASSUME NameInv, SameInv, NEW error, result = "Reading", error # "Reading", FailName(error),
           ReadString(message, pos, recursions) = Failure(error)
    PROVE  SameInv' /\ ReadsTheName'
<1> DEFINE rest == ReadString(message, pos, recursions)
           entire == ReadString(message, start, <<>>)
<1>1. entire = NameOf(labels, back, bytes_read, rest) /\ rest = Failure(error)
  BY DEF SameInv
<1> HIDE DEF rest, entire
<1>2. entire = Failure(error)
  BY <1>1 DEF NameOf, Failure
<1>3. result' = error /\ message' = message /\ start' = start
  BY DEF FailName
<1>4. entire.ok = FALSE /\ entire.error = error
  BY <1>2 DEF Failure
<1> QED
  BY <1>3, <1>4 DEF SameInv, ReadsTheName, entire

LEMMA TooMuchRecursionSame ==
    ASSUME NameInv, SameInv, TooMuchRecursion PROVE SameInv' /\ ReadsTheName'
<1> DEFINE byte == message[pos + 1]
           offset == PointerAt(message, pos)
<1>1. NameTypeOK
  BY DEF NameInv
<1>2. message \in Messages /\ pos \in Nat /\ Len(message) \in Nat
  BY <1>1, WhileReading, MessageHasBytes
<1>3. pos < Len(message) /\ byte >= PointerMark /\ pos + 1 < Len(message) /\ result = "Reading"
      /\ FailName("TooMuchRecursion")
  BY DEF TooMuchRecursion, AtPointer, HasByte, IsPointer, Byte
<1>4. byte \in Nat /\ PointerMark \in Nat \ {0}
  BY <1>2, <1>3, BytesOf, BytesAssumption
<1>5. byte # 0 /\ ~(pos >= Len(message)) /\ ~(byte # 0 /\ byte < PointerMark) /\ ~(pos + 1 >= Len(message))
  BY <1>2, <1>3, <1>4
<1>6. Contains(recursions, offset) \/ Len(recursions) + 1 >= RECURSION_LIMIT
  <2>1. pos + 1 + 1 = pos + 2
    BY <1>2
  <2>2. Offset = offset
    BY <2>1, Zenon DEF Offset, PointerAt, Byte
  <2> QED
    BY <2>2 DEF TooMuchRecursion, Followed
<1>7. FromPointer(message, ReadStrings(message), pos, recursions) = Failure("TooMuchRecursion")
  BY <1>6 DEF FromPointer
<1>8. ReadString(message, pos, recursions) = Failure("TooMuchRecursion")
  BY <1>3, <1>5, <1>7, WhileReading DEF ReadFrom
<1> QED
  BY <1>3, <1>8, FailSame

LEMMA CutShortSame == ASSUME NameInv, SameInv, CutShort PROVE SameInv' /\ ReadsTheName'
<1> DEFINE byte == message[pos + 1]
<1>1. NameTypeOK
  BY DEF NameInv
<1>2. message \in Messages /\ pos \in Nat /\ Len(message) \in Nat
  BY <1>1, WhileReading, MessageHasBytes
<1>3. result = "Reading" /\ FailName("IO")
  BY DEF CutShort
<1>4. ReadString(message, pos, recursions) = Failure("IO")
  <2>1. CASE pos >= Len(message)
    BY <2>1, WhileReading DEF ReadFrom
  <2>2. CASE pos < Len(message)
    <3>1. byte \in Nat /\ PointerMark \in Nat \ {0} /\ ~(pos >= Len(message))
      BY <1>2, <2>2, BytesOf, BytesAssumption
    <3>2. CASE byte >= PointerMark
      <4>1. ~(pos + 1 < Len(message))
        BY <2>2, <3>2 DEF CutShort, HasByte, IsPointer, Byte
      <4>2. byte # 0 /\ ~(byte # 0 /\ byte < PointerMark) /\ pos + 1 >= Len(message)
        BY <1>2, <3>1, <3>2, <4>1
      <4> QED
        BY <3>1, <3>2, <4>2, WhileReading DEF ReadFrom
    <3>3. CASE ~(byte >= PointerMark)
      <4>1. ~(pos + byte < Len(message))
        BY <2>2, <3>3 DEF CutShort, HasByte, IsPointer, Byte
      <4>2. byte # 0 /\ ~(byte # 0 /\ byte >= PointerMark) /\ byte < PointerMark /\ pos + byte >= Len(message)
        BY <1>2, <2>2, <3>1, <3>3, <4>1
      <4> QED
        BY <3>1, <4>2, WhileReading DEF ReadFrom
    <3> QED
      BY <3>2, <3>3
  <2> QED
    BY <1>2, <2>1, <2>2
<1> QED
  BY <1>3, <1>4, FailSame

\* The invariant: what is known of the state, and the two that belong together.
ReadingInv == NameInv /\ SameInv /\ ReadsTheName

LEMMA NameNextSame == ReadingInv /\ [NameNext]_name_vars => ReadingInv'
<1> SUFFICES ASSUME ReadingInv, [NameNext]_name_vars PROVE ReadingInv'
  OBVIOUS
<1>1. NameInv /\ SameInv /\ ReadsTheName
  BY DEF ReadingInv
<1>2. NameInv'
  BY <1>1, NameNextInv
<1>3. CASE EndName
  BY <1>1, <1>2, <1>3, EndNameSame DEF ReadingInv
<1>4. CASE ReadLabel
  BY <1>1, <1>2, <1>4, ReadLabelSame DEF ReadingInv
<1>5. CASE FollowPointer
  BY <1>1, <1>2, <1>5, FollowPointerSame DEF ReadingInv
<1>6. CASE TooMuchRecursion
  BY <1>1, <1>2, <1>6, TooMuchRecursionSame DEF ReadingInv
<1>7. CASE CutShort
  BY <1>1, <1>2, <1>7, CutShortSame DEF ReadingInv
<1>8. CASE UNCHANGED name_vars
  <2>1. UNCHANGED <<message, start, pos, labels, bytes_read, recursions, back, looked, result>>
    BY <1>8 DEF name_vars
  <2>2. SameInv' /\ ReadsTheName'
    BY <1>1, <2>1 DEF SameInv, ReadsTheName
  <2> QED
    BY <1>2, <2>2 DEF ReadingInv
<1> QED
  BY <1>3, <1>4, <1>5, <1>6, <1>7, <1>8 DEF NameNext, Step, NameDone

\* Reading a name by the loop and by the recursion of read_string_recursive is
\* the same, in every message and wherever in it the name starts: the same
\* labels to the same place, or the same error.
THEOREM NameIsReadAlways == NameSpec => []ReadsTheName
<1>1. NameInit => ReadingInv
  BY NameInitInv, NameInitSame DEF ReadingInv
<1>2. ReadingInv => ReadsTheName
  BY DEF ReadingInv
<1> QED
  BY <1>1, <1>2, NameNextSame, PTL DEF NameSpec

\* The recursion comes to an end in every message, however its pointers lead to
\* one another, and a name it reads ends behind where it starts and within the
\* message (the list of offsets and RECURSION_LIMIT of read_string_recursive).
\* That is all that reading a message assumes of the names in it.
THEOREM NamesEndAsAssumed ==
    \A msg \in Messages : \A at \in 0..Len(msg) :
        LET name == ReadString(msg, at, <<>>) IN
        IF name.ok
        THEN name.pos = at + name.count /\ name.pos \in (at + 1)..Len(msg)
        ELSE name.error \in {"TooMuchRecursion", "IO"}
<1> SUFFICES ASSUME NEW msg \in Messages, NEW at \in 0..Len(msg)
             PROVE  LET name == ReadString(msg, at, <<>>) IN
                    IF name.ok
                    THEN name.pos = at + name.count /\ name.pos \in (at + 1)..Len(msg)
                    ELSE name.error \in {"TooMuchRecursion", "IO"}
  OBVIOUS
<1> DEFINE name == ReadString(msg, at, <<>>)
<1>1. Len(msg) \in Nat /\ at \in Nat
  BY BytesAssumption
<1>2. <<>> \in Trails
  BY LimitAssumption DEF Trails
<1>3. name \in Names(msg, at)
  BY <1>1, <1>2, ReadStringReadsName
<1> HIDE DEF name
<1>4. CASE name.ok = TRUE /\ name.count \in 1..(Len(msg) - at) /\ name.pos = at + name.count
  <2>1. name.pos \in (at + 1)..Len(msg)
    BY <1>1, <1>4
  <2> QED
    BY <1>4, <2>1 DEF name
<1>5. CASE name.ok = FALSE /\ name \in {Failure("IO"), Failure("TooMuchRecursion")}
  <2>1. name.error \in {"TooMuchRecursion", "IO"}
    BY <1>5 DEF Failure
  <2> QED
    BY <1>5, <2>1 DEF name
<1> QED
  BY <1>3, <1>4, <1>5, NamesHave

-----------------------------------------------------------------------------

(***************************************************************************)
(* Texts put together from parts: each part stands behind the one before   *)
(* it, which is what FlattenSeq is needed for.                             *)
(***************************************************************************)

Written == Seq(Nat)

\* One part stands in a text behind some place.
Stands(text, at, part) ==
    /\ at + Len(part) <= Len(text)
    /\ \A k \in 1..Len(part) : text[at + k] = part[k]

\* The parts up to each, put together.
IsFlat(parts, f) == f = [i \in 1..Len(parts) |-> IF i = 1 THEN parts[i] ELSE f[i - 1] \o parts[i]]

UpToPart(parts, m, f) == f = [i \in 1..m |-> IF i = 1 THEN parts[i] ELSE f[i - 1] \o parts[i]]

LEMMA FlatExists ==
    ASSUME NEW parts
    PROVE  \A m \in Nat : \E f : UpToPart(parts, m, f)
<1> DEFINE S == {m \in Nat : \E f : UpToPart(parts, m, f)}
<1>1. 0 \in S
  <2> DEFINE f == [i \in 1..0 |-> {}]
  <2>1. f = [i \in 1..0 |-> IF i = 1 THEN parts[i] ELSE f[i - 1] \o parts[i]]
    OBVIOUS
  <2> HIDE DEF f
  <2> QED
    BY <2>1 DEF UpToPart
<1>2. ASSUME NEW m \in Nat, m \in S PROVE m + 1 \in S
  <2>1. PICK f : UpToPart(parts, m, f)
    BY <1>2
  <2> DEFINE Onto(i, g) == IF i = 1 THEN parts[i] ELSE g[i - 1] \o parts[i]
             g == [i \in 1..(m + 1) |-> IF i = m + 1 THEN Onto(m + 1, f) ELSE f[i]]
  <2>2. \A i \in 1..m : g[i] = f[i]
    OBVIOUS
  <2>0. g[m + 1] = Onto(m + 1, f)
    OBVIOUS
  <2>4. g = [i \in 1..(m + 1) |-> g[i]]
    OBVIOUS
  <2> HIDE DEF g
  <2>3. ASSUME NEW i \in 1..(m + 1) PROVE g[i] = Onto(i, g)
    <3>1. Onto(i, g) = Onto(i, f)
      <4>1. CASE i = 1
        BY <4>1
      <4>2. CASE i # 1
        <5>1. i - 1 \in 1..m
          BY <4>2
        <5> QED
          BY <2>2, <4>2, <5>1
      <4> QED
        BY <4>1, <4>2
    <3>2. g[i] = Onto(i, f)
      <4>1. CASE i = m + 1
        BY <2>0, <4>1
      <4>2. CASE i # m + 1
        <5>1. i \in 1..m
          BY <4>2
        <5>2. f[i] = Onto(i, f)
          BY <2>1, <5>1 DEF UpToPart
        <5> QED
          BY <2>2, <5>1, <5>2
      <4> QED
        BY <4>1, <4>2
    <3> QED
      BY <3>1, <3>2
  <2>5. g = [i \in 1..(m + 1) |-> Onto(i, g)]
    BY <2>3, <2>4
  <2>6. UpToPart(parts, m + 1, g)
    BY <2>5 DEF UpToPart
  <2> QED
    BY <2>6
<1> HIDE DEF S
<1>3. \A m \in Nat : m \in S
  BY <1>1, <1>2, Induction
<1> QED
  BY <1>3 DEF S

LEMMA FlattenIsFlat ==
    ASSUME NEW parts, Len(parts) \in Nat, Len(parts) # 0
    PROVE  \E f : IsFlat(parts, f) /\ FlattenSeq(parts) = f[Len(parts)]
<1> DEFINE flatten[i \in 1..Len(parts)] == IF i = 1 THEN parts[i] ELSE flatten[i - 1] \o parts[i]
<1>1. PICK some : UpToPart(parts, Len(parts), some)
  BY FlatExists
<1>2. flatten = CHOOSE f : f = [i \in 1..Len(parts) |-> IF i = 1 THEN parts[i] ELSE f[i - 1] \o parts[i]]
  OBVIOUS
<1>3. some = [i \in 1..Len(parts) |-> IF i = 1 THEN parts[i] ELSE some[i - 1] \o parts[i]]
  BY <1>1 DEF UpToPart
<1>4. flatten = [i \in 1..Len(parts) |-> IF i = 1 THEN parts[i] ELSE flatten[i - 1] \o parts[i]]
  BY <1>2, <1>3
<1>5. FlattenSeq(parts) = flatten[Len(parts)]
  BY DEF FlattenSeq
<1> HIDE DEF flatten
<1>6. IsFlat(parts, flatten)
  BY <1>4 DEF IsFlat
<1> QED
  BY <1>5, <1>6

LEMMA FlatParts ==
    ASSUME NEW parts \in Seq(Written), NEW f, IsFlat(parts, f)
    PROVE  /\ \A i \in 1..Len(parts) : f[i] \in Written
           /\ Len(parts) # 0 => f[1] = parts[1]
           /\ \A i \in 1..Len(parts) : i # 1 => i - 1 \in 1..Len(parts) /\ f[i] = f[i - 1] \o parts[i]
<1>1. Len(parts) \in Nat /\ \A i \in 1..Len(parts) : parts[i] \in Written
  OBVIOUS
<1>2. \A i \in 1..Len(parts) : f[i] = IF i = 1 THEN parts[i] ELSE f[i - 1] \o parts[i]
  BY DEF IsFlat
<1>3. Len(parts) # 0 => f[1] = parts[1]
  BY <1>1, <1>2
<1>4. \A i \in 1..Len(parts) : i # 1 => i - 1 \in 1..Len(parts) /\ f[i] = f[i - 1] \o parts[i]
  <2>1. \A i \in 1..Len(parts) : i # 1 => i - 1 \in 1..Len(parts)
    BY <1>1
  <2>2. \A i \in 1..Len(parts) : i # 1 => f[i] = f[i - 1] \o parts[i]
    BY <1>2, Zenon
  <2> QED
    BY <2>1, <2>2, Zenon
<1> DEFINE S == {n \in Nat : n \in 1..Len(parts) => f[n] \in Written}
<1>5. 0 \in S
  OBVIOUS
<1>6. ASSUME NEW n \in Nat, n \in S PROVE n + 1 \in S
  <2> SUFFICES ASSUME n + 1 \in 1..Len(parts) PROVE f[n + 1] \in Written
    OBVIOUS
  <2>1. CASE n = 0
    BY <1>1, <1>3, <2>1
  <2>2. CASE n # 0
    <3>1. n \in 1..Len(parts) /\ (n + 1) - 1 = n /\ n + 1 # 1
      BY <1>1, <2>2
    <3>2. f[n] \in Written /\ parts[n + 1] \in Written
      BY <1>1, <1>6, <3>1
    <3>3. f[n + 1] = f[n] \o parts[n + 1]
      <4>1. f[n + 1] = f[(n + 1) - 1] \o parts[n + 1]
        BY <1>4, <3>1
      <4> QED
        BY <3>1, <4>1
    <3>4. f[n] \o parts[n + 1] \in Written
      BY <3>2, ConcatProperties DEF Written
    <3> QED
      BY <3>3, <3>4
  <2> QED
    BY <2>1, <2>2
<1> HIDE DEF S
<1>7. \A n \in Nat : n \in S
  BY <1>5, <1>6, Induction
<1>8. \A i \in 1..Len(parts) : f[i] \in Written
  BY <1>7 DEF S
<1> QED
  BY <1>3, <1>4, <1>8

\* Where a part begins.
Before(f, i) == IF i = 1 THEN 0 ELSE Len(f[i - 1])

LEMMA StandsInLonger ==
    ASSUME NEW left \in Written, NEW right \in Written, NEW at \in Nat, NEW part \in Written
    PROVE  /\ Stands(left, at, part) => Stands(left \o right, at, part)
           /\ Stands(left \o right, Len(left), right)
<1>1. /\ Len(left \o right) = Len(left) + Len(right)
      /\ \A i \in 1..Len(left) : (left \o right)[i] = left[i]
      /\ \A i \in 1..Len(right) : (left \o right)[Len(left) + i] = right[i]
  <2>1. left \in Seq(Nat) /\ right \in Seq(Nat)
    BY DEF Written
  <2> QED
    BY <2>1
<1>2. Len(left) \in Nat /\ Len(right) \in Nat /\ Len(part) \in Nat
  BY DEF Written
<1> DEFINE both == left \o right
<1> HIDE DEF both
<1>3. Stands(left, at, part) => Stands(both, at, part)
  <2> SUFFICES ASSUME Stands(left, at, part) PROVE Stands(both, at, part)
    OBVIOUS
  <2>1. at + Len(part) <= Len(both)
    BY <1>1, <1>2 DEF Stands, both
  <2>2. ASSUME NEW k \in 1..Len(part) PROVE both[at + k] = part[k]
    <3>1. at + k \in 1..Len(left) /\ left[at + k] = part[k]
      BY <1>2 DEF Stands
    <3> QED
      BY <1>1, <3>1 DEF both
  <2> QED
    BY <2>1, <2>2 DEF Stands
<1>4. Stands(both, Len(left), right)
  BY <1>1, <1>2 DEF Stands, both
<1> QED
  BY <1>3, <1>4 DEF both

LEMMA StandsWithin ==
    ASSUME NEW text \in Written, NEW whole \in Written, NEW part \in Written, NEW at \in Nat, NEW within \in Nat,
           Stands(text, at, whole), Stands(whole, within, part)
    PROVE  Stands(text, at + within, part)
<1>1. Len(text) \in Nat /\ Len(whole) \in Nat /\ Len(part) \in Nat
  BY DEF Written
<1>2. (at + within) + Len(part) <= Len(text)
  BY <1>1 DEF Stands
<1>3. ASSUME NEW k \in 1..Len(part) PROVE text[(at + within) + k] = part[k]
  <2>1. within + k \in 1..Len(whole) /\ whole[within + k] = part[k]
    BY <1>1 DEF Stands
  <2>2. text[at + (within + k)] = whole[within + k]
    BY <2>1 DEF Stands
  <2>3. at + (within + k) = (at + within) + k
    OBVIOUS
  <2> QED
    BY <2>1, <2>2, <2>3
<1> QED
  BY <1>2, <1>3 DEF Stands

LEMMA PartsStand ==
    ASSUME NEW parts \in Seq(Written), NEW f, IsFlat(parts, f)
    PROVE  \A n \in 1..Len(parts) : \A i \in 1..n :
              /\ Before(f, i) \in Nat
              /\ Stands(f[n], Before(f, i), parts[i])
              /\ Before(f, i) + Len(parts[i]) = Len(f[i])
<1>1. Len(parts) \in Nat /\ \A i \in 1..Len(parts) : parts[i] \in Written
  OBVIOUS
<1>2. /\ \A i \in 1..Len(parts) : f[i] \in Written
      /\ Len(parts) # 0 => f[1] = parts[1]
      /\ \A i \in 1..Len(parts) : i # 1 => i - 1 \in 1..Len(parts) /\ f[i] = f[i - 1] \o parts[i]
  BY FlatParts
<1>3. \A i \in 1..Len(parts) : Before(f, i) \in Nat
  BY <1>2 DEF Before, Written
<1>4. \A i \in 1..Len(parts) : Before(f, i) + Len(parts[i]) = Len(f[i])
  <2> TAKE i \in 1..Len(parts)
  <2>1. CASE i = 1
    BY <1>1, <1>2, <2>1 DEF Before, Written
  <2>2. CASE i # 1
    <3>1. f[i - 1] \in Seq(Nat) /\ parts[i] \in Seq(Nat) /\ f[i] = f[i - 1] \o parts[i]
      BY <1>1, <1>2, <2>2 DEF Written
    <3>2. Len(f[i]) = Len(f[i - 1]) + Len(parts[i])
      BY <3>1
    <3> QED
      BY <2>2, <3>2 DEF Before
  <2> QED
    BY <2>1, <2>2
<1> DEFINE S == {n \in Nat : n \in 1..Len(parts) => \A i \in 1..n : Stands(f[n], Before(f, i), parts[i])}
<1>5. 0 \in S
  OBVIOUS
<1>6. ASSUME NEW n \in Nat, n \in S PROVE n + 1 \in S
  <2> SUFFICES ASSUME n + 1 \in 1..Len(parts), NEW i \in 1..(n + 1)
               PROVE  Stands(f[n + 1], Before(f, i), parts[i])
    OBVIOUS
  <2>1. CASE n = 0
    <3>1. i = 1 /\ n + 1 = 1 /\ Len(parts) # 0
      BY <1>1, <2>1
    <3>2. f[1] = parts[1] /\ f[1] \in Seq(Nat)
      BY <1>1, <1>2, <3>1 DEF Written
    <3>3. Stands(f[1], 0, f[1])
      BY <3>2 DEF Stands
    <3> QED
      BY <3>1, <3>2, <3>3 DEF Before
  <2>2. CASE n # 0
    <3>1. n \in 1..Len(parts) /\ (n + 1) - 1 = n /\ n + 1 # 1
      BY <1>1, <2>2
    <3>2. f[n] \in Written /\ parts[n + 1] \in Written /\ f[n + 1] = f[n] \o parts[n + 1]
      <4>1. f[n + 1] = f[(n + 1) - 1] \o parts[n + 1]
        BY <1>2, <3>1
      <4> QED
        BY <1>1, <1>2, <3>1, <4>1
    <3>3. CASE i = n + 1
      <4>1. Stands(f[n] \o parts[n + 1], Len(f[n]), parts[n + 1])
        BY <3>2, StandsInLonger, Zenon DEF Written
      <4>2. Before(f, n + 1) = Len(f[n])
        BY <3>1 DEF Before
      <4> QED
        BY <3>2, <3>3, <4>1, <4>2
    <3>4. CASE i # n + 1
      <4>1. i \in 1..n /\ i \in 1..Len(parts)
        BY <1>1, <3>4, <3>1
      <4>2. Stands(f[n], Before(f, i), parts[i])
        BY <1>6, <3>1, <4>1
      <4>3. Before(f, i) \in Nat /\ parts[i] \in Written
        BY <1>1, <1>3, <4>1
      <4> QED
        BY <3>2, <4>2, <4>3, StandsInLonger
    <3> QED
      BY <3>3, <3>4
  <2> QED
    BY <2>1, <2>2
<1> HIDE DEF S
<1>7. \A n \in Nat : n \in S
  BY <1>5, <1>6, Induction
<1>8. \A n \in 1..Len(parts) : \A i \in 1..n : Stands(f[n], Before(f, i), parts[i])
  BY <1>7 DEF S
<1>9. \A n \in 1..Len(parts) : \A i \in 1..n : i \in 1..Len(parts)
  BY <1>1
<1> QED
  BY <1>3, <1>4, <1>8, <1>9

-----------------------------------------------------------------------------

(***************************************************************************)
(* Codes: sets of texts of which no two can begin at the same place.       *)
(***************************************************************************)

IsCode(C) ==
    /\ C \subseteq Written
    /\ \A c \in C : Len(c) # 0
    /\ \A text \in Written, at \in Nat : \A x, y \in C : Stands(text, at, x) /\ Stands(text, at, y) => x = y

LEMMA FlattenedAre ==
    ASSUME NEW parts \in Seq(Written)
    PROVE  FlattenSeq(parts) \in Written
<1>1. CASE Len(parts) = 0
  <2>1. parts = <<>>
    BY <1>1
  <2>2. FlattenSeq(parts) = <<>>
    BY <2>1 DEF FlattenSeq
  <2> QED
    BY <2>2 DEF Written
<1>2. CASE Len(parts) # 0
  <2>1. Len(parts) \in Nat /\ Len(parts) \in 1..Len(parts)
    BY <1>2
  <2>2. PICK f : IsFlat(parts, f) /\ FlattenSeq(parts) = f[Len(parts)]
    BY <1>2, <2>1, FlattenIsFlat
  <2> QED
    BY <2>1, <2>2, FlatParts
<1> QED
  BY <1>1, <1>2

\* Two ways to put the same text together from a code begin with the same.
LEMMA SameBeginning ==
    ASSUME NEW C, IsCode(C), NEW p \in Seq(C), NEW q \in Seq(C), NEW f, NEW g, IsFlat(p, f), IsFlat(q, g),
           NEW text \in Written, NEW at \in Nat,
           Len(p) # 0 => Stands(text, at, f[Len(p)]), Len(q) # 0 => Stands(text, at, g[Len(q)])
    PROVE  \A i \in Nat : i \in 1..Len(p) /\ i \in 1..Len(q) => Before(f, i) = Before(g, i) /\ p[i] = q[i]
<1>1. C \subseteq Written /\ p \in Seq(Written) /\ q \in Seq(Written)
  BY DEF IsCode
<1>2. Len(p) \in Nat /\ Len(q) \in Nat
  OBVIOUS
<1>3. \A i \in 1..Len(p) : p[i] \in C /\ Before(f, i) \in Nat /\ Before(f, i) + Len(p[i]) = Len(f[i])
  <2>1. \A i \in 1..Len(p) : i \in 1..i
    BY <1>2
  <2> QED
    BY <1>1, <2>1, PartsStand
<1>4. \A i \in 1..Len(q) : q[i] \in C /\ Before(g, i) \in Nat /\ Before(g, i) + Len(q[i]) = Len(g[i])
  <2>1. \A i \in 1..Len(q) : i \in 1..i
    BY <1>2
  <2> QED
    BY <1>1, <2>1, PartsStand
<1>5. ASSUME NEW i \in 1..Len(p) PROVE Stands(text, at + Before(f, i), p[i])
  <2>1. Len(p) \in 1..Len(p) /\ i \in 1..Len(p) /\ Len(p) # 0
    BY <1>2
  <2>2. Stands(f[Len(p)], Before(f, i), p[i])
    BY <1>1, <2>1, PartsStand
  <2>3. f[Len(p)] \in Written
    BY <1>1, <2>1, FlatParts
  <2> QED
    BY <1>1, <1>3, <2>1, <2>2, <2>3, StandsWithin
<1>6. ASSUME NEW i \in 1..Len(q) PROVE Stands(text, at + Before(g, i), q[i])
  <2>1. Len(q) \in 1..Len(q) /\ i \in 1..Len(q) /\ Len(q) # 0
    BY <1>2
  <2>2. Stands(g[Len(q)], Before(g, i), q[i])
    BY <1>1, <2>1, PartsStand
  <2>3. g[Len(q)] \in Written
    BY <1>1, <2>1, FlatParts
  <2> QED
    BY <1>1, <1>4, <2>1, <2>2, <2>3, StandsWithin
<1>7. ASSUME NEW i \in 1..Len(p), i \in 1..Len(q), Before(f, i) = Before(g, i)
      PROVE  p[i] = q[i]
  <2>1. at + Before(f, i) \in Nat
    BY <1>3
  <2>2. Stands(text, at + Before(f, i), p[i]) /\ Stands(text, at + Before(f, i), q[i])
    BY <1>5, <1>6, <1>7
  <2> QED
    BY <1>3, <1>4, <1>7, <2>1, <2>2 DEF IsCode
<1> DEFINE S == {i \in Nat : i \in 1..Len(p) /\ i \in 1..Len(q) => Before(f, i) = Before(g, i)}
<1>8. 0 \in S
  BY <1>2
<1>9. ASSUME NEW i \in Nat, i \in S PROVE i + 1 \in S
  <2> SUFFICES ASSUME i + 1 \in 1..Len(p), i + 1 \in 1..Len(q) PROVE Before(f, i + 1) = Before(g, i + 1)
    OBVIOUS
  <2>1. CASE i = 0
    BY <2>1 DEF Before
  <2>2. CASE i # 0
    <3>1. i \in 1..Len(p) /\ i \in 1..Len(q) /\ (i + 1) - 1 = i /\ i + 1 # 1
      BY <1>2, <2>2
    <3>2. Before(f, i) = Before(g, i)
      BY <1>9, <3>1
    <3>3. p[i] = q[i]
      BY <1>7, <3>1, <3>2
    <3>4. Len(f[i]) = Len(g[i])
      BY <1>3, <1>4, <3>1, <3>2, <3>3
    <3>5. Before(f, i + 1) = Len(f[i]) /\ Before(g, i + 1) = Len(g[i])
      BY <3>1 DEF Before
    <3> QED
      BY <3>4, <3>5
  <2> QED
    BY <2>1, <2>2
<1> HIDE DEF S
<1>10. \A i \in Nat : i \in S
  BY <1>8, <1>9, Induction
<1> QED
  BY <1>7, <1>10 DEF S

\* If one of them is longer, it goes on where the other ends.
LEMMA OneGoesOn ==
    ASSUME NEW C, IsCode(C), NEW p \in Seq(C), NEW q \in Seq(C), NEW text \in Written, NEW at \in Nat,
           Stands(text, at, FlattenSeq(p)), Stands(text, at, FlattenSeq(q))
    PROVE  /\ \A i \in Nat : i \in 1..Len(p) /\ i \in 1..Len(q) => p[i] = q[i]
           /\ Len(p) < Len(q) => Stands(text, at + Len(FlattenSeq(p)), q[Len(p) + 1])
<1>1. C \subseteq Written /\ p \in Seq(Written) /\ q \in Seq(Written)
  BY DEF IsCode
<1>2. Len(p) \in Nat /\ Len(q) \in Nat
  OBVIOUS
<1>3. PICK f : IsFlat(p, f) /\ (Len(p) # 0 => FlattenSeq(p) = f[Len(p)])
  <2>1. CASE Len(p) = 0
    <3> DEFINE f == [i \in 1..Len(p) |-> <<>>]
    <3>1. f = [i \in 1..Len(p) |-> IF i = 1 THEN p[i] ELSE f[i - 1] \o p[i]]
      BY <2>1
    <3> HIDE DEF f
    <3> QED
      BY <2>1, <3>1 DEF IsFlat
  <2>2. CASE Len(p) # 0
    BY <1>2, <2>2, FlattenIsFlat
  <2> QED
    BY <2>1, <2>2
<1>4. PICK g : IsFlat(q, g) /\ (Len(q) # 0 => FlattenSeq(q) = g[Len(q)])
  <2>1. CASE Len(q) = 0
    <3> DEFINE g == [i \in 1..Len(q) |-> <<>>]
    <3>1. g = [i \in 1..Len(q) |-> IF i = 1 THEN q[i] ELSE g[i - 1] \o q[i]]
      BY <2>1
    <3> HIDE DEF g
    <3> QED
      BY <2>1, <3>1 DEF IsFlat
  <2>2. CASE Len(q) # 0
    BY <1>2, <2>2, FlattenIsFlat
  <2> QED
    BY <2>1, <2>2
<1>5. \A i \in Nat : i \in 1..Len(p) /\ i \in 1..Len(q) => Before(f, i) = Before(g, i) /\ p[i] = q[i]
  <2>1. Len(p) # 0 => Stands(text, at, f[Len(p)])
    BY <1>3
  <2>2. Len(q) # 0 => Stands(text, at, g[Len(q)])
    BY <1>4
  <2> QED
    BY <1>3, <1>4, <2>1, <2>2, SameBeginning
<1>6. ASSUME Len(p) < Len(q) PROVE Stands(text, at + Len(FlattenSeq(p)), q[Len(p) + 1])
  <2> DEFINE next == Len(p) + 1
  <2>1. Len(q) # 0 /\ Len(q) \in 1..Len(q) /\ next \in 1..Len(q) /\ next - 1 = Len(p)
    BY <1>2, <1>6
  <2>2. /\ Stands(g[Len(q)], Before(g, next), q[next])
        /\ Before(g, next) \in Nat
    BY <1>1, <1>4, <2>1, PartsStand
  <2>3. Before(g, next) = Len(FlattenSeq(p))
    <3>1. CASE Len(p) = 0
      <4>1. p = <<>>
        BY <3>1
      <4>2. FlattenSeq(p) = <<>>
        BY <4>1 DEF FlattenSeq
      <4>3. Before(g, next) = 0
        BY <3>1 DEF Before
      <4> QED
        BY <4>2, <4>3
    <3>2. CASE Len(p) # 0
      <4>1. Len(p) \in 1..Len(p) /\ Len(p) \in 1..Len(q) /\ next # 1
        BY <1>2, <1>6, <3>2
      <4>2. Before(f, Len(p)) = Before(g, Len(p)) /\ p[Len(p)] = q[Len(p)]
        BY <1>2, <1>5, <4>1
      <4>3. Before(f, Len(p)) + Len(p[Len(p)]) = Len(f[Len(p)])
        BY <1>1, <1>3, <4>1, PartsStand
      <4>4. Before(g, Len(p)) + Len(q[Len(p)]) = Len(g[Len(p)])
        <5>1. Len(p) \in 1..Len(p)
          BY <4>1
        <5> QED
          BY <1>1, <1>4, <4>1, <5>1, PartsStand
      <4>5. Before(g, next) = Len(g[Len(p)])
        <5> HIDE DEF next
        <5> QED
          BY <2>1, <4>1 DEF Before
      <4> QED
        BY <1>3, <3>2, <4>2, <4>3, <4>4, <4>5
    <3> QED
      BY <3>1, <3>2
  <2>4. g[Len(q)] \in Written /\ q[next] \in Written /\ Stands(text, at, g[Len(q)])
    <3>1. g[Len(q)] \in Written
      BY <1>1, <1>4, <2>1, FlatParts
    <3>2. q[next] \in Written
      BY <1>1, <2>1
    <3> QED
      BY <1>4, <2>1, <3>1, <3>2
  <2> HIDE DEF next
  <2>5. Stands(text, at + Before(g, next), q[next])
    BY <2>2, <2>4, StandsWithin
  <2> QED
    BY <2>3, <2>5 DEF next
<1> QED
  BY <1>5, <1>6

\* So a text is put together from a code in one way.
LEMMA PutTogetherOnce ==
    ASSUME NEW C, IsCode(C), NEW p \in Seq(C), NEW q \in Seq(C), FlattenSeq(p) = FlattenSeq(q)
    PROVE  p = q
<1> DEFINE text == FlattenSeq(p)
<1>1. C \subseteq Written /\ p \in Seq(Written) /\ q \in Seq(Written)
  BY DEF IsCode
<1>2. text \in Written
  BY <1>1, FlattenedAre
<1>3. Stands(text, 0, FlattenSeq(p)) /\ Stands(text, 0, FlattenSeq(q))
  <2>1. text = FlattenSeq(p) /\ text = FlattenSeq(q)
    OBVIOUS
  <2>2. Stands(text, 0, text)
    <3> HIDE DEF text
    <3> QED
      BY <1>2 DEF Stands, Written
  <2> QED
    BY <2>1, <2>2
<1>4. Len(FlattenSeq(p)) = Len(text) /\ Len(FlattenSeq(q)) = Len(text) /\ Len(text) \in Nat
  <2>1. Len(text) \in Nat
    <3> HIDE DEF text
    <3> QED
      BY <1>2 DEF Written
  <2> QED
    BY <2>1
<1> HIDE DEF text
<1>5. Len(p) \in Nat /\ Len(q) \in Nat
  OBVIOUS
<1>6. \A i \in Nat : i \in 1..Len(p) /\ i \in 1..Len(q) => p[i] = q[i]
  BY <1>2, <1>3, OneGoesOn
<1>7. ASSUME NEW c \in C PROVE ~Stands(text, 0 + Len(text), c)
  BY <1>1, <1>4, <1>7 DEF Stands, IsCode, Written
<1>8. ~(Len(p) < Len(q))
  <2> SUFFICES ASSUME Len(p) < Len(q) PROVE FALSE
    OBVIOUS
  <2>1. Len(p) + 1 \in 1..Len(q)
    BY <1>5
  <2>2. q[Len(p) + 1] \in C
    BY <2>1
  <2>3. Stands(text, 0 + Len(text), q[Len(p) + 1])
    BY <1>2, <1>3, <1>4, OneGoesOn
  <2> QED
    BY <1>7, <2>2, <2>3
<1>9. ~(Len(q) < Len(p))
  <2> SUFFICES ASSUME Len(q) < Len(p) PROVE FALSE
    OBVIOUS
  <2>1. Len(q) + 1 \in 1..Len(p)
    BY <1>5
  <2>2. p[Len(q) + 1] \in C
    BY <2>1
  <2>3. Stands(text, 0 + Len(text), p[Len(q) + 1])
    BY <1>2, <1>3, <1>4, OneGoesOn
  <2> QED
    BY <1>7, <2>2, <2>3
<1>10. Len(p) = Len(q)
  BY <1>5, <1>8, <1>9
<1>11. \A i \in 1..Len(p) : p[i] = q[i]
  BY <1>5, <1>6, <1>10
<1> QED
  BY <1>10, <1>11, SeqEqual

-----------------------------------------------------------------------------

(***************************************************************************)
(* Numbers in words.                                                       *)
(***************************************************************************)

NextDigits(digits, k) == IF k < 10 THEN <<Digit(k)>> ELSE Append(digits[k \div 10], Digit(k % 10))

IsDigits(digits, last) == digits = [k \in 0..last |-> NextDigits(digits, k)]

LEMMA TenthIsLess == \A k \in Nat : k >= 10 => k \div 10 \in Nat /\ k \div 10 < k
OBVIOUS

\* What is before it is all that a number needs.
LEMMA OnlyLesserMatter ==
    ASSUME NEW k \in Nat, NEW f, NEW g, k >= 10 => f[k \div 10] = g[k \div 10]
    PROVE  NextDigits(f, k) = NextDigits(g, k)
BY DEF NextDigits

LEMMA DigitsExist == \A last \in Nat : \E digits : IsDigits(digits, last)
<1> DEFINE S == {last \in Nat : \E digits : IsDigits(digits, last)}
<1>1. 0 \in S
  <2> DEFINE digits == [k \in 0..0 |-> <<Digit(0)>>]
  <2>1. \A k \in 0..0 : k = 0
    OBVIOUS
  <2>2. <<Digit(0)>> = NextDigits(digits, 0)
    BY DEF NextDigits
  <2>3. digits = [k \in 0..0 |-> NextDigits(digits, k)]
    BY <2>1, <2>2
  <2> HIDE DEF digits
  <2> QED
    BY <2>3 DEF IsDigits
<1>2. ASSUME NEW m \in Nat, m \in S PROVE m + 1 \in S
  <2>1. PICK f : IsDigits(f, m)
    BY <1>2
  <2> DEFINE g == [k \in 0..(m + 1) |-> IF k = m + 1 THEN NextDigits(f, m + 1) ELSE f[k]]
  <2>2. \A k \in 0..m : g[k] = f[k]
    OBVIOUS
  <2>3. g[m + 1] = NextDigits(f, m + 1)
    OBVIOUS
  <2>4. g = [k \in 0..(m + 1) |-> g[k]]
    OBVIOUS
  <2> HIDE DEF g
  <2>5. ASSUME NEW k \in 0..(m + 1) PROVE g[k] = NextDigits(g, k)
    <3>1. k >= 10 => k \div 10 \in 0..m
      BY TenthIsLess
    <3>2. NextDigits(g, k) = NextDigits(f, k)
      BY <2>2, <3>1, OnlyLesserMatter
    <3>3. CASE k = m + 1
      BY <2>3, <3>2, <3>3
    <3>4. CASE k # m + 1
      <4>1. k \in 0..m
        BY <3>4
      <4>2. f[k] = NextDigits(f, k)
        BY <2>1, <4>1 DEF IsDigits
      <4> QED
        BY <2>2, <3>2, <4>1, <4>2
    <3> QED
      BY <3>3, <3>4
  <2>6. g = [k \in 0..(m + 1) |-> NextDigits(g, k)]
    BY <2>4, <2>5
  <2>7. IsDigits(g, m + 1)
    BY <2>6 DEF IsDigits
  <2> QED
    BY <2>7
<1> HIDE DEF S
<1>3. \A m \in Nat : m \in S
  BY <1>1, <1>2, Induction
<1> QED
  BY <1>3 DEF S

LEMMA DigitsAgree ==
    ASSUME NEW m \in Nat, NEW n \in Nat, NEW f, NEW g, IsDigits(f, m), IsDigits(g, n)
    PROVE  \A k \in Nat : k <= m /\ k <= n => f[k] = g[k]
<1> DEFINE S == {last \in Nat : \A k \in 0..last : k <= m /\ k <= n => f[k] = g[k]}
<1>0. \A k \in Nat : k <= m /\ k <= n => f[k] = NextDigits(f, k) /\ g[k] = NextDigits(g, k)
  <2>1. \A k \in 0..m : f[k] = NextDigits(f, k)
    BY DEF IsDigits
  <2>2. \A k \in 0..n : g[k] = NextDigits(g, k)
    BY DEF IsDigits
  <2>3. \A k \in Nat : k <= m /\ k <= n => k \in 0..m /\ k \in 0..n
    OBVIOUS
  <2> QED
    BY <2>1, <2>2, <2>3
<1>1. 0 \in S
  <2>1. f[0] = g[0]
    <3>1. NextDigits(f, 0) = NextDigits(g, 0)
      BY OnlyLesserMatter
    <3> QED
      BY <1>0, <3>1
  <2> QED
    BY <2>1
<1>2. ASSUME NEW last \in Nat, last \in S PROVE last + 1 \in S
  <2> SUFFICES ASSUME NEW k \in 0..(last + 1), k <= m, k <= n PROVE f[k] = g[k]
    OBVIOUS
  <2>1. k >= 10 => k \div 10 \in 0..last /\ k \div 10 <= m /\ k \div 10 <= n
    BY TenthIsLess
  <2>2. NextDigits(f, k) = NextDigits(g, k)
    BY <1>2, <2>1, OnlyLesserMatter
  <2> QED
    BY <1>0, <2>2
<1> HIDE DEF S
<1>3. \A last \in Nat : last \in S
  BY <1>1, <1>2, Induction
<1> QED
  BY <1>3 DEF S

\* A number is written as its tenth, and its last digit.
LEMMA DecimalIs == \A n \in Nat : Decimal(n) = IF n < 10 THEN <<Digit(n)>> ELSE Append(Decimal(n \div 10), Digit(n % 10))
<1> DEFINE digits[k \in Nat] == IF k < 10 THEN <<Digit(k)>> ELSE Append(digits[k \div 10], Digit(k % 10))
           Upto(k) == CHOOSE f : IsDigits(f, k)
           all == [k \in Nat |-> Upto(k)[k]]
<1>1. \A k \in Nat : IsDigits(Upto(k), k)
  BY DigitsExist
<1>2. \A k \in Nat : all[k] = Upto(k)[k]
  OBVIOUS
<1>3. all = [k \in Nat |-> all[k]]
  OBVIOUS
<1> HIDE DEF Upto, all
<1>4. ASSUME NEW k \in Nat PROVE all[k] = NextDigits(all, k)
  <2>1. Upto(k)[k] = NextDigits(Upto(k), k)
    <3>1. k \in 0..k
      OBVIOUS
    <3> QED
      BY <1>1, <3>1 DEF IsDigits
  <2>2. ASSUME k >= 10 PROVE Upto(k)[k \div 10] = all[k \div 10]
    <3>1. k \div 10 \in Nat /\ k \div 10 <= k
      BY <2>2, TenthIsLess
    <3>2. Upto(k)[k \div 10] = Upto(k \div 10)[k \div 10]
      <4> DEFINE tenth == k \div 10
      <4>1. tenth \in Nat /\ tenth <= k /\ tenth <= tenth
        BY <3>1
      <4> HIDE DEF tenth
      <4>2. Upto(k)[tenth] = Upto(tenth)[tenth]
        BY <1>1, <4>1, DigitsAgree
      <4> QED
        BY <4>2 DEF tenth
    <3> QED
      BY <1>2, <3>1, <3>2
  <2>3. NextDigits(Upto(k), k) = NextDigits(all, k)
    BY <2>2, OnlyLesserMatter
  <2> QED
    BY <1>2, <2>1, <2>3
<1>5. all = [k \in Nat |-> NextDigits(all, k)]
  BY <1>3, <1>4
<1>6. all = [k \in Nat |-> IF k < 10 THEN <<Digit(k)>> ELSE Append(all[k \div 10], Digit(k % 10))]
  BY <1>5 DEF NextDigits
<1>7. digits = CHOOSE f : f = [k \in Nat |-> IF k < 10 THEN <<Digit(k)>> ELSE Append(f[k \div 10], Digit(k % 10))]
  OBVIOUS
<1>8. digits = [k \in Nat |-> IF k < 10 THEN <<Digit(k)>> ELSE Append(digits[k \div 10], Digit(k % 10))]
  BY <1>6, <1>7
<1>9. \A n : Decimal(n) = digits[n]
  BY DEF Decimal
<1> HIDE DEF digits
<1> TAKE n \in Nat
<1>10. digits[n] = IF n < 10 THEN <<Digit(n)>> ELSE Append(digits[n \div 10], Digit(n % 10))
  BY <1>8
<1> QED
  BY <1>9, <1>10

\* Digits, at least one, and no others the same.
Figures == 48..57

LEMMA DecimalIsFigures == \A n \in Nat : Decimal(n) \in Seq(Figures) /\ Len(Decimal(n)) \in Nat /\ Len(Decimal(n)) # 0
<1> DEFINE Good(n) == Decimal(n) \in Seq(Figures) /\ Len(Decimal(n)) \in Nat /\ Len(Decimal(n)) # 0
           S == {last \in Nat : \A n \in 0..last : Good(n)}
<1>1. \A n \in Nat : n < 10 => Good(n)
  <2> TAKE n \in Nat
  <2> HAVE n < 10
  <2>1. Decimal(n) = <<Digit(n)>> /\ Digit(n) \in Figures
    BY DecimalIs DEF Digit, Figures
  <2> QED
    BY <2>1
<1>2. 0 \in S
  BY <1>1
<1>3. ASSUME NEW last \in Nat, last \in S PROVE last + 1 \in S
  <2> SUFFICES ASSUME NEW n \in 0..(last + 1) PROVE Good(n)
    OBVIOUS
  <2>1. CASE n < 10
    BY <1>1, <2>1
  <2>2. CASE n >= 10
    <3>1. n \div 10 \in 0..last /\ n % 10 \in 0..9
      BY <2>2, TenthIsLess
    <3>2. Good(n \div 10)
      BY <1>3, <3>1
    <3>3. Decimal(n) = Append(Decimal(n \div 10), Digit(n % 10))
      BY <2>2, DecimalIs
    <3>4. Digit(n % 10) \in Figures
      BY <3>1 DEF Digit, Figures
    <3> DEFINE tens == Decimal(n \div 10)
               one == Digit(n % 10)
    <3>5. tens \in Seq(Figures) /\ one \in Figures /\ Decimal(n) = Append(tens, one)
      BY <3>2, <3>3, <3>4
    <3> HIDE DEF tens, one
    <3> QED
      BY <3>5
  <2> QED
    BY <2>1, <2>2
<1> HIDE DEF S
<1>4. \A last \in Nat : last \in S
  BY <1>2, <1>3, Induction
<1> TAKE n \in Nat
<1>5. n \in S /\ n \in 0..n
  BY <1>4
<1> QED
  BY <1>5 DEF S

-----------------------------------------------------------------------------

(***************************************************************************)
(* Names.                                                                  *)
(***************************************************************************)

Octet == 0..255

\* A text of two, three or four characters.
IsTwo(text, a, b) == text \in Written /\ Len(text) = 2 /\ text[1] = a /\ text[2] = b
IsThree(text, a, b, c) ==
    text \in Written /\ Len(text) = 3 /\ text[1] = a /\ text[2] = b /\ text[3] = c
IsFour(text, a, b, c, d) ==
    text \in Written /\ Len(text) = 4 /\ text[1] = a /\ text[2] = b /\ text[3] = c /\ text[4] = d

LEMMA Joined ==
    ASSUME NEW a \in Written, NEW b \in Written
    PROVE  /\ a \o b \in Written
           /\ Len(a \o b) = Len(a) + Len(b)
           /\ \A i \in 1..Len(a) : (a \o b)[i] = a[i]
           /\ \A i \in 1..Len(b) : (a \o b)[Len(a) + i] = b[i]
<1>1. a \in Seq(Nat) /\ b \in Seq(Nat)
  BY DEF Written
<1>2. a \o b \in Seq(Nat)
  BY <1>1
<1>3. Len(a \o b) = Len(a) + Len(b)
  BY <1>1
<1>4. \A i \in 1..Len(a) : (a \o b)[i] = a[i]
  BY <1>1
<1>5. \A i \in 1..Len(b) : (a \o b)[Len(a) + i] = b[i]
  BY <1>1
<1> QED
  BY <1>2, <1>3, <1>4, <1>5 DEF Written

LEMMA OneMore ==
    ASSUME NEW a \in Written, NEW c \in Nat
    PROVE  /\ Append(a, c) \in Written
           /\ Len(Append(a, c)) = Len(a) + 1
           /\ \A i \in 1..Len(a) : Append(a, c)[i] = a[i]
           /\ Append(a, c)[Len(a) + 1] = c
<1>1. a \in Seq(Nat)
  BY DEF Written
<1> QED
  BY <1>1, AppendProperties DEF Written

\* What is written of one byte.
AsItIs(text, byte) == text = <<byte>> /\ byte \notin {Dot, Backslash}
Escaped(text, byte) == text = <<Backslash, byte>> /\ byte \in {Dot, Backslash, Quote}
Numbered(text, byte) ==
    IsFour(text, Backslash, Digit(byte \div 100), Digit((byte \div 10) % 10), Digit(byte % 10))

LEMMA TwoFigures ==
    ASSUME NEW n \in Nat, n >= 10, n < 100
    PROVE  IsTwo(Decimal(n), Digit(n \div 10), Digit(n % 10))
<1> DEFINE a == Digit(n \div 10)
           b == Digit(n % 10)
<1>1. n \div 10 < 10 /\ n \div 10 \in Nat
  OBVIOUS
<1>2. Decimal(n \div 10) = <<a>>
  BY <1>1, DecimalIs
<1>3. Decimal(n) = Append(<<a>>, b)
  <2>1. Decimal(n) = Append(Decimal(n \div 10), b)
    BY DecimalIs
  <2> QED
    BY <1>2, <2>1
<1>4. a \in Nat /\ b \in Nat
  BY <1>1 DEF Digit
<1> HIDE DEF a, b
<1>5. IsTwo(Append(<<a>>, b), a, b)
  <2>1. <<a>> \in Seq(Nat) /\ Len(<<a>>) = 1 /\ <<a>>[1] = a
    BY <1>4
  <2> QED
    BY <1>4, <2>1, AppendProperties DEF IsTwo, Written
<1> QED
  BY <1>3, <1>5 DEF a, b

LEMMA ThreeFigures ==
    ASSUME NEW n \in Nat, n >= 100, n < 1000
    PROVE  IsThree(Decimal(n), Digit(n \div 100), Digit((n \div 10) % 10), Digit(n % 10))
<1> DEFINE tens == n \div 10
           c == Digit(n % 10)
<1>1. tens \in Nat /\ tens >= 10 /\ tens < 100 /\ tens \div 10 = n \div 100
  OBVIOUS
<1>2. Decimal(n) = Append(Decimal(tens), c)
  BY DecimalIs
<1>3. c \in Nat
  BY DEF Digit
<1> HIDE DEF tens, c
<1>4. IsTwo(Decimal(tens), Digit(tens \div 10), Digit(tens % 10))
  BY <1>1, TwoFigures
<1>5. IsThree(Append(Decimal(tens), c), Digit(tens \div 10), Digit(tens % 10), c)
  <2> DEFINE two == Decimal(tens)
             a == Digit(tens \div 10)
             b == Digit(tens % 10)
  <2>1. two \in Seq(Nat) /\ Len(two) = 2 /\ two[1] = a /\ two[2] = b
    BY <1>4 DEF IsTwo, Written
  <2> HIDE DEF two, a, b
  <2>2. IsThree(Append(two, c), a, b, c)
    <3>1. two \in Written
      BY <2>1 DEF Written
    <3>2. /\ Append(two, c) \in Written
          /\ Len(Append(two, c)) = 3
          /\ Append(two, c)[1] = two[1] /\ Append(two, c)[2] = two[2] /\ Append(two, c)[3] = c
      <4> DEFINE longer == Append(two, c)
      <4>1. /\ longer \in Written
            /\ Len(longer) = Len(two) + 1
            /\ \A i \in 1..Len(two) : longer[i] = two[i]
            /\ longer[Len(two) + 1] = c
        BY <1>3, <3>1, OneMore
      <4> HIDE DEF longer
      <4>2. Len(longer) = 3 /\ longer[1] = two[1] /\ longer[2] = two[2] /\ longer[3] = c
        BY <2>1, <4>1
      <4> QED
        BY <4>1, <4>2 DEF longer
    <3> QED
      BY <2>1, <3>2 DEF IsThree
  <2> QED
    BY <2>2 DEF two, a, b
<1>6. IsThree(Decimal(n), Digit(tens \div 10), Digit(tens % 10), c)
  BY <1>2, <1>5
<1>7. IsThree(Decimal(n), Digit(n \div 100), Digit(tens % 10), c)
  BY <1>1, <1>6
<1> QED
  BY <1>7 DEF tens, c

LEMMA FiguresAreBytes == Seq(Figures) \subseteq Written /\ \A n \in Nat : Decimal(n) \in Written
<1>1. ASSUME NEW text \in Seq(Figures) PROVE text \in Written
  <2>1. Figures \subseteq Nat
    BY DEF Figures
  <2>2. text \in [1..Len(text) -> Figures] /\ Len(text) \in Nat
    OBVIOUS
  <2>3. text \in [1..Len(text) -> Nat]
    BY <2>1, <2>2
  <2>4. text \in Seq(Nat)
    BY <2>2, <2>3
  <2> QED
    BY <2>4 DEF Written
<1> QED
  BY <1>1, DecimalIsFigures

\* Zeroes before a number that is too short.
LEMMA PaddedWith ==
    ASSUME NEW width \in Nat, NEW n \in Nat
    PROVE  LET text == AtLeastDigits(width, n)
               digits == Decimal(n)
               zeroes == IF Len(digits) < width THEN width - Len(digits) ELSE 0
           IN  /\ text \in Seq(Figures)
               /\ Len(text) = zeroes + Len(digits)
               /\ \A i \in 1..zeroes : text[i] = Digit(0)
               /\ \A i \in 1..Len(digits) : text[zeroes + i] = digits[i]
<1> DEFINE digits == Decimal(n)
           zeroes == IF Len(digits) < width THEN width - Len(digits) ELSE 0
           before == [i \in 1..zeroes |-> Digit(0)]
<1>1. AtLeastDigits(width, n) = before \o digits
  BY DEF AtLeastDigits
<1>2. digits \in Seq(Figures) /\ Len(digits) \in Nat
  BY DecimalIsFigures
<1> HIDE DEF digits
<1>3. zeroes \in Nat
  BY <1>2
<1> HIDE DEF zeroes
<1>4. Digit(0) \in Figures
  BY DEF Digit, Figures
<1>5. before \in Seq(Figures) /\ Len(before) = zeroes /\ \A i \in 1..zeroes : before[i] = Digit(0)
  BY <1>3, <1>4
<1> HIDE DEF before
<1>6. /\ before \o digits \in Seq(Figures)
      /\ Len(before \o digits) = zeroes + Len(digits)
      /\ \A i \in 1..zeroes : (before \o digits)[i] = Digit(0)
      /\ \A i \in 1..Len(digits) : (before \o digits)[zeroes + i] = digits[i]
  <2>1. before \o digits \in Seq(Figures)
    BY <1>2, <1>5
  <2>2. before \in Written /\ digits \in Written
    BY <1>2, <1>5, FiguresAreBytes
  <2> QED
    BY <1>5, <2>1, <2>2, Joined
<1> QED
  BY <1>1, <1>6, Zenon DEF digits, zeroes

LEMMA ThreeDigits ==
    ASSUME NEW byte \in Octet
    PROVE  IsThree(AtLeastDigits(3, byte), Digit(byte \div 100), Digit((byte \div 10) % 10), Digit(byte % 10))
<1> DEFINE text == AtLeastDigits(3, byte)
           digits == Decimal(byte)
           zeroes == IF Len(digits) < 3 THEN 3 - Len(digits) ELSE 0
<1>0. byte \in Nat /\ byte <= 255
  BY DEF Octet
<1>1. /\ text \in Written
      /\ Len(text) = zeroes + Len(digits)
      /\ \A i \in 1..zeroes : text[i] = Digit(0)
      /\ \A i \in 1..Len(digits) : text[zeroes + i] = digits[i]
  <2>1. 3 \in Nat
    OBVIOUS
  <2> QED
    BY <1>0, <2>1, PaddedWith, FiguresAreBytes, Zenon
<1>2. CASE byte < 10
  <2>1. digits = <<Digit(byte)>>
    BY <1>0, <1>2, DecimalIs
  <2>2. byte \div 100 = 0 /\ (byte \div 10) % 10 = 0 /\ byte % 10 = byte
    BY <1>0, <1>2
  <2>3. Len(digits) = 1 /\ digits[1] = Digit(byte)
    BY <2>1
  <2> HIDE DEF text, digits
  <2>4. Len(text) = 3 /\ text[1] = Digit(0) /\ text[2] = Digit(0) /\ text[3] = Digit(byte)
    BY <1>1, <2>3
  <2> QED
    BY <1>1, <2>2, <2>4 DEF IsThree, text
<1>3. CASE byte >= 10 /\ byte < 100
  <2>1. byte \div 100 = 0 /\ (byte \div 10) % 10 = byte \div 10
    BY <1>0, <1>3
  <2>2. Len(digits) = 2 /\ digits[1] = Digit(byte \div 10) /\ digits[2] = Digit(byte % 10)
    BY <1>0, <1>3, TwoFigures DEF IsTwo
  <2> HIDE DEF text, digits
  <2>3. Len(text) = 3 /\ text[1] = Digit(0) /\ text[2] = Digit(byte \div 10) /\ text[3] = Digit(byte % 10)
    BY <1>1, <2>2
  <2> QED
    BY <1>1, <2>1, <2>3 DEF IsThree, text
<1>4. CASE byte >= 100
  <2>1. /\ Len(digits) = 3 /\ digits[1] = Digit(byte \div 100)
        /\ digits[2] = Digit((byte \div 10) % 10) /\ digits[3] = Digit(byte % 10)
    BY <1>0, <1>4, ThreeFigures DEF IsThree
  <2> HIDE DEF text, digits
  <2>2. Len(text) = 3 /\ text[1] = digits[1] /\ text[2] = digits[2] /\ text[3] = digits[3]
    BY <1>1, <2>1
  <2> QED
    BY <1>1, <2>1, <2>2 DEF IsThree, text
<1> QED
  BY <1>0, <1>2, <1>3, <1>4

LEMMA NameByteIs ==
    ASSUME NEW byte \in Octet
    PROVE  LET text == NameByte(byte) IN
           AsItIs(text, byte) \/ Escaped(text, byte) \/ Numbered(text, byte)
<1>1. CASE byte \in {Dot, Backslash, Quote}
  BY <1>1 DEF NameByte, Escaped
<1>2. CASE byte \notin {Dot, Backslash, Quote} /\ byte \in 33..126
  BY <1>2 DEF NameByte, AsItIs
<1>3. CASE byte \notin {Dot, Backslash, Quote} /\ byte \notin 33..126
  <2> DEFINE a == Digit(byte \div 100)
             b == Digit((byte \div 10) % 10)
             c == Digit(byte % 10)
             number == AtLeastDigits(3, byte)
  <2>1. NameByte(byte) = <<Backslash>> \o number
    BY <1>3 DEF NameByte
  <2>2. IsThree(number, a, b, c)
    BY ThreeDigits
  <2> HIDE DEF a, b, c, number
  <2>3. IsFour(<<Backslash>> \o number, Backslash, a, b, c)
    <3>1. <<Backslash>> \in Seq(Nat) /\ Len(<<Backslash>>) = 1 /\ <<Backslash>>[1] = Backslash
      BY DEF Backslash
    <3>2. number \in Seq(Nat) /\ Len(number) = 3 /\ number[1] = a /\ number[2] = b /\ number[3] = c
      BY <2>2 DEF IsThree, Written
    <3> DEFINE one == <<Backslash>>
    <3> HIDE DEF one
    <3>3. /\ one \o number \in Seq(Nat) /\ Len(one \o number) = 4
          /\ (one \o number)[1] = one[1]
          /\ (one \o number)[2] = number[1] /\ (one \o number)[3] = number[2]
          /\ (one \o number)[4] = number[3]
      <4>1. one \in Seq(Nat) /\ Len(one) = 1
        BY <3>1 DEF one
      <4> QED
        <5>1. one \in Written /\ number \in Written
          BY <3>2, <4>1 DEF Written
        <5>2. /\ one \o number \in Written
              /\ Len(one \o number) = Len(one) + Len(number)
              /\ \A i \in 1..Len(one) : (one \o number)[i] = one[i]
              /\ \A i \in 1..Len(number) : (one \o number)[Len(one) + i] = number[i]
          BY <5>1, Joined
        <5> DEFINE all == one \o number
        <5>3. /\ Len(all) = Len(one) + Len(number)
              /\ \A i \in 1..Len(one) : all[i] = one[i]
              /\ \A i \in 1..Len(number) : all[Len(one) + i] = number[i]
          BY <5>2
        <5> HIDE DEF all
        <5>4. Len(all) = 4 /\ all[1] = one[1] /\ all[2] = number[1] /\ all[3] = number[2] /\ all[4] = number[3]
          BY <3>2, <4>1, <5>3
        <5> QED
          BY <5>2, <5>4 DEF all, Written
    <3> QED
      BY <3>1, <3>2, <3>3 DEF IsFour, Written, one
  <2> QED
    BY <2>1, <2>3 DEF Numbered, a, b, c
<1> QED
  BY <1>1, <1>2, <1>3

\* The first character of a byte is never a dot.
LEMMA NameByteText ==
    ASSUME NEW byte \in Octet
    PROVE  /\ NameByte(byte) \in Written
           /\ Len(NameByte(byte)) # 0
           /\ NameByte(byte)[1] # Dot
<1> DEFINE text == NameByte(byte)
<1>0. AsItIs(text, byte) \/ Escaped(text, byte) \/ Numbered(text, byte)
  BY NameByteIs
<1>1. byte \in Nat /\ Digit(byte \div 100) \in Nat /\ Digit((byte \div 10) % 10) \in Nat /\ Digit(byte % 10) \in Nat
  BY DEF Octet, Digit
<1> HIDE DEF text
<1>2. CASE AsItIs(text, byte)
  BY <1>1, <1>2 DEF AsItIs, text, Written
<1>3. CASE Escaped(text, byte)
  BY <1>1, <1>3 DEF Escaped, text, Written, Backslash, Dot
<1>4. CASE Numbered(text, byte)
  BY <1>1, <1>4 DEF Numbered, IsFour, text, Backslash, Dot
<1> QED
  BY <1>0, <1>2, <1>3, <1>4

\* What two bytes are written as cannot stand at one place.
LEMMA ByteAtPlace ==
    ASSUME NEW x \in Octet, NEW y \in Octet, NEW text \in Written, NEW at \in Nat,
           Stands(text, at, NameByte(x)), Stands(text, at, NameByte(y))
    PROVE  x = y
<1>1. ASSUME NEW byte \in Octet, Stands(text, at, NameByte(byte))
      PROVE  \/ text[at + 1] = byte /\ byte # Backslash
             \/ text[at + 1] = Backslash /\ text[at + 2] = byte /\ byte \in {Dot, Backslash, Quote}
             \/ /\ text[at + 1] = Backslash /\ text[at + 2] = Digit(byte \div 100)
                /\ text[at + 3] = Digit((byte \div 10) % 10) /\ text[at + 4] = Digit(byte % 10)
  <2> DEFINE part == NameByte(byte)
  <2>0. AsItIs(part, byte) \/ Escaped(part, byte) \/ Numbered(part, byte)
    BY NameByteIs
  <2>1. \A k \in 1..Len(part) : text[at + k] = part[k]
    BY <1>1 DEF Stands
  <2> HIDE DEF part
  <2>2. CASE AsItIs(part, byte)
    <3>1. Len(part) = 1 /\ part[1] = byte /\ byte # Backslash
      BY <2>2 DEF AsItIs
    <3> QED
      BY <2>1, <3>1
  <2>3. CASE Escaped(part, byte)
    <3>1. Len(part) = 2 /\ part[1] = Backslash /\ part[2] = byte /\ byte \in {Dot, Backslash, Quote}
      BY <2>3 DEF Escaped
    <3>2. text[at + 1] = part[1] /\ text[at + 2] = part[2]
      BY <2>1, <3>1
    <3> QED
      BY <3>1, <3>2
  <2>4. CASE Numbered(part, byte)
    <3>1. /\ Len(part) = 4 /\ part[1] = Backslash /\ part[2] = Digit(byte \div 100)
          /\ part[3] = Digit((byte \div 10) % 10) /\ part[4] = Digit(byte % 10)
      BY <2>4 DEF Numbered, IsFour
    <3>2. text[at + 1] = part[1] /\ text[at + 2] = part[2] /\ text[at + 3] = part[3] /\ text[at + 4] = part[4]
      BY <2>1, <3>1
    <3> QED
      BY <3>1, <3>2
  <2> QED
    BY <2>0, <2>2, <2>3, <2>4
<1>2. /\ x \in Nat /\ x < 256 /\ y \in Nat /\ y < 256
      /\ Digit(x \div 100) \notin {Dot, Backslash, Quote} /\ Digit(y \div 100) \notin {Dot, Backslash, Quote}
  BY DEF Octet, Digit, Dot, Backslash, Quote
<1>3. ASSUME Digit(x \div 100) = Digit(y \div 100), Digit((x \div 10) % 10) = Digit((y \div 10) % 10),
             Digit(x % 10) = Digit(y % 10)
      PROVE  x = y
  <2>1. x \div 100 = y \div 100 /\ (x \div 10) % 10 = (y \div 10) % 10 /\ x % 10 = y % 10
    BY <1>2, <1>3 DEF Digit
  <2> QED
    BY <1>2, <2>1
<1> DEFINE one == text[at + 1]
           two == text[at + 2]
           three == text[at + 3]
           four == text[at + 4]
<1>4. \/ one = x /\ x # Backslash
      \/ one = Backslash /\ two = x /\ x \in {Dot, Backslash, Quote}
      \/ /\ one = Backslash /\ two = Digit(x \div 100)
         /\ three = Digit((x \div 10) % 10) /\ four = Digit(x % 10)
  BY <1>1
<1>5. \/ one = y /\ y # Backslash
      \/ one = Backslash /\ two = y /\ y \in {Dot, Backslash, Quote}
      \/ /\ one = Backslash /\ two = Digit(y \div 100)
         /\ three = Digit((y \div 10) % 10) /\ four = Digit(y % 10)
  BY <1>1
<1> HIDE DEF one, two, three, four
<1> QED
  BY <1>2, <1>3, <1>4, <1>5, Zenon

NameCode == {NameByte(byte) : byte \in Octet}

LEMMA NameCodeIsOne == IsCode(NameCode)
<1>1. NameCode \subseteq Written /\ \A c \in NameCode : Len(c) # 0
  BY NameByteText DEF NameCode
<1>2. ASSUME NEW text \in Written, NEW at \in Nat, NEW c \in NameCode, NEW d \in NameCode,
             Stands(text, at, c), Stands(text, at, d)
      PROVE  c = d
  <2>1. PICK x \in Octet : c = NameByte(x)
    BY DEF NameCode
  <2>2. PICK y \in Octet : d = NameByte(y)
    BY DEF NameCode
  <2> QED
    BY <1>2, <2>1, <2>2, ByteAtPlace
<1> QED
  BY <1>1, <1>2 DEF IsCode

BytesShown(label) == [i \in DOMAIN label |-> NameByte(label[i])]

LEMMA BytesShownAre ==
    ASSUME NEW label \in Seq(Octet)
    PROVE  /\ BytesShown(label) \in Seq(NameCode) /\ BytesShown(label) \in Seq(Written)
           /\ Len(BytesShown(label)) = Len(label)
           /\ \A i \in 1..Len(label) : BytesShown(label)[i] = NameByte(label[i]) /\ label[i] \in Octet
           /\ FlattenSeq(BytesShown(label)) \in Written
           /\ Segment(label) = Append(FlattenSeq(BytesShown(label)), Dot)
<1>1. DOMAIN label = 1..Len(label) /\ Len(label) \in Nat /\ \A i \in 1..Len(label) : label[i] \in Octet
  OBVIOUS
<1>2. \A i \in 1..Len(label) : NameByte(label[i]) \in NameCode
  BY <1>1 DEF NameCode
<1>3. BytesShown(label) = [i \in 1..Len(label) |-> NameByte(label[i])]
  BY <1>1 DEF BytesShown
<1> DEFINE codes == BytesShown(label)
<1>4. codes \in [1..Len(label) -> NameCode]
  BY <1>2, <1>3
<1>5. \A i \in 1..Len(label) : codes[i] = NameByte(label[i])
  BY <1>3
<1>6. Segment(label) = Append(FlattenSeq(codes), Dot)
  BY DEF Segment, BytesShown
<1> HIDE DEF codes
<1>7. codes \in Seq(NameCode) /\ Len(codes) = Len(label)
  BY <1>1, <1>4
<1>8. codes \in Seq(Written)
  <2>1. NameCode \subseteq Written
    BY NameCodeIsOne DEF IsCode
  <2>2. codes \in [1..Len(label) -> Written]
    BY <1>4, <2>1
  <2> QED
    BY <1>1, <2>2
<1>9. FlattenSeq(codes) \in Written
  BY <1>8, FlattenedAre
<1> QED
  BY <1>1, <1>5, <1>6, <1>7, <1>8, <1>9 DEF codes

\* A label ends in a dot that is none of its bytes.
LEMMA SegmentStands ==
    ASSUME NEW label \in Seq(Octet), NEW text \in Written, NEW at \in Nat, Stands(text, at, Segment(label))
    PROVE  LET shown == FlattenSeq(BytesShown(label)) IN
           Stands(text, at, shown) /\ Len(shown) \in Nat /\ text[(at + Len(shown)) + 1] = Dot
<1> DEFINE shown == FlattenSeq(BytesShown(label))
           whole == Append(shown, Dot)
<1>1. shown \in Written /\ Stands(text, at, whole)
  <2>1. shown \in Written /\ Segment(label) = whole
    BY BytesShownAre
  <2> QED
    BY <2>1
<1>2. Dot \in Nat
  BY DEF Dot
<1> HIDE DEF shown
<1>3. /\ Len(whole) = Len(shown) + 1
      /\ \A i \in 1..Len(shown) : whole[i] = shown[i]
      /\ whole[Len(shown) + 1] = Dot
  BY <1>1, <1>2, OneMore
<1>4. Len(shown) \in Nat /\ Len(text) \in Nat
  BY <1>1 DEF Written
<1> HIDE DEF whole
<1>5. at + Len(whole) <= Len(text) /\ \A k \in 1..Len(whole) : text[at + k] = whole[k]
  BY <1>1 DEF Stands
<1>6. Stands(text, at, shown)
  <2>1. at + Len(shown) <= Len(text)
    BY <1>3, <1>4, <1>5
  <2>2. \A k \in 1..Len(shown) : text[at + k] = shown[k]
    BY <1>3, <1>4, <1>5
  <2> QED
    BY <2>1, <2>2 DEF Stands
<1>7. text[at + (Len(shown) + 1)] = Dot
  BY <1>3, <1>4, <1>5
<1>8. at + (Len(shown) + 1) = (at + Len(shown)) + 1
  BY <1>4
<1> QED
  BY <1>4, <1>6, <1>7, <1>8 DEF shown

LEMMA NoDotFirst ==
    ASSUME NEW byte \in Octet, NEW text \in Written, NEW at \in Nat, Stands(text, at, NameByte(byte))
    PROVE  text[at + 1] # Dot
<1>1. NameByte(byte) \in Written /\ Len(NameByte(byte)) # 0 /\ NameByte(byte)[1] # Dot
  BY NameByteText
<1>2. 1 \in 1..Len(NameByte(byte))
  BY <1>1 DEF Written
<1>3. text[at + 1] = NameByte(byte)[1]
  BY <1>2 DEF Stands
<1> QED
  BY <1>1, <1>3

LEMMA NoneLonger ==
    ASSUME NEW x \in Seq(Octet), NEW y \in Seq(Octet), NEW text \in Written, NEW at \in Nat,
           Stands(text, at, Segment(x)), Stands(text, at, Segment(y))
    PROVE  ~(Len(x) < Len(y))
<1> DEFINE shown == FlattenSeq(BytesShown(x))
           next == Len(x) + 1
<1>1. Stands(text, at, shown) /\ Len(shown) \in Nat /\ text[(at + Len(shown)) + 1] = Dot
  BY SegmentStands
<1>2. Stands(text, at, FlattenSeq(BytesShown(y)))
  BY SegmentStands
<1> SUFFICES ASSUME Len(x) < Len(y) PROVE FALSE
  OBVIOUS
<1>3. next \in 1..Len(y)
  OBVIOUS
<1>4. /\ BytesShown(x) \in Seq(NameCode) /\ Len(BytesShown(x)) = Len(x)
      /\ BytesShown(y) \in Seq(NameCode) /\ Len(BytesShown(y)) = Len(y)
      /\ \A i \in 1..Len(y) : BytesShown(y)[i] = NameByte(y[i]) /\ y[i] \in Octet
  BY BytesShownAre
<1>5. Stands(text, at + Len(shown), BytesShown(y)[Len(BytesShown(x)) + 1])
  BY <1>1, <1>2, <1>4, OneGoesOn, NameCodeIsOne
<1> HIDE DEF shown
<1>6. Stands(text, at + Len(shown), NameByte(y[next])) /\ y[next] \in Octet
  BY <1>3, <1>4, <1>5
<1>7. at + Len(shown) \in Nat
  BY <1>1
<1> HIDE DEF next
<1>8. text[(at + Len(shown)) + 1] # Dot
  BY <1>6, <1>7, NoDotFirst
<1> QED
  BY <1>1, <1>8

LEMMA LabelAtPlace ==
    ASSUME NEW x \in Seq(Octet), NEW y \in Seq(Octet), NEW text \in Written, NEW at \in Nat,
           Stands(text, at, Segment(x)), Stands(text, at, Segment(y))
    PROVE  x = y
<1>1. Len(x) = Len(y)
  <2>1. ~(Len(x) < Len(y)) /\ ~(Len(y) < Len(x))
    BY NoneLonger
  <2>2. Len(x) \in Nat /\ Len(y) \in Nat
    OBVIOUS
  <2> QED
    BY <2>1, <2>2
<1>2. Stands(text, at, FlattenSeq(BytesShown(x))) /\ Stands(text, at, FlattenSeq(BytesShown(y)))
  BY SegmentStands
<1>3. /\ BytesShown(x) \in Seq(NameCode) /\ Len(BytesShown(x)) = Len(x)
      /\ BytesShown(y) \in Seq(NameCode) /\ Len(BytesShown(y)) = Len(y)
      /\ \A i \in 1..Len(x) : BytesShown(x)[i] = NameByte(x[i]) /\ x[i] \in Octet
      /\ \A i \in 1..Len(y) : BytesShown(y)[i] = NameByte(y[i]) /\ y[i] \in Octet
  BY BytesShownAre
<1>4. \A i \in Nat : i \in 1..Len(x) /\ i \in 1..Len(y) => BytesShown(x)[i] = BytesShown(y)[i]
  BY <1>2, <1>3, OneGoesOn, NameCodeIsOne
<1>5. ASSUME NEW i \in 1..Len(x) PROVE x[i] = y[i]
  <2>1. i \in 1..Len(y) /\ i \in Nat
    BY <1>1
  <2>2. NameByte(x[i]) = NameByte(y[i]) /\ x[i] \in Octet /\ y[i] \in Octet
    BY <1>3, <1>4, <2>1
  <2>3. NameByte(x[i]) \in Written
    BY <2>2, NameByteText
  <2> DEFINE word == NameByte(x[i])
  <2>4. Stands(word, 0, word)
    <3> HIDE DEF word
    <3>1. word \in Written
      BY <2>3 DEF word
    <3> QED
      BY <3>1 DEF Stands, Written
  <2> QED
    BY <2>2, <2>3, <2>4, ByteAtPlace
<1> QED
  BY <1>1, <1>5, SeqEqual

Segments == {Segment(label) : label \in Seq(Octet)}

LEMMA SegmentIs ==
    ASSUME NEW label \in Seq(Octet)
    PROVE  /\ Segment(label) \in Written /\ Len(Segment(label)) # 0
           /\ label # <<>> => Segment(label)[1] # Dot
<1> DEFINE shown == FlattenSeq(BytesShown(label))
<1>1. shown \in Written /\ Segment(label) = Append(shown, Dot)
  BY BytesShownAre
<1>2. Dot \in Nat
  BY DEF Dot
<1>3. ASSUME label # <<>> PROVE Segment(label)[1] # Dot
  <2>1. Len(label) # 0 /\ Len(label) \in Nat
    BY <1>3, EmptySeq
  <2>2. /\ BytesShown(label) \in Seq(Written) /\ Len(BytesShown(label)) = Len(label)
        /\ BytesShown(label)[1] = NameByte(label[1]) /\ label[1] \in Octet
    BY <2>1, BytesShownAre
  <2> DEFINE codes == BytesShown(label)
  <2>3. PICK f : IsFlat(codes, f) /\ FlattenSeq(codes) = f[Len(codes)]
    BY <2>1, <2>2, FlattenIsFlat
  <2>4. Stands(f[Len(codes)], Before(f, 1), codes[1])
    BY <2>1, <2>2, <2>3, PartsStand
  <2>5. Stands(shown, 0, NameByte(label[1]))
    BY <2>2, <2>3, <2>4 DEF Before
  <2>6. shown[0 + 1] # Dot
    BY <1>1, <2>2, <2>5, NoDotFirst
  <2>7. Len(shown) # 0
    <3>1. Len(NameByte(label[1])) # 0 /\ Len(NameByte(label[1])) \in Nat
      BY <2>2, NameByteText DEF Written
    <3> QED
      BY <2>5, <3>1 DEF Stands
  <2> HIDE DEF shown
  <2>8. 1 \in 1..Len(shown)
    BY <1>1, <2>7 DEF Written
  <2>9. Append(shown, Dot)[1] = shown[1]
    BY <1>1, <1>2, <2>8, OneMore
  <2> QED
    BY <1>1, <2>6, <2>9
<1> HIDE DEF shown
<1>4. Append(shown, Dot) \in Written /\ Len(Append(shown, Dot)) = Len(shown) + 1 /\ Len(shown) \in Nat
  BY <1>1, <1>2, OneMore DEF Written
<1>5. Len(Append(shown, Dot)) # 0
  BY <1>4
<1> QED
  BY <1>1, <1>3, <1>4, <1>5

LEMMA SegmentsAreCode == IsCode(Segments)
<1>1. Segments \subseteq Written /\ \A c \in Segments : Len(c) # 0
  BY SegmentIs DEF Segments
<1>2. ASSUME NEW text \in Written, NEW at \in Nat, NEW c \in Segments, NEW d \in Segments,
             Stands(text, at, c), Stands(text, at, d)
      PROVE  c = d
  <2>1. PICK x \in Seq(Octet) : c = Segment(x)
    BY DEF Segments
  <2>2. PICK y \in Seq(Octet) : d = Segment(y)
    BY DEF Segments
  <2> QED
    BY <1>2, <2>1, <2>2, LabelAtPlace
<1> QED
  BY <1>1, <1>2 DEF IsCode

SegmentsOf(list) == [i \in DOMAIN list |-> Segment(list[i])]

LEMMA SegmentsOfAre ==
    ASSUME NEW list \in Seq(Seq(Octet))
    PROVE  /\ SegmentsOf(list) \in Seq(Segments) /\ SegmentsOf(list) \in Seq(Written)
           /\ Len(SegmentsOf(list)) = Len(list)
           /\ \A i \in 1..Len(list) : SegmentsOf(list)[i] = Segment(list[i]) /\ list[i] \in Seq(Octet)
<1>1. DOMAIN list = 1..Len(list) /\ Len(list) \in Nat /\ \A i \in 1..Len(list) : list[i] \in Seq(Octet)
  OBVIOUS
<1>2. \A i \in 1..Len(list) : Segment(list[i]) \in Segments
  BY <1>1 DEF Segments
<1> DEFINE codes == SegmentsOf(list)
<1>3. codes = [i \in 1..Len(list) |-> Segment(list[i])]
  BY <1>1 DEF SegmentsOf
<1>4. codes \in [1..Len(list) -> Segments]
  BY <1>2, <1>3
<1>5. \A i \in 1..Len(list) : codes[i] = Segment(list[i])
  BY <1>3
<1> HIDE DEF codes
<1>6. codes \in Seq(Segments) /\ Len(codes) = Len(list)
  <2> DEFINE n == Len(list)
  <2>1. n \in Nat /\ codes \in [1..n -> Segments]
    BY <1>1, <1>4
  <2> HIDE DEF n
  <2>2. codes \in Seq(Segments) /\ Len(codes) = n
    BY <2>1
  <2> QED
    BY <2>2 DEF n
<1>7. codes \in Seq(Written)
  <2>1. Segments \subseteq Written
    BY SegmentsAreCode DEF IsCode
  <2>2. codes \in [1..Len(list) -> Written]
    BY <1>4, <2>1
  <2> QED
    BY <1>1, <2>2
<1> QED
  BY <1>1, <1>5, <1>6, <1>7 DEF codes

Labels == Seq(Octet) \ {<<>>}

LEMMA NoNameIsTheRoot ==
    ASSUME NEW list \in Seq(Labels), list # <<>>
    PROVE  ShownName(list) # <<Dot>>
<1>1. list \in Seq(Seq(Octet)) /\ Len(list) \in Nat /\ Len(list) # 0
      /\ list[1] \in Seq(Octet) /\ list[1] # <<>>
  <2>1. list \in [1..Len(list) -> Labels] /\ Len(list) \in Nat
    OBVIOUS
  <2>2. Labels \subseteq Seq(Octet)
    BY DEF Labels
  <2>3. list \in [1..Len(list) -> Seq(Octet)]
    BY <2>1, <2>2
  <2>4. Len(list) # 0
    BY EmptySeq
  <2>5. list \in Seq(Seq(Octet))
    BY <2>1, <2>3
  <2>6. list[1] \in Labels
    BY <2>1, <2>4
  <2> QED
    BY <2>1, <2>4, <2>5, <2>6 DEF Labels
<1> DEFINE parts == SegmentsOf(list)
<1>2. parts \in Seq(Written) /\ Len(parts) = Len(list) /\ parts[1] = Segment(list[1])
  BY <1>1, SegmentsOfAre
<1>3. ShownName(list) = FlattenSeq(parts)
  BY DEF ShownName, SegmentsOf
<1>4. PICK f : IsFlat(parts, f) /\ FlattenSeq(parts) = f[Len(parts)]
  BY <1>1, <1>2, FlattenIsFlat
<1>5. Stands(f[Len(parts)], Before(f, 1), parts[1])
  <2>1. Len(parts) \in 1..Len(parts) /\ 1 \in 1..Len(parts)
    BY <1>1, <1>2
  <2> HIDE DEF parts
  <2> QED
    BY <1>2, <1>4, <2>1, PartsStand
<1> DEFINE text == FlattenSeq(parts)
<1>6. Stands(text, 0, parts[1])
  BY <1>4, <1>5 DEF Before
<1> HIDE DEF text
<1>7. parts[1] \in Written /\ Len(parts[1]) # 0 /\ parts[1][1] # Dot
  BY <1>1, <1>2, SegmentIs
<1>8. text[0 + 1] = parts[1][1]
  <2>1. 1 \in 1..Len(parts[1])
    BY <1>7 DEF Written
  <2> QED
    BY <1>6, <2>1 DEF Stands
<1> QED
  BY <1>3, <1>7, <1>8 DEF text

\* No two names are shown alike, whatever bytes there are in their labels, so
\* that what is written of a response says which names it has (the Display of
\* Labels in strings.rs).  A label has a byte at least: an empty one would be
\* the end of the name.
THEOREM NamesAreToldApart ==
    \A name, other \in Seq(Labels) : ShownName(name) = ShownName(other) => name = other
<1> SUFFICES ASSUME NEW name \in Seq(Labels), NEW other \in Seq(Labels), ShownName(name) = ShownName(other)
             PROVE  name = other
  OBVIOUS
<1>1. CASE name = <<>> \/ other = <<>>
  <2>1. ShownName(<<>>) = <<Dot>>
    BY DEF ShownName
  <2> QED
    BY <1>1, <2>1, NoNameIsTheRoot
<1>2. CASE name # <<>> /\ other # <<>>
  <2>1. Labels \subseteq Seq(Octet)
    BY DEF Labels
  <2>2. name \in Seq(Seq(Octet)) /\ other \in Seq(Seq(Octet))
    BY <2>1
  <2>3. ShownName(name) = FlattenSeq(SegmentsOf(name)) /\ ShownName(other) = FlattenSeq(SegmentsOf(other))
    BY <1>2 DEF ShownName, SegmentsOf
  <2>4. SegmentsOf(name) \in Seq(Segments) /\ SegmentsOf(other) \in Seq(Segments)
    BY <2>2, SegmentsOfAre
  <2>5. SegmentsOf(name) = SegmentsOf(other)
    <3>1. FlattenSeq(SegmentsOf(name)) = FlattenSeq(SegmentsOf(other))
      BY <2>3
    <3> QED
      BY <2>4, <3>1, SegmentsAreCode, PutTogetherOnce
  <2>6. /\ Len(name) = Len(other)
        /\ \A i \in 1..Len(name) : /\ Segment(name[i]) = Segment(other[i])
                                  /\ name[i] \in Seq(Octet) /\ other[i] \in Seq(Octet)
    <3>1. /\ Len(SegmentsOf(name)) = Len(name)
          /\ \A i \in 1..Len(name) : SegmentsOf(name)[i] = Segment(name[i]) /\ name[i] \in Seq(Octet)
      BY <2>2, SegmentsOfAre
    <3>2. /\ Len(SegmentsOf(other)) = Len(other)
          /\ \A i \in 1..Len(other) : SegmentsOf(other)[i] = Segment(other[i]) /\ other[i] \in Seq(Octet)
      BY <2>2, SegmentsOfAre
    <3> QED
      BY <2>5, <3>1, <3>2
  <2>7. ASSUME NEW i \in 1..Len(name) PROVE name[i] = other[i]
    <3> DEFINE text == Segment(name[i])
    <3>1. text \in Written /\ text = Segment(other[i])
      BY <2>6, SegmentIs
    <3>2. Stands(text, 0, text)
      <4> HIDE DEF text
      <4> QED
        BY <3>1 DEF Stands, Written
    <3>3. Stands(text, 0, Segment(name[i])) /\ Stands(text, 0, Segment(other[i]))
      BY <3>1, <3>2
    <3> HIDE DEF text
    <3> QED
      BY <2>6, <3>1, <3>3, LabelAtPlace
  <2> QED
    BY <2>2, <2>6, <2>7, SeqEqual
<1> QED
  BY <1>1, <1>2

-----------------------------------------------------------------------------

(***************************************************************************)
(* Durations.                                                              *)
(***************************************************************************)

LEMMA DecimalTellsApart == \A m, n \in Nat : Decimal(m) = Decimal(n) => m = n
<1> DEFINE S == {last \in Nat : \A m \in 0..last, n \in Nat : Decimal(m) = Decimal(n) => m = n}
<1>1. ASSUME NEW n \in Nat PROVE n < 10 => Len(Decimal(n)) = 1 /\ Decimal(n)[1] = Digit(n)
  <2>1. n < 10 => Decimal(n) = <<Digit(n)>>
    BY DecimalIs
  <2> QED
    BY <2>1
<1>2. ASSUME NEW n \in Nat, n >= 10
      PROVE  /\ Decimal(n) = Append(Decimal(n \div 10), Digit(n % 10))
             /\ n \div 10 \in Nat /\ Len(Decimal(n)) >= 2
             /\ Decimal(n \div 10) \in Seq(Nat) /\ Digit(n % 10) \in Nat
  <2>1. n \div 10 \in Nat /\ Digit(n % 10) \in Nat
    BY TenthIsLess DEF Digit
  <2>2. Decimal(n) = Append(Decimal(n \div 10), Digit(n % 10))
    BY <1>2, DecimalIs
  <2> DEFINE tens == Decimal(n \div 10)
  <2>3. tens \in Written /\ Len(tens) \in Nat /\ Len(tens) # 0
    BY <2>1, FiguresAreBytes, DecimalIsFigures
  <2> HIDE DEF tens
  <2>4. Len(Append(tens, Digit(n % 10))) = Len(tens) + 1
    BY <2>1, <2>3, OneMore
  <2>5. Len(Append(tens, Digit(n % 10))) >= 2
    BY <2>3, <2>4
  <2> QED
    BY <2>1, <2>2, <2>3, <2>5 DEF tens, Written
<1>3. ASSUME NEW m \in Nat, NEW n \in Nat, m < 10, Decimal(m) = Decimal(n)
      PROVE  m = n
  <2>1. n < 10
    <3> SUFFICES ASSUME n >= 10 PROVE FALSE
      OBVIOUS
    <3>1. Len(Decimal(n)) >= 2
      BY <1>2
    <3>2. Len(Decimal(m)) = 1
      BY <1>1, <1>3
    <3> HIDE DEF S
    <3>3. Len(Decimal(n)) = 1
      BY <1>3, <3>2
    <3> QED
      BY <3>1, <3>3
  <2>2. Digit(m) = Digit(n)
    <3>1. Decimal(m)[1] = Digit(m)
      BY <1>1, <1>3
    <3>2. Decimal(n)[1] = Digit(n)
      BY <1>1, <2>1
    <3> QED
      BY <1>3, <3>1, <3>2
  <2> QED
    BY <2>2 DEF Digit
<1>4. 0 \in S
  BY <1>3
<1>5. ASSUME NEW last \in Nat, last \in S PROVE last + 1 \in S
  <2> SUFFICES ASSUME NEW m \in 0..(last + 1), NEW n \in Nat, Decimal(m) = Decimal(n) PROVE m = n
    OBVIOUS
  <2>1. CASE m < 10 \/ n < 10
    BY <1>3, <2>1
  <2>2. CASE m >= 10 /\ n >= 10
    <3>1. Append(Decimal(m \div 10), Digit(m % 10)) = Append(Decimal(n \div 10), Digit(n % 10))
      <4>0. m \in Nat
        OBVIOUS
      <4>1. Decimal(m) = Append(Decimal(m \div 10), Digit(m % 10))
        BY <1>2, <2>2, <4>0
      <4>2. Decimal(n) = Append(Decimal(n \div 10), Digit(n % 10))
        BY <1>2, <2>2
      <4> QED
        BY <4>1, <4>2
    <3>2. Decimal(m \div 10) = Decimal(n \div 10) /\ Digit(m % 10) = Digit(n % 10)
      <4>1. /\ Decimal(m \div 10) \in Seq(Nat) /\ Digit(m % 10) \in Nat
            /\ Decimal(n \div 10) \in Seq(Nat) /\ Digit(n % 10) \in Nat
        BY <1>2, <2>2
      <4> DEFINE a == Decimal(m \div 10)
                 b == Decimal(n \div 10)
                 c == Digit(m % 10)
                 d == Digit(n % 10)
      <4>2. a \in Seq(Nat) /\ b \in Seq(Nat) /\ c \in Nat /\ d \in Nat /\ Append(a, c) = Append(b, d)
        BY <3>1, <4>1
      <4> HIDE DEF a, b, c, d
      <4>3. a = b /\ c = d
        BY <4>2, AppendInjective
      <4> QED
        BY <4>3 DEF a, b, c, d
    <3>3. m \div 10 \in 0..last /\ n \div 10 \in Nat
      BY <2>2, TenthIsLess
    <3>4. m \div 10 = n \div 10
      BY <1>5, <3>2, <3>3
    <3>5. m % 10 = n % 10
      BY <3>2 DEF Digit
    <3> QED
      BY <3>4, <3>5
  <2> QED
    BY <2>1, <2>2
<1> HIDE DEF S
<1>6. \A last \in Nat : last \in S
  BY <1>4, <1>5, Induction
<1> TAKE m, n \in Nat
<1>7. m \in S /\ m \in 0..m
  BY <1>6
<1> QED
  BY <1>7 DEF S

LEMMA TwoDigits ==
    ASSUME NEW n \in 0..59
    PROVE  IsTwo(AtLeastDigits(2, n), Digit(n \div 10), Digit(n % 10))
<1> DEFINE text == AtLeastDigits(2, n)
           digits == Decimal(n)
           zeroes == IF Len(digits) < 2 THEN 2 - Len(digits) ELSE 0
<1>1. /\ text \in Written
      /\ Len(text) = zeroes + Len(digits)
      /\ \A i \in 1..zeroes : text[i] = Digit(0)
      /\ \A i \in 1..Len(digits) : text[zeroes + i] = digits[i]
  <2>1. 2 \in Nat /\ n \in Nat
    OBVIOUS
  <2> QED
    BY <2>1, PaddedWith, FiguresAreBytes, Zenon
<1>2. CASE n < 10
  <2>1. digits = <<Digit(n)>>
    BY <1>2, DecimalIs
  <2>2. n \div 10 = 0 /\ n % 10 = n
    BY <1>2
  <2>3. Len(digits) = 1 /\ digits[1] = Digit(n)
    BY <2>1
  <2> HIDE DEF text, digits
  <2>4. Len(text) = 2 /\ text[1] = Digit(0) /\ text[2] = Digit(n)
    BY <1>1, <2>3
  <2> QED
    BY <1>1, <2>2, <2>4 DEF IsTwo, text
<1>3. CASE n >= 10
  <2>1. Len(digits) = 2 /\ digits[1] = Digit(n \div 10) /\ digits[2] = Digit(n % 10)
    BY <1>3, TwoFigures DEF IsTwo
  <2> HIDE DEF text, digits
  <2>2. Len(text) = 2 /\ text[1] = digits[1] /\ text[2] = digits[2]
    BY <1>1, <2>1
  <2> QED
    BY <1>1, <2>1, <2>2 DEF IsTwo, text
<1> QED
  BY <1>2, <1>3

LEMMA TwoDigitsTellApart ==
    ASSUME NEW m \in 0..59, NEW n \in 0..59, AtLeastDigits(2, m) = AtLeastDigits(2, n)
    PROVE  m = n
<1>1. Digit(m \div 10) = Digit(n \div 10) /\ Digit(m % 10) = Digit(n % 10)
  BY TwoDigits DEF IsTwo
<1>2. m \div 10 = n \div 10 /\ m % 10 = n % 10
  BY <1>1 DEF Digit
<1> QED
  BY <1>2

\* A number and its unit.
Letters == {100, 104, 109, 115}
Counted(digits, letter) == digits \o <<letter>>

LEMMA CountedIs ==
    ASSUME NEW digits \in Seq(Figures), NEW letter \in Letters
    PROVE  /\ Counted(digits, letter) \in Written /\ Len(Counted(digits, letter)) = Len(digits) + 1
           /\ \A i \in 1..Len(digits) : Counted(digits, letter)[i] = digits[i] /\ digits[i] \in Figures
           /\ Counted(digits, letter)[Len(digits) + 1] = letter /\ letter \notin Figures
<1>1. digits \in Written /\ letter \in Nat /\ letter \notin Figures
  BY FiguresAreBytes DEF Letters, Figures
<1> DEFINE one == <<letter>>
<1>2. one \in Written /\ Len(one) = 1 /\ one[1] = letter
  BY <1>1 DEF Written
<1> HIDE DEF one
<1> DEFINE both == digits \o one
<1>3. /\ both \in Written /\ Len(both) = Len(digits) + Len(one)
      /\ \A i \in 1..Len(digits) : both[i] = digits[i]
      /\ \A i \in 1..Len(one) : both[Len(digits) + i] = one[i]
  BY <1>1, <1>2, Joined
<1>4. both = Counted(digits, letter)
  BY DEF Counted, one
<1> HIDE DEF both
<1>5. \A i \in 1..Len(digits) : digits[i] \in Figures
  OBVIOUS
<1> QED
  BY <1>1, <1>2, <1>3, <1>4, <1>5

LEMMA NoMoreFigures ==
    ASSUME NEW x \in Seq(Figures), NEW y \in Seq(Figures), NEW u \in Letters, NEW v \in Letters,
           NEW text, Stands(text, 0, Counted(x, u)), Stands(text, 0, Counted(y, v))
    PROVE  ~(Len(x) < Len(y))
<1> SUFFICES ASSUME Len(x) < Len(y) PROVE FALSE
  OBVIOUS
<1> DEFINE next == Len(x) + 1
           a == Counted(x, u)
           b == Counted(y, v)
<1>1. next \in 1..Len(y) /\ next \in 1..(Len(x) + 1) /\ next \in 1..(Len(y) + 1)
  OBVIOUS
<1>2. a[next] = u /\ u \notin Figures /\ Len(a) = Len(x) + 1
  BY CountedIs
<1>3. b[next] = y[next] /\ y[next] \in Figures /\ Len(b) = Len(y) + 1
  BY <1>1, CountedIs
<1>4. text[0 + next] = a[next] /\ text[0 + next] = b[next]
  <2> HIDE DEF a, b, next
  <2>1. Stands(text, 0, a) /\ Stands(text, 0, b)
    BY DEF a, b
  <2> QED
    BY <1>1, <1>2, <1>3, <2>1 DEF Stands
<1> QED
  BY <1>2, <1>3, <1>4

BeginsWith(text, digits, letter, rest) ==
    digits \in Seq(Figures) /\ letter \in Letters /\ rest \in Written /\ text = Counted(digits, letter) \o rest

\* What begins with a number and its unit says which these are, and what else.
LEMMA FirstCounted ==
    ASSUME NEW x \in Seq(Figures), NEW y \in Seq(Figures), NEW u \in Letters, NEW v \in Letters,
           NEW r \in Written, NEW s \in Written, NEW all, BeginsWith(all, x, u, r), BeginsWith(all, y, v, s)
    PROVE  x = y /\ u = v /\ r = s
<1> DEFINE a == Counted(x, u)
           b == Counted(y, v)
           text == a \o r
<1>1. a \in Written /\ b \in Written
  BY CountedIs
<1> HIDE DEF a, b
<1>2. a \o r = b \o s
  BY DEF a, b, BeginsWith
<1>3. /\ text \in Written /\ Len(text) = Len(a) + Len(r)
      /\ \A i \in 1..Len(a) : text[i] = a[i]
      /\ \A i \in 1..Len(r) : text[Len(a) + i] = r[i]
  BY <1>1, Joined
<1>4. /\ Len(text) = Len(b) + Len(s)
      /\ \A i \in 1..Len(b) : text[i] = b[i]
      /\ \A i \in 1..Len(s) : text[Len(b) + i] = s[i]
  BY <1>1, <1>2, Joined
<1> HIDE DEF text
<1>5. Len(a) \in Nat /\ Len(b) \in Nat /\ Len(r) \in Nat /\ Len(s) \in Nat /\ Len(x) \in Nat /\ Len(y) \in Nat
  BY <1>1 DEF Written
<1>6. Stands(text, 0, a) /\ Stands(text, 0, b)
  BY <1>3, <1>4, <1>5 DEF Stands
<1>7. ~(Len(x) < Len(y)) /\ ~(Len(y) < Len(x))
  BY <1>6, NoMoreFigures DEF a, b
<1>8. Len(x) = Len(y)
  BY <1>5, <1>7
<1>9. /\ Len(a) = Len(x) + 1 /\ Len(b) = Len(y) + 1
      /\ \A i \in 1..Len(x) : a[i] = x[i]
      /\ \A i \in 1..Len(y) : b[i] = y[i]
      /\ a[Len(x) + 1] = u /\ b[Len(y) + 1] = v
  BY CountedIs DEF a, b
<1>10. x = y
  <2>1. \A i \in 1..Len(x) : x[i] = y[i]
    BY <1>3, <1>4, <1>5, <1>8, <1>9
  <2> QED
    BY <1>8, <2>1, SeqEqual
<1>11. u = v
  <2>1. Len(x) + 1 \in 1..Len(a) /\ Len(x) + 1 \in 1..Len(b)
    BY <1>5, <1>8, <1>9
  <2>2. text[Len(x) + 1] = u /\ text[Len(x) + 1] = v
    BY <1>3, <1>4, <1>8, <1>9, <2>1
  <2> QED
    BY <2>2
<1>12. r = s
  <2>1. Len(r) = Len(s)
    BY <1>3, <1>4, <1>5, <1>8, <1>9
  <2>2. \A i \in 1..Len(r) : r[i] = s[i]
    BY <1>3, <1>4, <1>8, <1>9, <2>1
  <2>3. r \in Seq(Nat) /\ s \in Seq(Nat)
    BY DEF Written
  <2> QED
    BY <2>1, <2>2, <2>3, SeqEqual
<1> QED
  BY <1>10, <1>11, <1>12


LEMMA UnitsAre == Unit("d") = <<100>> /\ Unit("h") = <<104>> /\ Unit("m") = <<109>> /\ Unit("s") = <<115>>
BY DEF Unit

LEMMA Associated ==
    ASSUME NEW a \in Written, NEW b \in Written, NEW c \in Written
    PROVE  (a \o b) \o c = a \o (b \o c)
BY ConcatAssociative DEF Written

LEMMA BeginsOneWay ==
    ASSUME NEW text, NEW x, NEW y, NEW u, NEW v, NEW r, NEW s,
           BeginsWith(text, x, u, r), BeginsWith(text, y, v, s)
    PROVE  x = y /\ u = v /\ r = s
<1>1. x \in Seq(Figures) /\ y \in Seq(Figures) /\ u \in Letters /\ v \in Letters /\ r \in Written /\ s \in Written
  BY Zenon DEF BeginsWith
<1> QED
  BY <1>1, FirstCounted

\* Days and hours in seconds.  The provers are slow with large numbers, which
\* is why the two are expanded in these lemmas alone.
LEMMA HourAndDay == Hour \in Nat /\ Day \in Nat /\ 60 < Hour /\ Hour < Day
BY DEF Hour, Day

LEMMA HoursAndDays ==
    ASSUME NEW n \in Nat
    PROVE  /\ n % 60 \in 0..59 /\ (n % Hour) \div 60 \in 0..59 /\ (n % Day) \div Hour \in Nat
           /\ n \div 60 \in Nat /\ n \div Hour \in Nat /\ n \div Day \in Nat
<1>1. n % 60 \in 0..59 /\ (n % Hour) \div 60 \in 0..59
  BY DEF Hour
<1>2. (n % Day) \div Hour \in Nat
  BY DEF Hour, Day
<1>3. n \div 60 \in Nat /\ n \div Hour \in Nat /\ n \div Day \in Nat
  BY DEF Hour, Day
<1> QED
  BY <1>1, <1>2, <1>3, Zenon

LEMMA SameMinutes ==
    ASSUME NEW m \in Nat, NEW n \in Nat, m \div 60 = n \div 60, m % 60 = n % 60
    PROVE  m = n
OBVIOUS

LEMMA SameHours ==
    ASSUME NEW m \in Nat, NEW n \in Nat, m \div Hour = n \div Hour,
           (m % Hour) \div 60 = (n % Hour) \div 60, m % 60 = n % 60
    PROVE  m = n
BY DEF Hour

LEMMA SameDays ==
    ASSUME NEW m \in Nat, NEW n \in Nat, m \div Day = n \div Day, (m % Day) \div Hour = (n % Day) \div Hour,
           (m % Hour) \div 60 = (n % Hour) \div 60, m % 60 = n % 60
    PROVE  m = n
BY DEF Hour, Day

\* The number and the unit that a duration begins with, and what follows.
UnitOf(n) == IF n < 60 THEN 115 ELSE IF n < Hour THEN 109 ELSE IF n < Day THEN 104 ELSE 100

CountOf(n) == IF n < 60 THEN n ELSE IF n < Hour THEN n \div 60 ELSE IF n < Day THEN n \div Hour ELSE n \div Day

HoursLeft(n) == Counted(Decimal((n % Day) \div Hour), 104)

LeftOver(n) ==
    IF n < 60 THEN <<>>
    ELSE IF n < Hour THEN SecondsLeft(n)
    ELSE IF n < Day THEN MinutesLeft(n) \o SecondsLeft(n)
    ELSE HoursLeft(n) \o (MinutesLeft(n) \o SecondsLeft(n))

LEMMA Left ==
    ASSUME NEW n \in Nat
    PROVE  /\ AtLeastDigits(2, n % 60) \in Seq(Figures) /\ AtLeastDigits(2, (n % Hour) \div 60) \in Seq(Figures)
           /\ Decimal((n % Day) \div Hour) \in Seq(Figures)
           /\ SecondsLeft(n) = Counted(AtLeastDigits(2, n % 60), 115)
           /\ MinutesLeft(n) = Counted(AtLeastDigits(2, (n % Hour) \div 60), 109)
           /\ SecondsLeft(n) \in Written /\ MinutesLeft(n) \in Written /\ HoursLeft(n) \in Written
<1>1. \A k \in 0..59 : AtLeastDigits(2, k) \in Seq(Figures)
  <2> TAKE k \in 0..59
  <2>1. 2 \in Nat /\ k \in Nat
    OBVIOUS
  <2> QED
    BY <2>1, PaddedWith, Zenon
<1>2. AtLeastDigits(2, n % 60) \in Seq(Figures) /\ AtLeastDigits(2, (n % Hour) \div 60) \in Seq(Figures)
  BY <1>1, HoursAndDays, Zenon
<1>3. Decimal((n % Day) \div Hour) \in Seq(Figures)
  BY HoursAndDays, DecimalIsFigures, Zenon
<1>4. SecondsLeft(n) = Counted(AtLeastDigits(2, n % 60), 115)
  BY UnitsAre, Zenon DEF SecondsLeft, Counted
<1>5. MinutesLeft(n) = Counted(AtLeastDigits(2, (n % Hour) \div 60), 109)
  BY UnitsAre, Zenon DEF MinutesLeft, Counted
<1>6. 104 \in Letters /\ 115 \in Letters /\ 109 \in Letters
  BY DEF Letters
<1>7. SecondsLeft(n) \in Written /\ MinutesLeft(n) \in Written /\ HoursLeft(n) \in Written
  <2> DEFINE x == AtLeastDigits(2, n % 60)
             y == AtLeastDigits(2, (n % Hour) \div 60)
             z == Decimal((n % Day) \div Hour)
  <2>1. x \in Seq(Figures) /\ y \in Seq(Figures) /\ z \in Seq(Figures)
    BY <1>2, <1>3
  <2>2. SecondsLeft(n) = Counted(x, 115) /\ MinutesLeft(n) = Counted(y, 109) /\ HoursLeft(n) = Counted(z, 104)
    BY <1>4, <1>5 DEF HoursLeft
  <2> HIDE DEF x, y, z
  <2>3. Counted(x, 115) \in Written /\ Counted(y, 109) \in Written /\ Counted(z, 104) \in Written
    BY <1>6, <2>1, CountedIs
  <2> QED
    BY <2>2, <2>3
<1> QED
  BY <1>2, <1>3, <1>4, <1>5, <1>7, Zenon

LEMMA DurationIs ==
    ASSUME NEW n \in Nat
    PROVE  DurationHMS(n) = Counted(Decimal(CountOf(n)), UnitOf(n)) \o LeftOver(n)
<1> DEFINE seconds == SecondsLeft(n)
           minutes == MinutesLeft(n)
           hours == Decimal((n % Day) \div Hour)
           first == Decimal(CountOf(n))
<1>1. CountOf(n) \in Nat
  BY HoursAndDays DEF CountOf
<1>2. seconds \in Written /\ minutes \in Written /\ hours \in Written /\ first \in Written
  BY <1>1, Left, FiguresAreBytes, HoursAndDays
<1>3. <<100>> \in Written /\ <<104>> \in Written /\ <<109>> \in Written /\ <<115>> \in Written
  BY DEF Written
<1>4. CASE n < 60
  <2>1. CountOf(n) = n /\ UnitOf(n) = 115 /\ LeftOver(n) = <<>>
    BY <1>4 DEF CountOf, UnitOf, LeftOver
  <2>2. DurationHMS(n) = Decimal(n) \o Unit("s")
    BY <1>4, Zenon DEF DurationHMS
  <2>3. DurationHMS(n) = Counted(first, 115)
    BY <2>1, <2>2, UnitsAre, Zenon DEF Counted
  <2>4. Counted(first, 115) \in Written
    BY <1>2, <1>3, Joined DEF Counted
  <2> DEFINE whole == Counted(first, 115)
  <2> HIDE DEF whole
  <2>5. whole \o <<>> = whole
    BY <2>4 DEF Written, whole
  <2> QED
    BY <2>1, <2>3, <2>5, Zenon DEF whole
<1>5. CASE n >= 60 /\ n < Hour
  <2>0. ~(n < 60)
    BY <1>5
  <2>1. CountOf(n) = n \div 60 /\ UnitOf(n) = 109 /\ LeftOver(n) = seconds
    BY <1>5, <2>0 DEF CountOf, UnitOf, LeftOver
  <2>2. DurationHMS(n) = (Decimal(n \div 60) \o Unit("m")) \o seconds
    BY <1>5, <2>0, Zenon DEF DurationHMS
  <2> QED
    BY <2>1, <2>2, UnitsAre, Zenon DEF Counted
<1>6. CASE n >= Hour /\ n < Day
  <2>0. ~(n < 60) /\ ~(n < Hour)
    BY <1>6, HourAndDay
  <2>1. CountOf(n) = n \div Hour /\ UnitOf(n) = 104 /\ LeftOver(n) = minutes \o seconds
    BY <1>6, <2>0, Zenon DEF CountOf, UnitOf, LeftOver
  <2>2. DurationHMS(n) = ((first \o <<104>>) \o minutes) \o seconds
    <3>1. DurationHMS(n) = ((Decimal(n \div Hour) \o Unit("h")) \o minutes) \o seconds
      BY <1>6, <2>0, Zenon DEF DurationHMS
    <3> QED
      BY <2>1, <3>1, UnitsAre, Zenon
  <2>3. first \o <<104>> \in Written
    BY <1>2, <1>3, Joined
  <2>4. ((first \o <<104>>) \o minutes) \o seconds = (first \o <<104>>) \o (minutes \o seconds)
    BY <1>2, <2>3, Associated, Zenon
  <2> QED
    BY <2>1, <2>2, <2>4, Zenon DEF Counted
<1>7. CASE n >= Day
  <2>0. ~(n < 60) /\ ~(n < Hour) /\ ~(n < Day)
    BY <1>7, HourAndDay
  <2>1. /\ CountOf(n) = n \div Day /\ UnitOf(n) = 100
        /\ LeftOver(n) = (hours \o <<104>>) \o (minutes \o seconds)
    BY <2>0, Zenon DEF CountOf, UnitOf, LeftOver, HoursLeft, Counted
  <2> DEFINE head == first \o <<100>>
             day == hours \o <<104>>
             rest == minutes \o seconds
  <2>2. DurationHMS(n) = (((head \o hours) \o <<104>>) \o minutes) \o seconds
    <3>1. DurationHMS(n) = ((((Decimal(n \div Day) \o Unit("d")) \o hours) \o Unit("h")) \o minutes) \o seconds
      BY <2>0, Zenon DEF DurationHMS
    <3> QED
      BY <2>1, <3>1, UnitsAre, Zenon
  <2>3. head \in Written /\ day \in Written /\ rest \in Written
    BY <1>2, <1>3, Joined
  <2>4. (head \o hours) \o <<104>> = head \o day
    <3> DEFINE letter == <<104>>
    <3>1. head \in Written /\ hours \in Written /\ letter \in Written
      BY <1>2, <1>3, <2>3
    <3> HIDE DEF head, hours, letter, seconds, minutes, first, day, rest
    <3>2. (head \o hours) \o letter = head \o (hours \o letter)
      BY <3>1, Associated
    <3> QED
      BY <3>2 DEF letter, day
  <2> HIDE DEF head, day
  <2>5. head \o day \in Written
    BY <2>3, Joined
  <2>6. ((head \o day) \o minutes) \o seconds = (head \o day) \o rest
    BY <1>2, <2>5, Associated, Zenon
  <2> HIDE DEF rest
  <2>7. (head \o day) \o rest = head \o (day \o rest)
    BY <2>3, Associated, Zenon
  <2>8. DurationHMS(n) = head \o (day \o rest)
    BY <2>2, <2>4, <2>6, <2>7, Zenon
  <2> QED
    BY <2>1, <2>8, Zenon DEF head, day, rest, Counted
<1>8. n < 60 \/ (n >= 60 /\ n < Hour) \/ (n >= Hour /\ n < Day) \/ n >= Day
  BY HourAndDay
<1> QED
  BY <1>4, <1>5, <1>6, <1>7, <1>8, Zenon

LEMMA LeftOverIs ==
    ASSUME NEW n \in Nat
    PROVE  /\ LeftOver(n) \in Written /\ Decimal(CountOf(n)) \in Seq(Figures) /\ UnitOf(n) \in Letters
           /\ CountOf(n) \in Nat
<1>1. CountOf(n) \in Nat
  BY HoursAndDays DEF CountOf
<1>2. UnitOf(n) \in Letters
  BY DEF UnitOf, Letters
<1>3. <<>> \in Written
  BY DEF Written
<1>4. LeftOver(n) \in Written
  <2> DEFINE a == HoursLeft(n)
             b == MinutesLeft(n)
             c == SecondsLeft(n)
  <2>1. a \in Written /\ b \in Written /\ c \in Written
    BY Left
  <2>2. b \o c \in Written /\ a \o (b \o c) \in Written
    <3> HIDE DEF a, b, c
    <3>1. b \o c \in Written
      BY <2>1, Joined
    <3> QED
      BY <2>1, <3>1, Joined
  <2> QED
    BY <1>3, <2>1, <2>2, Zenon DEF LeftOver
<1> QED
  BY <1>1, <1>2, <1>4, DecimalIsFigures

LEMMA MinutesAndSeconds ==
    ASSUME NEW m \in Nat, NEW n \in Nat
    PROVE  /\ SecondsLeft(m) = SecondsLeft(n) => m % 60 = n % 60
           /\ MinutesLeft(m) \o SecondsLeft(m) = MinutesLeft(n) \o SecondsLeft(n)
                 => (m % Hour) \div 60 = (n % Hour) \div 60 /\ m % 60 = n % 60
<1>0. 115 \in Letters /\ 109 \in Letters /\ <<>> \in Written
  BY DEF Letters, Written
<1>1. ASSUME SecondsLeft(m) = SecondsLeft(n) PROVE m % 60 = n % 60
  <2>1. SecondsLeft(m) \o <<>> = SecondsLeft(n) \o <<>>
    BY <1>1
  <2>2. AtLeastDigits(2, m % 60) = AtLeastDigits(2, n % 60)
    <3> DEFINE x == AtLeastDigits(2, m % 60)
               y == AtLeastDigits(2, n % 60)
               text == SecondsLeft(m) \o <<>>
    <3>1. /\ x \in Seq(Figures) /\ text = Counted(x, 115) \o <<>>
          /\ y \in Seq(Figures) /\ text = Counted(y, 115) \o <<>>
      BY <2>1, Left
    <3> HIDE DEF x, y, text
    <3>2. x = y
      <4>1. BeginsWith(text, x, 115, <<>>) /\ BeginsWith(text, y, 115, <<>>)
        BY <1>0, <3>1, Zenon DEF BeginsWith
      <4> QED
        BY <4>1, BeginsOneWay
    <3> QED
      BY <3>2 DEF x, y
  <2> QED
    BY <2>2, HoursAndDays, TwoDigitsTellApart
<1>2. ASSUME MinutesLeft(m) \o SecondsLeft(m) = MinutesLeft(n) \o SecondsLeft(n)
      PROVE  (m % Hour) \div 60 = (n % Hour) \div 60 /\ m % 60 = n % 60
  <2>1. /\ AtLeastDigits(2, (m % Hour) \div 60) = AtLeastDigits(2, (n % Hour) \div 60)
        /\ SecondsLeft(m) = SecondsLeft(n)
    <3> DEFINE x == AtLeastDigits(2, (m % Hour) \div 60)
               y == AtLeastDigits(2, (n % Hour) \div 60)
               r == SecondsLeft(m)
               s == SecondsLeft(n)
               text == MinutesLeft(m) \o SecondsLeft(m)
    <3>0. x \in Seq(Figures) /\ r \in Written /\ y \in Seq(Figures) /\ s \in Written
      BY Left
    <3>1. text = Counted(x, 109) \o r /\ text = Counted(y, 109) \o s
      <4>1. MinutesLeft(m) = Counted(x, 109) /\ MinutesLeft(n) = Counted(y, 109)
        BY Left
      <4> QED
        BY <1>2, <4>1, Zenon
    <3> HIDE DEF x, y, r, s, text
    <3>2. x = y /\ r = s
      <4>1. BeginsWith(text, x, 109, r) /\ BeginsWith(text, y, 109, s)
        BY <1>0, <3>0, <3>1, Zenon DEF BeginsWith
      <4> QED
        BY <4>1, BeginsOneWay
    <3> QED
      BY <3>2 DEF x, y, r, s
  <2> QED
    BY <1>1, <2>1, HoursAndDays, TwoDigitsTellApart
<1> QED
  BY <1>1, <1>2

\* No two times to live are shown alike (format_duration_hms in output.rs).
THEOREM DurationsAreToldApart ==
    \A m, n \in Nat : DurationHMS(m) = DurationHMS(n) => m = n
<1> SUFFICES ASSUME NEW m \in Nat, NEW n \in Nat, DurationHMS(m) = DurationHMS(n) PROVE m = n
  OBVIOUS
<1>1. Decimal(CountOf(m)) = Decimal(CountOf(n)) /\ UnitOf(m) = UnitOf(n) /\ LeftOver(m) = LeftOver(n)
  <2>1. /\ DurationHMS(m) = Counted(Decimal(CountOf(m)), UnitOf(m)) \o LeftOver(m)
        /\ DurationHMS(n) = Counted(Decimal(CountOf(n)), UnitOf(n)) \o LeftOver(n)
    BY DurationIs
  <2> DEFINE x == Decimal(CountOf(m))
             y == Decimal(CountOf(n))
             u == UnitOf(m)
             v == UnitOf(n)
             r == LeftOver(m)
             s == LeftOver(n)
             text == DurationHMS(m)
  <2>2. BeginsWith(text, x, u, r) /\ BeginsWith(text, y, v, s)
    BY <2>1, LeftOverIs, Zenon DEF BeginsWith
  <2> HIDE DEF x, y, u, v, r, s, text
  <2>3. x = y /\ u = v /\ r = s
    BY <2>2, BeginsOneWay
  <2> QED
    BY <2>3 DEF x, y, u, v, r, s
<1>2. CountOf(m) = CountOf(n)
  BY <1>1, LeftOverIs, DecimalTellsApart
<1>3. 60 < Hour /\ Hour < Day /\ Hour \in Nat /\ Day \in Nat
  BY HourAndDay
<1>4. CASE m < 60
  <2>1. n < 60
    BY <1>1, <1>4 DEF UnitOf
  <2> QED
    BY <1>2, <1>4, <2>1 DEF CountOf
<1>5. CASE ~(m < 60) /\ m < Hour
  <2>1. ~(n < 60) /\ n < Hour
    BY <1>1, <1>5 DEF UnitOf
  <2>2. m \div 60 = n \div 60
    BY <1>2, <1>5, <2>1, Zenon DEF CountOf
  <2>3. SecondsLeft(m) = SecondsLeft(n)
    BY <1>1, <1>5, <2>1, Zenon DEF LeftOver
  <2> QED
    BY <2>2, <2>3, MinutesAndSeconds, SameMinutes
<1>6. CASE ~(m < 60) /\ ~(m < Hour) /\ m < Day
  <2>1. ~(n < 60) /\ ~(n < Hour) /\ n < Day
    BY <1>1, <1>6 DEF UnitOf
  <2>2. m \div Hour = n \div Hour
    BY <1>2, <1>6, <2>1, Zenon DEF CountOf
  <2>3. MinutesLeft(m) \o SecondsLeft(m) = MinutesLeft(n) \o SecondsLeft(n)
    BY <1>1, <1>6, <2>1, Zenon DEF LeftOver
  <2>4. (m % Hour) \div 60 = (n % Hour) \div 60 /\ m % 60 = n % 60
    BY <2>3, MinutesAndSeconds, Zenon
  <2> QED
    BY <2>2, <2>4, SameHours, Zenon
<1>7. CASE ~(m < 60) /\ ~(m < Hour) /\ ~(m < Day)
  <2>1. ~(n < 60) /\ ~(n < Hour) /\ ~(n < Day)
    BY <1>1, <1>3, <1>7 DEF UnitOf
  <2>2. m \div Day = n \div Day
    BY <1>2, <1>7, <2>1, Zenon DEF CountOf
  <2>3. HoursLeft(m) \o (MinutesLeft(m) \o SecondsLeft(m)) = HoursLeft(n) \o (MinutesLeft(n) \o SecondsLeft(n))
    BY <1>1, <1>7, <2>1, Zenon DEF LeftOver
  <2>4. /\ Decimal((m % Day) \div Hour) = Decimal((n % Day) \div Hour)
        /\ MinutesLeft(m) \o SecondsLeft(m) = MinutesLeft(n) \o SecondsLeft(n)
    <3>1. \A k \in Nat : MinutesLeft(k) \o SecondsLeft(k) \in Written
      BY Left, Joined
    <3>2. 104 \in Letters
      BY DEF Letters
    <3> QED
      <4> DEFINE x == Decimal((m % Day) \div Hour)
                 y == Decimal((n % Day) \div Hour)
                 r == MinutesLeft(m) \o SecondsLeft(m)
                 s == MinutesLeft(n) \o SecondsLeft(n)
                 text == HoursLeft(m) \o r
      <4>1. BeginsWith(text, x, 104, r) /\ BeginsWith(text, y, 104, s)
        BY <2>3, <3>1, <3>2, Left, Zenon DEF HoursLeft, BeginsWith
      <4> HIDE DEF x, y, r, s, text
      <4>2. x = y /\ r = s
        BY <4>1, BeginsOneWay
      <4> QED
        BY <4>2 DEF x, y, r, s
  <2>5. (m % Day) \div Hour = (n % Day) \div Hour
    BY <2>4, HoursAndDays, DecimalTellsApart
  <2>6. (m % Hour) \div 60 = (n % Hour) \div 60 /\ m % 60 = n % 60
    BY <2>4, MinutesAndSeconds, Zenon
  <2> QED
    BY <2>2, <2>5, <2>6, SameDays, Zenon
<1> QED
  BY <1>4, <1>5, <1>6, <1>7, Zenon

-----------------------------------------------------------------------------

(***************************************************************************)
(* Bytes in hexadecimal.                                                   *)
(***************************************************************************)

HexByte(byte) == <<HexDigit(byte \div 16), HexDigit(byte % 16)>>
HexCode == {HexByte(byte) : byte \in Octet}
HexBytes(bytes) == [i \in DOMAIN bytes |-> HexByte(bytes[i])]

LEMMA HexByteIs ==
    ASSUME NEW byte \in Octet
    PROVE  IsTwo(HexByte(byte), HexDigit(byte \div 16), HexDigit(byte % 16))
<1>1. byte \div 16 \in 0..15 /\ byte % 16 \in 0..15
  BY DEF Octet
<1>2. HexDigit(byte \div 16) \in Nat /\ HexDigit(byte % 16) \in Nat
  BY <1>1 DEF HexDigit
<1> QED
  BY <1>2 DEF IsTwo, HexByte, Written

LEMMA HexAtPlace ==
    ASSUME NEW x \in Octet, NEW y \in Octet, NEW text, NEW at \in Nat,
           Stands(text, at, HexByte(x)), Stands(text, at, HexByte(y))
    PROVE  x = y
<1>1. /\ IsTwo(HexByte(x), HexDigit(x \div 16), HexDigit(x % 16))
      /\ IsTwo(HexByte(y), HexDigit(y \div 16), HexDigit(y % 16))
  BY HexByteIs
<1>2. HexDigit(x \div 16) = HexDigit(y \div 16) /\ HexDigit(x % 16) = HexDigit(y % 16)
  BY <1>1 DEF Stands, IsTwo
<1>3. x \div 16 \in 0..15 /\ x % 16 \in 0..15 /\ y \div 16 \in 0..15 /\ y % 16 \in 0..15
  BY DEF Octet
<1>4. x \div 16 = y \div 16 /\ x % 16 = y % 16
  BY <1>2, <1>3 DEF HexDigit
<1> QED
  BY <1>4 DEF Octet

LEMMA HexCodeIsOne == IsCode(HexCode)
<1>1. ASSUME NEW c \in HexCode PROVE c \in Written /\ Len(c) # 0
  <2>1. PICK x \in Octet : c = HexByte(x)
    BY DEF HexCode
  <2> QED
    BY <2>1, HexByteIs DEF IsTwo
<1>2. ASSUME NEW text \in Written, NEW at \in Nat, NEW c \in HexCode, NEW d \in HexCode,
             Stands(text, at, c), Stands(text, at, d)
      PROVE  c = d
  <2>1. PICK x \in Octet : c = HexByte(x)
    BY DEF HexCode
  <2>2. PICK y \in Octet : d = HexByte(y)
    BY DEF HexCode
  <2> QED
    BY <1>2, <2>1, <2>2, HexAtPlace
<1> QED
  BY <1>1, <1>2 DEF IsCode

LEMMA HexBytesAre ==
    ASSUME NEW bytes \in Seq(Octet)
    PROVE  /\ HexBytes(bytes) \in Seq(HexCode) /\ Len(HexBytes(bytes)) = Len(bytes)
           /\ \A i \in 1..Len(bytes) : HexBytes(bytes)[i] = HexByte(bytes[i]) /\ bytes[i] \in Octet
           /\ Hex(bytes) = FlattenSeq(HexBytes(bytes))
<1>1. DOMAIN bytes = 1..Len(bytes) /\ Len(bytes) \in Nat /\ \A i \in 1..Len(bytes) : bytes[i] \in Octet
  OBVIOUS
<1> DEFINE codes == HexBytes(bytes)
<1>2. codes = [i \in 1..Len(bytes) |-> HexByte(bytes[i])]
  BY <1>1 DEF HexBytes
<1>3. \A i \in 1..Len(bytes) : HexByte(bytes[i]) \in HexCode
  BY <1>1 DEF HexCode
<1>4. codes \in [1..Len(bytes) -> HexCode] /\ \A i \in 1..Len(bytes) : codes[i] = HexByte(bytes[i])
  BY <1>2, <1>3
<1>5. Hex(bytes) = FlattenSeq(codes)
  BY DEF Hex, HexBytes, HexByte
<1> HIDE DEF codes
<1>6. codes \in Seq(HexCode) /\ Len(codes) = Len(bytes)
  BY <1>1, <1>4
<1> QED
  BY <1>1, <1>4, <1>5, <1>6 DEF codes

\* No two digests, nor other bytes that are written in hexadecimal, are shown
\* alike (hex in wire.rs).
THEOREM HexIsToldApart ==
    \A x, y \in Seq(Octet) : Hex(x) = Hex(y) => x = y
<1> SUFFICES ASSUME NEW x \in Seq(Octet), NEW y \in Seq(Octet), Hex(x) = Hex(y) PROVE x = y
  OBVIOUS
<1>1. /\ HexBytes(x) \in Seq(HexCode) /\ Len(HexBytes(x)) = Len(x) /\ Hex(x) = FlattenSeq(HexBytes(x))
      /\ HexBytes(y) \in Seq(HexCode) /\ Len(HexBytes(y)) = Len(y) /\ Hex(y) = FlattenSeq(HexBytes(y))
      /\ \A i \in 1..Len(x) : HexBytes(x)[i] = HexByte(x[i]) /\ x[i] \in Octet
      /\ \A i \in 1..Len(y) : HexBytes(y)[i] = HexByte(y[i]) /\ y[i] \in Octet
  BY HexBytesAre
<1>2. HexBytes(x) = HexBytes(y)
  BY <1>1, HexCodeIsOne, PutTogetherOnce
<1>3. Len(x) = Len(y)
  BY <1>1, <1>2
<1>4. ASSUME NEW i \in 1..Len(x) PROVE x[i] = y[i]
  <2> DEFINE word == HexByte(x[i])
  <2>1. word = HexByte(y[i]) /\ x[i] \in Octet /\ y[i] \in Octet
    BY <1>1, <1>2, <1>3
  <2>2. word \in Written
    BY <2>1, HexByteIs DEF IsTwo
  <2>3. Stands(word, 0, word)
    <3> HIDE DEF word
    <3> QED
      BY <2>2 DEF Stands, Written
  <2>4. Stands(word, 0, HexByte(x[i])) /\ Stands(word, 0, HexByte(y[i]))
    BY <2>1, <2>3
  <2> HIDE DEF word
  <2> QED
    BY <2>1, <2>4, HexAtPlace
<1> QED
  BY <1>3, <1>4, SeqEqual

-----------------------------------------------------------------------------

(***************************************************************************)
(* Places.                                                                 *)
(***************************************************************************)

LEMMA SameSixty ==
    ASSUME NEW m \in Nat, NEW n \in Nat, m % 60 = n % 60, m \div 60 = n \div 60
    PROVE  m = n
OBVIOUS

LEMMA SamePlace ==
    ASSUME NEW m \in Nat, NEW n \in Nat, m % 1000 = n % 1000, (m \div 1000) % 60 = (n \div 1000) % 60,
           ((m \div 1000) \div 60) % 60 = ((n \div 1000) \div 60) % 60,
           ((m \div 1000) \div 60) \div 60 = ((n \div 1000) \div 60) \div 60
    PROVE  m = n
<1> DEFINE a == m \div 1000
           b == n \div 1000
           c == a \div 60
           d == b \div 60
<1>1. a \in Nat /\ b \in Nat
  OBVIOUS
<1>2. c \in Nat /\ d \in Nat
  <2> HIDE DEF a, b
  <2> QED
    BY <1>1
<1>3. a % 60 = b % 60 /\ c % 60 = d % 60 /\ c \div 60 = d \div 60
  OBVIOUS
<1> HIDE DEF c, d
<1>4. c = d
  BY <1>2, <1>3, SameSixty
<1>5. a = b
  <2>1. a \div 60 = b \div 60
    BY <1>4 DEF c, d
  <2> HIDE DEF a, b
  <2> QED
    BY <1>1, <1>3, <2>1, SameSixty
<1> QED
  BY <1>5

\* How far it is, and the letter of the direction.
Away(arc) == IF arc >= 0 THEN arc ELSE -arc
Letter(arc, vertical) == IF vertical THEN IF arc >= 0 THEN 78 ELSE 83 ELSE IF arc >= 0 THEN 69 ELSE 87

\* No two latitudes or longitudes are shown alike, but for those that are out of
\* range and shown as that (Position::from_u32 in loc.rs).
THEOREM PlacesAreToldApart ==
    \A vertical \in BOOLEAN, p, q \in Int :
        Position(p, vertical) # OutOfRange /\ Position(p, vertical) = Position(q, vertical) => p = q
<1> SUFFICES ASSUME NEW vertical \in BOOLEAN, NEW p \in Int, NEW q \in Int,
                    Position(p, vertical) # OutOfRange, Position(p, vertical) = Position(q, vertical)
             PROVE  p = q
  OBVIOUS
<1> DEFINE Limit == Degree * (IF vertical THEN 90 ELSE 180)
           Arcseconds(arc) == Away(arc) \div 1000
           Arcminutes(arc) == Arcseconds(arc) \div 60
           Parts(arc) == <<Arcminutes(arc) \div 60, Arcminutes(arc) % 60, Arcseconds(arc) % 60,
                           Away(arc) % 1000, Letter(arc, vertical)>>
<1>1. \A arc \in Int : Position(arc, vertical) = IF arc \notin (-Limit)..Limit THEN OutOfRange ELSE Parts(arc)
  BY Zenon DEF Position, Away, Letter
<1>2. Parts(p) = Parts(q)
  <2> HIDE DEF Parts, Limit
  <2> QED
    BY <1>1, Zenon
<1> HIDE DEF Limit
<1>3. /\ Arcminutes(p) \div 60 = Arcminutes(q) \div 60 /\ Arcminutes(p) % 60 = Arcminutes(q) % 60
      /\ Arcseconds(p) % 60 = Arcseconds(q) % 60 /\ Away(p) % 1000 = Away(q) % 1000
      /\ Letter(p, vertical) = Letter(q, vertical)
  <2> HIDE DEF Arcminutes, Arcseconds
  <2> QED
    BY <1>2
<1>4. Away(p) \in Nat /\ Away(q) \in Nat
  BY DEF Away
<1>5. Away(p) = Away(q)
  BY <1>3, <1>4, SamePlace
<1>6. (p >= 0) = (q >= 0)
  <2>1. Letter(p, vertical) = Letter(q, vertical)
    BY <1>3
  <2> QED
    BY <2>1 DEF Letter
<1> QED
  BY <1>5, <1>6 DEF Away

=============================================================================
