----------------------------- MODULE MCRecords ------------------------------
(***************************************************************************)
(* Responses with a record of every type, and requests as dog writes them, *)
(* read and printed: whole ones, ones cut off after any byte, and ones     *)
(* with a length that is one off.                                          *)
(*                                                                         *)
(* A record is put together here from pieces, each with its bytes and with *)
(* the field it should be read as, by the RFCs and not by the tables of    *)
(* RecordTypes.  The ID of a message is its place in Cases.                *)
(***************************************************************************)
EXTENDS Printing, RequestBytes

INSTANCE NameRecursion WITH Base <- 256, PointerMark <- 192, RECURSION_LIMIT <- 8

MCReadLabels(bytes, at) == ReadString(bytes, at, <<>>)

-----------------------------------------------------------------------------
(* Pieces, each with the field it is read as, if any, and with what JSON    *)
(* should show of it: strings and fixed ones, which are shown in some way, *)
(* and names that end in the second label of the question.                 *)

Show(f, b, text) == [field |-> {f}, bytes |-> b, value |-> b, shown |-> text]
Fixed(f, b) == Show(f, b, b)
Str(f, b) == [field |-> {f}, bytes |-> <<Len(b)>> \o b, value |-> b, shown |-> b]
Nm(f, x) == [field |-> {f}, bytes |-> <<1, x, 192, 14>>, value |-> << <<x>>, <<98>> >>,
             shown |-> <<x, Dot, 98, Dot>>]
Blank(b) == [field |-> {}, bytes |-> b]
Full255 == [i \in 1..255 |-> 120]

\* The strings of a TXT record, and the messages they are.
Messaged(b, v) == <<[field |-> {"messages"}, bytes |-> b, value |-> v, shown |-> v]>>

Sample(n, ps) == [number |-> n, pieces |-> ps, off |-> 0]

\* 00-01-02-fd-fe-ff
Octet6 == <<48, 48, 45, 48, 49, 45, 48, 50, 45, 102, 100, 45, 102, 101, 45, 102, 102>>

Samples ==
    <<Sample(1, <<Fixed("address", <<192, 0, 2, 7>>)>>),
      Sample(2, <<Nm("nameserver", 110)>>),
      Sample(5, <<Nm("domain", 99)>>),
      Sample(6, <<Nm("mname", 109), Nm("rname", 114), Fixed("serial", <<0, 0, 4, 210>>),
                  Fixed("refresh_interval", <<0, 1, 81, 129>>), Fixed("retry_interval", <<0, 0, 14, 17>>),
                  Fixed("expire_limit", <<0, 0, 0, 61>>), Fixed("minimum_ttl", <<0, 0, 0, 59>>)>>),
      Sample(12, <<Nm("cname", 112)>>),
      Sample(13, <<Str("cpu", <<80, 34>>), Str("os", <<>>)>>),
      Sample(15, <<Fixed("preference", <<1, 10>>), Nm("exchange", 120)>>),
      Sample(16, Messaged(<<2, 104, 105, 0, 1, 33>>, << <<104, 105>>, <<>>, <<33>> >>)),
      Sample(28, <<Fixed("address", [i \in 1..16 |-> 16 * i - 1])>>),
      Sample(29, <<Blank(<<0>>), Show("size", <<18>>, <<49, 109>>),
                   Show("horizontal_precision", <<22>>, <<49, 48, 48, 48, 48, 109>>),
                   Show("vertical_precision", <<33>>, <<48, 46, 50, 48, 109>>),
                   Show("latitude", <<139, 13, 44, 140>>, <<51, 30, 12, 748, 78>>),
                   Show("longitude", <<127, 248, 252, 165>>, <<0, 7, 39, 611, 87>>),
                   Show("altitude", <<0, 152, 141, 32>>, <<-24, 0>>)>>),
      Sample(33, <<Fixed("priority", <<0, 1>>), Fixed("weight", <<2, 0>>), Fixed("port", <<0, 53>>),
                   Nm("target", 115)>>),
      Sample(35, <<Fixed("order", <<0, 5>>), Fixed("preference", <<1, 0>>), Str("flags", <<115>>),
                   Str("service", <<83, 82>>), Str("regex", <<92, 46>>), Nm("replacement", 114)>>),
      Sample(43, <<Fixed("key_tag", <<1, 2>>), Fixed("algorithm", <<8>>), Fixed("digest_type", <<5>>),
                   Show("digest", <<171, 12, 3>>, <<97, 98, 48, 99, 48, 51>>)>>),
      Sample(44, <<Fixed("algorithm", <<1>>), Fixed("fingerprint_type", <<2>>),
                   Show("fingerprint", <<33, 254>>, <<50, 49, 102, 101>>)>>),
      Sample(46, <<Fixed("type_covered", <<0, 6>>), Fixed("algorithm", <<13>>), Fixed("labels", <<2>>),
                   Fixed("original_ttl", <<0, 0, 1, 4>>), Fixed("signature_expiration", <<0, 0, 2, 4>>),
                   Fixed("signature_inception", <<0, 0, 2, 3>>), Fixed("key_tag", <<9, 8>>),
                   Nm("signer_name", 122), Fixed("signature", <<7, 0, 7>>)>>),
      Sample(47, <<Nm("next_domain", 110), Show("types", <<0, 2, 64, 1, 1, 1, 128>>, <<1, 15, 256>>)>>),
      Sample(48, <<Fixed("flags", <<1, 1>>), Fixed("protocol", <<3>>), Fixed("algorithm", <<99>>),
                   Fixed("public_key", <<4, 5>>)>>),
      Sample(52, <<Fixed("certificate_usage", <<3>>), Fixed("selector", <<1>>),
                   Fixed("matching_type", <<2>>), Show("certificate_data", <<9, 9>>, <<48, 57, 48, 57>>)>>),
      Sample(61, <<Fixed("key", <<1, 0, 2>>)>>),
      Sample(108, <<Show("octets", <<0, 1, 2, 253, 254, 255>>, Octet6)>>),
      Sample(109, <<Show("octets", <<7, 0, 1, 2, 253, 254, 255, 8>>, <<48, 55, 45>> \o Octet6 \o <<45, 48, 56>>)>>),
      Sample(256, <<Fixed("priority", <<0, 3>>), Fixed("weight", <<0, 4>>), Fixed("target", <<97, 58, 34>>)>>),
      Sample(257, <<Show("critical", <<128>>, <<1>>), Str("tag", <<116>>), Fixed("value", <<118, 59>>)>>),
      Sample(65, <<Fixed("bytes", <<1, 2, 3>>)>>),
      Sample(65280, <<Fixed("bytes", <<0>>)>>)>>

\* Strings that are continued: by a short one, by an empty one, not because
\* the record ends, and for as long as a length can count.
LongTexts ==
    <<Sample(16, Messaged(<<255>> \o Full255 \o <<1, 33>>, <<Append(Full255, 33)>>)),
      Sample(16, Messaged(<<1, 33, 255>> \o Full255 \o <<0, 0>>, << <<33>>, Full255, <<>> >>)),
      Sample(16, Messaged(<<255>> \o Full255, <<Full255>>)),
      Sample(16, Messaged(<<255>> \o Full255 \o <<255>> \o Full255 \o <<254>> \o Tail(Full255),
                          <<Full255 \o Full255 \o Tail(Full255)>>))>>

\* OPT records, with the higher bits of the code.
Opt(bits) ==
    [number |-> 41, off |-> 0,
     pieces |-> <<Fixed("udp_payload_size", <<4, 210>>), Fixed("higher_bits", <<bits>>),
                  Fixed("edns0_version", <<0>>), Fixed("flags", <<128, 0>>),
                  Blank(<<0, 2>>), Fixed("data", <<5, 6>>)>>]

-----------------------------------------------------------------------------
(* Records, sections and messages.                                         *)

PiecesBytes(ps) == FlattenSeq([i \in DOMAIN ps |-> ps[i].bytes])

\* The fields of a record, and how they are shown.
Of(item, Part(_)) ==
    LET fielded == SelectSeq(item.pieces, LAMBDA p : p.field # {})
        names == UNION {fielded[i].field : i \in DOMAIN fielded}
    IN  [f \in names |-> Part(fielded[CHOOSE i \in DOMAIN fielded : f \in fielded[i].field])]

ItemFields(item) == Of(item, LAMBDA p : p.value)
ItemShown(item) == Of(item, LAMBDA p : p.shown)

ItemTtl(item) == <<0, 0, item.number % 256, 7>>

\* A record of the name asked for, with what is `off' added to its length.
ItemBytes(item) ==
    LET data == PiecesBytes(item.pieces) IN
    <<192, 12>> \o U16Bytes(item.number)
        \o (IF item.number = 41 THEN data
            ELSE <<0, 3>> \o ItemTtl(item) \o U16Bytes(Len(data) + item.off) \o data)

Asked == << <<97>>, <<98>> >>

\* What an entry should say, and what one that was read says.
ItemEntry(item) ==
    IF item.number = 41 THEN [qname |-> Asked, type |-> 41, fields |-> ItemFields(item)]
    ELSE [qname |-> Asked, type |-> item.number, qclass |-> 3, ttl |-> ItemTtl(item),
          fields |-> ItemFields(item)]

EntryRead(entry) ==
    IF entry.head.type = 41 THEN [qname |-> entry.head.qname, type |-> 41, fields |-> entry.fields]
    ELSE [qname |-> entry.head.qname, type |-> entry.head.type, qclass |-> entry.head.qclass,
          ttl |-> entry.head.ttl, fields |-> entry.fields]

\* A response with these sections of records, or a request.
Answers(rcode, items) == [kind |-> "response", rcode |-> rcode, items |-> items]
Asks(type, edns, tweaks) == [kind |-> "request", type |-> type, edns |-> edns, tweaks |-> tweaks]

IdOf(i) == U16Bytes(i)

RequestOf(i, case) ==
    MakeRequest(IdOf(i), [qname |-> Asked, qtype |-> FromTypeName(case.type), qclass |-> 3],
                case.edns, case.tweaks)

ResponseBytes(i, case) ==
    IdOf(i) \o <<129, 160 + case.rcode>>
        \o <<0, 1, 0, Len(case.items[1]), 0, Len(case.items[2]), 0, Len(case.items[3])>>
        \o <<1, 97, 1, 98, 0, 0, 1, 0, 3>>
        \o FlattenSeq([s \in 1..3 |-> FlattenSeq([j \in DOMAIN case.items[s] |-> ItemBytes(case.items[s][j])])])

CaseBytes(i, case) ==
    IF case.kind = "request" THEN ToBytes(RequestOf(i, case)) ELSE ResponseBytes(i, case)

\* Each sample by itself, which is cut off anywhere; between others, in each
\* section; and with a length that is one off.
Alone == [n \in DOMAIN Samples |-> Answers(0, << <<Samples[n]>>, <<>>, <<>> >>)]

Among(n, item) ==
    LET others == <<Samples[1], Samples[7]>> IN
    CASE n % 3 = 0 -> Answers(3, << <<item>>, others, <<Opt(0)>> >>)
      [] n % 3 = 1 -> Answers(0, << <<Samples[8]>>, <<item>>, <<Opt(1), item, Opt(0)>> >>)
      [] n % 3 = 2 -> Answers(2, << <<Opt(1)>>, <<>>, Append(others, item) >>)

Mixed == [n \in DOMAIN Samples |-> Among(n, Samples[n])]

Off(k) == [n \in DOMAIN Samples |-> Among(n, [Samples[n] EXCEPT !.off = k])]

Long == [n \in DOMAIN LongTexts |-> Answers(0, << <<LongTexts[n], Samples[1]>>, <<>>, <<>> >>)]

\* Strings longer than their record says, more than a length can count, and
\* a version there is not.
Wrong ==
    <<Answers(0, << <<Sample(16, Messaged([x \in 1..768 |-> 255], <<>>))>>, <<>>, <<>> >>),
      Answers(0, << <<[Sample(16, Messaged([x \in 1..768 |-> 255], <<>>)) EXCEPT !.off = -68]>>, <<>>, <<>> >>),
      Answers(0, << <<Sample(29, <<Fixed("size", [x \in 1..16 |-> 1])>>)>>, <<>>, <<>> >>)>>

Requests ==
    LET names == FoldSet(LAMBDA name, sequence : Append(sequence, name), <<>>,
                        {known.NAME : known \in Records} \cup {type[2] : type \in RECORD_TYPES}) IN
    [n \in DOMAIN names |->
        CASE n % 3 = 0 -> Asks(names[n], "Disable", [set |-> {"ad"}, udp_payload_size |-> 0])
          [] n % 3 = 1 -> Asks(names[n], "SendAndHide", [set |-> {"cd"}, udp_payload_size |-> 1232])
          [] n % 3 = 2 -> Asks(names[n], "SendAndShow", [set |-> {"aa", "do"}, udp_payload_size |-> 0])]

Cases == Alone \o Mixed \o Long \o Off(-1) \o Off(1) \o Wrong \o Requests

Sent == [i \in DOMAIN Cases |-> CaseBytes(i, Cases[i])]

\* Cuts are within the record, and anywhere in one message that has all else.
CutFrom(i) ==
    IF i \in DOMAIN Alone THEN 21 ELSE IF i = Len(Alone) + 1 THEN 0 ELSE Len(Sent[i])

MCMessages ==
    UNION {LET whole == Sent[i] IN {SubSeq(whole, 1, n) : n \in CutFrom(i)..Len(whole)} : i \in DOMAIN Cases}

\* A response that was read before: there is no such name.
MCEarlier ==
    {<<[flags |-> Flags(129, 131), rcode |-> 3,
        sections |-> << <<>>, <<>>,
            <<[head |-> [qname |-> Asked, type |-> 2, qclass |-> 1, ttl |-> <<0, 0, 0, 1>>],
               fields |-> [nameserver |-> Asked]]>>, <<>> >>]>>}

\* Every format, with and without OPT records, and telling how long it took
\* or not.
MCShapes ==
    {[format |-> f, show_opt |-> opt, timed |-> (f = "JSON") = opt] :
        f \in {"Text", "Short", "JSON"}, opt \in BOOLEAN}

MCSendErrors ==
    {[error |-> error, why |-> <<"why">>] :
        error \in {"TruncatedResponse", "NetworkError", "Timeout", "MismatchedResponse", "InvalidNameserver",
                   "TlsError", "TlsHandshakeError", "HttpError", "MalformedHttp"}}
    \cup {[error |-> "WrongHttpStatus", status |-> 404, reason |-> reason] : reason \in {"None", "", "Not Found"}}

-----------------------------------------------------------------------------
(* Properties.                                                             *)

Case == 256 * message[1] + message[2]
HasCase == Len(message) >= 2
IsCut == ~HasCase \/ Len(message) < Len(Sent[Case])
IsWrong == HasCase /\ Case > Len(Alone) + Len(Mixed) + Len(Long) /\ Cases[Case].kind = "response"
IsSound == ~IsCut /\ ~IsWrong

SentEntries(case) ==
    IF case.kind = "request"
    THEN << <<>>, <<>>, IF case.edns = "Disable" THEN <<>> ELSE
            <<[qname |-> <<>>, type |-> 41,
               fields |-> [udp_payload_size |-> U16Bytes(IF case.tweaks.udp_payload_size = 0 THEN 512 ELSE 1232),
                           higher_bits |-> <<0>>, edns0_version |-> <<0>>,
                           flags |-> <<IF "do" \in case.tweaks.set THEN 128 ELSE 0, 0>>, data |-> <<>>]]>> >>
    ELSE [s \in 1..3 |-> [j \in DOMAIN case.items[s] |-> ItemEntry(case.items[s][j])]]

SentFlags(case) ==
    IF case.kind = "request"
    THEN {"rd"} \cup (case.tweaks.set \ {"do"})
    ELSE {"qr", "rd", "ra", "ad"}

FlagsRead ==
    LET flags == Flags(header.flags[1], header.flags[2]) IN
    {f \in {"qr", "aa", "tc", "rd", "ra", "ad", "cd"} :
        [qr |-> flags.response, aa |-> flags.authoritative, tc |-> flags.truncated,
         rd |-> flags.recursion_desired, ra |-> flags.recursion_available,
         ad |-> flags.authentic_data, cd |-> flags.checking_disabled][f]}

SentRcode(case) ==
    IF case.kind = "request" THEN 0
    ELSE IF case.items[3] # <<>> /\ case.items[3][1] = Opt(1) THEN 16 + case.rcode ELSE case.rcode

SentType(case) == IF case.kind = "request" THEN case.type ELSE "A"

EntriesRead == [s \in 1..3 |-> [j \in DOMAIN entries[s + 1] |-> EntryRead(entries[s + 1][j])]]

SaysWhatWasSent ==
    /\ result = "Ok"
    /\ FlagsRead = SentFlags(Cases[Case]) /\ Rcode = SentRcode(Cases[Case])
    /\ Len(entries[Query]) = 1
    /\ LET query == entries[Query][1] IN
       /\ query.qname = Asked /\ query.qclass = 3
       /\ RecordType(query.qtype).name = SentType(Cases[Case])
    /\ EntriesRead = SentEntries(Cases[Case])

\* A message is read as what was sent: the flags, the code of twelve bits, the
\* query, by the name of its type, and every field of every record; a message
\* cut off anywhere is an error of input, and one with a length that is off is
\* never taken for the one that was meant (wire.rs, to_bytes and from_bytes).
MessagesReadBack ==
    result # "Reading" =>
        /\ IsCut => result = "IO"
        /\ IsSound => SaysWhatWasSent
        /\ IsWrong => ~SaysWhatWasSent

-----------------------------------------------------------------------------

\* Without OPT records, unless they are to be shown.
ToShow(sent) == IF show_opt THEN sent ELSE SelectSeq(sent, LAMBDA entry : entry.type # 41)

SentRows ==
    FlattenSeq([s \in 1..3 |->
        LET shown == ToShow(SentEntries(Cases[Case])[s]) IN
        [j \in DOMAIN shown |-> <<<<"Answer", "Authority", "Additional">>[s], shown[j].type, shown[j].qname>>]])

SentStatus(code) ==
    CASE code = 0 -> <<>>
      [] code = 2 -> << <<"ServerFailure">> >>
      [] code = 3 -> << <<"NXDomain">> >>
      [] code = 16 -> << <<"BadVersion">> >>
      [] OTHER -> << <<"Other", code>> >>

\* A status for each response with a code, then all of the records, and last
\* how long it took.
SentLines ==
    << <<"NXDomain">> >>
        \o SentStatus(SentRcode(Cases[Case]))
        \o << <<"Authority", 2, Asked>> >> \o SentRows
        \o (IF timed THEN << <<"Ran in">> >> ELSE <<>>)

LineRead(line) ==
    CASE line.line = "Status" -> line.code
      [] line.line = "Row" -> <<line.section, line.number, line.name>>
      [] line.line = "Ran in" -> <<"Ran in">>

\* The table tells every record that was sent, under its section, in the order
\* of the sections and of the responses, and none twice, with the statuses of
\* all responses before them; what was written when writing failed is the
\* beginning of that (output.rs, print_text; table.rs).
RowsTellTheRecords ==
    format = "Text" /\ result = "Ok" /\ responses # Unread /\ IsSound =>
        LET lines == [i \in DOMAIN output |-> LineRead(output[i])] IN
        /\ IsPrefix(lines, SentLines)
        /\ output = Document(responses) => lines = SentLines

\* JSON leaves nothing out: neither a flag, the code, the class or the type
\* that was asked for, nor any field of any record, each of which is there
\* under a key, as what it says (output.rs, json_response, json_record_data
\* and the functions they call).
JsonLeavesNothingOut ==
    format = "JSON" /\ output # <<>> /\ result = "Ok" /\ IsSound /\ Cases[Case].kind = "response" =>
        LET response == output[1].responses[Len(earlier) + 1]
            written == <<response.answers, response.authorities, response.additionals>>
            code == SentRcode(Cases[Case])
        IN
        /\ {f \in DOMAIN response.flags \ {"opcode", "rcode"} : response.flags[f]} = SentFlags(Cases[Case])
        /\ response.flags.rcode =
              CASE code = 0 -> Word("NOERROR") [] code = 2 -> Word("SERVFAIL") [] code = 3 -> Word("NXDOMAIN")
                [] code = 16 -> Word("BADVERS") [] OTHER -> [number |-> code]
        /\ response.queries = <<[name |-> Asked, class |-> Word("CH"), type |-> Word("A")]>>
        /\ \A s \in 1..3 :
               LET items == SelectSeq(Cases[Case].items[s], LAMBDA item : show_opt \/ item.number # 41) IN
               /\ Len(written[s]) = Len(items)
               /\ \A j \in DOMAIN items :
                      LET shown == ItemShown(items[j])
                          data == written[s][j].data
                      IN  \A f \in DOMAIN shown : \E key \in DOMAIN data : data[key].value = shown[f]

-----------------------------------------------------------------------------
(* Whether two values are ever shown as the same text.  That is looked at  *)
(* once, as one message is about to be read.                               *)

Once == message = Sent[1] /\ section = 0 /\ format = "Text" /\ show_opt

Injective(Shows(_), values) == Cardinality({Shows(v) : v \in values}) = Cardinality(values)

\* Labels of up to two bytes: control characters, what is escaped, a digit, a
\* letter, and what is beyond ASCII.
SomeLabels == UNION {[1..n -> {1, 10, 34, 46, 48, 92, 97, 200}] : n \in 1..2}

Durations == (0..200) \cup UNION {(n - 70)..(n + 70) : n \in {3600, 86400, 90000, 172800}}

Arcs == {sign * (d * Degree + m * 60000 + ms) :
            sign \in {-1, 1}, d \in {0, 1, 89}, m \in {0, 59}, ms \in {0, 1, 999, 1000, 59999}}

\* The bitmaps of a set of types below 512, as RFC 4034 has them.
Window(types, w) ==
    LET inside == {t % 256 : t \in {u \in types : u \div 256 = w}}
        byte(b) == FoldSet(LAMBDA t, n : n + 2^(7 - (t % 8)), 0, {t \in inside : t \div 8 = b})
        last == CHOOSE b \in 0..31 : (\E t \in inside : t \div 8 = b) /\ \A t \in inside : t \div 8 <= b
    IN  IF inside = {} THEN <<>> ELSE <<w, last + 1>> \o [b \in 1..(last + 1) |-> byte(b - 1)]

Bitmaps(types) == Window(types, 0) \o Window(types, 1)

ReadTypes(types) == LET read == TypeBitmaps(Bitmaps(types)) IN
    /\ Len(read) = Cardinality(types) /\ ToSet(read) = types
    /\ \A i, j \in DOMAIN read : i < j => read[i] < read[j]

\* No two names are shown alike, nor two durations or places, and the types in
\* a bitmap are those that were put there, in order (strings.rs, the Display
\* of Labels; output.rs, format_duration_hms; loc.rs; nsec.rs).
TextsTellApart ==
    Once =>
        /\ Injective(ShownName, {<<>>} \cup {<<l>> : l \in SomeLabels} \cup {<<l, k>> : l, k \in SomeLabels})
        /\ Injective(DurationHMS, Durations)
        /\ \A vertical \in BOOLEAN : Injective(LAMBDA arc : Position(arc, vertical), Arcs)
        /\ \A types \in SUBSET {1, 7, 8, 255, 256, 300, 511} : ReadTypes(types)

=============================================================================
