------------------------------ MODULE Printing -------------------------------
(***************************************************************************)
(* What dog prints of the responses it has read (output.rs, table.rs and   *)
(* the end of main.rs): a table, a line for each answer, or one JSON       *)
(* document, line by line, while writing may fail at any of them.          *)
(*                                                                         *)
(* A value that is shown says how, and is what module Texts makes of it;   *)
(* base64 and UTF-8 are libraries' and keep the bytes.  Colours are left   *)
(* out, and so are the widths of columns.                                  *)
(***************************************************************************)
EXTENDS MessageReading, Texts

CONSTANTS
    AsSeconds, \* durations are shown in seconds
    Earlier,   \* the responses that may have been read before this one
    Shapes,    \* the formats of the output, with what it is to tell
    SendErrors \* how an exchange may fail when no message arrives

\* Errors that are not of a message that was read.
SendErrorKinds ==
    {"TruncatedResponse", "NetworkError", "Timeout", "MismatchedResponse", "InvalidNameserver", "TlsError",
     "TlsHandshakeError", "HttpError", "WrongHttpStatus", "MalformedHttp"}

ASSUME SendErrorsAssumption == \A error \in SendErrors : error.error \in SendErrorKinds

\* Earlier responses are what Response makes of a message.
ASSUME EarlierAssumption ==
    \A rs \in Earlier :
        /\ Len(rs) \in Nat /\ rs = [i \in 1..Len(rs) |-> rs[i]]
        /\ \A i \in 1..Len(rs) : DOMAIN rs[i] = {"flags", "rcode", "sections"}

VARIABLES
    format,    \* Text, Short or JSON
    show_opt,  \* OPT records are to be shown
    timed,     \* how long it took is to be told
    earlier,   \* the responses read before
    responses, \* those to be printed, with this one, once it is read or failed
    errored,   \* reading this one failed
    output,    \* what has been written to standard output, by lines
    said,      \* what has been written to standard error
    status     \* the exit status, Aborted, or None yet

printing == <<format, show_opt, timed, earlier, responses, errored, output, said, status>>

None == -1
Aborted == -2
Unread == <<[unread |-> TRUE]>>

\* exits::SUCCESS, NETWORK_ERROR, NO_SHORT_RESULTS and SYSTEM_ERROR.
SUCCESS == 0
NETWORK_ERROR == 1
NO_SHORT_RESULTS == 2
SYSTEM_ERROR == 4

-----------------------------------------------------------------------------
(* How each field of each type is shown in a summary, and under which key  *)
(* in JSON.                                                                *)

Plain(f) == <<"plain", f>>       \* as a number or an address
Quoted(f) == <<"name", f>>       \* a name in quotes
Text(f) == <<"ascii", f>>        \* a string, escaped
Seconds(f) == <<"duration", f>>
Hexed(f) == <<"hex", f>>
Octets(f) == <<"octets", f>>
Base64(f) == <<"base64", f>>
Highest(f) == <<"highest", f>>   \* the highest bit
Place(f) == <<f, f>>             \* as LOC shows this one
Types(f) == <<"types", f>>       \* the types in bitmaps
TypeName(f) == <<"type", f>>     \* the name of a type, if it has one
Algorithm(f) == <<"algorithm", f>>
DigestType(f) == <<"digest", f>>
Lossy(f) == <<"utf8", f>>        \* a string, with what is not UTF-8 replaced

Number(bytes) == FoldLeft(LAMBDA n, byte : 256 * n + byte, 0, bytes)

\* The number of a position less 2^31, which fits an integer.
Relative(b) == (256 * b[1] + b[2] - 32768) * 65536 + 256 * b[3] + b[4]

NameOfType(number) == UnknownQtype(number).name

\* The name of a number, for which the number stands; nothing if it has none.
NameIf(named, value) == IF named THEN value ELSE <<>>

Converted(how, value) ==
    CASE how = "name" -> ShownName(value)
      [] how = "ascii" -> Ascii(value)
      [] how = "strings" -> [i \in DOMAIN value |-> Ascii(value[i])]
      [] how = "duration" -> FormatDuration(AsSeconds, Number(value))
      [] how = "hex" -> Hex(value)
      [] how = "octets" -> FormattedAddress(value)
      [] how = "highest" -> <<value[1] \div 128>>
      [] how = "types" -> TypeBitmaps(value)
      [] how = "type" -> NameIf(NameOfType(Number(value)) # "", value)
      [] how = "algorithm" -> NameIf(value[1] \in DNSSEC_ALGORITHMS, value)
      [] how = "digest" -> NameIf(value[1] \in DIGEST_TYPES, value)
      [] how \in {"size", "horizontal_precision", "vertical_precision"} -> ShownSize(value[1])
      [] how \in {"latitude", "longitude"} -> Position(Relative(value), how = "latitude")
      [] how = "altitude" -> Altitude(Number(value) - 10000000)
      [] OTHER -> value

Summary ==
    [A |-> <<Plain("address")>>, AAAA |-> <<Plain("address")>>,
     CAA |-> <<Text("tag"), Text("value"), Highest("critical")>>,
     CNAME |-> <<Quoted("domain")>>,
     DNSKEY |-> <<Plain("flags"), Plain("protocol"), Plain("algorithm"), Base64("public_key")>>,
     DS |-> <<Plain("key_tag"), Plain("algorithm"), Plain("digest_type"), Hexed("digest")>>,
     EUI48 |-> <<Octets("octets")>>, EUI64 |-> <<Octets("octets")>>,
     HINFO |-> <<Text("cpu"), Text("os")>>,
     LOC |-> <<Place("size"), Place("horizontal_precision"), Place("vertical_precision"),
               Place("latitude"), Place("longitude"), Place("altitude")>>,
     MX |-> <<Plain("preference"), Quoted("exchange")>>,
     NAPTR |-> <<Plain("order"), Plain("preference"), Text("flags"), Text("service"),
                 Text("regex"), Quoted("replacement")>>,
     NS |-> <<Quoted("nameserver")>>,
     NSEC |-> <<Quoted("next_domain"), Types("types")>>,
     OPENPGPKEY |-> <<Base64("key")>>,
     PTR |-> <<Quoted("cname")>>,
     RRSIG |-> <<TypeName("type_covered"), Plain("algorithm"), Plain("key_tag"),
                 Quoted("signer_name"), Base64("signature")>>,
     SSHFP |-> <<Plain("algorithm"), Plain("fingerprint_type"), Hexed("fingerprint")>>,
     SOA |-> <<Quoted("mname"), Quoted("rname"), Plain("serial"), Seconds("refresh_interval"),
               Seconds("retry_interval"), Seconds("expire_limit"), Seconds("minimum_ttl")>>,
     SRV |-> <<Plain("priority"), Plain("weight"), Quoted("target"), Plain("port")>>,
     TLSA |-> <<Plain("certificate_usage"), Plain("selector"), Plain("matching_type"),
                Hexed("certificate_data")>>,
     TXT |-> << <<"strings", "messages">> >>,
     URI |-> <<Plain("priority"), Plain("weight"), Text("target")>>]

PseudoSummary ==
    <<Plain("udp_payload_size"), Plain("higher_bits"), Plain("edns0_version"), Plain("flags"),
      Plain("data")>>

\* The name of a number is left out when it has none (insert_name).
JsonDNSKEY == [flags |-> Plain("flags"), protocol |-> Plain("protocol"),
               algorithm |-> Plain("algorithm"), algorithm_name |-> Algorithm("algorithm"),
               public_key |-> Base64("public_key")]

JsonDS == [key_tag |-> Plain("key_tag"), algorithm |-> Plain("algorithm"),
           algorithm_name |-> Algorithm("algorithm"), digest_type |-> Plain("digest_type"),
           digest_type_name |-> DigestType("digest_type"), digest |-> Hexed("digest")]

JsonLOC == [size |-> Place("size"), horizontal |-> Place("horizontal_precision"),
            vertical |-> Place("vertical_precision"), latitude |-> Place("latitude"),
            longitude |-> Place("longitude"), altitude |-> Place("altitude")]

JsonNAPTR == [order |-> Plain("order"), preference |-> Plain("preference"), flags |-> Lossy("flags"),
              service |-> Lossy("service"), regex |-> Lossy("regex"),
              replacement |-> Quoted("replacement")]

JsonRRSIG == [type_covered |-> Plain("type_covered"), type_covered_name |-> TypeName("type_covered"),
              algorithm |-> Plain("algorithm"), algorithm_name |-> Algorithm("algorithm"),
              labels |-> Plain("labels"), original_ttl |-> Plain("original_ttl"),
              signature_expiration |-> Plain("signature_expiration"),
              signature_inception |-> Plain("signature_inception"), key_tag |-> Plain("key_tag"),
              signer_name |-> Quoted("signer_name"), signature |-> Base64("signature")]

JsonSSHFP == [algorithm |-> Plain("algorithm"), fingerprint_type |-> Plain("fingerprint_type"),
              fingerprint |-> Hexed("fingerprint")]

\* Mutant of JsonSOA: a field under another's key, which is left out.
JsonSOARetryTwice ==
    [mname |-> Quoted("mname"), rname |-> Quoted("rname"), serial |-> Plain("serial"),
     refresh |-> Plain("retry_interval"), retry |-> Plain("retry_interval"),
     expire |-> Plain("expire_limit"), minimum |-> Plain("minimum_ttl")]

JsonSOA == [mname |-> Quoted("mname"), rname |-> Quoted("rname"), serial |-> Plain("serial"),
            refresh |-> Plain("refresh_interval"), retry |-> Plain("retry_interval"),
            expire |-> Plain("expire_limit"), minimum |-> Plain("minimum_ttl")]

JsonSRV == [priority |-> Plain("priority"), weight |-> Plain("weight"), port |-> Plain("port"),
            target |-> Quoted("target")]

JsonTLSA == [certificate_usage |-> Plain("certificate_usage"), selector |-> Plain("selector"),
             matching_type |-> Plain("matching_type"),
             certificate_data |-> Hexed("certificate_data")]

JsonData ==
    [A |-> [address |-> Plain("address")], AAAA |-> [address |-> Plain("address")],
     CAA |-> [critical |-> Highest("critical"), tag |-> Lossy("tag"), value |-> Lossy("value")],
     CNAME |-> [domain |-> Quoted("domain")], DNSKEY |-> JsonDNSKEY, DS |-> JsonDS,
     EUI48 |-> [identifier |-> Octets("octets")], EUI64 |-> [identifier |-> Octets("octets")],
     HINFO |-> [cpu |-> Lossy("cpu"), os |-> Lossy("os")], LOC |-> JsonLOC,
     MX |-> [preference |-> Plain("preference"), exchange |-> Quoted("exchange")],
     NAPTR |-> JsonNAPTR, NS |-> [nameserver |-> Quoted("nameserver")],
     NSEC |-> [next_domain |-> Quoted("next_domain"), types |-> Types("types")],
     OPENPGPKEY |-> [key |-> Base64("key")], PTR |-> [cname |-> Quoted("cname")],
     RRSIG |-> JsonRRSIG, SSHFP |-> JsonSSHFP, SOA |-> JsonSOA, SRV |-> JsonSRV,
     TLSA |-> JsonTLSA, TXT |-> [messages |-> Lossy("messages")],
     URI |-> [priority |-> Plain("priority"), weight |-> Plain("weight"), target |-> Lossy("target")]]

JsonOPT == [udp_payload_size |-> Plain("udp_payload_size"), extended_rcode_bits |-> Plain("higher_bits"),
            version |-> Plain("edns0_version"), flags |-> Plain("flags"), dnssec_ok |-> Highest("flags"),
            data |-> Plain("data")]

-----------------------------------------------------------------------------
(* The lines.                                                              *)

IsPseudo(entry) == entry.head.type = OPT_RR_TYPE
RecordName(entry) == RecordType(entry.head.type).name
IsKnown(entry) == RecordType(entry.head.type).kind = "Known"

\* The fields of a record as they are shown, in order or by key.
Shown(how, entry) == 
    [i \in DOMAIN how |->
        [how |-> how[i][1], value |-> Converted(how[i][1], entry.fields[how[i][2]])]]

PayloadSummary(entry) ==
    IF IsPseudo(entry) THEN Shown(PseudoSummary, entry)
    ELSE IF IsKnown(entry) THEN Shown(Summary[RecordName(entry)], entry)
    ELSE Shown(<<Plain("bytes")>>, entry)

\* A word, or the number that there is no word for.
Word(word) == [word |-> word]
WordOr(word, number) == IF word \in {"", "Other", "Private"} THEN [number |-> number] ELSE Word(word)

JsonOpcode(opcode) == IF opcode = 0 THEN Word("QUERY") ELSE [number |-> opcode]

JsonRcode(rcode) ==
    LET words == [None |-> "NOERROR", FormatError |-> "FORMERR", ServerFailure |-> "SERVFAIL",
                  NXDomain |-> "NXDOMAIN", NotImplemented |-> "NOTIMP", QueryRefused |-> "REFUSED",
                  BadVersion |-> "BADVERS", Other |-> "Other", Private |-> "Private"]
    IN  WordOr(words[ErrorCode(rcode)], rcode)

JsonFlags(flags, rcode) ==
    [qr |-> flags.response, opcode |-> JsonOpcode(flags.opcode), aa |-> flags.authoritative,
     tc |-> flags.truncated, rd |-> flags.recursion_desired, ra |-> flags.recursion_available,
     ad |-> flags.authentic_data, cd |-> flags.checking_disabled, rcode |-> JsonRcode(rcode)]

JsonClass(class) == WordOr(QClass(class), class)

\* The type that was asked for, and that of a record.
JsonTypeName(qtype) == WordOr(RecordType(qtype).name, qtype)
JsonRecordName(entry) == WordOr(RecordName(entry), entry.head.type)

JsonPayload(entry) ==
    Shown(IF IsKnown(entry) THEN JsonData[RecordName(entry)] ELSE [bytes |-> Plain("bytes")], entry)

JsonAnswer(entry) ==
    IF IsPseudo(entry)
    THEN [name |-> entry.head.qname, type |-> Word("OPT"), data |-> Shown(JsonOPT, entry)]
    ELSE [name |-> entry.head.qname, class |-> JsonClass(entry.head.qclass), ttl |-> entry.head.ttl,
          type |-> JsonRecordName(entry), data |-> JsonPayload(entry)]

JsonAnswers(section_entries) == [i \in DOMAIN section_entries |-> JsonAnswer(section_entries[i])]

JsonQuery(query) ==
    [name |-> query.qname, class |-> JsonClass(query.qclass), type |-> JsonTypeName(query.qtype)]

JsonResponse(response) ==
    [flags |-> JsonFlags(response.flags, response.rcode),
     queries |-> [i \in DOMAIN response.sections[1] |-> JsonQuery(response.sections[1][i])],
     answers |-> JsonAnswers(response.sections[2]),
     authorities |-> JsonAnswers(response.sections[3]),
     additionals |-> JsonAnswers(response.sections[4])]

\* One document, with the duration if it is told.
JsonDocument(rs) ==
    <<[line |-> "Document", responses |-> [i \in DOMAIN rs |-> JsonResponse(rs[i])], duration |-> timed]>>

Sections == <<"Query", "Answer", "Authority", "Additional">>

\* The type as the table has it; one without a name is its number.
TypeText(entry) == RecordType(entry.head.type).name

Ttl(entry) ==
    IF IsPseudo(entry) THEN <<>> ELSE FormatDuration(AsSeconds, Number(entry.head.ttl))

Row(entry, s) ==
    [line |-> "Row", section |-> Sections[s], name |-> entry.head.qname, type |-> TypeText(entry),
     number |-> entry.head.type, ttl |-> Ttl(entry), summary |-> PayloadSummary(entry)]

\* Mutant of Rows: the additional records come before the authorities.
RowsSwapped(response) ==
    FlattenSeq([n \in 1..3 |->
        LET s == <<2, 4, 3>>[n] IN
        [i \in DOMAIN response.sections[s] |-> Row(response.sections[s][i], s)]])

Rows(response) ==
    FlattenSeq([n \in 1..3 |->
        [i \in DOMAIN response.sections[n + 1] |-> Row(response.sections[n + 1][i], n + 1)]])

\* What an error code is called; the number is told of those without a name.
ErrorDescription(rcode) ==
    IF ErrorCode(rcode) \in {"Private", "Other"} THEN <<ErrorCode(rcode), rcode>> ELSE <<ErrorCode(rcode)>>

\* A status line for each error code, before all of the table.
Status(response) ==
    IF response.rcode = 0 THEN <<>>
    ELSE <<[line |-> "Status", code |-> ErrorDescription(response.rcode)]>>

\* Table::print: the rows, and how long it took.
TableLines(rs) ==
    FlattenSeq([i \in DOMAIN rs |-> Rows(rs[i])]) \o (IF timed THEN <<[line |-> "Ran in"]>> ELSE <<>>)

Table(rs) == FlattenSeq([i \in DOMAIN rs |-> Status(rs[i])]) \o TableLines(rs)

Short(rs) ==
    FlattenSeq([i \in DOMAIN rs |->
        [j \in DOMAIN rs[i].sections[2] |->
            [line |-> "Summary", summary |-> PayloadSummary(rs[i].sections[2][j])]]])

Document(rs) ==
    CASE format = "Text" -> Table(rs)
      [] format = "Short" -> Short(rs)
      [] format = "JSON" -> JsonDocument(rs)

-----------------------------------------------------------------------------

PrintInit ==
    /\ Init
    /\ \E shape \in Shapes :
          format = shape.format /\ show_opt = shape.show_opt /\ timed = shape.timed
    /\ earlier \in Earlier
    /\ responses = Unread /\ errored = FALSE
    /\ output = <<>> /\ said = <<>> /\ status = None

\* An exchange that has failed reads nothing more.
ReadOn == responses = Unread /\ ReadStep /\ UNCHANGED printing

Panics ==
    /\ result = "Panic" /\ status = None
    /\ status' = Aborted
    /\ UNCHANGED <<vars, format, show_opt, timed, earlier, responses, errored, output, said>>

\* strip_pseudo_records, unless OPT records are to be shown.
Strip(section_entries) ==
    IF show_opt THEN section_entries ELSE SelectSeq(section_entries, LAMBDA entry : ~IsPseudo(entry))

Response ==
    [flags |-> Flags(header.flags[1], header.flags[2]), rcode |-> Rcode,
     sections |-> [s \in 1..4 |-> IF s = Query THEN entries[s] ELSE Strip(entries[s])]]

ResponseIsRead ==
    /\ result = "Ok" /\ responses = Unread
    /\ responses' = Append(earlier, Response)
    /\ said' = IF Response.flags.truncated THEN Append(said, [line |-> "Truncated"]) ELSE said
    /\ UNCHANGED <<vars, format, show_opt, timed, earlier, errored, output, status>>

-----------------------------------------------------------------------------
(* Errors.  What is said of one is where it happened and what it was.      *)

ErroneousPhase(error) ==
    CASE error \in {"WireError", "MismatchedResponse"} -> "protocol"
      [] error \in {"TruncatedResponse", "NetworkError", "Timeout"} -> "network"
      [] error = "InvalidNameserver" -> "options"
      [] error \in {"TlsError", "TlsHandshakeError"} -> "tls"
      [] error \in {"HttpError", "WrongHttpStatus", "MalformedHttp"} -> "http"

\* What a record was too short, too long or too new for, and by which numbers.
\* The positions of pointers are left out.
WireErrorMessage ==
    CASE result = "WrongRecordLength" ->
            [error |-> result, stated |-> record.stated, mandated |-> todo[1].n,
             exactly |-> todo[1].step = "Exactly"]
      [] result = "WrongLabelLength" ->
            [error |-> result, stated |-> record.stated,
             read |-> IF todo[1].step = "Strings" THEN Total ELSE Taken]
      [] result = "WrongVersion" -> [error |-> result, stated |-> Byte(pos), maximum |-> 0]
      [] OTHER -> [error |-> result]

\* The reason phrase is told only if there is one.
HttpStatusMessage(status_code, reason) ==
    IF reason \in {"None", ""} THEN <<status_code>> ELSE <<status_code, reason>>

\* What other errors say of themselves is `why'.
ErrorMessage(error) ==
    CASE error.error = "WireError" -> WireErrorMessage
      [] error.error = "WrongHttpStatus" ->
            [error |-> error.error, why |-> HttpStatusMessage(error.status, error.reason)]
      [] OTHER -> error

\* print_error: a line, or a JSON object of the same.
PrintError(error) ==
    /\ errored' = TRUE
    /\ responses' = earlier
    /\ said' = Append(said, [line |-> IF format = "JSON" THEN "Error object" ELSE "Error",
                             phase |-> ErroneousPhase(error.error), message |-> ErrorMessage(error)])
    /\ UNCHANGED <<format, show_opt, timed, earlier, output, status>>

\* A message that cannot be read is an error of its protocol.
ReadingFailed ==
    /\ result \notin {"Reading", "Ok", "Panic"} /\ responses = Unread
    /\ PrintError([error |-> "WireError"])
    /\ UNCHANGED vars

\* The exchange failed before any message arrived, which is then no message.
SendFails ==
    /\ result = "Reading" /\ section = 0 /\ message = <<>> /\ responses = Unread
    /\ \E error \in SendErrors : PrintError(error)
    /\ UNCHANGED vars

-----------------------------------------------------------------------------

Printing == responses # Unread /\ status = None

ExitCode(printed) ==
    IF ~printed THEN NO_SHORT_RESULTS ELSE IF errored THEN NETWORK_ERROR ELSE SUCCESS

NoResults ==
    /\ Printing /\ format = "Short" /\ Short(responses) = <<>>
    /\ said' = Append(said, [line |-> "No results"])
    /\ status' = ExitCode(FALSE)
    /\ UNCHANGED <<vars, format, show_opt, timed, earlier, responses, errored, output>>

HasResults == format = "Short" => Short(responses) # <<>>

WriteLine ==
    /\ Printing /\ HasResults /\ Len(output) < Len(Document(responses))
    /\ output' = Append(output, Document(responses)[Len(output) + 1])
    /\ UNCHANGED <<vars, format, show_opt, timed, earlier, responses, errored, said, status>>

\* A line, or the flush at the end, cannot be written (output_failure).
WriteFails ==
    /\ Printing /\ HasResults
    /\ \E broken_pipe \in BOOLEAN :
        /\ status' = IF broken_pipe THEN ExitCode(TRUE) ELSE SYSTEM_ERROR
        /\ said' = IF broken_pipe THEN said ELSE Append(said, [line |-> "Cannot write output"])
    /\ UNCHANGED <<vars, format, show_opt, timed, earlier, responses, errored, output>>

PrintingEnds ==
    /\ Printing /\ HasResults /\ Len(output) = Len(Document(responses))
    /\ status' = ExitCode(TRUE)
    /\ UNCHANGED <<vars, format, show_opt, timed, earlier, responses, errored, output, said>>

Exited == status # None /\ UNCHANGED <<vars, printing>>

PrintStep ==
    \/ Panics \/ ResponseIsRead \/ ReadingFailed \/ SendFails
    \/ NoResults \/ WriteLine \/ WriteFails \/ PrintingEnds

PrintNext == ReadOn \/ PrintStep \/ Exited

PrintSpec == PrintInit /\ [][PrintNext]_<<vars, printing>>

-----------------------------------------------------------------------------
(* Properties.                                                             *)

\* The errors that were told of, by their places in what was said.
Errors == {i \in DOMAIN said : said[i].line \in {"Error", "Error object"}}

\* The length of the record, where it stands in the message.
Stated == U16(record.begun - 2)

\* What is told of a malformed record is what is wrong with it: the length told
\* is the one in the message, and it and the one it is set against do disagree.
TellsWhatIsWrong(told, stated) ==
    /\ told.error = "WrongRecordLength" =>
          /\ told.stated = stated
          /\ IF told.exactly THEN told.stated # told.mandated ELSE told.stated < told.mandated
    /\ told.error = "WrongLabelLength" => told.stated = stated /\ told.stated # told.read
    /\ told.error = "WrongVersion" => told.stated > told.maximum

\* An exchange that fails is told of once and makes the run fail, and what is
\* told of a malformed record is true (output.rs, print_error and
\* wire_error_message; main.rs, send_all).
ErrorsSayWhatIsWrong ==
    /\ errored <=> Errors # {}
    /\ \A i, j \in Errors : i = j
    /\ status = SUCCESS => ~errored
    /\ status = NETWORK_ERROR => errored
    /\ \A i \in Errors : TellsWhatIsWrong(said[i].message, Stated)

=============================================================================
