---------------------------- MODULE MCH2Exchange ----------------------------
(* A small instance of H2Exchange for TLC; and the bytes of its headers, sent *)
(* and received, against readers and writers made from RFC 7541 and RFC 9113. *)
EXTENDS H2Exchange

MCQuestion == Question("dog", "lower", 1, 1)
MCRequest == Request(1, MCQuestion)

Hpack == INSTANCE Hpack

MCStatus(block) == Hpack!Status(block)

\* Blocks that say 200, 103 and 404, and one that says nothing.
Blocks == {<<136>>, <<8, 3, 49, 48, 51>>, <<141>>, <<130>>}

\* What each body says: <<1>> and <<1, 0>> are the answer; <<0>> is the answer
\* to another request; anything else cannot be read.
MCDecode(bytes) ==
    CASE bytes \in {<<1>>, <<1, 0>>} -> Readable(1, TRUE, <<MCQuestion>>, 0, FALSE)
      [] bytes = <<0>> -> Readable(2, TRUE, <<MCQuestion>>, 0, FALSE)
      [] OTHER -> Unreadable(NoTxid)

Frame(kind, ours, flags, payload) ==
    [kind |-> kind, ours |-> ours, flags |-> flags, payload |-> payload]

\* The headers 200, interim, 404 and unreadable, with every flag; parts of
\* bodies with and without padding, which may be all of the frame or more; the
\* same on another stream; and everything else, asked for and not.
MCFrames ==
    {Frame("HEADERS", TRUE, flags, block) :
        flags \in {{}, {END_STREAM}}, block \in Blocks}
    \cup {Frame("HEADERS", TRUE, {PADDED, PRIORITY, END_STREAM}, <<1, 7, 136, 0>>),
          Frame("HEADERS", TRUE, {PRIORITY}, <<>>),
          Frame("HEADERS", FALSE, {END_STREAM}, <<136>>)}
    \cup {Frame("DATA", TRUE, flags, part) :
             flags \in {{}, {END_STREAM}}, part \in {<<>>, <<0>>, <<1>>, <<1, 0>>}}
    \cup {Frame("DATA", TRUE, {PADDED, END_STREAM}, part) : part \in {<<>>, <<0, 1>>, <<1, 1, 0>>, <<2, 1>>}}
    \cup {Frame("DATA", FALSE, {END_STREAM}, <<1>>), Frame("DATA", TRUE, {}, <<1, 0, 0, 0, 0, 0>>)}
    \cup {Frame(kind, FALSE, flags, <<1>>) : kind \in {"SETTINGS", "PING"}, flags \in {{}, {ACK}}}
    \cup {Frame("RST_STREAM", ours, {}, <<>>) : ours \in BOOLEAN}
    \cup {Frame(kind, FALSE, {}, <<>>) : kind \in {"GOAWAY", "PUSH_PROMISE", "WINDOW_UPDATE"}}

-----------------------------------------------------------------------------
(* A server's writers of statuses, in every way there is, and of Huffman   *)
(* codes.                                                                  *)

Digits(status) == <<48 + (status \div 100), 48 + ((status \div 10) % 10), 48 + (status % 10)>>

BitsOf(code) == [i \in 1..code[2] |-> (code[1] \div 2^(code[2] - i)) % 2]

\* The codes of the digits one after the other, filled up with ones.
Coded(text) ==
    LET bits == FlattenSeq([i \in DOMAIN text |-> BitsOf(Hpack!HUFFMAN_DIGITS[text[i] - 47])])
        bytes == (Len(bits) + 7) \div 8
        bit(i) == IF i <= Len(bits) THEN bits[i] ELSE 1 IN
    [b \in 1..bytes |-> MapThenSumSet(LAMBDA i : bit((8 * (b - 1)) + i) * 2^(8 - i), 1..8)]

TextsOfDigits == UNION {[1..n -> 48..57] : n \in 1..3}

Strings(text) == {Hpack!Integer(Len(text), 7, 0) \o text, Hpack!Integer(Len(Coded(text)), 7, 128) \o Coded(text)}

\* An index; or a name, in each way of writing a field, and a string.
Fields(status) ==
    {<<128 + 7 + i>> : i \in {j \in DOMAIN Hpack!STATIC_STATUSES : Hpack!STATIC_STATUSES[j] = status}}
    \cup {Hpack!Integer(name, written[1], written[2]) \o string :
             name \in 8..14, written \in {<<6, 64>>, <<4, 0>>, <<4, 16>>}, string \in Strings(Digits(status))}

\* Around the places where another byte is needed.
Values == (0..300) \cup UNION {(2^n - 20)..(2^n + 150) : n \in {14, 21, 28}}

SizeChanges == {<<>>, <<32>>, <<63, 225, 31>>, <<62, 32, 63, 0>>}

\* A block is a status between size changes and other fields.
BlocksOf(status) ==
    {sizes \o field \o others : sizes \in SizeChanges, field \in Fields(status), others \in {<<>>, <<130>>}}

-----------------------------------------------------------------------------
(* A server's reader of a request.                                         *)

Http == INSTANCE HttpRequests WITH MAX_FRAME <- 200

\* Entries of the static table (RFC 7541, appendix A).
STATIC_NAMES == (1 :> "host") @@ (4 :> "path") @@ (19 :> "accept") @@ (28 :> "content-length")
                    @@ (31 :> "content-type") @@ (58 :> "user-agent")

\* The fields of a block after its first two bytes, each a name and a text.
FieldsOf(block) ==
    LET fields[at \in 0..Len(block)] ==
            IF at = Len(block) THEN <<>>
            ELSE LET name == Hpack!ReadInteger(Hpack!From(block, at), 4)
                     length == Hpack!ReadInteger(Hpack!From(block, at + name.used), 7)
                     start == at + name.used + length.used
                     text == [i \in 1..length.value |-> Http!Alphabet[block[start + i]]]
                 IN  << <<STATIC_NAMES[name.value], text>> >> \o fields[start + length.value]
    IN  fields[2]

Url(host, port, path) == [ok |-> TRUE, host |-> host, port |-> port, path |-> path]
Path(n) == <<"/">> \o [i \in 1..(n - 1) |-> "dns"]
Body(n) == [i \in 1..n |-> i % 256]

\* Paths around the length that needs another byte, bodies around what fits
\* into one frame and two.
Urls == {Url(host, port, Path(n)) :
            host \in {<<"dns">>, <<":", ":", "1">>}, port \in {53, 443}, n \in {1, 2, 126, 127, 128, 140, 190}}
BodyLengths == {0, 1, 12, 199, 200, 201, 400, 401}

-----------------------------------------------------------------------------
(* Properties of the bytes, each looked at in the first state.             *)

Once == pc = "send"

\* The status is found in whichever way the server writes it: from the static
\* table, under each of the names there, Huffman-coded or not, to be kept or
\* not, behind changes of the table's size (status); and an integer of up to
\* 28 bits behind its prefix reads back whole, using up all its bytes, and a
\* longer one is refused (integer, read_integer).
HeadersReadBack ==
    Once =>
      /\ \A status \in {0, 103, 200, 404, 415, 999} : \A block \in BlocksOf(status) : Hpack!Status(block) = status
      /\ \A value \in Values, bits \in 4..7 :
            LET written == Hpack!Integer(value, bits, 0) IN
            Hpack!ReadInteger(written, bits) =
                IF Len(written) <= 5 THEN Hpack!Some(value, Len(written)) ELSE Hpack!None

\* The codes of some digits decode to those digits, with padding of ones that
\* is less than a byte; and nothing else decodes to digits (huffman_digits).
OnlyCodesDecode ==
    Once =>
      /\ \A text \in TextsOfDigits : Hpack!HuffmanDigits(Coded(text)) = text
      /\ \A coded \in UNION {[1..n -> 0..255] : n \in 1..2} :
            Hpack!HuffmanDigits(coded) # <<>> => Coded(Hpack!HuffmanDigits(coded)) = coded

\* Whichever version the server chooses, it reads the same request: the same
\* host, path and headers, and the length of the body and the body itself
\* whole.  Over HTTP/2 that is, within the limit of a frame, one block of
\* headers and then the parts of the body, of which only the last ends the
\* stream; and a request is only not sent over HTTP/2 because its path is too
\* long (build_http_request, request_bytes, header_block, frame).
RequestsSayTheSame ==
    Once =>
      \A url \in Urls, length \in BodyLengths :
        LET one == Http!BuildHttpRequest(url, Body(length))
            frames == Http!RequestFrames(url, Body(length))
            data == SubSeq(frames, 3, Len(frames))
        IN  /\ Http!CanSend(frames) <=> Len(url.path) < 190
            /\ Http!CanSend(frames) =>
                 /\ [i \in 1..2 |-> frames[i].kind] = <<"SETTINGS", "HEADERS">>
                 /\ SubSeq(frames[2].payload, 1, 2) = <<128 + 3, 128 + 7>>
                 /\ Range(FieldsOf(frames[2].payload)) = Range(one.headers) \cup {<<"path", one.path>>}
                 /\ FlattenSeq([i \in DOMAIN data |-> data[i].payload]) = one.body
                 /\ \A i \in DOMAIN frames :
                       /\ frames[i].stream = (IF i = 1 THEN 0 ELSE 1)
                       /\ i > 2 => frames[i].kind = "DATA"
                       /\ Http!END_STREAM \in frames[i].flags <=> i = Len(frames)

=============================================================================
