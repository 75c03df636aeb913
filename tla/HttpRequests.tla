---------------------------- MODULE HttpRequests -----------------------------
(***************************************************************************)
(* The request that carries a DNS message to a DNS-over-HTTPS server, for  *)
(* either version of HTTP (build_http_request of https.rs, request_bytes   *)
(* of h2.rs).                                                              *)
(*                                                                         *)
(* A request of HTTP/1.1 is a record of its parts.  One of HTTP/2 is its   *)
(* frames, whose payloads are bytes; each word of a text is one byte.      *)
(***************************************************************************)
EXTENDS Addresses

CONSTANTS
    MAX_FRAME      \* the longest payload of a frame (16384)

Hpack == INSTANCE Hpack

\* The kinds and flags of frames that dog sends.
END_STREAM == 1
END_HEADERS == 4

USER_AGENT == <<"dog">>
MESSAGE == <<"application/dns-message">>

\* A number in digits.
Decimal(number) ==
    LET digits[n \in Nat] == IF n < 10 THEN <<ToString(n)>> ELSE Append(digits[n \div 10], ToString(n % 10))
    IN  digits[number]

\* build_http_request.
BuildHttpRequest(url, body) ==
    [method |-> "POST", path |-> url.path,
     headers |-> << <<"host", HostHeader(url)>>, <<"content-type", MESSAGE>>, <<"accept", MESSAGE>>,
                    <<"user-agent", USER_AGENT>>, <<"content-length", Decimal(Len(body))>> >>,
     body |-> body]

-----------------------------------------------------------------------------
(* HTTP/2.                                                                 *)

Alphabet ==
    <<":", "[", "]", "/", "@", "#", "https", "dns", "v4", "dog", "application/dns-message",
      "beef", "53", "443", "0443", "+443", "65535", "65536", "0", "1", "2", "3", "4", "5", "6", "7", "8", "9">>

Byte(word) == CHOOSE i \in DOMAIN Alphabet : Alphabet[i] = word
Bytes(text) == [i \in DOMAIN text |-> Byte(text[i])]

\* header_block: the indices of :method POST and :scheme https, and six names
\* of the static table with a value each.
HeaderBlock(url, body_length) ==
    LET fields == << <<1, HostHeader(url)>>, <<4, url.path>>, <<31, MESSAGE>>, <<19, MESSAGE>>,
                     <<58, USER_AGENT>>, <<28, Decimal(body_length)>> >>
        field(f) == Hpack!Integer(f[1], 4, 0) \o Hpack!Integer(Len(f[2]), 7, 0) \o Bytes(f[2])
    IN  <<131, 135>> \o FlattenSeq([i \in DOMAIN fields |-> field(fields[i])])

\* chunks: all of MAX_FRAME bytes but the last, and one at least.
Chunks(body) ==
    LET count == IF body = <<>> THEN 1 ELSE (Len(body) + MAX_FRAME - 1) \div MAX_FRAME IN
    [n \in 1..count |-> SubSeq(body, (n - 1) * MAX_FRAME + 1, Min({n * MAX_FRAME, Len(body)}))]

RequestFrame(kind, stream, flags, payload) ==
    [kind |-> kind, stream |-> stream, flags |-> flags, payload |-> payload]

\* Mutant of RequestFrames: every part of the body ends the stream.
RequestFramesAllEnding(url, body) ==
    <<RequestFrame("SETTINGS", 0, {}, <<0, 2, 0, 0, 0, 0>>),
      RequestFrame("HEADERS", 1, {END_HEADERS}, HeaderBlock(url, Len(body)))>>
        \o [n \in DOMAIN Chunks(body) |-> RequestFrame("DATA", 1, {END_STREAM}, Chunks(body)[n])]

\* request_bytes, after the preface.
RequestFrames(url, body) ==
    LET chunks == Chunks(body) IN
    <<RequestFrame("SETTINGS", 0, {}, <<0, 2, 0, 0, 0, 0>>),
      RequestFrame("HEADERS", 1, {END_HEADERS}, HeaderBlock(url, Len(body)))>>
        \o [n \in DOMAIN chunks |->
               RequestFrame("DATA", 1, IF n = Len(chunks) THEN {END_STREAM} ELSE {}, chunks[n])]

\* frame refuses a payload that is too long, and with it the request.
CanSend(frames) == \A i \in DOMAIN frames : Len(frames[i].payload) <= MAX_FRAME

=============================================================================
