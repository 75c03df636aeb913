---------------------------- MODULE HttpExchange ----------------------------
(***************************************************************************)
(* One HTTP/1.1 exchange over an open TLS stream (exchange_https and what  *)
(* it calls, dns-transport/src/https.rs): the request is written, and read *)
(* are the head of the response, up to its blank line, and then as much of *)
(* the body as the head says there is.                                     *)
(*                                                                         *)
(* The server is the environment: it may cut its bytes up anywhere, and    *)
(* stop or close anywhere.  Deadlines are those of StreamExchange.  The    *)
(* parser of heads is a library's; Parse says what it finds.               *)
(***************************************************************************)
EXTENDS Integers, SequencesExt, Messages

CONSTANTS
    TheRequest,    \* the request sent
    Responses,     \* the byte streams the server may send, whole or cut off
    BlankLine,     \* the bytes that end a head
    Parse(_),      \* what httparse finds in a head: see ParseHead
    Decode(_),     \* Response::from_bytes: a message for a body
    MAX_HEAD,      \* the longest head to wait for the end of (8192)
    MAX_BODY,      \* the longest body (65535)
    Buffer,        \* the most that one read returns (4096)
    IoErrors       \* the errors of reads and writes: Timeout, NetworkError

ASSUME LimitsAssumption ==
    /\ MAX_HEAD \in Nat /\ MAX_BODY \in Nat
    /\ Buffer \in Nat \ {0}

ASSUME BytesAssumption ==
    /\ BlankLine \in Seq(Nat) \ {<<>>}
    /\ Responses \subseteq Seq(Nat)

\* A length that a head states is a number, or it is -1.
ASSUME ParseAssumption ==
    \A bytes \in Responses : \A n \in 1..Len(bytes) :
        LET length == Parse(SubSeq(bytes, 1, n)).content_length IN length = -1 \/ length \in Nat

\* The end of the stream is handled apart.
ASSUME IoErrorsAssumption == IoErrors \cap {"TruncatedResponse", "MalformedHttp"} = {}

VARIABLES
    pc,            \* what exchange_https is doing: write, head, body, done
    data,          \* the bytes read so far
    head_end,      \* where the head ends, once that is known
    body_end,      \* where the body ends, once that is known
    sends,         \* what the server would send, given the time
    closed,        \* whether the server sends no more, or has closed
    result         \* what exchange_https returns

vars == <<pc, data, head_end, body_end, sends, closed, result>>

-----------------------------------------------------------------------------

\* Where the blank line ends that starts at some place in the bytes.
HeadEnds(bytes) ==
    {i \in Len(BlankLine)..Len(bytes) : SubSeq(bytes, i - Len(BlankLine) + 1, i) = BlankLine}

\* data.windows(4).position: the first of them.
HeadEnd(bytes) == CHOOSE i \in HeadEnds(bytes) : \A j \in HeadEnds(bytes) : i <= j

\* parse_head and content_length: the length of the body, or an error.  A
\* length that is no number is NoLength, as is one that is not given.
NoLength == -1

ParseHead(head) ==
    LET found == Parse(head) IN
    IF found.parsed = "error" THEN Failed("HttpError")
    ELSE IF found.parsed = "partial" THEN Failed("MalformedHttp")
    ELSE IF found.code # 200 THEN Failed("WrongHttpStatus")
    ELSE IF \/ found.transfer_encoding
            \/ found.content_length = NoLength
            \/ found.content_length > MAX_BODY
    THEN Failed("MalformedHttp")
    ELSE <<"Length", found.content_length>>

Init ==
    /\ pc = "write" /\ data = <<>> /\ head_end = 0 /\ body_end = 0
    /\ sends \in Responses /\ closed = FALSE
    /\ result = Pending

Return(outcome) == pc' = "done" /\ result' = outcome

\* write_all and flush.
WriteRequest ==
    /\ pc = "write" /\ pc' = "head"
    /\ UNCHANGED <<data, head_end, body_end, sends, closed, result>>

\* truncate(body_end), then split_off(head_end).
Body(bytes, from, to) == SubSeq(bytes, from + 1, to)

Finish(bytes, from, to) == Return(Judged(TheRequest, Decode(Body(bytes, from, to))))

\* The blank line is there: the head is parsed, and the body is read if it
\* has not come with the head.
HeadFound(bytes, end, parsed) ==
    /\ head_end' = end
    /\ \/ /\ parsed[1] = "Failed" /\ Return(parsed)
          /\ UNCHANGED body_end
       \/ /\ parsed[1] = "Length"
          /\ body_end' = end + parsed[2]
          /\ IF Len(bytes) < body_end' THEN pc' = "body" /\ UNCHANGED result
             ELSE Finish(bytes, end, body_end')

HeadNotFound(bytes) ==
    /\ IF Len(bytes) > MAX_HEAD THEN Return(Failed("MalformedHttp"))
       ELSE UNCHANGED <<pc, result>>
    /\ UNCHANGED <<head_end, body_end>>

\* Mutants of ReadOn: the length is looked at first; or not at all.
LimitFirst(bytes) ==
    IF HeadEnds(bytes) = {} \/ Len(bytes) > MAX_HEAD THEN HeadNotFound(bytes)
    ELSE HeadFound(bytes, HeadEnd(bytes), ParseHead(SubSeq(bytes, 1, HeadEnd(bytes))))

NoLimit(bytes) ==
    IF HeadEnds(bytes) = {} THEN UNCHANGED <<pc, head_end, body_end, result>>
    ELSE HeadFound(bytes, HeadEnd(bytes), ParseHead(SubSeq(bytes, 1, HeadEnd(bytes))))

\* read_head after each read: look for the blank line in all there is.
ReadOn(bytes) ==
    IF HeadEnds(bytes) = {} THEN HeadNotFound(bytes)
    ELSE HeadFound(bytes, HeadEnd(bytes), ParseHead(SubSeq(bytes, 1, HeadEnd(bytes))))

\* One read that returns n bytes, of those that the server sends.
Receive(n) ==
    /\ ~closed
    /\ n <= Len(sends) - Len(data)
    /\ data' = data \o SubSeq(sends, Len(data) + 1, Len(data) + n)

ReadHead ==
    /\ pc = "head"
    /\ \E n \in 1..Buffer : Receive(n)
    /\ ReadOn(data')
    /\ UNCHANGED <<sends, closed>>

\* Mutant of ReadBody: it waits for more than the stated length.
ReadBeyondBody ==
    /\ pc = "body"
    /\ \E n \in 1..Buffer : Receive(n)
    /\ IF Len(data') <= body_end THEN UNCHANGED <<pc, result>>
       ELSE Finish(data', head_end, body_end)
    /\ UNCHANGED <<head_end, body_end, sends, closed>>

ReadBody ==
    /\ pc = "body"
    /\ \E n \in 1..Buffer : Receive(n)
    /\ IF Len(data') < body_end THEN UNCHANGED <<pc, result>>
       ELSE Finish(data', head_end, body_end)
    /\ UNCHANGED <<head_end, body_end, sends, closed>>

\* Mutant of ReadEnd: what has come by then is taken for the whole body.
ReadEndEndsBody ==
    /\ pc \in {"head", "body"} /\ closed
    /\ IF pc = "body" THEN Finish(data, head_end, Len(data)) ELSE Return(Failed("TruncatedResponse"))
    /\ UNCHANGED <<data, head_end, body_end, sends, closed>>

\* A read of no bytes.
ReadEnd ==
    /\ pc \in {"head", "body"} /\ closed
    /\ Return(Failed("TruncatedResponse"))
    /\ UNCHANGED <<data, head_end, body_end, sends, closed>>

\* A write or a read fails; one that is interrupted is begun again.
IoFails ==
    /\ pc # "done"
    /\ \E error \in IoErrors : Return(Failed(error))
    /\ UNCHANGED <<data, head_end, body_end, sends, closed>>

\* The end of what the server sends, of which dog has read what it will.
Close ==
    /\ pc # "done" /\ ~closed
    /\ closed' = TRUE
    /\ UNCHANGED <<pc, data, head_end, body_end, sends, result>>

Done == pc = "done" /\ UNCHANGED vars

Next == WriteRequest \/ ReadHead \/ ReadBody \/ ReadEnd \/ IoFails \/ Close \/ Done

Spec == Init /\ [][Next]_vars

-----------------------------------------------------------------------------
(* Properties.                                                             *)

\* The errors in reading the response, before it is judged.
Errors == {"HttpError", "MalformedHttp", "WrongHttpStatus", "TruncatedResponse"} \cup IoErrors

\* What the response says when it is read in one piece.
Meant ==
    LET end == HeadEnd(sends)
        parsed == ParseHead(SubSeq(sends, 1, end)) IN
    IF parsed[1] = "Failed" THEN parsed
    ELSE Judged(TheRequest, Decode(SubSeq(sends, end + 1, end + parsed[2])))

HeadIsShort == HeadEnds(sends) # {} /\ HeadEnd(sends) <= MAX_HEAD

\* However the response was cut up, and whatever follows its body, the
\* outcome is that of the message of exactly the stated length behind the
\* first blank line, as if it had come in one piece (read_head and
\* read_http_body search and count again after every read).  Only a head that
\* is too long may be refused or not, by how it comes.
OutcomeIgnoresThePieces ==
    LET cut_off == {Failed(error) : error \in {"TruncatedResponse"} \cup IoErrors}
        too_long == result = Failed("MalformedHttp") /\ ~HeadIsShort IN
    pc = "done" /\ result \notin cut_off /\ ~too_long => result = Meant

\* A response is called cut short only when it is: the connection has closed,
\* and the head's end or part of the stated body is missing.
TruncatedMeansCutShort ==
    result = Failed("TruncatedResponse") =>
        /\ closed
        /\ HeadEnds(data) = {} \/ Len(data) < body_end

\* A server cannot make dog read without end: one buffer beyond the longest
\* head, and then one beyond the longest body (MAX_HEAD and MAX_BODY, which
\* are looked at between reads only).
ReadingIsBounded ==
    /\ pc = "head" => Len(data) <= MAX_HEAD
    /\ head_end <= MAX_HEAD + Buffer
    /\ Len(data) <= MAX_HEAD + MAX_BODY + 2 * Buffer

\* The body, as far as it has been read.
BodyRead ==
    IF body_end = 0 THEN <<>>
    ELSE SubSeq(data, head_end + 1, IF Len(data) < body_end THEN Len(data) ELSE body_end)

\* An HTTP/1.1 exchange keeps what any exchange over HTTP promises.
Promise == INSTANCE HttpResponse WITH
    head <- body_end # 0,
    body <- BodyRead,
    whole <- body_end # 0 /\ Len(data) >= body_end

ImplementsHttpResponse == Promise!Spec

=============================================================================
