----------------------------- MODULE H2Exchange -----------------------------
(***************************************************************************)
(* One HTTP/2 exchange over an open TLS stream (dns-transport/src/h2.rs):  *)
(* everything dog has to say is written at once, then frames are read and  *)
(* dealt with one at a time, and some of them answered, until one ends the *)
(* response.                                                               *)
(*                                                                         *)
(* The server is the environment, and may send any frames in any order.    *)
(* How a frame's bytes are cut up on their way, and the deadline, are as   *)
(* in StreamExchange.  The decoding of a block of headers is Hpack's.      *)
(***************************************************************************)
EXTENDS Integers, SequencesExt, Messages

CONSTANTS
    TheRequest,    \* the request sent
    Frames,        \* the frames the server may send
    MaxFrames,     \* bound: how many of them
    StatusIn(_),   \* what `status' finds in a block of headers, -1 if nothing
    Decode(_),     \* Response::from_bytes: a message for a body
    PriorityLength, \* the bytes of a priority (5)
    MAX_FRAME,     \* the longest payload (16384)
    MAX_BODY,      \* the longest body (65535)
    IoErrors       \* errors of reads and writes: TruncatedResponse, Timeout, NetworkError

\* The flags that dog looks at.  Two of them are the same bit.
END_STREAM == 1
ACK == 1
PADDED == 8
PRIORITY == 32

ASSUME LimitsAssumption ==
    /\ MaxFrames \in Nat /\ PriorityLength \in Nat
    /\ MAX_FRAME \in Nat /\ MAX_BODY \in Nat

\* A payload is bytes.
ASSUME FramesAssumption == \A frame \in Frames : frame.payload \in Seq(Nat)

ASSUME IoErrorsAssumption == "MalformedHttp" \notin IoErrors

VARIABLES
    pc,            \* what exchange is doing: send, read, reply or done
    headers,       \* Incoming: whether the final status has arrived
    body,          \* Incoming: the body so far
    ended,         \* Incoming: whether the response is over
    reply,         \* the frame to send back
    received,      \* history: the frames read
    replied,       \* history: the frames sent back
    result         \* what exchange returns

incoming == <<headers, body, ended>>
vars == <<pc, incoming, reply, received, replied, result>>

\* No frame to send back.
None == [kind |-> "none"]

-----------------------------------------------------------------------------
(* The content of a frame: its payload without padding and priority.       *)

IsPadded(frame) == PADDED \in frame.flags

\* How much comes before the content: the length of the padding, and for
\* headers the priority.
Before(frame) ==
    (IF IsPadded(frame) THEN 1 ELSE 0)
        + (IF frame.kind = "HEADERS" /\ PRIORITY \in frame.flags THEN PriorityLength ELSE 0)

Padding(frame) ==
    IF IsPadded(frame) /\ frame.payload # <<>> THEN Head(frame.payload) ELSE 0

TooShort(frame) == Len(frame.payload) < Before(frame) + Padding(frame)

Content(frame) ==
    SubSeq(frame.payload, Before(frame) + 1, Len(frame.payload) - Padding(frame))

-----------------------------------------------------------------------------

Init ==
    /\ pc = "send" /\ headers = FALSE /\ body = <<>> /\ ended = FALSE
    /\ reply = None /\ received = <<>> /\ replied = <<>>
    /\ result = Pending

Return(outcome) == pc' = "done" /\ result' = outcome

Malformed == Return(Failed("MalformedHttp"))

\* Only a very long path makes a frame of the request too long.
RequestTooLong ==
    /\ pc = "send"
    /\ Malformed
    /\ UNCHANGED <<incoming, reply, received, replied>>

SendRequest ==
    /\ pc = "send" /\ pc' = "read"
    /\ UNCHANGED <<incoming, reply, received, replied, result>>

\* A frame has been read whole.
Receive(frame) ==
    /\ pc = "read" /\ Len(received) < MaxFrames
    /\ received' = Append(received, frame)
    /\ UNCHANGED replied

\* A frame of this kind on the stream of the request.
Ours(kind, frame) == frame.kind = kind /\ frame.ours

TooLong(frame) == Len(frame.payload) > MAX_FRAME

\* The length is looked at before the payload is read.
FrameTooLong ==
    /\ \E frame \in Frames : Receive(frame) /\ TooLong(frame)
    /\ Malformed
    /\ UNCHANGED <<incoming, reply>>

\* Mutant of NeedsReply: acknowledgements are acknowledged.
RepliesToAll(frame) == frame.kind \in {"SETTINGS", "PING"}

NeedsReply(frame) == frame.kind \in {"SETTINGS", "PING"} /\ ACK \notin frame.flags

\* Settings are acknowledged, and pings sent back, whatever stream they name.
Reply(frame) ==
    [kind |-> frame.kind, ours |-> FALSE, flags |-> {ACK},
     payload |-> IF frame.kind = "PING" THEN frame.payload ELSE <<>>]

Acknowledge(frame) ==
    /\ NeedsReply(frame)
    /\ reply' = Reply(frame) /\ pc' = "reply"
    /\ UNCHANGED <<incoming, result>>

\* Mutant of Refuses: any stream that is reset is dog's.
RefusesAny(frame) == frame.kind \in {"GOAWAY", "PUSH_PROMISE", "RST_STREAM"}

\* The server gives up, or pushes what it was told not to.
Refuses(frame) ==
    \/ frame.kind \in {"GOAWAY", "PUSH_PROMISE"}
    \/ frame.kind = "RST_STREAM" /\ frame.ours

Stopped(frame) ==
    /\ Refuses(frame)
    /\ Malformed
    /\ UNCHANGED <<incoming, reply>>

\* Mutant of GoOn: one frame is enough.
GoOnlyOnce == Return(Judged(TheRequest, Decode(body')))

\* The loop of read_body ends when the response is over.
GoOn ==
    IF ended' THEN Return(Judged(TheRequest, Decode(body'))) ELSE UNCHANGED <<pc, result>>

\* What the headers of a frame say, where NoStatus is an error of status or
\* content.
NoStatus == -1

StatusOf(frame) == IF TooShort(frame) THEN NoStatus ELSE StatusIn(Content(frame))

Informational(status) == status \in 100..199

\* Headers after the final ones, whose content is not looked at.
Trailers(frame) ==
    /\ headers
    /\ ended' = (END_STREAM \in frame.flags)
    /\ UNCHANGED <<headers, body>>
    /\ GoOn

Interim(frame) ==
    /\ ~headers /\ Informational(StatusOf(frame))
    /\ UNCHANGED <<pc, incoming, result>>

FinalHead(frame) ==
    /\ ~headers /\ StatusOf(frame) = 200
    /\ headers' = TRUE /\ ended' = (END_STREAM \in frame.flags)
    /\ UNCHANGED body
    /\ GoOn

BadHead(frame) ==
    /\ ~headers /\ StatusOf(frame) # 200 /\ ~Informational(StatusOf(frame))
    /\ IF StatusOf(frame) = NoStatus THEN Malformed ELSE Return(Failed("WrongHttpStatus"))
    /\ UNCHANGED incoming

Headers(frame) ==
    /\ Ours("HEADERS", frame)
    /\ Trailers(frame) \/ Interim(frame) \/ FinalHead(frame) \/ BadHead(frame)
    /\ UNCHANGED reply

\* Mutant of BodyAllowed: the body may come first.
BodyAnytime(frame) == ~TooShort(frame) /\ Len(body) + Len(Content(frame)) <= MAX_BODY

BodyAllowed(frame) ==
    /\ headers
    /\ ~TooShort(frame)
    /\ Len(body) + Len(Content(frame)) <= MAX_BODY

\* A frame that makes the body too long is refused with it: what the code
\* has added to it by then is dropped.
Data(frame) ==
    /\ Ours("DATA", frame)
    /\ IF BodyAllowed(frame)
       THEN /\ body' = body \o Content(frame)
            /\ ended' = (END_STREAM \in frame.flags)
            /\ UNCHANGED headers
            /\ GoOn
       ELSE Malformed /\ UNCHANGED incoming
    /\ UNCHANGED reply

\* Acknowledgements, other streams, window updates, and what is yet unknown.
Ignore(frame) ==
    /\ frame.kind \in {"HEADERS", "DATA", "RST_STREAM"} => ~frame.ours
    /\ ~NeedsReply(frame) /\ ~Refuses(frame)
    /\ UNCHANGED <<pc, incoming, reply, result>>

\* read_frame and handle.
ReadFrame ==
    \E frame \in Frames :
        /\ Receive(frame) /\ ~TooLong(frame)
        /\ \/ Acknowledge(frame)
           \/ Stopped(frame)
           \/ Headers(frame)
           \/ Data(frame)
           \/ Ignore(frame)

SendReply ==
    /\ pc = "reply" /\ pc' = "read"
    /\ replied' = Append(replied, reply) /\ reply' = None
    /\ UNCHANGED <<incoming, received, result>>

\* A read or a write fails, or the stream ends.
IoFails ==
    /\ pc # "done"
    /\ \E error \in IoErrors : Return(Failed(error))
    /\ UNCHANGED <<incoming, reply, received, replied>>

Done == pc = "done" /\ UNCHANGED vars

Next == RequestTooLong \/ SendRequest \/ FrameTooLong \/ ReadFrame \/ SendReply \/ IoFails \/ Done

Spec == Init /\ [][Next]_vars

-----------------------------------------------------------------------------
(* Properties.                                                             *)

\* The errors in reading the response, before it is judged.
Errors == {"MalformedHttp", "WrongHttpStatus"} \cup IoErrors

Ends(frame) == END_STREAM \in frame.flags

\* The first headers that are not those of an interim response.
Final(i) ==
    /\ Ours("HEADERS", received[i]) /\ StatusOf(received[i]) \notin 100..199
    /\ \A j \in 1..(i - 1) : Ours("HEADERS", received[j]) => StatusOf(received[j]) \in 100..199

\* What these frames carry of the body, one after the other.
Carried(frames) ==
    LET upto[n \in 0..Len(frames)] ==
            IF n = 0 THEN <<>>
            ELSE IF Ours("DATA", frames[n]) THEN upto[n - 1] \o Content(frames[n])
            ELSE upto[n - 1]
    IN upto[Len(frames)]

\* A response is answered with only once it is whole, and with all of it: its
\* final headers say 200, no part of the body came before them, its last frame
\* is the first since that ends the stream, and the body is what its frames
\* carry, in order, whatever other frames, interim responses and trailers came
\* in between (h2.rs, read_body).
AnswerIsTheWholeResponse ==
    result \notin {Pending} \cup {Failed(error) : error \in Errors} =>
        \E i \in {k \in DOMAIN received : Final(k)} :
            LET last == Len(received) IN
            /\ StatusOf(received[i]) = 200
            /\ \A j \in 1..(i - 1) : ~Ours("DATA", received[j])
            /\ \A j \in i..last :
                  (Ours("DATA", received[j]) \/ Ours("HEADERS", received[j])) /\ Ends(received[j]) <=> j = last
            /\ result = Judged(TheRequest, Decode(Carried(received)))

\* The frames that are to be answered.
Asks(frame) == frame.kind \in {"SETTINGS", "PING"} /\ ACK \notin frame.flags

\* What was sent back answers, of the first n frames, those that are to be
\* answered, each once and in order.
Answers(n) ==
    \E to \in [1..Len(replied) -> 1..n] :
        /\ \A k \in 1..Len(replied) : replied[k] = Reply(received[to[k]])
        /\ \A j, k \in 1..Len(replied) : j < k => to[j] < to[k]
        /\ \A i \in 1..n : Asks(received[i]) <=> \E k \in 1..Len(replied) : to[k] = i

\* Every settings frame and every ping is answered, once and in order, before
\* dog reads another frame; nothing else is (h2.rs, handle).
RepliesKeepUp == pc = "read" => Answers(Len(received))

\* What the server does to other streams does not end this one: an exchange
\* is given up as malformed only for a frame that may do so.
OtherStreamsAreIgnored ==
    result = Failed("MalformedHttp") =>
        \/ received = <<>>
        \/ TooLong(Last(received))
        \/ Last(received).kind \in {"GOAWAY", "PUSH_PROMISE"}
        \/ Last(received).ours /\ Last(received).kind \in {"HEADERS", "DATA", "RST_STREAM"}

\* An HTTP/2 exchange keeps what any exchange over HTTP promises.
Promise == INSTANCE HttpResponse WITH head <- headers, whole <- ended

ImplementsHttpResponse == Promise!Spec

=============================================================================
