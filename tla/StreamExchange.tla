--------------------------- MODULE StreamExchange ---------------------------
(***************************************************************************)
(* One exchange over a connected stream, TCP or TLS: the request is        *)
(* written whole, prefixed with its length, and one length-prefixed        *)
(* message is read back (tcp::exchange), over a stream whose every read    *)
(* and write keeps to the deadline (net::DeadlineStream).                  *)
(*                                                                         *)
(* The server is the environment.  It sends the bytes of `reply' as slowly *)
(* as it likes, may stop at any byte, and may close or reset the           *)
(* connection at any time.  A read returns any part of what has arrived,   *)
(* and a write takes any part of what there is to send.                    *)
(***************************************************************************)
EXTENDS Naturals, Sequences, Messages, Deadlines

CONSTANTS
    TheRequest,    \* the request sent
    RequestLength, \* its length in bytes, with the two of the prefix
    Base,          \* how many values a byte has (256)
    Replies,       \* the byte streams the server may send, whole or cut off
    Decode(_),     \* Response::from_bytes: a message for a sequence of bytes
    Timeout,       \* the deadline, in ticks from the start of the exchange
    Lag,           \* how late a read or write may start, in ticks
    Horizon,       \* bound: the last tick of the clock
    IoErrors       \* the kinds of I/O error reads and writes may return

ASSUME TimesAssumption ==
    /\ Timeout \in Nat \ {0}
    /\ Lag \in Nat
    /\ Horizon \in Nat /\ Horizon >= Timeout + Lag

ASSUME BytesAssumption ==
    /\ RequestLength \in Nat /\ RequestLength > 2
    /\ Base \in Nat \ {0}
    /\ Replies \subseteq Seq(0..(Base - 1))

\* Interruptions and the end of the stream are handled apart.
ASSUME IoErrorsAssumption ==
    IoErrors \cap {"Interrupted", "WouldBlock", "TimedOut", "UnexpectedEof"} = {}

VARIABLES
    clock,         \* the time
    pc,            \* what exchange is doing: write, prefix, body or done
    blocked,       \* whether a read or write is in progress
    until,         \* when that read or write gives up
    written,       \* how many bytes of the request have been written
    reply,         \* the bytes the server would send, given the time
    arrived,       \* how many of them have arrived
    closed,        \* whether the server has closed the connection
    got,           \* the bytes read so far
    result         \* what exchange returns

program == <<pc, blocked, until, written, got, result>>
server == <<reply, arrived, closed>>
vars == <<clock, program, server>>

-----------------------------------------------------------------------------
(* The frame.                                                              *)

\* Mutant of StatedLength: from_le_bytes.
SwappedLength(bytes) == (Base * bytes[2]) + bytes[1]

\* u16::from_be_bytes of the two bytes of the prefix.
StatedLength(bytes) == (Base * bytes[1]) + bytes[2]

\* How many more bytes read_exact wants.
Wanted == IF pc = "prefix" THEN 2 - Len(got) ELSE 2 + StatedLength(got) - Len(got)

\* Mutant of Judge: check_response is forgotten.
JudgeUnchecked(message) ==
    IF Decode(message).readable THEN Answered(Decode(message)) ELSE Failed("WireError")

\* The end of exchange.
Judge(message) == Judged(TheRequest, Decode(message))

-----------------------------------------------------------------------------
(* The program.                                                            *)

\* The connection is open; connecting took part of the time.
Init ==
    /\ clock \in 0..Horizon
    /\ pc = "write" /\ blocked = FALSE /\ until = 0
    /\ written = 0 /\ got = <<>>
    /\ reply \in Replies /\ arrived = 0 /\ closed = FALSE
    /\ result = Pending

Return(outcome) == pc' = "done" /\ result' = outcome

\* Mutant of StartIo: every read and write has the whole time limit.
StartFullIo ==
    /\ pc # "done" /\ ~blocked
    /\ ~Expired(Timeout, clock)
    /\ blocked' = TRUE
    /\ \E lag \in 0..Lag : until' = clock + Timeout + lag
    /\ UNCHANGED <<clock, server, pc, written, got, result>>

\* DeadlineStream::read and write: set the socket's timeout to what is left.
StartIo ==
    /\ pc # "done" /\ ~blocked
    /\ ~Expired(Timeout, clock)
    /\ blocked' = TRUE
    /\ \E lag \in 0..Lag : until' = clock + Left(Timeout, clock) + lag
    /\ UNCHANGED <<clock, server, pc, written, got, result>>

\* io_left fails as the socket would.
GiveUp ==
    /\ pc # "done" /\ ~blocked
    /\ Expired(Timeout, clock)
    /\ Return(Failed(IoError("WouldBlock")))
    /\ UNCHANGED <<clock, server, blocked, until, written, got>>

\* write_all goes on until all is written; flush has nothing to do.
WriteSome ==
    /\ pc = "write" /\ blocked
    /\ blocked' = FALSE
    /\ \E n \in 1..(RequestLength - written) :
          /\ written' = written + n
          /\ pc' = IF written' = RequestLength THEN "prefix" ELSE pc
    /\ UNCHANGED <<clock, server, until, got, result>>

\* read_exact goes on until the buffer is full.  A message stated to be empty
\* needs no read at all.
ReadSome ==
    /\ pc \in {"prefix", "body"} /\ blocked
    /\ blocked' = FALSE
    /\ \E n \in 1..Wanted :
          /\ n <= arrived - Len(got)
          /\ got' = got \o SubSeq(reply, Len(got) + 1, Len(got) + n)
          /\ IF n < Wanted THEN UNCHANGED <<pc, result>>
             ELSE IF Len(got') < 2 + StatedLength(got')
             THEN pc' = "body" /\ UNCHANGED result
             ELSE Return(Judge(SubSeq(got', 3, Len(got'))))
    /\ UNCHANGED <<clock, server, until, written>>

\* Mutant of ReadEnd: a read that finds nothing is the end of the stream.
ReadNothing ==
    /\ pc \in {"prefix", "body"} /\ blocked
    /\ arrived = Len(got)
    /\ blocked' = FALSE
    /\ Return(Failed("TruncatedResponse"))
    /\ UNCHANGED <<clock, server, until, written, got>>

\* The stream ends before the buffer is full: UnexpectedEof.
ReadEnd ==
    /\ pc \in {"prefix", "body"} /\ blocked
    /\ closed /\ arrived = Len(got)
    /\ blocked' = FALSE
    /\ Return(Failed("TruncatedResponse"))
    /\ UNCHANGED <<clock, server, until, written, got>>

\* The socket's own timeout; a read has none while there is something to read.
IoRunsOut ==
    /\ blocked /\ clock >= until
    /\ pc \in {"prefix", "body"} => arrived = Len(got) /\ ~closed
    /\ blocked' = FALSE
    /\ Return(Failed(IoError("WouldBlock")))
    /\ UNCHANGED <<clock, server, until, written, got>>

IoFails ==
    /\ blocked
    /\ blocked' = FALSE
    /\ \E kind \in IoErrors : Return(Failed(IoError(kind)))
    /\ UNCHANGED <<clock, server, until, written, got>>

\* A signal ends the read or write, which is begun again with what is left.
Interrupted ==
    /\ blocked
    /\ blocked' = FALSE
    /\ UNCHANGED <<clock, server, pc, until, written, got, result>>

-----------------------------------------------------------------------------
(* The environment.                                                        *)

Tick ==
    /\ clock < Horizon
    /\ clock' = clock + 1
    /\ UNCHANGED <<program, server>>

Arrive ==
    /\ pc # "done" /\ ~closed
    /\ arrived < Len(reply)
    /\ arrived' = arrived + 1
    /\ UNCHANGED <<clock, program, reply, closed>>

Close ==
    /\ pc # "done" /\ ~closed
    /\ closed' = TRUE
    /\ UNCHANGED <<clock, program, reply, arrived>>

Done == pc = "done" /\ UNCHANGED vars

Step == StartIo \/ GiveUp \/ ReadSome \/ ReadEnd \/ IoRunsOut

Next == Step \/ WriteSome \/ IoFails \/ Interrupted \/ Tick \/ Arrive \/ Close \/ Done

\* The program runs when it can, and time passes.  Nothing is assumed of the
\* server: it need not send anything, nor take what is written.
Spec == Init /\ [][Next]_vars /\ WF_vars(Step) /\ WF_vars(Tick)

-----------------------------------------------------------------------------
(* Properties.                                                             *)

Errors == {"WireError", "MismatchedResponse", "TruncatedResponse", "Timeout", "NetworkError"}

\* The one message of the server's reply: what its first two bytes say its
\* length is, of the bytes after them.
FrameEnd == 2 + (Base * reply[1]) + reply[2]
Framed == SubSeq(reply, 3, FrameEnd)

\* However the bytes were cut up on their way, dog reads the frame and
\* nothing after it, and judges that message: the chunks of a read never
\* show in the outcome (tcp.rs, length_prefixed_read).
ReadsExactlyTheFrame ==
    /\ got = SubSeq(reply, 1, Len(got))
    /\ Len(got) >= 2 => Len(got) <= FrameEnd
    /\ result[1] = "Answered" \/ result \in {Failed("WireError"), Failed("MismatchedResponse")} =>
          /\ Len(got) = FrameEnd
          /\ result = Judge(Framed)

\* A response is only called truncated when the server did close the
\* connection before the end of the frame, and all it sent has been read.
TruncatedMeansCutShort ==
    result = Failed("TruncatedResponse") =>
        /\ closed
        /\ Len(got) = arrived
        /\ arrived < 2 \/ arrived < FrameEnd

\* A byte that arrives, or a signal, buys no more time: no read or write
\* waits past the deadline, but for its own delay in starting.
NoWaitPastDeadline == blocked => until <= Timeout + Lag

\* The messages of the replies that are sent whole.
WholeMessages ==
    {Decode(SubSeq(r, 3, 2 + StatedLength(r))) :
        r \in {s \in Replies : Len(s) >= 2 /\ Len(s) >= 2 + StatedLength(s)}}

TypeOK ==
    /\ clock \in 0..Horizon
    /\ pc \in {"write", "prefix", "body", "done"}
    /\ blocked \in BOOLEAN /\ until \in Nat
    /\ written \in 0..RequestLength
    /\ reply \in Replies /\ arrived \in 0..Len(reply) /\ closed \in BOOLEAN
    /\ got \in Seq(0..(Base - 1)) /\ Len(got) <= arrived
    /\ result \in {Pending} \cup {Answered(m) : m \in WholeMessages} \cup {Failed(e) : e \in Errors}
    /\ pc = "done" <=> result # Pending

\* An exchange over a stream keeps the promise of every transport.
Promise == INSTANCE Attempt WITH
    Deadline <- Timeout,
    Acceptable <- {msg \in WholeMessages : msg.readable /\ CheckResponse(TheRequest, msg) = "Ok"}

ImplementsAttempt == Promise!Spec

=============================================================================
