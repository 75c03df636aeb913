---------------------------- MODULE UdpExchange -----------------------------
(***************************************************************************)
(* One exchange over UDP, from the moment the socket is connected: the     *)
(* request is sent, and datagrams are read one by one until one of them    *)
(* settles the matter or the deadline passes (dns-transport/src/udp.rs).   *)
(*                                                                         *)
(* The network is the environment: it delivers any datagrams in any order, *)
(* the answer, late answers to other requests and forgeries among them, or *)
(* none at all.  Signals may interrupt a wait at any time, and the program *)
(* may be kept from running for up to Lag ticks between working out how    *)
(* long to wait and starting to.                                           *)
(***************************************************************************)
EXTENDS Naturals, Sequences, Messages, Deadlines

CONSTANTS
    TheRequest,    \* the request sent
    Datagrams,     \* the datagrams the network may deliver
    Timeout,       \* the deadline, in ticks from the start of the exchange
    Lag,           \* how late the wait may start, in ticks
    Horizon,       \* bound: the last tick of the clock
    MaxArrivals,   \* bound: how many datagrams are delivered in all
    SocketErrors   \* the kinds of I/O error that send and recv may return

ASSUME TimesAssumption ==
    /\ Timeout \in Nat \ {0}
    /\ Lag \in Nat
    /\ Horizon \in Nat /\ Horizon >= Timeout + Lag
    /\ MaxArrivals \in Nat

\* Interruptions are handled apart, and a UDP socket reports that its timeout
\* ran out as WouldBlock and only then.
ASSUME SocketErrorsAssumption ==
    SocketErrors \cap {"Interrupted", "WouldBlock", "TimedOut"} = {}

\* A datagram has the fields of a message that the judgement looks at.
ASSUME DatagramsAssumption ==
    \A d \in Datagrams : d.readable \in BOOLEAN /\ d.response \in BOOLEAN /\ d.rcode \in Nat

VARIABLES
    clock,         \* the time
    pc,            \* where UdpTransport::send is
    until,         \* when the recv in progress gives up
    inbox,         \* the datagrams in the socket's buffer, oldest first
    arrived,       \* how many datagrams have been delivered
    taken,         \* history: the datagrams recv has returned
    result         \* what send returns

vars == <<clock, pc, until, inbox, arrived, taken, result>>

-----------------------------------------------------------------------------
(* The judgement of one datagram.                                          *)

\* carries_txid: the first two bytes, if there are two.
CarriesTxid(datagram) == datagram.txid = TheRequest.txid

\* Mutant of Accept: the question is not looked at.
AcceptById(datagram) ==
    IF CarriesTxid(datagram)
    THEN IF datagram.readable THEN Answered(datagram) ELSE Failed("WireError")
    ELSE Pending

\* accept: the answer, an error, or nothing to stop waiting for.
Accept(datagram) ==
    IF datagram.readable
    THEN IF CheckResponse(TheRequest, datagram) = "Ok"
         THEN Answered(datagram) ELSE Pending
    ELSE IF CarriesTxid(datagram) THEN Failed("WireError") ELSE Pending

-----------------------------------------------------------------------------
(* The program.                                                            *)

\* The socket is connected; finding the address took part of the time.
Init ==
    /\ clock \in 0..Horizon
    /\ pc = "send"
    /\ until = 0
    /\ inbox = <<>>
    /\ arrived = 0
    /\ taken = <<>>
    /\ result = Pending

Return(outcome) == pc' = "done" /\ result' = outcome

\* socket.send: there is no look at the deadline before it.
Send ==
    /\ pc = "send"
    /\ \/ pc' = "left" /\ UNCHANGED result
       \/ \E kind \in SocketErrors : Return(Failed(IoError(kind)))
    /\ UNCHANGED <<clock, until, inbox, arrived, taken>>

\* Mutant of StartWait: every wait has the whole time limit.
StartFullWait ==
    /\ pc = "left"
    /\ ~Expired(Timeout, clock)
    /\ pc' = "recv"
    /\ \E lag \in 0..Lag : until' = clock + Timeout + lag
    /\ UNCHANGED <<clock, inbox, arrived, taken, result>>

\* deadline.left()? and, if there is time left, the start of the wait.
StartWait ==
    /\ pc = "left"
    /\ ~Expired(Timeout, clock)
    /\ pc' = "recv"
    /\ \E lag \in 0..Lag : until' = clock + Left(Timeout, clock) + lag
    /\ UNCHANGED <<clock, inbox, arrived, taken, result>>

GiveUp ==
    /\ pc = "left"
    /\ Expired(Timeout, clock)
    /\ Return(Failed("Timeout"))
    /\ UNCHANGED <<clock, until, inbox, arrived, taken>>

\* recv returns the oldest datagram, which is judged, and the loop goes on
\* unless that settles the matter.
Receive ==
    /\ pc = "recv"
    /\ inbox # <<>>
    /\ inbox' = Tail(inbox)
    /\ taken' = Append(taken, Head(inbox))
    /\ IF Accept(Head(inbox)) = Pending
       THEN pc' = "left" /\ UNCHANGED result
       ELSE Return(Accept(Head(inbox)))
    /\ UNCHANGED <<clock, until, arrived>>

\* Mutant of WaitRunsOut: the socket has no read timeout.
WaitForever == FALSE

WaitRunsOut ==
    /\ pc = "recv"
    /\ inbox = <<>>
    /\ clock >= until
    /\ Return(Failed(IoError("WouldBlock")))
    /\ UNCHANGED <<clock, until, inbox, arrived, taken>>

RecvFails ==
    /\ pc = "recv"
    /\ \E kind \in SocketErrors : Return(Failed(IoError(kind)))
    /\ UNCHANGED <<clock, until, inbox, arrived, taken>>

\* A signal ends the wait, and the loop starts another with what is left.
Interrupted ==
    /\ pc = "recv"
    /\ pc' = "left"
    /\ UNCHANGED <<clock, until, inbox, arrived, taken, result>>

-----------------------------------------------------------------------------
(* The environment.                                                        *)

Tick ==
    /\ clock < Horizon
    /\ clock' = clock + 1
    /\ UNCHANGED <<pc, until, inbox, arrived, taken, result>>

Arrive ==
    /\ pc # "done"
    /\ arrived < MaxArrivals
    /\ arrived' = arrived + 1
    /\ \E datagram \in Datagrams : inbox' = Append(inbox, datagram)
    /\ UNCHANGED <<clock, pc, until, taken, result>>

Done == pc = "done" /\ UNCHANGED vars

\* What the program does by itself, without the network or a signal.
Step == Send \/ StartWait \/ GiveUp \/ Receive \/ WaitRunsOut

Next == Step \/ RecvFails \/ Interrupted \/ Tick \/ Arrive \/ Done

\* The program runs when it can, and time passes; nothing is assumed of the
\* network.
Spec == Init /\ [][Next]_vars /\ WF_vars(Step) /\ WF_vars(Tick)

-----------------------------------------------------------------------------
(* Properties.                                                             *)

Errors == {"WireError", "Timeout", "NetworkError"}

TypeOK ==
    /\ clock \in 0..Horizon
    /\ pc \in {"send", "left", "recv", "done"}
    /\ until \in Nat
    /\ inbox \in Seq(Datagrams)
    /\ arrived \in 0..MaxArrivals
    /\ taken \in Seq(Datagrams)
    /\ result \in {Pending} \cup {Answered(d) : d \in Datagrams} \cup {Failed(e) : e \in Errors}
    /\ pc = "done" <=> result # Pending

\* What a datagram has to be to answer the request, stated by itself: it is
\* a response with the request's ID, and repeats the question or, with an
\* error code, leaves it out.
Answers(d) ==
    /\ d.readable
    /\ d.response
    /\ d.txid = TheRequest.txid
    /\ \/ d.queries = <<>> /\ d.rcode > 0
       \/ d.queries # <<>> /\ \A f \in {"name", "qtype", "qclass"} :
                                 Head(d.queries)[f] = TheRequest.query[f]

\* A reply that bears the request's ID but cannot be read.
Garbled(d) == ~d.readable /\ d.txid = TheRequest.txid

\* The oldest datagram that answers the request or is garbled decides the
\* outcome, and all others are passed over: no stray, late or forged datagram
\* becomes the answer or ends the wait (udp.rs, receive and accept).
FirstDecisiveDatagramDecides ==
    /\ \A i \in 1..Len(taken) :
          Answers(taken[i]) \/ Garbled(taken[i]) => i = Len(taken) /\ pc = "done"
    /\ \A d \in Datagrams : result = Answered(d) =>
          taken # <<>> /\ d = taken[Len(taken)] /\ Answers(d)
    /\ result = Failed("WireError") =>
          taken # <<>> /\ Garbled(taken[Len(taken)])
    /\ result \in {Failed("Timeout"), Failed("NetworkError")} =>
          \A i \in 1..Len(taken) : ~Answers(taken[i]) /\ ~Garbled(taken[i])

\* No wait lasts past the deadline, but for the time the program itself was
\* late in starting it: neither strays nor interruptions add to the wait.
NoWaitPastDeadline == pc = "recv" => until <= Timeout + Lag

\* An exchange over UDP keeps the promise of every transport: one outcome,
\* in the end, that is either a datagram that answers or a true error.
Promise == INSTANCE Attempt WITH
    Deadline <- Timeout, Acceptable <- {d \in Datagrams : Answers(d)}

ImplementsAttempt == Promise!Spec

=============================================================================
