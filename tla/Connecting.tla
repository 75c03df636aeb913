----------------------------- MODULE Connecting -----------------------------
(***************************************************************************)
(* The first part of every exchange: finding the server's addresses and    *)
(* connecting to one of them, and for TLS and HTTPS the handshake, all     *)
(* before the deadline (dns-transport/src/net.rs and tls_stream.rs).       *)
(*                                                                         *)
(* A host that is not an IP address is looked up on a thread of its own,   *)
(* which answers over a channel, as late as it likes, or never, or dies;   *)
(* the main thread waits for it until the deadline.  The network and the   *)
(* TLS library are the environment.                                        *)
(***************************************************************************)
EXTENDS Messages, Deadlines, Addresses

CONSTANTS
    Protocols,     \* the protocols to connect for, of udp, tcp, tls and https
    Nameservers,   \* the nameservers to connect to, as they are written
    MaxAddresses,  \* bound: how many addresses a host has
    OpenErrors,    \* the kinds of error opening a connection may give
    Timeout,       \* the deadline, in ticks from the start of the exchange
    Lag,           \* how late a wait may start, in ticks
    Horizon,       \* bound: the last tick of the clock
    Texts,         \* the texts that may be given for an address
    Hosts          \* the hosts that may be written

ASSUME ConnectingAssumption ==
    /\ Protocols \subseteq {"udp", "tcp", "tls", "https"}
    /\ MaxAddresses \in Nat \ {0}
    /\ Timeout \in Nat \ {0}
    /\ Lag \in Nat
    /\ Horizon \in Nat /\ Horizon >= Timeout + Lag

\* Opening a connection gives TimedOut, and never WouldBlock, when it takes
\* too long.
ASSUME OpenErrorsAssumption == "WouldBlock" \notin OpenErrors

ASSUME TextsAssumption ==
    /\ Texts \subseteq Seq(Words \cup Marks)
    /\ Hosts \subseteq Seq(Words \cup Marks)
    /\ \A host \in Hosts : host # <<>> /\ IsHost(host)

VARIABLES
    clock,         \* the time
    proto,         \* which protocol this is for
    nameserver,    \* the address or the URL it was given
    pc,            \* where the main thread is
    until,         \* when its wait ends
    thread,        \* the lookup thread: none, running, finished or panicked
    channel,       \* what the thread has sent: nothing, addresses or an error
    found,         \* how many addresses the host has
    tried,         \* history: how each address tried so far failed
    lastError,     \* last_error of connect_tcp and connect_udp
    chosen,        \* what the server chose in the handshake, or None yet
    result         \* what connecting comes to

asked == <<proto, nameserver>>
main == <<pc, until, found, tried, lastError, chosen, result>>
vars == <<clock, asked, main, thread, channel>>

Empty == <<"Empty">>
Found(n) == <<"Found", n>>
NotFound == <<"NotFound">>

\* The host and port, or that there are none, made out before all else.
Server == CheckNameserver(proto, nameserver)

\* A handshake follows the connection.
Secured == proto \in {"tls", "https"}

\* The application protocols a server is offered in the handshake (ALPN).
Offered == IF proto = "https" THEN {"h2", "http/1.1"} ELSE {}

\* What a server may choose of them: one, or nothing, or TLS cannot tell.
NotChosen == "nothing"
Untold == "untold"
None == "none"

SpeaksHttp2 == chosen' = "h2"

\* How the exchange goes on: HTTPS over HTTP/2 only if the server chose that.
Spoken == IF proto # "https" THEN "dns" ELSE IF SpeaksHttp2 THEN "h2" ELSE "http/1.1"

\* Connected to the i-th address, where this is spoken.
Connected(i, spoken) == <<"Connected", i, spoken>>

-----------------------------------------------------------------------------

Init ==
    /\ clock = 0
    /\ proto \in Protocols /\ nameserver \in Nameservers
    /\ pc = "host" /\ until = 0
    /\ thread = "none" /\ channel = Empty
    /\ found = 0 /\ tried = <<>> /\ lastError = "NotFound"
    /\ chosen = None
    /\ result = Pending

Return(outcome) == pc' = "done" /\ result' = outcome

\* Mutant of WaitAs: every wait has the whole time limit.
FullWaitAs(state) ==
    /\ ~Expired(Timeout, clock)
    /\ pc' = state
    /\ \E lag \in 0..Lag : until' = clock + Timeout + lag

\* A wait for at most what is left of the time, which has to be some.
WaitAs(state) ==
    /\ ~Expired(Timeout, clock)
    /\ pc' = state
    /\ \E lag \in 0..Lag : until' = clock + Left(Timeout, clock) + lag

\* The deadline passes before a wait, by `left' or `io_left' alike.
GiveUp ==
    /\ \/ pc \in {"left", "handshake"}
       \/ pc = "open" /\ proto # "udp" /\ Len(tried) < found
    /\ Expired(Timeout, clock)
    /\ Return(Failed("Timeout"))
    /\ UNCHANGED <<clock, asked, until, thread, channel, found, tried, lastError, chosen>>

-----------------------------------------------------------------------------
(* Finding the addresses.                                                  *)

\* parse_host_port or parse_https_url does not make out a host and a port.
BadAddress ==
    /\ pc = "host" /\ ~Server.ok
    /\ Return(Failed("InvalidNameserver"))
    /\ UNCHANGED <<clock, asked, until, thread, channel, found, tried, lastError, chosen>>

\* TlsConnector::build comes before the host is looked at.
TlsUnusable ==
    /\ pc = "host" /\ Server.ok /\ Secured
    /\ Return(Failed("TlsError"))
    /\ UNCHANGED <<clock, asked, until, thread, channel, found, tried, lastError, chosen>>

\* The host is an IP address.
Literal ==
    /\ pc = "host" /\ Server.ok /\ IsIP(Server.host)
    /\ pc' = "open" /\ found' = 1
    /\ UNCHANGED <<clock, asked, until, thread, channel, tried, lastError, chosen, result>>

SpawnLookup ==
    /\ pc = "host" /\ Server.ok /\ ~IsIP(Server.host)
    /\ pc' = "left" /\ thread' = "running"
    /\ UNCHANGED <<clock, asked, until, channel, found, tried, lastError, chosen, result>>

AwaitLookup ==
    /\ pc = "left"
    /\ WaitAs("await")
    /\ UNCHANGED <<clock, asked, thread, channel, found, tried, lastError, chosen, result>>

\* The thread's lookup ends.  What it sends goes nowhere when the main thread
\* no longer holds the other end of the channel.
LookupEnds ==
    /\ thread = "running"
    /\ thread' = "finished"
    /\ IF pc \in {"left", "await"}
       THEN channel' \in {NotFound} \cup {Found(n) : n \in 0..MaxAddresses}
       ELSE UNCHANGED channel
    /\ UNCHANGED <<clock, asked, main>>

LookupPanics ==
    /\ thread = "running"
    /\ thread' = "panicked"
    /\ UNCHANGED <<clock, asked, main, channel>>

TakeAddresses ==
    /\ pc = "await" /\ channel # Empty /\ channel # NotFound
    /\ pc' = "open" /\ found' = channel[2]
    /\ UNCHANGED <<clock, asked, until, thread, channel, tried, lastError, chosen, result>>

\* The lookup fails, or its thread is gone without having sent anything.
LookupFails ==
    /\ pc = "await"
    /\ channel = NotFound \/ (channel = Empty /\ thread = "panicked")
    /\ Return(Failed("NetworkError"))
    /\ UNCHANGED <<clock, asked, until, thread, channel, found, tried, lastError, chosen>>

\* Mutant of LookupRunsOut: recv in place of recv_timeout.
LookupHasNoLimit == FALSE

LookupRunsOut ==
    /\ pc = "await" /\ channel = Empty /\ thread # "panicked"
    /\ clock >= until
    /\ Return(Failed("Timeout"))
    /\ UNCHANGED <<clock, asked, until, thread, channel, found, tried, lastError, chosen>>

-----------------------------------------------------------------------------
(* Connecting.                                                             *)

\* What failed is remembered, and the next address is tried.
Remember(kind, by) ==
    /\ pc' = "open"
    /\ lastError' = kind
    /\ tried' = Append(tried, [kind |-> kind, by |-> by])
    /\ UNCHANGED <<clock, asked, until, thread, channel, found, chosen, result>>

\* TcpStream::connect_timeout with what is left of the time.
StartConnect ==
    /\ pc = "open" /\ proto # "udp" /\ Len(tried) < found
    /\ WaitAs("connect")
    /\ UNCHANGED <<clock, asked, thread, channel, found, tried, lastError, chosen, result>>

\* configure; a TLS handshake follows.
Accepted ==
    /\ pc = "connect"
    /\ \/ Return(Failed("NetworkError"))
       \/ ~Secured /\ Return(Connected(Len(tried) + 1, "dns"))
       \/ Secured /\ pc' = "handshake" /\ UNCHANGED result
    /\ UNCHANGED <<clock, asked, until, thread, channel, found, tried, lastError, chosen>>

Refused == pc = "connect" /\ \E kind \in OpenErrors : Remember(kind, "os")

ConnectRunsOut == pc = "connect" /\ clock >= until /\ Remember("TimedOut", "deadline")

\* open_udp takes no time, and nothing looks at the deadline.
OpenUdp ==
    /\ pc = "open" /\ proto = "udp" /\ Len(tried) < found
    /\ \/ /\ Return(Connected(Len(tried) + 1, "dns"))
          /\ UNCHANGED <<clock, asked, until, thread, channel, found, tried, lastError, chosen>>
       \/ \E kind \in OpenErrors \ {"TimedOut"} : Remember(kind, "os")

\* Mutant of NoMoreAddresses: the last address is never tried.
LastAddressUntried ==
    /\ pc = "open" /\ Len(tried) + 1 >= found
    /\ Return(Failed(IoError(lastError)))
    /\ UNCHANGED <<clock, asked, until, thread, channel, found, tried, lastError, chosen>>

NoMoreAddresses ==
    /\ pc = "open" /\ Len(tried) = found
    /\ Return(Failed(IoError(lastError)))
    /\ UNCHANGED <<clock, asked, until, thread, channel, found, tried, lastError, chosen>>

-----------------------------------------------------------------------------
(* The TLS handshake, a number of reads and writes of a DeadlineStream.    *)

HandshakeIo ==
    /\ pc = "handshake"
    /\ WaitAs("shaking")
    /\ UNCHANGED <<clock, asked, thread, channel, found, tried, lastError, chosen, result>>

\* The read or write is over, or was interrupted, and the handshake goes on.
HandshakeGoesOn ==
    /\ pc = "shaking"
    /\ pc' = "handshake"
    /\ UNCHANGED <<clock, asked, until, thread, channel, found, tried, lastError, chosen, result>>

\* Or it failed, or was the last.
HandshakeEnds ==
    /\ pc = "shaking"
    /\ \/ Return(Failed("TlsHandshakeError")) /\ UNCHANGED chosen
       \/ /\ chosen' \in Offered \cup {NotChosen, Untold}
          /\ Return(Connected(Len(tried) + 1, Spoken))
    /\ UNCHANGED <<clock, asked, until, thread, channel, found, tried, lastError>>

\* HandshakeError::WouldBlock
HandshakeRunsOut ==
    /\ pc = "shaking" /\ clock >= until
    /\ Return(Failed("Timeout"))
    /\ UNCHANGED <<clock, asked, until, thread, channel, found, tried, lastError, chosen>>

-----------------------------------------------------------------------------

Tick ==
    /\ clock < Horizon
    /\ clock' = clock + 1
    /\ UNCHANGED <<asked, main, thread, channel>>

Done == pc = "done" /\ UNCHANGED vars

Step ==
    \/ BadAddress \/ GiveUp \/ Literal \/ SpawnLookup \/ AwaitLookup
    \/ TakeAddresses \/ LookupFails \/ LookupRunsOut
    \/ StartConnect \/ ConnectRunsOut \/ OpenUdp \/ NoMoreAddresses
    \/ HandshakeIo \/ HandshakeRunsOut

Environment ==
    \/ TlsUnusable \/ LookupEnds \/ LookupPanics
    \/ Accepted \/ Refused \/ HandshakeGoesOn \/ HandshakeEnds \/ Tick

Next == Step \/ Environment \/ Done

\* The main thread runs when it can, and time passes.  The lookup thread and
\* the server may never do anything.
Spec == Init /\ [][Next]_vars /\ WF_vars(Step) /\ WF_vars(Tick)

-----------------------------------------------------------------------------
(* Properties.                                                             *)

\* The addresses are tried in turn: a connection is to the first that
\* accepts one, those before it having failed, and connecting fails only when
\* there is no address left to try, or no time, or the lookup or the
\* connection made came to nothing (connect_tcp, connect_udp).  What is spoken
\* is what the server chose, and HTTP/1.1 to one that chose nothing.
AddressesInTurn ==
    /\ pc = "done" /\ result[1] = "Connected" =>
          /\ result[2] <= found /\ Len(tried) = result[2] - 1
          /\ result[3] = IF chosen \in {"h2", "http/1.1"} THEN chosen
                         ELSE IF proto = "https" THEN "http/1.1" ELSE "dns"
    /\ result = Failed("NetworkError") =>
          \/ found = 0
          \/ Len(tried) = found /\ tried[found].kind # "TimedOut"
          \/ proto # "udp" /\ Len(tried) < found
    /\ result = Failed("Timeout") =>
          \/ clock >= Timeout
          \/ found > 0 /\ Len(tried) = found /\ tried[found] = [kind |-> "TimedOut", by |-> "os"]

\* The addresses found are those the thread sent before the wait for it was
\* over: no wait lasts past the deadline, for the thread, for an address, or
\* for one read or write of the handshake.
NoWaitPastDeadline == pc \in {"await", "connect", "shaking"} => until <= Timeout + Lag

\* In one state of a run, since the rest is about constants.
Once ==
    /\ pc = "host" /\ clock = 0
    /\ asked = <<CHOOSE any \in Protocols : TRUE, CHOOSE any \in Nameservers : TRUE>>

\* A text that is accepted is one of the ways to write the host and the port
\* that it is taken for, so that no part of it is ignored or taken twice; and
\* each way is accepted and taken for just that, an IPv6 address among them
\* whose last group could be a port (parse_host_port).  A URL that is accepted
\* has a path that starts with / and neither space nor fragment, names no
\* user, and the Host header made of it names the server it is sent to
\* (parse_https_url, host_header).
AddressesReadBack ==
    Once =>
      /\ \A text \in Texts, default_port \in DefaultPorts : TakenAsWritten(text, default_port)
      /\ \A host \in Hosts, port \in Ports, default_port \in DefaultPorts :
            WrittenAsTaken(host, port, default_port)
      /\ \A text \in Texts \cup UNION {WaysToWrite(host, port, 443) : host \in Hosts, port \in Ports} :
            NamesItsServer(Scheme \o text \o <<"/", "#", "1">>)

\* Connecting comes to an end, even if the lookup never does and no server
\* ever says a word.
Settles == <>(pc = "done")

=============================================================================
