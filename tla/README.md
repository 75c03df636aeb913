# A TLA+ specification of dog

dog is a command-line DNS client. This directory holds a specification of it:
TLA+ modules translated from its source, TLC configurations that check them on
small instances, and theorems about them that TLAPS checks for every value of
the constants. `PROJECT.json` lists the runs, what each checks, the mutants
that show each property can fail, the lines each definition stands for, and
the theorems.

To check a run, `tlc -config UdpExchange.cfg MCUdpExchange`; to check the
proofs, `tlapm` on each of the modules whose names end in `_proofs`.

## The system

dog is three crates: the program (`src/src`), the wire format (`src/dns/src`)
and the transports (`src/dns-transport/src`). The program is sequential. It
turns its options into *request sets*, one for each combination of domain,
type, class, nameserver list and transport, each with the requests to try in
turn, one for each name of the search list. It sends the sets one after the
other, keeps the responses, prints errors as they happen, prints the responses
at the end, and exits with a status that tells what happened.

| Component | State | Operations | Hard behaviour | What makes it correct |
|---|---|---|---|---|
| Runs (`main.rs`) | the responses kept, whether anything failed | `run`, `send_all`, `send_until_answered`, `exit_code` | sets that fail among sets that do not; a search list in which names fail, are refused and answered | every set comes to one thing; a good answer is final and never lost; the status tells the truth |
| Automatic and failover transports (`auto.rs`, `failover.rs`, `connect.rs`) | the leg and the nameserver under way | `send` | truncation, different errors of several servers, each leg with a deadline of its own | nothing is asked that need not be; the last error is the one reported |
| UDP (`udp.rs`) | socket, deadline | `send`, `receive`, `accept` | stray, late, forged and garbled datagrams; interrupted waits; the deadline | the first datagram that answers decides; no wait beyond the deadline |
| TCP and TLS (`tcp.rs`, `tls.rs`) | stream, deadline, bytes read | `exchange`, `length_prefixed_read` | data cut up anywhere, trickled, cut short; interruptions | exactly one frame is read, and judged; a short one is told apart from a slow one |
| Deadlines, lookup, connecting (`net.rs`, `tls_stream.rs`) | deadline, lookup thread, channel, addresses tried | `lookup_before`, `connect_tcp`, `connect_udp`, `DeadlineStream` | a lookup thread that is late, dies or never ends; several addresses sharing one deadline | addresses in turn; one deadline for everything; it ends, whatever the lookup does; what the server chose is what is spoken |
| HTTPS (`https.rs`) | head and body read so far | `exchange_https`, `build_http_request`, `read_http_body`, `read_head`, `read_more` | head and body cut up anywhere; limits of both; no length given | exactly the stated body, within the limits |
| HTTP/2 (`h2.rs`) | status seen, body, whether the stream ended | `request_bytes`, `exchange`, `read_body`, `handle`, HPACK | frames of other streams, acknowledgements, interim responses, trailers, GOAWAY and RST, limits | the body of the one response, whole, and nothing else; a request that says what the HTTP/1.1 one says |
| Nameserver addresses (`address.rs`) | none | `parse_host_port`, `parse_https_url`, `host_header` | IPv6 addresses, which have colons of their own | what is accepted is used whole, and as what it says |
| Checks of a response (`validate.rs`) | none | `check_response` | spelling, missing question | as in the UDP and TCP exchanges |
| Wire format: messages (`wire.rs`, `types.rs`) | the cursor, the counts left | `to_bytes`, `from_bytes`, `read_section` | counts and lengths that disagree with the bytes | as many entries as counted; what is sent reads back |
| Wire format: names (`strings.rs`) | the cursor, the pointers followed | `read_labels`, `write_labels` | pointers that go round, forward, or too deep | reading ends, and returns the name that is there |
| Wire format: records (`record/*.rs`) | the cursor | one `read` a type | stated lengths that disagree with the fields | a record that is read ends where its length says, and has the fields that were sent |
| Options (`options.rs`) | what was given so far | `getopts`, `deduce`, fallbacks | free arguments that could be several things | one reading of each argument; fallbacks only where nothing was given |
| Resolver (`resolve.rs`), local hosts (`hints.rs`) | the nameservers and search list; the names of the hosts file | `obtain`, `name_list`, `parse_resolv_conf`; `load`, `get` | many lines, repeated lines, lines that cannot be read | the order of `resolv.conf`, at most three nameservers; a warning for each name that is local |
| Requests (`requests.rs`, `txid.rs`) | the request sets | `generate` | the product of all inputs | each combination once, in order |
| Output (`output.rs`, `table.rs`) | none | `print`, `print_error` | three formats; a reader that has gone; errors with lengths in them | nothing left out, and no two values shown alike |
| Colours, paths (`system.rs`), logging (`logger.rs`, `stderr.rs`) | none | | | not modelled |

The components interact by plain calls: `run` calls the transport of a set,
which may be a failover transport over automatic transports over UDP and TCP,
and each of those looks up, connects, sends and receives before its own
deadline. Only the lookup runs on a thread of its own; it shares nothing with
the main thread but a channel. What else runs at the same time is outside: the
network, the servers, signals, the clock.

## The modules

`Messages` has requests, questions and messages as the transports see them, and
`check_response`; `Deadlines` has what is left of a deadline and `io_error`.

`Attempt` is the abstract promise of one `Transport::send`: one outcome, either
a response that answers the request or an error, with the error *Timeout* only
once the deadline has been reached, and in the end some outcome.

`UdpExchange` is one UDP exchange from the connected socket on. `pc` is where
`send` and `receive` are: before the `send` of the socket, before
`deadline.left()`, in `recv`, or done. Every loop of `receive` is a pass
`StartWait`, then one of `Receive`, `WaitRunsOut`, `RecvFails`, `Interrupted`.
Time may pass and datagrams may arrive between any two of those.

`StreamExchange` is `tcp::exchange` over a `DeadlineStream`. A read or write is
two steps, `StartIo` (the time left is worked out and given to the socket) and
its end, so that time, bytes, the end of the stream, errors and signals come in
between. `got` is what `read_exact` has been given so far.

`Connecting` is everything before that: the lookup thread and its channel, the
addresses in turn, `connect_timeout`, the TLS handshake with its many reads and
writes. The thread's send and the main thread's `recv_timeout` are steps of
their own.

`DogRun` is a whole run. Each step is the return of one exchange, with any of
the outcomes `Attempt` promises, and everything dog does up to the next one:
`RetryOverTcp` (automatic transport), `FailOver` (failover transport),
`TryNextName` (search list), `Keep` and `Report` (`send_all`). `turn` says
which set, name, nameserver and leg the next exchange is for. `asked` is a
history variable: all exchanges made, and their outcomes. `RunPromise` is what
a run promises to its user; `DogRun` is shown to implement it, a set being
resolved when its response or error is recorded.

`Cursor` has the message that is read and the cursor over it, which the two
readers share. `NameReading` reads one name out of it (`NameSpec`). The recursion of
`read_string_recursive` is a loop here: all that a call does after the call for
its pointer returns is to move the cursor back, so the outermost call's way
back (`back`) is all of the stack that matters. `labels`, `bytes_read` and
`recursions` are the code's; `looked` is a history variable, all bytes read.
`NameRecursion` is the same as the recursion it is in the code, which
`NameIsReadAlways` proves (and a run compares); records are read with the
latter. What a call reads is a function of what the calls it makes read
(`ReadFrom`), and `ReadString` is as many of them within one another as are ever
needed (`CallsAtMost`). The writer is `WriteLabels` of
`RequestBytes`.

`HttpResponse` is the abstract promise of reading a message out of an HTTP
response: no body before a good head, none too long, nothing added once it is
whole, and the outcome is what the whole body says. Both versions of HTTP
implement it.

`HttpRequests` is the request of either version, as parts and as frames.

`HttpExchange` is HTTP/1.1: `WriteRequest`, then `ReadHead` and `ReadBody`, one
step for each `read` of a buffer, with the whole reaction of `read_head` and
`read_http_body` to what has come by then. What `httparse` finds in a head is
the constant `Parse`.

`H2Exchange` is HTTP/2: `ReadFrame` is one `read_frame` and `handle`, with a
disjunct for each arm of its match, and `SendReply` is the write of an
acknowledgement. Whether a frame is on dog's stream, its flags and its payload
are data of the frame. The status in a block of headers is the constant
`StatusIn`, to which the instance gives `Hpack`'s `Status`.

`Hpack` is the coder itself, as operators on bytes: integers of a prefix, the
Huffman codes of the digits, the fields up to the status, and the fields of the
request.

`Addresses` has nameservers and URLs as texts of words and punctuation, and
what it is for a text to be taken as it is written and for a host to be read back
(`TakenAsWritten`, `NamesItsServer`, `WrittenAsTaken`). What the standard
library takes for an IPv6 address is `IsIPv6`: eight groups, or fewer around two
colons, of which an IPv4 address can be the last two. `Connecting` has a
property of them, for the texts and hosts that its constants say.
`Connecting` takes the host and port it connects to from there, and `Requests`
whether a nameserver suits a transport.

`Names` has domain names as they are written and encoded, with the lengths of
their labels. `Arguments` is `Options::getopts`: `CheckSetting` for each
setting in the code's order, then `LoadTransports`, one step for each word of
each option and for each plain argument, `CheckNameservers` and
`LoadFallbacks`. A word is a record of what each reader of words would find in
it. `Requests` goes on from there: the hosts file and its warnings
(`WarnAboutLocalHosts`), `obtain`, with `resolv.conf` read line by line, and
`generate`, whose five loops are the variable `place`. What it makes is what
`DogRun` assumes of its plans, which `PlansAreAsAssumed` proves.
`RequestBytes` makes a request of those options, and its bytes.

`RecordTypes` is the data of every record type as a sequence of steps, such as
"seven bytes, which are these fields" or "the rest of the stated length", and
the tables of names and numbers. `MessageReading` is the machine that takes
them: `ReadHeader`, `NextSection`, `ReadEntry` for a query or the head of a
record, and one action for each kind of step (`TakeExactly`, `TakeFields`,
`TakeName`, `TakeStrings`, `CheckWhole`, ...), each with the error its reader
gives and the cursor where it leaves it. `todo` is what is left of the record
under way. The name at a position is the constant `ReadLabels`; the instance
gives it the recursion as the code has it (`NameRecursion`), and assumes of it
in `NamesAssumption` what `NamesEndAsAssumed` proves of that recursion, and
`NamesEndWithin` of the loop.
`Printing` goes on with what has been read: strips pseudo-records, and writes
the table, the short lines or the JSON document line by line, while any write
may fail; `Texts` is how names, strings, durations, places and sets of types are
shown.

Each of `DogRun`, `MessageReading`, `UdpExchange`, `StreamExchange`,
`Connecting`, `HttpExchange`, `H2Exchange` and `Requests` has its proofs in a
module of its own; those about `NameReading` are with `MessageReading`'s, and
those about `Arguments` with `Requests`'s.

## The runs

| Run | Checks | Bounds |
|---|---|---|
| `udp` | which datagram decides, that no wait passes the deadline, `Attempt` | deadline at tick 2, clock to 4, a wait may start one tick late, three datagrams out of nine kinds: enough for two of any kind before a third, for arrival on either side of the deadline, and for two interruptions within it |
| `stream` | that exactly the frame is read and judged, what "truncated" means, deadlines, `Attempt` | bytes of two values, so that lengths are small; six replies: with bytes after the frame, empty, cut short, of an unreadable message, of the answer, of another answer; every way of cutting them up |
| `connecting` | addresses in turn and what is spoken, deadlines, that every address of a few words reads back, termination | four protocols, seven nameservers (a name, addresses, URLs, and one that is none), up to two addresses, deadline 3, clock to 5; texts of up to five words and marks, among them a number too great for a port and an IPv4 address; eleven hosts, among them IPv6 addresses that end in an IPv4 address, and each port written in every way |
| `run` | order of exchanges, good answers kept, what is kept and reported being exactly the final outcomes, one outcome a set, `RunPromise` | three plans: two names by two nameservers over the automatic transport; two sets, one with two nameservers; two sets with a search list in the second. Five responses: with records, truncated, with only an OPT record, NXDOMAIN, a truncated error |
| `names` | that the cursor ends behind the name as it stands, how much is read at most, that the name read is the one that the code's recursion gives | every message of up to five bytes of four values, of which 3 marks a pointer, read from everywhere in it, with at most two pointers: enough for pointers forward, back, to themselves, to one another, into the middle of labels and out of the message |
| `http` | that how the response is cut up does not matter, what "cut short" means, that reading is bounded, `HttpResponse` | some 560 responses around a head limit of 4, a body limit of 2 and a buffer of 3, so that one read can pass a limit or hold head, body and more; a blank line of two bytes, which also occurs in bodies and one after another |
| `h2` | that an answer is the whole response, acknowledgements, other streams, `HttpResponse`; statuses and Huffman codes; that the requests of both versions say the same | sequences of up to four of some thirty frames: enough for any four of an interim response, the final one, two parts of a body and trailers; payloads up to 6 with a limit of 5, bodies limited to 2; statuses under each name and form of a field, behind size changes; all coded strings of up to two bytes; requests on both sides of the limit of a frame |
| `requests` | that every argument is used, as one thing, and nameservers suit the transports; that the resolver and the warnings are what `resolv.conf` and the hosts file say; that the sets are the product of the inputs | names of real lengths around 63 and 255; up to two plain arguments of each kind with each choice of protocols, each option with each word, every wrong setting; files of up to two lines of each kind, and longer ones with two search lists or more nameservers than are used; four hosts files |
| `records` | that records end where they say and are as many as counted; that what is sent reads back, requests included; that table and JSON tell all of it; that errors tell what is wrong; that texts tell values apart | some 700 messages: a record of every type by itself, cut off at every byte, and among others in each section; the same with a length one less and one more; long strings and wrong versions; requests for every type that has a name. The most that TXT can count is 767 here instead of 65535 (`TotalMax`): three of its longest strings pass it |
| `nameserver_timeout`, `udp_truncated`, `records_overflow` | each a sentence of the source that the code does not keep; see Findings | as above |

The names of the instances' bytes (`Base`, `BlankLine`, the bounds) replace 256,
CRLF CRLF, 8192 and 65535; the code compares with them and does nothing else.

Deadlock is checked everywhere: a module that is done stays done by the action
`Done`, so a state in which nothing can happen before that would be reported.

**Fairness.** The program runs when it can (`WF_vars(Step)`), and time passes
(`WF_vars(Tick)`). Nothing is assumed of the network, of servers, of the lookup
thread or of the TLS library: they may stay silent for ever, which is what
deadlines are for. A read that finds data and a wait that runs out are steps of
the program, since the operating system ends them; an interruption is not. In
`DogRun` the fairness of `Next` stands for "every exchange returns", which is
what the other modules show of their exchanges. `NameReading`,
`MessageReading`, `Printing`, `HttpExchange`, `H2Exchange` and `Requests` have
safety properties only, and no fairness: that they end is that of the deadline
under each read, and, for a name, the bound on what is read.

**Mutants.** For each property of each run there is a mutant, an operator next
to the one it is a mutant of, that changes it the way a slip in the code would;
the property fails in its run with the mutant in place. They are marked
"Mutant of" and are used by nothing else.

## What is proved

In `DogRun_proofs`, for every plan of request sets, every set of responses and
of errors and every time limit, from the assumptions `PlansAssumption` (sets
have names and nameservers, as `RequestGenerator::generate` makes them),
`ResponsesAssumption`, `ErrorsAssumption` (the errors are those of the
transports) and `TimesAssumption`:

- `TypeCorrect`: the type invariant. It is inductive by itself: the turn stays
  within the plan since `FailOver` and `TryNextName` are guarded by the number
  of nameservers and names.
- `ExchangesAreDue`: no exchange is made that need not be. The inductive
  invariant adds that the exchange *under way* is due (`DueInv`); that what
  makes an exchange due is never undone is a lemma (`DueStays`), as is that the
  first exchange of a set needs no reason (`FirstTurnDue`).
- `GoodAnswersAreKept`: the property is inductive given the types; a step
  either leaves the responses as they are or appends to them (`KeptStay`), and
  the step that receives a good answer can only be `Keep` (`FinalAnswerKept`).
- `OutcomesAreFinal`: what is kept and reported is exactly what the exchanges
  ended their sets with. What is kept was received, and has an error code only
  as the answer to the last name of its set; what is reported is the last
  nameserver's error; and every response and every error received that is final
  in this way is there, so that none is ever changed or dropped. It is inductive
  with the types: it speaks of each response, each error and each exchange by
  itself (`FinalParts`), exchanges are only added (`FinalStays`), what was kept
  and reported stays in its place (`KeptStay`, `ReportedStay`), and the step that
  receives a final outcome can only be `Keep` or `Report` (`FinalAnswerKept`,
  `FinalErrorReported`).
- `SetsAreSettledOnce`: the invariant `SettledInv` adds that nothing is settled
  before the first exchange. The step that ends a set moves `SetsOver` by one
  (`OneSetOver`), and appends in order (`AppendInOrder`).
- `RunKeepsThePromise`: the initial states are those of `RunPromise`, and every
  step is one of its steps or shows nothing of itself. `StatusInv` adds that
  there is no status before the end, and that `errored` says whether anything
  was reported. The set that is settled is the next of the resolved ones
  (`OneMore`); and since sets are settled once, some set came to results just if
  a response has some to show (`SomeCameTo`), so that the exit code is the
  verdict (`VerdictIsExitCode`).

In `MessageReading_proofs`, of reading a name, for every set of messages of
bytes, every mark of a pointer and every limit above 0, from `BytesAssumption`
and `LimitAssumption`:

- `NameTypeCorrect`: in particular fewer pointers are followed than the limit says.
- `CursorIsWhereCounted`: after a name the cursor is as far on as the count
  returned says, and within the message. While a pointer is being followed the
  cursor says nothing of that, so the inductive invariant speaks of where the
  outermost call is or will come back to (`OutermostInv`, `CountInv`).
- `WorkIsBoundedAlways`: reading takes no more than the message once for each
  pointer and once more. `WorkInv` sharpens it: what was read since the last
  pointer lies before the cursor, and all before that fills the message at most
  once for each pointer. The arithmetic is in the lemma `Distributes`, as the
  product of two variables is beyond the solvers.
- `NamesEndWithin`: a name that was read ends behind where it starts, which needs
  `MovedInv` (something was counted before a pointer was followed), and errors
  are one of two: what `NamesAssumption` takes names for.
- `NameIsReadAlways`: the loop reads what the recursion does. That there is a
  recursion at all is `ReadStringReads`, by induction on the calls within one
  another. How many more calls a call can need (`Need`: the bytes left, and the
  whole message once for each pointer that may still be followed) falls with
  each call it makes (`NeedIsBounded`), so that more calls than `CallsAtMost`
  read the same (`EnoughCalls`), and a name is what the recursion says of it
  (`ReadStringRecurs`). `SameInv` is then what the loop keeps: the labels and
  the count so far, the way back, and what the recursion reads from the cursor
  with the pointers followed, make up the name that was asked for, or its error
  (`Whole`).
- `NamesEndAsAssumed`: the same as `NamesEndWithin`, of the recursion, for every
  message and place: so `NamesAssumption` is one that the code's reader meets.

And of reading a message, for every set of messages of bytes and whatever names
stand in them, from `MessagesAssumption`, `TotalAssumption` and
`NamesAssumption`:

- `TypeCorrect`: the cursor never leaves the message, and counts stay numbers.
- `RecordsEndAsStated` and `EntriesCounted`. The types are inductive only with
  what is left of the record under way: `LaidOut` says that `todo` is a sequence
  of steps of which only CAA's last may end anywhere, and `ReaderIsLaidOut` that
  each type's reader is one. `DataInv` adds that a record is under way only in a
  section that has entries left. There is a lemma for each action.

And of printing, from these assumptions, `SendErrorsAssumption` (the errors of
the transports are no errors of reading) and `EarlierAssumption`:

- `PrintingReads`: every step of a run that prints reads the message by a step of
  `MessageReading` or leaves it alone, so that all of the above holds there.
- `ErrorsTellTheTruth`: an exchange that fails is told of once, the status says
  so, and what is told of a malformed record is true of the bytes of the message.
  `StatedInv` says that the length kept of the record under way is still the one
  that stands before it, and `WrongInv` what each error of a record means for the
  cursor and what is left of the record: that is what its message is made of.

And of what is shown (`Texts`), whether it can be told apart, for all names and
values and not only the samples of `TextsTellApart`:

- `NamesAreToldApart`: two names that are shown alike are the same name, for
  labels of any bytes, empty ones excepted, which a name cannot have. A code is a
  set of texts of which no two can stand at one place (`IsCode`), and what is put
  together from a code is put together in one way (`PutTogetherOnce`, by
  induction over the number of parts). What bytes are written as is a code
  (`ByteAtPlace`): that needs the three digits that an escaped number always has.
  So are labels with their dots (`SegmentsAreCode`), as no byte is written with a
  dot at its beginning.
- `HexIsToldApart`: bytes in hexadecimal, as digests and fingerprints are shown.
- `DurationsAreToldApart`: a duration begins with a number and the letter of its
  unit, which says how much follows (`BeginsOneWay`); hours, minutes and seconds
  that are left over make up the number of seconds again.
- `PlacesAreToldApart`: latitudes and longitudes, within the range.

What numbers are written as is shown by induction over the number
(`DecimalIsFigures`, `DecimalTellsApart`).

In `UdpExchange_proofs`, for every request, set of datagrams, time limit, lag
and set of socket errors, and in `StreamExchange_proofs`, for every set of
replies, length of the request, number of values of a byte, and decoder:

- `TypeCorrect`, and `WaitsAreBounded`, whose invariant `WaitsToTheDeadline` adds
  that a wait does run *to* the deadline: a wait that runs out may then be
  called a timeout, which the refinement needs.
- `OneDatagramDecides` (UDP) is inductive with the types; `Accept` agrees with
  the statement of what answers a request (`AcceptDecides`).
- `FramesAreReadExactly` and `TruncationIsReal` (streams): `FrameInv` says how
  much has been read at each point, and that all of it is the beginning of the
  reply.
- `UdpKeepsThePromise` and `StreamKeepsThePromise`: the initial states are those
  of `Attempt`, and every step is one of its steps or leaves its variables
  alone. The liveness of `Attempt` stays with TLC.

In `Connecting_proofs`, for every number of addresses, set of nameservers and
protocols, time limit, lag and set of errors: `AddressesAreTriedInTurn` and
`WaitsAreBounded`. `Progress` says what is known at each point of the main
thread, and `Remembered` that the error to be returned is the last address's.
It is assumed that opening a connection does not give `WouldBlock`.

Of addresses, for texts of words and punctuation of every length, every port and
every default:

- `AddressesMeanWhatTheySay`: a nameserver that is accepted is used as it is
  written, host and port; a URL names the server that the request is for; and
  every host, written in each way there is with every port, is read back. A text
  is taken as the parts before and behind a mark, the first or the last of it
  (`PartsOf`), and what a host is made of says which marks it cannot have: names
  and IPv4 addresses have none, and IPv6 addresses only colons, those that end
  in an IPv4 address (`::ffff:1.2.3.4`) included. That the last
  colon of an IPv6 address is not taken for one before a port rests on the
  order in which the code looks: whether all of it is such an address, then for a
  bracket, and only then for the last colon. What is left of bounds is the
  alphabet of `Addresses`: words stand for the kinds of text there are between
  marks, and the numbers among them are those of `Numbers`, of which one is also
  written with a zero in front and with a sign, as the standard library reads
  them.
- `AddressesReadBackAlways`: the property of the run, whatever texts and hosts its
  constants are, from `TextsAssumption`.

In `HttpExchange_proofs`, for all responses, blank lines, limits, buffers,
parsers of heads and decoders: `PiecesDoNotShow`, `TruncationIsReal` and
`ReadingEnds`. The invariant is that nothing is known before the head has ended,
that no part read so far contains its end (`SearchInv`), and that afterwards
what is known is what the whole response says (`BodyInv`). The lemma all of it
rests on is that the first blank line of a response is the first blank line of
each part of it that has one (`PrefixHeadEnds`, `HeadFoundOnce`).
`HttpKeepsThePromise` is the whole refinement, as `HttpResponse` has no
liveness. In `H2Exchange_proofs`, for all frames in every order, decoders
of headers, and limits:

- `OtherStreamsDoNotEndIt` and `Http2KeepsThePromise`, likewise the whole of the
  refinement.
- `AllAreAnswered`: what was sent are the answers to the frames so far that ask
  for one, each once and in order. `RepliesInv` adds that between such a frame
  and its answer there is one answer less, and which one it will be.
- `AnswersAreWholeResponses`: what is judged is the data of the one response.
  `WholeInv` says which frames have come by each point: nothing of the body
  before the final head, nothing but interim heads until then, and nothing that
  ends the stream (`HeadInv`); and that the body is `Carried(received)`, all the
  data of the stream so far. That function is recursive over the frames; that a
  frame at the end leaves what the earlier ones carried as it was is shown by
  induction over their number.

- `FramesCarryTheMessage`: the frames of a request carry the message whole, each
  byte at its place, for every message and every limit of a frame that has room
  for the six bytes of a setting. The lemmas are about cutting any sequence into
  parts of one length (`PartsAreCounted`, `PartsAreTheMessage`); the division of
  numbers they need is stated once (`Divided`, `DividedOnce`).

In `Requests_proofs`, for every command line of any number of words, every
hosts file and `resolv.conf` of any number of lines, every build and every rule
of what nameserver a transport can use (`Usable`), from
`CommandLinesAssumption` and `FilesAssumption`, which say what words and lines
are made of, and `NameserversAssumption` (some nameserver may be used):

- `ArgumentsCount`: each word makes one input, options before plain arguments,
  none of the inputs is left empty, and every nameserver suits every transport
  it will be used with. `ArgumentsInv` follows the options in their order: how
  many words have been used by each (`WordsAreUsed`), that domains and
  nameservers are those of `--query` and `--nameserver` first
  (`OptionsComeFirst`), and that what has been checked is not changed by the
  fallbacks (`InputsAreChecked`: the check must have been made with the
  transports that will be filled in, as it is).
- `FilesAreFollowed`: `FilesInv` says of the lines read so far what the property
  says of all: the nameservers are the usable ones among them, at their places,
  and the search list is the last one. The lemmas it rests on count elements of
  a sequence (`Among*`), and say what `Kept` leaves of one (`Kept*`).
- `SetsAreAll`: the number of sets made is the number of the place the loops are
  at, as digits of a number of mixed base (`NumberOf`). That no two places have
  the same number (`NumberedOnce`), that the next place has the next one
  (`NumberNext`) and the last one is the product less one (`NumberLast`) are
  lemmas about any five lengths.
- `PlansAreAsAssumed`: what has been made when a run begins is a plan as
  `PlansAssumption` of `DogRun` has it, so that what is proved of runs holds for
  all that arguments can lead to.

The runs' instances satisfy every assumption, as TLC finds at the start of each
run; that of names is checked for every position of every message of `records`.

Only model-checked are:

- liveness (`Settles`, the last conjuncts of `Attempt` and `RunPromise`), which
  is out of reach of the proof system;
- what compares with a reader or writer that is not the code's, over an
  instance's own samples: `MessagesReadBack`, `RowsTellTheRecords` and
  `JsonLeavesNothingOut` (records put together in `MCRecords` by the RFCs),
  the bitmaps of types in `TextsTellApart` (the rest of it is proved for all
  values, as above), and `RequestsSayTheSame`, whose frames are the server's to
  read. There is nothing to say of all values that would not be the tables of
  the code a second time;
- `HeadersReadBack` and `OnlyCodesDecode`, the coder of `Hpack` on bits and powers
  of two, which are beyond the solvers.

Recursive definitions are no obstacle in themselves: no module declares a
`RECURSIVE` operator, and what is shown of `Kept`, `Carried`, `ReadString`, the
parts of a message, the lengths of sequences, texts put together from parts and
the digits of numbers is shown by induction over a number, with the least
counterexample as the set of the induction (`Induction`).

## Findings

Shown by runs:

- With several nameservers each may take twice the time limit, over the
  automatic transport (`nameserver_timeout`).
- A response that is truncated over UDP alone is printed, with a warning, and
  is not an error (`udp_truncated`).
- A TXT record whose strings take up more than 65535 bytes overflows the count
  of them, which a release build turns into a panic (`records_overflow`).

Met while modelling, and visible in the modules, but with no run of their own:

- A connection that the operating system times out by itself is reported as
  dog's own timeout, whose limit may not have been reached (the last conjunct of
  `AddressesInTurn` in `Connecting`; `net.rs:211`, `error.rs:19`).
- `name_list` may make names of more than 255 bytes (`Extend`; `strings.rs:131`).
- A label that is empty only in its ASCII form, such as a soft hyphen alone, is
  accepted (`IsLabel` looks at the part as written; `strings.rs:62`). This
  rests on what the `idna` library is documented to do.
- With another protocol beside it, `--https` needs no URL, and is given the
  system's nameserver (`CheckNameservers`; `options.rs:302`, `options.rs:661`).
- Asked for the root by `.`, dog first asks for the names of the search list,
  since the root has less than two labels (`name_list`; `resolve.rs:69`,
  `man/dog.1.md:60`).
- CAA is the only type of which the fields may end behind the length stated
  (`RestIfAny`; `caa.rs:50`); what follows it is then read from there.
- What follows the last record of a message is ignored (`NextSection`).
- `Ascii` writes DEL as it is, though its comment says that control characters
  are written as numbers (`output.rs:693`), and writes numbers with as many
  digits as they have, so that a digit may follow one: two strings can look the
  same (`output.rs:694`). `TextsTellApart` and `NamesAreToldApart` are about
  names, which have three digits always.
- The altitude of a place below the reference is written with a sign on each of
  its parts, as in -1.-50m (`Altitude`; `loc.rs:188`).
- `[dns]:53` is accepted, brackets or not being all the same (`WaysToWrite` of
  `Addresses`), and so is `:::443`, as the address `::` and a port, though the
  documentation has brackets around such an address (`address.rs:25`).
- With `--txid`, all requests of a run have the same ID (`txid.rs:21`).
- The error `OutOfBounds` has a message, and is never raised (`wire.rs:467`).
- dog never enlarges the window of HTTP/2's flow control, against which padding
  counts, so that a server that pads a long body waits for ever, and dog until
  its deadline (`h2.rs:281`).

## What is not modelled

The cost of looking at the deadline, and of everything else that takes no
noticeable time, is no time at all, but for `Lag`: the program may be kept from
running between working out how long to wait and waiting. How a read is cut up
and what it waits for is `StreamExchange`'s alone: under HTTPS it is the same
`DeadlineStream`, and `HttpExchange` has only its outcomes, `H2Exchange` whole
frames. Libraries are constants or what dog needs of them: `httparse`, `idna`,
the TLS library, UTF-8, base64. Within the exchanges a message is readable or
not, and within `Arguments` a word is what its readers would find in it; that
`MessageReading` and `Names` are those readers is left to the eye. Case is folded
where questions are compared and nowhere else.

Presentation that tells nothing apart: colours (`colours.rs`), the width of
columns, wording, help, the layout of JSON. Plain I/O: `system.rs`, `logger.rs`,
`stderr.rs`, and the adapters that are asked for a resolver on Windows. Build
scripts, completions, the manual, and the tests and mock servers are not part of
the program.

## Plan

1. The exchanges and their deadlines: `Messages`, `Deadlines`, `Attempt`,
   `UdpExchange`, `StreamExchange`, `Connecting`, with proofs. Done.
2. A whole run: `RunPromise`, `DogRun`, and its proofs. Done.
3. Names and messages: `NameReading`, `NameRecursion`, `RecordTypes`,
   `MessageReading`, `RequestBytes`, with proofs. Done.
4. `HttpRequests`, `HttpExchange`, `H2Exchange`, `Hpack`: the two ways of HTTPS,
   with proofs. Done.
5. `Addresses`, `Names`, `Arguments`, `Requests`: what a run is made from. Done.
6. `Printing`, `Texts`: what comes out of it. Done.
7. The proofs of `H2Exchange`, `Arguments` and `Requests`, and that the sets of
   `Requests` are plans of `DogRun`. Done.
8. Left: the options of the output's format; an instance of `StreamExchange`
   under `HttpExchange` in one run, in place of the argument above; the words
   of an address as their digits.
