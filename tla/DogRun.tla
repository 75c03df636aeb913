------------------------------- MODULE DogRun -------------------------------
(***************************************************************************)
(* A whole run of dog: main and run of src/main.rs, with the transports    *)
(* they send through, AutoTransport and FailoverTransport.                 *)
(*                                                                         *)
(* A run has a number of request sets, one for each combination of what    *)
(* the user asked for.  Each set has the names to search for, in order,    *)
(* and the nameservers to ask, in order; an automatic transport may ask    *)
(* each of them twice, over UDP and then over TCP.  The program is         *)
(* sequential: each exchange returns before the next begins, and each step *)
(* here is the return of one exchange and all that is done up to the next. *)
(* What an exchange may return is the promise of module Attempt.           *)
(***************************************************************************)
EXTENDS Naturals, Sequences, Messages

CONSTANTS
    Plans,         \* the sequences of request sets a run may have
    Responses,     \* what a response may be, as far as a run looks at it
    SendErrors,    \* the errors an exchange may return
    Timeout,       \* the time limit of one exchange
    Durations      \* how long an exchange that returns may have taken

Transports == {"auto", "udp", "tcp", "tls", "https"}

\* Answers of a response: none, records, or only OPT pseudo-records.
AnswerKinds == {"none", "standard", "pseudo"}

\* RequestGenerator::generate never makes a set without names, since the
\* name itself ends its search list, nor without nameservers.
ASSUME PlansAssumption ==
    \A plan \in Plans :
        /\ plan # <<>>
        /\ plan \in Seq([transport : Transports, servers : Nat \ {0}, names : Nat \ {0}])

ASSUME ResponsesAssumption ==
    Responses \subseteq [rcode : Nat, truncated : BOOLEAN, answers : AnswerKinds]

ASSUME ErrorsAssumption == SendErrors \subseteq TransportErrors

ASSUME TimesAssumption ==
    /\ Timeout \in Nat
    /\ Durations \subseteq 0..Timeout /\ Timeout \in Durations

VARIABLES
    plan,          \* the request sets
    short,         \* whether the format is short
    showOpt,       \* whether OPT records are shown
    pc,            \* options, generate, send, print or exit
    turn,          \* the exchange under way: its set, name, server and leg
    responses,     \* the responses kept, in order, each with where it is from
    errored,       \* whether any transport failed
    reported,      \* the errors printed, in order, each with its set
    asked,         \* history: every exchange made, with its outcome
    status         \* the exit status, or NoStatus

inputs == <<plan, short, showOpt>>
vars == <<inputs, pc, turn, responses, errored, reported, asked, status>>

NoStatus == 256

\* mod exits
SUCCESS == 0
NETWORK_ERROR == 1
NO_SHORT_RESULTS == 2
OPTIONS_ERROR == 3
SYSTEM_ERROR == 4

-----------------------------------------------------------------------------
(* The order of the exchanges.                                             *)

\* The automatic transport starts with UDP, any other has one way to send.
FirstLeg(set) == IF plan[set].transport = "auto" THEN "udp" ELSE plan[set].transport

FirstTurn(set) == [set |-> set, name |-> 1, server |-> 1, leg |-> FirstLeg(set)]

NextServerTurn ==
    [set |-> turn.set, name |-> turn.name, server |-> turn.server + 1, leg |-> FirstLeg(turn.set)]

NextNameTurn ==
    [set |-> turn.set, name |-> turn.name + 1, server |-> 1, leg |-> FirstLeg(turn.set)]

\* AutoTransport::send: the UDP response has its truncated flag set.
NeedsTcp(t, msg) ==
    plan[t.set].transport = "auto" /\ t.leg = "udp" /\ msg.truncated

\* Mutant of NeedsNextName: the error code is not looked at.
HasNextName(t, msg) == t.name < plan[t.set].names

\* send_until_answered: there is another name to try.
NeedsNextName(t, msg) == HasErrorCode(msg) /\ t.name < plan[t.set].names

-----------------------------------------------------------------------------
(* The program.                                                            *)

Init ==
    /\ plan \in Plans /\ short \in BOOLEAN /\ showOpt \in BOOLEAN
    /\ pc = "options"
    /\ turn = [set |-> 1, name |-> 1, server |-> 1, leg |-> FirstLeg(1)]
    /\ responses = <<>> /\ errored = FALSE /\ reported = <<>>
    /\ asked = {}
    /\ status = NoStatus

ExitWith(code) == pc' = "exit" /\ status' = code

\* output_failure: nothing is wrong when no one reads the output any more.
OutputFailure(kind, otherwise) == IF kind = "BrokenPipe" THEN otherwise ELSE SYSTEM_ERROR

ParseOptions ==
    /\ pc = "options"
    /\ pc' = "generate"
    /\ UNCHANGED <<inputs, turn, responses, errored, reported, asked, status>>

InvalidOptions ==
    /\ pc = "options"
    /\ ExitWith(OPTIONS_ERROR)
    /\ UNCHANGED <<inputs, turn, responses, errored, reported, asked>>

\* The usage, when asked for or for want of a domain, or the version: emit.
ShowHelp ==
    /\ pc = "options"
    /\ \E otherwise \in {SUCCESS, OPTIONS_ERROR} :
          \/ ExitWith(otherwise)
          \/ \E kind \in {"BrokenPipe", "Other"} : ExitWith(OutputFailure(kind, otherwise))
    /\ UNCHANGED <<inputs, turn, responses, errored, reported, asked>>

Generate ==
    /\ pc = "generate"
    /\ pc' = "send"
    /\ UNCHANGED <<inputs, turn, responses, errored, reported, asked, status>>

NoResolver ==
    /\ pc = "generate"
    /\ ExitWith(SYSTEM_ERROR)
    /\ UNCHANGED <<inputs, turn, responses, errored, reported, asked>>

\* The exchange under way returns, no later than its own time limit.
Exchange(outcome) ==
    /\ pc = "send"
    /\ \E took \in Durations :
          /\ outcome = Failed("Timeout") => took = Timeout
          /\ asked' = asked \cup {[turn |-> turn, outcome |-> outcome, took |-> took]}
    /\ UNCHANGED <<inputs, status>>

\* send_all goes on to the next set, or is over.
NextSet ==
    IF turn.set < Len(plan)
    THEN turn' = FirstTurn(turn.set + 1) /\ UNCHANGED pc
    ELSE pc' = "print" /\ UNCHANGED turn

\* AutoTransport asks again, over TCP, with the whole time limit afresh.
RetryOverTcp(msg) ==
    /\ Exchange(Answered(msg))
    /\ NeedsTcp(turn, msg)
    /\ turn' = [turn EXCEPT !.leg = "tcp"]
    /\ UNCHANGED <<pc, responses, errored, reported>>

\* send_until_answered tries the next name of the search list.
TryNextName(msg) ==
    /\ Exchange(Answered(msg))
    /\ ~NeedsTcp(turn, msg)
    /\ NeedsNextName(turn, msg)
    /\ turn' = NextNameTurn
    /\ UNCHANGED <<pc, responses, errored, reported>>

\* send_all keeps the response.
Keep(msg) ==
    /\ Exchange(Answered(msg))
    /\ ~NeedsTcp(turn, msg)
    /\ ~NeedsNextName(turn, msg)
    /\ responses' = Append(responses, [from |-> turn, msg |-> msg])
    /\ NextSet
    /\ UNCHANGED <<errored, reported>>

\* FailoverTransport goes on to the next nameserver, whatever the error.
FailOver(error) ==
    /\ Exchange(Failed(error))
    /\ turn.server < plan[turn.set].servers
    /\ turn' = NextServerTurn
    /\ UNCHANGED <<pc, responses, errored, reported>>

\* Mutants of Report: an error loses what was kept; any nameserver's error
\* ends the search; an error ends the run.
ReportAndForget(error) ==
    /\ Exchange(Failed(error))
    /\ turn.server = plan[turn.set].servers
    /\ reported' = Append(reported, [from |-> turn, error |-> error])
    /\ errored' = TRUE /\ responses' = <<>>
    /\ NextSet

ReportAtOnce(error) ==
    /\ Exchange(Failed(error))
    /\ reported' = Append(reported, [from |-> turn, error |-> error])
    /\ errored' = TRUE
    /\ NextSet
    /\ UNCHANGED responses

ReportAndStop(error) ==
    /\ Exchange(Failed(error))
    /\ turn.server = plan[turn.set].servers
    /\ reported' = Append(reported, [from |-> turn, error |-> error])
    /\ errored' = TRUE /\ pc' = "print"
    /\ UNCHANGED <<turn, responses>>

\* The last nameserver's error ends the search, and send_all prints it.
Report(error) ==
    /\ Exchange(Failed(error))
    /\ turn.server = plan[turn.set].servers
    /\ reported' = Append(reported, [from |-> turn, error |-> error])
    /\ errored' = TRUE
    /\ NextSet
    /\ UNCHANGED responses

\* What is left of the answers once pseudo-records are stripped.
HasResults(msg) == msg.answers = "standard" \/ (msg.answers = "pseudo" /\ showOpt)

NothingToShow ==
    short /\ \A i \in 1..Len(responses) : ~HasResults(responses[i].msg)

\* Mutant of ExitCode: a network error comes first.
ExitCodeErrorFirst(printed, failed) ==
    IF failed THEN NETWORK_ERROR
    ELSE IF printed THEN SUCCESS ELSE NO_SHORT_RESULTS

ExitCode(printed, failed) ==
    IF ~printed THEN NO_SHORT_RESULTS
    ELSE IF failed THEN NETWORK_ERROR ELSE SUCCESS

PrintResponses ==
    /\ pc = "print"
    /\ ExitWith(ExitCode(~NothingToShow, errored))
    /\ UNCHANGED <<inputs, turn, responses, errored, reported, asked>>

\* Writing fails, which it cannot when there is nothing to write.
PrintFails ==
    /\ pc = "print"
    /\ ~NothingToShow
    /\ \E kind \in {"BrokenPipe", "Other"} :
          ExitWith(OutputFailure(kind, ExitCode(TRUE, errored)))
    /\ UNCHANGED <<inputs, turn, responses, errored, reported, asked>>

Done == pc = "exit" /\ UNCHANGED vars

ExchangeReturns ==
    \/ \E msg \in Responses : RetryOverTcp(msg) \/ TryNextName(msg) \/ Keep(msg)
    \/ \E error \in SendErrors : FailOver(error) \/ Report(error)

Next ==
    \/ ParseOptions \/ InvalidOptions \/ ShowHelp
    \/ Generate \/ NoResolver
    \/ ExchangeReturns
    \/ PrintResponses \/ PrintFails
    \/ Done

\* Every exchange returns (Attempt), and the program runs.
Spec == Init /\ [][Next]_vars /\ WF_vars(Next)

-----------------------------------------------------------------------------
(* Properties.                                                             *)

Turns == [set : Nat \ {0}, name : Nat \ {0}, server : Nat \ {0}, leg : Transports]

Outcomes == {Answered(msg) : msg \in Responses} \cup {Failed(error) : error \in SendErrors}

\* What is kept of a response, of an error and of an exchange.
Kept == [from : Turns, msg : Responses]
Reports == [from : Turns, error : SendErrors]
Exchanges == [turn : Turns, outcome : Outcomes, took : Durations]

TypeOK ==
    /\ plan \in Plans /\ short \in BOOLEAN /\ showOpt \in BOOLEAN
    /\ pc \in {"options", "generate", "send", "print", "exit"}
    /\ turn \in Turns /\ turn.set <= Len(plan)
    /\ turn.name <= plan[turn.set].names /\ turn.server <= plan[turn.set].servers
    /\ responses \in Seq(Kept)
    /\ errored \in BOOLEAN
    /\ reported \in Seq(Reports)
    /\ asked \subseteq Exchanges
    /\ status \in 0..256

\* What the exchanges so far say of a name of a set: a server failed to
\* answer it, or answered over UDP with part of it, or some server's final
\* answer was an error code.
About(a, set, name) == a.turn.set = set /\ a.turn.name = name

ServerFailed(set, name, server) ==
    \E a \in asked : About(a, set, name) /\ a.turn.server = server /\
        \E error \in SendErrors : a.outcome = Failed(error)

WasCutShort(set, name, server) ==
    \E a \in asked : About(a, set, name) /\ a.turn.server = server /\ a.turn.leg = "udp" /\
        \E msg \in Responses : a.outcome = Answered(msg) /\ msg.truncated

NameHasNoAnswer(set, name) ==
    \E a \in asked : About(a, set, name) /\
        \E msg \in Responses :
            a.outcome = Answered(msg) /\ HasErrorCode(msg) /\ ~NeedsTcp(a.turn, msg)

\* An exchange is due: a name is asked for only when the name before it was
\* answered with an error code, a nameserver only when the one before it
\* failed, and TCP, of the automatic transport, only when the same server's
\* answer over UDP was cut short.
Due(t) ==
    /\ t.name > 1 => NameHasNoAnswer(t.set, t.name - 1)
    /\ t.server > 1 => ServerFailed(t.set, t.name, t.server - 1)
    /\ t.leg # FirstLeg(t.set) =>
          /\ plan[t.set].transport = "auto" /\ t.leg = "tcp"
          /\ WasCutShort(t.set, t.name, t.server)

\* No exchange is made that need not be: the order of search list,
\* nameservers and protocols is kept however answers and failures mix
\* (send_until_answered, FailoverTransport::send, AutoTransport::send).
EveryExchangeIsDue == \A a \in asked : Due(a.turn)

\* A response without an error code, unless it is to be asked for again over
\* TCP, is the answer to its set: it is kept, and nothing after it replaces
\* it or loses it, a failure of another set included (send_all).
FirstGoodAnswerIsKept ==
    \A a \in asked : \A msg \in Responses :
        a.outcome = Answered(msg) /\ ~HasErrorCode(msg) /\ ~NeedsTcp(a.turn, msg) =>
            \E i \in 1..Len(responses) : responses[i] = [from |-> a.turn, msg |-> msg]

\* The exchanges that end their set: a response that calls for neither TCP
\* nor another name, and the last nameserver's error.
EndsWithResponse(a, msg) ==
    a.outcome = Answered(msg) /\ ~NeedsTcp(a.turn, msg) /\ ~NeedsNextName(a.turn, msg)

EndsWithError(a, error) ==
    a.outcome = Failed(error) /\ a.turn.server = plan[a.turn.set].servers

\* What is kept and reported is exactly what the exchanges of all sets ended
\* with: a kept response was received, and has an error code only when it
\* answers the last name of its set; a reported error is the last
\* nameserver's; and no response and no error that ended a set is ever
\* missing, changed or dropped, whatever the other sets come to (send_all,
\* send_until_answered, FailoverTransport::send).
KeptAndReportedAreFinal ==
    /\ \A i \in 1..Len(responses) :
          LET r == responses[i] IN
          /\ \E a \in asked : a.turn = r.from /\ a.outcome = Answered(r.msg)
          /\ HasErrorCode(r.msg) => r.from.name = plan[r.from.set].names
          /\ ~NeedsTcp(r.from, r.msg)
    /\ \A i \in 1..Len(reported) :
          LET r == reported[i] IN
          /\ \E a \in asked : a.turn = r.from /\ a.outcome = Failed(r.error)
          /\ r.from.server = plan[r.from.set].servers
    /\ \A a \in asked :
          /\ \A msg \in Responses : EndsWithResponse(a, msg) =>
                \E i \in 1..Len(responses) : responses[i] = [from |-> a.turn, msg |-> msg]
          /\ \A error \in SendErrors : EndsWithError(a, error) =>
                \E i \in 1..Len(reported) : reported[i] = [from |-> a.turn, error |-> error]

\* How many sets are over.
SetsOver == IF pc = "send" THEN turn.set - 1
            ELSE IF pc = "print" THEN Len(plan)
            ELSE IF pc = "exit" THEN Len(responses) + Len(reported) ELSE 0

\* Every set that is over came to exactly one thing, a response or a reported
\* error, and those are in the order of the sets: a set that fails takes
\* nothing from another (send_all).
EverySetSettledOnce ==
    /\ Len(responses) + Len(reported) = SetsOver
    /\ \A i \in 1..Len(responses) : responses[i].from.set <= SetsOver
    /\ \A i \in 1..Len(reported) : reported[i].from.set <= SetsOver
    /\ \A i, j \in 1..Len(responses) : i < j => responses[i].from.set < responses[j].from.set
    /\ \A i, j \in 1..Len(reported) : i < j => reported[i].from.set < reported[j].from.set
    /\ \A i \in 1..Len(responses), j \in 1..Len(reported) :
          responses[i].from.set # reported[j].from.set

\* A run of dog keeps its promise: one outcome for each set, and a status that
\* tells what happened.
ResolvedSets ==
    [i \in 1..(Len(responses) + Len(reported)) |->
        IF \E k \in 1..Len(reported) : reported[k].from.set = i THEN "error"
        ELSE IF \E k \in 1..Len(responses) :
                    responses[k].from.set = i /\ HasResults(responses[k].msg)
        THEN "results" ELSE "no results"]

Promise == INSTANCE RunPromise WITH sets <- Len(plan), resolved <- ResolvedSets

ImplementsRunPromise == Promise!Spec

-----------------------------------------------------------------------------
(* What comments of the source say, and the code does not do.              *)

\* "on to the next whenever one fails to answer, each within `timeout`"
\* (connect.rs, make_transport_to): the time one nameserver is given.
EachNameserverWithinTimeout ==
    \A a, b \in asked :
        (a.turn.leg = "udp" /\ b.turn = [a.turn EXCEPT !.leg = "tcp"]) =>
            a.took + b.took <= Timeout

\* "UDP only. If [...] the response packet is truncated, fail with an error"
\* (connect.rs, TransportType::UDP).
TruncatedUdpResponseFails ==
    \A i \in 1..Len(responses) :
        plan[responses[i].from.set].transport = "udp" => ~responses[i].msg.truncated

=============================================================================
