----------------------------- MODULE RunPromise -----------------------------
(***************************************************************************)
(* What a run of dog promises whoever runs it, in terms of what they can   *)
(* see: each set of requests comes to exactly one thing, in order, either  *)
(* a response or a reported error, and one that fails takes nothing from   *)
(* the others; then dog exits, and its status tells what happened (the     *)
(* module exits of src/main.rs, and the exit codes of the manual).         *)
(***************************************************************************)
EXTENDS Naturals, Sequences

VARIABLES
    sets,          \* how many sets of requests this run has
    short,         \* whether it prints in short mode
    resolved,      \* what the sets so far came to, in order
    status         \* the exit status, or NoStatus before dog exits

vars == <<sets, short, resolved, status>>

NoStatus == 256

SUCCESS == 0
NETWORK_ERROR == 1
NO_SHORT_RESULTS == 2
OPTIONS_ERROR == 3
SYSTEM_ERROR == 4

\* A set comes to an error, or to a response with or without answers to show.
Outcomes == {"error", "results", "no results"}

Init ==
    /\ sets \in Nat \ {0}
    /\ short \in BOOLEAN
    /\ resolved = <<>>
    /\ status = NoStatus

Resolve ==
    /\ status = NoStatus
    /\ Len(resolved) < sets
    /\ \E outcome \in Outcomes : resolved' = Append(resolved, outcome)
    /\ UNCHANGED <<sets, short, status>>

AnyOf(outcome) == \E i \in 1..Len(resolved) : resolved[i] = outcome

\* Nothing to show in short mode comes before a failure of the network.
Verdict ==
    IF short /\ ~AnyOf("results") THEN NO_SHORT_RESULTS
    ELSE IF AnyOf("error") THEN NETWORK_ERROR ELSE SUCCESS

Exit ==
    /\ status = NoStatus
    /\ Len(resolved) = sets
    /\ status' = Verdict \/ (status' = SYSTEM_ERROR /\ Verdict # NO_SHORT_RESULTS)
    /\ UNCHANGED <<sets, short, resolved>>

\* Nothing is sent: the options are wrong or only ask for help, or there is
\* no nameserver to send to.
ExitEarly ==
    /\ status = NoStatus
    /\ resolved = <<>>
    /\ status' \in {SUCCESS, OPTIONS_ERROR, SYSTEM_ERROR}
    /\ UNCHANGED <<sets, short, resolved>>

Next == Resolve \/ Exit \/ ExitEarly

Spec == Init /\ [][Next]_vars /\ <>(status # NoStatus)

=============================================================================
