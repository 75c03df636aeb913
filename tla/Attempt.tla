------------------------------ MODULE Attempt -------------------------------
(***************************************************************************)
(* What one call of Transport::send promises its caller, whatever protocol *)
(* it speaks (the trait of dns-transport/src/lib.rs): exactly one outcome, *)
(* which is a response that answers the request or an error; the outcome   *)
(* Timeout is only given once the deadline has been reached; and there is  *)
(* an outcome in the end, however the network behaves.                     *)
(***************************************************************************)
EXTENDS Naturals, Messages

CONSTANTS
    Deadline,      \* the tick by which the exchange must be over
    Horizon,       \* the last tick of the clock
    Acceptable,    \* the responses that answer the request
    Errors         \* the errors this protocol can end in

VARIABLES
    clock,         \* the time
    result         \* Pending, Answered or Failed

vars == <<clock, result>>

\* Part of the time may have gone before this part of the exchange begins.
Init == clock \in 0..Horizon /\ result = Pending

Tick == clock < Horizon /\ clock' = clock + 1 /\ UNCHANGED result

Answer ==
    /\ result = Pending
    /\ \E msg \in Acceptable : result' = Answered(msg)
    /\ UNCHANGED clock

Fail ==
    /\ result = Pending
    /\ \E error \in Errors :
          /\ error = "Timeout" => clock >= Deadline
          /\ result' = Failed(error)
    /\ UNCHANGED clock

Next == Tick \/ Answer \/ Fail

Spec == Init /\ [][Next]_vars /\ <>(result # Pending)

=============================================================================
