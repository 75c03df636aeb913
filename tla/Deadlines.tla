----------------------------- MODULE Deadlines ------------------------------
(***************************************************************************)
(* The one deadline of an exchange (struct Deadline of net.rs) and the way *)
(* an I/O error becomes a transport error.  Time is a number of ticks; `at'*)
(* is the moment of the deadline and `now' the clock.                      *)
(***************************************************************************)
EXTENDS Naturals

\* io_left before its zero test: the subtraction saturates.
Left(at, now) == IF now < at THEN at - now ELSE 0

\* Deadline::left and io_left fail exactly when nothing is left.
Expired(at, now) == Left(at, now) = 0

\* io_error: both ways a socket reports that its timeout ran out.
IoError(kind) == IF kind \in {"WouldBlock", "TimedOut"} THEN "Timeout" ELSE "NetworkError"

=============================================================================
