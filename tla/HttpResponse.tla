---------------------------- MODULE HttpResponse ----------------------------
(***************************************************************************)
(* What reading a DNS message out of an HTTP response promises, in         *)
(* whichever version of HTTP it comes: nothing counts as the body before   *)
(* the head with the status 200, the body grows at its end only and never  *)
(* beyond what a DNS message can be, and what is returned at last is what  *)
(* the body says, or an error.                                             *)
(***************************************************************************)
EXTENDS SequencesExt, Messages

CONSTANTS
    TheRequest,    \* the request sent
    Decode(_),     \* Response::from_bytes: a message for a body
    MAX_BODY,      \* the longest body there may be
    Errors         \* the errors in reading the response, before it is judged

VARIABLES
    head,          \* whether the head of the response has been read
    body,          \* the body so far
    whole,         \* whether that is all of it, by what the server said
    result         \* Pending, Answered or Failed

vars == <<head, body, whole, result>>

Init == head = FALSE /\ body = <<>> /\ whole = FALSE /\ result = Pending

Next ==
    /\ result = Pending
    /\ head' \in BOOLEAN /\ (head => head')
    /\ whole' \in BOOLEAN /\ (whole => whole')
    /\ IsPrefix(body, body') /\ (whole => body' = body)
    /\ whole' \/ body' # <<>> => head' /\ Len(body') <= MAX_BODY
    /\ \/ result' = Pending
       \/ result' \in {Failed(error) : error \in Errors}
       \/ whole' /\ result' = Judged(TheRequest, Decode(body'))

Spec == Init /\ [][Next]_vars

=============================================================================
