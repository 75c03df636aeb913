------------------------------ MODULE Messages ------------------------------
(***************************************************************************)
(* DNS messages as the transports see them, and the check that decides     *)
(* whether a message answers a request (dns/src/validate.rs).              *)
(*                                                                         *)
(* A question keeps what the comparison of two questions looks at: its     *)
(* name without regard to the case of its letters, the case they were      *)
(* spelled in, its type number and its class.                              *)
(*                                                                         *)
(* A message off the network is one record.  When it cannot be parsed only *)
(* its first two bytes matter, so an unreadable message still has a txid   *)
(* field, which is NoTxid when it is shorter than two bytes.               *)
(***************************************************************************)
EXTENDS Naturals, Sequences

\* No transaction ID: the message is shorter than the two bytes of one.
NoTxid == 65536

\* A question; `case' is the spelling of the letters of the name.
Question(name, case, qtype, qclass) ==
    [name |-> name, case |-> case, qtype |-> qtype, qclass |-> qclass]

Request(txid, question) == [txid |-> txid, query |-> question]

\* Response::from_bytes succeeded: header fields, questions, and what the
\* answer section holds that the program's decisions depend on.
Readable(txid, response, queries, rcode, truncated) ==
    [readable |-> TRUE, txid |-> txid, response |-> response,
     queries |-> queries, rcode |-> rcode, truncated |-> truncated]

\* Response::from_bytes failed on a message that starts with this txid.
Unreadable(txid) ==
    [readable |-> FALSE, txid |-> txid, response |-> FALSE,
     queries |-> <<>>, rcode |-> 0, truncated |-> FALSE]

\* ErrorCode::from_bits gives None for zero, and Some for every other code.
HasErrorCode(msg) == msg.rcode # 0

\* The names are compared without regard to case, the type by its number.
SameQuestion(asked, repeated) ==
    /\ asked.name = repeated.name
    /\ asked.qtype = repeated.qtype
    /\ asked.qclass = repeated.qclass

\* Request::check_response: "Ok", or the kind of mismatch.  The conditions
\* are tried in this order, and only the first question is looked at.
CheckResponse(request, msg) ==
    CASE msg.txid # request.txid -> "TransactionId"
      [] msg.txid = request.txid /\ ~msg.response -> "NotAResponse"
      [] OTHER ->
           IF \/ msg.queries # <<>> /\ SameQuestion(request.query, Head(msg.queries))
              \/ msg.queries = <<>> /\ HasErrorCode(msg)
           THEN "Ok" ELSE "Question"

\* What can go wrong making a request (enum Error of dns-transport).
TransportErrors ==
    {"WireError", "NetworkError", "TruncatedResponse", "Timeout", "MismatchedResponse",
     "InvalidNameserver", "TlsError", "TlsHandshakeError", "HttpError", "WrongHttpStatus",
     "MalformedHttp"}

\* The outcome of a Transport::send: not yet known, Ok, or Err of a kind.
\* Tuples, so that any two outcomes can be compared.
Pending == <<"Pending">>
Answered(msg) == <<"Answered", msg>>
Failed(error) == <<"Failed", error>>

\* The end of every exchange over a stream: from_bytes, then check_response.
Judged(request, msg) ==
    IF ~msg.readable THEN Failed("WireError")
    ELSE IF CheckResponse(request, msg) = "Ok" THEN Answered(msg)
    ELSE Failed("MismatchedResponse")

=============================================================================
