--------------------------- MODULE MCHttpExchange ---------------------------
(***************************************************************************)
(* A small instance of HttpExchange for TLC.  The byte 9 is half of a      *)
(* blank line; a head starts with the length it states, or with 5 to 8 for *)
(* the heads that are refused, each in its way.                            *)
(***************************************************************************)
EXTENDS HttpExchange

MCQuestion == Question("dog", "lower", 1, 1)
MCRequest == Request(1, MCQuestion)

MCBlankLine == <<9, 9>>

Head200(length) ==
    [parsed |-> "complete", code |-> 200, transfer_encoding |-> FALSE, content_length |-> length]

\* What httparse finds in a head.
MCParse(head) ==
    CASE Head(head) = 9 -> [Head200(0) EXCEPT !.parsed = "partial"]
      [] Head(head) = 8 -> [Head200(0) EXCEPT !.parsed = "error"]
      [] Head(head) = 7 -> [Head200(1) EXCEPT !.code = 404]
      [] Head(head) = 6 -> [Head200(1) EXCEPT !.transfer_encoding = TRUE]
      [] Head(head) = 5 -> Head200(NoLength)
      [] OTHER -> Head200(Head(head))

\* What each message says: <<1>> and <<9, 9>> are the answer; <<0>> is the
\* answer to another request; anything else cannot be read.
MCDecode(body) ==
    CASE body \in {<<1>>, <<9, 9>>} -> Readable(1, TRUE, <<MCQuestion>>, 0, FALSE)
      [] body = <<0>> -> Readable(2, TRUE, <<MCQuestion>>, 0, FALSE)
      [] OTHER -> Unreadable(NoTxid)

\* Heads up to twice as long as the limit, with and without a blank line, and
\* bodies of up to four bytes, among them blank lines: more than is stated,
\* and less, and longer than there may be.
MCHeads == {<<n>> : n \in 0..9} \cup {<<1, 0>>, <<1, 9, 0>>, <<2, 9, 0, 0>>, <<1, 0, 0, 0, 0>>}
MCBodies == UNION {[1..n -> {0, 1, 9}] : n \in 0..3}
MCResponses == {head \o <<9, 9>> \o body : head \in MCHeads, body \in MCBodies}
                   \cup {<<1, 0, 0, 0, 0, 0, 0, 9>>}

=============================================================================
