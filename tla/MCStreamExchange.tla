--------------------------- MODULE MCStreamExchange -------------------------
(* A small instance of StreamExchange for TLC, with bytes of two values. *)
EXTENDS StreamExchange

MCQuestion == Question("dog", "lower", 1, 1)
MCRequest == Request(1, MCQuestion)

\* What each message says: <<1>> is the answer; <<0>> is the answer to
\* another request; <<1, 0>> is a refusal; anything else cannot be read.
MCDecode(message) ==
    CASE message = <<1>> -> Readable(1, TRUE, <<MCQuestion>>, 0, FALSE)
      [] message = <<0>> -> Readable(2, TRUE, <<MCQuestion>>, 0, FALSE)
      [] message = <<1, 0>> -> Readable(1, TRUE, <<>>, 5, FALSE)
      [] OTHER -> Unreadable(NoTxid)

\* A length of two whose message is followed by more, lengths of one, a
\* length of zero, and three bytes stated but two sent.
MCReplies == { <<1, 0, 1, 0, 1>>, <<0, 1, 1, 1>>, <<0, 1, 0>>, <<0, 0, 1>>, <<1, 1, 1, 0>>,
               <<1, 0, 1, 1>> }

=============================================================================
