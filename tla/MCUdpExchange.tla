--------------------------- MODULE MCUdpExchange ----------------------------
(* A small instance of UdpExchange for TLC. *)
EXTENDS UdpExchange

MCQuestion == Question("dog", "lower", 1, 1)
MCRequest == Request(1, MCQuestion)

\* The answer with the name in other letters and cut short, a refusal without
\* a question, a late answer to another request, another request's question,
\* an echo of the request, a garbled reply, and two kinds of noise.
MCDatagrams == {
    Readable(1, TRUE, <<Question("dog", "upper", 1, 1)>>, 0, TRUE),
    Readable(1, TRUE, <<>>, 5, FALSE),
    Readable(2, TRUE, <<MCQuestion>>, 0, FALSE),
    Readable(1, TRUE, <<Question("dog", "lower", 28, 1), MCQuestion>>, 3, FALSE),
    Readable(1, TRUE, <<>>, 0, FALSE),
    Readable(1, FALSE, <<MCQuestion>>, 0, FALSE),
    Unreadable(1),
    Unreadable(2),
    Unreadable(NoTxid) }

=============================================================================
