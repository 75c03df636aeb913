---------------------------- MODULE MCConnecting ----------------------------
(* A small instance of Connecting for TLC.                                   *)
EXTENDS Connecting

v6 == <<":", ":", "1">>
v4InV6 == <<":", ":", "beef", ":", "v4">>

\* A name, IP addresses, a URL, and one that is neither of these.
MCNameservers ==
    {<<"dns">>, <<"v4", ":", "53">>, <<"[">> \o v6 \o <<"]", ":", "53">>, v4InV6,
     Scheme \o <<"dns", "/">>, Scheme \o <<"[">> \o v6 \o <<"]", "/">>, <<"dns", ":", "dns">>}

-----------------------------------------------------------------------------
(* Every text there may be, of up to so many words and punctuation marks.    *)

MaxText == 5

\* Two words next to each other are one word.
Written(n, words) ==
    {text \in [1..n -> words \cup Marks] : \A i \in 1..(n - 1) : text[i] \in Marks \/ text[i + 1] \in Marks}

MCTexts == UNION {Written(n, {"1", "443", "65536", "v4", "dns"}) : n \in 0..MaxText}

MCHosts ==
    {<<"dns">>, <<"v4">>, <<"1">>, v6, <<"1", ":", ":">>, <<"1", ":", ":", "1", ":", "53">>,
     <<"1", ":", "1", ":", "1", ":", "1", ":", "1", ":", "1", ":", "1", ":", "1">>,
     <<":", ":", "v4">>, v4InV6, <<"0443", ":", ":", "v4">>,
     <<"1", ":", "1", ":", "1", ":", "1", ":", "1", ":", "1", ":", "v4">>}

=============================================================================
