----------------------------- MODULE MCRequests -----------------------------
(* A small instance of Requests, and so of Arguments, for TLC. *)
EXTENDS Requests

Addresses == INSTANCE Addresses

\* What the nameservers given are as text.
TextOf ==
    [nameserver \in {"host", "url", "n1", ""} |->
        CASE nameserver = "host" -> <<"dns", ":", "53">>
          [] nameserver = "url" -> <<"https", ":", "/", "/", "dns", "/">>
          [] nameserver = "n1" -> <<":", ":", "1">>
          [] nameserver = "" -> <<>>]

MCUsable(transport, nameserver) == Addresses!CheckNameserver(transport, TextOf[nameserver]).ok

\* Written names: one label, the root, an absolute name of two labels, and the
\* longest there may be.
Short == <<Part("dog", 3)>>
Dot == <<EmptyPart, EmptyPart>>
Two == <<Part("dog", 3), Part("test", 4), EmptyPart>>
Longest == <<Part("a", 63), Part("b", 63), Part("c", 63), Part("d", 61)>>

\* Names that are none: one of a part that is too long, of an empty part, of
\* one that has no ASCII form, of a space, and one too long as a whole.
TooLongPart == <<Part("longer", 64)>>
NoPart == <<Part("dog", 3), EmptyPart, Part("test", 4)>>
NotAscii == <<Part("-dog-", NoAscii)>>
Spaced == <<[Part("a b", 3) EXCEPT !.spaced = TRUE]>>
TooLong == <<Part("a", 63), Part("b", 63), Part("c", 63), Part("d", 62)>>

\* A word that is no more than a name, of letters only or not.
Plain(text, written) ==
    [text |-> text, at |-> None, constant |-> TRUE, opt |-> FALSE, class |-> None, type |-> None,
     class_number |-> None, type_number |-> None, written |-> written]
Name(written) == [Plain("name", written) EXCEPT !.constant = FALSE]
At(nameserver) == [Name(NotAscii) EXCEPT !.at = nameserver]

Dog == Plain("dog", Short)

\* A class, a type, and OPT, any of which could be a name; a number, which is
\* a class or a type only for the options; and names.
MCWords == {
    Dog, Name(Dot), Name(Two), Name(<<EmptyPart>>),
    [Dog EXCEPT !.class = "CH"],
    [Dog EXCEPT !.type = "MX"],
    [Dog EXCEPT !.opt = TRUE],
    [Name(<<Part("1", 1)>>) EXCEPT !.class_number = "IN", !.type_number = "A"],
    At("host"), At("url"), At("") }

NoWords == [query |-> <<>>, type |-> <<>>, nameserver |-> <<>>, class |-> <<>>, free |-> <<>>]

\* Settings that are all right.
Settings ==
    [split |-> "good", colour |-> "default", version |-> FALSE, help |-> FALSE, edns |-> "default",
     txid |-> "default", tweaks |-> {}, timeout |-> "default", protocols |-> {}, words |-> NoWords]

AtMost(n, words) == UNION {[1..k -> words] : k \in 0..n}

\* Plain arguments of every kind together, with each choice of protocols; each
\* option with a domain; nameservers as options and plainly; everything twice
\* or three times; and a domain with every setting.
MCCommandLines ==
    {[Settings EXCEPT !.protocols = protocols, !.words.free = free] :
        protocols \in {{}, {"https"}, {"tls", "udp"}, {"https", "tcp"}}, free \in AtMost(2, MCWords)}
    \cup {[Settings EXCEPT !.words[option] = <<word>>, !.words.free = <<Name(Longest)>>] :
             option \in {"query", "type", "class"},
             word \in MCWords \cup {Name(w) : w \in {TooLongPart, NoPart, Spaced, TooLong}}}
    \cup {[Settings EXCEPT !.words.nameserver = servers, !.words.free = <<word, Name(Two)>>] :
             servers \in AtMost(2, {Plain("host", Short), Plain("url", Short)}), word \in MCWords}
    \cup {[Settings EXCEPT !.protocols = {"tls", "tcp", "udp"},
             !.words = [query |-> <<Dog, Name(Two), Name(Dot)>>, type |-> <<[Dog EXCEPT !.type = "MX"], [Dog EXCEPT !.type = "A"]>>,
                        nameserver |-> servers, class |-> classes, free |-> <<[Dog EXCEPT !.type = "MX"]>>]] :
             servers \in {<<>>, <<Plain("host", Short), Plain("n1", Short), Plain("host", Short)>>},
             classes \in {<<>>, <<[Dog EXCEPT !.class = "CH"], [Dog EXCEPT !.class = "IN"]>>}}
    \cup {[split |-> split, colour |-> colour, version |-> version, help |-> help, edns |-> edns,
           txid |-> txid, tweaks |-> tweaks, timeout |-> timeout, protocols |-> {},
           words |-> [NoWords EXCEPT !.query = <<Name(Two)>>, !.nameserver = <<Plain("n1", Short)>>]] :
             split \in {"good", "bad"}, colour \in {"default", "unknown"}, version \in BOOLEAN,
             help \in BOOLEAN, edns \in {"disable", "show", "unknown"}, txid \in {"good", "bad"},
             tweaks \in {{}, {"aa"}, {"do"}, {"ad", "bufsize"}, {"cd", "unknown"}}, timeout \in {"good", "bad"}}

MCBuilds == {{}, {"tls", "https"}}

MCLines ==
    {NameserverLine("n1", TRUE), NameserverLine("n2", TRUE), NameserverLine("n3", FALSE),
     SearchLine(<<Two, TooLongPart, Longest>>), SearchLine(<<NoPart, NotAscii, TooLong, Dot>>),
     OtherLine, UnreadableLine}

\* Every file of up to two lines; with two search lists around a nameserver,
\* or one between two; and with as many nameservers as are used, or more.
MCFiles ==
    {NoFile} \cup AtMost(2, MCLines)
        \cup {<<SearchLine(first), NameserverLine("n1", TRUE), SearchLine(second)>> :
                 first \in {<<Two>>, <<>>}, second \in {<<>>, <<Dot, Short>>}}
        \cup {<<NameserverLine("n2", TRUE), SearchLine(<<Short>>), NameserverLine("n1", usable), last>> :
                 usable \in BOOLEAN, last \in {OtherLine, UnreadableLine}}
        \cup {[i \in 1..n |-> NameserverLine(IF i % 2 = 0 THEN "n1" ELSE "n4", TRUE)] : n \in 3..5}

\* Names, also more than one on a line and in a comment; what is no name; an
\* address alone; lines with none at all; and a line that cannot be read.
MCHostsFiles ==
    {NoFile,
     <<HostsLine(<<Dot, Two, TooLong, Longest>>, <<>>), HostsLine(<<>>, <<Short, Dot>>)>>,
     <<HostsLine(<<Short, Dot>>, <<Two>>), HostsLine(<<Dot>>, <<>>), HostsLine(<<Two, Short>>, <<>>)>>,
     <<HostsLine(<<Short, Two>>, <<>>), UnreadableLine>>}

=============================================================================
