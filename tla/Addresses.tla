----------------------------- MODULE Addresses ------------------------------
(***************************************************************************)
(* Nameservers as they are written: a host with or without a port, or the  *)
(* URL of a DNS-over-HTTPS server (dns-transport/src/address.rs).          *)
(*                                                                         *)
(* A text is a sequence of words and of the punctuation that matters; a    *)
(* space stands for whatever is not printable ASCII, v4 for an IPv4        *)
(* address.  No two words are next to each other.                          *)
(***************************************************************************)
EXTENDS Integers, SequencesExt

\* The words that are numbers, bounded to these: the standard library reads a
\* zero in front, and a sign.
Numbers ==
    [word \in {"0", "1", "53", "443", "0443", "+443", "65535", "65536"} |->
        CASE word = "0" -> 0 [] word = "1" -> 1 [] word = "53" -> 53
          [] word \in {"443", "0443", "+443"} -> 443
          [] word = "65535" -> 65535 [] word = "65536" -> 65536]
PortDigits(number) == CHOOSE word \in DOMAIN Numbers \ {"0443", "+443"} : Numbers[word] = number

\* Those that can be a group of an IPv6 address, of up to four hexadecimal
\* digits, and those that can be a host name: a + is not allowed in one.
Groups == {"0", "1", "53", "443", "0443", "beef"}
Words == DOMAIN Numbers \cup {"beef", "dns", "v4", "https"}
Names == Words \ {"+443"}
Marks == {":", "[", "]", "/", "@", "#", " "}

Unusable(reason) == [ok |-> FALSE, reason |-> reason]

Holds(text, mark) == mark \in Range(text)
FirstOf(text, mark) == Min({i \in DOMAIN text : text[i] = mark})
LastOf(text, mark) == Max({i \in DOMAIN text : text[i] = mark})
UpTo(text, i) == SubSeq(text, 1, i)
From(text, i) == SubSeq(text, i, Len(text))

Scheme == <<"https", ":", "/", "/">>
HasScheme(text) == \E i \in DOMAIN text : i + 2 <= Len(text) /\ SubSeq(text, i, i + 2) = Tail(Scheme)

\* Groups with a colon between each two, of which an IPv4 address can be the
\* last two; and how many.
EndsInV4(text) == text # <<>> /\ Last(text) = "v4"
IsGroups(text) ==
    /\ Len(text) % 2 = 1
    /\ \A i \in DOMAIN text :
          IF i % 2 = 1 THEN text[i] \in Groups \/ (i = Len(text) /\ text[i] = "v4") ELSE text[i] = ":"
Count(text) == (Len(text) + 1) \div 2 + (IF EndsInV4(text) THEN 1 ELSE 0)

\* Eight groups, or fewer with two colons in place of the rest, which no IPv4
\* address can be in front of.
IsIPv6(text) ==
    \/ IsGroups(text) /\ Count(text) = 8
    \/ \E i \in DOMAIN text :
          LET left == UpTo(text, i - 1)
              right == From(text, i + 2)
          IN  /\ i < Len(text) /\ text[i] = ":" /\ text[i + 1] = ":"
              /\ left = <<>> \/ (IsGroups(left) /\ ~EndsInV4(left))
              /\ right = <<>> \/ IsGroups(right)
              /\ Count(left) + Count(right) <= 7

IsIP(text) == text = <<"v4">> \/ IsIPv6(text)

IsHost(host) == IsIP(host) \/ Range(host) \subseteq Names

\* split_bracketed, given what follows the bracket; and an address without one
\* is split at its last colon.
SplitBracketed(bracketed) ==
    IF ~Holds(bracketed, "]") THEN Unusable("its '[' is never closed")
    ELSE LET close == FirstOf(bracketed, "]")
             host == UpTo(bracketed, close - 1)
             rest == From(bracketed, close + 1)
         IN  IF rest = <<>> THEN [ok |-> TRUE, host |-> host, port |-> <<>>]
             ELSE IF rest[1] = ":" THEN [ok |-> TRUE, host |-> host, port |-> <<Tail(rest)>>]
             ELSE Unusable("something other than a port follows its ']'")

Split(addr) ==
    IF Holds(addr, ":")
    THEN LET colon == LastOf(addr, ":") IN
         [ok |-> TRUE, host |-> UpTo(addr, colon - 1), port |-> <<From(addr, colon + 1)>>]
    ELSE [ok |-> TRUE, host |-> addr, port |-> <<>>]

MaxPort == 65535
IsPort(text) == Len(text) = 1 /\ text[1] \in DOMAIN Numbers /\ Numbers[text[1]] <= MaxPort

\* The parts of an address, once it is split.
HostAndPort(parts, default_port) ==
    IF ~parts.ok THEN parts
    ELSE IF parts.host = <<>> THEN Unusable("it has no host")
    ELSE IF ~IsHost(parts.host) THEN Unusable("its host is not an IP address or a host name")
    ELSE IF parts.port = <<>> THEN [ok |-> TRUE, host |-> parts.host, port |-> default_port]
    ELSE IF IsPort(parts.port[1])
    THEN [ok |-> TRUE, host |-> parts.host, port |-> Numbers[parts.port[1][1]]]
    ELSE Unusable("its port is not a number from 0 to 65535")

\* Mutant of ParseHostPort: nothing looks for an IPv6 address first.
ParseHostPortAtColon(addr, default_port) ==
    IF HasScheme(addr) THEN Unusable("it is a URL, which only DNS-over-HTTPS can use")
    ELSE IF addr # <<>> /\ addr[1] = "[" THEN HostAndPort(SplitBracketed(Tail(addr)), default_port)
    ELSE HostAndPort(Split(addr), default_port)

ParseHostPort(addr, default_port) ==
    IF HasScheme(addr) THEN Unusable("it is a URL, which only DNS-over-HTTPS can use")
    ELSE IF IsIPv6(addr) THEN [ok |-> TRUE, host |-> addr, port |-> default_port]
    ELSE IF addr # <<>> /\ addr[1] = "[" THEN HostAndPort(SplitBracketed(Tail(addr)), default_port)
    ELSE HostAndPort(Split(addr), default_port)

\* The host, the port and the path of a URL, without its fragment.
ParseHttpsUrl(url) ==
    LET rest == From(url, Len(Scheme) + 1)
        slash == FirstOf(rest, "/")
        authority == UpTo(rest, slash - 1)
        path == From(rest, slash)
        server == ParseHostPort(authority, 443)
    IN  IF Holds(url, " ") THEN Unusable("it contains a space, a control character, or a character that is not ASCII")
        ELSE IF ~IsPrefix(Scheme, url) THEN Unusable("it does not start with 'https://'")
        ELSE IF ~Holds(rest, "/") THEN Unusable("it has no path, such as '/dns-query'")
        ELSE IF Holds(authority, "@") THEN Unusable("it has a user name or password, which dog cannot send")
        ELSE IF ~server.ok THEN Unusable("its host or port is not valid")
        ELSE [ok |-> TRUE, host |-> server.host, port |-> server.port,
              path |-> IF Holds(path, "#") THEN UpTo(path, FirstOf(path, "#") - 1) ELSE path]

\* host_header: the host and the port as the Host header and :authority say it.
HostHeader(url) ==
    LET host == IF Holds(url.host, ":") THEN <<"[">> \o url.host \o <<"]">> ELSE url.host
    IN  IF url.port = 443 THEN host
        ELSE host \o <<":", PortDigits(url.port)>>

\* check_nameserver: the server that a transport would make of it.
CheckNameserver(transport, nameserver) ==
    CASE transport \in {"auto", "udp", "tcp"} -> ParseHostPort(nameserver, 53)
      [] transport = "tls" -> ParseHostPort(nameserver, 853)
      [] transport = "https" -> ParseHttpsUrl(nameserver)

-----------------------------------------------------------------------------
(* What the addresses that are accepted should mean.                       *)

Ports == {Numbers[word] : word \in DOMAIN Numbers} \cap 0..MaxPort
DefaultPorts == {53, 853, 443}

\* The ways to write a host and a port that may be left out if it is the
\* default.  Brackets may be around any host.  Only where the host and port
\* would be an IPv6 address together can they not be left out.
WaysToWrite(host, port, default_port) ==
    LET bracketed == <<"[">> \o host \o <<"]">>
        digits == {word \in DOMAIN Numbers : Numbers[word] = port}
    IN  {bracketed \o <<":", word>> : word \in digits}
        \cup {text \in {host \o <<":", word>> : word \in digits} : ~IsIPv6(text)}
        \cup (IF port = default_port THEN {host, bracketed} ELSE {})

\* A text that is accepted is one of the ways to write the host and the port
\* that it is taken for: no part of it is ignored or taken twice.
TakenAsWritten(text, default_port) ==
    LET server == ParseHostPort(text, default_port) IN
    server.ok => text \in WaysToWrite(server.host, server.port, default_port)

\* Each way is accepted and taken for just that.
WrittenAsTaken(host, port, default_port) ==
    \A text \in WaysToWrite(host, port, default_port) :
        ParseHostPort(text, default_port) = [ok |-> TRUE, host |-> host, port |-> port]

\* The path of a URL that is accepted is part of it, starts with / and has
\* neither space nor fragment; no user is named before it; and the Host header
\* made of the URL names the server that it is sent to.
NamesItsServer(url) ==
    LET rest == From(url, Len(Scheme) + 1)
        slash == FirstOf(rest, "/")
        parsed == ParseHttpsUrl(url)
    IN  parsed.ok =>
          /\ Head(parsed.path) = "/" /\ Range(parsed.path) \cap {" ", "#"} = {}
          /\ IsPrefix(parsed.path, From(rest, slash))
          /\ ~Holds(UpTo(rest, slash), "@")
          /\ ParseHostPort(HostHeader(parsed), 443)
                = [ok |-> TRUE, host |-> parsed.host, port |-> parsed.port]

=============================================================================
