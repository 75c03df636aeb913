------------------------------ MODULE Requests ------------------------------
(***************************************************************************)
(* Making the request sets of a run: names that the hosts file has too are *)
(* warned about (src/hints.rs), the resolvers are obtained, that of        *)
(* the system by reading resolv.conf line by line (src/resolve.rs), and    *)
(* then one set is made for each combination of the inputs                 *)
(* (RequestGenerator::generate, src/requests.rs), with a request for each  *)
(* name of the search list.                                                *)
(*                                                                         *)
(* Flags, the OPT record and transaction IDs are left out: they are the    *)
(* same, or random, in all requests.                                       *)
(***************************************************************************)
EXTENDS Arguments

CONSTANTS
    HostsFiles,    \* what the hosts file may be: its lines, or NoFile
    Files,         \* what resolv.conf may be: its lines, or NoFile
    MAX_NAMESERVERS \* how many of its nameservers are used (3)

\* The file cannot be opened.
NoFile == <<[kind |-> "no file"]>>

\* A line of resolv.conf.  Only a nameserver that is an IP address is usable;
\* a search list is written names; a line that is not UTF-8 cannot be read.
NameserverLine(nameserver, usable) ==
    [kind |-> "nameserver", nameserver |-> nameserver, usable |-> usable]
SearchLine(names) == [kind |-> "search", names |-> names]
OtherLine == [kind |-> "other"]
UnreadableLine == [kind |-> "unreadable"]

\* A line of the hosts file: its fields, of which the first is an address and
\* the others are written names, as far as they stand before a comment; and
\* what is after the # that begins one.
HostsLine(fields, comment) == [kind |-> "hosts", fields |-> fields, comment |-> comment]

FileLines ==
    [kind : {"nameserver"}, nameserver : STRING, usable : BOOLEAN]
        \cup [kind : {"search"}, names : Seq(Seq(Parts))] \cup {OtherLine, UnreadableLine}

HostsLines ==
    [kind : {"hosts"}, fields : Seq(Seq(Parts)), comment : Seq(Seq(Parts))] \cup {UnreadableLine}

ASSUME FilesAssumption ==
    Files \subseteq {NoFile} \cup Seq(FileLines) /\ HostsFiles \subseteq {NoFile} \cup Seq(HostsLines)

ASSUME NameserversAssumption == MAX_NAMESERVERS \in Nat \ {0}

VARIABLES
    hosts,         \* the hosts file, as it is when it is opened
    warned,        \* the domains that were warned about
    file,          \* resolv.conf, as it is when it is opened
    read,          \* how many lines of it have been read
    nameservers,   \* parse_resolv_conf: those found so far
    search_list,   \* parse_resolv_conf: the last one so far
    resolvers,     \* the resolvers obtained
    place,         \* where the loops of generate are
    sets           \* the request sets made so far

arguments == <<given, without, words_read, inputs>>
hints == <<hosts, warned>>
system == <<file, read, nameservers, search_list>>
generated == <<place, sets>>

vars == <<arguments, pc, result, hints, system, resolvers, generated>>

-----------------------------------------------------------------------------

\* The loops of generate, the outermost first.
Loops == 1..5

Init ==
    /\ GivenSomething
    /\ hosts = <<>> /\ warned = <<>>
    /\ file = <<>> /\ read = 0 /\ nameservers = <<>> /\ search_list = <<>>
    /\ resolvers = <<>> /\ place = [loop \in Loops |-> 1] /\ sets = <<>>

-----------------------------------------------------------------------------
(* Warnings.                                                               *)

\* The names on a line; what are none are passed over.
NamesOn(line) ==
    IF line.fields = <<>> THEN {} ELSE {Encode(w) : w \in {v \in Range(Tail(line.fields)) : IsName(v)}}

\* LocalHosts::load.  There are no names at all if there is one line that
\* cannot be read.
LocalHosts(lines) ==
    IF lines = NoFile \/ \E i \in DOMAIN lines : lines[i] = UnreadableLine THEN {}
    ELSE UNION {NamesOn(lines[i]) : i \in DOMAIN lines}

WarnAboutLocalHosts ==
    /\ pc = "warn" /\ pc' = "obtain"
    /\ hosts' \in HostsFiles
    /\ warned' = Kept(inputs.domains, LocalHosts(hosts'))
    /\ UNCHANGED <<arguments, result, system, resolvers, generated>>

-----------------------------------------------------------------------------
(* Obtaining the resolvers.                                                *)

NextResolver(kind) ==
    /\ pc = "obtain" /\ Len(resolvers) < Len(inputs.resolvers)
    /\ inputs.resolvers[Len(resolvers) + 1].kind = kind

ObtainSpecific ==
    /\ NextResolver("specific")
    /\ resolvers' = Append(resolvers,
           [nameservers |-> <<inputs.resolvers[Len(resolvers) + 1].nameserver>>, search_list |-> <<>>])
    /\ UNCHANGED <<arguments, pc, hints, system, generated, result>>

OpenFile ==
    /\ NextResolver("system")
    /\ file' \in Files
    /\ nameservers' = <<>> /\ search_list' = <<>> /\ read' = 0
    /\ IF file' = NoFile THEN Return("IO") ELSE pc' = "read" /\ UNCHANGED <<words_read, result>>
    /\ UNCHANGED <<given, without, inputs, hints, resolvers, generated>>

NextLine(kind) == pc = "read" /\ read < Len(file) /\ file[read + 1].kind = kind

FindNameserver ==
    /\ NextLine("nameserver")
    /\ nameservers' = IF file[read + 1].usable THEN Append(nameservers, file[read + 1].nameserver)
                      ELSE nameservers
    /\ read' = read + 1
    /\ UNCHANGED <<arguments, file, pc, search_list, resolvers, generated, hints, result>>

\* Mutant of FindSearchList: the lists of all lines are kept.
FindSearchListToo ==
    /\ NextLine("search")
    /\ search_list' = search_list \o file[read + 1].names
    /\ read' = read + 1
    /\ UNCHANGED <<arguments, file, pc, nameservers, resolvers, generated, hints, result>>

FindSearchList ==
    /\ NextLine("search")
    /\ search_list' = file[read + 1].names
    /\ read' = read + 1
    /\ UNCHANGED <<arguments, file, pc, nameservers, resolvers, generated, hints, result>>

PassOver ==
    /\ NextLine("other")
    /\ read' = read + 1
    /\ UNCHANGED <<arguments, file, pc, nameservers, search_list, resolvers, generated, hints, result>>

ReadFails ==
    /\ NextLine("unreadable")
    /\ Return("IO")
    /\ UNCHANGED <<given, without, inputs, hints, system, resolvers, generated>>

\* The end of parse_resolv_conf.
EndOfFile ==
    /\ pc = "read" /\ read = Len(file)
    /\ IF nameservers = <<>> THEN Return("NoNameserver") /\ UNCHANGED resolvers
       ELSE /\ pc' = "obtain"
            /\ resolvers' = Append(resolvers,
                   [nameservers |-> SubSeq(nameservers, 1,
                        IF Len(nameservers) < MAX_NAMESERVERS THEN Len(nameservers) ELSE MAX_NAMESERVERS),
                    search_list |-> search_list])
            /\ UNCHANGED <<words_read, result>>
    /\ UNCHANGED <<given, without, inputs, hints, system, generated>>

StartGenerating ==
    /\ pc = "obtain" /\ Len(resolvers) = Len(inputs.resolvers)
    /\ pc' = "generate"
    /\ UNCHANGED <<arguments, system, resolvers, generated, hints, result>>

-----------------------------------------------------------------------------
(* Making the sets.                                                        *)

\* Resolver::name_list.  A search list's names that are not names are passed
\* over.
NameList(resolver, name) ==
    IF Len(name) > 1 THEN <<name>>
    ELSE LET suffixes == Kept(resolver.search_list, {w \in Range(resolver.search_list) : IsName(w)}) IN
         Append([i \in DOMAIN suffixes |-> Extend(name, Encode(suffixes[i]))], name)

RequestsFor(names, type, class) ==
    [i \in DOMAIN names |-> [qname |-> names[i], qtype |-> type, qclass |-> class]]

\* The body of the innermost loop.
SetAt(at) ==
    [transport |-> inputs.transports[at[5]],
     servers   |-> resolvers[at[4]].nameservers,
     requests  |-> RequestsFor(NameList(resolvers[at[4]], inputs.domains[at[1]]),
                               inputs.types[at[2]], inputs.classes[at[3]])]

Lengths == <<Len(inputs.domains), Len(inputs.types), Len(inputs.classes),
             Len(resolvers), Len(inputs.transports)>>

\* The loops that have another turn, of which the innermost takes it and
\* those within it start anew.
Unfinished == {loop \in Loops : place[loop] < Lengths[loop]}

Innermost(loops) == CHOOSE loop \in loops : \A other \in loops : other <= loop

\* Mutant of NextPlace: the loops within are not begun again.
NextPlaceOnce ==
    [place EXCEPT ![Innermost(Unfinished)] = @ + 1]

NextPlace ==
    [loop \in Loops |->
        IF loop < Innermost(Unfinished) THEN place[loop]
        ELSE IF loop = Innermost(Unfinished) THEN place[loop] + 1
        ELSE 1]

MakeSet ==
    /\ pc = "generate"
    /\ sets' = Append(sets, SetAt(place))
    /\ IF Unfinished = {} THEN Return("Ok") /\ UNCHANGED place
       ELSE place' = NextPlace /\ UNCHANGED <<pc, words_read, result>>
    /\ UNCHANGED <<given, without, inputs, hints, system, resolvers>>

Done == pc = "done" /\ UNCHANGED vars

ReadArgument == ReadArguments /\ UNCHANGED <<hints, system, resolvers, generated>>

Step ==
    \/ ReadArgument \/ WarnAboutLocalHosts
    \/ ObtainSpecific \/ OpenFile
    \/ FindNameserver \/ FindSearchList \/ PassOver \/ ReadFails \/ EndOfFile
    \/ StartGenerating \/ MakeSet

Next == Step \/ Done

Spec == Init /\ [][Next]_vars

-----------------------------------------------------------------------------
(* Properties.                                                             *)

UsableLine(line) == line.kind = "nameserver" /\ line.usable

\* How many of the first n lines have a usable nameserver.
UsableAmong(n) == Cardinality({i \in 1..n : UsableLine(file[i])})

FileIsReadable == file # NoFile /\ \A i \in DOMAIN file : file[i].kind # "unreadable"

SearchesAfter(n) == {i \in DOMAIN file : i > n /\ file[i].kind = "search"}

\* The resolver of the system is what resolv.conf says.
IsOfTheFile(resolver) ==
    /\ Len(resolver.nameservers) =
           IF UsableAmong(Len(file)) < MAX_NAMESERVERS THEN UsableAmong(Len(file)) ELSE MAX_NAMESERVERS
    /\ \A i \in DOMAIN file :
          UsableLine(file[i]) /\ UsableAmong(i) <= MAX_NAMESERVERS =>
              resolver.nameservers[UsableAmong(i)] = file[i].nameserver
    /\ IF SearchesAfter(0) = {} THEN resolver.search_list = <<>>
       ELSE \E i \in SearchesAfter(0) :
                SearchesAfter(i) = {} /\ resolver.search_list = file[i].names

HowOften(value, list) == Cardinality({i \in DOMAIN list : list[i] = value})

HostsWereRead == pc \in {"obtain", "read", "generate"} \/ result \in {"Ok", "IO", "NoNameserver"}

HostsAreReadable == hosts # NoFile /\ \A i \in DOMAIN hosts : hosts[i].kind # "unreadable"

\* The name stands on some line of the hosts file, where a name may stand.
InHostsFile(name) ==
    \E i \in DOMAIN hosts : \E field \in 2..Len(hosts[i].fields) :
        LET written == hosts[i].fields[field] IN IsName(written) /\ Encode(written) = name

\* The system's files are taken as the whole of them says.  The resolver has
\* the first usable nameservers of resolv.conf in order, no more than there may
\* be, and the last search list alone; and it is refused only when the file
\* cannot be read or has no nameserver (parse_resolv_conf, which reads on to
\* the end whatever it found).  Before it is obtained, a domain is warned of as
\* often as it is given if the hosts file has it, and none is if that file
\* cannot be read to its end, which stops nothing (warn_about_local_hosts).
SystemFilesAreFollowed ==
    /\ \A r \in DOMAIN resolvers : inputs.resolvers[r] = SystemDefault =>
          FileIsReadable /\ IsOfTheFile(resolvers[r])
    /\ result = "IO" => ~FileIsReadable
    /\ result = "NoNameserver" => FileIsReadable /\ UsableAmong(Len(file)) = 0
    /\ HostsWereRead /\ HostsAreReadable =>
          \A domain \in Range(inputs.domains) :
              HowOften(domain, warned) = IF InHostsFile(domain) THEN HowOften(domain, inputs.domains) ELSE 0
    /\ HostsWereRead /\ ~HostsAreReadable => warned = <<>>

\* The number of a combination when they are counted with the last input as
\* the fastest.
Number(at) ==
    (((((((at[1] - 1) * Lengths[2]) + at[2] - 1) * Lengths[3]) + at[3] - 1) * Lengths[4]
        + at[4] - 1) * Lengths[5]) + at[5] - 1

\* A set asks some nameserver about some name.  Its last request is for the
\* name that was given, and the others, of which there are none for a name of
\* several labels, are for that name with more behind it.
IsSetFor(set, at) ==
    LET domain == inputs.domains[at[1]]
        names == [i \in DOMAIN set.requests |-> set.requests[i].qname] IN
    /\ set.transport = inputs.transports[at[5]]
    /\ set.servers = resolvers[at[4]].nameservers /\ set.servers # <<>>
    /\ \A i \in DOMAIN set.requests :
          set.requests[i].qtype = inputs.types[at[2]] /\ set.requests[i].qclass = inputs.classes[at[3]]
    /\ names # <<>> /\ Last(names) = domain
    /\ \A i \in DOMAIN names : IsPrefix(domain, names[i])
    /\ Len(domain) > 1 => Len(names) = 1

\* The sets are one for each combination of the inputs, none twice and none
\* left out, in the order of the inputs, and each is such as a run relies on:
\* it has nameservers, and names that end with the one given (generate).
SetsAreTheProduct ==
    /\ \A d \in DOMAIN inputs.domains, t \in DOMAIN inputs.types, c \in DOMAIN inputs.classes,
          r \in DOMAIN resolvers, p \in DOMAIN inputs.transports :
          LET at == <<d, t, c, r, p>> IN
          Number(at) < Len(sets) => IsSetFor(sets[Number(at) + 1], at)
    /\ result = "Ok" => Len(sets) = Lengths[1] * Lengths[2] * Lengths[3] * Lengths[4] * Lengths[5]

=============================================================================
