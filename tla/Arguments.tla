----------------------------- MODULE Arguments ------------------------------
(***************************************************************************)
(* What dog makes of its arguments (Options::getopts, src/options.rs): the *)
(* settings are looked at one after the other, then the transports, the    *)
(* options that may be given several times, and the plain arguments, each  *)
(* of which is a nameserver, a class, a type or a domain.  The first error *)
(* ends it.  What has not been given is filled in at last.                 *)
(*                                                                         *)
(* The getopts library splits the command line; how the output looks is    *)
(* left out, but for the setting of colours, which can be wrong.  Requests *)
(* goes on from here, and has the specification of both.                   *)
(***************************************************************************)
EXTENDS Names

CONSTANTS
    CommandLines,  \* what may be given: see the fields used below
    Builds,        \* the transports that dog may be compiled without
    Usable(_, _)   \* check_nameserver: a transport can use a nameserver

\* A word is an argument or the value of an option, with what the readers of
\* words would find in it: `at', the nameserver behind an at sign; `constant',
\* whether it is letters and digits only and starts with a letter; `opt',
\* whether it says OPT; `class' and `type', by name or in the generic form;
\* `class_number' and `type_number', by a bare number; `written', it as a name.
None == "none"

WordType ==
    [text : STRING, at : STRING, constant : BOOLEAN, opt : BOOLEAN, class : STRING, type : STRING,
     class_number : STRING, type_number : STRING, written : Seq(Parts)]

ASSUME CommandLinesAssumption ==
    \A line \in CommandLines :
        line.words \in [{"query", "type", "nameserver", "class", "free"} -> Seq(WordType)]

ASSUME BuildsAssumption == Builds \subseteq SUBSET {"tls", "https"}

VARIABLES
    given,         \* the options and arguments
    without,       \* what this build is compiled without
    pc,            \* what is looked at next
    words_read,    \* how many words of the option under way have been read
    inputs,        \* Inputs: domains, types, classes, resolvers, transports
    result         \* Pending, Ok, Help, Version or the error

SystemDefault == [kind |-> "system"]
Specific(nameserver) == [kind |-> "specific", nameserver |-> nameserver]

-----------------------------------------------------------------------------
(* The order in which things are looked at.                                *)

GivenSomething ==
    /\ given \in CommandLines /\ without \in Builds
    /\ pc = "split" /\ words_read = 0
    /\ inputs = [domains |-> <<>>, types |-> <<>>, classes |-> <<>>, resolvers |-> <<>>, transports |-> <<>>]
    /\ result = "Pending"

Order == <<"split", "colour", "meta", "edns", "txid", "tweaks", "tweaks_need_edns", "timeout",
           "transports", "query", "type", "nameserver", "class", "free", "check", "fallbacks",
           "warn">>

GoOn ==
    LET here == CHOOSE i \in DOMAIN Order : Order[i] = pc IN
    pc' = Order[here + 1] /\ words_read' = 0 /\ UNCHANGED result

Return(outcome) == pc' = "done" /\ result' = outcome /\ UNCHANGED words_read

\* The settings that can be wrong, each with its error.
Wrong ==
    CASE pc = "split"   -> given.split = "bad"
      [] pc = "colour"  -> given.colour = "unknown"
      [] pc = "edns"    -> given.edns = "unknown"
      [] pc = "txid"    -> given.txid = "bad"
      [] pc = "tweaks"  -> "unknown" \in given.tweaks
      [] pc = "timeout" -> given.timeout = "bad"
      [] pc = "tweaks_need_edns" -> given.edns = "disable" /\ given.tweaks \cap {"do", "bufsize"} # {}

SettingErrors ==
    [split |-> "InvalidOptionsFormat", colour |-> "InvalidColour", edns |-> "InvalidEDNS",
     txid |-> "InvalidTxid", tweaks |-> "InvalidTweak", tweaks_need_edns |-> "TweakNeedsEDNS",
     timeout |-> "InvalidTimeout"]

CheckSetting ==
    /\ pc \in DOMAIN SettingErrors
    /\ IF Wrong THEN Return(SettingErrors[pc]) ELSE GoOn
    /\ UNCHANGED <<given, without, inputs>>

\* --version and --help, which come before most errors.
Meta ==
    /\ pc = "meta"
    /\ IF given.version THEN Return("Version") ELSE IF given.help THEN Return("Help") ELSE GoOn
    /\ UNCHANGED <<given, without, inputs>>

\* The values of a list that are in a set, in the order of the list.
Kept(list, set) ==
    LET upto[n \in 0..Len(list)] ==
            IF n = 0 THEN <<>>
            ELSE IF list[n] \in set THEN Append(upto[n - 1], list[n])
            ELSE upto[n - 1]
    IN  upto[Len(list)]

\* load_transport_types.
LoadTransports ==
    /\ pc = "transports"
    /\ IF given.protocols \cap without # {} THEN Return("FeatureDisabled") /\ UNCHANGED inputs
       ELSE /\ inputs' = [inputs EXCEPT !.transports = Kept(<<"https", "tls", "tcp", "udp">>, given.protocols)]
            /\ GoOn
    /\ UNCHANGED <<given, without>>

-----------------------------------------------------------------------------
(* Words.                                                                  *)

Words == given.words[pc]

Reads(option) == pc = option /\ words_read < Len(Words)

Word == Words[words_read + 1]

\* The word goes to the end of one of the inputs.
Add(input, value) ==
    /\ inputs' = [inputs EXCEPT ![input] = Append(@, value)]
    /\ words_read' = words_read + 1
    /\ UNCHANGED <<given, without, pc, result>>

Refuse(error) == Return(error) /\ UNCHANGED <<given, without, inputs>>

AddDomain(word) ==
    IF IsName(word.written) THEN Add("domains", Encode(word.written)) ELSE Refuse("InvalidDomain")

ReadQuery == Reads("query") /\ AddDomain(Word)

ReadType ==
    /\ Reads("type")
    /\ IF Word.opt THEN Refuse("QueryTypeOPT")
       ELSE IF Word.type # None THEN Add("types", Word.type)
       ELSE IF Word.type_number # None THEN Add("types", Word.type_number)
       ELSE Refuse("InvalidQueryType")

ReadNameserver == Reads("nameserver") /\ Add("resolvers", Specific(Word.text))

ReadClass ==
    /\ Reads("class")
    /\ IF Word.class # None THEN Add("classes", Word.class)
       ELSE IF Word.class_number # None THEN Add("classes", Word.class_number)
       ELSE Refuse("InvalidQueryClass")

\* add_constant: a class, a type or a domain, in that order.
AddConstant(word) ==
    IF word.opt THEN Refuse("QueryTypeOPT")
    ELSE IF word.class # None THEN Add("classes", word.class)
    ELSE IF word.type # None THEN Add("types", word.type)
    ELSE AddDomain(word)

ReadFree ==
    /\ Reads("free")
    /\ IF Word.at # None THEN Add("resolvers", Specific(Word.at))
       ELSE IF Word.constant THEN AddConstant(Word)
       ELSE AddDomain(Word)

NextOption ==
    /\ pc \in DOMAIN given.words /\ words_read = Len(Words)
    /\ GoOn
    /\ UNCHANGED <<given, without, inputs>>

-----------------------------------------------------------------------------
(* The end.                                                                *)

OrElse(values, fallback) == IF values = <<>> THEN <<fallback>> ELSE values

\* check_nameserver of options.rs: one of the transports cannot use it.
Unsuitable(nameserver, transports) ==
    \E i \in DOMAIN transports : ~Usable(transports[i], nameserver)

\* Mutant of CheckNameservers: only what is asked for by name is checked.
CheckNamedTransports ==
    /\ pc = "check"
    /\ IF inputs.resolvers = <<>> /\ inputs.transports = <<"https">> THEN Return("MissingHttpsUrl")
       ELSE IF \E i \in DOMAIN inputs.resolvers :
                  Unsuitable(inputs.resolvers[i].nameserver, inputs.transports)
       THEN Return("InvalidNameserver")
       ELSE GoOn
    /\ UNCHANGED <<given, without, inputs>>

\* check_for_missing_nameserver, when all given nameservers are specific.
CheckNameservers ==
    /\ pc = "check"
    /\ IF inputs.resolvers = <<>> /\ inputs.transports = <<"https">> THEN Return("MissingHttpsUrl")
       ELSE IF \E i \in DOMAIN inputs.resolvers :
                  Unsuitable(inputs.resolvers[i].nameserver, OrElse(inputs.transports, "auto"))
       THEN Return("InvalidNameserver")
       ELSE GoOn
    /\ UNCHANGED <<given, without, inputs>>

\* load_fallbacks, and the last look at the domains.
LoadFallbacks ==
    /\ pc = "fallbacks"
    /\ inputs' = [inputs EXCEPT !.types = OrElse(@, "A"), !.classes = OrElse(@, "IN"),
                                !.resolvers = OrElse(@, SystemDefault), !.transports = OrElse(@, "auto")]
    /\ IF inputs.domains = <<>> THEN Return("Help") ELSE GoOn
    /\ UNCHANGED <<given, without>>

ReadArguments ==
    \/ CheckSetting \/ Meta \/ LoadTransports
    \/ ReadQuery \/ ReadType \/ ReadNameserver \/ ReadClass \/ ReadFree \/ NextOption
    \/ CheckNameservers \/ LoadFallbacks

-----------------------------------------------------------------------------
(* Properties.                                                             *)

\* How many words have been given, as options or plainly.
NumberGiven ==
    LET Given(option) == Len(given.words[option]) IN
    Given("query") + Given("type") + Given("nameserver") + Given("class") + Given("free")

\* All arguments have been read, and the inputs are what they will be.
AreRead == pc \in {"warn", "obtain", "read", "generate"} \/ result = "Ok"

\* Every word that is given is used, as exactly one thing: the inputs are as
\* many as the words, options come before plain arguments and in their order,
\* and what is missing is filled in, but domains.  Each nameserver given can be
\* used with each transport, those that are only filled in included, so that
\* none is refused after the first request has been sent (Inputs::deduce).
EveryArgumentCounts ==
    /\ pc = "fallbacks" =>
          NumberGiven = Len(inputs.domains) + Len(inputs.types) + Len(inputs.classes) + Len(inputs.resolvers)
    /\ AreRead =>
          /\ \A input \in DOMAIN inputs : inputs[input] # <<>>
          /\ \A i \in DOMAIN given.words["query"] :
                inputs.domains[i] = Encode(given.words["query"][i].written)
          /\ \A i \in DOMAIN given.words["nameserver"] :
                inputs.resolvers[i] = Specific(given.words["nameserver"][i].text)
          /\ \A i \in DOMAIN inputs.resolvers, j \in DOMAIN inputs.transports :
                inputs.resolvers[i] # SystemDefault =>
                    Usable(inputs.transports[j], inputs.resolvers[i].nameserver)

=============================================================================
