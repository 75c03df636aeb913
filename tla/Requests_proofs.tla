-------------------------- MODULE Requests_proofs ---------------------------
(***************************************************************************)
(* Proofs about how arguments become request sets, for every command line, *)
(* every resolv.conf and hosts file, and every rule of what nameserver a   *)
(* transport can use.                                                      *)
(***************************************************************************)
EXTENDS Requests, FiniteSetTheorems, SequenceTheorems, WellFoundedInduction, TLAPS

-----------------------------------------------------------------------------
(* Induction over numbers, with a set of them.                             *)

LEMMA Induction ==
    ASSUME NEW S, 0 \in S, \A n \in Nat : n \in S => n + 1 \in S
    PROVE  \A n \in Nat : n \in S
<1> DEFINE T == Nat \ S
<1> SUFFICES ASSUME T # {} PROVE FALSE
  OBVIOUS
<1>1. T \subseteq Nat
  OBVIOUS
<1> HIDE DEF T
<1>2. PICK i \in T : \A j \in T : ~(<<j, i>> \in OpToRel(<, Nat))
  BY <1>1, NatLessThanWellFounded, WFMin
<1>3. \A j \in T : ~(j < i)
  BY <1>1, <1>2 DEF OpToRel
<1>4. i \in Nat /\ i # 0
  BY DEF T
<1>5. i - 1 \in Nat /\ i - 1 \notin T /\ (i - 1) + 1 = i
  BY <1>3, <1>4
<1> QED
  BY <1>4, <1>5 DEF T

-----------------------------------------------------------------------------
(* Kept is a recursive function: that there is one is shown by induction   *)
(* over how much of the list it is about.                                  *)

\* What is kept of the first n values, when upto says what is of fewer.
KeptNext(list, set, upto, n) ==
    IF n = 0 THEN <<>>
    ELSE IF list[n] \in set THEN Append(upto[n - 1], list[n])
    ELSE upto[n - 1]

IsUpto(list, set, last, upto) == upto = [n \in 0..last |-> KeptNext(list, set, upto, n)]

LEMMA UptoExists ==
    ASSUME NEW list, NEW set, NEW last \in Nat
    PROVE  \E upto : IsUpto(list, set, last, upto)
<1> DEFINE S == {m \in Nat : \E upto : IsUpto(list, set, m, upto)}
<1>1. 0 \in S
  <2> DEFINE upto == [n \in 0..0 |-> <<>>]
  <2>1. upto = [n \in 0..0 |-> KeptNext(list, set, upto, n)]
    BY DEF KeptNext
  <2> QED
    BY <2>1 DEF IsUpto
<1>2. ASSUME NEW m \in Nat, m \in S PROVE m + 1 \in S
  <2>1. PICK before : IsUpto(list, set, m, before)
    BY <1>2
  <2> DEFINE upto == [n \in 0..(m + 1) |-> IF n = m + 1 THEN KeptNext(list, set, before, m + 1) ELSE before[n]]
  <2>2. \A n \in 0..m : upto[n] = before[n]
    OBVIOUS
  <2>3. ASSUME NEW n \in 0..(m + 1) PROVE upto[n] = KeptNext(list, set, upto, n)
    <3>1. KeptNext(list, set, upto, n) = KeptNext(list, set, before, n)
      <4>1. CASE n = 0
        BY <4>1 DEF KeptNext
      <4>2. CASE n # 0
        <5>1. n - 1 \in 0..m
          BY <4>2
        <5>2. upto[n - 1] = before[n - 1]
          BY <2>2, <5>1
        <5> QED
          BY <5>2 DEF KeptNext
      <4> QED
        BY <4>1, <4>2
    <3>2. upto[n] = KeptNext(list, set, before, n)
      <4>1. CASE n = m + 1
        BY <4>1
      <4>2. CASE n # m + 1
        <5>1. n \in 0..m
          BY <4>2
        <5>2. before[n] = KeptNext(list, set, before, n)
          BY <2>1, <5>1 DEF IsUpto
        <5> QED
          BY <2>2, <5>1, <5>2
      <4> QED
        BY <4>1, <4>2
    <3> QED
      BY <3>1, <3>2
  <2>4. upto = [n \in 0..(m + 1) |-> upto[n]]
    OBVIOUS
  <2> HIDE DEF upto
  <2>5. upto = [n \in 0..(m + 1) |-> KeptNext(list, set, upto, n)]
    BY <2>3, <2>4
  <2>6. IsUpto(list, set, m + 1, upto)
    BY <2>5 DEF IsUpto
  <2> QED
    BY <2>6
<1> HIDE DEF S
<1>3. \A m \in Nat : m \in S
  BY <1>1, <1>2, Induction
<1> QED
  BY <1>3 DEF S

\* So Kept is what its definition says.
LEMMA KeptIs ==
    ASSUME NEW list, NEW set, Len(list) \in Nat
    PROVE  \E upto : IsUpto(list, set, Len(list), upto) /\ Kept(list, set) = upto[Len(list)]
<1> DEFINE upto[n \in 0..Len(list)] ==
        IF n = 0 THEN <<>>
        ELSE IF list[n] \in set THEN Append(upto[n - 1], list[n])
        ELSE upto[n - 1]
<1>1. PICK some : IsUpto(list, set, Len(list), some)
  BY UptoExists
<1>2. upto = CHOOSE f : f = [n \in 0..Len(list) |->
                IF n = 0 THEN <<>>
                ELSE IF list[n] \in set THEN Append(f[n - 1], list[n])
                ELSE f[n - 1]]
  OBVIOUS
<1>3. some = [n \in 0..Len(list) |->
                IF n = 0 THEN <<>>
                ELSE IF list[n] \in set THEN Append(some[n - 1], list[n])
                ELSE some[n - 1]]
  BY <1>1 DEF IsUpto, KeptNext
<1>4. upto = [n \in 0..Len(list) |->
                IF n = 0 THEN <<>>
                ELSE IF list[n] \in set THEN Append(upto[n - 1], list[n])
                ELSE upto[n - 1]]
  BY <1>2, <1>3
<1>5. Kept(list, set) = upto[Len(list)]
  BY DEF Kept
<1> HIDE DEF upto
<1>6. IsUpto(list, set, Len(list), upto)
  BY <1>4 DEF IsUpto, KeptNext
<1> QED
  BY <1>5, <1>6

\* What is kept is a list of values of the list that are in the set.
LEMMA KeptType ==
    ASSUME NEW T, NEW list \in Seq(T), NEW set
    PROVE  Kept(list, set) \in Seq(T \cap set)
<1> DEFINE last == Len(list)
<1>1. last \in Nat /\ \A n \in 1..last : list[n] \in T
  OBVIOUS
<1>2. PICK upto : IsUpto(list, set, last, upto) /\ Kept(list, set) = upto[last]
  BY <1>1, KeptIs
<1> HIDE DEF last
<1> DEFINE S == {n \in Nat : n <= last => upto[n] \in Seq(T \cap set)}
<1>3. ASSUME NEW n \in 0..last PROVE upto[n] = KeptNext(list, set, upto, n)
  BY <1>2 DEF IsUpto
<1>4. 0 \in S
  <2>1. upto[0] = <<>>
    BY <1>1, <1>3 DEF KeptNext
  <2>2. <<>> \in Seq(T \cap set)
    OBVIOUS
  <2> QED
    BY <2>1, <2>2
<1>5. ASSUME NEW n \in Nat, n \in S PROVE n + 1 \in S
  <2> SUFFICES ASSUME n + 1 <= last PROVE upto[n + 1] \in Seq(T \cap set)
    OBVIOUS
  <2>1. upto[n] \in Seq(T \cap set) /\ n + 1 \in 0..last /\ n + 1 \in 1..last /\ n + 1 # 0 /\ (n + 1) - 1 = n
    BY <1>1, <1>5
  <2>2. upto[n + 1] = IF list[n + 1] \in set THEN Append(upto[n], list[n + 1]) ELSE upto[n]
    BY <1>3, <2>1 DEF KeptNext
  <2>3. list[n + 1] \in T
    BY <1>1, <2>1
  <2> QED
    BY <2>1, <2>2, <2>3
<1> HIDE DEF S
<1>6. \A n \in Nat : n \in S
  BY <1>4, <1>5, Induction
<1> QED
  BY <1>1, <1>2, <1>6 DEF S

LEMMA SeqWithin ==
    ASSUME NEW T, NEW set, NEW list \in Seq(T \cap set)
    PROVE  list \in Seq(T) /\ list \in Seq(set)
<1>1. list \in [1..Len(list) -> T \cap set] /\ Len(list) \in Nat
  OBVIOUS
<1>2. list \in [1..Len(list) -> T] /\ list \in [1..Len(list) -> set]
  BY <1>1
<1> QED
  BY <1>1, <1>2

\* How many of the first n numbers are in a set.
Among(A, n) == Cardinality(A \cap 1..n)

LEMMA AmongNext ==
    ASSUME NEW A
    PROVE  /\ Among(A, 0) = 0
           /\ \A n \in Nat : /\ Among(A, n) \in Nat
                             /\ Among(A, n + 1) = IF n + 1 \in A THEN Among(A, n) + 1 ELSE Among(A, n)
<1>1. Among(A, 0) = 0
  <2>1. A \cap 1..0 = {}
    OBVIOUS
  <2> QED
    BY <2>1, FS_EmptySet DEF Among
<1>2. ASSUME NEW n \in Nat
      PROVE  /\ Among(A, n) \in Nat
             /\ Among(A, n + 1) = IF n + 1 \in A THEN Among(A, n) + 1 ELSE Among(A, n)
  <2> DEFINE before == A \cap 1..n
             after == A \cap 1..(n + 1)
  <2>1. IsFiniteSet(1..n)
    BY FS_Interval
  <2>2. before \subseteq 1..n
    OBVIOUS
  <2>3. IsFiniteSet(before) /\ Cardinality(before) \in Nat
    BY <2>1, <2>2, FS_Subset, FS_CardinalityType
  <2>4. n + 1 \notin before
    OBVIOUS
  <2>5. after = IF n + 1 \in A THEN before \cup {n + 1} ELSE before
    OBVIOUS
  <2> HIDE DEF before, after
  <2>6. Cardinality(after) = IF n + 1 \in A THEN Cardinality(before) + 1 ELSE Cardinality(before)
    BY <2>3, <2>4, <2>5, FS_AddElement
  <2> QED
    BY <2>3, <2>6 DEF Among, before, after
<1> QED
  BY <1>1, <1>2

\* The places of a value.
PlacesOf(value, list) == {i \in DOMAIN list : list[i] = value}

LEMMA OftenIsAmong ==
    ASSUME NEW T, NEW list \in Seq(T), NEW value
    PROVE  HowOften(value, list) = Among(PlacesOf(value, list), Len(list))
<1>1. PlacesOf(value, list) \cap 1..Len(list) = PlacesOf(value, list)
  BY DEF PlacesOf
<1> QED
  BY <1>1 DEF HowOften, Among, PlacesOf

\* How often a value stands in a list with one more.
LEMMA OftenMore ==
    ASSUME NEW T, NEW list \in Seq(T), NEW last \in T, NEW value
    PROVE  HowOften(value, Append(list, last)) =
               IF value = last THEN HowOften(value, list) + 1 ELSE HowOften(value, list)
<1> DEFINE more == Append(list, last)
           n == Len(list)
<1>1. /\ n \in Nat /\ Len(more) = n + 1 /\ more \in Seq(T) /\ more[n + 1] = last
      /\ DOMAIN list = 1..n /\ DOMAIN more = 1..(n + 1) /\ \A i \in 1..n : more[i] = list[i]
  OBVIOUS
<1> HIDE DEF more
<1>2. HowOften(value, list) = Among(PlacesOf(value, list), n)
  BY OftenIsAmong
<1> HIDE DEF n
<1>3. HowOften(value, more) = Among(PlacesOf(value, more), n + 1)
  BY <1>1, OftenIsAmong
<1>4. PlacesOf(value, list) \cap 1..n = PlacesOf(value, more) \cap 1..n
  BY <1>1 DEF PlacesOf
<1>5. Among(PlacesOf(value, list), n) = Among(PlacesOf(value, more), n)
  BY <1>4 DEF Among
<1>6. n + 1 \in PlacesOf(value, more) <=> value = last
  BY <1>1 DEF PlacesOf
<1>7. Among(PlacesOf(value, more), n + 1) =
          IF value = last THEN Among(PlacesOf(value, more), n) + 1 ELSE Among(PlacesOf(value, more), n)
  BY <1>1, <1>6, AmongNext
<1> QED
  BY <1>2, <1>3, <1>5, <1>7 DEF more

\* A value that is kept is kept as often as it is in the list.
LEMMA KeptOften ==
    ASSUME NEW T, NEW list \in Seq(T), NEW set, NEW value
    PROVE  HowOften(value, Kept(list, set)) = IF value \in set THEN HowOften(value, list) ELSE 0
<1> DEFINE last == Len(list)
           places == PlacesOf(value, list)
           Goal(n, kept) == /\ kept \in Seq(T)
                            /\ HowOften(value, kept) = IF value \in set THEN Among(places, n) ELSE 0
<1>1. last \in Nat /\ DOMAIN list = 1..last /\ \A n \in 1..last : list[n] \in T
  OBVIOUS
<1>2. PICK upto : IsUpto(list, set, last, upto) /\ Kept(list, set) = upto[last]
  BY <1>1, KeptIs
<1>3. HowOften(value, list) = Among(places, last)
  BY OftenIsAmong
<1> HIDE DEF last
<1>4. ASSUME NEW n \in 0..last PROVE upto[n] = KeptNext(list, set, upto, n)
  BY <1>2 DEF IsUpto
<1> DEFINE S == {n \in Nat : n <= last => Goal(n, upto[n])}
<1>5. 0 \in S
  <2>1. upto[0] = <<>> /\ <<>> \in Seq(T)
    BY <1>1, <1>4 DEF KeptNext
  <2>2. HowOften(value, <<>>) = 0
    <3>1. {i \in DOMAIN <<>> : <<>>[i] = value} = {}
      OBVIOUS
    <3> QED
      BY <3>1, FS_EmptySet DEF HowOften
  <2>3. Among(places, 0) = 0
    BY AmongNext
  <2> QED
    BY <2>1, <2>2, <2>3
<1>6. ASSUME NEW n \in Nat, n \in S PROVE n + 1 \in S
  <2> SUFFICES ASSUME n + 1 <= last PROVE Goal(n + 1, upto[n + 1])
    OBVIOUS
  <2>1. Goal(n, upto[n]) /\ n + 1 \in 0..last /\ n + 1 \in 1..last /\ n + 1 # 0 /\ (n + 1) - 1 = n
    BY <1>1, <1>6
  <2>2. upto[n + 1] = IF list[n + 1] \in set THEN Append(upto[n], list[n + 1]) ELSE upto[n]
    BY <1>4, <2>1 DEF KeptNext
  <2>3. list[n + 1] \in T /\ (n + 1 \in places <=> list[n + 1] = value)
    BY <1>1, <2>1 DEF PlacesOf
  <2>4. Among(places, n + 1) = IF list[n + 1] = value THEN Among(places, n) + 1 ELSE Among(places, n)
    BY <2>3, AmongNext
  <2> HIDE DEF places
  <2>5. CASE list[n + 1] \in set
    <3>1. upto[n + 1] = Append(upto[n], list[n + 1]) /\ upto[n + 1] \in Seq(T)
      BY <2>1, <2>2, <2>3, <2>5
    <3>2. HowOften(value, upto[n + 1]) =
              IF value = list[n + 1] THEN HowOften(value, upto[n]) + 1 ELSE HowOften(value, upto[n])
      BY <2>1, <2>3, <3>1, OftenMore
    <3> QED
      BY <2>1, <2>4, <2>5, <3>1, <3>2
  <2>6. CASE list[n + 1] \notin set
    BY <2>1, <2>2, <2>4, <2>6
  <2> QED
    BY <2>5, <2>6
<1> HIDE DEF S
<1>7. \A n \in Nat : n \in S
  BY <1>5, <1>6, Induction
<1> QED
  BY <1>1, <1>2, <1>3, <1>7 DEF S

-----------------------------------------------------------------------------
(* The arguments: what has been read of them, at each place in their order. *)

Options == {"query", "type", "nameserver", "class", "free"}

\* Where no word has been read yet; where they are being or have been; and
\* where the inputs are what they will be.
Early == {"split", "colour", "meta", "edns", "txid", "tweaks", "tweaks_need_edns", "timeout", "transports"}
Middle == Options \cup {"check", "fallbacks"}
Late == {"warn", "obtain", "read", "generate"}

\* All strings; the provers know of no string that it is one.
Texts == STRING \cup {"https", "tls", "tcp", "udp", "A", "IN", "auto"}

ResolverTypes == {SystemDefault} \cup [kind : {"specific"}, nameserver : STRING]

ArgumentTypes ==
    /\ given.words \in [Options -> Seq(WordType)]
    /\ inputs \in [domains : Seq(Seq(Parts)), types : Seq(Texts), classes : Seq(Texts),
                   resolvers : Seq(ResolverTypes), transports : Seq(Texts)]
    /\ words_read \in Nat
    /\ pc \in Early \cup Middle \cup Late \cup {"done"}
    /\ pc = "done" <=> result # "Pending"

\* How many words have been used, and that each is one value of an input.
Used == Len(inputs.domains) + Len(inputs.types) + Len(inputs.classes) + Len(inputs.resolvers)
Given(option) == Len(given.words[option])

WordsAreUsed ==
    /\ pc \in Early => Used = 0 /\ words_read = 0
    /\ pc \in {"check", "fallbacks"} => Used = NumberGiven /\ words_read = 0
    /\ pc \in Options => words_read <= Given(pc)
    /\ pc = "query" => Used = words_read
    /\ pc = "type" => Used = Given("query") + words_read
    /\ pc = "nameserver" => Used = Given("query") + Given("type") + words_read
    /\ pc = "class" => Used = Given("query") + Given("type") + Given("nameserver") + words_read
    /\ pc = "free" =>
          Used = Given("query") + Given("type") + Given("nameserver") + Given("class") + words_read

\* The first n words of --query, or of --nameserver, are the first inputs.
DomainsAre(n) ==
    /\ Len(inputs.domains) >= n
    /\ \A i \in 1..n : inputs.domains[i] = Encode(given.words["query"][i].written)
ResolversAre(n) ==
    /\ Len(inputs.resolvers) >= n
    /\ \A i \in 1..n : inputs.resolvers[i] = Specific(given.words["nameserver"][i].text)

OptionsComeFirst ==
    /\ pc = "query" => Len(inputs.domains) = words_read /\ DomainsAre(words_read)
    /\ pc \in Middle \ {"query"} \/ AreRead => DomainsAre(Given("query"))
    /\ pc \in {"query", "type"} => Len(inputs.resolvers) = 0
    /\ pc = "nameserver" => Len(inputs.resolvers) = words_read /\ ResolversAre(words_read)
    /\ pc \in Middle \ {"query", "type", "nameserver"} \/ AreRead => ResolversAre(Given("nameserver"))

AllSpecific == \A i \in DOMAIN inputs.resolvers : inputs.resolvers[i].kind = "specific"

\* Those of the nameservers that are given can be used with each transport.
AllSuitable(transports) ==
    \A i \in DOMAIN inputs.resolvers, j \in DOMAIN transports :
        inputs.resolvers[i] # SystemDefault => Usable(transports[j], inputs.resolvers[i].nameserver)

InputsAreChecked ==
    /\ pc \in Early \cup Middle => AllSpecific
    /\ pc = "fallbacks" => AllSuitable(OrElse(inputs.transports, "auto"))
    /\ AreRead => /\ AllSuitable(inputs.transports)
                  /\ \A input \in DOMAIN inputs : inputs[input] # <<>>
                  /\ AllSpecific \/ inputs.resolvers = <<SystemDefault>>

ArgumentsInv == ArgumentTypes /\ WordsAreUsed /\ OptionsComeFirst /\ InputsAreChecked

\* The order in which GoOn goes.
LEMMA GoesOn ==
    ASSUME GoOn, NEW i \in 1..16, pc = Order[i]
    PROVE  pc' = Order[i + 1] /\ words_read' = 0 /\ result' = result
<1> DEFINE here == CHOOSE k \in DOMAIN Order : Order[k] = pc
<1>1. DOMAIN Order = 1..17
  BY DEF Order
<1>2. \A j, k \in 1..17 : Order[j] = Order[k] => j = k
  BY DEF Order
<1>3. here \in 1..17 /\ Order[here] = pc
  BY <1>1
<1>4. here = i
  BY <1>2, <1>3
<1> QED
  BY <1>4 DEF GoOn

\* An error ends it, whatever the inputs are by then.
LEMMA ErrorKeeps ==
    ASSUME ArgumentsInv, NEW error, Return(error), error \notin {"Ok", "IO", "NoNameserver", "Pending"},
           UNCHANGED given,
           inputs' \in [domains : Seq(Seq(Parts)), types : Seq(Texts), classes : Seq(Texts),
                        resolvers : Seq(ResolverTypes), transports : Seq(Texts)]
    PROVE  ArgumentsInv'
<1>1. pc' = "done" /\ result' = error /\ words_read' = words_read
  BY DEF Return
<1>2. ArgumentTypes'
  BY <1>1 DEF ArgumentsInv, ArgumentTypes
<1>3. ~AreRead'
  BY <1>1 DEF AreRead
<1>4. WordsAreUsed'
  BY <1>1 DEF WordsAreUsed, Early, Options
<1>5. OptionsComeFirst' /\ InputsAreChecked'
  BY <1>1, <1>3 DEF OptionsComeFirst, InputsAreChecked, Early, Middle, Options
<1> QED
  BY <1>2, <1>4, <1>5 DEF ArgumentsInv

LEMMA RefuseKeeps ==
    ASSUME ArgumentsInv, NEW error, Refuse(error), error \notin {"Ok", "IO", "NoNameserver", "Pending"}
    PROVE  ArgumentsInv'
BY ErrorKeeps DEF Refuse, ArgumentsInv, ArgumentTypes

\* From one setting to the next.
LEMMA EarlyKeeps ==
    ASSUME ArgumentsInv, pc \in Early, pc' \in Early, words_read' = 0, UNCHANGED <<given, inputs, result>>
    PROVE  ArgumentsInv'
<1>1. ArgumentTypes'
  BY DEF ArgumentsInv, ArgumentTypes, Early
<1>2. ~AreRead' /\ result' # "Ok"
  BY DEF AreRead, Early, ArgumentsInv, ArgumentTypes
<1>3. WordsAreUsed'
  BY DEF WordsAreUsed, Used, Early, Options, ArgumentsInv
<1>4. OptionsComeFirst'
  BY <1>2 DEF OptionsComeFirst, Early, Middle, Options, ArgumentsInv
<1>5. InputsAreChecked'
  BY <1>2 DEF InputsAreChecked, AllSpecific, Early, Middle, Options, ArgumentsInv
<1> QED
  BY <1>1, <1>3, <1>4, <1>5 DEF ArgumentsInv

LEMMA SettingsKeep == ArgumentsInv /\ (CheckSetting \/ Meta) => ArgumentsInv'
<1> SUFFICES ASSUME ArgumentsInv, CheckSetting \/ Meta PROVE ArgumentsInv'
  OBVIOUS
<1>1. UNCHANGED <<given, inputs>> /\ inputs' \in
          [domains : Seq(Seq(Parts)), types : Seq(Texts), classes : Seq(Texts),
           resolvers : Seq(ResolverTypes), transports : Seq(Texts)]
  BY DEF CheckSetting, Meta, ArgumentsInv, ArgumentTypes
<1>2. pc \in Early \ {"transports"}
  BY DEF CheckSetting, Meta, SettingErrors, Early
<1>3. CASE GoOn
  <2>1. PICK i \in 1..8 : pc = Order[i]
    BY <1>2 DEF Early, Order
  <2>2. pc' = Order[i + 1] /\ words_read' = 0 /\ result' = result
    BY <1>3, <2>1, GoesOn
  <2>3. pc' \in Early
    BY <2>1, <2>2 DEF Order, Early
  <2> QED
    BY <1>1, <1>2, <2>2, <2>3, EarlyKeeps
<1>4. ASSUME NEW error, Return(error), error \notin {"Ok", "IO", "NoNameserver", "Pending"}
      PROVE  ArgumentsInv'
  BY <1>1, <1>4, ErrorKeeps
<1>5. CASE CheckSetting
  <2>1. SettingErrors[pc] \notin {"Ok", "IO", "NoNameserver", "Pending"}
    BY <1>5 DEF CheckSetting, SettingErrors
  <2> QED
    BY <1>3, <1>4, <1>5, <2>1 DEF CheckSetting
<1>6. CASE Meta
  BY <1>3, <1>4, <1>6 DEF Meta
<1> QED
  BY <1>5, <1>6

LEMMA TransportsKeep == ArgumentsInv /\ LoadTransports => ArgumentsInv'
<1> SUFFICES ASSUME ArgumentsInv, LoadTransports PROVE ArgumentsInv'
  OBVIOUS
<1> DEFINE all == <<"https", "tls", "tcp", "udp">>
<1>1. CASE Return("FeatureDisabled") /\ UNCHANGED inputs
  BY <1>1, ErrorKeeps DEF LoadTransports, ArgumentsInv, ArgumentTypes
<1>2. CASE inputs' = [inputs EXCEPT !.transports = Kept(all, given.protocols)] /\ GoOn
  <2>1. pc = "transports" /\ UNCHANGED given
    BY DEF LoadTransports
  <2>2. Order[9] = "transports" /\ Order[9 + 1] = "query"
    BY DEF Order
  <2>3. pc' = "query" /\ words_read' = 0 /\ result' = result
    BY <1>2, <2>1, <2>2, GoesOn
  <2>4. Kept(all, given.protocols) \in Seq(Texts)
    <3>1. all \in Seq(Texts)
      BY DEF Texts
    <3>2. Kept(all, given.protocols) \in Seq(Texts \cap given.protocols)
      BY <3>1, KeptType
    <3> QED
      BY <3>2, SeqWithin
  <2> HIDE DEF all
  <2>5. /\ inputs' \in [domains : Seq(Seq(Parts)), types : Seq(Texts), classes : Seq(Texts),
                        resolvers : Seq(ResolverTypes), transports : Seq(Texts)]
        /\ inputs'.domains = inputs.domains /\ inputs'.types = inputs.types
        /\ inputs'.classes = inputs.classes /\ inputs'.resolvers = inputs.resolvers
    BY <1>2, <2>4 DEF ArgumentsInv, ArgumentTypes
  <2>6. ArgumentTypes'
    BY <2>1, <2>3, <2>5 DEF ArgumentsInv, ArgumentTypes, Early, Middle, Options
  <2>7. Used = 0 /\ Len(inputs.domains) = 0 /\ Len(inputs.resolvers) = 0
    BY <2>1 DEF ArgumentsInv, ArgumentTypes, WordsAreUsed, Used, Early
  <2>8. WordsAreUsed'
    <3>1. Len(given.words["query"]) \in Nat /\ given' = given
      BY <2>1 DEF ArgumentsInv, ArgumentTypes, Options
    <3>2. Used' = 0
      BY <2>5, <2>7 DEF Used
    <3>3. words_read' <= Given(pc)'
      BY <2>3, <3>1 DEF Given
    <3> QED
      BY <2>3, <3>2, <3>3 DEF WordsAreUsed, Early
  <2>9. ~AreRead'
    BY <2>3, <2>1 DEF AreRead, ArgumentsInv, ArgumentTypes
  <2>10. OptionsComeFirst'
    BY <2>3, <2>5, <2>7, <2>9 DEF OptionsComeFirst, DomainsAre, Middle, Options
  <2>11. InputsAreChecked'
    BY <2>1, <2>3, <2>5, <2>9 DEF InputsAreChecked, AllSpecific, Early, Middle, Options, ArgumentsInv
  <2> QED
    BY <2>6, <2>8, <2>10, <2>11 DEF ArgumentsInv
<1> QED
  BY <1>1, <1>2 DEF LoadTransports

\* One more value in one of the inputs.
LEMMA Added ==
    ASSUME ArgumentsInv, pc \in Options, NEW input \in {"domains", "types", "classes", "resolvers"}, NEW value,
           Add(input, value),
           input = "domains" => value \in Seq(Parts),
           input \in {"types", "classes"} => value \in Texts,
           input = "resolvers" => value \in ResolverTypes
    PROVE  /\ ArgumentTypes'
           /\ Used' = Used + 1 /\ words_read' = words_read + 1 /\ words_read \in Nat
           /\ UNCHANGED <<given, pc, result>> /\ inputs'.transports = inputs.transports
           /\ inputs'.domains = IF input = "domains" THEN Append(inputs.domains, value) ELSE inputs.domains
           /\ inputs'.resolvers = IF input = "resolvers" THEN Append(inputs.resolvers, value) ELSE inputs.resolvers
<1>1. /\ inputs' = [inputs EXCEPT ![input] = Append(inputs[input], value)] /\ words_read' = words_read + 1
      /\ UNCHANGED <<given, pc, result>>
  BY DEF Add
<1>2. /\ inputs \in [domains : Seq(Seq(Parts)), types : Seq(Texts), classes : Seq(Texts),
                     resolvers : Seq(ResolverTypes), transports : Seq(Texts)]
      /\ words_read \in Nat
  BY DEF ArgumentsInv, ArgumentTypes
<1>3. /\ input = "domains" => Append(inputs.domains, value) \in Seq(Seq(Parts))
      /\ input = "types" => Append(inputs.types, value) \in Seq(Texts)
      /\ input = "classes" => Append(inputs.classes, value) \in Seq(Texts)
      /\ input = "resolvers" => Append(inputs.resolvers, value) \in Seq(ResolverTypes)
  BY <1>2
<1>4. /\ Len(inputs.domains) \in Nat /\ Len(inputs.types) \in Nat
      /\ Len(inputs.classes) \in Nat /\ Len(inputs.resolvers) \in Nat
      /\ Len(Append(inputs.domains, value)) = Len(inputs.domains) + 1
      /\ Len(Append(inputs.types, value)) = Len(inputs.types) + 1
      /\ Len(Append(inputs.classes, value)) = Len(inputs.classes) + 1
      /\ Len(Append(inputs.resolvers, value)) = Len(inputs.resolvers) + 1
  <2>1. \A T : \A list \in Seq(T) : Len(list) \in Nat /\ Len(Append(list, value)) = Len(list) + 1
    <3> TAKE T
    <3> TAKE list \in Seq(T)
    <3>1. list \in Seq(T \cup {value}) /\ value \in T \cup {value}
      BY SeqWithin
    <3> QED
      BY <3>1
  <2> QED
    BY <1>2, <2>1
<1>5. /\ inputs'.domains = IF input = "domains" THEN Append(inputs.domains, value) ELSE inputs.domains
      /\ inputs'.types = IF input = "types" THEN Append(inputs.types, value) ELSE inputs.types
      /\ inputs'.classes = IF input = "classes" THEN Append(inputs.classes, value) ELSE inputs.classes
      /\ inputs'.resolvers = IF input = "resolvers" THEN Append(inputs.resolvers, value) ELSE inputs.resolvers
      /\ inputs'.transports = inputs.transports
      /\ inputs' = [domains |-> inputs'.domains, types |-> inputs'.types, classes |-> inputs'.classes,
                    resolvers |-> inputs'.resolvers, transports |-> inputs'.transports]
  BY <1>1, <1>2
<1>6. inputs' \in [domains : Seq(Seq(Parts)), types : Seq(Texts), classes : Seq(Texts),
                   resolvers : Seq(ResolverTypes), transports : Seq(Texts)]
  <2>1. inputs'.domains \in Seq(Seq(Parts)) /\ inputs'.resolvers \in Seq(ResolverTypes)
    BY <1>2, <1>3, <1>5
  <2>2. inputs'.types \in Seq(Texts) /\ inputs'.classes \in Seq(Texts) /\ inputs'.transports \in Seq(Texts)
    BY <1>2, <1>3, <1>5
  <2> DEFINE all == [domains |-> inputs'.domains, types |-> inputs'.types, classes |-> inputs'.classes,
                     resolvers |-> inputs'.resolvers, transports |-> inputs'.transports]
  <2>3. all \in [domains : Seq(Seq(Parts)), types : Seq(Texts), classes : Seq(Texts),
                 resolvers : Seq(ResolverTypes), transports : Seq(Texts)]
    BY <2>1, <2>2
  <2>4. inputs' = all
    BY <1>5
  <2> HIDE DEF all
  <2> QED
    BY <2>3, <2>4
<1>7. Used' = Used + 1
  <2> DEFINE domains == Len(inputs.domains)
             types == Len(inputs.types)
             classes == Len(inputs.classes)
             nameservers_given == Len(inputs.resolvers)
  <2>1. Len(inputs'.domains) = IF input = "domains" THEN domains + 1 ELSE domains
    BY <1>4, <1>5, Zenon
  <2>2. Len(inputs'.types) = IF input = "types" THEN types + 1 ELSE types
    BY <1>4, <1>5, Zenon
  <2>3. Len(inputs'.classes) = IF input = "classes" THEN classes + 1 ELSE classes
    BY <1>4, <1>5, Zenon
  <2>4. Len(inputs'.resolvers) =
            IF input = "resolvers" THEN nameservers_given + 1 ELSE nameservers_given
    BY <1>4, <1>5, Zenon
  <2>5. domains \in Nat /\ types \in Nat /\ classes \in Nat /\ nameservers_given \in Nat
    BY <1>4
  <2>6. Used = domains + types + classes + nameservers_given
    BY DEF Used
  <2>7. Used' = Len(inputs'.domains) + Len(inputs'.types) + Len(inputs'.classes) + Len(inputs'.resolvers)
    BY DEF Used
  <2> HIDE DEF domains, types, classes, nameservers_given
  <2> QED
    BY <2>1, <2>2, <2>3, <2>4, <2>5, <2>6, <2>7
<1>8. ArgumentTypes'
  BY <1>1, <1>2, <1>6 DEF ArgumentsInv, ArgumentTypes, Options
<1> QED
  BY <1>1, <1>2, <1>5, <1>7, <1>8

\* A word that is used: as a domain, if it is one of --query, and as a
\* nameserver, if it is one of --nameserver, or for anything, if it is free.
LEMMA AddKeeps ==
    ASSUME ArgumentsInv, pc \in Options, words_read < Given(pc),
           NEW input \in {"domains", "types", "classes", "resolvers"}, NEW value,
           Add(input, value),
           input = "domains" => value \in Seq(Parts),
           input \in {"types", "classes"} => value \in Texts,
           input = "resolvers" => value \in ResolverTypes /\ value.kind = "specific",
           pc = "query" => input = "domains" /\ value = Encode(given.words["query"][words_read + 1].written),
           pc = "type" => input # "resolvers",
           pc = "nameserver" => /\ input = "resolvers"
                                /\ value = Specific(given.words["nameserver"][words_read + 1].text)
    PROVE  ArgumentsInv'
<1>1. /\ ArgumentTypes'
      /\ Used' = Used + 1 /\ words_read' = words_read + 1 /\ words_read \in Nat
      /\ UNCHANGED <<given, pc, result>> /\ inputs'.transports = inputs.transports
      /\ inputs'.domains = IF input = "domains" THEN Append(inputs.domains, value) ELSE inputs.domains
      /\ inputs'.resolvers = IF input = "resolvers" THEN Append(inputs.resolvers, value) ELSE inputs.resolvers
  BY Added
<1>2. /\ \A option \in Options : Len(given.words[option]) \in Nat
      /\ inputs.domains \in Seq(Seq(Parts)) /\ inputs.resolvers \in Seq(ResolverTypes)
      /\ result # "Ok" /\ ~AreRead
  <2>1. ArgumentTypes
    BY DEF ArgumentsInv
  <2>2. \A option \in Options : given.words[option] \in Seq(WordType)
    BY <2>1 DEF ArgumentTypes
  <2>3. pc \notin Late \cup {"done"}
    BY DEF Options, Late
  <2> QED
    BY <2>1, <2>2, <2>3 DEF ArgumentTypes, AreRead, Late
<1>3. WordsAreUsed'
  <2>1. Used \in Nat
    BY DEF Used, ArgumentsInv, ArgumentTypes
  <2>2. words_read' <= Len(given.words[pc])
    BY <1>1, <1>2 DEF Given
  <2>3. WordsAreUsed /\ \A option \in Options : Given(option) \in Nat /\ Given(option)' = Given(option)
    BY <1>1, <1>2 DEF ArgumentsInv, Given
  <2>4. words_read' <= Given(pc)'
    BY <1>1, <2>2 DEF Given
  <2>6. CASE pc = "query"
    BY <1>1, <2>1, <2>3, <2>4, <2>6 DEF WordsAreUsed, Options, Early
  <2>7. CASE pc = "type"
    BY <1>1, <2>1, <2>3, <2>4, <2>7 DEF WordsAreUsed, Options, Early
  <2>8. CASE pc = "nameserver"
    BY <1>1, <2>1, <2>3, <2>4, <2>8 DEF WordsAreUsed, Options, Early
  <2>9. CASE pc = "class"
    BY <1>1, <2>1, <2>3, <2>4, <2>9 DEF WordsAreUsed, Options, Early
  <2>10. CASE pc = "free"
    BY <1>1, <2>1, <2>3, <2>4, <2>10 DEF WordsAreUsed, Options, Early
  <2> QED
    BY <2>6, <2>7, <2>8, <2>9, <2>10 DEF Options
<1>4. /\ input = "domains" => /\ Len(inputs'.domains) = Len(inputs.domains) + 1
                              /\ inputs'.domains[Len(inputs.domains) + 1] = value
      /\ input # "domains" => Len(inputs'.domains) = Len(inputs.domains)
      /\ \A i \in 1..Len(inputs.domains) : inputs'.domains[i] = inputs.domains[i]
      /\ Len(inputs.domains) \in Nat
  BY <1>1, <1>2
<1>5. /\ input = "resolvers" => /\ Len(inputs'.resolvers) = Len(inputs.resolvers) + 1
                                /\ inputs'.resolvers[Len(inputs.resolvers) + 1] = value
      /\ input # "resolvers" => Len(inputs'.resolvers) = Len(inputs.resolvers)
      /\ \A i \in 1..Len(inputs.resolvers) : inputs'.resolvers[i] = inputs.resolvers[i]
      /\ Len(inputs.resolvers) \in Nat /\ inputs'.resolvers \in Seq(ResolverTypes)
  BY <1>1, <1>2
<1>6. OptionsComeFirst'
  <2>1. /\ pc' = pc /\ ~AreRead' /\ OptionsComeFirst
        /\ \A option \in Options : Given(option)' = Given(option) /\ Given(option) \in Nat
    BY <1>1, <1>2 DEF AreRead, Given, ArgumentsInv
  <2>2. DomainsAre(Given("query")) => DomainsAre(Given("query"))'
    <3>1. Given("query")' = Given("query") /\ Given("query") \in Nat /\ given' = given
      BY <1>1, <2>1 DEF Options
    <3> QED
      BY <1>4, <3>1 DEF DomainsAre
  <2>3. ResolversAre(Given("nameserver")) => ResolversAre(Given("nameserver"))'
    <3>1. Given("nameserver")' = Given("nameserver") /\ Given("nameserver") \in Nat /\ given' = given
      BY <1>1, <2>1 DEF Options
    <3> QED
      BY <1>5, <3>1 DEF ResolversAre
  <2>4. CASE pc = "query"
    <3>1. Len(inputs.domains) = words_read /\ DomainsAre(words_read) /\ Len(inputs.resolvers) = 0
      BY <2>1, <2>4 DEF OptionsComeFirst
    <3>2. Len(inputs'.domains) = words_read' /\ Len(inputs'.resolvers) = 0
      BY <1>1, <1>4, <1>5, <2>4, <3>1
    <3>3. \A i \in 1..words_read' : inputs'.domains[i] = Encode(given'.words["query"][i].written)
      BY <1>1, <1>4, <2>4, <3>1 DEF DomainsAre
    <3>4. DomainsAre(words_read)'
      BY <1>1, <3>2, <3>3 DEF DomainsAre
    <3> QED
      BY <2>1, <2>4, <3>2, <3>4 DEF OptionsComeFirst, Middle, Options
  <2>5. CASE pc = "type"
    <3>1. DomainsAre(Given("query")) /\ Len(inputs.resolvers) = 0
      BY <2>1, <2>5 DEF OptionsComeFirst, Middle, Options
    <3>2. Len(inputs'.resolvers) = 0
      BY <1>5, <2>5, <3>1
    <3> QED
      BY <2>1, <2>2, <2>5, <3>1, <3>2 DEF OptionsComeFirst
  <2>6. CASE pc = "nameserver"
    <3>1. DomainsAre(Given("query")) /\ Len(inputs.resolvers) = words_read /\ ResolversAre(words_read)
      BY <2>1, <2>6 DEF OptionsComeFirst, Middle, Options
    <3>2. Len(inputs'.resolvers) = words_read'
      BY <1>1, <1>5, <2>6, <3>1
    <3>3. \A i \in 1..words_read' : inputs'.resolvers[i] = Specific(given'.words["nameserver"][i].text)
      BY <1>1, <1>5, <2>6, <3>1 DEF ResolversAre
    <3>4. ResolversAre(words_read)'
      BY <1>1, <3>2, <3>3 DEF ResolversAre
    <3> QED
      BY <2>1, <2>2, <2>6, <3>1, <3>2, <3>4 DEF OptionsComeFirst
  <2>7. CASE pc \in {"class", "free"}
    <3>1. DomainsAre(Given("query")) /\ ResolversAre(Given("nameserver"))
      BY <2>1, <2>7 DEF OptionsComeFirst, Middle, Options
    <3> QED
      BY <2>1, <2>2, <2>3, <2>7, <3>1 DEF OptionsComeFirst
  <2> QED
    BY <2>4, <2>5, <2>6, <2>7 DEF Options
<1>7. InputsAreChecked'
  <2>1. AllSpecific
    BY DEF ArgumentsInv, InputsAreChecked, Middle
  <2>2. AllSpecific'
    BY <1>1, <1>2, <1>5, <2>1 DEF AllSpecific
  <2>3. pc' = pc /\ ~AreRead'
    BY <1>1, <1>2 DEF AreRead
  <2> QED
    BY <2>2, <2>3 DEF InputsAreChecked, Options
<1> QED
  BY <1>1, <1>3, <1>6, <1>7 DEF ArgumentsInv

LEMMA EncodeType ==
    ASSUME NEW written \in Seq(Parts)
    PROVE  Encode(written) \in Seq(Parts)
<1>1. Root \in Seq(Parts)
  BY DEF Root
<1>2. ASSUME Len(written) > 1 PROVE Front(written) \in Seq(Parts)
  <2>1. \A i \in 1..(Len(written) - 1) : written[i] \in Parts
    BY <1>2
  <2> QED
    BY <1>2, <2>1, SubSeqProperties DEF Front
<1> QED
  BY <1>1, <1>2 DEF Encode, WithoutRoot

\* The word that is read next.
LEMMA WordRead ==
    ASSUME ArgumentsInv, NEW option \in Options, Reads(option)
    PROVE  /\ pc = option /\ words_read < Given(pc)
           /\ Word = given.words[option][words_read + 1] /\ Word \in WordType
           /\ Encode(Word.written) \in Seq(Parts)
           /\ {Word.class, Word.class_number, Word.type, Word.type_number} \subseteq Texts
           /\ {Specific(Word.text), Specific(Word.at)} \subseteq ResolverTypes
           /\ Specific(Word.text).kind = "specific" /\ Specific(Word.at).kind = "specific"
<1>1. pc = option /\ words_read < Given(pc) /\ Word = given.words[option][words_read + 1]
  BY DEF Reads, Words, Word, Given
<1>2. given.words[option] \in Seq(WordType) /\ words_read \in Nat
  BY DEF ArgumentsInv, ArgumentTypes
<1>3. Word \in WordType
  BY <1>1, <1>2 DEF Given
<1> HIDE DEF Word
<1>4. /\ Word.written \in Seq(Parts) /\ Word.text \in STRING /\ Word.at \in STRING
      /\ Word.class \in STRING /\ Word.class_number \in STRING
      /\ Word.type \in STRING /\ Word.type_number \in STRING
  BY <1>3 DEF WordType
<1>5. Encode(Word.written) \in Seq(Parts)
  BY <1>4, EncodeType
<1> QED
  BY <1>1, <1>3, <1>4, <1>5 DEF Texts, ResolverTypes, Specific

LEMMA WordsKeep ==
    ArgumentsInv /\ (ReadQuery \/ ReadType \/ ReadNameserver \/ ReadClass \/ ReadFree) => ArgumentsInv'
<1> SUFFICES ASSUME ArgumentsInv, ReadQuery \/ ReadType \/ ReadNameserver \/ ReadClass \/ ReadFree
             PROVE  ArgumentsInv'
  OBVIOUS
<1>1. ASSUME NEW option \in {"query", "free"}, Reads(option), AddDomain(Word) PROVE ArgumentsInv'
  <2>1. option \in Options
    BY DEF Options
  <2>2. CASE Add("domains", Encode(Word.written))
    BY <1>1, <2>1, <2>2, WordRead, AddKeeps
  <2>3. CASE Refuse("InvalidDomain")
    BY <2>3, RefuseKeeps
  <2> QED
    BY <1>1, <2>2, <2>3 DEF AddDomain
<1>2. CASE ReadQuery
  BY <1>1, <1>2 DEF ReadQuery
<1>3. ASSUME NEW option \in {"type", "class", "free"}, Reads(option), NEW input \in {"types", "classes"},
             NEW value \in {Word.class, Word.class_number, Word.type, Word.type_number}, Add(input, value)
      PROVE  ArgumentsInv'
  <2>1. option \in Options
    BY DEF Options
  <2>2. pc = option /\ words_read < Given(pc) /\ value \in Texts
    BY <1>3, <2>1, WordRead
  <2> QED
    BY <1>3, <2>1, <2>2, AddKeeps
<1>4. CASE ReadType
  BY <1>3, <1>4, RefuseKeeps DEF ReadType
<1>5. CASE ReadClass
  BY <1>3, <1>5, RefuseKeeps DEF ReadClass
<1>6. CASE ReadNameserver
  <2>1. Reads("nameserver") /\ Add("resolvers", Specific(Word.text)) /\ "nameserver" \in Options
    BY <1>6 DEF ReadNameserver, Options
  <2> QED
    BY <2>1, WordRead, AddKeeps
<1>7. CASE ReadFree
  <2>1. Reads("free") /\ "free" \in Options
    BY <1>7 DEF ReadFree, Options
  <2>2. CASE Add("resolvers", Specific(Word.at))
    BY <2>1, <2>2, WordRead, AddKeeps
  <2>3. CASE AddDomain(Word)
    BY <1>1, <2>1, <2>3
  <2>4. CASE AddConstant(Word)
    BY <1>1, <1>3, <2>1, <2>4, RefuseKeeps DEF AddConstant
  <2> QED
    BY <1>7, <2>2, <2>3, <2>4 DEF ReadFree
<1> QED
  BY <1>2, <1>4, <1>5, <1>6, <1>7

\* An option is over, and the next one, or the check, begins.
LEMMA OptionsKeep == ArgumentsInv /\ NextOption => ArgumentsInv'
<1> SUFFICES ASSUME ArgumentsInv, NextOption PROVE ArgumentsInv'
  OBVIOUS
<1>1. /\ ArgumentTypes /\ WordsAreUsed /\ OptionsComeFirst /\ InputsAreChecked
      /\ given.words \in [Options -> Seq(WordType)]
      /\ \A option \in Options : Given(option) \in Nat /\ Len(given.words[option]) = Given(option)
      /\ Len(inputs.domains) \in Nat /\ Len(inputs.resolvers) \in Nat
  <2>1. ArgumentTypes
    BY DEF ArgumentsInv
  <2>2. \A option \in Options : given.words[option] \in Seq(WordType)
    BY <2>1 DEF ArgumentTypes
  <2> QED
    BY <2>1, <2>2 DEF ArgumentsInv, ArgumentTypes, Given
<1>2. pc \in Options /\ words_read = Given(pc) /\ UNCHANGED <<given, inputs>> /\ GoOn
  BY <1>1 DEF NextOption, Words, Given
<1>3. /\ words_read' = 0 /\ UNCHANGED result
      /\ pc = "query" => pc' = "type"
      /\ pc = "type" => pc' = "nameserver"
      /\ pc = "nameserver" => pc' = "class"
      /\ pc = "class" => pc' = "free"
      /\ pc = "free" => pc' = "check"
  <2>1. PICK i \in 10..14 : pc = Order[i]
    BY <1>2 DEF Order, Options
  <2>2. pc' = Order[i + 1] /\ words_read' = 0 /\ result' = result
    BY <1>2, <2>1, GoesOn
  <2> QED
    BY <2>1, <2>2 DEF Order
<1>4. ArgumentTypes'
  BY <1>1, <1>2, <1>3 DEF ArgumentTypes, Options, Middle
<1>5. Used' = Used /\ \A option : Given(option)' = Given(option)
  BY <1>2 DEF Used, Given
<1>6. NumberGiven' = Given("query") + Given("type") + Given("nameserver") + Given("class") + Given("free")
  BY <1>2 DEF NumberGiven, Given
<1>7. WordsAreUsed'
  <2>1. words_read' = 0 /\ (pc' \in Options => words_read' <= Given(pc)')
    <3>1. pc' \in Options => Len(given.words[pc']) \in Nat
      BY <1>1
    <3> QED
      BY <1>2, <1>3, <3>1 DEF Given
  <2>2. pc \notin Early \cup {"check", "fallbacks"}
    BY <1>2 DEF Options, Early
  <2>3. CASE pc = "query"
    BY <1>1, <1>2, <1>3, <1>5, <2>1, <2>3 DEF WordsAreUsed, Options, Early
  <2>6. CASE pc = "type"
    BY <1>1, <1>2, <1>3, <1>5, <2>1, <2>6 DEF WordsAreUsed, Options, Early
  <2>4. CASE pc = "nameserver"
    BY <1>1, <1>2, <1>3, <1>5, <2>1, <2>4 DEF WordsAreUsed, Options, Early
  <2>7. CASE pc = "class"
    BY <1>1, <1>2, <1>3, <1>5, <2>1, <2>7 DEF WordsAreUsed, Options, Early
  <2>5. CASE pc = "free"
    BY <1>1, <1>2, <1>3, <1>5, <1>6, <2>1, <2>5 DEF WordsAreUsed, Options, Early
  <2> QED
    BY <1>2, <2>3, <2>4, <2>5, <2>6, <2>7 DEF Options
<1>8. /\ DomainsAre(Given("query"))' <=> DomainsAre(Given("query"))
      /\ ResolversAre(Given("nameserver"))' <=> ResolversAre(Given("nameserver"))
      /\ DomainsAre(0) /\ ResolversAre(0)
      /\ DomainsAre(0)' /\ ResolversAre(0)'
  BY <1>1, <1>2 DEF DomainsAre, ResolversAre, Given
<1>9. ~AreRead' /\ ~AreRead
  BY <1>1, <1>2, <1>3 DEF AreRead, ArgumentTypes, Options
<1>10. OptionsComeFirst'
  <2>1. pc' # "query"
    BY <1>2, <1>3 DEF Options
  <2>2. pc' \in Middle \ {"query"} => DomainsAre(Given("query"))'
    BY <1>1, <1>2, <1>3, <1>8 DEF OptionsComeFirst, Options, Middle
  <2>3. pc' = "type" => Len(inputs'.resolvers) = 0
    BY <1>1, <1>2, <1>3 DEF OptionsComeFirst, Options
  <2>4. pc' = "nameserver" => Len(inputs'.resolvers) = words_read' /\ ResolversAre(words_read)'
    BY <1>1, <1>2, <1>3 DEF OptionsComeFirst, ResolversAre, Options
  <2>5. pc' \in Middle \ {"query", "type", "nameserver"} => ResolversAre(Given("nameserver"))'
    BY <1>1, <1>2, <1>3, <1>8 DEF OptionsComeFirst, Options, Middle
  <2> QED
    BY <1>9, <2>1, <2>2, <2>3, <2>4, <2>5 DEF OptionsComeFirst
<1>11. InputsAreChecked'
  BY <1>1, <1>2, <1>3, <1>9 DEF InputsAreChecked, AllSpecific, Options, Middle
<1> QED
  BY <1>4, <1>7, <1>10, <1>11 DEF ArgumentsInv

\* The inputs and what they should be are the same as before.
LEMMA ListsStay ==
    ASSUME UNCHANGED <<given, inputs>>
    PROVE  /\ Used' = Used /\ NumberGiven' = NumberGiven
           /\ DomainsAre(Given("query"))' <=> DomainsAre(Given("query"))
           /\ ResolversAre(Given("nameserver"))' <=> ResolversAre(Given("nameserver"))
           /\ AllSpecific' <=> AllSpecific
           /\ \A transports : AllSuitable(transports)' <=> AllSuitable(transports)
BY DEF Used, NumberGiven, Given, DomainsAre, ResolversAre, AllSpecific, AllSuitable

LEMMA CheckKeeps == ArgumentsInv /\ CheckNameservers => ArgumentsInv'
<1> SUFFICES ASSUME ArgumentsInv, CheckNameservers PROVE ArgumentsInv'
  OBVIOUS
<1>1. CASE GoOn
  <2> DEFINE transports == OrElse(inputs.transports, "auto")
  <2>1. pc = "check" /\ UNCHANGED <<given, inputs>>
    BY DEF CheckNameservers
  <2>2. Order[15] = "check" /\ Order[15 + 1] = "fallbacks"
    BY DEF Order
  <2>3. pc' = "fallbacks" /\ words_read' = 0 /\ UNCHANGED result
    BY <1>1, <2>1, <2>2, GoesOn
  <2>4. ASSUME NEW error, Return(error) PROVE FALSE
    BY <2>3, <2>4 DEF Return
  <2>5. \A i \in DOMAIN inputs.resolvers : ~Unsuitable(inputs.resolvers[i].nameserver, transports)
    BY <2>4 DEF CheckNameservers
  <2>6. AllSuitable(transports)
    BY <2>5 DEF AllSuitable, Unsuitable
  <2>7. ~AreRead' /\ ~AreRead
    BY <2>1, <2>3 DEF AreRead, ArgumentsInv, ArgumentTypes
  <2>8. ArgumentTypes' /\ WordsAreUsed'
    BY <2>1, <2>3, ListsStay DEF ArgumentsInv, ArgumentTypes, WordsAreUsed, Middle, Options, Early
  <2>9. OptionsComeFirst'
    BY <2>1, <2>3, <2>7, ListsStay DEF ArgumentsInv, OptionsComeFirst, Middle, Options
  <2>10. AllSpecific /\ OrElse(inputs.transports, "auto")' = transports
    BY <2>1 DEF ArgumentsInv, InputsAreChecked, Middle, OrElse
  <2>11. InputsAreChecked'
    BY <2>1, <2>3, <2>6, <2>7, <2>10, ListsStay DEF InputsAreChecked
  <2> QED
    BY <2>8, <2>9, <2>11 DEF ArgumentsInv
<1>2. ASSUME NEW error \in {"MissingHttpsUrl", "InvalidNameserver"}, Return(error) PROVE ArgumentsInv'
  BY <1>2, ErrorKeeps DEF CheckNameservers, ArgumentsInv, ArgumentTypes
<1> QED
  BY <1>1, <1>2 DEF CheckNameservers

\* What is missing is filled in.
LEMMA FilledIn ==
    ASSUME NEW T, NEW values \in Seq(T), NEW fallback \in T
    PROVE  /\ OrElse(values, fallback) \in Seq(T) /\ OrElse(values, fallback) # <<>>
           /\ Len(values) > 0 => OrElse(values, fallback) = values
BY DEF OrElse

LEMMA FallbacksKeep == ArgumentsInv /\ LoadFallbacks => ArgumentsInv'
<1> SUFFICES ASSUME ArgumentsInv, LoadFallbacks PROVE ArgumentsInv'
  OBVIOUS
<1>1. /\ pc = "fallbacks" /\ UNCHANGED given
      /\ inputs' = [inputs EXCEPT !.types = OrElse(@, "A"), !.classes = OrElse(@, "IN"),
                                  !.resolvers = OrElse(@, SystemDefault), !.transports = OrElse(@, "auto")]
  BY DEF LoadFallbacks
<1>2. /\ inputs \in [domains : Seq(Seq(Parts)), types : Seq(Texts), classes : Seq(Texts),
                     resolvers : Seq(ResolverTypes), transports : Seq(Texts)]
      /\ WordsAreUsed /\ OptionsComeFirst /\ InputsAreChecked
  BY DEF ArgumentsInv, ArgumentTypes
<1>3. /\ inputs'.domains = inputs.domains
      /\ inputs'.types = OrElse(inputs.types, "A")
      /\ inputs'.classes = OrElse(inputs.classes, "IN")
      /\ inputs'.resolvers = OrElse(inputs.resolvers, SystemDefault)
      /\ inputs'.transports = OrElse(inputs.transports, "auto")
      /\ DOMAIN inputs' = {"domains", "types", "classes", "resolvers", "transports"}
      /\ inputs' = [domains |-> inputs'.domains, types |-> inputs'.types, classes |-> inputs'.classes,
                    resolvers |-> inputs'.resolvers, transports |-> inputs'.transports]
  BY <1>1, <1>2
<1>4. SystemDefault \in ResolverTypes /\ {"A", "IN", "auto"} \subseteq Texts
  BY DEF ResolverTypes, Texts
<1>5. /\ inputs'.domains \in Seq(Seq(Parts))
      /\ inputs'.types \in Seq(Texts) /\ inputs'.types # <<>>
      /\ inputs'.classes \in Seq(Texts) /\ inputs'.classes # <<>>
      /\ inputs'.resolvers \in Seq(ResolverTypes) /\ inputs'.resolvers # <<>>
      /\ inputs'.transports \in Seq(Texts) /\ inputs'.transports # <<>>
  BY <1>2, <1>3, <1>4, FilledIn
<1>6. inputs' \in [domains : Seq(Seq(Parts)), types : Seq(Texts), classes : Seq(Texts),
                   resolvers : Seq(ResolverTypes), transports : Seq(Texts)]
  <2> DEFINE all == [domains |-> inputs'.domains, types |-> inputs'.types, classes |-> inputs'.classes,
                     resolvers |-> inputs'.resolvers, transports |-> inputs'.transports]
  <2>1. all \in [domains : Seq(Seq(Parts)), types : Seq(Texts), classes : Seq(Texts),
                 resolvers : Seq(ResolverTypes), transports : Seq(Texts)]
    BY <1>5
  <2>2. inputs' = all
    BY <1>3
  <2> HIDE DEF all
  <2> QED
    BY <2>1, <2>2
<1>7. CASE Return("Help")
  BY <1>6, <1>7, ErrorKeeps DEF LoadFallbacks
<1>8. CASE inputs.domains # <<>> /\ GoOn
  <2>1. Order[16] = "fallbacks" /\ Order[16 + 1] = "warn"
    BY DEF Order
  <2>2. pc' = "warn" /\ words_read' = 0 /\ UNCHANGED result
    BY <1>1, <1>8, <2>1, GoesOn
  <2>3. ArgumentTypes'
    BY <1>1, <1>6, <2>2 DEF ArgumentsInv, ArgumentTypes, Late
  <2>4. WordsAreUsed'
    BY <2>2 DEF WordsAreUsed, Early, Options
  <2>5. AllSpecific /\ DomainsAre(Given("query")) /\ ResolversAre(Given("nameserver"))
    BY <1>1, <1>2 DEF OptionsComeFirst, InputsAreChecked, Middle, Options
  <2>6. CASE inputs.resolvers = <<>>
    <3>1. inputs'.resolvers = <<SystemDefault>>
      BY <1>3, <2>6 DEF OrElse
    <3>2. DomainsAre(Given("query"))'
      BY <1>1, <1>3, <2>5 DEF DomainsAre, Given
    <3>3. ResolversAre(Given("nameserver"))'
      <4>1. \A i \in 1..Given("nameserver") : FALSE
        <5>1. Len(given.words["nameserver"]) \in Nat
          BY DEF ArgumentsInv, ArgumentTypes, Options
        <5> QED
          BY <2>5, <2>6, <5>1 DEF ResolversAre, Given
      <4>2. Given("nameserver")' = Given("nameserver")
        BY <1>1 DEF Given
      <4>3. Len(inputs'.resolvers) = 1 /\ Given("nameserver") <= 0
        BY <2>5, <2>6, <3>1 DEF ResolversAre
      <4>4. Given("nameserver") \in Nat
        BY DEF Given, ArgumentsInv, ArgumentTypes, Options
      <4> QED
        BY <4>1, <4>2, <4>3, <4>4 DEF ResolversAre
    <3>4. OptionsComeFirst'
      BY <2>2, <3>2, <3>3 DEF OptionsComeFirst, Middle, Options
    <3>5. \A i \in DOMAIN inputs'.resolvers : inputs'.resolvers[i] = SystemDefault
      BY <3>1
    <3>6. AllSuitable(inputs.transports)'
      BY <3>5 DEF AllSuitable
    <3>7. \A input \in DOMAIN inputs' : inputs'[input] # <<>>
      BY <1>3, <1>5, <1>8
    <3>8. InputsAreChecked'
      BY <2>2, <3>1, <3>6, <3>7 DEF InputsAreChecked, Early, Middle, Options
    <3> QED
      BY <2>3, <2>4, <3>4, <3>8 DEF ArgumentsInv
  <2>7. CASE inputs.resolvers # <<>>
    <3>1. inputs'.resolvers = inputs.resolvers
      BY <1>3, <2>7 DEF OrElse
    <3>2. DomainsAre(Given("query"))' /\ ResolversAre(Given("nameserver"))'
      BY <1>1, <1>3, <2>5, <3>1 DEF DomainsAre, ResolversAre, Given
    <3>3. OptionsComeFirst'
      BY <2>2, <3>2 DEF OptionsComeFirst, Middle, Options
    <3>4. AllSpecific'
      BY <2>5, <3>1 DEF AllSpecific
    <3>5. AllSuitable(OrElse(inputs.transports, "auto"))
      BY <1>1, <1>2 DEF InputsAreChecked
    <3>6. AllSuitable(inputs.transports)'
      BY <1>3, <3>1, <3>5 DEF AllSuitable
    <3>7. \A input \in DOMAIN inputs' : inputs'[input] # <<>>
      BY <1>3, <1>5, <1>8
    <3>8. InputsAreChecked'
      BY <2>2, <3>4, <3>6, <3>7 DEF InputsAreChecked, Early, Middle, Options
    <3> QED
      BY <2>3, <2>4, <3>3, <3>8 DEF ArgumentsInv
  <2> QED
    BY <2>6, <2>7
<1> QED
  BY <1>7, <1>8 DEF LoadFallbacks

\* What comes after the arguments leaves them alone.
LEMMA LateKeeps ==
    ASSUME ArgumentsInv, pc \in Late, given' = given, inputs' = inputs, words_read' = words_read,
           \/ pc' \in Late /\ result' = result
           \/ pc' = "done" /\ result' # "Pending"
    PROVE  ArgumentsInv'
<1>1. ArgumentTypes'
  BY DEF ArgumentsInv, ArgumentTypes, Late
<1>2. AreRead
  BY DEF AreRead, Late
<1>3. WordsAreUsed'
  BY DEF WordsAreUsed, Early, Options, Late
<1>4. DomainsAre(Given("query")) /\ ResolversAre(Given("nameserver"))
  BY <1>2 DEF ArgumentsInv, OptionsComeFirst
<1>5. OptionsComeFirst'
  BY <1>4, ListsStay DEF OptionsComeFirst, Middle, Options, Late
<1>6. AllSuitable(inputs.transports)'
  BY <1>2 DEF ArgumentsInv, InputsAreChecked, AllSuitable
<1>7. InputsAreChecked'
  BY <1>2, <1>6, ListsStay DEF ArgumentsInv, InputsAreChecked, Early, Middle, Options, Late
<1> QED
  BY <1>1, <1>3, <1>5, <1>7 DEF ArgumentsInv

LEMMA ArgumentsNext == ArgumentsInv /\ [Next]_vars => ArgumentsInv'
<1> SUFFICES ASSUME ArgumentsInv, [Next]_vars PROVE ArgumentsInv'
  OBVIOUS
<1>1. CASE ReadArgument
  BY <1>1, SettingsKeep, TransportsKeep, WordsKeep, OptionsKeep, CheckKeeps, FallbacksKeep
     DEF ReadArgument, ReadArguments
<1>2. CASE WarnAboutLocalHosts
  <2>1. /\ pc \in Late /\ given' = given /\ inputs' = inputs /\ words_read' = words_read
        /\ \/ pc' \in Late /\ result' = result
           \/ pc' = "done" /\ result' # "Pending"
    BY <1>2 DEF WarnAboutLocalHosts, arguments, Late
  <2> QED
    BY <2>1, LateKeeps
<1>3. CASE ObtainSpecific
  <2>1. /\ pc \in Late /\ given' = given /\ inputs' = inputs /\ words_read' = words_read
        /\ \/ pc' \in Late /\ result' = result
           \/ pc' = "done" /\ result' # "Pending"
    BY <1>3 DEF ObtainSpecific, NextResolver, arguments, Late
  <2> QED
    BY <2>1, LateKeeps
<1>4. CASE OpenFile
  <2>1. /\ pc \in Late /\ given' = given /\ inputs' = inputs /\ words_read' = words_read
        /\ \/ pc' \in Late /\ result' = result
           \/ pc' = "done" /\ result' # "Pending"
    BY <1>4 DEF OpenFile, NextResolver, Return, Late
  <2> QED
    BY <2>1, LateKeeps
<1>5. CASE FindNameserver \/ FindSearchList \/ PassOver
  <2>1. /\ pc \in Late /\ given' = given /\ inputs' = inputs /\ words_read' = words_read
        /\ \/ pc' \in Late /\ result' = result
           \/ pc' = "done" /\ result' # "Pending"
    BY <1>5 DEF FindNameserver, FindSearchList, PassOver, NextLine, arguments, Late
  <2> QED
    BY <2>1, LateKeeps
<1>6. CASE ReadFails
  <2>1. /\ pc \in Late /\ given' = given /\ inputs' = inputs /\ words_read' = words_read
        /\ \/ pc' \in Late /\ result' = result
           \/ pc' = "done" /\ result' # "Pending"
    BY <1>6 DEF ReadFails, NextLine, Return, Late
  <2> QED
    BY <2>1, LateKeeps
<1>7. CASE EndOfFile
  <2>1. /\ pc \in Late /\ given' = given /\ inputs' = inputs /\ words_read' = words_read
        /\ \/ pc' \in Late /\ result' = result
           \/ pc' = "done" /\ result' # "Pending"
    BY <1>7 DEF EndOfFile, Return, Late
  <2> QED
    BY <2>1, LateKeeps
<1>8. CASE StartGenerating
  <2>1. /\ pc \in Late /\ given' = given /\ inputs' = inputs /\ words_read' = words_read
        /\ \/ pc' \in Late /\ result' = result
           \/ pc' = "done" /\ result' # "Pending"
    BY <1>8 DEF StartGenerating, arguments, Late
  <2> QED
    BY <2>1, LateKeeps
<1>9. CASE MakeSet
  <2>1. /\ pc \in Late /\ given' = given /\ inputs' = inputs /\ words_read' = words_read
        /\ \/ pc' \in Late /\ result' = result
           \/ pc' = "done" /\ result' # "Pending"
    BY <1>9 DEF MakeSet, Return, Late
  <2> QED
    BY <2>1, LateKeeps
<1>10. CASE UNCHANGED vars
  <2>1. UNCHANGED <<given, inputs, words_read, pc, result>>
    BY <1>10 DEF vars, arguments
  <2>2. ArgumentTypes' /\ (AreRead' <=> AreRead)
    BY <2>1 DEF ArgumentsInv, ArgumentTypes, AreRead
  <2>3. WordsAreUsed'
    BY <2>1 DEF ArgumentsInv, WordsAreUsed, Used, Given, NumberGiven
  <2>4. OptionsComeFirst'
    BY <2>1, <2>2 DEF ArgumentsInv, OptionsComeFirst, DomainsAre, ResolversAre, Given
  <2>5. InputsAreChecked'
    BY <2>1, <2>2 DEF ArgumentsInv, InputsAreChecked, AllSpecific, AllSuitable
  <2> QED
    BY <2>2, <2>3, <2>4, <2>5 DEF ArgumentsInv
<1> QED
  BY <1>1, <1>2, <1>3, <1>4, <1>5, <1>6, <1>7, <1>8, <1>9, <1>10 DEF Next, Step, Done

LEMMA ArgumentsInit == Init => ArgumentsInv
<1> SUFFICES ASSUME Init PROVE ArgumentsInv
  OBVIOUS
<1>1. /\ given.words \in [Options -> Seq(WordType)]
      /\ pc = "split" /\ words_read = 0 /\ result = "Pending"
      /\ inputs = [domains |-> <<>>, types |-> <<>>, classes |-> <<>>, resolvers |-> <<>>, transports |-> <<>>]
  BY CommandLinesAssumption DEF Init, GivenSomething, Options
<1>2. ArgumentTypes
  BY <1>1 DEF ArgumentTypes, Early
<1>3. WordsAreUsed
  BY <1>1 DEF WordsAreUsed, Used, Options
<1>4. OptionsComeFirst /\ InputsAreChecked
  BY <1>1 DEF OptionsComeFirst, InputsAreChecked, AllSpecific, AreRead, Middle, Options
<1> QED
  BY <1>2, <1>3, <1>4 DEF ArgumentsInv

LEMMA ArgumentsAlways == Spec => []ArgumentsInv
BY ArgumentsInit, ArgumentsNext, PTL DEF Spec

\* Every word that is given is used, as exactly one thing, and in its place,
\* and each nameserver given can be used with each transport, those filled in
\* included, for all command lines (Inputs::deduce and what it calls).
THEOREM ArgumentsCount == Spec => []EveryArgumentCounts
<1>1. ArgumentsInv => EveryArgumentCounts
  <2> SUFFICES ASSUME ArgumentsInv PROVE EveryArgumentCounts
    OBVIOUS
  <2>1. pc = "fallbacks" => NumberGiven =
            Len(inputs.domains) + Len(inputs.types) + Len(inputs.classes) + Len(inputs.resolvers)
    BY DEF ArgumentsInv, WordsAreUsed, Used
  <2>2. /\ \A i \in DOMAIN given.words["query"] : i \in 1..Given("query")
        /\ \A i \in DOMAIN given.words["nameserver"] : i \in 1..Given("nameserver")
    <3>1. given.words["query"] \in Seq(WordType) /\ given.words["nameserver"] \in Seq(WordType)
      BY DEF ArgumentsInv, ArgumentTypes, Options
    <3> QED
      BY <3>1 DEF Given
  <2>3. AreRead => DomainsAre(Given("query")) /\ ResolversAre(Given("nameserver"))
    BY DEF ArgumentsInv, OptionsComeFirst
  <2>4. AreRead => /\ AllSuitable(inputs.transports)
                   /\ \A input \in DOMAIN inputs : inputs[input] # <<>>
    BY DEF ArgumentsInv, InputsAreChecked
  <2> QED
    BY <2>1, <2>2, <2>3, <2>4 DEF EveryArgumentCounts, DomainsAre, ResolversAre, AllSuitable
<1> QED
  BY <1>1, ArgumentsAlways, PTL

-----------------------------------------------------------------------------
(* The system's files.                                                     *)

\* How many of the first n lines have a usable nameserver.
UsablesOf(lines) == {i \in Nat : UsableLine(lines[i])}
Usables(lines, n) == Among(UsablesOf(lines), n)

LEMMA UsablesAre ==
    ASSUME NEW lines, NEW n \in Nat
    PROVE  Cardinality({i \in 1..n : UsableLine(lines[i])}) = Usables(lines, n)
<1>1. {i \in 1..n : UsableLine(lines[i])} = UsablesOf(lines) \cap 1..n
  BY DEF UsablesOf
<1> QED
  BY <1>1 DEF Usables, Among

\* What parse_resolv_conf has found in the first n lines.
NameserversFound(lines, n, servers) ==
    /\ Len(servers) = Usables(lines, n)
    /\ \A i \in 1..n : UsableLine(lines[i]) =>
          Usables(lines, i) \in 1..Len(servers) /\ servers[Usables(lines, i)] = lines[i].nameserver

SearchListFound(lines, n, list) ==
    \/ list = <<>> /\ \A i \in 1..n : lines[i].kind # "search"
    \/ \E i \in 1..n : /\ lines[i].kind = "search" /\ list = lines[i].names
                       /\ \A j \in 1..n : j > i => lines[j].kind # "search"

NoneUnreadable(lines, n) == \A i \in 1..n : lines[i].kind # "unreadable"

FilesTypes ==
    /\ file \in {NoFile} \cup Seq(FileLines) /\ hosts \in {NoFile} \cup Seq(HostsLines)
    /\ read \in Nat /\ nameservers \in Seq(STRING) /\ search_list \in Seq(Seq(Parts))
    /\ resolvers \in Seq([nameservers : Seq(STRING), search_list : Seq(Seq(Parts))])

FileIsRead ==
    /\ pc \in Early \cup Middle \cup {"warn", "read"} => resolvers = <<>>
    /\ pc = "read" => /\ inputs.resolvers = <<SystemDefault>>
                      /\ file \in Seq(FileLines) /\ file # NoFile /\ read <= Len(file)
                      /\ NoneUnreadable(file, read)
                      /\ NameserversFound(file, read, nameservers)
                      /\ SearchListFound(file, read, search_list)
    /\ AreRead => Len(resolvers) <= Len(inputs.resolvers)
    /\ pc = "generate" \/ result = "Ok" => Len(resolvers) = Len(inputs.resolvers)

\* IsOfTheFile and FileIsReadable of any file.
Readable(lines) == lines # NoFile /\ \A i \in DOMAIN lines : lines[i].kind # "unreadable"

UsablesIn(lines, n) == Cardinality({i \in 1..n : UsableLine(lines[i])})

SearchesIn(lines, n) == {i \in DOMAIN lines : i > n /\ lines[i].kind = "search"}

OfFile(lines, resolver) ==
    /\ Len(resolver.nameservers) =
           IF UsablesIn(lines, Len(lines)) < MAX_NAMESERVERS THEN UsablesIn(lines, Len(lines)) ELSE MAX_NAMESERVERS
    /\ \A i \in DOMAIN lines :
          UsableLine(lines[i]) /\ UsablesIn(lines, i) <= MAX_NAMESERVERS =>
              resolver.nameservers[UsablesIn(lines, i)] = lines[i].nameserver
    /\ IF SearchesIn(lines, 0) = {} THEN resolver.search_list = <<>>
       ELSE \E i \in SearchesIn(lines, 0) :
                SearchesIn(lines, i) = {} /\ resolver.search_list = lines[i].names

ResolversObtained ==
    /\ \A r \in DOMAIN resolvers :
          /\ resolvers[r].nameservers # <<>>
          /\ inputs.resolvers[r] = SystemDefault => Readable(file) /\ OfFile(file, resolvers[r])
    /\ result = "IO" => ~Readable(file)
    /\ result = "NoNameserver" => Readable(file) /\ UsablesIn(file, Len(file)) = 0

Warned ==
    HostsWereRead =>
        /\ HostsAreReadable =>
              \A domain \in Range(inputs.domains) :
                  HowOften(domain, warned) = IF InHostsFile(domain) THEN HowOften(domain, inputs.domains) ELSE 0
        /\ ~HostsAreReadable => warned = <<>>

FilesInv == FilesTypes /\ FileIsRead /\ ResolversObtained /\ Warned

LEMMA OfTheFileIs ==
    /\ FileIsReadable <=> Readable(file)
    /\ UsableAmong(Len(file)) = UsablesIn(file, Len(file))
    /\ \A resolver : IsOfTheFile(resolver) <=> OfFile(file, resolver)
BY DEF FileIsReadable, Readable, IsOfTheFile, OfFile, UsableAmong, UsablesIn, SearchesAfter, SearchesIn

LEMMA LineTypes ==
    ASSUME NEW line \in FileLines
    PROVE  /\ line.kind \in {"nameserver", "search", "other", "unreadable"}
           /\ line.kind = "nameserver" => line.nameserver \in STRING /\ line.usable \in BOOLEAN
           /\ line.kind = "search" => line.names \in Seq(Seq(Parts))
<1>1. CASE line \in [kind : {"nameserver"}, nameserver : STRING, usable : BOOLEAN]
  BY <1>1
<1>2. CASE line \in [kind : {"search"}, names : Seq(Seq(Parts))]
  BY <1>2
<1>3. CASE line \in {OtherLine, UnreadableLine}
  BY <1>3 DEF OtherLine, UnreadableLine
<1> QED
  BY <1>1, <1>2, <1>3 DEF FileLines

\* One more line is read.
LEMMA NameserversMore ==
    ASSUME NEW lines \in Seq(FileLines), NEW n \in Nat, n < Len(lines), NEW servers \in Seq(STRING),
           NameserversFound(lines, n, servers)
    PROVE  NameserversFound(lines, n + 1,
               IF UsableLine(lines[n + 1]) THEN Append(servers, lines[n + 1].nameserver) ELSE servers)
<1> DEFINE line == lines[n + 1]
           more == IF UsableLine(line) THEN Append(servers, line.nameserver) ELSE servers
<1>1. line \in FileLines
  OBVIOUS
<1>2. UsableLine(line) => line.nameserver \in STRING
  BY <1>1, LineTypes DEF UsableLine
<1>3. /\ Len(servers) \in Nat
      /\ UsableLine(line) => /\ Len(more) = Len(servers) + 1 /\ more[Len(servers) + 1] = line.nameserver
                             /\ \A k \in 1..Len(servers) : more[k] = servers[k]
      /\ ~UsableLine(line) => more = servers
  BY <1>2
<1>4. Usables(lines, n + 1) = IF UsableLine(line) THEN Usables(lines, n) + 1 ELSE Usables(lines, n)
  <2>1. n + 1 \in UsablesOf(lines) <=> UsableLine(line)
    BY DEF UsablesOf
  <2> QED
    BY <2>1, AmongNext DEF Usables
<1>5. Len(servers) = Usables(lines, n)
  BY DEF NameserversFound
<1> HIDE DEF more
<1>6. Len(more) = Usables(lines, n + 1)
  BY <1>3, <1>4, <1>5
<1>7. ASSUME NEW i \in 1..(n + 1), UsableLine(lines[i])
      PROVE  Usables(lines, i) \in 1..Len(more) /\ more[Usables(lines, i)] = lines[i].nameserver
  <2>1. CASE i \in 1..n
    <3>1. Usables(lines, i) \in 1..Len(servers) /\ servers[Usables(lines, i)] = lines[i].nameserver
      BY <1>7, <2>1 DEF NameserversFound
    <3> QED
      BY <1>3, <3>1
  <2>2. CASE i = n + 1
    BY <1>3, <1>4, <1>5, <1>7, <2>2
  <2> QED
    BY <2>1, <2>2
<1>8. NameserversFound(lines, n + 1, more)
  BY <1>6, <1>7 DEF NameserversFound
<1> QED
  BY <1>8 DEF more

LEMMA SearchListMore ==
    ASSUME NEW lines, NEW n \in Nat, NEW list, SearchListFound(lines, n, list)
    PROVE  SearchListFound(lines, n + 1, IF lines[n + 1].kind = "search" THEN lines[n + 1].names ELSE list)
<1>1. CASE lines[n + 1].kind = "search"
  BY <1>1 DEF SearchListFound
<1>2. CASE lines[n + 1].kind # "search"
  <2>1. CASE list = <<>> /\ \A i \in 1..n : lines[i].kind # "search"
    BY <1>2, <2>1 DEF SearchListFound
  <2>2. ASSUME NEW i \in 1..n, lines[i].kind = "search", list = lines[i].names,
               \A j \in 1..n : j > i => lines[j].kind # "search"
        PROVE  SearchListFound(lines, n + 1, list)
    <3>1. i \in 1..(n + 1) /\ \A j \in 1..(n + 1) : j > i => lines[j].kind # "search"
      BY <1>2, <2>2
    <3> QED
      BY <2>2, <3>1 DEF SearchListFound
  <2> QED
    BY <1>2, <2>1, <2>2 DEF SearchListFound
<1> QED
  BY <1>1, <1>2

LEMMA UnreadableMore ==
    ASSUME NEW lines, NEW n \in Nat, NoneUnreadable(lines, n), lines[n + 1].kind # "unreadable"
    PROVE  NoneUnreadable(lines, n + 1)
BY DEF NoneUnreadable

\* At the end of the file, what was found is what the file says.
LEMMA FoundIsOfTheFile ==
    ASSUME NEW lines \in Seq(FileLines), NEW servers \in Seq(STRING), NameserversFound(lines, Len(lines), servers),
           NEW list, SearchListFound(lines, Len(lines), list)
    PROVE  OfFile(lines, [nameservers |-> SubSeq(servers, 1,
                              IF Len(servers) < MAX_NAMESERVERS THEN Len(servers) ELSE MAX_NAMESERVERS),
                          search_list |-> list])
<1> DEFINE last == IF Len(servers) < MAX_NAMESERVERS THEN Len(servers) ELSE MAX_NAMESERVERS
           used == SubSeq(servers, 1, last)
           resolver == [nameservers |-> used, search_list |-> list]
<1>1. Len(lines) \in Nat /\ DOMAIN lines = 1..Len(lines)
  OBVIOUS
<1>2. last \in 0..Len(servers) /\ Len(servers) \in Nat /\ MAX_NAMESERVERS \in Nat
  BY NameserversAssumption
<1>3. Len(used) = last /\ \A k \in 1..last : used[k] = servers[k]
  <2>1. \A k \in 1..last : servers[k] \in STRING
    BY <1>2
  <2> QED
    BY <1>2, <2>1, SubSeqProperties
<1>4. UsablesIn(lines, Len(lines)) = Len(servers)
  BY <1>1, UsablesAre DEF NameserversFound, UsablesIn
<1>5. Len(used) = IF UsablesIn(lines, Len(lines)) < MAX_NAMESERVERS THEN UsablesIn(lines, Len(lines)) ELSE MAX_NAMESERVERS
  BY <1>3, <1>4
<1> HIDE DEF used
<1>6. ASSUME NEW i \in DOMAIN lines, UsableLine(lines[i]), UsablesIn(lines, i) <= MAX_NAMESERVERS
      PROVE  used[UsablesIn(lines, i)] = lines[i].nameserver
  <2>1. i \in 1..Len(lines) /\ UsablesIn(lines, i) = Usables(lines, i)
    BY <1>1, UsablesAre DEF UsablesIn
  <2>2. UsablesIn(lines, i) \in 1..Len(servers) /\ servers[UsablesIn(lines, i)] = lines[i].nameserver
    BY <1>6, <2>1 DEF NameserversFound
  <2> QED
    BY <1>2, <1>3, <1>6, <2>2
<1>7. IF SearchesIn(lines, 0) = {} THEN list = <<>>
      ELSE \E i \in SearchesIn(lines, 0) : SearchesIn(lines, i) = {} /\ list = lines[i].names
  <2>1. CASE list = <<>> /\ \A i \in 1..Len(lines) : lines[i].kind # "search"
    BY <1>1, <2>1 DEF SearchesIn
  <2>2. ASSUME NEW i \in 1..Len(lines), lines[i].kind = "search", list = lines[i].names,
               \A j \in 1..Len(lines) : j > i => lines[j].kind # "search"
        PROVE  i \in SearchesIn(lines, 0) /\ SearchesIn(lines, i) = {} /\ list = lines[i].names
    BY <1>1, <2>2 DEF SearchesIn
  <2> QED
    BY <2>1, <2>2 DEF SearchListFound
<1>8. resolver.nameservers = used /\ resolver.search_list = list
  OBVIOUS
<1> HIDE DEF resolver
<1>9. OfFile(lines, resolver)
  BY <1>5, <1>6, <1>7, <1>8 DEF OfFile
<1> QED
  BY <1>9 DEF resolver, used

\* A name is in the hosts file if it stands on a line of it where one may.
LEMMA HostsAre ==
    ASSUME NEW lines \in {NoFile} \cup Seq(HostsLines)
    PROVE  /\ ~(lines # NoFile /\ \A i \in DOMAIN lines : lines[i].kind # "unreadable") => LocalHosts(lines) = {}
           /\ lines # NoFile /\ (\A i \in DOMAIN lines : lines[i].kind # "unreadable") =>
                 \A domain : domain \in LocalHosts(lines) <=>
                     \E i \in DOMAIN lines : \E field \in 2..Len(lines[i].fields) :
                         LET written == lines[i].fields[field] IN IsName(written) /\ Encode(written) = domain
<1>1. CASE lines = NoFile
  BY <1>1 DEF LocalHosts
<1>2. CASE lines # NoFile /\ \E i \in DOMAIN lines : lines[i].kind = "unreadable"
  <2>1. PICK i \in DOMAIN lines : lines[i].kind = "unreadable"
    BY <1>2
  <2>2. lines[i] \in HostsLines
    BY <1>2, <2>1
  <2>3. lines[i] = UnreadableLine
    BY <2>1, <2>2 DEF HostsLines
  <2> QED
    BY <1>2, <2>1, <2>3 DEF LocalHosts
<1>3. CASE lines # NoFile /\ \A i \in DOMAIN lines : lines[i].kind # "unreadable"
  <2>1. ASSUME NEW i \in DOMAIN lines PROVE lines[i] # UnreadableLine /\ lines[i].fields \in Seq(Seq(Parts))
    <3>1. lines[i] \in HostsLines /\ lines[i].kind # "unreadable"
      BY <1>3
    <3> QED
      BY <3>1 DEF HostsLines, UnreadableLine
  <2>2. LocalHosts(lines) = UNION {NamesOn(lines[i]) : i \in DOMAIN lines}
    BY <1>3, <2>1 DEF LocalHosts
  <2>3. ASSUME NEW i \in DOMAIN lines, NEW domain
        PROVE  domain \in NamesOn(lines[i]) <=>
                   \E field \in 2..Len(lines[i].fields) :
                       IsName(lines[i].fields[field]) /\ Encode(lines[i].fields[field]) = domain
    <3> DEFINE fields == lines[i].fields
    <3>1. fields \in Seq(Seq(Parts)) /\ Len(fields) \in Nat
      BY <2>1
    <3>2. CASE fields = <<>>
      BY <3>2 DEF NamesOn
    <3>3. CASE fields # <<>>
      <4>1. /\ DOMAIN Tail(fields) = 1..(Len(fields) - 1)
            /\ \A k \in 1..(Len(fields) - 1) : Tail(fields)[k] = fields[k + 1]
        BY <3>1, <3>3
      <4>2. Range(Tail(fields)) = {fields[field] : field \in 2..Len(fields)}
        <5>1. ASSUME NEW v \in Range(Tail(fields)) PROVE v \in {fields[field] : field \in 2..Len(fields)}
          <6>1. PICK k \in 1..(Len(fields) - 1) : v = Tail(fields)[k]
            BY <4>1 DEF Range
          <6>2. v = fields[k + 1] /\ k + 1 \in 2..Len(fields)
            BY <3>1, <4>1, <6>1
          <6> QED
            BY <6>2
        <5>2. ASSUME NEW field \in 2..Len(fields) PROVE fields[field] \in Range(Tail(fields))
          <6>1. field - 1 \in 1..(Len(fields) - 1) /\ Tail(fields)[field - 1] = fields[(field - 1) + 1]
            BY <3>1, <4>1
          <6>2. (field - 1) + 1 = field
            OBVIOUS
          <6> QED
            BY <4>1, <6>1, <6>2 DEF Range
        <5> QED
          BY <5>1, <5>2
      <4>3. NamesOn(lines[i]) = {Encode(w) : w \in {v \in {fields[field] : field \in 2..Len(fields)} : IsName(v)}}
        BY <3>3, <4>2 DEF NamesOn
      <4> QED
        BY <4>3
    <3> QED
      BY <3>2, <3>3
  <2> QED
    BY <1>3, <2>2, <2>3
<1> QED
  BY <1>1, <1>2, <1>3

\* Where reading an argument leads.
LEMMA ArgumentsLead ==
    ASSUME ArgumentsInv, ReadArguments
    PROVE  /\ pc \in Early \cup Middle
           /\ \/ pc' \in Early \cup Middle \cup {"warn"} /\ result' = result
              \/ pc' = "done" /\ result' \notin {"Ok", "IO", "NoNameserver"}
<1>1. CASE pc \in Early \cup Middle /\ GoOn
  <2>1. PICK i \in 1..16 : pc = Order[i]
    BY <1>1 DEF Order, Early, Middle, Options
  <2>2. pc' = Order[i + 1] /\ result' = result
    BY <1>1, <2>1, GoesOn
  <2>3. Order[i + 1] \in Early \cup Middle \cup {"warn"}
    BY DEF Order, Early, Middle, Options
  <2> QED
    BY <1>1, <2>2, <2>3
<1>2. ASSUME NEW error, Return(error), error \notin {"Ok", "IO", "NoNameserver"}, pc \in Early \cup Middle
      PROVE  /\ pc \in Early \cup Middle
             /\ pc' = "done" /\ result' \notin {"Ok", "IO", "NoNameserver"}
  BY <1>2 DEF Return
<1>3. CASE CheckSetting
  BY <1>1, <1>2, <1>3 DEF CheckSetting, SettingErrors, Early
<1>4. CASE Meta \/ LoadTransports
  BY <1>1, <1>2, <1>4 DEF Meta, LoadTransports, Early
<1>5. ASSUME NEW error, Refuse(error), error \notin {"Ok", "IO", "NoNameserver"}, pc \in Options
      PROVE  /\ pc \in Early \cup Middle
             /\ pc' = "done" /\ result' \notin {"Ok", "IO", "NoNameserver"}
  BY <1>2, <1>5 DEF Refuse, Middle
<1>6. ASSUME NEW input, NEW value, Add(input, value), pc \in Options
      PROVE  /\ pc \in Early \cup Middle
             /\ pc' \in Early \cup Middle \cup {"warn"} /\ result' = result
  BY <1>6 DEF Add, Middle
<1>7. ASSUME NEW word, AddDomain(word), pc \in Options
      PROVE  /\ pc \in Early \cup Middle
             /\ \/ pc' \in Early \cup Middle \cup {"warn"} /\ result' = result
                \/ pc' = "done" /\ result' \notin {"Ok", "IO", "NoNameserver"}
  BY <1>5, <1>6, <1>7 DEF AddDomain
<1>8. CASE ReadQuery
  BY <1>7, <1>8 DEF ReadQuery, Reads, Options
<1>9. CASE ReadType
  BY <1>5, <1>6, <1>9 DEF ReadType, Reads, Options
<1>10. CASE ReadNameserver
  BY <1>6, <1>10 DEF ReadNameserver, Reads, Options
<1>11. CASE ReadClass
  BY <1>5, <1>6, <1>11 DEF ReadClass, Reads, Options
<1>12. CASE ReadFree
  <2>1. pc \in Options
    BY <1>12 DEF ReadFree, Reads, Options
  <2>2. CASE AddConstant(Word)
    BY <1>5, <1>6, <1>7, <2>1, <2>2 DEF AddConstant
  <2> QED
    BY <1>6, <1>7, <1>12, <2>1, <2>2 DEF ReadFree
<1>13. CASE NextOption /\ pc \in Options
  BY <1>1, <1>13 DEF NextOption, Middle
<1>14. CASE CheckNameservers \/ LoadFallbacks
  BY <1>1, <1>2, <1>14 DEF CheckNameservers, LoadFallbacks, Middle
<1>15. NextOption => pc \in Options
  BY DEF NextOption, ArgumentsInv, ArgumentTypes
<1> QED
  BY <1>3, <1>4, <1>8, <1>9, <1>10, <1>11, <1>12, <1>13, <1>14, <1>15 DEF ReadArguments

\* The number of inputs of each kind.
LEMMA InputsTyped ==
    ASSUME ArgumentsInv
    PROVE  /\ inputs.domains \in Seq(Seq(Parts)) /\ inputs.types \in Seq(Texts)
           /\ inputs.classes \in Seq(Texts) /\ inputs.transports \in Seq(Texts)
           /\ inputs.resolvers \in Seq(ResolverTypes)
           /\ Len(inputs.domains) \in Nat /\ Len(inputs.types) \in Nat /\ Len(inputs.classes) \in Nat
           /\ Len(inputs.transports) \in Nat /\ Len(inputs.resolvers) \in Nat
<1>1. /\ inputs.domains \in Seq(Seq(Parts)) /\ inputs.types \in Seq(Texts)
      /\ inputs.classes \in Seq(Texts) /\ inputs.transports \in Seq(Texts)
      /\ inputs.resolvers \in Seq(ResolverTypes)
  BY DEF ArgumentsInv, ArgumentTypes
<1> QED
  BY <1>1

LEMMA ReadArgumentFiles == ArgumentsInv /\ ArgumentsInv' /\ FilesInv /\ ReadArgument => FilesInv'
<1> SUFFICES ASSUME ArgumentsInv, ArgumentsInv', FilesInv, ReadArgument PROVE FilesInv'
  OBVIOUS
<1>1. /\ hosts' = hosts /\ warned' = warned /\ file' = file /\ read' = read
      /\ nameservers' = nameservers /\ search_list' = search_list /\ resolvers' = resolvers
  BY DEF ReadArgument, hints, system, generated
<1>2. /\ pc \in Early \cup Middle
      /\ pc' \in Early \cup Middle \cup {"warn", "done"} /\ result' \notin {"Ok", "IO", "NoNameserver"}
  <2>1. result = "Pending"
    BY ArgumentsLead DEF ReadArgument, ArgumentsInv, ArgumentTypes, Early, Middle, Options
  <2> QED
    BY <2>1, ArgumentsLead DEF ReadArgument
<1>3. resolvers' = <<>>
  BY <1>1, <1>2 DEF FilesInv, FileIsRead
<1>4. FilesTypes'
  BY <1>1 DEF FilesInv, FilesTypes
<1>5. pc' \notin {"read", "generate"}
  BY <1>2 DEF Early, Middle, Options
<1>6. Len(inputs'.resolvers) \in Nat
  <2>1. inputs'.resolvers \in Seq(ResolverTypes)
    BY DEF ArgumentsInv, ArgumentTypes
  <2> QED
    BY <2>1
<1>7. FileIsRead'
  BY <1>2, <1>3, <1>5, <1>6 DEF FileIsRead
<1>8. ResolversObtained'
  BY <1>2, <1>3 DEF ResolversObtained
<1>9. Warned'
  BY <1>2, <1>5 DEF Warned, HostsWereRead, Early, Middle, Options
<1> QED
  BY <1>4, <1>7, <1>8, <1>9 DEF FilesInv

LEMMA WarnFiles == ArgumentsInv /\ FilesInv /\ WarnAboutLocalHosts => FilesInv'
<1> SUFFICES ASSUME ArgumentsInv, FilesInv, WarnAboutLocalHosts PROVE FilesInv'
  OBVIOUS
<1>1. /\ pc = "warn" /\ pc' = "obtain" /\ inputs' = inputs /\ result' = result /\ file' = file /\ read' = read
      /\ nameservers' = nameservers /\ search_list' = search_list /\ resolvers' = resolvers
      /\ hosts' \in HostsFiles /\ warned' = Kept(inputs.domains, LocalHosts(hosts'))
  BY DEF WarnAboutLocalHosts, arguments, system
<1>2. resolvers' = <<>> /\ result = "Pending"
  BY <1>1 DEF FilesInv, FileIsRead, ArgumentsInv, ArgumentTypes
<1>3. hosts' \in {NoFile} \cup Seq(HostsLines)
  BY <1>1, FilesAssumption
<1>4. FilesTypes'
  BY <1>1, <1>3 DEF FilesInv, FilesTypes
<1>5. FileIsRead'
  BY <1>1, <1>2, InputsTyped DEF FileIsRead, Early, Middle, Options
<1>6. ResolversObtained'
  BY <1>1, <1>2 DEF ResolversObtained
<1>7. Warned'
  <2> DEFINE local == LocalHosts(hosts')
  <2>1. inputs.domains \in Seq(Seq(Parts))
    BY InputsTyped
  <2>2. CASE HostsAreReadable'
    <3>1. \A domain : domain \in local <=> InHostsFile(domain)'
      BY <1>3, <2>2, HostsAre DEF HostsAreReadable, InHostsFile
    <3>2. \A domain : HowOften(domain, warned') = IF domain \in local THEN HowOften(domain, inputs.domains) ELSE 0
      BY <1>1, <2>1, KeptOften
    <3> QED
      BY <1>1, <2>2, <3>1, <3>2 DEF Warned
  <2>3. CASE ~HostsAreReadable'
    <3>1. local = {}
      BY <1>3, <2>3, HostsAre DEF HostsAreReadable
    <3>2. warned' \in Seq(Seq(Parts) \cap {})
      BY <1>1, <2>1, <3>1, KeptType
    <3>3. warned' = <<>>
      BY <3>2
    <3> QED
      BY <2>3, <3>3 DEF Warned
  <2> QED
    BY <2>2, <2>3
<1> QED
  BY <1>4, <1>5, <1>6, <1>7 DEF FilesInv

\* What was warned of stays as it is.
LEMMA WarnedStays ==
    ASSUME Warned, hosts' = hosts, warned' = warned, inputs' = inputs, HostsWereRead' => HostsWereRead
    PROVE  Warned'
<1>1. HostsAreReadable' <=> HostsAreReadable
  BY DEF HostsAreReadable
<1>2. \A domain : InHostsFile(domain)' <=> InHostsFile(domain)
  BY DEF InHostsFile
<1> QED
  BY <1>1, <1>2 DEF Warned

\* One more resolver.
ResolverType == [nameservers : Seq(STRING), search_list : Seq(Seq(Parts))]

LEMMA ResolverMore ==
    ASSUME ArgumentsInv, FilesInv, pc \in {"obtain", "read"}, Len(resolvers) < Len(inputs.resolvers),
           NEW resolver \in ResolverType, resolvers' = Append(resolvers, resolver), resolver.nameservers # <<>>,
           inputs' = inputs, result' = result, pc' = "obtain", UNCHANGED <<hints, system>>,
           inputs.resolvers[Len(resolvers) + 1] = SystemDefault => Readable(file) /\ OfFile(file, resolver)
    PROVE  FilesInv'
<1>1. /\ hosts' = hosts /\ warned' = warned /\ file' = file /\ read' = read
      /\ nameservers' = nameservers /\ search_list' = search_list
  BY DEF hints, system
<1>2. resolvers \in Seq(ResolverType) /\ result = "Pending"
  BY DEF FilesInv, FilesTypes, ResolverType, ArgumentsInv, ArgumentTypes
<1>3. /\ resolvers' \in Seq(ResolverType) /\ Len(resolvers') = Len(resolvers) + 1 /\ Len(resolvers) \in Nat
      /\ resolvers'[Len(resolvers) + 1] = resolver /\ \A r \in 1..Len(resolvers) : resolvers'[r] = resolvers[r]
  BY <1>2
<1>4. FilesTypes'
  BY <1>1, <1>3 DEF FilesInv, FilesTypes, ResolverType
<1>5. FileIsRead'
  BY <1>2, <1>3, InputsTyped DEF FileIsRead, Early, Middle, Options
<1>6. ResolversObtained'
  <2>1. DOMAIN resolvers' = 1..(Len(resolvers) + 1) /\ DOMAIN resolvers = 1..Len(resolvers)
    BY <1>2, <1>3
  <2>2. ASSUME NEW r \in 1..(Len(resolvers) + 1)
        PROVE  /\ resolvers'[r].nameservers # <<>>
               /\ inputs.resolvers[r] = SystemDefault => Readable(file) /\ OfFile(file, resolvers'[r])
    <3>1. CASE r = Len(resolvers) + 1
      BY <1>3, <3>1
    <3>2. CASE r # Len(resolvers) + 1
      <4>1. r \in DOMAIN resolvers /\ resolvers'[r] = resolvers[r]
        BY <1>3, <2>1, <3>2
      <4> QED
        BY <4>1 DEF FilesInv, ResolversObtained
    <3> QED
      BY <3>1, <3>2
  <2>3. result' \notin {"IO", "NoNameserver"}
    BY <1>2
  <2> QED
    BY <1>1, <2>1, <2>2, <2>3 DEF ResolversObtained
<1>7. Warned'
  BY <1>1, WarnedStays DEF FilesInv, HostsWereRead
<1> QED
  BY <1>4, <1>5, <1>6, <1>7 DEF FilesInv

LEMMA SpecificFiles == ArgumentsInv /\ FilesInv /\ ObtainSpecific => FilesInv'
<1> SUFFICES ASSUME ArgumentsInv, FilesInv, ObtainSpecific PROVE FilesInv'
  OBVIOUS
<1> DEFINE wanted == inputs.resolvers[Len(resolvers) + 1]
           resolver == [nameservers |-> <<wanted.nameserver>>, search_list |-> <<>>]
<1>1. /\ pc = "obtain" /\ pc' = "obtain" /\ inputs' = inputs /\ result' = result /\ UNCHANGED <<hints, system>>
      /\ Len(resolvers) < Len(inputs.resolvers) /\ wanted.kind = "specific"
      /\ resolvers' = Append(resolvers, resolver)
  BY DEF ObtainSpecific, NextResolver, arguments
<1>2. wanted \in ResolverTypes
  <2>1. Len(resolvers) \in Nat
    BY DEF FilesInv, FilesTypes
  <2> QED
    BY <1>1, <2>1, InputsTyped
<1>3. wanted.nameserver \in STRING /\ wanted # SystemDefault
  BY <1>1, <1>2 DEF ResolverTypes, SystemDefault
<1> HIDE DEF wanted
<1>4. resolver \in ResolverType /\ resolver.nameservers # <<>>
  BY <1>3 DEF ResolverType
<1> HIDE DEF resolver
<1> QED
  BY <1>1, <1>3, <1>4, ResolverMore DEF wanted

LEMMA OpenFiles == ArgumentsInv /\ FilesInv /\ OpenFile => FilesInv'
<1> SUFFICES ASSUME ArgumentsInv, FilesInv, OpenFile PROVE FilesInv'
  OBVIOUS
<1>1. /\ pc = "obtain" /\ inputs' = inputs /\ hosts' = hosts /\ warned' = warned /\ resolvers' = resolvers
      /\ Len(resolvers) < Len(inputs.resolvers) /\ inputs.resolvers[Len(resolvers) + 1].kind = "system"
      /\ file' \in Files /\ nameservers' = <<>> /\ search_list' = <<>> /\ read' = 0
      /\ \/ file' = NoFile /\ pc' = "done" /\ result' = "IO"
         \/ file' # NoFile /\ pc' = "read" /\ result' = result
  BY DEF OpenFile, NextResolver, Return, hints
<1>2. Len(resolvers) \in Nat /\ resolvers \in Seq(ResolverType) /\ result = "Pending"
  BY <1>1 DEF FilesInv, FilesTypes, ResolverType, ArgumentsInv, ArgumentTypes
<1>3. inputs.resolvers = <<SystemDefault>> /\ resolvers = <<>>
  <2>1. Len(resolvers) + 1 \in DOMAIN inputs.resolvers
    BY <1>1, <1>2, InputsTyped
  <2>2. ~AllSpecific
    BY <1>1, <2>1 DEF AllSpecific
  <2>3. inputs.resolvers = <<SystemDefault>>
    BY <1>1, <2>2 DEF ArgumentsInv, InputsAreChecked, AreRead
  <2>4. Len(resolvers) = 0
    BY <1>1, <1>2, <2>3
  <2> QED
    BY <1>2, <2>3, <2>4
<1>4. file' \in {NoFile} \cup Seq(FileLines)
  BY <1>1, FilesAssumption
<1>5. FilesTypes'
  BY <1>1, <1>4 DEF FilesInv, FilesTypes
<1>6. ASSUME pc' = "read"
      PROVE  /\ file' \in Seq(FileLines) /\ file' # NoFile /\ 0 <= Len(file')
             /\ NoneUnreadable(file', 0) /\ NameserversFound(file', 0, <<>>) /\ SearchListFound(file', 0, <<>>)
  <2>1. file' \in Seq(FileLines) /\ file' # NoFile
    BY <1>1, <1>4, <1>6
  <2>2. NameserversFound(file', 0, <<>>)
    BY AmongNext DEF NameserversFound, Usables
  <2> QED
    BY <2>1, <2>2 DEF NoneUnreadable, SearchListFound
<1>7. FileIsRead'
  BY <1>1, <1>2, <1>3, <1>6, InputsTyped DEF FileIsRead
<1>8. result' = "IO" => ~Readable(file')
  BY <1>1, <1>2 DEF Readable
<1>9. ResolversObtained'
  BY <1>1, <1>2, <1>3, <1>8 DEF ResolversObtained
<1>10. Warned'
  BY <1>1, WarnedStays DEF FilesInv, HostsWereRead
<1> QED
  BY <1>5, <1>7, <1>9, <1>10 DEF FilesInv

\* A line that can be read.
LEMMA LineFiles ==
    ASSUME ArgumentsInv, FilesInv, pc = "read", pc' = "read", result' = result, inputs' = inputs,
           hosts' = hosts, warned' = warned, resolvers' = resolvers, file' = file,
           read < Len(file), file[read + 1].kind # "unreadable", read' = read + 1,
           nameservers' = IF UsableLine(file[read + 1]) THEN Append(nameservers, file[read + 1].nameserver)
                          ELSE nameservers,
           search_list' = IF file[read + 1].kind = "search" THEN file[read + 1].names ELSE search_list
    PROVE  FilesInv'
<1>1. /\ file \in Seq(FileLines) /\ file # NoFile /\ read \in Nat /\ Len(file) \in Nat
      /\ nameservers \in Seq(STRING) /\ search_list \in Seq(Seq(Parts))
      /\ inputs.resolvers = <<SystemDefault>> /\ resolvers = <<>> /\ NoneUnreadable(file, read)
      /\ NameserversFound(file, read, nameservers) /\ SearchListFound(file, read, search_list)
  BY DEF FilesInv, FilesTypes, FileIsRead
<1>2. file[read + 1] \in FileLines /\ read + 1 \in Nat /\ read + 1 <= Len(file)
  BY <1>1
<1>3. UsableLine(file[read + 1]) => file[read + 1].nameserver \in STRING
  BY <1>2, LineTypes DEF UsableLine
<1>4. file[read + 1].kind = "search" => file[read + 1].names \in Seq(Seq(Parts))
  BY <1>2, LineTypes
<1>5. nameservers' \in Seq(STRING) /\ search_list' \in Seq(Seq(Parts))
  <2>1. nameservers' \in Seq(STRING)
    <3> DEFINE found == file[read + 1].nameserver
    <3>1. UsableLine(file[read + 1]) => found \in STRING /\ nameservers' = Append(nameservers, found)
      BY <1>3
    <3>2. ~UsableLine(file[read + 1]) => nameservers' = nameservers
      OBVIOUS
    <3> HIDE DEF found
    <3>3. CASE UsableLine(file[read + 1])
      <4>1. Append(nameservers, found) \in Seq(STRING)
        BY <1>1, <3>1, <3>3, AppendProperties
      <4> QED
        BY <3>1, <3>3, <4>1, Zenon
    <3> QED
      BY <1>1, <3>2, <3>3, Zenon
  <2>2. search_list' \in Seq(Seq(Parts))
    BY <1>1, <1>4
  <2> QED
    BY <2>1, <2>2
<1>6. FilesTypes'
  BY <1>1, <1>2, <1>5 DEF FilesInv, FilesTypes
<1>7. NoneUnreadable(file, read + 1)
  BY <1>1, UnreadableMore
<1>8. NameserversFound(file, read + 1, nameservers')
  BY <1>1, NameserversMore
<1>9. SearchListFound(file, read + 1, search_list')
  BY <1>1, SearchListMore
<1>10. /\ NoneUnreadable(file', read') /\ NameserversFound(file', read', nameservers')
       /\ SearchListFound(file', read', search_list')
  BY <1>7, <1>8, <1>9
<1>11. FileIsRead'
  BY <1>1, <1>2, <1>10, InputsTyped DEF FilesInv, FileIsRead, AreRead
<1>12. ResolversObtained'
  BY <1>1 DEF FilesInv, ResolversObtained
<1>13. Warned'
  BY WarnedStays DEF FilesInv, HostsWereRead
<1> QED
  BY <1>6, <1>11, <1>12, <1>13 DEF FilesInv

LEMMA LinesFiles ==
    ArgumentsInv /\ FilesInv /\ (FindNameserver \/ FindSearchList \/ PassOver) => FilesInv'
<1> SUFFICES ASSUME ArgumentsInv, FilesInv, FindNameserver \/ FindSearchList \/ PassOver PROVE FilesInv'
  OBVIOUS
<1>1. /\ pc = "read" /\ pc' = "read" /\ result' = result /\ inputs' = inputs
      /\ hosts' = hosts /\ warned' = warned /\ resolvers' = resolvers /\ file' = file
      /\ read < Len(file) /\ read' = read + 1
  BY DEF FindNameserver, FindSearchList, PassOver, NextLine, arguments, hints
<1>2. file[read + 1].kind # "unreadable"
  BY DEF FindNameserver, FindSearchList, PassOver, NextLine
<1>3. nameservers' = IF UsableLine(file[read + 1]) THEN Append(nameservers, file[read + 1].nameserver)
                     ELSE nameservers
  BY DEF FindNameserver, FindSearchList, PassOver, NextLine, UsableLine
<1>4. search_list' = IF file[read + 1].kind = "search" THEN file[read + 1].names ELSE search_list
  BY DEF FindNameserver, FindSearchList, PassOver, NextLine
<1> QED
  BY <1>1, <1>2, <1>3, <1>4, LineFiles

\* A line that cannot be read.
LEMMA ReadFailsFiles == ArgumentsInv /\ FilesInv /\ ReadFails => FilesInv'
<1> SUFFICES ASSUME ArgumentsInv, FilesInv, ReadFails PROVE FilesInv'
  OBVIOUS
<1>1. /\ pc = "read" /\ pc' = "done" /\ result' = "IO" /\ inputs' = inputs
      /\ hosts' = hosts /\ warned' = warned /\ resolvers' = resolvers /\ file' = file
      /\ read' = read /\ nameservers' = nameservers /\ search_list' = search_list
      /\ read < Len(file) /\ file[read + 1].kind = "unreadable"
  BY DEF ReadFails, NextLine, Return, hints, system
<1>2. file \in Seq(FileLines) /\ read \in Nat /\ Len(file) \in Nat /\ resolvers = <<>>
  BY <1>1 DEF FilesInv, FilesTypes, FileIsRead
<1>3. FilesTypes'
  BY <1>1 DEF FilesInv, FilesTypes
<1>4. FileIsRead'
  BY <1>1, <1>2, InputsTyped DEF FileIsRead, AreRead, Early, Middle, Options
<1>5. ~Readable(file)
  <2>1. read + 1 \in DOMAIN file
    BY <1>1, <1>2
  <2> QED
    BY <1>1, <2>1 DEF Readable
<1>6. ResolversObtained'
  BY <1>1, <1>2, <1>5 DEF ResolversObtained
<1>7. Warned'
  BY <1>1, WarnedStays DEF FilesInv, HostsWereRead
<1> QED
  BY <1>3, <1>4, <1>6, <1>7 DEF FilesInv

LEMMA EndFiles == ArgumentsInv /\ FilesInv /\ EndOfFile => FilesInv'
<1> SUFFICES ASSUME ArgumentsInv, FilesInv, EndOfFile PROVE FilesInv'
  OBVIOUS
<1>1. /\ pc = "read" /\ inputs' = inputs /\ UNCHANGED <<hints, system>> /\ read = Len(file)
  BY DEF EndOfFile
<1>2. /\ file \in Seq(FileLines) /\ file # NoFile /\ Len(file) \in Nat /\ result = "Pending"
      /\ nameservers \in Seq(STRING) /\ search_list \in Seq(Seq(Parts))
      /\ inputs.resolvers = <<SystemDefault>> /\ resolvers = <<>> /\ NoneUnreadable(file, Len(file))
      /\ NameserversFound(file, Len(file), nameservers) /\ SearchListFound(file, Len(file), search_list)
  BY <1>1 DEF FilesInv, FilesTypes, FileIsRead, ArgumentsInv, ArgumentTypes
<1>3. Readable(file)
  BY <1>2 DEF Readable, NoneUnreadable
<1>4. CASE nameservers = <<>> /\ Return("NoNameserver") /\ UNCHANGED resolvers
  <2>1. /\ hosts' = hosts /\ warned' = warned /\ resolvers' = resolvers /\ file' = file /\ read' = read
        /\ nameservers' = nameservers /\ search_list' = search_list /\ pc' = "done" /\ result' = "NoNameserver"
    BY <1>1, <1>4 DEF hints, system, Return
  <2>2. UsablesIn(file, Len(file)) = 0
    BY <1>2, <1>4, UsablesAre DEF NameserversFound, UsablesIn
  <2>3. FilesTypes'
    BY <2>1 DEF FilesInv, FilesTypes
  <2>4. FileIsRead'
    BY <1>1, <1>2, <2>1, InputsTyped DEF FileIsRead, AreRead, Early, Middle, Options
  <2>5. ResolversObtained'
    BY <1>2, <1>3, <2>1, <2>2 DEF ResolversObtained
  <2>6. Warned'
    BY <1>1, <2>1, WarnedStays DEF FilesInv, HostsWereRead
  <2> QED
    BY <2>3, <2>4, <2>5, <2>6 DEF FilesInv
<1>5. CASE nameservers # <<>> /\ ~(Return("NoNameserver") /\ UNCHANGED resolvers)
  <2> DEFINE used == SubSeq(nameservers, 1,
                         IF Len(nameservers) < MAX_NAMESERVERS THEN Len(nameservers) ELSE MAX_NAMESERVERS)
             resolver == [nameservers |-> used, search_list |-> search_list]
  <2>1. pc' = "obtain" /\ result' = result /\ resolvers' = Append(resolvers, resolver)
    BY <1>5 DEF EndOfFile
  <2>2. used \in Seq(STRING) /\ used # <<>>
    <3> DEFINE last == IF Len(nameservers) < MAX_NAMESERVERS THEN Len(nameservers) ELSE MAX_NAMESERVERS
    <3>1. last \in 1..Len(nameservers) /\ Len(nameservers) \in Nat
      BY <1>2, <1>5, NameserversAssumption
    <3>2. \A k \in 1..last : nameservers[k] \in STRING
      BY <1>2, <3>1
    <3> HIDE DEF last
    <3>3. SubSeq(nameservers, 1, last) \in Seq(STRING) /\ Len(SubSeq(nameservers, 1, last)) = last
      BY <3>1, <3>2, SubSeqProperties
    <3>4. SubSeq(nameservers, 1, last) # <<>>
      BY <3>1, <3>3
    <3> QED
      BY <3>3, <3>4 DEF last
  <2>3. OfFile(file, resolver)
    BY <1>2, FoundIsOfTheFile
  <2> HIDE DEF used
  <2>4. resolver \in ResolverType /\ resolver.nameservers # <<>>
    BY <1>2, <2>2 DEF ResolverType
  <2> HIDE DEF resolver
  <2>5. Len(resolvers) < Len(inputs.resolvers)
    BY <1>2
  <2> QED
    BY <1>1, <1>3, <2>1, <2>3, <2>4, <2>5, ResolverMore
<1> QED
  BY <1>4, <1>5 DEF EndOfFile

\* What comes later leaves the files and resolvers alone.
LEMMA FilesStay ==
    ASSUME ArgumentsInv, FilesInv, inputs' = inputs, hosts' = hosts, warned' = warned, resolvers' = resolvers,
           file' = file, read' = read, nameservers' = nameservers, search_list' = search_list,
           \/ pc' = pc /\ result' = result
           \/ /\ pc = "obtain" /\ pc' = "generate" /\ result' = result
              /\ Len(resolvers) = Len(inputs.resolvers)
           \/ pc = "generate" /\ pc' = "done" /\ result' = "Ok"
    PROVE  FilesInv'
<1>1. FilesTypes'
  BY DEF FilesInv, FilesTypes
<1>2. AreRead' => AreRead
  BY DEF AreRead
<1>3. FileIsRead'
  BY <1>2 DEF FilesInv, FileIsRead, Early, Middle, Options
<1>4. ResolversObtained'
  BY DEF FilesInv, ResolversObtained
<1>5. Warned'
  BY WarnedStays DEF FilesInv, HostsWereRead
<1> QED
  BY <1>1, <1>3, <1>4, <1>5 DEF FilesInv

LEMMA FilesNext == ArgumentsInv /\ ArgumentsInv' /\ FilesInv /\ [Next]_vars => FilesInv'
<1> SUFFICES ASSUME ArgumentsInv, ArgumentsInv', FilesInv, [Next]_vars PROVE FilesInv'
  OBVIOUS
<1>1. CASE StartGenerating
  <2>1. /\ inputs' = inputs /\ hosts' = hosts /\ warned' = warned /\ resolvers' = resolvers
        /\ file' = file /\ read' = read /\ nameservers' = nameservers /\ search_list' = search_list
        /\ pc = "obtain" /\ pc' = "generate" /\ result' = result /\ Len(resolvers) = Len(inputs.resolvers)
    BY <1>1 DEF StartGenerating, arguments, system, hints
  <2> QED
    BY <2>1, FilesStay
<1>2. CASE MakeSet
  <2>1. /\ inputs' = inputs /\ hosts' = hosts /\ warned' = warned /\ resolvers' = resolvers
        /\ file' = file /\ read' = read /\ nameservers' = nameservers /\ search_list' = search_list
        /\ \/ pc' = pc /\ result' = result
           \/ pc = "generate" /\ pc' = "done" /\ result' = "Ok"
    BY <1>2 DEF MakeSet, Return, system, hints
  <2> QED
    BY <2>1, FilesStay
<1>3. CASE UNCHANGED vars
  <2>1. /\ inputs' = inputs /\ hosts' = hosts /\ warned' = warned /\ resolvers' = resolvers
        /\ file' = file /\ read' = read /\ nameservers' = nameservers /\ search_list' = search_list
        /\ pc' = pc /\ result' = result
    BY <1>3 DEF vars, arguments, system, hints
  <2> QED
    BY <2>1, FilesStay
<1> QED
  BY <1>1, <1>2, <1>3, ReadArgumentFiles, WarnFiles, SpecificFiles, OpenFiles, LinesFiles, ReadFailsFiles, EndFiles
     DEF Next, Step, Done

LEMMA FilesInit == Init => FilesInv
<1> SUFFICES ASSUME Init PROVE FilesInv
  OBVIOUS
<1>1. /\ pc = "split" /\ result = "Pending" /\ file = <<>> /\ hosts = <<>> /\ read = 0 /\ nameservers = <<>>
      /\ search_list = <<>> /\ resolvers = <<>>
  BY DEF Init, GivenSomething
<1>2. FilesTypes
  BY <1>1 DEF FilesTypes
<1>3. FileIsRead /\ ResolversObtained /\ Warned
  BY <1>1 DEF FileIsRead, ResolversObtained, Warned, HostsWereRead, AreRead
<1> QED
  BY <1>2, <1>3 DEF FilesInv

LEMMA FilesAlways == Spec => []FilesInv
BY ArgumentsInit, ArgumentsNext, ArgumentsAlways, FilesInit, FilesNext, PTL DEF Spec

\* The resolver of the system is what all of resolv.conf says, it is refused
\* only when the file is, and a domain is warned of exactly when the hosts file
\* has it, for all files (parse_resolv_conf and warn_about_local_hosts).
THEOREM FilesAreFollowed == Spec => []SystemFilesAreFollowed
<1>1. FilesInv => SystemFilesAreFollowed
  BY OfTheFileIs DEF FilesInv, ResolversObtained, Warned, SystemFilesAreFollowed
<1> QED
  BY <1>1, FilesAlways, PTL

-----------------------------------------------------------------------------
(* Counting the combinations.  One digit more: x combinations before this  *)
(* one of the inputs so far, and the a-th of l inputs.                     *)

Counted(x, l, a) == x * l + a - 1

LEMMA CountedProperties ==
    ASSUME NEW x \in Nat, NEW l \in Nat, NEW a \in 1..l
    PROVE  /\ Counted(x, l, a) \in Nat
           /\ Counted(x, l, l) + 1 = (x + 1) * l
           /\ Counted(x, l, a + 1) = Counted(x, l, a) + 1
           /\ Counted(x + 1, l, 1) = Counted(x, l, l) + 1
<1>1. x * l \in Nat /\ (x + 1) * l = x * l + l
  OBVIOUS
<1> DEFINE product == x * l
           above == (x + 1) * l
<1>2. product \in Nat /\ above = product + l
  BY <1>1
<1>3. /\ Counted(x, l, a) = product + a - 1 /\ Counted(x, l, l) = product + l - 1
      /\ Counted(x, l, a + 1) = product + (a + 1) - 1 /\ Counted(x + 1, l, 1) = above + 1 - 1
  BY DEF Counted
<1> HIDE DEF product, above
<1>4. /\ Counted(x, l, a) \in Nat /\ Counted(x, l, l) + 1 = above
      /\ Counted(x, l, a + 1) = Counted(x, l, a) + 1
      /\ Counted(x + 1, l, 1) = Counted(x, l, l) + 1
  BY <1>2, <1>3
<1> QED
  BY <1>4 DEF above

LEMMA LessOrMore ==
    ASSUME NEW x \in Nat, NEW y \in Nat, x < y, NEW l \in Nat, NEW a \in 1..l, NEW b \in 1..l
    PROVE  Counted(x, l, a) < Counted(y, l, b)
<1> DEFINE more == y - (x + 1)
<1>1. more \in Nat /\ y = x + 1 + more
  OBVIOUS
<1>2. y * l = x * l + l + more * l
  BY <1>1
<1>3. x * l \in Nat /\ more * l \in Nat
  BY <1>1
<1> DEFINE product == x * l
           rest == more * l
<1>4. Counted(x, l, a) = product + a - 1 /\ Counted(y, l, b) = product + l + rest + b - 1
  BY <1>2 DEF Counted
<1>5. product \in Nat /\ rest \in Nat
  BY <1>3
<1> HIDE DEF product, rest
<1> QED
  BY <1>4, <1>5

LEMMA CountedOnce ==
    ASSUME NEW x \in Nat, NEW y \in Nat, NEW l \in Nat, NEW a \in 1..l, NEW b \in 1..l,
           Counted(x, l, a) = Counted(y, l, b)
    PROVE  x = y /\ a = b
<1>1. Counted(x, l, a) \in Nat /\ Counted(y, l, b) \in Nat
  BY CountedProperties
<1>2. ~(x < y) /\ ~(y < x)
  BY <1>1, LessOrMore
<1>3. x = y
  BY <1>2
<1>4. x * l \in Nat
  OBVIOUS
<1> QED
  BY <1>3, <1>4 DEF Counted

\* The number of a combination of as many inputs as there are of each kind.
NumberOf(lengths, at) ==
    Counted(Counted(Counted(Counted(at[1] - 1, lengths[2], at[2]), lengths[3], at[3]), lengths[4], at[4]),
            lengths[5], at[5])

Combination(lengths, at) == \A loop \in Loops : at[loop] \in 1..lengths[loop]

LEMMA NumberIs == \A at : Number(at) = NumberOf(Lengths, at)
BY DEF Number, NumberOf, Counted

LEMMA NumberType ==
    ASSUME NEW lengths \in [Loops -> Nat], NEW at, Combination(lengths, at)
    PROVE  /\ at[1] - 1 \in Nat
           /\ Counted(at[1] - 1, lengths[2], at[2]) \in Nat
           /\ Counted(Counted(at[1] - 1, lengths[2], at[2]), lengths[3], at[3]) \in Nat
           /\ Counted(Counted(Counted(at[1] - 1, lengths[2], at[2]), lengths[3], at[3]), lengths[4], at[4]) \in Nat
           /\ NumberOf(lengths, at) \in Nat
<1>1. /\ at[1] \in 1..lengths[1] /\ at[2] \in 1..lengths[2] /\ at[3] \in 1..lengths[3]
      /\ at[4] \in 1..lengths[4] /\ at[5] \in 1..lengths[5]
      /\ lengths[1] \in Nat /\ lengths[2] \in Nat /\ lengths[3] \in Nat /\ lengths[4] \in Nat /\ lengths[5] \in Nat
  BY DEF Combination, Loops
<1> DEFINE x1 == at[1] - 1
           x2 == Counted(x1, lengths[2], at[2])
           x3 == Counted(x2, lengths[3], at[3])
           x4 == Counted(x3, lengths[4], at[4])
<1>2. x1 \in Nat
  BY <1>1
<1> HIDE DEF x1
<1>3. x2 \in Nat
  BY <1>1, <1>2, CountedProperties
<1> HIDE DEF x2
<1>4. x3 \in Nat
  BY <1>1, <1>3, CountedProperties
<1> HIDE DEF x3
<1>5. x4 \in Nat
  BY <1>1, <1>4, CountedProperties
<1> HIDE DEF x4
<1>6. Counted(x4, lengths[5], at[5]) \in Nat
  BY <1>1, <1>5, CountedProperties
<1> QED
  BY <1>2, <1>3, <1>4, <1>5, <1>6, Zenon DEF x1, x2, x3, x4, NumberOf

\* No two combinations have the same number: the last inputs are the same, and
\* so are the numbers of those before them.
LEMMA NumberedOnce ==
    ASSUME NEW lengths \in [Loops -> Nat], NEW at, Combination(lengths, at),
           NEW other, Combination(lengths, other), NumberOf(lengths, at) = NumberOf(lengths, other)
    PROVE  \A loop \in Loops : at[loop] = other[loop]
<1> DEFINE x1 == at[1] - 1
           x2 == Counted(x1, lengths[2], at[2])
           x3 == Counted(x2, lengths[3], at[3])
           x4 == Counted(x3, lengths[4], at[4])
           y1 == other[1] - 1
           y2 == Counted(y1, lengths[2], other[2])
           y3 == Counted(y2, lengths[3], other[3])
           y4 == Counted(y3, lengths[4], other[4])
<1>1. /\ at[1] \in 1..lengths[1] /\ at[2] \in 1..lengths[2] /\ at[3] \in 1..lengths[3]
      /\ at[4] \in 1..lengths[4] /\ at[5] \in 1..lengths[5]
      /\ other[1] \in 1..lengths[1] /\ other[2] \in 1..lengths[2] /\ other[3] \in 1..lengths[3]
      /\ other[4] \in 1..lengths[4] /\ other[5] \in 1..lengths[5]
      /\ lengths[1] \in Nat /\ lengths[2] \in Nat /\ lengths[3] \in Nat /\ lengths[4] \in Nat /\ lengths[5] \in Nat
  BY DEF Combination, Loops
<1>2. x1 \in Nat /\ x2 \in Nat /\ x3 \in Nat /\ x4 \in Nat
  BY NumberType
<1>3. y1 \in Nat /\ y2 \in Nat /\ y3 \in Nat /\ y4 \in Nat
  BY NumberType
<1>4. Counted(x4, lengths[5], at[5]) = Counted(y4, lengths[5], other[5])
  BY DEF NumberOf
<1> HIDE DEF x4, y4
<1>5. x4 = y4 /\ at[5] = other[5]
  <2> DEFINE l == lengths[5]
             a == at[5]
             b == other[5]
  <2>1. /\ x4 \in Nat /\ y4 \in Nat /\ l \in Nat /\ a \in 1..l /\ b \in 1..l
        /\ Counted(x4, l, a) = Counted(y4, l, b)
    BY <1>1, <1>2, <1>3, <1>4
  <2> HIDE DEF l, a, b
  <2>2. x4 = y4 /\ a = b
    BY <2>1, CountedOnce
  <2> QED
    BY <2>2 DEF a, b
<1>6. Counted(x3, lengths[4], at[4]) = Counted(y3, lengths[4], other[4])
  BY <1>5 DEF x4, y4
<1> HIDE DEF x3, y3
<1>7. x3 = y3 /\ at[4] = other[4]
  <2> DEFINE l == lengths[4]
             a == at[4]
             b == other[4]
  <2>1. /\ x3 \in Nat /\ y3 \in Nat /\ l \in Nat /\ a \in 1..l /\ b \in 1..l
        /\ Counted(x3, l, a) = Counted(y3, l, b)
    BY <1>1, <1>2, <1>3, <1>6
  <2> HIDE DEF l, a, b
  <2>2. x3 = y3 /\ a = b
    BY <2>1, CountedOnce
  <2> QED
    BY <2>2 DEF a, b
<1>8. Counted(x2, lengths[3], at[3]) = Counted(y2, lengths[3], other[3])
  BY <1>7 DEF x3, y3
<1> HIDE DEF x2, y2
<1>9. x2 = y2 /\ at[3] = other[3]
  <2> DEFINE l == lengths[3]
             a == at[3]
             b == other[3]
  <2>1. /\ x2 \in Nat /\ y2 \in Nat /\ l \in Nat /\ a \in 1..l /\ b \in 1..l
        /\ Counted(x2, l, a) = Counted(y2, l, b)
    BY <1>1, <1>2, <1>3, <1>8
  <2> HIDE DEF l, a, b
  <2>2. x2 = y2 /\ a = b
    BY <2>1, CountedOnce
  <2> QED
    BY <2>2 DEF a, b
<1>10. Counted(x1, lengths[2], at[2]) = Counted(y1, lengths[2], other[2])
  BY <1>9 DEF x2, y2
<1>11. x1 = y1 /\ at[2] = other[2]
  <2> DEFINE l == lengths[2]
             a == at[2]
             b == other[2]
  <2>1. /\ x1 \in Nat /\ y1 \in Nat /\ l \in Nat /\ a \in 1..l /\ b \in 1..l
        /\ Counted(x1, l, a) = Counted(y1, l, b)
    BY <1>1, <1>2, <1>3, <1>10
  <2> HIDE DEF l, a, b, x1, y1
  <2>2. x1 = y1 /\ a = b
    BY <2>1, CountedOnce
  <2> QED
    BY <2>2 DEF a, b
<1>12. at[1] = other[1]
  BY <1>1, <1>11
<1> QED
  BY <1>5, <1>7, <1>9, <1>11, <1>12 DEF Loops

\* The next combination has the next number.  It is the same up to the k-th
\* input, and begins anew after that.
LEMMA NumberNext ==
    ASSUME NEW lengths \in [Loops -> Nat], NEW at, Combination(lengths, at),
           NEW k \in Loops, at[k] < lengths[k], \A loop \in Loops : loop > k => at[loop] = lengths[loop],
           NEW next, \A loop \in Loops : next[loop] = IF loop < k THEN at[loop] ELSE IF loop = k THEN at[loop] + 1 ELSE 1
    PROVE  NumberOf(lengths, next) = NumberOf(lengths, at) + 1 /\ Combination(lengths, next)
<1> DEFINE x1 == at[1] - 1
           x2 == Counted(x1, lengths[2], at[2])
           x3 == Counted(x2, lengths[3], at[3])
           x4 == Counted(x3, lengths[4], at[4])
           x5 == Counted(x4, lengths[5], at[5])
           y1 == next[1] - 1
           y2 == Counted(y1, lengths[2], next[2])
           y3 == Counted(y2, lengths[3], next[3])
           y4 == Counted(y3, lengths[4], next[4])
           y5 == Counted(y4, lengths[5], next[5])
<1>1. x1 \in Nat /\ x2 \in Nat /\ x3 \in Nat /\ x4 \in Nat
  BY NumberType
<1>2. ASSUME NEW loop \in Loops
      PROVE  /\ at[loop] \in 1..lengths[loop] /\ lengths[loop] \in Nat /\ k \in Nat
             /\ k < loop => next[loop] = 1 /\ at[loop] = lengths[loop]
             /\ k = loop => next[loop] = at[loop] + 1 /\ at[loop] < lengths[loop]
             /\ k > loop => next[loop] = at[loop]
  BY DEF Combination, Loops
<1>3. Combination(lengths, next)
  <2> SUFFICES ASSUME NEW loop \in Loops PROVE next[loop] \in 1..lengths[loop]
    BY DEF Combination
  <2> DEFINE l == lengths[loop]
             a == at[loop]
             b == next[loop]
  <2>1. /\ a \in 1..l /\ l \in Nat
        /\ k < loop => b = 1
        /\ k = loop => b = a + 1 /\ a < l
        /\ k > loop => b = a
    BY <1>2
  <2>2. loop \in Nat /\ k \in Nat
    BY DEF Loops
  <2> HIDE DEF l, a, b
  <2>3. b \in 1..l
    BY <2>1, <2>2
  <2> QED
    BY <2>3 DEF b, l
<1>4. (k <= 1 => y1 = x1 + 1) /\ (k > 1 => y1 = x1)
  <2>1. k >= 1
    BY DEF Loops
  <2> DEFINE a == at[1]
             b == next[1]
  <2>2. a \in Nat /\ (k = 1 => b = a + 1) /\ (k > 1 => b = a) /\ x1 = a - 1 /\ y1 = b - 1
    BY <1>2 DEF Loops
  <2> HIDE DEF a, b, x1, y1
  <2> QED
    BY <2>1, <2>2, <1>2
<1> HIDE DEF x1, y1
<1>5. (k <= 2 => y2 = x2 + 1) /\ (k > 2 => y2 = x2)
  <2> DEFINE l == lengths[2]
             a == at[2]
             b == next[2]
  <2>1. /\ a \in 1..l /\ l \in Nat /\ k \in Nat /\ k >= 1
        /\ k < 2 => b = 1 /\ a = l
        /\ k = 2 => b = a + 1
        /\ k > 2 => b = a
    BY <1>2 DEF Loops
  <2>2. x2 = Counted(x1, l, a) /\ y2 = Counted(y1, l, b)
    OBVIOUS
  <2> HIDE DEF l, a, b, x2, y2
  <2>3. (k < 2 => y1 = x1 + 1) /\ (k = 2 => y1 = x1) /\ (k > 2 => y1 = x1)
    BY <1>4, <2>1
  <2>4. /\ k <= 2 => Counted(y1, l, b) = Counted(x1, l, a) + 1
        /\ k > 2 => Counted(y1, l, b) = Counted(x1, l, a)
    <3>1. CASE k < 2
      BY <1>1, <2>1, <2>3, <3>1, CountedProperties
    <3>2. CASE k = 2
      BY <1>1, <2>1, <2>3, <3>2, CountedProperties
    <3>3. CASE k > 2
      BY <2>1, <2>3, <3>3
    <3> QED
      BY <2>1, <3>1, <3>2, <3>3
  <2> QED
    BY <2>2, <2>4
<1> HIDE DEF x2, y2
<1>6. (k <= 3 => y3 = x3 + 1) /\ (k > 3 => y3 = x3)
  <2> DEFINE l == lengths[3]
             a == at[3]
             b == next[3]
  <2>1. /\ a \in 1..l /\ l \in Nat /\ k \in Nat /\ k >= 1
        /\ k < 3 => b = 1 /\ a = l
        /\ k = 3 => b = a + 1
        /\ k > 3 => b = a
    BY <1>2 DEF Loops
  <2>2. x3 = Counted(x2, l, a) /\ y3 = Counted(y2, l, b)
    OBVIOUS
  <2> HIDE DEF l, a, b, x3, y3
  <2>3. (k < 3 => y2 = x2 + 1) /\ (k = 3 => y2 = x2) /\ (k > 3 => y2 = x2)
    BY <1>5, <2>1
  <2>4. /\ k <= 3 => Counted(y2, l, b) = Counted(x2, l, a) + 1
        /\ k > 3 => Counted(y2, l, b) = Counted(x2, l, a)
    <3>1. CASE k < 3
      BY <1>1, <2>1, <2>3, <3>1, CountedProperties
    <3>2. CASE k = 3
      BY <1>1, <2>1, <2>3, <3>2, CountedProperties
    <3>3. CASE k > 3
      BY <2>1, <2>3, <3>3
    <3> QED
      BY <2>1, <3>1, <3>2, <3>3
  <2> QED
    BY <2>2, <2>4
<1> HIDE DEF x3, y3
<1>7. (k <= 4 => y4 = x4 + 1) /\ (k > 4 => y4 = x4)
  <2> DEFINE l == lengths[4]
             a == at[4]
             b == next[4]
  <2>1. /\ a \in 1..l /\ l \in Nat /\ k \in Nat /\ k >= 1
        /\ k < 4 => b = 1 /\ a = l
        /\ k = 4 => b = a + 1
        /\ k > 4 => b = a
    BY <1>2 DEF Loops
  <2>2. x4 = Counted(x3, l, a) /\ y4 = Counted(y3, l, b)
    OBVIOUS
  <2> HIDE DEF l, a, b, x4, y4
  <2>3. (k < 4 => y3 = x3 + 1) /\ (k = 4 => y3 = x3) /\ (k > 4 => y3 = x3)
    BY <1>6, <2>1
  <2>4. /\ k <= 4 => Counted(y3, l, b) = Counted(x3, l, a) + 1
        /\ k > 4 => Counted(y3, l, b) = Counted(x3, l, a)
    <3>1. CASE k < 4
      BY <1>1, <2>1, <2>3, <3>1, CountedProperties
    <3>2. CASE k = 4
      BY <1>1, <2>1, <2>3, <3>2, CountedProperties
    <3>3. CASE k > 4
      BY <2>1, <2>3, <3>3
    <3> QED
      BY <2>1, <3>1, <3>2, <3>3
  <2> QED
    BY <2>2, <2>4
<1> HIDE DEF x4, y4
<1>8. (k <= 5 => y5 = x5 + 1) /\ (k > 5 => y5 = x5)
  <2> DEFINE l == lengths[5]
             a == at[5]
             b == next[5]
  <2>1. /\ a \in 1..l /\ l \in Nat /\ k \in Nat /\ k >= 1
        /\ k < 5 => b = 1 /\ a = l
        /\ k = 5 => b = a + 1
        /\ k > 5 => b = a
    BY <1>2 DEF Loops
  <2>2. x5 = Counted(x4, l, a) /\ y5 = Counted(y4, l, b)
    OBVIOUS
  <2> HIDE DEF l, a, b, x5, y5
  <2>3. (k < 5 => y4 = x4 + 1) /\ (k = 5 => y4 = x4) /\ (k > 5 => y4 = x4)
    BY <1>7, <2>1
  <2>4. /\ k <= 5 => Counted(y4, l, b) = Counted(x4, l, a) + 1
        /\ k > 5 => Counted(y4, l, b) = Counted(x4, l, a)
    <3>1. CASE k < 5
      BY <1>1, <2>1, <2>3, <3>1, CountedProperties
    <3>2. CASE k = 5
      BY <1>1, <2>1, <2>3, <3>2, CountedProperties
    <3>3. CASE k > 5
      BY <2>1, <2>3, <3>3
    <3> QED
      BY <2>1, <3>1, <3>2, <3>3
  <2> QED
    BY <2>2, <2>4
<1> HIDE DEF x5, y5
<1>9. k <= 5
  BY DEF Loops
<1>10. y5 = x5 + 1
  BY <1>8, <1>9
<1> QED
  BY <1>3, <1>10 DEF NumberOf, x1, x2, x3, x4, x5, y1, y2, y3, y4, y5

\* The last combination has the last number.
LEMMA NumberLast ==
    ASSUME NEW lengths \in [Loops -> Nat], Combination(lengths, lengths)
    PROVE  NumberOf(lengths, lengths) + 1 = lengths[1] * lengths[2] * lengths[3] * lengths[4] * lengths[5]
<1> DEFINE x1 == lengths[1] - 1
           x2 == Counted(x1, lengths[2], lengths[2])
           x3 == Counted(x2, lengths[3], lengths[3])
           x4 == Counted(x3, lengths[4], lengths[4])
           x5 == Counted(x4, lengths[5], lengths[5])
<1>1. x1 \in Nat /\ x2 \in Nat /\ x3 \in Nat /\ x4 \in Nat
  BY NumberType
<1>2. ASSUME NEW loop \in Loops PROVE lengths[loop] \in Nat /\ lengths[loop] \in 1..lengths[loop]
  BY DEF Combination
<1>3. x1 + 1 = lengths[1]
  BY <1>2 DEF Loops
<1> HIDE DEF x1
<1>4. x2 + 1 = (x1 + 1) * lengths[2]
  BY <1>1, <1>2, CountedProperties DEF Loops
<1> HIDE DEF x2
<1>5. x3 + 1 = (x2 + 1) * lengths[3]
  BY <1>1, <1>2, CountedProperties DEF Loops
<1> HIDE DEF x3
<1>6. x4 + 1 = (x3 + 1) * lengths[4]
  BY <1>1, <1>2, CountedProperties DEF Loops
<1> HIDE DEF x4
<1>7. x5 + 1 = (x4 + 1) * lengths[5]
  BY <1>1, <1>2, CountedProperties DEF Loops
<1> HIDE DEF x5
<1>8. x5 + 1 = lengths[1] * lengths[2] * lengths[3] * lengths[4] * lengths[5]
  BY <1>3, <1>4, <1>5, <1>6, <1>7, Zenon
<1> QED
  BY <1>8 DEF NumberOf, x1, x2, x3, x4, x5

-----------------------------------------------------------------------------
(* The sets.                                                               *)

\* Names with more behind them.
LEMMA Extended ==
    ASSUME NEW s \in Seq(Parts), NEW t \in Seq(Parts)
    PROVE  Extend(s, t) \in Seq(Parts) /\ IsPrefix(s, Extend(s, t))
<1>1. Len(s) \in Nat /\ Len(t) \in Nat /\ s \o t \in Seq(Parts) /\ Len(s \o t) = Len(s) + Len(t)
  OBVIOUS
<1>2. SubSeq(s, 1, Len(s)) = s
  BY SubSeqFull
<1>3. SubSeq(s \o t, 1, Len(s)) = s
  <2>1. CASE s = <<>>
    BY <1>1, <2>1, SubSeqEmpty
  <2>2. CASE s # <<>>
    <3>1. 1 \in 1..Len(s) /\ Len(s) \in 1..Len(s)
      BY <1>1, <2>2
    <3> QED
      BY <1>2, <3>1, SubSeqOfConcat1
  <2> QED
    BY <2>1, <2>2
<1> QED
  BY <1>1, <1>2, <1>3 DEF IsPrefix, Extend

LEMMA NotExtended == ASSUME NEW s \in Seq(Parts) PROVE IsPrefix(s, s)
BY DEF IsPrefix

\* The names that are asked for.
LEMMA NamesAsked ==
    ASSUME NEW resolver \in ResolverType, NEW domain \in Seq(Parts)
    PROVE  LET names == NameList(resolver, domain) IN
           /\ names \in Seq(Seq(Parts)) /\ names # <<>> /\ names[Len(names)] = domain
           /\ \A i \in DOMAIN names : IsPrefix(domain, names[i])
           /\ Len(domain) > 1 => Len(names) = 1
<1>1. CASE Len(domain) > 1
  <2>1. NameList(resolver, domain) = <<domain>>
    BY <1>1 DEF NameList
  <2>2. <<domain>> \in Seq(Seq(Parts)) /\ Len(<<domain>>) = 1 /\ \A i \in DOMAIN <<domain>> : <<domain>>[i] = domain
    OBVIOUS
  <2>3. \A i \in DOMAIN <<domain>> : IsPrefix(domain, <<domain>>[i])
    BY <2>2, NotExtended
  <2>4. <<domain>> # <<>> /\ <<domain>>[1] = domain
    OBVIOUS
  <2> QED
    BY <2>1, <2>2, <2>3, <2>4
<1>2. CASE ~(Len(domain) > 1)
  <2> DEFINE suffixes == Kept(resolver.search_list, {w \in Range(resolver.search_list) : IsName(w)})
             longer == [i \in DOMAIN suffixes |-> Extend(domain, Encode(suffixes[i]))]
  <2>1. suffixes \in Seq(Seq(Parts))
    BY KeptType, SeqWithin DEF ResolverType
  <2>2. NameList(resolver, domain) = Append(longer, domain)
    BY <1>2 DEF NameList
  <2> HIDE DEF suffixes
  <2>3. ASSUME NEW i \in DOMAIN suffixes PROVE longer[i] \in Seq(Parts) /\ IsPrefix(domain, longer[i])
    <3>1. suffixes[i] \in Seq(Parts)
      BY <2>1
    <3>2. Encode(suffixes[i]) \in Seq(Parts)
      BY <3>1, EncodeType
    <3> QED
      BY <3>2, Extended
  <2>4. DOMAIN suffixes = 1..Len(suffixes) /\ Len(suffixes) \in Nat
    BY <2>1
  <2>5. longer \in Seq(Seq(Parts)) /\ DOMAIN longer = DOMAIN suffixes
    BY <2>3, <2>4
  <2> HIDE DEF longer
  <2>6. /\ Append(longer, domain) \in Seq(Seq(Parts)) /\ Len(Append(longer, domain)) = Len(longer) + 1
        /\ Append(longer, domain)[Len(longer) + 1] = domain
        /\ \A i \in 1..Len(longer) : Append(longer, domain)[i] = longer[i]
        /\ Len(longer) \in Nat /\ DOMAIN longer = 1..Len(longer)
        /\ DOMAIN Append(longer, domain) = 1..(Len(longer) + 1)
    BY <2>5
  <2>7. Append(longer, domain) # <<>>
    BY <2>6
  <2>8. ASSUME NEW i \in 1..(Len(longer) + 1) PROVE IsPrefix(domain, Append(longer, domain)[i])
    <3>1. CASE i = Len(longer) + 1
      BY <2>6, <3>1, NotExtended
    <3>2. CASE i # Len(longer) + 1
      <4>1. i \in 1..Len(longer)
        BY <2>6, <3>2
      <4> QED
        BY <2>3, <2>5, <2>6, <4>1
    <3> QED
      BY <3>1, <3>2
  <2> QED
    BY <1>2, <2>2, <2>6, <2>7, <2>8
<1> QED
  BY <1>1, <1>2

RequestType == [qname : Seq(Parts), qtype : Texts, qclass : Texts]

SetType == [transport : Texts, servers : Seq(STRING), requests : Seq(RequestType)]

\* IsSetFor, for any inputs and resolvers.
SetOf(read_inputs, obtained, set, at) ==
    LET domain == read_inputs.domains[at[1]]
        names == [i \in DOMAIN set.requests |-> set.requests[i].qname] IN
    /\ set.transport = read_inputs.transports[at[5]]
    /\ set.servers = obtained[at[4]].nameservers /\ set.servers # <<>>
    /\ \A i \in DOMAIN set.requests :
          set.requests[i].qtype = read_inputs.types[at[2]] /\ set.requests[i].qclass = read_inputs.classes[at[3]]
    /\ names # <<>> /\ Last(names) = domain
    /\ \A i \in DOMAIN names : IsPrefix(domain, names[i])
    /\ Len(domain) > 1 => Len(names) = 1

LEMMA SetIs == \A set, at : IsSetFor(set, at) <=> SetOf(inputs, resolvers, set, at)
BY DEF IsSetFor, SetOf

LEMMA SetIsSame ==
    ASSUME NEW read_inputs, NEW obtained, NEW set, NEW at, NEW other, \A loop \in Loops : at[loop] = other[loop],
           SetOf(read_inputs, obtained, set, at)
    PROVE  SetOf(read_inputs, obtained, set, other)
<1>1. at[1] = other[1] /\ at[2] = other[2] /\ at[3] = other[3] /\ at[4] = other[4] /\ at[5] = other[5]
  BY DEF Loops
<1> QED
  BY <1>1, Zenon DEF SetOf

LEMMA LengthsTyped ==
    ASSUME ArgumentsInv, FilesInv
    PROVE  Lengths \in [Loops -> Nat]
<1>1. resolvers \in Seq(ResolverType)
  BY DEF FilesInv, FilesTypes, ResolverType
<1>2. Len(resolvers) \in Nat
  BY <1>1
<1> QED
  BY <1>2, InputsTyped DEF Lengths, Loops

\* A set that is made is as it should be.
LEMMA SetMade ==
    ASSUME ArgumentsInv, FilesInv, NEW at, Combination(Lengths, at)
    PROVE  SetAt(at) \in SetType /\ SetOf(inputs, resolvers, SetAt(at), at)
<1> DEFINE domain == inputs.domains[at[1]]
           type == inputs.types[at[2]]
           class == inputs.classes[at[3]]
           resolver == resolvers[at[4]]
           transport == inputs.transports[at[5]]
           names == NameList(resolver, domain)
           requests == RequestsFor(names, type, class)
<1>1. /\ at[1] \in 1..Len(inputs.domains) /\ at[2] \in 1..Len(inputs.types) /\ at[3] \in 1..Len(inputs.classes)
      /\ at[4] \in 1..Len(resolvers) /\ at[5] \in 1..Len(inputs.transports)
  BY DEF Combination, Lengths, Loops
<1>2. domain \in Seq(Parts) /\ type \in Texts /\ class \in Texts /\ transport \in Texts
  <2>1. /\ inputs.domains \in Seq(Seq(Parts)) /\ inputs.types \in Seq(Texts)
        /\ inputs.classes \in Seq(Texts) /\ inputs.transports \in Seq(Texts)
    BY InputsTyped
  <2>2. domain \in Seq(Parts)
    BY <1>1, <2>1, ElementOfSeq
  <2>3. type \in Texts
    BY <1>1, <2>1, ElementOfSeq
  <2>4. class \in Texts
    BY <1>1, <2>1, ElementOfSeq
  <2>5. transport \in Texts
    BY <1>1, <2>1, ElementOfSeq
  <2> QED
    BY <2>2, <2>3, <2>4, <2>5
<1>3. resolvers \in Seq(ResolverType)
  BY DEF FilesInv, FilesTypes, ResolverType
<1>4. resolver \in ResolverType /\ resolver.nameservers # <<>>
  BY <1>1, <1>3 DEF FilesInv, ResolversObtained
<1>5. SetAt(at) = [transport |-> transport, servers |-> resolver.nameservers, requests |-> requests]
  BY DEF SetAt
<1> HIDE DEF domain, type, class, transport, resolver
<1>6. /\ names \in Seq(Seq(Parts)) /\ names # <<>> /\ names[Len(names)] = domain
      /\ \A i \in DOMAIN names : IsPrefix(domain, names[i])
      /\ Len(domain) > 1 => Len(names) = 1
  BY <1>2, <1>4, NamesAsked
<1> HIDE DEF names
<1>7. requests = [i \in DOMAIN names |-> [qname |-> names[i], qtype |-> type, qclass |-> class]]
  BY DEF RequestsFor
<1>8. DOMAIN names = 1..Len(names) /\ Len(names) \in Nat /\ \A i \in DOMAIN names : names[i] \in Seq(Parts)
  BY <1>6
<1>9. ASSUME NEW i \in DOMAIN names
      PROVE  /\ requests[i] \in RequestType
             /\ requests[i].qname = names[i] /\ requests[i].qtype = type /\ requests[i].qclass = class
  BY <1>2, <1>7, <1>8 DEF RequestType
<1>10. DOMAIN requests = DOMAIN names
  BY <1>7
<1> HIDE DEF requests
<1>11. requests \in Seq(RequestType)
  <2>1. requests \in [1..Len(names) -> RequestType]
    <3>1. requests = [i \in 1..Len(names) |-> requests[i]]
      BY <1>7, <1>8
    <3> QED
      BY <1>8, <1>9, <3>1
  <2> QED
    BY <1>8, <2>1
<1>12. [i \in DOMAIN requests |-> requests[i].qname] = names
  <2>1. names = [i \in DOMAIN names |-> names[i]]
    BY <1>6
  <2> QED
    BY <1>9, <1>10, <2>1
<1> DEFINE set == [transport |-> transport, servers |-> resolver.nameservers, requests |-> requests]
<1>13. set \in SetType
  BY <1>2, <1>4, <1>11 DEF SetType, ResolverType
<1>14. set.transport = transport /\ set.servers = resolver.nameservers /\ set.requests = requests
  OBVIOUS
<1> HIDE DEF set
<1>15. SetOf(inputs, resolvers, set, at)
  <2>1. [i \in DOMAIN set.requests |-> set.requests[i].qname] = names
    BY <1>12, <1>14
  <2>2. \A i \in DOMAIN set.requests : set.requests[i].qtype = type /\ set.requests[i].qclass = class
    BY <1>9, <1>10, <1>14
  <2>3. names # <<>> /\ Last(names) = domain
    BY <1>6 DEF Last
  <2> QED
    BY <1>4, <1>6, <1>14, <2>1, <2>2, <2>3, Zenon DEF SetOf, domain, type, class, transport, resolver
<1> QED
  BY <1>5, <1>13, <1>15, Zenon DEF set

\* The sets made so far are those of the combinations before the one that the
\* loops are at.
Product(lengths) == lengths[1] * lengths[2] * lengths[3] * lengths[4] * lengths[5]

SetsAreGood ==
    \A at : Combination(Lengths, at) /\ NumberOf(Lengths, at) < Len(sets) =>
                SetOf(inputs, resolvers, sets[NumberOf(Lengths, at) + 1], at)

SetsInv ==
    /\ place \in [Loops -> Nat] /\ sets \in Seq(SetType)
    /\ pc # "generate" /\ result # "Ok" => sets = <<>>
    /\ pc \notin {"generate", "done"} => \A loop \in Loops : place[loop] = 1
    /\ pc = "generate" => Combination(Lengths, place) /\ Len(sets) = NumberOf(Lengths, place)
    /\ result = "Ok" => Len(sets) = Product(Lengths)
    /\ SetsAreGood

\* Before there are any sets.
LEMMA NoSets ==
    ASSUME ArgumentsInv', FilesInv', SetsInv, sets' = sets, place' = place,
           pc \notin {"generate", "done"}, result = "Pending", pc' # "generate", result' # "Ok"
    PROVE  SetsInv'
<1>1. sets' = <<>>
  BY DEF SetsInv
<1>2. Lengths' \in [Loops -> Nat]
  <2>1. /\ inputs'.domains \in Seq(Seq(Parts)) /\ inputs'.types \in Seq(Texts)
        /\ inputs'.classes \in Seq(Texts) /\ inputs'.transports \in Seq(Texts)
    BY DEF ArgumentsInv, ArgumentTypes
  <2>2. resolvers' \in Seq(ResolverType)
    BY DEF FilesInv, FilesTypes, ResolverType
  <2>3. /\ Len(inputs'.domains) \in Nat /\ Len(inputs'.types) \in Nat /\ Len(inputs'.classes) \in Nat
        /\ Len(inputs'.transports) \in Nat /\ Len(resolvers') \in Nat
    BY <2>1, <2>2
  <2> QED
    BY <2>3 DEF Lengths, Loops
<1>3. SetsAreGood'
  <2> SUFFICES ASSUME NEW at, Combination(Lengths', at)
               PROVE  ~(NumberOf(Lengths', at) < Len(sets'))
    BY DEF SetsAreGood
  <2>1. NumberOf(Lengths', at) \in Nat
    BY <1>2, NumberType
  <2> QED
    BY <1>1, <2>1
<1> QED
  BY <1>1, <1>3 DEF SetsInv

\* The first set is about to be made.
LEMMA StartSets == ArgumentsInv /\ FilesInv /\ SetsInv /\ StartGenerating => SetsInv'
<1> SUFFICES ASSUME ArgumentsInv, FilesInv, SetsInv, StartGenerating PROVE SetsInv'
  OBVIOUS
<1>1. /\ pc = "obtain" /\ pc' = "generate" /\ inputs' = inputs /\ resolvers' = resolvers /\ result' = result
      /\ place' = place /\ sets' = sets /\ Len(resolvers) = Len(inputs.resolvers)
  BY DEF StartGenerating, arguments, generated
<1>2. sets = <<>> /\ result = "Pending" /\ \A loop \in Loops : place[loop] = 1
  BY <1>1 DEF SetsInv, ArgumentsInv, ArgumentTypes
<1>3. Lengths' = Lengths
  BY <1>1 DEF Lengths
<1>4. Lengths \in [Loops -> Nat]
  BY LengthsTyped
<1>5. \A loop \in Loops : Lengths[loop] # 0
  <2>1. \A input \in DOMAIN inputs : inputs[input] # <<>>
    BY <1>1 DEF ArgumentsInv, InputsAreChecked, AreRead
  <2>2. DOMAIN inputs = {"domains", "types", "classes", "resolvers", "transports"}
    BY DEF ArgumentsInv, ArgumentTypes
  <2>3. /\ inputs.domains # <<>> /\ inputs.types # <<>> /\ inputs.classes # <<>>
        /\ inputs.resolvers # <<>> /\ inputs.transports # <<>>
    BY <2>1, <2>2
  <2>4. /\ Len(inputs.domains) # 0 /\ Len(inputs.types) # 0 /\ Len(inputs.classes) # 0
        /\ Len(inputs.resolvers) # 0 /\ Len(inputs.transports) # 0
    BY <2>3, InputsTyped
  <2> QED
    BY <1>1, <2>4 DEF Lengths, Loops
<1>6. Combination(Lengths, place)
  <2> SUFFICES ASSUME NEW loop \in Loops PROVE place[loop] \in 1..Lengths[loop]
    BY DEF Combination
  <2>1. Lengths[loop] \in Nat /\ Lengths[loop] # 0 /\ place[loop] = 1
    BY <1>2, <1>4, <1>5
  <2> QED
    BY <2>1
<1>7. NumberOf(Lengths, place) = 0
  <2>1. \A l \in Nat : Counted(0, l, 1) = 0
    BY DEF Counted
  <2>2. place[1] = 1 /\ place[2] = 1 /\ place[3] = 1 /\ place[4] = 1 /\ place[5] = 1
    BY <1>2 DEF Loops
  <2>3. Lengths[2] \in Nat /\ Lengths[3] \in Nat /\ Lengths[4] \in Nat /\ Lengths[5] \in Nat
    BY <1>4 DEF Loops
  <2>4. NumberOf(Lengths, place) = Counted(Counted(Counted(Counted(0, Lengths[2], 1), Lengths[3], 1), Lengths[4], 1),
                                           Lengths[5], 1)
    BY <2>2 DEF NumberOf
  <2> QED
    BY <2>1, <2>3, <2>4
<1>8. SetsAreGood'
  <2> SUFFICES ASSUME NEW at, Combination(Lengths', at)
               PROVE  ~(NumberOf(Lengths', at) < Len(sets'))
    BY DEF SetsAreGood
  <2>1. NumberOf(Lengths', at) \in Nat
    BY <1>3, <1>4, NumberType
  <2> QED
    BY <1>1, <1>2, <2>1
<1> QED
  BY <1>1, <1>2, <1>3, <1>6, <1>7, <1>8 DEF SetsInv

\* One more set.
LEMMA MakeSetSets == ArgumentsInv /\ FilesInv /\ SetsInv /\ MakeSet => SetsInv'
<1> SUFFICES ASSUME ArgumentsInv, FilesInv, SetsInv, MakeSet PROVE SetsInv'
  OBVIOUS
<1> DEFINE set == SetAt(place)
<1>1. /\ pc = "generate" /\ inputs' = inputs /\ resolvers' = resolvers /\ sets' = Append(sets, set)
      /\ \/ Unfinished = {} /\ pc' = "done" /\ result' = "Ok" /\ place' = place
         \/ Unfinished # {} /\ pc' = "generate" /\ result' = result /\ place' = NextPlace
  BY DEF MakeSet, Return
<1>2. /\ place \in [Loops -> Nat] /\ sets \in Seq(SetType) /\ result = "Pending"
      /\ Combination(Lengths, place) /\ Len(sets) = NumberOf(Lengths, place) /\ SetsAreGood
  BY <1>1 DEF SetsInv, ArgumentsInv, ArgumentTypes
<1>3. Lengths' = Lengths /\ Lengths \in [Loops -> Nat]
  BY <1>1, LengthsTyped DEF Lengths
<1>4. set \in SetType /\ SetOf(inputs, resolvers, set, place)
  BY <1>2, SetMade
<1> HIDE DEF set
<1>5. /\ sets' \in Seq(SetType) /\ Len(sets') = Len(sets) + 1 /\ Len(sets) \in Nat
      /\ sets'[Len(sets) + 1] = set /\ \A k \in 1..Len(sets) : sets'[k] = sets[k]
  BY <1>1, <1>2, <1>4
<1>6. SetsAreGood'
  <2>1. ASSUME NEW at, Combination(Lengths, at), NumberOf(Lengths, at) < Len(sets) + 1
        PROVE  SetOf(inputs, resolvers, sets'[NumberOf(Lengths, at) + 1], at)
    <3> DEFINE number == NumberOf(Lengths, at)
    <3>1. number \in Nat
      BY <1>3, <2>1, NumberType
    <3>2. CASE number < Len(sets)
      <4>1. SetOf(inputs, resolvers, sets[number + 1], at)
        BY <1>2, <2>1, <3>2 DEF SetsAreGood
      <4>2. sets'[number + 1] = sets[number + 1]
        <5> HIDE DEF number
        <5> QED
          BY <1>5, <3>1, <3>2
      <4> QED
        BY <4>1, <4>2
    <3>3. CASE number = Len(sets)
      <4>1. \A loop \in Loops : place[loop] = at[loop]
        BY <1>2, <1>3, <2>1, <3>3, NumberedOnce
      <4>2. SetOf(inputs, resolvers, set, at)
        BY <1>4, <4>1, SetIsSame
      <4> QED
        BY <1>5, <3>3, <4>2
    <3>4. number < Len(sets) \/ number = Len(sets)
      <4>1. number < Len(sets) + 1
        BY <2>1
      <4> HIDE DEF number
      <4> QED
        BY <1>5, <3>1, <4>1
    <3> QED
      BY <3>2, <3>3, <3>4
  <2> QED
    BY <1>1, <1>3, <1>5, <2>1 DEF SetsAreGood
<1>7. CASE Unfinished = {} /\ pc' = "done" /\ result' = "Ok" /\ place' = place
  <2>1. ASSUME NEW loop \in Loops PROVE place[loop] = Lengths[loop]
    <3>1. ~(place[loop] < Lengths[loop]) /\ place[loop] \in 1..Lengths[loop] /\ Lengths[loop] \in Nat
      BY <1>2, <1>3, <1>7 DEF Unfinished, Combination
    <3> QED
      BY <3>1
  <2>2. place = Lengths
    BY <1>2, <1>3, <2>1
  <2>3. NumberOf(Lengths, Lengths) + 1 = Product(Lengths)
    BY <1>2, <1>3, <2>2, NumberLast DEF Product
  <2>4. Len(sets') = Product(Lengths')
    BY <1>2, <1>3, <1>5, <2>2, <2>3
  <2> QED
    BY <1>2, <1>5, <1>6, <1>7, <2>4 DEF SetsInv
<1>8. CASE Unfinished # {} /\ pc' = "generate" /\ result' = result /\ place' = NextPlace
  <2> DEFINE k == Innermost(Unfinished)
  <2>1. k \in Unfinished /\ \A other \in Unfinished : other <= k
    <3>1. \E loop \in Unfinished : \A other \in Unfinished : other <= loop
      <4>1. Unfinished \subseteq {1, 2, 3, 4, 5}
        BY DEF Unfinished, Loops
      <4>2. CASE 5 \in Unfinished
        BY <4>1, <4>2
      <4>3. CASE 5 \notin Unfinished /\ 4 \in Unfinished
        BY <4>1, <4>3
      <4>4. CASE Unfinished \subseteq {1, 2, 3} /\ 3 \in Unfinished
        BY <4>4
      <4>5. CASE Unfinished \subseteq {1, 2} /\ 2 \in Unfinished
        BY <4>5
      <4>6. CASE Unfinished \subseteq {1}
        <5>1. 1 \in Unfinished
          BY <1>8, <4>6
        <5> QED
          BY <4>6, <5>1
      <4> QED
        BY <4>1, <4>2, <4>3, <4>4, <4>5, <4>6
    <3> QED
      BY <3>1, Zenon DEF Innermost
  <2>2. NextPlace = [loop \in Loops |->
            IF loop < k THEN place[loop] ELSE IF loop = k THEN place[loop] + 1 ELSE 1]
    BY DEF NextPlace
  <2> HIDE DEF k
  <2>3. k \in Loops /\ place[k] < Lengths[k]
    BY <2>1 DEF Unfinished
  <2>4. ASSUME NEW loop \in Loops, loop > k PROVE place[loop] = Lengths[loop]
    <3>1. place[loop] \in 1..Lengths[loop] /\ Lengths[loop] \in Nat
      BY <1>2, <1>3 DEF Combination
    <3>2. loop \notin Unfinished
      BY <2>1, <2>3, <2>4 DEF Loops
    <3>3. ~(place[loop] < Lengths[loop])
      BY <3>2 DEF Unfinished
    <3> QED
      BY <3>1, <3>3
  <2>5. \A loop \in Loops :
            place'[loop] = IF loop < k THEN place[loop] ELSE IF loop = k THEN place[loop] + 1 ELSE 1
    BY <1>8, <2>2
  <2>6. NumberOf(Lengths, place') = NumberOf(Lengths, place) + 1 /\ Combination(Lengths, place')
    BY <1>2, <1>3, <2>3, <2>4, <2>5, NumberNext
  <2>7. place' \in [Loops -> Nat]
    BY <1>2, <1>8, <2>2
  <2>8. Len(sets') = NumberOf(Lengths', place') /\ Combination(Lengths', place')
    BY <1>2, <1>3, <1>5, <2>6
  <2>9. result' # "Ok"
    BY <1>2, <1>8
  <2> QED
    BY <1>5, <1>6, <1>8, <2>7, <2>8, <2>9 DEF SetsInv
<1> QED
  BY <1>1, <1>7, <1>8

LEMMA SetsNext == ArgumentsInv /\ ArgumentsInv' /\ FilesInv /\ FilesInv' /\ SetsInv /\ [Next]_vars => SetsInv'
<1> SUFFICES ASSUME ArgumentsInv, ArgumentsInv', FilesInv, FilesInv', SetsInv, [Next]_vars PROVE SetsInv'
  OBVIOUS
<1>1. pc # "done" => result = "Pending"
  BY DEF ArgumentsInv, ArgumentTypes
<1>2. CASE ReadArgument
  <2>1. /\ sets' = sets /\ place' = place /\ pc \notin {"generate", "done"}
        /\ pc' # "generate" /\ (pc' = "done" => result' # "Ok")
    BY <1>2, ArgumentsLead DEF ReadArgument, generated, Early, Middle, Options
  <2>2. result' # "Ok"
    BY <2>1 DEF ArgumentsInv, ArgumentTypes
  <2> QED
    BY <1>1, <2>1, <2>2, NoSets
<1>3. CASE WarnAboutLocalHosts
  <2>1. /\ sets' = sets /\ place' = place /\ pc = "warn" /\ pc' = "obtain" /\ result' = result
    BY <1>3 DEF WarnAboutLocalHosts, generated
  <2> QED
    BY <1>1, <2>1, NoSets
<1>4. CASE ObtainSpecific \/ OpenFile
  <2>1. /\ sets' = sets /\ place' = place /\ pc = "obtain" /\ pc' \in {"obtain", "read", "done"}
        /\ (result' = result \/ result' = "IO")
    BY <1>4 DEF ObtainSpecific, OpenFile, NextResolver, Return, generated
  <2> QED
    BY <1>1, <2>1, NoSets
<1>5. CASE FindNameserver \/ FindSearchList \/ PassOver \/ ReadFails \/ EndOfFile
  <2>1. /\ sets' = sets /\ place' = place /\ pc = "read" /\ pc' \in {"obtain", "read", "done"}
        /\ (result' = result \/ result' = "IO" \/ result' = "NoNameserver")
    BY <1>5 DEF FindNameserver, FindSearchList, PassOver, ReadFails, EndOfFile, NextLine, Return, generated
  <2> QED
    BY <1>1, <2>1, NoSets
<1>6. CASE UNCHANGED vars
  <2>1. /\ sets' = sets /\ place' = place /\ pc' = pc /\ result' = result /\ inputs' = inputs /\ resolvers' = resolvers
    BY <1>6 DEF vars, arguments, generated
  <2>2. Lengths' = Lengths
    BY <2>1 DEF Lengths
  <2>3. SetsAreGood'
    BY <2>1, <2>2 DEF SetsInv, SetsAreGood
  <2> QED
    BY <2>1, <2>2, <2>3 DEF SetsInv
<1> QED
  BY <1>2, <1>3, <1>4, <1>5, <1>6, StartSets, MakeSetSets DEF Next, Step, Done

LEMMA SetsInit == Init => SetsInv
<1> SUFFICES ASSUME Init PROVE SetsInv
  OBVIOUS
<1>1. pc = "split" /\ result = "Pending" /\ place = [loop \in Loops |-> 1] /\ sets = <<>>
  BY DEF Init, GivenSomething
<1>2. ArgumentsInv /\ FilesInv
  BY ArgumentsInit, FilesInit
<1>3. SetsAreGood
  <2> SUFFICES ASSUME NEW at, Combination(Lengths, at) PROVE ~(NumberOf(Lengths, at) < Len(sets))
    BY DEF SetsAreGood
  <2>1. NumberOf(Lengths, at) \in Nat
    BY <1>2, LengthsTyped, NumberType
  <2> QED
    BY <1>1, <2>1
<1> QED
  BY <1>1, <1>3 DEF SetsInv

LEMMA SetsAlways == Spec => []SetsInv
BY ArgumentsInit, ArgumentsNext, ArgumentsAlways, FilesInit, FilesNext, FilesAlways, SetsInit, SetsNext, PTL DEF Spec

\* One set is made for each combination of the inputs, none twice and none left
\* out, in the order of the inputs, and each has nameservers and names that end
\* with the one given, for all inputs and files (RequestGenerator::generate).
THEOREM SetsAreAll == Spec => []SetsAreTheProduct
<1>1. ArgumentsInv /\ FilesInv /\ SetsInv => SetsAreTheProduct
  <2> SUFFICES ASSUME ArgumentsInv, FilesInv, SetsInv PROVE SetsAreTheProduct
    OBVIOUS
  <2>1. ASSUME NEW d \in DOMAIN inputs.domains, NEW t \in DOMAIN inputs.types, NEW c \in DOMAIN inputs.classes,
               NEW r \in DOMAIN resolvers, NEW p \in DOMAIN inputs.transports
        PROVE  LET at == <<d, t, c, r, p>> IN
               Number(at) < Len(sets) => IsSetFor(sets[Number(at) + 1], at)
    <3> DEFINE at == <<d, t, c, r, p>>
    <3>1. at[1] = d /\ at[2] = t /\ at[3] = c /\ at[4] = r /\ at[5] = p
      OBVIOUS
    <3>2. resolvers \in Seq(ResolverType)
      BY DEF FilesInv, FilesTypes, ResolverType
    <3>3. /\ d \in 1..Lengths[1] /\ t \in 1..Lengths[2] /\ c \in 1..Lengths[3]
          /\ r \in 1..Lengths[4] /\ p \in 1..Lengths[5]
      <4>1. Len(resolvers) \in Nat /\ r \in 1..Len(resolvers)
        BY <3>2
      <4>2. /\ d \in 1..Len(inputs.domains) /\ t \in 1..Len(inputs.types) /\ c \in 1..Len(inputs.classes)
            /\ p \in 1..Len(inputs.transports)
        <5>1. /\ inputs.domains \in Seq(Seq(Parts)) /\ inputs.types \in Seq(Texts)
              /\ inputs.classes \in Seq(Texts) /\ inputs.transports \in Seq(Texts)
          BY InputsTyped
        <5>2. DOMAIN inputs.domains = 1..Len(inputs.domains) /\ DOMAIN inputs.types = 1..Len(inputs.types)
          BY <5>1
        <5>3. DOMAIN inputs.classes = 1..Len(inputs.classes) /\ DOMAIN inputs.transports = 1..Len(inputs.transports)
          BY <5>1
        <5> QED
          BY <5>2, <5>3
      <4>3. /\ Lengths[1] = Len(inputs.domains) /\ Lengths[2] = Len(inputs.types)
            /\ Lengths[3] = Len(inputs.classes) /\ Lengths[4] = Len(resolvers)
            /\ Lengths[5] = Len(inputs.transports)
        BY DEF Lengths
      <4> QED
        BY <4>1, <4>2, <4>3
    <3> HIDE DEF at
    <3>4. Combination(Lengths, at)
      BY <3>1, <3>3 DEF Combination, Loops
    <3>5. Number(at) < Len(sets) => IsSetFor(sets[Number(at) + 1], at)
      BY <3>4, NumberIs, SetIs DEF SetsInv, SetsAreGood
    <3> QED
      BY <3>5 DEF at
  <2>2. result = "Ok" => Len(sets) = Lengths[1] * Lengths[2] * Lengths[3] * Lengths[4] * Lengths[5]
    BY DEF SetsInv, Product
  <2> QED
    BY <2>1, <2>2 DEF SetsAreTheProduct
<1> QED
  BY <1>1, ArgumentsAlways, FilesAlways, SetsAlways, PTL

-----------------------------------------------------------------------------
(* What a run is made from.                                                *)

TransportNames == {"auto", "udp", "tcp", "tls", "https"}

SetFits(set) == set.transport \in TransportNames /\ set.servers # <<>> /\ set.requests # <<>>

PlanInv ==
    /\ inputs.transports \in Seq(TransportNames)
    /\ \A i \in 1..Len(sets) : SetFits(sets[i])
    /\ result = "Ok" => sets # <<>>

\* Only the options that name transports, and the fallback, are ever a
\* transport.
LEMMA TransportsStay ==
    ASSUME ArgumentsInv, ReadArguments, inputs.transports \in Seq(TransportNames)
    PROVE  inputs'.transports \in Seq(TransportNames)
<1>1. inputs \in [domains : Seq(Seq(Parts)), types : Seq(Texts), classes : Seq(Texts),
                  resolvers : Seq(ResolverTypes), transports : Seq(Texts)]
  BY DEF ArgumentsInv, ArgumentTypes
<1>2. CASE UNCHANGED inputs
  BY <1>2
<1>3. ASSUME NEW error, Refuse(error) PROVE inputs'.transports \in Seq(TransportNames)
  BY <1>3 DEF Refuse
<1>4. ASSUME NEW input \in {"domains", "types", "classes", "resolvers"}, NEW value, Add(input, value)
      PROVE  inputs'.transports \in Seq(TransportNames)
  <2>1. inputs' = [inputs EXCEPT ![input] = Append(inputs[input], value)]
    BY <1>4 DEF Add
  <2>2. inputs'.transports = inputs.transports
    BY <1>1, <2>1
  <2> QED
    BY <2>2
<1>5. CASE LoadTransports
  <2> DEFINE all == <<"https", "tls", "tcp", "udp">>
  <2>1. CASE inputs' = [inputs EXCEPT !.transports = Kept(all, given.protocols)]
    <3>1. all \in Seq(TransportNames)
      BY DEF TransportNames
    <3>2. Kept(all, given.protocols) \in Seq(TransportNames \cap given.protocols)
      BY <3>1, KeptType
    <3>3. Kept(all, given.protocols) \in Seq(TransportNames)
      BY <3>2, SeqWithin
    <3> HIDE DEF all
    <3>4. inputs'.transports = Kept(all, given.protocols)
      BY <1>1, <2>1
    <3> QED
      BY <3>3, <3>4
  <2> QED
    BY <1>2, <1>5, <2>1 DEF LoadTransports
<1>6. CASE LoadFallbacks
  <2>1. inputs'.transports = OrElse(inputs.transports, "auto")
    BY <1>1, <1>6 DEF LoadFallbacks
  <2>2. "auto" \in TransportNames
    BY DEF TransportNames
  <2> QED
    BY <2>1, <2>2, FilledIn
<1>7. CASE CheckSetting \/ Meta \/ NextOption \/ CheckNameservers
  BY <1>2, <1>7 DEF CheckSetting, Meta, NextOption, CheckNameservers
<1>8. ASSUME NEW word, AddDomain(word) PROVE inputs'.transports \in Seq(TransportNames)
  BY <1>3, <1>4, <1>8 DEF AddDomain
<1>9. CASE ReadQuery
  BY <1>8, <1>9 DEF ReadQuery
<1>10. CASE ReadType
  BY <1>3, <1>4, <1>10 DEF ReadType
<1>11. CASE ReadNameserver
  BY <1>4, <1>11 DEF ReadNameserver
<1>12. CASE ReadClass
  BY <1>3, <1>4, <1>12 DEF ReadClass
<1>13. CASE ReadFree
  <2>1. CASE AddConstant(Word)
    BY <1>3, <1>4, <1>8, <2>1 DEF AddConstant
  <2> QED
    BY <1>4, <1>8, <1>13, <2>1 DEF ReadFree
<1> QED
  BY <1>5, <1>6, <1>7, <1>9, <1>10, <1>11, <1>12, <1>13 DEF ReadArguments

LEMMA PlanNext == ArgumentsInv /\ FilesInv /\ SetsInv /\ PlanInv /\ [Next]_vars => PlanInv'
<1> SUFFICES ASSUME ArgumentsInv, FilesInv, SetsInv, PlanInv, [Next]_vars PROVE PlanInv'
  OBVIOUS
<1>1. pc # "done" => result = "Pending"
  BY DEF ArgumentsInv, ArgumentTypes
<1>2. ASSUME sets' = sets, inputs'.transports \in Seq(TransportNames), result' # "Ok" \/ result' = result
      PROVE  PlanInv'
  BY <1>2 DEF PlanInv
<1>3. CASE ReadArgument
  <2>1. sets' = sets /\ ReadArguments /\ pc \in Early \cup Middle
    BY <1>3, ArgumentsLead DEF ReadArgument, generated
  <2>2. inputs'.transports \in Seq(TransportNames)
    BY <2>1, TransportsStay DEF PlanInv
  <2>3. result' = result \/ result' # "Ok"
    BY <2>1, ArgumentsLead
  <2> QED
    BY <1>2, <2>1, <2>2, <2>3
<1>4. ASSUME sets' = sets, inputs' = inputs, result' = result \/ result' \in {"IO", "NoNameserver"}
      PROVE  PlanInv'
  BY <1>2, <1>4 DEF PlanInv
<1>5. CASE WarnAboutLocalHosts
  BY <1>4, <1>5 DEF WarnAboutLocalHosts, arguments, generated
<1>6. CASE ObtainSpecific \/ OpenFile
  BY <1>4, <1>6 DEF ObtainSpecific, OpenFile, Return, arguments, generated
<1>7. CASE FindNameserver \/ FindSearchList \/ PassOver \/ ReadFails \/ EndOfFile
  BY <1>4, <1>7 DEF FindNameserver, FindSearchList, PassOver, ReadFails, EndOfFile, Return, arguments, generated
<1>8. CASE StartGenerating
  BY <1>4, <1>8 DEF StartGenerating, arguments, generated
<1>9. CASE MakeSet
  <2> DEFINE set == SetAt(place)
  <2>1. pc = "generate" /\ inputs' = inputs /\ sets' = Append(sets, set)
    BY <1>9 DEF MakeSet
  <2>2. Combination(Lengths, place) /\ sets \in Seq(SetType)
    BY <2>1 DEF SetsInv
  <2>3. set \in SetType /\ SetOf(inputs, resolvers, set, place)
    BY <2>2, SetMade
  <2>4. SetFits(set)
    <3>1. place[5] \in 1..Len(inputs.transports)
      BY <2>2 DEF Combination, Lengths, Loops
    <3>2. inputs.transports[place[5]] \in TransportNames
      BY <3>1, ElementOfSeq DEF PlanInv
    <3>3. set.transport = inputs.transports[place[5]] /\ set.servers # <<>>
      BY <2>3 DEF SetOf
    <3>4. set.requests # <<>>
      <4>1. [i \in DOMAIN set.requests |-> set.requests[i].qname] # <<>>
        BY <2>3, Zenon DEF SetOf
      <4> HIDE DEF set
      <4> QED
        BY <4>1
    <3> QED
      BY <3>2, <3>3, <3>4 DEF SetFits
  <2> HIDE DEF set
  <2>5. /\ Len(sets') = Len(sets) + 1 /\ Len(sets) \in Nat
        /\ sets'[Len(sets) + 1] = set /\ \A k \in 1..Len(sets) : sets'[k] = sets[k]
    BY <2>1, <2>2, <2>3
  <2>6. \A k \in 1..(Len(sets) + 1) : SetFits(sets'[k])
    <3> TAKE k \in 1..(Len(sets) + 1)
    <3>1. CASE k = Len(sets) + 1
      BY <2>4, <2>5, <3>1
    <3>2. CASE k \in 1..Len(sets)
      BY <2>5, <3>2 DEF PlanInv
    <3> QED
      BY <2>5, <3>1, <3>2
  <2>7. sets' # <<>>
    BY <2>5
  <2> QED
    BY <2>1, <2>5, <2>6, <2>7 DEF PlanInv
<1>10. CASE UNCHANGED vars
  BY <1>4, <1>10 DEF vars, arguments, generated
<1> QED
  BY <1>3, <1>5, <1>6, <1>7, <1>8, <1>9, <1>10 DEF Next, Step, Done

LEMMA PlanInit == Init => PlanInv
BY DEF Init, GivenSomething, PlanInv

LEMMA PlanAlways == Spec => []PlanInv
BY ArgumentsAlways, FilesAlways, SetsAlways, PlanInit, PlanNext, PTL DEF Spec

\* What DogRun knows of a set: how it is sent, how many nameservers it may be
\* sent to, and how many names are asked for.
PlanOf ==
    [i \in DOMAIN sets |-> [transport |-> sets[i].transport, servers |-> Len(sets[i].servers),
                            names |-> Len(sets[i].requests)]]

PlanIsAsAssumed ==
    result = "Ok" => /\ PlanOf # <<>>
                     /\ PlanOf \in Seq([transport : TransportNames, servers : Nat \ {0}, names : Nat \ {0}])

\* The sets that a run is given are such as DogRun takes for granted in its
\* PlansAssumption: there is one, and each has a transport that there is, a
\* nameserver and a name (RequestGenerator::generate, main).
THEOREM PlansAreAsAssumed == Spec => []PlanIsAsAssumed
<1>1. SetsInv /\ PlanInv => PlanIsAsAssumed
  <2> SUFFICES ASSUME SetsInv, PlanInv, result = "Ok"
               PROVE  /\ PlanOf # <<>>
                      /\ PlanOf \in Seq([transport : TransportNames, servers : Nat \ {0}, names : Nat \ {0}])
    BY DEF PlanIsAsAssumed
  <2> DEFINE last == Len(sets)
             Plans == [transport : TransportNames, servers : Nat \ {0}, names : Nat \ {0}]
             entry(i) == [transport |-> sets[i].transport, servers |-> Len(sets[i].servers),
                          names |-> Len(sets[i].requests)]
  <2>1. sets \in Seq(SetType) /\ sets # <<>> /\ last \in Nat /\ DOMAIN sets = 1..last /\ last > 0
    BY DEF SetsInv, PlanInv
  <2>2. ASSUME NEW i \in 1..last PROVE entry(i) \in Plans
    <3> DEFINE set == sets[i]
    <3>1. set \in SetType /\ SetFits(set)
      BY <2>1, <2>2 DEF PlanInv
    <3> HIDE DEF set
    <3>2. /\ set.servers \in Seq(STRING) /\ set.servers # <<>>
          /\ set.requests \in Seq(RequestType) /\ set.requests # <<>> /\ set.transport \in TransportNames
      BY <3>1 DEF SetType, SetFits
    <3>3. Len(set.servers) \in Nat \ {0} /\ Len(set.requests) \in Nat \ {0}
      BY <3>2
    <3>4. [transport |-> set.transport, servers |-> Len(set.servers), names |-> Len(set.requests)] \in Plans
      BY <3>2, <3>3
    <3> QED
      BY <3>4 DEF set
  <2>3. PlanOf = [i \in 1..last |-> entry(i)]
    BY <2>1 DEF PlanOf
  <2> HIDE DEF entry, Plans, last
  <2>4. PlanOf \in [1..last -> Plans]
    BY <2>2, <2>3
  <2>5. PlanOf \in Seq(Plans) /\ Len(PlanOf) = last
    BY <2>1, <2>4
  <2>6. PlanOf # <<>>
    BY <2>1, <2>5
  <2> QED
    BY <2>5, <2>6 DEF Plans
<1> QED
  BY <1>1, SetsAlways, PlanAlways, PTL

=============================================================================
