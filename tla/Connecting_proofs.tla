-------------------------- MODULE Connecting_proofs --------------------------
(***************************************************************************)
(* Proofs about finding a server and connecting to it, for every number of *)
(* addresses, every way each may fail, and every time limit; and, from     *)
(* "Words and marks" on, about what the address or the URL of the server   *)
(* is taken for, whatever text it is.                                      *)
(***************************************************************************)
EXTENDS Connecting, SequenceTheorems, WellFoundedInduction, TLAPS

-----------------------------------------------------------------------------
(* The inductive invariant.                                                *)

Attempts == [kind : OpenErrors \cup {"TimedOut"}, by : {"os", "deadline"}]

TypeOK ==
    /\ clock \in Nat /\ until \in Nat /\ found \in Nat
    /\ tried \in Seq(Attempts) /\ Len(tried) <= found
    /\ channel \in {Empty, NotFound} \cup {Found(n) : n \in 0..MaxAddresses}

\* A wait runs to the deadline, and past it by no more than its lag.
WaitsToTheDeadline ==
    pc \in {"await", "connect", "shaking"} => Timeout <= until /\ until <= Timeout + Lag

\* Where the main thread is says how far it has come with the addresses.
Progress ==
    /\ pc \in {"host", "left", "await"} => found = 0
    /\ pc \in {"connect", "handshake", "shaking"} => proto # "udp" /\ Len(tried) < found
    /\ pc # "done" => result = Pending /\ chosen = None

\* last_error is the error of the last address, and only the deadline itself
\* ends an attempt that is said to have reached it.
Remembered ==
    /\ tried = <<>> => lastError = "NotFound"
    /\ tried # <<>> => lastError = tried[Len(tried)].kind
    /\ \A i \in 1..Len(tried) : tried[i].by = "deadline" => clock >= Timeout

Inv == TypeOK /\ WaitsToTheDeadline /\ Progress /\ Remembered /\ AddressesInTurn

LEMMA Outcomes ==
    ASSUME NEW x, NEW y, NEW z
    PROVE  /\ Failed(x) = Failed(y) <=> x = y
           /\ Failed(x) # Pending /\ Connected(x, y) # Pending /\ Connected(x, y) # Failed(z)
           /\ Failed(x)[1] # "Connected" /\ Pending[1] # "Connected"
           /\ Connected(x, y)[2] = x /\ Connected(x, y)[3] = y
BY DEF Connected, Failed, Pending

\* What the thread sends is told apart.
LEMMA FoundAddresses ==
    ASSUME NEW c \in {Empty, NotFound} \cup {Found(n) : n \in 0..MaxAddresses},
           c # Empty, c # NotFound
    PROVE  c[2] \in Nat
BY ConnectingAssumption DEF Found

LEMMA WaitEnds ==
    ASSUME clock \in Nat, NEW state, WaitAs(state)
    PROVE  /\ pc' = state /\ until' \in Nat
           /\ Timeout <= until' /\ until' <= Timeout + Lag
BY ConnectingAssumption DEF WaitAs, Left, Expired

LEMMA ExpiredLate ==
    ASSUME clock \in Nat, Expired(Timeout, clock)
    PROVE  clock >= Timeout
BY ConnectingAssumption DEF Left, Expired

\* Steps that neither try an address nor return anything.
LEMMA QuietStep ==
    ASSUME Inv, UNCHANGED <<proto, tried, lastError, chosen, result>>,
           clock' \in Nat, clock' >= clock, until' \in Nat, found' \in Nat,
           channel' \in {Empty, NotFound} \cup {Found(n) : n \in 0..MaxAddresses},
           WaitsToTheDeadline', Progress',
           found' # found => found = 0 /\ pc # "done",
           pc' = "done" => pc = "done" /\ found' = found
    PROVE  Inv'
<1>1. Len(tried) \in Nat /\ Len(tried) <= found' /\ clock \in Nat
  BY DEF Inv, TypeOK
<1>2. TypeOK'
  BY <1>1 DEF Inv, TypeOK
<1>3. \A i \in 1..Len(tried) : tried[i].by = "deadline" => clock' >= Timeout
  BY <1>1, ConnectingAssumption DEF Inv, Remembered
<1>4. Remembered'
  BY <1>3 DEF Inv, Remembered
<1>5. AddressesInTurn'
  <2>1. CASE pc = "done"
    <3>1. clock >= Timeout => clock' >= Timeout
      BY <1>1, ConnectingAssumption
    <3> QED
      BY <2>1, <3>1 DEF Inv, AddressesInTurn
  <2>2. CASE pc # "done"
    <3>1. pc' # "done" /\ result' = Pending
      BY <2>2 DEF Inv, Progress
    <3>2. result' # Failed("NetworkError") /\ result' # Failed("Timeout")
      BY <3>1, Outcomes
    <3> QED
      BY <3>1, <3>2, Zenon DEF AddressesInTurn
  <2> QED
    BY <2>1, <2>2
<1> QED
  BY <1>2, <1>4, <1>5 DEF Inv

\* Steps that return an error.
LEMMA FailStep ==
    ASSUME Inv, UNCHANGED <<clock, proto, until, channel, found, tried, lastError, chosen>>,
           NEW error, Return(Failed(error)),
           error = "NetworkError" =>
               \/ found = 0
               \/ Len(tried) = found /\ tried[found].kind # "TimedOut"
               \/ proto # "udp" /\ Len(tried) < found,
           error = "Timeout" =>
               \/ clock >= Timeout
               \/ found > 0 /\ Len(tried) = found /\ tried[found] = [kind |-> "TimedOut", by |-> "os"]
    PROVE  Inv'
<1>1. pc' = "done" /\ result' = Failed(error)
  BY DEF Return
<1>2. TypeOK' /\ Remembered'
  BY DEF Inv, TypeOK, Remembered
<1>3. WaitsToTheDeadline' /\ Progress'
  BY <1>1 DEF WaitsToTheDeadline, Progress
<1>4. result'[1] # "Connected" /\ found' = found /\ tried' = tried /\ clock' = clock /\ proto' = proto
  BY <1>1, Outcomes
<1>5. result' = Failed("NetworkError") => error = "NetworkError"
  BY <1>1, Outcomes
<1>6. result' = Failed("Timeout") => error = "Timeout"
  BY <1>1, Outcomes
<1>7. AddressesInTurn'
  BY <1>4, <1>5, <1>6, Zenon DEF AddressesInTurn
<1> QED
  BY <1>2, <1>3, <1>7 DEF Inv

\* Steps that return a connection.
LEMMA ConnectedStep ==
    ASSUME Inv, UNCHANGED <<clock, proto, until, channel, found, tried, lastError>>,
           Len(tried) < found,
           NEW spoken, Return(Connected(Len(tried) + 1, spoken)),
           spoken = IF chosen' \in {"h2", "http/1.1"} THEN chosen'
                    ELSE IF proto = "https" THEN "http/1.1" ELSE "dns"
    PROVE  Inv'
<1>1. pc' = "done" /\ result' = Connected(Len(tried) + 1, spoken)
  BY DEF Return
<1>2. TypeOK' /\ Remembered'
  BY DEF Inv, TypeOK, Remembered
<1>3. WaitsToTheDeadline' /\ Progress'
  BY <1>1 DEF WaitsToTheDeadline, Progress
<1>4. /\ result'[2] = Len(tried) + 1 /\ result'[3] = spoken
      /\ \A e : result' # Failed(e)
  BY <1>1, Outcomes
<1>5. Len(tried) \in Nat /\ found \in Nat
  BY DEF Inv, TypeOK
<1>6. AddressesInTurn'
  BY <1>4, <1>5 DEF AddressesInTurn
<1> QED
  BY <1>2, <1>3, <1>6 DEF Inv

\* An address fails and is remembered.
LEMMA RememberStep ==
    ASSUME Inv, pc # "done", Len(tried) < found,
           NEW kind \in OpenErrors \cup {"TimedOut"}, NEW by \in {"os", "deadline"},
           Remember(kind, by), by = "deadline" => clock >= Timeout
    PROVE  Inv'
<1> DEFINE attempt == [kind |-> kind, by |-> by]
<1>1. attempt \in Attempts /\ attempt.kind = kind /\ attempt.by = by
  BY DEF Attempts
<1>2. /\ pc' = "open" /\ lastError' = kind /\ tried' = Append(tried, attempt)
      /\ UNCHANGED <<clock, proto, until, channel, found, chosen, result>>
  BY DEF Remember, asked
<1> HIDE DEF attempt
<1>3. tried \in Seq(Attempts) /\ Len(tried) \in Nat /\ found \in Nat
  BY DEF Inv, TypeOK
<1>4. /\ tried' \in Seq(Attempts) /\ Len(tried') = Len(tried) + 1 /\ tried' # <<>>
      /\ tried'[Len(tried')] = attempt
      /\ \A i \in 1..Len(tried) : tried'[i] = tried[i]
  BY <1>1, <1>2, <1>3
<1>5. TypeOK'
  BY <1>2, <1>3, <1>4 DEF Inv, TypeOK
<1>6. ASSUME NEW i \in 1..Len(tried'), tried'[i].by = "deadline" PROVE clock >= Timeout
  <2>1. CASE i = Len(tried')
    BY <1>1, <1>4, <1>6, <2>1
  <2>2. CASE i # Len(tried')
    <3>1. i \in 1..Len(tried)
      BY <1>3, <1>4, <2>2
    <3> QED
      BY <1>4, <1>6, <3>1 DEF Inv, Remembered
  <2> QED
    BY <2>1, <2>2
<1>7. Remembered'
  BY <1>1, <1>2, <1>4, <1>6 DEF Remembered
<1>8. result' = Pending /\ pc' # "done" /\ Progress' /\ WaitsToTheDeadline'
  BY <1>2 DEF Inv, Progress, WaitsToTheDeadline
<1>9. AddressesInTurn'
  BY <1>8, Outcomes DEF AddressesInTurn
<1> QED
  BY <1>5, <1>7, <1>8, <1>9 DEF Inv

LEMMA InitInv == Init => Inv
<1> SUFFICES ASSUME Init PROVE Inv
  OBVIOUS
<1>1. TypeOK
  BY DEF Init, TypeOK
<1>2. WaitsToTheDeadline /\ Progress /\ Remembered
  BY DEF Init, WaitsToTheDeadline, Progress, Remembered
<1>3. AddressesInTurn
  BY Outcomes DEF Init, AddressesInTurn
<1> QED
  BY <1>1, <1>2, <1>3 DEF Inv

\* The last address has failed, or there was none.
LEMMA NoMoreStep ==
    ASSUME Inv, NoMoreAddresses
    PROVE  Inv'
<1>1. /\ pc = "open" /\ Len(tried) = found /\ tried \in Seq(Attempts)
      /\ UNCHANGED <<clock, proto, until, channel, found, tried, lastError, chosen>>
      /\ Return(Failed(IoError(lastError)))
  BY DEF NoMoreAddresses, asked, Inv, TypeOK
<1>2. CASE tried = <<>>
  <2>1. IoError(lastError) = "NetworkError" /\ found = 0
    BY <1>1, <1>2 DEF Inv, Remembered, IoError
  <2> QED
    BY <1>1, <2>1, FailStep
<1>3. CASE tried # <<>>
  <2>1. found \in 1..Len(tried) /\ tried[found] \in Attempts /\ lastError = tried[found].kind
    BY <1>1, <1>3 DEF Inv, Remembered
  <2>2. lastError # "WouldBlock"
    BY <2>1, OpenErrorsAssumption DEF Attempts
  <2>3. CASE lastError = "TimedOut"
    <3>1. IoError(lastError) = "Timeout"
      BY <2>3 DEF IoError
    <3>2. clock >= Timeout \/ tried[found] = [kind |-> "TimedOut", by |-> "os"]
      BY <2>1, <2>3 DEF Inv, Remembered, Attempts
    <3> QED
      BY <1>1, <2>1, <3>1, <3>2, FailStep
  <2>4. CASE lastError # "TimedOut"
    <3>1. IoError(lastError) = "NetworkError"
      BY <2>2, <2>4 DEF IoError
    <3> QED
      BY <1>1, <2>1, <2>4, <3>1, FailStep
  <2> QED
    BY <2>3, <2>4
<1> QED
  BY <1>2, <1>3

LEMMA InvNext == Inv /\ [Next]_vars => Inv'
<1> SUFFICES ASSUME Inv, [Next]_vars PROVE Inv'
  OBVIOUS
<1>1. clock \in Nat /\ until \in Nat /\ found \in Nat /\ Len(tried) \in Nat /\ Timeout \in Nat
  BY ConnectingAssumption DEF Inv, TypeOK
<1>2. CASE BadAddress \/ TlsUnusable
  BY <1>2, FailStep DEF BadAddress, TlsUnusable, asked
<1>3. CASE GiveUp
  BY <1>1, <1>3, ExpiredLate, FailStep DEF GiveUp, asked
<1>4. CASE Literal
  BY <1>1, <1>4, QuietStep DEF Literal, asked, Inv, TypeOK, WaitsToTheDeadline, Progress
<1>5. CASE SpawnLookup
  BY <1>1, <1>5, QuietStep DEF SpawnLookup, asked, Inv, TypeOK, WaitsToTheDeadline, Progress
<1>6. CASE AwaitLookup
  BY <1>1, <1>6, WaitEnds, QuietStep DEF AwaitLookup, asked, Inv, TypeOK, WaitsToTheDeadline, Progress
<1>7. CASE StartConnect
  BY <1>1, <1>7, WaitEnds, QuietStep DEF StartConnect, asked, Inv, TypeOK, WaitsToTheDeadline, Progress
<1>8. CASE HandshakeIo
  BY <1>1, <1>8, WaitEnds, QuietStep DEF HandshakeIo, asked, Inv, TypeOK, WaitsToTheDeadline, Progress
<1>9. CASE LookupEnds
  <2>1. UNCHANGED <<clock, proto, pc, until, found, tried, lastError, chosen, result>>
    BY <1>9 DEF LookupEnds, asked, main
  <2>2. channel' \in {Empty, NotFound} \cup {Found(n) : n \in 0..MaxAddresses}
    BY <1>9 DEF LookupEnds, Inv, TypeOK
  <2> QED
    BY <1>1, <2>1, <2>2, QuietStep DEF Inv, TypeOK, WaitsToTheDeadline, Progress
<1>10. CASE LookupPanics
  <2>1. UNCHANGED <<clock, proto, pc, until, channel, found, tried, lastError, chosen, result>>
    BY <1>10 DEF LookupPanics, asked, main
  <2> QED
    BY <1>1, <2>1, QuietStep DEF Inv, TypeOK, WaitsToTheDeadline, Progress
<1>11. CASE TakeAddresses
  <2>1. found' \in Nat
    BY <1>11, FoundAddresses DEF TakeAddresses, Inv, TypeOK
  <2>2. found = 0 /\ Len(tried) <= 0 /\ pc' = "open" /\ result = Pending /\ chosen = None
    BY <1>11 DEF TakeAddresses, Inv, TypeOK, Progress
  <2> QED
    BY <1>1, <1>11, <2>1, <2>2, QuietStep DEF TakeAddresses, asked, Inv, TypeOK, WaitsToTheDeadline, Progress
<1>12. CASE LookupFails
  <2>1. found = 0
    BY <1>12 DEF LookupFails, Inv, Progress
  <2> QED
    BY <1>12, <2>1, FailStep DEF LookupFails, asked
<1>13. CASE LookupRunsOut \/ HandshakeRunsOut
  <2>1. clock >= Timeout
    BY <1>1, <1>13 DEF LookupRunsOut, HandshakeRunsOut, Inv, WaitsToTheDeadline
  <2> QED
    BY <1>13, <2>1, FailStep DEF LookupRunsOut, HandshakeRunsOut, asked
<1>14. CASE Accepted
  <2>1. proto # "udp" /\ Len(tried) < found /\ chosen = None
    BY <1>14 DEF Accepted, Inv, Progress
  <2>2. CASE Return(Failed("NetworkError"))
    BY <1>14, <2>1, <2>2, FailStep DEF Accepted, asked
  <2>3. CASE ~Secured /\ Return(Connected(Len(tried) + 1, "dns"))
    BY <1>14, <2>1, <2>3, ConnectedStep DEF Accepted, asked, Secured, None
  <2>4. CASE Secured /\ pc' = "handshake" /\ UNCHANGED result
    BY <1>1, <1>14, <2>1, <2>4, QuietStep
       DEF Accepted, asked, Inv, TypeOK, WaitsToTheDeadline, Progress
  <2> QED
    BY <1>14, <2>2, <2>3, <2>4 DEF Accepted
<1>15. CASE Refused
  <2>1. PICK kind \in OpenErrors : Remember(kind, "os")
    BY <1>15 DEF Refused
  <2> QED
    BY <1>15, <2>1, RememberStep DEF Refused, Inv, Progress
<1>16. CASE ConnectRunsOut
  <2>1. clock >= Timeout /\ Len(tried) < found
    BY <1>1, <1>16 DEF ConnectRunsOut, Inv, WaitsToTheDeadline, Progress
  <2> QED
    BY <1>16, <2>1, RememberStep DEF ConnectRunsOut
<1>17. CASE OpenUdp
  <2>1. CASE \E kind \in OpenErrors \ {"TimedOut"} : Remember(kind, "os")
    BY <1>17, <2>1, RememberStep DEF OpenUdp
  <2>2. CASE /\ Return(Connected(Len(tried) + 1, "dns"))
             /\ UNCHANGED <<clock, asked, until, thread, channel, found, tried, lastError, chosen>>
    <3>1. chosen = None /\ proto = "udp" /\ Len(tried) < found
      BY <1>17 DEF OpenUdp, Inv, Progress
    <3> QED
      BY <2>2, <3>1, ConnectedStep DEF asked, None
  <2> QED
    BY <1>17, <2>1, <2>2 DEF OpenUdp
<1>18. CASE NoMoreAddresses
  BY <1>18, NoMoreStep
<1>19. CASE HandshakeGoesOn
  BY <1>1, <1>19, QuietStep DEF HandshakeGoesOn, asked, Inv, TypeOK, WaitsToTheDeadline, Progress
<1>20. CASE HandshakeEnds
  <2>1. CASE Return(Failed("TlsHandshakeError")) /\ UNCHANGED chosen
    BY <1>20, <2>1, FailStep DEF HandshakeEnds, asked
  <2>2. CASE chosen' \in Offered \cup {NotChosen, Untold} /\ Return(Connected(Len(tried) + 1, Spoken))
    <3>1. Len(tried) < found
      BY <1>20 DEF HandshakeEnds, Inv, Progress
    <3>2. Spoken = IF chosen' \in {"h2", "http/1.1"} THEN chosen'
                   ELSE IF proto = "https" THEN "http/1.1" ELSE "dns"
      BY <2>2 DEF Spoken, SpeaksHttp2, Offered, NotChosen, Untold
    <3>3. UNCHANGED <<clock, proto, until, channel, found, tried, lastError>>
      BY <1>20 DEF HandshakeEnds, asked
    <3> QED
      BY <2>2, <3>1, <3>2, <3>3, ConnectedStep
  <2> QED
    BY <1>20, <2>1, <2>2 DEF HandshakeEnds
<1>21. CASE Tick
  BY <1>1, <1>21, QuietStep DEF Tick, asked, main, Inv, TypeOK, WaitsToTheDeadline, Progress
<1>22. CASE UNCHANGED vars
  BY <1>1, <1>22, QuietStep DEF vars, asked, main, Inv, TypeOK, WaitsToTheDeadline, Progress
<1> QED
  BY <1>2, <1>3, <1>4, <1>5, <1>6, <1>7, <1>8, <1>9, <1>10, <1>11, <1>12, <1>13, <1>14, <1>15,
     <1>16, <1>17, <1>18, <1>19, <1>20, <1>21, <1>22 DEF Next, Step, Environment, Done

LEMMA InvAlways == Spec => []Inv
BY InitInv, InvNext, PTL DEF Spec

-----------------------------------------------------------------------------
(* The theorems.                                                           *)

\* The addresses are tried in turn, a failure tells the truth about them, and
\* what is spoken is what the server chose (connect_tcp, connect_udp,
\* speaks_http2).
THEOREM AddressesAreTriedInTurn == Spec => []AddressesInTurn
BY InvAlways, PTL DEF Inv

\* No wait lasts past the deadline but for its lag, for the lookup thread, an
\* address or a part of the handshake (Deadline::left, DeadlineStream).
THEOREM WaitsAreBounded == Spec => []NoWaitPastDeadline
<1>1. Inv => NoWaitPastDeadline
  BY DEF Inv, WaitsToTheDeadline, NoWaitPastDeadline
<1> QED
  BY <1>1, InvAlways, PTL

-----------------------------------------------------------------------------
(* Words and marks, and where they are in a text.                          *)

Written == Words \cup Marks

LEMMA NumbersAre ==
    /\ DOMAIN Numbers = {"0", "1", "53", "443", "0443", "+443", "65535", "65536"}
    /\ \A word \in DOMAIN Numbers : Numbers[word] \in Nat
    /\ Numbers["443"] = 443
<1>1. DOMAIN Numbers = {"0", "1", "53", "443", "0443", "+443", "65535", "65536"}
  BY DEF Numbers
<1>2. \A word \in {"0", "1", "53", "443", "0443", "+443", "65535", "65536"} : Numbers[word] \in Nat
  BY SMTT(30) DEF Numbers
<1> QED
  BY <1>1, <1>2 DEF Numbers

\* Each number can be written without a zero in front and without a sign.
LEMMA DigitsAreOfTheNumber ==
    ASSUME NEW word \in DOMAIN Numbers
    PROVE  PortDigits(Numbers[word]) \in DOMAIN Numbers /\ Numbers[PortDigits(Numbers[word])] = Numbers[word]
<1> DEFINE plain == DOMAIN Numbers \ {"0443", "+443"}
<1>1. "443" \in plain
  BY NumbersAre
<1>2. word \in {"0443", "+443"} => Numbers[word] = 443
  BY NumbersAre DEF Numbers
<1>3. \E other \in plain : Numbers[other] = Numbers[word]
  <2>1. CASE word \in {"0443", "+443"}
    <3>1. Numbers["443"] = Numbers[word]
      BY <1>2, <2>1, NumbersAre
    <3> HIDE DEF plain
    <3> QED
      BY <1>1, <3>1, Zenon
  <2>2. CASE word \notin {"0443", "+443"}
    BY <2>2
  <2> QED
    BY <2>1, <2>2
<1> QED
  BY <1>3, Zenon DEF PortDigits

LEMMA WordsAreNoMarks ==
    /\ Groups \subseteq Words /\ "v4" \in Words /\ Names \subseteq Words
    /\ Words \cap Marks = {}
BY NumbersAre DEF Groups, Words, Names, Marks

\* What an IPv6 address is made of, besides colons.
GroupWords == Groups \cup {"v4"}

\* The first and the last of the positions that there are.
LEMMA Extremes ==
    ASSUME NEW n \in Nat, NEW S \in SUBSET (1..n), S # {}
    PROVE  /\ \E first \in S : \A i \in S : first <= i
           /\ \E last \in S : \A i \in S : last >= i
<1>1. \E first \in S : \A i \in S : first <= i
  <2>1. S \subseteq Nat
    OBVIOUS
  <2>2. PICK first \in S : \A j \in S : ~(<<j, first>> \in OpToRel(<, Nat))
    BY <2>1, NatLessThanWellFounded, WFMin
  <2>3. \A j \in S : first \in Nat /\ j \in Nat /\ ~(j < first)
    BY <2>1, <2>2, Zenon DEF OpToRel
  <2> QED
    BY <2>3
<1>2. \E last \in S : \A i \in S : last >= i
  <2> DEFINE T == {n - i : i \in S}
  <2>1. T \subseteq Nat /\ T # {}
    <3>1. \A i \in S : n - i \in Nat
      OBVIOUS
    <3> QED
      BY <3>1, Zenon
  <2> HIDE DEF T
  <2>2. PICK t \in T : \A j \in T : ~(<<j, t>> \in OpToRel(<, Nat))
    BY <2>1, NatLessThanWellFounded, WFMin
  <2>3. PICK last \in S : t = n - last
    BY <2>2 DEF T
  <2>4. ASSUME NEW i \in S PROVE last >= i
    <3>1. n - i \in T /\ n - i \in Nat /\ t \in Nat
      BY <2>1, Zenon DEF T
    <3>2. ~(n - i < t)
      BY <2>2, <3>1, Zenon DEF OpToRel
    <3> QED
      BY <2>3, <3>2
  <2> QED
    BY <2>4
<1> QED
  BY <1>1, <1>2

LEMMA FirstAndLast ==
    ASSUME NEW S, NEW text \in Seq(S), NEW mark, Holds(text, mark)
    PROVE  /\ FirstOf(text, mark) \in 1..Len(text)
           /\ text[FirstOf(text, mark)] = mark
           /\ \A i \in 1..Len(text) : i < FirstOf(text, mark) => text[i] # mark
           /\ LastOf(text, mark) \in 1..Len(text)
           /\ text[LastOf(text, mark)] = mark
           /\ \A i \in 1..Len(text) : i > LastOf(text, mark) => text[i] # mark
<1> DEFINE at == {i \in DOMAIN text : text[i] = mark}
<1>1. DOMAIN text = 1..Len(text) /\ Len(text) \in Nat
  OBVIOUS
<1>2. at \in SUBSET (1..Len(text)) /\ at # {}
  BY <1>1 DEF Holds, Range
<1> HIDE DEF at
<1>3. /\ \E first \in at : \A i \in at : first <= i
      /\ \E last \in at : \A i \in at : last >= i
  BY <1>1, <1>2, Extremes
<1>4. FirstOf(text, mark) = Min(at) /\ LastOf(text, mark) = Max(at)
  BY DEF FirstOf, LastOf, at
<1>5. Min(at) \in at /\ \A i \in at : Min(at) <= i
  BY <1>3 DEF Min
<1>6. Max(at) \in at /\ \A i \in at : Max(at) >= i
  BY <1>3 DEF Max
<1>7. \A i \in 1..Len(text) : i \in at <=> text[i] = mark
  BY <1>1 DEF at
<1> DEFINE first == Min(at)
           last == Max(at)
<1> HIDE DEF first, last
<1>8. first \in at /\ last \in at /\ (\A i \in at : first <= i) /\ (\A i \in at : last >= i)
  BY <1>5, <1>6 DEF first, last
<1>9. first \in 1..Len(text) /\ last \in 1..Len(text) /\ text[first] = mark /\ text[last] = mark
  BY <1>2, <1>7, <1>8
<1>10. \A i \in 1..Len(text) : (i < first => text[i] # mark) /\ (i > last => text[i] # mark)
  BY <1>1, <1>7, <1>8, <1>9
<1> QED
  BY <1>4, <1>9, <1>10 DEF first, last

\* The parts of a text before and behind a position.
LEMMA PartsOf ==
    ASSUME NEW S, NEW text \in Seq(S), NEW i \in 1..Len(text)
    PROVE  /\ UpTo(text, i - 1) \in Seq(S) /\ Len(UpTo(text, i - 1)) = i - 1
           /\ \A j \in 1..(i - 1) : UpTo(text, i - 1)[j] = text[j]
           /\ From(text, i + 1) \in Seq(S) /\ Len(From(text, i + 1)) = Len(text) - i
           /\ \A j \in 1..(Len(text) - i) : From(text, i + 1)[j] = text[i + j]
           /\ From(text, i) \in Seq(S) /\ Len(From(text, i)) = Len(text) - i + 1
           /\ \A j \in 1..(Len(text) - i + 1) : From(text, i)[j] = text[i + j - 1]
           /\ text = UpTo(text, i - 1) \o (<<text[i]>> \o From(text, i + 1))
<1>1. Len(text) \in Nat /\ \A j \in 1..Len(text) : text[j] \in S
  OBVIOUS
<1>2. UpTo(text, i - 1) \in Seq(S) /\ Len(UpTo(text, i - 1)) = i - 1
      /\ \A j \in 1..(i - 1) : UpTo(text, i - 1)[j] = text[j]
  BY <1>1, SubSeqProperties DEF UpTo
<1>3. From(text, i + 1) \in Seq(S) /\ Len(From(text, i + 1)) = Len(text) - i
      /\ \A j \in 1..(Len(text) - i) : From(text, i + 1)[j] = text[i + j]
  BY <1>1, SubSeqProperties DEF From
<1>4. From(text, i) \in Seq(S) /\ Len(From(text, i)) = Len(text) - i + 1
      /\ \A j \in 1..(Len(text) - i + 1) : From(text, i)[j] = text[i + j - 1]
  BY <1>1, SubSeqProperties DEF From
<1> DEFINE before == UpTo(text, i - 1)
           behind == From(text, i + 1)
           one == <<text[i]>>
           rest == one \o behind
<1>5. one \in Seq(S) /\ Len(one) = 1 /\ one[1] = text[i]
  BY <1>1
<1> HIDE DEF before, behind, one
<1>6. rest \in Seq(S) /\ Len(rest) = Len(text) - i + 1
      /\ \A j \in 1..(Len(text) - i + 1) : rest[j] = text[i + j - 1]
  <2>1. behind \in Seq(S) /\ Len(behind) = Len(text) - i
        /\ \A j \in 1..(Len(text) - i) : behind[j] = text[i + j]
    BY <1>3 DEF behind
  <2>2. rest \in Seq(S) /\ Len(rest) = 1 + Len(behind)
        /\ \A j \in 1..(1 + Len(behind)) : rest[j] = IF j <= 1 THEN one[j] ELSE behind[j - 1]
    <3>1. rest \in Seq(S) /\ Len(rest) = Len(one) + Len(behind)
          /\ \A j \in 1..(Len(one) + Len(behind)) : rest[j] = IF j <= Len(one) THEN one[j] ELSE behind[j - Len(one)]
      BY <1>5, <2>1, ConcatProperties
    <3> HIDE DEF rest
    <3> QED
      BY <1>5, <3>1
  <2> HIDE DEF rest
  <2>3. ASSUME NEW j \in 1..(Len(text) - i + 1) PROVE rest[j] = text[i + j - 1]
    <3>1. CASE j = 1
      BY <1>5, <2>1, <2>2, <3>1
    <3>2. CASE j # 1
      <4>1. j - 1 \in 1..(Len(text) - i) /\ i + (j - 1) = i + j - 1 /\ ~(j <= 1)
        BY <1>1, <3>2
      <4> QED
        BY <2>1, <2>2, <4>1
    <3> QED
      BY <3>1, <3>2
  <2> QED
    BY <1>1, <2>1, <2>2, <2>3
<1> HIDE DEF rest
<1>7. before \in Seq(S) /\ Len(before) = i - 1 /\ \A j \in 1..(i - 1) : before[j] = text[j]
  BY <1>2 DEF before
<1>8. before \o rest = text
  <2>1. before \o rest \in Seq(S) /\ Len(before \o rest) = Len(before) + Len(rest)
        /\ \A j \in 1..(Len(before) + Len(rest)) :
              (before \o rest)[j] = IF j <= Len(before) THEN before[j] ELSE rest[j - Len(before)]
    BY <1>6, <1>7, ConcatProperties
  <2> DEFINE joined == before \o rest
  <2> HIDE DEF joined
  <2>2. joined \in Seq(S) /\ Len(joined) = Len(text)
    BY <1>1, <1>6, <1>7, <2>1 DEF joined
  <2>3. ASSUME NEW j \in 1..Len(text) PROVE joined[j] = text[j]
    <3>1. CASE j <= i - 1
      BY <1>1, <1>6, <1>7, <2>1, <3>1 DEF joined
    <3>2. CASE ~(j <= i - 1)
      <4>1. j - (i - 1) \in 1..(Len(text) - i + 1) /\ i + (j - (i - 1)) - 1 = j
        BY <1>1, <3>2
      <4>2. joined[j] = rest[j - (i - 1)]
        BY <1>1, <1>6, <1>7, <2>1, <3>2 DEF joined
      <4> QED
        BY <1>6, <4>1, <4>2
    <3> QED
      BY <3>1, <3>2
  <2>4. joined = text
    BY <2>2, <2>3
  <2> QED
    BY <2>4 DEF joined
<1> QED
  BY <1>2, <1>3, <1>4, <1>8 DEF before, behind, rest, one

\* What is before a mark and what is behind it, around the mark.
Around(a, mark, b) == a \o (<<mark>> \o b)

LEMMA PartsMakeText ==
    ASSUME NEW S, NEW text \in Seq(S), NEW i \in 1..Len(text)
    PROVE  /\ UpTo(text, i - 1) \in Seq(S) /\ From(text, i + 1) \in Seq(S)
           /\ text = Around(UpTo(text, i - 1), text[i], From(text, i + 1))
BY PartsOf, ZenonT(30) DEF Around

\* A text put together of what is before a mark and what is behind it.
PartsAre(text, a, b) == UpTo(text, Len(a)) = a /\ From(text, Len(a) + 2) = b

LEMMA JoinedAt ==
    ASSUME NEW S, NEW a \in Seq(S), NEW mark \in S, NEW b \in Seq(S)
    PROVE  LET text == Around(a, mark, b) IN
           /\ text \in Seq(S) /\ Len(text) = Len(a) + 1 + Len(b)
           /\ text[Len(a) + 1] = mark
           /\ \A j \in 1..Len(a) : text[j] = a[j]
           /\ \A j \in 1..Len(b) : text[Len(a) + 1 + j] = b[j]
           /\ PartsAre(text, a, b)
<1> DEFINE text == Around(a, mark, b)
           one == <<mark>>
           rest == one \o b
<1>1. one \in Seq(S) /\ Len(one) = 1 /\ one[1] = mark /\ Len(a) \in Nat /\ Len(b) \in Nat
  OBVIOUS
<1> HIDE DEF one
<1>2. rest \in Seq(S) /\ Len(rest) = Len(one) + Len(b)
      /\ \A j \in 1..(Len(one) + Len(b)) : rest[j] = IF j <= Len(one) THEN one[j] ELSE b[j - Len(one)]
  BY <1>1, ConcatProperties
<1> HIDE DEF rest
<1>3. text = a \o rest
  BY Zenon DEF Around, rest, one
<1> HIDE DEF text
<1>4. a \o rest \in Seq(S) /\ Len(a \o rest) = Len(a) + Len(rest)
      /\ \A j \in 1..(Len(a) + Len(rest)) : (a \o rest)[j] = IF j <= Len(a) THEN a[j] ELSE rest[j - Len(a)]
  <2>1. rest \in Seq(S)
    BY <1>2
  <2> QED
    BY <2>1, ConcatProperties
<1>5. text \in Seq(S) /\ Len(text) = Len(a) + Len(rest)
      /\ \A j \in 1..(Len(a) + Len(rest)) : text[j] = IF j <= Len(a) THEN a[j] ELSE rest[j - Len(a)]
  BY <1>3, <1>4
<1>6. Len(rest) = 1 + Len(b) /\ rest[1] = mark /\ \A j \in 1..Len(b) : rest[1 + j] = b[j]
  <2>1. Len(rest) = 1 + Len(b) /\ rest[1] = mark
    BY <1>1, <1>2
  <2>2. ASSUME NEW j \in 1..Len(b) PROVE rest[1 + j] = b[j]
    <3>1. 1 + j \in 1..(1 + Len(b)) /\ ~(1 + j <= 1) /\ (1 + j) - 1 = j
      BY <1>1
    <3> QED
      BY <1>1, <1>2, <3>1
  <2> QED
    BY <2>1, <2>2
<1>7. Len(text) = Len(a) + 1 + Len(b)
  BY <1>1, <1>5, <1>6
<1>8. text[Len(a) + 1] = mark
  <2>1. Len(a) + 1 \in 1..(Len(a) + Len(rest)) /\ ~(Len(a) + 1 <= Len(a)) /\ (Len(a) + 1) - Len(a) = 1
    BY <1>1, <1>6
  <2> QED
    BY <1>5, <1>6, <2>1
<1>9. \A j \in 1..Len(a) : text[j] = a[j]
  BY <1>1, <1>5, <1>6
<1>10. ASSUME NEW j \in 1..Len(b) PROVE text[Len(a) + 1 + j] = b[j]
  <2>1. /\ Len(a) + 1 + j \in 1..(Len(a) + Len(rest)) /\ ~(Len(a) + 1 + j <= Len(a))
        /\ (Len(a) + 1 + j) - Len(a) = 1 + j
    BY <1>1, <1>6
  <2> QED
    BY <1>5, <1>6, <2>1
<1>11. UpTo(text, Len(a)) = a
  <2> DEFINE n == Len(a)
  <2>1. n \in Nat /\ n <= Len(text) /\ \A j \in 1..n : text[j] \in S
    BY <1>1, <1>5, <1>7
  <2> HIDE DEF n
  <2>2. SubSeq(text, 1, n) \in Seq(S) /\ Len(SubSeq(text, 1, n)) = n
        /\ \A j \in 1..n : SubSeq(text, 1, n)[j] = text[j]
    <3>1. n >= 1 - 1 /\ n - 1 + 1 = n /\ \A j \in 1..n : 1 + j - 1 = j
      BY <2>1
    <3> QED
      BY <1>5, <2>1, <3>1, SubSeqProperties
  <2> DEFINE part == SubSeq(text, 1, n)
  <2> HIDE DEF part
  <2>3. part \in Seq(S) /\ Len(part) = Len(a) /\ \A j \in 1..Len(a) : part[j] = a[j]
    BY <1>9, <2>2 DEF part, n
  <2>4. part = a
    BY <2>3
  <2> QED
    BY <2>4 DEF part, UpTo, n
<1>12. From(text, Len(a) + 2) = b
  <2> DEFINE m == Len(a) + 2
             n == Len(text)
  <2>1. m \in Nat \ {0} /\ n \in Nat /\ n - m + 1 = Len(b) /\ n >= m - 1
        /\ \A j \in 1..Len(b) : m + j - 1 = Len(a) + 1 + j /\ m + j - 1 \in 1..n
    BY <1>1, <1>7
  <2> HIDE DEF m, n
  <2>2. SubSeq(text, m, n) \in Seq(S) /\ Len(SubSeq(text, m, n)) = Len(b)
        /\ \A j \in 1..Len(b) : SubSeq(text, m, n)[j] = text[m + j - 1]
    <3>1. text \in Seq(S) /\ \A i \in m..n : text[i] \in S
      <4>1. \A i \in m..n : i \in 1..n
        BY <2>1
      <4> QED
        BY <1>5, <4>1 DEF n
    <3> QED
      BY <2>1, <3>1, SubSeqProperties
  <2> DEFINE part == SubSeq(text, m, n)
  <2> HIDE DEF part
  <2>3. part \in Seq(S) /\ Len(part) = Len(b) /\ \A j \in 1..Len(b) : part[j] = b[j]
    BY <1>10, <2>1, <2>2 DEF part
  <2>4. part = b
    BY <2>3, SeqEqual
  <2> QED
    BY <2>4 DEF part, From, m, n
<1> QED
  BY <1>5, <1>7, <1>8, <1>9, <1>10, <1>11, <1>12 DEF text, PartsAre

LEMMA FirstIs ==
    ASSUME NEW S, NEW text \in Seq(S), NEW mark, NEW n \in 1..Len(text), text[n] = mark,
           \A i \in 1..Len(text) : i < n => text[i] # mark
    PROVE  Holds(text, mark) /\ FirstOf(text, mark) = n
<1>1. Holds(text, mark)
  BY DEF Holds, Range
<1>2. /\ FirstOf(text, mark) \in 1..Len(text) /\ text[FirstOf(text, mark)] = mark
      /\ \A i \in 1..Len(text) : i < FirstOf(text, mark) => text[i] # mark
  BY <1>1, FirstAndLast
<1> DEFINE first == FirstOf(text, mark)
<1> HIDE DEF first
<1>3. first \in 1..Len(text) /\ ~(first < n) /\ ~(n < first)
  BY <1>2 DEF first
<1>4. first = n
  BY <1>3
<1> QED
  BY <1>1, <1>4 DEF first

LEMMA LastIs ==
    ASSUME NEW S, NEW text \in Seq(S), NEW mark, NEW n \in 1..Len(text), text[n] = mark,
           \A i \in 1..Len(text) : i > n => text[i] # mark
    PROVE  Holds(text, mark) /\ LastOf(text, mark) = n
<1>1. Holds(text, mark)
  BY DEF Holds, Range
<1>2. /\ LastOf(text, mark) \in 1..Len(text) /\ text[LastOf(text, mark)] = mark
      /\ \A i \in 1..Len(text) : i > LastOf(text, mark) => text[i] # mark
  BY <1>1, FirstAndLast
<1> DEFINE last == LastOf(text, mark)
<1> HIDE DEF last
<1>3. last \in 1..Len(text) /\ ~(last > n) /\ ~(n > last)
  BY <1>2 DEF last
<1>4. last = n
  BY <1>3
<1> QED
  BY <1>1, <1>4 DEF last

\* It is split there, when the mark is nowhere before, or nowhere behind.
LEMMA SplitAtFirst ==
    ASSUME NEW S, NEW a \in Seq(S), NEW mark \in S, NEW b \in Seq(S),
           \A j \in 1..Len(a) : a[j] # mark
    PROVE  LET text == Around(a, mark, b) IN Holds(text, mark) /\ FirstOf(text, mark) = Len(a) + 1
<1> DEFINE text == Around(a, mark, b)
<1>1. /\ text \in Seq(S) /\ Len(text) = Len(a) + 1 + Len(b) /\ text[Len(a) + 1] = mark
      /\ \A j \in 1..Len(a) : text[j] = a[j]
  BY JoinedAt
<1> HIDE DEF text
<1> DEFINE n == Len(a) + 1
<1>2. Len(a) \in Nat /\ Len(b) \in Nat
  OBVIOUS
<1>3. n \in 1..Len(text) /\ text[n] = mark
  BY <1>1, <1>2
<1>4. ASSUME NEW i \in 1..Len(text), i < n PROVE text[i] # mark
  <2>1. i \in 1..Len(a)
    BY <1>2, <1>4
  <2> QED
    BY <1>1, <2>1, Zenon
<1> HIDE DEF n
<1>5. text \in Seq(S)
  BY <1>1
<1>6. Holds(text, mark) /\ FirstOf(text, mark) = n
  BY <1>3, <1>4, <1>5, FirstIs
<1> QED
  BY <1>6 DEF n, text

LEMMA SplitAtLast ==
    ASSUME NEW S, NEW a \in Seq(S), NEW mark \in S, NEW b \in Seq(S),
           \A j \in 1..Len(b) : b[j] # mark
    PROVE  LET text == Around(a, mark, b) IN Holds(text, mark) /\ LastOf(text, mark) = Len(a) + 1
<1> DEFINE text == Around(a, mark, b)
<1>1. /\ text \in Seq(S) /\ Len(text) = Len(a) + 1 + Len(b) /\ text[Len(a) + 1] = mark
      /\ \A j \in 1..Len(b) : text[Len(a) + 1 + j] = b[j]
  BY JoinedAt
<1> HIDE DEF text
<1> DEFINE n == Len(a) + 1
<1>2. Len(a) \in Nat /\ Len(b) \in Nat
  OBVIOUS
<1>3. n \in 1..Len(text) /\ text[n] = mark
  BY <1>1, <1>2
<1>4. ASSUME NEW i \in 1..Len(text), i > n PROVE text[i] # mark
  <2> DEFINE j == i - n
  <2>1. j \in 1..Len(b) /\ n + j = i
    BY <1>1, <1>2, <1>4
  <2> HIDE DEF j
  <2>2. text[n + j] = b[j] /\ b[j] # mark
    BY <1>1, <2>1
  <2> QED
    BY <2>1, <2>2
<1> HIDE DEF n
<1>5. text \in Seq(S)
  BY <1>1
<1>6. Holds(text, mark) /\ LastOf(text, mark) = n
  BY <1>3, <1>4, <1>5, LastIs
<1> QED
  BY <1>6 DEF n, text

-----------------------------------------------------------------------------
(* What hosts look like.                                                   *)

LEMMA GroupsMean ==
    ASSUME NEW S, NEW text \in Seq(S), IsGroups(text)
    PROVE  /\ Len(text) \in Nat \ {0} /\ text[1] \in GroupWords
           /\ \A i \in 1..Len(text) : text[i] \in GroupWords \cup {":"}
           /\ Count(text) = 8 => Len(text) >= 4 /\ text[2] = ":" /\ text[4] = ":"
<1>1. DOMAIN text = 1..Len(text) /\ Len(text) \in Nat
  OBVIOUS
<1>2. /\ Len(text) % 2 = 1
      /\ \A i \in 1..Len(text) : IF i % 2 = 1 THEN text[i] \in GroupWords ELSE text[i] = ":"
  BY <1>1 DEF IsGroups, GroupWords
<1>3. Len(text) # 0
  BY <1>1, <1>2
<1>4. 1 \in 1..Len(text) /\ 1 % 2 = 1
  BY <1>1, <1>3
<1>5. text[1] \in GroupWords
  BY <1>2, <1>4
<1>6. ASSUME Count(text) = 8 PROVE Len(text) >= 4 /\ text[2] = ":" /\ text[4] = ":"
  <2>1. Len(text) >= 4
    <3>1. (Len(text) + 1) \div 2 = 8 \/ (Len(text) + 1) \div 2 + 1 = 8
      BY <1>6 DEF Count
    <3> QED
      BY <1>1, <3>1
  <2>2. 2 \in 1..Len(text) /\ 4 \in 1..Len(text) /\ 2 % 2 # 1 /\ 4 % 2 # 1
    BY <1>1, <2>1
  <2> QED
    BY <1>2, <2>1, <2>2
<1> QED
  BY <1>1, <1>2, <1>3, <1>5, <1>6

LEMMA IPv6Means ==
    ASSUME NEW S, NEW text \in Seq(S), IsIPv6(text)
    PROVE  /\ Len(text) \in Nat \ {0} /\ text[1] \in GroupWords \cup {":"}
           /\ \A i \in 1..Len(text) : text[i] \in GroupWords \cup {":"}
           /\ \E i, j \in 1..Len(text) : i # j /\ text[i] = ":" /\ text[j] = ":"
<1>1. DOMAIN text = 1..Len(text) /\ Len(text) \in Nat
  OBVIOUS
<1>2. CASE IsGroups(text) /\ Count(text) = 8
  <2>1. /\ Len(text) \in Nat \ {0} /\ \A i \in 1..Len(text) : text[i] \in GroupWords \cup {":"}
        /\ Len(text) >= 4 /\ text[2] = ":" /\ text[4] = ":"
    BY <1>2, GroupsMean
  <2> QED
    BY <2>1
<1>3. CASE ~(IsGroups(text) /\ Count(text) = 8)
  <2>1. PICK i \in DOMAIN text :
          /\ i < Len(text) /\ text[i] = ":" /\ text[i + 1] = ":"
          /\ UpTo(text, i - 1) = <<>> \/ IsGroups(UpTo(text, i - 1))
          /\ From(text, i + 2) = <<>> \/ IsGroups(From(text, i + 2))
    BY <1>3 DEF IsIPv6
  <2> DEFINE left == UpTo(text, i - 1)
             right == From(text, i + 2)
             n == i + 1
  <2>2. i \in 1..Len(text) /\ n \in 1..Len(text) /\ n + 1 = i + 2 /\ n \in Nat /\ i \in Nat
    BY <1>1, <2>1
  <2>3. left \in Seq(S) /\ Len(left) = i - 1 /\ \A j \in 1..(i - 1) : left[j] = text[j]
    BY <2>2, PartsOf
  <2>4. right \in Seq(S) /\ Len(right) = Len(text) - n
        /\ \A j \in 1..(Len(text) - n) : right[j] = text[n + j]
    <3> HIDE DEF n
    <3>1. From(text, n + 1) \in Seq(S) /\ Len(From(text, n + 1)) = Len(text) - n
          /\ \A j \in 1..(Len(text) - n) : From(text, n + 1)[j] = text[n + j]
      BY <2>2, PartsOf
    <3> QED
      BY <2>2, <3>1
  <2> HIDE DEF left, right
  <2>5. ASSUME NEW j \in 1..(i - 1) PROVE text[j] \in GroupWords \cup {":"}
    <3>1. left # <<>>
      BY <2>2, <2>3
    <3>2. IsGroups(left)
      BY <2>1, <3>1 DEF left
    <3>3. \A k \in 1..Len(left) : left[k] \in GroupWords \cup {":"}
      BY <2>3, <3>2, GroupsMean
    <3> QED
      BY <2>3, <3>3
  <2>6. ASSUME NEW j \in 1..(Len(text) - n) PROVE text[n + j] \in GroupWords \cup {":"}
    <3>1. right # <<>>
      BY <1>1, <2>2, <2>4
    <3>2. IsGroups(right)
      BY <2>1, <3>1 DEF right
    <3>3. \A k \in 1..Len(right) : right[k] \in GroupWords \cup {":"}
      BY <2>4, <3>2, GroupsMean
    <3> QED
      BY <2>4, <3>3
  <2>7. ASSUME NEW k \in 1..Len(text) PROVE text[k] \in GroupWords \cup {":"}
    <3>1. CASE k < i
      BY <2>2, <2>5, <3>1
    <3>2. CASE k = i \/ k = n
      BY <2>1, <3>2
    <3>3. CASE k > n
      <4> DEFINE j == k - n
      <4>1. j \in 1..(Len(text) - n) /\ n + j = k
        BY <1>1, <2>2, <3>3
      <4> HIDE DEF j, n
      <4> QED
        BY <2>6, <4>1
    <3> QED
      BY <2>2, <3>1, <3>2, <3>3
  <2>8. 1 \in 1..Len(text) /\ i # n
    BY <1>1, <2>2
  <2>9. \E k, j \in 1..Len(text) : k # j /\ text[k] = ":" /\ text[j] = ":"
    BY <2>1, <2>2, <2>8
  <2> QED
    BY <1>1, <2>7, <2>8, <2>9
<1> QED
  BY <1>2, <1>3

\* A host is made of words, and of colons if it is an IPv6 address.
LEMMA HostMeans ==
    ASSUME NEW S, NEW host \in Seq(S), IsHost(host)
    PROVE  /\ \A i \in 1..Len(host) : host[i] \in Words \cup {":"}
           /\ ~IsIPv6(host) => \A i \in 1..Len(host) : host[i] \in Words
<1>1. DOMAIN host = 1..Len(host) /\ Len(host) \in Nat
  OBVIOUS
<1>2. CASE IsIPv6(host)
  BY <1>2, IPv6Means, WordsAreNoMarks DEF GroupWords
<1>3. CASE ~IsIPv6(host) /\ host = <<"v4">>
  <2>1. "v4" \in Words
    BY DEF Words
  <2>2. Len(host) = 1 /\ host[1] = "v4"
    BY <1>3
  <2> QED
    BY <1>3, <2>1, <2>2
<1>4. CASE Range(host) \subseteq Names
  BY <1>1, <1>4, WordsAreNoMarks DEF Range
<1> QED
  BY <1>2, <1>3, <1>4 DEF IsHost, IsIP

\* What has a bracket is no host, and no two texts are next to each other.
LEMMA MarksAreOther ==
    /\ ":" \in Marks /\ "[" \in Marks /\ "]" \in Marks /\ "/" \in Marks
    /\ \A word \in Words \cup {":"} : word \notin {"[", "]", "/"}
    /\ \A word \in Words : word # ":"
BY WordsAreNoMarks DEF Marks

LEMMA SchemeHasSlash ==
    ASSUME NEW S, NEW text \in Seq(S), \A i \in 1..Len(text) : text[i] # "/"
    PROVE  ~HasScheme(text)
<1> SUFFICES ASSUME HasScheme(text) PROVE FALSE
  OBVIOUS
<1>1. PICK i \in DOMAIN text : i + 2 <= Len(text) /\ SubSeq(text, i, i + 2) = Tail(Scheme)
  BY DEF HasScheme
<1>2. i \in Nat \ {0} /\ i + 2 \in Nat /\ i + 1 \in 1..Len(text) /\ \A k \in i..(i + 2) : text[k] \in S
  BY <1>1
<1>3. SubSeq(text, i, i + 2)[2] = text[i + 1]
  BY <1>2
<1>4. Tail(Scheme)[2] = "/"
  BY DEF Scheme
<1> QED
  BY <1>1, <1>2, <1>3, <1>4

-----------------------------------------------------------------------------
(* The ways to write a host and a port.                                    *)

\* A host in brackets, and what follows them.
Bracketed(host, rest) == <<"[">> \o Around(host, "]", rest)

LEMMA BracketsAround ==
    ASSUME NEW host \in Seq(Written), NEW rest \in Seq(Written)
    PROVE  /\ (<<"[">> \o host \o <<"]">>) \o rest = Bracketed(host, rest)
           /\ <<"[">> \o host \o <<"]">> = Bracketed(host, <<>>)
<1> DEFINE open == <<"[">>
           close == <<"]">>
<1>1. open \in Seq(Written) /\ close \in Seq(Written)
  BY MarksAreOther DEF Written
<1> HIDE DEF open, close
<1>2. open \o host \in Seq(Written) /\ close \o rest \in Seq(Written)
  BY <1>1
<1>3. ((open \o host) \o close) \o rest = (open \o host) \o (close \o rest)
  BY <1>1, <1>2, ConcatAssociative, SMTT(30)
<1>4. (open \o host) \o (close \o rest) = open \o (host \o (close \o rest))
  <2> DEFINE behind == close \o rest
  <2>1. behind \in Seq(Written)
    BY <1>2
  <2> HIDE DEF behind
  <2>2. (open \o host) \o behind = open \o (host \o behind)
    BY <1>1, <2>1, ConcatAssociative, SMTT(30)
  <2> QED
    BY <2>2 DEF behind
<1>5. (open \o host) \o close = open \o (host \o close)
  BY <1>1, ConcatAssociative
<1>6. close \o <<>> = close
  BY <1>1
<1> QED
  BY <1>3, <1>4, <1>5, <1>6 DEF Bracketed, Around, open, close

\* A colon and a port.
Port(word) == <<":">> \o <<word>>

LEMMA PortIs ==
    ASSUME NEW word \in Words
    PROVE  <<":", word>> = Port(word) /\ Port(word) \in Seq(Written)
<1>1. Port(word) \in Seq(Written)
  BY MarksAreOther DEF Written, Port
<1>2. <<":", word>> \in Seq(Written)
  BY MarksAreOther DEF Written
<1> DEFINE s == <<":", word>>
           t == Port(word)
<1>3. Len(s) = Len(t) /\ \A i \in 1..Len(s) : s[i] = t[i]
  BY DEF Port
<1> HIDE DEF s, t
<1>4. s = t
  <2>1. s \in Seq(Written) /\ t \in Seq(Written)
    BY <1>1, <1>2 DEF s, t
  <2> QED
    BY <1>3, <2>1, SeqEqual
<1> QED
  BY <1>1, <1>4 DEF s, t

LEMMA WaysAre ==
    ASSUME NEW host \in Seq(Written), NEW port, NEW default_port, NEW text
    PROVE  text \in WaysToWrite(host, port, default_port) <=>
              \/ \E word \in DOMAIN Numbers :
                    /\ Numbers[word] = port
                    /\ \/ text = Bracketed(host, Port(word))
                       \/ text = host \o Port(word) /\ ~IsIPv6(text)
              \/ port = default_port /\ (text = host \/ text = Bracketed(host, <<>>))
<1>1. \A word \in DOMAIN Numbers :
        /\ <<":", word>> = Port(word)
        /\ (<<"[">> \o host \o <<"]">>) \o <<":", word>> = Bracketed(host, Port(word))
  <2> TAKE word \in DOMAIN Numbers
  <2>1. <<":", word>> = Port(word) /\ Port(word) \in Seq(Written)
    BY PortIs DEF Words
  <2>2. (<<"[">> \o host \o <<"]">>) \o Port(word) = Bracketed(host, Port(word))
    BY <2>1, BracketsAround
  <2> QED
    BY <2>1, <2>2
<1>2. <<"[">> \o host \o <<"]">> = Bracketed(host, <<>>)
  BY BracketsAround
<1> DEFINE bracketed == <<"[">> \o host \o <<"]">>
           digits == {word \in DOMAIN Numbers : Numbers[word] = port}
<1>3. WaysToWrite(host, port, default_port) =
        {bracketed \o <<":", word>> : word \in digits}
        \cup {t \in {host \o <<":", word>> : word \in digits} : ~IsIPv6(t)}
        \cup (IF port = default_port THEN {host, bracketed} ELSE {})
  BY DEF WaysToWrite
<1>4. \A word \in digits : bracketed \o <<":", word>> = Bracketed(host, Port(word))
                           /\ host \o <<":", word>> = host \o Port(word)
  BY <1>1
<1>5. bracketed = Bracketed(host, <<>>)
  BY <1>2
<1> HIDE DEF bracketed
<1>6. text \in WaysToWrite(host, port, default_port) <=>
        \/ \E word \in digits : text = bracketed \o <<":", word>>
        \/ ~IsIPv6(text) /\ \E word \in digits : text = host \o <<":", word>>
        \/ port = default_port /\ (text = host \/ text = bracketed)
  BY <1>3, Zenon
<1>7. /\ (\E word \in digits : text = bracketed \o <<":", word>>)
            <=> (\E word \in digits : text = Bracketed(host, Port(word)))
      /\ (\E word \in digits : text = host \o <<":", word>>)
            <=> (\E word \in digits : text = host \o Port(word))
  BY <1>4, Zenon
<1> QED
  BY <1>5, <1>6, <1>7, Zenon

\* What follows an opening bracket.
LEMMA BehindBracket ==
    ASSUME NEW rest \in Seq(Written), NEW text, text = <<"[">> \o rest
    PROVE  text \in Seq(Written) /\ text # <<>> /\ text[1] = "[" /\ Tail(text) = rest /\ Len(text) >= 1
<1> DEFINE open == <<"[">>
<1>1. open \in Seq(Written) /\ Len(open) = 1 /\ open[1] = "["
  BY MarksAreOther DEF Written
<1>2. text = open \o rest
  OBVIOUS
<1> HIDE DEF open
<1>3. /\ open \o rest \in Seq(Written) /\ Len(open \o rest) = Len(open) + Len(rest)
      /\ \A j \in 1..(Len(open) + Len(rest)) : (open \o rest)[j] = IF j <= Len(open) THEN open[j] ELSE rest[j - Len(open)]
  BY <1>1, ConcatProperties
<1>4. /\ text \in Seq(Written) /\ Len(text) = 1 + Len(rest) /\ Len(rest) \in Nat
      /\ \A j \in 1..(1 + Len(rest)) : text[j] = IF j <= 1 THEN open[j] ELSE rest[j - 1]
  BY <1>1, <1>2, <1>3
<1>5. text # <<>> /\ text[1] = "[" /\ Len(text) >= 1
  BY <1>1, <1>4
<1>6. Tail(text) \in Seq(Written) /\ Len(Tail(text)) = Len(rest)
      /\ \A j \in 1..Len(rest) : Tail(text)[j] = text[j + 1]
  BY <1>4, <1>5
<1>7. ASSUME NEW j \in 1..Len(rest) PROVE Tail(text)[j] = rest[j]
  <2>1. j + 1 \in 1..(1 + Len(rest)) /\ ~(j + 1 <= 1) /\ (j + 1) - 1 = j
    BY <1>4
  <2> QED
    BY <1>4, <1>6, <2>1
<1> DEFINE tail == Tail(text)
<1> HIDE DEF tail
<1>8. tail \in Seq(Written) /\ Len(tail) = Len(rest) /\ \A j \in 1..Len(tail) : tail[j] = rest[j]
  BY <1>6, <1>7 DEF tail
<1>9. tail = rest
  BY <1>8, SeqEqual
<1> QED
  BY <1>4, <1>5, <1>9 DEF tail

\* A text is its first mark or word and what follows it.
LEMMA HeadAndTail ==
    ASSUME NEW S, NEW text \in Seq(S), text # <<>>
    PROVE  Tail(text) \in Seq(S) /\ text = <<text[1]>> \o Tail(text)
<1> DEFINE one == <<text[1]>>
           tail == Tail(text)
<1>1. Len(text) \in Nat \ {0} /\ text[1] \in S
  OBVIOUS
<1>2. tail \in Seq(S) /\ Len(tail) = Len(text) - 1 /\ \A j \in 1..(Len(text) - 1) : tail[j] = text[j + 1]
  BY <1>1
<1>3. one \in Seq(S) /\ Len(one) = 1 /\ one[1] = text[1]
  BY <1>1
<1> HIDE DEF one, tail
<1> DEFINE all == one \o tail
<1>4. all \in Seq(S) /\ Len(all) = Len(one) + Len(tail)
      /\ \A j \in 1..(Len(one) + Len(tail)) : all[j] = IF j <= Len(one) THEN one[j] ELSE tail[j - Len(one)]
  <2>1. one \in Seq(S) /\ tail \in Seq(S)
    BY <1>2, <1>3
  <2> QED
    BY <2>1, ConcatProperties
<1> HIDE DEF all
<1>5. Len(all) = Len(text)
  BY <1>1, <1>2, <1>3, <1>4
<1>6. ASSUME NEW j \in 1..Len(all) PROVE all[j] = text[j]
  <2>1. CASE j = 1
    BY <1>1, <1>2, <1>3, <1>4, <2>1
  <2>2. CASE j # 1
    <3>1. j - 1 \in 1..(Len(text) - 1) /\ (j - 1) + 1 = j /\ ~(j <= 1) /\ j \in 1..(1 + Len(tail))
      BY <1>1, <1>2, <1>5, <2>2
    <3> QED
      BY <1>2, <1>3, <1>4, <3>1
  <2> QED
    BY <2>1, <2>2
<1>7. all = text
  BY <1>4, <1>5, <1>6, SeqEqual
<1> QED
  BY <1>2, <1>7 DEF all, one, tail

-----------------------------------------------------------------------------
(* What is accepted is one of the ways.                                    *)

LEMMA UnusableIsNot == ASSUME NEW reason PROVE Unusable(reason).ok = FALSE
BY DEF Unusable

LEMMA AcceptedParts ==
    ASSUME NEW parts, parts.ok = TRUE, NEW default_port,
           HostAndPort(parts, default_port).ok
    PROVE  /\ parts.host # <<>> /\ IsHost(parts.host)
           /\ HostAndPort(parts, default_port).host = parts.host
           /\ \/ parts.port = <<>> /\ HostAndPort(parts, default_port).port = default_port
              \/ /\ parts.port # <<>> /\ IsPort(parts.port[1])
                 /\ HostAndPort(parts, default_port).port = Numbers[parts.port[1][1]]
<1>1. parts.host # <<>> /\ IsHost(parts.host)
  BY UnusableIsNot DEF HostAndPort
<1>2. CASE parts.port = <<>>
  BY <1>1, <1>2 DEF HostAndPort
<1>3. CASE parts.port # <<>> /\ IsPort(parts.port[1])
  BY <1>1, <1>3 DEF HostAndPort
<1>4. CASE parts.port # <<>> /\ ~IsPort(parts.port[1])
  BY <1>1, <1>4, UnusableIsNot DEF HostAndPort
<1> QED
  BY <1>1, <1>2, <1>3, <1>4

\* A port is one word.
LEMMA SmallNumber ==
    ASSUME NEW word \in DOMAIN Numbers, Numbers[word] <= MaxPort
    PROVE  Numbers[word] \in 0..MaxPort
<1> DEFINE n == Numbers[word]
<1>1. n \in Nat /\ n <= MaxPort /\ MaxPort \in Nat
  BY NumbersAre DEF MaxPort
<1> HIDE DEF n
<1>2. n \in 0..MaxPort
  BY <1>1
<1> QED
  BY <1>2, Zenon DEF n

LEMMA PortIsWord ==
    ASSUME NEW text \in Seq(Written), IsPort(text)
    PROVE  \E word \in DOMAIN Numbers :
              /\ text[1] = word /\ text = <<word>> /\ Numbers[word] \in 0..MaxPort
              /\ <<":">> \o text = Port(word)
<1>1. PICK word \in DOMAIN Numbers : text[1] = word /\ Len(text) = 1 /\ Numbers[word] <= MaxPort
  BY DEF IsPort
<1>2. text = <<word>>
  BY <1>1
<1>3. Numbers[word] \in 0..MaxPort
  BY <1>1, SmallNumber
<1>4. <<":">> \o text = Port(word)
  BY <1>2, Zenon DEF Port
<1> QED
  BY <1>1, <1>2, <1>3, <1>4, Zenon

LEMMA TextsAreTakenAsWritten ==
    ASSUME NEW text \in Seq(Written), NEW default_port
    PROVE  TakenAsWritten(text, default_port)
<1> DEFINE server == ParseHostPort(text, default_port)
<1> SUFFICES ASSUME server.ok PROVE text \in WaysToWrite(server.host, server.port, default_port)
  BY DEF TakenAsWritten
<1>1. ~HasScheme(text)
  BY UnusableIsNot DEF ParseHostPort
<1>2. CASE IsIPv6(text)
  <2>1. server.host = text /\ server.port = default_port
    BY <1>1, <1>2 DEF ParseHostPort
  <2> QED
    BY <2>1, WaysAre
<1>3. CASE ~IsIPv6(text) /\ text # <<>> /\ text[1] = "["
  <2> DEFINE bracketed == Tail(text)
             close == FirstOf(bracketed, "]")
             host == UpTo(bracketed, close - 1)
             rest == From(bracketed, close + 1)
             parts == SplitBracketed(bracketed)
  <2>1. bracketed \in Seq(Written) /\ text = <<"[">> \o bracketed
    BY <1>3, HeadAndTail
  <2>2. server = HostAndPort(parts, default_port)
    BY <1>1, <1>3 DEF ParseHostPort
  <2> HIDE DEF bracketed, server
  <2>3. parts.ok = TRUE
    <3>1. parts.ok \in BOOLEAN
      <4>1. CASE ~Holds(bracketed, "]")
        BY <4>1, UnusableIsNot DEF SplitBracketed
      <4>2. CASE Holds(bracketed, "]") /\ rest = <<>>
        BY <4>2 DEF SplitBracketed
      <4>3. CASE Holds(bracketed, "]") /\ rest # <<>> /\ rest[1] = ":"
        BY <4>3 DEF SplitBracketed
      <4>4. CASE Holds(bracketed, "]") /\ rest # <<>> /\ rest[1] # ":"
        BY <4>4, UnusableIsNot DEF SplitBracketed
      <4> HIDE DEF rest, parts
      <4> QED
        BY <4>1, <4>2, <4>3, <4>4
    <3>2. CASE parts.ok = FALSE
      BY <2>2, <3>2 DEF HostAndPort
    <3> QED
      BY <3>1, <3>2
  <2>4. Holds(bracketed, "]")
    BY <2>3, UnusableIsNot DEF SplitBracketed
  <2>5. close \in 1..Len(bracketed) /\ bracketed[close] = "]"
    BY <2>1, <2>4, FirstAndLast
  <2>6. /\ host \in Seq(Written) /\ rest \in Seq(Written)
        /\ bracketed = Around(host, "]", rest)
    <3> HIDE DEF close
    <3>1. /\ host \in Seq(Written) /\ rest \in Seq(Written)
          /\ bracketed = Around(host, bracketed[close], rest)
      BY <2>1, <2>5, PartsMakeText
    <3> QED
      BY <2>5, <3>1, Zenon
  <2>7. \/ rest = <<>> /\ parts = [ok |-> TRUE, host |-> host, port |-> <<>>]
        \/ rest # <<>> /\ rest[1] = ":" /\ parts = [ok |-> TRUE, host |-> host, port |-> <<Tail(rest)>>]
    BY <2>3, <2>4, UnusableIsNot DEF SplitBracketed
  <2> HIDE DEF close, host, rest, parts
  <2>8. text = Bracketed(host, rest)
    BY <2>1, <2>6, Zenon DEF Bracketed
  <2>9. /\ server.host = parts.host
        /\ \/ parts.port = <<>> /\ server.port = default_port
           \/ parts.port # <<>> /\ IsPort(parts.port[1]) /\ server.port = Numbers[parts.port[1][1]]
    BY <2>2, <2>3, AcceptedParts
  <2>10. CASE rest = <<>>
    <3>1. server.host = host /\ server.port = default_port
      BY <2>7, <2>9, <2>10
    <3> QED
      BY <2>6, <2>8, <2>10, <3>1, WaysAre
  <2>11. CASE rest # <<>> /\ rest[1] = ":" /\ parts = [ok |-> TRUE, host |-> host, port |-> <<Tail(rest)>>]
    <3> DEFINE port == Tail(rest)
    <3>1. port \in Seq(Written) /\ rest = <<":">> \o port
      <4>1. Len(rest) \in Nat /\ 1 \in 1..Len(rest)
        BY <2>6, <2>11
      <4> QED
        BY <2>6, <2>11, <4>1, HeadAndTail
    <3> HIDE DEF port
    <3>2. parts.port # <<>> /\ parts.port[1] = port /\ parts.host = host
      BY <2>11 DEF port
    <3>3. IsPort(port) /\ server.port = Numbers[port[1]] /\ server.host = host
      BY <2>9, <3>2
    <3>4. PICK word \in DOMAIN Numbers : port[1] = word /\ <<":">> \o port = Port(word)
      BY <3>1, <3>3, PortIsWord
    <3>5. Numbers[word] = server.port /\ text = Bracketed(host, Port(word))
      BY <2>8, <3>1, <3>3, <3>4, Zenon
    <3>7. text \in WaysToWrite(host, server.port, default_port)
      BY <2>6, <3>5, WaysAre, Zenon
    <3> QED
      BY <3>3, <3>7, Zenon
  <2> QED
    BY <2>7, <2>10, <2>11
<1>4. CASE ~IsIPv6(text) /\ ~(text # <<>> /\ text[1] = "[")
  <2> DEFINE parts == Split(text)
             colon == LastOf(text, ":")
             host == UpTo(text, colon - 1)
             port == From(text, colon + 1)
  <2>1. server = HostAndPort(parts, default_port)
    BY <1>1, <1>4 DEF ParseHostPort
  <2> HIDE DEF server
  <2>2. parts.ok = TRUE
    BY DEF Split
  <2>3. /\ server.host = parts.host
        /\ \/ parts.port = <<>> /\ server.port = default_port
           \/ parts.port # <<>> /\ IsPort(parts.port[1]) /\ server.port = Numbers[parts.port[1][1]]
    <3> HIDE DEF parts
    <3> QED
      BY <2>1, <2>2, AcceptedParts
  <2>4. CASE Holds(text, ":")
    <3>1. colon \in 1..Len(text) /\ text[colon] = ":"
      BY <2>4, FirstAndLast
    <3>2. /\ host \in Seq(Written) /\ port \in Seq(Written)
          /\ text = host \o (<<":">> \o port)
      <4> HIDE DEF colon
      <4>1. /\ host \in Seq(Written) /\ port \in Seq(Written)
            /\ text = Around(host, text[colon], port)
        BY <3>1, PartsMakeText
      <4> QED
        BY <3>1, <4>1, Zenon DEF Around
    <3>3. parts = [ok |-> TRUE, host |-> host, port |-> <<port>>]
      BY <2>4 DEF Split
    <3> HIDE DEF colon, host, port, parts
    <3>4. parts.port # <<>> /\ parts.port[1] = port /\ parts.host = host
      BY <3>3
    <3>5. IsPort(port) /\ server.port = Numbers[port[1]] /\ server.host = host
      BY <2>3, <3>4
    <3>6. PICK word \in DOMAIN Numbers : port[1] = word /\ <<":">> \o port = Port(word)
      BY <3>2, <3>5, PortIsWord
    <3>7. Numbers[word] = server.port /\ text = host \o Port(word)
      BY <3>2, <3>5, <3>6, Zenon
    <3>9. text \in WaysToWrite(host, server.port, default_port)
      BY <1>4, <3>2, <3>7, WaysAre, Zenon
    <3> QED
      BY <3>5, <3>9, Zenon
  <2>5. CASE ~Holds(text, ":")
    <3>1. parts.host = text /\ parts.port = <<>>
      BY <2>5 DEF Split
    <3> HIDE DEF parts
    <3>2. server.host = text /\ server.port = default_port
      BY <2>3, <3>1
    <3> QED
      BY <3>2, WaysAre
  <2> QED
    BY <2>4, <2>5
<1> QED
  BY <1>2, <1>3, <1>4

-----------------------------------------------------------------------------
(* Each way is accepted.                                                   *)

LEMMA HostIsAccepted ==
    ASSUME NEW host, host # <<>>, IsHost(host), NEW default_port,
           NEW parts, parts = [ok |-> TRUE, host |-> host, port |-> <<>>]
    PROVE  HostAndPort(parts, default_port) = [ok |-> TRUE, host |-> host, port |-> default_port]
<1>1. parts.ok = TRUE /\ parts.host = host /\ parts.port = <<>>
  OBVIOUS
<1> QED
  BY <1>1 DEF HostAndPort

LEMMA PortIsAccepted ==
    ASSUME NEW host, host # <<>>, IsHost(host), NEW default_port,
           NEW word \in DOMAIN Numbers, Numbers[word] <= MaxPort,
           NEW parts, parts = [ok |-> TRUE, host |-> host, port |-> <<(<<word>>)>>]
    PROVE  HostAndPort(parts, default_port) = [ok |-> TRUE, host |-> host, port |-> Numbers[word]]
<1>1. /\ parts.ok = TRUE /\ parts.host = host
      /\ parts.port # <<>> /\ parts.port[1] = <<word>>
  OBVIOUS
<1>2. /\ Len(<<word>>) = 1 /\ <<word>>[1] = word
  OBVIOUS
<1>3. IsPort(parts.port[1]) /\ parts.port[1][1] = word
  BY <1>1, <1>2 DEF IsPort
<1> QED
  BY <1>1, <1>3 DEF HostAndPort

\* What is nowhere in the parts of a text is nowhere in it.
LEMMA NowhereInBoth ==
    ASSUME NEW S, NEW a \in Seq(S), NEW mark \in S, NEW b \in Seq(S), NEW other, mark # other,
           \A j \in 1..Len(a) : a[j] # other, \A j \in 1..Len(b) : b[j] # other
    PROVE  LET text == Around(a, mark, b) IN \A i \in 1..Len(text) : text[i] # other
<1> DEFINE text == Around(a, mark, b)
<1>1. /\ Len(text) = Len(a) + 1 + Len(b) /\ text[Len(a) + 1] = mark
      /\ \A j \in 1..Len(a) : text[j] = a[j]
      /\ \A j \in 1..Len(b) : text[Len(a) + 1 + j] = b[j]
  <2>1. Len(text) = Len(a) + 1 + Len(b) /\ text[Len(a) + 1] = mark
    BY JoinedAt
  <2>2. \A j \in 1..Len(a) : text[j] = a[j]
    BY JoinedAt
  <2>3. \A j \in 1..Len(b) : text[Len(a) + 1 + j] = b[j]
    BY JoinedAt
  <2> HIDE DEF text
  <2> QED
    BY <2>1, <2>2, <2>3
<1> DEFINE m == Len(a)
           n == Len(b)
<1>2. m \in Nat /\ n \in Nat
  OBVIOUS
<1>3. /\ Len(text) = m + 1 + n /\ text[m + 1] = mark
      /\ \A j \in 1..m : text[j] = a[j] /\ a[j] # other
      /\ \A j \in 1..n : text[m + 1 + j] = b[j] /\ b[j] # other
  BY <1>1
<1> HIDE DEF m, n, text
<1> SUFFICES ASSUME NEW i \in 1..Len(text) PROVE text[i] # other
  BY DEF text
<1>4. i \in Nat /\ i >= 1 /\ i <= m + 1 + n
  BY <1>2, <1>3
<1>5. CASE i <= m
  BY <1>2, <1>3, <1>4, <1>5
<1>6. CASE i = m + 1
  BY <1>3, <1>6
<1>7. CASE i > m + 1
  <2>1. PICK j \in 1..n : i = m + 1 + j
    <3>1. i - m - 1 \in 1..n /\ i = m + 1 + (i - m - 1)
      BY <1>2, <1>4, <1>7
    <3> QED
      BY <3>1
  <2> QED
    BY <1>3, <2>1
<1> QED
  BY <1>2, <1>4, <1>5, <1>6, <1>7

LEMMA BracketedIsSplit ==
    ASSUME NEW host \in Seq(Written), IsHost(host), NEW rest \in Seq(Written),
           \A j \in 1..Len(rest) : rest[j] # "/",
           NEW default_port
    PROVE  LET text == Bracketed(host, rest) IN
           /\ rest = <<>> =>
                 ParseHostPort(text, default_port) =
                    HostAndPort([ok |-> TRUE, host |-> host, port |-> <<>>], default_port)
           /\ rest # <<>> /\ rest[1] = ":" =>
                 ParseHostPort(text, default_port) =
                    HostAndPort([ok |-> TRUE, host |-> host, port |-> <<Tail(rest)>>], default_port)
<1> DEFINE text == Bracketed(host, rest)
           bracketed == Around(host, "]", rest)
<1>1. \A j \in 1..Len(host) : host[j] # "]" /\ host[j] # "/"
  BY HostMeans, MarksAreOther
<1>2. "]" \in Written /\ "]" # "/" /\ "[" # "/"
  BY MarksAreOther DEF Written
<1>3. bracketed \in Seq(Written) /\ \A i \in 1..Len(bracketed) : bracketed[i] # "/"
  <2>1. bracketed \in Seq(Written)
    BY <1>2, JoinedAt
  <2>2. \A i \in 1..Len(bracketed) : bracketed[i] # "/"
    BY <1>1, <1>2, NowhereInBoth
  <2> QED
    BY <2>1, <2>2
<1>4. /\ Holds(bracketed, "]") /\ FirstOf(bracketed, "]") = Len(host) + 1
  BY <1>1, <1>2, SplitAtFirst
<1>5. UpTo(bracketed, Len(host)) = host /\ From(bracketed, Len(host) + 2) = rest
  <2>1. PartsAre(bracketed, host, rest)
    BY <1>2, JoinedAt
  <2> QED
    BY <2>1, Zenon DEF PartsAre
<1>6. text = <<"[">> \o bracketed
  BY DEF Bracketed
<1> DEFINE parts == IF rest = <<>> THEN [ok |-> TRUE, host |-> host, port |-> <<>>]
                    ELSE IF rest[1] = ":" THEN [ok |-> TRUE, host |-> host, port |-> <<Tail(rest)>>]
                    ELSE Unusable("something other than a port follows its ']'")
<1> HIDE DEF bracketed, text
<1>7. SplitBracketed(bracketed) = parts
  <2>1. (Len(host) + 1) - 1 = Len(host) /\ (Len(host) + 1) + 1 = Len(host) + 2
    OBVIOUS
  <2> QED
    BY <1>4, <1>5, <2>1 DEF SplitBracketed
<1>8. text \in Seq(Written) /\ text # <<>> /\ text[1] = "[" /\ Tail(text) = bracketed /\ Len(text) >= 1
  BY <1>3, <1>6, BehindBracket
<1>9. \A i \in 1..Len(text) : text[i] # "/"
  <2> TAKE i \in 1..Len(text)
  <2>1. CASE i = 1
    BY <1>2, <1>8, <2>1
  <2>2. CASE i # 1
    <3>1. i - 1 \in 1..Len(Tail(text)) /\ Tail(text)[i - 1] = text[i]
      BY <1>8, <2>2
    <3> QED
      BY <1>3, <1>8, <3>1
  <2> QED
    BY <2>1, <2>2
<1>10. ~HasScheme(text)
  BY <1>8, <1>9, SchemeHasSlash
<1>11. ~IsIPv6(text)
  <2> SUFFICES ASSUME IsIPv6(text) PROVE FALSE
    OBVIOUS
  <2>1. text[1] \in GroupWords \cup {":"}
    BY <1>8, IPv6Means
  <2> QED
    BY <1>8, <2>1, WordsAreNoMarks, MarksAreOther DEF GroupWords
<1> HIDE DEF parts
<1>12. ParseHostPort(text, default_port) = HostAndPort(parts, default_port)
  BY <1>7, <1>8, <1>10, <1>11 DEF ParseHostPort
<1>13. ASSUME rest = <<>>
       PROVE  parts = [ok |-> TRUE, host |-> host, port |-> <<>>]
  BY <1>13 DEF parts
<1>14. ASSUME rest # <<>>, rest[1] = ":"
       PROVE  parts = [ok |-> TRUE, host |-> host, port |-> <<Tail(rest)>>]
  BY <1>14 DEF parts
<1> QED
  BY <1>12, <1>13, <1>14 DEF text

\* A host in brackets, with a port or without one.
LEMMA BracketedIsTaken ==
    ASSUME NEW host \in Seq(Written), host # <<>>, IsHost(host), NEW text, NEW default_port
    PROVE  /\ text = Bracketed(host, <<>>) =>
                 ParseHostPort(text, default_port) = [ok |-> TRUE, host |-> host, port |-> default_port]
           /\ \A word \in DOMAIN Numbers :
                 text = Bracketed(host, Port(word)) /\ Numbers[word] <= MaxPort =>
                    ParseHostPort(text, default_port) = [ok |-> TRUE, host |-> host, port |-> Numbers[word]]
<1>1. ASSUME text = Bracketed(host, <<>>)
      PROVE  ParseHostPort(text, default_port) = [ok |-> TRUE, host |-> host, port |-> default_port]
  <2> DEFINE rest == <<>>
             parts == [ok |-> TRUE, host |-> host, port |-> <<>>]
  <2>1. rest \in Seq(Written) /\ rest = <<>> /\ \A j \in 1..Len(rest) : rest[j] # "/"
    OBVIOUS
  <2>2. text = Bracketed(host, rest)
    BY <1>1
  <2> HIDE DEF rest, parts
  <2>3. ParseHostPort(Bracketed(host, rest), default_port) = HostAndPort(parts, default_port)
    BY <2>1, BracketedIsSplit, Zenon DEF parts
  <2> QED
    BY <2>2, <2>3, HostIsAccepted, Zenon DEF parts
<1>2. ASSUME NEW word \in DOMAIN Numbers, text = Bracketed(host, Port(word)), Numbers[word] <= MaxPort
      PROVE  ParseHostPort(text, default_port) = [ok |-> TRUE, host |-> host, port |-> Numbers[word]]
  <2> DEFINE rest == Port(word)
             parts == [ok |-> TRUE, host |-> host, port |-> <<(<<word>>)>>]
  <2>1. word \in Words /\ word # "/" /\ ":" # "/"
    BY MarksAreOther DEF Words
  <2>2. /\ rest \in Seq(Written) /\ rest # <<>> /\ Len(rest) = 2
        /\ rest[1] = ":" /\ rest[2] = word /\ Tail(rest) = <<word>>
    <3>1. rest = <<":", word>> /\ rest \in Seq(Written)
      BY <2>1, PortIs
    <3> QED
      BY <3>1
  <2> HIDE DEF rest
  <2>3. \A j \in 1..Len(rest) : rest[j] # "/"
    BY <2>1, <2>2
  <2>4. text = Bracketed(host, rest)
    BY <1>2 DEF rest
  <2>5. [ok |-> TRUE, host |-> host, port |-> <<Tail(rest)>>] = parts
    BY <2>2
  <2> HIDE DEF parts
  <2>6. ParseHostPort(text, default_port) = HostAndPort(parts, default_port)
    <3>1. ParseHostPort(Bracketed(host, rest), default_port) =
              HostAndPort([ok |-> TRUE, host |-> host, port |-> <<Tail(rest)>>], default_port)
      BY <2>2, <2>3, BracketedIsSplit, Zenon
    <3> QED
      BY <2>4, <2>5, <3>1, Zenon
  <2> QED
    BY <1>2, <2>6, PortIsAccepted DEF parts
<1> QED
  BY <1>1, <1>2

\* A host and a port that are no IPv6 address together.
LEMMA HostAndPortAreTaken ==
    ASSUME NEW host \in Seq(Written), host # <<>>, IsHost(host), NEW default_port,
           NEW word \in DOMAIN Numbers, Numbers[word] <= MaxPort,
           NEW text, text = host \o Port(word), ~IsIPv6(text)
    PROVE  ParseHostPort(text, default_port) = [ok |-> TRUE, host |-> host, port |-> Numbers[word]]
<1> DEFINE one == <<word>>
<1>1. word \in Words /\ word # "/" /\ word # ":" /\ ":" # "/" /\ ":" \in Written
  BY MarksAreOther DEF Words, Written
<1>2. /\ one \in Seq(Written) /\ Len(one) = 1 /\ one[1] = word
  BY <1>1 DEF Written
<1> HIDE DEF one
<1>3. \A j \in 1..Len(host) : host[j] # "[" /\ host[j] # "/"
  BY HostMeans, MarksAreOther
<1>4. \A j \in 1..Len(one) : one[j] # ":" /\ one[j] # "/"
  BY <1>1, <1>2
<1> DEFINE both == Around(host, ":", one)
<1>5. /\ both \in Seq(Written)
      /\ \A j \in 1..Len(host) : both[j] = host[j]
  <2>1. both \in Seq(Written)
    BY <1>1, <1>2, JoinedAt
  <2>2. \A j \in 1..Len(host) : both[j] = host[j]
    BY <1>1, <1>2, JoinedAt
  <2> QED
    BY <2>1, <2>2, Zenon
<1>6. UpTo(both, Len(host)) = host /\ From(both, Len(host) + 2) = one
  <2>1. PartsAre(both, host, one)
    BY <1>1, <1>2, JoinedAt
  <2> QED
    BY <2>1, Zenon DEF PartsAre
<1>7. Holds(both, ":") /\ LastOf(both, ":") = Len(host) + 1
  BY <1>1, <1>2, <1>4, SplitAtLast, Zenon
<1>8. \A i \in 1..Len(both) : both[i] # "/"
  BY <1>1, <1>2, <1>3, <1>4, NowhereInBoth
<1>9. text = both
  BY Zenon DEF Port, one, Around
<1> HIDE DEF both
<1>10. both[1] # "["
  <2>1. 1 \in 1..Len(host)
    OBVIOUS
  <2> QED
    BY <1>3, <1>5, <2>1
<1>11. ~HasScheme(both)
  BY <1>5, <1>8, SchemeHasSlash
<1> DEFINE parts == [ok |-> TRUE, host |-> host, port |-> <<one>>]
<1>12. Split(both) = parts
  <2>1. (Len(host) + 1) - 1 = Len(host) /\ (Len(host) + 1) + 1 = Len(host) + 2
    OBVIOUS
  <2> QED
    BY <1>6, <1>7, <2>1 DEF Split
<1> HIDE DEF parts
<1>13. ~IsIPv6(both) /\ ~(both # <<>> /\ both[1] = "[")
  BY <1>9, <1>10, Zenon
<1>14. ParseHostPort(both, default_port) = HostAndPort(parts, default_port)
  BY <1>11, <1>12, <1>13, Zenon DEF ParseHostPort
<1>15. HostAndPort(parts, default_port) = [ok |-> TRUE, host |-> host, port |-> Numbers[word]]
  BY PortIsAccepted DEF parts, one
<1> QED
  BY <1>9, <1>14, <1>15, Zenon

\* A host alone.
LEMMA HostIsTaken ==
    ASSUME NEW host \in Seq(Written), host # <<>>, IsHost(host), NEW default_port
    PROVE  ParseHostPort(host, default_port) = [ok |-> TRUE, host |-> host, port |-> default_port]
<1>1. \A j \in 1..Len(host) : host[j] # "[" /\ host[j] # "/"
  BY HostMeans, MarksAreOther
<1>2. ~HasScheme(host)
  BY <1>1, SchemeHasSlash
<1>3. CASE IsIPv6(host)
  BY <1>2, <1>3 DEF ParseHostPort
<1>4. CASE ~IsIPv6(host)
  <2>1. \A j \in 1..Len(host) : host[j] # ":"
    BY <1>4, HostMeans, MarksAreOther
  <2>2. ~Holds(host, ":")
    BY <2>1 DEF Holds, Range
  <2>3. host[1] # "["
    BY <1>1
  <2> DEFINE parts == [ok |-> TRUE, host |-> host, port |-> <<>>]
  <2>4. Split(host) = parts
    BY <2>2 DEF Split
  <2> HIDE DEF parts
  <2>5. ParseHostPort(host, default_port) = HostAndPort(parts, default_port)
    BY <1>2, <1>4, <2>3, <2>4 DEF ParseHostPort
  <2> QED
    BY <2>5, HostIsAccepted DEF parts
<1> QED
  BY <1>3, <1>4

LEMMA WaysAreTaken ==
    ASSUME NEW host \in Seq(Written), host # <<>>, IsHost(host), NEW port, port <= MaxPort, NEW default_port
    PROVE  WrittenAsTaken(host, port, default_port)
<1> SUFFICES ASSUME NEW text \in WaysToWrite(host, port, default_port)
             PROVE  ParseHostPort(text, default_port) = [ok |-> TRUE, host |-> host, port |-> port]
  BY DEF WrittenAsTaken
<1>1. CASE \E word \in DOMAIN Numbers :
              /\ Numbers[word] = port
              /\ \/ text = Bracketed(host, Port(word))
                 \/ text = host \o Port(word) /\ ~IsIPv6(text)
  <2>1. PICK word \in DOMAIN Numbers :
              /\ Numbers[word] = port
              /\ \/ text = Bracketed(host, Port(word))
                 \/ text = host \o Port(word) /\ ~IsIPv6(text)
    BY <1>1
  <2>2. Numbers[word] <= MaxPort
    BY <2>1
  <2>3. ParseHostPort(text, default_port) = [ok |-> TRUE, host |-> host, port |-> Numbers[word]]
    <3>1. CASE text = Bracketed(host, Port(word))
      BY <2>2, <3>1, BracketedIsTaken, Zenon
    <3>2. CASE text = host \o Port(word) /\ ~IsIPv6(text)
      BY <2>2, <3>2, HostAndPortAreTaken, Zenon
    <3> QED
      BY <2>1, <3>1, <3>2
  <2> QED
    BY <2>1, <2>3
<1>2. CASE port = default_port /\ text = host
  BY <1>2, HostIsTaken
<1>3. CASE port = default_port /\ text = Bracketed(host, <<>>)
  BY <1>3, BracketedIsTaken
<1> QED
  BY <1>1, <1>2, <1>3, WaysAre

-----------------------------------------------------------------------------
(* A URL that is accepted names its server.                                *)

\* What is accepted has a host, and a port that fits.
LEMMA AcceptedServer ==
    ASSUME NEW text \in Seq(Written), NEW default_port \in Nat, default_port <= MaxPort,
           ParseHostPort(text, default_port).ok
    PROVE  LET server == ParseHostPort(text, default_port) IN
           /\ server.host \in Seq(Written) /\ server.host # <<>> /\ IsHost(server.host)
           /\ server.port = default_port \/ \E word \in DOMAIN Numbers : server.port = Numbers[word]
           /\ server.port <= MaxPort
<1> DEFINE server == ParseHostPort(text, default_port)
<1>1. ~HasScheme(text)
  BY UnusableIsNot DEF ParseHostPort
<1> DEFINE Good(parts) ==
        /\ parts.ok = TRUE /\ parts.host \in Seq(Written)
        /\ parts.port = <<>> \/ (Len(parts.port) = 1 /\ parts.port[1] \in Seq(Written))
<1>2. ASSUME NEW parts, Good(parts), server = HostAndPort(parts, default_port)
      PROVE  /\ server.host \in Seq(Written) /\ server.host # <<>> /\ IsHost(server.host)
             /\ server.port = default_port \/ \E word \in DOMAIN Numbers : server.port = Numbers[word]
             /\ server.port <= MaxPort
  <2> HIDE DEF server
  <2>0. server.ok
    BY DEF server
  <2>1. /\ parts.host # <<>> /\ IsHost(parts.host) /\ server.host = parts.host
        /\ \/ parts.port = <<>> /\ server.port = default_port
           \/ /\ parts.port # <<>> /\ IsPort(parts.port[1])
              /\ server.port = Numbers[parts.port[1][1]]
    BY <1>2, <2>0, AcceptedParts
  <2>2. CASE parts.port = <<>> /\ server.port = default_port
    BY <1>2, <2>1, <2>2
  <2>3. CASE parts.port # <<>> /\ IsPort(parts.port[1]) /\ server.port = Numbers[parts.port[1][1]]
    <3>1. PICK word \in DOMAIN Numbers : parts.port[1][1] = word /\ Numbers[word] <= MaxPort
      BY <2>3 DEF IsPort
    <3>2. server.port = Numbers[word] /\ Numbers[word] <= MaxPort
      BY <2>3, <3>1, Zenon
    <3> QED
      BY <1>2, <2>1, <3>2, Zenon
  <2> QED
    BY <2>1, <2>2, <2>3
<1>3. CASE IsIPv6(text)
  <2>1. server.host = text /\ server.port = default_port
    BY <1>1, <1>3 DEF ParseHostPort
  <2>2. IsHost(text) /\ text # <<>>
    <3>1. Len(text) # 0
      BY <1>3, IPv6Means
    <3> QED
      BY <1>3, <3>1 DEF IsHost, IsIP
  <2> QED
    BY <2>1, <2>2
<1>4. CASE ~IsIPv6(text) /\ text # <<>> /\ text[1] = "["
  <2> DEFINE bracketed == Tail(text)
             close == FirstOf(bracketed, "]")
             host == UpTo(bracketed, close - 1)
             rest == From(bracketed, close + 1)
             parts == SplitBracketed(bracketed)
  <2>1. bracketed \in Seq(Written)
    BY <1>4, HeadAndTail
  <2>2. server = HostAndPort(parts, default_port)
    BY <1>1, <1>4 DEF ParseHostPort
  <2> HIDE DEF bracketed
  <2>3. parts.ok
    <3> HIDE DEF parts, server
    <3>1. server.ok
      BY DEF server
    <3>2. CASE ~parts.ok
      BY <2>2, <3>1, <3>2 DEF HostAndPort
    <3> QED
      BY <3>2
  <2>4. Holds(bracketed, "]")
    <3> HIDE DEF server
    <3> QED
      BY <2>3, UnusableIsNot DEF SplitBracketed
  <2>5. close \in 1..Len(bracketed)
    BY <2>1, <2>4, FirstAndLast
  <2>6. host \in Seq(Written) /\ rest \in Seq(Written)
    <3> HIDE DEF close, server
    <3> QED
      BY <2>1, <2>5, PartsOf
  <2>7. \/ rest = <<>> /\ parts = [ok |-> TRUE, host |-> host, port |-> <<>>]
        \/ rest # <<>> /\ rest[1] = ":" /\ parts = [ok |-> TRUE, host |-> host, port |-> <<Tail(rest)>>]
    <3> HIDE DEF server
    <3> QED
      BY <2>3, <2>4, UnusableIsNot DEF SplitBracketed
  <2> HIDE DEF close, host, rest, parts, server
  <2>8. Good(parts)
    <3>1. CASE rest # <<>>
      <4>1. Tail(rest) \in Seq(Written)
        BY <2>6, <3>1
      <4> DEFINE tail == Tail(rest)
      <4> HIDE DEF tail
      <4>2. CASE parts = [ok |-> TRUE, host |-> host, port |-> <<tail>>]
        BY <2>6, <4>1, <4>2 DEF tail
      <4>3. CASE parts = [ok |-> TRUE, host |-> host, port |-> <<>>]
        BY <2>6, <4>3
      <4> QED
        BY <2>7, <4>2, <4>3 DEF tail
    <3>2. CASE rest = <<>>
      BY <2>6, <2>7, <3>2
    <3> QED
      BY <3>1, <3>2
  <2> HIDE DEF Good
  <2> QED
    BY <1>2, <2>2, <2>8 DEF server
<1>5. CASE ~IsIPv6(text) /\ ~(text # <<>> /\ text[1] = "[")
  <2> DEFINE parts == Split(text)
             colon == LastOf(text, ":")
             host == UpTo(text, colon - 1)
             port == From(text, colon + 1)
  <2>1. server = HostAndPort(parts, default_port)
    BY <1>1, <1>5 DEF ParseHostPort
  <2> HIDE DEF server
  <2>2. Good(parts)
    <3>1. CASE Holds(text, ":")
      <4>1. colon \in 1..Len(text)
        BY <3>1, FirstAndLast
      <4>2. host \in Seq(Written) /\ port \in Seq(Written)
        <5> HIDE DEF colon
        <5> QED
          BY <4>1, PartsOf
      <4>3. parts = [ok |-> TRUE, host |-> host, port |-> <<port>>]
        BY <3>1 DEF Split
      <4> HIDE DEF colon, host, port, parts
      <4> QED
        BY <4>2, <4>3
    <3>2. CASE ~Holds(text, ":")
      <4>1. parts = [ok |-> TRUE, host |-> text, port |-> <<>>]
        BY <3>2 DEF Split
      <4> HIDE DEF parts
      <4> QED
        BY <4>1
    <3> QED
      BY <3>1, <3>2
  <2> HIDE DEF Good, parts
  <2> QED
    BY <1>2, <2>1, <2>2 DEF server
<1> QED
  BY <1>3, <1>4, <1>5

\* A host without a colon and a port are no IPv6 address.
LEMMA OneColonIsNoIPv6 ==
    ASSUME NEW host \in Seq(Written), ~Holds(host, ":"), NEW word \in DOMAIN Numbers
    PROVE  ~IsIPv6(host \o Port(word))
<1> DEFINE one == <<word>>
           colon == ":"
           text == Around(host, colon, one)
<1>1. word \in Words /\ word # colon /\ colon \in Written
  BY MarksAreOther DEF Words, Written
<1>2. one \in Seq(Written) /\ Len(one) = 1 /\ one[1] = word
  BY <1>1 DEF Written
<1>3. host \o Port(word) = text
  BY Zenon DEF Port, Around
<1>4. \A j \in 1..Len(host) : host[j] # colon
  <2>1. DOMAIN host = 1..Len(host)
    OBVIOUS
  <2> QED
    BY <2>1 DEF Holds, Range
<1> HIDE DEF one, colon
<1>5. /\ text \in Seq(Written) /\ Len(text) = Len(host) + 1 + Len(one)
      /\ \A j \in 1..Len(host) : text[j] = host[j]
      /\ \A j \in 1..Len(one) : text[Len(host) + 1 + j] = one[j]
  <2>1. colon \in Written
    BY <1>1
  <2>2. one \in Seq(Written)
    BY <1>2
  <2>3. text \in Seq(Written) /\ Len(text) = Len(host) + 1 + Len(one) /\ text[Len(host) + 1] = colon
    BY <2>1, <2>2, JoinedAt
  <2>4. \A j \in 1..Len(host) : text[j] = host[j]
    BY <2>1, <2>2, JoinedAt
  <2>5. \A j \in 1..Len(one) : text[Len(host) + 1 + j] = one[j]
    BY <2>1, <2>2, JoinedAt
  <2> HIDE DEF text
  <2> QED
    BY <2>3, <2>4, <2>5
<1> HIDE DEF text
<1>9. ASSUME NEW i \in 1..Len(text), text[i] = colon PROVE i = Len(host) + 1
  <2>1. Len(host) \in Nat /\ i \in 1..(Len(host) + 2)
    BY <1>2, <1>5
  <2>2. ~(i \in 1..Len(host))
    BY <1>4, <1>5, <1>9
  <2>3. i # Len(host) + 1 + 1
    BY <1>1, <1>2, <1>5, <1>9
  <2> QED
    BY <2>1, <2>2, <2>3
<1>10. ~IsIPv6(text)
  <2> SUFFICES ASSUME IsIPv6(text) PROVE FALSE
    OBVIOUS
  <2>1. \E i, j \in 1..Len(text) : i # j /\ text[i] = ":" /\ text[j] = ":"
    BY <1>5, IPv6Means
  <2> QED
    BY <1>9, <2>1 DEF colon
<1> QED
  BY <1>3, <1>10, Zenon

\* The Host header is one of the ways to write the host and the port.
LEMMA HeaderIsOneOfTheWays ==
    ASSUME NEW url, url.host \in Seq(Written), NEW host, host = url.host,
           url.port = 443 \/ \E word \in DOMAIN Numbers : url.port = Numbers[word]
    PROVE  HostHeader(url) \in WaysToWrite(host, url.port, 443)
<1> DEFINE port == url.port
           bracketed == <<"[">> \o host \o <<"]">>
           digits == PortDigits(port)
<1>1. CASE port = 443
  <2>1. HostHeader(url) = IF Holds(host, ":") THEN bracketed ELSE host
    BY <1>1 DEF HostHeader
  <2>2. {host, bracketed} \subseteq WaysToWrite(host, port, 443)
    BY <1>1 DEF WaysToWrite
  <2> HIDE DEF bracketed
  <2> QED
    BY <2>1, <2>2
<1>2. CASE port # 443
  <2>1. digits \in DOMAIN Numbers /\ Numbers[digits] = port
    BY <1>2, DigitsAreOfTheNumber
  <2>2. HostHeader(url) = (IF Holds(host, ":") THEN bracketed ELSE host) \o <<":", digits>>
    BY <1>2 DEF HostHeader
  <2>3. digits \in Words
    BY <2>1 DEF Words
  <2> HIDE DEF digits, port
  <2>4. CASE Holds(host, ":")
    BY <2>1, <2>2, <2>4, ZenonT(30) DEF WaysToWrite, port
  <2>5. CASE ~Holds(host, ":")
    <3>1. host \o <<":", digits>> = host \o Port(digits)
      BY <2>3, PortIs, Zenon
    <3>2. ~IsIPv6(host \o <<":", digits>>)
      BY <2>1, <2>5, <3>1, OneColonIsNoIPv6
    <3> QED
      BY <2>1, <2>2, <2>5, <3>2, ZenonT(30) DEF WaysToWrite, port
  <2> QED
    BY <2>4, <2>5
<1> QED
  BY <1>1, <1>2

\* A text that begins another.
LEMMA PrefixIs ==
    ASSUME NEW S, NEW text \in Seq(S), NEW part \in Seq(S), Len(part) <= Len(text),
           \A j \in 1..Len(part) : part[j] = text[j]
    PROVE  IsPrefix(part, text)
<1> DEFINE n == Len(part)
           s == SubSeq(part, 1, n)
           t == SubSeq(text, 1, n)
<1>1. n \in Nat /\ n <= Len(text) /\ n <= Len(part) /\ \A j \in 1..n : part[j] = text[j]
  OBVIOUS
<1> HIDE DEF n
<1>2. n >= 1 - 1 /\ n - 1 + 1 = n /\ (\A j \in 1..n : 1 + j - 1 = j)
      /\ \A j \in 1..n : part[j] \in S /\ text[j] \in S
  BY <1>1
<1>3. s \in Seq(S) /\ Len(s) = n /\ \A j \in 1..n : s[j] = part[j]
  BY <1>1, <1>2, SubSeqProperties
<1>4. t \in Seq(S) /\ Len(t) = n /\ \A j \in 1..n : t[j] = text[j]
  BY <1>1, <1>2, SubSeqProperties
<1> HIDE DEF s, t
<1>5. Len(s) = Len(t) /\ \A j \in 1..Len(s) : s[j] = t[j]
  BY <1>1, <1>3, <1>4
<1>6. s = t
  BY <1>3, <1>4, <1>5, SeqEqual
<1> QED
  BY <1>6 DEF IsPrefix, s, t, n

\* A path without its fragment.
Shown(path, hash) == IF Holds(path, hash) THEN UpTo(path, FirstOf(path, hash) - 1) ELSE path

StartsAlike(text, other) == text # <<>> /\ text[1] = other[1]

LEMMA PathIsShown ==
    ASSUME NEW space, NEW hash, NEW path \in Seq(Written), path # <<>>, path[1] # hash,
           \A j \in 1..Len(path) : path[j] # space
    PROVE  /\ Shown(path, hash) \in Seq(Written) /\ StartsAlike(Shown(path, hash), path)
           /\ Range(Shown(path, hash)) \cap {space, hash} = {}
           /\ IsPrefix(Shown(path, hash), path)
<1> DEFINE shown == Shown(path, hash)
<1>1. /\ shown \in Seq(Written) /\ Len(shown) \in 1..Len(path)
      /\ \A j \in 1..Len(shown) : shown[j] = path[j] /\ path[j] # hash
  <2>1. CASE Holds(path, hash)
    <3> DEFINE k == FirstOf(path, hash)
    <3>1. k \in 1..Len(path) /\ path[k] = hash /\ \A i \in 1..Len(path) : i < k => path[i] # hash
      BY <2>1, FirstAndLast
    <3>2. shown = UpTo(path, k - 1)
      BY <2>1 DEF Shown
    <3> HIDE DEF k, shown
    <3>3. k # 1 /\ Len(path) \in Nat
      BY <3>1
    <3> DEFINE part == UpTo(path, k - 1)
    <3>4. /\ part \in Seq(Written) /\ Len(part) = k - 1
          /\ \A j \in 1..(k - 1) : part[j] = path[j]
      BY <3>1, PartsOf
    <3> HIDE DEF part
    <3>5. shown = part
      BY <3>2 DEF part
    <3>6. /\ Len(part) \in 1..Len(path)
          /\ \A j \in 1..Len(part) : part[j] = path[j] /\ path[j] # hash
      BY <3>1, <3>3, <3>4
    <3> QED
      BY <3>4, <3>5, <3>6, Zenon
  <2>2. CASE ~Holds(path, hash)
    <3>1. shown = path
      BY <2>2 DEF Shown
    <3> HIDE DEF shown
    <3>2. \A j \in 1..Len(path) : path[j] = path[j] /\ path[j] # hash
      <4>1. DOMAIN path = 1..Len(path)
        OBVIOUS
      <4> QED
        BY <2>2, <4>1 DEF Holds, Range
    <3>3. Len(path) \in 1..Len(path)
      OBVIOUS
    <3> QED
      BY <3>1, <3>2, <3>3, Zenon
  <2> QED
    BY <2>1, <2>2
<1> HIDE DEF shown
<1>2. shown # <<>> /\ shown[1] = path[1]
  <2>1. shown # <<>> /\ 1 \in 1..Len(shown)
    BY <1>1
  <2> QED
    BY <1>1, <2>1
<1>3. Range(shown) \cap {space, hash} = {}
  <2>1. DOMAIN shown = 1..Len(shown)
    BY <1>1
  <2>2. \A j \in 1..Len(shown) : shown[j] # space /\ shown[j] # hash
    BY <1>1
  <2> QED
    BY <2>1, <2>2 DEF Range
<1>4. IsPrefix(shown, path)
  <2>1. /\ shown \in Seq(Written) /\ Len(shown) <= Len(path)
        /\ \A j \in 1..Len(shown) : shown[j] = path[j]
    BY <1>1
  <2> QED
    BY <2>1, PrefixIs
<1> QED
  BY <1>1, <1>2, <1>3, <1>4 DEF shown, StartsAlike

LEMMA UrlsNameTheirServer ==
    ASSUME NEW url \in Seq(Written)
    PROVE  NamesItsServer(url)
<1> DEFINE space == " "
           hash == "#"
           at == "@"
           rest == From(url, Len(Scheme) + 1)
           slash == FirstOf(rest, "/")
           authority == UpTo(rest, slash - 1)
           path == From(rest, slash)
           server == ParseHostPort(authority, 443)
           parsed == ParseHttpsUrl(url)
<1> SUFFICES ASSUME parsed.ok
             PROVE  /\ Head(parsed.path) = "/" /\ Range(parsed.path) \cap {space, hash} = {}
                    /\ IsPrefix(parsed.path, path)
                    /\ ~Holds(UpTo(rest, slash), at)
                    /\ ParseHostPort(HostHeader(parsed), 443)
                          = [ok |-> TRUE, host |-> parsed.host, port |-> parsed.port]
  BY Zenon DEF NamesItsServer
<1>1. ~Holds(url, space)
  BY UnusableIsNot DEF ParseHttpsUrl
<1>2. IsPrefix(Scheme, url)
  BY <1>1, UnusableIsNot DEF ParseHttpsUrl
<1>3. Holds(rest, "/")
  BY <1>1, <1>2, UnusableIsNot DEF ParseHttpsUrl
<1>4. ~Holds(authority, at)
  BY <1>1, <1>2, <1>3, UnusableIsNot DEF ParseHttpsUrl
<1>5. server.ok
  BY <1>1, <1>2, <1>3, <1>4, UnusableIsNot DEF ParseHttpsUrl
<1>6. parsed = [ok |-> TRUE, host |-> server.host, port |-> server.port,
                path |-> IF Holds(path, hash) THEN UpTo(path, FirstOf(path, hash) - 1) ELSE path]
  BY <1>1, <1>2, <1>3, <1>4, <1>5, ZenonT(30) DEF ParseHttpsUrl
<1>7. /\ parsed.host = server.host /\ parsed.port = server.port
      /\ parsed.path = IF Holds(path, hash) THEN UpTo(path, FirstOf(path, hash) - 1) ELSE path
  BY <1>6
<1>0. hash # "/" /\ at # "/"
  BY Zenon
<1> HIDE DEF parsed, space, hash, at
<1>8. rest \in Seq(Written) /\ \A j \in 1..Len(rest) : rest[j] # space
  <2> DEFINE n == Len(Scheme)
  <2>1. n = 4
    BY DEF Scheme
  <2>2. n \in 1..Len(url) /\ DOMAIN url = 1..Len(url) /\ Len(url) \in Nat
    BY <1>2, <2>1 DEF IsPrefix
  <2>3. \A i \in 1..Len(url) : url[i] # space
    BY <1>1, <2>2 DEF Holds, Range
  <2> HIDE DEF n
  <2>4. rest \in Seq(Written) /\ Len(rest) = Len(url) - n
    BY <2>2, PartsOf DEF n
  <2>5. \A j \in 1..(Len(url) - n) : rest[j] = url[n + j]
    BY <2>2, PartsOf, ZenonT(30) DEF n
  <2> HIDE DEF rest
  <2>6. \A j \in 1..Len(rest) : j \in 1..(Len(url) - n) /\ n + j \in 1..Len(url)
    BY <2>2, <2>4
  <2> QED
    BY <2>3, <2>4, <2>5, <2>6
<1> HIDE DEF rest
<1>9. /\ slash \in 1..Len(rest) /\ rest[slash] = "/"
      /\ Len(rest) \in Nat
  BY <1>3, <1>8, FirstAndLast
<1> HIDE DEF slash
<1>10. /\ authority \in Seq(Written) /\ Len(authority) = slash - 1
       /\ \A j \in 1..(slash - 1) : authority[j] = rest[j]
       /\ path \in Seq(Written) /\ Len(path) = Len(rest) - slash + 1
       /\ \A j \in 1..(Len(rest) - slash + 1) : path[j] = rest[slash + j - 1]
  <2>0. rest \in Seq(Written) /\ slash \in 1..Len(rest)
    BY <1>8, <1>9, Zenon
  <2>1. authority \in Seq(Written) /\ Len(authority) = slash - 1
    BY <2>0, PartsOf, ZenonT(30)
  <2>2. \A j \in 1..(slash - 1) : authority[j] = rest[j]
    BY <2>0, PartsOf
  <2>3. path \in Seq(Written) /\ Len(path) = Len(rest) - slash + 1
    BY <2>0, PartsOf
  <2>4. \A j \in 1..(Len(rest) - slash + 1) : path[j] = rest[slash + j - 1]
    BY <2>0, PartsOf
  <2> HIDE DEF path, authority
  <2> QED
    BY <2>1, <2>2, <2>3, <2>4
<1> HIDE DEF path, authority
<1>11. path # <<>> /\ path[1] = "/" /\ \A j \in 1..Len(path) : path[j] # space
  <2>1. 1 \in 1..Len(path) /\ slash + 1 - 1 = slash
    BY <1>9, <1>10
  <2>2. \A j \in 1..Len(path) : slash + j - 1 \in 1..Len(rest)
    BY <1>9, <1>10
  <2>3. path[1] = rest[slash + 1 - 1] /\ path # <<>>
    BY <1>10, <2>1
  <2> QED
    BY <1>8, <1>9, <1>10, <2>1, <2>2, <2>3
<1>12. /\ Head(parsed.path) = "/" /\ Range(parsed.path) \cap {space, hash} = {}
       /\ IsPrefix(parsed.path, path)
  <2> DEFINE first == "/"
             shown == Shown(path, hash)
  <2>1. /\ path \in Seq(Written) /\ path # <<>> /\ path[1] = first /\ path[1] # hash
        /\ \A j \in 1..Len(path) : path[j] # space
    BY <1>0, <1>10, <1>11, Zenon
  <2>2. parsed.path = shown
    BY <1>7, Zenon DEF Shown
  <2> HIDE DEF first
  <2>3. /\ Head(shown) = first /\ Range(shown) \cap {space, hash} = {}
        /\ IsPrefix(shown, path)
    <3>1. Head(shown) = first
      <4>1. shown \in Seq(Written) /\ shown # <<>> /\ shown[1] = path[1]
        <5>1. shown \in Seq(Written) /\ StartsAlike(shown, path)
          BY <2>1, PathIsShown, Zenon
        <5> QED
          BY <5>1, Zenon DEF StartsAlike
      <4> HIDE DEF shown
      <4>2. Len(shown) \in Nat \ {0}
        BY <4>1
      <4> QED
        BY <2>1, <4>1, <4>2
    <3>2. Range(Shown(path, hash)) \cap {space, hash} = {}
      BY <2>1, PathIsShown
    <3>3. IsPrefix(Shown(path, hash), path)
      BY <2>1, PathIsShown
    <3> QED
      BY <3>1, <3>2, <3>3, Zenon
  <2> HIDE DEF shown
  <2> QED
    BY <2>2, <2>3, Zenon DEF first
<1>13. ~Holds(UpTo(rest, slash), at)
  <2> DEFINE shown == SubSeq(rest, 1, slash)
  <2>1. /\ shown \in Seq(Written) /\ Len(shown) = slash /\ DOMAIN shown = 1..slash
        /\ \A j \in 1..slash : shown[j] = rest[j]
    BY <1>8, <1>9
  <2>2. \A j \in 1..(slash - 1) : authority[j] # at
    <3>1. DOMAIN authority = 1..(slash - 1)
      BY <1>10
    <3> QED
      BY <1>4, <3>1 DEF Holds, Range
  <2> HIDE DEF shown
  <2>3. ASSUME NEW j \in 1..slash PROVE shown[j] # at
    <3>1. CASE j = slash
      BY <1>0, <1>9, <2>1, <3>1
    <3>2. CASE j # slash
      <4>1. j \in 1..(slash - 1)
        BY <1>9, <3>2
      <4> QED
        BY <1>10, <2>1, <2>2, <4>1
    <3> QED
      BY <3>1, <3>2
  <2>4. ~Holds(shown, at)
    BY <2>1, <2>3 DEF Holds, Range
  <2> QED
    BY <2>4 DEF shown, UpTo
<1>14. /\ server.host \in Seq(Written) /\ server.host # <<>> /\ IsHost(server.host)
       /\ server.port = 443 \/ \E word \in DOMAIN Numbers : server.port = Numbers[word]
       /\ server.port <= MaxPort
  <2> DEFINE standard == 443
             taken == ParseHostPort(authority, standard)
  <2>1. standard \in Nat /\ standard <= MaxPort
    BY DEF MaxPort
  <2> HIDE DEF standard
  <2>2. authority \in Seq(Written) /\ taken.ok
    BY <1>5, <1>10 DEF standard
  <2>3. /\ taken.host \in Seq(Written) /\ taken.host # <<>> /\ IsHost(taken.host)
        /\ taken.port = standard \/ \E word \in DOMAIN Numbers : taken.port = Numbers[word]
        /\ taken.port <= MaxPort
    BY <2>1, <2>2, AcceptedServer, Zenon
  <2> QED
    BY <2>3 DEF standard
<1> HIDE DEF server
<1>15. HostHeader(parsed) \in WaysToWrite(parsed.host, parsed.port, 443)
  BY <1>7, <1>14, HeaderIsOneOfTheWays
<1>16. WrittenAsTaken(parsed.host, parsed.port, 443)
  BY <1>7, <1>14, WaysAreTaken, ZenonT(30)
<1>17. ParseHostPort(HostHeader(parsed), 443)
          = [ok |-> TRUE, host |-> parsed.host, port |-> parsed.port]
  BY <1>15, <1>16, Zenon DEF WrittenAsTaken
<1> QED
  BY <1>12, <1>13, <1>17, Zenon

-----------------------------------------------------------------------------
(* Whatever is accepted means what it says.                                *)

LEMMA WaysAreTexts ==
    ASSUME NEW host \in Seq(Written), NEW port, NEW default_port,
           NEW text \in WaysToWrite(host, port, default_port)
    PROVE  text \in Seq(Written)
<1>1. ASSUME NEW rest \in Seq(Written) PROVE Bracketed(host, rest) \in Seq(Written)
  <2>1. "[" \in Written /\ "]" \in Written
    BY MarksAreOther DEF Written
  <2> DEFINE tail == Around(host, "]", rest)
  <2>2. tail \in Seq(Written)
    BY <1>1, <2>1, JoinedAt
  <2> HIDE DEF tail
  <2>3. <<"[">> \in Seq(Written)
    BY <2>1
  <2>4. <<"[">> \o tail \in Seq(Written)
    BY <2>2, <2>3
  <2> QED
    BY <2>4, Zenon DEF Bracketed, tail
<1>2. ASSUME NEW word \in DOMAIN Numbers PROVE Port(word) \in Seq(Written) /\ host \o Port(word) \in Seq(Written)
  <2>1. Port(word) \in Seq(Written)
    BY PortIs DEF Words
  <2> QED
    BY <2>1
<1>3. <<>> \in Seq(Written)
  OBVIOUS
<1>4. CASE \E word \in DOMAIN Numbers :
              \/ text = Bracketed(host, Port(word))
              \/ text = host \o Port(word)
  BY <1>1, <1>2, <1>4, Zenon
<1>5. CASE text = host
  BY <1>5
<1>6. CASE text = Bracketed(host, <<>>)
  BY <1>1, <1>3, <1>6, Zenon
<1> QED
  BY <1>4, <1>5, <1>6, WaysAre

\* A text that is made into a URL.
LEMMA UrlsOfTexts ==
    ASSUME NEW text \in Seq(Written)
    PROVE  NamesItsServer(Scheme \o text \o <<"/", "#", "1">>)
<1>1. "https" \in Written /\ ":" \in Written /\ "/" \in Written /\ "#" \in Written /\ "1" \in Written
  BY NumbersAre, Zenon DEF Written, Words, Marks
<1>2. Scheme \in Seq(Written)
  BY <1>1 DEF Scheme
<1> DEFINE hash == "#"
           rest == <<"/", hash, "1">>
<1>3. hash \in Written
  BY <1>1
<1> HIDE DEF hash
<1>4. rest \in Seq(Written)
  BY <1>1, <1>3
<1> HIDE DEF rest
<1> DEFINE url == Scheme \o text \o rest
<1>5. url \in Seq(Written)
  BY <1>2, <1>4
<1> HIDE DEF url
<1>6. NamesItsServer(url)
  BY <1>5, UrlsNameTheirServer
<1> QED
  BY <1>6 DEF url, rest, hash

LEMMA PortsFit == \A port \in Ports : port <= MaxPort
<1>1. MaxPort \in Nat
  BY DEF MaxPort
<1> QED
  BY <1>1 DEF Ports

\* Of every text: what is accepted of it is all of it, and a URL names the
\* server it is sent to; and of every host, however it is written with its
\* port, just that is read (parse_host_port, parse_https_url, host_header).
\* The texts are of every length; the words that are numbers are those of
\* Numbers.
THEOREM AddressesMeanWhatTheySay ==
    /\ \A text \in Seq(Words \cup Marks), default_port \in Nat : TakenAsWritten(text, default_port)
    /\ \A url \in Seq(Words \cup Marks) : NamesItsServer(url)
    /\ \A host \in Seq(Words \cup Marks), port \in Ports, default_port \in Nat :
          host # <<>> /\ IsHost(host) => WrittenAsTaken(host, port, default_port)
<1>1. \A port \in Ports : port <= MaxPort
  BY PortsFit
<1> QED
  BY <1>1, TextsAreTakenAsWritten, UrlsNameTheirServer, WaysAreTaken, Zenon DEF Written

\* The texts and the hosts of an instance are some of these.
LEMMA AddressesHold == AddressesReadBack
<1>1. \A text \in Texts : text \in Seq(Written)
  BY TextsAssumption DEF Written
<1>2. \A host \in Hosts : host \in Seq(Written) /\ host # <<>> /\ IsHost(host)
  BY TextsAssumption DEF Written
<1>3. \A text \in Texts, default_port \in DefaultPorts : TakenAsWritten(text, default_port)
  BY <1>1, TextsAreTakenAsWritten
<1>4. \A host \in Hosts, port \in Ports, default_port \in DefaultPorts :
         WrittenAsTaken(host, port, default_port)
  <2>1. \A port \in Ports : port <= MaxPort
    BY PortsFit
  <2> QED
    BY <1>2, <2>1, WaysAreTaken
<1>5. ASSUME NEW text \in Texts \cup UNION {WaysToWrite(host, port, 443) : host \in Hosts, port \in Ports}
      PROVE  NamesItsServer(Scheme \o text \o <<"/", "#", "1">>)
  <2>1. text \in Seq(Written)
    <3>1. CASE text \in Texts
      BY <1>1, <3>1
    <3>2. CASE \E host \in Hosts, port \in Ports : text \in WaysToWrite(host, port, 443)
      BY <1>2, <3>2, WaysAreTexts
    <3> QED
      BY <3>1, <3>2
  <2> QED
    BY <2>1, UrlsOfTexts
<1> QED
  BY <1>3, <1>4, <1>5 DEF AddressesReadBack

\* Addresses and URLs are taken for what they say (parse_host_port,
\* parse_https_url, host_header), whatever the texts of the instance.
THEOREM AddressesReadBackAlways == Spec => []AddressesReadBack
<1>1. AddressesReadBack
  BY AddressesHold
<1> QED
  BY <1>1, PTL

=============================================================================
