------------------------- MODULE UdpExchange_proofs --------------------------
(***************************************************************************)
(* Proofs about an exchange over UDP, for every request, every set of      *)
(* datagrams in any order and number, and every time limit.                *)
(***************************************************************************)
EXTENDS UdpExchange, TLAPS

-----------------------------------------------------------------------------
(* The judgement of a datagram, and the clock.                             *)

LEMMA Outcomes ==
    ASSUME NEW x, NEW y
    PROVE  /\ Answered(x) = Answered(y) <=> x = y
           /\ Failed(x) = Failed(y) <=> x = y
           /\ Answered(x) # Failed(y) /\ Answered(x) # Pending /\ Failed(x) # Pending
BY DEF Answered, Failed, Pending

\* accept is what it means to answer: the code compares as the property does.
LEMMA AcceptDecides ==
    ASSUME NEW d \in Datagrams
    PROVE  /\ Answers(d) => Accept(d) = Answered(d)
           /\ Garbled(d) => Accept(d) = Failed("WireError")
           /\ ~Answers(d) /\ ~Garbled(d) => Accept(d) = Pending
<1>1. d.readable \in BOOLEAN /\ d.response \in BOOLEAN /\ d.rcode \in Nat
  BY DatagramsAssumption
<1>2. d.rcode > 0 <=> HasErrorCode(d)
  BY <1>1 DEF HasErrorCode
<1>3. (\A f \in {"name", "qtype", "qclass"} : Head(d.queries)[f] = TheRequest.query[f])
        <=> SameQuestion(TheRequest.query, Head(d.queries))
  BY DEF SameQuestion
<1>4. d.readable => (Answers(d) <=> CheckResponse(TheRequest, d) = "Ok")
  BY <1>1, <1>2, <1>3 DEF Answers, CheckResponse
<1>5. Answers(d) => d.readable
  BY DEF Answers
<1> QED
  BY <1>1, <1>4, <1>5 DEF Accept, Garbled, CarriesTxid

\* A wait that starts ends at the deadline, but for its lag.
LEMMA WaitEnds ==
    ASSUME clock \in Nat, NEW lag \in 0..Lag, ~Expired(Timeout, clock)
    PROVE  /\ clock + Left(Timeout, clock) + lag \in Nat
           /\ Timeout <= clock + Left(Timeout, clock) + lag
           /\ clock + Left(Timeout, clock) + lag <= Timeout + Lag
BY TimesAssumption DEF Left, Expired

\* A deadline is only seen to have passed once it has.
LEMMA ExpiredLate ==
    ASSUME clock \in Nat, Expired(Timeout, clock)
    PROVE  clock >= Timeout
BY TimesAssumption DEF Left, Expired

\* A failing socket is a network error; only its timeout is a timeout.
LEMMA SocketFails ==
    ASSUME NEW kind \in SocketErrors
    PROVE  IoError(kind) = "NetworkError"
BY SocketErrorsAssumption DEF IoError

-----------------------------------------------------------------------------
(* Type correctness.                                                       *)

LEMMA TypeNext == TypeOK /\ [Next]_vars => TypeOK'
<1> SUFFICES ASSUME TypeOK, [Next]_vars PROVE TypeOK'
  OBVIOUS
<1> DEFINE Results == {Pending} \cup {Answered(d) : d \in Datagrams} \cup {Failed(e) : e \in Errors}
<1>1. clock \in Nat
  BY TimesAssumption DEF TypeOK
<1>2. \A e \in Errors : Failed(e) \in Results /\ Failed(e) # Pending
  BY Outcomes
<1>3. CASE Send
  <2>1. CASE pc' = "left" /\ UNCHANGED result
    BY <1>3, <2>1 DEF Send, TypeOK
  <2>2. ASSUME NEW kind \in SocketErrors, Return(Failed(IoError(kind))) PROVE TypeOK'
    BY <1>2, <1>3, <2>2, SocketFails DEF Send, Return, TypeOK, Errors
  <2> QED
    BY <1>3, <2>1, <2>2 DEF Send
<1>4. CASE StartWait
  BY <1>1, <1>4, WaitEnds DEF StartWait, TypeOK
<1>5. CASE GiveUp
  BY <1>2, <1>5 DEF GiveUp, Return, TypeOK, Errors
<1>6. CASE Receive
  <2>1. Head(inbox) \in Datagrams /\ inbox' \in Seq(Datagrams) /\ taken' \in Seq(Datagrams)
    BY <1>6 DEF Receive, TypeOK
  <2>2. Accept(Head(inbox)) \in Results
    BY <2>1, AcceptDecides, <1>2 DEF Errors
  <2>3. pc' \in {"left", "done"} /\ result' \in Results /\ (pc' = "done" <=> result' # Pending)
    BY <1>6, <2>2 DEF Receive, Return, TypeOK
  <2> QED
    BY <1>6, <2>1, <2>3 DEF Receive, TypeOK
<1>7. CASE WaitRunsOut
  BY <1>2, <1>7 DEF WaitRunsOut, Return, TypeOK, Errors, IoError
<1>8. CASE RecvFails
  BY <1>2, <1>8, SocketFails DEF RecvFails, Return, TypeOK, Errors
<1>9. CASE Interrupted
  BY <1>9 DEF Interrupted, TypeOK
<1>10. CASE Tick
  BY <1>10, TimesAssumption DEF Tick, TypeOK
<1>11. CASE Arrive
  BY <1>11, TimesAssumption DEF Arrive, TypeOK
<1>12. CASE UNCHANGED vars
  BY <1>12 DEF vars, TypeOK
<1> QED
  BY <1>3, <1>4, <1>5, <1>6, <1>7, <1>8, <1>9, <1>10, <1>11, <1>12 DEF Next, Step, Done

\* Every variable of an exchange over UDP keeps its type (udp.rs, send).
THEOREM TypeCorrect == Spec => []TypeOK
<1>1. Init => TypeOK
  BY TimesAssumption DEF Init, TypeOK
<1> QED
  BY <1>1, TypeNext, PTL DEF Spec

-----------------------------------------------------------------------------
(* No wait past the deadline.                                              *)

\* A wait runs to the deadline, and past it by no more than its lag.
WaitsToTheDeadline == pc = "recv" => Timeout <= until /\ until <= Timeout + Lag

LEMMA WaitNext == TypeOK /\ WaitsToTheDeadline /\ [Next]_vars => WaitsToTheDeadline'
<1> SUFFICES ASSUME TypeOK, WaitsToTheDeadline, [Next]_vars PROVE WaitsToTheDeadline'
  OBVIOUS
<1>1. clock \in Nat
  BY TimesAssumption DEF TypeOK
<1>2. CASE StartWait
  BY <1>1, <1>2, WaitEnds DEF StartWait, WaitsToTheDeadline
<1>3. CASE Send \/ GiveUp \/ WaitRunsOut \/ RecvFails
  BY <1>3 DEF Send, GiveUp, WaitRunsOut, RecvFails, Return, WaitsToTheDeadline
<1>4. CASE Receive \/ Interrupted
  BY <1>4 DEF Receive, Interrupted, Return, WaitsToTheDeadline
<1>5. CASE Tick \/ Arrive \/ UNCHANGED vars
  BY <1>5 DEF Tick, Arrive, vars, WaitsToTheDeadline
<1> QED
  BY <1>2, <1>3, <1>4, <1>5 DEF Next, Step, Done

LEMMA WaitsAlways == Spec => []WaitsToTheDeadline
<1>1. Init => WaitsToTheDeadline
  BY DEF Init, WaitsToTheDeadline
<1> QED
  BY <1>1, WaitNext, TypeCorrect, PTL DEF Spec

\* However many strays arrive and signals interrupt the wait, no wait lasts
\* past the deadline but for its lag (Deadline::left before every recv).
THEOREM WaitsAreBounded == Spec => []NoWaitPastDeadline
<1>1. WaitsToTheDeadline => NoWaitPastDeadline
  BY DEF WaitsToTheDeadline, NoWaitPastDeadline
<1> QED
  BY <1>1, WaitsAlways, PTL

-----------------------------------------------------------------------------
(* The first decisive datagram decides.                                    *)

\* Until the exchange is done, nothing that was taken is decisive.
LEMMA NothingDecisiveYet ==
    ASSUME FirstDecisiveDatagramDecides, pc # "done"
    PROVE  \A i \in 1..Len(taken) : ~Answers(taken[i]) /\ ~Garbled(taken[i])
BY DEF FirstDecisiveDatagramDecides

\* An exchange that ends in an error of the socket or of the clock.
LEMMA DecidesEnd ==
    ASSUME FirstDecisiveDatagramDecides, pc # "done", taken' = taken,
           NEW error \in {"Timeout", "NetworkError"}, Return(Failed(error))
    PROVE  FirstDecisiveDatagramDecides'
<1>1. result' = Failed(error) /\ pc' = "done"
  BY DEF Return
<1>2. \A i \in 1..Len(taken) : ~Answers(taken[i]) /\ ~Garbled(taken[i])
  BY NothingDecisiveYet
<1>3. \A d : result' # Answered(d)
  BY <1>1, Outcomes
<1>4. result' # Failed("WireError")
  BY <1>1, Outcomes
<1> QED
  BY <1>2, <1>3, <1>4 DEF FirstDecisiveDatagramDecides

LEMMA DecidesReceive ==
    ASSUME TypeOK, FirstDecisiveDatagramDecides, Receive
    PROVE  FirstDecisiveDatagramDecides'
<1> DEFINE d == Head(inbox)
<1>1. d \in Datagrams /\ pc # "done" /\ result = Pending
  BY DEF Receive, TypeOK
<1>2. \A i \in 1..Len(taken) : ~Answers(taken[i]) /\ ~Garbled(taken[i])
  BY <1>1, NothingDecisiveYet
<1>3. /\ taken' = Append(taken, d) /\ taken \in Seq(Datagrams)
      /\ Accept(d) = Pending => pc' = "left" /\ result' = Pending
      /\ Accept(d) # Pending => pc' = "done" /\ result' = Accept(d)
  BY <1>1 DEF Receive, Return, TypeOK
<1> HIDE DEF d
<1>4. /\ Len(taken') = Len(taken) + 1 /\ Len(taken) \in Nat
      /\ taken'[Len(taken')] = d /\ taken' # <<>>
      /\ \A i \in 1..Len(taken) : taken'[i] = taken[i]
  BY <1>1, <1>3
<1>5. \A i \in 1..Len(taken') : i # Len(taken') => ~Answers(taken'[i]) /\ ~Garbled(taken'[i])
  BY <1>2, <1>4
<1>6. CASE ~Answers(d) /\ ~Garbled(d)
  <2>1. result' = Pending
    BY <1>1, <1>3, <1>6, AcceptDecides
  <2>2. result' # Failed("WireError") /\ \A x : result' # Answered(x)
    BY <2>1, Outcomes
  <2>3. \A i \in 1..Len(taken') : ~Answers(taken'[i]) /\ ~Garbled(taken'[i])
    BY <1>4, <1>5, <1>6
  <2> QED
    BY <2>2, <2>3 DEF FirstDecisiveDatagramDecides
<1>7. CASE Answers(d)
  <2>1. pc' = "done" /\ result' = Answered(d)
    BY <1>1, <1>3, <1>7, AcceptDecides, Outcomes
  <2>2. \A e : result' # Failed(e)
    BY <2>1, Outcomes
  <2>3. \A x : result' = Answered(x) => x = d
    BY <2>1, Outcomes
  <2> QED
    BY <1>4, <1>5, <1>7, <2>1, <2>2, <2>3 DEF FirstDecisiveDatagramDecides
<1>8. CASE Garbled(d)
  <2>1. pc' = "done" /\ result' = Failed("WireError")
    BY <1>1, <1>3, <1>8, AcceptDecides, Outcomes
  <2>2. result' \notin {Failed("Timeout"), Failed("NetworkError")} /\ \A x : result' # Answered(x)
    BY <2>1, Outcomes
  <2> QED
    BY <1>4, <1>5, <1>8, <2>1, <2>2 DEF FirstDecisiveDatagramDecides
<1> QED
  BY <1>6, <1>7, <1>8

LEMMA DecidesNext == TypeOK /\ FirstDecisiveDatagramDecides /\ [Next]_vars => FirstDecisiveDatagramDecides'
<1> SUFFICES ASSUME TypeOK, FirstDecisiveDatagramDecides, [Next]_vars PROVE FirstDecisiveDatagramDecides'
  OBVIOUS
<1>1. ASSUME UNCHANGED <<taken, result>>, pc = "done" => pc' = "done" PROVE FirstDecisiveDatagramDecides'
  BY <1>1 DEF FirstDecisiveDatagramDecides
<1>2. CASE Send
  <2>1. CASE pc' = "left" /\ UNCHANGED result
    BY <1>1, <1>2, <2>1 DEF Send
  <2>2. ASSUME NEW kind \in SocketErrors, Return(Failed(IoError(kind))) PROVE FirstDecisiveDatagramDecides'
    BY <1>2, <2>2, SocketFails, DecidesEnd DEF Send
  <2> QED
    BY <1>2, <2>1, <2>2 DEF Send
<1>3. CASE GiveUp
  BY <1>3, DecidesEnd DEF GiveUp
<1>4. CASE WaitRunsOut
  BY <1>4, DecidesEnd DEF WaitRunsOut, IoError
<1>5. CASE RecvFails
  BY <1>5, SocketFails, DecidesEnd DEF RecvFails
<1>6. CASE Receive
  BY <1>6, DecidesReceive
<1>7. CASE StartWait \/ Interrupted \/ Tick \/ Arrive \/ UNCHANGED vars
  BY <1>1, <1>7 DEF StartWait, Interrupted, Tick, Arrive, vars
<1> QED
  BY <1>2, <1>3, <1>4, <1>5, <1>6, <1>7 DEF Next, Step, Done

\* The oldest datagram that answers or is garbled decides the outcome, and no
\* other does, whatever the network delivers (udp.rs, receive and accept).
THEOREM OneDatagramDecides == Spec => []FirstDecisiveDatagramDecides
<1>1. Init => FirstDecisiveDatagramDecides
  BY Outcomes DEF Init, FirstDecisiveDatagramDecides
<1> QED
  BY <1>1, DecidesNext, TypeCorrect, PTL DEF Spec

-----------------------------------------------------------------------------
(* The promise of a transport.                                             *)

\* The outcomes of Attempt are those of Messages.
LEMMA SameOutcomes ==
    /\ Promise!Pending = Pending
    /\ \A x : Promise!Answered(x) = Answered(x) /\ Promise!Failed(x) = Failed(x)
BY DEF Promise!Pending, Pending, Promise!Answered, Answered, Promise!Failed, Failed

\* An exchange that fails keeps the promise, if its timeout came in time.
LEMMA FailsAsPromised ==
    ASSUME result = Pending, UNCHANGED clock,
           NEW error \in Errors, error = "Timeout" => clock >= Timeout, Return(Failed(error))
    PROVE  Promise!Next
BY SameOutcomes DEF Return, Promise!Next, Promise!Fail, Errors

LEMMA PromiseNext ==
    TypeOK /\ WaitsToTheDeadline /\ [Next]_vars => [Promise!Next]_(Promise!vars)
<1> SUFFICES ASSUME TypeOK, WaitsToTheDeadline, [Next]_vars, ~UNCHANGED <<clock, result>>
             PROVE  Promise!Next
  BY DEF Promise!vars
<1>1. clock \in Nat
  BY TimesAssumption DEF TypeOK
<1>2. CASE Send
  BY <1>2, SocketFails, FailsAsPromised DEF Send, TypeOK, Errors
<1>3. CASE GiveUp
  BY <1>1, <1>3, ExpiredLate, FailsAsPromised DEF GiveUp, TypeOK, Errors
<1>4. CASE WaitRunsOut
  <2>1. clock >= Timeout
    BY <1>1, <1>4, TimesAssumption DEF WaitRunsOut, WaitsToTheDeadline, TypeOK
  <2> QED
    BY <1>4, <2>1, FailsAsPromised DEF WaitRunsOut, TypeOK, Errors, IoError
<1>5. CASE RecvFails
  BY <1>5, SocketFails, FailsAsPromised DEF RecvFails, TypeOK, Errors
<1>6. CASE Receive
  <2>1. Head(inbox) \in Datagrams /\ result = Pending /\ UNCHANGED clock
    BY <1>6 DEF Receive, TypeOK
  <2>2. Accept(Head(inbox)) # Pending /\ Return(Accept(Head(inbox)))
    BY <1>6 DEF Receive
  <2>3. CASE Answers(Head(inbox))
    <3>1. result' = Answered(Head(inbox))
      BY <2>1, <2>2, <2>3, AcceptDecides DEF Return
    <3> QED
      BY <2>1, <2>3, <3>1, SameOutcomes DEF Promise!Next, Promise!Answer
  <2>4. CASE ~Answers(Head(inbox))
    <3>1. Accept(Head(inbox)) = Failed("WireError")
      BY <2>1, <2>2, <2>4, AcceptDecides
    <3> QED
      BY <2>1, <2>2, <3>1, FailsAsPromised DEF Errors
  <2> QED
    BY <2>3, <2>4
<1>7. CASE StartWait \/ Interrupted \/ Arrive \/ UNCHANGED vars
  BY <1>7 DEF StartWait, Interrupted, Arrive, vars
<1>8. CASE Tick
  BY <1>8 DEF Tick, Promise!Next, Promise!Tick
<1> QED
  BY <1>2, <1>3, <1>4, <1>5, <1>6, <1>7, <1>8 DEF Next, Step, Done

\* An exchange over UDP does nothing that Attempt, what every transport
\* promises its caller, does not allow: one outcome, an answer or an error,
\* and Timeout no sooner than the deadline (the trait Transport of lib.rs).
THEOREM UdpKeepsThePromise == Spec => Promise!Init /\ [][Promise!Next]_(Promise!vars)
<1>1. Init => Promise!Init
  BY SameOutcomes DEF Init, Promise!Init
<1> QED
  BY <1>1, PromiseNext, TypeCorrect, WaitsAlways, PTL DEF Spec

=============================================================================
