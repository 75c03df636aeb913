---------------------------- MODULE DogRun_proofs ---------------------------
(***************************************************************************)
(* Proofs about a run of dog, for every plan, response, error and time     *)
(* limit.                                                                  *)
(***************************************************************************)
EXTENDS DogRun, TLAPS

-----------------------------------------------------------------------------
(* The plan and the turns.                                                 *)

\* A plan has at least one set, and each set has a transport, and at least one
\* nameserver and one name.
LEMMA PlanType ==
    ASSUME NEW p \in Plans
    PROVE  /\ Len(p) \in Nat \ {0}
           /\ \A set \in 1..Len(p) :
                 /\ p[set].transport \in Transports
                 /\ p[set].servers \in Nat \ {0}
                 /\ p[set].names \in Nat \ {0}
<1> DEFINE Sets == [transport : Transports, servers : Nat \ {0}, names : Nat \ {0}]
<1>1. p # <<>> /\ p \in Seq(Sets)
  BY PlansAssumption
<1> HIDE DEF Sets
<1>2. Len(p) \in Nat \ {0} /\ \A set \in 1..Len(p) : p[set] \in Sets
  BY <1>1
<1> QED
  BY <1>2 DEF Sets

\* A set starts with its first name and server.
LEMMA FirstTurnType ==
    ASSUME TypeOK, NEW set \in 1..Len(plan)
    PROVE  /\ FirstTurn(set) \in Turns
           /\ FirstTurn(set).set = set /\ FirstTurn(set).name = 1
           /\ FirstTurn(set).server = 1 /\ FirstTurn(set).leg = FirstLeg(set)
<1>1. FirstLeg(set) \in Transports
  BY PlanType DEF FirstLeg, Transports, TypeOK
<1> QED
  BY <1>1, PlanType DEF FirstTurn, Turns, TypeOK

\* NextSet goes to the first turn of the next set, if there is one.
LEMMA NextSetType ==
    ASSUME TypeOK, NextSet, plan' = plan, pc = "send"
    PROVE  /\ turn' \in Turns /\ turn'.set <= Len(plan)
           /\ turn'.name <= plan[turn'.set].names
           /\ turn'.server <= plan[turn'.set].servers
           /\ pc' \in {"send", "print"}
<1>1. CASE turn.set < Len(plan)
  <2>1. turn.set + 1 \in 1..Len(plan)
    BY <1>1, PlanType DEF TypeOK, Turns
  <2> QED
    BY <1>1, <2>1, FirstTurnType, PlanType DEF NextSet, TypeOK
<1>2. CASE ~(turn.set < Len(plan))
  BY <1>2 DEF NextSet, TypeOK
<1> QED
  BY <1>1, <1>2

\* What the return of an exchange records.
LEMMA ExchangeType ==
    ASSUME TypeOK, NEW outcome \in Outcomes, Exchange(outcome)
    PROVE  /\ asked' \subseteq Exchanges
           /\ pc = "send" /\ UNCHANGED <<inputs, status>>
BY DEF TypeOK, Exchange, Exchanges

-----------------------------------------------------------------------------
(* Type correctness.                                                       *)

LEMMA InitType == Init => TypeOK
<1> SUFFICES ASSUME Init PROVE TypeOK
  OBVIOUS
<1>1. /\ Len(plan) \in Nat \ {0}
      /\ plan[1].transport \in Transports
      /\ plan[1].servers \in Nat \ {0} /\ plan[1].names \in Nat \ {0}
  BY PlanType DEF Init
<1>2. turn \in Turns /\ turn.set = 1 /\ turn.name = 1 /\ turn.server = 1
  BY <1>1 DEF Init, FirstLeg, Turns, Transports
<1> QED
  <2>1. responses \in Seq(Kept) /\ reported \in Seq(Reports) /\ asked \subseteq Exchanges
    BY DEF Init
  <2>2. plan \in Plans /\ short \in BOOLEAN /\ showOpt \in BOOLEAN /\ errored \in BOOLEAN
    BY DEF Init
  <2>3. pc = "options" /\ status \in 0..256
    BY DEF Init, NoStatus
  <2> QED
    BY <1>1, <1>2, <2>1, <2>2, <2>3 DEF TypeOK

LEMMA NextType == TypeOK /\ [Next]_vars => TypeOK'
<1> SUFFICES ASSUME TypeOK, [Next]_vars PROVE TypeOK'
  OBVIOUS
<1> USE DEF TypeOK
<1>1. CASE ParseOptions \/ Generate
  <2>1. UNCHANGED <<inputs, turn, responses, errored, reported, asked, status>>
    BY <1>1 DEF ParseOptions, Generate
  <2>2. pc' \in {"generate", "send"}
    BY <1>1 DEF ParseOptions, Generate
  <2> QED
    BY <2>1, <2>2 DEF inputs
<1>1a. CASE InvalidOptions \/ ShowHelp \/ NoResolver
  <2>1. status' \in {SUCCESS, OPTIONS_ERROR, SYSTEM_ERROR} /\ pc' = "exit"
    BY <1>1a DEF InvalidOptions, ShowHelp, NoResolver, ExitWith, OutputFailure
  <2>2. UNCHANGED <<inputs, turn, responses, errored, reported, asked>>
    BY <1>1a DEF InvalidOptions, ShowHelp, NoResolver
  <2> QED
    BY <2>1, <2>2 DEF inputs, SUCCESS, OPTIONS_ERROR, SYSTEM_ERROR
<1>2. ASSUME NEW msg \in Responses, RetryOverTcp(msg) PROVE TypeOK'
  <2>1. Answered(msg) \in Outcomes
    BY DEF Outcomes
  <2>2. turn' \in Turns /\ turn'.set = turn.set /\ turn'.name = turn.name /\ turn'.server = turn.server
    BY <1>2 DEF RetryOverTcp, Turns, Transports
  <2>3. asked' \subseteq Exchanges /\ UNCHANGED <<plan, short, showOpt, status>>
    BY <1>2, <2>1, ExchangeType DEF RetryOverTcp, inputs
  <2>4. UNCHANGED <<pc, responses, errored, reported>>
    BY <1>2 DEF RetryOverTcp
  <2> QED
    BY <2>2, <2>3, <2>4
<1>3. ASSUME NEW msg \in Responses, TryNextName(msg) PROVE TypeOK'
  <2>1. Answered(msg) \in Outcomes
    BY DEF Outcomes
  <2>2. turn.set \in 1..Len(plan)
    BY PlanType DEF Turns
  <2>3. FirstLeg(turn.set) \in Transports
    BY <2>2, PlanType DEF FirstLeg, Transports, TypeOK
  <2>4. /\ turn' \in Turns /\ turn'.set = turn.set /\ turn'.name = turn.name + 1
        /\ turn'.server = 1
    BY <1>3, <2>3 DEF TryNextName, NextNameTurn, Turns
  <2>5. turn'.name <= plan[turn.set].names
    BY <1>3, <2>2, <2>4, PlanType DEF TryNextName, NeedsNextName, Turns
  <2>6. turn'.server <= plan[turn.set].servers
    BY <2>2, <2>4, PlanType
  <2> QED
    <3>1. asked' \subseteq Exchanges /\ UNCHANGED <<plan, short, showOpt, status>>
      BY <1>3, <2>1, ExchangeType DEF TryNextName, inputs
    <3>2. UNCHANGED <<pc, responses, errored, reported>>
      BY <1>3 DEF TryNextName
    <3> QED
      BY <2>4, <2>5, <2>6, <3>1, <3>2
<1>4. ASSUME NEW msg \in Responses, Keep(msg) PROVE TypeOK'
  <2>1. Answered(msg) \in Outcomes
    BY DEF Outcomes
  <2>2. NextSet /\ plan' = plan /\ pc = "send"
    BY <1>4, <2>1, ExchangeType DEF Keep, inputs
  <2>3. responses' \in Seq(Kept)
    <3>1. [from |-> turn, msg |-> msg] \in Kept
      BY DEF Kept
    <3> QED
      BY <1>4, <3>1 DEF Keep
  <2>4. asked' \subseteq Exchanges /\ UNCHANGED <<plan, short, showOpt, status>>
    BY <1>4, <2>1, ExchangeType DEF Keep, inputs
  <2>5. UNCHANGED <<errored, reported>>
    BY <1>4 DEF Keep
  <2> QED
    BY <2>2, <2>3, <2>4, <2>5, NextSetType
<1>5. ASSUME NEW error \in SendErrors, FailOver(error) PROVE TypeOK'
  <2>1. Failed(error) \in Outcomes
    BY DEF Outcomes
  <2>2. turn.set \in 1..Len(plan)
    BY PlanType DEF Turns
  <2>3. FirstLeg(turn.set) \in Transports
    BY <2>2, PlanType DEF FirstLeg, Transports, TypeOK
  <2>4. /\ turn' \in Turns /\ turn'.set = turn.set /\ turn'.name = turn.name
        /\ turn'.server = turn.server + 1
    BY <1>5, <2>3 DEF FailOver, NextServerTurn, Turns
  <2>5. turn'.server <= plan[turn.set].servers
    BY <1>5, <2>2, <2>4, PlanType DEF FailOver, Turns
  <2>6. asked' \subseteq Exchanges /\ UNCHANGED <<plan, short, showOpt, status>>
    BY <1>5, <2>1, ExchangeType DEF FailOver, inputs
  <2>7. UNCHANGED <<pc, responses, errored, reported>>
    BY <1>5 DEF FailOver
  <2> QED
    BY <2>4, <2>5, <2>6, <2>7
<1>6. ASSUME NEW error \in SendErrors, Report(error) PROVE TypeOK'
  <2>1. Failed(error) \in Outcomes
    BY DEF Outcomes
  <2>2. NextSet /\ plan' = plan /\ pc = "send"
    BY <1>6, <2>1, ExchangeType DEF Report, inputs
  <2>3. reported' \in Seq(Reports)
    <3>1. [from |-> turn, error |-> error] \in Reports
      BY DEF Reports
    <3> QED
      BY <1>6, <3>1 DEF Report
  <2>4. asked' \subseteq Exchanges /\ UNCHANGED <<plan, short, showOpt, status>>
    BY <1>6, <2>1, ExchangeType DEF Report, inputs
  <2>5. errored' = TRUE /\ responses' = responses
    BY <1>6 DEF Report
  <2> QED
    BY <2>2, <2>3, <2>4, <2>5, NextSetType
<1>7. CASE PrintResponses \/ PrintFails
  <2>1. status' \in {SUCCESS, NETWORK_ERROR, NO_SHORT_RESULTS, SYSTEM_ERROR} /\ pc' = "exit"
    BY <1>7 DEF PrintResponses, PrintFails, ExitWith, OutputFailure, ExitCode
  <2>2. UNCHANGED <<inputs, turn, responses, errored, reported, asked>>
    BY <1>7 DEF PrintResponses, PrintFails
  <2> QED
    BY <2>1, <2>2 DEF inputs, SUCCESS, NETWORK_ERROR, NO_SHORT_RESULTS, SYSTEM_ERROR
<1>8. CASE Done \/ UNCHANGED vars
  <2>1. UNCHANGED <<plan, short, showOpt, pc, turn, responses, errored, reported, asked, status>>
    BY <1>8 DEF Done, vars, inputs
  <2> QED
    BY <2>1
<1> QED
  BY <1>1, <1>1a, <1>2, <1>3, <1>4, <1>5, <1>6, <1>7, <1>8 DEF Next, ExchangeReturns

\* Every variable of a run keeps its type: in particular the turn never
\* leaves the names, nameservers and sets there are.
THEOREM TypeCorrect == Spec => []TypeOK
BY InitType, NextType, PTL DEF Spec

-----------------------------------------------------------------------------
(* The steps that end no exchange.                                         *)

\* Apart from the return of an exchange, a step only moves pc and status.
LEMMA QuietStep ==
    ASSUME [Next]_vars, ~ExchangeReturns
    PROVE  /\ UNCHANGED <<plan, short, showOpt, turn, responses, errored, reported, asked>>
           /\ \/ pc' = pc
              \/ pc = "options" /\ pc' = "generate"
              \/ pc = "generate" /\ pc' = "send"
              \/ pc \in {"options", "generate", "print"} /\ pc' = "exit"
<1>1. CASE ParseOptions \/ Generate
  BY <1>1 DEF ParseOptions, Generate, inputs
<1>2. CASE InvalidOptions \/ ShowHelp \/ NoResolver
  BY <1>2 DEF InvalidOptions, ShowHelp, NoResolver, ExitWith, inputs
<1>3. CASE PrintResponses \/ PrintFails
  BY <1>3 DEF PrintResponses, PrintFails, ExitWith, inputs
<1>4. CASE Done \/ UNCHANGED vars
  BY <1>4 DEF Done, vars, inputs
<1> QED
  BY <1>1, <1>2, <1>3, <1>4 DEF Next

\* The plan is made before the run.
LEMMA PlanStays ==
    ASSUME [Next]_vars
    PROVE  plan' = plan
<1>1. ASSUME ExchangeReturns PROVE plan' = plan
  <2>1. ASSUME NEW outcome, Exchange(outcome) PROVE plan' = plan
    BY <2>1 DEF Exchange, inputs
  <2> QED
    BY <1>1, <2>1 DEF ExchangeReturns, RetryOverTcp, TryNextName, Keep, FailOver, Report
<1> QED
  BY <1>1, QuietStep

-----------------------------------------------------------------------------
(* No exchange is made that is not due.                                    *)

\* The exchange under way is due as well as those made.
DueInv ==
    /\ EveryExchangeIsDue
    /\ pc \in {"options", "generate", "send"} => Due(turn)

\* What makes an exchange due stays true as more are made.
LEMMA DueStays ==
    ASSUME plan' = plan, asked \subseteq asked', NEW t, Due(t)
    PROVE  Due(t)'
<1>1. ASSUME NEW set, NEW name, NameHasNoAnswer(set, name)
      PROVE  NameHasNoAnswer(set, name)'
  BY <1>1 DEF NameHasNoAnswer, NeedsTcp
<1>2. ASSUME NEW set, NEW name, NEW server, ServerFailed(set, name, server)
      PROVE  ServerFailed(set, name, server)'
  BY <1>2 DEF ServerFailed
<1>3. ASSUME NEW set, NEW name, NEW server, WasCutShort(set, name, server)
      PROVE  WasCutShort(set, name, server)'
  BY <1>3 DEF WasCutShort
<1> QED
  BY <1>1, <1>2, <1>3 DEF Due, FirstLeg

\* The first turn of a set is always due.
LEMMA FirstTurnDue ==
    ASSUME NEW set
    PROVE  Due(FirstTurn(set))
<1>1. PICK t : t = FirstTurn(set)
  OBVIOUS
<1>2. t.set = set /\ t.name = 1 /\ t.server = 1 /\ t.leg = FirstLeg(set)
  BY <1>1 DEF FirstTurn
<1>3. Due(t)
  BY <1>2 DEF Due
<1> QED
  BY <1>1, <1>3

\* An exchange is recorded, and only the exchange under way.
LEMMA ExchangeAsked ==
    ASSUME NEW outcome, Exchange(outcome)
    PROVE  /\ plan' = plan /\ pc = "send" /\ asked \subseteq asked'
           /\ \E e \in asked' : e.turn = turn /\ e.outcome = outcome
           /\ \A a \in asked' \ asked : a.turn = turn /\ a.outcome = outcome
<1>1. PICK took \in Durations :
        asked' = asked \cup {[turn |-> turn, outcome |-> outcome, took |-> took]}
  BY DEF Exchange
<1>2. PICK e : e = [turn |-> turn, outcome |-> outcome, took |-> took]
  OBVIOUS
<1>3. e.turn = turn /\ e.outcome = outcome /\ asked' = asked \cup {e}
  BY <1>1, <1>2
<1> QED
  BY <1>3 DEF Exchange, inputs

LEMMA DueInit == Init => DueInv
<1> SUFFICES ASSUME Init PROVE DueInv
  OBVIOUS
<1>1. EveryExchangeIsDue
  BY DEF Init, EveryExchangeIsDue
<1>2. Due(turn)
  BY DEF Init, Due
<1> QED
  BY <1>1, <1>2 DEF DueInv

LEMMA DueNext == TypeOK /\ DueInv /\ [Next]_vars => DueInv'
<1> SUFFICES ASSUME TypeOK, DueInv, [Next]_vars PROVE DueInv'
  OBVIOUS
<1>1. CASE ~ExchangeReturns
  <2>1. plan' = plan /\ turn' = turn /\ asked' = asked
    BY <1>1, QuietStep
  <2>2. pc' \in {"options", "generate", "send"} => pc \in {"options", "generate", "send"}
    BY <1>1, QuietStep
  <2>3. ASSUME NEW t, Due(t) PROVE Due(t)'
    BY <2>1, <2>3, DueStays
  <2>4. EveryExchangeIsDue'
    BY <2>1, <2>3 DEF DueInv, EveryExchangeIsDue
  <2>5. PICK t : t = turn
    OBVIOUS
  <2>6. Due(t) => Due(t)'
    BY <2>3
  <2>7. (pc' \in {"options", "generate", "send"}) => Due(turn)'
    BY <2>1, <2>2, <2>5, <2>6 DEF DueInv, Due
  <2> QED
    BY <2>4, <2>7 DEF DueInv
<1>2. ASSUME NEW outcome, Exchange(outcome) PROVE EveryExchangeIsDue'
  <2>1. /\ plan' = plan /\ asked \subseteq asked' /\ Due(turn)
        /\ \A a \in asked' \ asked : a.turn = turn
    BY <1>2, ExchangeAsked DEF DueInv
  <2>2. ASSUME NEW a \in asked' PROVE Due(a.turn)
    BY <2>1, <2>2 DEF DueInv, EveryExchangeIsDue
  <2>3. ASSUME NEW a \in asked' PROVE Due(a.turn)'
    BY <2>1, <2>2, <2>3, DueStays
  <2> QED
    BY <2>3 DEF EveryExchangeIsDue
<1>3. ASSUME NEW msg \in Responses, RetryOverTcp(msg) PROVE Due(turn)'
  <2>1. Exchange(Answered(msg))
    BY <1>3 DEF RetryOverTcp
  <2>2. PICK e \in asked' : e.turn = turn /\ e.outcome = Answered(msg)
    BY <2>1, ExchangeAsked
  <2>3. PICK t : t = turn
    OBVIOUS
  <2>4. Due(t)'
    BY <2>1, <2>3, ExchangeAsked, DueStays DEF DueInv, Due
  <2>5. /\ turn' = [t EXCEPT !.leg = "tcp"] /\ t \in Turns
        /\ plan[t.set].transport = "auto" /\ t.leg = "udp" /\ msg.truncated
    BY <1>3, <2>3 DEF RetryOverTcp, NeedsTcp, TypeOK
  <2>6. /\ turn'.set = t.set /\ turn'.name = t.name
        /\ turn'.server = t.server /\ turn'.leg = "tcp"
    BY <2>5 DEF Turns
  <2>7. WasCutShort(t.set, t.name, t.server)'
    BY <2>2, <2>3, <2>5 DEF WasCutShort, About
  <2>8. plan' = plan
    BY <2>1, ExchangeAsked
  <2> QED
    BY <2>4, <2>5, <2>6, <2>7, <2>8 DEF Due
<1>4. ASSUME NEW msg \in Responses, TryNextName(msg) PROVE Due(turn)'
  <2>1. Exchange(Answered(msg))
    BY <1>4 DEF TryNextName
  <2>2. PICK e \in asked' : e.turn = turn /\ e.outcome = Answered(msg)
    BY <2>1, ExchangeAsked
  <2>3. PICK t : t = turn
    OBVIOUS
  <2>4. plan' = plan /\ HasErrorCode(msg) /\ ~NeedsTcp(t, msg) /\ turn' = NextNameTurn
    BY <1>4, <2>1, <2>3, ExchangeAsked DEF TryNextName, NeedsNextName
  <2>5. /\ turn'.set = t.set /\ turn'.name = t.name + 1
        /\ turn'.server = 1 /\ turn'.leg = FirstLeg(t.set)
    BY <2>3, <2>4 DEF NextNameTurn
  <2>6. turn'.name - 1 = t.name
    BY <2>3, <2>5 DEF TypeOK, Turns
  <2>7. ~NeedsTcp(e.turn, msg)'
    BY <2>2, <2>3, <2>4 DEF NeedsTcp
  <2>8. NameHasNoAnswer(t.set, t.name)'
    BY <2>2, <2>3, <2>4, <2>7 DEF NameHasNoAnswer, About
  <2>9. FirstLeg(t.set)' = FirstLeg(t.set)
    BY <2>4 DEF FirstLeg
  <2> QED
    BY <2>5, <2>6, <2>8, <2>9 DEF Due
<1>5. ASSUME NEW error \in SendErrors, FailOver(error) PROVE Due(turn)'
  <2>1. Exchange(Failed(error))
    BY <1>5 DEF FailOver
  <2>2. PICK e \in asked' : e.turn = turn /\ e.outcome = Failed(error)
    BY <2>1, ExchangeAsked
  <2>3. PICK t : t = turn
    OBVIOUS
  <2>4. plan' = plan /\ turn' = NextServerTurn
    BY <1>5, <2>1, ExchangeAsked DEF FailOver
  <2>5. /\ turn'.set = t.set /\ turn'.name = t.name
        /\ turn'.server = t.server + 1 /\ turn'.leg = FirstLeg(t.set)
    BY <2>3, <2>4 DEF NextServerTurn
  <2>6. turn'.server - 1 = t.server
    BY <2>3, <2>5 DEF TypeOK, Turns
  <2>7. ServerFailed(t.set, t.name, t.server)'
    BY <2>2, <2>3 DEF ServerFailed, About
  <2>8. FirstLeg(t.set)' = FirstLeg(t.set)
    BY <2>4 DEF FirstLeg
  <2>9. Due(t)'
    BY <2>1, <2>3, ExchangeAsked, DueStays DEF DueInv, Due
  <2> QED
    BY <2>5, <2>6, <2>7, <2>8, <2>9 DEF Due
<1>6. ASSUME NextSet, plan' = plan, pc = "send", pc' \in {"options", "generate", "send"}
      PROVE  Due(turn)'
  <2>1. PICK set : turn' = FirstTurn(set)
    BY <1>6 DEF NextSet
  <2>2. FirstTurn(set)' = FirstTurn(set)
    BY <1>6 DEF FirstTurn, FirstLeg
  <2>3. Due(FirstTurn(set))'
    BY FirstTurnDue, PTL
  <2> QED
    BY <2>1, <2>2, <2>3 DEF Due
<1>7. ASSUME NEW msg \in Responses, Keep(msg) PROVE DueInv'
  <2>1. Exchange(Answered(msg)) /\ NextSet
    BY <1>7 DEF Keep
  <2>2. plan' = plan /\ pc = "send"
    BY <2>1, ExchangeAsked
  <2> QED
    BY <2>1, <2>2, <1>2, <1>6 DEF DueInv
<1>8. ASSUME NEW error \in SendErrors, Report(error) PROVE DueInv'
  <2>1. Exchange(Failed(error)) /\ NextSet
    BY <1>8 DEF Report
  <2>2. plan' = plan /\ pc = "send"
    BY <2>1, ExchangeAsked
  <2> QED
    BY <2>1, <2>2, <1>2, <1>6 DEF DueInv
<1>9. ASSUME NEW outcome, Exchange(outcome), Due(turn)' PROVE DueInv'
  BY <1>9, <1>2 DEF DueInv
<1>10. ASSUME NEW msg \in Responses, RetryOverTcp(msg) \/ TryNextName(msg) PROVE DueInv'
  <2>1. Exchange(Answered(msg))
    BY <1>10 DEF RetryOverTcp, TryNextName
  <2> QED
    BY <2>1, <1>10, <1>3, <1>4, <1>9
<1>11. ASSUME NEW error \in SendErrors, FailOver(error) PROVE DueInv'
  <2>1. Exchange(Failed(error))
    BY <1>11 DEF FailOver
  <2> QED
    BY <2>1, <1>11, <1>5, <1>9
<1> QED
  BY <1>1, <1>7, <1>8, <1>10, <1>11 DEF ExchangeReturns

\* No exchange is made that need not be, whatever the names, nameservers and
\* transports of a run: send_until_answered, FailoverTransport::send and
\* AutoTransport::send go on only from what calls for it.
THEOREM ExchangesAreDue == Spec => []EveryExchangeIsDue
<1>1. Init => DueInv
  BY DueInit
<1>2. TypeOK /\ TypeOK' /\ DueInv /\ [Next]_vars => DueInv'
  BY DueNext
<1>3. DueInv => EveryExchangeIsDue
  BY DEF DueInv
<1> QED
  BY <1>1, <1>2, <1>3, TypeCorrect, PTL DEF Spec

-----------------------------------------------------------------------------
(* The first good answer.                                                  *)

\* What was kept stays, in its place.
LEMMA KeptStay ==
    ASSUME TypeOK, [Next]_vars
    PROVE  \A i \in 1..Len(responses) :
               i \in 1..Len(responses') /\ responses'[i] = responses[i]
<1>1. CASE responses' = responses
  BY <1>1
<1>2. ASSUME NEW msg \in Responses, Keep(msg)
      PROVE  \A i \in 1..Len(responses) :
                 i \in 1..Len(responses') /\ responses'[i] = responses[i]
  <2>1. responses \in Seq(Kept) /\ responses' = Append(responses, [from |-> turn, msg |-> msg])
    BY <1>2 DEF TypeOK, Keep
  <2> QED
    BY <2>1
<1>3. CASE ~ExchangeReturns
  BY <1>1, <1>3, QuietStep
<1>4. ASSUME ExchangeReturns, \A msg \in Responses : ~Keep(msg) PROVE responses' = responses
  BY <1>4 DEF ExchangeReturns, RetryOverTcp, TryNextName, FailOver, Report
<1> QED
  BY <1>1, <1>2, <1>3, <1>4

\* What was reported stays, in its place.
LEMMA ReportedStay ==
    ASSUME TypeOK, [Next]_vars
    PROVE  \A i \in 1..Len(reported) :
               i \in 1..Len(reported') /\ reported'[i] = reported[i]
<1>1. CASE reported' = reported
  BY <1>1
<1>2. ASSUME NEW error \in SendErrors, Report(error)
      PROVE  \A i \in 1..Len(reported) :
                 i \in 1..Len(reported') /\ reported'[i] = reported[i]
  <2>1. reported \in Seq(Reports) /\ reported' = Append(reported, [from |-> turn, error |-> error])
    BY <1>2 DEF TypeOK, Report
  <2> QED
    BY <2>1
<1>3. CASE ~ExchangeReturns
  BY <1>1, <1>3, QuietStep
<1>4. ASSUME ExchangeReturns, \A error \in SendErrors : ~Report(error) PROVE reported' = reported
  BY <1>4 DEF ExchangeReturns, RetryOverTcp, TryNextName, FailOver, Keep
<1> QED
  BY <1>1, <1>2, <1>3, <1>4

\* A response that ends its set is kept by the very step that receives it.
LEMMA FinalAnswerKept ==
    ASSUME TypeOK, ExchangeReturns, NEW a \in asked' \ asked, NEW msg \in Responses,
           EndsWithResponse(a, msg)
    PROVE  \E i \in 1..Len(responses') : responses'[i] = [from |-> a.turn, msg |-> msg]
<1>1. ASSUME NEW error \in SendErrors PROVE ~FailOver(error) /\ ~Report(error)
  <2>1. ~Exchange(Failed(error))
    BY ExchangeAsked DEF EndsWithResponse, Answered, Failed
  <2> QED
    BY <2>1 DEF FailOver, Report
<1>2. PICK m \in Responses : RetryOverTcp(m) \/ TryNextName(m) \/ Keep(m)
  BY <1>1 DEF ExchangeReturns
<1>3. a.turn = turn /\ a.outcome = Answered(m)
  BY <1>2, ExchangeAsked DEF RetryOverTcp, TryNextName, Keep
<1>4. m = msg
  BY <1>3 DEF EndsWithResponse, Answered
<1>5. Keep(msg)
  BY <1>2, <1>3, <1>4 DEF RetryOverTcp, TryNextName, EndsWithResponse
<1>6. responses \in Seq(Kept) /\ responses' = Append(responses, [from |-> turn, msg |-> msg])
  BY <1>5 DEF TypeOK, Keep
<1>7. /\ Len(responses) + 1 \in 1..Len(responses')
      /\ responses'[Len(responses) + 1] = [from |-> turn, msg |-> msg]
  BY <1>6
<1> QED
  BY <1>3, <1>7

\* So is an error that ends its set reported.
LEMMA FinalErrorReported ==
    ASSUME TypeOK, ExchangeReturns, NEW a \in asked' \ asked, NEW error \in SendErrors,
           EndsWithError(a, error)
    PROVE  \E i \in 1..Len(reported') : reported'[i] = [from |-> a.turn, error |-> error]
<1>1. ASSUME NEW msg \in Responses PROVE ~RetryOverTcp(msg) /\ ~TryNextName(msg) /\ ~Keep(msg)
  <2>1. ~Exchange(Answered(msg))
    BY ExchangeAsked DEF EndsWithError, Answered, Failed
  <2> QED
    BY <2>1 DEF RetryOverTcp, TryNextName, Keep
<1>2. PICK e \in SendErrors : FailOver(e) \/ Report(e)
  BY <1>1 DEF ExchangeReturns
<1>3. a.turn = turn /\ a.outcome = Failed(e)
  BY <1>2, ExchangeAsked DEF FailOver, Report
<1>4. e = error
  BY <1>3 DEF EndsWithError, Failed
<1>5. Report(error)
  <2>1. turn.set \in 1..Len(plan) /\ turn.server \in Nat
    BY PlanType DEF TypeOK, Turns
  <2>2. plan[turn.set].servers \in Nat
    BY <2>1, PlanType DEF TypeOK
  <2>3. ~(turn.server < plan[turn.set].servers)
    BY <1>3, <2>1, <2>2 DEF EndsWithError
  <2> QED
    BY <1>2, <1>4, <2>3 DEF FailOver
<1>6. reported \in Seq(Reports) /\ reported' = Append(reported, [from |-> turn, error |-> error])
  BY <1>5 DEF TypeOK, Report
<1>7. /\ Len(reported) + 1 \in 1..Len(reported')
      /\ reported'[Len(reported) + 1] = [from |-> turn, error |-> error]
  BY <1>6
<1> QED
  BY <1>3, <1>7

LEMMA FirstGoodNext == TypeOK /\ FirstGoodAnswerIsKept /\ [Next]_vars => FirstGoodAnswerIsKept'
<1> SUFFICES ASSUME TypeOK, FirstGoodAnswerIsKept, [Next]_vars,
                    NEW a \in asked', NEW msg \in Responses,
                    a.outcome = Answered(msg), ~HasErrorCode(msg), ~NeedsTcp(a.turn, msg)'
             PROVE  \E i \in 1..Len(responses') : responses'[i] = [from |-> a.turn, msg |-> msg]
  BY DEF FirstGoodAnswerIsKept
<1>1. plan' = plan
  BY PlanStays
<1>2. ~NeedsTcp(a.turn, msg)
  BY <1>1 DEF NeedsTcp
<1>3. CASE a \in asked
  BY <1>2, <1>3, KeptStay DEF FirstGoodAnswerIsKept
<1>4. CASE a \notin asked
  <2>1. ExchangeReturns
    BY <1>4, QuietStep
  <2>2. EndsWithResponse(a, msg)
    BY <1>2 DEF EndsWithResponse, NeedsNextName
  <2> QED
    BY <1>4, <2>1, <2>2, FinalAnswerKept
<1> QED
  BY <1>3, <1>4

\* A good answer is never lost, whatever is asked and fails after it.
THEOREM GoodAnswersAreKept == Spec => []FirstGoodAnswerIsKept
<1>1. Init => FirstGoodAnswerIsKept
  BY DEF Init, FirstGoodAnswerIsKept
<1> QED
  BY <1>1, FirstGoodNext, TypeCorrect, PTL DEF Spec

-----------------------------------------------------------------------------
(* What is kept and reported is what the sets ended with.                  *)

\* KeptAndReportedAreFinal, of one response and of one error, after the
\* exchanges of asks.
ResponseIsFinal(asks, r) ==
    /\ \E a \in asks : a.turn = r.from /\ a.outcome = Answered(r.msg)
    /\ HasErrorCode(r.msg) => r.from.name = plan[r.from.set].names
    /\ ~NeedsTcp(r.from, r.msg)

ErrorIsFinal(asks, r) ==
    /\ \E a \in asks : a.turn = r.from /\ a.outcome = Failed(r.error)
    /\ r.from.server = plan[r.from.set].servers

\* And of one exchange.
OutcomeStands(a) ==
    /\ \A msg \in Responses : EndsWithResponse(a, msg) =>
          \E i \in 1..Len(responses) : responses[i] = [from |-> a.turn, msg |-> msg]
    /\ \A error \in SendErrors : EndsWithError(a, error) =>
          \E i \in 1..Len(reported) : reported[i] = [from |-> a.turn, error |-> error]

\* The property is one of every response, every error and every exchange.
LEMMA FinalParts ==
    KeptAndReportedAreFinal <=>
        /\ \A i \in 1..Len(responses) : ResponseIsFinal(asked, responses[i])
        /\ \A i \in 1..Len(reported) : ErrorIsFinal(asked, reported[i])
        /\ \A a \in asked : OutcomeStands(a)
BY ZenonT(30) DEF KeptAndReportedAreFinal, ResponseIsFinal, ErrorIsFinal, OutcomeStands

\* An outcome that stands still does after a step, and so does a new one.
LEMMA OutcomesStandNext ==
    ASSUME TypeOK, KeptAndReportedAreFinal, [Next]_vars
    PROVE  \A a \in asked' : OutcomeStands(a)'
<1>1. plan' = plan
  BY PlanStays
<1>2. ASSUME NEW a \in asked', NEW msg \in Responses, EndsWithResponse(a, msg)'
      PROVE  \E i \in 1..Len(responses') : responses'[i] = [from |-> a.turn, msg |-> msg]
  <2>1. EndsWithResponse(a, msg)
    BY <1>1, <1>2 DEF EndsWithResponse, NeedsTcp, NeedsNextName
  <2>2. CASE a \in asked
    <3>1. PICK i \in 1..Len(responses) : responses[i] = [from |-> a.turn, msg |-> msg]
      BY <2>1, <2>2 DEF KeptAndReportedAreFinal
    <3> QED
      BY <3>1, KeptStay
  <2>3. CASE a \notin asked
    BY <2>1, <2>3, QuietStep, FinalAnswerKept
  <2> QED
    BY <2>2, <2>3
<1>3. ASSUME NEW a \in asked', NEW error \in SendErrors, EndsWithError(a, error)'
      PROVE  \E i \in 1..Len(reported') : reported'[i] = [from |-> a.turn, error |-> error]
  <2>1. EndsWithError(a, error)
    BY <1>1, <1>3 DEF EndsWithError
  <2>2. CASE a \in asked
    <3>1. PICK i \in 1..Len(reported) : reported[i] = [from |-> a.turn, error |-> error]
      BY <2>1, <2>2 DEF KeptAndReportedAreFinal
    <3> QED
      BY <3>1, ReportedStay
  <2>3. CASE a \notin asked
    BY <2>1, <2>3, QuietStep, FinalErrorReported
  <2> QED
    BY <2>2, <2>3
<1> QED
  BY <1>2, <1>3 DEF OutcomeStands

LEMMA FinalPartsNext ==
    ASSUME TypeOK, KeptAndReportedAreFinal, [Next]_vars,
           \A i \in 1..Len(responses') : ResponseIsFinal(asked', responses'[i]),
           \A i \in 1..Len(reported') : ErrorIsFinal(asked', reported'[i])
    PROVE  KeptAndReportedAreFinal'
<1>0. plan' = plan
  BY PlanStays
<1>1. ASSUME NEW i \in 1..Len(responses')
      PROVE  /\ \E a \in asked' : a.turn = responses'[i].from /\ a.outcome = Answered(responses'[i].msg)
             /\ HasErrorCode(responses'[i].msg) => responses'[i].from.name = plan'[responses'[i].from.set].names
             /\ ~NeedsTcp(responses'[i].from, responses'[i].msg)
  BY <1>0 DEF ResponseIsFinal
<1>2. \A a \in asked' : OutcomeStands(a)'
  BY OutcomesStandNext
<1> QED
  BY <1>0, <1>1, <1>2 DEF KeptAndReportedAreFinal, ErrorIsFinal, NeedsTcp, OutcomeStands

\* Later exchanges change nothing about it.
LEMMA FinalStays ==
    ASSUME KeptAndReportedAreFinal, asked \subseteq asked'
    PROVE  /\ \A i \in 1..Len(responses) : ResponseIsFinal(asked', responses[i])
           /\ \A i \in 1..Len(reported) : ErrorIsFinal(asked', reported[i])
BY FinalParts DEF ResponseIsFinal, ErrorIsFinal

\* A response is kept that answers the last name, or without an error code.
LEMMA KeepIsFinal ==
    ASSUME TypeOK, KeptAndReportedAreFinal, [Next]_vars, NEW msg \in Responses, Keep(msg)
    PROVE  KeptAndReportedAreFinal'
<1> DEFINE kept == [from |-> turn, msg |-> msg]
<1>1. plan' = plan /\ asked \subseteq asked' /\ \E a \in asked' : a.turn = turn /\ a.outcome = Answered(msg)
  BY ExchangeAsked DEF Keep
<1>2. ~NeedsTcp(turn, msg) /\ ~NeedsNextName(turn, msg) /\ responses' = Append(responses, kept) /\ reported' = reported
  BY DEF Keep
<1>3. HasErrorCode(msg) => turn.name = plan[turn.set].names
  <2>1. turn.set \in 1..Len(plan) /\ turn.name \in Nat /\ turn.name <= plan[turn.set].names
    BY PlanType DEF TypeOK, Turns
  <2>2. plan[turn.set].names \in Nat
    BY <2>1, PlanType DEF TypeOK
  <2> QED
    BY <1>2, <2>1, <2>2 DEF NeedsNextName
<1>4. kept.from = turn /\ kept.msg = msg
  OBVIOUS
<1> HIDE DEF kept
<1>5. ResponseIsFinal(asked', kept)
  BY <1>1, <1>2, <1>3, <1>4 DEF ResponseIsFinal
<1>6. responses \in Seq(Kept)
  BY DEF TypeOK
<1>7. ASSUME NEW i \in 1..Len(responses') PROVE ResponseIsFinal(asked', responses'[i])
  <2>1. CASE i = Len(responses) + 1
    <3>1. responses'[i] = kept
      BY <1>2, <1>6, <2>1
    <3> QED
      BY <1>5, <3>1
  <2>2. CASE i # Len(responses) + 1
    <3>1. i \in 1..Len(responses) /\ responses'[i] = responses[i]
      BY <1>2, <1>6, <2>2
    <3> QED
      BY <1>1, <3>1, FinalStays
  <2> QED
    BY <2>1, <2>2
<1>8. \A i \in 1..Len(reported') : ErrorIsFinal(asked', reported'[i])
  BY <1>1, <1>2, FinalStays
<1> QED
  BY <1>1, <1>7, <1>8, FinalPartsNext

\* An error is reported that is the last nameserver's.
LEMMA ReportIsFinal ==
    ASSUME TypeOK, KeptAndReportedAreFinal, [Next]_vars, NEW error \in SendErrors, Report(error)
    PROVE  KeptAndReportedAreFinal'
<1> DEFINE told == [from |-> turn, error |-> error]
<1>1. plan' = plan /\ asked \subseteq asked' /\ \E a \in asked' : a.turn = turn /\ a.outcome = Failed(error)
  BY ExchangeAsked DEF Report
<1>2. turn.server = plan[turn.set].servers /\ reported' = Append(reported, told) /\ responses' = responses
  BY DEF Report
<1>3. told.from = turn /\ told.error = error
  OBVIOUS
<1> HIDE DEF told
<1>4. ErrorIsFinal(asked', told)
  BY <1>1, <1>2, <1>3 DEF ErrorIsFinal
<1>5. reported \in Seq(Reports)
  BY DEF TypeOK
<1>6. ASSUME NEW i \in 1..Len(reported') PROVE ErrorIsFinal(asked', reported'[i])
  <2>1. CASE i = Len(reported) + 1
    <3>1. reported'[i] = told
      BY <1>2, <1>5, <2>1
    <3> QED
      BY <1>4, <3>1
  <2>2. CASE i # Len(reported) + 1
    <3>1. i \in 1..Len(reported) /\ reported'[i] = reported[i]
      BY <1>2, <1>5, <2>2
    <3> QED
      BY <1>1, <3>1, FinalStays
  <2> QED
    BY <2>1, <2>2
<1>7. \A i \in 1..Len(responses') : ResponseIsFinal(asked', responses'[i])
  BY <1>1, <1>2, FinalStays
<1> QED
  BY <1>1, <1>6, <1>7, FinalPartsNext

LEMMA FinalNext == TypeOK /\ KeptAndReportedAreFinal /\ [Next]_vars => KeptAndReportedAreFinal'
<1> SUFFICES ASSUME TypeOK, KeptAndReportedAreFinal, [Next]_vars PROVE KeptAndReportedAreFinal'
  OBVIOUS
<1>1. ASSUME plan' = plan, asked \subseteq asked', UNCHANGED <<responses, reported>>
      PROVE  KeptAndReportedAreFinal'
  BY <1>1, FinalStays, FinalPartsNext
<1>2. CASE ~ExchangeReturns
  BY <1>1, <1>2, PlanStays, QuietStep
<1>3. ASSUME NEW msg \in Responses, RetryOverTcp(msg) \/ TryNextName(msg) PROVE KeptAndReportedAreFinal'
  BY <1>1, <1>3, ExchangeAsked DEF RetryOverTcp, TryNextName
<1>4. ASSUME NEW error \in SendErrors, FailOver(error) PROVE KeptAndReportedAreFinal'
  BY <1>1, <1>4, ExchangeAsked DEF FailOver
<1> QED
  BY <1>2, <1>3, <1>4, KeepIsFinal, ReportIsFinal DEF ExchangeReturns

\* What is kept and reported is exactly what the exchanges ended their sets
\* with: the answer to the last name that there was a need to ask for, and the
\* last nameserver's error.  Neither is ever missing, changed or dropped,
\* whatever other sets come to (send_until_answered, FailoverTransport::send,
\* send_all).
THEOREM OutcomesAreFinal == Spec => []KeptAndReportedAreFinal
<1>1. Init => KeptAndReportedAreFinal
  BY DEF Init, KeptAndReportedAreFinal
<1> QED
  BY <1>1, FinalNext, TypeCorrect, PTL DEF Spec

-----------------------------------------------------------------------------
(* One outcome for each set.                                               *)

\* Nothing is settled before the first exchange, which is of the first set.
SettledInv ==
    /\ EverySetSettledOnce
    /\ pc \in {"options", "generate"} =>
          turn.set = 1 /\ Len(responses) = 0 /\ Len(reported) = 0

LEMMA SettledInit == Init => SettledInv
BY DEF Init, SettledInv, EverySetSettledOnce, SetsOver

\* When send_all goes on to the next set, the one under way is over.
LEMMA OneSetOver ==
    ASSUME TypeOK, NextSet, plan' = plan, pc = "send"
    PROVE  SetsOver = turn.set - 1 /\ SetsOver' = turn.set
<1>1. turn.set \in Nat /\ turn.set <= Len(plan) /\ Len(plan) \in Nat
  BY PlanType DEF TypeOK, Turns
<1>2. CASE turn.set < Len(plan)
  <2>1. pc' = "send" /\ turn'.set = turn.set + 1
    BY <1>2 DEF NextSet, FirstTurn
  <2> QED
    BY <1>1, <2>1 DEF SetsOver
<1>3. CASE ~(turn.set < Len(plan))
  <2>1. pc' = "print" /\ Len(plan) = turn.set
    BY <1>1, <1>3 DEF NextSet
  <2> QED
    BY <2>1 DEF SetsOver
<1> QED
  BY <1>2, <1>3

\* What is appended to what is in order, all of sets that are over, is in order.
LEMMA AppendInOrder ==
    ASSUME NEW S, NEW s \in Seq(S), NEW e \in S, NEW over \in Nat,
           \A x \in S : x.from.set \in Nat,
           \A i \in 1..Len(s) : s[i].from.set <= over,
           \A i, j \in 1..Len(s) : i < j => s[i].from.set < s[j].from.set,
           e.from.set = over + 1,
           NEW t, t = Append(s, e)
    PROVE  /\ Len(t) = Len(s) + 1
           /\ \A i \in 1..Len(t) : t[i].from.set <= over + 1
           /\ \A i, j \in 1..Len(t) : i < j => t[i].from.set < t[j].from.set
           /\ \A i \in 1..Len(t) : (i \in 1..Len(s) /\ t[i] = s[i]) \/ t[i] = e
OBVIOUS

LEMMA SettledNext == TypeOK /\ SettledInv /\ [Next]_vars => SettledInv'
<1> SUFFICES ASSUME TypeOK, SettledInv, [Next]_vars PROVE SettledInv'
  OBVIOUS
<1>1. CASE ~ExchangeReturns
  <2>1. UNCHANGED <<plan, turn, responses, reported>>
    BY <1>1, QuietStep
  <2>2. SetsOver' = SetsOver
    BY <1>1, <2>1, QuietStep DEF SetsOver, SettledInv, EverySetSettledOnce
  <2>3. EverySetSettledOnce'
    BY <2>1, <2>2 DEF SettledInv, EverySetSettledOnce
  <2>4. pc' \in {"options", "generate"} => pc \in {"options", "generate"}
    BY <1>1, QuietStep
  <2> QED
    BY <2>1, <2>3, <2>4 DEF SettledInv
<1>2. CASE /\ pc = "send" /\ pc' = "send" /\ plan' = plan
           /\ turn'.set = turn.set /\ UNCHANGED <<responses, reported>>
  <2>1. SetsOver' = SetsOver
    BY <1>2 DEF SetsOver
  <2>2. EverySetSettledOnce'
    BY <1>2, <2>1 DEF SettledInv, EverySetSettledOnce
  <2> QED
    BY <1>2, <2>2 DEF SettledInv
<1>3. ASSUME NEW msg \in Responses, RetryOverTcp(msg) \/ TryNextName(msg) PROVE SettledInv'
  <2>1. Exchange(Answered(msg)) /\ UNCHANGED <<pc, responses, reported>>
    BY <1>3 DEF RetryOverTcp, TryNextName
  <2>2. turn'.set = turn.set
    BY <1>3 DEF RetryOverTcp, TryNextName, NextNameTurn, TypeOK, Turns
  <2> QED
    BY <1>2, <2>1, <2>2, ExchangeAsked
<1>4. ASSUME NEW error \in SendErrors, FailOver(error) PROVE SettledInv'
  <2>1. Exchange(Failed(error)) /\ UNCHANGED <<pc, responses, reported>>
    BY <1>4 DEF FailOver
  <2>2. turn'.set = turn.set
    BY <1>4 DEF FailOver, NextServerTurn
  <2> QED
    BY <1>2, <2>1, <2>2, ExchangeAsked
<1> DEFINE over == turn.set - 1
<1>5. over \in Nat /\ turn.set = over + 1 /\ turn \in Turns
  BY DEF TypeOK, Turns
<1>6. /\ \A x \in Kept : x.from.set \in Nat
      /\ \A x \in Reports : x.from.set \in Nat
  BY DEF Kept, Reports, Turns
<1>7. ASSUME NEW msg \in Responses, Keep(msg) PROVE SettledInv'
  <2>1. Exchange(Answered(msg)) /\ NextSet /\ reported' = reported
    BY <1>7 DEF Keep
  <2>2. plan' = plan /\ pc = "send"
    BY <2>1, ExchangeAsked
  <2>3. SetsOver = over /\ SetsOver' = over + 1
    BY <1>5, <2>1, <2>2, OneSetOver
  <2>4. PICK e \in Kept : e.from = turn /\ responses' = Append(responses, e)
    BY <1>5, <1>7 DEF Keep, Kept
  <2> HIDE DEF over
  <2>5. /\ Len(responses') = Len(responses) + 1
        /\ \A i \in 1..Len(responses') : responses'[i].from.set <= over + 1
        /\ \A i, j \in 1..Len(responses') :
              i < j => responses'[i].from.set < responses'[j].from.set
        /\ \A i \in 1..Len(responses') :
              (i \in 1..Len(responses) /\ responses'[i] = responses[i]) \/ responses'[i] = e
    <3>1. responses \in Seq(Kept) /\ e.from.set = over + 1
      BY <1>5, <2>4 DEF TypeOK
    <3>2. /\ \A i \in 1..Len(responses) : responses[i].from.set <= over
          /\ \A i, j \in 1..Len(responses) : i < j => responses[i].from.set < responses[j].from.set
      BY <2>3 DEF SettledInv, EverySetSettledOnce
    <3>3. over \in Nat /\ \A x \in Kept : x.from.set \in Nat
      BY <1>5, <1>6
    <3> QED
      BY <2>4, <3>1, <3>2, <3>3, AppendInOrder
  <2>6. \A j \in 1..Len(reported) : reported[j].from.set <= over /\ reported[j].from.set \in Nat
    BY <1>6, <2>3 DEF SettledInv, EverySetSettledOnce, TypeOK
  <2>7. Len(responses') + Len(reported') = over + 1
    <3>1. Len(responses) \in Nat /\ Len(reported) \in Nat
      BY DEF TypeOK
    <3>2. Len(responses) + Len(reported) = over
      BY <2>3 DEF SettledInv, EverySetSettledOnce
    <3> QED
      BY <1>5, <2>1, <2>5, <3>1, <3>2
  <2>8. \A i \in 1..Len(responses'), j \in 1..Len(reported) :
           responses'[i].from.set # reported[j].from.set
    BY <1>5, <2>4, <2>5, <2>6 DEF SettledInv, EverySetSettledOnce
  <2>9. EverySetSettledOnce'
    <3>1. \A i \in 1..Len(reported') : reported'[i].from.set <= over + 1
      BY <1>5, <2>1, <2>6
    <3>2. \A i, j \in 1..Len(reported') : i < j => reported'[i].from.set < reported'[j].from.set
      BY <2>1 DEF SettledInv, EverySetSettledOnce
    <3> QED
      BY <2>1, <2>3, <2>5, <2>7, <2>8, <3>1, <3>2 DEF EverySetSettledOnce
  <2>10. pc' \notin {"options", "generate"}
    BY <2>1, <2>2 DEF NextSet
  <2> QED
    BY <2>9, <2>10 DEF SettledInv
<1>8. ASSUME NEW error \in SendErrors, Report(error) PROVE SettledInv'
  <2>1. Exchange(Failed(error)) /\ NextSet /\ responses' = responses
    BY <1>8 DEF Report
  <2>2. plan' = plan /\ pc = "send"
    BY <2>1, ExchangeAsked
  <2>3. SetsOver = over /\ SetsOver' = over + 1
    BY <1>5, <2>1, <2>2, OneSetOver
  <2>4. PICK e \in Reports : e.from = turn /\ reported' = Append(reported, e)
    BY <1>5, <1>8 DEF Report, Reports
  <2> HIDE DEF over
  <2>5. /\ Len(reported') = Len(reported) + 1
        /\ \A i \in 1..Len(reported') : reported'[i].from.set <= over + 1
        /\ \A i, j \in 1..Len(reported') :
              i < j => reported'[i].from.set < reported'[j].from.set
        /\ \A i \in 1..Len(reported') :
              (i \in 1..Len(reported) /\ reported'[i] = reported[i]) \/ reported'[i] = e
    <3>1. reported \in Seq(Reports) /\ e.from.set = over + 1
      BY <1>5, <2>4 DEF TypeOK
    <3>2. /\ \A i \in 1..Len(reported) : reported[i].from.set <= over
          /\ \A i, j \in 1..Len(reported) : i < j => reported[i].from.set < reported[j].from.set
      BY <2>3 DEF SettledInv, EverySetSettledOnce
    <3>3. over \in Nat /\ \A x \in Reports : x.from.set \in Nat
      BY <1>5, <1>6
    <3> QED
      BY <2>4, <3>1, <3>2, <3>3, AppendInOrder
  <2>6. \A i \in 1..Len(responses) : responses[i].from.set <= over /\ responses[i].from.set \in Nat
    BY <1>6, <2>3 DEF SettledInv, EverySetSettledOnce, TypeOK
  <2>7. Len(responses') + Len(reported') = over + 1
    <3>1. Len(responses) \in Nat /\ Len(reported) \in Nat
      BY DEF TypeOK
    <3>2. Len(responses) + Len(reported) = over
      BY <2>3 DEF SettledInv, EverySetSettledOnce
    <3> QED
      BY <1>5, <2>1, <2>5, <3>1, <3>2
  <2>8. \A i \in 1..Len(responses), j \in 1..Len(reported') :
           responses[i].from.set # reported'[j].from.set
    BY <1>5, <2>4, <2>5, <2>6 DEF SettledInv, EverySetSettledOnce
  <2>9. EverySetSettledOnce'
    <3>1. \A i \in 1..Len(responses') : responses'[i].from.set <= over + 1
      BY <1>5, <2>1, <2>6
    <3>2. \A i, j \in 1..Len(responses') : i < j => responses'[i].from.set < responses'[j].from.set
      BY <2>1 DEF SettledInv, EverySetSettledOnce
    <3> QED
      BY <2>1, <2>3, <2>5, <2>7, <2>8, <3>1, <3>2 DEF EverySetSettledOnce
  <2>10. pc' \notin {"options", "generate"}
    BY <2>1, <2>2 DEF NextSet
  <2> QED
    BY <2>9, <2>10 DEF SettledInv
<1> QED
  BY <1>1, <1>3, <1>4, <1>7, <1>8 DEF ExchangeReturns

\* A run settles each set once and in order, whatever its sets come to.
THEOREM SetsAreSettledOnce == Spec => []EverySetSettledOnce
<1>1. SettledInv => EverySetSettledOnce
  BY DEF SettledInv
<1> QED
  BY <1>1, SettledInit, SettledNext, TypeCorrect, PTL DEF Spec

-----------------------------------------------------------------------------
(* A run keeps its promise.                                                *)

\* Before a run is over it has no status, and whether anything failed is
\* whether anything was reported.
StatusInv ==
    /\ pc # "exit" => status = NoStatus
    /\ errored <=> Len(reported) > 0

LEMMA StatusNext == TypeOK /\ StatusInv /\ [Next]_vars => StatusInv'
<1> SUFFICES ASSUME TypeOK, StatusInv, [Next]_vars PROVE StatusInv'
  OBVIOUS
<1>1. CASE ParseOptions \/ Generate \/ Done \/ UNCHANGED vars
  BY <1>1 DEF ParseOptions, Generate, Done, vars, inputs, StatusInv
<1>2. CASE InvalidOptions \/ ShowHelp \/ NoResolver \/ PrintResponses \/ PrintFails
  <2>1. pc' = "exit" /\ UNCHANGED <<errored, reported>>
    BY <1>2 DEF InvalidOptions, ShowHelp, NoResolver, PrintResponses, PrintFails, ExitWith
  <2> QED
    BY <2>1, Zenon DEF StatusInv
<1>3. ASSUME NEW outcome, Exchange(outcome), UNCHANGED <<errored, reported>> PROVE StatusInv'
  BY <1>3 DEF Exchange, StatusInv
<1>4. ASSUME NEW error \in SendErrors, Report(error) PROVE StatusInv'
  <2>1. reported \in Seq(Reports)
    BY DEF TypeOK
  <2>2. reported' = Append(reported, [from |-> turn, error |-> error]) /\ errored' = TRUE
    BY <1>4 DEF Report
  <2>3. Len(reported') = Len(reported) + 1 /\ Len(reported) \in Nat
    BY <2>1, <2>2
  <2>4. status' = NoStatus
    BY <1>4 DEF Report, Exchange, StatusInv
  <2> QED
    BY <2>2, <2>3, <2>4 DEF StatusInv
<1> QED
  BY <1>1, <1>2, <1>3, <1>4
     DEF Next, ExchangeReturns, RetryOverTcp, TryNextName, Keep, FailOver

PromiseInv == SettledInv /\ StatusInv

\* What each of the sets that are over came to.
CameTo(i) ==
    IF \E k \in 1..Len(reported) : reported[k].from.set = i THEN "error"
    ELSE IF \E k \in 1..Len(responses) :
                responses[k].from.set = i /\ HasResults(responses[k].msg)
    THEN "results" ELSE "no results"

LEMMA ResolvedIs ==
    ASSUME TypeOK
    PROVE  /\ Len(responses) + Len(reported) \in Nat
           /\ ResolvedSets \in Seq(Promise!Outcomes)
           /\ Len(ResolvedSets) = Len(responses) + Len(reported)
           /\ \A i \in 1..Len(ResolvedSets) : ResolvedSets[i] = CameTo(i)
<1> DEFINE n == Len(responses) + Len(reported)
<1>1. n \in Nat
  BY DEF TypeOK
<1>2. ResolvedSets = [i \in 1..n |-> CameTo(i)]
  BY DEF ResolvedSets, CameTo
<1>3. \A i \in 1..n : CameTo(i) \in Promise!Outcomes
  BY DEF CameTo, Promise!Outcomes
<1> HIDE DEF n
<1>4. ResolvedSets \in Seq(Promise!Outcomes) /\ Len(ResolvedSets) = n
  BY <1>1, <1>2, <1>3
<1> QED
  BY <1>1, <1>2, <1>4 DEF n

\* Something has results, or failed, exactly if a set came to that.
LEMMA SomeCameTo ==
    ASSUME TypeOK, EverySetSettledOnce
    PROVE  /\ Promise!AnyOf("error") <=> Len(reported) > 0
           /\ Promise!AnyOf("results") <=> \E k \in 1..Len(responses) : HasResults(responses[k].msg)
<1>1. /\ \A k \in 1..Len(responses) : responses[k].from.set \in 1..Len(ResolvedSets)
      /\ \A k \in 1..Len(reported) : reported[k].from.set \in 1..Len(ResolvedSets)
  <2>1. /\ \A k \in 1..Len(responses) : responses[k].from.set \in Nat \ {0}
        /\ \A k \in 1..Len(reported) : reported[k].from.set \in Nat \ {0}
    <3>1. /\ \A k \in 1..Len(responses) : responses[k] \in Kept
          /\ \A k \in 1..Len(reported) : reported[k] \in Reports
      BY DEF TypeOK
    <3> QED
      BY <3>1 DEF Kept, Reports, Turns
  <2>2. SetsOver = Len(ResolvedSets) /\ Len(ResolvedSets) \in Nat
    BY ResolvedIs DEF EverySetSettledOnce
  <2> QED
    BY <2>1, <2>2 DEF EverySetSettledOnce
<1>2. Len(reported) \in Nat
  BY DEF TypeOK
<1>3. Promise!AnyOf("error") => Len(reported) > 0
  <2>1. ASSUME NEW i \in 1..Len(ResolvedSets), ResolvedSets[i] = "error" PROVE Len(reported) > 0
    <3>1. CameTo(i) = "error"
      BY <2>1, ResolvedIs
    <3>2. PICK k \in 1..Len(reported) : reported[k].from.set = i
      BY <3>1 DEF CameTo
    <3> QED
      BY <1>2, <3>2
  <2> QED
    BY <2>1 DEF Promise!AnyOf
<1>4. ASSUME Len(reported) > 0 PROVE Promise!AnyOf("error")
  <2>1. 1 \in 1..Len(reported)
    BY <1>2, <1>4
  <2>2. CameTo(reported[1].from.set) = "error"
    BY <2>1 DEF CameTo
  <2> QED
    BY <1>1, <2>1, <2>2, ResolvedIs DEF Promise!AnyOf
<1>5. Promise!AnyOf("results") => \E k \in 1..Len(responses) : HasResults(responses[k].msg)
  BY ResolvedIs DEF Promise!AnyOf, CameTo
<1>6. ASSUME NEW k \in 1..Len(responses), HasResults(responses[k].msg) PROVE Promise!AnyOf("results")
  <2>1. \A j \in 1..Len(reported) : reported[j].from.set # responses[k].from.set
    BY DEF EverySetSettledOnce
  <2>2. CameTo(responses[k].from.set) = "results"
    BY <1>6, <2>1 DEF CameTo
  <2> QED
    BY <1>1, <2>2, ResolvedIs DEF Promise!AnyOf
<1> QED
  BY <1>3, <1>4, <1>5, <1>6

\* Nothing changes for the user.
LEMMA NothingSeen ==
    ASSUME UNCHANGED <<plan, short, showOpt, responses, reported, status>>
    PROVE  UNCHANGED Promise!vars
<1>1. ResolvedSets' = ResolvedSets
  BY DEF ResolvedSets, HasResults
<1> QED
  BY <1>1 DEF Promise!vars

\* When one set is over, what it came to is added to what the others did.
LEMMA OneMore ==
    ASSUME TypeOK, TypeOK', SettledInv, NEW set,
           UNCHANGED <<plan, short, showOpt, status>>, status = NoStatus,
           Len(responses') + Len(reported') = set, set \in 1..Len(plan),
           Len(responses) + Len(reported) = set - 1,
           \A i \in 1..(set - 1) : CameTo(i)' = CameTo(i)
    PROVE  Promise!Resolve
<1>1. /\ ResolvedSets \in Seq(Promise!Outcomes) /\ Len(ResolvedSets) = set - 1
      /\ \A i \in 1..(set - 1) : ResolvedSets[i] = CameTo(i)
  BY ResolvedIs
<1>2. /\ ResolvedSets' \in Seq(Promise!Outcomes) /\ Len(ResolvedSets') = set
      /\ \A i \in 1..set : ResolvedSets'[i] = CameTo(i)'
  <2>1. (/\ ResolvedSets \in Seq(Promise!Outcomes)
         /\ Len(ResolvedSets) = Len(responses) + Len(reported)
         /\ \A i \in 1..Len(ResolvedSets) : ResolvedSets[i] = CameTo(i))'
    BY ResolvedIs, PTL
  <2> QED
    BY <2>1 DEF Promise!Outcomes
<1>3. set \in Nat \ {0} /\ Len(plan) \in Nat
  <2>1. plan \in Plans
    BY DEF TypeOK
  <2>2. Len(plan) \in Nat
    BY <2>1, PlanType
  <2> QED
    BY <2>2, SMTT(30)
<1>4. PICK outcome \in Promise!Outcomes : outcome = ResolvedSets'[set]
  BY <1>2, <1>3
<1>5. ResolvedSets' = Append(ResolvedSets, outcome)
  <2>1. Append(ResolvedSets, outcome) \in Seq(Promise!Outcomes) /\ Len(Append(ResolvedSets, outcome)) = set
    BY <1>1, <1>3
  <2>2. \A i \in 1..set : Append(ResolvedSets, outcome)[i] = ResolvedSets'[i]
    BY <1>1, <1>2, <1>3, <1>4
  <2> QED
    BY <1>2, <2>1, <2>2
<1> QED
  BY <1>1, <1>3, <1>5 DEF Promise!Resolve, Promise!NoStatus, NoStatus

\* A set that comes to a response, and one that comes to an error.
LEMMA SetEnds ==
    ASSUME TypeOK, TypeOK', PromiseInv,
           \/ \E msg \in Responses : Keep(msg)
           \/ \E error \in SendErrors : Report(error)
    PROVE  Promise!Resolve
<1>1. PICK outcome : Exchange(outcome)
  BY DEF Keep, Report
<1>2. pc = "send" /\ plan' = plan /\ UNCHANGED <<plan, short, showOpt, status>>
  BY <1>1 DEF Exchange, inputs
<1>3. turn \in Turns /\ turn.set \in 1..Len(plan)
  BY PlanType DEF TypeOK, Turns
<1>4. /\ status = NoStatus /\ SettledInv
      /\ Len(responses) \in Nat /\ Len(reported) \in Nat
      /\ Len(responses) + Len(reported) = turn.set - 1
  <2>1. Len(responses) \in Nat /\ Len(reported) \in Nat
    BY DEF TypeOK
  <2>2. SetsOver = turn.set - 1
    BY <1>2 DEF SetsOver
  <2> QED
    BY <1>2, <2>1, <2>2 DEF PromiseInv, StatusInv, SettledInv, EverySetSettledOnce
<1>5. ASSUME NEW msg \in Responses, Keep(msg) PROVE Promise!Resolve
  <2>1. PICK e : e.from = turn /\ responses' = Append(responses, e) /\ reported' = reported
    BY <1>5 DEF Keep
  <2>2. /\ Len(responses') = Len(responses) + 1
        /\ \A k \in 1..Len(responses) : responses'[k] = responses[k]
        /\ responses'[Len(responses) + 1].from.set = turn.set
    BY <2>1 DEF TypeOK
  <2>3. ASSUME NEW i \in 1..(turn.set - 1) PROVE CameTo(i)' = CameTo(i)
    <3>1. (\E k \in 1..Len(responses) : responses[k].from.set = i /\ HasResults(responses[k].msg))'
            <=> \E k \in 1..Len(responses) : responses[k].from.set = i /\ HasResults(responses[k].msg)
      <4>1. \A k \in 1..Len(responses') :
               responses'[k].from.set = i => k \in 1..Len(responses) /\ responses'[k] = responses[k]
        BY <1>3, <1>4, <2>2
      <4>2. \A k \in 1..Len(responses) : k \in 1..Len(responses') /\ responses'[k] = responses[k]
        BY <1>4, <2>2
      <4>3. \A r : HasResults(r)' <=> HasResults(r)
        BY <1>2 DEF HasResults
      <4> QED
        BY <4>1, <4>2, <4>3
    <3>2. (\E k \in 1..Len(reported) : reported[k].from.set = i)'
            <=> \E k \in 1..Len(reported) : reported[k].from.set = i
      BY <2>1
    <3> QED
      BY <3>1, <3>2, Zenon DEF CameTo
  <2> QED
    BY <1>2, <1>3, <1>4, <2>1, <2>2, <2>3, OneMore
<1>6. ASSUME NEW error \in SendErrors, Report(error) PROVE Promise!Resolve
  <2>1. PICK e : e.from = turn /\ reported' = Append(reported, e) /\ responses' = responses
    BY <1>6 DEF Report
  <2>2. /\ Len(reported') = Len(reported) + 1
        /\ \A k \in 1..Len(reported) : reported'[k] = reported[k]
        /\ reported'[Len(reported) + 1].from.set = turn.set
    BY <2>1 DEF TypeOK
  <2>3. ASSUME NEW i \in 1..(turn.set - 1) PROVE CameTo(i)' = CameTo(i)
    <3>1. (\E k \in 1..Len(reported) : reported[k].from.set = i)'
            <=> \E k \in 1..Len(reported) : reported[k].from.set = i
      <4>1. \A k \in 1..Len(reported') :
               reported'[k].from.set = i => k \in 1..Len(reported) /\ reported[k].from.set = i
        BY <1>3, <1>4, <2>2
      <4>2. \A k \in 1..Len(reported) : k \in 1..Len(reported') /\ reported'[k] = reported[k]
        BY <1>4, <2>2
      <4> QED
        BY <4>1, <4>2
    <3>2. (\E k \in 1..Len(responses) : responses[k].from.set = i /\ HasResults(responses[k].msg))'
            <=> \E k \in 1..Len(responses) : responses[k].from.set = i /\ HasResults(responses[k].msg)
      BY <1>2, <2>1 DEF HasResults
    <3> QED
      BY <3>1, <3>2, Zenon DEF CameTo
  <2> QED
    BY <1>2, <1>3, <1>4, <2>1, <2>2, <2>3, OneMore
<1> QED
  BY <1>5, <1>6

\* The verdict is the exit code.
LEMMA VerdictIsExitCode ==
    ASSUME TypeOK, PromiseInv
    PROVE  /\ Promise!Verdict = ExitCode(~NothingToShow, errored)
           /\ ~NothingToShow => Promise!Verdict # NO_SHORT_RESULTS /\ Promise!Verdict = ExitCode(TRUE, errored)
<1>1. NothingToShow <=> short /\ ~Promise!AnyOf("results")
  BY SomeCameTo, Zenon DEF NothingToShow, PromiseInv, SettledInv
<1>2. errored <=> Promise!AnyOf("error")
  BY SomeCameTo, Zenon DEF PromiseInv, SettledInv, StatusInv
<1>3. /\ Promise!NO_SHORT_RESULTS = NO_SHORT_RESULTS /\ Promise!NETWORK_ERROR = NETWORK_ERROR
      /\ Promise!SUCCESS = SUCCESS /\ NETWORK_ERROR # NO_SHORT_RESULTS /\ SUCCESS # NO_SHORT_RESULTS
  BY DEF Promise!NO_SHORT_RESULTS, Promise!NETWORK_ERROR, Promise!SUCCESS,
         NO_SHORT_RESULTS, NETWORK_ERROR, SUCCESS
<1>4. CASE NothingToShow
  BY <1>1, <1>3, <1>4, Zenon DEF Promise!Verdict, ExitCode
<1>5. CASE ~NothingToShow
  <2>1. CASE Promise!AnyOf("error")
    BY <1>1, <1>2, <1>3, <1>5, <2>1, Zenon DEF Promise!Verdict, ExitCode
  <2>2. CASE ~Promise!AnyOf("error")
    BY <1>1, <1>2, <1>3, <1>5, <2>2, Zenon DEF Promise!Verdict, ExitCode
  <2> QED
    BY <2>1, <2>2
<1> QED
  BY <1>4, <1>5

LEMMA PromiseNext == TypeOK /\ TypeOK' /\ PromiseInv /\ [Next]_vars => [Promise!Next]_(Promise!vars)
<1> SUFFICES ASSUME TypeOK, TypeOK', PromiseInv, [Next]_vars
             PROVE  Promise!Next \/ UNCHANGED Promise!vars
  OBVIOUS
<1>1. CASE ParseOptions \/ Generate \/ Done \/ UNCHANGED vars
  BY <1>1, NothingSeen DEF ParseOptions, Generate, Done, vars, inputs
<1>2. CASE InvalidOptions \/ ShowHelp \/ NoResolver
  <2>1. /\ pc \in {"options", "generate"}
        /\ UNCHANGED <<plan, short, showOpt, responses, reported>>
        /\ status' \in {SUCCESS, OPTIONS_ERROR, SYSTEM_ERROR}
    BY <1>2 DEF InvalidOptions, ShowHelp, NoResolver, ExitWith, OutputFailure, inputs
  <2>2. status = NoStatus /\ Len(responses) = 0 /\ Len(reported) = 0
    BY <2>1 DEF PromiseInv, StatusInv, SettledInv
  <2>3. ResolvedSets = <<>>
    BY <2>2, ResolvedIs
  <2>4. ResolvedSets' = ResolvedSets
    BY <2>1 DEF ResolvedSets, HasResults
  <2> QED
    BY <2>1, <2>2, <2>3, <2>4
       DEF Promise!Next, Promise!ExitEarly, Promise!NoStatus, NoStatus, Promise!SUCCESS, SUCCESS,
           Promise!OPTIONS_ERROR, OPTIONS_ERROR, Promise!SYSTEM_ERROR, SYSTEM_ERROR
<1>3. CASE PrintResponses \/ PrintFails
  <2>1. pc = "print" /\ UNCHANGED <<plan, short, showOpt, responses, reported>>
    BY <1>3 DEF PrintResponses, PrintFails, inputs
  <2>2. status = NoStatus /\ Len(ResolvedSets) = Len(plan)
    BY <2>1, ResolvedIs DEF PromiseInv, StatusInv, SettledInv, EverySetSettledOnce, SetsOver
  <2>3. \/ status' = Promise!Verdict
        \/ status' = SYSTEM_ERROR /\ Promise!Verdict # NO_SHORT_RESULTS
    <3>1. CASE PrintResponses
      BY <3>1, VerdictIsExitCode DEF PrintResponses, ExitWith
    <3>2. CASE PrintFails
      <4>1. ~NothingToShow /\ status' \in {ExitCode(TRUE, errored), SYSTEM_ERROR}
        BY <3>2 DEF PrintFails, ExitWith, OutputFailure
      <4> QED
        BY <4>1, VerdictIsExitCode
    <3> QED
      BY <1>3, <3>1, <3>2
  <2>4. ResolvedSets' = ResolvedSets
    BY <2>1 DEF ResolvedSets, HasResults
  <2> QED
    BY <2>1, <2>2, <2>3, <2>4
       DEF Promise!Next, Promise!Exit, Promise!NoStatus, NoStatus,
           Promise!SYSTEM_ERROR, SYSTEM_ERROR, Promise!NO_SHORT_RESULTS, NO_SHORT_RESULTS
<1>4. ASSUME NEW outcome, Exchange(outcome), UNCHANGED <<responses, reported>>
      PROVE  UNCHANGED Promise!vars
  BY <1>4, NothingSeen DEF Exchange, inputs
<1>5. CASE ExchangeReturns
  BY <1>4, <1>5, SetEnds DEF ExchangeReturns, RetryOverTcp, TryNextName, FailOver, Promise!Next
<1> QED
  BY <1>1, <1>2, <1>3, <1>5 DEF Next

\* Every step of a run is one that RunPromise allows or shows nothing of it:
\* one outcome for each set, in order, and then a status that tells what
\* happened (main.rs, run and exit_code).
THEOREM RunKeepsThePromise == Spec => Promise!Init /\ [][Promise!Next]_(Promise!vars)
<1>1. Init => Promise!Init /\ StatusInv
  <2> SUFFICES ASSUME Init PROVE Promise!Init /\ StatusInv
    OBVIOUS
  <2>1. Len(responses) = 0 /\ Len(reported) = 0 /\ TypeOK
    BY InitType DEF Init
  <2>2. ResolvedSets = <<>>
    BY <2>1, ResolvedIs
  <2>3. Len(plan) \in Nat \ {0}
    BY PlanType DEF Init
  <2>4. StatusInv
    BY <2>1 DEF Init, StatusInv
  <2> QED
    BY <2>2, <2>3, <2>4 DEF Init, Promise!Init, Promise!NoStatus, NoStatus
<1>2. TypeOK /\ PromiseInv /\ [Next]_vars => PromiseInv'
  BY SettledNext, StatusNext DEF PromiseInv
<1>3. Init => PromiseInv
  BY <1>1, SettledInit DEF PromiseInv
<1> QED
  BY <1>1, <1>2, <1>3, PromiseNext, TypeCorrect, PTL DEF Spec

=============================================================================
