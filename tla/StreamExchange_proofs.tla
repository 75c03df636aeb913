------------------------ MODULE StreamExchange_proofs ------------------------
(***************************************************************************)
(* Proofs about an exchange over a stream, for every reply of the server,  *)
(* however it is cut up, delayed or cut short, and every time limit.       *)
(***************************************************************************)
EXTENDS StreamExchange, SequenceTheorems, TLAPS

-----------------------------------------------------------------------------
(* Bytes and frames.                                                       *)

Bytes == 0..(Base - 1)

\* What has been read of the reply, when it is k bytes.
Prefix(k) == SubSeq(reply, 1, k)

LEMMA ReplyType ==
    ASSUME reply \in Replies
    PROVE  reply \in Seq(Bytes) /\ Len(reply) \in Nat
BY BytesAssumption DEF Bytes

LEMMA PrefixFacts ==
    ASSUME reply \in Replies, NEW k \in 0..Len(reply)
    PROVE  /\ Prefix(k) \in Seq(Bytes) /\ Len(Prefix(k)) = k
           /\ \A i \in 1..k : Prefix(k)[i] = reply[i]
<1>1. reply \in Seq(Bytes) /\ Len(reply) \in Nat
  BY ReplyType
<1>2. \A i \in 1..k : reply[i] \in Bytes
  BY <1>1
<1> QED
  BY <1>2, SubSeqProperties DEF Prefix

\* The length of the frame is stated by its first two bytes.
LEMMA FrameStated ==
    ASSUME reply \in Replies, NEW k \in 2..Len(reply)
    PROVE  /\ FrameEnd \in Nat /\ FrameEnd >= 2
           /\ FrameEnd = 2 + StatedLength(Prefix(k))
           /\ FrameEnd = 2 + StatedLength(reply)
           /\ StatedLength(Prefix(k)) \in Nat
<1>1. k \in 0..Len(reply) /\ 1 \in 1..k /\ 2 \in 1..k /\ Len(reply) \in Nat
  BY ReplyType
<1>2. Prefix(k)[1] = reply[1] /\ Prefix(k)[2] = reply[2]
  BY <1>1, PrefixFacts
<1>3. reply[1] \in Nat /\ reply[2] \in Nat /\ Base \in Nat
  BY <1>1, ReplyType, BytesAssumption DEF Bytes
<1>4. Base * reply[1] \in Nat
  BY <1>3
<1>5. FrameEnd = 2 + (Base * reply[1]) + reply[2] /\ StatedLength(reply) = (Base * reply[1]) + reply[2]
  BY DEF FrameEnd, StatedLength
<1>6. StatedLength(Prefix(k)) = StatedLength(reply)
  BY <1>2 DEF StatedLength
<1> DEFINE high == Base * reply[1]
           low == reply[2]
<1> HIDE DEF high, low
<1>7. /\ high \in Nat /\ low \in Nat
      /\ FrameEnd = 2 + high + low /\ StatedLength(reply) = high + low
  BY <1>3, <1>4, <1>5 DEF high, low
<1>8. /\ FrameEnd \in Nat /\ FrameEnd >= 2
      /\ FrameEnd = 2 + StatedLength(reply) /\ StatedLength(reply) \in Nat
  BY <1>7
<1> QED
  BY <1>6, <1>8

\* Reading on makes a longer prefix of the reply.
LEMMA ReadOn ==
    ASSUME reply \in Replies, NEW k \in 0..Len(reply), NEW n \in 1..(Len(reply) - k)
    PROVE  Prefix(k) \o SubSeq(reply, k + 1, k + n) = Prefix(k + n)
<1>1. reply \in Seq(Bytes) /\ Len(reply) \in Nat
  BY ReplyType
<1>2. 1 \in 1..(Len(reply) + 1) /\ k \in (1 - 1)..Len(reply) /\ k + n \in k..Len(reply)
  BY <1>1
<1> QED
  BY <1>1, <1>2, ConcatAdjacentSubSeq DEF Prefix

\* What follows the length in a prefix is what follows it in the reply.
LEMMA BodyOfPrefix ==
    ASSUME reply \in Replies, NEW k \in 2..Len(reply)
    PROVE  SubSeq(Prefix(k), 3, k) = SubSeq(reply, 3, k)
<1>1. reply \in Seq(Bytes) /\ Len(reply) \in Nat /\ k \in 0..Len(reply)
  BY ReplyType
<1>2. CASE k = 2
  BY <1>2, SubSeqEmpty
<1>3. CASE k > 2
  <2>1. Prefix(k) \in Seq(Bytes)
    BY <1>1, PrefixFacts
  <2>2. /\ 1 \in 1..Len(reply) /\ k \in 1..Len(reply)
        /\ 3 \in 1..(k - 1 + 1) /\ k \in 1..(k - 1 + 1)
    BY <1>1, <1>3
  <2>3. SubSeq(SubSeq(reply, 1, k), 3, k) = SubSeq(reply, 1 + 3 - 1, 1 + k - 1)
    BY <1>1, <2>2, SubSeqOfSubSeq
  <2>4. 1 + 3 - 1 = 3 /\ 1 + k - 1 = k
    BY <1>1
  <2> QED
    BY <2>3, <2>4 DEF Prefix
<1> QED
  BY <1>1, <1>2, <1>3

\* A reply with a whole frame has its message among the whole ones.
LEMMA FramedIsWhole ==
    ASSUME reply \in Replies, Len(reply) >= 2, FrameEnd <= Len(reply)
    PROVE  Decode(Framed) \in WholeMessages
<1>1. FrameEnd = 2 + StatedLength(reply)
  BY ReplyType, FrameStated
<1> QED
  BY <1>1 DEF WholeMessages, Framed

LEMMA Outcomes ==
    ASSUME NEW x, NEW y
    PROVE  /\ Answered(x) = Answered(y) <=> x = y
           /\ Failed(x) = Failed(y) <=> x = y
           /\ Answered(x) # Failed(y) /\ Answered(x) # Pending /\ Failed(x) # Pending
           /\ Answered(x)[1] = "Answered" /\ Failed(x)[1] = "Failed" /\ Pending[1] = "Pending"
BY DEF Answered, Failed, Pending

\* The judgement of a message accepts it or ends in one of two errors.
LEMMA JudgeDecides ==
    ASSUME NEW bytes
    PROVE  \/ /\ Judge(bytes) = Answered(Decode(bytes))
              /\ Decode(bytes).readable /\ CheckResponse(TheRequest, Decode(bytes)) = "Ok"
           \/ Judge(bytes) = Failed("WireError")
           \/ Judge(bytes) = Failed("MismatchedResponse")
BY DEF Judge, Judged

LEMMA WaitEnds ==
    ASSUME clock \in Nat, NEW lag \in 0..Lag, ~Expired(Timeout, clock)
    PROVE  /\ clock + Left(Timeout, clock) + lag \in Nat
           /\ Timeout <= clock + Left(Timeout, clock) + lag
           /\ clock + Left(Timeout, clock) + lag <= Timeout + Lag
BY TimesAssumption DEF Left, Expired

LEMMA ExpiredLate ==
    ASSUME clock \in Nat, Expired(Timeout, clock)
    PROVE  clock >= Timeout
BY TimesAssumption DEF Left, Expired

LEMMA IoKinds ==
    /\ \A kind \in IoErrors : IoError(kind) = "NetworkError"
    /\ IoError("WouldBlock") = "Timeout"
BY IoErrorsAssumption DEF IoError

-----------------------------------------------------------------------------
(* The inductive invariant.                                                *)

\* What the code has read at each point of the exchange, and what it made of
\* it at the end.
FrameInv ==
    /\ got = Prefix(Len(got))
    /\ pc = "write" => got = <<>>
    /\ pc = "prefix" => Len(got) < 2
    /\ pc = "body" => Len(got) >= 2 /\ Len(got) < FrameEnd
    /\ Len(got) >= 2 => Len(got) <= FrameEnd
    /\ \/ result \in {Pending, Failed("TruncatedResponse"), Failed("Timeout"), Failed("NetworkError")}
       \/ Len(got) >= 2 /\ Len(got) = FrameEnd /\ result = Judge(Framed)

\* A wait runs to the deadline, while the exchange lasts, and past it by no more than its lag.
WaitsToTheDeadline == blocked => pc # "done" /\ Timeout <= until /\ until <= Timeout + Lag

Inv == TypeOK /\ FrameInv /\ TruncatedMeansCutShort /\ WaitsToTheDeadline

LEMMA InitInv == Init => Inv
<1> SUFFICES ASSUME Init PROVE Inv
  OBVIOUS
<1>1. reply \in Replies /\ Len(reply) \in Nat
  BY ReplyType DEF Init
<1>2. Prefix(0) = <<>>
  BY SubSeqEmpty DEF Prefix
<1>3. TypeOK
  <2>1. <<>> \in Seq(0..(Base - 1)) /\ 0 \in 0..RequestLength /\ 0 \in 0..Len(reply)
    BY <1>1, BytesAssumption
  <2>2. got \in Seq(0..(Base - 1)) /\ Len(got) <= arrived
    BY <2>1 DEF Init
  <2>3. result \in {Pending} \cup {Answered(m) : m \in WholeMessages} \cup {Failed(e) : e \in Errors}
    BY DEF Init
  <2> QED
    BY <1>1, <2>1, <2>2, <2>3, TimesAssumption DEF Init, TypeOK
<1>4. FrameInv
  BY <1>2 DEF Init, FrameInv
<1>5. TruncatedMeansCutShort
  BY Outcomes DEF Init, TruncatedMeansCutShort
<1> QED
  BY <1>3, <1>4, <1>5 DEF Inv, Init, WaitsToTheDeadline

\* Steps that read nothing and return nothing.
LEMMA QuietStep ==
    ASSUME Inv, UNCHANGED <<pc, got, result, reply>>,
           blocked' \in BOOLEAN, until' \in Nat, clock' \in 0..Horizon, closed' \in BOOLEAN,
           written' = written, arrived' \in arrived..Len(reply),
           pc = "done" => UNCHANGED <<arrived, closed>>,
           WaitsToTheDeadline'
    PROVE  Inv'
<1>1. Len(got) <= arrived' /\ arrived' \in 0..Len(reply)
  BY ReplyType DEF Inv, TypeOK
<1>2. TypeOK'
  BY <1>1 DEF Inv, TypeOK, WholeMessages
<1>3. FrameInv'
  BY DEF Inv, FrameInv, Prefix, FrameEnd, Framed
<1>4. TruncatedMeansCutShort'
  <2>1. CASE pc = "done"
    BY <2>1 DEF Inv, TruncatedMeansCutShort, FrameEnd
  <2>2. CASE pc # "done"
    BY <2>2, Outcomes DEF Inv, TypeOK, TruncatedMeansCutShort
  <2> QED
    BY <2>1, <2>2
<1> QED
  BY <1>2, <1>3, <1>4 DEF Inv

\* Steps that return an error without having read the message.
LEMMA FailStep ==
    ASSUME Inv, pc # "done", UNCHANGED <<server, clock, until, written, got>>,
           blocked' = FALSE,
           NEW error \in {"TruncatedResponse", "Timeout", "NetworkError"}, Return(Failed(error)),
           error = "TruncatedResponse" =>
               closed /\ arrived = Len(got) /\ pc \in {"prefix", "body"}
    PROVE  Inv'
<1>1. result' = Failed(error) /\ pc' = "done" /\ result' # Pending
  BY Outcomes DEF Return
<1>2. TypeOK'
  BY <1>1 DEF Inv, TypeOK, WholeMessages, Errors, server
<1>3. FrameInv'
  BY <1>1 DEF Inv, FrameInv, Prefix, FrameEnd, Framed, server
<1>4. TruncatedMeansCutShort'
  <2>1. CASE error = "TruncatedResponse"
    BY <1>1, <2>1 DEF Inv, FrameInv, TruncatedMeansCutShort, FrameEnd, server
  <2>2. CASE error # "TruncatedResponse"
    BY <1>1, <2>2, Outcomes DEF TruncatedMeansCutShort
  <2> QED
    BY <2>1, <2>2
<1>5. WaitsToTheDeadline'
  BY DEF WaitsToTheDeadline
<1> QED
  BY <1>2, <1>3, <1>4, <1>5 DEF Inv

\* What a read takes: a longer prefix of the reply, within the frame.
LEMMA ReadFrame ==
    ASSUME Inv, pc \in {"prefix", "body"}, NEW n \in 1..Wanted, n <= arrived - Len(got),
           got' = got \o SubSeq(reply, Len(got) + 1, Len(got) + n)
    PROVE  /\ Len(got) + n \in 1..Len(reply) /\ Len(got) + n <= arrived
           /\ got' = Prefix(Len(got) + n) /\ Len(got') = Len(got) + n
           /\ got' \in Seq(Bytes)
           /\ Len(got') >= 2 => /\ 2 + StatedLength(got') = FrameEnd
                                /\ Len(got') <= FrameEnd
           /\ n < Wanted \/ n = Wanted
           /\ n < Wanted => Len(got') < (IF pc = "prefix" THEN 2 ELSE FrameEnd)
           /\ n = Wanted => Len(got') = (IF pc = "prefix" THEN 2 ELSE FrameEnd)
<1> DEFINE k == Len(got)
<1>1. k \in 0..Len(reply) /\ arrived \in 0..Len(reply) /\ reply \in Replies /\ Len(reply) \in Nat
  BY ReplyType DEF Inv, TypeOK
<1>2. Wanted \in Int /\ Wanted = (IF pc = "prefix" THEN 2 ELSE FrameEnd) - k
      /\ (pc = "body" => k >= 2 /\ k < FrameEnd /\ FrameEnd \in Nat) /\ (pc = "prefix" => k < 2)
  <2>1. CASE pc = "prefix"
    BY <1>1, <2>1 DEF Inv, FrameInv, Wanted
  <2>2. CASE pc = "body"
    <3>1. k \in 2..Len(reply) /\ got = Prefix(k)
      BY <1>1, <2>2 DEF Inv, FrameInv
    <3>2. FrameEnd \in Nat /\ FrameEnd = 2 + StatedLength(got) /\ StatedLength(got) \in Nat
      BY <1>1, <3>1, FrameStated
    <3> QED
      BY <1>1, <2>2, <3>2 DEF Inv, FrameInv, Wanted
  <2> QED
    BY <2>1, <2>2
<1>3. got = Prefix(k)
  BY DEF Inv, FrameInv
<1> HIDE DEF k
<1>4. n \in 1..(Len(reply) - k) /\ k + n \in 0..Len(reply) /\ k + n \in 1..Len(reply) /\ k + n <= arrived
  BY <1>1, <1>2 DEF k
<1>5. got' = Prefix(k + n)
  BY <1>1, <1>3, <1>4, ReadOn DEF k
<1>6. Len(got') = k + n /\ got' \in Seq(Bytes)
  BY <1>1, <1>4, <1>5, PrefixFacts
<1>7. ASSUME k + n >= 2 PROVE FrameEnd = 2 + StatedLength(got') /\ FrameEnd \in Nat /\ FrameEnd >= 2
  <2>1. k + n \in 2..Len(reply)
    BY <1>1, <1>4, <1>7
  <2> QED
    BY <1>1, <1>5, <2>1, FrameStated
<1>8. k + n >= 2 => k + n <= FrameEnd
  BY <1>1, <1>2, <1>4, <1>7
<1>9. /\ n < Wanted \/ n = Wanted
      /\ n < Wanted => k + n < (IF pc = "prefix" THEN 2 ELSE FrameEnd)
      /\ n = Wanted => k + n = (IF pc = "prefix" THEN 2 ELSE FrameEnd)
  <2>1. CASE pc = "prefix"
    BY <1>1, <1>2, <2>1
  <2>2. CASE pc = "body"
    <3>1. FrameEnd \in Nat /\ Wanted = FrameEnd - k
      BY <1>2, <2>2
    <3> QED
      BY <1>1, <2>2, <3>1
  <2> QED
    BY <2>1, <2>2
<1>10. Len(got') >= 2 => 2 + StatedLength(got') = FrameEnd /\ Len(got') <= FrameEnd
  BY <1>6, <1>7, <1>8
<1> QED
  BY <1>4, <1>5, <1>6, <1>9, <1>10 DEF k

LEMMA ReadStep ==
    ASSUME Inv, ReadSome
    PROVE  Inv'
<1>1. /\ pc \in {"prefix", "body"} /\ result = Pending
      /\ UNCHANGED <<clock, server, until, written>> /\ blocked' = FALSE
  BY DEF ReadSome, Inv, TypeOK
<1>2. PICK n \in 1..Wanted :
          /\ n <= arrived - Len(got)
          /\ got' = got \o SubSeq(reply, Len(got) + 1, Len(got) + n)
          /\ IF n < Wanted THEN UNCHANGED <<pc, result>>
             ELSE IF Len(got') < 2 + StatedLength(got')
             THEN pc' = "body" /\ UNCHANGED result
             ELSE Return(Judge(SubSeq(got', 3, Len(got'))))
  BY DEF ReadSome
<1>3. /\ Len(got) + n \in 1..Len(reply) /\ Len(got') <= arrived
      /\ got' = Prefix(Len(got')) /\ Len(got') = Len(got) + n /\ got' \in Seq(Bytes)
      /\ Len(got') >= 2 => 2 + StatedLength(got') = FrameEnd /\ Len(got') <= FrameEnd
      /\ n < Wanted => Len(got') < (IF pc = "prefix" THEN 2 ELSE FrameEnd)
      /\ n = Wanted => Len(got') = (IF pc = "prefix" THEN 2 ELSE FrameEnd)
  BY <1>1, <1>2, ReadFrame
<1>4. reply \in Replies /\ Len(reply) \in Nat /\ Len(got) \in Nat
  BY ReplyType DEF Inv, TypeOK
<1>5. got' \in Seq(0..(Base - 1))
  BY <1>3 DEF Bytes
<1>6. n < Wanted \/ n = Wanted
  BY <1>1, <1>2, ReadFrame
<1>7. WaitsToTheDeadline'
  BY <1>1 DEF WaitsToTheDeadline
<1>8. reply' = reply /\ arrived' = arrived /\ closed' = closed
  BY <1>1 DEF server
<1>9. got' = Prefix(Len(got))'
  BY <1>3, <1>8 DEF Prefix
<1>10. ASSUME n < Wanted \/ Len(got') < 2 + StatedLength(got'),
              UNCHANGED result, pc' \in {"prefix", "body"},
              pc' = "prefix" => Len(got') < 2,
              pc' = "body" => Len(got') >= 2 /\ Len(got') < FrameEnd
       PROVE  Inv'
  <2>1. TypeOK'
    BY <1>1, <1>3, <1>5, <1>8, <1>10 DEF Inv, TypeOK, WholeMessages
  <2>2. FrameInv'
    BY <1>1, <1>3, <1>8, <1>9, <1>10 DEF FrameInv, FrameEnd
  <2>3. TruncatedMeansCutShort'
    BY <1>1, <1>10, Outcomes DEF TruncatedMeansCutShort
  <2> QED
    BY <1>7, <2>1, <2>2, <2>3 DEF Inv
<1>11. CASE n < Wanted
  <2>1. UNCHANGED <<pc, result>> /\ Len(got) \in Nat /\ n \in Nat \ {0}
    BY <1>2, <1>4, <1>11
  <2>2. pc = "prefix" => Len(got') < 2
    BY <1>3, <1>11
  <2>3. pc = "body" => Len(got') >= 2 /\ Len(got') < FrameEnd
    BY <1>3, <1>11, <2>1 DEF Inv, FrameInv
  <2> QED
    BY <1>1, <1>10, <1>11, <2>1, <2>2, <2>3
<1>12. CASE ~(n < Wanted) /\ Len(got') < 2 + StatedLength(got')
  BY <1>1, <1>2, <1>3, <1>6, <1>10, <1>12 DEF Inv, FrameInv
<1>13. CASE ~(n < Wanted) /\ ~(Len(got') < 2 + StatedLength(got'))
  <2>1. Len(got') >= 2 /\ Len(got') = FrameEnd /\ FrameEnd \in Nat
    <3>1. n = Wanted /\ Len(got) \in Nat /\ n \in Nat \ {0} /\ Len(got') \in Nat
      BY <1>2, <1>3, <1>4, <1>6, <1>13
    <3>2. Len(got') >= 2
      BY <1>1, <1>3, <3>1 DEF Inv, FrameInv
    <3>3. Len(got') \in 2..Len(reply) /\ got' = Prefix(Len(got'))
      BY <1>3, <1>4, <3>1, <3>2
    <3>4. FrameEnd \in Nat
      BY <1>4, <3>3, FrameStated
    <3> QED
      BY <1>3, <1>13, <3>1, <3>2, <3>4
  <2>2. Len(got') \in 2..Len(reply)
    BY <1>3, <1>4, <2>1
  <2>3. SubSeq(got', 3, Len(got')) = Framed
    BY <1>3, <1>4, <2>1, <2>2, BodyOfPrefix DEF Framed
  <2>4. pc' = "done" /\ result' = Judge(Framed)
    BY <1>2, <1>13, <2>3 DEF Return
  <2>5. Decode(Framed) \in WholeMessages
    BY <1>4, <2>1, <2>2, FramedIsWhole
  <2>6. /\ result' \in {Pending} \cup {Answered(m) : m \in WholeMessages} \cup {Failed(e) : e \in Errors}
        /\ result' # Pending /\ result' # Failed("TruncatedResponse")
    BY <2>4, <2>5, JudgeDecides, Outcomes DEF Errors
  <2>7. TypeOK'
    BY <1>1, <1>3, <1>5, <1>8, <2>4, <2>6 DEF Inv, TypeOK, WholeMessages
  <2>8. Judge(Framed)' = Judge(Framed) /\ FrameEnd' = FrameEnd
    BY <1>8 DEF Judge, Framed, FrameEnd
  <2>9. FrameInv'
    <3>1. \/ result' \in {Pending, Failed("TruncatedResponse"), Failed("Timeout"), Failed("NetworkError")}
          \/ Len(got') >= 2 /\ Len(got') = FrameEnd' /\ result' = Judge(Framed)'
      BY <2>1, <2>4, <2>8
    <3> QED
      BY <1>9, <2>1, <2>4, <2>8, <3>1 DEF FrameInv
  <2> QED
    BY <1>7, <2>6, <2>7, <2>9 DEF Inv, TruncatedMeansCutShort
<1> QED
  BY <1>11, <1>12, <1>13

LEMMA InvNext == Inv /\ [Next]_vars => Inv'
<1> SUFFICES ASSUME Inv, [Next]_vars PROVE Inv'
  OBVIOUS
<1>1. clock \in Nat /\ reply \in Replies /\ Len(reply) \in Nat /\ RequestLength \in Nat
  BY TimesAssumption, BytesAssumption, ReplyType DEF Inv, TypeOK
<1>2. CASE StartIo
  <2>1. blocked' = TRUE /\ until' \in Nat /\ Timeout <= until' /\ until' <= Timeout + Lag
    BY <1>1, <1>2, WaitEnds DEF StartIo
  <2>2. pc # "done" /\ arrived' \in arrived..Len(reply) /\ UNCHANGED <<clock, server, pc, written, got, result>>
    BY <1>1, <1>2 DEF StartIo, server, Inv, TypeOK
  <2> QED
    BY <2>1, <2>2, QuietStep DEF server, WaitsToTheDeadline, Inv, TypeOK
<1>3. CASE GiveUp
  BY <1>3, IoKinds, FailStep DEF GiveUp, Inv, TypeOK
<1>4. CASE WriteSome
  <2>1. PICK n \in 1..(RequestLength - written) :
            /\ written' = written + n
            /\ pc' = IF written' = RequestLength THEN "prefix" ELSE pc
    BY <1>4 DEF WriteSome
  <2>2. written' \in 0..RequestLength /\ pc' \in {"write", "prefix"}
    BY <1>1, <1>4, <2>1 DEF WriteSome, Inv, TypeOK
  <2>3. /\ pc = "write" /\ got = <<>> /\ result = Pending /\ blocked' = FALSE
        /\ UNCHANGED <<clock, reply, arrived, closed, until, got, result>>
    BY <1>4 DEF WriteSome, server, Inv, FrameInv, TypeOK
  <2>4. TypeOK'
    BY <2>2, <2>3 DEF Inv, TypeOK, WholeMessages
  <2>5. FrameInv'
    BY <2>2, <2>3 DEF Inv, FrameInv, Prefix
  <2>6. TruncatedMeansCutShort'
    BY <2>3, Outcomes DEF TruncatedMeansCutShort
  <2> QED
    BY <2>3, <2>4, <2>5, <2>6 DEF Inv, WaitsToTheDeadline
<1>5. CASE ReadSome
  BY <1>5, ReadStep
<1>6. CASE ReadEnd
  BY <1>6, FailStep DEF ReadEnd
<1>7. CASE IoRunsOut
  BY <1>7, IoKinds, FailStep DEF IoRunsOut, Inv, WaitsToTheDeadline
<1>8. CASE IoFails
  BY <1>8, IoKinds, FailStep DEF IoFails, Inv, WaitsToTheDeadline
<1>9. CASE Interrupted
  <2>1. arrived \in arrived..Len(reply)
    BY <1>1 DEF Inv, TypeOK
  <2> QED
    BY <1>9, <2>1, QuietStep DEF Interrupted, server, WaitsToTheDeadline, Inv, TypeOK
<1>10. CASE Tick
  <2>1. arrived \in arrived..Len(reply) /\ clock' \in 0..Horizon
    BY <1>1, <1>10, TimesAssumption DEF Tick, Inv, TypeOK
  <2> QED
    BY <1>10, <2>1, QuietStep DEF Tick, program, server, WaitsToTheDeadline, Inv, TypeOK
<1>11. CASE Arrive
  <2>1. arrived' \in arrived..Len(reply)
    BY <1>1, <1>11 DEF Arrive, Inv, TypeOK
  <2> QED
    BY <1>11, <2>1, QuietStep DEF Arrive, program, WaitsToTheDeadline, Inv, TypeOK
<1>12. CASE Close
  <2>1. arrived \in arrived..Len(reply)
    BY <1>1 DEF Inv, TypeOK
  <2> QED
    BY <1>12, <2>1, QuietStep DEF Close, program, WaitsToTheDeadline, Inv, TypeOK
<1>13. CASE UNCHANGED vars
  <2>1. arrived \in arrived..Len(reply)
    BY <1>1 DEF Inv, TypeOK
  <2> QED
    BY <1>13, <2>1, QuietStep DEF vars, program, server, WaitsToTheDeadline, Inv, TypeOK
<1> QED
  BY <1>2, <1>3, <1>4, <1>5, <1>6, <1>7, <1>8, <1>9, <1>10, <1>11, <1>12, <1>13 DEF Next, Step, Done

LEMMA InvAlways == Spec => []Inv
BY InitInv, InvNext, PTL DEF Spec

-----------------------------------------------------------------------------
(* The theorems.                                                           *)

\* Every variable of an exchange over a stream keeps its type; in particular
\* it ends in the answer of a whole message or in one of five errors.
THEOREM TypeCorrect == Spec => []TypeOK
BY InvAlways, PTL DEF Inv

\* However the reply is cut up, delayed and interrupted, what is read is a
\* beginning of it, never past its frame, and what is judged is the frame
\* (tcp.rs, length_prefixed_read).
THEOREM FramesAreReadExactly == Spec => []ReadsExactlyTheFrame
<1>1. Inv => ReadsExactlyTheFrame
  <2> SUFFICES ASSUME Inv PROVE ReadsExactlyTheFrame
    OBVIOUS
  <2>1. got = SubSeq(reply, 1, Len(got)) /\ (Len(got) >= 2 => Len(got) <= FrameEnd)
    BY DEF Inv, FrameInv, Prefix
  <2>2. CASE Len(got) = FrameEnd /\ result = Judge(Framed)
    BY <2>1, <2>2 DEF ReadsExactlyTheFrame
  <2>3. CASE result \in {Pending, Failed("TruncatedResponse"), Failed("Timeout"), Failed("NetworkError")}
    <3>1. result[1] # "Answered" /\ result \notin {Failed("WireError"), Failed("MismatchedResponse")}
      BY <2>3, Outcomes
    <3> QED
      BY <2>1, <3>1 DEF ReadsExactlyTheFrame
  <2> QED
    BY <2>2, <2>3 DEF Inv, FrameInv
<1> QED
  BY <1>1, InvAlways, PTL

\* A response is called truncated only when the server closed the connection
\* within the frame, and all it sent was read (UnexpectedEof).
THEOREM TruncationIsReal == Spec => []TruncatedMeansCutShort
BY InvAlways, PTL DEF Inv

\* However slowly the bytes come, and however often a signal interrupts, no
\* read or write waits past the deadline but for its lag (DeadlineStream).
THEOREM WaitsAreBounded == Spec => []NoWaitPastDeadline
<1>1. Inv => NoWaitPastDeadline
  BY DEF Inv, WaitsToTheDeadline, NoWaitPastDeadline
<1> QED
  BY <1>1, InvAlways, PTL

-----------------------------------------------------------------------------
(* The promise of a transport.                                             *)

\* The outcomes of Attempt are those of Messages.
LEMMA SameOutcomes ==
    /\ Promise!Pending = Pending
    /\ \A x : Promise!Answered(x) = Answered(x) /\ Promise!Failed(x) = Failed(x)
BY DEF Promise!Pending, Pending, Promise!Answered, Answered, Promise!Failed, Failed

LEMMA FailsAsPromised ==
    ASSUME result = Pending, UNCHANGED clock,
           NEW error \in Errors, error = "Timeout" => clock >= Timeout, result' = Failed(error)
    PROVE  Promise!Next
BY SameOutcomes DEF Promise!Next, Promise!Fail, Errors

LEMMA PromiseNext == Inv /\ Inv' /\ [Next]_vars => [Promise!Next]_(Promise!vars)
<1> SUFFICES ASSUME Inv, Inv', [Next]_vars, ~UNCHANGED <<clock, result>>
             PROVE  Promise!Next
  BY DEF Promise!vars
<1>1. clock \in Nat /\ (pc # "done" => result = Pending)
  BY TimesAssumption DEF Inv, TypeOK
<1>2. CASE GiveUp
  BY <1>1, <1>2, ExpiredLate, IoKinds, FailsAsPromised DEF GiveUp, Return, Errors
<1>3. CASE IoRunsOut
  <2>1. result = Pending /\ UNCHANGED clock /\ clock >= Timeout
    <3>1. until \in Nat /\ clock >= until /\ until >= Timeout
      BY <1>3 DEF IoRunsOut, Inv, WaitsToTheDeadline, TypeOK
    <3>2. pc # "done"
      BY <1>3 DEF IoRunsOut, Inv, WaitsToTheDeadline
    <3> QED
      BY <1>1, <1>3, <3>1, <3>2, TimesAssumption DEF IoRunsOut
  <2> QED
    BY <1>3, <2>1, IoKinds, FailsAsPromised DEF IoRunsOut, Return, Errors
<1>4. CASE IoFails
  <2>1. pc # "done"
    BY <1>4 DEF IoFails, Inv, WaitsToTheDeadline
  <2> QED
    BY <1>1, <1>4, <2>1, IoKinds, FailsAsPromised DEF IoFails, Return, Errors
<1>5. CASE ReadEnd
  BY <1>1, <1>5, FailsAsPromised DEF ReadEnd, Return, Errors
<1>6. CASE ReadSome
  <2>1. result = Pending /\ UNCHANGED <<clock, reply>> /\ result' # Pending
    BY <1>1, <1>6 DEF ReadSome, server
  <2>2. Framed' = Framed /\ FrameEnd' = FrameEnd /\ Judge(Framed)' = Judge(Framed)
    BY <2>1 DEF Framed, FrameEnd, Judge
  <2>3. CASE result' = Judge(Framed) /\ FrameEnd = Len(got') /\ Len(got') >= 2
    <3>1. CASE \/ Judge(Framed) = Failed("WireError")
               \/ Judge(Framed) = Failed("MismatchedResponse")
      BY <2>1, <2>3, <3>1, FailsAsPromised DEF Errors
    <3>2. CASE /\ Judge(Framed) = Answered(Decode(Framed))
               /\ Decode(Framed).readable /\ CheckResponse(TheRequest, Decode(Framed)) = "Ok"
      <4>1. reply \in Replies /\ Len(reply) >= 2 /\ FrameEnd <= Len(reply)
        <5>1. reply \in Replies /\ Len(got') \in Nat /\ Len(got') <= arrived' /\ arrived' \in 0..Len(reply)
          BY <2>1 DEF Inv, TypeOK
        <5> QED
          BY <2>3, <5>1, ReplyType
      <4>2. Decode(Framed) \in WholeMessages
        BY <4>1, FramedIsWhole
      <4> QED
        BY <2>1, <2>3, <3>2, <4>2, SameOutcomes DEF Promise!Next, Promise!Answer
    <3> QED
      BY <3>1, <3>2, JudgeDecides
  <2>4. CASE result' \in {Failed("TruncatedResponse"), Failed("Timeout"), Failed("NetworkError")}
    <3>1. PICK bytes : result' = Judge(bytes)
      BY <1>6, <2>1 DEF ReadSome, Return
    <3> QED
      BY <2>4, <3>1, JudgeDecides, Outcomes
  <2> QED
    BY <2>1, <2>2, <2>3, <2>4 DEF Inv, FrameInv
<1>7. CASE StartIo \/ WriteSome \/ Interrupted \/ Arrive \/ Close \/ UNCHANGED vars
  BY <1>7 DEF StartIo, WriteSome, Interrupted, Arrive, Close, vars, program
<1>8. CASE Tick
  BY <1>8 DEF Tick, program, Promise!Next, Promise!Tick
<1> QED
  BY <1>2, <1>3, <1>4, <1>5, <1>6, <1>7, <1>8 DEF Next, Step, Done

\* An exchange over TCP or TLS does nothing that Attempt, what every
\* transport promises its caller, does not allow (tcp::exchange).
THEOREM StreamKeepsThePromise == Spec => Promise!Init /\ [][Promise!Next]_(Promise!vars)
<1>1. Init => Promise!Init
  BY SameOutcomes DEF Init, Promise!Init
<1> QED
  BY <1>1, PromiseNext, InvAlways, PTL DEF Spec

=============================================================================
