------------------------- MODULE HttpExchange_proofs -------------------------
(***************************************************************************)
(* Proofs about an HTTP/1.1 exchange, for every response, however it is    *)
(* cut up, every parser of heads, and all limits.                          *)
(***************************************************************************)
EXTENDS HttpExchange, SequenceTheorems, WellFoundedInduction, TLAPS

-----------------------------------------------------------------------------
(* Parts of the response.                                                  *)

\* What has been read of the response, when it is k bytes.
Prefix(k) == SubSeq(sends, 1, k)

LEMMA SendsType ==
    ASSUME sends \in Responses
    PROVE  sends \in Seq(Nat) /\ Len(sends) \in Nat
BY BytesAssumption

LEMMA PrefixType ==
    ASSUME sends \in Responses, NEW k \in 0..Len(sends)
    PROVE  Prefix(k) \in Seq(Nat) /\ Len(Prefix(k)) = k
<1>1. sends \in Seq(Nat) /\ Len(sends) \in Nat
  BY SendsType
<1>2. \A i \in 1..k : sends[i] \in Nat
  BY <1>1
<1> QED
  BY <1>2, SubSeqProperties DEF Prefix

\* Reading on makes a longer prefix of the response.
LEMMA ReadsOn ==
    ASSUME sends \in Responses, NEW k \in 0..Len(sends), NEW n \in 1..(Len(sends) - k)
    PROVE  Prefix(k) \o SubSeq(sends, k + 1, k + n) = Prefix(k + n)
<1>1. sends \in Seq(Nat) /\ Len(sends) \in Nat
  BY SendsType
<1>2. 1 \in 1..(Len(sends) + 1) /\ k \in (1 - 1)..Len(sends) /\ k + n \in k..Len(sends)
  BY <1>1
<1> QED
  BY <1>1, <1>2, ConcatAdjacentSubSeq DEF Prefix

\* A part of what has been read is that part of the response.
LEMMA PartOfPrefix ==
    ASSUME sends \in Responses, NEW k \in 0..Len(sends), NEW from \in Nat \ {0}, NEW to \in 0..k
    PROVE  SubSeq(Prefix(k), from, to) = SubSeq(sends, from, to)
<1>1. sends \in Seq(Nat) /\ Len(sends) \in Nat /\ Prefix(k) \in Seq(Nat)
  BY SendsType, PrefixType
<1>2. CASE to < from
  BY <1>2, SubSeqEmpty
<1>3. CASE ~(to < from)
  <2>1. /\ 1 \in 1..Len(sends) /\ k \in 1..Len(sends)
        /\ from \in 1..(k - 1 + 1) /\ to \in 1..(k - 1 + 1)
    BY <1>1, <1>3
  <2>2. SubSeq(SubSeq(sends, 1, k), from, to) = SubSeq(sends, 1 + from - 1, 1 + to - 1)
    BY <1>1, <2>1, SubSeqOfSubSeq
  <2>3. 1 + from - 1 = from /\ 1 + to - 1 = to
    OBVIOUS
  <2> QED
    BY <2>2, <2>3 DEF Prefix
<1> QED
  BY <1>2, <1>3

-----------------------------------------------------------------------------
(* The end of the head.                                                    *)

\* Any set of places has a first.
LEMMA FirstPlace ==
    ASSUME NEW places, places \subseteq Nat, places # {}
    PROVE  \E i \in places : \A j \in places : i <= j
<1>1. PICK i \in places : \A j \in places : ~(<<j, i>> \in OpToRel(<, Nat))
  BY NatLessThanWellFounded, WFMin
<1>2. \A j \in places : ~(j < i)
  BY <1>1 DEF OpToRel
<1> QED
  BY <1>2

LEMMA HeadEndIsFirst ==
    ASSUME NEW bytes, Len(bytes) \in Nat, HeadEnds(bytes) # {}
    PROVE  /\ HeadEnd(bytes) \in HeadEnds(bytes)
           /\ \A j \in HeadEnds(bytes) : HeadEnd(bytes) <= j
           /\ HeadEnd(bytes) \in 1..Len(bytes)
<1>1. HeadEnds(bytes) \subseteq 1..Len(bytes)
  BY BytesAssumption DEF HeadEnds
<1>2. \E i \in HeadEnds(bytes) : \A j \in HeadEnds(bytes) : i <= j
  BY <1>1, FirstPlace
<1> QED
  BY <1>1, <1>2 DEF HeadEnd

\* The blank lines in what has been read are those of the response.
LEMMA PrefixHeadEnds ==
    ASSUME sends \in Responses, NEW k \in 0..Len(sends)
    PROVE  \A i \in Nat : i \in HeadEnds(Prefix(k)) <=> i \in HeadEnds(sends) /\ i <= k
<1> DEFINE length == Len(BlankLine)
<1>1. length \in Nat \ {0} /\ Len(sends) \in Nat /\ Len(Prefix(k)) = k
  BY BytesAssumption, SendsType, PrefixType
<1> SUFFICES ASSUME NEW i \in Nat
             PROVE  i \in HeadEnds(Prefix(k)) <=> i \in HeadEnds(sends) /\ i <= k
  OBVIOUS
<1>2. ASSUME i \in length..k
      PROVE  SubSeq(Prefix(k), i - length + 1, i) = SubSeq(sends, i - length + 1, i)
  <2>1. i - length + 1 \in Nat \ {0} /\ i \in 0..k
    BY <1>1, <1>2
  <2> QED
    BY <2>1, PartOfPrefix
<1>3. i \in HeadEnds(Prefix(k)) <=> i \in length..k /\ SubSeq(Prefix(k), i - length + 1, i) = BlankLine
  BY <1>1 DEF HeadEnds
<1>4. i \in HeadEnds(sends) <=> i \in length..Len(sends) /\ SubSeq(sends, i - length + 1, i) = BlankLine
  BY <1>1 DEF HeadEnds
<1> HIDE DEF length
<1> QED
  BY <1>1, <1>2, <1>3, <1>4

\* So the first of them is found as soon as it is there, and stays the first.
LEMMA HeadFoundOnce ==
    ASSUME sends \in Responses, NEW k \in 0..Len(sends), HeadEnds(Prefix(k)) # {}
    PROVE  /\ HeadEnds(sends) # {}
           /\ HeadEnd(Prefix(k)) = HeadEnd(sends)
           /\ HeadEnd(sends) \in 1..k
           /\ SubSeq(Prefix(k), 1, HeadEnd(sends)) = SubSeq(sends, 1, HeadEnd(sends))
<1>1. Len(Prefix(k)) = k /\ Len(sends) \in Nat
  BY SendsType, PrefixType
<1>2. /\ HeadEnd(Prefix(k)) \in HeadEnds(Prefix(k)) /\ HeadEnd(Prefix(k)) \in 1..k
      /\ \A j \in HeadEnds(Prefix(k)) : HeadEnd(Prefix(k)) <= j
  BY <1>1, HeadEndIsFirst
<1>3. HeadEnd(Prefix(k)) \in HeadEnds(sends)
  BY <1>2, PrefixHeadEnds
<1>4. /\ HeadEnd(sends) \in HeadEnds(sends) /\ HeadEnd(sends) \in 1..Len(sends)
      /\ \A j \in HeadEnds(sends) : HeadEnd(sends) <= j
  BY <1>1, <1>3, HeadEndIsFirst
<1>5. HeadEnd(sends) <= k
  BY <1>1, <1>2, <1>3, <1>4
<1>6. HeadEnd(sends) \in HeadEnds(Prefix(k))
  BY <1>1, <1>4, <1>5, PrefixHeadEnds
<1>7. HeadEnd(Prefix(k)) = HeadEnd(sends)
  BY <1>1, <1>2, <1>3, <1>4, <1>6
<1>8. HeadEnd(sends) \in 1..k /\ HeadEnd(sends) \in 0..k /\ 1 \in Nat \ {0}
  BY <1>2, <1>7
<1> QED
  BY <1>3, <1>7, <1>8, PartOfPrefix

\* A head whose end has not come by more than the limit is too long.
LEMMA HeadIsLong ==
    ASSUME sends \in Responses, NEW k \in 0..Len(sends), HeadEnds(Prefix(k)) = {}, k > MAX_HEAD
    PROVE  ~HeadIsShort
<1>1. Len(sends) \in Nat /\ MAX_HEAD \in Nat
  BY SendsType, LimitsAssumption
<1>2. ASSUME HeadEnds(sends) # {} PROVE HeadEnd(sends) \in Nat /\ HeadEnd(sends) > MAX_HEAD
  <2>1. HeadEnd(sends) \in HeadEnds(sends) /\ HeadEnd(sends) \in 1..Len(sends)
    BY <1>1, <1>2, HeadEndIsFirst
  <2>2. ~(HeadEnd(sends) <= k)
    BY <1>1, <2>1, PrefixHeadEnds
  <2> QED
    BY <1>1, <2>1, <2>2
<1> QED
  BY <1>1, <1>2 DEF HeadIsShort

-----------------------------------------------------------------------------
(* What the head says, and the outcomes.                                   *)

LEMMA Outcomes ==
    ASSUME NEW x, NEW y
    PROVE  /\ Failed(x) = Failed(y) <=> x = y
           /\ Answered(x) # Failed(y) /\ Answered(x) # Pending /\ Failed(x) # Pending
           /\ Failed(x)[1] = "Failed"
BY DEF Answered, Failed, Pending

\* A head is refused, or states how long the body is.
LEMMA HeadSays ==
    ASSUME sends \in Responses, NEW end \in 1..Len(sends)
    PROVE  LET parsed == ParseHead(SubSeq(sends, 1, end)) IN
           \/ /\ parsed[1] = "Failed"
              /\ parsed \in {Failed("HttpError"), Failed("MalformedHttp"), Failed("WrongHttpStatus")}
           \/ parsed[1] = "Length" /\ parsed[2] \in 0..MAX_BODY
<1> DEFINE found == Parse(SubSeq(sends, 1, end))
           parsed == ParseHead(SubSeq(sends, 1, end))
           length == found.content_length
<1>1. length = -1 \/ length \in Nat
  BY ParseAssumption
<1>2. \/ parsed \in {Failed("HttpError"), Failed("MalformedHttp"), Failed("WrongHttpStatus")}
      \/ parsed = <<"Length", length>> /\ length # NoLength /\ ~(length > MAX_BODY)
  BY DEF ParseHead
<1> HIDE DEF found, parsed, length
<1>3. CASE parsed = <<"Length", length>> /\ length # NoLength /\ ~(length > MAX_BODY)
  <2>1. length \in 0..MAX_BODY
    BY <1>1, <1>3, LimitsAssumption DEF NoLength
  <2> QED
    BY <1>3, <2>1 DEF parsed
<1> QED
  BY <1>2, <1>3, Outcomes DEF parsed

\* The judgement of a body is not an error in reading it.
LEMMA JudgeIsLast ==
    ASSUME NEW message
    PROVE  /\ Judged(TheRequest, message) # Failed("TruncatedResponse")
           /\ Judged(TheRequest, message) # Failed("MalformedHttp")
           /\ Judged(TheRequest, message) # Pending
BY Outcomes DEF Judged

-----------------------------------------------------------------------------
(* The inductive invariant.                                                *)

CutOff == {Failed(error) : error \in {"TruncatedResponse"} \cup IoErrors}

TypeInv ==
    /\ pc \in {"write", "head", "body", "done"}
    /\ sends \in Responses
    /\ Len(data) \in 0..Len(sends) /\ data = Prefix(Len(data))
    /\ closed \in BOOLEAN

\* Until the end of the head is found, nothing is known.
HeadInv ==
    pc \in {"write", "head"} =>
        /\ Len(data) <= MAX_HEAD
        /\ head_end = 0 /\ body_end = 0

\* Once it is, what is known is what the response says, read in one piece.
BodyInv ==
    /\ pc = "body" => body_end # 0 /\ Len(data) < body_end
    /\ body_end # 0 =>
          /\ HeadEnds(sends) # {} /\ head_end = HeadEnd(sends) /\ head_end \in 1..Len(data)
          /\ LET parsed == ParseHead(SubSeq(sends, 1, head_end)) IN
             parsed[1] = "Length" /\ parsed[2] \in 0..MAX_BODY /\ body_end = head_end + parsed[2]

\* What the bounds rest on.
BoundInv ==
    /\ head_end \in 0..(MAX_HEAD + Buffer)
    /\ Len(data) <= MAX_HEAD + MAX_BODY + 2 * Buffer

\* The outcome.
ResultInv ==
    /\ pc # "done" => result = Pending
    /\ pc = "done" =>
          \/ result \in CutOff
          \/ result = Failed("MalformedHttp") /\ ~HeadIsShort
          \/ result = Meant
    /\ result = Failed("TruncatedResponse") => closed /\ (HeadEnds(data) = {} \/ Len(data) < body_end)

\* Before the body nothing read so far has the end of the head in it.
SearchInv == pc \in {"write", "head"} => HeadEnds(data) = {}

Inv == TypeInv /\ HeadInv /\ SearchInv /\ BodyInv /\ BoundInv /\ ResultInv

LEMMA InitInv == Init => Inv
<1> SUFFICES ASSUME Init PROVE Inv
  OBVIOUS
<1>1. sends \in Responses /\ Len(sends) \in Nat /\ data = <<>> /\ Len(data) = 0
  BY SendsType DEF Init
<1>2. data = Prefix(0)
  BY <1>1, SubSeqEmpty DEF Prefix
<1>3. TypeInv
  <2>1. data = Prefix(Len(data)) /\ Len(data) \in 0..Len(sends)
    BY <1>1, <1>2
  <2> QED
    BY <2>1 DEF Init, TypeInv
<1>4. HeadInv /\ BoundInv
  BY <1>1, LimitsAssumption DEF Init, HeadInv, BoundInv
<1>5. HeadEnds(data) = {}
  BY <1>1, BytesAssumption DEF HeadEnds
<1>6. BodyInv /\ SearchInv
  BY <1>1, <1>5 DEF Init, BodyInv, SearchInv
<1>7. ResultInv
  BY <1>1, Outcomes DEF Init, ResultInv
<1> QED
  BY <1>3, <1>4, <1>6, <1>7 DEF Inv

\* Steps that read nothing, and return nothing or that the reading is cut off.
LEMMA StayStep ==
    ASSUME Inv, UNCHANGED <<data, head_end, body_end, sends>>,
           pc' = pc \/ (pc = "write" /\ pc' = "head") \/ pc' = "done",
           closed' \in BOOLEAN,
           pc' # "done" => UNCHANGED result,
           pc = "done" => UNCHANGED <<result, closed>>,
           pc # "done" /\ pc' = "done" => result' \in CutOff,
           pc # "done" /\ result' = Failed("TruncatedResponse") =>
               closed' /\ (HeadEnds(data) = {} \/ Len(data) < body_end)
    PROVE  Inv'
<1>1. TypeInv'
  BY DEF Inv, TypeInv, Prefix
<1>2. HeadInv' /\ SearchInv' /\ BoundInv'
  BY DEF Inv, HeadInv, SearchInv, BoundInv, HeadEnds
<1>3. BodyInv'
  BY DEF Inv, BodyInv, HeadEnds, HeadEnd
<1>4. Meant' = Meant /\ HeadIsShort' = HeadIsShort /\ HeadEnds(data)' = HeadEnds(data)
  BY DEF Meant, HeadIsShort, HeadEnds, HeadEnd
<1>5. ResultInv'
  BY <1>4, Outcomes DEF Inv, TypeInv, ResultInv
<1> QED
  BY <1>1, <1>2, <1>3, <1>5 DEF Inv

\* What a read takes.
LEMMA ReceiveMore ==
    ASSUME Inv, NEW n \in 1..Buffer, Receive(n)
    PROVE  /\ Len(data') \in 1..Len(sends) /\ Len(data') = Len(data) + n
           /\ data' = Prefix(Len(data'))
           /\ Len(data) \in Nat /\ n \in 1..Buffer /\ Len(sends) \in Nat
<1> DEFINE k == Len(data)
<1>1. sends \in Responses /\ Len(sends) \in Nat /\ k \in 0..Len(sends) /\ data = Prefix(k)
  BY SendsType DEF Inv, TypeInv
<1>2. n \in 1..(Len(sends) - k) /\ data' = data \o SubSeq(sends, k + 1, k + n)
  BY <1>1, LimitsAssumption DEF Receive
<1> HIDE DEF k
<1>3. data' = Prefix(k + n)
  BY <1>1, <1>2, ReadsOn
<1>4. k + n \in 0..Len(sends) /\ k + n \in 1..Len(sends)
  BY <1>1, <1>2
<1>5. Len(data') = k + n
  BY <1>1, <1>3, <1>4, PrefixType
<1> QED
  BY <1>1, <1>3, <1>4, <1>5 DEF k

\* The response has been read as far as its stated end.
LEMMA FinishMeans ==
    ASSUME sends \in Responses, NEW k \in 0..Len(sends), HeadEnds(sends) # {},
           NEW end, end = HeadEnd(sends), end \in 1..k,
           NEW length \in Nat, end + length <= k,
           ParseHead(SubSeq(sends, 1, end))[1] = "Length",
           ParseHead(SubSeq(sends, 1, end))[2] = length
    PROVE  Judged(TheRequest, Decode(Body(Prefix(k), end, end + length))) = Meant
<1>1. end + 1 \in Nat \ {0} /\ end + length \in 0..k
  BY SendsType
<1>2. Body(Prefix(k), end, end + length) = SubSeq(sends, end + 1, end + length)
  BY <1>1, PartOfPrefix DEF Body
<1> QED
  BY <1>2 DEF Meant

\* The head is looked for, and with it the body.
LEMMA HeadStep ==
    ASSUME Inv, ReadHead
    PROVE  Inv'
<1> DEFINE k == Len(data')
           end == HeadEnd(sends)
           parsed == ParseHead(SubSeq(sends, 1, end))
<1>1. PICK n \in 1..Buffer : Receive(n)
  BY DEF ReadHead
<1>2. /\ pc = "head" /\ result = Pending /\ head_end = 0 /\ body_end = 0 /\ Len(data) <= MAX_HEAD
      /\ sends' = sends /\ closed' = closed /\ sends \in Responses
      /\ ReadOn(data')
  BY DEF ReadHead, Inv, TypeInv, HeadInv, ResultInv
<1>3. k \in 1..Len(sends) /\ k = Len(data) + n /\ data' = Prefix(k) /\ Len(data) \in Nat /\ Len(sends) \in Nat
  BY <1>1, ReceiveMore
<1>4. k \in 0..Len(sends) /\ k <= MAX_HEAD + Buffer /\ MAX_HEAD \in Nat /\ MAX_BODY \in Nat /\ Buffer \in Nat
  BY <1>1, <1>2, <1>3, LimitsAssumption
<1>5. Meant' = Meant /\ HeadIsShort' = HeadIsShort /\ HeadEnds(sends)' = HeadEnds(sends) /\ HeadEnd(sends)' = end
  BY <1>2 DEF Meant, HeadIsShort, HeadEnds, HeadEnd
<1>6. pc' \in {"head", "body", "done"} => TypeInv'
  BY <1>2, <1>3, <1>4 DEF Inv, TypeInv, Prefix
<1>7. CASE HeadEnds(data') = {}
  <2>1. HeadNotFound(data')
    BY <1>2, <1>7 DEF ReadOn
  <2>2. head_end' = 0 /\ body_end' = 0
    BY <1>2, <2>1 DEF HeadNotFound
  <2>3. BodyInv' /\ BoundInv'
    BY <1>2, <1>3, <1>4, <2>1, <2>2 DEF HeadNotFound, Return, BodyInv, BoundInv
  <2>4. CASE k > MAX_HEAD
    <3>1. pc' = "done" /\ result' = Failed("MalformedHttp")
      BY <2>1, <2>4 DEF HeadNotFound, Return
    <3>2. ~HeadIsShort
      BY <1>2, <1>3, <1>4, <1>7, <2>4, HeadIsLong
    <3>3. ResultInv'
      BY <1>5, <3>1, <3>2, Outcomes DEF ResultInv
    <3> QED
      BY <1>6, <2>3, <3>1, <3>3 DEF Inv, HeadInv, SearchInv
  <2>5. CASE ~(k > MAX_HEAD)
    <3>1. pc' = "head" /\ result' = Pending
      BY <1>2, <2>1, <2>5 DEF HeadNotFound
    <3>2. HeadInv' /\ SearchInv'
      BY <1>4, <1>7, <2>2, <2>5, <3>1 DEF HeadInv, SearchInv, HeadEnds
    <3>3. ResultInv'
      BY <3>1, Outcomes DEF ResultInv
    <3> QED
      BY <1>6, <2>3, <3>1, <3>2, <3>3 DEF Inv
  <2> QED
    BY <2>4, <2>5
<1>8. CASE HeadEnds(data') # {}
  <2>1. /\ HeadEnds(sends) # {} /\ HeadEnd(data') = end /\ end \in 1..k
        /\ SubSeq(data', 1, end) = SubSeq(sends, 1, end)
    BY <1>2, <1>3, <1>4, <1>8, HeadFoundOnce
  <2>2. HeadFound(data', end, parsed)
    BY <1>2, <1>8, <2>1 DEF ReadOn
  <2>3. end \in 1..Len(sends) /\ end \in 0..(MAX_HEAD + Buffer) /\ head_end' = end
    BY <1>3, <1>4, <2>1, <2>2 DEF HeadFound
  <2>4. \/ parsed[1] = "Failed" /\ parsed \in {Failed("HttpError"), Failed("MalformedHttp"), Failed("WrongHttpStatus")}
        \/ parsed[1] = "Length" /\ parsed[2] \in 0..MAX_BODY
    BY <1>2, <2>3, HeadSays
  <2>5. BoundInv'
    BY <1>3, <1>4, <2>3 DEF BoundInv
  <2>6. CASE parsed[1] = "Failed"
    <3>1. pc' = "done" /\ result' = parsed /\ body_end' = 0
      BY <1>2, <2>2, <2>6 DEF HeadFound, Return
    <3>2. parsed = Meant
      BY <2>6 DEF Meant
    <3>3. result' # Failed("TruncatedResponse")
      BY <2>4, <2>6, <3>1, Outcomes
    <3>4. ResultInv'
      BY <1>5, <3>1, <3>2, <3>3 DEF ResultInv
    <3>5. BodyInv'
      BY <3>1 DEF BodyInv
    <3> QED
      BY <1>6, <2>5, <3>1, <3>4, <3>5 DEF Inv, HeadInv, SearchInv
  <2>7. CASE parsed[1] = "Length"
    <3>1. /\ body_end' = end + parsed[2] /\ parsed[2] \in 0..MAX_BODY
          /\ IF k < body_end' THEN pc' = "body" /\ UNCHANGED result
             ELSE Finish(data', end, body_end')
      BY <2>2, <2>4, <2>7 DEF HeadFound
    <3>2. body_end' \in Nat /\ body_end' # 0 /\ parsed[2] \in Nat
      BY <2>3, <3>1, <1>4
    <3>3. CASE k < body_end'
      <4>1. pc' = "body" /\ result' = Pending
        BY <1>2, <3>1, <3>3
      <4>2. BodyInv'
        BY <1>2, <2>1, <2>3, <2>7, <3>1, <3>2, <3>3, <4>1 DEF BodyInv, HeadEnds, HeadEnd
      <4>3. ResultInv'
        BY <4>1, Outcomes DEF ResultInv
      <4> QED
        BY <1>6, <2>5, <4>1, <4>2, <4>3 DEF Inv, HeadInv, SearchInv
    <3>4. CASE ~(k < body_end')
      <4>1. end + parsed[2] <= k
        BY <1>3, <3>1, <3>2, <3>4
      <4>2. Judged(TheRequest, Decode(Body(Prefix(k), end, end + parsed[2]))) = Meant
        BY <1>2, <1>4, <2>1, <2>7, <3>2, <4>1, FinishMeans
      <4>3. pc' = "done" /\ result' = Judged(TheRequest, Decode(Body(data', end, body_end')))
        BY <3>1, <3>4 DEF Finish, Return
      <4>4. result' = Meant
        BY <1>3, <3>1, <4>2, <4>3
      <4>5. result' # Failed("TruncatedResponse")
        BY <4>3, JudgeIsLast
      <4>6. ResultInv'
        BY <1>5, <4>3, <4>4, <4>5 DEF ResultInv
      <4>7. BodyInv'
        BY <1>2, <2>1, <2>3, <2>7, <3>1, <3>2, <4>3 DEF BodyInv, HeadEnds, HeadEnd
      <4> QED
        BY <1>6, <2>5, <4>3, <4>6, <4>7 DEF Inv, HeadInv, SearchInv
    <3> QED
      BY <3>3, <3>4
  <2> QED
    BY <2>4, <2>6, <2>7
<1> QED
  BY <1>7, <1>8

\* The body is read until all that is stated of it is there.
LEMMA BodyStep ==
    ASSUME Inv, ReadBody
    PROVE  Inv'
<1> DEFINE k == Len(data')
           end == HeadEnd(sends)
           parsed == ParseHead(SubSeq(sends, 1, end))
<1>1. PICK n \in 1..Buffer : Receive(n)
  BY DEF ReadBody
<1>2. /\ pc = "body" /\ result = Pending
      /\ UNCHANGED <<head_end, body_end, sends, closed>> /\ sends \in Responses
  BY DEF ReadBody, Inv, TypeInv, ResultInv
<1>3. k \in 1..Len(sends) /\ k = Len(data) + n /\ data' = Prefix(k) /\ Len(data) \in Nat /\ Len(sends) \in Nat
  BY <1>1, ReceiveMore
<1>4. /\ body_end # 0 /\ Len(data) < body_end /\ HeadEnds(sends) # {}
      /\ head_end = end /\ end \in 1..Len(data) /\ end \in 0..(MAX_HEAD + Buffer)
      /\ parsed[1] = "Length" /\ parsed[2] \in 0..MAX_BODY /\ body_end = end + parsed[2]
  BY <1>2 DEF Inv, BodyInv, BoundInv
<1>5. Meant' = Meant /\ HeadIsShort' = HeadIsShort /\ HeadEnds(sends)' = HeadEnds(sends) /\ HeadEnd(sends)' = end
  BY <1>2 DEF Meant, HeadIsShort, HeadEnds, HeadEnd
<1>6. MAX_HEAD \in Nat /\ MAX_BODY \in Nat /\ Buffer \in Nat /\ k \in 0..Len(sends) /\ end \in 1..k
  BY <1>1, <1>3, <1>4, LimitsAssumption
<1>7. parsed[2] \in Nat /\ body_end \in Nat /\ k <= MAX_HEAD + MAX_BODY + 2 * Buffer
  <2> DEFINE length == parsed[2]
  <2>1. length \in 0..MAX_BODY /\ body_end = end + length /\ Len(data) < body_end
    BY <1>4
  <2> HIDE DEF length, parsed, end, k
  <2>2. length \in Nat /\ body_end \in Nat /\ k <= MAX_HEAD + MAX_BODY + 2 * Buffer
    BY <1>1, <1>3, <1>4, <1>6, <2>1
  <2> QED
    BY <2>2 DEF length
<1>8. BoundInv'
  BY <1>2, <1>4, <1>7 DEF BoundInv
<1>9. pc' \in {"body", "done"} => TypeInv' /\ HeadInv' /\ SearchInv'
  BY <1>2, <1>3, <1>6 DEF Inv, TypeInv, Prefix, HeadInv, SearchInv
<1>10. k < body_end \/ pc' = "done" => BodyInv'
  BY <1>2, <1>4, <1>6 DEF BodyInv, HeadEnds, HeadEnd
<1>11. CASE k < body_end
  <2>1. pc' = "body" /\ result' = Pending
    BY <1>2, <1>11 DEF ReadBody
  <2>2. ResultInv'
    BY <2>1, Outcomes DEF ResultInv
  <2> QED
    BY <1>8, <1>9, <1>10, <1>11, <2>1, <2>2 DEF Inv
<1>12. CASE ~(k < body_end)
  <2>1. pc' = "done" /\ result' = Judged(TheRequest, Decode(Body(data', head_end, body_end)))
    BY <1>12 DEF ReadBody, Finish, Return
  <2>2. end + parsed[2] <= k
    BY <1>3, <1>4, <1>7, <1>12
  <2>3. Judged(TheRequest, Decode(Body(Prefix(k), end, end + parsed[2]))) = Meant
    BY <1>2, <1>4, <1>6, <1>7, <2>2, FinishMeans
  <2>4. result' = Meant
    BY <1>3, <1>4, <2>1, <2>3
  <2>5. result' # Failed("TruncatedResponse")
    BY <2>1, JudgeIsLast
  <2>6. ResultInv'
    BY <1>5, <2>1, <2>4, <2>5 DEF ResultInv
  <2> QED
    BY <1>8, <1>9, <1>10, <2>1, <2>6 DEF Inv
<1> QED
  BY <1>11, <1>12

LEMMA InvNext == Inv /\ [Next]_vars => Inv'
<1> SUFFICES ASSUME Inv, [Next]_vars PROVE Inv'
  OBVIOUS
<1>1. closed \in BOOLEAN
  BY DEF Inv, TypeInv
<1>2. CASE WriteRequest
  BY <1>1, <1>2, StayStep, Outcomes DEF WriteRequest, Inv, ResultInv
<1>3. CASE ReadHead
  BY <1>3, HeadStep
<1>4. CASE ReadBody
  BY <1>4, BodyStep
<1>5. CASE ReadEnd
  <2>1. closed /\ (HeadEnds(data) = {} \/ Len(data) < body_end)
    BY <1>5 DEF ReadEnd, Inv, SearchInv, BodyInv
  <2>2. Failed("TruncatedResponse") \in CutOff
    BY DEF CutOff
  <2> QED
    BY <1>1, <1>5, <2>1, <2>2, StayStep DEF ReadEnd, Return
<1>6. CASE IoFails
  <2>1. PICK error \in IoErrors : Return(Failed(error))
    BY <1>6 DEF IoFails
  <2>2. Failed(error) \in CutOff /\ Failed(error) # Failed("TruncatedResponse")
    BY IoErrorsAssumption, Outcomes DEF CutOff
  <2> QED
    BY <1>1, <1>6, <2>1, <2>2, StayStep DEF IoFails, Return
<1>7. CASE Close
  BY <1>7, StayStep, Outcomes DEF Close, Inv, ResultInv
<1>8. CASE UNCHANGED vars
  BY <1>1, <1>8, StayStep, Outcomes DEF vars, Inv, ResultInv
<1> QED
  BY <1>2, <1>3, <1>4, <1>5, <1>6, <1>7, <1>8 DEF Next, Done

LEMMA InvAlways == Spec => []Inv
BY InitInv, InvNext, PTL DEF Spec

-----------------------------------------------------------------------------
(* The theorems.                                                           *)

\* However the response is cut up, what dog makes of it is what it says when
\* it is read in one piece (https.rs, read_head and read_http_body).
THEOREM PiecesDoNotShow == Spec => []OutcomeIgnoresThePieces
<1>1. Inv => OutcomeIgnoresThePieces
  BY DEF Inv, ResultInv, CutOff, OutcomeIgnoresThePieces
<1> QED
  BY <1>1, InvAlways, PTL

\* Only a response that is cut short is called that (https.rs, read_some).
THEOREM TruncationIsReal == Spec => []TruncatedMeansCutShort
<1>1. Inv => TruncatedMeansCutShort
  BY DEF Inv, ResultInv, TruncatedMeansCutShort
<1> QED
  BY <1>1, InvAlways, PTL

\* No server makes dog read without end, whatever the limits are.
THEOREM ReadingEnds == Spec => []ReadingIsBounded
<1>1. Inv => ReadingIsBounded
  BY LimitsAssumption DEF Inv, HeadInv, BoundInv, ReadingIsBounded
<1> QED
  BY <1>1, InvAlways, PTL

-----------------------------------------------------------------------------
(* The promise of an exchange over HTTP.                                   *)

\* The outcomes of HttpResponse are those of Messages.
LEMMA SameOutcomes ==
    /\ Promise!Pending = Pending
    /\ \A x : Promise!Failed(x) = Failed(x)
    /\ \A request, msg : Promise!Judged(request, msg) = Judged(request, msg)
<1>1. /\ Promise!Pending = Pending
      /\ \A x : Promise!Failed(x) = Failed(x) /\ Promise!Answered(x) = Answered(x)
  BY DEF Promise!Pending, Pending, Promise!Failed, Failed, Promise!Answered, Answered
<1>2. ASSUME NEW request, NEW msg
      PROVE  Promise!CheckResponse(request, msg) = CheckResponse(request, msg)
  BY DEF Promise!CheckResponse, CheckResponse, Promise!SameQuestion, SameQuestion,
         Promise!HasErrorCode, HasErrorCode
<1>3. ASSUME NEW request, NEW msg
      PROVE  Promise!Judged(request, msg) = Judged(request, msg)
  BY <1>1, <1>2 DEF Promise!Judged, Judged
<1> QED
  BY <1>1, <1>3

\* What is read of the body is a part of the response, up to its stated end.
BodyIsPart ==
    /\ body_end = 0 => BodyRead = <<>>
    /\ body_end # 0 =>
          \E to \in head_end..Len(sends) :
             /\ to <= Len(data) /\ to <= body_end
             /\ Len(data) >= body_end => to = body_end
             /\ Len(data) < body_end => to = Len(data)
             /\ BodyRead = SubSeq(sends, head_end + 1, to)
             /\ BodyRead \in Seq(Nat) /\ Len(BodyRead) = to - head_end
             /\ Len(BodyRead) <= MAX_BODY

LEMMA BodyReadType == Inv => BodyIsPart
<1> SUFFICES ASSUME Inv PROVE BodyIsPart
  OBVIOUS
<1>1. body_end = 0 => BodyRead = <<>>
  BY DEF BodyRead
<1>2. ASSUME body_end # 0
      PROVE  \E to \in head_end..Len(sends) :
                    /\ to <= Len(data) /\ to <= body_end
                    /\ Len(data) >= body_end => to = body_end
                    /\ Len(data) < body_end => to = Len(data)
                    /\ BodyRead = SubSeq(sends, head_end + 1, to)
                    /\ BodyRead \in Seq(Nat) /\ Len(BodyRead) = to - head_end
                    /\ Len(BodyRead) <= MAX_BODY
  <2> DEFINE k == Len(data)
             to == IF k < body_end THEN k ELSE body_end
             length == ParseHead(SubSeq(sends, 1, head_end))[2]
  <2>1. /\ sends \in Responses /\ Len(sends) \in Nat /\ sends \in Seq(Nat) /\ k \in 0..Len(sends)
        /\ data = Prefix(k) /\ head_end \in 1..k
        /\ length \in 0..MAX_BODY /\ body_end = head_end + length /\ MAX_BODY \in Nat
    BY <1>2, SendsType, LimitsAssumption DEF Inv, TypeInv, BodyInv
  <2>2. BodyRead = SubSeq(data, head_end + 1, to)
    BY <1>2 DEF BodyRead
  <2> HIDE DEF length, k
  <2>3. to \in head_end..Len(sends) /\ to \in 0..k /\ head_end + 1 \in Nat \ {0} /\ to \in Int
    BY <2>1
  <2>4. BodyRead = SubSeq(sends, head_end + 1, to)
    BY <2>1, <2>2, <2>3, PartOfPrefix
  <2>5. \A i \in (head_end + 1)..to : sends[i] \in Nat
    BY <2>1, <2>3
  <2>6. BodyRead \in Seq(Nat) /\ Len(BodyRead) = to - head_end
    <3>1. /\ BodyRead \in Seq(Nat)
          /\ Len(BodyRead) = IF head_end + 1 <= to THEN to - (head_end + 1) + 1 ELSE 0
      <4>1. head_end + 1 \in Int
        BY <2>1
      <4> HIDE DEF to
      <4> QED
        BY <2>3, <2>4, <2>5, <4>1, SubSeqProperties
    <3> QED
      BY <2>1, <2>3, <3>1
  <2>7. to - head_end <= MAX_BODY /\ to <= k /\ to <= body_end
        /\ (k >= body_end => to = body_end) /\ (k < body_end => to = k)
    BY <2>1
  <2> HIDE DEF to
  <2> QED
    BY <2>3, <2>4, <2>6, <2>7 DEF k
<1> QED
  BY <1>1, <1>2 DEF BodyIsPart

\* More of the body begins with less of it.
LEMMA MoreBody ==
    ASSUME sends \in Responses, NEW from \in Nat \ {0},
           NEW to \in from..Len(sends), NEW on \in to..Len(sends),
           NEW less, less = SubSeq(sends, from + 1, to), less \in Seq(Nat), Len(less) = to - from,
           NEW more, more = SubSeq(sends, from + 1, on), more \in Seq(Nat), Len(more) = on - from
    PROVE  IsPrefix(less, more)
<1>1. sends \in Seq(Nat) /\ Len(sends) \in Nat
  BY SendsType
<1>2. SubSeq(less, 1, Len(less)) = less
  BY SubSeqFull
<1>3. Len(less) <= Len(more)
  BY <1>1
<1>4. SubSeq(more, 1, Len(less)) = less
  <2>1. CASE to = from
    <3>1. less = <<>> /\ Len(less) = 0
      BY <1>1, <2>1, SubSeqEmpty
    <3> QED
      BY <3>1, SubSeqEmpty
  <2>2. CASE to # from
    <3>1. /\ from + 1 \in 1..Len(sends) /\ on \in 1..Len(sends)
          /\ 1 \in 1..(on - (from + 1) + 1) /\ to - from \in 1..(on - (from + 1) + 1)
      BY <1>1, <2>2
    <3>2. SubSeq(SubSeq(sends, from + 1, on), 1, to - from)
            = SubSeq(sends, (from + 1) + 1 - 1, (from + 1) + (to - from) - 1)
      BY <1>1, <3>1, SubSeqOfSubSeq
    <3>3. (from + 1) + 1 - 1 = from + 1 /\ (from + 1) + (to - from) - 1 = to
      BY <1>1
    <3> QED
      BY <3>2, <3>3
  <2> QED
    BY <2>1, <2>2
<1> QED
  BY <1>2, <1>3, <1>4 DEF IsPrefix

\* The parts of a step of HttpResponse, for the state that HttpExchange has.
Whole == body_end # 0 /\ Len(data) >= body_end

PromiseStep ==
    /\ result = Pending
    /\ body_end # 0 => body_end' # 0
    /\ Whole => Whole'
    /\ IsPrefix(BodyRead, BodyRead') /\ (Whole => BodyRead' = BodyRead)
    /\ Whole' \/ BodyRead' # <<>> => body_end' # 0 /\ Len(BodyRead') <= MAX_BODY
    /\ \/ result' = Pending
       \/ result' \in {Failed(error) : error \in Errors}
       \/ Whole' /\ result' = Judged(TheRequest, Decode(BodyRead'))

LEMMA PromiseStepSuffices == PromiseStep => Promise!Next
BY SameOutcomes DEF PromiseStep, Promise!Next, Promise!IsPrefix, IsPrefix, Whole, Errors

\* Nothing is read of the body before the head.
LEMMA EmptyIsPrefix ==
    ASSUME NEW more, Len(more) \in Nat
    PROVE  IsPrefix(<<>>, more)
<1>1. SubSeq(<<>>, 1, 0) = <<>> /\ SubSeq(more, 1, 0) = <<>>
  BY SubSeqEmpty
<1> QED
  BY <1>1 DEF IsPrefix

\* A step that reads nothing, and returns an error.
LEMMA FailsAsPromised ==
    ASSUME Inv, UNCHANGED <<data, head_end, body_end, sends>>, pc # "done",
           NEW error \in Errors, result' = Failed(error)
    PROVE  PromiseStep
<1>1. BodyRead' = BodyRead /\ Whole' = Whole
  BY DEF BodyRead, Whole
<1>2. Len(BodyRead) \in Nat /\ IsPrefix(BodyRead, BodyRead)
  <2>1. CASE body_end = 0
    <3>1. BodyRead = <<>>
      BY <2>1, BodyReadType DEF BodyIsPart
    <3> QED
      BY <3>1, EmptyIsPrefix
  <2>2. CASE body_end # 0
    BY <2>2, BodyReadType DEF BodyIsPart, IsPrefix
  <2> QED
    BY <2>1, <2>2
<1>3. Whole \/ BodyRead # <<>> => body_end # 0 /\ Len(BodyRead) <= MAX_BODY
  BY BodyReadType DEF BodyIsPart, Whole
<1>4. result = Pending
  BY DEF Inv, ResultInv
<1> QED
  BY <1>1, <1>2, <1>3, <1>4 DEF PromiseStep

\* What a read that ends the exchange returns.
LEMMA HeadResults ==
    ASSUME Inv, ReadHead
    PROVE  \/ result' = Pending
           \/ result' \in {Failed(error) : error \in Errors}
           \/ /\ body_end' # 0 /\ Len(data') >= body_end'
              /\ result' = Judged(TheRequest, Decode(Body(data', head_end', body_end')))
<1> DEFINE k == Len(data')
           end == HeadEnd(sends)
           parsed == ParseHead(SubSeq(sends, 1, end))
<1>1. PICK n \in 1..Buffer : Receive(n)
  BY DEF ReadHead
<1>2. result = Pending /\ sends \in Responses /\ ReadOn(data')
  BY DEF ReadHead, Inv, TypeInv, ResultInv
<1>3. k \in 1..Len(sends) /\ k \in 0..Len(sends) /\ data' = Prefix(k) /\ Len(sends) \in Nat /\ k \in Nat
  BY <1>1, ReceiveMore
<1>4. CASE HeadEnds(data') = {}
  <2>1. result' = Pending \/ result' = Failed("MalformedHttp")
    BY <1>2, <1>4 DEF ReadOn, HeadNotFound, Return
  <2> QED
    BY <2>1 DEF Errors
<1>5. CASE HeadEnds(data') # {}
  <2>1. HeadEnd(data') = end /\ end \in 1..k /\ SubSeq(data', 1, end) = SubSeq(sends, 1, end)
    BY <1>2, <1>3, <1>5, HeadFoundOnce
  <2>2. HeadFound(data', end, parsed)
    BY <1>2, <1>5, <2>1 DEF ReadOn
  <2>6. end \in 1..Len(sends)
    BY <1>3, <2>1
  <2>3. \/ parsed[1] = "Failed" /\ parsed \in {Failed("HttpError"), Failed("MalformedHttp"), Failed("WrongHttpStatus")}
        \/ parsed[1] = "Length" /\ parsed[2] \in 0..MAX_BODY
    BY <1>2, <2>6, HeadSays
  <2>4. CASE parsed[1] = "Failed"
    <3>1. result' = parsed
      BY <2>2, <2>4 DEF HeadFound, Return
    <3> QED
      BY <2>3, <2>4, <3>1 DEF Errors
  <2>5. CASE parsed[1] = "Length"
    <3>1. /\ body_end' = end + parsed[2] /\ parsed[2] \in 0..MAX_BODY /\ head_end' = end
          /\ IF k < body_end' THEN pc' = "body" /\ UNCHANGED result
             ELSE Finish(data', end, body_end')
      BY <2>2, <2>3, <2>5 DEF HeadFound
    <3>2. body_end' \in Nat /\ body_end' # 0
      BY <1>3, <2>1, <3>1, LimitsAssumption
    <3> HIDE DEF k, end, parsed
    <3>3. k < body_end' \/ k >= body_end'
      BY <1>3, <3>2
    <3> QED
      BY <1>2, <1>3, <3>1, <3>2, <3>3 DEF Finish, Return, k
  <2> QED
    BY <2>3, <2>4, <2>5
<1> QED
  BY <1>4, <1>5

LEMMA ReadsAsPromised ==
    ASSUME Inv, Inv', ReadHead \/ ReadBody
    PROVE  PromiseStep
<1>1. BodyIsPart /\ BodyIsPart'
  BY BodyReadType, PTL
<1>2. /\ result = Pending /\ sends' = sends /\ sends \in Responses /\ Len(sends) \in Nat
      /\ Len(data) \in Nat /\ Len(data') \in Nat
  BY SendsType DEF ReadHead, ReadBody, Inv, TypeInv, ResultInv
<1>3. ~Whole
  BY <1>2 DEF ReadHead, ReadBody, Inv, HeadInv, BodyInv, Whole
<1>4. Whole' \/ BodyRead' # <<>> => body_end' # 0 /\ Len(BodyRead') <= MAX_BODY
  BY <1>1 DEF BodyIsPart, Whole
<1>5. Whole' => BodyRead' = Body(data', head_end', body_end')
  <2>1. Whole' => body_end' \in Int /\ body_end' # 0 /\ Len(data') >= body_end'
    BY <1>1 DEF BodyIsPart, Whole
  <2>2. Whole' => body_end' # 0 /\ ~(Len(data') < body_end')
    BY <1>2, <2>1
  <2>3. Whole' => BodyRead' = SubSeq(data', head_end' + 1, body_end')
    BY <2>2 DEF BodyRead
  <2> QED
    BY <2>3 DEF Body
<1>6. Len(BodyRead') \in Nat
  BY <1>1 DEF BodyIsPart
<1>7. CASE ReadHead
  <2>1. body_end = 0 /\ BodyRead = <<>>
    BY <1>1, <1>7 DEF ReadHead, Inv, HeadInv, BodyIsPart
  <2>2. IsPrefix(BodyRead, BodyRead')
    BY <1>6, <2>1, EmptyIsPrefix
  <2>3. \/ result' = Pending
        \/ result' \in {Failed(error) : error \in Errors}
        \/ Whole' /\ result' = Judged(TheRequest, Decode(BodyRead'))
    BY <1>5, <1>7, HeadResults DEF Whole
  <2> QED
    BY <1>2, <1>3, <1>4, <2>1, <2>2, <2>3 DEF PromiseStep
<1>8. CASE ReadBody
  <2>1. /\ body_end # 0 /\ UNCHANGED <<head_end, body_end>> /\ Len(data) < body_end
        /\ head_end \in 1..Len(data)
    BY <1>8 DEF ReadBody, Inv, BodyInv
  <2>2. PICK n \in 1..Buffer : Len(data') = Len(data) + n
    BY <1>8, ReceiveMore DEF ReadBody
  <2>3. /\ BodyRead = SubSeq(sends, head_end + 1, Len(data)) /\ BodyRead \in Seq(Nat)
        /\ Len(BodyRead) = Len(data) - head_end /\ Len(data) \in head_end..Len(sends)
    BY <1>1, <2>1 DEF BodyIsPart
  <2>4. PICK to \in head_end..Len(sends) :
            /\ to <= Len(data') /\ to <= body_end
            /\ Len(data') >= body_end => to = body_end
            /\ Len(data') < body_end => to = Len(data')
            /\ BodyRead' = SubSeq(sends, head_end + 1, to)
            /\ BodyRead' \in Seq(Nat) /\ Len(BodyRead') = to - head_end
    BY <1>1, <1>2, <2>1 DEF BodyIsPart
  <2>5. body_end \in Int
    <3>1. body_end = head_end + ParseHead(SubSeq(sends, 1, head_end))[2]
          /\ ParseHead(SubSeq(sends, 1, head_end))[2] \in 0..MAX_BODY
      BY <2>1 DEF Inv, BodyInv
    <3> QED
      BY <2>1, <3>1, LimitsAssumption
  <2>6. to \in Len(data)..Len(sends) /\ head_end \in Nat \ {0}
    BY <1>2, <2>1, <2>2, <2>4, <2>5
  <2>7. IsPrefix(BodyRead, BodyRead')
    BY <1>2, <2>3, <2>4, <2>6, MoreBody
  <2>8. result' = Pending \/ (Whole' /\ result' = Judged(TheRequest, Decode(BodyRead')))
    <3>1. CASE Len(data') < body_end
      BY <1>2, <1>8, <3>1 DEF ReadBody
    <3>2. CASE ~(Len(data') < body_end)
      BY <1>2, <1>5, <1>8, <2>1, <2>5, <3>2 DEF ReadBody, Finish, Return, Whole
    <3> QED
      BY <3>1, <3>2
  <2> QED
    BY <1>2, <1>3, <1>4, <2>1, <2>7, <2>8 DEF PromiseStep
<1> QED
  BY <1>7, <1>8

LEMMA PromiseNext == Inv /\ Inv' /\ [Next]_vars => [Promise!Next]_(Promise!vars)
<1> SUFFICES ASSUME Inv, Inv', [Next]_vars PROVE PromiseStep \/ UNCHANGED <<data, head_end, body_end, result>>
  BY PromiseStepSuffices DEF Promise!vars, BodyRead
<1>1. CASE WriteRequest \/ Close \/ UNCHANGED vars
  BY <1>1 DEF WriteRequest, Close, vars
<1>2. CASE ReadHead \/ ReadBody
  BY <1>2, ReadsAsPromised
<1>3. CASE ReadEnd
  BY <1>3, FailsAsPromised DEF ReadEnd, Return, Errors
<1>4. CASE IoFails
  BY <1>4, FailsAsPromised DEF IoFails, Return, Errors
<1> QED
  BY <1>1, <1>2, <1>3, <1>4 DEF Next, Done

\* An HTTP/1.1 exchange does only what any exchange over HTTP may: nothing is
\* body before the head, the body only grows, and never beyond its limit, and
\* what is returned is what all of it says (https.rs, exchange_https).
THEOREM HttpKeepsThePromise == Spec => ImplementsHttpResponse
<1>1. Init => Promise!Init
  BY SameOutcomes DEF Init, Promise!Init, BodyRead
<1> QED
  BY <1>1, PromiseNext, InvAlways, PTL DEF Spec, ImplementsHttpResponse, Promise!Spec

=============================================================================
