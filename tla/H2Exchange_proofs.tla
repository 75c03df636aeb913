-------------------------- MODULE H2Exchange_proofs --------------------------
(***************************************************************************)
(* Proofs about an HTTP/2 exchange, for all frames in every order, every   *)
(* decoder of headers, and all limits; and, last, about the frames that    *)
(* the request is sent in.                                                 *)
(***************************************************************************)
EXTENDS H2Exchange, SequenceTheorems, WellFoundedInduction, TLAPS

-----------------------------------------------------------------------------
(* Frames and outcomes.                                                    *)

LEMMA Outcomes ==
    ASSUME NEW x, NEW y
    PROVE  /\ Failed(x) = Failed(y) <=> x = y
           /\ Answered(x) # Failed(y) /\ Answered(x) # Pending /\ Failed(x) # Pending
BY DEF Answered, Failed, Pending

\* The judgement of a body is not an error in reading it.
LEMMA JudgeIsLast ==
    ASSUME NEW message
    PROVE  /\ Judged(TheRequest, message) # Failed("MalformedHttp")
           /\ Judged(TheRequest, message) # Pending
BY Outcomes DEF Judged

\* The content of a frame is bytes, if there is any.
LEMMA ContentType ==
    ASSUME NEW frame \in Frames, ~TooShort(frame)
    PROVE  Content(frame) \in Seq(Nat) /\ Len(Content(frame)) \in Nat
<1> DEFINE from == Before(frame) + 1
           to == Len(frame.payload) - Padding(frame)
<1>1. frame.payload \in Seq(Nat) /\ Len(frame.payload) \in Nat
  BY FramesAssumption
<1>2. Before(frame) \in Nat
  BY LimitsAssumption DEF Before
<1>3. Padding(frame) \in Nat
  BY <1>1 DEF Padding
<1>4. from \in Int /\ to \in Int
  BY <1>1, <1>2, <1>3
<1>5. \A i \in from..to : frame.payload[i] \in Nat
  <2>1. from..to \subseteq 1..Len(frame.payload)
    BY <1>1, <1>2, <1>3
  <2> QED
    BY <1>1, <2>1
<1>6. Content(frame) = SubSeq(frame.payload, from, to)
  BY DEF Content
<1> HIDE DEF from, to
<1> QED
  BY <1>4, <1>5, <1>6, SubSeqProperties

\* Bytes added to others have them before them.
LEMMA AddedAfter ==
    ASSUME NEW s \in Seq(Nat), NEW t \in Seq(Nat)
    PROVE  /\ s \o t \in Seq(Nat) /\ Len(s \o t) = Len(s) + Len(t)
           /\ IsPrefix(s, s \o t)
<1>1. Len(s) \in Nat /\ Len(t) \in Nat /\ s \o t \in Seq(Nat) /\ Len(s \o t) = Len(s) + Len(t)
  OBVIOUS
<1>2. SubSeq(s, 1, Len(s)) = s
  BY SubSeqFull
<1>3. SubSeq(s \o t, 1, Len(s)) = s
  <2>1. CASE s = <<>>
    BY <1>1, <2>1, SubSeqEmpty
  <2>2. CASE s # <<>>
    <3>1. 1 \in 1..Len(s) /\ Len(s) \in 1..Len(s)
      BY <1>1, <2>2
    <3> QED
      BY <1>2, <3>1, SubSeqOfConcat1
  <2> QED
    BY <2>1, <2>2
<1> QED
  BY <1>1, <1>2, <1>3 DEF IsPrefix

LEMMA SameIsPrefix == ASSUME NEW s \in Seq(Nat) PROVE IsPrefix(s, s)
BY DEF IsPrefix

-----------------------------------------------------------------------------
(* What frames carry.  Carried is a recursive function: that there is one, *)
(* and that more frames do not change what the first of them carry, is     *)
(* shown by induction over their number, with sets of numbers.             *)

LEMMA Induction ==
    ASSUME NEW S, 0 \in S, \A n \in Nat : n \in S => n + 1 \in S
    PROVE  \A n \in Nat : n \in S
<1> DEFINE T == Nat \ S
<1> SUFFICES ASSUME T # {} PROVE FALSE
  OBVIOUS
<1>1. T \subseteq Nat
  OBVIOUS
<1> HIDE DEF T
<1>2. PICK i \in T : \A j \in T : ~(<<j, i>> \in OpToRel(<, Nat))
  BY <1>1, NatLessThanWellFounded, WFMin
<1>3. \A j \in T : ~(j < i)
  BY <1>1, <1>2 DEF OpToRel
<1>4. i \in Nat /\ i # 0
  BY DEF T
<1>5. i - 1 \in Nat /\ i - 1 \notin T /\ (i - 1) + 1 = i
  BY <1>3, <1>4
<1> QED
  BY <1>4, <1>5 DEF T

\* What the first n frames carry, when upto says what fewer do.
CarriedNext(frames, upto, n) ==
    IF n = 0 THEN <<>>
    ELSE IF Ours("DATA", frames[n]) THEN upto[n - 1] \o Content(frames[n])
    ELSE upto[n - 1]

IsUpto(frames, last, upto) == upto = [n \in 0..last |-> CarriedNext(frames, upto, n)]

LEMMA UptoExists ==
    ASSUME NEW frames, NEW last \in Nat
    PROVE  \E upto : IsUpto(frames, last, upto)
<1> DEFINE S == {m \in Nat : \E upto : IsUpto(frames, m, upto)}
<1>1. 0 \in S
  <2> DEFINE upto == [n \in 0..0 |-> <<>>]
  <2>1. upto = [n \in 0..0 |-> CarriedNext(frames, upto, n)]
    BY DEF CarriedNext
  <2> QED
    BY <2>1 DEF IsUpto
<1>2. ASSUME NEW m \in Nat, m \in S PROVE m + 1 \in S
  <2>1. PICK before : IsUpto(frames, m, before)
    BY <1>2
  <2> DEFINE upto == [n \in 0..(m + 1) |-> IF n = m + 1 THEN CarriedNext(frames, before, m + 1) ELSE before[n]]
  <2>2. \A n \in 0..m : upto[n] = before[n]
    OBVIOUS
  <2>3. ASSUME NEW n \in 0..(m + 1) PROVE upto[n] = CarriedNext(frames, upto, n)
    <3>1. CarriedNext(frames, upto, n) = CarriedNext(frames, before, n)
      <4>1. CASE n = 0
        BY <4>1 DEF CarriedNext
      <4>2. CASE n # 0
        <5>1. n - 1 \in 0..m
          BY <4>2
        <5>2. upto[n - 1] = before[n - 1]
          BY <2>2, <5>1
        <5> QED
          BY <5>2 DEF CarriedNext
      <4> QED
        BY <4>1, <4>2
    <3>2. upto[n] = CarriedNext(frames, before, n)
      <4>1. CASE n = m + 1
        BY <4>1
      <4>2. CASE n # m + 1
        <5>1. n \in 0..m
          BY <4>2
        <5>2. before[n] = CarriedNext(frames, before, n)
          BY <2>1, <5>1 DEF IsUpto
        <5> QED
          BY <2>2, <5>1, <5>2
      <4> QED
        BY <4>1, <4>2
    <3> QED
      BY <3>1, <3>2
  <2>4. upto = [n \in 0..(m + 1) |-> upto[n]]
    OBVIOUS
  <2> HIDE DEF upto
  <2>5. upto = [n \in 0..(m + 1) |-> CarriedNext(frames, upto, n)]
    BY <2>3, <2>4
  <2>6. IsUpto(frames, m + 1, upto)
    BY <2>5 DEF IsUpto
  <2> QED
    BY <2>6
<1> HIDE DEF S
<1>3. last \in S
  BY <1>1, <1>2, Induction
<1> QED
  BY <1>3 DEF S

\* The first frames carry the same whatever comes after them.
LEMMA UptoAgrees ==
    ASSUME NEW frames, NEW others, NEW last \in Nat, NEW further \in Nat, last <= further,
           \A n \in 1..last : frames[n] = others[n],
           NEW upto, IsUpto(frames, last, upto), NEW longer, IsUpto(others, further, longer)
    PROVE  \A n \in 0..last : upto[n] = longer[n]
<1> DEFINE S == {n \in Nat : n <= last => upto[n] = longer[n]}
<1>1. ASSUME NEW n \in 0..last
      PROVE  upto[n] = CarriedNext(frames, upto, n) /\ longer[n] = CarriedNext(others, longer, n)
  <2>1. n \in 0..further
    OBVIOUS
  <2> QED
    BY <2>1 DEF IsUpto
<1>2. 0 \in S
  BY <1>1 DEF CarriedNext
<1>3. ASSUME NEW n \in Nat, n \in S PROVE n + 1 \in S
  <2> SUFFICES ASSUME n + 1 <= last PROVE upto[n + 1] = longer[n + 1]
    OBVIOUS
  <2>1. upto[n] = longer[n] /\ n + 1 \in 0..last /\ n + 1 \in 1..last /\ n + 1 # 0 /\ (n + 1) - 1 = n
    BY <1>3
  <2>2. frames[n + 1] = others[n + 1]
    BY <2>1
  <2> DEFINE next == n + 1
  <2>3. upto[next] = CarriedNext(frames, upto, next) /\ longer[next] = CarriedNext(others, longer, next)
    BY <1>1, <2>1
  <2>4. CarriedNext(frames, upto, next) = CarriedNext(others, longer, next)
    BY <2>1, <2>2 DEF CarriedNext
  <2> QED
    BY <2>3, <2>4
<1> HIDE DEF S
<1>4. \A n \in Nat : n \in S
  BY <1>2, <1>3, Induction
<1> QED
  BY <1>4 DEF S

\* So Carried is what its definition says.
LEMMA CarriedIs ==
    ASSUME NEW frames, Len(frames) \in Nat
    PROVE  \E upto : IsUpto(frames, Len(frames), upto) /\ Carried(frames) = upto[Len(frames)]
<1> DEFINE upto[n \in 0..Len(frames)] ==
        IF n = 0 THEN <<>>
        ELSE IF Ours("DATA", frames[n]) THEN upto[n - 1] \o Content(frames[n])
        ELSE upto[n - 1]
<1>1. PICK some : IsUpto(frames, Len(frames), some)
  BY UptoExists
<1>2. upto = CHOOSE f : f = [n \in 0..Len(frames) |->
                IF n = 0 THEN <<>>
                ELSE IF Ours("DATA", frames[n]) THEN f[n - 1] \o Content(frames[n])
                ELSE f[n - 1]]
  OBVIOUS
<1>3. some = [n \in 0..Len(frames) |->
                IF n = 0 THEN <<>>
                ELSE IF Ours("DATA", frames[n]) THEN some[n - 1] \o Content(frames[n])
                ELSE some[n - 1]]
  BY <1>1 DEF IsUpto, CarriedNext
<1>4. upto = [n \in 0..Len(frames) |->
                IF n = 0 THEN <<>>
                ELSE IF Ours("DATA", frames[n]) THEN upto[n - 1] \o Content(frames[n])
                ELSE upto[n - 1]]
  BY <1>2, <1>3
<1>5. Carried(frames) = upto[Len(frames)]
  BY DEF Carried
<1> HIDE DEF upto
<1>6. IsUpto(frames, Len(frames), upto)
  BY <1>4 DEF IsUpto, CarriedNext
<1> QED
  BY <1>5, <1>6

LEMMA CarriedNothing == Carried(<<>>) = <<>>
<1>1. Len(<<>>) = 0
  OBVIOUS
<1>2. PICK upto : IsUpto(<<>>, 0, upto) /\ Carried(<<>>) = upto[0]
  BY <1>1, CarriedIs
<1> QED
  BY <1>2 DEF IsUpto, CarriedNext

LEMMA CarriedMore ==
    ASSUME NEW frames \in Seq(Frames), NEW frame \in Frames
    PROVE  Carried(Append(frames, frame)) =
               IF Ours("DATA", frame) THEN Carried(frames) \o Content(frame) ELSE Carried(frames)
<1> DEFINE more == Append(frames, frame)
           last == Len(frames)
<1>1. /\ last \in Nat /\ Len(more) = last + 1 /\ more[last + 1] = frame
      /\ \A n \in 1..last : frames[n] = more[n]
  OBVIOUS
<1> HIDE DEF more
<1>2. PICK upto : IsUpto(frames, last, upto) /\ Carried(frames) = upto[last]
  BY <1>1, CarriedIs
<1> HIDE DEF last
<1>3. PICK longer : IsUpto(more, last + 1, longer) /\ Carried(more) = longer[last + 1]
  BY <1>1, CarriedIs
<1>4. \A n \in 0..last : upto[n] = longer[n]
  <2>1. last + 1 \in Nat /\ last <= last + 1
    BY <1>1
  <2> QED
    BY <1>1, <1>2, <1>3, <2>1, UptoAgrees
<1>5. longer[last] = Carried(frames)
  BY <1>1, <1>2, <1>4
<1>6. longer[last + 1] = CarriedNext(more, longer, last + 1)
  <2>1. last + 1 \in 0..(last + 1)
    BY <1>1
  <2> QED
    BY <1>3, <2>1 DEF IsUpto
<1>7. last + 1 # 0 /\ (last + 1) - 1 = last
  BY <1>1
<1>8. CarriedNext(more, longer, last + 1) =
          IF Ours("DATA", frame) THEN Carried(frames) \o Content(frame) ELSE Carried(frames)
  BY <1>1, <1>5, <1>7 DEF CarriedNext
<1> QED
  BY <1>3, <1>6, <1>8 DEF more

-----------------------------------------------------------------------------
(* The inductive invariant.                                                *)

\* Nothing is body before the head, and the exchange lasts until the response
\* is over.
BodyInv ==
    /\ headers \in BOOLEAN /\ ended \in BOOLEAN
    /\ body \in Seq(Nat) /\ Len(body) <= MAX_BODY
    /\ body # <<>> \/ ended => headers
    /\ pc # "done" => ~ended /\ result = Pending

\* No frame has been read before the request is sent.
ReceivedInv ==
    /\ received \in Seq(Frames)
    /\ pc = "send" => received = <<>>

Inv == BodyInv /\ ReceivedInv /\ OtherStreamsAreIgnored

\* What a step of HttpResponse is, in this state.
PromiseStep ==
    /\ result = Pending
    /\ headers' \in BOOLEAN /\ (headers => headers')
    /\ ended' \in BOOLEAN /\ (ended => ended')
    /\ IsPrefix(body, body') /\ (ended => body' = body)
    /\ ended' \/ body' # <<>> => headers' /\ Len(body') <= MAX_BODY
    /\ \/ result' = Pending
       \/ result' \in {Failed(error) : error \in Errors}
       \/ ended' /\ result' = Judged(TheRequest, Decode(body'))

\* What each step that does not leave the exchange as it is does to it.
Kept ==
    /\ body' \in Seq(Nat)
    /\ pc' # "done" => ~ended' /\ result' = Pending
    /\ result' = Failed("MalformedHttp") =>
          \/ received' = <<>>
          \/ TooLong(Last(received'))
          \/ Last(received').kind \in {"GOAWAY", "PUSH_PROMISE"}
          \/ Last(received').ours /\ Last(received').kind \in {"HEADERS", "DATA", "RST_STREAM"}

\* A step that reads nothing of the response.
LEMMA StayStep ==
    ASSUME Inv, pc # "done", UNCHANGED incoming,
           NEW error \in Errors, result' = result \/ (result' = Failed(error) /\ pc' = "done"),
           result' = Failed("MalformedHttp") =>
              \/ received' = <<>>
              \/ TooLong(Last(received'))
              \/ Last(received').kind \in {"GOAWAY", "PUSH_PROMISE"}
              \/ Last(received').ours /\ Last(received').kind \in {"HEADERS", "DATA", "RST_STREAM"}
    PROVE  PromiseStep /\ Kept
<1>1. IsPrefix(body, body)
  BY SameIsPrefix DEF Inv, BodyInv
<1> QED
  BY <1>1, Outcomes DEF Inv, BodyInv, PromiseStep, Kept, incoming

\* The loop goes on, or what it returns is the judgement of the body.
LEMMA GoesOn ==
    ASSUME result = Pending, GoOn, ended' \in BOOLEAN
    PROVE  /\ result' # Failed("MalformedHttp")
           /\ result' = Pending \/ (ended' /\ result' = Judged(TheRequest, Decode(body')))
           /\ pc' # "done" => pc' = pc /\ (pc # "done" => ~ended' /\ result' = Pending)
BY JudgeIsLast, Outcomes DEF GoOn, Return

\* A frame that has been read is the last.
LEMMA ReceivesLast ==
    ASSUME Inv, NEW frame \in Frames, Receive(frame)
    PROVE  /\ Last(received') = frame /\ received' \in Seq(Frames)
           /\ result = Pending /\ ~ended /\ pc = "read"
BY DEF Inv, BodyInv, ReceivedInv, Receive, Last

\* A frame of headers.
LEMMA HeadersStep ==
    ASSUME Inv, NEW frame \in Frames, Receive(frame), Headers(frame)
    PROVE  PromiseStep /\ Kept
<1>1. /\ Last(received') = frame /\ result = Pending /\ ~ended /\ pc = "read"
      /\ frame.ours /\ frame.kind = "HEADERS"
  BY ReceivesLast DEF Headers, Ours
<1>2. IsPrefix(body, body) /\ body \in Seq(Nat) /\ headers \in BOOLEAN
  BY SameIsPrefix DEF Inv, BodyInv
<1>3. CASE Trailers(frame) \/ FinalHead(frame)
  <2>1. headers' /\ body' = body /\ GoOn /\ ended' = (END_STREAM \in frame.flags)
    BY <1>3 DEF Trailers, FinalHead
  <2>2. headers' = TRUE
    <3>1. CASE Trailers(frame)
      BY <1>2, <3>1 DEF Trailers
    <3>2. CASE FinalHead(frame)
      BY <3>2 DEF FinalHead
    <3> QED
      BY <1>3, <3>1, <3>2
  <2>3. ended' \in BOOLEAN
    BY <2>1
  <2> QED
    BY <1>1, <1>2, <2>1, <2>2, <2>3, GoesOn DEF PromiseStep, Kept, Inv, BodyInv
<1>4. CASE Interim(frame)
  BY <1>1, <1>2, <1>4, Outcomes DEF Interim, incoming, PromiseStep, Kept, Inv, BodyInv
<1>5. CASE BadHead(frame)
  <2>1. PICK error \in Errors : Return(Failed(error)) /\ UNCHANGED incoming
    BY <1>5 DEF BadHead, Malformed, Errors
  <2> QED
    BY <1>1, <2>1, StayStep DEF Return
<1> QED
  BY <1>3, <1>4, <1>5 DEF Headers

\* A frame of the body.
LEMMA DataStep ==
    ASSUME Inv, NEW frame \in Frames, Receive(frame), Data(frame)
    PROVE  PromiseStep /\ Kept
<1>1. /\ Last(received') = frame /\ result = Pending /\ ~ended /\ pc = "read"
      /\ frame.ours /\ frame.kind = "DATA"
  BY ReceivesLast DEF Data, Ours
<1>2. body \in Seq(Nat) /\ headers \in BOOLEAN
  BY DEF Inv, BodyInv
<1>3. CASE BodyAllowed(frame)
  <2>1. /\ body' = body \o Content(frame) /\ ended' \in BOOLEAN /\ headers' = headers /\ headers = TRUE
        /\ GoOn /\ Len(body) + Len(Content(frame)) <= MAX_BODY /\ ~TooShort(frame)
    BY <1>2, <1>3 DEF Data, BodyAllowed
  <2>2. Content(frame) \in Seq(Nat)
    BY <2>1, ContentType
  <2>3. body' \in Seq(Nat) /\ Len(body') <= MAX_BODY /\ IsPrefix(body, body')
    BY <1>2, <2>1, <2>2, AddedAfter
  <2> QED
    BY <1>1, <2>1, <2>3, GoesOn DEF PromiseStep, Kept
<1>4. CASE ~BodyAllowed(frame)
  <2>1. Return(Failed("MalformedHttp")) /\ UNCHANGED incoming
    BY <1>4 DEF Data, Malformed
  <2> QED
    BY <1>1, <2>1, StayStep DEF Return, Errors
<1> QED
  BY <1>3, <1>4

LEMMA StepKeeps ==
    ASSUME Inv, Next, ~UNCHANGED vars
    PROVE  /\ PromiseStep /\ Kept /\ pc # "done"
           /\ received' \in Seq(Frames) /\ pc' # "send"
<1>1. ASSUME NEW error \in Errors, Return(Failed(error)), pc # "done", UNCHANGED <<incoming, received>>,
             error = "MalformedHttp" => received = <<>>
      PROVE  PromiseStep /\ Kept /\ pc # "done" /\ received' \in Seq(Frames) /\ pc' # "send"
  BY <1>1, StayStep, Outcomes DEF Return, Inv, ReceivedInv
<1>2. CASE RequestTooLong
  <2>1. /\ Return(Failed("MalformedHttp")) /\ pc # "done" /\ received = <<>>
        /\ UNCHANGED <<incoming, received>>
    BY <1>2 DEF RequestTooLong, Malformed, Inv, ReceivedInv
  <2>2. "MalformedHttp" \in Errors
    BY DEF Errors
  <2> QED
    BY <1>1, <2>1, <2>2
<1>3. CASE SendRequest \/ SendReply
  <2>1. /\ pc # "done" /\ pc' = "read"
        /\ UNCHANGED <<incoming, received, result>>
    BY <1>3 DEF SendRequest, SendReply
  <2>2. result = Pending /\ received \in Seq(Frames)
    BY <2>1 DEF Inv, BodyInv, ReceivedInv
  <2>3. "MalformedHttp" \in Errors
    BY DEF Errors
  <2>4. PromiseStep /\ Kept
    BY <2>1, <2>2, <2>3, StayStep, Outcomes
  <2> QED
    BY <2>1, <2>2, <2>4
<1>4. CASE IoFails
  BY <1>1, <1>4, IoErrorsAssumption DEF IoFails, Errors
<1>5. CASE FrameTooLong
  <2>1. PICK frame \in Frames : Receive(frame) /\ TooLong(frame)
    BY <1>5 DEF FrameTooLong
  <2>2. Last(received') = frame /\ received' \in Seq(Frames) /\ pc = "read"
    BY <2>1, ReceivesLast
  <2> QED
    BY <1>5, <2>1, <2>2, StayStep DEF FrameTooLong, Malformed, Return, Errors
<1>6. CASE ReadFrame
  <2>1. PICK frame \in Frames :
            /\ Receive(frame)
            /\ Acknowledge(frame) \/ Stopped(frame) \/ Headers(frame) \/ Data(frame) \/ Ignore(frame)
    BY <1>6 DEF ReadFrame
  <2>2. /\ Last(received') = frame /\ received' \in Seq(Frames) /\ pc = "read" /\ result = Pending
    BY <2>1, ReceivesLast
  <2>3. CASE Acknowledge(frame) \/ Ignore(frame)
    BY <2>2, <2>3, StayStep, Outcomes DEF Acknowledge, Ignore, Errors
  <2>4. CASE Stopped(frame)
    BY <2>2, <2>4, StayStep DEF Stopped, Refuses, Malformed, Return, Errors
  <2>5. CASE Headers(frame)
    <3>1. pc' # "send"
      BY <2>2, <2>5 DEF Headers, Trailers, Interim, FinalHead, BadHead, GoOn, Malformed, Return
    <3> QED
      BY <2>1, <2>2, <2>5, <3>1, HeadersStep
  <2>6. CASE Data(frame)
    <3>1. pc' # "send"
      BY <2>2, <2>6 DEF Data, GoOn, Malformed, Return
    <3> QED
      BY <2>1, <2>2, <2>6, <3>1, DataStep
  <2> QED
    BY <2>1, <2>3, <2>4, <2>5, <2>6
<1> QED
  BY <1>2, <1>3, <1>4, <1>5, <1>6 DEF Next, Done

LEMMA InitInv == Init => Inv
<1> SUFFICES ASSUME Init PROVE Inv
  OBVIOUS
<1>1. BodyInv
  <2>1. <<>> \in Seq(Nat) /\ Len(<<>>) = 0
    OBVIOUS
  <2>2. headers = FALSE /\ ended = FALSE /\ body = <<>> /\ result = Pending
    BY DEF Init
  <2>3. body \in Seq(Nat) /\ Len(body) <= MAX_BODY
    BY <2>1, <2>2, LimitsAssumption
  <2> QED
    BY <2>2, <2>3 DEF BodyInv
<1>3. ReceivedInv
  BY DEF Init, ReceivedInv
<1>2. OtherStreamsAreIgnored
  BY Outcomes DEF Init, OtherStreamsAreIgnored
<1> QED
  BY <1>1, <1>2, <1>3 DEF Inv

LEMMA InvNext == Inv /\ [Next]_vars => Inv'
<1> SUFFICES ASSUME Inv, [Next]_vars PROVE Inv'
  OBVIOUS
<1>1. CASE UNCHANGED vars
  BY <1>1 DEF vars, incoming, Inv, BodyInv, ReceivedInv, OtherStreamsAreIgnored
<1>2. CASE Next /\ ~UNCHANGED vars
  <2>1. PromiseStep /\ Kept /\ received' \in Seq(Frames) /\ pc' # "send"
    BY <1>2, StepKeeps
  <2>2. Len(body') <= MAX_BODY
    <3>1. CASE body' = <<>>
      BY <3>1, LimitsAssumption
    <3>2. CASE body' # <<>>
      BY <2>1, <3>2 DEF PromiseStep
    <3> QED
      BY <3>1, <3>2
  <2>3. BodyInv'
    BY <2>1, <2>2 DEF PromiseStep, Kept, BodyInv
  <2>4. ReceivedInv' /\ OtherStreamsAreIgnored'
    BY <2>1 DEF Kept, ReceivedInv, OtherStreamsAreIgnored
  <2> QED
    BY <2>3, <2>4 DEF Inv
<1> QED
  BY <1>1, <1>2

LEMMA InvAlways == Spec => []Inv
BY InitInv, InvNext, PTL DEF Spec

-----------------------------------------------------------------------------
(* The whole response.                                                     *)

Part(frame) == Ours("DATA", frame) \/ Ours("HEADERS", frame)

\* The i-th frame is the head: its headers are the first final ones and say
\* 200, and no part of the body came before them.
HeadAt(frames, i) ==
    /\ Ours("HEADERS", frames[i]) /\ StatusOf(frames[i]) = 200
    /\ \A j \in 1..(i - 1) :
          /\ ~Ours("DATA", frames[j])
          /\ Ours("HEADERS", frames[j]) => StatusOf(frames[j]) \in 100..199

\* None of these frames, from the i-th to that, has ended the response.
GoesOnTo(frames, i, last) == \A j \in i..last : Part(frames[j]) => ~Ends(frames[j])

HeadInv ==
    pc # "done" =>
        IF headers THEN \E i \in 1..Len(received) : HeadAt(received, i) /\ GoesOnTo(received, i, Len(received))
        ELSE \A j \in 1..Len(received) :
                /\ ~Ours("DATA", received[j])
                /\ Ours("HEADERS", received[j]) => StatusOf(received[j]) \in 100..199

BodyIsCarried == pc # "done" => body = Carried(received)

WholeInv == HeadInv /\ BodyIsCarried /\ AnswerIsTheWholeResponse

\* An error in reading the response ends it, and there is no more to say.
LEMMA ErrorIsNoAnswer ==
    ASSUME pc' = "done", NEW error \in Errors, result' = Failed(error)
    PROVE  WholeInv'
BY DEF WholeInv, HeadInv, BodyIsCarried, AnswerIsTheWholeResponse

\* What has been said of the first frames stays so when there is another.
LEMMA EarlierStay ==
    ASSUME Inv, NEW frame \in Frames, received' = Append(received, frame)
    PROVE  /\ Len(received) \in Nat /\ Len(received') = Len(received) + 1
           /\ received'[Len(received) + 1] = frame
           /\ \A j \in 1..Len(received) : received'[j] = received[j]
           /\ \A i \in 1..Len(received) : HeadAt(received, i) => HeadAt(received', i)
           /\ \A i \in 1..Len(received) :
                 GoesOnTo(received, i, Len(received)) => GoesOnTo(received', i, Len(received))
<1>1. /\ Len(received) \in Nat /\ Len(received') = Len(received) + 1
      /\ received'[Len(received) + 1] = frame
      /\ \A j \in 1..Len(received) : received'[j] = received[j]
  BY DEF Inv, ReceivedInv
<1>2. ASSUME NEW i \in 1..Len(received), HeadAt(received, i) PROVE HeadAt(received', i)
  <2>1. received'[i] = received[i] /\ \A j \in 1..(i - 1) : received'[j] = received[j]
    BY <1>1
  <2> QED
    BY <1>2, <2>1 DEF HeadAt
<1>3. ASSUME NEW i \in 1..Len(received), GoesOnTo(received, i, Len(received))
      PROVE  GoesOnTo(received', i, Len(received))
  <2>1. \A j \in i..Len(received) : received'[j] = received[j]
    BY <1>1
  <2> QED
    BY <1>3, <2>1 DEF GoesOnTo
<1> QED
  BY <1>1, <1>2, <1>3

\* A frame of the response has been dealt with.  It ends it, or does not.
LEMMA PartStep ==
    ASSUME Inv, pc = "read", NEW frame \in Frames, received' = Append(received, frame), Part(frame),
           headers' = TRUE, ended' = Ends(frame), body' = Carried(received'), GoOn,
           NEW i \in 1..Len(received'), HeadAt(received', i), GoesOnTo(received', i, Len(received))
    PROVE  WholeInv'
<1> DEFINE last == Len(received')
<1>1. /\ last \in Nat /\ last = Len(received) + 1 /\ received'[last] = frame
      /\ DOMAIN received' = 1..last /\ i \in 1..last
  <2>1. received' \in Seq(Frames)
    BY DEF Inv, ReceivedInv
  <2> QED
    BY <2>1, EarlierStay
<1>2. \A j \in i..(last - 1) : Part(received'[j]) => ~Ends(received'[j])
  <2>1. last - 1 = Len(received) /\ Len(received) \in Nat
    BY <1>1, EarlierStay
  <2> QED
    BY <2>1 DEF GoesOnTo
<1>3. CASE Ends(frame)
  <2>1. pc' = "done" /\ result' = Judged(TheRequest, Decode(Carried(received')))
    BY <1>3 DEF GoOn, Return
  <2>2. \A j \in i..last : Part(received'[j]) /\ Ends(received'[j]) <=> j = last
    <3>1. ASSUME NEW j \in i..last, j # last PROVE ~(Part(received'[j]) /\ Ends(received'[j]))
      <4>1. j \in i..(last - 1)
        BY <1>1, <3>1
      <4> QED
        BY <1>2, <4>1
    <3>2. Part(received'[last]) /\ Ends(received'[last])
      BY <1>1, <1>3
    <3> QED
      BY <3>1, <3>2
  <2>3. /\ i \in {k \in DOMAIN received' : Final(k)'}
        /\ StatusOf(received'[i]) = 200
        /\ \A j \in 1..(i - 1) : ~Ours("DATA", received'[j])
    <3>1. Ours("HEADERS", received'[i]) /\ StatusOf(received'[i]) \notin 100..199
      BY DEF HeadAt
    <3>2. Final(i)'
      BY <3>1 DEF HeadAt, Final
    <3> QED
      BY <1>1, <3>2 DEF HeadAt
  <2>4. AnswerIsTheWholeResponse'
    BY <2>1, <2>2, <2>3, Zenon DEF AnswerIsTheWholeResponse, Part
  <2> QED
    BY <2>1, <2>4 DEF WholeInv, HeadInv, BodyIsCarried
<1>4. CASE ~Ends(frame)
  <2>1. pc' = "read" /\ result' = Pending
    BY <1>4 DEF GoOn, Inv, BodyInv
  <2>2. GoesOnTo(received', i, last)
    <3> SUFFICES ASSUME NEW j \in i..last, Part(received'[j]) PROVE ~Ends(received'[j])
      BY DEF GoesOnTo
    <3>1. CASE j = last
      BY <1>1, <1>4, <3>1
    <3>2. CASE j # last
      <4>1. j \in i..(last - 1)
        BY <1>1, <3>2
      <4> QED
        BY <1>2, <4>1
    <3> QED
      BY <3>1, <3>2
  <2>3. HeadInv'
    BY <1>1, <2>2 DEF HeadInv
  <2> QED
    BY <2>1, <2>3 DEF WholeInv, BodyIsCarried, AnswerIsTheWholeResponse
<1> QED
  BY <1>3, <1>4

\* A frame that is no part of the response leaves it as it is.
LEMMA OtherFrameStep ==
    ASSUME Inv, WholeInv, pc = "read", NEW frame \in Frames, received' = Append(received, frame),
           Part(frame) => /\ ~headers /\ Ours("HEADERS", frame) /\ ~Ours("DATA", frame)
                          /\ StatusOf(frame) \in 100..199,
           UNCHANGED incoming, result' = Pending
    PROVE  WholeInv'
<1>1. /\ Len(received) \in Nat /\ Len(received') = Len(received) + 1
      /\ received'[Len(received) + 1] = frame
      /\ \A j \in 1..Len(received) : received'[j] = received[j]
  BY EarlierStay
<1>2. headers' = headers /\ body' = body /\ headers \in BOOLEAN
  BY DEF incoming, Inv, BodyInv
<1>3. BodyIsCarried'
  <2>1. ~Ours("DATA", frame)
    BY DEF Part
  <2>2. Carried(received') = Carried(received)
    BY <2>1, CarriedMore DEF Inv, ReceivedInv
  <2> QED
    BY <1>2, <2>2 DEF WholeInv, BodyIsCarried
<1>4. CASE headers
  <2>1. PICK i \in 1..Len(received) : HeadAt(received, i) /\ GoesOnTo(received, i, Len(received))
    BY <1>4 DEF WholeInv, HeadInv
  <2>2. HeadAt(received', i) /\ GoesOnTo(received', i, Len(received)) /\ i \in 1..Len(received')
    <3>1. i \in 1..Len(received')
      BY <1>1
    <3> QED
      BY <2>1, <3>1, EarlierStay
  <2>3. ASSUME NEW j \in i..Len(received'), Part(received'[j]) PROVE ~Ends(received'[j])
    <3>1. j # Len(received')
      BY <1>1, <1>4, <2>3
    <3>2. j \in i..Len(received)
      BY <1>1, <3>1
    <3> QED
      BY <2>2, <2>3, <3>2 DEF GoesOnTo
  <2>4. GoesOnTo(received', i, Len(received'))
    BY <2>3 DEF GoesOnTo
  <2>5. HeadInv'
    BY <1>2, <1>4, <2>2, <2>4 DEF HeadInv
  <2> QED
    BY <1>3, <2>5 DEF WholeInv, AnswerIsTheWholeResponse
<1>5. CASE ~headers
  <2>1. \A j \in 1..Len(received) : /\ ~Ours("DATA", received[j])
                                    /\ Ours("HEADERS", received[j]) => StatusOf(received[j]) \in 100..199
    BY <1>5 DEF WholeInv, HeadInv
  <2>2. ~Ours("DATA", frame) /\ (Ours("HEADERS", frame) => StatusOf(frame) \in 100..199)
    BY DEF Part
  <2>3. ASSUME NEW j \in 1..Len(received')
        PROVE  ~Ours("DATA", received'[j]) /\ (Ours("HEADERS", received'[j]) => StatusOf(received'[j]) \in 100..199)
    <3>1. CASE j = Len(received) + 1
      BY <1>1, <2>2, <3>1
    <3>2. CASE j # Len(received) + 1
      <4>1. j \in 1..Len(received)
        BY <1>1, <3>2
      <4> QED
        BY <1>1, <2>1, <4>1
    <3> QED
      BY <3>1, <3>2
  <2>4. HeadInv'
    BY <1>2, <1>5, <2>3 DEF HeadInv
  <2> QED
    BY <1>3, <2>4 DEF WholeInv, AnswerIsTheWholeResponse
<1> QED
  BY <1>4, <1>5

\* A frame of headers.
LEMMA WholeHeaders ==
    ASSUME Inv, WholeInv, NEW frame \in Frames, Receive(frame), Headers(frame)
    PROVE  WholeInv'
<1>1. /\ received' = Append(received, frame) /\ pc = "read" /\ result = Pending
      /\ Part(frame) /\ Ours("HEADERS", frame) /\ ~Ours("DATA", frame)
  BY ReceivesLast DEF Receive, Headers, Part, Ours
<1>2. /\ Len(received) \in Nat /\ Len(received') = Len(received) + 1
      /\ received'[Len(received) + 1] = frame
      /\ \A j \in 1..Len(received) : received'[j] = received[j]
  BY <1>1, EarlierStay
<1>3. body = Carried(received) /\ Carried(received') = Carried(received) /\ headers \in BOOLEAN
  <2>1. Carried(received') = Carried(received)
    BY <1>1, CarriedMore DEF Inv, ReceivedInv
  <2> QED
    BY <1>1, <2>1 DEF WholeInv, BodyIsCarried, Inv, BodyInv
<1>4. CASE Trailers(frame)
  <2>1. headers /\ headers' = TRUE /\ ended' = Ends(frame) /\ body' = Carried(received') /\ GoOn
    BY <1>3, <1>4 DEF Trailers, Ends
  <2>2. PICK i \in 1..Len(received) : HeadAt(received, i) /\ GoesOnTo(received, i, Len(received))
    BY <1>1, <2>1 DEF WholeInv, HeadInv
  <2>3. i \in 1..Len(received') /\ HeadAt(received', i) /\ GoesOnTo(received', i, Len(received))
    BY <1>1, <1>2, <2>2, EarlierStay
  <2> QED
    BY <1>1, <2>1, <2>3, PartStep
<1>5. CASE Interim(frame)
  <2>1. ~headers /\ StatusOf(frame) \in 100..199 /\ UNCHANGED incoming /\ result' = Pending
    BY <1>1, <1>5 DEF Interim, Informational
  <2> QED
    BY <1>1, <2>1, OtherFrameStep
<1>6. CASE FinalHead(frame)
  <2>1. ~headers /\ StatusOf(frame) = 200 /\ headers' = TRUE /\ ended' = Ends(frame)
        /\ body' = Carried(received') /\ GoOn
    BY <1>3, <1>6 DEF FinalHead, Ends
  <2>2. \A j \in 1..Len(received) : /\ ~Ours("DATA", received[j])
                                    /\ Ours("HEADERS", received[j]) => StatusOf(received[j]) \in 100..199
    BY <1>1, <2>1 DEF WholeInv, HeadInv
  <2> DEFINE i == Len(received) + 1
  <2>3. i \in 1..Len(received') /\ received'[i] = frame /\ \A j \in 1..(i - 1) : received'[j] = received[j]
    BY <1>2
  <2>4. \A j \in 1..(i - 1) : /\ ~Ours("DATA", received'[j])
                              /\ Ours("HEADERS", received'[j]) => StatusOf(received'[j]) \in 100..199
    BY <1>2, <2>2, <2>3
  <2>5. PICK n \in 1..Len(received') : n = i
    BY <2>3
  <2>6. HeadAt(received', n)
    BY <1>1, <2>1, <2>3, <2>4, <2>5 DEF HeadAt
  <2>7. GoesOnTo(received', n, Len(received))
    BY <1>2, <2>5 DEF GoesOnTo
  <2> QED
    BY <1>1, <2>1, <2>6, <2>7, PartStep
<1>7. CASE BadHead(frame)
  <2>1. PICK error \in Errors : Return(Failed(error))
    BY <1>7 DEF BadHead, Malformed, Errors
  <2> QED
    BY <2>1, ErrorIsNoAnswer DEF Return
<1> QED
  BY <1>4, <1>5, <1>6, <1>7 DEF Headers

\* A frame of the body.
LEMMA WholeData ==
    ASSUME Inv, WholeInv, NEW frame \in Frames, Receive(frame), Data(frame)
    PROVE  WholeInv'
<1>1. /\ received' = Append(received, frame) /\ pc = "read" /\ Part(frame) /\ Ours("DATA", frame)
  BY ReceivesLast DEF Receive, Data, Part
<1>2. CASE BodyAllowed(frame)
  <2>1. headers /\ headers' = headers /\ ended' = Ends(frame) /\ body' = body \o Content(frame) /\ GoOn
    BY <1>2 DEF Data, BodyAllowed, Ends
  <2>2. headers' = TRUE
    BY <2>1 DEF Inv, BodyInv
  <2>3. body' = Carried(received')
    <3>1. body = Carried(received)
      BY <1>1 DEF WholeInv, BodyIsCarried
    <3>2. Carried(received') = Carried(received) \o Content(frame)
      BY <1>1, CarriedMore DEF Inv, ReceivedInv
    <3> QED
      BY <2>1, <3>1, <3>2
  <2>4. PICK i \in 1..Len(received) : HeadAt(received, i) /\ GoesOnTo(received, i, Len(received))
    BY <1>1, <2>1 DEF WholeInv, HeadInv
  <2>5. i \in 1..Len(received') /\ HeadAt(received', i) /\ GoesOnTo(received', i, Len(received))
    BY <1>1, <2>4, EarlierStay
  <2> QED
    BY <1>1, <2>1, <2>2, <2>3, <2>5, PartStep
<1>3. CASE ~BodyAllowed(frame)
  <2>1. "MalformedHttp" \in Errors /\ Return(Failed("MalformedHttp"))
    BY <1>3 DEF Data, Malformed, Errors
  <2> QED
    BY <2>1, ErrorIsNoAnswer DEF Return
<1> QED
  BY <1>2, <1>3

\* Every step keeps all of this.
LEMMA WholeStep ==
    ASSUME Inv, WholeInv, Next, ~UNCHANGED vars
    PROVE  WholeInv'
<1>1. pc # "done"
  BY StepKeeps
<1>2. ASSUME NEW error \in Errors, Return(Failed(error)) PROVE WholeInv'
  BY <1>2, ErrorIsNoAnswer DEF Return
<1>3. "MalformedHttp" \in Errors /\ "WrongHttpStatus" \in Errors /\ IoErrors \subseteq Errors
  BY DEF Errors
<1>4. CASE RequestTooLong \/ FrameTooLong \/ IoFails
  BY <1>2, <1>3, <1>4 DEF RequestTooLong, FrameTooLong, IoFails, Malformed
<1>5. CASE SendRequest \/ SendReply
  <2>1. UNCHANGED <<incoming, received, result>> /\ pc' = "read"
    BY <1>5 DEF SendRequest, SendReply
  <2>2. HeadInv' /\ BodyIsCarried'
    BY <1>1, <2>1 DEF WholeInv, HeadInv, BodyIsCarried, incoming
  <2>3. result' = Pending
    BY <1>1, <2>1 DEF Inv, BodyInv
  <2> QED
    BY <2>2, <2>3 DEF WholeInv, AnswerIsTheWholeResponse
<1>6. CASE ReadFrame
  <2>1. PICK frame \in Frames :
            /\ Receive(frame)
            /\ Acknowledge(frame) \/ Stopped(frame) \/ Headers(frame) \/ Data(frame) \/ Ignore(frame)
    BY <1>6 DEF ReadFrame
  <2>2. received' = Append(received, frame) /\ pc = "read" /\ result = Pending
    BY <2>1, ReceivesLast DEF Receive
  <2>3. CASE Acknowledge(frame) \/ Ignore(frame)
    <3>1. ~Part(frame) /\ UNCHANGED incoming /\ result' = Pending
      BY <2>2, <2>3 DEF Acknowledge, Ignore, NeedsReply, Part, Ours
    <3> QED
      BY <2>2, <3>1, OtherFrameStep
  <2>4. CASE Stopped(frame)
    BY <1>2, <1>3, <2>4 DEF Stopped, Malformed
  <2>5. CASE Headers(frame)
    BY <2>1, <2>2, <2>5, WholeHeaders
  <2>6. CASE Data(frame)
    BY <2>1, <2>2, <2>6, WholeData
  <2> QED
    BY <2>1, <2>3, <2>4, <2>5, <2>6
<1> QED
  BY <1>4, <1>5, <1>6 DEF Next, Done

LEMMA WholeInit == Init => WholeInv
<1> SUFFICES ASSUME Init PROVE WholeInv
  OBVIOUS
<1>1. headers = FALSE /\ body = <<>> /\ received = <<>> /\ result = Pending
  BY DEF Init
<1>2. HeadInv /\ BodyIsCarried
  BY <1>1, CarriedNothing DEF HeadInv, BodyIsCarried
<1> QED
  BY <1>1, <1>2 DEF WholeInv, AnswerIsTheWholeResponse

LEMMA WholeNext == Inv /\ WholeInv /\ [Next]_vars => WholeInv'
<1> SUFFICES ASSUME Inv, WholeInv, [Next]_vars PROVE WholeInv'
  OBVIOUS
<1>1. CASE UNCHANGED vars
  <2>1. UNCHANGED <<pc, headers, body, received, result>>
    BY <1>1 DEF vars, incoming
  <2>2. HeadInv' /\ BodyIsCarried'
    BY <2>1 DEF WholeInv, HeadInv, BodyIsCarried
  <2>3. AnswerIsTheWholeResponse'
    BY <2>1 DEF WholeInv, AnswerIsTheWholeResponse, Final
  <2> QED
    BY <2>2, <2>3 DEF WholeInv
<1> QED
  BY <1>1, WholeStep

-----------------------------------------------------------------------------
(* Replies.                                                                *)

Replies == {Reply(frame) : frame \in Frames}

\* Between the frame that asks and the reply to it, there is one reply less.
RepliesInv ==
    /\ replied \in Seq(Replies)
    /\ pc \in {"send", "read"} => Answers(Len(received))
    /\ pc = "reply" =>
          /\ received # <<>> /\ Asks(Last(received)) /\ reply = Reply(Last(received))
          /\ Answers(Len(received) - 1)

\* That the k-th reply is to the to[k]-th frame.
IsTo(to, frames, replies, n) ==
    /\ to \in [1..Len(replies) -> 1..n]
    /\ \A k \in 1..Len(replies) : replies[k] = Reply(frames[to[k]])
    /\ \A j, k \in 1..Len(replies) : j < k => to[j] < to[k]
    /\ \A i \in 1..n : Asks(frames[i]) <=> \E k \in 1..Len(replies) : to[k] = i

LEMMA AnswersAre ==
    /\ \A n : Answers(n) <=> \E to : IsTo(to, received, replied, n)
    /\ \A n : Answers(n)' <=> \E to : IsTo(to, received', replied', n)
BY DEF Answers, IsTo

LEMMA AnswersSame ==
    ASSUME UNCHANGED <<received, replied>>
    PROVE  /\ Answers(Len(received)) => Answers(Len(received))'
           /\ Answers(Len(received) - 1) => Answers(Len(received) - 1)'
<1>1. ASSUME NEW n, Answers(n) PROVE Answers(n)'
  <2>1. PICK to : IsTo(to, received, replied, n)
    BY <1>1, AnswersAre
  <2>2. IsTo(to, received', replied', n)
    BY <2>1
  <2> QED
    BY <2>2, AnswersAre
<1>2. PICK last : last = Len(received)
  OBVIOUS
<1>3. Answers(last) => Answers(last)'
  BY <1>1
<1>4. Answers(last - 1) => Answers(last - 1)'
  BY <1>1
<1>5. Len(received') = last
  BY <1>2
<1> QED
  BY <1>2, <1>3, <1>4, <1>5, AnswersAre

\* A frame more changes nothing about those before it.
LEMMA AnswersStay ==
    ASSUME Inv, NEW frame \in Frames, received' = Append(received, frame), replied' = replied,
           NEW n \in Nat, n = Len(received), Answers(n)
    PROVE  Answers(n)' /\ (~Asks(frame) => Answers(n + 1)')
<1>1. PICK to : IsTo(to, received, replied, n)
  BY AnswersAre
<1>2. /\ received'[n + 1] = frame
      /\ \A j \in 1..n : received'[j] = received[j]
  BY EarlierStay
<1>3. IsTo(to, received', replied', n)
  <2>1. \A k \in 1..Len(replied) : to[k] \in 1..n
    BY <1>1 DEF IsTo
  <2>2. \A k \in 1..Len(replied) : received'[to[k]] = received[to[k]]
    BY <1>2, <2>1
  <2> QED
    BY <1>1, <1>2, <2>2 DEF IsTo
<1>4. ASSUME ~Asks(frame) PROVE IsTo(to, received', replied', n + 1)
  <2>1. \A k \in 1..Len(replied) : to[k] \in 1..n /\ to[k] \in 1..(n + 1) /\ to[k] # n + 1
    <3>1. to \in [1..Len(replied) -> 1..n]
      BY <1>1 DEF IsTo
    <3>2. \A x \in 1..n : x \in 1..(n + 1) /\ x # n + 1
      OBVIOUS
    <3> QED
      BY <3>1, <3>2
  <2>2. to \in [1..Len(replied') -> 1..(n + 1)]
    BY <1>1, <2>1 DEF IsTo
  <2>3. ASSUME NEW i \in 1..(n + 1)
        PROVE  Asks(received'[i]) <=> \E k \in 1..Len(replied') : to[k] = i
    <3>1. CASE i = n + 1
      BY <1>2, <1>4, <2>1, <3>1
    <3>2. CASE i # n + 1
      <4>1. i \in 1..n
        BY <3>2
      <4> QED
        BY <1>3, <4>1 DEF IsTo
    <3> QED
      BY <3>1, <3>2
  <2> QED
    BY <1>3, <2>2, <2>3 DEF IsTo
<1> QED
  BY <1>3, <1>4, AnswersAre

\* The reply to the last frame that asks makes up for it.
LEMMA AnswersCatchUp ==
    ASSUME NEW n \in Nat, Answers(n), received' = received, replied \in Seq(Replies),
           Asks(received[n + 1]), NEW sent \in Replies, sent = Reply(received[n + 1]),
           replied' = Append(replied, sent)
    PROVE  Answers(n + 1)'
<1> DEFINE last == Len(replied) + 1
<1>1. PICK to : IsTo(to, received, replied, n)
  BY AnswersAre
<1>2. /\ last \in Nat \ {0} /\ Len(replied') = last /\ replied'[last] = sent
      /\ \A k \in 1..(last - 1) : replied'[k] = replied[k]
      /\ last - 1 = Len(replied)
  OBVIOUS
<1> HIDE DEF last
<1> DEFINE more == [k \in 1..last |-> IF k = last THEN n + 1 ELSE to[k]]
<1>3. \A k \in 1..(last - 1) : k \in 1..last /\ k # last /\ to[k] \in 1..n /\ more[k] = to[k]
  BY <1>1, <1>2 DEF IsTo
<1>4. last \in 1..last /\ more[last] = n + 1
  BY <1>2
<1>5. \A k \in 1..last : k = last \/ k \in 1..(last - 1)
  BY <1>2
<1>6. more \in [1..last -> 1..(n + 1)]
  <2>1. ASSUME NEW k \in 1..last PROVE more[k] \in 1..(n + 1)
    <3>1. n + 1 \in 1..(n + 1) /\ \A x \in 1..n : x \in 1..(n + 1)
      OBVIOUS
    <3> HIDE DEF more
    <3>2. CASE k = last
      BY <1>4, <3>1, <3>2
    <3>3. CASE k \in 1..(last - 1)
      BY <1>3, <3>1, <3>3
    <3> QED
      BY <1>5, <3>2, <3>3
  <2> QED
    BY <2>1
<1> HIDE DEF more
<1>7. ASSUME NEW k \in 1..last PROVE replied'[k] = Reply(received[more[k]])
  <2>1. CASE k = last
    BY <1>2, <1>4, <2>1
  <2>2. CASE k \in 1..(last - 1)
    BY <1>1, <1>2, <1>3, <2>2 DEF IsTo
  <2> QED
    BY <1>5, <2>1, <2>2
<1>8. ASSUME NEW j \in 1..last, NEW k \in 1..last, j < k PROVE more[j] < more[k]
  <2>1. j \in 1..(last - 1) /\ more[j] = to[j] /\ to[j] \in 1..n
    BY <1>2, <1>3, <1>8
  <2>2. CASE k = last
    BY <1>4, <2>1, <2>2
  <2>3. CASE k \in 1..(last - 1)
    <3>1. to[j] < to[k]
      BY <1>1, <1>2, <1>8, <2>1, <2>3 DEF IsTo
    <3> QED
      BY <1>3, <2>1, <2>3, <3>1
  <2> QED
    BY <1>5, <2>2, <2>3
<1>9. ASSUME NEW i \in 1..(n + 1)
      PROVE  Asks(received[i]) <=> \E k \in 1..last : more[k] = i
  <2>1. CASE i = n + 1
    BY <1>4, <2>1
  <2>2. CASE i # n + 1
    <3>1. i \in 1..n
      BY <2>2
    <3>2. Asks(received[i]) <=> \E k \in 1..(last - 1) : to[k] = i
      BY <1>1, <1>2, <3>1 DEF IsTo
    <3>3. (\E k \in 1..(last - 1) : to[k] = i) => \E k \in 1..last : more[k] = i
      BY <1>3
    <3>4. ASSUME NEW k \in 1..last, more[k] = i PROVE \E m \in 1..(last - 1) : to[m] = i
      <4>1. k # last
        BY <1>4, <2>2, <3>4
      <4> QED
        BY <1>3, <1>5, <3>4, <4>1
    <3> QED
      BY <3>2, <3>3, <3>4
  <2> QED
    BY <2>1, <2>2
<1>10. IsTo(more, received', replied', n + 1)
  BY <1>2, <1>6, <1>7, <1>8, <1>9 DEF IsTo
<1> QED
  BY <1>10, AnswersAre

LEMMA RepliesInit == Init => RepliesInv
<1> SUFFICES ASSUME Init PROVE RepliesInv
  OBVIOUS
<1>1. pc = "send" /\ received = <<>> /\ replied = <<>>
  BY DEF Init
<1>2. IsTo(<<>>, received, replied, 0)
  BY <1>1 DEF IsTo
<1> QED
  BY <1>1, <1>2, AnswersAre DEF RepliesInv

LEMMA RepliesNext == Inv /\ RepliesInv /\ [Next]_vars => RepliesInv'
<1> SUFFICES ASSUME Inv, RepliesInv, [Next]_vars PROVE RepliesInv'
  OBVIOUS
<1>1. CASE UNCHANGED vars
  <2>1. UNCHANGED <<pc, reply, received, replied>>
    BY <1>1 DEF vars
  <2> QED
    BY <2>1, AnswersSame DEF RepliesInv
<1>2. CASE pc' = "done" /\ replied' = replied
  BY <1>2 DEF RepliesInv
<1>3. CASE RequestTooLong \/ FrameTooLong \/ IoFails
  <2>1. pc' = "done" /\ replied' = replied
    BY <1>3 DEF RequestTooLong, FrameTooLong, IoFails, Malformed, Return, Receive
  <2> QED
    BY <1>2, <2>1
<1>4. CASE SendRequest
  <2>1. pc = "send" /\ pc' = "read" /\ received' = received /\ replied' = replied
    BY <1>4 DEF SendRequest
  <2> QED
    BY <2>1, AnswersSame DEF RepliesInv
<1>5. CASE SendReply
  <2>1. /\ pc = "reply" /\ pc' = "read" /\ received' = received
        /\ replied' = Append(replied, reply)
    BY <1>5 DEF SendReply
  <2>2. PICK n \in Nat : Len(received) = n + 1
    <3>1. Len(received) \in Nat /\ Len(received) # 0 /\ Len(received) = (Len(received) - 1) + 1
      BY <2>1 DEF RepliesInv, Inv, ReceivedInv
    <3>2. Len(received) - 1 \in Nat
      BY <3>1
    <3> QED
      BY <3>1, <3>2
  <2>3. Last(received) = received[n + 1] /\ received[n + 1] \in Frames /\ n = Len(received) - 1
    <3>1. n + 1 \in 1..Len(received) /\ n = Len(received) - 1
      BY <2>2
    <3> QED
      BY <2>2, <3>1 DEF Last, Inv, ReceivedInv
  <2>4. /\ Asks(received[n + 1]) /\ reply = Reply(received[n + 1]) /\ reply \in Replies
        /\ Answers(n) /\ replied \in Seq(Replies)
    BY <2>1, <2>3 DEF RepliesInv, Replies
  <2>5. PICK sent \in Replies : sent = reply
    BY <2>4
  <2>6. Answers(n + 1)'
    BY <2>1, <2>4, <2>5, AnswersCatchUp
  <2>7. Answers(Len(received))'
    BY <2>1, <2>2, <2>6, AnswersAre
  <2> QED
    BY <2>1, <2>4, <2>7 DEF RepliesInv
<1>6. CASE ReadFrame
  <2>1. PICK frame \in Frames :
            /\ Receive(frame)
            /\ Acknowledge(frame) \/ Stopped(frame) \/ Headers(frame) \/ Data(frame) \/ Ignore(frame)
    BY <1>6 DEF ReadFrame
  <2>2. received' = Append(received, frame) /\ pc = "read" /\ replied' = replied /\ Last(received') = frame
    BY <2>1, ReceivesLast DEF Receive
  <2>3. PICK n \in Nat : n = Len(received)
    BY DEF Inv, ReceivedInv
  <2>4. Answers(n) /\ Len(received') = n + 1 /\ received' # <<>>
    BY <2>2, <2>3, EarlierStay DEF RepliesInv
  <2>5. Answers(n)' /\ (~Asks(frame) => Answers(n + 1)')
    BY <2>2, <2>3, <2>4, AnswersStay
  <2>6. CASE Acknowledge(frame)
    <3>1. Asks(frame) /\ reply' = Reply(frame) /\ pc' = "reply"
      BY <2>6 DEF Acknowledge, NeedsReply, Asks
    <3>2. Len(received') - 1 = n
      BY <2>4
    <3>3. Answers(Len(received) - 1)'
      BY <2>5, <3>2, AnswersAre
    <3> QED
      BY <2>2, <2>4, <3>1, <3>3 DEF RepliesInv
  <2>7. CASE ~Acknowledge(frame)
    <3>1. ~Asks(frame) /\ (pc' = "read" \/ pc' = "done")
      <4>1. CASE Stopped(frame)
        BY <2>2, <4>1 DEF Stopped, Refuses, Malformed, Return, Asks
      <4>2. CASE Headers(frame)
        <5>1. ~Asks(frame)
          BY <4>2 DEF Headers, Ours, Asks
        <5> QED
          BY <2>2, <4>2, <5>1 DEF Headers, Trailers, Interim, FinalHead, BadHead, GoOn, Malformed, Return
      <4>3. CASE Data(frame)
        <5>1. ~Asks(frame)
          BY <4>3 DEF Data, Ours, Asks
        <5> QED
          BY <2>2, <4>3, <5>1 DEF Data, GoOn, Malformed, Return
      <4>4. CASE Ignore(frame)
        BY <2>2, <4>4 DEF Ignore, NeedsReply, Asks
      <4> QED
        BY <2>1, <2>7, <4>1, <4>2, <4>3, <4>4
    <3>2. Answers(Len(received))'
      BY <2>4, <2>5, <3>1, AnswersAre
    <3> QED
      BY <2>2, <3>1, <3>2 DEF RepliesInv
  <2> QED
    BY <2>6, <2>7
<1>7. CASE Done
  BY <1>1, <1>7 DEF Done
<1> QED
  BY <1>1, <1>3, <1>4, <1>5, <1>6, <1>7 DEF Next

-----------------------------------------------------------------------------
(* The theorems.                                                           *)

\* What a server does to other streams never ends the exchange, whatever
\* frames it sends and in what order (h2.rs, handle).
THEOREM OtherStreamsDoNotEndIt == Spec => []OtherStreamsAreIgnored
BY InvAlways, PTL DEF Inv

\* An answer is given only for a whole response, and is what all of it says:
\* for every sequence of frames, whatever comes in between its own (h2.rs,
\* read_body).
THEOREM AnswersAreWholeResponses == Spec => []AnswerIsTheWholeResponse
<1>1. WholeInv => AnswerIsTheWholeResponse
  BY DEF WholeInv
<1> QED
  BY <1>1, WholeInit, WholeNext, InvAlways, PTL DEF Spec

\* Settings and pings are answered, each once and in order and nothing else,
\* before another frame is read, whatever the server sends (h2.rs, handle).
THEOREM AllAreAnswered == Spec => []RepliesKeepUp
<1>1. RepliesInv => RepliesKeepUp
  BY DEF RepliesInv, RepliesKeepUp
<1> QED
  BY <1>1, RepliesInit, RepliesNext, InvAlways, PTL DEF Spec

\* The outcomes of HttpResponse are those of Messages.
LEMMA SameOutcomes ==
    /\ Promise!Pending = Pending
    /\ \A x : Promise!Failed(x) = Failed(x)
    /\ \A request, msg : Promise!Judged(request, msg) = Judged(request, msg)
<1>1. /\ Promise!Pending = Pending
      /\ \A x : Promise!Failed(x) = Failed(x) /\ Promise!Answered(x) = Answered(x)
  BY DEF Promise!Pending, Pending, Promise!Failed, Failed, Promise!Answered, Answered
<1>2. ASSUME NEW request, NEW msg
      PROVE  Promise!CheckResponse(request, msg) = CheckResponse(request, msg)
  BY DEF Promise!CheckResponse, CheckResponse, Promise!SameQuestion, SameQuestion,
         Promise!HasErrorCode, HasErrorCode
<1>3. ASSUME NEW request, NEW msg
      PROVE  Promise!Judged(request, msg) = Judged(request, msg)
  BY <1>1, <1>2 DEF Promise!Judged, Judged
<1> QED
  BY <1>1, <1>3

\* An HTTP/2 exchange does only what any exchange over HTTP may: nothing is
\* body before the head, the body only grows, and never beyond its limit, and
\* what is returned is what all of it says (h2.rs, read_body).
THEOREM Http2KeepsThePromise == Spec => ImplementsHttpResponse
<1>1. Init => Promise!Init
  BY SameOutcomes DEF Init, Promise!Init
<1>2. PromiseStep => Promise!Next
  BY SameOutcomes DEF PromiseStep, Promise!Next, Promise!IsPrefix, IsPrefix
<1>3. Inv /\ [Next]_vars => [Promise!Next]_(Promise!vars)
  BY <1>2, StepKeeps DEF vars, incoming, Promise!vars
<1> QED
  BY <1>1, <1>3, InvAlways, PTL DEF Spec, ImplementsHttpResponse, Promise!Spec

-----------------------------------------------------------------------------
(* The frames of a request.                                                *)

Http == INSTANCE HttpRequests

LEMMA Divided ==
    ASSUME NEW a \in Nat, NEW m \in Nat \ {0}
    PROVE  a \div m \in Nat /\ a % m \in 0..(m - 1) /\ a = (a \div m) * m + (a % m)
OBVIOUS

LEMMA DividedOnce ==
    ASSUME NEW m \in Nat \ {0}, NEW q \in Nat, NEW r \in 0..(m - 1), NEW a \in Nat, a = q * m + r
    PROVE  a \div m = q /\ a % m = r
OBVIOUS

LEMMA Multiples ==
    ASSUME NEW m \in Nat \ {0}, NEW n \in Nat, NEW k \in Nat, n < k
    PROVE  n * m + m <= k * m /\ n * m \in Nat /\ k * m \in Nat
OBVIOUS

LEMMA LesserOfTwo ==
    ASSUME NEW a \in Int, NEW b \in Int
    PROVE  Http!Min({a, b}) = IF a <= b THEN a ELSE b
<1> DEFINE least == IF a <= b THEN a ELSE b
           S == {a, b}
<1>1. least \in S /\ \A y \in S : least <= y
  OBVIOUS
<1>2. \A x \in S : (\A y \in S : x <= y) => x = least
  OBVIOUS
<1> HIDE DEF least, S
<1>3. Http!Min(S) = least
  BY <1>1, <1>2 DEF Http!Min
<1> QED
  BY <1>3 DEF least, S

\* How many parts there are.
LEMMA PartsAreCounted ==
    ASSUME NEW m \in Nat \ {0}, NEW length \in Nat \ {0}
    PROVE  LET count == (length + m - 1) \div m IN
           /\ count \in Nat \ {0}
           /\ (count - 1) * m \in Nat /\ (count - 1) * m < length /\ length <= (count - 1) * m + m
<1> DEFINE q == (length - 1) \div m
           r == (length - 1) % m
<1>1. q \in Nat /\ r \in 0..(m - 1) /\ length - 1 = q * m + r
  <2> DEFINE a == length - 1
  <2>1. a \in Nat
    OBVIOUS
  <2> HIDE DEF a
  <2>2. a \div m \in Nat /\ a % m \in 0..(m - 1) /\ a = (a \div m) * m + (a % m)
    BY <2>1, Divided
  <2> QED
    BY <2>2 DEF a
<1> HIDE DEF q, r
<1>2. q * m \in Nat
  BY <1>1, Multiples
<1>3. (q + 1) * m = q * m + m
  BY <1>1
<1>4. length + m - 1 = (q + 1) * m + r /\ length + m - 1 \in Nat /\ q + 1 \in Nat
  BY <1>1, <1>2, <1>3
<1>5. (length + m - 1) \div m = q + 1
  BY <1>1, <1>4, DividedOnce
<1>6. /\ q + 1 \in Nat \ {0} /\ (q + 1) - 1 = q
      /\ q * m < length /\ length <= q * m + m
  BY <1>1, <1>2
<1> QED
  BY <1>2, <1>5, <1>6

\* What a part of the message is.
LEMMA PartOfMessage ==
    ASSUME NEW S, NEW message \in Seq(S), MAX_FRAME # 0,
           NEW n \in DOMAIN Http!Chunks(message)
    PROVE  LET parts == Http!Chunks(message)
               before == (n - 1) * MAX_FRAME IN
           /\ Len(parts) \in Nat \ {0} /\ DOMAIN parts = 1..Len(parts)
           /\ before \in Nat /\ before <= Len(message)
           /\ parts[n] \in Seq(S)
           /\ \A j \in 1..Len(parts[n]) : parts[n][j] = message[before + j]
           /\ n < Len(parts) => Len(parts[n]) = MAX_FRAME
           /\ n = Len(parts) => Len(parts[n]) = Len(message) - before /\ Len(parts[n]) <= MAX_FRAME
           /\ message # <<>> => Len(parts[n]) > 0
<1> DEFINE m == MAX_FRAME
           parts == Http!Chunks(message)
           length == Len(message)
           count == IF message = <<>> THEN 1 ELSE (length + m - 1) \div m
           before == (n - 1) * m
           end == IF n * m <= length THEN n * m ELSE length
<1>1. m \in Nat \ {0} /\ length \in Nat /\ (message = <<>> <=> length = 0)
  BY LimitsAssumption
<1>2. /\ count \in Nat \ {0} /\ (count - 1) * m \in Nat
      /\ (count - 1) * m <= length /\ length <= (count - 1) * m + m
      /\ message # <<>> => (count - 1) * m < length
  <2>1. CASE message = <<>>
    BY <1>1, <2>1
  <2>2. CASE message # <<>>
    BY <1>1, <2>2, PartsAreCounted
  <2> QED
    BY <2>1, <2>2
<1>3. parts = [i \in 1..count |-> SubSeq(message, (i - 1) * m + 1, Http!Min({i * m, length}))]
  BY DEF Http!Chunks
<1> HIDE DEF count, m, length, parts
<1>4. DOMAIN parts = 1..count /\ Len(parts) = count /\ n \in 1..count
  BY <1>2, <1>3 DEF parts
<1>5. n \in Nat \ {0} /\ n - 1 \in Nat /\ count - 1 \in Nat
  BY <1>2, <1>4
<1>6. before \in Nat /\ n * m \in Nat /\ n * m = before + m
  <2>1. n * m = (n - 1) * m + m /\ (n - 1) * m \in Nat
    BY <1>1, <1>5
  <2> QED
    BY <1>1, <2>1
<1>7. n < count => n * m <= (count - 1) * m
  <2> SUFFICES ASSUME n < count PROVE n * m <= (count - 1) * m
    OBVIOUS
  <2>1. CASE n = count - 1
    BY <1>1, <1>5, <2>1
  <2>2. CASE n # count - 1
    <3>1. n < count - 1 /\ n \in Nat
      BY <1>2, <1>5, <2>2
    <3>2. n * m + m <= (count - 1) * m
      BY <1>1, <1>5, <3>1, Multiples
    <3> QED
      BY <1>1, <1>2, <1>6, <3>2
  <2> QED
    BY <2>1, <2>2
<1>8. parts[n] = SubSeq(message, before + 1, end)
  <2>1. Http!Min({n * m, length}) = end
    BY <1>1, <1>6, LesserOfTwo
  <2>2. parts[n] = SubSeq(message, (n - 1) * m + 1, Http!Min({n * m, length}))
    BY <1>3, <1>4
  <2> QED
    BY <2>1, <2>2
<1>9. n = count => before = (count - 1) * m
  BY <1>5
<1> HIDE DEF before, end
<1>10. /\ end \in Nat /\ before <= end /\ end <= length
       /\ n < count => end = before + m
       /\ n = count => end = length /\ end <= before + m
       /\ message # <<>> => before < end
  <2>1. CASE n < count
    <3>1. n * m <= length
      BY <1>1, <1>2, <1>6, <1>7, <2>1
    <3>2. end = before + m /\ end <= length
      BY <1>6, <3>1 DEF end
    <3>3. n # count
      BY <1>5, <2>1
    <3> QED
      BY <1>1, <1>6, <3>2, <3>3
  <2>2. CASE n = count
    <3>1. length <= before + m /\ before <= length /\ (message # <<>> => before < length)
      BY <1>2, <1>9, <2>2
    <3>2. length <= n * m
      BY <1>6, <3>1
    <3>3. end = length
      BY <1>1, <1>6, <3>2 DEF end
    <3> QED
      BY <1>1, <2>2, <3>1, <3>3
  <2> QED
    BY <1>2, <1>4, <2>1, <2>2
<1>11. /\ parts[n] \in Seq(S) /\ Len(parts[n]) = end - before
       /\ \A j \in 1..(end - before) : parts[n][j] = message[before + j]
  <2> DEFINE first == before + 1
             part == SubSeq(message, first, end)
  <2>1. first \in Nat \ {0} /\ first >= 1 /\ \A i \in first..end : i \in 1..length
    BY <1>1, <1>6, <1>10
  <2>2. /\ end - first + 1 = end - before
        /\ \A j \in 1..(end - before) : first + j - 1 = before + j
        /\ first <= end \/ end - before = 0
    BY <1>6, <1>10
  <2>3. \A i \in first..end : message[i] \in S
    BY <2>1 DEF length
  <2> HIDE DEF first
  <2>4. /\ part \in Seq(S) /\ Len(part) = IF first <= end THEN end - first + 1 ELSE 0
        /\ \A j \in 1..(end - first + 1) : part[j] = message[first + j - 1]
    BY <1>10, <2>1, <2>3, SubSeqProperties
  <2>5. parts[n] = part
    BY <1>8 DEF first
  <2> HIDE DEF part
  <2>6. Len(part) = end - before /\ \A j \in 1..(end - before) : part[j] = message[before + j]
    BY <1>6, <1>10, <2>1, <2>2, <2>4
  <2> QED
    BY <2>4, <2>5, <2>6
<1>12. \A j \in 1..Len(parts[n]) : parts[n][j] = message[before + j]
  BY <1>11
<1>13. /\ n < Len(parts) => Len(parts[n]) = m
       /\ n = Len(parts) => Len(parts[n]) = length - before /\ Len(parts[n]) <= m
       /\ message # <<>> => Len(parts[n]) > 0
  BY <1>1, <1>4, <1>6, <1>10, <1>11
<1>14. before <= length /\ Len(parts) \in Nat \ {0} /\ DOMAIN parts = 1..Len(parts)
  <2>1. before <= length
    BY <1>1, <1>6, <1>10
  <2> QED
    BY <1>2, <1>4, <2>1
<1> QED
  BY <1>6, <1>11, <1>12, <1>13, <1>14 DEF before, parts, m, length

\* The parts of the message are the message: of each of its bytes it is known
\* where it is, and there are no others.  All but the last are as long as a
\* frame may be, and none is longer.
LEMMA PartsAreTheMessage ==
    ASSUME NEW S, NEW message \in Seq(S), MAX_FRAME # 0
    PROVE  LET parts == Http!Chunks(message) IN
           /\ Len(parts) \in Nat \ {0} /\ DOMAIN parts = 1..Len(parts)
           /\ \A n \in 1..Len(parts) :
                 /\ parts[n] \in Seq(S) /\ Len(parts[n]) <= MAX_FRAME
                 /\ n < Len(parts) => Len(parts[n]) = MAX_FRAME
           /\ (Len(parts) - 1) * MAX_FRAME + Len(parts[Len(parts)]) = Len(message)
           /\ \A k \in 1..Len(message) :
                 LET n == ((k - 1) \div MAX_FRAME) + 1
                     j == ((k - 1) % MAX_FRAME) + 1
                 IN  n \in 1..Len(parts) /\ j \in 1..Len(parts[n]) /\ parts[n][j] = message[k]
<1> DEFINE parts == Http!Chunks(message)
           m == MAX_FRAME
           length == Len(message)
           count == Len(parts)
<1>1. m \in Nat \ {0} /\ length \in Nat
  BY LimitsAssumption
<1>2. 1 \in DOMAIN parts
  <2> DEFINE number == IF message = <<>> THEN 1 ELSE (Len(message) + MAX_FRAME - 1) \div MAX_FRAME
  <2>1. number \in Nat \ {0}
    <3>1. CASE message = <<>>
      BY <3>1
    <3>2. CASE message # <<>>
      <4>1. length # 0
        BY <3>2
      <4> QED
        BY <1>1, <3>2, <4>1, PartsAreCounted
    <3> QED
      BY <3>1, <3>2
  <2>2. DOMAIN parts = 1..number
    BY DEF Http!Chunks
  <2> HIDE DEF number
  <2> QED
    BY <2>1, <2>2
<1>3. /\ count \in Nat \ {0} /\ DOMAIN parts = 1..count
  BY <1>2, PartOfMessage
<1>4. \A n \in 1..count :
         LET before == (n - 1) * m IN
         /\ before \in Nat /\ before <= length
         /\ parts[n] \in Seq(S)
         /\ \A j \in 1..Len(parts[n]) : parts[n][j] = message[before + j]
         /\ n < count => Len(parts[n]) = m
         /\ n = count => Len(parts[n]) = length - before /\ Len(parts[n]) <= m
  <2> SUFFICES ASSUME NEW n \in DOMAIN parts
               PROVE  LET before == (n - 1) * m IN
                      /\ before \in Nat /\ before <= length
                      /\ parts[n] \in Seq(S)
                      /\ \A j \in 1..Len(parts[n]) : parts[n][j] = message[before + j]
                      /\ n < count => Len(parts[n]) = m
                      /\ n = count => Len(parts[n]) = length - before /\ Len(parts[n]) <= m
    BY <1>3
  <2> QED
    BY PartOfMessage
<1> HIDE DEF parts, m, length, count
<1>5. \A n \in 1..count : parts[n] \in Seq(S) /\ Len(parts[n]) <= m /\ (n < count => Len(parts[n]) = m)
  BY <1>1, <1>3, <1>4
<1>6. (count - 1) * m + Len(parts[count]) = length
  <2>1. count \in 1..count
    BY <1>3
  <2>2. (count - 1) * m \in Nat /\ Len(parts[count]) = length - (count - 1) * m
    BY <1>4, <2>1
  <2> DEFINE before == (count - 1) * m
  <2> HIDE DEF before
  <2>3. before \in Nat /\ Len(parts[count]) = length - before
    BY <2>2 DEF before
  <2>4. before + Len(parts[count]) = length
    BY <1>1, <2>3
  <2> QED
    BY <2>4 DEF before
<1>7. ASSUME NEW k \in 1..length
      PROVE  LET n == ((k - 1) \div m) + 1
                 j == ((k - 1) % m) + 1
             IN  n \in 1..count /\ j \in 1..Len(parts[n]) /\ parts[n][j] = message[k]
  <2> DEFINE q == (k - 1) \div m
             r == (k - 1) % m
             n == q + 1
             j == r + 1
  <2>1. q \in Nat /\ r \in 0..(m - 1) /\ k - 1 = q * m + r
    <3> DEFINE a == k - 1
    <3>1. a \in Nat
      BY <1>1
    <3> HIDE DEF a
    <3>2. a \div m \in Nat /\ a % m \in 0..(m - 1) /\ a = (a \div m) * m + (a % m)
      BY <1>1, <3>1, Divided
    <3> QED
      BY <3>2 DEF a
  <2> HIDE DEF q, r
  <2>2. q * m \in Nat /\ (n - 1) * m = q * m /\ k = q * m + j /\ j \in 1..m /\ n \in Nat \ {0}
    BY <1>1, <2>1, Multiples
  <2>3. n \in 1..count
    <3> SUFFICES ASSUME count < n PROVE FALSE
      BY <1>3, <2>2
    <3>1. count - 1 \in Nat /\ count - 1 < q
      BY <1>3, <2>1
    <3>2. (count - 1) * m + m <= q * m /\ (count - 1) * m \in Nat
      BY <1>1, <2>1, <3>1, Multiples
    <3>3. Len(parts[count]) <= m /\ Len(parts[count]) \in Nat
      BY <1>3, <1>5
    <3>4. length <= q * m
      BY <1>1, <1>6, <2>2, <3>2, <3>3
    <3> QED
      BY <1>1, <2>2, <3>4
  <2>4. j \in 1..Len(parts[n])
    <3>1. CASE n < count
      BY <1>4, <2>2, <2>3, <3>1
    <3>2. CASE n = count
      <4>1. q * m + Len(parts[n]) = length /\ Len(parts[n]) \in Nat
        BY <1>5, <1>6, <2>2, <2>3, <3>2
      <4> QED
        BY <1>1, <2>2, <4>1
    <3> QED
      BY <1>3, <2>3, <3>1, <3>2
  <2>5. parts[n][j] = message[(n - 1) * m + j]
    BY <1>4, <2>3, <2>4
  <2>6. parts[n][j] = message[k]
    BY <2>2, <2>5
  <2> QED
    BY <2>3, <2>4, <2>6 DEF q, r
<1> QED
  BY <1>3, <1>5, <1>6, <1>7 DEF parts, m, length, count

\* Each frame of a request.
LEMMA FramesAre ==
    ASSUME NEW url, NEW message \in Seq(Nat), MAX_FRAME # 0
    PROVE  LET frames == Http!RequestFrames(url, message)
               parts == Http!Chunks(message) IN
           /\ Len(frames) = 2 + Len(parts) /\ DOMAIN frames = 1..Len(frames)
           /\ frames[1] = [kind |-> "SETTINGS", stream |-> 0, flags |-> {}, payload |-> <<0, 2, 0, 0, 0, 0>>]
           /\ frames[2] = [kind |-> "HEADERS", stream |-> 1, flags |-> {Http!END_HEADERS},
                           payload |-> Http!HeaderBlock(url, Len(message))]
           /\ \A n \in 1..Len(parts) :
                 frames[2 + n] = [kind |-> "DATA", stream |-> 1,
                                  flags |-> IF n = Len(parts) THEN {Http!END_STREAM} ELSE {},
                                  payload |-> parts[n]]
<1> DEFINE frames == Http!RequestFrames(url, message)
           parts == Http!Chunks(message)
           count == Len(parts)
           settings == [kind |-> "SETTINGS", stream |-> 0, flags |-> {}, payload |-> <<0, 2, 0, 0, 0, 0>>]
           names == [kind |-> "HEADERS", stream |-> 1, flags |-> {Http!END_HEADERS},
                       payload |-> Http!HeaderBlock(url, Len(message))]
           part(n) == [kind |-> "DATA", stream |-> 1,
                       flags |-> IF n = count THEN {Http!END_STREAM} ELSE {}, payload |-> parts[n]]
           front == <<settings, names>>
           data == [n \in DOMAIN parts |-> part(n)]
           All == {settings, names} \cup {part(n) : n \in DOMAIN parts}
<1>1. count \in Nat \ {0} /\ DOMAIN parts = 1..count
  BY PartsAreTheMessage
<1>2. frames = front \o data
  BY Zenon DEF Http!RequestFrames, Http!RequestFrame
<1> HIDE DEF frames, parts, count, settings, names, part
<1>3. front \in Seq(All) /\ Len(front) = 2 /\ front[1] = settings /\ front[2] = names
  OBVIOUS
<1>4. data \in Seq(All) /\ Len(data) = count /\ \A n \in 1..count : data[n] = part(n)
  BY <1>1
<1> HIDE DEF front, data, All
<1> DEFINE both == front \o data
<1>5. /\ both \in Seq(All) /\ Len(both) = Len(front) + Len(data)
      /\ \A i \in 1..(Len(front) + Len(data)) : both[i] = IF i <= Len(front) THEN front[i] ELSE data[i - Len(front)]
  BY <1>3, <1>4, ConcatProperties
<1> HIDE DEF both
<1>6. Len(both) = 2 + count /\ DOMAIN both = 1..Len(both) /\ both[1] = settings /\ both[2] = names
  BY <1>1, <1>3, <1>4, <1>5
<1>7. ASSUME NEW n \in 1..count PROVE both[2 + n] = part(n)
  <2>1. 2 + n \in 1..(Len(front) + Len(data)) /\ ~(2 + n <= Len(front)) /\ (2 + n) - Len(front) = n
    BY <1>1, <1>3, <1>4
  <2> QED
    BY <1>4, <1>5, <2>1
<1>8. frames = both
  BY <1>2 DEF both
<1>9. /\ Len(frames) = 2 + count /\ DOMAIN frames = 1..Len(frames) /\ frames[1] = settings /\ frames[2] = names
      /\ \A n \in 1..count : frames[2 + n] = part(n)
  BY <1>6, <1>7, <1>8
<1> QED
  BY <1>9 DEF frames, parts, count, settings, names, part

\* A request over HTTP/2 (request_bytes, chunks, frame), whatever the URL and
\* the message, and however much fits into a frame: its settings, one block of
\* headers, and then the parts of the message, which are as long as a frame
\* may be but for the last; each byte of the message is in the one place where
\* a reader looks for it, and there are no more bytes than that.  The last
\* frame, and no other, ends the stream.  The request is only not sent when
\* its headers do not fit into a frame: the settings always do, being six
\* bytes where a frame has room for 16384.
THEOREM FramesCarryTheMessage ==
    ASSUME NEW url, NEW message \in Seq(Nat), MAX_FRAME >= 6
    PROVE  LET frames == Http!RequestFrames(url, message)
               last == Len(frames)
           IN  /\ last >= 3
               /\ frames[1].kind = "SETTINGS" /\ frames[1].stream = 0
               /\ frames[2].kind = "HEADERS" /\ frames[2].stream = 1
               /\ \A i \in 3..last :
                     /\ frames[i].kind = "DATA" /\ frames[i].stream = 1
                     /\ i < last => Len(frames[i].payload) = MAX_FRAME
               /\ \A i \in 1..last : Http!END_STREAM \in frames[i].flags <=> i = last
               /\ (last - 3) * MAX_FRAME + Len(frames[last].payload) = Len(message)
               /\ \A k \in 1..Len(message) :
                     frames[((k - 1) \div MAX_FRAME) + 3].payload[((k - 1) % MAX_FRAME) + 1] = message[k]
               /\ Http!CanSend(frames) <=> Len(Http!HeaderBlock(url, Len(message))) <= MAX_FRAME
<1> DEFINE frames == Http!RequestFrames(url, message)
           last == Len(frames)
           parts == Http!Chunks(message)
           count == Len(parts)
           m == MAX_FRAME
           block == Http!HeaderBlock(url, Len(message))
           settings == <<0, 2, 0, 0, 0, 0>>
<1>1. m \in Nat \ {0} /\ m >= 6 /\ MAX_FRAME # 0
  BY LimitsAssumption
<1>2. /\ count \in Nat \ {0} /\ DOMAIN parts = 1..count
      /\ \A n \in 1..count : Len(parts[n]) <= m /\ (n < count => Len(parts[n]) = m)
      /\ (count - 1) * m + Len(parts[count]) = Len(message)
  <2>1. count \in Nat \ {0} /\ DOMAIN parts = 1..count
    BY <1>1, PartsAreTheMessage
  <2>2. \A n \in 1..count : Len(parts[n]) <= m /\ (n < count => Len(parts[n]) = m)
    BY <1>1, PartsAreTheMessage
  <2>3. (count - 1) * m + Len(parts[count]) = Len(message)
    BY <1>1, PartsAreTheMessage
  <2> HIDE DEF count, m, parts
  <2> QED
    BY <2>1, <2>2, <2>3
<1>3. \A k \in 1..Len(message) :
         /\ ((k - 1) \div m) + 1 \in 1..count
         /\ parts[((k - 1) \div m) + 1][((k - 1) % m) + 1] = message[k]
  BY <1>1, PartsAreTheMessage
<1>4. /\ last = 2 + count /\ DOMAIN frames = 1..last
      /\ frames[1] = [kind |-> "SETTINGS", stream |-> 0, flags |-> {}, payload |-> settings]
      /\ frames[2] = [kind |-> "HEADERS", stream |-> 1, flags |-> {Http!END_HEADERS}, payload |-> block]
      /\ \A n \in 1..count :
            frames[2 + n] = [kind |-> "DATA", stream |-> 1,
                             flags |-> IF n = count THEN {Http!END_STREAM} ELSE {}, payload |-> parts[n]]
  BY <1>1, FramesAre
<1>5. Len(settings) = 6
  OBVIOUS
<1>6. Http!END_STREAM \notin {Http!END_HEADERS}
  BY DEF Http!END_STREAM, Http!END_HEADERS
<1> HIDE DEF frames, last, parts, count, m, block, settings
<1>7. /\ frames[1].kind = "SETTINGS" /\ frames[1].stream = 0 /\ frames[1].flags = {} /\ frames[1].payload = settings
      /\ frames[2].kind = "HEADERS" /\ frames[2].stream = 1 /\ frames[2].flags = {Http!END_HEADERS}
      /\ frames[2].payload = block
  BY <1>4
<1>8. \A n \in 1..count :
         /\ frames[2 + n].kind = "DATA" /\ frames[2 + n].stream = 1 /\ frames[2 + n].payload = parts[n]
         /\ Http!END_STREAM \in frames[2 + n].flags <=> n = count
  <2> TAKE n \in 1..count
  <2> DEFINE flags == IF n = count THEN {Http!END_STREAM} ELSE {}
  <2>1. Http!END_STREAM \in flags <=> n = count
    OBVIOUS
  <2> HIDE DEF flags
  <2>2. frames[2 + n] = [kind |-> "DATA", stream |-> 1, flags |-> flags, payload |-> parts[n]]
    BY <1>4 DEF flags
  <2> QED
    BY <2>1, <2>2
<1>9. last >= 3 /\ last - 3 = count - 1
  BY <1>2, <1>4
<1>10. \A i \in 3..last : i - 2 \in 1..count /\ 2 + (i - 2) = i
  BY <1>2, <1>4
<1>11. ASSUME NEW i \in 3..last
       PROVE  /\ frames[i].kind = "DATA" /\ frames[i].stream = 1
              /\ Len(frames[i].payload) <= m /\ (i < last => Len(frames[i].payload) = m)
              /\ Http!END_STREAM \in frames[i].flags <=> i = last
  <2> DEFINE n == i - 2
  <2>1. n \in 1..count /\ 2 + n = i /\ (i < last <=> n < count) /\ (i = last <=> n = count)
    BY <1>2, <1>4, <1>10
  <2> HIDE DEF n
  <2>2. /\ frames[i].kind = "DATA" /\ frames[i].stream = 1 /\ frames[i].payload = parts[n]
        /\ Http!END_STREAM \in frames[i].flags <=> n = count
    BY <1>8, <2>1
  <2> QED
    BY <1>2, <2>1, <2>2
<1>12. ASSUME NEW i \in 1..last PROVE Http!END_STREAM \in frames[i].flags <=> i = last
  <2>1. CASE i = 1
    BY <1>7, <1>9, <2>1
  <2>2. CASE i = 2
    BY <1>6, <1>7, <1>9, <2>2
  <2>3. CASE i \in 3..last
    BY <1>11, <2>3
  <2>4. i = 1 \/ i = 2 \/ i \in 3..last
    BY <1>2, <1>4
  <2> QED
    BY <2>1, <2>2, <2>3, <2>4
<1>13. (last - 3) * m + Len(frames[last].payload) = Len(message)
  <2>1. count \in 1..count /\ 2 + count = last
    BY <1>2, <1>4
  <2>2. frames[last].payload = parts[count]
    BY <1>8, <2>1
  <2> QED
    BY <1>2, <1>9, <2>2
<1>14. ASSUME NEW k \in 1..Len(message)
       PROVE  frames[((k - 1) \div m) + 3].payload[((k - 1) % m) + 1] = message[k]
  <2> DEFINE n == ((k - 1) \div m) + 1
             j == ((k - 1) % m) + 1
  <2>1. n \in 1..count /\ parts[n][j] = message[k]
    BY <1>3
  <2>2. 2 + n = ((k - 1) \div m) + 3
    <3> DEFINE a == k - 1
    <3>1. a \in Nat
      OBVIOUS
    <3> HIDE DEF a
    <3>2. a \div m \in Nat
      BY <1>1, <3>1, Divided
    <3>3. 2 + ((a \div m) + 1) = (a \div m) + 3
      BY <3>2
    <3> QED
      BY <3>3 DEF a
  <2> HIDE DEF n, j
  <2>3. frames[2 + n].payload = parts[n]
    BY <1>8, <2>1
  <2> QED
    BY <2>1, <2>2, <2>3 DEF j
<1>15. Http!CanSend(frames) <=> Len(block) <= m
  <2>1. Http!CanSend(frames) <=> \A i \in 1..last : Len(frames[i].payload) <= m
    BY <1>4 DEF Http!CanSend, m
  <2>2. 2 \in 1..last
    BY <1>9, <1>2, <1>4
  <2>3. ASSUME Len(block) <= m, NEW i \in 1..last PROVE Len(frames[i].payload) <= m
    <3>1. CASE i = 1
      BY <1>1, <1>5, <1>7, <3>1
    <3>2. CASE i = 2
      BY <1>7, <2>3, <3>2
    <3>3. CASE i \in 3..last
      BY <1>11, <3>3
    <3>4. i = 1 \/ i = 2 \/ i \in 3..last
      BY <1>2, <1>4
    <3> QED
      BY <3>1, <3>2, <3>3, <3>4
  <2> QED
    BY <1>7, <2>1, <2>2, <2>3
<1> QED
  BY <1>7, <1>9, <1>11, <1>12, <1>13, <1>14, <1>15 DEF frames, last, m, block

=============================================================================
