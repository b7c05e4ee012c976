--------------------------- MODULE Inbound_proof ----------------------------
(***************************************************************************)
(* Proofs about Inbound, for every set of messages, every range of ids and *)
(* every reading of create_time that satisfies InboundAssumption.          *)
(***************************************************************************)
EXTENDS Inbound, TLAPS

\* A data frame that _handle_data accepts.
Usable(m) ==
  /\ m \in Messages
  /\ Decodable(m) /\ m.method = DATA /\ "type" \in Keys(m.headers)

\* An event is that of the message that is being handled; the hello is first.
Linked ==
  /\ phase = "hello" => request = Absent
  /\ event # Absent =>
       /\ Usable(request)
       /\ request.payload \in Bodies
       /\ event = Event(request.payload)

IInv == TypeOK /\ Linked /\ AnswerEchoesRequest /\ NoPayloadEndsLoop

\* An item assignment keeps keys apart and every other pair.
LEMMA AssignFacts ==
  ASSUME NEW h \in Seq(Pairs), NoDuplicates(h),
         \A i \in DOMAIN h : h[i][2] # Absent,
         NEW g, g = Assign(h, "biz_rt", "ms")
  PROVE  /\ g \in Seq(Pairs)
         /\ NoDuplicates(g)
         /\ \A i \in DOMAIN g : g[i][2] # Absent
         /\ Keys(g) = Keys(h) \cup {"biz_rt"}
         /\ \A i \in DOMAIN h : h[i][1] # "biz_rt" =>
              \E j \in DOMAIN g : g[j] = h[i]
<1>0. <<"biz_rt", "ms">> \in Pairs /\ "ms" # Absent
  BY InboundAssumption DEF InboundAssumption, Pairs
<1>1. CASE "biz_rt" \in Keys(h)
  <2>1. g = [i \in DOMAIN h |->
               IF h[i][1] = "biz_rt" THEN <<"biz_rt", "ms">> ELSE h[i]]
    BY <1>1 DEF Assign
  <2>2. DOMAIN g = DOMAIN h /\ g \in Seq(Pairs)
    <3>1. DOMAIN h = 1..Len(h) /\ Len(h) \in Nat /\ \A i \in 1..Len(h) : h[i] \in Pairs
      OBVIOUS
    <3>2. g \in [1..Len(h) -> Pairs]
      BY <2>1, <1>0, <3>1
    <3> QED
      BY <3>1, <3>2
  <2>3. \A i \in DOMAIN h : g[i][1] = h[i][1] /\ (h[i][1] # "biz_rt" => g[i] = h[i])
    BY <2>1
  <2>4. NoDuplicates(g)
    BY <2>2, <2>3 DEF NoDuplicates
  <2>5. \A i \in DOMAIN g : g[i][2] # Absent
    BY <2>1, <1>0
  <2>6. Keys(g) = Keys(h) \cup {"biz_rt"}
    BY <2>2, <2>3, <1>1 DEF Keys
  <2> QED
    BY <2>2, <2>3, <2>4, <2>5, <2>6
<1>2. CASE "biz_rt" \notin Keys(h)
  <2>1. g = Append(h, <<"biz_rt", "ms">>)
    BY <1>2 DEF Assign
  <2>2. /\ g \in Seq(Pairs) /\ DOMAIN h = 1..Len(h) /\ Len(h) \in Nat
        /\ DOMAIN g = 1..Len(h) + 1
        /\ \A i \in 1..Len(h) : g[i] = h[i]
        /\ g[Len(h) + 1] = <<"biz_rt", "ms">>
    BY <2>1, <1>0
  <2>3. \A i \in 1..Len(h) : h[i][1] # "biz_rt"
    BY <1>2, <2>2 DEF Keys
  <2>4. NoDuplicates(g)
    <3>1. SUFFICES ASSUME NEW i \in DOMAIN g, NEW j \in DOMAIN g, g[i][1] = g[j][1]
                   PROVE  i = j
      BY DEF NoDuplicates
    <3>2. CASE i \in 1..Len(h) /\ j \in 1..Len(h)
      BY <2>2, <3>1, <3>2 DEF NoDuplicates
    <3>3. g[Len(h) + 1][1] = "biz_rt"
      BY <2>2
    <3>4. CASE i = Len(h) + 1 \/ j = Len(h) + 1
      BY <2>2, <2>3, <3>1, <3>3, <3>4
    <3> QED
      BY <2>2, <3>2, <3>4
  <2>5. \A i \in DOMAIN g : g[i][2] # Absent
    BY <2>2, <1>0
  <2>6. Keys(g) = Keys(h) \cup {"biz_rt"}
    BY <2>2 DEF Keys
  <2> QED
    BY <2>2, <2>4, <2>5, <2>6
<1> QED
  BY <1>1, <1>2

\* The answer to a message that could be received can be sent and read.
LEMMA AnswerFacts ==
  ASSUME NEW m, Usable(m), NEW code \in {200, 500, 503},
         NEW data \in {"none", "result"},
         NEW r, r = make_data_response(decode_frame(m), code, data)
  PROVE  /\ Encodable(r)
         /\ encode_frame(r) \in Message
         /\ Decodable(encode_frame(r))
         /\ encode_frame(r).payload.code = code
         /\ encode_frame(r).seq_id = m.seq_id /\ encode_frame(r).log_id = m.log_id
         /\ encode_frame(r).service = m.service /\ encode_frame(r).method = DATA
         /\ encode_frame(r).headers = Assign(m.headers, "biz_rt", "ms")
<1>1. m \in Message
  BY InboundAssumption DEF InboundAssumption, Usable
<1>2. /\ m.headers \in Seq(Pairs) /\ NoDuplicates(m.headers)
      /\ \A i \in DOMAIN m.headers : m.headers[i][2] # Absent
  BY <1>1 DEF Usable, Decodable, Initialized, Message
<1>3. /\ Assign(m.headers, "biz_rt", "ms") \in Seq(Pairs)
      /\ NoDuplicates(Assign(m.headers, "biz_rt", "ms"))
      /\ \A i \in DOMAIN Assign(m.headers, "biz_rt", "ms") :
           Assign(m.headers, "biz_rt", "ms")[i][2] # Absent
  BY <1>2, AssignFacts
<1>4. /\ m.seq_id \in 0..MaxId /\ m.log_id \in 0..MaxId
      /\ m.service \in -MaxInt - 1..MaxInt /\ m.method = 1
  BY <1>1 DEF Usable, Decodable, Initialized, Message, DATA
<1>5. /\ r.sequence_id = m.seq_id /\ r.log_id = m.log_id
      /\ r.service_id = m.service /\ r.method = m.method
      /\ r.headers = Assign(m.headers, "biz_rt", "ms")
      /\ r.payload = [code |-> code, data |-> data]
      /\ r.payload_encoding = Absent /\ r.payload_type = Absent
      /\ r.log_id_new = Absent
  BY DEF make_data_response, decode_frame, Frame
<1>6. 1 \in -MaxInt - 1..MaxInt
  BY InboundAssumption DEF InboundAssumption
<1>7. [code |-> code, data |-> data] \in Replies /\ [code |-> code, data |-> data] # Empty
  BY InboundAssumption DEF InboundAssumption, Replies
<1>8. encode_frame(r) =
        [seq_id |-> m.seq_id, log_id |-> m.log_id, service |-> m.service,
         method |-> 1, headers |-> Assign(m.headers, "biz_rt", "ms"),
         payload |-> [code |-> code, data |-> data],
         payload_encoding |-> Absent, payload_type |-> Absent,
         log_id_new |-> Absent]
  BY <1>4, <1>5, <1>7 DEF encode_frame
<1>9. Absent # m.seq_id /\ Absent # m.log_id /\ Absent # m.service /\ Absent # 1
  BY <1>4, InboundAssumption DEF InboundAssumption
<1> QED
  BY <1>3, <1>4, <1>5, <1>6, <1>7, <1>8, <1>9
  DEF Encodable, Message, Decodable, Initialized, DATA

\* Any message that decodes to a frame is sent on as it was.
LEMMA SameAgain ==
  ASSUME NEW m \in Messages, Decodable(m)
  PROVE  LET frame == decode_frame(m) IN
           /\ Encodable(frame) /\ Decodable(encode_frame(frame))
           /\ decode_frame(encode_frame(frame)) = frame
<1>1. m \in Message
  BY InboundAssumption DEF InboundAssumption
<1>2. m.method \in -MaxInt - 1..MaxInt /\ m.method \in {CONTROL, DATA}
  BY InboundAssumption DEF InboundAssumption, Decodable, CONTROL, DATA
<1>3. Encodable(decode_frame(m))
  BY <1>1, <1>2 DEF Encodable, decode_frame, Decodable, Initialized, Message
<1>4. Decodable(encode_frame(decode_frame(m)))
  BY DEF Decodable, Initialized, encode_frame, decode_frame
<1>5. Empty # Absent
  BY InboundAssumption DEF InboundAssumption
<1>6. decode_frame(encode_frame(decode_frame(m))) = decode_frame(m)
  BY <1>5 DEF encode_frame, decode_frame
<1> QED
  BY <1>3, <1>4, <1>6

\* What a payload is parsed to is an event with a time in range.
LEMMA EventFacts ==
  ASSUME NEW b, Parsable(b)
  PROVE  /\ b \in Bodies
         /\ Event(b) \in Events /\ Event(b) # Absent
         /\ Event(b).create_time \in (0..LastTime) \cup {Absent}
<1>1. b \in Bodies /\ b.type \in {"message", "card"} /\ b.time \in Times
  BY DEF Parsable, Bodies
<1>2. b.time # Absent => b.time.instant \in Int /\ Written(b.time) \in Int
  BY <1>1, InboundAssumption DEF Times, Written, InboundAssumption
<1>3. ASSUME NEW n \in Int, n >= 0, Timestamp(n) <= LastTime
      PROVE  Timestamp(n) \in 0..LastTime
  <2>1. n * Second \in Int /\ n * Second >= 0
    BY <1>3, InboundAssumption DEF InboundAssumption
  <2> QED
    BY <2>1, <1>3, InboundAssumption DEF Timestamp, InboundAssumption
<1>4. ASSUME NEW n \in Int
      PROVE  Timestamp(n) \in Int /\ LastTime \in Int
  BY InboundAssumption DEF Timestamp, InboundAssumption
<1>5. create_time(b.time) \in (0..LastTime) \cup {Absent}
  <2>1. CASE b.time = Absent \/ Written(b.time) < 0 \/ Timestamp(Written(b.time)) > LastTime
    BY <2>1 DEF create_time
  <2>2. CASE b.time # Absent /\ Written(b.time) >= 0 /\ Timestamp(Written(b.time)) <= LastTime
    BY <2>2, <1>2, <1>3, <1>4 DEF create_time
  <2> QED
    BY <2>1, <2>2, <1>2, <1>4
<1>6. Event(b) \in Events
  <2>1. Nones(b) \in SUBSET Optional
    BY DEF Nones
  <2> QED
    BY <1>1, <1>5, <2>1, InboundAssumption DEF Event, Events, InboundAssumption
<1> QED
  BY <1>1, <1>5, <1>6, InboundAssumption DEF Event, InboundAssumption
------------------------------------------------------------------------------
\* An answer is made of the message it answers.
LEMMA RespondKeeps ==
  ASSUME NEW m, Usable(m), NEW code \in {200, 500, 503},
         NEW data \in {"none", "result"}, Respond(m, code, data),
         request' = m
  PROVE  /\ status' = code /\ phase' = "receiving" /\ cause' = cause
         /\ answer' \in Message
         /\ AnswerEchoesRequest'
<1> DEFINE r == make_data_response(decode_frame(m), code, data)
<1>1. /\ Encodable(r) /\ encode_frame(r) \in Message /\ Decodable(encode_frame(r))
      /\ encode_frame(r).payload.code = code
      /\ encode_frame(r).seq_id = m.seq_id /\ encode_frame(r).log_id = m.log_id
      /\ encode_frame(r).service = m.service /\ encode_frame(r).method = DATA
      /\ encode_frame(r).headers = Assign(m.headers, "biz_rt", "ms")
  BY AnswerFacts
<1>2. status' = code /\ phase' = "receiving" /\ cause' = cause /\ answer' = encode_frame(r)
  BY <1>1 DEF Respond
<1>3. /\ m.headers \in Seq(Pairs) /\ NoDuplicates(m.headers)
      /\ \A i \in DOMAIN m.headers : m.headers[i][2] # Absent
  BY InboundAssumption
  DEF InboundAssumption, Usable, Decodable, Initialized, Message
<1> HIDE DEF r
<1>4. /\ Keys(answer'.headers) = Keys(m.headers) \cup {"biz_rt"}
      /\ \A i \in DOMAIN m.headers : m.headers[i][1] # "biz_rt" =>
           \E j \in DOMAIN answer'.headers : answer'.headers[j] = m.headers[i]
  BY <1>1, <1>2, <1>3, AssignFacts
<1>5. AnswerEchoesRequest'
  BY <1>1, <1>2, <1>4 DEF AnswerEchoesRequest
<1> QED
  BY <1>1, <1>2, <1>5

\* Before anything is received there is nothing to answer.
LEMMA InitInv == Init => IInv
BY DEF Init, IInv, TypeOK, Linked, AnswerEchoesRequest, NoPayloadEndsLoop

\* A loop that goes on says nothing about payloads that end it.
LEMMA GoesOn ==
  ASSUME phase' # "ended"
  PROVE  NoPayloadEndsLoop'
BY DEF NoPayloadEndsLoop

\* A message that ends the loop by itself is no frame, or is not typed.
LEMMA BadFrameKeeps ==
  ASSUME NEW m \in Messages, IInv, ReceiveBadFrame(m)
  PROVE  IInv'
<1>1. TypeOK'
  BY DEF IInv, TypeOK, ReceiveBadFrame, End
<1>2. Linked' /\ AnswerEchoesRequest'
  BY DEF Linked, AnswerEchoesRequest, ReceiveBadFrame, End
<1>3. CASE ~NoDuplicates(m.headers)
  <2>1. PICK i \in DOMAIN m.headers, j \in DOMAIN m.headers :
          i # j /\ m.headers[i][1] = m.headers[j][1]
    BY <1>3 DEF NoDuplicates
  <2>2. m.headers \in Seq(Pairs)
    BY InboundAssumption DEF InboundAssumption, Message
  <2>3. DOMAIN m.headers = 1..Len(m.headers) /\ Len(m.headers) \in Nat
    BY <2>2
  <2>4. \E k \in DOMAIN m.headers :
          m.headers[k][1] \in {m.headers[l][1] : l \in 1..k - 1}
    <3>1. CASE i < j
      BY <2>1, <2>3, <3>1
    <3>2. CASE j < i
      BY <2>1, <2>3, <3>2
    <3> QED
      BY <2>1, <2>3, <3>1, <3>2
  <2> QED
    BY <1>1, <1>2, <2>4 DEF IInv, NoPayloadEndsLoop, ReceiveBadFrame
<1>4. CASE NoDuplicates(m.headers)
  <2>1. \/ ~Initialized(m) \/ m.method \notin {CONTROL, DATA}
        \/ "type" \notin Keys(m.headers)
    BY <1>4 DEF ReceiveBadFrame, Decodable
  <2>2. NoPayloadEndsLoop'
    BY <2>1 DEF NoPayloadEndsLoop, ReceiveBadFrame, Initialized
  <2> QED
    BY <1>1, <1>2, <2>2 DEF IInv
<1> QED
  BY <1>3, <1>4

\* A data frame is dropped, handed over, or raises.
LEMMA DataKeeps ==
  ASSUME NEW m \in Messages, IInv, ReceiveData(m)
  PROVE  IInv'
<1> DEFINE payload == decode_frame(m).payload
<1>1. Usable(m) /\ request' = m /\ service' = service /\ service \in Services
      /\ phase = "receiving" /\ cause = "none"
  BY DEF ReceiveData, Usable, IInv, TypeOK
<1>2. payload \in Bodies => payload = m.payload
  BY InboundAssumption DEF InboundAssumption, decode_frame
<1>3. CASE /\ Unconvertible(payload)
           /\ event' = Absent /\ answer' = Absent /\ status' = 0
           /\ End("digits")
  <2>1. TypeOK'
    BY <1>1, <1>3 DEF TypeOK, End
  <2>2. NoPayloadEndsLoop'
    BY <1>1, <1>3 DEF NoPayloadEndsLoop
  <2> QED
    BY <1>3, <2>1, <2>2 DEF IInv, Linked, AnswerEchoesRequest, End
<1>4. CASE ~Parsable(payload) /\ event' = Absent /\ Respond(m, 200, "none")
  <2>1. /\ status' = 200 /\ phase' = "receiving" /\ cause' = cause
        /\ answer' \in Message /\ AnswerEchoesRequest'
    BY <1>1, <1>4, RespondKeeps
  <2>2. TypeOK'
    BY <1>1, <1>4, <2>1 DEF IInv, TypeOK
  <2> QED
    BY <1>4, <2>1, <2>2, GoesOn DEF IInv, Linked
<1>5. CASE /\ Parsable(payload) /\ TimeRaises(payload.time)
           /\ event' = Absent /\ answer' = Absent /\ status' = 0
           /\ End("create_time")
  <2>1. TypeOK'
    BY <1>1, <1>5 DEF TypeOK, End
  <2>2. payload = m.payload
    BY <1>2, <1>5 DEF Parsable
  <2>3. NoPayloadEndsLoop'
    BY <1>1, <1>5, <2>2 DEF NoPayloadEndsLoop, TimeRaises
  <2> QED
    BY <1>5, <2>1, <2>3 DEF IInv, Linked, AnswerEchoesRequest, End
<1>6. CASE /\ Parsable(payload) /\ event' = Event(payload)
           /\ phase' = "handling" /\ answer' = Absent /\ status' = 0
           /\ UNCHANGED cause
  <2>1. /\ payload \in Bodies /\ Event(payload) \in Events
        /\ Event(payload) # Absent
        /\ Event(payload).create_time \in (0..LastTime) \cup {Absent}
    BY <1>6, EventFacts
  <2>2. m # Absent
    BY <1>1, InboundAssumption DEF InboundAssumption, Usable
  <2> HIDE DEF payload
  <2>3. TypeOK'
    BY <1>1, <1>6, <2>1, <2>2 DEF TypeOK
  <2>4. Linked' /\ AnswerEchoesRequest'
    BY <1>1, <1>2, <1>6, <2>1 DEF Linked, AnswerEchoesRequest
  <2> QED
    BY <1>6, <2>3, <2>4, GoesOn DEF IInv
<1> QED
  BY <1>4, <1>5, <1>6, <1>3 DEF ReceiveData

\* The answer to an event whose dispatch has ended.
LEMMA DispatchKeeps ==
  ASSUME IInv, DispatchEnds
  PROVE  IInv'
<1>1. /\ phase = "handling" /\ Usable(request) /\ cause = "none"
      /\ UNCHANGED <<service, request, event>>
  BY DEF IInv, TypeOK, Linked, DispatchEnds
<1>2. PICK code \in {200, 500, 503}, data \in {"none", "result"} :
        Respond(request, code, data)
  BY DEF DispatchEnds
<1>3. /\ status' = code /\ phase' = "receiving" /\ cause' = cause
      /\ answer' \in Message /\ AnswerEchoesRequest'
  BY <1>1, <1>2, RespondKeeps
<1>4. TypeOK'
  BY <1>1, <1>3 DEF IInv, TypeOK
<1>5. Linked'
  BY <1>1, <1>3 DEF IInv, Linked, Usable
<1> QED
  BY <1>3, <1>4, <1>5, GoesOn DEF IInv

\* Every step of the loop keeps the invariant.
LEMMA NextInv == IInv /\ [Next]_vars => IInv'
<1> SUFFICES ASSUME IInv, [Next]_vars PROVE IInv'
  OBVIOUS
<1>1. CASE SendHello
  <2>1. /\ TypeOK' /\ AnswerEchoesRequest' /\ Linked'
        /\ request' = Absent
    BY <1>1 DEF IInv, SendHello, End, TypeOK, Linked, AnswerEchoesRequest, Usable
  <2> QED
    BY <2>1 DEF IInv, NoPayloadEndsLoop
<1>2. ASSUME NEW m \in Messages, ReceiveControl(m) PROVE IInv'
  BY <1>2 DEF IInv, ReceiveControl, TypeOK, Linked, AnswerEchoesRequest, NoPayloadEndsLoop
<1>3. CASE ResultRefused
  BY <1>3 DEF IInv, ResultRefused, End, TypeOK, Linked, AnswerEchoesRequest,
    NoPayloadEndsLoop, Usable
<1>4. CASE UNCHANGED vars
  BY <1>4 DEF vars, IInv, TypeOK, Linked, AnswerEchoesRequest, NoPayloadEndsLoop, Usable
<1> QED
  BY <1>1, <1>2, <1>3, <1>4, BadFrameKeeps, DataKeeps, DispatchKeeps DEF Next

------------------------------------------------------------------------------
\* The loop's invariant holds throughout, whatever is received.
THEOREM Invariance == Spec => []IInv
BY InitInv, NextInv, PTL DEF Spec

\* Whatever the messages, the loop's state keeps its shape.
THEOREM TypeCorrect == Spec => []TypeOK
<1>1. IInv => TypeOK
  BY DEF IInv
<1> QED
  BY <1>1, Invariance, PTL

\* Every frame that was received can be sent on unchanged (protocol.py).
THEOREM FramesRoundTrip == Spec => []RoundTrip
<1>1. IInv => RoundTrip
  BY SameAgain DEF IInv, TypeOK, RoundTrip
<1> QED
  BY <1>1, Invariance, PTL

\* Every answer can be read and finds its request, whatever headers the
\* request has (protocol.py:97-111).
THEOREM AnswersEchoRequests == Spec => []AnswerEchoesRequest
<1>1. IInv => AnswerEchoesRequest
  BY DEF IInv
<1> QED
  BY <1>1, Invariance, PTL

\* Only the two named errors let a payload end the loop.
THEOREM PayloadsAreSurvived == Spec => []NoPayloadEndsLoop
<1>1. IInv => NoPayloadEndsLoop
  BY DEF IInv
<1> QED
  BY <1>1, Invariance, PTL

\* Seconds and milliseconds name the same instant, up to the second, for any
\* threshold (events.py:146-160).
THEOREM TimesAgree == Spec => []TimeUnitsAgree
<1>1. IInv => TimeUnitsAgree
  <2> SUFFICES ASSUME IInv, event # Absent, request.payload.time # Absent,
                      request.payload.time.instant >= Threshold,
                      request.payload.time.instant \div Second < Threshold
               PROVE  event.create_time =
                        IF request.payload.time.unit = "ms"
                        THEN request.payload.time.instant
                        ELSE (request.payload.time.instant \div Second) * Second
    BY DEF TimeUnitsAgree
  <2> DEFINE t == request.payload.time
             s == t.instant \div Second
  <2>1. event.create_time = create_time(t) /\ t \in Times
    BY DEF IInv, Linked, Event, Bodies
  <2>2. t.unit \in {"s", "ms"} /\ t.instant \in Int
    BY <2>1 DEF Times
  <2>3. s \in Int /\ s < Threshold
    BY <2>2, InboundAssumption DEF InboundAssumption
  <2>4. s * Second <= t.instant /\ t.instant < (s + 1) * Second /\ s >= 0
    BY <2>2, InboundAssumption DEF InboundAssumption
  <2>5. /\ (s + 1) * Second <= Threshold * Second
        /\ s * Second \in Int /\ (s + 1) * Second \in Int
    BY <2>3, InboundAssumption DEF InboundAssumption
  <2>6. t.instant <= LastTime /\ s * Second <= LastTime
    BY <2>2, <2>4, <2>5, InboundAssumption DEF InboundAssumption
  <2>7. CASE t.unit = "ms"
    <3>1. Written(t) = t.instant /\ Timestamp(t.instant) = t.instant
      BY <2>7, <2>2 DEF Written, Timestamp
    <3> QED
      BY <3>1, <2>1, <2>2, <2>6, <2>7, InboundAssumption DEF create_time, InboundAssumption
  <2>8. CASE t.unit = "s"
    <3>1. Written(t) = s /\ Timestamp(s) = s * Second
      BY <2>8, <2>3, InboundAssumption DEF Written, Timestamp, InboundAssumption
    <3> HIDE DEF s
    <3>2. ~(s < 0) /\ ~(s * Second > LastTime)
      BY <2>3, <2>4, <2>5, <2>6, InboundAssumption DEF InboundAssumption
    <3>3. create_time(t) = s * Second
      BY <3>1, <3>2 DEF create_time
    <3> QED
      BY <3>3, <2>1, <2>8 DEF s
  <2> QED
    BY <2>2, <2>7, <2>8
<1> QED
  BY <1>1, Invariance, PTL
=============================================================================
