------------------------------ MODULE Inbound -------------------------------
(***************************************************************************)
(* What one connection does with the frames it receives: decode_frame and  *)
(* encode_frame (src/feishulib/protocol.py), the distinction of frames in  *)
(* _receive_loop and _handle_data (websocket.py), the parsing of an event  *)
(* (events.py), and the answer.  Delivery and FeishuWebSocket have the     *)
(* same loop with its frames reduced to their fate; this module has what   *)
(* the fate depends on.                                                    *)
(*                                                                         *)
(* A protobuf message is a record whose fields may be Absent; bytes that   *)
(* are no message end as one without its required fields does.  An event   *)
(* payload is what a JSON document amounts to: the kind of event, the      *)
(* fields that are missing, those that are empty or of another type, where *)
(* it has an integer of more digits than int() takes, and create_time.     *)
(***************************************************************************)
EXTENDS Integers, Sequences

CONSTANTS
  MaxId,      \* 2^64 - 1
  MaxInt,     \* 2^31 - 1
  Second,     \* milliseconds of a second
  Threshold,  \* create_time counts milliseconds from here on
  LastTime,   \* the last instant a datetime holds, in milliseconds
  MaxFloat,   \* the largest create_time that divides to a float
  Texts,      \* values of text fields
  Messages,   \* what may be received
  Services,   \* service_ids an endpoint may name
  Absent,     \* the value of a field that is not set; None
  Empty       \* b""

Fields == {"body", "schema", "header", "event_type", "event",
           "message", "sender", "sender_id", "message_id", "content",
           "operator", "open_id", "action", "value", "form_value"}
Optional == {"content", "form_value"}
Times == {Absent} \cup [unit : {"s", "ms"}, instant : Int]
Bodies == [type : {"message", "card", "other"}, missing : SUBSET Fields,
           wrong : SUBSET Fields, digits : {"none", "body", "content"}, time : Times]
Replies == [code : {200, 500, 503}, data : {"none", "result"}]
Events == [type : {"message", "card"}, none : SUBSET Optional,
           create_time : Int \cup {Absent}]
Pairs == {"type", "trace", "biz_rt"} \X (Texts \cup {Absent})

Message ==
  [seq_id : (0..MaxId) \cup {Absent}, log_id : (0..MaxId) \cup {Absent},
   service : (-MaxInt - 1..MaxInt) \cup {Absent},
   method : (-MaxInt - 1..MaxInt) \cup {Absent},
   headers : Seq(Pairs), payload_encoding : Texts \cup {Absent},
   payload_type : Texts \cup {Absent},
   payload : Bodies \cup Replies \cup {Empty, Absent},
   log_id_new : Texts \cup {Absent}]

ASSUME InboundAssumption ==
  /\ MaxId \in Nat /\ MaxInt \in Nat \ {0} /\ Second \in Nat \ {0}
  /\ Threshold \in Nat /\ LastTime \in Nat /\ MaxFloat \in Nat
  /\ LastTime >= Second * Threshold /\ MaxFloat >= LastTime
  /\ Messages \subseteq Message
  /\ Services \subseteq Nat \ {0}
  /\ {"ping", "ms"} \subseteq Texts
  /\ Absent \notin Int \cup Texts \cup Bodies \cup Replies \cup Message \cup Events
  /\ Empty \notin Bodies \cup Replies \cup {Absent}

VARIABLES
  phase,    \* the loop: saying hello, receiving, handling, or ended
  service,  \* _service_id
  request,  \* the message that is being handled or was last handled
  event,    \* the event its payload was parsed to, or Absent
  status,   \* the status code of the answer
  answer,   \* the message sent in answer to it, or Absent
  cause     \* why run_forever ended

vars == <<phase, service, request, event, status, answer, cause>>

------------------------------------------------------------------------------
(* Frames (protocol.py)                                                    *)

CONTROL == 0
DATA == 1

Keys(headers) == {headers[i][1] : i \in DOMAIN headers}
NoDuplicates(headers) ==
  \A i, j \in DOMAIN headers : headers[i][1] = headers[j][1] => i = j

Initialized(m) ==
  /\ Absent \notin {m.seq_id, m.log_id, m.service, m.method}
  /\ \A i \in DOMAIN m.headers : m.headers[i][2] # Absent

Decodable(m) ==
  /\ Initialized(m)
  /\ m.method \in {CONTROL, DATA}
  /\ NoDuplicates(m.headers)

decode_frame(m) ==
  [sequence_id |-> m.seq_id, log_id |-> m.log_id, service_id |-> m.service,
   method |-> m.method, headers |-> m.headers,
   payload |-> IF m.payload = Absent THEN Empty ELSE m.payload,
   payload_encoding |-> m.payload_encoding, payload_type |-> m.payload_type,
   log_id_new |-> m.log_id_new]

Encodable(f) ==
  /\ f.sequence_id \in 0..MaxId /\ f.log_id \in 0..MaxId
  /\ f.service_id \in -MaxInt - 1..MaxInt /\ f.method \in -MaxInt - 1..MaxInt

\* Mutant of encode_frame: what describes a payload is left out without one.
EncodeBarely(f) ==
  [seq_id |-> f.sequence_id, log_id |-> f.log_id, service |-> f.service_id,
   method |-> f.method, headers |-> f.headers,
   payload |-> IF f.payload = Empty THEN Absent ELSE f.payload,
   payload_encoding |-> IF f.payload = Empty THEN Absent ELSE f.payload_encoding,
   payload_type |-> IF f.payload = Empty THEN Absent ELSE f.payload_type,
   log_id_new |-> f.log_id_new]

encode_frame(f) ==
  [seq_id |-> f.sequence_id, log_id |-> f.log_id, service |-> f.service_id,
   method |-> f.method, headers |-> f.headers,
   payload |-> IF f.payload = Empty THEN Absent ELSE f.payload,
   payload_encoding |-> f.payload_encoding, payload_type |-> f.payload_type,
   log_id_new |-> f.log_id_new]

Frame(id, log, service_id, method, headers, payload) ==
  [sequence_id |-> id, log_id |-> log, service_id |-> service_id,
   method |-> method, headers |-> headers, payload |-> payload,
   payload_encoding |-> Absent, payload_type |-> Absent, log_id_new |-> Absent]

make_ping(service_id) ==
  Frame(0, 0, service_id, CONTROL, <<<<"type", "ping">>>>, Empty)

\* Mutant of Assign: headers[key] = value without a look at the others.
AssignAgain(headers, key, value) == Append(headers, <<key, value>>)

\* headers[key] = value
Assign(headers, key, value) ==
  IF key \in Keys(headers)
  THEN [i \in DOMAIN headers |->
          IF headers[i][1] = key THEN <<key, value>> ELSE headers[i]]
  ELSE Append(headers, <<key, value>>)

make_data_response(f, code, data) ==
  Frame(f.sequence_id, f.log_id, f.service_id, f.method,
        Assign(f.headers, "biz_rt", "ms"), [code |-> code, data |-> data])

------------------------------------------------------------------------------
(* Events (events.py)                                                      *)

Required(type) ==
  {"body", "schema", "header", "event_type", "event"} \cup
  CASE type = "message" -> {"message", "sender", "sender_id", "message_id"}
    [] type = "card" -> {"operator", "open_id", "action"}
    [] type = "other" -> {}

\* A card action without a value has the value {}; one that is no object is
\* refused.
Checked(type) == Required(type) \cup IF type = "card" THEN {"value"} ELSE {}

Parsable(payload) ==
  /\ payload \in Bodies
  /\ payload.type # "other"
  /\ payload.missing \cap Required(payload.type) = {}
  /\ payload.wrong \cap Checked(payload.type) = {}

\* The optional fields that have no value.
Nones(payload) == (payload.missing \cup payload.wrong) \cap Optional

\* An integer of more digits than int() takes makes json.loads raise a plain
\* ValueError: for the payload before anything is checked, for the content of
\* a message after its required fields were.
Unconvertible(payload) ==
  /\ payload \in Bodies
  /\ \/ payload.digits = "body"
     \/ /\ payload.digits = "content" /\ payload.type = "message"
        /\ Parsable(payload) /\ "content" \notin Nones(payload)

\* The number in the header.
Written(t) == IF t.unit = "s" THEN t.instant \div Second ELSE t.instant

\* Mutant of Timestamp: the threshold is that of the first millisecond count.
TimestampLate(n) == IF n > Threshold THEN n ELSE n * Second

Timestamp(n) == IF n >= Threshold THEN n ELSE n * Second

\* Mutant of TimeRaises: the try block without fromtimestamp.
TimeRaisesEarlier(t) == t # Absent /\ Timestamp(Written(t)) > LastTime

\* timestamp / 1_000 raises an OverflowError before anything can catch it.
TimeRaises(t) == t # Absent /\ Written(t) > MaxFloat

\* datetime.fromtimestamp, in milliseconds.
create_time(t) ==
  IF t = Absent THEN Absent
  ELSE IF Written(t) < 0 \/ Timestamp(Written(t)) > LastTime THEN Absent
  ELSE Timestamp(Written(t))

Event(b) ==
  [type |-> b.type, none |-> Nones(b), create_time |-> create_time(b.time)]

------------------------------------------------------------------------------
(* The loop (websocket.py)                                                 *)

Init ==
  /\ phase = "hello"
  /\ service \in Services
  /\ request = Absent /\ event = Absent /\ answer = Absent
  /\ status = 0
  /\ cause = "none"

End(why) ==
  /\ phase' = "ended" /\ cause' = why

\* The first frame of a connection is a ping.
SendHello ==
  /\ phase = "hello"
  /\ IF Encodable(make_ping(service))
     THEN phase' = "receiving" /\ UNCHANGED cause
     ELSE End("service_id")
  /\ UNCHANGED <<service, request, event, status, answer>>

\* Mutant of Respond: the loop goes on to handle what it has answered.
RespondInPlace(m, code, data) ==
  LET response == make_data_response(decode_frame(m), code, data) IN
    /\ status' = code
    /\ answer' = encode_frame(response)
    /\ UNCHANGED <<phase, cause>>

\* make_data_response, encode_frame and send.
Respond(m, code, data) ==
  LET response == make_data_response(decode_frame(m), code, data) IN
    /\ status' = code
    /\ IF Encodable(response)
       THEN /\ answer' = encode_frame(response)
            /\ phase' = "receiving"
            /\ UNCHANGED cause
       ELSE answer' = Absent /\ End("answer")

\* A frame nobody can use ends the loop, and run_forever with it.
ReceiveBadFrame(m) ==
  /\ phase = "receiving"
  /\ ~Decodable(m) \/ (m.method = DATA /\ "type" \notin Keys(m.headers))
  /\ request' = m /\ event' = Absent /\ answer' = Absent /\ status' = 0
  /\ End("frame")
  /\ UNCHANGED service

ReceiveControl(m) ==
  /\ phase = "receiving"
  /\ Decodable(m) /\ m.method = CONTROL
  /\ request' = m /\ event' = Absent /\ answer' = Absent /\ status' = 0
  /\ UNCHANGED <<phase, service, cause>>

\* A data frame: an event is dispatched, anything else dropped with a 200.
ReceiveData(m) ==
  /\ phase = "receiving"
  /\ Decodable(m) /\ m.method = DATA /\ "type" \in Keys(m.headers)
  /\ request' = m
  /\ LET payload == decode_frame(m).payload IN
       \/ /\ Unconvertible(payload)
          /\ event' = Absent /\ answer' = Absent /\ status' = 0
          /\ End("digits")
       \/ /\ ~Unconvertible(payload) /\ ~Parsable(payload)
          /\ event' = Absent
          /\ Respond(m, 200, "none")
       \/ /\ ~Unconvertible(payload) /\ Parsable(payload) /\ TimeRaises(payload.time)
          /\ event' = Absent /\ answer' = Absent /\ status' = 0
          /\ End("create_time")
       \/ /\ ~Unconvertible(payload) /\ Parsable(payload) /\ ~TimeRaises(payload.time)
          /\ event' = Event(payload)
          /\ phase' = "handling" /\ answer' = Absent /\ status' = 0
          /\ UNCHANGED cause
  /\ UNCHANGED service

\* The dispatch returns, fails or times out.
DispatchEnds ==
  /\ phase = "handling"
  /\ \/ Respond(request, 200, "none")
     \/ event.type = "card" /\ Respond(request, 200, "result")
     \/ \E code \in {500, 503} : Respond(request, code, "none")
  /\ UNCHANGED <<service, request, event>>

\* A card handler's result that json.dumps or encode refuses.
ResultRefused ==
  /\ phase = "handling" /\ event.type = "card"
  /\ End("result")
  /\ UNCHANGED <<service, request, event, status, answer>>

Next ==
  \/ SendHello
  \/ \E m \in Messages : ReceiveBadFrame(m) \/ ReceiveControl(m) \/ ReceiveData(m)
  \/ DispatchEnds \/ ResultRefused

Spec == Init /\ [][Next]_vars

------------------------------------------------------------------------------
(* Properties                                                              *)

\* The shape of the state.
TypeOK ==
  /\ phase \in {"hello", "receiving", "handling", "ended"}
  /\ service \in Services
  /\ request \in Messages \cup {Absent}
  /\ event # Absent =>
       event \in Events /\ event.create_time \in (0..LastTime) \cup {Absent}
  /\ status \in {0, 200, 500, 503}
  /\ answer # Absent => answer \in Message /\ status # 0
  /\ cause \in {"none", "service_id", "frame", "digits", "create_time", "result"}
  /\ phase = "ended" <=> cause # "none"
  /\ phase = "handling" => request # Absent /\ event # Absent /\ answer = Absent

\* A frame that was received can be sent on, and is received as the same
\* frame: empty, absent and default values survive (test_protocol.py:23).
RoundTrip ==
  request # Absent /\ Decodable(request) =>
    LET frame == decode_frame(request) IN
      /\ Encodable(frame) /\ Decodable(encode_frame(frame))
      /\ decode_frame(encode_frame(frame)) = frame

\* The server can read every answer, finds the frame it answers in it, every
\* header included, and the status code (protocol.py:97-111).
AnswerEchoesRequest ==
  answer # Absent =>
    /\ Decodable(answer)
    /\ answer.payload.code = status
    /\ <<answer.seq_id, answer.log_id, answer.service, answer.method>> =
         <<request.seq_id, request.log_id, request.service, DATA>>
    /\ Keys(answer.headers) = Keys(request.headers) \cup {"biz_rt"}
    /\ \A i \in DOMAIN request.headers :
         request.headers[i][1] # "biz_rt" =>
           \E j \in DOMAIN answer.headers : answer.headers[j] = request.headers[i]

\* No payload the server may send ends the loop: what is malformed is dropped
\* and what is well-formed handled (README.md, "dropped gracefully"), with the
\* exception of an integer of too many digits and a create_time too large for a
\* float, and unless a card handler's result cannot be encoded.
NoPayloadEndsLoop ==
  phase = "ended" /\ request # Absent =>
    \/ Absent \in {request.seq_id, request.log_id, request.service, request.method}
    \/ request.method \notin {CONTROL, DATA}
    \/ \E i \in DOMAIN request.headers :
         \/ request.headers[i][2] = Absent
         \/ request.headers[i][1] \in {request.headers[j][1] : j \in 1..i - 1}
    \/ "type" \notin Keys(request.headers)
    \/ event = Absent /\ Unconvertible(decode_frame(request).payload)
    \/ event = Absent /\ Written(request.payload.time) > MaxFloat
    \/ event # Absent /\ event.type = "card"

\* An instant is read the same whether the server counts seconds or
\* milliseconds, up to the second; milliseconds from the threshold on
\* (README.md, "Event Metadata").
TimeUnitsAgree ==
  event # Absent =>
    LET t == request.payload.time IN
      t # Absent /\ t.instant >= Threshold /\ t.instant \div Second < Threshold =>
        event.create_time = IF t.unit = "ms" THEN t.instant
                            ELSE (t.instant \div Second) * Second
==============================================================================
