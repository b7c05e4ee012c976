----------------------------- MODULE MCInbound ------------------------------
EXTENDS Inbound

SomeTexts == {"ping", "pong", "event", "a", "old", "ms", "", "json", "gzip", "n"}
Instants == {-1, 5, 9, 10, 99, 100, 101, 990, 999, 1000, 1005, 1100, 1101, 1200, 1201}
SomeTimes == {Absent} \cup [unit : {"s", "ms"}, instant : Instants \cup {12010}]

\* Payloads with one field missing or of another type at most, integers of too
\* many digits beside it, or with any create_time.
Sound(type) ==
  [type |-> type, missing |-> {}, wrong |-> {}, digits |-> "none", time |-> Absent]
SomeBodies ==
  UNION {{[Sound(type) EXCEPT !.missing = {field}] : field \in Fields \ {"body"}} \cup
         {[Sound(type) EXCEPT !.wrong = {field}] : field \in Fields} \cup
         {[Sound(type) EXCEPT !.time = t] : t \in SomeTimes} \cup
         {[Sound(type) EXCEPT !.digits = d, !.missing = f] :
            d \in {"body", "content"}, f \in {{}, {"message_id"}, {"content"}}} :
           type \in {"message", "card", "other"}}

Plain ==
  [seq_id |-> 1, log_id |-> 2, service |-> 1, method |-> DATA,
   headers |-> <<<<"type", "event">>, <<"trace", "a">>>>,
   payload_encoding |-> Absent, payload_type |-> Absent,
   payload |-> Sound("card"), log_id_new |-> Absent]

SomeHeaders ==
  {<<>>, <<<<"trace", "a">>>>, <<<<"type", "event">>>>,
   <<<<"type", "event">>, <<"biz_rt", "old">>, <<"trace", "a">>>>,
   <<<<"type", "event">>, <<"type", "event">>>>,
   <<<<"trace", "a">>, <<"type", "pong">>>>, <<<<"type", Absent>>>>}

\* Messages that differ from the plain one in a field or two.
SomeMessages ==
  {[Plain EXCEPT !.payload = body] : body \in SomeBodies} \cup
  {[Plain EXCEPT !.headers = h, !.method = k] :
     h \in SomeHeaders, k \in {Absent, -1, 0, 1, 2}} \cup
  {[Plain EXCEPT !.payload = p, !.payload_type = t, !.payload_encoding = e,
                 !.log_id_new = n] :
     p \in {Absent, Empty, Sound("message")}, t \in {Absent, "", "json"},
     e \in {Absent, "gzip"}, n \in {Absent, "n"}} \cup
  {[Plain EXCEPT !.seq_id = i, !.log_id = l, !.service = s] :
     i \in {Absent, 0, MaxId}, l \in {Absent, 0, MaxId},
     s \in {Absent, -MaxInt - 1, 0, MaxInt}}

SomeServices == {1, MaxInt, MaxInt + 1}
=============================================================================
