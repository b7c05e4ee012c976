CONSTANTS
  MaxId = 7
  MaxInt = 3
  Second = 10
  Threshold = 100
  LastTime = 1100
  MaxFloat = 1200
  Texts <- SomeTexts
  Messages <- SomeMessages
  Services <- SomeServices
  Absent = Absent
  Empty = Empty
SPECIFICATION Spec
CHECK_DEADLOCK FALSE
INVARIANTS
  TypeOK
  RoundTrip
  AnswerEchoesRequest
  NoPayloadEndsLoop
  TimeUnitsAgree
