SPECIFICATION FairSpec
CONSTANTS
  Clients = {c1, c2}
  Requests = {r1, r2, r3}
  NoRequest = NoRequest
  Addresses = {a1, a2}
  Name = Name
  NoHost = NoHost
  Hosts = {a1, Name}
  f1 = f1
  f2 = f2
  v1 = v1
  Fields = {f1, f2}
  Values = {v1}
  Null = Null
  Absent = Absent
  AnyValue = AnyValue
  Wants <- SetAndQuery
INVARIANTS
  TypeOK
  Serialized
  OwnState
  AnswerIsLatest
PROPERTIES
  ImplementsExchange
  RequestsEnd
