SPECIFICATION Spec
CONSTANTS
  a = a
  b = b
  c = c
  s1 = s1
  s2 = s2
  None = None
  NoUuid = NoUuid
  Objects = {a, b, c}
  Subjects = {s1, s2}
  Inbound <- MCInbound
  Outbound <- MCOutbound
  Size = 2
  TagMod = 2
  Sinks = {"EVENT_WRITE", "EVENT_SEND"}
  DbFails = TRUE
  MaxCalls = 5
INVARIANTS
  TypeOK
  NoLostOrigin
  OriginsWereRead
  SinkRecorded
  NoStaleOrigin
\* The subjects replayed, the program ended.
CHECK_DEADLOCK FALSE
