SPECIFICATION Spec
CONSTANTS
  q1 = q1
  q2 = q2
  Queries = {q1, q2}
  Subjects = {"s1", "s2", "s3", "s4"}
  Objects = {o1, o2}
  ProcNames = {"p1", "p3", "p4"}
  Logged = {"p1", "p3"}
  NoQuery = NoQuery
  Reach <- MCReach
  ProcName <- MCProcName
INVARIANTS
  TypeOK
  FinishedAwaited
  FinishedPublished
  LostRowNeedsOrphan
  TimedOutVictimsSignalled
PROPERTIES
  StatusMonotone
  ServesLine
  QueuedJobsEnd
\* Every query posted and served, the service has nothing left to do.
CHECK_DEADLOCK FALSE
