SPECIFICATION FairSpec
CONSTANTS
  t1 = t1  t2 = t2
  s1 = s1  s2 = s2  s3 = s3
  Topics = {t1, t2}
  Subs = {s1, s2, s3}
  TopicOf <- MCTopicOf
  Publishers = {p1}
  Callers = {c1, c2}
  Faulty = {s1, s3}
  NoThread = NoThread
INVARIANTS TypeOK ChangesReplay ChangesAreNews InactiveIsDone ReceiversAreActive ClosedIsQuiet
PROPERTIES ClosedIsFinal ImplementsRegistry DoneIsRemoved CallsReturn BroadcastCompletes
CHECK_DEADLOCK FALSE
