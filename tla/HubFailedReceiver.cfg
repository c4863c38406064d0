SPECIFICATION FairSpec
CONSTANTS
  t1 = t1  t2 = t2
  s1 = s1  s2 = s2  s3 = s3
  Topics = {t1}
  Subs = {s1, s2}
  TopicOf <- MCTopicOf
  Publishers = {p1}
  Callers = {c1}
  Faulty = {s1}
  NoThread = NoThread
PROPERTIES FailedIsDeactivated
CHECK_DEADLOCK FALSE
