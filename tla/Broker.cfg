SPECIFICATION FairBrokerSpec
CONSTANTS
  t1 = t1  t2 = t2
  s1 = s1  s2 = s2  s3 = s3
  Topics = {t1}
  Subs = {s1, s2}
  TopicOf <- MCTopicOf
  Publishers = {p1, p2}
  Callers = {c1, closer}
  Closer = closer
  Faulty = {s1, s2}
  NoThread = NoThread
INVARIANTS PubsFollowTopics LivePubHasCanceler
PROPERTIES ImplementsHub NoDeliveryAfterUnsub ServeEnds TopicIsServed UnusedPubEnds UnsubRuns
CHECK_DEADLOCK FALSE
