---------------------------- MODULE BrokerProofs ----------------------------
(***************************************************************************)
(* What holds of every Broker: it uses its hub as Hub specifies, so the    *)
(* theorems of HubProofs hold of it, and Serve's PUB handlers follow the   *)
(* topics of the hub.                                                      *)
(***************************************************************************)
EXTENDS Broker, HubProofs

\* A goroutine to start is one that was not started.
LEMMA FreshRunIsUnused ==
  ASSUME NEW p \in Publishers, run[p] = "unused"
  PROVE  FreshRun \in Publishers /\ run[FreshRun] = "unused"
BY DEF FreshRun

\* Every step of broker.go keeps the broker's own state of its types.
LEMMA BrokerTypeStep ==
  TypeOK /\ BrokerTypes /\ [BrokerNext]_allVars => BrokerTypes'
<1> USE ThreadsAssumption DEF BrokerTypes
<1> SUFFICES ASSUME TypeOK, BrokerTypes, [BrokerNext]_allVars
             PROVE  BrokerTypes'
  OBVIOUS
<1>1. CASE UNCHANGED brokerVars
  BY <1>1 DEF brokerVars, serveVars, pubVars, subVars
<1>2. ASSUME NEW s \in Subs,
             \/ \E r \in {"accepted", "rejected"} : TriggerSub(s, r)
             \/ EndContext(s)
             \/ TriggerUnsub(s)
      PROVE  BrokerTypes'
  BY <1>2 DEF TriggerSub, EndContext, TriggerUnsub, serveVars, pubVars
<1>3. ASSUME NEW t \in Threads, ServeReceives(t) PROVE BrokerTypes'
  BY <1>3 DEF ServeReceives, TypeOK, pubVars, subVars
<1>4. ASSUME NEW t \in Topics, ServeAdded(t) PROVE BrokerTypes'
  <2>1. got' \in Changes
    BY <1>4 DEF ServeAdded, Changes
  <2>2. CASE SkipPub(t)
    BY <1>4, <2>1, <2>2 DEF ServeAdded, pubVars, subVars
  <2>3. CASE ~SkipPub(t)
    <3>1. FreshRun \in Publishers
      BY <1>4, <2>3, FreshRunIsUnused DEF ServeAdded, TriggerPub
    <3> QED
      BY <1>4, <2>1, <2>3, <3>1 DEF ServeAdded, TriggerPub, subVars
  <2> QED
    BY <2>2, <2>3
<1>5. ASSUME NEW t \in Topics, ServeRemoved(t) PROVE BrokerTypes'
  BY <1>5 DEF ServeRemoved, CancelPub, ForgetCanceler, Changes, pubVars,
              subVars
<1>6. CASE ServeLoops \/ ServeReturns \/ ServeContextDone
  BY <1>6 DEF ServeLoops, ServeReturns, ServeContextDone, pubVars, subVars
<1>7. ASSUME NEW p \in Publishers, PubReturns(p) PROVE BrokerTypes'
  BY <1>7 DEF PubReturns, serveVars, subVars
<1>8. ASSUME NEW p \in Publishers, NEW s \in Subs, NEW err \in BOOLEAN,
             ReceivePasses(p, s) \/ ReceiveReturns(p, s, err)
      PROVE  BrokerTypes'
  BY <1>8 DEF ReceivePasses, ReceiveReturns, serveVars, pubVars
<1> QED
  BY <1>1, <1>2, <1>3, <1>4, <1>5, <1>6, <1>7, <1>8 DEF BrokerNext, allVars

\* Every step of the broker is a step of its hub or leaves the hub alone.
LEMMA HubStepOfBroker ==
  TypeOK /\ BrokerTypes /\ [BrokerNext]_allVars => [Next]_vars
<1> USE CloserAssumption, AllFaultyAssumption
<1> SUFFICES ASSUME TypeOK, BrokerTypes, [BrokerNext]_allVars
             PROVE  [Next]_vars
  OBVIOUS
<1>1. CASE HubStep
  BY <1>1 DEF HubStep, HubSubscribe, HubBroadcast, HubClose, Next, SubNext,
              CallerNext, PublisherNext
<1>2. ASSUME NEW s \in Subs, EndContext(s) PROVE [Next]_vars
  <2>1. CASE done[s]
    <3>1. done' = done
      BY <1>2, <2>1 DEF EndContext, TypeOK
    <3> QED
      BY <1>2, <3>1 DEF EndContext, vars, mapVars, lockVars, castVars
  <2>2. CASE ~done[s]
    <3>1. ContextDone(s)
      BY <1>2, <2>2 DEF EndContext, ContextDone, mapVars, lockVars, castVars
    <3> QED
      BY <3>1 DEF Next
  <2> QED
    BY <2>1, <2>2
<1>3. ASSUME NEW t \in Threads, ServeReceives(t) PROVE [Next]_vars
  BY <1>3 DEF ServeReceives, Next
<1>4. ASSUME NEW s \in Subs,
             \/ \E r \in {"accepted", "rejected"} : TriggerSub(s, r)
             \/ TriggerUnsub(s)
      PROVE  UNCHANGED vars
  BY <1>4 DEF TriggerSub, TriggerUnsub
<1>5. ASSUME NEW t \in Topics, ServeAdded(t) \/ ServeRemoved(t)
      PROVE  UNCHANGED vars
  BY <1>5 DEF ServeAdded, ServeRemoved
<1>6. CASE ServeLoops \/ ServeReturns \/ ServeContextDone
  BY <1>6 DEF ServeLoops, ServeReturns, ServeContextDone
<1>7. ASSUME NEW p \in Publishers, PubReturns(p) PROVE UNCHANGED vars
  BY <1>7 DEF PubReturns
<1>8. ASSUME NEW p \in Publishers, NEW s \in Subs, ReceivePasses(p, s)
      PROVE  UNCHANGED vars
  BY <1>8 DEF ReceivePasses
<1>9. ASSUME NEW p \in Publishers, NEW s \in Subs, NEW err \in BOOLEAN,
             ReceiveReturns(p, s, err)
      PROVE  [Next]_vars
  BY <1>9 DEF ReceiveReturns, Next
<1>10. CASE UNCHANGED allVars
  BY <1>10 DEF allVars
<1> QED
  BY <1>1, <1>2, <1>3, <1>4, <1>5, <1>6, <1>7, <1>8, <1>9, <1>10
     DEF BrokerNext

\* The state of the broker and of its hub is of its types.
THEOREM BrokerTypeCorrect == BrokerSpec => []BrokerTypeOK
<1>1. BrokerInit => TypeOK /\ BrokerTypes
  <2> SUFFICES ASSUME BrokerInit PROVE TypeOK /\ BrokerTypes
    OBVIOUS
  <2>1. TypeOK
    BY InvInit DEF BrokerInit
  <2>2. BrokerTypes
    BY DEF BrokerInit, BrokerTypes, Changes, NoChange
  <2> QED
    BY <2>1, <2>2
<1>2. TypeOK /\ BrokerTypes /\ [BrokerNext]_allVars
        => (TypeOK /\ BrokerTypes)'
  BY BrokerTypeStep, HubStepOfBroker, TypeStep
<1>3. TypeOK /\ BrokerTypes => BrokerTypeOK
  BY DEF BrokerTypeOK
<1> QED
  BY <1>1, <1>2, <1>3, PTL DEF BrokerSpec

\* The broker's hub is a Hub: every theorem of HubProofs holds of it.
THEOREM HubImplemented == BrokerSpec => ImplementsHub
<1>1. BrokerInit => Init
  BY DEF BrokerInit
<1>2. BrokerTypeOK /\ [BrokerNext]_allVars => [Next]_vars
  BY HubStepOfBroker DEF BrokerTypeOK
<1> QED
  BY BrokerTypeCorrect, <1>1, <1>2, PTL DEF BrokerSpec, ImplementsHub, Spec

-----------------------------------------------------------------------------
\* What Serve has got and worked off is what the reader of the channel knows.
FeedInv == /\ serve # "apply" => got = NoChange
           /\ Apply(Served, got) = seen

\* A canceler belongs to a handler that was started for its topic.
CancelerInv ==
  /\ \A t \in Topics : pubCancelers[t] # NoThread
       => runTopic[pubCancelers[t]] = t /\ run[pubCancelers[t]] # "unused"
  /\ \A p \in Publishers : run[p] # "unused" => runTopic[p] \in Topics

\* No step of broker.go lets the cancelers and the changes part.
LEMMA FeedStep ==
  TypeOK /\ BrokerTypes /\ FeedInv /\ [BrokerNext]_allVars => FeedInv'
<1> USE ThreadsAssumption
<1> SUFFICES ASSUME TypeOK, BrokerTypes, FeedInv, [BrokerNext]_allVars
             PROVE  FeedInv'
  OBVIOUS
<1>1. ASSUME UNCHANGED <<seen, serve, got, pubCancelers>> PROVE FeedInv'
  BY <1>1 DEF FeedInv, Served
<1>2. CASE HubStep /\ UNCHANGED brokerVars
  <2>1. UNCHANGED seen
    BY <1>2 DEF HubStep, HubSubscribe, Subscribe, Subscribed, Watch,
         Unsubscribed, Cancel, Canceled, HubClose, Close, Closed,
         HubBroadcast, Broadcast, BroadcastReturns,
         BroadcastUnsubscribes
  <2> QED
    BY <1>1, <1>2, <2>1 DEF brokerVars, serveVars, pubVars
<1>3. ASSUME NEW s \in Subs,
             \/ \E r \in {"accepted", "rejected"} : TriggerSub(s, r)
             \/ EndContext(s)
             \/ TriggerUnsub(s)
      PROVE  FeedInv'
  BY <1>1, <1>3 DEF TriggerSub, EndContext, TriggerUnsub, vars, serveVars,
                    pubVars
<1>4. ASSUME NEW t \in Threads, ServeReceives(t) PROVE FeedInv'
  BY <1>4 DEF ServeReceives, Deliver, FeedInv, Served, Apply, NoChange,
              pubVars
<1>5. ASSUME NEW t \in Topics, ServeAdded(t) PROVE FeedInv'
  <2>1. Served' = Served \cup {t}
    <3>1. CASE SkipPub(t)
      BY <1>5, <3>1 DEF ServeAdded, SkipPub, Served, pubVars
    <3>2. CASE ~SkipPub(t)
      <4>1. FreshRun \in Publishers
        BY <1>5, <3>2, FreshRunIsUnused DEF ServeAdded, TriggerPub
      <4> QED
        BY <1>5, <3>2, <4>1 DEF ServeAdded, TriggerPub, Served, BrokerTypes,
                                Threads
    <3> QED
      BY <3>1, <3>2
  <2> QED
    BY <1>5, <2>1 DEF ServeAdded, FeedInv, Apply, NoChange, Changes, vars,
                      BrokerTypes
<1>6. ASSUME NEW t \in Topics, ServeRemoved(t) PROVE FeedInv'
  <2>1. Served' = Served \ {t}
    BY <1>6 DEF ServeRemoved, CancelPub, ForgetCanceler, Served, pubVars,
                BrokerTypes
  <2> QED
    BY <1>6, <2>1 DEF ServeRemoved, FeedInv, Apply, NoChange, Changes, vars,
                      BrokerTypes
<1>7. CASE ServeLoops \/ ServeReturns \/ ServeContextDone
  BY <1>7 DEF ServeLoops, ServeReturns, ServeContextDone, FeedInv, Served,
              vars, pubVars
<1>8. ASSUME NEW p \in Publishers, PubReturns(p) PROVE FeedInv'
  BY <1>1, <1>8 DEF PubReturns, vars, serveVars
<1>9. ASSUME NEW p \in Publishers, NEW s \in Subs, NEW err \in BOOLEAN,
             ReceivePasses(p, s) \/ ReceiveReturns(p, s, err)
      PROVE  FeedInv'
  BY <1>1, <1>9 DEF ReceivePasses, ReceiveReturns, Received, vars, serveVars,
                    pubVars
<1>10. CASE UNCHANGED allVars
  BY <1>1, <1>10 DEF allVars, vars, brokerVars, serveVars, pubVars
<1> QED
  BY <1>2, <1>3, <1>4, <1>5, <1>6, <1>7, <1>8, <1>9, <1>10 DEF BrokerNext

\* For every broker, the topics with a PUB handler are those of the hub, up
\* to the changes on their way.
THEOREM PubsFollow == BrokerSpec => []PubsFollowTopics
<1>1. BrokerInit => FeedInv
  BY DEF BrokerInit, Init, FeedInv, Served, Apply, NoChange
<1>2. BrokerTypeOK /\ FeedInv /\ [BrokerNext]_allVars => FeedInv'
  BY FeedStep DEF BrokerTypeOK
<1>3. FeedInv /\ ChangesReplay => PubsFollowTopics
  BY DEF FeedInv, ChangesReplay, PubsFollowTopics
<1> QED
  BY BrokerTypeCorrect, HubImplemented, ChangesReplayed, <1>1, <1>2, <1>3,
     PTL DEF BrokerSpec, ImplementsHub

\* No step of broker.go starts a second handler that is not canceled, or
\* forgets the canceler of one.
LEMMA CancelerStep ==
  TypeOK /\ BrokerTypes /\ CancelerInv /\ LivePubHasCanceler
    /\ [BrokerNext]_allVars
    => CancelerInv' /\ LivePubHasCanceler'
<1> USE ThreadsAssumption DEF Threads, BrokerTypes, CancelerInv,
        LivePubHasCanceler
<1> SUFFICES ASSUME TypeOK, BrokerTypes, CancelerInv, LivePubHasCanceler,
                    [BrokerNext]_allVars
             PROVE  CancelerInv' /\ LivePubHasCanceler'
  OBVIOUS
<1>1. CASE UNCHANGED pubVars
  BY <1>1 DEF pubVars
<1>2. ASSUME NEW t \in Topics, ServeAdded(t)
      PROVE  CancelerInv' /\ LivePubHasCanceler'
  <2>1. CASE SkipPub(t)
    BY <1>1, <1>2, <2>1 DEF ServeAdded
  <2>2. CASE ~SkipPub(t)
    <3> DEFINE f == FreshRun
    <3>1. f \in Publishers /\ run[f] = "unused"
      BY <1>2, <2>2, FreshRunIsUnused DEF ServeAdded, TriggerPub
    <3>2. /\ pubCancelers[t] = NoThread
          /\ pubCancelers' = [pubCancelers EXCEPT ![t] = f]
          /\ run' = [run EXCEPT ![f] = "running"]
          /\ runTopic' = [runTopic EXCEPT ![f] = t]
          /\ runCanceled' = runCanceled
      BY <1>2, <2>2 DEF ServeAdded, TriggerPub, SkipPub
    <3> HIDE DEF f
    <3>3. CancelerInv'
      BY <3>1, <3>2
    <3>4. LivePubHasCanceler'
      BY <3>1, <3>2
    <3> QED
      BY <3>3, <3>4
  <2> QED
    BY <2>1, <2>2
<1>3. ASSUME NEW t \in Topics, ServeRemoved(t)
      PROVE  CancelerInv' /\ LivePubHasCanceler'
  BY <1>1, <1>3 DEF ServeRemoved, CancelPub, ForgetCanceler
<1>4. ASSUME NEW p \in Publishers, PubReturns(p)
      PROVE  CancelerInv' /\ LivePubHasCanceler'
  BY <1>4 DEF PubReturns
<1>5. ASSUME NEW s \in Subs,
             \/ \E r \in {"accepted", "rejected"} : TriggerSub(s, r)
             \/ EndContext(s)
             \/ TriggerUnsub(s)
      PROVE  UNCHANGED pubVars
  BY <1>5 DEF TriggerSub, EndContext, TriggerUnsub
<1>6. ASSUME NEW t \in Threads, ServeReceives(t) PROVE UNCHANGED pubVars
  BY <1>6 DEF ServeReceives
<1>7. CASE ServeLoops \/ ServeReturns \/ ServeContextDone
  BY <1>1, <1>7 DEF ServeLoops, ServeReturns, ServeContextDone
<1>8. CASE UNCHANGED brokerVars
  BY <1>1, <1>8 DEF brokerVars
<1>9. ASSUME NEW p \in Publishers, NEW s \in Subs, NEW err \in BOOLEAN,
             ReceivePasses(p, s) \/ ReceiveReturns(p, s, err)
      PROVE  UNCHANGED pubVars
  BY <1>9 DEF ReceivePasses, ReceiveReturns
<1> QED
  BY <1>1, <1>2, <1>3, <1>4, <1>5, <1>6, <1>7, <1>8, <1>9
     DEF BrokerNext, allVars

\* For every broker, a PUB handler that was not canceled is the one its
\* topic's canceler cancels.
THEOREM LivePubsHaveCancelers == BrokerSpec => []LivePubHasCanceler
<1>1. BrokerInit => CancelerInv /\ LivePubHasCanceler
  BY DEF BrokerInit, CancelerInv, LivePubHasCanceler
<1>2. BrokerTypeOK /\ CancelerInv /\ LivePubHasCanceler
        /\ [BrokerNext]_allVars
        => (CancelerInv /\ LivePubHasCanceler)'
  BY CancelerStep DEF BrokerTypeOK
<1> QED
  BY BrokerTypeCorrect, <1>1, <1>2, PTL DEF BrokerSpec

-----------------------------------------------------------------------------
\* The context of a subscription in the hub, or not yet in it, is done only
\* because cctx is; the UNSUB handler runs after the context is done, and no
\* subscription gets to the hub before its SUB handler has accepted it.
ContextInv ==
  /\ \A s \in Subs : done[s] /\ (Active(s) \/ ~Registered(s)) => cctx[s]
  /\ \A s \in Subs : handler[s] = "over" => done[s]
  /\ \A s \in Subs : handler[s] \in {"none", "rejected"} => pc[s] = "idle"

\* The hub ends the context of a subscription only by taking it out.
LEMMA ContextStepOfHub ==
  ASSUME TypeOK, LockInv, MapInv, BrokerTypes, ContextInv,
         HubStep, UNCHANGED brokerVars
  PROVE  ContextInv'
<1> USE TopicOfAssumption, ThreadsAssumption
    DEF Threads, TypeOK, BrokerTypes, ContextInv, Active, Registered,
        brokerVars, subVars, mapVars, castVars
<1>1. ASSUME NEW s \in Subs, HubSubscribe(s) \/ Watch(s) PROVE ContextInv'
  BY <1>1 DEF HubSubscribe, Subscribe, Watch, Lock, Goto
<1>2. ASSUME NEW s \in Subs, Subscribed(s) PROVE ContextInv'
  <2>1. CASE WritePanics
    BY <1>2, <2>1 DEF Subscribed, Goto
  <2>2. CASE ~WritePanics
    BY <1>2, <2>2 DEF Subscribed, SendOrReturn, Goto
  <2> QED
    BY <2>1, <2>2
<1>3. ASSUME NEW s \in Subs, Unsubscribed(s) PROVE ContextInv'
  BY <1>3 DEF Unsubscribed, Batch, SendOrReturn, Goto, AfterUnsubscribe
<1>4. ASSUME NEW p \in Publishers PROVE ~Unsubscribed(p)
  BY DEF Unsubscribed, Granted, LockInv
<1>5. ASSUME NEW c \in Callers, \E T \in SUBSET Topics : Cancel(c, T)
      PROVE  ContextInv'
  BY <1>5 DEF Cancel, Lock, Goto
<1>6. ASSUME NEW c \in Callers, Canceled(c) PROVE ContextInv'
  <2>1. /\ done' = CancelAll(cancelArg[c])
        /\ members' = [t \in Topics |-> IF t \in cancelArg[c] THEN {}
                                          ELSE members[t]]
        /\ \A s \in Subs : pc'[s] = pc[s]
    BY <1>6 DEF Canceled, SendOrReturn, Goto
  <2>2. ASSUME NEW s \in Subs, done'[s], (Active(s) \/ ~Registered(s))'
        PROVE  done[s] /\ (Active(s) \/ ~Registered(s))
    BY <2>1, <2>2 DEF CancelAll, MapInv, MemberInv
  <2> QED
    BY <2>1, <2>2 DEF CancelAll
<1>7. CASE HubClose
  BY <1>7, CloserAssumption DEF HubClose, Close, Lock, Goto
<1>8. CASE Closed(Closer)
  BY <1>8, CloserAssumption DEF Closed, CancelAll, Goto, MapInv, MemberInv
<1>9. ASSUME NEW p \in Publishers,
             \/ \E t \in Topics : HubBroadcast(p, t)
             \/ BroadcastReturns(p)
             \/ BroadcastUnsubscribes(p)
      PROVE  ContextInv'
  BY <1>9 DEF HubBroadcast, Broadcast, BroadcastReturns,
              BroadcastUnsubscribes, Lock, Goto
<1> QED
  BY <1>1, <1>2, <1>3, <1>4, <1>5, <1>6, <1>7, <1>8, <1>9 DEF HubStep

\* No step of broker.go ends the hub's context without cctx.
LEMMA ContextStep ==
  TypeOK /\ LockInv /\ MapInv /\ BrokerTypes /\ ContextInv
    /\ [BrokerNext]_allVars => ContextInv'
<1> SUFFICES ASSUME TypeOK, LockInv, MapInv, BrokerTypes, ContextInv,
                    [BrokerNext]_allVars
             PROVE  ContextInv'
  OBVIOUS
<1>1. ASSUME UNCHANGED <<members, pc, done, handler, cctx>> PROVE ContextInv'
  BY <1>1 DEF ContextInv, Active, Registered
<1> USE ThreadsAssumption
    DEF TypeOK, BrokerTypes, ContextInv, Active, Registered, vars, mapVars,
        serveVars, pubVars, subVars
<1>2. ASSUME NEW s \in Subs,
             \/ \E r \in {"accepted", "rejected"} : TriggerSub(s, r)
             \/ EndContext(s)
             \/ TriggerUnsub(s)
      PROVE  ContextInv'
  BY <1>2 DEF TriggerSub, EndContext, TriggerUnsub, HasReturned
<1>3. ASSUME NEW t \in Threads, ServeReceives(t) PROVE ContextInv'
  BY <1>3 DEF ServeReceives, Deliver, AfterSend, AfterUnsubscribe, SendPC,
              Goto, Threads
<1>4. ASSUME NEW t \in Topics, ServeAdded(t) \/ ServeRemoved(t)
      PROVE  ContextInv'
  BY <1>1, <1>4 DEF ServeAdded, ServeRemoved
<1>5. CASE ServeLoops \/ ServeReturns \/ ServeContextDone
  BY <1>1, <1>5 DEF ServeLoops, ServeReturns, ServeContextDone
<1>6. ASSUME NEW p \in Publishers, PubReturns(p) PROVE ContextInv'
  BY <1>1, <1>6 DEF PubReturns
<1>7. ASSUME NEW p \in Publishers, NEW s \in Subs, NEW err \in BOOLEAN,
             ReceivePasses(p, s) \/ ReceiveReturns(p, s, err)
      PROVE  ContextInv'
  BY <1>1, <1>7 DEF ReceivePasses, ReceiveReturns, Received
<1>8. CASE UNCHANGED allVars
  BY <1>1, <1>8 DEF allVars, brokerVars
<1> QED
  BY <1>2, <1>3, <1>4, <1>5, <1>6, <1>7, <1>8, ContextStepOfHub
     DEF BrokerNext

\* A callback that calls the broadcast handler belongs to a subscription
\* whose UNSUB handler has not run.
LEMMA PassStep ==
  ASSUME TypeOK, LockInv, MapInv, BrokerTypes, ContextInv,
         [BrokerNext]_allVars,
         NEW p \in Publishers, NEW s \in Subs, s \in passing'[p] \ passing[p]
  PROVE  handler[s] = "accepted"
<1>1. ReceivePasses(p, s)
  <2>1. passing' # passing
    OBVIOUS
  <2>2. PICK q \in Publishers, r \in Subs :
          ReceivePasses(q, r) \/ \E err \in BOOLEAN : ReceiveReturns(q, r, err)
    BY <2>1 DEF BrokerNext, allVars, brokerVars, subVars, TriggerSub,
         EndContext, TriggerUnsub, ServeReceives, ServeAdded, ServeRemoved,
         ServeLoops, ServeReturns, ServeContextDone, PubReturns
  <2> QED
    BY <2>2 DEF ReceivePasses, ReceiveReturns, BrokerTypes
<1>2. Active(s) /\ ~cctx[s]
  BY <1>1 DEF ReceivePasses, ReceiveError, LockInv, MapInv,
              ReaderInv
<1>3. pc[s] # "idle"
  BY <1>2, TopicOfAssumption DEF Active, MapInv, MemberInv
<1> QED
  BY <1>2, <1>3 DEF ContextInv, BrokerTypes

\* For every broker, no message is passed on after the UNSUB handler ran.
THEOREM NothingDeliveredAfterUnsub == BrokerSpec => NoDeliveryAfterUnsub
<1>1. BrokerInit => ContextInv
  BY ThreadsAssumption DEF BrokerInit, Init, ContextInv, Threads
<1>2. BrokerTypeOK /\ LockInv /\ MapInv /\ ContextInv /\ [BrokerNext]_allVars
        => ContextInv'
  BY ContextStep DEF BrokerTypeOK
<1>3. BrokerTypeOK /\ LockInv /\ MapInv /\ ContextInv /\ [BrokerNext]_allVars
        => [\A p \in Publishers, s \in Subs :
              s \in passing'[p] \ passing[p]
                => handler[s] = "accepted"]_allVars
  BY PassStep DEF BrokerTypeOK
<1> QED
  BY BrokerTypeCorrect, HubImplemented, HubInvariant, <1>1, <1>2, <1>3, PTL
     DEF BrokerSpec, ImplementsHub, NoDeliveryAfterUnsub
=============================================================================
