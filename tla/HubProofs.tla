----------------------------- MODULE HubProofs -----------------------------
(***************************************************************************)
(* What holds of every Hub, for any sets of topics, subscriptions and      *)
(* goroutines: the invariants that HubSafety checks on a small instance,   *)
(* and the implementation of Registry.                                     *)
(***************************************************************************)
EXTENDS Hub, TLAPS

\* The write lock is requested or held exactly by the goroutine whose pc says
\* so, the read lock by the Broadcasts that run callbacks; a send happens
\* with the write lock granted and the channel open, and only then is there
\* a change on its way.
LockInv ==
  /\ \A t \in Threads : pc[t] \in WritePC <=> writer = t
  /\ \A p \in Publishers : p \in readers <=> pc[p] \in {"receive", "unsubscribe"}
  /\ \A t \in Threads : pc[t] \in SendPC => readers = {} /\ brChan = "open"
  /\ (\A t \in Threads : pc[t] \notin SendPC) => change = NoChange

\* A subscription is in the map under its own topic, after its Subscribe
\* call put it there and before its watcher takes it out; the watcher acts
\* only once the context is done.
MemberInv ==
  /\ \A t \in Topics : \A s \in members[t] :
       TopicOf[s] = t /\ pc[s] \in {"subscribeSend", "watch", "unsubscribe"}
  /\ \A s \in Subs : pc[s] \in {"unsubscribe", "unsubscribeSend", "end"}
                       => done[s]

\* Whoever holds the read lock has callbacks of active subscriptions only.
ReaderInv ==
  \A p \in readers : \A s \in pending[p] \cup failed[p] : Active(s)

\* Every pc, change and thread a step of Next can produce is of its type:
\* one step per action of hub.go.
LEMMA TypeStep == TypeOK /\ [Next]_vars => TypeOK'
<1> USE TopicOfAssumption, ThreadsAssumption DEF Threads, TypeOK
<1> SUFFICES ASSUME TypeOK, [Next]_vars PROVE TypeOK'
  OBVIOUS
<1>1. ASSUME NEW s \in Subs, Subscribe(s) PROVE TypeOK'
  BY <1>1 DEF Subscribe, Lock, Goto, mapVars, castVars, SubPC
<1>2. ASSUME NEW s \in Subs, Subscribed(s) PROVE TypeOK'
  BY <1>2 DEF Subscribed, SendOrReturn, Unlock, Goto, lockVars, castVars,
              SubPC, Changes, Added
<1>3. ASSUME NEW s \in Subs, Watch(s) PROVE TypeOK'
  BY <1>3 DEF Watch, Lock, Goto, mapVars, castVars, SubPC
<1>4. ASSUME NEW s \in Subs, ContextDone(s) PROVE TypeOK'
  BY <1>4 DEF ContextDone, mapVars, lockVars, castVars
<1>5. ASSUME NEW x \in Subs \cup Publishers, Unsubscribed(x) PROVE TypeOK'
  BY <1>5 DEF Unsubscribed, SendOrReturn, Unlock, Goto, lockVars, castVars,
              SubPC, PublisherPC, Changes, Removed, Emptied, AfterUnsubscribe
<1>6. ASSUME NEW c \in Callers, NEW T \in SUBSET Topics, Cancel(c, T)
      PROVE  TypeOK'
  BY <1>6 DEF Cancel, Lock, Goto, mapVars, castVars, CallerPC
<1>7. ASSUME NEW c \in Callers, Canceled(c) PROVE TypeOK'
  BY <1>7 DEF Canceled, CancelAll, SendOrReturn, Unlock, Goto, lockVars,
              castVars, CallerPC, Changes, Removed
<1>8. ASSUME NEW c \in Callers, Close(c) PROVE TypeOK'
  BY <1>8 DEF Close, Lock, Goto, mapVars, castVars, CallerPC
<1>9. ASSUME NEW c \in Callers, Closed(c) PROVE TypeOK'
  BY <1>9 DEF Closed, CancelAll, Unlock, Goto, castVars, CallerPC
<1>10. ASSUME NEW t \in Threads, Deliver(t) PROVE TypeOK'
  BY <1>10 DEF Deliver, Unlock, Goto, AfterSend, AfterUnsubscribe, Apply,
               SendPC, mapVars, castVars, Changes, NoChange, SubPC,
               PublisherPC, CallerPC
<1>11. ASSUME NEW p \in Publishers, NEW t \in Topics, Broadcast(p, t)
       PROVE  TypeOK'
  BY <1>11 DEF Broadcast, Goto, mapVars, PublisherPC
<1>12. ASSUME NEW p \in Publishers, NEW s \in Subs, NEW err \in BOOLEAN,
              Received(p, s, err)
       PROVE  TypeOK'
  BY <1>12 DEF Received, mapVars, lockVars
<1>13. ASSUME NEW p \in Publishers, BroadcastReturns(p) PROVE TypeOK'
  BY <1>13 DEF BroadcastReturns, Goto, mapVars, castVars, PublisherPC
<1>14. ASSUME NEW p \in Publishers, BroadcastUnsubscribes(p) PROVE TypeOK'
  BY <1>14 DEF BroadcastUnsubscribes, Lock, Goto, mapVars, castVars,
               PublisherPC
<1>15. CASE UNCHANGED vars
  BY <1>15 DEF vars, mapVars, lockVars, castVars
<1> QED
  BY <1>1, <1>2, <1>3, <1>4, <1>5, <1>6, <1>7, <1>8, <1>9, <1>10, <1>11,
     <1>12, <1>13, <1>14, <1>15
     DEF Next, SubNext, CallerNext, PublisherNext

-----------------------------------------------------------------------------
\* The lock discipline of hub.go: no step breaks LockInv.
LEMMA LockStep == TypeOK /\ LockInv /\ [Next]_vars => LockInv'
<1> USE ThreadsAssumption
        DEF Threads, TypeOK, LockInv, WritePC, SendPC, SubPC, PublisherPC,
            CallerPC
<1> SUFFICES ASSUME TypeOK, LockInv, [Next]_vars PROVE LockInv'
  OBVIOUS
<1>1. ASSUME NEW s \in Subs, Subscribe(s) \/ Watch(s) PROVE LockInv'
  BY <1>1 DEF Subscribe, Watch, Lock, Goto, mapVars, castVars
<1>2. ASSUME NEW s \in Subs, Subscribed(s) PROVE LockInv'
  BY <1>2 DEF Subscribed, Granted, SendOrReturn, Unlock, Goto, lockVars
<1>3. ASSUME NEW s \in Subs, ContextDone(s) PROVE LockInv'
  BY <1>3 DEF ContextDone, mapVars, lockVars
<1>4. ASSUME NEW x \in Subs \cup Publishers, Unsubscribed(x) PROVE LockInv'
  BY <1>4 DEF Unsubscribed, Granted, SendOrReturn, Unlock, Goto, lockVars,
              AfterUnsubscribe
<1>5. ASSUME NEW c \in Callers,
             Close(c) \/ \E T \in SUBSET Topics : Cancel(c, T)
      PROVE  LockInv'
  BY <1>5 DEF Close, Cancel, Lock, Goto, mapVars
<1>6. ASSUME NEW c \in Callers, Canceled(c) PROVE LockInv'
  BY <1>6 DEF Canceled, Granted, SendOrReturn, Unlock, Goto, lockVars
<1>7. ASSUME NEW c \in Callers, Closed(c) PROVE LockInv'
  BY <1>7 DEF Closed, Granted, Unlock, Goto
<1>8. ASSUME NEW t \in Threads, Deliver(t) PROVE LockInv'
  BY <1>8 DEF Deliver, Unlock, Goto, AfterSend, AfterUnsubscribe, mapVars
<1>9. ASSUME NEW p \in Publishers, NEW t \in Topics, Broadcast(p, t)
      PROVE  LockInv'
  BY <1>9 DEF Broadcast, Goto, mapVars
<1>10. ASSUME NEW p \in Publishers, NEW s \in Subs, NEW err \in BOOLEAN,
              Received(p, s, err)
       PROVE  LockInv'
  BY <1>10 DEF Received, mapVars, lockVars
<1>11. ASSUME NEW p \in Publishers, BroadcastReturns(p) PROVE LockInv'
  BY <1>11 DEF BroadcastReturns, Goto, mapVars
<1>12. ASSUME NEW p \in Publishers, BroadcastUnsubscribes(p) PROVE LockInv'
  BY <1>12 DEF BroadcastUnsubscribes, Lock, Goto, mapVars
<1>13. CASE UNCHANGED vars
  BY <1>13 DEF vars, mapVars, lockVars
<1> QED
  BY <1>1, <1>2, <1>3, <1>4, <1>5, <1>6, <1>7, <1>8, <1>9, <1>10, <1>11,
     <1>12, <1>13
     DEF Next, SubNext, CallerNext, PublisherNext

-----------------------------------------------------------------------------
\* What is in the map, on the channel and in the hands of Broadcast.
MapInv == /\ MemberInv
          /\ NoEmptyBroadcasting
          /\ ClosedIsQuiet
          /\ InactiveIsDone
          /\ ReaderInv
          /\ ChangesReplay

\* No step of hub.go breaks the invariants of the map and the channel.  The
\* actions that write the map do so with the lock granted: no Broadcast
\* runs and no change is on its way.
LEMMA MapStep ==
  TypeOK /\ TypeOK' /\ LockInv /\ MapInv /\ [Next]_vars => MapInv'
<1> USE TopicOfAssumption, ThreadsAssumption
        DEF Threads, TypeOK, LockInv, MapInv, WritePC, SendPC
<1> SUFFICES ASSUME TypeOK, TypeOK', LockInv, MapInv, [Next]_vars
             PROVE  MapInv'
  OBVIOUS
<1> USE DEF Active, Registered
<1>0. ASSUME NEW t \in Threads, Granted(t), pc[t] \notin SendPC
      PROVE  change = NoChange /\ readers = {}
  BY <1>0 DEF Granted
<1>1. ASSUME NEW s \in Subs, Subscribe(s) \/ Watch(s) PROVE MapInv'
  BY <1>1 DEF Subscribe, Watch, Lock, Goto, mapVars, castVars, MemberInv,
       NoEmptyBroadcasting, ClosedIsQuiet, InactiveIsDone,
       ReaderInv, ChangesReplay
<1>2. ASSUME NEW s \in Subs, Subscribed(s) PROVE MapInv'
  <2>1. change = NoChange /\ readers = {}
    BY <1>0, <1>2 DEF Subscribed
  <2> USE <1>2, <2>1 DEF Subscribed, WritePanics, SendOrReturn, Unlock, Goto,
            lockVars, castVars
  <2>2. MemberInv'
    BY DEF MemberInv
  <2>3. NoEmptyBroadcasting'
    <3>1. members' = IF closed THEN members
                     ELSE [members EXCEPT ![TopicOf[s]] = @ \cup {s}]
      OBVIOUS
    <3>2. topics' = IF closed THEN topics ELSE topics \cup {TopicOf[s]}
      OBVIOUS
    <3>3. CASE closed
      BY <3>1, <3>2, <3>3 DEF NoEmptyBroadcasting
    <3>4. ASSUME ~closed, NEW t \in Topics, t # TopicOf[s]
          PROVE  t \in topics' <=> members'[t] # {}
      BY <3>1, <3>2, <3>4 DEF NoEmptyBroadcasting
    <3>5. CASE ~closed
      <4>1. s \in members'[TopicOf[s]] /\ TopicOf[s] \in topics'
        BY <3>1, <3>2, <3>5
      <4> QED
        BY <3>4, <3>5, <4>1 DEF NoEmptyBroadcasting
    <3> QED
      BY <3>3, <3>5
  <2>4. ClosedIsQuiet'
    BY DEF ClosedIsQuiet
  <2>5. InactiveIsDone'
    BY DEF InactiveIsDone
  <2>6. ReaderInv'
    BY DEF ReaderInv
  <2>7. ChangesReplay'
    BY DEF ChangesReplay, Apply, Added, NoChange
  <2> QED
    BY <2>2, <2>3, <2>4, <2>5, <2>6, <2>7
<1>3. ASSUME NEW s \in Subs, ContextDone(s) PROVE MapInv'
  BY <1>3 DEF ContextDone, mapVars, lockVars, castVars, MemberInv,
       NoEmptyBroadcasting, ClosedIsQuiet, InactiveIsDone,
       ReaderInv, ChangesReplay
<1>4. ASSUME NEW x \in Subs \cup Publishers, Unsubscribed(x) PROVE MapInv'
  <2>1. change = NoChange /\ readers = {}
    BY <1>0, <1>4 DEF Unsubscribed
  <2>2. x \in Subs /\ Batch(x) = {x}
    BY <1>4, <2>1 DEF Unsubscribed, Batch
  <2> USE <1>4, <2>1, <2>2 DEF Unsubscribed, SendOrReturn, Unlock, Goto,
            lockVars, castVars, AfterUnsubscribe
  <2>3. MemberInv'
    BY DEF MemberInv
  <2>4. NoEmptyBroadcasting'
    BY DEF NoEmptyBroadcasting, MemberInv, Emptied
  <2>5. ClosedIsQuiet'
    BY DEF ClosedIsQuiet, Emptied
  <2>6. InactiveIsDone'
    BY DEF InactiveIsDone, MemberInv
  <2>7. ReaderInv'
    BY DEF ReaderInv
  <2>8. ChangesReplay'
    BY DEF ChangesReplay, Apply, Removed, NoChange, Emptied
  <2> QED
    BY <2>3, <2>4, <2>5, <2>6, <2>7, <2>8
<1>5. ASSUME NEW c \in Callers,
             Close(c) \/ \E T \in SUBSET Topics : Cancel(c, T)
      PROVE  MapInv'
  BY <1>5 DEF Close, Cancel, Lock, Goto, mapVars, castVars, MemberInv,
       NoEmptyBroadcasting, ClosedIsQuiet, InactiveIsDone,
       ReaderInv, ChangesReplay
<1>6. ASSUME NEW c \in Callers, Canceled(c) PROVE MapInv'
  <2>1. change = NoChange /\ readers = {}
    BY <1>0, <1>6 DEF Canceled
  <2> USE <1>6, <2>1 DEF Canceled, CancelAll, SendOrReturn, Unlock, Goto,
            lockVars, castVars
  <2>2. MemberInv'
    BY DEF MemberInv
  <2>3. NoEmptyBroadcasting'
    BY DEF NoEmptyBroadcasting
  <2>4. ClosedIsQuiet'
    BY DEF ClosedIsQuiet
  <2>5. InactiveIsDone'
    <3> SUFFICES ASSUME NEW s \in Subs, Registered(s)', ~Active(s)'
                 PROVE  done'[s]
      BY DEF InactiveIsDone
    <3>1. Registered(s)
      OBVIOUS
    <3>2. CASE Active(s)
      BY <3>2
    <3>3. CASE ~Active(s)
      BY <3>1, <3>3 DEF InactiveIsDone
    <3> QED
      BY <3>2, <3>3
  <2>6. ReaderInv'
    BY DEF ReaderInv
  <2>7. ChangesReplay'
    BY DEF ChangesReplay, Apply, Removed, NoChange
  <2> QED
    BY <2>2, <2>3, <2>4, <2>5, <2>6, <2>7
<1>7. ASSUME NEW c \in Callers, Closed(c) PROVE MapInv'
  <2>1. change = NoChange /\ readers = {}
    BY <1>0, <1>7 DEF Closed
  <2> USE <1>7, <2>1 DEF Closed, CancelAll, Unlock, Goto, castVars
  <2>2. MemberInv'
    BY DEF MemberInv
  <2>3. NoEmptyBroadcasting' /\ ClosedIsQuiet'
    BY DEF NoEmptyBroadcasting, ClosedIsQuiet
  <2>4. InactiveIsDone'
    BY DEF InactiveIsDone
  <2>5. ReaderInv' /\ ChangesReplay'
    BY DEF ReaderInv, ChangesReplay
  <2> QED
    BY <2>2, <2>3, <2>4, <2>5
<1>8. ASSUME NEW t \in Threads, Deliver(t) PROVE MapInv'
  <2> USE <1>8 DEF Deliver, Unlock, Goto, AfterSend, AfterUnsubscribe,
            mapVars, castVars, SubPC
  <2>1. MemberInv'
    BY DEF MemberInv
  <2>2. NoEmptyBroadcasting' /\ ClosedIsQuiet'
    BY DEF NoEmptyBroadcasting, ClosedIsQuiet
  <2>3. InactiveIsDone'
    BY DEF InactiveIsDone
  <2>4. ReaderInv' /\ ChangesReplay'
    BY DEF ReaderInv, ChangesReplay, Apply, NoChange
  <2> QED
    BY <2>1, <2>2, <2>3, <2>4
<1>9. ASSUME NEW p \in Publishers, NEW t \in Topics, Broadcast(p, t)
      PROVE  MapInv'
  BY <1>9 DEF Broadcast, Goto, mapVars, MemberInv, NoEmptyBroadcasting,
       ClosedIsQuiet, InactiveIsDone, ReaderInv, ChangesReplay
<1>10. ASSUME NEW p \in Publishers, NEW s \in Subs, NEW err \in BOOLEAN,
              Received(p, s, err)
       PROVE  MapInv'
  BY <1>10 DEF Received, mapVars, lockVars, MemberInv, NoEmptyBroadcasting,
       ClosedIsQuiet, InactiveIsDone, ReaderInv, ChangesReplay
<1>11. ASSUME NEW p \in Publishers,
              BroadcastReturns(p) \/ BroadcastUnsubscribes(p)
       PROVE  MapInv'
  BY <1>11 DEF BroadcastReturns, BroadcastUnsubscribes, Lock, Goto, mapVars,
       castVars, MemberInv, NoEmptyBroadcasting, ClosedIsQuiet,
       InactiveIsDone, ReaderInv, ChangesReplay
<1>12. CASE UNCHANGED vars
  BY <1>12 DEF vars, mapVars, lockVars, castVars, MemberInv,
       NoEmptyBroadcasting, ClosedIsQuiet, InactiveIsDone,
       ReaderInv, ChangesReplay
<1> QED
  BY <1>1, <1>2, <1>3, <1>4, <1>5, <1>6, <1>7, <1>8, <1>9, <1>10, <1>11,
     <1>12
     DEF Next, SubNext, CallerNext, PublisherNext

-----------------------------------------------------------------------------
\* Who holds the lock finds the reader informed, so what it reports is news.
LEMMA NewsStep ==
  TypeOK /\ LockInv /\ MapInv /\ ChangesAreNews /\ [Next]_vars
    => ChangesAreNews'
<1> USE TopicOfAssumption, ThreadsAssumption
        DEF Threads, WritePC, SendPC
<1> SUFFICES ASSUME TypeOK, LockInv, MapInv, ChangesAreNews, [Next]_vars
             PROVE  ChangesAreNews'
  OBVIOUS
<1>1. pc \in [Threads -> SubPC \cup PublisherPC \cup CallerPC]
  BY DEF TypeOK
<1>2. ASSUME NEW t \in Threads, Granted(t), pc[t] \notin SendPC
      PROVE  /\ change = NoChange
             /\ brChan = "open" => seen = topics
             /\ \A x \in Subs \cup Publishers : pc[x] # "unsubscribeSend"
  <2>1. \A x \in Threads : pc[x] \notin SendPC
    BY <1>2 DEF LockInv, Granted
  <2>2. change = NoChange
    BY <2>1 DEF LockInv
  <2> QED
    BY <2>1, <2>2 DEF MapInv, ChangesReplay, Apply, NoChange
<1>3. ASSUME NEW s \in Subs, Subscribed(s) PROVE ChangesAreNews'
  <2>1. /\ change = NoChange /\ (brChan = "open" => seen = topics)
        /\ \A x \in Subs \cup Publishers : pc[x] # "unsubscribeSend"
    BY <1>2, <1>3 DEF Subscribed
  <2>2. \A x \in Subs \cup Publishers : pc'[x] # "unsubscribeSend"
    BY <1>1, <1>3, <2>1 DEF Subscribed, SendOrReturn, Goto
  <2>3. \/ change' = NoChange
        \/ change' = Added({TopicOf[s]}) /\ TopicOf[s] \notin topics
    <3>1. \/ UNCHANGED change
          \/ SendOrReturn(s, TopicOf[s] \notin topics, Added({TopicOf[s]}),
                          "subscribeSend", "watch")
      BY <1>3 DEF Subscribed
    <3> QED
      BY <2>1, <3>1 DEF SendOrReturn
  <2> QED
    BY <1>3, <2>1, <2>2, <2>3
       DEF ChangesAreNews, Subscribed, Added, NoChange
<1>4. ASSUME NEW x \in Subs \cup Publishers, Unsubscribed(x)
      PROVE  ChangesAreNews'
  <2>1. change = NoChange /\ (brChan = "open" => seen = topics)
    BY <1>2, <1>4 DEF Unsubscribed
  <2>2. change' = NoChange \/ change' = Removed(Emptied(Batch(x)))
    BY <1>4, <2>1 DEF Unsubscribed, SendOrReturn
  <2> QED
    BY <1>4, <2>1, <2>2
       DEF ChangesAreNews, Unsubscribed, Removed, NoChange, Emptied
<1>5. ASSUME NEW c \in Callers, Canceled(c) \/ Closed(c)
      PROVE  ChangesAreNews'
  <2>1. /\ change = NoChange
        /\ \A x \in Subs \cup Publishers : pc[x] # "unsubscribeSend"
    BY <1>2, <1>5 DEF Canceled, Closed
  <2>2. \A x \in Subs \cup Publishers : pc'[x] # "unsubscribeSend"
    BY <1>1, <1>5, <2>1 DEF Canceled, Closed, SendOrReturn, Goto
  <2>3. change'.added = {}
    BY <1>5, <2>1 DEF Canceled, Closed, SendOrReturn, Removed, NoChange
  <2> QED
    BY <2>2, <2>3 DEF ChangesAreNews
<1>6. ASSUME NEW t \in Threads, Deliver(t) PROVE ChangesAreNews'
  BY <1>6 DEF Deliver, ChangesAreNews, NoChange
<1>7. ASSUME UNCHANGED <<brChan, change, seen>>,
             \A x \in Subs \cup Publishers :
               pc'[x] = "unsubscribeSend" => pc[x] = "unsubscribeSend"
      PROVE  ChangesAreNews'
  BY <1>7 DEF ChangesAreNews
<1>8. ASSUME NEW s \in Subs, Subscribe(s) \/ Watch(s) \/ ContextDone(s)
      PROVE  ChangesAreNews'
  BY <1>1, <1>7, <1>8 DEF Subscribe, Watch, ContextDone, Lock, Goto, mapVars
<1>9. ASSUME NEW c \in Callers,
             Close(c) \/ \E T \in SUBSET Topics : Cancel(c, T)
      PROVE  ChangesAreNews'
  BY <1>1, <1>7, <1>9 DEF Close, Cancel, Lock, Goto, mapVars
<1>10. ASSUME NEW p \in Publishers,
              \/ \E t \in Topics : Broadcast(p, t)
              \/ \E s \in Subs : Received(p, s, FALSE) \/ Received(p, s, TRUE)
              \/ BroadcastReturns(p)
              \/ BroadcastUnsubscribes(p)
       PROVE  ChangesAreNews'
  BY <1>1, <1>7, <1>10
     DEF Broadcast, Received, BroadcastReturns, BroadcastUnsubscribes, Lock,
         Goto, mapVars
<1>11. CASE UNCHANGED vars
  BY <1>7, <1>11 DEF vars, mapVars
<1> QED
  BY <1>3, <1>4, <1>5, <1>6, <1>8, <1>9, <1>10, <1>11
     DEF Next, SubNext, CallerNext, PublisherNext

-----------------------------------------------------------------------------
\* The three parts together are inductive.
LEMMA InvInit == Init => TypeOK /\ LockInv /\ MapInv
<1> SUFFICES ASSUME Init PROVE TypeOK /\ LockInv /\ MapInv
  OBVIOUS
<1> USE TopicOfAssumption, ThreadsAssumption DEF Init, Threads
<1>1. TypeOK
  BY DEF TypeOK, Changes, NoChange, SubPC, PublisherPC, CallerPC
<1>2. LockInv
  BY DEF LockInv, WritePC, SendPC
<1>3. MapInv
  BY DEF MapInv, MemberInv, NoEmptyBroadcasting, ClosedIsQuiet,
         InactiveIsDone, ReaderInv, ChangesReplay, Registered,
         Apply, NoChange
<1> QED
  BY <1>1, <1>2, <1>3

\* Every reachable state of a hub satisfies the inductive invariant.
THEOREM HubInvariant == Spec => [](TypeOK /\ LockInv /\ MapInv)
<1>1. TypeOK /\ LockInv /\ MapInv /\ [Next]_vars
        => (TypeOK /\ LockInv /\ MapInv)'
  BY TypeStep, LockStep, MapStep
<1> QED
  BY InvInit, <1>1, PTL DEF Spec

\* hub.go keeps its state of the types its declarations give.
THEOREM TypeCorrect == Spec => []TypeOK
BY HubInvariant, PTL

\* The reader of brChanges can replay the topics of the hub.
THEOREM ChangesReplayed == Spec => []ChangesReplay
BY HubInvariant, PTL DEF MapInv

\* Subscribe and unsubscribe report news only.
THEOREM ChangesReportNews == Spec => []ChangesAreNews
<1>1. Init => ChangesAreNews
  BY DEF Init, ChangesAreNews, NoChange, Threads
<1>2. TypeOK /\ LockInv /\ MapInv /\ ChangesAreNews /\ [Next]_vars
        => ChangesAreNews'
  BY NewsStep
<1> QED
  BY HubInvariant, <1>1, <1>2, PTL DEF Spec

\* The map has a key exactly for the topics with subscriptions.
THEOREM NoEmptyBroadcastings == Spec => []NoEmptyBroadcasting
BY HubInvariant, PTL DEF MapInv

\* The context of a subscription that left the map is done.
THEOREM InactiveSubscriptionsAreDone == Spec => []InactiveIsDone
BY HubInvariant, PTL DEF MapInv

\* Broadcast holds on to active subscriptions only.
THEOREM BroadcastsToActive == Spec => []ReceiversAreActive
<1>1. LockInv /\ MapInv => ReceiversAreActive
  BY DEF LockInv, MapInv, ReaderInv, ReceiversAreActive
<1> QED
  BY HubInvariant, <1>1, PTL

\* Close closes the channel with no sender on it.
THEOREM ClosedHubIsQuiet == Spec => []ClosedIsQuiet
BY HubInvariant, PTL DEF MapInv

\* A step of a closed hub, by whichever method, reports nothing and
\* activates nothing.
LEMMA ClosedStep ==
  ASSUME LockInv, ClosedIsQuiet, closed, Next
  PROVE  closed' /\ seen' = seen /\ \A s \in Subs : Active(s)' => Active(s)
<1> USE DEF mapVars, Active
<1>1. closed'
  BY DEF Next, SubNext, CallerNext, PublisherNext, Subscribe, Subscribed,
         Watch, ContextDone, Unsubscribed, Cancel, Canceled, Close, Closed,
         Deliver, Broadcast, Received, BroadcastReturns,
         BroadcastUnsubscribes
<1>2. \A t \in Threads : ~Deliver(t)
  BY DEF Deliver, LockInv, ClosedIsQuiet
<1>3. seen' = seen
  BY <1>2 DEF Next, SubNext, CallerNext, PublisherNext, Subscribe,
         Subscribed, Watch, ContextDone, Unsubscribed, Cancel, Canceled,
         Close, Closed, Broadcast, Received, BroadcastReturns,
         BroadcastUnsubscribes
<1>4. ASSUME NEW s \in Subs, Active(s)' PROVE Active(s)
  <2> USE <1>4, TopicOfAssumption
  <2>1. members' = members
          \/ \A t \in Topics : members'[t] \subseteq members[t]
    BY <1>2 DEF Next, SubNext, CallerNext, PublisherNext, Subscribe,
         Subscribed, WritePanics, Watch, ContextDone, Unsubscribed, Cancel,
         Canceled, Close, Closed, Broadcast, Received, BroadcastReturns,
         BroadcastUnsubscribes
  <2> QED
    BY <2>1
<1> QED
  BY <1>1, <1>3, <1>4

\* A closed hub stays closed, silent and without new subscriptions.
THEOREM ClosedHubIsFinal == Spec => ClosedIsFinal
<1>1. TypeOK /\ LockInv /\ MapInv /\ [Next]_vars
        => [closed => /\ closed'
                      /\ seen' = seen
                      /\ \A s \in Subs : Active(s)' => Active(s)]_vars
  BY ClosedStep DEF MapInv
<1> QED
  BY HubInvariant, <1>1, PTL DEF Spec, ClosedIsFinal

-----------------------------------------------------------------------------
(***************************************************************************)
(* The hub implements the Registry                                         *)
(***************************************************************************)

activeSubs == {s \in Subs : Active(s)}
endedSubs == {s \in Subs : Registered(s) /\ ~Active(s)}

\* The keys of the map are the topics of the active subscriptions.
LEMMA TopicsAreActive ==
  ASSUME TypeOK, MemberInv, NoEmptyBroadcasting
  PROVE  topics = {TopicOf[s] : s \in activeSubs}
<1> USE TopicOfAssumption DEF TypeOK, activeSubs, Active
<1>1. ASSUME NEW t \in topics
      PROVE  t \in {TopicOf[s] : s \in activeSubs}
  <2>1. PICK s \in members[t] : TRUE
    BY DEF NoEmptyBroadcasting
  <2> QED
    BY <2>1 DEF MemberInv
<1>2. ASSUME NEW s \in activeSubs PROVE TopicOf[s] \in topics
  BY <1>2 DEF NoEmptyBroadcasting
<1> QED
  BY <1>1, <1>2

\* The lock holder that writes the map finds the reader informed.
LEMMA GrantedIsInformed ==
  ASSUME TypeOK, LockInv, MapInv,
         NEW t \in Threads, Granted(t), pc[t] \notin SendPC
  PROVE  R!Informed
<1>1. change = NoChange
  BY DEF LockInv, Granted, WritePC
<1>2. brChan = "open" => seen = topics
  BY <1>1 DEF MapInv, ChangesReplay, Apply, NoChange
<1> QED
  BY <1>2, TopicsAreActive DEF MapInv, R!Informed, R!ActiveTopics, activeSubs

\* A step that leaves the map, the channel, the history and the set of
\* registered subscriptions alone is no step of the Registry.
LEMMA RegistryStutter ==
  ASSUME UNCHANGED <<mapVars, seen>>,
         \A s \in Subs : Registered(s)' <=> Registered(s)
  PROVE  UNCHANGED R!vars
BY DEF R!vars, mapVars, Active

\* Every step of hub.go is a step of the Registry or invisible to it.
LEMMA RegistryStep ==
  TypeOK /\ TypeOK' /\ LockInv /\ MapInv /\ MapInv' /\ [Next]_vars
    => [R!Next]_(R!vars)
<1> USE TopicOfAssumption, ThreadsAssumption DEF Threads, TypeOK
<1> SUFFICES ASSUME TypeOK, TypeOK', LockInv, MapInv, MapInv', [Next]_vars
             PROVE  [R!Next]_(R!vars)
  OBVIOUS
<1>1. ASSUME NEW s \in Subs, Subscribe(s) \/ Watch(s) \/ ContextDone(s)
      PROVE  UNCHANGED R!vars
  <2>1. UNCHANGED <<mapVars, seen>>
    BY <1>1 DEF Subscribe, Watch, ContextDone
  <2>2. \A u \in Subs : Registered(u)' <=> Registered(u)
    BY <1>1 DEF Subscribe, Watch, ContextDone, Lock, Goto, Registered
  <2> QED
    BY <2>1, <2>2, RegistryStutter
<1>2. ASSUME NEW s \in Subs, Subscribed(s) PROVE [R!Next]_(R!vars)
  <2> USE <1>2 DEF Subscribed, SendOrReturn, Unlock, Goto, WritePanics,
            lockVars
  <2>1. CASE closed
    <3>1. UNCHANGED <<mapVars, seen>>
      BY <2>1 DEF mapVars
    <3>2. \A u \in Subs : Registered(u)' <=> Registered(u)
      BY <2>1 DEF Registered
    <3> QED
      BY <3>1, <3>2, RegistryStutter
  <2>2. CASE ~closed
    <3>1. R!Informed
      BY GrantedIsInformed DEF SendPC
    <3>2. s \notin activeSubs \cup endedSubs
      BY DEF MapInv, MemberInv, activeSubs, endedSubs, Active, Registered
    <3>3. \A u \in Subs : Active(u)' <=> Active(u) \/ u = s
      BY <2>2 DEF Active
    <3>4. \A u \in Subs : Registered(u)' <=> Registered(u) \/ u = s
      BY <2>2 DEF Registered
    <3>5. activeSubs' = activeSubs \cup {s} /\ endedSubs' = endedSubs
      BY <3>2, <3>3, <3>4 DEF activeSubs, endedSubs
    <3>6. R!Add(s)
      BY <2>2, <3>1, <3>2, <3>5 DEF R!Add, activeSubs, endedSubs
    <3> QED
      BY <3>6 DEF R!Next
  <2> QED
    BY <2>1, <2>2
<1>3. ASSUME NEW x \in Subs \cup Publishers, Unsubscribed(x)
      PROVE  [R!Next]_(R!vars)
  <2>1. readers = {}
    BY <1>3 DEF Unsubscribed, Granted
  <2>2. x \in Subs /\ Batch(x) = {x}
    BY <1>3, <2>1 DEF Unsubscribed, LockInv, Batch
  <2> USE <1>3, <2>2 DEF Unsubscribed, SendOrReturn, Unlock, Goto, lockVars,
            AfterUnsubscribe
  <2>3. R!Informed
    BY GrantedIsInformed DEF SendPC
  <2>4. \A u \in Subs : Active(u)' <=> Active(u) /\ u # x
    BY DEF Active
  <2>5. \A u \in Subs : Registered(u)' <=> Registered(u)
    BY DEF Registered
  <2>6. Registered(x)
    BY DEF Registered
  <2> DEFINE S == activeSubs \cap {x}
  <2>7. activeSubs' = activeSubs \ S /\ endedSubs' = endedSubs \cup S
    BY <2>4, <2>5, <2>6 DEF activeSubs, endedSubs
  <2>8. R!Remove(S)
    BY <2>3, <2>7 DEF R!Remove, activeSubs, endedSubs
  <2> QED
    BY <2>8 DEF R!Next, activeSubs
<1>4. ASSUME NEW c \in Callers,
             Close(c) \/ \E T \in SUBSET Topics : Cancel(c, T)
      PROVE  UNCHANGED R!vars
  <2>1. UNCHANGED <<mapVars, seen>>
    BY <1>4 DEF Close, Cancel
  <2>2. \A u \in Subs : Registered(u)' <=> Registered(u)
    BY <1>4 DEF Close, Cancel, Lock, Goto, Registered
  <2> QED
    BY <2>1, <2>2, RegistryStutter
<1>5. ASSUME NEW c \in Callers, Canceled(c) PROVE [R!Next]_(R!vars)
  <2> USE <1>5 DEF Canceled, SendOrReturn, Unlock, Goto, lockVars
  <2>1. R!Informed
    BY GrantedIsInformed DEF SendPC
  <2>2. \A u \in Subs :
          Active(u)' <=> Active(u) /\ TopicOf[u] \notin cancelArg[c]
    BY DEF Active
  <2>3. \A u \in Subs : Registered(u)' <=> Registered(u)
    BY DEF Registered
  <2>4. activeSubs \subseteq {u \in Subs : Registered(u)}
    BY DEF MapInv, MemberInv, activeSubs, Active, Registered
  <2> DEFINE S == {u \in activeSubs : TopicOf[u] \in cancelArg[c]}
  <2>5. activeSubs' = activeSubs \ S /\ endedSubs' = endedSubs \cup S
    BY <2>2, <2>3, <2>4 DEF activeSubs, endedSubs
  <2>6. R!Remove(S)
    BY <2>1, <2>5 DEF R!Remove, activeSubs, endedSubs
  <2> QED
    BY <2>6 DEF R!Next, activeSubs
<1>6. ASSUME NEW c \in Callers, Closed(c) PROVE [R!Next]_(R!vars)
  <2> USE <1>6 DEF Closed, Goto
  <2>1. R!Informed
    BY GrantedIsInformed DEF SendPC
  <2>2. \A u \in Subs : ~Active(u)'
    BY DEF Active
  <2>3. \A u \in Subs : Registered(u)' <=> Registered(u)
    BY DEF Registered
  <2>4. activeSubs \subseteq {u \in Subs : Registered(u)}
    BY DEF MapInv, MemberInv, activeSubs, Active, Registered
  <2>5. activeSubs' = {} /\ endedSubs' = endedSubs \cup activeSubs
    BY <2>2, <2>3, <2>4 DEF activeSubs, endedSubs
  <2>6. R!Close
    BY <2>1, <2>5 DEF R!Close, activeSubs, endedSubs
  <2> QED
    BY <2>6 DEF R!Next
<1>7. ASSUME NEW t \in Threads, Deliver(t) PROVE [R!Next]_(R!vars)
  <2> USE <1>7 DEF Deliver, Unlock, Goto, mapVars
  <2>1. brChan = "open" /\ seen' = topics
    BY DEF LockInv, MapInv, ChangesReplay
  <2>2. \A u \in Subs : Registered(u)' <=> Registered(u)
    BY DEF AfterSend, AfterUnsubscribe, Registered, SendPC, SubPC
  <2>3. activeSubs' = activeSubs /\ endedSubs' = endedSubs
    BY <2>2 DEF activeSubs, endedSubs, Active
  <2>4. seen' = R!ActiveTopics
    BY <2>1, TopicsAreActive DEF MapInv, R!ActiveTopics, activeSubs
  <2>5. R!Notify
    BY <2>1, <2>3, <2>4 DEF R!Notify, activeSubs, endedSubs
  <2> QED
    BY <2>5 DEF R!Next
<1>8. ASSUME NEW p \in Publishers,
             \/ \E t \in Topics : Broadcast(p, t)
             \/ \E s \in Subs : Received(p, s, FALSE) \/ Received(p, s, TRUE)
             \/ BroadcastReturns(p)
             \/ BroadcastUnsubscribes(p)
      PROVE  UNCHANGED R!vars
  <2>1. UNCHANGED <<mapVars, seen>>
    BY <1>8 DEF Broadcast, Received, BroadcastReturns, BroadcastUnsubscribes
  <2>2. \A u \in Subs : Registered(u)' <=> Registered(u)
    BY <1>8 DEF Broadcast, Received, BroadcastReturns, BroadcastUnsubscribes,
                Lock, Goto, Registered
  <2> QED
    BY <2>1, <2>2, RegistryStutter
<1>9. CASE UNCHANGED vars
  BY <1>9, RegistryStutter DEF vars, mapVars, Registered
<1> QED
  BY <1>1, <1>2, <1>3, <1>4, <1>5, <1>6, <1>7, <1>8, <1>9
     DEF Next, SubNext, CallerNext, PublisherNext

\* The hub implements the Registry, for any number of topics, subscriptions
\* and goroutines.
THEOREM RegistryImplemented == Spec => ImplementsRegistry
<1>1. Init => R!Init
  <2> SUFFICES ASSUME Init PROVE R!Init
    OBVIOUS
  <2>1. \A s \in Subs : ~Active(s) /\ ~Registered(s)
    BY TopicOfAssumption DEF Init, Threads, Active, Registered
  <2>2. (brChan = "open") \in BOOLEAN
    OBVIOUS
  <2>3. seen = {} /\ closed = FALSE
    BY DEF Init
  <2> QED
    BY <2>1, <2>2, <2>3 DEF R!Init
<1>2. /\ TypeOK /\ LockInv /\ MapInv
      /\ (TypeOK /\ LockInv /\ MapInv)'
      /\ [Next]_vars
      => [R!Next]_(R!vars)
  BY RegistryStep
<1> QED
  BY HubInvariant, <1>1, <1>2, PTL DEF Spec, ImplementsRegistry, R!Spec
=============================================================================
