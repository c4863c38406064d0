-------------------------------- MODULE Hub --------------------------------
(***************************************************************************)
(* pubsub/hub.go: the Hub that keeps the active subscriptions of every     *)
(* topic, guards them with one sync.RWMutex, and reports the topics that   *)
(* appear and disappear on an unbuffered channel, WHILE IT HOLDS THE LOCK. *)
(*                                                                         *)
(* A subscription record is also the goroutine that calls Subscribe and    *)
(* then the watcher goroutine that Subscribe leaves behind; publishers are *)
(* the goroutines that call Broadcast; callers are the goroutines that     *)
(* call Cancel and Close.  A method body runs under the write lock, so it  *)
(* is one action up to its channel send; the send is the rendezvous        *)
(* Deliver, after which the method unlocks and returns.                    *)
(***************************************************************************)
EXTENDS Naturals, FiniteSets

CONSTANTS Topics,       \* topic names
          Subs,         \* subscription records, one Subscribe call each
          TopicOf,      \* subscription.topic
          Publishers,   \* goroutines that call Broadcast
          Callers,      \* goroutines that call Cancel and Close
          Faulty,       \* subscriptions whose receive callback may fail
          NoThread      \* the write lock is free

Threads == Subs \cup Publishers \cup Callers

ASSUME TopicOfAssumption == TopicOf \in [Subs -> Topics]
ASSUME FaultyAssumption == Faulty \subseteq Subs
ASSUME ThreadsAssumption == /\ Subs \cap Publishers = {}
                            /\ Subs \cap Callers = {}
                            /\ Publishers \cap Callers = {}
                            /\ NoThread \notin Threads

VARIABLES
  topics,    \* keys of Hub.broadcastings
  members,   \* Hub.broadcastings[t], the active subscriptions on t
  closed,    \* Hub.broadcastings = nil
  brChan,    \* "none": NewHub got no channel; "open": Hub.brChanges is set;
             \* "closed": Close closed the channel and forgot it
  change,    \* the BroadcastingChange that the lock holder is sending
  writer,    \* mu: who called Lock first; granted once no reader is left
  readers,   \* mu: who holds RLock
  pc,        \* where each goroutine is
  done,      \* the context made by Subscribe is done
  pending,   \* Broadcast: receive callbacks that have not returned
  failed,    \* Broadcast: willUnsubscribe
  cancelArg, \* Cancel's topics
  seen       \* history: the topics as replayed from the changes delivered

mapVars == <<topics, members, closed, brChan>>
lockVars == <<writer, readers>>
castVars == <<pending, failed>>
vars == <<mapVars, lockVars, castVars, change, pc, done, cancelArg, seen>>

Changes == [added: SUBSET Topics, removed: SUBSET Topics]
NoChange == [added |-> {}, removed |-> {}]
Added(T) == [added |-> T, removed |-> {}]
Removed(T) == [added |-> {}, removed |-> T]

\* What a reader of the channel believes after one more change.
Apply(T, ch) == (T \cup ch.added) \ ch.removed

SubPC == {"idle", "subscribe", "subscribeSend", "watch", "unsubscribe",
          "unsubscribeSend", "end", "panicked"}
PublisherPC == {"idle", "receive", "unsubscribe", "unsubscribeSend"}
CallerPC == {"idle", "cancel", "cancelSend", "close"}

\* The write lock is requested or held in these, and held in a send.
SendPC == {"subscribeSend", "unsubscribeSend", "cancelSend"}
WritePC == {"subscribe", "unsubscribe", "cancel", "close"} \cup SendPC

TypeOK ==
  /\ topics \subseteq Topics
  /\ members \in [Topics -> SUBSET Subs]
  /\ closed \in BOOLEAN
  /\ brChan \in {"none", "open", "closed"}
  /\ change \in Changes
  /\ writer \in Threads \cup {NoThread}
  /\ readers \subseteq Publishers
  /\ pc \in [Threads -> SubPC \cup PublisherPC \cup CallerPC]
  /\ \A s \in Subs : pc[s] \in SubPC
  /\ \A p \in Publishers : pc[p] \in PublisherPC
  /\ \A c \in Callers : pc[c] \in CallerPC
  /\ done \in [Subs -> BOOLEAN]
  /\ pending \in [Publishers -> SUBSET Subs]
  /\ failed \in [Publishers -> SUBSET Subs]
  /\ cancelArg \in [Callers -> SUBSET Topics]
  /\ seen \subseteq Topics

\* NewHub, with or without a channel.
Init ==
  /\ topics = {}
  /\ members = [t \in Topics |-> {}]
  /\ closed = FALSE
  /\ brChan \in {"none", "open"}
  /\ change = NoChange
  /\ writer = NoThread
  /\ readers = {}
  /\ pc = [t \in Threads |-> "idle"]
  /\ done = [s \in Subs |-> FALSE]
  /\ pending = [p \in Publishers |-> {}]
  /\ failed = [p \in Publishers |-> {}]
  /\ cancelArg = [c \in Callers |-> {}]
  /\ seen = {}

-----------------------------------------------------------------------------
(***************************************************************************)
(* sync.RWMutex: Lock queues behind other writers, then keeps new readers  *)
(* out, and is granted when the readers inside have left; it does not know *)
(* that the goroutine that asks may be one of those readers.               *)
(***************************************************************************)

Goto(t, label) == pc' = [pc EXCEPT ![t] = label]

\* mu.Lock() up to the point where new readers wait.
Lock(t, from, to) ==
  /\ pc[t] = from
  /\ writer = NoThread
  /\ writer' = t
  /\ Goto(t, to)

Granted(t) == writer = t /\ readers = {}

\* The deferred Unlock, and the deferred RUnlock of Broadcast after it.
Unlock(t) == writer' = NoThread /\ readers' = readers \ {t}

\* A mutant: unlock before the send, to not hold the lock while it blocks.
SendOrReturnMutant(t, send, ch, sendLabel, returnLabel) ==
  IF send /\ brChan = "open"
    THEN change' = ch /\ Goto(t, sendLabel) /\ Unlock(t)
    ELSE Goto(t, returnLabel) /\ Unlock(t) /\ UNCHANGED change

\* The tail of a method that holds the lock: send the change if there is
\* one to send, or unlock and return.
SendOrReturn(t, send, ch, sendLabel, returnLabel) ==
  IF send /\ brChan = "open"
    THEN change' = ch /\ Goto(t, sendLabel) /\ UNCHANGED lockVars
    ELSE Goto(t, returnLabel) /\ Unlock(t) /\ UNCHANGED change

-----------------------------------------------------------------------------
(***************************************************************************)
(* Subscribe                                                               *)
(***************************************************************************)

\* Subscribe up to mu.Lock().
Subscribe(s) ==
  /\ Lock(s, "idle", "subscribe")
  /\ UNCHANGED <<mapVars, readers, castVars, change, done, cancelArg, seen>>

\* A mutant: the map is made again when it is nil.
WritePanicsMutant == FALSE

\* After Close the map is nil, and a write to it panics.
WritePanics == closed

\* Subscribe under the lock.  The deferred Unlock runs after a panic too.
Subscribed(s) ==
  /\ pc[s] = "subscribe"
  /\ Granted(s)
  /\ LET t == TopicOf[s] IN
       \/ /\ WritePanics
          /\ Goto(s, "panicked")
          /\ Unlock(s)
          /\ UNCHANGED <<topics, members, change>>
       \/ /\ ~WritePanics
          /\ topics' = topics \cup {t}
          /\ members' = [members EXCEPT ![t] = @ \cup {s}]
          /\ SendOrReturn(s, t \notin topics, Added({t}),
                          "subscribeSend", "watch")
  /\ UNCHANGED <<closed, brChan, castVars, done, cancelArg, seen>>

\* The context given to Subscribe ends, at any time.
ContextDone(s) ==
  /\ ~done[s]
  /\ done' = [done EXCEPT ![s] = TRUE]
  /\ UNCHANGED <<mapVars, lockVars, castVars, change, pc, cancelArg, seen>>

-----------------------------------------------------------------------------
(***************************************************************************)
(* unsubscribe, called by the watcher goroutine of a subscription and by   *)
(* Broadcast for the subscriptions whose callbacks failed                  *)
(***************************************************************************)

\* A mutant: the watcher subscribes again.
WatchMutant(s) ==
  /\ done[s]
  /\ Lock(s, "watch", "subscribe")
  /\ UNCHANGED <<mapVars, readers, castVars, change, done, cancelArg, seen>>

\* The watcher goroutine wakes up and calls unsubscribe, up to mu.Lock().
Watch(s) ==
  /\ done[s]
  /\ Lock(s, "watch", "unsubscribe")
  /\ UNCHANGED <<mapVars, readers, castVars, change, done, cancelArg, seen>>

\* The subscriptions that x passed to unsubscribe.
Batch(x) == IF x \in Subs THEN {x} ELSE failed[x]

\* A mutant: a topic that is not in the map is not skipped.
EmptiedMutant(batch) ==
  {t \in Topics : /\ \E s \in batch : TopicOf[s] = t
                  /\ members[t] \ batch = {}}

\* Topics that lose their last subscription with the batch.
Emptied(batch) ==
  {t \in topics : /\ \E s \in batch : TopicOf[s] = t
                  /\ members[t] \ batch = {}}

AfterUnsubscribe(x) == IF x \in Subs THEN "end" ELSE "idle"

\* unsubscribe under the lock.
Unsubscribed(x) ==
  /\ pc[x] = "unsubscribe"
  /\ Granted(x)
  /\ LET batch == Batch(x)
         gone == Emptied(batch)
     IN /\ topics' = topics \ gone
        /\ members' = [t \in Topics |-> members[t] \ batch]
        /\ done' = [s \in Subs |->
                      done[s] \/ (s \in batch /\ TopicOf[s] \in topics)]
        /\ SendOrReturn(x, gone # {}, Removed(gone),
                        "unsubscribeSend", AfterUnsubscribe(x))
  /\ UNCHANGED <<closed, brChan, castVars, cancelArg, seen>>

-----------------------------------------------------------------------------
(***************************************************************************)
(* Cancel and Close                                                        *)
(***************************************************************************)

\* A mutant: the subscriptions are dropped from the map and not canceled.
CancelAllMutant(T) == done

\* The contexts after sub.cancel() of every subscription on topics T.
CancelAll(T) == [s \in Subs |-> done[s] \/ \E t \in T : s \in members[t]]

\* Cancel up to mu.Lock().
Cancel(c, T) ==
  /\ Lock(c, "idle", "cancel")
  /\ cancelArg' = [cancelArg EXCEPT ![c] = T]
  /\ UNCHANGED <<mapVars, readers, castVars, change, done, seen>>

\* Cancel under the lock.  It reports every topic it was given, present or
\* not.
Canceled(c) ==
  /\ pc[c] = "cancel"
  /\ Granted(c)
  /\ LET T == cancelArg[c] IN
       /\ done' = CancelAll(T)
       /\ topics' = topics \ T
       /\ members' = [t \in Topics |-> IF t \in T THEN {} ELSE members[t]]
       /\ SendOrReturn(c, T # {}, Removed(T), "cancelSend", "idle")
  /\ cancelArg' = [cancelArg EXCEPT ![c] = {}]
  /\ UNCHANGED <<closed, brChan, castVars, seen>>

\* A mutant: Close does not take the lock.
CloseMutant(c) ==
  /\ pc[c] = "idle"
  /\ done' = CancelAll(Topics)
  /\ topics' = {}
  /\ members' = [t \in Topics |-> {}]
  /\ closed' = TRUE
  /\ brChan' = IF brChan = "open" THEN "closed" ELSE brChan
  /\ UNCHANGED <<lockVars, castVars, change, pc, cancelArg, seen>>

\* Close up to mu.Lock().
Close(c) ==
  /\ Lock(c, "idle", "close")
  /\ UNCHANGED <<mapVars, readers, castVars, change, done, cancelArg, seen>>

\* Close under the lock: it closes the channel and sends nothing.
Closed(c) ==
  /\ pc[c] = "close"
  /\ Granted(c)
  /\ done' = CancelAll(Topics)
  /\ topics' = {}
  /\ members' = [t \in Topics |-> {}]
  /\ closed' = TRUE
  /\ brChan' = IF brChan = "open" THEN "closed" ELSE brChan
  /\ Goto(c, "idle")
  /\ Unlock(c)
  /\ UNCHANGED <<castVars, change, cancelArg, seen>>

-----------------------------------------------------------------------------
(***************************************************************************)
(* The channel, and Broadcast                                              *)
(***************************************************************************)

\* Mutants: every sender goes on to watch; no watcher is started once the
\* change is delivered.
AfterSendWatches(t) == "watch"
AfterSendEnds(t) == IF t \in Subs THEN "end" ELSE "idle"

\* Where the sender goes on: Subscribe starts the watcher; unsubscribe and
\* Cancel return.
AfterSend(t) ==
  IF pc[t] = "subscribeSend" THEN "watch" ELSE AfterUnsubscribe(t)

\* The reader of the channel takes the change; the sender unlocks and
\* returns.
Deliver(t) ==
  /\ pc[t] \in SendPC
  /\ Goto(t, AfterSend(t))
  /\ seen' = Apply(seen, change)
  /\ change' = NoChange
  /\ Unlock(t)
  /\ UNCHANGED <<mapVars, castVars, done, cancelArg>>

\* A mutant: Broadcast unlocks before it waits for the callbacks.
BroadcastMutant(p, t) ==
  /\ pc[p] = "idle"
  /\ writer = NoThread
  /\ t \in topics
  /\ pending' = [pending EXCEPT ![p] = members[t]]
  /\ failed' = [failed EXCEPT ![p] = {}]
  /\ Goto(p, "receive")
  /\ UNCHANGED <<mapVars, lockVars, change, done, cancelArg, seen>>

\* Broadcast takes the read lock and starts a callback per subscription.
\* On a topic without subscriptions it changes nothing.
Broadcast(p, t) ==
  /\ pc[p] = "idle"
  /\ writer = NoThread
  /\ t \in topics
  /\ readers' = readers \cup {p}
  /\ pending' = [pending EXCEPT ![p] = members[t]]
  /\ failed' = [failed EXCEPT ![p] = {}]
  /\ Goto(p, "receive")
  /\ UNCHANGED <<mapVars, writer, change, done, cancelArg, seen>>

\* A mutant: a callback that succeeds is not counted as complete.
ReceivedMutant(p, s, err) ==
  /\ pc[p] = "receive"
  /\ s \in pending[p]
  /\ pending' = [pending EXCEPT ![p] = IF err THEN @ \ {s} ELSE @]
  /\ failed' = [failed EXCEPT ![p] = IF err THEN @ \cup {s} ELSE @]
  /\ UNCHANGED <<mapVars, lockVars, change, pc, done, cancelArg, seen>>

\* The receive callback of s returns to Broadcast, with an error or not.
Received(p, s, err) ==
  /\ pc[p] = "receive"
  /\ s \in pending[p]
  /\ pending' = [pending EXCEPT ![p] = @ \ {s}]
  /\ failed' = [failed EXCEPT ![p] = IF err THEN @ \cup {s} ELSE @]
  /\ UNCHANGED <<mapVars, lockVars, change, pc, done, cancelArg, seen>>

\* A mutant: the deferred RUnlock is missing.
BroadcastReturnsMutant(p) ==
  /\ pc[p] = "receive"
  /\ pending[p] = {}
  /\ failed[p] = {}
  /\ Goto(p, "idle")
  /\ UNCHANGED <<mapVars, lockVars, castVars, change, done, cancelArg, seen>>

\* wg.Wait() returns and no callback failed: RUnlock.
BroadcastReturns(p) ==
  /\ pc[p] = "receive"
  /\ pending[p] = {}
  /\ failed[p] = {}
  /\ readers' = readers \ {p}
  /\ Goto(p, "idle")
  /\ UNCHANGED <<mapVars, writer, castVars, change, done, cancelArg, seen>>

\* wg.Wait() returns and some callback failed: unsubscribe, up to mu.Lock(),
\* with the read lock still held.
BroadcastUnsubscribes(p) ==
  /\ pending[p] = {}
  /\ failed[p] # {}
  /\ Lock(p, "receive", "unsubscribe")
  /\ UNCHANGED <<mapVars, readers, castVars, change, done, cancelArg, seen>>

-----------------------------------------------------------------------------
SubNext == \E s \in Subs : Subscribe(s) \/ Subscribed(s) \/ Watch(s)
CallerNext == \E c \in Callers : \/ \E T \in SUBSET Topics : Cancel(c, T)
                                 \/ Canceled(c)
                                 \/ Close(c)
                                 \/ Closed(c)
PublisherNext ==
  \E p \in Publishers : \/ \E t \in Topics : Broadcast(p, t)
                        \/ BroadcastReturns(p)
                        \/ BroadcastUnsubscribes(p)

Next == \/ SubNext
        \/ CallerNext
        \/ PublisherNext
        \/ \E s \in Subs : ContextDone(s)
        \/ \E x \in Subs \cup Publishers : Unsubscribed(x)
        \/ \E t \in Threads : Deliver(t)
        \/ \E p \in Publishers, s \in Subs :
             Received(p, s, FALSE) \/ (s \in Faulty /\ Received(p, s, TRUE))

Spec == Init /\ [][Next]_vars

(***************************************************************************)
(* Goroutines that can run do run, callbacks return, and the reader of the *)
(* channel keeps reading.  Lock is strongly fair: sync.Mutex hands itself  *)
(* to a waiter that has waited for 1ms, so no waiter is overtaken forever. *)
(* Nothing forces a goroutine to make a call or a context to end.          *)
(***************************************************************************)
Fairness ==
  /\ \A s \in Subs : WF_vars(Subscribed(s)) /\ SF_vars(Watch(s))
  /\ \A x \in Subs \cup Publishers : WF_vars(Unsubscribed(x))
  /\ \A c \in Callers : WF_vars(Canceled(c)) /\ WF_vars(Closed(c))
  /\ \A t \in Threads : WF_vars(Deliver(t))
  /\ \A p \in Publishers :
       /\ WF_vars(\E s \in Subs : Received(p, s, FALSE))
       /\ WF_vars(BroadcastReturns(p))
       /\ SF_vars(BroadcastUnsubscribes(p))

FairSpec == Spec /\ Fairness

-----------------------------------------------------------------------------
Active(s) == s \in members[TopicOf[s]]

\* Subscribe has put s in the map.
Registered(s) == pc[s] \in {"subscribeSend", "watch", "unsubscribe",
                            "unsubscribeSend", "end"}

\* Replaying every change delivered, and the one being sent, gives exactly
\* the topics of the map: the reader of brChanges is never more than one
\* change behind and never misses one (hub.go:28-29, 45-47), whatever
\* Subscribe, unsubscribe and Cancel race.
ChangesReplay == brChan = "open" => Apply(seen, change) = topics

\* A change that Subscribe or unsubscribe reports is news to the reader: a
\* topic is announced only to a reader who does not have it, and a watcher
\* reports the end of a topic only to a reader who still has it, also when
\* Cancel removed the topic before the watcher ran (hub.go:151-153).  Not so what
\* Cancel reports: it names every topic it was given, also one that was never
\* added or is long gone (hub.go:135-136).
ChangesAreNews ==
  brChan = "open" =>
    /\ change.added \cap seen = {}
    /\ \A x \in Subs \cup Publishers :
         pc[x] = "unsubscribeSend" => change.removed \subseteq seen

\* A topic is in the map exactly while it has an active subscription: no
\* path leaves an empty broadcasting behind, or subscriptions without a key,
\* which would keep the topic's publisher running or never start it.
NoEmptyBroadcasting == \A t \in Topics : t \in topics <=> members[t] # {}

\* A subscription that is not active any more has its context done, so the
\* channel that Subscribe returned is closed (hub.go:82-83), also when
\* unsubscribe skipped its cancel because the topic was gone (hub.go:152).
InactiveIsDone == \A s \in Subs : Registered(s) /\ ~Active(s) => done[s]

\* Broadcast runs and collects callbacks of active subscriptions only: none
\* is removed, by its own watcher, Cancel or Close, while its callback runs
\* or waits to be reported (hub.go:171-172).
ReceiversAreActive ==
  \A p \in Publishers : pc[p] \in {"receive", "unsubscribe"} =>
    \A s \in pending[p] \cup failed[p] : Active(s)

\* Close never closes the channel under a goroutine that is sending on it
\* (hub.go:61), and forgets every subscription.
ClosedIsQuiet == closed => /\ topics = {}
                           /\ change = NoChange
                           /\ brChan # "open"

\* Once closed, the hub reports nothing and activates no subscription.
ClosedIsFinal ==
  [][closed => /\ closed'
               /\ seen' = seen
               /\ \A s \in Subs : Active(s)' => Active(s)]_vars

\* The hub implements the Registry: a subscription is active at most once
\* and for one stretch of time, and no subscription comes or goes while the
\* reader of the channel has yet to be told of the previous change.
R == INSTANCE Registry WITH
       active <- {s \in Subs : Active(s)},
       ended <- {s \in Subs : Registered(s) /\ ~Active(s)},
       feed <- seen,
       hasFeed <- brChan = "open",
       over <- closed
ImplementsRegistry == R!Spec

\* A callback has failed, and its Broadcast waits for itself (hub.go:203)
Wedged == \E p \in Publishers : pc[p] \in {"receive", "unsubscribe"} /\ failed[p] # {}

\* A subscription whose context is done is removed from the hub
\* (hub.go:81-82) as long as no callback fails.
DoneIsRemoved == \A s \in Subs : done[s] /\ Active(s) ~> ~Active(s) \/ Wedged

\* Cancel and Close return, although they wait for running callbacks and
\* for the reader of the channel, as long as no callback fails.
CallsReturn == \A c \in Callers : pc[c] # "idle" ~> pc[c] = "idle" \/ Wedged

\* Broadcast blocks only until the callbacks complete (hub.go:167-168), as
\* long as none fails.
BroadcastCompletes ==
  \A p \in Publishers : pc[p] = "receive" ~> pc[p] = "idle" \/ Wedged

\* hub.go:169: "Subscriptions whose receiver callbacks returned errors are
\* deactivated."
FailedIsDeactivated ==
  \A p \in Publishers, s \in Subs : s \in failed[p] /\ Active(s) ~> ~Active(s)
=============================================================================
