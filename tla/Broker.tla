------------------------------- MODULE Broker -------------------------------
(***************************************************************************)
(* pubsub/broker.go: the Broker on top of a Hub.  Serve reads the hub's    *)
(* changes and keeps one PUB handler goroutine per topic with subscribers; *)
(* Subscribe brackets a hub subscription with the SUB and UNSUB handlers   *)
(* and wraps its receive callback.                                         *)
(*                                                                         *)
(* The hub's actions are those of module Hub.  Its publishers are the PUB  *)
(* handler goroutines that Serve starts, in the order they are started;    *)
(* handlers are user code: they broadcast, return when they like, and      *)
(* return after their context is done.  The hub is closed only by the      *)
(* goroutine Closer that Serve starts, as in the repository.               *)
(***************************************************************************)
EXTENDS Hub

CONSTANT Closer   \* the goroutine of Serve that closes the hub

ASSUME CloserAssumption == Closer \in Callers

\* The callback that Subscribe gives to the hub fails whenever cctx is done,
\* so any of them may fail.
ASSUME AllFaultyAssumption == Faulty = Subs

VARIABLES
  handler,      \* which of the handlers of a subscription have run
  cctx,         \* Subscribe's cctx is done; the hub's context is its child
  passing,      \* per Broadcast, the broadcast handlers that are running
  serve,        \* Serve: "range" waits for a change, "apply" works on it
  got,          \* the rest of the change Serve works on
  srvDone,      \* Serve's ctx is done
  pubCancelers, \* the goroutine whose context the canceler cancels
  run,          \* PUB handler goroutines
  runTopic,     \* the topic of each
  runCanceled   \* their contexts canceled by their canceler

serveVars == <<serve, got, srvDone>>
pubVars == <<pubCancelers, run, runTopic, runCanceled>>
subVars == <<handler, cctx, passing>>
brokerVars == <<serveVars, pubVars, subVars>>
allVars == <<vars, brokerVars>>

BrokerTypes ==
  /\ handler \in [Subs -> {"none", "accepted", "rejected", "over"}]
  /\ cctx \in [Subs -> BOOLEAN]
  /\ passing \in [Publishers -> SUBSET Subs]
  /\ serve \in {"range", "apply", "returned"}
  /\ got \in Changes
  /\ srvDone \in BOOLEAN
  /\ pubCancelers \in [Topics -> Publishers \cup {NoThread}]
  /\ run \in [Publishers -> {"unused", "running", "returned"}]
  /\ runTopic \in [Publishers -> Topics \cup {NoThread}]
  /\ runCanceled \in [Publishers -> BOOLEAN]

BrokerTypeOK == TypeOK /\ BrokerTypes

\* NewBroker makes the hub with a channel.
BrokerInit ==
  /\ Init
  /\ brChan = "open"
  /\ handler = [s \in Subs |-> "none"]
  /\ cctx = [s \in Subs |-> FALSE]
  /\ passing = [p \in Publishers |-> {}]
  /\ serve = "range"
  /\ got = NoChange
  /\ srvDone = FALSE
  /\ pubCancelers = [t \in Topics |-> NoThread]
  /\ run = [p \in Publishers |-> "unused"]
  /\ runTopic = [p \in Publishers |-> NoThread]
  /\ runCanceled = [p \in Publishers |-> FALSE]

-----------------------------------------------------------------------------
(***************************************************************************)
(* Subscribe                                                               *)
(***************************************************************************)

\* TriggerSub: the SUB handler runs, and fails or not.
TriggerSub(s, result) ==
  /\ handler[s] = "none"
  /\ handler' = [handler EXCEPT ![s] = result]
  /\ UNCHANGED <<vars, cctx, passing, serveVars, pubVars>>

\* The context of the subscriber ends, or the broadcast handler fails and
\* the wrapper cancels cctx: the hub's context ends with it.
EndContext(s) ==
  /\ ~cctx[s]
  /\ cctx' = [cctx EXCEPT ![s] = TRUE]
  /\ done' = [done EXCEPT ![s] = TRUE]
  /\ UNCHANGED <<mapVars, lockVars, castVars, change, pc, cancelArg, seen,
                 handler, passing, serveVars, pubVars>>

\* Subscribe has returned from the hub and started its goroutine.
HasReturned(s) == pc[s] \in {"watch", "unsubscribe", "unsubscribeSend", "end"}

\* A mutant: the goroutine waits for cctx and not for removed, and runs the
\* UNSUB handler only for a subscription still in the hub.
TriggerUnsubMutant(s) ==
  /\ handler[s] = "accepted"
  /\ Active(s)
  /\ cctx[s]
  /\ handler' = [handler EXCEPT ![s] = "over"]
  /\ UNCHANGED <<vars, cctx, passing, serveVars, pubVars>>

\* The goroutine that waits on removed runs the UNSUB handler.
TriggerUnsub(s) ==
  /\ handler[s] = "accepted"
  /\ HasReturned(s)
  /\ done[s]
  /\ handler' = [handler EXCEPT ![s] = "over"]
  /\ UNCHANGED <<vars, cctx, passing, serveVars, pubVars>>

\* A mutant: the wrapper does not look at cctx.
ReceiveErrorMutant(s) == FALSE

\* The callback that Subscribe gives to the hub finds cctx done.
ReceiveError(s) == cctx[s]

\* The callback finds cctx not done and calls the broadcast handler.
ReceivePasses(p, s) ==
  /\ pc[p] = "receive"
  /\ s \in pending[p] \ passing[p]
  /\ ~ReceiveError(s)
  /\ passing' = [passing EXCEPT ![p] = @ \cup {s}]
  /\ UNCHANGED <<vars, handler, cctx, serveVars, pubVars>>

\* The callback returns.  The error of the broadcast handler is returned
\* after the wrapper has canceled cctx (EndContext); the handler may also
\* return nil although cctx has ended meanwhile.
ReceiveReturns(p, s, err) ==
  /\ IF s \in passing[p] THEN err => cctx[s] ELSE err /\ ReceiveError(s)
  /\ Received(p, s, err)
  /\ passing' = [passing EXCEPT ![p] = @ \ {s}]
  /\ UNCHANGED <<handler, cctx, serveVars, pubVars>>

-----------------------------------------------------------------------------
(***************************************************************************)
(* Serve                                                                   *)
(***************************************************************************)

\* for change := range b.changes
ServeReceives(t) ==
  /\ serve = "range"
  /\ Deliver(t)
  /\ serve' = "apply"
  /\ got' = change
  /\ UNCHANGED <<srvDone, pubVars, subVars>>

\* The next goroutine to start.
FreshRun == CHOOSE p \in Publishers : run[p] = "unused"

\* Serve leaves a topic alone that has a canceler.
SkipPub(t) == pubCancelers[t] # NoThread

\* TriggerPub: store a canceler and start the PUB handler.
TriggerPub(t) ==
  /\ \E p \in Publishers : run[p] = "unused"
  /\ pubCancelers' = [pubCancelers EXCEPT ![t] = FreshRun]
  /\ run' = [run EXCEPT ![FreshRun] = "running"]
  /\ runTopic' = [runTopic EXCEPT ![FreshRun] = t]
  /\ UNCHANGED runCanceled

\* One pass of the loop over change.Added.
ServeAdded(t) ==
  /\ serve = "apply"
  /\ t \in got.added
  /\ got' = [got EXCEPT !.added = @ \ {t}]
  /\ IF SkipPub(t) THEN UNCHANGED pubVars ELSE TriggerPub(t)
  /\ UNCHANGED <<vars, serve, srvDone, subVars>>

\* A mutant: the canceler is called and stays in the map.
ForgetCancelerMutant(t) == pubCancelers

\* delete(b.pubCancelers, topic)
ForgetCanceler(t) == [pubCancelers EXCEPT ![t] = NoThread]

\* A mutant: the canceler is forgotten and not called.
CancelPubMutant(t) ==
  /\ pubCancelers' = ForgetCanceler(t)
  /\ UNCHANGED <<run, runTopic, runCanceled>>

\* CancelPub: call the canceler and forget it.
CancelPub(t) ==
  LET p == pubCancelers[t] IN
    IF p = NoThread
      THEN UNCHANGED pubVars
      ELSE /\ runCanceled' = [runCanceled EXCEPT ![p] = TRUE]
           /\ pubCancelers' = ForgetCanceler(t)
           /\ UNCHANGED <<run, runTopic>>

\* One pass of the loop over change.Removed.
ServeRemoved(t) ==
  /\ serve = "apply"
  /\ got.added = {}
  /\ t \in got.removed
  /\ got' = [got EXCEPT !.removed = @ \ {t}]
  /\ CancelPub(t)
  /\ UNCHANGED <<vars, serve, srvDone, subVars>>

\* The change is worked off.
ServeLoops ==
  /\ serve = "apply"
  /\ got = NoChange
  /\ serve' = "range"
  /\ UNCHANGED <<vars, got, srvDone, pubVars, subVars>>

\* A mutant: Serve does not notice that the channel is closed.
ServeReturnsMutant == FALSE

\* The channel is closed: Serve returns ctx.Err().
ServeReturns ==
  /\ serve = "range"
  /\ brChan = "closed"
  /\ serve' = "returned"
  /\ UNCHANGED <<vars, got, srvDone, pubVars, subVars>>

\* Serve's ctx ends, and the contexts of the PUB handlers with it.
ServeContextDone ==
  /\ ~srvDone
  /\ srvDone' = TRUE
  /\ UNCHANGED <<vars, serve, got, pubVars, subVars>>

RunDone(p) == srvDone \/ runCanceled[p]

\* A PUB handler returns, canceled or by itself.
PubReturns(p) ==
  /\ run[p] = "running"
  /\ pc[p] = "idle"
  /\ run' = [run EXCEPT ![p] = "returned"]
  /\ UNCHANGED <<vars, serveVars, pubCancelers, runTopic, runCanceled,
                 subVars>>

-----------------------------------------------------------------------------
(***************************************************************************)
(* The steps of the hub inside the broker                                  *)
(***************************************************************************)

HubSubscribe(s) == handler[s] = "accepted" /\ Subscribe(s)

\* BrokerContext.Publish and Broadcast, from a PUB handler.
HubBroadcast(p, t) == run[p] = "running" /\ Broadcast(p, t)

\* A mutant: the channel is closed without the hub's lock.
HubCloseMutant ==
  /\ srvDone /\ ~closed
  /\ closed' = TRUE
  /\ brChan' = "closed"
  /\ UNCHANGED <<topics, members, lockVars, castVars, change, pc, done,
                 cancelArg, seen>>

\* go func() { <-ctx.Done(); b.hub.Close() }
HubClose == srvDone /\ ~closed /\ Close(Closer)

HubStep ==
  \/ \E s \in Subs : HubSubscribe(s) \/ Subscribed(s) \/ Watch(s)
  \/ \E x \in Subs \cup Publishers : Unsubscribed(x)
  \/ \E c \in Callers \ {Closer} : \/ \E T \in SUBSET Topics : Cancel(c, T)
                                   \/ Canceled(c)
  \/ HubClose
  \/ Closed(Closer)
  \/ \E p \in Publishers : \/ \E t \in Topics : HubBroadcast(p, t)
                           \/ BroadcastReturns(p)
                           \/ BroadcastUnsubscribes(p)

BrokerNext ==
  \/ HubStep /\ UNCHANGED brokerVars
  \/ \E s \in Subs : \/ \E r \in {"accepted", "rejected"} : TriggerSub(s, r)
                     \/ EndContext(s)
                     \/ TriggerUnsub(s)
  \/ \E t \in Threads : ServeReceives(t)
  \/ \E t \in Topics : ServeAdded(t) \/ ServeRemoved(t)
  \/ ServeLoops \/ ServeReturns \/ ServeContextDone
  \/ \E p \in Publishers :
       \/ PubReturns(p)
       \/ \E s \in Subs : \/ ReceivePasses(p, s)
                          \/ \E err \in BOOLEAN : ReceiveReturns(p, s, err)

BrokerSpec == BrokerInit /\ [][BrokerNext]_allVars

InBroker(A) == A /\ UNCHANGED brokerVars

(***************************************************************************)
(* Fairness as in Hub.  Steps of different goroutines share a conjunct     *)
(* where that says the same: one goroutine at a time holds the write lock, *)
(* and each of the requests for it below, like a handler that runs or      *)
(* returns, happens at most once.  Handlers return once their context is   *)
(* done; a Subscribe call whose SUB handler accepted goes on to the hub;   *)
(* Close is called once Serve's ctx is done.                               *)
(***************************************************************************)
LockRequest == \/ \E s \in Subs : HubSubscribe(s) \/ Watch(s)
               \/ \E p \in Publishers : BroadcastUnsubscribes(p)
               \/ HubClose
LockHolder == \/ \E s \in Subs : Subscribed(s)
              \/ \E x \in Subs \cup Publishers : Unsubscribed(x)
              \/ \E c \in Callers : Canceled(c) \/ Closed(c)
Callback(p, s) == \/ ReceivePasses(p, s)
                  \/ \E err \in BOOLEAN : ReceiveReturns(p, s, err)
ServeStep == \/ \E t \in Threads : ServeReceives(t)
             \/ \E t \in Topics : ServeAdded(t) \/ ServeRemoved(t)
             \/ ServeLoops
             \/ ServeReturns

BrokerFairness ==
  /\ SF_allVars(InBroker(LockRequest))
  /\ WF_allVars(InBroker(LockHolder))
  /\ \A p \in Publishers : /\ WF_allVars(\E s \in Subs : Callback(p, s))
                            /\ WF_allVars(InBroker(BroadcastReturns(p)))
  /\ WF_allVars(\E s \in Subs : TriggerUnsub(s))
  /\ SF_allVars(\E p \in Publishers : RunDone(p) /\ PubReturns(p))
  /\ WF_allVars(ServeStep)

FairBrokerSpec == BrokerSpec /\ BrokerFairness

-----------------------------------------------------------------------------
\* Topics with a canceler.
Served == {t \in Topics : pubCancelers[t] # NoThread}

\* When Serve has worked off what the hub reported, the topics with a PUB
\* handler are exactly the topics with subscriptions; before that, applying
\* what is still on its way gives them (broker.go:229-234).
PubsFollowTopics ==
  brChan = "open" => Apply(Apply(Served, got), change) = topics

\* A PUB handler that was not canceled can still be: its canceler is the one
\* in pubCancelers for its topic.  So none leaks, and no topic has two
\* handlers that were not canceled.
LivePubHasCanceler ==
  \A p \in Publishers : run[p] = "running" /\ ~runCanceled[p]
                          => pubCancelers[runTopic[p]] = p

\* Once the UNSUB handler of a subscription has run, no callback calls its
\* broadcast handler any more, although Broadcast may still find it in the
\* hub; a handler that was called before may still be running
\* (broker.go:210-223).
NoDeliveryAfterUnsub ==
  [][\A p \in Publishers, s \in Subs :
       s \in passing'[p] \ passing[p] => handler[s] = "accepted"]_allVars

\* The broker uses the hub as the hub is specified: every step of the broker
\* is a step of Hub or leaves the hub alone, so what is shown of every Hub
\* holds of the broker's.
ImplementsHub == Spec

\* Serve returns once its context is done, unless a Broadcast is wedged.
ServeEnds == srvDone ~> serve = "returned" \/ Wedged

\* The PUB handler of the topic was started and not canceled.
HasPub(t) == \E p \in Publishers : /\ run[p] # "unused"
                                   /\ runTopic[p] = t
                                   /\ ~runCanceled[p]

\* A topic with a subscription gets a PUB handler, again when it had one
\* before, unless it loses its subscriptions (also by the end of the hub)
\* or a Broadcast is wedged.
TopicIsServed ==
  \A t \in Topics : t \in topics ~> HasPub(t) \/ t \notin topics \/ Wedged

\* The PUB handlers of a topic without subscriptions come to an end.
UnusedPubEnds ==
  \A p \in Publishers :
    run[p] = "running" /\ runTopic[p] \notin topics /\ ~closed
      ~> \/ run[p] = "returned"
         \/ runTopic[p] \in topics
         \/ Wedged

\* A subscription that the SUB handler accepted and whose context is done
\* gets its UNSUB handler run (broker.go:199), unless Subscribe panicked on
\* the closed hub or a Broadcast is wedged.
UnsubRuns ==
  \A s \in Subs : handler[s] = "accepted" /\ cctx[s]
                    ~> handler[s] = "over" \/ pc[s] = "panicked" \/ Wedged
=============================================================================
