-------------------------------- MODULE Conn --------------------------------
(***************************************************************************)
(* actioncable: one server-side Action Cable connection (connections.go),  *)
(* its ChannelDispatcher (channels.go) and the subscriptions whose         *)
(* callbacks send to the client (subscriptions.go, and the channel of      *)
(* turbostreams/actioncable-channel.go).                                   *)
(*                                                                         *)
(* Goroutines: receiveAll and the read goroutine it starts, sendAll, the   *)
(* goroutine that calls Serve and then Close, and one goroutine per        *)
(* subscription that runs its broadcast callback.  They meet on the        *)
(* unbuffered channel toClient, whose only receiver is sendAll.            *)
(***************************************************************************)
CONSTANTS Idents,      \* subscription identifiers a client may name
          Acceptable,  \* those that parse, pass the checks and have a factory
          Insts,       \* subscriptions: bounds the subscribe commands handled
          NoInst

ASSUME AcceptableAssumption == Acceptable \subseteq Idents
ASSUME NoInstAssumption == NoInst \notin Insts

Commands == {"subscribe", "unsubscribe", "message", "unknown"}
Replies == {"confirm", "reject"}

VARIABLES
  rx,       \* receiveAll: "read" in its select, "drain" after ctx is done,
            \* "handle" a command, "reply" in a bare send on toClient
  reader,   \* the goroutine in readAsMarshaled
  command,  \* what it read: <<command, identifier>>
  reply,    \* what subscribe sends
  tx,       \* sendAll: "welcome", "loop" in its select, "write" a message
  message,  \* what it took from toClient
  main,     \* "serving", "served", then Close: "disconnected", "closed"
  egDone,   \* the context of the errgroup is done
  shut,     \* toClient is closed
  unsubscribers, \* identifier -> the subscription whose context it cancels
  channels, \* ChannelDispatcher.channels
  sub,      \* subscriptions: "live" in the hub, "refused" by the SUB
            \* handler, "canceled"
  ident,    \* the identifier of each
  send      \* its callback: "sending" from the wrapper's check of its
            \* context up to the end of SendText

rxVars == <<rx, reader, command, reply>>
txVars == <<tx, message>>
subVars == <<unsubscribers, channels, sub, ident>>
vars == <<rxVars, txVars, main, egDone, shut, subVars, send>>

NoMessage == <<"none", NoInst>>
Data == <<"data", NoInst>>
Answers == Replies \X Idents

ConnTypeOK ==
  /\ rx \in {"read", "drain", "handle", "reply", "returned"}
  /\ reader \in {"reading", "got", "failed"}
  /\ command \in (Commands \X Idents) \cup {NoMessage}
  /\ reply \in Answers \cup {NoMessage}
  /\ tx \in {"welcome", "loop", "write", "returned"}
  /\ message \in Answers \cup {NoMessage, Data}
  /\ main \in {"serving", "served", "disconnected", "closed"}
  /\ egDone \in BOOLEAN
  /\ shut \in BOOLEAN
  /\ unsubscribers \in [Idents -> Insts \cup {NoInst}]
  /\ channels \subseteq Idents
  /\ sub \in [Insts -> {"unused", "live", "refused", "canceled"}]
  /\ ident \in [Insts -> Idents \cup {NoInst}]
  /\ send \in [Insts -> {"idle", "sending", "panicked"}]

\* Upgrade, and Serve as it starts its two goroutines.
Init ==
  /\ rx = "read"
  /\ reader = "reading"
  /\ command = NoMessage
  /\ reply = NoMessage
  /\ tx = "welcome"
  /\ message = NoMessage
  /\ main = "serving"
  /\ egDone = FALSE
  /\ shut = FALSE
  /\ unsubscribers = [i \in Idents |-> NoInst]
  /\ channels = {}
  /\ sub = [k \in Insts |-> "unused"]
  /\ ident = [k \in Insts |-> NoInst]
  /\ send = [k \in Insts |-> "idle"]

\* The context of a subscription is a child of the errgroup's.
ContextDone(k) == egDone \/ sub[k] = "canceled"

-----------------------------------------------------------------------------
(***************************************************************************)
(* receiveAll                                                              *)
(***************************************************************************)

Unused == {k \in Insts : sub[k] = "unused"}

\* The client sends a command, and the read goroutine has it.
ReadCommand(c, i) ==
  /\ reader = "reading"
  /\ c = "subscribe" => Unused # {}
  /\ reader' = "got"
  /\ command' = <<c, i>>
  /\ UNCHANGED <<rx, reply, txVars, main, egDone, shut, subVars, send>>

\* The client goes away, sends garbage, or the read deadline passes.
ReadFails ==
  /\ reader = "reading"
  /\ reader' = "failed"
  /\ UNCHANGED <<rx, command, reply, txVars, main, egDone, shut, subVars,
                 send>>

\* receiveAll returns an error: the errgroup cancels its context.
ReceiveReturns ==
  /\ rx' = "returned"
  /\ egDone' = TRUE
  /\ UNCHANGED <<reader, command, reply>>

\* Wait for the next command.
ReceiveNext ==
  /\ rx' = "read"
  /\ reader' = "reading"
  /\ command' = NoMessage
  /\ reply' = NoMessage
  /\ UNCHANGED egDone

\* case <-ctx.Done(): wait for the read goroutine, then return.
Drain ==
  /\ rx = "read"
  /\ egDone
  /\ rx' = "drain"
  /\ UNCHANGED <<reader, command, reply, txVars, main, egDone, shut, subVars,
                 send>>

\* A mutant: receiveAll does not wait for the read goroutine.
DrainedMutant ==
  /\ rx = "drain"
  /\ ReceiveReturns
  /\ UNCHANGED <<txVars, main, shut, subVars, send>>

\* <-received
Drained ==
  /\ rx = "drain"
  /\ reader # "reading"
  /\ ReceiveReturns
  /\ UNCHANGED <<txVars, main, shut, subVars, send>>

\* case <-received
Receive ==
  /\ rx = "read"
  /\ reader # "reading"
  /\ IF reader = "failed" \/ egDone
       THEN ReceiveReturns
       ELSE rx' = "handle" /\ UNCHANGED <<reader, command, reply, egDone>>
  /\ UNCHANGED <<txVars, main, shut, subVars, send>>

\* A bare send on toClient comes next, with no look at the context.
Reply(r, i) ==
  /\ rx' = "reply"
  /\ reply' = <<r, i>>
  /\ UNCHANGED <<reader, command, egDone>>

\* A mutant: the identifier is not looked up in unsubscribers.
AlreadySubscribedMutant(i) == FALSE

AlreadySubscribed(i) == unsubscribers[i] # NoInst

\* A mutant: the confirmation does not name the identifier.
SubscribeAgainMutant(i) ==
  /\ rx = "handle" /\ command = <<"subscribe", i>>
  /\ AlreadySubscribed(i)
  /\ Reply("confirm", NoInst)
  /\ UNCHANGED <<txVars, main, shut, subVars, send>>

\* subscribe, for an identifier with a subscription: just confirm it again.
SubscribeAgain(i) ==
  /\ rx = "handle" /\ command = <<"subscribe", i>>
  /\ AlreadySubscribed(i)
  /\ Reply("confirm", i)
  /\ UNCHANGED <<txVars, main, shut, subVars, send>>

\* subscribe: HandleSubscription returns nil.  The channel exists or can be
\* made; turbostreams' Channel.Subscribe returns nil whether the SUB handler
\* accepted the subscription or refused it.
SubscribeOK(i, k, result) ==
  /\ rx = "handle" /\ command = <<"subscribe", i>>
  /\ ~AlreadySubscribed(i)
  /\ i \in channels \cup Acceptable
  /\ k \in Unused /\ k = CHOOSE u \in Unused : TRUE
  /\ sub' = [sub EXCEPT ![k] = result]
  /\ ident' = [ident EXCEPT ![k] = i]
  /\ unsubscribers' = [unsubscribers EXCEPT ![i] = k]
  /\ channels' = channels \cup {i}
  /\ Reply("confirm", i)
  /\ UNCHANGED <<txVars, main, shut, send>>

\* subscribe: HandleSubscription returns an error, from the parser, a
\* checker, the factory or the channel; an existing channel that fails is
\* forgotten.
SubscribeFails(i) ==
  /\ rx = "handle" /\ command = <<"subscribe", i>>
  /\ ~AlreadySubscribed(i)
  /\ channels' = channels \ {i}
  /\ Reply("reject", i)
  /\ UNCHANGED <<txVars, main, shut, unsubscribers, sub, ident, send>>

\* The unsubscribe command.
Unsubscribe(i) ==
  /\ rx = "handle" /\ command = <<"unsubscribe", i>>
  /\ IF AlreadySubscribed(i)
       THEN /\ sub' = [sub EXCEPT ![unsubscribers[i]] = "canceled"]
            /\ unsubscribers' = [unsubscribers EXCEPT ![i] = NoInst]
       ELSE UNCHANGED <<sub, unsubscribers>>
  /\ ReceiveNext
  /\ UNCHANGED <<txVars, main, shut, channels, ident, send>>

\* The message command: HandleAction succeeds on a channel that can perform
\* it.
Action(i) ==
  /\ rx = "handle" /\ command = <<"message", i>>
  /\ i \in channels
  /\ ReceiveNext
  /\ UNCHANGED <<txVars, main, shut, subVars, send>>

\* The message command fails (no channel, or the channel fails), or the
\* command is unknown.
CommandFails ==
  /\ rx = "handle"
  /\ command[1] \in {"message", "unknown"}
  /\ ReceiveReturns
  /\ UNCHANGED <<txVars, main, shut, subVars, send>>

-----------------------------------------------------------------------------
(***************************************************************************)
(* sendAll                                                                 *)
(***************************************************************************)

\* sendAll returns an error: the errgroup cancels its context.
SendReturns ==
  /\ tx' = "returned"
  /\ message' = NoMessage
  /\ egDone' = TRUE

Welcome ==
  /\ tx = "welcome"
  /\ tx' = "loop"
  /\ UNCHANGED <<rxVars, message, main, egDone, shut, subVars, send>>

\* A mutant: sendAll does not look at the context.
SendAllDoneMutant == FALSE

\* case <-ctx.Done()
SendAllDone ==
  /\ tx = "loop"
  /\ egDone
  /\ SendReturns
  /\ UNCHANGED <<rxVars, main, shut, subVars, send>>

\* A write of the welcome, of a ping or of a message fails.
WriteFails ==
  /\ tx # "returned"
  /\ SendReturns
  /\ UNCHANGED <<rxVars, main, shut, subVars, send>>

\* case message := <-c.toClient, from subscribe.  After a rejection subscribe
\* returns an error.
TakeReply ==
  /\ rx = "reply"
  /\ tx = "loop"
  /\ tx' = "write"
  /\ message' = reply
  /\ IF reply[1] = "reject" THEN ReceiveReturns ELSE ReceiveNext
  /\ UNCHANGED <<main, shut, subVars, send>>

\* The message is written, or dropped when the context is done.
Write ==
  /\ tx = "write"
  /\ IF egDone
       THEN SendReturns
       ELSE /\ tx' = "loop"
            /\ message' = NoMessage
            /\ UNCHANGED egDone
  /\ UNCHANGED <<rxVars, main, shut, subVars, send>>

-----------------------------------------------------------------------------
(***************************************************************************)
(* The callbacks of the subscriptions                                      *)
(***************************************************************************)

\* A Broadcast calls the callback of a subscription in the hub, which finds
\* its context not done and renders the message.
CallbackStarts(k) ==
  /\ send[k] = "idle"
  /\ sub[k] = "live"
  /\ ~ContextDone(k)
  /\ send' = [send EXCEPT ![k] = "sending"]
  /\ UNCHANGED <<rxVars, txVars, main, egDone, shut, subVars>>

\* A mutant: SendText does not look at the context.
SendTextDoneMutant(k) == FALSE

\* SendText, case <-ctx.Done().
SendTextDone(k) ==
  /\ send[k] = "sending"
  /\ ContextDone(k)
  /\ send' = [send EXCEPT ![k] = "idle"]
  /\ UNCHANGED <<rxVars, txVars, main, egDone, shut, subVars>>

\* SendText, the send on toClient.
SendTextSends(k) ==
  /\ send[k] = "sending"
  /\ tx = "loop"
  /\ tx' = "write"
  /\ message' = Data
  /\ send' = [send EXCEPT ![k] = "idle"]
  /\ UNCHANGED <<rxVars, main, egDone, shut, subVars>>

\* SendText, the send on toClient after Close closed it: select may choose
\* this case although the context is done too.
SendTextPanics(k) ==
  /\ send[k] = "sending"
  /\ shut
  /\ send' = [send EXCEPT ![k] = "panicked"]
  /\ UNCHANGED <<rxVars, txVars, main, egDone, shut, subVars>>

-----------------------------------------------------------------------------
(***************************************************************************)
(* Serve and Close                                                         *)
(***************************************************************************)

\* The context given to Serve ends.
ServeContextDone ==
  /\ ~egDone
  /\ egDone' = TRUE
  /\ UNCHANGED <<rxVars, txVars, main, shut, subVars, send>>

\* eg.Wait()
Wait == rx = "returned" /\ tx = "returned"

ServeReturns ==
  /\ main = "serving"
  /\ Wait
  /\ main' = "served"
  /\ UNCHANGED <<rxVars, txVars, egDone, shut, subVars, send>>

\* disconnect: cancel every subscription, and write as a courtesy.
Disconnect ==
  /\ main = "served"
  /\ main' = "disconnected"
  /\ sub' = [k \in Insts |-> IF \E i \in Idents : unsubscribers[i] = k
                               THEN "canceled" ELSE sub[k]]
  /\ unsubscribers' = [i \in Idents |-> NoInst]
  /\ UNCHANGED <<rxVars, txVars, egDone, shut, channels, ident, send>>

\* The rest of Close.
CloseToClient ==
  /\ main = "disconnected"
  /\ main' = "closed"
  /\ shut' = TRUE
  /\ UNCHANGED <<rxVars, txVars, egDone, subVars, send>>

-----------------------------------------------------------------------------
ReceiveStep == \/ Drain \/ Drained \/ Receive \/ CommandFails
               \/ \E i \in Idents :
                    \/ SubscribeAgain(i) \/ SubscribeFails(i)
                    \/ Unsubscribe(i) \/ Action(i)
                    \/ \E k \in Insts, result \in {"live", "refused"} :
                         SubscribeOK(i, k, result)

SendStep == Welcome \/ SendAllDone \/ Write

SendText(k) == SendTextDone(k) \/ SendTextSends(k) \/ SendTextPanics(k)

CloseStep == ServeReturns \/ Disconnect \/ CloseToClient

Next ==
  \/ \E c \in Commands, i \in Idents : ReadCommand(c, i)
  \/ ReadFails
  \/ ReceiveStep
  \/ SendStep
  \/ TakeReply
  \/ WriteFails
  \/ \E k \in Insts : CallbackStarts(k) \/ SendText(k)
  \/ ServeContextDone
  \/ CloseStep

Spec == Init /\ [][Next]_vars

(***************************************************************************)
(* Goroutines that can run do run.  A sender that waits on toClient while  *)
(* sendAll keeps receiving is served at last (select and the queue of a    *)
(* channel are fair).  Once the context is done nobody answers pings, so   *)
(* the pending read ends by its deadline of wsPongWait.                    *)
(***************************************************************************)
Fairness ==
  /\ WF_vars(ReceiveStep)
  /\ WF_vars(egDone /\ ReadFails)
  /\ WF_vars(SendStep)
  /\ SF_vars(TakeReply)
  /\ \A k \in Insts : SF_vars(SendText(k))
  /\ WF_vars(CloseStep)

FairSpec == Spec /\ Fairness

-----------------------------------------------------------------------------
\* A subscription that was not canceled is the one its identifier's
\* unsubscriber cancels, so an identifier has one subscription at a time,
\* and the unsubscribe command and Close reach every one of them
\* (connections.go:139-144, 181-202).
UnsubscriberReachesSub ==
  \A k \in Insts : sub[k] \in {"live", "refused"}
                     => unsubscribers[ident[k]] = k

\* Nothing of the connection outlives it: the goroutine that reads the
\* WebSocket has ended when Serve returns, whichever command or error ended
\* receiveAll (connections.go:263-268), so Close does not pull the WebSocket
\* and err from under it; and disconnect, which looks at unsubscribers only,
\* has canceled every subscription ever made (connections.go:141-144).
CloseLeavesNothing ==
  /\ main # "serving" => reader # "reading"
  /\ main \in {"disconnected", "closed"} =>
       \A k \in Insts : sub[k] \in {"unused", "canceled"}

\* receiveAll waits in a bare send and its only receiver has left.
ReplyIsStuck == rx = "reply" /\ tx = "returned"

\* Once its context is done Serve returns and the connection is closed,
\* unless a reply is stuck.
ServeEnds == egDone ~> main = "closed" \/ ReplyIsStuck

\* SendText returns, or panics, so the callbacks that Broadcast waits for
\* complete (assumed of every callback in Hub).
SendTextReturns == \A k \in Insts : send[k] = "sending" ~> send[k] # "sending"

\* connections.go:145-147: "We leave the toClient channel open because
\* Subscriptions can send into it".
NoSendOnClosed == \A k \in Insts : send[k] # "panicked"

\* connections.go:258-259: a read must not "delay context cancelation": once
\* the context is done, Serve returns.
CancelationEndsServe == egDone ~> main # "serving"
=============================================================================
