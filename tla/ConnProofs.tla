---------------------------- MODULE ConnProofs ----------------------------
(***************************************************************************)
(* What holds of every connection, for any set of identifiers and any      *)
(* number of subscribe commands: the invariants that ConnSafety checks on  *)
(* a small instance.                                                       *)
(***************************************************************************)
EXTENDS Conn, TLAPS

\* An unsubscriber belongs to a subscription that was made and so has an
\* identifier; there is a reply when one is about to be sent, and a message
\* when one is about to be written.
CommandInv ==
  /\ \A k \in Insts : sub[k] # "unused" => ident[k] \in Idents
  /\ \A i \in Idents : unsubscribers[i] # NoInst
                        => sub[unsubscribers[i]] # "unused"
  /\ rx = "reply" => reply \in Answers
  /\ tx = "write" => message # NoMessage

\* Serve waits for both its goroutines, and receiveAll for the goroutine that
\* reads: it handles a command, and returns, only after that has ended.  Once
\* disconnect ran no subscription is left.
CloseInv ==
  /\ main # "serving" => rx = "returned" /\ tx = "returned"
  /\ rx \in {"handle", "reply", "returned"} => reader # "reading"
  /\ main \in {"disconnected", "closed"} =>
       \A k \in Insts : sub[k] \in {"unused", "canceled"}

ConnInv == /\ ConnTypeOK
           /\ CommandInv
           /\ UnsubscriberReachesSub
           /\ CloseInv

\* Upgrade makes a connection that satisfies the invariant.
LEMMA ConnInit == Init => ConnInv
<1> SUFFICES ASSUME Init PROVE ConnInv
  OBVIOUS
<1> USE DEF Init
<1>1. ConnTypeOK
  BY DEF ConnTypeOK
<1>2. CommandInv /\ CloseInv
  BY DEF CommandInv, CloseInv
<1>3. UnsubscriberReachesSub
  BY DEF UnsubscriberReachesSub
<1> QED
  BY <1>1, <1>2, <1>3 DEF ConnInv

\* The reads of receiveAll and its returns keep the invariant.
LEMMA ReadStep ==
  ASSUME ConnInv,
         \/ \E c \in Commands, i \in Idents : ReadCommand(c, i)
         \/ ReadFails \/ Drain \/ Drained \/ Receive \/ CommandFails
  PROVE  ConnInv'
<1> USE DEF ConnInv, ConnTypeOK, CommandInv, UnsubscriberReachesSub,
            CloseInv, txVars, subVars
<1>1. ASSUME NEW c \in Commands, NEW i \in Idents, ReadCommand(c, i)
      PROVE  ConnInv'
  BY <1>1 DEF ReadCommand, NoMessage, Commands
<1>2. CASE ReadFails
  BY <1>2 DEF ReadFails
<1>3. CASE Drain \/ Drained \/ Receive \/ CommandFails
  BY <1>3 DEF Drain, Drained, Receive, CommandFails, ReceiveReturns
<1> QED
  BY <1>1, <1>2, <1>3

\* The subscribe command keeps one subscription per identifier, in reach of
\* its unsubscriber and with its channel.
LEMMA SubscribeStep ==
  ASSUME ConnInv, NEW i \in Idents,
         \/ SubscribeAgain(i) \/ SubscribeFails(i)
         \/ \E k \in Insts, result \in {"live", "refused"} :
              SubscribeOK(i, k, result)
  PROVE  ConnInv'
<1> USE NoInstAssumption
    DEF ConnInv, ConnTypeOK, CommandInv, UnsubscriberReachesSub,
        CloseInv, txVars, Reply, Replies,
        Answers, AlreadySubscribed
<1>1. CASE SubscribeAgain(i)
  BY <1>1 DEF SubscribeAgain, subVars
<1>2. CASE SubscribeFails(i)
  BY <1>2 DEF SubscribeFails
<1>3. ASSUME NEW k \in Insts, NEW result \in {"live", "refused"},
             SubscribeOK(i, k, result)
      PROVE  ConnInv'
  <2>1. sub[k] = "unused" /\ unsubscribers[i] = NoInst
    BY <1>3 DEF SubscribeOK, Unused
  <2>2. ConnTypeOK'
    BY <1>3 DEF SubscribeOK
  <2>3. UnsubscriberReachesSub'
    BY <1>3, <2>1 DEF SubscribeOK
  <2>5. CommandInv'
    <3>1. /\ sub' = [sub EXCEPT ![k] = result]
          /\ ident' = [ident EXCEPT ![k] = i]
          /\ unsubscribers' = [unsubscribers EXCEPT ![i] = k]
          /\ reply' = <<"confirm", i>>
          /\ UNCHANGED <<tx, message>>
      BY <1>3 DEF SubscribeOK
    <3> QED
      BY <3>1
  <2>6. CloseInv'
    BY <1>3 DEF SubscribeOK
  <2> QED
    BY <2>2, <2>3, <2>5, <2>6
<1> QED
  BY <1>1, <1>2, <1>3

\* The other commands.
LEMMA CommandStep ==
  ASSUME ConnInv, NEW i \in Idents, Unsubscribe(i) \/ Action(i)
  PROVE  ConnInv'
<1> USE NoInstAssumption
    DEF ConnInv, ConnTypeOK, CommandInv, UnsubscriberReachesSub,
        CloseInv, txVars, subVars, ReceiveNext,
        AlreadySubscribed
<1>1. CASE Unsubscribe(i)
  <2>1. CASE AlreadySubscribed(i)
    <3>1. unsubscribers[i] \in Insts
      BY <2>1
    <3>2. ConnTypeOK'
      BY <1>1, <2>1, <3>1 DEF Unsubscribe
    <3>3. UnsubscriberReachesSub'
      BY <1>1, <2>1, <3>1 DEF Unsubscribe
    <3>4. CommandInv'
      BY <1>1, <2>1, <3>1 DEF Unsubscribe
    <3>5. CloseInv'
      BY <1>1, <2>1, <3>1 DEF Unsubscribe
    <3> QED
      BY <3>2, <3>3, <3>4, <3>5
  <2>2. CASE ~AlreadySubscribed(i)
    BY <1>1, <2>2 DEF Unsubscribe
  <2> QED
    BY <2>1, <2>2
<1>2. CASE Action(i)
  BY <1>2 DEF Action
<1> QED
  BY <1>1, <1>2

\* sendAll.
LEMMA SendAllStep ==
  ASSUME ConnInv, SendStep \/ TakeReply \/ WriteFails
  PROVE  ConnInv'
<1> USE DEF ConnInv, ConnTypeOK, CommandInv, UnsubscriberReachesSub,
            CloseInv, rxVars, txVars, subVars
<1>1. CASE Welcome \/ SendAllDone \/ WriteFails
  BY <1>1 DEF Welcome, SendAllDone, WriteFails, SendReturns
<1>2. CASE TakeReply
  <2>1. reply \in Answers /\ reply # NoMessage
    BY <1>2 DEF TakeReply, Answers, Replies, NoMessage
  <2>2. CASE reply[1] = "reject"
    BY <1>2, <2>1, <2>2 DEF TakeReply, ReceiveReturns
  <2>3. CASE reply[1] # "reject"
    BY <1>2, <2>1, <2>3 DEF TakeReply, ReceiveNext
  <2> QED
    BY <2>2, <2>3
<1>3. CASE Write
  BY <1>3 DEF Write, SendReturns
<1> QED
  BY <1>1, <1>2, <1>3 DEF SendStep

\* The callbacks, Serve and Close.
LEMMA OtherStep ==
  ASSUME ConnInv,
         \/ \E k \in Insts : CallbackStarts(k) \/ SendText(k)
         \/ ServeContextDone
         \/ CloseStep
  PROVE  ConnInv'
<1> USE NoInstAssumption
    DEF ConnInv, ConnTypeOK, CommandInv, UnsubscriberReachesSub,
        CloseInv, rxVars, txVars, subVars
<1>1. ASSUME NEW k \in Insts, CallbackStarts(k) \/ SendText(k)
      PROVE  ConnInv'
  BY <1>1 DEF CallbackStarts, SendText, SendTextDone, SendTextSends,
              SendTextPanics, Data, NoMessage
<1>2. CASE ServeContextDone
  BY <1>2 DEF ServeContextDone
<1>2a. CASE ServeReturns
  BY <1>2a DEF ServeReturns, Wait
<1>2b. CASE CloseToClient
  BY <1>2b DEF CloseToClient
<1>3. CASE Disconnect
  <2>1. ConnTypeOK'
    BY <1>3 DEF Disconnect
  <2>2. UnsubscriberReachesSub'
    BY <1>3 DEF Disconnect
  <2>3. CommandInv'
    BY <1>3 DEF Disconnect
  <2>4. CloseInv'
    BY <1>3 DEF Disconnect
  <2> QED
    BY <2>1, <2>2, <2>3, <2>4
<1> QED
  BY <1>1, <1>2, <1>2a, <1>2b, <1>3 DEF CloseStep

\* The invariant holds in every reachable state of a connection.
THEOREM ConnInvariant == Spec => []ConnInv
<1>1. ConnInv /\ [Next]_vars => ConnInv'
  <2> SUFFICES ASSUME ConnInv, [Next]_vars PROVE ConnInv'
    OBVIOUS
  <2>1. CASE UNCHANGED vars
    BY <2>1 DEF vars, rxVars, txVars, subVars, ConnInv, ConnTypeOK,
         CommandInv, UnsubscriberReachesSub, CloseInv
  <2> QED
    BY <2>1, ReadStep, SubscribeStep, CommandStep, SendAllStep, OtherStep
       DEF Next, ReceiveStep
<1> QED
  BY ConnInit, <1>1, PTL DEF Spec

\* A connection keeps its state of its types.
THEOREM ConnTypeCorrect == Spec => []ConnTypeOK
BY ConnInvariant, PTL DEF ConnInv

\* The unsubscribe command and Close reach every subscription of a
\* connection, and an identifier has one at a time.
THEOREM UnsubscribersReachSubs == Spec => []UnsubscriberReachesSub
BY ConnInvariant, PTL DEF ConnInv

\* Neither the read goroutine nor a subscription outlives a connection.
THEOREM CloseLeavesNone == Spec => []CloseLeavesNothing
<1>1. ConnInv => CloseLeavesNothing
  BY DEF ConnInv, CloseInv, CloseLeavesNothing
<1> QED
  BY ConnInvariant, <1>1, PTL
=============================================================================
