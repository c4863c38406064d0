------------------------------ MODULE Registry ------------------------------
(***************************************************************************)
(* What a Hub promises (the doc comments of pubsub/hub.go), without lock,  *)
(* map, goroutines or method calls: subscriptions come and go, each of     *)
(* them once, and a feed of changes keeps its reader informed of the       *)
(* topics that have subscriptions.  The set of subscriptions changes only  *)
(* when the reader knows the topics as they are, so the feed is at most    *)
(* one change behind; closing ends the feed and every subscription.        *)
(***************************************************************************)
CONSTANTS Subs, TopicOf

VARIABLES active,  \* subscriptions that get messages
          ended,   \* subscriptions that were active and never will be again
          feed,    \* the topics as the reader of the feed knows them
          hasFeed, \* there is a feed, and it has not been ended
          over     \* closed

vars == <<active, ended, feed, hasFeed, over>>

ActiveTopics == {TopicOf[s] : s \in active}

Informed == hasFeed => feed = ActiveTopics

Init == /\ active = {}
        /\ ended = {}
        /\ feed = {}
        /\ hasFeed \in BOOLEAN
        /\ over = FALSE

\* A new subscription becomes active.
Add(s) == /\ ~over
          /\ Informed
          /\ s \notin active \cup ended
          /\ active' = active \cup {s}
          /\ UNCHANGED <<ended, feed, hasFeed, over>>

\* Subscriptions end together: one by its context, or all those of some
\* topics.
Remove(S) == /\ Informed
             /\ S \subseteq active
             /\ active' = active \ S
             /\ ended' = ended \cup S
             /\ UNCHANGED <<feed, hasFeed, over>>

\* The reader of the feed learns of the change.
Notify == /\ hasFeed
          /\ feed' = ActiveTopics
          /\ UNCHANGED <<active, ended, hasFeed, over>>

\* The feed ends without reporting what is removed.
Close == /\ Informed
         /\ active' = {}
         /\ ended' = ended \cup active
         /\ hasFeed' = FALSE
         /\ over' = TRUE
         /\ UNCHANGED feed

Next == \/ \E s \in Subs : Add(s)
        \/ \E S \in SUBSET Subs : Remove(S)
        \/ Notify
        \/ Close

Spec == Init /\ [][Next]_vars
=============================================================================
