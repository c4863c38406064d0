------------------------------ MODULE MCBroker ------------------------------
(***************************************************************************)
(* Instances of Broker for TLC.  Every Added change comes from a Subscribe *)
(* call, so as many PUB handler goroutines as subscriptions are enough.    *)
(***************************************************************************)
EXTENDS Broker

CONSTANTS t1, t2, s1, s2, s3

MCTopicOf == [s \in Subs |-> IF s = s3 THEN t2 ELSE t1]
=============================================================================
