------------------------------- MODULE MCHub -------------------------------
(***************************************************************************)
(* Instances of Hub for TLC: three subscriptions, two of them on the same  *)
(* topic, so that a topic can lose one subscription and keep another, and  *)
(* two callers, so that Cancel and Close race.                             *)
(***************************************************************************)
EXTENDS Hub

CONSTANTS t1, t2, s1, s2, s3

MCTopicOf == [s \in Subs |-> IF s = s3 THEN t2 ELSE t1]
=============================================================================
