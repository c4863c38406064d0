------------------------------- MODULE MCConn -------------------------------
(***************************************************************************)
(* Instances of Conn for TLC: an identifier that can be subscribed to and  *)
(* one that cannot, and as many subscriptions as a client needs to         *)
(* subscribe, unsubscribe and subscribe again while a callback of the      *)
(* first one is still sending.                                             *)
(***************************************************************************)
EXTENDS Conn
=============================================================================
