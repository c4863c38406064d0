--------------------------- MODULE MCSessionStore ---------------------------
(***************************************************************************)
(* Instances of SessionStore for TLC: requests that can share a session,   *)
(* and a cleaner, on one writer and one reader.                            *)
(***************************************************************************)
EXTENDS SessionStore, TLC

RequestSymmetry == Permutations(Requests)
=============================================================================
